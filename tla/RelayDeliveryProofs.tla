------------------------ MODULE RelayDeliveryProofs ------------------------
(***************************************************************************)
(* The steps at which the relay accepts a message or a commit, and the     *)
(* theorem: for any group and any traffic, a message the relay accepted    *)
(* reaches every member of its epoch and nobody else.                      *)
(***************************************************************************)
EXTENDS RelayTrafficProofs

\* Storing one event appends it, storing none changes nothing.
LEMMA Stored ==
  ASSUME NEW S, NEW s \in Seq(S), NEW x \in S
  PROVE  s \o <<x>> = Append(s, x) /\ s \o << >> = s
<1>1. s \o <<x>> \in Seq(S) /\ s \o << >> \in Seq(S) /\ Append(s, x) \in Seq(S) /\ Len(s) \in Nat
  OBVIOUS
<1>2. Len(s \o <<x>>) = Len(s) + 1 /\ Len(Append(s, x)) = Len(s) + 1 /\ Len(s \o << >>) = Len(s)
  OBVIOUS
<1>3. \A i \in 1 .. Len(s) + 1 : (s \o <<x>>)[i] = Append(s, x)[i]
  OBVIOUS
<1>4. \A i \in 1 .. Len(s) : (s \o << >>)[i] = s[i]
  OBVIOUS
<1> QED
  BY <1>1, <1>2, <1>3, <1>4

-----------------------------------------------------------------------------
(* A message of the epoch the relay is in.                                 *)

Posted(e) ==
  /\ UNCHANGED <<commits, messages, session, heard, roster, log, unacked, read>>
  /\ e \in Events /\ e.kind = "message" /\ e = Event("message", e.n)
  /\ e.n \in DOMAIN messages /\ Accepted(messages[e.n].at) /\ EpochOf(messages[e.n].at) = Len(log)
  /\ relayed' = relayed \cup {e.n}
  /\ mailbox' \in [Clients -> Seq(Events)]
  /\ \A d \in Clients :
       /\ Grown(mailbox[d], mailbox'[d], e)
       /\ d \in Audience(e.n) =>
            \E p \in DOMAIN mailbox'[d] : mailbox'[d][p] = e /\ p \notin DOMAIN mailbox[d]
       /\ d \notin Audience(e.n) => mailbox'[d] = mailbox[d]

LEMMA MessageTaken ==
  ASSUME IInv, NEW c \in Clients, NEW e, HandedOver(c, e), e.kind = "message"
  PROVE  /\ e.n \in DOMAIN messages /\ messages[e.n].by = c /\ Accepted(messages[e.n].at)
         /\ e = Event("message", e.n)
<1>1. Submitted(c, 1) /\ outbox[c][1] = e /\ e \in Events
  BY Zenon DEF IInv, OutboxInv, HandedOver
<1>2. e = Event("message", e.n)
  BY <1>1 DEF Events, Event
<1>3. ~\E j \in DOMAIN outbox[c] : j < 1
  BY DEF HandedOver
<1> QED
  BY Zenon, <1>1, <1>2, <1>3 DEF Submitted

LEMMA MessagePosted ==
  ASSUME IInv, NEW c \in Clients, NEW e, HandedOver(c, e), e.kind = "message",
         handle_message(c), e = Head(outbox[c]), validate_group_message(c, e.n)
  PROVE  Posted(e)
<1>1. /\ relayed' = relayed \cup {e.n}
      /\ mailbox' = [d \in Clients |->
           IF d \in message_recipients(c) THEN Append(mailbox[d], e) ELSE mailbox[d]]
      /\ UNCHANGED <<commits, messages, session, heard, roster, log, unacked, read>>
  BY Zenon DEF handle_message, client
<1>2. /\ e.n \in DOMAIN messages /\ messages[e.n].by = c /\ Accepted(messages[e.n].at)
      /\ e = Event("message", e.n)
  BY Zenon, MessageTaken
<1>3. Audience(e.n) = message_recipients(c) /\ EpochOf(messages[e.n].at) = Len(log)
  <2>1. PICK j \in DOMAIN log : log[j] = messages[e.n].at
    BY Zenon, <1>2 DEF Accepted
  <2>2. EpochOf(messages[e.n].at) = Len(log) /\ EpochOf(log[j]) = j
    <3>1. EpochOf(log[j]) = j /\ roster.epoch = Len(log)
      BY Zenon DEF IInv, LogInv
    <3>2. commits[messages[e.n].at].epoch = roster.epoch
      BY Zenon DEF validate_group_message
    <3> QED
      BY Zenon, <3>1, <3>2 DEF EpochOf
  <2>3. messages[e.n].at = log[Len(log)]
    BY Zenon, <2>1, <2>2
  <2>4. Audience(e.n) = roster.members \ {c}
    BY Zenon, <1>2, <2>3 DEF Audience, IInv, LogInv, MembersOf
  <2> QED
    BY Zenon, <2>2, <2>4 DEF message_recipients, commit_recipients
<1>4. e \in Events /\ mailbox \in [Clients -> Seq(Events)]
  BY Zenon DEF HandedOver, IInv, MailInv
<1>5. mailbox' \in [Clients -> Seq(Events)]
  BY <1>1, <1>4
<1>6. \A d \in Clients :
        /\ Grown(mailbox[d], mailbox'[d], e)
        /\ d \in Audience(e.n) =>
             \E p \in DOMAIN mailbox'[d] : mailbox'[d][p] = e /\ p \notin DOMAIN mailbox[d]
        /\ d \notin Audience(e.n) => mailbox'[d] = mailbox[d]
  BY <1>1, <1>3, <1>4, GrownBy
<1> QED
  BY Zenon, <1>1, <1>2, <1>3, <1>4, <1>5, <1>6 DEF Posted

\* It changes nothing about the events that are there.
LEMMA PostedFacts ==
  ASSUME IInv, NEW e, Posted(e)
  PROVE  /\ \A d, x : Addressed(d, x) => Addressed(d, x)'
         /\ \A d, x : Fresh(d, x)' <=> Fresh(d, x)
         /\ \A x : EpochOf(x)' = EpochOf(x)
         /\ \A d : Level(d)' = Level(d)
         /\ \A d : ~Fresh(d, e)
  BY ZenonT(30) DEF Posted, Addressed, Fresh, Level, EpochOf, MembersOf, Audience, IsChange

LEMMA PostedMail ==
  ASSUME IInv, NEW e, Posted(e)
  PROVE  MailInv'
<1>1. ASSUME NEW d \in Clients, NEW p \in DOMAIN mailbox'[d], NEW x, x = mailbox'[d][p]
      PROVE  Addressed(d, x)'
  <2>1. CASE p \in DOMAIN mailbox[d]
    <3>1. Addressed(d, x)
      BY <1>1, <2>1, SMTT(30) DEF Posted, Grown, IInv, MailInv
    <3> QED
      BY <3>1, PostedFacts
  <2>2. CASE p \notin DOMAIN mailbox[d]
    <3>1. x = e /\ d \in Audience(e.n)
      BY Zenon, <1>1, <2>2 DEF Posted, Grown
    <3> QED
      BY Zenon, <3>1 DEF Posted, Addressed, IsChange, Audience
  <2> QED
    BY <2>1, <2>2
<1>2. ASSUME NEW d \in Clients, NEW x \in unacked'[d]
      PROVE  Addressed(d, x)' /\ ~Fresh(d, x)'
  <2>1. Addressed(d, x) /\ ~Fresh(d, x)
    BY Zenon DEF Posted, IInv, MailInv
  <2> QED
    BY <2>1, PostedFacts
<1>3. ASSUME NEW d \in Clients, NEW p \in DOMAIN mailbox'[d], NEW q \in DOMAIN mailbox'[d], p < q,
             NEW x, x = mailbox'[d][p], NEW y, y = mailbox'[d][q], Fresh(d, x)', Fresh(d, y)'
      PROVE  EpochOf(x.n) < EpochOf(y.n)
  <2>1. Fresh(d, x) /\ Fresh(d, y) /\ x # e /\ y # e
    BY <1>3, PostedFacts
  <2>2. p \in DOMAIN mailbox[d] /\ q \in DOMAIN mailbox[d] /\ x = mailbox[d][p] /\ y = mailbox[d][q]
    BY <1>3, <2>1 DEF Posted, Grown
  <2> QED
    BY Zenon, <1>3, <2>1, <2>2 DEF IInv, MailInv
<1>4. /\ UNCHANGED commits /\ mailbox' \in [Clients -> Seq(Events)]
      /\ unacked' \in [Clients -> SUBSET Events]
  BY Zenon DEF Posted, IInv, MailInv
<1> QED
  BY <1>1, <1>2, <1>3, <1>4, MailFrom

LEMMA PostedComplete ==
  ASSUME IInv, NEW e, Posted(e)
  PROVE  CompleteInv'
<1>1. UNCHANGED <<commits, log>> /\ \A d : Level(d)' = Level(d)
  BY PostedFacts, Zenon DEF Posted
<1> SUFFICES ASSUME NEW d \in Clients, NEW i \in DOMAIN log, i > Level(d)
             PROVE  /\ commits[log[i]].by # d
                    /\ d \in MembersOf(log[i - 1]) =>
                         \E p \in DOMAIN mailbox'[d] : mailbox'[d][p] = Event("commit", log[i])
                    /\ d \in commits[log[i]].add =>
                         \E p \in DOMAIN mailbox'[d] : mailbox'[d][p] = Event("welcome", log[i])
  BY <1>1 DEF CompleteInv, MembersOf
<1>2. \A x : (\E p \in DOMAIN mailbox[d] : mailbox[d][p] = x)
               => \E p \in DOMAIN mailbox'[d] : mailbox'[d][p] = x
  BY Zenon DEF Posted, Grown
<1> QED
  BY <1>2 DEF IInv, CompleteInv

\* A message that waits keeps its place.
LEMMA PostedKeeps ==
  ASSUME IInv, NEW e, Posted(e), NEW d \in Clients, NEW m, NEW p \in DOMAIN mailbox[d], InPlace(d, m, p)
  PROVE  \E q \in DOMAIN mailbox'[d] : InPlace(d, m, q)'
<1>1. p \in DOMAIN mailbox'[d] /\ mailbox'[d][p] = Event("message", m)
  BY Zenon DEF Posted, Grown, InPlace
<1>2. ASSUME NEW q \in DOMAIN mailbox'[d], NEW x, x = mailbox'[d][q], Fresh(d, x)'
      PROVE  q < p <=> EpochOf(x.n) <= EpochOf(messages[m].at)
  <2>1. Fresh(d, x) /\ x # e
    BY <1>2, PostedFacts
  <2>2. q \in DOMAIN mailbox[d] /\ x = mailbox[d][q]
    BY Zenon, <1>2, <2>1 DEF Posted, Grown
  <2> QED
    BY Zenon, <2>1, <2>2 DEF InPlace
<1>3. Level(d)' <= EpochOf(messages[m].at) /\ UNCHANGED <<commits, messages>>
  <2>1. Level(d)' = Level(d)
    BY PostedFacts, Zenon
  <2> QED
    BY Zenon, <2>1 DEF InPlace, Posted
<1>4. InPlace(d, m, p)'
  BY Zenon, <1>1, <1>2, <1>3 DEF InPlace, Fresh, EpochOf
<1> QED
  BY <1>1, <1>4

\* The new one comes after every change of the mailbox.
LEMMA PostedArrives ==
  ASSUME IInv, NEW e, Posted(e), NEW d \in Clients, d \in Audience(e.n)
  PROVE  \E q \in DOMAIN mailbox'[d] : InPlace(d, e.n, q)'
<1>1. PICK p \in DOMAIN mailbox'[d] : mailbox'[d][p] = e /\ p \notin DOMAIN mailbox[d]
  BY Zenon DEF Posted
<1>2. ASSUME NEW q \in DOMAIN mailbox'[d], NEW x, x = mailbox'[d][q], Fresh(d, x)'
      PROVE  q < p /\ EpochOf(x.n) <= EpochOf(messages[e.n].at)
  <2>1. Fresh(d, x) /\ x # e
    BY <1>2, PostedFacts
  <2>2. q \in DOMAIN mailbox[d] /\ x = mailbox[d][q] /\ q < p
    BY Zenon, <1>1, <1>2, <2>1 DEF Posted, Grown
  <2>3. Addressed(d, x) /\ IsChange(x)
    BY <2>1, <2>2 DEF IInv, MailInv, Fresh
  <2>4. EpochOf(x.n) \in DOMAIN log /\ DOMAIN log = 1 .. Len(log)
    BY Zenon, <2>3, ChangeFacts, LogFacts DEF IInv
  <2> QED
    BY <2>2, <2>4 DEF Posted
<1>3. Level(d)' <= EpochOf(messages[e.n].at) /\ UNCHANGED <<commits, messages>>
  <2>1. Level(d)' = Level(d)
    BY PostedFacts
  <2>2. Level(d) \in DOMAIN log /\ DOMAIN log = 1 .. Len(log)
    BY Zenon, LogFacts DEF IInv, SessionInv
  <2> QED
    BY <2>1, <2>2, SMTT(30) DEF Posted
<1>4. e = Event("message", e.n)
  BY Zenon DEF Posted
<1>5. InPlace(d, e.n, p)'
  BY Zenon, <1>1, <1>2, <1>3, <1>4 DEF InPlace, Fresh, EpochOf
<1> QED
  BY <1>1, <1>5

LEMMA PostedMessages ==
  ASSUME IInv, NEW e, Posted(e)
  PROVE  MessageInv'
<1>1. /\ \A m : Audience(m)' = Audience(m)
      /\ \A d, m : Excused(d, m)' <=> Excused(d, m)
      /\ \A m : Accepted(m)' <=> Accepted(m)
  BY Zenon DEF Posted, Audience, Excused, committed_past, shut_out, EpochOf, Accepted
<1>2. \A m \in relayed' : m \in DOMAIN messages /\ Accepted(messages[m].at)
  BY Zenon DEF Posted, IInv, MessageInv
<1>3. \A m \in relayed' : Audience(m) \subseteq Clients
  BY Zenon, <1>2, LogFacts DEF IInv, Accepted, Audience, MembersOf
<1>4. ASSUME NEW m \in relayed', NEW d \in Audience(m)
      PROVE  m \in read[d] \/ Excused(d, m) \/ \E q \in DOMAIN mailbox'[d] : InPlace(d, m, q)'
  <2>1. d \in Clients
    BY <1>3
  <2>2. CASE m = e.n
    BY <2>1, <2>2, PostedArrives
  <2>3. CASE m \in relayed
    <3>1. m \in read[d] \/ Excused(d, m) \/ \E p \in DOMAIN mailbox[d] : InPlace(d, m, p)
      BY <2>3 DEF IInv, MessageInv
    <3> QED
      BY <2>1, <3>1, PostedKeeps
  <2> QED
    BY Zenon, <2>2, <2>3 DEF Posted
<1>5. /\ read' = read /\ messages' = messages
      /\ read \in [Clients -> SUBSET relayed'] /\ \A d \in Clients : \A m \in read[d] : d \in Audience(m)
  BY Zenon DEF IInv, MessageInv, Posted
<1> QED
  BY <1>1, <1>2, <1>4, <1>5 DEF MessageInv, Accepted

\* The relay accepts a message of c, or drops it.
LEMMA MessageStep ==
  ASSUME IInv, NEW c \in Clients, handle_message(c)
  PROVE  IInv'
<1>1. PICK e : e = Head(outbox[c])
  OBVIOUS
<1>2. /\ outbox[c] # << >> /\ e.kind = "message"
      /\ outbox' = [outbox EXCEPT ![c] = Tail(@)]
      /\ UNCHANGED <<commits, messages, session, heard, unanswered, roster, log, unacked, losses, read>>
  BY Zenon, <1>1 DEF handle_message, client
<1>3. HandedOver(c, e)
  BY <1>1, <1>2, HandsOver, Zenon
<1>4. CommitsInv' /\ LogInv' /\ JoinInv' /\ SessionInv'
  <2>1. CommitsInv'
    BY Zenon, <1>2 DEF IInv, CommitsInv, WellMade
  <2>2. LogInv' /\ JoinInv'
    BY Zenon, <1>2 DEF IInv, LogInv, JoinInv, EpochOf, MembersOf
  <2>3. SessionInv'
    BY <1>2, SessionKept
  <2> QED
    BY <2>1, <2>2, <2>3
<1>5. OutboxInv'
  BY <1>2, <1>3, MessageLeaves
<1>6. CASE ~validate_group_message(c, e.n)
  <2>1. UNCHANGED <<relayed, mailbox>>
    BY <1>1, <1>6 DEF handle_message
  <2>2. Kept
    BY <1>2, <2>1 DEF Kept
  <2>3. MailInv' /\ CompleteInv' /\ MessageInv'
    BY <2>2, KeptMail, KeptComplete, KeptMessages, Zenon
  <2> QED
    BY <1>4, <1>5, <2>3, Zenon DEF IInv
<1>7. CASE validate_group_message(c, e.n)
  <2>1. Posted(e)
    BY <1>1, <1>2, <1>3, <1>7, MessagePosted, Zenon
  <2> QED
    BY <1>4, <1>5, <2>1, PostedMail, PostedComplete, PostedMessages, Zenon DEF IInv
<1> QED
  BY <1>6, <1>7

-----------------------------------------------------------------------------
(* A commit the relay accepts.                                             *)

\* It is made on the last accepted one.
NextCommit(c, k) ==
  /\ k \in DOMAIN commits /\ k # 1 /\ commits[k].by = c /\ WellMade(k)
  /\ Level(c) = Len(log) /\ InStep(c, Len(log))
  /\ commits[k].base = log[Len(log)] /\ EpochOf(k) = Len(log) + 1
  /\ c \notin commits[k].shut

LongerLog(k) ==
  /\ Len(log) \in Nat /\ Len(log) >= 1 /\ DOMAIN log = 1 .. Len(log)
  /\ log' \in Seq(DOMAIN commits) /\ Len(log') = Len(log) + 1 /\ DOMAIN log' = 1 .. Len(log) + 1
  /\ log'[Len(log) + 1] = k /\ \A i \in DOMAIN log : i \in DOMAIN log' /\ log'[i] = log[i]

NewMembers(c, k) ==
  /\ c \in MembersOf(log[Len(log)]) /\ c \notin commits[k].add /\ c \in MembersOf(k)
  /\ commits[k].add \cap MembersOf(log[Len(log)]) = {}
  /\ MembersOf(k) = (MembersOf(log[Len(log)]) \ commits[k].remove) \cup commits[k].add

Extended(c, k) ==
  /\ UNCHANGED <<commits, messages, relayed, unacked, read>>
  /\ NextCommit(c, k) /\ LongerLog(k) /\ NewMembers(c, k)

LEMMA CommitExtends ==
  ASSUME IInv, NEW c \in Clients, NEW e, HandedOver(c, e), e.kind = "commit",
         handle_commit(c), e = Head(outbox[c]), accept_commit(c, e.n)
  PROVE  Extended(c, e.n) /\ roster' = [epoch |-> Len(log) + 1, members |-> MembersOf(e.n)]
<1> DEFINE k == e.n
           N == Len(log)
<1>1. /\ validate_commit(c, k) /\ apply_commit_to_roster(k) /\ log' = Append(log, k)
      /\ UNCHANGED <<commits, messages, relayed, unacked, read>>
  BY Zenon DEF handle_commit, accept_commit
<1>2. k \in unanswered[c]
  BY SMTT(30) DEF HandedOver, IInv, OutboxInv, Submitted
<1>3. k \in DOMAIN commits /\ k # 1
  BY Zenon, <1>2 DEF IInv, SessionInv
<1>4. /\ commits[k].by = c /\ Home(c) # Nowhere /\ commits[k].base = Home(c) /\ WellMade(k)
      /\ c \notin commits[k].shut
  <2>1. unanswered[c] # {} /\ session[c].at = k /\ commits[k].by = c /\ commits[k].base # Nowhere
    BY <1>2, OpenCommit
  <2>2. WellMade(k)
    BY Zenon, <1>3 DEF IInv, CommitsInv
  <2>3. c \notin commits[k].shut
    BY Zenon, <2>1, <2>2 DEF WellMade
  <2> QED
    BY Zenon, <2>1, <2>2, <2>3 DEF Home
\* Its base is what the relay accepted last.
<1>5. /\ Level(c) = N /\ InStep(c, N) /\ N \in Nat /\ N >= 1 /\ DOMAIN log = 1 .. N
      /\ commits[k].base = log[N] /\ EpochOf(k) = N + 1
      /\ roster.members = MembersOf(log[N]) /\ roster.epoch = N
  <2>1. PICK L, b : L = Level(c) /\ b = Home(c)
    BY Zenon
  <2>2. L \in DOMAIN log /\ Stands(c, L, b) /\ b # Nowhere /\ commits[k].base = b
    BY Zenon, <1>4, <2>1 DEF IInv, SessionInv, Settled
  <2>3. EpochOf(k) = roster.epoch + 1 /\ roster.epoch = N /\ roster.members = MembersOf(log[N])
    BY Zenon, <1>1 DEF validate_commit, EpochOf, IInv, LogInv
  <2>4. N \in Nat /\ N >= 1 /\ DOMAIN log = 1 .. N
    BY LogFacts DEF IInv
  <2>5. EpochOf(k) = EpochOf(b) + 1
    BY Zenon, <1>4, <2>2 DEF WellMade, EpochOf
  <2>6. ASSUME NEW i \in DOMAIN log, b = log[i]
        PROVE  i = N
    <3>1. EpochOf(b) = i
      BY <2>6 DEF IInv, LogInv
    <3> QED
      BY SMTT(30), <2>3, <2>4, <2>5, <3>1
  <2>7. InStep(c, L)
    <3>1. ASSUME ~InStep(c, L)
          PROVE  FALSE
      <4>1. PICK i \in 1 .. L - 1 : b = log[i]
        BY Zenon, <2>2, <3>1 DEF Stands
      <4>2. i \in DOMAIN log /\ i # N
        BY <2>2, <2>4
      <4> QED
        BY Zenon, <2>6, <4>1, <4>2
    <3> QED
      BY Zenon, <3>1
  <2>8. b = log[L]
    BY Zenon, <2>2, <2>7 DEF Stands
  <2>9. L = N
    BY Zenon, <2>2, <2>6, <2>8
  <2> QED
    BY <2>1, <2>2, <2>3, <2>4, <2>7, <2>8, <2>9, Zenon
<1>6. /\ log' \in Seq(DOMAIN commits) /\ Len(log') = N + 1 /\ DOMAIN log' = 1 .. N + 1
      /\ log'[N + 1] = k /\ \A i \in DOMAIN log : i \in DOMAIN log' /\ log'[i] = log[i]
  BY <1>1, <1>3, Appended DEF IInv, LogInv
<1> HIDE DEF N, k
<1>7. /\ c \in MembersOf(log[N]) /\ c \notin commits[k].add
      /\ c \in MembersOf(k) /\ commits[k].add \cap MembersOf(log[N]) = {}
      /\ MembersOf(k) = (MembersOf(log[N]) \ commits[k].remove) \cup commits[k].add
  BY Zenon, <1>4, <1>5 DEF WellMade, MembersOf
<1>8. roster' = [epoch |-> N + 1, members |-> MembersOf(k)]
  BY Zenon, <1>1, <1>5, <1>7 DEF apply_commit_to_roster, EpochOf
<1> QED
  <2>1. NextCommit(c, k)
    BY <1>3, <1>4, <1>5, Zenon DEF NextCommit, N
  <2>2. LongerLog(k)
    BY <1>5, <1>6, Zenon DEF LongerLog, N
  <2>3. NewMembers(c, k)
    BY <1>7, Zenon DEF NewMembers, N
  <2> QED
    BY <1>1, <1>8, <2>1, <2>2, <2>3, Zenon DEF Extended, N, k

LEMMA ExtendedLog ==
  ASSUME IInv, NEW c, NEW k, Extended(c, k),
         roster' = [epoch |-> Len(log) + 1, members |-> MembersOf(k)]
  PROVE  CommitsInv' /\ LogInv'
<1>1. CommitsInv'
  BY Zenon DEF Extended, IInv, CommitsInv, WellMade
<1>2. \A i \in DOMAIN log' : EpochOf(log'[i]) = i
  BY DEF Extended, NextCommit, LongerLog, IInv, LogInv
<1>3. ASSUME NEW i \in DOMAIN log', i > 1
      PROVE  log'[i] # 1 /\ commits[log'[i]].base = log'[i - 1]
  <2>1. i - 1 \in DOMAIN log /\ log'[i - 1] = log[i - 1]
    BY <1>3 DEF Extended, LongerLog
  <2>2. CASE i \in DOMAIN log
    <3>1. log'[i] = log[i]
      BY <2>2 DEF Extended, LongerLog
    <3> QED
      BY <1>3, <2>1, <2>2, <3>1 DEF IInv, LogInv
  <2>3. CASE i = Len(log) + 1
    BY <2>1, <2>3 DEF Extended, NextCommit, LongerLog
  <2> QED
    BY <2>2, <2>3, SMTT(30) DEF Extended, LongerLog
<1>4. /\ commits' = commits /\ log' \in Seq(DOMAIN commits) /\ Len(log') >= 1
      /\ roster' = [epoch |-> Len(log'), members |-> MembersOf(log'[Len(log')])]
  BY DEF Extended, LongerLog
<1> QED
  BY <1>1, <1>2, <1>3, <1>4 DEF LogInv, EpochOf, MembersOf

LEMMA ExtendedJoin ==
  ASSUME IInv, NEW c, NEW k, Extended(c, k)
  PROVE  JoinInv'
<1> SUFFICES ASSUME NEW d \in Clients, NEW a \in DOMAIN log', NEW b \in DOMAIN log', a < b,
                    d \notin MembersOf(log'[a]), d \in MembersOf(log'[b])
             PROVE  \E j \in a + 1 .. b : d \in commits[log'[j]].add
  <2>1. commits' = commits
    BY DEF Extended
  <2> QED
    BY <2>1 DEF JoinInv, MembersOf
<1>1. a \in DOMAIN log /\ log'[a] = log[a] /\ a \in Nat /\ b \in Nat
  BY DEF Extended, LongerLog
<1>2. ASSUME NEW l \in DOMAIN log, a < l, l <= b, d \in MembersOf(log[l])
      PROVE  \E j \in a + 1 .. b : d \in commits[log'[j]].add
  <2>1. PICK j \in a + 1 .. l : d \in commits[log[j]].add
    BY <1>1, <1>2 DEF IInv, JoinInv
  <2>2. j \in DOMAIN log /\ j \in a + 1 .. b /\ log'[j] = log[j]
    BY <1>1, <1>2, <2>1 DEF Extended, LongerLog
  <2> QED
    BY <2>1, <2>2
<1>3. CASE b \in DOMAIN log
  <2>1. log'[b] = log[b]
    BY <1>3 DEF Extended, LongerLog
  <2> QED
    BY <1>1, <1>2, <1>3, <2>1
<1>4. CASE b = Len(log) + 1
  <2>1. d \in commits[k].add \/ d \in MembersOf(log[Len(log)])
    BY Zenon, <1>4 DEF Extended, LongerLog, NewMembers
  <2>2. CASE d \in commits[k].add
    <3>1. b \in a + 1 .. b /\ log'[b] = k
      BY <1>1, <1>4 DEF Extended, LongerLog
    <3> QED
      BY <2>2, <3>1
  <2>3. CASE d \in MembersOf(log[Len(log)])
    <3>1. a # Len(log) /\ Len(log) \in DOMAIN log /\ Len(log) \in Nat
      BY <1>1, <2>3 DEF Extended, LongerLog
    <3>2. a < Len(log) /\ Len(log) <= b
      BY <1>1, <1>4, <3>1
    <3> QED
      BY <1>2, <2>3, <3>1, <3>2
  <2> QED
    BY <2>1, <2>2, <2>3
<1> QED
  BY <1>3, <1>4 DEF Extended, LongerLog

LEMMA ExtendedAgrees ==
  ASSUME NEW c, NEW k, Extended(c, k)
  PROVE  Agree
  BY Zenon DEF Agree, Extended, LongerLog

\* The author is in the epoch of its commit.
LEMMA AuthorInStep ==
  ASSUME IInv, NEW c, NEW k, Extended(c, k), NEW N, N = Len(log)
  PROVE  InStep(c, N + 1)'
<1>1. /\ N \in Nat /\ DOMAIN log = 1 .. N /\ log'[N + 1] = k /\ commits' = commits
      /\ \A i \in DOMAIN log : log'[i] = log[i]
      /\ c \in MembersOf(log[N]) /\ ~shut_out(c, N)
      /\ c \notin commits[k].shut /\ c \in MembersOf(k)
  BY Zenon DEF Extended, NextCommit, LongerLog, NewMembers, InStep
<1>2. ASSUME NEW j \in 1 .. N + 1, c \in commits[log'[j]].shut,
             \A i \in j + 1 .. N + 1 : c \notin commits[log'[i]].add
      PROVE  FALSE
  <2>1. j # N + 1
    BY Zenon, <1>1, <1>2
  <2>2. j \in 1 .. N /\ j \in DOMAIN log
    BY <1>1, <2>1
  <2>3. \A i \in j + 1 .. N : i \in DOMAIN log /\ i \in j + 1 .. N + 1
    BY <1>1, <2>2
  <2>4. \A i \in j + 1 .. N : c \notin commits[log[i]].add
    BY Zenon, <1>1, <1>2, <2>3
  <2>5. c \in commits[log[j]].shut
    BY Zenon, <1>1, <1>2, <2>2
  <2> QED
    BY Zenon, <1>1, <2>2, <2>4, <2>5 DEF shut_out
<1>3. ~shut_out(c, N + 1)'
  BY Zenon, <1>1, <1>2 DEF shut_out
<1>4. c \in MembersOf(log[N + 1])'
  BY Zenon, <1>1 DEF MembersOf
<1> QED
  BY Zenon, <1>3, <1>4 DEF InStep

LEMMA ExtendedSession ==
  ASSUME IInv, NEW c \in Clients, NEW k, Extended(c, k),
         session' = [session EXCEPT ![c] = installed(@, k)], unanswered' = [unanswered EXCEPT ![c] = {}],
         heard' = [heard EXCEPT ![c] = commits[k].epoch]
  PROVE  /\ SessionInv'
         /\ Level(c)' = Len(log) + 1
         /\ \A d \in Clients : d # c => Level(d)' = Level(d)
         /\ \A d \in Clients : Level(d) \in DOMAIN log /\ Level(d) \in Nat
<1>0. PICK N : N = Len(log)
  BY Zenon
<1>1. /\ N \in Nat /\ DOMAIN log' = 1 .. N + 1 /\ log'[N + 1] = k /\ commits' = commits
      /\ commits[k].epoch = N + 1 /\ Level(c) = N /\ k \in Nat
  <2>1. k \in Nat
    BY LogFacts DEF IInv, Extended, NextCommit
  <2> QED
    BY Zenon, <1>0, <2>1 DEF Extended, NextCommit, LongerLog, EpochOf
<1>2. /\ session' \in [Clients -> [at : Nat, floor : Nat]]
      /\ session'[c] = [at |-> k, floor |-> N + 2]
      /\ \A d \in Clients : d # c => session'[d] = session[d]
  <2>1. session \in [Clients -> [at : Nat, floor : Nat]]
    BY DEF IInv, SessionInv
  <2>2. Floored(c, N, session[c].floor)
    BY Zenon, <1>1 DEF IInv, SessionInv, Settled
  <2>3. N + 1 >= session[c].floor
    BY <1>1, <2>1, <2>2 DEF Floored
  <2>4. installed(session[c], k) = [at |-> k, floor |-> N + 2]
    BY <1>1, <2>3 DEF installed
  <2> QED
    BY <1>1, <2>1, <2>4
<1>3. /\ unanswered' \in [Clients -> SUBSET DOMAIN commits'] /\ unanswered'[c] = {}
      /\ \A d \in Clients : d # c => unanswered'[d] = unanswered[d]
  BY <1>1 DEF IInv, SessionInv
<1>4. heard' \in [Clients -> Nat] /\ heard'[c] = N + 1 /\ \A d \in Clients : d # c => heard'[d] = heard[d]
  BY <1>1 DEF IInv, SessionInv
<1>5. \A d \in Clients : Level(d) \in DOMAIN log /\ Level(d) \in Nat
  BY LogFacts, SMTT(30) DEF IInv, SessionInv
<1>6. Level(c)' \in DOMAIN log' /\ Settled(c)'
  <2>1. InStep(c, N + 1)'
    BY Zenon, <1>0, AuthorInStep
  <2>2. Stands(c, N + 1, k)'
    BY Zenon, <1>1, <2>1 DEF Stands
  <2>3. Floored(c, N + 1, N + 2)'
    BY <1>1 DEF Floored
  <2>4. Level(c)' = N + 1 /\ Home(c)' = k /\ session'[c].floor = N + 2 /\ N + 1 \in DOMAIN log'
    BY <1>1, <1>2, <1>3, <1>4 DEF Level, Home
  <2> QED
    BY Zenon, <2>2, <2>3, <2>4 DEF Settled
<1>7. ASSUME NEW d \in Clients, d # c
      PROVE  Level(d)' = Level(d) /\ Level(d)' \in DOMAIN log' /\ Settled(d)'
  <2>1. Level(d)' = Level(d) /\ Home(d)' = Home(d) /\ session'[d].floor = session[d].floor
    BY Zenon, <1>1, <1>2, <1>3, <1>4, <1>7 DEF Level, Home
  <2> QED
    BY Zenon, <2>1, StaysSettled, ExtendedAgrees
<1>8. ASSUME NEW d \in Clients, NEW l \in unanswered'[d]
      PROVE  /\ unanswered'[d] = {l}
             /\ session'[d].at = l
             /\ l # 1 /\ commits'[l].by = d /\ commits'[l].base # Nowhere
  <2>1. d # c
    BY Zenon, <1>3, <1>8
  <2>2. l \in unanswered[d] /\ unanswered'[d] = unanswered[d] /\ session'[d] = session[d]
    BY Zenon, <1>2, <1>3, <1>8, <2>1
  <2>3. /\ unanswered[d] = {l} /\ session[d].at = l
        /\ l # 1 /\ commits[l].by = d /\ commits[l].base # Nowhere
    BY Zenon, <2>2, OpenCommit
  <2> QED
    BY Zenon, <1>1, <2>2, <2>3
<1>9. \A d \in Clients : Level(d)' \in DOMAIN log' /\ Settled(d)'
  BY Zenon, <1>6, <1>7
<1>10. SessionInv'
  BY Zenon, <1>2, <1>3, <1>4, <1>8, <1>9 DEF SessionInv
<1> QED
  BY <1>0, <1>4, <1>5, <1>7, <1>10, Zenon DEF Level

\* The mail has at most this commit more: who is told, and what.
Told(c, k) == (MembersOf(log[Len(log)]) \ {c}) \cup commits[k].add

Note(k, d) == IF d \in commits[k].add THEN Event("welcome", k) ELSE Event("commit", k)

Announced(c, k) ==
  /\ mailbox' \in [Clients -> Seq(Events)] /\ mailbox'[c] = mailbox[c]
  /\ \A d \in Clients :
       /\ Grown(mailbox[d], mailbox'[d], Note(k, d))
       /\ d \in Told(c, k) => \E p \in DOMAIN mailbox'[d] : mailbox'[d][p] = Note(k, d)
       /\ d \notin Told(c, k) => mailbox'[d] = mailbox[d]

LEMMA NoteFacts ==
  ASSUME IInv, NEW c, NEW k, Extended(c, k), NEW d
  PROVE  /\ IsChange(Note(k, d)) /\ Note(k, d).n = k /\ Note(k, d) \in Events
         /\ Note(k, d).kind = "welcome" <=> d \in commits[k].add
<1>1. k \in Nat
  BY LogFacts DEF IInv, Extended, NextCommit
<1> QED
  BY <1>1 DEF Note, Event, Events, IsChange

LEMMA CommitAnnounced ==
  ASSUME IInv, NEW c \in Clients, NEW k, Extended(c, k),
         mailbox' = [d \in Clients |-> mailbox[d] \o commit_event(c, k, d)]
  PROVE  Announced(c, k)
<1>1. mailbox \in [Clients -> Seq(Events)] /\ \A d : Note(k, d) \in Events
  BY Zenon, NoteFacts DEF IInv, MailInv
<1>2. ASSUME NEW d \in Clients
      PROVE  mailbox'[d] = IF d \in Told(c, k) THEN Append(mailbox[d], Note(k, d)) ELSE mailbox[d]
  <2>1. commit_recipients(c) = MembersOf(log[Len(log)]) \ {c}
    BY Zenon DEF commit_recipients, IInv, LogInv
  <2>2. mailbox[d] \o <<Note(k, d)>> = Append(mailbox[d], Note(k, d))
    BY <1>1, Stored
  <2>3. mailbox[d] \o << >> = mailbox[d]
    BY <1>1, Stored
  <2>4. commits[k].add \cap MembersOf(log[Len(log)]) = {}
    BY Zenon DEF Extended, NewMembers
  <2>5. commit_event(c, k, d) = IF d \in Told(c, k) THEN <<Note(k, d)>> ELSE << >>
    BY Zenon, <2>1, <2>4 DEF commit_event, Told, Note
  <2> QED
    BY Zenon, <2>2, <2>3, <2>5
<1>3. ASSUME NEW d \in Clients
      PROVE  /\ mailbox'[d] \in Seq(Events) /\ Grown(mailbox[d], mailbox'[d], Note(k, d))
             /\ d \in Told(c, k) => \E p \in DOMAIN mailbox'[d] : mailbox'[d][p] = Note(k, d)
  <2>1. mailbox[d] \in Seq(Events) /\ Note(k, d) \in Events
    BY <1>1
  <2>2. /\ Grown(mailbox[d], Append(mailbox[d], Note(k, d)), Note(k, d))
        /\ Grown(mailbox[d], mailbox[d], Note(k, d))
        /\ \E p \in DOMAIN Append(mailbox[d], Note(k, d)) : Append(mailbox[d], Note(k, d))[p] = Note(k, d)
    BY <2>1, GrownBy
  <2>3. Append(mailbox[d], Note(k, d)) \in Seq(Events)
    BY <2>1, Appended
  <2> QED
    BY Zenon, <1>2, <2>1, <2>2, <2>3
<1>4. mailbox' \in [Clients -> Seq(Events)]
  BY <1>3
<1>5. c \notin Told(c, k)
  BY Zenon DEF Told, Extended, NewMembers
<1> QED
  BY Zenon, <1>2, <1>3, <1>4, <1>5 DEF Announced

Raised(c) ==
  /\ Level(c)' = Len(log) + 1
  /\ \A d \in Clients : d # c => Level(d)' = Level(d)
  /\ \A d \in Clients : Level(d) \in DOMAIN log /\ Level(d) \in Nat

\* What was in the mail is of an epoch before.
LEMMA EarlierMail ==
  ASSUME IInv, NEW c \in Clients, NEW k, Extended(c, k), Raised(c), NEW d \in Clients, NEW x, Addressed(d, x)
  PROVE  /\ Addressed(d, x)'
         /\ IsChange(x) => EpochOf(x.n) \in Nat /\ EpochOf(x.n) <= Len(log)
         /\ Fresh(d, x)' => Fresh(d, x) /\ d # c
<1>1. IsChange(x) => EpochOf(x.n) \in Nat /\ EpochOf(x.n) <= Len(log)
  <2>1. IsChange(x) => EpochOf(x.n) \in DOMAIN log
    BY ChangeFacts DEF IInv
  <2> QED
    BY <2>1, SMTT(30) DEF Extended, LongerLog
<1>2. Addressed(d, x)'
  <2>1. /\ UNCHANGED <<commits, messages, relayed>>
        /\ \A i \in DOMAIN log : i \in DOMAIN log' /\ log'[i] = log[i]
    BY DEF Extended, LongerLog
  <2> QED
    BY Zenon, <2>1 DEF Addressed, MembersOf, Audience
<1>3. EpochOf(x.n)' = EpochOf(x.n)
  BY DEF EpochOf, Extended
<1>4. Fresh(d, x)' => Fresh(d, x) /\ d # c
  BY <1>1, <1>3, SMTT(30) DEF Fresh, Raised, Extended, LongerLog
<1> QED
  BY <1>1, <1>2, <1>4

LEMMA ExtendedMail ==
  ASSUME IInv, NEW c \in Clients, NEW k, Extended(c, k), Raised(c), Announced(c, k)
  PROVE  MailInv'
<1>1. ASSUME NEW d \in Clients, NEW p \in DOMAIN mailbox'[d], NEW x, x = mailbox'[d][p]
      PROVE  Addressed(d, x)'
  <2>1. CASE p \in DOMAIN mailbox[d]
    <3>1. Addressed(d, x)
      BY Zenon, <1>1, <2>1 DEF Announced, Grown, IInv, MailInv
    <3> QED
      BY <3>1, EarlierMail
  <2>2. CASE p \notin DOMAIN mailbox[d]
    <3>1. x = Note(k, d) /\ d \in Told(c, k)
      BY <1>1, <2>2 DEF Announced, Grown
    <3>2. /\ IsChange(x) /\ x.n = k /\ x \in Events /\ x.kind # "message"
          /\ x.kind = "welcome" <=> d \in commits[k].add
      BY <3>1, NoteFacts DEF IsChange
    <3>3. Len(log) + 1 \in DOMAIN log' /\ Len(log) + 1 > 1 /\ x.n = log'[Len(log) + 1] /\ commits' = commits
      BY <3>2 DEF Extended, LongerLog
    <3>4. x.kind = "commit" => d \in MembersOf(commits[x.n].base)
      BY <3>1, <3>2 DEF Extended, NextCommit, Told
    <3> QED
      BY Zenon, <3>2, <3>3, <3>4 DEF Addressed, IsChange, MembersOf
  <2> QED
    BY <2>1, <2>2
<1>2. ASSUME NEW d \in Clients, NEW x \in unacked'[d]
      PROVE  Addressed(d, x)' /\ ~Fresh(d, x)'
  <2>1. Addressed(d, x) /\ ~Fresh(d, x)
    BY DEF Extended, IInv, MailInv
  <2> QED
    BY <2>1, EarlierMail
<1>3. ASSUME NEW d \in Clients, NEW p \in DOMAIN mailbox'[d], NEW q \in DOMAIN mailbox'[d], p < q,
             NEW x, x = mailbox'[d][p], NEW y, y = mailbox'[d][q], Fresh(d, x)', Fresh(d, y)'
      PROVE  EpochOf(x.n) < EpochOf(y.n)
  <2>0. Grown(mailbox[d], mailbox'[d], Note(k, d)) /\ (d \notin Told(c, k) => mailbox'[d] = mailbox[d])
    BY Zenon DEF Announced
  <2>1. p \in DOMAIN mailbox[d]
    BY <1>3, <2>0, SMTT(30) DEF Grown
  <2>2. x = mailbox[d][p] /\ Addressed(d, x)
    BY Zenon, <1>3, <2>1 DEF Announced, Grown, IInv, MailInv
  <2>3. Fresh(d, x)
    BY <1>3, <2>2, EarlierMail
  <2>4. CASE q \in DOMAIN mailbox[d]
    <3>1. y = mailbox[d][q] /\ Addressed(d, y)
      BY Zenon, <1>3, <2>4 DEF Announced, Grown, IInv, MailInv
    <3>2. Fresh(d, y)
      BY <1>3, <3>1, EarlierMail
    <3> QED
      BY <1>3, <2>1, <2>2, <2>3, <2>4, <3>1, <3>2 DEF IInv, MailInv
  <2>5. CASE q \notin DOMAIN mailbox[d]
    <3>1. y = Note(k, d)
      BY Zenon, <1>3, <2>5 DEF Announced, Grown
    <3>2. EpochOf(y.n) = Len(log) + 1 /\ Len(log) \in Nat
      <4>1. y.n = k
        BY <3>1, NoteFacts, Zenon
      <4> QED
        BY <4>1 DEF Extended, NextCommit, LongerLog
    <3>3. EpochOf(x.n) \in Nat /\ EpochOf(x.n) <= Len(log)
      BY Zenon, <2>2, <2>3, EarlierMail DEF Fresh
    <3> QED
      BY <3>2, <3>3
  <2> QED
    BY <2>4, <2>5
<1>4. /\ UNCHANGED commits /\ mailbox' \in [Clients -> Seq(Events)]
      /\ unacked' \in [Clients -> SUBSET Events]
  BY Zenon DEF Extended, Announced, IInv, MailInv
<1> QED
  BY <1>1, <1>2, <1>3, <1>4, MailFrom

LEMMA ExtendedComplete ==
  ASSUME IInv, NEW c \in Clients, NEW k, Extended(c, k), Raised(c), Announced(c, k)
  PROVE  CompleteInv'
<1> SUFFICES ASSUME NEW d \in Clients, NEW i \in DOMAIN log', i > Level(d)'
             PROVE  /\ commits'[log'[i]].by # d
                    /\ d \in MembersOf(log[i - 1])' =>
                         \E p \in DOMAIN mailbox'[d] : mailbox'[d][p] = Event("commit", log'[i])
                    /\ d \in commits'[log'[i]].add =>
                         \E p \in DOMAIN mailbox'[d] : mailbox'[d][p] = Event("welcome", log'[i])
  BY Zenon DEF CompleteInv, MembersOf, Event
<1>1. d # c /\ i > Level(d) /\ i > 1
  BY DEF Extended, LongerLog, Raised
<1>2. /\ i - 1 \in DOMAIN log /\ log'[i - 1] = log[i - 1] /\ commits' = commits
      /\ MembersOf(log[i - 1])' = MembersOf(log[i - 1])
  BY <1>1 DEF MembersOf, Extended, LongerLog
<1>3. CASE i \in DOMAIN log
  <2>1. \A x : (\E p \in DOMAIN mailbox[d] : mailbox[d][p] = x)
                 => \E p \in DOMAIN mailbox'[d] : mailbox'[d][p] = x
    BY Zenon DEF Announced, Grown
  <2>2. log'[i] = log[i]
    BY <1>3 DEF Extended, LongerLog
  <2> QED
    <3>1. /\ commits[log[i]].by # d
          /\ d \in MembersOf(log[i - 1]) =>
               \E p \in DOMAIN mailbox[d] : mailbox[d][p] = Event("commit", log[i])
          /\ d \in commits[log[i]].add =>
               \E p \in DOMAIN mailbox[d] : mailbox[d][p] = Event("welcome", log[i])
      BY <1>1, <1>3 DEF IInv, CompleteInv
    <3> QED
      BY <1>2, <2>1, <2>2, <3>1, Zenon
<1>4. CASE i = Len(log) + 1
  <2>1. /\ log'[i] = k /\ i - 1 = Len(log) /\ commits[k].by = c
        /\ commits[k].add \cap MembersOf(log[Len(log)]) = {}
    BY <1>4 DEF Extended, NextCommit, LongerLog, NewMembers
  <2>2. d \in Told(c, k) => \E p \in DOMAIN mailbox'[d] : mailbox'[d][p] = Note(k, d)
    BY DEF Announced
  <2> QED
    BY Zenon, <1>1, <1>2, <2>1, <2>2 DEF Note, Told
<1> QED
  BY <1>3, <1>4 DEF Extended, LongerLog

LEMMA RelayedFacts ==
  ASSUME IInv, NEW m \in relayed
  PROVE  /\ m \in DOMAIN messages /\ Accepted(messages[m].at) /\ Audience(m) \subseteq Clients
         /\ EpochOf(messages[m].at) \in DOMAIN log
         /\ messages[m].at = log[EpochOf(messages[m].at)]
<1>1. m \in DOMAIN messages /\ Accepted(messages[m].at)
  BY DEF IInv, MessageInv
<1>2. PICK j \in DOMAIN log : log[j] = messages[m].at
  BY <1>1 DEF Accepted
<1>3. EpochOf(messages[m].at) = j
  BY <1>2 DEF IInv, LogInv
<1>4. Audience(m) \subseteq Clients
  BY <1>2, LogFacts DEF IInv, Audience, MembersOf
<1> QED
  BY <1>1, <1>2, <1>3, <1>4

\* A message that waits keeps its place, unless the one it waits for has committed.
LEMMA ExtendedKeeps ==
  ASSUME IInv, NEW c \in Clients, NEW k, Extended(c, k), Raised(c), Announced(c, k),
         NEW m \in relayed, NEW d \in Audience(m), NEW p \in DOMAIN mailbox[d], InPlace(d, m, p)
  PROVE  Excused(d, m)' \/ \E q \in DOMAIN mailbox'[d] : InPlace(d, m, q)'
<1> DEFINE j == EpochOf(messages[m].at)
<1>1. /\ d \in Clients /\ j \in DOMAIN log /\ messages[m].at = log[j] /\ Level(d) <= j
      /\ j \in Nat /\ j <= Len(log) /\ Len(log) \in Nat
  <2>1. d \in Clients /\ j \in DOMAIN log /\ messages[m].at = log[j]
    BY RelayedFacts, Zenon
  <2>2. Level(d) <= j
    BY DEF InPlace
  <2> QED
    BY <2>1, <2>2 DEF Extended, LongerLog
<1>2. CASE d = c
  <2>1. messages[m].at = log[Len(log)]
    BY <1>1, <1>2 DEF Extended, NextCommit, LongerLog
  <2>2. /\ Len(log) + 1 \in DOMAIN log' /\ log'[Len(log) + 1] = k
        /\ commits[k].by = d /\ commits[k].base = messages[m].at
        /\ UNCHANGED <<commits, messages>>
    BY <1>2, <2>1 DEF Extended, NextCommit, LongerLog
  <2> QED
    BY Zenon, <2>2 DEF committed_past, Excused
<1>3. CASE d # c
  <2> HIDE DEF j
  <2>1. p \in DOMAIN mailbox'[d] /\ mailbox'[d][p] = Event("message", m)
    BY Zenon, <1>1 DEF Announced, Grown, InPlace
  <2>2. ASSUME NEW q \in DOMAIN mailbox'[d], NEW x, x = mailbox'[d][q], Fresh(d, x)'
        PROVE  q < p <=> EpochOf(x.n) <= j
    <3>1. CASE q \in DOMAIN mailbox[d]
      <4>1. x = mailbox[d][q] /\ Addressed(d, x)
        BY Zenon, <1>1, <2>2, <3>1 DEF Announced, Grown, IInv, MailInv
      <4>2. Fresh(d, x)
        BY <1>1, <2>2, <4>1, EarlierMail
      <4> QED
        BY <3>1, <4>1, <4>2 DEF InPlace, j
    <3>2. CASE q \notin DOMAIN mailbox[d]
      <4>1. x = Note(k, d) /\ p < q /\ p \in Nat /\ q \in Nat
        BY Zenon, <1>1, <2>1, <2>2, <3>2 DEF Announced, Grown
      <4>2. EpochOf(x.n) = Len(log) + 1
        <5>1. x.n = k
          BY <4>1, NoteFacts, Zenon
        <5> QED
          BY <5>1 DEF Extended, NextCommit
      <4> QED
        BY SMTT(30), <1>1, <4>1, <4>2
    <3> QED
      BY <3>1, <3>2
  <2>3. Level(d)' <= j /\ UNCHANGED <<commits, messages>>
    BY <1>1, <1>3 DEF Raised, Extended
  <2>4. InPlace(d, m, p)'
    BY Zenon, <2>1, <2>2, <2>3 DEF InPlace, Fresh, EpochOf, j
  <2> QED
    BY <2>1, <2>4
<1> QED
  BY <1>2, <1>3

LEMMA ExtendedMessages ==
  ASSUME IInv, NEW c \in Clients, NEW k, Extended(c, k), Raised(c), Announced(c, k)
  PROVE  MessageInv'
<1>1. /\ UNCHANGED <<commits, messages, relayed, read>>
      /\ \A i \in DOMAIN log : i \in DOMAIN log' /\ log'[i] = log[i]
  BY DEF Extended, LongerLog
<1>2. /\ \A m : Audience(m)' = Audience(m)
      /\ \A d : \A m \in relayed : Excused(d, m) => Excused(d, m)'
  <2>1. \A m : Audience(m)' = Audience(m)
    BY Zenon, <1>1 DEF Audience
  <2> QED
    BY Zenon, <1>1, <2>1, StaysExcused, ExtendedAgrees
<1>3. ASSUME NEW m \in relayed, NEW d \in Audience(m)
      PROVE  m \in read[d] \/ Excused(d, m)' \/ \E q \in DOMAIN mailbox'[d] : InPlace(d, m, q)'
  <2>1. m \in read[d] \/ Excused(d, m) \/ \E p \in DOMAIN mailbox[d] : InPlace(d, m, p)
    BY DEF IInv, MessageInv
  <2> QED
    BY <1>2, <2>1, ExtendedKeeps
<1>4. \A m \in relayed : Accepted(messages[m].at)'
  BY <1>1, RelayedFacts DEF Accepted
<1> QED
  BY <1>1, <1>2, <1>3, <1>4 DEF IInv, MessageInv, Accepted

\* The relay accepts c's commit.
LEMMA AcceptStep ==
  ASSUME IInv, NEW c \in Clients, handle_commit(c), accept_commit(c, Head(outbox[c]).n)
  PROVE  IInv'
<1>1. PICK e : e = Head(outbox[c])
  OBVIOUS
<1>2. /\ outbox[c] # << >> /\ e.kind = "commit" /\ accept_commit(c, e.n)
      /\ mailbox' = [d \in Clients |-> mailbox[d] \o commit_event(c, e.n, d)]
      /\ outbox' = [outbox EXCEPT ![c] = Tail(@)]
      /\ session' = [session EXCEPT ![c] = installed(@, e.n)]
      /\ unanswered' = [unanswered EXCEPT ![c] = {}]
      /\ heard' = [heard EXCEPT ![c] = commits[e.n].epoch]
  BY Zenon, <1>1 DEF handle_commit, accept_commit
<1>3. HandedOver(c, e)
  BY <1>1, <1>2, HandsOver, Zenon
<1>4. Extended(c, e.n) /\ roster' = [epoch |-> Len(log) + 1, members |-> MembersOf(e.n)]
  BY <1>1, <1>2, <1>3, CommitExtends, Zenon
<1>5. CommitsInv' /\ LogInv' /\ JoinInv'
  BY <1>4, ExtendedLog, ExtendedJoin, Zenon
<1>6. SessionInv' /\ Raised(c)
  BY <1>2, <1>4, ExtendedSession, Zenon DEF Raised
<1>7. OutboxInv'
  <2>1. \A x : Accepted(x)' <=> Accepted(x) \/ x = e.n
    <3>1. LongerLog(e.n)
      BY <1>4 DEF Extended
    <3> QED
      BY <3>1 DEF Accepted, LongerLog
  <2>2. UNCHANGED <<commits, messages>>
    BY <1>4 DEF Extended
  <2> QED
    BY <1>2, <1>3, <2>1, <2>2, CommitLeaves, Zenon
<1>8. Announced(c, e.n)
  BY <1>2, <1>4, CommitAnnounced, Zenon
<1>9. MailInv' /\ CompleteInv' /\ MessageInv'
  BY <1>4, <1>6, <1>8, ExtendedMail, ExtendedComplete, ExtendedMessages, Zenon
<1> QED
  BY <1>5, <1>6, <1>7, <1>9 DEF IInv

-----------------------------------------------------------------------------
LEMMA InitIInv == Init => IInv
<1> SUFFICES ASSUME Init
             PROVE  IInv
  OBVIOUS
<1>1. /\ commits = <<Founding>> /\ messages = << >> /\ log = <<1>> /\ relayed = {}
      /\ roster = [epoch |-> 1, members |-> Founders]
      /\ unanswered = [c \in Clients |-> {}] /\ heard = [c \in Clients |-> 1]
      /\ outbox = [c \in Clients |-> << >>] /\ mailbox = [c \in Clients |-> << >>]
      /\ unacked = [c \in Clients |-> {}] /\ read = [c \in Clients |-> {}]
  BY DEF Init
<1>2. /\ session \in [Clients -> [at : Nat, floor : Nat]]
      /\ \A c \in Clients : session[c] = IF c \in Founders THEN [at |-> 1, floor |-> 2]
                                         ELSE [at |-> Nowhere, floor |-> 1]
  BY DEF Init, Nowhere
<1>3. /\ Founding \in Commits /\ Founding.epoch = 1 /\ Founding.members = Founders
      /\ Founding.add = {} /\ Founding.late = {} /\ Founding.shut = {}
  BY DeliveryAssumption DEF Founding, Commits, Nowhere
<1>4. /\ commits \in Seq(Commits) /\ Len(commits) = 1 /\ DOMAIN commits = {1} /\ commits[1] = Founding
      /\ log \in Seq({1}) /\ Len(log) = 1 /\ DOMAIN log = {1} /\ log[1] = 1
  BY <1>1, <1>3
<1>5. CommitsInv
  BY <1>3, <1>4 DEF CommitsInv
<1>6. LogInv /\ JoinInv
  BY <1>1, <1>3, <1>4, SMTT(30) DEF LogInv, JoinInv, EpochOf, MembersOf
<1>7. SessionInv
  <2>1. \A c \in Clients : Level(c) = 1 /\ Home(c) = session[c].at
    BY <1>1 DEF Level, Home
  <2>2. ASSUME NEW c \in Clients
        PROVE  InStep(c, 1) <=> c \in Founders
    <3>1. commits[log[1]].shut = {} /\ 1 .. 1 = {1}
      BY <1>3, <1>4
    <3> QED
      BY Zenon, <1>3, <1>4, <3>1 DEF InStep, shut_out, MembersOf
  <2>3. ASSUME NEW c \in Clients
        PROVE  Stands(c, 1, session[c].at)
    BY <1>2, <1>4, <2>2 DEF Stands
  <2>4. ASSUME NEW c \in Clients
        PROVE  Floored(c, 1, session[c].floor)
    BY <1>2, <1>3, <1>4 DEF Floored
  <2>5. \A c \in Clients : Settled(c)
    BY Zenon, <2>1, <2>3, <2>4 DEF Settled
  <2>6. unanswered \in [Clients -> SUBSET DOMAIN commits] /\ heard \in [Clients -> Nat]
    BY <1>1
  <2> QED
    BY <1>1, <1>2, <1>4, <2>1, <2>5, <2>6 DEF SessionInv
<1>8. OutboxInv
  BY <1>1, SMTT(30) DEF OutboxInv
<1>9. MailInv
  BY <1>1 DEF MailInv
<1>10. CompleteInv
  <2>1. \A c \in Clients : Level(c) = 1
    BY <1>1 DEF Level
  <2> QED
    BY <1>4, <2>1 DEF CompleteInv
<1>11. MessageInv
  BY <1>1 DEF MessageInv
<1> QED
  BY <1>5, <1>6, <1>7, <1>8, <1>9, <1>10, <1>11 DEF IInv

LEMMA NextIInv == IInv /\ [Next]_vars => IInv'
<1> SUFFICES ASSUME IInv, [Next]_vars
             PROVE  IInv'
  OBVIOUS
<1>1. CASE UNCHANGED vars
  <2>1. /\ UNCHANGED <<commits, messages, session, heard, unanswered, outbox, roster, log>>
        /\ UNCHANGED <<relayed, mailbox, unacked, read>>
    BY <1>1 DEF vars, client, relay
  <2>2. CommitsInv' /\ LogInv' /\ JoinInv' /\ OutboxInv'
    BY <2>1, Untouched
  <2>3. SessionInv'
    BY <2>1, SessionKept
  <2>4. MailInv' /\ CompleteInv' /\ MessageInv'
    <3>1. Kept
      BY <2>1 DEF Kept
    <3> QED
      BY <3>1, KeptMail, KeptComplete, KeptMessages, Zenon
  <2> QED
    BY <2>2, <2>3, <2>4 DEF IInv
<1>2. ASSUME NEW c \in Clients, NEW d \in Clients, NEW shut \in SUBSET Clients,
             \/ make_commit(c, {d}, {}, shut) \/ make_commit(c, {}, {d}, shut)
             \/ make_commit(c, {}, {}, shut)
      PROVE  IInv'
  <2>1. {d} \in SUBSET Clients /\ {} \in SUBSET Clients
    OBVIOUS
  <2> QED
    BY <1>2, <2>1, MakeStep
<1>3. ASSUME NEW c \in Clients, handle_commit(c)
      PROVE  IInv'
  <2>1. accept_commit(c, Head(outbox[c]).n) \/ refuse_commit(c, Head(outbox[c]).n)
    BY <1>3 DEF handle_commit
  <2> QED
    BY <1>3, <2>1, AcceptStep, RefuseStep
<1>4. ASSUME NEW c \in Clients,
             encrypt(c) \/ process_event(c) \/ handle_message(c)
             \/ \E e \in unacked[c] : fetch_again(c, e)
      PROVE  IInv'
  BY <1>4, EncryptStep, ProcessStep, MessageStep, FetchStep
<1> QED
  BY Zenon, <1>1, <1>2, <1>3, <1>4 DEF Next

THEOREM Invariance == Spec => []IInv
<1>1. Init => IInv
  BY InitIInv
<1>2. IInv /\ [Next]_vars => IInv'
  BY NextIInv
<1> QED
  BY <1>1, <1>2, PTL DEF Spec

(* For every group and every interleaving of commits, messages, lost        *)
(* acknowledgements and refused commits: a message the relay accepted       *)
(* (handle_message, store_event) has been read by every member of its       *)
(* epoch, or waits for it, or its own commit overtook it, or a commit that  *)
(* the member could not open has shut it out; and nobody else is served.    *)
THEOREM MembersAreServed == Spec => []MembersServed
<1>1. IInv => MembersServed
  <2> SUFFICES ASSUME IInv
               PROVE  MembersServed
    OBVIOUS
  <2>1. NobodyForgotten
    <3>1. ASSUME NEW m \in relayed, NEW c \in Audience(m), NEW p \in DOMAIN mailbox[c], InPlace(c, m, p)
          PROVE  waits(c, Event("message", m))
      BY <3>1 DEF InPlace, waits
    <3> QED
      BY <3>1 DEF IInv, MessageInv, NobodyForgotten, Excused, EpochOf
  <2>2. ASSUME NEW c \in Clients, NEW m \in DOMAIN messages,
               waits(c, Event("message", m)) \/ m \in read[c]
        PROVE  c \in Audience(m)
    <3>1. CASE m \in read[c]
      BY <3>1 DEF IInv, MessageInv
    <3>2. CASE waits(c, Event("message", m))
      <4>1. Addressed(c, Event("message", m))
        BY <3>2 DEF waits, IInv, MailInv
      <4> QED
        BY <4>1 DEF Addressed, Event
    <3> QED
      BY <2>2, <3>1, <3>2
  <2> QED
    BY <2>1, <2>2 DEF MembersServed, OnlyMembersServed
<1> QED
  BY <1>1, Invariance, PTL

=============================================================================
