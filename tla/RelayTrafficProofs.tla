------------------------- MODULE RelayTrafficProofs -------------------------
(***************************************************************************)
(* The mail of a group stays in order when a member commits or encrypts    *)
(* and when the relay refuses a commit; and what is left for the relay to  *)
(* do when it takes what a member hands to it.                             *)
(***************************************************************************)
EXTENDS RelayMailProofs

-----------------------------------------------------------------------------
(* A step that leaves the mail alone: more commits and messages are made.  *)

Kept ==
  /\ UNCHANGED <<log, relayed, mailbox, unacked, read>>
  /\ \A k \in DOMAIN commits : k \in DOMAIN commits' /\ commits'[k] = commits[k]
  /\ \A m \in DOMAIN messages : m \in DOMAIN messages' /\ messages'[m] = messages[m]
  /\ heard' = heard

LEMMA KeptFacts ==
  ASSUME IInv, Kept
  PROVE  /\ \A d \in Clients : Level(d)' = Level(d)
         /\ \A k \in DOMAIN commits : EpochOf(k)' = EpochOf(k) /\ MembersOf(k)' = MembersOf(k)
         /\ \A m \in DOMAIN messages : messages[m].at \in DOMAIN commits /\ Audience(m)' = Audience(m)
<1>1. \A d \in Clients : Level(d)' = Level(d)
  BY DEF Kept, Level
<1>2. \A k \in DOMAIN commits : EpochOf(k)' = EpochOf(k) /\ MembersOf(k)' = MembersOf(k)
  BY DEF Kept, EpochOf, MembersOf
<1>3. \A m \in DOMAIN messages : messages[m].at \in DOMAIN commits
  <2> TAKE m \in DOMAIN messages
  <2>1. messages[m] \in Messages
    BY DEF IInv, OutboxInv
  <2> QED
    BY <2>1 DEF Messages
<1>4. \A m \in DOMAIN messages : Audience(m)' = Audience(m)
  BY <1>3 DEF Kept, Audience
<1> QED
  BY <1>1, <1>2, <1>3, <1>4, Zenon

\* A commit that the relay has not answered.
LEMMA OpenCommit ==
  ASSUME IInv, NEW c \in Clients, NEW k \in unanswered[c]
  PROVE  /\ unanswered[c] = {k} /\ session[c].at = k
         /\ k # 1 /\ commits[k].by = c /\ commits[k].base # Nowhere
<1>1. SessionInv
  BY DEF IInv
<1> QED
  BY <1>1 DEF SessionInv

\* An excuse is one for good.
LEMMA StaysExcused ==
  ASSUME IInv, Agree, NEW c, NEW m \in relayed, messages'[m] = messages[m], Excused(c, m)
  PROVE  Excused(c, m)'
<1>1. PICK j \in DOMAIN log : log[j] = messages[m].at
  BY DEF IInv, MessageInv, Accepted
<1>2. EpochOf(messages[m].at) = j /\ EpochOf(messages[m].at)' = j
  <2>1. EpochOf(log[j]) = j
    BY DEF IInv, LogInv
  <2>2. commits'[log[j]] = commits[log[j]]
    BY DEF Agree
  <2> QED
    BY Zenon, <1>1, <2>1, <2>2 DEF EpochOf
<1>3. CASE committed_past(c, m)
  BY Zenon, <1>3 DEF Agree, committed_past, Excused
<1>4. CASE shut_out(c, j)
  <2>1. shut_out(c, j)'
    BY Zenon, <1>4, StaysShut
  <2> QED
    BY Zenon, <1>2, <2>1 DEF Excused, shut_out
<1> QED
  BY Zenon, <1>2, <1>3, <1>4 DEF Excused

LEMMA KeptAddressed ==
  ASSUME IInv, Kept, NEW d \in Clients, NEW x, Addressed(d, x)
  PROVE  /\ Addressed(d, x)' /\ (Fresh(d, x)' <=> Fresh(d, x))
         /\ IsChange(x) => EpochOf(x.n)' = EpochOf(x.n)
<1>1. CASE IsChange(x)
  <2>1. x.n \in DOMAIN commits /\ commits[x.n].base \in DOMAIN commits
    BY Zenon, <1>1, ChangeFacts DEF IInv, WellMade
  <2>2. EpochOf(x.n)' = EpochOf(x.n) /\ MembersOf(commits[x.n].base)' = MembersOf(commits[x.n].base)
    BY Zenon, <2>1 DEF Kept, EpochOf, MembersOf
  <2>3. Fresh(d, x)' <=> Fresh(d, x)
    BY <2>2, KeptFacts DEF Fresh
  <2>4. commits'[x.n] = commits[x.n] /\ log' = log
    BY <2>1 DEF Kept
  <2>5. Addressed(d, x)'
    BY Zenon, <1>1, <2>1, <2>2, <2>4 DEF Addressed, IsChange, MembersOf
  <2> QED
    BY <2>2, <2>3, <2>5
<1>2. CASE ~IsChange(x)
  <2>1. relayed' = relayed /\ relayed \subseteq DOMAIN messages
    BY DEF Kept, IInv, MessageInv
  <2>2. x \in Events /\ x.kind = "message" /\ x.n \in relayed /\ d \in Audience(x.n)
    BY <1>2 DEF Addressed, IsChange, Events
  <2>3. Audience(x.n)' = Audience(x.n)
    BY <2>1, <2>2, KeptFacts
  <2>4. Addressed(d, x)'
    BY <1>2, <2>1, <2>2, <2>3 DEF Addressed, IsChange
  <2> QED
    BY <1>2, <2>4 DEF Fresh
<1> QED
  BY <1>1, <1>2

LEMMA KeptMail ==
  ASSUME IInv, Kept
  PROVE  MailInv'
<1>1. UNCHANGED <<mailbox, unacked>>
  BY DEF Kept
<1>2. \A d \in Clients : \A p \in DOMAIN mailbox[d] : \A x : x = mailbox[d][p] => Addressed(d, x)'
  <2> SUFFICES ASSUME NEW d \in Clients, NEW p \in DOMAIN mailbox[d], NEW x, x = mailbox[d][p]
               PROVE  Addressed(d, x)'
    OBVIOUS
  <2>1. Addressed(d, x)
    BY DEF IInv, MailInv
  <2> QED
    BY <2>1, KeptAddressed
<1>3. \A d \in Clients : \A x \in unacked[d] : Addressed(d, x)' /\ ~Fresh(d, x)'
  <2> SUFFICES ASSUME NEW d \in Clients, NEW x \in unacked[d]
               PROVE  Addressed(d, x)' /\ ~Fresh(d, x)'
    OBVIOUS
  <2>1. Addressed(d, x) /\ ~Fresh(d, x)
    BY DEF IInv, MailInv
  <2> QED
    BY <2>1, KeptAddressed
<1>4. ASSUME NEW d \in Clients, NEW p \in DOMAIN mailbox[d], NEW q \in DOMAIN mailbox[d], p < q,
             NEW x, x = mailbox[d][p], NEW y, y = mailbox[d][q], Fresh(d, x)', Fresh(d, y)'
      PROVE  EpochOf(x.n)' < EpochOf(y.n)'
  <2>1. Addressed(d, x) /\ Addressed(d, y)
    BY Zenon, <1>4 DEF IInv, MailInv
  <2>2. Fresh(d, x) /\ Fresh(d, y)
    BY Zenon, <1>4, <2>1, KeptAddressed
  <2>3. EpochOf(x.n) < EpochOf(y.n)
    BY Zenon, <1>4, <2>2 DEF IInv, MailInv
  <2>4. EpochOf(x.n)' = EpochOf(x.n) /\ EpochOf(y.n)' = EpochOf(y.n)
    BY <2>1, <2>2, KeptAddressed DEF Fresh
  <2> QED
    BY <2>3, <2>4
<1>5. (\A d \in Clients : \A p \in DOMAIN mailbox[d] : Addressed(d, mailbox[d][p]))'
  BY Zenon, <1>1, <1>2 DEF Addressed, MembersOf, Audience
<1>6. (\A d \in Clients : \A p, q \in DOMAIN mailbox[d] :
         p < q /\ Fresh(d, mailbox[d][p]) /\ Fresh(d, mailbox[d][q])
           => EpochOf(mailbox[d][p].n) < EpochOf(mailbox[d][q].n))'
  BY <1>1, <1>4 DEF Fresh, EpochOf, Level
<1>7. mailbox' \in [Clients -> Seq(Events)] /\ unacked' \in [Clients -> SUBSET Events]
  BY Zenon, <1>1 DEF IInv, MailInv
<1>8. (\A d \in Clients : \A x \in unacked[d] : Addressed(d, x) /\ ~Fresh(d, x))'
  BY <1>1, <1>3
<1> QED
  BY Zenon, <1>5, <1>6, <1>7, <1>8 DEF MailInv

LEMMA KeptComplete ==
  ASSUME IInv, Kept
  PROVE  CompleteInv'
<1>1. UNCHANGED <<log, mailbox>>
  BY DEF Kept
<1>2. ASSUME NEW d \in Clients, NEW i \in DOMAIN log, i > Level(d)'
      PROVE  /\ commits'[log[i]].by # d
             /\ d \in MembersOf(log[i - 1])' =>
                  \E p \in DOMAIN mailbox[d] : mailbox[d][p] = Event("commit", log[i])
             /\ d \in commits'[log[i]].add =>
                  \E p \in DOMAIN mailbox[d] : mailbox[d][p] = Event("welcome", log[i])
  <2>1. i > Level(d)
    BY <1>2, KeptFacts
  <2>2. i > 1 /\ log[i] \in DOMAIN commits /\ i - 1 \in DOMAIN log
    BY <2>1, LogFacts DEF IInv, SessionInv
  <2>3. log[i - 1] \in DOMAIN commits
    BY <2>2, LogFacts DEF IInv
  <2>4. commits'[log[i]] = commits[log[i]] /\ MembersOf(log[i - 1])' = MembersOf(log[i - 1])
    BY <2>2, <2>3 DEF Kept, MembersOf
  <2> QED
    BY <2>1, <2>4 DEF IInv, CompleteInv
<1> QED
  BY <1>1, <1>2 DEF CompleteInv, MembersOf

LEMMA KeptMessages ==
  ASSUME IInv, Kept
  PROVE  MessageInv'
<1>1. /\ UNCHANGED <<log, relayed, mailbox, read>>
      /\ relayed \subseteq DOMAIN messages /\ relayed \subseteq DOMAIN messages'
      /\ \A m \in relayed : messages'[m] = messages[m]
  BY DEF Kept, IInv, MessageInv
<1>2. ASSUME NEW m \in relayed, NEW d \in Clients, NEW p \in DOMAIN mailbox[d], InPlace(d, m, p)
      PROVE  InPlace(d, m, p)'
  <2>1. PICK j : j = EpochOf(messages[m].at)
    OBVIOUS
  <2>2. EpochOf(messages[m].at)' = j
    <3>1. messages'[m].at = messages[m].at /\ messages[m].at \in DOMAIN commits
      BY <1>1, KeptFacts
    <3> QED
      BY <2>1, <3>1 DEF Kept, EpochOf
  <2>3. /\ mailbox[d][p] = Event("message", m) /\ Level(d) <= j
        /\ \A q \in DOMAIN mailbox[d] : Fresh(d, mailbox[d][q]) =>
             (q < p <=> EpochOf(mailbox[d][q].n) <= j)
    BY Zenon, <1>2, <2>1 DEF InPlace
  <2>4. ASSUME NEW q \in DOMAIN mailbox[d], NEW x, x = mailbox[d][q], Fresh(d, x)'
        PROVE  q < p <=> EpochOf(x.n)' <= j
    <3>1. Addressed(d, x)
      BY Zenon, <2>4 DEF IInv, MailInv
    <3>2. Fresh(d, x) /\ EpochOf(x.n)' = EpochOf(x.n)
      BY Zenon, <2>4, <3>1, KeptAddressed DEF Fresh
    <3> QED
      BY Zenon, <2>3, <2>4, <3>2
  <2>5. Level(d)' <= j
    BY <2>3, KeptFacts
  <2> QED
    BY Zenon, <1>1, <2>2, <2>3, <2>4, <2>5 DEF InPlace
<1>3. \A d : \A m \in relayed : Excused(d, m) => Excused(d, m)'
  <2>1. \A i \in DOMAIN log : commits'[log[i]] = commits[log[i]]
    BY Zenon, LogFacts DEF IInv, Kept
  <2>2. Agree
    BY Zenon, <1>1, <2>1 DEF Agree
  <2> QED
    BY Zenon, <1>1, <2>2, StaysExcused
<1>4. \A m \in relayed : Audience(m)' = Audience(m)
  BY <1>1, KeptFacts
<1>5. ASSUME NEW m \in relayed, NEW d \in Audience(m)
      PROVE  \/ m \in read[d] \/ Excused(d, m)'
             \/ \E p \in DOMAIN mailbox[d] : InPlace(d, m, p)'
  <2>1. d \in Clients
    BY Zenon, LogFacts DEF IInv, MessageInv, Accepted, Audience, MembersOf
  <2>2. \/ m \in read[d] \/ Excused(d, m)
        \/ \E p \in DOMAIN mailbox[d] : InPlace(d, m, p)
    BY DEF IInv, MessageInv
  <2> QED
    BY <1>2, <1>3, <2>1, <2>2, Zenon
<1>6. \A m \in relayed : Accepted(messages[m].at)'
  BY <1>1 DEF IInv, MessageInv, Accepted
<1>7. read \in [Clients -> SUBSET relayed] /\ \A d \in Clients : \A m \in read[d] : d \in Audience(m)'
  BY <1>4 DEF IInv, MessageInv
<1> QED
  BY <1>1, <1>4, <1>5, <1>6, <1>7 DEF MessageInv

-----------------------------------------------------------------------------
(* What is handed to the relay comes after what is there.                  *)

Grown(s, t, x) ==
  /\ \A p \in DOMAIN s : p \in DOMAIN t /\ t[p] = s[p]
  /\ \A p \in DOMAIN t : p \in DOMAIN s \/ (t[p] = x /\ \A q \in DOMAIN s : q < p)
  /\ \A p, q \in DOMAIN t : p \notin DOMAIN s /\ q \notin DOMAIN s => p = q
  /\ \A p \in DOMAIN t : p \in Nat

LEMMA GrownBy ==
  ASSUME NEW S, NEW s \in Seq(S), NEW x \in S
  PROVE  /\ Grown(s, Append(s, x), x) /\ Grown(s, s, x)
         /\ \E p \in DOMAIN Append(s, x) : Append(s, x)[p] = x /\ p \notin DOMAIN s
<1>1. /\ Len(s) \in Nat /\ DOMAIN s = 1 .. Len(s) /\ DOMAIN Append(s, x) = 1 .. Len(s) + 1
      /\ \A i \in DOMAIN s : Append(s, x)[i] = s[i]
      /\ Append(s, x)[Len(s) + 1] = x
  BY Appended
<1>2. Grown(s, Append(s, x), x)
  BY <1>1 DEF Grown
<1>3. Grown(s, s, x)
  BY <1>1 DEF Grown
<1>4. /\ Len(s) + 1 \in DOMAIN Append(s, x) /\ Append(s, x)[Len(s) + 1] = x
      /\ Len(s) + 1 \notin DOMAIN s
  BY <1>1
<1> QED
  BY <1>2, <1>3, <1>4

-----------------------------------------------------------------------------
(* The relay refuses c's commit.                                           *)

Refused(c) ==
  /\ session' \in [Clients -> [at : Nat, floor : Nat]] /\ session'[c].at = Home(c)
  /\ \A d \in Clients : session'[d].floor = session[d].floor
  /\ \A d \in Clients : d # c => session'[d] = session[d]
  /\ unanswered' = [unanswered EXCEPT ![c] = {}]
  /\ outbox' = [outbox EXCEPT ![c] = << >>]
  /\ UNCHANGED <<heard, commits, messages, roster, log, relayed, mailbox, unacked, read>>

LEMMA RefusesIt ==
  ASSUME IInv, NEW c \in Clients, handle_commit(c), refuse_commit(c, Head(outbox[c]).n)
  PROVE  Refused(c)
<1>1. PICK k : k = Head(outbox[c]).n
  OBVIOUS
<1>2. /\ outbox[c] # << >> /\ Head(outbox[c]).kind = "commit"
      /\ session' = [session EXCEPT ![c].at = commits[k].base]
      /\ unanswered' = [unanswered EXCEPT ![c] = {}]
      /\ outbox' = [outbox EXCEPT ![c] = << >>]
      /\ UNCHANGED <<heard, commits, messages, roster, log, relayed, mailbox, unacked, losses, read>>
  BY Zenon, <1>1 DEF handle_commit, refuse_commit, relay
<1>3. commits[k].base = Home(c) /\ Home(c) \in Nat
  <2>1. 1 \in DOMAIN outbox[c] /\ outbox[c][1].kind = "commit" /\ outbox[c][1].n = k
    BY Zenon, <1>1, <1>2, Taken DEF IInv, OutboxInv
  <2>2. k \in unanswered[c]
    BY Zenon, <2>1 DEF IInv, OutboxInv, Submitted
  <2>3. session[c].at = k /\ unanswered[c] # {} /\ k \in DOMAIN commits
    BY Zenon, <2>2 DEF IInv, SessionInv
  <2>4. commits[k].base \in Nat
    <3>1. commits[k] \in Commits
      BY <2>3 DEF IInv, CommitsInv
    <3> QED
      BY <3>1 DEF Commits
  <2> QED
    BY Zenon, <2>3, <2>4 DEF Home
<1>4. session \in [Clients -> [at : Nat, floor : Nat]]
  BY DEF IInv, SessionInv
<1>5. session' = [session EXCEPT ![c].at = Home(c)]
  BY <1>2, <1>3
<1>6. /\ session' \in [Clients -> [at : Nat, floor : Nat]] /\ session'[c].at = Home(c)
      /\ \A d \in Clients : session'[d].floor = session[d].floor
      /\ \A d \in Clients : d # c => session'[d] = session[d]
  BY <1>3, <1>4, <1>5
<1> QED
  BY <1>2, <1>6, Zenon DEF Refused

LEMMA RefusedRest ==
  ASSUME IInv, NEW c \in Clients, Refused(c)
  PROVE  CommitsInv' /\ LogInv' /\ JoinInv' /\ Kept
<1>1. UNCHANGED <<heard, commits, messages, roster, log, relayed, mailbox, unacked, read>>
  BY DEF Refused
<1>2. CommitsInv'
  BY Zenon, <1>1 DEF IInv, CommitsInv, WellMade
<1>3. LogInv' /\ JoinInv'
  BY Zenon, <1>1 DEF IInv, LogInv, JoinInv, EpochOf, MembersOf
<1>4. Kept
  BY DEF Refused, Kept
<1> QED
  BY <1>2, <1>3, <1>4

LEMMA RefusedSession ==
  ASSUME IInv, NEW c \in Clients, Refused(c)
  PROVE  /\ SessionInv'
         /\ unanswered'[c] = {} /\ \A d \in Clients : d # c => unanswered'[d] = unanswered[d]
<1>1. /\ UNCHANGED <<heard, commits, log>> /\ unanswered' = [unanswered EXCEPT ![c] = {}]
      /\ session' \in [Clients -> [at : Nat, floor : Nat]] /\ session'[c].at = Home(c)
      /\ \A d \in Clients : session'[d].floor = session[d].floor
      /\ \A d \in Clients : d # c => session'[d] = session[d]
  BY DEF Refused
<1>2. /\ unanswered' \in [Clients -> SUBSET DOMAIN commits'] /\ unanswered'[c] = {}
      /\ \A d \in Clients : d # c => unanswered'[d] = unanswered[d]
  BY <1>1 DEF IInv, SessionInv
<1>3. \A d \in Clients : Level(d)' = Level(d) /\ Home(d)' = Home(d)
  <2>1. Home(c)' = Home(c)
    BY Zenon, <1>1, <1>2 DEF Home
  <2>2. ASSUME NEW d \in Clients, d # c
        PROVE  Home(d)' = Home(d)
    BY Zenon, <1>1, <1>2, <2>2 DEF Home
  <2> QED
    BY Zenon, <1>1, <2>1, <2>2 DEF Level
<1>4. \A d \in Clients : Level(d)' \in DOMAIN log' /\ Settled(d)'
  <2>1. Agree
    BY Zenon, <1>1 DEF Agree
  <2> QED
    BY Zenon, <1>1, <1>3, <2>1, StaysSettled
<1>5. \A d \in Clients : \A l \in unanswered'[d] :
        /\ unanswered'[d] = {l}
        /\ session'[d].at = l
        /\ l # 1 /\ commits'[l].by = d /\ commits'[l].base # Nowhere
  <2> SUFFICES ASSUME NEW d \in Clients, NEW l \in unanswered'[d]
               PROVE  /\ unanswered'[d] = {l}
                      /\ session'[d].at = l
                      /\ l # 1 /\ commits'[l].by = d /\ commits'[l].base # Nowhere
    BY Zenon
  <2>1. d # c /\ l \in unanswered[d]
    BY <1>2
  <2>2. /\ unanswered[d] = {l} /\ session[d].at = l
        /\ l # 1 /\ commits[l].by = d /\ commits[l].base # Nowhere
    BY <2>1, OpenCommit
  <2> QED
    BY <1>1, <1>2, <2>1, <2>2
<1> QED
  BY <1>1, <1>2, <1>4, <1>5, Zenon DEF IInv, SessionInv

LEMMA RefusedOutbox ==
  ASSUME IInv, NEW c \in Clients, Refused(c)
  PROVE  OutboxInv'
<1>1. /\ UNCHANGED <<commits, messages, log>> /\ outbox' = [outbox EXCEPT ![c] = << >>]
  BY DEF Refused
<1>2. unanswered'[c] = {} /\ \A d \in Clients : d # c => unanswered'[d] = unanswered[d]
  BY RefusedSession
<1>3. /\ outbox' \in [Clients -> Seq(Events)] /\ DOMAIN outbox'[c] = {}
      /\ \A d \in Clients : d # c => outbox'[d] = outbox[d]
  BY <1>1 DEF IInv, OutboxInv
<1>4. messages' \in Seq(Messages)'
  BY <1>1 DEF IInv, OutboxInv, Messages
<1>5. ASSUME NEW d \in Clients, NEW i \in DOMAIN outbox'[d]
      PROVE  Submitted(d, i)'
  <2>1. d # c /\ Submitted(d, i)
    BY <1>3 DEF IInv, OutboxInv
  <2> QED
    BY Zenon, <1>1, <1>2, <1>3, <2>1 DEF Submitted, Accepted
<1>6. ASSUME NEW d \in Clients, unanswered'[d] # {}
      PROVE  \E i \in DOMAIN outbox'[d] : outbox'[d][i].kind = "commit"
  <2>1. d # c /\ unanswered[d] # {}
    BY <1>2, <1>6
  <2>2. \E i \in DOMAIN outbox[d] : outbox[d][i].kind = "commit"
    BY <2>1 DEF IInv, OutboxInv
  <2> QED
    BY <1>3, <2>1, <2>2
<1> QED
  BY <1>3, <1>4, <1>5, <1>6, Zenon DEF OutboxInv

LEMMA RefuseStep ==
  ASSUME IInv, NEW c \in Clients, handle_commit(c), refuse_commit(c, Head(outbox[c]).n)
  PROVE  IInv'
<1>1. Refused(c)
  BY RefusesIt
<1>2. CommitsInv' /\ LogInv' /\ JoinInv' /\ Kept
  BY <1>1, RefusedRest, Zenon
<1>3. SessionInv' /\ OutboxInv'
  BY <1>1, RefusedSession, RefusedOutbox, Zenon
<1>4. MailInv' /\ CompleteInv' /\ MessageInv'
  BY <1>2, KeptMail, KeptComplete, KeptMessages, Zenon
<1> QED
  BY <1>2, <1>3, <1>4, Zenon DEF IInv

\* Where a session is, unless its own commit is open.
LEMMA SessionAt ==
  ASSUME IInv, NEW c \in Clients, at(c) # Nowhere
  PROVE  /\ at(c) \in DOMAIN commits
         /\ unanswered[c] = {} =>
              /\ at(c) = Home(c) /\ c \in MembersOf(at(c)) /\ Accepted(at(c))
         /\ \A k \in unanswered[c] : at(c) = k /\ unanswered[c] = {k}
<1>1. CASE unanswered[c] = {}
  <2>1. PICK L, k : L = Level(c) /\ k = session[c].at
    BY Zenon
  <2>2. L \in DOMAIN log /\ Stands(c, L, k)
    BY Zenon, <1>1, <2>1 DEF IInv, SessionInv, Settled, Home
  <2>3. \A i \in 1 .. L - 1 : i \in DOMAIN log
    BY <2>2, LogFacts DEF IInv
  <2>4. \E i \in DOMAIN log : k = log[i] /\ c \in MembersOf(log[i])
    BY Zenon, <2>1, <2>2, <2>3 DEF Stands, InStep, at
  <2>5. k \in DOMAIN commits
    BY Zenon, <2>4, LogFacts DEF IInv
  <2> QED
    BY Zenon, <1>1, <2>1, <2>4, <2>5 DEF at, Home, Accepted
<1>2. CASE unanswered[c] # {}
  <2>1. PICK k : k \in unanswered[c]
    BY Zenon, <1>2
  <2>2. \A l \in unanswered[c] : unanswered[c] = {l} /\ session[c].at = l
    BY OpenCommit
  <2>3. k \in DOMAIN commits
    BY <2>1 DEF IInv, SessionInv
  <2> QED
    BY Zenon, <1>2, <2>1, <2>2, <2>3 DEF at
<1> QED
  BY Zenon, <1>1, <1>2

Handed(c, x) ==
  /\ outbox' \in [Clients -> Seq(Events)]
  /\ \A d \in Clients : d # c => outbox'[d] = outbox[d]
  /\ Grown(outbox[c], outbox'[c], x)
  /\ \E i \in DOMAIN outbox'[c] : outbox'[c][i] = x /\ i \notin DOMAIN outbox[c]

LEMMA Submits ==
  ASSUME IInv, NEW c \in Clients, NEW kind \in {"commit", "message"}, NEW n \in Nat, submit(c, kind, n)
  PROVE  Handed(c, Event(kind, n))
<1>1. outbox \in [Clients -> Seq(Events)] /\ Event(kind, n) \in Events
  BY DEF IInv, OutboxInv, Event, Events
<1>2. PICK x : x = Event(kind, n)
  OBVIOUS
<1>3. outbox' = [outbox EXCEPT ![c] = Append(outbox[c], x)]
  BY <1>2 DEF submit
<1>4. /\ Append(outbox[c], x) \in Seq(Events)
      /\ Grown(outbox[c], Append(outbox[c], x), x)
      /\ \E i \in DOMAIN Append(outbox[c], x) : Append(outbox[c], x)[i] = x /\ i \notin DOMAIN outbox[c]
  <2>1. outbox[c] \in Seq(Events) /\ x \in Events
    BY <1>1, <1>2
  <2> QED
    BY <2>1, GrownBy, Appended, Zenon
<1>5. /\ outbox' \in [Clients -> Seq(Events)] /\ outbox'[c] = Append(outbox[c], x)
      /\ \A d \in Clients : d # c => outbox'[d] = outbox[d]
  BY <1>1, <1>3, <1>4
<1> QED
  BY <1>2, <1>4, <1>5, Zenon DEF Handed

-----------------------------------------------------------------------------
(* c makes commit n and hands it to the relay.                             *)

Made(c, n) ==
  /\ commits' \in Seq(Commits) /\ DOMAIN commits' = DOMAIN commits \cup {n}
  /\ n \notin DOMAIN commits /\ n # 1 /\ n \in Nat
  /\ \A k \in DOMAIN commits : commits'[k] = commits[k]
  /\ WellMade(n)'
  /\ commits'[n].late \subseteq commits'[n].members
  /\ commits'[n].by = c /\ commits'[n].base = Home(c) /\ Home(c) # Nowhere
  /\ unanswered[c] = {} /\ unanswered' = [unanswered EXCEPT ![c] = {n}]
  /\ session' \in [Clients -> [at : Nat, floor : Nat]] /\ session'[c].at = n
  /\ \A d \in Clients : session'[d].floor = session[d].floor
  /\ \A d \in Clients : d # c => session'[d] = session[d]
  /\ UNCHANGED <<heard, messages, roster, log, relayed, mailbox, unacked, read>>
  /\ Handed(c, Event("commit", n))

LEMMA MakesIt ==
  ASSUME IInv, NEW c \in Clients, NEW add \in SUBSET Clients, NEW remove \in SUBSET Clients,
         NEW shut \in SUBSET Clients, make_commit(c, add, remove, shut)
  PROVE  \E n \in Nat : Made(c, n)
<1>1. PICK n, base, new :
        /\ n = Len(commits) + 1 /\ base = commits[at(c)]
        /\ new = [by |-> c, base |-> at(c), epoch |-> base.epoch + 1, add |-> add,
                  remove |-> remove, members |-> (base.members \ remove) \cup add,
                  late |-> (base.late \ remove) \cup add, shut |-> shut]
  BY Zenon
<1>2. /\ at(c) # Nowhere /\ unanswered[c] = {}
      /\ add \cap base.members = {} /\ remove \subseteq base.members \ {c}
      /\ shut \subseteq base.late \ (remove \cup {c})
      /\ commits' = Append(commits, new)
      /\ session' = [session EXCEPT ![c].at = n]
      /\ unanswered' = [unanswered EXCEPT ![c] = {n}]
      /\ submit(c, "commit", n)
      /\ UNCHANGED <<heard, messages, roster, log, relayed, mailbox, unacked, losses, read>>
  BY Zenon, <1>1 DEF make_commit, relay
<1>3. /\ at(c) \in DOMAIN commits /\ at(c) = Home(c) /\ c \in MembersOf(at(c))
  BY <1>2, SessionAt
<1>4. commits \in Seq(Commits) /\ DOMAIN commits = 1 .. Len(commits) /\ Len(commits) \in Nat /\ Len(commits) >= 1
  BY DEF IInv, CommitsInv
<1>5. base \in Commits /\ at(c) \in Nat /\ base.late \subseteq base.members
  <2>1. base \in Commits /\ at(c) \in Nat
    BY SMTT(30), <1>1, <1>3, <1>4
  <2> QED
    BY Zenon, <1>1, <1>3, <2>1 DEF IInv, CommitsInv
<1>6. /\ new.by = c /\ new.base = at(c) /\ new.epoch = base.epoch + 1
      /\ new.add = add /\ new.remove = remove /\ new.members = (base.members \ remove) \cup add
      /\ new.late = (base.late \ remove) \cup add /\ new.shut = shut
  BY Zenon, <1>1
<1>7. new \in Commits
  BY <1>1, <1>5, SMTT(30) DEF Commits
<1>8. /\ commits' \in Seq(Commits) /\ DOMAIN commits' = 1 .. n
      /\ \A k \in DOMAIN commits : commits'[k] = commits[k]
      /\ commits'[n] = new
  BY <1>1, <1>2, <1>4, <1>7, Appended
<1>9. DOMAIN commits' = DOMAIN commits \cup {n} /\ n \notin DOMAIN commits /\ n # 1 /\ n \in Nat
  BY SMTT(30), <1>1, <1>4, <1>8
<1>10. WellMade(n)'
  <2>0. at(c) \in DOMAIN commits' /\ commits'[at(c)] = commits[at(c)]
    BY <1>3, <1>8, <1>9
  <2>1. commits'[new.base] = base /\ new.base \in DOMAIN commits'
    <3>1. base = commits[at(c)]
      BY <1>1, Zenon
    <3> QED
      BY <1>6, <2>0, <3>1, Zenon
  <2>2. c \in base.members
    BY <1>1, <1>3 DEF MembersOf
  <2>3. new.shut \cap (new.add \cup {new.by}) = {}
    BY <1>2, <1>5, <1>6
  <2> QED
    BY Zenon, <1>2, <1>6, <1>8, <2>1, <2>2, <2>3 DEF WellMade
<1>11. /\ session' \in [Clients -> [at : Nat, floor : Nat]] /\ session'[c].at = n
       /\ \A d \in Clients : session'[d].floor = session[d].floor
       /\ \A d \in Clients : d # c => session'[d] = session[d]
  <2>1. session \in [Clients -> [at : Nat, floor : Nat]]
    BY DEF IInv, SessionInv
  <2> QED
    BY <1>2, <1>9, <2>1
<1>12. Handed(c, Event("commit", n))
  BY <1>2, <1>9, Submits
<1>13. /\ commits'[n].by = c /\ commits'[n].base = Home(c) /\ Home(c) # Nowhere
       /\ commits'[n].late \subseteq commits'[n].members
  BY Zenon, <1>2, <1>3, <1>5, <1>6, <1>8
<1>14. Made(c, n)
  BY <1>2, <1>8, <1>9, <1>10, <1>11, <1>12, <1>13, Zenon DEF Made
<1> QED
  BY <1>9, <1>14

LEMMA MadeLog ==
  ASSUME IInv, NEW c \in Clients, NEW n \in Nat, Made(c, n)
  PROVE  CommitsInv' /\ LogInv' /\ JoinInv' /\ Kept
<1>1. /\ commits' \in Seq(Commits) /\ DOMAIN commits' = DOMAIN commits \cup {n} /\ WellMade(n)'
      /\ commits'[n].late \subseteq commits'[n].members
      /\ \A k \in DOMAIN commits : commits'[k] = commits[k]
      /\ UNCHANGED <<heard, messages, roster, log, relayed, mailbox, unacked, read>>
  BY Zenon DEF Made
<1>2. CommitsInv'
  <2>1. ASSUME NEW k \in DOMAIN commits, k # 1
        PROVE  WellMade(k)'
    <3>1. WellMade(k)
      BY Zenon, <2>1 DEF IInv, CommitsInv
    <3> QED
      BY <1>1, <3>1 DEF WellMade
  <2>2. Len(commits') >= 1
    <3>1. 1 \in DOMAIN commits'
      BY Zenon, <1>1, LogFacts DEF IInv
    <3> QED
      BY <1>1, <3>1
  <2>3. commits'[1].add = {} /\ commits'[1].shut = {}
    BY Zenon, <1>1, LogFacts DEF IInv, CommitsInv
  <2>4. \A k \in DOMAIN commits' : commits'[k].late \subseteq commits'[k].members
    BY Zenon, <1>1 DEF IInv, CommitsInv
  <2> QED
    BY <1>1, <2>1, <2>2, <2>3, <2>4 DEF CommitsInv
<1>3. \A i \in DOMAIN log : /\ log[i] \in DOMAIN commits /\ log[i] \in DOMAIN commits'
                            /\ commits'[log[i]] = commits[log[i]]
  BY Zenon, <1>1, LogFacts DEF IInv
<1>4. LogInv'
  <2>1. log \in Seq(DOMAIN commits') /\ Len(log) \in DOMAIN log
    <3>1. DOMAIN commits \subseteq DOMAIN commits'
      BY <1>1
    <3>2. log \in Seq(DOMAIN commits')
      BY <3>1 DEF IInv, LogInv
    <3> QED
      BY <3>2, LogFacts DEF IInv
  <2> QED
    BY Zenon, <1>1, <1>3, <2>1 DEF IInv, LogInv, EpochOf, MembersOf
<1>5. JoinInv'
  <2>1. ASSUME NEW d \in Clients, NEW a \in DOMAIN log, NEW b \in DOMAIN log, a < b,
               d \notin MembersOf(log[a]), d \in MembersOf(log[b])
        PROVE  \E j \in a + 1 .. b : d \in commits'[log[j]].add
    <3>1. PICK j \in a + 1 .. b : d \in commits[log[j]].add
      BY <2>1 DEF IInv, JoinInv
    <3>2. j \in DOMAIN log
      BY <3>1, LogFacts DEF IInv
    <3> QED
      BY <1>3, <3>1, <3>2
  <2>2. \A i \in DOMAIN log : MembersOf(log[i])' = MembersOf(log[i])
    BY <1>1, <1>3 DEF MembersOf
  <2>3. log' = log
    BY <1>1
  <2> QED
    BY <2>1, <2>2, <2>3 DEF JoinInv
<1>6. Kept
  BY <1>1 DEF Kept
<1> QED
  BY <1>2, <1>4, <1>5, <1>6

LEMMA MadeSession ==
  ASSUME IInv, NEW c \in Clients, NEW n \in Nat, Made(c, n)
  PROVE  SessionInv'
<1>1. /\ DOMAIN commits' = DOMAIN commits \cup {n} /\ n # 1
      /\ \A k \in DOMAIN commits : commits'[k] = commits[k]
      /\ commits'[n].by = c /\ commits'[n].base = Home(c) /\ Home(c) # Nowhere
      /\ unanswered' = [unanswered EXCEPT ![c] = {n}]
      /\ session' \in [Clients -> [at : Nat, floor : Nat]] /\ session'[c].at = n
      /\ \A d \in Clients : session'[d].floor = session[d].floor
      /\ \A d \in Clients : d # c => session'[d] = session[d]
      /\ UNCHANGED <<heard, log>>
  BY Zenon DEF Made
<1>2. /\ unanswered \in [Clients -> SUBSET DOMAIN commits]
      /\ unanswered' \in [Clients -> SUBSET DOMAIN commits'] /\ unanswered'[c] = {n}
      /\ \A d \in Clients : d # c => unanswered'[d] = unanswered[d]
  BY <1>1 DEF IInv, SessionInv
<1>3. ASSUME NEW d \in Clients, d # c, NEW k \in unanswered[d]
      PROVE  /\ unanswered[d] = {k} /\ session[d].at = k
             /\ k # 1 /\ commits'[k] = commits[k]
             /\ commits[k].by = d /\ commits[k].base # Nowhere
  <2>1. /\ unanswered[d] = {k} /\ session[d].at = k
        /\ k # 1 /\ commits[k].by = d /\ commits[k].base # Nowhere
    BY <1>3, OpenCommit
  <2> QED
    BY <1>1, <1>2, <1>3, <2>1
<1>4. \A d \in Clients : Level(d)' = Level(d) /\ Home(d)' = Home(d)
  <2>1. Home(c)' = Home(c)
    <3>1. unanswered'[c] # {}
      BY <1>2
    <3> QED
      BY Zenon, <1>1, <3>1 DEF Home
  <2>2. ASSUME NEW d \in Clients, d # c
        PROVE  Home(d)' = Home(d)
    <3>1. unanswered'[d] = unanswered[d] /\ session'[d] = session[d]
      BY <1>1, <1>2, <2>2
    <3>2. CASE unanswered[d] = {}
      BY Zenon, <3>1, <3>2 DEF Home
    <3>3. ASSUME NEW k \in unanswered[d]
          PROVE  Home(d)' = Home(d)
      <4>1. session[d].at = k /\ commits'[k] = commits[k]
        BY Zenon, <1>3, <2>2, <3>3
      <4>2. commits'[session'[d].at] = commits[session[d].at]
        BY <3>1, <4>1
      <4> QED
        BY Zenon, <3>1, <4>2 DEF Home
    <3> QED
      BY Zenon, <3>2, <3>3
  <2> QED
    BY Zenon, <1>1, <2>1, <2>2 DEF Level
<1>5. \A d \in Clients : Level(d)' \in DOMAIN log' /\ Settled(d)'
  <2>1. Agree
    BY Zenon, <1>1, LogFacts DEF Agree, IInv
  <2> QED
    BY Zenon, <1>1, <1>4, <2>1, StaysSettled
<1>6. \A d \in Clients : \A k \in unanswered'[d] :
        /\ unanswered'[d] = {k}
        /\ session'[d].at = k
        /\ k # 1 /\ commits'[k].by = d /\ commits'[k].base # Nowhere
  <2>1. ASSUME NEW k \in unanswered'[c]
        PROVE  /\ unanswered'[c] = {k} /\ session'[c].at = k
               /\ k # 1 /\ commits'[k].by = c /\ commits'[k].base # Nowhere
    BY <1>1, <1>2, <2>1
  <2>2. ASSUME NEW d \in Clients, d # c, NEW k \in unanswered'[d]
        PROVE  /\ unanswered'[d] = {k} /\ session'[d].at = k
               /\ k # 1 /\ commits'[k].by = d /\ commits'[k].base # Nowhere
    <3>1. k \in unanswered[d] /\ unanswered'[d] = unanswered[d] /\ session'[d] = session[d]
      BY <1>1, <1>2, <2>2
    <3>2. /\ unanswered[d] = {k} /\ session[d].at = k
          /\ k # 1 /\ commits'[k] = commits[k]
          /\ commits[k].by = d /\ commits[k].base # Nowhere
      BY Zenon, <1>3, <2>2, <3>1
    <3> QED
      BY <3>1, <3>2
  <2> QED
    BY Zenon, <2>1, <2>2
<1> QED
  BY <1>1, <1>2, <1>5, <1>6, Zenon DEF IInv, SessionInv

LEMMA MadeOutbox ==
  ASSUME IInv, NEW c \in Clients, NEW n \in Nat, Made(c, n)
  PROVE  OutboxInv'
<1>0. PICK e : e = Event("commit", n)
  OBVIOUS
<1>1. /\ DOMAIN commits' = DOMAIN commits \cup {n} /\ messages' = messages /\ log' = log
      /\ unanswered[c] = {} /\ unanswered' = [unanswered EXCEPT ![c] = {n}]
  BY DEF Made
<1>2. /\ outbox' \in [Clients -> Seq(Events)]
      /\ \A d \in Clients : d # c => outbox'[d] = outbox[d]
      /\ Grown(outbox[c], outbox'[c], e)
      /\ \E i \in DOMAIN outbox'[c] : outbox'[c][i] = e /\ i \notin DOMAIN outbox[c]
  BY <1>0, Zenon DEF Made, Handed
<1>3. e.kind = "commit" /\ e.n = n
  BY <1>0 DEF Event
<1>4. messages \in Seq(Messages)'
  <2>1. Messages \subseteq Messages'
    BY <1>1 DEF Messages
  <2> QED
    BY <2>1 DEF IInv, OutboxInv
<1>5. unanswered'[c] = {n} /\ \A d \in Clients : d # c => unanswered'[d] = unanswered[d]
  BY <1>1 DEF IInv, SessionInv
<1>6. \A i \in DOMAIN outbox[c] : Submitted(c, i) /\ outbox[c][i].kind # "commit"
  <2>1. \A i \in DOMAIN outbox[c] : Submitted(c, i)
    BY DEF IInv, OutboxInv
  <2> QED
    BY Zenon, <1>1, <2>1 DEF Submitted
<1>7. ASSUME NEW d \in Clients, NEW i \in DOMAIN outbox'[d]
      PROVE  Submitted(d, i)'
  <2>1. CASE d # c
    <3>1. Submitted(d, i) /\ outbox'[d] = outbox[d] /\ unanswered'[d] = unanswered[d]
      BY <1>2, <1>5, <2>1 DEF IInv, OutboxInv
    <3> QED
      BY Zenon, <1>1, <3>1 DEF Submitted, Accepted
  <2>2. CASE d = c /\ i \in DOMAIN outbox[c]
    <3>1. Submitted(c, i) /\ outbox'[c][i] = outbox[c][i] /\ outbox[c][i].kind # "commit"
      BY Zenon, <1>2, <1>6, <2>2 DEF Grown
    <3>2. outbox[c][i].kind = "message" =>
            /\ outbox[c][i].n \in DOMAIN messages /\ messages[outbox[c][i].n].by = c
            /\ Accepted(messages[outbox[c][i].n].at)
      BY Zenon, <1>6, <3>1 DEF Submitted
    <3> QED
      BY Zenon, <1>1, <2>2, <3>1, <3>2 DEF Submitted, Accepted
  <2>3. CASE d = c /\ i \notin DOMAIN outbox[c]
    <3>1. outbox'[c][i].kind = "commit" /\ outbox'[c][i].n = n
      BY <1>2, <1>3, <2>3 DEF Grown
    <3>2. \A j \in DOMAIN outbox'[c] : outbox'[c][j].kind = "commit" => i = j
      BY <1>2, <1>6, <2>3 DEF Grown
    <3> QED
      BY <1>5, <2>3, <3>1, <3>2 DEF Submitted
  <2> QED
    BY <2>1, <2>2, <2>3
<1>8. ASSUME NEW d \in Clients, unanswered'[d] # {}
      PROVE  \E i \in DOMAIN outbox'[d] : outbox'[d][i].kind = "commit"
  <2>1. CASE d # c
    <3>1. \E i \in DOMAIN outbox[d] : outbox[d][i].kind = "commit"
      BY <1>5, <1>8, <2>1 DEF IInv, OutboxInv
    <3> QED
      BY <1>2, <2>1, <3>1
  <2>2. CASE d = c
    BY <1>2, <1>3, <2>2
  <2> QED
    BY <2>1, <2>2
<1> QED
  BY <1>1, <1>2, <1>4, <1>7, <1>8, Zenon DEF OutboxInv

LEMMA MakeStep ==
  ASSUME IInv, NEW c \in Clients, NEW add \in SUBSET Clients, NEW remove \in SUBSET Clients,
         NEW shut \in SUBSET Clients, make_commit(c, add, remove, shut)
  PROVE  IInv'
<1>1. PICK n \in Nat : Made(c, n)
  BY MakesIt, Zenon
<1>2. CommitsInv' /\ LogInv' /\ JoinInv' /\ Kept
  BY <1>1, MadeLog, Zenon
<1>3. SessionInv' /\ OutboxInv'
  BY <1>1, MadeSession, MadeOutbox, Zenon
<1>4. MailInv' /\ CompleteInv' /\ MessageInv'
  BY <1>2, KeptMail, KeptComplete, KeptMessages, Zenon
<1> QED
  BY <1>2, <1>3, <1>4, Zenon DEF IInv

-----------------------------------------------------------------------------
(* c encrypts message n and hands it to the relay.                         *)

Encrypted(c, n) ==
  /\ messages' \in Seq(Messages) /\ n \in DOMAIN messages'
  /\ \A m \in DOMAIN messages : m \in DOMAIN messages' /\ messages'[m] = messages[m]
  /\ messages'[n].by = c /\ messages'[n].at = at(c) /\ at(c) # Nowhere
  /\ UNCHANGED <<commits, session, heard, unanswered, roster, log, relayed, mailbox, unacked, read>>
  /\ Handed(c, Event("message", n))

LEMMA EncryptsIt ==
  ASSUME IInv, NEW c \in Clients, encrypt(c)
  PROVE  \E n \in Nat : Encrypted(c, n)
<1>1. PICK n, new : n = Len(messages) + 1 /\ new = [by |-> c, at |-> at(c)]
  BY Zenon
<1>2. /\ at(c) # Nowhere /\ messages' = Append(messages, new) /\ submit(c, "message", n)
      /\ UNCHANGED <<commits, session, heard, unanswered, roster, log, relayed, mailbox, unacked, losses, read>>
  BY <1>1 DEF encrypt, relay, client
<1>3. at(c) \in DOMAIN commits
  BY <1>2, SessionAt
<1>4. new \in Messages /\ new.by = c /\ new.at = at(c)
  BY <1>1, <1>3 DEF Messages
<1>5. /\ messages' \in Seq(Messages) /\ n \in Nat /\ n \in DOMAIN messages' /\ messages'[n] = new
      /\ \A m \in DOMAIN messages : m \in DOMAIN messages' /\ messages'[m] = messages[m]
  <2>1. messages \in Seq(Messages)
    BY DEF IInv, OutboxInv
  <2> QED
    BY <1>1, <1>2, <1>4, <2>1, Appended
<1>6. Handed(c, Event("message", n))
  BY <1>2, <1>5, Submits
<1>7. messages'[n].by = c /\ messages'[n].at = at(c)
  BY <1>4, <1>5, Zenon
<1>8. Encrypted(c, n)
  BY <1>2, <1>5, <1>6, <1>7, Zenon DEF Encrypted
<1> QED
  BY <1>5, <1>8

LEMMA EncryptedRest ==
  ASSUME IInv, NEW c \in Clients, NEW n \in Nat, Encrypted(c, n)
  PROVE  CommitsInv' /\ LogInv' /\ JoinInv' /\ SessionInv' /\ Kept
<1>1. UNCHANGED <<commits, session, heard, unanswered, roster, log, relayed, mailbox, unacked, read>>
  BY DEF Encrypted
<1>2. CommitsInv'
  BY Zenon, <1>1 DEF IInv, CommitsInv, WellMade
<1>3. LogInv' /\ JoinInv'
  BY Zenon, <1>1 DEF IInv, LogInv, JoinInv, EpochOf, MembersOf
<1>4. SessionInv'
  BY <1>1, SessionKept
<1>5. Kept
  BY DEF Encrypted, Kept
<1> QED
  BY <1>2, <1>3, <1>4, <1>5

LEMMA EncryptedOld ==
  ASSUME IInv, NEW c \in Clients, NEW n \in Nat, Encrypted(c, n),
         NEW d \in Clients, NEW i \in DOMAIN outbox[d], NEW x, x = outbox[d][i],
         i \in DOMAIN outbox'[d], outbox'[d][i] = x,
         \A j \in DOMAIN outbox[d] : j \in DOMAIN outbox'[d] /\ outbox'[d][j] = outbox[d][j],
         \A j \in DOMAIN outbox'[d] : j \in DOMAIN outbox[d] \/ outbox'[d][j].kind # "commit"
  PROVE  Submitted(d, i)'
<1>1. /\ UNCHANGED <<unanswered, log>>
      /\ \A m \in DOMAIN messages : m \in DOMAIN messages' /\ messages'[m] = messages[m]
  BY Zenon DEF Encrypted
<1>2. /\ x.kind = "commit" =>
           /\ x.n \in unanswered[d]
           /\ \A j \in DOMAIN outbox[d] : outbox[d][j].kind = "commit" => i = j
      /\ x.kind = "message" =>
           /\ x.n \in DOMAIN messages /\ messages[x.n].by = d
           /\ \/ Accepted(messages[x.n].at)
              \/ \E j \in DOMAIN outbox[d] : /\ j < i /\ outbox[d][j].kind = "commit"
                                             /\ messages[x.n].at = outbox[d][j].n
  <2>1. Submitted(d, i)
    BY Zenon DEF IInv, OutboxInv
  <2> QED
    BY Zenon, <2>1 DEF Submitted
<1>3. x.kind = "commit" =>
        /\ x.n \in unanswered'[d]
        /\ \A j \in DOMAIN outbox'[d] : outbox'[d][j].kind = "commit" => i = j
  BY Zenon, <1>1, <1>2
<1>4. x.kind = "message" =>
        /\ x.n \in DOMAIN messages' /\ messages'[x.n].by = d
        /\ \/ \E l \in DOMAIN log' : log'[l] = messages'[x.n].at
           \/ \E j \in DOMAIN outbox'[d] : /\ j < i /\ outbox'[d][j].kind = "commit"
                                           /\ messages'[x.n].at = outbox'[d][j].n
  <2> SUFFICES ASSUME x.kind = "message"
               PROVE  /\ x.n \in DOMAIN messages' /\ messages'[x.n].by = d
                      /\ \/ \E l \in DOMAIN log' : log'[l] = messages'[x.n].at
                         \/ \E j \in DOMAIN outbox'[d] : /\ j < i /\ outbox'[d][j].kind = "commit"
                                                         /\ messages'[x.n].at = outbox'[d][j].n
    BY Zenon
  <2>1. x.n \in DOMAIN messages' /\ messages'[x.n] = messages[x.n]
    BY Zenon, <1>1, <1>2
  <2> QED
    BY Zenon, <1>1, <1>2, <2>1 DEF Accepted
<1> QED
  BY Zenon, <1>3, <1>4 DEF Submitted, Accepted

LEMMA EncryptedOutbox ==
  ASSUME IInv, NEW c \in Clients, NEW n \in Nat, Encrypted(c, n)
  PROVE  OutboxInv'
<1>0. PICK e : e = Event("message", n)
  OBVIOUS
<1>1. /\ UNCHANGED <<commits, unanswered, log>>
      /\ messages' \in Seq(Messages) /\ n \in DOMAIN messages'
      /\ messages'[n].by = c /\ messages'[n].at = at(c) /\ at(c) # Nowhere
  BY DEF Encrypted
<1>2. /\ outbox' \in [Clients -> Seq(Events)]
      /\ \A d \in Clients : d # c => outbox'[d] = outbox[d]
      /\ Grown(outbox[c], outbox'[c], e)
  BY <1>0, Zenon DEF Encrypted, Handed
<1>3. e.kind = "message" /\ e.n = n
  BY <1>0 DEF Event
<1>4. messages' \in Seq(Messages)'
  BY <1>1 DEF Messages
<1>5. \A d \in Clients :
        /\ \A j \in DOMAIN outbox[d] : j \in DOMAIN outbox'[d] /\ outbox'[d][j] = outbox[d][j]
        /\ \A j \in DOMAIN outbox'[d] : j \in DOMAIN outbox[d] \/ outbox'[d][j].kind # "commit"
  BY Zenon, <1>2, <1>3 DEF Grown
<1>6. ASSUME NEW i \in DOMAIN outbox'[c], i \notin DOMAIN outbox[c]
      PROVE  Submitted(c, i)'
  <2>1. /\ outbox'[c][i] = e /\ \A j \in DOMAIN outbox[c] : j < i
    BY <1>2, <1>6 DEF Grown
  <2>2. /\ unanswered[c] = {} => Accepted(at(c))
        /\ \A k \in unanswered[c] : at(c) = k
    BY <1>1, SessionAt
  <2>3. \/ \E l \in DOMAIN log' : log'[l] = messages'[n].at
        \/ \E j \in DOMAIN outbox'[c] : /\ j < i /\ outbox'[c][j].kind = "commit"
                                        /\ messages'[n].at = outbox'[c][j].n
    <3>1. CASE unanswered[c] = {}
      BY <1>1, <2>2, <3>1 DEF Accepted
    <3>2. CASE unanswered[c] # {}
      <4>1. PICK j \in DOMAIN outbox[c] : outbox[c][j].kind = "commit"
        BY <3>2 DEF IInv, OutboxInv
      <4>2. outbox[c][j].n \in unanswered[c]
        BY Zenon, <4>1 DEF IInv, OutboxInv, Submitted
      <4>3. /\ j \in DOMAIN outbox'[c] /\ j < i /\ outbox'[c][j].kind = "commit"
            /\ messages'[n].at = outbox'[c][j].n
        BY <1>1, <1>5, <2>1, <2>2, <4>1, <4>2
      <4> QED
        BY Zenon, <4>3
    <3> QED
      BY Zenon, <3>1, <3>2
  <2> QED
    BY <1>1, <1>3, <2>1, <2>3 DEF Submitted, Accepted
<1>7. ASSUME NEW d \in Clients, NEW i \in DOMAIN outbox'[d]
      PROVE  Submitted(d, i)'
  <2>1. CASE i \in DOMAIN outbox[d]
    <3>1. PICK x : x = outbox[d][i]
      OBVIOUS
    <3>2. outbox'[d][i] = x
      BY <1>5, <2>1, <3>1
    <3> QED
      BY Zenon, <1>5, <2>1, <3>1, <3>2, EncryptedOld
  <2>2. CASE i \notin DOMAIN outbox[d]
    <3>1. d = c
      BY <1>2, <2>2
    <3> QED
      BY <1>6, <2>2, <3>1
  <2> QED
    BY <2>1, <2>2
<1>8. \A d \in Clients : unanswered'[d] # {} =>
        \E i \in DOMAIN outbox'[d] : outbox'[d][i].kind = "commit"
  <2> SUFFICES ASSUME NEW d \in Clients, unanswered[d] # {}
               PROVE  \E i \in DOMAIN outbox'[d] : outbox'[d][i].kind = "commit"
    BY <1>1
  <2>1. PICK i \in DOMAIN outbox[d] : outbox[d][i].kind = "commit"
    BY Zenon DEF IInv, OutboxInv
  <2> QED
    BY <1>5, <2>1
<1> QED
  BY <1>2, <1>4, <1>7, <1>8, Zenon DEF OutboxInv

LEMMA EncryptStep ==
  ASSUME IInv, NEW c \in Clients, encrypt(c)
  PROVE  IInv'
<1>1. PICK n \in Nat : Encrypted(c, n)
  BY EncryptsIt, Zenon
<1>2. CommitsInv' /\ LogInv' /\ JoinInv' /\ SessionInv' /\ Kept
  BY <1>1, EncryptedRest, Zenon
<1>3. OutboxInv'
  BY <1>1, EncryptedOutbox, Zenon
<1>4. MailInv' /\ CompleteInv' /\ MessageInv'
  BY <1>2, KeptMail, KeptComplete, KeptMessages, Zenon
<1> QED
  BY <1>2, <1>3, <1>4, Zenon DEF IInv

-----------------------------------------------------------------------------
(* The relay takes what c hands to it.                                     *)

HandedOver(c, e) ==
  /\ 1 \in DOMAIN outbox[c] /\ outbox[c][1] = e /\ e \in Events
  /\ outbox' \in [Clients -> Seq(Events)]
  /\ \A d \in Clients : d # c => outbox'[d] = outbox[d]
  /\ \A i \in DOMAIN outbox'[c] : i + 1 \in DOMAIN outbox[c] /\ outbox'[c][i] = outbox[c][i + 1]
  /\ \A i \in DOMAIN outbox[c] : i # 1 => i - 1 \in DOMAIN outbox'[c] /\ outbox'[c][i - 1] = outbox[c][i]
  /\ \A i \in DOMAIN outbox[c] : i \in Nat /\ i >= 1
  /\ \A i \in DOMAIN outbox'[c] : i \in Nat /\ i >= 1

LEMMA HandsOver ==
  ASSUME IInv, NEW c \in Clients, outbox[c] # << >>, outbox' = [outbox EXCEPT ![c] = Tail(@)]
  PROVE  HandedOver(c, Head(outbox[c]))
<1>1. outbox \in [Clients -> Seq(Events)]
  BY DEF IInv, OutboxInv
<1>2. /\ outbox[c] \in Seq(Events) /\ outbox'[c] = Tail(outbox[c])
      /\ \A d \in Clients : d # c => outbox'[d] = outbox[d]
  BY <1>1
<1>3. /\ Tail(outbox[c]) \in Seq(Events) /\ 1 \in DOMAIN outbox[c] /\ Head(outbox[c]) = outbox[c][1]
      /\ \A i \in DOMAIN Tail(outbox[c]) : i + 1 \in DOMAIN outbox[c] /\ Tail(outbox[c])[i] = outbox[c][i + 1]
      /\ \A i \in DOMAIN outbox[c] :
           i # 1 => i - 1 \in DOMAIN Tail(outbox[c]) /\ Tail(outbox[c])[i - 1] = outbox[c][i]
  BY <1>2, Taken
<1>4. outbox' \in [Clients -> Seq(Events)]
  BY <1>1, <1>3
<1>5. \A s \in Seq(Events) : \A i \in DOMAIN s : s[i] \in Events /\ i \in Nat /\ i >= 1
  OBVIOUS
<1> QED
  BY <1>2, <1>3, <1>4, <1>5 DEF HandedOver

\* A message gone, the others stay behind the commit they follow.
LEMMA MessageLeaves ==
  ASSUME IInv, NEW c \in Clients, NEW e, HandedOver(c, e), e.kind = "message",
         UNCHANGED <<commits, messages, unanswered, log>>
  PROVE  OutboxInv'
<1>1. messages' \in Seq(Messages)' /\ outbox' \in [Clients -> Seq(Events)]
  BY Zenon DEF IInv, OutboxInv, Messages, HandedOver
<1>2. ASSUME NEW d \in Clients, NEW i \in DOMAIN outbox'[d]
      PROVE  Submitted(d, i)'
  <2>1. CASE d # c
    <3>1. Submitted(d, i) /\ outbox'[d] = outbox[d]
      BY Zenon, <2>1 DEF IInv, OutboxInv, HandedOver
    <3> QED
      BY Zenon, <3>1 DEF Submitted, Accepted
  <2>2. CASE d = c
    <3>1. /\ i + 1 \in DOMAIN outbox[c] /\ outbox'[c][i] = outbox[c][i + 1] /\ i \in Nat
      BY Zenon, <2>2 DEF HandedOver
    <3>2. Submitted(c, i + 1)
      BY <3>1 DEF IInv, OutboxInv
    <3>3. PICK x : x = outbox[c][i + 1]
      OBVIOUS
    <3>4. x.kind = "commit" =>
            /\ x.n \in unanswered[c]
            /\ \A j \in DOMAIN outbox'[c] : outbox'[c][j].kind = "commit" => i = j
      <4> SUFFICES ASSUME x.kind = "commit",
                          NEW j \in DOMAIN outbox'[c], outbox'[c][j].kind = "commit"
                   PROVE  i = j
        BY Zenon, <3>2, <3>3 DEF Submitted
      <4>1. j + 1 \in DOMAIN outbox[c] /\ outbox[c][j + 1].kind = "commit" /\ j \in Nat
        BY Zenon DEF HandedOver
      <4>2. i + 1 = j + 1
        BY Zenon, <3>2, <3>3, <4>1 DEF Submitted
      <4> QED
        BY <3>1, <4>1, <4>2
    <3>5. ASSUME NEW j \in DOMAIN outbox[c], j < i + 1,
                 outbox[c][j].kind = "commit", messages[x.n].at = outbox[c][j].n
          PROVE  \E l \in DOMAIN outbox'[c] : /\ l < i /\ outbox'[c][l].kind = "commit"
                                              /\ messages[x.n].at = outbox'[c][l].n
      <4>1. j # 1
        BY Zenon, <3>5 DEF HandedOver
      <4>2. j - 1 \in DOMAIN outbox'[c] /\ outbox'[c][j - 1] = outbox[c][j] /\ j \in Nat
        BY Zenon, <4>1 DEF HandedOver
      <4>3. j - 1 < i
        BY <3>1, <3>5, <4>2
      <4> QED
        BY Zenon, <3>5, <4>2, <4>3
    <3>6. x.kind = "message" =>
            /\ x.n \in DOMAIN messages /\ messages[x.n].by = c
            /\ \/ Accepted(messages[x.n].at)
               \/ \E l \in DOMAIN outbox'[c] : /\ l < i /\ outbox'[c][l].kind = "commit"
                                               /\ messages[x.n].at = outbox'[c][l].n
      BY Zenon, <3>2, <3>3, <3>5 DEF Submitted
    <3> QED
      BY Zenon, <2>2, <3>1, <3>3, <3>4, <3>6 DEF Submitted, Accepted
  <2> QED
    BY <2>1, <2>2
<1>3. ASSUME NEW d \in Clients, unanswered[d] # {}
      PROVE  \E i \in DOMAIN outbox'[d] : outbox'[d][i].kind = "commit"
  <2>1. PICK i \in DOMAIN outbox[d] : outbox[d][i].kind = "commit"
    BY <1>3 DEF IInv, OutboxInv
  <2>2. CASE d # c
    BY Zenon, <2>1, <2>2 DEF HandedOver
  <2>3. CASE d = c
    <3>1. i # 1
      BY <2>1, <2>3 DEF HandedOver
    <3>2. i - 1 \in DOMAIN outbox'[d] /\ outbox'[d][i - 1].kind = "commit"
      BY Zenon, <2>1, <2>3, <3>1 DEF HandedOver
    <3> QED
      BY <3>2
  <2> QED
    BY <2>2, <2>3
<1> QED
  BY Zenon, <1>1, <1>2, <1>3 DEF OutboxInv

\* The open commit gone and accepted, so is what follows it.
LEMMA CommitLeaves ==
  ASSUME IInv, NEW c \in Clients, NEW e, HandedOver(c, e), e.kind = "commit",
         UNCHANGED <<commits, messages>>, unanswered' = [unanswered EXCEPT ![c] = {}],
         \A x : Accepted(x)' <=> Accepted(x) \/ x = e.n
  PROVE  OutboxInv'
<1>1. messages' \in Seq(Messages)' /\ outbox' \in [Clients -> Seq(Events)]
  BY Zenon DEF IInv, OutboxInv, Messages, HandedOver
<1>2. unanswered'[c] = {} /\ \A d \in Clients : d # c => unanswered'[d] = unanswered[d]
  BY DEF IInv, SessionInv
<1>3. ASSUME NEW d \in Clients, NEW i \in DOMAIN outbox'[d]
      PROVE  Submitted(d, i)'
  <2>1. PICK x : x = outbox'[d][i]
    OBVIOUS
  <2>2. CASE d # c
    <3>1. Submitted(d, i) /\ outbox'[d] = outbox[d] /\ unanswered'[d] = unanswered[d]
      BY Zenon, <1>2, <2>2 DEF IInv, OutboxInv, HandedOver
    <3>2. x.kind = "commit" =>
            /\ x.n \in unanswered[d]
            /\ \A j \in DOMAIN outbox[d] : outbox[d][j].kind = "commit" => i = j
      BY Zenon, <2>1, <3>1 DEF Submitted
    <3>3. x.kind = "message" =>
            /\ x.n \in DOMAIN messages /\ messages[x.n].by = d
            /\ \/ Accepted(messages[x.n].at)
               \/ \E j \in DOMAIN outbox[d] : /\ j < i /\ outbox[d][j].kind = "commit"
                                              /\ messages[x.n].at = outbox[d][j].n
      BY Zenon, <2>1, <3>1 DEF Submitted
    <3>4. \A y : y = messages[x.n].at /\ Accepted(y) => \E l \in DOMAIN log' : log'[l] = y
      BY DEF Accepted
    <3> QED
      BY Zenon, <2>1, <3>1, <3>2, <3>3, <3>4 DEF Submitted, Accepted
  <2>3. CASE d = c
    <3>1. /\ i + 1 \in DOMAIN outbox[c] /\ i + 1 # 1 /\ x = outbox[c][i + 1]
      BY <2>1, <2>3 DEF HandedOver
    <3>2. Submitted(c, i + 1) /\ Submitted(c, 1) /\ outbox[c][1] = e /\ 1 \in DOMAIN outbox[c]
      BY Zenon, <3>1 DEF IInv, OutboxInv, HandedOver
    <3>3. \A j \in DOMAIN outbox[c] : outbox[c][j].kind = "commit" => j = 1
      BY Zenon, <3>2 DEF Submitted
    <3>4. x.kind # "commit"
      BY <3>1, <3>3
    <3>5. x.kind = "message" =>
            /\ x.n \in DOMAIN messages /\ messages[x.n].by = c
            /\ Accepted(messages[x.n].at) \/ messages[x.n].at = e.n
      BY Zenon, <3>1, <3>2, <3>3 DEF Submitted
    <3>6. \A y : Accepted(y) \/ y = e.n => \E l \in DOMAIN log' : log'[l] = y
      BY DEF Accepted
    <3> QED
      BY Zenon, <2>1, <2>3, <3>4, <3>5, <3>6 DEF Submitted, Accepted
  <2> QED
    BY <2>2, <2>3
<1>4. ASSUME NEW d \in Clients, unanswered'[d] # {}
      PROVE  \E i \in DOMAIN outbox'[d] : outbox'[d][i].kind = "commit"
  <2>1. d # c /\ unanswered[d] # {}
    BY <1>2, <1>4
  <2>2. \E i \in DOMAIN outbox[d] : outbox[d][i].kind = "commit"
    BY <2>1 DEF IInv, OutboxInv
  <2> QED
    BY Zenon, <2>1, <2>2 DEF HandedOver
<1> QED
  BY Zenon, <1>1, <1>3, <1>4 DEF OutboxInv

=============================================================================
