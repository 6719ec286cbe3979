-------------------------- MODULE RelayMailProofs --------------------------
(***************************************************************************)
(* The mail of a group: what holds of it in every state, and that it stays *)
(* so when a member takes up its mail or is sent it again.  The changes    *)
(* stored for a client and the messages between them stay in an order in   *)
(* which each of them finds the session it is for.                         *)
(***************************************************************************)
EXTENDS RelayDelivery, TLAPS

-----------------------------------------------------------------------------
(* The commits the relay accepted.                                         *)

EpochOf(k) == commits[k].epoch

MembersOf(k) == commits[k].members

\* A commit follows from its base as make_commit has it.
WellMade(k) ==
  LET new == commits[k]
      old == commits[new.base]
  IN  /\ new.base \in DOMAIN commits
      /\ new.epoch = old.epoch + 1
      /\ new.by \in old.members
      /\ new.add \cap old.members = {}
      /\ new.remove \subseteq old.members \ {new.by}
      /\ new.members = (old.members \ new.remove) \cup new.add
      /\ new.shut \cap (new.add \cup {new.by}) = {}

Commits ==
  [by : Clients \cup {Nowhere}, base : Nat, epoch : Nat,
   add : SUBSET Clients, remove : SUBSET Clients, members : SUBSET Clients,
   late : SUBSET Clients, shut : SUBSET Clients]

CommitsInv ==
  /\ commits \in Seq(Commits)
  /\ Len(commits) >= 1
  /\ commits[1].add = {} /\ commits[1].shut = {}
  /\ \A k \in DOMAIN commits : commits[k].late \subseteq commits[k].members
  /\ \A k \in DOMAIN commits : k # 1 => WellMade(k)

\* The log is one chain of epochs, and the roster is its last commit.
LogInv ==
  /\ log \in Seq(DOMAIN commits)
  /\ Len(log) >= 1
  /\ \A i \in DOMAIN log : EpochOf(log[i]) = i
  /\ \A i \in DOMAIN log : i > 1 => log[i] # 1 /\ commits[log[i]].base = log[i - 1]
  /\ roster = [epoch |-> Len(log), members |-> MembersOf(log[Len(log)])]

\* Who is a member later and was not before has been added in between.
JoinInv ==
  \A c \in Clients : \A a, b \in DOMAIN log :
    a < b /\ c \notin MembersOf(log[a]) /\ c \in MembersOf(log[b])
      => \E j \in a + 1 .. b : c \in commits[log[j]].add

-----------------------------------------------------------------------------
(* The clients.                                                            *)

\* The epoch up to which c has taken up its mail.
Level(c) == heard[c]

\* Epoch i is one that c can open, and one that c is in.
Opens(c, i) == c \in MembersOf(log[i]) \ commits[log[i]].shut
InStep(c, i) == c \in MembersOf(log[i]) /\ ~shut_out(c, i)

\* Where a session may be that has taken up the mail to epoch L: at that epoch, or
\* else before the first that its client could not open.
Stands(c, L, k) ==
  IF InStep(c, L)
  THEN k = log[L]
  ELSE k = Nowhere \/ \E i \in 1 .. L - 1 : k = log[i] /\ c \in MembersOf(log[i]) /\ ~Opens(c, i + 1)

\* The Welcomes up to there are refused from now on, the others are not.
Floored(c, L, f) ==
  f <= L + 1 /\ \A i \in 1 .. L : c \in commits[log[i]].add => i < f

\* The accepted commit at which c's session is, its own open commit aside.
Home(c) == IF unanswered[c] = {} THEN session[c].at ELSE commits[session[c].at].base

Settled(c) ==
  \A L \in {Level(c)}, k \in {Home(c)}, f \in {session[c].floor} : Stands(c, L, k) /\ Floored(c, L, f)

SessionInv ==
  /\ session \in [Clients -> [at : Nat, floor : Nat]]
  /\ heard \in [Clients -> Nat]
  /\ unanswered \in [Clients -> SUBSET DOMAIN commits]
  /\ \A c \in Clients :
       /\ Level(c) \in DOMAIN log
       /\ Settled(c)
       /\ \A k \in unanswered[c] :
            /\ unanswered[c] = {k}
            /\ session[c].at = k
            /\ k # 1 /\ commits[k].by = c /\ commits[k].base # Nowhere

Accepted(k) == \E i \in DOMAIN log : log[i] = k

Events == [kind : {"commit", "welcome", "message"}, n : Nat]

\* What c hands to the relay: one open commit at most, and no message of an epoch
\* the relay will not have accepted when it comes to it.
Submitted(c, i) ==
  LET e == outbox[c][i]
  IN  /\ e.kind = "commit" =>
           /\ e.n \in unanswered[c]
           /\ \A j \in DOMAIN outbox[c] : outbox[c][j].kind = "commit" => i = j
      /\ e.kind = "message" =>
           /\ e.n \in DOMAIN messages /\ messages[e.n].by = c
           /\ \/ Accepted(messages[e.n].at)
              \/ \E j \in DOMAIN outbox[c] : /\ j < i /\ outbox[c][j].kind = "commit"
                                             /\ messages[e.n].at = outbox[c][j].n

Messages == [by : Clients, at : DOMAIN commits]

OutboxInv ==
  /\ messages \in Seq(Messages)
  /\ outbox \in [Clients -> Seq(Events)]
  /\ \A c \in Clients : \A i \in DOMAIN outbox[c] : Submitted(c, i)
  /\ \A c \in Clients : unanswered[c] # {} =>
       \E i \in DOMAIN outbox[c] : outbox[c][i].kind = "commit"

-----------------------------------------------------------------------------
(* The mail.                                                               *)

IsChange(e) == e.kind \in {"commit", "welcome"}

\* What the relay stores for c.
Addressed(c, e) ==
  /\ e \in Events
  /\ IsChange(e) => \E i \in DOMAIN log : i > 1 /\ e.n = log[i]
  /\ e.kind = "commit" => c \in MembersOf(commits[e.n].base)
  /\ e.kind = "welcome" => c \in commits[e.n].add
  /\ e.kind = "message" => e.n \in relayed /\ c \in Audience(e.n)

\* A change c has not processed yet.
Fresh(c, e) == IsChange(e) /\ EpochOf(e.n) > Level(c)

MailInv ==
  /\ mailbox \in [Clients -> Seq(Events)]
  /\ unacked \in [Clients -> SUBSET Events]
  /\ \A c \in Clients :
       /\ \A p \in DOMAIN mailbox[c] : Addressed(c, mailbox[c][p])
       /\ \A e \in unacked[c] : Addressed(c, e) /\ ~Fresh(c, e)
       /\ \A p, q \in DOMAIN mailbox[c] :
            p < q /\ Fresh(c, mailbox[c][p]) /\ Fresh(c, mailbox[c][q])
              => EpochOf(mailbox[c][p].n) < EpochOf(mailbox[c][q].n)

\* Every accepted commit above c's level that concerns c is in its mailbox.
CompleteInv ==
  \A c \in Clients : \A i \in DOMAIN log :
    i > Level(c) =>
      /\ commits[log[i]].by # c
      /\ c \in MembersOf(log[i - 1]) =>
           \E p \in DOMAIN mailbox[c] : mailbox[c][p] = Event("commit", log[i])
      /\ c \in commits[log[i]].add =>
           \E p \in DOMAIN mailbox[c] : mailbox[c][p] = Event("welcome", log[i])

\* Message m comes up at position p of c's mailbox in its own epoch.
InPlace(c, m, p) ==
  /\ mailbox[c][p] = Event("message", m)
  /\ Level(c) <= EpochOf(messages[m].at)
  /\ \A q \in DOMAIN mailbox[c] : Fresh(c, mailbox[c][q]) =>
       (q < p <=> EpochOf(mailbox[c][q].n) <= EpochOf(messages[m].at))

\* c's own commit overtook m, or c is shut out of m's epoch.
Excused(c, m) == committed_past(c, m) \/ shut_out(c, EpochOf(messages[m].at))

MessageInv ==
  /\ relayed \subseteq DOMAIN messages
  /\ read \in [Clients -> SUBSET relayed]
  /\ \A m \in relayed : Accepted(messages[m].at)
  /\ \A c \in Clients : \A m \in read[c] : c \in Audience(m)
  /\ \A m \in relayed : \A c \in Audience(m) :
       \/ m \in read[c]
       \/ Excused(c, m)
       \/ \E p \in DOMAIN mailbox[c] : InPlace(c, m, p)

IInv ==
  CommitsInv /\ LogInv /\ JoinInv /\ SessionInv /\ OutboxInv /\ MailInv /\ CompleteInv /\ MessageInv

-----------------------------------------------------------------------------
(* Queues.                                                                 *)

LEMMA Appended ==
  ASSUME NEW S, NEW s \in Seq(S), NEW x \in S
  PROVE  /\ Append(s, x) \in Seq(S)
         /\ Len(s) \in Nat /\ Len(Append(s, x)) = Len(s) + 1
         /\ DOMAIN s = 1 .. Len(s) /\ DOMAIN Append(s, x) = 1 .. Len(s) + 1
         /\ \A i \in DOMAIN s : Append(s, x)[i] = s[i]
         /\ Append(s, x)[Len(s) + 1] = x
  OBVIOUS

LEMMA Taken ==
  ASSUME NEW S, NEW s \in Seq(S), s # << >>
  PROVE  /\ Tail(s) \in Seq(S)
         /\ 1 \in DOMAIN s /\ Head(s) = s[1]
         /\ \A i \in DOMAIN Tail(s) : i + 1 \in DOMAIN s /\ Tail(s)[i] = s[i + 1]
         /\ \A i \in DOMAIN s : i # 1 => i - 1 \in DOMAIN Tail(s) /\ Tail(s)[i - 1] = s[i]
  OBVIOUS

LEMMA Put ==
  ASSUME NEW S, NEW s \in Seq(S), NEW x \in S
  PROVE  /\ <<x>> \o s \in Seq(S)
         /\ 1 \in DOMAIN (<<x>> \o s) /\ (<<x>> \o s)[1] = x
         /\ \A i \in DOMAIN (<<x>> \o s) : i # 1 => i - 1 \in DOMAIN s /\ (<<x>> \o s)[i] = s[i - 1]
         /\ \A i \in DOMAIN s : i + 1 \in DOMAIN (<<x>> \o s) /\ (<<x>> \o s)[i + 1] = s[i]
<1>1. <<x>> \in Seq(S) /\ Len(<<x>>) = 1 /\ <<x>>[1] = x
  OBVIOUS
<1>2. /\ <<x>> \o s \in Seq(S)
      /\ Len(<<x>> \o s) = 1 + Len(s)
      /\ \A i \in 1 .. 1 + Len(s) : (<<x>> \o s)[i] = IF i <= 1 THEN <<x>>[i] ELSE s[i - 1]
  BY <1>1
<1>3. DOMAIN s = 1 .. Len(s) /\ DOMAIN (<<x>> \o s) = 1 .. 1 + Len(s) /\ Len(s) \in Nat
  BY <1>2
<1> QED
  BY <1>1, <1>2, <1>3

-----------------------------------------------------------------------------
(* The log.                                                                *)

LEMMA LogFacts ==
  ASSUME CommitsInv, LogInv
  PROVE  /\ DOMAIN log = 1 .. Len(log) /\ Len(log) \in Nat /\ 1 \in DOMAIN log
         /\ DOMAIN commits = 1 .. Len(commits) /\ Len(commits) \in Nat /\ 1 \in DOMAIN commits
         /\ \A k \in DOMAIN commits : EpochOf(k) \in Nat /\ MembersOf(k) \subseteq Clients
         /\ \A i \in DOMAIN log : log[i] \in DOMAIN commits /\ log[i] # Nowhere
         /\ \A i, j \in DOMAIN log : log[i] = log[j] => i = j
         /\ \A i \in DOMAIN log : i > 1 => i - 1 \in DOMAIN log /\ WellMade(log[i])
<1>1. DOMAIN log = 1 .. Len(log) /\ Len(log) \in Nat /\ 1 \in DOMAIN log
  BY DEF LogInv
<1>2. DOMAIN commits = 1 .. Len(commits) /\ Len(commits) \in Nat /\ 1 \in DOMAIN commits
  BY DEF CommitsInv
<1>3. \A k \in DOMAIN commits : EpochOf(k) \in Nat /\ MembersOf(k) \subseteq Clients
  <2> TAKE k \in DOMAIN commits
  <2>1. commits[k] \in Commits
    BY <1>2 DEF CommitsInv
  <2> QED
    BY <2>1 DEF Commits, EpochOf, MembersOf
<1>4. \A i \in DOMAIN log : log[i] \in DOMAIN commits /\ log[i] # Nowhere
  BY <1>1, <1>2 DEF LogInv, Nowhere
<1>5. \A i, j \in DOMAIN log : log[i] = log[j] => i = j
  BY DEF LogInv
<1>6. \A i \in DOMAIN log : i > 1 => i - 1 \in DOMAIN log /\ WellMade(log[i])
  <2> SUFFICES ASSUME NEW i \in DOMAIN log, i > 1
               PROVE  i - 1 \in DOMAIN log /\ WellMade(log[i])
    OBVIOUS
  <2>1. log[i] \in DOMAIN commits /\ log[i] # 1 /\ i - 1 \in DOMAIN log
    BY <1>1, <1>4 DEF LogInv
  <2> QED
    BY Zenon, <2>1 DEF CommitsInv
<1> QED
  BY <1>1, <1>2, <1>3, <1>4, <1>5, <1>6

\* A change addressed to c is some entry of the log, which it names.
LEMMA ChangeFacts ==
  ASSUME CommitsInv, LogInv, NEW c \in Clients, NEW e, Addressed(c, e), IsChange(e)
  PROVE  /\ EpochOf(e.n) \in DOMAIN log /\ EpochOf(e.n) > 1
         /\ e.n = log[EpochOf(e.n)] /\ e.n \in DOMAIN commits
         /\ commits[e.n].base = log[EpochOf(e.n) - 1]
         /\ WellMade(e.n)
<1>1. PICK i \in DOMAIN log : i > 1 /\ e.n = log[i]
  BY DEF Addressed
<1>2. EpochOf(e.n) = i
  BY <1>1 DEF LogInv
<1> QED
  BY Zenon, <1>1, <1>2, LogFacts DEF LogInv

\* MailInv of the next state, event by event.
LEMMA MailFrom ==
  ASSUME UNCHANGED commits,
         mailbox' \in [Clients -> Seq(Events)], unacked' \in [Clients -> SUBSET Events],
         ASSUME NEW d \in Clients, NEW p \in DOMAIN mailbox'[d], NEW x, x = mailbox'[d][p]
         PROVE  Addressed(d, x)',
         ASSUME NEW d \in Clients, NEW x \in unacked'[d]
         PROVE  Addressed(d, x)' /\ ~Fresh(d, x)',
         ASSUME NEW d \in Clients, NEW p \in DOMAIN mailbox'[d], NEW q \in DOMAIN mailbox'[d], p < q,
                NEW x, x = mailbox'[d][p], NEW y, y = mailbox'[d][q], Fresh(d, x)', Fresh(d, y)'
         PROVE  EpochOf(x.n) < EpochOf(y.n)
  PROVE  MailInv'
<1>1. (\A d \in Clients : \A p \in DOMAIN mailbox[d] : Addressed(d, mailbox[d][p]))'
  BY Zenon DEF Addressed, MembersOf, Audience
<1>2. (\A d \in Clients : \A x \in unacked[d] : Addressed(d, x) /\ ~Fresh(d, x))'
  OBVIOUS
<1>3. (\A d \in Clients : \A p, q \in DOMAIN mailbox[d] :
         p < q /\ Fresh(d, mailbox[d][p]) /\ Fresh(d, mailbox[d][q])
           => EpochOf(mailbox[d][p].n) < EpochOf(mailbox[d][q].n))'
  BY Zenon DEF Fresh, EpochOf, Level
<1> QED
  BY Zenon, <1>1, <1>2, <1>3 DEF MailInv

\* A client is not a member of a later epoch unless its mail says how it came to be.
LEMMA ChangeWaits ==
  ASSUME CommitsInv, LogInv, JoinInv, SessionInv, CompleteInv,
         NEW c \in Clients, NEW j \in DOMAIN log, j > Level(c), c \in MembersOf(log[j])
  PROVE  \E p \in DOMAIN mailbox[c] :
           Fresh(c, mailbox[c][p]) /\ EpochOf(mailbox[c][p].n) <= j
<1> DEFINE L == Level(c)
<1>1. L \in DOMAIN log /\ L \in Nat /\ j \in Nat /\ L < j
  BY LogFacts DEF SessionInv
<1>2. CASE c \in MembersOf(log[L])
  <2>1. L + 1 \in DOMAIN log /\ L + 1 > L /\ (L + 1) - 1 = L
    BY <1>1, LogFacts
  <2>2. PICK p \in DOMAIN mailbox[c] : mailbox[c][p] = Event("commit", log[L + 1])
    BY <1>2, <2>1 DEF CompleteInv
  <2>3. EpochOf(mailbox[c][p].n) = L + 1 /\ IsChange(mailbox[c][p])
    BY <2>1, <2>2 DEF Event, LogInv, IsChange
  <2> QED
    BY <1>1, <2>3 DEF Fresh
<1>3. CASE c \notin MembersOf(log[L])
  <2>1. PICK i \in L + 1 .. j : c \in commits[log[i]].add
    BY <1>1, <1>3 DEF JoinInv
  <2>2. i \in DOMAIN log /\ i > L /\ i <= j
    BY <1>1, <2>1, LogFacts
  <2>3. PICK p \in DOMAIN mailbox[c] : mailbox[c][p] = Event("welcome", log[i])
    BY Zenon, <2>1, <2>2 DEF CompleteInv
  <2>4. EpochOf(mailbox[c][p].n) = i /\ IsChange(mailbox[c][p])
    BY <2>2, <2>3 DEF Event, LogInv, IsChange
  <2> QED
    BY Zenon, <2>2, <2>4 DEF Fresh
<1> QED
  BY Zenon, <1>2, <1>3

-----------------------------------------------------------------------------
(* Where sessions are.                                                     *)

\* What is in the log stays in it.
Agree ==
  \A i \in DOMAIN log : i \in DOMAIN log' /\ log'[i] = log[i] /\ commits'[log[i]] = commits[log[i]]

LEMMA StaysShut ==
  ASSUME IInv, Agree, NEW c, NEW i \in DOMAIN log
  PROVE  /\ shut_out(c, i)' <=> shut_out(c, i)
         /\ MembersOf(log[i])' = MembersOf(log[i])
         /\ InStep(c, i)' <=> InStep(c, i)
         /\ Opens(c, i)' <=> Opens(c, i)
<1>1. \A j \in 1 .. i : j \in DOMAIN log
  BY LogFacts DEF IInv
<1>2. \A j \in 1 .. i : \A k \in j + 1 .. i : k \in DOMAIN log
  BY LogFacts DEF IInv
<1>3. shut_out(c, i)' <=> shut_out(c, i)
  <2>1. \A j \in 1 .. i : commits'[log'[j]] = commits[log[j]]
    BY Zenon, <1>1 DEF Agree
  <2>2. \A j \in 1 .. i : \A k \in j + 1 .. i : commits'[log'[k]] = commits[log[k]]
    BY Zenon, <1>2 DEF Agree
  <2>3. ASSUME NEW j \in 1 .. i
        PROVE  /\ c \in commits'[log'[j]].shut
               /\ \A k \in j + 1 .. i : c \notin commits'[log'[k]].add
               <=> /\ c \in commits[log[j]].shut
                   /\ \A k \in j + 1 .. i : c \notin commits[log[k]].add
    <3>1. \A k \in j + 1 .. i : c \in commits'[log'[k]].add <=> c \in commits[log[k]].add
      BY Zenon, <2>2
    <3>2. c \in commits'[log'[j]].shut <=> c \in commits[log[j]].shut
      BY Zenon, <2>1
    <3> QED
      BY Zenon, <3>1, <3>2
  <2> QED
    BY Zenon, <2>3 DEF shut_out
<1>4. MembersOf(log[i])' = MembersOf(log[i])
  BY Zenon DEF MembersOf, Agree
<1>5. InStep(c, i)' <=> InStep(c, i)
  BY Zenon, <1>3, <1>4 DEF InStep
<1>6. Opens(c, i)' <=> Opens(c, i)
  BY Zenon, <1>4 DEF Opens, Agree
<1> QED
  BY <1>3, <1>4, <1>5, <1>6

LEMMA StaysPut ==
  ASSUME IInv, Agree, NEW c, NEW L \in DOMAIN log, NEW k, NEW f
  PROVE  (Stands(c, L, k)' <=> Stands(c, L, k)) /\ (Floored(c, L, f)' <=> Floored(c, L, f))
<1>1. \A i \in 1 .. L : i \in DOMAIN log
  BY LogFacts DEF IInv
<1>2. \A i \in 1 .. L - 1 : i \in DOMAIN log /\ i + 1 \in DOMAIN log
  BY LogFacts DEF IInv
<1>3. \A i \in 1 .. L - 1 : /\ log'[i] = log[i] /\ MembersOf(log[i])' = MembersOf(log[i])
                            /\ Opens(c, i + 1)' <=> Opens(c, i + 1)
  BY Zenon, <1>2, StaysShut DEF Agree
<1>4. log'[L] = log[L] /\ (InStep(c, L)' <=> InStep(c, L))
  BY Zenon, StaysShut DEF Agree
<1>5. Stands(c, L, k)' <=> Stands(c, L, k)
  BY Zenon, <1>3, <1>4 DEF Stands
<1>6. Floored(c, L, f)' <=> Floored(c, L, f)
  BY Zenon, <1>1 DEF Floored, Agree
<1> QED
  BY <1>5, <1>6

\* A client that does not move is settled as it was.
LEMMA StaysSettled ==
  ASSUME IInv, Agree, NEW c \in Clients, Level(c)' = Level(c), Home(c)' = Home(c),
         session'[c].floor = session[c].floor
  PROVE  Level(c) \in DOMAIN log /\ Level(c)' \in DOMAIN log' /\ Settled(c)'
<1>1. PICK L, k, f : L = Level(c) /\ k = Home(c) /\ f = session[c].floor
  BY Zenon
<1>2. L \in DOMAIN log /\ L \in DOMAIN log' /\ Stands(c, L, k) /\ Floored(c, L, f)
  BY Zenon, <1>1 DEF IInv, SessionInv, Settled, Agree
<1>3. Stands(c, L, k)' /\ Floored(c, L, f)'
  BY Zenon, <1>2, StaysPut
<1> QED
  BY Zenon, <1>1, <1>2, <1>3 DEF Settled

\* Nobody moves, and nothing is made or accepted.
LEMMA SessionKept ==
  ASSUME IInv, UNCHANGED <<commits, session, heard, unanswered, log>>
  PROVE  SessionInv'
<1>1. \A c \in Clients : /\ Level(c)' = Level(c) /\ Home(c)' = Home(c)
                         /\ session'[c].floor = session[c].floor
  BY DEF Level, Home
<1>2. Agree
  BY DEF Agree
<1>3. \A c \in Clients : Level(c)' \in DOMAIN log' /\ Settled(c)'
  BY Zenon, <1>1, <1>2, StaysSettled
<1> QED
  BY <1>3, Zenon DEF IInv, SessionInv

\* Who is shut out was so before, or is by this commit, and is not added by it.
LEMMA ShutOutNext ==
  ASSUME CommitsInv, LogInv, NEW c, NEW i \in DOMAIN log, i > 1
  PROVE  shut_out(c, i) <=> \/ c \in commits[log[i]].shut
                            \/ shut_out(c, i - 1) /\ c \notin commits[log[i]].add
<1>1. i \in Nat /\ i - 1 \in Nat /\ i \in 1 .. i
  BY LogFacts
<1>2. ASSUME c \in commits[log[i]].shut
      PROVE  shut_out(c, i)
  <2>1. \A k \in i + 1 .. i : c \notin commits[log[k]].add
    BY <1>1
  <2> QED
    BY Zenon, <1>1, <1>2, <2>1 DEF shut_out
<1>3. ASSUME shut_out(c, i - 1), c \notin commits[log[i]].add
      PROVE  shut_out(c, i)
  <2>1. PICK j \in 1 .. i - 1 : /\ c \in commits[log[j]].shut
                                /\ \A k \in j + 1 .. i - 1 : c \notin commits[log[k]].add
    BY Zenon, <1>3 DEF shut_out
  <2>2. j \in 1 .. i /\ \A k \in j + 1 .. i : k = i \/ k \in j + 1 .. i - 1
    BY <1>1
  <2> QED
    BY Zenon, <1>3, <2>1, <2>2 DEF shut_out
<1>4. ASSUME shut_out(c, i), c \notin commits[log[i]].shut
      PROVE  shut_out(c, i - 1) /\ c \notin commits[log[i]].add
  <2>1. PICK j \in 1 .. i : /\ c \in commits[log[j]].shut
                            /\ \A k \in j + 1 .. i : c \notin commits[log[k]].add
    BY Zenon, <1>4 DEF shut_out
  <2>2. j # i
    BY Zenon, <1>4, <2>1
  <2>3. j \in 1 .. i - 1 /\ i \in j + 1 .. i /\ \A k \in j + 1 .. i - 1 : k \in j + 1 .. i
    BY <1>1, <2>2
  <2> QED
    BY Zenon, <2>1, <2>3 DEF shut_out
<1> QED
  BY Zenon, <1>2, <1>3, <1>4

-----------------------------------------------------------------------------
(* The oldest event of a mailbox.                                          *)

\* What a change makes of a session that takes it up.
LEMMA AfterChange ==
  ASSUME NEW c, NEW s \in [at : Nat, floor : Nat], NEW e, NEW f \in Nat, NEW k \in Nat,
         e.n = k, f = EpochOf(k), f >= s.floor,
         \/ e.kind = "commit" /\ accepts_commit(c, s, k)
         \/ e.kind = "welcome",
         NEW t, t = after_event(c, s, e)
  PROVE  t \in [at : Nat, floor : Nat] /\ t.at = k /\ t.floor = f + 1
<1>1. installed(s, k) = [at |-> k, floor |-> f + 1]
  BY DEF installed, EpochOf
<1>2. accepts_welcome(s, k)
  BY DEF accepts_welcome, EpochOf
<1>3. t = installed(s, k)
  BY <1>2 DEF after_event
<1> QED
  BY <1>1, <1>3

LEMMA AfterWelcome ==
  ASSUME NEW c, NEW s \in [at : Nat, floor : Nat], NEW e, NEW f \in Nat, NEW k \in Nat,
         e.n = k, f = EpochOf(k), f >= s.floor, e.kind = "welcome",
         NEW t, t = after_event(c, s, e)
  PROVE  t \in [at : Nat, floor : Nat] /\ t.at = k /\ t.floor = f + 1
  BY AfterChange

\* Everything else leaves it as it is.
LEMMA AfterOther ==
  ASSUME NEW c, NEW s, NEW e,
         e.kind = "commit" => ~accepts_commit(c, s, e.n),
         e.kind = "welcome" => ~accepts_welcome(s, e.n)
  PROVE  after_event(c, s, e) = s
  BY DEF after_event

\* A commit that c can install takes c to its epoch.
LEMMA CommitOpens ==
  ASSUME IInv, NEW c \in Clients, NEW L \in DOMAIN log, NEW i \in DOMAIN log, i = L + 1,
         c \in MembersOf(log[L]), Stands(c, L, log[L]), Opens(c, i)
  PROVE  Stands(c, i, log[i])
<1>1. L \in Nat /\ i > 1 /\ i - 1 = L /\ \A j \in 1 .. L - 1 : j \in DOMAIN log /\ j # L
  BY LogFacts DEF IInv
<1>2. InStep(c, L)
  <2>1. log[L] # Nowhere /\ \A j \in 1 .. L - 1 : log[L] # log[j]
    BY Zenon, <1>1, LogFacts DEF IInv
  <2> QED
    BY Zenon, <2>1 DEF Stands
<1>3. ~shut_out(c, i)
  BY Zenon, <1>1, <1>2, ShutOutNext DEF IInv, InStep, Opens
<1> QED
  BY Zenon, <1>3 DEF Stands, InStep, Opens

\* One that c cannot install leaves it before that epoch.
LEMMA CommitShuts ==
  ASSUME IInv, NEW c \in Clients, NEW L \in DOMAIN log, NEW i \in DOMAIN log, i = L + 1,
         c \in MembersOf(log[L]), NEW k, Stands(c, L, k), k = log[L] => ~Opens(c, i)
  PROVE  Stands(c, i, k)
<1>1. L \in Nat /\ i > 1 /\ i - 1 = L /\ L \in 1 .. i - 1 /\ \A j \in 1 .. L - 1 : j \in 1 .. i - 1
  BY LogFacts DEF IInv
<1>2. c \notin commits[log[i]].add
  <2>1. commits[log[i]].base = log[L] /\ WellMade(log[i])
    BY Zenon, <1>1, LogFacts DEF IInv, LogInv
  <2> QED
    BY Zenon, <2>1 DEF WellMade, MembersOf
<1>3. InStep(c, i) => InStep(c, L) /\ Opens(c, i)
  BY Zenon, <1>1, <1>2, ShutOutNext DEF IInv, InStep, Opens
<1>4. CASE InStep(c, L)
  <2>1. k = log[L] /\ ~Opens(c, L + 1)
    BY Zenon, <1>4 DEF Stands
  <2> QED
    BY Zenon, <1>1, <1>3, <2>1 DEF Stands
<1>5. CASE ~InStep(c, L)
  <2>1. k = Nowhere \/ \E j \in 1 .. L - 1 : k = log[j] /\ c \in MembersOf(log[j]) /\ ~Opens(c, j + 1)
    BY Zenon, <1>5 DEF Stands
  <2> QED
    BY Zenon, <1>1, <1>3, <1>5, <2>1 DEF Stands
<1> QED
  BY Zenon, <1>4, <1>5

\* A Welcome takes c to its epoch.
LEMMA WelcomeOpens ==
  ASSUME IInv, NEW c \in Clients, NEW i \in DOMAIN log, i > 1, c \in commits[log[i]].add
  PROVE  Stands(c, i, log[i])
<1>1. WellMade(log[i])
  BY LogFacts DEF IInv
<1>2. c \in MembersOf(log[i]) /\ c \notin commits[log[i]].shut
  BY Zenon, <1>1 DEF WellMade, MembersOf
<1>3. ~shut_out(c, i)
  BY Zenon, <1>2, ShutOutNext DEF IInv
<1> QED
  BY Zenon, <1>2, <1>3 DEF Stands, InStep

\* What c takes up brings it to the epoch it is of, if c can open it, or is known to c.
LEMMA HeadOfMail ==
  ASSUME IInv, NEW c \in Clients, mailbox[c] # << >>, unanswered[c] = {},
         NEW e, e = Head(mailbox[c]), NEW s, s = after_event(c, session[c], e)
  PROVE  /\ Addressed(c, e) /\ s \in [at : Nat, floor : Nat]
         /\ Fresh(c, e) => Stands(c, EpochOf(e.n), s.at) /\ Floored(c, EpochOf(e.n), s.floor)
         /\ ~Fresh(c, e) => s = session[c]
<1>1. /\ 1 \in DOMAIN mailbox[c] /\ e = mailbox[c][1] /\ Addressed(c, e)
  BY Taken DEF IInv, MailInv
<1>2. PICK L, k, f : L = Level(c) /\ k = session[c].at /\ f = session[c].floor
  BY Zenon
<1>3. /\ L \in DOMAIN log /\ L \in Nat /\ session[c] \in [at : Nat, floor : Nat] /\ f \in Nat
      /\ Stands(c, L, k) /\ Floored(c, L, f)
  <2>1. Stands(c, L, k) /\ Floored(c, L, f)
    BY Zenon, <1>2 DEF IInv, SessionInv, Settled, Home
  <2>2. L \in DOMAIN log /\ L \in Nat /\ session[c] \in [at : Nat, floor : Nat]
    BY <1>2, LogFacts DEF IInv, SessionInv
  <2> QED
    BY <1>2, <2>1, <2>2
<1>4. CASE ~IsChange(e)
  BY <1>1, <1>3, <1>4, AfterOther DEF Fresh, IsChange
<1>5. CASE IsChange(e)
  <2>1. PICK i : i = EpochOf(e.n)
    BY Zenon
  <2>2. /\ i \in DOMAIN log /\ i \in Nat /\ i > 1 /\ e.n = log[i] /\ e.n \in Nat
        /\ commits[e.n].base = log[i - 1] /\ i - 1 \in DOMAIN log /\ WellMade(e.n)
    <3>1. /\ i \in DOMAIN log /\ i > 1 /\ e.n = log[i] /\ e.n \in DOMAIN commits
          /\ commits[e.n].base = log[i - 1] /\ WellMade(e.n)
      BY Zenon, <1>1, <1>5, <2>1, ChangeFacts DEF IInv
    <3> QED
      BY <3>1, LogFacts DEF IInv
  <2>3. Fresh(c, e) <=> i > L
    BY Zenon, <1>2, <1>5, <2>1 DEF Fresh
  <2>4. CASE e.kind = "commit" /\ i > L
    <3>1. c \in MembersOf(log[i - 1])
      BY Zenon, <1>1, <2>2, <2>4 DEF Addressed
    <3>2. L = i - 1
      <4> SUFFICES ASSUME i - 1 > L
                   PROVE  FALSE
        BY <1>3, <2>2, <2>4
      <4>1. PICK p \in DOMAIN mailbox[c] :
              Fresh(c, mailbox[c][p]) /\ EpochOf(mailbox[c][p].n) <= i - 1
        BY Zenon, <1>2, <2>2, <3>1, ChangeWaits DEF IInv
      <4>2. p # 1
        <5>1. ~(i <= i - 1)
          BY <2>2
        <5> QED
          BY Zenon, <1>1, <2>1, <4>1, <5>1
      <4>3. p > 1
        BY <4>2 DEF IInv, MailInv
      <4>4. EpochOf(e.n) < EpochOf(mailbox[c][p].n)
        BY Zenon, <1>1, <2>3, <2>4, <4>1, <4>3 DEF IInv, MailInv
      <4>5. EpochOf(mailbox[c][p].n) \in Nat
        BY Zenon, <4>1, ChangeFacts, LogFacts DEF IInv, MailInv, Fresh
      <4> QED
        BY <2>1, <2>2, <4>1, <4>4, <4>5
    <3>3. i = L + 1 /\ f <= i
      BY <1>3, <2>2, <3>2 DEF Floored
    <3>4. accepts_commit(c, session[c], e.n) <=> k = log[L] /\ Opens(c, i)
      <4>1. log[L] # Nowhere
        BY Zenon, <1>3, LogFacts DEF IInv
      <4> QED
        BY Zenon, <1>2, <2>2, <3>2, <4>1 DEF accepts_commit, Opens, MembersOf
    <3>5. CASE accepts_commit(c, session[c], e.n)
      <4>1. s \in [at : Nat, floor : Nat] /\ s.at = log[i] /\ s.floor = i + 1
        <5>1. i >= session[c].floor
          BY <1>2, <1>3, <2>2, <3>3
        <5>2. session[c] \in [at : Nat, floor : Nat] /\ e.n \in Nat /\ i \in Nat
          BY Zenon, <1>3, <2>2
        <5>3. s \in [at : Nat, floor : Nat] /\ s.at = e.n /\ s.floor = i + 1
          BY <2>1, <2>4, <3>5, <5>1, <5>2, AfterChange
        <5> QED
          BY Zenon, <2>2, <5>3
      <4>2. Stands(c, i, log[i])
        BY Zenon, <1>3, <2>2, <3>1, <3>2, <3>3, <3>4, <3>5, CommitOpens
      <4>3. Floored(c, i, i + 1)
        BY <2>2 DEF Floored
      <4> QED
        BY Zenon, <1>1, <2>1, <2>3, <2>4, <4>1, <4>2, <4>3
    <3>6. CASE ~accepts_commit(c, session[c], e.n)
      <4>1. s = session[c]
        BY <2>4, <3>6, AfterOther
      <4>2. Stands(c, i, k)
        BY Zenon, <1>3, <2>2, <3>1, <3>2, <3>3, <3>4, <3>6, CommitShuts
      <4>3. c \notin commits[log[i]].add
        BY Zenon, <2>2, <3>1 DEF WellMade, MembersOf
      <4>4. Floored(c, i, f)
        <5>1. \A j \in 1 .. i : j = i \/ j \in 1 .. L
          BY <1>3, <3>3
        <5>2. f <= i + 1
          BY <1>3, <2>2, <3>3
        <5> QED
          BY Zenon, <1>3, <4>3, <5>1, <5>2 DEF Floored
      <4> QED
        BY Zenon, <1>1, <1>2, <1>3, <2>1, <2>3, <2>4, <4>1, <4>2, <4>4
    <3> QED
      BY Zenon, <3>5, <3>6
  <2>5. CASE e.kind = "welcome" /\ i > L
    <3>1. f <= i
      BY <1>3, <2>2, <2>5 DEF Floored
    <3>2. s \in [at : Nat, floor : Nat] /\ s.at = log[i] /\ s.floor = i + 1
      <4>1. i >= session[c].floor
        BY <1>2, <1>3, <2>2, <3>1
      <4>2. session[c] \in [at : Nat, floor : Nat] /\ e.n \in Nat /\ i \in Nat
        BY Zenon, <1>3, <2>2
      <4>3. s \in [at : Nat, floor : Nat] /\ s.at = e.n /\ s.floor = i + 1
        <5>1. e.kind = "welcome"
          BY <2>5
        <5> QED
          BY <2>1, <4>1, <4>2, <5>1, AfterWelcome
      <4> QED
        BY Zenon, <2>2, <4>3
    <3>3. c \in commits[log[i]].add
      BY Zenon, <1>1, <2>2, <2>5 DEF Addressed
    <3>4. Stands(c, i, log[i])
      BY Zenon, <2>2, <3>3, WelcomeOpens
    <3>5. Floored(c, i, i + 1)
      BY <2>2 DEF Floored
    <3> QED
      BY Zenon, <1>1, <2>1, <2>3, <2>5, <3>2, <3>4, <3>5
  <2>6. CASE ~(i > L)
    <3>1. e.kind = "commit" => ~accepts_commit(c, session[c], e.n)
      <4> SUFFICES ASSUME k = log[i - 1], k # Nowhere, Opens(c, i)
                   PROVE  FALSE
        BY Zenon, <1>2, <2>2 DEF accepts_commit, Opens, MembersOf
      <4>1. i - 1 # L /\ \A j \in 1 .. L - 1 : j \in DOMAIN log /\ (j = i - 1 => j + 1 = i)
        <5>1. DOMAIN log = 1 .. Len(log) /\ Len(log) \in Nat
          BY Zenon, LogFacts DEF IInv
        <5> QED
          BY <1>3, <2>2, <2>6, <5>1
      <4>2. k # log[L] /\ \A j \in 1 .. L - 1 : k = log[j] => j = i - 1
        BY Zenon, <1>3, <2>2, <4>1, LogFacts DEF IInv
      <4> QED
        BY Zenon, <1>3, <4>1, <4>2 DEF Stands
    <3>2. e.kind = "welcome" => ~accepts_welcome(session[c], e.n)
      <4> SUFFICES ASSUME e.kind = "welcome"
                   PROVE  ~(i >= f)
        BY Zenon, <1>2, <2>1 DEF accepts_welcome, EpochOf
      <4>1. c \in commits[log[i]].add /\ i \in 1 .. L
        <5>1. c \in commits[log[i]].add
          BY Zenon, <1>1, <2>2 DEF Addressed
        <5> QED
          BY <1>3, <2>2, <2>6, <5>1
      <4> QED
        BY <1>3, <2>2, <4>1 DEF Floored
    <3>3. s = session[c]
      BY <3>1, <3>2, AfterOther
    <3> QED
      BY Zenon, <1>1, <1>3, <2>3, <2>6, <3>3
  <2> QED
    BY Zenon, <1>5, <2>4, <2>5, <2>6 DEF IsChange
<1> QED
  BY Zenon, <1>4, <1>5

\* A message that is in place and comes up is of the session's epoch.
LEMMA HeadIsReadable ==
  ASSUME IInv, NEW c \in Clients, NEW m \in relayed, c \in Audience(m),
         unanswered[c] = {}, 1 \in DOMAIN mailbox[c], InPlace(c, m, 1), ~Excused(c, m)
  PROVE  at(c) = messages[m].at
<1>1. PICK j \in DOMAIN log : log[j] = messages[m].at
  BY DEF IInv, MessageInv, Accepted
<1>2. EpochOf(log[j]) = j /\ j \in Nat
  BY LogFacts DEF IInv, LogInv
<1>3. Level(c) \in Nat /\ Level(c) <= j
  BY <1>1, <1>2, LogFacts DEF InPlace, IInv, SessionInv
<1>4. c \in MembersOf(log[j])
  BY Zenon, <1>1 DEF Audience, MembersOf
<1>5. Level(c) = j
  <2> SUFFICES ASSUME j > Level(c)
               PROVE  FALSE
    BY <1>2, <1>3
  <2>1. PICK p \in DOMAIN mailbox[c] :
          Fresh(c, mailbox[c][p]) /\ EpochOf(mailbox[c][p].n) <= j
    BY Zenon, <1>4, ChangeWaits DEF IInv
  <2>2. p < 1
    BY Zenon, <1>1, <1>2, <2>1 DEF InPlace
  <2> QED
    BY <2>2 DEF IInv, MailInv
<1>6. InStep(c, j)
  BY Zenon, <1>1, <1>2, <1>4 DEF InStep, Excused
<1>7. Stands(c, j, session[c].at)
  BY Zenon, <1>5 DEF IInv, SessionInv, Settled, Home
<1> QED
  BY Zenon, <1>1, <1>6, <1>7 DEF at, Stands

-----------------------------------------------------------------------------
(* A mailbox that loses its first event, or gets one before the others.    *)

\* t is s without its first event.
Shorter(s, t) ==
  /\ \A p \in DOMAIN s : p \in Nat /\ p >= 1
  /\ \A p \in DOMAIN s : p # 1 => p - 1 \in DOMAIN t /\ t[p - 1] = s[p]
  /\ \A p \in DOMAIN t : p \in Nat /\ p >= 1
  /\ \A p \in DOMAIN t : p + 1 \in DOMAIN s /\ s[p + 1] = t[p]

LEMMA ByOne ==
  ASSUME NEW S, NEW s \in Seq(S)
  PROVE  /\ s # << >> => /\ Tail(s) \in Seq(S) /\ Shorter(s, Tail(s))
                         /\ 1 \in DOMAIN s /\ s[1] = Head(s)
         /\ \A x \in S : /\ <<x>> \o s \in Seq(S) /\ Shorter(<<x>> \o s, s)
                         /\ 1 \in DOMAIN (<<x>> \o s) /\ (<<x>> \o s)[1] = x
<1>1. \A t \in Seq(S) : \A p \in DOMAIN t : p \in Nat /\ p >= 1
  OBVIOUS
<1>2. ASSUME s # << >>
      PROVE  /\ Tail(s) \in Seq(S) /\ Shorter(s, Tail(s))
             /\ 1 \in DOMAIN s /\ s[1] = Head(s)
  BY <1>1, <1>2, Taken, Zenon DEF Shorter
<1>3. ASSUME NEW x \in S
      PROVE  /\ <<x>> \o s \in Seq(S) /\ Shorter(<<x>> \o s, s)
             /\ 1 \in DOMAIN (<<x>> \o s) /\ (<<x>> \o s)[1] = x
  <2>1. PICK t : t = <<x>> \o s
    BY Zenon
  <2>2. /\ t \in Seq(S) /\ 1 \in DOMAIN t /\ t[1] = x
        /\ \A i \in DOMAIN t : i # 1 => i - 1 \in DOMAIN s /\ t[i] = s[i - 1]
        /\ \A i \in DOMAIN s : i + 1 \in DOMAIN t /\ t[i + 1] = s[i]
    BY <1>3, <2>1, Put
  <2>3. Shorter(t, s)
    BY <1>1, <2>2, Zenon DEF Shorter
  <2> QED
    BY Zenon, <2>1, <2>2, <2>3
<1> QED
  BY <1>2, <1>3, Zenon

-----------------------------------------------------------------------------
(* The steps.                                                              *)

LEMMA Untouched ==
  ASSUME IInv, UNCHANGED <<commits, messages, unanswered, outbox, roster, log>>
  PROVE  CommitsInv' /\ LogInv' /\ JoinInv' /\ OutboxInv'
<1>1. CommitsInv'
  BY Zenon DEF IInv, CommitsInv, WellMade
<1>2. LogInv' /\ JoinInv'
  BY DEF IInv, LogInv, JoinInv, EpochOf, MembersOf
<1>3. \A c, i : Submitted(c, i)' <=> Submitted(c, i)
  BY DEF Submitted, Accepted
<1>4. messages' \in Seq(Messages)'
  BY DEF IInv, OutboxInv, Messages
<1>5. OutboxInv'
  BY <1>3, <1>4, Zenon DEF IInv, OutboxInv
<1> QED
  BY <1>1, <1>2, <1>5

\* What c does when it takes up e.
TookUp(c, e) ==
  /\ UNCHANGED <<commits, messages, unanswered, log, relayed>>
  /\ unanswered[c] = {}
  /\ Addressed(c, e)
  /\ 1 \in DOMAIN mailbox[c] /\ mailbox[c][1] = e
  /\ mailbox' \in [Clients -> Seq(Events)] /\ Shorter(mailbox[c], mailbox'[c])
  /\ \A d \in Clients : d # c => mailbox'[d] = mailbox[d]

\* What becomes of its session.
Moved(c, e) ==
  /\ session' \in [Clients -> [at : Nat, floor : Nat]] /\ heard' \in [Clients -> Nat]
  /\ \A d \in Clients : d # c => session'[d] = session[d] /\ Level(d)' = Level(d)
  /\ ~Fresh(c, e) => session'[c] = session[c] /\ Level(c)' = Level(c)
  /\ Fresh(c, e) => /\ Level(c)' = EpochOf(e.n) /\ EpochOf(e.n) \in DOMAIN log
                    /\ Stands(c, EpochOf(e.n), session'[c].at)
                    /\ Floored(c, EpochOf(e.n), session'[c].floor)

LEMMA TakesUp ==
  ASSUME IInv, NEW c \in Clients, process_event(c), NEW e, e = Head(mailbox[c])
  PROVE  TookUp(c, e)
<1>1. /\ UNCHANGED <<commits, messages, unanswered, log, relayed>>
      /\ mailbox[c] # << >> /\ unanswered[c] = {}
      /\ mailbox' = [mailbox EXCEPT ![c] = Tail(@)]
  BY Zenon DEF process_event, relay
<1>2. mailbox \in [Clients -> Seq(Events)]
  BY DEF IInv, MailInv
<1>3. /\ Tail(mailbox[c]) \in Seq(Events) /\ Shorter(mailbox[c], Tail(mailbox[c]))
      /\ 1 \in DOMAIN mailbox[c] /\ mailbox[c][1] = e
  BY <1>1, <1>2, ByOne, Zenon
<1>4. /\ mailbox' \in [Clients -> Seq(Events)] /\ mailbox'[c] = Tail(mailbox[c])
      /\ \A d \in Clients : d # c => mailbox'[d] = mailbox[d]
  BY <1>1, <1>2, <1>3
<1>5. Addressed(c, e)
  BY Zenon, <1>3 DEF IInv, MailInv
<1> QED
  BY <1>1, <1>3, <1>4, <1>5, Zenon DEF TookUp

LEMMA Moves ==
  ASSUME IInv, NEW c \in Clients, process_event(c), NEW e, e = Head(mailbox[c])
  PROVE  Moved(c, e)
<1>1. mailbox[c] # << >> /\ unanswered[c] = {}
  BY Zenon DEF process_event
<1>2. PICK s, h : s = after_event(c, session[c], e) /\ h = heard_after(c, e)
  BY Zenon
<1>3. /\ session \in [Clients -> [at : Nat, floor : Nat]] /\ heard \in [Clients -> Nat]
      /\ session' = [session EXCEPT ![c] = s] /\ heard' = [heard EXCEPT ![c] = h]
  BY Zenon, <1>2 DEF IInv, SessionInv, process_event
<1>4. /\ Addressed(c, e) /\ s \in [at : Nat, floor : Nat]
      /\ Fresh(c, e) => Stands(c, EpochOf(e.n), s.at) /\ Floored(c, EpochOf(e.n), s.floor)
      /\ ~Fresh(c, e) => s = session[c]
  BY Zenon, <1>1, <1>2, HeadOfMail
<1>5. Fresh(c, e) => EpochOf(e.n) \in DOMAIN log /\ EpochOf(e.n) \in Nat
  BY <1>4, ChangeFacts, LogFacts DEF IInv, Fresh
<1>6. /\ Fresh(c, e) => h = EpochOf(e.n)
      /\ ~Fresh(c, e) => h = Level(c)
  <2>1. e.kind # "message" <=> IsChange(e)
    BY <1>4 DEF Addressed, Events, IsChange
  <2> QED
    BY Zenon, <1>2, <2>1 DEF heard_after, Fresh, EpochOf, Level
<1>7. h \in Nat
  BY <1>3, <1>5, <1>6 DEF Level
<1>8. /\ session' \in [Clients -> [at : Nat, floor : Nat]] /\ session'[c] = s
      /\ heard' \in [Clients -> Nat] /\ heard'[c] = h
      /\ \A d \in Clients : d # c => session'[d] = session[d] /\ heard'[d] = heard[d]
  BY <1>3, <1>4, <1>7
<1>9. Level(c)' = h /\ \A d \in Clients : d # c => Level(d)' = Level(d)
  BY <1>8 DEF Level
<1> QED
  BY <1>4, <1>5, <1>6, <1>8, <1>9, Zenon DEF Moved

\* Its session is where the epoch it has reached says.
LEMMA TookUpSession ==
  ASSUME IInv, NEW c \in Clients, NEW e, TookUp(c, e), Moved(c, e)
  PROVE  SessionInv'
<1>1. /\ UNCHANGED <<commits, unanswered, log>> /\ unanswered[c] = {}
      /\ session' \in [Clients -> [at : Nat, floor : Nat]] /\ heard' \in [Clients -> Nat]
  BY Zenon DEF TookUp, Moved
<1>2. Agree
  BY <1>1 DEF Agree
<1>3. ASSUME NEW d \in Clients
      PROVE  /\ Level(d)' \in DOMAIN log' /\ Settled(d)'
             /\ unanswered[d] # {} => session'[d] = session[d]
  <2>1. CASE d = c /\ Fresh(c, e)
    <3>1. PICK L, k, f : L = EpochOf(e.n) /\ k = session'[c].at /\ f = session'[c].floor
      BY Zenon
    <3>2. L \in DOMAIN log /\ Level(c)' = L /\ Stands(c, L, k) /\ Floored(c, L, f)
      BY Zenon, <2>1, <3>1 DEF Moved
    <3>3. Stands(c, L, k)' /\ Floored(c, L, f)'
      BY Zenon, <1>2, <3>2, StaysPut
    <3>4. Home(c)' = k
      BY Zenon, <1>1, <3>1 DEF Home
    <3> QED
      BY Zenon, <1>1, <2>1, <3>1, <3>2, <3>3, <3>4 DEF Settled
  <2>2. CASE ~(d = c /\ Fresh(c, e))
    <3>1. session'[d] = session[d] /\ Level(d)' = Level(d)
      BY Zenon, <2>2 DEF Moved
    <3>2. Home(d)' = Home(d)
      BY Zenon, <1>1, <3>1 DEF Home
    <3> QED
      BY Zenon, <1>2, <3>1, <3>2, StaysSettled
  <2> QED
    BY Zenon, <2>1, <2>2
<1>4. /\ unanswered' \in [Clients -> SUBSET DOMAIN commits']
      /\ \A d \in Clients : \A k \in unanswered'[d] :
           /\ unanswered'[d] = {k}
           /\ session'[d].at = k
           /\ k # 1 /\ commits'[k].by = d /\ commits'[k].base # Nowhere
  <2>1. SessionInv
    BY DEF IInv
  <2>2. ASSUME NEW d \in Clients, NEW k \in unanswered[d]
        PROVE  /\ unanswered[d] = {k}
               /\ session'[d].at = k
               /\ k # 1 /\ commits[k].by = d /\ commits[k].base # Nowhere
    <3>1. session'[d] = session[d]
      BY <1>3, <2>2
    <3>2. /\ unanswered[d] = {k} /\ session[d].at = k
          /\ k # 1 /\ commits[k].by = d /\ commits[k].base # Nowhere
      <4>1. \A b \in Clients : \A l \in unanswered[b] :
              /\ unanswered[b] = {l} /\ session[b].at = l
              /\ l # 1 /\ commits[l].by = b /\ commits[l].base # Nowhere
        BY <2>1 DEF SessionInv
      <4> QED
        BY <2>2, <4>1
    <3> QED
      BY <3>1, <3>2
  <2>3. unanswered \in [Clients -> SUBSET DOMAIN commits]
    BY Zenon, <2>1 DEF SessionInv
  <2> QED
    BY Zenon, <1>1, <2>2, <2>3
<1> QED
  BY <1>1, <1>3, <1>4, Zenon DEF SessionInv

\* c goes forward only, and past what it took up.
LEMMA Forward ==
  ASSUME IInv, NEW c \in Clients, NEW e, TookUp(c, e), Moved(c, e)
  PROVE  /\ \A d \in Clients : Level(d)' \in Nat /\ Level(d) \in Nat /\ Level(d) <= Level(d)'
         /\ IsChange(e) => EpochOf(e.n) \in Nat /\ EpochOf(e.n) <= Level(c)'
         /\ \A x : EpochOf(x)' = EpochOf(x)
         /\ \A d, x : Addressed(d, x)' <=> Addressed(d, x)
         /\ \A d \in Clients : \A x : Addressed(d, x) /\ Fresh(d, x)' => Fresh(d, x)
         /\ ~Fresh(c, e)'
<1>1. UNCHANGED <<commits, messages, log, relayed>> /\ Addressed(c, e)
  BY DEF TookUp
<1>2. /\ \A x : EpochOf(x)' = EpochOf(x)
      /\ \A d, x : Addressed(d, x)' <=> Addressed(d, x)
  BY <1>1 DEF Addressed, EpochOf, MembersOf, Audience
<1>3. \A d \in Clients : Level(d) \in Nat
  BY LogFacts DEF IInv, SessionInv
<1>4. \A d \in Clients : \A x : Addressed(d, x) /\ IsChange(x) => EpochOf(x.n) \in Nat
  BY Zenon, ChangeFacts, LogFacts DEF IInv
<1>5. \A d \in Clients : Level(d)' \in Nat /\ Level(d) <= Level(d)'
  <2>1. ASSUME Fresh(c, e)
        PROVE  Level(c)' \in Nat /\ Level(c) <= Level(c)'
    <3>1. Level(c)' = EpochOf(e.n) /\ EpochOf(e.n) > Level(c) /\ IsChange(e)
      BY Zenon, <2>1 DEF Moved, Fresh
    <3> QED
      BY <1>1, <1>3, <1>4, <3>1
  <2>2. \A d \in Clients : ~(d = c /\ Fresh(c, e)) => Level(d)' = Level(d)
    BY DEF Moved
  <2> QED
    BY <1>3, <2>1, <2>2
<1>6. IsChange(e) => EpochOf(e.n) \in Nat /\ EpochOf(e.n) <= Level(c)'
  <2>1. ASSUME Fresh(c, e)
        PROVE  Level(c)' = EpochOf(e.n)
    BY <2>1 DEF Moved
  <2>2. ASSUME ~Fresh(c, e)
        PROVE  Level(c)' = Level(c)
    BY <2>2 DEF Moved
  <2> QED
    BY <1>1, <1>3, <1>4, <2>1, <2>2 DEF Fresh
<1>7. ASSUME NEW d \in Clients, NEW x, Addressed(d, x), Fresh(d, x)'
      PROVE  Fresh(d, x)
  <2>1. IsChange(x) /\ EpochOf(x.n) > Level(d)' /\ EpochOf(x.n) \in Nat
    BY <1>2, <1>4, <1>7 DEF Fresh
  <2> QED
    BY <1>3, <1>5, <2>1 DEF Fresh
<1>8. ~Fresh(c, e)'
  BY <1>2, <1>5, <1>6 DEF Fresh
<1> QED
  BY <1>2, <1>3, <1>5, <1>6, <1>7, <1>8, Zenon

LEMMA TookUpMail ==
  ASSUME IInv, NEW c \in Clients, NEW e, TookUp(c, e), Moved(c, e),
         unacked' = unacked \/ unacked' = [unacked EXCEPT ![c] = @ \cup {e}]
  PROVE  MailInv'
<1>1. /\ UNCHANGED commits /\ Addressed(c, e) /\ mailbox' \in [Clients -> Seq(Events)]
      /\ Shorter(mailbox[c], mailbox'[c])
      /\ \A d \in Clients : d # c => mailbox'[d] = mailbox[d]
  BY DEF TookUp
<1>2. /\ unacked' \in [Clients -> SUBSET Events]
      /\ \A d \in Clients : \A x \in unacked'[d] : x \in unacked[d] \/ (d = c /\ x = e)
  <2>1. unacked \in [Clients -> SUBSET Events] /\ e \in Events
    BY Zenon, <1>1 DEF IInv, MailInv, Addressed
  <2> QED
    BY <2>1
<1>3. ASSUME NEW d \in Clients, NEW p \in DOMAIN mailbox'[d], NEW x, x = mailbox'[d][p]
      PROVE  Addressed(d, x) /\ Addressed(d, x)'
  <2>1. \E q \in DOMAIN mailbox[d] : x = mailbox[d][q]
    <3>1. CASE d = c
      <4>1. p + 1 \in DOMAIN mailbox[c] /\ mailbox[c][p + 1] = x
        BY Zenon, <1>1, <1>3, <3>1 DEF Shorter
      <4> QED
        BY <3>1, <4>1
    <3>2. CASE d # c
      BY <1>1, <1>3, <3>2
    <3> QED
      BY <3>1, <3>2
  <2>2. Addressed(d, x)
    BY Zenon, <2>1 DEF IInv, MailInv
  <2> QED
    BY Zenon, <2>2, Forward
<1>4. ASSUME NEW d \in Clients, NEW x \in unacked'[d]
      PROVE  Addressed(d, x)' /\ ~Fresh(d, x)'
  <2>1. CASE x \in unacked[d]
    <3>1. Addressed(d, x) /\ ~Fresh(d, x)
      BY Zenon, <2>1 DEF IInv, MailInv
    <3> QED
      BY Zenon, <3>1, Forward
  <2>2. CASE d = c /\ x = e
    BY Zenon, <1>1, <2>2, Forward
  <2> QED
    BY <1>2, <2>1, <2>2
<1>5. ASSUME NEW d \in Clients, NEW p \in DOMAIN mailbox'[d], NEW q \in DOMAIN mailbox'[d], p < q,
             NEW x, x = mailbox'[d][p], NEW y, y = mailbox'[d][q], Fresh(d, x)', Fresh(d, y)'
      PROVE  EpochOf(x.n) < EpochOf(y.n)
  <2>1. Fresh(d, x) /\ Fresh(d, y)
    <3>1. Addressed(d, x) /\ Addressed(d, y)
      BY Zenon, <1>3, <1>5
    <3> QED
      BY Zenon, <1>5, <3>1, Forward
  <2>2. CASE d # c
    BY Zenon, <1>1, <1>5, <2>1, <2>2 DEF IInv, MailInv
  <2>3. CASE d = c
    <3>1. p \in Nat /\ q \in Nat
      BY Zenon, <1>1, <1>5, <2>3 DEF Shorter
    <3>2. /\ p + 1 \in DOMAIN mailbox[c] /\ x = mailbox[c][p + 1]
          /\ q + 1 \in DOMAIN mailbox[c] /\ y = mailbox[c][q + 1]
      BY Zenon, <1>1, <1>5, <2>3 DEF Shorter
    <3>3. p + 1 < q + 1
      BY <1>5, <3>1
    <3> QED
      BY Zenon, <2>1, <2>3, <3>2, <3>3 DEF IInv, MailInv
  <2> QED
    BY <2>2, <2>3
<1> QED
  BY <1>1, <1>2, <1>3, <1>4, <1>5, MailFrom, Zenon

LEMMA TookUpComplete ==
  ASSUME IInv, NEW c \in Clients, NEW e, TookUp(c, e), Moved(c, e)
  PROVE  CompleteInv'
<1>1. /\ UNCHANGED <<commits, log>> /\ Addressed(c, e)
      /\ 1 \in DOMAIN mailbox[c] /\ mailbox[c][1] = e /\ Shorter(mailbox[c], mailbox'[c])
      /\ \A d \in Clients : d # c => mailbox'[d] = mailbox[d]
  BY DEF TookUp
<1>2. ASSUME NEW d \in Clients, NEW i \in DOMAIN log, i > Level(d)'
      PROVE  i > Level(d) /\ (d = c => e # Event("commit", log[i]) /\ e # Event("welcome", log[i]))
  <2>1. i \in Nat /\ EpochOf(log[i]) = i
    BY LogFacts, SMTT(30) DEF IInv, LogInv
  <2>2. i > Level(d)
    BY <1>2, <2>1, Forward
  <2>3. ASSUME d = c, IsChange(e)
        PROVE  e.n # log[i]
    BY <1>2, <2>1, <2>3, Forward
  <2>4. \A kind \in {"commit", "welcome"} : IsChange(Event(kind, log[i])) /\ Event(kind, log[i]).n = log[i]
    BY DEF Event, IsChange
  <2> QED
    BY <2>2, <2>3, <2>4
<1>3. ASSUME NEW d \in Clients, NEW x, d = c => e # x,
             NEW p \in DOMAIN mailbox[d], mailbox[d][p] = x
      PROVE  \E q \in DOMAIN mailbox'[d] : mailbox'[d][q] = x
  <2>1. CASE d # c
    BY <1>1, <1>3, <2>1
  <2>2. CASE d = c
    <3>1. p # 1
      BY <1>1, <1>3, <2>2
    <3>2. p - 1 \in DOMAIN mailbox'[d] /\ mailbox'[d][p - 1] = x
      BY Zenon, <1>1, <1>3, <2>2, <3>1 DEF Shorter
    <3> QED
      BY <3>2
  <2> QED
    BY <2>1, <2>2
<1>4. ASSUME NEW d \in Clients, NEW i \in DOMAIN log, i > Level(d)'
      PROVE  /\ commits[log[i]].by # d
             /\ d \in MembersOf(log[i - 1]) =>
                  \E p \in DOMAIN mailbox'[d] : mailbox'[d][p] = Event("commit", log[i])
             /\ d \in commits[log[i]].add =>
                  \E p \in DOMAIN mailbox'[d] : mailbox'[d][p] = Event("welcome", log[i])
  <2>1. i > Level(d) /\ (d = c => e # Event("commit", log[i]) /\ e # Event("welcome", log[i]))
    BY <1>2, <1>4
  <2>2. /\ commits[log[i]].by # d
        /\ d \in MembersOf(log[i - 1]) =>
             \E p \in DOMAIN mailbox[d] : mailbox[d][p] = Event("commit", log[i])
        /\ d \in commits[log[i]].add =>
             \E p \in DOMAIN mailbox[d] : mailbox[d][p] = Event("welcome", log[i])
    BY Zenon, <2>1 DEF IInv, CompleteInv
  <2> QED
    BY <1>3, <2>1, <2>2, Zenon
<1> QED
  BY <1>1, <1>4, SMTT(30) DEF CompleteInv, MembersOf

\* What c decrypts is for c, and a message that comes up in its epoch is decrypted.
LEMMA TookUpReads ==
  ASSUME IInv, NEW c \in Clients, process_event(c), NEW e, e = Head(mailbox[c]), Addressed(c, e)
  PROVE  /\ read' \in [Clients -> SUBSET relayed]
         /\ \A d \in Clients : read[d] \subseteq read'[d]
         /\ \A d \in Clients : \A m \in read'[d] : d \in Audience(m)
         /\ \A m : e = Event("message", m) /\ at(c) = messages[m].at => m \in read'[c]
<1>1. /\ read \in [Clients -> SUBSET relayed]
      /\ \A d \in Clients : \A m \in read[d] : d \in Audience(m)
  BY DEF IInv, MessageInv
<1>2. e.kind = "message" => e.n \in relayed /\ c \in Audience(e.n)
  BY Zenon DEF Addressed
<1>3. PICK r : r = IF e.kind = "message" /\ decrypts(c, e.n) THEN read[c] \cup {e.n} ELSE read[c]
  BY Zenon
<1>4. read' = [read EXCEPT ![c] = r]
  BY Zenon, <1>3 DEF process_event
<1>5. /\ r \subseteq relayed /\ read[c] \subseteq r /\ \A m \in r : c \in Audience(m)
      /\ e.kind = "message" /\ at(c) = messages[e.n].at => e.n \in r
  BY Zenon, <1>1, <1>2, <1>3 DEF decrypts
<1>6. /\ read' \in [Clients -> SUBSET relayed] /\ read'[c] = r
      /\ \A d \in Clients : d # c => read'[d] = read[d]
  BY Zenon, <1>1, <1>4, <1>5
<1>7. \A m : e = Event("message", m) => e.kind = "message" /\ e.n = m
  BY DEF Event
<1> QED
  BY <1>1, <1>5, <1>6, <1>7, Zenon

\* A message in place is in place one position further on.
LEMMA TookUpKeeps ==
  ASSUME IInv, NEW c \in Clients, NEW e, TookUp(c, e), Moved(c, e),
         NEW m \in relayed, NEW d \in Clients, d \in Audience(m),
         NEW p \in DOMAIN mailbox[d], InPlace(d, m, p), d = c => p # 1
  PROVE  \E q \in DOMAIN mailbox'[d] : InPlace(d, m, q)'
<1>1. /\ UNCHANGED <<commits, messages>> /\ Addressed(c, e)
      /\ 1 \in DOMAIN mailbox[c] /\ mailbox[c][1] = e /\ Shorter(mailbox[c], mailbox'[c])
      /\ \A b \in Clients : b # c => mailbox'[b] = mailbox[b]
  BY DEF TookUp
<1>2. PICK j : j = EpochOf(messages[m].at)
  OBVIOUS
<1>3. /\ mailbox[d][p] = Event("message", m) /\ Level(d) <= j
      /\ \A q \in DOMAIN mailbox[d] : Fresh(d, mailbox[d][q]) =>
           (q < p <=> EpochOf(mailbox[d][q].n) <= j)
  BY Zenon, <1>2 DEF InPlace
<1>4. EpochOf(messages[m].at)' = j
  BY Zenon, <1>1, <1>2 DEF EpochOf
<1>5. ASSUME NEW q \in DOMAIN mailbox[d], NEW x, x = mailbox[d][q], Fresh(d, x)'
      PROVE  q < p <=> EpochOf(x.n)' <= j
  <2>1. Addressed(d, x)
    BY Zenon, <1>5 DEF IInv, MailInv
  <2>2. Fresh(d, x) /\ EpochOf(x.n)' = EpochOf(x.n)
    BY Zenon, <1>5, <2>1, Forward
  <2> QED
    BY Zenon, <1>3, <1>5, <2>2
<1>6. Level(d)' <= j
  <2>1. CASE Level(d)' = Level(d)
    BY <1>3, <2>1
  <2>2. CASE d = c /\ Fresh(c, e)
    <3>1. Level(c)' = EpochOf(e.n)
      BY Zenon, <2>2 DEF Moved
    <3>2. 1 < p
      BY <1>1, <2>2 DEF Shorter
    <3> QED
      BY Zenon, <1>1, <1>3, <2>2, <3>1, <3>2
  <2> QED
    BY Zenon, <2>1, <2>2 DEF Moved
<1>7. CASE d # c
  <2>1. mailbox'[d] = mailbox[d]
    BY <1>1, <1>7
  <2>2. InPlace(d, m, p)'
    BY Zenon, <1>3, <1>4, <1>5, <1>6, <2>1 DEF InPlace
  <2> QED
    BY <2>1, <2>2
<1>8. CASE d = c
  <2>1. p - 1 \in DOMAIN mailbox'[d] /\ mailbox'[d][p - 1] = Event("message", m)
    BY Zenon, <1>1, <1>3, <1>8 DEF Shorter
  <2>2. ASSUME NEW q \in DOMAIN mailbox'[d], NEW x, x = mailbox'[d][q], Fresh(d, x)'
        PROVE  q < p - 1 <=> EpochOf(x.n)' <= j
    <3>1. q + 1 \in DOMAIN mailbox[d] /\ x = mailbox[d][q + 1] /\ q \in Nat /\ p \in Nat
      BY Zenon, <1>1, <1>8, <2>2 DEF Shorter
    <3>2. q + 1 < p <=> EpochOf(x.n)' <= j
      BY Zenon, <1>5, <2>2, <3>1
    <3> QED
      BY <3>1, <3>2
  <2>3. InPlace(d, m, p - 1)'
    BY Zenon, <1>4, <1>6, <2>1, <2>2 DEF InPlace
  <2> QED
    BY <2>1, <2>3
<1> QED
  BY <1>7, <1>8

LEMMA TookUpMessages ==
  ASSUME IInv, NEW c \in Clients, process_event(c), NEW e, e = Head(mailbox[c]),
         TookUp(c, e), Moved(c, e)
  PROVE  MessageInv'
<1>1. UNCHANGED <<commits, messages, log, relayed>> /\ Addressed(c, e) /\ unanswered[c] = {}
  BY DEF TookUp
<1>2. /\ read' \in [Clients -> SUBSET relayed]
      /\ \A d \in Clients : read[d] \subseteq read'[d]
      /\ \A d \in Clients : \A m \in read'[d] : d \in Audience(m)
      /\ \A m : e = Event("message", m) /\ at(c) = messages[m].at => m \in read'[c]
  BY Zenon, <1>1, TookUpReads
<1>3. /\ \A m : Audience(m)' = Audience(m)
      /\ \A d, m : Excused(d, m)' <=> Excused(d, m)
      /\ \A k : Accepted(k)' <=> Accepted(k)
  BY <1>1 DEF Audience, Excused, committed_past, shut_out, EpochOf, Accepted
<1>4. ASSUME NEW m \in relayed, NEW d \in Audience(m)
      PROVE  \/ m \in read'[d] \/ Excused(d, m)
             \/ \E q \in DOMAIN mailbox'[d] : InPlace(d, m, q)'
  <2>1. d \in Clients
    BY Zenon, LogFacts DEF IInv, MessageInv, Accepted, Audience, MembersOf
  <2>2. \/ m \in read[d] \/ Excused(d, m)
        \/ \E p \in DOMAIN mailbox[d] : InPlace(d, m, p)
    BY DEF IInv, MessageInv
  <2>3. ASSUME NEW p \in DOMAIN mailbox[d], InPlace(d, m, p), ~Excused(d, m)
        PROVE  m \in read'[d] \/ \E q \in DOMAIN mailbox'[d] : InPlace(d, m, q)'
    <3>1. CASE d = c /\ p = 1
      <4>1. e = Event("message", m)
        BY Zenon, <2>3, <3>1 DEF InPlace, TookUp
      <4>2. at(c) = messages[m].at
        BY <1>1, <2>1, <2>3, <3>1, HeadIsReadable
      <4> QED
        BY Zenon, <1>2, <3>1, <4>1, <4>2
    <3>2. CASE ~(d = c /\ p = 1)
      BY <1>4, <2>1, <2>3, <3>2, TookUpKeeps
    <3> QED
      BY <3>1, <3>2
  <2> QED
    BY <1>2, <2>1, <2>2, <2>3, Zenon
<1>5. /\ relayed \subseteq DOMAIN messages
      /\ \A m \in relayed : Accepted(messages[m].at)
  BY DEF IInv, MessageInv
<1>6. relayed' = relayed /\ messages' = messages
  BY <1>1
<1> QED
  BY Zenon, <1>2, <1>3, <1>4, <1>5, <1>6 DEF MessageInv

\* c takes up its mail.
LEMMA ProcessStep ==
  ASSUME IInv, NEW c \in Clients, process_event(c)
  PROVE  IInv'
<1>1. PICK e : e = Head(mailbox[c])
  OBVIOUS
<1>2. TookUp(c, e) /\ Moved(c, e)
  BY <1>1, TakesUp, Moves
<1>3. /\ UNCHANGED <<commits, messages, unanswered, outbox, roster, log>>
      /\ unacked' = unacked \/ unacked' = [unacked EXCEPT ![c] = @ \cup {e}]
  BY Zenon, <1>1 DEF process_event, relay
<1>4. CommitsInv' /\ LogInv' /\ JoinInv' /\ OutboxInv'
  BY <1>3, Untouched
<1>5. SessionInv' /\ CompleteInv'
  BY <1>2, TookUpSession, TookUpComplete
<1>6. MailInv'
  BY <1>2, <1>3, TookUpMail
<1>7. MessageInv'
  BY <1>1, <1>2, TookUpMessages
<1> QED
  BY <1>4, <1>5, <1>6, <1>7 DEF IInv

\* An event that c took up before comes again, before the others.
CameAgain(c, e) ==
  /\ UNCHANGED <<commits, messages, session, heard, log, relayed, read>>
  /\ Addressed(c, e) /\ ~Fresh(c, e)
  /\ mailbox' \in [Clients -> Seq(Events)] /\ Shorter(mailbox'[c], mailbox[c])
  /\ 1 \in DOMAIN mailbox'[c] /\ mailbox'[c][1] = e
  /\ \A d \in Clients : d # c => mailbox'[d] = mailbox[d]

LEMMA ComesAgain ==
  ASSUME IInv, NEW c \in Clients, NEW e \in unacked[c], fetch_again(c, e)
  PROVE  CameAgain(c, e)
<1>1. /\ mailbox' = [mailbox EXCEPT ![c] = <<e>> \o @]
      /\ UNCHANGED <<commits, messages, session, heard, log, relayed, read>>
  BY DEF fetch_again, client, relay
<1>2. /\ mailbox \in [Clients -> Seq(Events)] /\ unacked \in [Clients -> SUBSET Events]
      /\ Addressed(c, e) /\ ~Fresh(c, e)
  BY DEF IInv, MailInv
<1>3. PICK t : t = <<e>> \o mailbox[c]
  BY Zenon
<1>4. t \in Seq(Events) /\ Shorter(t, mailbox[c]) /\ 1 \in DOMAIN t /\ t[1] = e
  <2>1. mailbox[c] \in Seq(Events) /\ e \in Events
    BY <1>2
  <2> QED
    BY <1>3, <2>1, ByOne
<1>5. /\ mailbox' \in [Clients -> Seq(Events)] /\ mailbox'[c] = t
      /\ \A d \in Clients : d # c => mailbox'[d] = mailbox[d]
  BY Zenon, <1>1, <1>2, <1>3, <1>4
<1> QED
  BY <1>1, <1>2, <1>4, <1>5, Zenon DEF CameAgain

\* Nothing else changes for anyone.
LEMMA AsBefore ==
  ASSUME UNCHANGED <<commits, messages, session, heard, log, relayed>>
  PROVE  /\ \A d, x : Addressed(d, x)' <=> Addressed(d, x)
         /\ \A d, x : Fresh(d, x)' <=> Fresh(d, x)
         /\ \A k : EpochOf(k)' = EpochOf(k)
         /\ \A k : MembersOf(k)' = MembersOf(k)
         /\ \A d : Level(d)' = Level(d)
         /\ \A m : Audience(m)' = Audience(m)
         /\ \A d, m : Excused(d, m)' <=> Excused(d, m)
         /\ \A k : Accepted(k)' <=> Accepted(k)
<1>1. /\ \A k : EpochOf(k)' = EpochOf(k)
      /\ \A k : MembersOf(k)' = MembersOf(k)
      /\ \A m : Audience(m)' = Audience(m)
      /\ \A d : Level(d)' = Level(d)
  BY DEF EpochOf, MembersOf, Audience, Level
<1>2. \A d, x : Addressed(d, x)' <=> Addressed(d, x)
  BY DEF Addressed, MembersOf, Audience
<1>3. \A d, x : Fresh(d, x)' <=> Fresh(d, x)
  BY <1>1 DEF Fresh
<1>4. /\ \A d, m : Excused(d, m)' <=> Excused(d, m)
      /\ \A k : Accepted(k)' <=> Accepted(k)
  BY DEF Excused, committed_past, shut_out, EpochOf, Accepted
<1> QED
  BY <1>1, <1>2, <1>3, <1>4, Zenon

LEMMA CameAgainMail ==
  ASSUME IInv, NEW c \in Clients, NEW e, CameAgain(c, e),
         unacked' \in [Clients -> SUBSET Events], \A d \in Clients : unacked'[d] \subseteq unacked[d]
  PROVE  MailInv'
<1>1. /\ UNCHANGED <<commits, messages, session, heard, log, relayed>> /\ Addressed(c, e) /\ ~Fresh(c, e)
      /\ mailbox' \in [Clients -> Seq(Events)] /\ Shorter(mailbox'[c], mailbox[c])
      /\ 1 \in DOMAIN mailbox'[c] /\ mailbox'[c][1] = e
      /\ \A d \in Clients : d # c => mailbox'[d] = mailbox[d]
  BY DEF CameAgain
<1>2. /\ \A d, x : Addressed(d, x)' <=> Addressed(d, x)
      /\ \A d, x : Fresh(d, x)' <=> Fresh(d, x)
  BY Zenon, <1>1, AsBefore
<1>3. ASSUME NEW d \in Clients, NEW p \in DOMAIN mailbox'[d], NEW x, x = mailbox'[d][p]
      PROVE  Addressed(d, x)'
  <2>1. CASE d = c /\ p = 1
    BY <1>1, <1>2, <1>3, <2>1
  <2>2. CASE d = c /\ p # 1
    <3>1. p - 1 \in DOMAIN mailbox[c] /\ x = mailbox[c][p - 1]
      BY Zenon, <1>1, <1>3, <2>2 DEF Shorter
    <3>2. Addressed(c, x)
      BY Zenon, <3>1 DEF IInv, MailInv
    <3> QED
      BY <1>2, <2>2, <3>2
  <2>3. CASE d # c
    <3>1. Addressed(d, x)
      BY Zenon, <1>1, <1>3, <2>3 DEF IInv, MailInv
    <3> QED
      BY <1>2, <3>1
  <2> QED
    BY <2>1, <2>2, <2>3
<1>4. ASSUME NEW d \in Clients, NEW x \in unacked'[d]
      PROVE  Addressed(d, x)' /\ ~Fresh(d, x)'
  <2>1. Addressed(d, x) /\ ~Fresh(d, x)
    BY Zenon, <1>4 DEF IInv, MailInv
  <2> QED
    BY <1>2, <2>1
<1>5. ASSUME NEW d \in Clients, NEW p \in DOMAIN mailbox'[d], NEW q \in DOMAIN mailbox'[d], p < q,
             NEW x, x = mailbox'[d][p], NEW y, y = mailbox'[d][q], Fresh(d, x)', Fresh(d, y)'
      PROVE  EpochOf(x.n) < EpochOf(y.n)
  <2>1. Fresh(d, x) /\ Fresh(d, y)
    BY Zenon, <1>2, <1>5
  <2>2. CASE d # c
    BY Zenon, <1>1, <1>5, <2>1, <2>2 DEF IInv, MailInv
  <2>3. CASE d = c
    <3>1. p # 1 /\ q # 1
      BY Zenon, <1>1, <1>5, <2>1, <2>3
    <3>2. p \in Nat /\ q \in Nat
      BY Zenon, <1>1, <1>5, <2>3 DEF Shorter
    <3>3. /\ p - 1 \in DOMAIN mailbox[c] /\ x = mailbox[c][p - 1]
          /\ q - 1 \in DOMAIN mailbox[c] /\ y = mailbox[c][q - 1]
      BY Zenon, <1>1, <1>5, <2>3, <3>1 DEF Shorter
    <3>4. p - 1 < q - 1
      BY <1>5, <3>2
    <3> QED
      BY Zenon, <2>1, <2>3, <3>3, <3>4 DEF IInv, MailInv
  <2> QED
    BY <2>2, <2>3
<1> QED
  BY <1>1, <1>3, <1>4, <1>5, MailFrom, Zenon

LEMMA CameAgainKeeps ==
  ASSUME IInv, NEW c \in Clients, NEW e, CameAgain(c, e),
         NEW m \in relayed, NEW d \in Clients, NEW p \in DOMAIN mailbox[d], InPlace(d, m, p)
  PROVE  \E q \in DOMAIN mailbox'[d] : InPlace(d, m, q)'
<1>1. /\ UNCHANGED <<commits, messages, session, heard, log, relayed>> /\ ~Fresh(c, e)
      /\ Shorter(mailbox'[c], mailbox[c])
      /\ 1 \in DOMAIN mailbox'[c] /\ mailbox'[c][1] = e
      /\ \A b \in Clients : b # c => mailbox'[b] = mailbox[b]
  BY DEF CameAgain
<1>2. /\ \A b, x : Fresh(b, x)' <=> Fresh(b, x)
      /\ \A k : EpochOf(k)' = EpochOf(k)
      /\ \A b : Level(b)' = Level(b)
  BY Zenon, <1>1, AsBefore
<1>3. PICK j : j = EpochOf(messages[m].at)
  OBVIOUS
<1>4. /\ mailbox[d][p] = Event("message", m) /\ Level(d)' <= j
      /\ \A q \in DOMAIN mailbox[d] : Fresh(d, mailbox[d][q]) =>
           (q < p <=> EpochOf(mailbox[d][q].n) <= j)
  BY Zenon, <1>2, <1>3 DEF InPlace
<1>5. EpochOf(messages[m].at)' = j
  BY Zenon, <1>1, <1>3 DEF EpochOf
<1>6. ASSUME NEW q \in DOMAIN mailbox[d], NEW x, x = mailbox[d][q], Fresh(d, x)'
      PROVE  q < p <=> EpochOf(x.n)' <= j
  BY Zenon, <1>2, <1>4, <1>6
<1>7. CASE d # c
  <2>1. mailbox'[d] = mailbox[d]
    BY <1>1, <1>7
  <2>2. InPlace(d, m, p)'
    BY Zenon, <1>4, <1>5, <1>6, <2>1 DEF InPlace
  <2> QED
    BY <2>1, <2>2
<1>8. CASE d = c
  <2>1. p + 1 \in DOMAIN mailbox'[d] /\ mailbox'[d][p + 1] = Event("message", m) /\ p \in Nat
    BY Zenon, <1>1, <1>4, <1>8 DEF Shorter
  <2>2. ASSUME NEW q \in DOMAIN mailbox'[d], NEW x, x = mailbox'[d][q], Fresh(d, x)'
        PROVE  q < p + 1 <=> EpochOf(x.n)' <= j
    <3>1. q # 1
      BY <1>1, <1>2, <1>8, <2>2
    <3>2. q - 1 \in DOMAIN mailbox[d] /\ x = mailbox[d][q - 1] /\ q \in Nat
      BY Zenon, <1>1, <1>8, <2>2, <3>1 DEF Shorter
    <3>3. q - 1 < p <=> EpochOf(x.n)' <= j
      BY Zenon, <1>6, <2>2, <3>2
    <3> QED
      BY SMTT(30), <2>1, <3>2, <3>3
  <2>3. InPlace(d, m, p + 1)'
    BY Zenon, <1>4, <1>5, <2>1, <2>2 DEF InPlace
  <2> QED
    BY <2>1, <2>3
<1> QED
  BY <1>7, <1>8

LEMMA CameAgainRest ==
  ASSUME IInv, NEW c \in Clients, NEW e, CameAgain(c, e), UNCHANGED unanswered
  PROVE  SessionInv' /\ CompleteInv' /\ MessageInv'
<1>1. /\ UNCHANGED <<commits, messages, session, heard, log, relayed, read, unanswered>>
      /\ Shorter(mailbox'[c], mailbox[c])
      /\ \A d \in Clients : d # c => mailbox'[d] = mailbox[d]
  BY DEF CameAgain
<1>2. SessionInv'
  BY <1>1, SessionKept
<1>3. CompleteInv'
  <2>1. ASSUME NEW d \in Clients, NEW x, NEW p \in DOMAIN mailbox[d], mailbox[d][p] = x
        PROVE  \E q \in DOMAIN mailbox'[d] : mailbox'[d][q] = x
    <3>1. CASE d # c
      BY <1>1, <2>1, <3>1
    <3>2. CASE d = c
      <4>1. p + 1 \in DOMAIN mailbox'[d] /\ mailbox'[d][p + 1] = x
        BY Zenon, <1>1, <2>1, <3>2 DEF Shorter
      <4> QED
        BY <4>1
    <3> QED
      BY <3>1, <3>2
  <2>2. ASSUME NEW d \in Clients, NEW i \in DOMAIN log, i > Level(d)
        PROVE  /\ commits[log[i]].by # d
               /\ d \in MembersOf(log[i - 1]) =>
                    \E p \in DOMAIN mailbox'[d] : mailbox'[d][p] = Event("commit", log[i])
               /\ d \in commits[log[i]].add =>
                    \E p \in DOMAIN mailbox'[d] : mailbox'[d][p] = Event("welcome", log[i])
    <3>1. /\ commits[log[i]].by # d
          /\ d \in MembersOf(log[i - 1]) =>
               \E p \in DOMAIN mailbox[d] : mailbox[d][p] = Event("commit", log[i])
          /\ d \in commits[log[i]].add =>
               \E p \in DOMAIN mailbox[d] : mailbox[d][p] = Event("welcome", log[i])
      BY <2>2 DEF IInv, CompleteInv
    <3> QED
      BY <2>1, <3>1, Zenon
  <2>3. \A d : Level(d)' = Level(d)
    BY <1>1 DEF Level
  <2> QED
    BY <1>1, <2>2, <2>3, SMTT(30) DEF CompleteInv, MembersOf
<1>4. MessageInv'
  <2>1. /\ \A m : Audience(m)' = Audience(m)
        /\ \A d, m : Excused(d, m)' <=> Excused(d, m)
        /\ \A k : Accepted(k)' <=> Accepted(k)
    BY Zenon, <1>1, AsBefore
  <2>2. ASSUME NEW m \in relayed, NEW d \in Audience(m)
        PROVE  \/ m \in read[d] \/ Excused(d, m)
               \/ \E q \in DOMAIN mailbox'[d] : InPlace(d, m, q)'
    <3>1. d \in Clients
      BY Zenon, LogFacts DEF IInv, MessageInv, Accepted, Audience, MembersOf
    <3>2. \/ m \in read[d] \/ Excused(d, m)
          \/ \E p \in DOMAIN mailbox[d] : InPlace(d, m, p)
      BY DEF IInv, MessageInv
    <3> QED
      BY <3>1, <3>2, CameAgainKeeps, Zenon
  <2>3. /\ relayed \subseteq DOMAIN messages /\ read \in [Clients -> SUBSET relayed]
        /\ \A m \in relayed : Accepted(messages[m].at)
        /\ \A d \in Clients : \A m \in read[d] : d \in Audience(m)
    BY DEF IInv, MessageInv
  <2>4. relayed' = relayed /\ messages' = messages /\ read' = read
    BY <1>1
  <2> QED
    BY <2>1, <2>2, <2>3, <2>4 DEF MessageInv
<1> QED
  BY <1>2, <1>3, <1>4

LEMMA FetchStep ==
  ASSUME IInv, NEW c \in Clients, NEW e \in unacked[c], fetch_again(c, e)
  PROVE  IInv'
<1>1. CameAgain(c, e)
  BY ComesAgain
<1>2. /\ unacked' = [unacked EXCEPT ![c] = @ \ {e}]
      /\ UNCHANGED <<commits, messages, unanswered, outbox, roster, log>>
  BY DEF fetch_again, client, relay
<1>3. unacked' \in [Clients -> SUBSET Events] /\ \A d \in Clients : unacked'[d] \subseteq unacked[d]
  <2>1. unacked \in [Clients -> SUBSET Events]
    BY DEF IInv, MailInv
  <2> QED
    BY <1>2, <2>1
<1>4. CommitsInv' /\ LogInv' /\ JoinInv' /\ OutboxInv'
  BY <1>2, Untouched
<1>5. MailInv'
  BY <1>1, <1>3, CameAgainMail
<1>6. SessionInv' /\ CompleteInv' /\ MessageInv'
  BY <1>1, <1>2, CameAgainRest
<1> QED
  BY <1>4, <1>5, <1>6 DEF IInv

=============================================================================
