---------------------------- MODULE RelayDelivery ----------------------------
(***************************************************************************)
(* Group traffic through the relay (api/relay.rs): commits with their      *)
(* Welcomes and application messages are validated against the roster,     *)
(* routed to the devices of its members and kept for them in the           *)
(* PendingEventStore until acknowledged.                                   *)
(*                                                                         *)
(* A commit is a number and names the epoch secrets it brings; a session   *)
(* is at the commit it has installed (module Group says how).  The relay   *)
(* knows epoch numbers only.  Leaf, identity and device of a member are    *)
(* one here; that the roster's leaves are the tree's is                    *)
(* Group!RosterIsMembership.  A member that came by a Welcome may be below *)
(* a node with an older key and then cannot open the path of a commit      *)
(* (Group!below_older_key): which of them cannot is any choice here.       *)
(***************************************************************************)
EXTENDS Naturals, FiniteSets, Sequences

CONSTANTS
  Clients,
  Founders,      \* the members at the start
  MaxMembers,    \* MAX_GROUP_MEMBERS
  MaxCommits,    \* bound: commits ever made
  MaxMessages,   \* bound: messages ever encrypted
  MaxAgain       \* bound: acknowledgements lost

ASSUME DeliveryAssumption ==
  /\ Founders \subseteq Clients /\ Founders # {}
  /\ {MaxMembers, MaxCommits, MaxMessages, MaxAgain} \subseteq Nat
  /\ Cardinality(Founders) <= MaxMembers

Nowhere == 0    \* a client without a group session

VARIABLES
  commits,      \* every commit made, by number
  messages,     \* every message encrypted, by number
  session,      \* session[c]: the commit installed, the least epoch of a Welcome
  unanswered,   \* unanswered[c]: the commit of c that the relay has not answered
  outbox,       \* outbox[c]: what c hands to the relay, in order
  roster,       \* the relay's roster: epoch and members
  log,          \* commits the relay accepted (history)
  relayed,      \* messages the relay accepted (history)
  mailbox,      \* mailbox[c]: the events stored for c
  unacked,      \* unacked[c]: processed events whose acknowledgement was lost
  losses,       \* acknowledgements lost so far
  heard,        \* heard[c]: epoch of the last change c has taken up (history)
  read          \* read[c]: messages c decrypted

client == <<session, unanswered, heard>>
relay == <<roster, log, relayed>>
vars == <<commits, messages, client, outbox, relay, mailbox, unacked, losses, read>>

Founding ==
  [by |-> Nowhere, base |-> Nowhere, epoch |-> 1,
   add |-> {}, remove |-> {}, members |-> Founders, late |-> {}, shut |-> {}]

Init ==
  /\ commits = <<Founding>> /\ messages = <<>>
  /\ session = [c \in Clients |->
       IF c \in Founders THEN [at |-> 1, floor |-> 2] ELSE [at |-> Nowhere, floor |-> 1]]
  /\ unanswered = [c \in Clients |-> {}]
  /\ heard = [c \in Clients |-> 1]
  /\ outbox = [c \in Clients |-> <<>>]
  /\ roster = [epoch |-> 1, members |-> Founders]
  /\ log = <<1>> /\ relayed = {}
  /\ mailbox = [c \in Clients |-> <<>>]
  /\ unacked = [c \in Clients |-> {}] /\ losses = 0
  /\ read = [c \in Clients |-> {}]

at(c) == session[c].at

Event(kind, n) == [kind |-> kind, n |-> n]
submit(c, kind, n) == outbox' = [outbox EXCEPT ![c] = Append(@, Event(kind, n))]

-----------------------------------------------------------------------------
(* Members *)

(* add_member, remove_member and update: the author installs its commit at  *)
(* once.  It makes no other before the relay has answered.  late are the    *)
(* members that came by a Welcome, shut those that cannot open the path.    *)
make_commit(c, add, remove, shut) ==
  LET base == commits[at(c)]
      n == Len(commits) + 1
  IN  /\ at(c) # Nowhere /\ unanswered[c] = {} /\ Len(commits) < MaxCommits
      /\ add \cap base.members = {} /\ remove \subseteq base.members \ {c}
      /\ Cardinality(base.members \cup add) <= MaxMembers
      /\ shut \subseteq base.late \ (remove \cup {c})
      /\ commits' = Append(commits,
           [by |-> c, base |-> at(c), epoch |-> base.epoch + 1, add |-> add,
            remove |-> remove, members |-> (base.members \ remove) \cup add,
            late |-> (base.late \ remove) \cup add, shut |-> shut])
      /\ session' = [session EXCEPT ![c].at = n]
      /\ unanswered' = [unanswered EXCEPT ![c] = {n}]
      /\ submit(c, "commit", n)
      /\ UNCHANGED <<heard, messages, relay, mailbox, unacked, losses, read>>

encrypt(c) ==
  /\ at(c) # Nowhere /\ Len(messages) < MaxMessages
  /\ messages' = Append(messages, [by |-> c, at |-> at(c)])
  /\ submit(c, "message", Len(messages) + 1)
  /\ UNCHANGED <<commits, client, relay, mailbox, unacked, losses, read>>

(* decrypt: the message is of the session's epoch, by its number and by its *)
(* keys, and not yet decrypted.                                             *)
decrypts(c, m) == at(c) = messages[m].at /\ m \notin read[c]

(* process_commit: the next epoch, confirmed with the secrets of this one,  *)
(* by a member that can open the path.  A removed member cannot: the call   *)
(* fails and leaves its session where it was.                               *)
accepts_commit(c, s, k) ==
  /\ s.at # Nowhere /\ commits[k].base = s.at
  /\ c \in commits[k].members \ commits[k].shut

(* Defect: from_welcome, without the least epoch. *)
accepts_any_welcome(s, k) == TRUE

(* from_welcome_with_min_epoch *)
accepts_welcome(s, k) == commits[k].epoch >= s.floor

installed(s, k) ==
  [at |-> k, floor |-> IF commits[k].epoch >= s.floor THEN commits[k].epoch + 1 ELSE s.floor]

(* Session s of c after an event. *)
after_event(c, s, e) ==
  CASE e.kind = "commit" /\ accepts_commit(c, s, e.n) -> installed(s, e.n)
    [] e.kind = "welcome" /\ accepts_welcome(s, e.n) -> installed(s, e.n)
    [] OTHER -> s

(* The epoch of a change that c had not taken up yet. *)
heard_after(c, e) ==
  IF e.kind # "message" /\ commits[e.n].epoch > heard[c] THEN commits[e.n].epoch ELSE heard[c]

(* c takes the oldest event, tries it once and acknowledges it, whatever    *)
(* came of it.  It leaves its mail alone while its own commit is open.      *)
process_event(c) ==
  LET e == Head(mailbox[c])
  IN  /\ mailbox[c] # <<>> /\ unanswered[c] = {}
      /\ session' = [session EXCEPT ![c] = after_event(c, @, e)]
      /\ heard' = [heard EXCEPT ![c] = heard_after(c, e)]
      /\ read' = [read EXCEPT ![c] =
           IF e.kind = "message" /\ decrypts(c, e.n) THEN @ \cup {e.n} ELSE @]
      /\ mailbox' = [mailbox EXCEPT ![c] = Tail(@)]
      /\ \/ UNCHANGED <<unacked, losses>>
         \/ /\ losses < MaxAgain /\ losses' = losses + 1
            /\ unacked' = [unacked EXCEPT ![c] = @ \cup {e}]
      /\ UNCHANGED <<commits, messages, unanswered, outbox, relay>>

(* fetch_events from the start: an event that was never acknowledged comes  *)
(* again, before the others.                                                *)
fetch_again(c, e) ==
  /\ mailbox' = [mailbox EXCEPT ![c] = <<e>> \o @]
  /\ unacked' = [unacked EXCEPT ![c] = @ \ {e}]
  /\ UNCHANGED <<commits, messages, client, outbox, relay, losses, read>>

-----------------------------------------------------------------------------
(* The relay.  c is the authenticated sender. *)

(* validate_group_message_for_relay_strict: the roster's epoch by number,   *)
(* and a sender the roster has.                                             *)
validate_group_message(c, m) ==
  /\ commits[messages[m].at].epoch = roster.epoch
  /\ c \in roster.members

validate_commit(c, k) ==
  /\ commits[k].epoch = roster.epoch + 1
  /\ c \in roster.members
  /\ commits[k].remove \subseteq roster.members \ {c}

commit_recipients(c) == roster.members \ {c}

(* Defect: the recipients of the last commit. *)
message_recipients_of_commit(c) ==
  roster.members \ ({c} \cup commits[log[Len(log)]].add)

(* crypto_envelope_recipients, message_recipients_for_authenticated_sender *)
message_recipients(c) == commit_recipients(c)

(* apply_commit_to_roster_tentative *)
apply_commit_to_roster(k) ==
  /\ commits[k].add \cap roster.members = {}
  /\ Cardinality((roster.members \ commits[k].remove) \cup commits[k].add) <= MaxMembers
  /\ roster' = [epoch |-> commits[k].epoch,
                members |-> (roster.members \ commits[k].remove) \cup commits[k].add]

(* The members before the commit get it, a new member gets the Welcome,     *)
(* validated against this commit and its author.                            *)
commit_event(c, k, d) ==
  CASE d \in commit_recipients(c) -> <<Event("commit", k)>>
    [] d \in commits[k].add -> <<Event("welcome", k)>>
    [] OTHER -> <<>>

accept_commit(c, k) ==
  /\ validate_commit(c, k)
  /\ apply_commit_to_roster(k)
  /\ log' = Append(log, k)
  /\ mailbox' = [d \in Clients |-> mailbox[d] \o commit_event(c, k, d)]
  /\ outbox' = [outbox EXCEPT ![c] = Tail(@)]
  /\ session' = [session EXCEPT ![c] = installed(@, k)]
  /\ heard' = [heard EXCEPT ![c] = commits[k].epoch]
  /\ UNCHANGED relayed

(* The author goes back to the sealed state from before its commit and      *)
(* throws away what it encrypted after it, which it has held back.          *)
refuse_commit(c, k) ==
  /\ ~validate_commit(c, k)
  /\ session' = [session EXCEPT ![c].at = commits[k].base]
  /\ outbox' = [outbox EXCEPT ![c] = <<>>]
  /\ UNCHANGED <<relay, mailbox, heard>>

handle_commit(c) ==
  /\ outbox[c] # <<>> /\ Head(outbox[c]).kind = "commit"
  /\ unanswered' = [unanswered EXCEPT ![c] = {}]
  /\ LET k == Head(outbox[c]).n IN accept_commit(c, k) \/ refuse_commit(c, k)
  /\ UNCHANGED <<commits, messages, unacked, losses, read>>

(* store_event for every recipient of a valid message; nothing is stored of *)
(* another.                                                                 *)
handle_message(c) ==
  LET e == Head(outbox[c])
  IN  /\ outbox[c] # <<>> /\ e.kind = "message"
      /\ outbox' = [outbox EXCEPT ![c] = Tail(@)]
      /\ IF validate_group_message(c, e.n)
         THEN /\ relayed' = relayed \cup {e.n}
              /\ mailbox' = [d \in Clients |->
                   IF d \in message_recipients(c) THEN Append(mailbox[d], e) ELSE mailbox[d]]
         ELSE UNCHANGED <<relayed, mailbox>>
      /\ UNCHANGED <<commits, messages, client, roster, log, unacked, losses, read>>

Next ==
  \E c \in Clients :
    \/ \E shut \in SUBSET Clients :
         \/ \E d \in Clients : make_commit(c, {d}, {}, shut) \/ make_commit(c, {}, {d}, shut)
         \/ make_commit(c, {}, {}, shut)
    \/ encrypt(c)
    \/ process_event(c)
    \/ \E e \in unacked[c] : fetch_again(c, e)
    \/ handle_commit(c)
    \/ handle_message(c)

Spec == Init /\ [][Next]_vars

(* The relay goes on serving its queues and a client reading its mail. *)
FairSpec ==
  /\ Spec
  /\ \A c \in Clients : /\ WF_vars(process_event(c))
                        /\ WF_vars(handle_commit(c)) /\ WF_vars(handle_message(c))

-----------------------------------------------------------------------------
(* Properties *)

waits(c, e) == \E p \in DOMAIN mailbox[c] : mailbox[c][p] = e

Audience(m) == commits[messages[m].at].members \ {messages[m].by}

(* c's own commit, accepted by the relay, was made on the message's epoch. *)
committed_past(c, m) ==
  \E i \in DOMAIN log : commits[log[i]].by = c /\ commits[log[i]].base = messages[m].at

(* c could not open an accepted commit up to epoch i, and nobody has added  *)
(* it again since.                                                          *)
shut_out(c, i) ==
  \E j \in 1..i : /\ c \in commits[log[j]].shut
                  /\ \A k \in j + 1..i : c \notin commits[log[k]].add

(* A message the relay accepted reaches every member of its epoch: it waits *)
(* in the mailbox until it is decrypted, and is not dropped as one of       *)
(* another epoch.  There are two exceptions: a member whose own commit the  *)
(* relay accepted after the message, for it installed its commit before     *)
(* (GroupSession::update and its kin) and decrypt refuses other epochs; and *)
(* a member that a commit has shut out.                                     *)
NobodyForgotten ==
  \A m \in relayed : \A c \in Audience(m) :
    \/ m \in read[c] \/ waits(c, Event("message", m))
    \/ committed_past(c, m) \/ shut_out(c, commits[messages[m].at].epoch)

(* And it reaches nobody else: what commit_recipients gives for the roster  *)
(* when a message is accepted are members of the message's epoch.           *)
OnlyMembersServed ==
  \A c \in Clients : \A m \in DOMAIN messages :
    waits(c, Event("message", m)) \/ m \in read[c] => c \in Audience(m)

(* Both: a message the relay accepted is for the members of its epoch, all  *)
(* of them and nobody else.                                                 *)
MembersServed == NobodyForgotten /\ OnlyMembersServed

(* With a relay that keeps serving and clients that keep reading, every     *)
(* member comes to be, for good, at the commit the roster is at, unless one *)
(* has shut it out; every other client stays with an epoch gone by, if any. *)
EventuallyCurrent ==
  <>[](\A c \in Clients :
         IF c \in roster.members
         THEN at(c) = log[Len(log)] \/ shut_out(c, Len(log))
         ELSE at(c) = Nowhere \/ commits[at(c)].epoch < roster.epoch)
=============================================================================
