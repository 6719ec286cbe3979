---------------------------- MODULE GroupContent -----------------------------
(***************************************************************************)
(* What a group message says (protocol/group/mod.rs): the content types,   *)
(* the policy of a message and its annotations, what the sender checks and *)
(* builds, what the receiver checks again, and the franking report.        *)
(*                                                                         *)
(* One message travels from a sender to a receiver with the same tree and  *)
(* key; the two clocks run independently.  A content is its length, a      *)
(* sealed content the pair of its key and what it hides, a franking tag    *)
(* the pair of its key and its input.                                      *)
(***************************************************************************)
EXTENDS Integers, FiniteSets, Sequences, TLC

CONSTANTS
  Members,       \* leaf indices present in the tree
  MAX_TTL,       \* MAX_TTL_SECONDS
  SKEW,          \* MAX_FUTURE_TIMESTAMP_SKEW_SECS
  MAX_MENTIONS,  \* MAX_MENTIONS_PER_MESSAGE
  MAX_DEPTH,     \* MAX_THREAD_DEPTH
  MAX_MESSAGE,   \* MAX_GROUP_MESSAGE_SIZE
  MaxTime,       \* bound: seconds on a clock
  Requests       \* the calls of encrypt_* the sender makes

ContentTypes == {"normal", "sealed", "disappearing", "sealed_disappearing", "edit",
                 "delete", "reaction", "read_receipt", "typing"}

Refs == {"none", "id", "bad"}   \* absent, of the right length, of any other

Policy ==
  [type : ContentTypes, ttl : Nat, frankable : BOOLEAN, ref : Refs,
   mentions : Seq([leaf : Nat, offset : Nat, length : Nat]),
   reply : SUBSET [to : Refs, root : Refs, depth : Nat]]

ASSUME ContentAssumption ==
  /\ {MAX_TTL, MAX_MENTIONS} \subseteq Nat \ {0}
  /\ {SKEW, MAX_DEPTH, MAX_MESSAGE, MaxTime} \subseteq Nat
  /\ \A call \in Requests : call.policy \in Policy

VARIABLES
  mandatory,   \* the group policy's mandatory_franking
  sender_now, receiver_now,
  msg,         \* the message on its way: at most one
  result,      \* what decrypt returned: at most one
  refused_at   \* the receiver's clocks when it refused the message

content_vars == <<mandatory, sender_now, receiver_now, msg, result, refused_at>>

-----------------------------------------------------------------------------
(* ContentType *)

is_sealed(t) == t \in {"sealed", "sealed_disappearing"}
is_disappearing(t) == t \in {"disappearing", "sealed_disappearing"}
refers(t) == t \in {"edit", "delete"}

validate_ttl(t, ttl) == IF is_disappearing(t) THEN ttl \in 1..MAX_TTL ELSE ttl = 0

-----------------------------------------------------------------------------
(* MessagePolicy and the calls. *)

default_policy ==
  [type |-> "normal", ttl |-> 0, frankable |-> FALSE, ref |-> "none",
   mentions |-> <<>>, reply |-> {}]

Request(content, policy, real) == [content |-> content, policy |-> policy, real |-> real]

encrypt(len) == Request(len, default_policy, {})

encrypt_sealed(len, hint) == Request(hint, [default_policy EXCEPT !.type = "sealed"], {len})

encrypt_disappearing(len, ttl) ==
  Request(len, [default_policy EXCEPT !.type = "disappearing", !.ttl = ttl], {})

encrypt_sealed_disappearing(len, hint, ttl) ==
  Request(hint, [default_policy EXCEPT !.type = "sealed_disappearing", !.ttl = ttl], {len})

encrypt_frankable(len) == Request(len, [default_policy EXCEPT !.frankable = TRUE], {})

encrypt_with_policy(len, policy) ==
  IF is_sealed(policy.type) THEN Request(0, policy, {len}) ELSE Request(len, policy, {})

encrypt_edit(len, ref) == Request(len, [default_policy EXCEPT !.type = "edit", !.ref = ref], {})

encrypt_delete(ref) == Request(0, [default_policy EXCEPT !.type = "delete", !.ref = ref], {})

(* Reactions, read receipts and typing indicators are contents of a type of *)
(* their own; an ill-formed one is refused before encrypt_with_policy.      *)
encrypt_reaction(len) ==
  encrypt_with_policy(len, [default_policy EXCEPT !.type = "reaction"])

encrypt_read_receipt(len) ==
  encrypt_with_policy(len, [default_policy EXCEPT !.type = "read_receipt"])

encrypt_typing == encrypt_with_policy(1, [default_policy EXCEPT !.type = "typing"])

-----------------------------------------------------------------------------
(* Annotations *)

span(m) == <<m.offset, m.offset + m.length>>
before(s, t) == s[1] < t[1] \/ (s[1] = t[1] /\ s[2] <= t[2])

(* The sorted ranges, each compared with the next. *)
no_overlap(mentions) ==
  LET spans == SortSeq([i \in DOMAIN mentions |-> span(mentions[i])], before)
  IN  \A i \in 1..Len(spans) - 1 : spans[i][2] <= spans[i + 1][1]

validate_mentions_for_content(mentions, content) ==
  /\ Len(mentions) <= MAX_MENTIONS
  /\ \A i \in DOMAIN mentions : mentions[i].length > 0 /\ span(mentions[i])[2] <= content
  /\ no_overlap(mentions)

validate_reply_context(r) ==
  /\ r.to = "id"
  /\ r.root # "bad"
  /\ r.depth <= MAX_DEPTH
  /\ r.depth > 0 => r.root = "id"

validate_annotations_against_tree(content, mentions, reply) ==
  /\ validate_mentions_for_content(mentions, content)
  /\ \A i \in DOMAIN mentions : mentions[i].leaf \in Members
  /\ \A r \in reply : validate_reply_context(r)

-----------------------------------------------------------------------------
(* The sender *)

seal_key == "seal key"
franking_key == "franking key"

franking_input(type, content, sealed, key) == <<type, content, sealed, key>>

(* Defect: the group's policy does not override the message's. *)
effective_policy_as_given(policy) == policy

(* A group that requires franking overrides the message's own choice. *)
effective_policy(policy) ==
  IF mandatory /\ ~policy.frankable THEN [policy EXCEPT !.frankable = TRUE] ELSE policy

build_group_plaintext(call, policy, now) ==
  LET sealed == IF is_sealed(policy.type) THEN {[key |-> seal_key, of |-> p] : p \in call.real}
                ELSE {}
      key == IF is_sealed(policy.type) THEN {seal_key} ELSE {}
      fk == IF policy.frankable THEN {franking_key} ELSE {}
  IN  [content |-> call.content, type |-> policy.type, ttl |-> policy.ttl, sent |-> now,
       ref |-> policy.ref, mentions |-> policy.mentions, reply |-> policy.reply,
       sealed |-> sealed, franking_key |-> fk,
       tag |-> {[key |-> k, input |-> franking_input(policy.type, call.content, sealed, key)]
                  : k \in fk}]

(* What encrypt_internal checks before it takes a message key. *)
accepts_policy(call) ==
  /\ validate_ttl(call.policy.type, call.policy.ttl)
  /\ IF refers(call.policy.type) THEN call.policy.ref = "id" ELSE call.policy.ref = "none"
  /\ validate_annotations_against_tree(call.content, call.policy.mentions, call.policy.reply)

encrypt_internal(call) ==
  /\ msg = {}
  /\ accepts_policy(call)
  /\ is_sealed(call.policy.type) => call.real # {}
  /\ msg' = {build_group_plaintext(call, effective_policy(call.policy), sender_now)}
  /\ UNCHANGED <<mandatory, sender_now, receiver_now, result, refused_at>>

-----------------------------------------------------------------------------
(* The receiver *)

(* The size of a message is that of what it says: its visible content and   *)
(* its hidden one.                                                          *)
fits(m) ==
  /\ m.content <= MAX_MESSAGE
  /\ \A s \in m.sealed : m.content + s.of <= MAX_MESSAGE

in_time(m, now) ==
  is_disappearing(m.type) => m.sent <= now + SKEW /\ now <= m.sent + m.ttl

validate_sealed_payload_fields(m) == is_sealed(m.type) => m.sealed # {}

(* The tag is computed again from what was decrypted. *)
franking_holds(m) ==
  LET key == IF is_sealed(m.type) THEN {seal_key} ELSE {}
  IN  /\ mandatory => m.franking_key # {}
      /\ \A k \in m.franking_key :
           m.tag = {[key |-> k, input |-> franking_input(m.type, m.content, m.sealed, key)]}

franking_data(m) ==
  {[key |-> k, type |-> m.type, content |-> m.content, sealed |-> m.sealed,
    seal_key |-> IF is_sealed(m.type) THEN {seal_key} ELSE {}, tag |-> m.tag]
     : k \in m.franking_key}

parse_group_plaintext(m, now) ==
  /\ validate_sealed_payload_fields(m)
  /\ validate_ttl(m.type, m.ttl)
  /\ in_time(m, now)
  /\ franking_holds(m)
  /\ refers(m.type) => m.ref = "id"

(* Only the receiver looks at the size, before anything else. *)
decrypt_accepts(m) ==
  /\ fits(m)
  /\ validate_annotations_against_tree(m.content, m.mentions, m.reply)
  /\ parse_group_plaintext(m, receiver_now)

decrypt(m) ==
  /\ result = {} /\ refused_at = {}
  /\ IF decrypt_accepts(m)
     THEN /\ result' = {[msg |-> m, at |-> receiver_now, franking |-> franking_data(m)]}
          /\ refused_at' = refused_at
     ELSE result' = result /\ refused_at' = {receiver_now}
  /\ UNCHANGED <<mandatory, sender_now, receiver_now, msg>>

(* The report, checked by someone who has only the report. *)
verify_franking(d) ==
  d.tag = {[key |-> d.key, input |-> franking_input(d.type, d.content, d.sealed, d.seal_key)]}

reveal_sealed(d) == {s.of : s \in {x \in d.sealed : x.key \in d.seal_key}}

-----------------------------------------------------------------------------
ContentInit ==
  /\ mandatory \in BOOLEAN
  /\ sender_now \in 0..MaxTime /\ receiver_now = 0
  /\ msg = {} /\ result = {} /\ refused_at = {}

tick ==
  /\ receiver_now < MaxTime
  /\ receiver_now' = receiver_now + 1
  /\ UNCHANGED <<mandatory, sender_now, msg, result, refused_at>>

ContentNext ==
  \/ msg = {} /\ \E call \in Requests : encrypt_internal(call)
  \/ \E m \in msg : decrypt(m)
  \/ tick

ContentSpec == ContentInit /\ [][ContentNext]_content_vars

-----------------------------------------------------------------------------
(* Properties *)

(* What encrypt_internal lets through, decrypt accepts from the same tree   *)
(* and under the same group policy, with two exceptions: a message above    *)
(* MAX_GROUP_MESSAGE_SIZE, which the sender does not look at and pays a key *)
(* for, and a disappearing message that is past its time or too far ahead   *)
(* of the receiver's clock.                                                 *)
RoundTrip ==
  \A m \in msg : \A now \in refused_at :
    \/ ~fits(m)
    \/ is_disappearing(m.type) /\ (now > m.sent + m.ttl \/ m.sent > now + SKEW)

(* A message above MAX_GROUP_MESSAGE_SIZE is never shown. *)
OversizedNeverShown == \A r \in result : fits(r.msg)

(* A disappearing message is never shown after its time. *)
NeverShownLate ==
  \A r \in result : is_disappearing(r.msg.type) => r.at <= r.msg.sent + r.msg.ttl

(* In a group that requires franking, every message shown comes with a      *)
(* report that verifies on its own and opens to the hidden content.         *)
ReportsVerify ==
  \A r \in result :
    /\ mandatory => r.franking # {}
    /\ \A d \in r.franking :
         verify_franking(d) /\ (is_sealed(d.type) => reveal_sealed(d) # {})

(* Sender and receiver agree on what a message is: it is read if in time    *)
(* and of a legal size, never otherwise, and with a report that holds.      *)
BothSidesAgree == RoundTrip /\ OversizedNeverShown /\ NeverShownLate /\ ReportsVerify
=============================================================================
