----------------------------- MODULE FfiHandle -----------------------------
(***************************************************************************)
(* The life of a call through the C interface (ffi/api.rs): the busy flag   *)
(* of a handle, the Option inside it, the mutex inside a session or a       *)
(* group, panics caught at the boundary, and event callbacks that call      *)
(* back into the library.                                                   *)
(*                                                                          *)
(* A call occupies a slot <<t, d>>: the call thread t makes directly has    *)
(* d = 1, the one it makes from inside a callback of the call at d - 1 has  *)
(* the next d.  A slot walks through "entry" (arguments checked), "held"    *)
(* (the busy flag is this call's), "inner" (it has the reference it asked   *)
(* for), "locked" (it is inside the mutex) and "callback" (it waits for the *)
(* application), and is "idle" between calls.                               *)
(***************************************************************************)
EXTENDS Naturals, FiniteSets

CONSTANTS
    Threads,      \* threads of the application
    MaxDepth,     \* a callback may call the library down to this depth
    Handles,      \* live handles of the application
    Kind,         \* [Handles -> Kinds]
    Reentrant,    \* the operations the application uses inside a callback
    MaxCalls      \* bound: direct and nested calls of the application

Kinds == {"identity", "session", "group", "stream"}

ASSUME KindAssumption == Kind \in [Handles -> Kinds]
ASSUME DepthAssumption == MaxDepth \in Nat \ {0}
ASSUME HandleAssumption == Handles # {}

Slots == Threads \X (1..MaxDepth)

(***************************************************************************)
(* start:  identity functions that first clone the clock under the flag and *)
(*         then take the flag again (handshake start, group create, join)   *)
(* call:   the other guarded functions of an identity, a session or a group *)
(* read:   the guarded getters of a session for what is fixed when it is    *)
(*         made (id, identities, binding hash), which enter a poisoned      *)
(*         mutex by PoisonError::into_inner                                 *)
(* get:    aura_session_is_expired, aura_group_get_epoch,                   *)
(*         get_my_leaf_index and get_member_count, without the busy flag    *)
(* write, finish: the streaming encryptor                                   *)
(***************************************************************************)
Ops(k) == CASE k = "identity" -> {"start", "call"}
            [] k = "session"  -> {"call", "read", "get"}
            [] k = "group"    -> {"call", "get"}
            [] k = "stream"   -> {"write", "finish"}

Guarded == {"start", "call", "read", "write", "finish"}
Codes == {"Answered", "Busy", "ObjectDisposed", "InvalidState", "Generic", "Default", "None"}
has_mutex(h) == Kind[h] \in {"session", "group"}
Places == {"idle", "entry", "held", "inner", "locked", "callback"}

VARIABLES
    in_use,     \* [Handles -> BOOLEAN], the AtomicBool
    some,       \* [Handles -> BOOLEAN], inner is Some
    owner,      \* [Handles -> SUBSET Slots], who is inside the mutex
    poisoned,   \* [Handles -> BOOLEAN], of the mutex
    torn,       \* [Handles -> BOOLEAN], a panic left the object half changed
    consumed,   \* [Handles -> Nat], objects taken out of the handle
    at,         \* [Slots -> Places]
    job,        \* [Slots -> [op, h]], what the slot's call is
    ret,        \* [Slots -> Codes], what the slot's last call returned
    made        \* calls made so far

shared == <<in_use, some, owner, poisoned, torn, consumed>>
handles_vars == <<in_use, some, owner, poisoned, torn, consumed, at, job, ret, made>>

Jobs == [op : {"start", "call", "read", "get", "write", "finish"}, h : Handles]

HandlesTypeOK ==
    /\ in_use \in [Handles -> BOOLEAN] /\ some \in [Handles -> BOOLEAN]
    /\ owner \in [Handles -> SUBSET Slots]
    /\ poisoned \in [Handles -> BOOLEAN] /\ torn \in [Handles -> BOOLEAN]
    /\ consumed \in [Handles -> Nat]
    /\ at \in [Slots -> Places] /\ job \in [Slots -> Jobs]
    /\ ret \in [Slots -> Codes] /\ made \in Nat

HandlesInit ==
    /\ in_use = [h \in Handles |-> FALSE] /\ some = [h \in Handles |-> TRUE]
    /\ owner = [h \in Handles |-> {}]
    /\ poisoned = [h \in Handles |-> FALSE] /\ torn = [h \in Handles |-> FALSE]
    /\ consumed = [h \in Handles |-> 0]
    /\ at = [c \in Slots |-> "idle"]
    /\ job = [c \in Slots |-> [op |-> "get", h |-> CHOOSE h \in Handles : TRUE]]
    /\ ret = [c \in Slots |-> "None"]
    /\ made = 0

-----------------------------------------------------------------------------
(* The application. *)

(* The innermost call of the thread: nothing nested below it is running. *)
Innermost(c) == at[c] # "idle" /\ \A d \in Slots :
                   d[1] = c[1] /\ d[2] > c[2] => at[d] = "idle"

(* A thread calls the library when it is outside it, or from inside a       *)
(* callback.                                                                *)
MayCall(c, op) ==
    /\ at[c] = "idle"
    /\ c[2] > 1 => at[<<c[1], c[2] - 1>>] = "callback" /\ op \in Reentrant

Call(c, op, h) ==
    /\ made < MaxCalls /\ made' = made + 1
    /\ op \in Ops(Kind[h]) /\ MayCall(c, op)
    /\ at' = [at EXCEPT ![c] = "entry"]
    /\ job' = [job EXCEPT ![c] = [op |-> op, h |-> h]]
    /\ UNCHANGED <<in_use, some, owner, poisoned, torn, consumed, ret>>

(* The callback is done; a panic in it is swallowed by invoke_c_callback!.  *)
invoke_c_callback_returns(c) ==
    /\ Innermost(c) /\ at[c] = "callback"
    /\ at' = [at EXCEPT ![c] = IF has_mutex(job[c].h) THEN "locked" ELSE "inner"]
    /\ UNCHANGED <<in_use, some, owner, poisoned, torn, consumed, job, ret, made>>

-----------------------------------------------------------------------------
(* The library. *)

Goes(c, place) == at' = [at EXCEPT ![c] = place] /\ UNCHANGED <<job, ret, made>>
Returns(c, code) == /\ at' = [at EXCEPT ![c] = "idle"]
                    /\ ret' = [ret EXCEPT ![c] = code]
                    /\ UNCHANGED <<job, made>>

(* Mutants of try_acquire_busy: a store that tests nothing, and a flag that *)
(* is waited for.                                                           *)
store_busy(c, h) ==
    in_use' = [in_use EXCEPT ![h] = TRUE] /\ Goes(c, "held")


(* compare_exchange(false, true): the flag becomes this call's, or the call *)
(* returns AURA_ERROR_BUSY; it never waits.                                 *)
try_acquire_busy(c, h) ==
    \/ /\ ~in_use[h]
       /\ in_use' = [in_use EXCEPT ![h] = TRUE]
       /\ Goes(c, "held")
    \/ /\ in_use[h]
       /\ Returns(c, "Busy")
       /\ UNCHANGED in_use

Acquire(c) ==
    /\ Innermost(c) /\ at[c] = "entry" /\ job[c].op \in Guarded
    /\ try_acquire_busy(c, job[c].h)
    /\ UNCHANGED <<some, owner, poisoned, torn, consumed>>

(* BusyGuard's drop. *)
DropGuard(h) == in_use' = [in_use EXCEPT ![h] = FALSE]

(* An identity function clones the clock under the flag, lets the flag go   *)
(* and comes back for it like any other call: in between the handle is      *)
(* anybody's.                                                               *)
clone_identity_time_provider(c) ==
    /\ Innermost(c) /\ at[c] = "held" /\ job[c].op = "start"
    /\ some[job[c].h]
    /\ DropGuard(job[c].h)
    /\ at' = [at EXCEPT ![c] = "entry"]
    /\ job' = [job EXCEPT ![c] = [op |-> "call", h |-> job[c].h]]
    /\ UNCHANGED <<some, owner, poisoned, torn, consumed, ret, made>>

(* inner is None: the error is returned and the guard is dropped. *)
Disposed(c) ==
    /\ Innermost(c) /\ at[c] = "held" /\ ~some[job[c].h]
    /\ DropGuard(job[c].h)
    /\ Returns(c, "ObjectDisposed")
    /\ UNCHANGED <<some, owner, poisoned, torn, consumed>>

(* require_session_mut, require_group_mut, require_identity_mut and the     *)
(* streaming write: inner is Some, and that is all they look at.            *)
require_mut(c) ==
    /\ Innermost(c) /\ at[c] = "held" /\ some[job[c].h]
    /\ job[c].op \in {"call", "read", "write"}
    /\ Goes(c, "inner")
    /\ UNCHANGED shared

(* The streaming finish takes the encryptor out of the handle, whatever     *)
(* finishing it then says.                                                  *)
take_inner(c) ==
    /\ Innermost(c) /\ at[c] = "held" /\ some[job[c].h] /\ job[c].op = "finish"
    /\ some' = [some EXCEPT ![job[c].h] = FALSE]
    /\ consumed' = [consumed EXCEPT ![job[c].h] = consumed[job[c].h] + 1]
    /\ Goes(c, "inner")
    /\ UNCHANGED <<in_use, owner, poisoned, torn>>

(* group_ref_or_none and aura_session_is_expired: these getters take a      *)
(* reference without the flag.                                              *)
group_ref_or_none(c) ==
    /\ Innermost(c) /\ at[c] = "entry" /\ job[c].op = "get"
    /\ IF some[job[c].h] THEN Goes(c, "inner") ELSE Returns(c, "Default")
    /\ UNCHANGED shared

(* self.inner.lock(): waits for the holder; poisoned is InvalidState, which *)
(* a getter without the flag turns into its default value and a guarded     *)
(* getter of a session ignores.                                             *)
NeedsLock(c) == at[c] = "inner" /\ has_mutex(job[c].h)

(* Mutant of lock: a poisoned mutex is entered all the same. *)
lock_into_inner(c) ==
    /\ Innermost(c) /\ NeedsLock(c) /\ owner[job[c].h] = {}
    /\ owner' = [owner EXCEPT ![job[c].h] = {c}]
    /\ Goes(c, "locked")
    /\ UNCHANGED <<in_use, some, poisoned, torn, consumed>>

refuses_poison(c) == poisoned[job[c].h] /\ job[c].op # "read"

lock(c) ==
    /\ Innermost(c) /\ NeedsLock(c) /\ owner[job[c].h] = {}
    /\ \/ /\ refuses_poison(c)
          /\ Returns(c, IF job[c].op = "get" THEN "Default" ELSE "InvalidState")
          /\ IF job[c].op = "get" THEN UNCHANGED in_use ELSE DropGuard(job[c].h)
          /\ UNCHANGED owner
       \/ /\ ~refuses_poison(c)
          /\ owner' = [owner EXCEPT ![job[c].h] = {c}]
          /\ Goes(c, "locked")
          /\ UNCHANGED in_use
    /\ UNCHANGED <<some, poisoned, torn, consumed>>

Working(c) == /\ Innermost(c)
              /\ at[c] = IF has_mutex(job[c].h) THEN "locked" ELSE "inner"

(* An event handler of a group or a session runs inside the mutex, that of  *)
(* an identity outside its lock; both inside the busy flag.                 *)
Notify(c) ==
    /\ Working(c) /\ job[c].op = "call"
    /\ Goes(c, "callback")
    /\ UNCHANGED shared

(* The function returns: the mutex guard and the busy guard are dropped. *)
Finish(c) ==
    /\ Working(c)
    /\ owner' = [owner EXCEPT ![job[c].h] = owner[job[c].h] \ {c}]
    /\ IF job[c].op = "get" THEN UNCHANGED in_use ELSE DropGuard(job[c].h)
    /\ Returns(c, "Answered")
    /\ UNCHANGED <<some, poisoned, torn, consumed>>

(* A panic unwinds to ffi_catch_panic!, dropping both guards on its way:    *)
(* the mutex is poisoned, inner stays Some, and the object may be half      *)
(* changed.  finish owns what it took.                                      *)
Panic(c) ==
    /\ Working(c) /\ job[c].op \notin {"get", "read"}
    /\ owner' = [owner EXCEPT ![job[c].h] = owner[job[c].h] \ {c}]
    /\ poisoned' = [poisoned EXCEPT ![job[c].h] =
                      poisoned[job[c].h] \/ has_mutex(job[c].h)]
    /\ torn' = [torn EXCEPT ![job[c].h] = torn[job[c].h] \/ job[c].op # "finish"]
    /\ DropGuard(job[c].h)
    /\ Returns(c, "Generic")
    /\ UNCHANGED <<some, consumed>>

Library(c) ==
    \/ Acquire(c) \/ clone_identity_time_provider(c) \/ Disposed(c)
    \/ require_mut(c) \/ take_inner(c) \/ group_ref_or_none(c) \/ lock(c)
    \/ Finish(c)

HandlesNext ==
    \E c \in Slots :
        \/ \E h \in Handles : \E op \in Ops(Kind[h]) : Call(c, op, h)
        \/ invoke_c_callback_returns(c)
        \/ Library(c)
        \/ Notify(c)
        \/ Panic(c)

HandlesSpec == HandlesInit /\ [][HandlesNext]_handles_vars

(***************************************************************************)
(* A call inside the library is run to its end by its thread, callbacks     *)
(* return, and a call emits finitely many events: it does not notify for    *)
(* ever without finishing.                                                  *)
(***************************************************************************)
Fairness ==
    \A c \in Slots : /\ WF_handles_vars(Library(c) \/ invoke_c_callback_returns(c))
                     /\ SF_handles_vars(Finish(c))

HandlesFairSpec == HandlesSpec /\ Fairness

-----------------------------------------------------------------------------
(* A call that is past try_acquire_busy and has not dropped its guard. *)
Holds(c, h) == /\ job[c].h = h /\ job[c].op \in Guarded
               /\ at[c] \in {"held", "inner", "locked", "callback"}

(***************************************************************************)
(* Two calls never hold the mutable reference of one handle at a time, over *)
(* all threads and over the calls a callback nests in another call.         *)
(***************************************************************************)
OneHolder ==
    \A h \in Handles : \A c, d \in Slots : Holds(c, h) /\ Holds(d, h) => c = d

(***************************************************************************)
(* The busy flag is up exactly while some call holds it: no early return,   *)
(* no disposed object, no poisoned mutex and no panic leaves a handle busy, *)
(* and none lowers the flag under another call.                             *)
(***************************************************************************)
FlagIsHeld ==
    \A h \in Handles : in_use[h] <=> \E c \in Slots : Holds(c, h)

(***************************************************************************)
(* The object of a streaming handle is taken out of it at most once, so one *)
(* file is finished once however finish, write and panics interleave.       *)
(***************************************************************************)
ConsumedOnce == \A h \in Handles : consumed[h] <= 1

(* The call in slot c returns code in this step. *)
ReturnsNow(c, code) == at[c] # "idle" /\ at'[c] = "idle" /\ ret'[c] = code

(***************************************************************************)
(* What a panic left half changed inside a session or a group is never      *)
(* answered from again, by a guarded function or by a getter without the    *)
(* flag: the mutex's poison outlives the panic.  The guarded getters of a   *)
(* session do answer, from fields no call changes (Session::get_session_id  *)
(* and its kin).                                                            *)
(***************************************************************************)
TornNeverAnswers ==
    [][\A c \in Slots :
         ReturnsNow(c, "Answered") /\ has_mutex(job[c].h) /\ job[c].op # "read"
           => ~torn[job[c].h]]_handles_vars

(***************************************************************************)
(* Every call returns: one that finds the handle in use is refused, not     *)
(* waited for.  The getters without the flag go straight to the mutex that  *)
(* a callback's own call holds, so this needs a Reentrant without "get".    *)
(***************************************************************************)
EveryCallReturns == \A c \in Slots : []<>(at[c] = "idle")
=============================================================================
