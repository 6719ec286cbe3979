---------------------------- MODULE CallLifecycle ----------------------------
(***************************************************************************)
(* The relay's record of one VoIP call (ActiveCall of src/src/api/relay.rs) *)
(* and what process_voip_signal decides about a signal, as operators on    *)
(* that record.  An Option is a set with at most one element.  Records of   *)
(* different call ids never meet, so one call id is enough.                *)
(***************************************************************************)
EXTENDS Integers

CONSTANTS
  Devices,            \* device ids
  InitTimeout,        \* VOIP_CALL_INIT_TIMEOUT_SECS
  IdleTimeout,        \* VOIP_CALL_ACTIVE_IDLE_TIMEOUT_SECS
  MaxLifetime,        \* VOIP_CALL_MAX_LIFETIME_SECS
  MaxRekeyGeneration  \* u32::MAX

ASSUME LifecycleAssumption ==
  /\ InitTimeout \in Nat
  /\ IdleTimeout \in Nat
  /\ MaxLifetime \in Nat
  /\ MaxRekeyGeneration \in Nat

ActiveCalls ==
  [ caller             : Devices,
    callee             : Devices,
    state              : {"Initiated", "Active", "Rekeying"},
    started_at         : Nat,
    last_activity_at   : Nat,
    rekey_generation   : Nat,
    pending_rekey_from : SUBSET Devices ]

SignalTypes == {"Init", "Accept", "Reject", "End", "Rekey", "RekeyAck"}
Signals == [type : SignalTypes, from : Devices, to : Devices]

new_call(from, to, now) ==
  [ caller             |-> from,
    callee             |-> to,
    state              |-> "Initiated",
    started_at         |-> now,
    last_activity_at   |-> now,
    rekey_generation   |-> 0,
    pending_rekey_from |-> {} ]

\* The subtractions saturate: a negative age never exceeds a limit.
is_expired(c, now) ==
  \/ now - c.started_at > MaxLifetime
  \/ now - c.last_activity_at >
       (IF c.state = "Initiated" THEN InitTimeout ELSE IdleTimeout)

\* validate_call_signal_for_relay: sender and recipient are the two participants.
between_participants(c, s) ==
  \/ s.from = c.caller /\ s.to = c.callee
  \/ s.from = c.callee /\ s.from # c.caller /\ s.to = c.caller

\* The checks of each signal type against the record.
allowed(c, s) ==
  \/ s.type \in {"Accept", "Reject"} /\ s.from = c.callee /\ c.state = "Initiated"
  \/ s.type = "End"
  \/ s.type = "Rekey" /\ c.state = "Active"
  \/ /\ s.type = "RekeyAck"
     /\ c.state = "Rekeying"
     /\ s.from \notin c.pending_rekey_from
     /\ s.to \in c.pending_rekey_from
     /\ c.rekey_generation < MaxRekeyGeneration

\* The record an allowed signal leaves; Reject and End remove it.
after(c, s, now) ==
  CASE s.type = "Accept" ->
         {[c EXCEPT !.state = "Active",
                    !.pending_rekey_from = {},
                    !.last_activity_at = now]}
    [] s.type = "Rekey" ->
         {[c EXCEPT !.state = "Rekeying",
                    !.pending_rekey_from = {s.from},
                    !.last_activity_at = now]}
    [] s.type = "RekeyAck" ->
         {[c EXCEPT !.state = "Active",
                    !.rekey_generation = @ + 1,
                    !.pending_rekey_from = {},
                    !.last_activity_at = now]}
    [] OTHER -> {}
=============================================================================
