---------------------------- MODULE EpochRotation ----------------------------
(***************************************************************************)
(* Threads that share one group session and send with                      *)
(* encrypt_with_auto_rotate (group/mod.rs).  The call takes the session's  *)
(* lock three times: to see whether the epoch should be rotated, to rotate *)
(* it, and to encrypt.                                                     *)
(***************************************************************************)
EXTENDS Integers, FiniteSets

CONSTANTS
  Callers,
  MaxMessages,   \* effective_max_messages_per_epoch
  Percent,       \* SENDER_KEY_EXHAUSTION_WARNING_PERCENT
  MaxEpoch,      \* bound: rotations
  CallsEach      \* bound: calls per thread

ASSUME RotationAssumption ==
  /\ MaxMessages \in Nat \ {0} /\ Percent \in 1..100 /\ MaxEpoch \in Nat /\ CallsEach \in Nat
  /\ IsFiniteSet(Callers)

VARIABLES
  epoch, generation,  \* the session's epoch and own chain
  pc,                 \* pc[t]: where thread t is between two locks
  calls,              \* calls[t]: calls made
  failed              \* threads that got "Epoch rotation required" (history)

rotation_vars == <<epoch, generation, pc, calls, failed>>

compute_rotation_threshold == (MaxMessages * Percent + 99) \div 100

(* SENDER_KEY_EXHAUSTION_WARNING_PERCENT is 10, SHIELD_MIN_MESSAGES_PER_EPOCH *)
(* too: a new epoch starts above the threshold.                              *)
ASSUME ThresholdAssumption == compute_rotation_threshold < MaxMessages

remaining == IF generation <= MaxMessages THEN MaxMessages - generation ELSE 0

(* Defect: the threshold itself is not enough. *)
should_rotate_epoch_below == remaining < compute_rotation_threshold

should_rotate_epoch == remaining <= compute_rotation_threshold

RotationInit ==
  /\ epoch = 0 /\ generation = 0
  /\ pc = [t \in Callers |-> "idle"] /\ calls = [t \in Callers |-> 0]
  /\ failed = {}

encrypt_with_auto_rotate(t) ==
  /\ pc[t] = "idle" /\ calls[t] < CallsEach
  /\ pc' = [pc EXCEPT ![t] = IF should_rotate_epoch THEN "rotate" ELSE "encrypt"]
  /\ calls' = [calls EXCEPT ![t] = @ + 1]
  /\ UNCHANGED <<epoch, generation, failed>>

(* update(): a new epoch with new chains, whoever asked for it. *)
rotate_epoch_if_needed(t) ==
  /\ pc[t] = "rotate" /\ epoch < MaxEpoch
  /\ epoch' = epoch + 1 /\ generation' = 0
  /\ pc' = [pc EXCEPT ![t] = "encrypt"]
  /\ UNCHANGED <<calls, failed>>

encrypt_in_epoch(t) ==
  /\ pc[t] = "encrypt"
  /\ IF generation >= MaxMessages
     THEN failed' = failed \cup {t} /\ generation' = generation
     ELSE generation' = generation + 1 /\ failed' = failed
  /\ pc' = [pc EXCEPT ![t] = "idle"]
  /\ UNCHANGED <<epoch, calls>>

RotationNext ==
  \E t \in Callers :
    encrypt_with_auto_rotate(t) \/ rotate_epoch_if_needed(t) \/ encrypt_in_epoch(t)

RotationSpec == RotationInit /\ [][RotationNext]_rotation_vars

-----------------------------------------------------------------------------
(* Properties *)

(* As many threads as the threshold allows for never run into the limit of  *)
(* the epoch, although each decides with a count that others have changed   *)
(* by the time it encrypts.                                                 *)
NeverExhausted == Cardinality(Callers) <= compute_rotation_threshold + 1 => failed = {}
=============================================================================
