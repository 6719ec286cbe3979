----------------------------- MODULE MCDelivery ------------------------------
(***************************************************************************)
(* What reaches a client through others, for TLC: the commits and messages *)
(* a relay delivers to a group of two that a third client may join, and    *)
(* the chunks of attachments a storage serves.  A behaviour takes one of   *)
(* them and leaves the other as it starts; the fairness of a part is asked *)
(* for in its own behaviours only, where an enabled step can be taken.     *)
(***************************************************************************)
EXTENDS RelayDelivery, Attachment

CONSTANTS a, b, c, t1, t2

VARIABLE part

all_vars == <<part, vars, transfer_vars>>

(* File a (five bytes, three chunks) is declared rightly, with a byte too   *)
(* many, with the size of four chunks, with too few and too many chunks;    *)
(* file b rightly.                                                          *)
Careless == (a :> {<<5, 3>>, <<6, 3>>, <<7, 3>>, <<2, 1>>, <<5, 4>>}) @@ (b :> {<<5, 3>>})
Right == [f \in Files |-> {<<5, 3>>}]

MCTransfers ==
  { [declared |-> Careless, streaming |-> TRUE, threads |-> {}, max_faults |-> 1],
    [declared |-> Right, streaming |-> FALSE, threads |-> Threads, max_faults |-> 2] }

PartInit ==
  /\ part \in {"relay", "attachment"}
  /\ Init /\ TransferInit
  /\ part # "attachment" => transfer = (CHOOSE x \in Transfers : x.threads = {})

PartNext ==
  \/ part = "relay" /\ Next /\ UNCHANGED <<part, transfer_vars>>
  \/ part = "attachment" /\ TransferNext /\ UNCHANGED <<part, vars>>

RelayFairness ==
  LET goes_on(A) == part = "relay" /\ A /\ UNCHANGED <<part, transfer_vars>>
  IN  \A d \in Clients : /\ WF_all_vars(goes_on(process_event(d)))
                         /\ WF_all_vars(goes_on(handle_commit(d)))
                         /\ WF_all_vars(goes_on(handle_message(d)))

DownloadFairness ==
  LET goes_on(A) == part = "attachment" /\ A /\ UNCHANGED <<part, transfer, vars>>
  IN  /\ WF_all_vars(goes_on(\E f \in Files : decrypt_file_key(f, f)))
      /\ WF_all_vars(goes_on(\E f \in Files : progress_create(f)))
      /\ \A t \in Threads : WF_all_vars(goes_on(t \in transfer.threads /\ thread_step(t)))

PartSpec == PartInit /\ [][PartNext]_all_vars /\ RelayFairness /\ DownloadFairness
=============================================================================
