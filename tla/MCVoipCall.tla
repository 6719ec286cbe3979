----------------------------- MODULE MCVoipCall ------------------------------
EXTENDS VoipCall

Use(parties, ended, restored, losses, media, exchanges, timestamps) ==
  [ initiators |-> parties, ends |-> ended, restarts |-> restored, max_losses |-> losses,
    max_frames |-> media, max_exchanges |-> exchanges, max_timestamp |-> timestamps ]

MCScenarios ==
  { Use({"caller"}, TRUE, TRUE, 0, 3, 1, 0),    \* media past the replay window
    Use({"caller"}, FALSE, TRUE, 0, 3, 2, 0),   \* media and one rekey of the caller
    Use(Parties, TRUE, FALSE, 1, 0, 2, 0),      \* rekeys of both sides, crossing or lost
    Use(Parties, FALSE, TRUE, 0, 1, 2, 0),      \* rekeys of both sides, media and restores
    Use({"caller"}, FALSE, TRUE, 1, 0, 3, 0),   \* two rekeys in a row, signals lost
    Use({"caller"}, FALSE, TRUE, 0, 0, 1, 2) }  \* recording consents
=============================================================================
