---------------------------- MODULE MCRecordPath ----------------------------
(* RecordPath on a ring of four slots; the six blocks fill it, wrap it and *)
(* wrap slot->seq.  The scaled clocks keep the code's proportions: a small *)
(* TsMask below a larger TsMod, and 0 among the values tstamp can take.    *)
EXTENDS RecordPath
=============================================================================
