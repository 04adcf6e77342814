--------------------------- MODULE MCPlaybackPath ---------------------------
(* PlaybackPath on a ring of four slots: with eight datagrams the ring fills *)
(* up, drops, wraps around, and slot->seq wraps as well.                   *)
EXTENDS PlaybackPath
=============================================================================
