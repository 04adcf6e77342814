--------------------------- MODULE MCNetworkLoop ----------------------------
(* NetworkLoop with the code's times in units of half a second: PTP        *)
(* timeout 4 (2 s), Announce timeout 6 (3 s), the range of an int 10 (a    *)
(* little above 4.29 s, and half of it above the PTP timeout).  The 30 s   *)
(* of SAP are brought down to 8.  Two servers, two sequence numbers and    *)
(* two measurements are enough to tell same from different.                *)
EXTENDS NetworkLoop
=============================================================================
