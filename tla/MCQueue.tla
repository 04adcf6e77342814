------------------------------ MODULE MCQueue -------------------------------
(***************************************************************************)
(* Queue with a bound on how many packets are published.                   *)
(***************************************************************************)
EXTENDS Queue

CONSTANT MaxPublished   \* packets published in a behaviour

MCPublish == Len(out) + Count < MaxPublished /\ Publish

MCNext == (\E p \in Packet : Fill(p)) \/ MCPublish \/ Consume

MCSpec == Init /\ [][MCNext]_vars
=============================================================================
