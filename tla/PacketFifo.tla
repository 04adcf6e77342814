----------------------------- MODULE PacketFifo -----------------------------
(***************************************************************************)
(* What the ring of include/aoip/queue.h promises its two threads: a FIFO  *)
(* of whole packets with a fixed capacity.  Put is the producer making one *)
(* packet visible, Get the consumer taking the oldest one.                 *)
(***************************************************************************)
EXTENDS Integers, Sequences

CONSTANTS Packet,    \* what a slot can hold
          Capacity   \* how many packets fit

VARIABLES buffer,    \* packets put and not yet taken, oldest first
          out        \* packets taken, in the order they were taken

vars == <<buffer, out>>

Init == buffer = <<>> /\ out = <<>>

Put(p) ==
  /\ Len(buffer) < Capacity
  /\ buffer' = Append(buffer, p)
  /\ UNCHANGED out

Get ==
  /\ buffer # <<>>
  /\ out' = Append(out, Head(buffer))
  /\ buffer' = Tail(buffer)

Next == (\E p \in Packet : Put(p)) \/ Get

Spec == Init /\ [][Next]_vars
=============================================================================
