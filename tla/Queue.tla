------------------------------- MODULE Queue --------------------------------
(***************************************************************************)
(* The ring between the network thread and the audio thread                *)
(* (include/aoip/queue.h, aoip_queue_init in lib/aoip.c).  One thread      *)
(* writes slot[head] and advances head, the other reads slot[tail] and     *)
(* advances tail; there is no lock.                                        *)
(*                                                                         *)
(* The operators carry the names of the inline functions.  Spec is the     *)
(* discipline under which the ring is a FIFO: the producer may store       *)
(* anything into slot[head] at any time, and advances head only when it    *)
(* saw the ring not full; the consumer takes slot[tail] only when it saw   *)
(* the ring not empty.  PlaybackPath and RecordPath show that the threads  *)
(* of the program keep to it.                                              *)
(***************************************************************************)
EXTENDS Integers, Sequences

CONSTANTS SlotNum,   \* DATA_QUEUE_SLOT_NUM, 512 in the code
          Packet,    \* what a slot can hold
          Blank      \* a slot as aoip_queue_init leaves it

(***************************************************************************)
(* The code indexes with "& mask", mask = DATA_QUEUE_SLOT_NUM - 1, which   *)
(* is the remainder modulo SlotNum only for a power of two.                *)
(***************************************************************************)
ASSUME SlotNumAssumption ==
  /\ SlotNum \in Nat
  /\ SlotNum >= 2
  /\ \E k \in 1..31 : SlotNum = 2^k

ASSUME BlankAssumption == Blank \in Packet

VARIABLES head,   \* write point
          tail,   \* read point
          slot,   \* the slots, each with the packet stored in it
          out     \* history: the packets taken, in order

vars == <<head, tail, slot, out>>

Index == 0 .. SlotNum - 1

-----------------------------------------------------------------------------
(* Mutated forms of the definitions below: what a slip in the code would   *)
(* be.  Nothing but the mutation of a model refers to them.                *)
queue_full_without_gap == FALSE
queue_write_next_unmasked == head' = head + 1
queue_read_next_twice == tail' = (tail + 2) % SlotNum

-----------------------------------------------------------------------------
queue_empty == head = tail

queue_full == (head + 1) % SlotNum = tail

queue_read_next == tail' = (tail + 1) % SlotNum

queue_write_next == head' = (head + 1) % SlotNum

queue_read_ptr == slot[tail]

aoip_queue_init ==
  /\ head = 0
  /\ tail = 0
  /\ slot = [i \in Index |-> Blank]

-----------------------------------------------------------------------------
Init == aoip_queue_init /\ out = <<>>

(* The producer stores into the slot behind queue_write_ptr. *)
Fill(p) ==
  /\ slot' = [slot EXCEPT ![head] = p]
  /\ UNCHANGED <<head, tail, out>>

Publish ==
  /\ ~queue_full
  /\ queue_write_next
  /\ UNCHANGED <<tail, slot, out>>

Consume ==
  /\ ~queue_empty
  /\ out' = Append(out, queue_read_ptr)
  /\ queue_read_next
  /\ UNCHANGED <<head, slot>>

Next == (\E p \in Packet : Fill(p)) \/ Publish \/ Consume

Spec == Init /\ [][Next]_vars

-----------------------------------------------------------------------------
(* How many packets are published and not taken, and where the j-th of     *)
(* them (counting from 0) sits.                                            *)
Count == IF tail <= head THEN head - tail ELSE head - tail + SlotNum

At(j) == IF tail + j < SlotNum THEN tail + j ELSE tail + j - SlotNum

Contents == [j \in 1..Count |-> slot[At(j - 1)]]

(* head and tail stay inside the ring and every slot holds a packet.       *)
TypeOK ==
  /\ head \in Index
  /\ tail \in Index
  /\ slot \in [Index -> Packet]
  /\ out \in Seq(Packet)

Fifo == INSTANCE PacketFifo WITH buffer <- Contents, Capacity <- SlotNum - 1

(* The ring is a FIFO of SlotNum - 1 whole packets: what queue_read_ptr    *)
(* hands out is what was published, each packet once, in the order of      *)
(* publication, whatever the producer stores into the slot under head      *)
(* meanwhile - in particular when it stores there before it looks at       *)
(* queue_full, as the playback branch of network_loop does.                *)
FifoSpec == Fifo!Spec
=============================================================================
