---------------------------- MODULE PlaybackPath ----------------------------
(***************************************************************************)
(* AOIP_MODE_PLAYBACK: RTP datagrams travel from the socket through the    *)
(* ring to the audio callback.  The network thread is the producer (the    *)
(* playback branch of network_loop in lib/aoip.c), the audio thread the    *)
(* consumer (audio_record_loop and rtpdump_ao_read).                       *)
(*                                                                         *)
(* A datagram is the number of its arrival.  slot[i].data = n and          *)
(* slot[i].len = n mean that the bytes and the byte count in slot i are    *)
(* those of the n-th datagram; 0 is a slot nothing was stored into.        *)
(*                                                                         *)
(* Each action is the code between two accesses to memory the other        *)
(* thread also uses.                                                       *)
(***************************************************************************)
EXTENDS Integers, Sequences, Fence

CONSTANTS SlotNum,      \* DATA_QUEUE_SLOT_NUM
          SeqMod,       \* 0x10000, what slot->seq is counted modulo
          MaxPackets    \* bound: datagrams that arrive in a behaviour

ASSUME PlaybackAssumption ==
  /\ SlotNum \in Nat
  /\ SlotNum >= 2
  /\ \E k \in 1..31 : SlotNum = 2^k
  /\ SeqMod \in Nat \ {0}
  /\ MaxPackets \in Nat

VARIABLES head, tail,   \* the ring's indices
          slot,         \* the slots, as the other thread sees them
          wbuf,         \* the producer's stores it may not see yet
          net_pc,       \* where the network thread is
          audio_pc,     \* where the audio thread is
          seq,          \* network_loop's counter of accepted packets
          arrived,      \* datagrams received so far
          dropped,      \* those that found the ring full
          got,          \* what the audio callback has read of slot[tail]
          dumped,       \* what it has put in the file, in order
          taken         \* history: the slots given back, as they then were

vars == <<head, tail, slot, wbuf, net_pc, audio_pc, seq, arrived, dropped, got,
          dumped, taken>>

netVars == <<net_pc, seq, arrived, dropped>>
audioVars == <<audio_pc, got, dumped, taken>>

(* What a member of a slot can hold. *)
Value == 0 .. MaxPackets + SeqMod

Packet == [Field -> Value]

Ring == INSTANCE Queue WITH out <- taken, Blank <- Cleared

-----------------------------------------------------------------------------
Init ==
  /\ Ring!aoip_queue_init
  /\ wbuf = {}
  /\ net_pc = "recv"
  /\ audio_pc = "idle"
  /\ seq = 0
  /\ arrived = 0
  /\ dropped = {}
  /\ got = Cleared
  /\ dumped = <<>>
  /\ taken = <<>>

(***************************************************************************)
(* Network thread.                                                         *)
(***************************************************************************)

(* recv() puts the next datagram straight into slot[head], before anyone   *)
(* looked whether the ring is full.                                        *)
Recv ==
  /\ net_pc = "recv"
  /\ arrived < MaxPackets
  /\ arrived' = arrived + 1
  /\ wbuf' = Store(wbuf, head, "data", arrived')
  /\ net_pc' = "check"
  /\ UNCHANGED <<head, tail, slot, seq, dropped, audioVars>>

(* Not full: the slot's other members are filled in. *)
FillSlot ==
  /\ net_pc = "check"
  /\ ~Ring!queue_full
  /\ wbuf' = Store(Store(wbuf, head, "len", arrived), head, "seq", seq)
  /\ seq' = (seq + 1) % SeqMod
  /\ net_pc' = "publish"
  /\ UNCHANGED <<head, tail, slot, arrived, dropped, audioVars>>

(* Mutated form: the counter also counts packets that are dropped. *)
DropPacket_numbered ==
  /\ net_pc = "check"
  /\ Ring!queue_full
  /\ dropped' = dropped \cup {arrived}
  /\ net_pc' = "recv"
  /\ seq' = (seq + 1) % SeqMod
  /\ UNCHANGED <<head, tail, slot, wbuf, arrived, audioVars>>

(* Full: the datagram is dropped. *)
DropPacket ==
  /\ net_pc = "check"
  /\ Ring!queue_full
  /\ dropped' = dropped \cup {arrived}
  /\ net_pc' = "recv"
  /\ UNCHANGED <<head, tail, slot, wbuf, seq, arrived, audioVars>>

Publish ==
  /\ net_pc = "publish"
  /\ wmb(wbuf)
  /\ Ring!queue_write_next
  /\ net_pc' = "recv"
  /\ UNCHANGED <<tail, slot, wbuf, seq, arrived, dropped, audioVars>>

(* A store of the network thread becomes visible. *)
StoreVisible ==
  /\ \E w \in wbuf : slot' = Drained(slot, w) /\ wbuf' = wbuf \ {w}
  /\ UNCHANGED <<head, tail, netVars, audioVars>>

(* network_loop is left at the test of network_stop_flag, or for one of    *)
(* the reasons NetworkLoop models.                                         *)
NetworkEnds ==
  /\ net_pc = "recv"
  /\ net_pc' = "stopped"
  /\ UNCHANGED <<head, tail, slot, wbuf, seq, arrived, dropped, audioVars>>

(***************************************************************************)
(* Audio thread: rtpdump_ao_read.                                          *)
(***************************************************************************)

AoReadLen ==
  /\ audio_pc = "idle"
  /\ ~Ring!queue_empty
  /\ got' = [got EXCEPT !["len"] = slot[tail]["len"]]
  /\ audio_pc' = "data"
  /\ UNCHANGED <<head, tail, slot, wbuf, netVars, dumped, taken>>

(* The slot's bytes are read and written to the file (RtpDump has which    *)
(* bytes).  A failed write() does not end the copying; it makes the        *)
(* callback return -1 afterwards.                                          *)
AoReadData ==
  /\ audio_pc = "data"
  /\ got' = [got EXCEPT !["data"] = slot[tail]["data"]]
  /\ audio_pc' \in {"next", "next_failed"}
  /\ UNCHANGED <<head, tail, slot, wbuf, netVars, dumped, taken>>

(* The slot is given back.  After a failure audio_record_loop breaks out   *)
(* of its loop and the thread ends.                                        *)
AoReadNext ==
  /\ audio_pc \in {"next", "next_failed"}
  /\ Ring!queue_read_next
  /\ dumped' = Append(dumped, got)
  /\ taken' = Append(taken, Ring!queue_read_ptr)
  /\ audio_pc' = IF audio_pc = "next" THEN "idle" ELSE "stopped"
  /\ UNCHANGED <<head, slot, wbuf, netVars, got>>

(* audio_record_loop sees audio_stop_flag. *)
AudioEnds ==
  /\ audio_pc = "idle"
  /\ audio_pc' = "stopped"
  /\ UNCHANGED <<head, tail, slot, wbuf, netVars, got, dumped, taken>>

-----------------------------------------------------------------------------
Network == Recv \/ FillSlot \/ DropPacket \/ Publish \/ NetworkEnds
Audio == AoReadLen \/ AoReadData \/ AoReadNext

Next == Network \/ StoreVisible \/ Audio \/ AudioEnds

(* Both threads are scheduled and stores do not stay invisible for ever;   *)
(* that a datagram arrives is not assumed.                                 *)
Fairness ==
  /\ WF_vars(FillSlot \/ DropPacket \/ Publish)
  /\ WF_vars(StoreVisible)
  /\ WF_vars(Audio)

Spec == Init /\ [][Next]_vars

FairSpec == Spec /\ Fairness

-----------------------------------------------------------------------------
TypeOK ==
  /\ Ring!TypeOK
  /\ wbuf \subseteq [at : {head}, field : Field, val : Value]
  /\ net_pc \in {"recv", "check", "publish", "stopped"}
  /\ audio_pc \in {"idle", "data", "next", "next_failed", "stopped"}
  /\ seq \in 0 .. SeqMod - 1
  /\ arrived \in 0 .. MaxPackets
  /\ dropped \subseteq 1 .. arrived
  /\ got \in Packet
  /\ dumped \in Seq(Packet)

(* The packets that were accepted, oldest first. *)
Accepted == taken \o Ring!Contents

InFlight == IF net_pc \in {"check", "publish"} THEN {arrived} ELSE {}

(* The audio callback never sees a torn slot: the bytes it dumps are those *)
(* of one datagram, under that datagram's length, and of the slot it then  *)
(* gives back - although recv() stores into slot[head] without looking     *)
(* whether the ring is full, and the threads share the slots without a     *)
(* lock.                                                                   *)
DumpedWhole ==
  /\ Len(dumped) = Len(taken)
  /\ \A k \in 1..Len(dumped) :
       /\ dumped[k]["data"] = dumped[k]["len"]
       /\ dumped[k]["data"] = taken[k]["data"]

(* Every datagram that arrived is in exactly one place: on its way through *)
(* network_loop, dropped because the ring was full, in the ring or dumped; *)
(* accepted ones keep the order of arrival, and slot->seq numbers them     *)
(* without gap or repetition however many were dropped between them.       *)
PacketAccounting ==
  LET ids == {Accepted[k]["data"] : k \in 1..Len(Accepted)}
  IN  /\ ids \cup dropped \cup InFlight = 1..arrived
      /\ ids \cap dropped = {} /\ InFlight \cap (ids \cup dropped) = {}
      /\ \A k \in 1..Len(Accepted) : Accepted[k]["seq"] = (k - 1) % SeqMod
      /\ \A k \in 1..Len(Accepted) - 1 :
           Accepted[k]["data"] < Accepted[k + 1]["data"]

(* The two threads keep to the discipline of Queue, hence the path is a    *)
(* FIFO of whole packets.                                                  *)
RingSpec == Ring!Spec

(* A packet that was published is dumped, unless the audio thread ends;    *)
(* whether the network thread is still running does not matter.            *)
PublishedIsDumped ==
  \A n \in 1..MaxPackets :
    (\E k \in 1..Ring!Count : Ring!Contents[k]["data"] = n)
      ~> (audio_pc = "stopped" \/ \E k \in 1..Len(dumped) : dumped[k]["data"] = n)
=============================================================================
