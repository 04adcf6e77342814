----------------------------- MODULE RecordPath -----------------------------
(***************************************************************************)
(* AOIP_MODE_RECORD: audio blocks travel from the audio callback through   *)
(* the ring to the RTP socket.  The audio thread is the producer           *)
(* (audio_playback_loop and tonegen_ao_write), the network thread the      *)
(* consumer (the record branch of network_loop in lib/aoip.c), which       *)
(* stamps the RTP header inside the slot and sends the slot.               *)
(*                                                                         *)
(* A block of audio is the number of its generation; slot[i].data = n says *)
(* that slot i holds block n, 0 that nothing was stored.  The RTP header   *)
(* fields the network thread writes into the slot are read by no other     *)
(* thread: they are the local variables tstamp and hdr here.               *)
(***************************************************************************)
EXTENDS Integers, Sequences, Fence

CONSTANTS SlotNum,      \* DATA_QUEUE_SLOT_NUM
          DataLen,      \* queue->data_len, the length of every packet
          SeqMod,       \* 0x10000, what slot->seq is counted modulo
          Samples,      \* 48, frames in a packet
          TsMask,       \* 0x10000: tstamp is advanced "& 0xffff"
          TsMod,        \* 2^32, the RTP timestamp's own modulus
          ClockTs,      \* RTP timestamps the PTP clock can show
          MaxBlocks     \* bound: blocks generated in a behaviour

ASSUME RecordAssumption ==
  /\ SlotNum \in Nat
  /\ SlotNum >= 2
  /\ \E k \in 1..31 : SlotNum = 2^k
  /\ DataLen \in Nat \ {0}
  /\ SeqMod \in Nat \ {0}
  /\ Samples \in Nat
  /\ TsMask \in Nat \ {0}
  /\ TsMod \in Nat \ {0}
  /\ TsMask <= TsMod
  /\ ClockTs \subseteq 0 .. TsMod - 1
  /\ MaxBlocks \in Nat

VARIABLES head, tail,   \* the ring's indices
          slot,         \* the slots, as the other thread sees them
          wbuf,         \* the producer's stores it may not see yet
          audio_pc,     \* where the audio thread is
          made,         \* blocks generated so far
          seq,          \* audio->seq
          net_pc,       \* where the network thread is
          tstamp,       \* network_loop's RTP timestamp
          hdr,          \* the RTP header fields stamped into slot[tail]
          wire,         \* the packets sendto() accepted, in order
          taken         \* history: the slots given back, as they then were

vars == <<head, tail, slot, wbuf, audio_pc, made, seq, net_pc, tstamp, hdr,
          wire, taken>>

audioVars == <<audio_pc, made, seq>>
netVars == <<net_pc, tstamp, hdr, wire, taken>>

(* What a member of a slot can hold. *)
Value == 0 .. MaxBlocks + SeqMod + DataLen

Packet == [Field -> Value]

Ring == INSTANCE Queue WITH out <- taken, Blank <- Cleared

-----------------------------------------------------------------------------
Init ==
  /\ Ring!aoip_queue_init
  /\ wbuf = {}
  /\ audio_pc = "idle"
  /\ made = 0
  /\ seq = 0
  /\ net_pc = "loop"
  /\ tstamp = 0
  /\ hdr = [seq |-> 0, ts |-> 0]
  /\ wire = <<>>
  /\ taken = <<>>

(***************************************************************************)
(* Audio thread: tonegen_ao_write.                                         *)
(***************************************************************************)

(* Nothing happens when the ring is full. *)
AoWriteSlot ==
  /\ audio_pc = "idle"
  /\ made < MaxBlocks
  /\ ~Ring!queue_full
  /\ made' = made + 1
  /\ wbuf' = Store(Store(Store(wbuf, head, "len", DataLen), head, "seq", seq),
                   head, "data", made')
  /\ seq' = (seq + 1) % SeqMod
  /\ audio_pc' = "publish"
  /\ UNCHANGED <<head, tail, slot, netVars>>

AoWritePublish ==
  /\ audio_pc = "publish"
  /\ wmb(wbuf)
  /\ Ring!queue_write_next
  /\ audio_pc' = "idle"
  /\ UNCHANGED <<tail, slot, wbuf, made, seq, netVars>>

(* A store of the audio thread becomes visible. *)
StoreVisible ==
  /\ \E w \in wbuf : slot' = Drained(slot, w) /\ wbuf' = wbuf \ {w}
  /\ UNCHANGED <<head, tail, audioVars, netVars>>

(* audio_playback_loop sees audio_stop_flag. *)
AudioEnds ==
  /\ audio_pc = "idle"
  /\ audio_pc' = "stopped"
  /\ UNCHANGED <<head, tail, slot, wbuf, made, seq, netVars>>

(***************************************************************************)
(* Network thread.                                                         *)
(***************************************************************************)

(* The timestamp is advanced each time the slot is stamped; 0 stands for   *)
(* "not yet read from the PTP clock".                                      *)
NextTimestamp(t) ==
  IF t # 0 THEN {(t + Samples) % TsMask} ELSE ClockTs

Stamp ==
  /\ net_pc = "loop"
  /\ ~Ring!queue_empty
  /\ tstamp' \in NextTimestamp(tstamp)
  /\ hdr' = [seq |-> Ring!queue_read_ptr["seq"], ts |-> tstamp']
  /\ net_pc' = "send"
  /\ UNCHANGED <<head, tail, slot, wbuf, audioVars, wire, taken>>

SendOk ==
  /\ net_pc = "send"
  /\ wire' = Append(wire, [seq |-> hdr.seq, ts |-> hdr.ts,
                           len |-> Ring!queue_read_ptr["len"],
                           data |-> Ring!queue_read_ptr["data"]])
  /\ net_pc' = "next"
  /\ UNCHANGED <<head, tail, slot, wbuf, audioVars, tstamp, hdr, taken>>

(* Mutated form: the slot is given back although it was not sent. *)
SendAgain_skips ==
  /\ net_pc = "send"
  /\ net_pc' = "next"
  /\ UNCHANGED <<head, tail, slot, wbuf, audioVars, tstamp, hdr, wire, taken>>

(* EAGAIN: "continue"; the slot stays and is stamped anew. *)
SendAgain ==
  /\ net_pc = "send"
  /\ net_pc' = "loop"
  /\ UNCHANGED <<head, tail, slot, wbuf, audioVars, tstamp, hdr, wire, taken>>

(* Any other error breaks out of the loop. *)
SendFails ==
  /\ net_pc = "send"
  /\ net_pc' = "stopped"
  /\ UNCHANGED <<head, tail, slot, wbuf, audioVars, tstamp, hdr, wire, taken>>

ReadNext ==
  /\ net_pc = "next"
  /\ Ring!queue_read_next
  /\ taken' = Append(taken, Ring!queue_read_ptr)
  /\ net_pc' = "loop"
  /\ UNCHANGED <<head, slot, wbuf, audioVars, tstamp, hdr, wire>>

(* network_loop is left at the test of network_stop_flag, or for one of    *)
(* the reasons NetworkLoop models.                                         *)
NetworkEnds ==
  /\ net_pc = "loop"
  /\ net_pc' = "stopped"
  /\ UNCHANGED <<head, tail, slot, wbuf, audioVars, tstamp, hdr, wire, taken>>

-----------------------------------------------------------------------------
Audio == AoWriteSlot \/ AoWritePublish \/ AudioEnds
Network == Stamp \/ SendOk \/ SendAgain \/ SendFails \/ ReadNext \/ NetworkEnds

Next == Audio \/ StoreVisible \/ Network

(* Both threads are scheduled, stores do not stay invisible for ever, and  *)
(* a socket that keeps being tried is not full every time.  That audio is  *)
(* generated is not assumed.                                               *)
Fairness ==
  /\ WF_vars(AoWritePublish)
  /\ WF_vars(StoreVisible)
  /\ WF_vars(Stamp \/ ReadNext)
  /\ SF_vars(SendOk)

Spec == Init /\ [][Next]_vars

FairSpec == Spec /\ Fairness

-----------------------------------------------------------------------------
TypeOK ==
  /\ Ring!TypeOK
  /\ wbuf \subseteq [at : {head}, field : Field, val : Value]
  /\ audio_pc \in {"idle", "publish", "stopped"}
  /\ made \in 0 .. MaxBlocks
  /\ seq \in 0 .. SeqMod - 1
  /\ net_pc \in {"loop", "send", "next", "stopped"}
  /\ tstamp \in 0 .. TsMod - 1
  /\ hdr \in [seq : Value, ts : 0 .. TsMod - 1]
  /\ wire \in Seq([seq : Value, ts : 0 .. TsMod - 1, len : Value, data : Value])

(* The stream on the wire is the generated one: the k-th packet sent is    *)
(* the k-th block, whole, under its own sequence number - no block is      *)
(* lost, sent twice or overtaken, however often sendto() answers EAGAIN    *)
(* and however the threads interleave.                                     *)
WireIsStream ==
  \A k \in 1..Len(wire) :
    /\ wire[k].data = k
    /\ wire[k].len = DataLen
    /\ wire[k].seq = (k - 1) % SeqMod

(* The two threads keep to the discipline of Queue, hence the path is a    *)
(* FIFO of whole packets.                                                  *)
RingSpec == Ring!Spec

(* A block that was published is sent, unless the network thread ends,     *)
(* although each EAGAIN restarts the main loop.                            *)
PublishedIsSent ==
  \A n \in 1..MaxBlocks :
    (\E k \in 1..Ring!Count : Ring!Contents[k]["data"] = n)
      ~> (net_pc = "stopped" \/ \E k \in 1..Len(wire) : wire[k].data = n)

(* Consecutive packets are one packet time apart on the 32-bit media clock *)
(* that "a=mediaclk:direct=0" of lib/sap.c announces.  A retry after       *)
(* EAGAIN advances tstamp a second time for the same packet, and the mask  *)
(* 0xffff makes it fall back even when every packet is accepted at the     *)
(* first attempt; so this fails.                                           *)
MediaClockStep ==
  \A k \in 1..Len(wire) - 1 :
    (wire[k + 1].ts - wire[k].ts) % TsMod = Samples % TsMod
=============================================================================
