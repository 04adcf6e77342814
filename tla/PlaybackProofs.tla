--------------------------- MODULE PlaybackProofs ---------------------------
(***************************************************************************)
(* Proofs about the playback path, for every number of slots, every number *)
(* of datagrams and every width of slot->seq: the threads use the ring as  *)
(* Queue allows, the audio callback never sees a torn slot, and every      *)
(* datagram is dumped, queued, in the network thread's hands or dropped.   *)
(***************************************************************************)
EXTENDS PlaybackPath, TLAPS

Index == Ring!Index

(* Slot i is published and not given back. *)
Occupied(i) ==
  IF tail <= head THEN tail <= i /\ i < head ELSE tail <= i \/ i < head

(* The ring's proofs, with this path's slots and what it has taken.         *)
QP == INSTANCE QueueProofs WITH out <- taken, Blank <- Cleared

(* Stores to slot i of values in V. *)
Pending(i, V) == [at : {i}, field : Field, val : V]

Settled(f, v) == QP!SettledIn(wbuf, slot[head], f, v)

Reading == audio_pc \in {"data", "next", "next_failed"}

(* The network thread publishes into a ring it saw not full, a whole slot; *)
(* published slots stay whole; the audio thread holds on to slot[tail] of  *)
(* a ring it saw not empty, and what it read of that slot is still so.     *)
PathInv ==
  /\ TypeOK
  /\ net_pc = "publish" => ~Ring!queue_full
  /\ net_pc \in {"check", "publish"} => arrived > 0 /\ Settled("data", arrived)
  /\ net_pc = "publish" => Settled("len", arrived)
  /\ \A i \in Index : Occupied(i) => slot[i]["data"] = slot[i]["len"]
  /\ Reading => ~Ring!queue_empty /\ got["len"] = slot[tail]["len"]
  /\ audio_pc \in {"next", "next_failed"} => got["data"] = slot[tail]["data"]
  /\ DumpedWhole

-----------------------------------------------------------------------------
(* The lemmas of QueueProofs, for this path's slots and stores.            *)

(* The path's constants are such as the ring asks for.                     *)
LEMMA RingConstants ==
  /\ SlotNum \in Nat /\ SlotNum >= 2 /\ \E k \in 1..31 : SlotNum = 2^k
  /\ Cleared \in Packet
<1>1. SlotNum \in Nat /\ SlotNum >= 2 /\ \E k \in 1..31 : SlotNum = 2^k
  BY PlaybackAssumption, Zenon
<1>2. 0 \in Value
  BY PlaybackAssumption DEF Value
<1>3. QED
  BY <1>1, <1>2, Zenon DEF Cleared, Packet

(* Advancing one index moves it to the next slot of the ring.              *)
LEMMA MaskedNext ==
  ASSUME NEW i \in Index
  PROVE  /\ (i + 1) % SlotNum = IF i = SlotNum - 1 THEN 0 ELSE i + 1
         /\ (i + 1) % SlotNum \in Index
<1>1. (i + 1) % SlotNum = IF i = SlotNum - 1 THEN 0 ELSE i + 1
  BY RingConstants, QP!MaskedNext, Zenon DEF Index, Ring!Index, QP!Index
<1>2. SlotNum \in Nat /\ SlotNum >= 2
  BY RingConstants
<1>3. QED
  BY <1>1, <1>2 DEF Index, Ring!Index

(* slot->seq, counted with a mask, is the number of packets accepted.      *)
LEMMA CountsModulo ==
  ASSUME NEW m \in Nat \ {0}, NEW a \in Nat
  PROVE  ((a % m) + 1) % m = (a + 1) % m
BY RingConstants, QP!CountsModulo, Zenon

(* A store settles the member it stores to and no other.                   *)
LEMMA StoreSettles ==
  ASSUME NEW i, NEW V, NEW S, S \subseteq Pending(i, V),
         NEW f \in Field, NEW v \in V, NEW p
  PROVE  /\ Store(S, i, f, v) \subseteq Pending(i, V)
         /\ QP!SettledIn(Store(S, i, f, v), p, f, v)
         /\ \A g \in Field \ {f}, u \in V :
              QP!SettledIn(S, p, g, u) => QP!SettledIn(Store(S, i, f, v), p, g, u)
<1>1. QP!Field = Field /\ QP!Pending(i, V) = Pending(i, V)
  BY DEF QP!Field, Field, QP!Pending, Pending
<1>2. QP!Store(S, i, f, v) = Store(S, i, f, v)
  BY Zenon DEF QP!Store, Store
<1>3. S \subseteq QP!Pending(i, V) /\ f \in QP!Field
  BY <1>1, Zenon
<1>4. /\ QP!Store(S, i, f, v) \subseteq QP!Pending(i, V)
      /\ QP!SettledIn(QP!Store(S, i, f, v), p, f, v)
      /\ \A g \in QP!Field \ {f}, u \in V :
           QP!SettledIn(S, p, g, u) => QP!SettledIn(QP!Store(S, i, f, v), p, g, u)
  BY <1>3, RingConstants, QP!StoreSettles, Zenon
<1>5. QED
  BY <1>1, <1>2, <1>4, Zenon

-----------------------------------------------------------------------------
(* A behaviour starts with an empty ring of blank slots.                   *)
LEMMA PathInit == Init => PathInv
<1> SUFFICES ASSUME Init PROVE PathInv
  OBVIOUS
<1>1. 0 \in Value /\ 0 \in Index /\ 0 \in 0 .. SeqMod - 1 /\ 0 \in 0 .. MaxPackets
  BY PlaybackAssumption DEF Value, Index, Ring!Index
<1>2. Cleared \in Packet
  BY <1>1 DEF Cleared, Packet
<1>3. TypeOK
  BY <1>1, <1>2 DEF Init, Ring!aoip_queue_init, TypeOK, Ring!TypeOK, Index
<1>4. QED
  BY <1>1, <1>3
     DEF Init, Ring!aoip_queue_init, PathInv, Occupied, Reading, DumpedWhole,
         Index, Ring!Index

-----------------------------------------------------------------------------
(* The steps of the network thread.                                        *)
LEMMA RecvStep == PathInv /\ Recv => PathInv'
<1> SUFFICES ASSUME PathInv, Recv PROVE PathInv'
  OBVIOUS
<1> USE DEF Recv
<1>1. arrived' \in Value /\ arrived' \in 0 .. MaxPackets /\ arrived' > 0
  BY PlaybackAssumption DEF PathInv, TypeOK, Value
<1>2. /\ wbuf' \subseteq Pending(head, Value)
      /\ QP!SettledIn(wbuf', slot[head], "data", arrived')
  BY <1>1, StoreSettles, Zenon DEF PathInv, TypeOK, Pending, Field
<1>3. TypeOK'
  BY <1>1, <1>2 DEF PathInv, TypeOK, Ring!TypeOK, Pending, audioVars
<1>4. QED
  BY <1>1, <1>2, <1>3
     DEF PathInv, Settled, Occupied, Reading, DumpedWhole, audioVars,
         Ring!queue_empty

(* The stores of len and seq leave the data settled.                       *)
LEMMA FillSlotStep == PathInv /\ FillSlot => PathInv'
<1> SUFFICES ASSUME PathInv, FillSlot PROVE PathInv'
  OBVIOUS
<1>1. arrived \in Value /\ seq \in Value /\ seq' \in 0 .. SeqMod - 1
  BY PlaybackAssumption DEF FillSlot, PathInv, TypeOK, Value
<1> DEFINE S == Store(wbuf, head, "len", arrived)
<1>2. wbuf \subseteq Pending(head, Value) /\ {"data", "len", "seq"} \subseteq Field
  BY DEF PathInv, TypeOK, Pending, Field
<1>3. /\ S \subseteq Pending(head, Value)
      /\ QP!SettledIn(S, slot[head], "len", arrived)
      /\ QP!SettledIn(S, slot[head], "data", arrived)
  BY <1>1, <1>2, StoreSettles, Zenon DEF FillSlot, PathInv, Settled
<1> HIDE DEF S
<1>4. wbuf' = Store(S, head, "seq", seq)
  BY DEF S, FillSlot
<1>5. /\ wbuf' \subseteq Pending(head, Value)
      /\ QP!SettledIn(wbuf', slot[head], "len", arrived)
      /\ QP!SettledIn(wbuf', slot[head], "data", arrived)
  <2>1. "len" \in Field \ {"seq"} /\ "data" \in Field \ {"seq"}
    BY DEF Field
  <2>2. /\ wbuf' \subseteq Pending(head, Value)
        /\ \A g \in Field \ {"seq"}, u \in Value :
             QP!SettledIn(S, slot[head], g, u) => QP!SettledIn(wbuf', slot[head], g, u)
    BY <1>1, <1>2, <1>3, <1>4, StoreSettles, Zenon
  <2>3. QED
    BY <1>1, <1>3, <2>1, <2>2
<1>6. UNCHANGED <<head, tail, slot, arrived, dropped, audioVars>> /\ net_pc' = "publish"
  BY DEF FillSlot
<1>7. ~Ring!queue_full /\ arrived > 0
  BY DEF FillSlot, PathInv
<1> USE DEF audioVars
<1>8. TypeOK'
  BY <1>1, <1>5, <1>6 DEF PathInv, TypeOK, Ring!TypeOK, Pending
<1>9. QED
  BY <1>5, <1>6, <1>7, <1>8
     DEF PathInv, Settled, Occupied, Reading, DumpedWhole, audioVars,
         Ring!queue_empty, Ring!queue_full

(* A dropped datagram leaves only its bytes behind, under head.            *)
LEMMA DropPacketStep == PathInv /\ DropPacket => PathInv'
<1> SUFFICES ASSUME PathInv, DropPacket PROVE PathInv'
  OBVIOUS
<1> USE DEF DropPacket
<1>1. arrived \in 1 .. arrived
  BY DEF PathInv, TypeOK
<1>2. TypeOK'
  BY <1>1 DEF PathInv, TypeOK, Ring!TypeOK, audioVars
<1>3. QED
  BY <1>2
     DEF PathInv, Settled, Occupied, Reading, DumpedWhole, audioVars,
         Ring!queue_empty

(* The fence has passed: slot[head] is whole when it becomes occupied.     *)
LEMMA PublishStep == PathInv /\ Publish => PathInv'
<1> SUFFICES ASSUME PathInv, Publish PROVE PathInv'
  OBVIOUS
<1>1. head \in Index /\ tail \in Index
  BY DEF PathInv, TypeOK, Ring!TypeOK, Index
<1>2. /\ head' = (head + 1) % SlotNum
      /\ wbuf = {} /\ net_pc = "publish" /\ net_pc' = "recv"
      /\ UNCHANGED <<tail, slot, wbuf, seq, arrived, dropped, audioVars>>
  BY DEF Publish, wmb, Ring!queue_write_next
<1>3. /\ head' = IF head = SlotNum - 1 THEN 0 ELSE head + 1
      /\ head' \in Index /\ head' # tail
  BY <1>1, <1>2, MaskedNext DEF PathInv, Ring!queue_full
<1>4. slot[head]["data"] = slot[head]["len"]
  BY <1>2 DEF PathInv, Settled, QP!SettledIn
<1>5. ASSUME NEW i \in Index, Occupied(i)' PROVE Occupied(i) \/ i = head
  BY <1>1, <1>2, <1>3, <1>5, PlaybackAssumption DEF Occupied, Index, Ring!Index
<1>6. TypeOK'
  BY <1>2, <1>3 DEF PathInv, TypeOK, Ring!TypeOK, Index, audioVars
<1>7. \A i \in Index : Occupied(i)' => slot'[i]["data"] = slot'[i]["len"]
  BY <1>2, <1>4, <1>5 DEF PathInv
<1>8. QED
  BY <1>2, <1>3, <1>6, <1>7
     DEF PathInv, Reading, DumpedWhole, audioVars, Ring!queue_empty

(* Leaving network_loop touches no slot.                                   *)
LEMMA NetworkEndsStep == PathInv /\ NetworkEnds => PathInv'
<1> SUFFICES ASSUME PathInv, NetworkEnds PROVE PathInv'
  OBVIOUS
<1> USE DEF NetworkEnds
<1>1. TypeOK'
  BY DEF PathInv, TypeOK, Ring!TypeOK, audioVars
<1>2. QED
  BY <1>1
     DEF PathInv, Settled, Occupied, Reading, DumpedWhole, audioVars,
         Ring!queue_empty

(* A store that becomes visible changes the slot under head alone.         *)
LEMMA VisibleFacts ==
  ASSUME PathInv, StoreVisible
  PROVE  /\ wbuf' \subseteq Pending(head, Value)
         /\ slot' \in [Index -> [Field -> Value]]
         /\ slot' = [slot EXCEPT ![head] = slot'[head]]
         /\ \A i \in Index \ {head} : slot'[i] = slot[i]
         /\ \A f \in Field, u \in Value :
              QP!SettledIn(wbuf, slot[head], f, u) => QP!SettledIn(wbuf', slot'[head], f, u)
<1>1. /\ head \in Index
      /\ slot \in [Index -> [Field -> Value]]
      /\ wbuf \subseteq Pending(head, Value)
  BY DEF PathInv, TypeOK, Ring!TypeOK, Index, Packet, Pending
<1>2. PICK w \in wbuf : slot' = QP!Drained(slot, w) /\ wbuf' = wbuf \ {w}
  BY Zenon DEF StoreVisible, QP!Drained, Drained
<1>3. QP!Field = Field /\ QP!Pending(head, Value) = Pending(head, Value)
  BY DEF QP!Field, Field, QP!Pending, Pending
<1>4. /\ wbuf \subseteq QP!Pending(head, Value)
      /\ slot \in [Index -> [QP!Field -> Value]]
  BY <1>1, <1>3, Zenon
<1>5. /\ wbuf \ {w} \subseteq QP!Pending(head, Value)
      /\ QP!Drained(slot, w) \in [Index -> [QP!Field -> Value]]
      /\ QP!Drained(slot, w) = [slot EXCEPT ![head] = QP!Drained(slot, w)[head]]
      /\ \A i \in Index \ {head} : QP!Drained(slot, w)[i] = slot[i]
      /\ \A f \in QP!Field, u \in Value : QP!SettledIn(wbuf, slot[head], f, u)
           => QP!SettledIn(wbuf \ {w}, QP!Drained(slot, w)[head], f, u)
  BY <1>1, <1>4, RingConstants, QP!DrainSettles, Zenon
<1>6. QED
  BY <1>2, <1>3, <1>5, Zenon

(* Stores become visible under head, which is neither occupied nor read.   *)
LEMMA StoreVisibleStep == PathInv /\ StoreVisible => PathInv'
<1> SUFFICES ASSUME PathInv, StoreVisible PROVE PathInv'
  OBVIOUS
<1>1. head \in Index /\ tail \in Index
  BY DEF PathInv, TypeOK, Ring!TypeOK, Index
<1>2. UNCHANGED <<head, tail, netVars, audioVars>>
  BY DEF StoreVisible
<1>3. /\ wbuf' \subseteq Pending(head, Value)
      /\ slot' \in [Index -> [Field -> Value]]
      /\ \A i \in Index \ {head} : slot'[i] = slot[i]
      /\ \A f \in Field, u \in Value :
           QP!SettledIn(wbuf, slot[head], f, u) => QP!SettledIn(wbuf', slot'[head], f, u)
  BY VisibleFacts
<1> USE DEF netVars, audioVars
<1>4. TypeOK'
  BY <1>1, <1>2, <1>3 DEF PathInv, TypeOK, Ring!TypeOK, Index, Packet, Pending
<1>5. /\ net_pc' \in {"check", "publish"} => arrived' > 0 /\ Settled("data", arrived)'
      /\ net_pc' = "publish" => Settled("len", arrived)'
  <2>1. "data" \in Field /\ "len" \in Field /\ arrived \in Value
    BY PlaybackAssumption DEF Field, PathInv, TypeOK, Value
  <2>2. QED
    BY <1>2, <1>3, <2>1, Zenon DEF PathInv, Settled
<1>6. ASSUME NEW i \in Index, Occupied(i)' PROVE slot'[i] = slot[i] /\ Occupied(i)
  BY <1>1, <1>2, <1>3, <1>6, PlaybackAssumption DEF Occupied, Index, Ring!Index
<1>7. Reading' => Reading /\ slot'[tail] = slot[tail]
  BY <1>1, <1>2, <1>3 DEF PathInv, Reading, Ring!queue_empty
<1>8. net_pc' = "publish" => ~Ring!queue_full'
  BY <1>2 DEF PathInv, Ring!queue_full
<1>9. Reading' => ~Ring!queue_empty'
  BY <1>2 DEF PathInv, Reading, Ring!queue_empty
<1>10. QED
  BY <1>2, <1>4, <1>5, <1>6, <1>7, <1>8, <1>9 DEF PathInv, Reading, DumpedWhole

-----------------------------------------------------------------------------
(* The steps of the audio thread, which stores into no slot.               *)
LEMMA AoReadLenStep == PathInv /\ AoReadLen => PathInv'
<1> SUFFICES ASSUME PathInv, AoReadLen PROVE PathInv'
  OBVIOUS
<1> USE DEF AoReadLen, netVars
<1>1. tail \in Index /\ slot[tail] \in Packet /\ "len" \in Field
  BY DEF PathInv, TypeOK, Ring!TypeOK, Index, Field
<1>2. got' \in Packet /\ got'["len"] = slot[tail]["len"]
  BY <1>1, Zenon DEF PathInv, TypeOK, Packet
<1>3. TypeOK'
  BY <1>2 DEF PathInv, TypeOK, Ring!TypeOK
<1>4. QED
  BY <1>2, <1>3, Zenon
     DEF PathInv, Settled, Occupied, Reading, DumpedWhole, Ring!queue_empty,
         Ring!queue_full

(* The bytes are read under the length that was read before.               *)
LEMMA AoReadDataStep == PathInv /\ AoReadData => PathInv'
<1> SUFFICES ASSUME PathInv, AoReadData PROVE PathInv'
  OBVIOUS
<1> USE DEF AoReadData, netVars
<1>1. tail \in Index /\ slot[tail] \in Packet /\ "len" \in Field /\ "data" \in Field
  BY DEF PathInv, TypeOK, Ring!TypeOK, Index, Field
<1>2. /\ got' \in Packet
      /\ got'["data"] = slot[tail]["data"]
      /\ got'["len"] = got["len"]
  BY <1>1, Zenon DEF PathInv, TypeOK, Packet
<1>3. TypeOK'
  BY <1>2 DEF PathInv, TypeOK, Ring!TypeOK
<1>4. QED
  BY <1>2, <1>3, Zenon
     DEF PathInv, Settled, Occupied, Reading, DumpedWhole, Ring!queue_empty,
         Ring!queue_full

(* The slot given back is the whole slot that was read; a slot less is     *)
(* occupied, and the ring is not full.                                     *)
LEMMA AoReadNextStep == PathInv /\ AoReadNext => PathInv'
<1> SUFFICES ASSUME PathInv, AoReadNext PROVE PathInv'
  OBVIOUS
<1> USE DEF netVars
<1>1. /\ head \in Index /\ tail \in Index /\ slot[tail] \in Packet
      /\ got \in Packet /\ dumped \in Seq(Packet) /\ taken \in Seq(Packet)
  BY DEF PathInv, TypeOK, Ring!TypeOK, Index
<1>2. /\ tail' = (tail + 1) % SlotNum
      /\ dumped' = Append(dumped, got)
      /\ taken' = Append(taken, slot[tail])
      /\ audio_pc' \in {"idle", "stopped"}
      /\ UNCHANGED <<head, slot, wbuf, netVars, got>>
  BY DEF AoReadNext, Ring!queue_read_next, Ring!queue_read_ptr
<1>3. /\ head # tail
      /\ got["len"] = slot[tail]["len"]
      /\ got["data"] = slot[tail]["data"]
  BY DEF AoReadNext, PathInv, Reading, Ring!queue_empty
<1>4. /\ tail' = IF tail = SlotNum - 1 THEN 0 ELSE tail + 1
      /\ tail' \in Index
  BY <1>1, <1>2, MaskedNext
<1>5. (head + 1) % SlotNum = IF head = SlotNum - 1 THEN 0 ELSE head + 1
  BY <1>1, MaskedNext
<1>6. Occupied(tail) /\ \A i \in Index : Occupied(i)' => Occupied(i)
  BY <1>1, <1>2, <1>3, <1>4, PlaybackAssumption DEF Occupied, Index, Ring!Index
<1>7. ~Ring!queue_full'
  <2>1. SlotNum \in Nat /\ SlotNum >= 2
    BY PlaybackAssumption
  <2>2. (head + 1) % SlotNum # tail'
    BY <1>1, <1>3, <1>4, <1>5, <2>1, SMTT(60) DEF Index, Ring!Index
  <2>3. QED
    BY <1>2, <2>2 DEF Ring!queue_full
<1>8. TypeOK'
  BY <1>1, <1>2, <1>4, SMTT(60) DEF PathInv, TypeOK, Ring!TypeOK, Index
<1>9. DumpedWhole'
  <2>1. got["data"] = got["len"]
    BY <1>1, <1>3, <1>6 DEF PathInv
  <2>2. /\ Len(dumped') = Len(dumped) + 1 /\ Len(taken') = Len(taken) + 1
        /\ Len(dumped) = Len(taken) /\ Len(dumped) \in Nat
    BY <1>1, <1>2 DEF PathInv, DumpedWhole
  <2>3. ASSUME NEW k \in 1 .. Len(dumped')
        PROVE  /\ dumped'[k]["data"] = dumped'[k]["len"]
               /\ dumped'[k]["data"] = taken'[k]["data"]
    <3>1. CASE k = Len(dumped')
      <4>1. dumped'[k] = got /\ taken'[k] = slot[tail]
        BY <1>1, <1>2, <2>2, <3>1
      <4>2. QED
        BY <1>3, <2>1, <4>1, Zenon
    <3>2. CASE k # Len(dumped')
      <4>1. k \in 1 .. Len(dumped)
        BY <2>2, <3>2
      <4>2. dumped'[k] = dumped[k] /\ taken'[k] = taken[k]
        BY <1>1, <1>2, <2>2, <4>1
      <4>3. QED
        BY <4>1, <4>2 DEF PathInv, DumpedWhole
    <3>3. QED
      BY <3>1, <3>2
  <2>4. QED
    BY <2>2, <2>3 DEF DumpedWhole
<1>10. QED
  BY <1>2, <1>6, <1>7, <1>8, <1>9, Zenon DEF PathInv, Settled, Reading

(* Leaving audio_record_loop touches no slot.                              *)
LEMMA AudioEndsStep == PathInv /\ AudioEnds => PathInv'
<1> SUFFICES ASSUME PathInv, AudioEnds PROVE PathInv'
  OBVIOUS
<1> USE DEF AudioEnds, netVars
<1>1. TypeOK'
  BY DEF PathInv, TypeOK, Ring!TypeOK
<1>2. QED
  BY <1>1, Zenon
     DEF PathInv, Settled, Occupied, Reading, DumpedWhole, Ring!queue_empty,
         Ring!queue_full

-----------------------------------------------------------------------------
(* PathInv is inductive.                                                   *)
LEMMA PathInvariant == Spec => []PathInv
<1>1. PathInv /\ UNCHANGED vars => PathInv'
  BY Zenon DEF vars, PathInv, TypeOK, Ring!TypeOK, Settled, Occupied, Reading,
         DumpedWhole, Ring!queue_empty, Ring!queue_full
<1>2. PathInv /\ [Next]_vars => PathInv'
  BY <1>1, RecvStep, FillSlotStep, DropPacketStep, PublishStep, NetworkEndsStep,
     StoreVisibleStep, AoReadLenStep, AoReadDataStep, AoReadNextStep, AudioEndsStep
     DEF Next, Network, Audio
<1>3. QED
  BY <1>2, PathInit, PTL DEF Spec

(* Indices, slots, pending stores and counters of the playback path stay   *)
(* in their ranges; every pending store of network_loop is to slot[head].  *)
THEOREM PlaybackType == Spec => []TypeOK
<1>1. PathInv => TypeOK
  BY DEF PathInv
<1>2. QED
  BY <1>1, PathInvariant, PTL

(* rtpdump_ao_read never dumps a torn slot, for every size of the ring,    *)
(* although recv() stores into slot[head] before queue_full is looked at.  *)
THEOREM DumpedIsWhole == Spec => []DumpedWhole
<1>1. PathInv => DumpedWhole
  BY DEF PathInv
<1>2. QED
  BY <1>1, PathInvariant, PTL

(* The two threads use the ring as Queue allows: each step of the path is  *)
(* a store under head, a publication into a ring that is not full, a read  *)
(* of a ring that is not empty, or does not touch the ring.                *)
THEOREM PlaybackUsesRing == Spec => RingSpec
<1>1. Init => Ring!Init
  BY DEF Init, Ring!Init
<1>2. PathInv /\ [Next]_vars => [Ring!Next]_(Ring!vars)
  <2> SUFFICES ASSUME PathInv, [Next]_vars PROVE [Ring!Next]_(Ring!vars)
    OBVIOUS
  <2>1. CASE UNCHANGED <<head, tail, slot, taken>>
    BY <2>1, SMTT(60) DEF Ring!vars
  <2>2. CASE Publish
    BY <2>2, Zenon DEF Publish, PathInv, audioVars, Ring!Publish, Ring!Next
  <2>3. CASE AoReadNext
    <3>1. ~Ring!queue_empty
      BY <2>3, Zenon DEF AoReadNext, PathInv, Reading
    <3>2. QED
      BY <2>3, <3>1 DEF AoReadNext, Ring!Consume, Ring!Next
  <2>4. CASE StoreVisible
    <3>1. head \in Index
      BY DEF PathInv, TypeOK, Ring!TypeOK, Index
    <3>2. slot' = [slot EXCEPT ![head] = slot'[head]] /\ slot'[head] \in Packet
      BY <2>4, <3>1, VisibleFacts DEF Packet
    <3>3. QED
      BY <2>4, <3>2 DEF StoreVisible, audioVars, Ring!Fill, Ring!Next
  <2>5. QED
    BY <2>1, <2>2, <2>3, <2>4, Zenon
       DEF Next, Network, Audio, Recv, FillSlot, DropPacket, NetworkEnds,
           AoReadLen, AoReadData, AudioEnds, vars, audioVars
<1>3. QED
  BY <1>1, <1>2, PathInvariant, PTL DEF Spec, RingSpec, Ring!Spec

-----------------------------------------------------------------------------
(* How many packets were accepted, and the k-th of them, wherever it is.   *)
N == Len(taken) + Ring!Count

Nth(k) == IF k <= Len(taken) THEN taken[k] ELSE slot[Ring!At(k - Len(taken) - 1)]

(* seq counts the accepted packets, and each carries its number.           *)
Numbered ==
  /\ net_pc # "publish" => seq = N % SeqMod
  /\ net_pc = "publish" => seq = (N + 1) % SeqMod /\ Settled("seq", N % SeqMod)
  /\ \A k \in 1..N : Nth(k)["seq"] = (k - 1) % SeqMod

(* Every datagram has one place, and accepted ones are in order.           *)
Placed ==
  /\ \A k \in 1..N : /\ Nth(k)["data"] \in 1..arrived
                     /\ Nth(k)["data"] \notin dropped \cup InFlight
  /\ \A k \in 1 .. N - 1 : Nth(k)["data"] < Nth(k + 1)["data"]
  /\ \A n \in 1..arrived : n \in dropped \cup InFlight \/ \E k \in 1..N : Nth(k)["data"] = n
  /\ InFlight \cap dropped = {}

(* The ring between its indices.                                           *)
LEMMA RingFacts ==
  ASSUME PathInv
  PROVE  /\ SlotNum \in Nat /\ SlotNum >= 2 /\ SeqMod \in Nat \ {0}
         /\ head \in 0 .. SlotNum - 1 /\ tail \in 0 .. SlotNum - 1
         /\ taken \in Seq(Packet) /\ Len(taken) \in Nat
         /\ Ring!Count \in 0 .. SlotNum - 1 /\ N \in Nat
         /\ \A j \in 0 .. Ring!Count - 1 : Ring!At(j) \in Index \ {head}
<1>1. /\ SlotNum \in Nat /\ SlotNum >= 2 /\ SeqMod \in Nat \ {0}
      /\ head \in 0 .. SlotNum - 1 /\ tail \in 0 .. SlotNum - 1
      /\ taken \in Seq(Packet) /\ Len(taken) \in Nat
  BY PlaybackAssumption DEF PathInv, TypeOK, Ring!TypeOK, Ring!Index
<1>2. Ring!Count \in 0 .. SlotNum - 1
  BY <1>1 DEF Ring!Count
<1>3. \A j \in 0 .. Ring!Count - 1 : Ring!At(j) \in Index \ {head}
  BY <1>1 DEF Ring!Count, Ring!At, Index, Ring!Index
<1>4. QED
  BY <1>1, <1>2, <1>3 DEF N

(* A publication appends slot[head].                                       *)
LEMMA PublishAccepts ==
  ASSUME PathInv, Publish
  PROVE  /\ N' = N + 1
         /\ \A k \in 1..N : Nth(k)' = Nth(k)
         /\ Nth(N)' = slot[head]
<1>1. /\ head' = (head + 1) % SlotNum /\ UNCHANGED <<tail, slot, taken>>
      /\ (head + 1) % SlotNum # tail
  BY DEF Publish, Ring!queue_write_next, PathInv, Ring!queue_full, audioVars
<1>2. head' = IF head = SlotNum - 1 THEN 0 ELSE head + 1
  BY <1>1, RingFacts, MaskedNext, Zenon DEF Index, Ring!Index
<1>3. Ring!Count' = Ring!Count + 1 /\ Ring!At(Ring!Count) = head
  <2>1. /\ SlotNum \in Nat /\ SlotNum >= 2
        /\ head \in 0 .. SlotNum - 1 /\ tail \in 0 .. SlotNum - 1
    BY RingFacts
  <2>2. QED
    BY <1>1, <1>2, <2>1 DEF Ring!Count, Ring!At
<1>4. \A j : Ring!At(j)' = Ring!At(j)
  BY <1>1 DEF Ring!At
<1>5. N' = N + 1
  BY <1>1, <1>3, RingFacts, SMTT(60) DEF N
<1>6. \A k \in 1..N : Nth(k)' = Nth(k)
  BY <1>1, <1>4 DEF Nth
<1>7. Nth(N)' = slot[head]
  <2>1. N' - Len(taken') - 1 = Ring!Count /\ ~(N' <= Len(taken'))
    BY <1>1, <1>5, RingFacts, SMTT(60) DEF N
  <2>2. QED
    BY <1>1, <1>3, <1>4, <2>1 DEF Nth
<1>8. QED
  BY <1>5, <1>6, <1>7

(* No other step changes what was accepted: the slot that is given back    *)
(* goes from the ring to the file.                                         *)
LEMMA OthersKeep ==
  ASSUME PathInv, [Next]_vars, ~Publish
  PROVE  N' = N /\ \A k \in 1..N : Nth(k)' = Nth(k)
<1>1. CASE UNCHANGED <<head, tail, slot, taken>>
  BY <1>1, Zenon DEF N, Nth, Ring!Count, Ring!At
<1>2. CASE StoreVisible
  <2>1. head \in Index
    BY DEF PathInv, TypeOK, Ring!TypeOK, Index
  <2>2. \A i \in Index \ {head} : slot'[i] = slot[i]
    BY <1>2, VisibleFacts
  <2>3. UNCHANGED <<head, tail, taken>>
    BY <1>2 DEF StoreVisible, audioVars
  <2>4. N' = N /\ \A j : Ring!At(j)' = Ring!At(j)
    BY <2>3 DEF N, Ring!Count, Ring!At
  <2>5. ASSUME NEW k \in 1..N PROVE Nth(k)' = Nth(k)
    <3>1. k > Len(taken) => k - Len(taken) - 1 \in 0 .. Ring!Count - 1
      BY RingFacts, SMTT(60) DEF N
    <3>2. k > Len(taken) \/ k <= Len(taken)
      BY RingFacts
    <3>3. QED
      BY <2>2, <2>3, <2>4, <3>1, <3>2, RingFacts, Zenon DEF Nth
  <2>6. QED
    BY <2>4, <2>5
<1>3. CASE AoReadNext
  <2>1. /\ tail' = (tail + 1) % SlotNum /\ taken' = Append(taken, slot[tail])
        /\ UNCHANGED <<head, slot>> /\ head # tail
    BY <1>3, Zenon
         DEF AoReadNext, Ring!queue_read_next, Ring!queue_read_ptr, PathInv, Reading,
             Ring!queue_empty
  <2>2. tail' = IF tail = SlotNum - 1 THEN 0 ELSE tail + 1
    BY <2>1, RingFacts, MaskedNext, Zenon DEF Index, Ring!Index
  <2>3. /\ Ring!Count' = Ring!Count - 1 /\ Ring!At(0) = tail
        /\ \A j \in 0 .. Ring!Count - 2 : Ring!At(j)' = Ring!At(j + 1)
    <3>1. /\ SlotNum \in Nat /\ SlotNum >= 2
          /\ head \in 0 .. SlotNum - 1 /\ tail \in 0 .. SlotNum - 1
      BY RingFacts
    <3>2. QED
      BY <2>1, <2>2, <3>1 DEF Ring!Count, Ring!At
  <2>4. Len(taken') = Len(taken) + 1
    BY <2>1, RingFacts
  <2>5. N' = N
    BY <2>3, <2>4, RingFacts, SMTT(60) DEF N
  <2>6. ASSUME NEW k \in 1..N PROVE Nth(k)' = Nth(k)
    <3>1. CASE k <= Len(taken)
      <4>1. taken'[k] = taken[k] /\ k <= Len(taken')
        BY <2>1, <2>4, <3>1, RingFacts
      <4>2. QED
        BY <3>1, <4>1 DEF Nth
    <3>2. CASE k = Len(taken) + 1
      <4>1. taken'[k] = slot[tail] /\ k <= Len(taken') /\ ~(k <= Len(taken)) /\ k - Len(taken) - 1 = 0
        BY <2>1, <2>4, <3>2, RingFacts
      <4>2. QED
        BY <2>3, <4>1 DEF Nth
    <3>3. CASE k > Len(taken) + 1
      <4>0. k - Len(taken) - 2 \in Int
        BY RingFacts
      <4> PICK j \in Int : j = k - Len(taken) - 2
        BY <4>0, Zenon
      <4>1. /\ ~(k <= Len(taken')) /\ ~(k <= Len(taken))
            /\ k - Len(taken') - 1 = j /\ k - Len(taken) - 1 = j + 1
            /\ j \in 0 .. Ring!Count - 2
        BY <2>4, <3>3, RingFacts, SMTT(60) DEF N
      <4>2. Nth(k)' = slot'[Ring!At(j)'] /\ Nth(k) = slot[Ring!At(j + 1)]
        BY <4>1 DEF Nth
      <4>3. QED
        BY <2>1, <2>3, <4>1, <4>2, Zenon
    <3>4. QED
      BY <3>1, <3>2, <3>3, RingFacts, SMTT(60)
  <2>7. QED
    BY <2>5, <2>6
<1>4. QED
  BY <1>1, <1>2, <1>3, Zenon
     DEF Next, Network, Audio, Recv, FillSlot, DropPacket, NetworkEnds,
         AoReadLen, AoReadData, AudioEnds, vars, audioVars

(* Each step numbers the packets on.                                       *)
LEMMA NumberedStep ==
  ASSUME PathInv, Numbered, [Next]_vars
  PROVE  Numbered'
<1>1. CASE Publish
  <2>1. wbuf = {} /\ net_pc = "publish" /\ net_pc' = "recv" /\ seq' = seq
    BY <1>1 DEF Publish, wmb
  <2>2. slot[head]["seq"] = N % SeqMod /\ seq = (N + 1) % SeqMod
    BY <2>1 DEF Numbered, Settled, QP!SettledIn
  <2>3. ASSUME NEW k \in 1..N' PROVE Nth(k)'["seq"] = (k - 1) % SeqMod
    <3>1. k \in 1..N \/ (k = N' /\ k - 1 = N)
      BY <1>1, PublishAccepts, RingFacts, SMTT(60)
    <3>2. QED
      BY <1>1, <2>2, <3>1, PublishAccepts DEF Numbered
  <2>4. QED
    BY <1>1, <2>1, <2>2, <2>3, PublishAccepts, Zenon DEF Numbered
<1>2. CASE ~Publish
  <2>1. /\ N' = N
        /\ \A k \in 1..N' : Nth(k)'["seq"] = (k - 1) % SeqMod
    BY <1>2, OthersKeep DEF Numbered
  <2>2. CASE FillSlot
    <3>1. net_pc # "publish" /\ net_pc' = "publish" /\ seq' = (seq + 1) % SeqMod
          /\ wbuf' = Store(Store(wbuf, head, "len", arrived), head, "seq", seq)
          /\ UNCHANGED <<head, slot>>
      BY <2>2 DEF FillSlot
    <3>2. seq = N % SeqMod /\ seq' = (N + 1) % SeqMod
      BY <3>1, RingFacts, CountsModulo, Zenon DEF Numbered
    <3>3. /\ wbuf \subseteq Pending(head, Value) /\ {"len", "seq"} \subseteq Field
          /\ arrived \in Value /\ seq \in Value
      BY PlaybackAssumption DEF PathInv, TypeOK, Pending, Value, Field
    <3>4. Store(wbuf, head, "len", arrived) \subseteq Pending(head, Value)
      BY <3>3, StoreSettles
    <3>5. QP!SettledIn(wbuf', slot[head], "seq", seq)
      BY <3>1, <3>3, <3>4, StoreSettles, Zenon
    <3>6. QED
      BY <2>1, <3>1, <3>2, <3>5, Zenon DEF Numbered, Settled
  <2>3. CASE StoreVisible
    <3>1. /\ head \in Index
          /\ slot \in [Index -> [Field -> Value]]
          /\ wbuf \subseteq Pending(head, Value)
          /\ "seq" \in Field
      BY Zenon DEF PathInv, TypeOK, Ring!TypeOK, Index, Packet, Pending, Field
    <3>2. N % SeqMod \in 0 .. SeqMod - 1
      BY RingFacts, SMTT(60)
    <3>3. N % SeqMod \in Value
      BY <3>2, RingFacts, PlaybackAssumption DEF Value
    <3>4. Settled("seq", N % SeqMod) => QP!SettledIn(wbuf', slot'[head], "seq", N % SeqMod)
      BY <2>3, <3>1, <3>3, VisibleFacts, Zenon DEF Settled
    <3>5. UNCHANGED <<head, net_pc, seq>>
      BY <2>3 DEF StoreVisible, netVars
    <3>6. QED
      BY <2>1, <3>4, <3>5, Zenon DEF Numbered, Settled
  <2>4. CASE /\ UNCHANGED <<head, slot, wbuf, seq>>
             /\ net_pc' = net_pc \/ {net_pc, net_pc'} \subseteq {"recv", "check", "stopped"}
    BY <2>1, <2>4 DEF Numbered, Settled
  <2>5. QED
    <3>1. Recv => Numbered'
      BY <2>1 DEF Recv, Numbered
    <3>2. QED
      BY <1>2, <2>2, <2>3, <2>4, <3>1, Zenon
         DEF Next, Network, Audio, DropPacket, NetworkEnds, AoReadLen, AoReadData,
             AoReadNext, AudioEnds, vars, netVars
<1>3. QED
  BY <1>1, <1>2

(* Each step puts the datagram it moves into one place.                    *)
LEMMA PlacedStep ==
  ASSUME PathInv, Placed, [Next]_vars
  PROVE  Placed'
<1>0. arrived \in Nat /\ dropped \subseteq 1..arrived
  BY DEF PathInv, TypeOK
<1>1. CASE Publish
  <2>1. /\ wbuf = {} /\ net_pc = "publish" /\ net_pc' = "recv"
        /\ UNCHANGED <<arrived, dropped>>
    BY <1>1 DEF Publish, wmb
  <2>2. slot[head]["data"] = arrived /\ arrived > 0
    BY <2>1, Zenon DEF PathInv, Settled, QP!SettledIn
  <2>3. InFlight = {arrived} /\ InFlight' = {}
    BY <2>1 DEF InFlight
  <2>4. ASSUME NEW k \in 1..N
        PROVE  /\ Nth(k)'["data"] = Nth(k)["data"] /\ Nth(k)["data"] \in 1..arrived
               /\ Nth(k)["data"] \notin dropped /\ Nth(k)["data"] < arrived
    BY <1>0, <1>1, <2>3, PublishAccepts DEF Placed
  <2>5. Nth(N)'["data"] = arrived /\ N' = N + 1 /\ N \in Nat
    BY <1>1, <2>2, PublishAccepts, RingFacts, Zenon
  <2>6. \A k \in 1..N' : Nth(k)'["data"] \in 1..arrived' /\ Nth(k)'["data"] \notin (dropped \cup InFlight)'
    <3> SUFFICES ASSUME NEW k \in 1..N'
                 PROVE  Nth(k)'["data"] \in 1..arrived' /\ Nth(k)'["data"] \notin (dropped \cup InFlight)'
      OBVIOUS
    <3>1. k \in 1..N \/ k = N'
      BY <2>5
    <3>2. arrived \notin dropped /\ arrived \in 1..arrived
      BY <1>0, <2>2, <2>3 DEF Placed
    <3>3. QED
      BY <2>1, <2>3, <2>4, <2>5, <3>1, <3>2
  <2>7. ASSUME NEW k \in 1 .. N' - 1 PROVE Nth(k)'["data"] < Nth(k + 1)'["data"]
    <3>1. k \in 1..N /\ ((k \in 1 .. N - 1 /\ k + 1 \in 1..N) \/ k + 1 = N')
      BY <2>5
    <3>2. CASE k + 1 = N'
      BY <2>4, <2>5, <3>1, <3>2
    <3>3. CASE k \in 1 .. N - 1 /\ k + 1 \in 1..N
      <4>1. Nth(k)["data"] < Nth(k + 1)["data"]
        BY <3>3, Zenon DEF Placed
      <4>2. Nth(k + 1)'["data"] = Nth(k + 1)["data"] /\ Nth(k)'["data"] = Nth(k)["data"]
        BY <2>4, <3>1, <3>3
      <4>3. QED
        BY <4>1, <4>2
    <3>4. QED
      BY <3>1, <3>2, <3>3
  <2>8. ASSUME NEW n \in 1..arrived'
        PROVE  n \in (dropped \cup InFlight)' \/ \E k \in 1..N' : Nth(k)'["data"] = n
    <3>1. CASE n = arrived
      <4>1. N' \in 1..N'
        BY <2>5
      <4>2. QED
        BY <2>5, <3>1, <4>1
    <3>2. CASE n # arrived
      <4>1. n \in dropped \/ \E k \in 1..N : Nth(k)["data"] = n
        BY <2>1, <2>3, <3>2, Zenon DEF Placed
      <4>2. 1..N \subseteq 1..N'
        BY <2>5
      <4>3. QED
        BY <2>1, <2>4, <4>1, <4>2
    <3>3. QED
      BY <3>1, <3>2
  <2>9. QED
    BY <2>3, <2>6, <2>7, <2>8, Zenon DEF Placed
<1>2. CASE ~Publish
  <2>1. N' = N /\ \A k \in 1..N : Nth(k)' = Nth(k)
    BY <1>2, OthersKeep
  <2>2. /\ N \in Nat
        /\ \A k \in 1 .. N - 1 : Nth(k)'["data"] < Nth(k + 1)'["data"]
    <3>1. N \in Nat
      BY RingFacts
    <3>2. ASSUME NEW k \in 1 .. N - 1 PROVE Nth(k)'["data"] < Nth(k + 1)'["data"]
      <4>1. k \in 1..N /\ k + 1 \in 1..N
        BY <3>1
      <4>2. Nth(k + 1)' = Nth(k + 1) /\ Nth(k)' = Nth(k)
        BY <2>1, <4>1, Zenon
      <4>3. QED
        BY <4>2, Zenon DEF Placed
    <3>3. QED
      BY <3>1, <3>2
  <2>3. CASE UNCHANGED <<arrived, dropped>> /\ InFlight' = InFlight
    BY <2>1, <2>2, <2>3, Zenon DEF Placed
  <2>4. CASE Recv
    <3>1. arrived' = arrived + 1 /\ dropped' = dropped /\ InFlight = {} /\ InFlight' = {arrived + 1}
      BY <2>4 DEF Recv, InFlight
    <3>2. /\ 1..arrived' = 1..arrived \cup {arrived + 1}
          /\ arrived + 1 \notin 1..arrived /\ 1..arrived \subseteq 1..arrived'
      BY <1>0, <3>1
    <3>3. QED
      BY <1>0, <2>1, <2>2, <3>1, <3>2 DEF Placed
  <2>5. CASE DropPacket
    <3>1. /\ arrived' = arrived /\ dropped' = dropped \cup {arrived}
          /\ InFlight = {arrived} /\ InFlight' = {}
      BY <2>5 DEF DropPacket, InFlight
    <3>2. QED
      BY <2>1, <2>2, <3>1, Zenon DEF Placed
  <2>6. QED
    BY <1>2, <2>3, <2>4, <2>5, Zenon
       DEF Next, Network, Audio, FillSlot, NetworkEnds, StoreVisible, AoReadLen, AoReadData,
           AoReadNext, AudioEnds, vars, netVars, InFlight
<1>3. QED
  BY <1>1, <1>2

(* No datagram is lost, doubled or overtaken between recv() and the file   *)
(* other than by being dropped from a full ring, and slot->seq numbers     *)
(* those that were accepted, for every ring size and number of datagrams.  *)
THEOREM PacketsAccounted == Spec => []PacketAccounting
<1>1. Init => Numbered /\ Placed
  <2> SUFFICES ASSUME Init PROVE Numbered /\ Placed
    OBVIOUS
  <2>1. Ring!Count = 0 /\ N = 0
    BY DEF Init, Ring!aoip_queue_init, N, Ring!Count
  <2>2. 0 % SeqMod = 0
    BY PlaybackAssumption
  <2>3. QED
    BY <2>1, <2>2 DEF Init, Numbered, Placed, InFlight
<1>2. PathInv /\ Numbered /\ Placed /\ [Next]_vars => Numbered' /\ Placed'
  BY NumberedStep, PlacedStep
<1>3. PathInv /\ Numbered /\ Placed => PacketAccounting
  <2> SUFFICES ASSUME PathInv, Numbered, Placed PROVE PacketAccounting
    OBVIOUS
  <2>1. ASSUME NEW j \in 1..Ring!Count PROVE slot[Ring!At(j - 1)] \in Packet
    <3>1. j - 1 \in 0 .. Ring!Count - 1
      BY RingFacts
    <3>2. QED
      BY <3>1, RingFacts, Zenon DEF PathInv, TypeOK, Ring!TypeOK, Index
  <2>2. Ring!Contents \in Seq(Packet) /\ Len(Ring!Contents) = Ring!Count
    BY <2>1, RingFacts, SMTT(60) DEF Ring!Contents
  <2>3. Len(Accepted) = N
    BY <2>2, RingFacts, SMTT(60) DEF Accepted, N
  <2>4. ASSUME NEW k \in 1..N PROVE Accepted[k] = Nth(k)
    <3>1. CASE k <= Len(taken)
      BY <2>2, <3>1, RingFacts DEF Accepted, Nth
    <3>2. CASE k > Len(taken)
      <4>1. k - Len(taken) \in 1..Ring!Count
        BY <3>2, RingFacts DEF N
      <4>2. Accepted[k] = Ring!Contents[k - Len(taken)]
        BY <2>2, <3>2, <4>1, RingFacts, SMTT(60) DEF Accepted
      <4>3. QED
        BY <3>2, <4>1, <4>2, RingFacts DEF Nth, Ring!Contents
    <3>3. QED
      BY <3>1, <3>2, RingFacts
  <2> DEFINE ids == {Accepted[k]["data"] : k \in 1..Len(Accepted)}
  <2>5. ids = {Nth(k)["data"] : k \in 1..N}
    BY <2>3, <2>4
  <2>6. dropped \subseteq 1..arrived /\ InFlight \subseteq 1..arrived
    BY DEF PathInv, TypeOK, InFlight
  <2>7. /\ ids \cup dropped \cup InFlight = 1..arrived
        /\ ids \cap dropped = {} /\ InFlight \cap (ids \cup dropped) = {}
    <3>1. \A n : n \in ids <=> \E k \in 1..N : Nth(k)["data"] = n
      BY <2>5, Zenon
    <3>2. \A n \in ids : n \in 1..arrived /\ n \notin dropped /\ n \notin InFlight
      BY <3>1, ZenonT(60) DEF Placed
    <3>3. \A n \in 1..arrived : n \in dropped \/ n \in InFlight \/ n \in ids
      BY <3>1, Zenon DEF Placed
    <3>4. \A n \in InFlight : n \notin dropped
      BY DEF Placed
    <3> HIDE DEF ids
    <3>5. QED
      BY <2>6, <3>2, <3>3, <3>4, Zenon
  <2>8. \A k \in 1..Len(Accepted) : Accepted[k]["seq"] = (k - 1) % SeqMod
    BY <2>3, <2>4 DEF Numbered
  <2>9. ASSUME NEW k \in 1 .. Len(Accepted) - 1
        PROVE  Accepted[k]["data"] < Accepted[k + 1]["data"]
    <3>1. k \in 1..N /\ k + 1 \in 1..N /\ k \in 1 .. N - 1
      BY <2>3, RingFacts
    <3>2. QED
      BY <2>4, <3>1, Zenon DEF Placed
  <2>10. QED
    BY <2>7, <2>8, <2>9, Zenon DEF PacketAccounting
<1>4. QED
  BY <1>1, <1>2, <1>3, PathInvariant, PTL DEF Spec

(* The ring of QueueProofs, with this path's constants and variables, is   *)
(* the path's own ring: the same initial states, steps and contents.       *)
LEMMA SameRing ==
  /\ Ring!Init => QP!Init
  /\ [Ring!Next]_(Ring!vars) => [QP!Next]_(QP!vars)
  /\ Ring!Contents = QP!Contents /\ (Ring!Contents = QP!Contents)'
<1> USE DEF Ring!Index, QP!Index
<1>1. Ring!Init => QP!Init
  BY DEF Ring!Init, QP!Init, Ring!aoip_queue_init, QP!aoip_queue_init
<1>2. [Ring!Next]_(Ring!vars) => [QP!Next]_(QP!vars)
  BY Zenon DEF Ring!Next, QP!Next, Ring!vars, QP!vars, Ring!Fill, QP!Fill, Ring!Publish,
         QP!Publish, Ring!Consume, QP!Consume, Ring!queue_full, QP!queue_full,
         Ring!queue_empty, QP!queue_empty, Ring!queue_write_next, QP!queue_write_next,
         Ring!queue_read_next, QP!queue_read_next, Ring!queue_read_ptr, QP!queue_read_ptr
<1>3. Ring!Contents = QP!Contents /\ (Ring!Contents = QP!Contents)'
  BY Zenon DEF Ring!Contents, QP!Contents, Ring!Count, QP!Count, Ring!At, QP!At
<1>4. QED
  BY <1>1, <1>2, <1>3

(* The playback path as a whole is a FIFO of at most SlotNum - 1 packets:  *)
(* rtp_recv_handler puts packets at its end, aoip_read_cb takes them from  *)
(* its front, and with the fences of the queue's accessors no interleaving *)
(* of the two threads, and no delayed store, drops, doubles or reorders a  *)
(* packet or shows the reader half of one.                                 *)
THEOREM PlaybackIsFifo == Spec => Ring!FifoSpec
<1>1. RingSpec => QP!Spec
  BY SameRing, PTL DEF RingSpec, Ring!Spec, QP!Spec
<1>2. QP!Spec => QP!FifoSpec
  BY RingConstants, QP!QueueIsFifo, Zenon
<1>3. QP!Fifo!Init => Ring!Fifo!Init
  BY SameRing DEF Ring!Fifo!Init, QP!Fifo!Init
<1>4. [QP!Fifo!Next]_(QP!Fifo!vars) => [Ring!Fifo!Next]_(Ring!Fifo!vars)
  BY SameRing DEF Ring!Fifo!Next, QP!Fifo!Next, Ring!Fifo!vars, QP!Fifo!vars,
                  Ring!Fifo!Put, QP!Fifo!Put, Ring!Fifo!Get, QP!Fifo!Get
<1>5. QED
  BY <1>1, <1>2, <1>3, <1>4, PlaybackUsesRing, PTL
     DEF QP!FifoSpec, QP!Fifo!Spec, Ring!FifoSpec, Ring!Fifo!Spec
=============================================================================
