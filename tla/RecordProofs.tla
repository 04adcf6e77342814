---------------------------- MODULE RecordProofs ----------------------------
(***************************************************************************)
(* Proofs about the record path, for every number of slots, every number   *)
(* of blocks and every width of slot->seq: the threads use the ring as     *)
(* Queue allows, and what sendto() accepts is the stream that was made.    *)
(***************************************************************************)
EXTENDS RecordPath, TLAPS

Index == Ring!Index
Count == Ring!Count
At(j) == Ring!At(j)

(* The ring's proofs, with this path's slots and what it has taken.         *)
QP == INSTANCE QueueProofs WITH out <- taken, Blank <- Cleared

(* Stores to slot i of values in V. *)
Pending(i, V) == [at : {i}, field : Field, val : V]

Settled(f, v) == QP!SettledIn(wbuf, slot[head], f, v)

(* Packet p is the n-th block of the stream, whole. *)
Holds(p, n) ==
  /\ p["data"] = n
  /\ p["len"] = DataLen
  /\ p["seq"] = (n - 1) % SeqMod

(* The blocks made are those given back, those in the ring and the one     *)
(* about to be published, in this order; the network thread holds on to    *)
(* slot[tail] of a ring it saw not empty, and has sent the slots it gave   *)
(* back and, before queue_read_next, the one it is going to give back.     *)
StreamInv ==
  /\ TypeOK
  /\ seq = made % SeqMod
  /\ made = Len(taken) + Count + (IF audio_pc = "publish" THEN 1 ELSE 0)
  /\ audio_pc = "publish" =>
       /\ ~Ring!queue_full
       /\ Settled("data", made)
       /\ Settled("len", DataLen)
       /\ Settled("seq", (made - 1) % SeqMod)
  /\ \A j \in 0 .. Count - 1 : Holds(slot[At(j)], Len(taken) + j + 1)
  /\ net_pc \in {"send", "next"} => ~Ring!queue_empty
  /\ net_pc = "send" => hdr.seq = slot[tail]["seq"]
  /\ Len(wire) = Len(taken) + (IF net_pc = "next" THEN 1 ELSE 0)
  /\ WireIsStream

-----------------------------------------------------------------------------
(* The lemmas of QueueProofs, for this path's slots and stores.            *)

(* The path's constants are such as the ring asks for.                     *)
LEMMA RingConstants ==
  /\ SlotNum \in Nat /\ SlotNum >= 2 /\ \E k \in 1..31 : SlotNum = 2^k
  /\ Cleared \in Packet
<1>1. SlotNum \in Nat /\ SlotNum >= 2 /\ \E k \in 1..31 : SlotNum = 2^k
  BY RecordAssumption, Zenon
<1>2. 0 \in Value
  BY RecordAssumption DEF Value
<1>3. QED
  BY <1>1, <1>2, Zenon DEF Cleared, Packet

(* Advancing one index moves it to the next slot of the ring.              *)
LEMMA MaskedNext ==
  ASSUME NEW i \in Index
  PROVE  /\ (i + 1) % SlotNum = IF i = SlotNum - 1 THEN 0 ELSE i + 1
         /\ (i + 1) % SlotNum \in Index
<1>1. (i + 1) % SlotNum = IF i = SlotNum - 1 THEN 0 ELSE i + 1
  BY RingConstants, QP!MaskedNext, Zenon DEF Index, Ring!Index, QP!Index
<1>2. SlotNum \in Nat /\ SlotNum >= 2
  BY RingConstants
<1>3. QED
  BY <1>1, <1>2 DEF Index, Ring!Index

(* slot->seq, counted with a mask, is the number of packets accepted.      *)
LEMMA CountsModulo ==
  ASSUME NEW m \in Nat \ {0}, NEW a \in Nat
  PROVE  ((a % m) + 1) % m = (a + 1) % m
BY RingConstants, QP!CountsModulo, Zenon

(* A store settles the member it stores to and no other.                   *)
LEMMA StoreSettles ==
  ASSUME NEW i, NEW V, NEW S, S \subseteq Pending(i, V),
         NEW f \in Field, NEW v \in V, NEW p
  PROVE  /\ Store(S, i, f, v) \subseteq Pending(i, V)
         /\ QP!SettledIn(Store(S, i, f, v), p, f, v)
         /\ \A g \in Field \ {f}, u \in V :
              QP!SettledIn(S, p, g, u) => QP!SettledIn(Store(S, i, f, v), p, g, u)
<1>1. QP!Field = Field /\ QP!Pending(i, V) = Pending(i, V)
  BY DEF QP!Field, Field, QP!Pending, Pending
<1>2. QP!Store(S, i, f, v) = Store(S, i, f, v)
  BY Zenon DEF QP!Store, Store
<1>3. S \subseteq QP!Pending(i, V) /\ f \in QP!Field
  BY <1>1, Zenon
<1>4. /\ QP!Store(S, i, f, v) \subseteq QP!Pending(i, V)
      /\ QP!SettledIn(QP!Store(S, i, f, v), p, f, v)
      /\ \A g \in QP!Field \ {f}, u \in V :
           QP!SettledIn(S, p, g, u) => QP!SettledIn(QP!Store(S, i, f, v), p, g, u)
  BY <1>3, RingConstants, QP!StoreSettles, Zenon
<1>5. QED
  BY <1>1, <1>2, <1>4, Zenon

-----------------------------------------------------------------------------
(* The assumptions on the constants without the power of two.              *)
LEMMA Sizes ==
  /\ SlotNum \in Nat /\ SlotNum >= 2
  /\ SeqMod \in Nat \ {0} /\ DataLen \in Nat /\ MaxBlocks \in Nat
  /\ TsMask \in Nat \ {0} /\ TsMod \in Nat /\ TsMask <= TsMod
  /\ Samples \in Nat /\ ClockTs \subseteq 0 .. TsMod - 1
BY RecordAssumption

-----------------------------------------------------------------------------
(* The slots in use start at tail and leave out head.                      *)
LEMMA RingShape ==
  ASSUME head \in Index, tail \in Index
  PROVE  /\ Count \in 0 .. SlotNum - 1
         /\ Ring!queue_empty <=> Count = 0
         /\ At(0) = tail
         /\ \A j \in 0 .. Count - 1 : At(j) \in Index /\ At(j) # head
<1>1. SlotNum \in Nat /\ SlotNum >= 2
  BY Sizes
<1>2. QED
  BY <1>1 DEF Index, Ring!Index, Count, Ring!Count, At, Ring!At, Ring!queue_empty

(* queue_write_next adds the slot under head at the end.                   *)
LEMMA HeadMoves ==
  ASSUME head \in Index, tail \in Index, ~Ring!queue_full,
         head' = (head + 1) % SlotNum, tail' = tail
  PROVE  /\ head' \in Index
         /\ Count' = Count + 1
         /\ At(Count) = head
         /\ \A j \in Nat : At(j)' = At(j)
<1>1. SlotNum \in Nat /\ SlotNum >= 2 /\ head \in 0 .. SlotNum - 1
  BY Sizes DEF Index, Ring!Index
<1>2. head' = IF head = SlotNum - 1 THEN 0 ELSE head + 1
  BY <1>1, MaskedNext
<1>3. head' # tail
  BY DEF Ring!queue_full
<1>4. QED
  BY <1>1, <1>2, <1>3 DEF Index, Ring!Index, Count, Ring!Count, At, Ring!At

(* queue_read_next gives back the slot under tail.                         *)
LEMMA TailMoves ==
  ASSUME head \in Index, tail \in Index, ~Ring!queue_empty,
         tail' = (tail + 1) % SlotNum, head' = head
  PROVE  /\ tail' \in Index
         /\ Count' = Count - 1
         /\ \A j \in 0 .. Count - 2 : At(j)' = At(j + 1)
         /\ ~Ring!queue_full'
<1>1. /\ SlotNum \in Nat /\ SlotNum >= 2
      /\ head \in 0 .. SlotNum - 1 /\ tail \in 0 .. SlotNum - 1
  BY Sizes DEF Index, Ring!Index
<1>2. tail' = IF tail = SlotNum - 1 THEN 0 ELSE tail + 1
  BY <1>1, MaskedNext
<1>3. (head + 1) % SlotNum = IF head = SlotNum - 1 THEN 0 ELSE head + 1
  BY <1>1, MaskedNext
<1>4. head # tail
  BY DEF Ring!queue_empty
<1>5. /\ tail' \in Index
      /\ Count' = Count - 1
      /\ \A j \in 0 .. Count - 2 : At(j)' = At(j + 1)
  BY <1>1, <1>2, <1>4 DEF Index, Ring!Index, Count, Ring!Count, At, Ring!At
<1>6. (head + 1) % SlotNum # tail'
  BY <1>1, <1>2, <1>3, <1>4
<1>7. QED
  BY <1>5, <1>6 DEF Ring!queue_full

-----------------------------------------------------------------------------
(* A behaviour starts with no block made and an empty ring.                *)
LEMMA StreamInit == Init => StreamInv
<1> SUFFICES ASSUME Init PROVE StreamInv
  OBVIOUS
<1>1. /\ 0 \in Value /\ 0 \in Index /\ 0 \in 0 .. SeqMod - 1
      /\ 0 \in 0 .. MaxBlocks /\ 0 \in 0 .. TsMod - 1 /\ 0 % SeqMod = 0
  BY Sizes DEF Value, Index, Ring!Index
<1>2. Cleared \in Packet
  BY <1>1 DEF Cleared, Packet
<1>3. TypeOK
  BY <1>1, <1>2 DEF Init, Ring!aoip_queue_init, TypeOK, Ring!TypeOK, Index
<1>4. Count = 0
  BY <1>1 DEF Init, Ring!aoip_queue_init, Count, Ring!Count
<1>5. QED
  BY <1>1, <1>3, <1>4 DEF Init, StreamInv, WireIsStream

(* What the invariant says of the variables, in the terms of the lemmas.   *)
LEMMA StreamTypes ==
  ASSUME StreamInv
  PROVE  /\ head \in Index /\ tail \in Index
         /\ slot \in [Index -> [Field -> Value]]
         /\ wbuf \subseteq Pending(head, Value)
         /\ taken \in Seq(Packet) /\ Len(taken) \in Nat
         /\ made \in Nat /\ made <= MaxBlocks
BY SMTT(60) DEF StreamInv, TypeOK, Ring!TypeOK, Index, Packet, Pending

(* The members of a new block are stored under head, each settled.         *)
LEMMA AoWriteSlotStep == StreamInv /\ AoWriteSlot => StreamInv'
<1> SUFFICES ASSUME StreamInv, AoWriteSlot PROVE StreamInv'
  OBVIOUS
<1>1. /\ made' = made + 1 /\ made' \in 0 .. MaxBlocks
      /\ seq = (made' - 1) % SeqMod
      /\ audio_pc = "idle" /\ audio_pc' = "publish" /\ ~Ring!queue_full
      /\ UNCHANGED <<head, tail, slot, netVars>>
  <2>1. made \in Nat /\ made < MaxBlocks /\ made' = made + 1
    BY StreamTypes DEF AoWriteSlot
  <2>2. made' \in 0 .. MaxBlocks /\ made = made' - 1
    BY <2>1, Sizes
  <2>3. QED
    BY <2>1, <2>2 DEF AoWriteSlot, StreamInv
<1>2. seq' = made' % SeqMod /\ seq' \in 0 .. SeqMod - 1
  <2>1. seq' = (seq + 1) % SeqMod /\ seq = made % SeqMod
    BY DEF AoWriteSlot, StreamInv
  <2>2. SeqMod \in Nat \ {0} /\ made \in Nat
    BY StreamTypes, Sizes
  <2>3. ((made % SeqMod) + 1) % SeqMod = (made + 1) % SeqMod
    BY <2>2, CountsModulo, Zenon
  <2>4. QED
    BY <1>1, <2>1, <2>2, <2>3
<1>3. DataLen \in Value /\ seq \in Value /\ made' \in Value
  <2>1. seq \in 0 .. SeqMod - 1 /\ made' \in 0 .. MaxBlocks
    BY <1>1 DEF StreamInv, TypeOK
  <2>2. QED
    BY <2>1, Sizes DEF Value
<1> DEFINE S == Store(wbuf, head, "len", DataLen)
           T == Store(S, head, "seq", seq)
<1>4. /\ "len" \in Field /\ "seq" \in Field /\ "data" \in Field
      /\ "len" \in Field \ {"seq"} /\ "len" \in Field \ {"data"}
      /\ "seq" \in Field \ {"data"}
  BY DEF Field
<1>5. S \subseteq Pending(head, Value) /\ QP!SettledIn(S, slot[head], "len", DataLen)
  BY <1>3, <1>4, StreamTypes, StoreSettles, Zenon
<1>6. wbuf' = Store(T, head, "data", made')
  BY DEF AoWriteSlot
<1> HIDE DEF S
<1>7. /\ T \subseteq Pending(head, Value)
      /\ QP!SettledIn(T, slot[head], "len", DataLen)
      /\ QP!SettledIn(T, slot[head], "seq", seq)
  BY <1>3, <1>4, <1>5, StoreSettles, Zenon
<1> HIDE DEF T
<1>8. /\ wbuf' \subseteq Pending(head, Value)
      /\ QP!SettledIn(wbuf', slot[head], "len", DataLen)
      /\ QP!SettledIn(wbuf', slot[head], "seq", seq)
      /\ QP!SettledIn(wbuf', slot[head], "data", made')
  BY <1>3, <1>4, <1>6, <1>7, StoreSettles, Zenon
<1> USE DEF netVars
<1>9. TypeOK'
  BY <1>1, <1>2, <1>8, Zenon DEF StreamInv, TypeOK, Ring!TypeOK, Pending
<1>10. Count' = Count /\ \A j : At(j)' = At(j)
  BY <1>1 DEF Count, At, Ring!Count, Ring!At
<1>11. made' = Len(taken) + Count + 1
  <2>1. Count \in Nat
    BY StreamTypes, RingShape, Sizes
  <2>2. QED
    BY <1>1, <2>1, StreamTypes DEF StreamInv
<1>12. audio_pc' = "publish" =>
         /\ ~Ring!queue_full'
         /\ Settled("data", made)'
         /\ Settled("len", DataLen)'
         /\ Settled("seq", (made - 1) % SeqMod)'
  BY <1>1, <1>8 DEF Settled, Ring!queue_full
<1>13. QED
  BY <1>1, <1>2, <1>9, <1>10, <1>11, <1>12, Zenon
     DEF StreamInv, Holds, WireIsStream, Ring!queue_empty

(* The fence has passed: the slot under head is the block just made.       *)
LEMMA AoWritePublishStep == StreamInv /\ AoWritePublish => StreamInv'
<1> SUFFICES ASSUME StreamInv, AoWritePublish PROVE StreamInv'
  OBVIOUS
<1>1. /\ head' = (head + 1) % SlotNum
      /\ wbuf = {} /\ audio_pc = "publish" /\ audio_pc' = "idle"
      /\ UNCHANGED <<tail, slot, wbuf, made, seq, netVars>>
  BY DEF AoWritePublish, wmb, Ring!queue_write_next
<1>2. /\ head' \in Index
      /\ Count' = Count + 1
      /\ At(Count) = head
      /\ \A j \in Nat : At(j)' = At(j)
  BY <1>1, StreamTypes, HeadMoves, Zenon DEF StreamInv
<1>3. Count \in Nat
  BY StreamTypes, RingShape, Sizes
<1>4. Holds(slot[head], made) /\ made = Len(taken) + Count + 1
  BY <1>1, <1>3, StreamTypes, Zenon DEF StreamInv, Settled, QP!SettledIn, Holds
<1>5. ASSUME NEW j \in 0 .. Count' - 1
      PROVE  Holds(slot'[At(j)'], Len(taken') + j + 1)
  <2>1. slot' = slot /\ taken' = taken /\ At(j)' = At(j)
    BY <1>1, <1>2 DEF netVars
  <2>2. CASE j = Count
    BY <1>2, <1>4, <2>1, <2>2
  <2>3. CASE j # Count
    <3>1. j \in 0 .. Count - 1
      BY <1>2, <1>3, <2>3
    <3>2. QED
      BY <2>1, <3>1 DEF StreamInv
  <2>4. QED
    BY <2>2, <2>3
<1> USE DEF netVars
<1>6. TypeOK'
  BY <1>1, <1>2, Zenon DEF StreamInv, TypeOK, Ring!TypeOK, Index
<1>7. ~Ring!queue_empty'
  BY <1>1 DEF StreamInv, Ring!queue_full, Ring!queue_empty
<1>8. made' = Len(taken') + Count'
  BY <1>1, <1>2, <1>3, <1>4, StreamTypes
<1>9. QED
  BY <1>1, <1>2, <1>3, <1>5, <1>6, <1>7, <1>8, SMTT(60) DEF StreamInv, WireIsStream

(* Leaving audio_playback_loop touches no slot.                            *)
LEMMA AudioEndsStep == StreamInv /\ AudioEnds => StreamInv'
<1> SUFFICES ASSUME StreamInv, AudioEnds PROVE StreamInv'
  OBVIOUS
<1> USE DEF AudioEnds, netVars
<1>1. TypeOK'
  BY Zenon DEF StreamInv, TypeOK, Ring!TypeOK
<1>2. Count' = Count /\ \A j : At(j)' = At(j)
  BY DEF Count, At, Ring!Count, Ring!At
<1>3. QED
  BY <1>1, <1>2, Zenon DEF StreamInv, WireIsStream, Ring!queue_empty

(* A store that becomes visible changes the slot under head alone.         *)
LEMMA VisibleFacts ==
  ASSUME StreamInv, StoreVisible
  PROVE  /\ wbuf' \subseteq Pending(head, Value)
         /\ slot' \in [Index -> [Field -> Value]]
         /\ slot' = [slot EXCEPT ![head] = slot'[head]]
         /\ \A i \in Index \ {head} : slot'[i] = slot[i]
         /\ \A f \in Field, u \in Value :
              QP!SettledIn(wbuf, slot[head], f, u) => QP!SettledIn(wbuf', slot'[head], f, u)
<1>1. /\ head \in Index
      /\ slot \in [Index -> [Field -> Value]]
      /\ wbuf \subseteq Pending(head, Value)
  BY StreamTypes
<1>2. PICK w \in wbuf : slot' = QP!Drained(slot, w) /\ wbuf' = wbuf \ {w}
  BY Zenon DEF StoreVisible, QP!Drained, Drained
<1>3. QP!Field = Field /\ QP!Pending(head, Value) = Pending(head, Value)
  BY DEF QP!Field, Field, QP!Pending, Pending
<1>4. /\ wbuf \subseteq QP!Pending(head, Value)
      /\ slot \in [Index -> [QP!Field -> Value]]
  BY <1>1, <1>3, Zenon
<1>5. /\ wbuf \ {w} \subseteq QP!Pending(head, Value)
      /\ QP!Drained(slot, w) \in [Index -> [QP!Field -> Value]]
      /\ QP!Drained(slot, w) = [slot EXCEPT ![head] = QP!Drained(slot, w)[head]]
      /\ \A i \in Index \ {head} : QP!Drained(slot, w)[i] = slot[i]
      /\ \A f \in QP!Field, u \in Value : QP!SettledIn(wbuf, slot[head], f, u)
           => QP!SettledIn(wbuf \ {w}, QP!Drained(slot, w)[head], f, u)
  BY <1>1, <1>4, RingConstants, QP!DrainSettles, Zenon
<1>6. QED
  BY <1>2, <1>3, <1>5, Zenon

(* Stores become visible under head, which holds no unread block.          *)
LEMMA StoreVisibleStep == StreamInv /\ StoreVisible => StreamInv'
<1> SUFFICES ASSUME StreamInv, StoreVisible PROVE StreamInv'
  OBVIOUS
<1>1. UNCHANGED <<head, tail, audioVars, netVars>>
  BY DEF StoreVisible
<1>2. /\ wbuf' \subseteq Pending(head, Value)
      /\ slot' \in [Index -> [Field -> Value]]
      /\ \A i \in Index \ {head} : slot'[i] = slot[i]
      /\ \A f \in Field, u \in Value :
           QP!SettledIn(wbuf, slot[head], f, u) => QP!SettledIn(wbuf', slot'[head], f, u)
  BY VisibleFacts
<1> USE DEF netVars, audioVars
<1>3. TypeOK'
  BY <1>1, <1>2, Zenon DEF StreamInv, TypeOK, Ring!TypeOK, Index, Packet, Pending
<1>4. Count' = Count /\ \A j : At(j)' = At(j)
  BY <1>1 DEF Count, At, Ring!Count, Ring!At
<1>5. ASSUME NEW j \in 0 .. Count - 1 PROVE slot'[At(j)] = slot[At(j)]
  BY <1>2, StreamTypes, RingShape
<1>6. audio_pc' = "publish" =>
        /\ ~Ring!queue_full'
        /\ Settled("data", made)'
        /\ Settled("len", DataLen)'
        /\ Settled("seq", (made - 1) % SeqMod)'
  <2> SUFFICES ASSUME audio_pc = "publish"
               PROVE  /\ ~Ring!queue_full'
                      /\ Settled("data", made)'
                      /\ Settled("len", DataLen)'
                      /\ Settled("seq", (made - 1) % SeqMod)'
    BY <1>1
  <2>1. made \in Nat /\ made <= MaxBlocks /\ made > 0
    <3>1. Count \in Nat
      BY StreamTypes, RingShape, Sizes
    <3>2. QED
      BY <3>1, StreamTypes DEF StreamInv
  <2>2. (made - 1) % SeqMod \in 0 .. SeqMod - 1
    BY <2>1, Sizes
  <2>3. made \in Value /\ DataLen \in Value /\ (made - 1) % SeqMod \in Value
    BY <2>1, <2>2, Sizes DEF Value
  <2>4. "data" \in Field /\ "len" \in Field /\ "seq" \in Field
    BY DEF Field
  <2>5. QED
    BY <1>1, <1>2, <2>3, <2>4, Zenon DEF StreamInv, Settled, Ring!queue_full
<1>7. net_pc \in {"send", "next"} => slot'[tail] = slot[tail]
  BY <1>2, StreamTypes, Zenon DEF StreamInv, Ring!queue_empty
<1>8. QED
  BY <1>1, <1>3, <1>4, <1>5, <1>6, <1>7, Zenon
     DEF StreamInv, WireIsStream, Ring!queue_empty

-----------------------------------------------------------------------------
(* The header is stamped with the number of the block under tail.          *)
LEMMA StampStep == StreamInv /\ Stamp => StreamInv'
<1> SUFFICES ASSUME StreamInv, Stamp PROVE StreamInv'
  OBVIOUS
<1> USE DEF audioVars
<1>1. slot[tail]["seq"] \in Value
  BY StreamTypes DEF Field
<1>2. tstamp' \in 0 .. TsMod - 1
  <2>1. CASE tstamp # 0
    <3>1. tstamp' = (tstamp + Samples) % TsMask /\ tstamp \in Nat
      BY <2>1 DEF Stamp, NextTimestamp, StreamInv, TypeOK
    <3>2. QED
      BY <3>1, Sizes
  <2>2. CASE tstamp = 0
    BY <2>2, Sizes DEF Stamp, NextTimestamp
  <2>3. QED
    BY <2>1, <2>2
<1>3. hdr' \in [seq : Value, ts : 0 .. TsMod - 1] /\ hdr'.seq = slot[tail]["seq"]
  BY <1>1, <1>2, Zenon DEF Stamp, Ring!queue_read_ptr
<1>4. TypeOK'
  BY <1>2, <1>3, Zenon DEF Stamp, StreamInv, TypeOK, Ring!TypeOK
<1>5. Count' = Count /\ \A j : At(j)' = At(j)
  BY Zenon DEF Stamp, Count, At, Ring!Count, Ring!At
<1>6. QED
  BY <1>3, <1>4, <1>5, Zenon
     DEF Stamp, StreamInv, Settled, WireIsStream, Ring!queue_empty, Ring!queue_full

(* The packet sendto() accepts is the block under tail, the next of the    *)
(* stream.                                                                 *)
LEMMA SendOkStep == StreamInv /\ SendOk => StreamInv'
<1> SUFFICES ASSUME StreamInv, SendOk PROVE StreamInv'
  OBVIOUS
<1> USE DEF audioVars
<1> DEFINE p == [seq |-> hdr.seq, ts |-> hdr.ts, len |-> slot[tail]["len"],
                 data |-> slot[tail]["data"]]
           P == [seq : Value, ts : 0 .. TsMod - 1, len : Value, data : Value]
<1>1. /\ wire' = Append(wire, p)
      /\ net_pc = "send" /\ net_pc' = "next"
      /\ UNCHANGED <<head, tail, slot, wbuf, audioVars, tstamp, hdr, taken>>
  BY DEF SendOk, Ring!queue_read_ptr
<1>2. p \in P
  <2>1. slot[tail]["len"] \in Value /\ slot[tail]["data"] \in Value
    BY StreamTypes DEF Field
  <2>2. hdr.seq \in Value /\ hdr.ts \in 0 .. TsMod - 1
    BY Zenon DEF StreamInv, TypeOK
  <2>3. QED
    BY <2>1, <2>2
<1>3. wire \in Seq(P) /\ Len(wire) = Len(taken) /\ Len(taken) \in Nat
  BY <1>1, StreamTypes DEF StreamInv, TypeOK
<1>4. Holds(slot[tail], Len(taken) + 1) /\ hdr.seq = slot[tail]["seq"]
  <2>1. 0 \in 0 .. Count - 1 /\ At(0) = tail
    BY <1>1, StreamTypes, RingShape, Sizes, SMTT(60) DEF StreamInv
  <2>2. Holds(slot[At(0)], Len(taken) + 0 + 1)
    BY <2>1, Zenon DEF StreamInv
  <2>3. QED
    BY <1>1, <1>3, <2>1, <2>2, Zenon DEF StreamInv
<1>5. /\ p.data = Len(wire) + 1 /\ p.len = DataLen
      /\ p.seq = ((Len(wire) + 1) - 1) % SeqMod
  BY <1>3, <1>4, Zenon DEF Holds
<1> HIDE DEF p, P
<1>6. wire' \in Seq(P) /\ Len(wire') = Len(wire) + 1
  BY <1>1, <1>2, <1>3
<1>7. ASSUME NEW k \in 1 .. Len(wire')
      PROVE  /\ wire'[k].data = k
             /\ wire'[k].len = DataLen
             /\ wire'[k].seq = (k - 1) % SeqMod
  <2>1. CASE k = Len(wire) + 1
    <3>1. wire'[k] = p
      BY <1>1, <1>2, <1>3, <2>1
    <3>2. QED
      BY <1>5, <2>1, <3>1
  <2>2. CASE k # Len(wire) + 1
    <3>1. k \in 1 .. Len(wire)
      BY <1>3, <1>6, <2>2
    <3>2. wire'[k] = wire[k]
      BY <1>1, <1>2, <1>3, <3>1
    <3>3. QED
      BY <3>1, <3>2, Zenon DEF StreamInv, WireIsStream
  <2>3. QED
    BY <2>1, <2>2
<1>8. TypeOK'
  BY <1>1, <1>6, Zenon DEF P, StreamInv, TypeOK, Ring!TypeOK
<1>9. Count' = Count /\ \A j : At(j)' = At(j)
  BY <1>1 DEF Count, At, Ring!Count, Ring!At
<1>10. QED
  BY <1>1, <1>3, <1>6, <1>7, <1>8, <1>9, Zenon
     DEF StreamInv, Settled, WireIsStream, Ring!queue_empty, Ring!queue_full

(* EAGAIN, an error or the stop flag: the slot stays, nothing was sent.    *)
LEMMA NothingSentStep ==
  StreamInv /\ (SendAgain \/ SendFails \/ NetworkEnds) => StreamInv'
<1> SUFFICES ASSUME StreamInv, SendAgain \/ SendFails \/ NetworkEnds
             PROVE  StreamInv'
  OBVIOUS
<1> USE DEF audioVars
<1>1. /\ net_pc \in {"send", "loop"} /\ net_pc' \in {"loop", "stopped"}
      /\ UNCHANGED <<head, tail, slot, wbuf, audioVars, tstamp, hdr, wire, taken>>
  BY DEF SendAgain, SendFails, NetworkEnds
<1>2. TypeOK'
  BY <1>1, Zenon DEF StreamInv, TypeOK, Ring!TypeOK
<1>3. Count' = Count /\ \A j : At(j)' = At(j)
  BY <1>1, SMTT(60) DEF Count, At, Ring!Count, Ring!At
<1>4. QED
  BY <1>1, <1>2, <1>3, Zenon
     DEF StreamInv, Settled, WireIsStream, Ring!queue_empty, Ring!queue_full

(* The slot given back is the one that was sent.                           *)
LEMMA ReadNextStep == StreamInv /\ ReadNext => StreamInv'
<1> SUFFICES ASSUME StreamInv, ReadNext PROVE StreamInv'
  OBVIOUS
<1> USE DEF audioVars
<1>1. /\ tail' = (tail + 1) % SlotNum
      /\ taken' = Append(taken, slot[tail])
      /\ net_pc = "next" /\ net_pc' = "loop"
      /\ UNCHANGED <<head, slot, wbuf, audioVars, tstamp, hdr, wire>>
  BY SMTT(60) DEF ReadNext, Ring!queue_read_next, Ring!queue_read_ptr
<1>2. /\ tail' \in Index
      /\ Count' = Count - 1
      /\ \A j \in 0 .. Count - 2 : At(j)' = At(j + 1)
      /\ ~Ring!queue_full'
  BY <1>1, StreamTypes, TailMoves, Zenon DEF StreamInv
<1>3. Count \in Nat /\ Count > 0
  BY <1>1, StreamTypes, RingShape, Sizes, SMTT(60) DEF StreamInv
<1>4. taken' \in Seq(Packet) /\ Len(taken') = Len(taken) + 1 /\ Len(taken) \in Nat
  BY <1>1, StreamTypes DEF Packet
<1>5. ASSUME NEW j \in 0 .. Count' - 1
      PROVE  Holds(slot'[At(j)'], Len(taken') + j + 1)
  <2>1. At(j)' = At(j + 1) /\ j + 1 \in 0 .. Count - 1
    BY <1>2, <1>3
  <2>2. Holds(slot[At(j + 1)], Len(taken) + (j + 1) + 1)
    BY <2>1, Zenon DEF StreamInv
  <2>3. Len(taken') + j + 1 = Len(taken) + (j + 1) + 1
    BY <1>4
  <2>4. QED
    BY <1>1, <2>1, <2>2, <2>3, Zenon
<1>6. TypeOK'
  BY <1>1, <1>2, <1>4, Zenon DEF StreamInv, TypeOK, Ring!TypeOK, Index
<1>7. /\ made' = Len(taken') + Count' + (IF audio_pc' = "publish" THEN 1 ELSE 0)
      /\ Len(wire') = Len(taken')
  BY <1>1, <1>2, <1>3, <1>4 DEF StreamInv
<1>8. QED
  BY <1>1, <1>2, <1>5, <1>6, <1>7 DEF StreamInv, Settled, WireIsStream

-----------------------------------------------------------------------------
(* StreamInv is inductive.                                                 *)
LEMMA StreamInvariant == Spec => []StreamInv
<1>1. StreamInv /\ UNCHANGED vars => StreamInv'
  <2> SUFFICES ASSUME StreamInv, UNCHANGED vars PROVE StreamInv'
    OBVIOUS
  <2> USE DEF vars
  <2>1. TypeOK'
    BY Zenon DEF StreamInv, TypeOK, Ring!TypeOK
  <2>2. Count' = Count /\ \A j : At(j)' = At(j)
    BY DEF Count, At, Ring!Count, Ring!At
  <2>3. QED
    BY <2>1, <2>2, Zenon
       DEF StreamInv, Settled, WireIsStream, Ring!queue_empty, Ring!queue_full
<1>2. StreamInv /\ [Next]_vars => StreamInv'
  BY <1>1, AoWriteSlotStep, AoWritePublishStep, AudioEndsStep, StoreVisibleStep,
     StampStep, SendOkStep, NothingSentStep, ReadNextStep
     DEF Next, Audio, Network
<1>3. QED
  BY <1>2, StreamInit, PTL DEF Spec

(* Indices, slots, pending stores, counters and timestamps of the record   *)
(* path stay in their ranges; every pending store of tonegen_ao_write is   *)
(* to slot[head].                                                          *)
THEOREM RecordType == Spec => []TypeOK
<1>1. StreamInv => TypeOK
  BY Zenon DEF StreamInv
<1>2. QED
  BY <1>1, StreamInvariant, PTL

(* What sendto() accepted is the stream tonegen_ao_write made, from its    *)
(* first block on, whole and in order, for every size of the ring and      *)
(* however often sendto() answers EAGAIN.                                  *)
THEOREM WireCarriesStream == Spec => []WireIsStream
<1>1. StreamInv => WireIsStream
  BY Zenon DEF StreamInv
<1>2. QED
  BY <1>1, StreamInvariant, PTL

(* The two threads use the ring as Queue allows.                           *)
THEOREM RecordUsesRing == Spec => RingSpec
<1>1. Init => Ring!Init
  BY DEF Init, Ring!Init
<1>2. StreamInv /\ [Next]_vars => [Ring!Next]_(Ring!vars)
  <2> SUFFICES ASSUME StreamInv, [Next]_vars PROVE [Ring!Next]_(Ring!vars)
    OBVIOUS
  <2>1. CASE UNCHANGED <<head, tail, slot, taken>>
    BY <2>1, SMTT(60) DEF Ring!vars
  <2>2. CASE AoWritePublish
    BY <2>2, Zenon DEF AoWritePublish, StreamInv, netVars, Ring!Publish, Ring!Next
  <2>3. CASE ReadNext
    <3>1. ~Ring!queue_empty
      BY <2>3, Zenon DEF ReadNext, StreamInv
    <3>2. QED
      BY <2>3, <3>1 DEF ReadNext, Ring!Consume, Ring!Next
  <2>4. CASE StoreVisible
    <3>1. head \in Index
      BY StreamTypes
    <3>2. /\ slot' = [slot EXCEPT ![head] = slot'[head]]
          /\ slot' \in [Index -> [Field -> Value]]
      BY <2>4, VisibleFacts, Zenon
    <3>3. slot'[head] \in Packet
      BY <3>1, <3>2 DEF Packet
    <3>4. QED
      BY <2>4, <3>2, <3>3, Zenon DEF StoreVisible, netVars, Ring!Fill, Ring!Next
  <2>5. QED
    BY <2>1, <2>2, <2>3, <2>4, Zenon
       DEF Next, Audio, Network, AoWriteSlot, AudioEnds, Stamp, SendOk, SendAgain,
           SendFails, NetworkEnds, vars, netVars
<1>3. QED
  BY <1>1, <1>2, StreamInvariant, PTL DEF Spec, RingSpec, Ring!Spec

(* The ring of QueueProofs, with this path's constants and variables, is   *)
(* the path's own ring: the same initial states, steps and contents.       *)
LEMMA SameRing ==
  /\ Ring!Init => QP!Init
  /\ [Ring!Next]_(Ring!vars) => [QP!Next]_(QP!vars)
  /\ Ring!Contents = QP!Contents /\ (Ring!Contents = QP!Contents)'
<1> USE DEF Ring!Index, QP!Index
<1>1. Ring!Init => QP!Init
  BY DEF Ring!Init, QP!Init, Ring!aoip_queue_init, QP!aoip_queue_init
<1>2. [Ring!Next]_(Ring!vars) => [QP!Next]_(QP!vars)
  BY Zenon DEF Ring!Next, QP!Next, Ring!vars, QP!vars, Ring!Fill, QP!Fill, Ring!Publish,
         QP!Publish, Ring!Consume, QP!Consume, Ring!queue_full, QP!queue_full,
         Ring!queue_empty, QP!queue_empty, Ring!queue_write_next, QP!queue_write_next,
         Ring!queue_read_next, QP!queue_read_next, Ring!queue_read_ptr, QP!queue_read_ptr
<1>3. Ring!Contents = QP!Contents /\ (Ring!Contents = QP!Contents)'
  BY Zenon DEF Ring!Contents, QP!Contents, Ring!Count, QP!Count, Ring!At, QP!At
<1>4. QED
  BY <1>1, <1>2, <1>3

(* The record path as a whole is a FIFO of at most SlotNum - 1 packets:    *)
(* aoip_write_cb puts blocks at its end, the sender takes them from its    *)
(* front, and no interleaving of the two threads, no delayed store and no  *)
(* repeated send drops, doubles or reorders a block between them.          *)
THEOREM RecordIsFifo == Spec => Ring!FifoSpec
<1>1. RingSpec => QP!Spec
  BY SameRing, PTL DEF RingSpec, Ring!Spec, QP!Spec
<1>2. QP!Spec => QP!FifoSpec
  BY RingConstants, QP!QueueIsFifo, Zenon
<1>3. QP!Fifo!Init => Ring!Fifo!Init
  BY SameRing DEF Ring!Fifo!Init, QP!Fifo!Init
<1>4. [QP!Fifo!Next]_(QP!Fifo!vars) => [Ring!Fifo!Next]_(Ring!Fifo!vars)
  BY SameRing DEF Ring!Fifo!Next, QP!Fifo!Next, Ring!Fifo!vars, QP!Fifo!vars,
                  Ring!Fifo!Put, QP!Fifo!Put, Ring!Fifo!Get, QP!Fifo!Get
<1>5. QED
  BY <1>1, <1>2, <1>3, <1>4, RecordUsesRing, PTL
     DEF QP!FifoSpec, QP!Fifo!Spec, Ring!FifoSpec, Ring!Fifo!Spec
=============================================================================
