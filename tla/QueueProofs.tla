---------------------------- MODULE QueueProofs -----------------------------
(***************************************************************************)
(* Proofs about the ring, for every number of slots, and the lemmas about  *)
(* one producer's stores and its sequence numbers that the proofs of both  *)
(* data paths take from here through their instance of this module.        *)
(***************************************************************************)
EXTENDS Queue, Fence, TLAPS

(* Advancing an index with the mask is adding one, except at the last      *)
(* slot, which is followed by slot 0.                                      *)
LEMMA MaskedNext ==
  ASSUME NEW i \in Index
  PROVE  (i + 1) % SlotNum = IF i = SlotNum - 1 THEN 0 ELSE i + 1
<1>1. CASE i = SlotNum - 1
  BY <1>1, SlotNumAssumption DEF Index
<1>2. CASE i # SlotNum - 1
  BY <1>2, SlotNumAssumption DEF Index
<1> QED BY <1>1, <1>2

(* The indices stay in the ring and slots only ever hold packets.          *)
THEOREM QueueType == Spec => []TypeOK
<1> USE SlotNumAssumption, BlankAssumption
<1>1. Init => TypeOK
  BY DEF Init, aoip_queue_init, TypeOK, Index
<1>2. TypeOK /\ [Next]_vars => TypeOK'
  <2> SUFFICES ASSUME TypeOK, [Next]_vars PROVE TypeOK'
    OBVIOUS
  <2>1. ASSUME NEW p \in Packet, Fill(p) PROVE TypeOK'
    BY <2>1 DEF Fill, TypeOK
  <2>2. CASE Publish
    BY <2>2, MaskedNext DEF Publish, queue_write_next, TypeOK, Index
  <2>3. CASE Consume
    BY <2>3, MaskedNext DEF Consume, queue_read_next, queue_read_ptr, TypeOK, Index
  <2>4. CASE UNCHANGED vars
    BY <2>4 DEF vars, TypeOK
  <2> QED BY <2>1, <2>2, <2>3, <2>4 DEF Next
<1> QED BY <1>1, <1>2, PTL DEF Spec

-----------------------------------------------------------------------------
(* The refinement: facts about where the unread packets sit.               *)

(* The slot under head is not one of the unread slots.                     *)
LEMMA HeadIsFree ==
  ASSUME TypeOK, NEW j \in 0 .. Count - 1
  PROVE  At(j) \in Index /\ At(j) # head
BY SlotNumAssumption DEF TypeOK, Count, At, Index

(* The ring never claims more than SlotNum - 1 packets, and is full        *)
(* exactly then; it is empty exactly when it claims none.                  *)
LEMMA CountFacts ==
  ASSUME TypeOK
  PROVE  /\ Count \in 0 .. SlotNum - 1
         /\ queue_full <=> Count = SlotNum - 1
         /\ queue_empty <=> Count = 0
BY SlotNumAssumption, MaskedNext DEF TypeOK, Count, Index, queue_full, queue_empty

(* The unread packets form a sequence as long as the indices say.          *)
LEMMA ContentsType ==
  ASSUME TypeOK
  PROVE  Contents \in Seq(Packet) /\ Len(Contents) = Count
<1>1. Count \in Nat
  BY CountFacts, SlotNumAssumption
<1>2. ASSUME NEW j \in 1..Count PROVE slot[At(j - 1)] \in Packet
  BY <1>1, HeadIsFree DEF TypeOK
<1> QED BY <1>1, <1>2 DEF Contents

(* Whatever the producer stores under head, the unread packets stay.       *)
LEMMA FillKeepsContents ==
  ASSUME TypeOK, NEW p \in Packet, Fill(p)
  PROVE  Contents' = Contents /\ out' = out
<1>1. Count' = Count /\ Count \in Nat
  BY CountFacts, SlotNumAssumption DEF Fill, Count
<1>2. ASSUME NEW j \in 1..Count PROVE slot'[At(j - 1)'] = slot[At(j - 1)]
  BY <1>1, HeadIsFree DEF Fill, At, TypeOK
<1> QED BY <1>1, <1>2 DEF Contents, Fill

(* Advancing head appends what is stored under it.                         *)
LEMMA PublishAppends ==
  ASSUME TypeOK, Publish
  PROVE  /\ Count < SlotNum - 1
         /\ slot[head] \in Packet
         /\ Contents' = Append(Contents, slot[head])
<1> USE SlotNumAssumption
<1>1. Count \in 0 .. SlotNum - 2
  BY CountFacts DEF Publish
<1> head' = IF head = SlotNum - 1 THEN 0 ELSE head + 1
  BY MaskedNext DEF Publish, queue_write_next, TypeOK
<1>2. Count' = Count + 1
  BY <1>1 DEF Publish, Count, TypeOK, Index
<1>3. ASSUME NEW j \in 1..Count PROVE slot'[At(j - 1)'] = slot[At(j - 1)]
  BY DEF Publish, At
<1>4. At(Count) = head
  BY <1>1 DEF At, Count, TypeOK, Index
<1>5. slot[head] \in Packet
  BY DEF TypeOK
<1>6. Contents \in Seq(Packet) /\ Len(Contents) = Count
  BY ContentsType
<1>7. Contents' = [j \in 1 .. Count + 1 |-> IF j = Count + 1 THEN slot[head] ELSE slot[At(j - 1)]]
  <2>1. ASSUME NEW j \in 1 .. Count + 1
        PROVE  slot'[At(j - 1)'] = IF j = Count + 1 THEN slot[head] ELSE slot[At(j - 1)]
    <3>1. CASE j = Count + 1
      <4>1. j - 1 = Count
        BY <1>1, <3>1
      <4>2. At(j - 1)' = head
        BY <1>4, <4>1 DEF At, Publish
      <4> QED BY <3>1, <4>2 DEF Publish
    <3>2. CASE j # Count + 1
      <4>1. j \in 1..Count
        BY <1>1, <3>2
      <4> QED BY <1>3, <3>2, <4>1
    <3> QED BY <3>1, <3>2
  <2>2. Contents' = [j \in 1 .. Count' |-> slot'[At(j - 1)']]
    BY DEF Contents
  <2> QED BY <1>2, <2>1, <2>2
<1>8. Append(Contents, slot[head]) =
        [j \in 1 .. Count + 1 |-> IF j = Count + 1 THEN slot[head] ELSE slot[At(j - 1)]]
  BY <1>1, <1>5, <1>6 DEF Contents
<1> QED BY <1>1, <1>5, <1>7, <1>8

(* Advancing tail removes the oldest packet, the one queue_read_ptr gave.  *)
LEMMA ConsumeRemoves ==
  ASSUME TypeOK, Consume
  PROVE  /\ Contents # <<>>
         /\ queue_read_ptr = Head(Contents)
         /\ Contents' = Tail(Contents)
<1> USE SlotNumAssumption
<1>1. Count \in 1 .. SlotNum - 1
  BY CountFacts DEF Consume
<1> tail' = IF tail = SlotNum - 1 THEN 0 ELSE tail + 1
  BY MaskedNext DEF Consume, queue_read_next, TypeOK
<1>2. Count' = Count - 1
  BY <1>1 DEF Consume, Count, TypeOK, Index
<1>3. ASSUME NEW j \in 1 .. Count - 1 PROVE slot'[At(j - 1)'] = slot[At(j)]
  <2>1. At(j - 1)' = At(j)
    BY <1>1 DEF At, TypeOK, Index
  <2> QED BY <2>1 DEF Consume
<1>4. slot[At(0)] = slot[tail]
  BY DEF At, TypeOK, Index
<1>5. Contents \in Seq(Packet) /\ Len(Contents) = Count
  BY ContentsType
<1>6. Contents # <<>> /\ Head(Contents) = slot[tail]
  BY <1>1, <1>4, <1>5 DEF Contents
<1>7. Contents' = [j \in 1 .. Count - 1 |-> slot[At(j)]]
  BY <1>1, <1>2, <1>3 DEF Contents
<1>8. Tail(Contents) = [j \in 1 .. Count - 1 |-> slot[At(j)]]
  BY <1>1, <1>5, SMTT(60) DEF Contents
<1> QED BY <1>6, <1>7, <1>8 DEF queue_read_ptr

(* The ring implements the FIFO of PacketFifo, for every number of slots:  *)
(* lock-free use of head, tail and the one-slot gap loses, duplicates,     *)
(* reorders and overwrites nothing.                                        *)
THEOREM QueueIsFifo == Spec => FifoSpec
<1>1. Init => Fifo!Init
  BY SlotNumAssumption DEF Init, aoip_queue_init, Fifo!Init, Contents, Count
<1>2. TypeOK /\ [Next]_vars => [Fifo!Next]_(Fifo!vars)
  <2> SUFFICES ASSUME TypeOK, [Next]_vars PROVE [Fifo!Next]_(Fifo!vars)
    OBVIOUS
  <2>1. ASSUME NEW p \in Packet, Fill(p) PROVE UNCHANGED Fifo!vars
    BY <2>1, FillKeepsContents DEF Fifo!vars
  <2>2. CASE Publish
    <3>1. Len(Contents) < SlotNum - 1 /\ out' = out
      BY <2>2, PublishAppends, ContentsType DEF Publish
    <3>2. Fifo!Put(slot[head])
      BY <2>2, <3>1, PublishAppends DEF Fifo!Put
    <3> QED BY <2>2, <3>2, PublishAppends DEF Fifo!Next
  <2>3. CASE Consume
    <3>1. Fifo!Get
      BY <2>3, ConsumeRemoves DEF Fifo!Get, Consume
    <3> QED BY <3>1 DEF Fifo!Next
  <2>4. CASE UNCHANGED vars
    BY <2>4 DEF vars, Fifo!vars, Contents, Count, At
  <2> QED BY <2>1, <2>2, <2>3, <2>4 DEF Next
<1> QED BY <1>1, <1>2, QueueType, PTL DEF Spec, FifoSpec, Fifo!Spec

-----------------------------------------------------------------------------
(* Quotient and remainder are unique.                                      *)
LEMMA SameRemainder ==
  ASSUME NEW m \in Nat \ {0}, NEW q \in Nat, NEW p \in Nat,
         NEW r \in 0 .. m - 1, NEW s \in 0 .. m - 1, m * q + r = m * p + s
  PROVE  r = s
<1>1. CASE p > q
  <2>1. m * p >= m * q + m
    BY <1>1
  <2>2. QED
    BY <2>1
<1>2. CASE p < q
  <2>1. m * q >= m * p + m
    BY <1>2
  <2>2. QED
    BY <2>1
<1>3. CASE p = q
  BY <1>3
<1>4. QED
  BY <1>1, <1>2, <1>3

(* Counting with a mask counts modulo: slot->seq is the number of packets  *)
(* accepted before, as far as its width goes.                              *)
LEMMA CountsModulo ==
  ASSUME NEW m \in Nat \ {0}, NEW a \in Nat
  PROVE  ((a % m) + 1) % m = (a + 1) % m
<1> DEFINE r == a % m
           q == a \div m
           t == (r + 1) % m
           u == (r + 1) \div m
           s == (a + 1) % m
           p == (a + 1) \div m
<1>1. r \in 0 .. m - 1 /\ q \in Nat /\ a = m * q + r
  OBVIOUS
<1>2. t \in 0 .. m - 1 /\ u \in Nat /\ r + 1 = m * u + t
  BY <1>1
<1>3. s \in 0 .. m - 1 /\ p \in Nat /\ a + 1 = m * p + s
  OBVIOUS
<1> HIDE DEF r, q, t, u, s, p
<1>4. m * (q + u) + t = m * p + s /\ q + u \in Nat
  BY <1>1, <1>2, <1>3
<1>5. t = s
  BY <1>2, <1>3, <1>4, SameRemainder, Zenon
<1>6. QED
  BY <1>5 DEF t, s, r

-----------------------------------------------------------------------------
(* Stores to slot i of values in V. *)
Pending(i, V) == [at : {i}, field : Field, val : V]

(* Once the stores S to a slot that holds p are visible, its member f is v. *)
SettledIn(S, p, f, v) ==
  /\ \A w \in S : w.field = f => w.val = v
  /\ (\E w \in S : w.field = f) \/ p[f] = v

(* A store adds one entry for its slot, settles the member it stores to    *)
(* and leaves the others as they were.                                     *)
LEMMA StoreSettles ==
  ASSUME NEW i, NEW V, NEW S, S \subseteq Pending(i, V),
         NEW f \in Field, NEW v \in V, NEW p
  PROVE  /\ Store(S, i, f, v) \subseteq Pending(i, V)
         /\ SettledIn(Store(S, i, f, v), p, f, v)
         /\ \A g \in Field \ {f}, u \in V :
              SettledIn(S, p, g, u) => SettledIn(Store(S, i, f, v), p, g, u)
<1> DEFINE new == [at |-> i, field |-> f, val |-> v]
           T == Store(S, i, f, v)
<1>1. T = {w \in S : w.field # f} \cup {new}
  BY DEF Store, Pending
<1>2. new \in Pending(i, V) /\ new.field = f /\ new.val = v
  BY DEF Pending
<1> HIDE DEF new, T
<1>3. T \subseteq Pending(i, V)
  BY <1>1, <1>2
<1>4. SettledIn(T, p, f, v)
  BY <1>1, <1>2 DEF SettledIn
<1>5. ASSUME NEW g \in Field \ {f}, NEW u \in V, SettledIn(S, p, g, u)
      PROVE  SettledIn(T, p, g, u)
  BY <1>1, <1>2, <1>5 DEF SettledIn
<1>6. QED
  BY <1>3, <1>4, <1>5 DEF T

(* A store that becomes visible changes one member of the producer's slot  *)
(* and leaves every member as settled as it was.                           *)
LEMMA DrainSettles ==
  ASSUME NEW I, NEW h \in I, NEW V, NEW S, S \subseteq Pending(h, V), NEW w \in S,
         NEW p \in [I -> [Field -> V]]
  PROVE  /\ S \ {w} \subseteq Pending(h, V)
         /\ Drained(p, w) \in [I -> [Field -> V]]
         /\ Drained(p, w) = [p EXCEPT ![h] = Drained(p, w)[h]]
         /\ \A i \in I \ {h} : Drained(p, w)[i] = p[i]
         /\ \A f \in Field, u \in V :
              SettledIn(S, p[h], f, u) => SettledIn(S \ {w}, Drained(p, w)[h], f, u)
<1> DEFINE q == Drained(p, w)
<1>1. w.at = h /\ w.field \in Field /\ w.val \in V
  BY DEF Pending
<1>2. q = [p EXCEPT ![h] = [p[h] EXCEPT ![w.field] = w.val]]
  BY <1>1 DEF Drained
<1>3. [p[h] EXCEPT ![w.field] = w.val] \in [Field -> V]
  BY <1>1
<1> HIDE DEF q
<1>4. q[h] = [p[h] EXCEPT ![w.field] = w.val]
  BY <1>2
<1>5. ASSUME NEW f \in Field, NEW u \in V, SettledIn(S, p[h], f, u)
      PROVE  SettledIn(S \ {w}, q[h], f, u)
  <2>1. CASE f = w.field
    BY <1>1, <1>4, <1>5, <2>1 DEF SettledIn
  <2>2. CASE f # w.field
    BY <1>1, <1>4, <1>5, <2>2 DEF SettledIn
  <2>3. QED
    BY <2>1, <2>2
<1>6. q \in [I -> [Field -> V]] /\ q = [p EXCEPT ![h] = q[h]]
      /\ \A i \in I \ {h} : q[i] = p[i]
  BY <1>2, <1>3, <1>4
<1>7. QED
  BY <1>5, <1>6, Zenon DEF q
=============================================================================
