--------------------------- MODULE RtpDumpProofs ----------------------------
(***************************************************************************)
(* Proofs about the WAV writer of rtpdump, for every sample size, every    *)
(* modulus of the sizes, every file that was there before and every way    *)
(* the writes may fall short: types, what the header says of the file, the *)
(* count of the frames received, and where their bytes are.                *)
(***************************************************************************)
EXTENDS RtpDump, WellFoundedInduction, TLAPS

(* What audio_cb_run knows between its steps.  received_frames counts the  *)
(* writes, and the file position is what they took; a failure is           *)
(* remembered in ret, and once it is seen the loop is left for good.       *)
Inv ==
  /\ TypeOK
  /\ Len(len) <= MaxPackets
  /\ pc = "copy" => Len(len) > 0
  /\ pc = "open" => took = <<>> /\ pos = 0
  /\ pc \in {"open", "loop", "closed"} => ret = 0
  /\ ret = 0 => \A j \in 1..Len(took) : took[j] > 0
  /\ received_frames = Len(took) % U32
  /\ pos = began + Total(took)

-----------------------------------------------------------------------------
(* Quotient and remainder are unique.                                      *)
LEMMA SameRemainder ==
  ASSUME NEW m \in Nat \ {0}, NEW q \in Nat, NEW p \in Nat,
         NEW r \in 0 .. m - 1, NEW s \in 0 .. m - 1, m * q + r = m * p + s
  PROVE  r = s
<1>1. CASE p > q
  <2>1. m * p >= m * q + m
    BY <1>1
  <2>2. QED
    BY <2>1
<1>2. CASE p < q
  <2>1. m * q >= m * p + m
    BY <1>2
  <2>2. QED
    BY <2>1
<1>3. CASE p = q
  BY <1>3
<1>4. QED
  BY <1>1, <1>2, <1>3

(* Counting in so many bits counts modulo: received_frames is the number   *)
(* of frames received, as far as its width goes.                           *)
LEMMA CountsModulo ==
  ASSUME NEW m \in Nat \ {0}, NEW a \in Nat, NEW b \in Nat
  PROVE  ((a % m) + b) % m = (a + b) % m
<1> DEFINE r == a % m
           q == a \div m
           t == (r + b) % m
           u == (r + b) \div m
           s == (a + b) % m
           p == (a + b) \div m
<1>1. r \in 0 .. m - 1 /\ q \in Nat /\ a = m * q + r
  OBVIOUS
<1>2. t \in 0 .. m - 1 /\ u \in Nat /\ r + b = m * u + t
  BY <1>1
<1>3. s \in 0 .. m - 1 /\ p \in Nat /\ a + b = m * p + s
  OBVIOUS
<1> HIDE DEF r, q, t, u, s, p
<1>4. m * (q + u) + t = m * p + s /\ q + u \in Nat
  BY <1>1, <1>2, <1>3
<1>5. t = s
  BY <1>2, <1>3, <1>4, SameRemainder, Zenon
<1>6. QED
  BY <1>5 DEF t, s, r

(* The product of a wrapped count, wrapped, is the wrapped product: the    *)
(* sizes computed from received_frames are those of the true count.        *)
LEMMA ProductModulo ==
  ASSUME NEW m \in Nat \ {0}, NEW a \in Nat, NEW f \in Nat
  PROVE  ((a % m) * f) % m = (a * f) % m
<1> DEFINE r == a % m
           q == a \div m
           x == r * f
           t == x % m
           u == x \div m
           y == a * f
           s == y % m
           p == y \div m
<1>1. r \in 0 .. m - 1 /\ q \in Nat /\ a = m * q + r
  OBVIOUS
<1>2. x \in Nat /\ y \in Nat
  BY <1>1
<1>3. t \in 0 .. m - 1 /\ u \in Nat /\ x = m * u + t
  BY <1>2
<1>4. s \in 0 .. m - 1 /\ p \in Nat /\ y = m * p + s
  BY <1>2
<1>5. y = m * (q * f) + x
  BY <1>1
<1> HIDE DEF r, q, t, u, s, p, x, y
<1>6. q * f \in Nat
  BY <1>1
<1>7. m * (q * f + u) = m * (q * f) + m * u
  BY <1>3, <1>6
<1>8. m * (q * f + u) + t = m * p + s /\ q * f + u \in Nat
  BY <1>2, <1>3, <1>4, <1>5, <1>6, <1>7
<1>9. t = s
  BY <1>3, <1>4, <1>8, SameRemainder, Zenon
<1>10. QED
  BY <1>9 DEF t, s, r, x, y

(* A function on 1..n is a sequence of length n.                           *)
LEMMA SequenceOf ==
  ASSUME NEW S, NEW n \in Nat, NEW s \in [1..n -> S]
  PROVE  s \in Seq(S) /\ Len(s) = n
OBVIOUS

(* What a sequence is made of.                                             *)
LEMMA ElementsOf ==
  ASSUME NEW S, NEW T, S \subseteq T, NEW s \in Seq(S)
  PROVE  Len(s) \in Nat /\ (\A j \in 1..Len(s) : s[j] \in S) /\ s \in Seq(T)
<1>1. Len(s) \in Nat /\ s \in [1..Len(s) -> S]
  OBVIOUS
<1>2. s \in [1..Len(s) -> T]
  BY <1>1
<1> QED BY <1>1, <1>2, SequenceOf, Zenon

(* Induction over the numbers.  The library states it for an operator;     *)
(* here it is about a set, from the least element of its complement.       *)
LEMMA SetInduction ==
  ASSUME NEW S, 0 \in S, \A n \in Nat : n \in S => n + 1 \in S
  PROVE  Nat \subseteq S
<1> DEFINE T == Nat \ S
<1> SUFFICES ASSUME T # {} PROVE FALSE
  OBVIOUS
<1> HIDE DEF T
<1>1. T \subseteq Nat
  BY DEF T
<1>2. PICK x \in T : \A y \in T : ~(<<y, x>> \in OpToRel(<, Nat))
  BY <1>1, NatLessThanWellFounded, WFMin, Zenon
<1>3. \A y \in T : ~(y < x)
  BY <1>1, <1>2, Zenon DEF OpToRel
<1>4. x \in Nat /\ x \notin S
  BY <1>2, Zenon DEF T
<1>5. x # 0
  BY <1>4
<1>6. x - 1 \in Nat /\ x - 1 < x /\ (x - 1) + 1 = x
  BY <1>4, <1>5
<1>7. x - 1 \in S
  BY <1>3, <1>6 DEF T
<1>8. QED
  BY <1>4, <1>6, <1>7

(* A function of running sums exists.                                      *)
LEMMA SumsExist ==
  ASSUME NEW s \in Seq(Nat)
  PROVE  \E f \in [0..Len(s) -> Nat] :
           f = [k \in 0..Len(s) |-> IF k = 0 THEN 0 ELSE f[k - 1] + s[k]]
<1> DEFINE Ok(n, f) == f = [k \in 0..n |-> IF k = 0 THEN 0 ELSE f[k - 1] + s[k]]
           S == {n \in Nat : n <= Len(s) => \E f \in [0..n -> Nat] : Ok(n, f)}
<1>1. 0 \in S
  <2>1. Ok(0, [k \in 0..0 |-> 0]) /\ [k \in 0..0 |-> 0] \in [0..0 -> Nat]
    OBVIOUS
  <2>2. QED
    BY <2>1, Zenon
<1>2. ASSUME NEW n \in Nat, n \in S PROVE n + 1 \in S
  <2> SUFFICES ASSUME n + 1 <= Len(s) PROVE \E f \in [0 .. n + 1 -> Nat] : Ok(n + 1, f)
    <3>1. n + 1 \in Nat
      OBVIOUS
    <3>2. QED
      BY <3>1, Zenon
  <2>1. PICK f \in [0..n -> Nat] : Ok(n, f)
    BY <1>2, SMTT(60)
  <2> DEFINE g == [k \in 0 .. n + 1 |-> IF k = n + 1 THEN f[n] + s[n + 1] ELSE f[k]]
  <2>2. s[n + 1] \in Nat
    OBVIOUS
  <2>3. g \in [0 .. n + 1 -> Nat]
    BY <2>2, SMTT(60)
  <2>4. ASSUME NEW k \in 0 .. n + 1
        PROVE  g[k] = IF k = 0 THEN 0 ELSE g[k - 1] + s[k]
    <3>1. CASE k = n + 1
      BY <3>1
    <3>2. CASE k # n + 1
      <4>1. f[k] = IF k = 0 THEN 0 ELSE f[k - 1] + s[k]
        BY <2>1, <3>2, SMTT(60)
      <4>2. QED
        BY <3>2, <4>1
    <3>3. QED
      BY <3>1, <3>2
  <2> HIDE DEF g
  <2>5. Ok(n + 1, g)
    BY <2>3, <2>4
  <2>6. QED
    BY <2>3, <2>5, Zenon
<1> HIDE DEF S
<1>3. Len(s) \in S
  BY <1>1, <1>2, SetInduction, SMTT(60)
<1>4. QED
  BY <1>3 DEF S

(* Running sums are numbers, and each is the one before it and one more    *)
(* element.                                                                *)
LEMMA SumsStep ==
  ASSUME NEW s \in Seq(Nat)
  PROVE  /\ Sums(s) \in [0..Len(s) -> Nat]
         /\ Sums(s)[0] = 0
         /\ \A k \in 1..Len(s) : Sums(s)[k] = Sums(s)[k - 1] + s[k]
<1> DEFINE Is(f) == f = [k \in 0..Len(s) |-> IF k = 0 THEN 0 ELSE f[k - 1] + s[k]]
<1>1. Sums(s) = CHOOSE f : Is(f)
  BY DEF Sums
<1>2. PICK g \in [0..Len(s) -> Nat] : Is(g)
  BY SumsExist, Zenon
<1>3. Is(Sums(s))
  BY <1>1, <1>2, Zenon
<1>4. /\ Sums(s)[0] = 0
      /\ \A k \in 1..Len(s) : Sums(s)[k] = Sums(s)[k - 1] + s[k]
  <2>1. \A k \in 0..Len(s) : Sums(s)[k] = IF k = 0 THEN 0 ELSE Sums(s)[k - 1] + s[k]
    BY <1>3, Zenon
  <2>2. QED
    BY <2>1
<1> DEFINE S == {n \in Nat : n <= Len(s) => Sums(s)[n] \in Nat}
<1>5. ASSUME NEW n \in Nat, n \in S PROVE n + 1 \in S
  <2> SUFFICES ASSUME n + 1 <= Len(s) PROVE Sums(s)[n + 1] \in Nat
    <3>1. n + 1 \in Nat
      OBVIOUS
    <3>2. QED
      BY <3>1, Zenon
  <2>1. n + 1 \in 1..Len(s) /\ n <= Len(s) /\ (n + 1) - 1 = n /\ s[n + 1] \in Nat
    OBVIOUS
  <2>2. Sums(s)[n + 1] = Sums(s)[n] + s[n + 1]
    BY <1>4, <2>1
  <2>3. QED
    BY <1>5, <2>1, <2>2
<1>6. 0 \in S
  BY <1>4
<1> HIDE DEF S
<1>7. Nat \subseteq S
  BY <1>5, <1>6, SetInduction, Zenon
<1>8. \A k \in 0..Len(s) : Sums(s)[k] \in Nat
  BY <1>7 DEF S
<1>9. QED
  BY <1>3, <1>4, <1>8, Zenon

(* One element more leaves the earlier sums.                               *)
LEMMA SumsAppend ==
  ASSUME NEW s \in Seq(Nat), NEW x \in Nat
  PROVE  \A n \in 0..Len(s) : Sums(Append(s, x))[n] = Sums(s)[n]
<1> DEFINE t == Append(s, x)
           S == {n \in Nat : n <= Len(s) => Sums(t)[n] = Sums(s)[n]}
<1>1. /\ t \in Seq(Nat) /\ Len(t) = Len(s) + 1 /\ t[Len(s) + 1] = x
      /\ \A k \in 1..Len(s) : t[k] = s[k]
  OBVIOUS
<1> HIDE DEF t
<1>2. 0 \in S
  BY <1>1, SumsStep
<1>3. ASSUME NEW n \in Nat, n \in S PROVE n + 1 \in S
  <2> SUFFICES ASSUME n + 1 <= Len(s) PROVE Sums(t)[n + 1] = Sums(s)[n + 1]
    <3>1. n + 1 \in Nat
      OBVIOUS
    <3>2. QED
      BY <3>1, Zenon
  <2>1. n + 1 \in 1..Len(s) /\ n + 1 \in 1..Len(t) /\ n <= Len(s) /\ (n + 1) - 1 = n
    BY <1>1
  <2>2. Sums(t)[n + 1] = Sums(t)[n] + t[n + 1] /\ Sums(s)[n + 1] = Sums(s)[n] + s[n + 1]
    BY <1>1, <2>1, SumsStep, Zenon
  <2>3. QED
    BY <1>1, <1>3, <2>1, <2>2
<1> HIDE DEF S
<1>4. Nat \subseteq S
  BY <1>2, <1>3, SetInduction, Zenon
<1>5. QED
  BY <1>4 DEF S, t

(* Sums of numbers do not decrease.                                        *)
LEMMA SumsGrow ==
  ASSUME NEW s \in Seq(Nat), NEW m \in 0..Len(s)
  PROVE  \A n \in m..Len(s) : Sums(s)[m] <= Sums(s)[n]
<1> DEFINE S == {n \in Nat : n \in m..Len(s) => Sums(s)[m] <= Sums(s)[n]}
<1>1. /\ \A k \in 0..Len(s) : Sums(s)[k] \in Nat
      /\ \A k \in 1..Len(s) : Sums(s)[k] = Sums(s)[k - 1] + s[k]
  BY SumsStep, Zenon
<1>2. 0 \in S
  BY <1>1
<1>3. ASSUME NEW n \in Nat, n \in S PROVE n + 1 \in S
  <2> SUFFICES ASSUME n + 1 \in m..Len(s) PROVE Sums(s)[m] <= Sums(s)[n + 1]
    OBVIOUS
  <2>1. CASE n + 1 = m
    BY <1>1, <2>1
  <2>2. CASE n + 1 # m
    <3>1. /\ n \in m..Len(s) /\ n \in 0..Len(s)
          /\ n + 1 \in 1..Len(s) /\ (n + 1) - 1 = n /\ s[n + 1] \in Nat
      BY <2>2
    <3>2. Sums(s)[n + 1] = Sums(s)[n] + s[n + 1]
      BY <1>1, <3>1
    <3>3. Sums(s)[m] <= Sums(s)[n] /\ Sums(s)[m] \in Nat /\ Sums(s)[n] \in Nat
      BY <1>1, <1>3, <3>1
    <3>4. QED
      BY <3>1, <3>2, <3>3
  <2>3. QED
    BY <2>1, <2>2
<1> HIDE DEF S
<1>4. Nat \subseteq S
  BY <1>2, <1>3, SetInduction, Zenon
<1>5. QED
  BY <1>4 DEF S

-----------------------------------------------------------------------------
(* Sizes and offsets are numbers.                                          *)
LEMMA Numbers ==
  /\ Hdr \in Nat /\ SampleSize \in Nat /\ FrameSize \in Nat /\ U32 \in Nat
  /\ WavHdr \in Nat /\ SizeLen \in Nat /\ ChunkAt \in Nat /\ DataAt \in Nat /\ Space \in Nat
  /\ SampleSize > 0 /\ FrameSize > 0 /\ SizeLen > 0 /\ U32 > 0
BY DumpAssumption DEF FrameSize

(* A frame that was taken is a number of bytes.                            *)
LEMMA TookType ==
  ASSUME took \in Seq(0..FrameSize)
  PROVE  took \in Seq(Nat) /\ Len(took) \in Nat /\ Total(took) \in Nat
<1>1. took \in Seq(Nat) /\ Len(took) \in Nat
  <2>1. 0..FrameSize \subseteq Nat
    BY Numbers
  <2> QED BY <2>1, ElementsOf, Zenon
<1>2. Sums(took) \in [0..Len(took) -> Nat] /\ Len(took) \in 0..Len(took)
  BY <1>1, SumsStep
<1> QED BY <1>1, <1>2, Zenon DEF Total

(* One more write() adds what it took.                                     *)
LEMMA TookMore ==
  ASSUME took \in Seq(0..FrameSize), NEW count \in 0..FrameSize, took' = Append(took, count)
  PROVE  /\ took' \in Seq(0..FrameSize) /\ Len(took') = Len(took) + 1
         /\ \A j \in 1..Len(took) : took'[j] = took[j]
         /\ took'[Len(took) + 1] = count
         /\ \A j \in 0..Len(took) : Sums(took')[j] = Sums(took)[j]
         /\ Total(took') = Total(took) + count
<1>1. /\ took' \in Seq(0..FrameSize) /\ Len(took') = Len(took) + 1
      /\ \A j \in 1..Len(took) : took'[j] = took[j]
      /\ took'[Len(took) + 1] = count
  OBVIOUS
<1>2. took \in Seq(Nat) /\ Len(took) \in Nat /\ took' \in Seq(Nat) /\ count \in Nat
  <2>1. 0..FrameSize \subseteq Nat
    BY Numbers
  <2>2. count \in Nat
    BY <2>1
  <2> QED BY <1>1, <2>1, <2>2, ElementsOf, Zenon
<1>3. \A j \in 0..Len(took) : Sums(took')[j] = Sums(took)[j]
  BY <1>2, SumsAppend, Zenon
<1>4. Total(took') = Total(took) + count
  <2>1. Len(took) + 1 \in 1..Len(took') /\ (Len(took) + 1) - 1 = Len(took) /\ Len(took) \in 0..Len(took)
    BY <1>1, <1>2
  <2>2. Sums(took')[Len(took) + 1] = Sums(took')[Len(took)] + took'[Len(took) + 1]
    BY <1>2, <2>1, SumsStep, Zenon
  <2> QED BY <1>1, <1>3, <2>1, <2>2, Zenon DEF Total
<1> QED BY <1>1, <1>3, <1>4, Zenon

(* What the writes took and what they left out are whole frames.           *)
LEMMA TakenAndMissing ==
  ASSUME took \in Seq(0..FrameSize)
  PROVE  Total(Missing) \in Nat /\ Total(took) + Total(Missing) = Len(took) * FrameSize
<1>1. took \in Seq(Nat) /\ Len(took) \in Nat
  BY TookType, Zenon
<1>2. /\ Missing \in [1..Len(took) -> Nat]
      /\ \A j \in 1..Len(took) : took[j] + Missing[j] = FrameSize
  <2>1. \A j \in 1..Len(took) : /\ FrameSize - took[j] \in Nat
                                /\ took[j] + (FrameSize - took[j]) = FrameSize
    <3>1. \A j \in 1..Len(took) : took[j] \in 0..FrameSize
      BY ElementsOf, Zenon
    <3>2. ASSUME NEW x \in 0..FrameSize
          PROVE  FrameSize - x \in Nat /\ x + (FrameSize - x) = FrameSize
      BY Numbers
    <3> QED BY <3>1, <3>2, Zenon
  <2> QED BY <2>1, Zenon DEF Missing
<1>3. Missing \in Seq(Nat) /\ Len(Missing) = Len(took)
  BY <1>1, <1>2, SequenceOf, Zenon
<1> DEFINE f == Sums(took)
           g == Sums(Missing)
           m == Missing
           S == {n \in Nat : n <= Len(took) => f[n] + g[n] = n * FrameSize}
<1>4. /\ f \in [0..Len(took) -> Nat] /\ f[0] = 0
      /\ \A j \in 1..Len(took) : f[j] = f[j - 1] + took[j]
  BY <1>1, SumsStep, Zenon
<1>5. /\ g \in [0..Len(took) -> Nat] /\ g[0] = 0
      /\ \A j \in 1..Len(took) : g[j] = g[j - 1] + m[j]
  BY <1>3, SumsStep, Zenon
<1>6. \A j \in 1..Len(took) : took[j] \in Nat /\ m[j] \in Nat /\ took[j] + m[j] = FrameSize
  BY <1>1, <1>2
<1> HIDE DEF f, g, m
<1>7. 0 \in S
  BY <1>4, <1>5, Numbers
<1>8. ASSUME NEW n \in Nat, n \in S PROVE n + 1 \in S
  <2> SUFFICES ASSUME n + 1 <= Len(took) PROVE f[n + 1] + g[n + 1] = (n + 1) * FrameSize
    <3>1. n + 1 \in Nat
      OBVIOUS
    <3>2. QED
      BY <3>1, Zenon
  <2>1. n + 1 \in 1..Len(took) /\ n \in 0..Len(took) /\ (n + 1) - 1 = n
    BY <1>1
  <2>2. f[n + 1] = f[n] + took[n + 1] /\ g[n + 1] = g[n] + m[n + 1]
    BY <1>4, <1>5, <2>1
  <2>3. f[n] \in Nat /\ g[n] \in Nat
    BY <1>4, <1>5, <2>1, Zenon
  <2>4. f[n] + g[n] = n * FrameSize
    <3>1. n <= Len(took)
      BY <2>1
    <3> QED BY <1>8, <3>1, Zenon
  <2> DEFINE x == n * FrameSize
             y == (n + 1) * FrameSize
  <2>5. FrameSize \in Nat /\ x \in Nat /\ y \in Nat /\ y = x + FrameSize
    <3>1. FrameSize \in Nat
      BY Numbers
    <3> QED BY <3>1
  <2> HIDE DEF S, x, y
  <2>6. took[n + 1] \in Nat /\ m[n + 1] \in Nat /\ took[n + 1] + m[n + 1] = FrameSize
    BY <1>6, <2>1, Zenon
  <2>7. f[n] + g[n] = x
    BY <2>4 DEF x
  <2> DEFINE a == f[n]
             b == g[n]
             c == took[n + 1]
             d == m[n + 1]
  <2>8. /\ a \in Nat /\ b \in Nat /\ c \in Nat /\ d \in Nat /\ c + d = FrameSize /\ a + b = x
        /\ f[n + 1] = a + c /\ g[n + 1] = b + d
    BY <2>2, <2>3, <2>6, <2>7, Zenon
  <2> HIDE DEF a, b, c, d
  <2>9. (a + c) + (b + d) = y
    BY <2>5, <2>8
  <2>10. f[n + 1] + g[n + 1] = y
    BY <2>8, <2>9, Zenon
  <2> QED BY <2>10 DEF y
<1> HIDE DEF S
<1>9. Nat \subseteq S
  BY <1>7, <1>8, SetInduction, Zenon
<1>10. Len(took) \in 0..Len(took) /\ f[Len(took)] + g[Len(took)] = Len(took) * FrameSize
  BY <1>1, <1>9 DEF S
<1> QED BY <1>3, <1>5, <1>10, Zenon DEF Total, f, g

-----------------------------------------------------------------------------
(* File g is f with count bytes of data at offset o.                       *)
Overwritten(g, f, o, data, count) ==
  \A k \in 0 .. Space - 1 :
    /\ o <= k /\ k < o + count => g[k] = data[k - o]
    /\ ~(o <= k /\ k < o + count) => g[k] = f[k]

(* What a write() does to the bytes of the file.                           *)
LEMMA WrittenBytes ==
  ASSUME NEW f \in [0 .. Space - 1 -> Byte], NEW o \in Nat, NEW m \in Nat,
         NEW data \in [0 .. m - 1 -> Byte], NEW count \in 0..m
  PROVE  /\ Written(f, o, data, count) \in [0 .. Space - 1 -> Byte]
         /\ Overwritten(Written(f, o, data, count), f, o, data, count)
<1> HIDE DEF Byte
<1>1. \A k \in 0 .. Space - 1 : o <= k /\ k < o + count => k - o \in 0 .. m - 1
  BY Numbers
<1>2. DOMAIN f = 0 .. Space - 1 /\ (\A k \in 0 .. Space - 1 : f[k] \in Byte)
      /\ \A k \in 0 .. m - 1 : data[k] \in Byte
  OBVIOUS
<1> QED BY <1>1, <1>2 DEF Written, Overwritten

(* Where the bytes of a frame are read.                                    *)
LEMMA SwappedType == ASSUME NEW k \in Nat PROVE Swapped(k) \in Nat
<1> DEFINE q == k \div SampleSize
           r == k % SampleSize
<1>1. q \in Nat /\ r \in 0 .. SampleSize - 1
  BY Numbers
<1> HIDE DEF q, r
<1>2. q * SampleSize \in Nat
  BY <1>1, Numbers
<1>3. q * SampleSize + SampleSize - 1 - r \in Nat
  BY <1>1, <1>2, Numbers
<1> QED BY <1>3 DEF Swapped, q, r

(* The contents the program writes.                                        *)
LEMMA DataBytes ==
  /\ Header \in [0 .. WavHdr - 1 -> Byte]
  /\ \A k \in 0 .. WavHdr - 1 : Header[k].kind = "header"
  /\ \A v \in Nat, field \in {"chunk_size", "data_size"} :
       /\ Size(field, v) \in [0 .. SizeLen - 1 -> Byte]
       /\ \A k \in 0 .. SizeLen - 1 : Size(field, v)[k].kind = field /\ Size(field, v)[k].n = v
<1>1. \A k \in 0 .. WavHdr - 1 : k \in Nat
  BY Numbers
<1>2. \A k \in 0 .. SizeLen - 1 : k \in Nat
  BY Numbers
<1> QED BY <1>1, <1>2 DEF Header, Size, Byte

LEMMA FrameBytes ==
  ASSUME Len(len) \in Nat, i \in Nat
  PROVE  /\ Frame \in [0 .. FrameSize - 1 -> Byte]
         /\ \A k \in 0 .. FrameSize - 1 : Frame[k] = Audio(Len(len), i, k) /\ Frame[k].kind = "audio"
<1>1. ASSUME NEW k \in 0 .. FrameSize - 1
      PROVE  Audio(Len(len), i, k) \in Byte /\ Audio(Len(len), i, k).kind = "audio"
  <2>1. k \in Nat
    BY Numbers
  <2>2. Swapped(k) \in Nat
    BY <2>1, SwappedType, Zenon
  <2>3. i + Swapped(k) \in Nat
    BY <2>2
  <2> QED BY <2>3 DEF Audio, Byte
<1> HIDE DEF Byte, Audio
<1> QED BY <1>1 DEF Frame

(* The sizes are numbers of so many bits.                                  *)
LEMMA SizesType ==
  ASSUME received_frames \in Nat
  PROVE  /\ WavHdr - (ChunkAt + SizeLen) \in Nat /\ received_frames * FrameSize \in Nat
         /\ chunk_size \in Nat /\ subchunk_data_size \in Nat
<1>1. WavHdr - (ChunkAt + SizeLen) \in Nat /\ received_frames * FrameSize \in Nat
  BY Numbers, DumpAssumption
<1> DEFINE x == received_frames * FrameSize
           y == received_frames * FrameSize + WavHdr - (ChunkAt + SizeLen)
<1>2. x \in Nat /\ y \in Nat
  BY <1>1, Numbers
<1> HIDE DEF x, y
<1>3. x % U32 \in Nat /\ y % U32 \in Nat
  BY <1>2, Numbers
<1> QED BY <1>1, <1>3 DEF x, y, chunk_size, subchunk_data_size

(* slot->len is a number.                                                  *)
LEMMA LengthsType ==
  ASSUME len \in Seq(Lengths)
  PROVE  Len(len) \in Nat /\ \A n \in 1..Len(len) : len[n] \in Nat
<1>1. Lengths \subseteq Nat
  BY DumpAssumption
<1> QED BY <1>1, ElementsOf, Zenon

(* update_wav_hdr changes bytes of the two sizes only, and to bytes of     *)
(* what they should be.                                                    *)
LEMMA HeaderUpdated ==
  ASSUME file \in [0 .. Space - 1 -> Byte], received_frames \in Nat, rtpdump_ao_close
  PROVE  /\ file' \in [0 .. Space - 1 -> Byte]
         /\ \A k \in 0 .. Space - 1 :
              \/ file'[k] = file[k]
              \/ k < WavHdr /\ file'[k].kind = "chunk_size" /\ file'[k].n = chunk_size
              \/ k < WavHdr /\ file'[k].kind = "data_size" /\ file'[k].n = subchunk_data_size
<1> DEFINE F == [0 .. Space - 1 -> Byte]
           x == Size("chunk_size", chunk_size)
           y == Size("data_size", subchunk_data_size)
<1>1. PICK c \in 0..SizeLen, d \in 0..SizeLen :
        file' = Written(Written(file, ChunkAt, x, c), DataAt, y, d)
  BY Zenon DEF rtpdump_ao_close
<1>2. ChunkAt \in Nat /\ DataAt \in Nat /\ SizeLen \in Nat
  BY Numbers
<1>3. /\ x \in [0 .. SizeLen - 1 -> Byte] /\ y \in [0 .. SizeLen - 1 -> Byte]
      /\ \A k \in 0 .. SizeLen - 1 : x[k].kind = "chunk_size" /\ x[k].n = chunk_size
      /\ \A k \in 0 .. SizeLen - 1 : y[k].kind = "data_size" /\ y[k].n = subchunk_data_size
  BY SizesType, DataBytes, Zenon
<1> HIDE DEF x, y
<1> DEFINE f == Written(file, ChunkAt, x, c)
<1>4. f \in F /\ Overwritten(f, file, ChunkAt, x, c)
  BY <1>2, <1>3, WrittenBytes, Zenon
<1> HIDE DEF f
<1>5. file' \in F /\ Overwritten(file', f, DataAt, y, d)
  BY <1>1, <1>2, <1>3, <1>4, WrittenBytes, Zenon DEF f
<1>6. ASSUME NEW k \in 0 .. Space - 1
      PROVE  \/ file'[k] = file[k]
             \/ k < WavHdr /\ file'[k].kind = "chunk_size" /\ file'[k].n = chunk_size
             \/ k < WavHdr /\ file'[k].kind = "data_size" /\ file'[k].n = subchunk_data_size
  <2>1. CASE DataAt <= k /\ k < DataAt + d
    <3>1. k - DataAt \in 0 .. SizeLen - 1 /\ k < WavHdr
      BY <2>1, Numbers, DumpAssumption
    <3>2. file'[k] = y[k - DataAt]
      BY <1>5, <2>1, Zenon DEF Overwritten
    <3> QED BY <1>3, <3>1, <3>2, Zenon
  <2>2. CASE ~(DataAt <= k /\ k < DataAt + d) /\ ChunkAt <= k /\ k < ChunkAt + c
    <3>1. k - ChunkAt \in 0 .. SizeLen - 1 /\ k < WavHdr
      BY <2>2, Numbers, DumpAssumption
    <3>2. file'[k] = x[k - ChunkAt]
      BY <1>4, <1>5, <2>2, Zenon DEF Overwritten
    <3> QED BY <1>3, <3>1, <3>2, Zenon
  <2>3. CASE ~(DataAt <= k /\ k < DataAt + d) /\ ~(ChunkAt <= k /\ k < ChunkAt + c)
    BY <1>4, <1>5, <2>3, Zenon DEF Overwritten
  <2> QED BY <2>1, <2>2, <2>3, Zenon
<1> QED BY <1>5, <1>6, Zenon

-----------------------------------------------------------------------------
LEMMA InitInv == Init => Inv
<1> SUFFICES ASSUME Init PROVE Inv
  OBVIOUS
<1>1. PICK n \in OldSizes : file = [k \in 0 .. Space - 1 |-> IF k < n THEN Old ELSE Blank]
  BY Zenon DEF Init
<1>2. file \in [0 .. Space - 1 -> Byte]
  <2>1. Old \in Byte /\ Blank \in Byte
    BY DEF Old, Blank, Byte
  <2> QED BY <1>1, <2>1, Zenon
<1>3. len \in Seq(Lengths) /\ took \in Seq(0..FrameSize) /\ Len(len) = 0 /\ Len(took) = 0 /\ took \in Seq(Nat)
  BY DEF Init
<1>4. Total(took) = 0
  BY <1>3, SumsStep, Zenon DEF Total
<1>5. 0 \in 0 .. U32 - 1 /\ 0 \in 0..Space /\ 0 \in 0..WavHdr /\ 0 % U32 = 0 /\ 0 <= MaxPackets /\ 0 + 0 = 0
  BY Numbers, DumpAssumption
<1>6. TypeOK
  BY <1>2, <1>3, <1>5 DEF Init, TypeOK
<1>7. \A j \in 1..Len(took) : took[j] > 0
  BY <1>3
<1> QED BY <1>3, <1>4, <1>5, <1>6, <1>7 DEF Init, Inv

(* One round of the copying loop.                                          *)
LEMMA WriteFrameInv == Inv /\ WriteFrame => Inv'
<1> SUFFICES ASSUME Inv, WriteFrame PROVE Inv'
  OBVIOUS
<1>1. /\ pc = "copy" /\ pc' = "copy" /\ len' = len /\ began' = began
      /\ i' = i + FrameSize /\ received_frames' = (received_frames + 1) % U32
      /\ len \in Seq(Lengths) /\ Len(len) > 0 /\ i \in Nat /\ Len(len) <= MaxPackets
      /\ pos \in 0..Space /\ began \in 0..WavHdr /\ file \in [0 .. Space - 1 -> Byte]
      /\ took \in Seq(0..FrameSize) /\ ret \in {0, -1} /\ Len(len) \in Nat
  BY Zenon, LengthsType DEF Inv, TypeOK, WriteFrame
<1>2. PICK count \in 0..FrameSize :
        /\ pos + count <= Space /\ file' = Written(file, pos, Frame, count)
        /\ pos' = pos + count /\ took' = Append(took, count)
        /\ ret' = IF count < 1 THEN -1 ELSE ret
  BY Zenon DEF WriteFrame, WriteTmp
<1>3. i' \in Nat /\ received_frames' \in 0 .. U32 - 1 /\ pos' \in 0..Space /\ ret' \in {0, -1}
  <2>1. received_frames \in Nat /\ pos \in Nat /\ count \in Nat
    BY <1>1, Numbers DEF Inv, TypeOK
  <2>2. i' \in Nat
    BY <1>1, Numbers
  <2>3. received_frames' \in 0 .. U32 - 1
    <3>1. received_frames + 1 \in Nat /\ U32 \in Nat \ {0}
      BY <2>1, Numbers
    <3> QED BY <1>1, <3>1
  <2>4. pos' \in 0..Space /\ ret' \in {0, -1}
    BY <1>1, <1>2, <2>1, Numbers
  <2> QED BY <2>2, <2>3, <2>4
<1>4. file' \in [0 .. Space - 1 -> Byte]
  <2>1. Frame \in [0 .. FrameSize - 1 -> Byte] /\ pos \in Nat /\ FrameSize \in Nat
    <3>1. pos \in Nat /\ FrameSize \in Nat
      BY <1>1, Numbers
    <3> QED BY <1>1, <3>1, FrameBytes, Zenon
  <2> QED BY <1>1, <1>2, <2>1, WrittenBytes, Zenon
<1>5. /\ took' \in Seq(0..FrameSize) /\ Len(took') = Len(took) + 1
      /\ \A j \in 1..Len(took) : took'[j] = took[j]
      /\ took'[Len(took) + 1] = count
      /\ Total(took') = Total(took) + count
  BY <1>1, <1>2, TookMore, Zenon
<1>6. TypeOK'
  BY <1>1, <1>3, <1>4, <1>5, Zenon DEF TypeOK
<1>7. Len(took) \in Nat /\ Total(took) \in Nat
  BY <1>1, TookType, Zenon
<1>8. ret' = 0 => \A j \in 1..Len(took') : took'[j] > 0
  <2> SUFFICES ASSUME ret' = 0, NEW j \in 1..Len(took') PROVE took'[j] > 0
    OBVIOUS
  <2>1. ret = 0 /\ count > 0
    BY <1>2
  <2>2. CASE j = Len(took) + 1
    BY <1>5, <2>1, <2>2, Zenon
  <2>3. CASE j \in 1..Len(took)
    BY <1>5, <2>1, <2>3, Zenon DEF Inv
  <2> QED BY <1>5, <1>7, <2>2, <2>3
<1>9. received_frames' = Len(took') % U32
  <2>1. received_frames = Len(took) % U32 /\ 1 \in Nat /\ U32 \in Nat \ {0}
    BY Numbers DEF Inv
  <2>2. ((Len(took) % U32) + 1) % U32 = (Len(took) + 1) % U32
    BY <1>7, <2>1, CountsModulo, Zenon
  <2> QED BY <1>1, <1>5, <2>1, <2>2, Zenon
<1>10. pos' = began' + Total(took')
  <2>1. pos = began + Total(took)
    BY DEF Inv
  <2> HIDE DEF Total
  <2> QED BY <1>1, <1>2, <1>5, <1>7, <2>1
<1> QED BY <1>1, <1>6, <1>8, <1>9, <1>10 DEF Inv

(* Opening the file writes at its beginning; updating the header leaves    *)
(* the counters alone; neither read step touches the file.                 *)
LEMMA OtherInv ==
  ASSUME Inv, rtpdump_ao_open \/ ReadSlot \/ ReadDone \/ rtpdump_ao_close \/ UNCHANGED vars
  PROVE  Inv'
<1>1. /\ len \in Seq(Lengths) /\ file \in [0 .. Space - 1 -> Byte] /\ received_frames \in Nat
      /\ took \in Seq(0..FrameSize)
  BY DEF Inv, TypeOK
<1>2. CASE rtpdump_ao_open
  <2>1. /\ pc = "open" /\ took = <<>> /\ pos = 0 /\ ret = 0
        /\ UNCHANGED <<len, i, ret, received_frames, took>>
    BY <1>2, Zenon DEF rtpdump_ao_open, Inv
  <2>2. PICK count \in 0..WavHdr :
          /\ file' = Written(file, 0, Header, count)
          /\ pos' = 0 + count /\ began' = 0 + count
          /\ pc' = IF count < 1 THEN "ended" ELSE "loop"
    BY <1>2, <2>1, Zenon DEF rtpdump_ao_open
  <2>3. file' \in [0 .. Space - 1 -> Byte]
    <3>1. 0 \in Nat /\ WavHdr \in Nat
      BY Numbers
    <3> QED BY <1>1, <2>2, <3>1, WrittenBytes, DataBytes, Zenon
  <2>4. pos' = count /\ began' = count /\ pos' \in 0..Space /\ began' \in 0..WavHdr
    BY <2>2, Numbers, DumpAssumption
  <2>5. TypeOK'
    BY <2>1, <2>2, <2>3, <2>4 DEF Inv, TypeOK
  <2>6. Total(took) = 0
    <3>1. took \in Seq(Nat) /\ Len(took) = 0
      BY <2>1
    <3> QED BY <3>1, SumsStep, Zenon DEF Total
  <2>7. pos' = began' + Total(took')
    BY <2>1, <2>4, <2>6
  <2> QED BY <2>1, <2>2, <2>5, <2>7 DEF Inv
<1>3. CASE ReadSlot
  <2>1. PICK l \in Lengths : len' = Append(len, l)
    BY <1>3, Zenon DEF ReadSlot
  <2>2. len' \in Seq(Lengths) /\ Len(len') > 0 /\ Len(len') <= MaxPackets
    BY <1>1, <1>3, <2>1, DumpAssumption, SMTT(60) DEF ReadSlot
  <2>3. /\ pc = "loop" /\ pc' = "copy" /\ i' = Hdr /\ ret' = 0 /\ ret = 0
        /\ UNCHANGED <<received_frames, file, pos, began, took>>
    BY <1>3, Zenon DEF ReadSlot, Inv
  <2>4. TypeOK'
    BY <2>2, <2>3, Numbers DEF Inv, TypeOK
  <2> QED BY <2>2, <2>3, <2>4 DEF Inv
<1>4. CASE ReadDone
  <2>1. /\ pc = "copy" /\ pc' = (IF ret < 0 THEN "ended" ELSE "loop") /\ ret \in {0, -1}
        /\ UNCHANGED <<len, i, ret, received_frames, file, pos, began, took>>
    BY <1>4 DEF ReadDone, Inv, TypeOK
  <2>2. TypeOK'
    BY <2>1 DEF Inv, TypeOK
  <2> QED BY <2>1, <2>2 DEF Inv
<1>5. CASE rtpdump_ao_close
  <2>1. /\ pc = "loop" /\ pc' = "closed" /\ ret = 0
        /\ UNCHANGED <<len, i, ret, received_frames, pos, began, took>>
    BY <1>5, Zenon DEF rtpdump_ao_close, Inv
  <2>2. file' \in [0 .. Space - 1 -> Byte]
    BY <1>1, <1>5, HeaderUpdated, Zenon
  <2>3. TypeOK'
    BY <2>1, <2>2 DEF Inv, TypeOK
  <2> QED BY <2>1, <2>3 DEF Inv
<1>6. CASE UNCHANGED vars
  BY <1>6 DEF vars, Inv, TypeOK
<1> QED BY <1>2, <1>3, <1>4, <1>5, <1>6

LEMMA Invariant == Spec => []Inv
<1>1. Inv /\ [Next]_vars => Inv'
  BY WriteFrameInv, OtherInv, Zenon DEF Next
<1>2. QED
  BY <1>1, InitInv, PTL DEF Spec

-----------------------------------------------------------------------------
(* Counters, file and file position of the WAV writer keep their types.    *)
THEOREM DumpType == Spec => []TypeOK
<1>1. Inv => TypeOK
  BY DEF Inv
<1>2. QED
  BY <1>1, Invariant, PTL

(* The bytes of a size are those of its value at the end.                  *)
SizeByte(x) ==
  /\ x.kind = "chunk_size" => pc = "closed" /\ x.n = chunk_size
  /\ x.kind = "data_size" => pc = "closed" /\ x.n = subchunk_data_size

(* The file holds nothing but audio up to the file position, unless the    *)
(* header is updated where audio lies in its place.                        *)
ContentInv ==
  /\ \A k \in 0 .. Space - 1 : SizeByte(file[k])
  /\ pc # "closed" \/ began = WavHdr => \A k \in began .. pos - 1 : file[k].kind = "audio"

LEMMA WriteFrameContent == Inv /\ ContentInv /\ WriteFrame => ContentInv'
<1> SUFFICES ASSUME Inv, ContentInv, WriteFrame PROVE ContentInv'
  OBVIOUS
<1>1. /\ pc = "copy" /\ pc' = "copy" /\ began' = began /\ began \in Nat /\ pos \in 0..Space
      /\ file \in [0 .. Space - 1 -> Byte] /\ Len(len) \in Nat /\ i \in Nat
  <2>1. began \in 0..WavHdr /\ len \in Seq(Lengths)
    BY DEF Inv, TypeOK
  <2>2. began \in Nat
    BY <2>1, Numbers
  <2> QED BY <2>1, <2>2, LengthsType, Zenon DEF Inv, TypeOK, WriteFrame
<1>2. PICK count \in 0..FrameSize :
        pos + count <= Space /\ file' = Written(file, pos, Frame, count) /\ pos' = pos + count
  BY Zenon DEF WriteFrame, WriteTmp
<1>3. /\ Frame \in [0 .. FrameSize - 1 -> Byte] /\ pos \in Nat /\ FrameSize \in Nat
      /\ \A k \in 0 .. FrameSize - 1 : Frame[k].kind = "audio"
  <2>1. pos \in Nat /\ FrameSize \in Nat
    BY <1>1, Numbers
  <2> QED BY <1>1, <2>1, FrameBytes, Zenon
<1>4. Overwritten(file', file, pos, Frame, count)
  BY <1>1, <1>2, <1>3, WrittenBytes, Zenon
<1>5. ASSUME NEW k \in 0 .. Space - 1
      PROVE  IF pos <= k /\ k < pos + count THEN file'[k].kind = "audio" ELSE file'[k] = file[k]
  <2>1. CASE pos <= k /\ k < pos + count
    <3>1. k - pos \in 0 .. FrameSize - 1
      BY <1>2, <1>3, <2>1, Numbers
    <3> QED BY <1>3, <1>4, <2>1, <3>1, Zenon DEF Overwritten
  <2>2. CASE ~(pos <= k /\ k < pos + count)
    BY <1>4, <2>2, Zenon DEF Overwritten
  <2> QED BY <2>1, <2>2, Zenon
<1>6. ASSUME NEW k \in 0 .. Space - 1
      PROVE  file'[k].kind # "chunk_size" /\ file'[k].kind # "data_size"
  <2>1. file[k].kind # "chunk_size" /\ file[k].kind # "data_size"
    BY <1>1 DEF ContentInv, SizeByte
  <2> QED BY <1>5, <2>1
<1>7. ASSUME NEW k \in began .. pos' - 1 PROVE file'[k].kind = "audio"
  <2>1. k \in 0 .. Space - 1 /\ (~(pos <= k /\ k < pos + count) => k \in began .. pos - 1)
    BY <1>1, <1>2, <1>3, Numbers
  <2>2. k \in began .. pos - 1 => file[k].kind = "audio"
    BY <1>1 DEF ContentInv
  <2> QED BY <1>5, <2>1, <2>2, Zenon
<1> QED BY <1>1, <1>6, <1>7, Zenon DEF ContentInv, SizeByte

LEMMA OtherContent ==
  ASSUME Inv, ContentInv,
         rtpdump_ao_open \/ ReadSlot \/ ReadDone \/ rtpdump_ao_close \/ UNCHANGED vars
  PROVE  ContentInv'
<1>1. /\ file \in [0 .. Space - 1 -> Byte] /\ received_frames \in Nat
      /\ began \in Nat /\ pos \in 0..Space
  BY Numbers DEF Inv, TypeOK
<1>2. CASE rtpdump_ao_open
  <2>1. pc = "open" /\ pos = 0 /\ 0 \in Nat /\ WavHdr \in Nat
    BY <1>2, Numbers DEF rtpdump_ao_open, Inv
  <2>2. PICK count \in 0..WavHdr :
          file' = Written(file, 0, Header, count) /\ pos' = 0 + count /\ began' = 0 + count
    BY <1>2, <2>1, Zenon DEF rtpdump_ao_open
  <2>3. pc' # "closed"
    BY <1>2 DEF rtpdump_ao_open
  <2>4. Overwritten(file', file, 0, Header, count)
    BY <1>1, <2>1, <2>2, WrittenBytes, DataBytes, Zenon
  <2>5. ASSUME NEW k \in 0 .. Space - 1
        PROVE  file'[k].kind # "chunk_size" /\ file'[k].kind # "data_size"
    <3>1. file[k].kind # "chunk_size" /\ file[k].kind # "data_size"
      BY <2>1 DEF ContentInv, SizeByte
    <3>2. CASE 0 <= k /\ k < 0 + count
      <4>1. k - 0 \in 0 .. WavHdr - 1
        BY <2>1, <3>2
      <4>2. file'[k] = Header[k - 0]
        BY <2>4, <3>2, Zenon DEF Overwritten
      <4>3. Header[k - 0].kind = "header"
        BY <4>1, DataBytes, Zenon
      <4> QED BY <4>2, <4>3
    <3>3. CASE ~(0 <= k /\ k < 0 + count)
      BY <2>4, <3>1, <3>3, Zenon DEF Overwritten
    <3> QED BY <3>2, <3>3, Zenon
  <2>6. ~\E k \in began' .. pos' - 1 : TRUE
    BY <2>1, <2>2
  <2> QED BY <2>3, <2>5, <2>6, Zenon DEF ContentInv, SizeByte
<1>3. CASE ReadSlot \/ ReadDone
  <2>1. pc # "closed" /\ pc' # "closed" /\ UNCHANGED <<file, pos, began, received_frames>>
    BY <1>3 DEF ReadSlot, ReadDone
  <2> QED BY <2>1, Zenon DEF ContentInv, SizeByte, chunk_size, subchunk_data_size
<1>4. CASE rtpdump_ao_close
  <2>1. pc # "closed" /\ pc' = "closed" /\ UNCHANGED <<pos, began, received_frames>>
    BY <1>4 DEF rtpdump_ao_close
  <2>2. chunk_size' = chunk_size /\ subchunk_data_size' = subchunk_data_size
    BY <2>1, Zenon DEF chunk_size, subchunk_data_size
  <2>3. \A k \in 0 .. Space - 1 :
          \/ file'[k] = file[k]
          \/ k < WavHdr /\ file'[k].kind = "chunk_size" /\ file'[k].n = chunk_size
          \/ k < WavHdr /\ file'[k].kind = "data_size" /\ file'[k].n = subchunk_data_size
    BY <1>1, <1>4, HeaderUpdated, Zenon
  <2>4. ASSUME NEW k \in 0 .. Space - 1 PROVE SizeByte(file[k])'
    <3>1. file[k].kind # "chunk_size" /\ file[k].kind # "data_size"
      BY <2>1 DEF ContentInv, SizeByte
    <3>2. /\ file'[k].kind = "chunk_size" => file'[k].n = chunk_size
          /\ file'[k].kind = "data_size" => file'[k].n = subchunk_data_size
      BY <2>3, <3>1
    <3> QED BY <2>1, <2>2, <3>2, Zenon DEF SizeByte
  <2>5. ASSUME began = WavHdr, NEW k \in began .. pos - 1 PROVE file'[k].kind = "audio"
    <3>1. k \in 0 .. Space - 1 /\ ~(k < WavHdr)
      BY <1>1, <2>5, Numbers
    <3> QED BY <2>1, <2>3, <3>1, Zenon DEF ContentInv
  <2> QED BY <2>1, <2>4, <2>5, Zenon DEF ContentInv
<1>5. CASE UNCHANGED vars
  <2>1. UNCHANGED <<pc, file, pos, began, received_frames>>
    BY <1>5, Zenon DEF vars
  <2> QED BY <2>1, Zenon DEF ContentInv, SizeByte, chunk_size, subchunk_data_size
<1> QED BY <1>2, <1>3, <1>4, <1>5, Zenon

LEMMA Contents == Spec => []ContentInv
<1>1. Init => ContentInv
  <2> SUFFICES ASSUME Init PROVE ContentInv
    OBVIOUS
  <2>1. PICK n \in OldSizes : file = [k \in 0 .. Space - 1 |-> IF k < n THEN Old ELSE Blank]
    BY Zenon DEF Init
  <2>2. \A k \in 0 .. Space - 1 : file[k].kind \in {"old", "none"}
    BY <2>1 DEF Old, Blank
  <2>3. ~\E k \in began .. pos - 1 : TRUE
    BY DEF Init
  <2> QED BY <2>2, <2>3 DEF ContentInv, SizeByte
<1>2. Inv /\ ContentInv /\ [Next]_vars => ContentInv'
  BY WriteFrameContent, OtherContent, Zenon DEF Next
<1>3. QED
  BY <1>1, <1>2, Invariant, PTL DEF Spec

(* What a size that rtpdump_ao_close has written tells of the file: no     *)
(* write() of a frame failed, it is the number of bytes they took and of   *)
(* those short writes left out, modulo 2^32, the two sizes agree, and      *)
(* without short writes every byte it counts is audio of this run.  For    *)
(* every file that was there, every sequence of lengths, every way the     *)
(* writes fall short, and however long the dump gets.                      *)
THEOREM HeaderTellsTheTruth == Spec => []HeaderIsTrue
<1>1. Inv /\ ContentInv => HeaderIsTrue
  <2> SUFFICES ASSUME Inv, ContentInv, NEW v \in 0 .. U32 - 1, Reads(DataAt, "data_size", v)
               PROVE  /\ \A j \in 1..Len(took) : took[j] > 0
                      /\ v = (Total(took) + Total(Missing)) % U32
                      /\ \A u \in 0 .. U32 - 1 : Reads(ChunkAt, "chunk_size", u) =>
                           u = (v + WavHdr - (ChunkAt + SizeLen)) % U32
                      /\ began = WavHdr /\ Total(Missing) = 0 =>
                           \A k \in 0 .. v - 1 : file[WavHdr + k].kind = "audio"
    BY Zenon DEF HeaderIsTrue
  <2> DEFINE x == received_frames * FrameSize
             w == WavHdr - (ChunkAt + SizeLen)
             z == Total(took) + Total(Missing)
  <2>1. received_frames \in Nat /\ took \in Seq(0..FrameSize) /\ U32 \in Nat \ {0} /\ FrameSize \in Nat
    BY Numbers DEF Inv, TypeOK
  <2>2. Len(took) \in Nat /\ Total(took) \in Nat /\ Total(Missing) \in Nat
        /\ z = Len(took) * FrameSize /\ z \in Nat
    <3>1. Len(took) \in Nat /\ Total(took) \in Nat /\ Total(Missing) \in Nat /\ z = Len(took) * FrameSize
      BY <2>1, TookType, TakenAndMissing, Zenon
    <3> QED BY <3>1
  <2>3. x \in Nat /\ w \in Nat
    BY <2>1, SizesType, Zenon
  <2>4. ASSUME NEW o \in Nat, NEW field \in {"chunk_size", "data_size"}, NEW u \in Nat,
               o + 0 \in 0 .. Space - 1, Reads(o, field, u)
        PROVE  file[o + 0].kind = field /\ file[o + 0].n = u /\ SizeByte(file[o + 0])
    <3>1. 0 \in 0 .. SizeLen - 1
      BY Numbers
    <3>2. file[o + 0] = Size(field, u)[0]
      BY <2>4, <3>1, Zenon DEF Reads
    <3>3. SizeByte(file[o + 0])
      BY <2>4, Zenon DEF ContentInv
    <3>4. Size(field, u)[0].kind = field /\ Size(field, u)[0].n = u
      BY <3>1 DEF Size
    <3> QED BY <3>2, <3>3, <3>4, Zenon
  <2>5. /\ ChunkAt \in Nat /\ DataAt \in Nat
        /\ ChunkAt + 0 \in 0 .. Space - 1 /\ DataAt + 0 \in 0 .. Space - 1
    BY Numbers, DumpAssumption
  <2>6. pc = "closed" /\ v = x % U32
    <3>1. v \in Nat
      BY Numbers
    <3>2. file[DataAt + 0].kind = "data_size" /\ file[DataAt + 0].n = v /\ SizeByte(file[DataAt + 0])
      BY <2>4, <2>5, <3>1, Zenon
    <3> QED BY <3>2, Zenon DEF SizeByte, subchunk_data_size
  <2>7. \A j \in 1..Len(took) : took[j] > 0
    BY <2>6, Zenon DEF Inv
  <2>8. v = z % U32
    <3>1. received_frames = Len(took) % U32
      BY Zenon DEF Inv
    <3>2. ((Len(took) % U32) * FrameSize) % U32 = (Len(took) * FrameSize) % U32
      BY <2>1, <2>2, ProductModulo, Zenon
    <3> QED BY <2>2, <2>6, <3>1, <3>2, Zenon
  <2>9. ASSUME NEW u \in 0 .. U32 - 1, Reads(ChunkAt, "chunk_size", u)
        PROVE  u = (v + WavHdr - (ChunkAt + SizeLen)) % U32
    <3>1. u \in Nat
      BY Numbers
    <3>2. file[ChunkAt + 0].kind = "chunk_size" /\ file[ChunkAt + 0].n = u /\ SizeByte(file[ChunkAt + 0])
      BY <2>4, <2>5, <2>9, <3>1, Zenon
    <3>3. u = (received_frames * FrameSize + WavHdr - (ChunkAt + SizeLen)) % U32
      BY <3>2, Zenon DEF SizeByte, chunk_size
    <3>4. \A y \in Nat : y + WavHdr - (ChunkAt + SizeLen) = y + w
      BY Numbers
    <3>5. ((x % U32) + w) % U32 = (x + w) % U32
      BY <2>1, <2>3, CountsModulo, Zenon
    <3>6. v \in Nat
      BY Numbers
    <3> HIDE DEF w
    <3> QED BY <2>3, <2>6, <3>3, <3>4, <3>5, <3>6, Zenon
  <2>10. ASSUME began = WavHdr, Total(Missing) = 0, NEW k \in 0 .. v - 1
         PROVE  file[WavHdr + k].kind = "audio"
    <3>1. z = Total(took) /\ pos = WavHdr + Total(took)
      BY <2>2, <2>10 DEF Inv
    <3> HIDE DEF z
    <3>2. z % U32 <= z
      <4> DEFINE q == z \div U32
      <4>1. q \in Nat /\ z % U32 \in Nat /\ z = U32 * q + (z % U32) /\ U32 * q \in Nat
        BY <2>1, <2>2
      <4> QED BY <4>1
    <3>3. v <= Total(took) /\ v \in Nat /\ WavHdr \in Nat
      <4>1. v \in Nat /\ WavHdr \in Nat
        BY Numbers
      <4> QED BY <2>8, <3>1, <3>2, <4>1, Zenon
    <3> DEFINE t == Total(took)
    <3>4. t \in Nat /\ v <= t /\ pos = WavHdr + t
      BY <2>2, <3>1, <3>3, Zenon
    <3> HIDE DEF t
    <3>5. WavHdr + k \in WavHdr .. (WavHdr + t) - 1
      BY <3>3, <3>4
    <3> QED BY <2>10, <3>4, <3>5, Zenon DEF ContentInv
  <2> QED BY <2>7, <2>8, <2>9, <2>10, Zenon
<1>2. QED
  BY <1>1, Invariant, Contents, PTL

-----------------------------------------------------------------------------
(* How far the writing is: in the middle of a packet, k frames of it come  *)
(* on top of those of the packets before it.                               *)
CountInv ==
  IF pc = "copy"
  THEN \E k \in 0 .. PayloadFrames(len[Len(len)]) :
         i = Hdr + k * FrameSize /\ Len(took) = Sums(Frames)[Len(len) - 1] + k
  ELSE Len(took) = Total(Frames)

(* The loop over the bytes makes one round for each frame of the payload.  *)
LEMMA RoundsOfLoop ==
  ASSUME NEW l \in Nat, NEW k \in Nat
  PROVE  /\ PayloadFrames(l) \in Nat
         /\ Hdr + k * FrameSize < l <=> k < PayloadFrames(l)
<1> DEFINE q == PayloadFrames(l)
           x == l - Hdr
<1>1. Hdr \in Nat /\ FrameSize \in Nat /\ FrameSize > 0 /\ k * FrameSize \in Nat
  BY Numbers
<1>2. CASE l <= Hdr
  BY <1>1, <1>2 DEF PayloadFrames
<1>3. CASE l > Hdr
  <2>1. x \in Nat /\ x > 0 /\ q = (x + FrameSize - 1) \div FrameSize
    BY <1>1, <1>3 DEF PayloadFrames
  <2>2. /\ q \in Nat /\ q * FrameSize \in Nat
        /\ q * FrameSize <= x + FrameSize - 1 /\ x <= q * FrameSize
    BY <1>1, <2>1
  <2> HIDE DEF q, x
  <2>3. CASE k < q
    <3>1. (k + 1) * FrameSize <= q * FrameSize
      BY <1>1, <2>2, <2>3
    <3>2. (k + 1) * FrameSize = k * FrameSize + FrameSize
      BY <1>1
    <3>3. k * FrameSize < x
      BY <1>1, <2>1, <2>2, <3>1, <3>2
    <3> QED BY <1>1, <2>2, <2>3, <3>3 DEF q, x
  <2>4. CASE ~(k < q)
    <3>1. q * FrameSize <= k * FrameSize
      BY <1>1, <2>2, <2>4
    <3>2. x <= k * FrameSize
      BY <1>1, <2>1, <2>2, <3>1
    <3> QED BY <1>1, <2>2, <2>4, <3>2 DEF q, x
  <2> QED BY <2>3, <2>4
<1> QED BY <1>1, <1>2, <1>3

(* Frames is a sequence of numbers, one for each packet.                   *)
LEMMA FramesType ==
  ASSUME len \in Seq(Lengths)
  PROVE  /\ Frames \in Seq(Nat) /\ Len(Frames) = Len(len)
         /\ \A n \in 1..Len(len) : Frames[n] = PayloadFrames(len[n]) /\ Frames[n] \in Nat
<1>1. \A n \in 1..Len(len) : len[n] \in Nat
  BY LengthsType
<1>2. \A n \in 1..Len(len) : PayloadFrames(len[n]) \in Nat
  BY <1>1, RoundsOfLoop, Zenon
<1>3. Frames \in [1..Len(len) -> Nat] /\ \A n \in 1..Len(len) : Frames[n] = PayloadFrames(len[n])
  BY <1>2 DEF Frames
<1> HIDE DEF Frames
<1>4. Frames \in Seq(Nat) /\ Len(Frames) = Len(len)
  <2>1. Len(len) \in Nat
    BY LengthsType
  <2> QED BY <1>3, <2>1, SequenceOf, Zenon
<1> QED BY <1>2, <1>3, <1>4

(* A round writes a frame of the packet.                                   *)
LEMMA WriteFrameCounts == Inv /\ CountInv /\ WriteFrame => CountInv'
<1> SUFFICES ASSUME Inv, CountInv, WriteFrame PROVE CountInv'
  OBVIOUS
<1> DEFINE l == len[Len(len)]
           a == Sums(Frames)[Len(len) - 1]
<1>1. /\ pc = "copy" /\ pc' = "copy" /\ len' = len /\ Frames' = Frames
      /\ i' = i + FrameSize /\ i < l
  BY DEF WriteFrame, Frames
<1>2. /\ len \in Seq(Lengths) /\ Len(len) \in Nat /\ Len(len) > 0 /\ l \in Nat
      /\ took \in Seq(0..FrameSize) /\ Len(took) \in Nat
  <2>1. len \in Seq(Lengths) /\ Len(len) > 0 /\ took \in Seq(0..FrameSize)
    BY <1>1 DEF Inv, TypeOK
  <2>2. Len(len) \in Nat /\ (\A n \in 1..Len(len) : len[n] \in Nat) /\ Len(took) \in Nat
    BY <2>1, LengthsType, TookType, Zenon
  <2> QED BY <2>1, <2>2
<1>3. a \in Nat
  <2>1. Sums(Frames) \in [0..Len(Frames) -> Nat] /\ Len(Frames) = Len(len)
    BY <1>2, FramesType, SumsStep, Zenon
  <2>2. Len(len) - 1 \in 0..Len(len)
    BY <1>2
  <2> QED BY <2>1, <2>2, Zenon
<1>4. PICK k \in 0 .. PayloadFrames(l) : i = Hdr + k * FrameSize /\ Len(took) = a + k
  BY <1>1 DEF CountInv
<1>5. Len(took') = Len(took) + 1
  <2>1. PICK count \in 0..FrameSize : took' = Append(took, count)
    BY Zenon DEF WriteFrame, WriteTmp
  <2> QED BY <1>2, <2>1, TookMore, Zenon
<1> HIDE DEF l, a
<1>6. PayloadFrames(l) \in Nat
  BY <1>2, RoundsOfLoop
<1>7. k \in Nat /\ k + 1 \in 0 .. PayloadFrames(l)
  BY <1>1, <1>2, <1>4, <1>6, RoundsOfLoop
<1>8. i' = Hdr + (k + 1) * FrameSize
  <2>1. k \in Nat /\ FrameSize \in Nat /\ Hdr \in Nat
    BY <1>7, Numbers
  <2>2. (k + 1) * FrameSize = k * FrameSize + FrameSize /\ k * FrameSize \in Nat
    BY <2>1
  <2> QED BY <1>1, <1>4, <2>1, <2>2
<1>9. a' = a /\ Len(took') = a + (k + 1)
  <2>1. a' = a
    BY <1>1 DEF a
  <2> QED BY <1>3, <1>4, <1>5, <1>7, <2>1
<1> QED BY <1>1, <1>7, <1>8, <1>9 DEF CountInv, l, a

(* A packet that is read adds its frames behind those of the others.       *)
LEMMA PacketAdded ==
  ASSUME Inv, ReadSlot
  PROVE  /\ Len(len') = Len(len) + 1 /\ Len(len) \in Nat
         /\ PayloadFrames(len'[Len(len')]) \in Nat
         /\ \A n \in 1..Len(len) : Frames'[n] = Frames[n]
         /\ \A n \in 0..Len(len) : Sums(Frames')[n] = Sums(Frames)[n]
         /\ Sums(Frames)[Len(len)] = Total(Frames) /\ Total(Frames) \in Nat
<1>1. len \in Seq(Lengths) /\ Frames \in Seq(Nat) /\ Len(Frames) = Len(len) /\ Len(len) \in Nat
  BY FramesType DEF Inv, TypeOK
<1>2. PICK l \in Lengths : len' = Append(len, l)
  BY DEF ReadSlot
<1>3. /\ Len(len') = Len(len) + 1 /\ len'[Len(len')] = l
      /\ \A n \in 1..Len(len) : len'[n] = len[n]
  BY <1>1, <1>2
<1>4. l \in Nat /\ PayloadFrames(l) \in Nat
  BY DumpAssumption, RoundsOfLoop
<1> DEFINE t == Append(Frames, PayloadFrames(l))
<1>5. /\ t \in [1 .. Len(len) + 1 -> Nat] /\ t[Len(len) + 1] = PayloadFrames(l)
      /\ \A n \in 1..Len(len) : t[n] = Frames[n]
  <2> HIDE DEF Frames
  <2>1. /\ t \in Seq(Nat) /\ Len(t) = Len(len) + 1 /\ t[Len(len) + 1] = PayloadFrames(l)
        /\ \A n \in 1..Len(len) : t[n] = Frames[n]
    BY <1>1, <1>4
  <2> HIDE DEF t
  <2> QED BY <2>1
<1>6. Frames' = t
  <2>1. Frames' = [n \in 1 .. Len(len) + 1 |-> PayloadFrames(len'[n])]
    BY <1>3 DEF Frames
  <2> HIDE DEF t
  <2>2. \A n \in 1..Len(len) : Frames[n] = PayloadFrames(len[n])
    BY <1>1, FramesType, Zenon
  <2>3. \A n \in 1 .. Len(len) + 1 : t[n] = PayloadFrames(len'[n])
    BY <1>1, <1>3, <1>5, <2>2, SMTT(60)
  <2> QED BY <1>5, <2>1, <2>3, Zenon
<1>7. \A n \in 0..Len(len) : Sums(t)[n] = Sums(Frames)[n]
  BY <1>1, <1>4, SumsAppend, Zenon
<1>8. Sums(Frames) \in [0..Len(len) -> Nat] /\ Len(len) \in 0..Len(len)
  BY <1>1, SumsStep
<1>9. Sums(Frames)[Len(len)] = Total(Frames) /\ Total(Frames) \in Nat
  BY <1>1, <1>8, Zenon DEF Total
<1> HIDE DEF t
<1> QED BY <1>1, <1>3, <1>4, <1>5, <1>6, <1>7, <1>9, Zenon

(* A packet that is read begins to be written; one whose bytes are all     *)
(* copied has been written.                                                *)
LEMMA OtherCounts ==
  ASSUME Inv, CountInv,
         rtpdump_ao_open \/ ReadSlot \/ ReadDone \/ rtpdump_ao_close \/ UNCHANGED vars
  PROVE  CountInv'
<1>1. len \in Seq(Lengths) /\ Frames \in Seq(Nat) /\ Len(Frames) = Len(len) /\ Len(len) \in Nat
  BY FramesType DEF Inv, TypeOK
<1>2. CASE rtpdump_ao_open \/ rtpdump_ao_close \/ UNCHANGED vars
  <2>1. Frames' = Frames /\ len' = len /\ (pc' = "copy" <=> pc = "copy")
        /\ UNCHANGED <<i, took>>
    BY <1>2 DEF rtpdump_ao_open, rtpdump_ao_close, vars, Frames
  <2> QED BY <2>1, Zenon DEF CountInv
<1>3. CASE ReadSlot
  <2>1. pc # "copy" /\ pc' = "copy" /\ i' = Hdr /\ took' = took
    BY <1>3 DEF ReadSlot
  <2>2. Sums(Frames')[Len(len') - 1] = Total(Frames) /\ Total(Frames) \in Nat
    <3>1. Len(len') - 1 = Len(len) /\ Len(len) \in 0..Len(len)
      BY <1>3, PacketAdded
    <3> QED BY <1>3, <3>1, PacketAdded, Zenon
  <2>3. 0 \in 0 .. PayloadFrames(len'[Len(len')]) /\ i' = Hdr + 0 * FrameSize
    BY <1>3, <2>1, PacketAdded, Numbers
  <2>4. Len(took') = Sums(Frames')[Len(len') - 1] + 0
    BY <2>1, <2>2 DEF CountInv
  <2> QED BY <2>1, <2>3, <2>4 DEF CountInv
<1>4. CASE ReadDone
  <2> DEFINE l == len[Len(len)]
             a == Sums(Frames)[Len(len) - 1]
  <2>1. /\ pc = "copy" /\ pc' # "copy" /\ len' = len /\ Frames' = Frames /\ ~(i < l)
        /\ took' = took
    BY <1>4 DEF ReadDone, Frames
  <2>2. Len(len) > 0 /\ l \in Nat
    <3>1. Len(len) > 0
      BY <2>1 DEF Inv
    <3>2. \A n \in 1..Len(len) : len[n] \in Nat
      BY <1>1, LengthsType
    <3> QED BY <1>1, <3>1, <3>2
  <2>3. PICK k \in 0 .. PayloadFrames(l) : i = Hdr + k * FrameSize /\ Len(took) = a + k
    BY <2>1 DEF CountInv
  <2>4. Total(Frames) = a + PayloadFrames(l)
    <3>1. Len(len) \in 1..Len(Frames)
      BY <1>1, <2>2
    <3>2. Sums(Frames)[Len(len)] = a + Frames[Len(len)] /\ Frames[Len(len)] = PayloadFrames(l)
      BY <1>1, <3>1, SumsStep, FramesType, Zenon
    <3> QED BY <1>1, <3>2, Zenon DEF Total
  <2> HIDE DEF l, a
  <2>5. k = PayloadFrames(l)
    BY <2>1, <2>2, <2>3, RoundsOfLoop
  <2> QED BY <2>1, <2>3, <2>4, <2>5 DEF CountInv
<1> QED BY <1>2, <1>3, <1>4

LEMMA Counting == Spec => []CountInv
<1>1. Init => CountInv
  <2> SUFFICES ASSUME Init PROVE CountInv
    OBVIOUS
  <2>1. len = <<>> /\ pc # "copy" /\ took = <<>>
    BY DEF Init
  <2>2. len \in Seq(Lengths) /\ Len(len) = 0 /\ Len(took) = 0
    BY <2>1
  <2>3. Frames \in Seq(Nat) /\ Len(Frames) = 0
    BY <2>2, FramesType, Zenon
  <2>4. Total(Frames) = 0
    BY <2>3, SumsStep, Zenon DEF Total
  <2> QED BY <2>1, <2>2, <2>4 DEF CountInv
<1>2. Inv /\ CountInv /\ [Next]_vars => CountInv'
  BY WriteFrameCounts, OtherCounts, Zenon DEF Next
<1>3. QED
  BY <1>1, <1>2, Invariant, PTL DEF Spec

(* received_frames is the number of frames of all packets' payloads,       *)
(* modulo 2^32, for every size of the header and of a frame, every         *)
(* sequence of lengths, and whether or not the frames could be written.    *)
THEOREM PayloadCounted == Spec => []CountsPayload
<1>1. Inv /\ CountInv => CountsPayload
  BY DEF Inv, CountInv, CountsPayload
<1>2. QED
  BY <1>1, Invariant, Counting, PTL

-----------------------------------------------------------------------------
(* What was taken of frame j, from offset o of packet n, is in its place.  *)
Lies(j, n, o) ==
  /\ took[j] > 0
  /\ \A b \in 0 .. took[j] - 1 : file[began + Sums(took)[j - 1] + b] = Audio(n, o, b)

(* What was written is where it belongs, unless a write() failed or the    *)
(* header was updated where audio lies in its place.                       *)
PlaceInv ==
  ret = 0 /\ (pc # "closed" \/ began = WavHdr) =>
    \A n \in 1..Len(len) : \A k \in 1..Frames[n] : Ordinal(n, k) <= Len(took) => Stored(n, k)

(* The place of a frame that was written is before the file position.      *)
LEMMA BeforePos ==
  ASSUME Inv, NEW j \in 1..Len(took), NEW b \in 0 .. took[j] - 1
  PROVE  began + Sums(took)[j - 1] + b \in began .. pos - 1
<1>1. took \in Seq(0..FrameSize) /\ began \in Nat /\ pos = began + Total(took)
  BY Numbers DEF Inv, TypeOK
<1>2. took \in Seq(Nat) /\ Len(took) \in Nat
  BY <1>1, TookType, Zenon
<1>3. j \in 0..Len(took) /\ j - 1 \in 0..Len(took) /\ Len(took) \in j..Len(took)
  BY <1>2
<1>4. /\ Sums(took)[j] = Sums(took)[j - 1] + took[j] /\ Sums(took)[j] <= Total(took)
      /\ Sums(took)[j] \in Nat /\ Sums(took)[j - 1] \in Nat /\ Total(took) \in Nat
  BY <1>1, <1>2, <1>3, SumsStep, SumsGrow, TookType, Zenon DEF Total
<1>5. took[j] \in Nat
  BY <1>2
<1> DEFINE x == Sums(took)[j]
           y == Sums(took)[j - 1]
           z == Total(took)
           t == took[j]
<1>6. /\ x \in Nat /\ y \in Nat /\ z \in Nat /\ t \in Nat /\ x = y + t /\ x <= z
      /\ b \in 0 .. t - 1 /\ pos = began + z
  BY <1>1, <1>4, <1>5, Zenon
<1> HIDE DEF x, y, z, t
<1>7. began + y + b \in began .. (began + z) - 1
  BY <1>1, <1>6
<1> QED BY <1>6, <1>7, Zenon DEF y

(* It stays there while the bytes before the file position do.             *)
LEMMA LiesOn ==
  ASSUME Inv, NEW n, NEW o, NEW j \in 1..Len(took), Lies(j, n, o),
         began' = began, took'[j] = took[j], Sums(took')[j - 1] = Sums(took)[j - 1],
         \A x \in began .. pos - 1 : file'[x] = file[x]
  PROVE  Lies(j, n, o)'
<1>1. ASSUME NEW b \in 0 .. took[j] - 1
      PROVE  file'[began + Sums(took)[j - 1] + b] = Audio(n, o, b)
  <2>1. began + Sums(took)[j - 1] + b \in began .. pos - 1
    BY BeforePos, Zenon
  <2> QED BY <2>1, Zenon DEF Lies
<1> QED BY <1>1, Zenon DEF Lies

(* The frames of a packet lie behind those of the packets before it and    *)
(* before those of the packets after it.                                   *)
LEMMA Places ==
  ASSUME len \in Seq(Lengths), NEW n \in 1..Len(len), NEW k \in 1..Frames[n]
  PROVE  /\ k \in Nat \ {0} /\ Sums(Frames)[n - 1] \in Nat
         /\ Ordinal(n, k) \in Nat \ {0}
         /\ \A m \in n..Len(len) : Ordinal(n, k) <= Sums(Frames)[m] /\ Sums(Frames)[m] \in Nat
<1>1. /\ Frames \in Seq(Nat) /\ Len(Frames) = Len(len) /\ Len(len) \in Nat
      /\ Frames[n] \in Nat
  BY FramesType, LengthsType
<1>2. n \in 1..Len(Frames) /\ n \in 0..Len(Frames) /\ n - 1 \in 0..Len(Frames)
  BY <1>1
<1>3. /\ Sums(Frames) \in [0..Len(Frames) -> Nat]
      /\ Sums(Frames)[n] = Sums(Frames)[n - 1] + Frames[n]
      /\ \A m \in n..Len(Frames) : Sums(Frames)[n] <= Sums(Frames)[m]
  BY <1>1, <1>2, SumsStep, SumsGrow, Zenon
<1> HIDE DEF Frames
<1>4. k \in Nat \ {0} /\ k <= Frames[n] /\ Sums(Frames)[n - 1] \in Nat /\ Sums(Frames)[n] \in Nat
  <2>1. Sums(Frames)[n - 1] \in Nat /\ Sums(Frames)[n] \in Nat
    BY <1>2, <1>3, Zenon
  <2> QED BY <1>1, <2>1
<1>5. Ordinal(n, k) \in Nat \ {0} /\ Ordinal(n, k) <= Sums(Frames)[n]
  BY <1>1, <1>3, <1>4, SMTT(60) DEF Ordinal
<1>6. ASSUME NEW m \in n..Len(len)
      PROVE  Ordinal(n, k) <= Sums(Frames)[m] /\ Sums(Frames)[m] \in Nat
  <2>1. m \in n..Len(Frames) /\ m \in 0..Len(Frames)
    BY <1>1
  <2>2. Sums(Frames)[n] <= Sums(Frames)[m] /\ Sums(Frames)[m] \in Nat
    BY <1>3, <2>1, Zenon
  <2> QED BY <1>4, <1>5, <2>2
<1> QED BY <1>4, <1>5, <1>6

(* A round stores the next frame in the next place.                        *)
LEMMA WriteFramePlaces == Inv /\ CountInv /\ PlaceInv /\ WriteFrame => PlaceInv'
<1> SUFFICES ASSUME Inv, CountInv, PlaceInv, WriteFrame PROVE PlaceInv'
  OBVIOUS
<1>1. /\ len' = len /\ Frames' = Frames /\ pc = "copy" /\ pc' = "copy" /\ began' = began
      /\ len \in Seq(Lengths) /\ Len(len) \in Nat /\ Len(len) > 0 /\ i \in Nat
      /\ took \in Seq(0..FrameSize) /\ file \in [0 .. Space - 1 -> Byte]
  <2>1. len \in Seq(Lengths)
    BY DEF Inv, TypeOK
  <2>2. pc = "copy"
    BY DEF WriteFrame
  <2> QED BY <2>1, <2>2, LengthsType, Zenon DEF Inv, TypeOK, WriteFrame, Frames
<1>2. PICK count \in 0..FrameSize :
        /\ pos + count <= Space /\ file' = Written(file, pos, Frame, count)
        /\ took' = Append(took, count) /\ ret' = IF count < 1 THEN -1 ELSE ret
  BY Zenon DEF WriteFrame, WriteTmp
<1> SUFFICES ASSUME ret' = 0, NEW n \in 1..Len(len), NEW k \in 1..Frames[n],
                    Ordinal(n, k) <= Len(took')
             PROVE  Stored(n, k)'
  BY <1>1, Zenon DEF PlaceInv, Ordinal
<1>3. /\ Len(took') = Len(took) + 1 /\ Len(took) \in Nat
      /\ \A x \in 1..Len(took) : took'[x] = took[x]
      /\ took'[Len(took) + 1] = count
      /\ \A x \in 0..Len(took) : Sums(took')[x] = Sums(took)[x]
  BY <1>1, <1>2, TookMore, TookType, Zenon
<1>4. ret = 0 /\ count > 0
  BY <1>2
<1>5. /\ pos \in Nat /\ FrameSize \in Nat /\ Space \in Nat
      /\ \A x \in 0 .. FrameSize - 1 : Frame[x] = Audio(Len(len), i, x)
      /\ Overwritten(file', file, pos, Frame, count)
  <2>1. pos \in Nat /\ FrameSize \in Nat /\ Space \in Nat
    BY Numbers DEF Inv, TypeOK
  <2>2. /\ Frame \in [0 .. FrameSize - 1 -> Byte]
        /\ \A x \in 0 .. FrameSize - 1 : Frame[x] = Audio(Len(len), i, x)
    BY <1>1, FrameBytes, Zenon
  <2> QED BY <1>1, <1>2, <2>1, <2>2, WrittenBytes, Zenon
<1> DEFINE o == Hdr + (k - 1) * FrameSize
<1>6. PICK j \in Nat \ {0} : j = Ordinal(n, k)
  BY <1>1, Places, Zenon
<1>7. SUFFICES Lies(j, n, o)'
  <2>1. Ordinal(n, k)' = j
    BY <1>1, <1>6, Zenon DEF Ordinal
  <2> QED BY <2>1, Zenon DEF Stored, Lies
<1>8. CASE j <= Len(took)
  <2>1. j \in 1..Len(took) /\ j - 1 \in 0..Len(took)
    BY <1>3, <1>8
  <2>2. Lies(j, n, o)
    <3>1. Stored(n, k)
      BY <1>1, <1>4, <1>6, <1>8 DEF PlaceInv
    <3> QED BY <1>6, <3>1, Zenon DEF Stored, Lies
  <2>3. ASSUME NEW x \in began .. pos - 1 PROVE file'[x] = file[x]
    <3>1. x \in 0 .. Space - 1 /\ ~(pos <= x /\ x < pos + count)
      <4>1. began \in Nat /\ pos \in 0..Space
        BY Numbers DEF Inv, TypeOK
      <4> QED BY <1>5, <4>1
    <3> QED BY <1>5, <3>1, Zenon DEF Overwritten
  <2>4. took'[j] = took[j] /\ Sums(took')[j - 1] = Sums(took)[j - 1]
    BY <1>3, <2>1, Zenon
  <2> HIDE DEF o
  <2> QED BY <1>1, <2>1, <2>2, <2>3, <2>4, LiesOn, Zenon
<1>9. CASE j = Len(took) + 1
  <2>1. PICK m \in 0 .. PayloadFrames(len[Len(len)]) :
          i = Hdr + m * FrameSize /\ Len(took) = Sums(Frames)[Len(len) - 1] + m
    BY <1>1 DEF CountInv
  <2>2. m \in Nat
    BY <2>1
  <2>3. n = Len(len)
    <3> SUFFICES ASSUME n # Len(len) PROVE FALSE
      OBVIOUS
    <3>1. Len(len) - 1 \in n..Len(len)
      BY <1>1
    <3>2. j <= Sums(Frames)[Len(len) - 1] /\ Sums(Frames)[Len(len) - 1] \in Nat
      BY <1>1, <1>6, <3>1, Places, Zenon
    <3> QED BY <1>3, <1>9, <2>1, <2>2, <3>2, SMTT(60)
  <2>4. k \in Nat /\ Sums(Frames)[n - 1] \in Nat
    BY <1>1, Places
  <2>5. k - 1 = m
    BY <1>6, <1>9, <2>1, <2>2, <2>3, <2>4, SMTT(60) DEF Ordinal
  <2>6. o = i /\ j - 1 = Len(took) /\ Len(took) \in 0..Len(took)
    BY <1>3, <1>9, <2>1, <2>5
  <2>7. began' + Sums(took')[j - 1] = pos /\ took'[j] = count
    <3>1. Sums(took')[j - 1] = Total(took)
      BY <1>3, <2>6, Zenon DEF Total
    <3> QED BY <1>1, <1>3, <1>9, <3>1, Zenon DEF Inv
  <2>8. ASSUME NEW b \in 0 .. count - 1 PROVE file'[pos + b] = Audio(n, i, b)
    <3>1. /\ pos + b \in 0 .. Space - 1 /\ pos <= pos + b /\ pos + b < pos + count
          /\ (pos + b) - pos = b /\ b \in 0 .. FrameSize - 1
      BY <1>2, <1>5
    <3>2. file'[pos + b] = Frame[(pos + b) - pos]
      BY <1>5, <3>1, Zenon DEF Overwritten
    <3> QED BY <1>5, <2>3, <3>1, <3>2, Zenon
  <2> HIDE DEF o
  <2> QED BY <1>4, <2>6, <2>7, <2>8, Zenon DEF Lies
<1> QED BY <1>3, <1>6, <1>8, <1>9

(* A packet that is read has its places behind the file position; opening  *)
(* comes before all packets, and an updated header is before all frames.   *)
LEMMA OtherPlaces ==
  ASSUME Inv, CountInv, PlaceInv,
         rtpdump_ao_open \/ ReadSlot \/ ReadDone \/ rtpdump_ao_close \/ UNCHANGED vars
  PROVE  PlaceInv'
<1>1. len \in Seq(Lengths) /\ took \in Seq(0..FrameSize) /\ Len(took) \in Nat
  <2>1. len \in Seq(Lengths) /\ took \in Seq(0..FrameSize)
    BY DEF Inv, TypeOK
  <2> QED BY <2>1, TookType, Zenon
<1>2. CASE rtpdump_ao_open
  <2>1. len' = len /\ Frames' = Frames /\ Len(took') = 0
    <3>1. len' = len /\ took' = <<>>
      BY <1>2 DEF rtpdump_ao_open, Inv
    <3> QED BY <3>1 DEF Frames
  <2>2. ASSUME NEW n \in 1..Len(len), NEW k \in 1..Frames[n] PROVE ~(Ordinal(n, k)' <= Len(took'))
    <3>1. Ordinal(n, k)' = Ordinal(n, k) /\ Ordinal(n, k) \in Nat \ {0}
      BY <1>1, <2>1, Places, Zenon DEF Ordinal
    <3> QED BY <2>1, <3>1
  <2> QED BY <2>1, <2>2, Zenon DEF PlaceInv
<1>3. CASE ReadDone \/ UNCHANGED vars
  <2>1. /\ Frames' = Frames /\ UNCHANGED <<len, ret, file, began, took>>
        /\ pc = "closed" => pc' = "closed"
    BY <1>3 DEF ReadDone, vars, Frames
  <2>2. ASSUME NEW n, NEW k
        PROVE  Ordinal(n, k)' = Ordinal(n, k) /\ (Stored(n, k) => Stored(n, k)')
    <3>1. Ordinal(n, k)' = Ordinal(n, k)
      BY <2>1, Zenon DEF Ordinal
    <3> QED BY <2>1, <3>1, Zenon DEF Stored
  <2> QED BY <2>1, <2>2, Zenon DEF PlaceInv
<1>4. CASE rtpdump_ao_close
  <2>1. Frames' = Frames /\ UNCHANGED <<len, ret, began, took>> /\ pc = "loop" /\ pc' = "closed"
    BY <1>4 DEF rtpdump_ao_close, Frames
  <2> SUFFICES ASSUME began = WavHdr, ret = 0, NEW n \in 1..Len(len), NEW k \in 1..Frames[n],
                      Ordinal(n, k) <= Len(took)
               PROVE  Stored(n, k)'
    BY <2>1, Zenon DEF PlaceInv, Ordinal
  <2> DEFINE o == Hdr + (k - 1) * FrameSize
  <2>2. PICK j \in Nat \ {0} : j = Ordinal(n, k)
    BY <1>1, Places, Zenon
  <2>3. j \in 1..Len(took)
    BY <1>1, <2>2
  <2>4. Lies(j, n, o)
    <3>1. Stored(n, k)
      BY <2>1 DEF PlaceInv
    <3> QED BY <2>2, <3>1, Zenon DEF Stored, Lies
  <2>5. ASSUME NEW x \in began .. pos - 1 PROVE file'[x] = file[x]
    <3>1. x \in 0 .. Space - 1 /\ ~(x < WavHdr)
      <4>1. pos \in 0..Space /\ Space \in Nat /\ WavHdr \in Nat /\ x \in WavHdr .. pos - 1
        BY Numbers DEF Inv, TypeOK
      <4> QED BY <4>1
    <3>2. file \in [0 .. Space - 1 -> Byte] /\ received_frames \in Nat
      BY DEF Inv, TypeOK
    <3> QED BY <1>4, <3>1, <3>2, HeaderUpdated, Zenon
  <2> HIDE DEF o
  <2>6. Lies(j, n, o)'
    BY <2>1, <2>3, <2>4, <2>5, LiesOn, Zenon
  <2>7. Ordinal(n, k)' = j
    BY <2>1, <2>2, Zenon DEF Ordinal
  <2> QED BY <2>6, <2>7, Zenon DEF Stored, Lies, o
<1>5. CASE ReadSlot
  <2>1. pc = "loop" /\ UNCHANGED <<file, began, took>> /\ ret = 0
    BY <1>5 DEF ReadSlot, Inv
  <2>2. Len(took) = Total(Frames)
    BY <2>1 DEF CountInv
  <2> SUFFICES ASSUME NEW n \in 1 .. Len(len) + 1, NEW k \in 1..Frames'[n],
                      Ordinal(n, k)' <= Len(took)
               PROVE  Stored(n, k)'
    BY <1>5, <2>1, PacketAdded, Zenon DEF PlaceInv
  <2>3. Len(len) \in Nat /\ n - 1 \in 0..Len(len)
    BY <1>5, PacketAdded
  <2>4. Ordinal(n, k)' = Ordinal(n, k)
    BY <1>5, <2>3, PacketAdded, Zenon DEF Ordinal
  <2>5. CASE n = Len(len) + 1
    <3>1. Ordinal(n, k) = Len(took) + k
      BY <1>5, <2>2, <2>3, <2>5, PacketAdded DEF Ordinal
    <3> QED BY <1>1, <2>4, <3>1
  <2>6. CASE n \in 1..Len(len)
    <3>1. k \in 1..Frames[n]
      BY <1>5, <2>6, PacketAdded, Zenon
    <3>2. Stored(n, k)
      BY <2>1, <2>4, <2>6, <3>1 DEF PlaceInv
    <3> QED BY <2>1, <2>4, <3>2, Zenon DEF Stored
  <2> QED BY <2>3, <2>5, <2>6
<1> QED BY <1>2, <1>3, <1>4, <1>5, Zenon

(* For every sequence of lengths, every file that was there before and     *)
(* every way the writes fall short: between packets the file holds, from   *)
(* where the audio begins, what was taken of the frames received, each     *)
(* once and in their order, and updating a whole header leaves it so.      *)
THEOREM FramesDumpedInOrder == Spec => []FramesInPlace
<1>1. Init => PlaceInv
  BY DEF Init, PlaceInv
<1>2. Inv /\ CountInv /\ PlaceInv /\ [Next]_vars => PlaceInv'
  BY WriteFramePlaces, OtherPlaces, Zenon DEF Next
<1>3. Inv /\ CountInv /\ PlaceInv => FramesInPlace
  <2> SUFFICES ASSUME Inv, CountInv, PlaceInv, pc = "loop" \/ (pc = "closed" /\ began = WavHdr)
               PROVE  /\ Len(took) = Total(Frames)
                      /\ \A n \in 1..Len(len) : \A k \in 1..Frames[n] : Stored(n, k)
    BY DEF FramesInPlace
  <2>1. ret = 0 /\ Len(took) = Total(Frames) /\ len \in Seq(Lengths)
    BY DEF Inv, TypeOK, CountInv
  <2>2. ASSUME NEW n \in 1..Len(len), NEW k \in 1..Frames[n] PROVE Stored(n, k)
    <3>1. Len(len) \in n..Len(len) /\ Len(Frames) = Len(len)
      BY <2>1, FramesType
    <3>2. Ordinal(n, k) <= Len(took)
      BY <2>1, <3>1, Places, Zenon DEF Total
    <3> QED BY <2>1, <3>2 DEF PlaceInv
  <2> QED BY <2>1, <2>2
<1>4. QED
  BY <1>1, <1>2, <1>3, Invariant, Counting, PTL DEF Spec
=============================================================================
