----------------------------- MODULE MediaProofs -----------------------------
(***************************************************************************)
(* Proofs about AvPump, for every size of its channels, pool, prebuffer and*)
(* delay and every length of the session, about LiveAudio, for every       *)
(* behaviour of its senders, helper and pictures, about HlsBuffer, for     *)
(* every limit of its cache, and about their composition in MCMedia.       *)
(***************************************************************************)
EXTENDS MCMedia, SequenceTheorems, FiniteSetTheorems, WellFoundedInduction, TLAPS

(***************************************************************************)
(* The pump.                                                               *)
(***************************************************************************)
InHand(st) == IF hand[st] = 0 THEN 0 ELSE 1

(* How much of a stream Run has taken so far. *)
TakenOf(st) == made[st] - Len(Available(st)) - InHand(st)

(* The next pieces of a stream, nothing missing. *)
Consecutive(q, base) == \A i \in 1..Len(q) : q[i] = base + i

(* What waits for Run is the next piece of the stream. *)
InSequence(st) ==
    /\ Consecutive(Available(st), TakenOf(st))
    /\ hand[st] # 0 => hand[st] = made[st]

(* Every buffer of the pool is free, waits with its frame or is being      *)
(* filled.                                                                 *)
BuffersKept == free + Len(Available("video")) + InHand("video") = PoolSlots

(* As long as Run runs, the tick loop has shown exactly what it has taken, *)
(* and the chunks it has taken are those of the frames shown, except for   *)
(* what avPairer still owes.                                               *)
InStep ==
    phase # "done" =>
        /\ \A st \in Streams : InSequence(st)
        /\ BuffersKept
        /\ TakenOf("video") = shown
        /\ TakenOf("audio") + debt = shown

(* A ring holds chunks of the frames up to the top one, in their order. *)
RingOK(r, top) ==
    /\ r \in Seq(Items) /\ Len(r) <= AudioDelay + 1
    /\ \A i \in 1..Len(r) : r[i] <= top
    /\ \A i, j \in 1..Len(r) : i <= j => r[i] + (j - i) <= r[j]

(* The muxer only turns to a stream it has more of. *)
MoreToWrite == \A st \in Streams : mux = st => made[st] < Frames

PumpInv == PumpShape /\ MoreToWrite /\ InStep /\ RingOK(ring, shown) /\ AudioNeverLeads

-----------------------------------------------------------------------------
(* The operators on sequences. *)

LEMMA Sizes ==
  /\ VideoChCap \in Nat /\ AudioChCap \in Nat /\ PoolSlots \in Nat
  /\ AudioDelay \in Nat /\ Frames \in Nat
BY PumpAssumption

LEMMA DropProperties ==
  ASSUME NEW T, NEW q \in Seq(T), NEW k \in 0..Len(q)
  PROVE  /\ Drop(q, k) \in Seq(T)
         /\ Len(Drop(q, k)) = Len(q) - k
         /\ \A i \in 1..(Len(q) - k) : Drop(q, k)[i] = q[k + i]
<1>1. CASE k = Len(q)
  BY <1>1, LenProperties DEF Drop
<1>2. CASE k < Len(q)
  BY <1>2, LenProperties DEF Drop
<1> QED BY <1>1, <1>2, LenProperties

LEMMA ConcatSplit ==
  ASSUME NEW T, NEW a \in Seq(T), NEW b \in Seq(T)
  PROVE  /\ a \o b \in Seq(T)
         /\ Len(a) \in Nat /\ Len(b) \in Nat
         /\ Len(a \o b) = Len(a) + Len(b)
         /\ \A i \in 1..Len(a) : (a \o b)[i] = a[i]
         /\ \A i \in 1..Len(b) : (a \o b)[Len(a) + i] = b[i]
<1>1. Len(a) \in Nat /\ Len(b) \in Nat
  BY LenProperties
<1>2. \A i \in 1..Len(a) + Len(b) : (a \o b)[i] = IF i <= Len(a) THEN a[i] ELSE b[i - Len(a)]
  BY ConcatProperties
<1>3. ASSUME NEW i \in 1..Len(a) PROVE (a \o b)[i] = a[i]
  <2>1. i \in 1..Len(a) + Len(b) /\ i <= Len(a)
    BY <1>1
  <2> QED BY <1>2, <2>1
<1>4. ASSUME NEW i \in 1..Len(b) PROVE (a \o b)[Len(a) + i] = b[i]
  <2>1. Len(a) + i \in 1..Len(a) + Len(b) /\ ~(Len(a) + i <= Len(a)) /\ (Len(a) + i) - Len(a) = i
    BY <1>1
  <2> QED BY <1>2, <2>1
<1> QED BY <1>1, <1>3, <1>4, ConcatProperties

(* What is taken is the front of what is available. *)
LEMMA TakeProperties ==
  ASSUME NEW st, pre[st] \in Seq(Items), queue[st] \in Seq(Items), NEW n \in 0..Len(Available(st))
  PROVE  LET t == TakeItems(st, n)
             left == t.pre \o t.queue
         IN /\ t.pre \in Seq(Items) /\ t.queue \in Seq(Items)
            /\ Len(t.queue) <= Len(queue[st])
            /\ left \in Seq(Items)
            /\ Len(left) = Len(Available(st)) - n
            /\ \A i \in 1..Len(left) : left[i] = Available(st)[n + i]
<1> DEFINE x == pre[st]
           y == queue[st]
           fromPre == IF n < Len(x) THEN n ELSE Len(x)
           p == Drop(x, fromPre)
           q == Drop(y, n - fromPre)
<1>1. TakeItems(st, n) = [pre |-> p, queue |-> q]
  BY DEF TakeItems
<1>2. /\ x \in Seq(Items) /\ y \in Seq(Items) /\ Available(st) = x \o y
  BY DEF Available
<1>3. n \in 0..Len(x \o y)
  BY <1>2
<1>4. fromPre = IF n < Len(x) THEN n ELSE Len(x)
  OBVIOUS
<1> HIDE DEF x, y, fromPre
<1>5. /\ Len(x) \in Nat /\ Len(y) \in Nat /\ Len(x \o y) = Len(x) + Len(y)
      /\ \A i \in 1..Len(x) : (x \o y)[i] = x[i]
      /\ \A i \in 1..Len(y) : (x \o y)[Len(x) + i] = y[i]
  BY <1>2, ConcatSplit
<1>6. fromPre \in 0..Len(x) /\ n - fromPre \in 0..Len(y)
  BY <1>3, <1>4, <1>5
<1>7. /\ p \in Seq(Items) /\ Len(p) = Len(x) - fromPre
      /\ \A i \in 1..(Len(x) - fromPre) : p[i] = x[fromPre + i]
  BY <1>2, <1>6, DropProperties
<1>8. /\ q \in Seq(Items) /\ Len(q) = Len(y) - (n - fromPre)
      /\ \A i \in 1..(Len(y) - (n - fromPre)) : q[i] = y[(n - fromPre) + i]
  BY <1>2, <1>6, DropProperties
<1> HIDE DEF p, q
<1>9. /\ p \o q \in Seq(Items) /\ Len(p \o q) = Len(p) + Len(q)
      /\ \A i \in 1..Len(p) : (p \o q)[i] = p[i]
      /\ \A i \in 1..Len(q) : (p \o q)[Len(p) + i] = q[i]
  <2>1. p \in Seq(Items) /\ q \in Seq(Items)
    BY <1>7, <1>8
  <2> QED BY <2>1, ConcatSplit
<1>sizes. /\ Len(x) \in Nat /\ Len(y) \in Nat /\ fromPre \in 0..Len(x) /\ n - fromPre \in 0..Len(y)
          /\ Len(p) = Len(x) - fromPre /\ Len(q) = Len(y) - (n - fromPre)
          /\ Len(p \o q) = Len(p) + Len(q) /\ n \in Nat
  BY <1>3, <1>5, <1>6, <1>7, <1>8, <1>9
<1>10. Len(p \o q) = Len(x \o y) - n
  BY <1>5, <1>sizes
<1>11. ASSUME NEW i \in 1..Len(p \o q) PROVE (p \o q)[i] = (x \o y)[n + i]
  <2>1. CASE i \in 1..Len(p)
    <3>1. fromPre = n /\ n + i \in 1..Len(x) /\ i \in 1..(Len(x) - fromPre)
      BY <1>3, <1>4, <1>5, <1>6, <1>7, <2>1
    <3> QED BY <1>5, <1>7, <1>9, <2>1, <3>1
  <2>2. CASE i \notin 1..Len(p)
    <3> DEFINE k == i - Len(p)
               m == (n - fromPre) + k
    <3>1. /\ k \in 1..Len(q) /\ i = Len(p) + k /\ k \in 1..(Len(y) - (n - fromPre))
      BY <1>sizes, <2>2
    <3>2. m \in 1..Len(y) /\ n + i = Len(x) + m
      BY <1>sizes, <3>1
    <3> HIDE DEF k, m
    <3>3. (p \o q)[i] = q[k]
      BY <1>9, <3>1
    <3>4. q[k] = y[m]
      BY <1>8, <3>1 DEF m
    <3> QED BY <1>5, <3>2, <3>3, <3>4
  <2> QED BY <2>1, <2>2
<1>12. Len(q) <= Len(y)
  BY <1>5, <1>6, <1>8
<1> QED BY <1>1, <1>2, <1>7, <1>8, <1>9, <1>10, <1>11, <1>12 DEF y

(* Moving the head of one sequence to the end of the one before it. *)
LEMMA MoveHead ==
  ASSUME NEW T, NEW a \in Seq(T), NEW b \in Seq(T), b # <<>>
  PROVE  /\ Append(a, Head(b)) \in Seq(T) /\ Tail(b) \in Seq(T)
         /\ Len(Tail(b)) <= Len(b)
         /\ Append(a, Head(b)) \o Tail(b) = a \o b
<1> DEFINE hd == Head(b)
           t == Tail(b)
<1>1. /\ hd \in T /\ t \in Seq(T) /\ Len(b) \in Nat /\ Len(b) # 0 /\ Len(t) = Len(b) - 1
      /\ <<hd>> \in Seq(T)
  BY HeadTailProperties, LenProperties, EmptySeq
<1>2. b = <<hd>> \o t
  <2>1. b = SubSeq(b, 1, Len(b))
    BY SubSeqFull
  <2>2. /\ SubSeq(b, 1, Len(b)) = <<b[1]>> \o SubSeq(b, 1 + 1, Len(b))
    BY <1>1, SubSeqRecursiveFirst
  <2>3. hd = b[1] /\ t = SubSeq(b, 2, Len(b))
    BY <1>1, TailIsSubSeq
  <2> QED BY <2>1, <2>2, <2>3
<1>3. Append(a, hd) = a \o <<hd>>
  BY <1>1, AppendIsConcat
<1>4. (a \o <<hd>>) \o t = a \o (<<hd>> \o t)
  BY <1>1, ConcatAssociative
<1>5. Append(a, hd) \in Seq(T)
  BY <1>1, AppendProperties
<1> HIDE DEF hd, t
<1>6. Len(t) <= Len(b)
  BY <1>1
<1> QED BY <1>1, <1>2, <1>3, <1>4, <1>5, <1>6 DEF hd, t

-----------------------------------------------------------------------------
(* The pairing and the delay ring. *)

(* What is owed goes, and the frame's own chunk if it has come. *)
LEMMA PairProperties ==
  ASSUME debt \in Nat, NEW n \in Nat
  PROVE  /\ Pair(n).taken \in 0..n /\ Pair(n).at \in 0..n /\ Pair(n).debt \in Nat
         /\ Pair(n).taken + Pair(n).debt = debt + 1
         /\ Pair(n).at # 0 => Pair(n).at = debt + 1
BY DEF Pair

LEMMA ItemsOfRing ==
  ASSUME NEW r \in Seq(Items)
  PROVE  \A i \in 1..Len(r) : r[i] \in Items /\ r[i] \in Nat
<1>1. ASSUME NEW i \in 1..Len(r) PROVE r[i] \in Items
  BY ElementOfSeq
<1>2. \A i \in Items : i \in Nat
  BY PumpAssumption DEF Items
<1> QED BY <1>1, <1>2

LEMMA TailOfRing ==
  ASSUME NEW top \in Nat, NEW r, RingOK(r, top), r # <<>>
  PROVE  RingOK(Tail(r), top) /\ Len(Tail(r)) = Len(r) - 1
<1>1. /\ r \in Seq(Items) /\ Len(r) \in Nat /\ Len(r) # 0 /\ AudioDelay \in Nat
  BY LenProperties, EmptySeq, PumpAssumption DEF RingOK
<1>2. /\ Tail(r) \in Seq(Items) /\ Len(Tail(r)) = Len(r) - 1
      /\ \A i \in 1..Len(Tail(r)) : Tail(r)[i] = r[i + 1]
  BY <1>1, HeadTailProperties
<1>3. \A i \in 1..Len(r) : r[i] \in Nat
  BY <1>1, ItemsOfRing
<1>4. ASSUME NEW i \in 1..Len(Tail(r)) PROVE Tail(r)[i] <= top
  <2>1. i + 1 \in 1..Len(r)
    BY <1>1, <1>2
  <2> QED BY <1>2, <2>1 DEF RingOK
<1>5. ASSUME NEW i \in 1..Len(Tail(r)), NEW j \in 1..Len(Tail(r)), i <= j
      PROVE  Tail(r)[i] + (j - i) <= Tail(r)[j]
  <2>1. i + 1 \in 1..Len(r) /\ j + 1 \in 1..Len(r) /\ i + 1 <= j + 1
    BY <1>1, <1>2, <1>5
  <2>2. r[i + 1] + ((j + 1) - (i + 1)) <= r[j + 1]
    BY <2>1 DEF RingOK
  <2>3. (j + 1) - (i + 1) = j - i
    BY <2>1
  <2> QED BY <1>2, <2>2, <2>3
<1>6. Len(Tail(r)) <= AudioDelay + 1
  BY <1>1, <1>2 DEF RingOK
<1> QED BY <1>2, <1>4, <1>5, <1>6 DEF RingOK

LEMMA AppendToRing ==
  ASSUME NEW top \in Nat, NEW r, RingOK(r, top), Len(r) <= AudioDelay, top + 1 \in Items
  PROVE  RingOK(Append(r, top + 1), top + 1)
<1> DEFINE c == top + 1
           a == Append(r, c)
<1>1. r \in Seq(Items) /\ Len(r) \in Nat /\ AudioDelay \in Nat /\ c \in Items /\ c = top + 1
  BY LenProperties, PumpAssumption DEF RingOK
<1> HIDE DEF c
<1>2. /\ a \in Seq(Items) /\ Len(a) = Len(r) + 1
      /\ \A i \in 1..Len(r) : a[i] = r[i]
      /\ a[Len(r) + 1] = c
  BY <1>1, AppendProperties
<1> HIDE DEF a
<1>3. \A i \in 1..Len(r) : r[i] \in Nat /\ r[i] <= top
  BY <1>1, ItemsOfRing DEF RingOK
<1>4. ASSUME NEW i \in 1..Len(a) PROVE a[i] <= c
  <2>1. CASE i = Len(r) + 1
    BY <2>1, <1>1, <1>2
  <2>2. CASE i \in 1..Len(r)
    BY <2>2, <1>1, <1>2, <1>3
  <2> QED BY <1>1, <1>2, <2>1, <2>2
<1>5. ASSUME NEW i \in 1..Len(a), NEW j \in 1..Len(a), i <= j
      PROVE  a[i] + (j - i) <= a[j]
  <2>1. CASE j \in 1..Len(r)
    <3>1. i \in 1..Len(r)
      BY <1>1, <1>5, <2>1
    <3>2. r[i] + (j - i) <= r[j]
      BY <1>5, <2>1, <3>1 DEF RingOK
    <3> QED BY <1>2, <2>1, <3>1, <3>2
  <2>2. CASE j = Len(r) + 1 /\ i \in 1..Len(r)
    <3>1. r[i] + (Len(r) - i) <= r[Len(r)] /\ Len(r) \in 1..Len(r)
      BY <1>1, <2>2 DEF RingOK
    <3>2. r[i] \in Nat /\ r[Len(r)] \in Nat /\ r[Len(r)] <= top
      BY <1>3, <2>2, <3>1
    <3> QED BY <1>1, <1>2, <2>2, <3>1, <3>2
  <2>3. CASE j = Len(r) + 1 /\ i = Len(r) + 1
    BY <1>1, <1>2, <2>3
  <2> QED BY <1>1, <1>2, <2>1, <2>2, <2>3
<1>6. Len(a) <= AudioDelay + 1
  BY <1>1, <1>2
<1> QED BY <1>1, <1>2, <1>4, <1>5, <1>6 DEF RingOK, c, a

LEMMA PushProperties ==
  ASSUME NEW top \in Nat, NEW r, RingOK(r, top), top + 1 \in Items
  PROVE  /\ RingOK(Push(r, top + 1), top + 1)
         /\ Push(r, top + 1) # <<>>
         /\ Push(r, top + 1)[Len(Push(r, top + 1))] = top + 1
<1>1. r \in Seq(Items) /\ Len(r) \in Nat /\ AudioDelay \in Nat /\ Len(r) <= AudioDelay + 1
  BY LenProperties, PumpAssumption DEF RingOK
<1>2. ASSUME NEW x, RingOK(x, top), Len(x) <= AudioDelay, Push(r, top + 1) = Append(x, top + 1)
      PROVE  /\ RingOK(Push(r, top + 1), top + 1)
             /\ Push(r, top + 1) # <<>>
             /\ Push(r, top + 1)[Len(Push(r, top + 1))] = top + 1
  <2>1. x \in Seq(Items)
    BY <1>2 DEF RingOK
  <2>2. /\ Append(x, top + 1) # <<>>
        /\ Append(x, top + 1)[Len(Append(x, top + 1))] = top + 1
    BY <2>1, AppendProperties
  <2> QED BY <1>2, <2>2, AppendToRing
<1>3. CASE Len(r) = AudioDelay + 1
  <2>1. r # <<>> /\ RingOK(Tail(r), top) /\ Len(Tail(r)) = Len(r) - 1
    BY <1>1, <1>3, EmptySeq, TailOfRing
  <2>2. Len(Tail(r)) <= AudioDelay
    BY <1>1, <1>3, <2>1
  <2> QED BY <1>2, <1>3, <2>1, <2>2 DEF Push
<1>4. CASE Len(r) # AudioDelay + 1
  <2>1. Len(r) <= AudioDelay
    BY <1>1, <1>4
  <2> QED BY <1>2, <1>4, <2>1 DEF Push
<1> QED BY <1>3, <1>4

(* The audio half of a tick keeps the ring and plays nothing too early. *)
LEMMA PlayProperties ==
  ASSUME NEW top \in Nat, NEW r, RingOK(r, top), PlayChunk(r)
  PROVE  /\ RingOK(ring', top)
         /\ ring' = r \/ (ring' = Tail(r) /\ r # <<>>)
         /\ heard' = heard \/ (heard' \in Items /\ heard' + AudioDelay <= top)
<1>1. r \in Seq(Items) /\ Len(r) \in Nat /\ AudioDelay \in Nat
  BY LenProperties, PumpAssumption DEF RingOK
<1>2. CASE ready /\ Due(r)
  <2>1. ring' = Tail(r) /\ heard' = Head(r)
    BY <1>2 DEF PlayChunk
  <2>2. Len(r) > AudioDelay /\ r # <<>>
    BY <1>1, <1>2, EmptySeq DEF Due
  <2>3. Head(r) = r[1] /\ 1 \in 1..Len(r) /\ Len(r) \in 1..Len(r)
    BY <1>1, <2>2
  <2>4. r[1] + (Len(r) - 1) <= r[Len(r)] /\ r[Len(r)] <= top
    BY <1>1, <2>3 DEF RingOK
  <2>5. r[1] \in Items /\ r[Len(r)] \in Items
    BY <1>1, <2>3, ElementOfSeq
  <2>6. r[1] + AudioDelay <= top
    BY <1>1, <2>2, <2>4, <2>5 DEF Items
  <2> QED BY <2>1, <2>2, <2>3, <2>5, <2>6, TailOfRing
<1>3. CASE ~(ready /\ Due(r))
  <2>1. ring' = r /\ heard' = heard
    BY <1>3 DEF PlayChunk
  <2> QED BY <2>1
<1> QED BY <1>2, <1>3

-----------------------------------------------------------------------------
(* What the steps do to one stream. *)

LEMMA StreamShape ==
  ASSUME PumpShape, NEW st \in Streams
  PROVE  /\ pre[st] \in Seq(Items) /\ queue[st] \in Seq(Items)
         /\ Len(pre[st]) \in Nat /\ Len(queue[st]) \in Nat /\ Len(queue[st]) <= Cap(st)
         /\ Available(st) \in Seq(Items) /\ Len(Available(st)) \in Nat
         /\ Len(Available(st)) = Len(pre[st]) + Len(queue[st])
         /\ made[st] \in 0..Frames /\ hand[st] \in 0..Frames /\ Frames \in Nat
         /\ made[st] \in Nat /\ hand[st] \in Nat /\ (hand[st] # 0 => hand[st] \in Items)
         /\ InHand(st) \in {0, 1} /\ InHand(st) \in Nat /\ TakenOf(st) \in Int
<1>1. pre[st] \in Seq(Items) /\ queue[st] \in Seq(Items) /\ Len(queue[st]) <= Cap(st)
  BY DEF PumpShape
<1>2. made[st] \in 0..Frames /\ hand[st] \in 0..Frames /\ Frames \in Nat
  BY PumpAssumption DEF PumpShape
<1>3. /\ Len(pre[st]) \in Nat /\ Len(queue[st]) \in Nat
      /\ pre[st] \o queue[st] \in Seq(Items)
      /\ Len(pre[st] \o queue[st]) = Len(pre[st]) + Len(queue[st])
  BY <1>1, ConcatSplit
<1>4. /\ Available(st) \in Seq(Items) /\ Len(Available(st)) \in Nat
      /\ Len(Available(st)) = Len(pre[st]) + Len(queue[st])
  <2>1. Available(st) = pre[st] \o queue[st]
    BY DEF Available
  <2>2. Len(pre[st] \o queue[st]) \in Nat
    BY <1>3, LenProperties
  <2> QED BY <1>3, <2>1, <2>2
<1>5. InHand(st) \in {0, 1}
  BY DEF InHand
<1>6. TakenOf(st) \in Int
  <2>1. ASSUME NEW m \in 0..Frames, NEW l \in Nat, NEW hd \in {0, 1} PROVE m - l - hd \in Int
    BY <1>2
  <2> QED BY <1>2, <1>4, <1>5, <2>1 DEF TakenOf
<1>7. made[st] \in Nat /\ hand[st] \in Nat /\ (hand[st] # 0 => hand[st] \in Items)
  BY <1>2 DEF Items
<1>8. InHand(st) \in Nat
  BY <1>5
<1> QED BY <1>1, <1>2, <1>3, <1>4, <1>5, <1>6, <1>7, <1>8

(* What Run has taken is never negative. *)
LEMMA TakenIsNatural ==
  ASSUME PumpShape, NEW st \in Streams, InSequence(st)
  PROVE  TakenOf(st) \in Nat
<1>1. /\ Available(st) \in Seq(Items) /\ Len(Available(st)) \in Nat /\ TakenOf(st) \in Int
      /\ made[st] \in 0..Frames /\ hand[st] \in 0..Frames /\ Frames \in Nat
  BY StreamShape
<1>2. CASE Len(Available(st)) = 0
  BY <1>1, <1>2 DEF TakenOf, InHand, InSequence
<1>3. CASE Len(Available(st)) # 0
  <2>1. 1 \in 1..Len(Available(st))
    BY <1>1, <1>3
  <2>2. Available(st)[1] = TakenOf(st) + 1
    BY <2>1 DEF InSequence, Consecutive
  <2>3. Available(st)[1] \in Items
    BY <1>1, <2>1, ElementOfSeq
  <2> QED BY <1>1, <2>2, <2>3 DEF Items
<1> QED BY <1>2, <1>3

(* Nobody touches the stream. *)
LEMMA StreamRests ==
  ASSUME NEW st, Available(st)' = Available(st), made'[st] = made[st], hand'[st] = hand[st]
  PROVE  /\ TakenOf(st)' = TakenOf(st) /\ InHand(st)' = InHand(st)
         /\ InSequence(st) => InSequence(st)'
<1>1. InHand(st)' = InHand(st)
  BY DEF InHand
<1>2. TakenOf(st)' = TakenOf(st)
  BY <1>1 DEF TakenOf
<1> QED BY <1>1, <1>2 DEF InSequence, Consecutive

(* The reader takes the next piece from the pipe. *)
LEMMA StreamReads ==
  ASSUME PumpShape, NEW st \in Streams, InSequence(st), Available(st)' = Available(st),
         hand[st] = 0, made'[st] = made[st] + 1, hand'[st] = made'[st]
  PROVE  TakenOf(st)' = TakenOf(st) /\ InHand(st) = 0 /\ InHand(st)' = 1 /\ InSequence(st)'
<1>1. made[st] \in Nat /\ Len(Available(st)) \in Nat
  BY StreamShape
<1>2. InHand(st) = 0 /\ InHand(st)' = 1
  BY <1>1 DEF InHand
<1>3. TakenOf(st)' = TakenOf(st)
  BY <1>1, <1>2 DEF TakenOf
<1> QED BY <1>2, <1>3 DEF InSequence, Consecutive

(* It queues what it has in hand. *)
LEMMA StreamQueues ==
  ASSUME PumpShape, NEW st \in Streams, InSequence(st),
         Available(st)' = Append(Available(st), hand[st]),
         hand[st] # 0, made'[st] = made[st], hand'[st] = 0
  PROVE  /\ TakenOf(st)' = TakenOf(st) /\ InHand(st) = 1 /\ InHand(st)' = 0 /\ InSequence(st)'
         /\ Len(Available(st)') = Len(Available(st)) + 1
<1> DEFINE a == Available(st)
           b == Append(a, hand[st])
<1>1. /\ a \in Seq(Items) /\ Len(a) \in Nat /\ made[st] \in Nat /\ hand[st] \in Items
  BY StreamShape
<1>2. /\ Len(b) = Len(a) + 1
      /\ \A i \in 1..Len(a) : b[i] = a[i]
      /\ b[Len(a) + 1] = hand[st]
  BY <1>1, AppendProperties
<1>3. InHand(st) = 1 /\ InHand(st)' = 0
  BY DEF InHand
<1>4. TakenOf(st)' = TakenOf(st) /\ TakenOf(st) = made[st] - Len(a) - 1
  BY <1>1, <1>2, <1>3 DEF TakenOf
<1> HIDE DEF a, b
<1>5. Consecutive(a, TakenOf(st)) /\ hand[st] = made[st]
  BY DEF InSequence, a
<1>6. ASSUME NEW i \in 1..Len(b) PROVE b[i] = TakenOf(st) + i
  <2>1. CASE i \in 1..Len(a)
    BY <1>2, <1>5, <2>1 DEF Consecutive
  <2>2. CASE i = Len(a) + 1
    <3>1. b[i] = made[st]
      BY <1>2, <1>5, <2>2
    <3>2. TakenOf(st) + i = made[st]
      BY <1>1, <1>4, <2>2
    <3> QED BY <3>1, <3>2
  <2> QED BY <1>1, <1>2, <2>1, <2>2
<1>7. Available(st)' = b
  BY DEF b, a
<1>8. Consecutive(Available(st)', TakenOf(st)')
  BY <1>4, <1>6, <1>7 DEF Consecutive
<1>9. InSequence(st)'
  BY <1>8 DEF InSequence
<1> QED BY <1>2, <1>3, <1>4, <1>7, <1>9 DEF a

(* Run takes n from the front. *)
LEMMA StreamGives ==
  ASSUME PumpShape, NEW st \in Streams, InSequence(st), NEW n \in 0..Len(Available(st)),
         Len(Available(st)') = Len(Available(st)) - n,
         \A i \in 1..Len(Available(st)') : Available(st)'[i] = Available(st)[n + i],
         made'[st] = made[st], hand'[st] = hand[st]
  PROVE  TakenOf(st)' = TakenOf(st) + n /\ InHand(st)' = InHand(st) /\ InSequence(st)'
<1> DEFINE a == Available(st)
           b == Available(st)'
<1>1. /\ Len(a) \in Nat /\ made[st] \in Nat /\ InHand(st) \in Nat /\ n \in 0..Len(a)
      /\ Len(b) = Len(a) - n
  BY StreamShape
<1>2. InHand(st)' = InHand(st)
  BY DEF InHand
<1>3. TakenOf(st)' = TakenOf(st) + n /\ TakenOf(st) \in Int
  BY <1>1, <1>2 DEF TakenOf
<1>4. \A i \in 1..Len(b) : b[i] = a[n + i]
  OBVIOUS
<1>5. Consecutive(a, TakenOf(st)) /\ (hand[st] # 0 => hand[st] = made[st])
  BY DEF InSequence
<1> HIDE DEF a, b
<1>6. ASSUME NEW i \in 1..Len(b) PROVE b[i] = TakenOf(st)' + i
  <2>1. n + i \in 1..Len(a)
    BY <1>1
  <2>2. a[n + i] = TakenOf(st) + (n + i)
    BY <1>5, <2>1 DEF Consecutive
  <2> QED BY <1>3, <1>4, <2>2, <1>1
<1>7. Consecutive(b, TakenOf(st)')
  BY <1>6 DEF Consecutive
<1>8. InSequence(st)'
  BY <1>5, <1>7 DEF InSequence, b
<1> QED BY <1>2, <1>3, <1>8

-----------------------------------------------------------------------------
(* The invariant, action by action. *)

LEMMA PumpStarts == PumpInit => PumpInv
<1> SUFFICES ASSUME PumpInit PROVE PumpInv
  OBVIOUS
<1> USE DEF PumpInit, PumpEmpty
<1>1. /\ <<>> \in Seq(Items) /\ Len(<<>>) = 0 /\ <<>> \o <<>> = <<>>
  BY EmptySeq, ConcatEmptySeq
<1>2. \A st \in Streams : Cap(st) \in Nat /\ queue[st] = <<>> /\ pre[st] = <<>> /\ made[st] = 0 /\ hand[st] = 0
  BY PumpAssumption DEF Cap
<1>3. PumpShape
  BY <1>1, <1>2, PumpAssumption DEF PumpShape
<1>4. \A st \in Streams : Available(st) = <<>> /\ InHand(st) = 0 /\ TakenOf(st) = 0
  BY <1>1, <1>2 DEF Available, InHand, TakenOf
<1>5. \A st \in Streams : InSequence(st)
  BY <1>1, <1>2, <1>4 DEF InSequence, Consecutive
<1>6. BuffersKept
  BY <1>1, <1>4, PumpAssumption DEF BuffersKept, Streams
<1>7. InStep
  BY <1>4, <1>5, <1>6 DEF InStep, Streams
<1>8. RingOK(ring, shown)
  BY <1>1, PumpAssumption DEF RingOK
<1>9. MoreToWrite
  BY DEF MoreToWrite, Streams
<1> QED BY <1>3, <1>7, <1>8, <1>9 DEF PumpInv, AudioNeverLeads

(* Steps that move nothing. *)
LEMMA NothingMoves ==
  ASSUME PumpInv, UNCHANGED <<made, hand, queue, pre, free, debt, ring, shown, heard>>,
         phase' \in {"prebuffer", "ticking", "done"}, phase = "done" => phase' = "done",
         mux' \in Streams \cup {"none"}, \A st \in Streams : mux' = st => made[st] < Frames
  PROVE  PumpInv'
<1>1. PumpShape'
  BY DEF PumpInv, PumpShape
<1>2. \A st \in Streams : Available(st)' = Available(st)
  BY DEF Available
<1>3. \A st \in Streams : TakenOf(st)' = TakenOf(st) /\ InHand(st)' = InHand(st)
                         /\ (InSequence(st) => InSequence(st)')
  BY <1>2, StreamRests
<1>4. InStep'
  BY <1>2, <1>3 DEF PumpInv, InStep, BuffersKept, Streams
<1>5. RingOK(ring, shown)' /\ AudioNeverLeads'
  BY DEF PumpInv, RingOK, AudioNeverLeads
<1> QED BY <1>1, <1>4, <1>5 DEF PumpInv, MoreToWrite


(* A step in which only one stream's reader works. *)
LEMMA ReadKeeps ==
  ASSUME PumpInv, NEW st \in Streams, Read(st)
  PROVE  PumpInv'
<1>1. /\ made[st] \in Nat /\ made[st] < Frames /\ Frames \in Nat /\ hand[st] = 0
      /\ made' = [made EXCEPT ![st] = made[st] + 1] /\ hand' = [hand EXCEPT ![st] = made[st] + 1]
      /\ DOMAIN made = Streams /\ DOMAIN hand = Streams
      /\ mux' = "none" /\ phase # "done"
      /\ UNCHANGED <<phase, queue, pre, debt, ring, shown, heard>>
  BY PumpAssumption DEF Read, PumpInv, PumpShape, MoreToWrite
<1>2. free \in 0..PoolSlots /\ PoolSlots \in Nat
      /\ free' = (IF st = "video" THEN free - 1 ELSE free) /\ (st = "video" => free > 0)
  BY PumpAssumption DEF Read, PumpInv, PumpShape
<1>3. PumpShape'
  <2>1. made[st] + 1 \in 0..Frames
    BY <1>1
  <2>2. made' \in [Streams -> 0..Frames] /\ hand' \in [Streams -> 0..Frames]
    BY <1>1, <2>1 DEF PumpInv, PumpShape
  <2>3. free' \in 0..PoolSlots
    BY <1>2
  <2> QED BY <1>1, <2>2, <2>3 DEF PumpInv, PumpShape
<1>4. \A x \in Streams : Available(x)' = Available(x)
  BY <1>1 DEF Available
<1>5. /\ TakenOf(st)' = TakenOf(st) /\ InHand(st) = 0 /\ InHand(st)' = 1 /\ InSequence(st)'
  <2>1. made'[st] = made[st] + 1 /\ hand'[st] = made'[st]
    BY <1>1
  <2>2. PumpShape /\ InSequence(st)
    BY <1>1 DEF PumpInv, InStep
  <2> QED BY <1>1, <1>4, <2>1, <2>2, StreamReads
<1>6. ASSUME NEW x \in Streams, x # st
      PROVE  TakenOf(x)' = TakenOf(x) /\ InHand(x)' = InHand(x) /\ InSequence(x)'
  <2>1. made'[x] = made[x] /\ hand'[x] = hand[x]
    BY <1>1, <1>6
  <2>2. InSequence(x)
    BY <1>1 DEF PumpInv, InStep
  <2> QED BY <1>4, <2>1, <2>2, StreamRests
<1>7. \A x \in Streams : TakenOf(x)' = TakenOf(x) /\ InSequence(x)'
  BY <1>5, <1>6
<1>8. BuffersKept'
  <2>1. BuffersKept /\ Len(Available("video")) \in Nat /\ InHand("video") \in Nat
    BY <1>1, StreamShape DEF PumpInv, InStep, Streams
  <2>2. CASE st = "video"
    BY <1>2, <1>4, <1>5, <2>1, <2>2 DEF BuffersKept
  <2>3. CASE st # "video"
    BY <1>2, <1>4, <1>6, <2>1, <2>3 DEF BuffersKept, Streams
  <2> QED BY <2>2, <2>3
<1>9. InStep'
  BY <1>1, <1>7, <1>8 DEF PumpInv, InStep, Streams
<1>10. MoreToWrite' /\ RingOK(ring, shown)' /\ AudioNeverLeads'
  BY <1>1 DEF PumpInv, RingOK, AudioNeverLeads, MoreToWrite, Streams
<1> QED BY <1>3, <1>9, <1>10 DEF PumpInv

LEMMA EnqueueKeeps ==
  ASSUME PumpInv, NEW st \in Streams, Enqueue(st)
  PROVE  PumpInv'
<1>1. /\ hand[st] # 0 /\ hand[st] \in Items /\ Len(queue[st]) \in Nat /\ Len(queue[st]) < Cap(st)
      /\ Cap(st) \in Nat
      /\ queue' = [queue EXCEPT ![st] = Append(queue[st], hand[st])] /\ hand' = [hand EXCEPT ![st] = 0]
      /\ queue[st] \in Seq(Items) /\ pre[st] \in Seq(Items)
      /\ DOMAIN queue = Streams /\ DOMAIN hand = Streams
      /\ UNCHANGED <<phase, mux, made, pre, free, debt, ring, shown, heard>> /\ phase # "done"
  BY StreamShape, PumpAssumption DEF Enqueue, PumpInv, PumpShape, Cap
<1>2. /\ Append(queue[st], hand[st]) \in Seq(Items)
      /\ Len(Append(queue[st], hand[st])) = Len(queue[st]) + 1
  BY <1>1, AppendProperties
<1>3. PumpShape'
  <2>0. queue \in [Streams -> Seq(Items)] /\ hand \in [Streams -> 0..Frames] /\ 0 \in 0..Frames
    BY Sizes DEF PumpInv, PumpShape
  <2>1. queue' \in [Streams -> Seq(Items)] /\ hand' \in [Streams -> 0..Frames]
    BY <1>1, <1>2, <2>0
  <2>2. Len(Append(queue[st], hand[st])) <= Cap(st)
    BY <1>1, <1>2
  <2>3. \A x \in Streams : Len(queue'[x]) <= Cap(x)
    BY <1>1, <2>2 DEF PumpInv, PumpShape
  <2> QED BY <1>1, <2>1, <2>3 DEF PumpInv, PumpShape
<1>4. Available(st)' = Append(Available(st), hand[st])
  <2>1. Available(st)' = pre[st] \o Append(queue[st], hand[st])
    BY <1>1 DEF Available
  <2>2. <<hand[st]>> \in Seq(Items) /\ pre[st] \in Seq(Items) /\ queue[st] \in Seq(Items)
    BY <1>1
  <2>3. pre[st] \o Append(queue[st], hand[st]) = pre[st] \o (queue[st] \o <<hand[st]>>)
    BY <1>1, AppendIsConcat
  <2>4. pre[st] \o (queue[st] \o <<hand[st]>>) = (pre[st] \o queue[st]) \o <<hand[st]>>
    <3>1. \A a, b, c \in Seq(Items) : (a \o b) \o c = a \o (b \o c)
      BY ConcatAssociative
    <3> QED BY <2>2, <3>1
  <2>5. Append(pre[st] \o queue[st], hand[st]) = (pre[st] \o queue[st]) \o <<hand[st]>>
    BY <1>1, ConcatProperties, AppendIsConcat
  <2> QED BY <2>1, <2>3, <2>4, <2>5 DEF Available
<1>5. /\ TakenOf(st)' = TakenOf(st) /\ InHand(st) = 1 /\ InHand(st)' = 0 /\ InSequence(st)'
      /\ Len(Available(st)') = Len(Available(st)) + 1
  <2>1. made'[st] = made[st] /\ hand'[st] = 0
    BY <1>1
  <2>2. PumpShape /\ InSequence(st)
    BY <1>1 DEF PumpInv, InStep
  <2> QED BY <1>1, <1>4, <2>1, <2>2, StreamQueues
<1>6. ASSUME NEW x \in Streams, x # st
      PROVE  /\ TakenOf(x)' = TakenOf(x) /\ InHand(x)' = InHand(x) /\ InSequence(x)'
             /\ Available(x)' = Available(x)
  <2>1. made'[x] = made[x] /\ hand'[x] = hand[x] /\ Available(x)' = Available(x)
    BY <1>1, <1>6 DEF Available
  <2>2. InSequence(x)
    BY <1>1 DEF PumpInv, InStep
  <2> QED BY <2>1, <2>2, StreamRests
<1>7. \A x \in Streams : TakenOf(x)' = TakenOf(x) /\ InSequence(x)'
  BY <1>5, <1>6
<1>8. BuffersKept'
  <2>1. /\ BuffersKept /\ Len(Available("video")) \in Nat /\ InHand("video") \in Nat
        /\ free \in Nat /\ free' = free
    BY <1>1, StreamShape, PumpAssumption DEF PumpInv, InStep, Streams, PumpShape
  <2>2. CASE st = "video"
    BY <1>5, <2>1, <2>2 DEF BuffersKept
  <2>3. CASE st # "video"
    BY <1>6, <2>1, <2>3 DEF BuffersKept, Streams
  <2> QED BY <2>2, <2>3
<1>9. InStep'
  BY <1>1, <1>7, <1>8 DEF PumpInv, InStep, Streams
<1>10. MoreToWrite' /\ RingOK(ring, shown)' /\ AudioNeverLeads'
  BY <1>1 DEF PumpInv, RingOK, AudioNeverLeads, MoreToWrite
<1> QED BY <1>3, <1>9, <1>10 DEF PumpInv

LEMMA PrebufferKeeps ==
  ASSUME PumpInv, Prebuffer
  PROVE  PumpInv'
<1> PICK st \in Streams :
         /\ queue[st] # <<>>
         /\ pre' = [pre EXCEPT ![st] = Append(pre[st], Head(queue[st]))]
         /\ queue' = [queue EXCEPT ![st] = Tail(queue[st])]
  BY DEF Prebuffer, PrebufferDrains
<1>1. UNCHANGED <<phase, mux, made, hand, free, debt, ring, shown, heard>>
  BY DEF Prebuffer
<1>2. /\ pre \in [Streams -> Seq(Items)] /\ queue \in [Streams -> Seq(Items)]
      /\ pre[st] \in Seq(Items) /\ queue[st] \in Seq(Items)
      /\ Len(queue[st]) \in Nat /\ Len(queue[st]) <= Cap(st) /\ Cap(st) \in Nat
  BY StreamShape, Sizes DEF PumpInv, PumpShape, Cap
<1>3. /\ Append(pre[st], Head(queue[st])) \in Seq(Items) /\ Tail(queue[st]) \in Seq(Items)
      /\ Len(Tail(queue[st])) <= Len(queue[st])
      /\ Append(pre[st], Head(queue[st])) \o Tail(queue[st]) = pre[st] \o queue[st]
      /\ Len(Tail(queue[st])) \in Nat
  BY <1>2, MoveHead, LenProperties
<1>4. PumpShape'
  <2>1. pre' \in [Streams -> Seq(Items)] /\ queue' \in [Streams -> Seq(Items)]
    BY <1>2, <1>3
  <2>2. Len(Tail(queue[st])) <= Cap(st)
    BY <1>2, <1>3
  <2>3. \A x \in Streams : Len(queue'[x]) <= Cap(x)
    BY <1>2, <2>2 DEF PumpInv, PumpShape
  <2> QED BY <1>1, <2>1, <2>3 DEF PumpInv, PumpShape
<1>5. \A x \in Streams : Available(x)' = Available(x)
  BY <1>2, <1>3 DEF Available
<1>6. \A x \in Streams : TakenOf(x)' = TakenOf(x) /\ InHand(x)' = InHand(x)
                         /\ (InSequence(x) => InSequence(x)')
  BY <1>1, <1>5, StreamRests
<1>7. InStep'
  BY <1>1, <1>5, <1>6 DEF PumpInv, InStep, BuffersKept, Streams
<1>8. MoreToWrite' /\ RingOK(ring, shown)' /\ AudioNeverLeads'
  BY <1>1 DEF PumpInv, RingOK, AudioNeverLeads, MoreToWrite
<1> QED BY <1>4, <1>7, <1>8 DEF PumpInv

(* Run ends before the first tick and gives back what it had collected. *)
LEMMA GivingBackKeeps ==
  ASSUME PumpInv, phase # "done", EndRun,
         free' = free + Len(pre["video"]), pre' = [pre EXCEPT !["video"] = <<>>]
  PROVE  PumpInv'
<1>1. UNCHANGED <<mux, made, hand, queue, debt, ring, shown, heard>> /\ phase' = "done"
  BY DEF EndRun
<1>2. /\ Len(pre["video"]) \in Nat /\ Len(queue["video"]) \in Nat /\ InHand("video") \in Nat
      /\ Len(Available("video")) = Len(pre["video"]) + Len(queue["video"])
      /\ free \in Nat /\ PoolSlots \in Nat
  BY StreamShape, Sizes DEF PumpInv, PumpShape, Streams
<1>3. free + Len(Available("video")) + InHand("video") = PoolSlots
  BY DEF PumpInv, InStep, BuffersKept
<1>4. free' \in 0..PoolSlots
  <2>1. \A f, l, q, hd, p \in Nat : f + (l + q) + hd = p => f + l \in 0..p
    OBVIOUS
  <2> QED BY <1>2, <1>3, <2>1
<1>5. pre' \in [Streams -> Seq(Items)]
  BY EmptySeq DEF PumpInv, PumpShape
<1>6. PumpShape'
  BY <1>1, <1>4, <1>5 DEF PumpInv, PumpShape
<1>7. MoreToWrite' /\ RingOK(ring, shown)' /\ AudioNeverLeads'
  BY <1>1 DEF PumpInv, RingOK, AudioNeverLeads, MoreToWrite
<1> QED BY <1>1, <1>6, <1>7 DEF PumpInv, InStep

LEMMA CancelKeeps ==
  ASSUME PumpInv, RunCancelled
  PROVE  PumpInv'
<1>1. CASE phase = "prebuffer"
  BY <1>1, GivingBackKeeps DEF RunCancelled
<1>2. CASE phase # "prebuffer"
  BY <1>2, NothingMoves DEF RunCancelled, EndRun, PumpInv, PumpShape, MoreToWrite
<1> QED BY <1>1, <1>2

LEMMA HoldKeeps ==
  ASSUME PumpInv, Hold, UNCHANGED <<phase, mux, made, hand>>
  PROVE  PumpInv'
<1>1. UNCHANGED <<pre, queue, free, debt, shown>> /\ PlayChunk(ring)
  BY DEF Hold
<1>2. RingOK(ring, shown) /\ shown \in Nat /\ heard \in 0..Frames /\ Frames \in Nat
  BY Sizes DEF PumpInv, PumpShape
<1>3. /\ RingOK(ring', shown)
      /\ heard' = heard \/ (heard' \in Items /\ heard' + AudioDelay <= shown)
  BY <1>1, <1>2, PlayProperties
<1>4. PumpShape'
  BY <1>1, <1>2, <1>3 DEF PumpInv, PumpShape, RingOK, Items
<1>5. \A x \in Streams : Available(x)' = Available(x)
  BY <1>1 DEF Available
<1>6. \A x \in Streams : TakenOf(x)' = TakenOf(x) /\ InHand(x)' = InHand(x)
                         /\ (InSequence(x) => InSequence(x)')
  BY <1>5, StreamRests
<1>7. InStep'
  BY <1>1, <1>5, <1>6 DEF PumpInv, InStep, BuffersKept, Streams
<1>8. RingOK(ring, shown)' /\ MoreToWrite'
  BY <1>1, <1>3 DEF RingOK, PumpInv, MoreToWrite
<1>9. AudioNeverLeads'
  BY <1>1, <1>3 DEF PumpInv, AudioNeverLeads
<1> QED BY <1>4, <1>7, <1>8, <1>9 DEF PumpInv

(* The tick that shows a frame: one frame is taken, the chunks the pairing *)
(* drops and plays, and the chunk that reaches the ring is the frame's.    *)
LEMMA ShowingTakes ==
  ASSUME PumpInv, phase # "done", ShowFrame, UNCHANGED <<phase, mux, made, hand>>
  PROVE  LET chunks == Available("audio")
             pair   == Pair(Len(chunks))
             r      == IF pair.at = 0 THEN ring ELSE Push(ring, chunks[pair.at])
         IN /\ pre' \in [Streams -> Seq(Items)] /\ queue' \in [Streams -> Seq(Items)]
            /\ \A st \in Streams : Len(queue'[st]) <= Cap(st)
            /\ \A st \in Streams : InSequence(st)' /\ InHand(st)' = InHand(st)
            /\ TakenOf("video")' = TakenOf("video") + 1
            /\ TakenOf("audio")' = TakenOf("audio") + pair.taken
            /\ Len(Available("video")') = Len(Available("video")) - 1
            /\ shown' = shown + 1 /\ shown' \in Items
            /\ free' = free + 1 /\ debt' = pair.debt /\ debt' \in Nat
            /\ pair.taken \in Nat /\ pair.taken + pair.debt = debt + 1
            /\ pair.at # 0 => chunks[pair.at] = shown + 1
            /\ PlayChunk(r)
<1> DEFINE frames == Available("video")
           chunks == Available("audio")
           pair == Pair(Len(chunks))
           v == TakeItems("video", 1)
           a == TakeItems("audio", pair.taken)
           r == IF pair.at = 0 THEN ring ELSE Push(ring, chunks[pair.at])
<1>1. /\ frames # <<>> /\ shown' = Head(frames) /\ free' = free + 1
      /\ pre' = [video |-> v.pre, audio |-> a.pre]
      /\ queue' = [video |-> v.queue, audio |-> a.queue]
      /\ debt' = pair.debt /\ PlayChunk(r)
  BY DEF ShowFrame
<1>2. /\ PumpShape /\ \A st \in Streams : InSequence(st)
      /\ TakenOf("video") = shown /\ TakenOf("audio") + debt = shown
      /\ "video" \in Streams /\ "audio" \in Streams
  BY DEF PumpInv, InStep, Streams
<1>3. /\ frames \in Seq(Items) /\ Len(frames) \in Nat /\ chunks \in Seq(Items) /\ Len(chunks) \in Nat
      /\ debt \in Nat /\ shown \in Nat
      /\ \A st \in Streams : pre[st] \in Seq(Items) /\ queue[st] \in Seq(Items)
                            /\ Len(queue[st]) \in Nat /\ Len(queue[st]) <= Cap(st) /\ Cap(st) \in Nat
  BY <1>2, StreamShape, Sizes DEF PumpShape, Cap
<1>4. /\ pair.taken \in 0..Len(chunks) /\ pair.at \in 0..Len(chunks) /\ pair.debt \in Nat
      /\ pair.taken + pair.debt = debt + 1
      /\ pair.at # 0 => pair.at = debt + 1
  BY <1>3, PairProperties
<1>5. 1 \in 0..Len(frames) /\ 1 \in 1..Len(frames)
  BY <1>1, <1>3, EmptySeq
<1>6. /\ v.pre \in Seq(Items) /\ v.queue \in Seq(Items) /\ Len(v.queue) <= Len(queue["video"])
      /\ v.pre \o v.queue \in Seq(Items) /\ Len(v.pre \o v.queue) = Len(frames) - 1
      /\ \A i \in 1..Len(v.pre \o v.queue) : (v.pre \o v.queue)[i] = frames[1 + i]
      /\ Len(v.queue) \in Nat
  BY <1>2, <1>3, <1>5, TakeProperties, LenProperties
<1>7. /\ a.pre \in Seq(Items) /\ a.queue \in Seq(Items) /\ Len(a.queue) <= Len(queue["audio"])
      /\ a.pre \o a.queue \in Seq(Items) /\ Len(a.pre \o a.queue) = Len(chunks) - pair.taken
      /\ \A i \in 1..Len(a.pre \o a.queue) : (a.pre \o a.queue)[i] = chunks[pair.taken + i]
      /\ Len(a.queue) \in Nat
  BY <1>2, <1>3, <1>4, TakeProperties, LenProperties
<1> HIDE DEF v, a
<1>8. /\ Available("video")' = v.pre \o v.queue /\ Available("audio")' = a.pre \o a.queue
      /\ queue'["video"] = v.queue /\ queue'["audio"] = a.queue
  BY <1>1 DEF Available
<1>9. /\ pre' \in [Streams -> Seq(Items)] /\ queue' \in [Streams -> Seq(Items)]
  BY <1>1, <1>6, <1>7 DEF Streams
<1>10. \A st \in Streams : Len(queue'[st]) <= Cap(st)
  <2>1. Len(v.queue) <= Cap("video") /\ Len(a.queue) <= Cap("audio")
    BY <1>2, <1>3, <1>6, <1>7
  <2> QED BY <1>8, <2>1 DEF Streams
<1>11. /\ TakenOf("video")' = TakenOf("video") + 1 /\ InHand("video")' = InHand("video")
       /\ InSequence("video")'
  BY <1>2, <1>5, <1>6, <1>8, StreamGives
<1>12. /\ TakenOf("audio")' = TakenOf("audio") + pair.taken /\ InHand("audio")' = InHand("audio")
       /\ InSequence("audio")'
  BY <1>2, <1>4, <1>7, <1>8, StreamGives
<1>13. shown' = shown + 1 /\ shown' \in Items
  <2>1. shown' = frames[1]
    BY <1>1, <1>3
  <2>2. frames[1] = TakenOf("video") + 1
    BY <1>2, <1>5 DEF InSequence, Consecutive
  <2>3. frames[1] \in Items
    BY <1>3, <1>5, ElementOfSeq
  <2> QED BY <1>2, <2>1, <2>2, <2>3
<1>14. ASSUME pair.at # 0 PROVE chunks[pair.at] = shown + 1
  <2>1. debt + 1 \in 1..Len(chunks) /\ pair.at = debt + 1
    BY <1>3, <1>4, <1>14
  <2>2. chunks[debt + 1] = TakenOf("audio") + (debt + 1)
    BY <1>2, <2>1 DEF InSequence, Consecutive
  <2>3. TakenOf("audio") \in Int
    BY <1>2, StreamShape
  <2> QED BY <1>2, <1>3, <2>1, <2>2, <2>3
<1> HIDE DEF frames, chunks, pair, r
<1>15. pair.taken \in Nat /\ debt' \in Nat
  BY <1>1, <1>3, <1>4
<1>16. Len(Available("video")') = Len(frames) - 1
  BY <1>6, <1>8
<1>17. \A st \in Streams : InSequence(st)' /\ InHand(st)' = InHand(st)
  BY <1>11, <1>12 DEF Streams
<1> QED BY <1>1, <1>4, <1>9, <1>10, <1>11, <1>12, <1>13, <1>14, <1>15, <1>16, <1>17
        DEF frames, chunks, pair, r

LEMMA ShowKeeps ==
  ASSUME PumpInv, phase # "done", ShowFrame, UNCHANGED <<phase, mux, made, hand>>
  PROVE  /\ PumpInv'
         /\ ring' # <<>> /\ ring'[Len(ring')] \notin Range(ring) => ring'[Len(ring')] = shown'
<1> DEFINE chunks == Available("audio")
           pair == Pair(Len(chunks))
           r == IF pair.at = 0 THEN ring ELSE Push(ring, chunks[pair.at])
<1>1. /\ pre' \in [Streams -> Seq(Items)] /\ queue' \in [Streams -> Seq(Items)]
      /\ \A st \in Streams : Len(queue'[st]) <= Cap(st)
      /\ \A st \in Streams : InSequence(st)' /\ InHand(st)' = InHand(st)
      /\ TakenOf("video")' = TakenOf("video") + 1
      /\ TakenOf("audio")' = TakenOf("audio") + pair.taken
      /\ Len(Available("video")') = Len(Available("video")) - 1
      /\ shown' = shown + 1 /\ shown' \in Items
      /\ free' = free + 1 /\ debt' = pair.debt /\ debt' \in Nat
      /\ pair.taken \in Nat /\ pair.taken + pair.debt = debt + 1
      /\ pair.at # 0 => chunks[pair.at] = shown + 1
      /\ PlayChunk(r)
  BY ShowingTakes
<1>2. /\ PumpShape /\ RingOK(ring, shown) /\ BuffersKept /\ AudioNeverLeads
      /\ TakenOf("video") = shown /\ TakenOf("audio") + debt = shown
      /\ "video" \in Streams /\ "audio" \in Streams /\ InSequence("audio")
  BY DEF PumpInv, InStep, Streams
<1>3. /\ shown \in Nat /\ debt \in Nat /\ free \in Nat /\ heard \in 0..Frames
      /\ TakenOf("video") \in Int /\ TakenOf("audio") \in Nat
      /\ Len(Available("video")) \in Nat /\ InHand("video") \in Nat
      /\ Frames \in Nat /\ PoolSlots \in Nat /\ AudioDelay \in Nat
  <2>1. /\ shown \in Nat /\ debt \in Nat /\ free \in Nat /\ heard \in 0..Frames
        /\ Frames \in Nat /\ PoolSlots \in Nat /\ AudioDelay \in Nat
    BY <1>2, Sizes DEF PumpShape
  <2>2. /\ TakenOf("video") \in Int /\ Len(Available("video")) \in Nat /\ InHand("video") \in Nat
    BY <1>2, StreamShape
  <2>3. TakenOf("audio") \in Nat
    BY <1>2, TakenIsNatural
  <2> QED BY <2>1, <2>2, <2>3
<1> HIDE DEF pair, chunks
<1>4. /\ RingOK(r, shown + 1)
      /\ r = ring \/ (r # <<>> /\ r[Len(r)] = shown + 1)
  <2>1. CASE pair.at = 0
    <3>1. RingOK(ring, shown + 1)
      <4>1. \A i \in 1..Len(ring) : ring[i] <= shown + 1
        BY <1>2, <1>3, ItemsOfRing DEF RingOK
      <4> QED BY <1>2, <4>1 DEF RingOK
    <3> QED BY <2>1, <3>1
  <2>2. CASE pair.at # 0
    <3>1. r = Push(ring, shown + 1) /\ shown + 1 \in Items
      BY <1>1, <2>2
    <3> QED BY <1>2, <1>3, <3>1, PushProperties
  <2> QED BY <2>1, <2>2
<1> HIDE DEF r
<1>5. shown + 1 \in Nat
  BY <1>3
<1>6. /\ RingOK(ring', shown + 1)
      /\ ring' = r \/ (ring' = Tail(r) /\ r # <<>>)
      /\ heard' = heard \/ (heard' \in Items /\ heard' + AudioDelay <= shown + 1)
  BY <1>1, <1>4, <1>5, PlayProperties
<1>7. free' \in 0..PoolSlots
  <2>1. free + Len(Available("video")) + InHand("video") = PoolSlots
    BY <1>2 DEF BuffersKept
  <2>2. Len(Available("video")) >= 1
    <3>1. Len(Available("video")) # 0
      BY <1>2, <1>3, StreamShape, EmptySeq DEF ShowFrame
    <3> QED BY <1>3, <3>1
  <2>3. \A f, l, hd, p \in Nat : f + l + hd = p /\ l >= 1 => f + 1 \in 0..p
    OBVIOUS
  <2> QED BY <1>1, <1>3, <2>1, <2>2, <2>3
<1>8. TakenOf("audio")' + debt' = shown'
  <2>1. ASSUME NEW t \in Nat, NEW d \in Nat, NEW n \in Nat, NEW e \in Nat, n + e = d + 1
        PROVE  (t + n) + e = (t + d) + 1
    BY <2>1
  <2>2. (TakenOf("audio") + pair.taken) + pair.debt = (TakenOf("audio") + debt) + 1
    <3>1. /\ TakenOf("audio") \in Nat /\ debt \in Nat /\ pair.taken \in Nat /\ pair.debt \in Nat
          /\ pair.taken + pair.debt = debt + 1
      BY <1>1, <1>3
    <3> HIDE DEF pair
    <3> QED BY <2>1, <3>1
  <2> QED BY <1>1, <1>2, <2>2
<1>9. debt' \in 0..Frames
  <2>1. shown' \in Nat /\ shown' <= Frames
    BY <1>1, <1>3 DEF Items
  <2>2. TakenOf("audio")' \in Nat
    BY <1>1, <1>3
  <2>3. \A t, d, n \in Nat : t + d = n => d <= n
    OBVIOUS
  <2>4. debt' <= shown'
    BY <1>1, <1>8, <2>1, <2>2, <2>3
  <2> QED BY <1>1, <1>3, <2>1, <2>4
<1>10. PumpShape'
  <2>1. shown' \in 0..Frames /\ heard' \in 0..Frames
    BY <1>1, <1>3, <1>6 DEF Items
  <2>2. ring' \in Seq(Items) /\ Len(ring') <= AudioDelay + 1
    BY <1>6 DEF RingOK
  <2> QED BY <1>1, <1>2, <1>7, <1>9, <2>1, <2>2 DEF PumpShape
<1>11. BuffersKept'
  <2>1. free + Len(Available("video")) + InHand("video") = PoolSlots
    BY <1>2 DEF BuffersKept
  <2>2. \A f, l, hd \in Nat : (f + 1) + (l - 1) + hd = f + l + hd
    OBVIOUS
  <2>3. InHand("video")' = InHand("video")
    BY <1>1, <1>2
  <2>4. /\ free' = free + 1 /\ Len(Available("video")') = Len(Available("video")) - 1
        /\ free \in Nat /\ Len(Available("video")) \in Nat /\ InHand("video") \in Nat
    BY <1>1, <1>3
  <2>5. (free + 1) + (Len(Available("video")) - 1) + InHand("video") = PoolSlots
    BY <2>1, <2>2, <2>4, Zenon
  <2> QED BY <2>3, <2>4, <2>5 DEF BuffersKept
<1>12. InStep'
  BY <1>1, <1>2, <1>8, <1>11 DEF InStep
<1>13. RingOK(ring, shown)' /\ MoreToWrite'
  BY <1>1, <1>6 DEF PumpInv, RingOK, MoreToWrite
<1>14. AudioNeverLeads'
  BY <1>1, <1>2, <1>3, <1>6 DEF AudioNeverLeads
<1>15. ASSUME ring' # <<>>, ring'[Len(ring')] \notin Range(ring) PROVE ring'[Len(ring')] = shown'
  <2>1. r \in Seq(Items) /\ ring' \in Seq(Items)
    BY <1>4, <1>6 DEF RingOK
  <2>2. r # <<>> /\ ring'[Len(ring')] = r[Len(r)]
    <3>1. CASE ring' = r
      BY <1>15, <3>1
    <3>2. CASE ring' = Tail(r) /\ r # <<>>
      <4>1. /\ Len(ring') = Len(r) - 1 /\ Len(r) \in Nat /\ Len(ring') \in Nat /\ Len(ring') # 0
            /\ \A i \in 1..Len(ring') : ring'[i] = r[i + 1]
        BY <1>15, <2>1, <3>2, HeadTailProperties, LenProperties, EmptySeq
      <4>2. Len(ring') \in 1..Len(ring') /\ Len(ring') + 1 = Len(r)
        BY <4>1
      <4> QED BY <3>2, <4>1, <4>2
    <3> QED BY <1>6, <3>1, <3>2
  <2>3. CASE r = ring
    <3>1. Len(r) \in 1..Len(r) /\ DOMAIN r = 1..Len(r)
      BY <2>1, <2>2, LenProperties, EmptySeq
    <3>2. r[Len(r)] \in Range(ring)
      BY <2>3, <3>1 DEF Range
    <3> QED BY <1>15, <2>2, <3>2
  <2>4. CASE r[Len(r)] = shown + 1
    BY <1>1, <2>2, <2>4
  <2> QED BY <1>4, <2>3, <2>4
<1> QED BY <1>10, <1>12, <1>13, <1>14, <1>15 DEF PumpInv

(* What a step does to the ring, for the pairing. *)
PairedStep == ring' # <<>> /\ Last(ring') \notin Range(ring) => Last(ring') = shown'

LEMMA NothingNew ==
  ASSUME ring \in Seq(Items), ring' = ring \/ (ring' = Tail(ring) /\ ring # <<>>)
  PROVE  PairedStep
<1> SUFFICES ASSUME ring' # <<>> PROVE ring'[Len(ring')] \in Range(ring)
  BY DEF PairedStep, Last
<1>1. Len(ring) \in Nat /\ DOMAIN ring = 1..Len(ring)
  BY LenProperties
<1>2. CASE ring' = ring
  <2>1. Len(ring) \in 1..Len(ring)
    BY <1>1, <1>2, EmptySeq
  <2> QED BY <1>1, <1>2, <2>1 DEF Range
<1>3. CASE ring' = Tail(ring) /\ ring # <<>>
  <2>1. /\ Len(ring') = Len(ring) - 1 /\ ring' \in Seq(Items)
        /\ \A i \in 1..Len(ring') : ring'[i] = ring[i + 1]
    BY <1>3, HeadTailProperties
  <2>2. Len(ring') \in Nat /\ Len(ring') # 0
    BY <2>1, LenProperties, EmptySeq
  <2>3. Len(ring') \in 1..Len(ring') /\ Len(ring') + 1 \in 1..Len(ring)
    BY <1>1, <2>1, <2>2
  <2> QED BY <1>1, <2>1, <2>3 DEF Range
<1> QED BY <1>2, <1>3

LEMMA RunKeeps ==
  ASSUME PumpInv, Run
  PROVE  PumpInv' /\ PairedStep
<1>1. PumpShape /\ RingOK(ring, shown) /\ ring \in Seq(Items) /\ shown \in Nat /\ MoreToWrite
  BY Sizes DEF PumpInv, PumpShape
<1>2. ring' = ring => PairedStep
  BY <1>1, NothingNew
<1>3. CASE Prebuffer
  <2>1. ring' = ring
    BY <1>3 DEF Prebuffer
  <2> QED BY <1>2, <1>3, <2>1, PrebufferKeeps
<1>4. CASE PrebufferFull \/ PrebufferTimeout
  <2>1. StartTicking
    BY <1>4 DEF PrebufferFull, PrebufferTimeout
  <2>2. /\ UNCHANGED <<mux, made, hand, queue, pre, free, debt, ring, shown, heard>>
        /\ phase = "prebuffer" /\ phase' = "ticking"
    BY <2>1 DEF StartTicking
  <2>3. PumpInv'
    BY <1>1, <2>2, NothingMoves DEF PumpShape, MoreToWrite
  <2> QED BY <1>2, <2>2, <2>3
<1>5. CASE PrebufferFails
  <2>1. /\ EndRun /\ phase # "done" /\ free' = free + Len(pre["video"])
        /\ pre' = [pre EXCEPT !["video"] = <<>>]
    BY <1>5 DEF PrebufferFails, Prebuffering
  <2>2. ring' = ring
    BY <2>1 DEF EndRun
  <2> QED BY <1>2, <2>1, <2>2, GivingBackKeeps
<1>6. CASE PumpTick
  <2>1. UNCHANGED <<phase, mux, made, hand>> /\ phase # "done"
    BY <1>6 DEF PumpTick
  <2>2. CASE ShowFrame
    <3>1. /\ PumpInv'
          /\ ring' # <<>> /\ ring'[Len(ring')] \notin Range(ring) => ring'[Len(ring')] = shown'
      BY <2>1, <2>2, ShowKeeps
    <3> QED BY <3>1 DEF PairedStep, Last
  <2>3. CASE Hold
    <3>1. PumpInv'
      BY <2>1, <2>3, HoldKeeps
    <3>2. ring' = ring \/ (ring' = Tail(ring) /\ ring # <<>>)
      BY <1>1, <2>3, PlayProperties DEF Hold
    <3> QED BY <1>1, <3>1, <3>2, NothingNew
  <2> QED BY <1>6, <2>2, <2>3 DEF PumpTick
<1>7. CASE EndOfFile
  <2>1. /\ UNCHANGED <<mux, made, hand, queue, pre, free, debt, ring, shown, heard>>
        /\ phase' = "done"
    BY <1>7 DEF EndOfFile, EndRun
  <2>2. PumpInv'
    BY <1>1, <2>1, NothingMoves DEF PumpShape, MoreToWrite
  <2> QED BY <1>2, <2>1, <2>2
<1>8. CASE RunCancelled
  <2>1. ring' = ring
    BY <1>8 DEF RunCancelled, EndRun
  <2> QED BY <1>2, <1>8, <2>1, CancelKeeps
<1>9. CASE Ack
  <2>1. UNCHANGED <<phase, mux, made, hand, queue, pre, free, debt, ring, shown, heard>>
    BY <1>9 DEF Ack
  <2>2. PumpInv'
    BY <1>1, <2>1, NothingMoves DEF PumpShape, MoreToWrite
  <2> QED BY <1>2, <2>1, <2>2
<1> QED BY <1>3, <1>4, <1>5, <1>6, <1>7, <1>8, <1>9 DEF Run

LEMMA PumpStep ==
  ASSUME PumpInv, [PumpNext]_pumpVars
  PROVE  PumpInv' /\ (PairedStep \/ UNCHANGED pumpVars)
<1>1. PumpShape /\ ring \in Seq(Items) /\ MoreToWrite
  BY DEF PumpInv, PumpShape
<1>2. ring' = ring => PairedStep
  BY <1>1, NothingNew
<1>3. ASSUME NEW st \in Streams, MuxTurns(st) PROVE PumpInv' /\ PairedStep
  <2>1. /\ UNCHANGED <<phase, made, hand, queue, pre, free, debt, ring, shown, heard>>
        /\ mux' = st /\ made[st] < Frames
    BY <1>3 DEF MuxTurns
  <2>2. PumpInv'
    BY <1>1, <2>1, NothingMoves DEF PumpShape
  <2> QED BY <1>2, <2>1, <2>2
<1>4. ASSUME NEW st \in Streams, Read(st) PROVE PumpInv' /\ PairedStep
  <2>1. ring' = ring
    BY <1>4 DEF Read
  <2> QED BY <1>2, <1>4, <2>1, ReadKeeps
<1>5. ASSUME NEW st \in Streams, Enqueue(st) PROVE PumpInv' /\ PairedStep
  <2>1. ring' = ring
    BY <1>5 DEF Enqueue
  <2> QED BY <1>2, <1>5, <2>1, EnqueueKeeps
<1>6. CASE Exit
  <2>1. UNCHANGED <<phase, mux, made, hand, queue, pre, free, debt, ring, shown, heard>>
    BY <1>6 DEF Exit
  <2>2. PumpInv'
    BY <1>1, <2>1, NothingMoves DEF PumpShape, MoreToWrite
  <2> QED BY <1>2, <2>1, <2>2
<1>7. CASE Run
  BY <1>7, RunKeeps
<1>8. CASE UNCHANGED pumpVars
  <2>1. UNCHANGED <<phase, mux, made, hand, queue, pre, free, debt, ring, shown, heard>>
    BY <1>8 DEF pumpVars
  <2>2. PumpInv'
    BY <1>1, <2>1, NothingMoves DEF PumpShape, MoreToWrite
  <2> QED BY <1>8, <2>2
<1> QED BY <1>3, <1>4, <1>5, <1>6, <1>7, <1>8 DEF PumpNext, Reader

LEMMA PumpInvariant == PumpSpec => []PumpInv
<1>1. PumpInit => PumpInv
  BY PumpStarts
<1>2. PumpInv /\ [PumpNext]_pumpVars => PumpInv'
  BY PumpStep
<1> QED BY <1>1, <1>2, PTL DEF PumpSpec

(* Whatever ffmpeg, the readers, the ACKs and the tick loop do in which    *)
(* order, every variable of the pump keeps its range: no queue outgrows    *)
(* its channel, and the pool never hands out a buffer it does not have.    *)
THEOREM PumpKeepsItsBounds == PumpSpec => []PumpShape
<1>1. PumpInv => PumpShape
  BY DEF PumpInv
<1> QED BY <1>1, PumpInvariant, PTL

(* No chunk is ever sent before AudioDelay further frames have been shown. *)
THEOREM SoundNeverLeads == PumpSpec => []AudioNeverLeads
<1>1. PumpInv => AudioNeverLeads
  BY DEF PumpInv
<1> QED BY <1>1, PumpInvariant, PTL

(* The chunk a tick puts into the delay ring is the one of the frame it    *)
(* shows, after any number of held fields and late chunks.                 *)
THEOREM ChunksArePaired == PumpSpec => PairedByIndex
<1>1. PumpInv /\ [PumpNext]_pumpVars => [PairedStep]_pumpVars
  BY PumpStep
<1> QED BY <1>1, PumpInvariant, PTL DEF PumpSpec, PairedByIndex, PairedStep

(***************************************************************************)
(* The live audio receiver.                                                *)
(***************************************************************************)
Sessions == [state : {"idle", "live", "held"}, ref : Nat, gen : Nat, artwork : Nat, pipeArt : Nat,
             artSeq : Nat, timer : Nat, graceSeq : Nat]
Reports  == {"ready", "unready", "stopped", "grace", "close"}
Messages == [kind : SenderEvents \cup Reports, n : Nat, of : Nat]
Relays   == [discard : BOOLEAN, level : Nat, waiting : BOOLEAN]

AudioShape ==
    /\ s \in Sessions /\ starts \in Nat /\ gens \in Nat
    /\ msgs \in Seq(Messages) /\ wire \in Seq(SenderEvents)
    /\ closed \in BOOLEAN /\ over \in BOOLEAN
    /\ core \in Nat \X Nat
    /\ told \subseteq Nat /\ fetching \subseteq Nat /\ posting \subseteq Nat /\ files \subseteq Nat
    /\ fired \subseteq Nat \X Nat /\ pauses \in Nat
    /\ relay \in Relays
    /\ receiver \in {"up", "stopping", "closing", "down"}

(* The message that a session's core session has gone. *)
IsStopped(m, ref) == m.kind = "stopped" /\ m.n = ref
Queued(ref)       == \E i \in DOMAIN msgs : IsStopped(msgs[i], ref)

(* A ref is given out once, and nobody is told of one that plays.          *)
SessionInv ==
    /\ s.state = "idle" <=> s.ref = 0
    /\ s.state = "idle" => s.pipeArt = 0
    /\ s.ref <= starts
    /\ core # None => core = <<s.ref, s.gen>> /\ s.ref # 0
    /\ \A r \in told : r \in 1..starts /\ (core # None => r # s.ref)
    /\ \A i \in DOMAIN msgs : msgs[i].kind = "stopped" =>
          /\ msgs[i].n \in 1..starts /\ msgs[i].of = 0
          /\ core # None => msgs[i].n # s.ref
    /\ \A i \in DOMAIN msgs : msgs[i].kind = "close" => closed
    /\ s.state # "idle" /\ core = None => closed \/ s.ref \in told \/ Queued(s.ref)
    /\ closed <=> receiver \in {"closing", "down"}
    /\ receiver = "down" => over /\ relay.discard
    /\ over => closed /\ s.state = "idle" /\ s.artwork = 0 /\ core = None

(* A picture has a number of its own, and is fetched, posted, queued or in *)
(* use.                                                                    *)
IsPicture(m) == m.kind = "ready" /\ m.of # 0
Gone(m)      == IF IsPicture(m) THEN {m.n} ELSE {}
PictureInv ==
    /\ s.artwork <= s.artSeq /\ s.pipeArt <= s.artSeq
    /\ InUse \subseteq files
    /\ \A n \in fetching : n \in 1..s.artSeq /\ n \notin files /\ n \notin posting
    /\ \A n \in posting : n \in 1..s.artSeq /\ n \in files \ InUse
    /\ \A i \in DOMAIN msgs : IsPicture(msgs[i]) =>
          /\ msgs[i].n = msgs[i].of /\ msgs[i].n \in 1..s.artSeq
          /\ msgs[i].n \in files \ InUse /\ msgs[i].n \notin posting
    /\ \A i \in DOMAIN msgs : msgs[i].kind = "unready" => msgs[i].of = 0
    /\ \A i, j \in DOMAIN msgs : i # j /\ IsPicture(msgs[i]) /\ IsPicture(msgs[j]) => msgs[i].n # msgs[j].n
    /\ \A n \in files \ InUse : n \in posting \/ \E i \in DOMAIN msgs : IsPicture(msgs[i]) /\ msgs[i].n = n

AudioInv == AudioShape /\ SessionInv /\ PictureInv

-----------------------------------------------------------------------------
LEMMA EmptyIs ==
  ASSUME NEW S, NEW q \in Seq(S)
  PROVE  q = <<>> <=> Len(q) = 0
OBVIOUS

LEMMA AppendFacts ==
  ASSUME NEW S, NEW q \in Seq(S), NEW x \in S
  PROVE  /\ Append(q, x) \in Seq(S) /\ Append(q, x) # <<>>
         /\ Len(Append(q, x)) = Len(q) + 1 /\ DOMAIN Append(q, x) = 1..(Len(q) + 1)
         /\ \A i \in DOMAIN Append(q, x) :
               IF i = Len(q) + 1 THEN Append(q, x)[i] = x ELSE i \in DOMAIN q /\ Append(q, x)[i] = q[i]
         /\ Head(Append(q, x)) = IF q = <<>> THEN x ELSE Head(q)
         /\ DOMAIN q = 1..Len(q) /\ Len(q) \in Nat
<1>1. Append(q, x) \in Seq(S) /\ Append(q, x) # <<>>
  <2>1. Append(q, x) \in Seq(S) /\ Len(Append(q, x)) = Len(q) + 1 /\ Len(q) \in Nat
    OBVIOUS
  <2> QED BY <2>1, EmptyIs
<1>2. Len(Append(q, x)) = Len(q) + 1 /\ DOMAIN Append(q, x) = 1..(Len(q) + 1) /\ DOMAIN q = 1..Len(q) /\ Len(q) \in Nat
  OBVIOUS
<1>3. ASSUME NEW i \in 1..(Len(q) + 1)
      PROVE  IF i = Len(q) + 1 THEN Append(q, x)[i] = x ELSE i \in DOMAIN q /\ Append(q, x)[i] = q[i]
  OBVIOUS
<1>4. Head(Append(q, x)) = Append(q, x)[1]
  OBVIOUS
<1>5. Head(Append(q, x)) = IF q = <<>> THEN x ELSE Head(q)
  OBVIOUS
<1> QED BY <1>1, <1>2, <1>3, <1>5

LEMMA TailFacts ==
  ASSUME NEW S, NEW q \in Seq(S), q # <<>>
  PROVE  /\ Tail(q) \in Seq(S) /\ Len(Tail(q)) = Len(q) - 1 /\ Len(q) \in Nat \ {0}
         /\ DOMAIN Tail(q) = 1..(Len(q) - 1) /\ DOMAIN q = 1..Len(q)
         /\ \A i \in DOMAIN Tail(q) : i + 1 \in DOMAIN q /\ Tail(q)[i] = q[i + 1]
         /\ 1 \in DOMAIN q /\ Head(q) = q[1] /\ Head(q) \in S
         /\ Tail(q) = <<>> <=> Len(q) = 1
         /\ Tail(q) # <<>> => Head(Tail(q)) = q[2] /\ 2 \in DOMAIN q
<1>1. Tail(q) \in Seq(S) /\ Len(Tail(q)) = Len(q) - 1 /\ Len(q) \in Nat \ {0}
  OBVIOUS
<1>2. DOMAIN Tail(q) = 1..(Len(q) - 1) /\ DOMAIN q = 1..Len(q) /\ 1 \in DOMAIN q /\ Head(q) = q[1] /\ Head(q) \in S
  OBVIOUS
<1>3. ASSUME NEW i \in 1..(Len(q) - 1) PROVE i + 1 \in DOMAIN q /\ Tail(q)[i] = q[i + 1]
  OBVIOUS
<1>4. Tail(q) = <<>> <=> Len(q) = 1
  <2>1. Tail(q) = <<>> <=> Len(Tail(q)) = 0
    BY <1>1, EmptyIs
  <2> QED BY <1>1, <2>1
<1>5. ASSUME Tail(q) # <<>> PROVE Head(Tail(q)) = q[2] /\ 2 \in DOMAIN q
  <2>1. Len(q) # 1 /\ 1 \in 1..(Len(q) - 1)
    BY <1>1, <1>4, <1>5
  <2>2. Head(Tail(q)) = Tail(q)[1]
    BY <1>1, <1>5
  <2> QED BY <1>3, <2>1, <2>2
<1> QED BY <1>1, <1>2, <1>3, <1>4, <1>5

LEMMA PutFacts ==
  ASSUME NEW S, NEW q \in Seq(S), q # <<>>, NEW x \in S
  PROVE  /\ <<x>> \o Tail(q) \in Seq(S)
         /\ DOMAIN (<<x>> \o Tail(q)) = DOMAIN q
         /\ \A i \in DOMAIN q : (<<x>> \o Tail(q))[i] = IF i = 1 THEN x ELSE q[i]
<1> DEFINE t == Tail(q)
<1>1. t \in Seq(S) /\ Len(t) = Len(q) - 1 /\ Len(q) \in Nat \ {0} /\ DOMAIN q = 1..Len(q)
      /\ \A i \in 1..(Len(q) - 1) : t[i] = q[i + 1]
  BY TailFacts
<1> HIDE DEF t
<1>2. <<x>> \o t \in Seq(S) /\ Len(<<x>> \o t) = Len(t) + 1 /\ DOMAIN (<<x>> \o t) = 1..(Len(t) + 1)
  BY <1>1
<1>3. ASSUME NEW i \in 1..Len(q) PROVE (<<x>> \o t)[i] = IF i = 1 THEN x ELSE q[i]
  <2>1. (<<x>> \o t)[i] = IF i = 1 THEN x ELSE t[i - 1]
    BY <1>1, <1>2
  <2>2. i # 1 => i - 1 \in 1..(Len(q) - 1) /\ (i - 1) + 1 = i
    BY <1>1
  <2> QED BY <1>1, <2>1, <2>2
<1> QED BY <1>1, <1>2, <1>3 DEF t

-----------------------------------------------------------------------------
(* What the building blocks do to the session. *)
LEMMA MessageIs ==
  ASSUME NEW kind \in SenderEvents \cup Reports, NEW n \in Nat, NEW of \in Nat
  PROVE  /\ Message(kind, n, of) \in Messages
         /\ Message(kind, n, of).kind = kind
         /\ Message(kind, n, of).n = n /\ Message(kind, n, of).of = of
BY DEF Message, Messages

LEMMA IdleIsTyped ==
  ASSUME NEW S, NEW N, NEW a \in S, NEW z \in N, NEW k \in N,
         NEW t \in [state : S, ref : N, gen : N, artwork : N, pipeArt : N, artSeq : N, timer : N, graceSeq : N]
  PROVE  [t EXCEPT !.state = a, !.ref = z, !.gen = z, !.pipeArt = z, !.timer = z, !.graceSeq = k]
           \in [state : S, ref : N, gen : N, artwork : N, pipeArt : N, artSeq : N, timer : N, graceSeq : N]
OBVIOUS

LEMMA ToIdleIs ==
  ASSUME NEW t \in Sessions
  PROVE  /\ ToIdle(t) \in Sessions /\ ToIdle(t).state = "idle"
         /\ ToIdle(t).ref = 0 /\ ToIdle(t).gen = 0 /\ ToIdle(t).pipeArt = 0
         /\ ToIdle(t).artwork = t.artwork /\ ToIdle(t).artSeq = t.artSeq
<1> DEFINE k == t.graceSeq + 1
<1>1. k \in Nat
  BY DEF Sessions
<1>2. ToIdle(t) = [t EXCEPT !.state = "idle", !.ref = 0, !.gen = 0, !.pipeArt = 0, !.timer = 0,
                            !.graceSeq = k]
  BY DEF ToIdle
<1> HIDE DEF k
<1>3. ToIdle(t) \in Sessions
  <2>1. [t EXCEPT !.state = "idle", !.ref = 0, !.gen = 0, !.pipeArt = 0, !.timer = 0, !.graceSeq = k]
          \in Sessions
    BY <1>1, IdleIsTyped DEF Sessions
  <2> QED BY <1>2, <2>1
<1>4. ToIdle(t).state = "idle"
  BY <1>2 DEF Sessions
<1>5. ToIdle(t).ref = 0 /\ ToIdle(t).gen = 0 /\ ToIdle(t).pipeArt = 0
      /\ ToIdle(t).artwork = t.artwork /\ ToIdle(t).artSeq = t.artSeq
  BY <1>2 DEF Sessions
<1> QED BY <1>3, <1>4, <1>5

(* The session is idle, and has the pictures of t. *)
Idled(t) ==
    /\ s' \in Sessions /\ s'.state = "idle" /\ s'.ref = 0 /\ s'.pipeArt = 0
    /\ s'.artwork = t.artwork /\ s'.artSeq = t.artSeq

LEMMA DrainedIs ==
  ASSUME relay \in Relays, NEW d \in BOOLEAN, Drained(d)
  PROVE  relay' \in Relays /\ relay'.discard = d
<1>1. (IF d THEN 0 ELSE relay.level) \in Nat
  BY DEF Relays
<1> DEFINE k == IF d THEN 0 ELSE relay.level
<1>2. relay' = [relay EXCEPT !.discard = d, !.level = k, !.waiting = FALSE]
  BY DEF Drained
<1> HIDE DEF k
<1>3. k \in Nat
  BY <1>1 DEF k
<1> QED BY <1>2, <1>3 DEF Relays

LEMMA ExternalStopDoes ==
  ASSUME AudioShape, NEW t \in Sessions, NEW gone, ExternalStop(t, gone)
  PROVE  /\ Idled(t) /\ relay' \in Relays
         /\ files' = files \ (gone \cup ({t.pipeArt} \ {t.artwork}))
<1>1. Idled(t)
  BY ToIdleIs DEF ExternalStop, Idled
<1>2. relay' \in Relays
  BY DrainedIs DEF ExternalStop, AudioShape
<1> QED BY <1>1, <1>2 DEF ExternalStop, Release

(* t is the session, but for its pictures and its timer. *)
SameSession(t) ==
    t \in Sessions /\ t.ref = s.ref /\ t.gen = s.gen /\ t.pipeArt = s.pipeArt
    /\ (t.state = "idle" <=> s.state = "idle")

LEMMA NoPictureZero ==
  ASSUME AudioShape, PictureInv
  PROVE  0 \notin files /\ \A n \in files : n \in 1..s.artSeq
<1>1. ASSUME NEW n \in files, n \in InUse PROVE n \in 1..s.artSeq
  BY <1>1 DEF AudioShape, PictureInv, InUse, Sessions
<1>2. ASSUME NEW n \in files, n \notin InUse PROVE n \in 1..s.artSeq
  <2>1. n \in posting \/ \E i \in DOMAIN msgs : IsPicture(msgs[i]) /\ msgs[i].n = n
    BY <1>2 DEF PictureInv
  <2> QED BY <2>1 DEF PictureInv
<1>3. \A n \in files : n \in 1..s.artSeq
  BY <1>1, <1>2
<1> QED BY <1>3

LEMMA EndDoes ==
  ASSUME AudioShape, SessionInv, PictureInv, NEW t, SameSession(t), NEW drop, End(t, drop)
  PROVE  /\ Idled(t) /\ relay' \in Relays
         /\ core' = None /\ (told' = told \/ (s.ref # 0 /\ told' = told \cup {s.ref}))
         /\ files' = files \ (drop \cup ({s.pipeArt} \ {t.artwork}))
<1>1. CASE t.state = "idle"
  <2>1. s' = t /\ UNCHANGED <<coreVars, relay>> /\ files' = files \ (drop \cup {})
    BY <1>1 DEF End
  <2>2. s.state = "idle" /\ s.ref = 0 /\ s.pipeArt = 0 /\ core = None
    BY <1>1 DEF SameSession, SessionInv
  <2>3. Idled(t)
    BY <1>1, <2>1, <2>2 DEF Idled, SameSession
  <2>4. files' = files \ (drop \cup ({s.pipeArt} \ {t.artwork}))
    BY <2>1, <2>2, NoPictureZero
  <2> QED BY <2>1, <2>2, <2>3, <2>4 DEF coreVars, AudioShape
<1>2. CASE t.state # "idle"
  <2>1. s' = ToIdle(t) /\ CoreStop(t) /\ Drained(TRUE) /\ files' = files \ (drop \cup Release(t))
    BY <1>2 DEF End
  <2>2. Idled(t)
    BY <2>1, ToIdleIs DEF Idled, SameSession
  <2>3. relay' \in Relays
    BY <2>1, DrainedIs DEF AudioShape
  <2>4. s.ref # 0
    BY <1>2 DEF SameSession, SessionInv
  <2>5. core' = None /\ (told' = told \/ told' = told \cup {s.ref})
    <3>1. CASE core = <<t.ref, t.gen>>
      BY <2>1, <3>1 DEF CoreStop, SameSession
    <3>2. CASE core # <<t.ref, t.gen>>
      BY <2>1, <3>2 DEF CoreStop, SameSession, SessionInv, coreVars
    <3> QED BY <3>1, <3>2
  <2> QED BY <2>1, <2>2, <2>3, <2>4, <2>5 DEF Release, SameSession
<1> QED BY <1>1, <1>2

LEMMA UncountedIs ==
  ASSUME NEW t \in Sessions
  PROVE  /\ Uncounted(t) \in Sessions /\ Uncounted(t).state = t.state
         /\ Uncounted(t).ref = t.ref /\ Uncounted(t).gen = t.gen /\ Uncounted(t).pipeArt = t.pipeArt
         /\ Uncounted(t).artwork = t.artwork /\ Uncounted(t).artSeq = t.artSeq
<1> DEFINE k == t.graceSeq + 1
<1>1. k \in Nat
  BY DEF Sessions
<1>2. Uncounted(t) = [t EXCEPT !.timer = 0, !.graceSeq = k]
  BY DEF Uncounted
<1> HIDE DEF k
<1>3. Uncounted(t) \in Sessions
  <2>1. [t EXCEPT !.timer = 0, !.graceSeq = k] \in Sessions
    BY <1>1 DEF Sessions
  <2> QED BY <1>2, <2>1
<1>4. Uncounted(t).state = t.state
  BY <1>2 DEF Sessions
<1>5. /\ Uncounted(t).ref = t.ref /\ Uncounted(t).gen = t.gen /\ Uncounted(t).pipeArt = t.pipeArt
      /\ Uncounted(t).artwork = t.artwork /\ Uncounted(t).artSeq = t.artSeq
  BY <1>2 DEF Sessions
<1> QED BY <1>3, <1>4, <1>5

LEMMA DroppedIs ==
  ASSUME NEW t \in Sessions
  PROVE  /\ Dropped(t) \in Sessions /\ Dropped(t).state = t.state
         /\ Dropped(t).ref = t.ref /\ Dropped(t).gen = t.gen /\ Dropped(t).pipeArt = t.pipeArt
         /\ Dropped(t).artwork = 0 /\ Dropped(t).artSeq = t.artSeq + 1
<1> DEFINE k == t.artSeq + 1
<1>1. k \in Nat
  BY DEF Sessions
<1>2. Dropped(t) = [t EXCEPT !.artSeq = k, !.artwork = 0]
  BY DEF Dropped
<1> HIDE DEF k
<1>3. Dropped(t) \in Sessions
  <2>1. [t EXCEPT !.artSeq = k, !.artwork = 0] \in Sessions
    BY <1>1 DEF Sessions
  <2> QED BY <1>2, <2>1
<1>4. Dropped(t).state = t.state
  BY <1>2 DEF Sessions
<1>5. /\ Dropped(t).ref = t.ref /\ Dropped(t).gen = t.gen /\ Dropped(t).pipeArt = t.pipeArt
      /\ Dropped(t).artwork = 0 /\ Dropped(t).artSeq = k
  BY <1>2 DEF Sessions
<1> QED BY <1>3, <1>4, <1>5 DEF k

LEMMA PostDoes ==
  ASSUME AudioShape, NEW m \in Messages, Post(m)
  PROVE  msgs' \in Seq(Messages) /\ (msgs' = Append(msgs, m) \/ (closed /\ msgs' = msgs))
<1>1. msgs \in Seq(Messages) /\ Append(msgs, m) \in Seq(Messages)
  BY AppendFacts DEF AudioShape
<1> QED BY <1>1 DEF Post

LEMMA TakeDoes ==
  ASSUME AudioShape, NEW kinds, Take(kinds)
  PROVE  /\ ~over /\ msgs # <<>> /\ Head(msgs).kind \in kinds /\ Head(msgs) \in Messages
         /\ msgs' = Tail(msgs) /\ msgs' \in Seq(Messages)
         /\ closed' = closed /\ fired' = fired /\ posting' = posting /\ wire' = wire /\ receiver' = receiver
<1>1. msgs \in Seq(Messages)
  BY DEF AudioShape
<1>2. Tail(msgs) \in Seq(Messages) /\ Head(msgs) \in Messages
  BY <1>1, TailFacts DEF Take
<1> QED BY <1>2 DEF Take, wireVars

LEMMA StartedDoes ==
  ASSUME AudioShape, Started
  PROVE  /\ starts' = starts + 1 /\ gens' = gens + 1 /\ files' = files /\ relay' \in Relays
         /\ s' \in Sessions /\ s'.artwork = s.artwork /\ s'.artSeq = s.artSeq
         /\ \/ /\ s'.state = "live" /\ s'.ref = starts + 1 /\ s'.gen = gens + 1 /\ s'.pipeArt = s.artwork
               /\ core' = <<starts + 1, gens + 1>> /\ told' = told
            \/ /\ s'.state = "idle" /\ s'.ref = 0 /\ s'.pipeArt = 0
               /\ core' = None /\ told' = told \cup {starts + 1}
<1> DEFINE r == starts + 1
           g == gens + 1
           t == [s EXCEPT !.ref = r, !.gen = g, !.pipeArt = s.artwork, !.state = "live"]
<1>0. r \in Nat /\ g \in Nat /\ s \in Sessions
  BY DEF AudioShape
<1>1. /\ starts' = r /\ gens' = g
      /\ \/ s' = t /\ core' = <<t.ref, t.gen>> /\ Drained(FALSE) /\ UNCHANGED <<files, told, h>>
         \/ told' = told \cup {t.ref} /\ core' = None /\ ExternalStop(t, {})
  BY DEF Started
<1> HIDE DEF r, g
<1>2. t \in Sessions
  BY <1>0 DEF Sessions
<1>3. t.ref = r /\ t.gen = g /\ t.pipeArt = s.artwork /\ t.artwork = s.artwork /\ t.artSeq = s.artSeq
  BY <1>0 DEF Sessions
<1>4. t.state = "live"
  BY <1>0 DEF Sessions
<1> HIDE DEF t
<1>5. CASE s' = t /\ core' = <<t.ref, t.gen>> /\ Drained(FALSE) /\ UNCHANGED <<files, told, h>>
  <2>1. relay' \in Relays
    BY <1>5, DrainedIs DEF AudioShape
  <2> QED BY <1>1, <1>2, <1>3, <1>4, <1>5, <2>1 DEF r, g
<1>6. CASE told' = told \cup {t.ref} /\ core' = None /\ ExternalStop(t, {})
  <2>1. Idled(t) /\ relay' \in Relays /\ files' = files \ ({} \cup ({t.pipeArt} \ {t.artwork}))
    BY <1>2, <1>6, ExternalStopDoes
  <2>2. files' = files
    BY <1>3, <2>1
  <2> QED BY <1>1, <1>3, <1>6, <2>1, <2>2 DEF r, g, Idled
<1> QED BY <1>1, <1>5, <1>6

LEMMA StartFailsDoes ==
  ASSUME AudioShape, StartFails
  PROVE  /\ starts' = starts + 1 /\ UNCHANGED <<files, gens, core, told>> /\ relay' \in Relays
         /\ s' \in Sessions /\ s'.artwork = s.artwork /\ s'.artSeq = s.artSeq
         /\ s'.state = "idle" /\ s'.ref = 0 /\ s'.pipeArt = 0
<1> DEFINE t == [s EXCEPT !.pipeArt = s.artwork]
<1>1. t \in Sessions
  BY DEF AudioShape, Sessions
<1>2. t.artwork = s.artwork /\ t.artSeq = s.artSeq
  BY DEF AudioShape, Sessions
<1>3. s' = ToIdle(t)
  BY DEF StartFails
<1> HIDE DEF t
<1>4. relay' \in Relays
  BY DrainedIs DEF StartFails, AudioShape
<1> QED BY <1>1, <1>2, <1>3, <1>4, ToIdleIs DEF StartFails, coreVars

(* applyArtwork: the session is as it was; it plays anew; or it has gone. *)
Shown(path) == s' \in Sessions /\ s'.artwork = path /\ s'.artSeq = s.artSeq /\ relay' \in Relays
AsItWas ==
    /\ s'.state = s.state /\ s'.ref = s.ref /\ s'.gen = s.gen /\ s'.pipeArt = s.pipeArt
    /\ UNCHANGED <<gens, core, told>> /\ files' = files \ Replaces(s)
Anew(path) ==
    /\ s.state # "idle" /\ s'.state = s.state /\ s'.ref = s.ref /\ s'.gen = gens + 1 /\ s'.pipeArt = path
    /\ gens' = gens + 1 /\ core = <<s.ref, s.gen>> /\ core' = <<s.ref, gens + 1>> /\ told' = told
    /\ files' = files \ (Replaces(s) \cup ({s.pipeArt} \ {path}))
GoneNow(path) ==
    /\ s.state # "idle" /\ s'.state = "idle" /\ s'.ref = 0 /\ s'.pipeArt = 0
    /\ gens' = gens + 1 /\ core' = None /\ told' \in {told, told \cup {s.ref}}
    /\ files' = files \ (Replaces(s) \cup ({s.pipeArt} \ {path}))

LEMMA ApplyDoes ==
  ASSUME AudioShape, NEW path \in Nat, Apply(s, path)
  PROVE  Shown(path) /\ (AsItWas \/ Anew(path) \/ GoneNow(path))
<1> DEFINE new == [s EXCEPT !.artwork = path]
<1>0. s \in Sessions /\ gens \in Nat /\ relay \in Relays
  BY DEF AudioShape
<1>1. \/ Keeps(new, Replaces(s)) /\ UNCHANGED <<gens, coreVars>>
      \/ s.state # "idle" /\ RestartForArtwork(new, Replaces(s))
  BY DEF Apply
<1>2. new \in Sessions
  BY <1>0 DEF Sessions
<1>3. new.state = s.state
  BY <1>0 DEF Sessions
<1>4. new.ref = s.ref /\ new.gen = s.gen /\ new.pipeArt = s.pipeArt /\ new.artwork = path /\ new.artSeq = s.artSeq
  BY <1>0 DEF Sessions
<1> HIDE DEF new
<1>5. CASE Keeps(new, Replaces(s)) /\ UNCHANGED <<gens, coreVars>>
  <2>1. s' = new /\ files' = files \ Replaces(s) /\ relay' = relay /\ UNCHANGED <<gens, core, told>>
    BY <1>5 DEF Keeps, coreVars
  <2> QED BY <1>0, <1>2, <1>3, <1>4, <2>1 DEF Shown, AsItWas
<1>6. CASE /\ core = <<new.ref, new.gen>> /\ gens' = gens + 1 /\ s.state # "idle"
           /\ core' = <<new.ref, gens + 1>> /\ UNCHANGED told
           /\ Keeps(Renewed(new), Replaces(s) \cup Release(new))
  <2> DEFINE g == gens + 1
             r == [new EXCEPT !.pipeArt = new.artwork, !.gen = g]
  <2>1. s' = r /\ files' = files \ (Replaces(s) \cup Release(new)) /\ relay' = relay
    BY <1>6 DEF Keeps, Renewed
  <2>2. g \in Nat
    BY <1>0
  <2> HIDE DEF g
  <2>3. r \in Sessions
    BY <1>2, <2>2 DEF Sessions
  <2>4. r.state = new.state
    BY <1>2 DEF Sessions
  <2>5. r.ref = new.ref /\ r.gen = g /\ r.pipeArt = new.artwork /\ r.artwork = new.artwork /\ r.artSeq = new.artSeq
    BY <1>2 DEF Sessions
  <2> HIDE DEF r
  <2>6. Shown(path)
    BY <1>0, <1>4, <2>1, <2>3, <2>5 DEF Shown
  <2>7. Anew(path)
    BY <1>3, <1>4, <1>6, <2>1, <2>4, <2>5 DEF Anew, Release, g
  <2> QED BY <2>6, <2>7
<1>7. CASE /\ core = <<new.ref, new.gen>> /\ gens' = gens + 1 /\ s.state # "idle"
           /\ core' = None /\ told' \in {told, told \cup {new.ref}} /\ ExternalStop(new, Replaces(s))
  <2>1. Idled(new) /\ relay' \in Relays /\ files' = files \ (Replaces(s) \cup ({new.pipeArt} \ {new.artwork}))
    BY <1>2, <1>7, ExternalStopDoes
  <2> QED BY <1>4, <1>7, <2>1 DEF Idled, Shown, GoneNow
<1>8. ASSUME Keeps(new, Replaces(s)), UNCHANGED <<gens, coreVars>>
      PROVE  Keeps(new, Replaces(s)) /\ UNCHANGED <<gens, coreVars>>
  BY <1>8
<1> QED BY <1>1, <1>5, <1>6, <1>7 DEF RestartForArtwork, AfterLoss

-----------------------------------------------------------------------------
LEMMA ShapeAgain ==
  ASSUME AudioShape, s' \in Sessions, starts' \in Nat, gens' \in Nat, pauses' \in Nat,
         msgs' \in Seq(Messages), over' \in BOOLEAN, core' \in Nat \X Nat, told' \subseteq Nat,
         fetching' \subseteq Nat, files' \subseteq Nat, relay' \in Relays,
         UNCHANGED <<wire, closed, fired, posting, receiver>>
  PROVE  AudioShape'
BY DEF AudioShape

LEMMA PlayDoes ==
  ASSUME AudioShape, Play
  PROVE  Take({"play"}) /\ s.state = "idle" /\ (Started \/ StartFails) /\ UNCHANGED <<pauses, fetching>>
BY DEF Play

(* What Pause, Grace and Resume leave of the session. *)
LEMMA ResumeDoes ==
  ASSUME AudioShape, Resume
  PROVE  /\ Take({"play"}) /\ SameSession(s') /\ s'.artwork = s.artwork /\ s'.artSeq = s.artSeq
         /\ UNCHANGED <<starts, pauses, files, gens, core, told, fetching, relay>>
<1> DEFINE u == Uncounted(s)
<1>1. s \in Sessions /\ s.state # "idle"
  BY DEF AudioShape, Resume
<1>2. /\ u \in Sessions /\ u.state = s.state
      /\ u.ref = s.ref /\ u.gen = s.gen /\ u.pipeArt = s.pipeArt
      /\ u.artwork = s.artwork /\ u.artSeq = s.artSeq
  BY <1>1, UncountedIs
<1>3. s' = s \/ s' = [u EXCEPT !.state = "live"]
  BY DEF Resume
<1> HIDE DEF u
<1>4. [u EXCEPT !.state = "live"] \in Sessions /\ [u EXCEPT !.state = "live"].state # "idle"
  BY <1>2 DEF Sessions
<1>5. LET v == [u EXCEPT !.state = "live"] IN
      v.ref = u.ref /\ v.gen = u.gen /\ v.pipeArt = u.pipeArt /\ v.artwork = u.artwork /\ v.artSeq = u.artSeq
  BY <1>2 DEF Sessions
<1>6. SameSession(s') /\ s'.artwork = s.artwork /\ s'.artSeq = s.artSeq
  <2>1. CASE s' = s
    BY <1>1, <2>1 DEF SameSession
  <2>2. CASE s' # s
    BY <1>1, <1>2, <1>3, <1>4, <1>5, <2>2 DEF SameSession
  <2> QED BY <2>1, <2>2
<1> QED BY <1>6 DEF Resume, coreVars

LEMMA PauseDoes ==
  ASSUME AudioShape, Pause
  PROVE  /\ Take({"pause"}) /\ pauses' \in Nat /\ UNCHANGED <<starts, gens, fetching>>
         /\ \/ /\ SameSession(s') /\ s'.artwork = s.artwork /\ s'.artSeq = s.artSeq
               /\ UNCHANGED <<files, core, told, relay>>
            \/ \E t \in Sessions :
                  SameSession(t) /\ t.artwork = s.artwork /\ t.artSeq = s.artSeq /\ End(t, {})
<1>1. s \in Sessions /\ pauses \in Nat
  BY DEF AudioShape
<1>2. CASE s.state # "live"
  BY <1>1, <1>2 DEF Pause, SameSession, coreVars
<1>3. CASE s.state = "live"
  <2> DEFINE u == Uncounted(s)
             t == [u EXCEPT !.state = "held"]
             k == t.graceSeq + 1
             v == [t EXCEPT !.graceSeq = k, !.timer = k]
  <2>1. /\ u \in Sessions /\ u.state = s.state
        /\ u.ref = s.ref /\ u.gen = s.gen /\ u.pipeArt = s.pipeArt
        /\ u.artwork = s.artwork /\ u.artSeq = s.artSeq
    BY <1>1, UncountedIs
  <2>2. pauses' = pauses + 1 /\ (End(t, {}) \/ (s' = v /\ UNCHANGED <<files, coreVars, relay>>))
    BY <1>3 DEF Pause
  <2> HIDE DEF u
  <2>3. t \in Sessions /\ t.state = "held"
    BY <2>1 DEF Sessions
  <2>4. t.ref = s.ref /\ t.gen = s.gen /\ t.pipeArt = s.pipeArt /\ t.artwork = s.artwork /\ t.artSeq = s.artSeq
    BY <2>1 DEF Sessions
  <2>5. k \in Nat
    BY <2>3 DEF Sessions
  <2> HIDE DEF t, k
  <2>6. v \in Sessions
    BY <2>3, <2>5 DEF Sessions
  <2>7. v.state = t.state
    BY <2>3 DEF Sessions
  <2>8. v.ref = t.ref /\ v.gen = t.gen /\ v.pipeArt = t.pipeArt /\ v.artwork = t.artwork /\ v.artSeq = t.artSeq
    BY <2>3 DEF Sessions
  <2> HIDE DEF v
  <2>9. SameSession(t) /\ SameSession(v)
    BY <1>3, <2>3, <2>4, <2>6, <2>7, <2>8 DEF SameSession
  <2>10. pauses' \in Nat /\ Take({"pause"}) /\ UNCHANGED <<starts, gens, fetching>>
    BY <1>1, <2>2 DEF Pause
  <2>11. CASE End(t, {})
    BY <2>3, <2>4, <2>9, <2>10, <2>11
  <2>12. CASE s' = v /\ UNCHANGED <<files, coreVars, relay>>
    BY <2>4, <2>8, <2>9, <2>10, <2>12 DEF coreVars
  <2> QED BY <2>2, <2>11, <2>12
<1> QED BY <1>2, <1>3

LEMMA StopDoes ==
  ASSUME AudioShape, SessionInv, PictureInv, End(Dropped(s), {s.artwork})
  PROVE  /\ s' \in Sessions /\ s'.state = "idle" /\ s'.ref = 0 /\ s'.pipeArt = 0
         /\ s'.artwork = 0 /\ s'.artSeq = s.artSeq + 1 /\ relay' \in Relays
         /\ core' = None /\ (told' = told \/ (s.ref # 0 /\ told' = told \cup {s.ref}))
         /\ files' = files \ ({s.artwork} \cup ({s.pipeArt} \ {0}))
<1> DEFINE t == Dropped(s)
<1>1. /\ t \in Sessions /\ t.state = s.state
      /\ t.ref = s.ref /\ t.gen = s.gen /\ t.pipeArt = s.pipeArt
      /\ t.artwork = 0 /\ t.artSeq = s.artSeq + 1
  BY DroppedIs DEF AudioShape
<1>2. End(t, {s.artwork})
  OBVIOUS
<1> HIDE DEF t
<1>3. SameSession(t)
  BY <1>1 DEF SameSession
<1> QED BY <1>1, <1>2, <1>3, EndDoes DEF Idled

LEMMA PictureDoes ==
  ASSUME AudioShape, Picture
  PROVE  /\ ~over /\ msgs # <<>> /\ Head(msgs).kind \in {"inline", "clear", "bad"}
         /\ SameSession(s') /\ s'.state = s.state /\ s'.artwork = s.artwork /\ s'.artSeq = s.artSeq + 1
         /\ \E m \in Messages :
              /\ m.n = s.artSeq + 1 /\ msgs' = <<m>> \o Tail(msgs)
              /\ \/ m.kind = "ready" /\ m.of = m.n /\ files' = files \cup {m.n}
                 \/ m.kind \in {"ready", "unready"} /\ m.of = 0 /\ files' = files
         /\ UNCHANGED <<starts, pauses, gens, closed, core, told, fired, fetching, posting, wire, relay, receiver>>
<1> DEFINE k == s.artSeq + 1
<1>1. k \in Nat /\ s \in Sessions
  BY DEF AudioShape, Sessions
<1>2. s' = [s EXCEPT !.artSeq = k]
  BY DEF Picture
<1>3. /\ Head(msgs).kind = "inline" => /\ msgs' = <<Message("ready", k, k)>> \o Tail(msgs)
                                       /\ files' = files \cup {k}
      /\ Head(msgs).kind = "clear" => msgs' = <<Message("ready", k, 0)>> \o Tail(msgs) /\ files' = files
      /\ Head(msgs).kind = "bad" => msgs' = <<Message("unready", k, 0)>> \o Tail(msgs) /\ files' = files
      /\ Head(msgs).kind \in {"inline", "clear", "bad"}
  BY DEF Picture
<1> HIDE DEF k
<1>4. s' \in Sessions /\ s'.state = s.state
  BY <1>1, <1>2 DEF Sessions
<1>5. s'.artSeq = k /\ s'.artwork = s.artwork /\ s'.ref = s.ref /\ s'.gen = s.gen /\ s'.pipeArt = s.pipeArt
  BY <1>1, <1>2 DEF Sessions
<1>k. 0 \in Nat /\ {"ready", "unready"} \subseteq SenderEvents \cup Reports
  BY DEF Reports
<1>6. \E m \in Messages :
              /\ m.n = k /\ msgs' = <<m>> \o Tail(msgs)
              /\ \/ m.kind = "ready" /\ m.of = m.n /\ files' = files \cup {m.n}
                 \/ m.kind \in {"ready", "unready"} /\ m.of = 0 /\ files' = files
  <2>1. CASE Head(msgs).kind = "inline"
    <3> DEFINE m == Message("ready", k, k)
    <3>1. m \in Messages /\ m.kind = "ready" /\ m.n = k /\ m.of = k
      BY <1>1, <1>k, MessageIs
    <3>2. msgs' = <<m>> \o Tail(msgs) /\ files' = files \cup {k}
      BY <1>3, <2>1
    <3> HIDE DEF m
    <3> QED BY <3>1, <3>2
  <2>2. CASE Head(msgs).kind = "clear"
    <3> DEFINE m == Message("ready", k, 0)
    <3>1. m \in Messages /\ m.kind = "ready" /\ m.n = k /\ m.of = 0
      BY <1>1, <1>k, MessageIs
    <3>2. msgs' = <<m>> \o Tail(msgs) /\ files' = files
      BY <1>3, <2>2
    <3> HIDE DEF m
    <3> QED BY <3>1, <3>2
  <2>3. CASE Head(msgs).kind = "bad"
    <3> DEFINE m == Message("unready", k, 0)
    <3>1. m \in Messages /\ m.kind = "unready" /\ m.n = k /\ m.of = 0
      BY <1>1, <1>k, MessageIs
    <3>2. msgs' = <<m>> \o Tail(msgs) /\ files' = files
      BY <1>3, <2>3
    <3> HIDE DEF m
    <3> QED BY <3>1, <3>2
  <2> QED BY <1>3, <2>1, <2>2, <2>3
<1>7. SameSession(s')
  BY <1>4, <1>5 DEF SameSession
<1> QED BY <1>4, <1>5, <1>6, <1>7 DEF Picture, coreVars, artVars, wireVars, k

LEMMA FetchDoes ==
  ASSUME AudioShape, Fetch
  PROVE  /\ Take({"url"}) /\ SameSession(s') /\ s'.artwork = s.artwork /\ s'.artSeq = s.artSeq + 1
         /\ fetching' = fetching \cup {s.artSeq + 1}
         /\ UNCHANGED <<starts, pauses, files, gens, core, told, relay>>
<1> DEFINE k == s.artSeq + 1
<1>1. k \in Nat /\ s \in Sessions
  BY DEF AudioShape, Sessions
<1>2. s' = [s EXCEPT !.artSeq = k]
  BY DEF Fetch
<1> HIDE DEF k
<1>4. s' \in Sessions /\ s'.state = s.state
  BY <1>1, <1>2 DEF Sessions
<1>5. s'.artSeq = k /\ s'.artwork = s.artwork /\ s'.ref = s.ref /\ s'.gen = s.gen /\ s'.pipeArt = s.pipeArt
  BY <1>1, <1>2 DEF Sessions
<1>7. SameSession(s')
  BY <1>4, <1>5 DEF SameSession
<1> QED BY <1>5, <1>7 DEF Fetch, coreVars, k

LEMMA HandlesKeepsShape ==
  ASSUME AudioShape, SessionInv, PictureInv, Handles
  PROVE  AudioShape'
<1>0. /\ s \in Sessions /\ starts \in Nat /\ gens \in Nat /\ pauses \in Nat /\ over \in BOOLEAN
      /\ core \in Nat \X Nat /\ told \subseteq Nat /\ fetching \subseteq Nat /\ files \subseteq Nat
      /\ relay \in Relays /\ msgs \in Seq(Messages) /\ None \in Nat \X Nat
      /\ s.ref \in Nat /\ s.artSeq \in Nat
  BY DEF AudioShape, None, Sessions
<1>1. ASSUME NEW kinds, Take(kinds)
      PROVE  msgs' \in Seq(Messages) /\ UNCHANGED <<wire, closed, fired, posting, receiver>>
  BY <1>1, TakeDoes
<1>2. CASE Play /\ over' = over
  <2>1. CASE Started
    <3>1. /\ starts' = starts + 1 /\ gens' = gens + 1 /\ files' = files /\ relay' \in Relays /\ s' \in Sessions
          /\ \/ core' = <<starts + 1, gens + 1>> /\ told' = told
             \/ core' = None /\ told' = told \cup {starts + 1}
      BY <2>1, StartedDoes
    <3>2. starts + 1 \in Nat /\ gens + 1 \in Nat
      BY <1>0
    <3>3. core' \in Nat \X Nat /\ told' \subseteq Nat /\ starts' \in Nat /\ gens' \in Nat
      <4>1. starts' \in Nat /\ gens' \in Nat
        BY <3>1, <3>2
      <4>2. <<starts + 1, gens + 1>> \in Nat \X Nat /\ told \cup {starts + 1} \subseteq Nat
        BY <1>0, <3>2
      <4> QED BY <1>0, <3>1, <4>1, <4>2
    <3> QED BY <1>0, <1>1, <1>2, <3>1, <3>3, PlayDoes, ShapeAgain
  <2>2. CASE StartFails
    <3>1. /\ starts' = starts + 1 /\ UNCHANGED <<files, gens, core, told>> /\ relay' \in Relays /\ s' \in Sessions
      BY <2>2, StartFailsDoes
    <3>2. starts' \in Nat
      BY <1>0, <3>1
    <3> QED BY <1>0, <1>1, <1>2, <3>1, <3>2, PlayDoes, ShapeAgain
  <2> QED BY <1>2, <2>1, <2>2, PlayDoes
<1>3. CASE Resume /\ over' = over
  BY <1>0, <1>1, <1>3, ResumeDoes, ShapeAgain DEF SameSession
<1>4. ASSUME NEW t, SameSession(t), NEW drop, End(t, drop)
      PROVE  s' \in Sessions /\ relay' \in Relays /\ core' \in Nat \X Nat /\ told' \subseteq Nat /\ files' \subseteq Nat
  BY <1>0, <1>4, EndDoes DEF Idled
<1>s. SameSession(s)
  BY <1>0 DEF SameSession
<1>5. CASE Pause /\ over' = over
  <2>1. Take({"pause"}) /\ pauses' \in Nat /\ UNCHANGED <<starts, gens, fetching>>
    BY <1>5, PauseDoes
  <2>2. s' \in Sessions /\ relay' \in Relays /\ core' \in Nat \X Nat /\ told' \subseteq Nat /\ files' \subseteq Nat
    BY <1>0, <1>4, <1>5, PauseDoes DEF SameSession
  <2> QED BY <1>0, <1>1, <1>5, <2>1, <2>2, ShapeAgain
<1>6. CASE Grace /\ over' = over
  <2>1. s' \in Sessions /\ relay' \in Relays /\ core' \in Nat \X Nat /\ told' \subseteq Nat /\ files' \subseteq Nat
    BY <1>0, <1>4, <1>s, <1>6 DEF Grace, coreVars
  <2> QED BY <1>0, <1>1, <1>6, <2>1, ShapeAgain DEF Grace
<1>7. CASE CoreStopped /\ over' = over
  <2>1. s' \in Sessions /\ relay' \in Relays /\ files' \subseteq Nat
    <3>1. CASE OurStop(Head(msgs))
      <4>1. ExternalStop(s, {})
        BY <1>7, <3>1 DEF CoreStopped
      <4> QED BY <1>0, <4>1, ExternalStopDoes DEF Idled
    <3>2. CASE ~OurStop(Head(msgs))
      BY <1>0, <1>7, <3>2 DEF CoreStopped
    <3> QED BY <3>1, <3>2
  <2> QED BY <1>0, <1>1, <1>7, <2>1, ShapeAgain DEF CoreStopped, coreVars
<1>8. CASE Stop /\ over' = over
  <2>1. s' \in Sessions /\ relay' \in Relays /\ core' \in Nat \X Nat /\ told' \subseteq Nat /\ files' \subseteq Nat
    BY <1>0, <1>8, StopDoes DEF Stop
  <2> QED BY <1>0, <1>1, <1>8, <2>1, ShapeAgain DEF Stop
<1>9. CASE Picture /\ over' = over
  <2>1. PICK m \in Messages : m.n = s.artSeq + 1 /\ msgs' = <<m>> \o Tail(msgs) /\ files' \in {files, files \cup {m.n}}
    BY <1>9, PictureDoes
  <2>2. msgs' \in Seq(Messages) /\ files' \subseteq Nat
    BY <1>0, <1>9, <2>1, PictureDoes, PutFacts
  <2> QED BY <1>0, <1>9, <2>2, PictureDoes, ShapeAgain DEF SameSession
<1>10. CASE Fetch /\ over' = over
  <2>1. fetching' \subseteq Nat
    <3>1. fetching' = fetching \cup {s.artSeq + 1} /\ s.artSeq + 1 \in Nat
      BY <1>0, <1>10, FetchDoes
    <3> QED BY <1>0, <3>1
  <2> QED BY <1>0, <1>1, <1>10, <2>1, FetchDoes, ShapeAgain DEF SameSession
<1>11. CASE Pictured /\ over' = over
  <2>1. Take({"ready", "unready"}) /\ UNCHANGED <<starts, pauses, fetching>>
    BY <1>11 DEF Pictured
  <2>2. s' \in Sessions /\ relay' \in Relays /\ core' \in Nat \X Nat /\ told' \subseteq Nat /\ files' \subseteq Nat /\ gens' \in Nat
    <3>1. CASE Head(msgs).kind = "ready" /\ Newest(Head(msgs).n)
      <4>1. Apply(s, Head(msgs).of) /\ Head(msgs).of \in Nat
        BY <1>11, <2>1, <3>1, TakeDoes DEF Pictured, Messages
      <4>2. Shown(Head(msgs).of) /\ (AsItWas \/ Anew(Head(msgs).of) \/ GoneNow(Head(msgs).of))
        BY <4>1, ApplyDoes
      <4>3. s' \in Sessions /\ relay' \in Relays
        BY <4>2 DEF Shown
      <4>4. core' \in Nat \X Nat /\ told' \subseteq Nat /\ files' \subseteq Nat /\ gens' \in Nat
        <5>1. gens + 1 \in Nat
          BY <1>0
        <5>2. CASE AsItWas
          BY <1>0, <5>2 DEF AsItWas
        <5>3. CASE Anew(Head(msgs).of)
          BY <1>0, <5>1, <5>3 DEF Anew
        <5>4. CASE GoneNow(Head(msgs).of)
          BY <1>0, <5>1, <5>4 DEF GoneNow
        <5> QED BY <4>2, <5>2, <5>3, <5>4
      <4> QED BY <4>3, <4>4
    <3>2. CASE ~(Head(msgs).kind = "ready" /\ Newest(Head(msgs).n))
      BY <1>0, <1>11, <3>2 DEF Pictured, Keeps, coreVars
    <3> QED BY <3>1, <3>2
  <2> QED BY <1>0, <1>1, <1>11, <2>1, <2>2, ShapeAgain
<1>12. CASE CloseRequest
  <2>1. s' \in Sessions /\ relay' \in Relays /\ core' \in Nat \X Nat /\ told' \subseteq Nat /\ files' \subseteq Nat
    BY <1>0, <1>12, StopDoes DEF CloseRequest
  <2>2. msgs' \in Seq(Messages)
    BY <1>0, <1>12, TailFacts DEF CloseRequest
  <2> QED BY <1>0, <1>12, <2>1, <2>2, ShapeAgain DEF CloseRequest, artVars, wireVars
<1> QED BY <1>2, <1>3, <1>5, <1>6, <1>7, <1>8, <1>9, <1>10, <1>11, <1>12 DEF Handles

LEMMA KeepsShape ==
  ASSUME AudioShape, SessionInv, PictureInv, [AudioNext]_audioVars
  PROVE  AudioShape'
<1> USE DEF AudioShape, audioVars, sessionVars, coreVars, artVars, helperVars, wireVars
<1>h. msgs \in Seq(Messages) /\ s \in Sessions /\ relay \in Relays
  OBVIOUS
<1>1. ASSUME NEW kind \in SenderEvents, SenderActs(kind) PROVE AudioShape'
  BY <1>1 DEF SenderActs
<1>2. CASE SessionEnds
  <2>1. core' = None /\ told' = told \cup {core[1]} /\ core' \in Nat \X Nat /\ told' \subseteq Nat
    BY <1>2 DEF SessionEnds, None
  <2> QED BY <1>2, <2>1 DEF SessionEnds
<1>3. CASE GraceFires
  <2>1. s' \in Sessions
    BY <1>h, <1>3 DEF GraceFires, Sessions
  <2>2. fired' \subseteq Nat \X Nat
    BY <1>h, <1>3 DEF GraceFires, Sessions
  <2> QED BY <1>3, <2>1, <2>2 DEF GraceFires
<1>4. CASE Deliver
  <2>1. Head(wire) \in SenderEvents /\ wire' \in Seq(SenderEvents)
    BY <1>4 DEF Deliver
  <2>2. Event(Head(wire)) \in Messages
    BY <2>1, MessageIs DEF Event
  <2>3. msgs' \in Seq(Messages)
    BY <1>4, <2>2, PostDoes DEF Deliver
  <2> QED BY <1>4, <2>1, <2>3 DEF Deliver
<1>5. ASSUME NEW ref \in told, TellStopped(ref) PROVE AudioShape'
  <2>1. Message("stopped", ref, 0) \in Messages
    BY MessageIs DEF Reports
  <2>2. msgs' \in Seq(Messages)
    BY <1>5, <2>1, PostDoes DEF TellStopped
  <2> QED BY <1>5, <2>2 DEF TellStopped
<1>6. ASSUME NEW t \in fired, TellGrace(t) PROVE AudioShape'
  <2>t. t \in Nat \X Nat
    OBVIOUS
  <2>0. t[1] \in Nat /\ t[2] \in Nat
    BY ONLY <2>t
  <2>k. "grace" \in SenderEvents \cup Reports
    BY DEF Reports
  <2>1. Message("grace", t[1], t[2]) \in Messages
    BY ONLY <2>0, <2>k, MessageIs
  <2>2. msgs' \in Seq(Messages)
    BY <1>6, <2>1, PostDoes DEF TellGrace
  <2> QED BY <1>6, <2>2 DEF TellGrace
<1>7. ASSUME NEW n \in fetching, FetchArrives(n) PROVE AudioShape'
  BY <1>7 DEF FetchArrives
<1>8. ASSUME NEW n \in fetching, FetchFails(n) PROVE AudioShape'
  <2>1. Message("unready", n, 0) \in Messages
    BY MessageIs DEF Reports
  <2>2. msgs' \in Seq(Messages)
    BY <1>8, <2>1, PostDoes DEF FetchFails
  <2> QED BY <1>8, <2>2 DEF FetchFails
<1>9. ASSUME NEW n \in posting, PostPicture(n) PROVE AudioShape'
  <2>1. Message("ready", n, n) \in Messages
    BY MessageIs DEF Reports
  <2>2. Append(msgs, Message("ready", n, n)) \in Seq(Messages)
    BY ONLY <1>h, <2>1, AppendFacts
  <2> QED BY <1>9, <2>2 DEF PostPicture
<1>10. CASE Handles
  BY <1>10, HandlesKeepsShape
<1>11. CASE HelperUp \/ HelperExits \/ AfterExit \/ Backoff \/ BeginStop
  <2>1. Event("stop") \in Messages
    BY MessageIs DEF Event, SenderEvents
  <2>2. CASE AfterExit
    <3>1. msgs' \in Seq(Messages)
      BY <2>1, <2>2, PostDoes DEF AfterExit
    <3> QED BY <2>2, <3>1 DEF AfterExit
  <2> QED BY <1>11, <2>2 DEF HelperUp, HelperExits, Backoff, BeginStop
<1>12. CASE HelperWrites
  <2>1. relay' \in Relays
    <3> DEFINE k == relay.level + 1
    <3>1. k \in Nat
      BY ONLY <1>h DEF Relays
    <3>2. relay' = [relay EXCEPT !.level = k] \/ relay' = [relay EXCEPT !.waiting = TRUE]
      BY <1>12 DEF HelperWrites
    <3> HIDE DEF k
    <3> QED BY ONLY <1>h, <3>1, <3>2 DEF Relays
  <2> QED BY <1>12, <2>1 DEF HelperWrites
<1>13. CASE ReaderTakes
  <2>1. relay' \in Relays
    <3> DEFINE k == relay.level - 1
    <3>1. k \in Nat
      BY ONLY <1>h, <1>13 DEF Relays, ReaderTakes
    <3>2. relay' = [relay EXCEPT !.level = k, !.waiting = FALSE]
      BY <1>13 DEF ReaderTakes
    <3> HIDE DEF k
    <3> QED BY ONLY <1>h, <3>1, <3>2 DEF Relays
  <2> QED BY <1>13, <2>1 DEF ReaderTakes
<1>14. CASE CloseSession
  <2>1. Event("close") \in Messages
    BY MessageIs DEF Event, Reports
  <2>2. Append(msgs, Event("close")) \in Seq(Messages)
    BY ONLY <1>h, <2>1, AppendFacts
  <2> QED BY <1>14, <2>2 DEF CloseSession
<1>15. CASE Reset
  <2>1. relay' \in Relays
    BY <1>h, <1>15, DrainedIs DEF Reset
  <2> QED BY <1>15, <2>1 DEF Reset
<1>16. CASE UNCHANGED audioVars
  BY <1>16
<1> QED BY <1>1, <1>2, <1>3, <1>4, <1>5, <1>6, <1>7, <1>8, <1>9, <1>10, <1>11, <1>12, <1>13, <1>14,
           <1>15, <1>16 DEF AudioNext, Posts

-----------------------------------------------------------------------------
(* What becomes of the messages that tell of an end. *)
Kept    == {"stopped", "close"}
Arrived == \A i \in DOMAIN msgs' : msgs'[i].kind \in Kept => \E j \in DOMAIN msgs : msgs'[i] = msgs[j]
Remains(r) ==
    \A j \in DOMAIN msgs : IsStopped(msgs[j], r) => \E i \in DOMAIN msgs' : msgs'[i] = msgs[j]

LEMMA SameKept ==
  ASSUME AudioShape, msgs' = msgs
  PROVE  Arrived /\ \A r \in Nat : Remains(r)
BY DEF Arrived, Remains

LEMMA AppendKept ==
  ASSUME AudioShape, NEW m \in Messages, m.kind \notin Kept, msgs' = Append(msgs, m)
  PROVE  Arrived /\ \A r \in Nat : Remains(r)
<1>1. msgs \in Seq(Messages)
  BY DEF AudioShape
<1> DEFINE q == Append(msgs, m)
<1>2. /\ DOMAIN q = 1..(Len(msgs) + 1) /\ DOMAIN msgs = 1..Len(msgs) /\ Len(msgs) \in Nat
      /\ \A i \in DOMAIN q : IF i = Len(msgs) + 1 THEN q[i] = m ELSE i \in DOMAIN msgs /\ q[i] = msgs[i]
  BY <1>1, AppendFacts
<1>3. msgs' = q
  OBVIOUS
<1> HIDE DEF q
<1>4. Arrived
  BY <1>2, <1>3 DEF Arrived
<1>5. \A j \in DOMAIN msgs : j \in DOMAIN q /\ q[j] = msgs[j]
  BY <1>2
<1>6. \A r \in Nat : Remains(r)
  BY <1>3, <1>5 DEF Remains
<1> QED BY <1>4, <1>6

LEMMA TailKept ==
  ASSUME AudioShape, msgs # <<>>, msgs' = Tail(msgs)
  PROVE  Arrived /\ \A r \in Nat : ~IsStopped(Head(msgs), r) => Remains(r)
<1>1. msgs \in Seq(Messages)
  BY DEF AudioShape
<1> DEFINE q == Tail(msgs)
<1>2. /\ DOMAIN q = 1..(Len(msgs) - 1) /\ DOMAIN msgs = 1..Len(msgs) /\ Len(msgs) \in Nat \ {0}
      /\ \A i \in DOMAIN q : i + 1 \in DOMAIN msgs /\ q[i] = msgs[i + 1]
      /\ Head(msgs) = msgs[1]
  BY <1>1, TailFacts
<1>3. msgs' = q
  OBVIOUS
<1> HIDE DEF q
<1>4. Arrived
  BY <1>2, <1>3 DEF Arrived
<1>5. \A j \in DOMAIN msgs : j # 1 => j - 1 \in DOMAIN q /\ q[j - 1] = msgs[j]
  <2> TAKE j \in DOMAIN msgs
  <2> HAVE j # 1
  <2>1. j \in Nat /\ j - 1 \in DOMAIN q /\ (j - 1) + 1 = j
    BY <1>2
  <2> QED BY <1>2, <2>1
<1>6. \A r \in Nat : ~IsStopped(Head(msgs), r) => Remains(r)
  BY <1>2, <1>3, <1>5 DEF Remains
<1> QED BY <1>4, <1>6

LEMMA PutKept ==
  ASSUME AudioShape, msgs # <<>>, NEW m \in Messages, m.kind \notin Kept, Head(msgs).kind \notin Kept,
         msgs' = <<m>> \o Tail(msgs)
  PROVE  Arrived /\ \A r \in Nat : Remains(r)
<1>1. msgs \in Seq(Messages)
  BY DEF AudioShape
<1>2. Head(msgs) = msgs[1]
  BY <1>1, TailFacts
<1>3. DOMAIN msgs' = DOMAIN msgs /\ \A i \in DOMAIN msgs : msgs'[i] = IF i = 1 THEN m ELSE msgs[i]
  BY <1>1, PutFacts
<1>4. Arrived
  BY <1>3 DEF Arrived
<1>5. \A r \in Nat : Remains(r)
  BY <1>2, <1>3 DEF Remains, IsStopped, Kept
<1> QED BY <1>4, <1>5

-----------------------------------------------------------------------------
LEMMA SessionRests ==
  ASSUME AudioShape, SessionInv, Arrived, Remains(s.ref), SameSession(s'), s'.artwork = s.artwork \/ ~over,
         UNCHANGED <<core, told, starts, over, closed>>,
         relay'.discard = relay.discard \/ receiver # "down",
         receiver' = receiver \/ (receiver = "up" /\ receiver' = "stopping")
  PROVE  SessionInv'
<1>1. /\ s'.ref = s.ref /\ s'.gen = s.gen /\ s'.pipeArt = s.pipeArt /\ (s'.state = "idle" <=> s.state = "idle")
  BY DEF SameSession
<1>2. \A i \in DOMAIN msgs' : msgs'[i].kind = "stopped" =>
          /\ msgs'[i].n \in 1..starts /\ msgs'[i].of = 0
          /\ core # None => msgs'[i].n # s.ref
  BY DEF Arrived, Kept, SessionInv
<1>3. \A i \in DOMAIN msgs' : msgs'[i].kind = "close" => closed
  BY DEF Arrived, Kept, SessionInv
<1>4. Queued(s.ref) => Queued(s.ref)'
  BY <1>1 DEF Remains, Queued
<1>5. closed' <=> receiver' \in {"closing", "down"}
  BY DEF SessionInv
<1>6. receiver' = "down" => over' /\ relay'.discard
  BY DEF SessionInv
<1> QED BY <1>1, <1>2, <1>3, <1>4, <1>5, <1>6 DEF SessionInv

LEMMA SessionIdles ==
  ASSUME AudioShape, SessionInv, Arrived, ~over, s'.state = "idle", s'.ref = 0, s'.pipeArt = 0,
         over' => closed /\ s'.artwork = 0,
         core' = None, starts' \in {starts, starts + 1}, told' \subseteq told \cup 1..starts',
         UNCHANGED <<closed, receiver>>
  PROVE  SessionInv'
<1>0. starts \in Nat
  BY DEF AudioShape
<1>1. 1..starts \subseteq 1..starts' /\ 0 <= starts'
  BY <1>0
<1>2. \A i \in DOMAIN msgs' : msgs'[i].kind = "stopped" => msgs'[i].n \in 1..starts' /\ msgs'[i].of = 0
  BY <1>1 DEF Arrived, Kept, SessionInv
<1>3. \A i \in DOMAIN msgs' : msgs'[i].kind = "close" => closed
  BY DEF Arrived, Kept, SessionInv
<1>4. \A r \in told' : r \in 1..starts'
  BY <1>1 DEF SessionInv
<1>5. receiver # "down" /\ (closed <=> receiver \in {"closing", "down"})
  BY DEF SessionInv
<1> QED BY <1>1, <1>2, <1>3, <1>4, <1>5 DEF SessionInv

LEMMA SessionPlays ==
  ASSUME AudioShape, SessionInv, Arrived, ~over, s'.state # "idle", s'.ref # 0, s'.ref <= starts',
         core' = <<s'.ref, s'.gen>>, starts' \in {starts, starts + 1}, told' = told,
         s'.ref = starts + 1 \/ (core # None /\ s'.ref = s.ref),
         UNCHANGED <<closed, over, receiver>>
  PROVE  SessionInv'
<1>0. starts \in Nat /\ s'.ref \in Int
  BY DEF AudioShape, Sessions
<1>1. 1..starts \subseteq 1..starts' /\ \A r \in 1..starts : r # starts + 1
  BY <1>0
<1>2. \A i \in DOMAIN msgs' : msgs'[i].kind = "stopped" =>
         msgs'[i].n \in 1..starts' /\ msgs'[i].of = 0 /\ msgs'[i].n # s'.ref
  BY <1>1 DEF Arrived, Kept, SessionInv
<1>3. \A i \in DOMAIN msgs' : msgs'[i].kind = "close" => closed
  BY DEF Arrived, Kept, SessionInv
<1>4. \A r \in told' : r \in 1..starts' /\ r # s'.ref
  BY <1>1 DEF SessionInv
<1>5. receiver # "down" /\ (closed <=> receiver \in {"closing", "down"})
  BY DEF SessionInv
<1>6. core' # None
  BY DEF None
<1> QED BY <1>1, <1>2, <1>3, <1>4, <1>5, <1>6 DEF SessionInv

LEMMA TakesKeep ==
  ASSUME AudioShape, SessionInv, NEW kinds, Take(kinds)
  PROVE  /\ Arrived /\ ~over /\ receiver # "down"
         /\ closed' = closed /\ receiver' = receiver
         /\ Head(msgs).kind # "stopped" => Remains(s.ref)
         /\ Head(msgs).kind = "stopped" /\ Head(msgs).n # s.ref => Remains(s.ref)
<1>1. Take(kinds) => msgs # <<>> /\ msgs' = Tail(msgs) /\ ~over /\ closed' = closed /\ receiver' = receiver
  BY DEF Take
<1>2. s.ref \in Nat
  BY DEF AudioShape, Sessions
<1>3. Arrived /\ (~IsStopped(Head(msgs), s.ref) => Remains(s.ref))
  BY <1>1, <1>2, TailKept
<1>4. receiver # "down"
  BY <1>1 DEF SessionInv
<1> QED BY <1>1, <1>3, <1>4 DEF IsStopped

LEMMA HandlesKeepsSession ==
  ASSUME AudioShape, SessionInv, PictureInv, Handles
  PROVE  SessionInv'
<1>0. /\ starts \in Nat /\ gens \in Nat /\ s \in Sessions /\ s.ref \in Nat
      /\ s.ref <= starts /\ (s.ref # 0 => s.ref \in 1..starts)
  BY DEF AudioShape, Sessions, SessionInv
<1>s. SameSession(s)
  BY <1>0 DEF SameSession
<1>e. ASSUME NEW t, SameSession(t), NEW drop, End(t, drop), Arrived, ~over, UNCHANGED <<starts, closed, over, receiver>>
      PROVE  SessionInv'
  BY <1>0, <1>e, EndDoes, SessionIdles DEF Idled
<1>2. CASE Play /\ over' = over
  <2>1. Arrived /\ ~over /\ closed' = closed /\ receiver' = receiver
    BY <1>2, PlayDoes, TakesKeep
  <2>2. CASE Started
    <3> DEFINE r == starts + 1
    <3>1. starts' = r
          /\ \/ s'.state = "live" /\ s'.ref = r /\ core' = <<r, gens + 1>> /\ s'.gen = gens + 1 /\ told' = told
             \/ s'.state = "idle" /\ s'.ref = 0 /\ s'.pipeArt = 0 /\ core' = None /\ told' = told \cup {r}
      BY <2>2, StartedDoes
    <3>2. r \in 1..r /\ r # 0 /\ r <= r
      BY <1>0
    <3>3. CASE s'.state = "live" /\ s'.ref = r /\ core' = <<r, gens + 1>> /\ s'.gen = gens + 1 /\ told' = told
      BY <1>2, <2>1, <3>1, <3>2, <3>3, SessionPlays
    <3>4. CASE s'.state = "idle" /\ s'.ref = 0 /\ s'.pipeArt = 0 /\ core' = None /\ told' = told \cup {r}
      BY <1>2, <2>1, <3>1, <3>2, <3>4, SessionIdles
    <3> QED BY <3>1, <3>3, <3>4
  <2>3. CASE StartFails
    <3>1. core = None
      BY <1>2, PlayDoes DEF SessionInv
    <3> QED BY <1>2, <2>1, <2>3, <3>1, StartFailsDoes, SessionIdles
  <2> QED BY <1>2, <2>2, <2>3, PlayDoes
<1>3. CASE Resume /\ over' = over
  <2>1. Head(msgs).kind # "stopped"
    BY <1>3, ResumeDoes, TakeDoes
  <2> QED BY <1>3, <2>1, ResumeDoes, TakesKeep, SessionRests
<1>5. CASE Pause /\ over' = over
  <2>1. Take({"pause"}) /\ starts' = starts
    BY <1>5, PauseDoes
  <2>2. Head(msgs).kind # "stopped"
    BY <2>1, TakeDoes
  <2>3. CASE SameSession(s') /\ s'.artwork = s.artwork /\ UNCHANGED <<core, told, relay>>
    BY <1>5, <2>1, <2>2, <2>3, TakesKeep, SessionRests
  <2>4. CASE \E t \in Sessions : SameSession(t) /\ End(t, {})
    BY <1>5, <2>1, <2>4, <1>e, TakesKeep
  <2> QED BY <1>5, <2>3, <2>4, PauseDoes
<1>6. CASE Grace /\ over' = over
  <2>1. Take({"grace"}) /\ starts' = starts
    BY <1>6 DEF Grace
  <2>2. Head(msgs).kind # "stopped"
    BY <2>1, TakeDoes
  <2>3. CASE End(s, {})
    BY <1>6, <2>1, <2>3, <1>e, <1>s, TakesKeep
  <2>4. CASE UNCHANGED <<s, files, coreVars, relay>>
    BY <1>6, <1>s, <2>1, <2>2, <2>4, TakesKeep, SessionRests DEF coreVars, SameSession
  <2> QED BY <1>6, <2>3, <2>4 DEF Grace
<1>7. CASE CoreStopped /\ over' = over
  <2>1. Take({"stopped"}) /\ UNCHANGED <<starts, core, told>>
    BY <1>7 DEF CoreStopped, coreVars
  <2>2. Head(msgs).kind = "stopped" /\ Head(msgs).n \in 1..starts /\ (core # None => Head(msgs).n # s.ref)
    <3>1. msgs # <<>> /\ msgs \in Seq(Messages) /\ Head(msgs).kind = "stopped"
      BY <2>1, TakeDoes DEF AudioShape
    <3>2. 1 \in DOMAIN msgs /\ Head(msgs) = msgs[1]
      BY <3>1, TailFacts
    <3> QED BY <3>1, <3>2 DEF SessionInv
  <2>3. CASE OurStop(Head(msgs))
    <3>1. core = None /\ ExternalStop(s, {})
      BY <1>7, <2>2, <2>3 DEF OurStop, CoreStopped
    <3> QED BY <1>0, <1>7, <2>1, <3>1, ExternalStopDoes, TakesKeep, SessionIdles DEF Idled
  <2>4. CASE ~OurStop(Head(msgs))
    <3>1. Head(msgs).n # s.ref
      BY <1>0, <2>2, <2>4 DEF OurStop, SessionInv
    <3>2. UNCHANGED <<s, relay>>
      BY <1>7, <2>4 DEF CoreStopped
    <3> QED BY <1>7, <1>s, <2>1, <2>2, <3>1, <3>2, TakesKeep, SessionRests DEF SameSession
  <2> QED BY <2>3, <2>4
<1>8. CASE Stop /\ over' = over
  <2>1. Take({"stop"}) /\ starts' = starts /\ End(Dropped(s), {s.artwork})
    BY <1>8 DEF Stop
  <2> QED BY <1>0, <1>8, <2>1, StopDoes, TakesKeep, SessionIdles
<1>9. CASE Picture /\ over' = over
  <2>1. PICK m \in Messages : m.kind \notin Kept /\ msgs' = <<m>> \o Tail(msgs)
    BY <1>9, PictureDoes DEF Kept
  <2>2. Head(msgs).kind \notin Kept /\ msgs # <<>> /\ ~over
    BY <1>9, PictureDoes DEF Kept
  <2>3. Arrived /\ Remains(s.ref)
    BY <1>0, <2>1, <2>2, PutKept
  <2> QED BY <1>9, <2>2, <2>3, PictureDoes, SessionRests
<1>10. CASE Fetch /\ over' = over
  <2>1. Head(msgs).kind # "stopped"
    BY <1>10, FetchDoes, TakeDoes
  <2> QED BY <1>10, <2>1, FetchDoes, TakesKeep, SessionRests
<1>11. CASE Pictured /\ over' = over
  <2>1. Take({"ready", "unready"}) /\ UNCHANGED <<starts, pauses, fetching>>
    BY <1>11 DEF Pictured
  <2>2. Head(msgs).kind # "stopped" /\ Head(msgs) \in Messages
    BY <2>1, TakeDoes
  <2>3. Arrived /\ ~over /\ Remains(s.ref) /\ closed' = closed /\ receiver' = receiver /\ receiver # "down"
    BY <2>1, <2>2, TakesKeep
  <2> DEFINE p == Head(msgs).of
  <2>4. CASE Head(msgs).kind = "ready" /\ Newest(Head(msgs).n)
    <3>1. Apply(s, p) /\ p \in Nat
      BY <1>11, <2>2, <2>4 DEF Pictured, Messages
    <3> HIDE DEF p
    <3>2. Shown(p) /\ (AsItWas \/ Anew(p) \/ GoneNow(p))
      BY <3>1, ApplyDoes
    <3>3. CASE AsItWas
      <4>1. SameSession(s') /\ UNCHANGED <<core, told>>
        BY <3>2, <3>3 DEF AsItWas, SameSession, Shown
      <4> QED BY <1>11, <2>1, <2>3, <4>1, SessionRests
    <3>4. CASE Anew(p)
      <4>1. s'.state # "idle" /\ s'.ref = s.ref /\ core' = <<s'.ref, s'.gen>> /\ told' = told
        BY <3>4 DEF Anew
      <4>2. s.ref # 0 /\ core # None
        <5>1. s.ref # 0
          BY <3>4 DEF Anew, SessionInv
        <5> QED BY <5>1, <3>4 DEF Anew, None
      <4> QED BY <1>0, <1>11, <2>1, <2>3, <4>1, <4>2, SessionPlays
    <3>5. CASE GoneNow(p)
      <4>1. s'.state = "idle" /\ s'.ref = 0 /\ s'.pipeArt = 0 /\ core' = None /\ told' \subseteq told \cup {s.ref} /\ s.ref # 0
        BY <3>5 DEF GoneNow, SessionInv
      <4> QED BY <1>0, <1>11, <2>1, <2>3, <4>1, SessionIdles
    <3> QED BY <3>2, <3>3, <3>4, <3>5
  <2>5. CASE ~(Head(msgs).kind = "ready" /\ Newest(Head(msgs).n))
    <3>1. UNCHANGED <<s, core, told, relay>>
      BY <1>11, <2>5 DEF Pictured, Keeps, coreVars
    <3> QED BY <1>s, <1>11, <2>1, <2>3, <3>1, SessionRests DEF SameSession
  <2> QED BY <2>4, <2>5
<1>12. CASE CloseRequest
  <2>1. /\ ~over /\ msgs # <<>> /\ Head(msgs).kind = "close" /\ msgs' = Tail(msgs)
        /\ over' = TRUE /\ UNCHANGED <<starts, closed, receiver>> /\ End(Dropped(s), {s.artwork})
    BY <1>12 DEF CloseRequest
  <2>2. closed
    <3>1. msgs \in Seq(Messages)
      BY DEF AudioShape
    <3>2. 1 \in DOMAIN msgs /\ Head(msgs) = msgs[1]
      BY <2>1, <3>1, TailFacts
    <3> QED BY <2>1, <3>2 DEF SessionInv
  <2>3. Arrived
    BY <2>1, TailKept
  <2> QED BY <1>0, <2>1, <2>2, <2>3, StopDoes, SessionIdles
<1> QED BY <1>2, <1>3, <1>5, <1>6, <1>7, <1>8, <1>9, <1>10, <1>11, <1>12 DEF Handles

LEMMA PostKept ==
  ASSUME AudioShape, NEW m \in Messages, m.kind \notin Kept, Post(m)
  PROVE  Arrived /\ \A r \in Nat : Remains(r)
<1>1. CASE msgs' = msgs
  BY <1>1, SameKept
<1>2. CASE msgs' = Append(msgs, m)
  BY <1>2, AppendKept
<1> QED BY <1>1, <1>2, PostDoes

LEMMA KeepsSession ==
  ASSUME AudioShape, SessionInv, PictureInv, [AudioNext]_audioVars
  PROVE  SessionInv'
<1>0. /\ s \in Sessions /\ s.ref \in Nat /\ starts \in Nat /\ SameSession(s) /\ msgs \in Seq(Messages)
      /\ told \subseteq Nat /\ relay \in Relays
  BY DEF AudioShape, Sessions, SameSession
<1>k. /\ {"play", "pause", "stop", "inline", "url", "clear", "bad", "ready", "unready", "grace"} \cap Kept = {}
      /\ {"stopped", "grace", "unready", "ready", "close"} \subseteq SenderEvents \cup Reports
      /\ SenderEvents \subseteq SenderEvents \cup Reports /\ 0 \in Nat
  BY DEF Kept, Reports
(* Steps that only carry messages. *)
<1>r. ASSUME Arrived, Remains(s.ref), UNCHANGED <<s, core, told, starts, over, closed, receiver>>,
             relay'.discard = relay.discard
      PROVE  SessionInv'
  BY <1>0, <1>r, SessionRests DEF SameSession
<1>m. ASSUME msgs' = msgs, UNCHANGED <<s, core, told, starts, over, closed, receiver>>,
             relay'.discard = relay.discard
      PROVE  SessionInv'
  BY <1>0, <1>m, <1>r, SameKept
<1>1. ASSUME NEW kind \in SenderEvents, SenderActs(kind) PROVE SessionInv'
  BY <1>1, <1>m DEF SenderActs, sessionVars, coreVars
<1>2. CASE SessionEnds
  <2>1. /\ core # None /\ core' = None /\ told' = told \cup {s.ref} /\ s.ref # 0
        /\ UNCHANGED <<s, starts, msgs, closed, over, relay, receiver>>
    BY <1>2 DEF SessionEnds, SessionInv, sessionVars
  <2>2. s.ref \in 1..starts
    BY <1>0, <2>1 DEF SessionInv
  <2>3. \A r \in told' : r \in 1..starts
    BY <2>1, <2>2 DEF SessionInv
  <2> QED BY <2>1, <2>3 DEF SessionInv
<1>3. CASE GraceFires
  <2>1. s' = [s EXCEPT !.timer = 0]
    BY <1>3 DEF GraceFires
  <2>2. s' \in Sessions /\ s'.state = s.state
    BY <1>0, <2>1 DEF Sessions
  <2>3. s'.ref = s.ref /\ s'.gen = s.gen /\ s'.pipeArt = s.pipeArt /\ s'.artwork = s.artwork
    BY <1>0, <2>1 DEF Sessions
  <2>4. SameSession(s')
    BY <2>2, <2>3 DEF SameSession
  <2>5. msgs' = msgs /\ UNCHANGED <<core, told, starts, over, closed, relay, receiver>>
    BY <1>3 DEF GraceFires, coreVars
  <2> QED BY <1>0, <2>3, <2>4, <2>5, SameKept, SessionRests
<1>4. CASE Deliver
  <2>1. Head(wire) \in SenderEvents /\ wire # <<>>
    BY <1>4 DEF Deliver, AudioShape
  <2>2. Event(Head(wire)) \in Messages /\ Event(Head(wire)).kind = Head(wire)
    BY <1>k, <2>1, MessageIs DEF Event
  <2>3. Head(wire) \notin Kept
    BY <1>k, <2>1 DEF SenderEvents
  <2>4. Arrived /\ Remains(s.ref)
    BY <1>0, <1>4, <2>2, <2>3, PostKept DEF Deliver
  <2> QED BY <1>4, <1>r, <2>4 DEF Deliver, sessionVars, coreVars
<1>5. ASSUME NEW ref \in told, TellStopped(ref) PROVE SessionInv'
  <2> DEFINE m == Message("stopped", ref, 0)
  <2>1. m \in Messages /\ m.kind = "stopped" /\ m.n = ref /\ m.of = 0
    BY <1>0, <1>k, MessageIs
  <2>2. told' = told \ {ref} /\ Post(m) /\ UNCHANGED <<s, starts, closed, over, core, relay, receiver>>
    BY <1>5 DEF TellStopped, sessionVars
  <2> HIDE DEF m
  <2>3. ref \in 1..starts /\ (core # None => ref # s.ref)
    BY DEF SessionInv
  <2>4. CASE closed /\ msgs' = msgs
    BY <2>2, <2>4 DEF SessionInv, Queued
  <2>5. CASE msgs' = Append(msgs, m)
    <3> DEFINE q == Append(msgs, m)
    <3>1. /\ DOMAIN q = 1..(Len(msgs) + 1) /\ DOMAIN msgs = 1..Len(msgs) /\ Len(msgs) \in Nat
          /\ \A i \in DOMAIN q : IF i = Len(msgs) + 1 THEN q[i] = m ELSE i \in DOMAIN msgs /\ q[i] = msgs[i]
      BY <1>0, <2>1, AppendFacts
    <3>2. msgs' = q
      BY <2>5
    <3> HIDE DEF q
    <3>3. \A i \in DOMAIN q : q[i] = m \/ (\E j \in DOMAIN msgs : q[i] = msgs[j])
      BY <3>1
    <3>4. \A i \in DOMAIN q : q[i].kind = "stopped" =>
             q[i].n \in 1..starts /\ q[i].of = 0 /\ (core # None => q[i].n # s.ref)
      BY <2>1, <2>3, <3>3 DEF SessionInv
    <3>5. \A i \in DOMAIN q : q[i].kind = "close" => closed
      BY <2>1, <3>3 DEF SessionInv
    <3>6. \A j \in DOMAIN msgs : j \in DOMAIN q /\ q[j] = msgs[j]
      BY <3>1
    <3>7. Len(msgs) + 1 \in DOMAIN q /\ q[Len(msgs) + 1] = m
      BY <3>1
    <3>8. s.ref \in told \/ Queued(s.ref) => s.ref \in told' \/ Queued(s.ref)'
      <4>1. Queued(s.ref) => Queued(s.ref)'
        BY <2>2, <3>2, <3>6 DEF Queued
      <4>2. s.ref = ref => Queued(s.ref)'
        BY <2>1, <2>2, <3>2, <3>7 DEF Queued, IsStopped
      <4> QED BY <2>2, <4>1, <4>2
    <3> QED BY <2>2, <3>2, <3>4, <3>5, <3>8 DEF SessionInv
  <2> QED BY <2>1, <2>2, <2>4, <2>5, PostDoes
<1>6. ASSUME NEW t \in fired, TellGrace(t) PROVE SessionInv'
  <2>1. t[1] \in Nat /\ t[2] \in Nat
    BY DEF AudioShape
  <2>2. Message("grace", t[1], t[2]) \in Messages /\ Message("grace", t[1], t[2]).kind = "grace"
    BY <1>k, <2>1, MessageIs
  <2>3. Arrived /\ Remains(s.ref)
    BY <1>0, <1>6, <1>k, <2>2, PostKept DEF TellGrace
  <2> QED BY <1>6, <1>r, <2>3 DEF TellGrace, sessionVars, coreVars
<1>7. ASSUME NEW n \in fetching, FetchArrives(n) PROVE SessionInv'
  BY <1>7, <1>m DEF FetchArrives, coreVars
<1>8. ASSUME NEW n \in fetching, FetchFails(n) PROVE SessionInv'
  <2>1. n \in Nat
    BY DEF AudioShape
  <2>2. Message("unready", n, 0) \in Messages /\ Message("unready", n, 0).kind = "unready"
    BY <1>k, <2>1, MessageIs
  <2>3. Arrived /\ Remains(s.ref)
    BY <1>0, <1>8, <1>k, <2>2, PostKept DEF FetchFails
  <2> QED BY <1>8, <1>r, <2>3 DEF FetchFails, sessionVars, coreVars
<1>9. ASSUME NEW n \in posting, PostPicture(n) PROVE SessionInv'
  <2>1. n \in Nat
    BY DEF AudioShape
  <2>2. Message("ready", n, n) \in Messages /\ Message("ready", n, n).kind = "ready"
    BY <1>k, <2>1, MessageIs
  <2>3. Arrived /\ Remains(s.ref)
    BY <1>0, <1>9, <1>k, <2>2, AppendKept, SameKept DEF PostPicture
  <2> QED BY <1>9, <1>r, <2>3 DEF PostPicture, coreVars
<1>10. CASE Handles
  BY <1>10, HandlesKeepsSession
<1>11. CASE HelperUp \/ HelperExits \/ Backoff
  BY <1>11, <1>m DEF HelperUp, HelperExits, Backoff, sessionVars, coreVars
<1>12. CASE AfterExit
  <2>1. Event("stop") \in Messages /\ Event("stop").kind = "stop"
    BY <1>k, MessageIs DEF Event, SenderEvents
  <2>2. Arrived /\ Remains(s.ref)
    BY <1>0, <1>12, <1>k, <2>1, PostKept DEF AfterExit
  <2> QED BY <1>12, <1>r, <2>2 DEF AfterExit, sessionVars, coreVars
<1>13. CASE HelperWrites \/ ReaderTakes
  <2> DEFINE up   == relay.level + 1
             down == relay.level - 1
  <2>1. \/ relay' = [relay EXCEPT !.level = up]
        \/ relay' = [relay EXCEPT !.waiting = TRUE]
        \/ relay' = [relay EXCEPT !.level = down, !.waiting = FALSE]
    BY <1>13 DEF HelperWrites, ReaderTakes
  <2> HIDE DEF up, down
  <2>2. relay'.discard = relay.discard
    BY <1>0, <2>1 DEF Relays
  <2>3. msgs' = msgs /\ UNCHANGED <<s, core, told, starts, over, closed, receiver>>
    BY <1>13 DEF HelperWrites, ReaderTakes, sessionVars, coreVars
  <2> QED BY <1>m, <2>2, <2>3
<1>14. CASE BeginStop
  <2>1. msgs' = msgs /\ UNCHANGED <<s, core, told, starts, over, closed, relay>> /\ receiver = "up" /\ receiver' = "stopping"
    BY <1>14 DEF BeginStop, sessionVars, coreVars
  <2> QED BY <1>0, <2>1, SameKept, SessionRests DEF SameSession
<1>15. CASE CloseSession
  <2> DEFINE m == Event("close")
             q == Append(msgs, m)
  <2>1. /\ msgs' = q /\ closed' = TRUE /\ receiver' = "closing"
        /\ UNCHANGED <<s, core, told, starts, over, relay>>
    BY <1>15 DEF CloseSession, sessionVars, coreVars
  <2>2. m \in Messages /\ m.kind = "close"
    BY <1>k, MessageIs DEF Event
  <2> HIDE DEF m
  <2>3. /\ DOMAIN msgs = 1..Len(msgs) /\ Len(msgs) \in Nat
        /\ \A i \in DOMAIN q : IF i = Len(msgs) + 1 THEN q[i] = m ELSE i \in DOMAIN msgs /\ q[i] = msgs[i]
    BY <1>0, <2>2, AppendFacts
  <2> HIDE DEF q
  <2>4. \A i \in DOMAIN q : q[i].kind = "stopped" =>
          q[i].n \in 1..starts /\ q[i].of = 0 /\ (core # None => q[i].n # s.ref)
    BY <2>2, <2>3 DEF SessionInv
  <2> QED BY <2>1, <2>4 DEF SessionInv
<1>16. CASE Reset
  <2>1. /\ receiver = "closing" /\ over /\ receiver' = "down" /\ relay'.discard = TRUE
        /\ UNCHANGED <<msgs, s, core, told, starts, closed, over>>
    BY <1>0, <1>16, DrainedIs DEF Reset, sessionVars, coreVars
  <2> QED BY <2>1 DEF SessionInv, Queued
<1>17. CASE UNCHANGED audioVars
  BY <1>17, <1>m DEF audioVars, sessionVars, coreVars
<1> QED BY <1>1, <1>2, <1>3, <1>4, <1>5, <1>6, <1>7, <1>8, <1>9, <1>10, <1>11, <1>12, <1>13, <1>14,
           <1>15, <1>16, <1>17 DEF AudioNext, Posts

-----------------------------------------------------------------------------
(* The pictures that are left on disk and not in use: all but those of g. *)
Leaves(g) ==
    /\ s'.artwork <= s'.artSeq /\ s'.pipeArt <= s'.artSeq
    /\ InUse' \subseteq files' /\ files' \subseteq files
    /\ \A n \in Nat : n \in files' /\ n \notin InUse' <=> n \in files /\ n \notin InUse /\ n \notin g

SamePictures ==
    /\ \A i \in DOMAIN msgs' : IsPicture(msgs'[i]) => i \in DOMAIN msgs /\ msgs'[i] = msgs[i]
    /\ \A i \in DOMAIN msgs : IsPicture(msgs[i]) => i \in DOMAIN msgs' /\ msgs'[i] = msgs[i]
    /\ \A i \in DOMAIN msgs' : msgs'[i].kind = "unready" => msgs'[i].of = 0

LEMMA NoNewPicture ==
  ASSUME AudioShape, PictureInv, NEW m \in Messages, ~IsPicture(m), m.kind = "unready" => m.of = 0,
         msgs' = msgs \/ msgs' = Append(msgs, m)
  PROVE  SamePictures
<1>1. CASE msgs' = msgs
  BY <1>1 DEF SamePictures, PictureInv
<1>2. CASE msgs' = Append(msgs, m)
  <2> DEFINE q == Append(msgs, m)
  <2>1. msgs \in Seq(Messages)
    BY DEF AudioShape
  <2>2. /\ DOMAIN q = 1..(Len(msgs) + 1) /\ DOMAIN msgs = 1..Len(msgs) /\ Len(msgs) \in Nat
        /\ \A i \in DOMAIN q : IF i = Len(msgs) + 1 THEN q[i] = m ELSE i \in DOMAIN msgs /\ q[i] = msgs[i]
    BY <2>1, AppendFacts
  <2>3. msgs' = q
    BY <1>2
  <2> HIDE DEF q
  <2>4. \A i \in DOMAIN msgs : i \in DOMAIN q /\ q[i] = msgs[i]
    BY <2>2
  <2> QED BY <2>2, <2>3, <2>4 DEF SamePictures, PictureInv
<1> QED BY <1>1, <1>2

LEMMA PicturesStay ==
  ASSUME AudioShape, AudioShape', PictureInv, SamePictures, Leaves({}), s'.artSeq = s.artSeq,
         fetching' \subseteq fetching, posting' = posting
  PROVE  PictureInv'
<1>0. /\ posting \subseteq Nat /\ fetching \subseteq Nat /\ files' \subseteq files /\ s'.artSeq = s.artSeq
      /\ \A n \in Nat : n \in files' \ InUse' <=> n \in files \ InUse
      /\ files' \subseteq Nat
  BY DEF AudioShape, Leaves
<1>1. \A n \in fetching' : n \in 1..s.artSeq /\ n \notin files' /\ n \notin posting'
  BY <1>0 DEF PictureInv
<1>2. \A n \in posting' : n \in 1..s.artSeq /\ n \in files' \ InUse'
  BY <1>0 DEF PictureInv
<1>3. \A i \in DOMAIN msgs' : IsPicture(msgs'[i]) =>
          /\ msgs'[i].n = msgs'[i].of /\ msgs'[i].n \in 1..s.artSeq
          /\ msgs'[i].n \in files' \ InUse' /\ msgs'[i].n \notin posting'
  BY <1>0 DEF PictureInv, SamePictures
<1>4. \A i, j \in DOMAIN msgs' : i # j /\ IsPicture(msgs'[i]) /\ IsPicture(msgs'[j]) => msgs'[i].n # msgs'[j].n
  BY DEF PictureInv, SamePictures
<1>5. \A n \in files' \ InUse' : n \in posting' \/ \E i \in DOMAIN msgs' : IsPicture(msgs'[i]) /\ msgs'[i].n = n
  <2> TAKE n \in files' \ InUse'
  <2>1. n \in files \ InUse
    BY <1>0
  <2> QED BY <2>1 DEF PictureInv, SamePictures
<1> QED BY <1>0, <1>1, <1>2, <1>3, <1>4, <1>5 DEF PictureInv, SamePictures, Leaves

LEMMA HeadPicture ==
  ASSUME AudioShape, PictureInv, msgs # <<>>
  PROVE  /\ Head(msgs) \in Messages /\ Head(msgs) = msgs[1] /\ 1 \in DOMAIN msgs
         /\ Head(msgs).kind = "unready" => Head(msgs).of = 0
         /\ IsPicture(Head(msgs)) =>
              /\ Head(msgs).n = Head(msgs).of /\ Head(msgs).n \in 1..s.artSeq
              /\ Head(msgs).n \in files \ InUse /\ Head(msgs).n \notin posting
         /\ Gone(Head(msgs)) \subseteq Nat
<1>1. msgs \in Seq(Messages)
  BY DEF AudioShape
<1>2. Head(msgs) \in Messages /\ Head(msgs) = msgs[1] /\ 1 \in DOMAIN msgs
  BY <1>1, TailFacts
<1>3. Gone(Head(msgs)) \subseteq Nat
  BY <1>2 DEF Gone, Messages
<1> QED BY <1>2, <1>3 DEF PictureInv

LEMMA PicturesTaken ==
  ASSUME AudioShape, AudioShape', PictureInv, msgs # <<>>, msgs' = Tail(msgs), Leaves(Gone(Head(msgs))),
         s'.artSeq \in {s.artSeq, s.artSeq + 1},
         \A n \in fetching' : n \in fetching \/ (n = s.artSeq + 1 /\ s'.artSeq = s.artSeq + 1),
         posting' = posting
  PROVE  PictureInv'
<1> DEFINE g == Gone(Head(msgs))
           top == s'.artSeq
<1>0. /\ posting \subseteq Nat /\ files' \subseteq files
      /\ \A n \in Nat : n \in files' \ InUse' <=> n \in files \ InUse /\ n \notin g
      /\ files' \subseteq Nat /\ s.artSeq \in Nat
  BY DEF AudioShape, Leaves, Sessions
<1>a. \A n \in 1..s.artSeq : n \in 1..top /\ n # s.artSeq + 1
  BY <1>0
<1>b. s.artSeq + 1 \in 1..(s.artSeq + 1)
  BY <1>0
<1>c. \A n \in files : n \in 1..s.artSeq
  BY NoPictureZero
<1>q. /\ \A i \in DOMAIN msgs' : i + 1 \in DOMAIN msgs /\ msgs'[i] = msgs[i + 1] /\ i \in Nat /\ i + 1 # 1
      /\ \A i \in DOMAIN msgs : i # 1 => i - 1 \in DOMAIN msgs' /\ msgs'[i - 1] = msgs[i]
      /\ 1 \in DOMAIN msgs /\ Head(msgs) = msgs[1]
  <2> DEFINE q == Tail(msgs)
  <2>1. msgs \in Seq(Messages)
    BY DEF AudioShape
  <2>2. /\ DOMAIN q = 1..(Len(msgs) - 1) /\ DOMAIN msgs = 1..Len(msgs) /\ Len(msgs) \in Nat \ {0}
        /\ \A i \in DOMAIN q : i + 1 \in DOMAIN msgs /\ q[i] = msgs[i + 1]
        /\ 1 \in DOMAIN msgs /\ Head(msgs) = msgs[1]
    BY <2>1, TailFacts
  <2>3. msgs' = q
    OBVIOUS
  <2> HIDE DEF q
  <2>4. \A i \in DOMAIN q : i \in Nat /\ i + 1 # 1
    BY <2>2
  <2>5. \A i \in DOMAIN msgs : i # 1 => i - 1 \in DOMAIN q /\ (i - 1) + 1 = i
    BY <2>2
  <2>6. \A i \in DOMAIN msgs : i # 1 => q[i - 1] = msgs[i]
    <3> TAKE i \in DOMAIN msgs
    <3> HAVE i # 1
    <3> QED BY <2>2, <2>5
  <2> QED BY <2>2, <2>3, <2>4, <2>5, <2>6
<1> HIDE DEF g, top
<1>1. \A n \in fetching' : n \in 1..top /\ n \notin files' /\ n \notin posting'
  <2> TAKE n \in fetching'
  <2>1. CASE n \in fetching
    BY <1>0, <1>a, <2>1 DEF PictureInv
  <2>2. CASE n = s.artSeq + 1 /\ s'.artSeq = s.artSeq + 1
    <3>1. n \in 1..top
      BY <1>b, <2>2 DEF top
    <3>2. n \notin 1..s.artSeq
      BY <1>a, <2>2
    <3>3. n \notin files' /\ n \notin posting
      BY <1>0, <1>c, <3>2 DEF PictureInv
    <3> QED BY <3>1, <3>3
  <2> QED BY <2>1, <2>2
<1>g. \A i \in DOMAIN msgs : IsPicture(msgs[i]) /\ i # 1 => msgs[i].n \notin g
  BY <1>q DEF PictureInv, g, Gone
<1>2. \A n \in posting' : n \in 1..top /\ n \in files' \ InUse'
  <2> TAKE n \in posting'
  <2>1. n \notin g
    BY HeadPicture DEF g, Gone
  <2> QED BY <1>0, <1>a, <2>1 DEF PictureInv
<1>3. \A i \in DOMAIN msgs' : IsPicture(msgs'[i]) =>
          /\ msgs'[i].n = msgs'[i].of /\ msgs'[i].n \in 1..top
          /\ msgs'[i].n \in files' \ InUse' /\ msgs'[i].n \notin posting'
  <2> TAKE i \in DOMAIN msgs'
  <2> HAVE IsPicture(msgs'[i])
  <2> DEFINE j == i + 1
  <2>1. j \in DOMAIN msgs /\ msgs'[i] = msgs[j] /\ j # 1
    BY <1>q
  <2> HIDE DEF j
  <2>2. /\ msgs[j].n = msgs[j].of /\ msgs[j].n \in 1..s.artSeq
        /\ msgs[j].n \in files \ InUse /\ msgs[j].n \notin posting
    BY <2>1 DEF PictureInv
  <2>3. msgs[j].n \notin g
    BY <1>g, <2>1
  <2>4. msgs[j].n \in Nat
    BY <2>2
  <2> QED BY <1>0, <1>a, <2>1, <2>2, <2>3, <2>4
<1>4. \A i, j \in DOMAIN msgs' : i # j /\ IsPicture(msgs'[i]) /\ IsPicture(msgs'[j]) => msgs'[i].n # msgs'[j].n
  <2> TAKE i, j \in DOMAIN msgs'
  <2> HAVE i # j /\ IsPicture(msgs'[i]) /\ IsPicture(msgs'[j])
  <2> DEFINE a == i + 1
             b == j + 1
  <2>1. a \in DOMAIN msgs /\ msgs'[i] = msgs[a] /\ b \in DOMAIN msgs /\ msgs'[j] = msgs[b] /\ a # b
    BY <1>q
  <2> HIDE DEF a, b
  <2> QED BY <2>1 DEF PictureInv
<1>5. \A n \in files' \ InUse' : n \in posting' \/ \E i \in DOMAIN msgs' : IsPicture(msgs'[i]) /\ msgs'[i].n = n
  <2> TAKE n \in files' \ InUse'
  <2>1. n \in files \ InUse /\ n \notin g
    BY <1>0
  <2>2. CASE n \in posting
    BY <2>2
  <2>3. CASE n \notin posting
    <3>1. PICK i \in DOMAIN msgs : IsPicture(msgs[i]) /\ msgs[i].n = n
      BY <2>1, <2>3 DEF PictureInv
    <3>2. i # 1
      BY <1>q, <2>1, <3>1 DEF g, Gone
    <3> QED BY <1>q, <3>1, <3>2
  <2> QED BY <2>2, <2>3
<1>6. \A i \in DOMAIN msgs' : msgs'[i].kind = "unready" => msgs'[i].of = 0
  BY <1>q DEF PictureInv
<1> QED BY <1>1, <1>2, <1>3, <1>4, <1>5, <1>6 DEF PictureInv, Leaves, top

LEMMA PictureKeepsPictures ==
  ASSUME AudioShape, AudioShape', SessionInv, PictureInv, Picture
  PROVE  PictureInv'
<1> DEFINE k == s.artSeq + 1
<1>1. /\ msgs # <<>> /\ Head(msgs).kind \in {"inline", "clear", "bad"}
      /\ s'.artwork = s.artwork /\ s'.pipeArt = s.pipeArt /\ s'.artSeq = k
      /\ fetching' = fetching /\ posting' = posting
  BY PictureDoes DEF SameSession
<1>2. PICK m \in Messages :
              /\ m.n = k /\ msgs' = <<m>> \o Tail(msgs)
              /\ \/ m.kind = "ready" /\ m.of = m.n /\ files' = files \cup {m.n}
                 \/ m.kind \in {"ready", "unready"} /\ m.of = 0 /\ files' = files
  BY PictureDoes
<1>3. s.artSeq \in Nat /\ k \in Nat /\ k # 0 /\ k \notin 1..s.artSeq /\ 1..s.artSeq \subseteq 1..k /\ k \in 1..k
      /\ s.artwork \in Nat /\ s.pipeArt \in Nat /\ (s.artwork <= s.artSeq => s.artwork <= k)
      /\ (s.pipeArt <= s.artSeq => s.pipeArt <= k)
  <2>1. s.artSeq \in Nat /\ s.artwork \in Nat /\ s.pipeArt \in Nat
    BY DEF AudioShape, Sessions
  <2> QED BY <2>1
<1> HIDE DEF k
<1>4. k \notin files /\ k \notin InUse /\ k \notin posting /\ k \notin fetching
      /\ InUse' = InUse /\ InUse \subseteq files
  BY <1>1, <1>3, NoPictureZero DEF PictureInv, InUse
<1>5. /\ DOMAIN msgs' = DOMAIN msgs /\ 1 \in DOMAIN msgs
      /\ \A i \in DOMAIN msgs : msgs'[i] = IF i = 1 THEN m ELSE msgs[i]
      /\ ~IsPicture(msgs[1])
  <2>1. msgs \in Seq(Messages)
    BY DEF AudioShape
  <2>2. DOMAIN msgs' = DOMAIN msgs /\ \A i \in DOMAIN msgs : msgs'[i] = IF i = 1 THEN m ELSE msgs[i]
    BY <1>1, <1>2, <2>1, PutFacts
  <2>3. 1 \in DOMAIN msgs /\ Head(msgs) = msgs[1]
    BY <1>1, <2>1, TailFacts
  <2> QED BY <1>1, <2>2, <2>3 DEF IsPicture
<1>6. \/ IsPicture(m) /\ m.of = k /\ m.n = k /\ files' = files \cup {k}
      \/ ~IsPicture(m) /\ files' = files
  BY <1>2, <1>3 DEF IsPicture
<1>7. \A n \in fetching' : n \in 1..k /\ n \notin files' /\ n \notin posting'
  BY <1>1, <1>3, <1>4, <1>6 DEF PictureInv
<1>8. \A n \in posting' : n \in 1..k /\ n \in files' \ InUse'
  BY <1>1, <1>3, <1>4, <1>6 DEF PictureInv
<1>9. \A i \in DOMAIN msgs' : IsPicture(msgs'[i]) =>
          /\ msgs'[i].n = msgs'[i].of /\ msgs'[i].n \in 1..k
          /\ msgs'[i].n \in files' \ InUse' /\ msgs'[i].n \notin posting'
  <2> TAKE i \in DOMAIN msgs'
  <2> HAVE IsPicture(msgs'[i])
  <2>1. CASE i = 1
    BY <1>1, <1>3, <1>4, <1>5, <1>6, <2>1
  <2>2. CASE i # 1
    BY <1>1, <1>3, <1>4, <1>5, <1>6, <2>2 DEF PictureInv
  <2> QED BY <2>1, <2>2
<1>a. \A i \in DOMAIN msgs : IsPicture(msgs[i]) => msgs[i].n # k
  BY <1>3 DEF PictureInv
<1>10. \A i, j \in DOMAIN msgs' : i # j /\ IsPicture(msgs'[i]) /\ IsPicture(msgs'[j]) => msgs'[i].n # msgs'[j].n
  <2> TAKE i, j \in DOMAIN msgs'
  <2> HAVE i # j /\ IsPicture(msgs'[i]) /\ IsPicture(msgs'[j])
  <2>1. CASE i # 1 /\ j # 1
    BY <1>5, <2>1 DEF PictureInv
  <2>2. CASE i = 1 \/ j = 1
    BY <1>2, <1>5, <1>a, <2>2
  <2> QED BY <2>1, <2>2
<1>11. \A n \in files' \ InUse' : n \in posting' \/ \E i \in DOMAIN msgs' : IsPicture(msgs'[i]) /\ msgs'[i].n = n
  <2> TAKE n \in files' \ InUse'
  <2>1. CASE n = k
    BY <1>4, <1>5, <1>6, <2>1
  <2>2. CASE n # k
    <3>1. n \in files \ InUse
      BY <1>4, <1>6, <2>2
    <3>2. CASE n \in posting
      BY <1>1, <3>2
    <3>3. CASE n \notin posting
      <4>1. PICK i \in DOMAIN msgs : IsPicture(msgs[i]) /\ msgs[i].n = n
        BY <3>1, <3>3 DEF PictureInv
      <4>2. i # 1
        BY <1>5, <4>1
      <4> QED BY <1>5, <4>1, <4>2
    <3> QED BY <3>2, <3>3
  <2> QED BY <2>1, <2>2
<1>12. \A i \in DOMAIN msgs' : msgs'[i].kind = "unready" => msgs'[i].of = 0
  BY <1>2, <1>5 DEF PictureInv
<1>13. s'.artwork <= s'.artSeq /\ s'.pipeArt <= s'.artSeq /\ InUse' \subseteq files'
  BY <1>1, <1>3, <1>4, <1>6 DEF PictureInv
<1> QED BY <1>1, <1>7, <1>8, <1>9, <1>10, <1>11, <1>12, <1>13 DEF PictureInv

LEMMA LeavesSame ==
  ASSUME AudioShape, PictureInv, s'.artwork = s.artwork, s'.pipeArt \in {s.pipeArt, s.artwork, 0}, InUse' = InUse,
         files' = files, s'.artSeq \in {s.artSeq, s.artSeq + 1}
  PROVE  Leaves({})
<1>1. s.artwork \in Nat /\ s.pipeArt \in Nat /\ s.artSeq \in Nat /\ s.artwork <= s.artSeq /\ s.pipeArt <= s.artSeq
  BY DEF AudioShape, Sessions, PictureInv
<1>2. s'.artwork <= s'.artSeq /\ s'.pipeArt <= s'.artSeq
  BY <1>1
<1> QED BY <1>2 DEF Leaves, PictureInv

LEMMA LeavesEnded ==
  ASSUME AudioShape, PictureInv, s'.artwork = s.artwork, s'.pipeArt = 0, s'.artSeq = s.artSeq,
         files' = files \ ({} \cup ({s.pipeArt} \ {s.artwork}))
  PROVE  Leaves({})
<1>1. s'.artwork <= s'.artSeq /\ s'.pipeArt <= s'.artSeq
  BY DEF AudioShape, Sessions, PictureInv
<1>2. InUse \subseteq files /\ InUse = {s.artwork, s.pipeArt} \ {0} /\ InUse' = {s.artwork, 0} \ {0} /\ 0 \notin files
  BY NoPictureZero DEF PictureInv, InUse
<1> QED BY <1>1, <1>2 DEF Leaves

LEMMA LeavesStopped ==
  ASSUME AudioShape, PictureInv, s'.artwork = 0, s'.pipeArt = 0, s'.artSeq = s.artSeq + 1,
         files' = files \ ({s.artwork} \cup ({s.pipeArt} \ {0}))
  PROVE  Leaves({})
<1>1. s'.artwork <= s'.artSeq /\ s'.pipeArt <= s'.artSeq
  BY DEF AudioShape, Sessions
<1>2. InUse \subseteq files /\ InUse = {s.artwork, s.pipeArt} \ {0} /\ InUse' = {} /\ 0 \notin files
  BY NoPictureZero DEF PictureInv, InUse
<1> QED BY <1>1, <1>2 DEF Leaves

LEMMA LeavesShown ==
  ASSUME AudioShape, PictureInv, msgs # <<>>, Head(msgs).kind = "ready", NEW p, p = Head(msgs).of,
         Shown(p), AsItWas \/ Anew(p) \/ GoneNow(p)
  PROVE  Leaves(Gone(Head(msgs)))
<1> DEFINE g == Gone(Head(msgs))
<1>1. p \in Nat /\ g = {p} \ {0} /\ (p # 0 => p \in 1..s.artSeq /\ p \in files \ InUse)
  BY HeadPicture DEF Gone, IsPicture, Messages
<1>2. s'.artwork = p /\ s'.artSeq = s.artSeq
  BY DEF Shown
<1>3. s.artSeq \in Nat /\ s.pipeArt \in Nat /\ s.artwork \in Nat /\ s.pipeArt <= s.artSeq
  BY DEF AudioShape, Sessions, PictureInv
<1>4. p <= s.artSeq
  BY <1>1, <1>3
<1>5. InUse \subseteq files /\ InUse = {s.artwork, s.pipeArt} \ {0} /\ 0 \notin files
      /\ InUse' = {p, s'.pipeArt} \ {0}
  BY <1>2, NoPictureZero DEF PictureInv, InUse
<1>6. \/ s'.pipeArt = s.pipeArt /\ files' = files \ ({s.artwork} \ {s.pipeArt})
      \/ s'.pipeArt \in {0, p} /\ files' = files \ (({s.artwork} \ {s.pipeArt}) \cup ({s.pipeArt} \ {p}))
  BY DEF AsItWas, Anew, GoneNow, Replaces
<1> HIDE DEF g
<1>7. s'.artwork <= s'.artSeq /\ s'.pipeArt <= s'.artSeq
  BY <1>2, <1>3, <1>4, <1>6
<1>8. CASE s'.pipeArt = s.pipeArt /\ files' = files \ ({s.artwork} \ {s.pipeArt})
  <2>1. InUse' \subseteq files' /\ files' \subseteq files
    BY <1>1, <1>5, <1>8
  <2>2. \A n \in Nat : n \in files' /\ n \notin InUse' <=> n \in files /\ n \notin InUse /\ n \notin g
    BY <1>1, <1>5, <1>8
  <2> QED BY <1>7, <2>1, <2>2 DEF Leaves, g
<1>9. CASE s'.pipeArt \in {0, p} /\ files' = files \ (({s.artwork} \ {s.pipeArt}) \cup ({s.pipeArt} \ {p}))
  <2>0. InUse' = {p} \ {0} /\ (p # 0 => p \notin {s.artwork, s.pipeArt})
    BY <1>1, <1>5, <1>9
  <2>1. InUse' \subseteq files' /\ files' \subseteq files
    BY <1>1, <1>9, <2>0
  <2>2. \A n \in Nat : n \in files' /\ n \notin InUse' <=> n \in files /\ n \notin InUse /\ n \notin g
    BY <1>1, <1>5, <1>9, <2>0
  <2> QED BY <1>7, <2>1, <2>2 DEF Leaves, g
<1> QED BY <1>6, <1>8, <1>9

LEMMA HandlesKeepsPictures ==
  ASSUME AudioShape, AudioShape', SessionInv, PictureInv, Handles
  PROVE  PictureInv'
<1>0. s \in Sessions /\ SameSession(s) /\ msgs \in Seq(Messages)
  BY DEF AudioShape, SameSession
<1>t. ASSUME NEW kinds, Take(kinds)
      PROVE  /\ msgs # <<>> /\ msgs' = Tail(msgs) /\ posting' = posting /\ Head(msgs).kind \in kinds
             /\ "ready" \notin kinds => Gone(Head(msgs)) = {}
  BY <1>t, TakeDoes DEF Gone, IsPicture
<1>k. ASSUME msgs # <<>>, msgs' = Tail(msgs), posting' = posting, fetching' = fetching, Gone(Head(msgs)) = {},
             Leaves({}), s'.artSeq \in {s.artSeq, s.artSeq + 1}
      PROVE  PictureInv'
  <2>1. Leaves(Gone(Head(msgs)))
    BY <1>k
  <2>2. \A n \in fetching' : n \in fetching \/ (n = s.artSeq + 1 /\ s'.artSeq = s.artSeq + 1)
    BY <1>k
  <2>3. msgs # <<>> /\ msgs' = Tail(msgs) /\ posting' = posting /\ s'.artSeq \in {s.artSeq, s.artSeq + 1}
    BY <1>k
  <2> QED BY <2>1, <2>2, <2>3, PicturesTaken
<1>u. ASSUME SameSession(s'), s'.artwork = s.artwork, s'.artSeq = s.artSeq, files' = files
      PROVE  Leaves({})
  BY <1>u, LeavesSame DEF SameSession, InUse
<1>e. ASSUME NEW t, SameSession(t), t.artwork = s.artwork, t.artSeq = s.artSeq, End(t, {})
      PROVE  Leaves({}) /\ s'.artSeq = s.artSeq
  <2>1. Idled(t) /\ files' = files \ ({} \cup ({s.pipeArt} \ {t.artwork}))
    BY <1>e, EndDoes
  <2> QED BY <1>e, <2>1, LeavesEnded DEF Idled
<1>2. CASE Play /\ over' = over
  <2>1. Take({"play"}) /\ s.pipeArt = 0 /\ fetching' = fetching
    BY <1>2, PlayDoes DEF SessionInv
  <2>2. s'.artwork = s.artwork /\ s'.artSeq = s.artSeq /\ files' = files /\ s'.pipeArt \in {s.artwork, 0}
    BY <1>2, PlayDoes, StartedDoes, StartFailsDoes
  <2>3. InUse' = InUse
    BY <2>1, <2>2 DEF InUse
  <2> QED BY <1>k, <1>t, <2>1, <2>2, <2>3, LeavesSame
<1>3. CASE Resume /\ over' = over
  BY <1>3, <1>k, <1>t, <1>u, ResumeDoes
<1>5. CASE Pause /\ over' = over
  <2>1. Take({"pause"}) /\ fetching' = fetching
    BY <1>5, PauseDoes
  <2>2. Leaves({}) /\ s'.artSeq = s.artSeq
    BY <1>5, <1>e, <1>u, PauseDoes
  <2> QED BY <1>k, <1>t, <2>1, <2>2
<1>6. CASE Grace /\ over' = over
  <2>1. Take({"grace"}) /\ fetching' = fetching
    BY <1>6 DEF Grace
  <2>2. Leaves({}) /\ s'.artSeq = s.artSeq
    <3>1. CASE End(s, {})
      BY <1>0, <1>e, <3>1
    <3>2. CASE UNCHANGED <<s, files>>
      BY <1>0, <1>u, <3>2 DEF SameSession
    <3> QED BY <1>6, <3>1, <3>2 DEF Grace
  <2> QED BY <1>k, <1>t, <2>1, <2>2
<1>7. CASE CoreStopped /\ over' = over
  <2>1. Take({"stopped"}) /\ fetching' = fetching
    BY <1>7 DEF CoreStopped
  <2>2. Leaves({}) /\ s'.artSeq = s.artSeq
    <3>1. CASE ExternalStop(s, {})
      <4>1. Idled(s) /\ files' = files \ ({} \cup ({s.pipeArt} \ {s.artwork}))
        BY <1>0, <3>1, ExternalStopDoes
      <4> QED BY <4>1, LeavesEnded DEF Idled
    <3>2. CASE UNCHANGED <<s, files>>
      BY <1>0, <1>u, <3>2 DEF SameSession
    <3> QED BY <1>7, <3>1, <3>2 DEF CoreStopped
  <2> QED BY <1>k, <1>t, <2>1, <2>2
<1>8. CASE Stop /\ over' = over
  <2>1. Take({"stop"}) /\ fetching' = fetching /\ End(Dropped(s), {s.artwork})
    BY <1>8 DEF Stop
  <2> QED BY <1>k, <1>t, <2>1, StopDoes, LeavesStopped
<1>9. CASE Picture /\ over' = over
  BY <1>9, PictureKeepsPictures
<1>10. CASE Fetch /\ over' = over
  <2>1. /\ Take({"url"}) /\ SameSession(s') /\ s'.artwork = s.artwork /\ s'.artSeq = s.artSeq + 1
        /\ fetching' = fetching \cup {s.artSeq + 1} /\ files' = files
    BY <1>10, FetchDoes
  <2>2. Leaves({})
    BY <2>1, LeavesSame DEF SameSession, InUse
  <2>3. msgs # <<>> /\ msgs' = Tail(msgs) /\ posting' = posting /\ Gone(Head(msgs)) = {}
    BY <1>t, <2>1
  <2> QED BY <2>1, <2>2, <2>3, PicturesTaken
<1>11. CASE Pictured /\ over' = over
  <2>1. Take({"ready", "unready"}) /\ fetching' = fetching
    BY <1>11 DEF Pictured
  <2>2. msgs # <<>> /\ msgs' = Tail(msgs) /\ posting' = posting /\ Head(msgs).kind \in {"ready", "unready"}
    BY <1>t, <2>1
  <2>3. Leaves(Gone(Head(msgs))) /\ s'.artSeq = s.artSeq
    <3>1. CASE Head(msgs).kind = "ready" /\ Newest(Head(msgs).n)
      <4>1. Apply(s, Head(msgs).of) /\ Head(msgs).of \in Nat
        BY <1>11, <2>2, <3>1, HeadPicture DEF Pictured, Messages
      <4>2. Shown(Head(msgs).of) /\ (AsItWas \/ Anew(Head(msgs).of) \/ GoneNow(Head(msgs).of))
        BY <4>1, ApplyDoes
      <4> QED BY <2>2, <3>1, <4>2, LeavesShown DEF Shown
    <3>2. CASE ~(Head(msgs).kind = "ready" /\ Newest(Head(msgs).n))
      <4>1. s' = s /\ files' = files \ {Head(msgs).of}
        BY <1>11, <3>2 DEF Pictured, Keeps
      <4>2. InUse \subseteq files /\ 0 \notin files /\ InUse' = InUse
        BY <4>1, NoPictureZero DEF PictureInv, InUse
      <4>3. \/ Gone(Head(msgs)) = {Head(msgs).of} /\ Head(msgs).of \in files \ InUse
            \/ Gone(Head(msgs)) = {} /\ Head(msgs).of = 0
        BY <2>2, HeadPicture DEF Gone, IsPicture
      <4>4. s'.artwork <= s'.artSeq /\ s'.pipeArt <= s'.artSeq
        BY <4>1 DEF PictureInv
      <4> QED BY <4>1, <4>2, <4>3, <4>4 DEF Leaves
    <3> QED BY <3>1, <3>2
  <2>4. \A n \in fetching' : n \in fetching \/ (n = s.artSeq + 1 /\ s'.artSeq = s.artSeq + 1)
    BY <2>1
  <2>5. s'.artSeq \in {s.artSeq, s.artSeq + 1}
    BY <2>3
  <2> QED BY <2>2, <2>3, <2>4, <2>5, PicturesTaken
<1>12. CASE CloseRequest
  <2>1. /\ msgs # <<>> /\ Head(msgs).kind = "close" /\ msgs' = Tail(msgs)
        /\ fetching' = fetching /\ posting' = posting /\ End(Dropped(s), {s.artwork})
    BY <1>12 DEF CloseRequest, artVars
  <2>2. Gone(Head(msgs)) = {}
    BY <2>1 DEF Gone, IsPicture
  <2> QED BY <1>k, <2>1, <2>2, StopDoes, LeavesStopped
<1> QED BY <1>2, <1>3, <1>5, <1>6, <1>7, <1>8, <1>9, <1>10, <1>11, <1>12 DEF Handles

LEMMA PostKeepsPictures ==
  ASSUME AudioShape, AudioShape', SessionInv, PictureInv, NEW n \in posting, PostPicture(n)
  PROVE  PictureInv'
<1>1. posting' = posting \ {n} /\ UNCHANGED <<s, fetching>> /\ n \in Nat /\ n # 0 /\ msgs \in Seq(Messages)
      /\ posting \subseteq Nat
  BY DEF PostPicture, AudioShape, PictureInv
<1>2. n \in files \ InUse /\ n \in 1..s.artSeq /\ InUse' = InUse /\ InUse \subseteq files
  BY <1>1 DEF PictureInv, InUse
<1>a. \A i \in DOMAIN msgs : IsPicture(msgs[i]) => msgs[i].n # n
  BY DEF PictureInv
<1>3. CASE msgs' = msgs /\ files' = files \ {n}
  <2>1. \A m \in fetching' : m \in 1..s.artSeq /\ m \notin files' /\ m \notin posting'
    BY <1>1, <1>3 DEF PictureInv
  <2>2. \A m \in posting' : m \in 1..s.artSeq /\ m \in files' \ InUse'
    BY <1>1, <1>2, <1>3 DEF PictureInv
  <2>3. \A i \in DOMAIN msgs : IsPicture(msgs[i]) =>
             /\ msgs[i].n = msgs[i].of /\ msgs[i].n \in 1..s.artSeq
             /\ msgs[i].n \in files' \ InUse' /\ msgs[i].n \notin posting'
    BY <1>1, <1>2, <1>3, <1>a DEF PictureInv
  <2>4. \A m \in files' \ InUse' : m \in posting' \/ \E i \in DOMAIN msgs : IsPicture(msgs[i]) /\ msgs[i].n = m
    BY <1>1, <1>2, <1>3 DEF PictureInv
  <2>5. InUse' \subseteq files'
    BY <1>2, <1>3
  <2> QED BY <1>1, <1>3, <2>1, <2>2, <2>3, <2>4, <2>5 DEF PictureInv
<1>4. CASE msgs' = Append(msgs, Message("ready", n, n)) /\ files' = files
  <2> DEFINE m == Message("ready", n, n)
             q == Append(msgs, m)
             l == Len(msgs) + 1
  <2>1. "ready" \in SenderEvents \cup Reports
    BY DEF Reports
  <2>2. m \in Messages /\ m.kind = "ready" /\ m.n = n /\ m.of = n
    BY <1>1, <2>1, MessageIs
  <2>3. IsPicture(m)
    BY <1>1, <2>2 DEF IsPicture
  <2>4. msgs' = q
    BY <1>4
  <2> HIDE DEF m
  <2>5. /\ DOMAIN q = 1..l /\ DOMAIN msgs = 1..Len(msgs) /\ Len(msgs) \in Nat
        /\ \A i \in DOMAIN q : IF i = l THEN q[i] = m ELSE i \in DOMAIN msgs /\ q[i] = msgs[i]
    BY <1>1, <2>2, AppendFacts
  <2>6. (\A i \in DOMAIN msgs : i \in 1..l /\ i # l) /\ l \in 1..l
    BY <2>5
  <2> HIDE DEF q, l
  <2>7. (\A i \in DOMAIN msgs : i \in DOMAIN q /\ q[i] = msgs[i]) /\ l \in DOMAIN q /\ q[l] = m
    BY <2>5, <2>6
  <2>8. \A k \in fetching' : k \in 1..s.artSeq /\ k \notin files' /\ k \notin posting'
    BY <1>1, <1>4 DEF PictureInv
  <2>9. \A k \in posting' : k \in 1..s.artSeq /\ k \in files' \ InUse'
    BY <1>1, <1>2, <1>4 DEF PictureInv
  <2>10. \A i \in DOMAIN q : IsPicture(q[i]) =>
             /\ q[i].n = q[i].of /\ q[i].n \in 1..s.artSeq
             /\ q[i].n \in files' \ InUse' /\ q[i].n \notin posting'
    <3> TAKE i \in DOMAIN q
    <3> HAVE IsPicture(q[i])
    <3>1. CASE i = l
      BY <1>1, <1>2, <1>4, <2>2, <2>7, <3>1
    <3>2. CASE i # l
      BY <1>1, <1>2, <1>4, <2>5, <3>2 DEF PictureInv
    <3> QED BY <3>1, <3>2
  <2>11. \A i, j \in DOMAIN q : i # j /\ IsPicture(q[i]) /\ IsPicture(q[j]) => q[i].n # q[j].n
    <3> TAKE i, j \in DOMAIN q
    <3> HAVE i # j /\ IsPicture(q[i]) /\ IsPicture(q[j])
    <3>1. CASE i # l /\ j # l
      BY <2>5, <3>1 DEF PictureInv
    <3>2. CASE i = l
      BY <1>a, <2>2, <2>5, <2>7, <3>2
    <3>3. CASE j = l
      BY <1>a, <2>2, <2>5, <2>7, <3>3
    <3> QED BY <3>1, <3>2, <3>3
  <2>12. \A k \in files' \ InUse' : k \in posting' \/ \E i \in DOMAIN q : IsPicture(q[i]) /\ q[i].n = k
    <3> TAKE k \in files' \ InUse'
    <3>1. CASE k = n
      BY <2>2, <2>3, <2>7, <3>1
    <3>2. CASE k # n
      <4>1. k \in posting \/ \E i \in DOMAIN msgs : IsPicture(msgs[i]) /\ msgs[i].n = k
        BY <1>2, <1>4 DEF PictureInv
      <4> QED BY <1>1, <2>7, <3>2, <4>1
    <3> QED BY <3>1, <3>2
  <2>13. \A i \in DOMAIN q : q[i].kind = "unready" => q[i].of = 0
    BY <2>2, <2>5 DEF PictureInv
  <2>14. InUse' \subseteq files' /\ s' = s /\ msgs' = q
    BY <1>1, <1>2, <1>4, <2>4
  <2> QED BY <2>14, <2>8, <2>9, <2>10, <2>11, <2>12, <2>13 DEF PictureInv
<1> QED BY <1>3, <1>4 DEF PostPicture

LEMMA KeepsPictures ==
  ASSUME AudioShape, AudioShape', SessionInv, PictureInv, [AudioNext]_audioVars
  PROVE  PictureInv'
<1>0. /\ s \in Sessions /\ SameSession(s) /\ msgs \in Seq(Messages) /\ wire \in Seq(SenderEvents)
      /\ fetching \subseteq Nat /\ posting \subseteq Nat /\ s.artSeq \in Nat
  BY DEF AudioShape, SameSession, Sessions
<1>k. /\ {"stopped", "grace", "unready", "ready", "close"} \subseteq SenderEvents \cup Reports
      /\ SenderEvents \subseteq SenderEvents \cup Reports /\ 0 \in Nat /\ "ready" \notin SenderEvents /\ "unready" \notin SenderEvents
  BY DEF SenderEvents, Reports
<1>r. ASSUME SamePictures, UNCHANGED <<s, files, posting>>, fetching' \subseteq fetching
      PROVE  PictureInv'
  <2>1. Leaves({})
    BY <1>r, LeavesSame DEF InUse
  <2> QED BY <1>r, <2>1, PicturesStay
<1>m. ASSUME msgs' = msgs, UNCHANGED <<s, files, posting>>, fetching' \subseteq fetching
      PROVE  PictureInv'
  BY <1>m, <1>r DEF SamePictures, PictureInv
<1>p. ASSUME NEW m \in Messages, ~IsPicture(m), m.kind = "unready" => m.of = 0, Post(m)
      PROVE  SamePictures
  BY <1>p, PostDoes, NoNewPicture
<1>1. ASSUME NEW kind \in SenderEvents, SenderActs(kind) PROVE PictureInv'
  BY <1>1, <1>m DEF SenderActs, sessionVars, artVars
<1>2. CASE SessionEnds
  BY <1>2, <1>m DEF SessionEnds, sessionVars, artVars
<1>3. CASE GraceFires
  <2>1. s' = [s EXCEPT !.timer = 0] /\ UNCHANGED <<files, msgs, fetching, posting>>
    BY <1>3 DEF GraceFires, artVars
  <2>2. s'.pipeArt = s.pipeArt /\ s'.artwork = s.artwork /\ s'.artSeq = s.artSeq
    BY <1>0, <2>1 DEF Sessions
  <2>3. Leaves({})
    BY <2>1, <2>2, LeavesSame DEF InUse
  <2>4. SamePictures
    BY <2>1 DEF SamePictures, PictureInv
  <2> QED BY <2>1, <2>2, <2>3, <2>4, PicturesStay
<1>4. CASE Deliver
  <2>1. Head(wire) \in SenderEvents /\ wire # <<>>
    BY <1>0, <1>4 DEF Deliver
  <2>2. Event(Head(wire)) \in Messages /\ Event(Head(wire)).kind = Head(wire)
    BY <1>k, <2>1, MessageIs DEF Event
  <2>3. SamePictures
    BY <1>4, <1>k, <1>p, <2>1, <2>2 DEF Deliver, IsPicture
  <2> QED BY <1>4, <1>r, <2>3 DEF Deliver, sessionVars, artVars
<1>5. ASSUME NEW ref \in told, TellStopped(ref) PROVE PictureInv'
  <2>1. ref \in Nat
    BY DEF AudioShape
  <2>2. Message("stopped", ref, 0) \in Messages /\ Message("stopped", ref, 0).kind = "stopped"
    BY <1>k, <2>1, MessageIs
  <2>3. SamePictures
    BY <1>5, <1>p, <2>2 DEF TellStopped, IsPicture
  <2> QED BY <1>5, <1>r, <2>3 DEF TellStopped, sessionVars, artVars
<1>6. ASSUME NEW t \in fired, TellGrace(t) PROVE PictureInv'
  <2>1. t[1] \in Nat /\ t[2] \in Nat
    BY DEF AudioShape
  <2>2. Message("grace", t[1], t[2]) \in Messages /\ Message("grace", t[1], t[2]).kind = "grace"
    BY <1>k, <2>1, MessageIs
  <2>3. SamePictures
    BY <1>6, <1>p, <2>2 DEF TellGrace, IsPicture
  <2> QED BY <1>6, <1>r, <2>3 DEF TellGrace, sessionVars, artVars
<1>7. ASSUME NEW n \in fetching, FetchArrives(n) PROVE PictureInv'
  <2>1. /\ fetching' = fetching \ {n} /\ UNCHANGED <<s, msgs>>
        /\ IF closed THEN UNCHANGED <<posting, files>> ELSE posting' = posting \cup {n} /\ files' = files \cup {n}
    BY <1>7 DEF FetchArrives
  <2>2. CASE closed
    BY <1>m, <2>1, <2>2
  <2>3. CASE ~closed
    <3>1. posting' = posting \cup {n} /\ files' = files \cup {n}
      BY <2>1, <2>3
    <3>2. n \in 1..s.artSeq /\ n \notin files /\ n \notin posting /\ n \notin InUse /\ InUse' = InUse /\ InUse \subseteq files
      BY <2>1 DEF PictureInv, InUse
    <3>3. \A m \in fetching' : m \in 1..s.artSeq /\ m \notin files' /\ m \notin posting'
      BY <2>1, <3>1 DEF PictureInv
    <3>4. \A m \in posting' : m \in 1..s.artSeq /\ m \in files' \ InUse'
      BY <3>1, <3>2 DEF PictureInv
    <3>5. \A i \in DOMAIN msgs : IsPicture(msgs[i]) =>
             /\ msgs[i].n = msgs[i].of /\ msgs[i].n \in 1..s.artSeq
             /\ msgs[i].n \in files' \ InUse' /\ msgs[i].n \notin posting'
      BY <3>1, <3>2 DEF PictureInv
    <3>6. \A m \in files' \ InUse' : m \in posting' \/ \E i \in DOMAIN msgs : IsPicture(msgs[i]) /\ msgs[i].n = m
      BY <3>1, <3>2 DEF PictureInv
    <3>7. InUse' \subseteq files'
      BY <3>1, <3>2
    <3> QED BY <2>1, <3>3, <3>4, <3>5, <3>6, <3>7 DEF PictureInv
  <2> QED BY <2>2, <2>3
<1>8. ASSUME NEW n \in fetching, FetchFails(n) PROVE PictureInv'
  <2>1. n \in Nat
    BY <1>0
  <2>2. Message("unready", n, 0) \in Messages /\ Message("unready", n, 0).kind = "unready" /\ Message("unready", n, 0).of = 0
    BY <1>k, <2>1, MessageIs
  <2>3. SamePictures
    BY <1>8, <1>p, <2>2 DEF FetchFails, IsPicture
  <2> QED BY <1>8, <1>r, <2>3 DEF FetchFails, sessionVars
<1>9. ASSUME NEW n \in posting, PostPicture(n) PROVE PictureInv'
  BY <1>9, PostKeepsPictures
<1>10. CASE Handles
  BY <1>10, HandlesKeepsPictures
<1>11. CASE HelperUp \/ HelperExits \/ Backoff \/ HelperWrites \/ ReaderTakes \/ BeginStop \/ Reset
  BY <1>11, <1>m DEF HelperUp, HelperExits, Backoff, HelperWrites, ReaderTakes, BeginStop, Reset, sessionVars, artVars
<1>12. CASE AfterExit
  <2>1. Event("stop") \in Messages /\ Event("stop").kind = "stop"
    BY <1>k, MessageIs DEF Event, SenderEvents
  <2>2. SamePictures
    BY <1>12, <1>p, <2>1 DEF AfterExit, IsPicture
  <2> QED BY <1>12, <1>r, <2>2 DEF AfterExit, sessionVars, artVars
<1>13. CASE CloseSession
  <2>1. Event("close") \in Messages /\ Event("close").kind = "close"
    BY <1>k, MessageIs DEF Event
  <2>2. SamePictures
    BY <1>13, <2>1, NoNewPicture DEF CloseSession, IsPicture
  <2> QED BY <1>13, <1>r, <2>2 DEF CloseSession, sessionVars, artVars
<1>14. CASE UNCHANGED audioVars
  BY <1>14, <1>m DEF audioVars, sessionVars, artVars
<1> QED BY <1>1, <1>2, <1>3, <1>4, <1>5, <1>6, <1>7, <1>8, <1>9, <1>10, <1>11, <1>12, <1>13, <1>14
        DEF AudioNext, Posts

LEMMA AudioStarts == AudioInit => AudioInv
<1> SUFFICES ASSUME AudioInit PROVE AudioInv
  OBVIOUS
<1>1. s \in Sessions
  BY DEF AudioInit, Sessions
<1>2. relay \in Relays
  BY DEF AudioInit, Relays
<1>3. msgs = <<>> /\ wire = <<>> /\ DOMAIN msgs = {} /\ msgs \in Seq(Messages) /\ wire \in Seq(SenderEvents)
  BY DEF AudioInit
<1>4. None \in Nat \X Nat
  BY DEF None
<1>5. AudioShape
  BY <1>1, <1>2, <1>3, <1>4 DEF AudioInit, AudioShape
<1>6. s.ref = 0 /\ s.pipeArt = 0 /\ s.artwork = 0 /\ s.artSeq = 0
  BY DEF AudioInit
<1>7. s.state = "idle"
  BY DEF AudioInit
<1>8. SessionInv
  BY <1>3, <1>6, <1>7 DEF AudioInit, SessionInv
<1>9. PictureInv
  BY <1>3, <1>6 DEF AudioInit, PictureInv, InUse
<1> QED BY <1>5, <1>8, <1>9 DEF AudioInv

LEMMA AudioInvariant == AudioSpec => []AudioInv
<1>1. AudioInv /\ [AudioNext]_audioVars => AudioInv'
  BY KeepsShape, KeepsSession, KeepsPictures DEF AudioInv
<1> QED BY <1>1, AudioStarts, PTL DEF AudioSpec

LEMMA InvIsInOrder == AudioInv => ReceiverInOrder
<1> SUFFICES ASSUME AudioShape, SessionInv, PictureInv PROVE ReceiverInOrder
  BY DEF AudioInv
<1>0. msgs \in Seq(Messages) /\ DOMAIN msgs = 1..Len(msgs) /\ \A i \in DOMAIN msgs : msgs[i] \in Messages
  BY DEF AudioShape
<1>1. ASSUME NEW i \in DOMAIN msgs, NEW k, NEW n, NEW of,
             msgs[i].kind = k, msgs[i].n = n, msgs[i].of = of
      PROVE  msgs[i] = Message(k, n, of)
  BY <1>0, <1>1 DEF Message, Messages
<1>2. Queued(s.ref) => \E i \in 1..Len(msgs) : msgs[i] = Message("stopped", s.ref, 0)
  <2> HAVE Queued(s.ref)
  <2>1. PICK i \in DOMAIN msgs : msgs[i].kind = "stopped" /\ msgs[i].n = s.ref
    BY DEF Queued, IsStopped
  <2>2. msgs[i].of = 0
    BY <2>1 DEF SessionInv
  <2> QED BY <1>0, <1>1, <2>1, <2>2
<1>3. receiver = "down" => core = None /\ relay.discard /\ InUse = {}
  BY DEF SessionInv, InUse
<1>4. AgreesWithCore
  BY <1>2, <1>3 DEF AgreesWithCore, SessionInv
<1>5. ASSUME NEW n \in files \ InUse, n \notin posting
      PROVE  \E i \in 1..Len(msgs) : msgs[i] = Message("ready", n, n)
  <2>1. PICK i \in DOMAIN msgs : IsPicture(msgs[i]) /\ msgs[i].n = n
    BY <1>5 DEF PictureInv
  <2>2. msgs[i].kind = "ready" /\ msgs[i].of = n
    BY <2>1 DEF PictureInv, IsPicture
  <2> QED BY <1>0, <1>1, <2>1, <2>2
<1>6. PicturesInUse
  BY <1>5 DEF PicturesInUse, PictureInv
<1> QED BY <1>4, <1>6 DEF ReceiverInOrder

(* The receiver and the manager agree on the session, one that lost its    *)
(* core session is going to be told, and the pictures on disk are those in *)
(* use or on their way (session.go).                                       *)
THEOREM ReceiverStaysInOrder == AudioSpec => []ReceiverInOrder
BY AudioInvariant, InvIsInOrder, PTL

-----------------------------------------------------------------------------
(* A timer is the one of the pause that goes on, and so is what it fired or*)
(* posted, unless something else happened since (session.go, armGrace and  *)
(* cancelGrace).                                                           *)
GraceOK(n, p) == n <= s.graceSeq /\ (n = s.graceSeq /\ s.state = "held" => p = pauses)
GraceInv ==
    /\ s.timer # 0 => s.state = "held" /\ s.timer = s.graceSeq
    /\ \A t \in fired : GraceOK(t[1], t[2])
    /\ \A i \in DOMAIN msgs : msgs[i].kind = "grace" => GraceOK(msgs[i].n, msgs[i].of)

(* Pauses are told apart by graceSeq. *)
Ticks ==
    /\ s.graceSeq <= s'.graceSeq
    /\ s'.state = "held" => s.graceSeq < s'.graceSeq \/ (s.state = "held" /\ pauses' = pauses)
    /\ s'.timer # 0 => s'.state = "held" /\ s'.timer = s'.graceSeq

(* Only m is new in the channel. *)
OnlyNew(m) == \A i \in DOMAIN msgs' : msgs'[i] = m \/ \E j \in DOMAIN msgs : msgs'[i] = msgs[j]

LEMMA NewIs ==
  ASSUME AudioShape, NEW m \in Messages,
         \/ msgs' = msgs \/ msgs' = Append(msgs, m)
         \/ msgs # <<>> /\ (msgs' = Tail(msgs) \/ msgs' = <<m>> \o Tail(msgs))
  PROVE  OnlyNew(m)
<1>0. msgs \in Seq(Messages)
  BY DEF AudioShape
<1>1. CASE msgs' = msgs
  BY <1>1 DEF OnlyNew
<1>2. CASE msgs' = Append(msgs, m)
  <2> DEFINE q == Append(msgs, m)
  <2>1. \A i \in DOMAIN q : IF i = Len(msgs) + 1 THEN q[i] = m ELSE i \in DOMAIN msgs /\ q[i] = msgs[i]
    BY <1>0, AppendFacts
  <2>2. msgs' = q
    BY <1>2
  <2> HIDE DEF q
  <2> QED BY <2>1, <2>2 DEF OnlyNew
<1>3. CASE msgs # <<>> /\ msgs' = Tail(msgs)
  <2> DEFINE q == Tail(msgs)
  <2>1. \A i \in DOMAIN q : i + 1 \in DOMAIN msgs /\ q[i] = msgs[i + 1]
    BY <1>0, <1>3, TailFacts
  <2>2. msgs' = q
    BY <1>3
  <2> HIDE DEF q
  <2> QED BY <2>1, <2>2 DEF OnlyNew
<1>4. CASE msgs # <<>> /\ msgs' = <<m>> \o Tail(msgs)
  <2> DEFINE q == <<m>> \o Tail(msgs)
  <2>1. DOMAIN q = DOMAIN msgs /\ \A i \in DOMAIN msgs : q[i] = IF i = 1 THEN m ELSE msgs[i]
    BY <1>0, <1>4, PutFacts
  <2>2. msgs' = q
    BY <1>4
  <2> HIDE DEF q
  <2> QED BY <2>1, <2>2 DEF OnlyNew
<1> QED BY <1>1, <1>2, <1>3, <1>4

LEMMA GraceLater ==
  ASSUME AudioShape, AudioShape', GraceInv, Ticks, NEW m \in Messages, OnlyNew(m), m.kind # "grace",
         fired' \subseteq fired
  PROVE  GraceInv'
<1>0. s.graceSeq \in Nat /\ s'.graceSeq \in Nat
  BY DEF AudioShape, Sessions
<1>1. ASSUME NEW n \in Nat, NEW p \in Nat, GraceOK(n, p) PROVE GraceOK(n, p)'
  BY <1>0, <1>1 DEF GraceOK, Ticks
<1>2. \A t \in fired' : GraceOK(t[1], t[2])'
  <2> TAKE t \in fired'
  <2>1. t \in fired /\ t[1] \in Nat /\ t[2] \in Nat
    BY DEF AudioShape
  <2> QED BY <1>1, <2>1 DEF GraceInv
<1>3. ASSUME NEW i \in DOMAIN msgs', msgs'[i].kind = "grace" PROVE GraceOK(msgs[i].n, msgs[i].of)'
  <2>1. PICK j \in DOMAIN msgs : msgs'[i] = msgs[j]
    BY <1>3 DEF OnlyNew
  <2>2. msgs[j] \in Messages
    BY DEF AudioShape
  <2>3. msgs[j].n \in Nat /\ msgs[j].of \in Nat
    BY <2>2 DEF Messages
  <2>4. GraceOK(msgs[j].n, msgs[j].of)
    BY <1>3, <2>1 DEF GraceInv
  <2> DEFINE n == msgs[j].n
             p == msgs[j].of
  <2>5. msgs'[i].n = n /\ msgs'[i].of = p
    BY <2>1
  <2>6. n <= s'.graceSeq /\ (n = s'.graceSeq /\ s'.state = "held" => p = pauses')
    BY <1>0, <2>3, <2>4 DEF GraceOK, Ticks
  <2> QED BY <2>5, <2>6 DEF GraceOK
<1>4. s'.timer # 0 => s'.state = "held" /\ s'.timer = s'.graceSeq
  BY DEF Ticks
<1> QED BY <1>2, <1>3, <1>4 DEF GraceInv

LEMMA TicksIdle ==
  ASSUME AudioShape, s'.state = "idle", s'.timer = 0, s.graceSeq <= s'.graceSeq
  PROVE  Ticks
BY DEF Ticks

LEMMA TicksSame ==
  ASSUME AudioShape, GraceInv, s'.state = s.state, s'.timer = s.timer, s'.graceSeq = s.graceSeq, pauses' = pauses
  PROVE  Ticks
<1>1. s.graceSeq \in Nat
  BY DEF AudioShape, Sessions
<1> QED BY <1>1 DEF Ticks, GraceInv

LEMMA ToIdleTicks ==
  ASSUME AudioShape, NEW t \in Sessions, s.graceSeq <= t.graceSeq, s' = ToIdle(t)
  PROVE  Ticks
<1> DEFINE k == t.graceSeq + 1
<1>1. s.graceSeq \in Nat /\ t.graceSeq \in Nat
  BY DEF AudioShape, Sessions
<1>2. k \in Nat /\ s.graceSeq <= k
  BY <1>1
<1>3. s' = [t EXCEPT !.state = "idle", !.ref = 0, !.gen = 0, !.pipeArt = 0, !.timer = 0, !.graceSeq = k]
  BY DEF ToIdle
<1> HIDE DEF k
<1>4. s'.timer = 0 /\ s'.graceSeq = k
  BY <1>3 DEF Sessions
<1>5. s'.state = "idle"
  BY <1>3 DEF Sessions
<1> QED BY <1>2, <1>4, <1>5, TicksIdle

LEMMA EndTicks ==
  ASSUME AudioShape, GraceInv, NEW t \in Sessions, s.graceSeq <= t.graceSeq, t.state = "idle" => t.timer = 0,
         NEW drop, End(t, drop)
  PROVE  Ticks
<1>1. CASE t.state = "idle"
  <2>1. s' = t
    BY <1>1 DEF End
  <2> QED BY <1>1, <2>1, TicksIdle
<1>2. CASE t.state # "idle"
  <2>1. s' = ToIdle(t)
    BY <1>2 DEF End
  <2> QED BY <2>1, ToIdleTicks
<1> QED BY <1>1, <1>2

LEMMA UncountedTicks ==
  ASSUME NEW t \in Sessions
  PROVE  Uncounted(t).timer = 0 /\ Uncounted(t).graceSeq = t.graceSeq + 1
<1> DEFINE k == t.graceSeq + 1
<1>1. Uncounted(t) = [t EXCEPT !.timer = 0, !.graceSeq = k]
  BY DEF Uncounted
<1> HIDE DEF k
<1>2. Uncounted(t).timer = 0 /\ Uncounted(t).graceSeq = k
  BY <1>1 DEF Sessions
<1> QED BY <1>2 DEF k

LEMMA DroppedTicks ==
  ASSUME NEW t \in Sessions
  PROVE  Dropped(t).timer = t.timer /\ Dropped(t).graceSeq = t.graceSeq
<1> DEFINE k == t.artSeq + 1
<1>1. Dropped(t) = [t EXCEPT !.artSeq = k, !.artwork = 0]
  BY DEF Dropped
<1> HIDE DEF k
<1> QED BY <1>1 DEF Sessions

LEMMA PlayTicks ==
  ASSUME AudioShape, GraceInv, Play
  PROVE  Ticks
<1>0. s \in Sessions /\ s.state = "idle" /\ s.timer = 0 /\ s.graceSeq \in Nat /\ pauses' = pauses
      /\ starts \in Nat /\ gens \in Nat
  BY DEF AudioShape, Sessions, Play, GraceInv
<1>1. CASE Started
  <2> DEFINE r == starts + 1
             g == gens + 1
             t == [s EXCEPT !.ref = r, !.gen = g, !.pipeArt = s.artwork, !.state = "live"]
  <2>1. r \in Nat /\ g \in Nat
    BY <1>0
  <2>2. s' = t \/ s' = ToIdle(t)
    BY <1>1 DEF Started, ExternalStop
  <2> HIDE DEF r, g
  <2>3. t \in Sessions
    BY <1>0, <2>1 DEF Sessions
  <2>4. t.graceSeq = s.graceSeq /\ t.timer = s.timer
    BY <1>0 DEF Sessions
  <2>5. t.state = "live"
    BY <1>0 DEF Sessions
  <2> HIDE DEF t
  <2>6. CASE s' = t
    BY <1>0, <2>4, <2>5, <2>6 DEF Ticks
  <2>7. CASE s' = ToIdle(t)
    BY <1>0, <2>3, <2>4, <2>7, ToIdleTicks
  <2> QED BY <2>2, <2>6, <2>7
<1>2. CASE StartFails
  <2> DEFINE t == [s EXCEPT !.pipeArt = s.artwork]
  <2>1. s' = ToIdle(t)
    BY <1>2 DEF StartFails
  <2>2. t \in Sessions
    BY <1>0 DEF Sessions
  <2>3. t.graceSeq = s.graceSeq
    BY <1>0 DEF Sessions
  <2> HIDE DEF t
  <2> QED BY <1>0, <2>1, <2>2, <2>3, ToIdleTicks
<1> QED BY <1>1, <1>2 DEF Play

LEMMA ResumeTicks ==
  ASSUME AudioShape, GraceInv, Resume
  PROVE  Ticks
<1> DEFINE u == Uncounted(s)
           v == [u EXCEPT !.state = "live"]
<1>0. s \in Sessions /\ s.graceSeq \in Nat /\ pauses' = pauses
  BY DEF AudioShape, Sessions, Resume
<1>1. u \in Sessions /\ u.timer = 0 /\ u.graceSeq = s.graceSeq + 1
  BY <1>0, UncountedIs, UncountedTicks
<1>2. s' = IF s.state = "held" THEN v ELSE s
  BY DEF Resume
<1> HIDE DEF u
<1>3. v.timer = u.timer /\ v.graceSeq = u.graceSeq
  BY <1>1 DEF Sessions
<1>4. v.state = "live"
  BY <1>1 DEF Sessions
<1> HIDE DEF v
<1>5. CASE s.state = "held"
  BY <1>0, <1>1, <1>2, <1>3, <1>4, <1>5 DEF Ticks
<1>6. CASE s.state # "held"
  BY <1>0, <1>2, <1>6, TicksSame
<1> QED BY <1>5, <1>6

LEMMA PauseTicks ==
  ASSUME AudioShape, GraceInv, Pause
  PROVE  Ticks
<1>0. s \in Sessions /\ s.graceSeq \in Nat
  BY DEF AudioShape, Sessions
<1>1. CASE s.state # "live"
  BY <1>1, TicksSame DEF Pause
<1>2. CASE s.state = "live"
  <2> DEFINE u == Uncounted(s)
             t == [u EXCEPT !.state = "held"]
             k == t.graceSeq + 1
             v == [t EXCEPT !.graceSeq = k, !.timer = k]
  <2>1. u \in Sessions /\ u.graceSeq = s.graceSeq + 1
    BY <1>0, UncountedIs, UncountedTicks
  <2>2. End(t, {}) \/ s' = v
    BY <1>2 DEF Pause
  <2> HIDE DEF u
  <2>3. t \in Sessions /\ t.state = "held"
    BY <2>1 DEF Sessions
  <2>4. t.graceSeq = u.graceSeq
    BY <2>1 DEF Sessions
  <2>5. s.graceSeq <= t.graceSeq /\ s.graceSeq < k /\ k \in Nat
    BY <1>0, <2>1, <2>4
  <2> HIDE DEF t, k
  <2>6. v.graceSeq = k /\ v.timer = k
    BY <2>3 DEF Sessions
  <2>7. v.state = t.state
    BY <2>3 DEF Sessions
  <2> HIDE DEF v
  <2>8. CASE End(t, {})
    BY <2>3, <2>5, <2>8, EndTicks
  <2>9. CASE s' = v
    <3>1. s.graceSeq <= k
      BY <1>0, <2>5
    <3> QED BY <2>3, <2>5, <2>6, <2>7, <2>9, <3>1 DEF Ticks
  <2> QED BY <2>2, <2>8, <2>9
<1> QED BY <1>1, <1>2

LEMMA PicturedTicks ==
  ASSUME AudioShape, GraceInv, Pictured
  PROVE  Ticks
<1>0. s \in Sessions /\ s.graceSeq \in Nat /\ pauses' = pauses /\ gens \in Nat
  BY DEF AudioShape, Sessions, Pictured
<1>1. CASE s' = s
  BY <1>0, <1>1, TicksSame
<1>2. ASSUME NEW path \in Nat, Apply(s, path) PROVE Ticks
  <2> DEFINE new == [s EXCEPT !.artwork = path]
             g   == gens + 1
             r   == [new EXCEPT !.pipeArt = new.artwork, !.gen = g]
  <2>1. s' = new \/ s' = r \/ s' = ToIdle(new)
    BY <1>2 DEF Apply, RestartForArtwork, Keeps, AfterLoss, ExternalStop, Renewed
  <2> HIDE DEF g
  <2>2. new \in Sessions
    BY <1>0 DEF Sessions
  <2>3. new.state = s.state
    BY <1>0 DEF Sessions
  <2>4. new.timer = s.timer /\ new.graceSeq = s.graceSeq
    BY <1>0 DEF Sessions
  <2> HIDE DEF new
  <2>5. r.state = new.state
    BY <2>2 DEF Sessions
  <2>6. r.timer = new.timer /\ r.graceSeq = new.graceSeq
    BY <2>2 DEF Sessions
  <2> HIDE DEF r
  <2>7. CASE s' = ToIdle(new)
    BY <1>0, <2>2, <2>4, <2>7, ToIdleTicks
  <2>8. CASE s' = new \/ s' = r
    BY <1>0, <2>3, <2>4, <2>5, <2>6, <2>8, TicksSame
  <2> QED BY <2>1, <2>7, <2>8
<1>3. msgs # <<>> /\ msgs \in Seq(Messages)
  BY DEF Pictured, Take, AudioShape
<1>4. Head(msgs) \in Messages
  BY <1>3, TailFacts
<1>5. Head(msgs).of \in Nat
  BY <1>4 DEF Messages
<1> QED BY <1>1, <1>2, <1>5 DEF Pictured, Keeps

LEMMA HandlesKeepsGrace ==
  ASSUME AudioShape, AudioShape', GraceInv, Handles
  PROVE  GraceInv'
<1>0. s \in Sessions /\ s.graceSeq \in Nat /\ s.graceSeq <= s.graceSeq /\ (s.state = "idle" => s.timer = 0)
  <2>1. s \in Sessions /\ s.graceSeq \in Nat
    BY DEF AudioShape, Sessions
  <2>2. s.state = "idle" => s.timer = 0
    BY DEF GraceInv
  <2> QED BY <2>1, <2>2
<1>d. Dropped(s) \in Sessions /\ Dropped(s).graceSeq = s.graceSeq /\ (Dropped(s).state = "idle" => Dropped(s).timer = 0)
  BY <1>0, DroppedIs, DroppedTicks
<1>m. Event("stop") \in Messages /\ Event("stop").kind # "grace"
  BY MessageIs DEF Event, SenderEvents
<1>t. ASSUME NEW kinds, Take(kinds) PROVE OnlyNew(Event("stop")) /\ fired' = fired
  BY <1>m, <1>t, NewIs DEF Take
<1>k. ASSUME NEW kinds, Take(kinds), Ticks PROVE GraceInv'
  BY <1>k, <1>m, <1>t, GraceLater
<1>1. CASE Play
  BY <1>1, <1>k, PlayTicks DEF Play
<1>2. CASE Resume
  BY <1>2, <1>k, ResumeTicks DEF Resume
<1>3. CASE Pause
  BY <1>3, <1>k, PauseTicks DEF Pause
<1>4. CASE Grace
  <2>1. Take({"grace"}) /\ pauses' = pauses /\ (End(s, {}) \/ s' = s)
    BY <1>4 DEF Grace
  <2> QED BY <1>0, <1>k, <2>1, EndTicks, TicksSame
<1>5. CASE CoreStopped
  <2>1. Take({"stopped"}) /\ pauses' = pauses /\ (s' = ToIdle(s) \/ s' = s)
    BY <1>5 DEF CoreStopped, ExternalStop
  <2> QED BY <1>0, <1>k, <2>1, ToIdleTicks, TicksSame
<1>6. CASE Stop
  <2>1. Take({"stop"}) /\ End(Dropped(s), {s.artwork})
    BY <1>6 DEF Stop
  <2> QED BY <1>0, <1>d, <1>k, <2>1, EndTicks
<1>7. CASE Picture
  <2>1. PICK m \in Messages : m.kind \in {"ready", "unready"} /\ msgs' = <<m>> \o Tail(msgs)
    BY <1>7, PictureDoes
  <2>2. msgs # <<>> /\ fired' = fired /\ pauses' = pauses
    BY <1>7, PictureDoes
  <2> DEFINE k == s.artSeq + 1
  <2>3. s' = [s EXCEPT !.artSeq = k]
    BY <1>7 DEF Picture
  <2> HIDE DEF k
  <2>4. s'.state = s.state
    BY <1>0, <2>3 DEF Sessions
  <2>5. s'.timer = s.timer /\ s'.graceSeq = s.graceSeq
    BY <1>0, <2>3 DEF Sessions
  <2>6. OnlyNew(m)
    BY <2>1, <2>2, NewIs
  <2> QED BY <2>1, <2>2, <2>4, <2>5, <2>6, TicksSame, GraceLater
<1>8. CASE Fetch
  <2> DEFINE k == s.artSeq + 1
  <2>3. s' = [s EXCEPT !.artSeq = k] /\ Take({"url"}) /\ pauses' = pauses
    BY <1>8 DEF Fetch
  <2> HIDE DEF k
  <2>4. s'.state = s.state
    BY <1>0, <2>3 DEF Sessions
  <2>5. s'.timer = s.timer /\ s'.graceSeq = s.graceSeq
    BY <1>0, <2>3 DEF Sessions
  <2> QED BY <1>k, <2>3, <2>4, <2>5, TicksSame
<1>9. CASE Pictured
  BY <1>9, <1>k, PicturedTicks DEF Pictured
<1>10. CASE CloseRequest
  <2>1. msgs # <<>> /\ msgs' = Tail(msgs) /\ fired' = fired /\ End(Dropped(s), {s.artwork})
    BY <1>10 DEF CloseRequest
  <2>2. OnlyNew(Event("stop"))
    BY <1>m, <2>1, NewIs
  <2> QED BY <1>0, <1>d, <1>m, <2>1, <2>2, EndTicks, GraceLater
<1> QED BY <1>1, <1>2, <1>3, <1>4, <1>5, <1>6, <1>7, <1>8, <1>9, <1>10 DEF Handles

LEMMA KeepsGrace ==
  ASSUME AudioShape, AudioShape', GraceInv, [AudioNext]_audioVars
  PROVE  GraceInv'
<1>0. /\ s \in Sessions /\ s.graceSeq \in Nat /\ s.timer \in Nat /\ msgs \in Seq(Messages) /\ wire \in Seq(SenderEvents)
      /\ fired \subseteq Nat \X Nat /\ pauses \in Nat
  BY DEF AudioShape, Sessions
<1>k. /\ {"stopped", "grace", "unready", "ready", "close"} \subseteq SenderEvents \cup Reports
      /\ SenderEvents \subseteq SenderEvents \cup Reports /\ 0 \in Nat /\ "grace" \notin SenderEvents
      /\ "stop" \in SenderEvents
  BY DEF SenderEvents, Reports
<1>m. Event("stop") \in Messages /\ Event("stop").kind = "stop"
  BY <1>k, MessageIs DEF Event
<1>r. ASSUME UNCHANGED <<s, pauses>>, fired' \subseteq fired, NEW m \in Messages, m.kind # "grace",
             msgs' = msgs \/ msgs' = Append(msgs, m)
      PROVE  GraceInv'
  <2>1. OnlyNew(m)
    BY <1>r, NewIs
  <2>2. Ticks
    BY <1>r, TicksSame
  <2> QED BY <1>r, <2>1, <2>2, GraceLater
<1>1. CASE (\E kind \in SenderEvents : SenderActs(kind)) \/ SessionEnds \/ HelperUp \/ HelperExits \/ Backoff
           \/ HelperWrites \/ ReaderTakes \/ BeginStop \/ Reset \/ UNCHANGED audioVars
  <2>1. UNCHANGED <<s, pauses, fired, msgs>>
    BY <1>1 DEF SenderActs, SessionEnds, HelperUp, HelperExits, Backoff, HelperWrites, ReaderTakes, BeginStop,
                Reset, audioVars, sessionVars
  <2> QED BY <1>m, <1>r, <2>1
<1>3. CASE GraceFires
  <2>1. /\ s.timer # 0 /\ fired' = fired \cup {<<s.timer, pauses>>} /\ s' = [s EXCEPT !.timer = 0]
        /\ UNCHANGED <<pauses, msgs>>
    BY <1>3 DEF GraceFires
  <2>2. s'.state = s.state
    BY <1>0, <2>1 DEF Sessions
  <2>3. s'.timer = 0 /\ s'.graceSeq = s.graceSeq
    BY <1>0, <2>1 DEF Sessions
  <2>4. s.timer = s.graceSeq
    BY <2>1 DEF GraceInv
  <2>5. GraceOK(s.timer, pauses)
    BY <1>0, <2>4 DEF GraceOK
  <2>6. \A t \in fired' : GraceOK(t[1], t[2])
    BY <2>1, <2>5 DEF GraceInv
  <2>7. s.graceSeq = s'.graceSeq /\ s.state = s'.state /\ pauses = pauses'
    BY <2>1, <2>2, <2>3
  <2> QED BY <2>1, <2>3, <2>6, <2>7 DEF GraceInv, GraceOK
<1>4. CASE Deliver
  <2>1. Head(wire) \in SenderEvents /\ wire # <<>>
    BY <1>0, <1>4 DEF Deliver
  <2>2. Event(Head(wire)) \in Messages /\ Event(Head(wire)).kind = Head(wire)
    BY <1>k, <2>1, MessageIs DEF Event
  <2>3. msgs' = msgs \/ msgs' = Append(msgs, Event(Head(wire)))
    BY <1>4, <2>2, PostDoes DEF Deliver
  <2> QED BY <1>4, <1>k, <1>r, <2>1, <2>2, <2>3 DEF Deliver, sessionVars
<1>5. ASSUME NEW ref \in told, TellStopped(ref) PROVE GraceInv'
  <2>1. ref \in Nat
    BY DEF AudioShape
  <2>2. Message("stopped", ref, 0) \in Messages /\ Message("stopped", ref, 0).kind = "stopped"
    BY <1>k, <2>1, MessageIs
  <2>3. msgs' = msgs \/ msgs' = Append(msgs, Message("stopped", ref, 0))
    BY <1>5, <2>2, PostDoes DEF TellStopped
  <2> QED BY <1>5, <1>r, <2>2, <2>3 DEF TellStopped, sessionVars
<1>6. ASSUME NEW t \in fired, TellGrace(t) PROVE GraceInv'
  <2> DEFINE m == Message("grace", t[1], t[2])
  <2>1. t[1] \in Nat /\ t[2] \in Nat
    BY <1>0
  <2>2. m \in Messages /\ m.kind = "grace" /\ m.n = t[1] /\ m.of = t[2]
    BY <1>k, <2>1, MessageIs
  <2>3. Post(m) /\ UNCHANGED <<s, pauses>> /\ fired' = fired \ {t}
    BY <1>6 DEF TellGrace, sessionVars
  <2> HIDE DEF m
  <2>4. OnlyNew(m)
    BY <2>2, <2>3, PostDoes, NewIs
  <2>5. GraceOK(t[1], t[2])
    BY DEF GraceInv
  <2>6. ASSUME NEW i \in DOMAIN msgs', msgs'[i].kind = "grace"
        PROVE  GraceOK(msgs'[i].n, msgs'[i].of)
    BY <2>2, <2>4, <2>5, <2>6 DEF OnlyNew, GraceInv
  <2>7. ASSUME NEW i \in DOMAIN msgs', msgs'[i].kind = "grace"
        PROVE  GraceOK(msgs[i].n, msgs[i].of)'
    BY <2>3, <2>6, <2>7 DEF GraceOK
  <2>8. \A x \in fired' : GraceOK(x[1], x[2])'
    BY <2>3 DEF GraceInv, GraceOK
  <2> QED BY <2>3, <2>7, <2>8 DEF GraceInv
<1>7. ASSUME NEW n \in fetching, FetchArrives(n) PROVE GraceInv'
  BY <1>7, <1>m, <1>r DEF FetchArrives
<1>8. ASSUME NEW n \in fetching, FetchFails(n) PROVE GraceInv'
  <2>1. n \in Nat
    BY DEF AudioShape
  <2>2. Message("unready", n, 0) \in Messages /\ Message("unready", n, 0).kind = "unready"
    BY <1>k, <2>1, MessageIs
  <2>3. msgs' = msgs \/ msgs' = Append(msgs, Message("unready", n, 0))
    BY <1>8, <2>2, PostDoes DEF FetchFails
  <2> QED BY <1>8, <1>r, <2>2, <2>3 DEF FetchFails, sessionVars
<1>9. ASSUME NEW n \in posting, PostPicture(n) PROVE GraceInv'
  <2>1. n \in Nat
    BY DEF AudioShape
  <2>2. Message("ready", n, n) \in Messages /\ Message("ready", n, n).kind = "ready"
    BY <1>k, <2>1, MessageIs
  <2> QED BY <1>9, <1>r, <2>2 DEF PostPicture
<1>10. CASE Handles
  BY <1>10, HandlesKeepsGrace
<1>12. CASE AfterExit
  <2>1. msgs' = msgs \/ msgs' = Append(msgs, Event("stop"))
    BY <1>12, <1>m, PostDoes DEF AfterExit
  <2> QED BY <1>12, <1>m, <1>r, <2>1 DEF AfterExit, sessionVars
<1>13. CASE CloseSession
  <2>1. Event("close") \in Messages /\ Event("close").kind = "close"
    BY <1>k, MessageIs DEF Event
  <2> QED BY <1>13, <1>r, <2>1 DEF CloseSession, sessionVars
<1> QED BY <1>1, <1>3, <1>4, <1>5, <1>6, <1>7, <1>8, <1>9, <1>10, <1>12, <1>13 DEF AudioNext, Posts

LEMMA GraceInvariant == AudioSpec => [](AudioInv /\ GraceInv)
<1>1. AudioInit => GraceInv
  BY DEF AudioInit, GraceInv
<1>2. (AudioInv /\ GraceInv) /\ [AudioNext]_audioVars => (AudioInv /\ GraceInv)'
  BY KeepsShape, KeepsSession, KeepsPictures, KeepsGrace DEF AudioInv
<1> QED BY <1>1, <1>2, AudioStarts, PTL DEF AudioSpec

(* What a handler shows is what was asked for last. *)
LEMMA ShowsNewest ==
  ASSUME AudioShape, SessionInv, PictureInv, Handles, s'.artwork \notin {0, s.artwork}
  PROVE  s'.artwork = s.artSeq
<1>0. s \in Sessions /\ SameSession(s)
  BY DEF AudioShape, SameSession
<1>1. CASE Play
  BY <1>1, PlayDoes, StartedDoes, StartFailsDoes
<1>2. CASE Resume
  BY <1>2, ResumeDoes
<1>3. CASE Pause
  <2>1. ASSUME NEW t \in Sessions, SameSession(t), t.artwork = s.artwork, End(t, {}) PROVE FALSE
    BY <2>1, EndDoes DEF Idled
  <2> QED BY <1>3, <2>1, PauseDoes
<1>4. CASE Grace
  BY <1>0, <1>4, EndDoes DEF Grace, Idled
<1>5. CASE CoreStopped
  BY <1>0, <1>5, ExternalStopDoes DEF CoreStopped, Idled
<1>6. CASE Stop
  BY <1>6, StopDoes DEF Stop
<1>7. CASE Picture
  BY <1>7, PictureDoes
<1>8. CASE Fetch
  BY <1>8, FetchDoes
<1>9. CASE Pictured
  <2>1. msgs # <<>> /\ msgs \in Seq(Messages)
    BY <1>9 DEF Pictured, Take, AudioShape
  <2>2. CASE Head(msgs).kind = "ready" /\ Newest(Head(msgs).n)
    <3>1. Apply(s, Head(msgs).of) /\ Head(msgs) \in Messages
      BY <1>9, <2>1, <2>2, HeadPicture DEF Pictured
    <3>2. Head(msgs).of \in Nat
      BY <3>1 DEF Messages
    <3>3. s'.artwork = Head(msgs).of
      BY <3>1, <3>2, ApplyDoes DEF Shown
    <3>4. IsPicture(Head(msgs))
      BY <2>2, <3>3 DEF IsPicture
    <3> QED BY <2>1, <2>2, <3>3, <3>4, HeadPicture DEF Newest
  <2>3. CASE ~(Head(msgs).kind = "ready" /\ Newest(Head(msgs).n))
    BY <1>9, <2>3 DEF Pictured, Keeps
  <2> QED BY <2>2, <2>3
<1>10. CASE CloseRequest
  BY <1>10, StopDoes DEF CloseRequest
<1> QED BY <1>1, <1>2, <1>3, <1>4, <1>5, <1>6, <1>7, <1>8, <1>9, <1>10 DEF Handles

(* A grace time that ends the session is the one of the pause that goes on.*)
LEMMA EndsInTime ==
  ASSUME AudioShape, GraceInv, Handles, msgs # <<>>, Head(msgs).kind = "grace", s'.state # s.state
  PROVE  Head(msgs).of = pauses
<1>0. msgs \in Seq(Messages)
  BY DEF AudioShape
<1>1. Grace
  BY DEF Handles, Play, Resume, Pause, CoreStopped, Stop, Picture, Fetch, Pictured, CloseRequest, Take
<1>2. Head(msgs).n = s.graceSeq /\ s.state = "held"
  BY <1>1 DEF Grace, ThisPause
<1>3. 1 \in DOMAIN msgs /\ Head(msgs) = msgs[1]
  BY <1>0, TailFacts
<1> QED BY <1>2, <1>3 DEF GraceInv, GraceOK

LEMMA OnlyHandlersChange ==
  ASSUME AudioShape, [AudioNext]_audioVars, ~Handles
  PROVE  s'.artwork = s.artwork /\ s'.state = s.state
<1>1. s \in Sessions
  BY DEF AudioShape
<1>2. CASE GraceFires
  <2>1. s' = [s EXCEPT !.timer = 0]
    BY <1>2 DEF GraceFires
  <2>2. s'.artwork = s.artwork
    BY <1>1, <2>1 DEF Sessions
  <2>3. s'.state = s.state
    BY <1>1, <2>1 DEF Sessions
  <2> QED BY <2>2, <2>3
<1>3. CASE ~GraceFires
  <2>1. s' = s
    BY <1>3 DEF AudioNext, Posts, SenderActs, SessionEnds, Deliver, TellStopped, TellGrace, FetchArrives, FetchFails,
                PostPicture, HelperUp, HelperExits, AfterExit, Backoff, HelperWrites, ReaderTakes, BeginStop,
                CloseSession, Reset, audioVars, sessionVars
  <2> QED BY <2>1
<1> QED BY <1>2, <1>3

(* A fetch that was followed by a later request does not become the        *)
(* picture, and a grace time that ends the session is the one of the pause *)
(* that goes on (session.go, artworkReady and graceExpired).               *)
THEOREM StaleIsIgnored == AudioSpec => StaleChangesNothing
<1> DEFINE Honest == /\ s'.artwork \notin {0, s.artwork} => s'.artwork = s.artSeq
                     /\ msgs # <<>> /\ msgs' = Tail(msgs) /\ Head(msgs).kind = "grace" /\ s'.state # s.state
                          => Head(msgs).of = pauses
<1>1. AudioInv /\ GraceInv /\ [AudioNext]_audioVars => Honest
  BY ShowsNewest, EndsInTime, OnlyHandlersChange DEF AudioInv
<1>2. AudioInv /\ GraceInv /\ [AudioNext]_audioVars => [Honest]_audioVars
  BY <1>1
<1>3. StaleChangesNothing <=> [][Honest]_audioVars
  BY DEF StaleChangesNothing
<1> HIDE DEF Honest
<1> QED BY <1>2, <1>3, GraceInvariant, PTL DEF AudioSpec

(***************************************************************************)
(* The HLS buffer.                                                         *)
(***************************************************************************)

(* What one refresh, or OpenSession, fetches, and what of it is stored.    *)
Target  == IF opening THEN WarmSegments(source[1], source[2]) ELSE Missing(source[1], source[2])
Storing == step \in {"fetch", "put"}
Stored  == IF Storing THEN Target \ ToSet(todo) ELSE {}
Held    == known \cup Stored
Wanted  == IF Storing THEN known \cup Target ELSE known

(* The segments that OpenSession fetches fit into the cache: the settings  *)
(* only say that there is room for as many.                                *)
WarmFits == 2 * StartSegments <= MaxBytes

Ascends(q) == \A i, j \in DOMAIN q : i < j => q[i] < q[j]
Convex(S)  == \A a, b \in S, m \in Nat : a <= m /\ m <= b => m \in S

HlsShape ==
    /\ newest \in Nat /\ step \in Steps /\ diskErrors \in Nat
    /\ opening \in BOOLEAN /\ stale \in BOOLEAN /\ outrun \in BOOLEAN
    /\ closing \in BOOLEAN /\ removed \in BOOLEAN
    /\ source \in Nat \X Nat /\ source[1] <= Oldest
    /\ source[1] <= source[2] /\ source[2] <= newest
    /\ todo \in Seq(Nat) /\ entries \in Seq(Nat) /\ listed \in Seq(Nat)
    /\ known \subseteq 0..source[2] /\ disk \subseteq Nat

(* What is on disk, and that it is gone in the end.                        *)
FilesKept ==
    /\ IsInjective(entries) /\ total = TotalOf(entries)
    /\ Len(entries) <= MaxCached /\ total <= MaxBytes
    /\ removed \/ ToSet(entries) \subseteq disk
    /\ disk \subseteq ToSet(entries) \/ diskErrors > 0
    /\ removed => step = "done" /\ disk = {} /\ listed = <<>>

(* A refresh brings what is newer than all it knows, in order.             *)
TodoKept ==
    /\ Ascends(todo)
    /\ ~Storing => todo = <<>>
    /\ Storing =>
         /\ ToSet(todo) \subseteq Target
         /\ \A a \in Held, b \in ToSet(todo) : a < b
         /\ \A a \in known, b \in Target : a < b

(* What is held is cached in order, and evicted in order: what is newer    *)
(* than something cached is cached, and so is the newest.                  *)
OrderKept ==
    /\ \A i, j \in DOMAIN entries : i < j /\ entries[i] \in Held /\ entries[j] \in Held
          => entries[i] < entries[j]
    /\ \A a \in Held \cap ToSet(entries), b \in Held : a < b => b \in ToSet(entries)
    /\ source[2] \in Held => source[2] \in ToSet(entries)

(* What is known has no holes, but where the source had gone on.           *)
NoHoles ==
    /\ \A a, b \in known, m \in Nat : Oldest <= m /\ a <= m /\ m <= b => m \in known
    /\ ~outrun => Convex(Wanted)

(* OpenSession's segments stay.                                            *)
WarmKept ==
    /\ opening => listed = <<>> /\ step # "sleep"
    /\ opening /\ step \notin {"publish", "done"} => known = {}
    /\ opening /\ step = "load" => entries = <<>>
    /\ opening /\ Storing /\ WarmFits => ToSet(entries) = Stored

(* The playlist is what is known after a refresh that succeeded; it may    *)
(* have stayed behind since, but never runs ahead.                         *)
ListedKept ==
    /\ Idle => listed = UpTo(known)
    /\ listed # <<>> =>
          known # {} /\ Last(listed) <= source[2] /\ \A n \in known : Head(listed) <= n
    /\ step = "publish" /\ ~opening => source[2] \in known
    /\ WarmFits /\ (step = "publish" \/ Idle) => known \subseteq ToSet(entries)
    /\ ~outrun /\ listed # <<>> => listed = [i \in 1..Len(listed) |-> Head(listed) + i - 1]

HlsInv == HlsShape /\ FilesKept /\ TodoKept /\ OrderKept /\ NoHoles /\ WarmKept /\ ListedKept

LEMMA HlsSmallest ==
    ASSUME NEW T, T \subseteq Nat, T # {} PROVE \E x \in T : \A y \in T : x <= y
<1> DEFINE R == OpToRel(<, Nat)
<1>1. IsWellFoundedOn(R, Nat)
  BY NatLessThanWellFounded
<1>2. \A x, y \in Nat : y < x => <<y, x>> \in R
  BY DEF OpToRel
<1> HIDE DEF R
<1>3. PICK x \in T : \A y \in T : ~(<<y, x>> \in R)
  BY <1>1, WFMin
<1>4. \A y \in T : ~(y < x)
  BY <1>2, <1>3
<1>5. \A y \in T : x <= y
  BY <1>4
<1> QED BY <1>5

(* Induction, for a set of numbers.                                        *)
LEMMA Counting ==
    ASSUME NEW T, 0 \in T, \A n \in Nat : n \in T => n + 1 \in T PROVE Nat \subseteq T
<1> SUFFICES ASSUME Nat \ T # {} PROVE FALSE
  OBVIOUS
<1>1. PICK x \in Nat \ T : \A y \in Nat \ T : x <= y
  BY HlsSmallest
<1>2. x - 1 \in Nat
  BY <1>1
<1>3. x - 1 \in T
  BY <1>1, <1>2
<1>4. x - 1 + 1 \in T
  BY <1>2, <1>3
<1> QED BY <1>4

LEMMA MinIs ==
    ASSUME NEW T, T \subseteq Nat, T # {} PROVE Min(T) \in T /\ \A y \in T : Min(T) <= y
<1>1. \E x \in T : \A y \in T : x =< y
  BY HlsSmallest
<1> QED BY <1>1 DEF Min

(* Every finite set of numbers can be put in order.                        *)
LEMMA Sortable ==
    \A n \in Nat : \A S \in SUBSET Nat :
        IsFiniteSet(S) /\ Cardinality(S) = n => \E q \in [1..n -> S] : Ascends(q)
<1> DEFINE Sorts(n) == \A S \in SUBSET Nat :
               IsFiniteSet(S) /\ Cardinality(S) = n => \E q \in [1..n -> S] : Ascends(q)
           T == {n \in Nat : Sorts(n)}
<1>1. 0 \in T
  <2> SUFFICES ASSUME NEW S \in SUBSET Nat, IsFiniteSet(S), Cardinality(S) = 0
               PROVE  \E q \in [1..0 -> S] : Ascends(q)
    OBVIOUS
  <2>1. [i \in 1..0 |-> 0] \in [1..0 -> S] /\ Ascends([i \in 1..0 |-> 0])
    BY DEF Ascends
  <2> QED BY <2>1
<1>2. ASSUME NEW n \in Nat, n \in T PROVE n + 1 \in T
  <2> SUFFICES ASSUME NEW S \in SUBSET Nat, IsFiniteSet(S), Cardinality(S) = n + 1
               PROVE  \E q \in [1..(n + 1) -> S] : Ascends(q)
    OBVIOUS
  <2>1. S # {}
    BY FS_EmptySet
  <2>2. PICK x \in S : \A y \in S : x <= y
    BY <2>1, HlsSmallest
  <2>3. IsFiniteSet(S \ {x}) /\ Cardinality(S \ {x}) = n
    BY FS_RemoveElement
  <2>4. PICK q \in [1..n -> S \ {x}] : Ascends(q)
    BY <1>2, <2>3
  <2> DEFINE r == [i \in 1..(n + 1) |-> IF i = 1 THEN x ELSE q[i - 1]]
  <2>5. \A i \in 1..(n + 1) : i # 1 => i - 1 \in 1..n /\ q[i - 1] \in S \ {x}
    BY <2>4
  <2>6. r \in [1..(n + 1) -> S]
    BY <2>5
  <2>7. ASSUME NEW i \in 1..(n + 1), NEW j \in 1..(n + 1), i < j PROVE r[i] < r[j]
    <3>1. r[j] = q[j - 1] /\ r[j] \in S \ {x} /\ j - 1 \in 1..n
      BY <2>5, <2>7
    <3>2. CASE i = 1
      <4>1. r[i] = x
        BY <3>2
      <4>2. x \in Nat /\ r[j] \in Nat /\ x <= r[j] /\ r[j] # x
        BY <2>2, <3>1
      <4> HIDE DEF r
      <4> QED BY <4>1, <4>2
    <3>3. CASE i # 1
      <4>1. r[i] = q[i - 1] /\ i - 1 \in 1..n /\ i - 1 < j - 1
        BY <2>5, <2>7, <3>3
      <4> QED BY <2>4, <3>1, <4>1 DEF Ascends
    <3> QED BY <3>2, <3>3
  <2>8. Ascends(r)
    BY <2>6, <2>7 DEF Ascends
  <2> QED BY <2>6, <2>8
<1> HIDE DEF T
<1>3. Nat \subseteq T
  BY <1>1, <1>2, Counting
<1> QED BY <1>3 DEF T

LEMMA UpToIs ==
    ASSUME NEW S \in SUBSET Nat, IsFiniteSet(S)
    PROVE  /\ UpTo(S) \in [1..Cardinality(S) -> S] /\ Cardinality(S) \in Nat
           /\ UpTo(S) \in Seq(S) /\ UpTo(S) \in Seq(Nat) /\ Ascends(UpTo(S)) /\ ToSet(UpTo(S)) = S
           /\ UpTo(S) = <<>> <=> S = {}
<1>1. Cardinality(S) \in Nat
  BY FS_CardinalityType
<1>2. \E q \in [1..Cardinality(S) -> S] : Ascends(q)
  BY <1>1, Sortable
<1>3. UpTo(S) = CHOOSE q \in [1..Cardinality(S) -> S] : \A i, j \in DOMAIN q : i < j => q[i] < q[j]
  BY DEF UpTo
<1>4. \E q \in [1..Cardinality(S) -> S] : \A i, j \in DOMAIN q : i < j => q[i] < q[j]
  BY <1>2 DEF Ascends
<1>5. UpTo(S) \in [1..Cardinality(S) -> S] /\ Ascends(UpTo(S))
  BY <1>3, <1>4 DEF Ascends
<1>6. UpTo(S) \in Seq(S) /\ DOMAIN UpTo(S) = 1..Cardinality(S) /\ Len(UpTo(S)) = Cardinality(S)
  BY <1>1, <1>5
<1>7. UpTo(S) \in Injection(1..Cardinality(S), S)
  <2>0. \A i, j \in 1..Cardinality(S) : UpTo(S)[i] \in Nat /\ (i < j => UpTo(S)[i] < UpTo(S)[j])
    BY <1>5, <1>6 DEF Ascends
  <2>1. \A i, j \in 1..Cardinality(S) : UpTo(S)[i] = UpTo(S)[j] => ~(i < j) /\ ~(j < i)
    BY <2>0
  <2>2. \A i, j \in 1..Cardinality(S) : UpTo(S)[i] = UpTo(S)[j] => i = j
    BY <1>1, <2>1
  <2> QED BY <1>5, <2>2 DEF Injection, IsInjective
<1>8. Cardinality(1..Cardinality(S)) = Cardinality(S)
  BY <1>1, FS_Interval
<1>9. UpTo(S) \in Surjection(1..Cardinality(S), S)
  BY <1>7, <1>8, FS_Injection
<1>10. ToSet(UpTo(S)) = S
  BY <1>5, <1>6, <1>9 DEF ToSet, Surjection
<1>11. UpTo(S) = <<>> <=> S = {}
  <2>1. UpTo(S) = <<>> <=> Cardinality(S) = 0
    BY <1>1, <1>6
  <2> QED BY <2>1, FS_EmptySet
<1>12. UpTo(S) \in [1..Cardinality(S) -> Nat]
  BY <1>5
<1>13. UpTo(S) \in Seq(Nat)
  BY <1>1, <1>12
<1> QED BY <1>1, <1>5, <1>6, <1>10, <1>11, <1>13

(* The ends of what is in order.                                           *)
LEMMA EndsOf ==
    ASSUME NEW q \in Seq(Nat), Ascends(q), q # <<>>
    PROVE  /\ Head(q) \in ToSet(q) /\ \A n \in ToSet(q) : Head(q) <= n
           /\ Last(q) \in ToSet(q) /\ \A n \in ToSet(q) : n <= Last(q)
<1>1. Len(q) \in Nat \ {0} /\ DOMAIN q = 1..Len(q) /\ Head(q) = q[1] /\ Last(q) = q[Len(q)]
  BY DEF Last
<1>2. \A i \in 1..Len(q) : q[i] \in Nat
  OBVIOUS
<1>3. ASSUME NEW i \in 1..Len(q) PROVE q[1] <= q[i] /\ q[i] <= q[Len(q)]
  <2>0. Len(q) \in Nat /\ Len(q) >= 1 /\ i \in Nat /\ 1 <= i /\ i <= Len(q)
    BY <1>1
  <2>1. /\ 1 \in 1..Len(q) /\ Len(q) \in 1..Len(q)
        /\ 1 = i \/ 1 < i
        /\ i = Len(q) \/ i < Len(q)
    BY <2>0
  <2>2. (1 < i => q[1] < q[i]) /\ (i < Len(q) => q[i] < q[Len(q)])
    BY <1>1, <2>1 DEF Ascends
  <2> QED BY <1>2, <2>1, <2>2
<1> QED BY <1>1, <1>3 DEF ToSet

LEMMA TailOf ==
    ASSUME NEW q \in Seq(Nat), Ascends(q), q # <<>>
    PROVE  /\ Tail(q) \in Seq(Nat) /\ Ascends(Tail(q))
           /\ ToSet(Tail(q)) = ToSet(q) \ {Head(q)}
           /\ \A n \in ToSet(Tail(q)) : Head(q) < n
<1>1. Len(q) \in Nat \ {0} /\ DOMAIN q = 1..Len(q) /\ Head(q) = q[1]
  OBVIOUS
<1>2. /\ Tail(q) \in Seq(Nat) /\ DOMAIN Tail(q) = 1..(Len(q) - 1)
      /\ \A i \in 1..(Len(q) - 1) : Tail(q)[i] = q[i + 1] /\ i + 1 \in 1..Len(q) /\ 1 < i + 1
  <2>1. Tail(q) \in Seq(Nat) /\ Len(Tail(q)) = Len(q) - 1 /\ DOMAIN Tail(q) = 1..Len(Tail(q))
    BY <1>1
  <2>2. \A i \in 1..Len(Tail(q)) : Tail(q)[i] = q[i + 1] /\ i + 1 \in 1..Len(q) /\ 1 < i + 1
    BY <1>1, <2>1
  <2> QED BY <2>1, <2>2
<1>3. Ascends(Tail(q))
  <2>1. \A i, j \in 1..(Len(q) - 1) : i < j => q[i + 1] < q[j + 1]
    <3>1. \A i, j \in 1..(Len(q) - 1) : i < j => i + 1 < j + 1
      BY <1>1
    <3> QED BY <1>1, <1>2, <3>1 DEF Ascends
  <2> QED BY <1>2, <2>1 DEF Ascends
<1>4. \A i \in 1..(Len(q) - 1) : Head(q) < Tail(q)[i] /\ Tail(q)[i] \in ToSet(q)
  BY <1>1, <1>2 DEF Ascends, ToSet
<1>5. \A i \in 1..Len(q) : i # 1 => i - 1 \in 1..(Len(q) - 1) /\ q[i] = Tail(q)[i - 1]
  BY <1>1, <1>2
<1>6. \A i \in 1..Len(q) : q[i] # Head(q) => q[i] \in ToSet(Tail(q))
  BY <1>1, <1>2, <1>5 DEF ToSet
<1>7. \A n \in ToSet(q) \ {Head(q)} : n \in ToSet(Tail(q))
  BY <1>1, <1>6 DEF ToSet
<1>8. \A n \in ToSet(Tail(q)) : Head(q) < n /\ n \in ToSet(q)
  BY <1>2, <1>4 DEF ToSet
<1>9. Head(q) \in Nat
  BY <1>1
<1> QED BY <1>2, <1>3, <1>7, <1>8, <1>9

-----------------------------------------------------------------------------
(* The cache.                                                              *)
LEMMA Interval == ASSUME NEW n \in Nat PROVE IsFiniteSet(1..n) /\ Cardinality(1..n) = n
<1>1. 1 \in Int /\ n \in Int
  OBVIOUS
<1>2. IsFiniteSet(1..n) /\ Cardinality(1..n) = IF 1 > n THEN 0 ELSE n - 1 + 1
  BY <1>1, FS_Interval
<1> QED BY <1>2

LEMMA ElementsOf ==
    ASSUME NEW q \in Seq(Nat)
    PROVE  /\ IsFiniteSet(ToSet(q)) /\ ToSet(q) \subseteq Nat
           /\ Len(q) \in Nat /\ DOMAIN q = 1..Len(q) /\ Cardinality(ToSet(q)) <= Len(q)
           /\ IsInjective(q) => Cardinality(ToSet(q)) = Len(q)
<1>0. Len(q) \in Nat /\ DOMAIN q = 1..Len(q)
  OBVIOUS
<1>1. Len(q) \in Nat /\ DOMAIN q = 1..Len(q) /\ IsFiniteSet(1..Len(q)) /\ Cardinality(1..Len(q)) = Len(q)
  BY <1>0, Interval
<1>2. ToSet(q) = {q[i] : i \in 1..Len(q)} /\ ToSet(q) \subseteq Nat
  BY <1>1 DEF ToSet
<1>3. q \in Surjection(1..Len(q), ToSet(q))
  BY <1>1, <1>2 DEF Surjection
<1>4. /\ IsFiniteSet(ToSet(q)) /\ Cardinality(ToSet(q)) <= Cardinality(1..Len(q))
      /\ Cardinality(ToSet(q)) = Cardinality(1..Len(q)) <=> q \in Injection(1..Len(q), ToSet(q))
  BY <1>1, <1>3, FS_Surjection
<1>5. IsInjective(q) => q \in Injection(1..Len(q), ToSet(q))
  BY <1>3 DEF Injection, Surjection
<1> QED BY <1>1, <1>2, <1>4, <1>5

LEMMA BytesAre == \A n \in Nat : Bytes(n) \in {1, 2}
BY DEF Bytes

LEMMA SizeOf ==
    ASSUME NEW q \in Seq(Nat)
    PROVE  /\ TotalOf(q) \in Nat /\ TotalOf(q) <= 2 * Cardinality(ToSet(q))
           /\ \A r \in Seq(Nat) : ToSet(r) \subseteq ToSet(q) => TotalOf(r) <= TotalOf(q)
           /\ \A n \in Nat : ToSet(q) = {n} => TotalOf(q) = Bytes(n)
           /\ ToSet(q) = {} => TotalOf(q) = 0
<1> DEFINE Of(r) == UNION {{n} \X (1..Bytes(n)) : n \in ToSet(r)}
<1>1. IsFiniteSet(ToSet(q)) /\ ToSet(q) \subseteq Nat
  BY ElementsOf
<1>2. IsFiniteSet(1..2) /\ Cardinality(1..2) = 2
  BY Interval
<1>3. IsFiniteSet(ToSet(q) \X (1..2)) /\ Cardinality(ToSet(q) \X (1..2)) = Cardinality(ToSet(q)) * 2
  BY <1>1, <1>2, FS_Product
<1>4. Of(q) \subseteq ToSet(q) \X (1..2)
  BY <1>1, BytesAre
<1>5. IsFiniteSet(Of(q)) /\ Cardinality(Of(q)) <= Cardinality(ToSet(q) \X (1..2))
  BY <1>3, <1>4, FS_Subset
<1>6. TotalOf(q) = Cardinality(Of(q))
  BY DEF TotalOf
<1>7. TotalOf(q) \in Nat /\ Cardinality(ToSet(q)) \in Nat
  BY <1>1, <1>5, <1>6, FS_CardinalityType
<1>8. ASSUME NEW r \in Seq(Nat), ToSet(r) \subseteq ToSet(q) PROVE TotalOf(r) <= TotalOf(q)
  <2>1. Of(r) \subseteq Of(q)
    BY <1>8
  <2>2. Cardinality(Of(r)) <= Cardinality(Of(q))
    BY <1>5, <2>1, FS_Subset
  <2> QED BY <1>6, <2>2 DEF TotalOf
<1>9. ASSUME NEW n \in Nat, ToSet(q) = {n} PROVE TotalOf(q) = Bytes(n)
  <2>1. Of(q) = {n} \X (1..Bytes(n))
    BY <1>9
  <2>2. IsFiniteSet({n}) /\ Cardinality({n}) = 1
    BY FS_Singleton
  <2>3. Bytes(n) \in Nat /\ 1 * Bytes(n) = Bytes(n)
    BY BytesAre
  <2>4. IsFiniteSet(1..Bytes(n)) /\ Cardinality(1..Bytes(n)) = Bytes(n)
    BY <2>3, Interval
  <2>5. Cardinality({n} \X (1..Bytes(n))) = 1 * Bytes(n)
    BY <2>2, <2>4, FS_Product
  <2> QED BY <1>6, <2>1, <2>3, <2>5
<1>10. ToSet(q) = {} => TotalOf(q) = 0
  <2>1. ToSet(q) = {} => Of(q) = {}
    OBVIOUS
  <2> QED BY <1>6, <2>1, FS_EmptySet
<1> HIDE DEF Of
<1>11. TotalOf(q) <= 2 * Cardinality(ToSet(q))
  BY <1>3, <1>5, <1>6, <1>7
<1> QED BY <1>7, <1>8, <1>9, <1>10, <1>11

(* Segments that are cached apart weigh together what they weigh.          *)
LEMMA SumOf ==
    ASSUME NEW q \in Seq(Nat), NEW a \in Seq(Nat), NEW b \in Seq(Nat),
           ToSet(q) = ToSet(a) \cup ToSet(b), ToSet(a) \cap ToSet(b) = {}
    PROVE  TotalOf(q) = TotalOf(a) + TotalOf(b)
<1> DEFINE Of(r) == UNION {{n} \X (1..Bytes(n)) : n \in ToSet(r)}
<1>1. \A r \in Seq(Nat) : IsFiniteSet(Of(r))
  <2> SUFFICES ASSUME NEW r \in Seq(Nat) PROVE IsFiniteSet(Of(r))
    OBVIOUS
  <2>1. IsFiniteSet(ToSet(r)) /\ ToSet(r) \subseteq Nat
    BY ElementsOf
  <2>2. IsFiniteSet(1..2)
    BY Interval
  <2>3. IsFiniteSet(ToSet(r) \X (1..2))
    BY <2>1, <2>2, FS_Product
  <2>4. Of(r) \subseteq ToSet(r) \X (1..2)
    BY <2>1, BytesAre
  <2> QED BY <2>3, <2>4, FS_Subset
<1>2. Of(q) = Of(a) \cup Of(b)
  OBVIOUS
<1>3. Of(a) \cap Of(b) = {}
  OBVIOUS
<1>4. \A r \in Seq(Nat) : TotalOf(r) = Cardinality(Of(r)) /\ TotalOf(r) \in Nat
  BY SizeOf DEF TotalOf
<1> HIDE DEF Of
<1>5. Cardinality(Of(a) \cup Of(b)) = Cardinality(Of(a)) + Cardinality(Of(b)) - Cardinality(Of(a) \cap Of(b))
  BY <1>1, FS_Union
<1>6. Cardinality(Of(a) \cap Of(b)) = 0
  BY <1>3, FS_EmptySet
<1>7. /\ TotalOf(q) = Cardinality(Of(q)) /\ TotalOf(a) = Cardinality(Of(a)) /\ TotalOf(a) \in Nat
      /\ TotalOf(b) = Cardinality(Of(b)) /\ TotalOf(b) \in Nat
  BY <1>4
<1>8. TotalOf(q) = TotalOf(a) + TotalOf(b) - 0
  BY <1>2, <1>5, <1>6, <1>7
<1> QED BY <1>7, <1>8

LEMMA OneMore ==
    ASSUME NEW q \in Seq(Nat), NEW r \in Seq(Nat), NEW n \in Nat,
           ToSet(q) = ToSet(r) \cup {n}, n \notin ToSet(r)
    PROVE  TotalOf(q) = TotalOf(r) + Bytes(n)
<1>1. <<n>> \in Seq(Nat) /\ ToSet(<<n>>) = {n}
  BY DEF ToSet
<1>2. TotalOf(<<n>>) = Bytes(n)
  BY <1>1, SizeOf
<1>3. ToSet(q) = ToSet(r) \cup ToSet(<<n>>) /\ ToSet(r) \cap ToSet(<<n>>) = {}
  BY <1>1
<1>4. TotalOf(q) = TotalOf(r) + TotalOf(<<n>>)
  BY <1>1, <1>3, SumOf
<1> QED BY <1>2, <1>4

LEMMA PartOf ==
    ASSUME NEW q \in Seq(Nat), NEW k \in 0..Len(q)
    PROVE  /\ SubSeq(q, k + 1, Len(q)) \in Seq(Nat) /\ Len(SubSeq(q, k + 1, Len(q))) = Len(q) - k
           /\ \A i \in 1..(Len(q) - k) : SubSeq(q, k + 1, Len(q))[i] = q[i + k] /\ i + k \in 1..Len(q)
<1>1. Len(q) \in Nat /\ k \in Nat /\ k + 1 \in Int /\ DOMAIN q = 1..Len(q)
  OBVIOUS
<1> DEFINE r == SubSeq(q, k + 1, Len(q))
<1>2. Len(q) \in Int /\ \A i \in (k + 1)..Len(q) : q[i] \in Nat
  BY <1>1
<1>3. /\ r \in Seq(Nat) /\ Len(r) = IF k + 1 <= Len(q) THEN Len(q) - (k + 1) + 1 ELSE 0
      /\ \A i \in 1..(Len(q) - (k + 1) + 1) : r[i] = q[k + 1 + i - 1]
  BY <1>1, <1>2, SubSeqProperties
<1>4. Len(q) - (k + 1) + 1 = Len(q) - k /\ k <= Len(q)
  BY <1>1
<1>5. \A i \in 1..(Len(q) - k) : k + 1 + i - 1 = i + k /\ i + k \in 1..Len(q)
  BY <1>1, <1>4
<1> HIDE DEF r
<1>6. Len(r) = Len(q) - k
  <2>1. ASSUME NEW x \in Nat, x >= k
        PROVE  (IF k + 1 <= x THEN x - (k + 1) + 1 ELSE 0) = x - k
    BY <1>1, <2>1
  <2>2. Len(q) \in Nat /\ Len(q) >= k
    BY <1>1, <1>4
  <2>3. (IF k + 1 <= Len(q) THEN Len(q) - (k + 1) + 1 ELSE 0) = Len(q) - k
    BY <2>1, <2>2
  <2> QED BY <1>3, <2>3
<1>7. \A i \in 1..(Len(q) - k) : r[i] = q[i + k]
  BY <1>3, <1>4, <1>5
<1> QED BY <1>3, <1>5, <1>6, <1>7 DEF r

(* The running sum is what remains weighs, after any number of evictions. *)
LEMMA LeftIs ==
    ASSUME NEW q \in Seq(Nat), IsInjective(q), NEW k \in 0..Len(q)
    PROVE  SumLeft(q, TotalOf(q), k) = TotalOf(SubSeq(q, k + 1, Len(q)))
<1> DEFINE a == SubSeq(q, 1, k)
           b == SubSeq(q, k + 1, Len(q))
<1>1. Len(q) \in Nat /\ k \in Nat /\ k <= Len(q) /\ DOMAIN q = 1..Len(q)
  OBVIOUS
<1>2. a \in Seq(Nat) /\ Len(a) = k /\ \A i \in 1..k : a[i] = q[i]
  <2>1. 1 \in Int /\ k \in Int /\ \A i \in 1..k : q[i] \in Nat
    BY <1>1
  <2>2. /\ a \in Seq(Nat) /\ Len(a) = (IF 1 <= k THEN k - 1 + 1 ELSE 0)
        /\ \A i \in 1..(k - 1 + 1) : a[i] = q[1 + i - 1]
    BY <2>1, SubSeqProperties
  <2>3. k - 1 + 1 = k /\ \A i \in 1..k : 1 + i - 1 = i
    BY <1>1
  <2> HIDE DEF a
  <2>4. (IF 1 <= k THEN k - 1 + 1 ELSE 0) = k
    BY <1>1
  <2> QED BY <2>2, <2>3, <2>4
<1>3. /\ b \in Seq(Nat) /\ Len(b) = Len(q) - k
      /\ \A i \in 1..(Len(q) - k) : b[i] = q[i + k] /\ i + k \in 1..Len(q)
  BY PartOf
<1> HIDE DEF a, b
<1>4. DOMAIN a = 1..k /\ DOMAIN b = 1..(Len(q) - k)
  BY <1>2, <1>3
<1>5. \A i \in 1..k : i \in 1..Len(q)
  BY <1>1
<1>6. \A i \in 1..Len(q) : i \in 1..k \/ (i - k \in 1..(Len(q) - k) /\ i - k + k = i)
  BY <1>1
<1>7. ToSet(q) = ToSet(a) \cup ToSet(b)
  <2>1. ToSet(a) \subseteq ToSet(q) /\ ToSet(b) \subseteq ToSet(q)
    <3>1. \A i \in 1..k : a[i] \in ToSet(q)
      BY <1>1, <1>2, <1>5 DEF ToSet
    <3>2. \A i \in 1..(Len(q) - k) : b[i] \in ToSet(q)
      BY <1>1, <1>3 DEF ToSet
    <3> QED BY <1>4, <3>1, <3>2 DEF ToSet
  <2>2. \A i \in 1..Len(q) : q[i] \in ToSet(a) \cup ToSet(b)
    <3> SUFFICES ASSUME NEW i \in 1..Len(q) PROVE q[i] \in ToSet(a) \cup ToSet(b)
      OBVIOUS
    <3>1. CASE i \in 1..k
      BY <1>2, <1>4, <3>1 DEF ToSet
    <3>2. CASE i - k \in 1..(Len(q) - k) /\ i - k + k = i
      <4>1. b[i - k] = q[i]
        BY <1>3, <3>2
      <4> QED BY <1>4, <3>2, <4>1 DEF ToSet
    <3> QED BY <1>6, <3>1, <3>2
  <2> QED BY <1>1, <2>1, <2>2 DEF ToSet
<1>8. ToSet(a) \cap ToSet(b) = {}
  <2>1. ASSUME NEW i \in 1..k, NEW j \in 1..(Len(q) - k), a[i] = b[j] PROVE FALSE
    <3>1. q[i] = q[j + k] /\ i \in DOMAIN q /\ j + k \in DOMAIN q
      BY <1>1, <1>2, <1>3, <1>5, <2>1
    <3>2. i = j + k
      BY <3>1 DEF IsInjective
    <3> QED BY <1>1, <3>2
  <2>2. \A x \in ToSet(a) : \E i \in 1..k : x = a[i]
    BY <1>4 DEF ToSet
  <2>3. \A x \in ToSet(b) : \E j \in 1..(Len(q) - k) : x = b[j]
    BY <1>4 DEF ToSet
  <2> QED BY <2>1, <2>2, <2>3
<1>9. TotalOf(q) = TotalOf(a) + TotalOf(b)
  BY <1>2, <1>3, <1>7, <1>8, SumOf
<1>10. TotalOf(a) \in Nat /\ TotalOf(b) \in Nat
  BY <1>2, <1>3, SizeOf
<1>11. SumLeft(q, TotalOf(q), k) = TotalOf(q) - TotalOf(a)
  BY DEF SumLeft, a
<1>12. SumLeft(q, TotalOf(q), k) = TotalOf(b)
  BY <1>9, <1>10, <1>11
<1> QED BY <1>12 DEF b

TooMuch(q) == OverLimit(q, TotalOf(q))

(* What enforceLimits leaves is a part within the limits, with the newest  *)
(* entry if that fits, and everything when everything fits.                *)
LEMMA EnforcedIs ==
    ASSUME NEW q \in Seq(Nat), IsInjective(q), NEW sum, sum = TotalOf(q)
    PROVE  /\ Excess(q, sum) \in 0..Len(q) /\ Enforced(q, sum) = SubSeq(q, Excess(q, sum) + 1, Len(q))
           /\ SumLeft(q, sum, Excess(q, sum)) = TotalOf(Enforced(q, sum))
           /\ ~TooMuch(Enforced(q, sum))
           /\ q # <<>> /\ Bytes(Last(q)) <= MaxBytes => Excess(q, sum) < Len(q)
           /\ ~TooMuch(q) => Excess(q, sum) = 0 /\ Enforced(q, sum) = q
<1> DEFINE Fits(k) == ~TooMuch(SubSeq(q, k + 1, Len(q)))
           F == {k \in 0..Len(q) : Fits(k)}
<1>0. Len(q) \in Nat
  OBVIOUS
<1>a. \A k \in 0..Len(q) : OverLimit(Left(q, k), SumLeft(q, sum, k)) <=> TooMuch(SubSeq(q, k + 1, Len(q)))
  BY LeftIs DEF TooMuch, Left
<1>1. Len(q) \in F
  <2>1. SubSeq(q, Len(q) + 1, Len(q)) \in Seq(Nat) /\ Len(SubSeq(q, Len(q) + 1, Len(q))) = 0
    BY <1>0, PartOf
  <2>2. ToSet(SubSeq(q, Len(q) + 1, Len(q))) = {}
    BY <2>1 DEF ToSet
  <2>3. TotalOf(SubSeq(q, Len(q) + 1, Len(q))) = 0
    BY <2>1, <2>2, SizeOf
  <2> QED BY <1>0, <2>1, <2>3, HlsAssumption DEF TooMuch, OverLimit
<1>2. F \subseteq Nat /\ F # {}
  BY <1>0, <1>1
<1>3. PICK k \in F : \A j \in F : k <= j
  BY <1>2, HlsSmallest
<1>4. k \in 0..Len(q) /\ Fits(k) /\ \A j \in 0..(k - 1) : j \in 0..Len(q) /\ TooMuch(SubSeq(q, j + 1, Len(q)))
  <2>1. k \in 0..Len(q) /\ Fits(k)
    OBVIOUS
  <2>2. \A j \in 0..(k - 1) : j \in 0..Len(q) /\ ~(k <= j)
    BY <1>0, <2>1
  <2>3. \A j \in 0..(k - 1) : j \notin F
    BY <1>3, <2>2
  <2> QED BY <2>1, <2>2, <2>3
<1>5. Excess(q, sum) = CHOOSE n \in 0..Len(q) :
                    /\ n = Len(q) \/ ~OverLimit(Left(q, n), SumLeft(q, sum, n))
                    /\ \A j \in 0..(n - 1) : OverLimit(Left(q, j), SumLeft(q, sum, j))
  BY DEF Excess
<1> DEFINE e == Excess(q, sum)
<1>b. /\ k = Len(q) \/ ~OverLimit(Left(q, k), SumLeft(q, sum, k))
      /\ \A j \in 0..(k - 1) : OverLimit(Left(q, j), SumLeft(q, sum, j))
  BY <1>a, <1>4
<1>c. /\ e \in 0..Len(q)
      /\ e = Len(q) \/ ~OverLimit(Left(q, e), SumLeft(q, sum, e))
      /\ \A j \in 0..(e - 1) : OverLimit(Left(q, j), SumLeft(q, sum, j))
  BY <1>4, <1>5, <1>b
<1> HIDE DEF e
<1>6. /\ e \in 0..Len(q) /\ ~TooMuch(SubSeq(q, e + 1, Len(q)))
      /\ \A j \in 0..(e - 1) : TooMuch(SubSeq(q, j + 1, Len(q)))
  <2>1. ~TooMuch(SubSeq(q, e + 1, Len(q)))
    BY <1>1, <1>a, <1>c
  <2>2. \A j \in 0..(e - 1) : j \in 0..Len(q)
    BY <1>0, <1>c
  <2> QED BY <1>a, <1>c, <2>1, <2>2
<1>7. ASSUME q # <<>>, Bytes(Last(q)) <= MaxBytes PROVE e < Len(q)
  <2>1. Len(q) - 1 \in 0..Len(q) /\ Len(q) \in 1..Len(q) /\ Last(q) \in Nat /\ Last(q) = q[Len(q)]
    BY <1>0, <1>7 DEF Last
  <2> DEFINE r == SubSeq(q, (Len(q) - 1) + 1, Len(q))
  <2>2. r \in Seq(Nat) /\ Len(r) = Len(q) - (Len(q) - 1) /\ \A i \in 1..(Len(q) - (Len(q) - 1)) : r[i] = q[i + (Len(q) - 1)]
    BY <2>1, PartOf
  <2>3. Len(r) = 1 /\ r[1] = Last(q)
    BY <1>0, <2>1, <2>2
  <2>4. ToSet(r) = {Last(q)}
    BY <2>2, <2>3 DEF ToSet
  <2>5. TotalOf(r) = Bytes(Last(q)) /\ Bytes(Last(q)) \in Nat
    BY <2>1, <2>2, <2>4, SizeOf, BytesAre
  <2>6. ~TooMuch(r)
    BY <1>7, <2>3, <2>5, HlsAssumption DEF TooMuch, OverLimit
  <2> HIDE DEF r
  <2>7. Len(q) - 1 \notin 0..(e - 1)
    BY <1>6, <2>6 DEF r
  <2> QED BY <1>0, <1>6, <2>1, <2>7
<1>8. ASSUME ~TooMuch(q) PROVE e = 0 /\ Enforced(q, sum) = q
  <2>1. SubSeq(q, 1, Len(q)) = q /\ SubSeq(q, 0 + 1, Len(q)) = q
    BY SubSeqFull
  <2>2. 0 \notin 0..(e - 1)
    BY <1>6, <1>8, <2>1
  <2>3. e = 0
    BY <1>0, <1>6, <2>2
  <2>4. SubSeq(q, e + 1, Len(q)) = q
    BY <2>1, <2>3
  <2> QED BY <2>3, <2>4 DEF Enforced, Left, e
<1>9. Enforced(q, sum) = SubSeq(q, e + 1, Len(q))
  BY DEF Enforced, Left, e
<1>10. SumLeft(q, sum, e) = TotalOf(Enforced(q, sum))
  BY <1>6, <1>9, LeftIs
<1> QED BY <1>6, <1>7, <1>8, <1>9, <1>10 DEF e

(* An entry is taken out; the others keep their order.                     *)
LEMMA WithoutIs ==
    ASSUME entries \in Seq(Nat), IsInjective(entries), NEW n \in Nat
    PROVE  /\ Without(n) \in Seq(Nat) /\ IsInjective(Without(n))
           /\ ToSet(Without(n)) = ToSet(entries) \ {n} /\ Len(Without(n)) <= Len(entries)
           /\ \A i, j \in DOMAIN Without(n) : i < j => \E k, l \in DOMAIN entries :
                 k < l /\ Without(n)[i] = entries[k] /\ Without(n)[j] = entries[l]
<1> DEFINE w == Without(n)
<1>0. Len(entries) \in Nat /\ DOMAIN entries = 1..Len(entries)
  OBVIOUS
<1>1. CASE \E i \in 1..Len(entries) : entries[i] = n
  <2> DEFINE I == {i \in 1..Len(entries) : entries[i] = n}
             m == Min(I)
  <2>1. m \in 1..Len(entries) /\ entries[m] = n
    <3>1. I \subseteq Nat /\ I # {}
      BY <1>0, <1>1
    <3> QED BY <3>1, MinIs
  <2>2. w = SubSeq(entries, 1, m - 1) \o SubSeq(entries, m + 1, Len(entries))
    <3>1. I # {}
      BY <1>1
    <3>2. SelectInSeq(entries, LAMBDA v : v = n) = m
      BY <3>1 DEF SelectInSeq
    <3> QED BY <1>1, <3>2 DEF Without, RemoveFirst, RemoveAt
  <2> HIDE DEF m, w
  <2> DEFINE a == SubSeq(entries, 1, m - 1)
             b == SubSeq(entries, m + 1, Len(entries))
  <2>3. /\ a \in Seq(Nat) /\ Len(a) = m - 1
        /\ \A i \in 1..(m - 1) : a[i] = entries[i] /\ i \in 1..Len(entries)
    <3>1. /\ 1 \in Int /\ m - 1 \in Int /\ \A i \in 1..(m - 1) : entries[i] \in Nat /\ 1 + i - 1 = i
          /\ (m - 1) - 1 + 1 = m - 1 /\ ~(1 <= m - 1) => m - 1 = 0
      BY <1>0, <2>1
    <3>2. /\ a \in Seq(Nat) /\ Len(a) = IF 1 <= m - 1 THEN (m - 1) - 1 + 1 ELSE 0
          /\ \A i \in 1..((m - 1) - 1 + 1) : a[i] = entries[1 + i - 1]
      BY <3>1, SubSeqProperties
    <3>3. \A i \in 1..(m - 1) : i \in 1..Len(entries)
      BY <1>0, <2>1
    <3> HIDE DEF a
    <3> QED BY <3>1, <3>2, <3>3
  <2>4. /\ b \in Seq(Nat) /\ Len(b) = Len(entries) - m
        /\ \A i \in 1..(Len(entries) - m) : b[i] = entries[i + m] /\ i + m \in 1..Len(entries)
    <3>1. m \in 0..Len(entries)
      BY <1>0, <2>1
    <3> QED BY <3>1, PartOf
  <2> HIDE DEF a, b
  <2>5. /\ w \in Seq(Nat) /\ Len(w) = Len(entries) - 1 /\ DOMAIN w = 1..(Len(entries) - 1)
        /\ \A i \in 1..(Len(entries) - 1) : w[i] = IF i <= m - 1 THEN a[i] ELSE b[i - (m - 1)]
    <3>1. w = a \o b
      BY <2>2 DEF a, b
    <3>2. /\ w \in Seq(Nat) /\ Len(w) = Len(a) + Len(b)
          /\ \A i \in 1..(Len(a) + Len(b)) : w[i] = IF i <= Len(a) THEN a[i] ELSE b[i - Len(a)]
      BY <2>3, <2>4, <3>1, ConcatProperties
    <3>3. Len(a) + Len(b) = Len(entries) - 1 /\ Len(a) = m - 1 /\ DOMAIN w = 1..Len(w)
      BY <1>0, <2>1, <2>3, <2>4, <3>2
    <3> QED BY <3>2, <3>3
  <2> DEFINE At(i) == IF i < m THEN i ELSE i + 1
  <2>6. \A i \in 1..(Len(entries) - 1) : At(i) \in 1..Len(entries) /\ At(i) # m /\ w[i] = entries[At(i)]
    <3> TAKE i \in 1..(Len(entries) - 1)
    <3>1. CASE i < m
      <4>1. i \in 1..(m - 1) /\ i <= m - 1 /\ At(i) = i /\ i # m
        BY <1>0, <2>1, <3>1
      <4> HIDE DEF At
      <4> QED BY <2>3, <2>5, <4>1
    <3>2. CASE ~(i < m)
      <4>1. /\ i - (m - 1) \in 1..(Len(entries) - m) /\ i - (m - 1) + m = i + 1 /\ ~(i <= m - 1)
            /\ At(i) = i + 1 /\ i + 1 # m
        BY <1>0, <2>1, <3>2
      <4> HIDE DEF At
      <4> QED BY <2>4, <2>5, <4>1
    <3> QED BY <3>1, <3>2
  <2>7. \A i, j \in 1..(Len(entries) - 1) : (i < j => At(i) < At(j)) /\ (At(i) = At(j) => i = j)
    BY <1>0, <2>1
  <2>8. \A l \in 1..Len(entries) : l # m => \E i \in 1..(Len(entries) - 1) : At(i) = l
    <3> TAKE l \in 1..Len(entries)
    <3>1. CASE l < m
      <4>1. l \in 1..(Len(entries) - 1) /\ At(l) = l
        BY <1>0, <2>1, <3>1
      <4> QED BY <4>1
    <3>2. CASE l > m
      <4>1. l - 1 \in 1..(Len(entries) - 1) /\ At(l - 1) = l
        BY <1>0, <2>1, <3>2
      <4> QED BY <4>1
    <3> QED BY <1>0, <2>1, <3>1, <3>2
  <2> HIDE DEF At
  <2>9. IsInjective(w)
    <3>1. \A i, j \in 1..(Len(entries) - 1) : w[i] = w[j] => At(i) = At(j)
      BY <1>0, <2>6 DEF IsInjective
    <3> QED BY <2>5, <2>7, <3>1 DEF IsInjective
  <2>10. ToSet(w) = ToSet(entries) \ {n}
    <3>1. \A i \in 1..(Len(entries) - 1) : w[i] \in ToSet(entries) \ {n}
      BY <1>0, <2>1, <2>6 DEF IsInjective, ToSet
    <3>2. \A l \in 1..Len(entries) : entries[l] # n => \E i \in 1..(Len(entries) - 1) : w[i] = entries[l]
      BY <2>1, <2>6, <2>8
    <3>3. ToSet(w) = {w[i] : i \in 1..(Len(entries) - 1)} /\ ToSet(entries) = {entries[i] : i \in 1..Len(entries)}
      BY <1>0, <2>5 DEF ToSet
    <3>4. \A v \in ToSet(w) : v \in ToSet(entries) \ {n}
      BY <3>1, <3>3
    <3>5. \A v \in ToSet(entries) \ {n} : v \in ToSet(w)
      BY <3>2, <3>3
    <3> QED BY <3>4, <3>5
  <2>11. \A i, j \in DOMAIN w : i < j => \E k, l \in DOMAIN entries :
                 k < l /\ w[i] = entries[k] /\ w[j] = entries[l]
    <3>1. ASSUME NEW i \in DOMAIN w, NEW j \in DOMAIN w, i < j
          PROVE  \E k, l \in DOMAIN entries : k < l /\ w[i] = entries[k] /\ w[j] = entries[l]
      <4>1. i \in 1..(Len(entries) - 1) /\ j \in 1..(Len(entries) - 1)
        BY <2>5
      <4>2. At(i) < At(j)
        BY <2>7, <3>1, <4>1
      <4>3. At(i) \in DOMAIN entries /\ At(j) \in DOMAIN entries /\ w[i] = entries[At(i)] /\ w[j] = entries[At(j)]
        BY <1>0, <2>6, <4>1
      <4> QED BY <4>2, <4>3
    <3> QED BY <3>1
  <2>12. Len(w) <= Len(entries)
    BY <1>0, <2>5
  <2> QED BY <2>5, <2>9, <2>10, <2>11, <2>12 DEF w
<1>2. CASE ~\E i \in 1..Len(entries) : entries[i] = n
  <2>1. w = entries
    BY <1>2 DEF Without, RemoveFirst
  <2>2. n \notin ToSet(entries)
    BY <1>0, <1>2 DEF ToSet
  <2> QED BY <1>0, <2>1, <2>2
<1> QED BY <1>1, <1>2


-----------------------------------------------------------------------------
(* The sets of segments.                                                   *)
LEMMA OldestIs ==
    ASSUME newest \in Nat
    PROVE  Oldest \in Nat /\ Oldest <= newest /\ newest - SourceLength + 1 <= Oldest
           /\ Oldest \in {0, newest - SourceLength + 1}
<1>1. SourceLength \in Nat \ {0}
  BY HlsAssumption
<1> DEFINE o == newest - SourceLength + 1
<1>2. o \in Int /\ o <= newest
  BY <1>1
<1>3. \E x \in {0, o} : \A y \in {0, o} : x >= y
  <2>1. CASE o >= 0
    BY <1>2, <2>1
  <2>2. CASE ~(o >= 0)
    BY <1>2, <2>2
  <2> QED BY <2>1, <2>2
<1> HIDE DEF o
<1>4. Max({0, o}) \in {0, o} /\ \A y \in {0, o} : Max({0, o}) >= y
  BY <1>3 DEF Max
<1>5. Oldest = Max({0, o})
  BY DEF Oldest, o
<1>6. Oldest \in {0, o} /\ Oldest >= 0 /\ Oldest >= o
  BY <1>4, <1>5
<1> QED BY <1>2, <1>6 DEF o

LEMMA OldestGrows ==
    ASSUME newest \in Nat, newest' = newest + 1
    PROVE  Oldest \in Nat /\ Oldest' \in Nat /\ Oldest <= Oldest'
<1>1. SourceLength \in Nat \ {0}
  BY HlsAssumption
<1>2. newest' \in Nat
  OBVIOUS
<1>3. Oldest \in Nat /\ Oldest \in {0, newest - SourceLength + 1}
  BY OldestIs
<1>4. Oldest' = Max({0, newest' - SourceLength + 1}) /\ Oldest = Max({0, newest - SourceLength + 1})
  BY DEF Oldest
<1> DEFINE o == newest' - SourceLength + 1
<1>5. o \in Int /\ newest - SourceLength + 1 <= o
  BY <1>1
<1>6. \E x \in {0, o} : \A y \in {0, o} : x >= y
  <2>1. CASE o >= 0
    BY <1>5, <2>1
  <2>2. CASE ~(o >= 0)
    BY <1>5, <2>2
  <2> QED BY <2>1, <2>2
<1> HIDE DEF o
<1>7. Max({0, o}) \in {0, o} /\ \A y \in {0, o} : Max({0, o}) >= y
  BY <1>6 DEF Max
<1>8. Oldest' = Max({0, o})
  BY <1>4 DEF o
<1>9. Oldest' \in Nat /\ Oldest' >= 0 /\ Oldest' >= o
  BY <1>5, <1>7, <1>8
<1> QED BY <1>1, <1>3, <1>5, <1>9

LEMMA WarmIs ==
    ASSUME NEW first \in Nat, NEW last \in Nat, first <= last
    PROVE  \E a, b \in Nat : /\ WarmSegments(first, last) = a..b /\ first <= a /\ a <= b /\ b <= last
                             /\ b - a + 1 <= StartSegments
<1>1. StartSegments \in Nat \ {0} /\ LiveEdge \in Nat \ {0} /\ StartSegments <= LiveEdge
  BY HlsAssumption
<1> DEFINE start == IF last - first + 1 > LiveEdge THEN last - LiveEdge + 1 ELSE first
           end == start + StartSegments - 1
<1>2. start \in Nat /\ first <= start /\ start <= last
  BY <1>1
<1> HIDE DEF start
<1>3. end \in Nat /\ start <= end
  BY <1>1, <1>2
<1> HIDE DEF end
<1>4. {last, end} \subseteq Nat /\ {last, end} # {}
  BY <1>3
<1>5. Min({last, end}) \in {last, end} /\ Min({last, end}) <= last /\ Min({last, end}) <= end
  BY <1>4, MinIs
<1>6. WarmSegments(first, last) = start..Min({last, end})
  BY DEF WarmSegments, start, end
<1>7. Min({last, end}) \in Nat /\ start <= Min({last, end})
  BY <1>2, <1>3, <1>5
<1>8. Min({last, end}) - start + 1 <= StartSegments
  BY <1>1, <1>2, <1>3, <1>5, <1>7 DEF end
<1> QED BY <1>2, <1>5, <1>6, <1>7, <1>8

LEMMA LeastIs ==
    ASSUME NEW T \in SUBSET Nat 
    PROVE  /\ Least(T) \in Nat
           /\ \A y \in T : Least(T) <= y
           /\ T # {} => Least(T) \in T
<1>1. CASE T = {}
  BY <1>1 DEF Least
<1>2. CASE T # {}
  BY <1>2, MinIs DEF Least
<1> QED BY <1>1, <1>2

LEMMA GreatestIs ==
    ASSUME NEW m \in Nat, NEW T \in SUBSET (0..m), T # {} PROVE Max(T) \in T /\ \A y \in T : y <= Max(T)
<1> DEFINE U == {m - y : y \in T}
<1>0. \A y \in T : y \in Nat /\ y <= m /\ m - y \in Nat
  OBVIOUS
<1>1. U \subseteq Nat /\ U # {}
  BY <1>0
<1>2. PICK u \in U : \A v \in U : u <= v
  BY <1>1, HlsSmallest
<1>3. PICK x \in T : u = m - x
  BY <1>2
<1>4. \A y \in T : m - x <= m - y
  BY <1>2, <1>3
<1>5. \A y \in T : x \in Nat /\ y \in Nat /\ x >= y
  BY <1>4
<1> HIDE DEF U
<1>6. \E z \in T : \A y \in T : z >= y
  BY <1>5
<1>7. Max(T) \in T /\ \A y \in T : Max(T) >= y
  BY <1>6 DEF Max
<1> QED BY <1>7

LEMMA TargetIs ==
    ASSUME HlsShape
    PROVE  /\ Target \subseteq source[1]..source[2] /\ Target \subseteq Nat
           /\ opening => \E a, b \in Nat : Target = a..b /\ a <= b /\ b <= source[2] /\ b - a + 1 <= StartSegments
<1>1. source[1] \in Nat /\ source[2] \in Nat /\ source[1] <= source[2]
  BY DEF HlsShape
<1>2. CASE opening
  <2>1. PICK a, b \in Nat : /\ WarmSegments(source[1], source[2]) = a..b /\ source[1] <= a /\ a <= b
                            /\ b <= source[2] /\ b - a + 1 <= StartSegments
    BY <1>1, WarmIs
  <2>2. Target = a..b
    BY <1>2, <2>1 DEF Target
  <2>3. Target \subseteq source[1]..source[2]
    BY <1>1, <2>1, <2>2
  <2> QED BY <1>1, <2>1, <2>2, <2>3
<1>3. CASE ~opening
  BY <1>1, <1>3 DEF Target, Missing
<1> QED BY <1>2, <1>3

LEMMA KnownIs ==
    ASSUME HlsShape PROVE IsFiniteSet(known) /\ known \subseteq Nat /\ source[2] \in Nat
<1>1. source[2] \in Nat /\ 0 \in Int /\ source[2] \in Int /\ known \subseteq 0..source[2]
  BY DEF HlsShape
<1>2. IsFiniteSet(0..source[2])
  BY <1>1, FS_Interval
<1>3. IsFiniteSet(known)
  BY <1>1, <1>2, FS_Subset
<1> QED BY <1>1, <1>3

(* A range without holes is listed number by number.                       *)
LEMMA NumberByNumber ==
    ASSUME NEW S \in SUBSET Nat, IsFiniteSet(S), S # {}, Convex(S)
    PROVE  UpTo(S) = [i \in 1..Len(UpTo(S)) |-> Head(UpTo(S)) + i - 1]
<1> DEFINE q == UpTo(S)
<1>0. q \in Seq(S) /\ q \in Seq(Nat) /\ Ascends(q) /\ ToSet(q) = S /\ q # <<>>
  BY UpToIs
<1> HIDE DEF q
<1>1. q \in Seq(Nat) /\ Ascends(q) /\ ToSet(q) = S /\ q # <<>> /\ q \in Seq(S)
  BY <1>0
<1>2. Len(q) \in Nat \ {0} /\ DOMAIN q = 1..Len(q) /\ Head(q) = q[1] /\ q[1] \in Nat /\ 1 \in 1..Len(q)
  BY <1>1
<1>3. \A i \in 1..Len(q) : q[i] \in Nat /\ q[i] \in S
  BY <1>1
<1>4. \A i, j \in 1..Len(q) : i < j => q[i] < q[j]
  BY <1>1, <1>2 DEF Ascends
<1> DEFINE T == {n \in Nat : n + 1 \in 1..Len(q) => q[n + 1] = q[1] + n}
<1>5. 0 \in T
  BY <1>2
<1>6. ASSUME NEW n \in Nat, n \in T PROVE n + 1 \in T
  <2> SUFFICES ASSUME n + 2 \in 1..Len(q) PROVE q[n + 2] = q[1] + n + 1
    BY <1>2
  <2>1. n + 1 \in 1..Len(q) /\ n + 1 < n + 2
    BY <1>2
  <2>2. q[n + 1] = q[1] + n /\ q[n + 1] < q[n + 2] /\ q[n + 1] \in Nat /\ q[n + 2] \in Nat
    BY <1>3, <1>4, <1>6, <2>1
  <2>3. q[n + 1] + 1 \in S
    BY <1>3, <2>1, <2>2 DEF Convex
  <2>4. PICK j \in 1..Len(q) : q[j] = q[n + 1] + 1
    BY <1>1, <1>2, <2>3 DEF ToSet
  <2>5. ~(j < n + 1) /\ j # n + 1
    BY <1>3, <1>4, <2>1, <2>2, <2>4
  <2>6. j = n + 2 \/ n + 2 < j
    BY <2>5
  <2>7. q[n + 2] <= q[j]
    BY <1>3, <1>4, <2>2, <2>6
  <2> QED BY <1>2, <2>2, <2>4, <2>7
<1> HIDE DEF T
<1>7. Nat \subseteq T
  BY <1>5, <1>6, Counting
<1>8. ASSUME NEW i \in 1..Len(q) PROVE q[i] = q[1] + i - 1
  <2>1. i - 1 \in Nat /\ i - 1 + 1 = i
    BY <1>2
  <2>2. i - 1 \in T
    BY <1>7, <2>1
  <2>3. q[i - 1 + 1] = q[1] + (i - 1)
    BY <2>1, <2>2 DEF T
  <2> QED BY <1>2, <2>1, <2>3
<1>9. q = [i \in 1..Len(q) |-> q[i]]
  BY <1>1, <1>2
<1> QED BY <1>2, <1>8, <1>9 DEF q

-----------------------------------------------------------------------------
(* What a step leaves alone.                                               *)
LEMMA EndsAre == HlsShape /\ listed # <<>> => Head(listed) \in Nat /\ Last(listed) \in Nat
BY DEF HlsShape, Last

LEMMA SameSets ==
    ASSUME UNCHANGED <<opening, source, known>>
    PROVE  /\ Target' = Target
           /\ todo' = todo /\ (Storing' <=> Storing) => Stored' = Stored /\ Held' = Held
           /\ Storing' <=> Storing => Wanted' = Wanted
           /\ ~Storing' => Held' = known /\ Wanted' = known
<1>1. Target' = Target
  BY DEF Target, Missing
<1> QED BY <1>1 DEF Held, Stored, Wanted

LEMMA HeldGrows == known \subseteq Held
BY DEF Held

LEMMA RestKeepsTodo ==
    ASSUME todo' = <<>>, ~Storing' PROVE TodoKept'
BY DEF TodoKept, Ascends

LEMMA FewerKeepOrder ==
    ASSUME OrderKept, source' = source, entries' = entries, Held' \subseteq Held PROVE OrderKept'
BY DEF OrderKept

LEMMA SameHoles ==
    ASSUME NoHoles, known' = known, Oldest \in Nat, Oldest' \in Nat, Oldest <= Oldest',
           outrun' \/ (outrun' = outrun /\ Wanted' = Wanted), known \subseteq Nat
    PROVE  NoHoles'
<1>1. ASSUME NEW a \in known, NEW b \in known, NEW m \in Nat, Oldest' <= m, a <= m, m <= b PROVE m \in known
  BY <1>1 DEF NoHoles
<1>2. ~outrun' => Convex(Wanted')
  BY DEF NoHoles
<1>3. Convex(Wanted)' <=> Convex(Wanted')
  BY DEF Convex
<1> QED BY <1>1, <1>2, <1>3 DEF NoHoles

(* The invariant, for what is neither loaded nor stored nor published.     *)
LEMMA HlsMoves ==
    ASSUME HlsInv, HlsShape',
           UNCHANGED <<opening, source, todo, cacheVars, known, listed, stale, outrun, removed, diskErrors>>,
           Oldest \in Nat, Oldest' \in Nat, Oldest <= Oldest',
           \/ step' = step
           \/ step = "fetch" /\ step' = "put"
           \/ step = "sleep" /\ step' \in {"load", "done"}
    PROVE  HlsInv'
<1> USE DEF HlsInv
<1>1. Storing' <=> Storing
  BY DEF Storing
<1>2. Target' = Target /\ Stored' = Stored /\ Held' = Held /\ Wanted' = Wanted
  BY <1>1, SameSets
<1>3. FilesKept'
  BY DEF FilesKept, cacheVars
<1>4. TodoKept'
  BY <1>1, <1>2 DEF TodoKept
<1>5. OrderKept'
  BY <1>2, FewerKeepOrder DEF cacheVars
<1>6. known \subseteq Nat
  BY KnownIs
<1>7. NoHoles'
  BY <1>2, <1>6, SameHoles
<1>8. WarmKept'
  BY <1>1, <1>2 DEF WarmKept, cacheVars, HlsShape
<1>9. ListedKept'
  BY DEF ListedKept, Idle, cacheVars, HlsShape
<1> QED BY <1>3, <1>4, <1>5, <1>7, <1>8, <1>9

LEMMA SourceMovesKeeps == HlsInv /\ SourceMoves => HlsInv'
<1> SUFFICES ASSUME HlsInv, SourceMoves PROVE HlsInv'
  OBVIOUS
<1>1. newest \in Nat /\ newest' = newest + 1 /\ LastSegment \in Nat
  BY HlsAssumption DEF HlsInv, HlsShape, SourceMoves
<1>2. Oldest \in Nat /\ Oldest' \in Nat /\ Oldest <= Oldest'
  BY <1>1, OldestGrows
<1>3. HlsShape'
  <2>1. source' = source /\ source[1] \in Nat /\ source[2] \in Nat /\ source[1] <= Oldest' /\ source[2] <= newest'
    BY <1>1, <1>2 DEF HlsInv, HlsShape, SourceMoves
  <2> QED BY <1>1, <2>1 DEF HlsInv, HlsShape, SourceMoves, cacheVars
<1> QED BY <1>2, <1>3, HlsMoves DEF SourceMoves, cacheVars

LEMMA OldestStays ==
    ASSUME HlsShape, newest' = newest PROVE Oldest \in Nat /\ Oldest' \in Nat /\ Oldest <= Oldest' /\ Oldest' = Oldest
<1>1. Oldest' = Oldest
  BY DEF Oldest
<1>2. Oldest \in Nat
  BY OldestIs DEF HlsShape
<1> QED BY <1>1, <1>2

LEMMA LoopMoves == HlsInv /\ (Fetched \/ TimerFires \/ LoopEnds \/ Close) => HlsInv'
<1> SUFFICES ASSUME HlsInv, Fetched \/ TimerFires \/ LoopEnds \/ Close PROVE HlsInv'
  OBVIOUS
<1>1. /\ UNCHANGED <<newest, opening, source, todo, entries, total, known, disk, listed, stale, outrun, removed,
                     diskErrors>>
      /\ closing' \in {closing, TRUE}
      /\ \/ step' = step
         \/ step = "fetch" /\ step' = "put"
         \/ step = "sleep" /\ step' \in {"load", "done"}
  BY DEF Fetched, TimerFires, LoopEnds, Close, cacheVars
<1>2. HlsShape
  BY DEF HlsInv
<1>3. Oldest \in Nat /\ Oldest' \in Nat /\ Oldest <= Oldest' /\ Oldest' = Oldest
  BY <1>1, <1>2, OldestStays
<1>4. HlsShape'
  BY <1>1, <1>2, <1>3 DEF HlsShape, Steps
<1> QED BY <1>1, <1>3, <1>4, HlsMoves DEF cacheVars

LEMMA RemoveKeeps == HlsInv /\ RemoveDirectory => HlsInv'
<1> SUFFICES ASSUME HlsInv, RemoveDirectory PROVE HlsInv'
  OBVIOUS
<1>1. /\ UNCHANGED <<newest, step, opening, source, todo, entries, total, known, stale, outrun, closing, diskErrors>>
      /\ step = "done" /\ removed' = TRUE /\ disk' = {} /\ listed' = <<>>
  BY DEF RemoveDirectory, LoopDone
<1>2. HlsShape
  BY DEF HlsInv
<1>3. Oldest \in Nat /\ Oldest' \in Nat /\ Oldest <= Oldest' /\ Oldest' = Oldest
  BY <1>1, <1>2, OldestStays
<1>4. HlsShape'
  BY <1>1, <1>2, <1>3 DEF HlsShape
<1>5. Storing' <=> Storing
  BY <1>1 DEF Storing
<1>6. Target' = Target /\ Stored' = Stored /\ Held' = Held /\ Wanted' = Wanted
  BY <1>1, <1>5, SameSets
<1>7. FilesKept'
  BY <1>1 DEF FilesKept, HlsInv
<1>8. TodoKept'
  BY <1>1, <1>5, <1>6 DEF TodoKept, HlsInv
<1>9. OrderKept'
  BY <1>1, <1>6, FewerKeepOrder DEF HlsInv
<1>10. NoHoles'
  BY <1>1, <1>2, <1>3, <1>6, SameHoles, KnownIs DEF HlsInv
<1>11. WarmKept'
  BY <1>1, <1>5, <1>6 DEF WarmKept, HlsInv
<1>12. ListedKept'
  BY <1>1 DEF ListedKept, Idle, HlsInv
<1> QED BY <1>4, <1>7, <1>8, <1>9, <1>10, <1>11, <1>12 DEF HlsInv

(* Init, and a session that is off.                                        *)
LEMMA EmptyCache == IsInjective(<<>>) /\ TotalOf(<<>>) = 0 /\ ToSet(<<>>) = {} /\ <<>> \in Seq(Nat) /\ Len(<<>>) = 0
<1>1. <<>> \in Seq(Nat) /\ Len(<<>>) = 0
  OBVIOUS
<1>2. ToSet(<<>>) = {}
  BY <1>1 DEF ToSet
<1>3. TotalOf(<<>>) = 0
  BY <1>1, <1>2, SizeOf
<1>4. IsInjective(<<>>)
  BY DEF IsInjective
<1> QED BY <1>1, <1>2, <1>3, <1>4

LEMMA HlsStarts == HlsInit \/ HlsOff => HlsInv
<1> SUFFICES ASSUME HlsInit \/ HlsOff PROVE HlsInv
  OBVIOUS
<1>0. SourceLength \in Nat /\ LastSegment \in Nat
  BY HlsAssumption
<1>1. /\ newest \in Nat /\ step \in {"load", "done"} /\ opening \in BOOLEAN /\ source = <<0, 0>>
      /\ todo = <<>> /\ entries = <<>> /\ total = 0 /\ known = {} /\ disk = {} /\ listed = <<>>
      /\ stale = FALSE /\ outrun = FALSE /\ closing \in BOOLEAN /\ removed \in BOOLEAN
      /\ (removed => step = "done") /\ diskErrors = 0
  <2>1. CASE HlsInit
    <3>1. newest \in Nat
      BY <1>0, <2>1 DEF HlsInit
    <3>2. /\ step = "load" /\ opening = TRUE /\ source = <<0, 0>> /\ todo = <<>> /\ entries = <<>> /\ total = 0
          /\ known = {} /\ disk = {} /\ listed = <<>> /\ stale = FALSE /\ outrun = FALSE /\ closing = FALSE
          /\ removed = FALSE /\ diskErrors = 0
      BY <2>1 DEF HlsInit
    <3> QED BY <3>1, <3>2
  <2>2. CASE HlsOff
    BY <1>0, <2>2 DEF HlsOff
  <2> QED BY <2>1, <2>2
<1>2. Oldest \in Nat
  BY <1>1, OldestIs
<1>3. HlsShape
  <2>1. source \in Nat \X Nat /\ source[1] = 0 /\ source[2] = 0
    BY <1>1
  <2>2. todo \in Seq(Nat) /\ entries \in Seq(Nat) /\ listed \in Seq(Nat)
    BY <1>1, EmptyCache
  <2>3. source[1] <= Oldest /\ source[1] <= source[2] /\ source[2] <= newest
    BY <1>1, <1>2, <2>1
  <2>4. /\ newest \in Nat /\ step \in Steps /\ diskErrors \in Nat
        /\ opening \in BOOLEAN /\ stale \in BOOLEAN /\ outrun \in BOOLEAN
        /\ closing \in BOOLEAN /\ removed \in BOOLEAN
    BY <1>1 DEF Steps
  <2>5. known \subseteq 0..source[2] /\ disk \subseteq Nat
    BY <1>1
  <2> QED BY <2>1, <2>2, <2>3, <2>4, <2>5 DEF HlsShape
<1>4. ~Storing /\ Held = {} /\ Wanted = {}
  BY <1>1 DEF Storing, Held, Stored, Wanted
<1>5. FilesKept
  BY <1>1, EmptyCache, HlsAssumption DEF FilesKept
<1>6. TodoKept
  BY <1>1, <1>4 DEF TodoKept, Ascends
<1>7. OrderKept
  BY <1>4 DEF OrderKept
<1>8. NoHoles
  BY <1>1, <1>4 DEF NoHoles, Convex
<1>9. WarmKept
  BY <1>1, <1>4 DEF WarmKept
<1>10. ListedKept
  BY <1>1 DEF ListedKept, Idle
<1> QED BY <1>3, <1>5, <1>6, <1>7, <1>8, <1>9, <1>10 DEF HlsInv

-----------------------------------------------------------------------------
(* loadSessionPlaylist.  Only segments newer than all that is known are    *)
(* missing: what is known has no holes that the source still has.          *)
LEMMA MissingIsNewer ==
    ASSUME HlsInv, NEW first \in Nat, Oldest <= first, NEW last \in Nat, NEW a \in known, NEW b \in Missing(first, last)
    PROVE  a < b
<1>1. known \subseteq Nat
  BY KnownIs DEF HlsInv
<1>2. b \in Nat /\ first <= b /\ Least(known) <= b /\ b \notin known
  BY DEF Missing
<1>3. Least(known) \in known /\ Least(known) \in Nat
  <2>1. known \in SUBSET Nat /\ known # {}
    BY <1>1
  <2> QED BY <2>1, LeastIs
<1>4. Oldest <= b
  BY <1>2, OldestIs DEF HlsInv, HlsShape
<1>5. ~(b <= a)
  BY <1>2, <1>3, <1>4 DEF HlsInv, NoHoles
<1> QED BY <1>1, <1>2, <1>5

LEMMA LoadedIsConvex ==
    ASSUME HlsInv, step = "load", ~outrun, ~(known # {} /\ Oldest > Max(known) + 1)
    PROVE  Convex(known \cup (IF opening THEN WarmSegments(Oldest, newest) ELSE Missing(Oldest, newest)))
<1>1. newest \in Nat /\ Oldest \in Nat /\ Oldest <= newest
  BY OldestIs DEF HlsInv, HlsShape
<1>2. known \subseteq Nat /\ source[2] \in Nat /\ source[2] <= newest /\ known \subseteq 0..source[2]
  BY KnownIs DEF HlsInv, HlsShape
<1>3. CASE opening
  <2>1. known = {}
    BY <1>3 DEF HlsInv, WarmKept
  <2>2. PICK a, b \in Nat : WarmSegments(Oldest, newest) = a..b /\ Oldest <= a /\ b <= newest
    BY <1>1, WarmIs
  <2> QED BY <1>3, <2>1, <2>2 DEF Convex
<1>4. CASE ~opening
  <2> DEFINE new == Missing(Oldest, newest)
  <2> SUFFICES ASSUME NEW a \in known \cup new, NEW b \in known \cup new, NEW m \in Nat, a <= m, m <= b,
                      m \notin known
               PROVE  m \in new
    BY <1>4 DEF Convex
  <2>1. \A n : n \in new <=> n \in Oldest..newest /\ n >= Least(known) /\ n \notin known
    BY DEF Missing
  <2> HIDE DEF new
  <2>2. Least(known) \in Nat /\ \A y \in known : Least(known) <= y
    <3>1. known \in SUBSET Nat
      BY <1>2
    <3> QED BY <3>1, LeastIs
  <2>3. a \in Nat /\ b \in Nat /\ b <= newest /\ Least(known) <= a
    BY <1>1, <1>2, <2>1, <2>2
  <2>4. Least(known) <= m /\ m <= newest
    BY <1>1, <2>2, <2>3
  <2>5. Oldest <= m
    <3>1. CASE a \in new
      BY <1>1, <2>1, <2>3, <3>1
    <3>2. CASE a \in known
      <4>1. Max(known) \in known /\ \A y \in known : y <= Max(known)
        BY <1>2, <3>2, GreatestIs
      <4>2. Max(known) \in Nat /\ Oldest <= Max(known) + 1
        <5>1. Max(known) \in Nat /\ known # {}
          BY <1>2, <4>1
        <5>2. ~(Oldest > Max(known) + 1)
          BY <5>1
        <5> HIDE DEF new
        <5> QED BY <1>1, <5>1, <5>2
      <4>3. ~Storing
        BY DEF Storing
      <4>4. Convex(known)
        BY <4>3 DEF HlsInv, NoHoles, Wanted
      <4>5. ~(m <= Max(known))
        BY <3>2, <4>1, <4>4 DEF Convex
      <4> QED BY <1>1, <4>2, <4>5
    <3> QED BY <3>1, <3>2
  <2> QED BY <1>1, <2>1, <2>4, <2>5
<1> QED BY <1>3, <1>4

LEMMA LoadKeeps == HlsInv /\ Load => HlsInv'
<1> SUFFICES ASSUME HlsInv, Load PROVE HlsInv'
  OBVIOUS
<1> DEFINE new == IF opening THEN WarmSegments(Oldest, newest) ELSE Missing(Oldest, newest)
<1>1. /\ step = "load" /\ step' = "fetch" /\ source' = <<Oldest, newest>> /\ todo' = UpTo(new)
      /\ outrun' = (outrun \/ (known # {} /\ Oldest > Max(known) + 1))
      /\ UNCHANGED <<newest, opening, entries, total, disk, known, listed, stale, closing, diskErrors, removed>>
  BY DEF Load, cacheVars
<1>2. HlsShape
  BY DEF HlsInv
<1>3. Oldest \in Nat /\ Oldest' = Oldest /\ newest \in Nat /\ Oldest <= newest
  BY <1>1, <1>2, OldestStays, OldestIs DEF HlsShape
<1>4. known \subseteq Nat /\ source[2] \in Nat /\ source[2] <= newest /\ known \subseteq 0..source[2]
  BY <1>2, KnownIs DEF HlsShape
<1>5. source'[1] = Oldest /\ source'[2] = newest
  BY <1>1
<1>6. Target' = new
  BY <1>1, <1>5 DEF Target, Missing
<1>7. new \subseteq Oldest..newest
  <2>1. CASE opening
    <3>1. PICK a, b \in Nat : WarmSegments(Oldest, newest) = a..b /\ Oldest <= a /\ b <= newest
      BY <1>3, WarmIs
    <3> QED BY <1>3, <2>1, <3>1
  <2>2. CASE ~opening
    BY <2>2 DEF Missing
  <2> QED BY <2>1, <2>2
<1>8. new \in SUBSET Nat /\ IsFiniteSet(new)
  <2>1. IsFiniteSet(Oldest..newest)
    BY <1>3, FS_Interval
  <2> QED BY <1>3, <1>7, <2>1, FS_Subset
<1> HIDE DEF new
<1>9. /\ UpTo(new) \in Seq(Nat) /\ Ascends(UpTo(new)) /\ ToSet(UpTo(new)) = new
  BY <1>8, UpToIs
<1>10. Storing' /\ ~Storing
  BY <1>1 DEF Storing
<1>11. Stored' = {} /\ Held' = known /\ Wanted' = known \cup new /\ Held = known
  <2>1. ToSet(todo') = new /\ ToSet(todo)' = ToSet(todo')
    BY <1>1, <1>9
  <2>2. Stored' = {}
    BY <1>6, <1>10, <2>1 DEF Stored
  <2> QED BY <1>1, <1>6, <1>10, <2>2 DEF Held, Wanted, Stored
<1>12. \A a \in known, b \in new : a < b
  <2>1. CASE opening
    BY <1>1, <2>1 DEF HlsInv, WarmKept
  <2>2. CASE ~opening
    BY <1>3, <1>10, <2>2, MissingIsNewer DEF new
  <2> QED BY <2>1, <2>2
<1>13. HlsShape'
  <2>1. source' \in Nat \X Nat /\ source'[1] <= Oldest' /\ source'[1] <= source'[2] /\ source'[2] <= newest'
    BY <1>1, <1>3, <1>5
  <2>2. todo' \in Seq(Nat) /\ known' \subseteq 0..source'[2] /\ outrun' \in BOOLEAN /\ step' \in Steps
    BY <1>1, <1>2, <1>3, <1>4, <1>5, <1>9 DEF Steps, HlsShape
  <2> QED BY <1>1, <1>2, <2>1, <2>2 DEF HlsShape
<1>14. FilesKept'
  BY <1>1 DEF FilesKept, HlsInv
<1>15. TodoKept'
  BY <1>1, <1>6, <1>9, <1>10, <1>11, <1>12 DEF TodoKept
<1>16. OrderKept'
  <2>1. source'[2] \in Held' => source'[2] \in ToSet(entries')
    <3> HAVE source'[2] \in Held'
    <3>1. newest \in known
      BY <1>5, <1>11
    <3>2. newest = source[2]
      BY <1>3, <1>4, <3>1
    <3> QED BY <1>1, <1>5, <1>11, <3>1, <3>2 DEF HlsInv, OrderKept
  <2>2. Held' = Held /\ entries' = entries
    BY <1>1, <1>11
  <2> QED BY <2>1, <2>2 DEF OrderKept, HlsInv
<1>17. NoHoles'
  <2>1. ~outrun' => Convex(known \cup new)
    BY <1>1, LoadedIsConvex DEF new
  <2> QED BY <1>1, <1>3, <1>11, <2>1 DEF NoHoles, HlsInv, Convex
<1>18. WarmKept'
  <2>1. opening /\ WarmFits => ToSet(entries) = {}
    BY <1>1, EmptyCache DEF HlsInv, WarmKept
  <2> QED BY <1>1, <1>10, <1>11, <2>1 DEF WarmKept, HlsInv
<1>19. ListedKept'
  <2>1. listed # <<>> => Last(listed) \in Nat /\ Last(listed) <= source[2]
    BY <1>2, EndsAre DEF HlsInv, ListedKept
  <2>2. listed # <<>> => Last(listed) <= newest
    BY <1>3, <1>4, <2>1
  <2> QED BY <1>1, <1>5, <2>2 DEF ListedKept, Idle, HlsInv
<1> QED BY <1>13, <1>14, <1>15, <1>16, <1>17, <1>18, <1>19 DEF HlsInv

(* A refresh, or OpenSession, that fails before or after it stores.        *)
LEMMA FailKeeps ==
    ASSUME HlsInv, Abandon, step \in {"load", "fetch", "publish"}, opening \/ disk' = disk,
           UNCHANGED <<newest, opening, source, entries, total, known, closing>>,
           todo' = <<>>, stale' = TRUE, diskErrors' \in {diskErrors, diskErrors + 1},
           outrun' = TRUE \/ (outrun' = outrun /\ step = "publish")
    PROVE  HlsInv'
<1>1. /\ step' \in {"done", "sleep"}
      /\ opening => step' = "done" /\ removed' = TRUE /\ disk' = {} /\ listed' = <<>>
      /\ ~opening => step' = "sleep" /\ removed' = removed /\ disk' = disk /\ listed' = listed
  BY DEF Abandon
<1>2. HlsShape
  BY DEF HlsInv
<1>3. Oldest \in Nat /\ Oldest' \in Nat /\ Oldest <= Oldest' /\ Oldest' = Oldest
  BY <1>2, OldestStays
<1>4. HlsShape'
  <2>1. todo' \in Seq(Nat) /\ listed' \in Seq(Nat)
    BY <1>1, <1>2, EmptyCache DEF HlsShape
  <2>2. /\ step' \in Steps /\ stale' \in BOOLEAN /\ outrun' \in BOOLEAN /\ removed' \in BOOLEAN
        /\ disk' \subseteq Nat
    BY <1>1, <1>2 DEF HlsShape, Steps
  <2>3. diskErrors' \in Nat
    BY <1>2 DEF HlsShape
  <2> QED BY <1>2, <1>3, <2>1, <2>2, <2>3 DEF HlsShape
<1>5. ~Storing'
  BY <1>1 DEF Storing
<1>6. Held' = known /\ Wanted' = known
  BY <1>5, SameSets
<1>7. FilesKept'
  <2>1. ~removed
    BY DEF HlsInv, FilesKept
  <2>2. diskErrors > 0 => diskErrors' > 0
    BY <1>2 DEF HlsShape
  <2> QED BY <1>1, <2>1, <2>2 DEF FilesKept, HlsInv
<1>8. TodoKept'
  BY <1>1, <1>5, RestKeepsTodo
<1>9. OrderKept'
  BY <1>6, HeldGrows, FewerKeepOrder DEF HlsInv
<1>10. NoHoles'
  <2>1. step = "publish" => Wanted = known
    BY DEF Wanted, Storing
  <2>2. outrun' \/ (outrun' = outrun /\ Wanted' = Wanted)
    BY <1>6, <2>1
  <2> QED BY <1>2, <1>3, <2>2, SameHoles, KnownIs DEF HlsInv
<1>11. WarmKept'
  BY <1>1, <1>5 DEF WarmKept, HlsInv
<1>12. ListedKept'
  BY <1>1, <1>2 DEF ListedKept, Idle, HlsInv, HlsShape
<1> QED BY <1>4, <1>7, <1>8, <1>9, <1>10, <1>11, <1>12 DEF HlsInv

LEMMA LoadFailsKeeps == HlsInv /\ LoadFails => HlsInv'
BY FailKeeps DEF LoadFails

LEMMA PublishFailsKeeps == HlsInv /\ PublishFails => HlsInv'
<1> SUFFICES ASSUME HlsInv, PublishFails PROVE HlsInv'
  OBVIOUS
<1>1. todo = <<>>
  BY DEF HlsInv, TodoKept, Storing, PublishFails
<1> QED BY <1>1, FailKeeps DEF PublishFails

-----------------------------------------------------------------------------
(* A refresh that succeeds.                                                *)
LEMMA PublishKeeps == HlsInv /\ Publish => HlsInv'
<1> SUFFICES ASSUME HlsInv, Publish PROVE HlsInv'
  OBVIOUS
<1>1. /\ step = "publish" /\ step' = "sleep" /\ listed' = UpTo(known) /\ stale' = FALSE /\ opening' = FALSE
      /\ UNCHANGED <<newest, source, todo, entries, total, disk, known, outrun, closing, diskErrors, removed>>
  BY DEF Publish, cacheVars
<1>2. HlsShape
  BY DEF HlsInv
<1>3. Oldest \in Nat /\ Oldest' \in Nat /\ Oldest <= Oldest' /\ Oldest' = Oldest
  BY <1>1, <1>2, OldestStays
<1>4. known \in SUBSET Nat /\ IsFiniteSet(known)
  BY <1>2, KnownIs
<1>5. listed' \in Seq(Nat) /\ (listed' # <<>> => known # {})
  BY <1>1, <1>4, UpToIs
<1>6. HlsShape'
  BY <1>1, <1>2, <1>3, <1>5 DEF HlsShape, Steps
<1>7. ~Storing' /\ ~Storing /\ Held = known /\ Wanted = known /\ Held' = known /\ Wanted' = known
  BY <1>1 DEF Storing, Held, Stored, Wanted
<1>8. FilesKept'
  BY <1>1 DEF FilesKept, HlsInv
<1>9. TodoKept'
  BY <1>1, <1>7 DEF TodoKept, HlsInv
<1>10. OrderKept'
  BY <1>1, <1>7, FewerKeepOrder DEF HlsInv
<1>11. NoHoles'
  BY <1>1, <1>3, <1>4, <1>7, SameHoles DEF HlsInv
<1>12. WarmKept'
  BY <1>1, <1>7 DEF WarmKept
<1>13. ListedKept'
  <2>1. ~outrun' /\ listed' # <<>> => listed' = [i \in 1..Len(listed') |-> Head(listed') + i - 1]
    BY <1>1, <1>4, <1>5, <1>7, NumberByNumber DEF HlsInv, NoHoles
  <2>2. ASSUME listed' # <<>>
        PROVE  known # {} /\ Last(listed') <= source[2] /\ \A m \in known : Head(listed') <= m
    <3> DEFINE q == listed'
    <3>1. q \in Seq(Nat) /\ Ascends(q) /\ ToSet(q) = known /\ q # <<>>
      BY <1>1, <1>4, <2>2, UpToIs
    <3> HIDE DEF q
    <3>2. Head(q) \in known /\ Last(q) \in known /\ \A m \in known : Head(q) <= m
      BY <3>1, EndsOf
    <3>3. Last(q) \in 0..source[2]
      BY <1>2, <3>2 DEF HlsShape
    <3>4. Last(q) <= source[2]
      BY <1>2, <3>3 DEF HlsShape
    <3> QED BY <3>2, <3>4 DEF q
  <2> QED BY <1>1, <2>1, <2>2 DEF ListedKept, Idle, HlsInv
<1> QED BY <1>6, <1>8, <1>9, <1>10, <1>11, <1>12, <1>13 DEF HlsInv

(* What is held and cached has no holes: a later one would have gone first.*)
LEMMA Middle ==
    ASSUME HlsInv, step = "put", todo = <<>>, NEW a \in Held \cap ToSet(entries), NEW b \in Held \cap ToSet(entries),
           NEW m \in Nat, a <= m, m <= b, Oldest <= m \/ ~outrun, ~opening
    PROVE  m \in Held \cap ToSet(entries)
<1>1. Held = known \cup Target /\ Wanted = known \cup Target
  BY EmptyCache DEF Held, Stored, Storing, Wanted
<1>2. HlsShape
  BY DEF HlsInv
<1>3. Target \subseteq source[1]..source[2] /\ Target \subseteq Nat
  BY <1>2, TargetIs
<1>4. known \in SUBSET Nat /\ source[1] \in Nat /\ source[2] \in Nat /\ source[1] <= Oldest /\ Oldest \in Nat
  BY <1>2, KnownIs, OldestIs DEF HlsShape
<1>5. a \in Nat /\ b \in Nat
  BY <1>1, <1>3, <1>4
<1>6. m \in Held
  <2>1. CASE ~outrun
    BY <1>1, <2>1 DEF HlsInv, NoHoles, Convex
  <2>2. CASE outrun
    <3>1. Oldest <= m
      BY <2>2 DEF HlsInv, HlsShape
    <3>2. CASE b \in known /\ a \in known
      BY <1>1, <3>1, <3>2 DEF HlsInv, NoHoles
    <3>3. CASE b \in Target
      <4>1. Least(known) \in Nat /\ \A y \in known : Least(known) <= y
        BY <1>4, LeastIs
      <4>2. Target = Missing(source[1], source[2])
        BY DEF Target
      <4>3. Least(known) <= a
        BY <1>1, <4>1, <4>2 DEF Missing
      <4>4. Least(known) <= m /\ source[1] <= m /\ m <= source[2]
        BY <1>3, <1>4, <1>5, <3>1, <3>3, <4>1, <4>3
      <4>5. m \in known \/ m \in Missing(source[1], source[2])
        BY <1>4, <4>4 DEF Missing
      <4> QED BY <1>1, <4>2, <4>5
    <3>4. CASE b \in known /\ a \in Target
      <4>1. b < a
        BY <3>4 DEF HlsInv, TodoKept, Storing
      <4> QED BY <1>5, <4>1
    <3> QED BY <1>1, <3>2, <3>3, <3>4
  <2> QED BY <2>1, <2>2
<1>7. m = a \/ a < m
  BY <1>5
<1> QED BY <1>6, <1>7 DEF HlsInv, OrderKept

LEMMA AllStoredKeeps == HlsInv /\ AllStored => HlsInv'
<1> SUFFICES ASSUME HlsInv, AllStored PROVE HlsInv'
  OBVIOUS
<1>1. /\ step = "put" /\ todo = <<>> /\ step' = "publish"
      /\ UNCHANGED <<newest, opening, source, todo, entries, total, disk, listed, stale, outrun, closing, diskErrors,
                     removed>>
  BY DEF AllStored, cacheVars
<1>2. HlsShape
  BY DEF HlsInv
<1>3. Oldest \in Nat /\ Oldest' \in Nat /\ Oldest <= Oldest' /\ Oldest' = Oldest
  BY <1>1, <1>2, OldestStays
<1>4. Storing /\ Stored = Target /\ Held = known \cup Target /\ Wanted = known \cup Target
  BY <1>1, EmptyCache DEF Held, Stored, Storing, Wanted
<1>5. /\ Target \subseteq source[1]..source[2] /\ Target \subseteq Nat
      /\ opening => \E a, b \in Nat : Target = a..b /\ a <= b /\ b <= source[2] /\ b - a + 1 <= StartSegments
  BY <1>2, TargetIs
<1>6. known' = IF opening THEN Target ELSE Held \cap ToSet(entries)
  <2>1. known' = IF opening THEN Target ELSE (known \cup Target) \cap ToSet(entries)
    BY DEF AllStored, Target, Pruned
  <2> QED BY <1>4, <2>1
<1>7. known' \subseteq Held
  BY <1>4, <1>6
<1>8. known \in SUBSET Nat /\ known \subseteq 0..source[2] /\ source[1] \in Nat /\ source[2] \in Nat /\ IsFiniteSet(known)
  BY <1>2, KnownIs DEF HlsShape
<1>9. known' \subseteq 0..source[2]
  BY <1>4, <1>5, <1>7, <1>8
<1>10. HlsShape'
  BY <1>1, <1>2, <1>3, <1>9 DEF HlsShape, Steps
<1>11. ~Storing' /\ Held' = known' /\ Wanted' = known'
  BY <1>1 DEF Storing, Held, Stored, Wanted
<1>12. FilesKept'
  BY <1>1 DEF FilesKept, HlsInv
<1>13. TodoKept'
  BY <1>1, <1>11, RestKeepsTodo
<1>14. OrderKept'
  BY <1>1, <1>7, <1>11, FewerKeepOrder DEF HlsInv
<1>15. \A a, b \in known', m \in Nat : (Oldest <= m \/ ~outrun) /\ a <= m /\ m <= b => m \in known'
  <2>1. CASE opening
    <3>1. PICK a, b \in Nat : Target = a..b
      BY <1>5, <2>1
    <3> QED BY <1>6, <2>1, <3>1
  <2>2. CASE ~opening
    BY <1>1, <1>6, <2>2, Middle
  <2> QED BY <2>1, <2>2
<1>16. NoHoles'
  BY <1>1, <1>3, <1>11, <1>15 DEF NoHoles, Convex
<1>17. WarmKept'
  BY <1>1, <1>11 DEF WarmKept, HlsInv
<1>18. source[2] \in known' \/ opening
  <2> SUFFICES ASSUME ~opening PROVE source[2] \in known'
    OBVIOUS
  <2>1. Least(known) \in Nat /\ (known # {} => Least(known) \in known) /\ (known = {} => Least(known) = 0)
    BY <1>8, LeastIs DEF Least
  <2>2. Least(known) <= source[2]
    BY <1>8, <2>1
  <2>3. source[2] \in source[1]..source[2]
    BY <1>2, <1>8 DEF HlsShape
  <2>4. source[2] \in known \cup Target
    BY <2>2, <2>3 DEF Target, Missing
  <2>5. source[2] \in ToSet(entries)
    BY <1>4, <2>4 DEF HlsInv, OrderKept
  <2> QED BY <1>4, <1>6, <2>4, <2>5
<1>19. listed # <<>> => known' # {} /\ Last(listed) <= source[2] /\ \A n \in known' : Head(listed) <= n
  <2> SUFFICES ASSUME listed # <<>>
               PROVE  known' # {} /\ Last(listed) <= source[2] /\ \A n \in known' : Head(listed) <= n
    OBVIOUS
  <2>1. ~opening
    BY DEF HlsInv, WarmKept
  <2>2. known # {} /\ Last(listed) <= source[2] /\ (\A n \in known : Head(listed) <= n) /\ Head(listed) \in Nat
    BY <1>2, EndsAre DEF HlsInv, ListedKept
  <2> DEFINE first == Head(listed)
  <2> HIDE DEF first
  <2>3. ASSUME NEW n \in Target PROVE first <= n
    <3>1. PICK a \in known : TRUE
      BY <2>2
    <3>2. a < n /\ first <= a
      BY <1>4, <2>2 DEF HlsInv, TodoKept, first
    <3>3. first \in Nat /\ a \in Nat /\ n \in Nat
      BY <1>5, <1>8, <2>2 DEF first
    <3> QED BY <3>2, <3>3
  <2>4. \A n \in known \cup Target : first <= n
    BY <2>2, <2>3 DEF first
  <2> QED BY <1>4, <1>7, <1>18, <2>1, <2>2, <2>4 DEF first
<1>20. WarmFits => known' \subseteq ToSet(entries)
  BY <1>4, <1>6 DEF HlsInv, WarmKept
<1>21. ListedKept'
  BY <1>1, <1>18, <1>19, <1>20 DEF ListedKept, Idle, HlsInv
<1> QED BY <1>10, <1>12, <1>13, <1>14, <1>16, <1>17, <1>21 DEF HlsInv

-----------------------------------------------------------------------------
(* removeEntry keeps the sum.                                              *)
LEMMA SumIs ==
    ASSUME HlsInv, NEW n \in Nat
    PROVE  SumWithout(n) = TotalOf(Without(n)) /\ SumWithout(n) + Bytes(n) \in Nat
<1>1. entries \in Seq(Nat) /\ IsInjective(entries) /\ total = TotalOf(entries)
  BY DEF HlsInv, HlsShape, FilesKept
<1>2. Without(n) \in Seq(Nat) /\ ToSet(Without(n)) = ToSet(entries) \ {n}
  BY <1>1, WithoutIs
<1>3. TotalOf(Without(n)) \in Nat /\ TotalOf(entries) \in Nat /\ Bytes(n) \in Nat
  BY <1>1, <1>2, SizeOf, BytesAre
<1>4. CASE n \in ToSet(entries)
  <2>1. TotalOf(entries) = TotalOf(Without(n)) + Bytes(n)
    BY <1>1, <1>2, <1>4, OneMore
  <2>2. SumWithout(n) = TotalOf(entries) - Bytes(n)
    BY <1>1, <1>4 DEF SumWithout
  <2> QED BY <1>3, <2>1, <2>2
<1>5. CASE n \notin ToSet(entries)
  <2>1. ToSet(Without(n)) = ToSet(entries)
    BY <1>2, <1>5
  <2>2. TotalOf(Without(n)) = TotalOf(entries)
    BY <2>1 DEF TotalOf
  <2> QED BY <1>1, <1>3, <1>5, <2>2 DEF SumWithout
<1> QED BY <1>4, <1>5

(* SegmentCache.Put: what is stored is newer than all that is held, so it  *)
(* goes to the end in order, and what is evicted is older than the rest.   *)
LEMMA AllIs ==
    ASSUME HlsInv, NEW n \in Nat, NEW all, all = Append(Without(n), n)
    PROVE  /\ all \in Seq(Nat) /\ IsInjective(all) /\ all # <<>> /\ Last(all) = n
           /\ ToSet(all) = ToSet(entries) \cup {n} /\ TotalOf(all) = SumWithout(n) + Bytes(n)
           /\ \A i, j \in DOMAIN all : i < j => \/ all[j] = n /\ all[i] \in ToSet(entries) \ {n}
                                               \/ \E k, l \in DOMAIN entries : /\ k < l /\ all[i] = entries[k] /\ all[j] = entries[l]
                                                                               /\ entries[k] # n /\ entries[l] # n
<1> DEFINE w == Without(n)
<1>1. /\ w \in Seq(Nat) /\ IsInjective(w) /\ ToSet(w) = ToSet(entries) \ {n}
      /\ \A i, j \in DOMAIN w : i < j => \E k, l \in DOMAIN entries :
                 k < l /\ w[i] = entries[k] /\ w[j] = entries[l]
  BY WithoutIs DEF HlsInv, HlsShape, FilesKept
<1> HIDE DEF w
<1>2. all = Append(w, n)
  BY DEF w
<1>3. Len(w) \in Nat /\ DOMAIN w = 1..Len(w)
  BY <1>1
<1>4. /\ all \in Seq(Nat) /\ Len(all) = Len(w) + 1 /\ DOMAIN all = 1..(Len(w) + 1) /\ all # <<>>
      /\ all[Len(w) + 1] = n /\ \A i \in 1..Len(w) : all[i] = w[i]
  BY <1>1, <1>2
<1>5. \A i \in 1..Len(w) : w[i] \in ToSet(entries) \ {n}
  BY <1>1, <1>3 DEF ToSet
<1>6. \A i \in 1..(Len(w) + 1) : i \in 1..Len(w) \/ i = Len(w) + 1
  BY <1>3
<1>7. IsInjective(all)
  BY <1>1, <1>3, <1>4, <1>5, <1>6 DEF IsInjective
<1>8. Last(all) = n
  BY <1>4 DEF Last
<1>9. ToSet(all) = ToSet(entries) \cup {n}
  <2>1. \A i \in 1..(Len(w) + 1) : all[i] \in ToSet(entries) \cup {n}
    BY <1>4, <1>5, <1>6
  <2>2. Len(w) + 1 \in 1..(Len(w) + 1) /\ 1..Len(w) \subseteq 1..(Len(w) + 1)
    BY <1>3
  <2>3. \A v \in ToSet(w) : v \in ToSet(all)
    BY <1>3, <1>4, <2>2 DEF ToSet
  <2>4. n \in ToSet(all)
    BY <1>4, <2>2 DEF ToSet
  <2>5. ToSet(all) \subseteq ToSet(entries) \cup {n}
    BY <1>4, <2>1 DEF ToSet
  <2> QED BY <1>1, <2>3, <2>4, <2>5
<1>10. ASSUME NEW i \in DOMAIN all, NEW j \in DOMAIN all, i < j
       PROVE  \/ all[j] = n /\ all[i] \in ToSet(entries) \ {n}
              \/ \E k, l \in DOMAIN entries : /\ k < l /\ all[i] = entries[k] /\ all[j] = entries[l]
                                              /\ entries[k] # n /\ entries[l] # n
  <2>1. i \in 1..Len(w)
    BY <1>3, <1>4, <1>10
  <2>2. CASE j = Len(w) + 1
    BY <1>4, <1>5, <2>1, <2>2
  <2>3. CASE j \in 1..Len(w)
    <3>1. PICK k, l \in DOMAIN entries : k < l /\ w[i] = entries[k] /\ w[j] = entries[l]
      BY <1>1, <1>3, <1>10, <2>1, <2>3
    <3> QED BY <1>4, <1>5, <2>1, <2>3, <3>1
  <2> QED BY <1>4, <1>6, <2>2, <2>3
<1>11. TotalOf(all) = SumWithout(n) + Bytes(n)
  <2>1. ToSet(all) = ToSet(w) \cup {n} /\ n \notin ToSet(w)
    BY <1>1, <1>9
  <2>a. w \in Seq(Nat) /\ all \in Seq(Nat)
    BY <1>1, <1>4
  <2>2. TotalOf(all) = TotalOf(w) + Bytes(n)
    BY <2>a, <2>1, OneMore
  <2> QED BY <2>2, SumIs DEF w
<1> QED BY <1>4, <1>7, <1>8, <1>9, <1>10, <1>11

LEMMA KeptOf ==
    ASSUME NEW q \in Seq(Nat), IsInjective(q), q # <<>>, Bytes(Last(q)) <= MaxBytes,
           NEW sum, sum = TotalOf(q)
    PROVE  /\ Enforced(q, sum) \in Seq(Nat) /\ IsInjective(Enforced(q, sum)) /\ Last(q) \in ToSet(Enforced(q, sum))
           /\ ToSet(Enforced(q, sum)) \subseteq ToSet(q)
           /\ \A i, j \in DOMAIN Enforced(q, sum) : i < j => \E k, l \in DOMAIN q :
                 k < l /\ Enforced(q, sum)[i] = q[k] /\ Enforced(q, sum)[j] = q[l]
           /\ \A k, l \in DOMAIN q : k < l /\ q[k] \in ToSet(Enforced(q, sum)) => q[l] \in ToSet(Enforced(q, sum))
<1> DEFINE e == Excess(q, sum)
           r == Enforced(q, sum)
<1>1. e \in 0..Len(q) /\ e < Len(q) /\ r = SubSeq(q, e + 1, Len(q))
  BY EnforcedIs
<1>2. Len(q) \in Nat /\ e \in Nat /\ DOMAIN q = 1..Len(q) /\ \A i \in 1..Len(q) : q[i] \in Nat
  BY <1>1
<1> HIDE DEF e
<1>3. /\ SubSeq(q, e + 1, Len(q)) \in Seq(Nat) /\ Len(SubSeq(q, e + 1, Len(q))) = Len(q) - e
      /\ \A i \in 1..(Len(q) - e) : SubSeq(q, e + 1, Len(q))[i] = q[i + e] /\ i + e \in 1..Len(q)
  BY <1>1, PartOf
<1> HIDE DEF r
<1>4. /\ r \in Seq(Nat) /\ DOMAIN r = 1..(Len(q) - e)
      /\ \A i \in 1..(Len(q) - e) : r[i] = q[i + e] /\ i + e \in 1..Len(q)
  BY <1>1, <1>3
<1>5. \A l \in 1..Len(q) : l > e => q[l] \in ToSet(r)
  <2> SUFFICES ASSUME NEW l \in 1..Len(q), l > e PROVE q[l] \in ToSet(r)
    OBVIOUS
  <2>1. l - e \in 1..(Len(q) - e) /\ l - e + e = l
    BY <1>2
  <2>2. r[l - e] = q[l]
    BY <1>4, <2>1
  <2> QED BY <1>4, <2>1, <2>2 DEF ToSet
<1>6. \A v \in ToSet(r) : \E i \in 1..(Len(q) - e) : v = q[i + e] /\ i + e \in 1..Len(q) /\ i + e > e
  <2> SUFFICES ASSUME NEW i \in 1..(Len(q) - e) PROVE r[i] = q[i + e] /\ i + e \in 1..Len(q) /\ i + e > e
    BY <1>4 DEF ToSet
  <2>1. i \in Nat /\ i >= 1
    BY <1>2
  <2> QED BY <1>2, <1>4, <2>1
<1>7. IsInjective(r)
  <2> SUFFICES ASSUME NEW i \in 1..(Len(q) - e), NEW j \in 1..(Len(q) - e), r[i] = r[j] PROVE i = j
    BY <1>4 DEF IsInjective
  <2>1. i + e = j + e
    BY <1>2, <1>4 DEF IsInjective
  <2> QED BY <1>2, <2>1
<1>8. Last(q) \in ToSet(r)
  <2>1. Last(q) = q[Len(q)] /\ Len(q) \in 1..Len(q) /\ Len(q) > e
    BY <1>1, <1>2 DEF Last
  <2> QED BY <1>5, <2>1
<1>9. ToSet(r) \subseteq ToSet(q)
  BY <1>2, <1>6 DEF ToSet
<1>10. ASSUME NEW i \in DOMAIN r, NEW j \in DOMAIN r, i < j
       PROVE  \E k, l \in DOMAIN q : k < l /\ r[i] = q[k] /\ r[j] = q[l]
  <2>0. i \in 1..(Len(q) - e) /\ j \in 1..(Len(q) - e) /\ i \in Nat /\ j \in Nat
    BY <1>2, <1>4
  <2>a. i + e < j + e
    BY <1>2, <1>10, <2>0
  <2>1. i + e \in DOMAIN q /\ j + e \in DOMAIN q /\ i + e < j + e
    BY <1>2, <1>4, <2>0, <2>a
  <2> QED BY <1>4, <2>1
<1>11. ASSUME NEW k \in DOMAIN q, NEW l \in DOMAIN q, k < l, q[k] \in ToSet(r) PROVE q[l] \in ToSet(r)
  <2>1. PICK i \in 1..(Len(q) - e) : q[k] = q[i + e] /\ i + e \in 1..Len(q) /\ i + e > e
    BY <1>6, <1>11
  <2>2. k = i + e
    BY <1>2, <2>1 DEF IsInjective
  <2>3. l > e
    BY <1>2, <1>11, <2>1, <2>2
  <2> QED BY <1>2, <1>5, <2>3
<1> QED BY <1>4, <1>7, <1>8, <1>9, <1>10, <1>11 DEF r

LEMMA PutKeeps == HlsInv /\ Put => HlsInv'
<1> SUFFICES ASSUME HlsInv, Put PROVE HlsInv'
  OBVIOUS
<1> DEFINE n == Head(todo)
           all == Append(Without(n), n)
           sum == SumWithout(n) + Bytes(n)
           kept == Enforced(all, sum)
<1>1. /\ step = "put" /\ todo # <<>> /\ Bytes(n) <= MaxBytes
      /\ entries' = kept /\ total' = SumLeft(all, sum, Excess(all, sum)) /\ disk' = (disk \cup {n}) \ (ToSet(all) \ ToSet(kept))
      /\ todo' = Tail(todo)
      /\ UNCHANGED <<newest, step, opening, source, known, listed, stale, outrun, closing, diskErrors, removed>>
  BY DEF Put
<1>2. HlsShape
  BY DEF HlsInv
<1>3. Oldest \in Nat /\ Oldest' \in Nat /\ Oldest <= Oldest' /\ Oldest' = Oldest
  BY <1>1, <1>2, OldestStays
<1>4. Storing /\ Storing' /\ Target' = Target /\ Wanted' = Wanted
  BY <1>1, SameSets DEF Storing
<1>5. /\ n \in ToSet(todo) /\ \A m \in ToSet(todo) : n <= m
      /\ Tail(todo) \in Seq(Nat) /\ Ascends(Tail(todo)) /\ ToSet(Tail(todo)) = ToSet(todo) \ {n}
      /\ \A m \in ToSet(Tail(todo)) : n < m
  BY <1>1, <1>2, EndsOf, TailOf DEF HlsInv, HlsShape, TodoKept
<1> HIDE DEF n
<1>6. n \in Target /\ n \in Nat /\ n <= source[2] /\ Target \subseteq Nat /\ Target \subseteq source[1]..source[2]
  <2>1. n \in Target
    BY <1>4, <1>5 DEF HlsInv, TodoKept
  <2> QED BY <1>2, <2>1, TargetIs DEF HlsShape
<1>7. Stored = Target \ ToSet(todo) /\ Stored' = Stored \cup {n} /\ Held' = Held \cup {n}
  <2>1. ToSet(todo)' = ToSet(todo) \ {n}
    BY <1>1, <1>5
  <2>2. Stored = Target \ ToSet(todo)
    BY <1>4 DEF Stored
  <2>3. Stored' = Stored \cup {n}
    BY <1>4, <1>5, <1>6, <2>1, <2>2 DEF Stored
  <2> QED BY <1>1, <2>2, <2>3 DEF Held
<1>8. \A a \in Held : a < n /\ a \in Nat
  <2>1. \A a \in Held : a < n
    BY <1>4, <1>5 DEF HlsInv, TodoKept
  <2>2. Held \subseteq Nat
    BY <1>2, <1>6, <1>7, KnownIs DEF Held
  <2> QED BY <2>1, <2>2
<1>9. /\ all \in Seq(Nat) /\ IsInjective(all) /\ all # <<>> /\ Last(all) = n
      /\ ToSet(all) = ToSet(entries) \cup {n} /\ sum = TotalOf(all)
      /\ \A i, j \in DOMAIN all : i < j => \/ all[j] = n /\ all[i] \in ToSet(entries) \ {n}
                                           \/ \E k, l \in DOMAIN entries : /\ k < l /\ all[i] = entries[k] /\ all[j] = entries[l]
                                                                           /\ entries[k] # n /\ entries[l] # n
  BY <1>6, AllIs
<1> HIDE DEF all, sum
<1>10. /\ kept \in Seq(Nat) /\ IsInjective(kept) /\ n \in ToSet(kept) /\ ToSet(kept) \subseteq ToSet(all)
       /\ \A i, j \in DOMAIN kept : i < j => \E k, l \in DOMAIN all :
                 k < l /\ kept[i] = all[k] /\ kept[j] = all[l]
       /\ \A k, l \in DOMAIN all : k < l /\ all[k] \in ToSet(kept) => all[l] \in ToSet(kept)
  BY <1>1, <1>9, KeptOf
<1>11. ~TooMuch(kept) /\ (~TooMuch(all) => kept = all) /\ total' = TotalOf(kept)
  BY <1>1, <1>9, EnforcedIs
<1>12. Len(kept) \in Nat /\ TotalOf(kept) \in Nat /\ MaxCached \in Nat /\ MaxBytes \in Nat
  BY <1>10, SizeOf, HlsAssumption
<1> HIDE DEF kept
<1>13. \A i, j \in DOMAIN all : i < j /\ all[i] \in Held' /\ all[j] \in Held' => all[i] < all[j]
  <2> SUFFICES ASSUME NEW i \in DOMAIN all, NEW j \in DOMAIN all, i < j, all[i] \in Held', all[j] \in Held'
               PROVE  all[i] < all[j]
    OBVIOUS
  <2>1. CASE all[j] = n /\ all[i] \in ToSet(entries) \ {n}
    BY <1>7, <1>8, <2>1
  <2>2. CASE \E k, l \in DOMAIN entries : /\ k < l /\ all[i] = entries[k] /\ all[j] = entries[l]
                                         /\ entries[k] # n /\ entries[l] # n
    BY <1>7, <2>2 DEF HlsInv, OrderKept
  <2> QED BY <1>9, <2>1, <2>2
<1>14. HlsShape'
  <2>1. disk' \subseteq Nat
    BY <1>1, <1>2, <1>6 DEF HlsShape
  <2> QED BY <1>1, <1>2, <1>3, <1>5, <1>10, <2>1 DEF HlsShape
<1>15. FilesKept'
  <2>1. ~removed
    BY <1>1 DEF HlsInv, FilesKept
  <2>2. ToSet(entries) \subseteq disk /\ (disk \subseteq ToSet(entries) \/ diskErrors > 0)
    BY <2>1 DEF HlsInv, FilesKept
  <2>3. ToSet(kept) \subseteq disk' /\ (disk' \subseteq ToSet(kept) \/ diskErrors > 0)
    BY <1>1, <1>9, <1>10, <2>2
  <2>4. Len(kept) <= MaxCached /\ TotalOf(kept) <= MaxBytes
    BY <1>11, <1>12 DEF TooMuch, OverLimit
  <2> QED BY <1>1, <1>10, <1>11, <2>1, <2>3, <2>4 DEF FilesKept
<1>16. TodoKept'
  <2>1. ToSet(todo)' = ToSet(todo) \ {n} /\ Ascends(todo')
    BY <1>1, <1>5
  <2>2. \A a \in Held', b \in ToSet(todo)' : a < b
    BY <1>1, <1>4, <1>5, <1>7, <2>1 DEF HlsInv, TodoKept
  <2>3. Ascends(todo)' <=> Ascends(todo')
    BY DEF Ascends
  <2> QED BY <1>1, <1>4, <2>1, <2>2, <2>3 DEF HlsInv, TodoKept
<1>17. OrderKept'
  <2>1. \A i, j \in DOMAIN kept : i < j /\ kept[i] \in Held' /\ kept[j] \in Held' => kept[i] < kept[j]
    BY <1>10, <1>13
  <2>2. ASSUME NEW a \in Held' \cap ToSet(kept), NEW b \in Held', a < b PROVE b \in ToSet(kept)
    <3>1. CASE b = n
      BY <1>10, <3>1
    <3>2. CASE b \in Held
      <4>1. a \in Held
        BY <1>6, <1>7, <1>8, <2>2, <3>2
      <4>2. a \in ToSet(entries) /\ a # n
        BY <1>6, <1>8, <1>9, <1>10, <4>1
      <4>3. b \in ToSet(all)
        BY <1>9, <2>2, <3>2, <4>1, <4>2 DEF HlsInv, OrderKept
      <4>4. PICK i \in DOMAIN all, j \in DOMAIN all : all[i] = a /\ all[j] = b
        BY <1>10, <4>3 DEF ToSet
      <4>5. i \in Nat /\ j \in Nat /\ a \in Nat /\ b \in Nat
        BY <1>8, <1>9, <3>2, <4>1, <4>4
      <4>6. ~(j < i) /\ j # i
        BY <1>13, <2>2, <4>4, <4>5
      <4>7. i < j
        BY <4>5, <4>6
      <4> QED BY <1>10, <4>4, <4>7
    <3> QED BY <1>7, <3>1, <3>2
  <2>3. source[2] \in Held' => source[2] \in ToSet(kept)
    <3>1. source[2] \in Nat
      BY <1>2 DEF HlsShape
    <3>2. source[2] \notin Held
      BY <1>6, <1>8, <3>1
    <3> QED BY <1>7, <1>10, <3>2
  <2> QED BY <1>1, <2>1, <2>2, <2>3 DEF OrderKept
<1>18. NoHoles'
  BY <1>1, <1>2, <1>3, <1>4, SameHoles, KnownIs DEF HlsInv
<1>19. WarmKept'
  <2>1. ASSUME opening, WarmFits PROVE ToSet(kept) = Stored'
    <3>1. ToSet(all) = Stored'
      BY <1>1, <1>4, <1>7, <1>9, <2>1 DEF HlsInv, WarmKept
    <3>2. PICK a, b \in Nat : Target = a..b /\ a <= b /\ b - a + 1 <= StartSegments
      BY <1>2, <2>1, TargetIs
    <3>3. IsFiniteSet(Target) /\ Cardinality(Target) = b - a + 1
      <4>1. a \in Int /\ b \in Int /\ ~(a > b)
        BY <3>2
      <4>2. IsFiniteSet(a..b) /\ Cardinality(a..b) = IF a > b THEN 0 ELSE b - a + 1
        BY <4>1, FS_Interval
      <4> QED BY <3>2, <4>1, <4>2
    <3>4. ToSet(all) \subseteq Target
      BY <1>6, <1>7, <3>1
    <3>5. Cardinality(ToSet(all)) <= Cardinality(Target)
      BY <3>3, <3>4, FS_Subset
    <3>6. Len(all) = Cardinality(ToSet(all)) /\ Len(all) \in Nat
      BY <1>9, ElementsOf
    <3>7. TotalOf(all) <= 2 * Cardinality(ToSet(all)) /\ TotalOf(all) \in Nat
      BY <1>9, SizeOf
    <3>8. Len(all) <= StartSegments /\ StartSegments \in Nat /\ StartSegments <= MaxCached /\ MaxCached \in Nat
          /\ MaxBytes \in Nat
      BY <3>2, <3>3, <3>5, <3>6, HlsAssumption
    <3>9. Len(all) <= MaxCached /\ TotalOf(all) <= MaxBytes
      BY <2>1, <3>6, <3>7, <3>8 DEF WarmFits
    <3>10. ~TooMuch(all)
      BY <3>6, <3>7, <3>8, <3>9 DEF TooMuch, OverLimit
    <3> QED BY <1>11, <3>1, <3>10
  <2>2. ToSet(entries)' = ToSet(kept)
    BY <1>1
  <2> QED BY <1>1, <1>4, <2>1, <2>2 DEF WarmKept, HlsInv
<1>20. ListedKept'
  BY <1>1 DEF ListedKept, Idle, HlsInv
<1> QED BY <1>14, <1>15, <1>16, <1>17, <1>18, <1>19, <1>20 DEF HlsInv

LEMMA PutFailsKeeps == HlsInv /\ PutFails => HlsInv'
<1> SUFFICES ASSUME HlsInv, PutFails PROVE HlsInv'
  OBVIOUS
<1> DEFINE n == Head(todo)
           w == Without(n)
<1>1. /\ step = "put" /\ todo # <<>> /\ diskErrors' = diskErrors + 1
      /\ entries' = w /\ total' = SumWithout(n)
      /\ todo' = <<>> /\ stale' = TRUE /\ outrun' = TRUE
      /\ UNCHANGED <<newest, opening, source, known, closing>>
      /\ opening => step' = "done" /\ removed' = TRUE /\ disk' = {} /\ listed' = <<>>
      /\ ~opening => /\ step' = "sleep" /\ removed' = removed /\ listed' = listed
                     /\ disk' \in {disk \ {n}, disk \cup {n}}
  BY DEF PutFails, Abandon
<1>2. HlsShape
  BY DEF HlsInv
<1>3. Oldest \in Nat /\ Oldest' \in Nat /\ Oldest <= Oldest' /\ Oldest' = Oldest
  BY <1>1, <1>2, OldestStays
<1>4. n \in Target /\ n \in Nat
  <2>1. n \in ToSet(todo)
    BY <1>1, <1>2, EndsOf DEF HlsInv, HlsShape, TodoKept
  <2>2. n \in Target
    BY <1>1, <2>1 DEF HlsInv, TodoKept, Storing
  <2> QED BY <1>2, <2>2, TargetIs
<1> HIDE DEF n
<1>5. /\ w \in Seq(Nat) /\ IsInjective(w) /\ ToSet(w) = ToSet(entries) \ {n} /\ Len(w) <= Len(entries)
      /\ \A i, j \in DOMAIN w : i < j => \E k, l \in DOMAIN entries :
                 k < l /\ w[i] = entries[k] /\ w[j] = entries[l]
  BY <1>2, <1>4, WithoutIs DEF HlsInv, HlsShape, FilesKept
<1>a. total' = TotalOf(w)
  BY <1>1, <1>4, SumIs
<1> HIDE DEF w
<1>6. ~Storing' /\ Held' = known /\ Wanted' = known
  BY <1>1, SameSets DEF Storing
<1>7. known \subseteq Nat /\ n \notin known
  <2>1. \A a \in known : a < n
    BY <1>1, <1>4 DEF HlsInv, TodoKept, Storing
  <2> QED BY <1>2, <1>4, <2>1, KnownIs
<1>8. HlsShape'
  <2>1. todo' \in Seq(Nat) /\ listed' \in Seq(Nat)
    BY <1>1, <1>2, EmptyCache DEF HlsShape
  <2>2. disk' \subseteq Nat
    BY <1>1, <1>2, <1>4 DEF HlsShape
  <2>a. step' \in {"done", "sleep"} /\ stale' = TRUE /\ outrun' = TRUE /\ removed' \in {TRUE, removed}
    BY <1>1, <1>2 DEF HlsShape
  <2>b. diskErrors' \in Nat
    BY <1>1, <1>2 DEF HlsShape
  <2>3. /\ step' \in Steps /\ stale' \in BOOLEAN /\ outrun' \in BOOLEAN /\ removed' \in BOOLEAN
        /\ diskErrors' \in Nat
    BY <1>2, <2>a, <2>b DEF HlsShape, Steps
  <2> QED BY <1>1, <1>2, <1>3, <1>5, <2>1, <2>2, <2>3 DEF HlsShape
<1>9. FilesKept'
  <2>1. ~removed /\ ToSet(entries) \subseteq disk /\ Len(entries) <= MaxCached /\ total = TotalOf(entries)
        /\ total <= MaxBytes
    BY <1>1 DEF HlsInv, FilesKept
  <2>2. ToSet(w) \subseteq ToSet(entries)
    BY <1>5
  <2>3. TotalOf(w) <= TotalOf(entries) /\ TotalOf(w) \in Nat /\ TotalOf(entries) \in Nat
    BY <1>2, <1>5, <2>2, SizeOf DEF HlsShape
  <2>4. TotalOf(w) <= MaxBytes /\ Len(w) <= MaxCached
    <3>1. Len(w) \in Nat /\ Len(entries) \in Nat /\ MaxCached \in Nat /\ MaxBytes \in Nat
      BY <1>2, <1>5, HlsAssumption DEF HlsShape
    <3> QED BY <1>5, <2>1, <2>3, <3>1
  <2>5. removed' \/ ToSet(w) \subseteq disk'
    BY <1>1, <1>5, <2>1
  <2>6. diskErrors' > 0
    BY <1>1, <1>2 DEF HlsShape
  <2>7. removed' => step' = "done" /\ disk' = {} /\ listed' = <<>>
    BY <1>1, <2>1
  <2> QED BY <1>1, <1>5, <1>a, <2>4, <2>5, <2>6, <2>7 DEF FilesKept
<1>10. TodoKept'
  BY <1>1, <1>6, RestKeepsTodo
<1>11. OrderKept'
  <2>1. \A i, j \in DOMAIN w : i < j /\ w[i] \in known /\ w[j] \in known => w[i] < w[j]
    BY <1>5, HeldGrows DEF HlsInv, OrderKept
  <2>2. \A a \in known \cap ToSet(w), b \in known : a < b => b \in ToSet(w)
    BY <1>5, <1>7, HeldGrows DEF HlsInv, OrderKept
  <2>3. source[2] \in known => source[2] \in ToSet(w)
    BY <1>5, <1>7, HeldGrows DEF HlsInv, OrderKept
  <2> QED BY <1>1, <1>6, <2>1, <2>2, <2>3 DEF OrderKept
<1>12. NoHoles'
  BY <1>1, <1>3, <1>6, <1>7, SameHoles DEF HlsInv
<1>13. WarmKept'
  BY <1>1, <1>6 DEF WarmKept, HlsInv
<1>14. ListedKept'
  BY <1>1 DEF ListedKept, Idle, HlsInv
<1> QED BY <1>8, <1>9, <1>10, <1>11, <1>12, <1>13, <1>14 DEF HlsInv

LEMMA HlsRests == HlsInv /\ UNCHANGED hlsVars => HlsInv'
<1> SUFFICES ASSUME HlsInv, UNCHANGED hlsVars PROVE HlsInv'
  OBVIOUS
<1>1. HlsShape
  BY DEF HlsInv
<1>2. newest' = newest
  BY DEF hlsVars
<1>3. Oldest \in Nat /\ Oldest' \in Nat /\ Oldest <= Oldest' /\ Oldest' = Oldest
  BY <1>1, <1>2, OldestStays
<1>4. HlsShape'
  BY <1>1, <1>3 DEF HlsShape, hlsVars
<1> QED BY <1>3, <1>4, HlsMoves DEF hlsVars, cacheVars

LEMMA HlsStep == HlsInv /\ [HlsNext]_hlsVars => HlsInv'
BY SourceMovesKeeps, LoopMoves, RemoveKeeps, LoadKeeps, LoadFailsKeeps, PublishKeeps, AllStoredKeeps, PutKeeps,
   PutFailsKeeps, PublishFailsKeeps, HlsRests DEF HlsNext, Work

LEMMA HlsInvariant == HlsSpec => []HlsInv
BY HlsStarts, HlsStep, PTL DEF HlsSpec

-----------------------------------------------------------------------------
(* What the invariant says of the properties.                              *)
LEMMA HlsLimits == HlsInv => HlsTypeOK /\ WithinLimits
<1> SUFFICES ASSUME HlsInv PROVE HlsTypeOK /\ WithinLimits
  OBVIOUS
<1>1. HlsShape
  BY DEF HlsInv
<1>2. ToSet(todo) \subseteq source[1]..source[2]
  <2>1. CASE Storing
    BY <1>1, <2>1, TargetIs DEF HlsInv, TodoKept
  <2>2. CASE ~Storing
    BY <2>2, EmptyCache DEF HlsInv, TodoKept
  <2> QED BY <2>1, <2>2
<1>3. Len(entries) = Cardinality(ToSet(entries))
  BY <1>1, ElementsOf DEF HlsShape, HlsInv, FilesKept
<1>4. HlsTypeOK
  BY <1>1, <1>2, <1>3, KnownIs DEF HlsShape, HlsTypeOK
<1>5. WithinLimits
  BY DEF WithinLimits, HlsInv, FilesKept
<1> QED BY <1>4, <1>5

LEMMA DirectoryHolds == HlsInv /\ WarmFits => DirectoryIsTrue
<1> SUFFICES ASSUME HlsInv, WarmFits PROVE PlaylistIsTrue /\ RemovedIsFinal
  BY DEF DirectoryIsTrue
<1>1. ASSUME Idle PROVE ToSet(listed) \subseteq disk
  <2>1. ToSet(entries) \subseteq disk /\ known \subseteq ToSet(entries)
    BY <1>1 DEF Idle, HlsInv, FilesKept, ListedKept
  <2>2. listed = UpTo(known)
    BY <1>1 DEF HlsInv, ListedKept
  <2>3. ToSet(UpTo(known)) = known
    BY KnownIs, UpToIs DEF HlsInv
  <2> QED BY <2>1, <2>2, <2>3
<1>2. PlaylistIsTrue
  BY <1>1 DEF PlaylistIsTrue, HlsInv, ListedKept
<1>3. RemovedIsFinal
  BY DEF RemovedIsFinal, HlsInv, FilesKept
<1> QED BY <1>2, <1>3

ForwardStep ==
    /\ listed # <<>> /\ listed' # <<>>
         => Head(listed') >= Head(listed) /\ Last(listed') >= Last(listed)
    /\ step = "publish" /\ step' = "sleep" /\ ~opening /\ ~stale'
         => listed' # <<>> /\ Last(listed') = source[2]

LEMMA Forward == HlsInv /\ [HlsNext]_hlsVars => ForwardStep
<1> SUFFICES ASSUME HlsInv, [HlsNext]_hlsVars PROVE ForwardStep
  OBVIOUS
<1>1. listed \in Seq(Nat) /\ known \in SUBSET Nat /\ IsFiniteSet(known) /\ known \subseteq 0..source[2] /\ source[2] \in Nat
  BY KnownIs DEF HlsInv, HlsShape
<1>2. listed # <<>> => Head(listed) \in Nat /\ Last(listed) \in Nat
  BY <1>1 DEF Last
<1>3. CASE Publish
  <2>1. listed' = UpTo(known) /\ step = "publish"
    BY <1>3 DEF Publish
  <2>2. CASE opening
    BY <2>2 DEF ForwardStep, HlsInv, WarmKept
  <2>3. CASE ~opening
    <3>1. source[2] \in known
      BY <2>1, <2>3 DEF HlsInv, ListedKept
    <3>2. listed' \in Seq(Nat) /\ Ascends(listed') /\ ToSet(listed') = known /\ listed' # <<>>
      BY <1>1, <2>1, <3>1, UpToIs
    <3> DEFINE q == listed'
    <3> HIDE DEF q
    <3>3. q \in Seq(Nat) /\ Ascends(q) /\ ToSet(q) = known /\ q # <<>>
      BY <3>2 DEF q
    <3>4. Head(q) \in known /\ Last(q) \in known /\ \A m \in known : m <= Last(q)
      BY <3>3, EndsOf
    <3>5. Last(q) \in 0..source[2] /\ source[2] <= Last(q) /\ Head(q) \in Nat
      BY <1>1, <3>1, <3>4
    <3>6. Last(q) = source[2]
      BY <1>1, <3>5
    <3>7. listed # <<>> => Last(listed) <= source[2] /\ Head(listed) <= Head(q)
      BY <2>1, <3>4 DEF HlsInv, ListedKept
    <3>8. listed # <<>> => Head(q) >= Head(listed) /\ Last(q) >= Last(listed)
      BY <1>1, <1>2, <3>5, <3>6, <3>7
    <3> QED BY <3>3, <3>6, <3>8 DEF ForwardStep, q
  <2> QED BY <2>2, <2>3
<1>4. CASE ~Publish
  <2>1. listed' = listed \/ listed' = <<>>
    BY <1>4 DEF HlsNext, Work, SourceMoves, Load, LoadFails, Abandon, Fetched, Put, PutFails, AllStored, PublishFails,
                TimerFires, LoopEnds, Close, RemoveDirectory, hlsVars
  <2>2. ~(step = "publish" /\ step' = "sleep" /\ ~stale')
    BY <1>4 DEF HlsNext, Work, SourceMoves, Load, LoadFails, Abandon, Fetched, Put, PutFails, AllStored, PublishFails,
                TimerFires, LoopEnds, Close, RemoveDirectory, hlsVars
  <2>3. listed # <<>> => Head(listed) >= Head(listed) /\ Last(listed) >= Last(listed)
    BY <1>2
  <2> QED BY <2>1, <2>2, <2>3 DEF ForwardStep
<1> QED BY <1>3, <1>4

(* The local playlist only moves forward, and a refresh that succeeds      *)
(* catches up with the source, for any limits, however segments are evicted*)
(* and whatever failed before, fetching, storing or writing the playlist   *)
(* itself (cache.go, session.go).                                          *)
THEOREM PlaylistMovesForward == HlsSpec => PlaysForward
<1>1. HlsInv /\ [HlsNext]_hlsVars => [ForwardStep]_hlsVars
  BY Forward
<1>2. PlaysForward <=> [][ForwardStep]_hlsVars
  BY DEF PlaysForward, ForwardStep
<1> HIDE DEF ForwardStep
<1> QED BY <1>1, <1>2, HlsInvariant, PTL DEF HlsSpec

(* What the playlist names is on disk after a refresh that succeeded, it   *)
(* has no holes while no refresh failed or came too late, and nothing is   *)
(* left once the directory has gone, when the segments OpenSession fetches *)
(* fit into the cache.                                                     *)
THEOREM DirectoryStaysTrue == WarmFits => (HlsSpec => []DirectoryIsTrue)
<1> SUFFICES ASSUME WarmFits PROVE HlsSpec => []DirectoryIsTrue
  OBVIOUS
<1>1. HlsInv => DirectoryIsTrue
  BY DirectoryHolds
<1> QED BY <1>1, HlsInvariant, PTL

(***************************************************************************)
(* The parts side by side, as they are model-checked.                      *)
(***************************************************************************)
HelperPhases == {"starting", "running", "gone", "backoff", "over"}
Helpers == [phase : HelperPhases, id : Nat, restart : BOOLEAN, asked : Nat, killed : BOOLEAN]

(* The channel, the relay and the helper. *)
RoomInv == Len(msgs) <= QueueLen /\ relay.level <= Capacity /\ h \in Helpers

LEMMA QueuedLength ==
  ASSUME NEW S, NEW q \in Seq(S), NEW x
  PROVE  /\ Len(Append(q, x)) = Len(q) + 1 /\ Len(q) \in Nat
         /\ q # <<>> => Len(Tail(q)) = Len(q) - 1 /\ Len(<<x>> \o Tail(q)) = Len(q)
<1> DEFINE T == S \cup {x}
<1>1. q \in Seq(T) /\ x \in T
  OBVIOUS
<1> HIDE DEF T
<1>2. Len(Append(q, x)) = Len(q) + 1 /\ Len(q) \in Nat
  BY <1>1
<1>3. ASSUME q # <<>> PROVE Len(Tail(q)) = Len(q) - 1 /\ Len(<<x>> \o Tail(q)) = Len(q)
  <2>1. Tail(q) \in Seq(T) /\ Len(Tail(q)) = Len(q) - 1 /\ Len(q) \in Nat
    BY <1>1, <1>3
  <2>2. <<x>> \in Seq(T) /\ Len(<<x>>) = 1
    BY <1>1
  <2>3. Len(<<x>> \o Tail(q)) = 1 + Len(Tail(q))
    BY <2>1, <2>2, ConcatProperties
  <2> QED BY <2>1, <2>3
<1> QED BY <1>2, <1>3

(* A message is taken, replaced or posted where there is room.             *)
LEMMA ChannelKept ==
  ASSUME AudioShape, Len(msgs) <= QueueLen, [AudioNext]_audioVars
  PROVE  Len(msgs') <= QueueLen
<1>0. msgs \in Seq(Messages) /\ QueueLen \in Nat /\ Len(msgs) \in Nat
  BY AudioAssumption DEF AudioShape
<1>1. ASSUME Room, NEW m, msgs' = Append(msgs, m) PROVE Len(msgs') <= QueueLen
  BY <1>0, <1>1, QueuedLength DEF Room
<1>2. ASSUME NEW m, Post(m) PROVE Len(msgs') <= QueueLen
  BY <1>1, <1>2 DEF Post
<1>3. ASSUME msgs # <<>>, msgs' = Tail(msgs) PROVE Len(msgs') <= QueueLen
  BY <1>0, <1>3, QueuedLength
<1>4. ASSUME msgs' = msgs PROVE Len(msgs') <= QueueLen
  BY <1>4
<1>5. CASE (\E kind \in SenderEvents : SenderActs(kind)) \/ SessionEnds \/ GraceFires \/ HelperUp \/ HelperExits \/ Backoff
           \/ HelperWrites \/ ReaderTakes \/ BeginStop \/ Reset \/ UNCHANGED audioVars
           \/ \E n \in fetching : FetchArrives(n)
  BY <1>4, <1>5 DEF SenderActs, SessionEnds, GraceFires, HelperUp, HelperExits, Backoff, HelperWrites, ReaderTakes,
                    BeginStop, Reset, FetchArrives, audioVars
<1>6. CASE Deliver \/ (\E ref \in told : TellStopped(ref)) \/ (\E t \in fired : TellGrace(t))
           \/ (\E n \in fetching : FetchFails(n)) \/ AfterExit
  BY <1>2, <1>6 DEF Deliver, TellStopped, TellGrace, FetchFails, AfterExit
<1>7. CASE (\E n \in posting : PostPicture(n)) \/ CloseSession
  BY <1>1, <1>4, <1>7 DEF PostPicture, CloseSession
<1>8. CASE Picture
  <2>1. msgs # <<>> /\ \E m : msgs' = <<m>> \o Tail(msgs)
    BY <1>8 DEF Picture
  <2> QED BY <1>0, <2>1, QueuedLength
<1>9. CASE Handles /\ ~Picture
  <2>1. msgs # <<>> /\ msgs' = Tail(msgs)
    BY <1>9 DEF Handles, Play, Resume, Pause, Grace, CoreStopped, Stop, Fetch, Pictured, CloseRequest, Take
  <2> QED BY <1>3, <2>1
<1> QED BY <1>5, <1>6, <1>7, <1>8, <1>9 DEF AudioNext, Posts

LEMMA LevelKept ==
  ASSUME AudioShape, relay.level <= Capacity, [AudioNext]_audioVars
  PROVE  relay'.level <= Capacity
<1>0. relay \in Relays /\ relay.level \in Nat /\ Capacity \in Nat
  BY AudioAssumption DEF AudioShape, Relays
<1>1. ASSUME NEW d \in BOOLEAN, Drained(d) PROVE relay'.level <= Capacity
  <2> DEFINE k == IF d THEN 0 ELSE relay.level
  <2>1. relay' = [relay EXCEPT !.discard = d, !.level = k, !.waiting = FALSE]
    BY <1>1 DEF Drained
  <2>2. k <= Capacity
    BY <1>0
  <2> HIDE DEF k
  <2>3. relay'.level = k
    BY <1>0, <2>1 DEF Relays
  <2> QED BY <2>2, <2>3
<1>2. ASSUME relay' = relay PROVE relay'.level <= Capacity
  BY <1>2
<1>3. CASE HelperWrites
  <2> DEFINE k == relay.level + 1
  <2>1. CASE relay.level < Capacity
    <3>1. relay' = [relay EXCEPT !.level = k] /\ k <= Capacity
      BY <1>0, <1>3, <2>1 DEF HelperWrites
    <3> HIDE DEF k
    <3>2. relay'.level = k
      BY <1>0, <3>1 DEF Relays
    <3> QED BY <3>1, <3>2
  <2>2. CASE ~(relay.level < Capacity)
    <3>1. relay' = [relay EXCEPT !.waiting = TRUE]
      BY <1>3, <2>2 DEF HelperWrites
    <3> QED BY <1>0, <3>1 DEF Relays
  <2> QED BY <2>1, <2>2
<1>4. CASE ReaderTakes
  <2> DEFINE k == relay.level - 1
  <2>1. relay' = [relay EXCEPT !.level = k, !.waiting = FALSE] /\ k <= Capacity
    BY <1>0, <1>4 DEF ReaderTakes
  <2> HIDE DEF k
  <2>2. relay'.level = k
    BY <1>0, <2>1 DEF Relays
  <2> QED BY <2>1, <2>2
<1>5. CASE (\E kind \in SenderEvents : SenderActs(kind)) \/ SessionEnds \/ GraceFires \/ Posts \/ HelperUp \/ HelperExits
           \/ AfterExit \/ Backoff \/ BeginStop \/ CloseSession \/ UNCHANGED audioVars
  BY <1>2, <1>5 DEF SenderActs, SessionEnds, GraceFires, Posts, Deliver, TellStopped, TellGrace, FetchArrives, FetchFails,
                    PostPicture, HelperUp, HelperExits, AfterExit, Backoff, BeginStop, CloseSession, audioVars
<1>6. CASE Reset
  BY <1>1, <1>6 DEF Reset
<1>7. CASE Handles
  <2>1. relay' = relay \/ Drained(TRUE) \/ Drained(FALSE)
    <3>1. CASE Play
      BY <3>1 DEF Play, Started, StartFails, ExternalStop
    <3>2. CASE Resume \/ Picture \/ Fetch
      BY <3>2 DEF Resume, Picture, Fetch
    <3>3. CASE Pause \/ Grace \/ Stop \/ CloseRequest
      BY <3>3 DEF Pause, Grace, Stop, CloseRequest, End
    <3>4. CASE CoreStopped
      BY <3>4 DEF CoreStopped, ExternalStop
    <3>5. CASE Pictured
      BY <3>5 DEF Pictured, Apply, RestartForArtwork, Keeps, AfterLoss, ExternalStop
    <3> QED BY <1>7, <3>1, <3>2, <3>3, <3>4, <3>5 DEF Handles
  <2> QED BY <1>1, <1>2, <2>1
<1> QED BY <1>3, <1>4, <1>5, <1>6, <1>7 DEF AudioNext

LEMMA HelperKept ==
  ASSUME h \in Helpers, [AudioNext]_audioVars
  PROVE  h' \in Helpers
<1>0. /\ h.id \in Nat /\ h.restart \in BOOLEAN /\ h.killed \in BOOLEAN /\ h.phase \in HelperPhases
      /\ {"starting", "running", "gone", "backoff", "over"} \subseteq HelperPhases
  BY DEF Helpers, HelperPhases
<1>1. ASSUME Restart PROVE h' \in Helpers
  <2> DEFINE k == (h.phase = "running")
  <2>1. k \in BOOLEAN
    OBVIOUS
  <2>2. h' = h \/ h' = [h EXCEPT !.restart = TRUE, !.asked = h.id, !.killed = k]
    BY <1>1 DEF Restart
  <2> HIDE DEF k
  <2> QED BY <1>0, <2>1, <2>2 DEF Helpers
<1>2. ASSUME h' = h PROVE h' \in Helpers
  BY <1>2
<1>3. NextHelper \in Helpers
  <2> DEFINE k == h.id + 1
  <2>1. k \in Nat
    BY <1>0
  <2>2. NextHelper = [h EXCEPT !.phase = "starting", !.id = k, !.killed = FALSE, !.restart = FALSE]
    BY DEF NextHelper
  <2> HIDE DEF k
  <2> QED BY <1>0, <2>1, <2>2 DEF Helpers
<1>4. CASE HelperUp
  <2> DEFINE k == (h.killed \/ h.restart)
  <2>1. k \in BOOLEAN
    BY <1>0
  <2>2. h' = [h EXCEPT !.phase = "running", !.killed = k]
    BY <1>4 DEF HelperUp, EndsAtStart
  <2> HIDE DEF k
  <2> QED BY <1>0, <2>1, <2>2 DEF Helpers
<1>5. CASE HelperExits
  BY <1>0, <1>5 DEF HelperExits, Helpers
<1>6. CASE AfterExit \/ Backoff
  <2>1. h' = NextHelper \/ h' = [h EXCEPT !.phase = "over", !.restart = FALSE]
        \/ h' = [h EXCEPT !.phase = "backoff", !.restart = FALSE] \/ h' = [h EXCEPT !.phase = "over"]
    BY <1>6 DEF AfterExit, Backoff
  <2> QED BY <1>0, <1>3, <2>1 DEF Helpers
<1>7. CASE BeginStop
  BY <1>0, <1>7 DEF BeginStop, Helpers
<1>8. CASE (\E kind \in SenderEvents : SenderActs(kind)) \/ SessionEnds \/ GraceFires \/ Posts \/ HelperWrites
           \/ ReaderTakes \/ CloseSession \/ Reset \/ UNCHANGED audioVars
  BY <1>2, <1>8 DEF SenderActs, SessionEnds, GraceFires, Posts, Deliver, TellStopped, TellGrace, FetchArrives, FetchFails,
                    PostPicture, HelperWrites, ReaderTakes, CloseSession, Reset, audioVars, helperVars
<1>9. CASE Handles
  <2>1. h' = h \/ Restart
    <3>1. CASE Play
      BY <3>1 DEF Play, Started, StartFails, ExternalStop
    <3>2. CASE Resume \/ Picture \/ Fetch \/ Pause \/ Grace \/ Stop \/ CloseRequest
      BY <3>2 DEF Resume, Picture, Fetch, Pause, Grace, Stop, CloseRequest, helperVars
    <3>3. CASE CoreStopped
      BY <3>3 DEF CoreStopped, ExternalStop
    <3>4. CASE Pictured
      BY <3>4 DEF Pictured, Apply, RestartForArtwork, Keeps, AfterLoss, ExternalStop
    <3> QED BY <1>9, <3>1, <3>2, <3>3, <3>4 DEF Handles
  <2> QED BY <1>1, <1>2, <2>1
<1> QED BY <1>4, <1>5, <1>6, <1>7, <1>8, <1>9 DEF AudioNext

AudioAll == AudioInv /\ GraceInv /\ RoomInv

LEMMA AudioAllStarts == AudioInit \/ AudioOff => AudioAll
<1> SUFFICES ASSUME AudioInit \/ AudioOff PROVE AudioAll
  OBVIOUS
<1>0. /\ s = [state |-> "idle", ref |-> 0, gen |-> 0, artwork |-> 0, pipeArt |-> 0, artSeq |-> 0,
              timer |-> 0, graceSeq |-> 0]
      /\ starts = 0 /\ pauses = 0 /\ msgs = <<>> /\ core = None /\ gens = 0
      /\ told = {} /\ fired = {} /\ fetching = {} /\ posting = {} /\ files = {} /\ wire = <<>>
      /\ relay = [discard |-> TRUE, level |-> 0, waiting |-> FALSE]
      /\ \/ closed = FALSE /\ over = FALSE /\ receiver = "up"
         \/ closed = TRUE /\ over = TRUE /\ receiver = "down"
  BY DEF AudioInit, AudioOff
<1>1. s \in Sessions
  BY <1>0 DEF Sessions
<1>2. relay \in Relays /\ relay.level = 0 /\ relay.discard = TRUE
  BY <1>0 DEF Relays
<1>3. msgs = <<>> /\ DOMAIN msgs = {} /\ msgs \in Seq(Messages) /\ wire \in Seq(SenderEvents) /\ Len(msgs) = 0
  BY <1>0
<1>4. None \in Nat \X Nat
  BY DEF None
<1>5. AudioShape
  BY <1>0, <1>1, <1>2, <1>3, <1>4 DEF AudioShape
<1>6. s.ref = 0 /\ s.pipeArt = 0 /\ s.artwork = 0 /\ s.artSeq = 0 /\ s.timer = 0
  BY <1>0
<1>7. s.state = "idle"
  BY <1>0
<1>8. SessionInv
  BY <1>0, <1>2, <1>3, <1>6, <1>7 DEF SessionInv
<1>9. PictureInv
  BY <1>0, <1>3, <1>6 DEF PictureInv, InUse
<1>10. GraceInv
  BY <1>0, <1>3, <1>6 DEF GraceInv
<1>11. h \in Helpers
  <2>1. \E x \in HelperPhases, b \in BOOLEAN : h = [phase |-> x, id |-> 1, restart |-> FALSE, asked |-> 0, killed |-> b]
    <3>1. "starting" \in HelperPhases /\ "over" \in HelperPhases
      BY DEF HelperPhases
    <3> QED BY <3>1 DEF AudioInit, AudioOff
  <2> QED BY <2>1 DEF Helpers
<1>12. RoomInv
  BY <1>2, <1>3, <1>11, AudioAssumption DEF RoomInv
<1> QED BY <1>5, <1>8, <1>9, <1>10, <1>12 DEF AudioAll, AudioInv

LEMMA AudioAllKept == AudioAll /\ [AudioNext]_audioVars => AudioAll'
<1> SUFFICES ASSUME AudioAll, [AudioNext]_audioVars PROVE AudioAll'
  OBVIOUS
<1>1. AudioInv'
  BY KeepsShape, KeepsSession, KeepsPictures DEF AudioInv, AudioAll
<1>2. GraceInv'
  BY <1>1, KeepsGrace DEF AudioInv, AudioAll
<1>3. RoomInv'
  BY ChannelKept, LevelKept, HelperKept DEF RoomInv, AudioInv, AudioAll
<1> QED BY <1>1, <1>2, <1>3 DEF AudioAll

LEMMA AudioIsTyped == AudioAll => AudioTypeOK
<1> SUFFICES ASSUME AudioAll PROVE AudioTypeOK
  OBVIOUS
<1>1. s \in Sessions /\ relay \in Relays /\ Capacity \in Nat
  BY AudioAssumption DEF AudioAll, AudioInv, AudioShape
<1>2. s.state \in {"idle", "live", "held"}
  BY <1>1 DEF Sessions
<1>3. relay.level \in 0..Capacity
  BY <1>1 DEF Relays, AudioAll, RoomInv
<1>4. h.phase \in {"starting", "running", "gone", "backoff", "over"}
  BY DEF AudioAll, RoomInv, Helpers, HelperPhases
<1>5. (s.state = "idle") <=> (s.ref = 0)
  BY DEF AudioAll, AudioInv, SessionInv
<1>6. Len(msgs) <= QueueLen /\ (s.timer # 0 => s.state = "held" /\ s.timer = s.graceSeq)
  BY DEF AudioAll, RoomInv, GraceInv
<1> QED BY <1>2, <1>3, <1>4, <1>5, <1>6 DEF AudioTypeOK

-----------------------------------------------------------------------------
PumpAll == PumpInv /\ exited \in BOOLEAN /\ ready \in BOOLEAN

LEMMA PumpIsOff == PumpOff => PumpInv
<1> SUFFICES ASSUME PumpOff PROVE PumpInv
  OBVIOUS
<1> USE DEF PumpOff, PumpEmpty
<1>1. <<>> \in Seq(Items) /\ Len(<<>>) = 0
  BY EmptySeq
<1>2. \A st \in Streams : Cap(st) \in Nat /\ queue[st] = <<>> /\ pre[st] = <<>> /\ made[st] = 0 /\ hand[st] = 0
  BY PumpAssumption DEF Cap
<1>3. PumpShape
  BY <1>1, <1>2, PumpAssumption DEF PumpShape
<1>4. InStep
  BY DEF InStep
<1>5. RingOK(ring, shown)
  BY <1>1, PumpAssumption DEF RingOK
<1>6. MoreToWrite
  BY DEF MoreToWrite, Streams
<1> QED BY <1>3, <1>4, <1>5, <1>6 DEF PumpInv, AudioNeverLeads

LEMMA PumpAllStarts == PumpInit \/ PumpOff => PumpAll
BY PumpStarts, PumpIsOff DEF PumpInit, PumpOff, PumpEmpty, PumpAll

LEMMA PumpAllKept == PumpAll /\ [PumpNext]_pumpVars => PumpAll'
<1> SUFFICES ASSUME PumpAll, [PumpNext]_pumpVars PROVE PumpAll'
  OBVIOUS
<1>1. PumpInv'
  BY PumpStep DEF PumpAll
<1>2. exited' \in {exited, TRUE} /\ ready' \in {ready, ~ready}
  BY DEF PumpNext, Reader, MuxTurns, Read, Enqueue, Exit, Run, Prebuffer, PrebufferFull, PrebufferTimeout, StartTicking,
         PrebufferFails, EndRun, PumpTick, EndOfFile, RunCancelled, Ack, pumpVars
<1> QED BY <1>1, <1>2 DEF PumpAll

(* Each part keeps its invariant, whichever of them runs.                  *)
MediaInv == HlsInv /\ AudioAll /\ PumpAll

LEMMA MediaInvariant == Spec => []MediaInv
<1>1. Init => MediaInv
  BY HlsStarts, AudioAllStarts, PumpAllStarts DEF Init, MediaInv
<1>2. MediaInv /\ [Next]_<<hlsVars, audioVars, pumpVars>> => MediaInv'
  <2>1. [Next]_<<hlsVars, audioVars, pumpVars>> => [HlsNext]_hlsVars /\ [AudioNext]_audioVars /\ [PumpNext]_pumpVars
    BY DEF Next
  <2> QED BY <2>1, HlsStep, AudioAllKept, PumpAllKept DEF MediaInv
<1> QED BY <1>1, <1>2, PTL DEF Spec

(* Nothing outgrows its limit, for every size of the cache, the channels,  *)
(* the relay, the pool and the ring: the cache neither its segments nor its*)
(* bytes, whatever they weigh, its sum of bytes is right and every entry is*)
(* on disk; messages, frames and sound stay within their channels.         *)
THEOREM NothingOutgrowsItsLimit == Spec => []LimitsKept
<1>1. MediaInv => LimitsKept
  BY HlsLimits, AudioIsTyped DEF MediaInv, LimitsKept, TypeOK, PumpTypeOK, PumpAll, PumpInv
<1> QED BY <1>1, MediaInvariant, PTL
=============================================================================
