----------------------------- MODULE WireProofs -----------------------------
(***************************************************************************)
(* Proofs about what goes over the wire: the fields (FieldDelta), for      *)
(* every interval, back-off, rate limit and length of the session, the     *)
(* handshake and keepalive (Handshake), for every sequence of configured   *)
(* codecs, every set of cores and any number of datagrams lost, and the    *)
(* codec of internal/groovy/nlc (NearLossless), for fields of every size   *)
(* and every packing that gives back what it was given.                    *)
(***************************************************************************)
EXTENDS FieldDelta, Handshake, NearLossless, SequenceTheorems, TLAPS

(* What the proofs need to know of the state: the counters of sender and   *)
(* receiver and the three Boolean functions.                               *)
Counters ==
    /\ polarity \in Polarities
    /\ valid \in [Polarities -> BOOLEAN]
    /\ sinceFull \in [Polarities -> 0..(ForcedFullInterval - 1)]
    /\ inStep \in [Polarities -> BOOLEAN]
    /\ lost \in [Polarities -> BOOLEAN]
    /\ astray \in [Polarities -> Nat]

(* Every wrong picture since a loss is a delta sent since the last full    *)
(* field, so the sender's counter bounds the receiver's.                   *)
DamageInv == Counters /\ \A s \in Polarities : astray[s] <= sinceFull[s]

LEMMA InitCounters == Init => Counters
BY DeltaAssumption DEF Init, Counters, Polarities, NoHistory

(* A field that is sent: a delta needs a history and a counter below the   *)
(* limit, and only a field that was handed over is counted.                *)
LEMMA SendCounters ==
  ASSUME Counters, NEW audioTorn \in BOOLEAN, SendField(polarity, audioTorn)
  PROVE  /\ valid' \in [Polarities -> BOOLEAN]
         /\ sinceFull' \in [Polarities -> 0..(ForcedFullInterval - 1)]
         /\ inStep' \in [Polarities -> BOOLEAN]
         /\ lost' \in [Polarities -> BOOLEAN]
         /\ astray' \in [Polarities -> Nat]
<1> USE DeltaAssumption DEF Counters
<1> DEFINE s == polarity
<1>1. PICK delta \in BOOLEAN, fate \in Fates :
         /\ Compress(s, delta)
         /\ valid' = HistoryAfter(s, fate, audioTorn)
         /\ sinceFull' = [sinceFull EXCEPT ![s] =
               IF HandedOver(fate) THEN (IF delta THEN @ + 1 ELSE 0) ELSE @]
         /\ Receive(s, delta, fate, audioTorn)
  BY DEF SendField
<1>2. delta => sinceFull[s] < ForcedFullInterval - 1
  BY <1>1 DEF Compress, TryDelta, Eligible, MustSendFull
<1>3. valid' \in [Polarities -> BOOLEAN]
  BY <1>1 DEF HistoryAfter, NoHistory
<1>4. sinceFull' \in [Polarities -> 0..(ForcedFullInterval - 1)]
  BY <1>1, <1>2
<1>5. inStep' \in [Polarities -> BOOLEAN]
  BY <1>1 DEF Receive, BuffersAfter, NoHistory, Fates
<1>6. lost' \in [Polarities -> BOOLEAN] /\ astray' \in [Polarities -> Nat]
  BY <1>1 DEF Receive
<1> QED BY <1>3, <1>4, <1>5, <1>6

LEMMA CountersStep == Counters /\ [Next]_vars => Counters'
<1> SUFFICES ASSUME Counters, [Next]_vars PROVE Counters'
  OBVIOUS
<1>1. CASE Tick
  <2>1. polarity' \in Polarities
    BY <1>1 DEF Tick, NextPolarity, Polarities, Counters
  <2>2. PICK audioTorn \in BOOLEAN : SendField(polarity, audioTorn) \/ HoldField(audioTorn)
    BY <1>1 DEF Tick
  <2>3. CASE SendField(polarity, audioTorn)
    BY <2>1, <2>3, SendCounters DEF Counters
  <2>4. CASE HoldField(audioTorn)
    BY <2>1, <2>4 DEF HoldField, NoHistory, Counters
  <2> QED BY <2>2, <2>3, <2>4
<1>2. CASE HandleAck
  <2>1. valid' \in [Polarities -> BOOLEAN]
    BY <1>2 DEF HandleAck, NoHistory, Counters
  <2> QED BY <1>2, <2>1 DEF HandleAck, receiver, Counters
<1>3. CASE LoseAck
  BY <1>3 DEF LoseAck, sender, receiver, Counters
<1>4. CASE FlipFieldOrder
  BY <1>4 DEF FlipFieldOrder, sender, receiver, Counters, Polarities
<1>5. CASE UNCHANGED vars
  BY <1>5 DEF vars, sender, receiver, Counters
<1> QED BY <1>1, <1>2, <1>3, <1>4, <1>5 DEF Next

LEMMA DamageStep == DamageInv /\ [Next]_vars => DamageInv'
<1> SUFFICES ASSUME DamageInv, [Next]_vars PROVE \A p \in Polarities : astray'[p] <= sinceFull'[p]
  BY CountersStep DEF DamageInv
<1> USE DEF DamageInv, Counters
<1>1. CASE Tick
  <2>1. PICK audioTorn \in BOOLEAN : SendField(polarity, audioTorn) \/ HoldField(audioTorn)
    BY <1>1 DEF Tick
  <2>2. CASE SendField(polarity, audioTorn)
    <3> DEFINE s == polarity
    <3>1. PICK delta \in BOOLEAN, fate \in Fates :
             /\ sinceFull' = [sinceFull EXCEPT ![s] =
                   IF HandedOver(fate) THEN (IF delta THEN @ + 1 ELSE 0) ELSE @]
             /\ Receive(s, delta, fate, audioTorn)
      BY <2>2 DEF SendField
    <3>2. astray' = [astray EXCEPT ![s] =
             IF fate = "lost" THEN 0
             ELSE IF fate = "arrives" THEN (IF delta /\ ~inStep[s] THEN @ + 1 ELSE 0) ELSE @]
      BY <3>1 DEF Receive
    <3>3. astray'[s] <= sinceFull'[s]
      <4>1. CASE fate = "lost"
        BY <3>1, <3>2, <4>1 DEF HandedOver
      <4>2. CASE fate = "arrives"
        BY <3>1, <3>2, <4>2 DEF HandedOver
      <4>3. CASE fate \in {"refused", "torn"}
        BY <3>1, <3>2, <4>3 DEF HandedOver
      <4> QED BY <4>1, <4>2, <4>3 DEF Fates
    <3> QED BY <3>1, <3>2, <3>3
  <2>3. CASE HoldField(audioTorn)
    BY <2>3 DEF HoldField
  <2> QED BY <2>1, <2>2, <2>3
<1>2. CASE HandleAck
  BY <1>2 DEF HandleAck, receiver
<1>3. CASE LoseAck
  BY <1>3 DEF LoseAck, sender, receiver
<1>4. CASE FlipFieldOrder
  BY <1>4 DEF FlipFieldOrder, sender, receiver
<1>5. CASE UNCHANGED vars
  BY <1>5 DEF vars, sender, receiver
<1> QED BY <1>1, <1>2, <1>3, <1>4, <1>5 DEF Next

(* Whatever the link loses, fewer than ForcedFullInterval fields of a      *)
(* polarity that arrive after a loss show a wrong picture.                 *)
THEOREM DamageIsBounded == Spec => []BoundedDamage
<1>1. Init => DamageInv
  <2> SUFFICES ASSUME Init PROVE \A s \in Polarities : astray[s] <= sinceFull[s]
    BY InitCounters DEF DamageInv
  <2> QED BY DEF Init
<1>2. DamageInv => BoundedDamage
  BY DeltaAssumption DEF DamageInv, Counters, BoundedDamage
<1> QED BY <1>1, <1>2, DamageStep, PTL DEF Spec

LEMMA LossStep == Counters /\ OnlyLossMisleads /\ [Next]_vars => OnlyLossMisleads'
<1> SUFFICES ASSUME Counters, OnlyLossMisleads, [Next]_vars PROVE OnlyLossMisleads'
  OBVIOUS
<1> USE DEF OnlyLossMisleads, Counters
<1>1. CASE Tick
  <2>1. PICK audioTorn \in BOOLEAN : SendField(polarity, audioTorn) \/ HoldField(audioTorn)
    BY <1>1 DEF Tick
  <2>2. CASE SendField(polarity, audioTorn)
    <3> DEFINE s == polarity
    <3>1. PICK delta \in BOOLEAN, fate \in Fates :
             /\ Compress(s, delta)
             /\ valid' = HistoryAfter(s, fate, audioTorn)
             /\ Receive(s, delta, fate, audioTorn)
      BY <2>2 DEF SendField
    <3>2. delta => valid[s]
      BY <3>1 DEF Compress, TryDelta, Eligible
    <3>3. /\ inStep' = BuffersAfter(s, delta, fate, audioTorn)
          /\ lost' = [lost EXCEPT ![s] = fate = "lost" \/ (@ /\ ~(fate = "arrives" /\ ~delta))]
      BY <3>1 DEF Receive
    <3>4. CASE fate = "torn" \/ audioTorn
      BY <3>1, <3>4 DEF HistoryAfter, NoHistory
    <3>5. CASE fate = "refused" /\ ~audioTorn
      <4>1. valid' = valid /\ inStep' = inStep
        BY <3>1, <3>3, <3>5 DEF HistoryAfter, BuffersAfter
      <4>2. \A p \in Polarities : lost[p] => lost'[p]
        BY <3>3, <3>5
      <4> QED BY <4>1, <4>2
    <3>6. CASE fate = "lost" /\ ~audioTorn
      <4>1. valid' = [valid EXCEPT ![s] = TRUE] /\ inStep' = [inStep EXCEPT ![s] = FALSE]
        BY <3>1, <3>3, <3>6 DEF HistoryAfter, BuffersAfter
      <4>2. lost'[s] /\ \A p \in Polarities \ {s} : lost'[p] = lost[p]
        BY <3>3, <3>6
      <4> QED BY <4>1, <4>2
    <3>7. CASE fate = "arrives" /\ ~audioTorn
      <4>1. valid' = [valid EXCEPT ![s] = TRUE] /\ inStep' = [inStep EXCEPT ![s] = delta => @]
        BY <3>1, <3>3, <3>7 DEF HistoryAfter, BuffersAfter
      <4>2. \A p \in Polarities \ {s} : lost'[p] = lost[p]
        BY <3>3
      <4>3. delta => lost'[s] = lost[s]
        BY <3>3, <3>7
      <4> QED BY <3>2, <4>1, <4>2, <4>3
    <3> QED BY <3>4, <3>5, <3>6, <3>7 DEF Fates
  <2>3. CASE HoldField(audioTorn)
    BY <2>3 DEF HoldField, NoHistory
  <2> QED BY <2>1, <2>2, <2>3
<1>2. CASE HandleAck
  <2>1. valid' = valid \/ valid' = NoHistory
    BY <1>2 DEF HandleAck
  <2> QED BY <1>2, <2>1 DEF HandleAck, receiver, NoHistory
<1>3. CASE LoseAck
  BY <1>3 DEF LoseAck, sender, receiver
<1>4. CASE FlipFieldOrder
  BY <1>4 DEF FlipFieldOrder, sender, receiver
<1>5. CASE UNCHANGED vars
  BY <1>5 DEF vars, sender, receiver
<1> QED BY <1>1, <1>2, <1>3, <1>4, <1>5 DEF Next

(* Nothing but a loss on the way makes a delta undecodable. *)
THEOREM LossAloneMisleads == Spec => []OnlyLossMisleads
<1>1. Init => Counters /\ OnlyLossMisleads
  <2> SUFFICES ASSUME Init PROVE OnlyLossMisleads
    BY InitCounters
  <2> QED BY DEF Init, OnlyLossMisleads, NoHistory
<1>2. Counters /\ OnlyLossMisleads /\ [Next]_vars => (Counters /\ OnlyLossMisleads)'
  BY CountersStep, LossStep
<1> QED BY <1>1, <1>2, PTL DEF Spec

-----------------------------------------------------------------------------
(* The echoes under way are of fields sent, newer than the last one heard, *)
(* and in the order of the fields.                                         *)
EchoesRise ==
    /\ frame \in Nat /\ lastEcho \in 0..frame
    /\ acks \in Seq(Nat)
    /\ \A i \in 1..Len(acks) : lastEcho < acks[i] /\ acks[i] <= frame
    /\ \A i, j \in 1..Len(acks) : i < j => acks[i] < acks[j]

(* A field of which no echo will ever come. *)
Unheard(f) == f \in Nat /\ lastEcho < f /\ f <= frame /\ \A i \in 1..Len(acks) : acks[i] # f

(* Why a gap gives a loss away: as long as a loss is neither repaired nor  *)
(* excused, some field after the last echo will never be echoed.           *)
GapAhead == \A s \in Polarities : valid[s] /\ ~inStep[s] /\ ~excused[s] => \E f \in Nat : Unheard(f)

EchoInv == Counters /\ excused \in [Polarities -> BOOLEAN] /\ EchoesRise /\ GapAhead

LEMMA InitEcho == Init => EchoInv
<1> SUFFICES ASSUME Init PROVE EchoInv
  OBVIOUS
<1>1. Counters /\ excused \in [Polarities -> BOOLEAN]
  BY InitCounters DEF Init
<1>2. EchoesRise
  BY DEF Init, EchoesRise
<1>3. GapAhead
  BY DEF Init, GapAhead, NoHistory
<1> QED BY <1>1, <1>2, <1>3 DEF EchoInv

LEMMA ExcusedType ==
  ASSUME EchoInv, [Next]_vars PROVE excused' \in [Polarities -> BOOLEAN]
<1> USE DEF EchoInv
<1>1. CASE Tick
  <2>1. PICK audioTorn \in BOOLEAN : SendField(polarity, audioTorn) \/ HoldField(audioTorn)
    BY <1>1 DEF Tick
  <2>2. excused' = excused \/ \E b \in BOOLEAN : excused' = [excused EXCEPT ![polarity] = b]
    BY <2>1 DEF SendField, Receive, HoldField
  <2> QED BY <2>2
<1>2. CASE HandleAck
  BY <1>2 DEF HandleAck
<1>3. CASE LoseAck \/ FlipFieldOrder \/ UNCHANGED vars
  BY <1>3 DEF LoseAck, FlipFieldOrder, vars
<1> QED BY <1>1, <1>2, <1>3 DEF Next

(* Taking the oldest echo, heard or lost.                                  *)
LEMMA TakeEcho ==
  ASSUME EchoesRise, acks # <<>>
  PROVE  /\ Head(acks) \in Nat /\ lastEcho < Head(acks) /\ Head(acks) <= frame
         /\ Tail(acks) \in Seq(Nat)
         /\ \A i \in 1..Len(Tail(acks)) :
               i + 1 \in 1..Len(acks) /\ Tail(acks)[i] = acks[i + 1] /\ Head(acks) < acks[i + 1]
<1> USE DEF EchoesRise
<1>1. acks \in Seq(Nat) /\ Len(acks) \in Nat /\ 1 \in 1..Len(acks) /\ Head(acks) = acks[1]
  OBVIOUS
<1>2. Tail(acks) \in Seq(Nat) /\ Len(Tail(acks)) = Len(acks) - 1
  BY <1>1
<1>3. ASSUME NEW i \in 1..Len(Tail(acks))
      PROVE  i + 1 \in 1..Len(acks) /\ Tail(acks)[i] = acks[i + 1]
  BY <1>1, <1>2
<1> QED BY <1>1, <1>2, <1>3

(* Sending the next frame: at most its own echo is added. *)
LEMMA AddEcho ==
  ASSUME EchoesRise, frame' = frame + 1, lastEcho' = lastEcho,
         acks' = acks \/ acks' = Append(acks, frame')
  PROVE  /\ EchoesRise'
         /\ \A f \in Nat : Unheard(f) => Unheard(f)'
         /\ acks' = acks => Unheard(frame)'
<1> USE DEF EchoesRise
<1>1. acks \in Seq(Nat) /\ Len(acks) \in Nat /\ frame' \in Nat /\ lastEcho' \in 0..frame'
  OBVIOUS
<1>2. CASE acks' = acks
  <2>1. EchoesRise'
    BY <1>1, <1>2
  <2>2. \A f \in Nat : Unheard(f) => Unheard(f)'
    BY <1>1, <1>2 DEF Unheard
  <2>3. Unheard(frame)'
    BY <1>1, <1>2 DEF Unheard
  <2> QED BY <2>1, <2>2, <2>3
<1>3. CASE acks' = Append(acks, frame')
  <2>1. /\ acks' \in Seq(Nat) /\ Len(acks') = Len(acks) + 1
        /\ \A i \in 1..Len(acks) : acks'[i] = acks[i]
        /\ acks'[Len(acks) + 1] = frame + 1
    BY <1>1, <1>3
  <2>2. EchoesRise'
    <3>1. \A i \in 1..Len(acks') : i \in 1..Len(acks) \/ acks'[i] = frame + 1
      BY <1>1, <2>1
    <3>2. \A i \in 1..Len(acks') : lastEcho < acks'[i] /\ acks'[i] <= frame + 1
      <4> SUFFICES ASSUME NEW i \in 1..Len(acks') PROVE lastEcho < acks'[i] /\ acks'[i] <= frame + 1
        OBVIOUS
      <4>1. CASE i \in 1..Len(acks)
        <5>1. acks'[i] = acks[i] /\ lastEcho < acks[i] /\ acks[i] <= frame /\ acks[i] \in Nat
          BY <2>1, <4>1
        <5> QED BY <1>1, <5>1
      <4>2. CASE acks'[i] = frame + 1
        BY <1>1, <4>2
      <4> QED BY <3>1, <4>1, <4>2
    <3>3. \A i, j \in 1..Len(acks') : i < j => acks'[i] < acks'[j]
      <4> SUFFICES ASSUME NEW i \in 1..Len(acks'), NEW j \in 1..Len(acks'), i < j
                   PROVE  acks'[i] < acks'[j]
        OBVIOUS
      <4>1. i \in 1..Len(acks) /\ acks'[i] = acks[i] /\ acks[i] <= frame
        BY <1>1, <2>1
      <4>2. CASE j \in 1..Len(acks)
        BY <2>1, <4>1, <4>2
      <4>3. CASE acks'[j] = frame + 1
        BY <4>1, <4>3
      <4> QED BY <3>1, <4>2, <4>3
    <3> QED BY <1>1, <2>1, <3>2, <3>3
  <2>3. ASSUME NEW f \in Nat, Unheard(f) PROVE Unheard(f)'
    <3>1. f # frame + 1 /\ \A i \in 1..Len(acks') : i \in 1..Len(acks) \/ acks'[i] = frame + 1
      BY <1>1, <2>1, <2>3 DEF Unheard
    <3>2. ASSUME NEW i \in 1..Len(acks') PROVE acks'[i] # f
      <4>1. CASE i \in 1..Len(acks)
        BY <2>1, <2>3, <4>1 DEF Unheard
      <4>2. CASE acks'[i] = frame + 1
        BY <3>1, <4>2
      <4> QED BY <3>1, <4>1, <4>2
    <3> QED BY <1>1, <2>3, <3>2 DEF Unheard
  <2>4. acks' # acks
    BY <1>1, <2>1
  <2> QED BY <2>2, <2>3, <2>4
<1> QED BY <1>2, <1>3

LEMMA TickEcho == ASSUME EchoInv, Tick PROVE EchoesRise' /\ GapAhead'
<1> USE DEF EchoInv, Counters
<1>1. frame' = frame + 1 /\ lastEcho' = lastEcho
  BY DEF Tick
<1>2. PICK audioTorn \in BOOLEAN : SendField(polarity, audioTorn) \/ HoldField(audioTorn)
  BY DEF Tick
<1>3. acks' = acks \/ acks' = Append(acks, frame')
  BY <1>2 DEF SendField, Receive, HoldField
<1>4. /\ EchoesRise'
      /\ \A f \in Nat : Unheard(f) => Unheard(f)'
      /\ acks' = acks => Unheard(frame)'
  BY <1>1, <1>3, AddEcho
<1>5. CASE HoldField(audioTorn)
  BY <1>4, <1>5 DEF HoldField, NoHistory, GapAhead
<1>6. CASE SendField(polarity, audioTorn)
  <2> DEFINE s == polarity
  <2>1. PICK delta \in BOOLEAN, fate \in Fates :
           /\ Compress(s, delta)
           /\ valid' = HistoryAfter(s, fate, audioTorn)
           /\ Receive(s, delta, fate, audioTorn)
    BY <1>6 DEF SendField
  <2>2. delta => valid[s]
    BY <2>1 DEF Compress, TryDelta, Eligible
  <2>3. /\ inStep' = BuffersAfter(s, delta, fate, audioTorn)
        /\ excused' = [excused EXCEPT ![s] = @ /\ ~(fate = "arrives" /\ ~delta)]
        /\ fate # "arrives" => acks' = acks
    BY <2>1 DEF Receive
  <2> SUFFICES ASSUME NEW p \in Polarities, valid'[p], ~inStep'[p], ~excused'[p]
               PROVE  \E f \in Nat : Unheard(f)'
    BY <1>4 DEF GapAhead
  <2>4. CASE fate = "torn" \/ audioTorn
    BY <2>1, <2>4 DEF HistoryAfter, NoHistory
  <2>5. CASE fate = "lost" /\ ~audioTorn
    <3>1. Unheard(frame)' /\ frame' \in Nat
      BY <1>4, <2>3, <2>5 DEF EchoesRise
    <3> QED BY <3>1
  <2>6. CASE fate = "refused" /\ ~audioTorn
    <3>1. valid[p] /\ ~inStep[p] /\ ~excused[p]
      BY <2>1, <2>3, <2>6 DEF HistoryAfter, BuffersAfter
    <3> QED BY <1>4, <3>1 DEF GapAhead
  <2>7. CASE fate = "arrives" /\ ~audioTorn
    <3>1. valid' = [valid EXCEPT ![s] = TRUE] /\ inStep' = [inStep EXCEPT ![s] = delta => @]
      BY <2>1, <2>3, <2>7 DEF HistoryAfter, BuffersAfter
    <3>2. valid[p] /\ ~inStep[p] /\ ~excused[p]
      <4>1. CASE p = s
        BY <2>2, <2>3, <3>1, <4>1
      <4>2. CASE p # s
        BY <2>3, <3>1, <4>2
      <4> QED BY <4>1, <4>2
    <3> QED BY <1>4, <3>2 DEF GapAhead
  <2> QED BY <2>4, <2>5, <2>6, <2>7 DEF Fates
<1> QED BY <1>2, <1>4, <1>5, <1>6

(* An echo that passes over an unheard field is a gap: all histories go or *)
(* all losses are excused.                                                 *)
LEMMA AckEcho == ASSUME EchoInv, HandleAck PROVE EchoesRise' /\ GapAhead'
<1> USE DEF EchoInv, Counters
<1> DEFINE taken == Head(acks)
<1>1. /\ taken \in Nat /\ lastEcho < taken /\ taken <= frame
      /\ Tail(acks) \in Seq(Nat)
      /\ \A i \in 1..Len(Tail(acks)) :
            i + 1 \in 1..Len(acks) /\ Tail(acks)[i] = acks[i + 1] /\ taken < acks[i + 1]
  BY TakeEcho DEF HandleAck
<1>2. frame \in Nat /\ lastEcho \in 0..frame /\ acks \in Seq(Nat) /\ acks # <<>>
  BY DEF EchoesRise, HandleAck
<1>3. /\ acks' = Tail(acks) /\ lastEcho' = taken /\ frame' = frame /\ inStep' = inStep
      /\ \/ valid' = NoHistory
         \/ valid' = valid /\ excused' = [s \in Polarities |-> TRUE]
         \/ valid' = valid /\ excused' = excused /\ taken = lastEcho + 1
  BY <1>1, <1>2 DEF HandleAck, EchoGap, receiver
<1>4. EchoesRise'
  <2>1. \A i, j \in 1..Len(Tail(acks)) : i < j => Tail(acks)[i] < Tail(acks)[j]
    <3> SUFFICES ASSUME NEW i \in 1..Len(Tail(acks)), NEW j \in 1..Len(Tail(acks)), i < j
                 PROVE  Tail(acks)[i] < Tail(acks)[j]
      OBVIOUS
    <3>1. i + 1 < j + 1 /\ i + 1 \in 1..Len(acks) /\ j + 1 \in 1..Len(acks)
      BY <1>1
    <3> QED BY <1>1, <3>1 DEF EchoesRise
  <2>2. \A i \in 1..Len(Tail(acks)) : taken < Tail(acks)[i] /\ Tail(acks)[i] <= frame
    BY <1>1 DEF EchoesRise
  <2> QED BY <1>1, <1>2, <1>3, <2>1, <2>2 DEF EchoesRise
<1>5. GapAhead'
  <2>1. CASE valid' = NoHistory
    BY <2>1 DEF GapAhead, NoHistory
  <2>2. CASE excused' = [s \in Polarities |-> TRUE]
    BY <2>2 DEF GapAhead
  <2>3. CASE valid' = valid /\ excused' = excused /\ taken = lastEcho + 1
    <3>1. ASSUME NEW f \in Nat, Unheard(f) PROVE Unheard(f)'
      <4>1. f # taken
        BY <1>2, <3>1 DEF Unheard
      <4> QED BY <1>1, <1>2, <1>3, <2>3, <3>1, <4>1 DEF Unheard
    <3> QED BY <1>3, <2>3, <3>1 DEF GapAhead
  <2> QED BY <1>3, <2>1, <2>2, <2>3
<1> QED BY <1>4, <1>5

LEMMA EchoStep == EchoInv /\ [Next]_vars => EchoInv'
<1> SUFFICES ASSUME EchoInv, [Next]_vars PROVE EchoesRise' /\ GapAhead'
  BY CountersStep, ExcusedType DEF EchoInv
<1>1. CASE Tick
  BY <1>1, TickEcho
<1>2. CASE HandleAck
  BY <1>2, AckEcho
<1>3. CASE LoseAck
  <2>1. /\ acks # <<>> /\ acks' = Tail(acks) /\ frame' = frame /\ lastEcho' = lastEcho
        /\ valid' = valid /\ inStep' = inStep /\ excused' = excused
    BY <1>3 DEF LoseAck, sender, receiver
  <2>2. /\ Tail(acks) \in Seq(Nat)
        /\ \A i \in 1..Len(Tail(acks)) : i + 1 \in 1..Len(acks) /\ Tail(acks)[i] = acks[i + 1]
    BY <2>1, TakeEcho DEF EchoInv
  <2>3. EchoesRise'
    <3>1. \A i, j \in 1..Len(Tail(acks)) : i < j => Tail(acks)[i] < Tail(acks)[j]
      <4> SUFFICES ASSUME NEW i \in 1..Len(Tail(acks)), NEW j \in 1..Len(Tail(acks)), i < j
                   PROVE  Tail(acks)[i] < Tail(acks)[j]
        OBVIOUS
      <4>1. i + 1 < j + 1 /\ i + 1 \in 1..Len(acks) /\ j + 1 \in 1..Len(acks)
        BY <2>2
      <4> QED BY <2>2, <4>1 DEF EchoInv, EchoesRise
    <3>2. \A i \in 1..Len(Tail(acks)) : lastEcho < Tail(acks)[i] /\ Tail(acks)[i] <= frame
      BY <2>2 DEF EchoInv, EchoesRise
    <3> QED BY <2>1, <2>2, <3>1, <3>2 DEF EchoInv, EchoesRise
  <2>4. \A f \in Nat : Unheard(f) => Unheard(f)'
    BY <2>1, <2>2 DEF Unheard
  <2> QED BY <2>1, <2>3, <2>4 DEF EchoInv, GapAhead
<1>4. CASE FlipFieldOrder
  BY <1>4 DEF FlipFieldOrder, sender, receiver, EchoInv, EchoesRise, GapAhead, Unheard
<1>5. CASE UNCHANGED vars
  BY <1>5 DEF vars, sender, receiver, EchoInv, EchoesRise, GapAhead, Unheard
<1> QED BY <1>1, <1>2, <1>3, <1>4, <1>5 DEF Next

(* A hole in the echoes never goes unnoticed: when all of them are in, each*)
(* history the MiSTer does not share is one the rate limit or the session's*)
(* first echo excuses.                                                     *)
THEOREM GapsHeal == Spec => []EchoGapHeals
<1>1. EchoInv => EchoGapHeals
  <2> SUFFICES ASSUME EchoInv, acks = <<>>, lastEcho = frame,
                      NEW s \in Polarities, valid[s], ~inStep[s]
               PROVE  excused[s]
    BY DEF EchoGapHeals
  <2>1. \A f \in Nat : ~Unheard(f)
    BY DEF EchoInv, EchoesRise, Unheard
  <2> QED BY <2>1 DEF EchoInv, GapAhead
<1> QED BY <1>1, InitEcho, EchoStep, PTL DEF Spec

-----------------------------------------------------------------------------
(***************************************************************************)
(* Handshake.                                                              *)
(***************************************************************************)
(* The codecs and cores that come up. *)
Names     == Cores \cup {"raw", "lz4", "nlc", "groovy", "unknown"}
Stages    == {"done", "probing", "probed", "waiting", "acknowledged", "session", "sending", "closed", "failed"}
Streaming == {"acknowledged", "session", "sending"}
Kinds     == {"version", "init", "switchres", "header", "payload", "dup", "status", "close"}
Packets   == [kind : Kinds, session : Nat, codec : Names]
Replies   == [kind : {"ack"}] \cup [kind : {"version"}, core : Cores]

Stage(set)     == plane.at \in set

PlaneKinds == [at : Stages, n : Nat, attempt : Nat, core : Names, codec : Names]
Receivers  == [core : Cores, session : Nat, codec : Names, reads : {"command", "payload"},
               idle : Nat, misread : BOOLEAN]

HsTyped ==
    /\ plane \in PlaneKinds
    /\ drains \in BOOLEAN /\ polled \in BOOLEAN
    /\ up \in Seq(Packets) /\ down \in Seq(Replies) /\ inbox \in Seq(Replies)
    /\ rx \in Receivers
    /\ age \in Nat /\ dropped \in Nat
    /\ Stage({"probing"}) => plane.n \in DOMAIN Configured

(* The probe's request, or its answer, is the last thing under way. *)
ProbeLast ==
    /\ \A i \in DOMAIN up : up[i].kind = "version" => Stage({"probing"}) /\ i = Len(up)
    /\ \A i \in DOMAIN down :
          down[i].kind = "version" =>
              Stage({"probing"}) /\ i = Len(down) /\ up = <<>> /\ down[i].core = rx.core
    /\ \A i \in DOMAIN inbox :
          inbox[i].kind = "version" =>
              Stage({"probing"}) /\ i = Len(inbox) /\ up = <<>> /\ down = <<>> /\ inbox[i].core = rx.core

(* What the receiver was told is what Run has settled. *)
OwnInit(p) == p.kind = "init" /\ p.session = plane.n /\ p.codec = plane.codec
IsTaken    == rx.session = plane.n /\ rx.codec = plane.codec

Asking ==
    /\ Stage({"probed"}) => Quiet
    /\ Stage({"waiting", "acknowledged"}) => \A i \in DOMAIN up : OwnInit(up[i])
    /\ Stage({"waiting"}) =>
          /\ down # <<>> \/ inbox # <<>> => IsTaken /\ rx.idle = 0
          /\ dropped = 0 => ~Quiet
    /\ Stage({"acknowledged"}) => IsTaken /\ rx.idle = 0 /\ polled
    /\ Stage({"waiting", "acknowledged", "sending"}) => age = 0
    /\ ~Stage({"done", "probing"}) /\ plane.codec = "nlc" => rx.core = "nlc"
    /\ Stage({"failed"}) => dropped > 0

(* A session that lost nothing. *)
OfSession(p) ==
    p.kind \in {"init", "switchres", "header", "payload", "dup", "status"} /\ (p.kind = "init" => OwnInit(p))
Holds ==
    dropped = 0 /\ Stage(Streaming) =>
        /\ IsTaken
        /\ \A i \in DOMAIN up : OfSession(up[i])
        /\ age <= KeepaliveIdle /\ rx.idle <= KeepaliveIdle
        /\ IF up = <<>> THEN rx.idle <= age /\ (polled => age < KeepaliveIdle) ELSE age = 0

(* A header is followed by its payload, and duplicates are raw. *)
Paired ==
    /\ \A i \in DOMAIN up :
          up[i].kind = "header" => IF i = Len(up) THEN Stage({"sending"}) ELSE up[i + 1].kind = "payload"
    /\ rx.reads = "payload" => IF up = <<>> THEN Stage({"sending"}) ELSE Head(up).kind = "payload"
    /\ Stage({"sending"}) => Len(up) + (IF rx.reads = "payload" THEN 1 ELSE 0) = 1 /\ \A i \in DOMAIN up : up[i].kind = "header"

Understood ==
    dropped = 0 => /\ ~rx.misread
                   /\ ~Stage({"probed", "waiting"}) =>
                         \A i \in DOMAIN up : /\ up[i].kind = "dup" => rx.codec = "raw"
                                              /\ up[i].kind = "init" => up[i].codec = rx.codec

(* A drainer reads only for a session. *)
Drained == drains => Stage({"session", "sending", "closed"})

HsInv == ProbeLast /\ Asking /\ Drained /\ Holds /\ Paired /\ Understood

-----------------------------------------------------------------------------
LEMMA EmptyIs ==
  ASSUME NEW S, NEW s \in Seq(S)
  PROVE  s = <<>> <=> Len(s) = 0
OBVIOUS

LEMMA AppendFacts ==
  ASSUME NEW S, NEW s \in Seq(S), NEW x \in S
  PROVE  /\ Append(s, x) \in Seq(S) /\ Append(s, x) # <<>>
         /\ Len(Append(s, x)) = Len(s) + 1 /\ DOMAIN Append(s, x) = 1..(Len(s) + 1)
         /\ \A i \in DOMAIN Append(s, x) :
               IF i = Len(s) + 1 THEN Append(s, x)[i] = x ELSE i \in DOMAIN s /\ Append(s, x)[i] = s[i]
         /\ Head(Append(s, x)) = IF s = <<>> THEN x ELSE Head(s)
         /\ DOMAIN s = 1..Len(s) /\ Len(s) \in Nat
<1>1. Append(s, x) \in Seq(S) /\ Append(s, x) # <<>>
  <2>1. Append(s, x) \in Seq(S) /\ Len(Append(s, x)) = Len(s) + 1 /\ Len(s) \in Nat
    OBVIOUS
  <2> QED BY <2>1, EmptyIs
<1>2. Len(Append(s, x)) = Len(s) + 1 /\ DOMAIN Append(s, x) = 1..(Len(s) + 1) /\ DOMAIN s = 1..Len(s) /\ Len(s) \in Nat
  OBVIOUS
<1>3. ASSUME NEW i \in 1..(Len(s) + 1)
      PROVE  IF i = Len(s) + 1 THEN Append(s, x)[i] = x ELSE i \in DOMAIN s /\ Append(s, x)[i] = s[i]
  OBVIOUS
<1>4. Head(Append(s, x)) = Append(s, x)[1]
  OBVIOUS
<1>5. Head(Append(s, x)) = IF s = <<>> THEN x ELSE Head(s)
  OBVIOUS
<1> QED BY <1>1, <1>2, <1>3, <1>5

LEMMA TailFacts ==
  ASSUME NEW S, NEW s \in Seq(S), s # <<>>
  PROVE  /\ Tail(s) \in Seq(S) /\ Len(Tail(s)) = Len(s) - 1 /\ Len(s) \in Nat \ {0}
         /\ DOMAIN Tail(s) = 1..(Len(s) - 1) /\ DOMAIN s = 1..Len(s)
         /\ \A i \in DOMAIN Tail(s) : i + 1 \in DOMAIN s /\ Tail(s)[i] = s[i + 1]
         /\ 1 \in DOMAIN s /\ Head(s) = s[1] /\ Head(s) \in S
         /\ Tail(s) = <<>> <=> Len(s) = 1
         /\ Tail(s) # <<>> => Head(Tail(s)) = s[2] /\ 2 \in DOMAIN s
<1>1. Tail(s) \in Seq(S) /\ Len(Tail(s)) = Len(s) - 1 /\ Len(s) \in Nat \ {0}
  OBVIOUS
<1>2. DOMAIN Tail(s) = 1..(Len(s) - 1) /\ DOMAIN s = 1..Len(s) /\ 1 \in DOMAIN s /\ Head(s) = s[1] /\ Head(s) \in S
  OBVIOUS
<1>3. ASSUME NEW i \in 1..(Len(s) - 1) PROVE i + 1 \in DOMAIN s /\ Tail(s)[i] = s[i + 1]
  OBVIOUS
<1>4. Tail(s) = <<>> <=> Len(s) = 1
  <2>1. Tail(s) = <<>> <=> Len(Tail(s)) = 0
    BY <1>1, EmptyIs
  <2> QED BY <1>1, <2>1
<1>5. ASSUME Tail(s) # <<>> PROVE Head(Tail(s)) = s[2] /\ 2 \in DOMAIN s
  <2>1. Len(s) # 1 /\ 1 \in 1..(Len(s) - 1)
    BY <1>1, <1>4, <1>5
  <2>2. Head(Tail(s)) = Tail(s)[1]
    BY <1>1, <1>5
  <2> QED BY <1>3, <2>1, <2>2
<1> QED BY <1>1, <1>2, <1>3, <1>4, <1>5

-----------------------------------------------------------------------------
(* Types. *)
LEMMA PacketTyped ==
  ASSUME HsTyped, NEW k \in Kinds
  PROVE  Packet(k) \in Packets /\ Packet(k).kind = k /\ Packet(k).session = plane.n /\ Packet(k).codec = plane.codec
<1>1. plane.n \in Nat /\ plane.codec \in Names
  BY DEF HsTyped, PlaneKinds
<1> QED BY <1>1 DEF Packet, Packets

LEMMA ReplyTyped ==
  ASSUME HsTyped, NEW p \in Packets
  PROVE  /\ Reply(p) \in Seq(Replies)
         /\ Reply(p) = <<>> \/ \E r \in Replies : Reply(p) = <<r>>
         /\ p.kind = "version" => Reply(p) = <<[kind |-> "version", core |-> rx.core]>>
         /\ p.kind # "version" => Reply(p) \in {<<>>, <<[kind |-> "ack"]>>}
<1>1. [kind |-> "ack"] \in Replies
  BY DEF Replies
<1>2. [kind |-> "version", core |-> rx.core] \in Replies
  BY DEF Replies, HsTyped, Receivers
<1> DEFINE a == [kind |-> "ack"]
           v == [kind |-> "version", core |-> rx.core]
<1>3. /\ p.kind = "version" => Reply(p) = <<v>>
      /\ p.kind # "version" => Reply(p) = <<>> \/ Reply(p) = <<a>>
  BY DEF Reply
<1>4. a \in Replies /\ v \in Replies
  BY <1>1, <1>2
<1>5. (p.kind = "version" => Reply(p) = <<[kind |-> "version", core |-> rx.core]>>)
      /\ (p.kind # "version" => Reply(p) \in {<<>>, <<[kind |-> "ack"]>>})
  BY <1>3
<1> HIDE DEF a, v
<1>6. <<a>> \in Seq(Replies) /\ <<v>> \in Seq(Replies) /\ <<>> \in Seq(Replies)
  BY <1>4
<1>7. CASE p.kind = "version"
  <2>1. Reply(p) = <<v>>
    BY <1>3, <1>7
  <2> QED BY <1>4, <1>5, <1>6, <2>1
<1>8. CASE p.kind # "version"
  <2>1. CASE Reply(p) = <<>>
    BY <1>5, <1>6, <2>1
  <2>2. CASE Reply(p) = <<a>>
    BY <1>4, <1>5, <1>6, <2>2
  <2> QED BY <1>3, <1>8, <2>1, <2>2
<1> QED BY <1>7, <1>8

LEMMA TakesTyped ==
  ASSUME HsTyped, NEW p \in Packets
  PROVE  /\ Takes(p) \in Receivers
         /\ Takes(p).idle = 0 /\ Takes(p).core = rx.core
         /\ p.kind = "init" => Takes(p).session = p.session /\ Takes(p).codec = p.codec
         /\ p.kind # "init" => Takes(p).codec = rx.codec
         /\ p.kind \notin {"init", "close"} => Takes(p).session = IF Reaped THEN 0 ELSE rx.session
         /\ Takes(p).reads = IF p.kind = "header" THEN "payload" ELSE "command"
         /\ Takes(p).misread <=> rx.misread \/ Misreads(p)
<1> DEFINE to == CASE p.kind = "init" -> p.session
                   [] p.kind = "close" -> 0
                   [] OTHER -> IF Reaped THEN 0 ELSE rx.session
           of == IF p.kind = "init" THEN p.codec ELSE rx.codec
           next == IF p.kind = "header" THEN "payload" ELSE "command"
           mis == rx.misread \/ Misreads(p)
<1>1. rx \in Receivers
  BY DEF HsTyped
<1>2. Takes(p) = [rx EXCEPT !.idle = 0, !.session = to, !.codec = of, !.reads = next, !.misread = mis]
  BY <1>1 DEF Takes, Receivers
<1>3. to \in Nat
  BY <1>1 DEF Receivers, Packets
<1>4. of \in Names
  BY <1>1 DEF Receivers, Packets
<1>5. next \in {"command", "payload"} /\ mis \in BOOLEAN
  BY <1>1 DEF Receivers, Misreads
<1>6. /\ p.kind = "init" => to = p.session /\ of = p.codec
      /\ p.kind # "init" => of = rx.codec
      /\ p.kind \notin {"init", "close"} => to = IF Reaped THEN 0 ELSE rx.session
  OBVIOUS
<1>7. next = (IF p.kind = "header" THEN "payload" ELSE "command") /\ (mis <=> rx.misread \/ Misreads(p))
  BY <1>5
<1> HIDE DEF to, of, next, mis
<1>8. Takes(p) \in Receivers
  <2>1. rx.core \in Cores
    BY <1>1 DEF Receivers
  <2>2. Takes(p) = [core |-> rx.core, session |-> to, codec |-> of, reads |-> next, idle |-> 0, misread |-> mis]
    BY <1>1, <1>2 DEF Receivers
  <2>3. 0 \in Nat
    OBVIOUS
  <2> QED BY <1>3, <1>4, <1>5, <2>1, <2>2, <2>3 DEF Receivers
<1>9. /\ Takes(p).idle = 0 /\ Takes(p).core = rx.core /\ Takes(p).session = to /\ Takes(p).codec = of
      /\ Takes(p).reads = next /\ Takes(p).misread = mis
  BY <1>1, <1>2 DEF Receivers
<1> QED BY <1>6, <1>7, <1>8, <1>9

LEMMA ToIs ==
  ASSUME HsTyped, NEW where \in Stages, To(where)
  PROVE  /\ plane' \in PlaneKinds /\ plane'.at = where
         /\ plane'.n = plane.n /\ plane'.codec = plane.codec /\ plane'.attempt = plane.attempt
BY DEF HsTyped, To, PlaneKinds

LEMMA SendsIs ==
  ASSUME HsTyped, NEW p \in Packets, Sends(p)
  PROVE  up' = Append(up, p) /\ up' \in Seq(Packets) /\ age' = 0
BY AppendFacts DEF HsTyped, Sends

LEMMA HeadsTyped ==
  ASSUME HsTyped
  PROVE  /\ up # <<>> => Tail(up) \in Seq(Packets) /\ Head(up) \in Packets
         /\ down # <<>> => Tail(down) \in Seq(Replies) /\ Head(down) \in Replies
         /\ inbox # <<>> => Tail(inbox) \in Seq(Replies) /\ Head(inbox) \in Replies
BY TailFacts DEF HsTyped

LEMMA DetectsIs ==
  ASSUME HsTyped, Stage({"probing"}), NEW core \in Names, Detects(core)
  PROVE  /\ plane' \in PlaneKinds /\ plane'.at = "probed" /\ plane'.n = plane.n
         /\ plane'.codec = Resolve(Configured[plane.n], core)
<1>1. Configured[plane.n] \in Names
  <2>1. plane.n \in DOMAIN Configured
    BY DEF HsTyped
  <2>2. Configured[plane.n] \in {"raw", "lz4", "nlc"}
    BY <2>1, HandshakeAssumption
  <2> QED BY <2>2 DEF Names
<1>2. Resolve(Configured[plane.n], core) \in Names
  <2>2. CASE Configured[plane.n] = "nlc" /\ core # "nlc"
    BY <2>2 DEF Resolve, Names
  <2>3. CASE ~(Configured[plane.n] = "nlc" /\ core # "nlc")
    BY <1>1, <2>3 DEF Resolve
  <2> QED BY <2>2, <2>3
<1> DEFINE c == Resolve(Configured[plane.n], core)
<1>3. plane' = [plane EXCEPT !.at = "probed", !.core = core, !.codec = c]
  BY DEF Detects, KnownAnew
<1> HIDE DEF c
<1>4. c \in Names
  BY <1>2 DEF c
<1>5. plane \in PlaneKinds
  BY DEF HsTyped
<1>6. plane' \in PlaneKinds /\ plane'.at = "probed" /\ plane'.n = plane.n /\ plane'.codec = c
  BY <1>3, <1>4, <1>5 DEF PlaneKinds, Stages
<1> QED BY <1>6 DEF c

LEMMA TypedAgain ==
  ASSUME plane' \in PlaneKinds, up' \in Seq(Packets), down' \in Seq(Replies), inbox' \in Seq(Replies),
         rx' \in Receivers, age' \in Nat, dropped' \in Nat, drains' \in BOOLEAN, polled' \in BOOLEAN,
         plane'.at # "probing" \/ plane'.n \in DOMAIN Configured
  PROVE  HsTyped'
BY DEF HsTyped, Stage

LEMMA TypedStep == ASSUME HsTyped, [HsNext]_hsVars PROVE HsTyped'
<1>0. /\ plane \in PlaneKinds /\ up \in Seq(Packets) /\ down \in Seq(Replies) /\ inbox \in Seq(Replies)
      /\ rx \in Receivers /\ age \in Nat /\ dropped \in Nat /\ drains \in BOOLEAN /\ polled \in BOOLEAN
      /\ plane.at # "probing" \/ plane.n \in DOMAIN Configured
  BY DEF HsTyped, Stage
<1>n. <<>> \in Seq(Replies) /\ 0 \in Nat
  OBVIOUS
<1>a. ASSUME NEW k \in Kinds, Sends(Packet(k)) PROVE up' \in Seq(Packets) /\ age' = 0
  BY <1>a, PacketTyped, SendsIs
<1>1. CASE Probe
  <2> DEFINE p == [kind |-> "version", session |-> plane.n + 1, codec |-> plane.codec]
  <2>1. p \in Packets
    BY <1>0 DEF Packets, Kinds, PlaneKinds
  <2>2. Sends(p) /\ inbox' = <<>> /\ UNCHANGED <<drains, down, rx, polled, dropped>>
    BY <1>1 DEF Probe, FlushStale
  <2>3. plane' \in PlaneKinds /\ plane'.n = plane.n + 1
    <3> DEFINE k == plane.n + 1
    <3>1. k \in Nat
      BY <1>0 DEF PlaneKinds
    <3>2. plane' = [plane EXCEPT !.at = "probing", !.n = k, !.attempt = 0]
      BY <1>1 DEF Probe
    <3> HIDE DEF k
    <3>3. plane' \in PlaneKinds /\ plane'.n = k
      BY <1>0, <1>n, <3>1, <3>2 DEF PlaneKinds, Stages
    <3> QED BY <3>3 DEF k
  <2>4. plane.n < Len(Configured) /\ plane.n \in Nat
    BY <1>0, <1>1 DEF Probe, PlaneKinds
  <2>5. plane'.n \in DOMAIN Configured
    BY <2>3, <2>4, HandshakeAssumption
  <2>6. up' \in Seq(Packets) /\ age' = 0
    BY <2>1, <2>2, SendsIs
  <2> QED BY <1>0, <1>n, <2>2, <2>3, <2>5, <2>6, TypedAgain
<1>2. CASE VersionRead
  <2>1. inbox' \in Seq(Replies) /\ Head(inbox) \in Replies /\ UNCHANGED <<drains, up, down, rx, age, polled, dropped>>
    BY <1>2, HeadsTyped DEF VersionRead
  <2>2. Stage({"probing"})
    BY <1>2 DEF VersionRead, In, Stage
  <2>3. CASE Head(inbox).kind = "version"
    <3>1. Head(inbox).core \in Names
      BY <2>1, <2>3 DEF Replies, Names
    <3>2. Detects(Head(inbox).core)
      BY <1>2, <2>3 DEF VersionRead
    <3>3. plane' \in PlaneKinds /\ plane'.at = "probed"
      BY <2>2, <3>1, <3>2, DetectsIs
    <3> QED BY <1>0, <2>1, <3>3, TypedAgain
  <2>4. CASE Head(inbox).kind # "version"
    <3>1. plane' = plane
      BY <1>2, <2>4 DEF VersionRead
    <3> QED BY <1>0, <2>1, <3>1, TypedAgain
  <2> QED BY <2>3, <2>4
<1>3. CASE ProbeTimesOut
  <2>1. Stage({"probing"}) /\ Detects("groovy") /\ "groovy" \in Names
        /\ UNCHANGED <<drains, up, down, inbox, rx, age, polled, dropped>>
    <3>1. "groovy" \in Names
      BY DEF Names
    <3> QED BY <1>3, <3>1 DEF ProbeTimesOut, In, Stage, wire
  <2>2. plane' \in PlaneKinds /\ plane'.at = "probed"
    BY <2>1, DetectsIs
  <2> QED BY <1>0, <2>1, <2>2, TypedAgain
<1>4. CASE SendInit
  <2>1. Sends(Packet("init")) /\ inbox' = <<>> /\ UNCHANGED <<drains, down, rx, polled, dropped>>
        /\ plane' = [plane EXCEPT !.at = "waiting", !.attempt = @ + 1]
    BY <1>4 DEF SendInit, FlushStale
  <2>2. plane' \in PlaneKinds /\ plane'.at = "waiting"
    <3> DEFINE k == plane.attempt + 1
    <3>1. k \in Nat
      BY <1>0 DEF PlaneKinds
    <3>2. plane' = [plane EXCEPT !.at = "waiting", !.attempt = k]
      BY <1>0, <2>1 DEF PlaneKinds
    <3> HIDE DEF k
    <3> QED BY <1>0, <3>1, <3>2 DEF PlaneKinds, Stages
  <2>3. up' \in Seq(Packets) /\ age' = 0
    BY <1>a, <2>1 DEF Kinds
  <2> QED BY <1>0, <1>n, <2>1, <2>2, <2>3, TypedAgain
<1>5. CASE AckRead
  <2>1. inbox' \in Seq(Replies) /\ UNCHANGED <<drains, up, down, rx, age, dropped>> /\ polled' \in BOOLEAN
    BY <1>5, HeadsTyped DEF AckRead
  <2>2. plane' \in PlaneKinds /\ plane'.at # "probing"
    <3>1. CASE To("acknowledged")
      BY <3>1, ToIs DEF Stages
    <3>2. CASE plane' = plane /\ In("waiting")
      BY <1>0, <3>2 DEF In
    <3> QED BY <1>5, <3>1, <3>2 DEF AckRead
  <2> QED BY <1>0, <2>1, <2>2, TypedAgain
<1>6. CASE GiveUp
  <2>1. To("failed") /\ UNCHANGED <<drains, up, down, inbox, rx, age, polled, dropped>>
    BY <1>6 DEF GiveUp, wire
  <2>2. plane' \in PlaneKinds /\ plane'.at = "failed"
    BY <2>1, ToIs DEF Stages
  <2> QED BY <1>0, <2>1, <2>2, TypedAgain
<1>7. CASE Switchres
  <2>1. To("session") /\ Sends(Packet("switchres")) /\ UNCHANGED <<down, inbox, rx, polled, dropped>> /\ drains' \in BOOLEAN
    BY <1>7 DEF Switchres
  <2>2. plane' \in PlaneKinds /\ plane'.at = "session"
    BY <2>1, ToIs DEF Stages
  <2>3. up' \in Seq(Packets) /\ age' = 0
    BY <1>a, <2>1 DEF Kinds
  <2> QED BY <1>0, <1>n, <2>1, <2>2, <2>3, TypedAgain
<1>8. CASE SendHeader
  <2>1. To("sending") /\ Sends(Packet("header")) /\ UNCHANGED <<down, inbox, rx, polled, dropped, drains>>
    BY <1>8 DEF SendHeader
  <2>2. plane' \in PlaneKinds /\ plane'.at = "sending"
    BY <2>1, ToIs DEF Stages
  <2>3. up' \in Seq(Packets) /\ age' = 0
    BY <1>a, <2>1 DEF Kinds
  <2> QED BY <1>0, <1>n, <2>1, <2>2, <2>3, TypedAgain
<1>9. CASE SendPayload
  <2>1. To("session") /\ Sends(Packet("payload")) /\ UNCHANGED <<down, inbox, rx, polled, dropped, drains>>
    BY <1>9 DEF SendPayload
  <2>2. plane' \in PlaneKinds /\ plane'.at = "session"
    BY <2>1, ToIs DEF Stages
  <2>3. up' \in Seq(Packets) /\ age' = 0
    BY <1>a, <2>1 DEF Kinds
  <2> QED BY <1>0, <1>n, <2>1, <2>2, <2>3, TypedAgain
<1>10. CASE SendDup
  <2>1. Sends(Packet("dup")) /\ UNCHANGED <<plane, down, inbox, rx, polled, dropped, drains>>
    BY <1>10 DEF SendDup
  <2>2. up' \in Seq(Packets) /\ age' = 0
    BY <1>a, <2>1 DEF Kinds
  <2> QED BY <1>0, <1>n, <2>1, <2>2, TypedAgain
<1>11. CASE Close
  <2>1. To("closed") /\ UNCHANGED <<drains, down, inbox, rx, polled, dropped>>
    BY <1>11 DEF Close
  <2>2. plane' \in PlaneKinds /\ plane'.at = "closed"
    BY <2>1, ToIs DEF Stages
  <2>3. up' \in Seq(Packets) /\ age' \in Nat
    <3>1. CASE Sends(Packet("close"))
      BY <1>a, <1>n, <3>1 DEF Kinds
    <3>2. CASE Silent
      BY <1>0, <3>2 DEF Silent
    <3> QED BY <1>11, <3>1, <3>2 DEF Close
  <2> QED BY <1>0, <2>1, <2>2, <2>3, TypedAgain
<1>12. CASE Return
  <2>1. To("done") /\ UNCHANGED <<up, inbox, down, rx, age, polled, dropped>> /\ drains' \in BOOLEAN
    BY <1>0, <1>12 DEF Return, wire
  <2>2. plane' \in PlaneKinds /\ plane'.at = "done"
    BY <2>1, ToIs DEF Stages
  <2> QED BY <1>0, <2>1, <2>2, TypedAgain
<1>13. CASE Drain
  <2>1. inbox' \in Seq(Replies) /\ UNCHANGED <<plane, drains, up, down, rx, age, polled, dropped>>
    BY <1>13, HeadsTyped DEF Drain
  <2> QED BY <1>0, <2>1, TypedAgain
<1>14. CASE Keepalive
  <2>1. UNCHANGED <<plane, drains, down, inbox, rx, dropped>> /\ polled' \in BOOLEAN
    BY <1>14 DEF Keepalive
  <2>2. up' \in Seq(Packets) /\ age' \in Nat
    <3>1. CASE Sends(Packet("status"))
      BY <1>a, <1>n, <3>1 DEF Kinds
    <3>2. CASE Silent
      BY <1>0, <3>2 DEF Silent
    <3> QED BY <1>14, <3>1, <3>2 DEF Keepalive, HoldsBack
  <2> QED BY <1>0, <2>1, <2>2, TypedAgain
<1>15. CASE Arrives
  <2>1. up' \in Seq(Packets) /\ Head(up) \in Packets /\ UNCHANGED <<plane, drains, inbox, age, polled, dropped>>
    BY <1>15, HeadsTyped DEF Arrives
  <2>2. Reply(Head(up)) \in Seq(Replies) /\ down' = down \o Reply(Head(up))
    BY <1>15, <2>1, ReplyTyped DEF Arrives
  <2>3. down' \in Seq(Replies)
    BY <1>0, <2>2
  <2>4. rx' \in Receivers
    BY <1>15, <2>1, TakesTyped DEF Arrives
  <2> QED BY <1>0, <2>1, <2>3, <2>4, TypedAgain
<1>16. CASE ReplyArrives
  <2>1. down' \in Seq(Replies) /\ Head(down) \in Replies /\ inbox' = Append(inbox, Head(down))
        /\ UNCHANGED <<plane, drains, up, rx, age, polled, dropped>>
    BY <1>16, HeadsTyped DEF ReplyArrives
  <2>2. inbox' \in Seq(Replies)
    BY <1>0, <2>1, AppendFacts
  <2> QED BY <1>0, <2>1, <2>2, TypedAgain
<1>17. CASE Loses
  <2>1. UNCHANGED <<plane, drains, inbox, rx, age, polled>> /\ dropped' \in Nat
    BY <1>0, <1>17 DEF Loses
  <2>2. up' \in Seq(Packets) /\ down' \in Seq(Replies)
    BY <1>0, <1>17, HeadsTyped DEF Loses
  <2> QED BY <1>0, <2>1, <2>2, TypedAgain
<1>18. CASE HalfSecond
  <2>1. UNCHANGED <<plane, drains, up, down, inbox, dropped>> /\ polled' = FALSE /\ age' = age + 1
    BY <1>0, <1>18 DEF HalfSecond, wire
  <2>3. age' \in Nat /\ polled' \in BOOLEAN
    <3>1. age' = age + 1
      BY <1>18 DEF HalfSecond
    <3>2. age' \in Nat
      BY <1>0, <3>1
    <3>3. polled' \in BOOLEAN
      BY <1>18 DEF HalfSecond
    <3> QED BY <3>2, <3>3
  <2>2. rx' \in Receivers
    <3> DEFINE k == rx.idle + 1
    <3>1. k \in Nat
      BY <1>0 DEF Receivers
    <3>2. rx' = [rx EXCEPT !.idle = k]
      BY <1>0, <1>18 DEF HalfSecond, Receivers
    <3> HIDE DEF k
    <3> QED BY <1>0, <3>1, <3>2 DEF Receivers
  <2> QED BY <1>0, <2>1, <2>2, <2>3, TypedAgain
<1>19. CASE LoadCore
  <2>1. UNCHANGED <<plane, drains, up, down, inbox, age, polled, dropped>>
    BY <1>19 DEF LoadCore, wire
  <2>2. rx' \in Receivers
    <3>1. PICK c \in Cores : rx' = [core |-> c, session |-> 0, codec |-> "raw", reads |-> "command",
                                    idle |-> 0, misread |-> rx.misread]
      BY <1>0, <1>19 DEF LoadCore
    <3>2. rx.misread \in BOOLEAN /\ "raw" \in Names
      BY <1>0 DEF Receivers, Names
    <3> QED BY <1>n, <3>1, <3>2 DEF Receivers
  <2> QED BY <1>0, <2>1, <2>2, TypedAgain
<1>20. CASE UNCHANGED hsVars
  <2>1. UNCHANGED <<plane, drains, up, down, inbox, rx, age, polled, dropped>>
    BY <1>20 DEF hsVars, wire
  <2> QED BY <1>0, <2>1, TypedAgain
<1> QED BY <1>1, <1>2, <1>3, <1>4, <1>5, <1>6, <1>7, <1>8, <1>9, <1>10, <1>11, <1>12, <1>13, <1>14,
           <1>15, <1>16, <1>17, <1>18, <1>19, <1>20 DEF HsNext, Run
-----------------------------------------------------------------------------
(* What the steps of Run do, told apart by what the invariant sees. *)

(* The last datagram written is of this kind, and of this session. *)
Adds(k) ==
    \E p \in Packets : /\ p.kind = k /\ p.session = plane.n /\ p.codec = plane.codec
                       /\ up' = Append(up, p)
Same    == plane'.n = plane.n /\ plane'.codec = plane.codec
Moves(from, to) == plane.at = from /\ plane'.at = to /\ Same

LEMMA PacketAdds ==
  ASSUME HsTyped, NEW k \in Kinds, Sends(Packet(k))
  PROVE  Adds(k) /\ age' = 0
<1>1. Packet(k) \in Packets /\ Packet(k).kind = k /\ Packet(k).session = plane.n /\ Packet(k).codec = plane.codec
  BY PacketTyped
<1>2. up' = Append(up, Packet(k)) /\ age' = 0
  BY DEF Sends
<1> QED BY <1>1, <1>2 DEF Adds

LEMMA ProbeDoes ==
  ASSUME HsTyped, Probe
  PROVE  /\ plane.at = "done" /\ plane'.at = "probing"
         /\ \E p \in Packets : p.kind = "version" /\ up' = Append(up, p)
         /\ inbox' = <<>> /\ UNCHANGED <<down, rx, dropped>>
<1> DEFINE p == [kind |-> "version", session |-> plane.n + 1, codec |-> plane.codec]
<1>1. plane \in PlaneKinds
  BY DEF HsTyped
<1>2. p \in Packets /\ p.kind = "version"
  BY <1>1 DEF Packets, Kinds, PlaneKinds
<1>3. plane.at = "done" /\ inbox' = <<>> /\ UNCHANGED <<down, rx, dropped>> /\ up' = Append(up, p)
  BY DEF Probe, Done, FlushStale, Sends
<1>4. plane'.at = "probing"
  BY <1>1 DEF Probe, PlaneKinds
<1> HIDE DEF p
<1> QED BY <1>2, <1>3, <1>4

LEMMA SendInitDoes ==
  ASSUME HsTyped, SendInit
  PROVE  /\ plane.at \in {"probed", "waiting"} /\ plane'.at = "waiting" /\ Same
         /\ Adds("init") /\ age' = 0 /\ inbox' = <<>> /\ UNCHANGED <<down, rx, dropped>>
<1>1. plane \in PlaneKinds
  BY DEF HsTyped
<1>2. Sends(Packet("init")) /\ inbox' = <<>> /\ UNCHANGED <<down, rx, dropped>>
      /\ plane' = [plane EXCEPT !.at = "waiting", !.attempt = @ + 1] /\ plane.at \in {"probed", "waiting"}
  BY DEF SendInit, FlushStale, In
<1>3. plane'.at = "waiting" /\ Same
  <2> DEFINE k == plane.attempt + 1
  <2>1. plane' = [plane EXCEPT !.at = "waiting", !.attempt = k]
    BY <1>1, <1>2 DEF PlaneKinds
  <2> HIDE DEF k
  <2> QED BY <1>1, <2>1 DEF PlaneKinds, Same
<1>4. Adds("init") /\ age' = 0
  BY <1>2, PacketAdds DEF Kinds
<1> QED BY <1>2, <1>3, <1>4

LEMMA AckReadDoes ==
  ASSUME HsTyped, AckRead
  PROVE  /\ plane.at = "waiting" /\ inbox # <<>> /\ inbox' = Tail(inbox)
         /\ IF Head(inbox).kind = "ack" THEN Moves("waiting", "acknowledged") ELSE plane' = plane
         /\ polled' = TRUE /\ UNCHANGED <<up, down, rx, age, dropped>>
<1>1. CASE Head(inbox).kind = "ack"
  <2>1. To("acknowledged") /\ plane.at = "waiting"
    BY <1>1 DEF AckRead, In
  <2>2. Moves("waiting", "acknowledged")
    BY <2>1, ToIs DEF Stages, Moves, Same
  <2> QED BY <1>1, <2>2 DEF AckRead, In
<1>2. CASE Head(inbox).kind # "ack"
  BY <1>2 DEF AckRead, In
<1> QED BY <1>1, <1>2

LEMMA GiveUpDoes ==
  ASSUME HsTyped, GiveUp
  PROVE  Moves("waiting", "failed") /\ Quiet /\ UNCHANGED <<up, down, inbox, rx, age, polled, dropped>>
<1>1. To("failed") /\ plane.at = "waiting"
  BY DEF GiveUp, In
<1>2. Moves("waiting", "failed")
  BY <1>1, ToIs DEF Stages, Moves, Same
<1> QED BY <1>2 DEF GiveUp, wire

LEMMA SwitchresDoes ==
  ASSUME HsTyped, Switchres
  PROVE  Moves("acknowledged", "session") /\ Adds("switchres") /\ age' = 0
         /\ UNCHANGED <<down, inbox, rx, polled, dropped>>
<1>1. To("session") /\ plane.at = "acknowledged" /\ Sends(Packet("switchres"))
  BY DEF Switchres, In
<1>2. Moves("acknowledged", "session")
  BY <1>1, ToIs DEF Stages, Moves, Same
<1>3. Adds("switchres") /\ age' = 0
  BY <1>1, PacketAdds DEF Kinds
<1> QED BY <1>2, <1>3 DEF Switchres

LEMMA SendHeaderDoes ==
  ASSUME HsTyped, SendHeader
  PROVE  Moves("session", "sending") /\ Adds("header") /\ age' = 0 /\ up = <<>>
         /\ UNCHANGED <<down, inbox, rx, polled, dropped>>
<1>1. To("sending") /\ plane.at = "session" /\ Sends(Packet("header"))
  BY DEF SendHeader, In
<1>2. Moves("session", "sending")
  BY <1>1, ToIs DEF Stages, Moves, Same
<1>3. Adds("header") /\ age' = 0
  BY <1>1, PacketAdds DEF Kinds
<1> QED BY <1>2, <1>3 DEF SendHeader, Roomy

LEMMA SendPayloadDoes ==
  ASSUME HsTyped, SendPayload
  PROVE  Moves("sending", "session") /\ Adds("payload") /\ age' = 0
         /\ UNCHANGED <<down, inbox, rx, polled, dropped>>
<1>1. To("session") /\ plane.at = "sending" /\ Sends(Packet("payload"))
  BY DEF SendPayload, In
<1>2. Moves("sending", "session")
  BY <1>1, ToIs DEF Stages, Moves, Same
<1>3. Adds("payload") /\ age' = 0
  BY <1>1, PacketAdds DEF Kinds
<1> QED BY <1>2, <1>3 DEF SendPayload

LEMMA SendDupDoes ==
  ASSUME HsTyped, SendDup
  PROVE  plane.at = "session" /\ plane.codec = "raw" /\ plane' = plane /\ Adds("dup") /\ age' = 0
         /\ UNCHANGED <<down, inbox, rx, polled, dropped>>
<1>1. Sends(Packet("dup"))
  BY DEF SendDup
<1>2. Adds("dup") /\ age' = 0
  BY <1>1, PacketAdds DEF Kinds
<1> QED BY <1>2 DEF SendDup, In, RawOnly

LEMMA CloseDoes ==
  ASSUME HsTyped, Close
  PROVE  /\ plane.at \in {"session", "acknowledged"} /\ plane'.at = "closed" /\ Same
         /\ Adds("close") \/ up' = up
         /\ UNCHANGED <<down, inbox, rx, polled, dropped>>
<1>1. To("closed") /\ plane.at \in {"session", "acknowledged"}
  BY DEF Close, In
<1>2. plane'.at = "closed" /\ Same
  BY <1>1, ToIs DEF Stages, Same
<1>3. Adds("close") \/ up' = up
  <2>1. Sends(Packet("close")) => Adds("close")
    BY PacketAdds DEF Kinds
  <2> QED BY <2>1 DEF Close, Silent
<1> QED BY <1>1, <1>2, <1>3 DEF Close

LEMMA ReturnDoes ==
  ASSUME HsTyped, Return
  PROVE  /\ plane.at \in {"closed", "failed"} /\ plane'.at = "done"
         /\ UNCHANGED <<up, down, inbox, rx, age, polled, dropped>>
<1>1. To("done") /\ plane.at \in {"closed", "failed"}
  BY DEF Return, In
<1>2. plane'.at = "done"
  BY <1>1, ToIs DEF Stages
<1> QED BY <1>1, <1>2 DEF Return, wire

LEMMA KeepaliveDoes ==
  ASSUME HsTyped, Keepalive
  PROVE  /\ plane.at \in {"acknowledged", "session", "sending", "closed"} /\ polled = FALSE /\ polled' = TRUE
         /\ IF age >= KeepaliveIdle THEN Adds("status") /\ age' = 0 ELSE up' = up /\ age' = age
         /\ UNCHANGED <<plane, down, inbox, rx, dropped>>
<1>1. Sends(Packet("status")) => Adds("status") /\ age' = 0
  BY PacketAdds DEF Kinds
<1>2. IF age >= KeepaliveIdle THEN Adds("status") /\ age' = 0 ELSE up' = up /\ age' = age
  BY <1>1 DEF Keepalive, LongSilent, HoldsBack, Silent
<1>3. polled = FALSE
  BY DEF Keepalive, HsTyped
<1> QED BY <1>2, <1>3 DEF Keepalive, Alive

LEMMA ArrivesDoes ==
  ASSUME HsTyped, Arrives
  PROVE  /\ up # <<>> /\ up' = Tail(up) /\ Head(up) \in Packets
         /\ rx' = Takes(Head(up)) /\ down' = down \o Reply(Head(up))
         /\ UNCHANGED <<plane, inbox, age, polled, dropped>>
BY HeadsTyped DEF Arrives

LEMMA LosesDoes ==
  ASSUME HsTyped, Loses
  PROVE  /\ dropped' > 0 /\ UNCHANGED <<plane, inbox, rx, age, polled>>
         /\ \/ up # <<>> /\ Head(up).kind \notin {"header", "payload"} /\ up' = Tail(up) /\ down' = down
            \/ down # <<>> /\ down' = Tail(down) /\ up' = up
<1>1. dropped' = dropped + 1 /\ dropped \in Nat
  BY DEF Loses, HsTyped
<1>2. dropped' > 0
  BY <1>1
<1> QED BY <1>2 DEF Loses

LEMMA VersionReadDoes ==
  ASSUME HsTyped, ProbeLast, VersionRead
  PROVE  /\ plane.at = "probing" /\ inbox # <<>> /\ inbox' = Tail(inbox) /\ UNCHANGED <<up, down, rx, age, polled, dropped>>
         /\ \/ plane' = plane
            \/ /\ plane'.at = "probed" /\ up = <<>> /\ down = <<>> /\ inbox' = <<>>
               /\ plane'.codec = "nlc" => rx.core = "nlc"
<1>1. plane.at = "probing" /\ inbox # <<>> /\ inbox' = Tail(inbox) /\ UNCHANGED <<up, down, rx, age, polled, dropped>>
  BY DEF VersionRead, In
<1>2. ASSUME Head(inbox).kind = "version"
      PROVE  /\ plane'.at = "probed" /\ up = <<>> /\ down = <<>> /\ inbox' = <<>>
             /\ plane'.codec = "nlc" => rx.core = "nlc"
  <2>1. inbox \in Seq(Replies)
    BY DEF HsTyped
  <2>2. 1 \in DOMAIN inbox /\ Head(inbox) = inbox[1] /\ Head(inbox) \in Replies /\ (Tail(inbox) = <<>> <=> Len(inbox) = 1)
    BY <1>1, <2>1, TailFacts
  <2>3. 1 = Len(inbox) /\ up = <<>> /\ down = <<>> /\ inbox[1].core = rx.core
    BY <1>2, <2>2 DEF ProbeLast
  <2>4. Head(inbox).core \in Names
    BY <1>2, <2>2 DEF Replies, Names
  <2>5. Detects(Head(inbox).core) /\ Stage({"probing"})
    BY <1>1, <1>2 DEF VersionRead, Stage
  <2>6. plane'.at = "probed" /\ plane'.codec = Resolve(Configured[plane.n], Head(inbox).core)
    BY <2>4, <2>5, DetectsIs
  <2>7. plane'.codec = "nlc" => Head(inbox).core = "nlc"
    BY <2>6 DEF Resolve
  <2> QED BY <1>1, <2>2, <2>3, <2>6, <2>7
<1>3. Head(inbox).kind # "version" => plane' = plane
  BY DEF VersionRead
<1> QED BY <1>1, <1>2, <1>3

LEMMA ProbeTimesOutDoes ==
  ASSUME HsTyped, ProbeTimesOut
  PROVE  /\ plane.at = "probing" /\ plane'.at = "probed" /\ Quiet /\ plane'.codec # "nlc"
         /\ UNCHANGED <<up, down, inbox, rx, age, polled, dropped>>
<1>1. plane.at = "probing" /\ Quiet /\ UNCHANGED <<up, down, inbox, rx, age, polled, dropped>> /\ Detects("groovy")
  BY DEF ProbeTimesOut, In, wire
<1>2. "groovy" \in Names
  BY DEF Names
<1>3. plane'.at = "probed" /\ plane'.codec = Resolve(Configured[plane.n], "groovy")
  BY <1>1, <1>2, DetectsIs DEF Stage
<1>4. plane'.codec # "nlc"
  BY <1>3 DEF Resolve
<1> QED BY <1>1, <1>3, <1>4
LEMMA HalfSecondDoes ==
  ASSUME HsTyped, HalfSecond
  PROVE  /\ plane.at = "session" /\ Quiet /\ polled = TRUE /\ polled' = FALSE /\ age' = age + 1
         /\ rx'.idle = rx.idle + 1 /\ rx'.core = rx.core /\ rx'.session = rx.session /\ rx'.codec = rx.codec
         /\ rx'.reads = rx.reads /\ rx'.misread = rx.misread
         /\ UNCHANGED <<plane, up, down, inbox, dropped>>
<1>1. rx \in Receivers /\ polled \in BOOLEAN
  BY DEF HsTyped
<1>2. plane.at = "session" /\ Quiet /\ polled /\ polled' = FALSE /\ age' = age + 1
      /\ UNCHANGED <<plane, up, down, inbox, dropped>>
  BY DEF HalfSecond, In, wire
<1>3. polled = TRUE
  BY <1>1, <1>2
<1>4. /\ rx'.idle = rx.idle + 1 /\ rx'.core = rx.core /\ rx'.session = rx.session /\ rx'.codec = rx.codec
      /\ rx'.reads = rx.reads /\ rx'.misread = rx.misread
  <2> DEFINE k == rx.idle + 1
  <2>1. rx' = [rx EXCEPT !.idle = k]
    BY <1>1 DEF HalfSecond, Receivers
  <2> HIDE DEF k
  <2>2. /\ rx'.idle = k /\ rx'.core = rx.core /\ rx'.session = rx.session /\ rx'.codec = rx.codec
        /\ rx'.reads = rx.reads /\ rx'.misread = rx.misread
    BY <1>1, <2>1 DEF Receivers
  <2> QED BY <2>2 DEF k
<1> QED BY <1>2, <1>3, <1>4

LEMMA LoadCoreDoes ==
  ASSUME HsTyped, LoadCore
  PROVE  /\ plane.at = "done" /\ Quiet /\ rx'.reads = "command" /\ rx'.misread = rx.misread
         /\ UNCHANGED <<plane, up, down, inbox, age, polled, dropped>>
<1>1. PICK c \in Cores : rx' = [core |-> c, session |-> 0, codec |-> "raw", reads |-> "command",
                                idle |-> 0, misread |-> rx.misread]
  BY DEF LoadCore
<1>2. rx'.reads = "command" /\ rx'.misread = rx.misread
  BY <1>1
<1> QED BY <1>2 DEF LoadCore, Done, wire

LEMMA UpAppended ==
  ASSUME HsTyped, NEW p \in Packets, up' = Append(up, p)
  PROVE  /\ up' # <<>> /\ Len(up') = Len(up) + 1 /\ Len(up) \in Nat /\ DOMAIN up = 1..Len(up)
         /\ \A i \in DOMAIN up' : \/ i = Len(up') /\ up'[i] = p
                                  \/ i \in DOMAIN up /\ i # Len(up') /\ up'[i] = up[i]
         /\ Head(up') = IF up = <<>> THEN p ELSE Head(up)
<1>1. up \in Seq(Packets)
  BY DEF HsTyped
<1>2. /\ up' # <<>> /\ Len(up') = Len(up) + 1 /\ DOMAIN up' = 1..(Len(up) + 1) /\ Len(up) \in Nat
      /\ \A i \in DOMAIN up' :
            IF i = Len(up) + 1 THEN up'[i] = p ELSE i \in DOMAIN up /\ up'[i] = up[i]
      /\ Head(up') = IF up = <<>> THEN p ELSE Head(up)
      /\ DOMAIN up = 1..Len(up)
  BY <1>1, AppendFacts
<1> QED BY <1>2

-----------------------------------------------------------------------------
(* The probe's answer comes last. *)
LEMMA ProbeLastSends ==
  ASSUME HsTyped, ProbeLast, plane.at # "probing", NEW p \in Packets, up' = Append(up, p),
         p.kind = "version" => plane'.at = "probing",
         down' = down, inbox' = inbox \/ inbox' = <<>>
  PROVE  ProbeLast'
<1>1. /\ \A i \in DOMAIN up : up[i].kind # "version"
      /\ \A i \in DOMAIN down : down[i].kind # "version"
      /\ \A i \in DOMAIN inbox : inbox[i].kind # "version"
  BY DEF ProbeLast, Stage
<1>2. \A i \in DOMAIN up' : up'[i].kind = "version" => plane'.at = "probing" /\ i = Len(up')
  BY <1>1, UpAppended
<1>3. \A i \in DOMAIN down' : down'[i].kind # "version"
  BY <1>1
<1>4. \A i \in DOMAIN inbox' : inbox'[i].kind # "version"
  BY <1>1
<1> QED BY <1>2, <1>3, <1>4 DEF ProbeLast, Stage

LEMMA ProbeLastAdds ==
  ASSUME HsTyped, ProbeLast, plane.at # "probing", NEW k \in Kinds \ {"version"}, Adds(k),
         down' = down, inbox' = inbox \/ inbox' = <<>>
  PROVE  ProbeLast'
<1>1. PICK p \in Packets : p.kind = k /\ up' = Append(up, p)
  BY DEF Adds
<1> QED BY <1>1, ProbeLastSends

LEMMA ProbeLastQuiet ==
  ASSUME up' = <<>>, down' = <<>>, inbox' = <<>>
  PROVE  ProbeLast'
BY DEF ProbeLast

LEMMA ProbeLastStays ==
  ASSUME ProbeLast, UNCHANGED <<up, down, inbox>>, rx'.core = rx.core,
         plane.at = "probing" => plane'.at = "probing"
  PROVE  ProbeLast'
BY DEF ProbeLast, Stage

LEMMA KeepsProbeLast ==
  ASSUME HsTyped, ProbeLast, [HsNext]_hsVars
  PROVE  ProbeLast'
<1>0. up \in Seq(Packets) /\ down \in Seq(Replies) /\ inbox \in Seq(Replies)
  BY DEF HsTyped
<1>q. up = <<>> /\ down = <<>> /\ inbox = <<>> => ProbeLast
  BY DEF ProbeLast
<1>1. CASE Probe
  <2>1. PICK p \in Packets : p.kind = "version" /\ up' = Append(up, p)
    BY <1>1, ProbeDoes
  <2> QED BY <1>1, <2>1, ProbeDoes, ProbeLastSends
<1>2. CASE VersionRead
  <2>1. CASE inbox' = <<>> /\ up = <<>> /\ down = <<>>
    BY <1>2, <2>1, VersionReadDoes, ProbeLastQuiet
  <2>2. CASE plane' = plane
    <3>1. inbox # <<>> /\ inbox' = Tail(inbox) /\ UNCHANGED <<plane, up, down, rx>>
      BY <1>2, <2>2, VersionReadDoes
    <3>2. \A i \in DOMAIN inbox' : i + 1 \in DOMAIN inbox /\ inbox'[i] = inbox[i + 1] /\ Len(inbox') = Len(inbox) - 1
                                   /\ i \in Nat /\ Len(inbox) \in Nat
      BY <1>0, <3>1, TailFacts
    <3> QED BY <3>1, <3>2 DEF ProbeLast, Stage
  <2> QED BY <1>2, <2>1, <2>2, VersionReadDoes
<1>3. CASE ProbeTimesOut
  BY <1>3, ProbeTimesOutDoes, ProbeLastQuiet DEF Quiet
<1>4. CASE SendInit
  BY <1>4, SendInitDoes, ProbeLastAdds DEF Kinds
<1>5. CASE AckRead
  <2>1. inbox # <<>> /\ inbox' = Tail(inbox) /\ UNCHANGED <<up, down, rx>> /\ plane.at # "probing"
    BY <1>5, AckReadDoes
  <2>2. \A i \in DOMAIN inbox' : i + 1 \in DOMAIN inbox /\ inbox'[i] = inbox[i + 1]
    BY <1>0, <2>1, TailFacts
  <2> QED BY <2>1, <2>2 DEF ProbeLast, Stage
<1>6. CASE GiveUp
  BY <1>6, GiveUpDoes, ProbeLastStays DEF Moves
<1>7. CASE Switchres
  BY <1>7, SwitchresDoes, ProbeLastAdds DEF Kinds, Moves
<1>8. CASE SendHeader
  BY <1>8, SendHeaderDoes, ProbeLastAdds DEF Kinds, Moves
<1>9. CASE SendPayload
  BY <1>9, SendPayloadDoes, ProbeLastAdds DEF Kinds, Moves
<1>10. CASE SendDup
  BY <1>10, SendDupDoes, ProbeLastAdds DEF Kinds
<1>11. CASE Close
  <2>1. plane.at # "probing" /\ UNCHANGED <<down, inbox, rx>> /\ (Adds("close") \/ up' = up)
    BY <1>11, CloseDoes
  <2> QED BY <2>1, ProbeLastAdds, ProbeLastStays DEF Kinds
<1>12. CASE Return
  BY <1>12, ReturnDoes, ProbeLastStays
<1>13. CASE Drain
  <2>1. inbox # <<>> /\ inbox' = Tail(inbox) /\ UNCHANGED <<plane, up, down, rx>>
    BY <1>13 DEF Drain
  <2>2. \A i \in DOMAIN inbox' : i + 1 \in DOMAIN inbox /\ inbox'[i] = inbox[i + 1] /\ Len(inbox') = Len(inbox) - 1
                                 /\ i \in Nat /\ Len(inbox) \in Nat
    BY <1>0, <2>1, TailFacts
  <2> QED BY <2>1, <2>2 DEF ProbeLast, Stage
<1>14. CASE Keepalive
  <2>1. plane.at # "probing" /\ UNCHANGED <<plane, down, inbox, rx>> /\ (Adds("status") \/ up' = up)
    BY <1>14, KeepaliveDoes
  <2> QED BY <2>1, ProbeLastAdds, ProbeLastStays DEF Kinds
<1>15. CASE Arrives
  <2>1. /\ up # <<>> /\ up' = Tail(up) /\ Head(up) \in Packets
        /\ down' = down \o Reply(Head(up)) /\ UNCHANGED <<plane, inbox>>
    BY <1>15, ArrivesDoes
  <2>2. rx'.core = rx.core
    BY <1>15, <2>1, ArrivesDoes, TakesTyped
  <2>3. /\ \A i \in DOMAIN down : down[i].kind # "version"
        /\ \A i \in DOMAIN inbox : inbox[i].kind # "version"
    BY <2>1 DEF ProbeLast
  <2>4. /\ \A i \in DOMAIN up' : /\ i + 1 \in DOMAIN up /\ up'[i] = up[i + 1] /\ Len(up') = Len(up) - 1
                                 /\ i \in Nat /\ Len(up) \in Nat
        /\ 1 \in DOMAIN up /\ Head(up) = up[1] /\ (up' = <<>> <=> Len(up) = 1)
    BY <1>0, <2>1, TailFacts
  <2>5. \A i \in DOMAIN up' : up'[i].kind = "version" => Stage({"probing"})' /\ i = Len(up')
    BY <2>1, <2>4 DEF ProbeLast, Stage
  <2>6. CASE Head(up).kind = "version"
    <3> DEFINE v == [kind |-> "version", core |-> rx.core]
    <3>1. Stage({"probing"}) /\ up' = <<>>
      BY <2>4, <2>6 DEF ProbeLast
    <3>2. Reply(Head(up)) = <<v>> /\ v \in Replies /\ v.kind = "version" /\ v.core = rx.core
      BY <2>1, <2>6, ReplyTyped DEF Replies, HsTyped, Receivers
    <3> HIDE DEF v
    <3>3. down' = Append(down, v)
      BY <1>0, <2>1, <3>2, AppendIsConcat
    <3>4. \A i \in DOMAIN down' : IF i = Len(down') THEN down'[i] = v ELSE i \in DOMAIN down /\ down'[i] = down[i]
      BY <1>0, <3>2, <3>3, AppendFacts
    <3>5. \A i \in DOMAIN down' : down'[i].kind = "version" => i = Len(down') /\ down'[i].core = rx'.core
      BY <2>2, <2>3, <3>2, <3>4
    <3> QED BY <2>1, <2>3, <2>5, <3>1, <3>5 DEF ProbeLast, Stage
  <2>7. CASE Head(up).kind # "version"
    <3>1. \A i \in DOMAIN down' : down'[i].kind # "version"
      <4>1. CASE Reply(Head(up)) = <<>>
        BY <1>0, <2>1, <2>3, <4>1
      <4>2. CASE Reply(Head(up)) = <<[kind |-> "ack"]>>
        <5> DEFINE a == [kind |-> "ack"]
        <5>1. a \in Replies /\ a.kind = "ack" /\ Reply(Head(up)) = <<a>>
          BY <4>2 DEF Replies
        <5> HIDE DEF a
        <5>2. down' = Append(down, a)
          BY <1>0, <2>1, <5>1, AppendIsConcat
        <5>3. \A i \in DOMAIN down' : IF i = Len(down) + 1 THEN down'[i] = a ELSE i \in DOMAIN down /\ down'[i] = down[i]
          BY <1>0, <5>1, <5>2, AppendFacts
        <5> QED BY <2>3, <5>1, <5>3
      <4> QED BY <2>1, <2>7, <4>1, <4>2, ReplyTyped
    <3> QED BY <2>1, <2>3, <2>5, <3>1 DEF ProbeLast, Stage
  <2> QED BY <2>6, <2>7
<1>16. CASE ReplyArrives
  <2>1. down # <<>> /\ down' = Tail(down) /\ inbox' = Append(inbox, Head(down)) /\ UNCHANGED <<plane, up, rx>>
    BY <1>16 DEF ReplyArrives
  <2>2. /\ \A i \in DOMAIN down' : /\ i + 1 \in DOMAIN down /\ down'[i] = down[i + 1] /\ Len(down') = Len(down) - 1
                                   /\ i \in Nat /\ Len(down) \in Nat
        /\ 1 \in DOMAIN down /\ Head(down) = down[1] /\ Head(down) \in Replies /\ (down' = <<>> <=> Len(down) = 1)
    <3> DEFINE t == Tail(down)
    <3>1. /\ Len(down) \in Nat \ {0} /\ DOMAIN t = 1..(Len(down) - 1)
          /\ \A i \in DOMAIN t : i + 1 \in DOMAIN down /\ t[i] = down[i + 1]
      BY <1>0, <2>1, TailFacts
    <3>2. 1 \in DOMAIN down /\ Head(down) = down[1] /\ Head(down) \in Replies /\ (t = <<>> <=> Len(down) = 1)
      BY <1>0, <2>1, TailFacts
    <3>3. down' = t
      BY <2>1
    <3>4. Len(t) = Len(down) - 1
      BY <1>0, <2>1, TailFacts
    <3> HIDE DEF t
    <3> QED BY <3>1, <3>2, <3>3, <3>4
  <2>3. \A i \in DOMAIN inbox : inbox[i].kind # "version"
    BY <2>1 DEF ProbeLast
  <2>4. /\ \A i \in DOMAIN inbox' : IF i = Len(inbox') THEN inbox'[i] = Head(down) ELSE i \in DOMAIN inbox /\ inbox'[i] = inbox[i]
    BY <1>0, <2>1, <2>2, AppendFacts
  <2>5. Head(down).kind = "version" => Stage({"probing"}) /\ up = <<>> /\ down' = <<>> /\ Head(down).core = rx.core
    BY <2>2 DEF ProbeLast
  <2>6. \A i \in DOMAIN inbox' :
          inbox'[i].kind = "version" =>
             Stage({"probing"}) /\ i = Len(inbox') /\ up = <<>> /\ down' = <<>> /\ inbox'[i].core = rx.core
    BY <2>3, <2>4, <2>5
  <2>7. \A i \in DOMAIN down' :
          down'[i].kind = "version" => Stage({"probing"}) /\ i = Len(down') /\ up = <<>> /\ down'[i].core = rx.core
    BY <2>2 DEF ProbeLast
  <2> QED BY <2>1, <2>6, <2>7 DEF ProbeLast, Stage
<1>17. CASE Loses
  <2>0. UNCHANGED <<plane, inbox, rx>>
    BY <1>17, LosesDoes
  <2>1. CASE up # <<>> /\ up' = Tail(up) /\ down' = down
    <3>1. \A i \in DOMAIN up' : /\ i + 1 \in DOMAIN up /\ up'[i] = up[i + 1] /\ Len(up') = Len(up) - 1
                                /\ i \in Nat /\ Len(up) \in Nat
      BY <1>0, <2>1, TailFacts
    <3>2. \A i \in DOMAIN up' : up'[i].kind = "version" => Stage({"probing"}) /\ i = Len(up')
      BY <3>1 DEF ProbeLast
    <3>3. /\ \A i \in DOMAIN down : down[i].kind # "version"
          /\ \A i \in DOMAIN inbox : inbox[i].kind # "version"
      BY <2>1 DEF ProbeLast
    <3> QED BY <2>0, <2>1, <3>2, <3>3 DEF ProbeLast, Stage
  <2>2. CASE down # <<>> /\ down' = Tail(down) /\ up' = up
    <3>1. \A i \in DOMAIN down' : /\ i + 1 \in DOMAIN down /\ down'[i] = down[i + 1] /\ Len(down') = Len(down) - 1
                                  /\ i \in Nat /\ Len(down) \in Nat
      BY <1>0, <2>2, TailFacts
    <3>2. \A i \in DOMAIN down' :
            down'[i].kind = "version" => Stage({"probing"}) /\ i = Len(down') /\ up = <<>> /\ down'[i].core = rx.core
      BY <3>1 DEF ProbeLast
    <3>3. \A i \in DOMAIN inbox : inbox[i].kind # "version"
      BY <2>2 DEF ProbeLast
    <3> QED BY <2>0, <2>2, <3>2, <3>3 DEF ProbeLast, Stage
  <2> QED BY <1>17, <2>1, <2>2, LosesDoes
<1>18. CASE HalfSecond
  BY <1>18, HalfSecondDoes, ProbeLastStays
<1>19. CASE LoadCore
  BY <1>19, LoadCoreDoes, ProbeLastQuiet DEF Quiet
<1>20. CASE UNCHANGED hsVars
  BY <1>20, ProbeLastStays DEF hsVars, wire
<1> QED BY <1>1, <1>2, <1>3, <1>4, <1>5, <1>6, <1>7, <1>8, <1>9, <1>10, <1>11, <1>12, <1>13, <1>14,
           <1>15, <1>16, <1>17, <1>18, <1>19, <1>20 DEF HsNext, Run
-----------------------------------------------------------------------------
(* A header is followed by its payload. *)
Shifted(s, t) ==
    \A i \in DOMAIN t : /\ i + 1 \in DOMAIN s /\ t[i] = s[i + 1] /\ Len(t) = Len(s) - 1
                        /\ i \in Nat /\ Len(s) \in Nat

LEMMA UpShifts ==
  ASSUME HsTyped, up # <<>>, up' = Tail(up)
  PROVE  /\ Shifted(up, up') /\ DOMAIN up = 1..Len(up) /\ DOMAIN up' = 1..(Len(up) - 1)
         /\ Len(up) \in Nat \ {0} /\ Len(up') = Len(up) - 1
         /\ 1 \in DOMAIN up /\ Head(up) = up[1] /\ Head(up) \in Packets
         /\ up' = <<>> <=> Len(up) = 1
         /\ up' # <<>> => Head(up') = up[2] /\ 2 \in DOMAIN up
<1>1. up \in Seq(Packets)
  BY DEF HsTyped
<1>2. /\ Len(Tail(up)) = Len(up) - 1 /\ Len(up) \in Nat \ {0}
      /\ DOMAIN Tail(up) = 1..(Len(up) - 1) /\ DOMAIN up = 1..Len(up)
      /\ \A i \in DOMAIN Tail(up) : i + 1 \in DOMAIN up /\ Tail(up)[i] = up[i + 1]
      /\ 1 \in DOMAIN up /\ Head(up) = up[1] /\ Head(up) \in Packets
      /\ Tail(up) = <<>> <=> Len(up) = 1
      /\ Tail(up) # <<>> => Head(Tail(up)) = up[2] /\ 2 \in DOMAIN up
  BY <1>1, TailFacts
<1>3. Shifted(up, up')
  BY <1>2 DEF Shifted
<1> QED BY <1>2, <1>3

LEMMA PairedAdds ==
  ASSUME HsTyped, Paired, plane.at # "sending", plane'.at # "sending",
         NEW p \in Packets, p.kind # "header", up' = Append(up, p), rx' = rx
  PROVE  Paired'
<1>1. /\ up' # <<>> /\ Len(up') = Len(up) + 1 /\ Len(up) \in Nat /\ DOMAIN up = 1..Len(up)
      /\ \A i \in DOMAIN up' : (i = Len(up') /\ up'[i] = p) \/ (i \in DOMAIN up /\ i # Len(up') /\ up'[i] = up[i])
      /\ Head(up') = IF up = <<>> THEN p ELSE Head(up)
  BY UpAppended
<1>2. ASSUME NEW i \in DOMAIN up', up'[i].kind = "header"
      PROVE  i # Len(up') /\ up'[i + 1].kind = "payload"
  <2>1. i \in DOMAIN up /\ i # Len(up') /\ up[i].kind = "header"
    BY <1>1, <1>2
  <2>2. i # Len(up) /\ up[i + 1].kind = "payload"
    BY <2>1 DEF Paired, Stage
  <2>3. i + 1 \in DOMAIN up' /\ i + 1 # Len(up')
    <3>1. i \in 1..Len(up) /\ i + 1 \in 1..(Len(up) + 1) /\ i + 1 # Len(up) + 1
      BY <1>1, <2>1, <2>2
    <3>2. DOMAIN up' = 1..(Len(up) + 1)
      BY AppendFacts DEF HsTyped
    <3> QED BY <1>1, <3>1, <3>2
  <2>4. up'[i + 1] = up[i + 1]
    BY <1>1, <2>3
  <2> QED BY <2>1, <2>2, <2>4
<1>3. ASSUME rx'.reads = "payload" PROVE up' # <<>> /\ Head(up').kind = "payload"
  BY <1>1, <1>3 DEF Paired, Stage
<1> QED BY <1>1, <1>2, <1>3 DEF Paired, Stage

LEMMA PairedStays ==
  ASSUME Paired, up' = up, rx'.reads = rx.reads, plane'.at = "sending" <=> plane.at = "sending"
  PROVE  Paired'
BY DEF Paired, Stage

LEMMA PairedKind ==
  ASSUME HsTyped, Paired, plane.at # "sending", plane'.at # "sending",
         NEW k \in Kinds \ {"header"}, Adds(k), rx' = rx
  PROVE  Paired'
<1>1. PICK p \in Packets : p.kind = k /\ up' = Append(up, p)
  BY DEF Adds
<1> QED BY <1>1, PairedAdds

LEMMA KeepsPaired ==
  ASSUME HsTyped, ProbeLast, Asking, Paired, [HsNext]_hsVars
  PROVE  Paired'
<1>1. CASE Probe
  <2>1. PICK p \in Packets : p.kind = "version" /\ up' = Append(up, p)
    BY <1>1, ProbeDoes
  <2> QED BY <1>1, <2>1, ProbeDoes, PairedAdds
<1>2. CASE VersionRead
  BY <1>2, VersionReadDoes, PairedStays
<1>3. CASE ProbeTimesOut
  BY <1>3, ProbeTimesOutDoes, PairedStays
<1>4. CASE SendInit
  BY <1>4, SendInitDoes, PairedKind DEF Kinds
<1>5. CASE AckRead
  BY <1>5, AckReadDoes, PairedStays DEF Moves
<1>6. CASE GiveUp
  BY <1>6, GiveUpDoes, PairedStays DEF Moves
<1>7. CASE Switchres
  BY <1>7, SwitchresDoes, PairedKind DEF Kinds, Moves
<1>8. CASE SendHeader
  <2>1. up = <<>> /\ plane.at = "session" /\ plane'.at = "sending" /\ rx' = rx
    BY <1>8, SendHeaderDoes DEF Moves
  <2>2. PICK p \in Packets : p.kind = "header" /\ up' = Append(up, p)
    BY <1>8, SendHeaderDoes DEF Adds
  <2>3. Len(up) = 0
    BY <2>1, EmptyIs DEF HsTyped
  <2>4. Len(up') = 1 /\ Head(up') = p /\ \A i \in DOMAIN up' : i = Len(up') /\ up'[i] = p
    BY <2>1, <2>2, <2>3, UpAppended
  <2>5. rx.reads # "payload"
    BY <2>1 DEF Paired, Stage
  <2> QED BY <2>1, <2>2, <2>4, <2>5 DEF Paired, Stage
<1>9. CASE SendPayload
  <2>1. plane.at = "sending" /\ plane'.at = "session" /\ rx' = rx
    BY <1>9, SendPayloadDoes DEF Moves
  <2>2. PICK p \in Packets : p.kind = "payload" /\ up' = Append(up, p)
    BY <1>9, SendPayloadDoes DEF Adds
  <2>3. /\ up' # <<>> /\ Len(up') = Len(up) + 1 /\ Len(up) \in Nat /\ DOMAIN up = 1..Len(up)
        /\ \A i \in DOMAIN up' : (i = Len(up') /\ up'[i] = p) \/ (i \in DOMAIN up /\ i # Len(up') /\ up'[i] = up[i])
        /\ Head(up') = IF up = <<>> THEN p ELSE Head(up)
    BY <2>2, UpAppended
  <2>4. up = <<>> <=> Len(up) = 0
    BY EmptyIs DEF HsTyped
  <2>5. CASE rx.reads = "payload"
    <3>1. up = <<>> /\ Len(up') = 1
      BY <2>1, <2>3, <2>4, <2>5 DEF Paired, Stage
    <3>2. \A i \in DOMAIN up' : up'[i].kind # "header"
      BY <2>2, <2>3, <3>1
    <3>3. up' # <<>> /\ Head(up').kind = "payload"
      BY <2>2, <2>3, <3>1
    <3> QED BY <2>1, <3>2, <3>3 DEF Paired, Stage
  <2>6. CASE rx.reads # "payload"
    <3>1. Len(up) = 1
      BY <2>1, <2>3, <2>6 DEF Paired, Stage
    <3>2. Len(up') = 2 /\ DOMAIN up' = 1..2
      BY <2>2, <2>3, <3>1, AppendFacts DEF HsTyped
    <3>3. up'[2] = p /\ \A i \in DOMAIN up' : i = 2 \/ i = 1
      BY <2>3, <3>1, <3>2
    <3> QED BY <2>1, <2>2, <2>6, <3>2, <3>3 DEF Paired, Stage
  <2> QED BY <2>5, <2>6
<1>10. CASE SendDup
  BY <1>10, SendDupDoes, PairedKind DEF Kinds
<1>11. CASE Close
  <2>1. plane.at # "sending" /\ plane'.at # "sending" /\ rx' = rx /\ (Adds("close") \/ up' = up)
    BY <1>11, CloseDoes
  <2> QED BY <2>1, PairedKind, PairedStays DEF Kinds
<1>12. CASE Return
  BY <1>12, ReturnDoes, PairedStays
<1>13. CASE Drain
  BY <1>13, PairedStays DEF Drain
<1>14. CASE Keepalive
  <2>1. plane' = plane /\ rx' = rx /\ (IF age >= KeepaliveIdle THEN Adds("status") ELSE up' = up)
    BY <1>14, KeepaliveDoes
  <2>2. CASE plane.at = "sending"
    <3>1. age = 0 /\ KeepaliveIdle \in Nat \ {0}
      BY <2>2, HandshakeAssumption DEF Asking, Stage
    <3>2. up' = up
      BY <2>1, <3>1
    <3> QED BY <2>1, <3>2, PairedStays
  <2>3. CASE plane.at # "sending"
    BY <2>1, <2>3, PairedKind, PairedStays DEF Kinds
  <2> QED BY <2>2, <2>3
<1>15. CASE Arrives
  <2>1. up # <<>> /\ up' = Tail(up) /\ plane' = plane /\ rx' = Takes(Head(up)) /\ Head(up) \in Packets
    BY <1>15, ArrivesDoes
  <2>2. rx'.reads = IF Head(up).kind = "header" THEN "payload" ELSE "command"
    BY <2>1, TakesTyped
  <2>3. /\ Shifted(up, up') /\ DOMAIN up = 1..Len(up) /\ DOMAIN up' = 1..(Len(up) - 1)
        /\ Len(up) \in Nat \ {0} /\ Len(up') = Len(up) - 1 /\ 1 \in DOMAIN up /\ Head(up) = up[1]
        /\ up' = <<>> <=> Len(up) = 1
        /\ up' # <<>> => Head(up') = up[2] /\ 2 \in DOMAIN up
    BY <2>1, UpShifts
  <2>4. ASSUME NEW i \in DOMAIN up', up'[i].kind = "header"
        PROVE  IF i = Len(up') THEN Stage({"sending"}) ELSE up'[i + 1].kind = "payload"
    <3>1. i + 1 \in DOMAIN up /\ up[i + 1].kind = "header" /\ i \in Nat /\ Len(up) \in Nat
      BY <2>3, <2>4 DEF Shifted
    <3>2. IF i + 1 = Len(up) THEN Stage({"sending"}) ELSE up[(i + 1) + 1].kind = "payload"
      BY <3>1 DEF Paired
    <3>3. CASE i = Len(up')
      BY <2>3, <3>1, <3>2, <3>3
    <3>4. CASE i # Len(up')
      <4>1. i + 1 \in DOMAIN up' /\ i + 1 # Len(up)
        BY <2>3, <2>4, <3>1, <3>4
      <4> QED BY <2>3, <3>2, <3>4, <4>1 DEF Shifted
    <3> QED BY <3>3, <3>4
  <2>5. ASSUME rx'.reads = "payload" PROVE IF up' = <<>> THEN Stage({"sending"}) ELSE Head(up').kind = "payload"
    <3>1. up[1].kind = "header"
      BY <2>2, <2>3, <2>5
    <3>2. IF 1 = Len(up) THEN Stage({"sending"}) ELSE up[1 + 1].kind = "payload"
      BY <2>3, <3>1 DEF Paired
    <3> QED BY <2>3, <3>2
  <2>6. ASSUME Stage({"sending"}) PROVE Len(up') + (IF rx'.reads = "payload" THEN 1 ELSE 0) = 1 /\ up' = <<>>
    <3>1. up[1].kind = "header"
      BY <2>3, <2>6 DEF Paired
    <3>2. Len(up) = 1
      BY <2>3, <2>6 DEF Paired
    <3> QED BY <2>2, <2>3, <3>1, <3>2
  <2> QED BY <2>1, <2>4, <2>5, <2>6 DEF Paired, Stage
<1>16. CASE ReplyArrives
  BY <1>16, PairedStays DEF ReplyArrives
<1>17. CASE Loses
  <2>0. UNCHANGED <<plane, rx>>
    BY <1>17, LosesDoes
  <2>1. CASE up # <<>> /\ Head(up).kind \notin {"header", "payload"} /\ up' = Tail(up)
    <3>1. /\ Shifted(up, up') /\ DOMAIN up = 1..Len(up) /\ DOMAIN up' = 1..(Len(up) - 1)
          /\ Len(up) \in Nat \ {0} /\ Len(up') = Len(up) - 1 /\ 1 \in DOMAIN up /\ Head(up) = up[1]
      BY <2>1, UpShifts
    <3>2. rx.reads # "payload"
      BY <2>1 DEF Paired
    <3>3. ~Stage({"sending"})
      BY <2>1, <3>1 DEF Paired
    <3>4. ASSUME NEW i \in DOMAIN up', up'[i].kind = "header"
          PROVE  i # Len(up') /\ up'[i + 1].kind = "payload"
      <4>1. i + 1 \in DOMAIN up /\ up[i + 1].kind = "header" /\ i \in Nat /\ Len(up) \in Nat
        BY <3>1, <3>4 DEF Shifted
      <4>2. i + 1 # Len(up) /\ up[(i + 1) + 1].kind = "payload"
        BY <3>3, <4>1 DEF Paired
      <4>3. i + 1 \in DOMAIN up'
        BY <3>1, <3>4, <4>1, <4>2
      <4> QED BY <3>1, <4>2, <4>3 DEF Shifted
    <3> QED BY <2>0, <3>2, <3>3, <3>4 DEF Paired, Stage
  <2>2. CASE up' = up
    BY <2>0, <2>2, PairedStays
  <2> QED BY <1>17, <2>1, <2>2, LosesDoes
<1>18. CASE HalfSecond
  BY <1>18, HalfSecondDoes, PairedStays
<1>19. CASE LoadCore
  <2>1. plane.at = "done" /\ up = <<>> /\ rx'.reads = "command" /\ UNCHANGED <<plane, up>>
    BY <1>19, LoadCoreDoes DEF Quiet
  <2> QED BY <2>1 DEF Paired, Stage
<1>20. CASE UNCHANGED hsVars
  BY <1>20, PairedStays DEF hsVars, wire
<1> QED BY <1>1, <1>2, <1>3, <1>4, <1>5, <1>6, <1>7, <1>8, <1>9, <1>10, <1>11, <1>12, <1>13, <1>14,
           <1>15, <1>16, <1>17, <1>18, <1>19, <1>20 DEF HsNext, Run
-----------------------------------------------------------------------------
(* A drainer reads only for a session. *)
LEMMA KeepsDrained ==
  ASSUME HsTyped, Drained, [HsNext]_hsVars
  PROVE  Drained'
<1> USE DEF Drained, Stage
<1>1. CASE Probe
  BY <1>1 DEF Probe, Done
<1>2. CASE VersionRead
  BY <1>2 DEF VersionRead, In
<1>3. CASE ProbeTimesOut
  BY <1>3 DEF ProbeTimesOut, In
<1>4. CASE SendInit
  BY <1>4 DEF SendInit, In
<1>5. CASE AckRead
  BY <1>5 DEF AckRead, In
<1>6. CASE GiveUp
  BY <1>6 DEF GiveUp, In
<1>7. CASE Switchres
  BY <1>7, SwitchresDoes DEF Moves
<1>8. CASE SendHeader
  BY <1>8, SendHeaderDoes DEF Moves
<1>9. CASE SendPayload
  BY <1>9, SendPayloadDoes DEF Moves
<1>10. CASE SendDup
  BY <1>10 DEF SendDup
<1>11. CASE Close
  BY <1>11, CloseDoes
<1>12. CASE Return
  BY <1>12 DEF Return, In
<1>13. CASE UNCHANGED <<plane, drains>>
  BY <1>13
<1> QED BY <1>1, <1>2, <1>3, <1>4, <1>5, <1>6, <1>7, <1>8, <1>9, <1>10, <1>11, <1>12, <1>13
        DEF HsNext, Run, Drain, Keepalive, Arrives, ReplyArrives, Loses, HalfSecond, LoadCore, hsVars

-----------------------------------------------------------------------------
(* What is asked of the receiver, and what it answered. *)
LEMMA AskingIdle ==
  ASSUME plane'.at \in {"done", "probing"}
  PROVE  Asking'
BY DEF Asking, Stage

LEMMA AskingLater ==
  ASSUME Asking, plane.at \notin {"done", "probing"}, plane'.codec = plane.codec, rx'.core = rx.core,
         plane'.at \in {"session", "sending", "closed", "failed"},
         plane'.at = "sending" => age' = 0, plane'.at = "failed" => dropped' > 0
  PROVE  Asking'
BY DEF Asking, Stage

(* Of the steps that leave Run where it is: what matters of each stage. *)
LEMMA AskingElsewhere ==
  ASSUME HsTyped, Asking, plane' = plane, rx'.core = rx.core,
         plane.at \notin {"probed", "waiting", "acknowledged"},
         plane.at = "sending" => age' = age, dropped > 0 => dropped' > 0
  PROVE  Asking'
<1>1. CASE plane.at \in {"done", "probing"}
  BY <1>1, AskingIdle
<1>2. CASE plane.at \notin {"done", "probing"}
  <2>1. plane.at \in {"session", "sending", "closed", "failed"}
    BY <1>2 DEF HsTyped, PlaneKinds, Stages
  <2>2. plane.at = "sending" => age = 0
    BY DEF Asking, Stage
  <2>3. plane.at = "failed" => dropped > 0
    BY DEF Asking, Stage
  <2> QED BY <1>2, <2>1, <2>2, <2>3, AskingLater
<1> QED BY <1>1, <1>2

LEMMA KeepsAsking ==
  ASSUME HsTyped, ProbeLast, Asking, Drained, [HsNext]_hsVars
  PROVE  Asking'
<1>0. /\ up \in Seq(Packets) /\ down \in Seq(Replies) /\ inbox \in Seq(Replies)
      /\ age \in Nat /\ dropped \in Nat /\ KeepaliveIdle \in Nat \ {0}
  BY HandshakeAssumption DEF HsTyped
<1>1. CASE Probe
  BY <1>1, ProbeDoes, AskingIdle
<1>2. CASE VersionRead
  <2>1. CASE plane' = plane
    BY <1>2, <2>1, VersionReadDoes, AskingIdle
  <2>2. CASE /\ plane'.at = "probed" /\ up = <<>> /\ down = <<>> /\ inbox' = <<>>
             /\ plane'.codec = "nlc" => rx.core = "nlc"
    <3>1. UNCHANGED <<up, down, rx>>
      BY <1>2, VersionReadDoes
    <3> QED BY <2>2, <3>1 DEF Asking, Stage, Quiet
  <2> QED BY <1>2, <2>1, <2>2, VersionReadDoes
<1>3. CASE ProbeTimesOut
  BY <1>3, ProbeTimesOutDoes DEF Asking, Stage, Quiet
<1>4. CASE SendInit
  <2>1. /\ plane.at \in {"probed", "waiting"} /\ plane'.at = "waiting" /\ Same
        /\ age' = 0 /\ inbox' = <<>> /\ UNCHANGED <<down, rx, dropped>>
    BY <1>4, SendInitDoes
  <2>2. PICK p \in Packets : p.kind = "init" /\ p.session = plane.n /\ p.codec = plane.codec /\ up' = Append(up, p)
    BY <1>4, SendInitDoes DEF Adds
  <2>3. \A i \in DOMAIN up : OwnInit(up[i])
    <3>1. CASE plane.at = "probed"
      <4>1. up = <<>>
        BY <3>1 DEF Asking, Stage, Quiet
      <4> QED BY <1>0, <4>1
    <3>2. CASE plane.at = "waiting"
      BY <3>2 DEF Asking, Stage
    <3> QED BY <2>1, <3>1, <3>2
  <2>4. up' # <<>> /\ \A i \in DOMAIN up' : up'[i] = p \/ (i \in DOMAIN up /\ up'[i] = up[i])
    BY <2>2, UpAppended
  <2>5. \A i \in DOMAIN up' : OwnInit(up[i])'
    BY <2>1, <2>2, <2>3, <2>4 DEF OwnInit, Same
  <2>6. down' # <<>> => (IsTaken /\ rx.idle = 0)'
    <3>1. CASE plane.at = "probed"
      BY <2>1, <3>1 DEF Asking, Stage, Quiet
    <3>2. CASE plane.at = "waiting"
      BY <2>1, <3>2 DEF Asking, Stage, IsTaken, Same
    <3> QED BY <2>1, <3>1, <3>2
  <2>7. (plane.codec = "nlc" => rx.core = "nlc")'
    BY <2>1 DEF Asking, Stage, Same
  <2> QED BY <2>1, <2>4, <2>5, <2>6, <2>7 DEF Asking, Stage, Quiet
<1>5. CASE AckRead
  <2>1. /\ plane.at = "waiting" /\ inbox # <<>> /\ polled' = TRUE /\ UNCHANGED <<up, down, rx, age, dropped>>
        /\ Head(inbox).kind = "ack" => Moves("waiting", "acknowledged")
    BY <1>5, AckReadDoes
  <2>2. Head(inbox).kind = "ack"
    <3>1. 1 \in DOMAIN inbox /\ Head(inbox) = inbox[1] /\ Head(inbox) \in Replies
      BY <1>0, <2>1, TailFacts
    <3>2. Head(inbox).kind # "version"
      BY <2>1, <3>1 DEF ProbeLast, Stage
    <3> QED BY <3>1, <3>2 DEF Replies
  <2>3. plane'.at = "acknowledged" /\ Same
    BY <2>1, <2>2 DEF Moves
  <2>4. IsTaken /\ rx.idle = 0 /\ age = 0 /\ \A i \in DOMAIN up : OwnInit(up[i])
    BY <2>1 DEF Asking, Stage
  <2>5. plane.codec = "nlc" => rx.core = "nlc"
    BY <2>1 DEF Asking, Stage
  <2>6. (IsTaken /\ rx.idle = 0 /\ polled /\ age = 0 /\ \A i \in DOMAIN up : OwnInit(up[i]))'
    BY <2>1, <2>3, <2>4 DEF IsTaken, OwnInit, Same
  <2> QED BY <2>1, <2>3, <2>5, <2>6 DEF Asking, Stage, Same
<1>6. CASE GiveUp
  <2>1. plane.at = "waiting" /\ plane'.at = "failed" /\ plane'.codec = plane.codec /\ Quiet /\ UNCHANGED <<rx, dropped>>
    BY <1>6, GiveUpDoes DEF Moves, Same
  <2>2. dropped > 0
    BY <1>0, <2>1 DEF Asking, Stage
  <2> QED BY <2>1, <2>2, AskingLater
<1>7. CASE Switchres
  BY <1>7, SwitchresDoes, AskingLater DEF Moves, Same
<1>8. CASE SendHeader
  BY <1>8, SendHeaderDoes, AskingLater DEF Moves, Same
<1>9. CASE SendPayload
  BY <1>9, SendPayloadDoes, AskingLater DEF Moves, Same
<1>10. CASE SendDup
  BY <1>10, SendDupDoes, AskingLater
<1>11. CASE Close
  BY <1>11, CloseDoes, AskingLater DEF Same
<1>12. CASE Return
  BY <1>12, ReturnDoes, AskingIdle
<1>13. CASE Drain
  <2>1. UNCHANGED <<plane, rx, age, dropped>> /\ plane.at \in {"session", "sending", "closed"}
    BY <1>13 DEF Drain, Drained, Stage
  <2> QED BY <2>1, AskingElsewhere
<1>14. CASE Keepalive
  <2>1. /\ plane.at \in {"acknowledged", "session", "sending", "closed"} /\ polled = FALSE
        /\ age < KeepaliveIdle => age' = age
        /\ UNCHANGED <<plane, rx, dropped>>
    BY <1>0, <1>14, KeepaliveDoes
  <2>2. plane.at # "acknowledged"
    BY <2>1 DEF Asking, Stage
  <2>3. plane.at = "sending" => age = 0
    BY DEF Asking, Stage
  <2>4. plane.at = "sending" => age' = age
    BY <1>0, <2>1, <2>3
  <2> QED BY <2>1, <2>2, <2>4, AskingElsewhere
<1>15. CASE Arrives
  <2>1. /\ up # <<>> /\ up' = Tail(up) /\ Head(up) \in Packets /\ rx' = Takes(Head(up)) /\ down' = down \o Reply(Head(up))
        /\ UNCHANGED <<plane, inbox, age, polled, dropped>>
    BY <1>15, ArrivesDoes
  <2>2. /\ rx'.core = rx.core /\ rx'.idle = 0
        /\ Head(up).kind = "init" => rx'.session = Head(up).session /\ rx'.codec = Head(up).codec
    BY <2>1, TakesTyped
  <2>3. CASE plane.at \in {"waiting", "acknowledged"}
    <3>1. Shifted(up, up') /\ 1 \in DOMAIN up /\ Head(up) = up[1]
      BY <2>1, UpShifts
    <3>2. \A i \in DOMAIN up : OwnInit(up[i])
      BY <2>3 DEF Asking, Stage
    <3>3. OwnInit(Head(up))
      BY <3>1, <3>2
    <3>4. (IsTaken /\ rx.idle = 0)'
      BY <2>1, <2>2, <3>3 DEF IsTaken, OwnInit
    <3>5. \A i \in DOMAIN up' : OwnInit(up[i])'
      BY <2>1, <3>1, <3>2 DEF OwnInit, Shifted
    <3>6. down' # <<>>
      <4>1. Reply(Head(up)) = <<[kind |-> "ack"]>>
        BY <3>3 DEF Reply, OwnInit
      <4>2. Reply(Head(up)) \in Seq(Replies)
        BY <2>1, ReplyTyped
      <4>3. Reply(Head(up)) # <<>>
        <5>1. Len(Reply(Head(up))) = 1
          BY <4>1
        <5> QED BY <4>2, <5>1, EmptyIs
      <4> QED BY <1>0, <2>1, <4>2, <4>3, ConcatSimplifications
    <3>7. plane.codec = "nlc" => rx.core = "nlc"
      BY <2>3 DEF Asking, Stage
    <3>8. age = 0 /\ (plane.at = "acknowledged" => polled)
      BY <2>3 DEF Asking, Stage
    <3> QED BY <2>1, <2>2, <2>3, <3>4, <3>5, <3>6, <3>7, <3>8 DEF Asking, Stage, Quiet
  <2>4. CASE plane.at \notin {"waiting", "acknowledged"}
    <3>1. plane.at # "probed"
      BY <2>1 DEF Asking, Stage, Quiet
    <3> QED BY <2>1, <2>2, <2>4, <3>1, AskingElsewhere
  <2> QED BY <2>3, <2>4
<1>16. CASE ReplyArrives
  <2>1. down # <<>> /\ inbox' = Append(inbox, Head(down)) /\ UNCHANGED <<plane, up, rx, age, polled, dropped>>
    BY <1>16 DEF ReplyArrives
  <2>2. CASE plane.at \in {"waiting", "acknowledged"}
    <3>1. inbox' # <<>>
      BY <1>0, <2>1, HeadsTyped, AppendFacts
    <3>2. IsTaken /\ rx.idle = 0 /\ age = 0 /\ (plane.at = "acknowledged" => polled)
          /\ (plane.codec = "nlc" => rx.core = "nlc") /\ \A i \in DOMAIN up : OwnInit(up[i])
      BY <2>1, <2>2 DEF Asking, Stage
    <3>3. (IsTaken /\ rx.idle = 0 /\ age = 0 /\ (plane.at = "acknowledged" => polled)
           /\ (plane.codec = "nlc" => rx.core = "nlc") /\ \A i \in DOMAIN up : OwnInit(up[i]))'
      BY <2>1, <3>2 DEF IsTaken, OwnInit
    <3> QED BY <2>1, <2>2, <3>1, <3>3 DEF Asking, Stage, Quiet
  <2>3. CASE plane.at \notin {"waiting", "acknowledged"}
    <3>1. plane.at # "probed"
      BY <2>1 DEF Asking, Stage, Quiet
    <3> QED BY <2>1, <2>3, <3>1, AskingElsewhere
  <2> QED BY <2>2, <2>3
<1>17. CASE Loses
  <2>1. /\ dropped' > 0 /\ UNCHANGED <<plane, inbox, rx, age, polled>>
        /\ (up # <<>> /\ up' = Tail(up) /\ down' = down) \/ (down # <<>> /\ up' = up)
    BY <1>17, LosesDoes
  <2>2. CASE plane.at \in {"waiting", "acknowledged"}
    <3>1. \A i \in DOMAIN up' : \E j \in DOMAIN up : up'[i] = up[j]
      BY <2>1, UpShifts DEF Shifted
    <3>2. age = 0 /\ (plane.at = "acknowledged" => IsTaken /\ rx.idle = 0 /\ polled)
          /\ (plane.codec = "nlc" => rx.core = "nlc") /\ \A i \in DOMAIN up : OwnInit(up[i])
      BY <2>2 DEF Asking, Stage
    <3>3. \A i \in DOMAIN up' : OwnInit(up[i])'
      BY <2>1, <3>1, <3>2 DEF OwnInit
    <3>4. plane.at = "waiting" /\ (down' # <<>> \/ inbox' # <<>>) => IsTaken /\ rx.idle = 0
      BY <2>1 DEF Asking, Stage
    <3>5. IsTaken' <=> IsTaken
      BY <2>1 DEF IsTaken
    <3>6. dropped' # 0
      BY <2>1
    <3> QED BY <2>1, <2>2, <3>2, <3>3, <3>4, <3>5, <3>6 DEF Asking, Stage
  <2>3. CASE plane.at \notin {"waiting", "acknowledged"}
    <3>1. plane.at # "probed"
      BY <2>1 DEF Asking, Stage, Quiet
    <3> QED BY <2>1, <2>3, <3>1, AskingElsewhere
  <2> QED BY <2>2, <2>3
<1>18. CASE HalfSecond
  BY <1>18, HalfSecondDoes, AskingElsewhere
<1>19. CASE LoadCore
  BY <1>19, LoadCoreDoes, AskingIdle
<1>20. CASE UNCHANGED hsVars
  BY <1>20 DEF hsVars, wire, Asking, Stage, Quiet, OwnInit, IsTaken
<1> QED BY <1>1, <1>2, <1>3, <1>4, <1>5, <1>6, <1>7, <1>8, <1>9, <1>10, <1>11, <1>12, <1>13, <1>14,
           <1>15, <1>16, <1>17, <1>18, <1>19, <1>20 DEF HsNext, Run
-----------------------------------------------------------------------------
(* A session that lost nothing is held. *)
LEMMA HoldsElsewhere ==
  ASSUME plane'.at \notin Streaming \/ dropped' # 0
  PROVE  Holds'
BY DEF Holds, Stage

LEMMA HoldsStays ==
  ASSUME Holds, plane.at \in Streaming, Same, UNCHANGED <<up, rx, age, dropped>>, polled' = polled
  PROVE  Holds'
BY DEF Holds, Stage, Same, IsTaken, OfSession, OwnInit

LEMMA HoldsAdds ==
  ASSUME HsTyped, Holds, plane.at \in Streaming, Same,
         NEW k \in {"switchres", "header", "payload", "dup", "status"}, Adds(k), age' = 0,
         rx' = rx, dropped' = dropped
  PROVE  Holds'
<1>1. CASE dropped = 0
  <2>1. IsTaken /\ rx.idle <= KeepaliveIdle /\ KeepaliveIdle \in Nat /\ \A i \in DOMAIN up : OfSession(up[i])
    BY <1>1, HandshakeAssumption DEF Holds, Stage
  <2>2. PICK p \in Packets : p.kind = k /\ up' = Append(up, p)
    BY DEF Adds
  <2>3. up' # <<>> /\ \A i \in DOMAIN up' : up'[i] = p \/ (i \in DOMAIN up /\ up'[i] = up[i])
    BY <2>2, UpAppended
  <2>4. OfSession(p)
    BY <2>2 DEF OfSession
  <2>5. \A i \in DOMAIN up' : OfSession(up'[i])
    BY <2>1, <2>3, <2>4
  <2>6. \A i \in DOMAIN up' : OfSession(up[i])'
    BY <2>5 DEF OfSession, OwnInit, Same
  <2>7. IsTaken'
    BY <2>1 DEF IsTaken, Same
  <2> QED BY <2>1, <2>3, <2>6, <2>7 DEF Holds, Stage
<1>2. CASE dropped # 0
  BY <1>2, HoldsElsewhere
<1> QED BY <1>1, <1>2

LEMMA KeepsHolds ==
  ASSUME HsTyped, ProbeLast, Asking, Holds, [HsNext]_hsVars
  PROVE  Holds'
<1>0. /\ up \in Seq(Packets) /\ age \in Nat /\ dropped \in Nat /\ rx.idle \in Nat
      /\ KeepaliveIdle \in Nat \ {0} /\ IdleLimit \in Nat /\ KeepaliveIdle <= IdleLimit
  BY HandshakeAssumption DEF HsTyped, Receivers
<1>1. CASE Probe
  BY <1>1, ProbeDoes, HoldsElsewhere DEF Streaming
<1>2. CASE VersionRead
  <2>1. plane'.at \in {"probing", "probed"}
    BY <1>2, VersionReadDoes
  <2> QED BY <2>1, HoldsElsewhere DEF Streaming
<1>3. CASE ProbeTimesOut
  BY <1>3, ProbeTimesOutDoes, HoldsElsewhere DEF Streaming
<1>4. CASE SendInit
  BY <1>4, SendInitDoes, HoldsElsewhere DEF Streaming
<1>5. CASE AckRead
  <2>1. plane.at = "waiting" /\ UNCHANGED <<up, rx, age, dropped>> /\ polled' = TRUE /\ inbox # <<>>
        /\ (Moves("waiting", "acknowledged") \/ plane' = plane)
    BY <1>5, AckReadDoes
  <2>2. CASE plane' = plane
    BY <2>1, <2>2, HoldsElsewhere DEF Streaming
  <2>3. CASE Moves("waiting", "acknowledged")
    <3>1. IsTaken /\ rx.idle = 0 /\ age = 0 /\ \A i \in DOMAIN up : OwnInit(up[i])
      BY <2>1 DEF Asking, Stage
    <3>2. IsTaken' /\ rx'.idle = 0 /\ age' = 0 /\ \A i \in DOMAIN up' : OwnInit(up[i])'
      BY <2>1, <2>3, <3>1 DEF Moves, Same, IsTaken, OwnInit
    <3>3. \A i \in DOMAIN up' : OfSession(up[i])'
      BY <3>2 DEF OfSession, OwnInit
    <3>4. rx'.idle <= KeepaliveIdle /\ age' <= KeepaliveIdle /\ rx'.idle <= age' /\ age' < KeepaliveIdle
      BY <1>0, <3>2
    <3> QED BY <3>2, <3>3, <3>4 DEF Holds
  <2> QED BY <2>1, <2>2, <2>3
<1>6. CASE GiveUp
  BY <1>6, GiveUpDoes, HoldsElsewhere DEF Streaming, Moves
<1>7. CASE Switchres
  BY <1>7, SwitchresDoes, HoldsAdds DEF Streaming, Moves
<1>8. CASE SendHeader
  BY <1>8, SendHeaderDoes, HoldsAdds DEF Streaming, Moves
<1>9. CASE SendPayload
  BY <1>9, SendPayloadDoes, HoldsAdds DEF Streaming, Moves
<1>10. CASE SendDup
  BY <1>10, SendDupDoes, HoldsAdds DEF Streaming, Same
<1>11. CASE Close
  BY <1>11, CloseDoes, HoldsElsewhere DEF Streaming
<1>12. CASE Return
  BY <1>12, ReturnDoes, HoldsElsewhere DEF Streaming
<1>13. CASE UNCHANGED <<plane, up, rx, age, polled, dropped>>
  <2>1. CASE plane.at \in Streaming
    BY <1>13, <2>1, HoldsStays DEF Same
  <2>2. CASE plane.at \notin Streaming
    BY <1>13, <2>2, HoldsElsewhere
  <2> QED BY <2>1, <2>2
<1>14. CASE Keepalive
  <2>1. /\ polled' = TRUE /\ UNCHANGED <<plane, rx, dropped>>
        /\ IF age >= KeepaliveIdle THEN Adds("status") /\ age' = 0 ELSE up' = up /\ age' = age
    BY <1>14, KeepaliveDoes
  <2>2. CASE plane.at \notin Streaming
    BY <2>1, <2>2, HoldsElsewhere
  <2>3. CASE plane.at \in Streaming /\ age >= KeepaliveIdle
    BY <2>1, <2>3, HoldsAdds DEF Same
  <2>4. CASE plane.at \in Streaming /\ ~(age >= KeepaliveIdle)
    <3>1. age < KeepaliveIdle /\ up' = up /\ age' = age
      BY <1>0, <2>1, <2>4
    <3>2. age' < KeepaliveIdle
      BY <3>1
    <3>3. IsTaken' = IsTaken
      BY <2>1 DEF IsTaken
    <3>4. \A i \in DOMAIN up : OfSession(up[i]) => OfSession(up[i])'
      BY <2>1, <3>1 DEF OfSession, OwnInit
    <3> QED BY <2>1, <2>4, <3>1, <3>2, <3>3, <3>4 DEF Holds, Stage
  <2> QED BY <2>2, <2>3, <2>4
<1>15. CASE Arrives
  <2>1. /\ up # <<>> /\ up' = Tail(up) /\ Head(up) \in Packets /\ rx' = Takes(Head(up))
        /\ UNCHANGED <<plane, age, polled, dropped>>
    BY <1>15, ArrivesDoes
  <2>2. CASE plane.at \notin Streaming \/ dropped # 0
    BY <2>1, <2>2, HoldsElsewhere
  <2>3. CASE plane.at \in Streaming /\ dropped = 0
    <3>1. IsTaken /\ age = 0 /\ rx.idle <= KeepaliveIdle /\ \A i \in DOMAIN up : OfSession(up[i])
      BY <2>1, <2>3 DEF Holds, Stage
    <3>2. Shifted(up, up') /\ 1 \in DOMAIN up /\ Head(up) = up[1]
      BY <2>1, UpShifts
    <3>3. OfSession(Head(up))
      BY <3>1, <3>2
    <3>4. ~Reaped
      BY <1>0, <3>1 DEF Reaped
    <3>5. /\ rx'.idle = 0
          /\ Head(up).kind = "init" => rx'.session = Head(up).session /\ rx'.codec = Head(up).codec
          /\ Head(up).kind # "init" => rx'.codec = rx.codec
          /\ Head(up).kind \notin {"init", "close"} => rx'.session = rx.session
      BY <2>1, <3>4, TakesTyped
    <3>6. IsTaken'
      BY <2>1, <3>1, <3>3, <3>5 DEF IsTaken, OfSession, OwnInit
    <3>7. \A i \in DOMAIN up' : OfSession(up[i])'
      BY <2>1, <3>1, <3>2 DEF OfSession, OwnInit, Shifted
    <3>8. age' = 0 /\ rx'.idle <= KeepaliveIdle /\ age' <= KeepaliveIdle /\ rx'.idle <= age' /\ age' < KeepaliveIdle
      BY <1>0, <2>1, <3>1, <3>5
    <3> QED BY <3>6, <3>7, <3>8 DEF Holds
  <2> QED BY <2>2, <2>3
<1>17. CASE Loses
  <2>1. dropped' # 0
    BY <1>17, LosesDoes
  <2> QED BY <2>1, HoldsElsewhere
<1>18. CASE HalfSecond
  <2>1. /\ plane.at = "session" /\ up = <<>> /\ polled = TRUE /\ polled' = FALSE /\ age' = age + 1
        /\ rx'.idle = rx.idle + 1 /\ rx'.session = rx.session /\ rx'.codec = rx.codec
        /\ UNCHANGED <<plane, up, dropped>>
    BY <1>18, HalfSecondDoes DEF Quiet
  <2>2. CASE dropped # 0
    BY <2>1, <2>2, HoldsElsewhere
  <2>3. CASE dropped = 0
    <3>1. IsTaken /\ rx.idle <= age /\ age < KeepaliveIdle /\ \A i \in DOMAIN up : OfSession(up[i])
      BY <2>1, <2>3 DEF Holds, Stage, Streaming
    <3>2. rx'.idle <= age' /\ age' <= KeepaliveIdle /\ rx'.idle <= KeepaliveIdle
      BY <1>0, <2>1, <3>1
    <3>3. IsTaken' /\ \A i \in DOMAIN up' : OfSession(up[i])'
      BY <2>1, <3>1 DEF IsTaken, OfSession, OwnInit
    <3> QED BY <2>1, <3>2, <3>3 DEF Holds
  <2> QED BY <2>2, <2>3
<1>19. CASE LoadCore
  <2>1. plane'.at = "done"
    BY <1>19, LoadCoreDoes
  <2> QED BY <2>1, HoldsElsewhere DEF Streaming
<1> QED BY <1>1, <1>2, <1>3, <1>4, <1>5, <1>6, <1>7, <1>8, <1>9, <1>10, <1>11, <1>12, <1>13, <1>14,
           <1>15, <1>17, <1>18, <1>19 DEF HsNext, Run, Drain, ReplyArrives, hsVars, wire

-----------------------------------------------------------------------------
(* What the receiver is sent, it can take. *)
Decodable(p) == (p.kind = "dup" => rx.codec = "raw") /\ (p.kind = "init" => p.codec = rx.codec)

LEMMA UnderstoodIs ==
  Understood <=> (dropped = 0 => /\ ~rx.misread
                                 /\ ~Stage({"probed", "waiting"}) => \A i \in DOMAIN up : Decodable(up[i]))
BY DEF Understood, Decodable

LEMMA UnderstoodLost ==
  ASSUME dropped' # 0
  PROVE  Understood'
BY DEF Understood

LEMMA UnderstoodWaits ==
  ASSUME Understood, plane'.at \in {"probed", "waiting"} \/ up' = <<>>, rx'.misread = rx.misread,
         dropped' = dropped
  PROVE  Understood'
BY DEF Understood, Stage

LEMMA UnderstoodStays ==
  ASSUME Understood, up' = up, rx'.misread = rx.misread, rx'.codec = rx.codec, dropped' = dropped,
         plane.at \in {"probed", "waiting"} => plane'.at \in {"probed", "waiting"}
  PROVE  Understood'
BY DEF Understood, Stage

LEMMA UnderstoodSends ==
  ASSUME HsTyped, Understood, plane.at \notin {"probed", "waiting"}, rx' = rx, dropped' = dropped,
         NEW p \in Packets, up' = Append(up, p), p.kind # "init", dropped = 0 /\ p.kind = "dup" => rx.codec = "raw"
  PROVE  Understood'
<1>1. CASE dropped # 0
  BY <1>1, UnderstoodLost
<1>2. CASE dropped = 0
  <2>1. ~rx.misread /\ \A i \in DOMAIN up : Decodable(up[i])
    BY <1>2, UnderstoodIs DEF Stage
  <2>2. Decodable(p)
    BY <1>2 DEF Decodable
  <2>3. \A i \in DOMAIN up' : up'[i] = p \/ (i \in DOMAIN up /\ up'[i] = up[i])
    BY UpAppended
  <2>4. \A i \in DOMAIN up' : Decodable(up'[i])
    BY <2>1, <2>2, <2>3
  <2> QED BY <2>1, <2>4 DEF Understood, Decodable
<1> QED BY <1>1, <1>2

LEMMA UnderstoodAdds ==
  ASSUME HsTyped, Understood, plane.at \notin {"probed", "waiting"}, rx' = rx, dropped' = dropped,
         NEW k \in Kinds \ {"init"}, Adds(k), dropped = 0 /\ k = "dup" => rx.codec = "raw"
  PROVE  Understood'
<1>1. PICK p \in Packets : p.kind = k /\ up' = Append(up, p)
  BY DEF Adds
<1> QED BY <1>1, UnderstoodSends

LEMMA KeepsUnderstood ==
  ASSUME HsTyped, ProbeLast, Asking, Holds, Paired, Understood, [HsNext]_hsVars
  PROVE  Understood'
<1>1. CASE Probe
  <2>1. PICK p \in Packets : p.kind = "version" /\ up' = Append(up, p)
    BY <1>1, ProbeDoes
  <2> QED BY <1>1, <2>1, ProbeDoes, UnderstoodSends
<1>2. CASE VersionRead
  BY <1>2, VersionReadDoes, UnderstoodStays
<1>3. CASE ProbeTimesOut
  BY <1>3, ProbeTimesOutDoes, UnderstoodStays
<1>4. CASE SendInit
  BY <1>4, SendInitDoes, UnderstoodWaits
<1>5. CASE AckRead
  <2>1. plane.at = "waiting" /\ UNCHANGED <<up, rx, dropped>> /\ inbox # <<>>
        /\ (Moves("waiting", "acknowledged") \/ plane' = plane)
    BY <1>5, AckReadDoes
  <2>2. rx.codec = plane.codec /\ \A i \in DOMAIN up : OwnInit(up[i])
    BY <2>1 DEF Asking, Stage, IsTaken
  <2>3. \A i \in DOMAIN up : Decodable(up[i])
    BY <2>2 DEF OwnInit, Decodable
  <2> QED BY <2>1, <2>3 DEF Understood, Decodable
<1>6. CASE GiveUp
  BY <1>6, GiveUpDoes, UnderstoodWaits DEF Quiet
<1>7. CASE Switchres
  BY <1>7, SwitchresDoes, UnderstoodAdds DEF Kinds, Moves
<1>8. CASE SendHeader
  BY <1>8, SendHeaderDoes, UnderstoodAdds DEF Kinds, Moves
<1>9. CASE SendPayload
  BY <1>9, SendPayloadDoes, UnderstoodAdds DEF Kinds, Moves
<1>10. CASE SendDup
  <2>1. plane.at = "session" /\ plane.codec = "raw"
    BY <1>10, SendDupDoes
  <2>2. dropped = 0 => rx.codec = "raw"
    BY <2>1 DEF Holds, Stage, Streaming, IsTaken
  <2> QED BY <1>10, <2>1, <2>2, SendDupDoes, UnderstoodAdds DEF Kinds
<1>11. CASE Close
  <2>1. plane.at \notin {"probed", "waiting"} /\ UNCHANGED <<rx, dropped>> /\ (Adds("close") \/ up' = up)
    BY <1>11, CloseDoes
  <2> QED BY <2>1, UnderstoodAdds, UnderstoodStays DEF Kinds
<1>12. CASE Return
  BY <1>12, ReturnDoes, UnderstoodStays
<1>13. CASE UNCHANGED <<plane, up, rx, dropped>>
  BY <1>13, UnderstoodStays
<1>14. CASE Keepalive
  <2>1. plane.at \notin {"probed", "waiting"} /\ UNCHANGED <<plane, rx, dropped>> /\ (Adds("status") \/ up' = up)
    BY <1>14, KeepaliveDoes
  <2> QED BY <2>1, UnderstoodAdds, UnderstoodStays DEF Kinds
<1>15. CASE Arrives
  <2>1. /\ up # <<>> /\ up' = Tail(up) /\ Head(up) \in Packets /\ rx' = Takes(Head(up))
        /\ UNCHANGED <<plane, dropped>>
    BY <1>15, ArrivesDoes
  <2>2. CASE dropped # 0
    BY <2>1, <2>2, UnderstoodLost
  <2>3. CASE dropped = 0
    <3>1. Shifted(up, up') /\ 1 \in DOMAIN up /\ Head(up) = up[1]
      BY <2>1, UpShifts
    <3>2. ~rx.misread /\ (~Stage({"probed", "waiting"}) => \A i \in DOMAIN up : Decodable(up[i]))
      BY <2>3, UnderstoodIs
    <3>3. Head(up).kind = "dup" => rx.codec = "raw"
      <4>1. CASE plane.at = "probed"
        BY <2>1, <4>1 DEF Asking, Stage, Quiet
      <4>2. CASE plane.at = "waiting"
        BY <3>1, <4>2 DEF Asking, Stage, OwnInit
      <4>3. CASE plane.at \notin {"probed", "waiting"}
        BY <3>1, <3>2, <4>3 DEF Stage, Decodable
      <4> QED BY <4>1, <4>2, <4>3
    <3>4. ~Misreads(Head(up))
      BY <2>1, <3>3 DEF Misreads, Paired
    <3>5. ~rx'.misread
      BY <2>1, <3>2, <3>4, TakesTyped
    <3>6. ASSUME plane.at \notin {"probed", "waiting"}
          PROVE  \A i \in DOMAIN up' : Decodable(up[i])'
      <4>1. \A i \in DOMAIN up : Decodable(up[i])
        BY <3>2, <3>6 DEF Stage
      <4>2. Head(up).kind = "init" => rx'.codec = Head(up).codec
        BY <2>1, TakesTyped
      <4>3. Head(up).kind # "init" => rx'.codec = rx.codec
        BY <2>1, TakesTyped
      <4>4. rx'.codec = rx.codec
        BY <3>1, <4>1, <4>2, <4>3 DEF Decodable
      <4> QED BY <3>1, <4>1, <4>4 DEF Decodable, Shifted
    <3> QED BY <2>1, <3>5, <3>6 DEF Understood, Decodable, Stage
  <2> QED BY <2>2, <2>3
<1>17. CASE Loses
  <2>1. dropped' # 0
    BY <1>17, LosesDoes
  <2> QED BY <2>1, UnderstoodLost
<1>18. CASE HalfSecond
  BY <1>18, HalfSecondDoes, UnderstoodStays
<1>19. CASE LoadCore
  BY <1>19, LoadCoreDoes, UnderstoodWaits DEF Quiet
<1> QED BY <1>1, <1>2, <1>3, <1>4, <1>5, <1>6, <1>7, <1>8, <1>9, <1>10, <1>11, <1>12, <1>13, <1>14,
           <1>15, <1>17, <1>18, <1>19 DEF HsNext, Run, Drain, ReplyArrives, hsVars, wire

-----------------------------------------------------------------------------
LEMMA HsInit_Inv == ASSUME HsInit PROVE HsTyped /\ HsInv
<1>1. PICK c \in Cores : rx = [core |-> c, session |-> 0, codec |-> "raw", reads |-> "command", idle |-> 0, misread |-> FALSE]
  BY DEF HsInit
<1>2. /\ plane = [at |-> "done", n |-> 0, attempt |-> 0, core |-> "unknown", codec |-> "raw"]
      /\ drains = FALSE /\ polled = FALSE /\ up = <<>> /\ down = <<>> /\ inbox = <<>>
      /\ age = KeepaliveIdle /\ dropped = 0
  BY DEF HsInit
<1>3. "raw" \in Names /\ "unknown" \in Names /\ 0 \in Nat
  BY DEF Names
<1>4. plane \in PlaneKinds /\ plane.at = "done"
  BY <1>2, <1>3 DEF PlaneKinds, Stages
<1>5. rx \in Receivers /\ rx.reads = "command" /\ rx.misread = FALSE
  BY <1>1, <1>3 DEF Receivers
<1>6. age \in Nat /\ dropped \in Nat
  BY <1>2, HandshakeAssumption
<1>7. up \in Seq(Packets) /\ down \in Seq(Replies) /\ inbox \in Seq(Replies)
  BY <1>2
<1>8. HsTyped
  BY <1>2, <1>4, <1>5, <1>6, <1>7 DEF HsTyped, Stage
<1>9. ProbeLast /\ Asking /\ Drained /\ Holds /\ Paired /\ Understood
  BY <1>2, <1>4, <1>5 DEF ProbeLast, Asking, Drained, Holds, Paired, Understood, Stage, Streaming
<1> QED BY <1>8, <1>9 DEF HsInv

LEMMA HsInv_Step == ASSUME HsTyped, HsInv, [HsNext]_hsVars PROVE (HsTyped /\ HsInv)'
BY TypedStep, KeepsProbeLast, KeepsAsking, KeepsDrained, KeepsHolds, KeepsPaired, KeepsUnderstood DEF HsInv

LEMMA HsInvAlways == HsSpec => [](HsTyped /\ HsInv)
<1>1. HsInit => HsTyped /\ HsInv
  BY HsInit_Inv
<1>2. HsTyped /\ HsInv /\ [HsNext]_hsVars => (HsTyped /\ HsInv)'
  BY HsInv_Step
<1> QED BY <1>1, <1>2, PTL DEF HsSpec

(* Whatever is lost, whatever the receiver's core and however the user     *)
(* changes it, the ACK that SendInitAwaitACKWithRetry takes answers this   *)
(* session's INIT, a session that streams without loss has the receiver,   *)
(* and only loss makes the handshake fail.                                 *)
THEOREM GenuineHandshake == HsSpec => []HandshakeIsGenuine
<1>1. ASSUME HsTyped, HsInv PROVE HandshakeIsGenuine
  <2>1. AckIsGenuine
    BY <1>1 DEF HsInv, Asking, AckIsGenuine, In, Stage, IsTaken
  <2>2. SessionIsTaken
    BY <1>1 DEF HsInv, Asking, Holds, SessionIsTaken, Stage, Streaming, IsTaken
  <2>3. OnlyLossFails
    BY <1>1 DEF HsInv, Asking, OnlyLossFails, In, Stage
  <2> QED BY <2>1, <2>2, <2>3 DEF HandshakeIsGenuine
<1> QED BY <1>1, HsInvAlways, PTL

(* The receiver of a session that lost nothing never takes a command for a *)
(* payload, nor a payload for a command, is sent no duplicate it cannot    *)
(* show, and is never left so long that it reaps the session.              *)
THEOREM NeverLeftBehind == HsSpec => []ReceiverKeepsUp
<1>1. ASSUME HsTyped, HsInv PROVE ReceiverKeepsUp
  <2>1. NeverMisread
    BY <1>1 DEF HsInv, Understood, NeverMisread
  <2>2. StaysAwake
    <3>1. In("session") /\ dropped = 0 => rx.idle <= KeepaliveIdle
      BY <1>1 DEF HsInv, Holds, In, Stage, Streaming
    <3>2. rx.idle \in Nat /\ KeepaliveIdle \in Nat /\ IdleLimit \in Nat /\ KeepaliveIdle <= IdleLimit
      BY <1>1, HandshakeAssumption DEF HsTyped, Receivers
    <3> QED BY <3>1, <3>2 DEF StaysAwake, Reaped
  <2> QED BY <2>1, <2>2 DEF ReceiverKeepsUp
<1> QED BY <1>1, HsInvAlways, PTL

-----------------------------------------------------------------------------
(* The near-lossless codec. *)

(* A packing that gives back the residuals that can occur, in every line. *)
Lines == [Planes -> [1..Width -> 0..4 * Top]]
PackingIsLossless == \A p \in Packs, us \in Lines : Carried(p, us) = us

Pixels == [r : 0..Top, g : 0..Top, b : 0..Top]

(* The colour transform loses nothing, and its planes have the ranges that *)
(* planeRange gives them: for every depth of a channel.                    *)
LEMMA ColourFits ==
    ASSUME Top \in Nat, NEW p \in Pixels
    PROVE  Co(p) \in -Top..Top /\ Cg(p) \in -Top..Top /\ Y(p) \in 0..Top
BY SMT DEF Pixels, Co, Cg, Y, Mid

LEMMA ColourIsReversible ==
    ASSUME Top \in Nat, NEW p \in Pixels
    PROVE  ToRGB(ToYCoCg(p)) = p
<1>1. /\ Blue(ToYCoCg(p)) = p.b
      /\ Red(ToYCoCg(p)) = p.r
      /\ Green(ToYCoCg(p)) = p.g
  BY SMT DEF Pixels, ToYCoCg, Blue, Red, Green, Co, Cg, Y, Mid
<1>2. p = [r |-> p.r, g |-> p.g, b |-> p.b]
  BY DEF Pixels
<1>3. /\ Clamp(p.b, 0, Top) = p.b /\ Clamp(p.r, 0, Top) = p.r /\ Clamp(p.g, 0, Top) = p.g
  BY DEF Pixels, Clamp
<1> QED BY <1>1, <1>2, <1>3 DEF ToRGB

(* A prediction is within the range of the samples it is made from. *)
LEMMA MedInRange ==
    ASSUME NEW a \in Int, NEW b \in Int, NEW c \in Int, NEW lo \in Int, NEW hi \in Int,
           a \in lo..hi, b \in lo..hi
    PROVE  Med(a, b, c) \in lo..hi
BY SMT DEF Med, Less, More

(* Quantising moves a residual by at most the step, and never away from 0. *)
LEMMA QuantIsNear ==
    ASSUME NEW n \in 0..3, NEW e \in Int
    PROVE  /\ Quant(e, n) \in Int
           /\ e - Dequant(Quant(e, n), n) \in (-n)..n
           /\ \A m \in Nat : e \in (-m)..m => Quant(e, n) \in (-m)..m
<1>0. CASE n = 0 BY <1>0, SMT DEF Quant, Dequant
<1>1. CASE n = 1 BY <1>1, SMT DEF Quant, Dequant
<1>2. CASE n = 2 BY <1>2, SMT DEF Quant, Dequant
<1>3. CASE n = 3 BY <1>3, SMT DEF Quant, Dequant
<1> QED BY <1>0, <1>1, <1>2, <1>3

LEMMA ZigzagInverse ==
    ASSUME NEW v \in Int, NEW m \in Nat, v \in (-m)..m
    PROVE  Zigzag(v) \in 0..2 * m /\ Unzigzag(Zigzag(v)) = v
BY SMT DEF Zigzag, Unzigzag

LEMMA ClampStaysNear ==
    ASSUME NEW n \in Nat, NEW v \in Int, NEW t \in Int, NEW lo \in Int, NEW hi \in Int,
           t \in lo..hi, v - t \in (-n)..n
    PROVE  Clamp(v, lo, hi) \in lo..hi /\ Clamp(v, lo, hi) - t \in (-n)..n
BY SMT DEF Clamp

-----------------------------------------------------------------------------
(* What is known of the rows: samples in the range of their plane, and     *)
(* residuals that any packing has to carry.                                *)
Rows == [Planes -> [1..Width -> Int]]
InRange(rows) == rows \in Rows /\ \A k \in Planes, x \in 1..Width : rows[k][x] \in Low(k)..High(k)

Shape ==
    /\ near \in 0..3 /\ pack \in Packs
    /\ source \in [1..Height -> [1..Width -> Pixels]]
    /\ row \in 1..Height /\ col \in 1..Width + 1
    /\ phase \in {"encode", "decode"}
    /\ InRange(prev) /\ InRange(cur) /\ InRange(above) /\ InRange(line)
    /\ residuals \in Lines

(* A sample that is encoded: what the receiver will make of its residual,  *)
(* and near.                                                               *)
Encoded(x) ==
    \A k \in Planes :
        /\ cur[k][x] = Reconstructed(prev, cur, k, x, residuals[k][x])
        /\ cur[k][x] - Sample(k, x) \in (-near)..near

(* The line above is the same on both sides, and so is what is decoded of  *)
(* this one; the encoder is ahead.                                         *)
InStep ==
    /\ above = prev
    /\ \A x \in 1..Width : phase = "decode" \/ x < col => Encoded(x)
    /\ \A x \in 1..Width, k \in Planes : phase = "decode" /\ x < col => line[k][x] = cur[k][x]

NlcInv == Shape /\ InStep

(* A sample is in the range of its plane. *)
LEMMA SampleInRange ==
    ASSUME NlcAssumption, Shape, NEW k \in Planes, NEW x \in 1..Width
    PROVE  Low(k) \in Int /\ High(k) \in Int /\ Sample(k, x) \in Int /\ Sample(k, x) \in Low(k)..High(k)
<1>1. source[row][x] \in Pixels /\ Top \in Nat
  BY DEF Shape, NlcAssumption
<1>2. /\ Co(source[row][x]) \in -Top..Top /\ Cg(source[row][x]) \in -Top..Top
      /\ Y(source[row][x]) \in 0..Top
  BY <1>1, ColourFits
<1> QED BY <1>1, <1>2 DEF Sample, ToYCoCg, Low, High, Planes

(* A prediction is in range, whatever pixel it is for: the neighbours are. *)
LEMMA PredictedInRange ==
    ASSUME NlcAssumption, row \in 1..Height, NEW before, NEW now, InRange(before), InRange(now),
           NEW k \in Planes, NEW x \in 1..Width
    PROVE  Predicted(before, now, k, x) \in Int /\ Predicted(before, now, k, x) \in Low(k)..High(k)
<1>1. /\ Low(k) \in Int /\ High(k) \in Int /\ 0 \in Low(k)..High(k)
  BY DEF NlcAssumption, Low, High, Planes
<1>2. before[k][x] \in Low(k)..High(k) /\ before[k][x] \in Int
  BY DEF InRange, Rows
<1>3. x > 1 => x - 1 \in 1..Width
  BY DEF NlcAssumption
<1>4. x > 1 => /\ before[k][x - 1] \in Low(k)..High(k) /\ before[k][x - 1] \in Int
               /\ now[k][x - 1] \in Low(k)..High(k) /\ now[k][x - 1] \in Int
  BY <1>3 DEF InRange, Rows
<1>5. Left(before, now, k, x) \in Low(k)..High(k) /\ Left(before, now, k, x) \in Int
  BY <1>1, <1>2, <1>4 DEF Left
<1>6. Over(before, now, k, x) \in Low(k)..High(k) /\ Over(before, now, k, x) \in Int
  BY <1>1, <1>2, <1>5 DEF Over
<1>7. Corner(before, now, k, x) \in Int
  BY <1>4, <1>6 DEF Corner
<1>8. Med(Left(before, now, k, x), Over(before, now, k, x), Corner(before, now, k, x)) \in Low(k)..High(k)
  BY <1>1, <1>5, <1>6, <1>7, MedInRange
<1> QED BY <1>1, <1>8 DEF Predicted

(* Two sides that have the same neighbours reconstruct the same sample.    *)
LEMMA SameNeighbours ==
    ASSUME NlcAssumption, NEW before, NEW one, NEW two, NEW k \in Planes, NEW x \in 1..Width, NEW u,
           x > 1 => one[k][x - 1] = two[k][x - 1]
    PROVE  Reconstructed(before, one, k, x, u) = Reconstructed(before, two, k, x, u)
<1>1. Left(before, one, k, x) = Left(before, two, k, x)
  BY DEF Left
<1>2. Over(before, one, k, x) = Over(before, two, k, x)
  BY <1>1 DEF Over
<1>3. Corner(before, one, k, x) = Corner(before, two, k, x)
  BY <1>2 DEF Corner
<1> QED BY <1>1, <1>2, <1>3 DEF Reconstructed, Predicted

(* What encoding one sample gives. *)
LEMMA OneSample ==
    ASSUME NlcAssumption, Shape, col <= Width, NEW k \in Planes
    PROVE  /\ Residual(k) \in 0..4 * Top
           /\ AsReceived(k, Residual(k)) \in Int
           /\ AsReceived(k, Residual(k)) \in Low(k)..High(k)
           /\ AsReceived(k, Residual(k)) - Sample(k, col) \in (-near)..near
<1> DEFINE pred == Predicted(prev, cur, k, col)
           t    == Sample(k, col)
           e    == t - pred
           q    == Quant(e, near)
<1>0. col \in 1..Width /\ near \in 0..3 /\ near \in Nat /\ Top \in Nat
  BY DEF Shape, NlcAssumption
<1>1. pred \in Int /\ pred \in Low(k)..High(k)
  BY <1>0, PredictedInRange DEF Shape
<1>2. Low(k) \in Int /\ High(k) \in Int /\ t \in Int /\ t \in Low(k)..High(k)
  BY <1>0, SampleInRange
<1>3. e \in Int /\ e \in (-(2 * Top))..2 * Top /\ 2 * Top \in Nat
  BY <1>0, <1>1, <1>2 DEF Low, High
<1> HIDE DEF pred, t, e, q
<1>4. q \in Int /\ e - Dequant(q, near) \in (-near)..near /\ q \in (-(2 * Top))..2 * Top
  BY <1>0, <1>3, QuantIsNear DEF q
<1>5. Zigzag(q) \in 0..2 * (2 * Top) /\ Unzigzag(Zigzag(q)) = q
  BY <1>3, <1>4, ZigzagInverse
<1>6. Residual(k) = Zigzag(q)
  BY DEF Residual, q, e, t, pred
<1>7. AsReceived(k, Residual(k)) = Clamp(pred + Dequant(q, near), Low(k), High(k))
  BY <1>5, <1>6 DEF AsReceived, Reconstructed, pred
<1>8. Dequant(q, near) \in Int
  <2>1. Dequant(q, near) = q * (2 * near + 1)
    BY DEF Dequant
  <2> QED BY <2>1, <1>0, <1>4
<1>9. pred + Dequant(q, near) \in Int /\ (pred + Dequant(q, near)) - t \in (-near)..near
  BY <1>0, <1>1, <1>2, <1>4, <1>8 DEF e
<1>10. /\ Clamp(pred + Dequant(q, near), Low(k), High(k)) \in Low(k)..High(k)
       /\ Clamp(pred + Dequant(q, near), Low(k), High(k)) - t \in (-near)..near
  BY <1>0, <1>2, <1>9, ClampStaysNear
<1>11. Residual(k) \in 0..4 * Top
  BY <1>0, <1>5, <1>6
<1> QED BY <1>2, <1>7, <1>10, <1>11 DEF t

-----------------------------------------------------------------------------
LEMMA NlcInvInit == ASSUME NlcAssumption PROVE NlcInit => NlcInv
<1> SUFFICES ASSUME NlcInit PROVE NlcInv
  OBVIOUS
<1> USE DEF NlcInit, NlcAssumption
<1>1. InRange(BlankLine)
  BY DEF InRange, Rows, BlankLine, Low, High, Planes
<1>2. BlankLine \in Lines
  BY DEF BlankLine, Lines
<1>3. source \in [1..Height -> [1..Width -> Pixels]]
  BY DEF Pixels
<1>4. Shape
  BY <1>1, <1>2, <1>3 DEF Shape
<1> QED BY <1>4 DEF NlcInv, InStep

(* Encoding a pixel leaves the ones before it as they are. *)
LEMMA EncodeKeeps ==
    ASSUME NlcAssumption, NlcInv, EncodePixel
    PROVE  NlcInv'
<1> USE DEF EncodePixel
<1>1. col \in 1..Width /\ col' \in 1..Width + 1
  BY DEF NlcInv, Shape, NlcAssumption
<1>2. \A k \in Planes :
        /\ Residual(k) \in 0..4 * Top
        /\ AsReceived(k, Residual(k)) \in Int
        /\ AsReceived(k, Residual(k)) \in Low(k)..High(k)
        /\ AsReceived(k, Residual(k)) - Sample(k, col) \in (-near)..near
  BY <1>1, OneSample DEF NlcInv
<1>3. residuals' \in Lines
  BY <1>1, <1>2 DEF NlcInv, Shape, Lines
<1>4. cur' \in Rows
  BY <1>1, <1>2 DEF NlcInv, Shape, InRange, Rows
<1>5. ASSUME NEW k \in Planes, NEW x \in 1..Width
      PROVE  cur'[k][x] = IF x = col THEN AsReceived(k, Residual(k)) ELSE cur[k][x]
  BY <1>1 DEF NlcInv, Shape, InRange, Rows
<1>6. InRange(cur')
  BY <1>2, <1>4, <1>5 DEF NlcInv, Shape, InRange
<1>7. Shape'
  BY <1>1, <1>3, <1>6 DEF NlcInv, Shape, InRange, Rows
<1>8. ASSUME NEW x \in 1..Width, x < col', NEW k \in Planes
      PROVE  /\ cur'[k][x] = Reconstructed(prev, cur', k, x, residuals'[k][x])
             /\ cur'[k][x] - Sample(k, x) \in (-near)..near
  <2>0. Width \in Nat
    BY DEF NlcAssumption
  <2>1. x > 1 => x - 1 \in 1..Width /\ x - 1 # col
    BY <1>1, <1>8, <2>0
  <2>2. x > 1 => cur'[k][x - 1] = cur[k][x - 1]
    BY <1>5, <2>1
  <2>3. Reconstructed(prev, cur', k, x, residuals'[k][x]) = Reconstructed(prev, cur, k, x, residuals'[k][x])
    BY <2>2 DEF Reconstructed, Predicted, Left, Over, Corner
  <2>4. CASE x = col
    <3>1. residuals'[k][x] = Residual(k)
      BY <1>1, <2>4 DEF NlcInv, Shape, Lines
    <3> QED BY <1>2, <1>5, <2>3, <2>4, <3>1 DEF AsReceived
  <2>5. CASE x < col
    <3>1. residuals'[k][x] = residuals[k][x] /\ cur'[k][x] = cur[k][x]
      BY <1>1, <1>5, <2>5 DEF NlcInv, Shape, Lines
    <3>2. cur[k][x] = Reconstructed(prev, cur, k, x, residuals[k][x]) /\ cur[k][x] - Sample(k, x) \in (-near)..near
      BY <2>5 DEF NlcInv, InStep, Encoded
    <3> QED BY <2>3, <3>1, <3>2
  <2>6. x = col \/ x < col
    <3>1. col' = col + 1
      OBVIOUS
    <3> HIDE DEF EncodePixel
    <3> QED BY <1>1, <1>8, <2>0, <3>1
  <2> QED BY <2>4, <2>5, <2>6
<1>9. InStep'
  <2>1. phase' = "encode" /\ above' = prev'
    BY DEF NlcInv, InStep
  <2>2. \A x \in 1..Width : x < col' => Encoded(x)'
    BY <1>8 DEF Encoded, Sample, Reconstructed, Predicted, Left, Over, Corner
  <2> QED BY <2>1, <2>2 DEF InStep
<1> QED BY <1>7, <1>9 DEF NlcInv

LEMMA CarryKeeps ==
    ASSUME NlcAssumption, PackingIsLossless, NlcInv, CarryLine
    PROVE  NlcInv'
<1> USE DEF CarryLine
<1>1. residuals' = residuals
  BY DEF PackingIsLossless, NlcInv, Shape
<1>2. phase' = "decode"
  BY <1>1 DEF NlcInv, Shape, Lines
<1>3. Shape'
  BY <1>1, <1>2 DEF NlcInv, Shape, InRange, Rows, NlcAssumption
<1>4. \A x \in 1..Width : Encoded(x)
  BY DEF NlcInv, InStep, Shape, NlcAssumption
<1>5. \A x \in 1..Width : Encoded(x)'
  BY <1>1, <1>4 DEF Encoded, Sample, Reconstructed, Predicted, Left, Over, Corner
<1>6. InStep'
  BY <1>5 DEF InStep, NlcInv
<1> QED BY <1>3, <1>6 DEF NlcInv

LEMMA DecodeKeeps ==
    ASSUME NlcAssumption, NlcInv, DecodePixel
    PROVE  NlcInv'
<1> USE DEF DecodePixel
<1>1. col \in 1..Width /\ col' \in 1..Width + 1
  BY DEF NlcInv, Shape, NlcAssumption
<1>2. ASSUME NEW k \in Planes
      PROVE  Reconstructed(above, line, k, col, residuals[k][col]) = cur[k][col]
  <2>0. col > 1 => col - 1 \in 1..Width
    BY <1>1 DEF NlcAssumption
  <2>1. col > 1 => line[k][col - 1] = cur[k][col - 1]
    BY <1>1, <2>0 DEF NlcInv, InStep
  <2>2. Reconstructed(above, line, k, col, residuals[k][col])
          = Reconstructed(above, cur, k, col, residuals[k][col])
    BY <1>1, <2>1, SameNeighbours
  <2> QED BY <1>1, <2>2 DEF NlcInv, InStep, Encoded
<1>3. line' \in Rows
  BY <1>1, <1>2 DEF NlcInv, Shape, InRange, Rows
<1>4. ASSUME NEW k \in Planes, NEW x \in 1..Width
      PROVE  line'[k][x] = IF x = col THEN cur[k][x] ELSE line[k][x]
  BY <1>1, <1>2 DEF NlcInv, Shape, InRange, Rows
<1>5. InRange(line')
  BY <1>3, <1>4 DEF NlcInv, Shape, InRange
<1>6. Shape'
  BY <1>1, <1>5 DEF NlcInv, Shape, InRange, Rows
<1>7. \A x \in 1..Width : Encoded(x)'
  BY DEF NlcInv, InStep, Encoded, Sample, Reconstructed, Predicted, Left, Over, Corner
<1>8. \A x \in 1..Width, k \in Planes : x < col' => line'[k][x] = cur'[k][x]
  BY <1>1, <1>4 DEF NlcInv, InStep
<1> QED BY <1>6, <1>7, <1>8 DEF NlcInv, InStep

(* Rows that agree in every sample are the same. *)
LEMMA SameRows ==
    ASSUME NEW f \in Rows, NEW g \in Rows, \A k \in Planes, x \in 1..Width : f[k][x] = g[k][x]
    PROVE  f = g
<1>1. ASSUME NEW k \in Planes PROVE f[k] = g[k]
  <2>1. f[k] \in [1..Width -> Int] /\ g[k] \in [1..Width -> Int]
    BY DEF Rows
  <2>2. f[k] = [x \in 1..Width |-> f[k][x]] /\ g[k] = [x \in 1..Width |-> g[k][x]]
    BY <2>1
  <2>3. [x \in 1..Width |-> f[k][x]] = [x \in 1..Width |-> g[k][x]]
    OBVIOUS
  <2> QED BY <2>2, <2>3
<1>2. f = [k \in Planes |-> f[k]] /\ g = [k \in Planes |-> g[k]]
  BY DEF Rows
<1> QED BY <1>1, <1>2

LEMMA NextLineKeeps ==
    ASSUME NlcAssumption, NlcInv, NextLine
    PROVE  NlcInv'
<1> USE DEF NextLine
<1>1. line \in Rows /\ cur \in Rows /\ \A k \in Planes, x \in 1..Width : line[k][x] = cur[k][x]
  BY DEF NlcInv, InStep, Shape, InRange, NlcAssumption
<1>2. line = cur
  BY <1>1, SameRows
<1>3. Shape'
  BY DEF NlcInv, Shape, InRange, Rows, NlcAssumption
<1>4. InStep'
  BY <1>2 DEF InStep
<1> QED BY <1>3, <1>4 DEF NlcInv

LEMMA NlcInvStep ==
    ASSUME NlcAssumption, PackingIsLossless
    PROVE  NlcInv /\ [NlcNext]_nlcVars => NlcInv'
<1> SUFFICES ASSUME NlcInv, [NlcNext]_nlcVars PROVE NlcInv'
  OBVIOUS
<1>1. CASE EncodePixel BY <1>1, EncodeKeeps
<1>2. CASE CarryLine   BY <1>2, CarryKeeps
<1>3. CASE DecodePixel BY <1>3, DecodeKeeps
<1>4. CASE NextLine    BY <1>4, NextLineKeeps
<1>5. CASE UNCHANGED nlcVars
  <2>1. /\ near' = near /\ pack' = pack /\ source' = source /\ row' = row /\ col' = col
        /\ phase' = phase /\ prev' = prev /\ cur' = cur /\ residuals' = residuals
        /\ above' = above /\ line' = line
    BY <1>5 DEF nlcVars
  <2>2. Shape'
    BY <2>1 DEF NlcInv, Shape, InRange, Rows
  <2>3. \A x \in 1..Width : Encoded(x)' = Encoded(x)
    BY <2>1 DEF Encoded, Sample, Reconstructed, Predicted, Left, Over, Corner
  <2>4. InStep'
    BY <2>1, <2>3 DEF NlcInv, InStep
  <2> QED BY <2>2, <2>4 DEF NlcInv
<1> QED BY <1>1, <1>2, <1>3, <1>4, <1>5 DEF NlcNext

(* The invariant is enough. *)
LEMMA InvSuffices ==
    ASSUME NlcAssumption
    PROVE  NlcInv => PictureSurvives
<1> SUFFICES ASSUME NlcInv PROVE PictureSurvives
  OBVIOUS
<1>1. phase # "corrupt"
  BY DEF NlcInv, Shape
<1>2. WithinNear
  BY DEF WithinNear, Decoded, NlcInv, InStep, Encoded
<1>3. LosslessIsExact
  <2> SUFFICES ASSUME near = 0, NEW x \in 1..Width, Decoded(x)
               PROVE  ToRGB([k \in Planes |-> line[k][x]]) = source[row][x]
    BY DEF LosslessIsExact
  <2>1. source[row][x] \in Pixels /\ Top \in Nat
    BY DEF NlcInv, Shape, NlcAssumption
  <2>2. \A k \in Planes : line[k][x] = Sample(k, x)
    <3> TAKE k \in Planes
    <3>1. line[k][x] - Sample(k, x) = 0
      BY <1>2, SampleInRange DEF WithinNear
    <3>2. line[k][x] \in Int /\ Sample(k, x) \in Int
      BY SampleInRange DEF NlcInv, Shape, InRange, Rows
    <3> QED BY <3>1, <3>2
  <2>3. [k \in Planes |-> line[k][x]] = ToYCoCg(source[row][x])
    BY <2>2 DEF Sample, ToYCoCg, Planes
  <2> QED BY <2>1, <2>3, ColourIsReversible
<1> QED BY <1>1, <1>2, <1>3 DEF PictureSurvives

(* Every field that is decoded is the field that was encoded: within near  *)
(* in every sample of every plane, exactly when near is 0 - for every      *)
(* size, every picture and every packing that gives back what it was given.*)
THEOREM PictureIsNear ==
    ASSUME NlcAssumption, PackingIsLossless
    PROVE  NlcSpec => []PictureSurvives
<1>1. NlcInit => NlcInv
  BY NlcInvInit
<1>2. NlcInv /\ [NlcNext]_nlcVars => NlcInv'
  BY NlcInvStep
<1>3. NlcInv => PictureSurvives
  BY InvSuffices
<1> QED BY <1>1, <1>2, <1>3, PTL DEF NlcSpec

=============================================================================
