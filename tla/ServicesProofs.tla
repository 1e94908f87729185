---------------------------- MODULE ServicesProofs ----------------------------
(***************************************************************************)
(* Proofs about what serves the adapters: the line inputs, for any number  *)
(* of starts, inputs and settings, the renderer's events, for any number   *)
(* of control points and changes and any limits, and the torrents, for any *)
(* number of starts.                                                       *)
(***************************************************************************)
EXTENDS AuxInput, DlnaEvents, TorrentLease, SequenceTheorems, FiniteSetTheorems, Integers, TLAPS

(* The refs of the other sessions are no inputs. *)
InputsAreNamed == "" \notin Inputs /\ "other" \notin Inputs

Started(n) == [ref : Inputs, gen : 1..n]
Asked      == {"core", "probed", "rollback"}
Replacing  == {"core", "probed", "replaced"}
Among(set) == op.at \in set

AuxShape ==
    /\ lastGen \in Nat /\ input \in Inputs
    /\ Among({"free", "build", "clear", "stop"} \cup Asked \cup Replacing)
    /\ Among(Asked \cup Replacing) =>
          op.prev \in {NoGen} \cup Started(lastGen) /\ op.ref \in Inputs /\ lastGen # 0
    /\ Among(Replacing) => op = [at |-> op.at, prev |-> op.prev, ref |-> op.ref]
    /\ Among({"clear", "stop"}) => op.was \in Started(lastGen)
    /\ active \in {NoGen} \cup Started(lastGen)
    /\ slot \in {NoGen, OtherCast} \cup Started(lastGen)
    /\ hooks \subseteq [gen : 1..lastGen, ref : Inputs, said : BOOLEAN]
    /\ stopped \subseteq 1..lastGen
    /\ tokens \subseteq [gen : 1..lastGen, kind : {"probe", "play"}]

(* A session of which the adapter may know: it plays, or its OnStop comes. *)
IsTold(x) == \E h \in hooks : h.gen = x.gen /\ h.ref = x.ref
Known(x)  == x = NoGen \/ slot = x \/ IsTold(x)

(* The session that plays has not been told that it is over, and whoever   *)
(* has said so set the flag first.                                         *)
HooksKept ==
    /\ \A h \in hooks : h.gen # slot.gen /\ (h.said => h.gen \in stopped)
    /\ slot.gen \notin stopped

(* Until the manager has taken it, a start is the adapter's session, but   *)
(* not the manager's; the one before, if it plays, has another input.      *)
StartKept ==
    /\ Among(Asked) =>
          /\ active = Mine /\ slot.gen # lastGen /\ lastGen \notin stopped
          /\ \A h \in hooks : h.gen # lastGen
          /\ Known(op.prev) \/ op.prev.gen \in stopped
          /\ slot.gen > 0 => slot = op.prev /\ slot.ref # op.ref
    /\ Among(Asked \cup Replacing) => op.prev.gen # lastGen
    /\ Held("rollback") /\ slot.gen > 0 => op.seen = slot.ref
    /\ Held("build") /\ slot.gen > 0 => slot.ref # input

(* Otherwise the adapter's session is the one that plays, or is over.      *)
ActiveKept ==
    /\ ~Among(Asked) => Known(active)
    /\ Among({"free", "build", "replaced", "clear"}) /\ slot.gen > 0 => slot = active
    /\ Held("replaced") => active \in {NoGen, Mine}
    /\ Held("clear") => active \in {NoGen, op.was} /\ slot.gen = 0
    /\ Held("stop") => active = NoGen /\ (slot.gen > 0 => slot = op.was)

(* A token belongs to the adapter's session, to the manager's, or to one   *)
(* whose end somebody is about to deal with.                               *)
TokensKept ==
    \A t \in tokens :
        \/ t.gen \in {slot.gen, active.gen}
        \/ \E h \in hooks : h.gen = t.gen
        \/ Among(Asked \cup Replacing) /\ t.gen = op.prev.gen

AuxInv == AuxShape /\ HooksKept /\ StartKept /\ ActiveKept /\ TokensKept

-----------------------------------------------------------------------------
LEMMA AuxStarts == AuxInit => AuxInv
<1> SUFFICES ASSUME AuxInit PROVE AuxInv
  OBVIOUS
<1> USE DEF AuxInit, Free, NoGen
<1>1. AuxShape
  BY DEF AuxShape, Among, Asked, Replacing
<1>2. HooksKept /\ StartKept /\ ActiveKept /\ TokensKept
  BY DEF HooksKept, StartKept, ActiveKept, TokensKept, Among, Asked, Replacing, Held, Known
<1> QED BY <1>1, <1>2 DEF AuxInv

(* What the manager lets go of is told. *)
LEMMA ToldShape ==
  ASSUME InputsAreNamed, AuxShape, HooksKept
  PROVE  /\ Told \subseteq [gen : 1..lastGen, ref : Inputs, said : BOOLEAN]
         /\ hooks \subseteq Told
         /\ slot.gen > 0 => \E h \in Told : h.gen = slot.gen /\ h.ref = slot.ref
         /\ \A h \in Told : /\ h.said => h.gen \in stopped
                            /\ h \in hooks \/ (h.gen = slot.gen /\ slot.gen > 0)
<1>0. /\ lastGen \in Nat /\ slot \in {NoGen, OtherCast} \cup Started(lastGen)
      /\ hooks \subseteq [gen : 1..lastGen, ref : Inputs, said : BOOLEAN]
      /\ \A h \in hooks : h.said => h.gen \in stopped
  BY DEF AuxShape, HooksKept
<1>1. slot.gen = 0 \/ (slot \in Started(lastGen) /\ slot.gen \in 1..lastGen /\ slot.ref \in Inputs)
  <2>1. NoGen.gen = 0 /\ OtherCast.gen = 0
    BY DEF NoGen, OtherCast
  <2>2. ASSUME slot \in Started(lastGen) PROVE slot.gen \in 1..lastGen /\ slot.ref \in Inputs
    BY <2>2 DEF Started
  <2> QED BY <1>0, <2>1, <2>2
<1>2. CASE slot.gen = 0
  <2>1. Told = hooks
    BY <1>2 DEF Told
  <2> QED BY <1>0, <1>2, <2>1
<1>3. CASE slot.gen # 0
  <2>1. slot.gen \in 1..lastGen /\ slot.ref \in Inputs /\ slot.gen > 0
    BY <1>0, <1>1, <1>3
  <2> DEFINE new == [gen |-> slot.gen, ref |-> slot.ref, said |-> FALSE]
  <2>2. Told = hooks \cup {new}
    BY <1>3 DEF Told
  <2>3. new \in [gen : 1..lastGen, ref : Inputs, said : BOOLEAN]
    BY <2>1
  <2>4. new.gen = slot.gen /\ new.ref = slot.ref /\ new.said = FALSE
    OBVIOUS
  <2> HIDE DEF new
  <2> QED BY <1>0, <2>1, <2>2, <2>3, <2>4
<1> QED BY <1>2, <1>3

LEMMA MoreStarted ==
  ASSUME NEW n \in Nat
  PROVE  /\ Started(n) \subseteq Started(n + 1)
         /\ [gen : 1..n, ref : Inputs, said : BOOLEAN] \subseteq [gen : 1..(n + 1), ref : Inputs, said : BOOLEAN]
         /\ [gen : 1..n, kind : {"probe", "play"}] \subseteq [gen : 1..(n + 1), kind : {"probe", "play"}]
         /\ 1..n \subseteq 1..(n + 1)
BY DEF Started


LEMMA Basics ==
  ASSUME InputsAreNamed, AuxShape
  PROVE  /\ NoGen.gen = 0 /\ NoGen.ref = "" /\ OtherCast.gen = 0 /\ OtherCast.ref = "other"
         /\ \A x \in Started(lastGen) :
               /\ x = [ref |-> x.ref, gen |-> x.gen] /\ x.gen \in 1..lastGen /\ x.ref \in Inputs
               /\ x.ref \notin {"", "other"} /\ x.gen # 0
         /\ active.gen \in 0..lastGen /\ slot.gen \in 0..lastGen /\ lastGen \in Nat
         /\ active.gen = 0 => active = NoGen
         /\ active.gen # 0 => active \in Started(lastGen)
         /\ slot.gen # 0 => slot \in Started(lastGen)
<1>1. NoGen.gen = 0 /\ NoGen.ref = "" /\ OtherCast.gen = 0 /\ OtherCast.ref = "other"
  BY DEF NoGen, OtherCast
<1>2. lastGen \in Nat /\ active \in {NoGen} \cup Started(lastGen)
      /\ slot \in {NoGen, OtherCast} \cup Started(lastGen)
  BY DEF AuxShape
<1>3. ASSUME NEW x \in Started(lastGen)
      PROVE  /\ x = [ref |-> x.ref, gen |-> x.gen] /\ x.gen \in 1..lastGen /\ x.ref \in Inputs
             /\ x.ref \notin {"", "other"} /\ x.gen # 0
  <2>1. x = [ref |-> x.ref, gen |-> x.gen]
    BY DEF Started
  <2>2. x.gen \in 1..lastGen /\ x.ref \in Inputs
    BY DEF Started
  <2>3. x.ref \notin {"", "other"}
    BY <2>2 DEF InputsAreNamed
  <2>4. x.gen # 0
    BY <1>2, <2>2
  <2> QED BY <2>1, <2>2, <2>3, <2>4
<1>4. ASSUME NEW x \in Started(lastGen) PROVE x.gen \in 0..lastGen
  BY <1>2 DEF Started
<1>5. NoGen.gen \in 0..lastGen /\ OtherCast.gen \in 0..lastGen
  <2>1. 0 \in 0..lastGen
    BY <1>2
  <2> QED BY <1>1, <2>1
<1>6. active.gen \in 0..lastGen /\ slot.gen \in 0..lastGen
  BY <1>2, <1>4, <1>5
<1> QED BY <1>1, <1>2, <1>3, <1>6

(* The same without the records: what arithmetic needs. *)
LEMMA Numbers ==
  ASSUME InputsAreNamed, AuxShape
  PROVE  /\ NoGen.gen = 0 /\ OtherCast.gen = 0
         /\ active.gen \in Nat /\ slot.gen \in Nat /\ lastGen \in Nat
         /\ active.gen <= lastGen /\ slot.gen <= lastGen
         /\ active.gen = 0 => active = NoGen
         /\ active.gen # 0 => active \in Started(lastGen)
         /\ slot.gen > 0 => slot.ref # ""
         /\ \A x \in Started(lastGen) : x.gen \in Nat /\ x.gen # 0 /\ x.gen \in 1..lastGen
<1> DEFINE S == Started(lastGen)
<1>1. /\ NoGen.gen = 0 /\ OtherCast.gen = 0
      /\ active.gen \in 0..lastGen /\ slot.gen \in 0..lastGen /\ lastGen \in Nat
      /\ active.gen = 0 => active = NoGen
      /\ active.gen # 0 => active \in S
      /\ slot.gen # 0 => slot \in S
  BY Basics
<1>2. \A x \in S : x.gen \in 1..lastGen
  BY Basics
<1>3. \A x \in S : x.ref # ""
  BY Basics
<1> HIDE DEF S
<1>4. \A x \in S : x.gen \in Nat /\ x.gen # 0
  BY <1>1, <1>2
<1>5. ASSUME slot.gen > 0 PROVE slot.ref # ""
  <2>1. slot.gen # 0
    BY <1>5
  <2> QED BY <1>1, <1>3, <2>1
<1>6. active.gen \in Nat /\ slot.gen \in Nat /\ active.gen <= lastGen /\ slot.gen <= lastGen
  BY <1>1
<1> QED BY <1>1, <1>2, <1>4, <1>5, <1>6 DEF S

(* The kinds of steps: what stays. *)
LEMMA ShapeStep == InputsAreNamed /\ AuxShape /\ HooksKept /\ [AuxNext]_auxVars => AuxShape'
<1> SUFFICES ASSUME InputsAreNamed, AuxShape, HooksKept, [AuxNext]_auxVars PROVE AuxShape'
  OBVIOUS
<1> USE DEF Among, Asked, Replacing, Held
<1>1. CASE BeginAux
  BY <1>1 DEF BeginAux, AuxShape, Free
<1>2. CASE Build
  <2>1. CASE ~auxOn
    BY <1>2, <2>1 DEF Build, AuxShape, Free
  <2>2. CASE auxOn
    <3>1. /\ lastGen' = lastGen + 1 /\ lastGen \in Nat
          /\ tokens' = tokens \cup Pair(lastGen + 1)
          /\ op' = [at |-> "core", prev |-> active, ref |-> input]
          /\ active' = [ref |-> input, gen |-> lastGen + 1]
          /\ input' = input /\ stopped' = stopped /\ slot' = slot /\ hooks' = hooks
      BY <1>2, <2>2 DEF Build, AuxShape
    <3>2. active' \in Started(lastGen')
      BY <3>1 DEF Started, AuxShape
    <3>3. Pair(lastGen + 1) \subseteq [gen : 1..(lastGen + 1), kind : {"probe", "play"}]
      BY <3>1 DEF Pair, Probe, PlayT
    <3> QED BY <3>1, <3>2, <3>3, MoreStarted DEF AuxShape
  <2> QED BY <2>1, <2>2
<1>3. CASE ProbeStream
  BY <1>3 DEF ProbeStream, AuxShape
<1>4. CASE CoreTakes
  <2>1. Mine \in Started(lastGen)
    BY <1>4 DEF CoreTakes, AuxShape, Mine, Started
  <2> QED BY <1>4, <2>1, ToldShape DEF CoreTakes, AuxShape
<1>5. CASE CoreRefuses
  <2>1. slot' \in {slot, NoGen} /\ hooks' \in {hooks, Told}
    BY <1>5 DEF CoreRefuses
  <2> QED BY <1>5, <2>1, ToldShape DEF CoreRefuses, AuxShape
<1>6. CASE ReadsStream
  BY <1>6 DEF ReadsStream, AuxShape
<1>7. CASE Replaced
  BY <1>7 DEF Replaced, AuxShape, Free
<1>8. CASE Rollback
  <2>1. active' \in {active, op.prev, NoGen} /\ tokens' \subseteq tokens
    BY <1>8 DEF Rollback
  <2> QED BY <1>8, <2>1 DEF Rollback, AuxShape, Free
<1>9. CASE StopAux
  <2>1. slot' \in {slot, NoGen} /\ hooks' \in {hooks, Told}
    BY <1>9 DEF StopAux
  <2> QED BY <1>9, <2>1, ToldShape DEF StopAux, AuxShape
<1>10. CASE ClearAux
  <2>1. active' \in {active, NoGen} /\ tokens' \subseteq tokens
    BY <1>10 DEF ClearAux
  <2> QED BY <1>10, <2>1 DEF ClearAux, AuxShape, Free
<1>11. CASE StopAdapter
  BY <1>11 DEF StopAdapter, AuxShape
<1>12. CASE StopsCore
  <2>1. slot' \in {slot, NoGen} /\ hooks' \in {hooks, Told}
    BY <1>12 DEF StopsCore
  <2> QED BY <1>12, <2>1, ToldShape DEF StopsCore, AuxShape, Free
<1>13. CASE EndAux
  BY <1>13, ToldShape DEF EndAux, AuxShape
<1>14. CASE SetInput
  BY <1>14 DEF SetInput, AuxShape
<1>15. ASSUME NEW h \in hooks, SaysStopped(h) PROVE AuxShape'
  <2>1. h.gen \in 1..lastGen /\ [h EXCEPT !.said = TRUE] \in [gen : 1..lastGen, ref : Inputs, said : BOOLEAN]
    BY DEF AuxShape
  <2> QED BY <1>15, <2>1 DEF SaysStopped, AuxShape
<1>16. ASSUME NEW h \in hooks, OnStop(h) PROVE AuxShape'
  <2>1. active' \in {active, NoGen} /\ tokens' \subseteq tokens /\ hooks' \subseteq hooks
    BY <1>16 DEF OnStop
  <2> QED BY <1>16, <2>1 DEF OnStop, AuxShape
<1>17. CASE UNCHANGED auxVars
  BY <1>17 DEF auxVars, AuxShape
<1> QED BY <1>1, <1>2, <1>3, <1>4, <1>5, <1>6, <1>7, <1>8, <1>9, <1>10, <1>11, <1>12, <1>13, <1>14,
           <1>15, <1>16, <1>17 DEF AuxNext

-----------------------------------------------------------------------------
Kept == HooksKept /\ StartKept /\ ActiveKept /\ TokensKept

(* The manager lets go of its session, or has none: whatever is known      *)
(* stays known, and every token belongs to somebody.                       *)
LEMMA LetsGo ==
  ASSUME InputsAreNamed, AuxShape, HooksKept, hooks' = Told, slot'.gen = 0, stopped' = stopped
  PROVE  /\ HooksKept'
         /\ \A x \in {NoGen} \cup Started(lastGen) : Known(x) => Known(x)'
         /\ slot.gen > 0 => \E h \in hooks' : h.gen = slot.gen
         /\ \A h \in hooks : h \in hooks'
         /\ \A h \in hooks' : h \in hooks \/ (h.gen = slot.gen /\ slot.gen > 0)
<1>1. /\ \A h \in hooks : h \in hooks'
      /\ slot.gen > 0 => \E h \in hooks' : h.gen = slot.gen /\ h.ref = slot.ref
      /\ \A h \in hooks' : /\ h.said => h.gen \in stopped
                           /\ h \in hooks \/ (h.gen = slot.gen /\ slot.gen > 0)
  BY ToldShape
<1>2. \A h \in hooks' : h.gen # 0
  BY <1>1 DEF AuxShape
<1>3. 0 \notin stopped
  BY DEF AuxShape
<1>4. HooksKept'
  BY <1>1, <1>2, <1>3 DEF HooksKept
<1>5. ASSUME NEW x \in {NoGen} \cup Started(lastGen), Known(x) PROVE Known(x)'
  <2>1. CASE slot = x
    <3>1. x = NoGen \/ x.gen > 0
      <4>1. CASE x \in Started(lastGen)
        <5>1. x.gen \in Nat /\ x.gen # 0
          BY <4>1, Numbers
        <5> QED BY <5>1
      <4> QED BY <4>1
    <3> QED BY <1>1, <2>1, <3>1 DEF Known, IsTold
  <2> QED BY <1>1, <1>5, <2>1 DEF Known, IsTold
<1> QED BY <1>1, <1>4, <1>5

LEMMA Unpaired ==
  ASSUME AuxShape, NEW g
  PROVE  \A t \in tokens \ Pair(g) : t \in tokens /\ t.gen # g
BY DEF Pair, Probe, PlayT, AuxShape

LEMMA KeptStep ==
  ASSUME InputsAreNamed, AuxShape, AuxShape', Kept, [AuxNext]_auxVars
  PROVE  Kept'
<1> USE DEF Kept, Among, Asked, Replacing, Held
<1>0. /\ NoGen.gen = 0 /\ OtherCast.gen = 0
      /\ active.gen \in Nat /\ slot.gen \in Nat /\ lastGen \in Nat
      /\ active.gen = 0 => active = NoGen
      /\ active.gen # 0 => active \in Started(lastGen)
      /\ \A x \in Started(lastGen) : x.gen # 0 /\ x.gen \in 1..lastGen
  BY Numbers
<1>t. \A t \in tokens : t.gen \in 1..lastGen
  BY DEF AuxShape
<1>h. \A h \in hooks : h.gen \in 1..lastGen
  BY DEF AuxShape
<1>1. CASE BeginAux
  BY <1>0, <1>1 DEF BeginAux, Free, HooksKept, StartKept, ActiveKept, TokensKept, Known, IsTold
<1>2. CASE Build
  <2>1. CASE ~auxOn
    BY <1>0, <1>2, <2>1 DEF Build, Free, HooksKept, StartKept, ActiveKept, TokensKept, Known, IsTold
  <2>2. CASE auxOn
    <3>1. /\ lastGen' = lastGen + 1 /\ tokens' = tokens \cup Pair(lastGen + 1)
          /\ op.at = "build" /\ op'.at = "core" /\ op'.prev = active /\ op'.ref = input
          /\ active' = [ref |-> input, gen |-> lastGen + 1]
          /\ input' = input /\ stopped' = stopped /\ slot' = slot /\ hooks' = hooks
      BY <1>2, <2>2 DEF Build
    <3>2. slot.gen \in 0..lastGen /\ active.gen \in 0..lastGen
      BY Basics
    <3>3. HooksKept'
      BY <3>1 DEF HooksKept
    <3>4. StartKept'
      BY <1>0, <1>h, <3>1, <3>2 DEF StartKept, ActiveKept, Mine, Known, IsTold, AuxShape
    <3>5. ActiveKept'
      BY <3>1 DEF ActiveKept
    <3>6. TokensKept'
      <4>1. \A t \in Pair(lastGen + 1) : t.gen = lastGen + 1
        BY DEF Pair, Probe, PlayT
      <4>2. active'.gen = lastGen + 1
        BY <3>1
      <4> QED BY <3>1, <4>1, <4>2 DEF TokensKept
    <3> QED BY <3>3, <3>4, <3>5, <3>6
  <2> QED BY <2>1, <2>2
<1>3. CASE ProbeStream
  BY <1>0, <1>3 DEF ProbeStream, AuxShape, HooksKept, StartKept, ActiveKept, TokensKept, Known, IsTold, Mine
<1>4. CASE CoreTakes
  <2>1. /\ op.at = "probed" /\ op'.at = "replaced" /\ op'.prev = op.prev /\ op'.ref = op.ref
        /\ slot' = Mine /\ hooks' = Told /\ active' = active /\ stopped' = stopped
        /\ tokens' = tokens /\ lastGen' = lastGen
    BY <1>4 DEF CoreTakes, AuxShape
  <2>2. /\ \A h \in hooks : h \in hooks'
        /\ slot.gen > 0 => \E h \in hooks' : h.gen = slot.gen
        /\ \A h \in hooks' : /\ h.said => h.gen \in stopped
                             /\ h \in hooks \/ (h.gen = slot.gen /\ slot.gen > 0)
    BY <2>1, ToldShape
  <2>3. Mine.gen = lastGen
    BY DEF Mine
  <2>4. HooksKept'
    BY <2>1, <2>2, <2>3 DEF HooksKept, StartKept
  <2>5. StartKept'
    BY <2>1 DEF StartKept
  <2>6. ActiveKept'
    BY <2>1 DEF ActiveKept, StartKept, Known, Mine
  <2>7. TokensKept'
    BY <1>0, <1>t, <2>1, <2>2 DEF TokensKept
  <2> QED BY <2>4, <2>5, <2>6, <2>7
<1>5. CASE CoreRefuses
  <2>1. /\ op.at \in {"core", "probed"} /\ op'.at = "rollback"
        /\ op'.prev = op.prev /\ op'.ref = op.ref /\ op'.seen = slot'.ref
        /\ active' = active /\ stopped' = stopped /\ tokens' = tokens /\ lastGen' = lastGen
    BY <1>5 DEF CoreRefuses
  <2>2. CASE UNCHANGED <<slot, hooks>>
    BY <2>1, <2>2 DEF HooksKept, StartKept, ActiveKept, TokensKept, Known, IsTold, Mine
  <2>3. CASE slot' = NoGen /\ hooks' = Told
    <3>1. HooksKept' /\ (Known(op.prev) => Known(op.prev)')
          /\ (slot.gen > 0 => \E h \in hooks' : h.gen = slot.gen)
          /\ (\A h \in hooks : h \in hooks')
          /\ (\A h \in hooks' : h \in hooks \/ (h.gen = slot.gen /\ slot.gen > 0))
      BY <1>0, <2>1, <2>3, LetsGo DEF AuxShape
    <3>2. StartKept'
      BY <1>0, <2>1, <2>3, <3>1 DEF StartKept, Mine, Known, IsTold, AuxShape
    <3>3. ActiveKept' /\ TokensKept'
      BY <1>0, <1>t, <2>1, <2>3, <3>1 DEF ActiveKept, TokensKept
    <3> QED BY <3>1, <3>2, <3>3
  <2> QED BY <1>5, <2>2, <2>3 DEF CoreRefuses
<1>6. CASE ReadsStream
  BY <1>0, <1>6 DEF ReadsStream, HooksKept, StartKept, ActiveKept, TokensKept, Known, IsTold, Mine
<1>7. CASE Replaced
  <2>1. /\ op.at = "replaced" /\ op'.at = "free" /\ tokens' = tokens \ Pair(op.prev.gen)
        /\ UNCHANGED <<active, stopped, slot, hooks, lastGen>>
    BY <1>7 DEF Replaced, Free
  <2>2. \A t \in tokens' : t \in tokens /\ t.gen # op.prev.gen
    BY <2>1 DEF Pair, Probe, PlayT, AuxShape
  <2> QED BY <2>1, <2>2 DEF HooksKept, StartKept, ActiveKept, TokensKept, Known, IsTold
<1>8. CASE Rollback
  <2>1. /\ op.at = "rollback" /\ op'.at = "free" /\ UNCHANGED <<stopped, slot, hooks, lastGen>>
        /\ active = Mine
    BY <1>8 DEF Rollback, Free, StartKept
  <2>2. Mine.gen = lastGen /\ NoGen.gen # lastGen
    BY <1>0, <2>1 DEF Mine, AuxShape
  <2>3. HooksKept' /\ StartKept'
    BY <2>1 DEF HooksKept, StartKept, Known, IsTold
  <2>4. CASE op.prev.ref \notin {"", op.ref} /\ StillPlays(op.prev, op.seen)
    <3>1. active' = op.prev /\ tokens' = tokens \ Pair(lastGen)
      BY <1>8, <2>1, <2>2, <2>4 DEF Rollback
    <3>2. ActiveKept'
      BY <2>1, <2>4, <3>1 DEF ActiveKept, StartKept, StillPlays, Known, IsTold
    <3>3. TokensKept'
      BY <2>1, <2>2, <3>1, Unpaired DEF TokensKept
    <3> QED BY <2>3, <3>2, <3>3
  <2>5. CASE ~(op.prev.ref \notin {"", op.ref} /\ StillPlays(op.prev, op.seen))
    <3>1. active' = NoGen /\ tokens' = (tokens \ Pair(lastGen)) \ Pair(op.prev.gen)
      BY <1>8, <2>1, <2>2, <2>5 DEF Rollback
    <3>2. slot.gen = 0
      <4>1. SUFFICES ASSUME slot.gen > 0 PROVE FALSE
        BY <1>0
      <4>2. slot = op.prev /\ slot.ref # op.ref /\ op.seen = slot.ref /\ slot.gen \notin stopped
        BY <2>1, <4>1 DEF StartKept, HooksKept
      <4>3. slot.ref # ""
        BY <4>1, Numbers
      <4> QED BY <2>5, <4>2, <4>3 DEF StillPlays
    <3>3. ActiveKept'
      BY <2>1, <3>1, <3>2 DEF ActiveKept, Known
    <3>4. TokensKept'
      <4>1. \A t \in tokens' : t \in tokens /\ t.gen # lastGen /\ t.gen # op.prev.gen
        BY <3>1, Unpaired
      <4> QED BY <2>1, <2>2, <3>2, <4>1 DEF TokensKept
    <3> QED BY <2>3, <3>3, <3>4
  <2> QED BY <2>4, <2>5
<1>9. CASE StopAux
  <2>1. /\ op.at = "free" /\ op'.at = "clear" /\ op'.was = active /\ active # NoGen
        /\ UNCHANGED <<active, stopped, tokens, lastGen>>
    BY <1>9 DEF StopAux, Free
  <2>2. CASE slot.ref = active.ref
    <3>1. slot' = NoGen /\ hooks' = Told
      BY <1>9, <2>2 DEF StopAux
    <3>2. HooksKept' /\ (Known(active) => Known(active)')
          /\ (slot.gen > 0 => \E h \in hooks' : h.gen = slot.gen)
          /\ (\A h \in hooks : h \in hooks')
      BY <1>0, <2>1, <3>1, LetsGo DEF AuxShape
    <3> QED BY <1>0, <1>t, <2>1, <3>1, <3>2 DEF StartKept, ActiveKept, TokensKept, Known, IsTold
  <2>3. CASE slot.ref # active.ref
    <3>1. UNCHANGED <<slot, hooks>>
      BY <1>9, <2>3 DEF StopAux
    <3>2. slot.gen = 0
      BY <1>0, <2>1, <2>3 DEF ActiveKept
    <3> QED BY <2>1, <3>1, <3>2 DEF HooksKept, StartKept, ActiveKept, TokensKept, Known, IsTold
  <2> QED BY <2>2, <2>3
<1>10. CASE ClearAux
  <2>1. /\ op.at = "clear" /\ op'.at = "free" /\ UNCHANGED <<stopped, slot, hooks, lastGen>>
    BY <1>10 DEF ClearAux, Free
  <2>2. CASE active = op.was
    <3>1. active' = NoGen /\ tokens' = tokens \ Pair(active.gen)
      BY <1>10, <2>2 DEF ClearAux, IsMeant
    <3> QED BY <1>0, <2>1, <3>1, Unpaired
            DEF HooksKept, StartKept, ActiveKept, TokensKept, Known, IsTold
  <2>3. CASE active # op.was
    BY <1>10, <2>1, <2>3 DEF ClearAux, IsMeant, HooksKept, StartKept, ActiveKept, TokensKept, Known, IsTold
  <2> QED BY <2>2, <2>3
<1>11. CASE StopAdapter
  <2>1. /\ op.at = "free" /\ op'.at = "stop" /\ op'.was = active /\ active' = NoGen
        /\ tokens' = tokens \ Pair(active.gen) /\ UNCHANGED <<stopped, slot, hooks, lastGen>>
    BY <1>11 DEF StopAdapter, Free
  <2> QED BY <1>0, <2>1, Unpaired DEF HooksKept, StartKept, ActiveKept, TokensKept, Known, IsTold
<1>12. CASE StopsCore
  <2>1. /\ op.at = "stop" /\ op'.at = "free" /\ UNCHANGED <<active, stopped, tokens, lastGen>>
        /\ active = NoGen
    BY <1>12 DEF StopsCore, Free, ActiveKept
  <2>2. CASE slot.ref = op.was.ref
    <3>1. slot' = NoGen /\ hooks' = Told
      BY <1>12, <2>2 DEF StopsCore
    <3>2. HooksKept'
          /\ (slot.gen > 0 => \E h \in hooks' : h.gen = slot.gen)
          /\ (\A h \in hooks : h \in hooks')
      BY <1>0, <2>1, <3>1, LetsGo
    <3> QED BY <1>0, <1>t, <2>1, <3>1, <3>2 DEF StartKept, ActiveKept, TokensKept, Known
  <2>3. CASE slot.ref # op.was.ref
    <3>1. UNCHANGED <<slot, hooks>>
      BY <1>12, <2>3 DEF StopsCore
    <3>2. slot.gen = 0
      BY <1>0, <2>1, <2>3 DEF ActiveKept
    <3> QED BY <2>1, <3>1, <3>2 DEF HooksKept, StartKept, ActiveKept, TokensKept, Known
  <2> QED BY <2>2, <2>3
<1>13. CASE EndAux
  <2>1. /\ slot.gen > 0 /\ slot'.gen = 0 /\ hooks' = Told
        /\ UNCHANGED <<input, op, active, stopped, tokens, lastGen>>
    BY <1>0, <1>13 DEF EndAux
  <2>2. /\ HooksKept'
        /\ Known(active) => Known(active)'
        /\ Among(Asked) => (Known(op.prev) => Known(op.prev)')
        /\ \E h \in hooks' : h.gen = slot.gen
        /\ \A h \in hooks : h \in hooks'
        /\ \A h \in hooks' : h \in hooks \/ (h.gen = slot.gen /\ slot.gen > 0)
    BY <2>1, LetsGo DEF AuxShape
  <2>3. StartKept'
    <3>1. Among(Asked) => lastGen # 0
      BY DEF AuxShape
    <3>2. Among(Asked) => \A h \in hooks' : h.gen # lastGen
      BY <2>2 DEF StartKept
    <3>3. Mine' = Mine /\ op' = op /\ lastGen' = lastGen /\ active' = active /\ stopped' = stopped
      BY <2>1 DEF Mine
    <3> QED BY <2>1, <2>2, <3>1, <3>2, <3>3 DEF StartKept
  <2>4. ActiveKept'
    BY <2>1, <2>2 DEF ActiveKept, Mine
  <2>5. TokensKept'
    BY <2>1, <2>2 DEF TokensKept
  <2> QED BY <2>2, <2>3, <2>4, <2>5
<1>14. CASE SetInput
  BY <1>0, <1>14 DEF SetInput, HooksKept, StartKept, ActiveKept, TokensKept, Known, IsTold, Mine
<1>15. ASSUME NEW h \in hooks, SaysStopped(h) PROVE Kept'
  <2> DEFINE said == [h EXCEPT !.said = TRUE]
  <2>1. /\ stopped' = stopped \cup {h.gen} /\ hooks' = (hooks \ {h}) \cup {said}
        /\ UNCHANGED <<input, op, active, tokens, slot, lastGen>>
    BY <1>15 DEF SaysStopped
  <2>2. said.gen = h.gen /\ said.ref = h.ref /\ h.gen # slot.gen
    BY DEF AuxShape, HooksKept
  <2> HIDE DEF said
  <2>3. HooksKept'
    BY <2>1, <2>2 DEF HooksKept
  <2>4. \A x : IsTold(x) => IsTold(x)'
    BY <2>1, <2>2 DEF IsTold
  <2>5. StartKept'
    <3>1. ASSUME Among(Asked)
          PROVE  /\ active = Mine /\ slot.gen # lastGen /\ lastGen \notin stopped'
                 /\ \A k \in hooks' : k.gen # lastGen
                 /\ Known(op.prev)' \/ op.prev.gen \in stopped'
                 /\ slot.gen > 0 => slot = op.prev /\ slot.ref # op.ref
      <4>1. h.gen # lastGen /\ said.gen # lastGen
        BY <2>2, <3>1 DEF StartKept
      <4>2. lastGen \notin stopped' /\ \A k \in hooks' : k.gen # lastGen
        BY <2>1, <3>1, <4>1 DEF StartKept
      <4>3. Known(op.prev)' \/ op.prev.gen \in stopped'
        BY <2>1, <2>4, <3>1 DEF StartKept, Known
      <4> QED BY <3>1, <4>2, <4>3 DEF StartKept
    <3>2. Mine' = Mine
      BY <2>1 DEF Mine
    <3> QED BY <2>1, <3>1, <3>2 DEF StartKept
  <2>6. ActiveKept'
    BY <2>1, <2>2, <2>4 DEF ActiveKept, Mine, Known
  <2>7. TokensKept'
    BY <2>1, <2>2 DEF TokensKept
  <2> QED BY <2>3, <2>5, <2>6, <2>7
<1>16. ASSUME NEW h \in hooks, OnStop(h) PROVE Kept'
  <2>1. h.said /\ hooks' = hooks \ {h} /\ UNCHANGED <<input, op, stopped, slot, lastGen>>
    BY <1>16 DEF OnStop
  <2>2. h.gen \in stopped /\ h.gen # slot.gen
    BY <2>1 DEF HooksKept
  <2>3. \A x : IsTold(x) => IsTold(x)' \/ (x.gen = h.gen /\ x.ref = h.ref)
    BY <2>1 DEF IsTold
  <2>4. HooksKept'
    BY <2>1 DEF HooksKept
  <2>5. CASE active = [ref |-> h.ref, gen |-> h.gen]
    <3>1. active' = NoGen /\ tokens' = tokens \ Pair(active.gen)
      BY <1>16, <2>5 DEF OnStop, IsMeant
    <3>2. active.gen = h.gen
      BY <2>5
    <3>3. ~Among(Asked)
      BY <3>2 DEF StartKept, Mine
    <3>4. StartKept'
      BY <2>1, <3>3 DEF StartKept
    <3>5. ActiveKept'
      BY <1>0, <2>1, <2>2, <3>1, <3>2, <3>3 DEF ActiveKept, Known
    <3>6. TokensKept'
      BY <2>1, <3>1, <3>2, Unpaired DEF TokensKept
    <3> QED BY <2>4, <3>4, <3>5, <3>6
  <2>6. CASE active # [ref |-> h.ref, gen |-> h.gen]
    <3>1. active' = active /\ tokens' = tokens \ Pair(h.gen)
      BY <1>16, <2>6 DEF OnStop, IsMeant
    <3>2. Known(active) => Known(active)'
      <4>1. SUFFICES ASSUME IsTold(active), active # NoGen PROVE IsTold(active)'
        BY <2>1, <3>1 DEF Known
      <4>2. active = [ref |-> active.ref, gen |-> active.gen]
        BY <4>1, Basics DEF AuxShape
      <4>3. ~(active.gen = h.gen /\ active.ref = h.ref)
        BY <2>6, <4>2
      <4> QED BY <2>3, <3>1, <4>1, <4>3 DEF IsTold
    <3>3. StartKept'
      BY <2>1, <2>2, <2>3, <3>1 DEF StartKept, Mine, Known
    <3>4. ActiveKept'
      BY <2>1, <3>1, <3>2 DEF ActiveKept, Mine
    <3>5. TokensKept'
      BY <2>1, <3>1, Unpaired DEF TokensKept
    <3> QED BY <2>4, <3>3, <3>4, <3>5
  <2> QED BY <2>5, <2>6
<1>17. CASE UNCHANGED auxVars
  BY <1>17 DEF auxVars, HooksKept, StartKept, ActiveKept, TokensKept, Known, IsTold, Mine
<1> QED BY <1>1, <1>2, <1>3, <1>4, <1>5, <1>6, <1>7, <1>8, <1>9, <1>10, <1>11, <1>12, <1>13, <1>14,
           <1>15, <1>16, <1>17 DEF AuxNext

(* Whatever starts, probes, refusals, stops, ends and changes of the       *)
(* settings come between each other: when all is over the adapter's session*)
(* is the one that plays, and no other session's token opens the stream.   *)
THEOREM TokensDieWithSessions == ASSUME InputsAreNamed PROVE AuxSpec => []AuxInOrder
<1>1. AuxShape /\ Kept => AuxInOrder
  <2> SUFFICES ASSUME AuxShape, Kept, op = Free, hooks = {} PROVE
         /\ active = (IF slot.gen > 0 THEN slot ELSE NoGen)
         /\ \A t \in tokens : t.gen = slot.gen
    BY DEF AuxInOrder, AuxRests
  <2>1. Known(active) /\ (slot.gen > 0 => slot = active)
    BY DEF Kept, ActiveKept, Among, Asked, Free
  <2>2. active = NoGen \/ active = slot
    BY <2>1 DEF Known, IsTold
  <2>3. /\ NoGen.gen = 0 /\ slot.gen \in 0..lastGen /\ lastGen \in Nat
        /\ active.gen = 0 => active = NoGen
    BY Basics
  <2>4. active = (IF slot.gen > 0 THEN slot ELSE NoGen)
    BY <2>1, <2>2, <2>3
  <2>5. \A t \in tokens : t.gen \in {slot.gen, active.gen} /\ t.gen # 0
    BY DEF Kept, TokensKept, Among, Asked, Replacing, Free, AuxShape
  <2> QED BY <2>2, <2>3, <2>4, <2>5
<1>2. AuxInit => AuxShape /\ Kept
  BY AuxStarts DEF AuxInv, Kept
<1>3. AuxShape /\ Kept /\ [AuxNext]_auxVars => (AuxShape /\ Kept)'
  BY ShapeStep, KeptStep DEF Kept
<1> QED BY <1>1, <1>2, <1>3, PTL DEF AuxSpec

-----------------------------------------------------------------------------
(* The renderer's events.                                                  *)

(* There are limits, and room for one delivery and one number at least.    *)
LimitsAreNumbers ==
    \A l \in EventLimits :
        l.points \in Nat /\ l.subscriptions \in Nat /\ l.pending \in Nat \ {0} /\ l.largest \in Nat \ {0}

Delivery     == [seq : Nat, state : Nat]
Subscription == [at : {"none", "checking", "on", "gone"}, expired : BOOLEAN, next : Nat, fails : Nat]
Queue        == [pending : Seq(Delivery), running : BOOLEAN, exists : BOOLEAN]
Hearing      == [seqs : Seq(Nat), last : Nat]

(* What the variables hold. *)
EventsShape ==
    /\ evLim \in EventLimits
    /\ shown \in Nat /\ readers \in Seq(Nat) /\ snapshot \in Nat
    /\ subs \in [Points -> Subscription]
    /\ queues \in [Points -> Queue]
    /\ workers \in [Points -> {0, 1}]
    /\ sending \in [Points -> SUBSET Delivery]
    /\ heard \in [Points -> Hearing]

(* A subscriber's line: its subscription s, queue q, goroutines w, what is *)
(* being sent sd and what was heard h.  Every number has its place: those  *)
(* that were heard first, then the one that is being sent, those that wait *)
(* and the one that comes next; and one goroutine has them all, unless     *)
(* the subscription, and with it the queue, is gone.                       *)
Taken(sd, h) == Len(h.seqs) + (IF sd = {} THEN 0 ELSE 1)

SentInTurn(w, sd, h) ==
    /\ \A n \in DOMAIN h.seqs : h.seqs[n] = Turn(n)
    /\ \A d \in sd : sd = {d} /\ d.seq = Turn(Len(h.seqs) + 1) /\ w = 0

QueuedInTurn(s, q, w, sd, h) ==
    /\ q.exists /\ (q.running <=> w = 1 \/ sd # {})
    /\ Len(q.pending) <= evLim.pending
    /\ \A i \in DOMAIN q.pending : q.pending[i].seq = Turn(Taken(sd, h) + i)
    /\ s.next = Turn(Taken(sd, h) + Len(q.pending) + 1)

LineKept(s, q, w, sd, h) ==
    /\ SentInTurn(w, sd, h)
    /\ IF s.at = "on" THEN QueuedInTurn(s, q, w, sd, h) ELSE q = NoQueue
    /\ s.at \in {"none", "checking"} => w = 0 /\ sd = {} /\ h.seqs = <<>>

LinesKept == \A p \in Points : LineKept(subs[p], queues[p], workers[p], sending[p], heard[p])

RoomKept == Cardinality(Subscribed) <= evLim.subscriptions

EventsInv == EventsShape /\ LinesKept /\ RoomKept

LineShape(s, q, w, sd, h) ==
    s \in Subscription /\ q \in Queue /\ w \in {0, 1} /\ sd \in SUBSET Delivery /\ h \in Hearing

-----------------------------------------------------------------------------
(* Arithmetic: counting modulo L is adding one, and 0 after L - 1. *)
LEMMA Quotients ==
  ASSUME NEW L \in Nat \ {0}, NEW q \in Int, NEW s \in Int,
         NEW r \in 0..(L - 1), NEW t \in 0..(L - 1), L * q + r = L * s + t
  PROVE  r = t
<1>0. \A a \in Int : a > 0 => L * a >= L
  OBVIOUS
<1>1. CASE q > s
  <2>1. L * (q - s) >= L
    BY <1>0, <1>1
  <2>2. L * (q - s) = L * q - L * s
    OBVIOUS
  <2> QED BY <2>1, <2>2
<1>2. CASE q < s
  <2>1. L * (s - q) >= L
    BY <1>0, <1>2
  <2>2. L * (s - q) = L * s - L * q
    OBVIOUS
  <2> QED BY <2>1, <2>2
<1>3. CASE q = s
  BY <1>3
<1> QED BY <1>1, <1>2, <1>3

LEMMA CountsOn ==
  ASSUME NEW L \in Nat \ {0}, NEW k \in Nat
  PROVE  (k + 1) % L = (IF k % L = L - 1 THEN 0 ELSE (k % L) + 1) /\ k % L \in 0..(L - 1)
<1> DEFINE q == k \div L
           r == k % L
           s == (k + 1) \div L
           t == (k + 1) % L
<1>1. k = L * q + r /\ q \in Int /\ r \in 0..(L - 1)
  OBVIOUS
<1>2. k + 1 = L * s + t /\ s \in Int /\ t \in 0..(L - 1)
  OBVIOUS
<1> HIDE DEF q, r, s, t
<1>3. CASE r = L - 1
  <2>1. L * (q + 1) = L * q + L
    BY <1>1
  <2>2. L * s + t = L * (q + 1) + 0
    BY <1>1, <1>2, <1>3, <2>1
  <2>3. t = 0
    BY <1>1, <1>2, <2>2, Quotients
  <2> QED BY <1>1, <1>3, <2>3 DEF r, t
<1>4. CASE r # L - 1
  <2>1. r + 1 \in 0..(L - 1)
    BY <1>1, <1>4
  <2>2. L * s + t = L * q + (r + 1)
    BY <1>1, <1>2
  <2>3. t = r + 1
    BY <1>1, <1>2, <2>1, <2>2, Quotients
  <2> QED BY <1>1, <1>4, <2>3 DEF r, t
<1> QED BY <1>3, <1>4

(* The number after the nth is the one that nextEventSeq gives. *)
LEMMA Turns ==
  ASSUME LimitsAreNumbers, evLim \in EventLimits
  PROVE  /\ Turn(1) = 0 /\ Turn(2) = 1
         /\ \A n \in Nat \ {0} : Turn(n) \in Nat /\ Turn(n + 1) = NextEventSeq(Turn(n))
<1> DEFINE L == evLim.largest
<1>1. L \in Nat \ {0}
  BY DEF LimitsAreNumbers
<1>2. Turn(1) = 0
  BY DEF Turn
<1>3. Turn(2) = 1
  <2>1. 0 % L = 0
    BY <1>1
  <2> QED BY <2>1 DEF Turn
<1>4. ASSUME NEW n \in Nat \ {0} PROVE Turn(n) \in Nat /\ Turn(n + 1) = NextEventSeq(Turn(n))
  <2>1. CASE n = 1
    BY <1>1, <1>2, <1>3, <2>1 DEF NextEventSeq
  <2>2. CASE n # 1
    <3> DEFINE k == n - 2
               m == k % L
    <3>1. k \in Nat /\ (n + 1) - 2 = k + 1
      BY <2>2
    <3>2. Turn(n) = m + 1 /\ Turn(n + 1) = ((k + 1) % L) + 1
      BY <2>2, <3>1 DEF Turn
    <3>3. (k + 1) % L = (IF m = L - 1 THEN 0 ELSE m + 1) /\ m \in 0..(L - 1)
      BY <1>1, <3>1, CountsOn
    <3>4. NextEventSeq(Turn(n)) = IF m + 1 = L THEN 1 ELSE m + 2
      BY <3>2, <3>3 DEF NextEventSeq
    <3> HIDE DEF k, m, L
    <3> QED BY <1>1, <3>2, <3>3, <3>4
  <2> QED BY <2>1, <2>2
<1> QED BY <1>2, <1>3, <1>4

-----------------------------------------------------------------------------
(* What can happen to a subscriber's line. *)
LEMMA LineEnds ==
  ASSUME NEW s, NEW q, NEW w, NEW sd, NEW h, LineKept(s, q, w, sd, h), NEW t, t.at = "gone"
  PROVE  LineKept(t, NoQueue, w, sd, h)
BY DEF LineKept

LEMMA LineSame ==
  ASSUME NEW s, NEW q, NEW w, NEW sd, NEW h, LineKept(s, q, w, sd, h),
         NEW t, t.next = s.next, t.at = s.at
  PROVE  LineKept(t, q, w, sd, h)
BY DEF LineKept, QueuedInTurn

LEMMA LineOpens ==
  ASSUME LimitsAreNumbers, evLim \in EventLimits,
         NEW s, NEW q, NEW w, NEW sd, NEW h, LineKept(s, q, w, sd, h), s.at = "checking",
         NEW n \in Nat
  PROVE  /\ LineKept([NoSub EXCEPT !.at = "on", !.next = 1], Queued(NoQueue, [seq |-> 0, state |-> n]), w + 1, sd, h)
         /\ w + 1 = 1
         /\ [NoSub EXCEPT !.at = "on", !.next = 1] \in Subscription
         /\ Queued(NoQueue, [seq |-> 0, state |-> n]) \in Queue
<1> DEFINE d == [seq |-> 0, state |-> n]
           t == [NoSub EXCEPT !.at = "on", !.next = 1]
           u == Queued(NoQueue, d)
<1>1. t \in Subscription /\ t.at = "on" /\ t.next = 1
  BY DEF NoSub, Subscription
<1>2. u = [pending |-> <<d>>, running |-> TRUE, exists |-> TRUE]
  <2>1. ~Behind(NoQueue)
    BY DEF Behind, NoQueue, LimitsAreNumbers
  <2>2. Append(NoQueue.pending, d) = <<d>>
    BY DEF NoQueue
  <2> QED BY <2>1, <2>2 DEF Queued
<1>3. d \in Delivery /\ d.seq = 0
  BY DEF Delivery
<1>4. u \in Queue
  <2> HIDE DEF d, u
  <2>1. <<d>> \in Seq(Delivery)
    BY <1>3
  <2> QED BY <1>2, <2>1 DEF Queue
<1>5. w = 0 /\ sd = {} /\ h.seqs = <<>> /\ SentInTurn(w, sd, h)
  BY DEF LineKept
<1>6. Taken(sd, h) = 0
  BY <1>5 DEF Taken
<1>7. SentInTurn(w + 1, sd, h)
  BY <1>5 DEF SentInTurn
<1> HIDE DEF d, t
<1>8. QueuedInTurn(t, u, w + 1, sd, h)
  <2>1. u.exists /\ u.running /\ u.pending = <<d>> /\ Len(u.pending) = 1 /\ DOMAIN u.pending = {1}
    BY <1>2
  <2>2. u.pending[1].seq = Turn(0 + 1)
    BY <1>3, <2>1, Turns
  <2>3. t.next = Turn(0 + 1 + 1)
    BY <1>1, Turns
  <2>4. 1 <= evLim.pending
    BY DEF LimitsAreNumbers
  <2>5. w + 1 = 1
    BY <1>5
  <2> HIDE DEF u
  <2> QED BY <1>6, <2>1, <2>2, <2>3, <2>4, <2>5 DEF QueuedInTurn
<1>9. LineKept(t, u, w + 1, sd, h)
  BY <1>1, <1>7, <1>8 DEF LineKept
<1> QED BY <1>1, <1>4, <1>5, <1>9 DEF t, d

LEMMA LineGrows ==
  ASSUME LimitsAreNumbers, evLim \in EventLimits,
         NEW s, NEW q, NEW w, NEW sd, NEW h, LineShape(s, q, w, sd, h), LineKept(s, q, w, sd, h),
         s.at = "on", ~Behind(q), NEW n \in Nat
  PROVE  LET d == [seq |-> s.next, state |-> n]
             t == [s EXCEPT !.next = NextEventSeq(@)]
             v == IF StartsWorker(q) THEN w + 1 ELSE w
         IN LineShape(t, Queued(q, d), v, sd, h) /\ LineKept(t, Queued(q, d), v, sd, h)
<1> DEFINE d == [seq |-> s.next, state |-> n]
           t == [s EXCEPT !.next = NextEventSeq(@)]
           v == IF StartsWorker(q) THEN w + 1 ELSE w
           u == Queued(q, d)
           k == Taken(sd, h)
<1>1. QueuedInTurn(s, q, w, sd, h) /\ SentInTurn(w, sd, h)
  BY DEF LineKept
<1>2. k \in Nat /\ Len(q.pending) \in Nat
  BY DEF Taken, LineShape, Hearing, Queue
<1>3. s.next = Turn(k + Len(q.pending) + 1) /\ s.next \in Nat
  BY <1>1 DEF QueuedInTurn, LineShape, Subscription
<1>4. t \in Subscription /\ t.at = "on" /\ t.next = Turn(k + Len(q.pending) + 2)
  <2>1. k + Len(q.pending) + 1 \in Nat \ {0}
    BY <1>2
  <2>2. (k + Len(q.pending) + 1) + 1 \in Nat \ {0} /\ (k + Len(q.pending) + 1) + 1 = k + Len(q.pending) + 2
    BY <1>2
  <2>3. NextEventSeq(s.next) = Turn(k + Len(q.pending) + 2) /\ NextEventSeq(s.next) \in Nat
    BY <1>3, <2>1, <2>2, Turns
  <2> QED BY <2>3 DEF LineShape, Subscription
<1>5. d \in Delivery /\ d.seq = s.next
  BY <1>3 DEF Delivery
<1>6. u = [pending |-> Append(q.pending, d), running |-> TRUE, exists |-> TRUE]
  BY DEF Queued
<1>7. u \in Queue
  <2> HIDE DEF d, u
  <2>1. q.pending \in Seq(Delivery)
    BY DEF Queue, LineShape
  <2>2. Append(q.pending, d) \in Seq(Delivery)
    BY <1>5, <2>1
  <2> QED BY <1>6, <2>2 DEF Queue
<1>8. v \in {0, 1} /\ (v = 1 \/ sd # {}) /\ SentInTurn(v, sd, h)
  BY <1>1 DEF StartsWorker, QueuedInTurn, SentInTurn, LineShape
<1> HIDE DEF d, t, v, k
<1>9. QueuedInTurn(t, u, v, sd, h)
  <2>1. /\ u.exists /\ u.running /\ Len(u.pending) = Len(q.pending) + 1
        /\ \A i \in 1..(Len(q.pending) + 1) :
              u.pending[i] = IF i = Len(q.pending) + 1 THEN d ELSE q.pending[i]
        /\ DOMAIN u.pending = 1..(Len(q.pending) + 1)
    BY <1>5, <1>6 DEF LineShape, Queue
  <2>2. Len(q.pending) + 1 <= evLim.pending
    BY <1>2 DEF Behind, LimitsAreNumbers
  <2>3. ASSUME NEW i \in DOMAIN u.pending PROVE u.pending[i].seq = Turn(k + i)
    <3>1. CASE i = Len(q.pending) + 1
      <4>1. k + i = k + Len(q.pending) + 1
        BY <1>2, <3>1
      <4> QED BY <1>3, <1>5, <2>1, <3>1, <4>1
    <3>2. CASE i # Len(q.pending) + 1
      <4>1. i \in DOMAIN q.pending
        BY <1>2, <2>1, <3>2 DEF LineShape, Queue
      <4> QED BY <1>1, <2>1, <3>2, <4>1 DEF QueuedInTurn, k
    <3> QED BY <3>1, <3>2
  <2>4. k + Len(u.pending) + 1 = k + Len(q.pending) + 2
    BY <1>2, <2>1
  <2> HIDE DEF u
  <2> QED BY <1>4, <1>8, <2>1, <2>2, <2>3, <2>4 DEF QueuedInTurn, k
<1>10. LineKept(t, u, v, sd, h)
  BY <1>4, <1>8, <1>9 DEF LineKept
<1>11. LineShape(t, u, v, sd, h)
  BY <1>4, <1>7, <1>8 DEF LineShape
<1> QED BY <1>10, <1>11 DEF d, t, v, u

LEMMA LineRests ==
  ASSUME NEW s, NEW q, NEW w, NEW sd, NEW h, LineShape(s, q, w, sd, h), LineKept(s, q, w, sd, h),
         w > 0, ~q.exists \/ q.pending = <<>>
  PROVE  LET u == IF q.exists THEN Rests(q) ELSE q
         IN LineShape(s, u, w - 1, sd, h) /\ LineKept(s, u, w - 1, sd, h)
<1> DEFINE u == IF q.exists THEN Rests(q) ELSE q
<1>1. w = 1 /\ w - 1 = 0
  BY DEF LineShape
<1>2. SentInTurn(w, sd, h) /\ SentInTurn(0, sd, h) /\ sd = {}
  BY <1>1 DEF LineKept, SentInTurn
<1>3. CASE ~q.exists
  <2>1. s.at # "on" /\ q = NoQueue /\ u = q
    BY <1>3 DEF LineKept, QueuedInTurn
  <2>2. LineKept(s, u, 0, sd, h)
    BY <1>2, <2>1 DEF LineKept
  <2>3. LineShape(s, u, 0, sd, h)
    BY <2>1 DEF LineShape
  <2> QED BY <1>1, <2>2, <2>3
<1>4. CASE q.exists
  <2>1. q # NoQueue
    BY <1>4 DEF NoQueue
  <2>2. s.at = "on" /\ QueuedInTurn(s, q, w, sd, h)
    BY <2>1 DEF LineKept
  <2>3. u = [q EXCEPT !.running = FALSE]
    BY <1>4 DEF Rests
  <2>4. u.exists /\ ~u.running /\ u.pending = q.pending /\ u \in Queue
    BY <1>4, <2>3 DEF LineShape, Queue
  <2> HIDE DEF u
  <2>5. QueuedInTurn(s, u, 0, sd, h)
    BY <1>2, <2>2, <2>4 DEF QueuedInTurn
  <2>6. LineKept(s, u, 0, sd, h)
    BY <1>2, <2>2, <2>5 DEF LineKept
  <2>7. LineShape(s, u, 0, sd, h)
    BY <2>4 DEF LineShape
  <2> QED BY <1>1, <2>6, <2>7 DEF u
<1> QED BY <1>3, <1>4

LEMMA LineSends ==
  ASSUME LimitsAreNumbers, evLim \in EventLimits,
         NEW s, NEW q, NEW w, NEW sd, NEW h, LineShape(s, q, w, sd, h), LineKept(s, q, w, sd, h),
         w > 0, q.exists, q.pending # <<>>
  PROVE  LET u == [q EXCEPT !.pending = Tail(@)]
             v == sd \cup {Head(q.pending)}
         IN LineShape(s, u, w - 1, v, h) /\ LineKept(s, u, w - 1, v, h)
<1> DEFINE u == [q EXCEPT !.pending = Tail(@)]
           v == sd \cup {Head(q.pending)}
           d == Head(q.pending)
           n == Len(h.seqs)
<1>1. w = 1 /\ w - 1 = 0
  BY DEF LineShape
<1>2. SentInTurn(w, sd, h) /\ sd = {}
  BY <1>1 DEF LineKept, SentInTurn
<1>3. q # NoQueue
  BY DEF NoQueue
<1>4. s.at = "on" /\ QueuedInTurn(s, q, w, sd, h)
  BY <1>3 DEF LineKept
<1>5. q.pending \in Seq(Delivery) /\ n \in Nat
  BY DEF LineShape, Queue, Hearing
<1>6. /\ d = q.pending[1] /\ d \in Delivery /\ 1 \in DOMAIN q.pending
      /\ Tail(q.pending) \in Seq(Delivery) /\ Len(Tail(q.pending)) = Len(q.pending) - 1
      /\ \A i \in 1..(Len(q.pending) - 1) : Tail(q.pending)[i] = q.pending[i + 1]
      /\ DOMAIN Tail(q.pending) = 1..(Len(q.pending) - 1)
      /\ Len(q.pending) \in Nat \ {0} /\ DOMAIN q.pending = 1..Len(q.pending)
  BY <1>5
<1>7. u.exists /\ u.running = q.running /\ u.pending = Tail(q.pending) /\ u \in Queue
  BY <1>6 DEF LineShape, Queue
<1>8. v = {d}
  BY <1>2
<1> HIDE DEF u, v, d
<1>9. Taken(sd, h) = n /\ Taken(v, h) = n + 1
  <2>1. v # {}
    BY <1>8
  <2>2. Taken(sd, h) = n + 0 /\ Taken(v, h) = n + 1
    BY <1>2, <2>1 DEF Taken
  <2> QED BY <1>5, <2>2
<1> HIDE DEF n
<1>10. d.seq = Turn(n + 1)
  BY <1>4, <1>6, <1>9 DEF QueuedInTurn
<1>11. SentInTurn(0, v, h)
  BY <1>2, <1>8, <1>10 DEF SentInTurn, n
<1>12. QueuedInTurn(s, u, 0, v, h)
  <2>1. ASSUME NEW i \in DOMAIN u.pending PROVE u.pending[i].seq = Turn(n + 1 + i)
    <3>1. i \in 1..(Len(q.pending) - 1) /\ i + 1 \in DOMAIN q.pending /\ n + (i + 1) = n + 1 + i
      <4>1. i \in 1..(Len(q.pending) - 1)
        BY <1>6, <1>7
      <4> DEFINE l == Len(q.pending)
      <4>2. i \in 1..(l - 1) /\ l \in Nat /\ n \in Nat /\ DOMAIN q.pending = 1..l
        BY <1>5, <1>6, <4>1
      <4> HIDE DEF l
      <4>3. i + 1 \in 1..l /\ n + (i + 1) = n + 1 + i
        BY <4>2
      <4> QED BY <4>1, <4>2, <4>3
    <3>2. u.pending[i] = q.pending[i + 1]
      BY <1>6, <1>7, <3>1
    <3>3. q.pending[i + 1].seq = Turn(n + (i + 1))
      BY <1>4, <1>9, <3>1 DEF QueuedInTurn
    <3> QED BY <3>1, <3>2, <3>3
  <2>2. s.next = Turn(n + 1 + Len(u.pending) + 1)
    <3>1. n + 1 + Len(u.pending) + 1 = n + Len(q.pending) + 1
      BY <1>5, <1>6, <1>7
    <3> QED BY <1>4, <1>9, <3>1 DEF QueuedInTurn
  <2>3. Len(u.pending) <= evLim.pending
    <3>1. Len(q.pending) <= evLim.pending
      BY <1>4 DEF QueuedInTurn
    <3>2. evLim.pending \in Nat /\ Len(u.pending) = Len(q.pending) - 1
      BY <1>6, <1>7 DEF LimitsAreNumbers
    <3> QED BY <1>6, <3>1, <3>2
  <2>4. u.running <=> 0 = 1 \/ v # {}
    BY <1>1, <1>4, <1>7, <1>8 DEF QueuedInTurn
  <2> QED BY <1>7, <1>9, <2>1, <2>2, <2>3, <2>4 DEF QueuedInTurn
<1>13. LineKept(s, u, 0, v, h)
  BY <1>4, <1>11, <1>12 DEF LineKept
<1>14. LineShape(s, u, 0, v, h)
  BY <1>6, <1>7, <1>8 DEF LineShape
<1> QED BY <1>1, <1>13, <1>14 DEF u, v, d

LEMMA LineHears ==
  ASSUME LimitsAreNumbers, evLim \in EventLimits,
         NEW s, NEW q, NEW w, NEW sd, NEW h, LineShape(s, q, w, sd, h), LineKept(s, q, w, sd, h),
         NEW d \in sd, NEW g \in Hearing, g.seqs = Append(h.seqs, d.seq),
         NEW t \in Subscription, t.at = s.at, t.next = s.next
  PROVE  /\ LineShape(t, q, w + 1, sd \ {d}, g)
         /\ LineKept(t, q, w + 1, sd \ {d}, g)
<1> DEFINE n == Len(h.seqs)
<1>1. sd = {d} /\ d.seq = Turn(n + 1) /\ w = 0 /\ SentInTurn(w, sd, h)
  BY DEF LineKept, SentInTurn
<1>2. h.seqs \in Seq(Nat) /\ d.seq \in Nat /\ n \in Nat
  BY DEF LineShape, Hearing, Delivery
<1>3. /\ Len(g.seqs) = n + 1 /\ DOMAIN g.seqs = 1..(n + 1) /\ DOMAIN h.seqs = 1..n
      /\ \A i \in 1..(n + 1) : g.seqs[i] = IF i = n + 1 THEN d.seq ELSE h.seqs[i]
  BY <1>2
<1>4. SentInTurn(1, {}, g)
  <2>1. ASSUME NEW i \in DOMAIN g.seqs PROVE g.seqs[i] = Turn(i)
    BY <1>1, <1>2, <1>3 DEF SentInTurn
  <2> QED BY <2>1 DEF SentInTurn
<1>5. Taken(sd, h) = n + 1 /\ Taken({}, g) = n + 1
  <2>1. sd # {}
    BY <1>1
  <2>2. Taken(sd, h) = n + 1 /\ Taken({}, g) = (n + 1) + 0
    BY <1>3, <2>1 DEF Taken
  <2> QED BY <1>2, <2>2
<1>6. s.at \notin {"none", "checking"}
  BY <1>1 DEF LineKept
<1>e. sd \ {d} = {} /\ w + 1 = 1 /\ LineShape(t, q, 1, {}, g)
  BY <1>1 DEF LineShape
<1>7. CASE s.at = "on"
  <2>1. QueuedInTurn(s, q, w, sd, h)
    BY <1>7 DEF LineKept
  <2>2. QueuedInTurn(t, q, 1, {}, g)
    BY <1>1, <1>5, <2>1 DEF QueuedInTurn
  <2>3. LineKept(t, q, 1, {}, g)
    BY <1>4, <1>7, <2>2 DEF LineKept
  <2> QED BY <1>e, <2>3
<1>8. CASE s.at # "on"
  <2>1. LineKept(t, q, 1, {}, g)
    BY <1>4, <1>6, <1>8 DEF LineKept
  <2> QED BY <1>e, <2>1
<1> QED BY <1>7, <1>8

-----------------------------------------------------------------------------
(* All lines together. *)
Lines(S, Q, W, D, H) ==
    /\ S \in [Points -> Subscription] /\ Q \in [Points -> Queue] /\ W \in [Points -> {0, 1}]
    /\ D \in [Points -> SUBSET Delivery] /\ H \in [Points -> Hearing]
    /\ \A p \in Points : LineKept(S[p], Q[p], W[p], D[p], H[p])

ScalarsKept ==
    evLim' = evLim /\ shown' \in Nat /\ readers' \in Seq(Nat) /\ snapshot' \in Nat

LEMMA LineOf ==
  ASSUME NEW S, NEW Q, NEW W, NEW D, NEW H, Lines(S, Q, W, D, H), NEW p \in Points
  PROVE  LineShape(S[p], Q[p], W[p], D[p], H[p]) /\ LineKept(S[p], Q[p], W[p], D[p], H[p])
BY DEF Lines, LineShape

LEMMA OneChanges ==
  ASSUME NEW S, NEW Q, NEW W, NEW D, NEW H, Lines(S, Q, W, D, H), NEW p \in Points,
         NEW s, NEW q, NEW w, NEW d, NEW h, LineShape(s, q, w, d, h), LineKept(s, q, w, d, h)
  PROVE  Lines([S EXCEPT ![p] = s], [Q EXCEPT ![p] = q], [W EXCEPT ![p] = w],
               [D EXCEPT ![p] = d], [H EXCEPT ![p] = h])
<1> DEFINE S1 == [S EXCEPT ![p] = s]
           Q1 == [Q EXCEPT ![p] = q]
           W1 == [W EXCEPT ![p] = w]
           D1 == [D EXCEPT ![p] = d]
           H1 == [H EXCEPT ![p] = h]
<1>1. S1 \in [Points -> Subscription] /\ Q1 \in [Points -> Queue] /\ W1 \in [Points -> {0, 1}]
  BY DEF Lines, LineShape
<1>2. D1 \in [Points -> SUBSET Delivery] /\ H1 \in [Points -> Hearing]
  BY DEF Lines, LineShape
<1>3. ASSUME NEW r \in Points PROVE LineKept(S1[r], Q1[r], W1[r], D1[r], H1[r])
  <2>1. CASE r = p
    <3>1. S1[r] = s /\ Q1[r] = q /\ W1[r] = w /\ D1[r] = d /\ H1[r] = h
      BY <2>1 DEF Lines
    <3> QED BY <3>1
  <2>2. CASE r # p
    <3>1. S1[r] = S[r] /\ Q1[r] = Q[r] /\ W1[r] = W[r] /\ D1[r] = D[r] /\ H1[r] = H[r]
      BY <2>2 DEF Lines
    <3> QED BY <3>1 DEF Lines
  <2> QED BY <2>1, <2>2
<1> HIDE DEF S1, Q1, W1, D1, H1
<1>4. Lines(S1, Q1, W1, D1, H1)
  BY <1>1, <1>2, <1>3 DEF Lines
<1> QED BY <1>4 DEF S1, Q1, W1, D1, H1

LEMMA NextLines ==
  ASSUME EventsShape, ScalarsKept, Lines(subs', queues', workers', sending', heard')
  PROVE  EventsShape' /\ LinesKept'
<1>1. Points' = Points
  BY DEF ScalarsKept, Points
<1>2. EventsShape'
  BY <1>1 DEF EventsShape, ScalarsKept, Lines
<1>3. \A n : Turn(n)' = Turn(n)
  BY DEF Turn, ScalarsKept
<1>4. ASSUME NEW p \in Points
      PROVE  LineKept(subs[p], queues[p], workers[p], sending[p], heard[p])'
  <2>1. LineKept(subs'[p], queues'[p], workers'[p], sending'[p], heard'[p])
    BY DEF Lines
  <2> QED BY <2>1 DEF LineKept, SentInTurn, QueuedInTurn, Taken, Turn, ScalarsKept, NoQueue
<1> QED BY <1>1, <1>2, <1>4 DEF LinesKept

LEMMA NowLines == ASSUME EventsShape, LinesKept PROVE Lines(subs, queues, workers, sending, heard)
BY DEF EventsShape, LinesKept, Lines

(* What pruneExpiredLocked leaves. *)
LEMMA PrunedLines ==
  ASSUME EventsShape, LinesKept
  PROVE  /\ Lines(Remaining, QueuesLeft, workers, sending, heard)
         /\ \A p \in Points : Remaining[p].at = "checking" <=> subs[p].at = "checking"
<1>1. NoQueue \in Queue
  BY DEF NoQueue, Queue
<1>2. ASSUME NEW p \in Points
      PROVE  /\ Remaining[p] = IF Pruned(p) THEN Gone(subs[p]) ELSE subs[p]
             /\ QueuesLeft[p] = IF Pruned(p) THEN NoQueue ELSE queues[p]
             /\ Gone(subs[p]) \in Subscription /\ Gone(subs[p]).at = "gone"
             /\ subs[p] \in Subscription /\ queues[p] \in Queue
  BY DEF Remaining, QueuesLeft, Gone, EventsShape, Subscription
<1>3. Remaining \in [Points -> Subscription] /\ QueuesLeft \in [Points -> Queue]
  <2>1. Remaining = [p \in Points |-> Remaining[p]] /\ QueuesLeft = [p \in Points |-> QueuesLeft[p]]
    BY DEF Remaining, QueuesLeft
  <2>2. \A p \in Points : Remaining[p] \in Subscription /\ QueuesLeft[p] \in Queue
    BY <1>1, <1>2
  <2> QED BY <2>1, <2>2
<1>4. ASSUME NEW p \in Points
      PROVE  /\ LineKept(Remaining[p], QueuesLeft[p], workers[p], sending[p], heard[p])
             /\ Remaining[p].at = "checking" <=> subs[p].at = "checking"
  <2>0. LineKept(subs[p], queues[p], workers[p], sending[p], heard[p])
    BY DEF LinesKept
  <2>1. CASE Pruned(p)
    <3>1. LineKept(Gone(subs[p]), NoQueue, workers[p], sending[p], heard[p])
      BY <1>2, <2>0, LineEnds
    <3> QED BY <1>2, <2>1, <3>1 DEF Pruned, On
  <2>2. CASE ~Pruned(p)
    BY <1>2, <2>0, <2>2
  <2> QED BY <2>1, <2>2
<1> QED BY <1>3, <1>4 DEF Lines, EventsShape

-----------------------------------------------------------------------------
(* Every step keeps the lines. *)
LEMMA WithoutShape ==
  ASSUME NEW s \in Seq(Nat), NEW i \in DOMAIN s
  PROVE  Without(s, i) \in Seq(Nat)
<1>1. i \in 1..Len(s) /\ Len(s) \in Nat
  OBVIOUS
<1>2. SubSeq(s, 1, i - 1) \in Seq(Nat)
  <2>1. \A k \in 1..(i - 1) : s[k] \in Nat
    BY <1>1
  <2> QED BY <1>1, <2>1, SubSeqProperties
<1>3. SubSeq(s, i + 1, Len(s)) \in Seq(Nat)
  <2>1. \A k \in (i + 1)..Len(s) : s[k] \in Nat
    BY <1>1
  <2> QED BY <1>1, <2>1, SubSeqProperties
<1> QED BY <1>2, <1>3 DEF Without

LEMMA PublishStep ==
  ASSUME LimitsAreNumbers, EventsShape, LinesKept, NEW i \in DOMAIN readers, Publish(i)
  PROVE  EventsShape' /\ LinesKept'
<1> DEFINE said == readers[i]
           new == said # snapshot
           Reaches(p) == new /\ Remaining[p].at = "on"
           D(p) == [seq |-> Remaining[p].next, state |-> said]
           q(p) == QueuesLeft[p]
<1>1. /\ readers' = Without(readers, i) /\ snapshot' = said
      /\ UNCHANGED <<evLim, shown, sending, heard>>
      /\ subs' = [p \in Points |->
             CASE Reaches(p) /\ Behind(q(p))  -> Gone(Remaining[p])
               [] Reaches(p) /\ ~Behind(q(p)) -> [Remaining[p] EXCEPT !.next = NextEventSeq(@)]
               [] OTHER -> Remaining[p]]
      /\ queues' = [p \in Points |-> IF Reaches(p) THEN Queued(q(p), D(p)) ELSE q(p)]
      /\ workers' = [p \in Points |->
             IF Reaches(p) /\ ~Behind(q(p)) /\ StartsWorker(q(p)) THEN workers[p] + 1 ELSE workers[p]]
  BY DEF Publish
<1>2. said \in Nat /\ evLim \in EventLimits /\ readers \in Seq(Nat) /\ shown \in Nat
  BY DEF EventsShape
<1>3. ScalarsKept
  BY <1>1, <1>2, WithoutShape DEF ScalarsKept
<1>4. Lines(Remaining, QueuesLeft, workers, sending, heard)
  BY PrunedLines
<1>5. ASSUME NEW p \in Points
      PROVE  /\ LineShape(subs'[p], queues'[p], workers'[p], sending'[p], heard'[p])
             /\ LineKept(subs'[p], queues'[p], workers'[p], sending'[p], heard'[p])
  <2> DEFINE s == Remaining[p]
  <2>0. LineShape(s, q(p), workers[p], sending[p], heard[p]) /\ LineKept(s, q(p), workers[p], sending[p], heard[p])
    BY <1>4, LineOf
  <2>u. sending'[p] = sending[p] /\ heard'[p] = heard[p]
    BY <1>1
  <2>1. CASE ~Reaches(p)
    <3>1. subs'[p] = s /\ queues'[p] = q(p) /\ workers'[p] = workers[p]
      BY <1>1, <2>1
    <3> QED BY <2>0, <2>u, <3>1
  <2>2. CASE Reaches(p) /\ Behind(q(p))
    <3>1. subs'[p] = Gone(s) /\ queues'[p] = NoQueue /\ workers'[p] = workers[p]
      <4>1. Queued(q(p), D(p)) = NoQueue
        BY <2>2 DEF Queued
      <4> QED BY <1>1, <2>2, <4>1
    <3>2. Gone(s).at = "gone" /\ Gone(s) \in Subscription /\ NoQueue \in Queue
      BY <2>0 DEF Gone, LineShape, Subscription, NoQueue, Queue
    <3>3. LineKept(Gone(s), NoQueue, workers[p], sending[p], heard[p])
      BY <2>0, <3>2, LineEnds
    <3> QED BY <2>0, <2>u, <3>1, <3>2, <3>3 DEF LineShape
  <2>3. CASE Reaches(p) /\ ~Behind(q(p))
    <3>1. /\ subs'[p] = [s EXCEPT !.next = NextEventSeq(@)]
          /\ queues'[p] = Queued(q(p), D(p))
          /\ workers'[p] = IF StartsWorker(q(p)) THEN workers[p] + 1 ELSE workers[p]
      BY <1>1, <2>3
    <3>2. s.at = "on" /\ ~Behind(q(p))
      BY <2>3
    <3> HIDE DEF q, s, said
    <3>3. LET d == [seq |-> s.next, state |-> said]
              t == [s EXCEPT !.next = NextEventSeq(@)]
              v == IF StartsWorker(q(p)) THEN workers[p] + 1 ELSE workers[p]
          IN /\ LineShape(t, Queued(q(p), d), v, sending[p], heard[p])
             /\ LineKept(t, Queued(q(p), d), v, sending[p], heard[p])
      BY <1>2, <2>0, <3>2, LineGrows
    <3>4. D(p) = [seq |-> s.next, state |-> said]
      BY DEF s
    <3> QED BY <2>u, <3>1, <3>3, <3>4
  <2> QED BY <2>1, <2>2, <2>3
<1>6. Lines(subs', queues', workers', sending', heard')
  <2> HIDE DEF said, new, Reaches, D, q
  <2>1. /\ subs' = [p \in Points |-> subs'[p]] /\ queues' = [p \in Points |-> queues'[p]]
        /\ workers' = [p \in Points |-> workers'[p]]
    BY <1>1
  <2>2. sending' \in [Points -> SUBSET Delivery] /\ heard' \in [Points -> Hearing]
    BY <1>1 DEF EventsShape
  <2> QED BY <1>5, <2>1, <2>2 DEF Lines, LineShape
<1> QED BY <1>3, <1>6, NextLines

LEMMA PointStep ==
  ASSUME LimitsAreNumbers, EventsShape, LinesKept, NEW p \in Points,
         \/ Subscribe(p) \/ Subscribed1(p) \/ BadCallback(p) \/ Unsubscribe(p) \/ Renew(p) \/ Expires(p)
  PROVE  EventsShape' /\ LinesKept'
<1> DEFINE S == Remaining
           Q == QueuesLeft
           w == workers[p]
           sd == sending[p]
           h == heard[p]
<1>0. evLim \in EventLimits /\ snapshot \in Nat
  BY DEF EventsShape
<1>1. ScalarsKept
  BY DEF EventsShape, ScalarsKept, Subscribe, Subscribed1, BadCallback, Unsubscribe, Renew, Expires
<1>2. Lines(subs, queues, workers, sending, heard) /\ Lines(S, Q, workers, sending, heard)
  BY NowLines, PrunedLines
<1>3. workers = [workers EXCEPT ![p] = w] /\ sending = [sending EXCEPT ![p] = sd] /\ heard = [heard EXCEPT ![p] = h]
  BY DEF EventsShape
<1>4. LineShape(S[p], Q[p], w, sd, h) /\ LineKept(S[p], Q[p], w, sd, h)
  BY <1>2, LineOf
<1>5. LineShape(subs[p], queues[p], w, sd, h) /\ LineKept(subs[p], queues[p], w, sd, h)
  BY <1>2, LineOf
<1>6. S[p].at = "checking" <=> subs[p].at = "checking"
  BY PrunedLines
<1>7. S[p].at = "none" <=> subs[p].at = "none"
  BY DEF Remaining, Pruned, On, Gone, EventsShape, Subscription
<1>8. /\ Q = [Q EXCEPT ![p] = Q[p]] /\ queues = [queues EXCEPT ![p] = queues[p]]
      /\ subs = [subs EXCEPT ![p] = subs[p]]
  BY <1>2 DEF Lines
<1> HIDE DEF S, Q, w, sd, h
<1>9. CASE Subscribe(p)
  <2> DEFINE t == [S[p] EXCEPT !.at = IF HasCapacity(S) THEN "checking" ELSE "gone"]
  <2>1. /\ subs' = [S EXCEPT ![p] = t] /\ queues' = Q
        /\ UNCHANGED <<workers, sending, heard>> /\ subs[p].at = "none"
    BY <1>9 DEF Subscribe, S, Q
  <2>2. t \in Subscription /\ t.at \in {"checking", "gone"}
    BY <1>4 DEF LineShape, Subscription
  <2>3. LineKept(t, Q[p], w, sd, h) /\ LineShape(t, Q[p], w, sd, h)
    BY <1>4, <1>7, <2>1, <2>2 DEF LineKept, LineShape
  <2> HIDE DEF t
  <2>4. Lines([S EXCEPT ![p] = t], [Q EXCEPT ![p] = Q[p]], [workers EXCEPT ![p] = w],
              [sending EXCEPT ![p] = sd], [heard EXCEPT ![p] = h])
    BY <1>2, <2>3, OneChanges
  <2>5. Lines(subs', queues', workers', sending', heard')
    BY <1>3, <1>8, <2>1, <2>4
  <2> QED BY <1>1, <2>5, NextLines
<1>10. CASE Subscribed1(p)
  <2>1. CASE StillRoom(S)
    <3> DEFINE t == [NoSub EXCEPT !.at = "on", !.next = 1]
               u == Queued(NoQueue, [seq |-> 0, state |-> snapshot])
    <3>1. /\ subs' = [S EXCEPT ![p] = t] /\ queues' = [Q EXCEPT ![p] = u]
          /\ workers' = [workers EXCEPT ![p] = w + 1]
          /\ UNCHANGED <<sending, heard>> /\ subs[p].at = "checking"
      BY <1>10, <2>1 DEF Subscribed1, S, Q, w
    <3>2. LineKept(t, u, w + 1, sd, h) /\ w + 1 = 1 /\ t \in Subscription /\ u \in Queue
      BY <1>0, <1>4, <1>6, <3>1, LineOpens
    <3> HIDE DEF t, u
    <3>3. LineShape(t, u, w + 1, sd, h)
      BY <1>4, <3>2 DEF LineShape
    <3>4. Lines([S EXCEPT ![p] = t], [Q EXCEPT ![p] = u], [workers EXCEPT ![p] = w + 1],
                [sending EXCEPT ![p] = sd], [heard EXCEPT ![p] = h])
      BY <1>2, <3>2, <3>3, OneChanges
    <3>5. Lines(subs', queues', workers', sending', heard')
      BY <1>3, <3>1, <3>4
    <3> QED BY <1>1, <3>5, NextLines
  <2>2. CASE ~StillRoom(S)
    <3> DEFINE t == [S[p] EXCEPT !.at = "gone"]
    <3>1. /\ subs' = [S EXCEPT ![p] = t] /\ queues' = Q
          /\ UNCHANGED <<workers, sending, heard>> /\ subs[p].at = "checking"
      BY <1>10, <2>2 DEF Subscribed1, S, Q
    <3>2. t \in Subscription /\ t.at = "gone"
      BY <1>4 DEF LineShape, Subscription
    <3>3. LineKept(t, Q[p], w, sd, h) /\ LineShape(t, Q[p], w, sd, h)
      BY <1>4, <1>6, <3>1, <3>2 DEF LineKept, LineShape
    <3> HIDE DEF t
    <3>4. Lines([S EXCEPT ![p] = t], [Q EXCEPT ![p] = Q[p]], [workers EXCEPT ![p] = w],
                [sending EXCEPT ![p] = sd], [heard EXCEPT ![p] = h])
      BY <1>2, <3>3, OneChanges
    <3>5. Lines(subs', queues', workers', sending', heard')
      BY <1>3, <1>8, <3>1, <3>4
    <3> QED BY <1>1, <3>5, NextLines
  <2> QED BY <2>1, <2>2
<1>11. CASE BadCallback(p)
  <2> DEFINE t == [subs[p] EXCEPT !.at = "gone"]
  <2>1. /\ subs' = [subs EXCEPT ![p] = t] /\ queues' = queues
        /\ UNCHANGED <<workers, sending, heard>> /\ subs[p].at = "checking"
    BY <1>11 DEF BadCallback
  <2>2. t \in Subscription /\ t.at = "gone"
    BY <1>5 DEF LineShape, Subscription
  <2>3. LineKept(t, queues[p], w, sd, h) /\ LineShape(t, queues[p], w, sd, h)
    BY <1>5, <2>1, <2>2 DEF LineKept, LineShape
  <2> HIDE DEF t
  <2>4. Lines([subs EXCEPT ![p] = t], [queues EXCEPT ![p] = queues[p]], [workers EXCEPT ![p] = w],
              [sending EXCEPT ![p] = sd], [heard EXCEPT ![p] = h])
    BY <1>2, <2>3, OneChanges
  <2>5. Lines(subs', queues', workers', sending', heard')
    BY <1>3, <1>8, <2>1, <2>4
  <2> QED BY <1>1, <2>5, NextLines
<1>12. CASE Unsubscribe(p)
  <2> DEFINE t == [S[p] EXCEPT !.at = "gone"]
  <2>1. /\ subs' = [S EXCEPT ![p] = t] /\ queues' = [Q EXCEPT ![p] = NoQueue]
        /\ UNCHANGED <<workers, sending, heard>>
    BY <1>12 DEF Unsubscribe, S, Q
  <2>2. t \in Subscription /\ t.at = "gone" /\ NoQueue \in Queue
    BY <1>4 DEF LineShape, Subscription, NoQueue, Queue
  <2> HIDE DEF t
  <2>3. LineKept(t, NoQueue, w, sd, h) /\ LineShape(t, NoQueue, w, sd, h)
    BY <1>4, <2>2, LineEnds DEF LineShape
  <2>4. Lines([S EXCEPT ![p] = t], [Q EXCEPT ![p] = NoQueue], [workers EXCEPT ![p] = w],
              [sending EXCEPT ![p] = sd], [heard EXCEPT ![p] = h])
    BY <1>2, <2>3, OneChanges
  <2>5. Lines(subs', queues', workers', sending', heard')
    BY <1>3, <2>1, <2>4
  <2> QED BY <1>1, <2>5, NextLines
<1>13. CASE Renew(p)
  <2>1. Lines(subs', queues', workers', sending', heard')
    BY <1>2, <1>13 DEF Renew, S, Q
  <2> QED BY <1>1, <2>1, NextLines
<1>14. CASE Expires(p)
  <2> DEFINE t == [subs[p] EXCEPT !.expired = TRUE]
  <2>1. subs' = [subs EXCEPT ![p] = t] /\ UNCHANGED <<queues, workers, sending, heard>>
    BY <1>14 DEF Expires
  <2>2. t \in Subscription /\ t.at = subs[p].at /\ t.next = subs[p].next
    BY <1>5 DEF LineShape, Subscription
  <2> HIDE DEF t
  <2>3. LineKept(t, queues[p], w, sd, h) /\ LineShape(t, queues[p], w, sd, h)
    BY <1>5, <2>2, LineSame DEF LineShape
  <2>4. Lines([subs EXCEPT ![p] = t], [queues EXCEPT ![p] = queues[p]], [workers EXCEPT ![p] = w],
              [sending EXCEPT ![p] = sd], [heard EXCEPT ![p] = h])
    BY <1>2, <2>3, OneChanges
  <2>5. Lines(subs', queues', workers', sending', heard')
    BY <1>3, <1>8, <2>1, <2>4
  <2> QED BY <1>1, <2>5, NextLines
<1> QED BY <1>9, <1>10, <1>11, <1>12, <1>13, <1>14

LEMMA SenderStep ==
  ASSUME LimitsAreNumbers, EventsShape, LinesKept, NEW p \in Points, Goroutine(p)
  PROVE  EventsShape' /\ LinesKept'
<1> DEFINE s == subs[p]
           q == queues[p]
           w == workers[p]
           sd == sending[p]
           h == heard[p]
<1>0. evLim \in EventLimits
  BY DEF EventsShape
<1>1. ScalarsKept
  BY DEF EventsShape, ScalarsKept, Goroutine, TakeNext, Delivers, Fails
<1>2. Lines(subs, queues, workers, sending, heard)
  BY NowLines
<1>3. /\ subs = [subs EXCEPT ![p] = s] /\ queues = [queues EXCEPT ![p] = q]
      /\ sending = [sending EXCEPT ![p] = sd] /\ heard = [heard EXCEPT ![p] = h]
  BY DEF EventsShape
<1>4. LineShape(s, q, w, sd, h) /\ LineKept(s, q, w, sd, h)
  BY <1>2, LineOf
<1>5. CASE TakeNext(p)
  <2>1. CASE ~q.exists \/ q.pending = <<>>
    <3> DEFINE u == IF q.exists THEN Rests(q) ELSE q
    <3>1. /\ w > 0 /\ workers' = [workers EXCEPT ![p] = w - 1]
          /\ queues' = [queues EXCEPT ![p] = u] /\ UNCHANGED <<subs, sending, heard>>
      BY <1>5, <2>1 DEF TakeNext
    <3> HIDE DEF s, q, w, sd, h
    <3>2. LineShape(s, u, w - 1, sd, h) /\ LineKept(s, u, w - 1, sd, h)
      BY <1>4, <2>1, <3>1, LineRests
    <3> HIDE DEF u
    <3>3. Lines([subs EXCEPT ![p] = s], [queues EXCEPT ![p] = u], [workers EXCEPT ![p] = w - 1],
                [sending EXCEPT ![p] = sd], [heard EXCEPT ![p] = h])
      BY <1>2, <3>2, OneChanges
    <3>4. Lines(subs', queues', workers', sending', heard')
      BY <1>3, <3>1, <3>3
    <3> QED BY <1>1, <3>4, NextLines
  <2>2. CASE q.exists /\ q.pending # <<>>
    <3> DEFINE u == [q EXCEPT !.pending = Tail(@)]
               v == sd \cup {Head(q.pending)}
    <3>1. /\ w > 0 /\ workers' = [workers EXCEPT ![p] = w - 1]
          /\ queues' = [queues EXCEPT ![p] = u] /\ sending' = [sending EXCEPT ![p] = v]
          /\ UNCHANGED <<subs, heard>>
      BY <1>5, <2>2 DEF TakeNext
    <3> HIDE DEF s, q, w, sd, h
    <3>2. LineShape(s, u, w - 1, v, h) /\ LineKept(s, u, w - 1, v, h)
      BY <1>0, <1>4, <2>2, <3>1, LineSends
    <3> HIDE DEF u, v
    <3>3. Lines([subs EXCEPT ![p] = s], [queues EXCEPT ![p] = u], [workers EXCEPT ![p] = w - 1],
                [sending EXCEPT ![p] = v], [heard EXCEPT ![p] = h])
      BY <1>2, <3>2, OneChanges
    <3>4. Lines(subs', queues', workers', sending', heard')
      BY <1>3, <3>1, <3>3
    <3> QED BY <1>1, <3>4, NextLines
  <2> QED BY <2>1, <2>2
<1>6. ASSUME NEW d \in sending[p], Delivers(p, d) PROVE EventsShape' /\ LinesKept'
  <2> DEFINE t == [s EXCEPT !.fails = IF On(p) THEN 0 ELSE @]
             g == [seqs |-> Append(h.seqs, d.seq), last |-> d.state]
  <2>1. /\ subs' = [subs EXCEPT ![p] = t] /\ queues' = queues
        /\ workers' = [workers EXCEPT ![p] = w + 1] /\ sending' = [sending EXCEPT ![p] = sd \ {d}]
        /\ heard' = [heard EXCEPT ![p] = g]
    BY <1>6 DEF Delivers
  <2>2. t \in Subscription /\ t.at = s.at /\ t.next = s.next
    BY <1>4 DEF LineShape, Subscription
  <2>3. g \in Hearing /\ g.seqs = Append(h.seqs, d.seq)
    <3>1. d.seq \in Nat /\ d.state \in Nat /\ h.seqs \in Seq(Nat)
      BY <1>4 DEF LineShape, Delivery, Hearing
    <3> QED BY <3>1 DEF Hearing
  <2> HIDE DEF s, q, w, h, t, g
  <2>4. LineShape(t, q, w + 1, sd \ {d}, g) /\ LineKept(t, q, w + 1, sd \ {d}, g)
    BY <1>0, <1>4, <2>2, <2>3, LineHears
  <2>5. Lines([subs EXCEPT ![p] = t], [queues EXCEPT ![p] = q], [workers EXCEPT ![p] = w + 1],
              [sending EXCEPT ![p] = sd \ {d}], [heard EXCEPT ![p] = g])
    BY <1>2, <2>4, OneChanges
  <2>6. Lines(subs', queues', workers', sending', heard')
    BY <1>3, <2>1, <2>5
  <2> QED BY <1>1, <2>6, NextLines
<1>7. ASSUME NEW d \in sending[p], Fails(p, d) PROVE EventsShape' /\ LinesKept'
  <2> DEFINE gone == On(p) /\ subs[p].fails + 1 >= evLim.failures
             t == [s EXCEPT !.fails = IF On(p) THEN @ + 1 ELSE @]
             r == [t EXCEPT !.at = IF gone THEN "gone" ELSE @]
             u == IF gone THEN NoQueue ELSE q
             g == [h EXCEPT !.seqs = Append(@, d.seq)]
  <2>1. /\ subs' = [subs EXCEPT ![p] = r]
        /\ workers' = [workers EXCEPT ![p] = w + 1] /\ sending' = [sending EXCEPT ![p] = sd \ {d}]
        /\ heard' = [heard EXCEPT ![p] = g]
    <3>1. subs' = [subs EXCEPT ![p].fails = IF On(p) THEN @ + 1 ELSE @, ![p].at = IF gone THEN "gone" ELSE @]
      BY <1>7 DEF Fails
    <3>2. subs' = [subs EXCEPT ![p] = r]
      BY <3>1 DEF EventsShape, Subscription
    <3> QED BY <1>7, <3>2 DEF Fails
  <2>q. queues' = [queues EXCEPT ![p] = u]
    BY <1>3, <1>7 DEF Fails
  <2>2. t \in Subscription /\ t.at = s.at /\ t.next = s.next
    BY <1>4 DEF LineShape, Subscription
  <2>3. g \in Hearing /\ g.seqs = Append(h.seqs, d.seq)
    <3>1. d.seq \in Nat /\ h.seqs \in Seq(Nat) /\ h \in Hearing
      BY <1>4 DEF LineShape, Delivery, Hearing
    <3> DEFINE heardNow == Append(h.seqs, d.seq)
    <3>2. heardNow \in Seq(Nat)
      BY <3>1
    <3>3. g = [h EXCEPT !.seqs = heardNow]
      OBVIOUS
    <3> HIDE DEF heardNow, g, h
    <3>4. g \in Hearing /\ g.seqs = heardNow
      BY <3>1, <3>2, <3>3 DEF Hearing
    <3> QED BY <3>4 DEF heardNow
  <2> HIDE DEF s, q, w, h, t, g, gone
  <2>4. r \in Subscription /\ (gone => r.at = "gone") /\ (~gone => r = t)
    <3>1. CASE gone
      BY <2>2, <3>1 DEF Subscription
    <3>2. CASE ~gone
      BY <2>2, <3>2 DEF Subscription
    <3> QED BY <3>1, <3>2
  <2>e. NoQueue \in Queue
    BY DEF NoQueue, Queue
  <2> HIDE DEF r
  <2>5. LineShape(t, q, w + 1, sd \ {d}, g) /\ LineKept(t, q, w + 1, sd \ {d}, g)
    BY <1>0, <1>4, <2>2, <2>3, LineHears
  <2>6. LineShape(r, u, w + 1, sd \ {d}, g) /\ LineKept(r, u, w + 1, sd \ {d}, g)
    BY <2>4, <2>e, <2>5, LineEnds DEF LineShape
  <2>7. Lines([subs EXCEPT ![p] = r], [queues EXCEPT ![p] = u], [workers EXCEPT ![p] = w + 1],
              [sending EXCEPT ![p] = sd \ {d}], [heard EXCEPT ![p] = g])
    BY <1>2, <2>6, OneChanges
  <2>8. Lines(subs', queues', workers', sending', heard')
    BY <2>1, <2>q, <2>7
  <2> QED BY <1>1, <2>8, NextLines
<1> QED BY <1>5, <1>6, <1>7 DEF Goroutine

LEMMA LinesStep ==
  ASSUME LimitsAreNumbers, EventsShape, LinesKept, [EventsNext]_eventVars
  PROVE  EventsShape' /\ LinesKept'
<1>1. CASE Change
  <2>1. shown' \in Nat /\ readers' \in Seq(Nat)
    <3>1. shown + 1 \in Nat /\ readers \in Seq(Nat)
      BY DEF EventsShape
    <3> QED BY <1>1, <3>1 DEF Change
  <2>2. ScalarsKept /\ UNCHANGED <<subs, queues, workers, sending, heard>>
    BY <1>1, <2>1 DEF Change, ScalarsKept, EventsShape
  <2>3. Lines(subs', queues', workers', sending', heard')
    BY <2>2, NowLines
  <2> QED BY <2>2, <2>3, NextLines
<1>2. ASSUME NEW i \in DOMAIN readers, Publish(i) PROVE EventsShape' /\ LinesKept'
  BY <1>2, PublishStep
<1>3. ASSUME NEW p \in Points,
             \/ Subscribe(p) \/ Subscribed1(p) \/ BadCallback(p) \/ Unsubscribe(p) \/ Renew(p) \/ Expires(p)
      PROVE  EventsShape' /\ LinesKept'
  BY <1>3, PointStep
<1>4. ASSUME NEW p \in Points, Goroutine(p) PROVE EventsShape' /\ LinesKept'
  BY <1>4, SenderStep
<1>5. CASE Reset
  <2>1. /\ subs' = [p \in Points |-> IF On(p) THEN Gone(subs[p]) ELSE subs[p]]
        /\ queues' = [p \in Points |-> NoQueue]
        /\ UNCHANGED <<evLim, shown, readers, snapshot, workers, sending, heard>>
    BY <1>5 DEF Reset
  <2>2. ScalarsKept
    BY <2>1 DEF ScalarsKept, EventsShape
  <2>3. NoQueue \in Queue /\ \A p \in Points : Gone(subs[p]) \in Subscription /\ Gone(subs[p]).at = "gone"
    <3>1. NoQueue \in Queue
      BY DEF NoQueue, Queue
    <3>2. \A p \in Points : subs[p] \in Subscription
      BY DEF EventsShape
    <3>3. \A x \in Subscription : Gone(x) \in Subscription /\ Gone(x).at = "gone"
      BY DEF Gone, Subscription
    <3> QED BY <3>1, <3>2, <3>3
  <2>4. ASSUME NEW p \in Points
        PROVE  /\ subs'[p] \in Subscription
               /\ LineKept(subs'[p], queues'[p], workers'[p], sending'[p], heard'[p])
    <3>0. LineKept(subs[p], queues[p], workers[p], sending[p], heard[p]) /\ subs[p] \in Subscription
      BY DEF LinesKept, EventsShape
    <3>1. CASE On(p)
      <4>1. LineKept(Gone(subs[p]), NoQueue, workers[p], sending[p], heard[p])
        BY <2>3, <3>0, LineEnds
      <4> QED BY <2>1, <2>3, <3>1, <4>1
    <3>2. CASE ~On(p)
      <4>1. queues[p] = NoQueue
        BY <3>0, <3>2 DEF LineKept, On
      <4> QED BY <2>1, <3>0, <3>2, <4>1
    <3> QED BY <3>1, <3>2
  <2>5. Lines(subs', queues', workers', sending', heard')
    <3>1. subs' = [p \in Points |-> subs'[p]]
      BY <2>1
    <3> QED BY <2>1, <2>3, <2>4, <3>1 DEF Lines, EventsShape
  <2> QED BY <2>2, <2>5, NextLines
<1>6. CASE UNCHANGED eventVars
  <2>1. ScalarsKept /\ UNCHANGED <<subs, queues, workers, sending, heard>>
    BY <1>6 DEF eventVars, ScalarsKept, EventsShape
  <2>2. Lines(subs', queues', workers', sending', heard')
    BY <2>1, NowLines
  <2> QED BY <2>1, <2>2, NextLines
<1> QED BY <1>1, <1>2, <1>3, <1>4, <1>5, <1>6 DEF EventsNext

-----------------------------------------------------------------------------
(* Nobody is let in but when there is room. *)
LEMMA RoomStep ==
  ASSUME LimitsAreNumbers, EventsShape, RoomKept, [EventsNext]_eventVars
  PROVE  RoomKept'
<1> DEFINE max == evLim.subscriptions
           Left == {p \in Points : Remaining[p].at = "on"}
<1>0. evLim' = evLim /\ Points' = Points
  BY DEF EventsNext, eventVars, Change, Publish, Subscribe, Subscribed1, BadCallback, Unsubscribe, Renew,
         Expires, Goroutine, TakeNext, Delivers, Fails, Reset, Points
<1>1. IsFiniteSet(Points) /\ max \in Nat
  <2>1. evLim.points \in Nat /\ max \in Nat
    BY DEF EventsShape, LimitsAreNumbers
  <2> QED BY <2>1, FS_Interval DEF Points
<1>2. /\ IsFiniteSet(Subscribed) /\ Cardinality(Subscribed) \in Nat
      /\ \A T : T \subseteq Subscribed => IsFiniteSet(T) /\ Cardinality(T) <= Cardinality(Subscribed)
  <2>1. IsFiniteSet(Subscribed)
    BY <1>1, FS_Subset DEF Subscribed
  <2> QED BY <2>1, FS_Subset, FS_CardinalityType
<1>3. Left \subseteq Subscribed
  BY DEF Remaining, Pruned, Gone, Subscribed, On, EventsShape, Subscription
<1>4. ASSUME Subscribed' \subseteq Subscribed PROVE RoomKept'
  <2>1. Cardinality(Subscribed') <= Cardinality(Subscribed) /\ Cardinality(Subscribed') \in Nat
    BY <1>2, <1>4, FS_CardinalityType
  <2>2. Cardinality(Subscribed) <= max
    BY DEF RoomKept
  <2>3. Cardinality(Subscribed') <= max
    BY <1>1, <1>2, <2>1, <2>2
  <2> QED BY <1>0, <2>3 DEF RoomKept
<1>5. ASSUME \A r \in Points : subs'[r].at = "on" => subs[r].at = "on" PROVE RoomKept'
  BY <1>0, <1>4, <1>5 DEF Subscribed, On
<1>r. \A r \in Points : Remaining[r].at = "on" => subs[r].at = "on"
  BY DEF Remaining, Pruned, Gone, On, EventsShape, Subscription
<1>s. Remaining \in [Points -> Subscription] /\ subs \in [Points -> Subscription]
  BY DEF Remaining, Pruned, Gone, EventsShape, Subscription
<1>6. ASSUME NEW p \in Points, Subscribed1(p), StillRoom(Remaining) PROVE RoomKept'
  <2>1. subs' = [Remaining EXCEPT ![p] = [NoSub EXCEPT !.at = "on", !.next = 1]]
    BY <1>6 DEF Subscribed1
  <2>2. Subscribed' \subseteq Left \cup {p}
    BY <1>0, <1>s, <2>1 DEF Subscribed, On
  <2>3. Cardinality(Left) < max
    BY <1>6 DEF StillRoom, HasCapacity
  <2>4. IsFiniteSet(Left) /\ Cardinality(Left) \in Nat
    BY <1>2, <1>3, FS_CardinalityType
  <2>5. IsFiniteSet(Left \cup {p}) /\ Cardinality(Left \cup {p}) <= Cardinality(Left) + 1
        /\ Cardinality(Left \cup {p}) \in Nat
    <3> HIDE DEF Left
    <3>1. /\ IsFiniteSet(Left \cup {p})
          /\ Cardinality(Left \cup {p}) = IF p \in Left THEN Cardinality(Left) ELSE Cardinality(Left) + 1
      BY <2>4, FS_AddElement
    <3> QED BY <2>4, <3>1
  <2>6. Cardinality(Subscribed') <= Cardinality(Left \cup {p}) /\ Cardinality(Subscribed') \in Nat
    BY <2>2, <2>5, FS_Subset, FS_CardinalityType
  <2> HIDE DEF Left
  <2>7. Cardinality(Subscribed') <= max
    BY <1>1, <2>3, <2>4, <2>5, <2>6
  <2> QED BY <1>0, <2>7 DEF RoomKept
<1> HIDE DEF Left
<1>7. CASE Change \/ Reset \/ UNCHANGED eventVars
  <2>1. \A r \in Points : subs'[r].at = "on" => subs[r].at = "on"
    BY <1>7, <1>s DEF Change, Reset, eventVars, On, Gone, Subscription
  <2> QED BY <1>5, <2>1
<1>8. ASSUME NEW i \in DOMAIN readers, Publish(i) PROVE RoomKept'
  <2> DEFINE Reaches(p) == readers[i] # snapshot /\ Remaining[p].at = "on"
  <2>1. subs' = [p \in Points |->
             CASE Reaches(p) /\ Behind(QueuesLeft[p])  -> Gone(Remaining[p])
               [] Reaches(p) /\ ~Behind(QueuesLeft[p]) -> [Remaining[p] EXCEPT !.next = NextEventSeq(@)]
               [] OTHER -> Remaining[p]]
    BY <1>8 DEF Publish
  <2>2. ASSUME NEW r \in Points, subs'[r].at = "on" PROVE subs[r].at = "on"
    <3>1. CASE Reaches(r)
      BY <1>r, <3>1
    <3>2. CASE ~Reaches(r)
      <4>1. subs'[r] = Remaining[r]
        BY <2>1, <3>2
      <4> QED BY <1>r, <2>2, <4>1
    <3> QED BY <3>1, <3>2
  <2> QED BY <1>5, <2>2
<1>9. ASSUME NEW p \in Points,
             \/ Subscribe(p) \/ (Subscribed1(p) /\ ~StillRoom(Remaining)) \/ BadCallback(p)
             \/ Unsubscribe(p) \/ Renew(p) \/ Expires(p)
      PROVE  RoomKept'
  <2>1. \E x \in {"none", "checking", "gone"} : subs' = [Remaining EXCEPT ![p].at = x]
        \/ subs' = Remaining
        \/ subs' = [subs EXCEPT ![p].at = x] \/ subs' = [subs EXCEPT ![p].expired = TRUE]
    BY <1>9 DEF Subscribe, Subscribed1, BadCallback, Unsubscribe, Renew, Expires
  <2>2. \A r \in Points : subs'[r].at = "on" => subs[r].at = "on"
    BY <1>r, <1>s, <2>1 DEF Subscription
  <2> QED BY <1>5, <2>2
<1>10. ASSUME NEW p \in Points, Goroutine(p) PROVE RoomKept'
  <2>1. CASE TakeNext(p)
    BY <1>5, <2>1 DEF TakeNext
  <2>2. ASSUME NEW d \in sending[p], Delivers(p, d) PROVE RoomKept'
    <3>1. subs' = [subs EXCEPT ![p].fails = IF On(p) THEN 0 ELSE @]
      BY <2>2 DEF Delivers
    <3>2. \A r \in Points : subs'[r].at = subs[r].at
      BY <1>s, <3>1 DEF Subscription
    <3> QED BY <1>5, <3>2
  <2>3. ASSUME NEW d \in sending[p], Fails(p, d) PROVE RoomKept'
    <3> DEFINE gone == On(p) /\ subs[p].fails + 1 >= evLim.failures
               f == IF On(p) THEN subs[p].fails + 1 ELSE subs[p].fails
    <3>1. subs' = [subs EXCEPT ![p].fails = f, ![p].at = IF gone THEN "gone" ELSE @]
      BY <2>3 DEF Fails
    <3> HIDE DEF gone, f
    <3>2. \A r \in Points : subs'[r].at = subs[r].at \/ subs'[r].at = "gone"
      BY <1>s, <3>1 DEF Subscription
    <3> QED BY <1>5, <3>2
  <2> QED BY <1>10, <2>1, <2>2, <2>3 DEF Goroutine
<1> QED BY <1>6, <1>7, <1>8, <1>9, <1>10 DEF EventsNext

LEMMA EventsStart == ASSUME LimitsAreNumbers, EventsInit PROVE EventsInv
<1> USE DEF EventsInit
<1>1. evLim \in EventLimits /\ evLim.points \in Nat /\ evLim.subscriptions \in Nat
  BY DEF LimitsAreNumbers
<1>2. NoSub \in Subscription /\ NoQueue \in Queue /\ NoSub.at = "none"
  BY DEF NoSub, Subscription, NoQueue, Queue
<1>3. [seqs |-> <<>>, last |-> 0] \in Hearing
  BY DEF Hearing
<1>4. EventsShape
  BY <1>1, <1>2, <1>3 DEF EventsShape
<1>5. LinesKept
  BY <1>2 DEF LinesKept, LineKept, SentInTurn
<1>6. Subscribed = {}
  BY <1>2 DEF Subscribed, On
<1>7. RoomKept
  BY <1>1, <1>6, FS_EmptySet DEF RoomKept
<1> QED BY <1>4, <1>5, <1>7 DEF EventsInv

(* However many subscribe, leave, expire, are behind or cannot be reached, *)
(* and in whatever order publications cross: every subscriber is sent SEQ  *)
(* 0 and then each number in its turn, one at a time, from a queue that    *)
(* keeps its limit, and no more are subscribed than may be.                *)
THEOREM EventsTakeTurns == ASSUME LimitsAreNumbers PROVE EventsSpec => []EventsInOrder
<1>1. EventsInit => EventsInv
  BY EventsStart
<1>2. EventsInv /\ [EventsNext]_eventVars => EventsInv'
  BY LinesStep, RoomStep DEF EventsInv
<1>3. EventsInv => EventsInOrder
  <2> SUFFICES ASSUME EventsInv PROVE EventsInOrder
    OBVIOUS
  <2>1. ASSUME NEW p \in Points
        PROVE  /\ Cardinality(sending[p]) + workers[p] <= 1
               /\ Len(queues[p].pending) <= evLim.pending
               /\ \A n \in DOMAIN heard[p].seqs : heard[p].seqs[n] = Turn(n)
    <3>1. LineKept(subs[p], queues[p], workers[p], sending[p], heard[p]) /\ workers[p] \in {0, 1}
      BY DEF EventsInv, LinesKept, EventsShape
    <3>2. Cardinality(sending[p]) + workers[p] <= 1
      <4>1. CASE sending[p] = {}
        BY <3>1, <4>1, FS_EmptySet
      <4>2. ASSUME NEW d \in sending[p] PROVE Cardinality(sending[p]) = 1 /\ workers[p] = 0
        BY <3>1, FS_Singleton DEF LineKept, SentInTurn
      <4> QED BY <4>1, <4>2
    <3>3. Len(queues[p].pending) <= evLim.pending
      <4>1. evLim.pending \in Nat
        BY DEF EventsInv, EventsShape, LimitsAreNumbers
      <4>2. CASE subs[p].at = "on"
        BY <3>1, <4>2 DEF LineKept, QueuedInTurn
      <4>3. CASE subs[p].at # "on"
        <5>1. queues[p].pending = <<>>
          BY <3>1, <4>3 DEF LineKept, NoQueue
        <5> QED BY <4>1, <5>1
      <4> QED BY <4>2, <4>3
    <3> QED BY <3>1, <3>2, <3>3 DEF LineKept, SentInTurn
  <2> QED BY <2>1 DEF EventsInv, RoomKept, EventsInOrder
<1> QED BY <1>1, <1>2, <1>3, PTL DEF EventsSpec

-----------------------------------------------------------------------------
(* The torrents. *)

(* A setting that only a new client can take is not applied while starts   *)
(* overlap cleanups: see NothingLeaks.                                     *)
SettingsWait ==
    \A l \in TorrentLimits :
        /\ l \in [starts : Nat, ports : Nat, together : BOOLEAN, keep : BOOLEAN, toggles : BOOLEAN]
        /\ l.together => l.ports <= 1

Configs == [enabled : BOOLEAN, keep : BOOLEAN, port : Nat \ {0}]
Stages  == {"client", "made", "add", "info", "undo", "start", "failed", "over"}
AStart == [at : Stages, hash : Hashes, cfg : Configs, client : Nat]
Jobs    == [at : {"drop", "data"}, start : Ids, hash : Hashes, keep : BOOLEAN,
            drops : SUBSET (Nat \X Hashes), removes : SUBSET Hashes, active : SUBSET Hashes, closes : Nat]

LeaseShape ==
    /\ SettingsWait /\ lim \in TorrentLimits /\ cfg \in Configs /\ client \in {0} \cup Ids
    /\ open \subseteq [id : Ids, port : Nat] /\ held \subseteq Nat \X Hashes
    /\ storage \subseteq Hashes /\ dirs \subseteq Ids /\ kept \subseteq Hashes
    /\ sessions \subseteq [start : Ids, hash : Hashes, client : Nat, keep : BOOLEAN]
    /\ uses \subseteq [hash : Hashes, client : Nat, refs : Nat, keep : BOOLEAN]
    /\ pending \in BOOLEAN
    /\ starts \in [Ids -> {Unborn} \cup AStart]
    /\ casts \in Ids \cup {0, Foreign} /\ onStops \subseteq Ids
    /\ jobs \subseteq Jobs /\ prunes \subseteq SUBSET Hashes

Has(s)       == starts[s].at \in {"info", "undo"}
HasClient(s) == starts[s].at \in {"add", "info", "undo", "start", "failed"}
Past(s)      == starts[s].at \notin {"unborn", "client", "made"}
Early(s)     == starts[s].at \in {"client", "made", "add", "info", "undo", "start"}
Of(h)        == {r \in sessions : r.hash = h}

(* A torrent's use counts its sessions.                                    *)
Counted ==
    /\ IsFiniteSet(sessions)
    /\ \A r, q \in sessions : r.start = q.start => r = q
    /\ \A u \in uses : u.refs = Cardinality(Of(u.hash)) /\ Of(u.hash) # {}
    /\ \A r \in sessions : Use(r.hash) # {}
    /\ \A u, v \in uses : u.hash = v.hash => u = v

(* A session plays, is about to, or will be told that it is over. *)
Followed ==
    /\ \A r \in sessions : r.start = casts \/ r.start \in onStops \/ starts[r.start].at \in {"start", "failed"}
    /\ \A s \in onStops \cup ({casts} \cap Ids) : At(s, "over")
    /\ casts \notin onStops
    /\ \A r \in sessions : starts[r.start].at \in {"start", "failed", "over"}

(* The client does not change under those who use it. *)
OneClient ==
    /\ Busy => cfg.enabled /\ ~pending
    /\ pending => ~lim.together /\ client # 0 /\ sessions # {} /\ \A r \in sessions : r.start \in onStops
    /\ \A s \in Ids : HasClient(s) => starts[s].client = client /\ client # 0
    /\ \A s \in Ids : At(s, "made") => starts[s].client = s
    /\ \A r \in sessions : r.client = client /\ client # 0
    /\ \A u \in uses : u.client = client
    /\ client # 0 => Past(client)
    /\ \A j \in jobs : j.closes # 0 => j.closes # client /\ j.closes \in Ids /\ Past(j.closes)

KeepIsOne ==
    /\ cfg.keep = lim.keep
    /\ \A s \in Ids : ~At(s, "unborn") => starts[s].cfg.keep = lim.keep /\ (lim.keep => starts[s].hash \in kept)
    /\ \A r \in sessions : r.keep = lim.keep /\ (lim.keep => r.hash \in kept)
    /\ \A u \in uses : u.keep = lim.keep
    /\ \A j \in jobs : j.keep = lim.keep

(* Whatever is there has somebody who will let go of it. *)
Wanted(h) == Use(h) # {} \/ \E s \in Ids : Has(s) /\ starts[s].hash = h

Accounted ==
    /\ \A c \in open : c.id = client \/ At(c.id, "made") \/ \E j \in jobs : j.closes = c.id
    /\ \A t \in held :
          \/ t[1] = client /\ Wanted(t[2])
          \/ \E j \in jobs : j.closes = t[1] \/ (j.at = "drop" /\ t \in j.drops)
    /\ \A h \in storage : h \in kept \/ Wanted(h) \/ \E j \in jobs : h \in j.removes
    /\ \A d \in dirs :
          /\ starts[d].at \in {"start", "failed", "over"}
          /\ lim.keep \/ d \in Registered \/ \E j \in jobs : j.at = "drop" /\ j.start = d

(* Where nothing overlaps, what others decided is none of a session's. *)
Alone ==
    /\ \A s, t \in Ids : Starting(s) /\ Starting(t) => s = t
    /\ \A s \in Ids : Early(s) => ~CleaningUp
    /\ \A r \in sessions : <<client, r.hash>> \in held /\ r.hash \in storage /\ r.start \in dirs
    /\ \A s \in Ids : At(s, "info") => <<client, starts[s].hash>> \in held /\ starts[s].hash \in storage
    /\ \A s \in Ids : At(s, "undo") => Of(starts[s].hash) = {}
    /\ \A j \in jobs, r \in sessions :
          /\ \A t \in j.drops : t[2] # r.hash
          /\ r.hash \notin j.removes /\ r.hash \in j.active /\ r.start # j.start
    /\ \A a \in prunes, r \in sessions : r.hash \in a
    /\ \A s \in Ids : Starting(s) => starts[s].cfg.port = cfg.port
    /\ \A c \in open : c.id = client => c.port = cfg.port \/ pending
    /\ \A c \in open : At(c.id, "made") => c.port = cfg.port

AloneInv == ~lim.together => Alone

LeaseInv == LeaseShape /\ Counted /\ Followed /\ OneClient /\ KeepIsOne /\ Accounted /\ AloneInv

(* A start that goes on keeps what it holds, and the others are where they *)
(* were.                                                                   *)
LEMMA StartGoes ==
  ASSUME LeaseShape, NEW s \in Ids, ~At(s, "unborn"), NEW at \in Stages, To(s, at)
  PROVE  /\ starts' \in [Ids -> {Unborn} \cup AStart]
         /\ starts'[s].at = at /\ starts'[s].hash = starts[s].hash
         /\ starts'[s].cfg = starts[s].cfg /\ starts'[s].client = starts[s].client
         /\ \A t \in Ids : t # s => starts'[t] = starts[t]
<1>1. starts[s] \in AStart
  BY DEF LeaseShape, At, Unborn
<1>2. [starts[s] EXCEPT !.at = at] \in AStart
  BY <1>1 DEF AStart
<1> QED BY <1>1, <1>2 DEF To, Goes, LeaseShape, AStart

(* One that takes a client. *)
LEMMA StartTakes ==
  ASSUME LeaseShape, NEW s \in Ids, ~At(s, "unborn"), NEW at \in Stages, NEW c \in Nat,
         Goes(s, [starts[s] EXCEPT !.at = at, !.client = c])
  PROVE  /\ starts' \in [Ids -> {Unborn} \cup AStart]
         /\ starts'[s].at = at /\ starts'[s].hash = starts[s].hash
         /\ starts'[s].cfg = starts[s].cfg /\ starts'[s].client = c
         /\ \A t \in Ids : t # s => starts'[t] = starts[t]
<1>1. starts[s] \in AStart
  BY DEF LeaseShape, At, Unborn
<1>2. [starts[s] EXCEPT !.at = at, !.client = c] \in AStart
  BY <1>1 DEF AStart
<1> QED BY <1>1, <1>2 DEF Goes, LeaseShape, AStart

LEMMA LeaseBasics ==
  ASSUME LeaseShape
  PROVE  /\ lim.starts \in Nat /\ lim.ports \in Nat /\ lim.together \in BOOLEAN /\ lim.keep \in BOOLEAN
         /\ lim.together => lim.ports <= 1
         /\ 0 \notin Ids /\ Foreign \notin Ids /\ Ids \subseteq Nat
         /\ client \in Nat
         /\ \A s \in Ids : starts[s] = Unborn \/ starts[s] \in AStart
         /\ \A s \in Ids : ~At(s, "unborn") => starts[s] \in AStart
         /\ cfg.port \in Nat \ {0} /\ cfg.enabled \in BOOLEAN /\ cfg.keep \in BOOLEAN
<1>1. lim \in [starts : Nat, ports : Nat, together : BOOLEAN, keep : BOOLEAN, toggles : BOOLEAN]
  BY DEF LeaseShape, SettingsWait
<1>2. /\ lim.starts \in Nat /\ lim.ports \in Nat /\ lim.together \in BOOLEAN /\ lim.keep \in BOOLEAN
      /\ lim.together => lim.ports <= 1
  BY <1>1 DEF LeaseShape, SettingsWait
<1>3. 0 \notin Ids /\ Foreign \notin Ids /\ Ids \subseteq Nat
  BY <1>2 DEF Ids, Foreign
<1>4. client \in Nat
  BY <1>3 DEF LeaseShape
<1>5. \A s \in Ids : starts[s] = Unborn \/ starts[s] \in AStart
  BY DEF LeaseShape
<1>6. cfg.port \in Nat \ {0} /\ cfg.enabled \in BOOLEAN /\ cfg.keep \in BOOLEAN
  BY DEF LeaseShape, Configs
<1>7. \A s \in Ids : ~At(s, "unborn") => starts[s] \in AStart
  BY <1>5 DEF At, Unborn
<1> QED BY <1>2, <1>3, <1>4, <1>5, <1>6, <1>7

-----------------------------------------------------------------------------
LEMMA BeginKeeps ==
  ASSUME LeaseInv, NEW s \in Ids, BeginStart(s)
  PROVE  LeaseInv'
<1> USE DEF LeaseInv
<1>1. PICK h \in Hashes :
          /\ Goes(s, [at |-> "client", hash |-> h, cfg |-> cfg, client |-> 0])
          /\ kept' = IF cfg.keep THEN kept \cup {h} ELSE kept
  BY DEF BeginStart
<1>2. /\ ~Busy \/ lim.together
      /\ ~CleaningUp \/ lim.together
      /\ starts[s].at = "unborn" /\ cfg.enabled
  BY DEF BeginStart, At
<1>3. [at |-> "client", hash |-> h, cfg |-> cfg, client |-> 0] \in AStart
  BY DEF AStart, LeaseShape, Stages
<1>4. /\ starts' \in [Ids -> {Unborn} \cup AStart]
      /\ starts'[s].at = "client" /\ starts'[s].hash = h /\ starts'[s].cfg = cfg
      /\ \A t \in Ids : t # s => starts'[t] = starts[t]
  BY <1>1, <1>3 DEF Goes, LeaseShape
<1>5. LeaseShape'
  BY <1>1, <1>4 DEF BeginStart, LeaseShape, SettingsWait, Ids, Foreign, Jobs
<1>6. Counted'
  BY DEF BeginStart, Counted, Of, Use
<1>7. Followed'
  BY <1>2, <1>4 DEF BeginStart, Followed, At, Ids, LeaseShape
<1>8. OneClient'
  <2>1. ~pending
    BY <1>2 DEF OneClient, Followed, CleaningUp
  <2> QED BY <1>2, <1>4, <2>1 DEF BeginStart, OneClient, At, Ids, HasClient, Past, Busy, Starting, LeaseShape
<1>9. KeepIsOne'
  BY <1>1, <1>2, <1>4 DEF BeginStart, KeepIsOne, At, Ids, LeaseShape
<1>10. Accounted'
  BY <1>1, <1>2, <1>4 DEF BeginStart, Accounted, At, Ids, LeaseShape, Use, Wanted, Has, Registered
<1>11. AloneInv'
  BY <1>1, <1>2, <1>4 DEF BeginStart, AloneInv, Alone, At, Ids, LeaseShape, Use, Has, Of, CleaningUp, Busy, Starting, Early
<1> QED BY <1>5, <1>6, <1>7, <1>8, <1>9, <1>10, <1>11

LEMMA TakeKeeps ==
  ASSUME LeaseInv, NEW s \in Ids, TakeClient(s)
  PROVE  LeaseInv'
<1> USE DEF LeaseInv
<1>0. starts[s].at = "client" /\ ~At(s, "unborn") /\ s \in Nat /\ s # 0 /\ "add" \in Stages /\ "made" \in Stages
  BY LeaseBasics DEF TakeClient, At, Stages
<1>1. CASE client # 0
  <2>1. /\ starts' \in [Ids -> {Unborn} \cup AStart]
        /\ starts'[s].at = "add" /\ starts'[s].hash = starts[s].hash
        /\ starts'[s].cfg = starts[s].cfg /\ starts'[s].client = client
        /\ \A t \in Ids : t # s => starts'[t] = starts[t]
    BY <1>0, <1>1, StartTakes, LeaseBasics DEF TakeClient
  <2>2. UNCHANGED <<open, lim, cfg, client, held, storage, dirs, sessions, uses, pending, casts, onStops, jobs, prunes, kept>>
    BY <1>1 DEF TakeClient
  <2>5. LeaseShape'
    BY <2>1, <2>2 DEF LeaseShape, SettingsWait, Ids, Foreign, Jobs
  <2>6. Counted'
    BY <2>2 DEF Counted, Of, Use
  <2>7. Followed'
    BY <1>0, <2>1, <2>2 DEF Followed, At, Ids, LeaseShape
  <2>8. OneClient'
    BY <1>0, <1>1, <2>1, <2>2 DEF OneClient, At, Ids, HasClient, Past, Busy, Starting, LeaseShape
  <2>9. KeepIsOne'
    BY <1>0, <2>1, <2>2 DEF KeepIsOne, At, Ids, LeaseShape
  <2>10. Accounted'
    BY <1>0, <2>1, <2>2 DEF Accounted, At, Ids, LeaseShape, Use, Wanted, Has, Registered
  <2>11. AloneInv'
    BY <1>0, <2>1, <2>2 DEF AloneInv, Alone, At, Ids, LeaseShape, Use, Has, Of, CleaningUp, Starting, Early
  <2> QED BY <2>5, <2>6, <2>7, <2>8, <2>9, <2>10, <2>11
<1>2. CASE client = 0
  <2>1. /\ starts' \in [Ids -> {Unborn} \cup AStart]
        /\ starts'[s].at = "made" /\ starts'[s].hash = starts[s].hash
        /\ starts'[s].cfg = starts[s].cfg /\ starts'[s].client = s
        /\ \A t \in Ids : t # s => starts'[t] = starts[t]
    BY <1>0, <1>2, StartTakes DEF TakeClient
  <2> DEFINE new == [id |-> s, port |-> starts[s].cfg.port]
  <2>2. UNCHANGED <<lim, cfg, client, held, storage, dirs, sessions, uses, pending, casts, onStops, jobs, prunes, kept>>
    BY <1>2 DEF TakeClient
  <2>3. open' = open \cup {new} /\ new \in [id : Ids, port : Nat] /\ new.id = s /\ new.port = starts[s].cfg.port
    <3>1. starts[s].cfg \in Configs
      BY <1>0, LeaseBasics DEF AStart
    <3> QED BY <1>2, <3>1 DEF TakeClient, Configs
  <2> HIDE DEF new
  <2>4. LeaseShape'
    BY <2>1, <2>2, <2>3 DEF LeaseShape, SettingsWait, Ids, Foreign, Jobs
  <2>6. Counted'
    BY <2>2 DEF Counted, Of, Use
  <2>7. Followed'
    BY <1>0, <2>1, <2>2 DEF Followed, At, Ids, LeaseShape
  <2>8. OneClient'
    BY <1>0, <1>2, <2>1, <2>2 DEF OneClient, At, Ids, HasClient, Past, Busy, Starting, LeaseShape
  <2>9. KeepIsOne'
    BY <1>0, <2>1, <2>2 DEF KeepIsOne, At, Ids, LeaseShape
  <2>10. Accounted'
    <3>1. ASSUME NEW c \in open' PROVE (c.id = client \/ At(c.id, "made") \/ \E j \in jobs : j.closes = c.id)'
      <4>1. CASE c = new
        BY <2>1, <2>3, <4>1 DEF At
      <4>2. CASE c \in open
        BY <1>0, <2>1, <2>2, <4>2 DEF Accounted, At, LeaseShape
      <4> QED BY <2>3, <3>1, <4>1, <4>2
    <3> QED BY <1>0, <2>1, <2>2, <3>1 DEF Accounted, At, Ids, LeaseShape, Use, Wanted, Has, Registered
  <2>11. AloneInv'
    <3> SUFFICES ASSUME ~lim.together PROVE Alone'
      BY <2>2 DEF AloneInv
    <3>1. starts[s].cfg.port = cfg.port
      BY <1>0 DEF AloneInv, Alone, Starting
    <3>2. ASSUME NEW c \in open' PROVE (c.id = client => c.port = cfg.port \/ pending)' /\ (At(c.id, "made") => c.port = cfg.port)'
      <4>1. CASE c = new
        BY <2>1, <2>2, <2>3, <3>1, <4>1 DEF At
      <4>2. CASE c \in open
        <5>1. c.id # s
          BY <1>0, <1>2, <4>2 DEF Accounted, OneClient, At, Past
        <5> QED BY <1>0, <1>2, <2>1, <2>2, <4>2, <5>1 DEF AloneInv, Alone, At, LeaseShape
      <4> QED BY <2>3, <3>2, <4>1, <4>2
    <3> QED BY <1>0, <1>2, <2>1, <2>2, <3>2 DEF AloneInv, Alone, At, Ids, LeaseShape, Use, Has, Of, CleaningUp, Starting, Early
  <2> QED BY <2>4, <2>6, <2>7, <2>8, <2>9, <2>10, <2>11
<1> QED BY <1>1, <1>2

LEMMA InstallKeeps ==
  ASSUME LeaseInv, NEW s \in Ids, InstallClient(s)
  PROVE  LeaseInv'
<1> USE DEF LeaseInv
<1>0. starts[s].at = "made" /\ ~At(s, "unborn") /\ s \in Nat /\ s # 0 /\ "add" \in Stages /\ starts[s].client = s
  BY LeaseBasics DEF InstallClient, At, Stages, OneClient
<1>1. CASE client # 0
  <2>1. /\ starts' \in [Ids -> {Unborn} \cup AStart]
        /\ starts'[s].at = "add" /\ starts'[s].hash = starts[s].hash
        /\ starts'[s].cfg = starts[s].cfg /\ starts'[s].client = client
        /\ \A t \in Ids : t # s => starts'[t] = starts[t]
    BY <1>0, <1>1, StartTakes, LeaseBasics DEF InstallClient
  <2>2. UNCHANGED <<lim, cfg, client, held, storage, dirs, sessions, uses, pending, casts, onStops, jobs, prunes, kept>>
    BY <1>1 DEF InstallClient
  <2>3. open' = {c \in open : c.id # s}
    BY <1>0, <1>1 DEF InstallClient, CloseClient
  <2>5. LeaseShape'
    BY <2>1, <2>2, <2>3 DEF LeaseShape, SettingsWait, Ids, Foreign, Jobs
  <2>6. Counted'
    BY <2>2 DEF Counted, Of, Use
  <2>7. Followed'
    BY <1>0, <2>1, <2>2 DEF Followed, At, Ids, LeaseShape
  <2>8. OneClient'
    BY <1>0, <1>1, <2>1, <2>2 DEF OneClient, At, Ids, HasClient, Past, Busy, Starting, LeaseShape
  <2>9. KeepIsOne'
    BY <1>0, <2>1, <2>2 DEF KeepIsOne, At, Ids, LeaseShape
  <2>10. Accounted'
    BY <1>0, <2>1, <2>2, <2>3 DEF Accounted, At, Ids, LeaseShape, Use, Wanted, Has, Registered
  <2>11. AloneInv'
    BY <1>0, <2>1, <2>2, <2>3 DEF AloneInv, Alone, At, Ids, LeaseShape, Use, Has, Of, CleaningUp, Starting, Early
  <2> QED BY <2>5, <2>6, <2>7, <2>8, <2>9, <2>10, <2>11
<1>2. CASE client = 0
  <2>1. /\ starts' \in [Ids -> {Unborn} \cup AStart]
        /\ starts'[s].at = "add" /\ starts'[s].hash = starts[s].hash
        /\ starts'[s].cfg = starts[s].cfg /\ starts'[s].client = s
        /\ \A t \in Ids : t # s => starts'[t] = starts[t]
    BY <1>0, <1>2, StartGoes DEF InstallClient
  <2>2. /\ UNCHANGED <<lim, cfg, open, held, storage, dirs, sessions, uses, pending, casts, onStops, jobs, prunes, kept>>
        /\ client' = s
    BY <1>0, <1>2 DEF InstallClient
  <2>3. sessions = {} /\ uses = {} /\ \A t \in Ids : ~HasClient(t)
    <3>1. sessions = {}
      BY <1>2 DEF OneClient
    <3>2. uses = {}
      BY <3>1 DEF Counted, Of
    <3> QED BY <1>2, <3>1, <3>2 DEF OneClient
  <2>5. LeaseShape'
    BY <1>0, <2>1, <2>2 DEF LeaseShape, SettingsWait, Ids, Foreign, Jobs
  <2>6. Counted'
    BY <2>2 DEF Counted, Of, Use
  <2>7. Followed'
    BY <1>0, <2>1, <2>2 DEF Followed, At, Ids, LeaseShape
  <2>8. OneClient'
    BY <1>0, <1>2, <2>1, <2>2, <2>3 DEF OneClient, At, Ids, HasClient, Past, Busy, Starting, LeaseShape
  <2>9. KeepIsOne'
    BY <1>0, <2>1, <2>2 DEF KeepIsOne, At, Ids, LeaseShape
  <2>10. Accounted'
    BY <1>0, <1>2, <2>1, <2>2, <2>3 DEF Accounted, At, Ids, LeaseShape, Use, Wanted, Has, Registered, HasClient
  <2>11. AloneInv'
    BY <1>0, <2>1, <2>2, <2>3 DEF AloneInv, Alone, At, Ids, LeaseShape, Use, Has, Of, CleaningUp, Starting, Early
  <2> QED BY <2>5, <2>6, <2>7, <2>8, <2>9, <2>10, <2>11
<1> QED BY <1>1, <1>2

LEMMA AddKeeps ==
  ASSUME LeaseInv, NEW s \in Ids, Add(s)
  PROVE  LeaseInv'
<1> USE DEF LeaseInv
<1> DEFINE hh == starts[s].hash
<1>0. /\ starts[s].at = "add" /\ ~At(s, "unborn") /\ starts[s].client = client /\ client # 0 /\ hh \in Hashes
      /\ "info" \in Stages /\ "over" \in Stages
  BY LeaseBasics DEF Add, At, Stages, OneClient, HasClient, AStart
<1>1. CASE To(s, "info") /\ held' = held \cup {<<client, hh>>} /\ storage' = storage \cup {hh}
  <2>1. /\ starts' \in [Ids -> {Unborn} \cup AStart]
        /\ starts'[s].at = "info" /\ starts'[s].hash = starts[s].hash
        /\ starts'[s].cfg = starts[s].cfg /\ starts'[s].client = starts[s].client
        /\ \A t \in Ids : t # s => starts'[t] = starts[t]
    BY <1>0, <1>1, StartGoes
  <2>2. /\ UNCHANGED <<lim, cfg, client, open, dirs, sessions, uses, pending, casts, onStops, jobs, prunes, kept>>
        /\ held' = held \cup {<<client, hh>>} /\ storage' = storage \cup {hh}
    BY <1>1 DEF Add
  <2>3. starts'[s].hash = hh
    BY <2>1
  <2> HIDE DEF hh
  <2>5. LeaseShape'
    <3>1. held' \subseteq Nat \X Hashes
      BY <1>0, <2>2, LeaseBasics DEF LeaseShape
    <3> QED BY <1>0, <2>1, <2>2, <3>1 DEF LeaseShape, SettingsWait, Ids, Foreign, Jobs
  <2>6. Counted'
    BY <2>2 DEF Counted, Of, Use
  <2>7. Followed'
    BY <1>0, <2>1, <2>2 DEF Followed, At, Ids, LeaseShape
  <2>8. OneClient'
    BY <1>0, <2>1, <2>2 DEF OneClient, At, Ids, HasClient, Past, Busy, Starting, LeaseShape
  <2>9. KeepIsOne'
    BY <1>0, <2>1, <2>2 DEF KeepIsOne, At, Ids, LeaseShape
  <2>10. Accounted'
    BY <1>0, <2>1, <2>2, <2>3 DEF Accounted, At, Ids, LeaseShape, Use, Wanted, Has, Registered
  <2>11. AloneInv'
    BY <1>0, <2>1, <2>2, <2>3 DEF AloneInv, Alone, At, Ids, LeaseShape, Use, Has, Of, CleaningUp, Starting, Early
  <2> QED BY <2>5, <2>6, <2>7, <2>8, <2>9, <2>10, <2>11
<1>2. CASE To(s, "over") /\ UNCHANGED <<held, storage>>
  <2>1. /\ starts' \in [Ids -> {Unborn} \cup AStart]
        /\ starts'[s].at = "over" /\ starts'[s].hash = starts[s].hash
        /\ starts'[s].cfg = starts[s].cfg /\ starts'[s].client = starts[s].client
        /\ \A t \in Ids : t # s => starts'[t] = starts[t]
    BY <1>0, <1>2, StartGoes
  <2>2. UNCHANGED <<lim, cfg, client, open, held, storage, dirs, sessions, uses, pending, casts, onStops, jobs, prunes, kept>>
    BY <1>2 DEF Add
  <2> HIDE DEF hh
  <2>5. LeaseShape'
    BY <2>1, <2>2 DEF LeaseShape, SettingsWait, Ids, Foreign, Jobs
  <2>6. Counted'
    BY <2>2 DEF Counted, Of, Use
  <2>7. Followed'
    BY <1>0, <2>1, <2>2 DEF Followed, At, Ids, LeaseShape
  <2>8. OneClient'
    BY <1>0, <2>1, <2>2 DEF OneClient, At, Ids, HasClient, Past, Busy, Starting, LeaseShape
  <2>9. KeepIsOne'
    BY <1>0, <2>1, <2>2 DEF KeepIsOne, At, Ids, LeaseShape
  <2>10. Accounted'
    BY <1>0, <2>1, <2>2 DEF Accounted, At, Ids, LeaseShape, Use, Wanted, Has, Registered
  <2>11. AloneInv'
    BY <1>0, <2>1, <2>2 DEF AloneInv, Alone, At, Ids, LeaseShape, Use, Has, Of, CleaningUp, Starting, Early
  <2> QED BY <2>5, <2>6, <2>7, <2>8, <2>9, <2>10, <2>11
<1> QED BY <1>0, <1>1, <1>2 DEF Add

LEMMA FailKeeps ==
  ASSUME LeaseInv, NEW s \in Ids, FailEarly(s)
  PROVE  LeaseInv'
<1> USE DEF LeaseInv
<1> DEFINE to == IF InUse(starts[s].hash) THEN "over" ELSE "undo"
<1>0. /\ starts[s].at = "info" /\ ~At(s, "unborn") /\ To(s, to)
      /\ to \in Stages /\ to \in {"over", "undo"}
  BY DEF FailEarly, At, Stages
<1>1. to = "over" => Use(starts[s].hash) # {}
  BY DEF InUse
<1>2. to = "undo" => Of(starts[s].hash) = {}
  <2>1. ASSUME NEW r \in sessions, r.hash = starts[s].hash, to = "undo" PROVE FALSE
    <3>1. PICK u \in uses : u.hash = r.hash
      BY DEF Counted, Use
    <3>2. u.refs = Cardinality(Of(u.hash)) /\ Of(u.hash) # {} /\ IsFiniteSet(Of(u.hash)) /\ u.refs \in Nat
      <4>1. IsFiniteSet(Of(u.hash))
        BY FS_Subset DEF Counted, Of
      <4> QED BY <4>1 DEF Counted, LeaseShape
    <3>3. u.refs > 0
      BY <3>2, FS_EmptySet
    <3> QED BY <2>1, <3>1, <3>3 DEF InUse, Use
  <2> QED BY <2>1 DEF Of
<1> HIDE DEF to
<1>3. /\ starts' \in [Ids -> {Unborn} \cup AStart]
      /\ starts'[s].at = to /\ starts'[s].hash = starts[s].hash
      /\ starts'[s].cfg = starts[s].cfg /\ starts'[s].client = starts[s].client
      /\ \A t \in Ids : t # s => starts'[t] = starts[t]
  BY <1>0, StartGoes
<1>4. UNCHANGED <<lim, cfg, client, open, held, storage, dirs, sessions, uses, pending, casts, onStops, jobs, prunes, kept>>
  BY DEF FailEarly
<1>5. LeaseShape'
  BY <1>3, <1>4 DEF LeaseShape, SettingsWait, Ids, Foreign, Jobs
<1>6. Counted'
  BY <1>4 DEF Counted, Of, Use
<1>7. Followed'
  BY <1>0, <1>3, <1>4 DEF Followed, At, Ids, LeaseShape
<1>8. OneClient'
  BY <1>0, <1>3, <1>4 DEF OneClient, At, Ids, HasClient, Past, Busy, Starting, LeaseShape
<1>9. KeepIsOne'
  BY <1>0, <1>3, <1>4 DEF KeepIsOne, At, Ids, LeaseShape
<1>10. Accounted'
  <2>1. ASSUME NEW h \in Hashes, Wanted(h) PROVE Wanted(h)'
    BY <1>0, <1>1, <1>3, <1>4, <2>1 DEF Wanted, Has, Use, Ids
  <2> QED BY <1>0, <1>3, <1>4, <2>1 DEF Accounted, At, Ids, LeaseShape, Registered
<1>11. AloneInv'
  BY <1>0, <1>2, <1>3, <1>4 DEF AloneInv, Alone, At, Ids, LeaseShape, Use, Has, Of, CleaningUp, Starting, Early
<1> QED BY <1>5, <1>6, <1>7, <1>8, <1>9, <1>10, <1>11

LEMMA UndoKeeps ==
  ASSUME LeaseInv, NEW s \in Ids, Undo(s)
  PROVE  LeaseInv'
<1> USE DEF LeaseInv
<1> DEFINE hh == starts[s].hash
<1>0. /\ starts[s].at = "undo" /\ ~At(s, "unborn") /\ To(s, "over") /\ starts[s].client = client /\ client # 0
      /\ "over" \in Stages /\ hh \in Hashes /\ starts[s].cfg.keep = lim.keep /\ (lim.keep => hh \in kept)
  BY LeaseBasics DEF Undo, At, Stages, OneClient, HasClient, KeepIsOne, AStart
<1>1. /\ starts' \in [Ids -> {Unborn} \cup AStart]
      /\ starts'[s].at = "over" /\ starts'[s].hash = starts[s].hash
      /\ starts'[s].cfg = starts[s].cfg /\ starts'[s].client = starts[s].client
      /\ \A t \in Ids : t # s => starts'[t] = starts[t]
  BY <1>0, StartGoes
<1>2. /\ UNCHANGED <<lim, cfg, client, open, dirs, sessions, uses, pending, casts, onStops, jobs, prunes, kept>>
      /\ held' = held \ {<<client, hh>>}
      /\ storage' = IF lim.keep THEN storage ELSE storage \ {hh}
  BY <1>0 DEF Undo
<1>3. \A h \in Hashes : Wanted(h) => Wanted(h)' \/ h = hh
  BY <1>0, <1>1, <1>2 DEF Wanted, Has, Use, Ids
<1>4. ~lim.together => \A r \in sessions : r.hash # hh
  BY <1>0 DEF AloneInv, Alone, At, Of
<1>5. LeaseShape'
  BY <1>0, <1>1, <1>2 DEF LeaseShape, SettingsWait, Ids, Foreign, Jobs
<1>6. Counted'
  BY <1>2 DEF Counted, Of, Use
<1>7. Followed'
  BY <1>0, <1>1, <1>2 DEF Followed, At, Ids, LeaseShape
<1>8. OneClient'
  BY <1>0, <1>1, <1>2 DEF OneClient, At, Ids, HasClient, Past, Busy, Starting, LeaseShape
<1>9. KeepIsOne'
  BY <1>0, <1>1, <1>2 DEF KeepIsOne, At, Ids, LeaseShape
<1>10. Accounted'
  BY <1>0, <1>1, <1>2, <1>3 DEF Accounted, At, Ids, LeaseShape, Registered
<1>11. AloneInv'
  BY <1>0, <1>1, <1>2, <1>4 DEF AloneInv, Alone, At, Ids, LeaseShape, Use, Has, Of, CleaningUp, Starting, Early
<1> QED BY <1>5, <1>6, <1>7, <1>8, <1>9, <1>10, <1>11

LEMMA RegisterKeeps ==
  ASSUME LeaseInv, NEW s \in Ids, Register(s)
  PROVE  LeaseInv'
<1> USE DEF LeaseInv
<1>h. PICK hh \in Hashes : hh = starts[s].hash
  BY LeaseBasics DEF Register, At, AStart
<1> DEFINE new == [start |-> s, hash |-> hh, client |-> starts[s].client, keep |-> starts[s].cfg.keep]
<1>0. /\ starts[s].at = "info" /\ ~At(s, "unborn") /\ To(s, "start") /\ starts[s].client = client /\ client # 0
      /\ "start" \in Stages /\ hh \in Hashes /\ starts[s].cfg.keep = lim.keep /\ (lim.keep => hh \in kept)
      /\ lim.keep \in BOOLEAN /\ client \in Nat
  BY <1>h, LeaseBasics DEF Register, At, Stages, OneClient, HasClient, KeepIsOne, AStart
<1>1. /\ starts' \in [Ids -> {Unborn} \cup AStart]
      /\ starts'[s].at = "start" /\ starts'[s].hash = hh
      /\ starts'[s].cfg = starts[s].cfg /\ starts'[s].client = client
      /\ \A t \in Ids : t # s => starts'[t] = starts[t]
  BY <1>0, <1>h, StartGoes
<1>2. /\ UNCHANGED <<lim, cfg, client, open, held, storage, pending, casts, onStops, jobs, prunes, kept>>
      /\ dirs' = dirs \cup {s} /\ sessions' = sessions \cup {new}
  BY <1>h DEF Register
<1>3. new.start = s /\ new.hash = hh /\ new.client = client /\ new.keep = lim.keep
  BY <1>0
<1>4. s \notin Registered
  BY <1>0 DEF Followed, Registered
<1>5. \A r \in sessions : r.start # s
  BY <1>4 DEF Registered
<1>6. new \notin sessions
  BY <1>3, <1>5
<1>7. /\ IsFiniteSet(sessions') /\ IsFiniteSet(Of(hh))
      /\ Of(hh)' = Of(hh) \cup {new} /\ Cardinality(Of(hh)') = Cardinality(Of(hh)) + 1
      /\ \A h \in Hashes : h # hh => Of(h)' = Of(h)
  <2>1. IsFiniteSet(sessions) /\ Of(hh) \subseteq sessions
    BY DEF Counted, Of
  <2>2. Of(hh)' = Of(hh) \cup {new} /\ new \notin Of(hh)
    <3> HIDE DEF new
    <3> QED BY <1>2, <1>3, <1>6 DEF Of
  <2>3. \A h \in Hashes : h # hh => Of(h)' = Of(h)
    BY <1>2, <1>3 DEF Of
  <2>4. IsFiniteSet(Of(hh)) /\ IsFiniteSet(sessions \cup {new})
    BY <2>1, FS_Subset, FS_AddElement
  <2>5. Cardinality(Of(hh) \cup {new}) = Cardinality(Of(hh)) + 1
    BY <2>2, <2>4, FS_AddElement
  <2> QED BY <1>2, <2>2, <2>3, <2>4, <2>5
<1>8. /\ \A u \in uses' : u \in [hash : Hashes, client : Nat, refs : Nat, keep : BOOLEAN]
      /\ \A u \in uses' : u.client = client /\ u.keep = lim.keep
      /\ \A u \in uses' : u.hash = hh => u.refs = Cardinality(Of(hh)')
      /\ \A u \in uses' : u.hash # hh => u \in uses
      /\ \E u \in uses' : u.hash = hh
      /\ \A u \in uses : u.hash # hh => u \in uses'
      /\ \A u, v \in uses' : u.hash = v.hash => u = v
  <2>1. CASE Use(hh) = {}
    <3> DEFINE fresh == [hash |-> hh, client |-> starts[s].client, refs |-> 1, keep |-> starts[s].cfg.keep]
    <3>1. uses' = uses \cup {fresh}
      BY <1>h, <2>1 DEF Register
    <3>2. Of(hh) = {}
      BY <2>1, <1>0 DEF Counted, Of
    <3>3. Cardinality(Of(hh)') = 1
      BY <1>7, <3>2, FS_EmptySet
    <3>4. fresh \in [hash : Hashes, client : Nat, refs : Nat, keep : BOOLEAN]
      BY <1>0
    <3>5. fresh.hash = hh /\ fresh.client = client /\ fresh.refs = 1 /\ fresh.keep = lim.keep
      BY <1>0
    <3> HIDE DEF fresh
    <3>6. \A u \in uses : u.hash # hh
      BY <2>1 DEF Use
    <3> QED BY <3>1, <3>3, <3>4, <3>5, <3>6 DEF LeaseShape, OneClient, KeepIsOne, Counted
  <2>2. CASE Use(hh) # {}
    <3> DEFINE more(u) == [u EXCEPT !.refs = CountMore(u), !.keep = @ \/ starts[s].cfg.keep]
    <3>1. uses' = {IF u.hash = hh THEN more(u) ELSE u : u \in uses}
      BY <1>h, <2>2 DEF Register
    <3>2. ASSUME NEW u \in uses, u.hash = hh
          PROVE  /\ more(u) \in [hash : Hashes, client : Nat, refs : Nat, keep : BOOLEAN]
                 /\ more(u).hash = hh /\ more(u).client = client /\ more(u).keep = lim.keep
                 /\ more(u).refs = Cardinality(Of(hh)')
      <4>1. u \in [hash : Hashes, client : Nat, refs : Nat, keep : BOOLEAN]
        BY DEF LeaseShape
      <4>2. u.client = client /\ u.keep = lim.keep /\ u.refs = Cardinality(Of(hh)) /\ u.refs \in Nat
        BY <3>2, <4>1 DEF OneClient, KeepIsOne, Counted
      <4>3. u.refs + 1 = Cardinality(Of(hh)') /\ u.refs + 1 \in Nat
        BY <1>7, <4>2
      <4> DEFINE n == u.refs + 1
                 k == u.keep \/ starts[s].cfg.keep
      <4>4. more(u) = [u EXCEPT !.refs = n, !.keep = k]
        BY DEF CountMore
      <4>5. k = lim.keep /\ k \in BOOLEAN /\ n \in Nat /\ n = Cardinality(Of(hh)')
        BY <1>0, <4>2, <4>3
      <4> HIDE DEF n, k, more
      <4> QED BY <3>2, <4>1, <4>2, <4>4, <4>5
    <3> HIDE DEF more
    <3>3. PICK w \in uses : w.hash = hh
      BY <2>2 DEF Use
    <3>4. \A u \in uses : u.hash = hh => u = w
      BY <3>3 DEF Counted
    <3>5. \A u \in uses' : u = more(w) \/ (u \in uses /\ u.hash # hh)
      BY <3>1, <3>4
    <3>6. more(w) \in uses' /\ \A u \in uses : u.hash # hh => u \in uses'
      BY <3>1, <3>3
    <3> QED BY <3>2, <3>3, <3>5, <3>6 DEF LeaseShape, OneClient, KeepIsOne, Counted
  <2> QED BY <2>1, <2>2
<1>9. \A h \in Hashes : Wanted(h) => Wanted(h)'
  <2>1. \A h \in Hashes : Use(h) # {} => (Use(h) # {})'
    BY <1>8 DEF Use
  <2>2. ASSUME NEW h \in Hashes, NEW t \in Ids, Has(t), starts[t].hash = h PROVE Wanted(h)'
    BY <1>0, <1>h, <1>1, <1>2, <1>8, <2>2 DEF Wanted, Has, Use, Ids
  <2> QED BY <2>1, <2>2 DEF Wanted
<1>10. new \in [start : Ids, hash : Hashes, client : Nat, keep : BOOLEAN]
  BY <1>0
<1>11. ~lim.together => <<client, hh>> \in held /\ hh \in storage /\ jobs = {} /\ prunes = {}
  BY <1>0, <1>h DEF AloneInv, Alone, At, Early, CleaningUp
<1> HIDE DEF new
<1>12. LeaseShape'
  <2>1. sessions' \subseteq [start : Ids, hash : Hashes, client : Nat, keep : BOOLEAN]
    BY <1>2, <1>10 DEF LeaseShape
  <2>2. uses' \subseteq [hash : Hashes, client : Nat, refs : Nat, keep : BOOLEAN]
    BY <1>8
  <2> QED BY <1>0, <1>1, <1>2, <2>1, <2>2 DEF LeaseShape, SettingsWait, Ids, Foreign, Jobs
<1>13. Counted'
  <2>1. \A r, q \in sessions' : r.start = q.start => r = q
    BY <1>2, <1>3, <1>5 DEF Counted
  <2>2. ASSUME NEW u \in uses' PROVE u.refs = Cardinality(Of(u.hash)') /\ Of(u.hash)' # {}
    <3>1. CASE u.hash = hh
      BY <1>7, <1>8, <3>1
    <3>2. CASE u.hash # hh
      BY <1>7, <1>8, <3>2 DEF Counted, LeaseShape
    <3> QED BY <3>1, <3>2
  <2>3. \A r \in sessions' : Use(r.hash)' # {}
    BY <1>2, <1>3, <1>8 DEF Counted, Use
  <2> QED BY <1>7, <1>8, <2>1, <2>2, <2>3 DEF Counted
<1>14. Followed'
  BY <1>0, <1>1, <1>2, <1>3 DEF Followed, At, Ids, LeaseShape
<1>15. OneClient'
  <2>1. ~pending
    BY <1>0 DEF OneClient, Busy, Starting
  <2> QED BY <1>0, <1>1, <1>2, <1>3, <1>8, <2>1 DEF OneClient, At, Ids, HasClient, Past, Busy, Starting, LeaseShape
<1>16. KeepIsOne'
  BY <1>0, <1>1, <1>2, <1>3, <1>8 DEF KeepIsOne, At, Ids, LeaseShape
<1>17. Accounted'
  <2>1. Registered' = Registered \cup {s}
    BY <1>2, <1>3 DEF Registered
  <2> QED BY <1>0, <1>1, <1>2, <1>9, <2>1 DEF Accounted, At, Ids, LeaseShape
<1>18. AloneInv'
  <2> SUFFICES ASSUME ~lim.together PROVE Alone'
    BY <1>2 DEF AloneInv
  <2>1. \A t \in Ids : t # s => ~Starting(t)
    BY <1>0 DEF AloneInv, Alone, Starting
  <2>2. \A t \in Ids : ~At(t, "undo")' /\ ~At(t, "info")'
    BY <1>0, <1>1, <2>1 DEF At, Starting, Ids
  <2>3. \A r \in sessions' : (<<client, r.hash>> \in held /\ r.hash \in storage /\ r.start \in dirs)'
    BY <1>2, <1>3, <1>11 DEF AloneInv, Alone
  <2> QED BY <1>0, <1>1, <1>2, <1>11, <2>2, <2>3 DEF AloneInv, Alone, At, Ids, LeaseShape, CleaningUp, Starting, Early
<1> QED BY <1>12, <1>13, <1>14, <1>15, <1>16, <1>17, <1>18

LEMMA CoreKeeps ==
  ASSUME LeaseInv, NEW s \in Ids, CoreStart(s)
  PROVE  LeaseInv'
<1> USE DEF LeaseInv
<1>0. /\ starts[s].at = "start" /\ ~At(s, "unborn") /\ "over" \in Stages /\ "failed" \in Stages
      /\ 0 \notin Ids
  BY LeaseBasics DEF CoreStart, At, Stages
<1>1. PICK to \in {"over", "failed"} :
         /\ To(s, to) /\ onStops' = NowOver
         /\ (to = "over" /\ casts' = s) \/ (to = "failed" /\ casts' = 0)
  BY DEF CoreStart
<1>2. /\ starts' \in [Ids -> {Unborn} \cup AStart]
      /\ starts'[s].at = to /\ starts'[s].hash = starts[s].hash
      /\ starts'[s].cfg = starts[s].cfg /\ starts'[s].client = starts[s].client
      /\ \A t \in Ids : t # s => starts'[t] = starts[t]
  BY <1>0, <1>1, StartGoes
<1>3. UNCHANGED <<lim, cfg, client, open, held, storage, dirs, sessions, uses, pending, jobs, prunes, kept>>
  BY DEF CoreStart
<1>4. /\ onStops' \subseteq Ids /\ onStops \subseteq onStops' /\ (casts \in Ids => casts \in onStops')
      /\ \A t \in onStops' : t # s /\ At(t, "over")
  BY <1>0, <1>1 DEF NowOver, Followed, At, LeaseShape
<1>5. LeaseShape'
  BY <1>1, <1>2, <1>3, <1>4 DEF LeaseShape, SettingsWait, Ids, Foreign, Jobs
<1>6. Counted'
  BY <1>3 DEF Counted, Of, Use
<1>7. Followed'
  BY <1>0, <1>1, <1>2, <1>3, <1>4 DEF Followed, At, Ids, LeaseShape
<1>8. OneClient'
  BY <1>0, <1>1, <1>2, <1>3, <1>4 DEF OneClient, At, Ids, HasClient, Past, Busy, Starting, LeaseShape
<1>9. KeepIsOne'
  BY <1>0, <1>2, <1>3 DEF KeepIsOne, At, Ids, LeaseShape
<1>10. Accounted'
  BY <1>0, <1>1, <1>2, <1>3 DEF Accounted, At, Ids, LeaseShape, Use, Wanted, Has, Registered
<1>11. AloneInv'
  <2> SUFFICES ASSUME ~lim.together PROVE Alone'
    BY <1>3 DEF AloneInv
  <2>1. \A t \in Ids : t # s => ~Starting(t)
    BY <1>0 DEF AloneInv, Alone, Starting
  <2>2. \A t \in Ids : ~Early(t)'
    BY <1>0, <1>1, <1>2, <1>3, <2>1 DEF Early, Starting, Ids
  <2> QED BY <1>0, <1>1, <1>2, <1>3, <2>1, <2>2 DEF AloneInv, Alone, At, Ids, LeaseShape, Of, Starting, Early
<1> QED BY <1>5, <1>6, <1>7, <1>8, <1>9, <1>10, <1>11

LEMMA EndCastKeeps ==
  ASSUME LeaseInv, EndCast
  PROVE  LeaseInv'
<1> USE DEF LeaseInv
<1>0. /\ casts \in Ids /\ casts' \in {0, Foreign} /\ onStops' = onStops \cup {casts}
      /\ casts' \notin Ids /\ casts' \notin onStops' /\ (~lim.together => ~Busy)
  BY LeaseBasics DEF EndCast, LeaseShape
<1>1. UNCHANGED <<lim, cfg, client, open, held, storage, dirs, sessions, uses, pending, starts, jobs, prunes, kept>>
  BY DEF EndCast
<1>5. LeaseShape'
  BY <1>0, <1>1 DEF LeaseShape, SettingsWait, Ids, Foreign, Jobs
<1>6. Counted'
  BY <1>1 DEF Counted, Of, Use
<1>7. Followed'
  BY <1>0, <1>1 DEF Followed, At, Ids, LeaseShape
<1>8. OneClient'
  BY <1>0, <1>1 DEF OneClient, At, Ids, HasClient, Past, Busy, Starting
<1>9. KeepIsOne'
  BY <1>1 DEF KeepIsOne, At, Ids
<1>10. Accounted'
  BY <1>1 DEF Accounted, At, Ids, Use, Wanted, Has, Registered
<1>11. AloneInv'
  BY <1>0, <1>1 DEF AloneInv, Alone, At, Ids, Of, CleaningUp, Busy, Starting, Early
<1> QED BY <1>5, <1>6, <1>7, <1>8, <1>9, <1>10, <1>11

LEMMA DropKeeps ==
  ASSUME LeaseInv, NEW j \in jobs, DropTorrent(j)
  PROVE  LeaseInv'
<1> USE DEF LeaseInv
<1> DEFINE k == [j EXCEPT !.at = "data"]
<1>0. /\ j \in Jobs /\ k \in Jobs /\ k.at = "data" /\ j.at = "drop" /\ k.start = j.start /\ k.keep = j.keep
      /\ k.drops = j.drops /\ k.removes = j.removes /\ k.active = j.active /\ k.closes = j.closes
  BY DEF DropTorrent, LeaseShape, Jobs
<1>1. /\ UNCHANGED <<lim, cfg, client, open, storage, sessions, uses, pending, starts, casts, onStops, prunes, kept>>
      /\ jobs' = (jobs \ {j}) \cup {k} /\ held' = held \ j.drops
      /\ dirs' = IF lim.keep THEN dirs ELSE dirs \ {j.start}
  BY DEF DropTorrent, KeepIsOne
<1> HIDE DEF k
<1>2. jobs # {}
  OBVIOUS
<1>5. LeaseShape'
  <2>1. jobs' \subseteq Jobs
    BY <1>0, <1>1 DEF LeaseShape
  <2> QED BY <1>1, <2>1 DEF LeaseShape, SettingsWait, Ids, Foreign, Jobs
<1>6. Counted'
  BY <1>1 DEF Counted, Of, Use
<1>7. Followed'
  BY <1>1 DEF Followed, At, Ids
<1>8. OneClient'
  BY <1>0, <1>1 DEF OneClient, At, Ids, HasClient, Past, Busy, Starting
<1>9. KeepIsOne'
  BY <1>0, <1>1 DEF KeepIsOne, At, Ids
<1>10. Accounted'
  <2>1. \A h \in Hashes : Wanted(h)' <=> Wanted(h)
    BY <1>1 DEF Wanted, Has, Use, Ids
  <2>2. ASSUME NEW c \in open' PROVE (c.id = client \/ At(c.id, "made") \/ \E i \in jobs : i.closes = c.id)'
    BY <1>0, <1>1 DEF Accounted, At
  <2>3. ASSUME NEW t \in held'
        PROVE  (\/ t[1] = client /\ Wanted(t[2])
                \/ \E i \in jobs : i.closes = t[1] \/ (i.at = "drop" /\ t \in i.drops))'
    <3>1. t \in held /\ t \notin j.drops /\ t[2] \in Hashes
      BY <1>1 DEF LeaseShape
    <3>2. CASE t[1] = client /\ Wanted(t[2])
      BY <1>1, <2>1, <3>1, <3>2
    <3>3. CASE \E i \in jobs : i.closes = t[1] \/ (i.at = "drop" /\ t \in i.drops)
      <4>1. PICK i \in jobs : i.closes = t[1] \/ (i.at = "drop" /\ t \in i.drops)
        BY <3>3
      <4>2. CASE i = j
        BY <1>0, <1>1, <3>1, <4>1, <4>2
      <4>3. CASE i # j
        BY <1>1, <4>1, <4>3
      <4> QED BY <4>2, <4>3
    <3> QED BY <3>1, <3>2, <3>3 DEF Accounted
  <2>4. ASSUME NEW h \in storage' PROVE (h \in kept \/ Wanted(h) \/ \E i \in jobs : h \in i.removes)'
    BY <1>0, <1>1, <2>1 DEF Accounted, LeaseShape
  <2>5. ASSUME NEW d \in dirs'
        PROVE  (/\ starts[d].at \in {"start", "failed", "over"}
                /\ lim.keep \/ d \in Registered \/ \E i \in jobs : i.at = "drop" /\ i.start = d)'
    BY <1>1 DEF Accounted, Registered
  <2> QED BY <2>2, <2>3, <2>4, <2>5 DEF Accounted
<1>11. AloneInv'
  <2> SUFFICES ASSUME ~lim.together PROVE Alone'
    BY <1>1 DEF AloneInv
  <2>1. \A t \in Ids : ~Early(t)
    BY <1>2 DEF AloneInv, Alone, CleaningUp
  <2>2. \A r \in sessions : <<client, r.hash>> \in held'
    <3>1. ASSUME NEW r \in sessions PROVE <<client, r.hash>> \notin j.drops
      <4>1. \A t \in j.drops : t[2] # r.hash
        BY DEF AloneInv, Alone
      <4> QED BY <4>1
    <3> QED BY <1>1, <3>1 DEF AloneInv, Alone
  <2>3. \A r \in sessions : r.start \in dirs'
    BY <1>1 DEF AloneInv, Alone
  <2>4. \A i \in jobs', r \in sessions :
          /\ \A t \in i.drops : t[2] # r.hash
          /\ r.hash \notin i.removes /\ r.hash \in i.active /\ r.start # i.start
    BY <1>0, <1>1 DEF AloneInv, Alone
  <2>5. \A t \in Ids : ~At(t, "info") /\ ~At(t, "undo")
    BY <2>1 DEF Early, At
  <2> QED BY <1>0, <1>1, <2>1, <2>2, <2>3, <2>4, <2>5 DEF AloneInv, Alone, At, Ids, CleaningUp, Starting, Early
<1> QED BY <1>5, <1>6, <1>7, <1>8, <1>9, <1>10, <1>11

LEMMA RemoveKeeps ==
  ASSUME LeaseInv, NEW j \in jobs, RemoveData(j)
  PROVE  LeaseInv'
<1> USE DEF LeaseInv
<1>0. /\ j \in Jobs /\ j.at = "data"
  BY DEF RemoveData, LeaseShape
<1>1. /\ UNCHANGED <<lim, cfg, client, dirs, sessions, uses, pending, starts, casts, onStops, kept>>
      /\ jobs' = jobs \ {j} /\ storage' = storage \ j.removes /\ prunes' = prunes \cup {j.active}
      /\ open' = {c \in open : c.id # j.closes} /\ held' = {t \in held : t[1] # j.closes}
  BY DEF RemoveData
<1>2. jobs # {}
  OBVIOUS
<1>3. \A h \in Hashes : Wanted(h)' <=> Wanted(h)
  BY <1>1 DEF Wanted, Has, Use, Ids
<1>5. LeaseShape'
  <2>1. j.active \subseteq Hashes
    BY <1>0 DEF Jobs
  <2> QED BY <1>1, <2>1 DEF LeaseShape, SettingsWait, Ids, Foreign, Jobs
<1>6. Counted'
  BY <1>1 DEF Counted, Of, Use
<1>7. Followed'
  BY <1>1 DEF Followed, At, Ids
<1>8. OneClient'
  BY <1>1 DEF OneClient, At, Ids, HasClient, Past, Busy, Starting
<1>9. KeepIsOne'
  BY <1>1 DEF KeepIsOne, At, Ids
<1>10. Accounted'
  <2>2. ASSUME NEW c \in open' PROVE (c.id = client \/ At(c.id, "made") \/ \E i \in jobs : i.closes = c.id)'
    BY <1>1 DEF Accounted, At
  <2>3. ASSUME NEW t \in held'
        PROVE  (\/ t[1] = client /\ Wanted(t[2])
                \/ \E i \in jobs : i.closes = t[1] \/ (i.at = "drop" /\ t \in i.drops))'
    <3>1. t \in held /\ t[1] # j.closes /\ t[2] \in Hashes
      BY <1>1 DEF LeaseShape
    <3> QED BY <1>0, <1>1, <1>3, <3>1 DEF Accounted
  <2>4. ASSUME NEW h \in storage' PROVE (h \in kept \/ Wanted(h) \/ \E i \in jobs : h \in i.removes)'
    BY <1>1, <1>3 DEF Accounted, LeaseShape
  <2>5. ASSUME NEW d \in dirs'
        PROVE  (/\ starts[d].at \in {"start", "failed", "over"}
                /\ lim.keep \/ d \in Registered \/ \E i \in jobs : i.at = "drop" /\ i.start = d)'
    BY <1>0, <1>1 DEF Accounted, Registered
  <2> QED BY <2>2, <2>3, <2>4, <2>5 DEF Accounted
<1>11. AloneInv'
  <2> SUFFICES ASSUME ~lim.together PROVE Alone'
    BY <1>1 DEF AloneInv
  <2>1. \A t \in Ids : ~Early(t)
    BY <1>2 DEF AloneInv, Alone, CleaningUp
  <2>2. \A r \in sessions : <<client, r.hash>> \in held' /\ r.hash \in storage'
    <3>1. ASSUME NEW r \in sessions PROVE client # j.closes /\ r.hash \notin j.removes
      BY DEF AloneInv, Alone, OneClient
    <3> QED BY <1>1, <3>1 DEF AloneInv, Alone
  <2>5. \A t \in Ids : ~At(t, "info") /\ ~At(t, "undo")
    BY <2>1 DEF Early, At
  <2>6. \A a \in prunes', r \in sessions : r.hash \in a
    BY <1>1 DEF AloneInv, Alone
  <2> QED BY <1>0, <1>1, <2>1, <2>2, <2>5, <2>6 DEF AloneInv, Alone, At, Ids, CleaningUp, Starting, Early
<1> QED BY <1>5, <1>6, <1>7, <1>8, <1>9, <1>10, <1>11

LEMMA PruneKeeps ==
  ASSUME LeaseInv, NEW active0 \in prunes, Prune(active0)
  PROVE  LeaseInv'
<1> USE DEF LeaseInv
<1>1. /\ UNCHANGED <<lim, cfg, client, open, held, dirs, sessions, uses, pending, starts, casts, onStops, jobs, kept>>
      /\ prunes' = prunes \ {active0} /\ storage' \subseteq storage
      /\ \A h \in storage : h \in active0 => h \in storage'
  BY DEF Prune
<1>5. LeaseShape'
  BY <1>1 DEF LeaseShape, SettingsWait, Ids, Foreign, Jobs
<1>6. Counted'
  BY <1>1 DEF Counted, Of, Use
<1>7. Followed'
  BY <1>1 DEF Followed, At, Ids
<1>8. OneClient'
  BY <1>1 DEF OneClient, At, Ids, HasClient, Past, Busy, Starting
<1>9. KeepIsOne'
  BY <1>1 DEF KeepIsOne, At, Ids
<1>10. Accounted'
  BY <1>1 DEF Accounted, At, Ids, Use, Wanted, Has, Registered
<1>11. AloneInv'
  <2> SUFFICES ASSUME ~lim.together PROVE Alone'
    BY <1>1 DEF AloneInv
  <2>1. \A t \in Ids : ~Early(t)
    BY DEF AloneInv, Alone, CleaningUp
  <2>5. \A t \in Ids : ~At(t, "info") /\ ~At(t, "undo")
    BY <2>1 DEF Early, At
  <2>6. \A r \in sessions : r.hash \in storage'
    BY <1>1 DEF AloneInv, Alone
  <2> QED BY <1>1, <2>1, <2>5, <2>6 DEF AloneInv, Alone, At, Ids, CleaningUp, Starting, Early
<1> QED BY <1>5, <1>6, <1>7, <1>8, <1>9, <1>10, <1>11

LEMMA ToggleKeeps ==
  ASSUME LeaseInv, Toggle
  PROVE  LeaseInv'
<1> USE DEF LeaseInv
<1>1. /\ UNCHANGED <<lim, client, open, held, storage, dirs, sessions, uses, pending, starts, casts, onStops, jobs, prunes, kept>>
      /\ cfg' \in Configs /\ cfg'.keep = cfg.keep /\ cfg'.port = cfg.port /\ ~Busy
  BY DEF Toggle, Settled, LeaseShape, Configs
<1>5. LeaseShape'
  BY <1>1 DEF LeaseShape, SettingsWait, Ids, Foreign, Jobs
<1>6. Counted'
  BY <1>1 DEF Counted, Of, Use
<1>7. Followed'
  BY <1>1 DEF Followed, At, Ids
<1>8. OneClient'
  BY <1>1 DEF OneClient, At, Ids, HasClient, Past, Busy, Starting
<1>9. KeepIsOne'
  BY <1>1 DEF KeepIsOne, At, Ids
<1>10. Accounted'
  BY <1>1 DEF Accounted, At, Ids, Use, Wanted, Has, Registered
<1>11. AloneInv'
  BY <1>1 DEF AloneInv, Alone, At, Ids, Of, CleaningUp, Starting, Early
<1> QED BY <1>5, <1>6, <1>7, <1>8, <1>9, <1>10, <1>11

LEMMA ApplyKeeps ==
  ASSUME LeaseInv, ApplyConfig
  PROVE  LeaseInv'
<1> USE DEF LeaseInv
<1>0. ~lim.together /\ ~Busy /\ ~CleaningUp
  <2>1. cfg.port < lim.ports
    BY DEF ApplyConfig
  <2>2. ~lim.together
    BY <2>1, LeaseBasics
  <2> QED BY <2>2 DEF ApplyConfig, Settled
<1>1. /\ UNCHANGED <<lim, storage, dirs, sessions, starts, jobs, prunes, kept>>
      /\ onStops' = NowOver /\ casts' = IF casts \in Ids THEN 0 ELSE casts
  BY DEF ApplyConfig
<1>2. /\ onStops = {} /\ jobs = {} /\ prunes = {} /\ ~pending
      /\ \A s \in Ids : starts[s].at \in {"unborn", "over"}
  <2>1. onStops = {} /\ jobs = {} /\ prunes = {}
    BY <1>0 DEF CleaningUp
  <2>2. \A s \in Ids : starts[s].at \in {"unborn", "over"}
    BY <1>0 DEF Busy, Starting
  <2>3. ~pending
    <3> SUFFICES ASSUME pending PROVE FALSE
      OBVIOUS
    <3> QED BY <2>1 DEF OneClient
  <2> QED BY <2>1, <2>2, <2>3
<1>3. \A r \in sessions : r.start = casts
  BY <1>2 DEF Followed, LeaseShape
<1>4. /\ onStops' = IF casts \in Ids THEN {casts} ELSE {}
      /\ casts' \notin Ids /\ casts' \in {0, Foreign}
  BY <1>1, <1>2, LeaseBasics DEF NowOver, LeaseShape
<1>5. cfg' \in Configs /\ cfg'.keep = cfg.keep
  <2> DEFINE p == cfg.port + 1
  <2>1. cfg' = [cfg EXCEPT !.port = p] /\ p \in Nat \ {0}
    BY LeaseBasics DEF ApplyConfig
  <2> HIDE DEF p
  <2> QED BY <2>1 DEF Configs, LeaseShape
<1>6. sessions = {} => uses = {}
  BY DEF Counted, Of
<1>7. \/ client = 0 /\ UNCHANGED <<client, open, held, uses, pending>> /\ sessions = {}
      \/ client # 0 /\ sessions # {} /\ pending' = TRUE /\ UNCHANGED <<client, open, held, uses>>
      \/ /\ client # 0 /\ sessions = {} /\ open' = {c \in open : c.id # client}
         /\ held' = {t \in held : t[1] # client} /\ client' = 0 /\ uses' = {} /\ pending' = FALSE
  <2>1. client = 0 => sessions = {}
    BY DEF OneClient
  <2> QED BY <2>1 DEF ApplyConfig, NowPending
<1>8. uses' = uses
  BY <1>6, <1>7
<1>9. pending' \in BOOLEAN /\ (pending' <=> (client # 0 /\ sessions # {}))
  <2>1. CASE UNCHANGED pending
    BY <1>2, <1>7, <2>1 DEF LeaseShape
  <2>2. CASE ~UNCHANGED pending
    BY <1>7, <2>2
  <2> QED BY <2>1, <2>2
<1>10. \A t \in held : t[1] = client
  BY <1>2 DEF Accounted
<1>11. \A h \in Hashes : Wanted(h)' <=> Wanted(h)
  BY <1>1, <1>8 DEF Wanted, Has, Use, Ids
<1>12. \A c \in open : c.id = client
  BY <1>2 DEF Accounted, LeaseShape, At
<1>15. LeaseShape'
  <2>1. open' \subseteq open /\ held' \subseteq held /\ client' \in {0, client}
    BY <1>7
  <2> QED BY <1>1, <1>4, <1>5, <1>8, <1>9, <2>1 DEF LeaseShape, SettingsWait, Ids, Foreign, Jobs
<1>16. Counted'
  BY <1>1, <1>8 DEF Counted, Of, Use
<1>17. Followed'
  <2>1. \A s \in onStops' : At(s, "over")
    BY <1>4 DEF Followed
  <2>2. casts' \notin onStops'
    BY <1>4
  <2>3. \A r \in sessions : r.start \in onStops'
    BY <1>3, <1>4 DEF LeaseShape
  <2> QED BY <1>1, <1>4, <2>1, <2>2, <2>3 DEF Followed, At, Ids
<1>18. OneClient'
  <2>1. \A r \in sessions : r.start \in onStops'
    BY <1>3, <1>4 DEF LeaseShape
  <2>2. (client' = client) \/ (client' = 0 /\ sessions = {} /\ uses = {})
    BY <1>6, <1>7
  <2>3. \A s \in Ids : ~HasClient(s) /\ ~At(s, "made")
    BY <1>2 DEF HasClient, At
  <2>4. ~Busy'
    BY <1>0, <1>1 DEF Busy, Ids, Starting
  <2>5. pending' => client' # 0
    BY <1>7, <1>2
  <2> QED BY <1>0, <1>1, <1>2, <1>8, <1>9, <2>1, <2>2, <2>3, <2>4, <2>5 DEF OneClient, At, Ids, HasClient, Past, LeaseShape
<1>19. KeepIsOne'
  BY <1>1, <1>5, <1>8 DEF KeepIsOne, At, Ids
<1>20. Accounted'
  <2>1. \A c \in open' : c.id = client'
    BY <1>7, <1>12
  <2>2. \A t \in held' : t[1] = client' /\ t \in held
    BY <1>7, <1>10
  <2>3. \A t \in held : Wanted(t[2])
    BY <1>2 DEF Accounted
  <2>4. \A t \in held' : (t[1] = client /\ Wanted(t[2]))'
    BY <1>11, <2>2, <2>3 DEF LeaseShape
  <2>5. \A h \in storage' : (h \in kept \/ Wanted(h) \/ \E i \in jobs : h \in i.removes)'
    BY <1>1, <1>11 DEF Accounted, LeaseShape
  <2> QED BY <1>1, <2>1, <2>4, <2>5 DEF Accounted, Registered
<1>21. AloneInv'
  <2>1. \A s \in Ids : ~Early(s)' /\ ~Starting(s)' /\ ~At(s, "info")' /\ ~At(s, "undo")' /\ ~At(s, "made")'
    BY <1>1, <1>2 DEF Early, Starting, At, Ids
  <2>2. \A r \in sessions : <<client', r.hash>> \in held' /\ r.hash \in storage
    BY <1>0, <1>7 DEF AloneInv, Alone
  <2>3. \A c \in open' : c.id = client' => pending'
    <3>1. CASE client # 0 /\ sessions # {} /\ pending' = TRUE
      BY <3>1
    <3>2. CASE client = 0 /\ open' = open
      BY <1>12, <3>2, LeaseBasics DEF LeaseShape
    <3>3. CASE open' = {c \in open : c.id # client}
      BY <1>12, <3>3
    <3> QED BY <1>7, <3>1, <3>2, <3>3
  <2>4. \A c \in open' : c.id \in Ids
    BY <1>7 DEF LeaseShape
  <2>5. Ids' = Ids
    BY <1>1 DEF Ids
  <2>6. \A r \in sessions : r.start \in dirs
    BY <1>0 DEF AloneInv, Alone
  <2> SUFFICES ASSUME ~lim.together PROVE Alone'
    BY <1>1 DEF AloneInv
  <2> QED BY <1>1, <1>2, <2>1, <2>2, <2>3, <2>4, <2>5, <2>6 DEF Alone
<1> QED BY <1>15, <1>16, <1>17, <1>18, <1>19, <1>20, <1>21

(* What the end of a session decides. *)
LEMMA DecidesKeeps ==
  ASSUME LeaseInv, NEW r \in sessions, Decides(r),
         r.start \notin onStops', onStops' \subseteq onStops, \A q \in sessions : q.start # r.start => (q.start \in onStops => q.start \in onStops'),
         starts' \in [Ids -> {Unborn} \cup AStart],
         \A t \in Ids : t # r.start => starts'[t] = starts[t],
         starts'[r.start].at = "over", starts[r.start].at \in {"failed", "over"},
         starts'[r.start].hash = starts[r.start].hash,
         starts'[r.start].cfg = starts[r.start].cfg, starts'[r.start].client = starts[r.start].client,
         starts[r.start].at = "failed" \/ r.start \in onStops,
         UNCHANGED <<lim, cfg, open, held, storage, dirs, casts, prunes, kept>>
  PROVE  LeaseInv'
<1> USE DEF LeaseInv
<1> DEFINE rest == sessions \ {r}
           gone == {u \in Use(r.hash) : u.refs = 1}
           done == [at |-> "drop", start |-> r.start, hash |-> r.hash, keep |-> r.keep,
                    drops |-> {<<u.client, u.hash>> : u \in gone},
                    removes |-> {u.hash : u \in {v \in gone : ~v.keep}},
                    active |-> {q.hash : q \in rest},
                    closes |-> IF ClosesClient(rest) THEN client ELSE 0]
<1>j. PICK job : job = done
  OBVIOUS
<1>h. PICK hh \in Hashes : hh = r.hash
  BY DEF LeaseShape
<1>0. /\ r.start \in Ids /\ r.client = client /\ client # 0 /\ client \in Nat /\ r.keep = lim.keep
      /\ Ids' = Ids /\ lim.keep \in BOOLEAN
  BY LeaseBasics DEF LeaseShape, OneClient, KeepIsOne, Ids
<1>1. PICK w \in uses : Use(hh) = {w}
  BY <1>h DEF Counted, Use
<1>2. /\ w.hash = hh /\ w.client = client /\ w.keep = lim.keep /\ w.refs \in Nat
      /\ w \in [hash : Hashes, client : Nat, refs : Nat, keep : BOOLEAN]
      /\ w.refs = Cardinality(Of(hh)) /\ \A u \in uses : u.hash = hh => u = w
  <2>1. w.hash = hh /\ \A u \in uses : u.hash = hh => u = w
    BY <1>1 DEF Use
  <2>2. w \in [hash : Hashes, client : Nat, refs : Nat, keep : BOOLEAN]
    BY DEF LeaseShape
  <2> QED BY <2>1, <2>2 DEF OneClient, KeepIsOne, Counted
<1>3. /\ sessions' = rest /\ jobs' = jobs \cup {done}
      /\ uses' = {IF u.hash = hh THEN [u EXCEPT !.refs = @ - 1] ELSE u : u \in uses \ gone}
      /\ client' = IF ClosesClient(rest) THEN 0 ELSE client
      /\ pending' = (pending /\ ~ClosesClient(rest))
  BY <1>h DEF Decides, LastUse
<1>4. /\ IsFiniteSet(rest) /\ IsFiniteSet(Of(hh)) /\ Of(hh)' = Of(hh) \ {r}
      /\ Cardinality(Of(hh) \ {r}) = Cardinality(Of(hh)) - 1
      /\ \A h \in Hashes : h # hh => Of(h)' = Of(h)
  <2>1. IsFiniteSet(sessions) /\ Of(hh) \subseteq sessions /\ r \in Of(hh)
    BY <1>h DEF Counted, Of
  <2>2. Of(hh)' = Of(hh) \ {r} /\ \A h \in Hashes : h # hh => Of(h)' = Of(h)
    BY <1>h, <1>3 DEF Of
  <2>3. IsFiniteSet(rest) /\ IsFiniteSet(Of(hh))
    BY <2>1, FS_Subset
  <2>4. Cardinality(Of(hh) \ {r}) = Cardinality(Of(hh)) - 1
    BY <2>1, <2>3, FS_RemoveElement
  <2> QED BY <2>2, <2>3, <2>4
<1>5. gone = IF w.refs = 1 THEN {w} ELSE {}
  BY <1>h, <1>1
<1>6. w.refs = 1 => Of(hh) \ {r} = {}
  <2>1. IsFiniteSet(Of(hh) \ {r})
    BY <1>4, FS_Subset
  <2> QED BY <1>2, <1>4, <2>1, FS_EmptySet
<1>7. w.refs # 1 => w.refs > 1 /\ Of(hh) \ {r} # {}
  <2>1. r \in Of(hh)
    BY <1>h DEF Of
  <2>2. w.refs # 0
    BY <1>2, <1>4, <2>1, FS_EmptySet
  <2>3. ASSUME Of(hh) \ {r} = {} PROVE w.refs = 1
    <3>1. Cardinality(Of(hh) \ {r}) = 0
      BY <2>3, FS_EmptySet
    <3> QED BY <1>2, <1>4, <3>1
  <2> QED BY <1>2, <2>2, <2>3
<1>8. /\ \A u \in uses' : u \in [hash : Hashes, client : Nat, refs : Nat, keep : BOOLEAN]
      /\ \A u \in uses' : u.client = client /\ u.keep = lim.keep
      /\ \A u \in uses' : u.hash = hh => w.refs # 1 /\ u.refs = w.refs - 1
      /\ \A u \in uses' : u.hash # hh => u \in uses
      /\ w.refs # 1 => \E u \in uses' : u.hash = hh
      /\ \A u \in uses : u.hash # hh => u \in uses'
      /\ \A u, v \in uses' : u.hash = v.hash => u = v
  <2>1. CASE w.refs = 1
    <3>1. uses' = uses \ {w}
      BY <1>2, <1>3, <1>5, <2>1
    <3> QED BY <1>2, <2>1, <3>1 DEF LeaseShape, OneClient, KeepIsOne, Counted
  <2>2. CASE w.refs # 1
    <3> DEFINE k == w.refs - 1
               less == [w EXCEPT !.refs = k]
    <3>1. k \in Nat
      BY <1>2, <1>7, <2>2
    <3>2. uses' = {IF u.hash = hh THEN [u EXCEPT !.refs = u.refs - 1] ELSE u : u \in uses}
      BY <1>3, <1>5, <2>2
    <3>3. \A u \in uses' : u = less \/ (u \in uses /\ u.hash # hh)
      BY <1>2, <3>2
    <3>4. less \in uses' /\ \A u \in uses : u.hash # hh => u \in uses'
      BY <1>2, <3>2
    <3>5. /\ less \in [hash : Hashes, client : Nat, refs : Nat, keep : BOOLEAN]
          /\ less.hash = hh /\ less.client = client /\ less.keep = lim.keep /\ less.refs = k
      <4> HIDE DEF k
      <4> QED BY <1>2, <3>1
    <3>6. k = w.refs - 1
      OBVIOUS
    <3> HIDE DEF less, k
    <3> QED BY <2>2, <3>3, <3>4, <3>5, <3>6 DEF LeaseShape, OneClient, KeepIsOne, Counted
  <2> QED BY <2>1, <2>2
<1>9. ClosesClient(rest) => rest = {} /\ uses' = {}
  <2> SUFFICES ASSUME rest = {}, NEW u \in uses' PROVE FALSE
    BY DEF ClosesClient
  <2>1. CASE u.hash = hh
    <3>1. Of(hh) \ {r} = {}
      BY DEF Of
    <3> QED BY <1>7, <1>8, <2>1, <3>1
  <2>2. CASE u.hash # hh
    <3>1. u \in uses /\ Of(u.hash) # {}
      BY <1>8, <2>2 DEF Counted
    <3> QED BY <1>h, <2>2, <3>1 DEF Of
  <2> QED BY <2>1, <2>2
<1>10. /\ job \in Jobs /\ job.at = "drop" /\ job.start = r.start /\ job.keep = lim.keep
       /\ job.drops = IF w.refs = 1 THEN {<<client, hh>>} ELSE {}
       /\ job.removes = IF w.refs = 1 /\ ~lim.keep THEN {hh} ELSE {}
       /\ job.active = {q.hash : q \in rest}
       /\ job.closes = IF ClosesClient(rest) THEN client ELSE 0
  <2>1. job.drops = IF w.refs = 1 THEN {<<client, hh>>} ELSE {}
    BY <1>j, <1>2, <1>5
  <2>2. job.removes = IF w.refs = 1 /\ ~lim.keep THEN {hh} ELSE {}
    BY <1>j, <1>2, <1>5
  <2>3. job.active \subseteq Hashes
    BY <1>j DEF LeaseShape
  <2>4. job.drops \subseteq Nat \X Hashes
    BY <1>0, <2>1
  <2>5. job.removes \subseteq Hashes /\ job.closes \in Nat /\ job.keep \in BOOLEAN
    BY <1>j, <1>0, <2>2
  <2> DEFINE D == job.drops
             R == job.removes
             C == job.active
             X == job.closes
  <2>6. job = [at |-> "drop", start |-> r.start, hash |-> hh, keep |-> lim.keep,
               drops |-> D, removes |-> R, active |-> C, closes |-> X]
    BY <1>j, <1>h, <1>0
  <2>7. D \in SUBSET (Nat \X Hashes) /\ R \in SUBSET Hashes /\ C \in SUBSET Hashes /\ X \in Nat
    BY <2>3, <2>4, <2>5
  <2>8. job.active = {q.hash : q \in rest} /\ job.closes = IF ClosesClient(rest) THEN client ELSE 0
    BY <1>j
  <2>9. [at |-> "drop", start |-> r.start, hash |-> hh, keep |-> lim.keep,
               drops |-> D, removes |-> R, active |-> C, closes |-> X] \in Jobs
    <3> HIDE DEF D, R, C, X
    <3> QED BY <1>0, <2>7 DEF Jobs
  <2>10. job.at = "drop" /\ job.start = r.start /\ job.keep = lim.keep
    BY <1>j, <1>0
  <2> QED BY <2>1, <2>2, <2>6, <2>8, <2>9, <2>10
<1>k. jobs' = jobs \cup {job}
  BY <1>j, <1>3
<1> HIDE DEF done, gone
<1>11. \A h \in Hashes : Wanted(h) => Wanted(h)' \/ (h = hh /\ w.refs = 1)
  <2>1. \A h \in Hashes : Use(h) # {} => (Use(h)' # {} \/ (h = hh /\ w.refs = 1))
    BY <1>8 DEF Use
  <2>2. ASSUME NEW h \in Hashes, NEW t \in Ids, Has(t), starts[t].hash = h PROVE Wanted(h)'
    <3>1. t # r.start
      BY <2>2 DEF Has
    <3> QED BY <1>0, <2>2, <3>1 DEF Wanted, Has
  <2> QED BY <2>1, <2>2 DEF Wanted
<1>12. ClosesClient(rest) => ~Busy' /\ \A t \in Ids : ~HasClient(t)' /\ ~At(t, "made")' /\ ~Has(t)'
  <2> SUFFICES ASSUME ClosesClient(rest) PROVE \A t \in Ids : ~Starting(t)'
    BY <1>0 DEF Busy, Starting, HasClient, At, Has
  <2>1. ~Busy
    BY DEF ClosesClient, OneClient
  <2> QED BY <1>0, <2>1 DEF Busy, Starting
<1>13. LeaseShape'
  <2>1. sessions' \subseteq sessions /\ jobs' \subseteq Jobs /\ client' \in {0, client} /\ pending' \in BOOLEAN
    BY <1>3, <1>k, <1>10 DEF LeaseShape
  <2>2. uses' \subseteq [hash : Hashes, client : Nat, refs : Nat, keep : BOOLEAN]
    BY <1>8
  <2> QED BY <1>0, <2>1, <2>2 DEF LeaseShape, SettingsWait, Foreign, Jobs
<1>14. Counted'
  <2>1. ASSUME NEW u \in uses' PROVE u.refs = Cardinality(Of(u.hash)') /\ Of(u.hash)' # {}
    <3>1. CASE u.hash = hh
      BY <1>2, <1>4, <1>7, <1>8, <3>1
    <3>2. CASE u.hash # hh
      BY <1>4, <1>8, <3>2 DEF Counted, LeaseShape
    <3> QED BY <3>1, <3>2
  <2>2. ASSUME NEW q \in sessions' PROVE Use(q.hash)' # {}
    <3>1. CASE q.hash = hh
      <4>1. q \in Of(hh) \ {r}
        BY <1>3, <1>k, <3>1 DEF Of
      <4> QED BY <1>6, <1>8, <3>1, <4>1 DEF Use
    <3>2. CASE q.hash # hh
      BY <1>3, <1>k, <1>8, <3>2 DEF Counted, Use
    <3> QED BY <3>1, <3>2
  <2>3. \A p, q \in sessions' : p.start = q.start => p = q
    BY <1>3, <1>k DEF Counted
  <2> QED BY <1>3, <1>k, <1>4, <1>8, <2>1, <2>2, <2>3 DEF Counted
<1>15. Followed'
  <2>1. \A q \in sessions' : q \in sessions /\ q.start # r.start
    BY <1>3, <1>k DEF Counted
  <2>2. ASSUME NEW q \in sessions'
        PROVE  /\ (q.start = casts \/ q.start \in onStops \/ starts[q.start].at \in {"start", "failed"})'
               /\ starts'[q.start].at \in {"start", "failed", "over"}
    BY <2>1 DEF Followed, LeaseShape
  <2>3. \A s \in onStops' \cup ({casts} \cap Ids) : starts'[s].at = "over"
    BY DEF Followed, At, LeaseShape
  <2> QED BY <1>0, <2>2, <2>3 DEF Followed, At
<1>16. OneClient'
  <2>1. Busy' => Busy
    BY <1>0 DEF Busy, Starting
  <2>2. pending' => pending /\ rest # {}
    <3>1. pending /\ rest = {} => ClosesClient(rest)
      BY <1>0 DEF ClosesClient
    <3> QED BY <1>3, <1>k, <3>1
  <2>3. pending' => client' # 0 /\ sessions' # {} /\ \A q \in sessions' : q.start \in onStops'
    <3>1. \A q \in sessions' : q \in sessions /\ q.start # r.start
      BY <1>3, <1>k DEF Counted
    <3> QED BY <1>3, <1>k, <2>2, <3>1 DEF OneClient, ClosesClient
  <2>4. \A t \in Ids : HasClient(t)' => starts'[t].client = client' /\ client' # 0
    <3>1. ASSUME NEW t \in Ids, HasClient(t)' PROVE HasClient(t)
      BY <3>1 DEF HasClient
    <3> QED BY <1>0, <1>3, <1>k, <1>12, <3>1 DEF OneClient
  <2>5. \A t \in Ids : At(t, "made")' => starts'[t].client = t
    BY DEF OneClient, At
  <2>6. \A q \in sessions' : q.client = client' /\ client' # 0
    BY <1>0, <1>3, <1>k, <1>9 DEF OneClient
  <2>7. \A u \in uses' : u.client = client'
    BY <1>3, <1>k, <1>8, <1>9
  <2>8. \A t \in Ids : Past(t) => Past(t)'
    BY DEF Past
  <2>9. \A j \in jobs' : j.closes # 0 => j.closes # client' /\ j.closes \in Ids /\ Past(j.closes)'
    <3>1. ASSUME NEW j \in jobs, j.closes # 0 PROVE j.closes # client' /\ j.closes \in Ids /\ Past(j.closes)'
      BY <1>3, <1>k, <2>8, <3>1 DEF OneClient
    <3>2. job.closes # 0 => job.closes # client' /\ job.closes \in Ids /\ Past(job.closes)'
      BY <1>0, <1>3, <1>10, <2>8 DEF OneClient, LeaseShape
    <3> QED BY <1>3, <1>k, <3>1, <3>2
  <2>10. client' # 0 => starts'[client].at \notin {"unborn", "client", "made"} /\ client' = client
    BY <1>0, <1>3, <1>k DEF OneClient, LeaseShape, Past
  <2> QED BY <1>0, <2>1, <2>2, <2>3, <2>4, <2>5, <2>6, <2>7, <2>9, <2>10 DEF OneClient, Past
<1>17. KeepIsOne'
  BY <1>0, <1>3, <1>k, <1>8, <1>10 DEF KeepIsOne, At
<1>18. Accounted'
  <2>1. ASSUME NEW c \in open PROVE (c.id = client \/ At(c.id, "made") \/ \E j \in jobs : j.closes = c.id)'
    <3>1. CASE c.id = client
      BY <1>3, <1>k, <1>10, <3>1
    <3>2. CASE At(c.id, "made")
      BY <3>2 DEF At, LeaseShape
    <3>3. CASE \E j \in jobs : j.closes = c.id
      BY <1>3, <1>k, <3>3
    <3> QED BY <3>1, <3>2, <3>3 DEF Accounted
  <2>2. ASSUME NEW t \in held
        PROVE  (\/ t[1] = client /\ Wanted(t[2])
                \/ \E j \in jobs : j.closes = t[1] \/ (j.at = "drop" /\ t \in j.drops))'
    <3>1. t = <<t[1], t[2]>> /\ t[2] \in Hashes
      BY DEF LeaseShape
    <3>2. CASE t[1] = client /\ Wanted(t[2])
      <4>1. CASE ClosesClient(rest)
        BY <1>3, <1>k, <1>10, <3>2, <4>1
      <4>2. CASE ~ClosesClient(rest) /\ t[2] = hh /\ w.refs = 1
        <5>1. t \in job.drops
          BY <1>10, <3>1, <3>2, <4>2
        <5> QED BY <1>3, <1>k, <1>10, <5>1
      <4>3. CASE ~ClosesClient(rest) /\ ~(t[2] = hh /\ w.refs = 1)
        BY <1>3, <1>k, <1>11, <3>1, <3>2, <4>3
      <4> QED BY <4>1, <4>2, <4>3
    <3>3. CASE \E j \in jobs : j.closes = t[1] \/ (j.at = "drop" /\ t \in j.drops)
      BY <1>3, <1>k, <3>3
    <3> QED BY <3>2, <3>3 DEF Accounted
  <2>3. ASSUME NEW h \in storage PROVE (h \in kept \/ Wanted(h) \/ \E j \in jobs : h \in j.removes)'
    <3>1. h \in Hashes
      BY DEF LeaseShape
    <3>2. CASE Wanted(h)
      <4>1. CASE h = hh /\ w.refs = 1 /\ ~lim.keep
        BY <1>3, <1>k, <1>10, <4>1
      <4>2. CASE h = hh /\ lim.keep
        BY <1>h, <4>2 DEF KeepIsOne
      <4> QED BY <1>11, <3>1, <3>2, <4>1, <4>2
    <3> QED BY <1>3, <1>k, <3>2 DEF Accounted
  <2>4. ASSUME NEW d \in dirs
        PROVE  (/\ starts[d].at \in {"start", "failed", "over"}
                /\ lim.keep \/ d \in Registered \/ \E j \in jobs : j.at = "drop" /\ j.start = d)'
    <3>1. starts'[d].at \in {"start", "failed", "over"}
      BY DEF Accounted, LeaseShape
    <3>2. CASE d = r.start
      BY <1>3, <1>k, <1>10, <3>1, <3>2
    <3>3. CASE d \in Registered /\ d # r.start
      BY <1>3, <1>k, <3>1, <3>3 DEF Registered
    <3>4. CASE lim.keep \/ \E j \in jobs : j.at = "drop" /\ j.start = d
      BY <1>3, <1>k, <3>1, <3>4
    <3> QED BY <3>2, <3>3, <3>4 DEF Accounted
  <2> QED BY <2>1, <2>2, <2>3, <2>4 DEF Accounted
<1>19. AloneInv'
  <2> SUFFICES ASSUME ~lim.together PROVE Alone'
    BY DEF AloneInv
  <2>1. \A t \in Ids : ~Early(t)
    <3>1. CASE starts[r.start].at = "failed"
      <4>1. \A t \in Ids : t # r.start => ~Starting(t)
        BY <1>0, <3>1 DEF AloneInv, Alone, Starting
      <4> QED BY <3>1, <4>1 DEF Early, Starting
    <3>2. CASE r.start \in onStops
      BY <3>2 DEF AloneInv, Alone, CleaningUp
    <3> QED BY <3>1, <3>2
  <2>2. \A t \in Ids : ~Early(t)' /\ ~At(t, "info")' /\ ~At(t, "undo")' /\ ~At(t, "made")'
    BY <2>1 DEF Early, At
  <2>3. \A t \in Ids : Starting(t)' => Starting(t) /\ starts'[t].cfg = starts[t].cfg
    BY DEF Starting
  <2>4. \A q \in sessions' : <<client', q.hash>> \in held /\ q.hash \in storage /\ q.start \in dirs
    <3>1. sessions' # {} => client' = client
      BY <1>3, <1>k DEF ClosesClient
    <3> QED BY <1>3, <1>k, <3>1 DEF AloneInv, Alone
  <2>5. ASSUME NEW j \in jobs', NEW q \in sessions'
        PROVE  /\ \A t \in j.drops : t[2] # q.hash
               /\ q.hash \notin j.removes /\ q.hash \in j.active /\ q.start # j.start
    <3>1. CASE j \in jobs
      BY <1>3, <1>k, <3>1 DEF AloneInv, Alone
    <3>2. CASE j = job
      <4>1. q \in sessions /\ q # r /\ q.start # r.start
        BY <1>3, <1>k DEF Counted
      <4>2. q.hash \in job.active
        BY <1>3, <1>k, <1>10
      <4>3. w.refs = 1 => q.hash # hh
        BY <1>6, <4>1 DEF Of
      <4>4. \A t \in job.drops : t[2] # q.hash
        BY <1>10, <4>3
      <4>5. q.hash \notin job.removes
        BY <1>10, <4>3
      <4> QED BY <1>10, <3>2, <4>1, <4>2, <4>4, <4>5
    <3> QED BY <1>3, <1>k, <3>1, <3>2
  <2>6. \A a \in prunes, q \in sessions' : q.hash \in a
    BY <1>3, <1>k DEF AloneInv, Alone
  <2>7. \A c \in open : c.id = client' => c.port = cfg.port \/ pending'
    <3>1. CASE ClosesClient(rest)
      BY <1>3, <1>k, <3>1, LeaseBasics DEF LeaseShape
    <3>2. CASE ~ClosesClient(rest)
      BY <1>3, <1>k, <3>2 DEF AloneInv, Alone
    <3> QED BY <3>1, <3>2
  <2>8. \A c \in open : c.id \in Ids
    BY DEF LeaseShape
  <2>9. \A s, t \in Ids : Starting(s)' /\ Starting(t)' => s = t
    BY <2>3 DEF AloneInv, Alone
  <2>10. \A s \in Ids : Starting(s)' => starts'[s].cfg.port = cfg.port
    BY <2>3 DEF AloneInv, Alone
  <2> QED BY <1>0, <2>2, <2>4, <2>5, <2>6, <2>7, <2>8, <2>9, <2>10 DEF Alone
<1> QED BY <1>13, <1>14, <1>15, <1>16, <1>17, <1>18, <1>19

LEMMA CleanupKeeps ==
  ASSUME LeaseInv, NEW s \in Ids, Cleanup(s)
  PROVE  LeaseInv'
<1> USE DEF LeaseInv
<1>0. UNCHANGED <<lim, cfg, open, held, storage, dirs, casts, prunes, kept>>
  BY DEF Cleanup
<1>1. /\ starts' \in [Ids -> {Unborn} \cup AStart]
      /\ \A t \in Ids : t # s => starts'[t] = starts[t]
      /\ starts'[s].at = "over" /\ starts[s].at \in {"failed", "over"}
      /\ starts'[s].hash = starts[s].hash /\ starts'[s].cfg = starts[s].cfg /\ starts'[s].client = starts[s].client
      /\ starts[s].at = "failed" \/ s \in onStops
      /\ onStops' = onStops \ {s}
  <2>1. CASE s \in onStops /\ onStops' = onStops \ {s} /\ UNCHANGED starts
    BY <2>1 DEF LeaseShape, Followed, At
  <2>2. CASE At(s, "failed") /\ To(s, "over") /\ UNCHANGED onStops
    <3>1. ~At(s, "unborn") /\ "over" \in Stages
      BY <2>2 DEF At, Stages
    <3>2. s \notin onStops
      BY <2>2 DEF Followed, At
    <3> QED BY <2>2, <3>1, <3>2, StartGoes DEF At
  <2> QED BY <2>1, <2>2 DEF Cleanup
<1>2. CASE s \in Registered
  <2>1. PICK r \in sessions : r.start = s
    BY <1>2 DEF Registered
  <2>2. Session(s) = r
    BY <2>1 DEF Session, Counted
  <2>3. Decides(r)
    BY <1>2, <2>2 DEF Cleanup
  <2>4. \A q \in sessions : q.start # r.start => (q.start \in onStops => q.start \in onStops')
    BY <1>1, <2>1
  <2> QED BY <1>0, <1>1, <2>1, <2>3, <2>4, DecidesKeeps
<1>3. CASE s \notin Registered
  <2>0. UNCHANGED <<sessions, uses, jobs, client, pending>> /\ \A r \in sessions : r.start # s
    BY <1>3 DEF Cleanup, Registered
  <2>1. Ids' = Ids /\ \A t \in Ids : starts'[t].at = starts[t].at \/ (t = s /\ starts'[t].at = "over")
    BY <1>0, <1>1 DEF Ids
  <2>5. LeaseShape'
    BY <1>0, <1>1, <2>0 DEF LeaseShape, SettingsWait, Ids, Foreign, Jobs
  <2>6. Counted'
    BY <2>0 DEF Counted, Of, Use
  <2>7. Followed'
    BY <1>0, <1>1, <2>0, <2>1 DEF Followed, At, LeaseShape
  <2>8. OneClient'
    BY <1>0, <1>1, <2>0, <2>1 DEF OneClient, At, HasClient, Past, Busy, Starting, LeaseShape
  <2>9. KeepIsOne'
    BY <1>0, <1>1, <2>0, <2>1 DEF KeepIsOne, At, LeaseShape
  <2>10. Accounted'
    BY <1>0, <1>1, <2>0, <2>1 DEF Accounted, At, LeaseShape, Use, Wanted, Has, Registered
  <2>11. AloneInv'
    <3> SUFFICES ASSUME ~lim.together PROVE Alone'
      BY <1>0 DEF AloneInv
    <3>1. \A t \in Ids : ~Early(t)
      <4>1. CASE starts[s].at = "failed"
        <5>1. \A t \in Ids : t # s => ~Starting(t)
          BY <4>1 DEF AloneInv, Alone, Starting
        <5> QED BY <4>1, <5>1 DEF Early, Starting
      <4>2. CASE s \in onStops
        BY <4>2 DEF AloneInv, Alone, CleaningUp
      <4> QED BY <1>1, <4>1, <4>2
    <3>2. \A t \in Ids : ~Early(t)' /\ ~At(t, "info")' /\ ~At(t, "undo")' /\ ~At(t, "made")'
      BY <2>1, <3>1 DEF Early, At
    <3>3. \A t \in Ids : Starting(t)' => Starting(t) /\ starts'[t].cfg = starts[t].cfg
      BY <1>1, <2>1 DEF Starting
    <3>4. \A c \in open : c.id \in Ids
      BY DEF LeaseShape
    <3> QED BY <1>0, <2>0, <2>1, <3>2, <3>3, <3>4 DEF AloneInv, Alone
  <2> QED BY <2>5, <2>6, <2>7, <2>8, <2>9, <2>10, <2>11
<1> QED BY <1>2, <1>3

LEMMA LeaseStart ==
  ASSUME SettingsWait, TorrentInit
  PROVE  LeaseInv
<1>1. lim \in [starts : Nat, ports : Nat, together : BOOLEAN, keep : BOOLEAN, toggles : BOOLEAN] /\ lim \in TorrentLimits
  BY DEF SettingsWait, TorrentInit
<1>2. 0 \notin Ids /\ Foreign \notin Ids
  BY <1>1 DEF Ids, Foreign
<1>3. /\ client = 0 /\ open = {} /\ held = {} /\ storage = {} /\ dirs = {} /\ sessions = {} /\ uses = {}
      /\ pending = FALSE /\ casts = 0 /\ onStops = {} /\ jobs = {} /\ prunes = {} /\ kept = {}
      /\ starts = [s \in Ids |-> Unborn] /\ \A s \in Ids : starts[s].at = "unborn"
  BY DEF TorrentInit, Unborn
<1>4. cfg \in Configs /\ cfg.keep = lim.keep
  BY <1>1 DEF TorrentInit, Configs
<1>5. LeaseShape
  BY <1>1, <1>3, <1>4 DEF LeaseShape, SettingsWait, TorrentInit
<1>6. Counted
  BY <1>3, FS_EmptySet DEF Counted
<1>7. Followed
  BY <1>2, <1>3 DEF Followed
<1>8. OneClient
  BY <1>3 DEF OneClient, Busy, Starting, HasClient, At
<1>9. KeepIsOne
  BY <1>3, <1>4 DEF KeepIsOne, At
<1>10. Accounted
  BY <1>3 DEF Accounted
<1>11. AloneInv
  BY <1>3 DEF AloneInv, Alone, Early, Starting, At
<1> QED BY <1>5, <1>6, <1>7, <1>8, <1>9, <1>10, <1>11 DEF LeaseInv

LEMMA LeaseStep ==
  ASSUME LeaseInv, [TorrentNext]_torrentVars
  PROVE  LeaseInv'
<1>1. CASE UNCHANGED torrentVars
  <2>1. UNCHANGED <<lim, cfg, client, open, held, storage, dirs, sessions, uses, pending,
                    starts, casts, onStops, jobs, prunes, kept>>
    BY <1>1 DEF torrentVars
  <2>2. LeaseShape' /\ Counted' /\ Followed'
    BY <2>1 DEF LeaseInv, LeaseShape, SettingsWait, Ids, Foreign, Jobs, Counted, Of, Use, Followed, At
  <2>3. OneClient' /\ KeepIsOne'
    BY <2>1 DEF LeaseInv, OneClient, At, Ids, HasClient, Past, Busy, Starting, KeepIsOne
  <2>4. Accounted'
    BY <2>1 DEF LeaseInv, Accounted, At, Ids, Use, Wanted, Has, Registered
  <2>5. AloneInv'
    BY <2>1 DEF LeaseInv, AloneInv, Alone, At, Ids, Of, CleaningUp, Starting, Early
  <2> QED BY <2>2, <2>3, <2>4, <2>5 DEF LeaseInv
<1>2. ASSUME NEW s \in Ids, StartSteps(s) PROVE LeaseInv'
  BY <1>2, BeginKeeps, TakeKeeps, InstallKeeps, AddKeeps, FailKeeps, UndoKeeps, RegisterKeeps, CoreKeeps
     DEF StartSteps
<1>3. CASE CleanupSteps
  BY <1>3, CleanupKeeps, DropKeeps, RemoveKeeps, PruneKeeps DEF CleanupSteps
<1> QED BY <1>1, <1>2, <1>3, EndCastKeeps, ToggleKeeps, ApplyKeeps DEF TorrentNext

(* No session loses its torrent or data to another, nothing is left when   *)
(* all is over, and the client that stays has the latest settings.         *)
THEOREM NobodyLosesHisLease == SettingsWait /\ TorrentSpec => []LeasesInOrder
<1>1. SettingsWait /\ TorrentInit => LeaseInv
  BY LeaseStart
<1>2. LeaseInv /\ [TorrentNext]_torrentVars => LeaseInv'
  BY LeaseStep
<1>3. LeaseInv => LeasesInOrder
  <2> SUFFICES ASSUME LeaseInv PROVE LeasesInOrder
    OBVIOUS
  <2>1. LeasesHold
    BY DEF LeasesHold, LeaseInv, AloneInv, Alone, OneClient
  <2>2. NothingLeaks
    <3> SUFFICES ASSUME AllOver PROVE NothingLeaks
      BY DEF NothingLeaks
    <3>1. /\ jobs = {} /\ sessions = {} /\ uses = {} /\ \A s \in Ids : starts[s].at \in {"unborn", "over"}
      BY DEF AllOver, CleaningUp, Busy, Starting, LeaseInv, Counted, Of
    <3>2. \A h \in Hashes : ~Wanted(h)
      BY <3>1 DEF Wanted, Use, Has
    <3>3. held = {}
      BY <3>1, <3>2 DEF LeaseInv, Accounted, LeaseShape
    <3>4. storage \subseteq kept
      BY <3>1, <3>2 DEF LeaseInv, Accounted, LeaseShape
    <3>5. Clients \subseteq {client}
      BY <3>1 DEF LeaseInv, Accounted, LeaseShape, Clients, At
    <3>6. \A s \in dirs : starts[s].cfg.keep
      BY <3>1 DEF LeaseInv, Accounted, LeaseShape, Registered, KeepIsOne, At
    <3> QED BY <3>1, <3>3, <3>4, <3>5, <3>6 DEF NothingLeaks
  <2>3. SettingsReachClient
    <3> SUFFICES ASSUME AllOver, ~lim.together, NEW c \in open PROVE c.port = cfg.port
      BY DEF SettingsReachClient
    <3>1. jobs = {} /\ sessions = {} /\ \A s \in Ids : starts[s].at \in {"unborn", "over"}
      BY DEF AllOver, CleaningUp, Busy, Starting
    <3>2. c.id = client /\ ~pending
      BY <3>1 DEF LeaseInv, Accounted, LeaseShape, OneClient, At
    <3> QED BY <3>2 DEF LeaseInv, AloneInv, Alone
  <2> QED BY <2>1, <2>2, <2>3 DEF LeasesInOrder
<1> QED BY <1>1, <1>2, <1>3, PTL DEF TorrentSpec
=============================================================================
