-------------------------- MODULE StreamQueueProofs --------------------------
(***************************************************************************)
(* Proofs about the streams adapter, for any number of users, lists and    *)
(* OnStop goroutines.                                                      *)
(*                                                                         *)
(* The guarded moves keep clones of queues, and a stop that finds its      *)
(* session gone brings a queue back.  Where they take part the properties  *)
(* have exceptions (see the README), so the theorems say of which requests *)
(* they speak; what a client asks for never changes in a behaviour.        *)
(***************************************************************************)
EXTENDS StreamQueue, SequenceTheorems, TLAPS

-----------------------------------------------------------------------------
(* Shapes.                                                                 *)

QueueFields   == {"sid", "kind", "index", "gen", "token", "items", "fails", "resolving"}
AttemptFields == {"pc", "guard", "starter", "after", "cap", "live", "tries"}
StopFields    == {"pc", "ref", "cap", "q", "direct"}
ReplayFields  == {"pc", "ref", "kind", "was", "q", "cap"}
HasFields(r, fields) == r = [f \in fields |-> r[f]]

Captured    == {"resolve", "start", "starting", "started", "unstarted", "refused"}
StopSteps   == {"stopLook", "stopClear", "stopCore"}
ReplaySteps == {"replayStop", "replayBump", "replayOver"}

IsQueue(q) == /\ HasFields(q, QueueFields)
              /\ q.token \in Nat /\ q.gen \in Nat /\ q.fails \in Nat

(* The queues that were built: each has an identity of its own or is a     *)
(* clone of one that has.                                                  *)
ListOK(s) ==
    /\ Len(s) \in Nat /\ HasFields(s, 1..Len(s))
    /\ \A i \in 1..Len(s) : IsQueue(s[i]) /\ s[i].sid \in 1..Len(s)

QueuesOK == ListOK(queues) /\ active \in 0..Len(queues)

(* A call, when there are n queues. *)
AfterOK(a, n) == a.prev \in 0..n /\ a.kind \in {"none", "start", "handoff", "move"}
CallOK(w, n) ==
    /\ w.pc \in AttemptSteps =>
          HasFields(w, AttemptFields) /\ w.tries \in Nat /\ AfterOK(w.after, n)
    /\ w.pc \in Captured => w.cap.sid \in 1..n /\ w.cap.token \in Nat
    /\ w.pc \in StopSteps => HasFields(w, StopFields)
    /\ w.pc \in ReplaySteps => HasFields(w, ReplayFields)
    /\ w.pc \in {"move", "stop", "replay", "handoff"} => HasFields(w, {"pc", "ref"})
    /\ w.pc \in {"move", "moveOn"} => w.ref # NoRef
    /\ w.pc \in StopSteps \cup ReplaySteps \cup {"unstop"} => w.q \in 1..n

(* Who is inside of what was asked for it. *)
Entitled(w) ==
    /\ w.pc \in {"move", "moveOn"} => "move" \in client.asks
    /\ w.pc \in StopSteps \cup {"stop", "unstop"} => "stop" \in client.asks
    /\ w.pc \in ReplaySteps \cup {"replay", "replayLook", "rebuild"} => "replay" \in client.asks
    /\ w.pc = "drop" => "drop" \in client.asks

CallsOK ==
    /\ HasFields(call, Threads)
    /\ client \in Clients
    /\ \A t \in Threads : CallOK(call[t], Len(queues)) /\ Entitled(call[t])

Reasons == {"preempted", "stopped", "eof", "error"}
ToldOK  == \A o \in onStops : o = <<o[1], o[2]>> /\ o[2] \in Reasons

QueueShape == QueuesOK /\ CallsOK /\ ToldOK

-----------------------------------------------------------------------------
(* A buffer belongs to the session that plays, to one whose OnStop is      *)
(* under way, or to a start under way.                                     *)
Opening(t) == call[t].pc \in {"start", "starting"}
HeldBy(r)  == \/ r = Ref(owner)
              \/ \E o \in onStops : r = Ref(o[1])
              \/ \E t \in Threads : Opening(t) /\ r = Ref(call[t].cap)
BuffersHeld == \A r \in buffers : r[1] # 0 /\ HeldBy(r)

-----------------------------------------------------------------------------
(* Without moves no queue is a clone: its index is its identity, and its   *)
(* tokens grow.                                                            *)
OwnIds(s)  == \A i \in 1..Len(s) : s[i].sid = i
Originals == OwnIds(queues)

(* A token is one attempt's, and plays at most once. *)
Fresh(w)     == w.pc \in {"resolve", "start", "starting"}
Issued(r, z) == r[1] \in 1..Len(z) /\ r[2] \in Nat /\ r[2] <= z[r[1]].token
TokensOnce ==
    /\ \A r \in played : Issued(r, queues)
    /\ \A t \in Threads :
          Fresh(call[t]) => Issued(Ref(call[t].cap), queues) /\ Ref(call[t].cap) \notin played
    /\ \A t, u \in Threads :
          Fresh(call[t]) /\ Fresh(call[u]) /\ t # u => Ref(call[t].cap) # Ref(call[u].cap)

(* An attempt's failures are those of its queue, as long as the queue is   *)
(* the attempt's.                                                          *)
Counting(w, v, z) ==
    /\ v.sid \in 1..Len(z) /\ v.gen \in Nat /\ v.gen <= z[v.sid].gen
    /\ v.gen = z[v.sid].gen => w.tries <= z[v.sid].fails + 1
TriesOK(w, z) ==
    /\ w.pc \in AttemptSteps => w.tries \in 1..MaxFailures
    /\ w.pc = "play" => Counting(w, w.guard, z)
    /\ w.pc \in {"resolve", "start", "starting", "unstarted"} => Counting(w, w.cap, z)
TriesCounted == \A t \in Threads : TriesOK(call[t], queues)

-----------------------------------------------------------------------------
(* What a user stopped.  A queue that is neither active nor kept by a call *)
(* never returns.                                                          *)
Keeps(w) == IF w.pc \in AttemptSteps THEN w.after.prev ELSE Nil
Lost(i)  == active # i /\ \A t \in Threads : Keeps(call[t]) # i

(* A queue is active or one call keeps it, if no stop brings queues back. *)
KeptOnce ==
    "stop" \notin client.asks =>
       /\ \A t \in Threads : Keeps(call[t]) # Nil => Keeps(call[t]) # active
       /\ \A t, u \in Threads : t # u /\ Keeps(call[t]) # Nil => Keeps(call[t]) # Keeps(call[u])

(* A ref that played, or that is of a lost queue, does not start again. *)
Dropped(r) == "stop" \notin client.asks /\ Issued(r, queues) /\ Lost(r[1])

(* The calls that stop a session know it from the manager, but a drop,     *)
(* which takes what is active.                                             *)
Stopping == StopSteps \cup {"stop", "replay", "replayLook", "replayStop"}
StopsOK(t) ==
    /\ call[t].pc \in Stopping => call[t].ref \in played
    /\ call[t].pc = "drop" => lock = t /\ (call[t].ref = NoRef \/ Dropped(call[t].ref))
    /\ call[t].pc = "starting" => lock = t /\ Ref(call[t].cap) \notin stopped
StoppedIsOver ==
    /\ owner.sid # 0 => Ref(owner) \in played
    /\ \A t \in Threads : StopsOK(t)
    /\ \A r \in stopped : r \in played \/ Dropped(r)

-----------------------------------------------------------------------------
(* Sequences and records.                                                  *)

LEMMA Replaced ==
    ASSUME NEW s, Len(s) \in Nat, HasFields(s, 1..Len(s)), NEW i \in 1..Len(s), NEW e
    PROVE  /\ Len([s EXCEPT ![i] = e]) = Len(s)
           /\ HasFields([s EXCEPT ![i] = e], 1..Len(s))
           /\ [s EXCEPT ![i] = e][i] = e
           /\ \A j \in 1..Len(s) \ {i} : [s EXCEPT ![i] = e][j] = s[j]
  <1> DEFINE S == {s[j] : j \in 1..Len(s)} \cup {e}
             r == [s EXCEPT ![i] = e]
  <1>1. s \in [1..Len(s) -> S]
    BY DEF HasFields
  <1>2. s \in Seq(S)
    BY <1>1 DEF Seq
  <1>3. r \in [1..Len(s) -> S]
    BY <1>1
  <1>4. r \in Seq(S) /\ DOMAIN r = 1..Len(s)
    BY <1>3 DEF Seq
  <1>5. Len(r) = Len(s)
    BY <1>4, LenProperties
  <1>6. r[i] = e /\ \A j \in 1..Len(s) \ {i} : r[j] = s[j]
    BY <1>1
  <1>7. HasFields(r, 1..Len(s))
    BY <1>3 DEF HasFields
  <1> QED
    BY <1>5, <1>6, <1>7

LEMMA Appended ==
    ASSUME NEW s, Len(s) \in Nat, HasFields(s, 1..Len(s)), NEW e
    PROVE  /\ Len(Append(s, e)) = Len(s) + 1
           /\ HasFields(Append(s, e), 1..Len(s) + 1)
           /\ Append(s, e)[Len(s) + 1] = e
           /\ \A j \in 1..Len(s) : Append(s, e)[j] = s[j]
  <1> DEFINE S == {s[j] : j \in 1..Len(s)} \cup {e}
  <1>1. s \in [1..Len(s) -> S]
    BY DEF HasFields
  <1>2. s \in Seq(S) /\ e \in S
    BY <1>1 DEF Seq
  <1>3. Append(s, e) \in Seq(S) /\ Len(Append(s, e)) = Len(s) + 1
        /\ Append(s, e)[Len(s) + 1] = e /\ \A j \in 1..Len(s) : Append(s, e)[j] = s[j]
    BY <1>2, AppendProperties
  <1>4. HasFields(Append(s, e), 1..Len(s) + 1)
    BY <1>3, LenProperties DEF HasFields
  <1> QED
    BY <1>3, <1>4

(* What a queue says of itself: who it is, and its three counters.         *)
Says(q, sid, gen, token, fails) ==
    /\ HasFields(q, QueueFields)
    /\ q.sid = sid /\ q.gen = gen /\ q.token = token /\ q.fails = fails

LEMMA Untouched ==
    ASSUME NEW q, HasFields(q, QueueFields), NEW x
    PROVE  /\ Says([q EXCEPT !.resolving = x], q.sid, q.gen, q.token, q.fails)
           /\ Says([q EXCEPT !.index = x], q.sid, q.gen, q.token, q.fails)
           /\ Says([q EXCEPT !.fails = x], q.sid, q.gen, q.token, x)
           /\ Says([q EXCEPT !.gen = x], q.sid, x, q.token, q.fails)
           /\ Says([q EXCEPT !.token = x], q.sid, q.gen, x, q.fails)
  <1>1. Says([q EXCEPT !.resolving = x], q.sid, q.gen, q.token, q.fails)
    BY DEF Says, HasFields, QueueFields
  <1>2. Says([q EXCEPT !.index = x], q.sid, q.gen, q.token, q.fails)
    BY DEF Says, HasFields, QueueFields
  <1>3. Says([q EXCEPT !.fails = x], q.sid, q.gen, q.token, x)
    BY DEF Says, HasFields, QueueFields
  <1>4. Says([q EXCEPT !.gen = x], q.sid, x, q.token, q.fails)
    BY DEF Says, HasFields, QueueFields
  <1>5. Says([q EXCEPT !.token = x], q.sid, q.gen, x, q.fails)
    BY DEF Says, HasFields, QueueFields
  <1> QED
    BY <1>1, <1>2, <1>3, <1>4, <1>5

LEMMA QueueOps ==
    ASSUME NEW q, HasFields(q, QueueFields)
    PROVE  /\ Says(q, q.sid, q.gen, q.token, q.fails)
           /\ Says([q EXCEPT !.token = @ + 1, !.resolving = TRUE], q.sid, q.gen, q.token + 1, q.fails)
           /\ Says(Failing(q), q.sid, q.gen, q.token, q.fails + 1)
           /\ Says(Advanced(q), q.sid, q.gen, q.token, q.fails)
           /\ Says(SteppedBack(q), q.sid, q.gen, q.token, q.fails)
           /\ Says(Continue(q), q.sid, q.gen + 1, q.token, q.fails)
           /\ Says(Bump(q), q.sid, q.gen + 1, q.token, q.fails)
           /\ Says(Reset(q), q.sid, q.gen, q.token, 0)
           /\ Says(Moved(q), q.sid, q.gen + 1, q.token, 0)
           /\ Says([Advanced(q) EXCEPT !.gen = @ + 1, !.fails = 0], q.sid, q.gen + 1, q.token, 0)
           /\ Says([Advanced(q) EXCEPT !.gen = @ + 1], q.sid, q.gen + 1, q.token, q.fails)
  <1>1. Says(q, q.sid, q.gen, q.token, q.fails)
    BY DEF Says
  <1>2. Says([q EXCEPT !.token = @ + 1, !.resolving = TRUE], q.sid, q.gen, q.token + 1, q.fails)
    BY DEF Says, HasFields, QueueFields
  <1>3. Says(Failing(q), q.sid, q.gen, q.token, q.fails + 1)
    BY Untouched DEF Failing
  <1>4. Says(Advanced(q), q.sid, q.gen, q.token, q.fails)
    BY Untouched DEF Advanced
  <1>5. Says(SteppedBack(q), q.sid, q.gen, q.token, q.fails)
    BY Untouched DEF SteppedBack
  <1>6. ASSUME NEW p, HasFields(p, QueueFields)
        PROVE  Says([p EXCEPT !.gen = @ + 1, !.resolving = FALSE], p.sid, p.gen + 1, p.token, p.fails)
    BY <1>6 DEF Says, HasFields, QueueFields
  <1>7. HasFields(Advanced(q), QueueFields) /\ Advanced(q).sid = q.sid /\ Advanced(q).gen = q.gen
        /\ Advanced(q).token = q.token /\ Advanced(q).fails = q.fails
    BY <1>4 DEF Says
  <1>8. Says(Continue(q), q.sid, q.gen + 1, q.token, q.fails)
    BY <1>6, <1>7 DEF Continue
  <1>9. Says(Bump(q), q.sid, q.gen + 1, q.token, q.fails)
    BY DEF Bump, Says, HasFields, QueueFields
  <1>10. Says(Reset(q), q.sid, q.gen, q.token, 0)
    BY DEF Reset, Says, HasFields, QueueFields
  <1>11. Says(Moved(q), q.sid, q.gen + 1, q.token, 0)
    BY DEF Moved, Says, HasFields, QueueFields
  <1>12. ASSUME NEW p, HasFields(p, QueueFields)
         PROVE  Says([p EXCEPT !.gen = @ + 1, !.fails = 0], p.sid, p.gen + 1, p.token, 0)
    BY <1>12 DEF Says, HasFields, QueueFields
  <1>13. Says([Advanced(q) EXCEPT !.gen = @ + 1, !.fails = 0], q.sid, q.gen + 1, q.token, 0)
    BY <1>12, <1>7
  <1>14. Says([Advanced(q) EXCEPT !.gen = @ + 1], q.sid, q.gen + 1, q.token, q.fails)
    BY <1>7, Untouched
  <1> QED
    BY <1>1, <1>2, <1>3, <1>4, <1>5, <1>8, <1>9, <1>10, <1>11, <1>13, <1>14

LEMMA NewQueue ==
    ASSUME NEW kind, NEW skip
    PROVE  Says(Built(kind, skip), NewSid, 0, 0, 0)
  BY DEF Built, Says, HasFields, QueueFields

(* What a step does to the queues: identities stay, counters go up, and a  *)
(* queue forgets its failures only in a new generation.                    *)
Grown(s, z) ==
    /\ Len(s) <= Len(z)
    /\ \A i \in 1..Len(s) : /\ z[i].sid = s[i].sid
                            /\ s[i].gen <= z[i].gen /\ s[i].token <= z[i].token
Steady(s, z) == \A i \in 1..Len(s) : z[i].gen = s[i].gen => z[i].fails = s[i].fails

LEMMA SameList ==
    ASSUME NEW s, ListOK(s)
    PROVE  Grown(s, s) /\ Steady(s, s)
  BY DEF Grown, Steady, ListOK, IsQueue

LEMMA OneChanges ==
    ASSUME NEW s, ListOK(s), NEW i \in 1..Len(s), NEW e,
           NEW g \in Nat, NEW k \in Nat, NEW f \in Nat, Says(e, s[i].sid, g, k, f),
           s[i].gen <= g, s[i].token <= k
    PROVE  /\ ListOK([s EXCEPT ![i] = e])
           /\ Len([s EXCEPT ![i] = e]) = Len(s)
           /\ [s EXCEPT ![i] = e][i] = e
           /\ \A j \in 1..Len(s) \ {i} : [s EXCEPT ![i] = e][j] = s[j]
           /\ Grown(s, [s EXCEPT ![i] = e])
           /\ OwnIds(s) => OwnIds([s EXCEPT ![i] = e])
           /\ (g = s[i].gen => f = s[i].fails) => Steady(s, [s EXCEPT ![i] = e])
  <1> DEFINE z == [s EXCEPT ![i] = e]
  <1>1. Len(s) \in Nat /\ HasFields(s, 1..Len(s))
        /\ \A j \in 1..Len(s) : IsQueue(s[j]) /\ s[j].sid \in 1..Len(s)
    BY DEF ListOK
  <1>2. Len(z) = Len(s) /\ HasFields(z, 1..Len(s)) /\ z[i] = e
        /\ \A j \in 1..Len(s) \ {i} : z[j] = s[j]
    BY <1>1, Replaced
  <1>3. IsQueue(e) /\ e.sid = s[i].sid /\ e.gen = g /\ e.token = k /\ e.fails = f
    BY DEF Says, IsQueue
  <1> HIDE DEF z
  <1>4. ListOK(z)
    BY <1>1, <1>2, <1>3 DEF ListOK
  <1>5. Grown(s, z)
    <2>1. ASSUME NEW j \in 1..Len(s)
          PROVE  z[j].sid = s[j].sid /\ s[j].gen <= z[j].gen /\ s[j].token <= z[j].token
      <3>1. CASE j = i
        BY <1>2, <1>3, <3>1
      <3>2. CASE j # i
        <4>1. z[j] = s[j] /\ s[j].gen \in Nat /\ s[j].token \in Nat
          BY <1>1, <1>2, <3>2 DEF IsQueue
        <4> QED
          BY <4>1
      <3> QED
        BY <3>1, <3>2
    <2> QED
      BY <1>1, <1>2, <2>1 DEF Grown
  <1>6. OwnIds(s) => OwnIds(z)
    BY <1>1, <1>2, <1>3 DEF OwnIds
  <1>7. (g = s[i].gen => f = s[i].fails) => Steady(s, z)
    BY <1>1, <1>2, <1>3 DEF Steady
  <1> QED
    BY <1>2, <1>4, <1>5, <1>6, <1>7 DEF z

LEMMA OneAdded ==
    ASSUME NEW s, ListOK(s), NEW e, NEW sid \in 1..Len(s) + 1,
           NEW g \in Nat, NEW k \in Nat, NEW f \in Nat, Says(e, sid, g, k, f)
    PROVE  /\ ListOK(Append(s, e))
           /\ Len(Append(s, e)) = Len(s) + 1
           /\ Append(s, e)[Len(s) + 1] = e
           /\ \A j \in 1..Len(s) : Append(s, e)[j] = s[j]
           /\ Grown(s, Append(s, e)) /\ Steady(s, Append(s, e))
           /\ OwnIds(s) /\ sid = Len(s) + 1 => OwnIds(Append(s, e))
  <1> DEFINE z == Append(s, e)
  <1>1. Len(s) \in Nat /\ HasFields(s, 1..Len(s))
        /\ \A j \in 1..Len(s) : IsQueue(s[j]) /\ s[j].sid \in 1..Len(s)
    BY DEF ListOK
  <1>2. Len(z) = Len(s) + 1 /\ HasFields(z, 1..Len(s) + 1) /\ z[Len(s) + 1] = e
        /\ \A j \in 1..Len(s) : z[j] = s[j]
    BY <1>1, Appended
  <1>3. IsQueue(e) /\ e.sid = sid
    BY DEF Says, IsQueue
  <1> HIDE DEF z
  <1>4. ListOK(z)
    <2>1. Len(z) \in Nat /\ HasFields(z, 1..Len(z))
      BY <1>1, <1>2
    <2>2. ASSUME NEW j \in 1..Len(z) PROVE IsQueue(z[j]) /\ z[j].sid \in 1..Len(z)
      <3>1. CASE j = Len(s) + 1
        BY <1>1, <1>2, <1>3, <3>1
      <3>2. CASE j \in 1..Len(s)
        <4>1. z[j] = s[j] /\ IsQueue(s[j]) /\ s[j].sid \in 1..Len(s)
          BY <1>1, <1>2, <3>2
        <4>2. s[j].sid \in 1..Len(z)
          BY <1>1, <1>2, <4>1
        <4> QED
          BY <4>1, <4>2
      <3> QED
        BY <1>1, <1>2, <3>1, <3>2
    <2> QED
      BY <2>1, <2>2 DEF ListOK
  <1>5. Grown(s, z) /\ Steady(s, z)
    BY <1>1, <1>2 DEF Grown, Steady, IsQueue
  <1>6. OwnIds(s) /\ sid = Len(s) + 1 => OwnIds(z)
    BY <1>1, <1>2, <1>3 DEF OwnIds
  <1> QED
    BY <1>2, <1>4, <1>5, <1>6 DEF z

(* Two changes one after the other. *)
LEMMA GrownTwice ==
    ASSUME NEW s, NEW y, NEW z, ListOK(s), ListOK(y), ListOK(z), Grown(s, y), Grown(y, z)
    PROVE  Grown(s, z) /\ (Steady(s, y) /\ Steady(y, z) => Steady(s, z))
  <1>1. Len(s) \in Nat /\ Len(y) \in Nat /\ Len(z) \in Nat /\ Len(s) <= Len(y) /\ Len(y) <= Len(z)
    BY DEF ListOK, Grown
  <1>2. ASSUME NEW i \in 1..Len(s)
        PROVE  /\ z[i].sid = s[i].sid /\ s[i].gen <= z[i].gen /\ s[i].token <= z[i].token
               /\ Steady(s, y) /\ Steady(y, z) => (z[i].gen = s[i].gen => z[i].fails = s[i].fails)
    <2>1. i \in 1..Len(y) /\ i \in 1..Len(z)
      BY <1>1
    <2>2. /\ s[i].gen \in Nat /\ y[i].gen \in Nat /\ z[i].gen \in Nat
          /\ s[i].token \in Nat /\ y[i].token \in Nat /\ z[i].token \in Nat
      BY <2>1 DEF ListOK, IsQueue
    <2>3. /\ z[i].sid = s[i].sid /\ s[i].gen <= y[i].gen /\ y[i].gen <= z[i].gen
          /\ s[i].token <= y[i].token /\ y[i].token <= z[i].token
      BY <2>1 DEF Grown
    <2>4. Steady(s, y) /\ Steady(y, z) => /\ y[i].gen = s[i].gen => y[i].fails = s[i].fails
                                          /\ z[i].gen = y[i].gen => z[i].fails = y[i].fails
      BY <2>1 DEF Steady
    <2>5. s[i].gen <= z[i].gen /\ s[i].token <= z[i].token
      BY <2>2, <2>3
    <2>6. z[i].gen = s[i].gen => y[i].gen = s[i].gen /\ z[i].gen = y[i].gen
      BY <2>2, <2>3
    <2> QED
      BY <2>3, <2>4, <2>5, <2>6
  <1>3. Len(s) <= Len(z)
    BY <1>1
  <1>4. Grown(s, z)
    BY <1>2, <1>3 DEF Grown
  <1>5. Steady(s, y) /\ Steady(y, z) => Steady(s, z)
    BY <1>2 DEF Steady
  <1> QED
    BY <1>4, <1>5

-----------------------------------------------------------------------------
(* Calls.                                                                  *)

LEMMA CallKinds ==
    /\ Resting.pc = "none"
    /\ \A n : CallOK(Resting, n)
    /\ Entitled(Resting)
  BY DEF Resting, CallOK, Entitled, AttemptSteps, Captured, StopSteps, ReplaySteps

LEMMA MoreQueues ==
    ASSUME NEW w, NEW n \in Nat, NEW m \in Nat, n <= m, CallOK(w, n)
    PROVE  CallOK(w, m)
  BY DEF CallOK, AfterOK

(* An attempt goes on. *)
LEMMA Onward ==
    ASSUME NEW w, HasFields(w, AttemptFields), NEW p \in AttemptSteps
    PROVE  /\ HasFields([w EXCEPT !.pc = p], AttemptFields)
           /\ [w EXCEPT !.pc = p].pc = p
           /\ [w EXCEPT !.pc = p].guard = w.guard
           /\ [w EXCEPT !.pc = p].starter = w.starter
           /\ [w EXCEPT !.pc = p].after = w.after
           /\ [w EXCEPT !.pc = p].cap = w.cap
           /\ [w EXCEPT !.pc = p].live = w.live
           /\ [w EXCEPT !.pc = p].tries = w.tries
  BY DEF HasFields, AttemptFields

LEMMA AttemptOK ==
    ASSUME NEW w, NEW n \in Nat, HasFields(w, AttemptFields), w.pc \in AttemptSteps,
           w.tries \in Nat, AfterOK(w.after, n),
           w.pc \in Captured => w.cap.sid \in 1..n /\ w.cap.token \in Nat
    PROVE  CallOK(w, n) /\ Entitled(w)
  BY DEF CallOK, Entitled, AttemptSteps, Captured, StopSteps, ReplaySteps

LEMMA OnwardOK ==
    ASSUME NEW w, NEW n \in Nat, CallOK(w, n), w.pc \in AttemptSteps,
           NEW p \in AttemptSteps, p \in Captured => w.pc \in Captured
    PROVE  CallOK([w EXCEPT !.pc = p], n) /\ Entitled([w EXCEPT !.pc = p])
  <1>1. HasFields(w, AttemptFields) /\ w.tries \in Nat /\ AfterOK(w.after, n)
        /\ (p \in Captured => w.cap.sid \in 1..n /\ w.cap.token \in Nat)
    BY DEF CallOK
  <1> DEFINE r == [w EXCEPT !.pc = p]
  <1>2. HasFields(r, AttemptFields) /\ r.pc = p /\ r.after = w.after /\ r.cap = w.cap
        /\ r.tries = w.tries
    BY <1>1, Onward
  <1> HIDE DEF r
  <1>3. CallOK(r, n) /\ Entitled(r)
    BY <1>1, <1>2, AttemptOK
  <1> QED
    BY <1>3 DEF r

LEMMA Begins ==
    ASSUME NEW guard, NEW starter, NEW after
    PROVE  LET w == Playing(guard, starter, after)
           IN /\ HasFields(w, AttemptFields)
              /\ w.pc = "play" /\ w.guard = guard /\ w.after = after /\ w.tries = 1
  BY DEF Playing, HasFields, AttemptFields

LEMMA BeginsOK ==
    ASSUME NEW guard, NEW starter, NEW after, NEW n \in Nat, AfterOK(after, n)
    PROVE  CallOK(Playing(guard, starter, after), n) /\ Entitled(Playing(guard, starter, after))
  <1> DEFINE w == Playing(guard, starter, after)
  <1>1. HasFields(w, AttemptFields) /\ w.pc = "play" /\ w.after = after /\ w.tries = 1
    BY Begins
  <1>2. w.pc \in AttemptSteps /\ w.pc \notin Captured /\ w.tries \in Nat
    BY <1>1 DEF AttemptSteps, Captured
  <1> HIDE DEF w
  <1>3. CallOK(w, n) /\ Entitled(w)
    BY <1>1, <1>2, AttemptOK
  <1> QED
    BY <1>3 DEF w

(* A stop or a replay goes on. *)
LEMMA StopOnward ==
    ASSUME NEW w, HasFields(w, StopFields), NEW p
    PROVE  /\ HasFields([w EXCEPT !.pc = p], StopFields)
           /\ [w EXCEPT !.pc = p].pc = p /\ [w EXCEPT !.pc = p].ref = w.ref
           /\ [w EXCEPT !.pc = p].q = w.q
  BY DEF HasFields, StopFields

LEMMA ReplayOnward ==
    ASSUME NEW w, HasFields(w, ReplayFields), NEW p
    PROVE  /\ HasFields([w EXCEPT !.pc = p], ReplayFields)
           /\ [w EXCEPT !.pc = p].pc = p /\ [w EXCEPT !.pc = p].ref = w.ref
           /\ [w EXCEPT !.pc = p].q = w.q
  BY DEF HasFields, ReplayFields

-----------------------------------------------------------------------------
(* What a step of a thread does to the queues and to the calls.            *)

Others(t) == HasFields(call', Threads) /\ \A u \in Threads \ {t} : call'[u] = call[u]

QueuesGo ==
    /\ ListOK(queues') /\ active' \in 0..Len(queues') /\ Grown(queues, queues')
    /\ "replay" \notin client.asks => Steady(queues, queues')
    /\ "move" \notin client.asks /\ Originals => OwnIds(queues')

CallGoes(t) ==
    /\ Others(t) /\ client' = client
    /\ CallOK(call'[t], Len(queues')) /\ Entitled(call'[t])

(* Nothing that counts is changed. *)
Alike(s, z) ==
    /\ Len(z) = Len(s)
    /\ \A i \in 1..Len(s) : z[i].sid = s[i].sid /\ z[i].gen = s[i].gen /\ z[i].token = s[i].token
                            /\ z[i].fails = s[i].fails

LEMMA GoesOn ==
    ASSUME HasFields(call, Threads), NEW t \in Threads, NEW w, Goes(t, w)
    PROVE  Others(t) /\ call'[t] = w
  BY DEF Goes, Others, HasFields

LEMMA KeepsQueues ==
    ASSUME QueuesOK, queues' = queues, active' \in 0..Len(queues)
    PROVE  QueuesGo /\ Alike(queues, queues')
  BY SameList DEF QueuesOK, QueuesGo, Originals, Alike

LEMMA Replaces ==
    ASSUME QueuesOK, NEW i \in 1..Len(queues), NEW e, queues' = [queues EXCEPT ![i] = e],
           active' \in 0..Len(queues),
           NEW g \in Nat, NEW k \in Nat, NEW f \in Nat, Says(e, queues[i].sid, g, k, f),
           queues[i].gen <= g, queues[i].token <= k,
           "replay" \notin client.asks => (g = queues[i].gen => f = queues[i].fails)
    PROVE  /\ QueuesGo
           /\ Len(queues') = Len(queues) /\ queues'[i] = e
           /\ \A j \in 1..Len(queues) \ {i} : queues'[j] = queues[j]
  <1>1. ListOK(queues)
    BY DEF QueuesOK
  <1> DEFINE z == [queues EXCEPT ![i] = e]
  <1>2. /\ ListOK(z)
        /\ Len(z) = Len(queues)
        /\ z[i] = e
        /\ \A j \in 1..Len(queues) \ {i} : z[j] = queues[j]
        /\ Grown(queues, z)
        /\ OwnIds(queues) => OwnIds(z)
        /\ (g = queues[i].gen => f = queues[i].fails) => Steady(queues, z)
    BY <1>1, OneChanges
  <1> HIDE DEF z
  <1>3. queues' = z
    BY DEF z
  <1> QED
    BY <1>2, <1>3 DEF QueuesGo, Originals

LEMMA Quiets ==
    ASSUME QueuesOK, NEW i \in 1..Len(queues),
           queues' = [queues EXCEPT ![i].resolving = FALSE], active' \in 0..Len(queues)
    PROVE  QueuesGo /\ Alike(queues, queues')
  <1> DEFINE e == [queues[i] EXCEPT !.resolving = FALSE]
             q == queues[i]
  <1>1. ListOK(queues) /\ HasFields(q, QueueFields) /\ q.gen \in Nat /\ q.token \in Nat /\ q.fails \in Nat
    BY DEF QueuesOK, ListOK, IsQueue
  <1>2. Says(e, q.sid, q.gen, q.token, q.fails)
    BY <1>1, Untouched
  <1>3. queues' = [queues EXCEPT ![i] = e]
    OBVIOUS
  <1>4. q.gen <= q.gen /\ q.token <= q.token
    BY <1>1
  <1>5. /\ QueuesGo
        /\ Len(queues') = Len(queues) /\ queues'[i] = e
        /\ \A j \in 1..Len(queues) \ {i} : queues'[j] = queues[j]
    <2> HIDE DEF e
    <2> QED
      BY <1>1, <1>2, <1>3, <1>4, Replaces
  <1>6. Alike(queues, queues')
    <2>1. e.sid = q.sid /\ e.gen = q.gen /\ e.token = q.token /\ e.fails = q.fails
      BY <1>2 DEF Says
    <2> HIDE DEF e
    <2> QED
      BY <1>5, <2>1 DEF Alike
  <1> QED
    BY <1>5, <1>6

LEMMA Clears ==
    ASSUME QueuesOK, ClearActive
    PROVE  QueuesGo /\ Alike(queues, queues') /\ active' = Nil
  <1>1. active' = 0 /\ active' \in 0..Len(queues)
    BY DEF ClearActive, Nil, QueuesOK, ListOK
  <1>2. CASE active = Nil
    BY <1>1, <1>2, KeepsQueues DEF ClearActive, Nil
  <1>3. CASE active # Nil
    <2>1. active \in 1..Len(queues) /\ queues' = [queues EXCEPT ![active].resolving = FALSE]
      BY <1>3 DEF ClearActive, Nil, QueuesOK, ListOK
    <2> QED
      BY <1>1, <2>1, Quiets DEF Nil
  <1> QED
    BY <1>2, <1>3

(* The active queue changes. *)
LEMMA ActiveOK ==
    ASSUME QueuesOK, active # Nil
    PROVE  /\ active \in 1..Len(queues)
           /\ HasFields(queues[active], QueueFields)
           /\ queues[active].sid \in 1..Len(queues)
           /\ queues[active].gen \in Nat /\ queues[active].token \in Nat /\ queues[active].fails \in Nat
  BY DEF QueuesOK, ListOK, IsQueue, Nil

LEMMA Updates ==
    ASSUME QueuesOK, active # Nil, NEW q, Update(q), active' = active,
           NEW g \in Nat, NEW k \in Nat, NEW f \in Nat, Says(q, queues[active].sid, g, k, f),
           queues[active].gen <= g, queues[active].token <= k,
           "replay" \notin client.asks => (g = queues[active].gen => f = queues[active].fails)
    PROVE  /\ QueuesGo
           /\ Len(queues') = Len(queues) /\ queues'[active] = q
           /\ \A j \in 1..Len(queues) \ {active} : queues'[j] = queues[j]
  <1>1. active \in 1..Len(queues) /\ active' \in 0..Len(queues)
    BY ActiveOK DEF QueuesOK
  <1>2. queues' = [queues EXCEPT ![active] = q]
    BY DEF Update
  <1> QED
    BY <1>1, <1>2, Replaces

LEMMA Adds ==
    ASSUME QueuesOK, NEW q, queues' = Append(queues, q), active' \in 0..Len(queues) + 1,
           NEW sid \in 1..Len(queues) + 1, NEW g \in Nat, NEW k \in Nat, NEW f \in Nat,
           Says(q, sid, g, k, f), sid = Len(queues) + 1 \/ "move" \in client.asks
    PROVE  /\ QueuesGo
           /\ Len(queues') = Len(queues) + 1 /\ queues'[Len(queues) + 1] = q
           /\ \A j \in 1..Len(queues) : queues'[j] = queues[j]
  <1>1. ListOK(queues)
    BY DEF QueuesOK
  <1>2. /\ ListOK(queues') /\ Len(queues') = Len(queues) + 1 /\ queues'[Len(queues) + 1] = q
        /\ \A j \in 1..Len(queues) : queues'[j] = queues[j]
        /\ Grown(queues, queues') /\ Steady(queues, queues')
        /\ OwnIds(queues) /\ sid = Len(queues) + 1 => OwnIds(queues')
    BY <1>1, OneAdded
  <1> QED
    BY <1>2 DEF QueuesGo, Originals

LEMMA AttemptGoes ==
    ASSUME QueueShape, NEW t \in Threads, call[t].pc \in AttemptSteps, NEW p \in AttemptSteps,
           p \in Captured => call[t].pc \in Captured, To(t, p), client' = client, QueuesGo
    PROVE  /\ CallGoes(t)
           /\ call'[t].pc = p /\ call'[t].cap = call[t].cap /\ call'[t].after = call[t].after
           /\ call'[t].tries = call[t].tries /\ call'[t].guard = call[t].guard
  <1> DEFINE w == [call[t] EXCEPT !.pc = p]
  <1>1. Goes(t, w)
    BY DEF To
  <1>2. HasFields(call, Threads) /\ CallOK(call[t], Len(queues)) /\ HasFields(call[t], AttemptFields)
    BY DEF QueueShape, CallsOK, CallOK
  <1>3. Len(queues) \in Nat /\ Len(queues') \in Nat /\ Len(queues) <= Len(queues')
    BY DEF QueueShape, QueuesOK, QueuesGo, ListOK, Grown
  <1>4. CallOK(w, Len(queues)) /\ Entitled(w)
    BY <1>2, <1>3, OnwardOK
  <1>5. w.pc = p /\ w.cap = call[t].cap /\ w.after = call[t].after
        /\ w.tries = call[t].tries /\ w.guard = call[t].guard
    BY <1>2, Onward
  <1> HIDE DEF w
  <1>6. CallOK(w, Len(queues'))
    BY <1>3, <1>4, MoreQueues
  <1>7. Others(t) /\ call'[t] = w
    BY <1>1, <1>2, GoesOn
  <1> QED
    BY <1>4, <1>5, <1>6, <1>7 DEF CallGoes

LEMMA CallEnds ==
    ASSUME QueueShape, NEW t \in Threads, Ends(t), client' = client
    PROVE  CallGoes(t) /\ call'[t] = Resting
  <1>1. Others(t) /\ call'[t] = Resting
    BY GoesOn DEF QueueShape, CallsOK, Ends
  <1> QED
    BY <1>1, CallKinds DEF CallGoes

LEMMA NewAttempt ==
    ASSUME QueueShape, NEW t \in Threads, NEW guard, NEW starter, NEW after,
           Goes(t, Playing(guard, starter, after)), QueuesGo, AfterOK(after, Len(queues')),
           client' = client
    PROVE  /\ CallGoes(t)
           /\ call'[t].pc = "play" /\ call'[t].guard = guard /\ call'[t].after = after
           /\ call'[t].tries = 1
  <1> DEFINE w == Playing(guard, starter, after)
  <1>1. Len(queues') \in Nat
    BY DEF QueuesGo, ListOK
  <1>2. CallOK(w, Len(queues')) /\ Entitled(w)
    BY <1>1, BeginsOK
  <1>3. w.pc = "play" /\ w.guard = guard /\ w.after = after /\ w.tries = 1
    BY Begins
  <1>4. Goes(t, w)
    OBVIOUS
  <1> HIDE DEF w
  <1>5. Others(t) /\ call'[t] = w
    BY <1>4, GoesOn DEF QueueShape, CallsOK
  <1> QED
    BY <1>2, <1>3, <1>5 DEF CallGoes

-----------------------------------------------------------------------------
(* The steps of an attempt.                                                *)

(* What a captured attempt that still matches knows. *)
LEMMA MatchesWhich ==
    ASSUME QueuesOK, NEW c, Matches(c)
    PROVE  /\ active # Nil
           /\ c.sid = queues[active].sid /\ c.gen = queues[active].gen /\ c.token = queues[active].token
  BY DEF Matches, CaptureOf, Capture

(* Where an attempt's own call goes: it ends or goes on, *)
Runs(t) ==
    \/ call'[t] = Resting
    \/ /\ call'[t].pc \in AttemptSteps \ {"play", "resolve"}
       /\ call'[t].cap = call[t].cap /\ call'[t].after = call[t].after /\ call'[t].tries = call[t].tries
       /\ call'[t].pc = "start" => call[t].pc = "resolve"
       /\ call'[t].pc = "starting" => call[t].pc = "start"
       /\ call'[t].pc = "unstarted" => call[t].pc = "starting"
(* takes the next token of its queue, *)
Issues(t) ==
    /\ call[t].pc = "play" /\ active # Nil /\ active' = active
    /\ call[t].guard.sid = queues[active].sid /\ call[t].guard.gen = queues[active].gen
    /\ call'[t].pc = "resolve" /\ call'[t].after = call[t].after /\ call'[t].tries = call[t].tries
    /\ call'[t].cap.sid = queues[active].sid /\ call'[t].cap.gen = queues[active].gen
    /\ call'[t].cap.token = queues[active].token + 1
    /\ queues'[active].gen = queues[active].gen /\ queues'[active].fails = queues[active].fails
    /\ queues'[active].token = queues[active].token + 1
(* or tries the next item. *)
Retries(t) ==
    /\ call[t].pc \in {"resolve", "unstarted"} /\ Matches(call[t].cap) /\ active' = active
    /\ call'[t].pc = "play" /\ call'[t].after = call[t].after
    /\ call'[t].tries = call[t].tries + 1
    /\ queues[active].fails + 1 < MaxFailures
    /\ call'[t].guard.sid = queues[active].sid /\ call'[t].guard.gen = queues[active].gen + 1
    /\ queues'[active].gen = queues[active].gen + 1
    /\ queues'[active].fails = queues[active].fails + 1

LEMMA PlayEffect ==
    ASSUME QueueShape, NEW t \in Threads, Play(t)
    PROVE  QueuesGo /\ CallGoes(t) /\ (Runs(t) \/ Issues(t))
  <1>0. QueuesOK /\ active' = active /\ client' = client /\ active' \in 0..Len(queues)
        /\ call[t].pc = "play"
    BY DEF QueueShape, Play, bounds, At, QueuesOK
  <1>1. CASE ~Guards(call[t].guard)
    <2>1. queues' = queues /\ To(t, "failed")
      BY <1>1 DEF Play, Fails
    <2>2. QueuesGo
      BY <1>0, <2>1, KeepsQueues
    <2>3. "play" \in AttemptSteps /\ "failed" \in AttemptSteps \ {"play", "resolve"}
          /\ "failed" \notin Captured
      BY DEF AttemptSteps, Captured
    <2> QED
      BY <1>0, <2>1, <2>2, <2>3, AttemptGoes DEF Runs
  <1>2. CASE Guards(call[t].guard)
    <2> DEFINE q == queues[active]
               e == [q EXCEPT !.token = @ + 1, !.resolving = TRUE]
               w == [call[t] EXCEPT !.pc = "resolve", !.cap = CaptureOf(e), !.live = e.kind = "live"]
    <2>1. active # Nil /\ Update(e) /\ Goes(t, w)
          /\ call[t].guard.sid = q.sid /\ call[t].guard.gen = q.gen
      BY <1>2 DEF Play, Guards, Version
    <2>2. active \in 1..Len(queues) /\ HasFields(q, QueueFields) /\ q.sid \in 1..Len(queues)
          /\ q.gen \in Nat /\ q.token \in Nat /\ q.fails \in Nat
      BY <1>0, <2>1, ActiveOK
    <2>3. Says(e, q.sid, q.gen, q.token + 1, q.fails)
      BY <2>2, QueueOps
    <2>4. q.token + 1 \in Nat /\ q.token <= q.token + 1 /\ q.gen <= q.gen
      BY <2>2
    <2>5. QueuesGo /\ Len(queues') = Len(queues) /\ queues'[active] = e
      <3> HIDE DEF e
      <3> QED
        BY <1>0, <2>1, <2>2, <2>3, <2>4, Updates
    <2>6. CaptureOf(e).sid = q.sid /\ CaptureOf(e).token = q.token + 1 /\ CaptureOf(e).gen = q.gen
          /\ e.gen = q.gen /\ e.fails = q.fails /\ e.token = q.token + 1
      BY <2>3 DEF Says, CaptureOf, Capture
    <2>7. HasFields(call[t], AttemptFields) /\ call[t].tries \in Nat
          /\ AfterOK(call[t].after, Len(queues)) /\ HasFields(call, Threads)
      BY <1>0 DEF QueueShape, CallsOK, CallOK, AttemptSteps
    <2>8. HasFields(w, AttemptFields) /\ w.pc = "resolve" /\ w.cap = CaptureOf(e)
          /\ w.tries = call[t].tries /\ w.after = call[t].after
      <3> HIDE DEF e
      <3> QED
        BY <2>7 DEF HasFields, AttemptFields
    <2>9. Len(queues) \in Nat
      BY <1>0 DEF QueuesOK, ListOK
    <2> HIDE DEF w, e
    <2>10. CallOK(w, Len(queues')) /\ Entitled(w)
      BY <2>2, <2>4, <2>5, <2>6, <2>7, <2>8, <2>9, AttemptOK DEF AttemptSteps
    <2>11. Others(t) /\ call'[t] = w
      BY <2>1, <2>7, GoesOn
    <2>12. Issues(t)
      BY <1>0, <2>1, <2>5, <2>6, <2>8, <2>11 DEF Issues
    <2> QED
      BY <1>0, <2>5, <2>10, <2>11, <2>12 DEF CallGoes
  <1> QED
    BY <1>1, <1>2

LEMMA RecordEffect ==
    ASSUME QueueShape, NEW t \in Threads, call[t].pc \in {"resolve", "unstarted"},
           RecordFailure(t), client' = client
    PROVE  /\ QueuesGo /\ CallGoes(t)
           /\ Runs(t) \/ Retries(t)
  <1>0. QueuesOK /\ active \in 0..Len(queues) /\ call[t].pc \in AttemptSteps
        /\ "failed" \in AttemptSteps \ {"play", "resolve"} /\ "failed" \notin Captured
    BY DEF QueueShape, QueuesOK, AttemptSteps, Captured
  <1>1. CASE ~Matches(call[t].cap)
    <2>1. queues' = queues /\ active' = active /\ To(t, "failed")
      BY <1>1 DEF RecordFailure, Fails, Keep
    <2>2. QueuesGo
      BY <1>0, <2>1, KeepsQueues
    <2> QED
      BY <1>0, <2>1, <2>2, AttemptGoes DEF Runs
  <1>2. CASE Matches(call[t].cap) /\ GivesUp(Failing(queues[active]))
    <2>1. ClearActive /\ To(t, "failed")
      BY <1>2 DEF RecordFailure, Fails
    <2>2. QueuesGo
      BY <1>0, <2>1, Clears
    <2> QED
      BY <1>0, <2>1, <2>2, AttemptGoes DEF Runs
  <1>3. CASE Matches(call[t].cap) /\ ~GivesUp(Failing(queues[active]))
    <2> DEFINE q == queues[active]
               e == Continue(Failing(q))
               w == [call[t] EXCEPT !.pc = "play", !.guard = Version(e), !.tries = @ + 1]
    <2>1. active # Nil /\ Update(e) /\ Goes(t, w) /\ active' = active
      BY <1>3 DEF RecordFailure, Matches
    <2>2. active \in 1..Len(queues) /\ HasFields(q, QueueFields) /\ q.sid \in 1..Len(queues)
          /\ q.gen \in Nat /\ q.token \in Nat /\ q.fails \in Nat
      BY <1>0, <2>1, ActiveOK
    <2>3. Says(Failing(q), q.sid, q.gen, q.token, q.fails + 1)
      BY <2>2, QueueOps
    <2>4. HasFields(Failing(q), QueueFields) /\ Failing(q).sid = q.sid /\ Failing(q).gen = q.gen
          /\ Failing(q).token = q.token /\ Failing(q).fails = q.fails + 1
      BY <2>3 DEF Says
    <2>5. Says(e, q.sid, q.gen + 1, q.token, q.fails + 1)
      BY <2>4, QueueOps
    <2>6. q.gen + 1 \in Nat /\ q.gen <= q.gen + 1 /\ q.token <= q.token /\ q.fails + 1 \in Nat
          /\ q.gen + 1 # q.gen
      BY <2>2
    <2>7. QueuesGo /\ Len(queues') = Len(queues) /\ queues'[active] = e
      <3> HIDE DEF e
      <3> QED
        BY <1>0, <2>1, <2>2, <2>5, <2>6, Updates
    <2>8. HasFields(call[t], AttemptFields) /\ call[t].tries \in Nat
          /\ AfterOK(call[t].after, Len(queues)) /\ HasFields(call, Threads)
      BY <1>0 DEF QueueShape, CallsOK, CallOK
    <2>9. HasFields(w, AttemptFields) /\ w.pc = "play" /\ w.guard = Version(e)
          /\ w.tries = call[t].tries + 1 /\ w.after = call[t].after
      <3> HIDE DEF e
      <3> QED
        BY <2>8 DEF HasFields, AttemptFields
    <2>10. Len(queues) \in Nat /\ call[t].tries + 1 \in Nat
      BY <1>0, <2>8 DEF QueuesOK, ListOK
    <2> HIDE DEF w, e
    <2>11. CallOK(w, Len(queues')) /\ Entitled(w)
      BY <2>7, <2>8, <2>9, <2>10, AttemptOK DEF AttemptSteps, Captured
    <2>12. Others(t) /\ call'[t] = w
      BY <2>1, <2>8, GoesOn
    <2>13. QueuesGo /\ CallGoes(t)
      BY <2>7, <2>11, <2>12 DEF CallGoes
    <2>14. e.sid = q.sid /\ e.gen = q.gen + 1 /\ e.fails = q.fails + 1
      BY <2>5 DEF Says
    <2>15. Version(e).sid = q.sid /\ Version(e).gen = q.gen + 1
      BY <2>14 DEF Version
    <2>16. q.fails + 1 < MaxFailures
      BY <1>3, <2>2, <2>4, StreamQueueAssumption DEF GivesUp
    <2>17. Retries(t)
      BY <1>3, <2>1, <2>7, <2>9, <2>12, <2>14, <2>15, <2>16 DEF Retries
    <2> QED
      BY <2>13, <2>17
  <1> QED
    BY <1>1, <1>2, <1>3

LEMMA ResolveEffect ==
    ASSUME QueueShape, NEW t \in Threads, ResolveItem(t) \/ OpenBuffer(t) \/ StartFailed(t)
    PROVE  QueuesGo /\ CallGoes(t) /\ (Runs(t) \/ Retries(t))
  <1>0. QueuesOK /\ active \in 0..Len(queues) /\ client' = client
    BY DEF QueueShape, QueuesOK, ResolveItem, OpenBuffer, StartFailed, bounds
  <1>1. CASE ResolveItem(t)
    <2>1. call[t].pc = "resolve"
      BY <1>1 DEF ResolveItem, At
    <2>2. CASE RecordFailure(t)
      BY <1>0, <2>1, <2>2, RecordEffect
    <2>3. ASSUME NEW p \in {"start", "failed"}, To(t, p), Keep \/ ClearActive
          PROVE  QueuesGo /\ CallGoes(t) /\ Runs(t)
      <3>1. QueuesGo
        BY <1>0, <2>3, KeepsQueues, Clears DEF Keep
      <3>2. call[t].pc \in AttemptSteps /\ call[t].pc \in Captured
            /\ p \in AttemptSteps \ {"play", "resolve"}
        BY <2>1 DEF AttemptSteps, Captured
      <3> QED
        BY <1>0, <2>1, <2>3, <3>1, <3>2, AttemptGoes DEF Runs
    <2> QED
      BY <1>1, <2>2, <2>3 DEF ResolveItem, Fails
  <1>2. CASE OpenBuffer(t)
    <2>1. call[t].pc = "resolve" /\ active' = active
      BY <1>2 DEF OpenBuffer, At
    <2>2. \E p \in {"start", "failed"} : To(t, p)
      BY <1>2 DEF OpenBuffer, Fails
    <2>3. queues' = queues \/ (active # Nil /\ queues' = [queues EXCEPT ![active].resolving = FALSE])
      BY <1>2 DEF OpenBuffer, Matches
    <2>4. QueuesGo
      BY <1>0, <2>1, <2>3, KeepsQueues, ActiveOK, Quiets
    <2>5. call[t].pc \in AttemptSteps /\ call[t].pc \in Captured 
          /\ {"start", "failed"} \subseteq AttemptSteps \ {"play", "resolve"}
      BY <2>1 DEF AttemptSteps, Captured
    <2> QED
      BY <1>0, <2>1, <2>2, <2>4, <2>5, AttemptGoes DEF Runs
  <1>3. CASE StartFailed(t)
    BY <1>0, <1>3, RecordEffect DEF StartFailed, At
  <1> QED
    BY <1>1, <1>2, <1>3

(* The steps that only move on, and may let the queue go. *)
LEMMA ManagerEffect ==
    ASSUME QueueShape, NEW t \in Threads,
           LockForStart(t) \/ ManagerAnswers(t) \/ StartRefused(t) \/ Started(t) \/ LooksBack(t)
    PROVE  QueuesGo /\ CallGoes(t) /\ Runs(t)
  <1>0. QueuesOK /\ active \in 0..Len(queues) /\ client' = client
    BY DEF QueueShape, QueuesOK, LockForStart, ManagerAnswers, StartRefused, Started, LooksBack, bounds
  <1>1. QueuesGo
    <2>1. CASE queues' = queues /\ active' = active
      BY <1>0, <2>1, KeepsQueues
    <2>2. CASE ClearActive
      BY <1>0, <2>2, Clears
    <2>3. CASE Started(t) /\ Matches(call[t].cap)
      <3>1. active' = active /\ active # Nil /\ queues' = [queues EXCEPT ![active].resolving = FALSE]
        BY <2>3 DEF Started, Update, Matches
      <3> QED
        BY <1>0, <3>1, ActiveOK, Quiets
    <2> QED
      BY <2>1, <2>2, <2>3
        DEF LockForStart, ManagerAnswers, StartRefused, Started, LooksBack, Keep
  <1>2. call[t].pc \in AttemptSteps
    BY DEF LockForStart, ManagerAnswers, StartRefused, Started, LooksBack, At, AttemptSteps
  <1>3. \/ Ends(t)
        \/ \E p \in AttemptSteps \ {"play", "resolve", "start"} :
              /\ To(t, p) /\ (p \in Captured => call[t].pc \in Captured)
              /\ p = "starting" => call[t].pc = "start"
              /\ p = "unstarted" => call[t].pc = "starting"
    <2>1. CASE LockForStart(t)
      BY <2>1 DEF LockForStart, At, Fails, AttemptSteps, Captured
    <2>2. CASE ManagerAnswers(t)
      BY <2>2 DEF ManagerAnswers, At, AttemptSteps, Captured
    <2>3. CASE StartRefused(t)
      BY <2>3 DEF StartRefused, At, AttemptSteps, Captured
    <2>4. CASE Started(t)
      BY <2>4 DEF Started, At, AttemptSteps, Captured
    <2>5. CASE LooksBack(t)
      <3>1. AfterOK(call[t].after, Len(queues))
        BY <1>2 DEF QueueShape, CallsOK, CallOK
      <3>2. To(t, "clearOwn") \/ To(t, "restore") \/ Ends(t)
        BY <2>5, <3>1 DEF LooksBack, AfterOK
      <3> QED
        BY <3>2 DEF AttemptSteps, Captured
    <2> QED
      BY <2>1, <2>2, <2>3, <2>4, <2>5
  <1> QED
    BY <1>0, <1>1, <1>2, <1>3, CallEnds, AttemptGoes DEF Runs

LEMMA RestoreEffect ==
    ASSUME QueueShape, NEW t \in Threads, Detach(t) \/ Restore(t) \/ ClearOwn(t)
    PROVE  QueuesGo /\ CallGoes(t) /\ call'[t] = Resting
  <1>0. QueuesOK /\ active \in 0..Len(queues) /\ client' = client /\ Ends(t)
    BY DEF QueueShape, QueuesOK, Detach, Restore, ClearOwn, bounds
  <1>1. CallGoes(t) /\ call'[t] = Resting
    BY <1>0, CallEnds
  <1>2. CallOK(call[t], Len(queues))
    BY DEF QueueShape, CallsOK
  <1>3. call[t].after.prev \in 0..Len(queues)
    BY <1>2 DEF Detach, Restore, ClearOwn, At, CallOK, AfterOK, AttemptSteps
  <1>4. QueuesGo
    <2>1. CASE queues' = queues /\ active' \in 0..Len(queues)
      BY <1>0, <2>1, KeepsQueues
    <2>2. CASE ClearActive
      BY <1>0, <2>2, Clears
    <2>3. CASE Restore(t) /\ active # Nil /\ queues' # queues
      <3>1. active' = call[t].after.prev /\ queues' = [queues EXCEPT ![active].resolving = FALSE]
        BY <2>3 DEF Restore, Keep
      <3> QED
        BY <1>0, <1>3, <2>3, <3>1, ActiveOK, Quiets
    <2>4. CASE Detach(t) /\ queues' # queues
      <3>1. active' = active /\ call[t].after.prev # Nil
            /\ queues' = [queues EXCEPT ![call[t].after.prev].resolving = FALSE]
        BY <2>4 DEF Detach
      <3>2. call[t].after.prev \in 1..Len(queues)
        BY <1>0, <1>3, <3>1 DEF Nil, QueuesOK, ListOK
      <3> QED
        BY <1>0, <3>1, <3>2, Quiets
    <2> QED
      BY <1>0, <1>3, <2>1, <2>2, <2>3, <2>4 DEF Detach, Restore, ClearOwn, Keep
  <1> QED
    BY <1>1, <1>4

-----------------------------------------------------------------------------
(* The requests.                                                           *)

LEMMA SwapEffect ==
    ASSUME QueueShape, NEW t \in Threads, NEW kind, NEW starter, NEW after \in {"start", "handoff"},
           SwapIn(t, kind, starter, after), client' = client
    PROVE  /\ QueuesGo /\ CallGoes(t)
           /\ active' = Len(queues) + 1 /\ Len(queues') = Len(queues) + 1
           /\ queues'[active'].sid = active' /\ queues'[active'].gen = 0
           /\ queues'[active'].fails = 0
           /\ call'[t].pc = "play" /\ call'[t].tries = 1 /\ call'[t].after.prev = active
           /\ call'[t].guard.sid = active' /\ call'[t].guard.gen = 0
  <1> DEFINE q == Built(kind, bad)
             y == IF after = "start" /\ active # Nil
                  THEN [queues EXCEPT ![active].resolving = FALSE] ELSE queues
             back == After(after, active, Version(q), NoRef)
  <1>0. QueuesOK /\ ListOK(queues) /\ Len(queues) \in Nat /\ active \in 0..Len(queues)
    BY DEF QueueShape, QueuesOK, ListOK
  <1>1. Says(q, Len(queues) + 1, 0, 0, 0)
    BY NewQueue, <1>0 DEF NewSid
  <1>2. queues' = Append(y, q) /\ active' = NewSid
        /\ Goes(t, Playing(Version(q), starter, back))
    BY DEF SwapIn
  <1>3. active' = Len(queues) + 1
    BY <1>0, <1>2 DEF NewSid
  <1>4. ListOK(y) /\ Len(y) = Len(queues) /\ Grown(queues, y) /\ Steady(queues, y)
        /\ (OwnIds(queues) => OwnIds(y))
    <2>1. CASE after = "start" /\ active # Nil
      <3> DEFINE e == [queues[active] EXCEPT !.resolving = FALSE]
                 p == queues[active]
      <3>1. active \in 1..Len(queues) /\ HasFields(p, QueueFields) /\ p.gen \in Nat
            /\ p.token \in Nat /\ p.fails \in Nat
        BY <1>0, <2>1, ActiveOK
      <3>2. Says(e, p.sid, p.gen, p.token, p.fails)
        BY <3>1, Untouched
      <3>3. y = [queues EXCEPT ![active] = e]
        BY <2>1
      <3>4. p.gen <= p.gen /\ p.token <= p.token
        BY <3>1
      <3> HIDE DEF e, y
      <3> QED
        BY <1>0, <3>1, <3>2, <3>3, <3>4, OneChanges
    <2>2. CASE ~(after = "start" /\ active # Nil)
      BY <1>0, <2>2, SameList
    <2> QED
      BY <2>1, <2>2
  <1> HIDE DEF q, y
  <1>5. /\ ListOK(queues') /\ Len(queues') = Len(queues) + 1 /\ queues'[Len(queues) + 1] = q
        /\ Grown(y, queues') /\ Steady(y, queues')
        /\ (OwnIds(y) => OwnIds(queues'))
    <2>1. Len(y) + 1 \in 1..Len(y) + 1 /\ 0 \in Nat
      BY <1>0, <1>4
    <2>2. Says(q, Len(y) + 1, 0, 0, 0)
      BY <1>1, <1>4
    <2>3. /\ ListOK(Append(y, q))
          /\ Len(Append(y, q)) = Len(y) + 1
          /\ Append(y, q)[Len(y) + 1] = q
          /\ Grown(y, Append(y, q)) /\ Steady(y, Append(y, q))
          /\ (OwnIds(y) => OwnIds(Append(y, q)))
      BY <1>4, <2>1, <2>2, OneAdded
    <2> QED
      BY <1>2, <1>4, <2>3
  <1>6. Grown(queues, queues') /\ Steady(queues, queues')
    BY <1>0, <1>4, <1>5, GrownTwice
  <1>7. active' \in 0..Len(queues')
    BY <1>0, <1>3, <1>5
  <1>8. QueuesGo
    BY <1>4, <1>5, <1>6, <1>7 DEF QueuesGo, Originals
  <1>9. back.prev = active /\ back.kind = after
    BY DEF After
  <1>10. AfterOK(back, Len(queues'))
    BY <1>0, <1>5, <1>9 DEF AfterOK
  <1> HIDE DEF back
  <1>11. /\ CallGoes(t)
         /\ call'[t].pc = "play" /\ call'[t].guard = Version(q) /\ call'[t].after = back
         /\ call'[t].tries = 1
    <2> DEFINE v == Version(q)
    <2>1. Goes(t, Playing(v, starter, back))
      BY <1>2
    <2> HIDE DEF v
    <2>2. CallGoes(t) /\ call'[t].pc = "play" /\ call'[t].guard = v /\ call'[t].after = back
          /\ call'[t].tries = 1
      BY <1>8, <1>10, <2>1, NewAttempt
    <2> QED
      BY <2>2 DEF v
  <1>12. Version(q).sid = Len(queues) + 1 /\ Version(q).gen = 0 /\ q.sid = Len(queues) + 1
         /\ q.gen = 0 /\ q.fails = 0
    BY <1>1 DEF Version, Says
  <1> QED
    BY <1>3, <1>5, <1>8, <1>9, <1>11, <1>12

LEMMA AskOK ==
    ASSUME NEW p \in {"move", "stop", "replay", "handoff", "drop"}, NEW r, NEW n \in Nat,
           p = "handoff" \/ p \in client.asks, p = "move" => r # NoRef
    PROVE  LET w == [pc |-> p, ref |-> r]
           IN CallOK(w, n) /\ Entitled(w) /\ w.pc = p /\ w.ref = r
  <1> DEFINE w == [pc |-> p, ref |-> r]
  <1>1. w.pc = p /\ w.ref = r /\ HasFields(w, {"pc", "ref"})
    BY DEF HasFields
  <1> HIDE DEF w
  <1>2. CallOK(w, n)
    BY <1>1 DEF CallOK, AttemptSteps, Captured, StopSteps, ReplaySteps
  <1>3. Entitled(w)
    BY <1>1 DEF Entitled, StopSteps, ReplaySteps
  <1> QED
    BY <1>1, <1>2, <1>3 DEF w

LEMMA RequestEffect ==
    ASSUME QueueShape, NEW t \in Threads, Request(t)
    PROVE  QueuesGo /\ CallGoes(t)
  <1>0. QueuesOK /\ active \in 0..Len(queues) /\ Len(queues) \in Nat /\ HasFields(call, Threads)
    BY DEF QueueShape, QueuesOK, ListOK, CallsOK
  <1>1. CASE StartResolvedStream(t)
    <2>1. client' = client
      BY <1>1 DEF StartResolvedStream, Asks
    <2> QED
      BY <1>1, <2>1, SwapEffect DEF StartResolvedStream
  <1>2. ASSUME NEW p \in {"move", "stop", "replay", "handoff", "drop"}, NEW r,
               Goes(t, [pc |-> p, ref |-> r]), p = "handoff" \/ p \in client.asks,
               p = "move" => r # NoRef, client' = client, Len(queues') \in Nat
        PROVE  CallGoes(t)
    <2> DEFINE w == [pc |-> p, ref |-> r]
    <2>1. CallOK(w, Len(queues')) /\ Entitled(w)
      BY <1>2, AskOK
    <2>2. Goes(t, w)
      BY <1>2
    <2> HIDE DEF w
    <2>3. Others(t) /\ call'[t] = w
      BY <1>0, <2>2, GoesOn
    <2> QED
      BY <1>2, <2>1, <2>3 DEF CallGoes
  <1>3. CASE AskHandoff(t)
    <2>1. queues' = queues /\ active' = active /\ client' = client
          /\ Goes(t, [pc |-> "handoff", ref |-> Ref(owner)])
      BY <1>3 DEF AskHandoff, Asks
    <2> QED
      BY <1>0, <1>2, <2>1, KeepsQueues
  <1>4. CASE AskGuarded(t)
    <2>1. queues' = queues /\ active' = active
      BY <1>4 DEF AskGuarded
    <2>2. PICK p \in {"move", "replay", "stop"} :
             p \in client.asks /\ client' = client /\ Goes(t, [pc |-> p, ref |-> Ref(owner)])
      BY <1>4 DEF AskGuarded, Asks
    <2>3. Ref(owner) # NoRef
      BY <1>4 DEF AskGuarded, Streams, Ref, NoRef, Nobody, Capture
    <2> QED
      BY <1>0, <1>2, <2>1, <2>2, <2>3, KeepsQueues
  <1>5. CASE AskDrop(t)
    <2>1. ClearActive /\ client' = client /\ "drop" \in client.asks
          /\ Goes(t, [pc |-> "drop", ref |-> ActiveRef])
      BY <1>5 DEF AskDrop, Asks
    <2>2. QueuesGo /\ Len(queues') \in Nat
      BY <1>0, <2>1, Clears DEF QueuesGo, ListOK
    <2> QED
      BY <1>2, <2>1, <2>2
  <1> QED
    BY <1>1, <1>3, <1>4, <1>5 DEF Request

(* A guarded move works on the active queue and keeps a clone of it. *)
LEMMA MoveEffect ==
    ASSUME QueueShape, NEW t \in Threads, MoveLooks(t) \/ PrepareMove(t)
    PROVE  QueuesGo /\ CallGoes(t)
  <1>0. QueuesOK /\ ListOK(queues) /\ active \in 0..Len(queues) /\ Len(queues) \in Nat
        /\ HasFields(call, Threads) /\ CallOK(call[t], Len(queues)) /\ Entitled(call[t])
        /\ client' = client /\ active' = active
    BY DEF QueueShape, QueuesOK, ListOK, CallsOK, MoveLooks, PrepareMove, bounds
  <1>1. "move" \in client.asks
    BY <1>0 DEF MoveLooks, PrepareMove, At, Entitled
  <1>2. CASE queues' = queues /\ Ends(t)
    BY <1>0, <1>2, KeepsQueues, CallEnds
  <1>3. CASE MoveLooks(t) /\ To(t, "moveOn")
    <2> DEFINE w == [call[t] EXCEPT !.pc = "moveOn"]
    <2>1. HasFields(call[t], {"pc", "ref"})
      BY <1>0, <1>3 DEF MoveLooks, At, CallOK
    <2>2. w.pc = "moveOn" /\ w.ref # NoRef
      BY <1>0, <1>3, <2>1 DEF HasFields, MoveLooks, At, CallOK
    <2>3. Goes(t, w)
      BY <1>3 DEF To
    <2> HIDE DEF w
    <2>4. CallOK(w, Len(queues))
      BY <2>2 DEF CallOK, AttemptSteps, Captured, StopSteps, ReplaySteps
    <2>5. Entitled(w)
      BY <1>1, <2>2 DEF Entitled, StopSteps, ReplaySteps
    <2>6. Others(t) /\ call'[t] = w
      BY <1>0, <2>3, GoesOn
    <2>7. queues' = queues
      BY <1>3 DEF MoveLooks
    <2> QED
      BY <1>0, <2>4, <2>5, <2>6, <2>7, KeepsQueues DEF CallGoes
  <1>4. CASE PrepareMove(t) /\ ~(queues' = queues /\ Ends(t))
    <2> DEFINE q == queues[active]
               back == After("move", Len(queues) + 1, Version(Moved(q)), call[t].ref)
    <2>1. active # Nil
      BY <1>0, <1>4 DEF PrepareMove, ActiveRef, CallOK, At
    <2>2. PICK next \in {Advanced(q), SteppedBack(q)} :
             queues' = Append([queues EXCEPT ![active] = Moved(next)], [q EXCEPT !.resolving = FALSE])
      BY <1>4 DEF PrepareMove
    <2>3. Goes(t, Playing(Version(Moved(q)), IfSession(call[t].ref), back))
      BY <1>4 DEF PrepareMove
    <2>4. active \in 1..Len(queues) /\ HasFields(q, QueueFields) /\ q.sid \in 1..Len(queues)
          /\ q.gen \in Nat /\ q.token \in Nat /\ q.fails \in Nat
      BY <1>0, <2>1, ActiveOK
    <2> DEFINE e == Moved(next)
               y == [queues EXCEPT ![active] = e]
               k == [q EXCEPT !.resolving = FALSE]
    <2>5. Says(next, q.sid, q.gen, q.token, q.fails)
      BY <2>4, QueueOps
    <2>6. Says(e, q.sid, q.gen + 1, q.token, 0)
      <3>1. HasFields(next, QueueFields) /\ next.sid = q.sid /\ next.gen = q.gen
            /\ next.token = q.token
        BY <2>5 DEF Says
      <3>2. Says(Moved(next), next.sid, next.gen + 1, next.token, 0)
        BY <3>1, QueueOps
      <3> QED
        BY <3>1, <3>2
    <2>7. q.gen + 1 \in Nat /\ 0 \in Nat /\ q.gen <= q.gen + 1 /\ q.token <= q.token /\ q.gen + 1 # q.gen
      BY <2>4
    <2>8. ListOK(y) /\ Len(y) = Len(queues) /\ Grown(queues, y) /\ Steady(queues, y)
      <3> DEFINE g == q.gen + 1
                 f == 0
      <3>1. g \in Nat /\ f \in Nat /\ q.gen <= g /\ g # q.gen /\ Says(e, q.sid, g, q.token, f)
        BY <2>6, <2>7
      <3>2. y = [queues EXCEPT ![active] = e]
        OBVIOUS
      <3> HIDE DEF e, g, f, y
      <3>3. ListOK(queues) /\ q.token \in Nat /\ q.token <= q.token /\ active \in 1..Len(queues)
        BY <1>0, <2>4, <2>7
      <3>4. g \in Nat
        BY <3>1
      <3>5. f \in Nat
        BY <3>1
      <3>6. q.token \in Nat
        BY <3>3
      <3>7. Says(e, q.sid, g, q.token, f) /\ q.gen <= g /\ q.token <= q.token
        BY <3>1, <3>3
      <3>8. ListOK(queues) /\ active \in 1..Len(queues)
        BY <3>3
      <3>9. /\ ListOK(y) /\ Len(y) = Len(queues) /\ Grown(queues, y)
            /\ (g = q.gen => f = q.fails) => Steady(queues, y)
        BY <3>2, <3>4, <3>5, <3>6, <3>7, <3>8, OneChanges
      <3> QED
        BY <3>1, <3>9
    <2>9. Says(k, q.sid, q.gen, q.token, q.fails)
      BY <2>4, Untouched
    <2> HIDE DEF y, k
    <2>10. /\ ListOK(Append(y, k)) /\ Len(Append(y, k)) = Len(y) + 1
           /\ Grown(y, Append(y, k)) /\ Steady(y, Append(y, k))
      <3>1. q.sid \in 1..Len(y) + 1
        BY <1>0, <2>4, <2>8
      <3> QED
        BY <2>4, <2>8, <2>9, <3>1, OneAdded
    <2>11. queues' = Append(y, k)
      BY <2>2 DEF y, k
    <2>12. Grown(queues, queues') /\ Steady(queues, queues') /\ ListOK(queues')
           /\ Len(queues') = Len(queues) + 1
      BY <1>0, <2>8, <2>10, <2>11, GrownTwice
    <2>13. active' \in 0..Len(queues')
      BY <1>0, <2>12
    <2>14. QueuesGo
      BY <1>1, <2>12, <2>13 DEF QueuesGo
    <2>15. AfterOK(back, Len(queues'))
      BY <1>0, <2>12 DEF AfterOK, After
    <2> DEFINE v == Version(Moved(q))
    <2> HIDE DEF back, v
    <2>16. Goes(t, Playing(v, IfSession(call[t].ref), back))
      BY <2>3 DEF v
    <2> QED
      BY <1>0, <2>14, <2>15, <2>16, NewAttempt
  <1>5. MoveLooks(t) => To(t, "moveOn") \/ (queues' = queues /\ Ends(t))
    BY DEF MoveLooks
  <1> QED
    BY <1>2, <1>3, <1>4, <1>5

LEMMA HandoffEffect ==
    ASSUME QueueShape, NEW t \in Threads, Handoff(t)
    PROVE  QueuesGo /\ CallGoes(t)
  BY SwapEffect DEF Handoff, bounds

LEMMA ReplayOK ==
    ASSUME NEW w, NEW n \in Nat, "replay" \in client.asks,
           \/ w.pc \in ReplaySteps /\ HasFields(w, ReplayFields) /\ w.q \in 1..n
           \/ w.pc \in {"replayLook", "rebuild"}
    PROVE  CallOK(w, n) /\ Entitled(w)
  BY DEF CallOK, Entitled, AttemptSteps, Captured, StopSteps, ReplaySteps

LEMMA ReplayEffect ==
    ASSUME QueueShape, NEW t \in Threads,
           \/ ReplayBegins(t) \/ ReplayLooks(t) \/ ReplayStops(t) \/ ReplayOver(t) \/ ReplayBumps(t)
    PROVE  QueuesGo /\ CallGoes(t)
  <1>0. QueuesOK /\ ListOK(queues) /\ active \in 0..Len(queues) /\ Len(queues) \in Nat
        /\ HasFields(call, Threads) /\ CallOK(call[t], Len(queues)) /\ Entitled(call[t])
        /\ client' = client /\ active' = active
    BY DEF QueueShape, QueuesOK, ListOK, CallsOK, ReplayBegins, ReplayLooks, ReplayStops,
           ReplayOver, ReplayBumps, bounds
  <1>1. "replay" \in client.asks
    BY <1>0 DEF ReplayBegins, ReplayLooks, ReplayStops, ReplayOver, ReplayBumps, At, Entitled,
                ReplaySteps
  <1>2. ASSUME NEW w, Goes(t, w), Len(queues') = Len(queues),
               \/ w.pc \in ReplaySteps /\ HasFields(w, ReplayFields) /\ w.q \in 1..Len(queues)
               \/ w.pc \in {"replayLook", "rebuild"}
        PROVE  CallGoes(t)
    <2>1. CallOK(w, Len(queues')) /\ Entitled(w)
      BY <1>0, <1>1, <1>2, ReplayOK
    <2>2. Others(t) /\ call'[t] = w
      BY <1>0, <1>2, GoesOn
    <2> QED
      BY <1>0, <2>1, <2>2 DEF CallGoes
  <1>3. Ends(t) => CallGoes(t)
    BY <1>0, CallEnds
  <1>4. queues' = queues => QueuesGo
    BY <1>0, KeepsQueues
  <1>5. CASE ReplayBegins(t)
    <2>1. Ends(t) \/ Goes(t, [pc |-> "replayLook", ref |-> call[t].ref, kind |-> queues[active].kind,
                              was |-> Version(queues[active])])
      BY <1>5 DEF ReplayBegins
    <2>2. queues' = queues
      BY <1>5 DEF ReplayBegins
    <2> QED
      BY <1>2, <1>3, <1>4, <2>1, <2>2
  <1>6. CASE ReplayLooks(t)
    <2> DEFINE w == [pc |-> "replayStop", ref |-> call[t].ref, kind |-> call[t].kind,
                     was |-> call[t].was, q |-> active, cap |-> CaptureOf(queues[active])]
    <2>1. \/ Ends(t)
          \/ Goes(t, [pc |-> "rebuild", kind |-> "adhoc", want |-> AnyVersion])
          \/ Goes(t, w) /\ active # Nil
      BY <1>6 DEF ReplayLooks
    <2>2. queues' = queues
      BY <1>6 DEF ReplayLooks
    <2>3. w.pc \in ReplaySteps /\ HasFields(w, ReplayFields) /\ w.q = active
      BY DEF ReplaySteps, HasFields, ReplayFields
    <2> HIDE DEF w
    <2>4. active # Nil => w.q \in 1..Len(queues)
      BY <1>0, <2>3, ActiveOK
    <2> QED
      BY <1>2, <1>3, <1>4, <2>1, <2>2, <2>3, <2>4
  <1>7. CASE ReplayStops(t)
    <2>1. HasFields(call[t], ReplayFields) /\ call[t].q \in 1..Len(queues)
      BY <1>0, <1>7 DEF ReplayStops, At, CallOK, ReplaySteps
    <2>2. PICK p \in {"replayBump", "replayOver"} : To(t, p)
      BY <1>7 DEF ReplayStops
    <2> DEFINE w == [call[t] EXCEPT !.pc = p]
    <2>3. HasFields(w, ReplayFields) /\ w.pc = p /\ w.q = call[t].q
      BY <2>1, ReplayOnward
    <2>4. Goes(t, w)
      BY <2>2 DEF To
    <2>5. queues' = queues
      BY <1>7 DEF ReplayStops
    <2> HIDE DEF w
    <2>6. w.pc \in ReplaySteps
      BY <2>3 DEF ReplaySteps
    <2> QED
      BY <1>2, <1>4, <2>1, <2>3, <2>4, <2>5, <2>6
  <1>8. CASE ReplayOver(t)
    BY <1>3, <1>4, <1>8 DEF ReplayOver
  <1>9. CASE ReplayBumps(t)
    <2> DEFINE i == call[t].q
               e == IF active = i THEN Bump(queues[active]) ELSE queues[i]
               q == queues[i]
    <2>1. i \in 1..Len(queues)
      BY <1>0, <1>9 DEF ReplayBumps, At, CallOK, ReplaySteps
    <2>2. HasFields(q, QueueFields) /\ q.gen \in Nat /\ q.token \in Nat /\ q.fails \in Nat
      BY <1>0, <2>1 DEF ListOK, IsQueue
    <2>3. queues' = [queues EXCEPT ![i] = e]
      BY <1>9 DEF ReplayBumps
    <2>4. Says(e, q.sid, q.gen, q.token, q.fails) \/ Says(e, q.sid, q.gen + 1, q.token, q.fails)
      BY <2>2, QueueOps
    <2>5. q.gen + 1 \in Nat /\ q.gen <= q.gen + 1 /\ q.gen <= q.gen /\ q.token <= q.token
      BY <2>2
    <2> HIDE DEF e
    <2>6. QueuesGo /\ Len(queues') = Len(queues)
      BY <1>0, <1>1, <2>1, <2>2, <2>3, <2>4, <2>5, Replaces
    <2>7. \E w : w.pc = "rebuild" /\ Goes(t, w)
      BY <1>9 DEF ReplayBumps
    <2> QED
      BY <1>2, <2>6, <2>7
  <1> QED
    BY <1>5, <1>6, <1>7, <1>8, <1>9

LEMMA RebuildEffect ==
    ASSUME QueueShape, NEW t \in Threads, Rebuild(t)
    PROVE  QueuesGo /\ CallGoes(t)
  <1>0. QueuesOK /\ ListOK(queues) /\ active \in 0..Len(queues) /\ Len(queues) \in Nat
        /\ CallOK(call[t], Len(queues)) /\ Entitled(call[t]) /\ client' = client
    BY DEF QueueShape, QueuesOK, ListOK, CallsOK, Rebuild, bounds
  <1>1. "replay" \in client.asks
    BY <1>0 DEF Rebuild, At, Entitled
  <1>2. CASE Ends(t) /\ queues' = queues /\ active' = active
    BY <1>0, <1>2, KeepsQueues, CallEnds
  <1>3. ASSUME NEW q, Goes(t, Playing(Version(q), IfIdle, Nothing)), QueuesGo
        PROVE  CallGoes(t)
    <2>1. AfterOK(Nothing, Len(queues'))
      BY <1>3 DEF AfterOK, Nothing, Nil, QueuesGo, ListOK
    <2> DEFINE v == Version(q)
    <2>2. Goes(t, Playing(v, IfIdle, Nothing))
      BY <1>3
    <2> HIDE DEF v
    <2> QED
      BY <1>0, <1>3, <2>1, <2>2, NewAttempt
  <1>4. CASE call[t].kind = "adhoc" /\ ~(Ends(t) /\ queues' = queues /\ active' = active)
    <2> DEFINE q == queues[active]
               e == Reset(q)
    <2>1. active # Nil /\ Update(e) /\ active' = active /\ Goes(t, Playing(Version(e), IfIdle, Nothing))
      BY <1>4 DEF Rebuild
    <2>2. active \in 1..Len(queues) /\ HasFields(q, QueueFields) /\ q.sid \in 1..Len(queues)
          /\ q.gen \in Nat /\ q.token \in Nat /\ q.fails \in Nat
      BY <1>0, <2>1, ActiveOK
    <2>3. Says(e, q.sid, q.gen, q.token, 0)
      BY <2>2, QueueOps
    <2>4. 0 \in Nat /\ q.gen <= q.gen /\ q.token <= q.token
      BY <2>2
    <2> HIDE DEF e
    <2>5. QueuesGo
      BY <1>0, <1>1, <2>1, <2>2, <2>3, <2>4, Updates
    <2> QED
      BY <1>3, <2>1, <2>5
  <1>5. CASE call[t].kind # "adhoc" /\ ~(Ends(t) /\ queues' = queues /\ active' = active)
    <2> DEFINE e == Built(call[t].kind, {})
    <2>1. queues' = Append(queues, e) /\ active' = NewSid
          /\ Goes(t, Playing(Version(e), IfIdle, Nothing))
      BY <1>5 DEF Rebuild
    <2>2. Says(e, Len(queues) + 1, 0, 0, 0)
      BY <1>0, NewQueue DEF NewSid
    <2>3. active' \in 0..Len(queues) + 1 /\ Len(queues) + 1 \in 1..Len(queues) + 1 /\ 0 \in Nat
      BY <1>0, <2>1 DEF NewSid
    <2> HIDE DEF e
    <2>4. QueuesGo
      <3> DEFINE sid == Len(queues) + 1
      <3>1. sid \in 1..Len(queues) + 1 /\ sid = Len(queues) + 1 /\ Says(e, sid, 0, 0, 0)
        BY <2>2, <2>3
      <3> HIDE DEF sid
      <3> QED
        BY <1>0, <2>1, <2>3, <3>1, Adds
    <2> QED
      BY <1>3, <2>1, <2>4
  <1> QED
    BY <1>2, <1>4, <1>5

LEMMA StopOK ==
    ASSUME NEW w, NEW n \in Nat, "stop" \in client.asks, w.q \in 1..n,
           (w.pc \in StopSteps /\ HasFields(w, StopFields)) \/ w.pc = "unstop"
    PROVE  CallOK(w, n) /\ Entitled(w)
  BY DEF CallOK, Entitled, AttemptSteps, Captured, StopSteps, ReplaySteps

LEMMA StopEffect ==
    ASSUME QueueShape, NEW t \in Threads,
           BeginStop(t) \/ StopLooks(t) \/ StopClears(t) \/ StopStops(t) \/ Unstop(t)
    PROVE  QueuesGo /\ CallGoes(t)
  <1>0. QueuesOK /\ ListOK(queues) /\ active \in 0..Len(queues) /\ Len(queues) \in Nat
        /\ HasFields(call, Threads) /\ CallOK(call[t], Len(queues)) /\ Entitled(call[t])
        /\ client' = client
    BY DEF QueueShape, QueuesOK, ListOK, CallsOK, BeginStop, StopLooks, StopClears, StopStops,
           Unstop, bounds
  <1>1. "stop" \in client.asks
    BY <1>0 DEF BeginStop, StopLooks, StopClears, StopStops, Unstop, At, Entitled, StopSteps
  <1>2. ASSUME NEW w, Goes(t, w), Len(queues') = Len(queues), w.q \in 1..Len(queues),
               (w.pc \in StopSteps /\ HasFields(w, StopFields)) \/ w.pc = "unstop"
        PROVE  CallGoes(t)
    <2>1. CallOK(w, Len(queues')) /\ Entitled(w)
      BY <1>0, <1>1, <1>2, StopOK
    <2>2. Others(t) /\ call'[t] = w
      BY <1>0, <1>2, GoesOn
    <2> QED
      BY <1>0, <2>1, <2>2 DEF CallGoes
  <1>3. Ends(t) => CallGoes(t)
    BY <1>0, CallEnds
  <1>4. queues' = queues /\ active' \in 0..Len(queues) => QueuesGo
    BY <1>0, KeepsQueues
  <1>5. ClearActive => QueuesGo /\ Len(queues') = Len(queues)
    BY <1>0, Clears DEF Alike
  <1>6. CASE BeginStop(t)
    <2> DEFINE q == queues[active]
               w == [pc |-> IF q.resolving THEN "stopClear" ELSE "stopLook",
                     ref |-> call[t].ref, cap |-> CaptureOf(q), q |-> active, direct |-> q.resolving]
               u == [pc |-> "unstop", q |-> active]
    <2>1. Keep \/ ClearActive
      BY <1>6 DEF BeginStop
    <2>2. Ends(t) \/ (active # Nil /\ Goes(t, w)) \/ (active # Nil /\ Goes(t, u))
      BY <1>6 DEF BeginStop
    <2>3. w.pc \in StopSteps /\ HasFields(w, StopFields) /\ w.q = active
      BY DEF StopSteps, HasFields, StopFields
    <2>4. u.pc = "unstop" /\ u.q = active
      OBVIOUS
    <2> HIDE DEF w, u
    <2>5. active # Nil => active \in 1..Len(queues)
      BY <1>0, ActiveOK
    <2>6. QueuesGo /\ Len(queues') = Len(queues)
      BY <1>0, <1>4, <1>5, <2>1 DEF Keep
    <2> QED
      BY <1>2, <1>3, <2>2, <2>3, <2>4, <2>5, <2>6
  <1>7. ASSUME call[t].pc \in StopSteps, NEW p \in StopSteps, To(t, p), Len(queues') = Len(queues)
        PROVE  CallGoes(t)
    <2>1. HasFields(call[t], StopFields) /\ call[t].q \in 1..Len(queues)
      BY <1>0, <1>7 DEF CallOK
    <2> DEFINE w == [call[t] EXCEPT !.pc = p]
    <2>2. HasFields(w, StopFields) /\ w.pc = p /\ w.q = call[t].q
      BY <2>1, StopOnward
    <2>3. Goes(t, w)
      BY <1>7 DEF To
    <2> HIDE DEF w
    <2> QED
      BY <1>2, <1>7, <2>1, <2>2, <2>3
  <1>8. CASE StopLooks(t)
    <2>1. call[t].pc \in StopSteps /\ "stopClear" \in StopSteps
      BY <1>8 DEF StopLooks, At, StopSteps
    <2>2. (Ends(t) \/ To(t, "stopClear")) /\ queues' = queues /\ active' = active
      BY <1>8 DEF StopLooks
    <2> QED
      BY <1>0, <1>3, <1>4, <1>7, <2>1, <2>2
  <1>9. CASE StopClears(t)
    <2>1. call[t].pc \in StopSteps /\ "stopCore" \in StopSteps
      BY <1>9 DEF StopClears, At, StopSteps
    <2>2. To(t, "stopCore") /\ (Keep \/ ClearActive)
      BY <1>9 DEF StopClears
    <2> QED
      BY <1>0, <1>4, <1>5, <1>7, <2>1, <2>2 DEF Keep
  <1>10. CASE StopStops(t)
    <2> DEFINE u == [pc |-> "unstop", q |-> call[t].q]
    <2>1. call[t].q \in 1..Len(queues)
      BY <1>0, <1>10 DEF StopStops, At, CallOK, StopSteps
    <2>2. queues' = queues /\ active' = active /\ (Ends(t) \/ Goes(t, u))
      BY <1>10 DEF StopStops
    <2>3. u.pc = "unstop" /\ u.q = call[t].q
      OBVIOUS
    <2> HIDE DEF u
    <2> QED
      BY <1>0, <1>2, <1>3, <1>4, <2>1, <2>2, <2>3
  <1>11. CASE Unstop(t)
    <2>1. call[t].q \in 1..Len(queues)
      BY <1>0, <1>11 DEF Unstop, At, CallOK
    <2>2. queues' = queues /\ Ends(t) /\ active' \in {active, call[t].q}
      BY <1>11 DEF Unstop
    <2>3. active' \in 0..Len(queues)
      BY <1>0, <2>1, <2>2
    <2> QED
      BY <1>3, <1>4, <2>2, <2>3
  <1> QED
    BY <1>6, <1>8, <1>9, <1>10, <1>11

LEMMA DropEffect ==
    ASSUME QueueShape, NEW t \in Threads, Drop(t)
    PROVE  QueuesGo /\ CallGoes(t)
  BY KeepsQueues, CallEnds DEF Drop, QueueShape, QueuesOK, bounds

-----------------------------------------------------------------------------
(* OnStop. *)

(* The next item is played by a new attempt. *)
GoesToNext(t) ==
    /\ active # Nil /\ active' = active
    /\ call'[t].pc = "play" /\ call'[t].tries = 1 /\ call'[t].after = Nothing
    /\ call'[t].guard.sid = queues[active].sid /\ call'[t].guard.gen = queues'[active].gen

LEMMA OnStopEffect ==
    ASSUME QueueShape, NEW t \in Threads, NEW c, NEW reason \in Reasons,
           OnStop(t, c, reason)
    PROVE  QueuesGo /\ CallGoes(t) /\ (call'[t] = Resting \/ GoesToNext(t))
  <1>0. QueuesOK /\ active \in 0..Len(queues) /\ client' = client
    BY DEF QueueShape, QueuesOK, OnStop, bounds
  <1>1. Ends(t) => CallGoes(t) /\ call'[t] = Resting
    BY <1>0, CallEnds
  <1>2. CASE queues' = queues /\ active' = active /\ Ends(t)
    BY <1>0, <1>1, <1>2, KeepsQueues
  <1>3. CASE ClearActive /\ Ends(t)
    BY <1>0, <1>1, <1>3, Clears
  <1>4. CASE ~(queues' = queues /\ active' = active /\ Ends(t)) /\ ~(ClearActive /\ Ends(t))
    <2> DEFINE q == queues[active]
               p == IF reason = "eof" THEN q ELSE Failing(q)
               e == IF reason = "eof" THEN [Advanced(p) EXCEPT !.gen = @ + 1, !.fails = 0]
                    ELSE [Advanced(p) EXCEPT !.gen = @ + 1]
    <2>1. Matches(c) /\ reason \in {"eof", "error"}
      BY <1>4 DEF OnStop, Keep, Reasons
    <2>2. active # Nil /\ active' = active /\ Update(e) /\ Goes(t, Playing(Version(e), Unguarded, Nothing))
      BY <1>4, <2>1 DEF OnStop, Matches
    <2>3. active \in 1..Len(queues) /\ HasFields(q, QueueFields) /\ q.sid \in 1..Len(queues)
          /\ q.gen \in Nat /\ q.token \in Nat /\ q.fails \in Nat
      BY <1>0, <2>2, ActiveOK
    <2>4. \E f \in Nat : Says(p, q.sid, q.gen, q.token, f)
      <3>1. Says(q, q.sid, q.gen, q.token, q.fails) /\ Says(Failing(q), q.sid, q.gen, q.token, q.fails + 1)
        BY <2>3, QueueOps
      <3>2. q.fails \in Nat /\ q.fails + 1 \in Nat
        BY <2>3
      <3> QED
        BY <3>1, <3>2
    <2>5. PICK f \in Nat : Says(e, q.sid, q.gen + 1, q.token, f)
      <3>1. PICK h \in Nat : Says(p, q.sid, q.gen, q.token, h)
        BY <2>4
      <3>2. HasFields(p, QueueFields) /\ p.sid = q.sid /\ p.gen = q.gen /\ p.token = q.token
            /\ p.fails = h
        BY <3>1 DEF Says
      <3> HIDE DEF p
      <3>3. \/ Says(e, p.sid, p.gen + 1, p.token, 0)
            \/ Says(e, p.sid, p.gen + 1, p.token, p.fails)
        BY <3>2, QueueOps
      <3> QED
        BY <3>1, <3>2, <3>3
    <2>6. q.gen + 1 \in Nat /\ q.gen <= q.gen + 1 /\ q.token <= q.token /\ q.gen + 1 # q.gen
      BY <2>3
    <2> HIDE DEF e
    <2>7. QueuesGo /\ queues'[active] = e
      <3> DEFINE g == q.gen + 1
      <3>1. g \in Nat /\ q.gen <= g /\ g # q.gen /\ Says(e, q.sid, g, q.token, f)
        BY <2>5, <2>6
      <3> HIDE DEF g
      <3> QED
        BY <1>0, <2>2, <2>3, <2>6, <3>1, Updates
    <2>8. AfterOK(Nothing, Len(queues'))
      BY <2>7 DEF AfterOK, Nothing, Nil, QueuesGo, ListOK
    <2> DEFINE v == Version(e)
    <2>9. Goes(t, Playing(v, Unguarded, Nothing))
      BY <2>2
    <2>10. v.sid = q.sid /\ v.gen = e.gen
      BY <2>5 DEF Version, Says
    <2> HIDE DEF v
    <2>11. CallGoes(t) /\ call'[t].pc = "play" /\ call'[t].guard = v /\ call'[t].after = Nothing
           /\ call'[t].tries = 1
      BY <1>0, <2>7, <2>8, <2>9, NewAttempt
    <2> QED
      BY <2>2, <2>7, <2>10, <2>11 DEF GoesToNext
  <1> QED
    BY <1>2, <1>3, <1>4

-----------------------------------------------------------------------------
(* Shapes are kept.                                                        *)

(* A step is one thread's, or nobody's. *)
Acts(t) == Request(t) \/ Answer(t) \/ Attempt(t) \/ \E c : \E reason \in Reasons : OnStop(t, c, reason)
Aside   == SessionEnds \/ ForeignStarts \/ Forgive \/ UNCHANGED vars

LEMMA Steps ==
    ASSUME QueueShape, [Next]_vars
    PROVE  (\E t \in Threads : Acts(t)) \/ Aside
  <1>1. CASE \E t \in Threads : \E o \in onStops : OnStop(t, o[1], o[2])
    BY <1>1 DEF QueueShape, ToldOK, Acts
  <1> QED
    BY <1>1 DEF Next, Acts, Aside

LEMMA ActsEffect ==
    ASSUME QueueShape, NEW t \in Threads, Acts(t)
    PROVE  QueuesGo /\ CallGoes(t)
  <1>1. CASE Request(t)
    BY <1>1, RequestEffect
  <1>2. CASE Answer(t)
    BY <1>2, HandoffEffect, MoveEffect, ReplayEffect, RebuildEffect, StopEffect, DropEffect DEF Answer
  <1>3. CASE Attempt(t)
    BY <1>3, PlayEffect, ResolveEffect, ManagerEffect, RestoreEffect DEF Attempt
  <1>4. CASE \E c : \E reason \in Reasons : OnStop(t, c, reason)
    BY <1>4, OnStopEffect
  <1> QED
    BY <1>1, <1>2, <1>3, <1>4 DEF Acts

LEMMA AsideEffect ==
    ASSUME QueueShape, Aside
    PROVE  QueuesGo /\ call' = call /\ client' = client /\ queues' = queues /\ active' = active
  BY KeepsQueues DEF QueueShape, QueuesOK, Aside, SessionEnds, ForeignStarts, Forgive, vars, bounds

LEMMA TellOK ==
    ASSUME ToldOK, NEW c, NEW reason \in Reasons, Tell(c, reason)
    PROVE  ToldOK'
  BY DEF ToldOK, Tell

LEMMA ToldSteps ==
    ASSUME QueueShape, (\E t \in Threads : Acts(t)) \/ Aside
    PROVE  ToldOK'
  <1>0. ToldOK /\ Reasons = {"preempted", "stopped", "eof", "error"}
    BY DEF QueueShape, Reasons
  <1>1. CASE onStops' \subseteq onStops
    BY <1>0, <1>1 DEF ToldOK
  <1>2. ASSUME NEW ref, Stops(ref)
        PROVE  ToldOK'
    BY <1>0, <1>1, <1>2, TellOK DEF Stops
  <1>3. ASSUME NEW t \in Threads, Request(t) \/ Answer(t)
        PROVE  ToldOK'
    BY <1>1, <1>2, <1>3
       DEF Request, StartResolvedStream, AskHandoff, AskGuarded, AskDrop, Answer, Handoff, MoveLooks,
           PrepareMove, ReplayBegins, ReplayLooks, ReplayStops, ReplayOver, ReplayBumps, Rebuild,
           BeginStop, StopLooks, StopClears, StopStops, Unstop, Drop, bridge
  <1>4. ASSUME NEW t \in Threads, Attempt(t)
        PROVE  ToldOK'
    <2>1. ManagerAnswers(t) => ToldOK'
      BY <1>0, <1>1, TellOK DEF ManagerAnswers, Starts, bridge
    <2> QED
      BY <1>1, <1>4, <2>1
         DEF Attempt, Play, ResolveItem, OpenBuffer, LockForStart, StartFailed, StartRefused, Started,
             Detach, LooksBack, Restore, ClearOwn, bridge
  <1>5. ASSUME NEW t \in Threads, NEW c, NEW reason, OnStop(t, c, reason)
        PROVE  ToldOK'
    BY <1>1, <1>5 DEF OnStop
  <1>6. ASSUME Aside
        PROVE  ToldOK'
    BY <1>0, <1>1, <1>6, TellOK DEF Aside, SessionEnds, ForeignStarts, Forgive, vars, bridge
  <1> QED
    BY <1>3, <1>4, <1>5, <1>6 DEF Acts

LEMMA ShapeStarts ==
    ASSUME Init
    PROVE  QueueShape
  <1>1. queues = <<>> /\ active = 0 /\ call = [t \in Threads |-> Resting] /\ client \in Clients
        /\ onStops = {}
    BY DEF Init, Nil
  <1>2. Len(queues) = 0 /\ HasFields(queues, 1..Len(queues))
    BY <1>1 DEF HasFields
  <1>3. QueuesOK
    BY <1>1, <1>2 DEF QueuesOK, ListOK
  <1>4. CallsOK
    BY <1>1, CallKinds DEF CallsOK, HasFields
  <1> QED
    BY <1>1, <1>3, <1>4 DEF QueueShape, ToldOK

LEMMA ShapeStays ==
    ASSUME QueueShape, [Next]_vars
    PROVE  QueueShape'
  <1>1. CASE Aside
    <2>1. queues' = queues /\ active' = active /\ call' = call /\ client' = client
      BY <1>1, AsideEffect
    <2>2. QueuesOK' /\ CallsOK'
      BY <2>1 DEF QueueShape, QueuesOK, CallsOK, ListOK, IsQueue, CallOK, Entitled
    <2> QED
      BY <1>1, <2>2, ToldSteps DEF QueueShape
  <1>2. ASSUME NEW t \in Threads, Acts(t)
        PROVE  QueueShape'
    <2>1. QueuesGo /\ CallGoes(t)
      BY <1>2, ActsEffect
    <2>2. QueuesOK'
      BY <2>1 DEF QueuesGo, QueuesOK
    <2>3. ASSUME NEW u \in Threads
          PROVE  CallOK(call'[u], Len(queues')) /\ (Entitled(call[u]))'
      <3>1. CASE u = t
        BY <2>1, <3>1 DEF CallGoes, Entitled
      <3>2. CASE u # t
        <4>1. call'[u] = call[u] /\ client' = client
          BY <2>1, <3>2 DEF CallGoes, Others
        <4>2. CallOK(call[u], Len(queues)) /\ Entitled(call[u])
          BY DEF QueueShape, CallsOK
        <4>3. Len(queues) \in Nat /\ Len(queues') \in Nat /\ Len(queues) <= Len(queues')
          BY <2>1 DEF QueuesGo, ListOK, Grown, QueueShape, QueuesOK
        <4>4. CallOK(call[u], Len(queues'))
          BY <4>2, <4>3, MoreQueues
        <4> QED
          BY <4>1, <4>2, <4>4 DEF Entitled
      <3> QED
        BY <3>1, <3>2
    <2>4. (\A u \in Threads : CallOK(call[u], Len(queues)) /\ Entitled(call[u]))'
      BY <2>3 DEF CallOK, AfterOK
    <2>5. CallsOK'
      BY <2>1, <2>4 DEF QueueShape, CallsOK, CallGoes, Others
    <2> QED
      BY <1>2, <2>2, <2>5, ToldSteps DEF QueueShape
  <1> QED
    BY <1>1, <1>2, Steps

-----------------------------------------------------------------------------
(* Buffers.                                                                *)

LEMMA TellTells ==
    ASSUME NEW c, NEW reason, Tell(c, reason)
    PROVE  /\ onStops \subseteq onStops'
           /\ c.sid # 0 => \E o \in onStops' : Ref(c) = Ref(o[1])
  <1>1. c.sid # 0 => <<c, reason>> \in onStops' /\ <<c, reason>>[1] = c
    BY DEF Tell, Streams
  <1> QED
    BY <1>1 DEF Tell

LEMMA RefIs ==
    ASSUME NEW c
    PROVE  Ref(c)[1] = c.sid /\ Ref(c)[2] = c.token
  BY DEF Ref

(* Whoever plays is told before another does, and who opens goes on or     *)
(* closes.                                                                 *)
LEMMA BuffersMove ==
    ASSUME BuffersHeld, buffers' \subseteq buffers, onStops \subseteq onStops',
           \/ owner' = owner
           \/ owner.sid # 0 => \E o \in onStops' : Ref(owner) = Ref(o[1]),
           \A u \in Threads : Opening(u) =>
              \/ call'[u].pc \in {"start", "starting"} /\ call'[u].cap = call[u].cap
              \/ Ref(call[u].cap) \notin buffers'
              \/ Ref(call[u].cap) = Ref(owner')
    PROVE  BuffersHeld'
  <1> SUFFICES ASSUME NEW r \in buffers'
               PROVE  r[1] # 0 /\ HeldBy(r)'
    BY DEF BuffersHeld
  <1>1. r[1] # 0 /\ HeldBy(r)
    BY DEF BuffersHeld
  <1>2. CASE r = Ref(owner)
    <2>1. owner.sid # 0
      BY <1>1, <1>2, RefIs
    <2> QED
      BY <1>1, <1>2, <2>1 DEF HeldBy
  <1>3. CASE \E o \in onStops : r = Ref(o[1])
    BY <1>1, <1>3 DEF HeldBy
  <1>4. CASE \E u \in Threads : Opening(u) /\ r = Ref(call[u].cap)
    <2>1. PICK u \in Threads : Opening(u) /\ r = Ref(call[u].cap)
      BY <1>4
    <2>2. CASE call'[u].pc \in {"start", "starting"} /\ call'[u].cap = call[u].cap
      <3>1. r = Ref(call'[u].cap)
        BY <2>1, <2>2
      <3> QED
        BY <1>1, <2>2, <3>1 DEF HeldBy, Opening, Ref
    <2>3. CASE Ref(call[u].cap) = Ref(owner')
      BY <1>1, <2>1, <2>3 DEF HeldBy, Ref
    <2> QED
      BY <2>1, <2>2, <2>3
  <1> QED
    BY <1>1, <1>2, <1>3, <1>4 DEF HeldBy

LEMMA StopsTells ==
    ASSUME NEW ref, Stops(ref)
    PROVE  /\ onStops \subseteq onStops'
           /\ \/ owner' = owner
              \/ owner.sid # 0 => \E o \in onStops' : Ref(owner) = Ref(o[1])
  BY TellTells DEF Stops

LEMMA BuffersStay ==
    ASSUME QueueShape, BuffersHeld, [Next]_vars
    PROVE  BuffersHeld'
  <1>1. CASE Aside
    <2>1. call' = call /\ buffers' = buffers
      BY <1>1, AsideEffect DEF Aside, SessionEnds, ForeignStarts, Forgive, vars
    <2>2. onStops \subseteq onStops'
          /\ (\/ owner' = owner
              \/ owner.sid # 0 => \E o \in onStops' : Ref(owner) = Ref(o[1]))
      BY <1>1, TellTells DEF Aside, SessionEnds, ForeignStarts, Forgive, vars, bridge
    <2> QED
      BY <2>1, <2>2, BuffersMove DEF Opening
  <1>2. ASSUME NEW t \in Threads, Acts(t)
        PROVE  BuffersHeld'
    <2>0. Others(t) /\ QueuesGo /\ client' = client
      BY <1>2, ActsEffect DEF CallGoes
    <2>1. ASSUME ~Opening(t), buffers' = buffers, onStops \subseteq onStops',
                 \/ owner' = owner
                 \/ owner.sid # 0 => \E o \in onStops' : Ref(owner) = Ref(o[1])
          PROVE  BuffersHeld'
      <3>1. \A u \in Threads : Opening(u) => call'[u] = call[u]
        BY <2>0, <2>1 DEF Others
      <3> QED
        BY <2>1, <3>1, BuffersMove DEF Opening
    <2>2. CASE Request(t) \/ Answer(t)
      <3>1. ~Opening(t) /\ buffers' = buffers
        BY <2>2 DEF Request, StartResolvedStream, AskHandoff, AskGuarded, AskDrop, Asks, Answer, Handoff,
                    MoveLooks, PrepareMove, ReplayBegins, ReplayLooks, ReplayStops, ReplayOver,
                    ReplayBumps, Rebuild, BeginStop, StopLooks, StopClears, StopStops, Unstop, Drop,
                    At, Opening
      <3>2. onStops \subseteq onStops'
            /\ (\/ owner' = owner
                \/ owner.sid # 0 => \E o \in onStops' : Ref(owner) = Ref(o[1]))
        BY <2>2, StopsTells
           DEF Request, StartResolvedStream, AskHandoff, AskGuarded, AskDrop, Answer, Handoff,
               MoveLooks, PrepareMove, ReplayBegins, ReplayLooks, ReplayStops, ReplayOver,
               ReplayBumps, Rebuild, BeginStop, StopLooks, StopClears, StopStops, Unstop, Drop, bridge
      <3> QED
        BY <2>1, <3>1, <3>2
    <2>3. CASE Play(t) \/ ResolveItem(t) \/ StartFailed(t) \/ StartRefused(t) \/ Started(t)
               \/ Detach(t) \/ LooksBack(t) \/ Restore(t) \/ ClearOwn(t)
      <3>1. ~Opening(t) /\ buffers' = buffers /\ onStops' = onStops /\ owner' = owner
        BY <2>3 DEF Play, ResolveItem, StartFailed, StartRefused, Started, Detach, LooksBack, Restore,
                    ClearOwn, At, Opening, bridge
      <3> QED
        BY <2>1, <3>1
    <2>4. CASE OpenBuffer(t)
      <3>1. ~Opening(t) /\ onStops' = onStops /\ owner' = owner
        BY <2>4 DEF OpenBuffer, At, Opening, bridge
      <3>2. CASE buffers' = buffers
        BY <2>1, <3>1, <3>2
      <3>3. CASE To(t, "start") /\ buffers' = buffers \cup {Ref(call[t].cap)}
        <4>1. call[t].pc = "resolve"
          BY <2>4 DEF OpenBuffer, At
        <4>2. CallOK(call[t], Len(queues)) /\ "resolve" \in Captured /\ "resolve" \in AttemptSteps
              /\ "start" \in AttemptSteps
          BY DEF QueueShape, CallsOK, Captured, AttemptSteps
        <4>3. call[t].cap.sid # 0
          BY <4>1, <4>2 DEF CallOK, QueueShape, QueuesOK, ListOK
        <4>4. call'[t].pc = "start" /\ call'[t].cap = call[t].cap
          BY <2>0, <3>3, <4>1, <4>2, AttemptGoes
        <4>5. ASSUME NEW r \in buffers'
              PROVE  r[1] # 0 /\ HeldBy(r)'
          <5>1. CASE r = Ref(call[t].cap)
            BY <4>3, <4>4, <5>1, RefIs DEF HeldBy, Opening, Ref
          <5>2. CASE r \in buffers
            <6>1. r[1] # 0 /\ HeldBy(r)
              BY <5>2 DEF BuffersHeld
            <6>2. \A u \in Threads : Opening(u) => call'[u] = call[u]
              BY <2>0, <3>1 DEF Others
            <6> QED
              BY <3>1, <6>1, <6>2 DEF HeldBy, Opening
          <5> QED
            BY <3>3, <5>1, <5>2
        <4> QED
          BY <4>5 DEF BuffersHeld
      <3> QED
        BY <2>4, <3>2, <3>3 DEF OpenBuffer
    <2>5. CASE LockForStart(t)
      <3>1. call[t].pc = "start" /\ onStops' = onStops /\ owner' = owner
        BY <2>5 DEF LockForStart, At, bridge
      <3>2. \/ To(t, "starting") /\ buffers' = buffers
            \/ buffers' = buffers \ {Ref(call[t].cap)}
        BY <2>5 DEF LockForStart, ClosesBuffer
      <3>3. To(t, "starting") => call'[t].pc = "starting" /\ call'[t].cap = call[t].cap
        BY <2>0, <3>1, AttemptGoes DEF AttemptSteps, Captured
      <3>4. \A u \in Threads : Opening(u) =>
               \/ call'[u].pc \in {"start", "starting"} /\ call'[u].cap = call[u].cap
               \/ Ref(call[u].cap) \notin buffers'
        BY <2>0, <3>2, <3>3 DEF Others, Opening
      <3> QED
        BY <3>1, <3>2, <3>4, BuffersMove
    <2>6. CASE ManagerAnswers(t)
      <3>1. \/ /\ owner' = call[t].cap /\ buffers' = buffers /\ Tell(owner, "preempted")
            \/ /\ owner' = owner /\ onStops' = onStops /\ buffers' = buffers \ {Ref(call[t].cap)}
        BY <2>6 DEF ManagerAnswers, Starts, ClosesBuffer, bridge
      <3>2. \A u \in Threads : Opening(u) =>
               \/ call'[u].pc \in {"start", "starting"} /\ call'[u].cap = call[u].cap
               \/ Ref(call[u].cap) \notin buffers'
               \/ Ref(call[u].cap) = Ref(owner')
        BY <2>0, <3>1 DEF Others, Opening
      <3>3. onStops \subseteq onStops' /\ buffers' \subseteq buffers
            /\ (\/ owner' = owner
                \/ owner.sid # 0 => \E o \in onStops' : Ref(owner) = Ref(o[1]))
        BY <3>1, TellTells
      <3> QED
        BY <3>2, <3>3, BuffersMove
    <2>7. CASE \E c : \E reason \in Reasons : OnStop(t, c, reason)
      <3>1. PICK c, reason : OnStop(t, c, reason)
        BY <2>7
      <3>2. ~Opening(t) /\ owner' = owner /\ onStops' = onStops \ {<<c, reason>>}
            /\ buffers' = buffers \ {Ref(c)}
        BY <3>1 DEF OnStop, At, Opening
      <3>3. \A u \in Threads : Opening(u) => call'[u] = call[u]
        BY <2>0, <3>2 DEF Others
      <3>4. ASSUME NEW r \in buffers'
            PROVE  r[1] # 0 /\ HeldBy(r)'
        <4>1. r[1] # 0 /\ HeldBy(r) /\ r # Ref(c)
          BY <3>2 DEF BuffersHeld
        <4>2. ASSUME NEW o \in onStops, r = Ref(o[1])
              PROVE  o \in onStops'
          BY <3>2, <4>1, <4>2
        <4> QED
          BY <3>2, <3>3, <4>1, <4>2 DEF HeldBy, Opening
      <3> QED
        BY <3>4 DEF BuffersHeld
    <2> QED
      BY <1>2, <2>2, <2>3, <2>4, <2>5, <2>6, <2>7 DEF Acts, Attempt
  <1> QED
    BY <1>1, <1>2, Steps

(* Every way out of a buffered start closes its HLS session                *)
(* (hls_buffer.go, playback.go: closeHLSSession), whatever users do.       *)
THEOREM BuffersAreClosed == Spec => []BuffersClose
  <1>1. Init => QueueShape /\ BuffersHeld
    BY ShapeStarts DEF Init, BuffersHeld
  <1>2. QueueShape /\ BuffersHeld /\ [Next]_vars => (QueueShape /\ BuffersHeld)'
    BY ShapeStays, BuffersStay
  <1>3. QueueShape /\ BuffersHeld => BuffersClose
    BY DEF BuffersClose, BuffersHeld, HeldBy, Calm, At, Opening
  <1> QED
    BY <1>1, <1>2, <1>3, PTL DEF Spec

-----------------------------------------------------------------------------
(* Failing over ends.                                                      *)

LEMMA StillCounts ==
    ASSUME NEW s, NEW z, ListOK(s), ListOK(z), Grown(s, z), Steady(s, z), NEW w, TriesOK(w, s)
    PROVE  TriesOK(w, z)
  <1>1. ASSUME NEW v, Counting(w, v, s)
        PROVE  Counting(w, v, z)
    <2>1. v.sid \in 1..Len(s) /\ v.gen \in Nat /\ v.gen <= s[v.sid].gen
          /\ (v.gen = s[v.sid].gen => w.tries <= s[v.sid].fails + 1)
      BY <1>1 DEF Counting
    <2>2. Len(s) \in Nat /\ Len(z) \in Nat /\ Len(s) <= Len(z)
          /\ s[v.sid].gen <= z[v.sid].gen
      BY <2>1 DEF ListOK, Grown
    <2>3. v.sid \in 1..Len(z)
      BY <2>1, <2>2
    <2>4. s[v.sid].gen \in Nat /\ z[v.sid].gen \in Nat
      BY <2>1, <2>3 DEF ListOK, IsQueue
    <2>5. z[v.sid].gen = s[v.sid].gen => z[v.sid].fails = s[v.sid].fails
      BY <2>1 DEF Steady
    <2>6. v.gen <= z[v.sid].gen
      BY <2>1, <2>2, <2>4
    <2>7. v.gen = z[v.sid].gen => z[v.sid].gen = s[v.sid].gen
      BY <2>1, <2>2, <2>4
    <2> QED
      BY <2>1, <2>3, <2>5, <2>6, <2>7 DEF Counting
  <1> QED
    BY <1>1 DEF TriesOK

LEMMA FirstTry ==
    ASSUME NEW w, NEW z, ListOK(z), w.pc = "play", w.tries = 1,
           w.guard.sid \in 1..Len(z), w.guard.gen = z[w.guard.sid].gen
    PROVE  TriesOK(w, z)
  <1>1. z[w.guard.sid].gen \in Nat /\ z[w.guard.sid].fails \in Nat
    BY DEF ListOK, IsQueue
  <1>2. w.guard.gen <= z[w.guard.sid].gen /\ 1 <= z[w.guard.sid].fails + 1
    BY <1>1
  <1>3. 1 \in 1..MaxFailures
    BY StreamQueueAssumption
  <1> QED
    BY <1>1, <1>2, <1>3 DEF TriesOK, Counting

LEMMA NoTries ==
    ASSUME NEW w, NEW z, w.pc \notin AttemptSteps
    PROVE  TriesOK(w, z)
  BY DEF TriesOK, AttemptSteps

(* A request or an answer begins an attempt at a new queue or at the       *)
(* replayed one, or none.                                                  *)
SwapsIn(t) ==
    /\ active' = Len(queues) + 1 /\ Len(queues') = Len(queues) + 1
    /\ queues'[active'].gen = 0
    /\ call'[t].pc = "play" /\ call'[t].tries = 1 /\ call'[t].after.prev = active
    /\ call'[t].guard.sid = active' /\ call'[t].guard.gen = 0

LEMMA AnswerCall ==
    ASSUME QueueShape, NEW t \in Threads, Request(t) \/ Answer(t), "move" \notin client.asks
    PROVE  \/ call'[t].pc \notin AttemptSteps
           \/ SwapsIn(t)
           \/ Rebuild(t) /\ call'[t].pc = "play" /\ call'[t].after = Nothing
  <1>0. HasFields(call, Threads) /\ CallOK(call[t], Len(queues)) /\ Entitled(call[t])
    BY DEF QueueShape, CallsOK
  <1>1. CASE StartResolvedStream(t) \/ Handoff(t)
    <2>1. \E kind, starter : \E after \in {"start", "handoff"} : SwapIn(t, kind, starter, after)
      BY <1>1 DEF StartResolvedStream, Handoff
    <2>2. client' = client
      BY <1>1 DEF StartResolvedStream, Handoff, Asks, bounds
    <2> QED
      BY <2>1, <2>2, SwapEffect DEF SwapsIn
  <1>2. CASE Rebuild(t)
    <2>1. Ends(t) \/ \E v : Goes(t, Playing(v, IfIdle, Nothing))
      BY <1>2 DEF Rebuild
    <2>2. ASSUME NEW v, Goes(t, Playing(v, IfIdle, Nothing))
          PROVE  call'[t].pc = "play" /\ call'[t].after = Nothing
      <3> DEFINE w == Playing(v, IfIdle, Nothing)
      <3>1. w.pc = "play" /\ w.after = Nothing
        BY Begins
      <3>2. Goes(t, w)
        BY <2>2
      <3> HIDE DEF w
      <3> QED
        BY <1>0, <3>1, <3>2, GoesOn
    <2>3. Ends(t) => call'[t] = Resting
      BY <1>0, GoesOn DEF Ends
    <2> QED
      BY <1>2, <2>1, <2>2, <2>3, CallKinds DEF AttemptSteps
  <1>3. ASSUME NEW w, Goes(t, w), w.pc \notin AttemptSteps
        PROVE  call'[t].pc \notin AttemptSteps
    BY <1>0, <1>3, GoesOn
  <1>4. Resting.pc \notin AttemptSteps
    BY CallKinds DEF AttemptSteps
  <1>5. CASE AskHandoff(t) \/ AskGuarded(t) \/ AskDrop(t)
    BY <1>3, <1>5 DEF AskHandoff, AskGuarded, AskDrop, AttemptSteps
  <1>6. CASE BeginStop(t) \/ StopStops(t) \/ Unstop(t) \/ Drop(t) \/ ReplayBegins(t)
             \/ ReplayLooks(t) \/ ReplayOver(t) \/ ReplayBumps(t)
    BY <1>3, <1>4, <1>6 DEF BeginStop, StopStops, Unstop, Drop, ReplayBegins, ReplayLooks, ReplayOver,
                            ReplayBumps, Ends, AttemptSteps
  <1>7. CASE StopLooks(t) \/ StopClears(t)
    <2>1. HasFields(call[t], StopFields)
      BY <1>0, <1>7 DEF StopLooks, StopClears, At, CallOK, StopSteps
    <2>2. ASSUME NEW p \in {"stopClear", "stopCore"}, To(t, p)
          PROVE  \E w : Goes(t, w) /\ w.pc \notin AttemptSteps
      <3>1. [call[t] EXCEPT !.pc = p].pc = p
        BY <2>1, StopOnward
      <3> QED
        BY <2>2, <3>1 DEF To, AttemptSteps
    <2> QED
      BY <1>3, <1>4, <1>7, <2>2 DEF StopLooks, StopClears, Ends
  <1>8. CASE ReplayStops(t)
    <2>1. HasFields(call[t], ReplayFields)
      BY <1>0, <1>8 DEF ReplayStops, At, CallOK, ReplaySteps
    <2>2. PICK p \in {"replayBump", "replayOver"} : To(t, p)
      BY <1>8 DEF ReplayStops
    <2>3. [call[t] EXCEPT !.pc = p].pc = p
      BY <2>1, ReplayOnward
    <2> QED
      BY <1>3, <2>2, <2>3 DEF To, AttemptSteps
  <1>9. ~MoveLooks(t) /\ ~PrepareMove(t)
    BY <1>0 DEF MoveLooks, PrepareMove, At, Entitled
  <1> QED
    BY <1>1, <1>2, <1>5, <1>6, <1>7, <1>8, <1>9 DEF Request, Answer

(* Without moves the queue an attempt matches is the one it counts for. *)
LEMMA TriesStay ==
    ASSUME QueueShape, Originals, TriesCounted, [Next]_vars,
           "move" \notin client.asks, "replay" \notin client.asks
    PROVE  Originals' /\ TriesCounted'
  <1>0. ListOK(queues) /\ QueuesOK
    BY DEF QueueShape, QueuesOK
  <1>1. CASE Aside
    BY <1>1, AsideEffect DEF Originals, TriesCounted
  <1>2. ASSUME NEW t \in Threads, Acts(t)
        PROVE  Originals' /\ TriesCounted'
    <2>1. Others(t) /\ ListOK(queues') /\ Grown(queues, queues') /\ Steady(queues, queues') /\ Originals'
          /\ active' \in 0..Len(queues')
      BY <1>2, ActsEffect DEF CallGoes, QueuesGo, Originals
    <2>2. ASSUME NEW u \in Threads
          PROVE  TriesOK(call[u], queues')
      BY <1>0, <2>1, StillCounts DEF TriesCounted
    <2>3. SUFFICES TriesOK(call'[t], queues')
      <3>1. ASSUME NEW u \in Threads \ {t}
            PROVE  TriesOK(call'[u], queues')
        BY <2>1, <2>2 DEF Others
      <3> QED
        BY <2>1, <3>1 DEF TriesCounted, TriesOK, Counting
    <2>4. CASE call'[t] = Resting
      BY <2>4, NoTries, CallKinds DEF AttemptSteps
    <2>5. CASE Runs(t) /\ call[t].pc \in AttemptSteps
      <3> DEFINE w == call[t]
                 r == call'[t]
      <3>1. TriesOK(w, queues')
        BY <2>2
      <3>2. CASE r.pc \in AttemptSteps \ {"play", "resolve"} /\ r.cap = w.cap /\ r.tries = w.tries
                 /\ (r.pc \in {"start", "starting", "unstarted"} => w.pc \in {"resolve", "start", "starting"})
        BY <2>5, <3>1, <3>2 DEF TriesOK, Counting
      <3> QED
        BY <2>4, <2>5, <3>2 DEF Runs
    <2>6. CASE Issues(t)
      <3> DEFINE r == call'[t]
      <3>1. active \in 1..Len(queues) /\ queues[active].sid = active /\ queues[active].gen \in Nat
        BY <1>0, <2>6, ActiveOK DEF Issues, Originals, OwnIds
      <3>2. active \in 1..Len(queues')
        BY <1>0, <2>1, <3>1 DEF Grown, ListOK
      <3>3. TriesOK(call[t], queues)
        BY DEF TriesCounted
      <3>4. call[t].tries \in 1..MaxFailures /\ call[t].tries <= queues[active].fails + 1
        BY <2>6, <3>1, <3>3 DEF Issues, TriesOK, Counting, AttemptSteps
      <3>5. r.cap.sid = active /\ r.cap.gen = queues'[active].gen
            /\ queues'[active].fails = queues[active].fails
            /\ queues'[active].gen = queues[active].gen
            /\ r.pc = "resolve" /\ r.tries = call[t].tries
        BY <2>6, <3>1 DEF Issues
      <3>6. Counting(r, r.cap, queues')
        <4>1. r.cap.gen <= queues'[active].gen /\ r.cap.gen \in Nat
          BY <3>1, <3>5
        <4> QED
          BY <3>2, <3>4, <3>5, <4>1 DEF Counting
      <3> QED
        BY <3>4, <3>5, <3>6 DEF TriesOK
    <2>7. CASE Retries(t)
      <3> DEFINE r == call'[t]
                 q == queues[active]
      <3>1. active # Nil /\ call[t].cap.sid = q.sid /\ call[t].cap.gen = q.gen
        BY <1>0, <2>7, MatchesWhich DEF Retries
      <3>2. active \in 1..Len(queues) /\ q.sid = active /\ q.gen \in Nat /\ q.fails \in Nat
        BY <1>0, <3>1, ActiveOK DEF Originals, OwnIds
      <3>3. active \in 1..Len(queues')
        BY <1>0, <2>1, <3>2 DEF Grown, ListOK
      <3>4. TriesOK(call[t], queues)
        BY DEF TriesCounted
      <3>5. call[t].tries \in 1..MaxFailures /\ call[t].tries <= q.fails + 1
        BY <2>7, <3>1, <3>2, <3>4 DEF Retries, TriesOK, Counting, AttemptSteps
      <3>6. r.guard.sid = active /\ r.guard.gen = queues'[active].gen
            /\ queues'[active].fails = q.fails + 1 /\ q.fails + 1 < MaxFailures
            /\ queues'[active].gen = q.gen + 1
            /\ r.pc = "play" /\ r.tries = call[t].tries + 1
        BY <2>7, <3>1, <3>2 DEF Retries
      <3>7. r.tries \in 1..MaxFailures /\ r.tries <= queues'[active].fails + 1
        BY <3>2, <3>5, <3>6, StreamQueueAssumption
      <3>8. Counting(r, r.guard, queues')
        <4>1. r.guard.gen <= queues'[active].gen /\ r.guard.gen \in Nat
          BY <3>2, <3>6
        <4> QED
          BY <3>3, <3>6, <3>7, <4>1 DEF Counting
      <3> QED
        BY <3>6, <3>7, <3>8 DEF TriesOK
    <2>8. CASE Attempt(t)
      BY <2>4, <2>5, <2>6, <2>7, <2>8, PlayEffect, ResolveEffect, ManagerEffect, RestoreEffect
         DEF Attempt, Play, ResolveItem, OpenBuffer, StartFailed, LockForStart, ManagerAnswers,
             StartRefused, Started, LooksBack, At, AttemptSteps
    <2>9. CASE \E c : \E reason \in Reasons : OnStop(t, c, reason)
      <3>1. CASE GoesToNext(t)
        <4>1. active \in 1..Len(queues) /\ queues[active].sid = active
          BY <1>0, <3>1, ActiveOK DEF GoesToNext, Originals, OwnIds
        <4>2. active \in 1..Len(queues')
          BY <1>0, <2>1, <4>1 DEF Grown, ListOK
        <4> QED
          BY <2>1, <3>1, <4>1, <4>2, FirstTry DEF GoesToNext
      <3> QED
        BY <2>4, <2>9, <3>1, OnStopEffect
    <2>10. CASE SwapsIn(t)
      <3>1. active' \in 1..Len(queues')
        BY <1>0, <2>10 DEF SwapsIn, ListOK
      <3> QED
        BY <2>1, <2>10, <3>1, FirstTry DEF SwapsIn
    <2>11. CASE Request(t) \/ Answer(t)
      <3>1. call[t].pc = "rebuild" => "replay" \in client.asks
        BY DEF QueueShape, CallsOK, Entitled
      <3> QED
        BY <2>10, <2>11, <3>1, AnswerCall, NoTries DEF Rebuild, At
    <2> QED
      BY <1>2, <2>8, <2>9, <2>11 DEF Acts
  <1> QED
    BY <1>1, <1>2, Steps

LEMMA TriesBegin ==
    ASSUME Init
    PROVE  Originals /\ TriesCounted
  BY CallKinds DEF Init, Originals, OwnIds, TriesCounted, TriesOK, AttemptSteps

(* However an attempt to play an item ends, it is over: its buffer is      *)
(* closed unless the item plays, and no more than MaxFailures items are    *)
(* tried (playback.go: recordStartFailureAndAdvance).  Two users who move  *)
(* or replay the queue meanwhile start its count over.                     *)
THEOREM AttemptsAreOver ==
    Spec /\ client.asks \cap {"move", "replay"} = {} => []AttemptsEnd
  <1> DEFINE Plain == client.asks \cap {"move", "replay"} = {}
             Inv   == QueueShape /\ BuffersHeld /\ Originals /\ TriesCounted /\ Plain
  <1>1. Init /\ Plain => Inv
    BY ShapeStarts, TriesBegin DEF Init, BuffersHeld
  <1>2. Inv /\ [Next]_vars => Inv'
    <2> SUFFICES ASSUME Inv, [Next]_vars
                 PROVE  Inv'
      OBVIOUS
    <2>1. "move" \notin client.asks /\ "replay" \notin client.asks
      OBVIOUS
    <2>2. client' = client
      BY Steps, ActsEffect, AsideEffect DEF CallGoes
    <2> QED
      BY <2>1, <2>2, ShapeStays, BuffersStay, TriesStay
  <1>3. Inv => AttemptsEnd
    <2>1. BuffersHeld => BuffersClose
      BY DEF BuffersClose, BuffersHeld, HeldBy, Calm, At, Opening
    <2>2. TriesCounted => FailoverEnds
      BY StreamQueueAssumption DEF TriesCounted, TriesOK, FailoverEnds
    <2> QED
      BY <2>1, <2>2 DEF AttemptsEnd
  <1>4. Spec /\ Plain => []Inv
    <2> HIDE DEF Inv, Plain
    <2> QED
      BY <1>1, <1>2, PTL DEF Spec
  <1>5. []Inv => []AttemptsEnd
    <2> HIDE DEF Inv
    <2> QED
      BY <1>3, PTL
  <1> QED
    BY <1>4, <1>5

-----------------------------------------------------------------------------
(* No session comes back.                                                  *)

LEMMA StillIssued ==
    ASSUME NEW s, NEW z, ListOK(s), ListOK(z), Grown(s, z), NEW r, Issued(r, s)
    PROVE  Issued(r, z)
  <1>1. r[1] \in 1..Len(s) /\ r[2] \in Nat /\ r[2] <= s[r[1]].token
    BY DEF Issued
  <1>2. Len(s) \in Nat /\ Len(z) \in Nat /\ Len(s) <= Len(z) /\ s[r[1]].token <= z[r[1]].token
    BY <1>1 DEF ListOK, Grown
  <1>3. r[1] \in 1..Len(z)
    BY <1>1, <1>2
  <1>4. s[r[1]].token \in Nat /\ z[r[1]].token \in Nat
    BY <1>1, <1>3 DEF ListOK, IsQueue
  <1>5. r[2] <= z[r[1]].token
    BY <1>1, <1>2, <1>4
  <1> QED
    BY <1>1, <1>3, <1>5 DEF Issued

(* Only the manager makes a session play. *)
LEMMA PlayedSteps ==
    ASSUME NEW t \in Threads, Acts(t)
    PROVE  \/ played' = played
           \/ /\ ManagerAnswers(t) /\ call[t].pc = "starting"
              /\ played' = played \cup {Ref(call[t].cap)} /\ owner' = call[t].cap
              /\ stopped' = stopped
  <1>1. ASSUME NEW ref, Stops(ref) PROVE played' = played
    BY <1>1 DEF Stops
  <1>2. CASE Request(t) \/ Answer(t)
    BY <1>1, <1>2 DEF Request, StartResolvedStream, AskHandoff, AskGuarded, AskDrop, Answer, Handoff,
               MoveLooks, PrepareMove, ReplayBegins, ReplayLooks, ReplayStops, ReplayOver,
               ReplayBumps, Rebuild, BeginStop, StopLooks, StopClears, StopStops, Unstop, Drop, bridge
  <1>3. CASE Attempt(t) /\ ~ManagerAnswers(t)
    BY <1>3 DEF Attempt, Play, ResolveItem, OpenBuffer, LockForStart, StartFailed, StartRefused, Started,
             Detach, LooksBack, Restore, ClearOwn, bridge
  <1>4. CASE ManagerAnswers(t)
    BY <1>4 DEF ManagerAnswers, At, Starts, bridge
  <1>5. CASE \E c : \E reason \in Reasons : OnStop(t, c, reason)
    BY <1>5 DEF OnStop
  <1> QED
    BY <1>2, <1>3, <1>4, <1>5 DEF Acts

(* Where a call of a thread may go, without moves. *)
LEMMA OwnCall ==
    ASSUME QueueShape, NEW t \in Threads, Acts(t), "move" \notin client.asks
    PROVE  \/ call'[t].pc \notin AttemptSteps
           \/ SwapsIn(t)
           \/ Rebuild(t) /\ call'[t].pc = "play" /\ call'[t].after = Nothing
           \/ GoesToNext(t)
           \/ call[t].pc \in AttemptSteps /\ (Runs(t) \/ Issues(t) \/ Retries(t))
  <1>1. CASE Request(t) \/ Answer(t)
    BY <1>1, AnswerCall
  <1>2. Resting.pc \notin AttemptSteps
    BY CallKinds DEF AttemptSteps
  <1>3. CASE Attempt(t)
    BY <1>2, <1>3, PlayEffect, ResolveEffect, ManagerEffect, RestoreEffect
       DEF Attempt, Play, ResolveItem, OpenBuffer, StartFailed, LockForStart, ManagerAnswers,
           StartRefused, Started, LooksBack, At, AttemptSteps
  <1>4. CASE \E c : \E reason \in Reasons : OnStop(t, c, reason)
    BY <1>2, <1>4, OnStopEffect
  <1> QED
    BY <1>1, <1>3, <1>4 DEF Acts

LEMMA OnceStays ==
    ASSUME QueueShape, Originals, TokensOnce, [Next]_vars, "move" \notin client.asks
    PROVE  Originals' /\ TokensOnce'
  <1>0. ListOK(queues) /\ QueuesOK
    BY DEF QueueShape, QueuesOK
  <1>1. CASE Aside
    BY <1>1, AsideEffect DEF Originals, TokensOnce, Aside, SessionEnds, ForeignStarts, Forgive, vars,
                             bridge
  <1>2. ASSUME NEW t \in Threads, Acts(t)
        PROVE  Originals' /\ TokensOnce'
    <2>1. Others(t) /\ ListOK(queues') /\ Grown(queues, queues') /\ Originals'
      BY <1>2, ActsEffect DEF CallGoes, QueuesGo, Originals
    <2>2. ASSUME NEW u \in Threads, Fresh(call[u])
          PROVE  Issued(Ref(call[u].cap), queues') /\ Ref(call[u].cap) \notin played
      BY <1>0, <2>1, <2>2, StillIssued DEF TokensOnce
    <2>3. \A r \in played' : Issued(r, queues')
      <3>1. \A r \in played : Issued(r, queues')
        BY <1>0, <2>1, StillIssued DEF TokensOnce
      <3> QED
        BY <1>2, <2>2, <3>1, PlayedSteps DEF Fresh
    (* What others have is still theirs. *)
    <2>4. ASSUME NEW u \in Threads \ {t}, Fresh(call[u])
          PROVE  Ref(call[u].cap) \notin played'
      <3>1. Fresh(call[t]) => Ref(call[t].cap) # Ref(call[u].cap)
        BY <2>4 DEF TokensOnce
      <3> QED
        BY <1>2, <2>2, <2>4, <3>1, PlayedSteps DEF Fresh
    <2>5. CASE ~Fresh(call'[t])
      <3>1. \A u \in Threads : Fresh(call'[u]) => u # t /\ call'[u] = call[u] /\ Fresh(call[u])
        BY <2>1, <2>5 DEF Others
      <3>2. ASSUME NEW u \in Threads, Fresh(call'[u])
            PROVE  Issued(Ref(call'[u].cap), queues') /\ Ref(call'[u].cap) \notin played'
        BY <2>2, <2>4, <3>1, <3>2
      <3>3. ASSUME NEW u \in Threads, NEW v \in Threads, u # v, Fresh(call'[u]), Fresh(call'[v])
            PROVE  Ref(call'[u].cap) # Ref(call'[v].cap)
        BY <3>1, <3>3 DEF TokensOnce
      <3> QED
        BY <2>1, <2>3, <3>2, <3>3 DEF TokensOnce, Fresh, Ref
    <2>6. ASSUME Fresh(call'[t]), Issued(Ref(call'[t].cap), queues'), Ref(call'[t].cap) \notin played',
                 \A u \in Threads \ {t} : Fresh(call[u]) => Ref(call'[t].cap) # Ref(call[u].cap)
          PROVE  TokensOnce'
      <3>1. \A u \in Threads \ {t} : call'[u] = call[u]
        BY <2>1 DEF Others
      <3>2. ASSUME NEW u \in Threads, Fresh(call'[u])
            PROVE  Issued(Ref(call'[u].cap), queues') /\ Ref(call'[u].cap) \notin played'
        BY <2>2, <2>4, <2>6, <3>1, <3>2
      <3>3. ASSUME NEW u \in Threads, NEW v \in Threads, u # v, Fresh(call'[u]), Fresh(call'[v])
            PROVE  Ref(call'[u].cap) # Ref(call'[v].cap)
        BY <2>6, <3>1, <3>3 DEF TokensOnce
      <3> QED
        BY <2>3, <3>2, <3>3 DEF TokensOnce, Fresh, Ref
    <2>7. CASE Fresh(call'[t]) /\ Runs(t)
      <3>1. Fresh(call[t]) /\ call'[t].cap = call[t].cap
        BY <2>7, CallKinds DEF Runs, Fresh
      <3>2. Ref(call[t].cap) \notin played'
        <4>1. call[t].pc # "starting"
          BY <2>7, CallKinds DEF Runs, Fresh
        <4> QED
          BY <1>2, <2>2, <3>1, <4>1, PlayedSteps
      <3>3. \A u \in Threads \ {t} : Fresh(call[u]) => Ref(call'[t].cap) # Ref(call[u].cap)
        BY <3>1 DEF TokensOnce
      <3>4. Ref(call'[t].cap) = Ref(call[t].cap)
        BY <3>1
      <3>5. Issued(Ref(call'[t].cap), queues') /\ Ref(call'[t].cap) \notin played'
        BY <2>2, <3>1, <3>2, <3>4
      <3> QED
        BY <2>1, <2>6, <2>7, <3>3, <3>5
    <2>8. CASE Issues(t)
      <3> DEFINE r == Ref(call'[t].cap)
      <3>1. active \in 1..Len(queues) /\ queues[active].sid = active /\ queues[active].token \in Nat
        BY <1>0, <2>8, ActiveOK DEF Issues, Originals, OwnIds
      <3>2. active \in 1..Len(queues')
        BY <1>0, <2>1, <3>1 DEF Grown, ListOK
      <3>3. r[1] = active /\ r[2] = queues[active].token + 1 /\ queues'[active].token = queues[active].token + 1
        BY <2>8, <3>1, RefIs DEF Issues
      <3>4. Issued(r, queues')
        <4>1. r[2] \in Nat /\ r[2] <= queues'[active].token
          BY <3>1, <3>3
        <4> QED
          BY <3>2, <3>3, <4>1 DEF Issued
      <3>5. ~Issued(r, queues)
        <4>1. ~(r[2] <= queues[active].token)
          BY <3>1, <3>3
        <4> QED
          BY <3>3, <4>1 DEF Issued
      <3>6. played' = played
        BY <1>2, <2>8, PlayedSteps DEF Issues
      <3>7. r \notin played'
        BY <3>5, <3>6 DEF TokensOnce
      <3>8. \A u \in Threads \ {t} : Fresh(call[u]) => r # Ref(call[u].cap)
        BY <3>5 DEF TokensOnce
      <3>9. Fresh(call'[t])
        BY <2>8 DEF Issues, Fresh
      <3> QED
        BY <2>1, <2>6, <3>4, <3>7, <3>8, <3>9
    <2>9. CASE call'[t].pc \notin AttemptSteps \/ call'[t].pc = "play"
      BY <2>5, <2>9 DEF Fresh, AttemptSteps
    <2> QED
      BY <1>2, <2>5, <2>7, <2>8, <2>9, OwnCall DEF SwapsIn, GoesToNext, Retries
  <1> QED
    BY <1>1, <1>2, Steps

(* Without moves and stops a queue becomes active when it is built, or when *)
(* the call that keeps it brings it back.                                  *)
LEMMA KeepSteps ==
    ASSUME QueueShape, NEW t \in Threads, Acts(t), "move" \notin client.asks,
           "stop" \notin client.asks
    PROVE  \/ active' \in {active, Nil} /\ Keeps(call'[t]) \in {Keeps(call[t]), Nil}
           \/ active' = Len(queues) + 1 /\ Keeps(call'[t]) \in {Keeps(call[t]), Nil, active}
           \/ active' = Keeps(call[t]) /\ Keeps(call'[t]) = Nil
  <1>0. Len(queues) \in Nat /\ call[t].pc # "unstop"
    BY DEF QueueShape, QueuesOK, ListOK, CallsOK, Entitled
  <1>1. CASE Restore(t)
    <2>1. Keeps(call[t]) = call[t].after.prev
      BY <1>1 DEF Restore, At, Keeps, AttemptSteps
    <2>2. Keeps(call'[t]) = Nil
      BY <1>1, RestoreEffect, CallKinds DEF Keeps, AttemptSteps
    <2>3. active' \in {active, call[t].after.prev}
      BY <1>1 DEF Restore, Keep
    <2> QED
      BY <2>1, <2>2, <2>3
  <1>2. CASE ~Restore(t)
    <2>1. active' \in {active, Nil, Len(queues) + 1}
      <3>1. CASE Request(t) \/ Answer(t)
        BY <1>0, <3>1 DEF Request, StartResolvedStream, AskHandoff, AskGuarded, AskDrop, Answer, Handoff,
                   MoveLooks, PrepareMove, ReplayBegins, ReplayLooks, ReplayStops, ReplayOver,
                   ReplayBumps, Rebuild, BeginStop, StopLooks, StopClears, StopStops, Unstop, Drop,
                   At, SwapIn, NewSid, Keep, ClearActive
      <3>2. CASE Attempt(t)
        BY <1>2, <3>2 DEF Attempt, Play, ResolveItem, OpenBuffer, LockForStart, ManagerAnswers,
                   StartFailed, StartRefused, Started, Detach, LooksBack, ClearOwn, RecordFailure,
                   Keep, ClearActive
      <3>3. CASE \E c : \E reason \in Reasons : OnStop(t, c, reason)
        BY <3>3 DEF OnStop, Keep, ClearActive, Reasons
      <3> QED
        BY <3>1, <3>2, <3>3 DEF Acts
    <2>2. CASE SwapsIn(t)
      BY <2>2 DEF SwapsIn, Keeps, AttemptSteps
    <2>3. CASE ~SwapsIn(t)
      <3>1. Keeps(call'[t]) \in {Keeps(call[t]), Nil}
        BY <2>3, OwnCall, CallKinds
           DEF Keeps, GoesToNext, Runs, Issues, Retries, Nothing, AttemptSteps
      <3> QED
        BY <2>1, <3>1
    <2> QED
      BY <2>2, <2>3
  <1> QED
    BY <1>1, <1>2

LEMMA KeptStays ==
    ASSUME QueueShape, KeptOnce, [Next]_vars, "move" \notin client.asks
    PROVE  /\ client' = client /\ KeptOnce'
           /\ "stop" \notin client.asks => \A i \in 1..Len(queues) : Lost(i) => Lost(i)'
  <1>0. Len(queues) \in Nat /\ active \in 0..Len(queues) /\ Nil = 0
    BY DEF QueueShape, QueuesOK, ListOK, Nil
  <1>1. \A u \in Threads : Keeps(call[u]) \in 0..Len(queues)
    BY <1>0 DEF QueueShape, CallsOK, CallOK, AfterOK, Keeps
  <1>2. CASE Aside
    BY <1>2, AsideEffect DEF KeptOnce, Lost
  <1>3. ASSUME NEW t \in Threads, Acts(t)
        PROVE  /\ client' = client /\ KeptOnce'
               /\ "stop" \notin client.asks => \A i \in 1..Len(queues) : Lost(i) => Lost(i)'
    <2>1. Others(t) /\ client' = client
      BY <1>3, ActsEffect DEF CallGoes
    <2>2. \A u \in Threads \ {t} : Keeps(call'[u]) = Keeps(call[u])
      BY <2>1 DEF Others
    <2>3. CASE "stop" \in client.asks
      BY <2>1, <2>3 DEF KeptOnce
    <2>4. CASE "stop" \notin client.asks
      <3> DEFINE k == [u \in Threads |-> Keeps(call[u])]
                 m == [u \in Threads |-> Keeps(call'[u])]
      <3>1. /\ \A u \in Threads : k[u] # Nil => k[u] # active
            /\ \A u, v \in Threads : u # v /\ k[u] # Nil => k[u] # k[v]
        BY <2>4 DEF KeptOnce
      <3>2. /\ \A u \in Threads : k[u] \in 0..Len(queues)
            /\ \A u \in Threads \ {t} : m[u] = k[u]
        BY <1>1, <2>2
      <3>3. \/ active' \in {active, Nil} /\ m[t] \in {k[t], Nil}
            \/ active' = Len(queues) + 1 /\ m[t] \in {k[t], Nil, active}
            \/ active' = k[t] /\ m[t] = Nil
        BY <1>3, <2>4, KeepSteps
      <3>4. \A u \in Threads : k[u] = Keeps(call[u]) /\ m[u] = Keeps(call'[u])
        OBVIOUS
      <3> HIDE DEF k, m
      <3>5. \A u \in Threads : k[u] # Len(queues) + 1
        BY <1>0, <3>2
      <3>6. \A u \in Threads : m[u] # Nil => m[u] # active'
        BY <1>0, <3>1, <3>2, <3>3, <3>5
      <3>7. \A u, v \in Threads : u # v /\ m[u] # Nil => m[u] # m[v]
        BY <3>1, <3>2, <3>3
      <3>8. ASSUME NEW i \in 1..Len(queues), active # i, \A u \in Threads : k[u] # i
            PROVE  active' # i /\ \A u \in Threads : m[u] # i
        <4>1. i # Nil /\ i # Len(queues) + 1
          BY <1>0
        <4> QED
          BY <3>2, <3>3, <3>8, <4>1
      <3>9. KeptOnce'
        BY <2>1, <3>4, <3>6, <3>7 DEF KeptOnce, Keeps, Nil
      <3>10. \A i \in 1..Len(queues) : Lost(i) => Lost(i)'
        BY <3>4, <3>8 DEF Lost, Keeps, Nil
      <3> QED
        BY <2>1, <3>9, <3>10
    <2> QED
      BY <2>3, <2>4
  <1>4. Aside => client' = client
    BY AsideEffect
  <1> QED
    BY <1>2, <1>3, <1>4, Steps

(* playbackMu is taken when it is free, and given back by its holder. *)
LEMMA LockSteps ==
    ASSUME NEW t \in Threads, Acts(t)
    PROVE  \/ lock' = lock
           \/ lock = Free /\ lock' = t
           \/ lock' = Free /\ call[t].pc \in {"starting", "drop"}
  <1>1. CASE Request(t) \/ Answer(t)
    BY <1>1 DEF Request, StartResolvedStream, AskHandoff, AskGuarded, AskDrop, Answer, Handoff,
               MoveLooks, PrepareMove, ReplayBegins, ReplayLooks, ReplayStops, ReplayOver,
               ReplayBumps, Rebuild, BeginStop, StopLooks, StopClears, StopStops, Unstop, Drop, At
  <1>2. CASE Attempt(t)
    BY <1>2 DEF Attempt, Play, ResolveItem, OpenBuffer, LockForStart, ManagerAnswers, StartFailed,
             StartRefused, Started, Detach, LooksBack, Restore, ClearOwn, At
  <1>3. CASE \E c : \E reason \in Reasons : OnStop(t, c, reason)
    BY <1>3 DEF OnStop
  <1> QED
    BY <1>1, <1>2, <1>3 DEF Acts

(* Who stops what, and under which lock. *)
LEMMA StoppedSteps ==
    ASSUME NEW t \in Threads, Acts(t)
    PROVE  \/ stopped' = stopped
           \/ /\ stopped' = stopped \cup ({call[t].ref} \ {NoRef})
              /\ \/ call[t].pc \in {"stopCore", "replayStop"} /\ lock = Free
                 \/ call[t].pc = "drop"
  <1>1. ASSUME NEW ref, Stops(ref) PROVE stopped' = stopped \cup ({ref} \ {NoRef})
    BY <1>1 DEF Stops
  <1>2. CASE StopStops(t) \/ ReplayStops(t) \/ Drop(t)
    BY <1>1, <1>2 DEF StopStops, ReplayStops, Drop, At
  <1>3. CASE (Request(t) \/ Answer(t)) /\ ~(StopStops(t) \/ ReplayStops(t) \/ Drop(t))
    BY <1>3 DEF Request, StartResolvedStream, AskHandoff, AskGuarded, AskDrop, Answer, Handoff,
               MoveLooks, PrepareMove, ReplayBegins, ReplayLooks, ReplayOver, ReplayBumps, Rebuild,
               BeginStop, StopLooks, StopClears, Unstop, bridge
  <1>4. CASE Attempt(t)
    BY <1>4 DEF Attempt, Play, ResolveItem, OpenBuffer, LockForStart, ManagerAnswers, Starts,
             StartFailed, StartRefused, Started, Detach, LooksBack, Restore, ClearOwn, bridge
  <1>5. CASE \E c : \E reason \in Reasons : OnStop(t, c, reason)
    BY <1>5 DEF OnStop
  <1> QED
    BY <1>2, <1>3, <1>4, <1>5 DEF Acts

(* The manager's session changes hands. *)
LEMMA OwnerSteps ==
    ASSUME NEW t \in Threads, Acts(t)
    PROVE  \/ owner' \in {owner, Nobody, Foreign}
           \/ owner' = call[t].cap /\ call[t].pc = "starting" /\ Ref(owner') \in played'
  <1>1. ASSUME NEW ref, Stops(ref) PROVE owner' \in {owner, Nobody, Foreign}
    BY <1>1 DEF Stops
  <1>2. CASE Request(t) \/ Answer(t)
    BY <1>1, <1>2 DEF Request, StartResolvedStream, AskHandoff, AskGuarded, AskDrop, Answer, Handoff,
               MoveLooks, PrepareMove, ReplayBegins, ReplayLooks, ReplayStops, ReplayOver,
               ReplayBumps, Rebuild, BeginStop, StopLooks, StopClears, StopStops, Unstop, Drop, bridge
  <1>3. CASE Attempt(t) /\ ~ManagerAnswers(t)
    BY <1>3 DEF Attempt, Play, ResolveItem, OpenBuffer, LockForStart, StartFailed, StartRefused, Started,
             Detach, LooksBack, Restore, ClearOwn, bridge
  <1>4. CASE ManagerAnswers(t)
    BY <1>4 DEF ManagerAnswers, At, Starts, bridge
  <1>5. CASE \E c : \E reason \in Reasons : OnStop(t, c, reason)
    BY <1>5 DEF OnStop
  <1> QED
    BY <1>2, <1>3, <1>4, <1>5 DEF Acts

(* How a call comes to stop or to start something. *)
LEMMA StopCalls ==
    ASSUME QueueShape, NEW t \in Threads, Acts(t), "move" \notin client.asks
    PROVE  \/ call'[t].pc \notin Stopping \cup {"drop", "starting"}
           \/ call'[t].pc \in Stopping /\ call[t].pc \in Stopping /\ call'[t].ref = call[t].ref
           \/ call'[t].pc \in Stopping /\ owner.sid # 0 /\ call'[t].ref = Ref(owner)
           \/ call'[t].pc = "drop" /\ AskDrop(t) /\ call'[t].ref = ActiveRef
           \/ /\ call'[t].pc = "starting" /\ call[t].pc = "start" /\ call'[t].cap = call[t].cap
              /\ LockForStart(t) /\ Matches(call[t].cap)
  <1>0. HasFields(call, Threads) /\ CallOK(call[t], Len(queues)) /\ Entitled(call[t])
    BY DEF QueueShape, CallsOK
  <1> DEFINE Aims == Stopping \cup {"drop", "starting"}
  <1>1. AttemptSteps \cap Stopping = {} /\ "drop" \notin AttemptSteps /\ "none" \notin Aims
        /\ Resting.pc \notin Aims
    BY CallKinds DEF AttemptSteps, Stopping, StopSteps
  <1>2. ASSUME NEW w, Goes(t, w) PROVE call'[t] = w
    BY <1>0, <1>2, GoesOn
  <1>3. Ends(t) => call'[t].pc \notin Aims
    BY <1>1, <1>2 DEF Ends
  <1>4. CASE Attempt(t)
    <2>1. CASE LockForStart(t)
      <3>1. call[t].pc = "start" /\ Runs(t)
        BY <2>1, ManagerEffect DEF LockForStart, At
      <3>2. Matches(call[t].cap) \/ call'[t].pc # "starting"
        <4>1. ASSUME ~Matches(call[t].cap) PROVE call'[t].pc = "failed"
          <5>1. To(t, "failed") /\ HasFields(call[t], AttemptFields)
            BY <1>0, <2>1, <3>1, <4>1 DEF LockForStart, StillActive, Fails, CallOK, AttemptSteps
          <5>2. [call[t] EXCEPT !.pc = "failed"].pc = "failed"
            BY <5>1, Onward DEF AttemptSteps
          <5> QED
            BY <1>2, <5>1, <5>2 DEF To
        <4> QED
          BY <4>1
      <3> QED
        BY <1>1, <2>1, <3>1, <3>2 DEF Runs
    <2>2. CASE ~LockForStart(t)
      <3>1. call[t].pc \in AttemptSteps \ {"start"}
        BY <1>4, <2>2 DEF Attempt, Play, ResolveItem, OpenBuffer, LockForStart, ManagerAnswers,
             StartFailed, StartRefused, Started, Detach, LooksBack, Restore, ClearOwn, At, AttemptSteps
      <3>2. call'[t] = Resting \/ Runs(t) \/ Issues(t) \/ Retries(t)
        BY <1>4, <2>2, PlayEffect, ResolveEffect, ManagerEffect, RestoreEffect DEF Attempt
      <3> QED
        BY <1>1, <3>1, <3>2 DEF Runs, Issues, Retries, Stopping, StopSteps
    <2> QED
      BY <2>1, <2>2
  <1>5. CASE \E c : \E reason \in Reasons : OnStop(t, c, reason)
    BY <1>1, <1>5, OnStopEffect DEF GoesToNext, Stopping, StopSteps
  <1>6. CASE StartResolvedStream(t) \/ Handoff(t) \/ Rebuild(t)
    <2>1. call'[t].pc \in {"play", "none"}
      <3>1. Ends(t) \/ \E v, s, a : Goes(t, Playing(v, s, a))
        BY <1>6 DEF StartResolvedStream, Handoff, Rebuild, SwapIn
      <3>2. ASSUME NEW v, NEW s, NEW a, Goes(t, Playing(v, s, a)) PROVE call'[t].pc = "play"
        BY <1>2, <3>2, Begins
      <3>3. Ends(t) => call'[t].pc = "none"
        BY <1>2, CallKinds DEF Ends
      <3> QED
        BY <3>1, <3>2, <3>3
    <2> QED
      BY <2>1 DEF Stopping, StopSteps
  <1>7. CASE AskHandoff(t)
    BY <1>2, <1>7 DEF AskHandoff, Stopping, StopSteps
  <1>8. CASE AskGuarded(t)
    <2>1. PICK p \in {"move", "replay", "stop"} : p \in client.asks /\ Streams(owner)
                                                  /\ Goes(t, [pc |-> p, ref |-> Ref(owner)])
      BY <1>8 DEF AskGuarded, Asks
    <2>2. call'[t] = [pc |-> p, ref |-> Ref(owner)] /\ p \in {"replay", "stop"}
      BY <1>2, <2>1
    <2> QED
      BY <2>1, <2>2 DEF Streams, Stopping
  <1>9. CASE AskDrop(t)
    BY <1>2, <1>9 DEF AskDrop
  <1>10. CASE BeginStop(t)
    <2>1. call[t].pc \in Stopping
      BY <1>10 DEF BeginStop, At, Stopping
    <2>2. \/ Ends(t)
          \/ \E w : Goes(t, w) /\ w.pc \notin Aims
          \/ \E w : Goes(t, w) /\ w.pc \in Stopping /\ w.ref = call[t].ref
      BY <1>10 DEF BeginStop, Stopping, StopSteps
    <2> QED
      BY <1>2, <1>3, <2>1, <2>2
  <1>11. CASE StopLooks(t) \/ StopClears(t) \/ StopStops(t)
    <2>1. call[t].pc \in Stopping /\ call[t].pc \in StopSteps
      BY <1>11 DEF StopLooks, StopClears, StopStops, At, Stopping, StopSteps
    <2>2. HasFields(call[t], StopFields)
      BY <1>0, <2>1 DEF CallOK
    <2>3. \/ Ends(t)
          \/ \E w : Goes(t, w) /\ w.pc \notin Aims
          \/ \E p \in StopSteps : To(t, p)
      BY <1>11 DEF StopLooks, StopClears, StopStops, Stopping, StopSteps
    <2>4. ASSUME NEW p \in StopSteps, To(t, p) PROVE call'[t].pc \in Stopping /\ call'[t].ref = call[t].ref
      <3>1. [call[t] EXCEPT !.pc = p].pc = p /\ [call[t] EXCEPT !.pc = p].ref = call[t].ref
        BY <2>2, StopOnward
      <3> QED
        BY <1>2, <2>4, <3>1 DEF To, Stopping
    <2> QED
      BY <1>2, <1>3, <2>1, <2>3, <2>4
  <1>12. CASE Unstop(t) \/ Drop(t) \/ ReplayOver(t)
    BY <1>3, <1>12 DEF Unstop, Drop, ReplayOver
  <1>13. CASE ReplayBegins(t) \/ ReplayLooks(t)
    <2>1. call[t].pc \in Stopping
      BY <1>13 DEF ReplayBegins, ReplayLooks, At, Stopping
    <2>2. \/ Ends(t)
          \/ \E w : Goes(t, w) /\ w.pc \notin Aims
          \/ \E w : Goes(t, w) /\ w.pc \in Stopping /\ w.ref = call[t].ref
      BY <1>13 DEF ReplayBegins, ReplayLooks, Stopping, StopSteps
    <2> QED
      BY <1>2, <1>3, <2>1, <2>2
  <1>14. CASE ReplayStops(t)
    <2>1. HasFields(call[t], ReplayFields)
      BY <1>0, <1>14 DEF ReplayStops, At, CallOK, ReplaySteps
    <2>2. PICK p \in {"replayBump", "replayOver"} : To(t, p)
      BY <1>14 DEF ReplayStops
    <2>3. [call[t] EXCEPT !.pc = p].pc = p
      BY <2>1, ReplayOnward
    <2>4. call'[t].pc = p
      BY <1>2, <2>2, <2>3 DEF To
    <2> QED
      BY <2>2, <2>4 DEF Stopping, StopSteps
  <1>15. CASE ReplayBumps(t)
    <2>1. \E w : Goes(t, w) /\ w.pc = "rebuild"
      BY <1>15 DEF ReplayBumps
    <2> QED
      BY <1>2, <2>1 DEF Stopping, StopSteps
  <1>16. ~MoveLooks(t) /\ ~PrepareMove(t)
    BY <1>0 DEF MoveLooks, PrepareMove, At, Entitled
  <1> QED
    BY <1>4, <1>5, <1>6, <1>7, <1>8, <1>9, <1>10, <1>11, <1>12, <1>13, <1>14, <1>15, <1>16
       DEF Acts, Request, Answer

LEMMA OverStays ==
    ASSUME QueueShape, Originals, TokensOnce, KeptOnce, StoppedIsOver, [Next]_vars,
           "move" \notin client.asks, ~({"stop", "drop"} \subseteq client.asks)
    PROVE  StoppedIsOver'
  <1>0. QueuesOK /\ ListOK(queues) /\ Len(queues) \in Nat /\ Nil = 0
    BY DEF QueueShape, QueuesOK, ListOK, Nil
  <1>1. CASE Aside
    <2>1. queues' = queues /\ active' = active /\ call' = call /\ client' = client
      BY <1>1, AsideEffect
    <2>2. lock' = lock /\ played' = played /\ stopped' = stopped /\ owner' \in {owner, Nobody, Foreign}
      BY <1>1 DEF Aside, SessionEnds, ForeignStarts, Forgive, vars, bridge
    <2>3. owner'.sid # 0 => owner' = owner
      BY <2>2 DEF Nobody, Foreign, Capture
    <2>4. \A r : Dropped(r) => Dropped(r)'
      BY <2>1 DEF Dropped, Lost, Issued
    <2>5. \A u \in Threads : StopsOK(u)'
      BY <2>1, <2>2, <2>4 DEF StoppedIsOver, StopsOK
    <2>6. (owner.sid # 0 => Ref(owner) \in played)'
      BY <2>2, <2>3 DEF StoppedIsOver
    <2>7. (\A r \in stopped : r \in played \/ Dropped(r))'
      BY <2>2, <2>4 DEF StoppedIsOver
    <2> QED
      BY <2>5, <2>6, <2>7 DEF StoppedIsOver
  <1>2. ASSUME NEW t \in Threads, Acts(t)
        PROVE  StoppedIsOver'
    <2>1. Others(t) /\ client' = client /\ ListOK(queues') /\ Grown(queues, queues')
          /\ Entitled(call'[t])
      BY <1>2, ActsEffect DEF CallGoes, QueuesGo
    <2>2. played \subseteq played'
      BY <1>2, PlayedSteps
    (* What was dropped stays dropped. *)
    <2>3. ASSUME NEW r, Dropped(r)
          PROVE  Dropped(r)'
      <3>1. "stop" \notin client.asks /\ Issued(r, queues) /\ Lost(r[1]) /\ r[1] \in 1..Len(queues)
        BY <2>3 DEF Dropped, Issued
      <3>2. Issued(r, queues')
        BY <1>0, <2>1, <3>1, StillIssued
      <3>3. Lost(r[1])'
        BY <3>1, KeptStays
      <3> QED
        BY <2>1, <3>1, <3>2, <3>3 DEF Dropped, Issued, Lost
    <2>4. (owner.sid # 0 => Ref(owner) \in played)'
      <3>1. CASE owner' \in {Nobody, Foreign}
        BY <3>1 DEF Nobody, Foreign, Capture
      <3>2. CASE owner' = owner
        BY <2>2, <3>2 DEF StoppedIsOver
      <3> QED
        BY <1>2, <3>1, <3>2, OwnerSteps
    <2>5. (\A r \in stopped : r \in played \/ Dropped(r))'
      <3>1. ASSUME NEW r \in stopped PROVE r \in played' \/ Dropped(r)'
        BY <2>2, <2>3 DEF StoppedIsOver
      <3>2. CASE stopped' = stopped
        BY <3>1, <3>2
      <3>3. CASE /\ stopped' = stopped \cup ({call[t].ref} \ {NoRef})
                 /\ \/ call[t].pc \in {"stopCore", "replayStop"} /\ lock = Free
                    \/ call[t].pc = "drop"
        <4>1. PICK r : r = call[t].ref
          OBVIOUS
        <4>2. r # NoRef => r \in played' \/ Dropped(r)'
          BY <2>2, <2>3, <3>3, <4>1 DEF StoppedIsOver, StopsOK, Stopping, StopSteps
        <4>3. stopped' = stopped \cup ({r} \ {NoRef})
          BY <3>3, <4>1
        <4> QED
          BY <3>1, <4>2, <4>3
      <3> QED
        BY <1>2, <3>2, <3>3, StoppedSteps
    (* The others: playbackMu is theirs, or nothing is stopped now. *)
    <2>6. ASSUME NEW u \in Threads \ {t}
          PROVE  StopsOK(u)'
      <3>1. call'[u] = call[u] /\ StopsOK(u) /\ StopsOK(t) /\ u # t /\ u # Free
        BY <2>1, StreamQueueAssumption DEF Others, StoppedIsOver
      <3>2. lock = u => lock' = u
        BY <1>2, <3>1, LockSteps DEF StopsOK
      <3>3. lock = u => call[t].pc # "drop"
        BY <3>1 DEF StopsOK
      <3>4. lock = u => stopped' = stopped
        BY <1>2, <3>1, <3>3, StoppedSteps
      <3>5. call'[u].pc \in Stopping => call'[u].ref \in played'
        BY <2>2, <3>1 DEF StopsOK
      <3>6. call'[u].pc = "drop" => lock' = u /\ (call'[u].ref = NoRef \/ Dropped(call[u].ref)')
        <4>1. PICK r : r = call[u].ref
          OBVIOUS
        <4>2. PICK w : w = call[u]
          OBVIOUS
        <4>3. call'[u] = w /\ r = w.ref
          BY <3>1, <4>1, <4>2
        <4>4. w.pc = "drop" => lock' = u /\ (r = NoRef \/ Dropped(r))
          BY <3>1, <3>2, <4>1, <4>2 DEF StopsOK
        <4> QED
          BY <2>3, <4>3, <4>4
      <3>7. call'[u].pc = "starting" => lock' = u /\ Ref(call'[u].cap) \notin stopped'
        BY <3>1, <3>2, <3>4 DEF StopsOK
      <3> QED
        BY <3>5, <3>6, <3>7 DEF StopsOK, Ref
    <2>7. StopsOK(t)'
      <3>1. CASE call'[t].pc \notin Stopping \cup {"drop", "starting"}
        BY <3>1 DEF StopsOK
      <3>2. Stopping \cap {"drop", "starting"} = {}
        BY DEF Stopping, StopSteps
      <3>3. CASE call'[t].pc \in Stopping /\ call[t].pc \in Stopping /\ call'[t].ref = call[t].ref
        BY <2>2, <3>2, <3>3 DEF StopsOK, StoppedIsOver
      <3>4. CASE call'[t].pc \in Stopping /\ owner.sid # 0 /\ call'[t].ref = Ref(owner)
        BY <2>2, <3>2, <3>4 DEF StopsOK, StoppedIsOver
      <3>5. CASE call'[t].pc = "drop" /\ AskDrop(t) /\ call'[t].ref = ActiveRef
        <4>1. "stop" \notin client.asks /\ lock' = t /\ active' = Nil
          BY <3>5 DEF AskDrop, Asks, ClearActive
        <4>2. PICK r : r = ActiveRef
          OBVIOUS
        <4>3. r = NoRef \/ Dropped(r)'
          <5>1. CASE active = Nil \/ queues[active].token = 0
            BY <4>2, <5>1 DEF ActiveRef
          <5>2. CASE active # Nil /\ queues[active].token # 0
            <6>1. active \in 1..Len(queues) /\ queues[active].sid = active /\ queues[active].token \in Nat
              BY <1>0, <5>2, ActiveOK DEF Originals, OwnIds
            <6>2. r[1] = active /\ r[2] = queues[active].token
              BY <4>2, <5>2, <6>1, RefIs DEF ActiveRef, CaptureOf, Capture
            <6>3. Issued(r, queues)
              BY <6>1, <6>2 DEF Issued
            <6>4. Issued(r, queues')
              BY <1>0, <2>1, <6>3, StillIssued
            <6>5. \A u \in Threads : Keeps(call'[u]) # r[1]
              <7>1. r[1] # Nil
                BY <1>0, <6>1, <6>2
              <7>2. Keeps(call'[t]) = Nil
                BY <3>5 DEF Keeps, AttemptSteps
              <7>3. ASSUME NEW u \in Threads \ {t} PROVE Keeps(call'[u]) # r[1]
                BY <2>1, <4>1, <6>2, <7>1 DEF Others, KeptOnce
              <7> QED
                BY <7>1, <7>2, <7>3
            <6>6. active' # r[1]
              BY <1>0, <4>1, <6>1, <6>2
            <6> QED
              BY <2>1, <4>1, <6>4, <6>5, <6>6 DEF Dropped, Lost, Issued, Keeps, Nil
          <5> QED
            BY <5>1, <5>2
        <4>5. PICK w : w = call'[t]
          OBVIOUS
        <4>6. w.ref = r /\ w.pc = "drop"
          BY <3>5, <4>2, <4>5
        <4> QED
          BY <3>2, <4>1, <4>3, <4>5, <4>6 DEF StopsOK, NoRef
      <3>6. CASE /\ call'[t].pc = "starting" /\ call[t].pc = "start" /\ call'[t].cap = call[t].cap
                 /\ LockForStart(t) /\ Matches(call[t].cap)
        <4>1. lock' = t /\ stopped' = stopped
          BY <3>6 DEF LockForStart, StillActive, bridge
        <4> DEFINE r == Ref(call[t].cap)
        <4>2. r \notin played
          BY <3>6 DEF TokensOnce, Fresh
        <4>3. ~Dropped(r)
          <5>1. active # Nil /\ r[1] = queues[active].sid
            BY <1>0, <3>6, MatchesWhich, RefIs
          <5>2. r[1] = active
            BY <1>0, <5>1, ActiveOK DEF Originals, OwnIds
          <5> QED
            BY <5>2 DEF Dropped, Lost
        <4>4. r \notin stopped'
          BY <4>1, <4>2, <4>3 DEF StoppedIsOver
        <4>5. Ref(call'[t].cap) \notin stopped'
          BY <3>6, <4>4
        <4> QED
          BY <3>2, <3>6, <4>1, <4>5 DEF StopsOK, Ref
      <3> QED
        BY <1>2, <3>1, <3>3, <3>4, <3>5, <3>6, StopCalls
    <2>8. \A u \in Threads : StopsOK(u)'
      BY <2>6, <2>7
    <2> QED
      BY <2>4, <2>5, <2>8 DEF StoppedIsOver
  <1> QED
    BY <1>1, <1>2, Steps

LEMMA OverBegins ==
    ASSUME Init
    PROVE  Originals /\ TokensOnce /\ KeptOnce /\ StoppedIsOver
  <1>1. \A t \in Threads : call[t] = Resting
    BY DEF Init
  <1>2. Originals /\ TokensOnce
    BY <1>1, CallKinds DEF Init, Originals, OwnIds, TokensOnce, Fresh
  <1>3. KeptOnce
    BY <1>1, CallKinds DEF KeptOnce, Keeps, AttemptSteps
  <1>4. StoppedIsOver
    BY <1>1, CallKinds DEF Init, StoppedIsOver, StopsOK, Stopping, StopSteps, Nobody, Foreign, Capture
  <1> QED
    BY <1>2, <1>3, <1>4

(* No session comes back: no ref plays twice, and what a user stopped does *)
(* not start any more (playback.go: captureStillActive under playbackMu).  *)
(* The guarded moves are left out, because they keep clones, and the two   *)
(* ways to stop are not mixed, because the one may bring back the queue    *)
(* that the other dropped.                                                 *)
THEOREM NothingReturns ==
    Spec /\ "move" \notin client.asks /\ ~({"stop", "drop"} \subseteq client.asks) => NothingComesBack
  <1> DEFINE Unmixed == "move" \notin client.asks /\ ~({"stop", "drop"} \subseteq client.asks)
             Inv == QueueShape /\ Originals /\ TokensOnce /\ KeptOnce /\ StoppedIsOver /\ Unmixed
  <1>1. Init /\ Unmixed => Inv
    BY ShapeStarts, OverBegins
  <1>2. Inv /\ [Next]_vars => Inv'
    <2> SUFFICES ASSUME Inv, [Next]_vars
                 PROVE  Inv'
      OBVIOUS
    <2>1. client' = client /\ KeptOnce'
      BY KeptStays
    <2> QED
      BY <2>1, ShapeStays, OnceStays, OverStays
  <1> DEFINE Step == owner' # owner =>
                       /\ Streams(owner') => Ref(owner') \notin played
                       /\ "move" \notin client.asks => Ref(owner') \notin stopped
  <1>3. Inv /\ [Next]_vars => [Step]_vars
    <2> SUFFICES ASSUME Inv, Next, owner' # owner
                 PROVE  /\ Streams(owner') => Ref(owner') \notin played
                        /\ Ref(owner') \notin stopped
      OBVIOUS
    <2>1. CASE owner' \in {Nobody, Foreign}
      <3>1. \A r \in stopped : r[1] \in 1..Len(queues)
        BY DEF StoppedIsOver, TokensOnce, Dropped, Issued
      <3>2. owner'.sid = 0
        BY <2>1 DEF Nobody, Foreign, Capture
      <3>3. Ref(owner')[1] = 0
        BY <3>2, RefIs
      <3> QED
        BY <3>1, <3>2, <3>3 DEF Streams
    <2>2. CASE \E t \in Threads : /\ owner' = call[t].cap /\ call[t].pc = "starting"
      BY <2>2 DEF TokensOnce, Fresh, StoppedIsOver, StopsOK
    <2>3. Aside => owner' \in {owner, Nobody, Foreign}
      BY DEF Aside, SessionEnds, ForeignStarts, Forgive, vars, bridge
    <2> QED
      BY <2>1, <2>2, <2>3, Steps, OwnerSteps
  <1>4. Spec /\ Unmixed => []Inv
    <2> HIDE DEF Inv, Unmixed
    <2> QED
      BY <1>1, <1>2, PTL DEF Spec
  <1>5. Spec /\ []Inv => [][Step]_vars
    <2> HIDE DEF Inv, Step
    <2> QED
      BY <1>3, PTL DEF Spec
  <1> QED
    BY <1>4, <1>5 DEF NothingComesBack
=============================================================================
