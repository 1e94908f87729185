---------------------------- MODULE RemoteProofs ----------------------------
(***************************************************************************)
(* Proofs about the adapters that are remote-controlled: Plex for any      *)
(* number of controllers and items, Jellyfin, and the DLNA renderer, each  *)
(* for any behaviours its limits allow.  An adapter's invariant has a part *)
(* that holds whatever overlaps, and one for commands that come one at a   *)
(* time, as its property says; its lemmas follow the steps of its module.  *)
(***************************************************************************)
EXTENDS MCRemote, FiniteSetTheorems, TLAPS

-----------------------------------------------------------------------------
(* The manager's slot.                                                     *)

SlotShape ==
    owner = [by |-> owner.by, ref |-> owner.ref, gen |-> owner.gen, req |-> owner.req,
             paused |-> owner.paused]

LEMMA Installed ==
    ASSUME NEW by, NEW ref, NEW req, Installs(Session(by, ref, req))
    PROVE  /\ owner'.by = by /\ owner'.ref = ref /\ owner'.gen = gens + 1 /\ owner'.req = req
           /\ owner'.paused = FALSE /\ owner'.paused \in BOOLEAN /\ ~owner'.paused
           /\ SlotShape'
           /\ gens' = gens + 1
           /\ told' = IF owner.ref = ref THEN told ELSE told \cup Hook("preempted")
<1>1. owner' = [by |-> by, ref |-> ref, gen |-> gens + 1, req |-> req, paused |-> FALSE]
  BY DEF Installs, Session
<1>2. Session(by, ref, req).ref = ref
  BY DEF Session
<1>3. /\ gens' = gens + 1
      /\ told' = IF owner.ref = ref THEN told ELSE told \cup Hook("preempted")
  BY <1>2 DEF Installs
<1> QED BY <1>1, <1>3 DEF SlotShape

LEMMA Emptied ==
    ASSUME NEW why, Empties(why)
    PROVE  /\ owner'.by = "none" /\ owner'.ref = <<>> /\ owner'.gen = 0 /\ owner'.paused \in BOOLEAN
           /\ SlotShape' /\ gens' = gens
           /\ told' = told \cup Hook(why)
BY DEF Empties, NoSession, Session, SlotShape

LEMMA Paused ==
    ASSUME SlotShape, NEW p, SetPaused(p), ~Idle
    PROVE  /\ owner'.by = owner.by /\ owner'.ref = owner.ref /\ owner'.gen = owner.gen
           /\ owner'.req = owner.req /\ owner'.paused = p
           /\ SlotShape'
           /\ gens' = gens /\ told' = told
<1>1. owner' = [by |-> owner.by, ref |-> owner.ref, gen |-> owner.gen, req |-> owner.req, paused |-> p]
  BY DEF SetPaused, SlotShape
<1> QED BY <1>1 DEF SlotShape, SetPaused

LEMMA Told ==
    ASSUME NEW why
    PROVE  /\ \A o \in Hook(why) : o.of = owner /\ o.why = why
           /\ owner.by \notin {"none", "other"} => \E o \in Hook(why) : o.of = owner
           /\ owner.by \in {"none", "other"} => Hook(why) = {}
<1> DEFINE o == [of |-> owner, why |-> why]
<1>1. o.of = owner /\ o.why = why
  OBVIOUS
<1>2. owner.by \notin {"none", "other"} => Hook(why) = {o}
  BY DEF Hook
<1>3. owner.by \in {"none", "other"} => Hook(why) = {}
  BY DEF Hook
<1> HIDE DEF o
<1> QED BY <1>1, <1>2, <1>3

LEMMA SlotStays == ASSUME SlotShape, owner' = owner PROVE SlotShape'
BY DEF SlotShape

-----------------------------------------------------------------------------
(* The Plex adapter.                                                       *)

PlaysUpTo(n) == [item : Int, music : BOOLEAN, id : 0..n]

Intending    == {"lookup", "remember", "pause", "finish"}
RequestSteps == Intending \cup {"none", "stop", "clear"}
AdvanceSteps == {"resolve", "settle", "start", "commit", "confirm", "abandon"}
Launched     == {"commit", "confirm", "abandon"}

RequestsUpTo(n) == [pc : RequestSteps, play : PlaysUpTo(n), paused : BOOLEAN]
HooksUpTo(n)    == [play : PlaysUpTo(n), epoch : Nat, late : BOOLEAN, advance : BOOLEAN]
AdvancesUpTo(n) ==
    [pc : AdvanceSteps, from : PlaysUpTo(n), epoch : Nat, late : BOOLEAN, next : PlaysUpTo(n), gen : Nat]

PlexShape ==
    /\ plexLimit \in PlexLimits /\ asked \in Nat /\ ended \in Nat
    /\ minted \in Nat /\ epoch \in Nat /\ gens \in Nat
    /\ lastPlay \in PlaysUpTo(minted) /\ current = lastPlay.id
    /\ autoAdvance \in BOOLEAN /\ slow \in BOOLEAN
    /\ request \in [1..Controllers -> RequestsUpTo(minted)]
    /\ hooks \subseteq HooksUpTo(minted)

SlotPlays ==
    /\ SlotShape
    /\ owner.by \in {"none", "other", "plex"} /\ owner.gen \in 0..gens /\ owner.paused \in BOOLEAN
    /\ Owned("plex") =>
          owner.req \in PlaysUpTo(minted) /\ owner.ref = PlexSession(owner.req).ref
    /\ \A o \in told : o.of.by = "plex" /\ o.of.req \in PlaysUpTo(minted)

AdvancesKept ==
    /\ advances \subseteq AdvancesUpTo(minted)
    /\ \A h \in hooks : h.epoch <= epoch
    /\ \A a \in advances : a.epoch <= epoch /\ (a.pc # "resolve" => a.next.id # 0)
    /\ \A a, b \in advances : a.pc = "confirm" /\ b.pc = "confirm" => a = b

(* The intents are the commands under way.                                 *)
Intents     == {c \in 1..Controllers : request[c].pc \in Intending}
IntentsKept == intents = Cardinality(Intents)

(* From here on commands come one at a time.                               *)
OneRequest ==
    \A c, d \in 1..Controllers : request[c].pc # "none" /\ request[d].pc # "none" => c = d

(* A TranscodeSessionID belongs to one session, which ends once.           *)
IsOver(id)   == (\E o \in told : o.of.req.id = id) \/ (\E h \in hooks : h.play.id = id)
Unstarted(p) == ~IsOver(p.id) /\ (Owned("plex") => owner.req.id # p.id)

UniqueNexts == \A a, b \in advances : a.pc # "resolve" /\ a.next.id = b.next.id => a = b

IdsKept ==
    /\ Owned("plex") => ~IsOver(owner.req.id)
    /\ \A c \in 1..Controllers : request[c].pc = "lookup" =>
          /\ Unstarted(request[c].play) /\ request[c].play.id # 0
          /\ \A a \in advances : a.next.id # request[c].play.id
    /\ \A a \in advances : a.pc \in {"settle", "start"} => Unstarted(a.next)
    /\ UniqueNexts

(* What an advance started is known by its generation.                     *)
IsMine(a) == Owned("plex") /\ owner.req = a.next /\ owner.gen = a.gen

GensKept ==
    \A a \in advances : a.pc \in Launched =>
        /\ a.gen \in 1..gens
        /\ owner.gen = a.gen => IsMine(a)
        /\ Owned("plex") /\ owner.req.id = a.next.id => IsMine(a)

(* The session that plays is remembered, or about to be, or about to end.  *)
IsPending == \E a \in advances : a.pc \in {"commit", "abandon"} /\ IsMine(a)

PlayKept ==
    Owned("plex") =>
        /\ \A c \in 1..Controllers : request[c].pc = "remember" =>
              owner.req = request[c].play \/ IsPending
        /\ ~slow => /\ \A c \in 1..Controllers : request[c].pc = "clear" => IsPending
                    /\ \/ lastPlay = owner.req
                       \/ \E c \in 1..Controllers : request[c].pc = "remember" /\ request[c].play = owner.req
                       \/ IsPending

PlexApart == OneRequest /\ IdsKept /\ GensKept /\ PlayKept

PlexInv ==
    /\ PlexShape /\ SlotPlays /\ AdvancesKept /\ IntentsKept
    /\ ~plexLimit.together => PlexApart

LEMMA PlaysGrow ==
    ASSUME NEW m \in Nat, NEW n \in Nat, m <= n
    PROVE  /\ PlaysUpTo(m) \subseteq PlaysUpTo(n) /\ RequestsUpTo(m) \subseteq RequestsUpTo(n)
           /\ HooksUpTo(m) \subseteq HooksUpTo(n) /\ AdvancesUpTo(m) \subseteq AdvancesUpTo(n)
<1>1. PlaysUpTo(m) \subseteq PlaysUpTo(n)
  BY DEF PlaysUpTo
<1> QED BY <1>1 DEF RequestsUpTo, HooksUpTo, AdvancesUpTo

LEMMA Requested ==
    ASSUME PlexShape, NEW c \in 1..Controllers, NEW n \in Nat, minted <= n, NEW r \in RequestsUpTo(n),
           request' = [request EXCEPT ![c] = r]
    PROVE  /\ request' \in [1..Controllers -> RequestsUpTo(n)]
           /\ request'[c] = r /\ \A d \in 1..Controllers : d # c => request'[d] = request[d]
<1>1. RequestsUpTo(minted) \subseteq RequestsUpTo(n) /\ request \in [1..Controllers -> RequestsUpTo(minted)]
  BY PlaysGrow DEF PlexShape
<1> QED BY <1>1

LEMMA Gone ==
    ASSUME PlexShape, NEW c \in 1..Controllers, NEW p \in RequestSteps, Goes(c, p)
    PROVE  /\ request' \in [1..Controllers -> RequestsUpTo(minted)]
           /\ request'[c].pc = p /\ request'[c].play = request[c].play /\ request'[c].paused = request[c].paused
           /\ \A d \in 1..Controllers : d # c => request'[d] = request[d]
<1>1. request \in [1..Controllers -> RequestsUpTo(minted)]
  BY DEF PlexShape
<1>2. request'[c] = [request[c] EXCEPT !.pc = p] /\ \A d \in 1..Controllers : d # c => request'[d] = request[d]
  BY <1>1 DEF Goes
<1>3. request[c] \in RequestsUpTo(minted)
  BY <1>1
<1>4. request'[c] \in RequestsUpTo(minted) /\ request'[c].pc = p /\ request'[c].play = request[c].play
      /\ request'[c].paused = request[c].paused
  BY <1>2, <1>3 DEF RequestsUpTo
<1> QED BY <1>1, <1>2, <1>4 DEF Goes

LEMMA RestingIsRequest ==
    \A n \in Nat : /\ Resting \in RequestsUpTo(n) /\ Resting.pc = "none"
                  /\ NoPlay \in PlaysUpTo(n) /\ NoPlay.id = 0
BY DEF Resting, RequestsUpTo, NoPlay, Play, PlaysUpTo, RequestSteps

(* Counting the commands under way.                                        *)
LEMMA IntentsFinite == IsFiniteSet(Intents) /\ Cardinality(Intents) \in Nat
<1>1. IsFiniteSet(1..Controllers)
  BY FS_Interval, PlexAssumption
<1>2. IsFiniteSet(Intents)
  BY <1>1, FS_Subset DEF Intents
<1> QED BY <1>2, FS_CardinalityType

LEMMA Counted ==
    ASSUME IntentsKept, NEW c \in 1..Controllers, \A d \in 1..Controllers : d # c => request'[d] = request[d],
           \/ intents' = intents /\ (request[c].pc \in Intending <=> request'[c].pc \in Intending)
           \/ intents' = intents + 1 /\ request[c].pc \notin Intending /\ request'[c].pc \in Intending
           \/ intents' = intents - 1 /\ request[c].pc \in Intending /\ request'[c].pc \notin Intending
    PROVE  IntentsKept'
<1>1. CASE intents' = intents /\ (request[c].pc \in Intending <=> request'[c].pc \in Intending)
  <2>1. Intents' = Intents
    BY <1>1 DEF Intents
  <2> QED BY <1>1, <2>1 DEF IntentsKept
<1>2. CASE intents' = intents + 1 /\ request[c].pc \notin Intending /\ request'[c].pc \in Intending
  <2>1. Intents' = Intents \cup {c} /\ c \notin Intents
    BY <1>2 DEF Intents
  <2>2. Cardinality(Intents') = Cardinality(Intents) + 1
    BY <2>1, IntentsFinite, FS_AddElement
  <2> QED BY <1>2, <2>2 DEF IntentsKept
<1>3. CASE intents' = intents - 1 /\ request[c].pc \in Intending /\ request'[c].pc \notin Intending
  <2>1. Intents' = Intents \ {c} /\ c \in Intents
    BY <1>3 DEF Intents
  <2>2. Cardinality(Intents') = Cardinality(Intents) - 1
    BY <2>1, IntentsFinite, FS_RemoveElement
  <2> QED BY <1>3, <2>2 DEF IntentsKept
<1> QED BY <1>1, <1>2, <1>3

LEMMA SameCount == ASSUME IntentsKept, UNCHANGED <<request, intents>> PROVE IntentsKept'
<1>1. Intents' = Intents
  BY DEF Intents
<1> QED BY <1>1 DEF IntentsKept

(* What a command that begins does to hooks and advances.                  *)
LateAdvance(a) == IF a.pc = "abandon" THEN a ELSE [a EXCEPT !.late = TRUE]

LEMMA LateFields ==
    ASSUME NEW n, NEW a \in AdvancesUpTo(n)
    PROVE  LET b == LateAdvance(a) IN
           /\ b \in AdvancesUpTo(n)
           /\ b.pc = a.pc /\ b.from = a.from /\ b.epoch = a.epoch /\ b.next = a.next /\ b.gen = a.gen
BY DEF LateAdvance, AdvancesUpTo

SameAdvance(a, b) == b.pc = a.pc /\ b.epoch = a.epoch /\ b.next = a.next /\ b.gen = a.gen

LEMMA Overtaken ==
    ASSUME PlexShape, AdvancesKept, Overtakes
    PROVE  /\ hooks' \subseteq HooksUpTo(minted) /\ advances' \subseteq AdvancesUpTo(minted)
           /\ \A h \in hooks' : \E g \in hooks : h.play = g.play /\ h.epoch = g.epoch
           /\ \A g \in hooks : \E h \in hooks' : h.play = g.play
           /\ \A b \in advances' : \E a \in advances : b = LateAdvance(a) /\ SameAdvance(a, b)
           /\ \A a \in advances : \E b \in advances' : SameAdvance(a, b)
           /\ UniqueNexts => UniqueNexts'
<1>1. hooks' = {[h EXCEPT !.late = TRUE] : h \in hooks}
  BY DEF Overtakes
<1>2. \A h \in hooks : /\ [h EXCEPT !.late = TRUE] \in HooksUpTo(minted)
                       /\ [h EXCEPT !.late = TRUE].play = h.play /\ [h EXCEPT !.late = TRUE].epoch = h.epoch
  BY DEF PlexShape, HooksUpTo
<1>3. advances' = {LateAdvance(a) : a \in advances}
  BY DEF Overtakes, LateAdvance
<1>4. \A a \in advances : LateAdvance(a) \in AdvancesUpTo(minted) /\ SameAdvance(a, LateAdvance(a))
  BY LateFields DEF AdvancesKept, SameAdvance
<1>5. UniqueNexts => UniqueNexts'
  BY <1>3, <1>4 DEF UniqueNexts, SameAdvance
<1> QED BY <1>1, <1>2, <1>3, <1>4, <1>5

LEMMA OvertakenKept ==
    ASSUME PlexShape, AdvancesKept, Overtakes, NEW n \in Nat, minted <= n, minted' = n,
           epoch \in Nat, epoch' \in Nat, epoch <= epoch'
    PROVE  AdvancesKept' /\ hooks' \subseteq HooksUpTo(n)
<1>1. /\ hooks' \subseteq HooksUpTo(minted) /\ advances' \subseteq AdvancesUpTo(minted)
      /\ \A h \in hooks' : \E g \in hooks : h.play = g.play /\ h.epoch = g.epoch
      /\ \A b \in advances' : \E a \in advances : b = LateAdvance(a) /\ SameAdvance(a, b)
  BY Overtaken
<1>2. HooksUpTo(minted) \subseteq HooksUpTo(n) /\ AdvancesUpTo(minted) \subseteq AdvancesUpTo(n)
  BY PlaysGrow DEF PlexShape
<1>3. \A h \in hooks : h.epoch \in Nat
  BY DEF PlexShape, HooksUpTo
<1>4. \A a \in advances : a.epoch \in Nat
  BY DEF AdvancesKept, AdvancesUpTo
<1>5. \A h \in hooks' : h.epoch <= epoch'
  BY <1>1, <1>3 DEF AdvancesKept
<1>6. \A a \in advances' : a.epoch <= epoch' /\ (a.pc # "resolve" => a.next.id # 0)
  BY <1>1, <1>4 DEF AdvancesKept, SameAdvance
<1>7. \A a, b \in advances' : a.pc = "confirm" /\ b.pc = "confirm" => a = b
  BY <1>1 DEF AdvancesKept, SameAdvance
<1> QED BY <1>1, <1>2, <1>5, <1>6, <1>7 DEF AdvancesKept

(* A session of ours that ends, or another that starts.                    *)
TellsOfOwner == \A o \in told' : o \in told \/ (o.of = owner /\ Owned("plex"))

LEMMA PlexEmptied ==
    ASSUME PlexShape, SlotPlays, NEW why, Empties(why), minted' = minted
    PROVE  SlotPlays' /\ owner'.by = "none" /\ owner'.gen = 0 /\ gens' = gens /\ TellsOfOwner
<1>1. /\ owner'.by = "none" /\ owner'.gen = 0 /\ owner'.paused \in BOOLEAN /\ SlotShape' /\ gens' = gens
      /\ told' = told \cup Hook(why)
  BY Emptied
<1>2. TellsOfOwner
  BY <1>1, Told DEF TellsOfOwner, Owned, SlotPlays
<1>3. 0 \in 0..gens'
  BY <1>1 DEF PlexShape
<1>4. \A o \in told' : o.of.by = "plex" /\ o.of.req \in PlaysUpTo(minted')
  BY <1>2 DEF SlotPlays, TellsOfOwner, Owned
<1> QED BY <1>1, <1>2, <1>3, <1>4 DEF SlotPlays, Owned

LEMMA PlexTaken ==
    ASSUME PlexShape, SlotPlays, Installs(OtherSession), minted' = minted
    PROVE  SlotPlays' /\ owner'.by = "other" /\ owner'.gen = gens + 1 /\ gens' = gens + 1 /\ TellsOfOwner
<1>1. /\ owner'.by = "other" /\ owner'.gen = gens + 1 /\ owner'.paused \in BOOLEAN /\ SlotShape' /\ gens' = gens + 1
      /\ told' = told \/ told' = told \cup Hook("preempted")
  BY Installed DEF OtherSession
<1>2. TellsOfOwner
  BY <1>1, Told DEF TellsOfOwner, Owned, SlotPlays
<1>3. gens + 1 \in 0..gens'
  BY <1>1 DEF PlexShape
<1>4. \A o \in told' : o.of.by = "plex" /\ o.of.req \in PlaysUpTo(minted')
  BY <1>2 DEF SlotPlays, TellsOfOwner, Owned
<1> QED BY <1>1, <1>2, <1>3, <1>4 DEF SlotPlays, Owned

LEMMA PlexInstalled ==
    ASSUME PlexShape, SlotPlays, NEW p \in PlaysUpTo(minted), Installs(PlexSession(p)), minted' = minted
    PROVE  /\ SlotPlays' /\ owner'.by = "plex" /\ owner'.gen = gens + 1 /\ gens' = gens + 1 /\ owner'.req = p
           /\ TellsOfOwner
<1> DEFINE r == IF p.music THEN <<p.item, p.id>> ELSE <<p.item>>
<1>0. PlexSession(p) = Session("plex", r, p) /\ PlexSession(p).ref = r
  BY DEF PlexSession, Session
<1> HIDE DEF r
<1>1. /\ owner'.by = "plex" /\ owner'.gen = gens + 1 /\ SlotShape' /\ gens' = gens + 1
      /\ owner'.req = p /\ owner'.ref = r /\ owner'.paused \in BOOLEAN
      /\ told' = told \/ told' = told \cup Hook("preempted")
  BY <1>0, Installed
<1>2. TellsOfOwner
  BY <1>1, Told DEF TellsOfOwner, Owned, SlotPlays
<1>3. gens + 1 \in 0..gens'
  BY <1>1 DEF PlexShape
<1>4. \A o \in told' : o.of.by = "plex" /\ o.of.req \in PlaysUpTo(minted')
  BY <1>2 DEF SlotPlays, TellsOfOwner, Owned
<1>5. owner'.ref = PlexSession(owner'.req).ref
  BY <1>0, <1>1
<1>6. SlotPlays'
  BY <1>1, <1>3, <1>4, <1>5 DEF SlotPlays, Owned, PlexSession
<1> QED BY <1>1, <1>2, <1>6

LEMMA FailsKeeps ==
    ASSUME PlexInv, NEW c \in 1..Controllers, Fails(c) PROVE PlexInv'
<1>i. PlexShape /\ SlotPlays /\ AdvancesKept /\ IntentsKept
  BY DEF PlexInv
<1>e. /\ request[c].pc = "lookup"
      /\ request' \in [1..Controllers -> RequestsUpTo(minted)]
      /\ request'[c].pc = "finish" /\ request'[c].play = request[c].play
      /\ \A d \in 1..Controllers : d # c => request'[d] = request[d]
      /\ asked' \in Nat /\ ended' \in Nat
      /\ UNCHANGED <<plexLimit, lastPlay, current, autoAdvance, epoch, intents, hooks, advances,
                     minted, owner, gens, told, slow>>
  BY <1>i, Gone DEF Fails, slotVars, plexState, PlexShape, RequestSteps, Intending
<1>1. PlexShape'
  BY <1>i, <1>e DEF PlexShape
<1>2. SlotPlays'
  BY <1>i, <1>e, SlotStays DEF SlotPlays, Owned
<1>3. AdvancesKept'
  BY <1>i, <1>e DEF AdvancesKept
<1>4. IntentsKept'
  BY <1>i, <1>e, Counted DEF Intending
<1>5. ASSUME ~plexLimit'.together PROVE PlexApart'
  <2>0. ~plexLimit.together /\ PlexApart
    BY <1>e, <1>5 DEF PlexInv
  <2>1. OneRequest'
    BY <1>e, <2>0 DEF PlexApart, OneRequest
  <2>2. IdsKept'
    BY <1>i, <1>e, <2>0, <2>1 DEF PlexApart, OneRequest, IdsKept, UniqueNexts, IsOver, Unstarted,
       Owned
  <2>3. GensKept'
    BY <1>i, <1>e, <2>0 DEF PlexApart, GensKept, IsMine, Owned
  <2>4. PlayKept'
    BY <1>i, <1>e, <2>0, <2>1 DEF PlexApart, OneRequest, PlayKept, IsPending, IsMine, Owned
  <2> QED BY <2>1, <2>2, <2>3, <2>4 DEF PlexApart
<1> QED BY <1>1, <1>2, <1>3, <1>4, <1>5 DEF PlexInv

LEMMA RestorePausedKeeps ==
    ASSUME PlexInv, NEW c \in 1..Controllers, RestorePaused(c) PROVE PlexInv'
<1>i. PlexShape /\ SlotPlays /\ AdvancesKept /\ IntentsKept
  BY DEF PlexInv
<1>e. /\ request[c].pc = "pause"
      /\ request' \in [1..Controllers -> RequestsUpTo(minted)]
      /\ request'[c].pc = "finish" /\ request'[c].play = request[c].play
      /\ \A d \in 1..Controllers : d # c => request'[d] = request[d]
      /\ asked' \in Nat /\ ended' \in Nat
      /\ UNCHANGED <<plexLimit, lastPlay, current, autoAdvance, epoch, intents, hooks, advances,
                     minted, gens, told, slow>>
      /\ SlotShape' /\ owner'.by = owner.by /\ owner'.gen = owner.gen /\ owner'.req = owner.req
      /\ owner'.ref = owner.ref /\ owner'.paused \in BOOLEAN
  <2>1. SlotShape' /\ owner'.by = owner.by /\ owner'.gen = owner.gen /\ owner'.req = owner.req
        /\ owner'.ref = owner.ref /\ owner'.paused \in BOOLEAN
    <3>1. CASE Idle
      BY <1>i, <3>1, SlotStays DEF RestorePaused, SetPaused, SlotPlays
    <3>2. CASE ~Idle
      BY <1>i, <3>2, Paused DEF RestorePaused, SlotPlays
    <3> QED BY <3>1, <3>2
  <2> QED BY <1>i, <2>1, Gone DEF RestorePaused, SetPaused, slotVars, plexState, PlexShape,
     RequestSteps, Intending
<1>1. PlexShape'
  BY <1>i, <1>e DEF PlexShape
<1>2. SlotPlays'
  BY <1>i, <1>e DEF SlotPlays, Owned, Idle
<1>3. AdvancesKept'
  BY <1>i, <1>e DEF AdvancesKept
<1>4. IntentsKept'
  BY <1>i, <1>e, Counted DEF Intending
<1>5. ASSUME ~plexLimit'.together PROVE PlexApart'
  <2>0. ~plexLimit.together /\ PlexApart
    BY <1>e, <1>5 DEF PlexInv
  <2>1. OneRequest'
    BY <1>e, <2>0 DEF PlexApart, OneRequest
  <2>2. IdsKept'
    BY <1>i, <1>e, <2>0, <2>1 DEF PlexApart, OneRequest, IdsKept, UniqueNexts, IsOver, Unstarted,
       Owned
  <2>3. GensKept'
    BY <1>i, <1>e, <2>0 DEF PlexApart, GensKept, IsMine, Owned
  <2>4. PlayKept'
    BY <1>i, <1>e, <2>0, <2>1 DEF PlexApart, OneRequest, PlayKept, IsPending, IsMine, Owned
  <2> QED BY <2>1, <2>2, <2>3, <2>4 DEF PlexApart
<1> QED BY <1>1, <1>2, <1>3, <1>4, <1>5 DEF PlexInv

LEMMA HandlePauseKeeps ==
    ASSUME PlexInv, NEW c \in 1..Controllers, HandlePause(c) PROVE PlexInv'
<1>i. PlexShape /\ SlotPlays /\ AdvancesKept /\ IntentsKept
  BY DEF PlexInv
<1>e. /\ asked' \in Nat /\ ended' \in Nat
      /\ UNCHANGED <<plexLimit, lastPlay, current, autoAdvance, epoch, intents, request, hooks,
                     advances, minted, gens, told, slow>>
      /\ SlotShape' /\ owner'.by = owner.by /\ owner'.gen = owner.gen /\ owner'.req = owner.req
      /\ owner'.ref = owner.ref /\ owner'.paused \in BOOLEAN
  <2>1. owner'.paused = ~owner.paused /\ SlotShape' /\ owner'.by = owner.by /\ owner'.gen = owner.gen
        /\ owner'.req = owner.req /\ owner'.ref = owner.ref
    BY <1>i, Paused DEF HandlePause, SlotPlays
  <2> QED BY <1>i, <2>1 DEF HandlePause, Asks, SetPaused, slotVars, plexState, PlexShape
<1>1. PlexShape'
  BY <1>i, <1>e DEF PlexShape
<1>2. SlotPlays'
  BY <1>i, <1>e DEF SlotPlays, Owned, Idle
<1>3. AdvancesKept'
  BY <1>i, <1>e DEF AdvancesKept
<1>4. IntentsKept'
  BY <1>i, <1>e, SameCount
<1>5. ASSUME ~plexLimit'.together PROVE PlexApart'
  <2>0. ~plexLimit.together /\ PlexApart
    BY <1>e, <1>5 DEF PlexInv
  <2>1. OneRequest'
    BY <1>e, <2>0 DEF PlexApart, OneRequest
  <2>2. IdsKept'
    BY <1>i, <1>e, <2>0, <2>1 DEF PlexApart, OneRequest, IdsKept, UniqueNexts, IsOver, Unstarted,
       Owned
  <2>3. GensKept'
    BY <1>i, <1>e, <2>0 DEF PlexApart, GensKept, IsMine, Owned
  <2>4. PlayKept'
    BY <1>i, <1>e, <2>0, <2>1 DEF PlexApart, OneRequest, PlayKept, IsPending, IsMine, Owned
  <2> QED BY <2>1, <2>2, <2>3, <2>4 DEF PlexApart
<1> QED BY <1>1, <1>2, <1>3, <1>4, <1>5 DEF PlexInv

LEMMA FinishIntentKeeps ==
    ASSUME PlexInv, NEW c \in 1..Controllers, FinishIntent(c) PROVE PlexInv'
<1>i. PlexShape /\ SlotPlays /\ AdvancesKept /\ IntentsKept
  BY DEF PlexInv
<1>e. /\ request[c].pc = "finish" /\ intents' = intents - 1
      /\ request' \in [1..Controllers -> RequestsUpTo(minted)]
      /\ request'[c].pc = "none" /\ \A d \in 1..Controllers : d # c => request'[d] = request[d]
      /\ asked' \in Nat /\ ended' \in Nat
      /\ UNCHANGED <<plexLimit, lastPlay, current, autoAdvance, epoch, hooks, advances, minted, owner,
                     gens, told, slow>>
  BY <1>i, Requested, RestingIsRequest DEF FinishIntent, slotVars, plexState, PlexShape
<1>1. PlexShape'
  BY <1>i, <1>e DEF PlexShape
<1>2. SlotPlays'
  BY <1>i, <1>e, SlotStays DEF SlotPlays, Owned
<1>3. AdvancesKept'
  BY <1>i, <1>e DEF AdvancesKept
<1>4. IntentsKept'
  BY <1>i, <1>e, Counted DEF Intending
<1>5. ASSUME ~plexLimit'.together PROVE PlexApart'
  <2>0. ~plexLimit.together /\ PlexApart
    BY <1>e, <1>5 DEF PlexInv
  <2>1. OneRequest'
    BY <1>e, <2>0 DEF PlexApart, OneRequest
  <2>2. IdsKept'
    BY <1>i, <1>e, <2>0, <2>1 DEF PlexApart, OneRequest, IdsKept, UniqueNexts, IsOver, Unstarted,
       Owned
  <2>3. GensKept'
    BY <1>i, <1>e, <2>0 DEF PlexApart, GensKept, IsMine, Owned
  <2>4. PlayKept'
    BY <1>i, <1>e, <2>0, <2>1 DEF PlexApart, OneRequest, PlayKept, IsPending, IsMine, Owned
  <2> QED BY <2>1, <2>2, <2>3, <2>4 DEF PlexApart
<1> QED BY <1>1, <1>2, <1>3, <1>4, <1>5 DEF PlexInv

LEMMA RememberKeeps ==
    ASSUME PlexInv, NEW c \in 1..Controllers, RememberPlaySession(c) PROVE PlexInv'
<1>i. PlexShape /\ SlotPlays /\ AdvancesKept /\ IntentsKept
  BY DEF PlexInv
<1>e. /\ request[c].pc = "remember"
      /\ request' \in [1..Controllers -> RequestsUpTo(minted)]
      /\ request'[c].pc \in {"pause", "finish"} /\ request'[c].play = request[c].play
      /\ \A d \in 1..Controllers : d # c => request'[d] = request[d]
      /\ asked' \in Nat /\ ended' \in Nat
      /\ epoch' = epoch + 1 /\ lastPlay' = request[c].play /\ current' = lastPlay'.id
      /\ request[c].play \in PlaysUpTo(minted)
      /\ UNCHANGED <<plexLimit, autoAdvance, intents, hooks, advances, minted, owner, gens, told, slow>>
  <2>1. request[c].play \in PlaysUpTo(minted)
    BY <1>i DEF PlexShape, RequestsUpTo
  <2>2. PICK p \in {"pause", "finish"} : Goes(c, p)
    BY DEF RememberPlaySession
  <2>3. p \in RequestSteps
    BY DEF RequestSteps, Intending
  <2>4. /\ request' \in [1..Controllers -> RequestsUpTo(minted)]
        /\ request'[c].pc = p /\ request'[c].play = request[c].play
        /\ \A d \in 1..Controllers : d # c => request'[d] = request[d]
    BY <1>i, <2>2, <2>3, Gone
  <2> QED BY <1>i, <2>1, <2>4 DEF RememberPlaySession, Remember, slotVars, plexState, PlexShape
<1>1. PlexShape'
  BY <1>i, <1>e DEF PlexShape
<1>2. SlotPlays'
  BY <1>i, <1>e, SlotStays DEF SlotPlays, Owned
<1>3. AdvancesKept'
  <2>1. epoch <= epoch' /\ epoch \in Nat /\ epoch' \in Nat
    BY <1>i, <1>e DEF PlexShape
  <2>2. (\A a \in advances : a.epoch \in Nat) /\ (\A h \in hooks : h.epoch \in Nat)
    BY <1>i DEF AdvancesKept, AdvancesUpTo, PlexShape, HooksUpTo
  <2> QED BY <1>i, <1>e, <2>1, <2>2 DEF AdvancesKept
<1>4. IntentsKept'
  BY <1>i, <1>e, Counted DEF Intending
<1>5. ASSUME ~plexLimit'.together PROVE PlexApart'
  <2>0. ~plexLimit.together /\ PlexApart
    BY <1>e, <1>5 DEF PlexInv
  <2>1. OneRequest'
    BY <1>e, <2>0 DEF PlexApart, OneRequest
  <2>2. IdsKept'
    BY <1>i, <1>e, <2>0, <2>1 DEF PlexApart, OneRequest, IdsKept, UniqueNexts, IsOver, Unstarted,
       Owned
  <2>3. GensKept'
    BY <1>i, <1>e, <2>0 DEF PlexApart, GensKept, IsMine, Owned
  <2>4. PlayKept'
    BY <1>i, <1>e, <2>0, <2>1 DEF PlexApart, OneRequest, PlayKept, IsPending, IsMine, Owned
  <2> QED BY <2>1, <2>2, <2>3, <2>4 DEF PlexApart
<1> QED BY <1>1, <1>2, <1>3, <1>4, <1>5 DEF PlexInv

LEMMA CancelPendingKeeps ==
    ASSUME PlexInv, NEW c \in 1..Controllers, CancelPending(c) PROVE PlexInv'
<1>i. PlexShape /\ SlotPlays /\ AdvancesKept /\ IntentsKept
  BY DEF PlexInv
<1>e. /\ request[c].pc = "none" /\ (~plexLimit.together => \A d \in 1..Controllers : request[d].pc = "none")
      /\ request' \in [1..Controllers -> RequestsUpTo(minted)]
      /\ request'[c].pc = "stop" /\ request'[c].play = request[c].play
      /\ \A d \in 1..Controllers : d # c => request'[d] = request[d]
      /\ asked' \in Nat /\ ended' \in Nat
      /\ epoch' = epoch + 1 /\ Overtakes
      /\ UNCHANGED <<plexLimit, lastPlay, current, autoAdvance, intents, minted, owner, gens, told, slow>>
  BY <1>i, Gone DEF CancelPending, Asks, slotVars, plexState, PlexShape, RequestSteps, Intending

<1>o. /\ hooks' \subseteq HooksUpTo(minted') /\ AdvancesKept'
      /\ \A h \in hooks' : \E g \in hooks : h.play = g.play
      /\ (UniqueNexts => UniqueNexts')
      /\ \A b \in advances' : \E a \in advances : SameAdvance(a, b)
      /\ \A a \in advances : \E b \in advances' : SameAdvance(a, b)
  <2>1. Overtakes /\ epoch \in Nat /\ epoch' \in Nat /\ epoch <= epoch' /\ minted \in Nat
        /\ minted' \in Nat /\ minted <= minted'
    BY <1>i, <1>e DEF PlexShape
  <2> QED BY <1>i, <2>1, Overtaken, OvertakenKept
<1>1. PlexShape'
  BY <1>i, <1>e, <1>o DEF PlexShape
<1>2. SlotPlays'
  BY <1>i, <1>e, <1>o, SlotStays DEF SlotPlays, Owned
<1>3. AdvancesKept'
  BY <1>o
<1>4. IntentsKept'
  BY <1>i, <1>e, <1>o, Counted DEF Intending
<1>5. ASSUME ~plexLimit'.together PROVE PlexApart'
  <2>0. ~plexLimit.together /\ PlexApart
    BY <1>e, <1>5 DEF PlexInv
  <2>1. OneRequest'
    BY <1>e, <1>o, <2>0 DEF PlexApart, OneRequest
  <2>2. IdsKept'
    <3>1. \A o : o \in told' => o \in told
      BY <1>e
    <3>2. ASSUME NEW id, IsOver(id)' PROVE IsOver(id)
      BY <3>1, <1>o, <3>2 DEF IsOver
    <3>3. (Owned("plex") => ~IsOver(owner.req.id))'
      BY <1>e, <2>0, <3>2 DEF PlexApart, IdsKept, Owned
    <3>4. \A d \in 1..Controllers : request'[d].pc = "lookup" => request[d].pc = "lookup" /\ request'[d] = request[d]
      BY <1>e
    <3>a. \A q : Unstarted(q) => Unstarted(q)'
      BY <1>e, <3>2 DEF Unstarted, Owned
    <3>5. ASSUME NEW d \in 1..Controllers, request'[d].pc = "lookup"
          PROVE  /\ Unstarted(request[d].play)' /\ request'[d].play.id # 0
                 /\ \A a \in advances' : a.next.id # request'[d].play.id
      <4>1. request[d].pc = "lookup" /\ request'[d] = request[d]
        BY <3>4, <3>5
      <4>2. Unstarted(request[d].play) /\ request[d].play.id # 0 /\ \A a \in advances : a.next.id # request[d].play.id
        BY <2>0, <4>1 DEF PlexApart, IdsKept
      <4>3. \A a \in advances' : a.next.id # request[d].play.id
        BY <1>o, <4>2 DEF SameAdvance
      <4>4. (Unstarted(request[d].play))'
        BY <1>e, <3>2, <4>1, <4>2 DEF Unstarted, Owned
      <4> QED BY <4>1, <4>2, <4>3, <4>4
    <3>6. (\A a \in advances : a.pc \in {"settle", "start"} => Unstarted(a.next))'
      <4>1. \A a \in advances' : a.pc \in {"settle", "start"} => Unstarted(a.next)
        BY <1>o, <2>0 DEF PlexApart, IdsKept, SameAdvance
      <4> QED BY <3>a, <4>1
    <3>7. UniqueNexts'
      BY <1>o, <2>0 DEF PlexApart, IdsKept
    <3> QED BY <3>3, <3>5, <3>6, <3>7 DEF IdsKept
  <2>3. GensKept'
    BY <1>i, <1>e, <1>o, <2>0 DEF PlexApart, GensKept, IsMine, Owned, SameAdvance, Launched
  <2>4. PlayKept'
    BY <1>i, <1>e, <1>o, <2>0, <2>1 DEF PlexApart, OneRequest, PlayKept, IsPending, IsMine,
       Owned, SameAdvance
  <2> QED BY <2>1, <2>2, <2>3, <2>4 DEF PlexApart
<1> QED BY <1>1, <1>2, <1>3, <1>4, <1>5 DEF PlexInv

LEMMA ClearPlaySessionKeeps ==
    ASSUME PlexInv, NEW c \in 1..Controllers, ClearPlaySession(c) PROVE PlexInv'
<1>i. PlexShape /\ SlotPlays /\ AdvancesKept /\ IntentsKept
  BY DEF PlexInv
<1>e. /\ request[c].pc = "clear"
      /\ request' \in [1..Controllers -> RequestsUpTo(minted)]
      /\ request'[c].pc = "none" /\ \A d \in 1..Controllers : d # c => request'[d] = request[d]
      /\ asked' \in Nat /\ ended' \in Nat
      /\ epoch' = epoch + 1 /\ Overtakes
      /\ lastPlay' = NoPlay /\ current' = 0 /\ NoPlay \in PlaysUpTo(minted) /\ NoPlay.id = 0
      /\ UNCHANGED <<plexLimit, autoAdvance, intents, minted, owner, gens, told, slow>>
  BY <1>i, Requested, RestingIsRequest DEF ClearPlaySession, ClearBumps, Forget, Remember,
     slotVars, plexState, PlexShape

<1>o. /\ hooks' \subseteq HooksUpTo(minted') /\ AdvancesKept'
      /\ \A h \in hooks' : \E g \in hooks : h.play = g.play
      /\ (UniqueNexts => UniqueNexts')
      /\ \A b \in advances' : \E a \in advances : SameAdvance(a, b)
      /\ \A a \in advances : \E b \in advances' : SameAdvance(a, b)
  <2>1. Overtakes /\ epoch \in Nat /\ epoch' \in Nat /\ epoch <= epoch' /\ minted \in Nat
        /\ minted' \in Nat /\ minted <= minted'
    BY <1>i, <1>e DEF PlexShape
  <2> QED BY <1>i, <2>1, Overtaken, OvertakenKept
<1>1. PlexShape'
  BY <1>i, <1>e, <1>o DEF PlexShape
<1>2. SlotPlays'
  BY <1>i, <1>e, <1>o, SlotStays DEF SlotPlays, Owned
<1>3. AdvancesKept'
  BY <1>o
<1>4. IntentsKept'
  BY <1>i, <1>e, <1>o, Counted DEF Intending
<1>5. ASSUME ~plexLimit'.together PROVE PlexApart'
  <2>0. ~plexLimit.together /\ PlexApart
    BY <1>e, <1>5 DEF PlexInv
  <2>1. OneRequest'
    BY <1>e, <1>o, <2>0 DEF PlexApart, OneRequest
  <2>2. IdsKept'
    <3>1. \A o : o \in told' => o \in told
      BY <1>e
    <3>2. ASSUME NEW id, IsOver(id)' PROVE IsOver(id)
      BY <3>1, <1>o, <3>2 DEF IsOver
    <3>3. (Owned("plex") => ~IsOver(owner.req.id))'
      BY <1>e, <2>0, <3>2 DEF PlexApart, IdsKept, Owned
    <3>4. \A d \in 1..Controllers : request'[d].pc = "lookup" => request[d].pc = "lookup" /\ request'[d] = request[d]
      BY <1>e
    <3>a. \A q : Unstarted(q) => Unstarted(q)'
      BY <1>e, <3>2 DEF Unstarted, Owned
    <3>5. ASSUME NEW d \in 1..Controllers, request'[d].pc = "lookup"
          PROVE  /\ Unstarted(request[d].play)' /\ request'[d].play.id # 0
                 /\ \A a \in advances' : a.next.id # request'[d].play.id
      <4>1. request[d].pc = "lookup" /\ request'[d] = request[d]
        BY <3>4, <3>5
      <4>2. Unstarted(request[d].play) /\ request[d].play.id # 0 /\ \A a \in advances : a.next.id # request[d].play.id
        BY <2>0, <4>1 DEF PlexApart, IdsKept
      <4>3. \A a \in advances' : a.next.id # request[d].play.id
        BY <1>o, <4>2 DEF SameAdvance
      <4>4. (Unstarted(request[d].play))'
        BY <1>e, <3>2, <4>1, <4>2 DEF Unstarted, Owned
      <4> QED BY <4>1, <4>2, <4>3, <4>4
    <3>6. (\A a \in advances : a.pc \in {"settle", "start"} => Unstarted(a.next))'
      <4>1. \A a \in advances' : a.pc \in {"settle", "start"} => Unstarted(a.next)
        BY <1>o, <2>0 DEF PlexApart, IdsKept, SameAdvance
      <4> QED BY <3>a, <4>1
    <3>7. UniqueNexts'
      BY <1>o, <2>0 DEF PlexApart, IdsKept
    <3> QED BY <3>3, <3>5, <3>6, <3>7 DEF IdsKept
  <2>3. GensKept'
    BY <1>i, <1>e, <1>o, <2>0 DEF PlexApart, GensKept, IsMine, Owned, SameAdvance, Launched
  <2>4. PlayKept'
    BY <1>i, <1>e, <1>o, <2>0, <2>1 DEF PlexApart, OneRequest, PlayKept, IsPending, IsMine,
       Owned, SameAdvance
  <2> QED BY <2>1, <2>2, <2>3, <2>4 DEF PlexApart
<1> QED BY <1>1, <1>2, <1>3, <1>4, <1>5 DEF PlexInv

LEMMA SetAutoAdvanceKeeps ==
    ASSUME PlexInv, NEW c \in 1..Controllers, SetAutoAdvance(c) PROVE PlexInv'
<1>i. PlexShape /\ SlotPlays /\ AdvancesKept /\ IntentsKept
  BY DEF PlexInv
<1>e. /\ autoAdvance' \in BOOLEAN
      /\ asked' \in Nat /\ ended' \in Nat
      /\ \/ epoch' = epoch + 1 /\ Overtakes
         \/ UNCHANGED <<epoch, hooks, advances>>
      /\ UNCHANGED <<plexLimit, lastPlay, current, intents, request, minted, owner, gens, told, slow>>
  BY <1>i DEF SetAutoAdvance, Asks, ClearBumps, slotVars, plexState, PlexShape

<1>o. /\ hooks' \subseteq HooksUpTo(minted') /\ AdvancesKept'
      /\ \A h \in hooks' : \E g \in hooks : h.play = g.play
      /\ (UniqueNexts => UniqueNexts')
      /\ \A b \in advances' : \E a \in advances : SameAdvance(a, b)
      /\ \A a \in advances : \E b \in advances' : SameAdvance(a, b)
  <2>1. CASE Overtakes /\ epoch' = epoch + 1
    <3>1. Overtakes /\ epoch \in Nat /\ epoch' \in Nat /\ epoch <= epoch' /\ minted \in Nat
          /\ minted' \in Nat /\ minted <= minted'
      BY <1>i, <1>e, <2>1 DEF PlexShape
    <3> QED BY <1>i, <3>1, Overtaken, OvertakenKept
  <2>2. CASE UNCHANGED <<epoch, hooks, advances>>
    <3>1. AdvancesKept'
      BY <1>i, <1>e, <2>2 DEF AdvancesKept
    <3>2. /\ \A b \in advances' : \E a \in advances : SameAdvance(a, b)
          /\ \A a \in advances : \E b \in advances' : SameAdvance(a, b)
      BY <2>2 DEF SameAdvance
    <3>3. /\ hooks' \subseteq HooksUpTo(minted')
          /\ \A h \in hooks' : \E g \in hooks : h.play = g.play
      BY <1>i, <1>e, <2>2 DEF PlexShape
    <3>4. UniqueNexts => UniqueNexts'
      BY <2>2 DEF UniqueNexts
    <3> QED BY <3>1, <3>2, <3>3, <3>4
  <2> QED BY <1>e, <2>1, <2>2
<1>1. PlexShape'
  BY <1>i, <1>e, <1>o DEF PlexShape
<1>2. SlotPlays'
  BY <1>i, <1>e, <1>o, SlotStays DEF SlotPlays, Owned
<1>3. AdvancesKept'
  BY <1>o
<1>4. IntentsKept'
  BY <1>i, <1>e, SameCount
<1>5. ASSUME ~plexLimit'.together PROVE PlexApart'
  <2>0. ~plexLimit.together /\ PlexApart
    BY <1>e, <1>5 DEF PlexInv
  <2>1. OneRequest'
    BY <1>e, <1>o, <2>0 DEF PlexApart, OneRequest
  <2>2. IdsKept'
    <3>1. \A o : o \in told' => o \in told
      BY <1>e
    <3>2. ASSUME NEW id, IsOver(id)' PROVE IsOver(id)
      BY <3>1, <1>o, <3>2 DEF IsOver
    <3>3. (Owned("plex") => ~IsOver(owner.req.id))'
      BY <1>e, <2>0, <3>2 DEF PlexApart, IdsKept, Owned
    <3>4. \A d \in 1..Controllers : request'[d].pc = "lookup" => request[d].pc = "lookup" /\ request'[d] = request[d]
      BY <1>e
    <3>a. \A q : Unstarted(q) => Unstarted(q)'
      BY <1>e, <3>2 DEF Unstarted, Owned
    <3>5. ASSUME NEW d \in 1..Controllers, request'[d].pc = "lookup"
          PROVE  /\ Unstarted(request[d].play)' /\ request'[d].play.id # 0
                 /\ \A a \in advances' : a.next.id # request'[d].play.id
      <4>1. request[d].pc = "lookup" /\ request'[d] = request[d]
        BY <3>4, <3>5
      <4>2. Unstarted(request[d].play) /\ request[d].play.id # 0 /\ \A a \in advances : a.next.id # request[d].play.id
        BY <2>0, <4>1 DEF PlexApart, IdsKept
      <4>3. \A a \in advances' : a.next.id # request[d].play.id
        BY <1>o, <4>2 DEF SameAdvance
      <4>4. (Unstarted(request[d].play))'
        BY <1>e, <3>2, <4>1, <4>2 DEF Unstarted, Owned
      <4> QED BY <4>1, <4>2, <4>3, <4>4
    <3>6. (\A a \in advances : a.pc \in {"settle", "start"} => Unstarted(a.next))'
      <4>1. \A a \in advances' : a.pc \in {"settle", "start"} => Unstarted(a.next)
        BY <1>o, <2>0 DEF PlexApart, IdsKept, SameAdvance
      <4> QED BY <3>a, <4>1
    <3>7. UniqueNexts'
      BY <1>o, <2>0 DEF PlexApart, IdsKept
    <3> QED BY <3>3, <3>5, <3>6, <3>7 DEF IdsKept
  <2>3. GensKept'
    BY <1>i, <1>e, <1>o, <2>0 DEF PlexApart, GensKept, IsMine, Owned, SameAdvance, Launched
  <2>4. PlayKept'
    BY <1>i, <1>e, <1>o, <2>0, <2>1 DEF PlexApart, OneRequest, PlayKept, IsPending, IsMine,
       Owned, SameAdvance
  <2> QED BY <2>1, <2>2, <2>3, <2>4 DEF PlexApart
<1> QED BY <1>1, <1>2, <1>3, <1>4, <1>5 DEF PlexInv

LEMMA StopCoreKeeps ==
    ASSUME PlexInv, NEW c \in 1..Controllers, StopCore(c) PROVE PlexInv'
<1>i. PlexShape /\ SlotPlays /\ AdvancesKept /\ IntentsKept
  BY DEF PlexInv
<1>e. /\ request[c].pc = "stop"
      /\ request' \in [1..Controllers -> RequestsUpTo(minted)]
      /\ request'[c].pc = "clear" /\ request'[c].play = request[c].play
      /\ \A d \in 1..Controllers : d # c => request'[d] = request[d]
      /\ asked' \in Nat /\ ended' \in Nat
      /\ UNCHANGED <<plexLimit, lastPlay, current, autoAdvance, epoch, intents, hooks, advances,
                     minted, slow>>
      /\ SlotPlays' /\ TellsOfOwner /\ gens' = gens
      /\ ~Owned("plex")'
      /\ owner' = owner \/ owner'.gen = 0
  <2>1. /\ request[c].pc = "stop"
        /\ asked' \in Nat /\ ended' \in Nat
        /\ UNCHANGED <<plexLimit, lastPlay, current, autoAdvance, epoch, intents, hooks, advances,
                       minted, slow>>
    BY <1>i DEF StopCore, slotVars, plexState, PlexShape
  <2>2. /\ request' \in [1..Controllers -> RequestsUpTo(minted)]
      /\ request'[c].pc = "clear" /\ request'[c].play = request[c].play
      /\ \A d \in 1..Controllers : d # c => request'[d] = request[d]
    BY <1>i, Gone DEF StopCore, RequestSteps
  <2>3. SlotPlays' /\ TellsOfOwner /\ gens' = gens /\ ~Owned("plex")' /\ (owner' = owner \/ owner'.gen = 0)
    <3>1. CASE Idle /\ UNCHANGED <<owner, gens, told>>
      <4>1. ~Owned("plex") /\ minted' = minted
        BY <2>1, <3>1 DEF Idle, Owned
      <4>2. SlotPlays'
        BY <1>i, <3>1, <4>1, SlotStays DEF SlotPlays, Owned
      <4> QED BY <3>1, <4>1, <4>2 DEF Owned, TellsOfOwner
    <3>2. CASE Empties("stopped")
      <4>1. SlotPlays' /\ owner'.by = "none" /\ owner'.gen = 0 /\ gens' = gens /\ TellsOfOwner
        BY <1>i, <2>1, <3>2, PlexEmptied
      <4> QED BY <4>1 DEF Owned
    <3> QED BY <3>1, <3>2 DEF StopCore, Stop, slotVars
  <2> QED BY <2>1, <2>2, <2>3
<1>1. PlexShape'
  BY <1>i, <1>e DEF PlexShape
<1>2. SlotPlays'
  BY <1>e
<1>3. AdvancesKept'
  BY <1>i, <1>e DEF AdvancesKept
<1>4. IntentsKept'
  BY <1>i, <1>e, Counted DEF Intending
<1>5. ASSUME ~plexLimit'.together PROVE PlexApart'
  <2>0. ~plexLimit.together /\ PlexApart
    BY <1>e, <1>5 DEF PlexInv
  <2>1. OneRequest'
    BY <1>e, <2>0 DEF PlexApart, OneRequest
  <2>2. IdsKept'
    BY <1>i, <1>e, <2>0, <2>1 DEF PlexApart, OneRequest, IdsKept, UniqueNexts, IsOver, Unstarted,
       Owned, TellsOfOwner
  <2>3. GensKept'
    BY <1>i, <1>e, <2>0 DEF PlexApart, GensKept, IsMine, Owned, PlexShape, SlotPlays
  <2>4. PlayKept'
    BY <1>i, <1>e, <2>0, <2>1 DEF PlexApart, OneRequest, PlayKept, IsPending, IsMine, Owned
  <2> QED BY <2>1, <2>2, <2>3, <2>4 DEF PlexApart
<1> QED BY <1>1, <1>2, <1>3, <1>4, <1>5 DEF PlexInv

LEMMA EndsKeeps ==
    ASSUME PlexInv, Ends PROVE PlexInv'
<1>i. PlexShape /\ SlotPlays /\ AdvancesKept /\ IntentsKept
  BY DEF PlexInv
<1>e. /\ asked' \in Nat /\ ended' \in Nat
      /\ UNCHANGED <<plexLimit, lastPlay, current, autoAdvance, epoch, intents, request, hooks,
                     advances, minted, slow>>
      /\ SlotPlays' /\ owner'.by = "none" /\ owner'.gen = 0 /\ gens' = gens /\ TellsOfOwner
  <2>1. PICK why : Empties(why)
    BY DEF Ends
  <2>2. /\ asked' \in Nat /\ ended' \in Nat
        /\ UNCHANGED <<plexLimit, lastPlay, current, autoAdvance, epoch, intents, request, hooks,
                       advances, minted, slow>>
    BY <1>i DEF Ends, slotVars, plexState, PlexShape
  <2> QED BY <1>i, <2>1, <2>2, PlexEmptied
<1>1. PlexShape'
  BY <1>i, <1>e DEF PlexShape
<1>2. SlotPlays'
  BY <1>e
<1>3. AdvancesKept'
  BY <1>i, <1>e DEF AdvancesKept
<1>4. IntentsKept'
  BY <1>i, <1>e, SameCount
<1>5. ASSUME ~plexLimit'.together PROVE PlexApart'
  <2>0. ~plexLimit.together /\ PlexApart
    BY <1>e, <1>5 DEF PlexInv
  <2>1. OneRequest'
    BY <1>e, <2>0 DEF PlexApart, OneRequest
  <2>2. IdsKept'
    BY <1>i, <1>e, <2>0, <2>1 DEF PlexApart, OneRequest, IdsKept, UniqueNexts, IsOver, Unstarted,
       Owned, TellsOfOwner
  <2>3. GensKept'
    BY <1>i, <1>e, <2>0 DEF PlexApart, GensKept, IsMine, Owned, PlexShape
  <2>4. PlayKept'
    BY <1>i, <1>e, <2>0, <2>1 DEF PlexApart, OneRequest, PlayKept, IsPending, IsMine, Owned
  <2> QED BY <2>1, <2>2, <2>3, <2>4 DEF PlexApart
<1> QED BY <1>1, <1>2, <1>3, <1>4, <1>5 DEF PlexInv

LEMMA OtherTakesKeeps ==
    ASSUME PlexInv, OtherTakes PROVE PlexInv'
<1>i. PlexShape /\ SlotPlays /\ AdvancesKept /\ IntentsKept
  BY DEF PlexInv
<1>e. /\ asked' \in Nat /\ ended' \in Nat
      /\ UNCHANGED <<plexLimit, lastPlay, current, autoAdvance, epoch, intents, request, hooks,
                     advances, minted, slow>>
      /\ SlotPlays' /\ owner'.by = "other" /\ owner'.gen = gens + 1 /\ gens' = gens + 1 /\ TellsOfOwner
  <2>1. Installs(OtherSession)
    BY DEF OtherTakes
  <2>2. /\ asked' \in Nat /\ ended' \in Nat
        /\ UNCHANGED <<plexLimit, lastPlay, current, autoAdvance, epoch, intents, request, hooks,
                       advances, minted, slow>>
    BY <1>i DEF OtherTakes, slotVars, plexState, PlexShape
  <2> QED BY <1>i, <2>1, <2>2, PlexTaken
<1>1. PlexShape'
  BY <1>i, <1>e DEF PlexShape
<1>2. SlotPlays'
  BY <1>e
<1>3. AdvancesKept'
  BY <1>i, <1>e DEF AdvancesKept
<1>4. IntentsKept'
  BY <1>i, <1>e, SameCount
<1>5. ASSUME ~plexLimit'.together PROVE PlexApart'
  <2>0. ~plexLimit.together /\ PlexApart
    BY <1>e, <1>5 DEF PlexInv
  <2>1. OneRequest'
    BY <1>e, <2>0 DEF PlexApart, OneRequest
  <2>2. IdsKept'
    BY <1>i, <1>e, <2>0, <2>1 DEF PlexApart, OneRequest, IdsKept, UniqueNexts, IsOver, Unstarted,
       Owned, TellsOfOwner
  <2>3. GensKept'
    BY <1>i, <1>e, <2>0 DEF PlexApart, GensKept, IsMine, Owned, PlexShape
  <2>4. PlayKept'
    BY <1>i, <1>e, <2>0, <2>1 DEF PlexApart, OneRequest, PlayKept, IsPending, IsMine, Owned
  <2> QED BY <2>1, <2>2, <2>3, <2>4 DEF PlexApart
<1> QED BY <1>1, <1>2, <1>3, <1>4, <1>5 DEF PlexInv

LEMMA StartSessionKeeps ==
    ASSUME PlexInv, NEW c \in 1..Controllers, StartSession(c) PROVE PlexInv'
<1>i. PlexShape /\ SlotPlays /\ AdvancesKept /\ IntentsKept
  BY DEF PlexInv
<1>e. /\ request[c].pc = "lookup"
      /\ request' \in [1..Controllers -> RequestsUpTo(minted)]
      /\ request'[c].pc = "remember" /\ request'[c].play = request[c].play
      /\ \A d \in 1..Controllers : d # c => request'[d] = request[d]
      /\ asked' \in Nat /\ ended' \in Nat
      /\ UNCHANGED <<plexLimit, lastPlay, current, autoAdvance, epoch, intents, hooks, advances,
                     minted, slow>>
      /\ SlotPlays' /\ owner'.by = "plex" /\ owner'.gen = gens + 1 /\ gens' = gens + 1
      /\ owner'.req = request[c].play /\ TellsOfOwner
  <2>1. /\ request[c].pc = "lookup"
        /\ asked' \in Nat /\ ended' \in Nat
        /\ UNCHANGED <<plexLimit, lastPlay, current, autoAdvance, epoch, intents, hooks, advances,
                       minted, slow>>
    BY <1>i DEF StartSession, slotVars, plexState, PlexShape
  <2>4. /\ request' \in [1..Controllers -> RequestsUpTo(minted)]
      /\ request'[c].pc = "remember" /\ request'[c].play = request[c].play
      /\ \A d \in 1..Controllers : d # c => request'[d] = request[d]
    BY <1>i, Gone DEF StartSession, RequestSteps, Intending
  <2>2. request[c].play \in PlaysUpTo(minted)
    BY <1>i DEF PlexShape, RequestsUpTo
  <2>3. /\ SlotPlays' /\ owner'.by = "plex" /\ owner'.gen = gens + 1 /\ gens' = gens + 1
        /\ owner'.req = request[c].play /\ TellsOfOwner
    <3>1. Installs(PlexSession(request[c].play)) /\ minted' = minted
      BY DEF StartSession, slotVars, plexState
    <3>2. ASSUME NEW p \in PlaysUpTo(minted), Installs(PlexSession(p)), minted' = minted
          PROVE  /\ SlotPlays' /\ owner'.by = "plex" /\ owner'.gen = gens + 1 /\ gens' = gens + 1
                 /\ owner'.req = p /\ TellsOfOwner
      BY <1>i, <3>2, PlexInstalled
    <3> QED BY <2>2, <3>1, <3>2
  <2> QED BY <2>1, <2>3, <2>4
<1>1. PlexShape'
  BY <1>i, <1>e DEF PlexShape
<1>2. SlotPlays'
  BY <1>e
<1>3. AdvancesKept'
  BY <1>i, <1>e DEF AdvancesKept
<1>4. IntentsKept'
  BY <1>i, <1>e, Counted DEF Intending
<1>5. ASSUME ~plexLimit'.together PROVE PlexApart'
  <2>0. ~plexLimit.together /\ PlexApart
    BY <1>e, <1>5 DEF PlexInv
  <2>1. OneRequest'
    BY <1>e, <2>0 DEF PlexApart, OneRequest
  <2>2. IdsKept'
    BY <1>i, <1>e, <2>0, <2>1 DEF PlexApart, OneRequest, IdsKept, UniqueNexts, IsOver, Unstarted,
       Owned, TellsOfOwner
  <2>3. GensKept'
    BY <1>i, <1>e, <2>0 DEF PlexApart, GensKept, IdsKept, IsMine, Owned, PlexShape
  <2>4. PlayKept'
    BY <1>i, <1>e, <2>0, <2>1 DEF PlexApart, OneRequest, PlayKept, IsPending, IsMine, Owned
  <2> QED BY <2>1, <2>2, <2>3, <2>4 DEF PlexApart
<1> QED BY <1>1, <1>2, <1>3, <1>4, <1>5 DEF PlexInv

LEMMA BeginsKeeps ==
    ASSUME PlexInv, NEW c \in 1..Controllers, NEW p \in PlaysUpTo(minted), NEW paused \in BOOLEAN, NEW what,
           Asks(c, what), Begins(c, p, paused)
    PROVE  PlexInv'
<1> DEFINE q == [p EXCEPT !.id = minted + 1]
           r == [pc |-> "lookup", play |-> q, paused |-> paused]
<1>i. PlexShape /\ SlotPlays /\ AdvancesKept /\ IntentsKept
  BY DEF PlexInv
<1>n. minted \in Nat /\ minted' = minted + 1 /\ minted + 1 \in Nat /\ minted <= minted + 1
  BY <1>i DEF Begins, PlexShape
<1>g. /\ PlaysUpTo(minted) \subseteq PlaysUpTo(minted + 1) /\ AdvancesUpTo(minted) \subseteq AdvancesUpTo(minted + 1)
  BY <1>n, PlaysGrow
<1>q. q \in PlaysUpTo(minted + 1) /\ q.id = minted + 1 /\ r.pc = "lookup" /\ r.play = q
  BY <1>n, <1>g DEF PlaysUpTo
<1>r. r \in RequestsUpTo(minted + 1)
  BY <1>q DEF RequestsUpTo, RequestSteps, Intending
<1>s. request' = [request EXCEPT ![c] = r]
  BY <1>n DEF Begins
<1> HIDE DEF q, r
<1>t. /\ request' \in [1..Controllers -> RequestsUpTo(minted + 1)]
      /\ request'[c] = r /\ \A d \in 1..Controllers : d # c => request'[d] = request[d]
  BY <1>i, <1>n, <1>r, <1>s, Requested
<1>e. /\ request[c].pc = "none" /\ (~plexLimit.together => \A d \in 1..Controllers : request[d].pc = "none")
      /\ asked' \in Nat /\ ended' \in Nat /\ intents' = intents + 1
      /\ epoch' = epoch + 1 /\ Overtakes
      /\ UNCHANGED <<plexLimit, lastPlay, current, autoAdvance, owner, gens, told, slow>>
  BY <1>i DEF Begins, Asks, slotVars, PlexShape
<1>o. /\ hooks' \subseteq HooksUpTo(minted') /\ AdvancesKept'
      /\ \A h \in hooks' : \E g \in hooks : h.play = g.play
      /\ (UniqueNexts => UniqueNexts')
      /\ \A b \in advances' : \E a \in advances : SameAdvance(a, b)
      /\ \A a \in advances : \E b \in advances' : SameAdvance(a, b)
  <2>1. Overtakes /\ epoch \in Nat /\ epoch' \in Nat /\ epoch <= epoch'
    BY <1>i, <1>e DEF PlexShape
  <2>2. AdvancesKept' /\ hooks' \subseteq HooksUpTo(minted')
    BY <1>i, <1>n, <2>1, OvertakenKept
  <2> QED BY <1>i, <1>e, <2>2, Overtaken
<1>u. /\ \A o \in told : o.of.req.id # minted + 1
      /\ \A h \in hooks : h.play.id # minted + 1
      /\ \A a \in advances : a.next.id # minted + 1
      /\ Owned("plex") => owner.req.id # minted + 1
  BY <1>i, <1>n DEF SlotPlays, PlexShape, AdvancesKept, HooksUpTo, AdvancesUpTo, PlaysUpTo
<1>1. PlexShape'
  BY <1>i, <1>n, <1>g, <1>t, <1>e, <1>o DEF PlexShape
<1>2. SlotPlays'
  BY <1>i, <1>n, <1>g, <1>e, SlotStays DEF SlotPlays, Owned
<1>3. AdvancesKept'
  BY <1>o
<1>4. IntentsKept'
  BY <1>i, <1>e, <1>t, <1>q, Counted DEF Intending
<1>5. ASSUME ~plexLimit'.together PROVE PlexApart'
  <2>0. ~plexLimit.together /\ PlexApart
    BY <1>e, <1>5 DEF PlexInv
  <2>1. OneRequest'
    BY <1>e, <1>t, <2>0 DEF OneRequest
  <2>2. IdsKept'
    <3>1. \A o : o \in told' => o \in told
      BY <1>e
    <3>2. ASSUME NEW id, IsOver(id)' PROVE IsOver(id)
      BY <3>1, <1>o, <3>2 DEF IsOver
    <3>3. (Owned("plex") => ~IsOver(owner.req.id))'
      BY <1>e, <2>0, <3>2 DEF PlexApart, IdsKept, Owned
    <3>4. \A p1 : Unstarted(p1) => Unstarted(p1)'
      BY <1>e, <3>2 DEF Unstarted, Owned
    <3>5. ASSUME NEW d \in 1..Controllers, request'[d].pc = "lookup"
          PROVE  /\ Unstarted(request[d].play)' /\ request'[d].play.id # 0
                 /\ \A a \in advances' : a.next.id # request'[d].play.id
      <4>1. d = c
        BY <1>e, <1>t, <2>0, <3>5
      <4>2. request'[d].play = q
        BY <1>q, <1>t, <4>1
      <4>3. \A a \in advances' : a.next.id # minted + 1
        BY <1>o, <1>u DEF SameAdvance
      <4>4. Unstarted(q)
        BY <1>q, <1>u DEF Unstarted, IsOver
      <4>5. Unstarted(request[d].play)'
        BY <1>e, <1>q, <1>u, <4>2, <3>2, <4>4 DEF Unstarted, Owned
      <4> QED BY <1>n, <1>q, <4>2, <4>3, <4>5
    <3>6. (\A a \in advances : a.pc \in {"settle", "start"} => Unstarted(a.next))'
      <4>1. \A a \in advances' : a.pc \in {"settle", "start"} => Unstarted(a.next)
        BY <1>o, <2>0 DEF PlexApart, IdsKept, SameAdvance
      <4> QED BY <3>4, <4>1
    <3>7. UniqueNexts'
      BY <1>o, <2>0 DEF PlexApart, IdsKept
    <3> QED BY <3>3, <3>5, <3>6, <3>7 DEF IdsKept
  <2>3. GensKept'
    BY <1>i, <1>e, <1>o, <2>0 DEF PlexApart, GensKept, IsMine, Owned, SameAdvance, Launched
  <2>4. PlayKept'
    BY <1>i, <1>e, <1>o, <1>t, <1>q, <2>0, <2>1 DEF PlexApart, OneRequest, PlayKept, IsPending,
       IsMine, Owned, SameAdvance
  <2> QED BY <2>1, <2>2, <2>3, <2>4 DEF PlexApart
<1> QED BY <1>1, <1>2, <1>3, <1>4, <1>5 DEF PlexInv

LEMMA BeginHandlersKeep ==
    ASSUME PlexInv, NEW c \in 1..Controllers, HandlePlayMedia(c) \/ HandleSeekTo(c) \/ HandleSkip(c)
    PROVE  PlexInv'
<1>1. minted \in Nat /\ lastPlay \in PlaysUpTo(minted) /\ owner.paused \in BOOLEAN
  BY DEF PlexInv, PlexShape, SlotPlays
<1>2. CASE HandlePlayMedia(c)
  <2>1. PICK i \in 1..PlexItems, what \in {"play", "music"} : Asks(c, what) /\ Begins(c, Play(i, what = "music", 0), FALSE)
    BY <1>2 DEF HandlePlayMedia
  <2>2. Play(i, what = "music", 0) \in PlaysUpTo(minted)
    BY <1>1 DEF Play, PlaysUpTo
  <2> QED BY <2>1, <2>2, BeginsKeeps
<1>3. CASE HandleSeekTo(c)
  BY <1>1, <1>3, BeginsKeeps DEF HandleSeekTo
<1>4. CASE HandleSkip(c)
  <2>1. PICK d \in Skips : Asks(c, "skip") /\ Begins(c, [lastPlay EXCEPT !.item = @ + d], owner.paused)
    BY <1>4 DEF HandleSkip
  <2>2. [lastPlay EXCEPT !.item = @ + d] \in PlaysUpTo(minted)
    BY <1>1 DEF PlaysUpTo, Skips
  <2> QED BY <1>1, <2>1, <2>2, BeginsKeeps
<1> QED BY <1>2, <1>3, <1>4

LEMMA BeginHookKeeps ==
    ASSUME PlexInv, BeginHook PROVE PlexInv'
<1>i. PlexShape /\ SlotPlays /\ AdvancesKept /\ IntentsKept
  BY DEF PlexInv
<1>o. PICK o \in told : /\ told' = told \ {o}
                      /\ hooks' = hooks \cup
                           {[play |-> o.of.req, epoch |-> epoch, late |-> FALSE,
                             advance |-> o.why = "eof" /\ current = o.of.req.id /\ StillCurrent(epoch)]}
  BY DEF BeginHook
<1> DEFINE k == [play |-> o.of.req, epoch |-> epoch, late |-> FALSE,
                 advance |-> o.why = "eof" /\ current = o.of.req.id /\ StillCurrent(epoch)]
<1>k. k.play = o.of.req /\ k.epoch = epoch /\ k \in HooksUpTo(minted)
  <2>1. o.of.req \in PlaysUpTo(minted) /\ epoch \in Nat
    BY <1>i DEF SlotPlays, PlexShape
  <2> QED BY <2>1 DEF HooksUpTo
<1>h. hooks' = hooks \cup {k}
  BY <1>o
<1> HIDE DEF k
<1>e. /\ asked' \in Nat /\ ended' \in Nat
      /\ UNCHANGED <<plexLimit, lastPlay, current, autoAdvance, epoch, intents, request, advances,
                     minted, owner, gens, slow>>
  BY <1>i DEF BeginHook, slotVars, plexState, PlexShape
<1>t. \A x \in told' : x \in told
  BY <1>o
<1>v. ASSUME NEW id, IsOver(id)' PROVE IsOver(id)
  BY <1>h, <1>k, <1>o, <1>v DEF IsOver
<1>1. PlexShape'
  BY <1>i, <1>e, <1>h, <1>k, <1>t DEF PlexShape
<1>2. SlotPlays'
  BY <1>i, <1>e, <1>h, <1>k, <1>t, SlotStays DEF SlotPlays, Owned
<1>3. AdvancesKept'
  <2>1. \A h \in hooks' : h.epoch <= epoch
    BY <1>i, <1>h, <1>k DEF AdvancesKept, PlexShape
  <2> QED BY <1>i, <1>e, <2>1 DEF AdvancesKept
<1>4. IntentsKept'
  BY <1>i, <1>e, SameCount
<1>5. ASSUME ~plexLimit'.together PROVE PlexApart'
  <2>0. ~plexLimit.together /\ PlexApart
    BY <1>e, <1>5 DEF PlexInv
  <2>1. OneRequest'
    BY <1>e, <1>h, <1>k, <1>t, <2>0 DEF PlexApart, OneRequest
  <2>2. IdsKept'
    <3>1. \A q : Unstarted(q) => Unstarted(q)'
      BY <1>e, <1>v DEF Unstarted, Owned
    <3>2. Owned("plex") => ~IsOver(owner.req.id)
      BY <2>0 DEF PlexApart, IdsKept
    <3>3. (Owned("plex") => ~IsOver(owner.req.id))'
      BY <1>e, <1>v, <3>2 DEF Owned
    <3>4. \A c \in 1..Controllers : (request[c].pc = "lookup" =>
             /\ Unstarted(request[c].play) /\ request[c].play.id # 0
             /\ \A a \in advances : a.next.id # request[c].play.id)'
      <4>1. ASSUME NEW c \in 1..Controllers, request'[c].pc = "lookup"
            PROVE  /\ Unstarted(request[c].play)' /\ request'[c].play.id # 0
                   /\ \A a \in advances' : a.next.id # request'[c].play.id
        <5>1. Unstarted(request[c].play)
          BY <1>e, <2>0, <4>1 DEF PlexApart, IdsKept
        <5>2. Unstarted(request[c].play)'
          BY <1>e, <1>v, <5>1 DEF Unstarted, Owned
        <5> QED BY <1>e, <2>0, <4>1, <5>2 DEF PlexApart, IdsKept
      <4> QED BY <4>1
    <3>5. (\A a \in advances : a.pc \in {"settle", "start"} => Unstarted(a.next))'
      BY <1>e, <2>0, <3>1 DEF PlexApart, IdsKept
    <3>6. UniqueNexts'
      BY <1>e, <2>0 DEF PlexApart, IdsKept, UniqueNexts
    <3> QED BY <3>3, <3>4, <3>5, <3>6 DEF IdsKept
  <2>3. GensKept'
    BY <1>i, <1>e, <1>h, <1>k, <1>t, <2>0 DEF PlexApart, GensKept, IsMine, Owned
  <2>4. PlayKept'
    BY <1>i, <1>e, <1>h, <1>k, <1>t, <2>0, <2>1 DEF PlexApart, OneRequest, PlayKept, IsPending,
       IsMine, Owned
  <2> QED BY <2>1, <2>2, <2>3, <2>4 DEF PlexApart
<1> QED BY <1>1, <1>2, <1>3, <1>4, <1>5 DEF PlexInv

LEMMA EndHookKeeps ==
    ASSUME PlexInv, NEW h \in hooks, EndHook(h) PROVE PlexInv'
<1>i. PlexShape /\ SlotPlays /\ AdvancesKept /\ IntentsKept
  BY DEF PlexInv
<1> DEFINE k == Advance(h)
<1>k. k.pc = "resolve" /\ k.epoch = h.epoch /\ k.next = NoPlay /\ k \in AdvancesUpTo(minted) /\ NoPlay.id = 0
  <2>1. h \in HooksUpTo(minted) /\ minted \in Nat
    BY <1>i DEF PlexShape
  <2> QED BY <2>1, RestingIsRequest DEF Advance, HooksUpTo, AdvancesUpTo, AdvanceSteps, Launched
<1>h. advances' = advances \/ advances' = advances \cup {k}
  BY DEF EndHook
<1> HIDE DEF k
<1>e. /\ asked' \in Nat /\ ended' \in Nat /\ hooks' = hooks \ {h}
      /\ \/ UNCHANGED <<lastPlay, current>>
         \/ lastPlay' = NoPlay /\ current' = 0 /\ lastPlay.id = h.play.id
      /\ NoPlay \in PlaysUpTo(minted) /\ NoPlay.id = 0
      /\ UNCHANGED <<plexLimit, autoAdvance, epoch, intents, request, minted, owner, gens, told, slow>>
  BY <1>i, RestingIsRequest DEF EndHook, ForgetIf, Forget, Remember, slotVars, PlexShape
<1>v. ASSUME NEW id, IsOver(id)' PROVE IsOver(id)
  BY <1>e, <1>v DEF IsOver
<1>1. PlexShape'
  BY <1>i, <1>e, <1>h, <1>k DEF PlexShape
<1>2. SlotPlays'
  BY <1>i, <1>e, <1>h, <1>k, SlotStays DEF SlotPlays, Owned
<1>3. AdvancesKept'
  BY <1>i, <1>e, <1>h, <1>k DEF AdvancesKept
<1>4. IntentsKept'
  BY <1>i, <1>e, SameCount
<1>5. ASSUME ~plexLimit'.together PROVE PlexApart'
  <2>0. ~plexLimit.together /\ PlexApart
    BY <1>e, <1>5 DEF PlexInv
  <2>1. OneRequest'
    BY <1>e, <1>h, <1>k, <2>0 DEF PlexApart, OneRequest
  <2>2. IdsKept'
    <3>1. \A q : Unstarted(q) => Unstarted(q)'
      BY <1>e, <1>v DEF Unstarted, Owned
    <3>2. Owned("plex") => ~IsOver(owner.req.id)
      BY <2>0 DEF PlexApart, IdsKept
    <3>3. (Owned("plex") => ~IsOver(owner.req.id))'
      BY <1>e, <1>v, <3>2 DEF Owned
    <3>4. \A c \in 1..Controllers : (request[c].pc = "lookup" =>
             /\ Unstarted(request[c].play) /\ request[c].play.id # 0
             /\ \A a \in advances : a.next.id # request[c].play.id)'
      <4>1. ASSUME NEW c \in 1..Controllers, request'[c].pc = "lookup"
            PROVE  /\ Unstarted(request[c].play)' /\ request'[c].play.id # 0
                   /\ \A a \in advances' : a.next.id # request'[c].play.id
        <5>1. Unstarted(request[c].play)
          BY <1>e, <2>0, <4>1 DEF PlexApart, IdsKept
        <5>2. Unstarted(request[c].play)'
          BY <1>e, <1>v, <5>1 DEF Unstarted, Owned
        <5> QED BY <1>e, <1>h, <1>k, <2>0, <4>1, <5>2 DEF PlexApart, IdsKept
      <4> QED BY <4>1
    <3>5. (\A a \in advances : a.pc \in {"settle", "start"} => Unstarted(a.next))'
      BY <1>e, <1>h, <1>k, <2>0, <3>1 DEF PlexApart, IdsKept
    <3>6. UniqueNexts'
      BY <1>i, <1>e, <1>h, <1>k, <2>0 DEF PlexApart, IdsKept, UniqueNexts, AdvancesKept
    <3> QED BY <3>3, <3>4, <3>5, <3>6 DEF IdsKept
  <2>3. GensKept'
    BY <1>i, <1>e, <1>h, <1>k, <2>0 DEF PlexApart, GensKept, IsMine, Owned, Launched
  <2>4. PlayKept'
    <3>1. Owned("plex") => ~\E x \in hooks : x.play.id = owner.req.id
      BY <2>0 DEF PlexApart, IdsKept, IsOver
    <3>2. Owned("plex") /\ lastPlay = owner.req => lastPlay' = lastPlay
      BY <1>e, <3>1
    <3> QED BY <1>e, <1>h, <1>k, <2>0, <3>2 DEF PlexApart, PlayKept, IsPending, IsMine, Owned
  <2> QED BY <2>1, <2>2, <2>3, <2>4 DEF PlexApart
<1> QED BY <1>1, <1>2, <1>3, <1>4, <1>5 DEF PlexInv

LEMMA StandsDownKeeps ==
    ASSUME PlexInv, NEW a \in advances, StandsDown(a), a.pc \notin {"commit", "abandon"},
           asked' \in Nat, ended' \in Nat,
           UNCHANGED <<plexLimit, lastPlay, current, autoAdvance, epoch, intents, request, hooks,
                       minted, owner, gens, told, slow>>
    PROVE PlexInv'
<1>i. PlexShape /\ SlotPlays /\ AdvancesKept /\ IntentsKept
  BY DEF PlexInv
<1>e. /\ advances' = advances \ {a} /\ a.pc \notin {"commit", "abandon"}
      /\ asked' \in Nat /\ ended' \in Nat
      /\ UNCHANGED <<plexLimit, lastPlay, current, autoAdvance, epoch, intents, request, hooks, minted,
                     owner, gens, told, slow>>
  BY DEF StandsDown
<1>v. ASSUME NEW id, IsOver(id)' PROVE IsOver(id)
  BY <1>e, <1>v DEF IsOver
<1>1. PlexShape'
  BY <1>i, <1>e DEF PlexShape
<1>2. SlotPlays'
  BY <1>i, <1>e, SlotStays DEF SlotPlays, Owned
<1>3. AdvancesKept'
  BY <1>i, <1>e DEF AdvancesKept
<1>4. IntentsKept'
  BY <1>i, <1>e, SameCount
<1>5. ASSUME ~plexLimit'.together PROVE PlexApart'
  <2>0. ~plexLimit.together /\ PlexApart
    BY <1>e, <1>5 DEF PlexInv
  <2>1. OneRequest'
    BY <1>e, <2>0 DEF PlexApart, OneRequest
  <2>2. IdsKept'
    <3>1. \A q : Unstarted(q) => Unstarted(q)'
      BY <1>e, <1>v DEF Unstarted, Owned
    <3>2. Owned("plex") => ~IsOver(owner.req.id)
      BY <2>0 DEF PlexApart, IdsKept
    <3>3. (Owned("plex") => ~IsOver(owner.req.id))'
      BY <1>e, <1>v, <3>2 DEF Owned
    <3>4. \A c \in 1..Controllers : (request[c].pc = "lookup" =>
             /\ Unstarted(request[c].play) /\ request[c].play.id # 0
             /\ \A x \in advances : x.next.id # request[c].play.id)'
      <4>1. ASSUME NEW c \in 1..Controllers, request'[c].pc = "lookup"
            PROVE  /\ Unstarted(request[c].play)' /\ request'[c].play.id # 0
                   /\ \A x \in advances' : x.next.id # request'[c].play.id
        <5>1. Unstarted(request[c].play)
          BY <1>e, <2>0, <4>1 DEF PlexApart, IdsKept
        <5>2. Unstarted(request[c].play)'
          BY <1>e, <1>v, <5>1 DEF Unstarted, Owned
        <5> QED BY <1>e, <2>0, <4>1, <5>2 DEF PlexApart, IdsKept
      <4> QED BY <4>1
    <3>5. (\A x \in advances : x.pc \in {"settle", "start"} => Unstarted(x.next))'
      BY <1>e, <2>0, <3>1 DEF PlexApart, IdsKept
    <3>6. UniqueNexts'
      BY <1>i, <1>e, <2>0 DEF PlexApart, IdsKept, UniqueNexts, AdvancesKept
    <3> QED BY <3>3, <3>4, <3>5, <3>6 DEF IdsKept
  <2>3. GensKept'
    BY <1>i, <1>e, <2>0 DEF PlexApart, GensKept, IsMine, Owned
  <2>4. PlayKept'
    BY <1>i, <1>e, <2>0, <2>1 DEF PlexApart, OneRequest, PlayKept, IsPending, IsMine, Owned
  <2> QED BY <2>1, <2>2, <2>3, <2>4 DEF PlexApart
<1> QED BY <1>1, <1>2, <1>3, <1>4, <1>5 DEF PlexInv

LEMMA SettlesKeeps ==
    ASSUME PlexInv, NEW a \in advances, Moves(a, [a EXCEPT !.pc = "start"]), a.pc = "settle",
           asked' \in Nat, ended' \in Nat,
           UNCHANGED <<plexLimit, lastPlay, current, autoAdvance, epoch, intents, request, hooks,
                       minted, owner, gens, told, slow>>
    PROVE PlexInv'
<1>i. PlexShape /\ SlotPlays /\ AdvancesKept /\ IntentsKept
  BY DEF PlexInv
<1> DEFINE b == [a EXCEPT !.pc = "start"]
<1>n. gens \in Nat /\ gens + 1 \in Nat
  BY <1>i DEF PlexShape
<1>b. b \in AdvancesUpTo(minted) /\ b.pc = "start" /\ b.epoch = a.epoch /\ b.next = a.next /\ b.gen = a.gen
  <2>1. a \in AdvancesUpTo(minted)
    BY <1>i DEF AdvancesKept
  <2> QED BY <1>n, <2>1 DEF AdvancesUpTo, AdvanceSteps, Launched
<1>h. advances' = (advances \ {a}) \cup {b}
  BY DEF Moves
<1> HIDE DEF b
<1>e. /\ a.pc = "settle" /\ asked' \in Nat /\ ended' \in Nat
      /\ UNCHANGED <<plexLimit, lastPlay, current, autoAdvance, epoch, intents, request, hooks, minted,
                     owner, gens, told, slow>>
  OBVIOUS
<1>v. ASSUME NEW id, IsOver(id)' PROVE IsOver(id)
  BY <1>e, <1>v DEF IsOver
<1>1. PlexShape'
  BY <1>i, <1>e, <1>b, <1>h DEF PlexShape
<1>2. SlotPlays'
  BY <1>i, <1>e, <1>b, <1>h, SlotStays DEF SlotPlays, Owned
<1>3. AdvancesKept'
  BY <1>i, <1>e, <1>b, <1>h DEF AdvancesKept
<1>4. IntentsKept'
  BY <1>i, <1>e, SameCount
<1>5. ASSUME ~plexLimit'.together PROVE PlexApart'
  <2>0. ~plexLimit.together /\ PlexApart
    BY <1>e, <1>5 DEF PlexInv
  <2>1. OneRequest'
    BY <1>e, <1>b, <1>h, <2>0 DEF PlexApart, OneRequest
  <2>2. IdsKept'
    <3>1. \A q : Unstarted(q) => Unstarted(q)'
      BY <1>e, <1>v DEF Unstarted, Owned
    <3>2. Owned("plex") => ~IsOver(owner.req.id)
      BY <2>0 DEF PlexApart, IdsKept
    <3>3. (Owned("plex") => ~IsOver(owner.req.id))'
      BY <1>e, <1>v, <3>2 DEF Owned
    <3>4. \A c \in 1..Controllers : (request[c].pc = "lookup" =>
             /\ Unstarted(request[c].play) /\ request[c].play.id # 0
             /\ \A x \in advances : x.next.id # request[c].play.id)'
      <4>1. ASSUME NEW c \in 1..Controllers, request'[c].pc = "lookup"
            PROVE  /\ Unstarted(request[c].play)' /\ request'[c].play.id # 0
                   /\ \A x \in advances' : x.next.id # request'[c].play.id
        <5>1. Unstarted(request[c].play)
          BY <1>e, <2>0, <4>1 DEF PlexApart, IdsKept
        <5>2. Unstarted(request[c].play)'
          BY <1>e, <1>v, <5>1 DEF Unstarted, Owned
        <5> QED BY <1>e, <1>b, <1>h, <2>0, <4>1, <5>2 DEF PlexApart, IdsKept
      <4> QED BY <4>1
    <3>5. (\A x \in advances : x.pc \in {"settle", "start"} => Unstarted(x.next))'
      BY <1>e, <1>b, <1>h, <2>0, <3>1 DEF PlexApart, IdsKept
    <3>6. UniqueNexts'
      BY <1>i, <1>e, <1>b, <1>h, <2>0 DEF PlexApart, IdsKept, UniqueNexts, AdvancesKept
    <3> QED BY <3>3, <3>4, <3>5, <3>6 DEF IdsKept
  <2>3. GensKept'
    BY <1>i, <1>e, <1>b, <1>h, <2>0 DEF PlexApart, GensKept, IsMine, Owned, Launched
  <2>4. PlayKept'
    BY <1>i, <1>e, <1>b, <1>h, <2>0, <2>1 DEF PlexApart, OneRequest, PlayKept, IsPending, IsMine,
       Owned
  <2> QED BY <2>1, <2>2, <2>3, <2>4 DEF PlexApart
<1> QED BY <1>1, <1>2, <1>3, <1>4, <1>5 DEF PlexInv

LEMMA ResolvesKeeps ==
    ASSUME PlexInv, NEW a \in advances, a.pc = "resolve", minted' = minted + 1,
           Moves(a, [a EXCEPT !.pc = "settle", !.next = [a.from EXCEPT !.item = @ + 1, !.id = minted']]),
           asked' \in Nat, ended' \in Nat,
           UNCHANGED <<plexLimit, lastPlay, current, autoAdvance, epoch, intents, request, hooks,
                       owner, gens, told, slow>>
    PROVE PlexInv'
<1>i. PlexShape /\ SlotPlays /\ AdvancesKept /\ IntentsKept
  BY DEF PlexInv
<1> DEFINE p == [a.from EXCEPT !.item = @ + 1, !.id = minted + 1]
           b == [a EXCEPT !.pc = "settle", !.next = p]
<1>h. advances' = (advances \ {a}) \cup {b}
  BY DEF Moves
<1>n. minted \in Nat /\ minted' = minted + 1 /\ minted + 1 \in Nat /\ minted <= minted + 1
  BY <1>i DEF PlexShape
<1>g. /\ PlaysUpTo(minted) \subseteq PlaysUpTo(minted + 1) /\ AdvancesUpTo(minted) \subseteq AdvancesUpTo(minted + 1)
      /\ RequestsUpTo(minted) \subseteq RequestsUpTo(minted + 1) /\ HooksUpTo(minted) \subseteq HooksUpTo(minted + 1)
  BY <1>n, PlaysGrow
<1>a. a \in AdvancesUpTo(minted + 1) /\ a.from \in PlaysUpTo(minted + 1)
  BY <1>i, <1>g DEF AdvancesKept, AdvancesUpTo
<1>p. p \in PlaysUpTo(minted + 1) /\ p.id = minted + 1
  <2>1. ASSUME NEW f \in PlaysUpTo(minted + 1)
        PROVE  /\ [f EXCEPT !.item = @ + 1, !.id = minted + 1] \in PlaysUpTo(minted + 1)
               /\ [f EXCEPT !.item = @ + 1, !.id = minted + 1].id = minted + 1
    <3> DEFINE g == [f EXCEPT !.item = @ + 1]
    <3>1. [f EXCEPT !.item = @ + 1, !.id = minted + 1] = [g EXCEPT !.id = minted + 1]
      OBVIOUS
    <3>2. g \in PlaysUpTo(minted + 1)
      BY DEF PlaysUpTo
    <3> HIDE DEF g
    <3>3. [g EXCEPT !.id = minted + 1] \in PlaysUpTo(minted + 1) /\ [g EXCEPT !.id = minted + 1].id = minted + 1
      BY <1>n, <3>2 DEF PlaysUpTo
    <3> QED BY <3>1, <3>3
  <2> QED BY <1>a, <2>1
<1> HIDE DEF p
<1>b. b \in AdvancesUpTo(minted + 1) /\ b.pc = "settle" /\ b.epoch = a.epoch /\ b.next = p
  BY <1>a, <1>p DEF AdvancesUpTo, AdvanceSteps, Launched
<1> HIDE DEF b
<1>e. /\ a.pc = "resolve" /\ asked' \in Nat /\ ended' \in Nat
      /\ UNCHANGED <<plexLimit, lastPlay, current, autoAdvance, epoch, intents, request, hooks, owner,
                     gens, told, slow>>
  OBVIOUS
<1>u. /\ \A o \in told : o.of.req.id # minted + 1
      /\ \A h \in hooks : h.play.id # minted + 1
      /\ \A x \in advances : x.next.id # minted + 1
      /\ \A c \in 1..Controllers : request[c].play.id # minted + 1
      /\ Owned("plex") => owner.req.id # minted + 1
  <2>1. \A f \in PlaysUpTo(minted) : f.id # minted + 1
    BY <1>n DEF PlaysUpTo
  <2>2. /\ \A o \in told : o.of.req \in PlaysUpTo(minted)
        /\ Owned("plex") => owner.req \in PlaysUpTo(minted)
    BY <1>i DEF SlotPlays
  <2>3. \A h \in hooks : h.play \in PlaysUpTo(minted)
    BY <1>i DEF PlexShape, HooksUpTo
  <2>4. \A x \in advances : x.next \in PlaysUpTo(minted)
    BY <1>i DEF AdvancesKept, AdvancesUpTo
  <2>5. \A c \in 1..Controllers : request[c].play \in PlaysUpTo(minted)
    BY <1>i DEF PlexShape, RequestsUpTo
  <2> QED BY <2>1, <2>2, <2>3, <2>4, <2>5
<1>w. Unstarted(p)
  BY <1>p, <1>u DEF Unstarted, IsOver
<1>v. ASSUME NEW id, IsOver(id)' PROVE IsOver(id)
  BY <1>e, <1>v DEF IsOver
<1>1. PlexShape'
  BY <1>i, <1>e, <1>b, <1>h, <1>n, <1>g, <1>p, <1>u, <1>w DEF PlexShape
<1>2. SlotPlays'
  BY <1>i, <1>e, <1>b, <1>h, <1>n, <1>g, <1>p, <1>u, <1>w, SlotStays DEF SlotPlays, Owned
<1>3. AdvancesKept'
  <2>1. advances' \subseteq AdvancesUpTo(minted')
    BY <1>i, <1>n, <1>g, <1>b, <1>h DEF AdvancesKept
  <2>2. \A x \in advances' : x.epoch <= epoch' /\ (x.pc # "resolve" => x.next.id # 0)
    BY <1>i, <1>n, <1>e, <1>b, <1>h, <1>p DEF AdvancesKept
  <2> QED BY <1>i, <1>e, <1>b, <1>h, <2>1, <2>2 DEF AdvancesKept
<1>4. IntentsKept'
  BY <1>i, <1>e, SameCount
<1>5. ASSUME ~plexLimit'.together PROVE PlexApart'
  <2>0. ~plexLimit.together /\ PlexApart
    BY <1>e, <1>5 DEF PlexInv
  <2>1. OneRequest'
    BY <1>e, <1>b, <1>h, <1>n, <1>g, <1>p, <1>u, <1>w, <2>0 DEF PlexApart, OneRequest
  <2>2. IdsKept'
    <3>1. \A q : Unstarted(q) => Unstarted(q)'
      BY <1>e, <1>v DEF Unstarted, Owned
    <3>2. Owned("plex") => ~IsOver(owner.req.id)
      BY <2>0 DEF PlexApart, IdsKept
    <3>3. (Owned("plex") => ~IsOver(owner.req.id))'
      BY <1>e, <1>v, <3>2 DEF Owned
    <3>4. \A c \in 1..Controllers : (request[c].pc = "lookup" =>
             /\ Unstarted(request[c].play) /\ request[c].play.id # 0
             /\ \A x \in advances : x.next.id # request[c].play.id)'
      <4>1. ASSUME NEW c \in 1..Controllers, request'[c].pc = "lookup"
            PROVE  /\ Unstarted(request[c].play)' /\ request'[c].play.id # 0
                   /\ \A x \in advances' : x.next.id # request'[c].play.id
        <5>1. Unstarted(request[c].play)
          BY <1>e, <2>0, <4>1 DEF PlexApart, IdsKept
        <5>2. Unstarted(request[c].play)'
          BY <1>e, <1>v, <5>1 DEF Unstarted, Owned
        <5> QED BY <1>e, <1>b, <1>h, <1>p, <1>u, <1>w, <2>0, <4>1, <5>2 DEF PlexApart, IdsKept
      <4> QED BY <4>1
    <3>5. (\A x \in advances : x.pc \in {"settle", "start"} => Unstarted(x.next))'
      BY <1>e, <1>b, <1>h, <1>p, <1>u, <1>w, <2>0, <3>1 DEF PlexApart, IdsKept
    <3>6. UniqueNexts'
      BY <1>i, <1>e, <1>b, <1>h, <1>p, <1>u, <1>w, <2>0 DEF PlexApart, IdsKept, UniqueNexts,
         AdvancesKept
    <3> QED BY <3>3, <3>4, <3>5, <3>6 DEF IdsKept
  <2>3. GensKept'
    BY <1>i, <1>e, <1>b, <1>h, <2>0 DEF PlexApart, GensKept, IsMine, Owned, Launched
  <2>4. PlayKept'
    BY <1>i, <1>e, <1>b, <1>h, <2>0 DEF PlexApart, PlayKept, IsPending, IsMine, Owned
  <2> QED BY <2>1, <2>2, <2>3, <2>4 DEF PlexApart
<1> QED BY <1>1, <1>2, <1>3, <1>4, <1>5 DEF PlexInv

LEMMA StartIfIdleSucceedsKeeps ==
    ASSUME PlexInv, NEW a \in advances, Idle, a.pc = "start", Installs(PlexSession(a.next)),
           Moves(a, [a EXCEPT !.pc = "commit", !.gen = gens']), asked' \in Nat, ended' \in Nat,
           UNCHANGED <<plexLimit, lastPlay, current, autoAdvance, epoch, intents, request, hooks,
                       minted, slow>>
    PROVE PlexInv'
<1>i. PlexShape /\ SlotPlays /\ AdvancesKept /\ IntentsKept
  BY DEF PlexInv
<1>n. gens \in Nat /\ gens + 1 \in Nat
  BY <1>i DEF PlexShape
<1>c. PICK b : /\ b = [a EXCEPT !.pc = "commit", !.gen = gens + 1]
               /\ b \in AdvancesUpTo(minted) /\ b.pc = "commit" /\ b.epoch = a.epoch /\ b.next = a.next
               /\ b.gen = gens + 1
  <2> DEFINE d == [a EXCEPT !.pc = "commit", !.gen = gens + 1]
  <2>1. a \in AdvancesUpTo(minted)
    BY <1>i DEF AdvancesKept
  <2>2. d \in AdvancesUpTo(minted) /\ d.pc = "commit" /\ d.epoch = a.epoch /\ d.next = a.next /\ d.gen = gens + 1
    BY <1>n, <2>1 DEF AdvancesUpTo, AdvanceSteps, Launched
  <2> HIDE DEF d
  <2>3. d = [a EXCEPT !.pc = "commit", !.gen = gens + 1]
    BY DEF d
  <2> QED BY <2>2, <2>3
<1>a. a.next \in PlaysUpTo(minted)
  BY <1>i DEF AdvancesKept, AdvancesUpTo
<1>s. /\ SlotPlays' /\ owner'.by = "plex" /\ owner'.gen = gens + 1 /\ gens' = gens + 1 /\ owner'.req = a.next
      /\ TellsOfOwner
  <2>1. ASSUME NEW p \in PlaysUpTo(minted), Installs(PlexSession(p)), minted' = minted
        PROVE  /\ SlotPlays' /\ owner'.by = "plex" /\ owner'.gen = gens + 1 /\ gens' = gens + 1
               /\ owner'.req = p /\ TellsOfOwner
    BY <1>i, <2>1, PlexInstalled
  <2> QED BY <1>a, <2>1
<1>h. advances' = (advances \ {a}) \cup {b}
  BY <1>c, <1>s DEF Moves
<1>b. /\ b \in AdvancesUpTo(minted) /\ b.pc = "commit" /\ b.epoch = a.epoch /\ b.next = a.next
      /\ b.gen = gens + 1
  BY <1>c
<1>e. /\ a.pc = "start" /\ asked' \in Nat /\ ended' \in Nat
      /\ UNCHANGED <<plexLimit, lastPlay, current, autoAdvance, epoch, intents, request, hooks, minted,
                     slow>>
  OBVIOUS
<1>t. ~Owned("plex") /\ \A o \in told' : o \in told
  BY <1>s DEF Idle, Owned, TellsOfOwner
<1>v. ASSUME NEW id, IsOver(id)' PROVE IsOver(id)
  BY <1>e, <1>t, <1>v DEF IsOver
<1>1. PlexShape'
  BY <1>i, <1>e, <1>b, <1>h, <1>n, <1>s, <1>t DEF PlexShape
<1>2. SlotPlays'
  BY <1>s
<1>3. AdvancesKept'
  BY <1>i, <1>e, <1>b, <1>h, <1>n, <1>s, <1>t DEF AdvancesKept
<1>4. IntentsKept'
  BY <1>i, <1>e, SameCount
<1>5. ASSUME ~plexLimit'.together PROVE PlexApart'
  <2>0. ~plexLimit.together /\ PlexApart
    BY <1>e, <1>5 DEF PlexInv
  <2>1. OneRequest'
    BY <1>e, <1>b, <1>h, <1>n, <1>s, <1>t, <2>0 DEF PlexApart, OneRequest
  <2>2. IdsKept'
    <3>1. \A x \in advances : x.pc # "resolve" /\ x.next.id = a.next.id => x = a
      BY <2>0 DEF PlexApart, IdsKept, UniqueNexts
    <3>2. Unstarted(a.next)
      BY <1>e, <2>0 DEF PlexApart, IdsKept
    <3>3. (Owned("plex") => ~IsOver(owner.req.id))'
      <4>1. ~IsOver(a.next.id)'
        BY <1>v, <3>2 DEF Unstarted
      <4> QED BY <1>s, <4>1 DEF Owned, IsOver
    <3>4. \A c \in 1..Controllers : (request[c].pc = "lookup" =>
             /\ Unstarted(request[c].play) /\ request[c].play.id # 0
             /\ \A x \in advances : x.next.id # request[c].play.id)'
      <4>1. ASSUME NEW c \in 1..Controllers, request'[c].pc = "lookup"
            PROVE  /\ Unstarted(request[c].play)' /\ request'[c].play.id # 0
                   /\ \A x \in advances' : x.next.id # request'[c].play.id
        <5>1. /\ Unstarted(request[c].play) /\ request[c].play.id # 0
              /\ \A x \in advances : x.next.id # request[c].play.id
          BY <1>e, <2>0, <4>1 DEF PlexApart, IdsKept
        <5>2. Unstarted(request[c].play)'
          BY <1>e, <1>s, <1>v, <5>1 DEF Unstarted, Owned
        <5> QED BY <1>e, <1>b, <1>h, <5>1, <5>2
      <4> QED BY <4>1
    <3>5. (\A x \in advances : x.pc \in {"settle", "start"} => Unstarted(x.next))'
      <4>1. ASSUME NEW x \in advances', x.pc \in {"settle", "start"} PROVE Unstarted(x.next)'
        <5>1. x \in advances /\ x # a
          BY <1>b, <1>h, <4>1
        <5>2. Unstarted(x.next) /\ x.next.id # a.next.id
          BY <2>0, <3>1, <4>1, <5>1 DEF PlexApart, IdsKept
        <5> QED BY <1>s, <1>v, <5>2 DEF Unstarted, Owned
      <4> QED BY <4>1
    <3>6. UniqueNexts'
      BY <1>i, <1>e, <1>b, <1>h, <2>0 DEF PlexApart, IdsKept, UniqueNexts, AdvancesKept
    <3> QED BY <3>3, <3>4, <3>5, <3>6 DEF IdsKept
  <2>3. GensKept'
    <3>1. \A x \in advances : x.pc # "resolve" /\ x.next.id = a.next.id => x = a
      BY <2>0 DEF PlexApart, IdsKept, UniqueNexts
    <3>2. IsMine(b)' /\ b.gen \in 1..gens'
      BY <1>n, <1>b, <1>s DEF IsMine, Owned
    <3>3. ASSUME NEW x \in advances', x.pc \in Launched, x # b
          PROVE  /\ x.gen \in 1..gens'
                 /\ owner'.gen # x.gen
                 /\ owner'.req.id # x.next.id
      <4>1. x \in advances /\ x # a /\ x.pc # "resolve"
        BY <1>b, <1>h, <3>3 DEF Launched
      <4>2. x.gen \in 1..gens
        BY <2>0, <3>3, <4>1 DEF PlexApart, GensKept
      <4> QED BY <1>n, <1>s, <3>1, <4>1, <4>2
    <3> QED BY <3>2, <3>3 DEF GensKept
  <2>4. PlayKept'
    <3>1. IsMine(b)' /\ b.pc = "commit" /\ b \in advances'
      BY <1>n, <1>b, <1>h, <1>s DEF IsMine, Owned
    <3>2. IsPending'
      BY <3>1 DEF IsPending
    <3> QED BY <1>e, <1>s, <2>0, <3>2 DEF PlexApart, PlayKept, Owned
  <2> QED BY <2>1, <2>2, <2>3, <2>4 DEF PlexApart
<1> QED BY <1>1, <1>2, <1>3, <1>4, <1>5 DEF PlexInv

LEMMA CommitsKeeps ==
    ASSUME PlexInv, NEW a \in advances, Started(a), a.pc = "commit", MuFree, StillCurrent(a.epoch),
           epoch' = epoch + 1, RememberAdvanced(a.next), Moves(a, [a EXCEPT !.pc = "confirm"]),
           slow' = (slow \/ \E c \in 1..Controllers : request[c].pc \in {"stop", "clear"}),
           asked' \in Nat, ended' \in Nat,
           UNCHANGED <<plexLimit, autoAdvance, intents, request, hooks, minted, owner, gens, told>>
    PROVE PlexInv'
<1>i. PlexShape /\ SlotPlays /\ AdvancesKept /\ IntentsKept
  BY DEF PlexInv
<1>c. PICK b : b = [a EXCEPT !.pc = "confirm"] /\ b \in AdvancesUpTo(minted) /\ b.pc = "confirm" /\ b.epoch = a.epoch
               /\ b.next = a.next /\ b.gen = a.gen
  <2> DEFINE d == [a EXCEPT !.pc = "confirm"]
  <2>1. a \in AdvancesUpTo(minted)
    BY <1>i DEF AdvancesKept
  <2>2. d \in AdvancesUpTo(minted) /\ d.pc = "confirm" /\ d.epoch = a.epoch /\ d.next = a.next /\ d.gen = a.gen
    BY <2>1 DEF AdvancesUpTo, AdvanceSteps, Launched
  <2> HIDE DEF d
  <2>3. d = [a EXCEPT !.pc = "confirm"]
    BY DEF d
  <2> QED BY <2>2, <2>3
<1>b. b \in AdvancesUpTo(minted) /\ b.pc = "confirm" /\ b.epoch = a.epoch /\ b.next = a.next /\ b.gen = a.gen
  BY <1>c
<1>h. advances' = (advances \ {a}) \cup {b}
  BY <1>c DEF Moves
<1>n. a.next \in PlaysUpTo(minted) /\ epoch \in Nat /\ epoch' \in Nat /\ epoch <= epoch'
  BY <1>i DEF AdvancesKept, AdvancesUpTo, PlexShape
<1>e. /\ a.pc = "commit" /\ asked' \in Nat /\ ended' \in Nat
      /\ lastPlay' = a.next /\ current' = a.next.id
      /\ slow' \in BOOLEAN
      /\ ~slow' => ~slow /\ \A c \in 1..Controllers : request[c].pc \notin {"stop", "clear"}
      /\ UNCHANGED <<plexLimit, autoAdvance, intents, request, hooks, minted, owner, gens, told>>
  BY <1>i DEF RememberAdvanced, Remember, PlexShape
<1>y. \A c \in 1..Controllers : request[c].pc # "remember"
  <2>1. Cardinality(Intents) = 0
    BY <1>i DEF StillCurrent, IntentsKept
  <2>2. Intents = {}
    BY <2>1, IntentsFinite, FS_EmptySet
  <2> QED BY <2>2 DEF Intents, Intending
<1>v. ASSUME NEW id, IsOver(id)' PROVE IsOver(id)
  BY <1>e, <1>v DEF IsOver
<1>1. PlexShape'
  BY <1>i, <1>e, <1>b, <1>h, <1>n DEF PlexShape
<1>2. SlotPlays'
  BY <1>i, <1>e, <1>b, <1>h, <1>n, SlotStays DEF SlotPlays, Owned
<1>3. AdvancesKept'
  <2>1. \A x \in advances : x.epoch \in Nat
    BY <1>i DEF AdvancesKept, AdvancesUpTo
  <2>2. \A h \in hooks : h.epoch \in Nat
    BY <1>i DEF PlexShape, HooksUpTo
  <2>3. \A h \in hooks' : h.epoch <= epoch'
    BY <1>i, <1>e, <1>n, <2>2 DEF AdvancesKept
  <2>4. \A x \in advances' : x.epoch <= epoch' /\ (x.pc # "resolve" => x.next.id # 0)
    BY <1>i, <1>e, <1>b, <1>h, <1>n, <2>1 DEF AdvancesKept
  <2>5. \A x, y \in advances' : x.pc = "confirm" /\ y.pc = "confirm" => x = y
    BY <1>h DEF MuFree
  <2> QED BY <1>i, <1>e, <1>b, <1>h, <2>3, <2>4, <2>5 DEF AdvancesKept
<1>4. IntentsKept'
  BY <1>i, <1>e, SameCount
<1>5. ASSUME ~plexLimit'.together PROVE PlexApart'
  <2>0. ~plexLimit.together /\ PlexApart
    BY <1>e, <1>5 DEF PlexInv
  <2>1. OneRequest'
    BY <1>e, <1>b, <1>h, <1>n, <2>0 DEF PlexApart, OneRequest
  <2>2. IdsKept'
    <3>1. \A q : Unstarted(q) => Unstarted(q)'
      BY <1>e, <1>v DEF Unstarted, Owned
    <3>2. Owned("plex") => ~IsOver(owner.req.id)
      BY <2>0 DEF PlexApart, IdsKept
    <3>3. (Owned("plex") => ~IsOver(owner.req.id))'
      BY <1>e, <1>v, <3>2 DEF Owned
    <3>4. \A c \in 1..Controllers : (request[c].pc = "lookup" =>
             /\ Unstarted(request[c].play) /\ request[c].play.id # 0
             /\ \A x \in advances : x.next.id # request[c].play.id)'
      <4>1. ASSUME NEW c \in 1..Controllers, request'[c].pc = "lookup"
            PROVE  /\ Unstarted(request[c].play)' /\ request'[c].play.id # 0
                   /\ \A x \in advances' : x.next.id # request'[c].play.id
        <5>1. Unstarted(request[c].play)
          BY <1>e, <2>0, <4>1 DEF PlexApart, IdsKept
        <5>2. Unstarted(request[c].play)'
          BY <1>e, <1>v, <5>1 DEF Unstarted, Owned
        <5> QED BY <1>e, <1>b, <1>h, <2>0, <4>1, <5>2 DEF PlexApart, IdsKept
      <4> QED BY <4>1
    <3>5. (\A x \in advances : x.pc \in {"settle", "start"} => Unstarted(x.next))'
      BY <1>e, <1>b, <1>h, <2>0, <3>1 DEF PlexApart, IdsKept
    <3>6. UniqueNexts'
      BY <1>i, <1>e, <1>b, <1>h, <2>0 DEF PlexApart, IdsKept, UniqueNexts, AdvancesKept
    <3> QED BY <3>3, <3>4, <3>5, <3>6 DEF IdsKept
  <2>3. GensKept'
    BY <1>i, <1>e, <1>b, <1>h, <2>0 DEF PlexApart, GensKept, IsMine, Owned, Launched
  <2>4. PlayKept'
    <3>1. IsMine(a)
      BY <1>e, <2>0 DEF PlexApart, GensKept, Launched, Started
    <3>2. lastPlay' = owner'.req
      BY <1>e, <3>1 DEF IsMine
    <3> QED BY <1>e, <1>y, <3>2 DEF PlayKept
  <2> QED BY <2>1, <2>2, <2>3, <2>4 DEF PlexApart
<1> QED BY <1>1, <1>2, <1>3, <1>4, <1>5 DEF PlexInv

LEMMA CommitFailsKeeps ==
    ASSUME PlexInv, NEW a \in advances, a.pc = "commit", Moves(a, [a EXCEPT !.pc = "abandon"]),
           asked' \in Nat, ended' \in Nat,
           UNCHANGED <<plexLimit, lastPlay, current, autoAdvance, epoch, intents, request, hooks,
                       minted, owner, gens, told, slow>>
    PROVE PlexInv'
<1>i. PlexShape /\ SlotPlays /\ AdvancesKept /\ IntentsKept
  BY DEF PlexInv
<1>c. PICK b : b = [a EXCEPT !.pc = "abandon"] /\ b \in AdvancesUpTo(minted) /\ b.pc = "abandon" /\ b.epoch = a.epoch
               /\ b.next = a.next /\ b.gen = a.gen
  <2> DEFINE d == [a EXCEPT !.pc = "abandon"]
  <2>1. a \in AdvancesUpTo(minted)
    BY <1>i DEF AdvancesKept
  <2>2. d \in AdvancesUpTo(minted) /\ d.pc = "abandon" /\ d.epoch = a.epoch /\ d.next = a.next /\ d.gen = a.gen
    BY <2>1 DEF AdvancesUpTo, AdvanceSteps, Launched
  <2> HIDE DEF d
  <2>3. d = [a EXCEPT !.pc = "abandon"]
    BY DEF d
  <2> QED BY <2>2, <2>3
<1>b. b \in AdvancesUpTo(minted) /\ b.pc = "abandon" /\ b.epoch = a.epoch /\ b.next = a.next /\ b.gen = a.gen
  BY <1>c
<1>h. advances' = (advances \ {a}) \cup {b}
  BY <1>c DEF Moves
<1>e. /\ a.pc = "commit" /\ asked' \in Nat /\ ended' \in Nat
      /\ UNCHANGED <<plexLimit, lastPlay, current, autoAdvance, epoch, intents, request, hooks, minted,
                     owner, gens, told, slow>>
  OBVIOUS
<1>v. ASSUME NEW id, IsOver(id)' PROVE IsOver(id)
  BY <1>e, <1>v DEF IsOver
<1>1. PlexShape'
  BY <1>i, <1>e, <1>b, <1>h DEF PlexShape
<1>2. SlotPlays'
  BY <1>i, <1>e, <1>b, <1>h, SlotStays DEF SlotPlays, Owned
<1>3. AdvancesKept'
  BY <1>i, <1>e, <1>b, <1>h DEF AdvancesKept
<1>4. IntentsKept'
  BY <1>i, <1>e, SameCount
<1>5. ASSUME ~plexLimit'.together PROVE PlexApart'
  <2>0. ~plexLimit.together /\ PlexApart
    BY <1>e, <1>5 DEF PlexInv
  <2>1. OneRequest'
    BY <1>e, <1>b, <1>h, <2>0 DEF PlexApart, OneRequest
  <2>2. IdsKept'
    <3>1. \A q : Unstarted(q) => Unstarted(q)'
      BY <1>e, <1>v DEF Unstarted, Owned
    <3>2. Owned("plex") => ~IsOver(owner.req.id)
      BY <2>0 DEF PlexApart, IdsKept
    <3>3. (Owned("plex") => ~IsOver(owner.req.id))'
      BY <1>e, <1>v, <3>2 DEF Owned
    <3>4. \A c \in 1..Controllers : (request[c].pc = "lookup" =>
             /\ Unstarted(request[c].play) /\ request[c].play.id # 0
             /\ \A x \in advances : x.next.id # request[c].play.id)'
      <4>1. ASSUME NEW c \in 1..Controllers, request'[c].pc = "lookup"
            PROVE  /\ Unstarted(request[c].play)' /\ request'[c].play.id # 0
                   /\ \A x \in advances' : x.next.id # request'[c].play.id
        <5>1. Unstarted(request[c].play)
          BY <1>e, <2>0, <4>1 DEF PlexApart, IdsKept
        <5>2. Unstarted(request[c].play)'
          BY <1>e, <1>v, <5>1 DEF Unstarted, Owned
        <5> QED BY <1>e, <1>b, <1>h, <2>0, <4>1, <5>2 DEF PlexApart, IdsKept
      <4> QED BY <4>1
    <3>5. (\A x \in advances : x.pc \in {"settle", "start"} => Unstarted(x.next))'
      BY <1>e, <1>b, <1>h, <2>0, <3>1 DEF PlexApart, IdsKept
    <3>6. UniqueNexts'
      BY <1>i, <1>e, <1>b, <1>h, <2>0 DEF PlexApart, IdsKept, UniqueNexts, AdvancesKept
    <3> QED BY <3>3, <3>4, <3>5, <3>6 DEF IdsKept
  <2>3. GensKept'
    BY <1>i, <1>e, <1>b, <1>h, <2>0 DEF PlexApart, GensKept, IsMine, Owned, Launched
  <2>4. PlayKept'
    BY <1>i, <1>e, <1>b, <1>h, <2>0, <2>1 DEF PlexApart, OneRequest, PlayKept, IsPending, IsMine,
       Owned
  <2> QED BY <2>1, <2>2, <2>3, <2>4 DEF PlexApart
<1> QED BY <1>1, <1>2, <1>3, <1>4, <1>5 DEF PlexInv

LEMMA ConfirmFailsKeeps ==
    ASSUME PlexInv, NEW a \in advances, ~Started(a), a.pc = "confirm", ForgetIf(a.next),
           Moves(a, [a EXCEPT !.pc = "abandon"]),
           asked' \in Nat, ended' \in Nat,
           UNCHANGED <<plexLimit, autoAdvance, epoch, intents, request, hooks, minted, owner, gens,
                       told, slow>>
    PROVE PlexInv'
<1>i. PlexShape /\ SlotPlays /\ AdvancesKept /\ IntentsKept
  BY DEF PlexInv
<1>c. PICK b : b = [a EXCEPT !.pc = "abandon"] /\ b \in AdvancesUpTo(minted) /\ b.pc = "abandon" /\ b.epoch = a.epoch
               /\ b.next = a.next /\ b.gen = a.gen
  <2> DEFINE d == [a EXCEPT !.pc = "abandon"]
  <2>1. a \in AdvancesUpTo(minted)
    BY <1>i DEF AdvancesKept
  <2>2. d \in AdvancesUpTo(minted) /\ d.pc = "abandon" /\ d.epoch = a.epoch /\ d.next = a.next /\ d.gen = a.gen
    BY <2>1 DEF AdvancesUpTo, AdvanceSteps, Launched
  <2> HIDE DEF d
  <2>3. d = [a EXCEPT !.pc = "abandon"]
    BY DEF d
  <2> QED BY <2>2, <2>3
<1>b. b \in AdvancesUpTo(minted) /\ b.pc = "abandon" /\ b.epoch = a.epoch /\ b.next = a.next /\ b.gen = a.gen
  BY <1>c
<1>h. advances' = (advances \ {a}) \cup {b}
  BY <1>c DEF Moves
<1>e. /\ a.pc = "confirm" /\ asked' \in Nat /\ ended' \in Nat
      /\ \/ UNCHANGED <<lastPlay, current>>
         \/ lastPlay' = NoPlay /\ current' = 0 /\ lastPlay.id = a.next.id
      /\ NoPlay \in PlaysUpTo(minted) /\ NoPlay.id = 0
      /\ UNCHANGED <<plexLimit, autoAdvance, epoch, intents, request, hooks, minted, owner, gens, told,
                     slow>>
  BY <1>i, RestingIsRequest DEF ForgetIf, Forget, Remember, PlexShape
<1>v. ASSUME NEW id, IsOver(id)' PROVE IsOver(id)
  BY <1>e, <1>v DEF IsOver
<1>1. PlexShape'
  BY <1>i, <1>e, <1>b, <1>h DEF PlexShape
<1>2. SlotPlays'
  BY <1>i, <1>e, <1>b, <1>h, SlotStays DEF SlotPlays, Owned
<1>3. AdvancesKept'
  BY <1>i, <1>e, <1>b, <1>h DEF AdvancesKept
<1>4. IntentsKept'
  BY <1>i, <1>e, SameCount
<1>5. ASSUME ~plexLimit'.together PROVE PlexApart'
  <2>0. ~plexLimit.together /\ PlexApart
    BY <1>e, <1>5 DEF PlexInv
  <2>1. OneRequest'
    BY <1>e, <1>b, <1>h, <2>0 DEF PlexApart, OneRequest
  <2>2. IdsKept'
    <3>1. \A q : Unstarted(q) => Unstarted(q)'
      BY <1>e, <1>v DEF Unstarted, Owned
    <3>2. Owned("plex") => ~IsOver(owner.req.id)
      BY <2>0 DEF PlexApart, IdsKept
    <3>3. (Owned("plex") => ~IsOver(owner.req.id))'
      BY <1>e, <1>v, <3>2 DEF Owned
    <3>4. \A c \in 1..Controllers : (request[c].pc = "lookup" =>
             /\ Unstarted(request[c].play) /\ request[c].play.id # 0
             /\ \A x \in advances : x.next.id # request[c].play.id)'
      <4>1. ASSUME NEW c \in 1..Controllers, request'[c].pc = "lookup"
            PROVE  /\ Unstarted(request[c].play)' /\ request'[c].play.id # 0
                   /\ \A x \in advances' : x.next.id # request'[c].play.id
        <5>1. Unstarted(request[c].play)
          BY <1>e, <2>0, <4>1 DEF PlexApart, IdsKept
        <5>2. Unstarted(request[c].play)'
          BY <1>e, <1>v, <5>1 DEF Unstarted, Owned
        <5> QED BY <1>e, <1>b, <1>h, <2>0, <4>1, <5>2 DEF PlexApart, IdsKept
      <4> QED BY <4>1
    <3>5. (\A x \in advances : x.pc \in {"settle", "start"} => Unstarted(x.next))'
      BY <1>e, <1>b, <1>h, <2>0, <3>1 DEF PlexApart, IdsKept
    <3>6. UniqueNexts'
      BY <1>i, <1>e, <1>b, <1>h, <2>0 DEF PlexApart, IdsKept, UniqueNexts, AdvancesKept
    <3> QED BY <3>3, <3>4, <3>5, <3>6 DEF IdsKept
  <2>3. GensKept'
    BY <1>i, <1>e, <1>b, <1>h, <2>0 DEF PlexApart, GensKept, IsMine, Owned, Launched
  <2>4. PlayKept'
    <3>1. Owned("plex") /\ owner.req.id = a.next.id => IsMine(a)
      BY <1>e, <2>0 DEF PlexApart, GensKept, Launched
    <3>2. IsMine(a) => Started(a)
      BY <1>i DEF IsMine, Started, SlotPlays
    <3>3. Owned("plex") /\ lastPlay = owner.req => lastPlay' = lastPlay
      BY <1>e, <3>1, <3>2
    <3> QED BY <1>e, <1>b, <1>h, <2>0, <3>3 DEF PlexApart, PlayKept, IsPending, IsMine, Owned
  <2> QED BY <2>1, <2>2, <2>3, <2>4 DEF PlexApart
<1> QED BY <1>1, <1>2, <1>3, <1>4, <1>5 DEF PlexInv

LEMMA AbandonKeeps ==
    ASSUME PlexInv, NEW a \in advances, Abandon(a) PROVE PlexInv'
<1>i. PlexShape /\ SlotPlays /\ AdvancesKept /\ IntentsKept
  BY DEF PlexInv
<1>e. /\ a.pc = "abandon" /\ advances' = advances \ {a} /\ asked' \in Nat /\ ended' \in Nat
      /\ UNCHANGED <<plexLimit, lastPlay, current, autoAdvance, epoch, intents, request, hooks, minted,
                     slow>>
  BY <1>i DEF Abandon, StandsDown, plexState, PlexShape
<1>s. /\ SlotPlays' /\ gens' = gens /\ TellsOfOwner
      /\ \/ owner'.by = "none" /\ owner'.gen = 0
         \/ owner' = owner /\ ~IsMine(a)
  <2>1. CASE Stop
    <3>1. Empties("stopped") /\ minted' = minted
      BY <1>e, <2>1 DEF Stop
    <3> QED BY <1>i, <3>1, PlexEmptied
  <2>2. CASE UNCHANGED slotVars /\ ~(owner.ref = PlexSession(a.next).ref /\ owner.gen = a.gen)
    <3>1. ~IsMine(a)
      BY <1>i, <2>2 DEF IsMine, SlotPlays
    <3>2. SlotPlays'
      BY <1>i, <1>e, <2>2, SlotStays DEF slotVars, SlotPlays, Owned
    <3>3. UNCHANGED <<owner, gens, told>>
      BY <2>2 DEF slotVars
    <3> QED BY <3>1, <3>2, <3>3 DEF TellsOfOwner
  <2> QED BY <2>1, <2>2 DEF Abandon, StopIfSession
<1>v. ASSUME NEW id, IsOver(id)' PROVE IsOver(id) \/ (Owned("plex") /\ owner.req.id = id)
  BY <1>e, <1>s, <1>v DEF IsOver, TellsOfOwner
<1>1. PlexShape'
  BY <1>i, <1>e, <1>s DEF PlexShape
<1>2. SlotPlays'
  BY <1>s
<1>3. AdvancesKept'
  BY <1>i, <1>e, <1>s DEF AdvancesKept
<1>4. IntentsKept'
  BY <1>i, <1>e, SameCount
<1>5. ASSUME ~plexLimit'.together PROVE PlexApart'
  <2>0. ~plexLimit.together /\ PlexApart
    BY <1>e, <1>5 DEF PlexInv
  <2>1. OneRequest'
    BY <1>e, <1>s, <2>0 DEF PlexApart, OneRequest
  <2>2. IdsKept'
    <3>1. \A q : Unstarted(q) => Unstarted(q)'
      BY <1>e, <1>s, <1>v DEF Unstarted, Owned
    <3>2. (Owned("plex") => ~IsOver(owner.req.id))'
      <4>1. CASE owner'.by = "none"
        BY <4>1 DEF Owned
      <4>2. CASE owner' = owner /\ Owned("plex")
        <5>1. \A o \in told' : o \in told
          BY <1>i, <1>s, <4>2 DEF Owned, TellsOfOwner, Abandon, StopIfSession, slotVars, Stop,
             Empties, NoSession, Session
        <5>2. ~IsOver(owner.req.id)
          BY <2>0, <4>2 DEF PlexApart, IdsKept
        <5>3. ~IsOver(owner.req.id)'
          BY <1>e, <4>2, <5>1, <5>2 DEF IsOver
        <5> QED BY <5>3
      <4> QED BY <1>s, <4>1, <4>2 DEF Owned
    <3>4. \A c \in 1..Controllers : (request[c].pc = "lookup" =>
             /\ Unstarted(request[c].play) /\ request[c].play.id # 0
             /\ \A x \in advances : x.next.id # request[c].play.id)'
      <4>1. ASSUME NEW c \in 1..Controllers, request'[c].pc = "lookup"
            PROVE  /\ Unstarted(request[c].play)' /\ request'[c].play.id # 0
                   /\ \A x \in advances' : x.next.id # request'[c].play.id
        <5>1. Unstarted(request[c].play)
          BY <1>e, <2>0, <4>1 DEF PlexApart, IdsKept
        <5>2. Unstarted(request[c].play)'
          BY <1>e, <1>s, <1>v, <5>1 DEF Unstarted, Owned
        <5> QED BY <1>e, <2>0, <4>1, <5>2 DEF PlexApart, IdsKept
      <4> QED BY <4>1
    <3>5. (\A x \in advances : x.pc \in {"settle", "start"} => Unstarted(x.next))'
      BY <1>e, <2>0, <3>1 DEF PlexApart, IdsKept
    <3>6. UniqueNexts'
      BY <1>e, <2>0 DEF PlexApart, IdsKept, UniqueNexts
    <3> QED BY <3>2, <3>4, <3>5, <3>6 DEF IdsKept
  <2>3. GensKept'
    BY <1>i, <1>e, <1>s, <2>0 DEF PlexApart, GensKept, IsMine, Owned, PlexShape
  <2>4. PlayKept'
    BY <1>i, <1>e, <1>s, <2>0, <2>1 DEF PlexApart, OneRequest, PlayKept, IsPending, IsMine, Owned
  <2> QED BY <2>1, <2>2, <2>3, <2>4 DEF PlexApart
<1> QED BY <1>1, <1>2, <1>3, <1>4, <1>5 DEF PlexInv

(* The steps of an advance.                                                *)
LEMMA AdvancesKeep == ASSUME PlexInv, NEW a \in advances, Advances(a) PROVE PlexInv'
<1>i. asked \in Nat /\ ended \in Nat
  BY DEF PlexInv, PlexShape
<1>1. CASE Resolve(a)
  <2>1. ASSUME StandsDown(a), minted' = minted PROVE PlexInv'
    BY <1>1, <1>i, <2>1, StandsDownKeeps DEF Resolve, slotVars, plexState
  <2>2. ASSUME minted' = minted + 1,
               Moves(a, [a EXCEPT !.pc = "settle", !.next = [a.from EXCEPT !.item = @ + 1, !.id = minted']])
        PROVE  PlexInv'
    BY <1>1, <1>i, <2>2, ResolvesKeeps DEF Resolve, slotVars, plexState
  <2> QED BY <1>1, <2>1, <2>2 DEF Resolve
<1>2. CASE Settle(a)
  <2>1. CASE StandsDown(a)
    BY <1>2, <1>i, <2>1, StandsDownKeeps DEF Settle, slotVars, plexState
  <2>2. CASE Moves(a, [a EXCEPT !.pc = "start"])
    BY <1>2, <1>i, <2>2, SettlesKeeps DEF Settle, slotVars, plexState
  <2> QED BY <1>2, <2>1, <2>2 DEF Settle
<1>3. CASE StartIfIdle(a)
  <2>1. CASE StandsDown(a) /\ UNCHANGED slotVars
    BY <1>3, <1>i, <2>1, StandsDownKeeps DEF StartIfIdle, slotVars, plexState
  <2>2. CASE Idle /\ Installs(PlexSession(a.next)) /\ Moves(a, [a EXCEPT !.pc = "commit", !.gen = gens'])
    BY <1>3, <1>i, <2>2, StartIfIdleSucceedsKeeps DEF StartIfIdle, plexState
  <2> QED BY <1>3, <2>1, <2>2 DEF StartIfIdle
<1>4. CASE Commit(a)
  <2>1. CASE StillCurrent(a.epoch) /\ Started(a)
    BY <1>4, <1>i, <2>1, CommitsKeeps DEF Commit, slotVars
  <2>2. CASE ~(StillCurrent(a.epoch) /\ Started(a))
    BY <1>4, <1>i, <2>2, CommitFailsKeeps DEF Commit, slotVars
  <2> QED BY <2>1, <2>2
<1>5. CASE Confirm(a)
  <2>1. CASE Started(a)
    BY <1>5, <1>i, <2>1, StandsDownKeeps DEF Confirm, slotVars
  <2>2. CASE ~Started(a)
    BY <1>5, <1>i, <2>2, ConfirmFailsKeeps DEF Confirm, slotVars
  <2> QED BY <2>1, <2>2
<1>6. CASE Abandon(a)
  BY <1>6, AbandonKeeps
<1> QED BY <1>1, <1>2, <1>3, <1>4, <1>5, <1>6 DEF Advances

LEMMA PlexGoes == PlexInv /\ PlexNext => PlexInv'
<1> SUFFICES ASSUME PlexInv, PlexNext PROVE PlexInv'
  OBVIOUS
<1>1. ASSUME NEW c \in 1..Controllers, Handler(c) PROVE PlexInv'
  BY <1>1, BeginHandlersKeep, HandlePauseKeeps, CancelPendingKeeps, SetAutoAdvanceKeeps DEF Handler
<1>2. ASSUME NEW c \in 1..Controllers, Continues(c) \/ Fails(c) PROVE PlexInv'
  BY <1>2, StartSessionKeeps, RememberKeeps, RestorePausedKeeps, FinishIntentKeeps, StopCoreKeeps,
     ClearPlaySessionKeeps, FailsKeeps DEF Continues
<1>3. CASE Ends \/ OtherTakes \/ BeginHook \/ \E h \in hooks : EndHook(h)
  BY <1>3, EndsKeeps, OtherTakesKeeps, BeginHookKeeps, EndHookKeeps
<1>4. ASSUME NEW a \in advances, Advances(a) PROVE PlexInv'
  BY <1>4, AdvancesKeep
<1> QED BY <1>1, <1>2, <1>3, <1>4 DEF PlexNext

LEMMA PlexStarts == PlexInit => PlexInv
<1> SUFFICES ASSUME PlexInit PROVE PlexInv
  OBVIOUS
<1> USE DEF PlexInit, PlexIdleState, SlotInit
<1>0. /\ owner.by = "none" /\ SlotShape /\ owner.gen = 0 /\ owner.paused \in BOOLEAN
  BY DEF NoSession, Session, SlotShape
<1>1. PlexShape
  <2>1. request \in [1..Controllers -> RequestsUpTo(minted)]
    BY RestingIsRequest
  <2>2. lastPlay \in PlaysUpTo(minted) /\ current = lastPlay.id
    BY RestingIsRequest
  <2> QED BY <2>1, <2>2 DEF PlexShape
<1>2. SlotPlays
  BY <1>0 DEF SlotPlays, Owned
<1>3. AdvancesKept
  BY DEF AdvancesKept
<1>4. IntentsKept
  <2>1. Intents = {}
    BY DEF Intents, Intending, Resting
  <2> QED BY <2>1, FS_EmptySet DEF IntentsKept
<1>5. PlexApart
  BY <1>0, RestingIsRequest DEF PlexApart, OneRequest, IdsKept, UniqueNexts, GensKept, PlayKept,
     Owned
<1> QED BY <1>1, <1>2, <1>3, <1>4, <1>5 DEF PlexInv

LEMMA PlexTyped == PlexInv => PlexTypeOK
<1> SUFFICES ASSUME PlexInv PROVE PlexTypeOK
  OBVIOUS
<1>i. PlexShape /\ AdvancesKept /\ IntentsKept
  BY DEF PlexInv
<1>1. \A a \in advances : a.next.id <= minted
  BY <1>i DEF PlexShape, AdvancesKept, AdvancesUpTo, PlaysUpTo
<1> DEFINE S == {a \in advances : a.pc = "confirm"}
<1>2. Cardinality(S) <= 1
  <2>1. CASE S = {}
    BY <2>1, FS_EmptySet
  <2>2. ASSUME NEW a \in S PROVE Cardinality(S) <= 1
    <3>1. S = {a}
      BY <1>i, <2>2 DEF AdvancesKept
    <3>2. Cardinality({a}) = 1
      BY FS_Singleton
    <3> QED BY <3>1, <3>2
  <2> QED BY <2>1, <2>2
<1>3. intents = Cardinality({c \in 1..Controllers : request[c].pc \in {"lookup", "remember", "pause", "finish"}})
  BY <1>i DEF IntentsKept, Intents, Intending
<1> QED BY <1>i, <1>1, <1>2, <1>3 DEF PlexTypeOK, PlexShape, AdvancesKept

LEMMA PlexRemembers == PlexInv => LastPlayIsPlaying
BY DEF PlexInv, PlexApart, PlayKept, IsPending, LastPlayIsPlaying, PlexQuiet

-----------------------------------------------------------------------------
(* The Jellyfin adapter.                                                   *)

JfRefs        == {<<n>> : n \in Nat}
RefsUpTo(n)   == {<<k>> : k \in 1..n}
StartSteps    == {"fetch", "start", "rollback", "pause", "finish"}
Unconfirmed   == {"check", "commit", "stale"}
FollowerSteps == Unconfirmed \cup {"settle", "fetch", "start", "confirm"}
ReporterSteps == {"begin", "wait", "progress", "taken", "stopped", "again"}

(* With sessions up to m and entries up to n.                              *)
StartsUpTo(m, n) == [pc : StartSteps, id : 1..m, entry : 0..n, paused : BOOLEAN, prev : JfRefs]
FollowersUpTo(m, n) ==
    [pc : FollowerSteps, from : RefsUpTo(m), entry : 0..n, epoch : Nat, id : 0..m, gen : Nat, late : BOOLEAN]
ReportersUpTo(m) == [id : 1..m, pc : ReporterSteps]
LostUpTo(m)      == [id : 1..m, pc : {"begin", "progress", "last"}]

JfShape ==
    /\ jfLimit \in JfLimits
    /\ sessions \in Nat /\ entries \in Nat /\ startEpoch \in Nat /\ gens \in Nat
    /\ currentRefKey \in JfRefs
    /\ reporters \subseteq ReportersUpTo(sessions) /\ row \in 0..sessions
    /\ lost \subseteq LostUpTo(sessions)

QueueKept == queue \in Seq(1..entries) /\ IsInjective(queue)

JfSlot ==
    /\ SlotShape
    /\ owner.by \in {"none", "other", "jellyfin"} /\ owner.paused \in BOOLEAN
    /\ Owned("none") => owner.ref = <<>>
    /\ Owned("other") => owner.ref = <<0>>
    /\ Owned("jellyfin") => owner.ref \in RefsUpTo(sessions) /\ owner.req \in 0..entries
    /\ \A o \in told : o.of.by = "jellyfin" /\ o.of.ref \in RefsUpTo(sessions)

(* Every start counts, by the PlaySessionID that is its own.               *)
StartsCounted ==
    /\ starts \subseteq StartsUpTo(sessions, entries)
    /\ IsFiniteSet(starts) /\ pending = Cardinality(starts)
    /\ \A s, t \in starts : s.id = t.id => s = t

UniqueFollowers == \A f, g \in followers : f.id # 0 /\ f.id = g.id => f = g

FollowersShape ==
    /\ followers \subseteq FollowersUpTo(sessions, entries)
    /\ \A f \in followers : f.pc \notin {"settle", "fetch"} => f.id # 0
    /\ \A f \in followers : f.pc # "settle" => f.entry # 0
    /\ UniqueFollowers
    /\ \A f \in followers, s \in starts : f.id # s.id

(* A session plays once: it ends once, and is not started again.           *)
JfOver(ref) == (\E o \in told : o.of.ref = ref) \/ (\E f \in followers : f.from = ref)
NotBegun(id) == ~JfOver(<<id>>) /\ owner.ref # <<id>>

SessionsKept ==
    /\ Owned("jellyfin") => ~JfOver(owner.ref)
    /\ \A s \in starts : s.pc \in {"fetch", "start", "rollback"} => NotBegun(s.id)
    /\ \A f \in followers : f.pc = "start" => NotBegun(f.id)
    /\ \A f \in followers : f.pc \in Unconfirmed \cup {"confirm"} /\ owner.ref = <<f.id>>
          => owner.gen = f.gen /\ owner.req = f.entry

(* From here on starts do not overlap.                                     *)
OneStart == \A s, t \in starts : s = t

(* The session of ours that plays is the current one, or one that a        *)
(* follower has yet to commit or to stop, or the one that a start replaces.*)
IsFollowed == \E f \in followers : f.pc \in Unconfirmed /\ owner.ref = <<f.id>>
IsReplaced == \E s \in starts : s.pc \in {"start", "rollback"} /\ s.prev = owner.ref

KeyKept ==
    /\ \A s \in starts : s.pc \in {"start", "rollback"} => currentRefKey = <<s.id>>
    /\ Owned("jellyfin") => currentRefKey = owner.ref \/ IsFollowed \/ IsReplaced

(* An entry is in one place: in the queue, with a start, with a follower   *)
(* that has taken it, or with the session that plays it.                   *)
UniqueTakers == \A f, g \in followers : f.pc = "confirm" /\ g.pc = "confirm" /\ f.entry = g.entry => f = g

EntriesKept ==
    /\ Owned("jellyfin") /\ Contains(queue, owner.req) => IsFollowed
    /\ \A s \in starts : s.pc \in {"fetch", "start"} =>
          ~Contains(queue, s.entry) /\ \A f \in followers : f.pc = "confirm" => f.entry # s.entry
    /\ \A f \in followers : f.pc = "confirm" =>
          /\ ~Contains(queue, f.entry)
          /\ Owned("jellyfin") /\ owner.req = f.entry => owner.ref = <<f.id>> \/ IsFollowed
    /\ UniqueTakers

JfApart == OneStart /\ KeyKept /\ EntriesKept

JfInv ==
    /\ JfShape /\ QueueKept /\ JfSlot /\ StartsCounted /\ FollowersShape /\ SessionsKept
    /\ ~jfLimit.together => JfApart

(* Queues.                                                                 *)
LEMMA QueueTail ==
    ASSUME NEW S, NEW q \in Seq(S), q # <<>>, IsInjective(q)
    PROVE  /\ Head(q) \in S /\ Contains(q, Head(q)) /\ Tail(q) \in Seq(S) /\ IsInjective(Tail(q))
           /\ ~Contains(Tail(q), Head(q)) /\ \A e : Contains(Tail(q), e) => Contains(q, e)
<1>1. Len(q) \in Nat \ {0} /\ Head(q) = q[1] /\ Tail(q) \in Seq(S) /\ DOMAIN q = 1..Len(q)
  OBVIOUS
<1>2. /\ Len(Tail(q)) = Len(q) - 1 /\ DOMAIN Tail(q) = 1..Len(Tail(q))
      /\ \A i \in 1..Len(Tail(q)) : Tail(q)[i] = q[i + 1] /\ i + 1 \in 1..Len(q) /\ i + 1 # 1
  BY <1>1
<1>3. \A i \in 1..Len(Tail(q)), j \in 1..Len(Tail(q)) : i + 1 = j + 1 => i = j
  BY <1>1, <1>2
<1>4. IsInjective(Tail(q))
  BY <1>1, <1>2, <1>3 DEF IsInjective
<1>5. ~Contains(Tail(q), Head(q))
  BY <1>1, <1>2 DEF Contains, IsInjective
<1>6. \A e : Contains(Tail(q), e) => Contains(q, e)
  BY <1>1, <1>2 DEF Contains
<1> QED BY <1>1, <1>4, <1>5, <1>6 DEF Contains

LEMMA QueueAppend ==
    ASSUME NEW S, NEW q \in Seq(S), NEW x \in S, IsInjective(q), ~Contains(q, x)
    PROVE  /\ Append(q, x) \in Seq(S) /\ IsInjective(Append(q, x))
           /\ \A e : Contains(Append(q, x), e) => Contains(q, e) \/ e = x
<1>1. /\ Append(q, x) \in Seq(S) /\ Len(q) \in Nat /\ Len(Append(q, x)) = Len(q) + 1
      /\ DOMAIN q = 1..Len(q) /\ DOMAIN Append(q, x) = 1..(Len(q) + 1)
      /\ Append(q, x)[Len(q) + 1] = x
      /\ \A i \in 1..(Len(q) + 1) : i # Len(q) + 1 => i \in 1..Len(q) /\ Append(q, x)[i] = q[i]
  OBVIOUS
<1> DEFINE r == Append(q, x)
<1>2. \A i \in 1..Len(q) : q[i] # x
  BY DEF Contains
<1>3. IsInjective(r)
  BY <1>1, <1>2 DEF IsInjective
<1>4. \A e : Contains(r, e) => Contains(q, e) \/ e = x
  BY <1>1 DEF Contains
<1> QED BY <1>1, <1>3, <1>4

LEMMA QueuePrepend ==
    ASSUME NEW S, NEW q \in Seq(S), NEW x \in S, IsInjective(q), ~Contains(q, x)
    PROVE  /\ <<x>> \o q \in Seq(S) /\ IsInjective(<<x>> \o q)
           /\ \A e : Contains(<<x>> \o q, e) => Contains(q, e) \/ e = x
<1> DEFINE r == <<x>> \o q
<1>1. /\ r \in Seq(S) /\ Len(q) \in Nat /\ Len(r) = Len(q) + 1
      /\ DOMAIN q = 1..Len(q) /\ DOMAIN r = 1..(Len(q) + 1)
      /\ r[1] = x
      /\ \A i \in 1..(Len(q) + 1) : i # 1 => i - 1 \in 1..Len(q) /\ r[i] = q[i - 1]
  OBVIOUS
<1> HIDE DEF r
<1>2. \A i \in 1..Len(q) : q[i] # x
  BY DEF Contains
<1>3. \A i, j \in 1..(Len(q) + 1) : i - 1 = j - 1 => i = j
  BY <1>1
<1>4. IsInjective(r)
  BY <1>1, <1>2, <1>3 DEF IsInjective
<1>5. \A e : Contains(r, e) => Contains(q, e) \/ e = x
  BY <1>1 DEF Contains
<1> QED BY <1>1, <1>4, <1>5 DEF r

LEMMA QueueNew ==
    ASSUME NEW n \in 0..1, NEW m \in Nat
    PROVE  LET q == [i \in 1..n |-> m + i] IN
           /\ q \in Seq(1..(m + n)) /\ IsInjective(q) /\ \A e : Contains(q, e) => e \in (m + 1)..(m + n)
<1> DEFINE q == [i \in 1..n |-> m + i]
<1>1. \A i \in 1..n : m + i \in 1..(m + n) /\ m + i \in (m + 1)..(m + n)
  OBVIOUS
<1>2. q \in Seq(1..(m + n)) /\ Len(q) = n
  BY <1>1
<1>3. \A i \in 1..n : q[i] = m + i
  OBVIOUS
<1>4. IsInjective(q)
  BY DEF IsInjective
<1>5. \A e : Contains(q, e) => e \in (m + 1)..(m + n)
  BY <1>1, <1>2, <1>3 DEF Contains
<1> QED BY <1>2, <1>4, <1>5

LEMMA QueueOf == ASSUME NEW S, NEW q \in Seq(S) PROVE \A e : Contains(q, e) => e \in S
<1>1. \A i \in 1..Len(q) : q[i] \in S
  OBVIOUS
<1> QED BY <1>1 DEF Contains

LEMMA QueueItems == ASSUME NEW S, NEW q \in Seq(S) PROVE \A e \in ToSet(q) : e \in S
<1>1. DOMAIN q = 1..Len(q) /\ \A i \in 1..Len(q) : q[i] \in S
  OBVIOUS
<1> QED BY <1>1 DEF ToSet

LEMMA QueueHolds == ASSUME QueueKept PROVE \A e : Contains(queue, e) => e \in 1..entries
<1>1. queue \in Seq(1..entries)
  BY DEF QueueKept
<1> QED BY <1>1, QueueOf

LEMMA JfGrow ==
    ASSUME NEW m \in Nat, NEW n \in Nat, NEW i \in Nat, NEW j \in Nat, m <= i, n <= j
    PROVE  /\ StartsUpTo(m, n) \subseteq StartsUpTo(i, j) /\ FollowersUpTo(m, n) \subseteq FollowersUpTo(i, j)
           /\ ReportersUpTo(m) \subseteq ReportersUpTo(i) /\ RefsUpTo(m) \subseteq RefsUpTo(i)
           /\ LostUpTo(m) \subseteq LostUpTo(i)
           /\ 0..m \subseteq 0..i /\ 0..n \subseteq 0..j /\ Seq(1..n) \subseteq Seq(1..j)
<1>1. 0..m \subseteq 0..i /\ 0..n \subseteq 0..j /\ 1..m \subseteq 1..i /\ 1..n \subseteq 1..j
  OBVIOUS
<1>2. Seq(1..n) \subseteq Seq(1..j)
  BY <1>1
<1>3. StartsUpTo(m, n) \subseteq StartsUpTo(i, j)
  BY <1>1 DEF StartsUpTo
<1>5. /\ ReportersUpTo(m) \subseteq ReportersUpTo(i) /\ RefsUpTo(m) \subseteq RefsUpTo(i)
      /\ LostUpTo(m) \subseteq LostUpTo(i)
  BY <1>1 DEF ReportersUpTo, RefsUpTo, LostUpTo
<1>4. FollowersUpTo(m, n) \subseteq FollowersUpTo(i, j)
  BY <1>1, <1>5 DEF FollowersUpTo
<1> QED BY <1>1, <1>2, <1>3, <1>4, <1>5

(* The slot, as this adapter uses it.                                      *)
JfTells == \A o \in told' : o \in told \/ (o.of = owner /\ Owned("jellyfin"))

LEMMA JfEmptied ==
    ASSUME JfShape, JfSlot, NEW why, Empties(why), sessions' = sessions
    PROVE  JfSlot' /\ owner'.by = "none" /\ owner'.ref = <<>> /\ gens' = gens /\ JfTells
<1>1. /\ owner'.by = "none" /\ owner'.ref = <<>> /\ owner'.paused \in BOOLEAN /\ SlotShape' /\ gens' = gens
      /\ told' = told \cup Hook(why)
  BY Emptied
<1>2. JfTells
  BY <1>1, Told DEF JfTells, Owned, JfSlot
<1>3. \A o \in told' : o.of.by = "jellyfin" /\ o.of.ref \in RefsUpTo(sessions')
  BY <1>2 DEF JfSlot, JfTells, Owned
<1> QED BY <1>1, <1>2, <1>3 DEF JfSlot, Owned

LEMMA JfTaken ==
    ASSUME JfShape, JfSlot, Installs(OtherSession), sessions' = sessions
    PROVE  JfSlot' /\ owner'.by = "other" /\ owner'.ref = <<0>> /\ gens' = gens + 1 /\ JfTells
<1>1. /\ owner'.by = "other" /\ owner'.ref = <<0>> /\ owner'.paused \in BOOLEAN /\ SlotShape' /\ gens' = gens + 1
      /\ told' = told \/ told' = told \cup Hook("preempted")
  BY Installed DEF OtherSession
<1>2. JfTells
  BY <1>1, Told DEF JfTells, Owned, JfSlot
<1>3. \A o \in told' : o.of.by = "jellyfin" /\ o.of.ref \in RefsUpTo(sessions')
  BY <1>2 DEF JfSlot, JfTells, Owned
<1> QED BY <1>1, <1>2, <1>3 DEF JfSlot, Owned

LEMMA JfInstalled ==
    ASSUME JfShape, JfSlot, NEW id \in 1..sessions, NEW e \in 0..entries, Installs(JfSession(id, e)),
           UNCHANGED <<sessions, entries>>
    PROVE  /\ JfSlot' /\ owner'.by = "jellyfin" /\ owner'.ref = <<id>> /\ owner'.req = e
           /\ owner'.gen = gens + 1 /\ gens' = gens + 1 /\ JfTells
<1> DEFINE r == <<id>>
<1>1. /\ owner'.by = "jellyfin" /\ owner'.ref = r /\ owner'.req = e /\ owner'.gen = gens + 1
      /\ owner'.paused \in BOOLEAN /\ SlotShape' /\ gens' = gens + 1
      /\ told' = told \/ told' = told \cup Hook("preempted")
  BY Installed DEF JfSession
<1>2. JfTells
  BY <1>1, Told DEF JfTells, Owned, JfSlot
<1>3. \A o \in told' : o.of.by = "jellyfin" /\ o.of.ref \in RefsUpTo(sessions')
  BY <1>2 DEF JfSlot, JfTells, Owned
<1>4. r \in RefsUpTo(sessions')
  BY DEF RefsUpTo
<1> QED BY <1>1, <1>2, <1>3, <1>4 DEF JfSlot, Owned

LEMMA NotOurRefs ==
    ASSUME JfSlot, sessions \in Nat, NEW id \in Nat, owner.ref = <<id>>, id # 0
    PROVE  Owned("jellyfin")
<1>1. <<id>> # <<>> /\ <<id>> # <<0>>
  OBVIOUS
<1> QED BY <1>1 DEF JfSlot, Owned

(* A start that moves on, and a follower.                                  *)
LEMMA StartMoved ==
    ASSUME StartsCounted, NEW s \in starts, NEW t \in StartsUpTo(sessions, entries), t.id = s.id,
           StartMoves(s, t), UNCHANGED <<pending, sessions, entries>>
    PROVE  StartsCounted'
<1>1. starts' = (starts \ {s}) \cup {t} /\ IsFiniteSet(starts \ {s}) /\ t \notin starts \ {s}
  BY FS_RemoveElement DEF StartsCounted, StartMoves
<1>2. IsFiniteSet(starts') /\ Cardinality(starts') = Cardinality(starts \ {s}) + 1
  BY <1>1, FS_AddElement
<1>3. Cardinality(starts \ {s}) = Cardinality(starts) - 1 /\ Cardinality(starts) \in Nat
  BY FS_RemoveElement, FS_CardinalityType DEF StartsCounted
<1>4. pending' = Cardinality(starts')
  BY <1>2, <1>3 DEF StartsCounted
<1>5. \A x, y \in starts' : x.id = y.id => x = y
  BY <1>1 DEF StartsCounted
<1>6. starts' \subseteq StartsUpTo(sessions', entries')
  BY <1>1 DEF StartsCounted
<1> QED BY <1>2, <1>4, <1>5, <1>6 DEF StartsCounted

LEMMA NoStartsPending ==
    ASSUME StartsCounted, pending = 0 PROVE starts = {}
BY FS_EmptySet DEF StartsCounted

(* What an intent of the controller does to followers.                     *)
LateFollower(f) ==
    IF f.pc \in {"fetch", "start", "check", "commit"} THEN [f EXCEPT !.late = TRUE] ELSE f
SameFollower(f, g) ==
    g.pc = f.pc /\ g.from = f.from /\ g.entry = f.entry /\ g.id = f.id /\ g.gen = f.gen

LEMMA Overridden ==
    ASSUME FollowersShape, Overrides
    PROVE  /\ followers' \subseteq FollowersUpTo(sessions, entries)
           /\ \A g \in followers' : \E f \in followers : SameFollower(f, g)
           /\ \A f \in followers : \E g \in followers' : SameFollower(f, g)
           /\ UniqueFollowers => UniqueFollowers'
           /\ UniqueTakers => UniqueTakers'
<1>1. followers' = {LateFollower(f) : f \in followers}
  BY DEF Overrides, LateFollower
<1>2. \A f \in followers : LateFollower(f) \in FollowersUpTo(sessions, entries) /\ SameFollower(f, LateFollower(f))
  BY DEF LateFollower, FollowersShape, FollowersUpTo, SameFollower
<1>3. UniqueFollowers => UniqueFollowers'
  BY <1>1, <1>2 DEF UniqueFollowers, SameFollower
<1>4. UniqueTakers => UniqueTakers'
  BY <1>1, <1>2 DEF UniqueTakers, SameFollower
<1> QED BY <1>1, <1>2, <1>3, <1>4

LEMMA StartWent ==
    ASSUME StartsCounted, NEW s \in starts, NEW p \in StartSteps
    PROVE  LET t == [s EXCEPT !.pc = p] IN
           /\ t \in StartsUpTo(sessions, entries)
           /\ t.pc = p /\ t.id = s.id /\ t.entry = s.entry /\ t.paused = s.paused /\ t.prev = s.prev
<1>1. s \in StartsUpTo(sessions, entries)
  BY DEF StartsCounted
<1> QED BY <1>1 DEF StartsUpTo

LEMMA AStart ==
    ASSUME JfShape, StartsCounted, NEW s \in starts
    PROVE  /\ s.id \in Nat /\ s.id \in 1..sessions /\ s.id # 0 /\ s.entry \in 0..entries
           /\ s.prev \in JfRefs /\ s.paused \in BOOLEAN
BY DEF JfShape, StartsCounted, StartsUpTo

LEMMA AFollower ==
    ASSUME JfShape, FollowersShape, NEW f \in followers
    PROVE  /\ f \in FollowersUpTo(sessions, entries)
           /\ f.id \in Nat /\ f.id \in 0..sessions /\ f.entry \in 0..entries /\ f.from \in RefsUpTo(sessions)
           /\ f.from \in JfRefs
<1>1. RefsUpTo(sessions) \subseteq JfRefs
  BY DEF RefsUpTo, JfRefs, JfShape
<1> QED BY <1>1 DEF JfShape, FollowersShape, FollowersUpTo

LEMMA FollowerWent ==
    ASSUME NEW m, NEW n, NEW f \in FollowersUpTo(m, n), NEW p \in FollowerSteps
    PROVE  LET g == [f EXCEPT !.pc = p] IN g \in FollowersUpTo(m, n) /\ g.pc = p
              /\ g.from = f.from /\ g.entry = f.entry /\ g.id = f.id /\ g.gen = f.gen
BY DEF FollowersUpTo

LEMMA PlaystateStopKeeps ==
    ASSUME JfInv, PlaystateStop PROVE JfInv'
<1>i. JfShape /\ QueueKept /\ JfSlot /\ StartsCounted /\ FollowersShape /\ SessionsKept
  BY DEF JfInv
<1>e. /\ UNCHANGED <<jfLimit, currentRefKey, startEpoch, pending, queue, entries, starts, followers,
                     reporters, row, lost, sessions>>
      /\ JfSlot' /\ owner'.by = "none" /\ owner'.ref = <<>> /\ gens' = gens /\ JfTells
  <2>1. Empties("stopped") /\ UNCHANGED <<jfLimit, currentRefKey, startEpoch, pending, queue, entries,
                                          starts, followers, reporters, row, lost, sessions>>
    BY DEF PlaystateStop, Stop, JfAsksFor, slotVars, jfState, JfElse, JfElse2, JfQuiet
  <2> QED BY <1>i, <2>1, JfEmptied
<1>v. ASSUME NEW ref, JfOver(ref)' PROVE JfOver(ref) \/ (Owned("jellyfin") /\ owner.ref = ref)
  BY <1>e, <1>v DEF JfOver, JfTells
<1>1. JfShape'
  BY <1>i, <1>e DEF JfShape
<1>2. QueueKept'
  BY <1>i, <1>e DEF QueueKept
<1>3. JfSlot'
  BY <1>e
<1>4. StartsCounted'
  BY <1>i, <1>e DEF StartsCounted
<1>5. FollowersShape'
  BY <1>i, <1>e DEF FollowersShape, UniqueFollowers
<1>6. SessionsKept'
  <2>1. \A id : NotBegun(id) => ~JfOver(<<id>>)'
    BY <1>v DEF NotBegun
  <2>2. ASSUME NEW x \in starts', x.pc \in {"fetch", "start", "rollback"} PROVE NotBegun(x.id)'
    <3>1. NotBegun(x.id) /\ x.id # 0 /\ x.id \in Nat
      BY <1>i, <1>e, <2>2 DEF SessionsKept, StartsCounted, StartsUpTo, JfShape
    <3>2. owner'.ref # <<x.id>>
      BY <1>e, <3>1 DEF NotBegun
    <3> QED BY <1>v, <3>1, <3>2 DEF NotBegun
  <2>3. ASSUME NEW y \in followers', y.pc = "start" PROVE NotBegun(y.id)'
    <3>1. NotBegun(y.id) /\ y.id # 0 /\ y.id \in Nat
      BY <1>i, <1>e, <2>3 DEF SessionsKept, FollowersShape, FollowersUpTo, JfShape
    <3>2. owner'.ref # <<y.id>>
      BY <1>e, <3>1 DEF NotBegun
    <3> QED BY <1>v, <3>1, <3>2 DEF NotBegun
  <2>4. \A y \in followers' : y.pc \in Unconfirmed \cup {"confirm"} => owner'.ref # <<y.id>>
    <3>1. \A y \in followers : y.pc \in Unconfirmed \cup {"confirm"} => y.id # 0
      BY <1>i DEF FollowersShape, Unconfirmed
    <3> QED BY <1>e, <3>1
  <2> QED BY <1>e, <2>2, <2>3, <2>4 DEF SessionsKept, Owned
<1>7. ASSUME ~jfLimit'.together PROVE JfApart'
  <2>0. ~jfLimit.together /\ JfApart
    BY <1>e, <1>7 DEF JfInv
  <2>1. OneStart'
    BY <1>e, <2>0 DEF JfApart, OneStart
  <2>2. KeyKept'
    BY <1>i, <1>e, <2>0, <2>1 DEF JfApart, OneStart, KeyKept, IsFollowed, IsReplaced, Owned
  <2>3. EntriesKept'
    BY <1>i, <1>e, <2>0, <2>1 DEF JfApart, OneStart, EntriesKept, UniqueTakers, IsFollowed, Owned
  <2> QED BY <2>1, <2>2, <2>3 DEF JfApart
<1> QED BY <1>1, <1>2, <1>3, <1>4, <1>5, <1>6, <1>7 DEF JfInv

LEMMA JfEndsKeeps ==
    ASSUME JfInv, JfEnds PROVE JfInv'
<1>i. JfShape /\ QueueKept /\ JfSlot /\ StartsCounted /\ FollowersShape /\ SessionsKept
  BY DEF JfInv
<1>e. /\ UNCHANGED <<jfLimit, currentRefKey, startEpoch, pending, queue, entries, starts, followers,
                     reporters, row, lost, sessions>>
      /\ JfSlot' /\ owner'.by = "none" /\ owner'.ref = <<>> /\ gens' = gens /\ JfTells
  <2>1. UNCHANGED <<jfLimit, currentRefKey, startEpoch, pending, queue, entries, starts, followers,
                    reporters, row, lost, sessions>>
    BY DEF JfEnds, slotVars, jfState, JfElse, JfElse2, JfQuiet
  <2>2. PICK why : Empties(why)
    BY DEF JfEnds
  <2> QED BY <1>i, <2>1, <2>2, JfEmptied
<1>v. ASSUME NEW ref, JfOver(ref)' PROVE JfOver(ref) \/ (Owned("jellyfin") /\ owner.ref = ref)
  BY <1>e, <1>v DEF JfOver, JfTells
<1>1. JfShape'
  BY <1>i, <1>e DEF JfShape
<1>2. QueueKept'
  BY <1>i, <1>e DEF QueueKept
<1>3. JfSlot'
  BY <1>e
<1>4. StartsCounted'
  BY <1>i, <1>e DEF StartsCounted
<1>5. FollowersShape'
  BY <1>i, <1>e DEF FollowersShape, UniqueFollowers
<1>6. SessionsKept'
  <2>1. \A id : NotBegun(id) => ~JfOver(<<id>>)'
    BY <1>v DEF NotBegun
  <2>2. ASSUME NEW x \in starts', x.pc \in {"fetch", "start", "rollback"} PROVE NotBegun(x.id)'
    <3>1. NotBegun(x.id) /\ x.id # 0 /\ x.id \in Nat
      BY <1>i, <1>e, <2>2 DEF SessionsKept, StartsCounted, StartsUpTo, JfShape
    <3>2. owner'.ref # <<x.id>>
      BY <1>e, <3>1 DEF NotBegun
    <3> QED BY <1>v, <3>1, <3>2 DEF NotBegun
  <2>3. ASSUME NEW y \in followers', y.pc = "start" PROVE NotBegun(y.id)'
    <3>1. NotBegun(y.id) /\ y.id # 0 /\ y.id \in Nat
      BY <1>i, <1>e, <2>3 DEF SessionsKept, FollowersShape, FollowersUpTo, JfShape
    <3>2. owner'.ref # <<y.id>>
      BY <1>e, <3>1 DEF NotBegun
    <3> QED BY <1>v, <3>1, <3>2 DEF NotBegun
  <2>4. \A y \in followers' : y.pc \in Unconfirmed \cup {"confirm"} => owner'.ref # <<y.id>>
    <3>1. \A y \in followers : y.pc \in Unconfirmed \cup {"confirm"} => y.id # 0
      BY <1>i DEF FollowersShape, Unconfirmed
    <3> QED BY <1>e, <3>1
  <2> QED BY <1>e, <2>2, <2>3, <2>4 DEF SessionsKept, Owned
<1>7. ASSUME ~jfLimit'.together PROVE JfApart'
  <2>0. ~jfLimit.together /\ JfApart
    BY <1>e, <1>7 DEF JfInv
  <2>1. OneStart'
    BY <1>e, <2>0 DEF JfApart, OneStart
  <2>2. KeyKept'
    BY <1>i, <1>e, <2>0, <2>1 DEF JfApart, OneStart, KeyKept, IsFollowed, IsReplaced, Owned
  <2>3. EntriesKept'
    BY <1>i, <1>e, <2>0, <2>1 DEF JfApart, OneStart, EntriesKept, UniqueTakers, IsFollowed, Owned
  <2> QED BY <2>1, <2>2, <2>3 DEF JfApart
<1> QED BY <1>1, <1>2, <1>3, <1>4, <1>5, <1>6, <1>7 DEF JfInv

LEMMA JfOtherTakesKeeps ==
    ASSUME JfInv, JfOtherTakes PROVE JfInv'
<1>i. JfShape /\ QueueKept /\ JfSlot /\ StartsCounted /\ FollowersShape /\ SessionsKept
  BY DEF JfInv
<1>e. /\ UNCHANGED <<jfLimit, currentRefKey, startEpoch, pending, queue, entries, starts, followers,
                     reporters, row, lost, sessions>>
      /\ JfSlot' /\ owner'.by = "other" /\ owner'.ref = <<0>> /\ gens' = gens + 1 /\ JfTells
  <2>1. Installs(OtherSession) /\ UNCHANGED <<jfLimit, currentRefKey, startEpoch, pending, queue,
                                              entries, starts, followers, reporters, row, lost, sessions>>
    BY DEF JfOtherTakes, slotVars, jfState, JfElse, JfElse2, JfQuiet
  <2> QED BY <1>i, <2>1, JfTaken
<1>v. ASSUME NEW ref, JfOver(ref)' PROVE JfOver(ref) \/ (Owned("jellyfin") /\ owner.ref = ref)
  BY <1>e, <1>v DEF JfOver, JfTells
<1>1. JfShape'
  BY <1>i, <1>e DEF JfShape
<1>2. QueueKept'
  BY <1>i, <1>e DEF QueueKept
<1>3. JfSlot'
  BY <1>e
<1>4. StartsCounted'
  BY <1>i, <1>e DEF StartsCounted
<1>5. FollowersShape'
  BY <1>i, <1>e DEF FollowersShape, UniqueFollowers
<1>6. SessionsKept'
  <2>1. \A id : NotBegun(id) => ~JfOver(<<id>>)'
    BY <1>v DEF NotBegun
  <2>2. ASSUME NEW x \in starts', x.pc \in {"fetch", "start", "rollback"} PROVE NotBegun(x.id)'
    <3>1. NotBegun(x.id) /\ x.id # 0 /\ x.id \in Nat
      BY <1>i, <1>e, <2>2 DEF SessionsKept, StartsCounted, StartsUpTo, JfShape
    <3>2. owner'.ref # <<x.id>>
      BY <1>e, <3>1 DEF NotBegun
    <3> QED BY <1>v, <3>1, <3>2 DEF NotBegun
  <2>3. ASSUME NEW y \in followers', y.pc = "start" PROVE NotBegun(y.id)'
    <3>1. NotBegun(y.id) /\ y.id # 0 /\ y.id \in Nat
      BY <1>i, <1>e, <2>3 DEF SessionsKept, FollowersShape, FollowersUpTo, JfShape
    <3>2. owner'.ref # <<y.id>>
      BY <1>e, <3>1 DEF NotBegun
    <3> QED BY <1>v, <3>1, <3>2 DEF NotBegun
  <2>4. \A y \in followers' : y.pc \in Unconfirmed \cup {"confirm"} => owner'.ref # <<y.id>>
    <3>1. \A y \in followers : y.pc \in Unconfirmed \cup {"confirm"} => y.id # 0
      BY <1>i DEF FollowersShape, Unconfirmed
    <3> QED BY <1>e, <3>1
  <2> QED BY <1>e, <2>2, <2>3, <2>4 DEF SessionsKept, Owned
<1>7. ASSUME ~jfLimit'.together PROVE JfApart'
  <2>0. ~jfLimit.together /\ JfApart
    BY <1>e, <1>7 DEF JfInv
  <2>1. OneStart'
    BY <1>e, <2>0 DEF JfApart, OneStart
  <2>2. KeyKept'
    BY <1>i, <1>e, <2>0, <2>1 DEF JfApart, OneStart, KeyKept, IsFollowed, IsReplaced, Owned
  <2>3. EntriesKept'
    BY <1>i, <1>e, <2>0, <2>1 DEF JfApart, OneStart, EntriesKept, UniqueTakers, IsFollowed, Owned
  <2> QED BY <2>1, <2>2, <2>3 DEF JfApart
<1> QED BY <1>1, <1>2, <1>3, <1>4, <1>5, <1>6, <1>7 DEF JfInv

LEMMA ApplyAutoAdvanceKeeps ==
    ASSUME JfInv, ApplyAutoAdvance PROVE JfInv'
<1>i. JfShape /\ QueueKept /\ JfSlot /\ StartsCounted /\ FollowersShape /\ SessionsKept
  BY DEF JfInv
<1>e. UNCHANGED <<jfLimit, currentRefKey, startEpoch, pending, queue, entries, starts, followers,
                  reporters, row, lost, sessions, owner, gens, told>>
  BY DEF ApplyAutoAdvance, JfAsksFor, slotVars, jfState, JfElse, JfElse2, JfQuiet
<1>1. JfShape'
  BY <1>i, <1>e DEF JfShape
<1>2. QueueKept'
  BY <1>i, <1>e DEF QueueKept
<1>3. JfSlot'
  BY <1>i, <1>e, SlotStays DEF JfSlot, Owned
<1>4. StartsCounted'
  BY <1>i, <1>e DEF StartsCounted
<1>5. FollowersShape'
  BY <1>i, <1>e DEF FollowersShape, UniqueFollowers
<1>6. SessionsKept'
  BY <1>i, <1>e DEF SessionsKept, JfOver, NotBegun, Owned
<1>7. ASSUME ~jfLimit'.together PROVE JfApart'
  <2>0. ~jfLimit.together /\ JfApart
    BY <1>e, <1>7 DEF JfInv
  <2>1. OneStart'
    BY <1>e, <2>0 DEF JfApart, OneStart
  <2>2. KeyKept'
    BY <1>i, <1>e, <2>0, <2>1 DEF JfApart, OneStart, KeyKept, IsFollowed, IsReplaced, Owned
  <2>3. EntriesKept'
    BY <1>i, <1>e, <2>0, <2>1 DEF JfApart, OneStart, EntriesKept, UniqueTakers, IsFollowed, Owned
  <2> QED BY <2>1, <2>2, <2>3 DEF JfApart
<1> QED BY <1>1, <1>2, <1>3, <1>4, <1>5, <1>6, <1>7 DEF JfInv

LEMMA PlaystatePauseKeeps ==
    ASSUME JfInv, PlaystatePause PROVE JfInv'
<1>i. JfShape /\ QueueKept /\ JfSlot /\ StartsCounted /\ FollowersShape /\ SessionsKept
  BY DEF JfInv
<1>e. /\ UNCHANGED <<jfLimit, currentRefKey, startEpoch, pending, queue, entries, starts, followers,
                     reporters, row, lost, sessions, gens, told>>
      /\ SlotShape' /\ owner'.by = owner.by /\ owner'.gen = owner.gen /\ owner'.req = owner.req
      /\ owner'.ref = owner.ref /\ owner'.paused \in BOOLEAN
  <2>1. owner'.paused = ~owner.paused /\ SlotShape' /\ owner'.by = owner.by /\ owner'.gen = owner.gen
        /\ owner'.req = owner.req /\ owner'.ref = owner.ref
    BY <1>i, Paused DEF PlaystatePause, JfSlot
  <2> QED BY <2>1 DEF PlaystatePause, JfAsksFor, SetPaused, slotVars, jfState, JfElse, JfElse2,
     JfQuiet
<1>1. JfShape'
  BY <1>i, <1>e DEF JfShape
<1>2. QueueKept'
  BY <1>i, <1>e DEF QueueKept
<1>3. JfSlot'
  BY <1>i, <1>e DEF JfSlot, Owned
<1>4. StartsCounted'
  BY <1>i, <1>e DEF StartsCounted
<1>5. FollowersShape'
  BY <1>i, <1>e DEF FollowersShape, UniqueFollowers
<1>6. SessionsKept'
  BY <1>i, <1>e DEF SessionsKept, JfOver, NotBegun, Owned
<1>7. ASSUME ~jfLimit'.together PROVE JfApart'
  <2>0. ~jfLimit.together /\ JfApart
    BY <1>e, <1>7 DEF JfInv
  <2>1. OneStart'
    BY <1>e, <2>0 DEF JfApart, OneStart
  <2>2. KeyKept'
    BY <1>i, <1>e, <2>0, <2>1 DEF JfApart, OneStart, KeyKept, IsFollowed, IsReplaced, Owned
  <2>3. EntriesKept'
    BY <1>i, <1>e, <2>0, <2>1 DEF JfApart, OneStart, EntriesKept, UniqueTakers, IsFollowed, Owned
  <2> QED BY <2>1, <2>2, <2>3 DEF JfApart
<1> QED BY <1>1, <1>2, <1>3, <1>4, <1>5, <1>6, <1>7 DEF JfInv

LEMMA ReportsKeeps ==
    ASSUME JfInv, NEW r \in reporters, Reports(r) PROVE JfInv'
<1>i. JfShape /\ QueueKept /\ JfSlot /\ StartsCounted /\ FollowersShape /\ SessionsKept
  BY DEF JfInv
<1>e. /\ UNCHANGED <<jfLimit, currentRefKey, startEpoch, pending, queue, entries, starts, followers,
                     sessions, owner, gens, told>>
      /\ reporters' \subseteq ReportersUpTo(sessions) /\ row' \in 0..sessions
      /\ lost' \subseteq LostUpTo(sessions)
  <2>0. r \in ReportersUpTo(sessions) /\ sessions \in Nat /\ row \in 0..sessions
    BY <1>i DEF JfShape
  <2>1. r.id \in 1..sessions /\ \A p \in ReporterSteps : [r EXCEPT !.pc = p] \in ReportersUpTo(sessions)
    BY <2>0 DEF ReportersUpTo
  <2>2. row' \in 0..sessions
    <3>1. row' = r.id \/ row' = 0 \/ row' = row
      BY DEF Reports, Post, PostFails, Lost, Look, Elide
    <3> QED BY <2>0, <2>1, <3>1
  <2>3. PICK p \in ReporterSteps : ReporterGoes(r, p) \/ ReporterGone(r)
    <3>1. CASE Post(r)
      BY <3>1 DEF Post, ReporterSteps
    <3>2. CASE Look(r)
      BY <3>2 DEF Look, WhenIdle, ReporterSteps
    <3>3. CASE Elide(r)
      BY <3>3 DEF Elide, ReporterSteps
    <3>4. CASE PostFails(r)
      BY <3>4 DEF PostFails, ReporterSteps
    <3> QED BY <3>1, <3>2, <3>3, <3>4 DEF Reports
  <2>4. reporters' \subseteq ReportersUpTo(sessions)
    BY <1>i, <2>1, <2>3 DEF ReporterGoes, ReporterGone, JfShape
  <2>5. lost' \subseteq LostUpTo(sessions)
    <3>1. CASE UNCHANGED lost
      BY <1>i, <3>1 DEF JfShape
    <3>2. ASSUME NEW kind \in {"begin", "progress", "last"}, Lost(r, kind)
          PROVE  lost' \subseteq LostUpTo(sessions)
      <4>1. [r EXCEPT !.pc = kind] \in LostUpTo(sessions)
        BY <2>0 DEF ReportersUpTo, LostUpTo
      <4> QED BY <1>i, <3>2, <4>1 DEF Lost, JfShape
    <3>3. CASE PostFails(r)
      <4>1. UNCHANGED lost \/ \E kind \in {"begin", "progress", "last"} : Lost(r, kind)
        BY <3>3 DEF PostFails
      <4> QED BY <3>1, <3>2, <4>1
    <3> QED BY <3>1, <3>3 DEF Reports, Post, Look, Elide
  <2> QED BY <2>2, <2>4, <2>5 DEF Reports, slotVars, jfState, JfElse, JfElse2, JfQuiet
<1>1. JfShape'
  BY <1>i, <1>e DEF JfShape
<1>2. QueueKept'
  BY <1>i, <1>e DEF QueueKept
<1>3. JfSlot'
  BY <1>i, <1>e, SlotStays DEF JfSlot, Owned
<1>4. StartsCounted'
  BY <1>i, <1>e DEF StartsCounted
<1>5. FollowersShape'
  BY <1>i, <1>e DEF FollowersShape, UniqueFollowers
<1>6. SessionsKept'
  BY <1>i, <1>e DEF SessionsKept, JfOver, NotBegun, Owned
<1>7. ASSUME ~jfLimit'.together PROVE JfApart'
  <2>0. ~jfLimit.together /\ JfApart
    BY <1>e, <1>7 DEF JfInv
  <2>1. OneStart'
    BY <1>e, <2>0 DEF JfApart, OneStart
  <2>2. KeyKept'
    BY <1>i, <1>e, <2>0, <2>1 DEF JfApart, OneStart, KeyKept, IsFollowed, IsReplaced, Owned
  <2>3. EntriesKept'
    BY <1>i, <1>e, <2>0, <2>1 DEF JfApart, OneStart, EntriesKept, UniqueTakers, IsFollowed, Owned
  <2> QED BY <2>1, <2>2, <2>3 DEF JfApart
<1> QED BY <1>1, <1>2, <1>3, <1>4, <1>5, <1>6, <1>7 DEF JfInv

LEMMA OverridesOnlyKeeps ==
    ASSUME JfInv, Overrides,
           UNCHANGED <<jfLimit, currentRefKey, pending, queue, entries, starts, reporters, row, lost,
                       sessions, owner, gens, told>>
    PROVE JfInv'
<1>i. JfShape /\ QueueKept /\ JfSlot /\ StartsCounted /\ FollowersShape /\ SessionsKept
  BY DEF JfInv
<1>e. /\ Overrides /\ startEpoch' = startEpoch + 1
      /\ UNCHANGED <<jfLimit, currentRefKey, pending, queue, entries, starts, reporters, row, lost, sessions,
                     owner, gens, told>>
  BY DEF Overrides
<1>o. /\ followers' \subseteq FollowersUpTo(sessions, entries)
      /\ \A g \in followers' : \E f \in followers : SameFollower(f, g)
      /\ \A f \in followers : \E g \in followers' : SameFollower(f, g)
      /\ UniqueFollowers => UniqueFollowers'
      /\ UniqueTakers => UniqueTakers'
  BY <1>i, <1>e, Overridden
<1>p. /\ Owned("jellyfin")' <=> Owned("jellyfin")
      /\ \A ref : JfOver(ref)' => JfOver(ref)
      /\ IsFollowed => IsFollowed'
  BY <1>e, <1>o DEF Owned, JfOver, IsFollowed, SameFollower, Unconfirmed
<1>1. JfShape'
  BY <1>i, <1>e, <1>o, <1>p DEF JfShape
<1>2. QueueKept'
  BY <1>i, <1>e, <1>o, <1>p DEF QueueKept
<1>3. JfSlot'
  BY <1>i, <1>e, <1>o, <1>p, SlotStays DEF JfSlot, Owned
<1>4. StartsCounted'
  BY <1>i, <1>e, <1>o, <1>p DEF StartsCounted
<1>5. FollowersShape'
  <2>1. \A g \in followers' :
           /\ g.pc \notin {"settle", "fetch"} => g.id # 0
           /\ g.pc # "settle" => g.entry # 0
           /\ \A s \in starts' : g.id # s.id
    BY <1>i, <1>e, <1>o DEF FollowersShape, SameFollower
  <2>2. followers' \subseteq FollowersUpTo(sessions', entries') /\ UniqueFollowers'
    BY <1>i, <1>e, <1>o DEF FollowersShape
  <2>3. \A f \in followers', s \in starts' : f.id # s.id
    BY <2>1
  <2> QED BY <2>1, <2>2, <2>3 DEF FollowersShape
<1>6. SessionsKept'
  <2>1. \A id : NotBegun(id) => NotBegun(id)'
    BY <1>e, <1>p DEF NotBegun
  <2>2. \A g \in followers' : g.pc = "start" => NotBegun(g.id)
    BY <1>i, <1>o DEF SessionsKept, SameFollower
  <2>3. (Owned("jellyfin") => ~JfOver(owner.ref))'
    <3>1. Owned("jellyfin") => ~JfOver(owner.ref)
      BY <1>i DEF SessionsKept
    <3> QED BY <1>e, <1>p, <3>1 DEF Owned
  <2>4. \A s \in starts' : s.pc \in {"fetch", "start", "rollback"} => NotBegun(s.id)
    BY <1>i, <1>e DEF SessionsKept
  <2>5. \A g \in followers' : g.pc \in Unconfirmed \cup {"confirm"} /\ owner'.ref = <<g.id>>
           => owner'.gen = g.gen /\ owner'.req = g.entry
    BY <1>i, <1>e, <1>o DEF SessionsKept, SameFollower
  <2>6. (\A g \in followers : g.pc = "start" => NotBegun(g.id))'
    BY <2>1, <2>2
  <2>7. (\A s \in starts : s.pc \in {"fetch", "start", "rollback"} => NotBegun(s.id))'
    BY <2>1, <2>4
  <2> QED BY <2>3, <2>5, <2>6, <2>7 DEF SessionsKept
<1>7. ASSUME ~jfLimit'.together PROVE JfApart'
  <2>0. ~jfLimit.together /\ JfApart
    BY <1>e, <1>7 DEF JfInv
  <2>1. OneStart'
    BY <1>e, <1>o, <1>p, <2>0 DEF JfApart, OneStart
  <2>2. KeyKept'
    <3>1. (IsReplaced => IsReplaced') /\ \A s \in starts' : s \in starts
      BY <1>e DEF IsReplaced
    <3> QED BY <1>e, <1>p, <2>0, <3>1 DEF JfApart, KeyKept, Owned
  <2>3. EntriesKept'
    <3>1. \A s \in starts' : s.pc \in {"fetch", "start"} =>
             ~Contains(queue', s.entry) /\ \A f \in followers' : f.pc = "confirm" => f.entry # s.entry
      BY <1>e, <1>o, <2>0 DEF JfApart, EntriesKept, SameFollower
    <3>2. \A f \in followers' : f.pc = "confirm" =>
             /\ ~Contains(queue', f.entry)
             /\ Owned("jellyfin")' /\ owner'.req = f.entry => owner'.ref = <<f.id>> \/ IsFollowed'
      BY <1>e, <1>o, <1>p, <2>0 DEF JfApart, EntriesKept, SameFollower
    <3>3. Owned("jellyfin")' /\ Contains(queue', owner'.req) => IsFollowed'
      BY <1>e, <1>p, <2>0 DEF JfApart, EntriesKept
    <3>4. UniqueTakers'
      BY <1>o, <2>0 DEF JfApart, EntriesKept
    <3> QED BY <3>1, <3>2, <3>3, <3>4 DEF EntriesKept
  <2> QED BY <2>1, <2>2, <2>3 DEF JfApart
<1> QED BY <1>1, <1>2, <1>3, <1>4, <1>5, <1>6, <1>7 DEF JfInv

LEMMA HandlePlayQueuedKeeps ==
    ASSUME JfInv, HandlePlayQueued PROVE JfInv'
<1>i. JfShape /\ QueueKept /\ JfSlot /\ StartsCounted /\ FollowersShape /\ SessionsKept
  BY DEF JfInv
<1>n. entries \in Nat /\ sessions \in Nat /\ entries' = entries + 1 /\ entries + 1 \in Nat /\ entries <= entries + 1
      /\ entries + 1 \in 1..(entries + 1)
  BY <1>i DEF JfShape, HandlePlayQueued
<1>e. /\ queue' \in {<<entries + 1>> \o queue, Append(queue, entries + 1)}
      /\ UNCHANGED <<jfLimit, currentRefKey, startEpoch, pending, starts, followers, reporters, row, lost,
                     sessions, owner, gens, told>>
  BY <1>n DEF HandlePlayQueued, JfAsksFor, slotVars, jfState, JfElse, JfElse2, JfQuiet
<1>g. /\ StartsUpTo(sessions, entries) \subseteq StartsUpTo(sessions, entries + 1)
      /\ FollowersUpTo(sessions, entries) \subseteq FollowersUpTo(sessions, entries + 1)
      /\ 0..entries \subseteq 0..(entries + 1) /\ queue \in Seq(1..(entries + 1))
  <2>1. Seq(1..entries) \subseteq Seq(1..(entries + 1))
    BY <1>n, JfGrow
  <2> QED BY <1>i, <1>n, <2>1, JfGrow DEF QueueKept
<1>q. /\ queue' \in Seq(1..(entries + 1)) /\ IsInjective(queue')
      /\ \A e : Contains(queue', e) => Contains(queue, e) \/ e = entries + 1
  <2>1. ~Contains(queue, entries + 1)
    BY <1>i, <1>n, QueueHolds
  <2>2. IsInjective(queue)
    BY <1>i DEF QueueKept
  <2>3. CASE queue' = <<entries + 1>> \o queue
    <3> DEFINE x == entries + 1
    <3>1. x \in 1..x /\ queue \in Seq(1..x) /\ ~Contains(queue, x) /\ queue' = <<x>> \o queue
      BY <1>n, <1>g, <2>1, <2>3
    <3> HIDE DEF x
    <3>2. /\ <<x>> \o queue \in Seq(1..x) /\ IsInjective(<<x>> \o queue)
          /\ \A e : Contains(<<x>> \o queue, e) => Contains(queue, e) \/ e = x
      BY <2>2, <3>1, QueuePrepend
    <3>3. queue' \in Seq(1..x) /\ IsInjective(queue') /\ \A e : Contains(queue', e) => Contains(queue, e) \/ e = x
      BY <3>1, <3>2
    <3> QED BY <3>3 DEF x
  <2>4. CASE queue' = Append(queue, entries + 1)
    BY <1>n, <1>g, <2>1, <2>2, <2>4, QueueAppend
  <2> QED BY <1>e, <2>3, <2>4
<1>u. /\ Owned("jellyfin") => owner.req # entries + 1
      /\ \A s \in starts : s.entry # entries + 1
      /\ \A f \in followers : f.entry # entries + 1
  BY <1>i, <1>n DEF JfSlot, StartsCounted, StartsUpTo, FollowersShape, FollowersUpTo
<1>1. JfShape'
  BY <1>i, <1>n, <1>e, <1>g, <1>q DEF JfShape
<1>2. QueueKept'
  BY <1>n, <1>q DEF QueueKept
<1>3. JfSlot'
  BY <1>i, <1>n, <1>e, <1>g, <1>q, SlotStays DEF JfSlot, Owned
<1>4. StartsCounted'
  BY <1>i, <1>n, <1>e, <1>g, <1>q DEF StartsCounted
<1>5. FollowersShape'
  BY <1>i, <1>n, <1>e, <1>g, <1>q DEF FollowersShape, UniqueFollowers
<1>6. SessionsKept'
  BY <1>i, <1>n, <1>e, <1>g, <1>q DEF SessionsKept, JfOver, NotBegun, Owned
<1>7. ASSUME ~jfLimit'.together PROVE JfApart'
  <2>0. ~jfLimit.together /\ JfApart
    BY <1>e, <1>7 DEF JfInv
  <2>1. OneStart'
    BY <1>n, <1>e, <1>g, <1>q, <2>0 DEF JfApart, OneStart
  <2>2. KeyKept'
    BY <1>i, <1>n, <1>e, <1>g, <1>q, <2>0, <2>1 DEF JfApart, OneStart, KeyKept, IsFollowed,
       IsReplaced, Owned
  <2>3. EntriesKept'
    <3>1. IsFollowed' <=> IsFollowed
      BY <1>e DEF IsFollowed
    <3>2. (Owned("jellyfin") /\ Contains(queue, owner.req) => IsFollowed)'
      BY <1>e, <1>q, <1>u, <2>0, <3>1 DEF JfApart, EntriesKept, Owned
    <3>3. \A s \in starts' : s.pc \in {"fetch", "start"} =>
             ~Contains(queue', s.entry) /\ \A f \in followers' : f.pc = "confirm" => f.entry # s.entry
      BY <1>e, <1>q, <1>u, <2>0 DEF JfApart, EntriesKept
    <3>4. \A f \in followers' : f.pc = "confirm" =>
             /\ ~Contains(queue', f.entry)
             /\ Owned("jellyfin")' /\ owner'.req = f.entry => owner'.ref = <<f.id>> \/ IsFollowed'
      BY <1>e, <1>q, <1>u, <2>0, <3>1 DEF JfApart, EntriesKept, Owned
    <3>5. UniqueTakers'
      BY <1>e, <2>0 DEF JfApart, EntriesKept, UniqueTakers
    <3> QED BY <3>2, <3>3, <3>4, <3>5 DEF EntriesKept
  <2> QED BY <2>1, <2>2, <2>3 DEF JfApart
<1> QED BY <1>1, <1>2, <1>3, <1>4, <1>5, <1>6, <1>7 DEF JfInv

LEMMA BeginsStartKeeps ==
    ASSUME JfInv, NEW e \in 0..entries', NEW paused \in BOOLEAN, BeginsStart(e, paused),
           ~jfLimit.together => starts = {},
           entries' \in Nat, entries <= entries', QueueKept',
           \A x \in 0..entries : Contains(queue', x) => Contains(queue, x),
           e # 0 => e \in 0..entries /\ ~Contains(queue', e) /\ Contains(queue, e),
           UNCHANGED <<jfLimit, currentRefKey, reporters, row, lost, owner, gens, told>>
    PROVE  JfInv'
<1> DEFINE m == sessions + 1
<1>i. JfShape /\ QueueKept /\ JfSlot /\ StartsCounted /\ FollowersShape /\ SessionsKept
  BY DEF JfInv
<1>n. sessions \in Nat /\ sessions' = m /\ m \in Nat /\ sessions <= m /\ m \in 1..m /\ entries \in Nat
  BY <1>i DEF JfShape, BeginsStart
<1>t. PICK t : /\ t = [pc |-> "fetch", id |-> m, entry |-> e, paused |-> paused, prev |-> NoRef]
               /\ starts' = starts \cup {t}
  BY DEF BeginsStart
<1>d. t.pc = "fetch" /\ t.id = m /\ t.entry = e /\ t \in StartsUpTo(m, entries')
  <2>1. NoRef \in JfRefs
    BY DEF NoRef, JfRefs
  <2> QED BY <1>n, <1>t, <2>1 DEF StartsUpTo, StartSteps
<1>e. /\ starts' = starts \cup {t} /\ pending' = pending + 1 /\ Overrides
      /\ UNCHANGED <<jfLimit, currentRefKey, reporters, row, lost, owner, gens, told>>
      /\ startEpoch' = startEpoch + 1
  BY <1>t DEF BeginsStart, Overrides
<1>m. ~(m <= sessions) /\ m # 0
  BY <1>n
<1> HIDE DEF m
<1>g. /\ StartsUpTo(sessions, entries) \subseteq StartsUpTo(m, entries')
      /\ FollowersUpTo(sessions, entries) \subseteq FollowersUpTo(m, entries')
      /\ ReportersUpTo(sessions) \subseteq ReportersUpTo(m) /\ RefsUpTo(sessions) \subseteq RefsUpTo(m)
      /\ LostUpTo(sessions) \subseteq LostUpTo(m)
      /\ 0..sessions \subseteq 0..m /\ 0..entries \subseteq 0..entries'
  BY <1>n, JfGrow
<1>o. /\ followers' \subseteq FollowersUpTo(sessions, entries)
      /\ \A g \in followers' : \E f \in followers : SameFollower(f, g)
      /\ \A f \in followers : \E g \in followers' : SameFollower(f, g)
      /\ UniqueFollowers => UniqueFollowers'
      /\ UniqueTakers => UniqueTakers'
  BY <1>i, <1>e, Overridden
<1>p. /\ Owned("jellyfin")' <=> Owned("jellyfin")
      /\ \A ref : JfOver(ref)' => JfOver(ref)
      /\ IsFollowed => IsFollowed'
  BY <1>e, <1>o DEF Owned, JfOver, IsFollowed, SameFollower, Unconfirmed
<1>f. /\ \A s \in starts : s.id # m /\ s.entry \in 0..entries
      /\ \A f \in followers : f.id # m /\ f.id \in Nat /\ f.entry \in 0..entries
      /\ Owned("jellyfin") => owner.req \in 0..entries
  <2>1. \A s \in starts : s.id # m /\ s.entry \in 0..entries
    BY <1>i, <1>n, <1>m DEF StartsCounted, StartsUpTo
  <2>2. \A f \in followers : f.id # m /\ f.id \in Nat /\ f.entry \in 0..entries
    BY <1>i, <1>n, <1>m DEF FollowersShape, FollowersUpTo
  <2> QED BY <1>i, <2>1, <2>2 DEF JfSlot
<1>w. NotBegun(m)
  <2>1. \A ref \in RefsUpTo(sessions) : ref # <<m>>
    BY <1>n, <1>m DEF RefsUpTo
  <2>2. owner.ref # <<m>> /\ \A o \in told : o.of.ref # <<m>>
    <3>1. <<m>> # <<>> /\ <<m>> # <<0>>
      BY <1>m
    <3> QED BY <1>i, <2>1, <3>1 DEF JfSlot, Owned
  <2>3. \A f \in followers : f.from # <<m>>
    BY <1>i, <2>1 DEF FollowersShape, FollowersUpTo
  <2> QED BY <2>2, <2>3 DEF NotBegun, JfOver
<1>1. JfShape'
  BY <1>i, <1>n, <1>g, <1>e DEF JfShape
<1>2. QueueKept'
  OBVIOUS
<1>3. JfSlot'
  BY <1>i, <1>n, <1>g, <1>e, SlotStays DEF JfSlot, Owned
<1>4. StartsCounted'
  <2>1. t \notin starts
    BY <1>d, <1>f
  <2>2. IsFiniteSet(starts') /\ Cardinality(starts') = Cardinality(starts) + 1
    BY <1>i, <1>e, <2>1, FS_AddElement DEF StartsCounted
  <2>3. \A x, y \in starts' : x.id = y.id => x = y
    BY <1>i, <1>d, <1>e, <1>f DEF StartsCounted
  <2>4. starts' \subseteq StartsUpTo(sessions', entries')
    BY <1>i, <1>n, <1>d, <1>e, <1>g DEF StartsCounted
  <2> QED BY <1>i, <1>e, <2>2, <2>3, <2>4 DEF StartsCounted
<1>5. FollowersShape'
  <2>1. \A g \in followers' :
           /\ g.pc \notin {"settle", "fetch"} => g.id # 0
           /\ g.pc # "settle" => g.entry # 0
           /\ \A s \in starts' : g.id # s.id
    BY <1>i, <1>d, <1>e, <1>f, <1>o DEF FollowersShape, SameFollower
  <2>2. followers' \subseteq FollowersUpTo(sessions', entries') /\ UniqueFollowers'
    BY <1>i, <1>n, <1>g, <1>o DEF FollowersShape
  <2>3. \A f \in followers', s \in starts' : f.id # s.id
    BY <2>1
  <2> QED BY <2>1, <2>2, <2>3 DEF FollowersShape
<1>6. SessionsKept'
  <2>1. \A id : NotBegun(id) => NotBegun(id)'
    BY <1>e, <1>p DEF NotBegun
  <2>2. \A g \in followers' : g.pc = "start" => NotBegun(g.id)
    BY <1>i, <1>o DEF SessionsKept, SameFollower
  <2>3. (Owned("jellyfin") => ~JfOver(owner.ref))'
    <3>1. Owned("jellyfin") => ~JfOver(owner.ref)
      BY <1>i DEF SessionsKept
    <3> QED BY <1>e, <1>p, <3>1 DEF Owned
  <2>4. \A s \in starts' : s.pc \in {"fetch", "start", "rollback"} => NotBegun(s.id)
    BY <1>i, <1>d, <1>e, <1>w DEF SessionsKept
  <2>5. \A g \in followers' : g.pc \in Unconfirmed \cup {"confirm"} /\ owner'.ref = <<g.id>>
           => owner'.gen = g.gen /\ owner'.req = g.entry
    BY <1>i, <1>e, <1>o DEF SessionsKept, SameFollower
  <2>6. (\A g \in followers : g.pc = "start" => NotBegun(g.id))'
    BY <2>1, <2>2
  <2>7. (\A s \in starts : s.pc \in {"fetch", "start", "rollback"} => NotBegun(s.id))'
    BY <2>1, <2>4
  <2> QED BY <2>3, <2>5, <2>6, <2>7 DEF SessionsKept
<1>7. ASSUME ~jfLimit'.together PROVE JfApart'
  <2>0. JfApart /\ starts = {} /\ starts' = {t}
    BY <1>e, <1>7 DEF JfInv
  <2>1. OneStart'
    BY <2>0 DEF OneStart
  <2>2. KeyKept'
    BY <1>d, <1>e, <1>p, <2>0 DEF JfApart, KeyKept, IsReplaced
  <2>3. EntriesKept'
    <3>0. /\ Contains(queue', e) => FALSE
          /\ e # 0 => Contains(queue, e)
      <4>1. ~Contains(queue', 0)
        <5>1. \A x : Contains(queue', x) => x \in 1..entries'
          <6>1. queue' \in Seq(1..entries')
            BY DEF QueueKept
          <6> QED BY <6>1, QueueOf
        <5> QED BY <5>1
      <4> QED BY <4>1
    <3>1. \A s \in starts' : s.pc \in {"fetch", "start"} =>
             ~Contains(queue', s.entry) /\ \A f \in followers' : f.pc = "confirm" => f.entry # s.entry
      <4>1. \A f \in followers' : f.pc = "confirm" => f.entry # 0 /\ ~Contains(queue, f.entry)
        BY <1>i, <1>o, <2>0 DEF FollowersShape, JfApart, EntriesKept, SameFollower
      <4>2. \A f \in followers' : f.pc = "confirm" => f.entry # e
        BY <3>0, <4>1
      <4> QED BY <1>d, <2>0, <3>0, <4>2
    <3>2. \A f \in followers' : f.pc = "confirm" =>
             /\ ~Contains(queue', f.entry)
             /\ Owned("jellyfin")' /\ owner'.req = f.entry => owner'.ref = <<f.id>> \/ IsFollowed'
      BY <1>e, <1>f, <1>o, <1>p, <2>0 DEF JfApart, EntriesKept, SameFollower
    <3>3. (Owned("jellyfin") /\ Contains(queue, owner.req) => IsFollowed)'
      BY <1>e, <1>f, <1>p, <2>0 DEF JfApart, EntriesKept, Owned
    <3>4. UniqueTakers'
      BY <1>o, <2>0 DEF JfApart, EntriesKept
    <3> QED BY <3>1, <3>2, <3>3, <3>4 DEF EntriesKept
  <2> QED BY <2>1, <2>2, <2>3 DEF JfApart
<1> QED BY <1>1, <1>2, <1>3, <1>4, <1>5, <1>6, <1>7 DEF JfInv

LEMMA HandlePlayNowKeeps == ASSUME JfInv, HandlePlayNow PROVE JfInv'
<1>1. PICK n \in 0..1 : entries' = entries + n /\ queue' = [i \in 1..n |-> entries + i]
  BY DEF HandlePlayNow
<1>2. entries \in Nat /\ entries' \in Nat /\ entries <= entries' /\ 0 \in 0..entries'
  BY <1>1 DEF JfInv, JfShape
<1>3. /\ queue' \in Seq(1..entries') /\ IsInjective(queue')
      /\ \A e : Contains(queue', e) => e \in (entries + 1)..entries'
  BY <1>1, <1>2, QueueNew
<1>4. QueueKept' /\ \A x \in 0..entries : Contains(queue', x) => Contains(queue, x)
  BY <1>2, <1>3 DEF QueueKept
<1>5. /\ BeginsStart(0, FALSE) /\ (~jfLimit.together => starts = {})
      /\ UNCHANGED <<jfLimit, currentRefKey, reporters, row, lost, owner, gens, told>>
  BY DEF HandlePlayNow, JfAsksFor, slotVars
<1> QED BY <1>2, <1>4, <1>5, BeginsStartKeeps

LEMMA RestartCurrentPlaybackKeeps == ASSUME JfInv, RestartCurrentPlayback PROVE JfInv'
<1>1. PICK paused \in BOOLEAN : BeginsStart(0, paused)
  BY DEF RestartCurrentPlayback, JfInv, JfSlot
<1>2. entries \in Nat /\ entries' = entries /\ queue' = queue
  BY DEF RestartCurrentPlayback, JfInv, JfShape
<1>3. /\ QueueKept' /\ entries' \in Nat /\ entries <= entries' /\ 0 \in 0..entries'
      /\ \A x \in 0..entries : Contains(queue', x) => Contains(queue, x)
  BY <1>2 DEF JfInv, QueueKept
<1>4. /\ ~jfLimit.together => starts = {}
      /\ UNCHANGED <<jfLimit, currentRefKey, reporters, row, lost, owner, gens, told>>
  BY DEF RestartCurrentPlayback, JfAsksFor, slotVars
<1> QED BY <1>1, <1>3, <1>4, BeginsStartKeeps

LEMMA PlaystateNextTrackKeeps == ASSUME JfInv, PlaystateNextTrack PROVE JfInv'
<1>1. /\ ~jfLimit.together => starts = {}
      /\ UNCHANGED <<jfLimit, currentRefKey, reporters, row, lost, entries, owner, gens, told>>
  BY DEF PlaystateNextTrack, JfAsksFor, slotVars
<1>2. CASE queue = <<>>
  <2>1. Overrides /\ UNCHANGED <<queue, pending, sessions, starts>>
    BY <1>2 DEF PlaystateNextTrack
  <2> QED BY <1>1, <2>1, OverridesOnlyKeeps
<1>3. CASE queue # <<>>
  <2>1. queue' = Tail(queue) /\ BeginsStart(Head(queue), FALSE)
    BY <1>3 DEF PlaystateNextTrack
  <2>2. entries \in Nat /\ queue \in Seq(1..entries) /\ IsInjective(queue)
    BY DEF JfInv, JfShape, QueueKept
  <2> DEFINE e == Head(queue)
  <2>3. /\ e \in 1..entries /\ Contains(queue, e) /\ queue' \in Seq(1..entries) /\ IsInjective(queue')
        /\ ~Contains(queue', e) /\ \A x : Contains(queue', x) => Contains(queue, x)
    BY <1>3, <2>1, <2>2, QueueTail
  <2>4. /\ QueueKept' /\ entries' \in Nat /\ entries <= entries' /\ e \in 0..entries'
        /\ \A x \in 0..entries : Contains(queue', x) => Contains(queue, x)
    BY <1>1, <2>2, <2>3 DEF QueueKept
  <2>5. BeginsStart(e, FALSE)
    BY <2>1
  <2>6. e \in 0..entries
    BY <2>2, <2>3
  <2> HIDE DEF e
  <2> QED BY <1>1, <2>3, <2>4, <2>5, <2>6, BeginsStartKeeps
<1> QED BY <1>2, <1>3

LEMMA ReservedKeeps ==
    ASSUME JfInv, NEW s \in starts, currentRefKey' = <<s.id>>, s.pc = "fetch",
           StartMoves(s, [s EXCEPT !.pc = "start", !.prev = currentRefKey]),
           UNCHANGED <<slotVars, JfElse, pending, reporters>>
    PROVE JfInv'
<1>i. JfShape /\ QueueKept /\ JfSlot /\ StartsCounted /\ FollowersShape /\ SessionsKept
  BY DEF JfInv
<1>s. /\ s.id \in Nat /\ s.id \in 1..sessions /\ s.id # 0 /\ s.entry \in 0..entries
      /\ s.prev \in JfRefs /\ s.paused \in BOOLEAN
  BY <1>i, AStart
<1>t. PICK t \in StartsUpTo(sessions, entries) :
         /\ t.pc = "start" /\ t.id = s.id /\ t.entry = s.entry /\ t.paused = s.paused /\ t.prev = currentRefKey
         /\ starts' = (starts \ {s}) \cup {t}
  <2>1. PICK u : u = [s EXCEPT !.pc = "start", !.prev = currentRefKey] /\ starts' = (starts \ {s}) \cup {u}
    BY DEF StartMoves
  <2>2. currentRefKey \in JfRefs
    BY <1>i DEF JfShape
  <2>3. s \in StartsUpTo(sessions, entries) /\ "start" \in StartSteps
    BY <1>i DEF StartsCounted, StartSteps
  <2> DEFINE g == [s EXCEPT !.pc = "start"]
  <2>4. /\ g \in StartsUpTo(sessions, entries)
        /\ g.pc = "start" /\ g.id = s.id /\ g.entry = s.entry /\ g.paused = s.paused
    BY <2>3 DEF StartsUpTo
  <2>5. u = [g EXCEPT !.prev = currentRefKey]
    BY <2>1, <2>3 DEF StartsUpTo
  <2> HIDE DEF g
  <2>6. /\ u \in StartsUpTo(sessions, entries)
        /\ u.pc = "start" /\ u.id = s.id /\ u.entry = s.entry /\ u.paused = s.paused /\ u.prev = currentRefKey
    BY <2>2, <2>4, <2>5 DEF StartsUpTo
  <2>7. starts' = (starts \ {s}) \cup {u}
    BY <2>1
  <2> QED BY <2>6, <2>7

<1>e. /\ UNCHANGED <<jfLimit, startEpoch, pending, queue, entries, followers, reporters, row, lost, sessions,
                     owner, gens, told>>
      /\ currentRefKey' = <<s.id>> /\ s.pc = "fetch" /\ <<s.id>> \in JfRefs
  BY <1>s DEF slotVars, jfState, JfElse, JfElse2, JfQuiet, JfRefs
<1>a. OneStart => starts = {s}
  BY DEF OneStart
<1>1. JfShape'
  BY <1>i, <1>s, <1>t, <1>e DEF JfShape
<1>2. QueueKept'
  BY <1>i, <1>s, <1>t, <1>e DEF QueueKept
<1>3. JfSlot'
  BY <1>i, <1>s, <1>t, <1>e, SlotStays DEF JfSlot, Owned
<1>4. StartsCounted'
  BY <1>i, <1>t, <1>e, StartMoved DEF StartMoves
<1>5. FollowersShape'
  BY <1>i, <1>t, <1>e DEF FollowersShape, UniqueFollowers
<1>6. SessionsKept'
  <2>1. (\A x \in starts : x.pc \in {"fetch", "start", "rollback"} => NotBegun(x.id))'
    BY <1>i, <1>t, <1>e DEF SessionsKept, NotBegun, JfOver
  <2> QED BY <1>i, <1>e, <2>1 DEF SessionsKept, JfOver, NotBegun, Owned
<1>7. ASSUME ~jfLimit'.together PROVE JfApart'
  <2>0. ~jfLimit.together /\ JfApart
    BY <1>e, <1>7 DEF JfInv
  <2>1. OneStart'
    BY <1>a, <1>t, <2>0 DEF JfApart, OneStart
  <2>2. KeyKept'
    <3>1. s.pc \in {"start", "rollback"} => currentRefKey = <<s.id>>
      BY <2>0 DEF JfApart, KeyKept
    <3>2. IsFollowed => IsFollowed'
      BY <1>e DEF IsFollowed
    <3>3. IsReplaced => s.pc \in {"start", "rollback"} /\ s.prev = owner.ref
      BY <1>a, <2>0 DEF JfApart, IsReplaced
    <3>4. starts' = {t}
      BY <1>a, <1>t, <2>0 DEF JfApart
    <3>5. (\A x \in starts : x.pc \in {"start", "rollback"} => currentRefKey = <<x.id>>)'
      BY <1>t, <1>e, <3>1, <3>4
    <3>6. (Owned("jellyfin") => currentRefKey = owner.ref \/ IsFollowed \/ IsReplaced)'
      <4>1. Owned("jellyfin") => currentRefKey = owner.ref \/ IsFollowed \/ IsReplaced
        BY <2>0 DEF JfApart, KeyKept
      <4> QED BY <1>t, <1>e, <3>2, <3>3, <3>4, <4>1 DEF IsReplaced, Owned
    <3> QED BY <3>5, <3>6 DEF KeyKept
  <2>3. EntriesKept'
    <3>1. IsFollowed <=> IsFollowed'
      BY <1>e DEF IsFollowed
    <3>2. (\A x \in starts : x.pc \in {"fetch", "start"} =>
             ~Contains(queue, x.entry) /\ \A f \in followers : f.pc = "confirm" => f.entry # x.entry)'
      BY <1>t, <1>e, <2>0 DEF JfApart, EntriesKept
    <3> QED BY <1>e, <2>0, <3>1, <3>2 DEF JfApart, EntriesKept, UniqueTakers, Owned
  <2> QED BY <2>1, <2>2, <2>3 DEF JfApart
<1> QED BY <1>1, <1>2, <1>3, <1>4, <1>5, <1>6, <1>7 DEF JfInv

LEMMA NotReservedKeeps ==
    ASSUME JfInv, NEW s \in starts, s.pc = "fetch", StartGoes(s, "finish"),
           UNCHANGED <<slotVars, JfElse, pending, reporters, currentRefKey>>
    PROVE JfInv'
<1>i. JfShape /\ QueueKept /\ JfSlot /\ StartsCounted /\ FollowersShape /\ SessionsKept
  BY DEF JfInv
<1>s. /\ s.id \in Nat /\ s.id \in 1..sessions /\ s.id # 0 /\ s.entry \in 0..entries
      /\ s.prev \in JfRefs /\ s.paused \in BOOLEAN
  BY <1>i, AStart
<1>t. PICK t \in StartsUpTo(sessions, entries) :
         /\ t.pc = "finish" /\ t.id = s.id /\ t.entry = s.entry /\ t.paused = s.paused /\ t.prev = s.prev
         /\ starts' = (starts \ {s}) \cup {t}
  <2>1. "finish" \in StartSteps /\ currentRefKey \in JfRefs
    BY <1>i DEF StartSteps, JfShape
  <2> DEFINE u == [s EXCEPT !.pc = "finish"]
  <2>2. starts' = (starts \ {s}) \cup {u}
    BY DEF StartMoves, StartGoes
  <2>3. /\ u \in StartsUpTo(sessions, entries)
        /\ u.pc = "finish" /\ u.id = s.id /\ u.entry = s.entry /\ u.paused = s.paused /\ u.prev = s.prev
    BY <1>i, <2>1, StartWent
  <2> HIDE DEF u
  <2> QED BY <2>2, <2>3

<1>e. UNCHANGED <<jfLimit, currentRefKey, startEpoch, pending, queue, entries, followers, reporters,
                  row, lost, sessions, owner, gens, told>> /\ s.pc = "fetch"
  BY DEF slotVars, jfState, JfElse, JfElse2, JfQuiet
<1>a. OneStart => starts = {s}
  BY DEF OneStart
<1>1. JfShape'
  BY <1>i, <1>s, <1>t, <1>e DEF JfShape
<1>2. QueueKept'
  BY <1>i, <1>s, <1>t, <1>e DEF QueueKept
<1>3. JfSlot'
  BY <1>i, <1>s, <1>t, <1>e, SlotStays DEF JfSlot, Owned
<1>4. StartsCounted'
  BY <1>i, <1>t, <1>e, StartMoved DEF StartMoves
<1>5. FollowersShape'
  BY <1>i, <1>t, <1>e DEF FollowersShape, UniqueFollowers
<1>6. SessionsKept'
  <2>1. (\A x \in starts : x.pc \in {"fetch", "start", "rollback"} => NotBegun(x.id))'
    BY <1>i, <1>t, <1>e DEF SessionsKept, NotBegun, JfOver
  <2> QED BY <1>i, <1>e, <2>1 DEF SessionsKept, JfOver, NotBegun, Owned
<1>7. ASSUME ~jfLimit'.together PROVE JfApart'
  <2>0. ~jfLimit.together /\ JfApart
    BY <1>e, <1>7 DEF JfInv
  <2>1. OneStart'
    BY <1>a, <1>t, <2>0 DEF JfApart, OneStart
  <2>2. KeyKept'
    <3>1. s.pc \in {"start", "rollback"} => currentRefKey = <<s.id>>
      BY <2>0 DEF JfApart, KeyKept
    <3>2. IsFollowed => IsFollowed'
      BY <1>e DEF IsFollowed
    <3>3. IsReplaced => s.pc \in {"start", "rollback"} /\ s.prev = owner.ref
      BY <1>a, <2>0 DEF JfApart, IsReplaced
    <3>4. starts' = {t}
      BY <1>a, <1>t, <2>0 DEF JfApart
    <3>5. (\A x \in starts : x.pc \in {"start", "rollback"} => currentRefKey = <<x.id>>)'
      BY <1>t, <1>e, <3>1, <3>4
    <3>6. (Owned("jellyfin") => currentRefKey = owner.ref \/ IsFollowed \/ IsReplaced)'
      <4>1. Owned("jellyfin") => currentRefKey = owner.ref \/ IsFollowed \/ IsReplaced
        BY <2>0 DEF JfApart, KeyKept
      <4> QED BY <1>t, <1>e, <3>2, <3>3, <3>4, <4>1 DEF IsReplaced, Owned
    <3> QED BY <3>5, <3>6 DEF KeyKept
  <2>3. EntriesKept'
    <3>1. IsFollowed <=> IsFollowed'
      BY <1>e DEF IsFollowed
    <3>2. (\A x \in starts : x.pc \in {"fetch", "start"} =>
             ~Contains(queue, x.entry) /\ \A f \in followers : f.pc = "confirm" => f.entry # x.entry)'
      BY <1>t, <1>e, <2>0 DEF JfApart, EntriesKept
    <3> QED BY <1>e, <2>0, <3>1, <3>2 DEF JfApart, EntriesKept, UniqueTakers, Owned
  <2> QED BY <2>1, <2>2, <2>3 DEF JfApart
<1> QED BY <1>1, <1>2, <1>3, <1>4, <1>5, <1>6, <1>7 DEF JfInv

LEMMA RollbackSelfPreemptKeeps ==
    ASSUME JfInv, NEW s \in starts, RollbackSelfPreempt(s) PROVE JfInv'
<1>i. JfShape /\ QueueKept /\ JfSlot /\ StartsCounted /\ FollowersShape /\ SessionsKept
  BY DEF JfInv
<1>s. /\ s.id \in Nat /\ s.id \in 1..sessions /\ s.id # 0 /\ s.entry \in 0..entries
      /\ s.prev \in JfRefs /\ s.paused \in BOOLEAN
  BY <1>i, AStart
<1>t. PICK t \in StartsUpTo(sessions, entries) :
         /\ t.pc = "finish" /\ t.id = s.id /\ t.entry = s.entry /\ t.paused = s.paused /\ t.prev = s.prev
         /\ starts' = (starts \ {s}) \cup {t}
  <2>1. "finish" \in StartSteps /\ currentRefKey \in JfRefs
    BY <1>i DEF StartSteps, JfShape
  <2> DEFINE u == [s EXCEPT !.pc = "finish"]
  <2>2. starts' = (starts \ {s}) \cup {u}
    BY DEF RollbackSelfPreempt, StartMoves, StartGoes
  <2>3. /\ u \in StartsUpTo(sessions, entries)
        /\ u.pc = "finish" /\ u.id = s.id /\ u.entry = s.entry /\ u.paused = s.paused /\ u.prev = s.prev
    BY <1>i, <2>1, StartWent
  <2> HIDE DEF u
  <2> QED BY <2>2, <2>3

<1>e. UNCHANGED <<jfLimit, startEpoch, pending, queue, entries, followers, reporters, row, lost, sessions,
                  owner, gens, told>> /\ s.pc = "rollback" /\ currentRefKey' = s.prev
  BY DEF RollbackSelfPreempt, slotVars, jfState, JfElse, JfElse2, JfQuiet
<1>o. owner.ref # <<s.id>>
  BY <1>i, <1>e DEF SessionsKept, NotBegun
<1>a. OneStart => starts = {s}
  BY DEF OneStart
<1>1. JfShape'
  BY <1>i, <1>s, <1>t, <1>e DEF JfShape
<1>2. QueueKept'
  BY <1>i, <1>s, <1>t, <1>e DEF QueueKept
<1>3. JfSlot'
  BY <1>i, <1>s, <1>t, <1>e, SlotStays DEF JfSlot, Owned
<1>4. StartsCounted'
  BY <1>i, <1>t, <1>e, StartMoved DEF StartMoves
<1>5. FollowersShape'
  BY <1>i, <1>t, <1>e DEF FollowersShape, UniqueFollowers
<1>6. SessionsKept'
  <2>1. (\A x \in starts : x.pc \in {"fetch", "start", "rollback"} => NotBegun(x.id))'
    BY <1>i, <1>t, <1>e DEF SessionsKept, NotBegun, JfOver
  <2> QED BY <1>i, <1>e, <2>1 DEF SessionsKept, JfOver, NotBegun, Owned
<1>7. ASSUME ~jfLimit'.together PROVE JfApart'
  <2>0. ~jfLimit.together /\ JfApart
    BY <1>e, <1>7 DEF JfInv
  <2>1. OneStart'
    BY <1>a, <1>t, <2>0 DEF JfApart, OneStart
  <2>2. KeyKept'
    <3>1. s.pc \in {"start", "rollback"} => currentRefKey = <<s.id>>
      BY <2>0 DEF JfApart, KeyKept
    <3>2. IsFollowed => IsFollowed'
      BY <1>e DEF IsFollowed
    <3>3. IsReplaced => s.pc \in {"start", "rollback"} /\ s.prev = owner.ref
      BY <1>a, <2>0 DEF JfApart, IsReplaced
    <3>4. starts' = {t}
      BY <1>a, <1>t, <2>0 DEF JfApart
    <3>5. (\A x \in starts : x.pc \in {"start", "rollback"} => currentRefKey = <<x.id>>)'
      BY <1>t, <1>e, <3>1, <3>4
    <3>6. (Owned("jellyfin") => currentRefKey = owner.ref \/ IsFollowed \/ IsReplaced)'
      <4>1. Owned("jellyfin") => currentRefKey = owner.ref \/ IsFollowed \/ IsReplaced
        BY <2>0 DEF JfApart, KeyKept
      <4> QED BY <1>t, <1>e, <1>o, <3>1, <3>2, <3>3, <3>4, <4>1 DEF IsReplaced, Owned
    <3> QED BY <3>5, <3>6 DEF KeyKept
  <2>3. EntriesKept'
    <3>1. IsFollowed <=> IsFollowed'
      BY <1>e DEF IsFollowed
    <3>2. (\A x \in starts : x.pc \in {"fetch", "start"} =>
             ~Contains(queue, x.entry) /\ \A f \in followers : f.pc = "confirm" => f.entry # x.entry)'
      BY <1>t, <1>e, <2>0 DEF JfApart, EntriesKept
    <3> QED BY <1>e, <2>0, <3>1, <3>2 DEF JfApart, EntriesKept, UniqueTakers, Owned
  <2> QED BY <2>1, <2>2, <2>3 DEF JfApart
<1> QED BY <1>1, <1>2, <1>3, <1>4, <1>5, <1>6, <1>7 DEF JfInv

LEMMA StartInstallsKeeps ==
    ASSUME JfInv, NEW s \in starts, s.pc = "start", Installs(JfSession(s.id, s.entry)), StartGoes(s, "pause"),
           UNCHANGED <<JfElse, currentRefKey, pending, reporters>>
    PROVE JfInv'
<1>i. JfShape /\ QueueKept /\ JfSlot /\ StartsCounted /\ FollowersShape /\ SessionsKept
  BY DEF JfInv
<1>s. /\ s.id \in Nat /\ s.id \in 1..sessions /\ s.id # 0 /\ s.entry \in 0..entries
      /\ s.prev \in JfRefs /\ s.paused \in BOOLEAN
  BY <1>i, AStart
<1>t. PICK t \in StartsUpTo(sessions, entries) :
         /\ t.pc = "pause" /\ t.id = s.id /\ t.entry = s.entry /\ t.paused = s.paused /\ t.prev = s.prev
         /\ starts' = (starts \ {s}) \cup {t}
  <2>1. "pause" \in StartSteps /\ currentRefKey \in JfRefs
    BY <1>i DEF StartSteps, JfShape
  <2> DEFINE u == [s EXCEPT !.pc = "pause"]
  <2>2. starts' = (starts \ {s}) \cup {u}
    BY DEF StartMoves, StartGoes
  <2>3. /\ u \in StartsUpTo(sessions, entries)
        /\ u.pc = "pause" /\ u.id = s.id /\ u.entry = s.entry /\ u.paused = s.paused /\ u.prev = s.prev
    BY <1>i, <2>1, StartWent
  <2> HIDE DEF u
  <2> QED BY <2>2, <2>3

<1>e. /\ UNCHANGED <<jfLimit, currentRefKey, startEpoch, pending, queue, entries, followers, reporters,
                     row, lost, sessions>> /\ s.pc = "start"
      /\ JfSlot' /\ owner'.by = "jellyfin" /\ owner'.ref = <<s.id>> /\ owner'.req = s.entry
      /\ owner'.gen = gens + 1 /\ gens' = gens + 1 /\ JfTells
  <2>1. UNCHANGED <<jfLimit, currentRefKey, startEpoch, pending, queue, entries, followers, reporters,
                    row, lost, sessions>>
    BY DEF slotVars, jfState, JfElse, JfElse2, JfQuiet
  <2> QED BY <1>i, <1>s, <2>1, JfInstalled
<1>n. NotBegun(s.id)
  BY <1>i, <1>e DEF SessionsKept
<1>v. ASSUME NEW ref, JfOver(ref)' PROVE JfOver(ref) \/ (Owned("jellyfin") /\ owner.ref = ref)
  BY <1>e, <1>v DEF JfOver, JfTells
<1>a. OneStart => starts = {s}
  BY DEF OneStart
<1>1. JfShape'
  BY <1>i, <1>s, <1>t, <1>e DEF JfShape
<1>2. QueueKept'
  BY <1>i, <1>s, <1>t, <1>e DEF QueueKept
<1>3. JfSlot'
  BY <1>e
<1>4. StartsCounted'
  BY <1>i, <1>t, <1>e, StartMoved DEF StartMoves
<1>5. FollowersShape'
  BY <1>i, <1>t, <1>e DEF FollowersShape, UniqueFollowers
<1>6. SessionsKept'
  <2>1. (~JfOver(owner.ref))'
    BY <1>e, <1>n, <1>v DEF NotBegun
  <2>2. \A id \in Nat : NotBegun(id) /\ id # s.id => NotBegun(id)'
    BY <1>e, <1>s, <1>v DEF NotBegun
  <2>3. \A x \in starts : x.id \in Nat
    BY <1>i, AStart
  <2>4. \A x \in starts' : x.pc \in {"fetch", "start", "rollback"} => x \in starts /\ x.id # s.id
    BY <1>i, <1>t DEF StartsCounted
  <2>5. (\A x \in starts : x.pc \in {"fetch", "start", "rollback"} => NotBegun(x.id))'
    BY <1>i, <2>2, <2>3, <2>4 DEF SessionsKept
  <2>6. \A f \in followers : f.id \in Nat /\ f.id # s.id
    BY <1>i DEF FollowersShape, FollowersUpTo, JfShape
  <2>7. (\A f \in followers : f.pc = "start" => NotBegun(f.id))'
    BY <1>i, <1>e, <2>2, <2>6 DEF SessionsKept
  <2> QED BY <1>e, <1>s, <2>1, <2>5, <2>6, <2>7 DEF SessionsKept
<1>7. ASSUME ~jfLimit'.together PROVE JfApart'
  <2>0. ~jfLimit.together /\ JfApart
    BY <1>e, <1>7 DEF JfInv
  <2>1. OneStart'
    BY <1>a, <1>t, <2>0 DEF JfApart, OneStart
  <2>2. KeyKept'
    <3>1. starts' = {t} /\ currentRefKey = <<s.id>>
      BY <1>a, <1>t, <1>e, <2>0 DEF JfApart, KeyKept
    <3> QED BY <1>t, <1>e, <3>1 DEF KeyKept
  <2>3. EntriesKept'
    <3>1. ~Contains(queue, s.entry) /\ \A f \in followers : f.pc = "confirm" => f.entry # s.entry
      BY <1>e, <2>0 DEF JfApart, EntriesKept
    <3>2. starts' = {t}
      BY <1>a, <1>t, <2>0 DEF JfApart
    <3> QED BY <1>t, <1>e, <2>0, <3>1, <3>2 DEF JfApart, EntriesKept, UniqueTakers, Owned
  <2> QED BY <2>1, <2>2, <2>3 DEF JfApart
<1> QED BY <1>1, <1>2, <1>3, <1>4, <1>5, <1>6, <1>7 DEF JfInv

LEMMA StartFailsKeeps ==
    ASSUME JfInv, NEW s \in starts, s.pc = "start", StartGoes(s, "rollback"),
           UNCHANGED <<slotVars, JfElse, currentRefKey, pending, reporters>>
    PROVE JfInv'
<1>i. JfShape /\ QueueKept /\ JfSlot /\ StartsCounted /\ FollowersShape /\ SessionsKept
  BY DEF JfInv
<1>s. /\ s.id \in Nat /\ s.id \in 1..sessions /\ s.id # 0 /\ s.entry \in 0..entries
      /\ s.prev \in JfRefs /\ s.paused \in BOOLEAN
  BY <1>i, AStart
<1>t. PICK t \in StartsUpTo(sessions, entries) :
         /\ t.pc = "rollback" /\ t.id = s.id /\ t.entry = s.entry /\ t.paused = s.paused /\ t.prev = s.prev
         /\ starts' = (starts \ {s}) \cup {t}
  <2>1. "rollback" \in StartSteps /\ currentRefKey \in JfRefs
    BY <1>i DEF StartSteps, JfShape
  <2> DEFINE u == [s EXCEPT !.pc = "rollback"]
  <2>2. starts' = (starts \ {s}) \cup {u}
    BY DEF StartMoves, StartGoes
  <2>3. /\ u \in StartsUpTo(sessions, entries)
        /\ u.pc = "rollback" /\ u.id = s.id /\ u.entry = s.entry /\ u.paused = s.paused /\ u.prev = s.prev
    BY <1>i, <2>1, StartWent
  <2> HIDE DEF u
  <2> QED BY <2>2, <2>3

<1>e. UNCHANGED <<jfLimit, currentRefKey, startEpoch, pending, queue, entries, followers, reporters,
                  row, lost, sessions, owner, gens, told>> /\ s.pc = "start"
  BY DEF slotVars, jfState, JfElse, JfElse2, JfQuiet
<1>a. OneStart => starts = {s}
  BY DEF OneStart
<1>1. JfShape'
  BY <1>i, <1>s, <1>t, <1>e DEF JfShape
<1>2. QueueKept'
  BY <1>i, <1>s, <1>t, <1>e DEF QueueKept
<1>3. JfSlot'
  BY <1>i, <1>s, <1>t, <1>e, SlotStays DEF JfSlot, Owned
<1>4. StartsCounted'
  BY <1>i, <1>t, <1>e, StartMoved DEF StartMoves
<1>5. FollowersShape'
  BY <1>i, <1>t, <1>e DEF FollowersShape, UniqueFollowers
<1>6. SessionsKept'
  <2>1. (\A x \in starts : x.pc \in {"fetch", "start", "rollback"} => NotBegun(x.id))'
    BY <1>i, <1>t, <1>e DEF SessionsKept, NotBegun, JfOver
  <2> QED BY <1>i, <1>e, <2>1 DEF SessionsKept, JfOver, NotBegun, Owned
<1>7. ASSUME ~jfLimit'.together PROVE JfApart'
  <2>0. ~jfLimit.together /\ JfApart
    BY <1>e, <1>7 DEF JfInv
  <2>1. OneStart'
    BY <1>a, <1>t, <2>0 DEF JfApart, OneStart
  <2>2. KeyKept'
    <3>1. s.pc \in {"start", "rollback"} => currentRefKey = <<s.id>>
      BY <2>0 DEF JfApart, KeyKept
    <3>2. IsFollowed => IsFollowed'
      BY <1>e DEF IsFollowed
    <3>3. IsReplaced => s.pc \in {"start", "rollback"} /\ s.prev = owner.ref
      BY <1>a, <2>0 DEF JfApart, IsReplaced
    <3>4. starts' = {t}
      BY <1>a, <1>t, <2>0 DEF JfApart
    <3>5. (\A x \in starts : x.pc \in {"start", "rollback"} => currentRefKey = <<x.id>>)'
      BY <1>t, <1>e, <3>1, <3>4
    <3>6. (Owned("jellyfin") => currentRefKey = owner.ref \/ IsFollowed \/ IsReplaced)'
      <4>1. Owned("jellyfin") => currentRefKey = owner.ref \/ IsFollowed \/ IsReplaced
        BY <2>0 DEF JfApart, KeyKept
      <4> QED BY <1>t, <1>e, <3>2, <3>3, <3>4, <4>1 DEF IsReplaced, Owned
    <3> QED BY <3>5, <3>6 DEF KeyKept
  <2>3. EntriesKept'
    <3>1. IsFollowed <=> IsFollowed'
      BY <1>e DEF IsFollowed
    <3>2. (\A x \in starts : x.pc \in {"fetch", "start"} =>
             ~Contains(queue, x.entry) /\ \A f \in followers : f.pc = "confirm" => f.entry # x.entry)'
      BY <1>t, <1>e, <2>0 DEF JfApart, EntriesKept
    <3> QED BY <1>e, <2>0, <3>1, <3>2 DEF JfApart, EntriesKept, UniqueTakers, Owned
  <2> QED BY <2>1, <2>2, <2>3 DEF JfApart
<1> QED BY <1>1, <1>2, <1>3, <1>4, <1>5, <1>6, <1>7 DEF JfInv

LEMMA StartFailsLateKeeps ==
    ASSUME JfInv, NEW s \in starts, s.pc = "start", StartGoes(s, "rollback"), Empties("preempted"),
           UNCHANGED <<JfElse, currentRefKey, pending, reporters>>
    PROVE JfInv'
<1>i. JfShape /\ QueueKept /\ JfSlot /\ StartsCounted /\ FollowersShape /\ SessionsKept
  BY DEF JfInv
<1>s. /\ s.id \in Nat /\ s.id \in 1..sessions /\ s.id # 0 /\ s.entry \in 0..entries
      /\ s.prev \in JfRefs /\ s.paused \in BOOLEAN
  BY <1>i, AStart
<1>t. PICK t \in StartsUpTo(sessions, entries) :
         /\ t.pc = "rollback" /\ t.id = s.id /\ t.entry = s.entry /\ t.paused = s.paused /\ t.prev = s.prev
         /\ starts' = (starts \ {s}) \cup {t}
  <2>1. "rollback" \in StartSteps /\ currentRefKey \in JfRefs
    BY <1>i DEF StartSteps, JfShape
  <2> DEFINE u == [s EXCEPT !.pc = "rollback"]
  <2>2. starts' = (starts \ {s}) \cup {u}
    BY DEF StartMoves, StartGoes
  <2>3. /\ u \in StartsUpTo(sessions, entries)
        /\ u.pc = "rollback" /\ u.id = s.id /\ u.entry = s.entry /\ u.paused = s.paused /\ u.prev = s.prev
    BY <1>i, <2>1, StartWent
  <2> HIDE DEF u
  <2> QED BY <2>2, <2>3

<1>e. /\ UNCHANGED <<jfLimit, currentRefKey, startEpoch, pending, queue, entries, followers, reporters,
                     row, lost, sessions>> /\ s.pc = "start"
      /\ JfSlot' /\ owner'.by = "none" /\ owner'.ref = <<>> /\ gens' = gens /\ JfTells
  <2>1. UNCHANGED <<jfLimit, currentRefKey, startEpoch, pending, queue, entries, followers, reporters,
                    row, lost, sessions>>
    BY DEF slotVars, jfState, JfElse, JfElse2, JfQuiet
  <2> QED BY <1>i, <2>1, JfEmptied
<1>v. ASSUME NEW ref, JfOver(ref)' PROVE JfOver(ref) \/ (Owned("jellyfin") /\ owner.ref = ref)
  BY <1>e, <1>v DEF JfOver, JfTells
<1>a. OneStart => starts = {s}
  BY DEF OneStart
<1>1. JfShape'
  BY <1>i, <1>s, <1>t, <1>e DEF JfShape
<1>2. QueueKept'
  BY <1>i, <1>s, <1>t, <1>e DEF QueueKept
<1>3. JfSlot'
  BY <1>e
<1>4. StartsCounted'
  BY <1>i, <1>t, <1>e, StartMoved DEF StartMoves
<1>5. FollowersShape'
  BY <1>i, <1>t, <1>e DEF FollowersShape, UniqueFollowers
<1>6. SessionsKept'
  <2>1. \A id : NotBegun(id) => ~JfOver(<<id>>)'
    BY <1>v DEF NotBegun
  <2>2. ASSUME NEW x \in starts', x.pc \in {"fetch", "start", "rollback"} PROVE NotBegun(x.id)'
    <3>1. NotBegun(x.id) /\ x.id # 0 /\ x.id \in Nat
      BY <1>i, <1>t, <1>e, <2>2 DEF SessionsKept, StartsCounted, StartsUpTo, JfShape
    <3>2. owner'.ref # <<x.id>>
      BY <1>e, <3>1 DEF NotBegun
    <3> QED BY <1>v, <3>1, <3>2 DEF NotBegun
  <2>3. ASSUME NEW y \in followers', y.pc = "start" PROVE NotBegun(y.id)'
    <3>1. NotBegun(y.id) /\ y.id # 0 /\ y.id \in Nat
      BY <1>i, <1>e, <2>3 DEF SessionsKept, FollowersShape, FollowersUpTo, JfShape
    <3>2. owner'.ref # <<y.id>>
      BY <1>e, <3>1 DEF NotBegun
    <3> QED BY <1>v, <3>1, <3>2 DEF NotBegun
  <2>4. \A y \in followers' : y.pc \in Unconfirmed \cup {"confirm"} => owner'.ref # <<y.id>>
    <3>1. \A y \in followers : y.pc \in Unconfirmed \cup {"confirm"} => y.id # 0
      BY <1>i DEF FollowersShape, Unconfirmed
    <3> QED BY <1>e, <3>1
  <2> QED BY <1>e, <2>2, <2>3, <2>4 DEF SessionsKept, Owned
<1>7. ASSUME ~jfLimit'.together PROVE JfApart'
  <2>0. ~jfLimit.together /\ JfApart
    BY <1>e, <1>7 DEF JfInv
  <2>1. OneStart'
    BY <1>a, <1>t, <2>0 DEF JfApart, OneStart
  <2>2. KeyKept'
    <3>1. starts' = {t} /\ currentRefKey = <<s.id>>
      BY <1>a, <1>t, <1>e, <2>0 DEF JfApart, KeyKept
    <3> QED BY <1>t, <1>e, <3>1 DEF KeyKept, Owned
  <2>3. EntriesKept'
    <3>1. starts' = {t}
      BY <1>a, <1>t, <2>0 DEF JfApart
    <3> QED BY <1>t, <1>e, <2>0, <3>1 DEF JfApart, EntriesKept, UniqueTakers, Owned
  <2> QED BY <2>1, <2>2, <2>3 DEF JfApart
<1> QED BY <1>1, <1>2, <1>3, <1>4, <1>5, <1>6, <1>7 DEF JfInv

LEMMA CommitSelfPreemptKeeps ==
    ASSUME JfInv, NEW s \in starts, CommitSelfPreempt(s) PROVE JfInv'
<1>i. JfShape /\ QueueKept /\ JfSlot /\ StartsCounted /\ FollowersShape /\ SessionsKept
  BY DEF JfInv
<1>s. /\ s.id \in Nat /\ s.id \in 1..sessions /\ s.id # 0 /\ s.entry \in 0..entries
      /\ s.prev \in JfRefs /\ s.paused \in BOOLEAN
  BY <1>i, AStart
<1>t. PICK t \in StartsUpTo(sessions, entries) :
         /\ t.pc = "finish" /\ t.id = s.id /\ t.entry = s.entry /\ t.paused = s.paused /\ t.prev = s.prev
         /\ starts' = (starts \ {s}) \cup {t}
  <2>1. "finish" \in StartSteps /\ currentRefKey \in JfRefs
    BY <1>i DEF StartSteps, JfShape
  <2> DEFINE u == [s EXCEPT !.pc = "finish"]
  <2>2. starts' = (starts \ {s}) \cup {u}
    BY DEF CommitSelfPreempt, StartMoves, StartGoes
  <2>3. /\ u \in StartsUpTo(sessions, entries)
        /\ u.pc = "finish" /\ u.id = s.id /\ u.entry = s.entry /\ u.paused = s.paused /\ u.prev = s.prev
    BY <1>i, <2>1, StartWent
  <2> HIDE DEF u
  <2> QED BY <2>2, <2>3

<1>e. /\ UNCHANGED <<jfLimit, currentRefKey, startEpoch, pending, queue, entries, followers, row, lost,
                     sessions, gens, told>> /\ s.pc = "pause"
      /\ SlotShape' /\ owner'.by = owner.by /\ owner'.gen = owner.gen /\ owner'.req = owner.req
      /\ owner'.ref = owner.ref /\ owner'.paused \in BOOLEAN
      /\ reporters' \subseteq ReportersUpTo(sessions)
  <2>1. reporters' = reporters \cup {[id |-> s.id, pc |-> "begin"]}
    BY DEF CommitSelfPreempt, SpawnReporter
  <2>2. reporters' \subseteq ReportersUpTo(sessions)
    BY <1>i, <1>s, <2>1 DEF JfShape, ReportersUpTo, ReporterSteps
  <2>3. CASE owner' = owner
    BY <1>i, <2>2, <2>3, SlotStays DEF CommitSelfPreempt, JfSlot, SetPaused, slotVars, jfState,
       JfElse, JfElse2, JfQuiet
  <2>4. CASE SetPaused(TRUE) /\ ~Idle
    <3>1. owner'.paused = TRUE /\ SlotShape' /\ owner'.by = owner.by /\ owner'.gen = owner.gen
          /\ owner'.req = owner.req /\ owner'.ref = owner.ref
      BY <1>i, <2>4, Paused DEF JfSlot
    <3> QED BY <2>2, <2>4, <3>1 DEF CommitSelfPreempt, SetPaused, slotVars, jfState, JfElse,
       JfElse2, JfQuiet
  <2> QED BY <2>3, <2>4 DEF CommitSelfPreempt, SetPaused, slotVars
<1>a. OneStart => starts = {s}
  BY DEF OneStart
<1>1. JfShape'
  BY <1>i, <1>s, <1>t, <1>e DEF JfShape
<1>2. QueueKept'
  BY <1>i, <1>s, <1>t, <1>e DEF QueueKept
<1>3. JfSlot'
  BY <1>i, <1>e DEF JfSlot, Owned
<1>4. StartsCounted'
  BY <1>i, <1>t, <1>e, StartMoved DEF StartMoves
<1>5. FollowersShape'
  BY <1>i, <1>t, <1>e DEF FollowersShape, UniqueFollowers
<1>6. SessionsKept'
  <2>1. (\A x \in starts : x.pc \in {"fetch", "start", "rollback"} => NotBegun(x.id))'
    BY <1>i, <1>t, <1>e DEF SessionsKept, NotBegun, JfOver
  <2> QED BY <1>i, <1>e, <2>1 DEF SessionsKept, JfOver, NotBegun, Owned
<1>7. ASSUME ~jfLimit'.together PROVE JfApart'
  <2>0. ~jfLimit.together /\ JfApart
    BY <1>e, <1>7 DEF JfInv
  <2>1. OneStart'
    BY <1>a, <1>t, <2>0 DEF JfApart, OneStart
  <2>2. KeyKept'
    <3>1. s.pc \in {"start", "rollback"} => currentRefKey = <<s.id>>
      BY <2>0 DEF JfApart, KeyKept
    <3>2. IsFollowed => IsFollowed'
      BY <1>e DEF IsFollowed
    <3>3. IsReplaced => s.pc \in {"start", "rollback"} /\ s.prev = owner.ref
      BY <1>a, <2>0 DEF JfApart, IsReplaced
    <3>4. starts' = {t}
      BY <1>a, <1>t, <2>0 DEF JfApart
    <3>5. (\A x \in starts : x.pc \in {"start", "rollback"} => currentRefKey = <<x.id>>)'
      BY <1>t, <1>e, <3>1, <3>4
    <3>6. (Owned("jellyfin") => currentRefKey = owner.ref \/ IsFollowed \/ IsReplaced)'
      <4>1. Owned("jellyfin") => currentRefKey = owner.ref \/ IsFollowed \/ IsReplaced
        BY <2>0 DEF JfApart, KeyKept
      <4> QED BY <1>t, <1>e, <3>2, <3>3, <3>4, <4>1 DEF IsReplaced, Owned
    <3> QED BY <3>5, <3>6 DEF KeyKept
  <2>3. EntriesKept'
    <3>1. IsFollowed <=> IsFollowed'
      BY <1>e DEF IsFollowed
    <3>2. (\A x \in starts : x.pc \in {"fetch", "start"} =>
             ~Contains(queue, x.entry) /\ \A f \in followers : f.pc = "confirm" => f.entry # x.entry)'
      BY <1>t, <1>e, <2>0 DEF JfApart, EntriesKept
    <3> QED BY <1>e, <2>0, <3>1, <3>2 DEF JfApart, EntriesKept, UniqueTakers, Owned
  <2> QED BY <2>1, <2>2, <2>3 DEF JfApart
<1> QED BY <1>1, <1>2, <1>3, <1>4, <1>5, <1>6, <1>7 DEF JfInv

LEMMA FinishStartKeeps ==
    ASSUME JfInv, NEW s \in starts, FinishStart(s) PROVE JfInv'
<1>i. JfShape /\ QueueKept /\ JfSlot /\ StartsCounted /\ FollowersShape /\ SessionsKept
  BY DEF JfInv
<1>s. /\ s.id \in Nat /\ s.id \in 1..sessions /\ s.id # 0 /\ s.entry \in 0..entries
      /\ s.prev \in JfRefs /\ s.paused \in BOOLEAN
  BY <1>i, AStart
<1>e. /\ UNCHANGED <<jfLimit, currentRefKey, startEpoch, queue, entries, followers, reporters, row, lost,
                     sessions, owner, gens, told>> /\ s.pc = "finish"
      /\ starts' = starts \ {s} /\ pending' = pending - 1
  BY DEF FinishStart, slotVars, jfState, JfElse, JfElse2, JfQuiet
<1>a. OneStart => starts = {s}
  BY DEF OneStart
<1>1. JfShape'
  BY <1>i, <1>s, <1>e DEF JfShape
<1>2. QueueKept'
  BY <1>i, <1>s, <1>e DEF QueueKept
<1>3. JfSlot'
  BY <1>i, <1>s, <1>e, SlotStays DEF JfSlot, Owned
<1>4. StartsCounted'
  <2>1. IsFiniteSet(starts') /\ Cardinality(starts') = Cardinality(starts) - 1
    BY <1>i, <1>e, FS_RemoveElement DEF StartsCounted
  <2> QED BY <1>i, <1>e, <2>1 DEF StartsCounted
<1>5. FollowersShape'
  BY <1>i, <1>e DEF FollowersShape, UniqueFollowers
<1>6. SessionsKept'
  <2>1. (\A x \in starts : x.pc \in {"fetch", "start", "rollback"} => NotBegun(x.id))'
    BY <1>i, <1>e DEF SessionsKept, NotBegun, JfOver
  <2> QED BY <1>i, <1>e, <2>1 DEF SessionsKept, JfOver, NotBegun, Owned
<1>7. ASSUME ~jfLimit'.together PROVE JfApart'
  <2>0. ~jfLimit.together /\ JfApart
    BY <1>e, <1>7 DEF JfInv
  <2>1. OneStart'
    BY <1>a, <1>e, <2>0 DEF JfApart, OneStart
  <2>2. KeyKept'
    <3>1. starts' = {} /\ ~IsReplaced
      BY <1>a, <1>e, <2>0 DEF JfApart, IsReplaced
    <3>2. IsFollowed => IsFollowed'
      BY <1>e DEF IsFollowed
    <3> QED BY <1>e, <2>0, <3>1, <3>2 DEF JfApart, KeyKept, Owned
  <2>3. EntriesKept'
    <3>1. IsFollowed <=> IsFollowed'
      BY <1>e DEF IsFollowed
    <3> QED BY <1>e, <2>0, <3>1 DEF JfApart, EntriesKept, UniqueTakers, Owned
  <2> QED BY <2>1, <2>2, <2>3 DEF JfApart
<1> QED BY <1>1, <1>2, <1>3, <1>4, <1>5, <1>6, <1>7 DEF JfInv

LEMMA StartsKeep == ASSUME JfInv, NEW s \in starts, Starts(s) PROVE JfInv'
<1>1. CASE Reserve(s)
  BY <1>1, ReservedKeeps, NotReservedKeeps DEF Reserve
<1>2. CASE StartCore(s)
  BY <1>2, StartInstallsKeeps, StartFailsKeeps, StartFailsLateKeeps DEF StartCore
<1>3. CASE RollbackSelfPreempt(s)
  BY <1>3, RollbackSelfPreemptKeeps
<1>4. CASE CommitSelfPreempt(s)
  BY <1>4, CommitSelfPreemptKeeps
<1>5. CASE FinishStart(s)
  BY <1>5, FinishStartKeeps
<1> QED BY <1>1, <1>2, <1>3, <1>4, <1>5 DEF Starts

LEMMA GivesUpKeeps ==
    ASSUME JfInv, NEW f \in followers, f.pc \notin Unconfirmed, GivesUp(f),
           reporters' \subseteq ReportersUpTo(sessions),
           UNCHANGED <<jfLimit, currentRefKey, startEpoch, pending, queue, entries, starts, row, lost,
                       sessions, owner, gens, told>>
    PROVE JfInv'
<1>i. JfShape /\ QueueKept /\ JfSlot /\ StartsCounted /\ FollowersShape /\ SessionsKept
  BY DEF JfInv
<1>f. /\ f \in FollowersUpTo(sessions, entries)
      /\ f.id \in Nat /\ f.id \in 0..sessions /\ f.entry \in 0..entries /\ f.from \in RefsUpTo(sessions)
      /\ f.from \in JfRefs
  BY <1>i, AFollower
<1>e. /\ UNCHANGED <<jfLimit, currentRefKey, startEpoch, pending, queue, entries, starts, row, lost,
                     sessions, owner, gens, told>>
      /\ followers' = followers \ {f} /\ reporters' \subseteq ReportersUpTo(sessions)
      /\ f.pc \notin Unconfirmed
  BY DEF GivesUp
<1>p. /\ IsFollowed' <=> IsFollowed
      /\ \A ref : JfOver(ref)' => JfOver(ref)
  BY <1>e DEF IsFollowed, JfOver
<1>1. JfShape'
  BY <1>i, <1>e DEF JfShape
<1>2. QueueKept'
  BY <1>i, <1>e DEF QueueKept
<1>3. JfSlot'
  BY <1>i, <1>e, SlotStays DEF JfSlot, Owned
<1>4. StartsCounted'
  BY <1>i, <1>e DEF StartsCounted
<1>5. FollowersShape'
  BY <1>i, <1>e DEF FollowersShape, UniqueFollowers
<1>6. SessionsKept'
  <2>1. \A id : NotBegun(id) => NotBegun(id)'
    BY <1>e, <1>p DEF NotBegun
  <2>2. (Owned("jellyfin") => ~JfOver(owner.ref))'
    BY <1>i, <1>e, <1>p DEF SessionsKept, Owned
  <2> QED BY <1>i, <1>e, <2>1, <2>2 DEF SessionsKept
<1>7. ASSUME ~jfLimit'.together PROVE JfApart'
  <2>0. ~jfLimit.together /\ JfApart
    BY <1>e, <1>7 DEF JfInv
  <2>1. OneStart'
    BY <1>e, <2>0 DEF JfApart, OneStart
  <2>2. KeyKept'
    BY <1>e, <1>p, <2>0 DEF JfApart, KeyKept, IsReplaced, Owned
  <2>3. EntriesKept'
    BY <1>e, <1>p, <2>0 DEF JfApart, EntriesKept, UniqueTakers, Owned
  <2> QED BY <2>1, <2>2, <2>3 DEF JfApart
<1> QED BY <1>1, <1>2, <1>3, <1>4, <1>5, <1>6, <1>7 DEF JfInv

LEMMA FollowerStepsKeeps ==
    ASSUME JfInv, NEW f \in followers, NEW g \in FollowersUpTo(sessions, entries), Follows(f, g),
           g.from = f.from /\ g.id = f.id,
           \/ f.pc = "settle" /\ g.pc = "fetch" /\ g.entry # 0
           \/ f.pc \in Unconfirmed /\ g.pc \in Unconfirmed /\ g.entry = f.entry /\ g.gen = f.gen,
           UNCHANGED <<jfLimit, currentRefKey, startEpoch, pending, queue, entries, starts, reporters,
                       row, lost, sessions, owner, gens, told>>
    PROVE JfInv'
<1>i. JfShape /\ QueueKept /\ JfSlot /\ StartsCounted /\ FollowersShape /\ SessionsKept
  BY DEF JfInv
<1>f. /\ f \in FollowersUpTo(sessions, entries)
      /\ f.id \in Nat /\ f.id \in 0..sessions /\ f.entry \in 0..entries /\ f.from \in RefsUpTo(sessions)
      /\ f.from \in JfRefs
  BY <1>i, AFollower
<1>e. /\ UNCHANGED <<jfLimit, currentRefKey, startEpoch, pending, queue, entries, starts, reporters,
                     row, lost, sessions, owner, gens, told>>
      /\ followers' = (followers \ {f}) \cup {g} /\ g \in FollowersUpTo(sessions, entries)
      /\ g.from = f.from /\ g.id = f.id
      /\ \/ f.pc = "settle" /\ g.pc = "fetch" /\ g.entry # 0
         \/ f.pc \in Unconfirmed /\ g.pc \in Unconfirmed /\ g.entry = f.entry /\ g.gen = f.gen
  BY DEF Follows
<1>u. \A p \in Unconfirmed : p \notin {"settle", "fetch", "start", "confirm"}
  BY DEF Unconfirmed
<1>p. /\ IsFollowed' <=> IsFollowed
      /\ \A ref : JfOver(ref)' => JfOver(ref)
  BY <1>e, <1>u DEF IsFollowed, JfOver
<1>1. JfShape'
  BY <1>i, <1>e DEF JfShape
<1>2. QueueKept'
  BY <1>i, <1>e DEF QueueKept
<1>3. JfSlot'
  BY <1>i, <1>e, SlotStays DEF JfSlot, Owned
<1>4. StartsCounted'
  BY <1>i, <1>e DEF StartsCounted
<1>5. FollowersShape'
  <2>1. /\ g.pc \notin {"settle", "fetch"} => g.id # 0
        /\ g.pc # "settle" => g.entry # 0
        /\ \A s \in starts : g.id # s.id
        /\ \A x \in followers : x # f /\ x.id = g.id => g.id = 0
    BY <1>i, <1>e, <1>u DEF FollowersShape, UniqueFollowers
  <2> QED BY <1>i, <1>e, <2>1 DEF FollowersShape, UniqueFollowers
<1>6. SessionsKept'
  <2>1. \A id : NotBegun(id) => NotBegun(id)'
    BY <1>e, <1>p DEF NotBegun
  <2>2. (Owned("jellyfin") => ~JfOver(owner.ref))'
    BY <1>i, <1>e, <1>p DEF SessionsKept, Owned
  <2>3. (\A x \in followers : x.pc = "start" => NotBegun(x.id))'
    BY <1>i, <1>e, <1>u, <2>1 DEF SessionsKept
  <2>4. (\A x \in followers : x.pc \in Unconfirmed \cup {"confirm"} /\ owner.ref = <<x.id>>
           => owner.gen = x.gen /\ owner.req = x.entry)'
    BY <1>i, <1>e, <1>u DEF SessionsKept
  <2>5. (\A s \in starts : s.pc \in {"fetch", "start", "rollback"} => NotBegun(s.id))'
    BY <1>i, <1>e, <2>1 DEF SessionsKept
  <2> QED BY <2>2, <2>3, <2>4, <2>5 DEF SessionsKept
<1>7. ASSUME ~jfLimit'.together PROVE JfApart'
  <2>0. ~jfLimit.together /\ JfApart
    BY <1>e, <1>7 DEF JfInv
  <2>1. OneStart'
    BY <1>e, <2>0 DEF JfApart, OneStart
  <2>2. KeyKept'
    BY <1>e, <1>p, <2>0 DEF JfApart, KeyKept, IsReplaced, Owned
  <2>3. EntriesKept'
    BY <1>e, <1>u, <1>p, <2>0 DEF JfApart, EntriesKept, UniqueTakers, Owned
  <2> QED BY <2>1, <2>2, <2>3 DEF JfApart
<1> QED BY <1>1, <1>2, <1>3, <1>4, <1>5, <1>6, <1>7 DEF JfInv

LEMMA AdvanceAfterEOFKeeps == ASSUME JfInv, NEW f \in followers, AdvanceAfterEOF(f) PROVE JfInv'
<1>1. /\ UNCHANGED <<jfLimit, currentRefKey, startEpoch, pending, queue, entries, starts, reporters,
                     row, lost, sessions, owner, gens, told>>
      /\ f.pc = "settle" /\ reporters' \subseteq ReportersUpTo(sessions)
  BY DEF AdvanceAfterEOF, JfInv, JfShape, slotVars, jfState, JfElse, JfElse2, JfQuiet
<1>2. f.pc \notin Unconfirmed
  BY <1>1 DEF Unconfirmed
<1>3. CASE GivesUp(f)
  BY <1>1, <1>2, <1>3, GivesUpKeeps
<1>4. CASE queue # <<>> /\ Follows(f, [f EXCEPT !.pc = "fetch", !.epoch = startEpoch, !.entry = Peek(queue)])
  <2>0. Follows(f, [f EXCEPT !.pc = "fetch", !.epoch = startEpoch, !.entry = Peek(queue)])
    BY <1>4
  <2>1. f \in FollowersUpTo(sessions, entries) /\ entries \in Nat /\ startEpoch \in Nat
    BY AFollower DEF JfInv, JfShape
  <2>2. PICK e : e = Peek(queue) /\ e \in 1..entries
    <3>1. queue \in Seq(1..entries) /\ IsInjective(queue)
      BY DEF JfInv, QueueKept
    <3> QED BY <1>4, <3>1, QueueTail DEF Peek
  <2>3. PICK d : d = startEpoch
    OBVIOUS
  <2> DEFINE h == [f EXCEPT !.pc = "fetch"]
             k == [h EXCEPT !.epoch = d]
             g == [k EXCEPT !.entry = e]
  <2>4. g = [f EXCEPT !.pc = "fetch", !.epoch = d, !.entry = e]
    BY <2>1 DEF FollowersUpTo
  <2>5. h \in FollowersUpTo(sessions, entries) /\ h.pc = "fetch" /\ h.from = f.from /\ h.id = f.id
    BY <2>1 DEF FollowersUpTo, FollowerSteps
  <2> HIDE DEF h
  <2>6. k \in FollowersUpTo(sessions, entries) /\ k.pc = "fetch" /\ k.from = f.from /\ k.id = f.id
    BY <2>1, <2>3, <2>5 DEF FollowersUpTo
  <2> HIDE DEF k
  <2>7. g \in FollowersUpTo(sessions, entries) /\ g.pc = "fetch" /\ g.from = f.from /\ g.id = f.id /\ g.entry = e
    BY <2>1, <2>2, <2>6 DEF FollowersUpTo
  <2>8. Follows(f, g)
    BY <2>0, <2>2, <2>3, <2>4 DEF Follows
  <2> HIDE DEF g
  <2>9. g.entry # 0
    BY <2>1, <2>2, <2>7
  <2> QED BY <1>1, <2>7, <2>8, <2>9, FollowerStepsKeeps
<1> QED BY <1>3, <1>4 DEF AdvanceAfterEOF

LEMMA StillUnconfirmed ==
    ASSUME JfInv, NEW f \in followers, f.pc \in Unconfirmed, NEW p \in Unconfirmed, FollowerGoes(f, p),
           UNCHANGED <<jfLimit, currentRefKey, startEpoch, pending, queue, entries, starts, reporters,
                       row, lost, sessions, owner, gens, told>>
    PROVE  JfInv'
<1>1. f \in FollowersUpTo(sessions, entries) /\ p \in FollowerSteps
  BY AFollower DEF JfInv, FollowerSteps
<1> DEFINE g == [f EXCEPT !.pc = p]
<1>2. /\ g \in FollowersUpTo(sessions, entries) /\ g.pc = p
      /\ g.from = f.from /\ g.entry = f.entry /\ g.id = f.id /\ g.gen = f.gen
  BY <1>1, FollowerWent
<1>3. Follows(f, g)
  BY DEF FollowerGoes
<1> HIDE DEF g
<1> QED BY <1>2, <1>3, FollowerStepsKeeps

LEMMA CheckStartedKeeps == ASSUME JfInv, NEW f \in followers, CheckStarted(f) PROVE JfInv'
<1>1. /\ UNCHANGED <<jfLimit, currentRefKey, startEpoch, pending, queue, entries, starts, reporters,
                     row, lost, sessions, owner, gens, told>>
      /\ f.pc = "check"
  BY DEF CheckStarted, slotVars, jfState, JfElse, JfElse2, JfQuiet
<1>2. PICK p \in Unconfirmed : FollowerGoes(f, p)
  BY DEF CheckStarted, Unconfirmed
<1> QED BY <1>1, <1>2, StillUnconfirmed DEF Unconfirmed

LEMMA NegotiatedKeeps ==
    ASSUME JfInv, NEW f \in followers, NEW m, m = sessions + 1, NEW g \in FollowersUpTo(m, entries),
           g.pc = "start", g.id = m, g.from = f.from, g.entry = f.entry,
           f.pc = "fetch", Idle, Follows(f, g), sessions' = m,
           UNCHANGED <<jfLimit, currentRefKey, startEpoch, pending, queue, entries, starts, reporters,
                       row, lost, owner, gens, told>>
    PROVE JfInv'
<1>i. JfShape /\ QueueKept /\ JfSlot /\ StartsCounted /\ FollowersShape /\ SessionsKept
  BY DEF JfInv
<1>f. /\ f \in FollowersUpTo(sessions, entries)
      /\ f.id \in Nat /\ f.id \in 0..sessions /\ f.entry \in 0..entries /\ f.from \in RefsUpTo(sessions)
      /\ f.from \in JfRefs
  BY <1>i, AFollower
<1>n. sessions \in Nat /\ sessions' = m /\ m \in Nat /\ sessions <= m /\ m \in 1..m /\ entries \in Nat
      /\ entries <= entries
  BY <1>i DEF JfShape
<1>m. ~(m <= sessions) /\ m # 0 /\ m \in 0..m
  BY <1>n
<1>g. /\ StartsUpTo(sessions, entries) \subseteq StartsUpTo(m, entries)
      /\ FollowersUpTo(sessions, entries) \subseteq FollowersUpTo(m, entries)
      /\ ReportersUpTo(sessions) \subseteq ReportersUpTo(m) /\ RefsUpTo(sessions) \subseteq RefsUpTo(m)
      /\ LostUpTo(sessions) \subseteq LostUpTo(m)
      /\ 0..sessions \subseteq 0..m
  BY <1>n, JfGrow
<1>d. g \in FollowersUpTo(m, entries) /\ g.pc = "start" /\ g.id = m /\ g.from = f.from /\ g.entry = f.entry
  OBVIOUS
<1>e. /\ UNCHANGED <<jfLimit, currentRefKey, startEpoch, pending, queue, entries, starts, reporters,
                     row, lost, owner, gens, told>> /\ f.pc = "fetch" /\ Idle /\ sessions' = m
      /\ followers' = (followers \ {f}) \cup {g}
  BY DEF Follows
<1>p. /\ ~Owned("jellyfin") /\ ~Owned("jellyfin")'
      /\ \A ref : JfOver(ref)' => JfOver(ref)
  BY <1>d, <1>e DEF JfOver, Idle, Owned
<1>q. /\ \A x \in followers : x.id # m
      /\ \A s \in starts : s.id # m
  BY <1>i, <1>n, <1>m DEF FollowersShape, FollowersUpTo, StartsCounted, StartsUpTo
<1>w. NotBegun(m)
  <2>1. \A ref \in RefsUpTo(sessions) : ref # <<m>>
    BY <1>n, <1>m DEF RefsUpTo
  <2>2. owner.ref # <<m>> /\ \A o \in told : o.of.ref # <<m>>
    <3>1. <<m>> # <<>> /\ <<m>> # <<0>>
      BY <1>m
    <3> QED BY <1>i, <2>1, <3>1 DEF JfSlot, Owned
  <2>3. \A x \in followers : x.from # <<m>>
    BY <1>i, <2>1 DEF FollowersShape, FollowersUpTo
  <2> QED BY <2>2, <2>3 DEF NotBegun, JfOver
<1>1. JfShape'
  BY <1>i, <1>n, <1>e, <1>g DEF JfShape
<1>2. QueueKept'
  BY <1>i, <1>n, <1>e, <1>g DEF QueueKept
<1>3. JfSlot'
  BY <1>i, <1>n, <1>e, <1>g, SlotStays DEF JfSlot, Owned
<1>4. StartsCounted'
  BY <1>i, <1>n, <1>e, <1>g DEF StartsCounted
<1>5. FollowersShape'
  <2>1. g.entry # 0 /\ \A s \in starts : g.id # s.id
    BY <1>i, <1>d, <1>e, <1>q DEF FollowersShape
  <2>2. \A x, y \in followers' : x.id # 0 /\ x.id = y.id => x = y
    BY <1>i, <1>d, <1>e, <1>q DEF FollowersShape, UniqueFollowers
  <2>3. followers' \subseteq FollowersUpTo(sessions', entries')
    BY <1>i, <1>n, <1>d, <1>e, <1>g DEF FollowersShape
  <2>4. \A x \in followers', s \in starts' : x.id # s.id
    BY <1>i, <1>e, <2>1 DEF FollowersShape
  <2> QED BY <1>i, <1>d, <1>e, <1>m, <2>1, <2>2, <2>3, <2>4 DEF FollowersShape, UniqueFollowers
<1>6. SessionsKept'
  <2>1. \A id : NotBegun(id) => NotBegun(id)'
    BY <1>e, <1>p DEF NotBegun
  <2>2. (Owned("jellyfin") => ~JfOver(owner.ref))'
    BY <1>p
  <2>3. (\A x \in followers : x.pc = "start" => NotBegun(x.id))'
    BY <1>i, <1>d, <1>e, <1>w, <2>1 DEF SessionsKept
  <2>4. (\A x \in followers : x.pc \in Unconfirmed \cup {"confirm"} /\ owner.ref = <<x.id>>
           => owner.gen = x.gen /\ owner.req = x.entry)'
    <3>1. g.pc \notin Unconfirmed \cup {"confirm"}
      BY <1>d DEF Unconfirmed
    <3> QED BY <1>i, <1>e, <3>1 DEF SessionsKept
  <2>5. (\A s \in starts : s.pc \in {"fetch", "start", "rollback"} => NotBegun(s.id))'
    BY <1>i, <1>e, <2>1 DEF SessionsKept
  <2> QED BY <2>2, <2>3, <2>4, <2>5 DEF SessionsKept
<1>7. ASSUME ~jfLimit'.together PROVE JfApart'
  <2>0. ~jfLimit.together /\ JfApart
    BY <1>e, <1>7 DEF JfInv
  <2>1. OneStart'
    BY <1>n, <1>e, <1>g, <2>0 DEF JfApart, OneStart
  <2>2. KeyKept'
    BY <1>e, <1>p, <2>0 DEF JfApart, KeyKept
  <2>3. EntriesKept'
    BY <1>d, <1>e, <1>p, <2>0 DEF JfApart, EntriesKept, UniqueTakers
  <2> QED BY <2>1, <2>2, <2>3 DEF JfApart
<1> QED BY <1>1, <1>2, <1>3, <1>4, <1>5, <1>6, <1>7 DEF JfInv

LEMMA NegotiateKeeps == ASSUME JfInv, NEW f \in followers, Negotiate(f) PROVE JfInv'
<1>1. /\ UNCHANGED <<jfLimit, currentRefKey, startEpoch, pending, queue, entries, starts, reporters,
                     row, lost, owner, gens, told>>
      /\ f.pc = "fetch" /\ reporters' \subseteq ReportersUpTo(sessions)
  BY DEF Negotiate, JfInv, JfShape, slotVars, jfState, JfElse, JfElse2, JfQuiet
<1>2. f.pc \notin Unconfirmed
  BY <1>1 DEF Unconfirmed
<1>3. CASE GivesUp(f) /\ UNCHANGED sessions
  BY <1>1, <1>2, <1>3, GivesUpKeeps
<1>4. CASE Idle /\ sessions' = sessions + 1 /\ Follows(f, [f EXCEPT !.pc = "start", !.id = sessions'])
  <2>1. PICK m : m = sessions + 1
    OBVIOUS
  <2>2. PICK g : g = [f EXCEPT !.pc = "start", !.id = m]
    OBVIOUS
  <2>3. Follows(f, g) /\ sessions' = m
    BY <1>4, <2>1, <2>2
  <2>4. g \in FollowersUpTo(m, entries) /\ g.pc = "start" /\ g.id = m /\ g.from = f.from /\ g.entry = f.entry
    <3> DEFINE h == [f EXCEPT !.pc = "start"]
    <3>1. f \in FollowersUpTo(m, entries) /\ "start" \in FollowerSteps /\ m \in 0..m
      <4>1. sessions \in Nat /\ entries \in Nat /\ m \in Nat /\ sessions <= m /\ entries <= entries /\ m \in 0..m
        BY <2>1 DEF JfInv, JfShape
      <4>2. f \in FollowersUpTo(sessions, entries)
        BY AFollower DEF JfInv
      <4>3. FollowersUpTo(sessions, entries) \subseteq FollowersUpTo(m, entries)
        BY <4>1, JfGrow
      <4> QED BY <4>1, <4>2, <4>3 DEF FollowerSteps
    <3>2. h \in FollowersUpTo(m, entries) /\ h.pc = "start" /\ h.from = f.from /\ h.entry = f.entry
      BY <3>1 DEF FollowersUpTo
    <3>3. g = [h EXCEPT !.id = m]
      BY <2>2, <3>1 DEF FollowersUpTo
    <3> HIDE DEF h
    <3> QED BY <3>1, <3>2, <3>3 DEF FollowersUpTo
  <2> QED BY <1>1, <1>4, <2>1, <2>3, <2>4, NegotiatedKeeps
<1> QED BY <1>3, <1>4 DEF Negotiate

LEMMA FollowerInstallsKeeps ==
    ASSUME JfInv, NEW f \in followers, NEW k, k = gens + 1, NEW g \in FollowersUpTo(sessions, entries),
           g.pc = "check", g.gen = k, g.id = f.id, g.from = f.from, g.entry = f.entry,
           f.pc = "start", Idle, Installs(JfSession(f.id, f.entry)), Follows(f, g),
           UNCHANGED <<jfLimit, currentRefKey, startEpoch, pending, queue, entries, starts, reporters,
                       row, lost, sessions>>
    PROVE JfInv'
<1>i. JfShape /\ QueueKept /\ JfSlot /\ StartsCounted /\ FollowersShape /\ SessionsKept
  BY DEF JfInv
<1>f. /\ f \in FollowersUpTo(sessions, entries)
      /\ f.id \in Nat /\ f.id \in 0..sessions /\ f.entry \in 0..entries /\ f.from \in RefsUpTo(sessions)
      /\ f.from \in JfRefs
  BY <1>i, AFollower
<1>z. f.id # 0 /\ f.id \in 1..sessions /\ NotBegun(f.id)
  <2>1. f.id # 0 /\ NotBegun(f.id)
    BY <1>i DEF FollowersShape, SessionsKept
  <2> QED BY <1>i, <1>f, <2>1 DEF JfShape
<1>e. /\ UNCHANGED <<jfLimit, currentRefKey, startEpoch, pending, queue, entries, starts, reporters,
                     row, lost, sessions>> /\ f.pc = "start"
      /\ followers' = (followers \ {f}) \cup {g}
      /\ JfSlot' /\ owner'.by = "jellyfin" /\ owner'.ref = <<f.id>> /\ owner'.req = f.entry
      /\ owner'.gen = g.gen /\ gens' = gens + 1 /\ JfTells
  BY <1>i, <1>f, <1>z, JfInstalled DEF Follows
<1>d. g.pc = "check" /\ g.id = f.id /\ g.from = f.from /\ g.entry = f.entry
      /\ g \in FollowersUpTo(sessions, entries)
  OBVIOUS
<1>p. \A ref : JfOver(ref)' => JfOver(ref)
  BY <1>d, <1>e DEF JfOver, JfTells, Idle, Owned
<1>q. /\ \A x \in followers : x.id = f.id => x = f
      /\ \A s \in starts : s.id # f.id /\ s.id \in Nat
      /\ \A x \in followers : x.id \in Nat
  <2>1. \A x \in followers : x.id \in Nat
    BY <1>i, AFollower
  <2>2. \A s \in starts : s.id \in Nat
    BY <1>i, AStart
  <2> QED BY <1>i, <1>z, <2>1, <2>2 DEF FollowersShape, UniqueFollowers
<1>r. IsFollowed'
  BY <1>d, <1>e DEF IsFollowed, Unconfirmed
<1>1. JfShape'
  BY <1>i, <1>e DEF JfShape
<1>2. QueueKept'
  BY <1>i, <1>e DEF QueueKept
<1>3. JfSlot'
  BY <1>e
<1>4. StartsCounted'
  BY <1>i, <1>e DEF StartsCounted
<1>5. FollowersShape'
  BY <1>i, <1>z, <1>d, <1>e DEF FollowersShape, UniqueFollowers
<1>6. SessionsKept'
  <2>1. \A id \in Nat : NotBegun(id) /\ id # f.id => NotBegun(id)'
    BY <1>f, <1>e, <1>p DEF NotBegun
  <2>2. (~JfOver(owner.ref))'
    BY <1>z, <1>e, <1>p DEF NotBegun
  <2>3. (\A x \in followers : x.pc = "start" => NotBegun(x.id))'
    BY <1>i, <1>d, <1>e, <1>q, <2>1 DEF SessionsKept
  <2>4. (\A x \in followers : x.pc \in Unconfirmed \cup {"confirm"} /\ owner.ref = <<x.id>>
           => owner.gen = x.gen /\ owner.req = x.entry)'
    BY <1>d, <1>e, <1>q
  <2>5. (\A s \in starts : s.pc \in {"fetch", "start", "rollback"} => NotBegun(s.id))'
    BY <1>i, <1>e, <1>q, <2>1 DEF SessionsKept
  <2> QED BY <2>2, <2>3, <2>4, <2>5 DEF SessionsKept
<1>7. ASSUME ~jfLimit'.together PROVE JfApart'
  <2>0. ~jfLimit.together /\ JfApart
    BY <1>e, <1>7 DEF JfInv
  <2>1. OneStart'
    BY <1>e, <2>0 DEF JfApart, OneStart
  <2>2. KeyKept'
    BY <1>e, <1>r, <2>0 DEF JfApart, KeyKept
  <2>3. EntriesKept'
    BY <1>d, <1>e, <1>r, <2>0 DEF JfApart, EntriesKept, UniqueTakers
  <2> QED BY <2>1, <2>2, <2>3 DEF JfApart
<1> QED BY <1>1, <1>2, <1>3, <1>4, <1>5, <1>6, <1>7 DEF JfInv

LEMMA StartSessionIfIdleKeeps == ASSUME JfInv, NEW f \in followers, StartSessionIfIdle(f) PROVE JfInv'
<1>1. /\ UNCHANGED <<jfLimit, currentRefKey, startEpoch, pending, queue, entries, starts, reporters,
                     row, lost, sessions>>
      /\ f.pc = "start" /\ reporters' \subseteq ReportersUpTo(sessions)
  BY DEF StartSessionIfIdle, JfInv, JfShape, slotVars, jfState, JfElse, JfElse2, JfQuiet
<1>2. f.pc \notin Unconfirmed
  BY <1>1 DEF Unconfirmed
<1>3. CASE GivesUp(f) /\ UNCHANGED slotVars
  BY <1>1, <1>2, <1>3, GivesUpKeeps DEF slotVars
<1>4. CASE Idle /\ Installs(JfSession(f.id, f.entry)) /\ Follows(f, [f EXCEPT !.pc = "check", !.gen = gens'])
  <2>1. PICK k : k = gens + 1
    OBVIOUS
  <2>2. PICK g : g = [f EXCEPT !.pc = "check", !.gen = k]
    OBVIOUS
  <2>3. Follows(f, g)
    BY <1>4, <2>1, <2>2 DEF Installs
  <2>4. g \in FollowersUpTo(sessions, entries) /\ g.pc = "check" /\ g.gen = k /\ g.id = f.id /\ g.from = f.from
        /\ g.entry = f.entry
    <3> DEFINE h == [f EXCEPT !.pc = "check"]
    <3>1. f \in FollowersUpTo(sessions, entries) /\ "check" \in FollowerSteps /\ k \in Nat
      BY <2>1, AFollower DEF JfInv, JfShape, FollowerSteps, Unconfirmed
    <3>2. h \in FollowersUpTo(sessions, entries) /\ h.pc = "check" /\ h.from = f.from /\ h.entry = f.entry
          /\ h.id = f.id
      BY <3>1 DEF FollowersUpTo
    <3>3. g = [h EXCEPT !.gen = k]
      BY <2>2, <3>1 DEF FollowersUpTo
    <3> HIDE DEF h
    <3> QED BY <3>1, <3>2, <3>3 DEF FollowersUpTo
  <2> QED BY <1>1, <1>4, <2>1, <2>3, <2>4, FollowerInstallsKeeps
<1> QED BY <1>3, <1>4 DEF StartSessionIfIdle

LEMMA CommittedKeeps ==
    ASSUME JfInv, NEW f \in followers, NEW g \in FollowersUpTo(sessions, entries),
           g.pc = "confirm", g.gen = f.gen, g.id = f.id, g.from = f.from, g.entry = f.entry,
           f.pc = "commit", StillItsTurn(f), currentRefKey = f.from, HeadIs(f),
           currentRefKey' = <<f.id>>, queue' = Tail(queue), Follows(f, g),
           UNCHANGED <<jfLimit, startEpoch, pending, entries, starts, reporters, row, lost, sessions, owner,
                       gens, told>>
    PROVE JfInv'
<1>i. JfShape /\ QueueKept /\ JfSlot /\ StartsCounted /\ FollowersShape /\ SessionsKept
  BY DEF JfInv
<1>f. /\ f \in FollowersUpTo(sessions, entries)
      /\ f.id \in Nat /\ f.id \in 0..sessions /\ f.entry \in 0..entries /\ f.from \in RefsUpTo(sessions)
      /\ f.from \in JfRefs
  BY <1>i, AFollower
<1>e. /\ UNCHANGED <<jfLimit, startEpoch, pending, entries, starts, reporters, row, lost, sessions, owner,
                     gens, told>> /\ f.pc = "commit"
      /\ followers' = (followers \ {f}) \cup {g}
      /\ currentRefKey' = <<f.id>> /\ currentRefKey = f.from /\ <<f.id>> \in JfRefs
  BY <1>f DEF Follows, JfRefs
<1>d. g.pc = "confirm" /\ g.gen = f.gen /\ g.id = f.id /\ g.from = f.from /\ g.entry = f.entry
      /\ g \in FollowersUpTo(sessions, entries) /\ g.pc \notin Unconfirmed /\ f.pc \in Unconfirmed
  BY DEF Unconfirmed
<1>h. /\ Contains(queue, f.entry) /\ queue' \in Seq(1..entries) /\ IsInjective(queue')
      /\ ~Contains(queue', f.entry) /\ \A x : Contains(queue', x) => Contains(queue, x)
  <2>1. queue \in Seq(1..entries) /\ IsInjective(queue)
    BY <1>i DEF QueueKept
  <2> QED BY <2>1, QueueTail DEF HeadIs
<1>p. \A ref : JfOver(ref)' => JfOver(ref)
  BY <1>d, <1>e DEF JfOver
<1>o. starts = {}
  BY <1>i, NoStartsPending DEF StillItsTurn
<1>q. /\ IsFollowed /\ owner.ref # <<f.id>> => IsFollowed'
      /\ \A x \in followers : x.id = f.id => x = f
  <2>1. f.id # 0
    BY <1>i, <1>e DEF FollowersShape
  <2> QED BY <1>i, <1>e, <1>d, <2>1 DEF IsFollowed, FollowersShape, UniqueFollowers
<1>k. Owned("jellyfin") /\ owner.ref = <<f.id>> => owner.req = f.entry
  BY <1>i, <1>d DEF SessionsKept
<1>1. JfShape'
  BY <1>i, <1>e DEF JfShape
<1>2. QueueKept'
  BY <1>e, <1>h DEF QueueKept
<1>3. JfSlot'
  BY <1>i, <1>e, SlotStays DEF JfSlot, Owned
<1>4. StartsCounted'
  BY <1>i, <1>e DEF StartsCounted
<1>5. FollowersShape'
  <2>1. f.id # 0 /\ f.entry # 0
    BY <1>i, <1>e DEF FollowersShape
  <2> QED BY <1>i, <1>d, <1>e, <1>q, <2>1 DEF FollowersShape, UniqueFollowers
<1>6. SessionsKept'
  <2>1. \A id : NotBegun(id) => NotBegun(id)'
    BY <1>e, <1>p DEF NotBegun
  <2>2. (Owned("jellyfin") => ~JfOver(owner.ref))'
    BY <1>i, <1>e, <1>p DEF SessionsKept, Owned
  <2>3. (\A x \in followers : x.pc = "start" => NotBegun(x.id))'
    BY <1>i, <1>d, <1>e, <2>1 DEF SessionsKept
  <2>4. (\A x \in followers : x.pc \in Unconfirmed \cup {"confirm"} /\ owner.ref = <<x.id>>
           => owner.gen = x.gen /\ owner.req = x.entry)'
    BY <1>i, <1>d, <1>e DEF SessionsKept
  <2> QED BY <1>e, <1>o, <2>2, <2>3, <2>4 DEF SessionsKept
<1>7. ASSUME ~jfLimit'.together PROVE JfApart'
  <2>0. ~jfLimit.together /\ JfApart
    BY <1>e, <1>7 DEF JfInv
  <2>1. OneStart'
    BY <1>e, <2>0 DEF JfApart, OneStart
  <2>2. KeyKept'
    <3>1. Owned("jellyfin") => owner.ref # f.from
      BY <1>i DEF SessionsKept, JfOver
    <3>2. Owned("jellyfin") => IsFollowed
      BY <1>e, <1>o, <2>0, <3>1 DEF JfApart, KeyKept, IsReplaced
    <3> QED BY <1>e, <1>o, <1>q, <3>2 DEF KeyKept, Owned
  <2>3. EntriesKept'
    <3>1. (Owned("jellyfin") /\ Contains(queue, owner.req) => IsFollowed)'
      BY <1>e, <1>h, <1>q, <1>k, <2>0 DEF JfApart, EntriesKept, Owned
    <3>2. \A x \in followers : x.pc = "confirm" => x.entry # f.entry
      BY <1>h, <2>0 DEF JfApart, EntriesKept
    <3>3. ASSUME NEW x \in followers', x.pc = "confirm"
          PROVE  /\ ~Contains(queue', x.entry)
                 /\ Owned("jellyfin")' /\ owner'.req = x.entry => owner'.ref = <<x.id>> \/ IsFollowed'
      <4>1. CASE x = g
        <5>1. Owned("jellyfin") /\ owner.req = f.entry => IsFollowed
          BY <1>h, <2>0 DEF JfApart, EntriesKept
        <5> QED BY <1>d, <1>e, <1>h, <1>q, <4>1, <5>1 DEF Owned
      <4>2. CASE x \in followers
        BY <1>e, <1>h, <1>q, <1>k, <2>0, <3>2, <3>3, <4>2 DEF JfApart, EntriesKept, Owned
      <4> QED BY <1>e, <3>3, <4>1, <4>2
    <3>4. UniqueTakers'
      BY <1>d, <1>e, <2>0, <3>2 DEF JfApart, EntriesKept, UniqueTakers
    <3>5. (\A y \in followers : y.pc = "confirm" =>
             /\ ~Contains(queue, y.entry)
             /\ Owned("jellyfin") /\ owner.req = y.entry => owner.ref = <<y.id>> \/ IsFollowed)'
      BY <3>3
    <3> QED BY <1>e, <1>o, <3>1, <3>4, <3>5 DEF EntriesKept
  <2> QED BY <2>1, <2>2, <2>3 DEF JfApart
<1> QED BY <1>1, <1>2, <1>3, <1>4, <1>5, <1>6, <1>7 DEF JfInv

LEMMA CommitAutoAdvanceKeeps == ASSUME JfInv, NEW f \in followers, CommitAutoAdvance(f) PROVE JfInv'
<1>1. /\ UNCHANGED <<jfLimit, startEpoch, pending, entries, starts, reporters, row, lost, sessions, owner,
                     gens, told>>
      /\ f.pc = "commit" /\ f.pc \in Unconfirmed
  BY DEF CommitAutoAdvance, Unconfirmed, slotVars, jfState, JfElse, JfElse2, JfQuiet
<1>2. CASE FollowerGoes(f, "stale") /\ UNCHANGED <<currentRefKey, queue>>
  BY <1>1, <1>2, StillUnconfirmed DEF Unconfirmed
<1>3. CASE /\ StillItsTurn(f) /\ currentRefKey = f.from /\ HeadIs(f)
           /\ currentRefKey' = <<f.id>> /\ queue' = Tail(queue) /\ FollowerGoes(f, "confirm")
  <2>1. f \in FollowersUpTo(sessions, entries) /\ "confirm" \in FollowerSteps
    BY AFollower DEF JfInv, FollowerSteps
  <2> DEFINE g == [f EXCEPT !.pc = "confirm"]
  <2>2. /\ g \in FollowersUpTo(sessions, entries) /\ g.pc = "confirm"
        /\ g.from = f.from /\ g.entry = f.entry /\ g.id = f.id /\ g.gen = f.gen
    BY <2>1, FollowerWent
  <2>3. Follows(f, g)
    BY <1>3 DEF FollowerGoes
  <2> HIDE DEF g
  <2> QED BY <1>1, <1>3, <2>2, <2>3, CommittedKeeps
<1> QED BY <1>2, <1>3 DEF CommitAutoAdvance

LEMMA UnconfirmedKeeps ==
    ASSUME JfInv, NEW f \in followers, NEW g \in FollowersUpTo(sessions, entries),
           g.pc = "stale", g.gen = f.gen, g.id = f.id, g.from = f.from, g.entry = f.entry,
           f.pc = "confirm", ~SameSession(f), RollsBack(f), Follows(f, g),
           UNCHANGED <<jfLimit, startEpoch, pending, entries, starts, reporters, row, lost, sessions, owner,
                       gens, told>>
    PROVE JfInv'
<1>i. JfShape /\ QueueKept /\ JfSlot /\ StartsCounted /\ FollowersShape /\ SessionsKept
  BY DEF JfInv
<1>f. /\ f \in FollowersUpTo(sessions, entries)
      /\ f.id \in Nat /\ f.id \in 0..sessions /\ f.entry \in 0..entries /\ f.from \in RefsUpTo(sessions)
      /\ f.from \in JfRefs
  BY <1>i, AFollower
<1>e. /\ UNCHANGED <<jfLimit, startEpoch, pending, entries, starts, reporters, row, lost, sessions, owner,
                     gens, told>> /\ f.pc = "confirm"
      /\ followers' = (followers \ {f}) \cup {g}
  BY DEF Follows
<1>d. g.pc = "stale" /\ g.gen = f.gen /\ g.id = f.id /\ g.from = f.from /\ g.entry = f.entry
      /\ g \in FollowersUpTo(sessions, entries) /\ g.pc \in Unconfirmed /\ f.pc \notin Unconfirmed
  BY DEF Unconfirmed
<1>z. f.id # 0 /\ f.entry # 0 /\ f.entry \in 1..entries
  <2>1. f.id # 0 /\ f.entry # 0
    BY <1>i, <1>e DEF FollowersShape
  <2> QED BY <1>i, <1>f, <2>1 DEF JfShape
<1>k. owner.ref # <<f.id>>
  BY <1>i, <1>d DEF SessionsKept, SameSession
<1>r. \/ currentRefKey' = currentRefKey /\ queue' = queue
      \/ currentRefKey = <<f.id>> /\ currentRefKey' = f.from
  BY DEF RollsBack
<1>h. /\ queue' \in Seq(1..entries) /\ IsInjective(queue')
      /\ \A x : Contains(queue', x) => Contains(queue, x) \/ x = f.entry
  <2>1. queue \in Seq(1..entries) /\ IsInjective(queue)
    BY <1>i DEF QueueKept
  <2>2. queue' = queue \/ (~Contains(queue, f.entry) /\ queue' = <<f.entry>> \o queue)
    BY DEF RollsBack
  <2>3. CASE queue' = queue
    BY <2>1, <2>3
  <2>4. CASE ~Contains(queue, f.entry) /\ queue' = <<f.entry>> \o queue
    <3> DEFINE x == f.entry
    <3>1. x \in 1..entries /\ ~Contains(queue, x) /\ queue' = <<x>> \o queue
      BY <1>z, <2>4
    <3> HIDE DEF x
    <3>2. /\ <<x>> \o queue \in Seq(1..entries) /\ IsInjective(<<x>> \o queue)
          /\ \A y : Contains(<<x>> \o queue, y) => Contains(queue, y) \/ y = x
      BY <2>1, <3>1, QueuePrepend
    <3>3. /\ queue' \in Seq(1..entries) /\ IsInjective(queue')
          /\ \A y : Contains(queue', y) => Contains(queue, y) \/ y = x
      BY <3>1, <3>2
    <3> QED BY <3>3 DEF x
  <2> QED BY <2>2, <2>3, <2>4
<1>p. /\ \A ref : JfOver(ref)' => JfOver(ref)
      /\ IsFollowed' <=> IsFollowed
  BY <1>d, <1>e, <1>k DEF JfOver, IsFollowed
<1>q. \A x \in followers : x.id = f.id => x = f
  BY <1>i, <1>z DEF FollowersShape, UniqueFollowers
<1>1. JfShape'
  BY <1>i, <1>f, <1>e, <1>r DEF JfShape
<1>2. QueueKept'
  BY <1>e, <1>h DEF QueueKept
<1>3. JfSlot'
  BY <1>i, <1>e, SlotStays DEF JfSlot, Owned
<1>4. StartsCounted'
  BY <1>i, <1>e DEF StartsCounted
<1>5. FollowersShape'
  BY <1>i, <1>d, <1>e, <1>q, <1>z DEF FollowersShape, UniqueFollowers
<1>6. SessionsKept'
  <2>1. \A id : NotBegun(id) => NotBegun(id)'
    BY <1>e, <1>p DEF NotBegun
  <2>2. (Owned("jellyfin") => ~JfOver(owner.ref))'
    BY <1>i, <1>e, <1>p DEF SessionsKept, Owned
  <2>3. (\A x \in followers : x.pc = "start" => NotBegun(x.id))'
    BY <1>i, <1>d, <1>e, <2>1 DEF SessionsKept
  <2>4. (\A x \in followers : x.pc \in Unconfirmed \cup {"confirm"} /\ owner.ref = <<x.id>>
           => owner.gen = x.gen /\ owner.req = x.entry)'
    BY <1>i, <1>d, <1>e, <1>k DEF SessionsKept
  <2>5. (\A s \in starts : s.pc \in {"fetch", "start", "rollback"} => NotBegun(s.id))'
    BY <1>i, <1>e, <2>1 DEF SessionsKept
  <2> QED BY <2>2, <2>3, <2>4, <2>5 DEF SessionsKept
<1>7. ASSUME ~jfLimit'.together PROVE JfApart'
  <2>0. ~jfLimit.together /\ JfApart
    BY <1>e, <1>7 DEF JfInv
  <2>1. OneStart'
    BY <1>e, <2>0 DEF JfApart, OneStart
  <2>2. KeyKept'
    <3>1. CASE currentRefKey' = currentRefKey
      BY <1>e, <1>p, <2>0, <3>1 DEF JfApart, KeyKept, IsReplaced, Owned
    <3>2. CASE currentRefKey = <<f.id>>
      <4>1. \A s \in starts : <<s.id>> # <<f.id>>
        BY <1>i DEF FollowersShape
      <4>2. \A s \in starts : s.pc \notin {"start", "rollback"}
        BY <2>0, <3>2, <4>1 DEF JfApart, KeyKept
      <4>3. Owned("jellyfin") => IsFollowed
        BY <1>k, <2>0, <3>2, <4>2 DEF JfApart, KeyKept, IsReplaced
      <4> QED BY <1>e, <1>p, <4>2, <4>3 DEF KeyKept, Owned
    <3> QED BY <1>r, <3>1, <3>2
  <2>3. EntriesKept'
    <3>1. (Owned("jellyfin") /\ Contains(queue, owner.req) => IsFollowed)'
      BY <1>e, <1>h, <1>p, <1>k, <2>0 DEF JfApart, EntriesKept, Owned
    <3>2. \A x \in followers : x.pc = "confirm" /\ x # f => x.entry # f.entry
      BY <1>e, <2>0 DEF JfApart, EntriesKept, UniqueTakers
    <3>3. (\A x \in starts : x.pc \in {"fetch", "start"} =>
             ~Contains(queue, x.entry) /\ \A y \in followers : y.pc = "confirm" => y.entry # x.entry)'
      BY <1>d, <1>e, <1>h, <2>0 DEF JfApart, EntriesKept
    <3>4. (\A y \in followers : y.pc = "confirm" =>
             /\ ~Contains(queue, y.entry)
             /\ Owned("jellyfin") /\ owner.req = y.entry => owner.ref = <<y.id>> \/ IsFollowed)'
      BY <1>d, <1>e, <1>h, <1>p, <2>0, <3>2 DEF JfApart, EntriesKept, Owned
    <3>5. UniqueTakers'
      BY <1>d, <1>e, <2>0 DEF JfApart, EntriesKept, UniqueTakers
    <3> QED BY <3>1, <3>3, <3>4, <3>5 DEF EntriesKept
  <2> QED BY <2>1, <2>2, <2>3 DEF JfApart
<1> QED BY <1>1, <1>2, <1>3, <1>4, <1>5, <1>6, <1>7 DEF JfInv

LEMMA ConfirmStartedKeeps == ASSUME JfInv, NEW f \in followers, ConfirmStarted(f) PROVE JfInv'
<1>1. /\ UNCHANGED <<jfLimit, startEpoch, pending, entries, starts, row, lost, sessions, owner, gens, told>>
      /\ f.pc = "confirm" /\ f.pc \notin Unconfirmed
  BY DEF ConfirmStarted, Unconfirmed, slotVars, jfState, JfElse, JfElse2, JfQuiet
<1>2. CASE SameSession(f) /\ SpawnReporter(f.id) /\ GivesUp(f) /\ UNCHANGED <<currentRefKey, queue>>
  <2>1. f.id \in 1..sessions
    <3>1. f.id # 0 /\ f.id \in 0..sessions /\ sessions \in Nat
      BY <1>1, AFollower DEF JfInv, JfShape, FollowersShape
    <3> QED BY <3>1
  <2>2. reporters' \subseteq ReportersUpTo(sessions)
    BY <1>2, <2>1 DEF SpawnReporter, JfInv, JfShape, ReportersUpTo, ReporterSteps
  <2> QED BY <1>1, <1>2, <2>2, GivesUpKeeps
<1>3. CASE ~SameSession(f) /\ RollsBack(f) /\ FollowerGoes(f, "stale") /\ UNCHANGED reporters
  <2>1. f \in FollowersUpTo(sessions, entries) /\ "stale" \in FollowerSteps
    BY AFollower DEF JfInv, FollowerSteps, Unconfirmed
  <2> DEFINE g == [f EXCEPT !.pc = "stale"]
  <2>2. /\ g \in FollowersUpTo(sessions, entries) /\ g.pc = "stale"
        /\ g.from = f.from /\ g.entry = f.entry /\ g.id = f.id /\ g.gen = f.gen
    BY <2>1, FollowerWent
  <2>3. Follows(f, g)
    BY <1>3 DEF FollowerGoes
  <2> HIDE DEF g
  <2> QED BY <1>1, <1>3, <2>2, <2>3, UnconfirmedKeeps
<1> QED BY <1>2, <1>3 DEF ConfirmStarted

LEMMA StopsStaleKeeps ==
    ASSUME JfInv, NEW f \in followers, f.pc = "stale", Stop, GivesUp(f), UNCHANGED <<jfLimit,
                                                                                     currentRefKey,
                                                                                     startEpoch,
                                                                                     pending, queue,
                                                                                     entries, starts,
                                                                                     reporters, row, lost,
                                                                                     sessions>>
    PROVE JfInv'
<1>i. JfShape /\ QueueKept /\ JfSlot /\ StartsCounted /\ FollowersShape /\ SessionsKept
  BY DEF JfInv
<1>f. /\ f \in FollowersUpTo(sessions, entries)
      /\ f.id \in Nat /\ f.id \in 0..sessions /\ f.entry \in 0..entries /\ f.from \in RefsUpTo(sessions)
      /\ f.from \in JfRefs
  BY <1>i, AFollower
<1>e. /\ UNCHANGED <<jfLimit, currentRefKey, startEpoch, pending, queue, entries, starts, reporters,
                     row, lost, sessions>> /\ followers' = followers \ {f}
      /\ JfSlot' /\ owner'.by = "none" /\ owner'.ref = <<>> /\ gens' = gens /\ JfTells
  <2>1. Empties("stopped") /\ UNCHANGED <<jfLimit, currentRefKey, startEpoch, pending, queue, entries,
                                          starts, reporters, row, lost, sessions>>
    BY DEF Stop
  <2> QED BY <1>i, <2>1, JfEmptied DEF GivesUp
<1>v. ASSUME NEW ref, JfOver(ref)' PROVE JfOver(ref) \/ (Owned("jellyfin") /\ owner.ref = ref)
  BY <1>e, <1>v DEF JfOver, JfTells
<1>1. JfShape'
  BY <1>i, <1>e DEF JfShape
<1>2. QueueKept'
  BY <1>i, <1>e DEF QueueKept
<1>3. JfSlot'
  BY <1>e
<1>4. StartsCounted'
  BY <1>i, <1>e DEF StartsCounted
<1>5. FollowersShape'
  BY <1>i, <1>e DEF FollowersShape, UniqueFollowers
<1>6. SessionsKept'
  <2>1. \A id : NotBegun(id) => ~JfOver(<<id>>)'
    BY <1>v DEF NotBegun
  <2>2. ASSUME NEW x \in starts', x.pc \in {"fetch", "start", "rollback"} PROVE NotBegun(x.id)'
    <3>1. NotBegun(x.id) /\ x.id # 0 /\ x.id \in Nat
      BY <1>i, <1>e, <2>2 DEF SessionsKept, StartsCounted, StartsUpTo, JfShape
    <3>2. owner'.ref # <<x.id>>
      BY <1>e, <3>1 DEF NotBegun
    <3> QED BY <1>v, <3>1, <3>2 DEF NotBegun
  <2>3. ASSUME NEW y \in followers', y.pc = "start" PROVE NotBegun(y.id)'
    <3>1. NotBegun(y.id) /\ y.id # 0 /\ y.id \in Nat
      BY <1>i, <1>e, <2>3 DEF SessionsKept, FollowersShape, FollowersUpTo, JfShape
    <3>2. owner'.ref # <<y.id>>
      BY <1>e, <3>1 DEF NotBegun
    <3> QED BY <1>v, <3>1, <3>2 DEF NotBegun
  <2>4. \A y \in followers' : y.pc \in Unconfirmed \cup {"confirm"} => owner'.ref # <<y.id>>
    <3>1. \A y \in followers : y.pc \in Unconfirmed \cup {"confirm"} => y.id # 0
      BY <1>i DEF FollowersShape, Unconfirmed
    <3> QED BY <1>e, <3>1
  <2> QED BY <1>e, <2>2, <2>3, <2>4 DEF SessionsKept, Owned
<1>7. ASSUME ~jfLimit'.together PROVE JfApart'
  <2>0. ~jfLimit.together /\ JfApart
    BY <1>e, <1>7 DEF JfInv
  <2>1. OneStart'
    BY <1>e, <2>0 DEF JfApart, OneStart
  <2>2. KeyKept'
    BY <1>i, <1>e, <2>0, <2>1 DEF JfApart, OneStart, KeyKept, IsFollowed, IsReplaced, Owned
  <2>3. EntriesKept'
    BY <1>i, <1>e, <2>0, <2>1 DEF JfApart, OneStart, EntriesKept, UniqueTakers, IsFollowed, Owned
  <2> QED BY <2>1, <2>2, <2>3 DEF JfApart
<1> QED BY <1>1, <1>2, <1>3, <1>4, <1>5, <1>6, <1>7 DEF JfInv

LEMMA GoneStaleKeeps ==
    ASSUME JfInv, NEW f \in followers, f.pc = "stale", ~SameSession(f), GivesUp(f),
           UNCHANGED <<jfLimit, currentRefKey, startEpoch, pending, queue, entries, starts,
                       reporters, row, lost, sessions, owner, gens, told>>
    PROVE JfInv'
<1>i. JfShape /\ QueueKept /\ JfSlot /\ StartsCounted /\ FollowersShape /\ SessionsKept
  BY DEF JfInv
<1>f. /\ f \in FollowersUpTo(sessions, entries)
      /\ f.id \in Nat /\ f.id \in 0..sessions /\ f.entry \in 0..entries /\ f.from \in RefsUpTo(sessions)
      /\ f.from \in JfRefs
  BY <1>i, AFollower
<1>e. /\ UNCHANGED <<jfLimit, currentRefKey, startEpoch, pending, queue, entries, starts, reporters,
                     row, lost, sessions, owner, gens, told>> /\ followers' = followers \ {f}
      /\ f.pc = "stale" /\ f.pc \in Unconfirmed
  BY DEF GivesUp, Unconfirmed
<1>k. owner.ref # <<f.id>>
  BY <1>i, <1>e DEF SessionsKept, SameSession
<1>p. /\ IsFollowed' <=> IsFollowed
      /\ \A ref : JfOver(ref)' => JfOver(ref)
  BY <1>e, <1>k DEF IsFollowed, JfOver
<1>1. JfShape'
  BY <1>i, <1>e DEF JfShape
<1>2. QueueKept'
  BY <1>i, <1>e DEF QueueKept
<1>3. JfSlot'
  BY <1>i, <1>e, SlotStays DEF JfSlot, Owned
<1>4. StartsCounted'
  BY <1>i, <1>e DEF StartsCounted
<1>5. FollowersShape'
  BY <1>i, <1>e DEF FollowersShape, UniqueFollowers
<1>6. SessionsKept'
  <2>1. \A id : NotBegun(id) => NotBegun(id)'
    BY <1>e, <1>p DEF NotBegun
  <2>2. (Owned("jellyfin") => ~JfOver(owner.ref))'
    BY <1>i, <1>e, <1>p DEF SessionsKept, Owned
  <2> QED BY <1>i, <1>e, <2>1, <2>2 DEF SessionsKept
<1>7. ASSUME ~jfLimit'.together PROVE JfApart'
  <2>0. ~jfLimit.together /\ JfApart
    BY <1>e, <1>7 DEF JfInv
  <2>1. OneStart'
    BY <1>e, <2>0 DEF JfApart, OneStart
  <2>2. KeyKept'
    BY <1>e, <1>p, <2>0 DEF JfApart, KeyKept, IsReplaced, Owned
  <2>3. EntriesKept'
    BY <1>e, <1>p, <2>0 DEF JfApart, EntriesKept, UniqueTakers, Owned
  <2> QED BY <2>1, <2>2, <2>3 DEF JfApart
<1> QED BY <1>1, <1>2, <1>3, <1>4, <1>5, <1>6, <1>7 DEF JfInv

LEMMA StopStaleKeeps == ASSUME JfInv, NEW f \in followers, StopStale(f) PROVE JfInv'
<1>1. /\ UNCHANGED <<jfLimit, currentRefKey, startEpoch, pending, queue, entries, starts, reporters,
                     row, lost, sessions>>
      /\ f.pc = "stale" /\ f.pc \in Unconfirmed /\ GivesUp(f)
  BY DEF StopStale, Unconfirmed, slotVars, jfState, JfElse, JfElse2, JfQuiet
<1>2. CASE Stop
  BY <1>1, <1>2, StopsStaleKeeps
<1>3. CASE ~SameSession(f) /\ UNCHANGED slotVars
  BY <1>1, <1>3, GoneStaleKeeps DEF slotVars
<1> QED BY <1>2, <1>3 DEF StopStale, StopIfSession, SameSession

LEMMA OnStopKeeps ==
    ASSUME JfInv, OnStop PROVE JfInv'
<1>i. JfShape /\ QueueKept /\ JfSlot /\ StartsCounted /\ FollowersShape /\ SessionsKept
  BY DEF JfInv
<1>x. PICK o \in told :
         /\ told' = told \ {o}
         /\ followers' = IF o.why # "eof" THEN followers ELSE
               followers \cup {[pc |-> "settle", from |-> o.of.ref, entry |-> 0, epoch |-> 0, id |-> 0,
                                gen |-> 0, late |-> FALSE]}
         /\ UNCHANGED <<jfLimit, currentRefKey, startEpoch, pending, queue, entries, starts, reporters,
                        row, lost, sessions, owner, gens>>
  BY DEF OnStop, slotVars, jfState, JfElse, JfElse2, JfQuiet
<1>g. PICK g : g = [pc |-> "settle", from |-> o.of.ref, entry |-> 0, epoch |-> 0, id |-> 0,
                    gen |-> 0, late |-> FALSE]
  OBVIOUS
<1>d. g.pc = "settle" /\ g.from = o.of.ref /\ g.id = 0 /\ g.pc \notin Unconfirmed
      /\ g \in FollowersUpTo(sessions, entries)
  <2>1. o.of.ref \in RefsUpTo(sessions) /\ 0 \in 0..sessions /\ 0 \in 0..entries
    BY <1>i DEF JfSlot, JfShape
  <2> QED BY <1>g, <2>1 DEF FollowersUpTo, FollowerSteps, Unconfirmed
<1>e. /\ UNCHANGED <<jfLimit, currentRefKey, startEpoch, pending, queue, entries, starts, reporters,
                     row, lost, sessions, owner, gens>> /\ told' = told \ {o}
      /\ followers' = followers \/ followers' = followers \cup {g}
  BY <1>x, <1>g
<1>p. /\ IsFollowed' <=> IsFollowed
      /\ \A ref : JfOver(ref)' => JfOver(ref)
  BY <1>d, <1>e DEF IsFollowed, JfOver
<1>1. JfShape'
  BY <1>i, <1>e DEF JfShape
<1>2. QueueKept'
  BY <1>i, <1>e DEF QueueKept
<1>3. JfSlot'
  BY <1>i, <1>e, SlotStays DEF JfSlot, Owned
<1>4. StartsCounted'
  BY <1>i, <1>e DEF StartsCounted
<1>5. FollowersShape'
  <2>1. \A s \in starts : s.id # 0
    BY <1>i, AStart
  <2> QED BY <1>i, <1>d, <1>e, <2>1 DEF FollowersShape, UniqueFollowers
<1>6. SessionsKept'
  <2>1. \A id : NotBegun(id) => NotBegun(id)'
    BY <1>e, <1>p DEF NotBegun
  <2>2. (Owned("jellyfin") => ~JfOver(owner.ref))'
    BY <1>i, <1>e, <1>p DEF SessionsKept, Owned
  <2>3. (\A x \in followers : x.pc = "start" => NotBegun(x.id))'
    BY <1>i, <1>d, <1>e, <2>1 DEF SessionsKept
  <2>4. (\A x \in followers : x.pc \in Unconfirmed \cup {"confirm"} /\ owner.ref = <<x.id>>
           => owner.gen = x.gen /\ owner.req = x.entry)'
    BY <1>i, <1>d, <1>e DEF SessionsKept
  <2>5. (\A s \in starts : s.pc \in {"fetch", "start", "rollback"} => NotBegun(s.id))'
    BY <1>i, <1>e, <2>1 DEF SessionsKept
  <2> QED BY <2>2, <2>3, <2>4, <2>5 DEF SessionsKept
<1>7. ASSUME ~jfLimit'.together PROVE JfApart'
  <2>0. ~jfLimit.together /\ JfApart
    BY <1>e, <1>7 DEF JfInv
  <2>1. OneStart'
    BY <1>e, <2>0 DEF JfApart, OneStart
  <2>2. KeyKept'
    BY <1>e, <1>p, <2>0 DEF JfApart, KeyKept, IsReplaced, Owned
  <2>3. EntriesKept'
    BY <1>d, <1>e, <1>p, <2>0 DEF JfApart, EntriesKept, UniqueTakers, Owned
  <2> QED BY <2>1, <2>2, <2>3 DEF JfApart
<1> QED BY <1>1, <1>2, <1>3, <1>4, <1>5, <1>6, <1>7 DEF JfInv

LEMMA JfStarts == ASSUME JfInit PROVE JfInv
<1>1. /\ owner = NoSession /\ gens = 0 /\ told = {} /\ JfIdleState /\ jfLimit \in JfLimits
  BY DEF JfInit, SlotInit
<1>2. /\ owner.by = "none" /\ owner.ref = <<>> /\ owner.paused \in BOOLEAN /\ SlotShape
  BY <1>1 DEF NoSession, Session, SlotShape
<1>3. starts = {} /\ IsFiniteSet(starts) /\ Cardinality(starts) = 0
  BY <1>1, FS_EmptySet DEF JfIdleState
<1>4. JfShape
  BY <1>1 DEF JfShape, JfIdleState, NoRef, JfRefs
<1>5. QueueKept
  BY <1>1 DEF QueueKept, JfIdleState, IsInjective
<1>6. JfSlot
  BY <1>1, <1>2 DEF JfSlot, Owned
<1>7. StartsCounted
  BY <1>1, <1>3 DEF StartsCounted, JfIdleState
<1>8. FollowersShape /\ SessionsKept
  BY <1>1, <1>2 DEF FollowersShape, UniqueFollowers, SessionsKept, JfIdleState, Owned
<1>9. JfApart
  BY <1>1, <1>2, <1>3 DEF JfApart, OneStart, KeyKept, EntriesKept, UniqueTakers, JfIdleState, Owned
<1> QED BY <1>4, <1>5, <1>6, <1>7, <1>8, <1>9 DEF JfInv

LEMMA JfGoes == ASSUME JfInv, JfNext PROVE JfInv'
<1>1. CASE JfHandler
  BY <1>1, HandlePlayNowKeeps, HandlePlayQueuedKeeps, RestartCurrentPlaybackKeeps,
     PlaystatePauseKeeps,
     PlaystateStopKeeps, PlaystateNextTrackKeeps, ApplyAutoAdvanceKeeps DEF JfHandler
<1>2. CASE JfEnds \/ JfOtherTakes \/ OnStop
  BY <1>2, JfEndsKeeps, JfOtherTakesKeeps, OnStopKeeps
<1>3. CASE \E s \in starts : Starts(s)
  BY <1>3, StartsKeep
<1>4. ASSUME NEW f \in followers, GoesOn(f) PROVE JfInv'
  BY <1>4, AdvanceAfterEOFKeeps, NegotiateKeeps, StartSessionIfIdleKeeps, CheckStartedKeeps,
     CommitAutoAdvanceKeeps, ConfirmStartedKeeps, StopStaleKeeps DEF GoesOn
<1>5. CASE \E r \in reporters : Reports(r)
  BY <1>5, ReportsKeeps
<1> QED BY <1>1, <1>2, <1>3, <1>4, <1>5 DEF JfNext

LEMMA JfTyped == ASSUME JfInv PROVE JfTypeOK
<1>1. pending = Cardinality(starts) /\ IsInjective(queue)
  BY DEF JfInv, StartsCounted, QueueKept
<1>2. \A e \in ToSet(queue) : e \in 1..entries
  <2>1. queue \in Seq(1..entries)
    BY DEF JfInv, QueueKept
  <2> QED BY <2>1, QueueItems
<1>3. (\A r \in reporters \cup lost : r.id \in 1..sessions) /\ row \in 0..sessions
  BY DEF JfInv, JfShape, ReportersUpTo, LostUpTo
<1> QED BY <1>1, <1>2, <1>3 DEF JfTypeOK

LEMMA JfRemembers == ASSUME JfInv PROVE CurrentIsPlaying
<1> SUFFICES ASSUME ~jfLimit.together, starts = {}, Owned("jellyfin"),
                    \A f \in followers : f.pc \in {"settle", "fetch", "start"}
             PROVE  currentRefKey = owner.ref /\ ~Contains(queue, owner.req)
  BY DEF CurrentIsPlaying
<1>1. JfApart
  BY DEF JfInv
<1>2. ~IsFollowed /\ ~IsReplaced
  BY DEF IsFollowed, IsReplaced, Unconfirmed
<1> QED BY <1>1, <1>2 DEF JfApart, KeyKept, EntriesKept

-----------------------------------------------------------------------------
(* The DLNA renderer.                                                      *)

Sources    == [hls : BOOLEAN, live : BOOLEAN]
Transports == {"STOPPED", "PLAYING", "PAUSED"}
Admitted   == {"snapshot", "recache", "start", "rollback"}
DlnaSteps  == Admitted \cup {"validate", "admit", "started", "playing", "stopped", "play", "resume",
                  "resumed", "pause", "paused", "stop", "off", "on"}

(* With refs up to m and caches up to n. *)
CallsUpTo(m, n) ==
    [pc : DlnaSteps, n : Nat, owned : 0..m, state : Transports, expected : 0..m, ref : 0..m,
     source : Sources, cache : 0..n]

DlnaRefs == {Ref(n) : n \in 1..refs}

DlnaShape ==
    /\ dlnaLimit \in DlnaLimits /\ dlnaAsked \in Nat /\ dlnaEnded \in Nat
    /\ refs \in Nat /\ prepared \in Nat
    /\ currentRef \in 0..refs /\ startInFlight \in BOOLEAN /\ transportState \in Transports
    /\ loaded \in [uri : BOOLEAN, source : Sources, cache : 0..prepared]
    /\ SlotShape
    /\ owner.by \in {"none", "other", "dlna"}
    /\ Owned("dlna") => owner.ref \in DlnaRefs /\ owner.paused \in BOOLEAN
    /\ \A o \in told : o.of.by = "dlna" /\ o.of.ref \in DlnaRefs

CallsShape ==
    /\ calls \subseteq CallsUpTo(refs, prepared)
    /\ \A c \in calls : (c.pc \in Admitted => c.ref # 0) /\ (c.pc = "recache" => c.source.hls)

(* Every cache on disk is the loaded one, or is being removed.             *)
DiskKept ==
    /\ caches \subseteq 1..prepared /\ removing \subseteq caches
    /\ loaded.cache # 0 => loaded.source.hls /\ loaded.cache \in caches /\ loaded.cache \notin removing
    /\ caches \subseteq {loaded.cache} \cup removing

(* While a ref is current, what was started under it plays from the loaded *)
(* cache: nothing else is loaded meanwhile.                                *)
CacheIsLoaded(c) == c = 0 \/ c = loaded.cache

LoadedKept ==
    /\ Owned("dlna") /\ owner.ref = Ref(currentRef) => CacheIsLoaded(owner.req.cache)
    /\ \A o \in told : o.of.by = "dlna" /\ o.of.ref = Ref(currentRef) => CacheIsLoaded(o.of.req.cache)
    /\ \A c \in calls : c.pc = "start" /\ c.ref = currentRef => CacheIsLoaded(c.cache)
    /\ startInFlight => currentRef # 0

(* There is one call, but for SetAVTransportURIs that validate.            *)
OneCall ==
    \A c, d \in calls :
        dlnaLimit.together = "none" \/ (c.pc # "validate" /\ d.pc # "validate") => c = d

(* Our session is the current one, and has not been told that it is over.  *)
OursIsCurrent ==
    Owned("dlna") =>
        /\ owner.ref = Ref(currentRef) /\ currentRef # 0
        /\ \A o \in told : o.of.by = "dlna" => o.of.ref # owner.ref

(* What a call may rely on.                                                *)
FreshCall(c) ==
    c.pc \in Admitted \cup {"admit"} /\ c.expected = 0 =>
        /\ ~Owned("dlna")
        /\ c.pc # "admit" => /\ currentRef = c.ref
                             /\ \A o \in told : o.of.by = "dlna" => o.of.ref # Ref(c.ref)
ReconnectCall(c) == c.pc \in Admitted /\ c.expected # 0 => c.ref = c.expected
StartedCall(c) ==
    c.pc \in {"started", "playing"} /\ Owned("dlna") => owner.ref = Ref(c.ref) /\ ~owner.paused
OwnerCall(c) ==
    Owned("dlna") =>
        /\ c.pc \in {"play", "resume", "pause", "paused", "stop"} => c.owned = currentRef
        /\ c.pc = "play" => c.state = transportState
        /\ c.pc = "resumed" => ~owner.paused
        /\ c.pc = "paused" => owner.paused

CallsKept ==
    \A c \in calls : FreshCall(c) /\ ReconnectCall(c) /\ StartedCall(c) /\ OwnerCall(c)

(* A ref is current only for a session or a start, or until OnStop comes;  *)
(* a start is in flight only while its call is.                            *)
RefKept ==
    /\ currentRef # 0 =>
          \/ Owned("dlna")
          \/ \E o \in told : o.of.by = "dlna" /\ o.of.ref = Ref(currentRef)
          \/ \E c \in calls : c.pc \in Admitted /\ c.expected = 0
    /\ startInFlight => \E c \in calls : c.pc \in Admitted \cup {"started"} /\ c.ref = currentRef

(* The actions know whether our session plays, unless a call is about to   *)
(* say so.                                                                 *)
StateKept ==
    Owned("dlna") /\ (\A c \in calls : c.pc \notin {"started", "playing", "resumed", "paused"})
        => transportState = IF owner.paused THEN "PAUSED" ELSE "PLAYING"

ApartInv == OneCall /\ OursIsCurrent /\ CallsKept /\ RefKept /\ StateKept

DlnaInv == DlnaShape /\ CallsShape /\ DiskKept /\ LoadedKept /\ (PlaysApart => ApartInv)

LEMMA CallFields ==
    ASSUME NEW m, NEW n, NEW c \in CallsUpTo(m, n)
    PROVE  /\ c.pc \in DlnaSteps /\ c.owned \in 0..m /\ c.state \in Transports /\ c.expected \in 0..m
           /\ c.ref \in 0..m /\ c.source \in Sources /\ c.cache \in 0..n
BY DEF CallsUpTo

LEMMA CallGoes ==
    ASSUME NEW m, NEW n, NEW c \in CallsUpTo(m, n), NEW p \in DlnaSteps, NEW d, d = [c EXCEPT !.pc = p]
    PROVE  /\ d \in CallsUpTo(m, n)
           /\ d.pc = p /\ d.owned = c.owned /\ d.state = c.state /\ d.expected = c.expected
           /\ d.ref = c.ref /\ d.source = c.source /\ d.cache = c.cache
BY DEF CallsUpTo

LEMMA CallsGrow ==
    ASSUME NEW m \in Nat, NEW n \in Nat, NEW i \in Nat, NEW j \in Nat, m <= i, n <= j
    PROVE  CallsUpTo(m, n) \subseteq CallsUpTo(i, j)
BY DEF CallsUpTo

LEMMA CallMarked ==
    ASSUME NEW m, NEW n, NEW c \in CallsUpTo(m, n), NEW r \in 0..m, NEW d,
           d = [c EXCEPT !.pc = "snapshot", !.ref = r]
    PROVE  /\ d \in CallsUpTo(m, n)
           /\ d.pc = "snapshot" /\ d.owned = c.owned /\ d.state = c.state /\ d.expected = c.expected
           /\ d.ref = r /\ d.source = c.source /\ d.cache = c.cache
BY DEF CallsUpTo, DlnaSteps, Admitted

LEMMA RefuseURIKeeps ==
    ASSUME DlnaInv, NEW c \in calls, RefuseURI(c) PROVE DlnaInv'
<1> USE DEF DlnaInv, RefuseURI, Rest, slotVars, onDisk, transport, Proceeds, Becomes, Returns
<1>c. c \in CallsUpTo(refs, prepared)
  BY DEF CallsShape
<1>f. c.expected \in 0..refs /\ c.ref \in 0..refs /\ c.owned \in 0..refs
  BY <1>c, CallFields
<1>0. CallsShape'
  BY <1>c, <1>f DEF CallsShape, Admitted, CallsUpTo
<1>1. DlnaShape'
  BY <1>c, <1>f DEF DlnaShape, SlotShape, DlnaRefs, Ref, Transports, Owned, Admitted, CallsShape,
     Hook, NoSession, Session
<1>2. DiskKept'
  BY <1>c, <1>f DEF DiskKept, DlnaShape
<1>3. LoadedKept'
  BY <1>c, <1>f DEF LoadedKept, CacheIsLoaded, Hook, CallsShape, DlnaShape, Owned, Ref, DlnaRefs,
     Admitted
<1>4. ASSUME PlaysApart' PROVE ApartInv'
  <2>0. PlaysApart /\ ApartInv
    BY <1>4 DEF PlaysApart
  <2>1. OneCall'
    BY <1>c, <1>f, <1>4, <2>0 DEF ApartInv, OneCall
  <2>2. OursIsCurrent'
    BY <1>c, <1>f, <1>0, <1>1, <2>0 DEF Hook, ApartInv, OneCall, OursIsCurrent, CallsKept,
       FreshCall, ReconnectCall, StartedCall, OwnerCall, Admitted, Owned, Ref, DlnaShape, DlnaRefs
  <2>3. CallsKept'
    BY <1>c, <1>f, <1>0, <1>1, <2>0, <2>1, <2>2 DEF Hook, ApartInv, OneCall, OursIsCurrent,
       CallsKept, FreshCall, ReconnectCall, StartedCall, OwnerCall, Admitted, Owned, Ref,
       DlnaShape, DlnaRefs, StateKept
  <2>4. RefKept'
    BY <1>c, <1>f, <1>0, <1>1, <2>0 DEF Hook, ApartInv, OneCall, OursIsCurrent, CallsKept,
       FreshCall, ReconnectCall, StartedCall, OwnerCall, Admitted, Owned, Ref, DlnaShape,
       DlnaRefs, RefKept
  <2>5. StateKept'
    BY <1>c, <1>f, <1>0, <1>1, <2>0 DEF Hook, ApartInv, OneCall, OursIsCurrent, CallsKept,
       FreshCall, ReconnectCall, StartedCall, OwnerCall, Admitted, Owned, Ref, DlnaShape,
       DlnaRefs, StateKept
  <2> QED BY <2>1, <2>2, <2>3, <2>4, <2>5 DEF ApartInv
<1> QED BY <1>0, <1>1, <1>2, <1>3, <1>4 DEF DlnaInv

LEMMA ResumedKeeps ==
    ASSUME DlnaInv, NEW c \in calls, Resumed(c) PROVE DlnaInv'
<1> USE DEF DlnaInv, Resumed, Rest, slotVars, onDisk, transport, Proceeds, Becomes, Returns
<1>c. c \in CallsUpTo(refs, prepared)
  BY DEF CallsShape
<1>f. c.expected \in 0..refs /\ c.ref \in 0..refs /\ c.owned \in 0..refs
  BY <1>c, CallFields
<1>0. CallsShape'
  BY <1>c, <1>f DEF CallsShape, Admitted, CallsUpTo
<1>1. DlnaShape'
  BY <1>c, <1>f DEF DlnaShape, SlotShape, DlnaRefs, Ref, Transports, Owned, Admitted, CallsShape,
     Hook, NoSession, Session
<1>2. DiskKept'
  BY <1>c, <1>f DEF DiskKept, DlnaShape
<1>3. LoadedKept'
  BY <1>c, <1>f DEF LoadedKept, CacheIsLoaded, Hook, CallsShape, DlnaShape, Owned, Ref, DlnaRefs,
     Admitted
<1>4. ASSUME PlaysApart' PROVE ApartInv'
  <2>0. PlaysApart /\ ApartInv
    BY <1>4 DEF PlaysApart
  <2>1. OneCall'
    BY <1>c, <1>f, <1>4, <2>0 DEF ApartInv, OneCall
  <2>2. OursIsCurrent'
    BY <1>c, <1>f, <1>0, <1>1, <2>0 DEF Hook, ApartInv, OneCall, OursIsCurrent, CallsKept,
       FreshCall, ReconnectCall, StartedCall, OwnerCall, Admitted, Owned, Ref, DlnaShape, DlnaRefs
  <2>3. CallsKept'
    BY <1>c, <1>f, <1>0, <1>1, <2>0, <2>1, <2>2 DEF Hook, ApartInv, OneCall, OursIsCurrent,
       CallsKept, FreshCall, ReconnectCall, StartedCall, OwnerCall, Admitted, Owned, Ref,
       DlnaShape, DlnaRefs, StateKept
  <2>4. RefKept'
    BY <1>c, <1>f, <1>0, <1>1, <2>0 DEF Hook, ApartInv, OneCall, OursIsCurrent, CallsKept,
       FreshCall, ReconnectCall, StartedCall, OwnerCall, Admitted, Owned, Ref, DlnaShape,
       DlnaRefs, RefKept
  <2>5. StateKept'
    BY <1>c, <1>f, <1>0, <1>1, <2>0 DEF Hook, ApartInv, OneCall, OursIsCurrent, CallsKept,
       FreshCall, ReconnectCall, StartedCall, OwnerCall, Admitted, Owned, Ref, DlnaShape,
       DlnaRefs, StateKept
  <2> QED BY <2>1, <2>2, <2>3, <2>4, <2>5 DEF ApartInv
<1> QED BY <1>0, <1>1, <1>2, <1>3, <1>4 DEF DlnaInv

LEMMA FailedStartKeeps ==
    ASSUME DlnaInv, NEW c \in calls, FailedStart(c) PROVE DlnaInv'
<1> USE DEF DlnaInv, FailedStart, Rest, slotVars, onDisk, transport, Proceeds, Becomes, Returns
<1>c. c \in CallsUpTo(refs, prepared)
  BY DEF CallsShape
<1>f. c.expected \in 0..refs /\ c.ref \in 0..refs /\ c.owned \in 0..refs
  BY <1>c, CallFields
<1>0. CallsShape'
  BY <1>c, <1>f DEF CallsShape, Admitted, CallsUpTo
<1>1. DlnaShape'
  BY <1>c, <1>f DEF DlnaShape, SlotShape, DlnaRefs, Ref, Transports, Owned, Admitted, CallsShape,
     Hook, NoSession, Session
<1>2. DiskKept'
  BY <1>c, <1>f DEF DiskKept, DlnaShape
<1>3. LoadedKept'
  BY <1>c, <1>f DEF LoadedKept, CacheIsLoaded, Hook, CallsShape, DlnaShape, Owned, Ref, DlnaRefs,
     Admitted
<1>4. ASSUME PlaysApart' PROVE ApartInv'
  <2>0. PlaysApart /\ ApartInv
    BY <1>4 DEF PlaysApart
  <2>1. OneCall'
    BY <1>c, <1>f, <1>4, <2>0 DEF ApartInv, OneCall
  <2>2. OursIsCurrent'
    BY <1>c, <1>f, <1>0, <1>1, <2>0 DEF Hook, ApartInv, OneCall, OursIsCurrent, CallsKept,
       FreshCall, ReconnectCall, StartedCall, OwnerCall, Admitted, Owned, Ref, DlnaShape, DlnaRefs
  <2>3. CallsKept'
    BY <1>c, <1>f, <1>0, <1>1, <2>0, <2>1, <2>2 DEF Hook, ApartInv, OneCall, OursIsCurrent,
       CallsKept, FreshCall, ReconnectCall, StartedCall, OwnerCall, Admitted, Owned, Ref,
       DlnaShape, DlnaRefs, StateKept
  <2>4. RefKept'
    BY <1>c, <1>f, <1>0, <1>1, <2>0 DEF Hook, ApartInv, OneCall, OursIsCurrent, CallsKept,
       FreshCall, ReconnectCall, StartedCall, OwnerCall, Admitted, Owned, Ref, DlnaShape,
       DlnaRefs, RefKept
  <2>5. StateKept'
    BY <1>c, <1>f, <1>0, <1>1, <2>0 DEF Hook, ApartInv, OneCall, OursIsCurrent, CallsKept,
       FreshCall, ReconnectCall, StartedCall, OwnerCall, Admitted, Owned, Ref, DlnaShape,
       DlnaRefs, StateKept
  <2> QED BY <2>1, <2>2, <2>3, <2>4, <2>5 DEF ApartInv
<1> QED BY <1>0, <1>1, <1>2, <1>3, <1>4 DEF DlnaInv

LEMMA ClearStartInFlightKeeps ==
    ASSUME DlnaInv, NEW c \in calls, ClearStartInFlight(c) PROVE DlnaInv'
<1> USE DEF DlnaInv, ClearStartInFlight, Rest, slotVars, onDisk, transport, Proceeds, Becomes,
   Returns
<1>c. c \in CallsUpTo(refs, prepared)
  BY DEF CallsShape
<1>f. c.expected \in 0..refs /\ c.ref \in 0..refs /\ c.owned \in 0..refs
  BY <1>c, CallFields
<1> DEFINE d == [c EXCEPT !.pc = "playing"]
<1>d. /\ d \in CallsUpTo(refs, prepared) /\ d.pc = "playing" /\ d.owned = c.owned /\ d.state = c.state
      /\ d.expected = c.expected /\ d.ref = c.ref /\ d.source = c.source /\ d.cache = c.cache
  BY <1>c, CallGoes DEF DlnaSteps, Admitted
<1>e. calls' = (calls \ {c}) \cup {d}
  OBVIOUS
<1> HIDE DEF d
<1>0. CallsShape'
  BY <1>c, <1>f, <1>d, <1>e DEF CallsShape, Admitted, CallsUpTo
<1>1. DlnaShape'
  BY <1>c, <1>f, <1>d, <1>e DEF DlnaShape, SlotShape, DlnaRefs, Ref, Transports, Owned, Admitted,
     CallsShape, Hook, NoSession, Session
<1>2. DiskKept'
  BY <1>c, <1>f, <1>d, <1>e DEF DiskKept, DlnaShape
<1>3. LoadedKept'
  BY <1>c, <1>f, <1>d, <1>e DEF LoadedKept, CacheIsLoaded, Hook, CallsShape, DlnaShape, Owned,
     Ref, DlnaRefs, Admitted
<1>4. ASSUME PlaysApart' PROVE ApartInv'
  <2>0. PlaysApart /\ ApartInv
    BY <1>4 DEF PlaysApart
  <2>1. OneCall'
    BY <1>c, <1>f, <1>d, <1>e, <1>4, <2>0 DEF ApartInv, OneCall
  <2>2. OursIsCurrent'
    BY <1>c, <1>f, <1>d, <1>e, <1>0, <1>1, <2>0 DEF Hook, ApartInv, OneCall, OursIsCurrent,
       CallsKept, FreshCall, ReconnectCall, StartedCall, OwnerCall, Admitted, Owned, Ref,
       DlnaShape, DlnaRefs
  <2>3. CallsKept'
    BY <1>c, <1>f, <1>d, <1>e, <1>0, <1>1, <2>0, <2>1, <2>2 DEF Hook, ApartInv, OneCall,
       OursIsCurrent, CallsKept, FreshCall, ReconnectCall, StartedCall, OwnerCall, Admitted,
       Owned, Ref, DlnaShape, DlnaRefs, StateKept
  <2>4. RefKept'
    BY <1>c, <1>f, <1>d, <1>e, <1>0, <1>1, <2>0 DEF Hook, ApartInv, OneCall, OursIsCurrent,
       CallsKept, FreshCall, ReconnectCall, StartedCall, OwnerCall, Admitted, Owned, Ref,
       DlnaShape, DlnaRefs, RefKept
  <2>5. StateKept'
    BY <1>c, <1>f, <1>d, <1>e, <1>0, <1>1, <2>0 DEF Hook, ApartInv, OneCall, OursIsCurrent,
       CallsKept, FreshCall, ReconnectCall, StartedCall, OwnerCall, Admitted, Owned, Ref,
       DlnaShape, DlnaRefs, StateKept
  <2> QED BY <2>1, <2>2, <2>3, <2>4, <2>5 DEF ApartInv
<1> QED BY <1>0, <1>1, <1>2, <1>3, <1>4 DEF DlnaInv

LEMMA StartSucceededKeeps ==
    ASSUME DlnaInv, NEW c \in calls, StartSucceeded(c) PROVE DlnaInv'
<1> USE DEF DlnaInv, StartSucceeded, Rest, slotVars, onDisk, transport, Proceeds, Becomes, Returns
<1>c. c \in CallsUpTo(refs, prepared)
  BY DEF CallsShape
<1>f. c.expected \in 0..refs /\ c.ref \in 0..refs /\ c.owned \in 0..refs
  BY <1>c, CallFields
<1>0. CallsShape'
  BY <1>c, <1>f DEF CallsShape, Admitted, CallsUpTo
<1>1. DlnaShape'
  BY <1>c, <1>f DEF DlnaShape, SlotShape, DlnaRefs, Ref, Transports, Owned, Admitted, CallsShape,
     Hook, NoSession, Session
<1>2. DiskKept'
  BY <1>c, <1>f DEF DiskKept, DlnaShape
<1>3. LoadedKept'
  BY <1>c, <1>f DEF LoadedKept, CacheIsLoaded, Hook, CallsShape, DlnaShape, Owned, Ref, DlnaRefs,
     Admitted
<1>4. ASSUME PlaysApart' PROVE ApartInv'
  <2>0. PlaysApart /\ ApartInv
    BY <1>4 DEF PlaysApart
  <2>1. OneCall'
    BY <1>c, <1>f, <1>4, <2>0 DEF ApartInv, OneCall
  <2>2. OursIsCurrent'
    BY <1>c, <1>f, <1>0, <1>1, <2>0 DEF Hook, ApartInv, OneCall, OursIsCurrent, CallsKept,
       FreshCall, ReconnectCall, StartedCall, OwnerCall, Admitted, Owned, Ref, DlnaShape, DlnaRefs
  <2>3. CallsKept'
    BY <1>c, <1>f, <1>0, <1>1, <2>0, <2>1, <2>2 DEF Hook, ApartInv, OneCall, OursIsCurrent,
       CallsKept, FreshCall, ReconnectCall, StartedCall, OwnerCall, Admitted, Owned, Ref,
       DlnaShape, DlnaRefs, StateKept
  <2>4. RefKept'
    BY <1>c, <1>f, <1>0, <1>1, <2>0 DEF Hook, ApartInv, OneCall, OursIsCurrent, CallsKept,
       FreshCall, ReconnectCall, StartedCall, OwnerCall, Admitted, Owned, Ref, DlnaShape,
       DlnaRefs, RefKept
  <2>5. StateKept'
    BY <1>c, <1>f, <1>0, <1>1, <2>0 DEF Hook, ApartInv, OneCall, OursIsCurrent, CallsKept,
       FreshCall, ReconnectCall, StartedCall, OwnerCall, Admitted, Owned, Ref, DlnaShape,
       DlnaRefs, StateKept
  <2> QED BY <2>1, <2>2, <2>3, <2>4, <2>5 DEF ApartInv
<1> QED BY <1>0, <1>1, <1>2, <1>3, <1>4 DEF DlnaInv

LEMMA PauseSucceededKeeps ==
    ASSUME DlnaInv, NEW c \in calls, PauseSucceeded(c) PROVE DlnaInv'
<1> USE DEF DlnaInv, PauseSucceeded, Rest, slotVars, onDisk, transport, Proceeds, Becomes, Returns
<1>c. c \in CallsUpTo(refs, prepared)
  BY DEF CallsShape
<1>f. c.expected \in 0..refs /\ c.ref \in 0..refs /\ c.owned \in 0..refs
  BY <1>c, CallFields
<1>0. CallsShape'
  BY <1>c, <1>f DEF CallsShape, Admitted, CallsUpTo
<1>1. DlnaShape'
  BY <1>c, <1>f DEF DlnaShape, SlotShape, DlnaRefs, Ref, Transports, Owned, Admitted, CallsShape,
     Hook, NoSession, Session
<1>2. DiskKept'
  BY <1>c, <1>f DEF DiskKept, DlnaShape
<1>3. LoadedKept'
  BY <1>c, <1>f DEF LoadedKept, CacheIsLoaded, Hook, CallsShape, DlnaShape, Owned, Ref, DlnaRefs,
     Admitted
<1>4. ASSUME PlaysApart' PROVE ApartInv'
  <2>0. PlaysApart /\ ApartInv
    BY <1>4 DEF PlaysApart
  <2>1. OneCall'
    BY <1>c, <1>f, <1>4, <2>0 DEF ApartInv, OneCall
  <2>2. OursIsCurrent'
    BY <1>c, <1>f, <1>0, <1>1, <2>0 DEF Hook, ApartInv, OneCall, OursIsCurrent, CallsKept,
       FreshCall, ReconnectCall, StartedCall, OwnerCall, Admitted, Owned, Ref, DlnaShape, DlnaRefs
  <2>3. CallsKept'
    BY <1>c, <1>f, <1>0, <1>1, <2>0, <2>1, <2>2 DEF Hook, ApartInv, OneCall, OursIsCurrent,
       CallsKept, FreshCall, ReconnectCall, StartedCall, OwnerCall, Admitted, Owned, Ref,
       DlnaShape, DlnaRefs, StateKept
  <2>4. RefKept'
    BY <1>c, <1>f, <1>0, <1>1, <2>0 DEF Hook, ApartInv, OneCall, OursIsCurrent, CallsKept,
       FreshCall, ReconnectCall, StartedCall, OwnerCall, Admitted, Owned, Ref, DlnaShape,
       DlnaRefs, RefKept
  <2>5. StateKept'
    BY <1>c, <1>f, <1>0, <1>1, <2>0 DEF Hook, ApartInv, OneCall, OursIsCurrent, CallsKept,
       FreshCall, ReconnectCall, StartedCall, OwnerCall, Admitted, Owned, Ref, DlnaShape,
       DlnaRefs, StateKept
  <2> QED BY <2>1, <2>2, <2>3, <2>4, <2>5 DEF ApartInv
<1> QED BY <1>0, <1>1, <1>2, <1>3, <1>4 DEF DlnaInv

LEMMA EnableKeeps ==
    ASSUME DlnaInv, NEW c \in calls, Enable(c) PROVE DlnaInv'
<1> USE DEF DlnaInv, Enable, Rest, slotVars, onDisk, transport, Proceeds, Becomes, Returns
<1>c. c \in CallsUpTo(refs, prepared)
  BY DEF CallsShape
<1>f. c.expected \in 0..refs /\ c.ref \in 0..refs /\ c.owned \in 0..refs
  BY <1>c, CallFields
<1>0. CallsShape'
  BY <1>c, <1>f DEF CallsShape, Admitted, CallsUpTo
<1>1. DlnaShape'
  BY <1>c, <1>f DEF DlnaShape, SlotShape, DlnaRefs, Ref, Transports, Owned, Admitted, CallsShape,
     Hook, NoSession, Session
<1>2. DiskKept'
  BY <1>c, <1>f DEF DiskKept, DlnaShape
<1>3. LoadedKept'
  BY <1>c, <1>f DEF LoadedKept, CacheIsLoaded, Hook, CallsShape, DlnaShape, Owned, Ref, DlnaRefs,
     Admitted
<1>4. ASSUME PlaysApart' PROVE ApartInv'
  <2>0. PlaysApart /\ ApartInv
    BY <1>4 DEF PlaysApart
  <2>1. OneCall'
    BY <1>c, <1>f, <1>4, <2>0 DEF ApartInv, OneCall
  <2>2. OursIsCurrent'
    BY <1>c, <1>f, <1>0, <1>1, <2>0 DEF Hook, ApartInv, OneCall, OursIsCurrent, CallsKept,
       FreshCall, ReconnectCall, StartedCall, OwnerCall, Admitted, Owned, Ref, DlnaShape, DlnaRefs
  <2>3. CallsKept'
    BY <1>c, <1>f, <1>0, <1>1, <2>0, <2>1, <2>2 DEF Hook, ApartInv, OneCall, OursIsCurrent,
       CallsKept, FreshCall, ReconnectCall, StartedCall, OwnerCall, Admitted, Owned, Ref,
       DlnaShape, DlnaRefs, StateKept
  <2>4. RefKept'
    BY <1>c, <1>f, <1>0, <1>1, <2>0 DEF Hook, ApartInv, OneCall, OursIsCurrent, CallsKept,
       FreshCall, ReconnectCall, StartedCall, OwnerCall, Admitted, Owned, Ref, DlnaShape,
       DlnaRefs, RefKept
  <2>5. StateKept'
    BY <1>c, <1>f, <1>0, <1>1, <2>0 DEF Hook, ApartInv, OneCall, OursIsCurrent, CallsKept,
       FreshCall, ReconnectCall, StartedCall, OwnerCall, Admitted, Owned, Ref, DlnaShape,
       DlnaRefs, StateKept
  <2> QED BY <2>1, <2>2, <2>3, <2>4, <2>5 DEF ApartInv
<1> QED BY <1>0, <1>1, <1>2, <1>3, <1>4 DEF DlnaInv

LEMMA ClearLoadedKeeps ==
    ASSUME DlnaInv, NEW c \in calls, ClearLoadedPlaybackCacheIfIdle(c) PROVE DlnaInv'
<1> USE DEF DlnaInv, ClearLoadedPlaybackCacheIfIdle, Cleans, Rest, slotVars, onDisk, transport,
   Proceeds, Becomes, Returns
<1>c. c \in CallsUpTo(refs, prepared)
  BY DEF CallsShape
<1>f. c.expected \in 0..refs /\ c.ref \in 0..refs /\ c.owned \in 0..refs
  BY <1>c, CallFields
<1> DEFINE d == [c EXCEPT !.pc = "on"]
<1>d. /\ d \in CallsUpTo(refs, prepared) /\ d.pc = "on" /\ d.owned = c.owned /\ d.state = c.state
      /\ d.expected = c.expected /\ d.ref = c.ref /\ d.source = c.source /\ d.cache = c.cache
  BY <1>c, CallGoes DEF DlnaSteps, Admitted
<1>e. calls' = (calls \ {c}) \cup {d}
  OBVIOUS
<1> HIDE DEF d
<1>0. CallsShape'
  BY <1>c, <1>f, <1>d, <1>e DEF CallsShape, Admitted, CallsUpTo
<1>1. DlnaShape'
  BY <1>c, <1>f, <1>d, <1>e DEF DlnaShape, SlotShape, DlnaRefs, Ref, Transports, Owned, Admitted,
     CallsShape, Hook, NoSession, Session
<1>2. DiskKept'
  BY <1>c, <1>f, <1>d, <1>e DEF DiskKept, DlnaShape
<1>3. LoadedKept'
  BY <1>c, <1>f, <1>d, <1>e DEF LoadedKept, CacheIsLoaded, Hook, CallsShape, DlnaShape, Owned,
     Ref, DlnaRefs, Admitted
<1>4. ASSUME PlaysApart' PROVE ApartInv'
  <2>0. PlaysApart /\ ApartInv
    BY <1>4 DEF PlaysApart
  <2>1. OneCall'
    BY <1>c, <1>f, <1>d, <1>e, <1>4, <2>0 DEF ApartInv, OneCall
  <2>2. OursIsCurrent'
    BY <1>c, <1>f, <1>d, <1>e, <1>0, <1>1, <2>0 DEF Hook, ApartInv, OneCall, OursIsCurrent,
       CallsKept, FreshCall, ReconnectCall, StartedCall, OwnerCall, Admitted, Owned, Ref,
       DlnaShape, DlnaRefs
  <2>3. CallsKept'
    BY <1>c, <1>f, <1>d, <1>e, <1>0, <1>1, <2>0, <2>1, <2>2 DEF Hook, ApartInv, OneCall,
       OursIsCurrent, CallsKept, FreshCall, ReconnectCall, StartedCall, OwnerCall, Admitted,
       Owned, Ref, DlnaShape, DlnaRefs, StateKept
  <2>4. RefKept'
    BY <1>c, <1>f, <1>d, <1>e, <1>0, <1>1, <2>0 DEF Hook, ApartInv, OneCall, OursIsCurrent,
       CallsKept, FreshCall, ReconnectCall, StartedCall, OwnerCall, Admitted, Owned, Ref,
       DlnaShape, DlnaRefs, RefKept
  <2>5. StateKept'
    BY <1>c, <1>f, <1>d, <1>e, <1>0, <1>1, <2>0 DEF Hook, ApartInv, OneCall, OursIsCurrent,
       CallsKept, FreshCall, ReconnectCall, StartedCall, OwnerCall, Admitted, Owned, Ref,
       DlnaShape, DlnaRefs, StateKept
  <2> QED BY <2>1, <2>2, <2>3, <2>4, <2>5 DEF ApartInv
<1> QED BY <1>0, <1>1, <1>2, <1>3, <1>4 DEF DlnaInv

LEMMA RollbackAdmissionKeeps ==
    ASSUME DlnaInv, NEW c \in calls, RollbackAdmission(c) PROVE DlnaInv'
<1> USE DEF DlnaInv, RollbackAdmission, Rest, slotVars, onDisk, transport, Proceeds, Becomes,
   Returns
<1>c. c \in CallsUpTo(refs, prepared)
  BY DEF CallsShape
<1>f. c.expected \in 0..refs /\ c.ref \in 0..refs /\ c.owned \in 0..refs
  BY <1>c, CallFields
<1> DEFINE d == [c EXCEPT !.pc = "stopped"]
<1>d. /\ d \in CallsUpTo(refs, prepared) /\ d.pc = "stopped" /\ d.owned = c.owned /\ d.state = c.state
      /\ d.expected = c.expected /\ d.ref = c.ref /\ d.source = c.source /\ d.cache = c.cache
  BY <1>c, CallGoes DEF DlnaSteps, Admitted
<1>e. calls' = calls \ {c} \/ calls' = (calls \ {c}) \cup {d}
  OBVIOUS
<1> HIDE DEF d
<1>0. CallsShape'
  BY <1>c, <1>f, <1>d, <1>e DEF CallsShape, Admitted, CallsUpTo
<1>1. DlnaShape'
  BY <1>c, <1>f, <1>d, <1>e DEF DlnaShape, SlotShape, DlnaRefs, Ref, Transports, Owned, Admitted,
     CallsShape, Hook, NoSession, Session
<1>2. DiskKept'
  BY <1>c, <1>f, <1>d, <1>e DEF DiskKept, DlnaShape
<1>3. LoadedKept'
  BY <1>c, <1>f, <1>d, <1>e DEF LoadedKept, CacheIsLoaded, Hook, CallsShape, DlnaShape, Owned,
     Ref, DlnaRefs, Admitted
<1>4. ASSUME PlaysApart' PROVE ApartInv'
  <2>0. PlaysApart /\ ApartInv
    BY <1>4 DEF PlaysApart
  <2>1. OneCall'
    BY <1>c, <1>f, <1>d, <1>e, <1>4, <2>0 DEF ApartInv, OneCall
  <2>2. OursIsCurrent'
    BY <1>c, <1>f, <1>d, <1>e, <1>0, <1>1, <2>0 DEF Hook, ApartInv, OneCall, OursIsCurrent,
       CallsKept, FreshCall, ReconnectCall, StartedCall, OwnerCall, Admitted, Owned, Ref,
       DlnaShape, DlnaRefs
  <2>3. CallsKept'
    BY <1>c, <1>f, <1>d, <1>e, <1>0, <1>1, <2>0, <2>1, <2>2 DEF Hook, ApartInv, OneCall,
       OursIsCurrent, CallsKept, FreshCall, ReconnectCall, StartedCall, OwnerCall, Admitted,
       Owned, Ref, DlnaShape, DlnaRefs, StateKept
  <2>4. RefKept'
    BY <1>c, <1>f, <1>d, <1>e, <1>0, <1>1, <2>0 DEF Hook, ApartInv, OneCall, OursIsCurrent,
       CallsKept, FreshCall, ReconnectCall, StartedCall, OwnerCall, Admitted, Owned, Ref,
       DlnaShape, DlnaRefs, RefKept
  <2>5. StateKept'
    BY <1>c, <1>f, <1>d, <1>e, <1>0, <1>1, <2>0 DEF Hook, ApartInv, OneCall, OursIsCurrent,
       CallsKept, FreshCall, ReconnectCall, StartedCall, OwnerCall, Admitted, Owned, Ref,
       DlnaShape, DlnaRefs, StateKept
  <2> QED BY <2>1, <2>2, <2>3, <2>4, <2>5 DEF ApartInv
<1> QED BY <1>0, <1>1, <1>2, <1>3, <1>4 DEF DlnaInv

LEMMA ResumeKeeps ==
    ASSUME DlnaInv, NEW c \in calls, Resume(c) PROVE DlnaInv'
<1> USE DEF DlnaInv
<1>c. c \in CallsUpTo(refs, prepared)
  BY DEF CallsShape
<1>f. c.expected \in 0..refs /\ c.ref \in 0..refs /\ c.owned \in 0..refs
  BY <1>c, CallFields
<1> DEFINE d == [c EXCEPT !.pc = "resumed"]
<1>e. /\ \/ calls' = calls \ {c} /\ owner' = owner
         \/ /\ calls' = (calls \ {c}) \cup {d} /\ Ours(c.owned)
            /\ owner'.by = owner.by /\ owner'.ref = owner.ref /\ owner'.req = owner.req /\ owner'.paused = FALSE
      /\ SlotShape'
      /\ c.pc = "resume"
      /\ UNCHANGED <<told, dlnaLimit, dlnaAsked, dlnaEnded, enabled, currentRef, startInFlight,
                     transportState, loaded, refs, caches, removing, prepared>>
  <2> USE DEF Resume, slotVars, Rest, transport, onDisk, Proceeds, Becomes, Returns, DlnaShape
  <2>1. CASE Ours(c.owned) /\ owner.paused
    <3>1. SetPaused(FALSE) /\ ~Idle
      BY <2>1 DEF Ours, Owned, Idle
    <3> QED BY <2>1, <3>1, Paused
  <2>2. CASE ~(Ours(c.owned) /\ owner.paused)
    BY <2>2, SlotStays
  <2> QED BY <2>1, <2>2
<1>h. d = [c EXCEPT !.pc = "resumed"]
  OBVIOUS
<1> HIDE DEF d
<1>d. /\ d \in CallsUpTo(refs, prepared) /\ d.pc = "resumed" /\ d.owned = c.owned /\ d.state = c.state
      /\ d.expected = c.expected /\ d.ref = c.ref /\ d.source = c.source /\ d.cache = c.cache
  BY <1>c, <1>h, CallGoes DEF DlnaSteps, Admitted
<1>0. CallsShape'
  BY <1>c, <1>f, <1>d, <1>e DEF CallsShape, Admitted, CallsUpTo
<1>1. DlnaShape'
  BY <1>c, <1>f, <1>d, <1>e DEF DlnaShape, SlotShape, DlnaRefs, Ref, Transports, Owned, Admitted,
     CallsShape, Hook, NoSession, Session
<1>2. DiskKept'
  BY <1>c, <1>f, <1>d, <1>e DEF DiskKept, DlnaShape
<1>3. LoadedKept'
  BY <1>c, <1>f, <1>d, <1>e DEF LoadedKept, CacheIsLoaded, Hook, CallsShape, DlnaShape, Owned,
     Ref, DlnaRefs, Admitted
<1>4. ASSUME PlaysApart' PROVE ApartInv'
  <2>0. PlaysApart /\ ApartInv
    BY <1>e, <1>4 DEF PlaysApart
  <2>1. OneCall'
    BY <1>c, <1>f, <1>d, <1>e, <1>4, <2>0 DEF ApartInv, OneCall
  <2>2. OursIsCurrent'
    BY <1>c, <1>f, <1>d, <1>e, <1>0, <1>1, <2>0 DEF Hook, ApartInv, OneCall, OursIsCurrent,
       CallsKept, FreshCall, ReconnectCall, StartedCall, OwnerCall, Admitted, Owned, Ref,
       DlnaShape, DlnaRefs
  <2>3. CallsKept'
    BY <1>c, <1>f, <1>d, <1>e, <1>0, <1>1, <2>0, <2>1, <2>2 DEF Hook, ApartInv, OneCall,
       OursIsCurrent, CallsKept, FreshCall, ReconnectCall, StartedCall, OwnerCall, Admitted,
       Owned, Ref, DlnaShape, DlnaRefs, StateKept
  <2>4. RefKept'
    BY <1>c, <1>f, <1>d, <1>e, <1>0, <1>1, <2>0 DEF Hook, ApartInv, OneCall, OursIsCurrent,
       CallsKept, FreshCall, ReconnectCall, StartedCall, OwnerCall, Admitted, Owned, Ref,
       DlnaShape, DlnaRefs, RefKept
  <2>5. StateKept'
    BY <1>c, <1>f, <1>d, <1>e, <1>0, <1>1, <2>0 DEF Hook, ApartInv, OneCall, OursIsCurrent,
       CallsKept, FreshCall, ReconnectCall, StartedCall, OwnerCall, Admitted, Owned, Ref,
       DlnaShape, DlnaRefs, StateKept
  <2> QED BY <2>1, <2>2, <2>3, <2>4, <2>5 DEF ApartInv
<1> QED BY <1>0, <1>1, <1>2, <1>3, <1>4 DEF DlnaInv

LEMMA PauseKeeps ==
    ASSUME DlnaInv, NEW c \in calls, PauseIfAdapterRef(c) PROVE DlnaInv'
<1> USE DEF DlnaInv
<1>c. c \in CallsUpTo(refs, prepared)
  BY DEF CallsShape
<1>f. c.expected \in 0..refs /\ c.ref \in 0..refs /\ c.owned \in 0..refs
  BY <1>c, CallFields
<1> DEFINE d == [c EXCEPT !.pc = "paused"]
<1>e. /\ \/ calls' = calls \ {c} /\ owner' = owner
         \/ /\ calls' = (calls \ {c}) \cup {d} /\ Ours(c.owned)
            /\ owner'.by = owner.by /\ owner'.ref = owner.ref /\ owner'.req = owner.req /\ owner'.paused = TRUE
      /\ SlotShape'
      /\ c.pc = "pause"
      /\ UNCHANGED <<told, dlnaLimit, dlnaAsked, dlnaEnded, enabled, currentRef, startInFlight,
                     transportState, loaded, refs, caches, removing, prepared>>
  <2> USE DEF PauseIfAdapterRef, slotVars, Rest, transport, onDisk, Proceeds, Becomes, Returns,
     DlnaShape
  <2>1. CASE Ours(c.owned) /\ ~owner.paused
    <3>1. SetPaused(TRUE) /\ ~Idle
      BY <2>1 DEF Ours, Owned, Idle
    <3> QED BY <2>1, <3>1, Paused
  <2>2. CASE ~(Ours(c.owned) /\ ~owner.paused)
    BY <2>2, SlotStays
  <2> QED BY <2>1, <2>2
<1>h. d = [c EXCEPT !.pc = "paused"]
  OBVIOUS
<1> HIDE DEF d
<1>d. /\ d \in CallsUpTo(refs, prepared) /\ d.pc = "paused" /\ d.owned = c.owned /\ d.state = c.state
      /\ d.expected = c.expected /\ d.ref = c.ref /\ d.source = c.source /\ d.cache = c.cache
  BY <1>c, <1>h, CallGoes DEF DlnaSteps, Admitted
<1>0. CallsShape'
  BY <1>c, <1>f, <1>d, <1>e DEF CallsShape, Admitted, CallsUpTo
<1>1. DlnaShape'
  BY <1>c, <1>f, <1>d, <1>e DEF DlnaShape, SlotShape, DlnaRefs, Ref, Transports, Owned, Admitted,
     CallsShape, Hook, NoSession, Session
<1>2. DiskKept'
  BY <1>c, <1>f, <1>d, <1>e DEF DiskKept, DlnaShape
<1>3. LoadedKept'
  BY <1>c, <1>f, <1>d, <1>e DEF LoadedKept, CacheIsLoaded, Hook, CallsShape, DlnaShape, Owned,
     Ref, DlnaRefs, Admitted
<1>4. ASSUME PlaysApart' PROVE ApartInv'
  <2>0. PlaysApart /\ ApartInv
    BY <1>e, <1>4 DEF PlaysApart
  <2>1. OneCall'
    BY <1>c, <1>f, <1>d, <1>e, <1>4, <2>0 DEF ApartInv, OneCall
  <2>2. OursIsCurrent'
    BY <1>c, <1>f, <1>d, <1>e, <1>0, <1>1, <2>0 DEF Hook, ApartInv, OneCall, OursIsCurrent,
       CallsKept, FreshCall, ReconnectCall, StartedCall, OwnerCall, Admitted, Owned, Ref,
       DlnaShape, DlnaRefs
  <2>3. CallsKept'
    BY <1>c, <1>f, <1>d, <1>e, <1>0, <1>1, <2>0, <2>1, <2>2 DEF Hook, ApartInv, OneCall,
       OursIsCurrent, CallsKept, FreshCall, ReconnectCall, StartedCall, OwnerCall, Admitted,
       Owned, Ref, DlnaShape, DlnaRefs, StateKept
  <2>4. RefKept'
    BY <1>c, <1>f, <1>d, <1>e, <1>0, <1>1, <2>0 DEF Hook, ApartInv, OneCall, OursIsCurrent,
       CallsKept, FreshCall, ReconnectCall, StartedCall, OwnerCall, Admitted, Owned, Ref,
       DlnaShape, DlnaRefs, RefKept
  <2>5. StateKept'
    BY <1>c, <1>f, <1>d, <1>e, <1>0, <1>1, <2>0 DEF Hook, ApartInv, OneCall, OursIsCurrent,
       CallsKept, FreshCall, ReconnectCall, StartedCall, OwnerCall, Admitted, Owned, Ref,
       DlnaShape, DlnaRefs, StateKept
  <2> QED BY <2>1, <2>2, <2>3, <2>4, <2>5 DEF ApartInv
<1> QED BY <1>0, <1>1, <1>2, <1>3, <1>4 DEF DlnaInv

LEMMA DecidePlayKeeps ==
    ASSUME DlnaInv, NEW c \in calls, DecidePlay(c) PROVE DlnaInv'
<1> USE DEF DlnaInv
<1>c. c \in CallsUpTo(refs, prepared)
  BY DEF CallsShape
<1>f. c.expected \in 0..refs /\ c.ref \in 0..refs /\ c.owned \in 0..refs
  BY <1>c, CallFields
<1> DEFINE own == c.owned # 0 /\ Ours(c.owned)
           d1  == [c EXCEPT !.pc = "resume"]
           d2  == [c EXCEPT !.pc = "admit", !.expected = c.owned]
           d3  == [c EXCEPT !.pc = "admit"]
<1>k. \/ calls' = calls \ {c}
      \/ calls' = (calls \ {c}) \cup {d1}
      \/ calls' = (calls \ {c}) \cup {d2} /\ c.owned # 0
      \/ /\ calls' = (calls \ {c}) \cup {d3}
         /\ Idle \/ (Ours(c.owned) /\ c.state # "PLAYING" /\ c.state # "PAUSED")
  <2> USE DEF DecidePlay, Proceeds, Becomes, Returns
  <2>1. CASE own /\ c.state = "PLAYING"
    BY <2>1
  <2>2. CASE own /\ c.state = "PAUSED"
    BY <2>2
  <2>3. CASE ~own /\ Idle
    BY <2>3
  <2>4. CASE own /\ c.state # "PLAYING" /\ c.state # "PAUSED"
    BY <2>4
  <2>5. CASE ~own /\ ~Idle
    BY <2>5
  <2> QED BY <2>1, <2>2, <2>3, <2>4, <2>5
<1>l. {d1, d2, d3} \subseteq CallsUpTo(refs, prepared)
  BY <1>c DEF CallsUpTo, DlnaSteps
<1>m. /\ d1.pc = "resume" /\ d1.owned = c.owned /\ d1.state = c.state /\ d1.ref = c.ref /\ d1.cache = c.cache
      /\ d2.pc = "admit" /\ d2.owned = c.owned /\ d2.state = c.state /\ d2.ref = c.ref /\ d2.cache = c.cache
      /\ d2.expected = c.owned
      /\ d3.pc = "admit" /\ d3.owned = c.owned /\ d3.state = c.state /\ d3.ref = c.ref /\ d3.cache = c.cache
      /\ d3.expected = c.expected
  BY <1>c DEF CallsUpTo
<1> HIDE DEF d1, d2, d3
<1>d. PICK d \in CallsUpTo(refs, prepared) :
         /\ calls' = calls \ {c} \/ calls' = (calls \ {c}) \cup {d}
         /\ d.owned = c.owned /\ d.state = c.state /\ d.ref = c.ref /\ d.cache = c.cache
         /\ \/ d.pc = "resume"
            \/ d.pc = "admit" /\ d.expected = c.owned /\ c.owned # 0
            \/ /\ d.pc = "admit" /\ d.expected = c.expected
               /\ owner.by = "none" \/ (Ours(c.owned) /\ c.state # "PLAYING" /\ c.state # "PAUSED")
  BY <1>k, <1>l, <1>m DEF Idle
<1>e. /\ c.pc = "play"
      /\ UNCHANGED <<owner, told, dlnaLimit, dlnaAsked, dlnaEnded, enabled, currentRef, startInFlight,
                     transportState, loaded, refs, caches, removing, prepared>>
  BY DEF DecidePlay, slotVars, Rest, transport, onDisk
<1>0. CallsShape'
  BY <1>c, <1>f, <1>d, <1>e DEF CallsShape, Admitted, CallsUpTo
<1>1. DlnaShape'
  BY <1>c, <1>f, <1>d, <1>e DEF DlnaShape, SlotShape, DlnaRefs, Ref, Transports, Owned, Admitted,
     CallsShape, Hook, NoSession, Session
<1>2. DiskKept'
  BY <1>c, <1>f, <1>d, <1>e DEF DiskKept, DlnaShape
<1>3. LoadedKept'
  BY <1>c, <1>f, <1>d, <1>e DEF LoadedKept, CacheIsLoaded, Hook, CallsShape, DlnaShape, Owned,
     Ref, DlnaRefs, Admitted
<1>4. ASSUME PlaysApart' PROVE ApartInv'
  <2>0. PlaysApart /\ ApartInv
    BY <1>e, <1>4 DEF PlaysApart
  <2>1. OneCall'
    BY <1>c, <1>f, <1>d, <1>e, <1>4, <2>0 DEF ApartInv, OneCall
  <2>2. OursIsCurrent'
    BY <1>c, <1>f, <1>d, <1>e, <1>0, <1>1, <2>0 DEF Hook, ApartInv, OneCall, OursIsCurrent,
       CallsKept, FreshCall, ReconnectCall, StartedCall, OwnerCall, Admitted, Owned, Ref,
       DlnaShape, DlnaRefs
  <2>3. CallsKept'
    BY <1>c, <1>f, <1>d, <1>e, <1>0, <1>1, <2>0, <2>1, <2>2 DEF Hook, ApartInv, OneCall,
       OursIsCurrent, CallsKept, FreshCall, ReconnectCall, StartedCall, OwnerCall, Admitted,
       Owned, Ref, DlnaShape, DlnaRefs, StateKept
  <2>4. RefKept'
    BY <1>c, <1>f, <1>d, <1>e, <1>0, <1>1, <2>0 DEF Hook, ApartInv, OneCall, OursIsCurrent,
       CallsKept, FreshCall, ReconnectCall, StartedCall, OwnerCall, Admitted, Owned, Ref,
       DlnaShape, DlnaRefs, RefKept
  <2>5. StateKept'
    BY <1>c, <1>f, <1>d, <1>e, <1>0, <1>1, <2>0 DEF Hook, ApartInv, OneCall, OursIsCurrent,
       CallsKept, FreshCall, ReconnectCall, StartedCall, OwnerCall, Admitted, Owned, Ref,
       DlnaShape, DlnaRefs, StateKept
  <2> QED BY <2>1, <2>2, <2>3, <2>4, <2>5 DEF ApartInv
<1> QED BY <1>0, <1>1, <1>2, <1>3, <1>4 DEF DlnaInv

LEMMA MarkKeeps ==
    ASSUME DlnaInv, NEW c \in calls, MarkStartInFlight(c) PROVE DlnaInv'
<1> USE DEF DlnaInv
<1>c. c \in CallsUpTo(refs, prepared)
  BY DEF CallsShape
<1>f. c.expected \in 0..refs /\ c.ref \in 0..refs /\ c.owned \in 0..refs
  BY <1>c, CallFields
<1> DEFINE d == [c EXCEPT !.pc = "snapshot", !.ref = currentRef']
<1>e. /\ \/ /\ calls' = calls \ {c} /\ UNCHANGED <<currentRef, startInFlight, refs>>
         \/ /\ calls' = (calls \ {c}) \cup {d} /\ startInFlight' = TRUE /\ ~startInFlight
            /\ \/ c.expected = 0 /\ refs' = refs + 1 /\ currentRef' = refs + 1
               \/ c.expected # 0 /\ refs' = refs /\ currentRef' = c.expected /\ currentRef = c.expected
      /\ c.pc = "admit"
      /\ UNCHANGED <<owner, told, dlnaLimit, dlnaAsked, dlnaEnded, enabled, transportState, loaded,
                     caches, removing, prepared>>
  BY <1>c, CallFields DEF MarkStartInFlight, slotVars, Rest, transport, onDisk, Becomes, Returns
<1>h. d = [c EXCEPT !.pc = "snapshot", !.ref = currentRef']
  OBVIOUS
<1> HIDE DEF d
<1>g. /\ refs \in Nat /\ refs' \in Nat /\ refs <= refs' /\ currentRef' \in 0..refs'
      /\ prepared' = prepared /\ prepared \in Nat
  BY <1>e, <1>f DEF DlnaShape
<1>i. c \in CallsUpTo(refs', prepared')
  BY <1>c, <1>g, CallsGrow
<1>d. /\ d \in CallsUpTo(refs', prepared') /\ d.pc = "snapshot" /\ d.owned = c.owned /\ d.state = c.state
      /\ d.expected = c.expected /\ d.ref = currentRef' /\ d.source = c.source /\ d.cache = c.cache
  <2>1. currentRef' \in 0..refs'
    BY <1>g
  <2> QED BY <1>h, <1>i, <2>1 DEF CallsUpTo, DlnaSteps, Admitted
<1>j. /\ DlnaRefs \subseteq DlnaRefs'
      /\ refs' = refs + 1 => Ref(currentRef') \notin DlnaRefs
  BY <1>e, <1>g DEF DlnaRefs, Ref
<1>0. CallsShape'
  BY <1>c, <1>f, <1>d, <1>e, <1>g, <1>j,  CallsGrow DEF CallsShape, DlnaShape, Admitted, DlnaSteps
<1>1. DlnaShape'
  BY <1>c, <1>f, <1>d, <1>e, <1>g, <1>j DEF DlnaShape, SlotShape, DlnaRefs, Ref, Transports,
     Owned, Admitted, CallsShape, Hook, NoSession, Session
<1>2. DiskKept'
  BY <1>c, <1>f, <1>d, <1>e, <1>g, <1>j DEF DiskKept, DlnaShape
<1>3. LoadedKept'
  <2>1. CASE refs' = refs
    BY <1>c, <1>f, <1>d, <1>e, <1>g, <2>1 DEF LoadedKept, CacheIsLoaded, Owned
  <2>2. CASE refs' = refs + 1
    <3>1. Ref(currentRef') \notin DlnaRefs /\ currentRef' = refs + 1
      BY <1>e, <1>j, <2>2 DEF DlnaShape
    <3>2. \A e \in calls : e.ref # currentRef'
      BY <3>1, CallFields DEF CallsShape, DlnaShape
    <3> QED BY <1>d, <1>e, <2>2, <3>1, <3>2 DEF LoadedKept, CacheIsLoaded, DlnaShape, Owned
  <2> QED BY <1>e, <2>1, <2>2
<1>4. ASSUME PlaysApart' PROVE ApartInv'
  <2>0. PlaysApart /\ ApartInv
    BY <1>e, <1>4 DEF PlaysApart
  <2>1. OneCall'
    BY <1>c, <1>f, <1>d, <1>e, <1>g, <1>j, <1>4, <2>0 DEF ApartInv, OneCall
  <2>2. OursIsCurrent'
    BY <1>c, <1>f, <1>d, <1>e, <1>g, <1>j, <1>0, <1>1, <2>0 DEF Hook, ApartInv, OneCall,
       OursIsCurrent, CallsKept, FreshCall, ReconnectCall, StartedCall, OwnerCall, Admitted,
       Owned, Ref, DlnaShape, DlnaRefs
  <2>3. CallsKept'
    BY <1>c, <1>f, <1>d, <1>e, <1>g, <1>j, <1>0, <1>1, <2>0, <2>1, <2>2 DEF Hook, ApartInv,
       OneCall, OursIsCurrent, CallsKept, FreshCall, ReconnectCall, StartedCall, OwnerCall,
       Admitted, Owned, Ref, DlnaShape, DlnaRefs, StateKept
  <2>4. RefKept'
    BY <1>c, <1>f, <1>d, <1>e, <1>g, <1>j, <1>0, <1>1, <2>0 DEF Hook, ApartInv, OneCall,
       OursIsCurrent, CallsKept, FreshCall, ReconnectCall, StartedCall, OwnerCall, Admitted,
       Owned, Ref, DlnaShape, DlnaRefs, RefKept
  <2>5. StateKept'
    BY <1>c, <1>f, <1>d, <1>e, <1>g, <1>j, <1>0, <1>1, <2>0 DEF Hook, ApartInv, OneCall,
       OursIsCurrent, CallsKept, FreshCall, ReconnectCall, StartedCall, OwnerCall, Admitted,
       Owned, Ref, DlnaShape, DlnaRefs, StateKept
  <2> QED BY <2>1, <2>2, <2>3, <2>4, <2>5 DEF ApartInv
<1> QED BY <1>0, <1>1, <1>2, <1>3, <1>4 DEF DlnaInv

LEMMA StopCallKeeps ==
    ASSUME DlnaInv, NEW c \in calls, StopIfAdapterRef(c) PROVE DlnaInv'
<1> USE DEF DlnaInv, StopIfAdapterRef, Ours, Stop, Empties, Hook, NoSession, Session, Rest,
   slotVars, onDisk, transport, Proceeds, Becomes, Returns
<1>c. c \in CallsUpTo(refs, prepared)
  BY DEF CallsShape
<1>f. c.expected \in 0..refs /\ c.ref \in 0..refs /\ c.owned \in 0..refs
  BY <1>c, CallFields
<1>0. CallsShape'
  BY <1>c, <1>f DEF CallsShape, Admitted, CallsUpTo
<1>1. DlnaShape'
  BY <1>c, <1>f DEF DlnaShape, SlotShape, DlnaRefs, Ref, Transports, Owned, Admitted, CallsShape,
     Hook, NoSession, Session
<1>2. DiskKept'
  BY <1>c, <1>f DEF DiskKept, DlnaShape
<1>3. LoadedKept'
  BY <1>c, <1>f DEF LoadedKept, CacheIsLoaded, Hook, CallsShape, DlnaShape, Owned, Ref, DlnaRefs,
     Admitted
<1>4. ASSUME PlaysApart' PROVE ApartInv'
  <2>0. PlaysApart /\ ApartInv
    BY <1>4 DEF PlaysApart
  <2>1. OneCall'
    BY <1>c, <1>f, <1>4, <2>0 DEF ApartInv, OneCall
  <2>2. OursIsCurrent'
    BY <1>c, <1>f, <1>0, <1>1, <2>0 DEF Hook, ApartInv, OneCall, OursIsCurrent, CallsKept,
       FreshCall, ReconnectCall, StartedCall, OwnerCall, Admitted, Owned, Ref, DlnaShape, DlnaRefs
  <2>3. CallsKept'
    BY <1>c, <1>f, <1>0, <1>1, <2>0, <2>1, <2>2 DEF Hook, ApartInv, OneCall, OursIsCurrent,
       CallsKept, FreshCall, ReconnectCall, StartedCall, OwnerCall, Admitted, Owned, Ref,
       DlnaShape, DlnaRefs, StateKept
  <2>4. RefKept'
    <3>1. Owned("dlna") /\ ~Owned("dlna")' => [of |-> owner, why |-> "stopped"] \in told'
      BY DEF Owned
    <3>2. told \subseteq told'
      OBVIOUS
    <3> QED BY <1>c, <1>f, <1>0, <1>1, <2>0, <3>1, <3>2 DEF ApartInv, OneCall, OursIsCurrent,
       CallsKept, FreshCall, ReconnectCall, StartedCall, OwnerCall, Admitted, Owned, Ref,
       DlnaShape, DlnaRefs, RefKept
  <2>5. StateKept'
    BY <1>c, <1>f, <1>0, <1>1, <2>0 DEF Hook, ApartInv, OneCall, OursIsCurrent, CallsKept,
       FreshCall, ReconnectCall, StartedCall, OwnerCall, Admitted, Owned, Ref, DlnaShape,
       DlnaRefs, StateKept
  <2> QED BY <2>1, <2>2, <2>3, <2>4, <2>5 DEF ApartInv
<1> QED BY <1>0, <1>1, <1>2, <1>3, <1>4 DEF DlnaInv

LEMMA SnapshotLoadedKeeps ==
    ASSUME DlnaInv, NEW c \in calls, SnapshotLoaded(c) PROVE DlnaInv'
<1> USE DEF DlnaInv, SnapshotLoaded, Rest, slotVars, onDisk, transport, Proceeds, Becomes, Returns
<1>c. c \in CallsUpTo(refs, prepared)
  BY DEF CallsShape
<1>f. c.expected \in 0..refs /\ c.ref \in 0..refs /\ c.owned \in 0..refs
  BY <1>c, CallFields
<1> DEFINE d == [c EXCEPT !.source = loaded.source, !.cache = loaded.cache,
                      !.pc = IF loaded.source.hls /\ loaded.cache = 0 THEN "recache" ELSE "start"]
<1>d. /\ d \in CallsUpTo(refs, prepared) /\ d.pc \in {"recache", "start"} /\ d.owned = c.owned /\ d.state = c.state
      /\ d.expected = c.expected /\ d.ref = c.ref /\ d.cache = loaded.cache
  BY <1>c DEF CallsUpTo, DlnaSteps, Admitted, DlnaShape
<1>e. calls' = (calls \ {c}) \cup {d}
  OBVIOUS
<1> HIDE DEF d
<1>0. CallsShape'
  BY <1>c, <1>f, <1>d, <1>e DEF CallsShape, Admitted, CallsUpTo
<1>1. DlnaShape'
  BY <1>c, <1>f, <1>d, <1>e DEF DlnaShape, SlotShape, DlnaRefs, Ref, Transports, Owned, Admitted,
     CallsShape, Hook, NoSession, Session
<1>2. DiskKept'
  BY <1>c, <1>f, <1>d, <1>e DEF DiskKept, DlnaShape
<1>3. LoadedKept'
  BY <1>c, <1>f, <1>d, <1>e DEF LoadedKept, CacheIsLoaded, Hook, CallsShape, DlnaShape, Owned,
     Ref, DlnaRefs, Admitted
<1>4. ASSUME PlaysApart' PROVE ApartInv'
  <2>0. PlaysApart /\ ApartInv
    BY <1>4 DEF PlaysApart
  <2>1. OneCall'
    BY <1>c, <1>f, <1>d, <1>e, <1>4, <2>0 DEF ApartInv, OneCall
  <2>2. OursIsCurrent'
    BY <1>c, <1>f, <1>d, <1>e, <1>0, <1>1, <2>0 DEF Hook, ApartInv, OneCall, OursIsCurrent,
       CallsKept, FreshCall, ReconnectCall, StartedCall, OwnerCall, Admitted, Owned, Ref,
       DlnaShape, DlnaRefs
  <2>3. CallsKept'
    BY <1>c, <1>f, <1>d, <1>e, <1>0, <1>1, <2>0, <2>1, <2>2 DEF Hook, ApartInv, OneCall,
       OursIsCurrent, CallsKept, FreshCall, ReconnectCall, StartedCall, OwnerCall, Admitted,
       Owned, Ref, DlnaShape, DlnaRefs, StateKept
  <2>4. RefKept'
    BY <1>c, <1>f, <1>d, <1>e, <1>0, <1>1, <2>0 DEF Hook, ApartInv, OneCall, OursIsCurrent,
       CallsKept, FreshCall, ReconnectCall, StartedCall, OwnerCall, Admitted, Owned, Ref,
       DlnaShape, DlnaRefs, RefKept
  <2>5. StateKept'
    BY <1>c, <1>f, <1>d, <1>e, <1>0, <1>1, <2>0 DEF Hook, ApartInv, OneCall, OursIsCurrent,
       CallsKept, FreshCall, ReconnectCall, StartedCall, OwnerCall, Admitted, Owned, Ref,
       DlnaShape, DlnaRefs, StateKept
  <2> QED BY <2>1, <2>2, <2>3, <2>4, <2>5 DEF ApartInv
<1> QED BY <1>0, <1>1, <1>2, <1>3, <1>4 DEF DlnaInv

LEMMA RecacheKeeps ==
    ASSUME DlnaInv, NEW c \in calls, Recache(c) PROVE DlnaInv'
<1> USE DEF DlnaInv
<1>c. c \in CallsUpTo(refs, prepared)
  BY DEF CallsShape
<1>f. c.expected \in 0..refs /\ c.ref \in 0..refs /\ c.owned \in 0..refs
  BY <1>c, CallFields
<1> DEFINE k  == prepared + 1
           d1 == [c EXCEPT !.pc = "start", !.cache = k]
           d2 == [c EXCEPT !.pc = "rollback"]
<1>e. /\ \/ /\ calls' = (calls \ {c}) \cup {d1} /\ loaded.cache = 0 /\ loaded' = [loaded EXCEPT !.cache = k]
            /\ loaded.source = c.source
            /\ caches' = caches \cup {k} /\ prepared' = k
         \/ /\ calls' = (calls \ {c}) \cup {d2} /\ UNCHANGED <<loaded, caches, prepared>>
      /\ c.pc = "recache"
      /\ UNCHANGED <<owner, told, dlnaLimit, dlnaAsked, dlnaEnded, enabled, currentRef, startInFlight,
                     transportState, refs, removing>>
  BY DEF Recache, Prepares, Proceeds, Becomes, slotVars, Rest, transport
<1>k. /\ k \in Nat /\ k # 0 /\ prepared < k /\ prepared \in Nat /\ prepared' \in Nat /\ prepared <= prepared'
      /\ prepared' = prepared \/ prepared' = k
      /\ k \notin caches /\ k \notin removing
  BY <1>e DEF DlnaShape, DiskKept
<1>h. d1 = [c EXCEPT !.pc = "start", !.cache = k] /\ d2 = [c EXCEPT !.pc = "rollback"]
  OBVIOUS
<1> HIDE DEF k, d1, d2
<1>i. /\ c \in CallsUpTo(refs, k) /\ c \in CallsUpTo(refs, prepared')
  BY <1>c, <1>k, CallsGrow DEF DlnaShape
<1>m. /\ d1 \in CallsUpTo(refs, k) /\ d1.pc = "start" /\ d1.owned = c.owned /\ d1.state = c.state
      /\ d1.expected = c.expected /\ d1.ref = c.ref /\ d1.cache = k
  <2>1. k \in 0..k
    BY <1>k
  <2> QED BY <1>h, <1>i, <2>1 DEF CallsUpTo, DlnaSteps, Admitted
<1>n. /\ d2 \in CallsUpTo(refs, prepared) /\ d2.pc = "rollback" /\ d2.owned = c.owned /\ d2.state = c.state
      /\ d2.expected = c.expected /\ d2.ref = c.ref /\ d2.cache = c.cache
  BY <1>c, <1>h, CallGoes DEF DlnaSteps, Admitted
<1>l. \/ /\ loaded'.cache = k /\ loaded'.source = loaded.source /\ loaded'.uri = loaded.uri
         /\ loaded' \in [uri : BOOLEAN, source : Sources, cache : 0..k]
      \/ loaded' = loaded
  BY <1>e, <1>k DEF DlnaShape
<1>d. c.pc = "recache" /\ refs \in Nat
  BY <1>e DEF DlnaShape
<1>0. CallsShape'
  BY <1>c, <1>f, <1>d, <1>e, <1>k, <1>l, <1>m, <1>n,  CallsGrow DEF CallsShape, DlnaShape,
     Admitted, DlnaSteps
<1>1. DlnaShape'
  BY <1>c, <1>f, <1>d, <1>e, <1>k, <1>l, <1>m, <1>n DEF DlnaShape, SlotShape, DlnaRefs, Ref,
     Transports, Owned, Admitted, CallsShape, Hook, NoSession, Session
<1>2. DiskKept'
  <2>1. CASE loaded' = loaded
    BY <1>e, <1>k, <2>1 DEF DiskKept, DlnaShape
  <2>2. CASE /\ loaded.source = c.source /\ loaded.cache = 0 /\ loaded'.cache = k /\ loaded'.source = loaded.source
             /\ caches' = caches \cup {k} /\ prepared' = k
    BY <1>e, <1>k, <1>c, <2>2 DEF CallsShape, DiskKept, DlnaShape
  <2> QED BY <1>e, <1>l, <2>1, <2>2
<1>3. LoadedKept'
  BY <1>c, <1>f, <1>d, <1>e, <1>k, <1>l, <1>m, <1>n DEF LoadedKept, CacheIsLoaded, Hook,
     CallsShape, DlnaShape, Owned, Ref, DlnaRefs, Admitted
<1>4. ASSUME PlaysApart' PROVE ApartInv'
  <2>0. PlaysApart /\ ApartInv
    BY <1>e, <1>4 DEF PlaysApart
  <2>1. OneCall'
    BY <1>c, <1>f, <1>d, <1>e, <1>k, <1>l, <1>m, <1>n, <1>4, <2>0 DEF ApartInv, OneCall
  <2>2. OursIsCurrent'
    BY <1>c, <1>f, <1>d, <1>e, <1>k, <1>l, <1>m, <1>n, <1>0, <1>1, <2>0 DEF Hook, ApartInv,
       OneCall, OursIsCurrent, CallsKept, FreshCall, ReconnectCall, StartedCall, OwnerCall,
       Admitted, Owned, Ref, DlnaShape, DlnaRefs
  <2>3. CallsKept'
    BY <1>c, <1>f, <1>d, <1>e, <1>k, <1>l, <1>m, <1>n, <1>0, <1>1, <2>0, <2>1, <2>2 DEF Hook,
       ApartInv, OneCall, OursIsCurrent, CallsKept, FreshCall, ReconnectCall, StartedCall,
       OwnerCall, Admitted, Owned, Ref, DlnaShape, DlnaRefs, StateKept
  <2>4. RefKept'
    BY <1>c, <1>f, <1>d, <1>e, <1>k, <1>l, <1>m, <1>n, <1>0, <1>1, <2>0 DEF Hook, ApartInv,
       OneCall, OursIsCurrent, CallsKept, FreshCall, ReconnectCall, StartedCall, OwnerCall,
       Admitted, Owned, Ref, DlnaShape, DlnaRefs, RefKept
  <2>5. StateKept'
    BY <1>c, <1>f, <1>d, <1>e, <1>k, <1>l, <1>m, <1>n, <1>0, <1>1, <2>0 DEF Hook, ApartInv,
       OneCall, OursIsCurrent, CallsKept, FreshCall, ReconnectCall, StartedCall, OwnerCall,
       Admitted, Owned, Ref, DlnaShape, DlnaRefs, StateKept
  <2> QED BY <2>1, <2>2, <2>3, <2>4, <2>5 DEF ApartInv
<1> QED BY <1>0, <1>1, <1>2, <1>3, <1>4 DEF DlnaInv

LEMMA StartForRefKeeps ==
    ASSUME DlnaInv, NEW c \in calls, StartSessionIfAdapterRef(c) PROVE DlnaInv'
<1> USE DEF DlnaInv
<1>c. c \in CallsUpTo(refs, prepared)
  BY DEF CallsShape
<1>f. c.expected \in 0..refs /\ c.ref \in 0..refs /\ c.owned \in 0..refs
  BY <1>c, CallFields
<1> DEFINE d1 == [c EXCEPT !.pc = "started"]
           d2 == [c EXCEPT !.pc = "rollback"]
<1>e. /\ \/ /\ calls' = (calls \ {c}) \cup {d1} /\ Startable(c)
            /\ owner'.by = "dlna" /\ owner'.ref = Ref(c.ref) /\ owner'.req.cache = c.cache
            /\ owner'.paused = FALSE /\ owner'.paused \in BOOLEAN
            /\ told' = IF owner.ref = Ref(c.ref) THEN told ELSE told \cup Hook("preempted")
         \/ calls' = (calls \ {c}) \cup {d2} /\ owner' = owner /\ told' = told
      /\ SlotShape'
      /\ c.pc = "start"
      /\ UNCHANGED <<dlnaLimit, dlnaAsked, dlnaEnded, enabled, currentRef, startInFlight,
                     transportState, loaded, refs, caches, removing, prepared>>
  <2> DEFINE r == [cache |-> c.cache, live |-> c.source.live]
  <2>1. r.cache = c.cache
    OBVIOUS
  <2>2. \/ Startable(c) /\ Installs(Session("dlna", Ref(c.ref), r)) /\ calls' = (calls \ {c}) \cup {d1}
        \/ calls' = (calls \ {c}) \cup {d2} /\ owner' = owner /\ told' = told
    BY DEF StartSessionIfAdapterRef, Proceeds, Becomes, slotVars
  <2> HIDE DEF r, d1, d2
  <2>3. owner' = owner => SlotShape'
    BY SlotStays DEF DlnaShape
  <2>4. Installs(Session("dlna", Ref(c.ref), r)) => SlotShape'
    BY Installed
  <2>5. /\ c.pc = "start"
        /\ UNCHANGED <<dlnaLimit, dlnaAsked, dlnaEnded, enabled, currentRef, startInFlight,
                       transportState, loaded, refs, caches, removing, prepared>>
    BY DEF StartSessionIfAdapterRef, Rest, transport, onDisk
  <2>6. SlotShape'
    BY <2>2, <2>3, <2>4
  <2>7. CASE Startable(c) /\ Installs(Session("dlna", Ref(c.ref), r)) /\ calls' = (calls \ {c}) \cup {d1}
    <3>1. /\ owner'.by = "dlna" /\ owner'.ref = Ref(c.ref) /\ owner'.req = r
          /\ owner'.paused = FALSE /\ owner'.paused \in BOOLEAN
          /\ told' = IF owner.ref = Ref(c.ref) THEN told ELSE told \cup Hook("preempted")
      BY <2>7, Installed
    <3>2. owner'.req.cache = c.cache
      BY <2>1, <3>1
    <3> QED BY <2>5, <2>6, <2>7, <3>1, <3>2
  <2> QED BY <2>2, <2>5, <2>6, <2>7
<1>h. d1 = [c EXCEPT !.pc = "started"] /\ d2 = [c EXCEPT !.pc = "rollback"]
  OBVIOUS
<1> HIDE DEF d1, d2
<1>d. /\ d1 \in CallsUpTo(refs, prepared) /\ d1.pc = "started" /\ d1.owned = c.owned /\ d1.state = c.state
      /\ d1.expected = c.expected /\ d1.ref = c.ref /\ d1.source = c.source /\ d1.cache = c.cache
      /\ d2 \in CallsUpTo(refs, prepared) /\ d2.pc = "rollback" /\ d2.owned = c.owned /\ d2.state = c.state
      /\ d2.expected = c.expected /\ d2.ref = c.ref /\ d2.source = c.source /\ d2.cache = c.cache
  BY <1>c, <1>h, CallGoes DEF DlnaSteps, Admitted
<1>s. Startable(c) <=> \/ c.expected = 0 /\ owner.by = "none"
                       \/ c.expected # 0 /\ Owned("dlna") /\ owner.ref = Ref(c.expected)
  BY DEF Startable, Ours, Idle, Owned
<1>t. Startable(c) /\ told' # told => told' = told \cup Hook("preempted") /\ owner.ref # Ref(c.ref)
  BY <1>e
<1>u. Ref(c.ref) \in DlnaRefs
  BY <1>c, <1>e, <1>f DEF CallsShape, Admitted, DlnaRefs
<1>0. CallsShape'
  BY <1>c, <1>f, <1>d, <1>e, <1>s, <1>t DEF CallsShape, Admitted, CallsUpTo
<1>1. DlnaShape'
  <2>1. DlnaRefs' = DlnaRefs
    BY <1>e DEF DlnaRefs
  <2> QED BY <1>c, <1>f, <1>d, <1>e, <1>s, <1>t, <1>u, <2>1 DEF DlnaShape, Owned, Hook
<1>2. DiskKept'
  BY <1>c, <1>f, <1>d, <1>e, <1>s, <1>t DEF DiskKept, DlnaShape
<1>3. LoadedKept'
  BY <1>c, <1>f, <1>d, <1>e, <1>s, <1>t DEF LoadedKept, CacheIsLoaded, Hook, CallsShape,
     DlnaShape, Owned, Ref, DlnaRefs, Admitted
<1>4. ASSUME PlaysApart' PROVE ApartInv'
  <2>0. PlaysApart /\ ApartInv
    BY <1>e, <1>4 DEF PlaysApart
  <2>1. OneCall'
    BY <1>c, <1>f, <1>d, <1>e, <1>s, <1>t, <1>4, <2>0 DEF ApartInv, OneCall
  <2>2. OursIsCurrent'
    BY <1>c, <1>f, <1>d, <1>e, <1>s, <1>t, <1>0, <1>1, <2>0 DEF Hook, ApartInv, OneCall,
       OursIsCurrent, CallsKept, FreshCall, ReconnectCall, StartedCall, OwnerCall, Admitted,
       Owned, Ref, DlnaShape, DlnaRefs
  <2>3. CallsKept'
    BY <1>c, <1>f, <1>d, <1>e, <1>s, <1>t, <1>0, <1>1, <2>0, <2>1, <2>2 DEF Hook, ApartInv,
       OneCall, OursIsCurrent, CallsKept, FreshCall, ReconnectCall, StartedCall, OwnerCall,
       Admitted, Owned, Ref, DlnaShape, DlnaRefs, StateKept
  <2>4. RefKept'
    BY <1>c, <1>f, <1>d, <1>e, <1>s, <1>t, <1>0, <1>1, <2>0 DEF Hook, ApartInv, OneCall,
       OursIsCurrent, CallsKept, FreshCall, ReconnectCall, StartedCall, OwnerCall, Admitted,
       Owned, Ref, DlnaShape, DlnaRefs, RefKept
  <2>5. StateKept'
    BY <1>c, <1>f, <1>d, <1>e, <1>s, <1>t, <1>0, <1>1, <2>0 DEF Hook, ApartInv, OneCall,
       OursIsCurrent, CallsKept, FreshCall, ReconnectCall, StartedCall, OwnerCall, Admitted,
       Owned, Ref, DlnaShape, DlnaRefs, StateKept
  <2> QED BY <2>1, <2>2, <2>3, <2>4, <2>5 DEF ApartInv
<1> QED BY <1>0, <1>1, <1>2, <1>3, <1>4 DEF DlnaInv

LEMMA StoreURIKeeps ==
    ASSUME DlnaInv, NEW c \in calls, StoreURI(c) PROVE DlnaInv'
<1> USE DEF DlnaInv
<1>c. c \in CallsUpTo(refs, prepared)
  BY DEF CallsShape
<1>f. c.expected \in 0..refs /\ c.ref \in 0..refs /\ c.owned \in 0..refs
  BY <1>c, CallFields
<1> DEFINE k == prepared + 1
           d == [c EXCEPT !.pc = "admit"]
<1>e. /\ \/ calls' = calls \ {c}
         \/ calls' = (calls \ {c}) \cup {d} /\ dlnaLimit.autoplay
      /\ c.pc = "validate" /\ currentRef = 0 /\ ~startInFlight
      /\ \/ /\ caches' = caches /\ prepared' = prepared /\ loaded'.cache = 0
         \/ /\ loaded'.source.hls /\ loaded'.cache = k /\ caches' = caches \cup {k} /\ prepared' = k
      /\ loaded'.source \in dlnaLimit.sources /\ loaded'.uri \in BOOLEAN
      /\ loaded' = [uri |-> loaded'.uri, source |-> loaded'.source, cache |-> loaded'.cache]
      /\ removing' = removing \cup ({loaded.cache} \ {0})
      /\ UNCHANGED <<owner, told, dlnaLimit, dlnaAsked, dlnaEnded, enabled, currentRef, startInFlight,
                     transportState, refs>>
  <2> PICK s \in dlnaLimit.sources :
        /\ IF s.hls THEN Prepares ELSE UNCHANGED <<caches, prepared>>
        /\ loaded' = [uri |-> TRUE, source |-> s, cache |-> IF s.hls THEN prepared' ELSE 0]
    BY DEF StoreURI
  <2>1. loaded'.uri = TRUE /\ loaded'.source = s /\ loaded'.cache = IF s.hls THEN prepared' ELSE 0
    OBVIOUS
  <2>2. loaded' = [uri |-> loaded'.uri, source |-> loaded'.source, cache |-> loaded'.cache]
    OBVIOUS
  <2>3. calls' = calls \ {c} \/ (calls' = (calls \ {c}) \cup {d} /\ dlnaLimit.autoplay)
    BY DEF StoreURI, Proceeds, Becomes, Returns
  <2>4. /\ c.pc = "validate" /\ currentRef = 0 /\ ~startInFlight
        /\ removing' = removing \cup ({loaded.cache} \ {0})
        /\ UNCHANGED <<owner, told, dlnaLimit, dlnaAsked, dlnaEnded, enabled, currentRef, startInFlight,
                     transportState, refs>>
    BY DEF StoreURI, Admits, Cleans, slotVars, Rest, transport
  <2>5. \/ /\ caches' = caches /\ prepared' = prepared /\ loaded'.cache = 0
        \/ /\ loaded'.source.hls /\ loaded'.cache = k /\ caches' = caches \cup {k} /\ prepared' = k
    BY <2>1 DEF Prepares
  <2> QED BY <2>1, <2>2, <2>3, <2>4, <2>5
<1>k. /\ k \in Nat /\ k # 0 /\ prepared < k /\ prepared \in Nat /\ prepared' \in Nat /\ prepared <= prepared'
      /\ prepared' = prepared \/ prepared' = k
      /\ k \notin caches /\ k \notin removing
  BY <1>e DEF DlnaShape, DiskKept
<1>h. d = [c EXCEPT !.pc = "admit"]
  OBVIOUS
<1> HIDE DEF k, d
<1>i. loaded' \in [uri : BOOLEAN, source : Sources, cache : 0..prepared']
  <2>1. loaded'.source \in Sources
    BY <1>e, DlnaAssumption DEF DlnaShape, Sources
  <2>2. loaded'.cache \in 0..prepared'
    BY <1>e, <1>k
  <2> QED BY <1>e, <2>1, <2>2
<1>d. /\ d \in CallsUpTo(refs, prepared) /\ d.pc = "admit" /\ d.owned = c.owned /\ d.state = c.state
      /\ d.expected = c.expected /\ d.ref = c.ref /\ d.source = c.source /\ d.cache = c.cache
  BY <1>c, <1>h, CallGoes DEF DlnaSteps, Admitted
<1>0. CallsShape'
  BY <1>c, <1>f, <1>d, <1>e, <1>k, <1>i,  CallsGrow DEF CallsShape, DlnaShape, Admitted, DlnaSteps
<1>1. DlnaShape'
  BY <1>c, <1>f, <1>d, <1>e, <1>k, <1>i DEF DlnaShape, SlotShape, DlnaRefs, Ref, Transports,
     Owned, Admitted, CallsShape, Hook, NoSession, Session
<1>2. DiskKept'
  <2>1. caches' \subseteq 1..prepared' /\ removing' \subseteq caches'
    BY <1>e, <1>k DEF DiskKept, DlnaShape
  <2>2. loaded'.cache # 0 => loaded'.source.hls /\ loaded'.cache \in caches' /\ loaded'.cache \notin removing'
    BY <1>e, <1>k DEF DiskKept, DlnaShape
  <2>3. caches' \subseteq {loaded'.cache} \cup removing'
    BY <1>e, <1>k DEF DiskKept, DlnaShape
  <2> QED BY <2>1, <2>2, <2>3 DEF DiskKept
<1>3. LoadedKept'
  BY <1>c, <1>f, <1>d, <1>e, <1>k, <1>i DEF LoadedKept, CacheIsLoaded, Hook, CallsShape,
     DlnaShape, Owned, Ref, DlnaRefs, Admitted
<1>4. ASSUME PlaysApart' PROVE ApartInv'
  <2>0. PlaysApart /\ ApartInv
    BY <1>e, <1>4 DEF PlaysApart
  <2>1. OneCall'
    BY <1>c, <1>d, <1>e, <1>4, <2>0 DEF PlaysApart, ApartInv, OneCall
  <2>2. OursIsCurrent'
    BY <1>c, <1>f, <1>d, <1>e, <1>k, <1>i, <1>0, <1>1, <2>0 DEF Hook, ApartInv, OneCall,
       OursIsCurrent, CallsKept, FreshCall, ReconnectCall, StartedCall, OwnerCall, Admitted,
       Owned, Ref, DlnaShape, DlnaRefs
  <2>3. CallsKept'
    BY <1>c, <1>f, <1>d, <1>e, <1>k, <1>i, <1>0, <1>1, <2>0, <2>1, <2>2 DEF Hook, ApartInv,
       OneCall, OursIsCurrent, CallsKept, FreshCall, ReconnectCall, StartedCall, OwnerCall,
       Admitted, Owned, Ref, DlnaShape, DlnaRefs, StateKept
  <2>4. RefKept'
    BY <1>c, <1>f, <1>d, <1>e, <1>k, <1>i, <1>0, <1>1, <2>0 DEF Hook, ApartInv, OneCall,
       OursIsCurrent, CallsKept, FreshCall, ReconnectCall, StartedCall, OwnerCall, Admitted,
       Owned, Ref, DlnaShape, DlnaRefs, RefKept
  <2>5. StateKept'
    BY <1>c, <1>f, <1>d, <1>e, <1>k, <1>i, <1>0, <1>1, <2>0 DEF Hook, ApartInv, OneCall,
       OursIsCurrent, CallsKept, FreshCall, ReconnectCall, StartedCall, OwnerCall, Admitted,
       Owned, Ref, DlnaShape, DlnaRefs, StateKept
  <2> QED BY <2>1, <2>2, <2>3, <2>4, <2>5 DEF ApartInv
<1> QED BY <1>0, <1>1, <1>2, <1>3, <1>4 DEF DlnaInv

LEMMA DlnaEndsKeeps ==
    ASSUME DlnaInv, DlnaEnds PROVE DlnaInv'
<1> USE DEF DlnaInv
<1>e. /\ owner'.by = "none" /\ SlotShape' /\ Owned("dlna")
      /\ told' = told \cup Hook("stopped")
      /\ UNCHANGED <<dlnaLimit, enabled, currentRef, startInFlight, transportState, loaded, refs, calls,
                     caches, removing, prepared, dlnaAsked>>
      /\ dlnaEnded' \in Nat
  BY Emptied DEF DlnaEnds, Stop, transport, onDisk, DlnaShape
<1>d. /\ \A o \in Hook("stopped") : o.of = owner
      /\ Owned("dlna") => \E o \in Hook("stopped") : o.of = owner
  BY Told DEF Owned
<1>0. CallsShape'
  BY <1>d, <1>e DEF CallsShape, Admitted, CallsUpTo
<1>1. DlnaShape'
  BY <1>d, <1>e DEF DlnaShape, Owned, DlnaRefs
<1>2. DiskKept'
  BY <1>d, <1>e DEF DiskKept, DlnaShape
<1>3. LoadedKept'
  BY <1>d, <1>e DEF LoadedKept, CacheIsLoaded, Hook, CallsShape, DlnaShape, Owned, Ref, DlnaRefs,
     Admitted
<1>4. ASSUME PlaysApart' PROVE ApartInv'
  <2>0. PlaysApart /\ ApartInv
    BY <1>e, <1>4 DEF PlaysApart
  <2>1. OneCall'
    BY <1>d, <1>e, <1>4, <2>0 DEF ApartInv, OneCall
  <2>2. OursIsCurrent'
    BY <1>d, <1>e, <1>0, <1>1, <2>0 DEF Hook, ApartInv, OneCall, OursIsCurrent, CallsKept,
       FreshCall, ReconnectCall, StartedCall, OwnerCall, Admitted, Owned, Ref, DlnaShape, DlnaRefs
  <2>3. CallsKept'
    BY <1>d, <1>e, <1>0, <1>1, <2>0, <2>1, <2>2 DEF Hook, ApartInv, OneCall, OursIsCurrent,
       CallsKept, FreshCall, ReconnectCall, StartedCall, OwnerCall, Admitted, Owned, Ref,
       DlnaShape, DlnaRefs, StateKept
  <2>4. RefKept'
    BY <1>d, <1>e, <1>0, <1>1, <2>0 DEF Hook, ApartInv, OneCall, OursIsCurrent, CallsKept,
       FreshCall, ReconnectCall, StartedCall, OwnerCall, Admitted, Owned, Ref, DlnaShape,
       DlnaRefs, RefKept
  <2>5. StateKept'
    BY <1>d, <1>e, <1>0, <1>1, <2>0 DEF Hook, ApartInv, OneCall, OursIsCurrent, CallsKept,
       FreshCall, ReconnectCall, StartedCall, OwnerCall, Admitted, Owned, Ref, DlnaShape,
       DlnaRefs, StateKept
  <2> QED BY <2>1, <2>2, <2>3, <2>4, <2>5 DEF ApartInv
<1> QED BY <1>0, <1>1, <1>2, <1>3, <1>4 DEF DlnaInv

LEMMA DlnaOtherKeeps ==
    ASSUME DlnaInv, DlnaOtherTakes PROVE DlnaInv'
<1> USE DEF DlnaInv
<1>e. /\ owner'.by = "other" /\ SlotShape'
      /\ told' = told \/ told' = told \cup Hook("preempted")
      /\ Owned("dlna") => told' = told \cup Hook("preempted")
      /\ dlnaEnded' \in Nat
      /\ UNCHANGED <<dlnaLimit, enabled, currentRef, startInFlight, transportState, loaded, refs, calls,
                     caches, removing, prepared, dlnaAsked>>
  <2>1. Installs(Session("other", <<0>>, <<>>))
    BY DEF DlnaOtherTakes, OtherSession
  <2>2. /\ owner'.by = "other" /\ SlotShape'
        /\ told' = IF owner.ref = <<0>> THEN told ELSE told \cup Hook("preempted")
    BY <2>1, Installed
  <2>3. Owned("dlna") => owner.ref # <<0>>
    BY DEF DlnaShape, DlnaRefs, Ref
  <2> QED BY <2>2, <2>3 DEF DlnaOtherTakes, transport, onDisk, DlnaShape
<1>d. /\ \A o \in Hook("preempted") : o.of = owner
      /\ Owned("dlna") => \E o \in Hook("preempted") : o.of = owner
  BY Told DEF Owned
<1>0. CallsShape'
  BY <1>d, <1>e DEF CallsShape, Admitted, CallsUpTo
<1>1. DlnaShape'
  <2>1. DlnaRefs' = DlnaRefs
    BY <1>e DEF DlnaRefs
  <2>2. \A o \in told' : o.of.by = "dlna" /\ o.of.ref \in DlnaRefs'
    BY <1>d, <1>e, <2>1, Told DEF DlnaShape, Owned
  <2> QED BY <1>e, <2>1, <2>2 DEF DlnaShape, Owned
<1>2. DiskKept'
  BY <1>d, <1>e DEF DiskKept, DlnaShape
<1>3. LoadedKept'
  BY <1>d, <1>e DEF LoadedKept, CacheIsLoaded, Hook, CallsShape, DlnaShape, Owned, Ref, DlnaRefs,
     Admitted
<1>4. ASSUME PlaysApart' PROVE ApartInv'
  <2>0. PlaysApart /\ ApartInv
    BY <1>e, <1>4 DEF PlaysApart
  <2>1. OneCall'
    BY <1>d, <1>e, <1>4, <2>0 DEF ApartInv, OneCall
  <2>2. OursIsCurrent'
    BY <1>d, <1>e, <1>0, <1>1, <2>0 DEF Hook, ApartInv, OneCall, OursIsCurrent, CallsKept,
       FreshCall, ReconnectCall, StartedCall, OwnerCall, Admitted, Owned, Ref, DlnaShape, DlnaRefs
  <2>3. CallsKept'
    BY <1>d, <1>e, <1>0, <1>1, <2>0, <2>1, <2>2 DEF Hook, ApartInv, OneCall, OursIsCurrent,
       CallsKept, FreshCall, ReconnectCall, StartedCall, OwnerCall, Admitted, Owned, Ref,
       DlnaShape, DlnaRefs, StateKept
  <2>4. RefKept'
    BY <1>d, <1>e, <1>0, <1>1, <2>0 DEF Hook, ApartInv, OneCall, OursIsCurrent, CallsKept,
       FreshCall, ReconnectCall, StartedCall, OwnerCall, Admitted, Owned, Ref, DlnaShape,
       DlnaRefs, RefKept
  <2>5. StateKept'
    BY <1>d, <1>e, <1>0, <1>1, <2>0 DEF Hook, ApartInv, OneCall, OursIsCurrent, CallsKept,
       FreshCall, ReconnectCall, StartedCall, OwnerCall, Admitted, Owned, Ref, DlnaShape,
       DlnaRefs, StateKept
  <2> QED BY <2>1, <2>2, <2>3, <2>4, <2>5 DEF ApartInv
<1> QED BY <1>0, <1>1, <1>2, <1>3, <1>4 DEF DlnaInv

LEMMA OnStopForRefKeeps ==
    ASSUME DlnaInv, OnStopForRef PROVE DlnaInv'
<1> USE DEF DlnaInv
<1>o. PICK o \in told :
        /\ o.of.by = "dlna" /\ told' = told \ {o}
        /\ \/ /\ Ref(currentRef) = o.of.ref
              /\ currentRef' = 0 /\ startInFlight' = FALSE /\ transportState' = "STOPPED"
              /\ loaded' = IF loaded.cache = o.of.req.cache THEN [loaded EXCEPT !.cache = 0] ELSE loaded
              /\ removing' = removing \cup ({o.of.req.cache} \ {0})
           \/ /\ Ref(currentRef) # o.of.ref
              /\ UNCHANGED <<currentRef, startInFlight, transportState, loaded, removing>>
  BY DEF OnStopForRef, Cleans, transport
<1>e. UNCHANGED <<owner, dlnaLimit, dlnaAsked, dlnaEnded, enabled, refs, calls, caches, prepared>>
  BY DEF OnStopForRef, Rest
<1>d. /\ loaded' = loaded \/ (/\ loaded.cache = o.of.req.cache
                              /\ loaded'.cache = 0 /\ loaded'.source = loaded.source)
      /\ loaded' = loaded => loaded.cache # o.of.req.cache \/ loaded.cache = 0 \/ removing' = removing
      /\ loaded' \in [uri : BOOLEAN, source : Sources, cache : 0..prepared]
  BY <1>o DEF DlnaShape
<1>0. CallsShape'
  BY <1>d, <1>e, <1>o DEF CallsShape, Admitted, CallsUpTo
<1>1. DlnaShape'
  <2>1. SlotShape'
    BY <1>e, SlotStays DEF DlnaShape
  <2>2. DlnaRefs' = DlnaRefs
    BY <1>e DEF DlnaRefs
  <2>3. currentRef' \in 0..refs' /\ startInFlight' \in BOOLEAN /\ transportState' \in Transports
    <3>1. currentRef' \in 0..refs'
      BY <1>e, <1>o DEF DlnaShape
    <3>2. startInFlight' \in BOOLEAN
      BY <1>o DEF DlnaShape
    <3>3. transportState' \in Transports
      BY <1>o DEF DlnaShape, Transports
    <3> QED BY <3>1, <3>2, <3>3
  <2>4. told' \subseteq told
    BY <1>o
  <2> QED BY <1>d, <1>e, <2>1, <2>2, <2>3, <2>4 DEF DlnaShape, Owned
<1>2. DiskKept'
  <2>1. CASE UNCHANGED <<loaded, removing>>
    BY <1>e, <2>1 DEF DiskKept
  <2>2. CASE Ref(currentRef) = o.of.ref
    <3>1. CacheIsLoaded(o.of.req.cache)
      BY <1>o, <2>2 DEF LoadedKept
    <3> QED BY <1>d, <1>e, <1>o, <2>2, <3>1 DEF CacheIsLoaded, DiskKept, DlnaShape
  <2> QED BY <1>o, <2>1, <2>2
<1>3. LoadedKept'
  BY <1>d, <1>e, <1>o DEF LoadedKept, CacheIsLoaded, Hook, CallsShape, DlnaShape, Owned, Ref,
     DlnaRefs, Admitted
<1>4. ASSUME PlaysApart' PROVE ApartInv'
  <2>0. PlaysApart /\ ApartInv
    BY <1>e, <1>4 DEF PlaysApart
  <2>1. OneCall'
    BY <1>d, <1>e, <1>o, <1>4, <2>0 DEF ApartInv, OneCall
  <2>2. OursIsCurrent'
    BY <1>d, <1>e, <1>o, <1>0, <1>1, <2>0 DEF Hook, ApartInv, OneCall, OursIsCurrent, CallsKept,
       FreshCall, ReconnectCall, StartedCall, OwnerCall, Admitted, Owned, Ref, DlnaShape, DlnaRefs
  <2>3. CallsKept'
    BY <1>d, <1>e, <1>o, <1>0, <1>1, <2>0, <2>1, <2>2 DEF Hook, ApartInv, OneCall, OursIsCurrent,
       CallsKept, FreshCall, ReconnectCall, StartedCall, OwnerCall, Admitted, Owned, Ref,
       DlnaShape, DlnaRefs, StateKept
  <2>4. RefKept'
    BY <1>d, <1>e, <1>o, <1>0, <1>1, <2>0 DEF Hook, ApartInv, OneCall, OursIsCurrent, CallsKept,
       FreshCall, ReconnectCall, StartedCall, OwnerCall, Admitted, Owned, Ref, DlnaShape,
       DlnaRefs, RefKept
  <2>5. StateKept'
    BY <1>d, <1>e, <1>o, <1>0, <1>1, <2>0 DEF Hook, ApartInv, OneCall, OursIsCurrent, CallsKept,
       FreshCall, ReconnectCall, StartedCall, OwnerCall, Admitted, Owned, Ref, DlnaShape,
       DlnaRefs, StateKept
  <2> QED BY <2>1, <2>2, <2>3, <2>4, <2>5 DEF ApartInv
<1> QED BY <1>0, <1>1, <1>2, <1>3, <1>4 DEF DlnaInv

LEMMA RemoveCacheKeeps ==
    ASSUME DlnaInv, RemoveCache PROVE DlnaInv'
<1> USE DEF DlnaInv, RemoveCache, Rest, slotVars, onDisk, transport, Proceeds, Becomes, Returns
<1>0. CallsShape'
  BY DEF CallsShape, Admitted, CallsUpTo
<1>1. DlnaShape'
  BY DlnaAssumption DEF DlnaShape, SlotShape, DlnaRefs, Ref, Transports, Owned, Admitted,
     CallsShape, Hook, NoSession, Session
<1>2. DiskKept'
  BY DEF DiskKept, DlnaShape
<1>3. LoadedKept'
  BY DEF LoadedKept, CacheIsLoaded, Hook, CallsShape, DlnaShape, Owned, Ref, DlnaRefs, Admitted
<1>4. ASSUME PlaysApart' PROVE ApartInv'
  <2>0. PlaysApart /\ ApartInv
    BY <1>4 DEF PlaysApart
  <2>1. OneCall'
    BY <1>4, <2>0 DEF ApartInv, OneCall
  <2>2. OursIsCurrent'
    BY <1>0, <1>1, <2>0 DEF Hook, ApartInv, OneCall, OursIsCurrent, CallsKept, FreshCall,
       ReconnectCall, StartedCall, OwnerCall, Admitted, Owned, Ref, DlnaShape, DlnaRefs
  <2>3. CallsKept'
    BY <1>0, <1>1, <2>0, <2>1, <2>2 DEF Hook, ApartInv, OneCall, OursIsCurrent, CallsKept,
       FreshCall, ReconnectCall, StartedCall, OwnerCall, Admitted, Owned, Ref, DlnaShape,
       DlnaRefs, StateKept
  <2>4. RefKept'
    BY <1>0, <1>1, <2>0 DEF Hook, ApartInv, OneCall, OursIsCurrent, CallsKept, FreshCall,
       ReconnectCall, StartedCall, OwnerCall, Admitted, Owned, Ref, DlnaShape, DlnaRefs, RefKept
  <2>5. StateKept'
    BY <1>0, <1>1, <2>0 DEF Hook, ApartInv, OneCall, OursIsCurrent, CallsKept, FreshCall,
       ReconnectCall, StartedCall, OwnerCall, Admitted, Owned, Ref, DlnaShape, DlnaRefs, StateKept
  <2> QED BY <2>1, <2>2, <2>3, <2>4, <2>5 DEF ApartInv
<1> QED BY <1>0, <1>1, <1>2, <1>3, <1>4 DEF DlnaInv


LEMMA ArrivesKeeps ==
    ASSUME DlnaInv, NEW what, NEW pc \in {"validate", "play", "pause", "stop", "off"},
           pc = "validate" <=> what = "set", Arrives(what, pc)
    PROVE  DlnaInv'
<1> USE DEF DlnaInv
<1> DEFINE d == Call(pc)
<1>e. /\ calls' = calls \cup {d}
      /\ calls = {} \/ dlnaLimit.together = "all"
         \/ (dlnaLimit.together = "sets" /\ (pc = "validate" \/ \A c \in calls : c.pc = "validate"))
      /\ dlnaAsked' \in Nat
      /\ UNCHANGED <<owner, gens, told, dlnaLimit, currentRef, startInFlight, transportState, loaded, refs,
                     caches, removing, prepared, dlnaEnded>>
  BY DEF Arrives, slotVars, transport, onDisk, DlnaShape
<1>d. /\ d \in CallsUpTo(refs, prepared) /\ d.pc = pc /\ d.owned = currentRef /\ d.state = transportState
      /\ d.expected = 0 /\ d.ref = 0
  BY <1>e DEF Call, CallsUpTo, DlnaSteps, DlnaShape, NoSource, Sources
<1> HIDE DEF d
<1>0. CallsShape'
  BY <1>d, <1>e DEF CallsShape, Admitted
<1>1. DlnaShape'
  <2>1. SlotShape' /\ DlnaRefs' = DlnaRefs
    BY <1>e, SlotStays DEF DlnaShape, DlnaRefs
  <2> QED BY <1>e, <2>1 DEF DlnaShape, Owned
<1>2. DiskKept'
  BY <1>e DEF DiskKept
<1>3. LoadedKept'
  BY <1>d, <1>e DEF LoadedKept, CacheIsLoaded, Owned
<1>4. ASSUME PlaysApart' PROVE ApartInv'
  <2>0. PlaysApart /\ ApartInv
    BY <1>e, <1>4 DEF PlaysApart
  <2>1. OneCall'
    BY <1>d, <1>e, <2>0 DEF PlaysApart, ApartInv, OneCall
  <2>2. OursIsCurrent'
    BY <1>d, <1>e, <2>0 DEF ApartInv, OursIsCurrent, Owned
  <2>3. CallsKept'
    BY <1>d, <1>e, <2>0 DEF ApartInv, CallsKept, FreshCall, ReconnectCall, StartedCall,
       OwnerCall, Admitted, Owned
  <2>4. RefKept'
    BY <1>d, <1>e, <2>0 DEF ApartInv, RefKept, Admitted, Owned
  <2>5. StateKept'
    BY <1>d, <1>e, <2>0 DEF ApartInv, StateKept, Owned
  <2> QED BY <2>1, <2>2, <2>3, <2>4, <2>5 DEF ApartInv
<1> QED BY <1>0, <1>1, <1>2, <1>3, <1>4 DEF DlnaInv

LEMMA DlnaStarts == DlnaInit => DlnaInv
<1> SUFFICES ASSUME DlnaInit PROVE DlnaInv
  OBVIOUS
<1> USE DEF DlnaInit, DlnaIdleState, SlotInit
<1>1. owner.by = "none" /\ SlotShape
  BY DEF NoSession, Session, SlotShape
<1>2. loaded.cache = 0 /\ loaded \in [uri : BOOLEAN, source : Sources, cache : 0..prepared]
  BY DEF Nothing, NoSource, Sources
<1>3. CallsShape /\ DlnaShape
  BY <1>1, <1>2 DEF CallsShape, DlnaShape, Transports, Owned
<1>4. DiskKept /\ LoadedKept
  BY <1>1, <1>2 DEF DiskKept, LoadedKept, Owned
<1>5. ApartInv
  BY <1>1 DEF ApartInv, OneCall, OursIsCurrent, CallsKept, RefKept, StateKept, Owned
<1> QED BY <1>3, <1>4, <1>5 DEF DlnaInv

LEMMA DlnaGoes == DlnaInv /\ DlnaNext => DlnaInv'
<1> SUFFICES ASSUME DlnaInv, DlnaNext PROVE DlnaInv'
  OBVIOUS
<1>1. CASE DlnaHandler
  <2>1. CASE HandleSetAVTransportURI
    BY <2>1, ArrivesKeeps DEF HandleSetAVTransportURI
  <2>2. CASE HandlePlay
    BY <2>2, ArrivesKeeps DEF HandlePlay
  <2>3. CASE HandlePauseAction
    BY <2>3, ArrivesKeeps DEF HandlePauseAction
  <2>4. CASE HandleStopAction
    BY <2>4, ArrivesKeeps DEF HandleStopAction
  <2>5. CASE Disable
    BY <2>5, ArrivesKeeps DEF Disable
  <2> QED BY <1>1, <2>1, <2>2, <2>3, <2>4, <2>5 DEF DlnaHandler
<1>2. CASE DlnaEnds \/ DlnaOtherTakes \/ OnStopForRef \/ RemoveCache
  BY <1>2, DlnaEndsKeeps, DlnaOtherKeeps, OnStopForRefKeeps, RemoveCacheKeeps
<1>3. ASSUME NEW c \in calls, DlnaContinues(c) PROVE DlnaInv'
  BY <1>3, RefuseURIKeeps, ResumedKeeps, FailedStartKeeps, ClearStartInFlightKeeps,
     StartSucceededKeeps,
     PauseSucceededKeeps, EnableKeeps, ClearLoadedKeeps, RollbackAdmissionKeeps, ResumeKeeps, PauseKeeps,
     DecidePlayKeeps, MarkKeeps, StopCallKeeps, SnapshotLoadedKeeps, RecacheKeeps, StartForRefKeeps,
     StoreURIKeeps DEF DlnaContinues
<1> QED BY <1>1, <1>2, <1>3 DEF DlnaNext

(* What the invariant is for.                                              *)
LEMMA DlnaTyped == DlnaInv => DlnaTypeOK
BY DEF DlnaInv, DlnaShape, DiskKept, LoadedKept, DlnaTypeOK

LEMMA DlnaCaches == DlnaInv => CachesInOrder
<1> SUFFICES ASSUME DlnaInv PROVE CachesInOrder
  OBVIOUS
<1> USE DEF DlnaInv
<1>1. ASSUME NEW k, CacheIsLoaded(k) PROVE Kept(k)
  BY <1>1 DEF CacheIsLoaded, Kept, DiskKept
<1>2. ASSUME PlaysApart, Owned("dlna") PROVE Kept(owner.req.cache)
  BY <1>1, <1>2 DEF ApartInv, OursIsCurrent, LoadedKept
<1>3. ASSUME PlaysApart, NEW c \in calls, c.pc = "start", Startable(c) PROVE Kept(c.cache)
  <2>1. c.ref = currentRef
    <3>1. CASE c.expected = 0
      BY <1>3, <3>1 DEF ApartInv, CallsKept, FreshCall, Admitted
    <3>2. CASE c.expected # 0
      <4>1. owner.ref = Ref(c.expected) /\ Owned("dlna")
        BY <1>3, <3>2 DEF Startable, Ours
      <4>2. c.ref = c.expected
        BY <1>3, <3>2 DEF ApartInv, CallsKept, ReconnectCall, Admitted
      <4> QED BY <1>3, <4>1, <4>2 DEF ApartInv, OursIsCurrent, Ref
    <3> QED BY <3>1, <3>2
  <2> QED BY <1>1, <1>3, <2>1 DEF LoadedKept
<1>4. NoCacheLeaks
  <2> SUFFICES ASSUME DlnaQuiet PROVE caches = {loaded.cache} \ {0}
    BY DEF NoCacheLeaks
  <2>1. caches \subseteq {loaded.cache} /\ 0 \notin caches
    BY DEF DlnaQuiet, DiskKept, DlnaShape
  <2>2. loaded.cache # 0 => loaded.cache \in caches
    BY DEF DiskKept
  <2> QED BY <2>1, <2>2
<1> QED BY <1>2, <1>3, <1>4 DEF CachesInOrder, CacheOutlivesItsUse

LEMMA DlnaRemembers == DlnaInv => RefIsPlaying
<1> SUFFICES ASSUME DlnaInv, DlnaQuiet, PlaysApart
             PROVE  /\ currentRef # 0 <=> Owned("dlna")
                    /\ Owned("dlna") =>
                         /\ Ours(currentRef) /\ ~startInFlight
                         /\ transportState = IF owner.paused THEN "PAUSED" ELSE "PLAYING"
  BY DEF RefIsPlaying
<1> USE DEF DlnaInv, DlnaQuiet, ApartInv
<1>1. currentRef # 0 <=> Owned("dlna")
  BY DEF OursIsCurrent, RefKept
<1>2. ASSUME Owned("dlna") PROVE Ours(currentRef) /\ ~startInFlight
  BY <1>2 DEF OursIsCurrent, RefKept, Ours
<1>3. ASSUME Owned("dlna") PROVE transportState = IF owner.paused THEN "PAUSED" ELSE "PLAYING"
  BY <1>3 DEF StateKept
<1> QED BY <1>1, <1>2, <1>3

-----------------------------------------------------------------------------
(* The adapters, one at a time.                                            *)

RemoteInv ==
    \/ PlexInv /\ JfOff /\ DlnaOff
    \/ JfInv /\ PlexOff /\ DlnaOff
    \/ DlnaInv /\ PlexOff /\ JfOff

LEMMA PlexRests == ASSUME PlexOff, \A o \in told : o.of.by # "plex" PROVE ~PlexNext
<1>1. plexLimit \in PlexLimits /\ asked = plexLimit.commands /\ ended = plexLimit.ends
  BY PlexAssumption DEF PlexOff
<1>2. asked \in Nat /\ ended \in Nat
  BY <1>1, PlexAssumption
<1>3. hooks = {} /\ advances = {} /\ \A c \in 1..Controllers : request[c].pc = "none"
  BY DEF PlexOff, PlexIdleState, Resting
<1>4. \A c, what : ~Asks(c, what)
  BY <1>1, <1>2 DEF Asks
<1>5. \A c \in 1..Controllers : ~Handler(c)
  BY <1>4 DEF Handler, HandlePlayMedia, HandleSeekTo, HandleSkip, HandlePause, CancelPending,
     SetAutoAdvance
<1>6. \A c \in 1..Controllers : ~Continues(c) /\ ~Fails(c)
  BY <1>3 DEF Continues, StartSession, RememberPlaySession, RestorePaused, FinishIntent, StopCore,
     ClearPlaySession, Fails
<1>7. ~Ends /\ ~OtherTakes /\ ~BeginHook
  BY <1>1, <1>2 DEF Ends, OtherTakes, BeginHook
<1> QED BY <1>3, <1>5, <1>6, <1>7 DEF PlexNext

LEMMA JfRests == ASSUME JfOff, \A o \in told : o.of.by # "jellyfin" PROVE ~JfNext
<1>1. jfLimit \in JfLimits /\ jfAsked = jfLimit.commands /\ jfEnded = jfLimit.ends
  BY JfAssumption DEF JfOff
<1>2. jfAsked \in Nat /\ jfEnded \in Nat
  BY <1>1, JfAssumption
<1>3. starts = {} /\ followers = {} /\ reporters = {} /\ lost = {}
  BY DEF JfOff, JfIdleState
<1>4. \A what : ~JfAsksFor(what)
  BY <1>1, <1>2 DEF JfAsksFor
<1>5. ~JfHandler
  BY <1>4 DEF JfHandler, HandlePlayNow, HandlePlayQueued, RestartCurrentPlayback, PlaystatePause,
     PlaystateStop, PlaystateNextTrack, ApplyAutoAdvance
<1>6. ~JfEnds /\ ~JfOtherTakes /\ ~OnStop
  BY <1>1, <1>2 DEF JfEnds, JfOtherTakes, OnStop
<1> QED BY <1>3, <1>5, <1>6 DEF JfNext

LEMMA DlnaRests == ASSUME DlnaOff, \A o \in told : o.of.by # "dlna" PROVE ~DlnaNext
<1>1. dlnaLimit \in DlnaLimits /\ dlnaAsked = dlnaLimit.commands /\ dlnaEnded = dlnaLimit.ends
  BY DlnaAssumption DEF DlnaOff
<1>2. dlnaAsked \in Nat /\ dlnaEnded \in Nat
  BY <1>1, DlnaAssumption
<1>3. calls = {} /\ removing = {}
  BY DEF DlnaOff, DlnaIdleState
<1>4. \A what, pc : ~Arrives(what, pc)
  BY <1>1, <1>2 DEF Arrives
<1>5. ~DlnaHandler
  BY <1>4 DEF DlnaHandler, HandleSetAVTransportURI, HandlePlay, HandlePauseAction,
     HandleStopAction, Disable
<1>6. ~DlnaEnds /\ ~DlnaOtherTakes /\ ~OnStopForRef /\ ~RemoveCache
  BY <1>1, <1>2, <1>3 DEF DlnaEnds, DlnaOtherTakes, OnStopForRef, RemoveCache
<1> QED BY <1>3, <1>5, <1>6 DEF DlnaNext

LEMMA PlexTells == ASSUME PlexInv PROVE owner.by \in {"none", "other", "plex"} /\ \A o \in told : o.of.by = "plex"
BY DEF PlexInv, SlotPlays

LEMMA JfTellsOurs ==
    ASSUME JfInv PROVE owner.by \in {"none", "other", "jellyfin"} /\ \A o \in told : o.of.by = "jellyfin"
BY DEF JfInv, JfSlot

LEMMA DlnaTells == ASSUME DlnaInv PROVE owner.by \in {"none", "other", "dlna"} /\ \A o \in told : o.of.by = "dlna"
BY DEF DlnaInv, DlnaShape

LEMMA PlexStutters == ASSUME PlexInv, UNCHANGED <<slotVars, plexOwn>> PROVE PlexInv'
<1>e. /\ UNCHANGED <<owner, gens, told>>
      /\ UNCHANGED <<plexLimit, lastPlay, current, autoAdvance, epoch, intents>>
      /\ UNCHANGED <<request, hooks, advances, minted, asked, ended, slow>>
  BY DEF slotVars, plexOwn, plexState
<1>1. PlexShape' /\ SlotPlays' /\ AdvancesKept' /\ IntentsKept'
  <2>1. PlexShape /\ SlotPlays /\ AdvancesKept /\ IntentsKept
    BY DEF PlexInv
  <2>2. PlexShape'
    BY <1>e, <2>1 DEF PlexShape
  <2>3. SlotPlays'
    BY <1>e, <2>1, SlotStays DEF SlotPlays, Owned
  <2>4. AdvancesKept'
    BY <1>e, <2>1 DEF AdvancesKept
  <2>5. IntentsKept'
    BY <1>e, <2>1 DEF IntentsKept, Intents
  <2> QED BY <2>2, <2>3, <2>4, <2>5
<1>2. ASSUME PlexApart PROVE PlexApart'
  <2>1. OneRequest'
    BY <1>e, <1>2 DEF PlexApart, OneRequest
  <2>2. IdsKept'
    BY <1>e, <1>2 DEF PlexApart, IdsKept, IsOver, Unstarted, UniqueNexts, Owned
  <2>3. GensKept'
    BY <1>e, <1>2 DEF PlexApart, GensKept, IsMine, Owned
  <2>4. PlayKept'
    BY <1>e, <1>2 DEF PlexApart, PlayKept, IsPending, IsMine, Owned
  <2> QED BY <2>1, <2>2, <2>3, <2>4 DEF PlexApart
<1> QED BY <1>e, <1>1, <1>2 DEF PlexInv

LEMMA JfStutters == ASSUME JfInv, UNCHANGED <<slotVars, jfOwn>> PROVE JfInv'
<1>e. /\ UNCHANGED <<owner, gens, told>>
      /\ UNCHANGED <<jfLimit, currentRefKey, jfAutoAdvance, startEpoch, pending, queue, entries>>
      /\ UNCHANGED <<starts, followers, reporters, row, lost, sessions>>
  BY DEF slotVars, jfOwn, jfState
<1>1. JfShape' /\ QueueKept' /\ JfSlot' /\ StartsCounted' /\ FollowersShape' /\ SessionsKept'
  <2>1. JfShape /\ QueueKept /\ JfSlot /\ StartsCounted /\ FollowersShape /\ SessionsKept
    BY DEF JfInv
  <2>2. JfShape' /\ QueueKept'
    BY <1>e, <2>1 DEF JfShape, QueueKept
  <2>3. JfSlot'
    BY <1>e, <2>1, SlotStays DEF JfSlot, Owned
  <2>4. StartsCounted' /\ FollowersShape'
    BY <1>e, <2>1 DEF StartsCounted, FollowersShape, UniqueFollowers
  <2>5. SessionsKept'
    BY <1>e, <2>1 DEF SessionsKept, JfOver, NotBegun, Owned
  <2> QED BY <2>2, <2>3, <2>4, <2>5
<1>2. ASSUME JfApart PROVE JfApart'
  <2>1. OneStart'
    BY <1>e, <1>2 DEF JfApart, OneStart
  <2>2. KeyKept'
    BY <1>e, <1>2 DEF JfApart, KeyKept, IsFollowed, IsReplaced, Owned
  <2>3. EntriesKept'
    BY <1>e, <1>2 DEF JfApart, EntriesKept, UniqueTakers, IsFollowed, Owned
  <2> QED BY <2>1, <2>2, <2>3 DEF JfApart
<1> QED BY <1>e, <1>1, <1>2 DEF JfInv

LEMMA DlnaStutters == ASSUME DlnaInv, UNCHANGED <<slotVars, dlnaOwn>> PROVE DlnaInv'
<1>e. /\ UNCHANGED <<owner, gens, told>>
      /\ UNCHANGED <<dlnaLimit, enabled, currentRef, startInFlight, transportState, loaded, refs, calls>>
      /\ UNCHANGED <<caches, removing, prepared, dlnaAsked, dlnaEnded>>
  BY DEF slotVars, dlnaOwn, transport, onDisk
<1>1. DlnaShape' /\ CallsShape' /\ DiskKept' /\ LoadedKept'
  <2>1. DlnaShape /\ CallsShape /\ DiskKept /\ LoadedKept
    BY DEF DlnaInv
  <2>2. DlnaShape'
    BY <1>e, <2>1, SlotStays DEF DlnaShape, DlnaRefs, Owned
  <2>3. CallsShape' /\ DiskKept'
    BY <1>e, <2>1 DEF CallsShape, DiskKept
  <2>4. LoadedKept'
    BY <1>e, <2>1 DEF LoadedKept, CacheIsLoaded, Owned
  <2> QED BY <2>2, <2>3, <2>4
<1>2. ASSUME ApartInv PROVE ApartInv'
  <2>1. OneCall' /\ OursIsCurrent'
    BY <1>e, <1>2 DEF ApartInv, OneCall, OursIsCurrent, Owned
  <2>2. CallsKept'
    BY <1>e, <1>2 DEF ApartInv, CallsKept, FreshCall, ReconnectCall, StartedCall, OwnerCall, Owned
  <2>3. RefKept' /\ StateKept'
    BY <1>e, <1>2 DEF ApartInv, RefKept, StateKept, Owned
  <2> QED BY <2>1, <2>2, <2>3 DEF ApartInv
<1> QED BY <1>e, <1>1, <1>2 DEF DlnaInv, PlaysApart

(* An adapter that is off stays so, and has all it promises.               *)
LEMMA PlexOffStays == ASSUME PlexOff, UNCHANGED plexOwn PROVE PlexOff'
BY DEF PlexOff, PlexIdleState, plexOwn, plexState

LEMMA JfOffStays == ASSUME JfOff, UNCHANGED jfOwn PROVE JfOff'
BY DEF JfOff, JfIdleState, jfOwn, jfState

LEMMA DlnaOffStays == ASSUME DlnaOff, UNCHANGED dlnaOwn PROVE DlnaOff'
BY DEF DlnaOff, DlnaIdleState, dlnaOwn, transport, onDisk

LEMMA PlexOffTyped == ASSUME PlexOff PROVE PlexTypeOK
<1>1. lastPlay = NoPlay /\ current = 0 /\ intents = 0 /\ advances = {} /\ request = [c \in 1..Controllers |-> Resting]
  BY DEF PlexOff, PlexIdleState
<1>2. {c \in 1..Controllers : request[c].pc \in {"lookup", "remember", "pause", "finish"}} = {}
  BY <1>1 DEF Resting
<1>3. {a \in advances : a.pc = "confirm"} = {}
  BY <1>1
<1>4. current = lastPlay.id
  BY <1>1 DEF NoPlay, Play
<1>5. Cardinality({}) = 0
  BY FS_EmptySet
<1> QED BY <1>1, <1>2, <1>3, <1>4, <1>5 DEF PlexTypeOK

LEMMA JfOffTyped == ASSUME JfOff PROVE JfTypeOK
<1>1. pending = 0 /\ queue = <<>> /\ starts = {} /\ reporters = {} /\ row = 0 /\ lost = {}
      /\ sessions = 0
  BY DEF JfOff, JfIdleState
<1>2. Cardinality({}) = 0
  BY FS_EmptySet
<1>3. ToSet(<<>>) = {} /\ IsInjective(<<>>)
  BY DEF ToSet, IsInjective
<1> QED BY <1>1, <1>2, <1>3 DEF JfTypeOK

LEMMA DlnaOffTyped == ASSUME DlnaOff, ~Owned("dlna") PROVE DlnaTypeOK /\ CachesInOrder /\ RefIsPlaying
<1>1. /\ currentRef = 0 /\ startInFlight = FALSE /\ refs = 0 /\ calls = {} /\ caches = {} /\ removing = {}
      /\ prepared = 0 /\ loaded = Nothing
  BY DEF DlnaOff, DlnaIdleState
<1>2. loaded.cache = 0
  BY <1>1 DEF Nothing
<1> QED BY <1>1, <1>2 DEF DlnaTypeOK, CachesInOrder, CacheOutlivesItsUse, NoCacheLeaks, RefIsPlaying

LEMMA RemoteStarts == Init => RemoteInv
BY PlexStarts, JfStarts, DlnaStarts DEF Init, RemoteInv

LEMMA RemoteGoes == RemoteInv /\ [Next]_<<slotVars, plexOwn, jfOwn, dlnaOwn>> => RemoteInv'
<1> SUFFICES ASSUME RemoteInv, [Next]_<<slotVars, plexOwn, jfOwn, dlnaOwn>> PROVE RemoteInv'
  OBVIOUS
<1>1. CASE UNCHANGED <<slotVars, plexOwn, jfOwn, dlnaOwn>>
  BY <1>1, PlexStutters, JfStutters, DlnaStutters, PlexOffStays, JfOffStays,
     DlnaOffStays DEF RemoteInv
<1>2. CASE PlexNext /\ UNCHANGED <<jfOwn, dlnaOwn>>
  <2>1. PlexInv /\ JfOff /\ DlnaOff
    BY <1>2, PlexRests, JfTellsOurs, DlnaTells DEF RemoteInv
  <2> QED BY <1>2, <2>1, PlexGoes, JfOffStays, DlnaOffStays DEF RemoteInv
<1>3. CASE JfNext /\ UNCHANGED <<plexOwn, dlnaOwn>>
  <2>1. JfInv /\ PlexOff /\ DlnaOff
    BY <1>3, JfRests, PlexTells, DlnaTells DEF RemoteInv
  <2> QED BY <1>3, <2>1, JfGoes, PlexOffStays, DlnaOffStays DEF RemoteInv
<1>4. CASE DlnaNext /\ UNCHANGED <<plexOwn, jfOwn>>
  <2>1. DlnaInv /\ PlexOff /\ JfOff
    BY <1>4, DlnaRests, PlexTells, JfTellsOurs DEF RemoteInv
  <2> QED BY <1>4, <2>1, DlnaGoes, PlexOffStays, JfOffStays DEF RemoteInv
<1> QED BY <1>1, <1>2, <1>3, <1>4 DEF Next

LEMMA RemotePromises == RemoteInv => TypeOK /\ RememberedIsPlaying /\ CachesInOrder
<1>1. CASE PlexInv /\ JfOff /\ DlnaOff
  <2>1. ~Owned("jellyfin") /\ ~Owned("dlna")
    BY <1>1, PlexTells DEF Owned
  <2>2. CurrentIsPlaying
    BY <2>1 DEF CurrentIsPlaying
  <2> QED BY <1>1, <2>1, <2>2, PlexTyped, PlexRemembers, JfOffTyped, DlnaOffTyped DEF TypeOK,
     RememberedIsPlaying
<1>2. CASE JfInv /\ PlexOff /\ DlnaOff
  <2>1. ~Owned("plex") /\ ~Owned("dlna")
    BY <1>2, JfTellsOurs DEF Owned
  <2>2. LastPlayIsPlaying
    BY <2>1 DEF LastPlayIsPlaying
  <2> QED BY <1>2, <2>1, <2>2, JfTyped, JfRemembers, PlexOffTyped, DlnaOffTyped DEF TypeOK,
     RememberedIsPlaying
<1>3. CASE DlnaInv /\ PlexOff /\ JfOff
  <2>1. ~Owned("plex") /\ ~Owned("jellyfin")
    BY <1>3, DlnaTells DEF Owned
  <2>2. LastPlayIsPlaying /\ CurrentIsPlaying
    BY <2>1 DEF LastPlayIsPlaying, CurrentIsPlaying
  <2> QED BY <1>3, <2>1, <2>2, DlnaTyped, DlnaCaches, DlnaRemembers, PlexOffTyped, JfOffTyped
          DEF TypeOK, RememberedIsPlaying
<1> QED BY <1>1, <1>2, <1>3 DEF RemoteInv

LEMMA RemoteAlways == Spec => []RemoteInv
BY RemoteStarts, RemoteGoes, PTL DEF Spec

(* The counters of intents and of starts under way are right, an entry is  *)
(* queued once, one advance of Plex confirms at a time, and the records of *)
(* sessions, caches and reports name what exists (the three adapters'      *)
(* bookkeeping, whatever overlaps).                                        *)
THEOREM RemoteTyped == Spec => []TypeOK
BY RemoteAlways, RemotePromises, PTL

(* What Plex's lastPlay, Jellyfin's currentRefKey and DLNA's currentRef and*)
(* transportState say is what plays, when nothing is under way and the     *)
(* controller sends one thing at a time: no late hook, failed start or     *)
(* advance of the queue leaves them about another session; and the entry   *)
(* that plays has left Jellyfin's queue.                                   *)
THEOREM AdaptersKnowWhatPlays == Spec => []RememberedIsPlaying
BY RemoteAlways, RemotePromises, PTL

(* No HLS cache is removed while a session plays from it or a start is to  *)
(* hand it over, and none outlives the URI that is loaded.                 *)
THEOREM CachesAreKept == Spec => []CachesInOrder
BY RemoteAlways, RemotePromises, PTL
=============================================================================
