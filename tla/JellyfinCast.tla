---------------------------- MODULE JellyfinCast ----------------------------
(***************************************************************************)
(* The Jellyfin adapter (internal/adapters/jellyfin): the controller's     *)
(* messages, which one loop reads; the goroutines that negotiate with the  *)
(* server and start what was asked for; the ones that go on with the queue *)
(* when an item has played to its end; and the reporters that keep the     *)
(* server's picture of this player up to date.                             *)
(*                                                                         *)
(* Items are left out: a session is the PlaySessionID that the server      *)
(* minted for it, and the queue entry it plays, if any.  So are positions. *)
(***************************************************************************)
EXTENDS CoreSlot, SequencesExt

CONSTANTS
    JfMaxSessions, \* bound on PlaySessionIDs, for the fairness
    JfLimits       \* the behaviours of an instance:
                \*   asks: what the controller sends, of JfAsks
                \*   commands, ends: bounds on messages, and on sessions that
                \*     end by themselves or are taken by another adapter
                \*   together: may starts overlap
                \*   faults: may requests to the server, reports and starts fail
                \*   others: may other adapters cast
                \*   slow: may a report take longer than autoAdvanceSettleDelay

ASSUME JfAssumption ==
    JfLimits # {} /\ \A l \in JfLimits : l.commands \in Nat /\ l.ends \in Nat

JfAsks == {"play", "queue", "pause", "stop", "seek", "track", "next", "switch"}

VARIABLES
    jfLimit,
    currentRefKey, \* the AdapterRef the adapter takes for its own
    jfAutoAdvance, \* cfg.AutoAdvance
    startEpoch,    \* controllerStartEpoch
    pending,       \* pendingControllerStarts
    queue,         \* queue: entry ids
    entries,       \* nextQueueEntryID
    starts,        \* goroutines that start something
    followers,     \* goroutines that advance after an end
    reporters,     \* reporters: the session each reports, what it is about to do
    row,           \* what the server shows of us: a PlaySessionID, or 0
    lost,          \* the reports that were lost
    sessions,      \* PlaySessionIDs minted
    jfAsked, jfEnded

jfState == <<currentRefKey, jfAutoAdvance, startEpoch, pending, queue, entries>>
jfOwn   == <<jfLimit, jfState, starts, followers, reporters, row, lost, sessions, jfAsked, jfEnded>>
jfVars  == <<slotVars, jfOwn>>

NoRef == <<0>>
JfSession(id, entry) == Session("jellyfin", <<id>>, entry)

JfIdleState ==
    /\ currentRefKey = NoRef /\ jfAutoAdvance = TRUE /\ startEpoch = 0 /\ pending = 0
    /\ queue = <<>> /\ entries = 0 /\ starts = {} /\ followers = {} /\ reporters = {} /\ row = 0
    /\ lost = {} /\ sessions = 0

JfInit ==
    /\ SlotInit /\ JfIdleState
    /\ jfAsked = 0 /\ jfEnded = 0 /\ jfLimit \in JfLimits

(* No behaviour of this adapter. *)
JfOff ==
    /\ JfIdleState
    /\ jfLimit = CHOOSE l \in JfLimits : TRUE
    /\ jfAsked = jfLimit.commands /\ jfEnded = jfLimit.ends

-----------------------------------------------------------------------------
(* The controller's messages.                                              *)

JfAsksFor(what) ==
    /\ what \in jfLimit.asks
    /\ jfAsked < jfLimit.commands /\ jfAsked' = jfAsked + 1
    /\ jfLimit.together \/ starts = {}
    /\ UNCHANGED <<jfLimit, row, lost, reporters, jfEnded>>

(* peekQueueHead *)
Peek(q) == Head(q)

(* The epoch of the controller's intents moves on, which followers notice. *)
Overrides ==
    /\ startEpoch' = startEpoch + 1
    /\ followers' = {IF f.pc \in {"fetch", "start", "check", "commit"}
                     THEN [f EXCEPT !.late = TRUE] ELSE f : f \in followers}

(* beginControllerStartIntent, and the goroutine of the start.             *)
BeginsStart(entry, paused) ==
    /\ Overrides
    /\ pending' = pending + 1
    /\ sessions' = sessions + 1
    /\ starts' = starts \cup {[pc |-> "fetch", id |-> sessions', entry |-> entry, paused |-> paused,
                               prev |-> NoRef]}

(* PlayNow of one item or of two: the rest becomes the queue.              *)
HandlePlayNow ==
    /\ JfAsksFor("play")
    /\ \E n \in 0..1 : entries' = entries + n /\ queue' = [i \in 1..n |-> entries + i]
    /\ BeginsStart(0, FALSE)
    /\ UNCHANGED <<slotVars, currentRefKey, jfAutoAdvance>>

(* PlayNext and PlayLast. *)
HandlePlayQueued ==
    /\ JfAsksFor("queue")
    /\ entries' = entries + 1
    /\ queue' \in {<<entries'>> \o queue, Append(queue, entries')}
    /\ UNCHANGED <<slotVars, currentRefKey, jfAutoAdvance, startEpoch, pending, starts, followers, sessions>>

(* restartCurrentPlaybackAt plays the current item anew from a position:   *)
(* Seek, which stays paused, and Unpause, which does not.  trackSwitch is  *)
(* the same as Seek.  They go by the session that is active, be it ours or *)
(* not, and by currentRefKey.                                              *)
RestartCurrentPlayback ==
    /\ ~Idle
    /\ currentRefKey # NoRef
    /\ \/ (JfAsksFor("seek") \/ JfAsksFor("track")) /\ BeginsStart(0, owner.paused)
       \/ JfAsksFor("pause") /\ owner.paused /\ BeginsStart(0, FALSE)
    /\ UNCHANGED <<slotVars, currentRefKey, jfAutoAdvance, queue, entries>>

PlaystatePause ==
    /\ JfAsksFor("pause") /\ ~Idle /\ (owner.paused => currentRefKey = NoRef)
    /\ SetPaused(~owner.paused)
    /\ UNCHANGED <<jfState, starts, followers, sessions>>

PlaystateStop ==
    /\ JfAsksFor("stop") /\ ~Idle
    /\ Stop
    /\ UNCHANGED <<jfState, starts, followers, sessions>>

PlaystateNextTrack ==
    /\ JfAsksFor("next")
    /\ IF queue = <<>> THEN Overrides /\ UNCHANGED <<queue, pending, sessions, starts>>
       ELSE queue' = Tail(queue) /\ BeginsStart(Head(queue), FALSE)
    /\ UNCHANGED <<slotVars, currentRefKey, jfAutoAdvance, entries>>

ApplyAutoAdvance ==
    /\ JfAsksFor("switch")
    /\ jfAutoAdvance' = ~jfAutoAdvance
    /\ UNCHANGED <<slotVars, currentRefKey, startEpoch, pending, queue, entries, starts, followers, sessions>>

JfHandler ==
    \/ HandlePlayNow \/ HandlePlayQueued \/ RestartCurrentPlayback \/ PlaystatePause \/ PlaystateStop
    \/ PlaystateNextTrack \/ ApplyAutoAdvance

-----------------------------------------------------------------------------
(* The goroutines that start something.                                    *)

StartMoves(s, t) == starts' = (starts \ {s}) \cup {t}
StartGoes(s, pc) == StartMoves(s, [s EXCEPT !.pc = pc])
JfElse == <<jfLimit, jfAutoAdvance, startEpoch, queue, entries, followers, row, lost, sessions, jfAsked, jfEnded>>

(* The server answers, and beginSelfPreempt reserves currentRefKey; or it  *)
(* does not.                                                               *)
Reserve(s) ==
    /\ s.pc = "fetch"
    /\ \/ currentRefKey' = <<s.id>>
          /\ StartMoves(s, [s EXCEPT !.pc = "start", !.prev = currentRefKey])
       \/ jfLimit.faults /\ StartGoes(s, "finish") /\ UNCHANGED currentRefKey
    /\ UNCHANGED <<slotVars, JfElse, pending, reporters>>

(* A start fails before or after the session it replaces was torn down.    *)
StartCore(s) ==
    /\ s.pc = "start"
    /\ \/ Installs(JfSession(s.id, s.entry)) /\ StartGoes(s, "pause")
       \/ /\ jfLimit.faults /\ StartGoes(s, "rollback")
          /\ UNCHANGED slotVars \/ (~Idle /\ Empties("preempted"))
    /\ UNCHANGED <<JfElse, currentRefKey, pending, reporters>>

RollbackSelfPreempt(s) ==
    /\ s.pc = "rollback"
    /\ currentRefKey' = s.prev /\ StartGoes(s, "finish")
    /\ UNCHANGED <<slotVars, JfElse, pending, reporters>>

(* spawnReporter, after the pause was restored. *)
SpawnReporter(id) == reporters' = reporters \cup {[id |-> id, pc |-> "begin"]}

CommitSelfPreempt(s) ==
    /\ s.pc = "pause"
    /\ IF s.paused THEN SetPaused(TRUE) ELSE UNCHANGED slotVars
    /\ SpawnReporter(s.id) /\ StartGoes(s, "finish")
    /\ UNCHANGED <<JfElse, currentRefKey, pending>>

FinishStart(s) ==
    /\ s.pc = "finish"
    /\ pending' = pending - 1
    /\ starts' = starts \ {s}
    /\ UNCHANGED <<slotVars, JfElse, currentRefKey, reporters>>

Starts(s) == Reserve(s) \/ StartCore(s) \/ RollbackSelfPreempt(s) \/ CommitSelfPreempt(s) \/ FinishStart(s)

-----------------------------------------------------------------------------
(* The ends of sessions, and going on with the queue.                      *)

JfEnds ==
    /\ jfEnded < jfLimit.ends /\ jfEnded' = jfEnded + 1
    /\ ~Idle /\ \E why \in {"eof", "error"} : (why = "error" => jfLimit.faults) /\ Empties(why)
    /\ UNCHANGED <<jfLimit, jfState, starts, followers, reporters, row, lost, sessions, jfAsked>>

JfOtherTakes ==
    /\ jfEnded < jfLimit.ends /\ jfEnded' = jfEnded + 1
    /\ jfLimit.others /\ ~Owned("other") /\ Installs(OtherSession)
    /\ UNCHANGED <<jfLimit, jfState, starts, followers, reporters, row, lost, sessions, jfAsked>>

(* The OnStop hook.  That it wakes the reporter changes only how soon.     *)
OnStop ==
    \E o \in told :
        /\ o.of.by = "jellyfin"
        /\ told' = told \ {o}
        /\ followers' = IF o.why # "eof" THEN followers ELSE
              followers \cup {[pc |-> "settle", from |-> o.of.ref, entry |-> 0, epoch |-> 0, id |-> 0,
                               gen |-> 0, late |-> FALSE]}
        /\ UNCHANGED <<owner, gens, jfLimit, jfState, starts, reporters, row, lost, sessions, jfAsked, jfEnded>>

Follows(f, g)  == followers' = (followers \ {f}) \cup {g}
FollowerGoes(f, pc) == Follows(f, [f EXCEPT !.pc = pc])
GivesUp(f) == followers' = followers \ {f}
JfElse2 == <<jfLimit, jfAutoAdvance, startEpoch, pending, entries, starts, row, lost, jfAsked, jfEnded>>

(* advanceAfterEOF, when the settle delay is over.  By then a reporter that *)
(* is not stuck in a slow report has noticed the end, which woke it.       *)
AdvanceAfterEOF(f) ==
    /\ f.pc = "settle"
    /\ jfLimit.slow \/ ~Idle \/ reporters = {}
    /\ IF jfAutoAdvance /\ Idle /\ currentRefKey = f.from /\ pending = 0 /\ queue # <<>>
       THEN Follows(f, [f EXCEPT !.pc = "fetch", !.epoch = startEpoch, !.entry = Peek(queue)])
       ELSE GivesUp(f)
    /\ UNCHANGED <<slotVars, JfElse2, currentRefKey, queue, reporters, sessions>>

(* May it still go on? *)
StillItsTurn(f) == pending = 0 /\ startEpoch = f.epoch

HeadIs(f) == queue # <<>> /\ Head(queue) = f.entry

Negotiate(f) ==
    /\ f.pc = "fetch"
    /\ \/ /\ Idle /\ currentRefKey = f.from /\ HeadIs(f) /\ StillItsTurn(f)
          /\ sessions' = sessions + 1
          /\ Follows(f, [f EXCEPT !.pc = "start", !.id = sessions'])
       \/ /\ ~(Idle /\ currentRefKey = f.from /\ HeadIs(f) /\ StillItsTurn(f)) \/ jfLimit.faults
          /\ GivesUp(f) /\ UNCHANGED sessions
    /\ UNCHANGED <<slotVars, JfElse2, currentRefKey, queue, reporters>>

StartSessionIfIdle(f) ==
    /\ f.pc = "start"
    /\ \/ /\ Idle /\ Installs(JfSession(f.id, f.entry))
          /\ Follows(f, [f EXCEPT !.pc = "check", !.gen = gens'])
       \/ (~Idle \/ jfLimit.faults) /\ GivesUp(f) /\ UNCHANGED slotVars
    /\ UNCHANGED <<JfElse2, currentRefKey, queue, reporters, sessions>>

SameSession(f) == owner.ref = <<f.id>> /\ owner.gen = f.gen

CheckStarted(f) ==
    /\ f.pc = "check"
    /\ FollowerGoes(f, IF SameSession(f) THEN "commit" ELSE "stale")
    /\ UNCHANGED <<slotVars, JfElse2, currentRefKey, queue, reporters, sessions>>

(* commitAutoAdvance. *)
CommitAutoAdvance(f) ==
    /\ f.pc = "commit"
    /\ IF StillItsTurn(f) /\ currentRefKey = f.from /\ HeadIs(f)
       THEN currentRefKey' = <<f.id>> /\ queue' = Tail(queue) /\ FollowerGoes(f, "confirm")
       ELSE FollowerGoes(f, "stale") /\ UNCHANGED <<currentRefKey, queue>>
    /\ UNCHANGED <<slotVars, JfElse2, reporters, sessions>>

RollsBack(f) ==
    IF currentRefKey # <<f.id>> THEN UNCHANGED <<currentRefKey, queue>>
    ELSE /\ currentRefKey' = f.from
         /\ queue' = IF Contains(queue, f.entry) THEN queue ELSE <<f.entry>> \o queue

ConfirmStarted(f) ==
    /\ f.pc = "confirm"
    /\ IF SameSession(f)
       THEN SpawnReporter(f.id) /\ GivesUp(f) /\ UNCHANGED <<currentRefKey, queue>>
       ELSE RollsBack(f) /\ FollowerGoes(f, "stale") /\ UNCHANGED reporters
    /\ UNCHANGED <<slotVars, JfElse2, sessions>>

StopStale(f) ==
    /\ f.pc = "stale"
    /\ StopIfSession(<<f.id>>, f.gen) /\ GivesUp(f)
    /\ UNCHANGED <<JfElse2, currentRefKey, queue, reporters, sessions>>

GoesOn(f) ==
    \/ AdvanceAfterEOF(f) \/ Negotiate(f) \/ StartSessionIfIdle(f) \/ CheckStarted(f)
    \/ CommitAutoAdvance(f) \/ ConfirmStarted(f) \/ StopStale(f)

-----------------------------------------------------------------------------
(* The reporters.                                                          *)

ReporterGoes(r, pc) == reporters' = (reporters \ {r}) \cup {[r EXCEPT !.pc = pc]}
ReporterGone(r)     == reporters' = reporters \ {r}
JfQuiet == <<slotVars, jfLimit, jfState, starts, followers, sessions, jfAsked, jfEnded>>

(* A report reaches the server: playback has begun or goes on, or stopped. *)
Post(r) ==
    /\ UNCHANGED lost
    /\ \/ r.pc \in {"begin", "progress"} /\ row' = r.id /\ ReporterGoes(r, "wait")
       \/ r.pc \in {"stopped", "again"} /\ row' = 0 /\ ReporterGone(r)

(* Or it fails: of a session, the first and one later one (a bound), and   *)
(* the last one, which alone is tried again, unless the server refused it. *)
(* Then the reporter goes, whatever became of the report.                  *)
Lost(r, kind) == lost' = lost \cup {[r EXCEPT !.pc = kind]} /\ UNCHANGED row

PostFails(r) ==
    /\ jfLimit.faults
    /\ \/ r.pc \in {"begin", "progress"} /\ r \notin lost /\ Lost(r, r.pc) /\ ReporterGoes(r, "wait")
       \/ r.pc = "stopped" /\ UNCHANGED <<row, lost>> /\ ReporterGoes(r, "again")
       \/ r.pc \in {"stopped", "again"} /\ Lost(r, "last") /\ ReporterGone(r)

(* What it does on a tick, or when it is woken, goes by the core's status. *)
(* The slip goes on as if the session still played.                        *)
WhenIdleProgress == "progress"
WhenIdle == "stopped"

Look(r) ==
    /\ r.pc = "wait" /\ UNCHANGED <<row, lost>>
    /\ ReporterGoes(r, IF Idle THEN WhenIdle ELSE IF owner.ref = <<r.id>> THEN "progress" ELSE "taken")

(* Somebody else plays.  If currentRefKey has moved on, the reporter of the*)
(* new session takes over; otherwise another adapter has preempted us.     *)
Elide(r) ==
    /\ r.pc = "taken" /\ UNCHANGED <<row, lost>>
    /\ IF currentRefKey = <<r.id>> THEN ReporterGoes(r, "stopped") ELSE ReporterGone(r)

Reports(r) == (Post(r) \/ PostFails(r) \/ Look(r) \/ Elide(r)) /\ UNCHANGED JfQuiet

-----------------------------------------------------------------------------
JfNext ==
    \/ JfHandler \/ JfEnds \/ JfOtherTakes \/ OnStop
    \/ \E s \in starts : Starts(s)
    \/ \E f \in followers : GoesOn(f)
    \/ \E r \in reporters : Reports(r)

(* Goroutines run on, and every reporter has its ticker.                   *)
JfFairness ==
    /\ WF_jfVars(OnStop) /\ WF_jfVars(\E s \in starts : Starts(s)) /\ WF_jfVars(\E f \in followers : GoesOn(f))
    /\ \A id \in 1..JfMaxSessions : WF_jfVars(\E r \in reporters : r.id = id /\ Reports(r))

JfSpec == JfInit /\ [][JfNext]_jfVars /\ JfFairness

-----------------------------------------------------------------------------
JfTypeOK ==
    /\ pending = Cardinality(starts)
    /\ \A e \in ToSet(queue) : e \in 1..entries
    /\ IsInjective(queue)
    /\ \A r \in reporters \cup lost : r.id \in 1..sessions
    /\ row \in 0..sessions

(* A follower that a controller's start overtook leaves nothing behind: the*)
(* session it started meanwhile has ended when it is through.              *)
FollowerLeavesNothing ==
    \A f \in followers : f.late /\ (\A g \in followers' : g.from # f.from)
        => ~Owned("jellyfin")' \/ owner'.ref # <<f.id>>

(* While starts do not overlap, currentRefKey names the session of ours    *)
(* that plays, once nothing is being started: the end of another one does  *)
(* not advance the queue.  The entry it plays is no longer queued, so that *)
(* no entry is played twice.                                               *)
CurrentIsPlaying ==
    (~jfLimit.together /\ starts = {} /\ Owned("jellyfin")
        /\ \A f \in followers : f.pc \in {"settle", "fetch", "start"})
    => currentRefKey = owner.ref /\ ~Contains(queue, owner.req)

(* The server learns how things stand, although reports get lost: it shows *)
(* ours while it plays, and no session for ever when nothing plays, but one*)
(* whose last report failed for good, or one that such a session replaced. *)
(* Not so when a report outlasts the settle delay, or another adapter      *)
(* preempts a session whose predecessor's report is under way: that        *)
(* reporter is taken for replaced, and goes without a last report.         *)
Undisturbed == ~jfLimit.slow /\ ~jfLimit.others
Unheard(id) == \E l \in lost : l.pc = "last" /\ id <= l.id

ServerLearns ==
    /\ []<>(Undisturbed /\ Idle => row = 0 \/ Unheard(row))
    /\ []<>(Undisturbed /\ Owned("jellyfin") => <<row>> = owner.ref)

(* When an item has played to its end and the queue has a next one, that   *)
(* one follows, unless the controller starts something or edits the queue's*)
(* head first, or another adapter is faster.                               *)
QueueIsPlayed ==
    \A e \in 1..3 :
        (/\ \E o \in told : o.why = "eof" /\ o.of.by = "jellyfin" /\ o.of.ref = currentRefKey
         /\ Idle /\ pending = 0 /\ jfAutoAdvance /\ queue # <<>> /\ Head(queue) = e /\ ~jfLimit.faults)
        ~> (pending > 0 \/ ~jfAutoAdvance \/ queue = <<>> \/ Head(queue) # e \/ ~Idle)
=============================================================================
