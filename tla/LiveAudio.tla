------------------------------ MODULE LiveAudio ------------------------------
(***************************************************************************)
(* A live audio receiver (internal/adapters/liveaudio): the session of a   *)
(* Spotify or AirPlay sender (session.go), the supervisor of the helper    *)
(* process that receives it (supervisor.go), the relay that carries the    *)
(* helper's sound to ffmpeg (relay.go) and the receiver that starts and    *)
(* stops all three (receiver.go).                                          *)
(*                                                                         *)
(* The session's goroutine takes one message at a time from a channel that *)
(* the sender, timers, the manager's OnStop, artwork fetches and the       *)
(* supervisor post to.  Handling one message is one step; what the manager *)
(* may do between its calls is an outcome of that step.  A cached picture  *)
(* is the number of the request that brought it, 0 is no picture.          *)
(***************************************************************************)
EXTENDS Naturals, Sequences, SequencesExt, FiniteSets

CONSTANTS
    Limits,     \* behaviours: [kinds, events, crashes], what happens, and how often
    QueueLen,   \* cap(Session.msgs)
    Capacity    \* relayCapacity, in chunks

(* A channel's and a buffer's size. *)
ASSUME AudioAssumption == {QueueLen, Capacity} \subseteq Nat

VARIABLES
    limit,      \* the behaviour that is checked
    s,          \* Session: state, ref, gen, artwork, pipeArt, artSeq, timer, graceSeq
    starts,     \* Session.nextID
    pauses,     \* pauses so far
    msgs,       \* Session.msgs
    closed,     \* Session.closed
    over,       \* Session.done
    core,       \* what the manager plays of ours: <<ref, generation>> or None
    gens,       \* generations given out
    told,       \* refs of which an OnStop is on its way
    fired,      \* grace timers that fired and are not posted: <<seq, pause>>
    fetching,   \* artwork requests under way
    posting,    \* pictures that wait to be posted
    files,      \* pictures on disk
    wire,       \* the sender's event between the helper and the session
    sent,       \* events so far
    h,          \* Supervisor: phase, id, restart, asked, killed
    crashes,    \* helpers that ended by themselves
    relay,      \* Relay: discard, level, waiting
    receiver    \* Receiver.Stop: "up", "stopping", "closing", "down"

sessionVars == <<s, starts, pauses, files, gens>>
coreVars    == <<core, told>>
artVars     == <<fetching, posting>>
helperVars  == <<h, crashes>>
wireVars    == <<wire, sent>>
audioVars == <<limit, sessionVars, msgs, closed, over, coreVars, fired, artVars, wire,
               sent, helperVars, relay, receiver>>

None == <<0, 0>>
Message(kind, n, of) == [kind |-> kind, n |-> n, of |-> of]
Event(kind)          == Message(kind, 0, 0)
SenderEvents         == {"play", "pause", "stop", "inline", "url", "clear", "bad"}

AudioInit ==
    /\ limit \in Limits
    /\ s = [state |-> "idle", ref |-> 0, gen |-> 0, artwork |-> 0, pipeArt |-> 0, artSeq |-> 0,
            timer |-> 0, graceSeq |-> 0]
    /\ starts = 0 /\ pauses = 0 /\ msgs = <<>> /\ closed = FALSE /\ over = FALSE
    /\ core = None /\ gens = 0 /\ told = {} /\ fired = {} /\ fetching = {} /\ posting = {}
    /\ files = {} /\ wire = <<>> /\ sent = 0
    /\ h = [phase |-> "starting", id |-> 1, restart |-> FALSE, asked |-> 0, killed |-> FALSE]
    /\ crashes = 0 /\ receiver = "up"
    /\ relay = [discard |-> TRUE, level |-> 0, waiting |-> FALSE]

(* A receiver that was stopped, where another part is checked. *)
AudioOff ==
    /\ limit \in Limits /\ limit.events = 2
    /\ s = [state |-> "idle", ref |-> 0, gen |-> 0, artwork |-> 0, pipeArt |-> 0, artSeq |-> 0,
            timer |-> 0, graceSeq |-> 0]
    /\ starts = 0 /\ pauses = 0 /\ msgs = <<>> /\ closed = TRUE /\ over = TRUE
    /\ core = None /\ gens = 0 /\ told = {} /\ fired = {} /\ fetching = {} /\ posting = {}
    /\ files = {} /\ wire = <<>> /\ sent = 0
    /\ h = [phase |-> "over", id |-> 1, restart |-> FALSE, asked |-> 0, killed |-> TRUE]
    /\ crashes = 0 /\ receiver = "down"
    /\ relay = [discard |-> TRUE, level |-> 0, waiting |-> FALSE]

-----------------------------------------------------------------------------
(* Posting to the session.                                                 *)

Room == Len(msgs) < QueueLen

(* post: into the channel, or nowhere once the session is closed.          *)
Post(m) ==
    \/ Room /\ ~closed /\ msgs' = Append(msgs, m)
    \/ closed /\ msgs' = msgs

(* The helper reports what the sender does; the report travels.            *)
SenderActs(kind) ==
    /\ h.phase = "running" /\ wire = <<>>
    /\ kind \in limit.kinds /\ sent < limit.events
    /\ wire' = <<kind>> /\ sent' = sent + 1
    /\ UNCHANGED <<limit, sessionVars, msgs, closed, over, coreVars, fired, artVars, helperVars,
                   relay, receiver>>

(* Receiver.Handle *)
Deliver ==
    /\ wire # <<>> /\ wire' = <<>> /\ Post(Event(Head(wire)))
    /\ UNCHANGED <<limit, sent, sessionVars, closed, over, coreVars, fired, artVars, helperVars, relay,
                   receiver>>

(* A cast of somebody else, the web page or ffmpeg's end.                  *)
SessionEnds ==
    /\ core # None /\ core' = None /\ told' = told \cup {core[1]}
    /\ UNCHANGED <<limit, sessionVars, msgs, closed, over, fired, artVars, wireVars, helperVars,
                   relay, receiver>>

(* request's OnStop *)
TellStopped(ref) ==
    /\ ref \in told /\ told' = told \ {ref} /\ Post(Message("stopped", ref, 0))
    /\ UNCHANGED <<limit, sessionVars, closed, over, core, fired, artVars, wireVars, helperVars,
                   relay, receiver>>

(* The timer fires, which Stop cannot undo, and its goroutine posts.       *)
GraceFires ==
    /\ s.timer # 0
    /\ fired' = fired \cup {<<s.timer, pauses>>} /\ s' = [s EXCEPT !.timer = 0]
    /\ UNCHANGED <<limit, starts, pauses, files, gens, msgs, closed, over, coreVars, artVars, wireVars,
                   helperVars, relay, receiver>>

TellGrace(t) ==
    /\ t \in fired /\ fired' = fired \ {t} /\ Post(Message("grace", t[1], t[2]))
    /\ UNCHANGED <<limit, sessionVars, closed, over, coreVars, artVars, wireVars, helperVars, relay,
                   receiver>>

(* setArtwork's goroutine: a picture arrives or not.  It looks whether the *)
(* session is closed and then waits for room or the end.                   *)
FetchFails(n) ==
    /\ n \in fetching /\ fetching' = fetching \ {n} /\ Post(Message("unready", n, 0))
    /\ UNCHANGED <<limit, sessionVars, closed, over, coreVars, fired, posting, wireVars, helperVars,
                   relay, receiver>>

FetchArrives(n) ==
    /\ n \in fetching /\ fetching' = fetching \ {n}
    /\ IF closed THEN UNCHANGED <<posting, files>>
       ELSE posting' = posting \cup {n} /\ files' = files \cup {n}
    /\ UNCHANGED <<limit, s, starts, pauses, gens, msgs, closed, over, coreVars, fired, wireVars,
                   helperVars, relay, receiver>>

PostPicture(n) ==
    /\ n \in posting /\ posting' = posting \ {n}
    /\ \/ Room /\ msgs' = Append(msgs, Message("ready", n, n)) /\ UNCHANGED files
       \/ closed /\ files' = files \ {n} /\ UNCHANGED msgs
    /\ UNCHANGED <<limit, s, starts, pauses, gens, closed, over, coreVars, fired, fetching, wireVars,
                   helperVars, relay, receiver>>

-----------------------------------------------------------------------------
(* The session's goroutine.                                                *)

Take(kinds) ==
    /\ ~over /\ msgs # <<>> /\ Head(msgs).kind \in kinds /\ msgs' = Tail(msgs)
    /\ UNCHANGED <<limit, closed, fired, posting, wireVars, crashes, receiver>>

Drained(d) == relay' = [relay EXCEPT !.discard = d, !.level = IF d THEN 0 ELSE @,
                                     !.waiting = FALSE]

(* toIdle, and releaseArt of what the pipeline had.                        *)
ToIdle(t) == [t EXCEPT !.state = "idle", !.ref = 0, !.gen = 0, !.pipeArt = 0, !.timer = 0,
                       !.graceSeq = @ + 1]

Release(t)    == {t.pipeArt} \ {t.artwork}

(* StopIfSession; its OnStop comes when the session has given the ref up.  *)
CoreStop(t) ==
    IF core = <<t.ref, t.gen>> THEN core' = None /\ told' = told \cup {t.ref}
    ELSE UNCHANGED coreVars

(* end, with drop the pictures that go besides. *)
End(t, drop) ==
    /\ IF t.state = "idle" THEN s' = t /\ UNCHANGED <<coreVars, relay>>
       ELSE s' = ToIdle(t) /\ CoreStop(t) /\ Drained(TRUE)
    /\ files' = files \ (drop \cup IF t.state = "idle" THEN {} ELSE Release(t))

(* Supervisor.Restart *)
Restart ==
    IF h.phase \in {"starting", "running"}
    THEN h' = [h EXCEPT !.restart = TRUE, !.asked = h.id, !.killed = h.phase = "running"]
    ELSE UNCHANGED h

(* externalStop, with gone the pictures that go besides. *)
ExternalStop(t, gone) ==
    /\ s' = ToIdle(t) /\ files' = (files \ gone) \ Release(t)
    /\ Drained(TRUE) /\ Restart

(* start.  Status tells whether somebody replaced the session meanwhile.   *)
Started ==
    LET t == [s EXCEPT !.ref = starts + 1, !.gen = gens + 1, !.pipeArt = s.artwork,
                       !.state = "live"]
    IN /\ starts' = starts + 1 /\ gens' = gens + 1
       /\ \/ /\ s' = t /\ core' = <<t.ref, t.gen>>
             /\ Drained(FALSE) /\ UNCHANGED <<files, told, h>>
          \/ /\ told' = told \cup {t.ref} /\ core' = None
             /\ ExternalStop(t, {})

StartFails ==
    /\ starts' = starts + 1 /\ s' = ToIdle([s EXCEPT !.pipeArt = s.artwork])
    /\ Drained(TRUE) /\ UNCHANGED <<files, gens, coreVars, h>>

Play ==
    /\ Take({"play"}) /\ s.state = "idle" /\ (Started \/ StartFails)
    /\ UNCHANGED <<pauses, fetching>>

(* cancelGrace. *)
Uncounted(t)     == [t EXCEPT !.timer = 0, !.graceSeq = @ + 1]

Resume ==
    /\ Take({"play"}) /\ s.state # "idle"
    /\ s' = IF s.state = "held" THEN [Uncounted(s) EXCEPT !.state = "live"] ELSE s
    /\ UNCHANGED <<starts, pauses, files, gens, coreVars, fetching, h, relay>>

(* armGrace; without a grace time the session ends. *)
Pause ==
    /\ Take({"pause"})
    /\ IF s.state # "live" THEN UNCHANGED <<s, pauses, files, coreVars, relay>>
       ELSE /\ pauses' = pauses + 1
            /\ LET t == [Uncounted(s) EXCEPT !.state = "held"] IN
               \/ /\ s' = [t EXCEPT !.graceSeq = @ + 1, !.timer = t.graceSeq + 1]
                  /\ UNCHANGED <<files, coreVars, relay>>
               \/ End(t, {})
    /\ UNCHANGED <<starts, gens, fetching, h>>

(* graceExpired.  The slip takes the timer of any pause. *)
AnyPause(m)  == s.state = "held"
ThisPause(m) == m.n = s.graceSeq /\ s.state = "held"

Grace ==
    /\ Take({"grace"})
    /\ IF ThisPause(Head(msgs)) THEN End(s, {}) ELSE UNCHANGED <<s, files, coreVars, relay>>
    /\ UNCHANGED <<starts, pauses, gens, fetching, h>>

(* coreStopped.  The slip overlooks the end of a paused session. *)
StoppedLive(m) == m.n = s.ref /\ s.state = "live"
OurStop(m)     == m.n = s.ref /\ s.state # "idle"

CoreStopped ==
    /\ Take({"stopped"})
    /\ IF OurStop(Head(msgs)) THEN ExternalStop(s, {}) ELSE UNCHANGED <<s, files, h, relay>>
    /\ UNCHANGED <<starts, pauses, gens, coreVars, fetching>>

(* dropArtwork. *)
Dropped(t)     == [t EXCEPT !.artSeq = @ + 1, !.artwork = 0]

(* EventStop, of the sender or of the supervisor's OnExit. *)
Stop ==
    /\ Take({"stop"}) /\ End(Dropped(s), {s.artwork})
    /\ UNCHANGED <<starts, pauses, gens, fetching, h>>

(* restartForArtwork: the manager no longer plays the session; it refuses; *)
(* it plays the session anew; it fails, and so ends the session without    *)
(* OnStop; or somebody else came right after.  gone are the pictures that  *)
(* go besides.  The slip does not look at Status.                          *)
Renewed(t) == [t EXCEPT !.pipeArt = t.artwork, !.gen = gens + 1]

Keeps(t, gone)      == s' = t /\ files' = files \ gone /\ UNCHANGED <<h, relay>>
AfterLoss(t, gone)  == ExternalStop(t, gone)

RestartForArtwork(t, gone) ==
    \/ Keeps(t, gone) /\ UNCHANGED <<gens, coreVars>>
    \/ /\ core = <<t.ref, t.gen>> /\ gens' = gens + 1
       /\ \/ /\ core' = <<t.ref, gens + 1>> /\ UNCHANGED told
             /\ Keeps(Renewed(t), gone \cup Release(t))
          \/ /\ core' = None /\ told' \in {told, told \cup {t.ref}}
             /\ AfterLoss(t, gone)

(* applyArtwork of a picture of the newest request.  A visualizer mode may *)
(* or may not show it.  The slip does not remove what the track showed.    *)
Forgets(t)  == {}
Replaces(t) == {t.artwork} \ {t.pipeArt}

Apply(t, path) ==
    LET new == [t EXCEPT !.artwork = path] IN
    \/ Keeps(new, Replaces(t)) /\ UNCHANGED <<gens, coreVars>>
    \/ /\ t.state # "idle" /\ new.artwork # new.pipeArt
       /\ RestartForArtwork(new, Replaces(t))

(* setArtwork of what needs no fetch: a picture in the event, none, or a   *)
(* bad one.  The picture is stored, and applyArtwork comes next.           *)
Picture ==
    /\ ~over /\ msgs # <<>> /\ Head(msgs).kind \in {"inline", "clear", "bad"}
    /\ LET n    == s.artSeq + 1
           kind == Head(msgs).kind
           done == CASE kind = "inline" -> Message("ready", n, n)
                     [] kind = "clear"  -> Message("ready", n, 0)
                     [] kind = "bad"    -> Message("unready", n, 0)
       IN /\ s' = [s EXCEPT !.artSeq = n]
          /\ msgs' = <<done>> \o Tail(msgs)
          /\ files' = IF kind = "inline" THEN files \cup {n} ELSE files
    /\ UNCHANGED <<limit, starts, pauses, gens, closed, coreVars, fired, artVars, wireVars, helperVars,
                   relay, receiver>>

(* setArtwork of an address.  A fetch that is superseded is cancelled, and *)
(* may still arrive.                                                       *)
Fetch ==
    /\ Take({"url"})
    /\ s' = [s EXCEPT !.artSeq = @ + 1] /\ fetching' = fetching \cup {s.artSeq + 1}
    /\ UNCHANGED <<starts, pauses, files, gens, coreVars, h, relay>>

(* artworkReady. *)
Newest(n)     == n = s.artSeq

Pictured ==
    /\ Take({"ready", "unready"})
    /\ LET m == Head(msgs) IN
       IF m.kind = "ready" /\ Newest(m.n) THEN Apply(s, m.of)
       ELSE Keeps(s, {m.of}) /\ UNCHANGED <<gens, coreVars>>
    /\ UNCHANGED <<starts, pauses, fetching>>

(* closeRequest *)
CloseRequest ==
    /\ ~over /\ msgs # <<>> /\ Head(msgs).kind = "close" /\ msgs' = Tail(msgs)
    /\ over' = TRUE
    /\ End(Dropped(s), {s.artwork})
    /\ UNCHANGED <<limit, starts, pauses, gens, closed, fired, artVars, wireVars, helperVars, receiver>>

Handles ==
    \/ /\ Play \/ Resume \/ Pause \/ Grace \/ CoreStopped \/ Stop \/ Picture \/ Fetch \/ Pictured
       /\ UNCHANGED over
    \/ CloseRequest

-----------------------------------------------------------------------------
(* The supervisor and its helper.                                          *)

Requested == h.restart \/ receiver # "up"

(* runOnce: the process is there.  A Restart that came meanwhile ends it.  *)
EndsAtStart == h.restart

HelperUp ==
    /\ h.phase = "starting"
    /\ h' = [h EXCEPT !.phase = "running", !.killed = @ \/ EndsAtStart]
    /\ UNCHANGED <<limit, sessionVars, msgs, closed, over, coreVars, fired, artVars, wireVars, crashes,
                   relay, receiver>>

(* The process ends, or cannot start.  What waits for the relay is cut off *)
(* by WaitDelay.                                                           *)
HelperExits ==
    /\ h.phase \in {"starting", "running"}
    /\ IF h.killed \/ receiver # "up" THEN UNCHANGED crashes
       ELSE crashes < limit.crashes /\ crashes' = crashes + 1
    /\ h' = [h EXCEPT !.phase = "gone"]
    /\ UNCHANGED <<limit, sessionVars, msgs, closed, over, coreVars, fired, artVars, wireVars, relay,
                   receiver>>

(* A helper's successor. *)
NextHelper       == [h EXCEPT !.phase = "starting", !.id = @ + 1, !.killed = FALSE,
                              !.restart = FALSE]

(* loop: OnExit tells the session, then the supervisor ends, or starts the *)
(* helper again, at once if that was requested.                            *)
Ends      == receiver # "up"

AfterExit ==
    /\ h.phase = "gone" /\ Post(Event("stop"))
    /\ h' = CASE Ends -> [h EXCEPT !.phase = "over", !.restart = FALSE]
              [] ~Ends /\ Requested -> NextHelper
              [] OTHER -> [h EXCEPT !.phase = "backoff", !.restart = FALSE]
    /\ UNCHANGED <<limit, sessionVars, closed, over, coreVars, fired, artVars, wireVars, crashes,
                   relay, receiver>>

Backoff ==
    /\ h.phase = "backoff"
    /\ h' = IF receiver # "up" THEN [h EXCEPT !.phase = "over"] ELSE NextHelper
    /\ UNCHANGED <<limit, sessionVars, msgs, closed, over, coreVars, fired, artVars, wireVars, crashes,
                   relay, receiver>>

-----------------------------------------------------------------------------
(* The relay.                                                              *)

(* push: drops while discarding, waits while the buffer is full.           *)
HelperWrites ==
    /\ "sound" \in limit.kinds /\ h.phase = "running" /\ ~relay.waiting /\ ~relay.discard
    /\ relay' = IF relay.level < Capacity THEN [relay EXCEPT !.level = @ + 1]
                ELSE [relay EXCEPT !.waiting = TRUE]
    /\ UNCHANGED <<limit, sessionVars, msgs, closed, over, coreVars, fired, artVars, wireVars,
                   helperVars, receiver>>

(* take, for ffmpeg, which reads as long as the manager plays the session. *)
ReaderTakes ==
    /\ core # None /\ relay.level > 0
    /\ relay' = [relay EXCEPT !.level = @ - 1, !.waiting = FALSE]
    /\ UNCHANGED <<limit, sessionVars, msgs, closed, over, coreVars, fired, artVars, wireVars,
                   helperVars, receiver>>

-----------------------------------------------------------------------------
(* The receiver.                                                           *)

(* Stop, and in it Supervisor.Stop, which waits, Session.Close, which      *)
(* waits, and Relay.Reset.                                                 *)
BeginStop ==
    /\ "shutdown" \in limit.kinds /\ receiver = "up" /\ receiver' = "stopping"
    /\ h' = [h EXCEPT !.killed = TRUE]
    /\ UNCHANGED <<limit, sessionVars, msgs, closed, over, coreVars, fired, artVars, wireVars, crashes,
                   relay>>

CloseSession ==
    /\ receiver = "stopping" /\ h.phase = "over" /\ Room
    /\ msgs' = Append(msgs, Event("close")) /\ closed' = TRUE /\ receiver' = "closing"
    /\ UNCHANGED <<limit, sessionVars, over, coreVars, fired, artVars, wireVars, helperVars, relay>>

Reset ==
    /\ receiver = "closing" /\ over /\ receiver' = "down" /\ Drained(TRUE)
    /\ UNCHANGED <<limit, sessionVars, msgs, closed, over, coreVars, fired, artVars, wireVars, helperVars>>

-----------------------------------------------------------------------------
Posts ==
    \/ Deliver \/ \E ref \in told : TellStopped(ref) \/ \E t \in fired : TellGrace(t)
    \/ \E n \in fetching : FetchArrives(n) \/ FetchFails(n)
    \/ \E n \in posting : PostPicture(n)

AudioNext ==
    \/ \E kind \in SenderEvents : SenderActs(kind)
    \/ SessionEnds \/ GraceFires \/ Posts \/ Handles
    \/ HelperUp \/ HelperExits \/ AfterExit \/ Backoff \/ HelperWrites \/ ReaderTakes
    \/ BeginStop \/ CloseSession \/ Reset

(* Goroutines run, a process that was told to end ends, ffmpeg reads, and  *)
(* fetches have a timeout.                                                 *)
HelperRuns == HelperUp \/ AfterExit \/ Backoff \/ (h.killed /\ HelperExits)
Stopping   == CloseSession \/ Reset

AudioFairness ==
    /\ WF_audioVars(Handles) /\ WF_audioVars(Posts) /\ WF_audioVars(ReaderTakes)
    /\ WF_audioVars(HelperRuns) /\ WF_audioVars(Stopping)

AudioSpec == AudioInit /\ [][AudioNext]_audioVars /\ AudioFairness

-----------------------------------------------------------------------------
(* Properties.                                                             *)

InUse == {s.artwork, s.pipeArt} \ {0}

AudioTypeOK ==
    /\ s.state \in {"idle", "live", "held"} /\ (s.state = "idle") <=> (s.ref = 0)
    /\ Len(msgs) <= QueueLen /\ relay.level \in 0..Capacity
    /\ h.phase \in {"starting", "running", "gone", "backoff", "over"}
    /\ s.timer # 0 => s.state = "held" /\ s.timer = s.graceSeq

(* The session and the manager agree: what the manager plays of ours is    *)
(* the session's, under the generation it would be stopped with; a session *)
(* whose core session has gone is going to be told or is closing; and      *)
(* nothing of ours plays after Stop, whatever was on its way.              *)
AgreesWithCore ==
    /\ core # None => core = <<s.ref, s.gen>>
    /\ s.state # "idle" /\ core = None
         => closed \/ s.ref \in told \/ \E i \in 1..Len(msgs) : msgs[i] = Message("stopped", s.ref, 0)
    /\ receiver = "down" => core = None /\ relay.discard /\ InUse = {}

(* A picture that the track or the running pipeline shows is on disk.  Any *)
(* other one on disk is on its way to the session, unless it was posted to *)
(* a session that never reads it because it is closed.                     *)
PicturesInUse ==
    /\ InUse \subseteq files
    /\ \A n \in files \ InUse :
          n \in posting \/ \E i \in 1..Len(msgs) : msgs[i] = Message("ready", n, n)

(* A receiver's session is the manager's, and it keeps the pictures they   *)
(* show and no others.                                                     *)
ReceiverInOrder == AgreesWithCore /\ PicturesInUse

(* What was overtaken changes nothing: a fetch that was followed by a later*)
(* request does not become the picture, and a grace time that ends the     *)
(* session is the one of the pause that goes on.                           *)
StaleChangesNothing ==
    [][/\ s'.artwork \notin {0, s.artwork} => s'.artwork = s.artSeq
       /\ msgs # <<>> /\ msgs' = Tail(msgs) /\ Head(msgs).kind = "grace" /\ s'.state # s.state
            => Head(msgs).of = pauses]_audioVars

(* The helper that was running when the session was ended from outside is  *)
(* restarted, so that the sender sees a disconnect, and never the next one.*)
RestartEndsHelper == (h.restart ~> ~h.restart) /\ [](h.restart => h.asked = h.id)

(* A helper that waits for room in the relay does not wait for ever.       *)
WriteReturns == relay.waiting ~> ~relay.waiting

StopReturns == receiver = "stopping" ~> receiver = "down"
=============================================================================
