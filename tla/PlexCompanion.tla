--------------------------- MODULE PlexCompanion ---------------------------
(***************************************************************************)
(* The Plex adapter's Companion (internal/adapters/plex): the handlers of  *)
(* the controllers' requests, the OnStop hooks of its sessions, and the    *)
(* goroutines that advance to the next item of the play queue when one has *)
(* played to its end.                                                      *)
(*                                                                         *)
(* All of them use the manager without a lock of their own and remember    *)
(* what they play in lastPlay.  A pending advance yields to commands: each *)
(* counts as an intent while it runs and moves the epoch on, which an      *)
(* advance compares with the one it captured.                              *)
(*                                                                         *)
(* A play is an item of the play queue, whether it is music, and the       *)
(* TranscodeSessionID that was minted for it.                              *)
(***************************************************************************)
EXTENDS CoreSlot, FiniteSets

CONSTANTS
    Controllers,  \* how many HTTP requests are handled at the same time
    PlexItems,    \* length of the play queue
    PlexLimits    \* the behaviours of an instance:
                  \*   asks: what the controllers request, of PlexAsks
                  \*   commands, ends: bounds on requests, and on sessions that
                  \*     end by themselves or are taken by another adapter
                  \*   together: may two requests overlap
                  \*   faults: may lookups and starts fail

ASSUME PlexAssumption ==
    /\ Controllers \in Nat /\ PlexItems \in Nat
    /\ PlexLimits # {} /\ \A l \in PlexLimits : l.commands \in Nat /\ l.ends \in Nat

PlexAsks == {"play", "music", "seek", "skip", "pause", "stop", "switch"}

VARIABLES
    plexLimit,   \* of this behaviour
    lastPlay,    \* lastPlay
    current,     \* autoAdvanceCurrent: a TranscodeSessionID or 0
    autoAdvance, \* the switch
    epoch,       \* autoAdvanceEpoch
    intents,     \* autoAdvanceIntents
    request,     \* per controller: the handler it is in
    hooks,       \* OnStop hooks that have begun
    advances,    \* advanceAfterEOFAtEpoch goroutines
    minted,      \* TranscodeSessionIDs minted so far
    asked, ended,\* for the bounds
    slow         \* did an advance outrun a stop that was still pushing timelines

plexState == <<lastPlay, current, autoAdvance, epoch, intents>>
plexOwn   == <<plexLimit, plexState, request, hooks, advances, minted, asked, ended, slow>>
plexVars  == <<slotVars, plexOwn>>

Play(item, music, id) == [item |-> item, music |-> music, id |-> id]
NoPlay  == Play(0, FALSE, 0)
Resting == [pc |-> "none", play |-> NoPlay, paused |-> FALSE]

(* The AdapterRef of a video is its media key, so that a seek replays the  *)
(* session; music adds the transcode.                                      *)
PlexSession(p) == Session("plex", IF p.music THEN <<p.item, p.id>> ELSE <<p.item>>, p)

PlexIdleState ==
    /\ lastPlay = NoPlay /\ current = 0 /\ autoAdvance = TRUE /\ epoch = 0 /\ intents = 0
    /\ request = [c \in 1..Controllers |-> Resting]
    /\ hooks = {} /\ advances = {} /\ minted = 0 /\ slow = FALSE

PlexInit ==
    /\ SlotInit /\ PlexIdleState
    /\ asked = 0 /\ ended = 0 /\ plexLimit \in PlexLimits

(* No behaviour of this adapter. *)
PlexOff ==
    /\ PlexIdleState
    /\ plexLimit = CHOOSE l \in PlexLimits : TRUE
    /\ asked = plexLimit.commands /\ ended = plexLimit.ends

-----------------------------------------------------------------------------
(* autoAdvanceMu is held by an advance that looks at the manager again     *)
(* after it has stored what it plays.                                      *)
MuFree == \A a \in advances : a.pc # "confirm"

(* Commands that begin are noticed by the hooks and advances under way.    *)
Overtakes ==
    /\ hooks' = {[h EXCEPT !.late = TRUE] : h \in hooks}
    /\ advances' = {IF a.pc = "abandon" THEN a ELSE [a EXCEPT !.late = TRUE] : a \in advances}

Remember(p) == lastPlay' = p /\ current' = p.id
Forget      == Remember(NoPlay)

(* clearPlaySessionIfMatches.  The slip goes by the item. *)
ForgetIfItem(p) == IF lastPlay.item = p.item THEN Forget ELSE UNCHANGED <<lastPlay, current>>
ForgetIf(p)     == IF lastPlay.id = p.id THEN Forget ELSE UNCHANGED <<lastPlay, current>>

(* autoAdvanceStillCurrent.  The slip goes by the commands that run now.   *)
StillCurrentNow(e) == autoAdvance /\ intents = 0
StillCurrent(e)    == autoAdvance /\ intents = 0 /\ epoch = e

Goes(c, pc) == request' = [request EXCEPT ![c].pc = pc]

-----------------------------------------------------------------------------
(* The handlers.                                                           *)

Asks(c, what) ==
    /\ what \in plexLimit.asks
    /\ request[c].pc = "none" /\ \A d \in 1..(c - 1) : request[d].pc # "none"
    /\ asked < plexLimit.commands /\ asked' = asked + 1
    /\ plexLimit.together \/ \A d \in 1..Controllers : request[d].pc = "none"
    /\ UNCHANGED <<plexLimit, ended, slow>>

(* beginAutoAdvanceIntent, for a play that starts as p.                    *)
Begins(c, p, paused) ==
    /\ MuFree
    /\ intents' = intents + 1 /\ epoch' = epoch + 1
    /\ minted' = minted + 1
    /\ request' = [request EXCEPT ![c] = [pc |-> "lookup", play |-> [p EXCEPT !.id = minted'],
                                          paused |-> paused]]
    /\ Overtakes
    /\ UNCHANGED <<slotVars, lastPlay, current, autoAdvance>>

HandlePlayMedia(c) ==
    \E i \in 1..PlexItems, what \in {"play", "music"} :
        Asks(c, what) /\ Begins(c, Play(i, what = "music", 0), FALSE)

(* Without a session seekTo and setStreams do nothing.  (The latter does   *)
(* nothing for music or unchanged streams, and is a seek otherwise.)       *)
HandleSeekTo(c) ==
    /\ Asks(c, "seek") /\ lastPlay.item # 0
    /\ Begins(c, lastPlay, owner.paused)

Skips == {-1, 1}

(* skipNext, skipPrevious and skipTo (next and previous are enough of it), *)
(* which look for the item when they have become an intent.                *)
HandleSkip(c) ==
    \E d \in Skips :
        Asks(c, "skip") /\ Begins(c, [lastPlay EXCEPT !.item = @ + d], owner.paused)

Missing(c) == request[c].play.item \notin 1..PlexItems

(* A lookup, the selection of streams or the start fails.                  *)
Fails(c) ==
    /\ request[c].pc = "lookup" /\ (Missing(c) \/ plexLimit.faults)
    /\ Goes(c, "finish")
    /\ UNCHANGED <<slotVars, plexLimit, plexState, hooks, advances, minted, asked, ended, slow>>

StartSession(c) ==
    /\ request[c].pc = "lookup" /\ ~Missing(c)
    /\ Installs(PlexSession(request[c].play))
    /\ Goes(c, "remember")
    /\ UNCHANGED <<plexLimit, plexState, hooks, advances, minted, asked, ended, slow>>

(* rememberPlaySession. *)
RememberPlaySession(c) ==
    /\ request[c].pc = "remember" /\ MuFree
    /\ epoch' = epoch + 1 /\ Remember(request[c].play)
    /\ Goes(c, IF request[c].paused THEN "pause" ELSE "finish")
    /\ UNCHANGED <<slotVars, plexLimit, autoAdvance, intents, hooks, advances, minted, asked, ended, slow>>

RestorePaused(c) ==
    /\ request[c].pc = "pause"
    /\ SetPaused(TRUE) /\ Goes(c, "finish")
    /\ UNCHANGED <<plexLimit, plexState, hooks, advances, minted, asked, ended, slow>>

(* The deferred end of the intent. *)
FinishIntent(c) ==
    /\ request[c].pc = "finish" /\ MuFree
    /\ intents' = intents - 1
    /\ request' = [request EXCEPT ![c] = Resting]
    /\ UNCHANGED <<slotVars, plexLimit, lastPlay, current, autoAdvance, epoch, hooks, advances, minted,
                   asked, ended, slow>>

HandlePause(c) ==
    /\ Asks(c, "pause") /\ ~Idle
    /\ SetPaused(~owner.paused)
    /\ UNCHANGED <<plexState, request, hooks, advances, minted>>

(* handleStop: pending advances are cancelled, the manager stops whatever  *)
(* plays, the timelines are pushed, and lastPlay is cleared.               *)
CancelPending(c) ==
    /\ Asks(c, "stop") /\ MuFree
    /\ epoch' = epoch + 1 /\ Overtakes
    /\ Goes(c, "stop")
    /\ UNCHANGED <<slotVars, lastPlay, current, autoAdvance, intents, minted>>

StopCore(c) ==
    /\ request[c].pc = "stop"
    /\ IF Idle THEN UNCHANGED slotVars ELSE Stop
    /\ Goes(c, "clear")
    /\ UNCHANGED <<plexLimit, plexState, hooks, advances, minted, asked, ended, slow>>

ClearBumps == epoch' = epoch + 1 /\ Overtakes

ClearPlaySession(c) ==
    /\ request[c].pc = "clear" /\ MuFree
    /\ ClearBumps /\ Forget
    /\ request' = [request EXCEPT ![c] = Resting]
    /\ UNCHANGED <<slotVars, plexLimit, autoAdvance, intents, minted, asked, ended, slow>>

SetAutoAdvance(c) ==
    /\ Asks(c, "switch") /\ MuFree
    /\ autoAdvance' = ~autoAdvance
    /\ IF autoAdvance THEN ClearBumps ELSE UNCHANGED <<epoch, hooks, advances>>
    /\ UNCHANGED <<slotVars, lastPlay, current, intents, request, minted>>

Handler(c) ==
    \/ HandlePlayMedia(c) \/ HandleSeekTo(c) \/ HandleSkip(c) \/ HandlePause(c)
    \/ CancelPending(c) \/ SetAutoAdvance(c)

Continues(c) ==
    \/ StartSession(c) \/ RememberPlaySession(c) \/ RestorePaused(c) \/ FinishIntent(c)
    \/ StopCore(c) \/ ClearPlaySession(c)

-----------------------------------------------------------------------------
(* What the manager does by itself, and other adapters.                    *)

Ends ==
    /\ ended < plexLimit.ends /\ ended' = ended + 1
    /\ ~Idle
    /\ \E why \in {"eof", "error", "stopped"} : (why = "error" => plexLimit.faults) /\ Empties(why)
    /\ UNCHANGED <<plexLimit, plexState, request, hooks, advances, minted, asked, slow>>

OtherTakes ==
    /\ ended < plexLimit.ends /\ ended' = ended + 1
    /\ plexLimit.faults /\ ~Owned("other") /\ Installs(OtherSession)
    /\ UNCHANGED <<plexLimit, plexState, request, hooks, advances, minted, asked, slow>>

-----------------------------------------------------------------------------
(* OnStop and the advance.                                                 *)

(* withAutoAdvance judges first, then the inner hook pushes the timelines. *)
BeginHook ==
    \E o \in told :
        /\ o.of.by = "plex"
        /\ told' = told \ {o}
        /\ hooks' = hooks \cup
             {[play |-> o.of.req, epoch |-> epoch, late |-> FALSE,
               advance |-> o.why = "eof" /\ current = o.of.req.id /\ StillCurrent(epoch)]}
        /\ UNCHANGED <<owner, gens, plexLimit, plexState, request, advances, minted, asked, ended, slow>>

Advance(h) == [pc |-> "resolve", from |-> h.play, epoch |-> h.epoch, late |-> h.late,
               next |-> NoPlay, gen |-> 0]

EndHook(h) ==
    /\ MuFree
    /\ ForgetIf(h.play)
    /\ hooks' = hooks \ {h}
    /\ advances' = IF h.advance THEN advances \cup {Advance(h)} ELSE advances
    /\ UNCHANGED <<slotVars, plexLimit, autoAdvance, epoch, intents, request, minted, asked, ended, slow>>

Moves(a, b) == advances' = (advances \ {a}) \cup {b}
StandsDown(a) == advances' = advances \ {a}

(* The next item is looked up, and its metadata.                           *)
Resolve(a) ==
    /\ a.pc = "resolve"
    /\ \/ /\ StillCurrent(a.epoch) /\ a.from.item < PlexItems
          /\ minted' = minted + 1
          /\ Moves(a, [a EXCEPT !.pc = "settle",
                          !.next = [a.from EXCEPT !.item = @ + 1, !.id = minted']])
       \/ /\ ~StillCurrent(a.epoch) \/ a.from.item = PlexItems \/ plexLimit.faults
          /\ StandsDown(a) /\ UNCHANGED minted
    /\ UNCHANGED <<slotVars, plexLimit, plexState, request, hooks, asked, ended, slow>>

(* autoAdvanceDelay is over. *)
Settle(a) ==
    /\ a.pc = "settle"
    /\ IF StillCurrent(a.epoch) THEN Moves(a, [a EXCEPT !.pc = "start"]) ELSE StandsDown(a)
    /\ UNCHANGED <<slotVars, plexLimit, plexState, request, hooks, minted, asked, ended, slow>>

(* StartSessionIfIdleSnapshot. *)
StartIfIdle(a) ==
    /\ a.pc = "start"
    /\ \/ /\ Idle
          /\ Installs(PlexSession(a.next))
          /\ Moves(a, [a EXCEPT !.pc = "commit", !.gen = gens'])
       \/ /\ ~Idle \/ plexLimit.faults
          /\ StandsDown(a) /\ UNCHANGED slotVars
    /\ UNCHANGED <<plexLimit, plexState, request, hooks, minted, asked, ended, slow>>

Started(a) == owner.ref = PlexSession(a.next).ref /\ owner.gen = a.gen

(* rememberAutoAdvanceSessionIfCurrent.  The slip keeps lastPlay only. *)
RememberPlayOnly(p) == lastPlay' = p /\ UNCHANGED current
RememberAdvanced(p) == Remember(p)

Commit(a) ==
    /\ a.pc = "commit" /\ MuFree
    /\ IF StillCurrent(a.epoch) /\ Started(a)
       THEN /\ epoch' = epoch + 1 /\ RememberAdvanced(a.next)
            /\ Moves(a, [a EXCEPT !.pc = "confirm"])
            /\ slow' = (slow \/ \E c \in 1..Controllers : request[c].pc \in {"stop", "clear"})
       ELSE Moves(a, [a EXCEPT !.pc = "abandon"]) /\ UNCHANGED <<epoch, lastPlay, current, slow>>
    /\ UNCHANGED <<slotVars, plexLimit, autoAdvance, intents, request, hooks, minted, asked, ended>>

Confirm(a) ==
    /\ a.pc = "confirm"
    /\ IF Started(a) THEN StandsDown(a) /\ UNCHANGED <<lastPlay, current>>
       ELSE ForgetIf(a.next) /\ Moves(a, [a EXCEPT !.pc = "abandon"])
    /\ UNCHANGED <<slotVars, plexLimit, autoAdvance, epoch, intents, request, hooks, minted, asked, ended, slow>>

Abandon(a) ==
    /\ a.pc = "abandon"
    /\ StopIfSession(PlexSession(a.next).ref, a.gen)
    /\ StandsDown(a)
    /\ UNCHANGED <<plexLimit, plexState, request, hooks, minted, asked, ended, slow>>

Advances(a) == Resolve(a) \/ Settle(a) \/ StartIfIdle(a) \/ Commit(a) \/ Confirm(a) \/ Abandon(a)

PlexNext ==
    \/ \E c \in 1..Controllers : Handler(c) \/ Continues(c) \/ Fails(c)
    \/ Ends \/ OtherTakes
    \/ BeginHook \/ \E h \in hooks : EndHook(h)
    \/ \E a \in advances : Advances(a)

(* Handlers, hooks and advances run on; nobody has to ask for anything.    *)
PlexFairness ==
    /\ \A c \in 1..Controllers : WF_plexVars(Continues(c))
    /\ WF_plexVars(BeginHook \/ \E h \in hooks : EndHook(h))
    /\ WF_plexVars(\E a \in advances : Advances(a))

PlexSpec == PlexInit /\ [][PlexNext]_plexVars /\ PlexFairness

-----------------------------------------------------------------------------
PlexTypeOK ==
    /\ current = lastPlay.id /\ intents = Cardinality({c \in 1..Controllers :
          request[c].pc \in {"lookup", "remember", "pause", "finish"}})
    /\ \A a \in advances : a.next.id <= minted /\ a.epoch <= epoch
    /\ Cardinality({a \in advances : a.pc = "confirm"}) <= 1

(* An advance that a command overtook leaves nothing behind: the session it*)
(* started meanwhile has ended when it is through.                         *)
AdvanceLeavesNothing ==
    \A a \in advances : a.late /\ (\A b \in advances' : b.from # a.from)
        => ~Owned("plex")' \/ owner'.req.id # a.next.id

(* With one command at a time, the session of ours that plays when all is  *)
(* quiet is the one that is remembered: seeks, skips and the next advance  *)
(* go on from it, whatever hook of an earlier session came late.           *)
PlexQuiet ==
    /\ told = {} /\ hooks = {} /\ advances = {}
    /\ \A c \in 1..Controllers : request[c].pc = "none"

LastPlayIsPlaying ==
    PlexQuiet /\ ~plexLimit.together /\ ~slow /\ Owned("plex") => lastPlay = owner.req

(* When the item that is remembered plays to its end, the next one of the  *)
(* queue follows, unless somebody asks for something else first.           *)
Asking == \E c \in 1..Controllers : request[c].pc # "none"

QueueGoesOn ==
    \A i \in 1..(PlexItems - 1) :
        (/\ \E o \in told : o.why = "eof" /\ o.of.by = "plex" /\ o.of.req = lastPlay /\ lastPlay.item = i
         /\ Idle /\ autoAdvance /\ ~Asking /\ ~plexLimit.faults)
        ~> (Asking \/ ~autoAdvance \/ (Owned("plex") /\ owner.req.item = i + 1))
=============================================================================
