# Specifications of MiSTer_GroovyRelay

TLA+ models of the Go bridge that casts media to a MiSTer FPGA, the TLC runs
that check them and the TLAPS proofs about them.  `PROJECT.json` lists the
components, runs, mutants, findings, hazards and theorems and says which source
lines each definition translates.  Paths below are under `src/internal/`.

    tlc -workers 2 -config Wire.cfg MCWire.tla     a run
    tlapm StreamQueueProofs.tla                    the proofs of a module

1. [The system](#1-the-system)
2. [The modules](#2-the-modules)
3. [The runs](#3-the-runs)
4. [What the runs found](#4-what-the-runs-found)
5. [The proofs](#5-the-proofs)
6. [Not modelled](#6-not-modelled)
7. [Plan](#7-plan)

## 1. The system

    adapters --> core.Manager --> dataplane.Plane --> groovynet.Sender --UDP--> MiSTer
                     ^                 ^      ^------- groovynet.Drainer <-ACK----'
       chassis, uiserver, calibration  '-- ffmpeg (child process, two pipes)

| Component | State | Operations | Hard behaviour | What makes it correct |
|---|---|---|---|---|
| `core.Manager` (session manager) | the active session (request and generation), the current plane, its CancelFunc, the FSM, the OSD, a copy of the bridge settings | start, play, pause, seek, stop, each unguarded or guarded by "idle", AdapterRef, or AdapterRef and generation; plane exit; settings | any adapter goroutine calls at any time; the lock is given up while probing (10 s) and while a cancelled plane is awaited; plane exits come late | one owner at a time, in generation order; the loser is told once; the FSM agrees with the session; nothing streams unowned |
| `dataplane.Plane` (field pump) | videoCh, audioCh, frame pool, prebuffer, pairing debt, delay ring | prebuffer, tick, hold, end, cancel | two pipes of one muxer, blocking queues, stalls of either stream | picture and sound stay paired; the pump cannot jam |
| `dataplane.Plane` (field transport) | per polarity the last field, counters, echo state | send a full or a delta field, hold, handle an ACK, flip the field order | lost fields, lost ACKs, torn payloads | the receiver's buffers and the history agree, or the damage is bounded |
| `groovynet`, `groovy` | socket, last send, drainer | probe, INIT handshake with retries, header and payload, ACK draining, keepalive, CLOSE | lost and late datagrams on a socket that all sessions share | an ACK is matched with its own request; the receiver keeps the session |
| `groovy/nlc` | lines of residuals, both sides' reconstructions | encode, pack, unpack, decode | two sides that must compute the same | no sample further from its source than `near` |
| `streams` | the active queue, attempts, item health | start, hand over, move, replay, stop, drop; failover | users, OnStop goroutines and slow starts cross | what plays is what the queue names; what was stopped stays stopped |
| `hlsbuffer` | segment files, local playlist | warm, refresh, close | failing fetches and writes, limits, a closing reader | the playlist names what is on disk, in order |
| `liveaudio` (spotify, airplay) | session goroutine, helper process, relay | helper events, pictures, restart, stop | a child process that dies, a sender that pauses, a full relay | the receiver agrees with the manager; nothing waits for ever |
| `plex`, `jellyfin`, `dlna` | what they cast, pending advances, reporters, HLS caches, subscribers | remote-control commands, auto-advance, progress reports, events | commands race each other, OnStop hooks, starts that take seconds | they drive only their own session; the queue goes on; servers and subscribers learn of it |
| `torrent` | BitTorrent client, torrents with reference counts, caches | start, cleanup, prune, replace the client | sessions that share a torrent, settings that replace the client | nothing is removed while used, nothing is kept when unused |
| `auxadapter` | active input, one-time tokens | start with rollback, stop, settings | OnStop next to a start | tokens live as long as their session |
| `calibration.Controller` | idle/active/ended, draft, the owned session, idle timer | start, preview, save, cancel, expire, onStop | its mutex is never held across a manager call | no pattern without a calibration and no calibration without its pattern |
| `uiserver` savers, chassis handlers | the configuration in memory and in config.toml | save fields, tone, voicings; apply live or drop the cast | file, memory, Manager and plane change one after the other; several clients | the four agree between saves |
| `url`, `localfiles`, `companion`, `playback`, `osd`, `eventlog`, `artworkcache`, `sourcefetch`, `ffmpeg`, `config`, `misterctl`, `extbin`, `cmd` and the pages of `chassis` | see PROJECT.json | | child processes, cache limits, slow subscribers | |

Interactions.  An adapter calls the Manager synchronously; the Manager probes
the source, cancels and awaits the previous plane, builds a Plane and runs it in
a goroutine, whose end calls `handlePlaneExit`.  OnStop hooks run in goroutines
of their own (`notifySessionStop`), so an adapter hears of its end at any later
time.  Plex, Jellyfin's commands, the URL companion, local files, torrents, AUX
and `DropActiveCast` use the unguarded operations; DLNA guards by AdapterRef;
streams, the playback providers, auto-advance and calibration guard by
AdapterRef and generation, and start only when the bridge is idle.

## 2. The modules

The core.

**SessionManager** (`core/manager.go`, `core/state.go`).  An action is a stretch
of code between taking and giving up `m.mu`: `BeginStart`/`BeginReplay` up to the
probe, `Commit` after it, `Wake` after the wait for `Done`, `Pause` and `Stop`
(which start at once), `PlaneReturns` and `HandlePlaneExit` for the plane's
goroutine.  A caller's entry holds what its Go frame captured: guard, request,
plane awaited, session replaced.  `CONSTANT Operations` and `GuardModes` say what
the callers of an instance do, so that each property is stated for the callers
it needs.  Generations are counted up to `MaxGeneration`.  Errors for a bad
preset, RGB mode or aspect mode inside `startPlaneLocked` are left out: the
configuration and the request were validated before.

**SessionOwnership** is the abstract specification: the bridge is taken in
generation order, released, and the loser is told.  `SessionManager!OneOwnerInOrder`
states the refinement (owner = active, ended = removed subtitles, told = OnStop
counts).

**CoreSlot** is what the remote-controlled adapters see of the Manager: a slot
and the OnStop goroutines, each call the step at which it takes effect.

The wire.

**FieldDelta** (`dataplane/plane.go`, sendField to noteEchoAdvance).  `Tick` is a
tick of the pump with LZ4 and delta: the choice of payload (`Compress`), its fate
on the socket and on the way, the history afterwards.  The MiSTer's side
(`Receive`) is external: a delta is right only on top of the right field.  A torn
payload makes both of its buffers unknown; when a receiver that is still counting
bytes eats the next BLIT, that field is "lost".  Field contents are reduced to
"the buffer is what the Plane remembers".

**Handshake** (`groovynet`, the parts of `plane.go` that call it).  The core probe
chooses the codec, INIT is retried, SWITCHRES and fields follow, a drainer reads
ACKs and a keepalive polls, session after session over one socket.  The receiver is
the one of `fakemister`.  Datagrams stay in order and may be lost; a clock counts
half seconds, the keepalive's poll.

**NearLossless**, **NlcPacking** (`groovy/nlc`).  One step is one pixel in all three
planes: colour transform, prediction, quantisation, with the arithmetic of both
sides; a line is packed and unpacked bit by bit (`RoundTrip`).

**Calibration** (`calibration/controller.go`).  Each operation is cut where the
mutex is given up; the manager is a slot `playing` with guarded start and stop
and OnStop goroutines; timers that fired cannot be stopped.

Media.

**AvPump** (`plane.go` Run, `videopipe.go`, `audiopipe.go`, `framepool.go`,
`avpair.go`, `audioring.go`).  Frame k and chunk k are the number k.  ffmpeg writes
to one pipe at a time and blocks; `Lead` bounds how far its streams are apart.

**HlsBuffer** (`hlsbuffer`).  One session: OpenSession warms the directory, a
goroutine refreshes it, Close ends both.  A segment is its sequence number; all
segments of a refresh are fetched in one step, because none is stored before all
have arrived, and then written file by file; at last the playlist is replaced.  A fetch,
a write of a file and the replacement of the playlist may each fail: the last leaves the
old playlist beside a cache that has gone on.

**LiveAudio** (`liveaudio`).  The session goroutine and its messages, the
supervisor of the helper process, the relay between the helper's pipe and the
Plane, and the receiver's Stop.

Adapters.

**StreamQueue** (`streams/playback.go` and its neighbours).  `a.mu` is held for one
action at most; `playbackMu`, held across manager calls, is `lock`.  Queues are
objects, because a guarded move works on the active one and keeps a clone: `active`
is an index into `queues`.  An attempt (`client` says who asks what) goes through
prepare, buffer, start and commit with everything else in between; OnStop
goroutines continue, fail over or clear.

**PlexCompanion** (`plex`), **JellyfinCast** (`jellyfin`), **DlnaRenderer**,
**DlnaEvents** (`dlna`).  The first three extend CoreSlot and say what their
controllers' requests, OnStop hooks and advances do to what they remember; Jellyfin
has its reporters, whose reports may fail, DLNA the owner of each HLS cache on disk.  DlnaEvents is the
renderer's GENA side: subscriptions, one delivery queue each, workers.

**TorrentLease** (`torrent`) and **AuxInput** (`auxadapter`): what a session holds and
who gives it back, each operation cut where the mutex is given up.

**LiveSettings** (`uiserver/bridge_saver.go`, `chassis/audiodsp_routes.go`, the
setters of `core/manager.go`).  One field per way of being applied: tone (whole
struct replaced, previewed), slots (a slice shared between copies: the model keeps
the array's identity and its contents apart), volume (hot), codec
(drop the cast), modeline (drop, with subscribers), port (restart).  A save is
`saving`, `written`, `published`, `dropped`; requests of other clients, casts and
mutes come between; `Restart` kills the process anywhere.

Instances.  **MCSessionManager**, **MCStreamQueue** and **MCLiveSettings** define
callers, users and tabs.  **MCWire**, **MCMedia**, **MCRemote** and **MCServices**
each put components of one lane side by side: a behaviour is about one of them,
while the others rest in a fixed state.  Nothing is shared between these parts but
CoreSlot, which each of the remote adapters has to itself.

Proofs are in **SessionManagerProofs**, **WireProofs** (fields, sessions, codec), **CalibrationProofs**,
**MediaProofs** (the pump, live audio, the HLS buffer, and MCMedia's composition of them), **LiveSettingsProofs**, **StreamQueueProofs**,
**RemoteProofs** (Plex, Jellyfin and DLNA, and MCRemote's composition of them) and
**ServicesProofs** (line inputs, the renderer's events and torrents).

## 3. The runs

| Run | Shows | Bounds |
|---|---|---|
| SessionExclusive | `OneOwnerInOrder`: with full keys, SessionOwnership is implemented; `IdleIffNoSession` | 2 callers (a driver and a starter), 2 refs, 3 planes, 3 generations |
| SessionUnguarded | `TypeOK`, `CurrentPlaneStoppable` with no guards at all | same, 2 generations |
| SessionNoReplay | `NoOrphanPlane`, `CallsReturn` without play and seek | 2 callers, 2 planes, 2 generations |
| Wire | `BoundedDamage`, `OnlyLossMisleads`, `EchoGapHeals` of the fields; `HandshakeIsGenuine`, `ReceiverKeepsUp` of the sessions; `DeadPatternIsNoticed`, `PatternShowsDraft`, `ActivityIsHonoured` of the pattern | 6 fields, a full one every 3, 2 ACKs under way; sessions with lz4, nlc, raw on either core, 3 attempts, 3 losses, 2 replies under way; 2 tabs, 2 geometries, 2 starts, 2 touches |
| Settings | `SavedOnceAndForAll`, `PlaneMatchesSaved`, `StoredIsKept` | a tone tab and a drawer tab, 2 stores, codec and port in the drawer |
| StreamQueue | `LiveIsControlled`, `AttemptsEnd`, `ReplayKeepsQueue`, `NothingComesBack` | 2 goroutines; one user with 3 requests out of handoff, move, replay, drop, or two with 2 out of start, handoff, replay, stop, drop; 2 items, 2 failures, 1 end |
| Media | `LimitsKept` of all three; `DirectoryIsTrue`, `PlaysForward` of the HLS buffer; `ReceiverInOrder`, `StaleChangesNothing` of live audio; `AudioNeverLeads`, `PairedByIndex`, `PumpNeverJams` of the pump; `CallsReturn` | 5 segments, a live edge of 3, 3 cached, 4 bytes, 2 failing writes of segments or of the playlist; three senders of 4, 2 and 2 events; 4 frames, queues of 2, delay 1 |
| Remote | `TypeOK`, `RememberedIsPlaying`, `CachesInOrder`, `StaleLeavesNothing`, `WhatFollowsComes` | 2 controllers, 2 items (Plex); 6 sessions (Jellyfin); 2 to 5 commands and 1 or 2 ends as `MCRemote` pairs them; up to 3 lost reports a session in one instance |
| Services | `LeasesInOrder`, `AuxInOrder`, `EventsInOrder`, `PictureSurvives`, `SubscribersLearn` | 3 torrent starts (2 where settings change next to them), 2 hashes; 3 or 4 changes, 1 or 2 subscribers; 4 AUX starts, 2 inputs; fields of 3 x 2 pixels, near 0, 1 and 3, both packings |

Three more are violation runs (section 4).

Why the bounds suffice.  A race in the session manager needs two callers and the
plane between them; a third plane lets a replaced one linger while two more start,
and a third generation gives every key a stale, a current and a future version.
Six fields cover a forced-full cycle of each polarity and part of the next after a
loss, and two ACKs under way make gaps of every kind.  Three handshakes give every
datagram of a session a successor that could take it; three losses can take each
attempt of one handshake.  The pump's queues are scaled from 24/48 with pool =
video + 2 kept; four frames fill them and drain them again.  Its `Lead` is
`AudioChCap` + 1: with a larger one the pump would jam, since a tick takes audio only
when video advances; the comment at `plane.go:386` rests on ffmpeg keeping well below
that.  Two starts and two tabs give Calibration a stale and a live session.  In
StreamQueue the queue's second item is the last, so failing over, wrapping around and
running out all happen; a request can be overtaken by one request and one OnStop.
Five segments roll the HLS window past both limits.  In Remote, two commands and one
end are what an advance can be overtaken by; sequences of more commands are checked
without overlapping.  Where an instance has its operations one at a time
(`together`), section 4 says what overlapping ones do.

Fairness.  SessionManager: a probe returns (it runs under a timeout), a goroutine
whose channel is closed gets the lock, and a cancelled `Run` returns, because all
its waits select on the context; nothing makes an uncancelled plane end.  AvPump:
ffmpeg, readers and ticks go on; the prebuffer's five-second timeout is not relied
on, so the pump is shown not to need it.  Calibration: calls return, timers fire,
goroutines run; nobody has to call.  HlsBuffer: the loop's and OpenSession's next
step is taken (HTTP calls have timeouts), the directory is removed when Close says
so, and a loop that again and again stands at its select sees the cancelled context
(strong fairness: Go's select picks among ready cases at random).  LiveAudio: the
session goroutine handles and posts, the relay's reader reads, the supervisor and
Stop go on; no sender has to send.  Plex and Jellyfin: handlers, hooks, starts,
advances and each reporter go on, since every call they make has a timeout; that a
report arrives is not assumed: of each session the first, a later one and the last may fail.
DlnaEvents: the delivery goroutine of each subscriber goes on.  FieldDelta, Handshake,
LiveSettings, StreamQueue, DlnaRenderer, TorrentLease, AuxInput and NearLossless state
safety only.

Deadlock checking is off where behaviours end by their bounds or by themselves (a
pump's session is over, a field decoded, no start or command left).

Each passing property is paired with a mutant in PROJECT.json: an operator of the
module that spells the code with a plausible slip ("slip" in the comments), under
which TLC finds the property violated.

## 4. What the runs found

| Run | Property | What the code does |
|---|---|---|
| SessionStopSeek | `IdleIsSilent` | a stop clears `cancelFn` and waits for the plane it cancelled; a seek finds nothing to cancel and publishes its plane at once; the stop wakes, finds its guard matching and clears the session, and the seek's plane streams on while idle |
| SessionOverlap | `OnePlaneStreams` | a start clears `cancelFn` and waits for the plane it cancelled; another start finds nothing to cancel and publishes its plane beside the one that has not returned yet |
| CalibrationAbandoned | `AbandonedPatternEnds` | Cancel or Save during another tab's Start leaves the pattern on, with no timer |

The passing runs say where the same code is right: full keys instead of none, no
replay next to a stop, one tab for the tone.  The limits of a passing run are
therefore part of its result.  Other places where the code leaves what its comments
say, or what a reader would expect, were met while modelling; they are noted here and
kept out of the passing instances.  "(TLC)" marks those a trace of TLC showed with
the limit lifted; the others were read in the source.

Session manager.
* `core/manager.go:1747`: an unguarded seek re-installs a session that ended while
  it probed, and the FSM stays idle (`IdleIffNoSession` and its theorem are for
  guarded callers).
* `core/manager.go:354`: a cancelled `Run` may return nil or a prebuffer error,
  whose exit ends the session a pause meant to keep.
* `core/manager.go:1654`: an unguarded stop clears a session started while it
  waited, with the OnStop of the one before.
* (TLC) A second replay of a session finds its CancelFunc gone and starts beside the
  first; a stop that waits while another caller replays leaves no active session with
  a plane that runs, and later idle starts take the bridge out of order.  These are
  the reasons for the hypotheses of `ManagerKeepsOwnership` and `NothingIsLeftBehind`.
* `core/manager.go:1479`: after a preview a new cast plays the saved tone while the
  previewed one is reported.

Wire and media.
* `dataplane/audioring.go:51`: the ring counts chunks, not field periods: those in
  it when a chunk is missing leave that much late (`AudioNeverLeads` bounds the
  other side only).
* `dataplane/plane.go:1280`: Run's select may serve ffmpeg's exit before frames that
  are still queued: up to `videoChCap` frames at the end of a file are not shown.
* A SWITCHRES whose send fails returns without CLOSE.  The stale ACK that a comment
  of `sender.go` fears cannot occur on a network that keeps order, because the probe
  goes before INIT: without the flush the model behaves the same.
* `groovy/nlc`: an escape code of Rice can never occur (a quotient is at most the tile
  length 16, below the limit 20), and ErrOverflow cannot be reached for sane widths.
* `hlsbuffer`: after an outage the window may have a hole, and ffmpeg's numbering
  drifts; a source whose sequence starts over lower is ignored from then on.
* `hlsbuffer/session.go:57-74`: OpenSession lists every segment it fetched, while a
  refresh first prunes what the cache has evicted.  Start segments that together weigh
  more than `max_cache_bytes` are named by the first playlist and already gone; the
  settings bound the two separately.  The proof needed the hypothesis (`WarmFits`).
  An evicted file that cannot be removed (`cache.go:94`) ends the eviction before the
  limits hold again; the model's removals succeed.
* `liveaudio`: a picture posted at the moment of Close may stay on disk; an event after
  the helper's exit may start a session with no helper; a play queued behind
  coreStopped can take the CRT back until the helper's restart ends it; a push cut off
  by WaitDelay may write old sound into a later session.

Calibration and settings.
* `calibration/controller.go:254`: a session that ends before Start is back leaves
  an ended calibration with a zero draft, which Save writes.
* (TLC) `calibration/controller.go:220-237`: a Cancel of another tab while Save
  writes, and the write then fails, leave "ended" with a blank draft; the next Save
  uses the default geometry, although lines 205-206 keep the draft for it.
* `uiserver/bridge_saver.go:186`: storing over an existing voicing writes into the
  shared array before validation and write can fail, against lines 63-65; memory and
  file then differ (`DiskIsMemory` excepts a voicing stored over another).
* (TLC) `chassis/audiodsp_routes.go:61`, `uiserver/bridge_saver.go:163`: a commit that
  read the Manager's parameters before the mutex drops a voicing another tab stored
  since (`OneToneTab`).  The comment at lines 167-168 speaks of the memory only.
* `chassis/audiodsp_routes.go:73`: putting the runtime right after a failed commit
  can overwrite another tab's commit in the Manager.
* `uiserver/bridge_saver.go:349`: the log level, saved together with a field that
  drops the cast, is not applied.

Streams.
* (TLC) With three goroutines: a Stop that finds its session gone
  (`restoreQueueIfIdle`) can bring back a queue that another user's StopActiveCast
  dropped meanwhile, and the attempt under way then starts a session he stopped.
  `NothingReturns` does not mix the two ways to stop; the run has two goroutines.
* (TLC) `streams/playback.go:1080`: a replay of a pasted link whose queue is gone is
  content with any queue: it starts whatever another user made active, its refused
  start may clear that queue, and the count of failures starts over (`AttemptsAreOver`
  leaves replays out).
* A failing start can clear the queue while an OnStop continuation's start is under
  way; StopQueueGuarded between the manager's start and the attempt's commit only
  forgets the queue; two overlapping handoffs that fail restore a queue that was
  superseded; a failing move next to StopActiveCast restores the clone; the
  continuation at the end of an item uses the unguarded start and can preempt a
  foreign cast.
* Catalogue: `streams/refresh.go:297, 314-321`: a refresh or settings save that read
  the store before an edit installs after it and brings back or wipes a user's
  provider; `streams/adapter.go:547-557`: after off and on the refresh loop is not
  started again; the preset store is built before the user store, so user presets are
  dropped at start-up (`preset_store.go:24-27, 287-294`).

Remote control.
* Plex: handleStop clears `lastPlay` after slow timeline pushes, also that of a play
  that began meanwhile; two overlapping playMedia can leave `lastPlay` at the replaced
  one; an advance captured between cancelPending and the clear that outruns the pushes
  plays on after the stop (TLC; `slow` in the model marks it); a restored pause is
  unguarded and may hit a foreign cast; seeks of the same key orphan the transcode, as
  a FIXME there says.
* Jellyfin: overlapping starts: a failing one rolls `currentRefKey` back over a later
  reservation, or an older one ends up playing under the newer key; PlayNext while an
  advance negotiates makes that one stand down for good; a reporter that hangs may be
  elided for a session that then never reports; a PlaybackStopped that is refused, or
  fails twice, is only logged and the reporter goes (`reporting.go:303`), so that the
  server shows the session on (`Unheard` excepts it); NextTrack whose start fails loses the
  popped entry; Seek goes by any active session and may preempt a foreign cast.
* DLNA: (TLC) `dlna/play.go:366`: two Plays that cross: the rollback of one blanks
  `currentRef` over the other's live session, whose Stop and Pause are then rejected
  and whose HLS cache SetAVTransportURI may remove; resuming sets PLAYING after an
  OnStop that came between; a start failing after Adapter.Stop leaves its cache until
  the next SetAVTransportURI; two crossing publishes may leave the older state as the
  last snapshot.

Services.
* Torrent: references count from registerSession on, so a start of the same hash
  between Add and register can lose its torrent to another's cleanup or its client to a
  restart (`LeasesHold` is stated where nothing overlaps); prune goes by an `active` set captured earlier; (TLC) ApplyConfig next to
  overlapping starts can leave a client with old settings, and two starts of one hash on
  two clients a torrent that goes on downloading.
* (TLC) `auxadapter/session.go:84-89`: StartAUX reads the settings twice; if the input
  changes in between to the one that plays and the start then fails, the adapter forgets
  the session that still plays.
* `chassis/server.go:454, 488`: an older snapshot may overwrite a fresh one until the
  next tick of 250 ms.

## 5. The proofs

For every value of the constants, under the named ASSUMEs and the hypotheses named
here only.  `tlapm` checks every leaf with Z3, Zenon and LS4.

| Module | Theorem | Property | Inductive invariant | Hypotheses |
|---|---|---|---|---|
| SessionManagerProofs | `TypeCorrect` | `TypeOK` | `TypeInv` | |
| | `AlwaysStoppable` | `CurrentPlaneStoppable` | itself, on `TypeInv` | |
| | `IdleLockstep` | `IdleIffNoSession` | `LockstepInv` | no unguarded operation |
| | `ManagerKeepsOwnership` | `OneOwnerInOrder` (refinement) | `RefinementInv` | `GuardedByKey`, `StopsStandAlone` |
| | `NothingIsLeftBehind` | `NoOrphanPlane` | `OrphanInv`, on `RefinementInv` | `GuardedByKey`, `NoReplays` |
| WireProofs | `DamageIsBounded` | `BoundedDamage` | `DamageInv` | |
| | `LossAloneMisleads` | `OnlyLossMisleads` | itself, on `Counters` | |
| | `GapsHeal` | `EchoGapHeals` | `EchoInv` | |
| | `GenuineHandshake` | `HandshakeIsGenuine` | `HsInv` | |
| | `NeverLeftBehind` | `ReceiverKeepsUp` | `HsInv` | |
| | `PictureIsNear` | `PictureSurvives` | `NlcInv` | `PackingIsLossless` |
| CalibrationProofs | `DeadPatternsAreNoticed` | `DeadPatternIsNoticed` | `NoticedInv` | |
| | `DraftIsShown` | `PatternShowsDraft` | `NoticedInv` | |
| | `ActivityHonoured` | `ActivityIsHonoured` (action) | `Tokens` | |
| MediaProofs | `PumpKeepsItsBounds` | `PumpShape` | `PumpInv` | |
| | `SoundNeverLeads` | `AudioNeverLeads` | `PumpInv` | |
| | `ChunksArePaired` | `PairedByIndex` (action) | `PumpInv` | |
| | `ReceiverStaysInOrder` | `ReceiverInOrder` | `AudioInv` | |
| | `StaleIsIgnored` | `StaleChangesNothing` (action) | `AudioInv` and `GraceInv` | |
| | `PlaylistMovesForward` | `PlaysForward` (action) | `HlsInv` | |
| | `DirectoryStaysTrue` | `DirectoryIsTrue` | `HlsInv` | `WarmFits` |
| | `NothingOutgrowsItsLimit` | `LimitsKept` | `MediaInv` | |
| LiveSettingsProofs | `FileIsMemory` | `DiskIsMemory` | `OneSaves`, `FileInv` | |
| | `PlaneFollows` | `PlaneMatchesSaved` | `OneSaves`, `PlaneInv` | |
| | `SavedIsSaved` | `SavedOnceAndForAll` | the above and `ToneInv` | `OneToneTab` |
| | `VoicingStays` | `StoredIsKept` (action) | the above and `SlotInv` | `OneToneTab` |
| StreamQueueProofs | `BuffersAreClosed` | `BuffersClose` | `BuffersHeld` | |
| | `AttemptsAreOver` | `AttemptsEnd` | and `Originals`, `TriesCounted` | nobody moves or replays the queue |
| | `NothingReturns` | `NothingComesBack` (action) | `TokensOnce`, `KeptOnce`, `StoppedIsOver` | nobody moves it, or drops while others stop |
| RemoteProofs | `RemoteTyped` | `TypeOK` | `RemoteInv` | |
| | `AdaptersKnowWhatPlays` | `RememberedIsPlaying` | `RemoteInv` | |
| | `CachesAreKept` | `CachesInOrder` | `RemoteInv` | |
| ServicesProofs | `TokensDieWithSessions` | `AuxInOrder` | `AuxShape`, `Kept` | `InputsAreNamed` |
| | `EventsTakeTurns` | `EventsInOrder` | `EventsInv` | `LimitsAreNumbers` |
| | `NobodyLosesHisLease` | `LeasesInOrder` | `LeaseInv` | `SettingsWait` |

Why the invariants are needed.

*Session manager.*  TypeOK is not inductive: `stops` and `unlinked` are indexed by
generations, which could be out of range.  `TypeInv` adds that every session
remembered anywhere (active, captured request, replaced session, guard) has a
generation that was handed out, except a start that still probes.  One lemma per
building block (`GiveUp`, `CancelAndAwait`, `StartPlane`, ...), then one per operation.
For IdleIffNoSession the strengthening says of every waiting or probing operation that
its guard, if it still matches, implies what its FSM event needs.

*The refinement.*  The mapping is owner = `active`, ended = `unlinked`, told = `stops`.
What makes each step a Take, a Release or a stutter is what a call that left the lock
relies on when it is back (`EntryKept`): its key is an owner's; a start that waits is
younger than the session it replaces; a replay replays its key's session; and while
that session owns the bridge nobody undoes the cancellation that a stop waits for.
The last one needs `StopsStandAlone`; section 4 says what happens without.
NoOrphanPlane then follows from how `cancelFn`, `plane` and the planes' own state
belong together (`HoldsItsPlane`, `WaitersFindSilence`).

*Fields.*  A wrong picture since a loss is a delta sent since the last full field,
which the sender counts: `astray[s] <= sinceFull[s]`.  For the echoes, `GapAhead`: while
a loss is neither repaired nor excused, some field after the last echo will never be
echoed, so the ACK after it shows a gap.

*Sessions on the wire.*  The sender's socket is never empty by construction, so `HsInv` says
what may be in it and in which order at each stage of a start.  The version probe and
its answer are the last things under way (`ProbeLast`), hence whoever has read the
answer has read all that is older.  From INIT to ACK everything under way is this
session's (`Asking`), which is why the first ACK is its own.  While nothing is lost the
receiver has the session, its idle time is covered by the sender's age or by what is
under way (`Holds`), a header is followed by its payload (`Paired`), and a packet that only
one codec understands goes only to it (`Understood`).  The one assumption on constants
is `KeepaliveIdle <= IdleLimit`: the bridge's keepalive is shorter than the core's patience.

*Calibration.*  A pattern counts as noticed from the moment the manager has started
it, before Start knows of it, and an active calibration is without a session only while
a tab saves it.  The timer: the armed token is the latest activity's and has not fired.

*Pump.*  While Run runs, what it has taken of a stream is what ffmpeg made less what
waits and what is in hand, and what waits is consecutive (`InSequence`); hence shown =
taken video, and shown = taken audio + debt.  `RingOK` keeps the ring's chunks in
order, with distance, below the frame shown.

*Live audio.*  Refs are counted, so a session that was told to be over, or has that in
the channel, is not the one that plays (`SessionInv`).  A picture's number is in one
place at a time: with its fetch, with the goroutine that posts it, in one message, or in
use (`PictureInv`); so releasing one never removes another's file, and what a full or
closed session will not read is removed by whoever could not post it.  For pauses,
`GraceInv`: a grace time that carries the current number is the current pause's.

*HLS buffer.*  What is on disk and what the playlist names are tied by what is *held*: the
segments known from earlier refreshes and those this one has stored.  A refresh brings
only what is newer than all of them (`TodoKept`); hence what is held is cached in order
and evicted in order, and whatever is newer than something cached is cached
(`OrderKept`), so pruning leaves a window that ends at the source's newest.  `NoHoles`
says that only the source's own window can leave a hole, `ListedKept` that the playlist
may stay behind what is known, when it could not be written, but never runs ahead of it,
so that the next one that is written moves forward, and `WarmKept` that what
OpenSession fetched is still there when it lists it, for which it must fit into the cache
(`WarmFits`).  The sum of bytes is the number of bytes of the cached segments, as a set
(`TotalOf`); the running sum, which the code adds to and subtracts from entry by entry,
stays equal to it (`LeftIs`, `SumIs`).  The sorted playlist is chosen (`UpTo`); that one exists is the lemma
`Sortable`, by induction over a set of numbers (`Counting`).
`HlsAssumption` is what `config.go:469-481` lets through; `AudioAssumption` says that
the channel and the relay have a size.  `MediaInv` puts the three parts together, one
acting while the others rest.

*Settings.*  Only the holder of the saver's mutex is inside a save (`OneSaves`), so
each stage can say what file, memory, manager and plane look like for its holder: the
plane plays what is saved, or a save that will drop or adjust it is under way (`Lags`).

*Streams.*  A buffer belongs to the owner, to a start or to an OnStop (`BuffersHeld`).
Without moves a queue's index is its identity; tokens grow and each is one attempt's
(`TokensOnce`); a queue that is neither active nor kept by a call never returns (`Lost`,
`KeptOnce`); what a user stopped has played or is of a lost queue (`StoppedIsOver`).
What clients ask for never changes in a behaviour, so the hypotheses of these theorems
stand next to `Spec`.

*Codec.*  Both sides have the same line above and the decoder repeats what the encoder
reconstructed (`InStep`); quantisation moves a residual by at most `near`, clamping moves
nothing away from the sample.  `PackingIsLossless` is the hypothesis that a line of
residuals is read as it was written.  It takes induction over the bits of a
line and is not proved; the Services run puts NlcPacking's bit-level `RoundTrip` in its
place and so checks it for every line that the run's fields reach.

*Line inputs.*  `Known`: the adapter's session plays, or its OnStop is still to come; it
is what makes forgetting safe.  While a start asks the manager it is the adapter's
session and no OnStop can be about it, and what it was to replace is `Known` or said that
it is over (`StartKept`); a token belongs to the adapter's session, to the manager's, to
one with an OnStop, or to the one a start replaces (`TokensKept`).  `InputsAreNamed`: no
input has the ref of another adapter's cast.

*Events.*  Each subscriber has one line of numbers (`LineKept`): those heard, the one
under way, those that wait and the next; a queue is marked running exactly while one
goroutine serves it, and a subscription that is gone has no queue.  That each is in its
turn is arithmetic modulo the largest number (`Turns`).  `LimitsAreNumbers`: a queue
holds one delivery at least.

*Torrents.*  A use counts the sessions of its hash (`Counted`), and while a start or a
session uses the client, it stays (`OneClient`).  `Accounted` names for every torrent,
byte, directory and client whoever will let go of it: a use, a start that can still
fail, or a cleanup that has decided.  Where nothing overlaps, what cleanups decided is
none of a session's (`Alone`).  `SettingsWait`: where starts overlap cleanups, no setting
is applied that needs a new client; section 4 says what happens otherwise.

*Remote adapters.*  MCRemote lets one adapter act while the others are off, and `RemoteInv`
says so: one of the three invariants holds, and the rest is as `PlexOff`, `JfOff`, `DlnaOff`
left it; a hook is only ever that adapter's (`PlexTells`, `JfTellsOurs`, `DlnaTells`).  Each
of `PlexInv`, `JfInv` and `DlnaInv` has a part that holds whatever overlaps and one for
commands that come one at a time, with the guard of the property itself.
Plex: `intents` counts the requests under way (`IntentsKept`) and at most one advance
confirms (`AdvancesKept`); one at a time, a TranscodeSessionID belongs to one session, which
ends once (`IdsKept`), and the play in the slot is remembered, about to be, or about to be
committed or stopped by the advance that started it (`PlayKept`).
Jellyfin: `pending` counts the starts (`StartsCounted`) and a session ends once
(`SessionsKept`); one at a time, our session is that of `currentRefKey`, or a follower has
yet to confirm or stop it, or a start replaces it (`KeyKept`), and an entry is in the queue,
with one follower, or with the session that plays it (`EntriesKept`).
DLNA: what is on disk is loaded or being removed (`DiskKept`), and what was started under
the current ref plays from the loaded cache (`LoadedKept`);
apart, a session of ours is the one of
`currentRef`, or the one call in progress is about to say so (`OursIsCurrent`, `RefKept`,
`StateKept`).  The proof showed where "one at a time" has to be meant: with autoplay,
SetAVTransportURI is a Play, and two of them may cross as any two Plays do; `PlaysApart`
says so.  The constants are assumed to be numbers and non-empty sets of limits
(`PlexAssumption`, `JfAssumption`, `DlnaAssumption`).

Only model-checked.
* Liveness (`CallsReturn`, `PumpNeverJams`, `WhatFollowsComes`, `SubscribersLearn`) and
  with it ENABLED: beyond the prover.
* What the recursive functions of NlcPacking compute for every line: not proved.
  No module uses RECURSIVE.  The library's induction takes an operator as its
  parameter, which no backend can instantiate; where a set of numbers is enough
  (`Counting`), induction is proved and used.
* `LiveIsControlled` and `ReplayKeepsQueue` of the streams, whose moves keep clones of
  queues: they need an invariant on which clone is whose, not written yet.
* `StaleLeavesNothing` of the remote adapters, for which the invariants would have to
  follow a cancelled advance from its last start to its end: not proved.

## 6. Not modelled

* Wire layouts, DSP, drawing, HTML, form parsing, TOML: pure conversions.
* RAW and NLC fields in FieldDelta (no delta history; duplicates instead of holds).
* The 2^32 wrap of the frame counter and the 2^64 wrap of generations.
* FrameSource sessions (calibration's pictures) inside the pump: no pipes, no audio.
* Field clock and parity arithmetic, audio DSP and meters: floating point on measured
  time, which nothing that is modelled reads.
* Seeking while paused leaves the FSM paused with a running plane, as the code's
  comment says; the model does so too and states nothing about it.
* Closed audio during the prebuffer makes it spin until its target or deadline,
  which costs time and changes nothing.
* Of the streams adapter: refresh, user providers and presets.  Of Plex: timelines,
  discovery and linking.  Of Jellyfin: the web socket's reconnects.  Of DLNA: SSDP and
  rendering control.  Of live audio: the relay's pacing and a start after Stop.
* Of the settings: the adapters' own sections, the log level, tool paths and the
  first-run marker.
* Everything section 1 lists without a module; PROJECT.json gives the reason.

## 7. Plan

1. Proofs: `ReplayKeepsQueue` and `LiveIsControlled` with an invariant on clones;
   `StaleLeavesNothing` with one on cancelled advances.
2. Models: the catalogue of the streams adapter (refresh next to edits) and its
   stream cache; Plex timelines; the chassis' events to slow browsers; the adapters'
   settings next to the bridge's.
