----------------------------- MODULE TorrentLease -----------------------------
(***************************************************************************)
(* internal/adapters/torrent: who still needs a torrent, its data on disk  *)
(* and the BitTorrent client.  A start takes the client, adds the torrent, *)
(* waits for its metadata and only then is a session that counts; what the *)
(* end of a session decides under the mutex is carried out after it, and   *)
(* the cache is pruned later still.                                        *)
(*                                                                         *)
(* A torrent in a client is a pair of the client's number and the info     *)
(* hash.  A session is the number of its start.                            *)
(***************************************************************************)
EXTENDS Naturals, FiniteSets

CONSTANTS
    Hashes,         \* info hashes
    TorrentLimits   \* the instances: how many starts and settings, what overlaps

VARIABLES
    lim,       \* the instance
    cfg,       \* a.cfg: enabled, KeepCompleted, and a restart setting as a number
    client,    \* a.client, or 0
    open,      \* clients that are open: number and the setting they run with
    held,      \* the torrents in open clients
    storage,   \* hashes with data on disk
    dirs,      \* session directories
    sessions,  \* a.sessions: start, hash, client, KeepData
    uses,      \* a.torrents: hash, client, refs, keepData
    pending,   \* a.restartClientPending
    starts,    \* per start: where it is and what it holds
    casts,     \* what the session manager plays: a session, Foreign or 0
    onStops,   \* sessions whose OnStop has not run yet
    jobs,      \* what cleanups have decided and not carried out yet
    prunes,    \* prune goroutines: the storage that was active
    kept       \* hashes whose data somebody wanted kept

torrentVars == <<lim, cfg, client, open, held, storage, dirs, sessions, uses, pending,
                 starts, casts, onStops, jobs, prunes, kept>>

Foreign == lim.starts + 1   \* another adapter's cast
Unborn  == [at |-> "unborn"]
Ids     == 1..lim.starts

TorrentInit ==
    /\ lim \in TorrentLimits
    /\ cfg = [enabled |-> TRUE, keep |-> lim.keep, port |-> 1]
    /\ client = 0 /\ open = {} /\ held = {} /\ storage = {} /\ dirs = {}
    /\ sessions = {} /\ uses = {} /\ pending = FALSE
    /\ starts = [s \in Ids |-> Unborn]
    /\ casts = 0 /\ onStops = {} /\ jobs = {} /\ prunes = {} /\ kept = {}

At(s, where)   == starts[s].at = where
Goes(s, where) == starts' = [starts EXCEPT ![s] = where]
To(s, where)   == Goes(s, [starts[s] EXCEPT !.at = where])
Starting(s)    == starts[s].at \notin {"unborn", "over"}
Busy           == \E s \in Ids : Starting(s)
CleaningUp     == onStops # {} \/ jobs # {} \/ prunes # {}
Clients        == {c.id : c \in open}

Registered == {r.start : r \in sessions}
Session(s) == CHOOSE r \in sessions : r.start = s
Use(h)     == {u \in uses : u.hash = h}
InUse(h)   == \E u \in Use(h) : u.refs > 0

-----------------------------------------------------------------------------
(* Starting.                                                               *)

(* snapshotForStart.  When nothing is to overlap, a start waits for the    *)
(* others and for all cleanups.                                            *)
BeginStart(s) ==
    /\ At(s, "unborn") /\ \A r \in Ids : r < s => ~At(r, "unborn")
    /\ ~lim.together => ~Busy /\ ~CleaningUp
    /\ cfg.enabled
    /\ \E h \in Hashes :
          /\ Goes(s, [at |-> "client", hash |-> h, cfg |-> cfg, client |-> 0])
          /\ kept' = IF cfg.keep THEN kept \cup {h} ELSE kept
    /\ UNCHANGED <<lim, cfg, client, open, held, storage, dirs, sessions, uses, pending, casts, onStops, jobs, prunes>>

(* ensureClient: the client there is, or a new one, made without the lock. *)
TakeClient(s) ==
    /\ At(s, "client")
    /\ IF client # 0
       THEN Goes(s, [starts[s] EXCEPT !.at = "add", !.client = client]) /\ UNCHANGED open
       ELSE /\ Goes(s, [starts[s] EXCEPT !.at = "made", !.client = s])
            /\ open' = open \cup {[id |-> s, port |-> starts[s].cfg.port]}
    /\ UNCHANGED <<lim, cfg, client, held, storage, dirs, sessions, uses, pending, casts, onStops, jobs, prunes, kept>>

(* Another start may have been faster.                                     *)
CloseClient(s) == open' = {c \in open : c.id # starts[s].client}

InstallClient(s) ==
    /\ At(s, "made")
    /\ IF client # 0
       THEN /\ CloseClient(s) /\ UNCHANGED client
            /\ Goes(s, [starts[s] EXCEPT !.at = "add", !.client = client])
       ELSE client' = starts[s].client /\ To(s, "add") /\ UNCHANGED open
    /\ UNCHANGED <<lim, cfg, held, storage, dirs, sessions, uses, pending, casts, onStops, jobs, prunes, kept>>

(* AddMagnet and AddMetaInfo; a closed client takes none. *)
Add(s) ==
    /\ At(s, "add")
    /\ \/ /\ starts[s].client \in Clients
          /\ held' = held \cup {<<starts[s].client, starts[s].hash>>}
          /\ storage' = storage \cup {starts[s].hash}
          /\ To(s, "info")
       \/ To(s, "over") /\ UNCHANGED <<held, storage>>
    /\ UNCHANGED <<lim, cfg, client, open, dirs, sessions, uses, pending, casts, onStops, jobs, prunes, kept>>

(* startTorrentHandle fails before there is a session: cleanupFailedStart  *)
(* asks who uses the hash, and then drops.                                 *)
FailEarly(s) ==
    /\ At(s, "info")
    /\ To(s, IF InUse(starts[s].hash) THEN "over" ELSE "undo")
    /\ UNCHANGED <<lim, cfg, client, open, held, storage, dirs, sessions, uses, pending, casts, onStops, jobs, prunes, kept>>

Undo(s) ==
    /\ At(s, "undo") /\ To(s, "over")
    /\ held' = held \ {<<starts[s].client, starts[s].hash>>}
    /\ storage' = IF starts[s].cfg.keep THEN storage ELSE storage \ {starts[s].hash}
    /\ UNCHANGED <<lim, cfg, client, open, dirs, sessions, uses, pending, casts, onStops, jobs, prunes, kept>>

(* registerSession counts every session of a hash.                         *)
CountMore(u) == u.refs + 1

Register(s) ==
    /\ At(s, "info") /\ To(s, "start")
    /\ LET h == starts[s].hash  keep == starts[s].cfg.keep IN
       /\ dirs' = dirs \cup {s}
       /\ sessions' = sessions \cup
              {[start |-> s, hash |-> h, client |-> starts[s].client, keep |-> keep]}
       /\ uses' = IF Use(h) = {}
                  THEN uses \cup {[hash |-> h, client |-> starts[s].client, refs |-> 1, keep |-> keep]}
                  ELSE {IF u.hash = h THEN [u EXCEPT !.refs = CountMore(u), !.keep = @ \/ keep] ELSE u :
                            u \in uses}
    /\ UNCHANGED <<lim, cfg, client, open, held, storage, pending, casts, onStops, jobs, prunes, kept>>

(* StartSession: whatever played is over, and its OnStop will run. *)
NowOver == IF casts \in Ids THEN onStops \cup {casts} ELSE onStops

CoreStart(s) ==
    /\ At(s, "start")
    /\ \/ casts' = s /\ onStops' = NowOver /\ To(s, "over")
       \/ casts' = 0 /\ onStops' = NowOver /\ To(s, "failed")
    /\ UNCHANGED <<lim, cfg, client, open, held, storage, dirs, sessions, uses, pending, jobs, prunes, kept>>

-----------------------------------------------------------------------------
(* The end of a session.                                                   *)

(* The cast ends, is stopped or preempted. *)
EndCast ==
    /\ casts \in Ids /\ (~lim.together => ~Busy)
    /\ casts' \in {0, Foreign} /\ onStops' = onStops \cup {casts}
    /\ UNCHANGED <<lim, cfg, client, open, held, storage, dirs, sessions, uses, pending, starts, jobs, prunes, kept>>

(* cleanupSession, under the mutex.  The slip drops what others still use. *)
Unshared(u) == TRUE
LastUse(u)  == u.refs = 1

ClosesClient(rest) == rest = {} /\ client # 0 /\ (~cfg.enabled \/ pending)

Decides(r) ==
    LET rest == sessions \ {r}
        gone == {u \in Use(r.hash) : LastUse(u)}
    IN /\ sessions' = rest
       /\ uses' = {IF u.hash = r.hash THEN [u EXCEPT !.refs = @ - 1] ELSE u : u \in uses \ gone}
       /\ jobs' = jobs \cup {[at |-> "drop", start |-> r.start, hash |-> r.hash, keep |-> r.keep,
                              drops |-> {<<u.client, u.hash>> : u \in gone},
                              removes |-> {u.hash : u \in {v \in gone : ~v.keep}},
                              active |-> {q.hash : q \in rest},
                              closes |-> IF ClosesClient(rest) THEN client ELSE 0]}
       /\ client' = IF ClosesClient(rest) THEN 0 ELSE client
       /\ pending' = (pending /\ ~ClosesClient(rest))

Cleanup(s) ==
    /\ \/ s \in onStops /\ onStops' = onStops \ {s} /\ UNCHANGED starts
       \/ At(s, "failed") /\ To(s, "over") /\ UNCHANGED onStops
    /\ IF s \in Registered THEN Decides(Session(s))
       ELSE UNCHANGED <<sessions, uses, jobs, client, pending>>
    /\ UNCHANGED <<lim, cfg, open, held, storage, dirs, casts, prunes, kept>>

(* Without it: the directory and the torrent; then the data, the prune     *)
(* goroutine and the client.                                               *)
DropTorrent(j) ==
    /\ j \in jobs /\ j.at = "drop"
    /\ jobs' = (jobs \ {j}) \cup {[j EXCEPT !.at = "data"]}
    /\ dirs' = IF j.keep THEN dirs ELSE dirs \ {j.start}
    /\ held' = held \ j.drops
    /\ UNCHANGED <<lim, cfg, client, open, storage, sessions, uses, pending, starts, casts, onStops, prunes, kept>>

RemoveData(j) ==
    /\ j \in jobs /\ j.at = "data" /\ jobs' = jobs \ {j}
    /\ storage' = storage \ j.removes
    /\ prunes' = prunes \cup {j.active}
    /\ open' = {c \in open : c.id # j.closes}
    /\ held' = {t \in held : t[1] # j.closes}
    /\ UNCHANGED <<lim, cfg, client, dirs, sessions, uses, pending, starts, casts, onStops, kept>>

(* pruneStorageCache: over its budget, the oldest that are not active go.  *)
Prune(active) ==
    /\ active \in prunes /\ prunes' = prunes \ {active}
    /\ \E gone \in SUBSET (storage \ active) : storage' = storage \ gone
    /\ UNCHANGED <<lim, cfg, client, open, held, dirs, sessions, uses, pending, starts, casts, onStops, jobs, kept>>

-----------------------------------------------------------------------------
(* Settings.                                                               *)

Settled == ~Busy /\ (~lim.together => ~CleaningUp)

(* SetEnabled *)
Toggle ==
    /\ Settled /\ lim.toggles
    /\ cfg' = [cfg EXCEPT !.enabled = ~@]
    /\ UNCHANGED <<lim, client, open, held, storage, dirs, sessions, uses, pending, starts, casts, onStops, jobs, prunes, kept>>

(* ApplyConfig of a setting only a new client can take; then it stops the  *)
(* cast.                                                                   *)
NowPending == TRUE

ApplyConfig ==
    /\ Settled /\ cfg.port < lim.ports
    /\ cfg' = [cfg EXCEPT !.port = @ + 1]
    /\ IF client = 0 THEN UNCHANGED <<client, open, held, uses, pending>>
       ELSE IF sessions # {} THEN pending' = NowPending /\ UNCHANGED <<client, open, held, uses>>
       ELSE /\ open' = {c \in open : c.id # client}
            /\ held' = {t \in held : t[1] # client}
            /\ client' = 0 /\ uses' = {} /\ pending' = FALSE
    /\ onStops' = NowOver /\ casts' = IF casts \in Ids THEN 0 ELSE casts
    /\ UNCHANGED <<lim, storage, dirs, sessions, starts, jobs, prunes, kept>>

StartSteps(s) ==
    \/ BeginStart(s) \/ TakeClient(s) \/ InstallClient(s) \/ Add(s) \/ FailEarly(s) \/ Undo(s)
    \/ Register(s) \/ CoreStart(s)

CleanupSteps ==
    \/ \E s \in Ids : Cleanup(s)
    \/ \E j \in jobs : DropTorrent(j) \/ RemoveData(j)
    \/ \E active \in prunes : Prune(active)

TorrentNext ==
    \/ \E s \in Ids : StartSteps(s)
    \/ EndCast \/ CleanupSteps \/ Toggle \/ ApplyConfig

TorrentSpec == TorrentInit /\ [][TorrentNext]_torrentVars

-----------------------------------------------------------------------------
(* What a session plays from is there: its torrent is in a client that is  *)
(* open, its data on disk, whatever other sessions of the same torrent,    *)
(* cleanups and prunings do - as long as no start overlaps a cleanup or a  *)
(* change of settings.                                                     *)
LeasesHold ==
    ~lim.together =>
        \A r \in sessions : <<r.client, r.hash>> \in held /\ r.hash \in storage /\ r.start \in dirs

(* When all is over nothing is left: no torrent that goes on downloading,  *)
(* no client nobody knows, no directory and no data that was not to be     *)
(* kept - however starts, failures and cleanups overlap, but for a setting *)
(* that is applied meanwhile: a start that fails in the new client leaves  *)
(* its torrent to whoever uses the same one in the old client.             *)
AllOver == ~Busy /\ ~CleaningUp /\ sessions = {}

NothingLeaks ==
    AllOver => /\ held = {} /\ uses = {} /\ Clients \subseteq {client}
             /\ storage \subseteq kept
             /\ \A s \in dirs : starts[s].cfg.keep

(* The client that stays runs with the settings that were applied.         *)
SettingsReachClient ==
    AllOver /\ ~lim.together => \A c \in open : c.port = cfg.port

(* Nobody's torrent or data is taken from under him, none is left behind,  *)
(* and what the user has set reaches the client.                           *)
LeasesInOrder == LeasesHold /\ NothingLeaks /\ SettingsReachClient
=============================================================================
