------------------------------ MODULE HlsBuffer ------------------------------
(***************************************************************************)
(* One HLS session (internal/hlsbuffer): OpenSession warms a directory of  *)
(* segment files, a goroutine reloads the source's playlist and brings the *)
(* directory and the local playlist up to date, Close ends it.  ffmpeg     *)
(* reads the local playlist and the files it names.                        *)
(*                                                                         *)
(* A segment is its sequence number.  Fetching the segments of one refresh *)
(* is one step, because nothing is stored unless all of them arrived.      *)
(***************************************************************************)
EXTENDS Integers, Sequences, FiniteSets, SequencesExt, FiniteSetsExt

CONSTANTS
    LiveEdge, StartSegments,  \* cfg.LiveEdgeSegments, cfg.StartSegments
    MaxCached, MaxBytes,      \* cfg.MaxCachedSegments, cfg.MaxCacheBytes
    SourceLength,             \* segments in the source's playlist
    LastSegment,              \* bound on the source
    MaxDiskErrors             \* bound on failing writes

(* What validateHLSBufferConfig lets through, and sources that have        *)
(* segments.                                                               *)
ASSUME HlsAssumption ==
    /\ {LiveEdge, StartSegments, MaxCached, SourceLength} \subseteq Nat \ {0}
    /\ {MaxBytes, LastSegment, MaxDiskErrors} \subseteq Nat
    /\ StartSegments <= LiveEdge /\ StartSegments <= MaxCached

(* Odd segments are twice as large as even ones. *)
Bytes(n) == 1 + (n % 2)

VARIABLES
    newest,    \* the source's newest segment
    step,      \* where OpenSession or runRefreshLoop is
    opening,   \* OpenSession has not returned
    source,    \* the playlist loaded last: <<first, last>>
    todo,      \* segments fetched and not yet stored
    entries,   \* SegmentCache.entries
    total,     \* SegmentCache.totalBytes
    known,     \* refreshState.cachedBySeq
    disk,      \* segment files in the session's directory
    listed,    \* the local playlist
    stale,     \* the last refresh failed
    outrun,    \* some refresh fetched or stored too little, or came too late
    closing,   \* Close was called
    removed,   \* the directory has been removed
    diskErrors

hlsVars == <<newest, step, opening, source, todo, entries, total, known, disk, listed,
             stale, outrun, closing, removed, diskErrors>>
cacheVars == <<entries, total, disk>>

Steps == {"load", "fetch", "put", "publish", "sleep", "done"}

HlsInit ==
    /\ newest \in {0, SourceLength} /\ step = "load" /\ opening = TRUE /\ source = <<0, 0>>
    /\ todo = <<>> /\ entries = <<>> /\ total = 0 /\ known = {} /\ disk = {} /\ listed = <<>>
    /\ stale = FALSE /\ outrun = FALSE /\ closing = FALSE /\ removed = FALSE
    /\ diskErrors = 0

(* A session that was closed, where another part is checked. *)
HlsOff ==
    /\ newest = LastSegment /\ step = "done" /\ opening = FALSE /\ source = <<0, 0>>
    /\ todo = <<>> /\ entries = <<>> /\ total = 0 /\ known = {} /\ disk = {} /\ listed = <<>>
    /\ stale = FALSE /\ outrun = FALSE /\ closing = TRUE /\ removed = TRUE
    /\ diskErrors = 0

Oldest    == Max({0, newest - SourceLength + 1})
UpTo(S)   == CHOOSE s \in [1..Cardinality(S) -> S] : \A i, j \in DOMAIN s : i < j => s[i] < s[j]
Least(S)  == IF S = {} THEN 0 ELSE Min(S)

(* The live source goes on. *)
SourceMoves ==
    /\ newest < LastSegment /\ newest' = newest + 1
    /\ UNCHANGED <<step, opening, source, todo, cacheVars, known, listed, stale, outrun,
                   closing, diskErrors, removed>>

(* chooseWarmSegments *)
WarmSegments(first, last) ==
    LET start == IF last - first + 1 > LiveEdge THEN last - LiveEdge + 1 ELSE first
    IN start..Min({last, start + StartSegments - 1})

(* segmentsMissingFromCache. *)
Missing(first, last)         == {n \in first..last : n >= Least(known) /\ n \notin known}

(* loadSessionPlaylist, and the reload of refreshPlaylist. *)
Load ==
    /\ step = "load"
    /\ source' = <<Oldest, newest>>
    /\ todo' = UpTo(IF opening THEN WarmSegments(Oldest, newest) ELSE Missing(Oldest, newest))
    /\ outrun' = (outrun \/ (known # {} /\ Oldest > Max(known) + 1))
    /\ step' = "fetch"
    /\ UNCHANGED <<newest, opening, cacheVars, known, listed, stale, closing, diskErrors, removed>>

(* An error ends OpenSession, which removes the directory; the loop only   *)
(* notes it and sleeps.                                                    *)
Abandon ==
    IF opening THEN step' = "done" /\ removed' = TRUE /\ disk' = {} /\ listed' = <<>>
    ELSE step' = "sleep" /\ UNCHANGED <<removed, listed>>

(* fetchBytes of the playlist or of a segment: refused, timed out, too     *)
(* large, or the session is closed.                                        *)
LoadFails ==
    /\ step \in {"load", "fetch"}
    /\ todo' = <<>> /\ stale' = TRUE /\ outrun' = TRUE
    /\ Abandon /\ (opening \/ disk' = disk)
    /\ UNCHANGED <<newest, opening, source, entries, total, known, closing, diskErrors>>

Fetched ==
    /\ step = "fetch" /\ ~closing
    /\ step' = "put"
    /\ UNCHANGED <<newest, opening, source, todo, cacheVars, known, listed, stale, outrun,
                   closing, diskErrors, removed>>

(* enforceLimits: the oldest entries go, counted against the running sum.  *)
(* The slip evicts the newest.                                             *)
TotalOf(s)            == Cardinality(UNION {{n} \X (1..Bytes(n)) : n \in ToSet(s)})
Left(s, k)            == SubSeq(s, k + 1, Len(s))
SumLeft(s, sum, k)    == sum - TotalOf(SubSeq(s, 1, k))
OverLimit(s, sum)     == Len(s) > MaxCached \/ sum > MaxBytes
Excess(s, sum)        == CHOOSE k \in 0..Len(s) :
    /\ k = Len(s) \/ ~OverLimit(Left(s, k), SumLeft(s, sum, k))
    /\ \A j \in 0..(k - 1) : OverLimit(Left(s, j), SumLeft(s, sum, j))
EnforcedAtEnd(s, sum) == SubSeq(s, 1, Len(s) - Excess(s, sum))
Enforced(s, sum)      == Left(s, Excess(s, sum))

(* removeEntry, and the sum it leaves.  The slip forgets to subtract.      *)
Without(n)            == RemoveFirst(entries, n)
SumUnchanged(n)       == total
SumWithout(n)         == IF n \in ToSet(entries) THEN total - Bytes(n) ELSE total

(* SegmentCache.Put *)
Put ==
    /\ step = "put" /\ todo # <<>> /\ Bytes(Head(todo)) <= MaxBytes
    /\ LET n    == Head(todo)
           all  == Append(Without(n), n)
           sum  == SumWithout(n) + Bytes(n)
           kept == Enforced(all, sum)
       IN /\ entries' = kept
          /\ total' = SumLeft(all, sum, Excess(all, sum))
          /\ disk' = (disk \cup {n}) \ (ToSet(all) \ ToSet(kept))
    /\ todo' = Tail(todo)
    /\ UNCHANGED <<newest, step, opening, source, known, listed, stale, outrun, closing,
                   diskErrors, removed>>

(* The file cannot be written, or only in part, after the entry of its name*)
(* has gone.  The segments stored before stay, but cachedBySeq does not    *)
(* learn of them.                                                          *)
PutFails ==
    /\ step = "put" /\ todo # <<>> /\ diskErrors < MaxDiskErrors
    /\ diskErrors' = diskErrors + 1
    /\ entries' = Without(Head(todo))
    /\ total' = SumWithout(Head(todo))
    /\ todo' = <<>> /\ stale' = TRUE /\ outrun' = TRUE
    /\ Abandon /\ (opening \/ disk' \in {disk \ {Head(todo)}, disk \cup {Head(todo)}})
    /\ UNCHANGED <<newest, opening, source, known, closing>>

(* cachedBySeq learns of the stored segments and forgets the evicted ones. *)
(* OpenSession takes the warm segments as they are.  The slip does not     *)
(* forget.                                                                 *)
Unpruned(stored)    == known \cup stored
Pruned(stored)      == (known \cup stored) \cap ToSet(entries)

AllStored ==
    /\ step = "put" /\ todo = <<>>
    /\ known' = LET stored == IF opening THEN WarmSegments(source[1], source[2])
                              ELSE Missing(source[1], source[2])
                IN IF opening THEN stored ELSE Pruned(stored)
    /\ step' = "publish"
    /\ UNCHANGED <<newest, opening, source, todo, cacheVars, listed, stale, outrun, closing,
                   diskErrors, removed>>

(* writeLocalPlaylist: a new file is renamed over the old one. *)
Publish ==
    /\ step = "publish"
    /\ listed' = UpTo(known) /\ stale' = FALSE /\ opening' = FALSE
    /\ step' = "sleep"
    /\ UNCHANGED <<newest, source, todo, cacheVars, known, outrun, closing, diskErrors, removed>>

(* It cannot be written or renamed: the old one stays, older than the      *)
(* segments in the cache.                                                  *)
PublishFails ==
    /\ step = "publish" /\ diskErrors < MaxDiskErrors
    /\ diskErrors' = diskErrors + 1 /\ stale' = TRUE
    /\ Abandon /\ (opening \/ disk' = disk)
    /\ UNCHANGED <<newest, opening, source, todo, entries, total, known, outrun, closing>>

(* runRefreshLoop's select: the timer, or the end.  The slip only ends a   *)
(* loop whose last refresh succeeded.                                      *)
TimerFires ==
    /\ step = "sleep" /\ step' = "load"
    /\ UNCHANGED <<newest, opening, source, todo, cacheVars, known, listed, stale, outrun,
                   closing, diskErrors, removed>>

Cancelled          == closing

LoopEnds ==
    /\ step = "sleep" /\ Cancelled /\ step' = "done"
    /\ UNCHANGED <<newest, opening, source, todo, cacheVars, known, listed, stale, outrun,
                   closing, diskErrors, removed>>

(* Session.Close *)
Close ==
    /\ ~opening /\ ~closing /\ closing' = TRUE
    /\ UNCHANGED <<newest, step, opening, source, todo, cacheVars, known, listed, stale,
                   outrun, diskErrors, removed>>

(* Close waits for the loop before it removes the directory.               *)
LoopDone == step = "done"

RemoveDirectory ==
    /\ closing /\ ~removed /\ LoopDone
    /\ removed' = TRUE /\ disk' = {} /\ listed' = <<>>
    /\ UNCHANGED <<newest, step, opening, source, todo, entries, total, known, stale, outrun,
                   closing, diskErrors>>

Work == Load \/ LoadFails \/ Fetched \/ Put \/ PutFails \/ AllStored \/ Publish
        \/ PublishFails \/ TimerFires \/ LoopEnds

HlsNext == SourceMoves \/ Work \/ Close \/ RemoveDirectory

(* Fetches run under a timeout, and Go's select, which picks at random, is *)
(* fair to the end of the loop.                                            *)
HlsFairness == WF_hlsVars(Work) /\ SF_hlsVars(LoopEnds) /\ WF_hlsVars(RemoveDirectory)
HlsSpec == HlsInit /\ [][HlsNext]_hlsVars /\ HlsFairness

-----------------------------------------------------------------------------
(* Properties.                                                             *)

Idle == step = "sleep" /\ ~stale

HlsTypeOK ==
    /\ step \in Steps /\ known \subseteq Nat /\ disk \subseteq Nat
    /\ ToSet(todo) \subseteq source[1]..source[2]
    /\ Len(entries) = Cardinality(ToSet(entries))

(* The cache stays within both limits whatever its segments weigh, its sum *)
(* of bytes is right, and every entry is on disk; other files are there    *)
(* only after a write that failed.                                         *)
WithinLimits ==
    /\ Len(entries) <= MaxCached /\ total <= MaxBytes /\ total = TotalOf(entries)
    /\ ~removed => ToSet(entries) \subseteq disk
    /\ disk \subseteq ToSet(entries) \/ diskErrors > 0

(* The local playlist is one ffmpeg can follow.  After a refresh that      *)
(* succeeded, every segment it names is on disk, whatever earlier refreshes*)
(* left half done.  And as long as each refresh stored all it was to fetch *)
(* and came in time, it has no holes, even when the playlist itself could  *)
(* not be written: ffmpeg numbers segments from its first one.             *)
PlaylistIsTrue ==
    /\ Idle => ToSet(listed) \subseteq disk
    /\ ~outrun /\ listed # <<>> => listed = [i \in 1..Len(listed) |-> Head(listed) + i - 1]

(* The local playlist only moves forward, or goes away, though it may have *)
(* stayed behind while it could not be written; and a refresh that         *)
(* succeeds catches up with the source's playlist, whatever failed before. *)
PlaysForward ==
    [][/\ listed # <<>> /\ listed' # <<>>
            => Head(listed') >= Head(listed) /\ Last(listed') >= Last(listed)
       /\ step = "publish" /\ step' = "sleep" /\ ~opening /\ ~stale'
            => listed' # <<>> /\ Last(listed') = source[2]]_hlsVars

(* Nothing is left on disk, and nothing is written again, once Close or a  *)
(* failing OpenSession has removed the directory.                          *)
RemovedIsFinal == removed => disk = {} /\ listed = <<>>

(* Close returns: no fetch and no timer keeps the loop from ending.        *)
CloseReturns == closing ~> removed
=============================================================================
