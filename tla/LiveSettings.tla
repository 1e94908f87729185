---------------------------- MODULE LiveSettings ----------------------------
(***************************************************************************)
(* The life of a setting: the web handlers of internal/chassis, the saver  *)
(* of internal/uiserver that writes config.toml, the copy of the bridge    *)
(* configuration in core.Manager and the running plane.                    *)
(*                                                                         *)
(* One field stands for each way a setting is applied.  The tone controls  *)
(* are `tone'; the stored voicings are one slot, kept as Go keeps them: a  *)
(* slice whose array several copies of the configuration share.  `slots'   *)
(* is the array (0 for none), `array' what the arrays hold.                *)
(***************************************************************************)
EXTENDS Naturals

CONSTANTS
    Clients,     \* browser tabs
    Operations,  \* per client: what it may do, of AllOperations
    Drawer,      \* the fields of the settings drawer, of AllDrawer
    MaxStores    \* bound on the voicings stored

ToneOperations == {"preview", "commit", "store", "recall"}
AllOperations  == ToneOperations \cup {"volume", "drawer"}
AllDrawer      == {"codec", "modeline", "port"}
Nobody         == "nobody"

ASSUME SettingsAssumption ==
    /\ Operations \in [Clients -> SUBSET AllOperations]
    /\ Drawer \subseteq AllDrawer
    /\ MaxStores \in Nat
    /\ Nobody \notin Clients

VARIABLES
    disk,       \* [bridge] in config.toml; its `slots' is the voicing itself
    mem,        \* BridgeSaver.sec.Bridge
    managed,    \* Manager.bridge
    runtime,    \* Manager.audioDSPRuntime: tone and slots
    persisted,  \* Manager.audioDSPPersisted
    muted,      \* Manager.outputMuted
    plane,      \* what the running plane plays with, or NoPlane
    array,      \* the arrays behind the slots
    stores,     \* how many voicings were stored
    client,     \* per client: the request it is inside of
    holder,     \* the client that holds the saver's mutex, or Nobody
    told        \* some save answered that the bridge must be restarted

vars == <<disk, mem, managed, runtime, persisted, muted, plane, array, stores, client, holder, told>>
manager == <<managed, runtime, persisted, muted, plane>>

Values  == {1, 2}
Unset   == 0     \* no voicing, no array
Silent  == 0     \* the effective volume while muted
NoPlane == [codec |-> 0, modeline |-> 0, tone |-> 0, volume |-> 0]
Resting == [at |-> "none"]
Arrays  == 1..MaxStores + 1
Fields  == {"tone", "slots", "volume"} \cup AllDrawer

At(c, where)   == client[c].at = where
Goes(c, where) == client' = [client EXCEPT ![c] = where]
To(c, where)   == Goes(c, [client[c] EXCEPT !.at = where])

(* What the encoder writes for a configuration. *)
Image(cfg, held) == [cfg EXCEPT !["slots"] = IF @ = Unset THEN Unset ELSE held[@]]

(* What a process that starts makes of the file. *)
Boots(file) ==
    /\ mem' = [file EXCEPT !["slots"] = IF @ = Unset THEN Unset ELSE 1]
    /\ managed' = mem'
    /\ runtime' = [tone |-> mem'["tone"], slots |-> mem'["slots"]]
    /\ persisted' = TRUE /\ muted' = FALSE /\ plane' = NoPlane
    /\ array' = [a \in Arrays |-> IF a = 1 THEN file["slots"] ELSE Unset]
    /\ client' = [c \in Clients |-> Resting] /\ holder' = Nobody /\ told' = FALSE

First == [f \in Fields |-> IF f = "slots" THEN Unset ELSE 1]

Init ==
    /\ disk = First /\ mem = First /\ managed = First
    /\ runtime = [tone |-> 1, slots |-> Unset]
    /\ persisted = TRUE /\ muted = FALSE /\ plane = NoPlane
    /\ array = [a \in Arrays |-> Unset] /\ stores = 0
    /\ client = [c \in Clients |-> Resting] /\ holder = Nobody /\ told = FALSE

-----------------------------------------------------------------------------
(* core.Manager.                                                           *)

(* effectiveOutputVolumeLocked *)
Effective(v)  == IF muted THEN Silent ELSE v
InPlane(f, v) == IF plane = NoPlane THEN plane ELSE [plane EXCEPT ![f] = v]

(* SetAudioDSP *)
SetsAudioDSP(tone, slots) ==
    /\ managed' = [managed EXCEPT !["tone"] = tone, !["slots"] = slots]
    /\ runtime' = [tone |-> tone, slots |-> slots]
    /\ persisted' = TRUE
    /\ plane' = InPlane("tone", tone)

(* A cast starts with the Manager's copy; it ends. *)
StartCast ==
    /\ plane = NoPlane
    /\ plane' = [codec |-> managed["codec"], modeline |-> managed["modeline"],
                 tone |-> managed["tone"], volume |-> Effective(managed["volume"])]
    /\ UNCHANGED <<disk, mem, managed, runtime, persisted, muted, array, stores>>
    /\ UNCHANGED <<client, holder, told>>

EndCast ==
    /\ plane # NoPlane /\ plane' = NoPlane
    /\ UNCHANGED <<disk, mem, managed, runtime, persisted, muted, array, stores>>
    /\ UNCHANGED <<client, holder, told>>

(* SetOutputMuted *)
Mute ==
    /\ muted' = ~muted
    /\ plane' = InPlane("volume", IF muted' THEN Silent ELSE managed["volume"])
    /\ UNCHANGED <<disk, mem, managed, runtime, persisted, array, stores>>
    /\ UNCHANGED <<client, holder, told>>

-----------------------------------------------------------------------------
(* The handlers.  Those of the tone controls read the Manager's runtime    *)
(* parameters, voicings and all, before they ask the saver.                *)

ReadRuntime(c) ==
    /\ At(c, "none")
    /\ \E op \in Operations[c] \cap ToneOperations :
          /\ op = "store" => stores < MaxStores
          /\ Goes(c, [at |-> op, tone |-> runtime.tone, slots |-> runtime.slots])
    /\ UNCHANGED <<disk, mem, manager, array, stores, holder, told>>

(* mergeAudioDSPPatch: the rest is what the handler read.  The slip starts *)
(* from nothing.                                                           *)
MergedFresh(c, tone) == [tone |-> tone, slots |-> Unset]
Merged(c, tone)      == [tone |-> tone, slots |-> client[c].slots]

(* PreviewAudioDSP.  The slip does not note that the file says otherwise.  *)
AuditionUnmarked == UNCHANGED persisted
Audition         == persisted' = FALSE

Preview(c) ==
    /\ At(c, "preview")
    /\ \E tone \in Values :
          /\ runtime' = Merged(c, tone)
          /\ plane' = InPlane("tone", tone)
    /\ Audition
    /\ Goes(c, Resting)
    /\ UNCHANGED <<disk, mem, managed, muted, array, stores, holder, told>>

(* RecallAudioDSPMemory, and then the commit of what it found. *)
Recall(c) ==
    /\ At(c, "recall") /\ holder = Nobody
    /\ IF mem["slots"] = Unset THEN Goes(c, Resting)
       ELSE Goes(c, [client[c] EXCEPT !.at = "recalled", !.tone = array[mem["slots"]]])
    /\ UNCHANGED <<disk, mem, manager, array, stores, holder, told>>

-----------------------------------------------------------------------------
(* BridgeSaver.                                                            *)

(* saveLocked runs under the mutex. *)
Unlocks == holder' = Nobody

(* saveLocked begins, with a new configuration. *)
Saves(c, new, then) ==
    /\ holder = Nobody /\ holder' = c
    /\ Goes(c, [at |-> "saving", new |-> new, then |-> then])

(* SaveAudioDSP: the whole of audio.dsp is the handler's. *)
WithDSP(dsp) == [mem EXCEPT !["tone"] = dsp.tone, !["slots"] = dsp.slots]

SaveAudioDSP(c) ==
    /\ \/ /\ At(c, "commit")
          /\ \E tone \in Values :
                Saves(c, WithDSP(Merged(c, tone)), "reconcile")
       \/ /\ At(c, "recalled")
          /\ Saves(c, WithDSP(Merged(c, client[c].tone)), "answer")
    /\ UNCHANGED <<disk, mem, manager, array, stores, told>>

(* SaveAudioDSPMemory: a slot that exists is overwritten where it is, in   *)
(* the array the current configuration uses; a new one is appended to a    *)
(* copy.                                                                   *)
SaveAudioDSPMemory(c) ==
    /\ At(c, "store") /\ stores < MaxStores
    /\ stores' = stores + 1
    /\ LET into == IF mem["slots"] = Unset THEN stores + 2 ELSE mem["slots"]
       IN /\ array' = [array EXCEPT ![into] = client[c].tone]
          /\ Saves(c, [mem EXCEPT !["slots"] = into], "answer")
    /\ UNCHANGED <<disk, mem, manager, told>>

(* SaveOutputVolume and SaveTouched: fields of the latest configuration.   *)
SaveFields(c) ==
    /\ At(c, "none")
    /\ \E touched \in ({{"volume"}} \cup (SUBSET Drawer \ {{}})) :
          /\ (IF touched = {"volume"} THEN "volume" ELSE "drawer") \in Operations[c]
          /\ \E values \in [touched -> Values] :
                Saves(c, [f \in Fields |-> IF f \in touched THEN values[f] ELSE mem[f]], "answer")
    /\ UNCHANGED <<disk, mem, manager, array, stores, told>>

(* diffBridgeConfig compares contents: two arrays that hold the same are equal. *)
Changed(c) == {f \in Fields : Image(client[c].new, array)[f] # Image(mem, array)[f]}

(* The widest scope of the changed fields. *)
Scope(changed) ==
    IF "port" \in changed THEN "restart-bridge"
    ELSE IF changed \cap {"codec", "modeline"} # {} THEN "restart-cast"
    ELSE "hot-swap"

(* Validation, a port probe or the write fails: nothing of it happened,    *)
(* but a failed commit lets the handler put the runtime right again.       *)
MemoryUnmoved(c) == UNCHANGED mem

SaveFails(c) ==
    /\ At(c, "saving")
    /\ MemoryUnmoved(c) /\ Unlocks
    /\ Goes(c, IF client[c].then = "reconcile" THEN [at |-> "reconcile"] ELSE Resting)
    /\ UNCHANGED <<disk, manager, array, stores, told>>

(* WriteAtomic *)
Write(c) ==
    /\ At(c, "saving")
    /\ disk' = Image(client[c].new, array)
    /\ To(c, "written")
    /\ UNCHANGED <<mem, manager, array, stores, holder, told>>

(* sec.Bridge, UpdateBridge *)
Publish(c) ==
    /\ At(c, "written")
    /\ mem' = client[c].new /\ managed' = client[c].new
    /\ Goes(c, [at |-> "published", new |-> client[c].new, changed |-> Changed(c)])
    /\ UNCHANGED <<disk, runtime, persisted, muted, plane, array, stores, holder, told>>

(* DropActiveCast for what a running pipeline cannot take.  The slip drops *)
(* for a change of the modeline only.                                      *)
ModelineOnly(changed) == "modeline" \in changed
MustDrop(changed)     == "modeline" \in changed \/ Scope(changed) = "restart-cast"

DropCast(c) ==
    /\ At(c, "published")
    /\ plane' = IF MustDrop(client[c].changed) THEN NoPlane ELSE plane
    /\ To(c, "dropped")
    /\ UNCHANGED <<disk, mem, managed, runtime, persisted, muted, array, stores, holder, told>>

(* applyHotSwapSideEffects: SetOutputVolume and SetAudioDSP for what       *)
(* changed.                                                                *)
HotSwap(new, changed) ==
    LET dsp    == IF {"tone", "slots"} \cap changed # {} THEN {"tone", "slots"} ELSE {}
        volume == {"volume"} \cap changed
    IN /\ managed' = [f \in Fields |-> IF f \in dsp \cup volume THEN new[f] ELSE managed[f]]
       /\ runtime' = IF dsp # {} THEN [tone |-> new["tone"], slots |-> new["slots"]] ELSE runtime
       /\ persisted' = (persisted \/ dsp # {})
       /\ plane' = IF plane = NoPlane THEN plane
                   ELSE [plane EXCEPT !.volume = IF volume # {} THEN Effective(new["volume"]) ELSE @,
                                      !.tone = IF dsp # {} THEN new["tone"] ELSE @]

(* The end of saveLocked and its answer. *)
Apply(c) ==
    /\ At(c, "dropped")
    /\ LET changed == client[c].changed IN
       /\ IF Scope(changed) = "hot-swap" THEN HotSwap(client[c].new, changed)
          ELSE UNCHANGED manager
       /\ told' = (told \/ Scope(changed) = "restart-bridge")
    /\ Unlocks /\ Goes(c, Resting)
    /\ UNCHANGED <<disk, mem, muted, array, stores>>

(* After a failed commit: CurrentAudioDSP, and then SetAudioDSP.           *)
ReadCurrent(c) ==
    /\ At(c, "reconcile") /\ holder = Nobody
    /\ Goes(c, [at |-> "reset", tone |-> mem["tone"], slots |-> mem["slots"]])
    /\ UNCHANGED <<disk, mem, manager, array, stores, holder, told>>

Reconcile(c) ==
    /\ At(c, "reset")
    /\ SetsAudioDSP(client[c].tone, client[c].slots)
    /\ Goes(c, Resting)
    /\ UNCHANGED <<disk, mem, muted, array, stores, holder, told>>

(* The process dies and is started again. *)
Restart == Boots(disk) /\ UNCHANGED <<disk, stores>>

Handler(c) ==
    \/ ReadRuntime(c) \/ Preview(c) \/ Recall(c) \/ ReadCurrent(c) \/ Reconcile(c)

Saver(c) ==
    \/ SaveAudioDSP(c) \/ SaveAudioDSPMemory(c) \/ SaveFields(c)
    \/ SaveFails(c) \/ Write(c) \/ Publish(c) \/ DropCast(c) \/ Apply(c)

Next ==
    \/ \E c \in Clients : Handler(c) \/ Saver(c)
    \/ StartCast \/ EndCast \/ Mute \/ Restart

Spec == Init /\ [][Next]_vars

-----------------------------------------------------------------------------
(* Between saves the file says what the bridge believes: a save that       *)
(* failed changed neither (comment on BridgeSaver).  The one exception is  *)
(* a voicing stored over another: it is in memory before it is saved.      *)
DiskIsMemory ==
    holder = Nobody =>
        \A f \in Fields : \/ disk[f] = Image(mem, array)[f]
                          \/ f = "slots" /\ stores > 1

(* Between saves the running plane plays with the saved settings, unless   *)
(* the user was told to restart the bridge: what a pipeline cannot take is *)
(* never left in a cast that started during the save.                      *)
PlaneMatchesSaved ==
    holder = Nobody /\ ~told /\ plane # NoPlane =>
        /\ plane.codec = mem["codec"] /\ plane.modeline = mem["modeline"]
        /\ plane.volume = Effective(mem["volume"])

(* When the Manager calls the tone persisted, it is the one in the file's  *)
(* copy: no failed commit that put the runtime right lost a later one.     *)
PersistedIsTrue ==
    holder = Nobody /\ persisted => runtime.tone = mem["tone"]

(* What was saved is in the file, and nothing else is: memory and file     *)
(* agree, and what the Manager holds as saved is what the file holds.      *)
SavedOnceAndForAll == DiskIsMemory /\ PersistedIsTrue

(* A voicing that was stored stays in the file: no operation removes one.  *)
StoredIsKept == [][disk["slots"] # Unset => disk'["slots"] # Unset]_vars
=============================================================================
