------------------------- MODULE LiveSettingsProofs -------------------------
(***************************************************************************)
(* Proofs about the life of a setting, for any number of browser tabs.     *)
(*                                                                         *)
(* What makes the argument work is the saver's mutex: the client that      *)
(* holds it is the only one between `saving' and `dropped', so each stage  *)
(* can say what the file, the memory and the plane look like for it.       *)
(***************************************************************************)
EXTENDS LiveSettings, TLAPS

Stages  == {"saving", "written", "published", "dropped"}
Applies == {"published", "dropped"}

(* The arrays that hold a voicing. *)
Live    == {Unset} \cup {i \in Arrays : array[i] \in Values}
Configs == {x \in [Fields -> Nat] : x["tone"] \in Values /\ x["slots"] \in Live}

Requests ==
    [at : {"none", "reconcile"}]
    \cup [at : ToneOperations \cup {"recalled", "reset"}, tone : Values, slots : Live]
    \cup [at : {"saving", "written"}, new : Configs, then : {"reconcile", "answer"}]
    \cup [at : Applies, new : Configs, changed : SUBSET Fields]

(* Types. *)
SettingsShape ==
    /\ disk \in [Fields -> Nat] /\ disk["tone"] \in Values /\ disk["slots"] \in {Unset} \cup Values
    /\ mem \in Configs /\ managed \in Configs
    /\ runtime \in [tone : Values, slots : Live]
    /\ plane \in [codec : Nat, modeline : Nat, tone : Nat, volume : Nat]
    /\ array \in [Arrays -> {Unset} \cup Values]
    /\ stores \in 0..MaxStores
    /\ client \in [Clients -> Requests]
    /\ holder \in Clients \cup {Nobody}

(* Only the holder of the mutex is inside of a save. *)
OneSaves == \A c \in Clients : client[c].at \in Stages <=> holder = c

-----------------------------------------------------------------------------
(* The file. *)

(* File and memory agree, but for a voicing stored over another. *)
Agree == \A f \in Fields : \/ disk[f] = Image(mem, array)[f]
                           \/ f = "slots" /\ stores > 1

FileInv ==
    /\ \A c \in Clients : At(c, "written") => disk = Image(client[c].new, array)
    /\ \A c \in Clients :
          client[c].at \in Applies => client[c].new = mem /\ disk = Image(mem, array)
    /\ (\A c \in Clients : ~At(c, "written")) => Agree
    /\ disk["slots"] # Unset => stores > 0
    /\ \A i \in Arrays : array[i] # Unset => stores > 0

-----------------------------------------------------------------------------
(* The plane. *)

Plays(f)  == CASE f = "volume"   -> plane.volume = Effective(mem["volume"])
               [] f = "codec"    -> plane.codec = mem["codec"]
               [] f = "modeline" -> plane.modeline = mem["modeline"]
Pipeline  == {"codec", "modeline"}

(* Before the drop the plane lags in what has changed; after it, in the    *)
(* volume that a hot swap will set, or until the bridge is restarted.      *)
Lags(c, f) ==
    \/ At(c, "published") /\ f \in client[c].changed
    \/ At(c, "dropped") /\ \/ "port" \in client[c].changed
                           \/ f = "volume" /\ f \in client[c].changed
                              /\ Pipeline \cap client[c].changed = {}

PlaneInv ==
    /\ \A f \in {"codec", "modeline", "volume"} : managed[f] = mem[f]
    /\ plane # NoPlane /\ ~told =>
          \A f \in {"codec", "modeline", "volume"} :
             Plays(f) \/ \E c \in Clients : Lags(c, f)

-----------------------------------------------------------------------------
(* The tone. *)

(* One tab has the tone controls.  Two that commit, or one that commits    *)
(* while another stores, overwrite each other: the handlers read the       *)
(* Manager's parameters before they ask for the mutex.                     *)
OneToneTab ==
    \A c, d \in Clients :
       c # d => \/ Operations[c] \cap ToneOperations = {}
                \/ Operations[d] \cap ToneOperations = {}

HasTone(c) == Operations[c] \cap ToneOperations # {}
Tone       == {"tone", "slots"}

(* Who is inside of what may be there, and a save of the tone changes      *)
(* nothing else.                                                           *)
ToneInv ==
    /\ \A c \in Clients :
          /\ client[c].at \in ToneOperations \cup {"recalled", "reconcile", "reset"} => HasTone(c)
          /\ client[c].at \in {"saving", "written"} =>
                /\ \A f \in Tone : HasTone(c) \/ client[c].new[f] = mem[f]
                /\ client[c].then = "reconcile" => HasTone(c)
                /\ \/ \A f \in Tone : client[c].new[f] = mem[f]
                   \/ \A f \in Fields \ Tone : client[c].new[f] = mem[f]
          /\ client[c].at \in Applies =>
                /\ client[c].changed \cap Tone = {} \/ client[c].changed \subseteq Tone
                /\ HasTone(c) \/ client[c].changed \cap Tone = {}
          /\ At(c, "reset") => client[c].tone = mem["tone"]
    /\ persisted => \/ runtime.tone = mem["tone"]
                    \/ \E c \in Clients : client[c].at \in Applies /\ "tone" \in client[c].changed

(* A voicing in the file is one in memory, and whoever will save the tone  *)
(* knows of it.                                                            *)
SlotInv ==
    /\ \A c \in Clients :
          /\ client[c].at \in ToneOperations \cup {"recalled", "reset"} =>
                (client[c].slots = Unset <=> mem["slots"] = Unset) \/ At(c, "store")
          /\ client[c].at \in {"saving", "written"} /\ mem["slots"] # Unset =>
                client[c].new["slots"] # Unset
    /\ \/ runtime.slots = Unset <=> mem["slots"] = Unset
       \/ \E c \in Clients : client[c].at \in Applies /\ "slots" \in client[c].changed
                             /\ mem["slots"] # Unset
    /\ disk["slots"] # Unset /\ mem["slots"] = Unset =>
          \E c \in Clients : At(c, "written")
    /\ disk["slots"] = Unset => mem["slots"] = Unset

-----------------------------------------------------------------------------
(* Types and the mutex.                                                    *)

TonePhases == ToneOperations \cup {"recalled", "reset"}

LEMMA RequestKinds ==
    ASSUME NEW r \in Requests
    PROVE  /\ r.at \in {"none", "reconcile"} \cup TonePhases \cup Stages
           /\ r.at \in TonePhases => r.tone \in Values /\ r.slots \in Live
           /\ r.at \in {"saving", "written"} =>
                 r.new \in Configs /\ r.then \in {"reconcile", "answer"}
           /\ r.at \in Applies => r.new \in Configs /\ r.changed \in SUBSET Fields
           /\ r.at \in {"saving", "written"} =>
                 r = [at |-> r.at, new |-> r.new, then |-> r.then]
           /\ r.at \in Applies => r = [at |-> r.at, new |-> r.new, changed |-> r.changed]
  BY DEF Requests, TonePhases, Stages, Applies, ToneOperations

(* Without a voicing stored the types are what they were. *)
LEMMA SameTypes ==
    ASSUME array' = array
    PROVE  Live' = Live /\ Configs' = Configs /\ Requests' = Requests
  BY DEF Live, Configs, Requests

LEMMA FieldNames ==
    /\ Fields = {"tone", "slots", "volume", "codec", "modeline", "port"}
    /\ \A f \in Fields : f # "slots" <=> f \in {"tone", "volume", "codec", "modeline", "port"}
  BY DEF Fields, AllDrawer

LEMMA ShapeInit == Init => SettingsShape /\ OneSaves
  <1> SUFFICES ASSUME Init PROVE SettingsShape /\ OneSaves
    OBVIOUS
  <1>1. First \in Configs
    BY FieldNames DEF First, Configs, Live, Values, Unset
  <1>2. Resting \in Requests
    BY DEF Resting, Requests
  <1>3. Unset \in Live /\ 1 \in Values
    BY DEF Live, Values
  <1>4. SettingsShape
    BY <1>1, <1>2, <1>3, FieldNames, SettingsAssumption
       DEF Init, SettingsShape, NoPlane, First, Unset, Values, Configs
  <1>5. OneSaves
    BY SettingsAssumption DEF Init, OneSaves, Resting, Stages
  <1> QED
    BY <1>4, <1>5

LEMMA ShapeHandler ==
    ASSUME SettingsAssumption, SettingsShape, OneSaves, NEW c \in Clients, Handler(c)
    PROVE  SettingsShape' /\ OneSaves'
  <1>1. client[c] \in Requests
    BY DEF SettingsShape
  <1>2. array' = array /\ holder' = holder /\ stores' = stores /\ disk' = disk /\ mem' = mem
    BY DEF Handler, ReadRuntime, Preview, Recall, ReadCurrent, Reconcile, SetsAudioDSP, manager
  <1>3. Live' = Live /\ Configs' = Configs /\ Requests' = Requests
    BY <1>2, SameTypes
  <1>4. mem["tone"] \in Values /\ mem["slots"] \in Live
    BY DEF SettingsShape, Configs
  <1>5. Resting \in Requests
    BY DEF Resting, Requests
  <1>6. SUFFICES ASSUME NEW r \in Requests, Goes(c, r), r.at \notin Stages, client[c].at \notin Stages,
                        managed' \in Configs, runtime' \in [tone : Values, slots : Live],
                        plane' \in [codec : Nat, modeline : Nat, tone : Nat, volume : Nat]
                 PROVE  SettingsShape' /\ OneSaves'
    <2>1. CASE ReadRuntime(c)
      <3>1. PICK op \in Operations[c] \cap ToneOperations :
                   Goes(c, [at |-> op, tone |-> runtime.tone, slots |-> runtime.slots])
        BY <2>1 DEF ReadRuntime
      <3>2. [at |-> op, tone |-> runtime.tone, slots |-> runtime.slots] \in Requests
        BY DEF SettingsShape, Requests
      <3>3. op \notin Stages /\ client[c].at \notin Stages
        BY <2>1 DEF ReadRuntime, At, Stages, ToneOperations
      <3>4. managed' = managed /\ runtime' = runtime /\ plane' = plane
        BY <2>1 DEF ReadRuntime, manager
      <3> QED
        BY <1>6, <3>1, <3>2, <3>3, <3>4 DEF SettingsShape
    <2>2. CASE Preview(c)
      <3>1. client[c].at \notin Stages /\ client[c].slots \in Live
        BY <1>1, <2>2, RequestKinds DEF Preview, At, Stages, TonePhases, ToneOperations
      <3>2. PICK tone \in Values : runtime' = Merged(c, tone) /\ plane' = InPlane("tone", tone)
        BY <2>2 DEF Preview
      <3>3. runtime' \in [tone : Values, slots : Live]
        BY <3>1, <3>2 DEF Merged
      <3>4. plane' \in [codec : Nat, modeline : Nat, tone : Nat, volume : Nat]
        BY <3>2 DEF InPlane, SettingsShape, Values
      <3>5. Goes(c, Resting) /\ managed' = managed
        BY <2>2 DEF Preview
      <3> QED
        BY <1>5, <1>6, <3>1, <3>3, <3>4, <3>5 DEF SettingsShape, Resting, Stages
    <2>3. CASE Recall(c)
      <3>1. client[c].at \notin Stages /\ client[c].slots \in Live /\ client[c].tone \in Values
        BY <1>1, <2>3, RequestKinds DEF Recall, At, Stages, TonePhases, ToneOperations
      <3>2. managed' = managed /\ runtime' = runtime /\ plane' = plane
        BY <2>3 DEF Recall, manager
      <3>3. CASE mem["slots"] = Unset
        BY <1>5, <1>6, <2>3, <3>1, <3>2, <3>3 DEF Recall, SettingsShape, Resting, Stages
      <3>4. CASE mem["slots"] # Unset
        <4>1. array[mem["slots"]] \in Values
          BY <1>4, <3>4 DEF Live
        <4> DEFINE r == [client[c] EXCEPT !.at = "recalled", !.tone = array[mem["slots"]]]
        <4>2. client[c] \in [at : {"recall"}, tone : Values, slots : Live]
          BY <1>1, <2>3 DEF Recall, At, Requests, Applies
        <4>3. r \in [at : {"recalled"}, tone : Values, slots : Live]
          BY <4>1, <4>2
        <4>6. r \in Requests /\ r.at = "recalled"
          BY <4>3 DEF Requests
        <4>4. Goes(c, r)
          BY <2>3, <3>4 DEF Recall
        <4>5. r.at \notin Stages
          BY <4>6 DEF Stages
        <4> QED
          BY <1>6, <3>1, <3>2, <4>6, <4>4, <4>5 DEF SettingsShape
      <3> QED
        BY <3>3, <3>4
    <2>4. CASE ReadCurrent(c)
      <3>1. [at |-> "reset", tone |-> mem["tone"], slots |-> mem["slots"]] \in Requests
        BY <1>4 DEF Requests
      <3>2. client[c].at \notin Stages
        BY <2>4 DEF ReadCurrent, At, Stages
      <3>3. managed' = managed /\ runtime' = runtime /\ plane' = plane
        BY <2>4 DEF ReadCurrent, manager
      <3> QED
        BY <1>6, <2>4, <3>1, <3>2, <3>3 DEF SettingsShape, ReadCurrent, Stages
    <2>5. CASE Reconcile(c)
      <3>1. client[c].at \notin Stages /\ client[c].slots \in Live /\ client[c].tone \in Values
        BY <1>1, <2>5, RequestKinds DEF Reconcile, At, Stages, TonePhases, ToneOperations
      <3>2. managed' = [managed EXCEPT !["tone"] = client[c].tone, !["slots"] = client[c].slots]
            /\ runtime' = [tone |-> client[c].tone, slots |-> client[c].slots]
            /\ plane' = InPlane("tone", client[c].tone)
        BY <2>5 DEF Reconcile, SetsAudioDSP
      <3>a. client[c].slots \in Nat /\ client[c].tone \in Nat
        BY <3>1, SettingsAssumption DEF Values, Live, Arrays, Unset
      <3>3. managed' \in Configs
        BY <3>1, <3>2, <3>a, FieldNames DEF SettingsShape, Configs
      <3>4. plane' \in [codec : Nat, modeline : Nat, tone : Nat, volume : Nat]
        BY <3>1, <3>2 DEF InPlane, SettingsShape, Values
      <3> QED
        BY <1>5, <1>6, <2>5, <3>1, <3>2, <3>3, <3>4 DEF Reconcile, Resting, Stages
    <2> QED
      BY <2>1, <2>2, <2>3, <2>4, <2>5 DEF Handler
  <1>7. client' \in [Clients -> Requests] /\ client'[c] = r
        /\ \A d \in Clients \ {c} : client'[d] = client[d]
    BY <1>6 DEF SettingsShape, Goes
  <1>8. SettingsShape'
    BY <1>2, <1>3, <1>6, <1>7 DEF SettingsShape
  <1>9. OneSaves'
    BY <1>2, <1>6, <1>7 DEF OneSaves
  <1> QED
    BY <1>8, <1>9

(* The three ways into a save: each makes a configuration from the one in  *)
(* memory.                                                                 *)
LEMMA NewConfigs ==
    ASSUME SettingsAssumption, SettingsShape
    PROVE  /\ \A t \in Values, s \in Live :
                 WithDSP([tone |-> t, slots |-> s]) \in Configs
           /\ \A touched \in SUBSET (Fields \ {"tone", "slots"}) : \A values \in [touched -> Values] :
                 [f \in Fields |-> IF f \in touched THEN values[f] ELSE mem[f]] \in Configs
  <1>1. mem \in [Fields -> Nat] /\ mem["tone"] \in Values /\ mem["slots"] \in Live
    BY DEF SettingsShape, Configs
  <1>2. Values \subseteq Nat /\ Live \subseteq Nat
    BY SettingsAssumption DEF Values, Live, Arrays, Unset
  <1>3. ASSUME NEW t \in Values, NEW s \in Live PROVE WithDSP([tone |-> t, slots |-> s]) \in Configs
    BY <1>1, <1>2, FieldNames DEF WithDSP, Configs
  <1>4. ASSUME NEW touched \in SUBSET (Fields \ {"tone", "slots"}), NEW values \in [touched -> Values]
        PROVE  [f \in Fields |-> IF f \in touched THEN values[f] ELSE mem[f]] \in Configs
    BY <1>1, <1>2, FieldNames DEF Configs
  <1> QED
    BY <1>3, <1>4

LEMMA ShapeEnters ==
    ASSUME SettingsAssumption, SettingsShape, OneSaves, NEW c \in Clients,
           SaveAudioDSP(c) \/ SaveFields(c) \/ SaveAudioDSPMemory(c)
    PROVE  SettingsShape' /\ OneSaves'
  <1>1. client[c] \in Requests /\ c # Nobody
    BY SettingsAssumption DEF SettingsShape
  <1>2. SUFFICES ASSUME holder = Nobody, holder' = c, disk' = disk, mem' = mem,
                        UNCHANGED manager, stores' \in 0..MaxStores,
                        array' \in [Arrays -> {Unset} \cup Values], Live \subseteq Live',
                        NEW new, new \in Configs', NEW then \in {"reconcile", "answer"},
                        Goes(c, [at |-> "saving", new |-> new, then |-> then])
                 PROVE  SettingsShape' /\ OneSaves'
    <2>1. CASE SaveAudioDSP(c)
      <3>1. array' = array /\ stores' = stores /\ disk' = disk /\ mem' = mem /\ UNCHANGED manager
            /\ Live' = Live /\ Configs' = Configs
        BY <2>1, SameTypes DEF SaveAudioDSP
      <3>2. client[c].tone \in Values /\ client[c].slots \in Live
        BY <1>1, <2>1, RequestKinds DEF SaveAudioDSP, At, TonePhases, ToneOperations
      <3>3. PICK tone \in Values, then \in {"reconcile", "answer"} :
                   Saves(c, WithDSP(Merged(c, tone)), then)
        BY <2>1, <3>2 DEF SaveAudioDSP
      <3>4. WithDSP(Merged(c, tone)) \in Configs
        BY <3>2, NewConfigs DEF Merged
      <3> QED
        BY <1>2, <3>1, <3>3, <3>4 DEF Saves, SettingsShape
    <2>2. CASE SaveFields(c)
      <3>1. array' = array /\ stores' = stores /\ disk' = disk /\ mem' = mem /\ UNCHANGED manager
            /\ Live' = Live /\ Configs' = Configs
        BY <2>2, SameTypes DEF SaveFields
      <3>2. PICK touched \in ({{"volume"}} \cup (SUBSET Drawer \ {{}})) :
               \E values \in [touched -> Values] :
                  Saves(c, [f \in Fields |-> IF f \in touched THEN values[f] ELSE mem[f]], "answer")
        BY <2>2 DEF SaveFields
      <3>3. touched \in SUBSET (Fields \ {"tone", "slots"})
        BY <3>2, FieldNames, SettingsAssumption DEF AllDrawer
      <3>4. PICK values \in [touched -> Values] :
                  Saves(c, [f \in Fields |-> IF f \in touched THEN values[f] ELSE mem[f]], "answer")
        BY <3>2
      <3>5. [f \in Fields |-> IF f \in touched THEN values[f] ELSE mem[f]] \in Configs
        BY <3>3, NewConfigs
      <3> QED
        BY <1>2, <3>1, <3>4, <3>5 DEF Saves, SettingsShape
    <2>3. CASE SaveAudioDSPMemory(c)
      <3> DEFINE into == IF mem["slots"] = Unset THEN stores + 2 ELSE mem["slots"]
                 new  == [mem EXCEPT !["slots"] = into]
      <3>1. disk' = disk /\ mem' = mem /\ UNCHANGED manager /\ stores' = stores + 1
            /\ stores < MaxStores /\ array' = [array EXCEPT ![into] = client[c].tone]
            /\ Saves(c, new, "answer")
        BY <2>3 DEF SaveAudioDSPMemory
      <3>2. client[c].tone \in Values
        BY <1>1, <2>3, RequestKinds DEF SaveAudioDSPMemory, At, TonePhases, ToneOperations
      <3>3. stores \in Nat /\ stores' \in 0..MaxStores
        BY <3>1, SettingsAssumption DEF SettingsShape
      <3>4. mem \in [Fields -> Nat] /\ mem["tone"] \in Values /\ mem["slots"] \in Live
        BY DEF SettingsShape, Configs
      <3>5. into \in Arrays
        BY <3>1, <3>3, <3>4, SettingsAssumption DEF Live, Arrays
      <3>6. array' \in [Arrays -> {Unset} \cup Values] /\ array'[into] \in Values
            /\ \A i \in Arrays \ {into} : array'[i] = array[i]
        BY <3>1, <3>2, <3>5 DEF SettingsShape
      <3>7. Live \subseteq Live' /\ into \in Live'
        BY <3>5, <3>6 DEF Live
      <3>8. new \in Configs'
        BY <3>4, <3>5, <3>7, FieldNames, SettingsAssumption DEF Configs, Arrays
      <3> HIDE DEF into, new
      <3> QED
        BY <1>2, <3>1, <3>3, <3>6, <3>7, <3>8 DEF Saves
    <2> QED
      BY <2>1, <2>2, <2>3
  <1>3. Configs \subseteq Configs' /\ Requests \subseteq Requests'
    BY <1>2 DEF Configs, Requests
  <1>4. [at |-> "saving", new |-> new, then |-> then] \in Requests'
    BY <1>2 DEF Requests
  <1>5. client' \in [Clients -> Requests'] /\ client'[c] = [at |-> "saving", new |-> new, then |-> then]
        /\ \A d \in Clients \ {c} : client'[d] = client[d]
    BY <1>2, <1>3, <1>4 DEF SettingsShape, Goes
  <1>6. SettingsShape'
    <2>1. mem' \in Configs' /\ managed' \in Configs' /\ runtime' \in [tone : Values, slots : Live']
      BY <1>2, <1>3 DEF SettingsShape, manager
    <2> QED
      BY <1>2, <1>5, <2>1 DEF SettingsShape, manager
  <1>7. OneSaves'
    BY <1>1, <1>2, <1>5, SettingsAssumption DEF OneSaves, Stages
  <1> QED
    BY <1>6, <1>7

(* The arrays stay: so do the types, and a save goes on or ends. *)
LEMMA ShapeSaving ==
    ASSUME SettingsAssumption, SettingsShape, OneSaves, NEW c \in Clients,
           SaveFails(c) \/ Write(c) \/ Publish(c) \/ DropCast(c) \/ Apply(c)
    PROVE  SettingsShape' /\ OneSaves'
  <1>1. client[c] \in Requests /\ c # Nobody
    BY SettingsAssumption DEF SettingsShape
  <1>2. array' = array /\ stores' = stores /\ muted' = muted
    BY DEF SaveFails, Write, Publish, DropCast, Apply, manager
  <1>3. Live' = Live /\ Configs' = Configs /\ Requests' = Requests
    BY <1>2, SameTypes
  <1>4. Resting \in Requests /\ [at |-> "reconcile"] \in Requests
    BY DEF Resting, Requests
  <1>5. SUFFICES ASSUME NEW r \in Requests, Goes(c, r), client[c].at \in Stages,
                        \/ r.at \in Stages /\ holder' = holder
                        \/ r.at \notin Stages /\ holder' = Nobody,
                        disk' \in [Fields -> Nat], disk'["tone"] \in Values,
                        disk'["slots"] \in {Unset} \cup Values,
                        mem' \in Configs, managed' \in Configs, runtime' \in [tone : Values, slots : Live],
                        plane' \in [codec : Nat, modeline : Nat, tone : Nat, volume : Nat]
                 PROVE  SettingsShape' /\ OneSaves'
    <2>1. CASE SaveFails(c)
      <3>1. client[c].at \in Stages /\ holder' = Nobody /\ UNCHANGED <<disk, mem, manager>>
        BY <2>1 DEF SaveFails, At, Stages, MemoryUnmoved, Unlocks
      <3>2. Goes(c, [at |-> "reconcile"]) \/ Goes(c, Resting)
        BY <2>1 DEF SaveFails
      <3> QED
        BY <1>4, <1>5, <3>1, <3>2 DEF SettingsShape, manager, Resting, Stages
    <2>2. CASE Write(c)
      <3>1. UNCHANGED <<mem, manager, holder>> /\ disk' = Image(client[c].new, array)
            /\ client' = [client EXCEPT ![c] = [client[c] EXCEPT !.at = "written"]]
            /\ client[c].at = "saving"
        BY <2>2 DEF Write, To, Goes, At
      <3>2. client[c] \in [at : {"saving", "written"}, new : Configs, then : {"reconcile", "answer"}]
        BY <1>1, <3>1 DEF Requests, Applies, ToneOperations
      <3> DEFINE r == [client[c] EXCEPT !.at = "written"]
      <3>3. r \in [at : {"saving", "written"}, new : Configs, then : {"reconcile", "answer"}]
            /\ r.at = "written"
        BY <3>2
      <3>4. r \in Requests /\ Goes(c, r)
        BY <3>1, <3>3 DEF Requests, Goes
      <3>5. client[c].new \in [Fields -> Nat] /\ client[c].new["tone"] \in Values
            /\ client[c].new["slots"] \in Live
        BY <3>2 DEF Configs
      <3>6. disk' \in [Fields -> Nat] /\ disk'["tone"] \in Values
            /\ disk'["slots"] \in {Unset} \cup Values
        BY <3>1, <3>5, FieldNames DEF Image, Live, Values, Unset
      <3> HIDE DEF r
      <3> QED
        BY <1>5, <3>1, <3>3, <3>4, <3>6 DEF SettingsShape, manager, Stages
    <2>3. CASE Publish(c)
      <3>1. client[c].at = "written"
        BY <2>3 DEF Publish, At
      <3>2. client[c].new \in Configs
        BY <1>1, <3>1, RequestKinds
      <3>3. Changed(c) \in SUBSET Fields
        BY DEF Changed
      <3>4. [at |-> "published", new |-> client[c].new, changed |-> Changed(c)] \in Requests
        BY <3>2, <3>3 DEF Requests, Applies
      <3>5. UNCHANGED <<disk, runtime, plane, holder>>
            /\ mem' = client[c].new /\ managed' = client[c].new
            /\ Goes(c, [at |-> "published", new |-> client[c].new, changed |-> Changed(c)])
        BY <2>3 DEF Publish
      <3> QED
        BY <1>5, <3>1, <3>2, <3>4, <3>5 DEF SettingsShape, Stages
    <2>4. CASE DropCast(c)
      <3>1. UNCHANGED <<disk, mem, managed, runtime, holder>> /\ plane' \in {NoPlane, plane}
            /\ client' = [client EXCEPT ![c] = [client[c] EXCEPT !.at = "dropped"]]
            /\ client[c].at = "published"
        BY <2>4 DEF DropCast, To, Goes, At
      <3>2. client[c] \in [at : Applies, new : Configs, changed : SUBSET Fields]
        BY <1>1, <3>1 DEF Requests, ToneOperations
      <3> DEFINE r == [client[c] EXCEPT !.at = "dropped"]
      <3>3. r \in [at : Applies, new : Configs, changed : SUBSET Fields] /\ r.at = "dropped"
        BY <3>2 DEF Applies
      <3>4. r \in Requests /\ Goes(c, r)
        BY <3>1, <3>3 DEF Requests, Goes
      <3> HIDE DEF r
      <3> QED
        BY <1>5, <3>1, <3>3, <3>4 DEF SettingsShape, Stages, NoPlane
    <2>5. CASE Apply(c)
      <3>1. client[c].at = "dropped" /\ Goes(c, Resting) /\ holder' = Nobody /\ UNCHANGED <<disk, mem>>
        BY <2>5 DEF Apply, At, Unlocks
      <3>2. client[c].new \in Configs
        BY <1>1, <3>1, RequestKinds DEF Applies
      <3>3. managed' \in Configs /\ runtime' \in [tone : Values, slots : Live]
            /\ plane' \in [codec : Nat, modeline : Nat, tone : Nat, volume : Nat]
        <4>1. CASE HotSwap(client[c].new, client[c].changed)
          <5> DEFINE new == client[c].new
          <5>1. new \in [Fields -> Nat] /\ new["tone"] \in Values /\ new["slots"] \in Live
                /\ managed \in [Fields -> Nat] /\ managed["tone"] \in Values /\ managed["slots"] \in Live
                /\ Effective(new["volume"]) \in Nat /\ new["tone"] \in Nat
            BY <3>2, FieldNames DEF Configs, SettingsShape, Effective, Silent, Values
          <5> HIDE DEF new
          <5>2. PICK dsp \in SUBSET Fields, volume \in SUBSET Fields :
                  /\ managed' = [f \in Fields |-> IF f \in dsp \cup volume THEN new[f] ELSE managed[f]]
                  /\ runtime' = IF dsp # {} THEN [tone |-> new["tone"], slots |-> new["slots"]] ELSE runtime
                  /\ plane' = IF plane = NoPlane THEN plane
                       ELSE [plane EXCEPT !.volume = IF volume # {} THEN Effective(new["volume"]) ELSE @,
                                          !.tone = IF dsp # {} THEN new["tone"] ELSE @]
            <6> DEFINE changed == client[c].changed
                       dsp    == IF {"tone", "slots"} \cap changed # {} THEN {"tone", "slots"} ELSE {}
                       volume == {"volume"} \cap changed
            <6>1. dsp \in SUBSET Fields /\ volume \in SUBSET Fields
              BY FieldNames
            <6>2. /\ managed' = [f \in Fields |-> IF f \in dsp \cup volume THEN new[f] ELSE managed[f]]
                  /\ runtime' = IF dsp # {} THEN [tone |-> new["tone"], slots |-> new["slots"]] ELSE runtime
                  /\ plane' = IF plane = NoPlane THEN plane
                       ELSE [plane EXCEPT !.volume = IF volume # {} THEN Effective(new["volume"]) ELSE @,
                                          !.tone = IF dsp # {} THEN new["tone"] ELSE @]
              BY <4>1 DEF HotSwap, new
            <6> HIDE DEF dsp, volume
            <6> QED
              BY <6>1, <6>2
          <5>3. managed' \in Configs
            BY <5>1, <5>2, FieldNames DEF Configs
          <5>4. runtime' \in [tone : Values, slots : Live]
            BY <5>1, <5>2 DEF SettingsShape
          <5>5. plane' \in [codec : Nat, modeline : Nat, tone : Nat, volume : Nat]
            BY <5>1, <5>2 DEF SettingsShape
          <5> QED
            BY <5>3, <5>4, <5>5
        <4>2. CASE UNCHANGED manager
          BY <4>2 DEF SettingsShape, manager
        <4> QED
          BY <2>5, <4>1, <4>2 DEF Apply
      <3> QED
        BY <1>4, <1>5, <3>1, <3>3 DEF SettingsShape, Resting, Stages
    <2> QED
      BY <2>1, <2>2, <2>3, <2>4, <2>5
  <1>6. client' \in [Clients -> Requests] /\ client'[c] = r
        /\ \A d \in Clients \ {c} : client'[d] = client[d]
    BY <1>5 DEF SettingsShape, Goes
  <1>7. holder = c
    BY <1>5 DEF OneSaves
  <1>8. SettingsShape'
    BY <1>2, <1>3, <1>5, <1>6, <1>7 DEF SettingsShape
  <1>9. OneSaves'
    BY <1>1, <1>5, <1>6, <1>7, SettingsAssumption DEF OneSaves
  <1> QED
    BY <1>8, <1>9

LEMMA ShapeMachine ==
    ASSUME SettingsAssumption, SettingsShape, OneSaves, StartCast \/ EndCast \/ Mute \/ Restart
    PROVE  SettingsShape' /\ OneSaves'
  <1>1. CASE StartCast \/ EndCast \/ Mute
    <2>1. UNCHANGED <<disk, mem, managed, runtime, array, stores, client, holder>>
      BY <1>1 DEF StartCast, EndCast, Mute
    <2>2. managed \in [Fields -> Nat] /\ \A v \in Nat : Effective(v) \in Nat
      BY DEF SettingsShape, Configs, Effective, Silent
    <2>3. plane' \in [codec : Nat, modeline : Nat, tone : Nat, volume : Nat]
      BY <1>1, <2>2, FieldNames
         DEF StartCast, EndCast, Mute, SettingsShape, NoPlane, InPlane, Silent
    <2>4. Live' = Live /\ Configs' = Configs /\ Requests' = Requests
      BY <2>1, SameTypes
    <2> QED
      BY <2>1, <2>3, <2>4 DEF SettingsShape, OneSaves
  <1>2. CASE Restart
    <2>1. /\ disk' = disk /\ stores' = stores /\ managed' = mem' /\ plane' = NoPlane
          /\ mem' = [disk EXCEPT !["slots"] = IF @ = Unset THEN Unset ELSE 1]
          /\ runtime' = [tone |-> mem'["tone"], slots |-> mem'["slots"]]
          /\ array' = [a \in Arrays |-> IF a = 1 THEN disk["slots"] ELSE Unset]
          /\ client' = [c \in Clients |-> Resting] /\ holder' = Nobody
      BY <1>2 DEF Restart, Boots
    <2>2. 1 \in Arrays
      BY SettingsAssumption DEF Arrays
    <2>3. array' \in [Arrays -> {Unset} \cup Values]
      BY <2>1 DEF SettingsShape
    <2>4. mem'["slots"] \in Live' /\ mem' \in [Fields -> Nat] /\ mem'["tone"] \in Values
      BY <2>1, <2>2, FieldNames DEF SettingsShape, Live, Unset
    <2>5. mem' \in Configs'
      BY <2>4 DEF Configs
    <2>6. Resting \in Requests'
      BY DEF Resting, Requests
    <2>7. SettingsShape'
      BY <2>1, <2>3, <2>4, <2>5, <2>6 DEF SettingsShape, NoPlane
    <2>8. OneSaves'
      BY <2>1, SettingsAssumption DEF OneSaves, Resting, Stages
    <2> QED
      BY <2>7, <2>8
  <1> QED
    BY <1>1, <1>2

LEMMA ShapeStep ==
    ASSUME SettingsAssumption, SettingsShape, OneSaves, [Next]_vars
    PROVE  SettingsShape' /\ OneSaves'
  <1>1. CASE Next
    BY <1>1, ShapeHandler, ShapeEnters, ShapeSaving, ShapeMachine DEF Next, Saver
  <1>2. CASE UNCHANGED vars
    <2>1. Live' = Live /\ Configs' = Configs /\ Requests' = Requests
      BY <1>2, SameTypes DEF vars
    <2> QED
      BY <1>2, <2>1 DEF vars, manager, SettingsShape, OneSaves
  <1> QED
    BY <1>1, <1>2

-----------------------------------------------------------------------------
(* What the groups of actions leave alone.                                 *)

LEMMA HandlerFrame ==
    ASSUME SettingsShape, NEW c \in Clients, Handler(c)
    PROVE  /\ UNCHANGED <<disk, mem, array, stores, holder, told>>
           /\ client[c].at \notin Stages /\ client'[c].at \notin Stages
           /\ \A d \in Clients \ {c} : client'[d] = client[d]
  <1>1. client \in [Clients -> Requests]
    BY DEF SettingsShape
  <1>5. UNCHANGED <<disk, mem, array, stores, holder, told>>
    BY DEF Handler, ReadRuntime, Preview, Recall, ReadCurrent, Reconcile
  <1>2. CASE ReadRuntime(c)
    <2>1. PICK op \in ToneOperations :
                 Goes(c, [at |-> op, tone |-> runtime.tone, slots |-> runtime.slots])
      BY <1>2 DEF ReadRuntime
    <2> QED
      BY <1>1, <1>2, <2>1 DEF ReadRuntime, Goes, At, Stages, ToneOperations
  <1>3. CASE Recall(c)
    <2>1. client[c] \in [at : {"recall"}, tone : Values, slots : Live]
      BY <1>1, <1>3 DEF Recall, At, Requests, Applies
    <2> DEFINE r == [client[c] EXCEPT !.at = "recalled", !.tone = array[mem["slots"]]]
    <2>2. r.at = "recalled"
      BY <2>1
    <2>3. Goes(c, Resting) \/ Goes(c, r)
      BY <1>3 DEF Recall
    <2>4. client[c].at = "recall"
      BY <1>3 DEF Recall, At
    <2> HIDE DEF r
    <2>5. client'[c].at \in {"none", "recalled"} /\ \A d \in Clients \ {c} : client'[d] = client[d]
      BY <1>1, <2>2, <2>3 DEF Goes, Resting
    <2> QED
      BY <1>5, <2>4, <2>5 DEF Stages
  <1>4. CASE Preview(c) \/ ReadCurrent(c) \/ Reconcile(c)
    BY <1>1, <1>4 DEF Preview, ReadCurrent, Reconcile, Goes, At, Stages, Resting
  <1> QED
    BY <1>2, <1>3, <1>4, <1>5 DEF Handler

LEMMA EnterFrame ==
    ASSUME SettingsAssumption, SettingsShape, OneSaves, NEW c \in Clients,
           SaveAudioDSP(c) \/ SaveFields(c) \/ SaveAudioDSPMemory(c)
    PROVE  /\ UNCHANGED <<disk, mem, managed, runtime, persisted, muted, plane, told>>
           /\ \A d \in Clients : client[d].at \notin Stages
           /\ \A d \in Clients \ {c} : client'[d] = client[d]
           /\ client'[c].at = "saving"
           /\ SaveAudioDSPMemory(c) \/ UNCHANGED <<array, stores>>
  <1>1. \E new, then : Saves(c, new, then)
    BY DEF SaveAudioDSP, SaveFields, SaveAudioDSPMemory
  <1>2. \A d \in Clients : client[d].at \notin Stages
    BY <1>1, SettingsAssumption DEF Saves, OneSaves
  <1>3. client'[c].at = "saving" /\ \A d \in Clients \ {c} : client'[d] = client[d]
    BY <1>1 DEF Saves, Goes, SettingsShape
  <1> QED
    BY <1>2, <1>3 DEF SaveAudioDSP, SaveFields, SaveAudioDSPMemory, manager

LEMMA SavingFrame ==
    ASSUME SettingsShape, OneSaves, NEW c \in Clients,
           SaveFails(c) \/ Write(c) \/ Publish(c) \/ DropCast(c) \/ Apply(c)
    PROVE  /\ UNCHANGED <<array, stores, muted>>
           /\ \A d \in Clients \ {c} : client'[d] = client[d] /\ client[d].at \notin Stages
           /\ client[c].at \in Stages
  BY DEF SaveFails, Write, Publish, DropCast, Apply, manager, SettingsShape, Goes, To, OneSaves,
         At, Stages

(* The client that writes or drops keeps the rest of its request. *)
LEMMA KeptInRequest ==
    ASSUME SettingsShape, NEW c \in Clients
    PROVE  /\ Write(c) => /\ client'[c].at = "written"
                          /\ client'[c].new = client[c].new /\ client'[c].then = client[c].then
           /\ DropCast(c) => /\ client'[c].at = "dropped"
                             /\ client'[c].new = client[c].new
                             /\ client'[c].changed = client[c].changed
  <1>1. client[c] \in Requests
    BY DEF SettingsShape
  <1>2. ASSUME Write(c)
        PROVE  /\ client'[c].at = "written"
               /\ client'[c].new = client[c].new /\ client'[c].then = client[c].then
    <2>1. PICK n \in Configs, t \in {"reconcile", "answer"} :
                 client[c] = [at |-> "saving", new |-> n, then |-> t]
      BY <1>1, <1>2 DEF Write, At, Requests, Applies, ToneOperations
    <2>2. client'[c] = [client[c] EXCEPT !.at = "written"]
      BY <1>2 DEF Write, To, Goes, SettingsShape
    <2>3. [[at |-> "saving", new |-> n, then |-> t] EXCEPT !.at = "written"]
            = [at |-> "written", new |-> n, then |-> t]
      OBVIOUS
    <2> QED
      BY <2>1, <2>2, <2>3
  <1>3. ASSUME DropCast(c)
        PROVE  /\ client'[c].at = "dropped"
               /\ client'[c].new = client[c].new /\ client'[c].changed = client[c].changed
    <2>1. PICK n \in Configs, s \in SUBSET Fields :
                 client[c] = [at |-> "published", new |-> n, changed |-> s]
      BY <1>1, <1>3 DEF DropCast, At, Requests, Applies, ToneOperations
    <2>2. client'[c] = [client[c] EXCEPT !.at = "dropped"]
      BY <1>3 DEF DropCast, To, Goes, SettingsShape
    <2>3. [[at |-> "published", new |-> n, changed |-> s] EXCEPT !.at = "dropped"]
            = [at |-> "dropped", new |-> n, changed |-> s]
      OBVIOUS
    <2> QED
      BY <2>1, <2>2, <2>3
  <1> QED
    BY <1>2, <1>3

-----------------------------------------------------------------------------
(* The file.                                                               *)

LEMMA FileStep ==
    ASSUME SettingsAssumption, SettingsShape, OneSaves, FileInv, [Next]_vars
    PROVE  FileInv'
  <1> USE DEF At
  <1>1. client \in [Clients -> Requests] /\ stores \in Nat /\ mem \in [Fields -> Nat]
    BY SettingsAssumption DEF SettingsShape, Configs
  <1>2. ASSUME NEW c \in Clients, Handler(c)
        PROVE  FileInv'
    <2>1. UNCHANGED <<disk, mem, array, stores>>
          /\ \A d \in Clients : \/ client'[d] = client[d]
                                \/ client'[d].at \notin Stages /\ client[d].at \notin Stages
      BY <1>2, HandlerFrame
    <2> QED
      BY <2>1 DEF FileInv, Agree, Stages, Applies
  <1>3. ASSUME NEW c \in Clients, SaveAudioDSP(c) \/ SaveFields(c) \/ SaveAudioDSPMemory(c)
        PROVE  FileInv'
    <2>1. UNCHANGED <<disk, mem>> /\ \A d \in Clients : client[d].at \notin Stages
      BY <1>3, EnterFrame
    <2>2. \A d \in Clients : client'[d].at \notin {"written", "published", "dropped"}
      BY <1>3, <2>1, EnterFrame DEF Stages
    <2>3. Agree
      BY <2>1 DEF FileInv, Stages
    <2>4. CASE UNCHANGED <<array, stores>>
      BY <2>1, <2>2, <2>3, <2>4 DEF FileInv, Agree, Applies
    <2>5. CASE SaveAudioDSPMemory(c)
      <3> DEFINE into == IF mem["slots"] = Unset THEN stores + 2 ELSE mem["slots"]
      <3>1. array' = [array EXCEPT ![into] = client[c].tone] /\ stores' = stores + 1
        BY <2>5 DEF SaveAudioDSPMemory
      <3>2. stores' > 0
        BY <1>1, <3>1
      <3>3. Agree'
        <4>1. mem["slots"] = Unset => Image(mem, array)' = Image(mem, array)
          BY <2>1 DEF Image
        <4>2. mem["slots"] # Unset => stores' > 1
          BY <1>1, <3>1 DEF FileInv, SettingsShape, Configs, Live, Values, Unset
        <4>3. \A f \in Fields : f # "slots" => Image(mem, array)'[f] = Image(mem, array)[f]
          BY <1>1, <2>1, FieldNames DEF Image
        <4>4. stores > 1 => stores' > 1
          BY <1>1, <3>1
        <4> QED
          BY <2>1, <2>3, <4>1, <4>2, <4>3, <4>4 DEF Agree
      <3> QED
        BY <2>1, <2>2, <3>2, <3>3 DEF FileInv, Applies
    <2> QED
      BY <1>3, <2>4, <2>5, EnterFrame
  <1>4. ASSUME NEW c \in Clients,
               SaveFails(c) \/ Write(c) \/ Publish(c) \/ DropCast(c) \/ Apply(c)
        PROVE  FileInv'
    <2>1. array' = array /\ stores' = stores /\ client[c].at \in Stages
          /\ \A d \in Clients \ {c} : client'[d] = client[d] /\ client[d].at \notin Stages
      BY <1>4, SavingFrame
    <2>2. \A d \in Clients \ {c} : client'[d].at \notin Stages
      BY <2>1
    <2>3. CASE SaveFails(c)
      <3>1. UNCHANGED <<disk, mem>> /\ client'[c].at \notin Stages /\ client[c].at = "saving"
        BY <1>1, <2>3 DEF SaveFails, MemoryUnmoved, Goes, Resting, Stages
      <3>2. Agree
        BY <2>1, <3>1 DEF FileInv, Stages
      <3> QED
        BY <2>1, <2>2, <3>1, <3>2 DEF FileInv, Agree, Stages, Applies
    <2>4. CASE Write(c)
      <3>1. disk' = Image(client[c].new, array) /\ mem' = mem
        BY <2>4 DEF Write
      <3>2. client'[c].at = "written" /\ client'[c].new = client[c].new
        BY <2>4, KeptInRequest
      <3>3. disk'["slots"] # Unset => stores' > 0
        <4>1. client[c].new \in Configs
          BY <2>4, RequestKinds, <1>1 DEF Write
        <4>2. disk'["slots"] # Unset => client[c].new["slots"] # Unset
          BY <3>1, <4>1, FieldNames DEF Image, Configs
        <4> QED
          BY <2>1, <4>1, <4>2 DEF FileInv, Configs, Live, Values, Unset
      <3>4. disk' = Image(client[c].new, array)'
        BY <2>1, <3>1, <3>2 DEF Image
      <3> QED
        BY <2>1, <2>2, <3>2, <3>3, <3>4 DEF FileInv, Stages, Applies
    <2>5. CASE Publish(c)
      <3>1. mem' = client[c].new /\ disk' = disk /\ client[c].at = "written"
            /\ client'[c] = [at |-> "published", new |-> client[c].new, changed |-> Changed(c)]
        BY <1>1, <2>5 DEF Publish, Goes
      <3>2. disk' = Image(mem, array)'
        BY <2>1, <3>1 DEF FileInv, Image
      <3> QED
        BY <2>1, <2>2, <3>1, <3>2 DEF FileInv, Agree, Stages, Applies
    <2>6. CASE DropCast(c) \/ Apply(c)
      <3>1. UNCHANGED <<disk, mem>> /\ client[c].at \in Applies
        BY <2>6 DEF DropCast, Apply, Applies
      <3>2. \/ client'[c].at = "dropped" /\ client'[c].new = client[c].new
            \/ client'[c].at = "none"
        BY <1>1, <2>6, KeptInRequest DEF Apply, Goes, Resting
      <3>3. disk = Image(mem, array)
        BY <3>1 DEF FileInv
      <3> QED
        BY <2>1, <2>2, <3>1, <3>2, <3>3 DEF FileInv, Agree, Image, Stages, Applies
    <2> QED
      BY <1>4, <2>3, <2>4, <2>5, <2>6
  <1>5. CASE StartCast \/ EndCast \/ Mute \/ UNCHANGED vars
    <2>1. UNCHANGED <<disk, mem, array, stores, client>>
      BY <1>5 DEF StartCast, EndCast, Mute, vars
    <2> QED
      BY <2>1 DEF FileInv, Agree, Image
  <1>6. CASE Restart
    <2>1. /\ disk' = disk /\ stores' = stores
          /\ mem' = [disk EXCEPT !["slots"] = IF @ = Unset THEN Unset ELSE 1]
          /\ array' = [a \in Arrays |-> IF a = 1 THEN disk["slots"] ELSE Unset]
          /\ client' = [c \in Clients |-> Resting]
      BY <1>6 DEF Restart, Boots
    <2>2. 1 \in Arrays /\ disk \in [Fields -> Nat]
      BY SettingsAssumption DEF Arrays, SettingsShape
    <2>3. Agree'
      BY <2>1, <2>2, FieldNames DEF Agree, Image, Unset
    <2> QED
      BY <2>1, <2>2, <2>3 DEF FileInv, Resting, Applies
  <1> QED
    BY <1>2, <1>3, <1>4, <1>5, <1>6 DEF Next, Saver

-----------------------------------------------------------------------------
(* The plane.                                                              *)

PlaneFields == {"codec", "modeline", "volume"}

LEMMA PlaneStep ==
    ASSUME SettingsAssumption, SettingsShape, OneSaves, FileInv, PlaneInv, [Next]_vars
    PROVE  PlaneInv'
  <1> USE DEF At
  <1>1. client \in [Clients -> Requests] /\ mem \in [Fields -> Nat] /\ managed \in [Fields -> Nat]
        /\ plane \in [codec : Nat, modeline : Nat, tone : Nat, volume : Nat]
    BY DEF SettingsShape, Configs
  (* A lagging client that does not move still lags. *)
  <1>2. ASSUME NEW d \in Clients, client'[d] = client[d]
        PROVE  \A f \in PlaneFields : Lags(d, f)' <=> Lags(d, f)
    BY <1>2 DEF Lags
  <1>3. ASSUME UNCHANGED <<mem, muted, plane>>, ~told' => ~told, \A f \in PlaneFields : managed'[f] = managed[f],
               \A d \in Clients, f \in PlaneFields : Lags(d, f) => Lags(d, f)'
        PROVE  PlaneInv'
    BY <1>3 DEF PlaneInv, Plays, Effective, PlaneFields, NoPlane
  <1>4. ASSUME NEW c \in Clients, Handler(c)
        PROVE  PlaneInv'
    <2>1. UNCHANGED <<mem, told>>
          /\ \A d \in Clients, f \in PlaneFields : Lags(d, f) => Lags(d, f)'
      BY <1>2, <1>4, HandlerFrame DEF Lags, Stages
    <2>2. muted' = muted /\ \A f \in PlaneFields : managed'[f] = managed[f]
      BY <1>1, <1>4, FieldNames
         DEF Handler, ReadRuntime, Preview, Recall, ReadCurrent, Reconcile, SetsAudioDSP, manager,
             PlaneFields
    <2>3. \/ plane' = plane
          \/ \E v : plane' = InPlane("tone", v)
      BY <1>4 DEF Handler, ReadRuntime, Preview, Recall, ReadCurrent, Reconcile, SetsAudioDSP, manager
    <2>4. plane = NoPlane => plane' = NoPlane
      BY <2>3 DEF InPlane
    <2>5. plane'.codec = plane.codec /\ plane'.modeline = plane.modeline /\ plane'.volume = plane.volume
      BY <1>1, <2>3 DEF InPlane
    <2> QED
      BY <2>1, <2>2, <2>4, <2>5 DEF PlaneInv, Plays, Effective, PlaneFields, NoPlane
  <1>5. ASSUME NEW c \in Clients, SaveAudioDSP(c) \/ SaveFields(c) \/ SaveAudioDSPMemory(c)
        PROVE  PlaneInv'
    <2>1. UNCHANGED <<mem, managed, muted, plane, told>> /\ \A d \in Clients : client[d].at \notin Stages
      BY <1>5, EnterFrame
    <2> QED
      BY <1>3, <2>1 DEF Lags, Stages
  <1>6. ASSUME NEW c \in Clients, SaveFails(c) \/ Write(c)
        PROVE  PlaneInv'
    <2>1. UNCHANGED <<mem, managed, muted, plane, told>> /\ client[c].at = "saving"
      BY <1>6 DEF SaveFails, Write, MemoryUnmoved, manager
    <2>2. \A d \in Clients \ {c} : client'[d] = client[d]
      BY <1>6, SavingFrame
    <2> QED
      BY <1>2, <1>3, <2>1, <2>2 DEF Lags
  <1>7. ASSUME NEW c \in Clients, Publish(c)
        PROVE  PlaneInv'
    <2>1. UNCHANGED <<muted, plane, told>> /\ mem' = client[c].new /\ managed' = client[c].new
          /\ client'[c] = [at |-> "published", new |-> client[c].new, changed |-> Changed(c)]
      BY <1>1, <1>7 DEF Publish, Goes
    <2>2. client[c].new \in [Fields -> Nat]
      BY <1>1, <1>7, RequestKinds DEF Publish, Configs
    <2>3. \A f \in PlaneFields : f \in Changed(c) <=> client[c].new[f] # mem[f]
      BY <1>1, <2>2, FieldNames DEF Changed, Image, PlaneFields
    <2>4. \A d \in Clients, f \in PlaneFields : ~Lags(d, f)
      BY <1>7, SavingFrame DEF Publish, Lags, Stages
    <2>5. plane # NoPlane /\ ~told => \A f \in PlaneFields : Plays(f)
      BY <2>4 DEF PlaneInv, PlaneFields
    <2>6. \A f \in PlaneFields : f \in Changed(c) => Lags(c, f)'
      BY <2>1 DEF Lags
    <2>7. \A f \in PlaneFields : Plays(f) /\ f \notin Changed(c) => Plays(f)'
      BY <2>1, <2>3 DEF Plays, Effective, PlaneFields
    <2> QED
      BY <2>1, <2>5, <2>6, <2>7 DEF PlaneInv, PlaneFields, NoPlane
  <1>8. ASSUME NEW c \in Clients, DropCast(c)
        PROVE  PlaneInv'
    <2>1. UNCHANGED <<mem, managed, muted, told>> /\ client[c].at = "published"
          /\ plane' = IF MustDrop(client[c].changed) THEN NoPlane ELSE plane
      BY <1>8 DEF DropCast
    <2>2. client'[c].at = "dropped" /\ client'[c].changed = client[c].changed
      BY <1>8, KeptInRequest
    <2>3. \A d \in Clients \ {c}, f \in PlaneFields : ~Lags(d, f)
      BY <1>8, SavingFrame DEF Lags, Stages
    <2>4. CASE MustDrop(client[c].changed)
      BY <2>1, <2>4 DEF PlaneInv, NoPlane
    <2>5. CASE ~MustDrop(client[c].changed)
      <3>1. plane' = plane
        BY <2>1, <2>5
      <3>2. "port" \in client[c].changed \/ Pipeline \cap client[c].changed = {}
        BY <2>5 DEF MustDrop, Scope, Pipeline
      <3>3. \A f \in PlaneFields : Lags(c, f) => Lags(c, f)'
        BY <2>1, <2>2, <3>2 DEF Lags, Pipeline, PlaneFields
      <3> QED
        BY <1>3, <2>1, <2>3, <3>1, <3>3
    <2> QED
      BY <2>4, <2>5
  <1>9. ASSUME NEW c \in Clients, Apply(c)
        PROVE  PlaneInv'
    <2> DEFINE changed == client[c].changed
               new     == client[c].new
    <2>1. mem' = mem /\ muted' = muted /\ client[c].at = "dropped"
          /\ told' = (told \/ Scope(changed) = "restart-bridge")
          /\ IF Scope(changed) = "hot-swap" THEN HotSwap(new, changed) ELSE UNCHANGED manager
      BY <1>9 DEF Apply
    <2>2. \A d \in Clients \ {c}, f \in PlaneFields : ~Lags(d, f)
      BY <1>9, SavingFrame DEF Lags, Stages
    <2>3. new = mem
      BY <2>1 DEF FileInv, Applies
    <2> HIDE DEF changed, new
    <2>4. CASE Scope(changed) = "hot-swap"
      <3>1. HotSwap(new, changed) /\ (~told' => ~told)
        BY <2>1, <2>4
      <3>2. "port" \notin changed /\ Pipeline \cap changed = {}
        BY <2>4 DEF Scope, Pipeline
      <3>3. \A f \in PlaneFields : managed'[f] = mem[f]
        BY <2>3, <3>1, FieldNames DEF HotSwap, PlaneInv, PlaneFields
      <3>4. plane = NoPlane => plane' = NoPlane
        BY <3>1 DEF HotSwap
      <3>5. plane # NoPlane =>
              plane'.codec = plane.codec /\ plane'.modeline = plane.modeline
              /\ plane'.volume = IF "volume" \in changed THEN Effective(mem["volume"]) ELSE plane.volume
        BY <1>1, <2>3, <3>1 DEF HotSwap
      <3>6. \A f \in PlaneFields : Lags(c, f) => f = "volume" /\ f \in changed
        BY <2>1, <3>2 DEF Lags, changed
      <3>7. plane # NoPlane /\ ~told => \A f \in PlaneFields : Plays(f)'
        BY <2>1, <2>2, <3>5, <3>6 DEF PlaneInv, Plays, Effective, PlaneFields
      <3> QED
        BY <2>1, <3>1, <3>3, <3>4, <3>7 DEF PlaneInv, PlaneFields, NoPlane
    <2>5. CASE Scope(changed) = "restart-cast"
      <3>1. UNCHANGED <<managed, plane>> /\ (~told' => ~told)
        BY <2>1, <2>5 DEF manager
      <3>2. \A f \in PlaneFields : ~Lags(c, f)
        BY <2>1, <2>5 DEF Lags, Scope, Pipeline, changed
      <3> QED
        BY <1>3, <2>1, <2>2, <3>1, <3>2
    <2>6. CASE Scope(changed) = "restart-bridge"
      BY <2>1, <2>6 DEF PlaneInv, manager
    <2> QED
      BY <2>4, <2>5, <2>6 DEF Scope
  <1>10. CASE StartCast
    <2>1. UNCHANGED <<mem, managed, muted, client, told>>
          /\ plane' = [codec |-> managed["codec"], modeline |-> managed["modeline"],
                       tone |-> managed["tone"], volume |-> Effective(managed["volume"])]
      BY <1>10 DEF StartCast
    <2>2. \A f \in PlaneFields : Plays(f)'
      BY <2>1 DEF PlaneInv, Plays, Effective, PlaneFields
    <2> QED
      BY <2>1, <2>2 DEF PlaneInv, PlaneFields
  <1>11. CASE EndCast
    BY <1>11 DEF EndCast, PlaneInv, NoPlane
  <1>12. CASE Mute
    <2>1. UNCHANGED <<mem, managed, client, told>>
          /\ plane' = InPlane("volume", Effective(managed["volume"])')
      BY <1>12 DEF Mute, Effective
    <2>2. plane = NoPlane => plane' = NoPlane
      BY <2>1 DEF InPlane
    <2>3. plane # NoPlane => plane'.codec = plane.codec /\ plane'.modeline = plane.modeline
                             /\ plane'.volume = Effective(mem["volume"])'
      BY <1>1, <2>1 DEF InPlane, PlaneInv
    <2>4. \A d \in Clients, f \in PlaneFields : Lags(d, f) => Lags(d, f)'
      BY <1>2, <2>1
    <2> QED
      BY <2>1, <2>2, <2>3, <2>4 DEF PlaneInv, Plays, PlaneFields, NoPlane
  <1>13. CASE Restart
    <2>1. plane' = NoPlane /\ managed' = mem'
      BY <1>13 DEF Restart, Boots
    <2> QED
      BY <2>1 DEF PlaneInv, NoPlane
  <1>14. CASE UNCHANGED vars
    BY <1>3, <1>14 DEF vars, manager, Lags
  <1> QED
    BY <1>4, <1>5, <1>6, <1>7, <1>8, <1>9, <1>10, <1>11, <1>12, <1>13, <1>14 DEF Next, Saver

-----------------------------------------------------------------------------
(* The tone, when one tab has its controls.                                *)

(* Every way into a save, with what it saves. *)
LEMMA Entered ==
    ASSUME SettingsAssumption, SettingsShape, OneSaves, NEW c \in Clients,
           SaveAudioDSP(c) \/ SaveFields(c) \/ SaveAudioDSPMemory(c)
    PROVE  LET new == client'[c].new IN
           \/ /\ \A f \in Fields \ Tone : new[f] = mem[f]
              /\ client[c].at \in {"commit", "recalled"} /\ new["slots"] = client[c].slots
           \/ /\ \A f \in Fields \ Tone : new[f] = mem[f]
              /\ client[c].at = "store" /\ new["slots"] # Unset
           \/ /\ \A f \in Tone : new[f] = mem[f]
              /\ client'[c].then # "reconcile"
  <1>1. client \in [Clients -> Requests] /\ mem \in [Fields -> Nat] /\ mem["slots"] \in Live /\ stores \in Nat
    BY SettingsAssumption DEF SettingsShape, Configs
  <1>2. ASSUME NEW new, NEW then, Saves(c, new, then)
        PROVE  client'[c].new = new /\ client'[c].then = then
    BY <1>1, <1>2 DEF Saves, Goes
  <1>3. CASE SaveAudioDSP(c)
    <2>1. PICK tone, then : Saves(c, WithDSP(Merged(c, tone)), then) /\ client[c].at \in {"commit", "recalled"}
      BY <1>3 DEF SaveAudioDSP, At
    <2> DEFINE new == WithDSP(Merged(c, tone))
    <2>2. new["slots"] = client[c].slots /\ \A f \in Fields \ Tone : new[f] = mem[f]
      BY <1>1, FieldNames DEF WithDSP, Merged, Tone
    <2> HIDE DEF new
    <2>3. client'[c].new = new
      BY <1>2, <2>1 DEF new
    <2> QED
      BY <2>1, <2>2, <2>3
  <1>4. CASE SaveAudioDSPMemory(c)
    <2> DEFINE into == IF mem["slots"] = Unset THEN stores + 2 ELSE mem["slots"]
               new  == [mem EXCEPT !["slots"] = into]
    <2>1. Saves(c, new, "answer") /\ client[c].at = "store"
      BY <1>4 DEF SaveAudioDSPMemory, At
    <2>2. new["slots"] # Unset /\ \A f \in Fields \ Tone : new[f] = mem[f]
      BY <1>1, FieldNames DEF Tone, Unset
    <2> HIDE DEF new
    <2>3. client'[c].new = new
      BY <1>2, <2>1
    <2> QED
      BY <2>1, <2>2, <2>3
  <1>5. CASE SaveFields(c)
    <2>1. PICK touched \in ({{"volume"}} \cup (SUBSET Drawer \ {{}})) :
             \E values \in [touched -> Values] :
                Saves(c, [f \in Fields |-> IF f \in touched THEN values[f] ELSE mem[f]], "answer")
      BY <1>5 DEF SaveFields
    <2>2. PICK values \in [touched -> Values] :
                Saves(c, [f \in Fields |-> IF f \in touched THEN values[f] ELSE mem[f]], "answer")
      BY <2>1
    <2> DEFINE new == [f \in Fields |-> IF f \in touched THEN values[f] ELSE mem[f]]
    <2>3. \A f \in Tone : new[f] = mem[f]
      BY <1>1, <2>1, FieldNames, SettingsAssumption DEF Tone, AllDrawer
    <2> HIDE DEF new
    <2>4. client'[c].new = new /\ client'[c].then = "answer"
      BY <1>2, <2>2 DEF new
    <2> QED
      BY <2>3, <2>4
  <1> QED
    BY <1>3, <1>4, <1>5

(* What a publication finds changed in the tone. *)
LEMMA ChangedTone ==
    ASSUME SettingsShape, NEW c \in Clients, client[c].at = "written"
    PROVE  /\ "tone" \in Changed(c) <=> client[c].new["tone"] # mem["tone"]
           /\ client[c].new["slots"] = mem["slots"] => "slots" \notin Changed(c)
           /\ client[c].new["slots"] # Unset /\ mem["slots"] = Unset => "slots" \in Changed(c)
           /\ \A f \in Fields \ Tone : f \in Changed(c) <=> client[c].new[f] # mem[f]
  <1>1. client[c].new \in Configs /\ mem \in Configs
    BY RequestKinds DEF SettingsShape
  <1> QED
    BY <1>1, FieldNames DEF Changed, Image, Configs, Live, Values, Unset, Tone

(* The end of a save, as the tone sees it. *)
LEMMA AppliedTone ==
    ASSUME SettingsShape, OneSaves, FileInv, ToneInv, NEW c \in Clients, Apply(c)
    PROVE  /\ mem' = mem
           /\ \/ runtime'.tone = mem["tone"] /\ runtime'.slots = mem["slots"]
              \/ /\ runtime' = runtime /\ (persisted' => persisted)
                 /\ client[c].changed \cap Tone = {}
  <1> DEFINE changed == client[c].changed
             new     == client[c].new
  <1>1. mem' = mem /\ client[c].at = "dropped"
        /\ IF Scope(changed) = "hot-swap" THEN HotSwap(new, changed) ELSE UNCHANGED manager
    BY DEF Apply, At
  <1>2. new = mem
    BY <1>1 DEF FileInv, Applies
  <1>3. changed \cap Tone = {} \/ changed \subseteq Tone
    BY <1>1 DEF ToneInv, Applies
  <1> HIDE DEF changed, new
  <1>4. changed \subseteq Tone => Scope(changed) = "hot-swap"
    BY DEF Scope, Tone
  <1>5. CASE changed \cap Tone = {}
    <2>1. {"tone", "slots"} \cap changed = {}
      BY <1>5 DEF Tone
    <2>2. runtime' = runtime /\ (persisted' => persisted)
      BY <1>1, <2>1 DEF HotSwap, manager
    <2> QED
      BY <1>1, <1>5, <2>2 DEF changed
  <1>6. CASE changed \cap Tone # {}
    <2>1. HotSwap(new, changed) /\ {"tone", "slots"} \cap changed # {}
      BY <1>1, <1>3, <1>4, <1>6 DEF Tone
    <2>2. runtime' = [tone |-> new["tone"], slots |-> new["slots"]]
      BY <2>1 DEF HotSwap
    <2> QED
      BY <1>1, <1>2, <2>2
  <1> QED
    BY <1>5, <1>6

LEMMA ToneStep ==
    ASSUME SettingsAssumption, OneToneTab, SettingsShape, OneSaves, FileInv, ToneInv, [Next]_vars
    PROVE  ToneInv'
  <1> USE DEF At
  <1>1. client \in [Clients -> Requests]
    BY DEF SettingsShape
  <1> DEFINE Fits(d) ==
        /\ client[d].at \in ToneOperations \cup {"recalled", "reconcile", "reset"} => HasTone(d)
        /\ client[d].at \in {"saving", "written"} =>
              /\ \A f \in Tone : HasTone(d) \/ client[d].new[f] = mem[f]
              /\ client[d].then = "reconcile" => HasTone(d)
              /\ \/ \A f \in Tone : client[d].new[f] = mem[f]
                 \/ \A f \in Fields \ Tone : client[d].new[f] = mem[f]
        /\ client[d].at \in Applies =>
              /\ client[d].changed \cap Tone = {} \/ client[d].changed \subseteq Tone
              /\ HasTone(d) \/ client[d].changed \cap Tone = {}
        /\ At(d, "reset") => client[d].tone = mem["tone"]
      Heard == persisted => \/ runtime.tone = mem["tone"]
                            \/ \E d \in Clients : client[d].at \in Applies /\ "tone" \in client[d].changed
  <1>2. ToneInv <=> (\A d \in Clients : Fits(d)) /\ Heard
    BY DEF ToneInv
  <1>3. ToneInv' <=> (\A d \in Clients : Fits(d)') /\ Heard'
    BY DEF ToneInv
  <1>4. ASSUME mem' = mem, NEW d \in Clients, client'[d] = client[d] PROVE Fits(d)'
    BY <1>2, <1>4 DEF HasTone
  <1>5. ASSUME UNCHANGED <<mem, runtime, persisted>>,
               \A d \in Clients : client'[d] = client[d] \/ client[d].at \notin Applies
        PROVE  Heard'
    BY <1>2, <1>5 DEF Applies
  <1> HIDE DEF Fits, Heard
  <1>6. ASSUME NEW c \in Clients, Handler(c)
        PROVE  ToneInv'
    <2>1. mem' = mem /\ client[c].at \notin Stages /\ client'[c].at \notin Stages
          /\ \A d \in Clients \ {c} : client'[d] = client[d]
      BY <1>6, HandlerFrame
    <2>2. Fits(c)'
      <3>1. SUFFICES ASSUME \/ client'[c].at = "none"
                            \/ client'[c].at \in ToneOperations \cup {"recalled"} /\ HasTone(c)
                            \/ client'[c].at = "reset" /\ client'[c].tone = mem["tone"] /\ HasTone(c)
                     PROVE  Fits(c)'
        <4>1. Fits(c)
          BY <1>2
        <4>2. CASE ReadRuntime(c)
          BY <1>1, <3>1, <4>2 DEF ReadRuntime, Goes, HasTone, ToneOperations
        <4>3. CASE Preview(c) \/ Reconcile(c)
          BY <1>1, <3>1, <4>3 DEF Preview, Reconcile, Goes, Resting
        <4>4. CASE Recall(c)
          <5> DEFINE r == [client[c] EXCEPT !.at = "recalled", !.tone = array[mem["slots"]]]
          <5>1. client[c] \in [at : {"recall"}, tone : Values, slots : Live]
            BY <1>1, <4>4 DEF Recall, At, Requests, Applies
          <5>2. r.at = "recalled"
            BY <5>1
          <5>3. Goes(c, Resting) \/ Goes(c, r)
            BY <4>4 DEF Recall
          <5> HIDE DEF r
          <5>4. HasTone(c)
            BY <4>1, <4>4 DEF Fits, Recall, ToneOperations
          <5> QED
            BY <1>1, <3>1, <5>2, <5>3, <5>4 DEF Goes, Resting
        <4>5. CASE ReadCurrent(c)
          <5>1. HasTone(c)
            BY <4>1, <4>5 DEF Fits, ReadCurrent
          <5> QED
            BY <1>1, <3>1, <4>5, <5>1 DEF ReadCurrent, Goes
        <4> QED
          BY <1>6, <4>2, <4>3, <4>4, <4>5 DEF Handler
      <3> QED
        BY <2>1, <3>1 DEF Fits, Applies, ToneOperations, HasTone
    <2>3. Heard'
      <3>1. CASE ReadRuntime(c) \/ Recall(c) \/ ReadCurrent(c)
        <4>1. UNCHANGED <<runtime, persisted>>
          BY <3>1 DEF ReadRuntime, Recall, ReadCurrent, manager
        <4> QED
          BY <1>5, <2>1, <4>1 DEF Stages, Applies
      <3>2. CASE Preview(c)
        BY <3>2 DEF Preview, Audition, Heard
      <3>3. CASE Reconcile(c)
        BY <1>2, <2>1, <3>3 DEF Reconcile, SetsAudioDSP, Heard, Fits
      <3> QED
        BY <1>6, <3>1, <3>2, <3>3 DEF Handler
    <2> QED
      BY <1>3, <1>4, <2>1, <2>2, <2>3
  <1>7. ASSUME NEW c \in Clients, SaveAudioDSP(c) \/ SaveFields(c) \/ SaveAudioDSPMemory(c)
        PROVE  ToneInv'
    <2>1. /\ UNCHANGED <<mem, runtime, persisted>> /\ client'[c].at = "saving"
          /\ \A d \in Clients : client[d].at \notin Stages
          /\ \A d \in Clients \ {c} : client'[d] = client[d]
      BY <1>7, EnterFrame
    <2>2. Heard'
      BY <1>5, <2>1 DEF Stages, Applies
    <2>3. client[c].at \in {"commit", "recalled", "store"} => HasTone(c)
      BY <1>2 DEF Fits, ToneOperations
    <2>4. Fits(c)'
      BY <1>7, <2>1, <2>3, Entered DEF Fits, Applies, ToneOperations, HasTone
    <2> QED
      BY <1>3, <1>4, <2>1, <2>2, <2>4
  <1>8. ASSUME NEW c \in Clients, SaveFails(c) \/ Write(c)
        PROVE  ToneInv'
    <2>1. UNCHANGED <<mem, runtime, persisted>> /\ client[c].at = "saving"
      BY <1>8 DEF SaveFails, Write, MemoryUnmoved, manager
    <2>2. \A d \in Clients \ {c} : client'[d] = client[d]
      BY <1>8, SavingFrame
    <2>3. Heard'
      BY <1>5, <2>1, <2>2 DEF Applies
    <2>4. Fits(c)
      BY <1>2
    <2>5. CASE SaveFails(c)
      <3>1. IF client[c].then = "reconcile" THEN client'[c] = [at |-> "reconcile"] ELSE client'[c] = Resting
        BY <1>1, <2>5 DEF SaveFails, Goes
      <3>2. \/ client'[c].at = "reconcile" /\ HasTone(c)
            \/ client'[c].at = "none"
        BY <2>1, <2>4, <3>1 DEF Fits, Resting
      <3>3. Fits(c)'
        BY <3>2 DEF Fits, Applies, ToneOperations, HasTone
      <3> QED
        BY <1>3, <1>4, <2>1, <2>2, <2>3, <3>3
    <2>6. CASE Write(c)
      <3>1. client'[c].at = "written" /\ client'[c].new = client[c].new /\ client'[c].then = client[c].then
        BY <2>6, KeptInRequest
      <3>2. Fits(c)'
        BY <2>1, <2>4, <3>1 DEF Fits, Applies, ToneOperations, HasTone
      <3> QED
        BY <1>3, <1>4, <2>1, <2>2, <2>3, <3>2
    <2> QED
      BY <1>8, <2>5, <2>6
  <1>9. ASSUME NEW c \in Clients, Publish(c)
        PROVE  ToneInv'
    <2>1. UNCHANGED <<runtime, persisted>> /\ mem' = client[c].new /\ client[c].at = "written"
          /\ client'[c] = [at |-> "published", new |-> client[c].new, changed |-> Changed(c)]
      BY <1>1, <1>9 DEF Publish, Goes
    <2>2. \A d \in Clients \ {c} : client'[d] = client[d] /\ client[d].at \notin Stages
      BY <1>9, SavingFrame
    <2>3. Fits(c)
      BY <1>2
    <2>4. client'[c].at = "published" /\ client'[c].changed = Changed(c)
      BY <2>1
    <2>5. Fits(c)'
      <3>1. Changed(c) \cap Tone = {} \/ Changed(c) \subseteq Tone
        BY <2>1, <2>3, ChangedTone DEF Fits, Tone, Changed
      <3>2. HasTone(c) \/ Changed(c) \cap Tone = {}
        BY <2>1, <2>3, ChangedTone DEF Fits, Tone, Changed
      <3> QED
        BY <2>4, <3>1, <3>2 DEF Fits, Applies, ToneOperations, HasTone
    <2>6. ASSUME NEW d \in Clients \ {c} PROVE Fits(d)'
      <3>1. Fits(d) /\ client'[d] = client[d] /\ client[d].at \notin Stages
        BY <1>2, <2>2
      <3>2. client[d].at = "reset" => mem'["tone"] = mem["tone"]
        BY <2>1, <2>3, <3>1 DEF Fits, OneToneTab, HasTone, Tone
      <3> QED
        BY <3>1, <3>2 DEF Fits, Stages, Applies, HasTone
    <2>7. Heard'
      <3>1. persisted => runtime.tone = mem["tone"]
        BY <1>2, <2>1, <2>2 DEF Heard, Stages, Applies
      <3>2. mem'["tone"] = mem["tone"] \/ "tone" \in client'[c].changed
        BY <2>1, <2>4, ChangedTone
      <3> QED
        BY <2>1, <2>4, <3>1, <3>2 DEF Heard, Applies
    <2> QED
      BY <1>3, <2>5, <2>6, <2>7
  <1>10. ASSUME NEW c \in Clients, DropCast(c)
        PROVE  ToneInv'
    <2>1. UNCHANGED <<mem, runtime, persisted>> /\ client[c].at = "published"
      BY <1>10 DEF DropCast
    <2>2. \A d \in Clients \ {c} : client'[d] = client[d]
      BY <1>10, SavingFrame
    <2>3. client'[c].at = "dropped" /\ client'[c].changed = client[c].changed
      BY <1>10, KeptInRequest
    <2>4. Fits(c)'
      BY <1>2, <2>1, <2>3 DEF Fits, Applies, ToneOperations, HasTone
    <2>5. \A d \in Clients : client[d].at \in Applies => client'[d].at \in Applies
                                                         /\ client'[d].changed = client[d].changed
      BY <2>2, <2>3 DEF Applies
    <2>6. Heard'
      BY <1>2, <2>1, <2>5 DEF Heard
    <2> QED
      BY <1>3, <1>4, <2>1, <2>2, <2>4, <2>6
  <1>11. ASSUME NEW c \in Clients, Apply(c)
        PROVE  ToneInv'
    <2>1. client'[c].at = "none"
      BY <1>1, <1>11 DEF Apply, Goes, Resting
    <2>2. \A d \in Clients \ {c} : client'[d] = client[d] /\ client[d].at \notin Stages
      BY <1>11, SavingFrame
    <2>3. Fits(c)'
      BY <2>1 DEF Fits, Applies, ToneOperations, HasTone
    <2>4. Heard'
      BY <1>2, <1>11, <2>2, AppliedTone DEF Heard, Stages, Applies, Tone
    <2> QED
      BY <1>3, <1>4, <1>11, <2>2, <2>3, <2>4, AppliedTone
  <1>12. CASE StartCast \/ EndCast \/ Mute \/ UNCHANGED vars
    <2>1. UNCHANGED <<mem, runtime, persisted, client>>
      BY <1>12 DEF StartCast, EndCast, Mute, vars, manager
    <2> QED
      BY <1>3, <1>4, <1>5, <2>1
  <1>13. CASE Restart
    <2>1. client' = [d \in Clients |-> Resting] /\ runtime' = [tone |-> mem'["tone"], slots |-> mem'["slots"]]
      BY <1>13 DEF Restart, Boots
    <2>2. ASSUME NEW d \in Clients PROVE Fits(d)'
      BY <2>1 DEF Fits, Resting, Applies, ToneOperations
    <2>3. Heard'
      BY <2>1 DEF Heard
    <2> QED
      BY <1>3, <2>2, <2>3
  <1> QED
    BY <1>6, <1>7, <1>8, <1>9, <1>10, <1>11, <1>12, <1>13 DEF Next, Saver

-----------------------------------------------------------------------------
(* The voicing, when one tab has the tone controls.                        *)

LEMMA SlotStep ==
    ASSUME SettingsAssumption, OneToneTab, SettingsShape, OneSaves, FileInv, ToneInv, SlotInv, [Next]_vars
    PROVE  SlotInv'
  <1> USE DEF At
  <1>1. client \in [Clients -> Requests] /\ mem \in Configs
    BY DEF SettingsShape
  <1> DEFINE Same(s) == s = Unset <=> mem["slots"] = Unset
      Fits(d) ==
        /\ client[d].at \in ToneOperations \cup {"recalled", "reset"} =>
              Same(client[d].slots) \/ At(d, "store")
        /\ client[d].at \in {"saving", "written"} /\ mem["slots"] # Unset =>
              client[d].new["slots"] # Unset
      Heard == \/ Same(runtime.slots)
               \/ \E d \in Clients : client[d].at \in Applies /\ "slots" \in client[d].changed
                                     /\ mem["slots"] # Unset
      Stored == /\ disk["slots"] # Unset /\ mem["slots"] = Unset => \E d \in Clients : At(d, "written")
                /\ disk["slots"] = Unset => mem["slots"] = Unset
  <1>2. SlotInv <=> (\A d \in Clients : Fits(d)) /\ Heard /\ Stored
    BY DEF SlotInv
  <1>3. SlotInv' <=> (\A d \in Clients : Fits(d)') /\ Heard' /\ Stored'
    BY DEF SlotInv
  <1>4. ASSUME mem' = mem, NEW d \in Clients, client'[d] = client[d] PROVE Fits(d)'
    BY <1>2, <1>4
  <1>5. ASSUME UNCHANGED <<mem, runtime>>,
               \A d \in Clients : client'[d] = client[d] \/ client[d].at \notin Applies
        PROVE  Heard'
    BY <1>2, <1>5
  <1>6. ASSUME UNCHANGED <<mem, disk>>,
               \A d \in Clients : client'[d] = client[d] \/ client[d].at # "written"
        PROVE  Stored'
    BY <1>2, <1>6
  <1> HIDE DEF Fits, Heard, Stored
  <1>7. ASSUME NEW c \in Clients, Handler(c)
        PROVE  SlotInv'
    <2>1. UNCHANGED <<mem, disk>> /\ client[c].at \notin Stages /\ client'[c].at \notin Stages
          /\ \A d \in Clients \ {c} : client'[d] = client[d]
      BY <1>7, HandlerFrame
    <2>2. Fits(c)
      BY <1>2
    <2>3. Fits(c)'
      <3>1. SUFFICES ASSUME client'[c].at \in ToneOperations \cup {"recalled", "reset"} =>
                               Same(client'[c].slots) \/ client'[c].at = "store"
                     PROVE  Fits(c)'
        <4>1. CASE ReadRuntime(c)
          <5>1. PICK op \in Operations[c] \cap ToneOperations :
                  client'[c] = [at |-> op, tone |-> runtime.tone, slots |-> runtime.slots]
            BY <1>1, <4>1 DEF ReadRuntime, Goes
          <5>2. client[c].at = "none" /\ HasTone(c)
            BY <4>1, <5>1 DEF ReadRuntime, HasTone
          <5>3. ASSUME NEW d \in Clients, client[d].at \in Applies, "slots" \in client[d].changed PROVE FALSE
            <6>1. HasTone(d)
              BY <5>3 DEF ToneInv, Tone
            <6> QED
              BY <5>2, <5>3, <6>1 DEF OneToneTab, HasTone, Applies
          <5>4. Same(runtime.slots)
            BY <1>2, <5>3 DEF Heard
          <5> QED
            BY <3>1, <5>1, <5>4
        <4>2. CASE Preview(c) \/ Reconcile(c)
          BY <1>1, <3>1, <4>2 DEF Preview, Reconcile, Goes, Resting, ToneOperations
        <4>3. CASE Recall(c)
          <5> DEFINE r == [client[c] EXCEPT !.at = "recalled", !.tone = array[mem["slots"]]]
          <5>1. client[c] \in [at : {"recall"}, tone : Values, slots : Live]
            BY <1>1, <4>3 DEF Recall, Requests, Applies
          <5>2. r.at = "recalled" /\ r.slots = client[c].slots
            BY <5>1
          <5>3. Goes(c, Resting) \/ Goes(c, r)
            BY <4>3 DEF Recall
          <5> HIDE DEF r
          <5>4. Same(client[c].slots)
            BY <2>2, <4>3 DEF Fits, Recall, ToneOperations
          <5> QED
            BY <1>1, <3>1, <5>2, <5>3, <5>4 DEF Goes, Resting, ToneOperations
        <4>4. CASE ReadCurrent(c)
          BY <1>1, <3>1, <4>4 DEF ReadCurrent, Goes
        <4> QED
          BY <1>7, <4>1, <4>2, <4>3, <4>4 DEF Handler
      <3> QED
        BY <2>1, <3>1 DEF Fits, Stages
    <2>4. Heard'
      <3>1. CASE ReadRuntime(c) \/ Recall(c) \/ ReadCurrent(c)
        BY <1>5, <2>1, <3>1 DEF ReadRuntime, Recall, ReadCurrent, manager, Stages, Applies
      <3>2. CASE Preview(c) \/ Reconcile(c)
        <4>1. runtime'.slots = client[c].slots /\ client[c].at \in {"preview", "reset"}
          BY <3>2 DEF Preview, Merged, Reconcile, SetsAudioDSP
        <4>2. Same(client[c].slots)
          BY <2>2, <4>1 DEF Fits, ToneOperations
        <4> QED
          BY <2>1, <4>1, <4>2 DEF Heard
      <3> QED
        BY <1>7, <3>1, <3>2 DEF Handler
    <2>5. Stored'
      BY <1>6, <2>1 DEF Stages
    <2> QED
      BY <1>3, <1>4, <2>1, <2>3, <2>4, <2>5
  <1>8. ASSUME NEW c \in Clients, SaveAudioDSP(c) \/ SaveFields(c) \/ SaveAudioDSPMemory(c)
        PROVE  SlotInv'
    <2>1. /\ UNCHANGED <<mem, disk, runtime>> /\ client'[c].at = "saving"
          /\ \A d \in Clients : client[d].at \notin Stages
          /\ \A d \in Clients \ {c} : client'[d] = client[d]
      BY <1>8, EnterFrame
    <2>2. Heard' /\ Stored'
      BY <1>5, <1>6, <2>1 DEF Stages, Applies
    <2>3. client[c].at \in {"commit", "recalled"} => Same(client[c].slots)
      BY <1>2 DEF Fits, ToneOperations
    <2>4. mem["slots"] # Unset => client'[c].new["slots"] # Unset
      BY <1>8, <2>3, Entered DEF Tone
    <2>5. Fits(c)'
      BY <2>1, <2>4 DEF Fits, ToneOperations
    <2> QED
      BY <1>3, <1>4, <2>1, <2>2, <2>5
  <1>9. ASSUME NEW c \in Clients, SaveFails(c)
        PROVE  SlotInv'
    <2>1. UNCHANGED <<mem, disk, runtime>> /\ client[c].at = "saving"
      BY <1>9 DEF SaveFails, MemoryUnmoved, manager
    <2>2. \A d \in Clients \ {c} : client'[d] = client[d]
      BY <1>9, SavingFrame
    <2>3. client'[c].at \in {"reconcile", "none"}
      BY <1>1, <1>9 DEF SaveFails, Goes, Resting
    <2>4. Fits(c)'
      BY <2>3 DEF Fits, ToneOperations
    <2> QED
      BY <1>3, <1>4, <1>5, <1>6, <2>1, <2>2, <2>4 DEF Applies
  <1>10. ASSUME NEW c \in Clients, Write(c)
        PROVE  SlotInv'
    <2>1. UNCHANGED <<mem, runtime>> /\ client[c].at = "saving" /\ disk' = Image(client[c].new, array)
      BY <1>10 DEF Write, manager
    <2>2. \A d \in Clients \ {c} : client'[d] = client[d]
      BY <1>10, SavingFrame
    <2>3. client'[c].at = "written" /\ client'[c].new = client[c].new
      BY <1>10, KeptInRequest
    <2>4. mem["slots"] # Unset => client[c].new["slots"] # Unset
      BY <1>2, <2>1 DEF Fits
    <2>5. client[c].new \in Configs
      BY <1>1, <2>1, RequestKinds
    <2>6. client[c].new["slots"] # Unset => disk'["slots"] # Unset
      BY <2>1, <2>5, FieldNames DEF Image, Configs, Live, Values, Unset
    <2>7. Stored'
      BY <2>1, <2>3, <2>4, <2>6 DEF Stored
    <2>8. Fits(c)'
      BY <2>1, <2>3, <2>4 DEF Fits, ToneOperations
    <2> QED
      BY <1>3, <1>4, <1>5, <2>1, <2>2, <2>7, <2>8 DEF Applies
  <1>11. ASSUME NEW c \in Clients, Publish(c)
        PROVE  SlotInv'
    <2>1. UNCHANGED <<runtime, disk>> /\ mem' = client[c].new /\ client[c].at = "written"
          /\ client'[c] = [at |-> "published", new |-> client[c].new, changed |-> Changed(c)]
      BY <1>1, <1>11 DEF Publish, Goes
    <2>2. \A d \in Clients \ {c} : client'[d] = client[d] /\ client[d].at \notin Stages
      BY <1>11, SavingFrame
    <2>3. client'[c].at = "published" /\ client'[c].changed = Changed(c)
      BY <2>1
    <2>4. client[c].new \in Configs /\ disk = Image(client[c].new, array)
      BY <1>1, <2>1, RequestKinds DEF FileInv
    <2>5. disk["slots"] = Unset <=> client[c].new["slots"] = Unset
      BY <2>4, FieldNames DEF Image, Configs, Live, Values, Unset
    <2>6. mem["slots"] # Unset => client[c].new["slots"] # Unset
      BY <1>2, <2>1 DEF Fits
    <2>7. Stored'
      BY <2>1, <2>5 DEF Stored
    <2>8. Fits(c)'
      BY <2>3 DEF Fits, ToneOperations
    <2>9. ASSUME NEW d \in Clients \ {c} PROVE Fits(d)'
      <3>1. Fits(d) /\ client'[d] = client[d] /\ client[d].at \notin Stages
        BY <1>2, <2>2
      <3>2. client[d].at \in ToneOperations \cup {"recalled", "reset"} => mem'["slots"] = mem["slots"]
        <4>1. SUFFICES ASSUME HasTone(d) PROVE mem'["slots"] = mem["slots"]
          BY DEF ToneInv
        <4>2. ~HasTone(c)
          BY <4>1 DEF OneToneTab, HasTone
        <4> QED
          BY <2>1, <4>2 DEF ToneInv, Tone
      <3> QED
        BY <3>1, <3>2 DEF Fits, Stages
    <2>10. Heard'
      <3>1. Same(runtime.slots)
        BY <1>2, <2>1, <2>2 DEF Heard, Stages, Applies
      <3>2. CASE (client[c].new["slots"] = Unset) <=> (mem["slots"] = Unset)
        BY <2>1, <3>1, <3>2 DEF Heard
      <3>3. CASE client[c].new["slots"] # Unset /\ mem["slots"] = Unset
        BY <2>1, <2>3, <3>3, ChangedTone DEF Heard, Applies
      <3> QED
        BY <2>6, <3>2, <3>3
    <2> QED
      BY <1>3, <2>7, <2>8, <2>9, <2>10
  <1>12. ASSUME NEW c \in Clients, DropCast(c)
        PROVE  SlotInv'
    <2>1. UNCHANGED <<mem, disk, runtime>> /\ client[c].at = "published"
      BY <1>12 DEF DropCast
    <2>2. \A d \in Clients \ {c} : client'[d] = client[d]
      BY <1>12, SavingFrame
    <2>3. client'[c].at = "dropped" /\ client'[c].changed = client[c].changed
      BY <1>12, KeptInRequest
    <2>4. Fits(c)'
      BY <2>3 DEF Fits, ToneOperations
    <2>5. \A d \in Clients : client[d].at \in Applies => client'[d].at \in Applies
                                                         /\ client'[d].changed = client[d].changed
      BY <2>2, <2>3 DEF Applies
    <2>6. Heard'
      BY <1>2, <2>1, <2>5 DEF Heard
    <2> QED
      BY <1>3, <1>4, <1>6, <2>1, <2>2, <2>4, <2>6
  <1>13. ASSUME NEW c \in Clients, Apply(c)
        PROVE  SlotInv'
    <2>1. client'[c].at = "none" /\ client[c].at = "dropped" /\ disk' = disk
      BY <1>1, <1>13 DEF Apply, Goes, Resting
    <2>2. \A d \in Clients \ {c} : client'[d] = client[d] /\ client[d].at \notin Stages
      BY <1>13, SavingFrame
    <2>3. Fits(c)'
      BY <2>1 DEF Fits, ToneOperations
    <2>4. Heard'
      BY <1>2, <1>13, <2>2, AppliedTone DEF Heard, Stages, Applies, Tone
    <2> QED
      BY <1>3, <1>4, <1>6, <1>13, <2>1, <2>2, <2>3, <2>4, AppliedTone
  <1>14. CASE StartCast \/ EndCast \/ Mute \/ UNCHANGED vars
    <2>1. UNCHANGED <<mem, disk, runtime, client>>
      BY <1>14 DEF StartCast, EndCast, Mute, vars, manager
    <2> QED
      BY <1>3, <1>4, <1>5, <1>6, <2>1
  <1>15. CASE Restart
    <2>1. client' = [d \in Clients |-> Resting] /\ disk' = disk
          /\ runtime' = [tone |-> mem'["tone"], slots |-> mem'["slots"]]
          /\ mem' = [disk EXCEPT !["slots"] = IF @ = Unset THEN Unset ELSE 1]
      BY <1>15 DEF Restart, Boots
    <2>2. ASSUME NEW d \in Clients PROVE Fits(d)'
      BY <2>1 DEF Fits, Resting, ToneOperations
    <2>3. Heard'
      BY <2>1 DEF Heard
    <2>4. Stored'
      BY <2>1, FieldNames DEF Stored, SettingsShape, Unset
    <2> QED
      BY <1>3, <2>2, <2>3, <2>4
  <1> QED
    BY <1>7, <1>8, <1>9, <1>10, <1>11, <1>12, <1>13, <1>14, <1>15 DEF Next, Saver

-----------------------------------------------------------------------------
(* The theorems.                                                           *)

LEMMA SettingsInit == Init => FileInv /\ PlaneInv /\ ToneInv /\ SlotInv
  <1> SUFFICES ASSUME Init PROVE FileInv /\ PlaneInv /\ ToneInv /\ SlotInv
    OBVIOUS
  <1>1. \A c \in Clients : client[c].at = "none"
    BY DEF Init, Resting
  <1>2. FileInv
    BY <1>1, FieldNames DEF Init, FileInv, Agree, Image, First, At, Applies, Unset
  <1>3. PlaneInv
    BY DEF Init, PlaneInv
  <1>4. ToneInv
    BY <1>1, FieldNames DEF Init, ToneInv, At, Applies, ToneOperations, First
  <1>5. SlotInv
    BY <1>1, FieldNames DEF Init, SlotInv, At, Applies, ToneOperations, First
  <1> QED
    BY <1>2, <1>3, <1>4, <1>5

(* What holds for whatever the tabs may do. *)
LEMMA FileAndPlane == Spec => [](SettingsShape /\ OneSaves /\ FileInv /\ PlaneInv)
  <1>1. Init => SettingsShape /\ OneSaves /\ FileInv /\ PlaneInv
    BY ShapeInit, SettingsInit
  <1>2. SettingsShape /\ OneSaves /\ FileInv /\ PlaneInv /\ [Next]_vars
        => (SettingsShape /\ OneSaves /\ FileInv /\ PlaneInv)'
    BY SettingsAssumption, ShapeStep, FileStep, PlaneStep
  <1> QED
    BY <1>1, <1>2, PTL DEF Spec

LEMMA ToneAndSlots ==
    ASSUME OneToneTab
    PROVE  Spec => [](SettingsShape /\ OneSaves /\ FileInv /\ ToneInv /\ SlotInv)
  <1>1. Init => SettingsShape /\ OneSaves /\ FileInv /\ ToneInv /\ SlotInv
    BY ShapeInit, SettingsInit
  <1>2. SettingsShape /\ OneSaves /\ FileInv /\ ToneInv /\ SlotInv /\ [Next]_vars
        => (SettingsShape /\ OneSaves /\ FileInv /\ ToneInv /\ SlotInv)'
    BY SettingsAssumption, OneToneTab, ShapeStep, FileStep, ToneStep, SlotStep
  <1> QED
    BY <1>1, <1>2, PTL DEF Spec

(* Whatever the tabs do, between saves the file and the memory agree, but  *)
(* for a voicing stored over another.                                      *)
THEOREM FileIsMemory == Spec => []DiskIsMemory
  <1>1. OneSaves /\ FileInv => DiskIsMemory
    <2> SUFFICES ASSUME OneSaves, FileInv, holder = Nobody PROVE Agree
      BY DEF DiskIsMemory, Agree
    <2>1. \A c \in Clients : ~At(c, "written")
      BY SettingsAssumption DEF OneSaves, Stages, At
    <2> QED
      BY <2>1 DEF FileInv
  <1> QED
    BY <1>1, FileAndPlane, PTL

(* Whatever the tabs do, between saves the plane plays with what is saved, *)
(* unless the user was told to restart the bridge.                         *)
THEOREM PlaneFollows == Spec => []PlaneMatchesSaved
  <1>1. OneSaves /\ PlaneInv => PlaneMatchesSaved
    <2> SUFFICES ASSUME OneSaves, PlaneInv, holder = Nobody, ~told, plane # NoPlane
                 PROVE  /\ plane.codec = mem["codec"] /\ plane.modeline = mem["modeline"]
                        /\ plane.volume = Effective(mem["volume"])
      BY DEF PlaneMatchesSaved
    <2>1. \A c \in Clients : client[c].at \notin Stages
      BY SettingsAssumption DEF OneSaves
    <2>2. \A f \in PlaneFields : Plays(f)
      BY <2>1 DEF PlaneInv, PlaneFields, Lags, Stages, At
    <2> QED
      BY <2>2 DEF Plays, PlaneFields
  <1> QED
    BY <1>1, FileAndPlane, PTL

(* With the tone controls in one tab, what the Manager holds as saved is   *)
(* what was saved.                                                         *)
THEOREM SavedIsSaved == ASSUME OneToneTab PROVE Spec => []SavedOnceAndForAll
  <1>1. OneSaves /\ ToneInv => PersistedIsTrue
    <2> SUFFICES ASSUME OneSaves, ToneInv, holder = Nobody, persisted PROVE runtime.tone = mem["tone"]
      BY DEF PersistedIsTrue
    <2>1. \A c \in Clients : client[c].at \notin Stages
      BY SettingsAssumption DEF OneSaves
    <2> QED
      BY <2>1 DEF ToneInv, Stages, Applies
  <1> QED
    BY <1>1, FileIsMemory, ToneAndSlots, PTL DEF SavedOnceAndForAll

(* With the tone controls in one tab, no operation removes a voicing from  *)
(* the file.                                                               *)
THEOREM VoicingStays == ASSUME OneToneTab PROVE Spec => StoredIsKept
  <1> DEFINE Inv == SettingsShape /\ OneSaves /\ FileInv /\ ToneInv /\ SlotInv
  <1>1. Inv /\ [Next]_vars => [disk["slots"] # Unset => disk'["slots"] # Unset]_vars
    <2> SUFFICES ASSUME Inv, [Next]_vars, disk["slots"] # Unset PROVE disk'["slots"] # Unset
      OBVIOUS
    <2>1. ASSUME NEW c \in Clients, Write(c)
          PROVE  disk'["slots"] # Unset
      <3>1. client[c].at = "saving" /\ disk' = Image(client[c].new, array)
        BY <2>1 DEF Write, At
      <3>2. \A d \in Clients : ~At(d, "written")
        BY <2>1, <3>1, SavingFrame DEF Stages, At
      <3>3. client[c].new["slots"] # Unset
        BY <3>1, <3>2 DEF SlotInv
      <3>4. client[c].new \in Configs
        BY <3>1, RequestKinds DEF SettingsShape
      <3> QED
        BY <3>1, <3>3, <3>4, FieldNames DEF Image, Configs, Live, Values, Unset
    <2>2. (\E c \in Clients : Write(c)) \/ disk' = disk
      BY DEF Next, Handler, Saver, ReadRuntime, Preview, Recall, ReadCurrent, Reconcile, SaveAudioDSP,
             SaveAudioDSPMemory, SaveFields, SaveFails, Publish, DropCast, Apply, StartCast, EndCast,
             Mute, Restart, vars
    <2> QED
      BY <2>1, <2>2
  <1> QED
    BY <1>1, ToneAndSlots, PTL DEF Spec, StoredIsKept
=============================================================================
