---------------------------- MODULE ConfigStore ----------------------------
(***************************************************************************)
(* The configuration service: rid::Shell's staged and applied              *)
(* configurations (components/rid_shell/shell.cpp), the two NVS slots of   *)
(* rid::NvsConfigStore (components/rid_config/nvs_store.cpp), and the      *)
(* start-up of main/app_main.cpp that joins them.                          *)
(*                                                                         *)
(* shell_task runs one command at a time, so a command is one step, except *)
(* save, which is one step per NVS call: the power can fail between any    *)
(* two of them, and during a write.  A command that is refused changes     *)
(* nothing but its reply, and is not a step; the conditions that refuse it *)
(* are the guards.                                                         *)
(*                                                                         *)
(* A blob is abstracted to what read_slot makes of it: a snapshot, Empty   *)
(* (NVS has no such key), Corrupt (size, magic, CRC or decoding wrong) or  *)
(* Foreign (another schema version).  NVS is external: nvs_set_blob writes *)
(* at once or fails without effect, a power failure during it leaves the   *)
(* old blob, the new one or a corrupt one, and nvs_commit adds no barrier, *)
(* but may report an error.  nvs_flash_erase, with which app_main answers  *)
(* an unusable partition, brings the flash back to Init and is left out.   *)
(***************************************************************************)
EXTENDS Integers

CONSTANTS
    Configs,             \* configurations that validate() accepts
    Oversized,           \* those of them encode_config refuses (a name above kMaxNameSize, ...)
    DefaultConfig,       \* default_config(): no site, no group, so not a valid one
    NoConfig,            \* Shell::applied_ without a value
    HalfRange,           \* half the range of a generation, 2^31 in the code
    Empty, Corrupt, Foreign, Unreadable,
    NoSnapshot,
    MaxFaults            \* bound: NVS and derivation errors over the whole run

Generations == 0 .. 2 * HalfRange - 1
Saveable == Configs \ Oversized
Snapshot == [config : Saveable, generation : Generations]
Blobs == Snapshot \union {Empty, Corrupt, Foreign}

ASSUME ConstantsAssumption ==
    /\ HalfRange \in Nat \ {0, 1}
    /\ MaxFaults \in Nat
    /\ Oversized \subseteq Configs
    /\ {DefaultConfig, NoConfig} \intersect Configs = {}
    /\ DefaultConfig # NoConfig
    /\ {Empty, Corrupt, Foreign, Unreadable, NoSnapshot} \intersect Snapshot = {}
    /\ NoSnapshot \notin {Empty, Corrupt, Foreign, Unreadable}
    /\ Empty # Corrupt /\ Foreign \notin {Empty, Corrupt}

Slots == {0, 1}                              \* kSlots: cfg_a, cfg_b
NoSlot == 2

(* Helpers.  Mutant_X is X with a bug; the runs show that a property sees it. *)

Mutant_OtherSlot(s) == s  \* rewrites the current slot in place
OtherSlot(s) == 1 - s

VARIABLES
    slots,             \* the two blobs in flash
    on,                \* the firmware has started
    staged,            \* Shell::staged_
    applied,           \* Shell::applied_
    generation,        \* Shell::generation_
    phase,             \* where shell_task is: "idle", or the NVS call of save it makes next
    request,           \* the snapshot being saved
    target,            \* the slot it goes to
    faults,            \* errors so far
    acked,             \* history: the snapshot of the last save that reported success
    attempts           \* history: snapshots written since, by saves that did not

shellVars == <<on, staged, applied, generation>>
saveVars == <<phase, request, target>>
history == <<acked, attempts>>
vars == <<slots, shellVars, saveVars, faults, history>>

-----------------------------------------------------------------------------
(* uint32_t subtraction of generations *)
Distance(left, right) ==
    IF left >= right THEN left - right ELSE left - right + 2 * HalfRange

Newer(left, right) == Distance(left, right) \in 1 .. HalfRange - 1

NextGeneration(g) == IF g = 2 * HalfRange - 1 THEN 0 ELSE g + 1

(* What read_slot returns for each slot when the reads of failing go wrong. *)
Reading(failing) == [s \in Slots |-> IF s \in failing THEN Unreadable ELSE slots[s]]

(* The slot choose_slot returns a value from. *)
Mutant_ChooseSlot(r) ==  \* the first valid slot, without a look at generations
    IF r[0] \in Snapshot THEN 0 ELSE IF r[1] \in Snapshot THEN 1 ELSE NoSlot
ChooseSlot(r) ==
    IF r[0] \in Snapshot /\ r[1] \in Snapshot
    THEN IF Distance(r[1].generation, r[0].generation) \in {0, HalfRange} THEN NoSlot
         ELSE IF Newer(r[1].generation, r[0].generation) THEN 1 ELSE 0
    ELSE IF r[0] \in Snapshot THEN 0
    ELSE IF r[1] \in Snapshot THEN 1
    ELSE NoSlot

(* The snapshot a load finds when no read fails. *)
Newest == IF ChooseSlot(slots) = NoSlot THEN NoSnapshot ELSE slots[ChooseSlot(slots)]

(* A new device, one that another version of the firmware left its configuration on, or *)
(* one that has saved once.                                                              *)
InitialSlots ==
    {[s \in Slots |-> Empty], [s \in Slots |-> Foreign]}
      \union {[s \in Slots |-> IF s = 0 THEN b ELSE Foreign] : b \in Snapshot \union {Empty}}
      \union {[s \in Slots |-> IF s = 0 THEN b ELSE Empty] : b \in Snapshot}

Init ==
    /\ slots \in InitialSlots
    /\ on = FALSE /\ staged = DefaultConfig /\ applied = NoConfig /\ generation = 0
    /\ phase = "idle" /\ request = NoSnapshot /\ target = 0
    /\ faults = 0
    /\ acked = Newest /\ attempts = {}

Fault(n) == faults + n <= MaxFaults /\ faults' = faults + n

-----------------------------------------------------------------------------
(* app_main loads, applies what it loaded, and hands the shell its state.  Without a *)
(* value the shell starts from default_config() and generation 0.                    *)
BootIdle(failing) ==
    /\ ~on
    /\ ChooseSlot(Reading(failing)) = NoSlot
    /\ Fault(IF failing = {} THEN 0 ELSE 1)
    /\ on' = TRUE
    /\ staged' = DefaultConfig /\ applied' = NoConfig /\ generation' = 0
    /\ UNCHANGED <<slots, saveVars, history>>

(* Runtime::apply can only refuse a loaded configuration when identity derivation fails. *)
BootLoads(failing, derived) ==
    LET loaded == slots[ChooseSlot(Reading(failing))] IN
    /\ ~on
    /\ ChooseSlot(Reading(failing)) # NoSlot
    /\ Fault((IF failing = {} THEN 0 ELSE 1) + (IF derived THEN 0 ELSE 1))
    /\ on' = TRUE
    /\ staged' = loaded.config
    /\ applied' = IF derived THEN loaded.config ELSE NoConfig
    /\ generation' = loaded.generation
    /\ UNCHANGED <<slots, saveVars, history>>

Idle == on /\ phase = "idle"

(* site set, group add, group delete, group clear *)
Edit(draft) ==
    /\ Idle
    /\ staged' = draft
    /\ UNCHANGED <<slots, on, applied, generation, saveVars, faults, history>>

(* config apply *)
Apply ==
    /\ Idle
    /\ staged \in Configs
    /\ applied' = staged
    /\ generation' = NextGeneration(generation)
    /\ UNCHANGED <<slots, on, staged, saveVars, faults, history>>

(* config rollback *)
Rollback ==
    /\ Idle
    /\ applied # NoConfig
    /\ staged' = applied
    /\ UNCHANGED <<slots, on, applied, generation, saveVars, faults, history>>

-----------------------------------------------------------------------------
(* save reads both slots before it writes, and goes on only when both can be read, *)
(* neither is of another version, and its generation is newer than the current one. *)
Mutant_Writable ==  \* the generation is not compared
    /\ \A s \in Slots : slots[s] # Foreign
    /\ (\A s \in Slots : slots[s] \in Snapshot) => ChooseSlot(slots) # NoSlot
Mutant_WritableForeign ==  \* a slot of another version counts as free
    Newest # NoSnapshot => Newer(generation, Newest.generation)
Writable ==
    /\ \A s \in Slots : slots[s] # Foreign
    /\ (\A s \in Slots : slots[s] \in Snapshot) => ChooseSlot(slots) # NoSlot
    /\ Newest # NoSnapshot => Newer(generation, Newest.generation)

(* The save callback receives the applied configuration and its generation. *)
Mutant_Saved == [config |-> staged, generation |-> generation]  \* what is being edited
Saved == [config |-> applied, generation |-> generation]

SaveBegin ==
    /\ Idle
    /\ applied \in Saveable
    /\ Writable
    /\ phase' = "write"
    /\ request' = Saved
    /\ target' = IF Newest = NoSnapshot THEN 0 ELSE OtherSlot(ChooseSlot(slots))
    /\ UNCHANGED <<slots, shellVars, faults, history>>

EndSave == phase' = "idle" /\ request' = NoSnapshot /\ target' = 0

(* nvs_set_blob *)
SetBlob ==
    /\ on /\ phase = "write"
    /\ slots' = [slots EXCEPT ![target] = request]
    /\ phase' = "commit"
    /\ attempts' = attempts \union {request}
    /\ UNCHANGED <<shellVars, request, target, faults, acked>>

(* Any of the three calls may fail; the reply is then OPERATION_FAILED. *)
CallFails ==
    /\ on /\ phase # "idle"
    /\ Fault(1)
    /\ EndSave
    /\ UNCHANGED <<slots, shellVars, history>>

(* nvs_commit *)
Commit ==
    /\ on /\ phase = "commit"
    /\ phase' = "verify"
    /\ UNCHANGED <<slots, shellVars, request, target, faults, history>>

(* The written slot is read back before success is reported. *)
Verify ==
    /\ on /\ phase = "verify"
    /\ slots[target] \in Snapshot
    /\ slots[target].generation = request.generation
    /\ EndSave
    /\ acked' = request
    /\ attempts' = {}
    /\ UNCHANGED <<slots, shellVars, faults>>

(* A power failure takes what is in memory, and may tear the blob that is being written. *)
LosesMemory ==
    /\ on
    /\ on' = FALSE /\ staged' = DefaultConfig /\ applied' = NoConfig /\ generation' = 0
    /\ EndSave
    /\ UNCHANGED <<faults, acked>>

PowerLoss == phase # "write" /\ LosesMemory /\ UNCHANGED <<slots, attempts>>

PowerLossInWrite ==
    /\ phase = "write"
    /\ LosesMemory
    /\ \E outcome \in {slots[target], request, Corrupt} :
           slots' = [slots EXCEPT ![target] = outcome]
    /\ attempts' = attempts \union {request}

Next ==
    \/ \E failing \in SUBSET Slots : BootIdle(failing)
    \/ \E failing \in SUBSET Slots, derived \in BOOLEAN : BootLoads(failing, derived)
    \/ \E draft \in Configs \union {DefaultConfig} : Edit(draft)
    \/ Apply
    \/ Rollback
    \/ SaveBegin
    \/ SetBlob
    \/ Commit
    \/ Verify
    \/ CallFails
    \/ PowerLoss
    \/ PowerLossInWrite

Spec == Init /\ [][Next]_vars

-----------------------------------------------------------------------------
(* Every variable keeps its type. *)
TypeOK ==
    /\ slots \in [Slots -> Blobs]
    /\ on \in BOOLEAN
    /\ staged \in Configs \union {DefaultConfig}
    /\ applied \in Configs \union {NoConfig}
    /\ generation \in Generations
    /\ phase \in {"idle", "write", "commit", "verify"}
    /\ request \in Snapshot \union {NoSnapshot}
    /\ target \in Slots
    /\ faults \in 0 .. MaxFaults
    /\ acked \in Snapshot \union {NoSnapshot}
    /\ attempts \subseteq Snapshot

(* Two valid slots always have generations of which one is newer, also after the uint32   *)
(* generation has wrapped: choose_slot's ambiguous case, in which a load finds nothing and *)
(* every save is refused, is out of reach of save and power failures.                      *)
SlotsComparable ==
    (slots[0] \in Snapshot /\ slots[1] \in Snapshot) =>
        Distance(slots[1].generation, slots[0].generation) \notin {0, HalfRange}

(* A snapshot whose save was reported as done is found by the next load, until a later    *)
(* save has written its own: no crash and no failed call of NvsConfigStore::save loses it. *)
AckedNotLost == Newest = acked \/ Newest \in attempts

(* What reaches the flash is the configuration that runs, under the generation it runs    *)
(* under, whatever has been staged since (shell-reference: unapplied edits are not saved). *)
OnlyAppliedReachesFlash ==
    [][\A s \in Slots :
          (slots'[s] # slots[s] /\ slots'[s] # Corrupt) =>
              slots'[s] = [config |-> applied, generation |-> generation]]_vars

(* A configuration that another version of the firmware has saved is never overwritten. *)
ForeignKept == [][\A s \in Slots : slots[s] = Foreign => slots'[s] = Foreign]_vars

(* The two slots with their generations implement a store of one snapshot that a save *)
(* replaces atomically.                                                               *)
Store == INSTANCE SnapshotStore WITH stored <- Newest, pending <- request
AtomicSave == Store!Spec
=============================================================================
