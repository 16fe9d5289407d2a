------------------------- MODULE ConfigStoreProofs -------------------------
(***************************************************************************)
(* Proofs about ConfigStore, for any set of configurations, any range of   *)
(* generations and any number of faults.                                   *)
(***************************************************************************)
EXTENDS ConfigStore, TLAPS

USE ConstantsAssumption

(* A snapshot's generation is one, and the marks of an unusable slot are not snapshots. *)
LEMMA SnapshotType ==
    /\ \A b \in Snapshot : b.generation \in Generations
    /\ {Empty, Corrupt, Foreign, Unreadable, NoSnapshot} \intersect Snapshot = {}
BY DEF Snapshot, ConstantsAssumption

(* No generation is newer than itself, or at half the range. *)
LEMMA NewerComparable ==
    ASSUME NEW a \in Generations, NEW b \in Generations, Newer(a, b)
    PROVE  /\ Distance(a, b) \notin {0, HalfRange}
           /\ Distance(b, a) \notin {0, HalfRange}
           /\ ~Newer(b, a)
BY DEF Newer, Distance, Generations, ConstantsAssumption

(* Whether two generations can be compared does not depend on their order. *)
LEMMA ComparableSymmetric ==
    ASSUME NEW a \in Generations, NEW b \in Generations
    PROVE  Distance(a, b) \in {0, HalfRange} <=> Distance(b, a) \in {0, HalfRange}
BY DEF Distance, Generations, ConstantsAssumption

(* The slot that is chosen is a valid one, or there is none. *)
LEMMA ChosenSlot ==
    ASSUME TypeOK, SlotsComparable
    PROVE  /\ ChooseSlot(slots) \in Slots \union {NoSlot}
           /\ ChooseSlot(slots) \in Slots => slots[ChooseSlot(slots)] \in Snapshot
           /\ ChooseSlot(slots) = NoSlot <=> \A s \in Slots : slots[s] \notin Snapshot
           /\ Newest \in Snapshot \union {NoSnapshot}
           /\ Newest # NoSnapshot <=> ChooseSlot(slots) \in Slots
<1>1. Slots = {0, 1} /\ NoSlot = 2
  BY DEF Slots, NoSlot
<1>2. /\ ChooseSlot(slots) \in Slots \union {NoSlot}
      /\ ChooseSlot(slots) \in Slots => slots[ChooseSlot(slots)] \in Snapshot
      /\ ChooseSlot(slots) = NoSlot <=> \A s \in Slots : slots[s] \notin Snapshot
  BY <1>1 DEF ChooseSlot, SlotsComparable
<1>. QED
  BY <1>1, <1>2, SnapshotType DEF Newest

-----------------------------------------------------------------------------
(* A save is in progress exactly when there is a request.  Before its write the target is *)
(* the slot that is not current, and the request is newer than what the current one has;   *)
(* after it the request is what a load finds.                                              *)
WriteReady ==
    /\ request \in Snapshot
    /\ slots[target] # Foreign
    /\ ChooseSlot(slots) = NoSlot => target = 0
    /\ ChooseSlot(slots) # NoSlot =>
          /\ target = OtherSlot(ChooseSlot(slots))
          /\ Newer(request.generation, slots[ChooseSlot(slots)].generation)

SaveInv ==
    /\ phase = "idle" <=> request = NoSnapshot
    /\ phase # "idle" => on
    /\ phase = "write" => WriteReady
    /\ phase \in {"commit", "verify"} =>
          request \in attempts /\ slots[target] = request /\ Newest = request

IInv == TypeOK /\ SlotsComparable /\ SaveInv /\ AckedNotLost

(* The write puts the request in force; a torn one leaves the snapshot that was. *)
LEMMA WriteEffect ==
    ASSUME TypeOK, SlotsComparable, WriteReady, NEW b \in {request, Corrupt},
           slots' = [slots EXCEPT ![target] = b]
    PROVE  /\ SlotsComparable'
           /\ Newest' = IF b = request THEN request ELSE Newest
<1>1. /\ Slots = {0, 1} /\ NoSlot = 2 /\ target \in Slots /\ request \in Snapshot
      /\ slots \in [Slots -> Blobs]
      /\ request # Corrupt /\ Corrupt \notin Snapshot
  BY SnapshotType DEF Slots, NoSlot, TypeOK, WriteReady
<1>2. slots'[target] = b /\ \A s \in Slots \ {target} : slots'[s] = slots[s]
  BY <1>1
<1>3. CASE ChooseSlot(slots) = NoSlot
  <2>1. target = 0 /\ slots[1] \notin Snapshot /\ slots'[1] = slots[1] /\ slots'[0] = b
    BY <1>1, <1>2, <1>3, ChosenSlot DEF WriteReady
  <2>2. CASE b = request
    BY <1>1, <2>1, <2>2 DEF SlotsComparable, Newest, ChooseSlot
  <2>3. CASE b = Corrupt
    BY <1>1, <1>3, <2>1, <2>3 DEF SlotsComparable, Newest, ChooseSlot
  <2>. QED
    BY <2>2, <2>3
<1>4. CASE ChooseSlot(slots) # NoSlot
  <2>. DEFINE current == ChooseSlot(slots)
  <2>1. /\ current \in Slots /\ slots[current] \in Snapshot
        /\ target = OtherSlot(current)
        /\ Newer(request.generation, slots[current].generation)
        /\ Newest = slots[current]
    BY <1>1, <1>4, ChosenSlot DEF WriteReady, Newest
  <2>2. slots'[current] = slots[current] /\ slots'[OtherSlot(current)] = b
        /\ current # OtherSlot(current) /\ OtherSlot(current) \in Slots
    BY <1>1, <1>2, <2>1 DEF OtherSlot
  <2>. HIDE DEF current
  <2>3. CASE b = Corrupt
    <3>1. CASE current = 0
      <4>1. slots'[0] = slots[0] /\ slots'[0] \in Snapshot /\ slots'[1] = Corrupt
        BY <2>1, <2>2, <2>3, <3>1 DEF OtherSlot
      <4>. QED
        BY <1>1, <2>1, <2>3, <3>1, <4>1 DEF SlotsComparable, Newest, ChooseSlot
    <3>2. CASE current = 1
      <4>1. slots'[1] = slots[1] /\ slots'[1] \in Snapshot /\ slots'[0] = Corrupt
        BY <2>1, <2>2, <2>3, <3>2 DEF OtherSlot
      <4>. QED
        BY <1>1, <2>1, <2>3, <3>2, <4>1 DEF SlotsComparable, Newest, ChooseSlot
    <3>. QED
      BY <1>1, <2>1, <3>1, <3>2
  <2>4. CASE b = request
    <3>. DEFINE new == request.generation
                old == slots[current].generation
    <3>1. /\ new \in Generations /\ old \in Generations /\ Newer(new, old) /\ ~Newer(old, new)
          /\ Distance(new, old) \notin {0, HalfRange} /\ Distance(old, new) \notin {0, HalfRange}
      BY <1>1, <2>1, SnapshotType, NewerComparable
    <3>2. CASE current = 0
      <4>1. /\ slots'[0] \in Snapshot /\ slots'[1] = request
            /\ slots'[0].generation = old /\ slots'[1].generation = new
        BY <2>1, <2>2, <2>4, <3>2 DEF OtherSlot
      <4>. HIDE DEF new, old
      <4>. QED
        BY <1>1, <2>4, <3>1, <4>1 DEF SlotsComparable, Newest, ChooseSlot
    <3>3. CASE current = 1
      <4>1. /\ slots'[1] \in Snapshot /\ slots'[0] = request
            /\ slots'[1].generation = old /\ slots'[0].generation = new
        BY <2>1, <2>2, <2>4, <3>3 DEF OtherSlot
      <4>. HIDE DEF new, old
      <4>. QED
        BY <1>1, <2>4, <3>1, <4>1 DEF SlotsComparable, Newest, ChooseSlot
    <3>. QED
      BY <1>1, <2>1, <3>2, <3>3
  <2>. QED
    BY <2>3, <2>4
<1>. QED
  BY <1>3, <1>4

-----------------------------------------------------------------------------
(* The inductive invariant holds at first. *)
LEMMA InvInit == Init => IInv
<1> SUFFICES ASSUME Init PROVE IInv
  OBVIOUS
<1>1. /\ slots \in [Slots -> Blobs]
      /\ slots[0] \notin Snapshot \/ slots[1] \notin Snapshot
  <2>1. PICK b \in Snapshot \union {Empty, Foreign}, c \in {Empty, Foreign} :
            slots = [s \in Slots |-> IF s = 0 THEN b ELSE c]
    BY DEF Init, InitialSlots
  <2>2. slots[1] = c /\ c \notin Snapshot
    BY <2>1, SnapshotType DEF Slots
  <2>. QED
    BY <2>1, <2>2 DEF Blobs
<1>2. SlotsComparable
  BY <1>1 DEF SlotsComparable
<1>3. Newest \in Snapshot \union {NoSnapshot}
  BY <1>1 DEF Newest, ChooseSlot, NoSlot, Slots
<1>4. TypeOK
  <2>1. 0 \in Generations /\ 0 \in Slots /\ 0 \in 0 .. MaxFaults
    BY DEF Generations, Slots, ConstantsAssumption
  <2>. QED
    BY <1>1, <1>3, <2>1 DEF Init, TypeOK
<1>5. SaveInv /\ AckedNotLost
  BY DEF Init, SaveInv, AckedNotLost
<1>. QED
  BY <1>2, <1>4, <1>5 DEF IInv

(* Steps that write no slot and do not touch a save in progress. *)
LEMMA QuietStep ==
    ASSUME IInv, UNCHANGED <<slots, saveVars, history>>,
           on' = TRUE, TypeOK'
    PROVE  IInv'
<1>1. Newest' = Newest /\ ChooseSlot(slots') = ChooseSlot(slots)
  BY DEF Newest, ChooseSlot
<1>2. SlotsComparable' /\ AckedNotLost'
  BY <1>1 DEF IInv, SlotsComparable, AckedNotLost, history
<1>3. WriteReady' <=> WriteReady
  BY <1>1 DEF WriteReady, saveVars
<1>4. SaveInv'
  BY <1>1, <1>3 DEF IInv, SaveInv, saveVars, history
<1>. QED
  BY <1>2, <1>4 DEF IInv

(* Steps that end the save, and leave the slots alone. *)
LEMMA EndStep ==
    ASSUME IInv, UNCHANGED slots, EndSave, AckedNotLost', TypeOK'
    PROVE  IInv'
BY DEF IInv, SlotsComparable, SaveInv, EndSave

(* What a load finds is a function of the slots. *)
LEMMA SameNewest == UNCHANGED slots => Newest' = Newest
BY DEF Newest, ChooseSlot

(* Generations wrap. *)
LEMMA NextGenerationType == \A g \in Generations : NextGeneration(g) \in Generations
BY DEF NextGeneration, Generations, ConstantsAssumption

(* Fault stays within its bound. *)
LEMMA FaultType ==
    ASSUME faults \in 0 .. MaxFaults, NEW n \in Nat, Fault(n)
    PROVE  faults' \in 0 .. MaxFaults
BY DEF Fault, ConstantsAssumption

(* Every step keeps the inductive invariant. *)
LEMMA InvStep == IInv /\ [Next]_vars => IInv'
<1> SUFFICES ASSUME IInv, [Next]_vars PROVE IInv'
  OBVIOUS
<1>1. TypeOK /\ SlotsComparable /\ SaveInv /\ AckedNotLost
  BY DEF IInv
<1>2. ASSUME NEW failing \in SUBSET Slots, BootIdle(failing) PROVE IInv'
  <2>1. faults' \in 0 .. MaxFaults
    <3>1. PICK n \in {0, 1} : Fault(n)
      BY <1>2 DEF BootIdle
    <3>. QED
      BY <1>1, <3>1, FaultType DEF TypeOK
  <2>2. TypeOK'
    BY <1>1, <1>2, <2>1 DEF BootIdle, TypeOK, Generations, saveVars, history, ConstantsAssumption
  <2>. QED
    BY <1>2, <2>2, QuietStep DEF BootIdle
<1>3. ASSUME NEW failing \in SUBSET Slots, NEW derived \in BOOLEAN, BootLoads(failing, derived)
      PROVE  IInv'
  <2>1. faults' \in 0 .. MaxFaults
    <3>1. PICK n \in {0, 1, 2} : Fault(n)
      BY <1>3 DEF BootLoads
    <3>. QED
      BY <1>1, <3>1, FaultType DEF TypeOK
  <2>2. slots[ChooseSlot(Reading(failing))] \in Snapshot
    BY <1>3, SnapshotType DEF BootLoads, ChooseSlot, Reading, Slots, NoSlot
  <2>3. /\ slots[ChooseSlot(Reading(failing))].config \in Configs
        /\ slots[ChooseSlot(Reading(failing))].generation \in Generations
    BY <2>2 DEF Snapshot, Saveable
  <2>4. TypeOK'
    BY <1>1, <1>3, <2>1, <2>3 DEF BootLoads, TypeOK, saveVars, history
  <2>. QED
    BY <1>3, <2>4, QuietStep DEF BootLoads
<1>4. ASSUME NEW draft \in Configs \union {DefaultConfig}, Edit(draft) PROVE IInv'
  <2>1. TypeOK'
    BY <1>1, <1>4 DEF Edit, Idle, TypeOK, saveVars, history
  <2>. QED
    BY <1>4, <2>1, QuietStep DEF Edit, Idle
<1>5. CASE Apply
  <2>1. generation' \in Generations
    BY <1>1, <1>5, NextGenerationType DEF Apply, TypeOK
  <2>2. TypeOK'
    BY <1>1, <1>5, <2>1 DEF Apply, Idle, TypeOK, saveVars, history
  <2>. QED
    BY <1>5, <2>2, QuietStep DEF Apply, Idle
<1>6. CASE Rollback
  <2>1. TypeOK'
    BY <1>1, <1>6 DEF Rollback, Idle, TypeOK, saveVars, history
  <2>. QED
    BY <1>6, <2>1, QuietStep DEF Rollback, Idle
<1>7. CASE SaveBegin
  <2>1. request' \in Snapshot /\ request'.generation = generation
    BY <1>1, <1>7 DEF SaveBegin, Saved, Snapshot, TypeOK
  <2>2. ChooseSlot(slots) \in Slots \union {NoSlot}
        /\ (Newest # NoSnapshot <=> ChooseSlot(slots) \in Slots)
        /\ (ChooseSlot(slots) \in Slots => Newest = slots[ChooseSlot(slots)])
    BY <1>1, ChosenSlot DEF Newest, Slots, NoSlot
  <2>3. target' \in Slots
    BY <1>7, <2>2 DEF SaveBegin, OtherSlot, Slots
  <2>4. TypeOK'
    BY <1>1, <1>7, <2>1, <2>3 DEF SaveBegin, TypeOK, shellVars, history
  <2>5. WriteReady'
    <3>1. UNCHANGED slots /\ ChooseSlot(slots)' = ChooseSlot(slots)
      BY <1>7 DEF SaveBegin, ChooseSlot
    <3>2. slots[target'] # Foreign
      BY <1>7, <2>3 DEF SaveBegin, Writable
    <3>3. ChooseSlot(slots) = NoSlot => target' = 0
      BY <1>7, <2>2 DEF SaveBegin, Slots, NoSlot
    <3>4. ChooseSlot(slots) # NoSlot =>
             /\ target' = OtherSlot(ChooseSlot(slots))
             /\ Newer(request'.generation, slots[ChooseSlot(slots)].generation)
      BY <1>7, <2>1, <2>2 DEF SaveBegin, Writable, Slots, NoSlot
    <3>. QED
      BY <2>1, <3>1, <3>2, <3>3, <3>4 DEF WriteReady
  <2>6. SaveInv'
    BY <1>7, <2>1, <2>5, SnapshotType DEF SaveBegin, Idle, SaveInv, shellVars
  <2>7. SlotsComparable' /\ AckedNotLost'
    BY <1>1, <1>7, SameNewest DEF SaveBegin, SlotsComparable, AckedNotLost, history
  <2>. QED
    BY <2>4, <2>6, <2>7 DEF IInv
<1>8. CASE SetBlob
  <2>1. WriteReady /\ request \in Snapshot /\ target \in Slots
    BY <1>1, <1>8 DEF SetBlob, SaveInv, WriteReady, TypeOK
  <2>2. SlotsComparable' /\ Newest' = request
    BY <1>1, <1>8, <2>1, WriteEffect DEF SetBlob
  <2>3. slots' \in [Slots -> Blobs] /\ slots'[target] = request
    BY <1>1, <1>8, <2>1 DEF SetBlob, TypeOK, Blobs
  <2>4. TypeOK'
    BY <1>1, <1>8, <2>1, <2>3 DEF SetBlob, TypeOK, shellVars
  <2>5. SaveInv' /\ AckedNotLost'
    BY <1>1, <1>8, <2>1, <2>2, <2>3, SnapshotType
       DEF SetBlob, SaveInv, AckedNotLost, WriteReady, shellVars
  <2>. QED
    BY <2>2, <2>4, <2>5 DEF IInv
<1>9. CASE Commit
  <2>1. TypeOK'
    BY <1>1, <1>9 DEF Commit, TypeOK, shellVars, history
  <2>2. SlotsComparable' /\ AckedNotLost' /\ SaveInv'
    BY <1>1, <1>9, SameNewest
       DEF Commit, SlotsComparable, AckedNotLost, SaveInv, shellVars, history
  <2>. QED
    BY <2>1, <2>2 DEF IInv
<1>10. CASE Verify
  <2>1. TypeOK'
    BY <1>1, <1>10 DEF Verify, EndSave, TypeOK, Slots, shellVars
  <2>2. Newest = request
    BY <1>1, <1>10 DEF Verify, SaveInv
  <2>3. AckedNotLost'
    BY <1>10, <2>2, SameNewest DEF Verify, AckedNotLost
  <2>. QED
    BY <1>10, <2>1, <2>3, EndStep DEF Verify
<1>11. CASE CallFails
  <2>1. faults' \in 0 .. MaxFaults
    BY <1>1, <1>11, FaultType DEF CallFails, TypeOK
  <2>2. TypeOK'
    BY <1>1, <1>11, <2>1 DEF CallFails, EndSave, TypeOK, Slots, shellVars, history
  <2>3. AckedNotLost'
    BY <1>1, <1>11, SameNewest DEF CallFails, AckedNotLost, history
  <2>. QED
    BY <1>11, <2>2, <2>3, EndStep DEF CallFails
<1>12. CASE PowerLoss
  <2>1. TypeOK'
    <3>1. 0 \in Generations /\ 0 \in Slots
      BY DEF Generations, Slots, ConstantsAssumption
    <3>. QED
      BY <1>1, <1>12, <3>1 DEF PowerLoss, LosesMemory, EndSave, TypeOK
  <2>2. AckedNotLost'
    BY <1>1, <1>12, SameNewest DEF PowerLoss, LosesMemory, AckedNotLost
  <2>. QED
    BY <1>12, <2>1, <2>2, EndStep DEF PowerLoss, LosesMemory
<1>13. CASE PowerLossInWrite
  <2>1. WriteReady /\ request \in Snapshot /\ target \in Slots
    BY <1>1, <1>13 DEF PowerLossInWrite, SaveInv, WriteReady, TypeOK
  <2>2. PICK outcome \in {slots[target], request, Corrupt} :
            slots' = [slots EXCEPT ![target] = outcome]
    BY <1>13 DEF PowerLossInWrite
  <2>3. slots' \in [Slots -> Blobs]
    BY <1>1, <2>1, <2>2 DEF TypeOK, Blobs
  <2>4. TypeOK'
    <3>1. 0 \in Generations /\ 0 \in Slots
      BY DEF Generations, Slots, ConstantsAssumption
    <3>. QED
      BY <1>1, <1>13, <2>1, <2>3, <3>1 DEF PowerLossInWrite, LosesMemory, EndSave, TypeOK
  <2>5. SlotsComparable' /\ Newest' \in {Newest, request}
    <3>1. CASE outcome = slots[target]
      <4>1. UNCHANGED slots
        BY <1>1, <2>1, <2>2, <3>1 DEF TypeOK
      <4>. QED
        BY <1>1, <4>1, SameNewest DEF SlotsComparable
    <3>2. CASE outcome \in {request, Corrupt}
      BY <1>1, <2>1, <2>2, <3>2, WriteEffect
    <3>. QED
      BY <2>2, <3>1, <3>2
  <2>6. AckedNotLost' /\ SaveInv'
    BY <1>1, <1>13, <2>5
       DEF PowerLossInWrite, LosesMemory, EndSave, AckedNotLost, SaveInv
  <2>. QED
    BY <2>4, <2>5, <2>6 DEF IInv
<1>14. CASE UNCHANGED vars
  <2>1. TypeOK'
    BY <1>1, <1>14 DEF vars, shellVars, saveVars, history, TypeOK
  <2>2. SlotsComparable' /\ AckedNotLost'
    BY <1>1, <1>14, SameNewest DEF vars, history, SlotsComparable, AckedNotLost
  <2>3. WriteReady' <=> WriteReady
    BY <1>14 DEF vars, saveVars, WriteReady, ChooseSlot
  <2>4. SaveInv'
    BY <1>1, <1>14, <2>3, SameNewest DEF vars, shellVars, saveVars, history, SaveInv
  <2>. QED
    BY <2>1, <2>2, <2>4 DEF IInv
<1>. QED
  BY <1>2, <1>3, <1>4, <1>5, <1>6, <1>7, <1>8, <1>9, <1>10, <1>11, <1>12, <1>13, <1>14 DEF Next

(* So it holds in every reachable state. *)
LEMMA Invariance == Spec => []IInv
BY InvInit, InvStep, PTL DEF Spec

-----------------------------------------------------------------------------
(* Every reachable state is well typed. *)
THEOREM TypeCorrect == Spec => []TypeOK
<1>1. IInv => TypeOK
  BY DEF IInv
<1>. QED
  BY <1>1, Invariance, PTL

(* save never leaves two valid slots of which neither is newer, whatever the range. *)
THEOREM Comparable == Spec => []SlotsComparable
<1>1. IInv => SlotsComparable
  BY DEF IInv
<1>. QED
  BY <1>1, Invariance, PTL

(* A snapshot whose save was acknowledged survives every crash and every failed call. *)
THEOREM AckedSurvives == Spec => []AckedNotLost
<1>1. IInv => AckedNotLost
  BY DEF IInv
<1>. QED
  BY <1>1, Invariance, PTL

(* A configuration of another version of the firmware is kept. *)
THEOREM ForeignSurvives == Spec => ForeignKept
<1>1. IInv /\ [Next]_vars => [\A s \in Slots : slots[s] = Foreign => slots'[s] = Foreign]_vars
  <2> SUFFICES ASSUME IInv, Next, NEW s \in Slots, slots[s] = Foreign
               PROVE  slots'[s] = Foreign
    BY DEF vars
  <2>1. CASE UNCHANGED slots
    BY <2>1
  <2>2. CASE phase = "write" /\ \E b : slots' = [slots EXCEPT ![target] = b]
    <3>1. slots[target] # Foreign /\ slots \in [Slots -> Blobs]
      BY <2>2 DEF IInv, SaveInv, WriteReady, TypeOK
    <3>. QED
      BY <2>2, <3>1
  <2>. QED
    BY <2>1, <2>2 DEF Next, BootIdle, BootLoads, Edit, Apply, Rollback, SaveBegin, SetBlob,
                      Commit, Verify, CallFails, PowerLoss, PowerLossInWrite
<1>. QED
  BY <1>1, Invariance, PTL DEF Spec, ForeignKept

(* What is being saved is what runs: the shell takes no other command meanwhile. *)
RequestInv == phase # "idle" => request = Saved

(* It stays so, since the configuration that runs and its generation change only while no *)
(* save is in progress, and a power failure ends the save.                                 *)
LEMMA RequestStep == SaveInv /\ RequestInv /\ [Next]_vars => RequestInv'
<1> SUFFICES ASSUME SaveInv, RequestInv, [Next]_vars PROVE RequestInv'
  OBVIOUS
<1>. USE DEF RequestInv, Saved
<1>1. ASSUME ~on, UNCHANGED saveVars PROVE RequestInv'
  BY <1>1 DEF SaveInv, saveVars
<1>2. ASSUME Idle, UNCHANGED saveVars PROVE RequestInv'
  BY <1>2 DEF Idle, saveVars
<1>3. CASE SaveBegin
  BY <1>3 DEF SaveBegin, shellVars
<1>4. CASE SetBlob \/ Commit
  BY <1>4 DEF SetBlob, Commit, shellVars
<1>5. CASE EndSave
  BY <1>5 DEF EndSave
<1>6. CASE UNCHANGED vars
  BY <1>6 DEF vars, shellVars, saveVars
<1>. QED
  BY <1>1, <1>2, <1>3, <1>4, <1>5, <1>6
     DEF Next, BootIdle, BootLoads, Edit, Apply, Rollback, Verify, CallFails, PowerLoss,
         PowerLossInWrite, LosesMemory

(* Nothing but the configuration that runs, under its own generation, reaches the flash: *)
(* whatever is staged meanwhile, and wherever the power fails.                             *)
THEOREM AppliedReachesFlash == Spec => OnlyAppliedReachesFlash
<1>1. Init => RequestInv
  BY DEF Init, RequestInv
<1>2. IInv /\ RequestInv /\ [Next]_vars => RequestInv'
  BY RequestStep DEF IInv
<1>3. IInv /\ RequestInv /\ [Next]_vars =>
        [\A s \in Slots : (slots'[s] # slots[s] /\ slots'[s] # Corrupt) =>
            slots'[s] = [config |-> applied, generation |-> generation]]_vars
  <2> SUFFICES ASSUME IInv, RequestInv, Next, NEW s \in Slots,
                      slots'[s] # slots[s], slots'[s] # Corrupt
               PROVE  slots'[s] = Saved
    BY DEF vars, Saved
  <2>1. slots \in [Slots -> Blobs] /\ target \in Slots
    BY DEF IInv, TypeOK
  <2>2. CASE UNCHANGED slots
    BY <2>2
  <2>3. CASE phase = "write" /\ \E b \in {slots[target], request, Corrupt} :
                                  slots' = [slots EXCEPT ![target] = b]
    BY <2>1, <2>3 DEF RequestInv
  <2>. QED
    BY <2>2, <2>3 DEF Next, BootIdle, BootLoads, Edit, Apply, Rollback, SaveBegin, SetBlob,
                      Commit, Verify, CallFails, PowerLoss, PowerLossInWrite
<1>. QED
  BY <1>1, <1>2, <1>3, Invariance, PTL DEF Spec, OnlyAppliedReachesFlash

(* The slots, generations and NVS calls implement the store whose snapshot is replaced *)
(* atomically: each step begins, installs, acknowledges or abandons a save, or is none  *)
(* of the store's business.                                                            *)
THEOREM Implements == Spec => AtomicSave
<1>. USE DEF Store!storeVars
<1>1. Init => Store!Init
  <2> SUFFICES ASSUME Init PROVE Store!Init
    OBVIOUS
  <2>1. Newest \in Snapshot \union {NoSnapshot}
    BY InvInit, ChosenSlot DEF IInv
  <2>. QED
    BY <2>1 DEF Init, Store!Init
<1>2. IInv /\ [Next]_vars => [Store!Next]_(Store!storeVars)
  <2> SUFFICES ASSUME IInv, [Next]_vars, ~UNCHANGED <<Newest, request, acked>> PROVE Store!Next
    OBVIOUS
  <2>1. TypeOK /\ SlotsComparable /\ SaveInv
    BY DEF IInv
  <2>2. CASE SaveBegin
    <3>1. Saved \in Snapshot /\ request = NoSnapshot
      BY <2>1, <2>2 DEF SaveBegin, Saved, Snapshot, TypeOK, SaveInv, Idle
    <3>2. Store!Begin(Saved)
      BY <2>2, <3>1, SameNewest DEF SaveBegin, Store!Begin, history
    <3>. QED
      BY <3>1, <3>2 DEF Store!Next
  <2>3. CASE SetBlob
    <3>1. Newest' = request /\ request # NoSnapshot
      BY <2>1, <2>3, WriteEffect DEF SetBlob, SaveInv
    <3>. QED
      BY <2>3, <3>1 DEF SetBlob, Store!Next, Store!Install
  <2>4. CASE Verify
    <3>1. Newest = request /\ request # NoSnapshot
      BY <2>1, <2>4 DEF Verify, SaveInv
    <3>. QED
      BY <2>4, <3>1, SameNewest DEF Verify, EndSave, Store!Next, Store!Acknowledge
  <2>5. CASE UNCHANGED <<slots, acked>> /\ EndSave
    <3>1. request # NoSnapshot /\ Newest' = Newest
      BY <2>5, SameNewest DEF EndSave
    <3>. QED
      BY <2>5, <3>1 DEF EndSave, Store!Next, Store!Abandon
  <2>6. CASE PowerLossInWrite
    <3>1. WriteReady /\ target \in Slots /\ request # NoSnapshot
      BY <2>1, <2>6 DEF PowerLossInWrite, SaveInv, TypeOK
    <3>2. PICK outcome \in {slots[target], request, Corrupt} :
              slots' = [slots EXCEPT ![target] = outcome]
      BY <2>6 DEF PowerLossInWrite
    <3>3. CASE outcome = slots[target]
      <4>1. UNCHANGED slots
        BY <2>1, <3>1, <3>2, <3>3 DEF TypeOK
      <4>. QED
        BY <2>6, <3>1, <4>1, SameNewest
           DEF PowerLossInWrite, LosesMemory, EndSave, Store!Next, Store!Abandon
    <3>4. CASE outcome \in {request, Corrupt}
      <4>1. Newest' \in {Newest, request}
        BY <2>1, <3>1, <3>2, <3>4, WriteEffect
      <4>. QED
        BY <2>6, <3>1, <4>1
           DEF PowerLossInWrite, LosesMemory, EndSave, Store!Next, Store!Abandon
    <3>. QED
      BY <3>2, <3>3, <3>4
  <2>7. CASE UNCHANGED <<slots, request, acked>>
    BY <2>7, SameNewest
  <2>. QED
    BY <2>2, <2>3, <2>4, <2>5, <2>6, <2>7
       DEF Next, BootIdle, BootLoads, Edit, Apply, Rollback, Commit, CallFails, PowerLoss,
           LosesMemory, vars, saveVars, history
<1>. QED
  BY <1>1, <1>2, Invariance, PTL DEF Spec, AtomicSave, Store!Spec
=============================================================================
