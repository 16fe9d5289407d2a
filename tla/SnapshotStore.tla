--------------------------- MODULE SnapshotStore ---------------------------
(***************************************************************************)
(* What NvsConfigStore promises, without slots, checksums or generations   *)
(* (design section 10: a save replaces the previous valid snapshot         *)
(* atomically).  One snapshot is stored at any time.  A save in progress   *)
(* installs its snapshot at one instant, or never; once it has been        *)
(* acknowledged its snapshot is the stored one.  A save that is not        *)
(* acknowledged, because a call failed or the power did, leaves either the *)
(* old snapshot or the new one, and nothing else.                          *)
(***************************************************************************)
CONSTANTS Snapshot, NoSnapshot

VARIABLES
    stored,      \* what a load would find
    pending,     \* the save in progress
    acked        \* the last snapshot whose save was acknowledged

storeVars == <<stored, pending, acked>>

Init ==
    /\ stored \in Snapshot \union {NoSnapshot}
    /\ pending = NoSnapshot
    /\ acked = stored

Begin(s) ==
    /\ pending = NoSnapshot
    /\ pending' = s
    /\ UNCHANGED <<stored, acked>>

Install ==
    /\ pending # NoSnapshot
    /\ stored' = pending
    /\ UNCHANGED <<pending, acked>>

Acknowledge ==
    /\ pending # NoSnapshot
    /\ stored = pending
    /\ acked' = pending
    /\ pending' = NoSnapshot
    /\ UNCHANGED stored

Abandon ==
    /\ pending # NoSnapshot
    /\ stored' \in {stored, pending}
    /\ pending' = NoSnapshot
    /\ UNCHANGED acked

Next ==
    \/ \E s \in Snapshot : Begin(s)
    \/ Install
    \/ Acknowledge
    \/ Abandon

Spec == Init /\ [][Next]_storeVars
=============================================================================
