--------------------------- MODULE MCBleTransport ---------------------------
(***************************************************************************)
(* BleTransport without the values that are never read again: the locals   *)
(* of a thread outside the operation they belong to, and the ring slots    *)
(* that have been consumed.  States that differ in nothing else have the   *)
(* same steps, and no invariant reads those values, but TypeOK for their   *)
(* types.  Used as a VIEW, for invariants only.                            *)
(***************************************************************************)
EXTENDS BleTransport

UnreadSlots == {(UnreadFrom + k) % RingSize : k \in 0 .. Unread - 1}
UnreadCompletions == [i \in UnreadSlots |-> completions[i]]

\* poll's time, the bounds of its drain and the payload in its hands.
RuntimeLocals ==
    <<IF rpc \in {"idle", "unbind", "reset"} THEN {} ELSE {now0},
      IF rpc = "drain" THEN {<<drainRead, drainWrite>>} ELSE {},
      IF rpc \in {"configure", "start", "started"} THEN {selected} ELSE {}>>

HostLocals == IF hpc = "idle" THEN {} ELSE {event}

LiveState ==
    <<transportVars, UnreadCompletions, completionWrite, completionRead, overflows, gateVars,
      backendVars, rpc, RuntimeLocals, hpc, HostLocals, advertising, inputVars>>
=============================================================================
