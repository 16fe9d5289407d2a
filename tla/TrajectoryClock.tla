-------------------------- MODULE TrajectoryClock --------------------------
(***************************************************************************)
(* rid::TrajectoryEngine::extend_elapsed (components/rid_trajectory/       *)
(* trajectory.cpp): Runtime::tick hands the engine the elapsed time in 32  *)
(* bits, and the engine rebuilds the 64-bit time by watching it wrap.      *)
(*                                                                         *)
(* A time is a pair of its high and its low 32 bits; wrap_offset_ is the   *)
(* high part.  A tick samples every aircraft once, at the same instant; in *)
(* which order makes no difference, so any is allowed.  The engine         *)
(* remembers the last time per instance index, which counts from 0 in      *)
(* every group: aircraft of two groups share an entry.                     *)
(***************************************************************************)
EXTENDS Integers

CONSTANTS
    HalfRange,         \* half the range of the elapsed time, 2^31
    Aircraft,
    Entry,             \* aircraft -> its entry, instance_index % last_elapsed_.size()
    MaxGap,            \* the longest time between two ticks of a running fleet
    MaxHigh            \* bound: wraps of the elapsed time

Range == 2 * HalfRange
Entries == {Entry[a] : a \in Aircraft}
Time == [high : Nat, low : 0 .. Range - 1]

ASSUME ConstantsAssumption ==
    /\ HalfRange \in Nat \ {0}
    /\ Entry \in [Aircraft -> Nat]
    /\ MaxGap \in Nat /\ MaxGap < HalfRange
    /\ MaxHigh \in Nat

VARIABLES
    elapsed,           \* now - started_ms_, of the tick in progress
    waiting,           \* the aircraft this tick has still to sample
    initialized,       \* elapsed_initialized_
    lastElapsed,       \* last_elapsed_
    wraps,             \* wrap_offset_
    sampled            \* the extended time of the last sample

vars == <<elapsed, waiting, initialized, lastElapsed, wraps, sampled>>

Zero == [high |-> 0, low |-> 0]

(* Runtime::apply makes a new engine; the first tick follows within a gap. *)
Init ==
    /\ elapsed \in {[Zero EXCEPT !.low = gap] : gap \in 0 .. MaxGap}
    /\ waiting = Aircraft
    /\ initialized = [e \in Entries |-> FALSE]
    /\ lastElapsed = [e \in Entries |-> 0]
    /\ wraps = [e \in Entries |-> 0]
    /\ sampled = Zero

(* 64-bit addition *)
Plus(t, gap) ==
    IF t.low + gap < Range THEN [t EXCEPT !.low = @ + gap]
                           ELSE [high |-> t.high + 1, low |-> t.low + gap - Range]

Tick(gap) ==
    /\ waiting = {}
    /\ elapsed' = Plus(elapsed, gap)
    /\ elapsed'.high <= MaxHigh
    /\ waiting' = Aircraft
    /\ UNCHANGED <<initialized, lastElapsed, wraps, sampled>>

Mutant_Wrapped(e, low) == initialized[e] /\ lastElapsed[e] - low > HalfRange + 1  \* too high
Wrapped(e, low) ==
    /\ initialized[e]
    /\ low < lastElapsed[e]
    /\ lastElapsed[e] - low > HalfRange

(* sample, of which only the time is modelled *)
Sample(a) ==
    LET e == Entry[a] IN
    /\ a \in waiting
    /\ waiting' = waiting \ {a}
    /\ wraps' = [wraps EXCEPT ![e] = IF Wrapped(e, elapsed.low) THEN @ + 1 ELSE @]
    /\ initialized' = [initialized EXCEPT ![e] = TRUE]
    /\ lastElapsed' = [lastElapsed EXCEPT ![e] = elapsed.low]
    /\ sampled' = [high |-> wraps'[e], low |-> elapsed.low]
    /\ UNCHANGED elapsed

Next ==
    \/ \E gap \in 0 .. MaxGap : Tick(gap)
    \/ \E a \in Aircraft : Sample(a)

Spec == Init /\ [][Next]_vars

-----------------------------------------------------------------------------
(* Every variable keeps its type. *)
TypeOK ==
    /\ elapsed \in Time
    /\ waiting \subseteq Aircraft
    /\ initialized \in [Entries -> BOOLEAN]
    /\ lastElapsed \in [Entries -> 0 .. Range - 1]
    /\ wraps \in [Entries -> Nat]
    /\ sampled \in Time

(* Every trajectory is sampled at the true time since the fleet started, however often the *)
(* 32-bit time has wrapped and whichever aircraft share an entry: a shared entry counts a   *)
(* wrap once.                                                                               *)
SampledOnTime == [][\A a \in waiting : Sample(a) => sampled' = elapsed]_vars
=============================================================================
