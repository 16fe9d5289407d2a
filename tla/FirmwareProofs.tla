----------------------------- MODULE FirmwareProofs -----------------------------
(***************************************************************************)
(* What holds of the running firmware for any fleets, any number of them,  *)
(* any queue capacity, dwell, retry time and number of polls.              *)
(*                                                                         *)
(* IInv is about Runtime and the clock: a step of a transport leaves both  *)
(* alone (RuntimeActs).  It contains two of the properties, which are      *)
(* inductive with the types.  AirInv is about the transports: what waits   *)
(* there was built at a time that has been sampled, what is of an older    *)
(* fleet before the present one began, and nothing on a band is older than *)
(* the frame sent last.  With both, a poll of the coordinator is described *)
(* by its effect on the queues alone (PollEffect), from which the rest     *)
(* follows: OldFleetFades, AirInOrder and the refinement of Tasks.         *)
(***************************************************************************)
EXTENDS Firmware, FiniteSetTheorems, TLAPS

(* Euclidean division, which the solver cannot use and prove in one step. *)
LEMMA Division ==
    ASSUME NEW a \in Int, NEW b \in Int, b > 0
    PROVE  /\ a \div b \in Int /\ a % b \in 0 .. b - 1
           /\ a = b * (a \div b) + (a % b)
           /\ a >= 0 => a \div b >= 0
<1>1. a = b * (a \div b) + (a % b)
  BY Z3
<1>2. a \div b \in Int /\ a % b \in 0 .. b - 1
  BY Z3
<1>3. a >= 0 => a \div b >= 0
  BY Z3
<1> QED BY <1>1, <1>2, <1>3

(* A quotient is at most c when the dividend is at most c times the divisor. *)
LEMMA Bounded ==
    ASSUME NEW a \in Nat, NEW b \in Nat \ {0}, NEW c \in Nat, a <= c * b
    PROVE  a \div b <= c
<1>1. a \div b \in Nat /\ b * (a \div b) <= a
  BY Division
<1>2. b * (a \div b) <= b * c
  BY <1>1
<1> DEFINE q == a \div b
<1>3. \A x, y \in Nat : b * x <= b * y => x <= y
  OBVIOUS
<1> QED BY <1>1, <1>2, <1>3

(* Divisible is being a multiple. *)
LEMMA Multiples ==
    ASSUME NEW a \in Int, NEW p \in Nat \ {0}
    PROVE  a % p = 0 <=> \E k \in Int : a = p * k
<1> DEFINE q == a \div p
<1>1. q \in Int /\ a % p \in 0 .. p - 1 /\ a = p * q + (a % p)
  <2> p \in Int /\ p > 0
    OBVIOUS
  <2> QED BY Division, Zenon
<1>2. ASSUME NEW k \in Int, a = p * k PROVE a % p = 0
  <2> DEFINE d == k - q
  <2>1. d \in Int /\ a % p = p * d
    BY <1>1, <1>2
  <2> HIDE DEF d
  <2>2. d >= 1 => p * d >= p
    BY <2>1
  <2>3. d <= -1 => p * d <= -p
    BY <2>1
  <2>4. d = 0
    BY <1>1, <2>1, <2>2, <2>3
  <2> QED BY <2>1, <2>4
<1>3. a % p = 0 => a = p * q
  BY <1>1
<1> QED BY <1>1, <1>2, <1>3

(* advance_due: the first time after t in whole periods from the old due time. *)
LEMMA DueAfter ==
    ASSUME NEW due \in Nat, NEW p \in Nat \ {0}, NEW t \in Nat, due <= t
    PROVE  /\ AdvanceDue(due, p, t) \in Nat
           /\ AdvanceDue(due, p, t) > t
           /\ AdvanceDue(due, p, t) <= t + p
<1> DEFINE q == (t - due) \div p
<1>1. q \in Nat /\ t - due = p * q + ((t - due) % p) /\ (t - due) % p \in 0 .. p - 1
  <2>1. t - due \in Int /\ t - due >= 0 /\ p \in Int /\ p > 0
    OBVIOUS
  <2>2. q \in Int /\ q >= 0 /\ t - due = p * q + ((t - due) % p) /\ (t - due) % p \in 0 .. p - 1
    BY <2>1, Division, Zenon
  <2> QED BY <2>2
<1>2. p * (q + 1) = p * q + p
  BY <1>1
<1> QED BY <1>1, <1>2 DEF AdvanceDue

(* Whole periods more leave a due time on the grid. *)
LEMMA StaysOnGrid ==
    ASSUME NEW due \in Nat, NEW p \in Nat \ {0}, NEW t \in Nat, NEW first \in Nat, due <= t,
           (due - first) % p = 0
    PROVE  (AdvanceDue(due, p, t) - first) % p = 0
<1>1. PICK k \in Int : due - first = p * k
  BY Multiples
<1> DEFINE q == (t - due) \div p
<1>2. q \in Nat
  BY Division
<1> DEFINE r == q + 1
           x == p * r
           y == p * k
<1>3. AdvanceDue(due, p, t) = due + x
  BY DEF AdvanceDue
<1>4. r \in Int
  BY <1>2
<1> HIDE DEF q, r
<1>5. p * (k + r) = y + x /\ x \in Int /\ y \in Int /\ due - first = y
  BY <1>1, <1>4
<1> HIDE DEF x, y
<1>6. due + x - first = p * (k + r) /\ due + x - first \in Int
  BY <1>5
<1>7. \E j \in Int : due + x - first = p * j
  BY <1>4, <1>6
<1>8. (due + x - first) % p = 0
  <2> DEFINE a == due + x - first
  <2>1. a \in Int /\ \E j \in Int : a = p * j
    BY <1>6, <1>7
  <2> HIDE DEF a
  <2>2. a % p = 0
    BY <2>1, Multiples
  <2> QED BY <2>2 DEF a
<1> QED BY <1>3, <1>8 DEF q, r, x

(* The first due time of a message lies within one period of the start. *)
LEMMA FirstDueWithinPeriod ==
    ASSUME NEW f \in Seq(Craft), NEW i \in DOMAIN f, NEW k \in Kinds, NEW t \in Nat
    PROVE  /\ f[i].period[k] \in Nat \ {0}
           /\ FirstDue(f, i, k, t) \in Nat
           /\ FirstDue(f, i, k, t) >= t
           /\ FirstDue(f, i, k, t) <= t + f[i].period[k]
<1> DEFINE p == f[i].period[k]
           n == Len(f)
<1>1. p \in Nat \ {0} /\ n \in Nat \ {0} /\ i \in 1 .. n
  <2>1. n \in Nat /\ i \in 1 .. n /\ f[i] \in Craft
    OBVIOUS
  <2> QED BY <2>1 DEF Craft
<1>2. k \in Nat /\ k < KindCount /\ KindCount \in Nat \ {0}
  BY ConstantsAssumption DEF Kinds, Location
<1>3. \A a \in Nat, b \in Nat \ {0} :
        a <= p * b => t + a \div b \in Nat /\ t + a \div b >= t /\ t + a \div b <= t + p
  <2> SUFFICES ASSUME NEW a \in Nat, NEW b \in Nat \ {0}, a <= p * b
               PROVE  a \div b \in Nat /\ a \div b <= p
    <3> HIDE DEF p
    <3>. QED
      BY <1>1
  <2> HIDE DEF p
  <2>1. a \div b <= p
    BY <1>1, Bounded
  <2>2. b \in Int /\ b > 0 /\ a \in Int /\ a >= 0
    OBVIOUS
  <2>3. a \div b \in Int /\ a \div b >= 0
    BY <2>2, Division, Zenon
  <2> QED BY <2>1, <2>3
<1> HIDE DEF p, n
<1>4. p * (i - 1) \in Nat /\ p * (i - 1) <= p * n
  BY <1>1
<1>5. n * KindCount \in Nat \ {0}
  BY <1>1, <1>2
<1>6. (i - 1) * KindCount + k \in Nat /\ (i - 1) * KindCount + k <= n * KindCount
  <2>1. i * KindCount <= n * KindCount
    BY <1>1, <1>2
  <2>2. (i - 1) * KindCount + KindCount = i * KindCount
    BY <1>1, <1>2
  <2>3. (i - 1) * KindCount \in Nat
    BY <1>1, <1>2
  <2> QED BY <1>2, <1>5, <2>1, <2>2, <2>3
<1>7. p * ((i - 1) * KindCount + k) \in Nat
      /\ p * ((i - 1) * KindCount + k) <= p * (n * KindCount)
  <2> DEFINE x == (i - 1) * KindCount + k
             y == n * KindCount
  <2>1. x \in Nat /\ y \in Nat /\ x <= y
    BY <1>5, <1>6
  <2> HIDE DEF x, y
  <2>2. p * x \in Nat /\ p * x <= p * y
    BY <1>1, <2>1
  <2> QED BY <2>2 DEF x, y
<1>8. FirstDue(f, i, k, t) = t + (p * (i - 1)) \div n
      \/ FirstDue(f, i, k, t) = t + (p * ((i - 1) * KindCount + k)) \div (n * KindCount)
  BY DEF FirstDue, p, n
<1>9. FirstDue(f, i, k, t) \in Nat /\ FirstDue(f, i, k, t) >= t /\ FirstDue(f, i, k, t) <= t + p
  BY <1>1, <1>3, <1>4, <1>5, <1>7, <1>8
<1> QED BY <1>1, <1>9 DEF p

-----------------------------------------------------------------------------
(* The clock is read before the mutex is taken, and a fleet starts when it is applied: what a  *)
(* tick sees is no later than the present and no earlier than the tick before.                  *)
ClockInv ==
    /\ started <= now /\ sampledAt <= now
    /\ lastTick <= sampledAt
    /\ lastTick # Never => started <= lastTick
    /\ phase = "sampled" => sampledAt # Never

IInv == TypeOK /\ ClockInv /\ OnSchedule /\ EveryMessageCounted

(* A step of the firmware is, for Runtime and its loop, an action of Runtime or none. *)
LEMMA RuntimeActs ==
    ASSUME [Next]_vars
    PROVE  \/ \E failed \in SUBSET Built(sampledAt) :
                \E refused \in SUBSET (Built(sampledAt) \ failed) : Tick(failed, refused)
           \/ \E f \in Fleets : Apply(f)
           \/ SampleTime \/ Skip \/ TickRefused \/ EndRound \/ Advance
           \/ UNCHANGED runtimeVars
<1>1. CASE TickAndSubmit
  <2>1. PICK failed \in SUBSET Built(sampledAt) :
            Tick(failed, Refused(Built(sampledAt) \ failed))
    BY <1>1 DEF TickAndSubmit
  <2>2. Refused(Built(sampledAt) \ failed) \in SUBSET (Built(sampledAt) \ failed)
    BY DEF Refused
  <2> QED BY <2>1, <2>2
<1>2. CASE WifiPoll
  BY <1>2 DEF WifiPoll, runtimeVars
<1>3. CASE BlePoll
  BY <1>3 DEF BlePoll
<1>4. CASE (\E f \in Fleets : Apply(f)) \/ SampleTime \/ Skip \/ TickRefused \/ Advance
  BY <1>4
<1>5. CASE UNCHANGED vars
  BY <1>5 DEF vars
<1> QED BY <1>1, <1>2, <1>3, <1>4, <1>5 DEF Next

(* The messages of one tick are finitely many. *)
LEMMA BuiltFinite ==
    ASSUME TypeOK
    PROVE  IsFiniteSet(Built(sampledAt))
<1>1. fleet \in Seq(Craft)
  BY ConstantsAssumption DEF TypeOK
<1>2. IsFiniteSet(DOMAIN fleet)
  <2>1. DOMAIN fleet = 1 .. Len(fleet) /\ Len(fleet) \in Int
    BY <1>1
  <2> QED BY <2>1, FS_Interval
<1>3. IsFiniteSet(Kinds)
  BY FS_Interval, ConstantsAssumption DEF Kinds
<1>4. Built(sampledAt) \in SUBSET ((DOMAIN fleet) \X Kinds)
  BY DEF Built
<1> QED BY <1>2, <1>3, <1>4, FS_Product, FS_Subset

(* What fails of them and what is refused are disjoint parts of them. *)
LEMMA MessagesCount ==
    ASSUME TypeOK, NEW failed \in SUBSET Built(sampledAt),
           NEW refused \in SUBSET (Built(sampledAt) \ failed)
    PROVE  LET built == Built(sampledAt) IN
           /\ {Cardinality(built), Cardinality(failed), Cardinality(refused),
               Cardinality(built \ failed), Cardinality(built \ (failed \union refused))} \subseteq Nat
           /\ Cardinality(built) = Cardinality(built \ failed) + Cardinality(failed)
           /\ Cardinality(built \ failed)
                 = Cardinality(built \ (failed \union refused)) + Cardinality(refused)
<1> DEFINE built == Built(sampledAt)
<1>1. IsFiniteSet(built)
  BY BuiltFinite
<1>2. failed \in SUBSET built /\ refused \in SUBSET (built \ failed)
  OBVIOUS
<1> HIDE DEF built
<1>3. IsFiniteSet(failed) /\ IsFiniteSet(built \ failed)
  BY <1>1, <1>2, FS_Subset
<1>4. IsFiniteSet(refused) /\ IsFiniteSet(built \ (failed \union refused))
  <2>1. built \ (failed \union refused) \in SUBSET built /\ refused \in SUBSET built
    BY <1>2
  <2> QED BY <1>1, <2>1, FS_Subset
<1>5. Cardinality(built \ failed) = Cardinality(built) - Cardinality(failed)
  <2>1. built \cap failed = failed
    BY <1>2
  <2> QED BY <1>1, <2>1, FS_Difference
<1>6. Cardinality(built \ (failed \union refused)) = Cardinality(built \ failed) - Cardinality(refused)
  <2>1. built \ (failed \union refused) = (built \ failed) \ refused
        /\ (built \ failed) \cap refused = refused
    BY <1>2
  <2> QED BY <1>3, <2>1, FS_Difference
<1>7. {Cardinality(built), Cardinality(failed), Cardinality(refused),
       Cardinality(built \ failed), Cardinality(built \ (failed \union refused))} \subseteq Nat
  BY <1>1, <1>3, <1>4, FS_CardinalityType
<1> QED BY <1>5, <1>6, <1>7 DEF built

-----------------------------------------------------------------------------
(* The device starts with no fleet. *)
LEMMA InitIInv == Init => IInv
<1> SUFFICES ASSUME Init PROVE IInv
  OBVIOUS
<1> USE DEF Init, RuntimeInit
<1>1. TypeOK
  <2>1. nextDue \in [DOMAIN fleet -> [Kinds -> Nat]]
    <3>1. nextDue \in Seq([Kinds -> Nat]) /\ Len(nextDue) = 0 /\ nextDue = fleet
      OBVIOUS
    <3>2. DOMAIN nextDue = 1 .. 0 /\ nextDue \in [1 .. 0 -> [Kinds -> Nat]]
      BY <3>1
    <3> QED BY <3>1, <3>2
  <2>2. stats \in [Counters -> Nat] /\ fleet \in Fleets \union {<<>>}
    BY DEF NoStats
  <2>3. epoch \in 0 .. MaxApplies
    BY ConstantsAssumption
  <2> QED BY <2>1, <2>2, <2>3 DEF TypeOK, Never
<1>2. ClockInv
  BY DEF ClockInv, Never
<1>3. OnSchedule
  BY DEF OnSchedule
<1>4. EveryMessageCounted
  BY DEF EveryMessageCounted, NoStats, Counters
<1> QED BY <1>1, <1>2, <1>3, <1>4 DEF IInv

(* Of a fleet: its due times are those of the period and phase that apply laid out. *)
LEMMA ApplyKeeps ==
    ASSUME IInv, NEW f \in Fleets, Apply(f)
    PROVE  IInv'
<1> USE DEF IInv
<1>1. f \in Seq(Craft) /\ f \in Fleets /\ DOMAIN f = 1 .. Len(f)
  BY ConstantsAssumption
<1>2. now \in Nat /\ fleet' = f /\ nextDue' = Schedule(f) /\ stats' = NoStats /\ sequence' = 0
      /\ started' = now /\ lastTick' = Never /\ running' = TRUE /\ epoch' = epoch + 1
      /\ epoch < MaxApplies /\ phase' = phase /\ sampledAt' = sampledAt /\ now' = now
  BY DEF Apply, TypeOK, loopVars
<1>3. \A i \in DOMAIN f, k \in Kinds :
        /\ f[i].period[k] \in Nat \ {0}
        /\ Schedule(f)[i][k] = FirstDue(f, i, k, now)
        /\ Schedule(f)[i][k] \in Nat
        /\ Schedule(f)[i][k] >= now /\ Schedule(f)[i][k] <= now + f[i].period[k]
  BY <1>1, <1>2, FirstDueWithinPeriod DEF Schedule
<1>4. TypeOK'
  <2>1. nextDue' \in [DOMAIN fleet' -> [Kinds -> Nat]]
    BY <1>2, <1>3 DEF Schedule
  <2>2. epoch' \in 0 .. MaxApplies
    BY <1>2, ConstantsAssumption DEF TypeOK
  <2> QED BY <1>1, <1>2, <2>1, <2>2 DEF TypeOK, NoStats
<1>5. ClockInv'
  BY <1>2 DEF ClockInv, TypeOK, Never
<1>6. OnSchedule'
  <2> SUFFICES ASSUME NEW i \in DOMAIN f, NEW k \in Kinds
               PROVE  /\ Schedule(f)[i][k] > Never
                      /\ Schedule(f)[i][k] <= now + f[i].period[k]
                      /\ (Schedule(f)[i][k] - FirstDue(f, i, k, now)) % f[i].period[k] = 0
    BY <1>2 DEF OnSchedule
  <2> DEFINE due == Schedule(f)[i][k]
             p == f[i].period[k]
  <2>1. due \in Nat /\ p \in Nat \ {0} /\ due <= now + p /\ due = FirstDue(f, i, k, now)
    BY <1>3
  <2> HIDE DEF due, p
  <2>2. due > Never /\ (due - due) % p = 0
    BY <2>1 DEF Never
  <2> QED BY <2>1, <2>2 DEF due, p
<1>7. EveryMessageCounted'
  BY <1>2 DEF EveryMessageCounted, NoStats, Counters
<1> QED BY <1>4, <1>5, <1>6, <1>7

(* A tick moves what is due to the first due time after it, and counts each message once. *)
LEMMA TickKeeps ==
    ASSUME IInv, NEW failed \in SUBSET Built(sampledAt),
           NEW refused \in SUBSET (Built(sampledAt) \ failed), Tick(failed, refused)
    PROVE  IInv'
<1> USE DEF IInv
<1> DEFINE t == sampledAt
<1>1. /\ t \in Nat /\ started \in Nat /\ now \in Nat
      /\ started <= t /\ lastTick <= t /\ t <= now
      /\ lastTick \in Nat \union {Never}
  BY DEF Tick, Refuses, ClockInv, TypeOK
<1>2. /\ lastTick' = t /\ fleet' = fleet /\ started' = started /\ running' = running
      /\ epoch' = epoch /\ sampledAt' = sampledAt /\ now' = now /\ phase' = "polling"
      /\ sequence' = sequence + Cardinality(Built(t))
      /\ stats' = Counted(Built(t), failed, refused)
  BY DEF Tick
<1>3. fleet \in Seq(Craft)
  BY ConstantsAssumption DEF TypeOK
<1>4. ASSUME NEW i \in DOMAIN fleet, NEW k \in Kinds
      PROVE  LET p == fleet[i].period[k]
                 due == nextDue'[i][k]
             IN  /\ due \in Nat /\ due > t /\ due <= t + p
                 /\ (due - FirstDue(fleet, i, k, started)) % p = 0
  <2> DEFINE p == fleet[i].period[k]
             old == nextDue[i][k]
             due == nextDue'[i][k]
             first == FirstDue(fleet, i, k, started)
  <2>1. p \in Nat \ {0} /\ first \in Nat
    BY <1>1, <1>3, FirstDueWithinPeriod
  <2>2. old \in Nat /\ due = IF t >= old THEN AdvanceDue(old, p, t) ELSE old
    BY DEF TypeOK, Tick, Due
  <2>3. (old - first) % p = 0
        /\ old <= (IF lastTick = Never THEN started ELSE lastTick) + p
    BY DEF OnSchedule
  <2> HIDE DEF p, old, due, first, t
  <2>4. CASE t >= old
    <3>1. due = AdvanceDue(old, p, t)
      BY <2>2, <2>4
    <3>2. AdvanceDue(old, p, t) \in Nat /\ AdvanceDue(old, p, t) > t /\ AdvanceDue(old, p, t) <= t + p
      BY <1>1, <2>1, <2>2, <2>4, DueAfter
    <3>3. (AdvanceDue(old, p, t) - first) % p = 0
      BY <1>1, <2>1, <2>2, <2>3, <2>4, StaysOnGrid
    <3> QED BY <3>1, <3>2, <3>3 DEF p, due, first
  <2>5. CASE ~(t >= old)
    <3>1. due = old /\ due \in Nat /\ due > t /\ due <= t + p
      BY <1>1, <2>1, <2>2, <2>3, <2>5
    <3> QED BY <2>3, <3>1 DEF p, due, first
  <2> QED BY <2>4, <2>5
<1> HIDE DEF t
<1>5. LET built == Built(t) IN
      /\ {Cardinality(built), Cardinality(failed), Cardinality(refused),
          Cardinality(built \ failed), Cardinality(built \ (failed \union refused))} \subseteq Nat
      /\ Cardinality(built) = Cardinality(built \ failed) + Cardinality(failed)
      /\ Cardinality(built \ failed)
            = Cardinality(built \ (failed \union refused)) + Cardinality(refused)
  <2>1. TypeOK /\ failed \in SUBSET Built(sampledAt) /\ refused \in SUBSET (Built(sampledAt) \ failed)
    OBVIOUS
  <2> HIDE DEF IInv
  <2> QED BY <2>1, MessagesCount, Zenon DEF t
<1>6. /\ stats' \in [Counters -> Nat]
      /\ stats'["expected"] = stats["expected"] + Cardinality(Built(t) \ failed)
      /\ stats'["submitted"] = stats["submitted"] + Cardinality(Built(t) \ (failed \union refused))
      /\ stats'["submit_errors"] = stats["submit_errors"] + Cardinality(refused)
      /\ stats'["encode_errors"] = stats["encode_errors"] + Cardinality(failed)
  <2> DEFINE a == Cardinality(Built(t) \ failed)
             b == Cardinality(Built(t) \ (failed \union refused))
             c == Cardinality(refused)
             d == Cardinality(failed)
  <2>1. a \in Nat /\ b \in Nat /\ c \in Nat /\ d \in Nat
    BY <1>5
  <2>2. stats' = [stats EXCEPT !["expected"] = @ + a, !["submitted"] = @ + b,
                               !["submit_errors"] = @ + c, !["encode_errors"] = @ + d]
    BY <1>2 DEF Counted
  <2>3. stats \in [Counters -> Nat]
    BY DEF TypeOK
  <2> HIDE DEF a, b, c, d
  <2>4. stats' = [n \in Counters |->
            CASE n = "expected" -> stats[n] + a
              [] n = "submitted" -> stats[n] + b
              [] n = "submit_errors" -> stats[n] + c
              [] n = "encode_errors" -> stats[n] + d]
    BY <2>2, <2>3 DEF Counters
  <2>5. /\ stats'["expected"] = stats["expected"] + a
        /\ stats'["submitted"] = stats["submitted"] + b
        /\ stats'["submit_errors"] = stats["submit_errors"] + c
        /\ stats'["encode_errors"] = stats["encode_errors"] + d
    BY <2>4 DEF Counters
  <2>6. stats' \in [Counters -> Nat]
    BY <2>1, <2>3, <2>4, <2>5 DEF Counters
  <2> QED BY <2>5, <2>6 DEF a, b, c, d
<1>7. TypeOK'
  <2>1. nextDue' \in [DOMAIN fleet' -> [Kinds -> Nat]]
    <3>1. nextDue' = [i \in DOMAIN fleet |-> [k \in Kinds |-> nextDue'[i][k]]]
      BY DEF Tick
    <3> QED BY <1>2, <1>4, <3>1
  <2>2. sequence' \in Nat
    BY <1>2, <1>5 DEF TypeOK
  <2> QED BY <1>1, <1>2, <1>6, <2>1, <2>2 DEF TypeOK, t
<1>8. ClockInv'
  BY <1>1, <1>2 DEF ClockInv, t, Never
<1>9. OnSchedule'
  <2>1. t # Never
    BY <1>1 DEF Never
  <2> QED BY <1>2, <1>4, <2>1 DEF OnSchedule
<1>10. EveryMessageCounted'
  <2>1. stats \in [Counters -> Nat] /\ sequence \in Nat /\ EveryMessageCounted
    BY DEF TypeOK
  <2>2. \A n \in Counters : stats[n] \in Nat
    BY <2>1
  <2> QED BY <1>2, <1>5, <1>6, <2>1, <2>2 DEF EveryMessageCounted, Counters
<1> QED BY <1>7, <1>8, <1>9, <1>10

(* The steps of the loop and the clock leave the fleet alone. *)
LEMMA LoopKeeps ==
    ASSUME IInv, SampleTime \/ Skip \/ TickRefused \/ EndRound \/ Advance \/ UNCHANGED runtimeVars
    PROVE  IInv'
<1> USE DEF IInv
<1>1. UNCHANGED fleetVars
  BY DEF SampleTime, Skip, TickRefused, EndRound, Advance, runtimeVars
<1>2. /\ phase' \in {"asleep", "sampled", "polling"}
      /\ sampledAt' \in Nat \union {Never} /\ now' \in Nat
      /\ sampledAt <= sampledAt' /\ sampledAt' <= now' /\ now <= now'
      /\ phase' = "sampled" => sampledAt' # Never
  BY DEF SampleTime, Skip, TickRefused, EndRound, Advance, runtimeVars, loopVars, TypeOK, ClockInv, Never
<1>3. TypeOK'
  BY <1>1, <1>2 DEF TypeOK, fleetVars
<1>4. ClockInv'
  BY <1>1, <1>2 DEF ClockInv, TypeOK, fleetVars, Never
<1>5. OnSchedule' /\ EveryMessageCounted'
  BY <1>1 DEF OnSchedule, EveryMessageCounted, fleetVars
<1> QED BY <1>3, <1>4, <1>5

(* The steps of Runtime together. *)
LEMMA StepIInv == IInv /\ [Next]_vars => IInv'
BY RuntimeActs, ApplyKeeps, TickKeeps, LoopKeeps

(* The state of Runtime keeps its type, and the clock its order, whatever the transports do. *)
THEOREM TypeCorrect == Spec => []IInv
  BY InitIInv, StepIInv, PTL DEF Spec

(* Whatever fleet, however late the ticks, however many configurations are applied: the       *)
(* schedule neither bursts nor starves nor drifts (advance_due, runtime.cpp:72-80).             *)
THEOREM ScheduleKept == Spec => []OnSchedule
<1>1. IInv => OnSchedule
  BY DEF IInv
<1> QED BY <1>1, TypeCorrect, PTL

(* Every message is in one column of the statistics, whatever fails (runtime.cpp:103-197). *)
THEOREM AllCounted == Spec => []EveryMessageCounted
<1>1. IInv => EveryMessageCounted
  BY DEF IInv
<1> QED BY <1>1, TypeCorrect, PTL

(* The elapsed time of a fleet never underflows or goes back (runtime.cpp:93, app_main.cpp:97). *)
THEOREM TimeGrows == Spec => TrajectoryTimeGrows
<1>1. IInv /\ [Next]_vars =>
        [(epoch' = epoch /\ lastTick' # lastTick) =>
            lastTick' >= (IF lastTick = Never THEN started ELSE lastTick)]_runtimeVars
  <2> SUFFICES ASSUME IInv, [Next]_vars, epoch' = epoch, lastTick' # lastTick
               PROVE  lastTick' >= (IF lastTick = Never THEN started ELSE lastTick)
    OBVIOUS
  <2>1. CASE \E failed \in SUBSET Built(sampledAt) :
               \E refused \in SUBSET (Built(sampledAt) \ failed) : Tick(failed, refused)
    <3>1. lastTick' = sampledAt /\ ~(sampledAt < started) /\ sampledAt # Never
      BY <2>1 DEF Tick, Refuses, IInv, ClockInv
    <3> QED BY <3>1 DEF IInv, ClockInv, TypeOK, Never
  <2>2. CASE \E f \in Fleets : Apply(f)
    BY <2>2 DEF Apply, IInv, TypeOK
  <2>3. CASE SampleTime \/ Skip \/ TickRefused \/ EndRound \/ Advance \/ UNCHANGED runtimeVars
    BY <2>3 DEF SampleTime, Skip, TickRefused, EndRound, Advance, runtimeVars, fleetVars
  <2> QED BY <2>1, <2>2, <2>3, RuntimeActs
<1> QED BY <1>1, TypeCorrect, PTL DEF Spec, TrajectoryTimeGrows

-----------------------------------------------------------------------------
(* What waits in the transports was built at a time that has been sampled; what is of an older *)
(* fleet, before the present one started; and nothing older than what a band has sent last.      *)
QueuedPayload == [sequence : Nat, epoch : Nat, deadline : Nat, expires : Nat \ {0}]

InQueues == wifiQueue["Wifi24"] \union wifiQueue["Wifi58"] \union bleQueue

AirTypeInv ==
    /\ wifiQueue \in [Bands -> SUBSET QueuedPayload] /\ bleQueue \subseteq QueuedPayload
    /\ wifiStats \in [Bands -> [Wifi!Counters -> Nat]]
    /\ activeBand \in Bands /\ lastAir \in [Bands -> Nat]

AirOrderInv ==
    /\ \A p \in InQueues : p.deadline <= sampledAt /\ (p.epoch # epoch => p.deadline <= started)
    /\ \A b \in Bands : lastAir[b] = 0 \/ lastAir[b] <= sampledAt
    /\ \A b \in Bands : \A p \in wifiQueue[b] : lastAir[b] <= p.deadline

AirInv == AirTypeInv /\ AirOrderInv

(* What a poll of the coordinator does to the queues and the histories. *)
NothingSent(queue) ==
    /\ queue \in [Bands -> SUBSET QueuedPayload]
    /\ \A b \in Bands : queue[b] \subseteq wifiQueue[b]
    /\ sent' = {} /\ lastAir' = lastAir

Sends(b, p) ==
    /\ p \in wifiQueue[b] /\ sampledAt <= p.expires
    /\ \A q \in wifiQueue[b] : p.deadline <= q.deadline
    /\ wifiQueue' = [wifiQueue EXCEPT ![b] = @ \ {p}]
    /\ sent' = {Payload(p)}
    /\ lastAir' = [lastAir EXCEPT ![b] = p.deadline]

(* Whichever path a poll takes, it takes payloads off the queues, and sends at most the oldest. *)
LEMMA PollEffect ==
    ASSUME IInv, AirTypeInv, WifiPoll
    PROVE  /\ wifiStats' \in [Bands -> [Wifi!Counters -> Nat]] /\ activeBand' \in Bands
           /\ NothingSent(wifiQueue') \/ \E b \in Bands : \E p \in wifiQueue[b] : Sends(b, p)
<1> DEFINE aired(b) == IF wifiStats'[b]["submitted"] # wifiStats[b]["submitted"]
                       THEN wifiQueue[b] \ wifiQueue'[b] ELSE {}
<1>1. /\ sent' = {Payload(p) : p \in aired("Wifi24") \union aired("Wifi58")}
      /\ lastAir' = [b \in Bands |-> IF aired(b) = {} THEN lastAir[b]
                                     ELSE (CHOOSE p \in aired(b) : TRUE).deadline]
      /\ Wifi!Poll
  BY DEF WifiPoll
<1>2. \A b \in Bands : \A cs \in SUBSET Wifi!Counters :
        Wifi!Count(b, cs) =>
            /\ wifiStats' \in [Bands -> [Wifi!Counters -> Nat]]
            /\ \A c \in Bands : wifiStats'[c]["submitted"] # wifiStats[c]["submitted"]
                    <=> (c = b /\ "submitted" \in cs)
  <2> SUFFICES ASSUME NEW b \in Bands, NEW cs \in SUBSET Wifi!Counters, Wifi!Count(b, cs)
               PROVE  /\ wifiStats' \in [Bands -> [Wifi!Counters -> Nat]]
                      /\ \A c \in Bands : wifiStats'[c]["submitted"] # wifiStats[c]["submitted"]
                                <=> (c = b /\ "submitted" \in cs)
    OBVIOUS
  <2> DEFINE new == [c \in Wifi!Counters |-> IF c \in cs THEN wifiStats[b][c] + 1 ELSE wifiStats[b][c]]
  <2>1. wifiStats' = [wifiStats EXCEPT ![b] = new]
    BY DEF Wifi!Count
  <2>2. wifiStats[b] \in [Wifi!Counters -> Nat] /\ "submitted" \in Wifi!Counters
    BY DEF AirTypeInv, Wifi!Counters
  <2>3. new \in [Wifi!Counters -> Nat] /\ (new["submitted"] # wifiStats[b]["submitted"] <=> "submitted" \in cs)
    BY <2>2
  <2> HIDE DEF new
  <2> QED BY <2>1, <2>3 DEF AirTypeInv
<1>3. ASSUME wifiStats' \in [Bands -> [Wifi!Counters -> Nat]],
             \A c \in Bands : wifiStats'[c]["submitted"] = wifiStats[c]["submitted"],
             wifiQueue' \in [Bands -> SUBSET QueuedPayload],
             \A b \in Bands : wifiQueue'[b] \subseteq wifiQueue[b]
      PROVE  NothingSent(wifiQueue')
  <2>1. \A b \in Bands : aired(b) = {}
    BY <1>3
  <2>2. sent' = {} /\ lastAir' = [b \in Bands |-> lastAir[b]]
    BY <1>1, <2>1 DEF Bands
  <2>3. lastAir' = lastAir
    BY <2>2 DEF AirTypeInv
  <2> QED BY <1>3, <2>2, <2>3 DEF NothingSent
<1>4. CASE Wifi!PollNotConfigured \/ Wifi!PollBacksOff \/ Wifi!PollChannelFails
  <2>1. wifiQueue' = wifiQueue
    BY <1>4 DEF Wifi!PollNotConfigured, Wifi!PollBacksOff, Wifi!PollChannelFails
  <2>2. Wifi!Target \in Bands
    BY DEF Wifi!Target, Wifi!Other, Bands, AirTypeInv
  <2>3. UNCHANGED wifiStats \/ \E b \in Bands : Wifi!Count(b, {"radio_errors"})
    BY <1>4, <2>2 DEF Wifi!PollNotConfigured, Wifi!PollBacksOff, Wifi!PollChannelFails
  <2>4. activeBand' \in Bands
    BY <1>4 DEF Wifi!PollNotConfigured, Wifi!PollBacksOff, Wifi!PollChannelFails, Wifi!radioVars, AirTypeInv
  <2> QED BY <1>2, <1>3, <2>1, <2>3, <2>4 DEF AirTypeInv, Wifi!Counters
<1>5. CASE \E b \in Bands : Wifi!PollServes(b)
  <2>1. PICK b \in Bands : Wifi!PollServes(b)
    BY <1>5
  <2>2. PICK p \in wifiQueue[b] :
            /\ Wifi!IsEarliest(p, b)
            /\ \/ Wifi!Discard(p, b)
               \/ ~Wifi!Expired(p) /\ Wifi!Transmit(p, b)
               \/ Wifi!TransmitFails(b)
    BY <2>1 DEF Wifi!PollServes
  <2>3. wifiQueue[b] \in SUBSET QueuedPayload /\ p \in QueuedPayload
    BY DEF AirTypeInv
  <2>4. activeBand' \in Bands
    BY <2>1 DEF Wifi!PollServes, Wifi!Tune, Wifi!radioVars, AirTypeInv
  <2>5. CASE Wifi!Discard(p, b)
    <3>1. wifiQueue' = [wifiQueue EXCEPT ![b] = @ \ {p}] /\ Wifi!Count(b, {"dropped"})
      BY <2>5 DEF Wifi!Discard
    <3>2. wifiQueue' \in [Bands -> SUBSET QueuedPayload]
          /\ \A c \in Bands : wifiQueue'[c] \subseteq wifiQueue[c]
      BY <3>1 DEF AirTypeInv
    <3> QED BY <1>2, <1>3, <2>4, <3>1, <3>2 DEF Wifi!Counters
  <2>6. CASE Wifi!TransmitFails(b)
    <3>1. wifiQueue' = wifiQueue /\ Wifi!Count(b, {"radio_errors"})
      BY <2>6 DEF Wifi!TransmitFails
    <3> QED BY <1>2, <1>3, <2>4, <3>1 DEF AirTypeInv, Wifi!Counters
  <2>7. CASE ~Wifi!Expired(p) /\ Wifi!Transmit(p, b)
    <3>1. PICK cs \in SUBSET Wifi!Counters :
            "submitted" \in cs /\ Wifi!Count(b, cs) /\ wifiQueue' = [wifiQueue EXCEPT ![b] = @ \ {p}]
      <4> DEFINE cs == {"submitted"} \union IF sampledAt > p.deadline THEN {"late"} ELSE {}
      <4>1. cs \in SUBSET Wifi!Counters /\ "submitted" \in cs
        BY DEF Wifi!Counters
      <4>2. Wifi!Count(b, cs) /\ wifiQueue' = [wifiQueue EXCEPT ![b] = @ \ {p}]
        BY <2>7 DEF Wifi!Transmit
      <4> HIDE DEF cs
      <4> QED BY <4>1, <4>2
    <3>2. \A c \in Bands : aired(c) = IF c = b THEN {p} ELSE {}
      <4>1. wifiQueue[b] \ wifiQueue'[b] = {p}
        BY <3>1 DEF AirTypeInv
      <4>2. aired(b) = {p}
        BY <1>2, <3>1, <4>1
      <4>3. ASSUME NEW c \in Bands, c # b PROVE aired(c) = {}
        BY <1>2, <3>1, <4>3
      <4> QED BY <4>2, <4>3
    <3>3. sent' = {Payload(p)}
      <4>1. aired("Wifi24") \union aired("Wifi58") = {p}
        BY <3>2 DEF Bands
      <4> HIDE DEF aired
      <4> QED BY <1>1, <4>1
    <3>4. lastAir' = [lastAir EXCEPT ![b] = p.deadline]
      <4>1. lastAir' = [c \in Bands |-> IF c = b THEN p.deadline ELSE lastAir[c]]
        <5> HIDE DEF aired
        <5>1. (CHOOSE q \in {p} : TRUE) = p
          OBVIOUS
        <5> QED BY <1>1, <3>2, <5>1
      <4> QED BY <4>1 DEF AirTypeInv
    <3>5. sampledAt <= p.expires
      BY <2>3, <2>7 DEF Wifi!Expired, QueuedPayload, IInv, TypeOK, Never
    <3>6. \A q \in wifiQueue[b] : p.deadline <= q.deadline
      BY <2>2, <2>3 DEF Wifi!IsEarliest, Wifi!Earlier, QueuedPayload
    <3>7. wifiStats' \in [Bands -> [Wifi!Counters -> Nat]]
      BY <1>2, <3>1
    <3> QED BY <2>4, <3>1, <3>3, <3>4, <3>5, <3>6, <3>7 DEF Sends
  <2> QED BY <2>2, <2>5, <2>6, <2>7
<1> QED BY <1>1, <1>4, <1>5 DEF Wifi!Poll, Wifi!Bands, Bands

(* Each payload of a tick carries its time and its fleet, and a time after it to expire at. *)
LEMMA NumberedPayload ==
    ASSUME IInv, sampledAt # Never, NEW m \in Built(sampledAt)
    PROVE  /\ Numbered(m) \in QueuedPayload
           /\ Numbered(m).deadline = sampledAt /\ Numbered(m).epoch = epoch
           /\ Payload(Numbered(m)) = PayloadOf(m, sampledAt)
           /\ TransportOf(m) \in Transports
<1>1. m \in (DOMAIN fleet) \X Kinds /\ sampledAt \in Nat /\ sequence \in Nat /\ epoch \in Nat
  BY ConstantsAssumption DEF Built, IInv, TypeOK
<1>2. fleet[m[1]] \in Craft
  <2>1. fleet \in Seq(Craft)
    BY ConstantsAssumption DEF IInv, TypeOK
  <2> QED BY <1>1, <2>1
<1>3. fleet[m[1]].transport \in Transports /\ fleet[m[1]].lifetime \in Nat \ {0}
      /\ fleet[m[1]].period[m[2]] \in Nat \ {0}
  BY <1>1, <1>2 DEF Craft
<1>4. PayloadOf(m, sampledAt).expires \in Nat \ {0}
  BY <1>1, <1>3 DEF PayloadOf
<1>5. Rank(m, Built(sampledAt)) \in Nat
  <2> DEFINE earlier == {n \in Built(sampledAt) : Before(n, m)}
  <2>1. earlier \in SUBSET Built(sampledAt)
    OBVIOUS
  <2>2. IsFiniteSet(earlier)
    BY <2>1, BuiltFinite, FS_Subset DEF IInv
  <2> QED BY <2>2, FS_CardinalityType DEF Rank
<1> QED BY <1>1, <1>3, <1>4, <1>5 DEF Numbered, QueuedPayload, Payload, PayloadOf, TransportOf

(* What a tick adds to the queues. *)
LEMMA TickAdds ==
    ASSUME IInv, AirTypeInv, TickAndSubmit
    PROVE  /\ AirTypeInv' /\ sampledAt # Never
           /\ \A b \in Bands : \A p \in wifiQueue'[b] :
                p \in wifiQueue[b] \/ \E m \in Built(sampledAt) : p = Numbered(m)
           /\ \A p \in bleQueue' : p \in bleQueue \/ \E m \in Built(sampledAt) : p = Numbered(m)
<1>1. PICK failed \in SUBSET Built(sampledAt) :
        LET offered == Built(sampledAt) \ failed
            accepted(t) == {Numbered(m) : m \in {n \in offered \ Refused(offered) : TransportOf(n) = t}}
        IN
        /\ Tick(failed, Refused(offered))
        /\ wifiQueue' = [b \in Bands |-> wifiQueue[b] \union accepted(b)]
        /\ wifiStats' = [b \in Bands |->
                            [wifiStats[b] EXCEPT !["expected"] = @ + Cardinality(accepted(b))]]
        /\ bleQueue' = bleQueue \union accepted("Ble")
        /\ UNCHANGED <<activeBand, lastAir>>
  BY DEF TickAndSubmit
<1> DEFINE offered == Built(sampledAt) \ failed
           accepted(t) == {Numbered(m) : m \in {n \in offered \ Refused(offered) : TransportOf(n) = t}}
<1>2. sampledAt # Never
  BY <1>1 DEF Tick, IInv, ClockInv
<1>3. \A t : \A p \in accepted(t) : p \in QueuedPayload /\ \E m \in Built(sampledAt) : p = Numbered(m)
  BY <1>2, NumberedPayload
<1>4. \A t : Cardinality(accepted(t)) \in Nat
  <2> SUFFICES ASSUME NEW t PROVE IsFiniteSet(accepted(t))
    BY FS_CardinalityType
  <2> DEFINE kept == {n \in offered \ Refused(offered) : TransportOf(n) = t}
             f == [m \in kept |-> Numbered(m)]
  <2>1. kept \in SUBSET Built(sampledAt)
    OBVIOUS
  <2>2. IsFiniteSet(kept)
    BY <2>1, BuiltFinite, FS_Subset DEF IInv
  <2>3. f \in Surjection(kept, accepted(t))
    BY DEF Surjection
  <2> QED BY <2>2, <2>3, FS_Surjection
<1> HIDE DEF accepted
<1>5. wifiQueue' = [b \in Bands |-> wifiQueue[b] \union accepted(b)]
      /\ bleQueue' = bleQueue \union accepted("Ble")
      /\ wifiStats' = [b \in Bands |->
                            [wifiStats[b] EXCEPT !["expected"] = @ + Cardinality(accepted(b))]]
  BY <1>1 DEF accepted
<1>6. wifiStats' \in [Bands -> [Wifi!Counters -> Nat]]
  <2> SUFFICES ASSUME NEW b \in Bands
               PROVE  [wifiStats[b] EXCEPT !["expected"] = @ + Cardinality(accepted(b))]
                        \in [Wifi!Counters -> Nat]
    BY <1>5
  <2>1. wifiStats[b] \in [Wifi!Counters -> Nat]
    BY DEF AirTypeInv
  <2> QED BY <1>4, <2>1 DEF Wifi!Counters
<1>7. AirTypeInv'
  BY <1>1, <1>3, <1>5, <1>6 DEF AirTypeInv
<1> QED BY <1>2, <1>3, <1>5, <1>7

(* Nothing waits at the start. *)
LEMMA InitAirInv == Init => AirInv
<1> SUFFICES ASSUME Init PROVE AirInv
  OBVIOUS
<1>1. wifiStats \in [Bands -> [Wifi!Counters -> Nat]] /\ activeBand \in Bands
  BY DEF Init, Bands
<1> QED BY <1>1 DEF Init, Bands, AirInv, AirTypeInv, AirOrderInv, InQueues

(* What a tick adds is the newest, what apply finds is older than its fleet, and polls only take. *)
LEMMA StepAirInv == IInv /\ AirInv /\ [Next]_vars => AirInv'
<1> SUFFICES ASSUME IInv, AirTypeInv, AirOrderInv, [Next]_vars PROVE AirTypeInv' /\ AirOrderInv'
  BY DEF AirInv
<1>0. started \in Nat /\ now \in Nat /\ epoch \in Nat /\ sampledAt \in Nat \union {Never}
      /\ sampledAt <= now
  BY ConstantsAssumption DEF IInv, TypeOK, ClockInv
<1>1. CASE TickAndSubmit
  <2>1. AirTypeInv' /\ sampledAt # Never
    BY <1>1, TickAdds
  <2>2. sampledAt' = sampledAt /\ epoch' = epoch /\ started' = started /\ lastAir' = lastAir
    BY <1>1 DEF TickAndSubmit, Tick
  <2>3. \A m \in Built(sampledAt) : Numbered(m).deadline = sampledAt /\ Numbered(m).epoch = epoch
    BY <2>1, NumberedPayload
  <2>4. \A p \in InQueues' : p \in InQueues \/ (p.deadline = sampledAt /\ p.epoch = epoch)
    BY <1>1, <2>3, TickAdds DEF InQueues, Bands
  <2>5. \A b \in Bands : \A p \in wifiQueue'[b] : p \in wifiQueue[b] \/ p.deadline = sampledAt
    BY <1>1, <2>3, TickAdds
  <2>6. sampledAt \in Nat
    BY <1>0, <2>1
  <2>7. AirOrderInv'
    BY <2>2, <2>4, <2>5, <2>6 DEF AirOrderInv
  <2> QED BY <2>1, <2>7
<1>2. CASE WifiPoll
  <2>1. sampledAt' = sampledAt /\ epoch' = epoch /\ started' = started /\ bleQueue' = bleQueue
    BY <1>2 DEF WifiPoll, loopVars, fleetVars
  <2>2. wifiStats' \in [Bands -> [Wifi!Counters -> Nat]] /\ activeBand' \in Bands
    BY <1>2, PollEffect
  <2>3. CASE NothingSent(wifiQueue')
    <3>1. AirTypeInv'
      BY <2>1, <2>2, <2>3 DEF AirTypeInv, NothingSent
    <3>2. AirOrderInv'
      BY <2>1, <2>3 DEF AirOrderInv, NothingSent, InQueues, Bands
    <3> QED BY <3>1, <3>2
  <2>4. CASE \E b \in Bands : \E p \in wifiQueue[b] : Sends(b, p)
    <3>1. PICK b \in Bands : \E p \in wifiQueue[b] : Sends(b, p)
      BY <2>4
    <3>2. PICK p \in wifiQueue[b] : Sends(b, p)
      BY <3>1
    <3>3. p \in QueuedPayload /\ p \in InQueues
      BY DEF AirTypeInv, InQueues, Bands
    <3>4. /\ wifiQueue' = [wifiQueue EXCEPT ![b] = @ \ {p}]
          /\ lastAir' = [lastAir EXCEPT ![b] = p.deadline]
          /\ \A q \in wifiQueue[b] : p.deadline <= q.deadline
      BY <3>2 DEF Sends
    <3>5. p.deadline \in Nat /\ p.deadline <= sampledAt
      BY <3>3 DEF QueuedPayload, AirOrderInv
    <3>6. AirTypeInv'
      BY <2>1, <2>2, <3>4, <3>5 DEF AirTypeInv
    <3>7. /\ \A c \in Bands : wifiQueue'[c] \subseteq wifiQueue[c]
          /\ InQueues' \subseteq InQueues
      BY <2>1, <3>4 DEF InQueues, Bands, AirTypeInv
    <3>8. \A c \in Bands : lastAir'[c] = IF c = b THEN p.deadline ELSE lastAir[c]
      BY <3>4 DEF AirTypeInv
    <3>9. AirOrderInv'
      BY <2>1, <3>4, <3>5, <3>7, <3>8 DEF AirOrderInv
    <3> QED BY <3>6, <3>9
  <2> QED BY <1>2, <2>3, <2>4, PollEffect
<1>3. CASE BlePoll
  BY <1>3 DEF BlePoll, EndRound, fleetVars, coordinatorVars, AirTypeInv, AirOrderInv, InQueues
<1>4. CASE /\ (\E f \in Fleets : Apply(f)) \/ SampleTime \/ Skip \/ TickRefused \/ Advance
           /\ UNCHANGED airVars
  <2>1. AirTypeInv' /\ InQueues' = InQueues /\ wifiQueue' = wifiQueue /\ lastAir' = lastAir
    BY <1>4 DEF airVars, coordinatorVars, AirTypeInv, InQueues
  <2>2. /\ sampledAt' \in Nat \union {Never} /\ sampledAt <= sampledAt'
        /\ (epoch' = epoch /\ started' = started) \/ (started' = now)
    BY <1>0, <1>4 DEF Apply, SampleTime, Skip, TickRefused, Advance, loopVars, fleetVars, Never
  <2>3. \A p \in InQueues : p.deadline \in Nat
    BY DEF AirTypeInv, InQueues, Bands, QueuedPayload
  <2>4. AirOrderInv'
    BY <1>0, <2>1, <2>2, <2>3 DEF AirOrderInv, AirTypeInv, Never
  <2> QED BY <2>1, <2>4
<1>5. CASE UNCHANGED vars
  BY <1>5 DEF vars, runtimeVars, fleetVars, loopVars, airVars, coordinatorVars,
             AirTypeInv, AirOrderInv, InQueues
<1> QED BY <1>1, <1>2, <1>3, <1>4, <1>5 DEF Next

(* Both invariants. *)
LEMMA AirInvariant == Spec => [](IInv /\ AirInv)
  BY InitAirInv, StepAirInv, TypeCorrect, PTL DEF Spec

-----------------------------------------------------------------------------
(* A payload of an older fleet leaves only within its own lifetime after the present fleet's *)
(* start, whatever its transport did with it until then (runtime.cpp:42, radio_coordinator.cpp, *)
(* ble_transport.cpp).                                                                            *)
THEOREM OldFleetEnds == Spec => OldFleetFades
<1>1. IInv /\ AirInv /\ [Next]_vars =>
        [\A p \in sent' : (sent' # sent /\ p.epoch # epoch)
                            => sampledAt <= started + (p.expires - p.deadline)]_vars
  <2> SUFFICES ASSUME IInv, AirTypeInv, AirOrderInv, [Next]_vars, sent' # sent,
                      NEW p \in sent', p.epoch # epoch
               PROVE  sampledAt <= started + (p.expires - p.deadline)
    BY DEF AirInv
  <2>1. ASSUME NEW q \in InQueues, p = Payload(q), sampledAt <= q.expires
        PROVE  sampledAt <= started + (p.expires - p.deadline)
    <3>1. q \in QueuedPayload
      BY <2>1 DEF InQueues, AirTypeInv, Bands
    <3>2. p.epoch = q.epoch /\ p.deadline = q.deadline /\ p.expires = q.expires
      BY <2>1 DEF Payload
    <3>3. q.deadline <= started
      BY <2>1, <3>2 DEF AirOrderInv
    <3>4. q.deadline \in Nat /\ q.expires \in Nat /\ started \in Nat /\ sampledAt \in Int
      BY <3>1 DEF QueuedPayload, IInv, TypeOK, Never
    <3> QED BY <2>1, <3>2, <3>3, <3>4
  <2>2. CASE WifiPoll
    <3>1. PICK b \in Bands : \E q \in wifiQueue[b] : Sends(b, q)
      BY <2>2, PollEffect DEF NothingSent
    <3>2. PICK q \in wifiQueue[b] : Sends(b, q)
      BY <3>1
    <3> QED BY <2>1, <3>2 DEF Sends, InQueues, Bands
  <2>3. CASE BlePoll
    <3>1. PICK q \in bleQueue : sampledAt <= q.expires /\ sent' = {Payload(q)}
      BY <2>3 DEF BlePoll
    <3> QED BY <2>1, <3>1 DEF InQueues
  <2>4. CASE TickAndSubmit
    BY <2>4 DEF TickAndSubmit
  <2> QED BY <2>2, <2>3, <2>4 DEF Next, vars, airVars
<1> QED BY <1>1, AirInvariant, PTL DEF Spec, OldFleetFades

(* The flight states that a receiver sees on one channel are in order of time. *)
THEOREM AirOrdered == Spec => AirInOrder
<1>1. IInv /\ AirInv /\ [Next]_vars => [\A b \in Bands : lastAir'[b] >= lastAir[b]]_vars
  <2> SUFFICES ASSUME IInv, AirTypeInv, AirOrderInv, [Next]_vars, NEW b \in Bands
               PROVE  lastAir'[b] >= lastAir[b]
    BY DEF AirInv
  <2>1. lastAir[b] \in Nat
    BY DEF AirTypeInv
  <2>2. CASE lastAir' = lastAir
    BY <2>1, <2>2
  <2>3. CASE \E c \in Bands : \E p \in wifiQueue[c] : Sends(c, p)
    <3>1. PICK c \in Bands : \E p \in wifiQueue[c] : Sends(c, p)
      BY <2>3
    <3>2. PICK p \in wifiQueue[c] : Sends(c, p)
      BY <3>1
    <3>3. lastAir[c] <= p.deadline
      BY DEF AirOrderInv
    <3>4. lastAir' = [lastAir EXCEPT ![c] = p.deadline]
      BY <3>2 DEF Sends
    <3> QED BY <2>1, <3>3, <3>4 DEF AirTypeInv
  <2>4. lastAir' = lastAir \/ \E c \in Bands : \E p \in wifiQueue[c] : Sends(c, p)
    BY PollEffect DEF NothingSent, Next, TickAndSubmit, BlePoll, vars, airVars
  <2> QED BY <2>2, <2>3, <2>4
<1> QED BY <1>1, AirInvariant, PTL DEF Spec, AirInOrder

-----------------------------------------------------------------------------
(* The part of Tasks that is Runtime is the same Runtime. *)
LEMMA SameRuntime ==
    /\ Abstract!runtimeVars = runtimeVars
    /\ \A t : Abstract!Built(t) = Built(t)
    /\ \A m, t : Abstract!PayloadOf(m, t) = PayloadOf(m, t)
    /\ \A failed, refused : Tick(failed, refused) <=> Abstract!Tick(failed, refused)
    /\ \A f : Apply(f) <=> Abstract!Apply(f)
    /\ SampleTime <=> Abstract!SampleTime
    /\ Skip <=> Abstract!Skip
    /\ TickRefused <=> Abstract!TickRefused
    /\ EndRound <=> Abstract!EndRound
    /\ Advance <=> Abstract!Advance
    /\ RuntimeInit <=> Abstract!RuntimeInit
<1> USE DEF Abstract!runtimeVars, runtimeVars, Abstract!fleetVars, fleetVars, Abstract!loopVars, loopVars
<1>1. \A t : Abstract!Built(t) = Built(t)
  BY DEF Abstract!Built, Built, Abstract!Due, Due, Abstract!Kinds, Kinds, Abstract!Location, Location
<1>2. \A m, t : Abstract!PayloadOf(m, t) = PayloadOf(m, t)
  BY DEF Abstract!PayloadOf, PayloadOf
<1>0. \A S : Abstract!Cardinality(S) = Cardinality(S)
  BY Zenon DEF Abstract!Cardinality, Cardinality
<1>3. \A failed, refused : Tick(failed, refused) <=> Abstract!Tick(failed, refused)
  BY <1>0, <1>1 DEF Abstract!Tick, Tick, Abstract!Refuses, Refuses, Abstract!AdvanceDue, AdvanceDue,
     Abstract!Due, Due, Abstract!Counted, Counted, Abstract!Kinds, Kinds
<1>4. \A f : Apply(f) <=> Abstract!Apply(f)
  BY Zenon DEF Abstract!Apply, Apply, Abstract!Schedule, Schedule, Abstract!FirstDue, FirstDue,
     Abstract!Kinds, Kinds, Abstract!NoStats, NoStats, Abstract!Counters, Counters, Abstract!Never, Never
<1>5. /\ SampleTime <=> Abstract!SampleTime
      /\ Skip <=> Abstract!Skip
      /\ TickRefused <=> Abstract!TickRefused
      /\ EndRound <=> Abstract!EndRound
      /\ Advance <=> Abstract!Advance
  BY DEF Abstract!SampleTime, SampleTime, Abstract!Skip, Skip, Abstract!TickRefused, TickRefused,
     Abstract!Refuses, Refuses, Abstract!EndRound, EndRound, Abstract!Advance, Advance
<1>6. RuntimeInit <=> Abstract!RuntimeInit
  BY DEF Abstract!RuntimeInit, RuntimeInit, Abstract!NoStats, NoStats, Abstract!Counters, Counters,
     Abstract!Never, Never
<1>7. Abstract!runtimeVars = runtimeVars
  OBVIOUS
<1> QED BY <1>1, <1>2, <1>3, <1>4, <1>5, <1>6, <1>7

(* The queues of all transports, as Tasks sees them. *)
Waiting == {Payload(p) : p \in wifiQueue["Wifi24"] \union wifiQueue["Wifi58"] \union bleQueue}

(* A step that takes payloads off the queues, and sends one of them in time or none, is a poll. *)
LEMMA PollImplements ==
    ASSUME AirTypeInv, InQueues' \subseteq InQueues,
           sent' = {} \/ \E q \in InQueues : sampledAt <= q.expires /\ sent' = {Payload(q)}
    PROVE  Abstract!Poll
<1>1. Waiting' \in SUBSET Waiting
  BY DEF Waiting, InQueues
<1>2. sent' = {} \/ \E p \in Waiting : sampledAt <= p.expires /\ sent' = {p}
  <2>1. ASSUME NEW q \in InQueues, sampledAt <= q.expires, sent' = {Payload(q)}
        PROVE  \E p \in Waiting : sampledAt <= p.expires /\ sent' = {p}
    <3>1. Payload(q) \in Waiting /\ Payload(q).expires = q.expires
      BY DEF Waiting, InQueues, Payload
    <3> QED BY <2>1, <3>1
  <2> QED BY <2>1
<1> QED BY <1>1, <1>2 DEF Abstract!Poll, Waiting

(* The initial states map to an initial state of Tasks. *)
LEMMA InitImplements == Init => Abstract!Init
<1> SUFFICES ASSUME Init PROVE Abstract!Init
  OBVIOUS
<1>1. Waiting = {} /\ sent = {} /\ RuntimeInit
  BY DEF Init, Waiting, Bands
<1> QED BY <1>1, SameRuntime DEF Abstract!Init, Waiting

(* Every step maps to a step of Tasks or to none. *)
LEMMA StepImplements ==
    IInv /\ AirInv /\ [Next]_vars => [Abstract!Next]_(Abstract!vars)
<1> SUFFICES ASSUME IInv, AirTypeInv, [Next]_vars
             PROVE  Abstract!Next \/ UNCHANGED Abstract!vars
  BY DEF AirInv
<1>1. CASE TickAndSubmit
  <2>1. PICK failed \in SUBSET Built(sampledAt) :
        LET offered == Built(sampledAt) \ failed
            accepted(t) == {Numbered(m) : m \in {n \in offered \ Refused(offered) : TransportOf(n) = t}}
        IN
        /\ Tick(failed, Refused(offered))
        /\ wifiQueue' = [b \in Bands |-> wifiQueue[b] \union accepted(b)]
        /\ bleQueue' = bleQueue \union accepted("Ble")
        /\ UNCHANGED sent
    BY <1>1 DEF TickAndSubmit
  <2> DEFINE offered == Built(sampledAt) \ failed
             refused == Refused(offered)
             accepted(t) == {Numbered(m) : m \in {n \in offered \ refused : TransportOf(n) = t}}
  <2>2. refused \in SUBSET offered /\ Tick(failed, refused) /\ sent' = sent
    BY <2>1 DEF Refused
  <2>3. \A m \in Built(sampledAt) :
            TransportOf(m) \in Transports /\ Payload(Numbered(m)) = PayloadOf(m, sampledAt)
    BY <1>1, TickAdds, NumberedPayload
  <2>4. wifiQueue'["Wifi24"] = wifiQueue["Wifi24"] \union accepted("Wifi24")
        /\ wifiQueue'["Wifi58"] = wifiQueue["Wifi58"] \union accepted("Wifi58")
        /\ bleQueue' = bleQueue \union accepted("Ble")
    BY <2>1 DEF Bands
  <2>5. accepted("Wifi24") \union accepted("Wifi58") \union accepted("Ble")
            = {Numbered(m) : m \in offered \ refused}
    BY <2>3 DEF Transports
  <2> HIDE DEF refused, accepted
  <2>6. Waiting' = Waiting \union {PayloadOf(m, sampledAt) : m \in offered \ refused}
    <3> DEFINE kept == offered \ refused
               old == wifiQueue["Wifi24"] \union wifiQueue["Wifi58"] \union bleQueue
               new == {Numbered(m) : m \in kept}
    <3>1. Waiting' = {Payload(p) : p \in old \union new}
      BY <2>4, <2>5 DEF Waiting, Payload
    <3>2. \A m \in kept : Payload(Numbered(m)) = PayloadOf(m, sampledAt)
      BY <2>3
    <3> HIDE DEF kept
    <3>3. {Payload(p) : p \in new} = {PayloadOf(m, sampledAt) : m \in kept}
      BY <3>2
    <3> HIDE DEF old, new
    <3>4. Waiting = {Payload(p) : p \in old}
      BY DEF Waiting, old
    <3> QED BY <3>1, <3>3, <3>4 DEF kept
  <2>7. Built(sampledAt) \ (failed \union refused) = offered \ refused
    OBVIOUS
  <2>8. {PayloadOf(m, sampledAt) : m \in offered \ refused}
            = {Abstract!PayloadOf(m, sampledAt) : m \in offered \ refused}
    BY SameRuntime
  <2>9. Abstract!Built(sampledAt) = Built(sampledAt) /\ Abstract!Tick(failed, refused)
    BY <2>2, SameRuntime
  <2>10. Abstract!TickAndSubmit
    <3>1. /\ failed \in SUBSET Abstract!Built(sampledAt)
          /\ refused \in SUBSET (Abstract!Built(sampledAt) \ failed)
      BY <2>2, <2>9
    <3>2. Waiting' = Waiting \union {Abstract!PayloadOf(m, sampledAt) :
                                       m \in Abstract!Built(sampledAt) \ (failed \union refused)}
      BY <2>6, <2>7, <2>8, <2>9
    <3> QED BY <2>2, <2>9, <3>1, <3>2 DEF Abstract!TickAndSubmit, Waiting
  <2> QED BY <2>10 DEF Abstract!Next
<1>2. CASE WifiPoll
  <2>1. UNCHANGED runtimeVars /\ phase = "polling" /\ bleQueue' = bleQueue
    BY <1>2 DEF WifiPoll, runtimeVars
  <2>2. CASE NothingSent(wifiQueue')
    <3>1. InQueues' \subseteq InQueues /\ sent' = {}
      BY <2>1, <2>2 DEF NothingSent, InQueues, Bands
    <3> QED BY <2>1, <3>1, PollImplements DEF Abstract!PollMore, Abstract!Next, Abstract!runtimeVars, runtimeVars,
        Abstract!fleetVars, fleetVars, Abstract!loopVars, loopVars
  <2>3. CASE \E b \in Bands : \E p \in wifiQueue[b] : Sends(b, p)
    <3>1. PICK b \in Bands : \E p \in wifiQueue[b] : Sends(b, p)
      BY <2>3
    <3>2. PICK p \in wifiQueue[b] : Sends(b, p)
      BY <3>1
    <3>3. InQueues' \subseteq InQueues
      BY <2>1, <3>2 DEF Sends, InQueues, Bands, AirTypeInv
    <3>4. p \in InQueues /\ sampledAt <= p.expires /\ sent' = {Payload(p)}
      BY <3>2 DEF Sends, InQueues, Bands
    <3> QED BY <2>1, <3>3, <3>4, PollImplements DEF Abstract!PollMore, Abstract!Next, Abstract!runtimeVars, runtimeVars,
        Abstract!fleetVars, fleetVars, Abstract!loopVars, loopVars
  <2> QED BY <1>2, <2>2, <2>3, PollEffect
<1>3. CASE BlePoll
  <2>1. InQueues' \subseteq InQueues /\ EndRound
    BY <1>3 DEF BlePoll, coordinatorVars, InQueues
  <2>2. sent' = {} \/ \E q \in InQueues : sampledAt <= q.expires /\ sent' = {Payload(q)}
    BY <1>3 DEF BlePoll, InQueues
  <2> QED BY <2>1, <2>2, PollImplements, SameRuntime DEF Abstract!LastPoll, Abstract!Next
<1>4. CASE /\ (\E f \in Fleets : Apply(f)) \/ SampleTime \/ Skip \/ TickRefused \/ Advance
           /\ UNCHANGED airVars
  <2>1. Waiting' = Waiting /\ sent' = sent
    BY <1>4 DEF airVars, coordinatorVars, Waiting, Payload
  <2> QED BY <1>4, <2>1, SameRuntime DEF Abstract!Next, Abstract!airVars, Waiting
<1>5. CASE UNCHANGED vars
  <2>1. Waiting' = Waiting /\ sent' = sent /\ UNCHANGED runtimeVars
    BY <1>5 DEF vars, airVars, coordinatorVars, Waiting, Payload
  <2> QED BY <2>1, SameRuntime DEF Abstract!vars, Abstract!airVars, Waiting, Abstract!runtimeVars, runtimeVars,
        Abstract!fleetVars, fleetVars, Abstract!loopVars, loopVars
<1> QED BY <1>1, <1>2, <1>3, <1>4, <1>5 DEF Next

(* The code's transports do no more to the two tasks than those of Tasks may: each step of the *)
(* firmware is a step of Tasks, or none.                                                          *)
THEOREM Implements == Spec => ImplementsTasks
  BY InitImplements, StepImplements, AirInvariant, PTL DEF Spec, ImplementsTasks, Abstract!Spec
=============================================================================
