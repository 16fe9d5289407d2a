-------------------------- MODULE TrajectoryProofs --------------------------
(***************************************************************************)
(* The extended time is exact for every width of the elapsed time, every   *)
(* fleet and every way its aircraft share entries, provided that two ticks *)
(* are less than half the range apart.  With it, what is flown between two *)
(* samples is what the trajectory allows, for every trajectory, size and   *)
(* speed, and every time between the samples; the motions, one type after  *)
(* the other, come first.                                                  *)
(***************************************************************************)
EXTENDS Trajectory, WellFoundedInduction, TLAPS

USE ConstantsAssumption DEF ConstantsAssumption

Recorded(e) == [high |-> wraps[e], low |-> lastElapsed[e]]

Untouched(e) == \A a \in Aircraft : Entry[a] = e => a \in waiting

(* An entry holds the time of this tick; or none of its aircraft has been sampled in this *)
(* tick, and it holds the time of the previous one, or nothing in the very first tick.     *)
EntryInv(e) ==
    \/ initialized[e] /\ Recorded(e) = elapsed
    \/ /\ Untouched(e)
       /\ initialized[e]
       /\ \E gap \in 0 .. MaxGap : elapsed = Plus(Recorded(e), gap)
    \/ Untouched(e) /\ ~initialized[e] /\ wraps[e] = 0 /\ elapsed.high = 0

IInv == TypeOK /\ \A e \in Entries : EntryInv(e)

(* The sum of a time and a gap is a time. *)
LEMMA PlusType == \A t \in Time, gap \in 0 .. MaxGap : Plus(t, gap) \in Time
BY DEF Plus, Time, Range

(* The part of a sample that rebuilds the time: a wrap is seen exactly when there was one. *)
LEMMA WrapSeen ==
    ASSUME IInv, NEW e \in Entries
    PROVE  (IF Wrapped(e, elapsed.low) THEN wraps[e] + 1 ELSE wraps[e]) = elapsed.high
<1>1. /\ elapsed \in Time /\ wraps[e] \in Nat /\ lastElapsed[e] \in 0 .. Range - 1
      /\ EntryInv(e)
  BY DEF IInv, TypeOK
<1>2. CASE initialized[e] /\ Recorded(e) = elapsed
  BY <1>1, <1>2 DEF Recorded, Wrapped, Time, Range
<1>3. CASE initialized[e] /\ \E gap \in 0 .. MaxGap : elapsed = Plus(Recorded(e), gap)
  <2>1. PICK gap \in 0 .. MaxGap : elapsed = Plus(Recorded(e), gap)
    BY <1>3
  <2>2. CASE lastElapsed[e] + gap < Range
    <3>1. elapsed.high = wraps[e] /\ elapsed.low = lastElapsed[e] + gap
      BY <1>1, <2>1, <2>2 DEF Plus, Recorded
    <3>. QED
      BY <1>1, <3>1 DEF Wrapped, Range
  <2>3. CASE ~(lastElapsed[e] + gap < Range)
    <3>1. elapsed.high = wraps[e] + 1 /\ elapsed.low = lastElapsed[e] + gap - Range
      BY <1>1, <2>1, <2>3 DEF Plus, Recorded
    <3>. QED
      BY <1>1, <1>3, <3>1 DEF Wrapped, Range
  <2>. QED
    BY <2>2, <2>3
<1>4. CASE ~initialized[e] /\ wraps[e] = 0 /\ elapsed.high = 0
  BY <1>4 DEF Wrapped
<1>. QED
  BY <1>1, <1>2, <1>3, <1>4 DEF EntryInv

(* A new engine. *)
LEMMA InvInit == Init => IInv
<1> SUFFICES ASSUME Init PROVE IInv
  OBVIOUS
<1>1. TypeOK
  BY DEF Init, TypeOK, Zero, Time, Range
<1>2. \A e \in Entries : EntryInv(e)
  BY DEF Init, EntryInv, Untouched, Zero
<1>. QED
  BY <1>1, <1>2 DEF IInv

(* Every step keeps the inductive invariant. *)
LEMMA InvStep == IInv /\ [Next]_vars => IInv'
<1> SUFFICES ASSUME IInv, [Next]_vars PROVE IInv'
  OBVIOUS
<1>1. TypeOK /\ \A e \in Entries : EntryInv(e)
  BY DEF IInv
<1>2. ASSUME NEW gap \in 0 .. MaxGap, Tick(gap) PROVE IInv'
  <2>1. TypeOK'
    BY <1>1, <1>2, PlusType DEF Tick, TypeOK
  <2>2. ASSUME NEW e \in Entries PROVE EntryInv(e)'
    <3>1. PICK a \in Aircraft : Entry[a] = e
      BY DEF Entries
    <3>2. a \notin waiting
      BY <1>2 DEF Tick
    <3>3. initialized[e] /\ Recorded(e) = elapsed
      BY <1>1, <3>1, <3>2 DEF EntryInv, Untouched
    <3>4. initialized'[e] /\ elapsed' = Plus(Recorded(e)', gap)
      BY <1>2, <3>3 DEF Tick, Recorded
    <3>5. Untouched(e)'
      BY <1>2 DEF Tick, Untouched
    <3>. QED
      BY <3>4, <3>5 DEF EntryInv
  <2>. QED
    BY <2>1, <2>2 DEF IInv
<1>3. ASSUME NEW a \in Aircraft, Sample(a) PROVE IInv'
  <2>. DEFINE e == Entry[a]
  <2>1. e \in Entries
    BY DEF Entries
  <2>2. /\ elapsed \in Time /\ elapsed' = elapsed
        /\ wraps \in [Entries -> Nat] /\ lastElapsed \in [Entries -> 0 .. Range - 1]
        /\ initialized \in [Entries -> BOOLEAN]
    BY <1>1, <1>3 DEF TypeOK, Sample
  <2>3. /\ wraps' = [wraps EXCEPT ![e] = elapsed.high]
        /\ lastElapsed' = [lastElapsed EXCEPT ![e] = elapsed.low]
        /\ initialized' = [initialized EXCEPT ![e] = TRUE]
        /\ waiting' = waiting \ {a}
    BY <1>3, <2>1, <2>2, WrapSeen DEF Sample
  <2>4. TypeOK'
    <3>1. sampled' = [high |-> elapsed.high, low |-> elapsed.low]
      BY <1>3, <2>1, <2>2, <2>3 DEF Sample
    <3>. QED
      BY <1>1, <2>2, <2>3, <3>1 DEF TypeOK, Time
  <2>5. ASSUME NEW f \in Entries PROVE EntryInv(f)'
    <3>1. CASE f = e
      <4>1. initialized'[f] /\ Recorded(f)' = [high |-> elapsed.high, low |-> elapsed.low]
        BY <2>1, <2>2, <2>3, <3>1 DEF Recorded
      <4>2. elapsed = [high |-> elapsed.high, low |-> elapsed.low]
        BY <2>2 DEF Time
      <4>. QED
        BY <2>2, <4>1, <4>2 DEF EntryInv
    <3>2. CASE f # e
      <4>1. initialized'[f] = initialized[f] /\ Recorded(f)' = Recorded(f) /\ wraps'[f] = wraps[f]
        BY <2>2, <2>3, <3>2 DEF Recorded
      <4>2. Untouched(f) => Untouched(f)'
        BY <2>3, <3>2 DEF Untouched
      <4>. QED
        BY <1>1, <2>2, <4>1, <4>2 DEF EntryInv
    <3>. QED
      BY <3>1, <3>2
  <2>. QED
    BY <2>4, <2>5 DEF IInv
<1>4. CASE UNCHANGED vars
  BY <1>1, <1>4 DEF vars, IInv, TypeOK, EntryInv, Untouched, Recorded
<1>. QED
  BY <1>2, <1>3, <1>4 DEF Next

(* So it holds in every reachable state. *)
LEMMA Invariance == Spec => []IInv
BY InvInit, InvStep, PTL DEF Spec

(* Every reachable state is well typed. *)
THEOREM TypeCorrect == Spec => []TypeOK
<1>1. IInv => TypeOK
  BY DEF IInv
<1>. QED
  BY <1>1, Invariance, PTL

(* A sample is taken at the true time. *)
LEMMA SampleOnTime == ASSUME IInv, NEW a \in Aircraft, Sample(a) PROVE sampled' = elapsed
<1> DEFINE e == Entry[a]
<1>1. e \in Entries /\ elapsed \in Time /\ wraps \in [Entries -> Nat]
  BY DEF IInv, TypeOK, Entries
<1>2. wraps'[e] = elapsed.high
  BY <1>1, WrapSeen DEF Sample
<1>3. sampled' = [high |-> elapsed.high, low |-> elapsed.low]
  BY <1>2 DEF Sample
<1>. QED
  BY <1>1, <1>3 DEF Time

(* Trajectories are sampled at the true time, for any number of wraps. *)
THEOREM ClockExact == Spec => SampledOnTime
<1>1. IInv /\ [Next]_vars =>
        [\A a \in waiting : Sample(a) => sampled' = elapsed]_vars
  BY SampleOnTime DEF IInv, TypeOK
<1>. QED
  BY <1>1, Invariance, PTL DEF Spec, SampledOnTime

(* Multiplication by a speed keeps the order. *)
LEMMA Faster == \A a, b, s \in Int : s >= 0 /\ a <= b => a * s <= b * s
<1> SUFFICES ASSUME NEW a \in Int, NEW b \in Int, NEW s \in Int, s >= 0, a <= b PROVE a * s <= b * s
  OBVIOUS
<1>1. (b - a) * s >= 0
  OBVIOUS
<1>2. (b - a) * s = b * s - a * s
  OBVIOUS
<1>. QED
  BY <1>1, <1>2

(* Quotient and remainder. *)
LEMMA Division ==
    ASSUME NEW n \in Int, NEW d \in Int, d > 0
    PROVE  /\ n \div d \in Int /\ (n % d) \in 0 .. d - 1
           /\ n = (n \div d) * d + (n % d)
<1>1. n = (n \div d) * d + (n % d)
  BY Z3
<1>2. n \div d \in Int /\ (n % d) \in 0 .. d - 1
  BY Z3
<1>. QED
  BY <1>1, <1>2

(* Two points of a ring that are at most a gap apart, one way round or the other. *)
Close(x, y, ring, gap) == Abs(y - x) <= gap \/ ring - Abs(y - x) <= gap

(* The phases of two times a gap apart are at most a gap apart on the ring of phases. *)
LEMMA PhaseStep ==
    ASSUME NEW P \in Nat \ {0}, NEW t \in Nat, NEW gap \in Nat
    PROVE  /\ Close(t % P, (t + gap) % P, P, gap)
           /\ gap = 1 => \/ (t + gap) % P = (t % P) + 1
                         \/ t % P = P - 1 /\ (t + gap) % P = 0
<1> DEFINE x == t % P
           y == (t + gap) % P
           a == t \div P
           b == (t + gap) \div P
           k == b - a
<1>1. x \in 0 .. P - 1 /\ y \in 0 .. P - 1 /\ a \in Int /\ b \in Int
  BY Division
<1>2. t = a * P + x /\ t + gap = b * P + y
  BY Division
<1>3. k \in Int /\ y - x = gap - k * P
  <2>1. b * P - a * P = (b - a) * P
    BY <1>1
  <2> HIDE DEF x, y, a, b
  <2>. QED
    BY <1>1, <1>2, <2>1
<1> HIDE DEF x, y, k
<1>4. CASE k < 0
  <2>1. k * P <= -P
    <3>1. (k + 1) * P <= 0
      BY <1>3, <1>4
    <3>. QED
      BY <3>1, <1>3
  <2>. QED
    BY <1>1, <1>3, <2>1
<1>5. CASE k = 0
  BY <1>1, <1>3, <1>5 DEF Close, Abs, x, y
<1>6. CASE k = 1
  BY <1>1, <1>3, <1>6 DEF Close, Abs, x, y
<1>7. CASE k >= 2
  <2>1. k * P >= 2 * P
    <3>1. (k - 2) * P >= 0
      BY <1>3, <1>7
    <3>. QED
      BY <3>1, <1>3
  <2>2. gap > P
    BY <1>1, <1>3, <2>1
  <2>. QED
    BY <1>1, <2>2 DEF Close, Abs, x, y
<1>. QED
  BY <1>3, <1>4, <1>5, <1>6, <1>7

(* Distances on a ring, in place of times. *)
LEMMA Scaled ==
    ASSUME NEW x \in Int, NEW y \in Int, NEW ring \in Int, NEW gap \in Int, NEW v \in Nat,
           Close(x, y, ring, gap)
    PROVE  Close(x * v, y * v, ring * v, v * gap)
<1>1. Abs(y - x) \in Int /\ Abs(y * v - x * v) = Abs(y - x) * v
  <2>1. y * v - x * v = (y - x) * v /\ y - x \in Int
    OBVIOUS
  <2>2. CASE y - x < 0
    <3>1. (y - x) * v <= 0 /\ -((y - x) * v) = (-(y - x)) * v
      BY <2>1, <2>2
    <3>. QED
      BY <2>1, <2>2, <3>1 DEF Abs
  <2>3. CASE y - x >= 0
    <3>1. (y - x) * v >= 0
      BY <2>1, <2>3
    <3>. QED
      BY <2>1, <2>3, <3>1 DEF Abs
  <2>. QED
    BY <2>1, <2>2, <2>3
<1>2. CASE Abs(y - x) <= gap
  <2>1. Abs(y - x) * v <= gap * v
    BY <1>1, <1>2, Faster
  <2>. QED
    BY <1>1, <2>1 DEF Close
<1>3. CASE ring - Abs(y - x) <= gap
  <2>1. (ring - Abs(y - x)) * v <= gap * v
    BY <1>1, <1>3, Faster
  <2>2. (ring - Abs(y - x)) * v = ring * v - Abs(y - x) * v
    BY <1>1
  <2>. QED
    BY <1>1, <2>1, <2>2 DEF Close
<1>. QED
  BY <1>2, <1>3 DEF Close

-----------------------------------------------------------------------------
(* The trajectories.  What is the same for all that go round over ground: *)
Circuits == {c \in Configs : c.type \in {"Line", "Rectangle"}}

(* The fields of a line and of a rectangle. *)
LEMMA CircuitFields ==
    ASSUME NEW c \in Circuits
    PROVE  /\ c.speed \in Nat \ {0} /\ c.size \in Nat \ {0} /\ c.altitude \in Nat
           /\ c.type = "Line" => /\ c.heading \in Headings /\ c.size > c.speed
           /\ c.type = "Rectangle" => /\ c.secondary \in Nat \ {0}
                                      /\ c.size % 2 = 0 /\ c.secondary % 2 = 0
<1>1. c \in TrajectoryConfigs /\ Valid(c) /\ Exact(c) /\ c.type \in {"Line", "Rectangle"}
  BY ConfigsAssumption DEF Circuits
<1>2. CASE c.type = "Line"
  BY <1>1, <1>2 DEF TrajectoryConfigs, Valid, Exact
<1>3. CASE c.type = "Rectangle"
  BY <1>1, <1>3 DEF TrajectoryConfigs, Valid, Exact
<1>. QED
  BY <1>1, <1>2, <1>3

(* A round takes a whole number of ticks, and every phase an instance starts in is one of them. *)
LEMMA Rounds ==
    ASSUME NEW c \in Circuits
    PROVE  /\ Loop(c) \in Nat /\ Period(c) \in Nat \ {0} /\ Period(c) * c.speed = Loop(c)
           /\ Period(c) \div Slots \in Nat \ {0} /\ Period(c) = (Period(c) \div Slots) * Slots
           /\ Slots \in Nat \ {0, 1}
<1>1. c.speed \in Nat \ {0}
  BY CircuitFields
<1>2. Loop(c) \in Nat \ {0}
  BY CircuitFields DEF Loop, Circuits
<1>3. Period(c) = Loop(c) \div c.speed
  BY DEF Period, Circuits
<1>4. Loop(c) % c.speed = 0 /\ Period(c) % Slots = 0 /\ Slots \in Nat \ {0, 1}
  BY ConfigsAssumption DEF Exact, Circuits
<1>5. Period(c) \in Int /\ Loop(c) = Period(c) * c.speed
  BY <1>1, <1>2, <1>3, <1>4, Division
<1>6. Period(c) > 0
  <2>1. ASSUME Period(c) <= 0 PROVE Period(c) * c.speed <= 0
    BY <1>1, <1>5, <2>1
  <2>. QED
    BY <1>2, <1>5, <2>1
<1> DEFINE k == Period(c) \div Slots
<1>7. k \in Int /\ Period(c) = k * Slots
  BY <1>4, <1>5, Division
<1>8. k > 0
  <2>1. ASSUME k <= 0 PROVE k * Slots <= 0
    BY <1>4, <1>7, <2>1
  <2>. QED
    BY <1>5, <1>6, <1>7, <2>1
<1>. QED
  BY <1>2, <1>4, <1>5, <1>6, <1>7, <1>8

(* A phase of a circuit is a place on its loop, in whole multiples of the speed. *)
LEMMA PlaceOnLoop ==
    ASSUME NEW c \in Circuits, NEW x \in 0 .. Period(c) - 1
    PROVE  /\ x * c.speed \in Nat /\ x * c.speed <= Loop(c) - c.speed
           /\ (x + 1) * c.speed = x * c.speed + c.speed
           /\ (Period(c) - 1) * c.speed = Loop(c) - c.speed
           /\ Loop(c) \in Nat /\ Loop(c) >= 2 * c.speed
<1>1. c.speed \in Nat \ {0} /\ Loop(c) \in Nat /\ Period(c) \in Nat \ {0} /\ Period(c) * c.speed = Loop(c)
  BY CircuitFields, Rounds
<1> DEFINE v == c.speed
           P == Period(c)
           k == P \div Slots
<1>2. Slots \in Nat /\ Slots >= 2 /\ k \in Nat \ {0} /\ P = k * Slots
  BY Rounds
<1> HIDE DEF v, P, k
<1>3. P \in Nat /\ v \in Nat \ {0} /\ P * v = Loop(c) /\ x \in Nat /\ x <= P - 1
  BY <1>1 DEF v, P
<1>4. P >= 2
  <2>1. (k - 1) * Slots >= 0
    BY <1>2
  <2>2. k * Slots = (k - 1) * Slots + Slots
    BY <1>2
  <2>. QED
    BY <1>2, <1>3, <2>1, <2>2
<1>5. x * v \in Nat /\ (x + 1) * v = x * v + v /\ (P - 1) * v = P * v - v
  BY <1>3
<1>6. x * v <= (P - 1) * v
  BY <1>3, Faster
<1>7. 2 * v <= P * v
  BY <1>3, <1>4, Faster
<1>. QED
  BY <1>3, <1>5, <1>6, <1>7 DEF v, P

(* Two phases close on their ring are two places close on the loop. *)
LEMMA CloseOnLoop ==
    ASSUME NEW c \in Circuits, NEW x \in 0 .. Period(c) - 1, NEW y \in 0 .. Period(c) - 1,
           NEW gap \in Nat, Close(x, y, Period(c), gap)
    PROVE  Close(x * c.speed, y * c.speed, Loop(c), c.speed * gap)
<1> DEFINE v == c.speed
           P == Period(c)
<1>1. P \in Int /\ v \in Nat /\ P * v = Loop(c) /\ gap \in Int
  BY CircuitFields, Rounds
<1>2. x \in Int /\ y \in Int
  BY <1>1
<1>3. Close(x, y, P, gap)
  OBVIOUS
<1> HIDE DEF P, v
<1>4. Close(x * v, y * v, P * v, v * gap)
  BY <1>1, <1>2, <1>3, Scaled, Zenon
<1>. QED
  BY <1>1, <1>4 DEF v

(* Two phases are two places. *)
LEMMA PlacesDiffer ==
    ASSUME NEW c \in Circuits, NEW x \in 0 .. Period(c) - 1, NEW y \in 0 .. Period(c) - 1, x # y
    PROVE  x * c.speed # y * c.speed
<1>1. c.speed \in Nat \ {0} /\ Period(c) \in Int
  BY CircuitFields, Rounds
<1>2. \A i, j \in 0 .. Period(c) - 1 : i < j => i * c.speed < j * c.speed
  <2>1. SUFFICES ASSUME NEW i \in 0 .. Period(c) - 1, NEW j \in 0 .. Period(c) - 1, i < j
                 PROVE  i * c.speed < j * c.speed
    OBVIOUS
  <2>2. (i + 1) * c.speed <= j * c.speed
    BY <1>1, <2>1, Faster
  <2>3. (i + 1) * c.speed = i * c.speed + c.speed /\ i * c.speed \in Nat /\ j * c.speed \in Nat
    BY PlaceOnLoop
  <2>. QED
    BY <1>1, <2>2, <2>3
<1>3. x * c.speed \in Nat /\ y * c.speed \in Nat
  BY PlaceOnLoop
<1>4. x < y \/ y < x
  BY <1>1
<1>. QED
  BY <1>2, <1>3, <1>4

(* Out and back along a line: where it is when it has travelled so far. *)
Along(c, travelled) == IF travelled > c.size THEN 2 * c.size - travelled ELSE travelled

(* What a line reports of a place on it. *)
LEMMA OnLine ==
    ASSUME NEW c \in Circuits, c.type = "Line", NEW x \in 0 .. Period(c) - 1
    PROVE  /\ SampleLine(c, x).east = Along(c, x * c.speed) * East(c.heading)
           /\ SampleLine(c, x).north = Along(c, x * c.speed) * North(c.heading)
           /\ SampleLine(c, x).up = c.altitude /\ SampleLine(c, x).speed = c.speed
           /\ SampleLine(c, x).climb = 0
           /\ SampleLine(c, x).heading = IF x * c.speed > c.size THEN Back(c.heading) ELSE c.heading
           /\ Along(c, x * c.speed) \in Int
           /\ Loop(c) = 2 * c.size
<1> DEFINE place == x * c.speed
<1>1. c.size \in Nat /\ place \in Nat
  BY CircuitFields, PlaceOnLoop
<1>2. Along(c, place) \in Int
  <2> HIDE DEF place
  <2>. QED
    BY <1>1 DEF Along
<1>. QED
  BY <1>2 DEF SampleLine, At, Along, Loop

(* The heading of a line is an axis, and the way back is the other heading of the same axis. *)
LEMMA Axes ==
    ASSUME NEW h \in Headings
    PROVE  /\ Back(h) \in Headings /\ Back(h) # h
           /\ East(Back(h)) = -East(h) /\ North(Back(h)) = -North(h)
           /\ \/ East(h) \in {1, -1} /\ North(h) = 0
              \/ North(h) \in {1, -1} /\ East(h) = 0
BY DEF Headings, Back, East, North

(* A line: two phases, and what is flown between them. *)
LEMMA LineMotion ==
    ASSUME NEW c \in Circuits, c.type = "Line",
           NEW x \in 0 .. Period(c) - 1, NEW y \in 0 .. Period(c) - 1
    PROVE  LET p == SampleLine(c, x)
               q == SampleLine(c, y)
           IN  /\ \A gap \in Nat : Close(x, y, Period(c), gap) =>
                    Distance(p, q) <= c.speed * gap /\ p.up = q.up
               /\ (y = x + 1 \/ (x = Period(c) - 1 /\ y = 0)) /\ p.heading = q.heading =>
                    /\ q.east - p.east = p.speed * East(p.heading)
                    /\ q.north - p.north = p.speed * North(p.heading)
                    /\ q.up - p.up = p.climb
               /\ x # y => p # q
<1> DEFINE p == SampleLine(c, x)
           q == SampleLine(c, y)
           v == c.speed
           h == c.heading
           dx == x * c.speed
           dy == y * c.speed
           ax == Along(c, dx)
           ay == Along(c, dy)
<1>1. /\ v \in Nat \ {0} /\ c.size \in Nat \ {0} /\ c.altitude \in Nat /\ h \in Headings
      /\ c.size > v
  BY CircuitFields
<1>2. /\ dx \in Nat /\ dx <= 2 * c.size - v /\ dy \in Nat /\ dy <= 2 * c.size - v
      /\ Loop(c) = 2 * c.size
      /\ (Period(c) - 1) * v = 2 * c.size - v /\ (x + 1) * v = dx + v
  BY PlaceOnLoop, OnLine
<1>3. /\ p.east = ax * East(h) /\ p.north = ax * North(h)
      /\ q.east = ay * East(h) /\ q.north = ay * North(h)
      /\ p.up = c.altitude /\ q.up = c.altitude /\ p.speed = v /\ p.climb = 0
      /\ p.heading = (IF dx > c.size THEN Back(h) ELSE h)
      /\ q.heading = (IF dy > c.size THEN Back(h) ELSE h)
  BY OnLine
<1>4. /\ ax = IF dx > c.size THEN 2 * c.size - dx ELSE dx
      /\ ay = IF dy > c.size THEN 2 * c.size - dy ELSE dy
  BY DEF Along
<1>5. /\ Back(h) # h /\ East(Back(h)) = -East(h) /\ North(Back(h)) = -North(h)
      /\ \/ East(h) \in {1, -1} /\ North(h) = 0
         \/ North(h) \in {1, -1} /\ East(h) = 0
  BY <1>1, Axes
<1>6. x # y => dx # dy
  BY PlacesDiffer
<1>7. ASSUME NEW gap \in Nat, Close(x, y, Period(c), gap) PROVE Distance(p, q) <= v * gap
  <2>1. Close(dx, dy, 2 * c.size, v * gap)
    <3>1. Close(dx, dy, Loop(c), v * gap)
      BY <1>7, CloseOnLoop
    <3>. QED
      BY <1>2, <3>1
  <2> DEFINE m == v * gap
  <2>2. m \in Nat
    BY <1>1
  <2> HIDE DEF p, q, v, h, dx, dy, ax, ay, m
  <2>3. Abs(ax - ay) <= m /\ ax \in Int /\ ay \in Int
    BY <1>1, <1>2, <1>4, <2>1, <2>2 DEF Close, Abs, m
  <2>4. Distance(p, q) = Abs(ax - ay)
    BY <1>3, <1>5, <2>3 DEF Distance, Abs
  <2>. QED
    BY <2>3, <2>4 DEF m
<1>8. ASSUME y = x + 1 \/ (x = Period(c) - 1 /\ y = 0), p.heading = q.heading
      PROVE  /\ q.east - p.east = p.speed * East(p.heading)
             /\ q.north - p.north = p.speed * North(p.heading)
             /\ q.up - p.up = p.climb
  <2>1. dy = dx + v \/ (dx = 2 * c.size - v /\ dy = 0)
    <3>1. CASE y = x + 1
      BY <1>2, <3>1
    <3>2. CASE x = Period(c) - 1 /\ y = 0
      BY <1>1, <1>2, <3>2
    <3>. QED
      BY <1>8, <3>1, <3>2
  <2> HIDE DEF p, q, v, h, dx, dy, ax, ay
  <2>2. \/ dx <= c.size /\ dy <= c.size
        \/ dx > c.size /\ dy > c.size
    BY <1>1, <1>2, <1>3, <1>5, <1>8
  <2>3. dy = dx + v
    BY <1>1, <1>2, <2>1, <2>2
  <2>. QED
    BY <1>1, <1>2, <1>3, <1>4, <1>5, <2>2, <2>3
<1>9. ASSUME x # y, p = q PROVE FALSE
  <2>1. dx # dy /\ p.heading = q.heading /\ p.east = q.east /\ p.north = q.north
    BY <1>6, <1>9
  <2> HIDE DEF p, q, v, h, dx, dy, ax, ay
  <2>2. ax # ay /\ ax \in Int /\ ay \in Int
    BY <1>1, <1>2, <1>3, <1>4, <1>5, <2>1
  <2>. QED
    BY <1>3, <1>5, <2>1, <2>2
<1>10. p.up = q.up
  BY <1>3
<1> HIDE DEF p, q
<1>. QED
  BY <1>7, <1>8, <1>9, <1>10 DEF p, q

(* Where a rectangle is flown at a distance: the side, the place on it and the heading. *)
OnSide(d, w, s, p) ==
    \/ d < w /\ p.heading = 90 /\ 2 * p.east = 2 * d - w /\ 2 * p.north = -s
    \/ w <= d /\ d < w + s /\ p.heading = 0 /\ 2 * p.east = w /\ 2 * p.north = 2 * (d - w) - s
    \/ w + s <= d /\ d < 2 * w + s /\ p.heading = 270
       /\ 2 * p.east = w - 2 * (d - w - s) /\ 2 * p.north = s
    \/ 2 * w + s <= d /\ p.heading = 180 /\ 2 * p.east = -w /\ 2 * p.north = s - 2 * (d - 2 * w - s)

(* What a rectangle reports of a place on it. *)
LEMMA OnRectangle ==
    ASSUME NEW c \in Circuits, c.type = "Rectangle", NEW x \in 0 .. Period(c) - 1
    PROVE  /\ OnSide(x * c.speed, c.size, c.secondary, SampleRectangle(c, x))
           /\ SampleRectangle(c, x).east \in Int /\ SampleRectangle(c, x).north \in Int
           /\ SampleRectangle(c, x).up = c.altitude /\ SampleRectangle(c, x).speed = c.speed
           /\ SampleRectangle(c, x).climb = 0
           /\ Loop(c) = 2 * (c.size + c.secondary)
<1> DEFINE d == x * c.speed
           w == c.size
           s == c.secondary
           e == w \div 2
           n == s \div 2
           Side(ea, no, heading) == At(ea, no, c.altitude, c.speed, 0, heading)
           p == SampleRectangle(c, x)
<1>1. w \in Nat \ {0} /\ s \in Nat \ {0} /\ w % 2 = 0 /\ s % 2 = 0
  BY CircuitFields
<1>2. e \in Int /\ n \in Int /\ w = 2 * e /\ s = 2 * n
  BY <1>1
<1>3. d \in Nat
  BY PlaceOnLoop
<1>4. p = CASE d < w -> Side(d - e, -n, 90)
            [] d >= w /\ d < w + s -> Side(e, d - w - n, 0)
            [] d >= w + s /\ d < 2 * w + s -> Side(e - (d - w - s), n, 270)
            [] d >= 2 * w + s -> Side(-e, n - (d - 2 * w - s), 180)
  BY DEF SampleRectangle
<1> HIDE DEF d, w, s, e, n, p
<1>5. CASE d < w
  <2>1. p = Side(d - e, -n, 90)
    BY <1>1, <1>3, <1>4, <1>5
  <2>. QED
    BY <1>1, <1>2, <1>3, <1>5, <2>1 DEF OnSide, At, d, w, s, p, Loop
<1>6. CASE d >= w /\ d < w + s
  <2>1. p = Side(e, d - w - n, 0)
    BY <1>1, <1>3, <1>4, <1>6
  <2>. QED
    BY <1>1, <1>2, <1>3, <1>6, <2>1 DEF OnSide, At, d, w, s, p, Loop
<1>7. CASE d >= w + s /\ d < 2 * w + s
  <2>1. p = Side(e - (d - w - s), n, 270)
    BY <1>1, <1>3, <1>4, <1>7
  <2>. QED
    BY <1>1, <1>2, <1>3, <1>7, <2>1 DEF OnSide, At, d, w, s, p, Loop
<1>8. CASE d >= 2 * w + s
  <2>1. p = Side(-e, n - (d - 2 * w - s), 180)
    BY <1>1, <1>3, <1>4, <1>8
  <2>. QED
    BY <1>1, <1>2, <1>3, <1>8, <2>1 DEF OnSide, At, d, w, s, p, Loop
<1>. QED
  BY <1>1, <1>3, <1>5, <1>6, <1>7, <1>8

(* Two places on the sides are no further apart than the way along the sides. *)
LEMMA OnSides ==
    ASSUME NEW w \in Nat \ {0}, NEW s \in Nat \ {0}, NEW p, NEW q, NEW dx \in Nat, NEW dy \in Nat,
           dx < 2 * (w + s), dy < 2 * (w + s), OnSide(dx, w, s, p), OnSide(dy, w, s, q),
           p.east \in Int, p.north \in Int, q.east \in Int, q.north \in Int
    PROVE  \A m \in Nat : Close(dx, dy, 2 * (w + s), m) => Distance(p, q) <= m
<1> DEFINE pe == p.east
           pn == p.north
           qe == q.east
           qn == q.north
<1>1. ASSUME NEW m \in Nat, Close(dx, dy, 2 * (w + s), m)
      PROVE  Abs(pe - qe) + Abs(pn - qn) <= m
  <2> HIDE DEF pe, pn, qe, qn
  <2>1. pe \in Int /\ pn \in Int /\ qe \in Int /\ qn \in Int
    BY DEF pe, pn, qe, qn
  <2>2. \/ dy - dx <= m /\ dx - dy <= m
        \/ 2 * (w + s) - (dy - dx) <= m /\ dy >= dx
        \/ 2 * (w + s) - (dx - dy) <= m /\ dx >= dy
    BY <1>1 DEF Close, Abs
  <2>3. CASE dx < w /\ 2 * pe = 2 * dx - w /\ 2 * pn = -s
    BY <2>1, <2>2, <2>3 DEF OnSide, Abs, qe, qn
  <2>4. CASE w <= dx /\ dx < w + s /\ 2 * pe = w /\ 2 * pn = 2 * (dx - w) - s
    BY <2>1, <2>2, <2>4 DEF OnSide, Abs, qe, qn
  <2>5. CASE w + s <= dx /\ dx < 2 * w + s /\ 2 * pe = w - 2 * (dx - w - s) /\ 2 * pn = s
    BY <2>1, <2>2, <2>5 DEF OnSide, Abs, qe, qn
  <2>6. CASE 2 * w + s <= dx /\ 2 * pe = -w /\ 2 * pn = s - 2 * (dx - 2 * w - s)
    BY <2>1, <2>2, <2>6 DEF OnSide, Abs, qe, qn
  <2>. QED
    BY <2>3, <2>4, <2>5, <2>6 DEF OnSide, pe, pn
<1>. QED
  BY <1>1 DEF Distance

(* A rectangle: two phases, and what is flown between them. *)
LEMMA RectangleMotion ==
    ASSUME NEW c \in Circuits, c.type = "Rectangle",
           NEW x \in 0 .. Period(c) - 1, NEW y \in 0 .. Period(c) - 1
    PROVE  LET p == SampleRectangle(c, x)
               q == SampleRectangle(c, y)
           IN  /\ \A gap \in Nat : Close(x, y, Period(c), gap) =>
                    Distance(p, q) <= c.speed * gap /\ p.up = q.up
               /\ (y = x + 1 \/ (x = Period(c) - 1 /\ y = 0)) /\ p.heading = q.heading =>
                    /\ q.east - p.east = p.speed * East(p.heading)
                    /\ q.north - p.north = p.speed * North(p.heading)
                    /\ q.up - p.up = p.climb
               /\ x # y => p # q
<1> DEFINE p == SampleRectangle(c, x)
           q == SampleRectangle(c, y)
           v == c.speed
           w == c.size
           s == c.secondary
           dx == x * c.speed
           dy == y * c.speed
<1>1. v \in Nat \ {0} /\ w \in Nat \ {0} /\ s \in Nat \ {0} /\ c.altitude \in Nat
  BY CircuitFields
<1>2. /\ dx \in Nat /\ dx <= 2 * (w + s) - v /\ dy \in Nat /\ dy <= 2 * (w + s) - v
      /\ 2 * (w + s) >= 2 * v /\ Loop(c) = 2 * (w + s)
      /\ (Period(c) - 1) * v = 2 * (w + s) - v /\ (x + 1) * v = dx + v
  BY PlaceOnLoop, OnRectangle
<1>3. /\ OnSide(dx, w, s, p) /\ OnSide(dy, w, s, q)
      /\ p.east \in Int /\ p.north \in Int /\ q.east \in Int /\ q.north \in Int
      /\ p.up = c.altitude /\ q.up = c.altitude /\ p.speed = v /\ p.climb = 0
  BY OnRectangle
<1>4. x # y => dx # dy
  BY PlacesDiffer
<1>5. ASSUME NEW gap \in Nat, Close(x, y, Period(c), gap) PROVE Distance(p, q) <= v * gap
  <2>1. Close(dx, dy, 2 * (w + s), v * gap)
    <3>1. Close(dx, dy, Loop(c), v * gap)
      BY <1>5, CloseOnLoop
    <3>. QED
      BY <1>2, <3>1
  <2>2. v * gap \in Nat
    BY <1>1
  <2>3. dx < 2 * (w + s) /\ dy < 2 * (w + s)
    BY <1>1, <1>2
  <2> HIDE DEF p, q, v, w, s, dx, dy
  <2>. QED
    BY <1>1, <1>2, <1>3, <2>1, <2>2, <2>3, OnSides
<1>6. ASSUME y = x + 1 \/ (x = Period(c) - 1 /\ y = 0), p.heading = q.heading
      PROVE  /\ q.east - p.east = p.speed * East(p.heading)
             /\ q.north - p.north = p.speed * North(p.heading)
             /\ q.up - p.up = p.climb
  <2>1. dy = dx + v \/ (dx = 2 * (w + s) - v /\ dy = 0)
    <3>1. CASE y = x + 1
      BY <1>2, <3>1
    <3>2. CASE x = Period(c) - 1 /\ y = 0
      BY <1>1, <1>2, <3>2
    <3>. QED
      BY <1>6, <3>1, <3>2
  <2> HIDE DEF p, q, v, w, s, dx, dy
  <2>2. dy = dx + v
    BY <1>1, <1>2, <1>3, <1>6, <2>1 DEF OnSide
  <2>3. CASE p.heading = 90
    <3>1. q.east - p.east = v /\ q.north - p.north = 0
      BY <1>1, <1>2, <1>3, <1>6, <2>2, <2>3 DEF OnSide
    <3>2. East(p.heading) = 1 /\ North(p.heading) = 0
      BY <2>3 DEF East, North
    <3>. QED
      BY <1>1, <1>3, <3>1, <3>2
  <2>4. CASE p.heading = 0
    <3>1. q.east - p.east = 0 /\ q.north - p.north = v
      BY <1>1, <1>2, <1>3, <1>6, <2>2, <2>4 DEF OnSide
    <3>2. East(p.heading) = 0 /\ North(p.heading) = 1
      BY <2>4 DEF East, North
    <3>. QED
      BY <1>1, <1>3, <3>1, <3>2
  <2>5. CASE p.heading = 270
    <3>0. /\ 2 * p.east = w - 2 * (dx - w - s) /\ 2 * p.north = s
          /\ 2 * q.east = w - 2 * (dy - w - s) /\ 2 * q.north = s
      BY <1>3, <1>6, <2>5 DEF OnSide
    <3>1. q.east - p.east = -v /\ q.north - p.north = 0
      BY <1>1, <1>2, <1>3, <2>2, <3>0
    <3>2. East(p.heading) = -1 /\ North(p.heading) = 0
      BY <2>5 DEF East, North
    <3>. QED
      BY <1>1, <1>3, <3>1, <3>2
  <2>6. CASE p.heading = 180
    <3>1. q.east - p.east = 0 /\ q.north - p.north = -v
      BY <1>1, <1>2, <1>3, <1>6, <2>2, <2>6 DEF OnSide
    <3>2. East(p.heading) = 0 /\ North(p.heading) = -1
      BY <2>6 DEF East, North
    <3>. QED
      BY <1>1, <1>3, <3>1, <3>2
  <2>. QED
    BY <1>3, <2>3, <2>4, <2>5, <2>6 DEF OnSide
<1>7. x # y => p # q
  <2>1. dx < 2 * (w + s) /\ dy < 2 * (w + s)
    BY <1>1, <1>2
  <2> HIDE DEF p, q, v, w, s, dx, dy
  <2>2. ASSUME dx # dy, p = q PROVE FALSE
    BY <1>1, <1>2, <1>3, <2>1, <2>2 DEF OnSide
  <2>. QED
    BY <1>4, <2>2
<1>8. p.up = q.up
  BY <1>3
<1> HIDE DEF p, q
<1>. QED
  BY <1>5, <1>6, <1>7, <1>8 DEF p, q

(* Take-off, cruise and landing: how many ticks of climb above the site it is. *)
Level(c, x) ==
    LET top == c.altitude \div c.climb IN
    IF x < top THEN x ELSE IF x < top + c.cruise THEN top ELSE 2 * top + c.cruise - x

(* The fields of a mission, and its three parts. *)
LEMMA MissionFields ==
    ASSUME NEW c \in Configs, c.type = "TakeoffCruiseLand"
    PROVE  LET top == c.altitude \div c.climb
           IN  /\ c.climb \in Nat \ {0} /\ c.cruise \in Nat /\ c.altitude \in Int
               /\ top \in Nat /\ top >= 2 /\ top * c.climb = c.altitude
               /\ Period(c) = 2 * top + c.cruise
<1> DEFINE top == c.altitude \div c.climb
<1>1. /\ c.climb \in Nat \ {0} /\ c.cruise \in Nat /\ c.altitude \in Int
      /\ c.altitude % c.climb = 0 /\ c.altitude > c.climb
  <2>1. c \in TrajectoryConfigs /\ Valid(c) /\ Exact(c)
    BY ConfigsAssumption
  <2>. QED
    BY <2>1 DEF TrajectoryConfigs, Valid, Exact
<1>2. top \in Int /\ c.altitude = top * c.climb
  BY <1>1, Division
<1>3. Period(c) = 2 * top + c.cruise
  BY DEF Period
<1> HIDE DEF top
<1>4. top >= 2
  <2>1. ASSUME top <= 1 PROVE top * c.climb <= 1 * c.climb
    BY <1>1, <1>2, <2>1, Faster
  <2>. QED
    BY <1>1, <1>2, <2>1
<1>. QED
  BY <1>1, <1>2, <1>3, <1>4 DEF top

(* What a mission reports: a height in whole multiples of the climb rate. *)
LEMMA OnMission ==
    ASSUME NEW c \in Configs, c.type = "TakeoffCruiseLand", NEW x \in 0 .. Period(c) - 1
    PROVE  LET p == SampleMission(c, x)
               top == c.altitude \div c.climb
           IN  /\ p.east = 0 /\ p.north = 0 /\ p.speed = 0 /\ p.heading = 0
               /\ p.up = Level(c, x) * c.climb
               /\ p.climb = IF x = 0 \/ (top <= x /\ x < top + c.cruise) THEN 0
                            ELSE IF x < top THEN c.climb ELSE -c.climb
<1> DEFINE top == c.altitude \div c.climb
           k == c.climb
           p == SampleMission(c, x)
<1>1. /\ k \in Nat \ {0} /\ c.cruise \in Nat /\ c.altitude \in Int
      /\ top \in Nat /\ top >= 2 /\ top * k = c.altitude /\ Period(c) = 2 * top + c.cruise
  BY MissionFields
<1>2. p = CASE x < top -> At(0, 0, x * k, 0, IF x = 0 THEN 0 ELSE k, 0)
            [] x >= top /\ x < top + c.cruise -> At(0, 0, c.altitude, 0, 0, 0)
            [] x >= top + c.cruise -> At(0, 0, Landing(c, x - top), 0, -k, 0)
  BY DEF SampleMission
<1>3. Level(c, x) = IF x < top THEN x ELSE IF x < top + c.cruise THEN top ELSE 2 * top + c.cruise - x
  BY DEF Level
<1>4. Landing(c, x - top) = c.altitude - ((x - top) - c.cruise) * k
  BY DEF Landing
<1> DEFINE level == Level(c, x)
<1> HIDE DEF top, k, p, level
<1>5. x \in Int
  BY <1>1
<1>6. CASE x < top
  <2>1. p = At(0, 0, x * k, 0, IF x = 0 THEN 0 ELSE k, 0) /\ level = x
    BY <1>1, <1>2, <1>3, <1>5, <1>6 DEF level
  <2>. QED
    BY <1>1, <1>5, <1>6, <2>1 DEF At, p, top, k, level
<1>7. CASE x >= top /\ x < top + c.cruise
  <2>1. p = At(0, 0, c.altitude, 0, 0, 0) /\ level = top
    BY <1>1, <1>2, <1>3, <1>5, <1>7 DEF level
  <2>. QED
    BY <1>1, <1>5, <1>7, <2>1 DEF At, p, top, k, level
<1>8. CASE x >= top + c.cruise
  <2>1. p = At(0, 0, Landing(c, x - top), 0, -k, 0) /\ level = 2 * top + c.cruise - x
    BY <1>1, <1>2, <1>3, <1>5, <1>8 DEF level
  <2>2. Landing(c, x - top) = level * k
    <3> DEFINE down == x - top - c.cruise
    <3>1. down \in Int /\ top * k - down * k = (top - down) * k
      BY <1>1, <1>5
    <3>2. level = top - down /\ Landing(c, x - top) = c.altitude - down * k
      BY <1>1, <1>4, <1>5, <2>1
    <3> HIDE DEF down
    <3>. QED
      BY <1>1, <3>1, <3>2
  <2>. QED
    BY <1>1, <1>5, <1>8, <2>1, <2>2 DEF At, p, top, k, level
<1>. QED
  BY <1>1, <1>5, <1>6, <1>7, <1>8

(* A mission: two phases, and the height flown between them. *)
LEMMA MissionMotion ==
    ASSUME NEW c \in Configs, c.type = "TakeoffCruiseLand",
           NEW x \in 0 .. Period(c) - 1, NEW y \in 0 .. Period(c) - 1
    PROVE  LET p == SampleMission(c, x)
               q == SampleMission(c, y)
           IN  /\ \A gap \in Nat : Close(x, y, Period(c), gap) =>
                    Distance(p, q) = 0 /\ Abs(q.up - p.up) <= c.climb * gap
               /\ (y = x + 1 \/ (x = Period(c) - 1 /\ y = 0)) /\ p.climb = q.climb =>
                    /\ q.east - p.east = p.speed * East(p.heading)
                    /\ q.north - p.north = p.speed * North(p.heading)
                    /\ q.up - p.up = p.climb
<1> DEFINE p == SampleMission(c, x)
           q == SampleMission(c, y)
           top == c.altitude \div c.climb
           k == c.climb
           lx == Level(c, x)
           ly == Level(c, y)
<1>1. /\ k \in Nat \ {0} /\ c.cruise \in Nat
      /\ top \in Nat /\ top >= 2 /\ Period(c) = 2 * top + c.cruise
      /\ x \in Nat /\ y \in Nat /\ x < 2 * top + c.cruise /\ y < 2 * top + c.cruise
  BY MissionFields
<1>2. /\ p.east = 0 /\ p.north = 0 /\ p.speed = 0 /\ p.heading = 0 /\ p.up = lx * k
      /\ q.east = 0 /\ q.north = 0 /\ q.speed = 0 /\ q.heading = 0 /\ q.up = ly * k
      /\ p.climb = IF x = 0 \/ (top <= x /\ x < top + c.cruise) THEN 0
                   ELSE IF x < top THEN k ELSE -k
      /\ q.climb = IF y = 0 \/ (top <= y /\ y < top + c.cruise) THEN 0
                   ELSE IF y < top THEN k ELSE -k
  BY OnMission
<1>3. /\ lx = IF x < top THEN x ELSE IF x < top + c.cruise THEN top ELSE 2 * top + c.cruise - x
      /\ ly = IF y < top THEN y ELSE IF y < top + c.cruise THEN top ELSE 2 * top + c.cruise - y
  BY DEF Level
<1> HIDE DEF p, q, top, k, lx, ly
<1>4. lx \in Int /\ ly \in Int
  BY <1>1, <1>3
<1>5. q.up - p.up = (ly - lx) * k /\ p.up - q.up = (lx - ly) * k
  BY <1>1, <1>2, <1>4
<1>6. ASSUME NEW gap \in Nat, Close(x, y, Period(c), gap)
      PROVE  Distance(p, q) = 0 /\ Abs(q.up - p.up) <= k * gap
  <2>1. ly - lx <= gap /\ lx - ly <= gap
    BY <1>1, <1>3, <1>6 DEF Close, Abs
  <2>2. (ly - lx) * k <= gap * k /\ (lx - ly) * k <= gap * k
    BY <1>1, <1>4, <2>1, Faster
  <2>3. Abs(q.up - p.up) <= k * gap
    <3>1. (ly - lx) * k \in Int /\ (lx - ly) * k = -((ly - lx) * k) /\ gap * k = k * gap
      BY <1>1, <1>4
    <3>. QED
      BY <1>5, <2>2, <3>1 DEF Abs
  <2>4. Distance(p, q) = 0
    BY <1>2 DEF Distance, Abs
  <2>. QED
    BY <2>3, <2>4
<1>7. ASSUME y = x + 1 \/ (x = Period(c) - 1 /\ y = 0), p.climb = q.climb
      PROVE  /\ q.east - p.east = p.speed * East(p.heading)
             /\ q.north - p.north = p.speed * North(p.heading)
             /\ q.up - p.up = p.climb
  <2>1. \/ p.climb = k /\ ly - lx = 1
        \/ p.climb = -k /\ ly - lx = -1
        \/ p.climb = 0 /\ ly - lx = 0
    BY <1>1, <1>2, <1>3, <1>7
  <2>2. q.up - p.up = p.climb
    BY <1>1, <1>4, <1>5, <2>1
  <2>3. p.speed * East(p.heading) = 0 /\ p.speed * North(p.heading) = 0
    BY <1>2 DEF East, North
  <2>. QED
    BY <1>2, <2>2, <2>3
<1>. QED
  BY <1>6, <1>7 DEF p, q, k

-----------------------------------------------------------------------------
(* Waypoint loops.  A leg without horizontal length is skipped, its change of altitude too: a     *)
(* loop with a vertical leg jumps.  These have none.                                                *)
WaypointLoops == {c \in Configs : c.type = "WaypointLoop"}
NoVerticalLeg(c) == \A i \in Legs(c) : LegLength(c, i) = 0 => DeltaUp(c, i) = 0

(* Every non-empty set of natural numbers has a least element: the induction of what follows. *)
LEMMA Least ==
    ASSUME NEW T \in SUBSET Nat, T # {}
    PROVE  \E x \in T : \A y \in T : x <= y
<1> DEFINE R == {pair \in Nat \X Nat : pair[1] < pair[2]}
<1>1. IsWellFoundedOn(R, Nat)
  BY NatLessThanWellFounded DEF OpToRel
<1>2. \A x, y \in Nat : <<y, x>> \in R <=> y < x
  OBVIOUS
<1> HIDE DEF R
<1>3. PICK x \in T : \A y \in T : ~ (<<y, x>> \in R)
  BY <1>1, WFMin
<1>4. ASSUME NEW y \in T PROVE x <= y
  <2>1. x \in Nat /\ y \in Nat /\ ~ (<<y, x>> \in R)
    BY <1>3
  <2>2. ~ (y < x)
    BY <1>2, <2>1
  <2>. QED
    BY <2>1, <2>2
<1>. QED
  BY <1>4

(* The corners of a loop, the first one again at its end. *)
Corner(c, i) == IF i <= Len(c.waypoints) THEN c.waypoints[i] ELSE c.waypoints[1]
Sign(x) == IF x > 0 THEN 1 ELSE IF x < 0 THEN -1 ELSE 0
Slope(c, i) == DeltaUp(c, i) \div LegLength(c, i)

(* The fields of a waypoint loop. *)
LEMMA LoopFields ==
    ASSUME NEW c \in WaypointLoops
    PROVE  /\ c.speed \in Nat \ {0} /\ Len(c.waypoints) \in Nat /\ Len(c.waypoints) >= 2
           /\ Legs(c) = 1 .. Len(c.waypoints)
           /\ \A i \in 1 .. Len(c.waypoints) + 1 :
                Corner(c, i).east \in Int /\ Corner(c, i).north \in Int /\ Corner(c, i).up \in Int
           /\ \E i \in Legs(c) : LegLength(c, i) > 0
           /\ Loop(c) % c.speed = 0 /\ Period(c) % Slots = 0
           /\ \A i \in Legs(c) : LegLength(c, i) > 0 =>
                        /\ DeltaEast(c, i) = 0 \/ DeltaNorth(c, i) = 0
                        /\ DeltaUp(c, i) % LegLength(c, i) = 0
<1>1. c \in TrajectoryConfigs /\ Valid(c) /\ Exact(c) /\ c.type = "WaypointLoop"
  BY ConfigsAssumption DEF WaypointLoops
<1>2. c.speed \in Int /\ c.waypoints \in Seq(EnuPoints)
  BY <1>1 DEF TrajectoryConfigs
<1>3. Len(c.waypoints) \in Nat /\ Legs(c) = 1 .. Len(c.waypoints)
  BY <1>2 DEF Legs
<1>4. \A i \in 1 .. Len(c.waypoints) : c.waypoints[i] \in EnuPoints
  BY <1>2
<1>5. /\ c.speed > 0 /\ Len(c.waypoints) >= 2 /\ \E i \in Legs(c) : LegLength(c, i) > 0
  BY <1>1 DEF Valid
<1>6. \A i \in 1 .. Len(c.waypoints) + 1 : Corner(c, i) \in EnuPoints
  BY <1>3, <1>4, <1>5 DEF Corner
<1>7. \A i \in 1 .. Len(c.waypoints) + 1 :
                Corner(c, i).east \in Int /\ Corner(c, i).north \in Int /\ Corner(c, i).up \in Int
  BY <1>6 DEF EnuPoints
<1>8. /\ Loop(c) % c.speed = 0 /\ Period(c) % Slots = 0
      /\ \A i \in Legs(c) : LegLength(c, i) > 0 =>
                        /\ DeltaEast(c, i) = 0 \/ DeltaNorth(c, i) = 0
                        /\ DeltaUp(c, i) % LegLength(c, i) = 0
  BY <1>1 DEF Exact
<1>. QED
  BY <1>2, <1>3, <1>5, <1>7, <1>8

(* The corner after the last one is the first. *)
LEMMA Turn ==
    ASSUME NEW n \in Nat \ {0}, NEW i \in 0 .. n
    PROVE  i % n = IF i = n THEN 0 ELSE i
<1> DEFINE q == i \div n
           r == i % n
<1>1. q \in Int /\ r \in 0 .. n - 1 /\ i = q * n + r
  BY Division
<1> HIDE DEF q, r
<1>2. CASE q <= -1
  BY <1>1, <1>2, Faster
<1>3. CASE q = 0
  BY <1>1, <1>3 DEF r
<1>4. CASE q = 1
  BY <1>1, <1>4 DEF r
<1>5. CASE q >= 2
  <2>1. 2 * n <= q * n
    BY <1>1, <1>5, Faster
  <2>. QED
    BY <1>1, <2>1
<1>. QED
  BY <1>1, <1>2, <1>3, <1>4, <1>5

(* A change is its sign times its size. *)
LEMMA Signed ==
    ASSUME NEW x \in Int
    PROVE  /\ Sign(x) \in Int /\ Abs(x) \in Nat /\ x = Sign(x) * Abs(x)
           /\ IF x = 0 THEN Sign(x) = 0 /\ Abs(x) = 0 ELSE Sign(x) \in {1, -1} /\ Abs(x) > 0
<1>1. CASE x = 0
  BY <1>1 DEF Sign, Abs
<1>2. CASE x > 0
  BY <1>2 DEF Sign, Abs
<1>3. CASE x < 0
  BY <1>3 DEF Sign, Abs
<1>. QED
  BY <1>1, <1>2, <1>3

(* A leg joins two corners, along an axis and with an even slope. *)
LEMMA LegFields ==
    ASSUME NEW c \in WaypointLoops, NEW i \in Legs(c)
    PROVE  /\ DeltaEast(c, i) \in Int /\ DeltaNorth(c, i) \in Int /\ DeltaUp(c, i) \in Int
           /\ LegLength(c, i) \in Nat
           /\ Corner(c, i) = c.waypoints[i]
           /\ Corner(c, i + 1).east = Corner(c, i).east + DeltaEast(c, i)
           /\ Corner(c, i + 1).north = Corner(c, i).north + DeltaNorth(c, i)
           /\ Corner(c, i + 1).up = Corner(c, i).up + DeltaUp(c, i)
           /\ LegLength(c, i) = Abs(DeltaEast(c, i)) + Abs(DeltaNorth(c, i))
           /\ LegLength(c, i) > 0 =>
                /\ DeltaEast(c, i) = Sign(DeltaEast(c, i)) * LegLength(c, i)
                /\ DeltaNorth(c, i) = Sign(DeltaNorth(c, i)) * LegLength(c, i)
                /\ \/ Sign(DeltaEast(c, i)) \in {1, -1} /\ Sign(DeltaNorth(c, i)) = 0
                   \/ Sign(DeltaNorth(c, i)) \in {1, -1} /\ Sign(DeltaEast(c, i)) = 0
                /\ Slope(c, i) \in Int /\ DeltaUp(c, i) = Slope(c, i) * LegLength(c, i)
<1> DEFINE n == Len(c.waypoints)
           e == DeltaEast(c, i)
           f == DeltaNorth(c, i)
           u == DeltaUp(c, i)
           l == LegLength(c, i)
<1>1. n \in Nat /\ n >= 2 /\ Legs(c) = 1 .. n /\ i \in 1 .. n
  BY LoopFields
<1>2. Target(c, i) = Corner(c, i + 1) /\ c.waypoints[i] = Corner(c, i)
  <2>1. i % n = IF i = n THEN 0 ELSE i
    <3>1. n \in Nat \ {0} /\ i \in 0 .. n
      BY <1>1
    <3>. HIDE DEF n
    <3>. QED
      BY <1>1, <3>1, Turn
  <2>. QED
    BY <1>1, <2>1 DEF Target, Corner
<1>3. /\ Corner(c, i).east \in Int /\ Corner(c, i).north \in Int /\ Corner(c, i).up \in Int
      /\ Corner(c, i + 1).east \in Int /\ Corner(c, i + 1).north \in Int /\ Corner(c, i + 1).up \in Int
  <2>1. i \in 1 .. n + 1 /\ i + 1 \in 1 .. n + 1
    BY <1>1
  <2>. QED
    BY <2>1, LoopFields
<1>4. /\ e = Corner(c, i + 1).east - Corner(c, i).east /\ f = Corner(c, i + 1).north - Corner(c, i).north
      /\ u = Corner(c, i + 1).up - Corner(c, i).up
  BY <1>2 DEF DeltaEast, DeltaNorth, DeltaUp
<1>5. l = Abs(e) + Abs(f)
  BY DEF LegLength
<1>6. l > 0 => (e = 0 \/ f = 0) /\ u % l = 0
  BY LoopFields
<1>7. Slope(c, i) = u \div l
  BY DEF Slope
<1> HIDE DEF e, f, u, l
<1>8. e \in Int /\ f \in Int /\ u \in Int /\ l \in Nat
  BY <1>3, <1>4, <1>5 DEF Abs
<1>9. ASSUME l > 0
      PROVE  /\ e = Sign(e) * l /\ f = Sign(f) * l
             /\ \/ Sign(e) \in {1, -1} /\ Sign(f) = 0
                \/ Sign(f) \in {1, -1} /\ Sign(e) = 0
             /\ Slope(c, i) \in Int /\ u = Slope(c, i) * l
  <2>1. Slope(c, i) \in Int /\ u = Slope(c, i) * l
    BY <1>6, <1>7, <1>8, <1>9, Division
  <2>2. CASE e = 0
    <3>1. Abs(e) = 0 /\ Sign(e) = 0 /\ Abs(f) \in Nat
      BY <1>8, <2>2, Signed
    <3>2. l = Abs(f) /\ f # 0
      BY <1>5, <1>9, <2>2, <3>1 DEF Abs
    <3>3. f = Sign(f) * l /\ Sign(f) \in {1, -1}
      BY <1>8, <3>2, Signed
    <3>4. e = Sign(e) * l
      BY <1>8, <2>2, <3>1
    <3>. QED
      BY <2>1, <3>1, <3>3, <3>4
  <2>3. CASE f = 0
    <3>1. Abs(f) = 0 /\ Sign(f) = 0 /\ Abs(e) \in Nat
      BY <1>8, <2>3, Signed
    <3>2. l = Abs(e) /\ e # 0
      BY <1>5, <1>9, <2>3, <3>1 DEF Abs
    <3>3. e = Sign(e) * l /\ Sign(e) \in {1, -1}
      BY <1>8, <3>2, Signed
    <3>4. f = Sign(f) * l
      BY <1>8, <2>3, <3>1
    <3>. QED
      BY <2>1, <3>1, <3>3, <3>4
  <2>. QED
    BY <1>6, <1>9, <2>1, <2>2, <2>3
<1>10. /\ Corner(c, i + 1).east = Corner(c, i).east + e
       /\ Corner(c, i + 1).north = Corner(c, i).north + f
       /\ Corner(c, i + 1).up = Corner(c, i).up + u
  BY <1>3, <1>4
<1>. QED
  BY <1>2, <1>5, <1>8, <1>9, <1>10 DEF e, f, u, l

(* The length up to the end of a leg. *)
LEMMA RunningLength ==
    ASSUME NEW c \in WaypointLoops
    PROVE  /\ LengthUpTo(c, 0) = 0
           /\ \A i \in Legs(c) : LengthUpTo(c, i) = LengthUpTo(c, i - 1) + LegLength(c, i)
<1> DEFINE L == Len(c.waypoints)
           Unfold(f, n) == [i \in 0 .. n |-> IF i = 0 THEN 0 ELSE f[i - 1] + LegLength(c, i)]
           upTo == CHOOSE f : f = [n \in 0 .. Len(c.waypoints) |->
                                        IF n = 0 THEN 0 ELSE f[n - 1] + LegLength(c, n)]
<1>1. L \in Nat /\ Legs(c) = 1 .. L
  BY LoopFields
<1>2. \A i \in 0 .. L : LengthUpTo(c, i) = upTo[i]
  BY DEF LengthUpTo
<1>3. \A n \in 0 .. L : \E f : f = Unfold(f, n)
  <2> DEFINE Missing == {n \in 0 .. L : ~ \E f : f = Unfold(f, n)}
  <2>1. SUFFICES ASSUME Missing # {} PROVE FALSE
    OBVIOUS
  <2>2. Missing \in SUBSET Nat
    BY <1>1
  <2> HIDE DEF Missing
  <2>3. PICK n \in Missing : \A m \in Missing : n <= m
    BY <2>1, <2>2, Least
  <2>4. n \in 0 .. L /\ ~ \E f : f = Unfold(f, n)
    BY <2>3 DEF Missing
  <2>5. CASE n = 0
    <3> DEFINE f == [i \in 0 .. 0 |-> 0]
    <3>1. f = Unfold(f, 0)
      OBVIOUS
    <3>. QED
      BY <2>4, <2>5, <3>1
  <2>6. CASE n # 0
    <3>1. n - 1 \in 0 .. L /\ n \in 1 .. L /\ n \in Nat
      BY <1>1, <2>4, <2>6
    <3>2. n - 1 \notin Missing
      BY <2>3, <3>1
    <3>3. PICK g : g = Unfold(g, n - 1)
      BY <3>1, <3>2 DEF Missing
    <3> DEFINE f == [i \in 0 .. n |-> IF i = n THEN g[n - 1] + LegLength(c, n) ELSE g[i]]
    <3>4. \A i \in 0 .. n - 1 : g[i] = IF i = 0 THEN 0 ELSE g[i - 1] + LegLength(c, i)
      BY <3>3
    <3>5. \A i \in 0 .. n : f[i] = IF i = 0 THEN 0 ELSE f[i - 1] + LegLength(c, i)
      <4> SUFFICES ASSUME NEW i \in 0 .. n
                   PROVE  f[i] = IF i = 0 THEN 0 ELSE f[i - 1] + LegLength(c, i)
        OBVIOUS
      <4>1. CASE i = n
        BY <3>1, <4>1
      <4>2. CASE i # n /\ i = 0
        BY <3>1, <3>4, <4>2
      <4>3. CASE i # n /\ i # 0
        <5>1. i \in 0 .. n - 1 /\ i - 1 \in 0 .. n - 1 /\ i - 1 \in 0 .. n /\ i - 1 # n
          BY <3>1, <4>3
        <5>2. f[i] = g[i] /\ f[i - 1] = g[i - 1]
          BY <4>3, <5>1
        <5>. QED
          BY <3>4, <4>3, <5>1, <5>2
      <4>. QED
        BY <4>1, <4>2, <4>3
    <3>6. f = [i \in 0 .. n |-> f[i]]
      OBVIOUS
    <3> HIDE DEF f
    <3>7. f = Unfold(f, n)
      BY <3>5, <3>6
    <3>. QED
      BY <2>4, <3>7
  <2>. QED
    BY <2>5, <2>6
<1>4. upTo = Unfold(upTo, L)
  <2>1. \E f : f = Unfold(f, L)
    BY <1>1, <1>3
  <2>. QED
    BY <2>1
<1> HIDE DEF upTo
<1>5. \A i \in 0 .. L : upTo[i] = IF i = 0 THEN 0 ELSE upTo[i - 1] + LegLength(c, i)
  BY <1>4
<1>6. LengthUpTo(c, 0) = 0
  BY <1>1, <1>2, <1>5
<1>7. ASSUME NEW i \in 1 .. L PROVE LengthUpTo(c, i) = LengthUpTo(c, i - 1) + LegLength(c, i)
  <2>1. i \in 0 .. L /\ i - 1 \in 0 .. L /\ i # 0
    BY <1>1
  <2>. QED
    BY <1>2, <1>5, <2>1
<1>. QED
  BY <1>1, <1>6, <1>7

(* A product divided by one of its factors. *)
LEMMA Exactly ==
    ASSUME NEW a \in Int, NEW d \in Int, d > 0
    PROVE  (a * d) \div d = a
<1> DEFINE q == (a * d) \div d
           r == (a * d) % d
<1>1. a * d \in Int
  OBVIOUS
<1>2. q \in Int /\ r \in 0 .. d - 1 /\ a * d = q * d + r
  BY <1>1, Division
<1> HIDE DEF q, r
<1>3. (a - q) * d = a * d - q * d
  BY <1>2
<1>4. CASE a - q <= -1
  <2>1. (a - q) * d <= (-1) * d
    BY <1>2, <1>4, Faster
  <2>. QED
    BY <1>2, <1>3, <2>1
<1>5. CASE a - q >= 1
  <2>1. 1 * d <= (a - q) * d
    BY <1>2, <1>5, Faster
  <2>. QED
    BY <1>2, <1>3, <2>1
<1>6. q = a
  BY <1>2, <1>4, <1>5
<1>. QED
  BY <1>6 DEF q

(* The length flown only grows from corner to corner. *)
LEMMA LengthGrows ==
    ASSUME NEW c \in WaypointLoops, NEW j \in 0 .. Len(c.waypoints)
    PROVE  /\ LengthUpTo(c, j) \in Nat
           /\ \A i \in 0 .. j : LengthUpTo(c, i) \in Nat /\ LengthUpTo(c, i) <= LengthUpTo(c, j)
<1> DEFINE L == Len(c.waypoints)
           Grown(k) == \A i \in 0 .. k : LengthUpTo(c, i) \in Nat /\ LengthUpTo(c, i) <= LengthUpTo(c, k)
           Failed == {k \in 0 .. L : ~ Grown(k)}
<1>1. L \in Nat /\ Legs(c) = 1 .. L
  BY LoopFields
<1>2. Failed = {}
  <2>1. SUFFICES ASSUME Failed # {} PROVE FALSE
    OBVIOUS
  <2>2. Failed \in SUBSET Nat
    BY <1>1
  <2> HIDE DEF Failed
  <2>3. PICK k \in Failed : \A m \in Failed : k <= m
    BY <2>1, <2>2, Least
  <2>4. k \in 0 .. L /\ ~ Grown(k)
    BY <2>3 DEF Failed
  <2>5. CASE k = 0
    <3>1. LengthUpTo(c, 0) = 0
      BY RunningLength
    <3>. QED
      BY <2>4, <2>5, <3>1
  <2>6. CASE k # 0
    <3>1. k - 1 \in 0 .. L /\ k \in Legs(c) /\ k \in Nat
      BY <1>1, <2>4, <2>6
    <3>2. Grown(k - 1)
      BY <2>3, <3>1 DEF Failed
    <3>3. LengthUpTo(c, k) = LengthUpTo(c, k - 1) + LegLength(c, k) /\ LegLength(c, k) \in Nat
      BY <3>1, RunningLength, LegFields
    <3>4. LengthUpTo(c, k - 1) \in Nat
      BY <3>1, <3>2
    <3>5. Grown(k)
      <4> SUFFICES ASSUME NEW i \in 0 .. k
                   PROVE  LengthUpTo(c, i) \in Nat /\ LengthUpTo(c, i) <= LengthUpTo(c, k)
        OBVIOUS
      <4>1. CASE i = k
        BY <3>3, <3>4, <4>1
      <4>2. CASE i # k
        <5>1. i \in 0 .. k - 1
          BY <3>1, <4>2
        <5>2. LengthUpTo(c, i) \in Nat /\ LengthUpTo(c, i) <= LengthUpTo(c, k - 1)
          BY <3>2, <5>1
        <5>. QED
          BY <3>3, <3>4, <5>2
      <4>. QED
        BY <4>1, <4>2
    <3>. QED
      BY <2>4, <3>5
  <2>. QED
    BY <2>5, <2>6
<1>3. Grown(j)
  BY <1>2
<1>. QED
  BY <1>1, <1>3

-----------------------------------------------------------------------------
(* Points that are no farther apart than a length, and no higher than a slope allows on it. *)
Placed(p) == p.east \in Int /\ p.north \in Int /\ p.up \in Int
Near(p, q, length, slope) == Distance(p, q) <= length /\ Abs(q.up - p.up) <= slope * length

(* The way from one point to another by a third one. *)
LEMMA NearSum ==
    ASSUME NEW p, NEW q, NEW r, Placed(p), Placed(q), Placed(r),
           NEW a \in Int, NEW b \in Int, NEW m \in Nat, Near(p, q, a, m), Near(q, r, b, m)
    PROVE  Near(p, r, a + b, m)
<1>1. m * (a + b) = m * a + m * b /\ m * a \in Int /\ m * b \in Int
  OBVIOUS
<1>2. Distance(p, r) <= a + b
  BY DEF Placed, Near, Distance, Abs
<1>3. Abs(r.up - p.up) <= m * a + m * b
  <2> DEFINE s == m * a
             t == m * b
  <2>1. s \in Int /\ t \in Int /\ Abs(q.up - p.up) <= s /\ Abs(r.up - q.up) <= t
    BY DEF Near
  <2> HIDE DEF s, t
  <2>2. Abs(r.up - p.up) <= s + t
    BY <2>1 DEF Placed, Abs
  <2>. QED
    BY <2>2 DEF s, t
<1>. QED
  BY <1>1, <1>2, <1>3 DEF Near

(* The same way back. *)
LEMMA NearBack ==
    ASSUME NEW p, NEW q, Placed(p), Placed(q), NEW a \in Int, NEW m \in Nat, Near(p, q, a, m)
    PROVE  Near(q, p, a, m)
<1>1. Distance(q, p) = Distance(p, q) /\ Abs(p.up - q.up) = Abs(q.up - p.up)
  BY DEF Placed, Distance, Abs
<1>. QED
  BY <1>1 DEF Near

(* A slope that no leg exceeds, and one of its legs that has it. *)
Steepest(c, m) == m \in Nat /\ \A i \in Legs(c) : LegLength(c, i) > 0 => Abs(Slope(c, i)) <= m

(* There is one. *)
LEMMA SteepestLeg ==
    ASSUME NEW c \in WaypointLoops
    PROVE  \E k \in Legs(c) : LegLength(c, k) > 0 /\ Steepest(c, Abs(Slope(c, k)))
<1> DEFINE L == Len(c.waypoints)
           Sloped(j) == {i \in 1 .. j : LegLength(c, i) > 0}
           Best(j) == \E k \in Sloped(j) : \A i \in Sloped(j) : Abs(Slope(c, i)) <= Abs(Slope(c, k))
           Failed == {j \in 0 .. L : Sloped(j) # {} /\ ~ Best(j)}
<1>1. L \in Nat /\ Legs(c) = 1 .. L /\ Sloped(L) # {}
  BY LoopFields
<1>2. \A i \in 1 .. L : LegLength(c, i) > 0 => Abs(Slope(c, i)) \in Nat
  <2> SUFFICES ASSUME NEW i \in 1 .. L, LegLength(c, i) > 0 PROVE Abs(Slope(c, i)) \in Nat
    OBVIOUS
  <2>1. Slope(c, i) \in Int
    BY <1>1, LegFields
  <2>. QED
    BY <2>1 DEF Abs
<1>3. Failed = {}
  <2>1. SUFFICES ASSUME Failed # {} PROVE FALSE
    OBVIOUS
  <2>2. Failed \in SUBSET Nat
    BY <1>1
  <2> HIDE DEF Failed
  <2>3. PICK j \in Failed : \A m \in Failed : j <= m
    BY <2>1, <2>2, Least
  <2>4. j \in 0 .. L /\ Sloped(j) # {} /\ ~ Best(j)
    BY <2>3 DEF Failed
  <2>5. j \in 1 .. L /\ j - 1 \in 0 .. L /\ j - 1 \notin Failed
    <3>1. j # 0
      BY <2>4
    <3>. QED
      BY <1>1, <2>3, <2>4, <3>1
  <2>6. \A i \in Sloped(j) : i = j \/ i \in Sloped(j - 1)
    BY <2>5
  <2>7. \A i \in Sloped(j - 1) : i \in Sloped(j)
    BY <2>5
  <2>8. \A i \in Sloped(j) : Abs(Slope(c, i)) \in Nat
    BY <1>2, <2>5
  <2> HIDE DEF Sloped
  <2>9. CASE Sloped(j - 1) = {}
    <3>1. Sloped(j) = {j}
      BY <2>4, <2>6, <2>9
    <3>2. Abs(Slope(c, j)) <= Abs(Slope(c, j))
      BY <2>8, <3>1
    <3>. QED
      BY <2>4, <3>1, <3>2
  <2>10. CASE Sloped(j - 1) # {}
    <3>1. Best(j - 1)
      BY <2>5, <2>10 DEF Failed
    <3>2. PICK k \in Sloped(j - 1) : \A i \in Sloped(j - 1) : Abs(Slope(c, i)) <= Abs(Slope(c, k))
      BY <3>1
    <3>3. k \in Sloped(j)
      BY <2>7
    <3>4. CASE j \in Sloped(j) /\ Abs(Slope(c, j)) > Abs(Slope(c, k))
      <4>1. \A i \in Sloped(j) : Abs(Slope(c, i)) <= Abs(Slope(c, j))
        BY <2>6, <2>8, <3>2, <3>3, <3>4
      <4>. QED
        BY <2>4, <3>4, <4>1
    <3>5. CASE ~ (j \in Sloped(j) /\ Abs(Slope(c, j)) > Abs(Slope(c, k)))
      <4>1. \A i \in Sloped(j) : Abs(Slope(c, i)) <= Abs(Slope(c, k))
        BY <2>6, <2>8, <3>2, <3>3, <3>5
      <4>. QED
        BY <2>4, <3>3, <4>1
    <3>. QED
      BY <3>4, <3>5
  <2>. QED
    BY <2>9, <2>10
<1>4. Best(L)
  <2>1. L \in 0 .. L
    BY <1>1
  <2>2. L \notin Failed
    BY <1>3
  <2> HIDE DEF Sloped, Best
  <2>. QED
    BY <1>1, <2>1, <2>2
<1>. QED
  BY <1>1, <1>2, <1>4 DEF Steepest

(* The rate at which a slope is climbed is one of those that the motion reports. *)
LEMMA ClimbOf ==
    ASSUME NEW c \in WaypointLoops, NEW k \in Legs(c), LegLength(c, k) > 0
    PROVE  Abs(Slope(c, k)) * c.speed \in Climbs(c)
<1> DEFINE l == LegLength(c, k)
           s == Slope(c, k)
           v == c.speed
<1>1. l \in Int /\ l > 0 /\ s \in Int /\ DeltaUp(c, k) = s * l /\ v \in Nat
  <2>1. v \in Nat
    BY LoopFields
  <2>2. l \in Nat /\ s \in Int /\ DeltaUp(c, k) = s * l
    BY LegFields
  <2>. QED
    BY <2>1, <2>2
<1>2. Abs(DeltaUp(c, k) * v) \div l \in Climbs(c)
  BY DEF Climbs, WaypointLoops
<1> HIDE DEF l, s, v
<1>3. Abs(s) \in Nat /\ Abs(s) * v \in Int
  BY <1>1 DEF Abs
<1>4. Abs((s * l) * v) = (Abs(s) * v) * l
  <2>1. s * v \in Int /\ (s * l) * v = (s * v) * l
    BY <1>1
  <2>2. CASE s >= 0
    <3>1. s * v >= 0
      BY <1>1, <2>2
    <3>2. (s * v) * l >= 0
      BY <1>1, <2>1, <3>1
    <3>. QED
      BY <1>1, <2>1, <2>2, <3>2 DEF Abs
  <2>3. CASE s < 0
    <3>1. (-s) * v >= 0 /\ (-s) * v \in Int
      BY <1>1, <2>3
    <3>2. ((-s) * v) * l >= 0
      BY <1>1, <3>1
    <3>3. (s * v) * l = - (((-s) * v) * l)
      BY <1>1
    <3>. QED
      BY <1>1, <2>1, <2>3, <3>2, <3>3 DEF Abs
  <2>. QED
    BY <1>1, <2>2, <2>3
<1>5. ((Abs(s) * v) * l) \div l = Abs(s) * v
  BY <1>1, <1>3, Exactly
<1>. QED
  BY <1>1, <1>2, <1>4, <1>5 DEF l, s, v
(* From corner to corner along the legs. *)
LEMMA BetweenCorners ==
    ASSUME NEW c \in WaypointLoops, NoVerticalLeg(c), NEW m, Steepest(c, m),
           NEW i \in 1 .. Len(c.waypoints) + 1, NEW j \in 1 .. Len(c.waypoints) + 1, i <= j
    PROVE  Near(Corner(c, i), Corner(c, j), LengthUpTo(c, j - 1) - LengthUpTo(c, i - 1), m)
<1> DEFINE L == Len(c.waypoints)
           U(k) == LengthUpTo(c, k)
           Failed == {k \in 0 .. L : i <= k + 1 /\ ~ Near(Corner(c, i), Corner(c, k + 1), U(k) - U(i - 1), m)}
<1>1. L \in Nat /\ Legs(c) = 1 .. L /\ m \in Nat
  BY LoopFields DEF Steepest
<1>2. \A k \in 1 .. L + 1 : Placed(Corner(c, k))
  BY LoopFields DEF Placed
<1>3. \A k \in 0 .. L : U(k) \in Nat
  BY <1>1, LengthGrows
<1>4. \A k \in Legs(c) : Near(Corner(c, k), Corner(c, k + 1), LegLength(c, k), m)
  <2> SUFFICES ASSUME NEW k \in Legs(c)
               PROVE  Near(Corner(c, k), Corner(c, k + 1), LegLength(c, k), m)
    OBVIOUS
  <2> DEFINE l == LegLength(c, k)
             u == DeltaUp(c, k)
             s == Slope(c, k)
  <2>0. k \in 1 .. L + 1 /\ k + 1 \in 1 .. L + 1
    BY <1>1
  <2>1. Distance(Corner(c, k), Corner(c, k + 1)) = l
    <3> DEFINE e == DeltaEast(c, k)
               f == DeltaNorth(c, k)
    <3>1. /\ e \in Int /\ f \in Int /\ l = Abs(e) + Abs(f)
          /\ Corner(c, k + 1).east = Corner(c, k).east + e
          /\ Corner(c, k + 1).north = Corner(c, k).north + f
      BY LegFields
    <3>2. Placed(Corner(c, k))
      BY <1>2, <2>0
    <3>3. Corner(c, k).east - Corner(c, k + 1).east = -e /\ Corner(c, k).north - Corner(c, k + 1).north = -f
      BY <3>1, <3>2 DEF Placed
    <3> HIDE DEF e, f, l
    <3>4. Abs(-e) = Abs(e) /\ Abs(-f) = Abs(f)
      BY <3>1 DEF Abs
    <3>. QED
      BY <3>1, <3>3, <3>4 DEF Distance
  <2>2. Corner(c, k + 1).up - Corner(c, k).up = u
    BY <1>2, <2>0, LegFields DEF Placed
  <2>3. l \in Nat /\ u \in Int
    BY LegFields
  <2>4. Abs(u) <= m * l
    <3>1. CASE l = 0
      <4>1. u = 0 /\ m * l = 0
        BY <1>1, <2>3, <3>1 DEF NoVerticalLeg
      <4>. QED
        BY <4>1 DEF Abs
    <3>2. CASE l > 0
      <4>1. s \in Int /\ u = s * l /\ Abs(s) <= m
        BY <3>2, LegFields DEF Steepest
      <4> HIDE DEF l, u, s
      <4>2. s <= m /\ -s <= m /\ -s \in Int
        BY <1>1, <4>1 DEF Abs
      <4>3. s * l <= m * l /\ (-s) * l <= m * l /\ (-s) * l = -(s * l)
        BY <1>1, <2>3, <4>1, <4>2, Faster
      <4>. QED
        BY <2>3, <4>1, <4>3 DEF Abs
    <3>. QED
      BY <2>3, <3>1, <3>2
  <2>5. l <= l
    BY <2>3
  <2>. QED
    BY <2>1, <2>2, <2>4, <2>5 DEF Near
<1>5. Failed = {}
  <2>1. SUFFICES ASSUME Failed # {} PROVE FALSE
    OBVIOUS
  <2>2. Failed \in SUBSET Nat
    BY <1>1
  <2> HIDE DEF Failed
  <2>3. PICK k \in Failed : \A x \in Failed : k <= x
    BY <2>1, <2>2, Least
  <2>4. k \in 0 .. L /\ i <= k + 1 /\ ~ Near(Corner(c, i), Corner(c, k + 1), U(k) - U(i - 1), m)
    BY <2>3 DEF Failed
  <2>5. CASE i = k + 1
    <3>1. i - 1 = k /\ U(k) \in Nat /\ Placed(Corner(c, i))
      BY <1>1, <1>2, <1>3, <2>4, <2>5
    <3>2. Near(Corner(c, i), Corner(c, i), 0, m)
      <4>1. m * 0 = 0
        BY <1>1
      <4>. QED
        BY <3>1, <4>1 DEF Near, Placed, Distance, Abs
    <3>. QED
      BY <2>4, <2>5, <3>1, <3>2
  <2>6. CASE i # k + 1
    <3>1. k \in Legs(c) /\ k - 1 \in 0 .. L /\ i <= (k - 1) + 1 /\ (k - 1) + 1 = k /\ i - 1 \in 0 .. L
      BY <1>1, <2>4, <2>6
    <3>2. Near(Corner(c, i), Corner(c, k), U(k - 1) - U(i - 1), m)
      <4>1. k - 1 \notin Failed
        BY <2>3, <3>1
      <4>. QED
        BY <3>1, <4>1 DEF Failed
    <3>3. Near(Corner(c, k), Corner(c, k + 1), LegLength(c, k), m)
      BY <1>4, <3>1
    <3>4. U(k) = U(k - 1) + LegLength(c, k) /\ LegLength(c, k) \in Int
      BY <3>1, RunningLength, LegFields
    <3>5. U(k - 1) - U(i - 1) \in Int /\ (U(k - 1) - U(i - 1)) + LegLength(c, k) = U(k) - U(i - 1)
      <4>1. U(k - 1) \in Nat /\ U(i - 1) \in Nat
        BY <1>3, <3>1
      <4> HIDE DEF U
      <4>. QED
        BY <3>4, <4>1
    <3>6. Placed(Corner(c, i)) /\ Placed(Corner(c, k)) /\ Placed(Corner(c, k + 1))
      BY <1>1, <1>2, <2>4, <3>1
    <3> HIDE DEF U
    <3>7. Near(Corner(c, i), Corner(c, k + 1), (U(k - 1) - U(i - 1)) + LegLength(c, k), m)
      BY <1>1, <3>2, <3>3, <3>4, <3>5, <3>6, NearSum
    <3>. QED
      BY <2>4, <3>5, <3>7
  <2>. QED
    BY <2>5, <2>6
<1>6. j - 1 \in 0 .. L /\ i <= (j - 1) + 1 /\ (j - 1) + 1 = j
  BY <1>1
<1>. QED
  BY <1>5, <1>6

(* A point of a leg, so far along the loop. *)
OnLeg(c, i, d, p) ==
    /\ d \in Nat /\ LengthUpTo(c, i - 1) <= d /\ d <= LengthUpTo(c, i)
    /\ p.east = Corner(c, i).east + Sign(DeltaEast(c, i)) * (d - LengthUpTo(c, i - 1))
    /\ p.north = Corner(c, i).north + Sign(DeltaNorth(c, i)) * (d - LengthUpTo(c, i - 1))
    /\ p.up = Corner(c, i).up + Slope(c, i) * (d - LengthUpTo(c, i - 1))

(* Two points of the same leg. *)
LEMMA SameLeg ==
    ASSUME NEW c \in WaypointLoops, NEW m, Steepest(c, m), NEW i \in Legs(c), LegLength(c, i) > 0,
           NEW d, NEW e, NEW p, NEW q, OnLeg(c, i, d, p), OnLeg(c, i, e, q), d <= e
    PROVE  Near(p, q, e - d, m) /\ Placed(p) /\ Placed(q)
<1> DEFINE L == Len(c.waypoints)
           x == d - LengthUpTo(c, i - 1)
           y == e - LengthUpTo(c, i - 1)
           se == Sign(DeltaEast(c, i))
           sn == Sign(DeltaNorth(c, i))
           su == Slope(c, i)
<1>1. L \in Nat /\ Legs(c) = 1 .. L /\ i \in 1 .. L + 1 /\ i - 1 \in 0 .. L
  BY LoopFields
<1>2. Placed(Corner(c, i))
  BY <1>1, LoopFields DEF Placed
<1>3. LengthUpTo(c, i - 1) \in Nat
  BY <1>1, LengthGrows
<1>4. /\ su \in Int /\ Abs(su) <= m /\ m \in Nat
      /\ \/ se \in {1, -1} /\ sn = 0
         \/ sn \in {1, -1} /\ se = 0
  BY LegFields DEF Steepest
<1>5. x \in Nat /\ y \in Nat /\ x <= y /\ y - x = e - d
  BY <1>3 DEF OnLeg
<1>6. /\ p.east = Corner(c, i).east + se * x /\ q.east = Corner(c, i).east + se * y
      /\ p.north = Corner(c, i).north + sn * x /\ q.north = Corner(c, i).north + sn * y
      /\ p.up = Corner(c, i).up + su * x /\ q.up = Corner(c, i).up + su * y
  BY DEF OnLeg
<1> HIDE DEF x, y, se, sn, su
<1>7. su * x \in Int /\ su * y \in Int /\ su * y - su * x = su * (y - x)
  BY <1>4, <1>5
<1>8. Placed(p) /\ Placed(q)
  BY <1>2, <1>4, <1>5, <1>6, <1>7 DEF Placed
<1>9. Distance(p, q) = y - x
  <2>1. CASE se \in {1, -1} /\ sn = 0
    <3>1. sn * x = 0 /\ sn * y = 0 /\ p.north = q.north
      BY <1>2, <1>5, <1>6, <2>1 DEF Placed
    <3>2. CASE se = 1
      BY <1>2, <1>5, <1>6, <1>8, <3>1, <3>2 DEF Placed, Distance, Abs
    <3>3. CASE se = -1
      BY <1>2, <1>5, <1>6, <1>8, <3>1, <3>3 DEF Placed, Distance, Abs
    <3>. QED
      BY <2>1, <3>2, <3>3
  <2>2. CASE sn \in {1, -1} /\ se = 0
    <3>1. se * x = 0 /\ se * y = 0 /\ p.east = q.east
      BY <1>2, <1>5, <1>6, <2>2 DEF Placed
    <3>2. CASE sn = 1
      BY <1>2, <1>5, <1>6, <1>8, <3>1, <3>2 DEF Placed, Distance, Abs
    <3>3. CASE sn = -1
      BY <1>2, <1>5, <1>6, <1>8, <3>1, <3>3 DEF Placed, Distance, Abs
    <3>. QED
      BY <2>2, <3>2, <3>3
  <2>. QED
    BY <1>4, <2>1, <2>2
<1>10. Abs(q.up - p.up) <= m * (y - x)
  <2> DEFINE z == y - x
  <2>1. z \in Int /\ z >= 0
    BY <1>5
  <2>2. q.up - p.up = su * z
    BY <1>2, <1>6, <1>7 DEF Placed
  <2>3. su <= m /\ -su <= m /\ -su \in Int
    BY <1>4 DEF Abs
  <2> HIDE DEF z
  <2>4. su * z <= m * z /\ (-su) * z <= m * z /\ (-su) * z = -(su * z)
    BY <1>4, <2>1, <2>3, Faster
  <2>5. Abs(su * z) <= m * z
    BY <1>4, <2>1, <2>4 DEF Abs
  <2>. QED
    BY <2>2, <2>5 DEF z
<1>11. Distance(p, q) <= e - d /\ Abs(q.up - p.up) <= m * (e - d)
  BY <1>5, <1>9, <1>10
<1>. QED
  BY <1>8, <1>11 DEF Near

(* Two points of a loop, one way round and the other. *)
LEMMA AlongLoop ==
    ASSUME NEW c \in WaypointLoops, NoVerticalLeg(c), NEW m, Steepest(c, m),
           NEW i \in Legs(c), NEW j \in Legs(c), LegLength(c, i) > 0, LegLength(c, j) > 0, i <= j,
           NEW d, NEW e, NEW p, NEW q, OnLeg(c, i, d, p), OnLeg(c, j, e, q), d <= e
    PROVE  Near(p, q, e - d, m) /\ Near(p, q, Loop(c) - (e - d), m) /\ Placed(p) /\ Placed(q)
<1> DEFINE L == Len(c.waypoints)
           U(k) == LengthUpTo(c, k)
<1>1. L \in Nat /\ Legs(c) = 1 .. L /\ L >= 2 /\ m \in Nat
  BY LoopFields DEF Steepest
<1>2. \A k \in 1 .. L + 1 : Placed(Corner(c, k))
  BY LoopFields DEF Placed
<1>3. \A k \in 0 .. L : U(k) \in Nat
  BY <1>1, LengthGrows
<1>4. U(0) = 0 /\ Loop(c) = U(L)
  BY RunningLength DEF Loop, WaypointLoops
<1>5. ASSUME NEW k \in Legs(c), LegLength(c, k) > 0
      PROVE  OnLeg(c, k, U(k - 1), Corner(c, k)) /\ OnLeg(c, k, U(k), Corner(c, k + 1))
  <2>1. k \in 1 .. L + 1 /\ k + 1 \in 1 .. L + 1 /\ k \in 0 .. L /\ k - 1 \in 0 .. L
    BY <1>1
  <2>2. U(k - 1) \in Nat /\ U(k) \in Nat /\ U(k) = U(k - 1) + LegLength(c, k)
    BY <1>3, <2>1, RunningLength
  <2>3. /\ LegLength(c, k) \in Nat
        /\ Corner(c, k + 1).east = Corner(c, k).east + Sign(DeltaEast(c, k)) * LegLength(c, k)
        /\ Corner(c, k + 1).north = Corner(c, k).north + Sign(DeltaNorth(c, k)) * LegLength(c, k)
        /\ Corner(c, k + 1).up = Corner(c, k).up + Slope(c, k) * LegLength(c, k)
    BY <1>5, LegFields
  <2>4. /\ Sign(DeltaEast(c, k)) * 0 = 0 /\ Sign(DeltaNorth(c, k)) * 0 = 0 /\ Slope(c, k) * 0 = 0
    BY <1>5, LegFields
  <2>5. U(k - 1) - U(k - 1) = 0 /\ U(k) - U(k - 1) = LegLength(c, k) /\ U(k - 1) <= U(k)
    BY <2>2, <2>3
  <2>6. Placed(Corner(c, k))
    BY <1>2, <2>1
  <2>7. OnLeg(c, k, U(k - 1), Corner(c, k))
    BY <2>2, <2>4, <2>5, <2>6 DEF OnLeg, Placed
  <2>8. OnLeg(c, k, U(k), Corner(c, k + 1))
    BY <2>2, <2>3, <2>5 DEF OnLeg
  <2>. QED
    BY <2>7, <2>8
<1>6. d \in Nat /\ e \in Nat
  BY DEF OnLeg
<1>7. ASSUME NEW k \in Legs(c), LegLength(c, k) > 0, NEW f \in Nat, NEW r, OnLeg(c, k, f, r)
      PROVE  Near(Corner(c, k), r, f - U(k - 1), m) /\ Near(r, Corner(c, k + 1), U(k) - f, m)
  <2>1. OnLeg(c, k, U(k - 1), Corner(c, k)) /\ OnLeg(c, k, U(k), Corner(c, k + 1))
    BY <1>5, <1>7
  <2>2. U(k - 1) <= f /\ f <= U(k)
    BY <1>7 DEF OnLeg
  <2> HIDE DEF U
  <2>. QED
    BY <1>7, <2>1, <2>2, SameLeg
<1>8. Placed(p) /\ Placed(q)
  <2>1. Placed(p)
    BY <1>6, SameLeg
  <2>2. e <= e
    BY <1>6
  <2>. QED
    BY <2>1, <2>2, SameLeg
<1>9. /\ Near(Corner(c, i), p, d - U(i - 1), m) /\ Near(p, Corner(c, i + 1), U(i) - d, m)
      /\ Near(Corner(c, j), q, e - U(j - 1), m) /\ Near(q, Corner(c, j + 1), U(j) - e, m)
  BY <1>6, <1>7
<1>10. /\ i \in 1 .. L + 1 /\ i + 1 \in 1 .. L + 1 /\ j \in 1 .. L + 1 /\ j + 1 \in 1 .. L + 1
       /\ 1 \in 1 .. L + 1 /\ L + 1 \in 1 .. L + 1
       /\ i - 1 \in 0 .. L /\ i \in 0 .. L /\ j - 1 \in 0 .. L /\ j \in 0 .. L /\ 0 \in 0 .. L /\ L \in 0 .. L
       /\ i \in Nat /\ j \in Nat /\ (L + 1) - 1 = L /\ (i + 1) - 1 = i /\ (j + 1) - 1 = j
  <2>1. i \in 1 .. L /\ j \in 1 .. L
    BY <1>1
  <2> HIDE DEF L
  <2>. QED
    BY <1>1, <2>1
<1>11. /\ U(i - 1) \in Int /\ U(i) \in Int /\ U(j - 1) \in Int /\ U(j) \in Int /\ U(L) \in Int
  BY <1>3, <1>10
<1>12. /\ Placed(Corner(c, i)) /\ Placed(Corner(c, i + 1)) /\ Placed(Corner(c, j))
       /\ Placed(Corner(c, j + 1)) /\ Placed(Corner(c, 1)) /\ Placed(Corner(c, L + 1))
  BY <1>2, <1>10
<1> HIDE DEF U
<1>13. Near(p, q, e - d, m)
  <2>1. CASE i = j
    BY <1>6, <2>1, SameLeg
  <2>2. CASE i < j
    <3>1. i + 1 <= j
      BY <1>10, <2>2
    <3>2. Near(Corner(c, i + 1), Corner(c, j), U(j - 1) - U(i), m)
      <4>1. Near(Corner(c, i + 1), Corner(c, j), U(j - 1) - U((i + 1) - 1), m)
        BY <1>10, <3>1, BetweenCorners DEF U
      <4>. QED
        BY <1>10, <4>1
    <3>3. U(i) - d \in Int /\ U(j - 1) - U(i) \in Int /\ e - U(j - 1) \in Int
      BY <1>6, <1>11
    <3>4. Near(p, Corner(c, j), (U(i) - d) + (U(j - 1) - U(i)), m)
      BY <1>1, <1>8, <1>9, <1>12, <3>2, <3>3, NearSum
    <3>5. Near(p, q, ((U(i) - d) + (U(j - 1) - U(i))) + (e - U(j - 1)), m)
      <4>1. (U(i) - d) + (U(j - 1) - U(i)) \in Int
        BY <3>3
      <4>. QED
        BY <1>1, <1>8, <1>9, <1>12, <3>3, <3>4, <4>1, NearSum
    <3>6. ((U(i) - d) + (U(j - 1) - U(i))) + (e - U(j - 1)) = e - d
      BY <1>6, <1>11
    <3>. QED
      BY <3>5, <3>6
  <2>. QED
    BY <1>10, <2>1, <2>2
<1>14. Near(p, q, Loop(c) - (e - d), m)
  <2>1. Corner(c, L + 1) = Corner(c, 1)
    BY <1>1 DEF Corner
  <2>2. Near(p, Corner(c, 1), d, m)
    <3>1. Near(Corner(c, 1), Corner(c, i), U(i - 1) - U(0), m)
      <4>1. 1 <= i
        BY <1>10
      <4>2. Near(Corner(c, 1), Corner(c, i), U(i - 1) - U(1 - 1), m)
        BY <1>10, <4>1, BetweenCorners DEF U
      <4>. QED
        BY <1>10, <4>2
    <3>2. U(i - 1) - U(0) \in Int /\ d - U(i - 1) \in Int /\ U(0) = 0
      BY <1>4, <1>6, <1>11
    <3>3. Near(Corner(c, 1), p, (U(i - 1) - U(0)) + (d - U(i - 1)), m)
      BY <1>1, <1>8, <1>9, <1>12, <3>1, <3>2, NearSum
    <3>4. (U(i - 1) - U(0)) + (d - U(i - 1)) = d /\ d \in Int
      BY <1>6, <1>11, <3>2
    <3>5. Near(Corner(c, 1), p, d, m)
      BY <3>3, <3>4
    <3>. QED
      BY <1>1, <1>8, <1>12, <3>4, <3>5, NearBack
  <2>3. Near(Corner(c, 1), q, Loop(c) - e, m)
    <3>1. Near(Corner(c, j + 1), Corner(c, L + 1), U(L) - U(j), m)
      <4>1. j + 1 <= L + 1
        BY <1>10
      <4>2. Near(Corner(c, j + 1), Corner(c, L + 1), U((L + 1) - 1) - U((j + 1) - 1), m)
        BY <1>10, <4>1, BetweenCorners DEF U
      <4>. QED
        BY <1>10, <4>2
    <3>2. U(L) - U(j) \in Int /\ U(j) - e \in Int /\ Loop(c) = U(L)
      BY <1>4, <1>6, <1>11
    <3>3. Near(q, Corner(c, L + 1), (U(j) - e) + (U(L) - U(j)), m)
      BY <1>1, <1>8, <1>9, <1>12, <3>1, <3>2, NearSum
    <3>4. (U(j) - e) + (U(L) - U(j)) = Loop(c) - e /\ Loop(c) - e \in Int
      BY <1>6, <1>11, <3>2
    <3>5. Near(q, Corner(c, 1), Loop(c) - e, m)
      BY <2>1, <3>3, <3>4
    <3>. QED
      BY <1>1, <1>8, <1>12, <3>4, <3>5, NearBack
  <2>4. d \in Int /\ Loop(c) - e \in Int /\ d + (Loop(c) - e) = Loop(c) - (e - d)
    BY <1>4, <1>6, <1>11
  <2>5. Near(p, q, d + (Loop(c) - e), m)
    BY <1>1, <1>8, <1>12, <2>2, <2>3, <2>4, NearSum
  <2>. QED
    BY <2>4, <2>5
<1>. QED
  BY <1>8, <1>13, <1>14
-----------------------------------------------------------------------------
(* A round of a loop takes a whole number of ticks. *)
LEMMA LoopRounds ==
    ASSUME NEW c \in WaypointLoops
    PROVE  Loop(c) \in Nat \ {0} /\ Period(c) \in Nat \ {0} /\ Period(c) * c.speed = Loop(c)
<1> DEFINE L == Len(c.waypoints)
<1>1. c.speed \in Nat \ {0} /\ L \in Nat /\ Legs(c) = 1 .. L /\ Loop(c) % c.speed = 0
  BY LoopFields
<1>2. Period(c) = Loop(c) \div c.speed /\ Loop(c) = LengthUpTo(c, L)
  BY DEF Period, Loop, WaypointLoops
<1>3. Loop(c) \in Nat \ {0}
  <2>1. PICK i \in Legs(c) : LegLength(c, i) > 0
    BY LoopFields
  <2>2. i \in 0 .. L /\ i - 1 \in 0 .. L /\ L \in 0 .. L
    BY <1>1
  <2>3. LengthUpTo(c, i) = LengthUpTo(c, i - 1) + LegLength(c, i) /\ LegLength(c, i) \in Nat
    BY RunningLength, LegFields
  <2>4. LengthUpTo(c, i - 1) \in Nat
    BY <2>2, LengthGrows
  <2>5. LengthUpTo(c, L) \in Nat /\ LengthUpTo(c, i) <= LengthUpTo(c, L)
    BY <2>2, LengthGrows
  <2>. QED
    BY <1>2, <2>1, <2>3, <2>4, <2>5
<1>4. Period(c) \in Int /\ Loop(c) = Period(c) * c.speed
  <2>1. Loop(c) \in Int /\ c.speed \in Int /\ c.speed > 0
    BY <1>1, <1>3
  <2>2. /\ Loop(c) \div c.speed \in Int
        /\ Loop(c) = (Loop(c) \div c.speed) * c.speed + (Loop(c) % c.speed)
    BY <2>1, Division
  <2>3. (Loop(c) \div c.speed) * c.speed \in Int
    BY <2>1, <2>2
  <2>. QED
    BY <1>1, <1>2, <2>2, <2>3
<1>5. Period(c) > 0
  <2>1. ASSUME Period(c) <= 0 PROVE Period(c) * c.speed <= 0 * c.speed
    BY <1>1, <1>4, <2>1, Faster
  <2>. QED
    BY <1>1, <1>3, <1>4, <2>1
<1>. QED
  BY <1>3, <1>4, <1>5

(* The first leg that reaches beyond a distance starts no later than at it. *)
LEMMA Reached ==
    ASSUME NEW c \in WaypointLoops, NEW d \in Nat, NEW k \in 0 .. Len(c.waypoints), LengthUpTo(c, k) > d
    PROVE  \E i \in 1 .. k : i \in Legs(c) /\ LegLength(c, i) > 0 /\ LengthUpTo(c, i) > d
<1> DEFINE L == Len(c.waypoints)
           Beyond == {j \in 0 .. k : LengthUpTo(c, j) > d}
<1>1. L \in Nat /\ Legs(c) = 1 .. L /\ Beyond \in SUBSET Nat /\ k \in Beyond
  BY LoopFields
<1> HIDE DEF Beyond
<1>2. PICK i \in Beyond : \A j \in Beyond : i <= j
  BY <1>1, Least
<1>3. i \in 0 .. k /\ LengthUpTo(c, i) > d
  BY <1>2 DEF Beyond
<1>4. i # 0
  BY <1>3, RunningLength
<1>5. i \in 1 .. k /\ i \in Legs(c) /\ i - 1 \in 0 .. k /\ i - 1 \in 0 .. L /\ i - 1 < i
  BY <1>1, <1>3, <1>4
<1>6. i - 1 \notin Beyond
  BY <1>2, <1>5
<1>7. LengthUpTo(c, i - 1) <= d /\ LengthUpTo(c, i - 1) \in Nat
  <2>1. LengthUpTo(c, i - 1) \in Nat
    BY <1>5, LengthGrows
  <2>. QED
    BY <1>5, <1>6, <2>1 DEF Beyond
<1>8. LengthUpTo(c, i) = LengthUpTo(c, i - 1) + LegLength(c, i) /\ LegLength(c, i) \in Nat
  BY <1>5, RunningLength, LegFields
<1>. QED
  BY <1>3, <1>5, <1>7, <1>8

(* What a sample reports of the leg that it is on. *)
Reports(c, i, s) ==
    /\ s.speed = c.speed /\ s.climb = Slope(c, i) * c.speed
    /\ East(s.heading) = Sign(DeltaEast(c, i)) /\ North(s.heading) = Sign(DeltaNorth(c, i))

FirstReached(c, i, d) ==
    /\ i \in Legs(c) /\ LegLength(c, i) > 0 /\ d <= LengthUpTo(c, i)
    /\ \A j \in 1 .. i - 1 : LegLength(c, j) = 0 \/ d > LengthUpTo(c, j)

(* A sample is a point of the first leg that reaches as far as its phase. *)
LEMMA SampleOnLeg ==
    ASSUME NEW c \in WaypointLoops, NEW x \in 0 .. Period(c) - 1
    PROVE  /\ x * c.speed \in Nat
           /\ \E i \in Legs(c) : /\ FirstReached(c, i, x * c.speed)
                                 /\ OnLeg(c, i, x * c.speed, SampleWaypoints(c, x))
                                 /\ Reports(c, i, SampleWaypoints(c, x))
<1> DEFINE L == Len(c.waypoints)
           v == c.speed
           d == x * v
           s == SampleWaypoints(c, x)
<1>1. L \in Nat /\ Legs(c) = 1 .. L /\ v \in Nat \ {0}
  BY LoopFields
<1>2. d \in Nat /\ d < LengthUpTo(c, L)
  <2>1. x \in Nat /\ x <= Period(c) - 1 /\ Period(c) \in Nat \ {0} /\ Period(c) * v = Loop(c)
    BY LoopRounds
  <2>2. x * v <= (Period(c) - 1) * v /\ 0 * v <= x * v
    BY <1>1, <2>1, Faster
  <2>3. (Period(c) - 1) * v = Period(c) * v - v
    BY <1>1, <2>1
  <2>4. Loop(c) = LengthUpTo(c, L) /\ Loop(c) \in Nat /\ x * v \in Int
    BY <1>1, <2>1, LoopRounds DEF Loop, WaypointLoops
  <2>. QED
    BY <1>1, <2>1, <2>2, <2>3, <2>4
<1>3. \E i : FirstReached(c, i, d)
  <2> DEFINE T == {i \in 1 .. L : LegLength(c, i) > 0 /\ d <= LengthUpTo(c, i)}
  <2>1. T \in SUBSET Nat
    OBVIOUS
  <2>2. T # {}
    <3>1. L \in 0 .. L
      BY <1>1
    <3>2. PICK i \in 1 .. L : LegLength(c, i) > 0 /\ LengthUpTo(c, i) > d
      BY <1>2, <3>1, Reached
    <3>3. i \in 0 .. L
      BY <1>1
    <3>4. LengthUpTo(c, i) \in Nat
      BY <3>3, LengthGrows
    <3>. QED
      BY <1>2, <3>2, <3>4
  <2> HIDE DEF T
  <2>3. PICK i \in T : \A j \in T : i <= j
    BY <2>1, <2>2, Least
  <2>4. i \in 1 .. L /\ LegLength(c, i) > 0 /\ d <= LengthUpTo(c, i)
    BY <2>3 DEF T
  <2>5. ASSUME NEW j \in 1 .. i - 1 PROVE LegLength(c, j) = 0 \/ d > LengthUpTo(c, j)
    <3>1. j \in 1 .. L /\ j < i /\ j \in 0 .. L
      BY <1>1, <2>4
    <3>2. j \notin T
      BY <2>3, <2>4, <3>1
    <3>3. LegLength(c, j) \in Nat /\ LengthUpTo(c, j) \in Nat
      BY <1>1, <3>1, LegFields, LengthGrows
    <3>. QED
      BY <1>2, <3>1, <3>2, <3>3 DEF T
  <2>. QED
    BY <1>1, <2>4, <2>5 DEF FirstReached
<1> DEFINE leg == CHOOSE i \in Legs(c) :
                /\ LegLength(c, i) > 0 /\ d <= LengthUpTo(c, i)
                /\ \A j \in 1 .. i - 1 : LegLength(c, j) = 0 \/ d > LengthUpTo(c, j)
           l == LegLength(c, leg)
           flown == d - LengthUpTo(c, leg - 1)
           heading == CHOOSE h \in Headings :
                /\ East(h) * l = DeltaEast(c, leg) /\ North(h) * l = DeltaNorth(c, leg)
<1>4. FirstReached(c, leg, d)
  BY <1>3 DEF FirstReached
<1>5. s = At(c.waypoints[leg].east + (DeltaEast(c, leg) * flown) \div l,
             c.waypoints[leg].north + (DeltaNorth(c, leg) * flown) \div l,
             c.waypoints[leg].up + (DeltaUp(c, leg) * flown) \div l,
             v, (DeltaUp(c, leg) * v) \div l, heading)
  BY DEF SampleWaypoints
<1> HIDE DEF leg, d, s, v
<1>6. leg \in 1 .. L /\ leg \in 0 .. L /\ leg - 1 \in 0 .. L /\ l > 0 /\ l \in Nat
  <2>1. leg \in Legs(c) /\ l > 0
    BY <1>4 DEF FirstReached
  <2>2. l \in Nat
    BY <2>1, LegFields
  <2>3. leg \in 1 .. L
    BY <1>1, <2>1
  <2> HIDE DEF L, l
  <2>. QED
    BY <1>1, <2>1, <2>2, <2>3
<1>7. LengthUpTo(c, leg) \in Nat /\ LengthUpTo(c, leg - 1) \in Nat /\ d <= LengthUpTo(c, leg)
  BY <1>4, <1>6, LengthGrows DEF FirstReached
<1>8. LengthUpTo(c, leg - 1) <= d
  <2>1. SUFFICES ASSUME LengthUpTo(c, leg - 1) > d PROVE FALSE
    BY <1>2, <1>7
  <2>2. PICK i \in 1 .. leg - 1 : LegLength(c, i) > 0 /\ LengthUpTo(c, i) > d
    BY <1>2, <1>6, <2>1, Reached
  <2>3. i \in 0 .. L /\ i \in Legs(c)
    BY <1>1, <1>6
  <2>4. LengthUpTo(c, i) \in Nat /\ LegLength(c, i) \in Nat
    BY <2>3, LengthGrows, LegFields
  <2>. QED
    BY <1>2, <1>4, <2>2, <2>4 DEF FirstReached
<1> DEFINE se == Sign(DeltaEast(c, leg))
           sn == Sign(DeltaNorth(c, leg))
           su == Slope(c, leg)
<1>9. /\ DeltaEast(c, leg) = se * l /\ DeltaNorth(c, leg) = sn * l /\ DeltaUp(c, leg) = su * l
      /\ \/ se \in {1, -1} /\ sn = 0
         \/ sn \in {1, -1} /\ se = 0
      /\ su \in Int /\ Corner(c, leg) = c.waypoints[leg]
  BY <1>1, <1>6, LegFields
<1>10. \E h \in Headings : East(h) = se /\ North(h) = sn
  <2>1. /\ East(90) = 1 /\ North(90) = 0 /\ East(270) = -1 /\ North(270) = 0
        /\ East(0) = 0 /\ North(0) = 1 /\ East(180) = 0 /\ North(180) = -1
    BY DEF East, North
  <2> HIDE DEF se, sn
  <2>. QED
    BY <1>9, <2>1 DEF Headings
<1>11. heading \in Headings /\ East(heading) * l = DeltaEast(c, leg) /\ North(heading) * l = DeltaNorth(c, leg)
  BY <1>9, <1>10
<1> HIDE DEF l, flown, heading, se, sn, su
<1>12. East(heading) = se /\ North(heading) = sn
  <2>1. East(heading) \in {0, 1, -1} /\ North(heading) \in {0, 1, -1}
    BY DEF East, North
  <2>2. East(heading) * l = se * l /\ North(heading) * l = sn * l
    BY <1>9, <1>11
  <2>. QED
    BY <1>6, <1>9, <2>1, <2>2
<1>13. flown \in Nat /\ se \in Int /\ sn \in Int
  BY <1>2, <1>7, <1>8, <1>9 DEF flown
<1>14. \A z, y \in Int : ((z * l) * y) \div l = z * y
  <2> SUFFICES ASSUME NEW z \in Int, NEW y \in Int PROVE ((z * l) * y) \div l = z * y
    OBVIOUS
  <2>1. (z * l) * y = (z * y) * l /\ z * y \in Int
    BY <1>6
  <2>. QED
    BY <1>6, <2>1, Exactly
<1>15. OnLeg(c, leg, d, s)
  <2>1. /\ (DeltaEast(c, leg) * flown) \div l = se * flown
        /\ (DeltaNorth(c, leg) * flown) \div l = sn * flown
        /\ (DeltaUp(c, leg) * flown) \div l = su * flown
    <3>1. flown \in Int
      BY <1>13
    <3>2. ((se * l) * flown) \div l = se * flown
      BY <1>13, <1>14, <3>1
    <3>3. ((sn * l) * flown) \div l = sn * flown
      BY <1>13, <1>14, <3>1
    <3>4. ((su * l) * flown) \div l = su * flown
      BY <1>9, <1>14, <3>1
    <3>. QED
      BY <1>9, <3>2, <3>3, <3>4
  <2>. QED
    BY <1>2, <1>5, <1>7, <1>8, <1>9, <2>1 DEF OnLeg, At, flown, se, sn, su
<1>16. Reports(c, leg, s)
  <2>1. (DeltaUp(c, leg) * v) \div l = su * v
    BY <1>1, <1>9, <1>14
  <2>. QED
    BY <1>5, <1>12, <2>1 DEF Reports, At, se, sn, su, v
<1>. QED
  BY <1>1, <1>2, <1>4, <1>6, <1>15, <1>16 DEF d, s, v
(* Two legs that are flown one after the other with the same velocity are one straight line. *)
LEMMA Straight ==
    ASSUME NEW c \in WaypointLoops, NEW i \in Legs(c), NEW j \in Legs(c),
           LegLength(c, i) > 0, LegLength(c, j) > 0,
           NEW d, NEW e, NEW p, NEW q, OnLeg(c, i, d, p), OnLeg(c, j, e, q),
           Corner(c, i + 1).east = Corner(c, j).east, Corner(c, i + 1).north = Corner(c, j).north,
           Corner(c, i + 1).up = Corner(c, j).up,
           Sign(DeltaEast(c, i)) = Sign(DeltaEast(c, j)), Sign(DeltaNorth(c, i)) = Sign(DeltaNorth(c, j)),
           Slope(c, i) = Slope(c, j)
    PROVE  LET flown == (LengthUpTo(c, i) - d) + (e - LengthUpTo(c, j - 1)) IN
           /\ q.east - p.east = Sign(DeltaEast(c, i)) * flown
           /\ q.north - p.north = Sign(DeltaNorth(c, i)) * flown
           /\ q.up - p.up = Slope(c, i) * flown
<1> DEFINE L == Len(c.waypoints)
           l == LegLength(c, i)
           x == d - LengthUpTo(c, i - 1)
           y == e - LengthUpTo(c, j - 1)
           flown == (LengthUpTo(c, i) - d) + y
<1>1. i \in 1 .. L + 1 /\ i - 1 \in 0 .. L /\ i \in 0 .. L /\ j - 1 \in 0 .. L
  BY LoopFields
<1>2. LengthUpTo(c, i - 1) \in Nat /\ LengthUpTo(c, i) \in Nat /\ LengthUpTo(c, j - 1) \in Nat
  BY <1>1, LengthGrows
<1>3. LengthUpTo(c, i) = LengthUpTo(c, i - 1) + l /\ l \in Int
  BY RunningLength, LegFields
<1>4. x \in Int /\ y \in Int /\ flown = l - x + y
  <2>1. d \in Nat /\ e \in Nat
    BY DEF OnLeg
  <2> HIDE DEF l
  <2>. QED
    BY <1>2, <1>3, <2>1
<1>5. Placed(Corner(c, i))
  BY <1>1, LoopFields DEF Placed
<1>6. ASSUME NEW a \in Int, NEW s \in Int PROVE (a + s * l + s * y) - (a + s * x) = s * (l - x + y)
  <2> HIDE DEF l, x, y
  <2>. QED
    BY <1>3, <1>4
<1>7. /\ Sign(DeltaEast(c, i)) \in Int /\ Sign(DeltaNorth(c, i)) \in Int /\ Slope(c, i) \in Int
      /\ Corner(c, i + 1).east = Corner(c, i).east + Sign(DeltaEast(c, i)) * l
      /\ Corner(c, i + 1).north = Corner(c, i).north + Sign(DeltaNorth(c, i)) * l
      /\ Corner(c, i + 1).up = Corner(c, i).up + Slope(c, i) * l
  BY LegFields
<1>8. /\ p.east = Corner(c, i).east + Sign(DeltaEast(c, i)) * x
      /\ p.north = Corner(c, i).north + Sign(DeltaNorth(c, i)) * x
      /\ p.up = Corner(c, i).up + Slope(c, i) * x
      /\ q.east = Corner(c, i).east + Sign(DeltaEast(c, i)) * l + Sign(DeltaEast(c, i)) * y
      /\ q.north = Corner(c, i).north + Sign(DeltaNorth(c, i)) * l + Sign(DeltaNorth(c, i)) * y
      /\ q.up = Corner(c, i).up + Slope(c, i) * l + Slope(c, i) * y
  BY <1>7 DEF OnLeg
<1> HIDE DEF l, x, y
<1>9. q.east - p.east = Sign(DeltaEast(c, i)) * (l - x + y)
  BY <1>5, <1>6, <1>7, <1>8 DEF Placed
<1>10. q.north - p.north = Sign(DeltaNorth(c, i)) * (l - x + y)
  BY <1>5, <1>6, <1>7, <1>8 DEF Placed
<1>11. q.up - p.up = Slope(c, i) * (l - x + y)
  BY <1>5, <1>6, <1>7, <1>8 DEF Placed
<1>. QED
  BY <1>4, <1>9, <1>10, <1>11 DEF y

(* Corners between which nothing is flown are the same point. *)
LEMMA SameCorner ==
    ASSUME NEW c \in WaypointLoops, NoVerticalLeg(c),
           NEW i \in 1 .. Len(c.waypoints) + 1, NEW j \in 1 .. Len(c.waypoints) + 1, i <= j,
           LengthUpTo(c, j - 1) = LengthUpTo(c, i - 1)
    PROVE  /\ Corner(c, i).east = Corner(c, j).east /\ Corner(c, i).north = Corner(c, j).north
           /\ Corner(c, i).up = Corner(c, j).up
<1>1. PICK m : Steepest(c, m) /\ m \in Nat
  BY SteepestLeg DEF Steepest
<1>2. Near(Corner(c, i), Corner(c, j), LengthUpTo(c, j - 1) - LengthUpTo(c, i - 1), m)
  BY <1>1, BetweenCorners
<1>3. i - 1 \in 0 .. Len(c.waypoints)
  BY LoopFields
<1>4. LengthUpTo(c, j - 1) - LengthUpTo(c, i - 1) = 0
  BY <1>3, LengthGrows
<1>5. Near(Corner(c, i), Corner(c, j), 0, m) /\ m * 0 = 0
  BY <1>1, <1>2, <1>4
<1>6. Placed(Corner(c, i)) /\ Placed(Corner(c, j))
  BY LoopFields DEF Placed
<1> DEFINE p == Corner(c, i)
           q == Corner(c, j)
<1> HIDE DEF p, q
<1>8. Abs(p.east - q.east) + Abs(p.north - q.north) <= 0 /\ Abs(q.up - p.up) <= 0
  BY <1>5 DEF Near, Distance, p, q
<1>9. p.east \in Int /\ p.north \in Int /\ p.up \in Int /\ q.east \in Int /\ q.north \in Int /\ q.up \in Int
  BY <1>6 DEF Placed, p, q
<1>10. \A e, f, g, h \in Int : Abs(e - f) + Abs(g - h) <= 0 => e = f /\ g = h
  <2> SUFFICES ASSUME NEW e \in Int, NEW f \in Int, NEW g \in Int, NEW h \in Int,
                      Abs(e - f) + Abs(g - h) <= 0
               PROVE  e = f /\ g = h
    OBVIOUS
  <2>1. /\ e - f \in Int /\ g - h \in Int
        /\ \A x \in Int : Abs(x) \in Nat /\ (Abs(x) = 0 => x = 0)
    BY DEF Abs
  <2>2. Abs(e - f) \in Nat /\ Abs(g - h) \in Nat
    BY <2>1
  <2>3. Abs(e - f) = 0 /\ Abs(g - h) = 0
    BY <2>2
  <2>4. e - f = 0 /\ g - h = 0
    BY <2>1, <2>3
  <2>. QED
    BY <2>4
<1>11. p.east = q.east /\ p.north = q.north
  BY <1>8, <1>9, <1>10
<1>12. q.up = p.up
  BY <1>8, <1>9 DEF Abs
<1>. QED
  BY <1>11, <1>12 DEF p, q

(* Every leg takes longer than a tick. *)
LongLegs(c) == \A i \in Legs(c) : LegLength(c, i) > 0 => LegLength(c, i) > c.speed

(* Between a corner and a later one at which less than a leg is flown, nothing is. *)
LEMMA NoLegBetween ==
    ASSUME NEW c \in WaypointLoops, LongLegs(c),
           NEW i \in 0 .. Len(c.waypoints), NEW j \in 0 .. Len(c.waypoints), i <= j,
           LengthUpTo(c, j) - LengthUpTo(c, i) <= c.speed
    PROVE  LengthUpTo(c, j) = LengthUpTo(c, i)
<1>1. LengthUpTo(c, i) \in Nat /\ LengthUpTo(c, j) \in Nat /\ LengthUpTo(c, i) <= LengthUpTo(c, j)
  <2>1. i \in 0 .. j
    OBVIOUS
  <2>. QED
    BY <2>1, LengthGrows
<1>2. SUFFICES ASSUME LengthUpTo(c, j) > LengthUpTo(c, i) PROVE FALSE
  BY <1>1
<1>3. PICK k \in 1 .. j : k \in Legs(c) /\ LegLength(c, k) > 0 /\ LengthUpTo(c, k) > LengthUpTo(c, i)
  BY <1>1, <1>2, Reached
<1>4. k \in 0 .. Len(c.waypoints) /\ k \in 0 .. j /\ k - 1 \in 0 .. Len(c.waypoints)
  BY <1>3
<1>5. i <= k - 1
  <2>1. SUFFICES ASSUME k <= i PROVE FALSE
    BY <1>4
  <2>2. k \in 0 .. i
    BY <1>4, <2>1
  <2>3. LengthUpTo(c, k) <= LengthUpTo(c, i) /\ LengthUpTo(c, k) \in Nat
    BY <2>2, LengthGrows
  <2>. QED
    BY <1>1, <1>3, <2>3
<1>6. i \in 0 .. k - 1
  BY <1>4, <1>5
<1>7. LengthUpTo(c, i) <= LengthUpTo(c, k - 1) /\ LengthUpTo(c, k - 1) \in Nat
  BY <1>4, <1>6, LengthGrows
<1>8. LengthUpTo(c, k) <= LengthUpTo(c, j) /\ LengthUpTo(c, k) \in Nat
  BY <1>4, LengthGrows
<1>9. LengthUpTo(c, k) = LengthUpTo(c, k - 1) + LegLength(c, k) /\ LegLength(c, k) > c.speed
  BY <1>3, RunningLength DEF LongLegs
<1>10. LegLength(c, k) \in Nat /\ c.speed \in Nat
  BY <1>3, LegFields, LoopFields
<1>. QED
  BY <1>1, <1>7, <1>8, <1>9, <1>10

(* Two samples of a loop: no farther apart than the gap allows, *)
LEMMA LoopNear ==
    ASSUME NEW c \in WaypointLoops, NoVerticalLeg(c),
           NEW x \in 0 .. Period(c) - 1, NEW y \in 0 .. Period(c) - 1,
           NEW gap \in Nat, Close(x, y, Period(c), gap)
    PROVE  LET p == SampleWaypoints(c, x)
               q == SampleWaypoints(c, y)
           IN  /\ Distance(p, q) <= c.speed * gap
               /\ \E climb \in Climbs(c) : Abs(q.up - p.up) <= climb * gap
<1> DEFINE p == SampleWaypoints(c, x)
           q == SampleWaypoints(c, y)
           v == c.speed
           d == x * v
           e == y * v
<1>1. PICK k \in Legs(c) : LegLength(c, k) > 0 /\ Steepest(c, Abs(Slope(c, k)))
  BY SteepestLeg
<1> DEFINE m == Abs(Slope(c, k))
<1>2. m \in Nat /\ m * v \in Climbs(c) /\ Steepest(c, m)
  BY <1>1, ClimbOf DEF Steepest
<1>3. v \in Nat /\ d \in Nat /\ e \in Nat /\ v * gap \in Int /\ Loop(c) \in Int
  BY LoopFields, LoopRounds, SampleOnLeg
<1>4. PICK i \in Legs(c) : FirstReached(c, i, d) /\ OnLeg(c, i, d, p)
  BY SampleOnLeg
<1>5. PICK j \in Legs(c) : FirstReached(c, j, e) /\ OnLeg(c, j, e, q)
  BY SampleOnLeg
<1>6. Close(d, e, Loop(c), v * gap)
  <2>1. x \in Int /\ y \in Int /\ Period(c) \in Int /\ Period(c) * v = Loop(c)
    BY LoopRounds
  <2>2. Close(x * v, y * v, Period(c) * v, v * gap)
    <3>1. v \in Nat /\ gap \in Int
      BY <1>3
    <3> HIDE DEF v
    <3>. QED
      BY <2>1, <3>1, Scaled
  <2>. QED
    BY <2>1, <2>2
<1> HIDE DEF p, q, d, e, m, v
<1>7. ASSUME NEW length \in Int, Near(p, q, length, m), length <= v * gap
      PROVE  Distance(p, q) <= v * gap /\ \E climb \in Climbs(c) : Abs(q.up - p.up) <= climb * gap
  <2>1. length * m <= (v * gap) * m
    BY <1>2, <1>3, <1>7, Faster
  <2>2. m * length = length * m /\ (v * gap) * m = (m * v) * gap
    BY <1>2, <1>3
  <2>3. Placed(p) /\ Placed(q)
    <3>1. d <= d /\ e <= e
      BY <1>3
    <3>. QED
      BY <1>2, <1>4, <1>5, <3>1, SameLeg DEF FirstReached
  <2>4. Distance(p, q) <= length /\ Distance(p, q) \in Int /\ Abs(q.up - p.up) <= m * length
        /\ Abs(q.up - p.up) \in Int
    BY <1>7, <2>3 DEF Near, Placed, Distance, Abs
  <2>5. Distance(p, q) <= v * gap
    BY <1>3, <1>7, <2>4
  <2>6. Abs(q.up - p.up) <= (m * v) * gap
    <3>1. m * length \in Int /\ (m * v) * gap \in Int /\ m * length <= (m * v) * gap
      BY <1>2, <1>3, <2>1, <2>2
    <3>. QED
      BY <2>4, <3>1
  <2>. QED
    BY <1>2, <2>5, <2>6
<1>8. i \in Int /\ j \in Int
  BY LoopFields
<1>9. CASE d <= e
  <2>1. i <= j
    <3>1. SUFFICES ASSUME j < i PROVE FALSE
      BY <1>8
    <3>2. j \in 1 .. i - 1
      BY <1>8, <3>1, LoopFields
    <3>3. LengthUpTo(c, j) \in Nat
      BY LoopFields, LengthGrows
    <3>. QED
      BY <1>3, <1>4, <1>5, <1>9, <3>2, <3>3 DEF FirstReached
  <2>2. Near(p, q, e - d, m) /\ Near(p, q, Loop(c) - (e - d), m)
    BY <1>2, <1>4, <1>5, <1>9, <2>1, AlongLoop DEF FirstReached
  <2>3. Abs(e - d) = e - d /\ e - d \in Int /\ Loop(c) - (e - d) \in Int
    BY <1>3, <1>9 DEF Abs
  <2>4. CASE e - d <= v * gap
    BY <1>7, <2>2, <2>3, <2>4 DEF p, q, v
  <2>5. CASE Loop(c) - (e - d) <= v * gap
    BY <1>7, <2>2, <2>3, <2>5 DEF p, q, v
  <2>. QED
    BY <1>6, <2>3, <2>4, <2>5 DEF Close
<1>10. CASE e < d
  <2>1. j <= i
    <3>1. SUFFICES ASSUME i < j PROVE FALSE
      BY <1>8
    <3>2. i \in 1 .. j - 1
      BY <1>8, <3>1, LoopFields
    <3>3. LengthUpTo(c, i) \in Nat
      BY LoopFields, LengthGrows
    <3>. QED
      BY <1>3, <1>4, <1>5, <1>10, <3>2, <3>3 DEF FirstReached
  <2>2. e <= d
    BY <1>3, <1>10
  <2>3. Near(q, p, d - e, m) /\ Near(q, p, Loop(c) - (d - e), m) /\ Placed(p) /\ Placed(q)
    BY <1>2, <1>4, <1>5, <2>1, <2>2, AlongLoop DEF FirstReached
  <2>4. Abs(e - d) = d - e /\ d - e \in Int /\ Loop(c) - (d - e) \in Int
    BY <1>3, <1>10 DEF Abs
  <2>5. Near(p, q, d - e, m) /\ Near(p, q, Loop(c) - (d - e), m)
    BY <1>2, <2>3, <2>4, NearBack
  <2>6. CASE d - e <= v * gap
    BY <1>7, <2>4, <2>5, <2>6 DEF p, q, v
  <2>7. CASE Loop(c) - (d - e) <= v * gap
    BY <1>7, <2>4, <2>5, <2>7 DEF p, q, v
  <2>. QED
    BY <1>6, <2>4, <2>6, <2>7 DEF Close
<1>. QED
  BY <1>3, <1>9, <1>10

(* and with the velocity flown that both report. *)
LEMMA LoopStraight ==
    ASSUME NEW c \in WaypointLoops, NoVerticalLeg(c), LongLegs(c),
           NEW x \in 0 .. Period(c) - 1, NEW y \in 0 .. Period(c) - 1,
           y = x + 1 \/ (x = Period(c) - 1 /\ y = 0),
           SampleWaypoints(c, x).climb = SampleWaypoints(c, y).climb,
           SampleWaypoints(c, x).heading = SampleWaypoints(c, y).heading
    PROVE  LET p == SampleWaypoints(c, x)
               q == SampleWaypoints(c, y)
           IN  /\ q.east - p.east = p.speed * East(p.heading)
               /\ q.north - p.north = p.speed * North(p.heading)
               /\ q.up - p.up = p.climb
<1> DEFINE p == SampleWaypoints(c, x)
           q == SampleWaypoints(c, y)
           v == c.speed
           d == x * v
           e == y * v
           L == Len(c.waypoints)
           U(n) == LengthUpTo(c, n)
<1>1. L \in Nat /\ L >= 2 /\ Legs(c) = 1 .. L /\ v \in Nat \ {0}
  BY LoopFields
<1>2. d \in Nat /\ e \in Nat
  BY SampleOnLeg
<1>3. PICK i \in Legs(c) : FirstReached(c, i, d) /\ OnLeg(c, i, d, p) /\ Reports(c, i, p)
  BY SampleOnLeg
<1>4. PICK j \in Legs(c) : FirstReached(c, j, e) /\ OnLeg(c, j, e, q) /\ Reports(c, j, q)
  BY SampleOnLeg
<1> DEFINE se == Sign(DeltaEast(c, i))
           sn == Sign(DeltaNorth(c, i))
           su == Slope(c, i)
<1>5. LegLength(c, i) > 0 /\ LegLength(c, j) > 0
  BY <1>3, <1>4 DEF FirstReached
<1>6. se \in Int /\ sn \in Int /\ su \in Int /\ Slope(c, j) \in Int
  BY <1>5, LegFields
<1>7. Sign(DeltaEast(c, j)) = se /\ Sign(DeltaNorth(c, j)) = sn /\ Slope(c, j) = su
  <2>1. su * v = Slope(c, j) * v
    BY <1>3, <1>4 DEF Reports
  <2>2. Slope(c, j) = su
    <3> HIDE DEF su, v
    <3>1. (su * v) \div v = su /\ (Slope(c, j) * v) \div v = Slope(c, j)
      BY <1>1, <1>6, Exactly
    <3>. QED
      BY <2>1, <3>1
  <2>. QED
    BY <1>3, <1>4, <2>2 DEF Reports
<1>8. ASSUME q.east - p.east = se * v, q.north - p.north = sn * v, q.up - p.up = su * v
      PROVE  /\ q.east - p.east = p.speed * East(p.heading)
             /\ q.north - p.north = p.speed * North(p.heading)
             /\ q.up - p.up = p.climb
  <2>1. p.speed = v /\ p.climb = su * v /\ East(p.heading) = se /\ North(p.heading) = sn
    BY <1>3 DEF Reports
  <2> HIDE DEF p, q, v, se, sn, su
  <2>2. v * se = se * v /\ v * sn = sn * v
    BY <1>1, <1>6
  <2>. QED
    BY <1>8, <2>1, <2>2
<1>9. /\ i \in 0 .. L /\ i - 1 \in 0 .. L /\ j - 1 \in 0 .. L /\ i \in Int /\ j \in Int /\ 0 \in 0 .. L /\ L \in 0 .. L
      /\ i + 1 \in 1 .. L + 1 /\ j \in 1 .. L + 1 /\ 1 \in 1 .. L + 1 /\ L + 1 \in 1 .. L + 1
      /\ (i + 1) - 1 = i /\ (L + 1) - 1 = L /\ i <= L /\ 1 <= j /\ i + 1 <= L + 1
  <2>1. i \in 1 .. L /\ j \in 1 .. L
    BY <1>1
  <2> HIDE DEF L
  <2>. QED
    BY <1>1, <2>1
<1>10. U(i) \in Nat /\ U(i - 1) \in Nat /\ U(j - 1) \in Nat /\ U(L) \in Nat /\ U(0) = 0 /\ Loop(c) = U(L)
  BY <1>9, LengthGrows, RunningLength DEF Loop, WaypointLoops
<1>11. U(i - 1) <= d /\ d <= U(i) /\ U(j - 1) <= e
  BY <1>3, <1>4 DEF OnLeg
<1>12. ASSUME (U(i) - d) + (e - U(j - 1)) = v,
              Corner(c, i + 1).east = Corner(c, j).east, Corner(c, i + 1).north = Corner(c, j).north,
              Corner(c, i + 1).up = Corner(c, j).up
       PROVE  q.east - p.east = se * v /\ q.north - p.north = sn * v /\ q.up - p.up = su * v
  <2>1. OnLeg(c, i, d, p) /\ OnLeg(c, j, e, q)
    BY <1>3, <1>4
  <2> HIDE DEF p, q, d, e, v
  <2>. QED
    BY <1>5, <1>7, <1>12, <2>1, Straight
<1>13. CASE y = x + 1
  <2>1. e = d + v
    <3> HIDE DEF v
    <3>1. \A a, b \in Int : (a + 1) * b = a * b + b
      OBVIOUS
    <3>2. x \in Int /\ v \in Int
      BY <1>1
    <3>. QED
      BY <1>13, <3>1, <3>2
  <2>2. CASE i = j
    <3>1. Placed(Corner(c, i))
      <4>1. i \in 1 .. L + 1
        BY <1>9, <2>2
      <4>. QED
        BY <4>1, LoopFields DEF Placed
    <3> DEFINE z == d - U(i - 1)
    <3>2. z \in Int /\ e - U(i - 1) = z + v
      <4> HIDE DEF d, e, v, U
      <4>. QED
        BY <1>1, <1>2, <1>10, <2>1
    <3>3. /\ p.east = Corner(c, i).east + se * z /\ q.east = Corner(c, i).east + se * (z + v)
          /\ p.north = Corner(c, i).north + sn * z /\ q.north = Corner(c, i).north + sn * (z + v)
          /\ p.up = Corner(c, i).up + su * z /\ q.up = Corner(c, i).up + su * (z + v)
      BY <1>3, <1>4, <2>2, <3>2 DEF OnLeg
    <3> HIDE DEF p, q, se, sn, su, z, v
    <3>4. \A a, s \in Int : (a + s * (z + v)) - (a + s * z) = s * v
      BY <1>1, <3>2
    <3>5. q.east - p.east = se * v /\ q.north - p.north = sn * v /\ q.up - p.up = su * v
      BY <1>6, <3>1, <3>3, <3>4 DEF Placed
    <3>. QED
      BY <1>8, <3>5 DEF p, q
  <2>3. CASE i # j
    <3>1. i < j
      <4>1. SUFFICES ASSUME j < i PROVE FALSE
        BY <1>9, <2>3
      <4>2. j \in 1 .. i - 1
        BY <1>9, <4>1
      <4>3. LengthUpTo(c, j) \in Nat
        BY LoopFields, LengthGrows
      <4>4. d > LengthUpTo(c, j) /\ e <= LengthUpTo(c, j)
        BY <1>3, <1>4, <1>5, <4>2 DEF FirstReached
      <4> HIDE DEF d, e, v
      <4>. QED
        BY <1>1, <1>2, <2>1, <4>3, <4>4
    <3>2. i <= j - 1 /\ i + 1 <= j
      BY <1>9, <3>1
    <3>3. U(j - 1) - U(i) <= v
      <4> HIDE DEF d, e, v, U
      <4>. QED
        BY <1>1, <1>2, <1>10, <1>11, <2>1
    <3>4. U(j - 1) = U(i)
      BY <1>9, <3>2, <3>3, NoLegBetween
    <3>5. /\ Corner(c, i + 1).east = Corner(c, j).east /\ Corner(c, i + 1).north = Corner(c, j).north
          /\ Corner(c, i + 1).up = Corner(c, j).up
      <4>1. LengthUpTo(c, j - 1) = LengthUpTo(c, (i + 1) - 1)
        BY <1>9, <3>4
      <4>. QED
        BY <1>9, <3>2, <4>1, SameCorner
    <3>6. (U(i) - d) + (e - U(j - 1)) = v
      <4> HIDE DEF d, e, v, U
      <4>. QED
        BY <1>1, <1>2, <1>10, <2>1, <3>4
    <3>7. q.east - p.east = se * v /\ q.north - p.north = sn * v /\ q.up - p.up = su * v
      BY <1>12, <3>5, <3>6
    <3>. QED
      BY <1>8, <3>7 DEF p, q
  <2>. QED
    BY <2>2, <2>3
<1>14. CASE x = Period(c) - 1 /\ y = 0
  <2>1. e = 0 /\ d = Loop(c) - v
    <3>1. Period(c) \in Int /\ Period(c) * v = Loop(c)
      BY LoopRounds
    <3>2. (Period(c) - 1) * v = Period(c) * v - v /\ 0 * v = 0
      BY <1>1, <3>1
    <3>. QED
      BY <1>14, <3>1, <3>2
  <2>2. U(j - 1) = 0
    BY <1>10, <1>11, <2>1
  <2>3. U(L) - U(i) <= v
    <3> HIDE DEF d, v, U
    <3>. QED
      BY <1>1, <1>10, <1>11, <2>1
  <2>4. U(L) = U(i)
    BY <1>9, <2>3, NoLegBetween
  <2>5. /\ Corner(c, i + 1).east = Corner(c, L + 1).east /\ Corner(c, i + 1).north = Corner(c, L + 1).north
        /\ Corner(c, i + 1).up = Corner(c, L + 1).up
    <3>1. LengthUpTo(c, (L + 1) - 1) = LengthUpTo(c, (i + 1) - 1)
      BY <1>9, <2>4
    <3>. QED
      BY <1>9, <3>1, SameCorner
  <2>6. /\ Corner(c, 1).east = Corner(c, j).east /\ Corner(c, 1).north = Corner(c, j).north
        /\ Corner(c, 1).up = Corner(c, j).up
    <3>1. LengthUpTo(c, j - 1) = LengthUpTo(c, 1 - 1)
      BY <1>10, <2>2
    <3>. QED
      BY <1>9, <3>1, SameCorner
  <2>7. Corner(c, L + 1) = Corner(c, 1)
    BY <1>1 DEF Corner
  <2>8. (U(i) - d) + (e - U(j - 1)) = v
    <3> HIDE DEF d, e, v, U
    <3>. QED
      BY <1>1, <1>2, <1>10, <2>1, <2>2, <2>4
  <2>9. q.east - p.east = se * v /\ q.north - p.north = sn * v /\ q.up - p.up = su * v
    BY <1>12, <2>5, <2>6, <2>7, <2>8
  <2>. QED
    BY <1>8, <2>9 DEF p, q
<1>. QED
  BY <1>13, <1>14

(* No leg is flown again in its direction: two legs of the same direction and slope have no point *)
(* in common, but for the corner where one goes on after the other.                                 *)
NeverRetraced(c) ==
    \A i, j \in Legs(c) :
        /\ LegLength(c, i) > 0 /\ LegLength(c, j) > 0 /\ Slope(c, i) = Slope(c, j)
        /\ Sign(DeltaEast(c, i)) = Sign(DeltaEast(c, j)) /\ Sign(DeltaNorth(c, i)) = Sign(DeltaNorth(c, j))
        => \A d \in LengthUpTo(c, i - 1) .. LengthUpTo(c, i), e \in LengthUpTo(c, j - 1) .. LengthUpTo(c, j) :
                (\E p : OnLeg(c, i, d, p) /\ OnLeg(c, j, e, p)) => d % Loop(c) = e % Loop(c)

(* Two phases of a loop are not the same state. *)
LEMMA LoopApart ==
    ASSUME NEW c \in WaypointLoops, NeverRetraced(c),
           NEW x \in 0 .. Period(c) - 1, NEW y \in 0 .. Period(c) - 1,
           SampleWaypoints(c, x) = SampleWaypoints(c, y)
    PROVE  x = y
<1> DEFINE p == SampleWaypoints(c, x)
           v == c.speed
           d == x * v
           e == y * v
<1>1. v \in Nat \ {0} /\ Period(c) \in Nat \ {0} /\ Period(c) * v = Loop(c) /\ Loop(c) \in Nat \ {0}
  BY LoopFields, LoopRounds
<1>2. PICK i \in Legs(c) : FirstReached(c, i, d) /\ OnLeg(c, i, d, p) /\ Reports(c, i, p)
  BY SampleOnLeg
<1>3. PICK j \in Legs(c) : FirstReached(c, j, e) /\ OnLeg(c, j, e, p) /\ Reports(c, j, p)
  BY SampleOnLeg
<1>4. LegLength(c, i) > 0 /\ LegLength(c, j) > 0
  BY <1>2, <1>3 DEF FirstReached
<1>5. Slope(c, i) = Slope(c, j)
  <2>1. Slope(c, i) \in Int /\ Slope(c, j) \in Int
    BY <1>4, LegFields
  <2>2. Slope(c, i) * v = Slope(c, j) * v
    BY <1>2, <1>3 DEF Reports
  <2> HIDE DEF v
  <2>3. (Slope(c, i) * v) \div v = Slope(c, i) /\ (Slope(c, j) * v) \div v = Slope(c, j)
    BY <1>1, <2>1, Exactly
  <2>. QED
    BY <2>2, <2>3
<1>6. Sign(DeltaEast(c, i)) = Sign(DeltaEast(c, j)) /\ Sign(DeltaNorth(c, i)) = Sign(DeltaNorth(c, j))
  BY <1>2, <1>3 DEF Reports
<1>7. d \in LengthUpTo(c, i - 1) .. LengthUpTo(c, i) /\ e \in LengthUpTo(c, j - 1) .. LengthUpTo(c, j)
  <2>1. i \in 0 .. Len(c.waypoints) /\ i - 1 \in 0 .. Len(c.waypoints)
        /\ j \in 0 .. Len(c.waypoints) /\ j - 1 \in 0 .. Len(c.waypoints)
    BY LoopFields
  <2>2. /\ LengthUpTo(c, i) \in Nat /\ LengthUpTo(c, i - 1) \in Nat
        /\ LengthUpTo(c, j) \in Nat /\ LengthUpTo(c, j - 1) \in Nat
    BY <2>1, LengthGrows
  <2>. QED
    BY <1>2, <1>3, <2>2 DEF OnLeg
<1>8. d % Loop(c) = e % Loop(c)
  BY <1>2, <1>3, <1>4, <1>5, <1>6, <1>7 DEF NeverRetraced
<1>9. ASSUME NEW z \in 0 .. Period(c) - 1
      PROVE  z * v \in Int /\ (z * v) % Loop(c) = z * v /\ (z * v) \div v = z
  <2>1. z \in Int /\ 0 * v <= z * v /\ z * v <= (Period(c) - 1) * v
    BY <1>1, Faster
  <2>2. (Period(c) - 1) * v = Loop(c) - v /\ z * v \in Int
    BY <1>1, <2>1
  <2>3. z * v \in 0 .. Loop(c) /\ z * v # Loop(c)
    BY <1>1, <2>1, <2>2
  <2> HIDE DEF v
  <2>. QED
    BY <1>1, <2>1, <2>2, <2>3, Turn, Exactly
<1>. QED
  BY <1>8, <1>9
-----------------------------------------------------------------------------
(* What MotionOf returns, by type. *)
LEMMA MotionByType ==
    ASSUME NEW c \in Configs, c.type # "WaypointLoop", NEW i \in Nat, NEW t \in Nat
    PROVE  /\ c.type \in {"Hover", "Line", "Rectangle", "TakeoffCruiseLand"}
           /\ c.type = "Hover" => MotionOf(c, i, t) = SampleHover(c)
           /\ c.type = "Line" => MotionOf(c, i, t) = SampleLine(c, Phase(c, i, t))
           /\ c.type = "Rectangle" => MotionOf(c, i, t) = SampleRectangle(c, Phase(c, i, t))
           /\ c.type = "TakeoffCruiseLand" => MotionOf(c, i, t) = SampleMission(c, Phase(c, i, t))
<1>1. c.type \in {"Hover", "Line", "Rectangle", "TakeoffCruiseLand"}
  BY ConfigsAssumption DEF TrajectoryConfigs
<1>. QED
  BY <1>1 DEF MotionOf

(* The phases of an aircraft at two times, if its trajectory has a period. *)
LEMMA PhasesFlown ==
    ASSUME NEW c \in Configs, Period(c) \in Nat \ {0}, NEW i \in Nat, NEW t \in Nat, NEW gap \in Nat
    PROVE  /\ Phase(c, i, t) \in 0 .. Period(c) - 1 /\ Phase(c, i, t + gap) \in 0 .. Period(c) - 1
           /\ Close(Phase(c, i, t), Phase(c, i, t + gap), Period(c), gap)
           /\ gap = 1 => \/ Phase(c, i, t + gap) = Phase(c, i, t) + 1
                         \/ Phase(c, i, t) = Period(c) - 1 /\ Phase(c, i, t + gap) = 0
<1> DEFINE P == Period(c)
           start == (P \div Slots) * (i % Slots)
<1>1. start \in Nat
  <2>1. Slots \in Int /\ Slots > 0
    BY ConfigsAssumption
  <2>2. P \div Slots \in Nat /\ (i % Slots) \in Nat
    BY <2>1
  <2>. QED
    BY <2>2
<1>2. Phase(c, i, t) = (t + start) % P /\ Phase(c, i, t + gap) = (t + gap + start) % P
  BY DEF Phase
<1> HIDE DEF P, start
<1>3. t + start \in Nat /\ t + gap + start = t + start + gap /\ P \in Int /\ P > 0
  BY <1>1 DEF P
<1>4. /\ Close((t + start) % P, (t + start + gap) % P, P, gap)
      /\ gap = 1 => \/ (t + start + gap) % P = ((t + start) % P) + 1
                    \/ (t + start) % P = P - 1 /\ (t + start + gap) % P = 0
  BY <1>3, PhaseStep DEF P
<1>5. ((t + start) % P) \in 0 .. P - 1 /\ ((t + start + gap) % P) \in 0 .. P - 1
  BY <1>3, Division
<1>. QED
  BY <1>2, <1>3, <1>4, <1>5 DEF P

(* What is flown in a gap between two samples. *)
Covered(c, p, q, gap) ==
    /\ Distance(p, q) <= TopSpeed(c) * gap
    /\ \E climb \in Climbs(c) : Abs(q.up - p.up) <= climb * gap
AsReported(p, q) ==
    <<p.speed, p.climb, p.heading>> = <<q.speed, q.climb, q.heading>> =>
            /\ q.east - p.east = p.speed * East(p.heading)
            /\ q.north - p.north = p.speed * North(p.heading)
            /\ q.up - p.up = p.climb
Flown(c, p, q, gap) == Covered(c, p, q, gap) /\ (gap = 1 => AsReported(p, q))

(* What lies between two times, of all but a waypoint loop. *)
LEMMA FlownBetween ==
    ASSUME NEW c \in Configs, c.type # "WaypointLoop", NEW i \in Nat, NEW t \in Nat, NEW gap \in Nat
    PROVE  Flown(c, MotionOf(c, i, t), MotionOf(c, i, t + gap), gap)
<1> DEFINE p == MotionOf(c, i, t)
           q == MotionOf(c, i, t + gap)
           x == Phase(c, i, t)
           y == Phase(c, i, t + gap)
<1>0. t + gap \in Nat
  OBVIOUS
<1>1. CASE c.type = "Hover"
  <2>1. c.altitude \in Int
    BY <1>1, ConfigsAssumption DEF TrajectoryConfigs
  <2>2. p = SampleHover(c) /\ q = SampleHover(c)
    BY <1>0, <1>1, MotionByType
  <2>3. /\ p.east = 0 /\ p.north = 0 /\ p.up = c.altitude /\ p.speed = 0 /\ p.climb = 0 /\ p.heading = 0
        /\ q = p
    BY <2>2 DEF SampleHover, At
  <2>4. TopSpeed(c) = 0 /\ Climbs(c) = {0}
    BY <1>1 DEF TopSpeed, Climbs
  <2>5. 0 * gap = 0 /\ Distance(p, q) = 0 /\ Abs(q.up - p.up) = 0
    BY <2>1, <2>3 DEF Distance, Abs
  <2>6. p.speed * East(p.heading) = 0 /\ p.speed * North(p.heading) = 0
    BY <2>3 DEF East, North
  <2> HIDE DEF p, q
  <2>. QED
    BY <2>1, <2>3, <2>4, <2>5, <2>6 DEF Flown, Covered, AsReported, p, q
<1>2. CASE c.type \in {"Line", "Rectangle"}
  <2>1. c \in Circuits
    BY <1>2 DEF Circuits
  <2>2. c.speed \in Nat /\ c.altitude \in Nat /\ Period(c) \in Nat \ {0}
    BY <2>1, CircuitFields, Rounds
  <2>3. /\ x \in 0 .. Period(c) - 1 /\ y \in 0 .. Period(c) - 1
        /\ Close(x, y, Period(c), gap)
        /\ gap = 1 => y = x + 1 \/ (x = Period(c) - 1 /\ y = 0)
    <3>1. Period(c) \in Nat \ {0}
      BY <2>2
    <3>2. x \in 0 .. Period(c) - 1 /\ y \in 0 .. Period(c) - 1
      BY <3>1, PhasesFlown
    <3>3. Close(x, y, Period(c), gap)
      BY <3>1, PhasesFlown
    <3>4. gap = 1 => y = x + 1 \/ (x = Period(c) - 1 /\ y = 0)
      BY <3>1, PhasesFlown
    <3>. QED
      BY <3>2, <3>3, <3>4
  <2>4. TopSpeed(c) = c.speed /\ Climbs(c) = {0}
    BY <1>2 DEF TopSpeed, Climbs
  <2> HIDE DEF x, y
  <2>5. /\ Distance(p, q) <= c.speed * gap /\ p.up = q.up
        /\ gap = 1 /\ p.heading = q.heading =>
                /\ q.east - p.east = p.speed * East(p.heading)
                /\ q.north - p.north = p.speed * North(p.heading)
                /\ q.up - p.up = p.climb
    <3>1. CASE c.type = "Line"
      <4>1. p = SampleLine(c, x) /\ q = SampleLine(c, y)
        BY <1>0, <3>1, MotionByType DEF x, y
      <4>. QED
        BY <2>1, <2>3, <3>1, <4>1, LineMotion
    <3>2. CASE c.type = "Rectangle"
      <4>1. p = SampleRectangle(c, x) /\ q = SampleRectangle(c, y)
        BY <1>0, <3>2, MotionByType DEF x, y
      <4>. QED
        BY <2>1, <2>3, <3>2, <4>1, RectangleMotion
    <3>. QED
      BY <1>2, <3>1, <3>2
  <2>6. p.up = c.altitude
    <3>1. CASE c.type = "Line"
      BY <2>1, <2>3, <3>1, MotionByType, OnLine DEF x
    <3>2. CASE c.type = "Rectangle"
      BY <2>1, <2>3, <3>2, MotionByType, OnRectangle DEF x
    <3>. QED
      BY <1>2, <3>1, <3>2
  <2> HIDE DEF p, q
  <2>7. Abs(q.up - p.up) = 0 /\ 0 * gap = 0
    BY <2>2, <2>5, <2>6 DEF Abs
  <2>. QED
    BY <2>4, <2>5, <2>7 DEF Flown, Covered, AsReported, p, q
<1>3. CASE c.type = "TakeoffCruiseLand"
  <2>1. c.climb \in Nat /\ Period(c) \in Nat \ {0}
    BY <1>3, MissionFields
  <2>3. /\ x \in 0 .. Period(c) - 1 /\ y \in 0 .. Period(c) - 1
        /\ Close(x, y, Period(c), gap)
        /\ gap = 1 => y = x + 1 \/ (x = Period(c) - 1 /\ y = 0)
    <3>1. Period(c) \in Nat \ {0}
      BY <2>1
    <3>2. x \in 0 .. Period(c) - 1 /\ y \in 0 .. Period(c) - 1
      BY <3>1, PhasesFlown
    <3>3. Close(x, y, Period(c), gap)
      BY <3>1, PhasesFlown
    <3>4. gap = 1 => y = x + 1 \/ (x = Period(c) - 1 /\ y = 0)
      BY <3>1, PhasesFlown
    <3>. QED
      BY <3>2, <3>3, <3>4
  <2>4. TopSpeed(c) = 0 /\ Climbs(c) = {c.climb}
    BY <1>3 DEF TopSpeed, Climbs
  <2>5. p = SampleMission(c, x) /\ q = SampleMission(c, y)
    BY <1>0, <1>3, MotionByType
  <2> HIDE DEF x, y
  <2>6. /\ Distance(p, q) = 0 /\ Abs(q.up - p.up) <= c.climb * gap
        /\ gap = 1 /\ p.climb = q.climb =>
                /\ q.east - p.east = p.speed * East(p.heading)
                /\ q.north - p.north = p.speed * North(p.heading)
                /\ q.up - p.up = p.climb
    BY <1>3, <2>3, <2>5, MissionMotion
  <2> HIDE DEF p, q
  <2>. QED
    BY <2>4, <2>6 DEF Flown, Covered, AsReported, p, q
<1>. QED
  BY <1>1, <1>2, <1>3, MotionByType

(* The same of a waypoint loop. *)
LEMMA LoopFlown ==
    ASSUME NEW c \in WaypointLoops, NoVerticalLeg(c), NEW i \in Nat, NEW t \in Nat, NEW gap \in Nat
    PROVE  /\ Covered(c, MotionOf(c, i, t), MotionOf(c, i, t + gap), gap)
           /\ LongLegs(c) /\ gap = 1 => AsReported(MotionOf(c, i, t), MotionOf(c, i, t + gap))
<1> DEFINE x == Phase(c, i, t)
           y == Phase(c, i, t + gap)
<1>1. c \in Configs /\ c.type = "WaypointLoop"
  BY DEF WaypointLoops
<1>2. Period(c) \in Nat \ {0} /\ t + gap \in Nat
  BY LoopRounds
<1>3. MotionOf(c, i, t) = SampleWaypoints(c, x) /\ MotionOf(c, i, t + gap) = SampleWaypoints(c, y)
  BY <1>1 DEF MotionOf
<1>4. x \in 0 .. Period(c) - 1 /\ y \in 0 .. Period(c) - 1
  BY <1>1, <1>2, PhasesFlown
<1>5. Close(x, y, Period(c), gap)
  BY <1>1, <1>2, PhasesFlown
<1>6. gap = 1 => y = x + 1 \/ (x = Period(c) - 1 /\ y = 0)
  BY <1>1, <1>2, PhasesFlown
<1> HIDE DEF x, y
<1>7. Covered(c, SampleWaypoints(c, x), SampleWaypoints(c, y), gap)
  <2>1. TopSpeed(c) = c.speed
    BY <1>1 DEF TopSpeed
  <2>. QED
    BY <1>4, <1>5, <2>1, LoopNear DEF Covered
<1>8. LongLegs(c) /\ gap = 1 => AsReported(SampleWaypoints(c, x), SampleWaypoints(c, y))
  BY <1>4, <1>6, LoopStraight DEF AsReported
<1>. QED
  BY <1>3, <1>7, <1>8

(* Two instances of a group are never at the same phase, *)
LEMMA PhasesApart ==
    ASSUME NEW c \in Configs, Period(c) \in Nat \ {0}, NEW i \in 0 .. Slots - 1, NEW j \in 0 .. Slots - 1,
           i # j, NEW t \in Nat
    PROVE  /\ Phase(c, i, t) \in 0 .. Period(c) - 1 /\ Phase(c, j, t) \in 0 .. Period(c) - 1
           /\ Phase(c, i, t) # Phase(c, j, t)
<1> DEFINE P == Period(c)
           k == P \div Slots
<1>1. P \in Nat \ {0} /\ k \in Nat \ {0} /\ P = k * Slots /\ Slots \in Nat \ {0, 1}
  <2>1. P \in Nat \ {0} /\ P % Slots = 0 /\ Slots \in Nat \ {0, 1}
    BY ConfigsAssumption DEF Exact
  <2> HIDE DEF P
  <2>2. k \in Int /\ P = k * Slots
    BY <2>1, Division
  <2>3. ASSUME k <= 0 PROVE FALSE
    <3>1. k * Slots <= 0 * Slots
      BY <2>1, <2>2, <2>3, Faster
    <3>. QED
      BY <2>1, <2>2, <3>1
  <2>. QED
    BY <2>1, <2>2, <2>3
<1>2. i \in Nat /\ j \in Nat /\ i < Slots /\ j < Slots /\ i % Slots = i /\ j % Slots = j
  BY <1>1
<1>3. Phase(c, i, t) = (t + k * i) % P /\ Phase(c, j, t) = (t + k * j) % P
  BY <1>1, <1>2 DEF Phase
<1> HIDE DEF P, k
<1>4. \A a, b \in 0 .. Slots - 1 : a < b => (t + k * a) % P # (t + k * b) % P
  <2> SUFFICES ASSUME NEW a \in 0 .. Slots - 1, NEW b \in 0 .. Slots - 1, a < b,
                      (t + k * a) % P = (t + k * b) % P
               PROVE  FALSE
    OBVIOUS
  <2> DEFINE m == (t + k * a) \div P
             n == (t + k * b) \div P
             r == (t + k * a) % P
  <2>1. t + k * a \in Int /\ t + k * b \in Int /\ k * a \in Int /\ k * b \in Int
    BY <1>1
  <2>2. /\ m \in Int /\ n \in Int /\ r \in Int
        /\ t + k * a = m * P + r /\ t + k * b = n * P + r
    <3> DEFINE f == t + k * a
               g == t + k * b
    <3>1. P \in Int /\ P > 0 /\ f \in Int /\ g \in Int
      BY <1>1, <2>1
    <3> HIDE DEF f, g
    <3>2. f \div P \in Int /\ f % P \in Int /\ f = (f \div P) * P + (f % P)
      BY <3>1, Division
    <3>3. g \div P \in Int /\ g = (g \div P) * P + (g % P)
      BY <3>1, Division
    <3>. QED
      BY <3>2, <3>3 DEF f, g
  <2> HIDE DEF m, n, r
  <2>3. k * b - k * a = (n - m) * P
    <3>1. n * P - m * P = (n - m) * P
      BY <1>1, <2>2
    <3>. QED
      BY <1>1, <2>1, <2>2, <3>1
  <2>4. k * b - k * a > 0 /\ k * b - k * a < P
    <3>1. (b - a) * k = k * b - k * a /\ b - a >= 1 /\ b - a <= Slots - 1 /\ b - a \in Int
      BY <1>1
    <3>2. 1 * k <= (b - a) * k /\ (b - a) * k <= (Slots - 1) * k
      BY <1>1, <3>1, Faster
    <3>3. (Slots - 1) * k = P - k
      BY <1>1
    <3>. QED
      BY <1>1, <2>1, <3>1, <3>2, <3>3
  <2>5. CASE n - m <= 0
    <3>1. (n - m) * P <= 0 * P
      BY <1>1, <2>2, <2>5, Faster
    <3>. QED
      BY <1>1, <2>3, <2>4, <3>1
  <2>6. CASE n - m >= 1
    <3>1. 1 * P <= (n - m) * P
      BY <1>1, <2>2, <2>6, Faster
    <3>. QED
      BY <1>1, <2>3, <2>4, <3>1
  <2>. QED
    BY <2>2, <2>5, <2>6
<1>5. Phase(c, i, t) # Phase(c, j, t)
  BY <1>2, <1>3, <1>4
<1>6. Phase(c, i, t) \in 0 .. P - 1 /\ Phase(c, j, t) \in 0 .. P - 1
  <2>1. t + k * i \in Int /\ t + k * j \in Int /\ P \in Int /\ P > 0
    BY <1>1, <1>2
  <2>. QED
    BY <1>3, <2>1, Division
<1>. QED
  BY <1>5, <1>6 DEF P

(* so never in the same state. *)
LEMMA ApartAt ==
    ASSUME NEW c \in Configs, TopSpeed(c) > 0, c \in WaypointLoops => NeverRetraced(c),
           NEW i \in 0 .. Slots - 1, NEW j \in 0 .. Slots - 1, i # j, NEW t \in Nat
    PROVE  MotionOf(c, i, t) # MotionOf(c, j, t)
<1>1. i \in Nat /\ j \in Nat
  OBVIOUS
<1>2. c \in Circuits \/ c \in WaypointLoops
  BY ConfigsAssumption DEF TopSpeed, Circuits, WaypointLoops, TrajectoryConfigs
<1>3. Period(c) \in Nat \ {0}
  BY <1>2, Rounds, LoopRounds
<1>4. /\ Phase(c, i, t) \in 0 .. Period(c) - 1 /\ Phase(c, j, t) \in 0 .. Period(c) - 1
      /\ Phase(c, i, t) # Phase(c, j, t)
  BY <1>3, PhasesApart
<1>5. CASE c \in Circuits /\ c.type = "Line"
  BY <1>1, <1>4, <1>5, MotionByType, LineMotion
<1>6. CASE c \in Circuits /\ c.type = "Rectangle"
  BY <1>1, <1>4, <1>6, MotionByType, RectangleMotion
<1>7. CASE c \in WaypointLoops
  <2>1. /\ MotionOf(c, i, t) = SampleWaypoints(c, Phase(c, i, t))
        /\ MotionOf(c, j, t) = SampleWaypoints(c, Phase(c, j, t))
    BY <1>7 DEF MotionOf, WaypointLoops
  <2>. QED
    BY <1>4, <1>7, <2>1, LoopApart
<1>. QED
  BY <1>2, <1>5, <1>6, <1>7 DEF Circuits
-----------------------------------------------------------------------------
(* What the engine remembers of a flight is what was flown: each of the last two samples of an *)
(* aircraft is the motion at its time, and the newer one is not earlier than the older.          *)
SampleInv(a, s) ==
    /\ s.at \in Nat /\ s.at <= Milliseconds(elapsed)
    /\ s.motion = MotionOf(config, Entry[a], s.at)

FlightInv ==
    /\ config \in Configs
    /\ \A a \in Aircraft :
        \/ flight[a] = <<>>
        \/ \E s : flight[a] = <<s>> /\ SampleInv(a, s)
        \/ \E s, r : flight[a] = <<s, r>> /\ SampleInv(a, s) /\ SampleInv(a, r) /\ r.at <= s.at
    /\ \E any : flight = [a \in Aircraft |-> any[a]]

(* Time does not go back. *)
LEMMA LaterTick ==
    ASSUME NEW t \in Time, NEW gap \in 0 .. MaxGap
    PROVE  Milliseconds(t) \in Nat /\ Milliseconds(t) <= Milliseconds(Plus(t, gap))
<1>1. t.high \in Nat /\ t.low \in 0 .. Range - 1 /\ Range \in Nat /\ gap \in Nat
  BY ConstantsAssumption DEF Time, Range
<1>2. t.high * Range \in Nat /\ (t.high + 1) * Range = t.high * Range + Range
  BY <1>1
<1>3. Milliseconds(t) \in Nat
  BY <1>1, <1>2 DEF Milliseconds
<1>4. CASE t.low + gap < Range
  <2>1. Plus(t, gap).high = t.high /\ Plus(t, gap).low = t.low + gap
    BY <1>4 DEF Plus, Time
  <2>. QED
    BY <1>1, <1>2, <1>3, <2>1 DEF Milliseconds
<1>5. CASE ~(t.low + gap < Range)
  <2>1. Plus(t, gap).high = t.high + 1 /\ Plus(t, gap).low = t.low + gap - Range
    BY <1>5 DEF Plus
  <2>. QED
    BY <1>1, <1>2, <1>3, <2>1 DEF Milliseconds
<1>. QED
  BY <1>4, <1>5

(* A time is a number of milliseconds. *)
LEMMA InMilliseconds ==
    ASSUME NEW t \in Time
    PROVE  Milliseconds(t) \in Nat
<1>1. 0 \in 0 .. MaxGap
  BY ConstantsAssumption
<1>. QED
  BY <1>1, LaterTick

(* The two invariants of a flight together. *)
LEMMA FlightInit0 == FlightInit => IInv /\ FlightInv
<1> SUFFICES ASSUME FlightInit PROVE IInv /\ FlightInv
  OBVIOUS
<1>1. IInv
  BY InvInit DEF FlightInit
<1>2. flight = [a \in Aircraft |-> <<>>] /\ config \in Configs
  BY DEF FlightInit
<1>. QED
  BY <1>1, <1>2 DEF FlightInv

(* Every step keeps them. *)
LEMMA FlightStep == IInv /\ FlightInv /\ [FlightNext]_allVars => IInv' /\ FlightInv'
<1> SUFFICES ASSUME IInv, FlightInv, [FlightNext]_allVars PROVE IInv' /\ FlightInv'
  OBVIOUS
<1>1. IInv'
  BY InvStep DEF FlightNext, FlightTick, SampleFlight, Next, allVars, vars
<1>2. elapsed \in Time /\ config \in Configs /\ config' = config
  BY DEF IInv, TypeOK, FlightInv, FlightNext, FlightTick, SampleFlight, allVars
<1>3. ASSUME flight' = flight, Milliseconds(elapsed) <= Milliseconds(elapsed'),
             Milliseconds(elapsed) \in Nat, Milliseconds(elapsed') \in Nat
      PROVE  FlightInv'
  <2>1. ASSUME NEW a \in Aircraft, NEW s, SampleInv(a, s) PROVE SampleInv(a, s)'
    BY <1>2, <1>3, <2>1 DEF SampleInv
  <2>. QED
    BY <1>2, <1>3, <2>1 DEF FlightInv
<1>4. ASSUME NEW gap \in 0 .. MaxGap, FlightTick(gap) PROVE FlightInv'
  <2>1. flight' = flight /\ elapsed' = Plus(elapsed, gap)
    BY <1>4 DEF FlightTick, Tick
  <2>2. elapsed' \in Time
    BY <1>1 DEF IInv, TypeOK
  <2>3. Milliseconds(elapsed) \in Nat /\ Milliseconds(elapsed) <= Milliseconds(elapsed')
    BY <1>2, <2>1, LaterTick
  <2>4. Milliseconds(elapsed') \in Nat
    BY <2>2, InMilliseconds
  <2>. QED
    BY <1>3, <2>1, <2>3, <2>4
<1>5. ASSUME NEW a \in Aircraft, SampleFlight(a) PROVE FlightInv'
  <2> DEFINE now == Milliseconds(elapsed)
  <2>1. elapsed' = elapsed /\ sampled' = elapsed
    BY <1>5, SampleOnTime DEF SampleFlight, Sample
  <2>2. PICK state : state = [at |-> now, motion |-> MotionOf(config, Entry[a], now)]
    OBVIOUS
  <2>3. flight' = [flight EXCEPT ![a] = IF flight[a] = <<>> THEN <<state>> ELSE <<state, Head(flight[a])>>]
    BY <1>5, <2>1, <2>2 DEF SampleFlight
  <2>4. now \in Nat
    BY <1>2, InMilliseconds
  <2>5. ASSUME NEW b \in Aircraft, NEW s, SampleInv(b, s) PROVE SampleInv(b, s)'
    BY <1>2, <2>1, <2>5 DEF SampleInv
  <2>6. SampleInv(a, state) /\ state.at = now
    BY <2>2, <2>4 DEF SampleInv
  <2>7. ASSUME NEW b \in Aircraft
        PROVE  \/ flight'[b] = <<>>
               \/ \E s : flight'[b] = <<s>> /\ SampleInv(b, s)
               \/ \E s, r : flight'[b] = <<s, r>> /\ SampleInv(b, s) /\ SampleInv(b, r) /\ r.at <= s.at
    <3>1. CASE b # a
      <4>1. flight'[b] = flight[b]
        BY <2>3, <3>1 DEF FlightInv
      <4>. QED
        BY <4>1 DEF FlightInv
    <3>2. CASE b = a /\ flight[a] = <<>>
      <4>1. flight'[b] = <<state>>
        BY <2>3, <3>2 DEF FlightInv
      <4>. QED
        BY <2>6, <3>2, <4>1
    <3>3. CASE b = a /\ flight[a] # <<>>
      <4>1. PICK r : Head(flight[a]) = r /\ SampleInv(a, r)
        <5>1. CASE \E s : flight[a] = <<s>> /\ SampleInv(a, s)
          <6>1. PICK s : flight[a] = <<s>> /\ SampleInv(a, s)
            BY <5>1
          <6>. QED
            BY <6>1
        <5>2. CASE \E s, q : flight[a] = <<s, q>> /\ SampleInv(a, s)
          <6>1. PICK s, q : flight[a] = <<s, q>> /\ SampleInv(a, s)
            BY <5>2
          <6>. QED
            BY <6>1
        <5>. QED
          BY <3>3, <5>1, <5>2 DEF FlightInv
      <4>2. flight'[b] = <<state, r>>
        BY <2>3, <3>3, <4>1 DEF FlightInv
      <4>3. r.at <= state.at
        BY <2>6, <4>1 DEF SampleInv
      <4>. QED
        BY <2>6, <3>3, <4>1, <4>2, <4>3
    <3>. QED
      BY <3>1, <3>2, <3>3
  <2>8. \E any : flight' = [b \in Aircraft |-> any[b]]
    <3>1. flight' = [b \in Aircraft |-> flight'[b]]
      BY <2>3 DEF FlightInv
    <3>. QED
      BY <3>1
  <2>. QED
    BY <1>2, <2>5, <2>7, <2>8 DEF FlightInv
<1>6. ASSUME UNCHANGED allVars PROVE FlightInv'
  <2>1. flight' = flight /\ elapsed' = elapsed
    BY <1>6 DEF allVars, vars
  <2>2. Milliseconds(elapsed) \in Nat /\ Milliseconds(elapsed) <= Milliseconds(elapsed)
    BY <1>2, InMilliseconds
  <2>. QED
    BY <1>3, <2>1, <2>2
<1>. QED
  BY <1>1, <1>4, <1>5, <1>6 DEF FlightNext

(* So they hold in every reachable state. *)
LEMMA Flights == FlightSpec => [](IInv /\ FlightInv)
BY FlightInit0, FlightStep, PTL DEF FlightSpec

(* The last two samples of an aircraft, and the motions between which it flew. *)
LEMMA LastTwo ==
    ASSUME FlightInv, NEW a \in SampledTwice
    PROVE  \E i \in Nat, t \in Nat, gap \in Nat :
                /\ Gap(a) = gap
                /\ Older(a).motion = MotionOf(config, i, t)
                /\ Newer(a).motion = MotionOf(config, i, t + gap)
<1>1. PICK s, r : flight[a] = <<s, r>> /\ SampleInv(a, s) /\ SampleInv(a, r) /\ r.at <= s.at
  <2>1. a \in Aircraft /\ Len(flight[a]) = 2
    BY DEF SampledTwice
  <2>2. flight[a] # <<>>
    <3>1. Len(<<>>) = 0 /\ 0 # 2
      OBVIOUS
    <3>. QED
      BY <2>1, <3>1, Zenon
  <2>3. ASSUME NEW s, flight[a] = <<s>> PROVE FALSE
    BY <2>1, <2>3
  <2>. QED
    BY <2>1, <2>2, <2>3 DEF FlightInv
<1>2. Newer(a) = s /\ Older(a) = r /\ Gap(a) = s.at - r.at
  BY <1>1 DEF Newer, Older, Gap
<1>3. s.at \in Nat /\ r.at \in Nat /\ s.at - r.at \in Nat /\ s.at = r.at + (s.at - r.at)
  BY <1>1 DEF SampleInv
<1>4. Entry[a] \in Nat
  BY ConstantsAssumption DEF SampledTwice
<1>5. Older(a).motion = MotionOf(config, Entry[a], r.at) /\ Newer(a).motion = MotionOf(config, Entry[a], s.at)
  BY <1>1, <1>2 DEF SampleInv
<1>. QED
  BY <1>2, <1>3, <1>4, <1>5

(* No state jumps between two samples, at turns, at corners, at the end of a round or when the     *)
(* 32-bit time wraps, for every trajectory, size and speed.  Except a waypoint loop with a leg       *)
(* straight up or down: sample_waypoints skips it, its change of altitude too, and so jumps by it.    *)
THEOREM StateNeverJumps ==
    FlightSpec => []((config \in WaypointLoops => NoVerticalLeg(config)) => NoJump)
<1>1. ASSUME FlightInv, config \in WaypointLoops => NoVerticalLeg(config), NEW a \in SampledTwice
      PROVE  Covered(config, Older(a).motion, Newer(a).motion, Gap(a))
  <2>1. PICK i \in Nat, t \in Nat, gap \in Nat :
                /\ Gap(a) = gap
                /\ Older(a).motion = MotionOf(config, i, t)
                /\ Newer(a).motion = MotionOf(config, i, t + gap)
    BY <1>1, LastTwo
  <2>2. config \in Configs
    BY <1>1 DEF FlightInv
  <2>3. CASE config \in WaypointLoops
    BY <1>1, <2>1, <2>3, LoopFlown
  <2>4. CASE config \notin WaypointLoops
    BY <2>1, <2>2, <2>4, FlownBetween DEF Flown, WaypointLoops
  <2>. QED
    BY <2>3, <2>4
<1>2. IInv /\ FlightInv => ((config \in WaypointLoops => NoVerticalLeg(config)) => NoJump)
  BY <1>1 DEF NoJump, Covered
<1>. QED
  BY <1>2, Flights, PTL

(* The velocity reported is the one flown, for every trajectory, size, speed and climb rate.  The *)
(* legs of a waypoint loop must take longer than a tick: within one, a short leg is flown unseen.   *)
THEOREM VelocityIsFlown ==
    FlightSpec =>
        []((config \in WaypointLoops => NoVerticalLeg(config) /\ LongLegs(config)) => FliesItsVelocity)
<1>1. ASSUME FlightInv, config \in WaypointLoops => NoVerticalLeg(config) /\ LongLegs(config),
             NEW a \in SampledTwice, Gap(a) = 1
      PROVE  AsReported(Older(a).motion, Newer(a).motion)
  <2>1. PICK i \in Nat, t \in Nat, gap \in Nat :
                /\ Gap(a) = gap
                /\ Older(a).motion = MotionOf(config, i, t)
                /\ Newer(a).motion = MotionOf(config, i, t + gap)
    BY <1>1, LastTwo
  <2>2. config \in Configs /\ gap = 1
    BY <1>1, <2>1 DEF FlightInv
  <2>3. CASE config \in WaypointLoops
    BY <1>1, <2>1, <2>2, <2>3, LoopFlown
  <2>4. CASE config \notin WaypointLoops
    BY <2>1, <2>2, <2>4, FlownBetween DEF Flown, WaypointLoops
  <2>. QED
    BY <2>3, <2>4
<1>2. IInv /\ FlightInv =>
        ((config \in WaypointLoops => NoVerticalLeg(config) /\ LongLegs(config)) => FliesItsVelocity)
  BY <1>1 DEF FliesItsVelocity, AsReported
<1>. QED
  BY <1>2, Flights, PTL

(* Two instances of a group that moves over ground never report the same state at the same time,  *)
(* for every number of instances up to the phases that there are.  A waypoint loop must not fly a   *)
(* leg twice in the same direction: two instances may meet there.                                    *)
THEOREM InstancesApart ==
    FlightSpec => []((config \in WaypointLoops => NeverRetraced(config)) => MovingApart)
<1>1. ASSUME FlightInv, config \in WaypointLoops => NeverRetraced(config), TopSpeed(config) > 0,
             NEW a \in Sampled, NEW b \in Sampled, Entry[a] # Entry[b], Newer(a).at = Newer(b).at
      PROVE  Newer(a).motion # Newer(b).motion
  <2>1. config \in Configs
    BY <1>1 DEF FlightInv
  <2>2. ASSUME NEW d \in Sampled
        PROVE  /\ Newer(d).at \in Nat /\ Newer(d).motion = MotionOf(config, Entry[d], Newer(d).at)
               /\ Entry[d] \in 0 .. Slots - 1
    <3>1. d \in Aircraft /\ flight[d] # <<>>
      BY DEF Sampled
    <3>4. Entry[d] \in 0 .. Slots - 1
      BY <3>1, EntryAssumption
    <3>2. CASE \E s : flight[d] = <<s>> /\ SampleInv(d, s)
      <4>1. PICK s : flight[d] = <<s>> /\ SampleInv(d, s)
        BY <3>2
      <4>2. Newer(d) = s
        BY <4>1 DEF Newer
      <4>. QED
        BY <3>4, <4>1, <4>2 DEF SampleInv
    <3>3. CASE \E s, r : flight[d] = <<s, r>> /\ SampleInv(d, s)
      <4>1. PICK s, r : flight[d] = <<s, r>> /\ SampleInv(d, s)
        BY <3>3
      <4>2. Newer(d) = s
        BY <4>1 DEF Newer
      <4>. QED
        BY <3>4, <4>1, <4>2 DEF SampleInv
    <3>. QED
      BY <1>1, <3>1, <3>2, <3>3, <3>4 DEF FlightInv
  <2>. QED
    BY <1>1, <2>1, <2>2, ApartAt
<1>2. IInv /\ FlightInv => ((config \in WaypointLoops => NeverRetraced(config)) => MovingApart)
  BY <1>1 DEF MovingApart
<1>. QED
  BY <1>2, Flights, PTL
=============================================================================
