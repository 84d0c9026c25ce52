---------------------- MODULE FirewallCollectorProofs ----------------------
(***************************************************************************)
(* Proofs about FirewallCollector for every set of environments, every     *)
(* unit of time and any number of faults.                                  *)
(***************************************************************************)
EXTENDS FirewallCollector, FiniteSetTheorems, TLAPS

\* A running collector's window edge is the whole minute before polledAt.
EdgeIsPolled == lastWindowEnd # Down => lastWindowEnd = Truncate(polledAt)

IInv == TypeOK /\ EdgeIsPolled

-----------------------------------------------------------------------------
(* Whole minutes. *)

\* A larger factor makes a larger product.
LEMMA Products ==
    ASSUME NEW n \in Nat, NEW p \in Int, NEW q \in Int, p <= q
    PROVE  n * p <= n * q
  <1>1. PICK d \in Nat : q = p + d
    <2>1. q - p \in Nat /\ q = p + (q - p)
      OBVIOUS
    <2> QED
      BY <2>1
  <1>2. n * q = n * p + n * d /\ n * d \in Nat /\ n * p \in Int
    BY <1>1
  <1> QED
    BY <1>2

\* A slot is a number of minutes and what Truncate takes off.
LEMMA Divides ==
    ASSUME NEW s \in Nat
    PROVE  /\ s = SlotsPerMinute * (s \div SlotsPerMinute) + (s % SlotsPerMinute)
           /\ s \div SlotsPerMinute \in Nat
           /\ s % SlotsPerMinute \in 0 .. SlotsPerMinute - 1
  BY MinuteAssumption

\* A multiple of a minute is a whole minute.
LEMMA Multiples ==
    ASSUME NEW q \in Nat
    PROVE  (SlotsPerMinute * q) % SlotsPerMinute = 0
  BY MinuteAssumption

\* What Truncate keeps is a product.
LEMMA TruncateIs ==
    ASSUME NEW s \in Nat
    PROVE  Truncate(s) = SlotsPerMinute * (s \div SlotsPerMinute)
  <1> DEFINE q == s \div SlotsPerMinute
  <1>1. SlotsPerMinute * q \in Nat
    BY Divides, MinuteAssumption
  <1> QED
    BY Divides, <1>1, MinuteAssumption DEF Truncate

\* Truncate yields a whole minute that is not later.
LEMMA TruncateBelow ==
    ASSUME NEW s \in Nat
    PROVE  Truncate(s) \in 0 .. s /\ Truncate(s) % SlotsPerMinute = 0
  <1> DEFINE k == SlotsPerMinute * (s \div SlotsPerMinute)
             r == s % SlotsPerMinute
  <1>1. k \in Nat /\ r \in Nat /\ s = k + r /\ Truncate(s) = k
    BY Divides, TruncateIs, MinuteAssumption
  <1>2. Truncate(s) \in 0 .. s
    <2> HIDE DEF k, r
    <2> QED
      BY <1>1
  <1>3. Truncate(s) % SlotsPerMinute = 0
    BY Divides, Multiples, TruncateIs
  <1> QED
    BY <1>2, <1>3

\* Truncate keeps the order of two slots.
LEMMA TruncateMonotone ==
    ASSUME NEW a \in Nat, NEW b \in Nat, a <= b
    PROVE  Truncate(a) <= Truncate(b)
  <1> DEFINE n == SlotsPerMinute
             p == a \div n
             q == b \div n
  <1>1. /\ n \in Nat /\ n >= 1
        /\ p \in Nat /\ q \in Nat /\ n * p \in Nat /\ n * q \in Nat
        /\ a = n * p + (a % n) /\ a % n \in 0 .. n - 1
        /\ b = n * q + (b % n) /\ b % n \in 0 .. n - 1
    BY Divides, MinuteAssumption
  <1>2. CASE p <= q
    <2>1. n * p <= n * q
      BY <1>1, <1>2, Products
    <2> QED
      BY <2>1, TruncateIs
  <1>3. CASE q + 1 <= p
    <2>1. n * (q + 1) <= n * p
      BY <1>1, <1>3, Products
    <2>2. n * (q + 1) = n * q + n
      BY <1>1
    <2> HIDE DEF n, p, q
    <2>3. FALSE
      BY <1>1, <2>1, <2>2
    <2> QED
      BY <2>3
  <1> QED
    BY <1>1, <1>2, <1>3

\* The minutes keep the order of two slots.
LEMMA MinuteMonotone ==
    ASSUME NEW a \in Nat, NEW b \in Nat, a <= b
    PROVE  Minute(a) \in Nat /\ Minute(b) \in Nat /\ Minute(a) <= Minute(b)
  <1> DEFINE n == SlotsPerMinute
             p == a \div n
             q == b \div n
  <1>1. /\ n \in Nat /\ n >= 1
        /\ p \in Nat /\ q \in Nat /\ n * p \in Nat /\ n * q \in Nat
        /\ a = n * p + (a % n) /\ a % n \in 0 .. n - 1
        /\ b = n * q + (b % n) /\ b % n \in 0 .. n - 1
    BY Divides, MinuteAssumption
  <1>2. ASSUME q + 1 <= p PROVE FALSE
    <2>1. n * (q + 1) <= n * p
      BY <1>1, <1>2, Products
    <2>2. n * (q + 1) = n * q + n
      BY <1>1
    <2> HIDE DEF n, p, q
    <2> QED
      BY <1>1, <2>1, <2>2
  <1>3. p <= q
    BY <1>1, <1>2
  <1> QED
    BY <1>1, <1>3 DEF Minute

\* A slot is before a whole minute exactly when its minute is.
LEMMA MinuteOrder ==
    ASSUME NEW s \in Nat, NEW x \in Nat, x % SlotsPerMinute = 0
    PROVE  s < x <=> Minute(s) < Minute(x)
  <1> DEFINE n == SlotsPerMinute
             p == s \div n
             q == x \div n
  <1>1. /\ n \in Nat /\ n >= 1 /\ p \in Nat /\ q \in Nat /\ n * p \in Nat /\ n * q \in Nat
        /\ s = n * p + (s % n) /\ s % n \in 0 .. n - 1
        /\ x = n * q + (x % n) /\ x % n = 0
    BY Divides, MinuteAssumption
  <1>2. x = n * q
    <2> HIDE DEF n, p, q
    <2> QED
      BY <1>1
  <1>3. ASSUME p + 1 <= q PROVE s < x
    <2>1. n * (p + 1) <= n * q
      BY <1>1, <1>3, Products
    <2>2. n * (p + 1) = n * p + n
      BY <1>1
    <2> HIDE DEF n, p, q
    <2> QED
      BY <1>1, <1>2, <2>1, <2>2
  <1>4. ASSUME s < x, q <= p PROVE FALSE
    <2>1. n * q <= n * p
      BY <1>1, <1>4, Products
    <2> HIDE DEF n, p, q
    <2> QED
      BY <1>1, <1>2, <1>4, <2>1
  <1> QED
    BY <1>1, <1>3, <1>4 DEF Minute

\* The recursive function MapThenSumSet chooses.
IsSum(g, S) ==
    g = [s \in SUBSET S |->
           IF s = {} THEN 0
                     ELSE (CHOOSE x \in s : TRUE).count + g[s \ {CHOOSE x \in s : TRUE}]]

\* A sum is the value of such a function.
LEMMA SumIs ==
    ASSUME NEW S
    PROVE  MapThenSumSet(LAMBDA l : l.count, S) = (CHOOSE g : IsSum(g, S))[S]
  BY DEF MapThenSumSet, MapThenFoldSet, IsSum

\* The lines of a minute without lines add up to nothing,
LEMMA SumOfNone == MapThenSumSet(LAMBDA l : l.count, {}) = 0
  <1>1. IsSum([s \in SUBSET {} |-> 0], {})
    BY DEF IsSum
  <1>2. IsSum(CHOOSE g : IsSum(g, {}), {})
    BY <1>1
  <1> QED
    BY <1>2, SumIs DEF IsSum

\* and one line adds up to its count.
LEMMA SumOfOne ==
    ASSUME NEW x, x.count \in Nat
    PROVE  MapThenSumSet(LAMBDA l : l.count, {x}) = x.count
  <1> DEFINE f == [s \in SUBSET {x} |-> IF s = {} THEN 0 ELSE x.count]
  <1>1. /\ \A s \in SUBSET {x} : s = {} \/ s = {x}
        /\ (CHOOSE y \in {x} : TRUE) = x /\ {x} \ {x} = {}
    OBVIOUS
  <1>2. f[{}] = 0 /\ f[{x}] = x.count
    OBVIOUS
  <1>3. \A s \in SUBSET {x} :
           s # {} => (CHOOSE y \in s : TRUE).count + f[s \ {CHOOSE y \in s : TRUE}] = x.count
    <2> HIDE DEF f
    <2>1. x.count + f[{}] = x.count
      BY <1>2
    <2> QED
      BY <1>1, <2>1
  <1>4. IsSum(f, {x})
    BY <1>3 DEF IsSum
  <1> DEFINE g == CHOOSE h : IsSum(h, {x})
  <1>5. IsSum(g, {x})
    BY <1>4
  <1> HIDE DEF f, g
  <1>6. g[{}] = 0 /\ g[{x}] = x.count + g[{}]
    BY <1>1, <1>5 DEF IsSum
  <1>7. g[{x}] = x.count
    BY <1>6
  <1>8. MapThenSumSet(LAMBDA l : l.count, {x}) = g[{x}]
    BY SumIs DEF g
  <1> QED
    BY <1>7, <1>8

-----------------------------------------------------------------------------
(* The invariant. *)

\* The bounds are numbers.
LEMMA Bounds == MaxSlot \in Nat /\ MaxFaults \in Nat
  BY CollectorAssumption

\* What happens in a slot is a sequence of events.
LEMMA SlotType == \A r \in SlotRows : r \in Seq(LogEvents)
  BY CollectorAssumption

\* Every environment a collector starts with looks back by less than the bound.
LEMMA Starting ==
    ASSUME NEW env \in Envs, LoadConfig(env)
    PROVE  /\ env.lookback \in Nat \ {0} /\ env.lookback + SlotsPerMinute \in 0 .. MaxSlot
           /\ env.maxWindow \in Int
  <1>1. env \in Environments /\ env.collector
    BY CollectorAssumption
  <1>2. env.lookback \in Int /\ env.maxWindow \in Int
    BY <1>1 DEF Environments
  <1>3. env.lookback > 0
    BY <1>1 DEF LoadConfig, CollectorAccepted
  <1>4. env.lookback + SlotsPerMinute <= MaxSlot
    BY CollectorAssumption
  <1> QED
    BY <1>2, <1>3, <1>4, CollectorAssumption, MinuteAssumption

\* The environment in use was accepted.
Accepted == LoadConfig(config)

\* The first window of a process that starts.
LEMMA InitInv == Init => IInv /\ Accepted
  <1> SUFFICES ASSUME Init PROVE IInv /\ Accepted
    OBVIOUS
  <1>1. /\ config \in Envs /\ LoadConfig(config)
        /\ config.lookback \in Nat /\ clock = config.lookback + SlotsPerMinute
        /\ clock \in 0 .. MaxSlot /\ SlotsPerMinute \in Nat
    BY Starting, MinuteAssumption DEF Init
  <1>2. clock - config.lookback = SlotsPerMinute
    BY <1>1
  <1>3. lastWindowEnd = Truncate(SlotsPerMinute) /\ since = lastWindowEnd
    BY <1>2 DEF Init, FirstStart
  <1>4. lastWindowEnd \in 0 .. clock /\ lastWindowEnd % SlotsPerMinute = 0
    BY <1>1, <1>3, TruncateBelow
  <1>5. rows \in [0 .. clock - 1 -> Seq(LogEvents)]
    BY SlotType DEF Init
  <1>6. /\ truncated = 0 /\ warned = FALSE /\ faults = 0
        /\ polledAt = SlotsPerMinute /\ readTo = 0 /\ late = {} /\ leftAt = Down
    BY DEF Init
  <1>7. TypeOK
    <2>1. /\ polledAt \in 0 .. clock /\ readTo \in 0 .. clock
          /\ faults \in 0 .. MaxFaults /\ since \in 0 .. clock
      BY <1>1, <1>3, <1>4, <1>6, Bounds
    <2> QED
      BY <1>1, <1>4, <1>5, <1>6, <2>1 DEF TypeOK
  <1> QED
    BY <1>1, <1>3, <1>6, <1>7 DEF IInv, EdgeIsPolled, Accepted

\* A poll that moves the edge moves it to the last whole minute.
LEMMA Advances ==
    ASSUME clock \in Nat, Advance
    PROVE  /\ lastWindowEnd' = Truncate(clock) /\ polledAt' = clock
           /\ lastWindowEnd' \in 0 .. clock /\ lastWindowEnd' % SlotsPerMinute = 0
  BY TruncateBelow DEF Advance, WindowEnd

\* Every step keeps the types and the edge.
LEMMA NextInv == IInv /\ Accepted /\ [Next]_vars => IInv' /\ Accepted'
  <1> SUFFICES ASSUME IInv, Accepted, [Next]_vars PROVE IInv' /\ Accepted'
    OBVIOUS
  <1> USE Bounds DEF IInv, TypeOK, EdgeIsPolled, Accepted, history
  <1>1. CASE Tick
    <2>1. clock' \in 0 .. MaxSlot /\ 0 .. clock' - 1 = 0 .. clock
      BY <1>1 DEF Tick
    <2>2. rows' \in [0 .. clock' - 1 -> Seq(LogEvents)]
      BY <1>1, <2>1, SlotType DEF Tick
    <2> QED
      BY <1>1, <2>1, <2>2 DEF Tick
  <1>2. CASE Late
    <2>1. PICK s \in 0 .. clock - 1, k \in Keys, x \in Samples :
             /\ rows' = [rows EXCEPT ![s] = Append(@, [key |-> k, sample |-> x])]
             /\ late' = late \cup (IF s < readTo THEN {Minute(s)} ELSE {})
      BY <1>2 DEF Late
    <2>2. Append(rows[s], [key |-> k, sample |-> x]) \in Seq(LogEvents)
      <3>1. [key |-> k, sample |-> x] \in LogEvents
        BY DEF LogEvents
      <3> QED
        BY <3>1
    <2>3. rows' \in [0 .. clock - 1 -> Seq(LogEvents)]
      BY <2>1, <2>2
    <2>4. Minute(s) \in Nat
      <3>1. s \in Nat
        OBVIOUS
      <3> QED
        BY <3>1, Divides DEF Minute
    <2>5. late' \subseteq Nat
      BY <2>1, <2>4
    <2>6. /\ faults' \in 0 .. MaxFaults
          /\ UNCHANGED <<clock, config, lastWindowEnd, since, leftAt, truncated, warned, polledAt, readTo>>
      BY <1>2 DEF Late
    <2> QED
      BY <2>3, <2>5, <2>6
  <1>3. CASE Poll
    <2>1. warned' \in BOOLEAN /\ truncated' \in Nat
      BY <1>3 DEF Poll, Warns, Capped
    <2>2. UNCHANGED <<clock, rows, config, since, leftAt, late, faults>>
      BY <1>3 DEF Poll
    <2>3. CASE UNCHANGED <<lastWindowEnd, polledAt, readTo>>
      BY <2>1, <2>2, <2>3
    <2>4. CASE Advance /\ readTo' = WindowEnd
      <3>1. /\ lastWindowEnd' = Truncate(clock) /\ polledAt' = clock
            /\ lastWindowEnd' \in 0 .. clock /\ lastWindowEnd' % SlotsPerMinute = 0
        BY <2>4, Advances
      <3>2. readTo' \in 0 .. clock
        BY <2>4, <3>1 DEF WindowEnd
      <3> QED
        BY <2>1, <2>2, <3>1, <3>2
    <2> QED
      BY <1>3, <2>3, <2>4 DEF Poll
  <1>4. CASE PollFails
    <2>1. readTo' \in 0 .. clock /\ faults' \in 0 .. MaxFaults /\ warned' \in BOOLEAN
      BY <1>4, TruncateBelow DEF PollFails, WindowEnd, Warns
    <2> QED
      BY <1>4, <2>1 DEF PollFails
  <1>5. CASE Crash
    <2>1. /\ lastWindowEnd' = Down /\ truncated' = 0 /\ warned' = FALSE
          /\ faults' = faults + 1 /\ faults < MaxFaults
          /\ UNCHANGED <<clock, rows, config, since, polledAt, readTo, late>>
      BY <1>5 DEF Crash
    <2>2. faults' \in 0 .. MaxFaults
      BY <2>1
    <2>3. leftAt' \in {Down} \cup 0 .. clock
      BY <1>5 DEF Crash
    <2> QED
      BY <2>1, <2>2, <2>3
  <1>6. CASE Start
    <2>1. /\ config' \in Envs /\ LoadConfig(config')
          /\ config'.lookback \in Nat /\ config'.lookback <= clock
      BY <1>6, Starting DEF Start
    <2> DEFINE from == clock - config'.lookback
    <2>2. from \in 0 .. clock /\ polledAt' = from
      BY <1>6, <2>1 DEF Start
    <2>3. lastWindowEnd' = Truncate(from) /\ leftAt' = Down
      BY <1>6 DEF Start, FirstStart
    <2>4. lastWindowEnd' \in 0 .. clock /\ lastWindowEnd' % SlotsPerMinute = 0
      BY <2>2, <2>3, TruncateBelow
    <2>5. UNCHANGED <<clock, rows, truncated, warned, readTo, late, faults>>
      BY <1>6 DEF Start
    <2>6. LoadConfig(config)'
      BY <2>1
    <2>7. since' \in 0 .. clock
      <3>1. since' \in {since, lastWindowEnd'}
        BY <1>6 DEF Start, Smaller
      <3> QED
        BY <2>2, <2>4, <3>1
    <2> HIDE DEF from
    <2> QED
      BY <2>1, <2>2, <2>3, <2>4, <2>5, <2>6, <2>7
  <1>7. CASE UNCHANGED vars
    BY <1>7 DEF vars
  <1> QED
    BY <1>1, <1>2, <1>3, <1>4, <1>5, <1>6, <1>7 DEF Next

\* The invariant holds throughout.
LEMMA Inductive == Spec => [](IInv /\ Accepted)
  BY InitInv, NextInv, PTL DEF Spec

\* Every variable holds a value of its kind, whatever fails and whoever edits
\* the environment: the edges are whole minutes in the past.
THEOREM TypeCorrect == Spec => []TypeOK
  BY Inductive, PTL DEF IInv

\* pollOnce's cap never gives up a minute while the last successful poll is no
\* longer ago than CLOUDFLARE_FIREWALL_MAX_WINDOW: cutting the capped start down
\* to a whole minute is enough for every phase of the polls and every cap.
THEOREM OnTime == Spec => []OnTimeKeepsAll
  <1>1. IInv /\ Accepted => OnTimeKeepsAll
    <2> SUFFICES ASSUME IInv, Accepted, lastWindowEnd # Down,
                        clock - polledAt <= config.maxWindow
                 PROVE  WindowStart <= lastWindowEnd
      BY DEF OnTimeKeepsAll
    <2>1. /\ clock \in Nat /\ polledAt \in Nat /\ lastWindowEnd \in Nat
          /\ config.maxWindow \in Int /\ lastWindowEnd = Truncate(polledAt)
      BY Starting DEF IInv, TypeOK, EdgeIsPolled, Accepted
    <2>2. CASE ~Capped
      BY <2>1, <2>2 DEF WindowStart
    <2>3. CASE Capped
      <3>1. WindowEnd \in 0 .. clock
        BY <2>1, TruncateBelow DEF WindowEnd
      <3>2. /\ WindowEnd - config.maxWindow \in Nat
            /\ WindowEnd - config.maxWindow <= polledAt
        BY <2>1, <2>3, <3>1 DEF Capped
      <3>3. Truncate(WindowEnd - config.maxWindow) <= Truncate(polledAt)
        BY <2>1, <3>2, TruncateMonotone
      <3> QED
        BY <2>1, <2>3, <3>3 DEF WindowStart
    <2> QED
      BY <2>2, <2>3
  <1> QED
    BY <1>1, Inductive, PTL

-----------------------------------------------------------------------------
(* What one poll reads. *)

\* The events of a window, one by one.
LEMMA EventIs ==
    ASSUME NEW a, NEW b, NEW e
    PROVE  e \in Events(a, b) <=> \E s \in a .. b - 1 : \E i \in 1 .. Len(rows[s]) : e = <<s, i>>
  BY DEF Events

\* The image of a finite set is finite.
LEMMA ImageFinite ==
    ASSUME NEW S, IsFiniteSet(S), NEW f, f = [x \in S |-> f[x]]
    PROVE  IsFiniteSet({f[x] : x \in S})
  <1> DEFINE T == {f[x] : x \in S}
  <1>1. f \in Surjection(S, T)
    <2>1. f \in [S -> T]
      OBVIOUS
    <2>2. \A t \in T : \E x \in S : f[x] = t
      OBVIOUS
    <2> QED
      BY <2>1, <2>2 DEF Surjection
  <1> QED
    BY <1>1, FS_Surjection

\* A window in the past has finitely many events, and their places are numbers.
LEMMA EventsFinite ==
    ASSUME TypeOK, NEW a \in Nat, NEW b \in 0 .. clock
    PROVE  /\ IsFiniteSet(Events(a, b)) /\ Events(a, b) \subseteq Events(0, clock)
           /\ \A e \in Events(a, b) : e[1] \in Nat /\ e[2] \in Nat
  <1> DEFINE D == a .. b - 1
             f == [s \in D |-> {s} \X (1 .. Len(rows[s]))]
  <1>1. clock \in Nat /\ rows \in [0 .. clock - 1 -> Seq(LogEvents)]
    BY DEF TypeOK
  <1>2. D \subseteq 0 .. clock - 1
    BY <1>1
  <1>3. \A s \in D : Len(rows[s]) \in Nat
    BY <1>1, <1>2
  <1>4. IsFiniteSet(D)
    BY <1>1, FS_Interval
  <1>5. ASSUME NEW s \in D PROVE IsFiniteSet(f[s])
    <2>1. IsFiniteSet({s})
      BY FS_Singleton
    <2>2. IsFiniteSet(1 .. Len(rows[s]))
      <3>1. 1 \in Int /\ Len(rows[s]) \in Int
        BY <1>3
      <3> QED
        BY <3>1, FS_Interval
    <2>3. IsFiniteSet({s} \X (1 .. Len(rows[s])))
      BY <2>1, <2>2, FS_Product
    <2> QED
      BY <2>3
  <1>6. Events(a, b) = UNION {f[s] : s \in D}
    BY DEF Events
  <1>7. IsFiniteSet({f[s] : s \in D})
    <2>1. f = [s \in D |-> f[s]]
      OBVIOUS
    <2> HIDE DEF f, D
    <2> QED
      BY <1>4, <2>1, ImageFinite
  <1>8. IsFiniteSet(Events(a, b))
    <2> HIDE DEF f
    <2>1. \A T \in {f[s] : s \in D} : IsFiniteSet(T)
      BY <1>5
    <2> QED
      BY <1>6, <1>7, <2>1, FS_UNION
  <1>9. Events(a, b) \subseteq Events(0, clock)
    BY <1>2, EventIs
  <1>10. ASSUME NEW e \in Events(a, b) PROVE e[1] \in Nat /\ e[2] \in Nat
    <2>1. PICK s \in D : \E i \in 1 .. Len(rows[s]) : e = <<s, i>>
      BY EventIs
    <2>2. PICK i \in 1 .. Len(rows[s]) : e = <<s, i>>
      BY <2>1
    <2> QED
      BY <1>3, <2>2
  <1> QED
    BY <1>8, <1>9, <1>10

\* An answer is a part of the events, and all of them when it is shorter than
\* the limit or the limit has room for them.
LEMMA OldestIs ==
    ASSUME NEW E, IsFiniteSet(E), config.rows \in Nat, NEW f \in Oldest(E)
    PROVE  /\ f \subseteq E /\ IsFiniteSet(f)
           /\ Cardinality(f) < config.rows \/ Cardinality(E) <= config.rows => f = E
  <1>1. f \in SUBSET E /\ Cardinality(f) = Smaller(config.rows, Cardinality(E))
    BY DEF Oldest, kSubset
  <1>2. Cardinality(E) \in Nat
    BY FS_CardinalityType
  <1>3. Cardinality(f) < config.rows \/ Cardinality(E) <= config.rows => Cardinality(f) = Cardinality(E)
    BY <1>1, <1>2 DEF Smaller
  <1> QED
    BY <1>1, <1>3, FS_Subset

\* What can be said of a window: its edges are whole minutes of the past.
Window(start, end) ==
    /\ start \in Nat /\ end \in 0 .. clock
    /\ start % SlotsPerMinute = 0 /\ end % SlotsPerMinute = 0

\* It was read to its end: the answer was not full, or no limit could cut it.
ReadWhole(start, end, fetched) ==
    \/ Cardinality(fetched) < config.rows
    \/ Cardinality(Events(start, end)) <= config.rows

\* The row limit of an accepted environment is a number.
LEMMA RowLimit == TypeOK /\ Accepted => config.rows \in Nat
  <1> SUFFICES ASSUME TypeOK, Accepted PROVE config.rows \in Nat
    OBVIOUS
  <1>1. config.collector /\ LoadConfig(config)
    BY CollectorAssumption DEF TypeOK, Accepted
  <1>2. config.rows >= 1
    BY <1>1 DEF LoadConfig, CollectorAccepted
  <1>3. config.rows \in Int
    BY CollectorAssumption DEF TypeOK, Environments
  <1> QED
    BY <1>2, <1>3

\* What is fetched is part of the window; when it was read to its end it has
\* every block event of it, wherever they were filtered.
LEMMA FetchedAll ==
    ASSUME TypeOK, Accepted, NEW start, NEW end, Window(start, end), NEW sf \in BOOLEAN,
           NEW f \in Fetched(start, end, sf)
    PROVE  /\ IsFiniteSet(f) /\ Blocked(f) \subseteq Blocked(Events(start, end))
           /\ ReadWhole(start, end, f) => Blocked(f) = Blocked(Events(start, end))
  <1> DEFINE W == Events(start, end)
             E == IF sf THEN Blocked(W) ELSE W
  <1>1. IsFiniteSet(W)
    BY EventsFinite DEF Window
  <1>2. E \subseteq W /\ Blocked(E) = Blocked(W)
    BY DEF Blocked
  <1>3. f \in Oldest(E)
    BY DEF Fetched
  <1> HIDE DEF E
  <1>4. IsFiniteSet(E) /\ Cardinality(E) <= Cardinality(W)
    BY <1>1, <1>2, FS_Subset
  <1>5. Cardinality(E) \in Nat /\ Cardinality(W) \in Nat /\ config.rows \in Nat
    BY <1>1, <1>4, FS_CardinalityType, RowLimit
  <1>6. f \subseteq E /\ IsFiniteSet(f)
    BY <1>3, <1>4, <1>5, OldestIs
  <1>7. Blocked(f) \subseteq Blocked(W)
    BY <1>2, <1>6 DEF Blocked
  <1>8. ASSUME ReadWhole(start, end, f) PROVE Blocked(f) = Blocked(W)
    <2>1. Cardinality(f) < config.rows \/ Cardinality(E) <= config.rows
      BY <1>4, <1>5, <1>8 DEF ReadWhole
    <2> QED
      BY <1>2, <1>3, <1>4, <1>5, <2>1, OldestIs
  <1> QED
    BY <1>6, <1>7, <1>8

\* A window has all of the minutes it has any of, so it counts in one of its
\* minutes what the minute has, and sees the same first events.
LEMMA WholeMinutes ==
    ASSUME TypeOK, NEW start, NEW end, Window(start, end), NEW k \in Keys,
           NEW m \in Minute(start) .. Minute(end) - 1
    PROVE  /\ Count(Blocked(Events(start, end)), m, k) = Total(m, k)
           /\ Firsts(Blocked(Events(start, end)), m, k) = Shown(m, k)
  <1>1. start \in Nat /\ end \in Nat /\ clock \in Nat /\ end <= clock /\ k # 0
    BY CollectorAssumption DEF Window, TypeOK
  <1>2. Minute(start) \in Nat /\ Minute(end) \in Nat /\ m \in Nat
    BY <1>1, MinuteMonotone
  <1>3. ASSUME NEW e \in Events(0, clock), Minute(Slot(e)) = m, Key(e) = k
        PROVE  e \in Blocked(Events(start, end))
    <2>1. PICK s \in 0 .. clock - 1 : \E i \in 1 .. Len(rows[s]) : e = <<s, i>>
      BY EventIs
    <2>2. s \in Nat /\ Minute(s) = m
      BY <1>3, <2>1 DEF Slot
    <2>3. Minute(s) < Minute(end) /\ ~(Minute(s) < Minute(start))
      BY <1>2, <2>2
    <2>4. s < end /\ ~(s < start)
      BY <1>1, <2>2, <2>3, MinuteOrder DEF Window
    <2>5. s \in start .. end - 1
      BY <1>1, <2>2, <2>4
    <2>6. e \in Events(start, end)
      BY <2>1, <2>5, EventIs
    <2> QED
      BY <1>1, <1>3, <2>6 DEF Blocked
  <1>4. Blocked(Events(start, end)) \subseteq Events(0, clock)
    BY <1>1, EventsFinite DEF Blocked, Window
  <1>5. Members(Blocked(Events(start, end)), m, k) = Members(Events(0, clock), m, k)
    BY <1>3, <1>4 DEF Members
  <1> QED
    BY <1>5 DEF Count, Total, Firsts, Shown

\* A block event of the window: its minute is one of the window's.
LEMMA BlockIs ==
    ASSUME TypeOK, NEW start, NEW end, Window(start, end), NEW e \in Blocked(Events(start, end))
    PROVE  Minute(Slot(e)) \in Minute(start) .. Minute(end) - 1 /\ Key(e) \in Keys
  <1>1. /\ start \in Nat /\ end \in Nat /\ clock \in Nat /\ end <= clock
        /\ rows \in [0 .. clock - 1 -> Seq(LogEvents)]
    BY DEF Window, TypeOK
  <1>2. e \in Events(start, end) /\ Key(e) # 0
    BY DEF Blocked
  <1>3. PICK s \in start .. end - 1 : \E i \in 1 .. Len(rows[s]) : e = <<s, i>>
    BY <1>2, EventIs
  <1>4. PICK i \in 1 .. Len(rows[s]) : e = <<s, i>>
    BY <1>3
  <1>5. s \in Nat /\ s < end /\ start <= s /\ s \in 0 .. clock - 1
    BY <1>1
  <1>6. rows[s] \in Seq(LogEvents)
    BY <1>1, <1>5
  <1>7. rows[s][i].key \in Keys \cup {0}
    <2>1. rows[s][i] \in LogEvents
      BY <1>6
    <2> QED
      BY <2>1 DEF LogEvents
  <1>8. Key(e) \in Keys
    BY <1>2, <1>4, <1>7 DEF Key
  <1>9. Minute(s) < Minute(end) /\ Minute(start) <= Minute(s)
        /\ Minute(s) \in Nat /\ Minute(start) \in Nat /\ Minute(end) \in Nat
    BY <1>1, <1>5, MinuteOrder, MinuteMonotone DEF Window
  <1> QED
    BY <1>4, <1>8, <1>9 DEF Slot

\* A line as pushToLoki writes it.
Line(l) == l = [minute |-> l.minute, key |-> l.key, sample |-> l.sample, count |-> l.count]

\* A group is of a minute and key that some event has, with a sample of theirs.
LEMMA GroupIs ==
    ASSUME NEW E, NEW groups \in aggregateFirewallEvents(E), NEW g \in groups
    PROVE  \E e \in E : \E x \in Firsts(E, Minute(Slot(e)), Key(e)) :
              g = Group(E, Minute(Slot(e)), Key(e), x)
  <1> DEFINE places == {<<Minute(Slot(e)), Key(e)>> : e \in E}
  <1>1. PICK shown \in {f \in [places -> Samples] : \A p \in places : f[p] \in Firsts(E, p[1], p[2])} :
           groups = {Group(E, p[1], p[2], shown[p]) : p \in places}
    BY DEF aggregateFirewallEvents
  <1>2. PICK p \in places : g = Group(E, p[1], p[2], shown[p])
    BY <1>1
  <1>3. PICK e \in E : p = <<Minute(Slot(e)), Key(e)>>
    BY <1>2
  <1>4. p[1] = Minute(Slot(e)) /\ p[2] = Key(e)
    BY <1>3
  <1>5. shown[p] \in Firsts(E, p[1], p[2])
    BY <1>1
  <1> HIDE DEF places
  <1> QED
    BY <1>2, <1>4, <1>5

\* And every event has its group.
LEMMA HasGroup ==
    ASSUME NEW E, NEW groups \in aggregateFirewallEvents(E), NEW e \in E
    PROVE  \E x \in Firsts(E, Minute(Slot(e)), Key(e)) : Group(E, Minute(Slot(e)), Key(e), x) \in groups
  <1> DEFINE places == {<<Minute(Slot(d)), Key(d)>> : d \in E}
             p == <<Minute(Slot(e)), Key(e)>>
  <1>1. PICK shown \in {f \in [places -> Samples] : \A q \in places : f[q] \in Firsts(E, q[1], q[2])} :
           groups = {Group(E, q[1], q[2], shown[q]) : q \in places}
    BY DEF aggregateFirewallEvents
  <1>2. p \in places /\ p[1] = Minute(Slot(e)) /\ p[2] = Key(e)
    OBVIOUS
  <1> HIDE DEF places, p
  <1>3. Group(E, p[1], p[2], shown[p]) \in groups /\ shown[p] \in Firsts(E, p[1], p[2])
    BY <1>1, <1>2
  <1> QED
    BY <1>2, <1>3

\* The groups are finitely many, so a batch within its limit has all of them.
LEMMA GroupsFinite ==
    ASSUME NEW E, IsFiniteSet(E), NEW groups \in aggregateFirewallEvents(E)
    PROVE  IsFiniteSet(groups)
  <1> DEFINE places == {<<Minute(Slot(e)), Key(e)>> : e \in E}
             place == [e \in E |-> <<Minute(Slot(e)), Key(e)>>]
  <1>1. PICK shown \in {f \in [places -> Samples] : \A p \in places : f[p] \in Firsts(E, p[1], p[2])} :
           groups = {Group(E, p[1], p[2], shown[p]) : p \in places}
    BY DEF aggregateFirewallEvents
  <1>2. IsFiniteSet(places)
    <2>1. place = [e \in E |-> place[e]] /\ places = {place[e] : e \in E}
      OBVIOUS
    <2> HIDE DEF place, places
    <2> QED
      BY <2>1, ImageFinite
  <1> HIDE DEF places
  <1> DEFINE group == [p \in places |-> Group(E, p[1], p[2], shown[p])]
  <1>3. group = [p \in places |-> group[p]] /\ groups = {group[p] : p \in places}
    BY <1>1
  <1> HIDE DEF group
  <1> QED
    BY <1>2, <1>3, ImageFinite

\* The groups are lines of the window's minutes.
LEMMA GroupsRead ==
    ASSUME TypeOK, Accepted, NEW start, NEW end, Window(start, end), NEW sf \in BOOLEAN,
           NEW f \in Fetched(start, end, sf),
           NEW groups \in aggregateFirewallEvents(Blocked(f)), NEW g \in groups
    PROVE  /\ Line(g) /\ g.key \in Keys /\ g.minute \in Minute(start) .. Minute(end) - 1
           /\ g.count = Count(Blocked(f), g.minute, g.key)
           /\ g.sample \in Firsts(Blocked(f), g.minute, g.key)
  <1> DEFINE F == Blocked(f)
  <1>1. PICK e \in F : \E x \in Firsts(F, Minute(Slot(e)), Key(e)) : g = Group(F, Minute(Slot(e)), Key(e), x)
    BY GroupIs
  <1>2. PICK x \in Firsts(F, Minute(Slot(e)), Key(e)) : g = Group(F, Minute(Slot(e)), Key(e), x)
    BY <1>1
  <1>3. e \in Blocked(Events(start, end))
    BY FetchedAll
  <1>4. Minute(Slot(e)) \in Minute(start) .. Minute(end) - 1 /\ Key(e) \in Keys
    BY <1>3, BlockIs
  <1> HIDE DEF F
  <1>5. /\ g.minute = Minute(Slot(e)) /\ g.key = Key(e) /\ g.sample = x
        /\ Line(g) /\ g.count = Count(F, g.minute, g.key)
    BY <1>2 DEF Group, Line
  <1> QED
    BY <1>2, <1>4, <1>5 DEF F

\* A window that was read to its end has exact counts and shows first events.
LEMMA GroupsExact ==
    ASSUME TypeOK, Accepted, NEW start, NEW end, Window(start, end), NEW sf \in BOOLEAN,
           NEW f \in Fetched(start, end, sf), ReadWhole(start, end, f),
           NEW groups \in aggregateFirewallEvents(Blocked(f)), NEW g \in groups
    PROVE  g.count = Total(g.minute, g.key) /\ g.sample \in Shown(g.minute, g.key)
  <1>1. Blocked(f) = Blocked(Events(start, end))
    BY FetchedAll
  <1>2. /\ g.key \in Keys /\ g.minute \in Minute(start) .. Minute(end) - 1
        /\ g.count = Count(Blocked(f), g.minute, g.key)
        /\ g.sample \in Firsts(Blocked(f), g.minute, g.key)
    BY GroupsRead
  <1> QED
    BY <1>1, <1>2, WholeMinutes

\* And a line for every key that was blocked in any of its minutes.
LEMMA GroupsComplete ==
    ASSUME TypeOK, Accepted, NEW start, NEW end, Window(start, end), NEW sf \in BOOLEAN,
           NEW f \in Fetched(start, end, sf), ReadWhole(start, end, f),
           NEW groups \in aggregateFirewallEvents(Blocked(f)),
           NEW k \in Keys, NEW m \in Minute(start) .. Minute(end) - 1, Total(m, k) > 0
    PROVE  \E x \in Shown(m, k) :
              [minute |-> m, key |-> k, sample |-> x, count |-> Total(m, k)] \in groups
  <1> DEFINE F == Blocked(f)
  <1>1. F = Blocked(Events(start, end))
    BY FetchedAll
  <1>2. Count(F, m, k) = Total(m, k) /\ Firsts(F, m, k) = Shown(m, k)
    BY <1>1, WholeMinutes
  <1> HIDE DEF F
  <1>3. Members(F, m, k) # {}
    BY <1>2, FS_EmptySet DEF Count
  <1>4. PICK e \in F : Minute(Slot(e)) = m /\ Key(e) = k
    BY <1>3 DEF Members
  <1>5. groups \in aggregateFirewallEvents(F)
    BY DEF F
  <1>6. PICK x \in Firsts(F, m, k) : Group(F, m, k, x) \in groups
    BY <1>4, <1>5, HasGroup
  <1> QED
    BY <1>2, <1>6 DEF Group

\* What a poll makes of its window.
LEMMA ReadingIs ==
    ASSUME NEW reading \in Readings
    PROVE  \E sf \in BOOLEAN : \E f \in Fetched(WindowStart, WindowEnd, sf) :
              \E groups \in aggregateFirewallEvents(Blocked(f)) :
                 reading.rows = Cardinality(f) /\ reading.groups = groups
  <1>1. PICK f \in UNION {Fetched(WindowStart, WindowEnd, b) : b \in BOOLEAN} :
           reading \in {[rows |-> Cardinality(f), groups |-> groups] :
                           groups \in aggregateFirewallEvents(Blocked(f))}
    BY DEF Readings
  <1>2. PICK sf \in BOOLEAN : f \in Fetched(WindowStart, WindowEnd, sf)
    BY <1>1
  <1>3. PICK groups \in aggregateFirewallEvents(Blocked(f)) :
           reading = [rows |-> Cardinality(f), groups |-> groups]
    BY <1>1
  <1> QED
    BY <1>2, <1>3

\* pushToLoki sends nothing but groups,
LEMMA BatchIn ==
    ASSUME NEW groups, NEW batch \in Batches(groups)
    PROVE  batch \subseteq groups
  BY DEF Batches, kSubset

\* and all of them if the batch limit allows it.
LEMMA WholeBatch ==
    ASSUME NEW groups, IsFiniteSet(groups), ~(Cardinality(groups) > BatchLimit),
           NEW batch \in Batches(groups)
    PROVE  batch = groups
  <1>1. Cardinality(groups) \in Nat /\ BatchLimit \in Nat
    BY FS_CardinalityType, CollectorAssumption
  <1>2. Smaller(BatchLimit, Cardinality(groups)) = Cardinality(groups)
    BY <1>1 DEF Smaller
  <1>3. batch \in SUBSET groups /\ Cardinality(batch) = Cardinality(groups)
    BY <1>2 DEF Batches, kSubset
  <1> QED
    BY <1>3, FS_Subset

-----------------------------------------------------------------------------
(* What Loki holds. *)

\* No minute behind the edge is unread: a stretch starts at its edge, and from
\* then on the edge follows what was read.
EdgesOrdered ==
    /\ readTo % SlotsPerMinute = 0
    /\ Edge # Down => since <= Edge /\ (since < Edge => Edge <= readTo)

\* Loki's lines are of minutes that were read.
LinesRead ==
    \A l \in loki : Line(l) /\ l.minute \in 0 .. Minute(readTo) - 1 /\ l.key \in Keys

\* As long as no limit cuts a window, every line has the count of its minute and
\* one of its first events, now as when it was read, unless the minute got an
\* event since.
Exact(l) == l.count = Total(l.minute, l.key) /\ l.sample \in Shown(l.minute, l.key)
LinesExact == WindowsFit => \A l \in loki : l.minute \in late \/ Exact(l)

LogInv == EdgesOrdered /\ LinesRead /\ LinesExact /\ CompleteUnlessSaid

\* The events after a step.
LEMMA EventIsNext ==
    ASSUME NEW e
    PROVE  e \in Events(0, clock)'
              <=> \E s \in 0 .. clock' - 1 : \E i \in 1 .. Len(rows'[s]) : e = <<s, i>>
  BY DEF Events

\* There are finitely many events.
LEMMA AllFinite == TypeOK => IsFiniteSet(Events(0, clock))
  <1>1. TypeOK => 0 \in Nat /\ clock \in 0 .. clock
    BY DEF TypeOK
  <1> QED
    BY <1>1, EventsFinite

\* So there are in every window.
LEMMA WindowsFinite == TypeOK => \A a, b \in 0 .. clock : IsFiniteSet(Events(a, b))
  <1> SUFFICES ASSUME TypeOK, NEW a \in 0 .. clock, NEW b \in 0 .. clock
               PROVE  IsFiniteSet(Events(a, b))
    OBVIOUS
  <1>1. a \in Nat
    BY DEF TypeOK
  <1> QED
    BY <1>1, EventsFinite

\* The same after a step.
LEMMA WindowsFiniteNext == TypeOK' => (\A a, b \in 0 .. clock : IsFiniteSet(Events(a, b)))'
  BY WindowsFinite, PTL

\* A minute's total and its first events depend on its own slots only.
LEMMA TotalKept ==
    ASSUME TypeOK, 0 .. clock - 1 \subseteq 0 .. clock' - 1, NEW m, NEW k,
           \A s \in 0 .. clock' - 1 : Minute(s) = m => s < clock /\ rows'[s] = rows[s]
    PROVE  Total(m, k)' = Total(m, k) /\ Shown(m, k)' = Shown(m, k)
  <1> DEFINE Here == Members(Events(0, clock), m, k)
  <1>1. clock \in Nat
    BY DEF TypeOK
  <1>2. ASSUME NEW e, e \in Here PROVE e \in Here'
    <2>1. PICK s \in 0 .. clock - 1 : \E i \in 1 .. Len(rows[s]) : e = <<s, i>>
      BY <1>2, EventIs DEF Members
    <2>2. PICK i \in 1 .. Len(rows[s]) : e = <<s, i>>
      BY <2>1
    <2>3. s \in 0 .. clock' - 1
      OBVIOUS
    <2>4. Minute(s) = m
      BY <1>2, <2>2 DEF Slot, Members
    <2>5. rows'[s] = rows[s]
      BY <2>3, <2>4
    <2>6. e \in Events(0, clock)'
      BY <2>2, <2>3, <2>5, EventIsNext
    <2> QED
      BY <1>2, <2>2, <2>5, <2>6 DEF Key, Slot, Minute, Members
  <1>3. ASSUME NEW e, e \in Here' PROVE e \in Here
    <2>1. PICK s \in 0 .. clock' - 1 : \E i \in 1 .. Len(rows'[s]) : e = <<s, i>>
      BY <1>3, EventIsNext DEF Members
    <2>2. PICK i \in 1 .. Len(rows'[s]) : e = <<s, i>>
      BY <2>1
    <2>3. Minute(s) = m
      BY <1>3, <2>2 DEF Slot, Minute, Members
    <2>4. s < clock /\ rows'[s] = rows[s]
      BY <2>3
    <2>5. s \in 0 .. clock - 1
      BY <1>1, <2>4
    <2>6. e \in Events(0, clock)
      BY <2>2, <2>4, <2>5, EventIs
    <2> QED
      BY <1>3, <2>2, <2>4, <2>6 DEF Key, Slot, Minute, Members
  <1>4. Here = Here'
    <2> HIDE DEF Here
    <2> QED
      BY <1>2, <1>3
  <1>5. ASSUME NEW e \in Here PROVE Sample(e)' = Sample(e)
    <2>1. PICK s \in 0 .. clock - 1 : \E i \in 1 .. Len(rows[s]) : e = <<s, i>>
      BY <1>5, EventIs DEF Members
    <2>2. PICK i \in 1 .. Len(rows[s]) : e = <<s, i>>
      BY <2>1
    <2>3. s \in 0 .. clock' - 1
      OBVIOUS
    <2>4. Minute(s) = m
      BY <1>5, <2>2 DEF Slot, Members
    <2>5. rows'[s] = rows[s]
      BY <2>3, <2>4
    <2> QED
      BY <2>2, <2>5 DEF Sample
  <1> DEFINE first == {e \in Here : \A d \in Here : Slot(e) <= Slot(d)}
  <1>6. Shown(m, k) = {Sample(e) : e \in first}
    BY DEF Shown, Firsts
  <1>7. Shown(m, k)' = {Sample(e)' : e \in first}
    <2> HIDE DEF Here
    <2>1. Shown(m, k)' = {Sample(e)' : e \in {d \in Here' : \A c \in Here' : Slot(d) <= Slot(c)}}
      BY DEF Shown, Firsts, Slot, Here
    <2> QED
      BY <1>4, <2>1
  <1>8. \A e \in first : Sample(e)' = Sample(e)
    BY <1>5
  <1>9. Shown(m, k)' = Shown(m, k)
    <2> HIDE DEF first
    <2> QED
      BY <1>6, <1>7, <1>8
  <1> QED
    BY <1>4, <1>9 DEF Total, Count

\* A step that leaves the rows alone leaves the totals alone.
LEMMA TotalSame ==
    ASSUME rows' = rows, clock' = clock, NEW m, NEW k
    PROVE  Total(m, k)' = Total(m, k) /\ Shown(m, k)' = Shown(m, k)
  BY DEF Total, Shown, Count, Firsts, Members, Events, Slot, Key, Sample, Minute

\* Rows are only ever added, so what fits the limits fitted them before.
LEMMA FitsBefore ==
    ASSUME TypeOK, TypeOK', clock <= clock', 0 .. clock - 1 \subseteq 0 .. clock' - 1,
           \A s \in 0 .. clock - 1 : Len(rows[s]) <= Len(rows'[s]),
           WindowsFit'
    PROVE  WindowsFit
  <1>1. \A s \in 0 .. clock - 1 : Len(rows[s]) \in Nat
    BY DEF TypeOK
  <1>2. ASSUME NEW s \in 0 .. clock - 1 PROVE Len(rows'[s]) \in Nat
    <2>1. rows' \in [0 .. clock' - 1 -> Seq(LogEvents)] /\ s \in 0 .. clock' - 1
      BY DEF TypeOK
    <2>2. rows'[s] \in Seq(LogEvents)
      BY <2>1
    <2> QED
      BY <2>2
  <1> SUFFICES ASSUME NEW env \in {e \in Envs : LoadConfig(e)}, NEW a \in 0 .. clock, NEW b \in 0 .. clock,
                      b - a < env.maxWindow + SlotsPerMinute
               PROVE  Cardinality(Events(a, b)) <= env.rows
    BY DEF WindowsFit
  <1> DEFINE later == UNION {{s} \X (1 .. Len(rows'[s])) : s \in a .. b - 1}
  <1>0. /\ clock \in Nat /\ clock' \in Nat /\ a \in Nat
        /\ a .. b - 1 \subseteq 0 .. clock - 1
    BY DEF TypeOK
  <1>3. Events(a, b) \subseteq later
    <2> SUFFICES ASSUME NEW e \in Events(a, b) PROVE e \in later
      OBVIOUS
    <2>1. PICK s \in a .. b - 1 : \E i \in 1 .. Len(rows[s]) : e = <<s, i>>
      BY EventIs
    <2>2. PICK i \in 1 .. Len(rows[s]) : e = <<s, i>>
      BY <2>1
    <2>3. s \in 0 .. clock - 1
      BY <1>0
    <2>4. i \in 1 .. Len(rows'[s])
      BY <1>1, <1>2, <2>3
    <2> QED
      BY <2>2, <2>4
  <1>4. a \in 0 .. clock' /\ b \in 0 .. clock' /\ IsFiniteSet(later)
    <2>1. a \in 0 .. clock' /\ b \in 0 .. clock'
      BY <1>0
    <2> QED
      BY <2>1, WindowsFiniteNext DEF Events
  <1>5. Cardinality(later) <= env.rows
    BY <1>4 DEF WindowsFit, Events
  <1>6. /\ Cardinality(Events(a, b)) <= Cardinality(later)
        /\ Cardinality(Events(a, b)) \in Nat /\ Cardinality(later) \in Nat
    BY <1>3, <1>4, FS_Subset, FS_CardinalityType
  <1>7. env.rows \in Int
    BY CollectorAssumption DEF Environments
  <1> QED
    BY <1>5, <1>6, <1>7

\* A minute that was read and has got nothing since keeps its totals and its
\* first events.
TotalsKept ==
    \A m \in 0 .. Minute(readTo) - 1, k \in Keys :
        m \in late' \/ (Total(m, k)' = Total(m, k) /\ Shown(m, k)' = Shown(m, k))

\* Then the lines stay right.
LEMMA LinesKept ==
    ASSUME LogInv, loki' = loki, readTo' = readTo, late \subseteq late', WindowsFit' => WindowsFit, TotalsKept
    PROVE  LinesRead' /\ LinesExact'
  <1>1. LinesRead'
    BY DEF LogInv, LinesRead, Line
  <1>2. ASSUME WindowsFit', NEW l \in loki PROVE l.minute \in late' \/ Exact(l)'
    <2>1. l.minute \in 0 .. Minute(readTo) - 1 /\ l.key \in Keys
      BY DEF LogInv, LinesRead
    <2>2. l.minute \in late \/ Exact(l)
      BY <1>2 DEF LogInv, LinesExact
    <2>3. CASE l.minute \in late'
      BY <2>3
    <2>4. CASE l.minute \notin late'
      <3>1. /\ Total(l.minute, l.key)' = Total(l.minute, l.key)
            /\ Shown(l.minute, l.key)' = Shown(l.minute, l.key)
        BY <2>1, <2>4 DEF TotalsKept
      <3>2. Exact(l)
        BY <2>2, <2>4
      <3> QED
        BY <3>1, <3>2 DEF Exact
    <2> QED
      BY <2>3, <2>4
  <1> QED
    BY <1>1, <1>2 DEF LinesExact

\* And what was complete behind the edge stays complete.
LEMMA CompleteKept ==
    ASSUME TypeOK, LogInv, loki \subseteq loki', late \subseteq late', TotalsKept,
           \A s \in since' .. Edge' - 1 : since <= s /\ s < Edge /\ s \in Int,
           truncated' = 0 /\ ~warned' => truncated = 0 /\ ~warned
    PROVE  CompleteUnlessSaid'
  <1> SUFFICES ASSUME truncated' = 0, ~warned',
                      NEW s \in since' .. Edge' - 1, NEW k \in Keys,
                      Total(Minute(s), k)' > 0, Minute(s) \notin late'
               PROVE  \E x \in Shown(Minute(s), k)' :
                        [minute |-> Minute(s), key |-> k, sample |-> x, count |-> Total(Minute(s), k)'] \in loki'
    BY DEF CompleteUnlessSaid, Minute
  <1>1. since \in Nat /\ Edge \in Int /\ readTo \in Nat
    BY DEF TypeOK, Edge, Down
  <1>2. s \in Nat /\ since <= s /\ s < Edge /\ since < Edge /\ Edge # Down /\ Edge \in Nat
    BY <1>1 DEF Down
  <1>3. Edge <= readTo /\ readTo % SlotsPerMinute = 0
    BY <1>2 DEF LogInv, EdgesOrdered
  <1>4. Minute(s) < Minute(readTo) /\ Minute(s) \in Nat /\ Minute(readTo) \in Nat
    <2>1. s < readTo
      BY <1>1, <1>2, <1>3
    <2> QED
      BY <1>1, <1>2, <1>3, <2>1, MinuteOrder, MinuteMonotone
  <1>5. Total(Minute(s), k)' = Total(Minute(s), k) /\ Shown(Minute(s), k)' = Shown(Minute(s), k)
    BY <1>4 DEF TotalsKept
  <1>6. s \in since .. Edge - 1 /\ Minute(s) \notin late /\ Total(Minute(s), k) > 0
    BY <1>1, <1>2, <1>5
  <1>7. \E x \in Shown(Minute(s), k) :
           [minute |-> Minute(s), key |-> k, sample |-> x, count |-> Total(Minute(s), k)] \in loki
    BY <1>6 DEF LogInv, CompleteUnlessSaid
  <1> QED
    BY <1>5, <1>7

\* A step that leaves both edges alone.
LEMMA EdgeKept ==
    ASSUME IInv, LogInv, loki \subseteq loki', late \subseteq late', TotalsKept,
           lastWindowEnd' = lastWindowEnd, leftAt' = leftAt, since' = since,
           truncated' = truncated, warned => warned'
    PROVE  CompleteUnlessSaid'
  <1>1. Edge' = Edge /\ since \in Nat /\ Edge \in Int
    BY DEF Edge, IInv, TypeOK, Down
  <1>2. \A s \in since .. Edge - 1 : since <= s /\ s < Edge /\ s \in Int
    BY <1>1
  <1>3. \A s \in since' .. Edge' - 1 : since <= s /\ s < Edge /\ s \in Int
    BY <1>1, <1>2, Zenon
  <1> QED
    BY <1>3, CompleteKept DEF IInv

\* The window of a poll, and where it ends.
LEMMA PollWindow ==
    ASSUME IInv, Accepted, EdgesOrdered, lastWindowEnd # Down
    PROVE  /\ Window(WindowStart, WindowEnd)
           /\ readTo <= WindowEnd /\ lastWindowEnd <= WindowEnd
           /\ readTo \in Nat /\ lastWindowEnd \in Nat /\ WindowEnd \in Nat
           /\ Minute(readTo) \in Nat /\ Minute(readTo) <= Minute(WindowEnd)
  <1>1. /\ clock \in Nat /\ lastWindowEnd \in 0 .. clock /\ readTo \in 0 .. clock
        /\ lastWindowEnd % SlotsPerMinute = 0 /\ readTo % SlotsPerMinute = 0
        /\ config.maxWindow \in Int
    BY Starting DEF IInv, TypeOK, Accepted, EdgesOrdered
  <1>2. WindowEnd \in 0 .. clock /\ WindowEnd % SlotsPerMinute = 0
    BY <1>1, TruncateBelow DEF WindowEnd
  <1>3. ASSUME NEW x \in 0 .. clock, x % SlotsPerMinute = 0 PROVE x <= WindowEnd
    <2>1. x \in Nat /\ x <= clock
      BY <1>1
    <2>2. Truncate(x) <= Truncate(clock)
      BY <1>1, <2>1, TruncateMonotone
    <2>3. Truncate(x) = x
      BY <1>3, <2>1 DEF Truncate
    <2> QED
      BY <2>2, <2>3 DEF WindowEnd
  <1>4. readTo <= WindowEnd /\ lastWindowEnd <= WindowEnd
    BY <1>1, <1>3
  <1>5. Minute(readTo) \in Nat /\ Minute(readTo) <= Minute(WindowEnd)
    BY <1>1, <1>2, <1>4, MinuteMonotone
  <1>6. WindowStart \in Nat /\ WindowStart % SlotsPerMinute = 0
    <2>1. CASE ~Capped
      BY <1>1, <2>1 DEF WindowStart
    <2>2. CASE Capped
      <3>1. WindowEnd - config.maxWindow \in Nat
        BY <1>1, <1>2, <2>2 DEF Capped
      <3>2. Truncate(WindowEnd - config.maxWindow) \in 0 .. WindowEnd - config.maxWindow
        BY <3>1, TruncateBelow
      <3> QED
        BY <2>2, <3>1, <3>2, TruncateBelow DEF WindowStart
    <2> QED
      BY <2>1, <2>2
  <1> QED
    BY <1>1, <1>2, <1>4, <1>5, <1>6 DEF Window

\* A capped window starts at the whole minute before the cap, so it is less than
\* a minute longer.
LEMMA WindowShort ==
    ASSUME IInv, Accepted, lastWindowEnd # Down
    PROVE  /\ WindowEnd - WindowStart < config.maxWindow + SlotsPerMinute
           /\ WindowStart \in 0 .. clock
  <1>1. /\ clock \in Nat /\ lastWindowEnd \in 0 .. clock /\ SlotsPerMinute \in Nat \ {0}
    BY MinuteAssumption DEF IInv, TypeOK
  <1>0. config.maxWindow \in Nat
    <2>1. config \in Environments /\ config.collector /\ CollectorAccepted(config)
      BY CollectorAssumption DEF IInv, TypeOK, Accepted, LoadConfig
    <2>2. /\ config.maxWindow \in Int /\ config.pollInterval \in Int
          /\ config.maxWindow >= config.pollInterval /\ config.pollInterval >= SlotsPerMinute
      BY <2>1 DEF Environments, CollectorAccepted
    <2> QED
      BY <1>1, <2>2
  <1>2. WindowEnd \in 0 .. clock
    BY <1>1, TruncateBelow DEF WindowEnd
  <1>3. CASE ~Capped
    BY <1>0, <1>1, <1>2, <1>3 DEF WindowStart, Capped
  <1>4. CASE Capped
    <2> DEFINE s == WindowEnd - config.maxWindow
    <2>1. s \in 0 .. clock /\ s \in Nat /\ WindowStart = Truncate(s)
      BY <1>0, <1>1, <1>2, <1>4 DEF Capped, WindowStart
    <2>2. s % SlotsPerMinute \in 0 .. SlotsPerMinute - 1
      BY <1>1, <2>1
    <2>3. WindowStart = s - (s % SlotsPerMinute)
      BY <2>1 DEF Truncate
    <2> DEFINE r == s % SlotsPerMinute
    <2>4. r \in Nat /\ r < SlotsPerMinute /\ WindowStart = s - r /\ WindowStart \in 0 .. s
      BY <1>1, <2>1, <2>2, <2>3, TruncateBelow
    <2> HIDE DEF r
    <2> QED
      BY <1>0, <1>1, <1>2, <2>1, <2>4
  <1> QED
    BY <1>3, <1>4

\* Nothing fits better after a step that leaves the rows alone.
LEMMA FitsSame == rows' = rows /\ clock' = clock => (WindowsFit' => WindowsFit)
  BY DEF WindowsFit, Events

\* Any part of a batch may be stored.
LEMMA PushInv ==
    ASSUME IInv, Accepted, LogInv, lastWindowEnd # Down,
           NEW reading \in Readings, NEW batch \in Batches(reading.groups),
           loki' \subseteq loki \cup batch, readTo' = WindowEnd,
           rows' = rows, clock' = clock, late' = late
    PROVE  LinesRead' /\ LinesExact' /\ readTo' % SlotsPerMinute = 0 /\ readTo <= readTo'
  <1>1. /\ Window(WindowStart, WindowEnd) /\ readTo <= WindowEnd
        /\ Minute(readTo) \in Nat /\ Minute(readTo) <= Minute(WindowEnd)
        /\ WindowStart \in Nat /\ WindowEnd \in Nat
    BY PollWindow DEF LogInv, Window
  <1>2. Minute(WindowStart) \in Nat /\ Minute(WindowEnd) \in Nat
    BY <1>1, MinuteMonotone
  <1>3. TypeOK
    BY DEF IInv
  <1>4. PICK sf \in BOOLEAN : \E f \in Fetched(WindowStart, WindowEnd, sf) :
           reading.groups \in aggregateFirewallEvents(Blocked(f))
    BY ReadingIs
  <1>40. PICK f \in Fetched(WindowStart, WindowEnd, sf) :
           reading.groups \in aggregateFirewallEvents(Blocked(f))
    BY <1>4
  <1>5. ASSUME NEW l \in batch
        PROVE  Line(l) /\ l.key \in Keys /\ l.minute \in Minute(WindowStart) .. Minute(WindowEnd) - 1
    <2>1. l \in reading.groups
      BY BatchIn
    <2> QED
      BY <1>1, <1>3, <1>40, <2>1, GroupsRead
  <1>6. ASSUME NEW l \in loki'
        PROVE  Line(l) /\ l.minute \in 0 .. Minute(WindowEnd) - 1 /\ l.key \in Keys
    <2>1. CASE l \in loki
      <3>1. Line(l) /\ l.minute \in 0 .. Minute(readTo) - 1 /\ l.key \in Keys
        BY <2>1 DEF LogInv, LinesRead
      <3> QED
        BY <1>1, <1>2, <3>1
    <2>2. CASE l \in batch
      BY <1>2, <1>5, <2>2
    <2> QED
      BY <2>1, <2>2
  <1>7. LinesRead'
    BY <1>6 DEF LinesRead, Line
  <1>8. ASSUME WindowsFit', NEW l \in loki'
        PROVE  l.minute \in late' \/ Exact(l)'
    <2>1. WindowsFit
      BY <1>8, FitsSame
    <2>2. l.minute \in late \/ Exact(l)
      <3>1. CASE l \in loki
        BY <2>1, <3>1 DEF LogInv, LinesExact
      <3>2. CASE l \in batch
        <4>1. ReadWhole(WindowStart, WindowEnd, f)
          <5>1. config \in {e \in Envs : LoadConfig(e)}
            BY <1>3 DEF TypeOK, Accepted
          <5>2. /\ WindowStart \in 0 .. clock /\ WindowEnd \in 0 .. clock
                /\ WindowEnd - WindowStart < config.maxWindow + SlotsPerMinute
            BY <1>1, WindowShort DEF Window
          <5> QED
            BY <2>1, <5>1, <5>2 DEF ReadWhole, WindowsFit
        <4>2. l \in reading.groups
          BY <3>2, BatchIn
        <4> QED
          BY <1>1, <1>3, <1>40, <4>1, <4>2, GroupsExact DEF Exact
      <3> QED
        BY <3>1, <3>2
    <2> QED
      BY <2>2, TotalSame DEF Exact
  <1>9. LinesExact'
    BY <1>8 DEF LinesExact
  <1> QED
    BY <1>1, <1>7, <1>9 DEF Window

\* At the start nothing is read and Loki is empty.
LEMMA InitLog == Init => LogInv
  <1> SUFFICES ASSUME Init PROVE LogInv
    OBVIOUS
  <1>1. readTo = 0 /\ loki = {} /\ since = lastWindowEnd /\ leftAt = Down
    BY DEF Init
  <1>2. 0 % SlotsPerMinute = 0
    BY MinuteAssumption
  <1>3. lastWindowEnd \in Int /\ since \in Nat /\ Edge = since
    BY <1>1, InitInv DEF IInv, TypeOK, Down, Edge
  <1>4. EdgesOrdered
    BY <1>1, <1>2, <1>3 DEF EdgesOrdered
  <1>5. LinesRead /\ LinesExact
    BY <1>1 DEF LinesRead, LinesExact
  <1>6. since .. Edge - 1 = {}
    BY <1>3
  <1>7. CompleteUnlessSaid
    BY <1>6 DEF CompleteUnlessSaid
  <1> QED
    BY <1>4, <1>5, <1>7 DEF LogInv

\* The minute in progress has not been read.
LEMMA TickLog == IInv /\ IInv' /\ LogInv /\ Tick => LogInv'
  <1> SUFFICES ASSUME IInv, IInv', LogInv, Tick PROVE LogInv'
    OBVIOUS
  <1>1. PICK r \in SlotRows : rows' = [s \in 0 .. clock |-> IF s = clock THEN r ELSE rows[s]]
    BY DEF Tick
  <1>2. /\ clock' = clock + 1 /\ clock \in Nat /\ readTo \in Nat /\ readTo <= clock
        /\ UNCHANGED <<lastWindowEnd, since, leftAt, truncated, warned, loki, readTo, late>>
        /\ TypeOK /\ TypeOK'
    BY DEF Tick, history, IInv, TypeOK
  <1>3. /\ 0 .. clock' - 1 = 0 .. clock /\ 0 .. clock - 1 \subseteq 0 .. clock' - 1
        /\ \A s \in 0 .. clock : s = clock \/ s \in 0 .. clock - 1
        /\ \A s \in 0 .. clock - 1 : s # clock /\ s \in 0 .. clock /\ s < clock
    BY <1>2
  <1>4. \A s \in 0 .. clock - 1 : rows'[s] = rows[s]
    BY <1>1, <1>3
  <1>5. TotalsKept
    <2> SUFFICES ASSUME NEW m \in 0 .. Minute(readTo) - 1, NEW k \in Keys
                 PROVE  Total(m, k)' = Total(m, k) /\ Shown(m, k)' = Shown(m, k)
      BY DEF TotalsKept
    <2>1. Minute(readTo) \in Nat /\ Minute(clock) \in Nat /\ Minute(readTo) <= Minute(clock)
      BY <1>2, MinuteMonotone
    <2>2. m # Minute(clock)
      BY <2>1
    <2>3. ASSUME NEW s \in 0 .. clock' - 1, Minute(s) = m PROVE s < clock /\ rows'[s] = rows[s]
      BY <1>3, <1>4, <2>2, <2>3
    <2> QED
      BY <1>2, <1>3, <2>3, TotalKept
  <1>6. \A s \in 0 .. clock - 1 : Len(rows[s]) <= Len(rows'[s])
    <2>1. \A s \in 0 .. clock - 1 : Len(rows[s]) \in Nat
      BY <1>2 DEF TypeOK
    <2> QED
      BY <1>4, <2>1
  <1>7. WindowsFit' => WindowsFit
    BY <1>2, <1>3, <1>6, FitsBefore
  <1>8. LinesRead' /\ LinesExact' /\ CompleteUnlessSaid'
    BY <1>2, <1>5, <1>7, LinesKept, EdgeKept
  <1>9. EdgesOrdered'
    BY <1>2 DEF LogInv, EdgesOrdered, Edge
  <1> QED
    BY <1>8, <1>9 DEF LogInv

\* A late event marks its minute when the minute was read.
LEMMA LateLog == IInv /\ IInv' /\ LogInv /\ Late => LogInv'
  <1> SUFFICES ASSUME IInv, IInv', LogInv, Late PROVE LogInv'
    OBVIOUS
  <1>1. PICK s0 \in 0 .. clock - 1, k0 \in Keys, x0 \in Samples :
           /\ rows' = [rows EXCEPT ![s0] = Append(@, [key |-> k0, sample |-> x0])]
           /\ late' = late \cup (IF s0 < readTo THEN {Minute(s0)} ELSE {})
    BY DEF Late
  <1>2. /\ clock \in Nat /\ readTo \in Nat /\ TypeOK /\ TypeOK'
        /\ UNCHANGED <<clock, lastWindowEnd, since, leftAt, truncated, warned, loki, readTo>>
        /\ rows \in [0 .. clock - 1 -> Seq(LogEvents)]
    BY DEF Late, IInv, TypeOK
  <1>3. readTo % SlotsPerMinute = 0
    BY DEF LogInv, EdgesOrdered
  <1>4. TotalsKept
    <2> SUFFICES ASSUME NEW m \in 0 .. Minute(readTo) - 1, NEW k \in Keys, m \notin late'
                 PROVE  Total(m, k)' = Total(m, k) /\ Shown(m, k)' = Shown(m, k)
      BY DEF TotalsKept
    <2>0. s0 \in Nat
      BY <1>2
    <2>1. s0 \in Nat /\ Minute(s0) \in Nat /\ Minute(readTo) \in Nat
      BY <1>2, <2>0, s0 <= s0, readTo <= readTo, MinuteMonotone
    <2>2. Minute(s0) # m
      <3>1. SUFFICES ASSUME Minute(s0) = m PROVE FALSE
        OBVIOUS
      <3>2. Minute(s0) < Minute(readTo)
        BY <2>1, <3>1
      <3>3. s0 < readTo
        BY <1>2, <1>3, <2>1, <3>2, MinuteOrder
      <3> QED
        BY <1>1, <3>1, <3>3
    <2>3. ASSUME NEW s \in 0 .. clock' - 1, Minute(s) = m PROVE s < clock /\ rows'[s] = rows[s]
      <3>1. s \in 0 .. clock - 1 /\ s # s0
        BY <1>2, <2>2, <2>3
      <3> QED
        BY <1>1, <1>2, <3>1
    <2> QED
      BY <1>2, <2>3, TotalKept
  <1>5. \A s \in 0 .. clock - 1 : Len(rows[s]) <= Len(rows'[s])
    <2> SUFFICES ASSUME NEW s \in 0 .. clock - 1 PROVE Len(rows[s]) <= Len(rows'[s])
      OBVIOUS
    <2>1. rows[s] \in Seq(LogEvents) /\ Len(rows[s]) \in Nat
      BY <1>2
    <2>2. CASE s = s0
      <3> DEFINE e0 == [key |-> k0, sample |-> x0]
      <3>0. e0 \in LogEvents
        BY DEF LogEvents
      <3>1. rows'[s] = Append(rows[s], e0)
        BY <1>1, <1>2, <2>2
      <3> HIDE DEF e0
      <3>2. Len(Append(rows[s], e0)) = Len(rows[s]) + 1
        BY <2>1, <3>0
      <3> QED
        BY <2>1, <3>1, <3>2
    <2>3. CASE s # s0
      <3>1. rows'[s] = rows[s]
        BY <1>1, <1>2, <2>3
      <3> QED
        BY <2>1, <3>1
    <2> QED
      BY <2>2, <2>3
  <1>6. WindowsFit' => WindowsFit
    <2>1. 0 .. clock - 1 \subseteq 0 .. clock' - 1
      BY <1>2
    <2> QED
      BY <1>2, <1>5, <2>1, FitsBefore
  <1>7. LinesRead' /\ LinesExact' /\ CompleteUnlessSaid'
    BY <1>1, <1>2, <1>4, <1>6, LinesKept, EdgeKept
  <1>8. EdgesOrdered'
    BY <1>2 DEF LogInv, EdgesOrdered, Edge
  <1> QED
    BY <1>7, <1>8 DEF LogInv

\* Totals stay while the rows do.
LEMMA TotalsSame == rows' = rows /\ clock' = clock => TotalsKept
  BY TotalSame DEF TotalsKept

\* A poll that fails may store a part: the minutes it read count as read.
LEMMA PollFailsLog == IInv /\ Accepted /\ LogInv /\ PollFails => LogInv'
  <1> SUFFICES ASSUME IInv, Accepted, LogInv, PollFails PROVE LogInv'
    OBVIOUS
  <1>1. PICK reading \in Readings : \E batch \in Batches(reading.groups) :
                                \E stored \in SUBSET batch : loki' = loki \cup stored
    BY DEF PollFails
  <1>2. PICK batch \in Batches(reading.groups) : \E stored \in SUBSET batch : loki' = loki \cup stored
    BY <1>1
  <1>3. loki \subseteq loki' /\ loki' \subseteq loki \cup batch
    BY <1>2
  <1>4. /\ lastWindowEnd # Down /\ readTo' = WindowEnd /\ (warned => warned')
        /\ UNCHANGED <<clock, rows, lastWindowEnd, since, leftAt, truncated, late>>
    BY DEF PollFails, Warns
  <1>5. LinesRead' /\ LinesExact' /\ readTo' % SlotsPerMinute = 0 /\ readTo <= readTo'
    BY <1>3, <1>4, PushInv
  <1>6. CompleteUnlessSaid'
    BY <1>3, <1>4, TotalsSame, EdgeKept
  <1>7. EdgesOrdered'
    <2>1. lastWindowEnd <= readTo'
      BY <1>4, PollWindow DEF LogInv
    <2> QED
      BY <1>4, <1>5, <2>1 DEF LogInv, EdgesOrdered, Edge
  <1> QED
    BY <1>5, <1>6, <1>7 DEF LogInv

\* What a process leaves that said nothing stays complete.
LEMMA CrashLog == IInv /\ LogInv /\ Crash => LogInv'
  <1> SUFFICES ASSUME IInv, LogInv, Crash PROVE LogInv'
    OBVIOUS
  <1>1. /\ lastWindowEnd # Down /\ lastWindowEnd' = Down
        /\ leftAt' = IF truncated = 0 /\ ~warned THEN lastWindowEnd ELSE Down
        /\ UNCHANGED <<clock, rows, loki, since, readTo, late>>
    BY DEF Crash
  <1>2. LinesRead' /\ LinesExact'
    BY <1>1, TotalsSame, FitsSame, LinesKept
  <1>3. since \in Nat /\ lastWindowEnd \in Nat /\ Edge = lastWindowEnd /\ Edge' = leftAt'
    BY <1>1 DEF Edge, IInv, TypeOK
  <1>4. CASE truncated = 0 /\ ~warned
    <2>1. Edge' = Edge
      BY <1>1, <1>3, <1>4
    <2>2. \A s \in since .. Edge - 1 : since <= s /\ s < Edge /\ s \in Int
      BY <1>3
    <2>3. \A s \in since' .. Edge' - 1 : since <= s /\ s < Edge /\ s \in Int
      BY <1>1, <2>1, <2>2, Zenon
    <2>4. CompleteUnlessSaid'
      <3>1. TotalsKept /\ TypeOK /\ loki \subseteq loki' /\ late \subseteq late'
        BY <1>1, TotalsSame DEF IInv
      <3> QED
        BY <1>4, <2>3, <3>1, CompleteKept
    <2> QED
      BY <1>1, <1>2, <2>1, <2>4 DEF LogInv, EdgesOrdered
  <1>5. CASE ~(truncated = 0 /\ ~warned)
    <2>1. Edge' = Down
      BY <1>1, <1>3, <1>5
    <2>2. since .. Down - 1 = {}
      BY <1>3 DEF Down
    <2>3. CompleteUnlessSaid'
      BY <1>1, <2>1, <2>2 DEF CompleteUnlessSaid
    <2> QED
      BY <1>1, <1>2, <2>1, <2>3 DEF LogInv, EdgesOrdered
  <1> QED
    BY <1>4, <1>5

\* A process whose lookback reaches what the one before left goes on with its
\* stretch; any other starts one of its own, with nothing behind its edge.
LEMMA StartLog == IInv /\ IInv' /\ LogInv /\ Start => LogInv'
  <1> SUFFICES ASSUME IInv, IInv', LogInv, Start PROVE LogInv'
    OBVIOUS
  <1>1. /\ lastWindowEnd = Down
        /\ since' = IF lastWindowEnd' <= leftAt THEN Smaller(since, lastWindowEnd') ELSE lastWindowEnd'
        /\ UNCHANGED <<clock, rows, truncated, warned, loki, readTo, late>>
    BY DEF Start
  <1>2. LinesRead' /\ LinesExact'
    BY <1>1, TotalsSame, FitsSame, LinesKept
  <1>3. /\ since \in Nat /\ leftAt \in Int /\ Edge = leftAt /\ readTo \in Nat
        /\ lastWindowEnd' \in Nat
    <2>1. lastWindowEnd' # Down
      <3>1. config' \in Envs /\ LoadConfig(config') /\ config'.lookback <= clock
        BY DEF Start
      <3> DEFINE from == clock - config'.lookback
      <3>2. from \in Nat
        BY <3>1, Starting DEF IInv, TypeOK
      <3>3. lastWindowEnd' = Truncate(from)
        BY DEF Start, FirstStart
      <3> HIDE DEF from
      <3> QED
        BY <3>2, <3>3, TruncateBelow DEF Down
    <2> QED
      BY <1>1, <2>1 DEF Edge, IInv, TypeOK, Down
  <1>4. Edge' = lastWindowEnd'
    BY <1>3 DEF Edge, Down
  <1>5. CASE lastWindowEnd' <= leftAt /\ since < lastWindowEnd'
    <2>1. since' = since /\ since < Edge /\ Edge # Down
      BY <1>1, <1>3, <1>5 DEF Smaller, Down
    <2>2. Edge <= readTo
      BY <2>1 DEF LogInv, EdgesOrdered
    <2>3. EdgesOrdered'
      <3>1. since' <= Edge' /\ Edge' <= readTo'
        BY <1>1, <1>3, <1>4, <1>5, <2>1, <2>2
      <3> QED
        BY <1>1, <3>1 DEF LogInv, EdgesOrdered
    <2> DEFINE first == lastWindowEnd'
    <2>4. \A s \in since .. first - 1 : since <= s /\ s < Edge /\ s \in Int
      <3>1. first \in Nat /\ first <= Edge /\ Edge \in Int
        BY <1>3, <1>5
      <3> HIDE DEF first
      <3> QED
        BY <1>3, <3>1
    <2>5. \A s \in since' .. Edge' - 1 : since <= s /\ s < Edge /\ s \in Int
      BY <1>4, <2>1, <2>4, Zenon
    <2>6. CompleteUnlessSaid'
      <3>1. TotalsKept /\ TypeOK /\ loki \subseteq loki' /\ late \subseteq late'
        BY <1>1, TotalsSame DEF IInv
      <3> QED
        BY <1>1, <2>5, <3>1, CompleteKept
    <2> QED
      BY <1>2, <2>3, <2>6 DEF LogInv
  <1>6. CASE ~(lastWindowEnd' <= leftAt /\ since < lastWindowEnd')
    <2>1. since' = Edge'
      BY <1>1, <1>3, <1>4, <1>6 DEF Smaller
    <2>2. since' \in Nat
      BY <1>3, <1>4, <2>1
    <2>3. since' .. Edge' - 1 = {} /\ since' <= Edge' /\ ~(since' < Edge')
      <3>1. \A x \in Nat : x .. x - 1 = {} /\ x <= x /\ ~(x < x)
        OBVIOUS
      <3> QED
        BY <2>1, <2>2, <3>1, Zenon
    <2>4. EdgesOrdered'
      BY <1>1, <2>3 DEF LogInv, EdgesOrdered
    <2>5. CompleteUnlessSaid'
      BY <2>3 DEF CompleteUnlessSaid
    <2> QED
      BY <1>2, <2>4, <2>5 DEF LogInv
  <1> QED
    BY <1>5, <1>6

\* A poll that was neither cut nor capped makes its window complete.
LEMMA PollLog == IInv /\ IInv' /\ Accepted /\ LogInv /\ Poll => LogInv'
  <1> SUFFICES ASSUME IInv, IInv', Accepted, LogInv, Poll PROVE LogInv'
    OBVIOUS
  <1>1. /\ lastWindowEnd # Down /\ warned' = (warned \/ Capped)
        /\ rows' = rows /\ clock' = clock /\ late' = late /\ since' = since /\ leftAt' = leftAt
    BY DEF Poll, Warns
  <1>2. CASE UNCHANGED <<loki, truncated, lastWindowEnd, polledAt, readTo>>
    <2>1. LinesRead' /\ LinesExact'
      BY <1>1, <1>2, TotalsSame, FitsSame, LinesKept
    <2>2. CompleteUnlessSaid'
      BY <1>1, <1>2, TotalsSame, EdgeKept
    <2> QED
      BY <1>1, <1>2, <2>1, <2>2 DEF LogInv, EdgesOrdered, Edge
  <1>3. CASE ~UNCHANGED <<loki, truncated, lastWindowEnd, polledAt, readTo>>
    <2>1. PICK reading \in Readings :
             /\ \E batch \in Batches(reading.groups) : loki' = loki \cup batch
             /\ truncated' = IF \/ reading.rows >= config.rows
                                \/ Cardinality(reading.groups) > BatchLimit
                               THEN truncated + 1 ELSE truncated
      BY <1>3 DEF Poll
    <2>2. WindowEnd > WindowStart /\ lastWindowEnd' = WindowEnd /\ readTo' = WindowEnd
      BY <1>3 DEF Poll, Advance
    <2>3. PICK batch \in Batches(reading.groups) : loki' = loki \cup batch
      BY <2>1
    <2>4. LinesRead' /\ LinesExact' /\ readTo' % SlotsPerMinute = 0 /\ readTo <= readTo'
      BY <1>1, <2>2, <2>3, PushInv
    <2>5. /\ Window(WindowStart, WindowEnd) /\ lastWindowEnd <= WindowEnd
          /\ lastWindowEnd \in Nat /\ WindowEnd \in Nat /\ since \in Nat /\ TypeOK
          /\ truncated \in Nat /\ warned \in BOOLEAN
      <3>1. TypeOK /\ EdgesOrdered
        BY DEF LogInv, IInv
      <3>2. since \in Nat /\ truncated \in Nat /\ warned \in BOOLEAN
        BY <3>1 DEF TypeOK
      <3> QED
        BY <1>1, <3>1, <3>2, PollWindow
    <2>50. Edge = lastWindowEnd /\ Edge' = WindowEnd
      BY <1>1, <2>2, <2>5 DEF Edge, Down
    <2>6. EdgesOrdered'
      <3>1. since <= WindowEnd
        BY <1>1, <2>5, <2>50 DEF LogInv, EdgesOrdered
      <3>2. WindowEnd <= WindowEnd
        BY <2>5
      <3> QED
        BY <1>1, <2>2, <2>4, <2>50, <3>1, <3>2 DEF EdgesOrdered
    <2>7. CompleteUnlessSaid'
      <3> SUFFICES ASSUME truncated' = 0, ~warned',
                          NEW s \in since .. WindowEnd - 1, NEW k \in Keys,
                          Total(Minute(s), k) > 0, Minute(s) \notin late
                   PROVE  \E x \in Shown(Minute(s), k) :
                            [minute |-> Minute(s), key |-> k, sample |-> x, count |-> Total(Minute(s), k)] \in loki'
        BY <1>1, <2>50, TotalSame DEF CompleteUnlessSaid, Minute
      <3>0. PICK sf \in BOOLEAN : \E g \in Fetched(WindowStart, WindowEnd, sf) :
               /\ reading.groups \in aggregateFirewallEvents(Blocked(g))
               /\ reading.rows = Cardinality(g)
        BY ReadingIs
      <3>1. PICK F \in Fetched(WindowStart, WindowEnd, sf) :
               /\ reading.groups \in aggregateFirewallEvents(Blocked(F))
               /\ reading.rows = Cardinality(F)
        BY <3>0
      <3> DEFINE groups == reading.groups
      <3>2. /\ truncated = 0
            /\ ~(Cardinality(F) >= config.rows) /\ ~(Cardinality(groups) > BatchLimit)
        BY <2>1, <2>5, <3>1
      <3>3. ~warned /\ ~Capped
        BY <1>1
      <3>4. WindowStart = lastWindowEnd
        BY <3>3 DEF WindowStart
      <3>5. CASE s < lastWindowEnd
        <4>1. s \in since .. Edge - 1
          BY <2>5, <2>50, <3>5
        <4>2. \E x \in Shown(Minute(s), k) :
                [minute |-> Minute(s), key |-> k, sample |-> x, count |-> Total(Minute(s), k)] \in loki
          BY <1>1, <3>2, <3>3, <4>1 DEF LogInv, CompleteUnlessSaid
        <4> QED
          BY <2>3, <4>2
      <3>6. CASE lastWindowEnd <= s
        <4>1. IsFiniteSet(F) /\ IsFiniteSet(groups)
          <5>1. IsFiniteSet(F)
            BY <2>5, FetchedAll
          <5>2. Blocked(F) \subseteq F
            BY DEF Blocked
          <5>3. IsFiniteSet(Blocked(F))
            BY <5>1, <5>2, FS_Subset
          <5> QED
            BY <3>1, <5>1, <5>3, GroupsFinite
        <4>2. Cardinality(F) \in Nat /\ config.rows \in Nat
          BY <2>5, <4>1, FS_CardinalityType, RowLimit
        <4>3. ReadWhole(WindowStart, WindowEnd, F)
          BY <3>2, <4>2 DEF ReadWhole
        <4>4. Minute(s) \in Minute(WindowStart) .. Minute(WindowEnd) - 1
          <5>1. s \in Nat /\ WindowStart \in Nat /\ WindowStart <= s /\ s < WindowEnd
            BY <2>5, <3>4, <3>6
          <5>2. /\ Minute(WindowStart) <= Minute(s) /\ Minute(s) < Minute(WindowEnd)
                /\ Minute(s) \in Nat /\ Minute(WindowStart) \in Nat /\ Minute(WindowEnd) \in Nat
            BY <2>5, <5>1, MinuteMonotone, MinuteOrder DEF Window
          <5> QED
            BY <5>2
        <4>5. \E x \in Shown(Minute(s), k) :
                [minute |-> Minute(s), key |-> k, sample |-> x, count |-> Total(Minute(s), k)] \in groups
          BY <2>5, <3>1, <4>3, <4>4, GroupsComplete
        <4>6. batch = groups
          BY <3>2, <4>1, WholeBatch
        <4> HIDE DEF groups
        <4> QED
          BY <2>3, <4>5, <4>6
      <3>7. s \in Nat
        BY <2>5
      <3> QED
        BY <2>5, <3>5, <3>6, <3>7
    <2> QED
      BY <2>4, <2>6, <2>7 DEF LogInv
  <1> QED
    BY <1>2, <1>3

\* The invariant of the log holds throughout.
LEMMA LogInductive == Spec => [](IInv /\ Accepted /\ LogInv)
  <1>1. Init => IInv /\ Accepted /\ LogInv
    BY InitInv, InitLog
  <1>2. IInv /\ Accepted /\ LogInv /\ [Next]_vars => (IInv /\ Accepted /\ LogInv)'
    <2> SUFFICES ASSUME IInv, Accepted, LogInv, [Next]_vars PROVE (IInv /\ Accepted /\ LogInv)'
      OBVIOUS
    <2>1. IInv' /\ Accepted'
      BY NextInv
    <2>2. CASE UNCHANGED vars
      <3>1. LinesRead' /\ LinesExact'
        BY <2>2, TotalsSame, FitsSame, LinesKept DEF vars, history
      <3>2. CompleteUnlessSaid'
        BY <2>2, TotalsSame, EdgeKept DEF vars, history
      <3> QED
        BY <2>1, <2>2, <3>1, <3>2 DEF LogInv, EdgesOrdered, Edge, vars, history
    <2> QED
      BY <2>1, <2>2, TickLog, LateLog, PollLog, PollFailsLog, CrashLog, StartLog DEF Next
  <1> QED
    BY <1>1, <1>2, PTL DEF Spec

\* pollOnce's order (fetch, push, and only then count and advance) and Run's
\* lookback: from where an unbroken stretch of processes began, every minute
\* behind the edge is in Loki with its exact count and one of its first events,
\* whatever failed, unless this process counted a truncated window, logged a
\* capped one, or Cloudflare ingested an event of the minute after it was read.
\* A restart keeps the stretch unbroken when its lookback reaches the edge of a
\* process that had said nothing; a shorter one breaks it, and what lies between
\* is lost in silence.
THEOREM Complete == Spec => []CompleteUnlessSaid
  BY LogInductive, PTL DEF LogInv

\* However often a window is read and pushed again, after whatever failures and
\* restarts, with whatever lookback and whatever order Cloudflare answers in,
\* Loki's lines of a minute and key add up to no more blocks than there were, as
\* long as no limit cuts a window, the minute got no event after it was read, and
\* its oldest events do not differ in what the line shows: a minute is never
\* split, so the replay repeats lines Loki already has, byte for byte.
THEOREM Deduplicated == Spec => []NeverOvercounts
  <1>1. IInv /\ LogInv => NeverOvercounts
    <2> SUFFICES ASSUME IInv, LogInv, WindowsFit, NEW m \in 0 .. Minute(clock), NEW k \in Keys,
                        FirstUnique(m, k), m \notin late
                 PROVE  Recorded(m, k) <= Total(m, k)
      BY DEF NeverOvercounts, Overcounts
    <2> DEFINE here == {l \in loki : l.minute = m /\ l.key = k}
    <2>1. Total(m, k) \in Nat
      <3>1. IsFiniteSet(Events(0, clock))
        BY AllFinite DEF IInv
      <3>2. Members(Events(0, clock), m, k) \in SUBSET Events(0, clock)
        BY DEF Members
      <3> QED
        BY <3>1, <3>2, FS_Subset, FS_CardinalityType DEF Total, Count
    <2>2. ASSUME NEW l \in here
          PROVE  /\ l = [minute |-> m, key |-> k, sample |-> l.sample, count |-> Total(m, k)]
                 /\ l.sample \in Shown(m, k)
      BY <2>2 DEF LogInv, LinesRead, LinesExact, Line, Exact
    <2>3. CASE here = {}
      <3>1. Recorded(m, k) = 0
        BY <2>3, SumOfNone DEF Recorded
      <3> QED
        BY <2>1, <3>1
    <2>4. CASE here # {}
      <3>1. PICK x \in here : TRUE
        BY <2>4
      <3>2. ASSUME NEW l \in here PROVE l = x
        <4>1. l.sample = x.sample
          BY <2>2 DEF FirstUnique
        <4> HIDE DEF here
        <4> QED
          BY <2>2, <4>1
      <3>3. here = {x}
        BY <3>2
      <3>4. x.count = Total(m, k)
        BY <2>2
      <3> HIDE DEF here
      <3>5. MapThenSumSet(LAMBDA l : l.count, {x}) = x.count
        BY <2>1, <3>4, SumOfOne
      <3>6. Recorded(m, k) = Total(m, k)
        BY <3>3, <3>4, <3>5 DEF Recorded, here
      <3> QED
        BY <2>1, <3>6
    <2> QED
      BY <2>3, <2>4
  <1> QED
    BY <1>1, LogInductive, PTL
=============================================================================
