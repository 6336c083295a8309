--------------------------- MODULE OperationsProofs ---------------------------
(***************************************************************************)
(* Proofs about Operations, for any number of processes, destinations,     *)
(* events and limits.                                                      *)
(*                                                                         *)
(* What a process still has to do is data, so the proofs first reduce an   *)
(* action to what they need of it: Follows says how it changes what is     *)
(* left to do, Kind which of nine kinds of steps it is, Takes both, and    *)
(* what it leaves alone.  Begins, Dies, Apart, Passes and Configures do    *)
(* the same for what is not a step of a process.  Then come four           *)
(* inductive invariants:                                                   *)
(*   RollInv    for RollbackGoesBack: a replaced configuration was saved;  *)
(*   RestartInv for RestartsLimited: a budget of restarts for each process *)
(*              that has not verified one;                                 *)
(*   EventInv   for EventsOnce: signals still to be recorded are distinct  *)
(*              and new, and events are captured in order under the lock;  *)
(*   DeliveryInv for DeliveriesAccountable and SettledIsFinal: a signal is *)
(*              queued once, after it is in the timeline, the queue keeps  *)
(*              its order and its payloads, and, where one process         *)
(*              delivers, a delivery is sent by one step at a time, that   *)
(*              counts its attempt before it may be sent again.            *)
(***************************************************************************)
EXTENDS Operations, FiniteSetTheorems, FunctionTheorems, SequenceTheorems, TLAPS

-----------------------------------------------------------------------------
(* Sequences, and sets of numbers in their order                           *)

LEMMA Continued ==
    ASSUME NEW S, NEW a \in Seq(S), NEW t \in Seq(S), t # <<>>
    PROVE  /\ a \o Tail(t) \in Seq(S)
           /\ Len(a \o Tail(t)) = Len(a) + Len(t) - 1
           /\ \A k \in 1 .. Len(a) : (a \o Tail(t))[k] = a[k]
           /\ \A k \in 1 .. Len(t) - 1 : (a \o Tail(t))[Len(a) + k] = t[k + 1]
OBVIOUS

LEMMA Joined ==
    ASSUME NEW S, NEW a \in Seq(S), NEW t \in Seq(S)
    PROVE  /\ a \o t \in Seq(S)
           /\ Len(a \o t) = Len(a) + Len(t)
           /\ \A k \in 1 .. Len(a) : (a \o t)[k] = a[k]
           /\ \A k \in 1 .. Len(t) : (a \o t)[Len(a) + k] = t[k]
OBVIOUS

\* A finite set of numbers is enumerated in its order.
LEMMA InOrderExists ==
    ASSUME NEW S \in SUBSET Nat, IsFiniteSet(S)
    PROVE  /\ Cardinality(S) \in Nat
           /\ \E s \in [1 .. Cardinality(S) -> S] : Increasing(s)
<1> DEFINE n == Cardinality(S)
           Below(x) == {y \in S : y <= x}
           rank == [x \in S |-> Cardinality(Below(x))]
<1>0. \A x \in S : x \in Nat
  OBVIOUS
<1>1. n \in Nat
  BY FS_CardinalityType
<1>2. \A x \in S : IsFiniteSet(Below(x)) /\ Cardinality(Below(x)) \in 1 .. n
  <2> SUFFICES ASSUME NEW x \in S PROVE IsFiniteSet(Below(x)) /\ Cardinality(Below(x)) \in 1 .. n
    OBVIOUS
  <2>1. IsFiniteSet(Below(x)) /\ Cardinality(Below(x)) <= n
    BY FS_Subset
  <2>2. Cardinality(Below(x)) \in Nat /\ Cardinality(Below(x)) # 0
    BY <2>1, FS_CardinalityType, FS_EmptySet, x \in Below(x)
  <2> QED BY <2>1, <2>2, <1>1
<1>3. \A x, y \in S : x < y => rank[x] < rank[y]
  <2> SUFFICES ASSUME NEW x \in S, NEW y \in S, x < y PROVE rank[x] < rank[y]
    OBVIOUS
  <2>0. x \in Nat /\ y \in Nat
    BY <1>0
  <2>1. y \in Below(y)
    BY <2>0
  <2>2. y \notin Below(x)
    BY <2>0
  <2>3. Below(x) \in SUBSET Below(y)
    <3> SUFFICES ASSUME NEW z \in S, z <= x PROVE z <= y
      OBVIOUS
    <3>1. z \in Nat
      OBVIOUS
    <3> QED BY <3>1, <2>0
  <2>4. Cardinality(Below(x)) <= Cardinality(Below(y)) /\ Cardinality(Below(x)) # Cardinality(Below(y))
    BY <2>1, <2>2, <2>3, <1>2, FS_Subset
  <2> QED BY <2>4, <1>2
<1>4. rank \in [S -> 1 .. n]
  BY <1>2
<1>5. \A x, y \in S : rank[x] = rank[y] => x = y
  BY <1>3, <1>4
<1> HIDE DEF rank
<1>6. rank \in Injection(S, 1 .. n)
  BY <1>4, <1>5, Fun_IsInj
<1>7. IsFiniteSet(1 .. n) /\ Cardinality(1 .. n) = n
  BY <1>1, FS_Interval
<1>8. rank \in Surjection(S, 1 .. n)
  BY <1>6, <1>7, FS_Injection
<1>9. \A k \in 1 .. n : \E x \in S : rank[x] = k
  BY <1>8 DEF Surjection
<1> DEFINE s == [k \in 1 .. n |-> CHOOSE x \in S : rank[x] = k]
<1>10. s \in [1 .. n -> S] /\ \A k \in 1 .. n : rank[s[k]] = k
  BY <1>9
<1> HIDE DEF s
<1>11. \A i, j \in 1 .. n : i < j => s[i] < s[j]
  <2> SUFFICES ASSUME NEW i \in 1 .. n, NEW j \in 1 .. n, i < j PROVE s[i] < s[j]
    OBVIOUS
  <2>1. s[i] \in S /\ s[j] \in S /\ rank[s[i]] = i /\ rank[s[j]] = j
    BY <1>10
  <2>2. i \in Nat /\ j \in Nat
    BY <1>1
  <2>3. s[i] \in Nat
    BY <2>1
  <2>4. s[j] \in Nat
    BY <2>1
  <2>5. s[i] # s[j]
    BY <2>1, <2>2
  <2>6. ~(s[j] < s[i])
    <3>1. s[j] < s[i] => rank[s[j]] < rank[s[i]]
      BY <2>1, <1>3
    <3> QED BY <2>1, <2>2, <3>1
  <2> QED BY <2>3, <2>4, <2>5, <2>6
<1> QED BY <1>1, <1>10, <1>11 DEF Increasing

LEMMA InOrderIs ==
    ASSUME NEW S \in SUBSET Nat, IsFiniteSet(S)
    PROVE  /\ Cardinality(S) \in Nat /\ InOrder(S) \in Seq(S)
           /\ Len(InOrder(S)) = Cardinality(S)
           /\ InOrder(S) \in [1 .. Cardinality(S) -> S]
           /\ \A i, j \in 1 .. Cardinality(S) : i < j => InOrder(S)[i] < InOrder(S)[j]
           /\ \A x \in S : \E i \in 1 .. Cardinality(S) : InOrder(S)[i] = x
<1>1. Cardinality(S) \in Nat
  BY InOrderExists
<1>2. /\ InOrder(S) \in [1 .. Cardinality(S) -> S]
      /\ \A i, j \in 1 .. Cardinality(S) : i < j => InOrder(S)[i] < InOrder(S)[j]
  <2>1. InOrder(S) \in [1 .. Cardinality(S) -> S] /\ Increasing(InOrder(S))
    BY InOrderExists DEF InOrder
  <2> QED BY <2>1 DEF Increasing
<1> DEFINE o == InOrder(S)
<1>3. o \in Injection(1 .. Cardinality(S), S)
  <2>1. \A i, j \in 1 .. Cardinality(S) : o[i] = o[j] => i = j
    <3> SUFFICES ASSUME NEW i \in 1 .. Cardinality(S), NEW j \in 1 .. Cardinality(S), o[i] = o[j]
                 PROVE  i = j
      OBVIOUS
    <3>1. i \in Nat /\ j \in Nat
      BY <1>1
    <3>2. o[i] \in Nat
      BY <1>2
    <3>3. ~(i < j)
      BY <1>2, <3>2
    <3>4. ~(j < i)
      BY <1>2, <3>2
    <3> QED BY <3>1, <3>3, <3>4
  <2> QED BY <2>1, <1>2, Fun_IsInj
<1>4. Cardinality(1 .. Cardinality(S)) = Cardinality(S)
  BY <1>1, FS_Interval
<1>5. o \in Surjection(1 .. Cardinality(S), S)
  BY <1>3, <1>4, FS_Injection
<1>6. \A x \in S : \E i \in 1 .. Cardinality(S) : o[i] = x
  BY <1>5 DEF Surjection
<1> HIDE DEF o
<1>7. o \in Seq(S) /\ Len(o) = Cardinality(S)
  BY <1>1, <1>2 DEF o
<1> QED BY <1>1, <1>2, <1>6, <1>7 DEF o

LEMMA MaxIs ==
    ASSUME NEW S \in SUBSET Nat, IsFiniteSet(S), S # {}
    PROVE  Max(S) \in S /\ \A x \in S : Max(S) >= x
<1> DEFINE o == InOrder(S)
           n == Cardinality(S)
<1>1. n \in Nat /\ o \in [1 .. n -> S] /\ n # 0
  BY InOrderIs, FS_EmptySet
<1>2. \A i, j \in 1 .. n : i < j => o[i] < o[j]
  BY InOrderIs
<1>3. \A x \in S : \E i \in 1 .. n : o[i] = x
  BY InOrderIs
<1> HIDE DEF o, n
<1>4. n \in 1 .. n
  BY <1>1
<1>6. o[n] \in S
  BY <1>1, <1>4
<1>7. o[n] \in Nat
  BY <1>6
<1>5. ASSUME NEW x \in S PROVE o[n] >= x
  <2>1. PICK i \in 1 .. n : o[i] = x
    BY <1>3
  <2>2. i = n \/ (i < n /\ o[i] < o[n])
    BY <1>1, <1>2, <1>4
  <2> QED BY <1>7, <2>1, <2>2
<1> QED BY <1>6, <1>5 DEF Max

LEMMA MinIs ==
    ASSUME NEW S \in SUBSET Nat, IsFiniteSet(S), S # {}
    PROVE  Min(S) \in S /\ \A x \in S : Min(S) <= x
<1> DEFINE o == InOrder(S)
           n == Cardinality(S)
<1>1. n \in Nat /\ o \in [1 .. n -> S] /\ n # 0
  BY InOrderIs, FS_EmptySet
<1>2. \A i, j \in 1 .. n : i < j => o[i] < o[j]
  BY InOrderIs
<1>3. \A x \in S : \E i \in 1 .. n : o[i] = x
  BY InOrderIs
<1> HIDE DEF o, n
<1>4. 1 \in 1 .. n
  BY <1>1
<1>6. o[1] \in S
  BY <1>1, <1>4
<1>7. o[1] \in Nat
  BY <1>6
<1>5. ASSUME NEW x \in S PROVE o[1] <= x
  <2>1. PICK i \in 1 .. n : o[i] = x
    BY <1>3
  <2>2. i = 1 \/ (1 < i /\ o[1] < o[i])
    BY <1>1, <1>2, <1>4
  <2> QED BY <1>7, <2>1, <2>2
<1> QED BY <1>6, <1>5 DEF Min

LEMMA SetToSeqIs ==
    ASSUME NEW S, IsFiniteSet(S)
    PROVE  SetToSeq(S) \in Seq(S)
<1>1. Cardinality(S) \in Nat
  BY FS_CardinalityType
<1>2. \E f \in [1 .. Cardinality(S) -> S] : IsInjective(f)
  BY FS_CardinalityType DEF ExistsBijection, Bijection, Injection
<1>3. SetToSeq(S) \in [1 .. Cardinality(S) -> S]
  BY <1>2 DEF SetToSeq
<1> QED BY <1>1, <1>3

\* The row and the column of the k-th cell of a table.
LEMMA Row ==
    ASSUME NEW m \in Nat, NEW l \in Nat, NEW k \in 1 .. l * m
    PROVE  /\ ((k - 1) \div m) + 1 \in 1 .. l
           /\ ((k - 1) % m) + 1 \in 1 .. m
<1>1. m > 0
  <2>1. CASE m = 0
    BY <2>1
  <2> QED BY <2>1
<1>2. l * m \in Nat /\ k \in Nat /\ k - 1 \in Nat
  OBVIOUS
<1>3. ((k - 1) % m) \in 0 .. (m - 1)
  BY <1>1, <1>2
<1> DEFINE q == (k - 1) \div m
<1>4. q \in Nat
  BY <1>1, <1>2
<1>5. q * m <= k - 1
  BY <1>1, <1>2
<1> HIDE DEF q
<1>6. q < l
  <2>1. CASE q >= l
    <3>1. q * m >= l * m
      BY <2>1, <1>1, <1>4
    <3> QED BY <3>1, <1>5, <1>2, <1>4
  <2> QED BY <2>1, <1>4
<1>7. q + 1 \in 1 .. l
  BY <1>4, <1>6
<1> QED BY <1>3, <1>7, <1>1 DEF q

-----------------------------------------------------------------------------
(* Types                                                                   *)

ToDo == todo \in [Runners -> Seq(Steps)]

LEMMA StepsAre ==
    /\ \A op \in {"list", "gather", "due", "reserve", "restart", "verified"} : Op(op) \in Steps
    /\ \A op \in {"capture", "append", "signal", "enqueue", "rules", "mark"}, n \in Nat : On(op, n) \in Steps
    /\ \A f \in BOOLEAN : [op |-> "sample", force |-> f] \in Steps
    /\ \A ns \in Seq(Nat), n \in Nat : [op |-> "endCapture", new |-> ns, last |-> n] \in Steps
    /\ \A n \in Nat, d \in Dests : [op |-> "deliver", sig |-> n, dest |-> d] \in Steps
    /\ \A n \in Nat, d \in Dests, ok \in BOOLEAN :
          [op |-> "record", sig |-> n, dest |-> d, ok |-> ok] \in Steps
BY DEF Steps, Op, On

LEMMA FieldsAre ==
    ASSUME NEW s \in Steps
    PROVE  /\ s.op \in {"capture", "append", "signal", "enqueue", "rules", "mark"} => s.n \in Nat
           /\ s.op = "endCapture" => s.new \in Seq(Nat) /\ s.last \in Nat
           /\ s.op \in {"deliver", "record"} => s.sig \in Nat /\ s.dest \in Dests
           /\ s.op = "record" => s.ok \in BOOLEAN
BY DEF Steps

LEMMA HeadIs ==
    ASSUME ToDo, NEW r \in Runners, todo[r] # <<>>
    PROVE  /\ Head(todo[r]) \in Steps /\ Head(todo[r]) = todo[r][1]
           /\ todo[r] \in Seq(Steps) /\ Len(todo[r]) \in Nat \ {0}
           /\ DOMAIN todo[r] = 1 .. Len(todo[r])
BY DEF ToDo

LEMMA GoesIs ==
    ASSUME ToDo, NEW r \in Runners, todo[r] # <<>>, NEW a \in Seq(Steps), Goes(r, a)
    PROVE  /\ ToDo' /\ todo'[r] = a \o Tail(todo[r])
           /\ \A q \in Runners \ {r} : todo'[q] = todo[q]
<1>1. todo[r] \in Seq(Steps)
  BY DEF ToDo
<1>2. a \o Tail(todo[r]) \in Seq(Steps)
  BY <1>1, Continued
<1> QED BY <1>2 DEF ToDo, Goes

LEMMA FailsIs ==
    ASSUME ToDo, NEW r \in Runners, Fails(r)
    PROVE  /\ ToDo' /\ todo'[r] = <<>>
           /\ \A q \in Runners \ {r} : todo'[q] = todo[q]
BY DEF ToDo, Fails

LEMMA RecordIs ==
    ASSUME NEW ns \in Seq(Nat)
    PROVE  /\ Record(ns) \in Seq(Steps) /\ RulesFor(ns) \in Seq(Steps)
           /\ Len(Record(ns)) = Len(ns) /\ Len(RulesFor(ns)) = Len(ns)
           /\ \A i \in 1 .. Len(ns) : Record(ns)[i] = On("signal", ns[i]) /\ RulesFor(ns)[i] = On("rules", ns[i])
<1>1. \A i \in 1 .. Len(ns) : ns[i] \in Nat
  OBVIOUS
<1>2. \A i \in 1 .. Len(ns) : On("signal", ns[i]) \in Steps /\ On("rules", ns[i]) \in Steps
  BY <1>1, StepsAre
<1> QED BY <1>2 DEF Record, RulesFor

LEMMA IdsAre ==
    ASSUME NEW n \in Nat, NEW k \in Nat
    PROVE  /\ Ids(n, k) \in Seq(Nat) /\ Len(Ids(n, k)) = k
           /\ \A i \in 1 .. k : Ids(n, k)[i] = n + i
BY DEF Ids

LEMMA StateIs ==
    ASSUME NEW s \in State
    PROVE  /\ s.config \in Config /\ s.deliveries \in Seq(Delivery) /\ s.payloads \in SUBSET Nat
           /\ s.lastEvent \in Nat /\ s.lastKernel \in Nat /\ s.sampled \in BOOLEAN /\ s.exists \in BOOLEAN
BY DEF State

LEMMA BoundedIs ==
    ASSUME NEW s \in State
    PROVE  /\ Bounded(s) \in State /\ Bounded(s).config = s.config
           /\ Bounded(s).lastEvent = s.lastEvent /\ Bounded(s).exists
           /\ \E cut \in 0 .. Len(s.deliveries) :
                 /\ Bounded(s).deliveries = SubSeq(s.deliveries, cut + 1, Len(s.deliveries))
                 /\ cut = IF Len(s.deliveries) > MaxHistory THEN Len(s.deliveries) - MaxHistory ELSE 0
                 /\ Bounded(s).payloads = s.payloads \ {s.deliveries[i].sig : i \in 1 .. cut}
<1> DEFINE n == Len(s.deliveries)
           cut == IF n > MaxHistory THEN n - MaxHistory ELSE 0
           kept == SubSeq(s.deliveries, cut + 1, n)
           paid == s.payloads \ {s.deliveries[i].sig : i \in 1 .. cut}
<1>1. MaxHistory \in Nat
  BY OperationsConstants
<1>2. s.deliveries \in Seq(Delivery) /\ n \in Nat
  BY StateIs
<1>3. cut \in 0 .. n
  BY <1>1, <1>2
<1>4. kept \in Seq(Delivery)
  <2> HIDE DEF cut
  <2>1. \A i \in cut + 1 .. n : s.deliveries[i] \in Delivery
    BY <1>2, <1>3
  <2> QED BY <1>2, <1>3, <2>1
<1>5. paid \in SUBSET Nat
  BY StateIs
<1>6. Bounded(s) = [s EXCEPT !.deliveries = kept, !.payloads = paid, !.exists = TRUE]
  BY DEF Bounded
<1> HIDE DEF cut, kept, paid
<1>7. /\ Bounded(s) \in State /\ Bounded(s).config = s.config
      /\ Bounded(s).lastEvent = s.lastEvent /\ Bounded(s).exists
      /\ Bounded(s).deliveries = kept /\ Bounded(s).payloads = paid
  BY <1>4, <1>5, <1>6 DEF State
<1> QED BY <1>3, <1>7 DEF cut, kept, paid

LEMMA SaveIs ==
    ASSUME state \in State, backup \in Config \cup {NoConfig, Torn}, NEW s \in State, SaveState(s)
    PROVE  /\ state' \in State /\ backup' \in Config \cup {NoConfig, Torn}
           /\ state'.config = s.config /\ state'.lastEvent = s.lastEvent
           /\ state.exists => state'.exists
           /\ backup' = backup \/ (backup = NoConfig /\ backup' = state.config /\ state.exists)
<1>1. CASE s = state
  BY <1>1 DEF SaveState
<1>2. CASE s # state
  <2>1. state' = Bounded(s)
    BY <1>2 DEF SaveState
  <2> QED BY <2>1, <1>2, BoundedIs, StateIs DEF SaveState
<1> QED BY <1>1, <1>2

\* What a queue of deliveries gains when the signals ns are queued.
NewDeliveries(s, ns, new) ==
    /\ new \in Seq(Delivery)
    /\ \A k \in 1 .. Len(new) : \E i \in 1 .. Len(ns) : new[k].sig = ns[i]

LEMMA EnqueuedIs ==
    ASSUME NEW s \in State, NEW ns \in Seq(Nat)
    PROVE  /\ Enqueued(s, ns) \in State /\ Enqueued(s, ns).config = s.config
           /\ Enqueued(s, ns).lastEvent = s.lastEvent
           /\ \E new : NewDeliveries(s, ns, new) /\ Enqueued(s, ns).deliveries = s.deliveries \o new
<1> DEFINE D == {d \in s.config.subs : s.config.dest[d] = "on"}
           ds == SetToSeq(D)
           m == Len(ds)
           new == [k \in 1 .. Len(ns) * m |->
                     [sig |-> ns[((k - 1) \div m) + 1], dest |-> ds[((k - 1) % m) + 1],
                      status |-> "pending", attempts |-> 0, due |-> TRUE]]
           paid == IF ds = <<>> THEN s.payloads ELSE s.payloads \cup ToSet(ns)
<1>1. s.config.subs \subseteq Dests
  BY StateIs DEF Config
<1>2. D \in SUBSET Dests /\ IsFiniteSet(D)
  BY <1>1, OperationsConstants, FS_Subset
<1>3. ds \in Seq(D)
  BY <1>2, SetToSeqIs
<1> HIDE DEF ds
<1>4. m \in Nat /\ Len(ns) \in Nat /\ Len(ns) * m \in Nat
  BY <1>3
<1>5. ASSUME NEW k \in 1 .. Len(ns) * m
      PROVE  new[k] \in Delivery /\ \E i \in 1 .. Len(ns) : new[k].sig = ns[i]
  <2> DEFINE a == ((k - 1) \div m) + 1
             b == ((k - 1) % m) + 1
  <2>1. a \in 1 .. Len(ns) /\ b \in 1 .. m
    BY <1>4, Row
  <2>2. new[k] = [sig |-> ns[a], dest |-> ds[b], status |-> "pending", attempts |-> 0, due |-> TRUE]
    OBVIOUS
  <2> HIDE DEF a, b, new
  <2>3. ns[a] \in Nat /\ ds[b] \in Dests
    BY <2>1, <1>2, <1>3
  <2> QED BY <2>1, <2>2, <2>3 DEF Delivery, Statuses
<1>6. new \in Seq(Delivery) /\ Len(new) = Len(ns) * m
  <2> DEFINE f(k) == new[k]
  <2>1. new = [k \in 1 .. Len(ns) * m |-> new[k]]
    OBVIOUS
  <2> HIDE DEF new, m
  <2>2. new \in [1 .. Len(ns) * m -> Delivery]
    BY <1>5, <2>1
  <2> QED BY <2>2, <1>4
<1>7. paid \in SUBSET Nat
  BY StateIs DEF ToSet
<1>8. Enqueued(s, ns) = [s EXCEPT !.deliveries = @ \o new, !.payloads = paid]
  BY DEF Enqueued, ds
<1> HIDE DEF new, paid, m
<1>9. s.deliveries \o new \in Seq(Delivery)
  BY <1>6, StateIs
<1>10. /\ Enqueued(s, ns) \in State /\ Enqueued(s, ns).config = s.config
       /\ Enqueued(s, ns).lastEvent = s.lastEvent /\ Enqueued(s, ns).deliveries = s.deliveries \o new
  BY <1>7, <1>8, <1>9 DEF State
<1>11. NewDeliveries(s, ns, new)
  BY <1>5, <1>6 DEF NewDeliveries
<1> QED BY <1>10, <1>11

LEMMA NewestIs ==
    ASSUME events \in Seq(Nat), late \in Nat
    PROVE  /\ Newest \in Nat /\ Newest >= late
           /\ \A i \in 1 .. Len(events) : Newest >= events[i]
<1> DEFINE E == {events[i] : i \in DOMAIN events}
           S == {0, late} \cup E
<1>1. E = {events[i] : i \in 1 .. Len(events)} /\ Len(events) \in Nat
  OBVIOUS
<1>2. IsFiniteSet(E)
  <2>1. IsFiniteSet(1 .. Len(events))
    BY <1>1, FS_Interval
  <2>2. events \in Surjection(1 .. Len(events), E)
    BY <1>1 DEF Surjection
  <2> QED BY <2>1, <2>2, FS_Surjection
<1>3. IsFiniteSet({0, late})
  <2>1. IsFiniteSet({0} \cup {late})
    BY FS_Singleton, FS_Union
  <2> QED BY <2>1
<1>4. IsFiniteSet(S)
  BY <1>2, <1>3, FS_Union
<1>5. S \in SUBSET Nat /\ S # {}
  OBVIOUS
<1>6. Max(S) \in S /\ \A x \in S : Max(S) >= x
  BY <1>4, <1>5, MaxIs
<1> QED BY <1>5, <1>6 DEF Newest

LEMMA ConfigureIs ==
    ASSUME state \in State, backup \in Config \cup {NoConfig, Torn}, NEW c \in Config, Configure(c)
    PROVE  /\ state' \in State /\ backup' \in Config \cup {NoConfig, Torn}
           /\ state'.config = c /\ state'.lastEvent = state.lastEvent
           /\ \/ c = state.config /\ state' = state /\ backup' = backup
              \/ c # state.config /\ state'.exists
                 /\ backup' = IF state.exists THEN state.config ELSE backup
<1> DEFINE s == [state EXCEPT !.config = c]
<1>1. s \in State /\ s.config = c /\ s.lastEvent = state.lastEvent
  BY DEF State
<1>2. CASE c = state.config
  <2>1. s = state
    BY <1>2 DEF State
  <2> QED BY <1>1, <1>2, <2>1 DEF Configure, WriteState
<1>3. CASE c # state.config
  <2>1. s # state
    BY <1>1, <1>3
  <2>2. state' = Bounded(s) /\ backup' = IF state.exists THEN state.config ELSE backup
    BY <2>1 DEF Configure, WriteState
  <2> QED BY <1>1, <1>3, <2>2, BoundedIs, StateIs
<1> QED BY <1>2, <1>3

LEMMA ConfigIs ==
    ASSUME NEW c \in Config
    PROVE  /\ c.dest \in [Dests -> Mode] /\ c.subs \in SUBSET Dests /\ c.rule \in Rule
           /\ c.rule.attempts \in Nat /\ c.rule.cooling \in BOOLEAN /\ c.rule.mode \in Mode
BY DEF Config, Rule

\* The events a capture of the first n finds, in their order.
LEMMA FreshIs ==
    ASSUME events \in Seq(Nat), NEW n \in Nat, n <= Len(events)
    PROVE  /\ Fresh(n) \in Seq(Nat)
           /\ \A i \in 1 .. Len(Fresh(n)) :
                 Fresh(n)[i] \in 1 .. n /\ events[Fresh(n)[i]] > state.lastEvent
           /\ \A i, j \in 1 .. Len(Fresh(n)) : i < j =>
                 Fresh(n)[i] < Fresh(n)[j] /\ events[Fresh(n)[i]] < events[Fresh(n)[j]]
<1> DEFINE S == {i \in 1 .. n : /\ events[i] > state.lastEvent
                                /\ \A j \in 1 .. i - 1 : events[j] < events[i]}
<1>1. S \in SUBSET (1 .. n) /\ IsFiniteSet(1 .. n)
  BY FS_Interval
<1>2. IsFiniteSet(S) /\ S \in SUBSET Nat
  BY <1>1, FS_Subset
<1>3. Fresh(n) = InOrder(S)
  BY DEF Fresh
<1>4. \A x \in S : x \in 1 .. n /\ events[x] > state.lastEvent
  OBVIOUS
<1>5. \A x, y \in S : x < y => events[x] < events[y]
  OBVIOUS
<1> HIDE DEF S
<1> DEFINE m == Cardinality(S)
           o == InOrder(S)
<1>6. m \in Nat /\ o \in Seq(S) /\ Len(o) = m
  BY <1>2, InOrderIs
<1>7. o \in [1 .. m -> S]
  BY <1>2, InOrderIs
<1>8. \A i, j \in 1 .. m : i < j => o[i] < o[j]
  BY <1>2, InOrderIs
<1> HIDE DEF o, m
<1>9. \A i \in 1 .. m : o[i] \in S
  BY <1>7
<1>10. o \in Seq(Nat)
  <2>1. \A i \in 1 .. m : o[i] \in Nat
    BY <1>2, <1>9
  <2> QED BY <2>1, <1>6
<1>11. \A i \in 1 .. m : o[i] \in 1 .. n /\ events[o[i]] > state.lastEvent
  BY <1>4, <1>9
<1>12. \A i, j \in 1 .. m : i < j => o[i] < o[j] /\ events[o[i]] < events[o[j]]
  BY <1>5, <1>8, <1>9
<1>13. Fresh(n) = o
  BY <1>3 DEF o
<1> QED BY <1>6, <1>10, <1>11, <1>12, <1>13

-----------------------------------------------------------------------------
(* Every step keeps the types.                                             *)

StateTypes == state \in State /\ backup \in Config \cup {NoConfig, Torn}

LEMMA TypesGive ==
    ASSUME TypeOK
    PROVE  StateTypes /\ ToDo /\ events \in Seq(Nat) /\ late \in Nat /\ signals \in Seq(Signal)
BY DEF TypeOK, StateTypes, ToDo

LEMMA InitTypes == Init => TypeOK
<1> SUFFICES ASSUME Init PROVE TypeOK
  OBVIOUS
<1>1. scenario.config \in Config
  BY OperationsConstants DEF Init
<1>2. FreshState.deliveries \in Seq(Delivery)
  BY DEF FreshState
<1>3. Configured(scenario) \in State
  BY <1>1, <1>2 DEF Configured, FreshState, State
<1>4. \A r \in Runners : <<>> \in Seq(Steps)
  OBVIOUS
<1>5. ToDo
  BY <1>4 DEF Init, ToDo
<1>6. events \in Seq(Nat) /\ signals \in Seq(Signal) /\ timeline \in Seq(Nat)
  BY DEF Init
<1>7. late \in Nat /\ kernel \in Nat /\ {asked, crashes, tries, window} \subseteq Nat
  BY DEF Init
<1>8. state \in State
  BY <1>3 DEF Init
<1>9. saveDied \in BOOLEAN
  BY DEF Init
<1>10. /\ scenario \in Scenarios /\ secrets \subseteq Dests
       /\ backup \in Config \cup {NoConfig, Torn} /\ lock \in Runners \cup {NoRunner}
       /\ previous \in Config \cup {NoConfig}
  BY DEF Init
<1> QED BY <1>5, <1>6, <1>7, <1>8, <1>9, <1>10 DEF TypeOK, ToDo

\* What comes from outside
LEMMA OutsideTypes ==
    ASSUME TypeOK,
           \/ RecordEvent \/ StampEvent \/ AppendLateEvent \/ KernelEvent
           \/ \E d \in Dests : ToggleSecret(d)
    PROVE  TypeOK'
<1>1. Newest \in Nat
  BY NewestIs DEF TypeOK
<1>0. late' \in Nat
  BY <1>1 DEF TypeOK, RecordEvent, StampEvent, AppendLateEvent, KernelEvent, ToggleSecret
<1>2. events' \in Seq(Nat)
  <2>1. events' = events \/ events' = Append(events, Newest + 1) \/ events' = Append(events, late)
    BY DEF RecordEvent, StampEvent, AppendLateEvent, KernelEvent, ToggleSecret
  <2>2. Newest + 1 \in Nat /\ late \in Nat /\ events \in Seq(Nat)
    BY <1>1 DEF TypeOK
  <2>3. Append(events, Newest + 1) \in Seq(Nat)
    BY <2>2
  <2>4. Append(events, late) \in Seq(Nat)
    BY <2>2
  <2> QED BY <2>1, <2>2, <2>3, <2>4
<1>3. kernel' \in Nat /\ asked' \in Nat
  BY DEF TypeOK, RecordEvent, StampEvent, AppendLateEvent, KernelEvent, ToggleSecret, Ask
<1>4. secrets' \subseteq Dests
  BY DEF TypeOK, RecordEvent, StampEvent, AppendLateEvent, KernelEvent, ToggleSecret, Ask
<1>5. UNCHANGED <<scenario, internal, crashes, history>>
  BY DEF RecordEvent, StampEvent, AppendLateEvent, KernelEvent, ToggleSecret
<1> QED BY <1>0, <1>2, <1>3, <1>4, <1>5 DEF TypeOK, internal, history

\* The passage of time
LEMMA TimeTypes ==
    ASSUME TypeOK, WindowElapses \/ CooldownElapses \/ DelayElapses
    PROVE  TypeOK'
<1>1. CASE WindowElapses
  <2>1. state' \in State
    BY <1>1 DEF WindowElapses, TypeOK, State
  <2> QED BY <1>1, <2>1 DEF WindowElapses, TypeOK, outside, history, Ask
<1>2. CASE CooldownElapses
  <2>1. [state.config.rule EXCEPT !.cooling = FALSE] \in Rule
    BY StateIs, ConfigIs DEF TypeOK, Rule
  <2>2. [state.config EXCEPT !.rule.cooling = FALSE] \in Config
    BY <2>1, StateIs DEF TypeOK, Config
  <2>3. state' \in State
    BY <1>2, <2>2 DEF CooldownElapses, TypeOK, State
  <2> QED BY <1>2, <2>3 DEF CooldownElapses, TypeOK, outside, history
<1>3. CASE DelayElapses
  <2>1. PICK i \in DOMAIN state.deliveries : state' = [state EXCEPT !.deliveries[i].due = TRUE]
    BY <1>3 DEF DelayElapses
  <2>2. state.deliveries \in Seq(Delivery)
    BY StateIs DEF TypeOK
  <2>6. state.deliveries[i] \in Delivery
    BY <2>2
  <2>3. [state.deliveries[i] EXCEPT !.due = TRUE] \in Delivery
    BY <2>6 DEF Delivery
  <2>4. [state.deliveries EXCEPT ![i].due = TRUE] \in Seq(Delivery)
    BY <2>2, <2>3
  <2>5. state' \in State
    BY <2>1, <2>4 DEF TypeOK, State
  <2> QED BY <1>3, <2>5 DEF DelayElapses, TypeOK, outside, history
<1> QED BY <1>1, <1>2, <1>3

LEMMA HistoryTypes ==
    ASSUME TypeOK, NEW c \in Config, Reconfigures(c)
    PROVE  /\ tries' \in Nat /\ window' \in Nat
           /\ previous' \in Config \cup {NoConfig} /\ saveDied' \in BOOLEAN
<1>1. state.config \in Config
  BY StateIs DEF TypeOK
<1>2. tries' \in Nat /\ window' \in Nat
  BY DEF Reconfigures, history, TypeOK
<1>3. previous' \in Config \cup {NoConfig}
  BY <1>1 DEF Reconfigures, history, TypeOK
<1>4. saveDied' \in BOOLEAN
  <2>1. saveDied' = saveDied \/ saveDied' = FALSE
    BY DEF Reconfigures, history
  <2> QED BY <2>1 DEF TypeOK
<1> QED BY <1>2, <1>3, <1>4

LEMMA ConfigurationTypes ==
    ASSUME TypeOK,
           \/ \E d \in Dests : ApplySubscription(d)
           \/ \E d \in Dests, mode \in {"on", "off"} : ApplyDestination(d, mode)
           \/ \E mode \in {"on", "off"} : ApplyRule(mode)
           \/ RollbackConfiguration
    PROVE  /\ TypeOK'
           /\ \E c \in Config : Configure(c) /\ c.rule \in {state.config.rule, NewRule("on"), NewRule("off")}
                                    \cup (IF backup \in Config THEN {backup.rule} ELSE {})
<1>1. state.config \in Config
  BY StateIs DEF TypeOK
<1>2. \E c \in Config : /\ Configure(c)
                        /\ c.rule \in {state.config.rule, NewRule("on"), NewRule("off")}
                              \cup (IF backup \in Config THEN {backup.rule} ELSE {})
  <2>1. CASE \E d \in Dests : ApplySubscription(d)
    <3>1. PICK d \in Dests : ApplySubscription(d)
      BY <2>1
    <3> DEFINE c == [state.config EXCEPT !.subs = @ \cup {d}]
    <3>2. c \in Config /\ c.rule = state.config.rule
      BY <1>1 DEF Config
    <3> QED BY <3>1, <3>2 DEF ApplySubscription
  <2>2. CASE \E d \in Dests, mode \in {"on", "off"} : ApplyDestination(d, mode)
    <3>1. PICK d \in Dests, mode \in {"on", "off"} : ApplyDestination(d, mode)
      BY <2>2
    <3> DEFINE c == [state.config EXCEPT !.dest[d] = mode]
    <3>2. c \in Config /\ c.rule = state.config.rule
      BY <1>1 DEF Config, Mode
    <3> QED BY <3>1, <3>2 DEF ApplyDestination
  <2>3. CASE \E mode \in {"on", "off"} : ApplyRule(mode)
    <3>1. PICK mode \in {"on", "off"} : ApplyRule(mode)
      BY <2>3
    <3> DEFINE c == [state.config EXCEPT !.rule = NewRule(mode)]
    <3>2. c \in Config /\ c.rule = NewRule(mode)
      BY <1>1 DEF Config, Mode, Rule, NewRule
    <3> QED BY <3>1, <3>2 DEF ApplyRule
  <2>4. CASE RollbackConfiguration
    <3>1. backup \in Config /\ Configure(backup)
      BY <2>4 DEF RollbackConfiguration, TypeOK
    <3> QED BY <3>1
  <2> QED BY <2>1, <2>2, <2>3, <2>4
<1>3. PICK c \in Config : Configure(c)
  BY <1>2
<1>4. state' \in State /\ backup' \in Config \cup {NoConfig, Torn}
  BY <1>3, ConfigureIs DEF TypeOK
<1>5. tries' \in Nat /\ window' \in Nat /\ previous' \in Config \cup {NoConfig} /\ saveDied' \in BOOLEAN
  BY <1>3, HistoryTypes DEF Configure
<1>6. UNCHANGED <<scenario, outside, signals, timeline, lock, todo, crashes>>
  BY <1>3 DEF Configure
<1>7. asked' \in Nat
  <2>1. asked' = asked + 1
    BY DEF ApplySubscription, ApplyDestination, ApplyRule, RollbackConfiguration, Ask
  <2> QED BY <2>1 DEF TypeOK
<1>8. TypeOK'
  BY <1>4, <1>5, <1>6, <1>7 DEF TypeOK, outside
<1> QED BY <1>2, <1>8

\* A process is started.
LEMMA StartTypes ==
    ASSUME TypeOK, NEW r \in Runners, RunOnce(r) \/ ObserveNow(r) \/ RecordProviderSignal(r)
    PROVE  TypeOK'
<1>1. CASE RunOnce(r)
  <2> DEFINE a == <<Op("list"), [op |-> "sample", force |-> FALSE], Op("due")>>
  <2>1. a \in Seq(Steps)
    <3>1. Op("list") \in Steps /\ Op("due") \in Steps
      BY StepsAre
    <3>2. [op |-> "sample", force |-> FALSE] \in Steps
      BY StepsAre
    <3> QED BY <3>1, <3>2
  <2>2. todo' = [todo EXCEPT ![r] = a]
    BY <1>1 DEF RunOnce, Starts
  <2> HIDE DEF a
  <2>3. ToDo'
    BY <2>1, <2>2, TypesGive DEF ToDo
  <2> QED BY <1>1, <2>3 DEF RunOnce, TypeOK, ToDo, outside, history
<1>2. CASE ObserveNow(r)
  <2> DEFINE a == <<[op |-> "sample", force |-> TRUE]>>
  <2>1. a \in Seq(Steps)
    <3>1. [op |-> "sample", force |-> TRUE] \in Steps
      BY StepsAre
    <3> QED BY <3>1
  <2>2. todo' = [todo EXCEPT ![r] = a]
    BY <1>2 DEF ObserveNow, Starts
  <2> HIDE DEF a
  <2>3. ToDo'
    BY <2>1, <2>2, TypesGive DEF ToDo
  <2>4. asked' \in Nat
    BY <1>2 DEF ObserveNow, Ask, TypeOK
  <2> QED BY <1>2, <2>3, <2>4 DEF ObserveNow, TypeOK, ToDo, outside, history
<1>3. CASE RecordProviderSignal(r)
  <2> DEFINE new == <<Len(signals) + 1>>
             a == Record(new) \o RulesFor(new)
  <2>1. new \in Seq(Nat)
    BY TypesGive
  <2>2. todo' = [todo EXCEPT ![r] = a]
    BY <1>3 DEF RecordProviderSignal, Starts
  <2> HIDE DEF new
  <2>3. a \in Seq(Steps)
    BY <2>1, RecordIs
  <2> HIDE DEF a
  <2>4. ToDo'
    BY <2>2, <2>3, TypesGive DEF ToDo
  <2>5. asked' \in Nat
    BY <1>3 DEF RecordProviderSignal, Ask, TypeOK
  <2>6. signals' \in Seq(Signal)
    <3>1. PICK f \in BOOLEAN : signals' = Append(signals, [from |-> "provider", n |-> 0, failing |-> f])
      BY <1>3 DEF RecordProviderSignal, Failing
    <3>2. [from |-> "provider", n |-> 0, failing |-> f] \in Signal
      BY DEF Signal, Sources
    <3> QED BY <3>1, <3>2, TypesGive
  <2> QED BY <1>3, <2>4, <2>5, <2>6 DEF RecordProviderSignal, TypeOK, ToDo, outside, history
<1> QED BY <1>1, <1>2, <1>3

\* The capture of events
CaptureSteps(new, last) ==
    [i \in 1 .. Len(new) |-> On("append", new[i])] \o <<[op |-> "endCapture", new |-> new, last |-> last]>>

LEMMA CaptureStepsAre ==
    ASSUME NEW new \in Seq(Nat), NEW last \in Nat
    PROVE  /\ CaptureSteps(new, last) \in Seq(Steps)
           /\ Len(CaptureSteps(new, last)) = Len(new) + 1
           /\ \A i \in 1 .. Len(new) : CaptureSteps(new, last)[i] = On("append", new[i])
           /\ CaptureSteps(new, last)[Len(new) + 1] = [op |-> "endCapture", new |-> new, last |-> last]
<1> DEFINE a == [i \in 1 .. Len(new) |-> On("append", new[i])]
           e == [op |-> "endCapture", new |-> new, last |-> last]
<1>1. \A i \in 1 .. Len(new) : new[i] \in Nat
  OBVIOUS
<1>2. \A i \in 1 .. Len(new) : On("append", new[i]) \in Steps
  BY <1>1, StepsAre
<1>3. a \in Seq(Steps) /\ Len(a) = Len(new) /\ \A i \in 1 .. Len(new) : a[i] = On("append", new[i])
  BY <1>2
<1>4. e \in Steps
  BY StepsAre
<1> HIDE DEF a, e
<1>5. <<e>> \in Seq(Steps) /\ Len(<<e>>) = 1 /\ <<e>>[1] = e
  BY <1>4
<1>6. CaptureSteps(new, last) = a \o <<e>>
  BY DEF CaptureSteps, a, e
<1>7. Len(a) \in Nat
  BY <1>3
<1> HIDE <1>3
<1>8. /\ a \o <<e>> \in Seq(Steps) /\ Len(a \o <<e>>) = Len(a) + 1
      /\ \A i \in 1 .. Len(a) : (a \o <<e>>)[i] = a[i]
      /\ (a \o <<e>>)[Len(a) + 1] = e
  BY <1>3, <1>5, <1>7
<1> QED BY <1>3, <1>6, <1>8 DEF e

\* Where the events of a capture end
LastOf(fresh) == IF fresh = <<>> THEN state.lastEvent ELSE events[Last(fresh)]

LEMMA BeginCaptureIs ==
    ASSUME TypeOK, NEW r \in Runners, BeginCapture(r), Head(todo[r]).n <= Len(events)
    PROVE  \E fresh \in Seq(Nat), f \in BOOLEAN :
              /\ fresh = Fresh(Head(todo[r]).n) /\ Len(fresh) \in Nat /\ LastOf(fresh) \in Nat
              /\ signals' = signals \o [i \in 1 .. Len(fresh) |->
                                          [from |-> "event", n |-> fresh[i], failing |-> f]]
              /\ [i \in 1 .. Len(fresh) |-> [from |-> "event", n |-> fresh[i], failing |-> f]] \in Seq(Signal)
              /\ Goes(r, CaptureSteps(Ids(Len(signals), Len(fresh)), LastOf(fresh)))
              /\ CaptureSteps(Ids(Len(signals), Len(fresh)), LastOf(fresh)) \in Seq(Steps)
<1> DEFINE n == Head(todo[r]).n
           fresh == Fresh(n)
           new == Ids(Len(signals), Len(fresh))
<1>1. todo[r] # <<>> /\ Head(todo[r]).op = "capture"
  BY DEF BeginCapture, At
<1>2. Head(todo[r]) \in Steps
  BY <1>1, HeadIs, TypesGive
<1>3. n \in Nat
  BY <1>1, <1>2, FieldsAre
<1>4. /\ fresh \in Seq(Nat)
      /\ \A i \in 1 .. Len(fresh) : fresh[i] \in 1 .. n
  BY <1>3, FreshIs, TypesGive
<1>5. PICK f \in BOOLEAN : signals' = signals \o [i \in 1 .. Len(fresh) |->
                                [from |-> "event", n |-> fresh[i], failing |-> f]]
  BY DEF BeginCapture, Failing
<1>6. Goes(r, CaptureSteps(new, LastOf(fresh)))
  BY DEF BeginCapture, CaptureSteps, LastOf
<1> HIDE DEF fresh, n
<1>7. Len(fresh) \in Nat /\ Len(signals) \in Nat
  BY <1>4, TypesGive
<1>8. LastOf(fresh) \in Nat
  <2>1. CASE fresh = <<>>
    BY <2>1, TypesGive, StateIs DEF LastOf, StateTypes
  <2>2. CASE fresh # <<>>
    <3>1. Len(fresh) \in 1 .. Len(fresh)
      BY <1>4, <2>2
    <3>2. fresh[Len(fresh)] \in 1 .. Len(events)
      <4>1. fresh[Len(fresh)] \in 1 .. n
        BY <1>4, <3>1
      <4>2. n <= Len(events) /\ Len(events) \in Nat
        BY TypesGive DEF n
      <4> QED BY <4>1, <4>2, <1>3
    <3>3. events[fresh[Len(fresh)]] \in Nat
      BY <3>2, TypesGive
    <3> QED BY <2>2, <3>3 DEF LastOf, Last
  <2> QED BY <2>1, <2>2
<1>9. new \in Seq(Nat)
  BY <1>7, IdsAre
<1> HIDE DEF new
<1>10. CaptureSteps(new, LastOf(fresh)) \in Seq(Steps)
  BY <1>8, <1>9, CaptureStepsAre
<1>11. [i \in 1 .. Len(fresh) |-> [from |-> "event", n |-> fresh[i], failing |-> f]] \in Seq(Signal)
  <2>1. \A i \in 1 .. Len(fresh) : fresh[i] \in Nat
    BY <1>4
  <2>2. \A i \in 1 .. Len(fresh) : [from |-> "event", n |-> fresh[i], failing |-> f] \in Signal
    BY <2>1 DEF Signal, Sources
  <2> QED BY <2>2, <1>7
<1> QED BY <1>4, <1>5, <1>6, <1>7, <1>8, <1>10, <1>11 DEF fresh, n, new

\* The steps of a process that change neither signals nor timeline
LEMMA ShortStepsAre ==
    /\ <<>> \in Seq(Steps) /\ <<Op("gather")>> \in Seq(Steps) /\ <<Op("reserve")>> \in Seq(Steps)
    /\ <<Op("restart")>> \in Seq(Steps)
    /\ \A n \in Nat : <<On("capture", n)>> \in Seq(Steps) /\ <<On("enqueue", n)>> \in Seq(Steps)
                      /\ <<On("mark", n)>> \in Seq(Steps)
<1>1. Op("gather") \in Steps /\ Op("reserve") \in Steps /\ Op("restart") \in Steps
  BY StepsAre
<1>2. \A n \in Nat : On("capture", n) \in Steps /\ On("enqueue", n) \in Steps /\ On("mark", n) \in Steps
  BY StepsAre
<1> QED BY <1>1, <1>2

LEMMA AttemptedIs ==
    ASSUME NEW d \in Delivery, NEW ok \in BOOLEAN
    PROVE  /\ Attempted(d, ok) \in Delivery
           /\ Attempted(d, ok).sig = d.sig /\ Attempted(d, ok).dest = d.dest
<1>1. PICK status \in Statuses :
          Attempted(d, ok) = [d EXCEPT !.attempts = @ + 1, !.status = status,
                                       !.due = @ /\ status # "retry"]
  BY DEF Attempted, Statuses
<1>2. (d.due /\ status # "retry") \in BOOLEAN
  OBVIOUS
<1>3. PICK due \in BOOLEAN : due = (d.due /\ status # "retry")
  BY <1>2
<1>4. Attempted(d, ok) = [d EXCEPT !.attempts = @ + 1, !.status = status, !.due = due]
  BY <1>1, <1>3
<1>5. d.attempts + 1 \in Nat
  BY DEF Delivery
<1>6. PICK n \in Nat : n = d.attempts + 1
  BY <1>5
<1>7. Attempted(d, ok) = [d EXCEPT !.attempts = n, !.status = status, !.due = due]
  BY <1>4, <1>6
<1> QED BY <1>7 DEF Delivery

\* Process r does one of the steps that read state.json or change it.
Updates(r) ==
    \/ ReserveSample(r) \/ MarkKernel(r) \/ EnqueueSubscriptions(r) \/ EndCapture(r)
    \/ ResetAttempts(r) \/ RecordDeliveryResult(r)

\* The state such a step writes differs from the old one in these parts.
Same(s, op) ==
    /\ s.config = IF op = "verified" THEN [state.config EXCEPT !.rule.attempts = 0] ELSE state.config
    /\ op # "endCapture" => s.lastEvent = state.lastEvent

LEMMA UpdatesAre ==
    ASSUME TypeOK, NEW r \in Runners, Updates(r)
    PROVE  /\ todo[r] # <<>>
           /\ \E s \in State :
                 /\ SaveState(s) /\ Same(s, Head(todo[r]).op)
                 /\ At(r, "endCapture") => s.lastEvent = Head(todo[r]).last
           /\ \/ Fails(r) /\ At(r, "record")
              \/ \E a \in Seq(Steps) :
                    /\ Goes(r, a)
                    /\ a \in {<<>>, <<Op("gather")>>}
                          \/ (At(r, "endCapture") /\ a = RulesFor(Head(todo[r]).new))
<1>0. state \in State /\ StateTypes
  BY TypesGive DEF TypeOK
<1>h. todo[r] # <<>> => Head(todo[r]) \in Steps
  BY HeadIs, TypesGive
<1>e. SaveState(state) <=> UNCHANGED <<state, backup>>
  BY DEF SaveState
<1>s. Head(todo[r]).op \notin {"endCapture", "verified"} => Same(state, Head(todo[r]).op)
  BY DEF Same
<1>1. CASE ReserveSample(r)
  <2>1. At(r, "sample")
    BY <1>1 DEF ReserveSample
  <2> DEFINE s == [state EXCEPT !.sampled = TRUE]
  <2>2. s \in State /\ s.config = state.config /\ s.lastEvent = state.lastEvent
    BY <1>0 DEF State
  <2>3. Same(s, "sample")
    BY <2>2 DEF Same
  <2>4. \/ Goes(r, <<>>) /\ SaveState(state)
        \/ Goes(r, <<Op("gather")>>) /\ SaveState(s)
    BY <1>1, <1>e DEF ReserveSample
  <2>5. Head(todo[r]).op = "sample" /\ todo[r] # <<>> /\ ~At(r, "endCapture")
    BY <2>1 DEF At
  <2> HIDE DEF s
  <2> QED BY <1>0, <1>s, <2>2, <2>3, <2>4, <2>5, ShortStepsAre
<1>2. CASE MarkKernel(r)
  <2>1. At(r, "mark")
    BY <1>2 DEF MarkKernel
  <2> DEFINE s == [state EXCEPT !.lastKernel = Max({@, Head(todo[r]).n})]
  <2>2. Head(todo[r]).op = "mark" /\ todo[r] # <<>> /\ ~At(r, "endCapture")
    BY <2>1 DEF At
  <2>3. Head(todo[r]).n \in Nat /\ state.lastKernel \in Nat
    BY <1>0, <1>h, <2>2, FieldsAre, StateIs
  <2>4. Max({state.lastKernel, Head(todo[r]).n}) \in Nat
    <3> DEFINE a == state.lastKernel
               b == Head(todo[r]).n
               S == {a} \cup {b}
    <3>1. IsFiniteSet(S)
      BY FS_Singleton, FS_Union
    <3>2. S = {state.lastKernel, Head(todo[r]).n} /\ S # {} /\ S \in SUBSET Nat
      BY <2>3
    <3> QED BY <3>1, <3>2, MaxIs
  <2>5. s \in State /\ s.config = state.config /\ s.lastEvent = state.lastEvent
    BY <1>0, <2>4 DEF State
  <2>6. Same(s, "mark")
    BY <2>5 DEF Same
  <2>7. Goes(r, <<>>) /\ SaveState(s)
    BY <1>2 DEF MarkKernel
  <2> HIDE DEF s
  <2> QED BY <2>2, <2>5, <2>6, <2>7, ShortStepsAre
<1>3. CASE EnqueueSubscriptions(r)
  <2>1. At(r, "enqueue")
    BY <1>3 DEF EnqueueSubscriptions
  <2> DEFINE s == Enqueued(state, <<Head(todo[r]).n>>)
  <2>2. Head(todo[r]).op = "enqueue" /\ todo[r] # <<>> /\ ~At(r, "endCapture")
    BY <2>1 DEF At
  <2>3. Head(todo[r]).n \in Nat
    BY <1>h, <2>2, FieldsAre
  <2>4. <<Head(todo[r]).n>> \in Seq(Nat)
    BY <2>3
  <2>5. s \in State /\ s.config = state.config /\ s.lastEvent = state.lastEvent
    BY <1>0, <2>4, EnqueuedIs
  <2>6. Same(s, "enqueue")
    BY <2>5 DEF Same
  <2>7. Goes(r, <<>>) /\ SaveState(s)
    BY <1>3 DEF EnqueueSubscriptions
  <2> HIDE DEF s
  <2> QED BY <2>2, <2>5, <2>6, <2>7, ShortStepsAre
<1>4. CASE EndCapture(r)
  <2>1. At(r, "endCapture")
    BY <1>4 DEF EndCapture
  <2> DEFINE step == Head(todo[r])
             t == [state EXCEPT !.lastEvent = step.last]
             s == Enqueued(t, step.new)
  <2>2. step.op = "endCapture" /\ todo[r] # <<>>
    BY <2>1 DEF At
  <2>3. step.new \in Seq(Nat) /\ step.last \in Nat
    BY <1>h, <2>2, FieldsAre
  <2>4. t \in State /\ t.config = state.config /\ t.lastEvent = step.last
    BY <1>0, <2>3 DEF State
  <2>7. Goes(r, RulesFor(step.new)) /\ SaveState(s)
    BY <1>4 DEF EndCapture
  <2> HIDE DEF step, t
  <2>5. s \in State /\ s.config = state.config /\ s.lastEvent = step.last
    BY <2>3, <2>4, EnqueuedIs
  <2> HIDE DEF s
  <2>6. Same(s, "endCapture")
    BY <2>5 DEF Same
  <2>8. RulesFor(step.new) \in Seq(Steps)
    BY <2>3, RecordIs
  <2> QED BY <2>1, <2>2, <2>5, <2>6, <2>7, <2>8 DEF step
<1>5. CASE ResetAttempts(r)
  <2>1. At(r, "verified")
    BY <1>5 DEF ResetAttempts
  <2> DEFINE c == [state.config EXCEPT !.rule.attempts = 0]
             s == [state EXCEPT !.config.rule.attempts = 0]
  <2>2. Head(todo[r]).op = "verified" /\ todo[r] # <<>> /\ ~At(r, "endCapture")
    BY <2>1 DEF At
  <2>3. state.config \in Config
    BY <1>0, StateIs
  <2>4. c \in Config
    BY <2>3 DEF Config, Rule
  <2>5. s \in State /\ s.config = c /\ s.lastEvent = state.lastEvent
    BY <1>0, <2>4 DEF State
  <2>6. Same(s, "verified")
    BY <2>5 DEF Same
  <2>7. Goes(r, <<>>) /\ SaveState(s)
    BY <1>5 DEF ResetAttempts
  <2> HIDE DEF s, c
  <2> QED BY <2>2, <2>5, <2>6, <2>7, ShortStepsAre
<1>6. CASE RecordDeliveryResult(r)
  <2>1. At(r, "record")
    BY <1>6 DEF RecordDeliveryResult
  <2> DEFINE step == Head(todo[r])
             i == Min(Matching(step))
             s == [state EXCEPT !.deliveries[i] = Attempted(@, step.ok)]
  <2>2. step.op = "record" /\ todo[r] # <<>> /\ ~At(r, "endCapture")
    BY <2>1 DEF At
  <2>3. CASE Matching(step) = {}
    <3>1. Fails(r) /\ SaveState(state)
      BY <1>6, <1>e, <2>3 DEF RecordDeliveryResult
    <3> QED BY <3>1, <1>0, <1>s, <2>1, <2>2
  <2>4. CASE Matching(step) # {}
    <3>1. Goes(r, <<>>) /\ SaveState(s)
      BY <1>6, <2>4 DEF RecordDeliveryResult
    <3>2. step.ok \in BOOLEAN
      BY <1>h, <2>2, FieldsAre
    <3> HIDE DEF step
    <3>3. state.deliveries \in Seq(Delivery)
      BY <1>0, StateIs
    <3>4. Matching(step) \in SUBSET (1 .. Len(state.deliveries)) /\ Len(state.deliveries) \in Nat
      BY <3>3 DEF Matching
    <3>5. IsFiniteSet(Matching(step)) /\ Matching(step) \in SUBSET Nat
      <4>1. IsFiniteSet(1 .. Len(state.deliveries))
        BY <3>4, FS_Interval
      <4> QED BY <4>1, <3>4, FS_Subset
    <3>6. i \in Matching(step)
      BY <2>4, <3>5, MinIs
    <3>7. i \in 1 .. Len(state.deliveries)
      BY <3>4, <3>6
    <3> HIDE DEF i
    <3>8. state.deliveries[i] \in Delivery
      BY <3>3, <3>7
    <3>9. Attempted(state.deliveries[i], step.ok) \in Delivery
      BY <3>8, <3>2, AttemptedIs
    <3>10. [state.deliveries EXCEPT ![i] = Attempted(@, step.ok)] \in Seq(Delivery)
      BY <3>3, <3>7, <3>9
    <3>11. s \in State /\ s.config = state.config /\ s.lastEvent = state.lastEvent
      BY <1>0, <3>10 DEF State
    <3>12. Same(s, "record")
      BY <3>11 DEF Same
    <3> HIDE DEF s
    <3> QED BY <2>2, <3>1, <3>11, <3>12, ShortStepsAre DEF step
  <2> QED BY <2>3, <2>4
<1> QED BY <1>1, <1>2, <1>3, <1>4, <1>5, <1>6 DEF Updates

\* Steps that touch neither the timeline nor a capture nor a restart
Plain == {"list", "sample", "gather", "due", "reserve", "enqueue", "rules", "mark", "deliver", "record"}
IsPlain(a) == a \in Seq(Steps) /\ \A k \in 1 .. Len(a) : a[k].op \in Plain

\* Those of them that have nothing to do with the queue of deliveries
Dull == {"list", "sample", "gather", "reserve", "rules", "mark"}
IsDull(a) == a \in Seq(Steps) /\ \A k \in 1 .. Len(a) : a[k].op \in Dull

\* What recording the signals new leaves to do, after the steps b
Recording(b, new) == b \o Record(new) \o RulesFor(new)

LEMMA RecordingIs ==
    ASSUME NEW b, IsPlain(b), NEW new \in Seq(Nat)
    PROVE  /\ Recording(b, new) \in Seq(Steps) /\ Len(b) \in Nat /\ Len(new) \in Nat
           /\ Len(Recording(b, new)) = Len(b) + Len(new) + Len(new)
           /\ \A k \in 1 .. Len(b) : Recording(b, new)[k] = b[k]
           /\ \A k \in 1 .. Len(new) : Recording(b, new)[Len(b) + k] = On("signal", new[k])
           /\ \A k \in 1 .. Len(new) : Recording(b, new)[Len(b) + Len(new) + k] = On("rules", new[k])
<1> DEFINE s == Record(new)
           t == RulesFor(new)
<1>1. /\ s \in Seq(Steps) /\ t \in Seq(Steps) /\ Len(s) = Len(new) /\ Len(t) = Len(new)
      /\ \A i \in 1 .. Len(new) : s[i] = On("signal", new[i]) /\ t[i] = On("rules", new[i])
  BY RecordIs
<1>2. b \in Seq(Steps) /\ Len(b) \in Nat /\ Len(new) \in Nat
  BY DEF IsPlain
<1>3. Recording(b, new) = (b \o s) \o t
  BY DEF Recording
<1> HIDE DEF s, t
<1> DEFINE u == b \o s
<1>4. /\ u \in Seq(Steps) /\ Len(u) = Len(b) + Len(s)
      /\ \A k \in 1 .. Len(b) : u[k] = b[k]
      /\ \A k \in 1 .. Len(s) : u[Len(b) + k] = s[k]
  <2>1. b \in Seq(Steps) /\ s \in Seq(Steps)
    BY <1>1, <1>2
  <2> QED BY ONLY <2>1, Joined DEF u
<1> HIDE DEF u
<1>5. /\ u \o t \in Seq(Steps) /\ Len(u \o t) = Len(u) + Len(t)
      /\ \A k \in 1 .. Len(u) : (u \o t)[k] = u[k]
      /\ \A k \in 1 .. Len(t) : (u \o t)[Len(u) + k] = t[k]
  <2>1. u \in Seq(Steps) /\ t \in Seq(Steps)
    BY <1>1, <1>4
  <2> QED BY ONLY <2>1, Joined
<1>6. Recording(b, new) = u \o t
  BY <1>3 DEF u
<1>7. \A k \in 1 .. Len(b) : k \in 1 .. Len(u)
  BY <1>1, <1>2, <1>4
<1>8. \A k \in 1 .. Len(new) : Len(b) + k \in 1 .. Len(u)
  BY <1>1, <1>2, <1>4
<1> QED BY <1>1, <1>2, <1>4, <1>5, <1>6, <1>7, <1>8

LEMMA GatherIs ==
    ASSUME TypeOK, NEW r \in Runners, Gather(r), ~(Fails(r) /\ UNCHANGED signals)
    PROVE  \E b, new, made :
              /\ IsPlain(b) /\ IsDull(b) /\ new \in Seq(Nat) /\ made \in Seq(Signal)
              /\ Len(made) = Len(new) /\ \A i \in 1 .. Len(made) : made[i].from # "event"
              /\ \A i \in 1 .. Len(new) : new[i] = Len(signals) + i
              /\ signals' = signals \o made /\ Goes(r, Recording(b, new))
<1>1. PICK f \in BOOLEAN :
         LET host == <<[from |-> "host", n |-> 0, failing |-> FALSE]>>
                     \o (IF f THEN <<[from |-> "host", n |-> 0, failing |-> TRUE]>> ELSE <<>>)
             lines == [i \in 1 .. kernel - state.lastKernel |->
                         [from |-> "kernel", n |-> state.lastKernel + i, failing |-> FALSE]]
             new == Ids(Len(signals), Len(host \o lines))
         IN  /\ signals' = signals \o host \o lines
             /\ Goes(r, (IF lines = <<>> THEN <<>> ELSE <<On("mark", kernel)>>)
                         \o Record(new) \o RulesFor(new))
  BY DEF Gather, Failing
<1> DEFINE h == [from |-> "host", n |-> 0, failing |-> FALSE]
           u == [from |-> "host", n |-> 0, failing |-> TRUE]
           host == <<h>> \o (IF f THEN <<u>> ELSE <<>>)
           lines == [i \in 1 .. kernel - state.lastKernel |->
                       [from |-> "kernel", n |-> state.lastKernel + i, failing |-> FALSE]]
           Made == {s \in Signal : s.from # "event"}
           b == IF lines = <<>> THEN <<>> ELSE <<On("mark", kernel)>>
<1>2. kernel \in Nat /\ state.lastKernel \in Nat /\ signals \in Seq(Signal)
  BY StateIs DEF TypeOK
<1>3. lines \in Seq(Made)
  <2>1. kernel - state.lastKernel \in Int
    BY <1>2
  <2>2. \A i \in 1 .. kernel - state.lastKernel :
          [from |-> "kernel", n |-> state.lastKernel + i, failing |-> FALSE] \in Made
    BY <1>2 DEF Signal, Sources
  <2>3. CASE kernel - state.lastKernel \in Nat
    BY <2>2, <2>3
  <2>4. CASE kernel - state.lastKernel < 0
    <3>1. 1 .. kernel - state.lastKernel = {} /\ 1 .. 0 = {}
      BY <2>1, <2>4
    <3>2. lines = [i \in 1 .. 0 |-> h]
      BY <3>1
    <3>3. [i \in 1 .. 0 |-> h] \in Seq(Made)
      BY <3>1
    <3> QED BY <3>2, <3>3
  <2> QED BY <2>1, <2>3, <2>4
<1>4. h \in Made /\ u \in Made
  BY DEF Signal, Sources
<1> HIDE DEF h, u
<1>5. host \in Seq(Made)
  <2>1. <<h>> \in Seq(Made) /\ <<u>> \in Seq(Made) /\ <<>> \in Seq(Made)
    BY <1>4
  <2>2. <<h>> \o <<u>> \in Seq(Made) /\ <<h>> \o <<>> \in Seq(Made)
    BY ONLY <2>1, Joined
  <2> QED BY <2>2
<1>6. IsPlain(b) /\ IsDull(b)
  <2>1. On("mark", kernel).op = "mark" /\ <<On("mark", kernel)>> \in Seq(Steps) /\ <<>> \in Seq(Steps)
    BY <1>2, ShortStepsAre DEF On
  <2>2. IsPlain(<<>>) /\ IsDull(<<>>)
    BY <2>1 DEF IsPlain, IsDull
  <2>3. IsPlain(<<On("mark", kernel)>>) /\ IsDull(<<On("mark", kernel)>>)
    BY <2>1 DEF IsPlain, Plain, IsDull, Dull
  <2> QED BY <2>2, <2>3
<1> DEFINE made == host \o lines
           new == Ids(Len(signals), Len(made))
<1>7. signals' = (signals \o host) \o lines /\ Goes(r, b \o Record(new) \o RulesFor(new))
  BY <1>1 DEF h, u
<1> HIDE DEF host, lines, b
<1>8. made \in Seq(Made)
  BY <1>3, <1>5
<1>9. signals' = signals \o made
  <2>1. host \in Seq(Signal) /\ lines \in Seq(Signal)
    BY <1>3, <1>5, SeqMonotonic
  <2> QED BY <1>7, <1>2, <2>1, ConcatAssociative
<1>10. made \in Seq(Signal) /\ \A i \in 1 .. Len(made) : made[i].from # "event"
  <2> HIDE DEF made
  <2>1. \A i \in 1 .. Len(made) : made[i] \in Made
    BY <1>8
  <2> QED BY <1>8, <2>1
<1>11. Len(signals) \in Nat /\ Len(made) \in Nat
  BY <1>2, <1>8
<1>12. new \in Seq(Nat) /\ Len(new) = Len(made) /\ \A i \in 1 .. Len(new) : new[i] = Len(signals) + i
  BY <1>11, IdsAre
<1>13. Goes(r, Recording(b, new))
  BY <1>7 DEF Recording
<1> QED BY <1>6, <1>9, <1>10, <1>12, <1>13

-----------------------------------------------------------------------------
(* How a step changes what is left to do                                   *)

\* Process r does the steps a next, and then some or all of what came after the
\* step it has just done.
Follows(r, a) ==
    /\ ToDo' /\ a \in Seq(Steps)
    /\ \A q \in Runners \ {r} : todo'[q] = todo[q]
    /\ Len(a) <= Len(todo'[r])
    /\ \A k \in 1 .. Len(a) : todo'[r][k] = a[k]
    /\ \A k \in Len(a) + 1 .. Len(todo'[r]) :
          /\ k - Len(a) + 1 \in 2 .. Len(todo[r])
          /\ todo'[r][k] = todo[r][k - Len(a) + 1]

\* It goes on with all of it.
GoesOn(r, a) == todo[r] # <<>> /\ Len(todo'[r]) = Len(a) + Len(todo[r]) - 1

LEMMA FollowsGoes ==
    ASSUME ToDo, NEW r \in Runners, todo[r] # <<>>, NEW a \in Seq(Steps), Goes(r, a)
    PROVE  Follows(r, a) /\ GoesOn(r, a)
<1> DEFINE t == todo[r]
           u == a \o Tail(t)
<1>1. /\ ToDo' /\ todo'[r] = u
      /\ \A q \in Runners \ {r} : todo'[q] = todo[q]
  BY GoesIs
<1>2. t \in Seq(Steps) /\ t # <<>> /\ Len(t) \in Nat \ {0} /\ Len(a) \in Nat
  BY HeadIs
<1> HIDE DEF t
<1>3. /\ Len(u) = Len(a) + Len(t) - 1
      /\ \A k \in 1 .. Len(a) : u[k] = a[k]
      /\ \A k \in 1 .. Len(t) - 1 : u[Len(a) + k] = t[k + 1]
  BY <1>2, Continued
<1> HIDE DEF u
<1>4. Len(a) <= Len(u)
  BY <1>2, <1>3
<1>5. ASSUME NEW k \in Len(a) + 1 .. Len(u)
      PROVE  k - Len(a) + 1 \in 2 .. Len(t) /\ u[k] = t[k - Len(a) + 1]
  <2> DEFINE j == k - Len(a)
  <2>1. j \in 1 .. Len(t) - 1 /\ k = Len(a) + j
    BY <1>2, <1>3
  <2>2. u[Len(a) + j] = t[j + 1]
    BY <1>3, <2>1
  <2>3. j + 1 \in 2 .. Len(t)
    BY <1>2, <2>1
  <2> QED BY <2>1, <2>2, <2>3
<1>6. Len(u) = Len(a) + Len(todo[r]) - 1
  BY <1>3 DEF t
<1>7. Follows(r, a)
  BY <1>1, <1>3, <1>4, <1>5 DEF Follows, t
<1> QED BY <1>1, <1>6, <1>7 DEF GoesOn

LEMMA FollowsFails ==
    ASSUME ToDo, NEW r \in Runners, Fails(r)
    PROVE  Follows(r, <<>>) /\ IsPlain(<<>>)
<1>1. ToDo' /\ todo'[r] = <<>> /\ \A q \in Runners \ {r} : todo'[q] = todo[q]
  BY FailsIs
<1>2. <<>> \in Seq(Steps) /\ Len(<<>>) = 0 /\ 1 .. 0 = {} /\ 0 + 1 .. 0 = {}
  OBVIOUS
<1> QED BY <1>1, <1>2 DEF Follows, IsPlain

LEMMA FollowsStarts ==
    ASSUME ToDo, NEW r \in Runners, NEW a \in Seq(Steps), Starts(r, a)
    PROVE  Follows(r, a) /\ todo[r] = <<>> /\ r \in scenario.runners
<1>1. ToDo' /\ todo'[r] = a /\ \A q \in Runners \ {r} : todo'[q] = todo[q]
  BY DEF ToDo, Starts
<1>2. Len(a) \in Nat
  OBVIOUS
<1>3. Len(a) + 1 .. Len(a) = {}
  BY <1>2
<1> QED BY <1>1, <1>2, <1>3 DEF Follows, Starts

\* Captures read no further than the events that are there.
Listed ==
    \A r \in Runners : \A k \in 1 .. Len(todo[r]) :
        todo[r][k].op = "capture" => todo[r][k].n <= Len(events)

TypeInv == TypeOK /\ Listed

HeadOp(r) == Head(todo[r]).op
NothingMade == UNCHANGED <<signals, tries>>
Unlocked(r) == lock = NoRunner
KeepsLock == lock' = lock
KeepsEvents == state'.lastEvent = state.lastEvent
KeepsConfig == state'.config = state.config /\ window' = window
KeepsTimeline == timeline' = timeline

\* Deliveries that are due, each of its own
Dues(a) ==
    /\ a \in Seq(Steps)
    /\ \A k \in 1 .. Len(a) : a[k].op = "deliver" /\ \E i \in Matching(a[k]) : IsDue(state.deliveries[i])
    /\ \A k, j \in 1 .. Len(a) :
          k # j => \E h, i \in DOMAIN state.deliveries :
              /\ h # i /\ state.deliveries[h].sig = a[k].sig /\ state.deliveries[h].dest = a[k].dest
              /\ state.deliveries[i].sig = a[j].sig /\ state.deliveries[i].dest = a[j].dest

\* What is left to do of the deliveries after a step
Sends(r, a) ==
    \/ IsDull(a)
    \/ HeadOp(r) = "due" /\ Dues(a)
    \/ /\ HeadOp(r) = "deliver"
       /\ \E ok \in BOOLEAN :
             a = <<[op |-> "record", sig |-> Head(todo[r]).sig, dest |-> Head(todo[r]).dest, ok |-> ok]>>

\* The kinds of steps a process takes, by the steps a that they leave to do
Quiet(r, a) ==
    /\ HeadOp(r) \in Plain /\ IsPlain(a) /\ Sends(r, a)
    /\ NothingMade /\ KeepsLock /\ KeepsEvents /\ KeepsConfig /\ KeepsTimeline

Lists(r, a) ==
    /\ HeadOp(r) = "list" /\ a = <<On("capture", Len(events))>>
    /\ NothingMade /\ KeepsLock /\ KeepsEvents /\ KeepsConfig /\ KeepsTimeline

Captures(r, a) ==
    /\ HeadOp(r) = "capture" /\ lock = NoRunner /\ lock' = r
    /\ \E fresh \in Seq(Nat), made \in Seq(Signal) :
          /\ fresh = Fresh(Head(todo[r]).n) /\ Len(fresh) = Len(made)
          /\ LastOf(fresh) \in Nat
          /\ \A i \in 1 .. Len(made) : made[i].from = "event" /\ made[i].n = fresh[i]
          /\ signals' = signals \o made
          /\ a = CaptureSteps(Ids(Len(signals), Len(made)), LastOf(fresh))
    /\ tries' = tries /\ KeepsEvents /\ KeepsConfig /\ KeepsTimeline

Appends(r, a) ==
    /\ HeadOp(r) \in {"append", "signal"}
    /\ timeline' = Append(timeline, Head(todo[r]).n)
    /\ IsPlain(a) /\ GoesOn(r, a)
    /\ a = IF HeadOp(r) = "append" THEN <<>> ELSE <<On("enqueue", Head(todo[r]).n)>>
    /\ NothingMade /\ KeepsLock /\ KeepsEvents /\ KeepsConfig

Ends(r, a) ==
    /\ HeadOp(r) = "endCapture" /\ lock' = NoRunner
    /\ state'.lastEvent = Head(todo[r]).last
    /\ IsPlain(a) /\ IsDull(a)
    /\ NothingMade /\ KeepsConfig /\ KeepsTimeline

Gathers(r, a) ==
    /\ HeadOp(r) = "gather"
    /\ \E b, new, made :
          /\ IsPlain(b) /\ IsDull(b) /\ new \in Seq(Nat) /\ made \in Seq(Signal) /\ Len(made) = Len(new)
          /\ \A i \in 1 .. Len(made) : made[i].from # "event"
          /\ \A i \in 1 .. Len(new) : new[i] = Len(signals) + i
          /\ signals' = signals \o made /\ a = Recording(b, new)
    /\ tries' = tries /\ KeepsLock /\ KeepsEvents /\ KeepsConfig /\ KeepsTimeline

Reserves(r, a) ==
    /\ HeadOp(r) = "reserve" /\ a = <<Op("restart")>>
    /\ state.config.rule.attempts < RuleAttempts /\ ~state.config.rule.cooling
    /\ state'.config = [state.config EXCEPT !.rule.attempts = @ + 1, !.rule.cooling = TRUE]
    /\ window' = window + 1
    /\ NothingMade /\ KeepsLock /\ KeepsEvents /\ KeepsTimeline

Restarts(r, a) ==
    /\ HeadOp(r) = "restart"
    /\ \E made \in Signal : made.from # "event" /\ signals' = Append(signals, made)
    /\ LET n == Len(signals) + 1
       IN  \/ a = <<Op("verified"), On("signal", n)>> /\ tries' = 0
           \/ a = <<On("signal", n)>> /\ tries' = tries + 1
    /\ KeepsLock /\ KeepsEvents /\ KeepsConfig /\ KeepsTimeline

Resets(r, a) ==
    /\ HeadOp(r) = "verified" /\ a = <<>>
    /\ state'.config = [state.config EXCEPT !.rule.attempts = 0] /\ window' = window
    /\ NothingMade /\ KeepsLock /\ KeepsEvents /\ KeepsTimeline

Kind(r, a) ==
    \/ Quiet(r, a) \/ Lists(r, a) \/ Captures(r, a) \/ Appends(r, a) \/ Ends(r, a)
    \/ Gathers(r, a) \/ Reserves(r, a) \/ Restarts(r, a) \/ Resets(r, a)

\* A snapshot is only taken of a state that was there.
KeepsBackup == backup' = backup \/ (backup = NoConfig /\ backup' = state.config /\ state.exists)

Takes(r, a) ==
    /\ todo[r] # <<>> /\ Follows(r, a) /\ Kind(r, a)
    /\ GoesOn(r, a) \/ Quiet(r, a)
    /\ state' \in State /\ backup' \in Config \cup {NoConfig, Torn}
    /\ KeepsBackup /\ (state.exists => state'.exists)
    /\ signals' \in Seq(Signal) /\ timeline' \in Seq(Nat) /\ lock' \in Runners \cup {NoRunner}
    /\ {tries', window'} \subseteq Nat
    /\ UNCHANGED <<scenario, outside, asked, crashes, previous, saveDied>>

LEMMA TakesTypes ==
    ASSUME TypeOK, NEW r \in Runners, NEW a, Takes(r, a)
    PROVE  TypeOK'
<1>1. ToDo'
  BY DEF Takes, Follows
<1>2. {asked', crashes', tries', window'} \subseteq Nat
  BY DEF Takes, TypeOK
<1> QED BY <1>1, <1>2 DEF Takes, TypeOK, ToDo, outside

-----------------------------------------------------------------------------
(* Every step of a process is of one of the kinds.                         *)

LEMMA HeadPlain ==
    ASSUME TypeOK, NEW r \in Runners, NEW op, At(r, op)
    PROVE  todo[r] # <<>> /\ HeadOp(r) = op /\ Head(todo[r]) \in Steps /\ ToDo
BY HeadIs, TypesGive DEF At, HeadOp

LEMMA PlainsAre ==
    /\ IsPlain(<<>>) /\ IsPlain(<<Op("gather")>>) /\ IsPlain(<<Op("reserve")>>)
    /\ IsDull(<<>>) /\ IsDull(<<Op("gather")>>) /\ IsDull(<<Op("reserve")>>)
    /\ \A n \in Nat : IsPlain(<<On("enqueue", n)>>)
    /\ \A ns \in Seq(Nat) : IsPlain(RulesFor(ns)) /\ IsDull(RulesFor(ns))
<1>1. IsPlain(<<>>) /\ IsDull(<<>>)
  BY ShortStepsAre DEF IsPlain, IsDull
<1>2. IsPlain(<<Op("gather")>>) /\ IsPlain(<<Op("reserve")>>)
  BY ShortStepsAre DEF IsPlain, Plain, Op
<1>5. IsDull(<<Op("gather")>>) /\ IsDull(<<Op("reserve")>>)
  BY ShortStepsAre DEF IsDull, Dull, Op
<1>3. ASSUME NEW n \in Nat PROVE IsPlain(<<On("enqueue", n)>>)
  <2> DEFINE e == On("enqueue", n)
  <2>1. e.op \in Plain
    BY DEF On, Plain
  <2>2. <<e>> \in Seq(Steps)
    BY ShortStepsAre
  <2> HIDE DEF e
  <2>3. IsPlain(<<e>>)
    BY <2>1, <2>2 DEF IsPlain
  <2> QED BY <2>3 DEF e
<1>4. ASSUME NEW ns \in Seq(Nat) PROVE IsPlain(RulesFor(ns)) /\ IsDull(RulesFor(ns))
  <2>1. /\ RulesFor(ns) \in Seq(Steps) /\ Len(RulesFor(ns)) = Len(ns)
        /\ \A i \in 1 .. Len(ns) : RulesFor(ns)[i] = On("rules", ns[i])
    BY RecordIs
  <2>2. \A n : On("rules", n).op \in Plain /\ On("rules", n).op \in Dull
    BY DEF On, Plain, Dull
  <2>3. IsPlain(RulesFor(ns))
    BY <2>1, <2>2 DEF IsPlain
  <2> QED BY <2>1, <2>2, <2>3 DEF IsDull
<1> QED BY <1>1, <1>2, <1>3, <1>4, <1>5

\* A step that leaves state.json alone
Idle == UNCHANGED <<scenario, outside, state, backup, asked, crashes, previous, saveDied, window>>

LEMMA IdleTakes ==
    ASSUME TypeOK, NEW r \in Runners, NEW a, todo[r] # <<>>, Follows(r, a), Kind(r, a),
           GoesOn(r, a) \/ Quiet(r, a), Idle,
           signals' \in Seq(Signal), timeline' \in Seq(Nat), lock' \in Runners \cup {NoRunner},
           tries' \in Nat
    PROVE  Takes(r, a)
<1>1. {tries', window'} \subseteq Nat
  BY DEF Idle, TypeOK
<1>2. state' \in State /\ backup' \in Config \cup {NoConfig, Torn} /\ KeepsBackup /\ (state.exists => state'.exists)
  BY DEF Idle, TypeOK, KeepsBackup
<1> QED BY <1>1, <1>2 DEF Takes, Idle

LEMMA IdleQuiet ==
    ASSUME TypeOK, NEW r \in Runners, NEW a, todo[r] # <<>>, Follows(r, a), IsPlain(a),
           Sends(r, a), HeadOp(r) \in Plain, Idle, UNCHANGED <<signals, timeline, lock, tries>>
    PROVE  Takes(r, a)
<1>1. Quiet(r, a)
  BY DEF Quiet, Idle, NothingMade, KeepsLock, KeepsEvents, KeepsConfig, KeepsTimeline
<1>2. /\ signals' \in Seq(Signal) /\ timeline' \in Seq(Nat) /\ lock' \in Runners \cup {NoRunner}
      /\ tries' \in Nat
  BY DEF TypeOK
<1> QED BY <1>1, <1>2, IdleTakes DEF Kind

LEMMA ListTakes ==
    ASSUME TypeOK, NEW r \in Runners, ListEvents(r) PROVE \E a : Takes(r, a)
<1> DEFINE a == <<On("capture", Len(events))>>
<1>1. todo[r] # <<>> /\ HeadOp(r) = "list" /\ ToDo
  BY HeadPlain DEF ListEvents
<1>2. a \in Seq(Steps)
  BY TypesGive, ShortStepsAre
<1>3. Follows(r, a) /\ GoesOn(r, a)
  BY <1>1, <1>2, FollowsGoes DEF ListEvents
<1>4. Idle /\ UNCHANGED <<signals, timeline, lock, tries>>
  BY DEF ListEvents, Idle, history
<1>5. Lists(r, a)
  BY <1>1, <1>4 DEF Lists, Idle, NothingMade, KeepsLock, KeepsEvents, KeepsConfig, KeepsTimeline
<1>6. /\ signals' \in Seq(Signal) /\ timeline' \in Seq(Nat) /\ lock' \in Runners \cup {NoRunner}
      /\ tries' \in Nat
  BY <1>4 DEF TypeOK
<1> QED BY <1>1, <1>3, <1>4, <1>5, <1>6, IdleTakes DEF Kind

LEMMA CaptureTakes ==
    ASSUME TypeInv, NEW r \in Runners, BeginCapture(r) PROVE \E a : Takes(r, a)
<1>0. TypeOK
  BY DEF TypeInv
<1>1. todo[r] # <<>> /\ HeadOp(r) = "capture" /\ ToDo /\ lock = NoRunner
  BY <1>0, HeadPlain DEF BeginCapture
<1>2. Head(todo[r]).n <= Len(events)
  <2>1. Head(todo[r]) = todo[r][1] /\ 1 \in 1 .. Len(todo[r])
    BY <1>1, HeadIs
  <2> QED BY <1>1, <2>1 DEF TypeInv, Listed, HeadOp
<1>3. PICK fresh \in Seq(Nat), f \in BOOLEAN :
              /\ fresh = Fresh(Head(todo[r]).n) /\ Len(fresh) \in Nat /\ LastOf(fresh) \in Nat
              /\ signals' = signals \o [i \in 1 .. Len(fresh) |->
                                          [from |-> "event", n |-> fresh[i], failing |-> f]]
              /\ [i \in 1 .. Len(fresh) |-> [from |-> "event", n |-> fresh[i], failing |-> f]] \in Seq(Signal)
              /\ Goes(r, CaptureSteps(Ids(Len(signals), Len(fresh)), LastOf(fresh)))
              /\ CaptureSteps(Ids(Len(signals), Len(fresh)), LastOf(fresh)) \in Seq(Steps)
  BY <1>0, <1>2, BeginCaptureIs
<1> DEFINE made == [i \in 1 .. Len(fresh) |-> [from |-> "event", n |-> fresh[i], failing |-> f]]
           a == CaptureSteps(Ids(Len(signals), Len(made)), LastOf(fresh))
<1>4. Len(made) = Len(fresh) /\ made \in Seq(Signal)
  BY <1>3
<1>5. \A i \in 1 .. Len(made) : made[i].from = "event" /\ made[i].n = fresh[i]
  BY <1>4
<1>6. signals' = signals \o made /\ Goes(r, a) /\ a \in Seq(Steps)
  BY <1>3, <1>4
<1> HIDE DEF made
<1>7. Idle /\ UNCHANGED <<timeline, tries>> /\ lock' = r
  BY DEF BeginCapture, Idle, history
<1>8. Captures(r, a)
  BY <1>1, <1>3, <1>4, <1>5, <1>6, <1>7 DEF Captures, Idle, KeepsEvents, KeepsConfig, KeepsTimeline
<1> HIDE DEF a
<1>9. Follows(r, a) /\ GoesOn(r, a)
  BY <1>1, <1>6, FollowsGoes
<1>10. /\ signals' \in Seq(Signal) /\ timeline' \in Seq(Nat) /\ lock' \in Runners \cup {NoRunner}
       /\ tries' \in Nat
  BY <1>0, <1>4, <1>6, <1>7, Joined DEF TypeOK
<1> QED BY <1>0, <1>1, <1>7, <1>8, <1>9, <1>10, IdleTakes DEF Kind

LEMMA AppendTakes ==
    ASSUME TypeOK, NEW r \in Runners, AppendTimeline(r) PROVE \E a : Takes(r, a)
<1> DEFINE n == Head(todo[r]).n
           a == IF At(r, "signal") THEN <<On("enqueue", n)>> ELSE <<>>
<1>1. PICK op \in {"append", "signal"} : At(r, op)
  BY DEF AppendTimeline
<1>2. todo[r] # <<>> /\ HeadOp(r) = op /\ Head(todo[r]) \in Steps /\ ToDo
  BY <1>1, HeadPlain
<1>3. n \in Nat
  BY <1>2, FieldsAre DEF HeadOp
<1>4. Goes(r, a) /\ timeline' = Append(timeline, n)
  BY DEF AppendTimeline
<1>5. IsPlain(a)
  BY <1>3, PlainsAre
<1>6. a = IF HeadOp(r) = "append" THEN <<>> ELSE <<On("enqueue", n)>>
  BY <1>1, <1>2 DEF At, HeadOp
<1> HIDE DEF a, n
<1>7. Follows(r, a) /\ GoesOn(r, a)
  BY <1>2, <1>4, <1>5, FollowsGoes DEF IsPlain
<1>8. Idle /\ UNCHANGED <<signals, lock, tries>>
  BY DEF AppendTimeline, Idle, history
<1>9. Appends(r, a)
  BY <1>2, <1>4, <1>5, <1>6, <1>7, <1>8 DEF Appends, Idle, NothingMade, KeepsLock, KeepsEvents, KeepsConfig, n
<1>10. timeline' \in Seq(Nat)
  <2>1. timeline \in Seq(Nat)
    BY DEF TypeOK
  <2> QED BY <1>3, <1>4, <2>1
<1>11. signals' \in Seq(Signal) /\ lock' \in Runners \cup {NoRunner} /\ tries' \in Nat
  BY <1>8 DEF TypeOK
<1> QED BY <1>2, <1>7, <1>8, <1>9, <1>10, <1>11, IdleTakes DEF Kind

LEMMA GatherTakes ==
    ASSUME TypeOK, NEW r \in Runners, Gather(r) PROVE \E a : Takes(r, a)
<1>1. todo[r] # <<>> /\ HeadOp(r) = "gather" /\ ToDo
  BY HeadPlain DEF Gather
<1>2. Idle /\ UNCHANGED <<timeline, lock, tries>>
  BY DEF Gather, Idle, history
<1>3. timeline' \in Seq(Nat) /\ lock' \in Runners \cup {NoRunner} /\ tries' \in Nat
  BY <1>2 DEF TypeOK
<1>4. CASE Fails(r) /\ UNCHANGED signals
  <2>1. Follows(r, <<>>) /\ IsPlain(<<>>)
    BY <1>1, <1>4, FollowsFails
  <2>2. HeadOp(r) \in Plain /\ Sends(r, <<>>)
    BY <1>1, PlainsAre DEF Plain, Sends
  <2> QED BY <1>1, <1>2, <1>4, <2>1, <2>2, IdleQuiet
<1>5. CASE ~(Fails(r) /\ UNCHANGED signals)
  <2>1. PICK b, new, made :
              /\ IsPlain(b) /\ IsDull(b) /\ new \in Seq(Nat) /\ made \in Seq(Signal)
              /\ Len(made) = Len(new) /\ \A i \in 1 .. Len(made) : made[i].from # "event"
              /\ \A i \in 1 .. Len(new) : new[i] = Len(signals) + i
              /\ signals' = signals \o made /\ Goes(r, Recording(b, new))
    BY <1>5, GatherIs
  <2> DEFINE a == Recording(b, new)
  <2>2. a \in Seq(Steps)
    BY <2>1, RecordingIs
  <2>3. Goes(r, a)
    BY <2>1
  <2>4. Gathers(r, a)
    BY <1>1, <1>2, <2>1 DEF Gathers, Idle, KeepsLock, KeepsEvents, KeepsConfig, KeepsTimeline
  <2> HIDE DEF a
  <2>5. Follows(r, a) /\ GoesOn(r, a)
    BY <1>1, <2>2, <2>3, FollowsGoes
  <2>6. signals' \in Seq(Signal)
    BY <2>1, TypesGive, Joined
  <2> QED BY <1>1, <1>2, <1>3, <2>4, <2>5, <2>6, IdleTakes DEF Kind
<1> QED BY <1>4, <1>5

LEMMA RulesTakes ==
    ASSUME TypeOK, NEW r \in Runners, ApplyMatchingRules(r) PROVE \E a : Takes(r, a)
<1>1. todo[r] # <<>> /\ HeadOp(r) = "rules" /\ ToDo
  BY HeadPlain DEF ApplyMatchingRules
<1>2. PICK a \in {<<>>, <<Op("reserve")>>} : Goes(r, a)
  BY DEF ApplyMatchingRules
<1>3. IsPlain(a) /\ Sends(r, a)
  BY <1>2, PlainsAre DEF Sends
<1>4. Follows(r, a)
  BY <1>1, <1>2, <1>3, FollowsGoes DEF IsPlain
<1>5. Idle /\ UNCHANGED <<signals, timeline, lock, tries>>
  BY DEF ApplyMatchingRules, Idle, history
<1>6. HeadOp(r) \in Plain
  BY <1>1 DEF Plain
<1> QED BY <1>1, <1>3, <1>4, <1>5, <1>6, IdleQuiet

LEMMA DueTakes ==
    ASSUME TypeOK, NEW r \in Runners, DeliverDue(r) PROVE \E a : Takes(r, a)
<1>1. todo[r] # <<>> /\ HeadOp(r) = "due" /\ ToDo
  BY HeadPlain DEF DeliverDue
<1> DEFINE D == state.deliveries
           S == {i \in DOMAIN D : IsDue(D[i])}
           due == InOrder(S)
           a == [i \in DOMAIN due |-> [op |-> "deliver", sig |-> D[due[i]].sig, dest |-> D[due[i]].dest]]
<1>2. D \in Seq(Delivery) /\ Len(D) \in Nat
  BY StateIs DEF TypeOK
<1>3. S \in SUBSET (1 .. Len(D)) /\ IsFiniteSet(1 .. Len(D)) /\ S \in SUBSET Nat
  <2>1. IsFiniteSet(1 .. Len(D))
    BY <1>2, FS_Interval
  <2>2. DOMAIN D = 1 .. Len(D)
    BY <1>2
  <2>3. S \in SUBSET (1 .. Len(D))
    BY <2>2
  <2>4. 1 .. Len(D) \in SUBSET Nat
    BY <1>2
  <2> QED BY <2>1, <2>3, <2>4
<1>4. IsFiniteSet(S)
  BY <1>3, FS_Subset
<1>5. Goes(r, a)
  BY DEF DeliverDue
<1> DEFINE m == Cardinality(S)
<1>6. m \in Nat /\ due \in [1 .. m -> S]
  BY <1>3, <1>4, InOrderIs
<1> HIDE DEF S, due, m
<1>7. ASSUME NEW i \in 1 .. m
      PROVE  [op |-> "deliver", sig |-> D[due[i]].sig, dest |-> D[due[i]].dest] \in Steps
  <2>1. due[i] \in 1 .. Len(D)
    BY <1>3, <1>6
  <2> DEFINE d == D[due[i]]
  <2>2. d \in Delivery
    BY <1>2, <2>1
  <2> HIDE DEF d
  <2>3. d.sig \in Nat /\ d.dest \in Dests
    BY <2>2 DEF Delivery
  <2> QED BY <2>3, StepsAre DEF d
<1>8. DOMAIN due = 1 .. m
  BY <1>6
<1>9. a \in Seq(Steps) /\ Len(a) = m
  <2>1. a \in [1 .. m -> Steps]
    BY <1>7, <1>8
  <2> HIDE DEF a
  <2> QED BY <2>1, <1>6
<1>10. \A k \in 1 .. m : a[k].op \in Plain
  BY <1>8 DEF Plain
<1> HIDE DEF a
<1>11. IsPlain(a)
  BY <1>9, <1>10 DEF IsPlain
<1>12. Follows(r, a)
  BY <1>1, <1>5, <1>9, FollowsGoes
<1>13. Idle /\ UNCHANGED <<signals, timeline, lock, tries>>
  BY DEF DeliverDue, Idle, history
<1>14. HeadOp(r) \in Plain
  BY <1>1 DEF Plain
<1>15. ASSUME NEW k \in 1 .. m
      PROVE  /\ due[k] \in 1 .. Len(D) /\ IsDue(D[due[k]])
             /\ a[k].op = "deliver" /\ a[k].sig = D[due[k]].sig /\ a[k].dest = D[due[k]].dest
  <2>1. due[k] \in S
    BY <1>6
  <2>2. due[k] \in 1 .. Len(D) /\ IsDue(D[due[k]])
    BY <1>3, <2>1 DEF S
  <2>3. a[k] = [op |-> "deliver", sig |-> D[due[k]].sig, dest |-> D[due[k]].dest]
    BY <1>8 DEF a
  <2> DEFINE d == D[due[k]]
  <2>4. a[k] = [op |-> "deliver", sig |-> d.sig, dest |-> d.dest]
    BY <2>3
  <2> HIDE DEF d
  <2>5. a[k].op = "deliver" /\ a[k].sig = d.sig /\ a[k].dest = d.dest
    BY ONLY <2>4
  <2> QED BY <2>2, <2>5 DEF d
<1>16. \A k \in 1 .. m : due[k] \in Matching(a[k])
  BY <1>2, <1>15 DEF Matching
<1>17. \A k, j \in 1 .. m : k # j => due[k] # due[j]
  <2>1. \A k, j \in 1 .. m : k < j => due[k] < due[j]
    BY <1>3, <1>4, InOrderIs DEF due, m
  <2>2. \A k \in 1 .. m : due[k] \in Nat
    BY <1>2, <1>15
  <2>3. ASSUME NEW k \in 1 .. m, NEW j \in 1 .. m, k # j PROVE due[k] # due[j]
    <3>1. k < j \/ j < k
      BY <1>6, <2>3
    <3> QED BY <3>1, <2>1, <2>2
  <2> QED BY <2>3
<1>18. Dues(a)
  <2>1. \A k \in 1 .. Len(a) : a[k].op = "deliver" /\ \E i \in Matching(a[k]) : IsDue(D[i])
    BY <1>9, <1>15, <1>16
  <2>2. ASSUME NEW k \in 1 .. Len(a), NEW j \in 1 .. Len(a), k # j
        PROVE  \E h, i \in DOMAIN D :
              /\ h # i /\ D[h].sig = a[k].sig /\ D[h].dest = a[k].dest
              /\ D[i].sig = a[j].sig /\ D[i].dest = a[j].dest
    <3>1. due[k] # due[j] /\ due[k] \in DOMAIN D /\ due[j] \in DOMAIN D
      BY <1>2, <1>9, <1>15, <1>17, <2>2
    <3> QED BY <1>9, <1>15, <3>1
  <2> QED BY <1>9, <2>1, <2>2 DEF Dues
<1>19. Sends(r, a)
  BY <1>1, <1>18 DEF Sends
<1> QED BY <1>1, <1>11, <1>12, <1>13, <1>14, <1>19, IdleQuiet

LEMMA DeliverTakes ==
    ASSUME TypeOK, NEW r \in Runners, Deliver(r) PROVE \E a : Takes(r, a)
<1>1. todo[r] # <<>> /\ HeadOp(r) = "deliver" /\ ToDo /\ Head(todo[r]) \in Steps
  BY HeadPlain DEF Deliver
<1> DEFINE step == Head(todo[r])
           record(ok) == [op |-> "record", sig |-> step.sig, dest |-> step.dest, ok |-> ok]
<1>2. Idle /\ UNCHANGED <<signals, timeline, lock, tries>>
  BY DEF Deliver, Idle
<1>3. HeadOp(r) \in Plain
  BY <1>1 DEF Plain
<1>4. CASE Fails(r)
  <2>1. Follows(r, <<>>) /\ IsPlain(<<>>) /\ Sends(r, <<>>)
    BY <1>1, <1>4, FollowsFails, PlainsAre DEF Sends
  <2> QED BY <1>1, <1>2, <1>3, <2>1, IdleQuiet
<1>5. CASE \E ok \in BOOLEAN : Goes(r, <<record(ok)>>)
  <2>1. PICK ok \in BOOLEAN : Goes(r, <<record(ok)>>)
    BY <1>5
  <2>2. step.sig \in Nat /\ step.dest \in Dests
    BY <1>1, FieldsAre DEF HeadOp
  <2>3. record(ok) \in Steps
    BY <2>2, StepsAre
  <2>4. record(ok).op \in Plain
    BY DEF Plain
  <2> DEFINE e == record(ok)
             a == <<e>>
  <2>7. Sends(r, a)
    BY <1>1 DEF Sends
  <2> HIDE DEF record, e
  <2>5. a \in Seq(Steps) /\ IsPlain(a)
    BY <2>3, <2>4 DEF IsPlain, e
  <2>6. Follows(r, a)
    BY <1>1, <2>1, <2>5, FollowsGoes DEF e
  <2> QED BY <1>1, <1>2, <1>3, <2>5, <2>6, <2>7, IdleQuiet
<1> QED BY <1>4, <1>5 DEF Deliver

LEMMA UpdateTakes ==
    ASSUME TypeOK, NEW r \in Runners, Updates(r) PROVE \E a : Takes(r, a)
<1>1. todo[r] # <<>> /\ ToDo /\ Head(todo[r]) \in Steps
  BY UpdatesAre, HeadIs, TypesGive
<1>2. PICK s \in State : /\ SaveState(s) /\ Same(s, HeadOp(r))
                         /\ At(r, "endCapture") => s.lastEvent = Head(todo[r]).last
  BY UpdatesAre DEF HeadOp
<1>3. /\ state' \in State /\ backup' \in Config \cup {NoConfig, Torn}
      /\ state'.config = s.config /\ state'.lastEvent = s.lastEvent
      /\ KeepsBackup /\ (state.exists => state'.exists)
  BY <1>2, SaveIs DEF KeepsBackup, TypeOK
<1>4. UNCHANGED <<scenario, outside, signals, timeline, asked, crashes, history>>
  BY DEF Updates, ReserveSample, MarkKernel, EnqueueSubscriptions, EndCapture, ResetAttempts, RecordDeliveryResult
<1>5. lock' = IF HeadOp(r) = "endCapture" THEN NoRunner ELSE lock
  BY DEF Updates, ReserveSample, MarkKernel, EnqueueSubscriptions, EndCapture, ResetAttempts,
         RecordDeliveryResult, At, HeadOp
<1>6. HeadOp(r) \in {"sample", "mark", "enqueue", "endCapture", "verified", "record"}
  BY DEF Updates, ReserveSample, MarkKernel, EnqueueSubscriptions, EndCapture, ResetAttempts,
         RecordDeliveryResult, At, HeadOp
<1>7. \E a : /\ Follows(r, a) /\ IsPlain(a) /\ IsDull(a)
             /\ GoesOn(r, a) \/ HeadOp(r) = "record"
             /\ HeadOp(r) = "verified" => a = <<>>
  <2>1. CASE Fails(r) /\ At(r, "record")
    <3>1. Follows(r, <<>>) /\ IsPlain(<<>>) /\ IsDull(<<>>)
      BY <1>1, <2>1, FollowsFails, PlainsAre
    <3> QED BY <2>1, <3>1 DEF At, HeadOp
  <2>2. CASE ~(Fails(r) /\ At(r, "record"))
    <3>1. PICK a \in Seq(Steps) :
             /\ Goes(r, a)
             /\ a \in {<<>>, <<Op("gather")>>} \/ (At(r, "endCapture") /\ a = RulesFor(Head(todo[r]).new))
      BY <2>2, UpdatesAre
    <3>2. Follows(r, a) /\ GoesOn(r, a)
      BY <1>1, <3>1, FollowsGoes
    <3>3. IsPlain(a) /\ IsDull(a)
      <4>1. CASE a \in {<<>>, <<Op("gather")>>}
        BY <4>1, PlainsAre
      <4>2. CASE At(r, "endCapture") /\ a = RulesFor(Head(todo[r]).new)
        <5>1. Head(todo[r]).new \in Seq(Nat)
          BY <1>1, <4>2, FieldsAre DEF At
        <5> QED BY <4>2, <5>1, PlainsAre
      <4> QED BY <3>1, <4>1, <4>2
    <3>4. HeadOp(r) = "verified" => Goes(r, <<>>)
      BY <1>6 DEF Updates, ReserveSample, MarkKernel, EnqueueSubscriptions, EndCapture, ResetAttempts,
         RecordDeliveryResult, At, HeadOp
    <3>5. CASE HeadOp(r) = "verified"
      <4>1. Follows(r, <<>>) /\ GoesOn(r, <<>>) /\ IsPlain(<<>>) /\ IsDull(<<>>)
        BY <1>1, <3>4, <3>5, FollowsGoes, PlainsAre, ShortStepsAre
      <4> QED BY <4>1
    <3> QED BY <3>2, <3>3, <3>5
  <2> QED BY <2>1, <2>2
<1>8. PICK a : /\ Follows(r, a) /\ IsPlain(a) /\ IsDull(a)
               /\ GoesOn(r, a) \/ HeadOp(r) = "record"
               /\ HeadOp(r) = "verified" => a = <<>>
  BY <1>7
<1>9. Kind(r, a) /\ (HeadOp(r) = "record" => Quiet(r, a))
  <2>1. CASE HeadOp(r) = "endCapture"
    <3>1. At(r, "endCapture")
      BY <1>1, <2>1 DEF At, HeadOp
    <3>2. Ends(r, a)
      BY <1>2, <1>3, <1>4, <1>5, <1>8, <2>1, <3>1
         DEF Ends, Same, history, NothingMade, KeepsConfig, KeepsTimeline
    <3> QED BY <2>1, <3>2 DEF Kind
  <2>2. CASE HeadOp(r) = "verified"
    <3>1. Resets(r, a)
      BY <1>2, <1>3, <1>4, <1>5, <1>8, <2>2
         DEF Resets, Same, history, NothingMade, KeepsLock, KeepsEvents, KeepsTimeline
    <3> QED BY <2>2, <3>1 DEF Kind
  <2>3. CASE HeadOp(r) \in {"sample", "mark", "enqueue", "record"}
    <3>1. Quiet(r, a)
      BY <1>2, <1>3, <1>4, <1>5, <1>8, <2>3
         DEF Quiet, Sends, Same, history, NothingMade, KeepsLock, KeepsEvents, KeepsConfig, KeepsTimeline, Plain
    <3> QED BY <2>3, <3>1 DEF Kind
  <2> QED BY <1>6, <2>1, <2>2, <2>3
<1>10. signals' \in Seq(Signal) /\ timeline' \in Seq(Nat)
  BY <1>4 DEF TypeOK
<1>11. lock' \in Runners \cup {NoRunner}
  BY <1>5 DEF TypeOK
<1>12. {tries', window'} \subseteq Nat
  BY <1>4 DEF TypeOK, history
<1> QED BY <1>1, <1>3, <1>4, <1>8, <1>9, <1>10, <1>11, <1>12 DEF Takes, history

LEMMA ReserveTakes ==
    ASSUME TypeOK, NEW r \in Runners, ReserveAttempt(r) PROVE \E a : Takes(r, a)
<1>1. todo[r] # <<>> /\ HeadOp(r) = "reserve" /\ ToDo
  BY HeadPlain DEF ReserveAttempt
<1> DEFINE rule == state.config.rule
           s == [state EXCEPT !.config.rule.attempts = @ + 1, !.config.rule.cooling = TRUE]
           c == [state.config EXCEPT !.rule.attempts = @ + 1, !.rule.cooling = TRUE]
           none == rule.mode = "none" \/ rule.attempts >= RuleAttempts \/ rule.cooling
<1>2. CASE none
  <2>1. Goes(r, <<>>)
    BY <1>2 DEF ReserveAttempt
  <2>2. Follows(r, <<>>) /\ IsPlain(<<>>)
    BY <1>1, <2>1, FollowsGoes, PlainsAre, ShortStepsAre
  <2>3. Idle /\ UNCHANGED <<signals, timeline, lock, tries>>
    BY <1>2 DEF ReserveAttempt, Idle
  <2>4. HeadOp(r) \in Plain /\ Sends(r, <<>>)
    BY <1>1, PlainsAre DEF Plain, Sends
  <2> QED BY <1>1, <2>2, <2>3, <2>4, IdleQuiet
<1>3. CASE ~none
  <2> DEFINE a == <<Op("restart")>>
  <2>1. Goes(r, a) /\ SaveState(s) /\ window' = window + 1
    BY <1>3 DEF ReserveAttempt
  <2>2. state.config \in Config /\ rule \in Rule
    BY StateIs, ConfigIs DEF TypeOK
  <2>3. c \in Config
    <3>0. rule.attempts + 1 \in Nat
      BY <2>2 DEF Rule
    <3>1. [rule EXCEPT !.attempts = @ + 1, !.cooling = TRUE] \in Rule
      BY <2>2, <3>0 DEF Rule
    <3>2. c = [state.config EXCEPT !.rule = [rule EXCEPT !.attempts = @ + 1, !.cooling = TRUE]]
      BY <2>2 DEF Config, Rule
    <3> QED BY <2>2, <3>1, <3>2 DEF Config
  <2>4. s \in State /\ s.config = c /\ s.lastEvent = state.lastEvent
    <3>1. s = [state EXCEPT !.config = c]
      BY DEF TypeOK, State
    <3> QED BY <2>3, <3>1 DEF TypeOK, State
  <2> HIDE DEF s
  <2>5. /\ state' \in State /\ backup' \in Config \cup {NoConfig, Torn}
        /\ state'.config = c /\ state'.lastEvent = state.lastEvent
        /\ KeepsBackup /\ (state.exists => state'.exists)
    BY <2>1, <2>4, SaveIs DEF KeepsBackup, TypeOK
  <2>6. a \in Seq(Steps)
    BY ShortStepsAre
  <2>7. Follows(r, a) /\ GoesOn(r, a)
    BY <1>1, <2>1, <2>6, FollowsGoes
  <2>8. UNCHANGED <<scenario, outside, signals, timeline, lock, asked, crashes, tries, previous, saveDied>>
    BY DEF ReserveAttempt
  <2>9. rule.attempts < RuleAttempts /\ ~rule.cooling
    <3>1. rule.attempts \in Nat /\ RuleAttempts \in Nat
      BY <2>2, OperationsConstants DEF Rule
    <3> QED BY <1>3, <3>1
  <2>10. Reserves(r, a)
    BY <1>1, <2>1, <2>5, <2>8, <2>9 DEF Reserves, NothingMade, KeepsLock, KeepsEvents, KeepsTimeline
  <2>11. signals' \in Seq(Signal) /\ timeline' \in Seq(Nat) /\ lock' \in Runners \cup {NoRunner}
    BY <2>8 DEF TypeOK
  <2>12. {tries', window'} \subseteq Nat
    BY <2>1, <2>8 DEF TypeOK
  <2> HIDE DEF a, c
  <2> QED BY <1>1, <2>5, <2>7, <2>8, <2>10, <2>11, <2>12 DEF Takes, Kind
<1> QED BY <1>2, <1>3

LEMMA PairIs ==
    ASSUME NEW S, NEW v \in S, NEW e \in S
    PROVE  <<v>> \o <<e>> = <<v, e>>
<1> DEFINE u == <<v>> \o <<e>>
           w == <<v, e>>
<1>1. u \in Seq(S) /\ w \in Seq(S)
  OBVIOUS
<1>2. Len(u) = 2 /\ Len(w) = 2
  OBVIOUS
<1>3. u[1] = v /\ u[2] = e /\ w[1] = v /\ w[2] = e
  OBVIOUS
<1> HIDE DEF u, w
<1>4. \A i \in 1 .. Len(u) : u[i] = w[i]
  BY <1>2, <1>3
<1>5. u = w
  BY <1>1, <1>2, <1>4, SeqEqual
<1> QED BY <1>5 DEF u, w

LEMMA RestartTakes ==
    ASSUME TypeOK, NEW r \in Runners, RestartService(r) PROVE \E a : Takes(r, a)
<1>1. todo[r] # <<>> /\ HeadOp(r) = "restart" /\ ToDo
  BY HeadPlain DEF RestartService
<1> DEFINE n == Len(signals) + 1
           made == [from |-> "remediation", n |-> 0, failing |-> FALSE]
           e == On("signal", n)
           v == Op("verified")
<1>2. n \in Nat
  BY TypesGive
<1>3. Record(<<n>>) = <<e>>
  BY DEF Record
<1>4. signals' = Append(signals, made)
  BY DEF RestartService
<1>5. \/ Goes(r, <<v>> \o <<e>>) /\ tries' = 0
      \/ Goes(r, <<e>>) /\ tries' = tries + 1
  BY <1>3 DEF RestartService
<1>6. e \in Steps /\ v \in Steps
  BY <1>2, StepsAre
<1> HIDE DEF e, v
<1>7. <<v>> \o <<e>> = <<v, e>> /\ <<v, e>> \in Seq(Steps) /\ <<e>> \in Seq(Steps)
  <2>1. <<v>> \o <<e>> = <<v, e>>
    BY <1>6, PairIs
  <2>2. <<v, e>> \in Seq(Steps)
    BY <1>6
  <2>3. <<e>> \in Seq(Steps)
    BY <1>6
  <2> QED BY <2>1, <2>2, <2>3
<1>8. \E a \in Seq(Steps) : Goes(r, a) /\ (\/ a = <<v, e>> /\ tries' = 0
                                           \/ a = <<e>> /\ tries' = tries + 1)
  BY <1>5, <1>7
<1>9. PICK a \in Seq(Steps) : Goes(r, a) /\ (\/ a = <<v, e>> /\ tries' = 0
                                             \/ a = <<e>> /\ tries' = tries + 1)
  BY <1>8
<1>10. Follows(r, a) /\ GoesOn(r, a)
  BY <1>1, <1>9, FollowsGoes
<1>11. Idle /\ UNCHANGED <<timeline, lock>>
  BY DEF RestartService, Idle
<1>12. made \in Signal /\ made.from # "event"
  BY DEF Signal, Sources
<1> HIDE DEF made
<1>13. Restarts(r, a)
  BY <1>1, <1>4, <1>9, <1>11, <1>12
     DEF Restarts, Idle, KeepsLock, KeepsEvents, KeepsConfig, KeepsTimeline, e, v
<1>14. signals' \in Seq(Signal)
  BY <1>4, <1>12, TypesGive
<1>15. timeline' \in Seq(Nat) /\ lock' \in Runners \cup {NoRunner}
  BY <1>11 DEF TypeOK
<1>16. tries' \in Nat
  BY <1>9 DEF TypeOK
<1> QED BY <1>1, <1>10, <1>11, <1>13, <1>14, <1>15, <1>16, IdleTakes DEF Kind

\* Each step of a process is of one of the kinds.
LEMMA StepTakes ==
    ASSUME TypeInv, NEW r \in Runners, Step(r)
    PROVE  \E a : Takes(r, a)
<1>1. TypeOK
  BY DEF TypeInv
<1>2. Updates(r) \/ ListEvents(r) \/ BeginCapture(r) \/ AppendTimeline(r) \/ Gather(r)
      \/ ApplyMatchingRules(r) \/ ReserveAttempt(r) \/ RestartService(r) \/ DeliverDue(r) \/ Deliver(r)
  BY DEF Step, Updates
<1> QED BY <1>1, <1>2, UpdateTakes, ListTakes, CaptureTakes, AppendTakes, GatherTakes, RulesTakes,
           ReserveTakes, RestartTakes, DueTakes, DeliverTakes

-----------------------------------------------------------------------------
(* What the steps left to do are, and that captures read listed events     *)

OpsIn(a, S) == \A k \in 1 .. Len(a) : a[k].op \in S

LEMMA CaptureOps ==
    ASSUME TypeOK, NEW r \in Runners, NEW a, Captures(r, a)
    PROVE  OpsIn(a, {"append", "endCapture"})
<1>1. PICK fresh \in Seq(Nat), made \in Seq(Signal) :
          /\ LastOf(fresh) \in Nat
          /\ a = CaptureSteps(Ids(Len(signals), Len(made)), LastOf(fresh))
  BY DEF Captures
<1> DEFINE new == Ids(Len(signals), Len(made))
           last == LastOf(fresh)
<1>2. Len(signals) \in Nat /\ Len(made) \in Nat
  BY TypesGive
<1>3. new \in Seq(Nat)
  BY <1>2, IdsAre
<1>4. Len(new) \in Nat
  BY <1>3
<1> HIDE DEF new, last
<1>5. /\ Len(CaptureSteps(new, last)) = Len(new) + 1
      /\ \A i \in 1 .. Len(new) : CaptureSteps(new, last)[i] = On("append", new[i])
      /\ CaptureSteps(new, last)[Len(new) + 1] = [op |-> "endCapture", new |-> new, last |-> last]
  BY <1>1, <1>3, CaptureStepsAre DEF last
<1>6. \A n : On("append", n).op = "append"
  BY DEF On
<1>7. ASSUME NEW k \in 1 .. Len(new) + 1
      PROVE  CaptureSteps(new, last)[k].op \in {"append", "endCapture"}
  <2>1. k \in 1 .. Len(new) \/ k = Len(new) + 1
    BY <1>4
  <2>2. CASE k \in 1 .. Len(new)
    BY <1>5, <1>6, <2>2
  <2>3. CASE k = Len(new) + 1
    BY <1>5, <2>3
  <2> QED BY <2>1, <2>2, <2>3
<1> QED BY <1>1, <1>5, <1>7 DEF OpsIn, new, last

LEMMA GatherOps ==
    ASSUME TypeOK, NEW r \in Runners, NEW a, Gathers(r, a)
    PROVE  OpsIn(a, Plain \cup {"signal"})
<1>1. PICK b, new : IsPlain(b) /\ new \in Seq(Nat) /\ a = Recording(b, new)
  BY DEF Gathers
<1>2. /\ Len(b) \in Nat /\ Len(new) \in Nat /\ Len(a) = Len(b) + Len(new) + Len(new)
      /\ \A k \in 1 .. Len(b) : a[k] = b[k]
      /\ \A k \in 1 .. Len(new) : a[Len(b) + k] = On("signal", new[k])
      /\ \A k \in 1 .. Len(new) : a[Len(b) + Len(new) + k] = On("rules", new[k])
  BY <1>1, RecordingIs
<1>3. \A n : On("signal", n).op = "signal" /\ On("rules", n).op \in Plain
  BY DEF On, Plain
<1>4. ASSUME NEW k \in 1 .. Len(a) PROVE a[k].op \in Plain \cup {"signal"}
  <2>1. CASE k <= Len(b)
    BY <1>1, <1>2, <2>1 DEF IsPlain
  <2>2. CASE k > Len(b) /\ k <= Len(b) + Len(new)
    <3> DEFINE j == k - Len(b)
    <3>1. j \in 1 .. Len(new) /\ k = Len(b) + j
      BY <1>2, <2>2
    <3>2. a[Len(b) + j] = On("signal", new[j])
      BY <1>2, <3>1
    <3> QED BY <1>3, <3>1, <3>2
  <2>3. CASE k > Len(b) + Len(new)
    <3> DEFINE j == k - Len(b) - Len(new)
    <3>1. j \in 1 .. Len(new) /\ k = Len(b) + Len(new) + j
      BY <1>2, <2>3
    <3>2. a[Len(b) + Len(new) + j] = On("rules", new[j])
      BY <1>2, <3>1
    <3> QED BY <1>3, <3>1, <3>2
  <2> QED BY <1>2, <2>1, <2>2, <2>3
<1> QED BY <1>4 DEF OpsIn

LEMMA ShortOps ==
    ASSUME NEW r \in Runners, NEW a
    PROVE  /\ Lists(r, a) => Len(a) = 1 /\ a[1] = On("capture", Len(events))
           /\ Reserves(r, a) => Len(a) = 1 /\ a[1].op = "restart"
           /\ Resets(r, a) => Len(a) = 0
           /\ Restarts(r, a) => \/ /\ Len(a) = 2 /\ a[1].op = "verified" /\ tries' = 0
                                   /\ a[2] = On("signal", Len(signals) + 1)
                                \/ /\ Len(a) = 1 /\ a[1] = On("signal", Len(signals) + 1)
                                   /\ tries' = tries + 1
<1>1. Lists(r, a) => Len(a) = 1 /\ a[1] = On("capture", Len(events))
  BY DEF Lists
<1>2. Reserves(r, a) => Len(a) = 1 /\ a[1].op = "restart"
  BY DEF Reserves, Op
<1>3. Resets(r, a) => Len(a) = 0
  BY DEF Resets
<1>4. Restarts(r, a) => \/ /\ Len(a) = 2 /\ a[1].op = "verified" /\ tries' = 0
                           /\ a[2] = On("signal", Len(signals) + 1)
                        \/ /\ Len(a) = 1 /\ a[1] = On("signal", Len(signals) + 1)
                           /\ tries' = tries + 1
  BY DEF Restarts, Op
<1> QED BY <1>1, <1>2, <1>3, <1>4

LEMMA KindOps ==
    ASSUME TypeOK, NEW r \in Runners, NEW a, Kind(r, a)
    PROVE  /\ ~Lists(r, a) => OpsIn(a, Plain \cup {"append", "endCapture", "signal", "restart", "verified"})
           /\ ~Captures(r, a) => OpsIn(a, Plain \cup {"capture", "signal", "restart", "verified"})
           /\ ~Reserves(r, a) /\ ~Restarts(r, a) =>
                  OpsIn(a, Plain \cup {"capture", "append", "endCapture", "signal"})
           /\ ~Captures(r, a) /\ ~Gathers(r, a) /\ ~Restarts(r, a) =>
                  OpsIn(a, Plain \cup {"capture", "restart"})
<1>1. CASE IsPlain(a)
  BY <1>1 DEF IsPlain, OpsIn
<1>2. CASE Lists(r, a)
  <2>1. OpsIn(a, {"capture"})
    BY <1>2, ShortOps DEF OpsIn, On
  <2> QED BY <1>2, <2>1 DEF OpsIn
<1>3. CASE Captures(r, a)
  BY <1>3, CaptureOps DEF OpsIn
<1>4. CASE Gathers(r, a)
  BY <1>4, GatherOps DEF OpsIn
<1>5. CASE Reserves(r, a)
  <2>1. OpsIn(a, {"restart"})
    BY <1>5, ShortOps DEF OpsIn
  <2> QED BY <1>5, <2>1 DEF OpsIn
<1>6. CASE Restarts(r, a)
  <2>1. OpsIn(a, {"verified", "signal"})
    BY <1>6, ShortOps DEF OpsIn, On
  <2> QED BY <1>6, <2>1 DEF OpsIn
<1>7. CASE Resets(r, a)
  <2>1. 1 .. Len(a) = {}
    BY <1>7, ShortOps
  <2> QED BY <2>1 DEF OpsIn
<1>8. Quiet(r, a) \/ Appends(r, a) \/ Ends(r, a) => IsPlain(a)
  BY DEF Quiet, Appends, Ends
<1> QED BY <1>1, <1>2, <1>3, <1>4, <1>5, <1>6, <1>7, <1>8 DEF Kind

\* The events only grow.
EventsGrow ==
    Len(events') >= Len(events) /\ \A i \in 1 .. Len(events) : events'[i] = events[i]

LEMMA ListedKept ==
    ASSUME TypeInv, NEW r \in Runners, NEW a, Follows(r, a), UNCHANGED events,
           \A k \in 1 .. Len(a) : a[k].op = "capture" => a[k].n <= Len(events)
    PROVE  Listed'
<1>1. SUFFICES ASSUME NEW q \in Runners, NEW k \in 1 .. Len(todo'[q]), todo'[q][k].op = "capture"
               PROVE  todo'[q][k].n <= Len(events)
  BY DEF Listed
<1>2. CASE q # r
  BY <1>1, <1>2 DEF Follows, TypeInv, Listed
<1>3. CASE q = r
  <2>1. Len(a) \in Nat /\ Len(todo'[r]) \in Nat
    BY DEF Follows, ToDo
  <2>2. k \in 1 .. Len(a) \/ k \in Len(a) + 1 .. Len(todo'[r])
    BY <1>3, <2>1
  <2>3. CASE k \in 1 .. Len(a)
    BY <1>1, <1>3, <2>3 DEF Follows
  <2>4. CASE k \in Len(a) + 1 .. Len(todo'[r])
    <3> DEFINE j == k - Len(a) + 1
    <3>1. j \in 2 .. Len(todo[r]) /\ todo'[r][k] = todo[r][j]
      BY <2>4 DEF Follows
    <3>2. j \in 1 .. Len(todo[r])
      BY <3>1, TypesGive DEF TypeInv, ToDo
    <3> QED BY <1>1, <1>3, <3>1, <3>2 DEF TypeInv, Listed
  <2> QED BY <2>2, <2>3, <2>4
<1> QED BY <1>2, <1>3

\* What starting a process does
Begins(r, a) ==
    /\ Follows(r, a) /\ todo[r] = <<>> /\ r \in scenario.runners
    /\ \/ /\ IsPlain(a) /\ signals' = signals
          /\ \A k \in 1 .. Len(a) : a[k].op \in Dull \/ (a[k].op = "due" /\ k = 3)
       \/ /\ a = Recording(<<>>, <<Len(signals) + 1>>)
          /\ \E made \in Signal : made.from # "event" /\ signals' = Append(signals, made)
    /\ UNCHANGED <<scenario, outside, timeline, state, backup, lock, crashes, history>>

LEMMA StartBegins ==
    ASSUME TypeOK, NEW r \in Runners, RunOnce(r) \/ ObserveNow(r) \/ RecordProviderSignal(r)
    PROVE  \E a : Begins(r, a)
<1>0. ToDo
  BY TypesGive
<1>1. CASE RunOnce(r)
  <2> DEFINE e1 == Op("list")
             e2 == [op |-> "sample", force |-> FALSE]
             e3 == Op("due")
             a == <<e1, e2, e3>>
  <2>1. e1 \in Steps /\ e2 \in Steps /\ e3 \in Steps
    BY StepsAre
  <2>2. e1.op \in Plain /\ e2.op \in Plain /\ e3.op \in Plain
    BY DEF Op, Plain
  <2>3. Starts(r, a)
    BY <1>1 DEF RunOnce
  <2>7. e1.op \in Dull /\ e2.op \in Dull /\ e3.op = "due"
    BY DEF Op, Dull
  <2> HIDE DEF e1, e2, e3
  <2>4. IsPlain(a)
    BY <2>1, <2>2 DEF IsPlain
  <2>8. \A k \in 1 .. Len(a) : a[k].op \in Dull \/ (a[k].op = "due" /\ k = 3)
    BY <2>7
  <2>5. Follows(r, a) /\ todo[r] = <<>> /\ r \in scenario.runners
    BY <1>0, <2>3, <2>4, FollowsStarts DEF IsPlain
  <2>6. UNCHANGED <<scenario, outside, signals, timeline, state, backup, lock, crashes, history>>
    BY <1>1 DEF RunOnce
  <2> QED BY <2>4, <2>5, <2>6, <2>8 DEF Begins
<1>2. CASE ObserveNow(r)
  <2> DEFINE e == [op |-> "sample", force |-> TRUE]
             a == <<e>>
  <2>1. e \in Steps /\ e.op \in Plain /\ e.op \in Dull
    BY StepsAre DEF Plain, Dull
  <2>2. Starts(r, a)
    BY <1>2 DEF ObserveNow
  <2> HIDE DEF e
  <2>3. IsPlain(a) /\ \A k \in 1 .. Len(a) : a[k].op \in Dull
    BY <2>1 DEF IsPlain
  <2>4. Follows(r, a) /\ todo[r] = <<>> /\ r \in scenario.runners
    BY <1>0, <2>2, <2>3, FollowsStarts DEF IsPlain
  <2>5. UNCHANGED <<scenario, outside, signals, timeline, state, backup, lock, crashes, history>>
    BY <1>2 DEF ObserveNow
  <2> QED BY <2>3, <2>4, <2>5 DEF Begins
<1>3. CASE RecordProviderSignal(r)
  <2> DEFINE new == <<Len(signals) + 1>>
             a == Recording(<<>>, new)
  <2>1. new \in Seq(Nat)
    BY TypesGive
  <2>2. Record(new) \in Seq(Steps)
    BY <2>1, RecordIs
  <2>3. Starts(r, Record(new) \o RulesFor(new))
    BY <1>3 DEF RecordProviderSignal
  <2> HIDE DEF new
  <2>4. <<>> \o Record(new) = Record(new)
    BY <2>2, ConcatEmptySeq
  <2>5. Starts(r, a)
    BY <2>3, <2>4 DEF Recording
  <2>6. a \in Seq(Steps)
    BY <2>1, PlainsAre, RecordingIs
  <2> HIDE DEF a
  <2>7. Follows(r, a) /\ todo[r] = <<>> /\ r \in scenario.runners
    BY <1>0, <2>5, <2>6, FollowsStarts
  <2>8. UNCHANGED <<scenario, outside, timeline, state, backup, lock, crashes, history>>
    BY <1>3 DEF RecordProviderSignal
  <2>9. \E made \in Signal : made.from # "event" /\ signals' = Append(signals, made)
    <3>1. PICK f \in BOOLEAN : signals' = Append(signals, [from |-> "provider", n |-> 0, failing |-> f])
      BY <1>3 DEF RecordProviderSignal, Failing
    <3>2. [from |-> "provider", n |-> 0, failing |-> f] \in Signal
      BY DEF Signal, Sources
    <3> QED BY <3>1, <3>2
  <2> QED BY <2>7, <2>8, <2>9 DEF Begins, a, new
<1> QED BY <1>1, <1>2, <1>3

LEMMA BeginOps ==
    ASSUME TypeOK, NEW r \in Runners, NEW a, Begins(r, a)
    PROVE  OpsIn(a, Plain \cup {"signal"})
<1>1. CASE IsPlain(a)
  BY <1>1 DEF IsPlain, OpsIn
<1>2. CASE a = Recording(<<>>, <<Len(signals) + 1>>)
  <2> DEFINE n == Len(signals) + 1
             b == <<>>
             new == <<n>>
  <2>1. n \in Nat
    BY TypesGive
  <2>2. new \in Seq(Nat) /\ Len(new) = 1 /\ new[1] = n
    BY <2>1
  <2>3. IsPlain(b) /\ Len(b) = 0
    BY PlainsAre
  <2>5. a = Recording(b, new)
    BY <1>2
  <2> HIDE DEF n, b, new
  <2>a. IsPlain(b)
    BY <2>3
  <2>b. new \in Seq(Nat)
    BY <2>2
  <2>4. /\ Len(Recording(b, new)) = Len(b) + Len(new) + Len(new)
        /\ \A k \in 1 .. Len(new) : Recording(b, new)[Len(b) + k] = On("signal", new[k])
        /\ \A k \in 1 .. Len(new) : Recording(b, new)[Len(b) + Len(new) + k] = On("rules", new[k])
    BY ONLY <2>a, <2>b, RecordingIs
  <2>6. Len(a) = 2 /\ a[1].op = "signal" /\ a[2].op = "rules"
    BY <2>2, <2>3, <2>4, <2>5 DEF On
  <2> QED BY <2>6 DEF OpsIn, Plain
<1> QED BY <1>1, <1>2 DEF Begins

\* What the death of a process does
Dies(r) ==
    /\ Follows(r, <<>>) /\ todo[r] # <<>> /\ crashes' = crashes + 1
    /\ lock' = IF lock = r THEN NoRunner ELSE lock
    /\ \/ UNCHANGED <<backup, saveDied>>
       \/ saveDied' = TRUE
    /\ UNCHANGED <<scenario, outside, signals, timeline, state, asked, posts, tries, window, previous>>

LEMMA CrashDies ==
    ASSUME TypeOK, NEW r \in Runners, Crash(r)
    PROVE  Dies(r) /\ TypeOK'
<1>1. Follows(r, <<>>)
  BY TypesGive, FollowsFails DEF Crash
<1>2. /\ crashes' = crashes + 1 /\ todo[r] # <<>>
      /\ lock' = IF lock = r THEN NoRunner ELSE lock
      /\ UNCHANGED <<scenario, outside, signals, timeline, state, asked, posts, tries, window, previous>>
  BY DEF Crash
<1>3. UNCHANGED <<backup, saveDied>> \/ saveDied' = TRUE
  BY DEF Crash
<1>4. backup' \in Config \cup {NoConfig, Torn}
  BY StateIs DEF TypeOK, Crash
<1>5. saveDied' \in BOOLEAN
  BY <1>3 DEF TypeOK
<1>6. {asked', crashes', tries', window'} \subseteq Nat
  BY <1>2 DEF TypeOK
<1>7. lock' \in Runners \cup {NoRunner}
  BY <1>2 DEF TypeOK
<1>8. ToDo'
  BY <1>1 DEF Follows
<1> QED BY <1>1, <1>2, <1>3, <1>4, <1>5, <1>6, <1>7, <1>8 DEF Dies, TypeOK, ToDo, outside

\* What is done outside, or by hand
Apart ==
    \/ RecordEvent \/ StampEvent \/ AppendLateEvent \/ KernelEvent
    \/ \E d \in Dests : ToggleSecret(d)
Passes == WindowElapses \/ CooldownElapses \/ DelayElapses
Configures ==
    \/ \E d \in Dests : ApplySubscription(d)
    \/ \E d \in Dests, mode \in {"on", "off"} : ApplyDestination(d, mode)
    \/ \E mode \in {"on", "off"} : ApplyRule(mode)
    \/ RollbackConfiguration

LEMMA NextIs ==
    ASSUME Next
    PROVE  \/ Apart \/ Passes \/ Configures
           \/ \E r \in Runners : RunOnce(r) \/ ObserveNow(r) \/ RecordProviderSignal(r)
           \/ \E r \in Runners : Step(r)
           \/ \E r \in Runners : Crash(r)
BY DEF Next, Apart, Passes, Configures

LEMMA ApartIs ==
    ASSUME TypeOK, Apart
    PROVE  /\ UNCHANGED <<scenario, internal, crashes, history>>
           /\ EventsGrow
<1>1. UNCHANGED <<scenario, internal, crashes, history>>
  BY DEF Apart, RecordEvent, StampEvent, AppendLateEvent, KernelEvent, ToggleSecret
<1>2. Newest \in Nat
  BY NewestIs DEF TypeOK
<1>3. events' = events \/ events' = Append(events, Newest + 1) \/ events' = Append(events, late)
  BY DEF Apart, RecordEvent, StampEvent, AppendLateEvent, KernelEvent, ToggleSecret
<1>4. events \in Seq(Nat) /\ late \in Nat /\ Newest + 1 \in Nat
  BY <1>2 DEF TypeOK
<1>5. ASSUME NEW e \in Nat, events' = Append(events, e) PROVE EventsGrow
  BY <1>4, <1>5 DEF EventsGrow
<1>6. EventsGrow
  BY <1>3, <1>4, <1>5 DEF EventsGrow
<1> QED BY <1>1, <1>6

LEMMA PassesIs ==
    ASSUME Passes
    PROVE  UNCHANGED <<scenario, outside, signals, timeline, backup, lock, todo, crashes>>
BY DEF Passes, WindowElapses, CooldownElapses, DelayElapses

LEMMA ConfiguresIs ==
    ASSUME TypeOK, Configures
    PROVE  /\ TypeOK'
           /\ \E c \in Config :
                 /\ Configure(c)
                 /\ c.rule \in {state.config.rule, NewRule("on"), NewRule("off")}
                                    \cup (IF backup \in Config THEN {backup.rule} ELSE {})
BY ConfigurationTypes DEF Configures

LEMMA InitTypeInv == Init => TypeInv
<1> SUFFICES ASSUME Init PROVE TypeInv
  OBVIOUS
<1>1. ASSUME NEW r \in Runners PROVE 1 .. Len(todo[r]) = {}
  BY DEF Init
<1> QED BY <1>1, InitTypes DEF TypeInv, Listed

LEMMA NextTypeInv == TypeInv /\ [Next]_vars => TypeInv'
<1> SUFFICES ASSUME TypeInv, [Next]_vars PROVE TypeInv'
  OBVIOUS
<1>0. TypeOK /\ Listed
  BY DEF TypeInv
<1>1. CASE Apart
  <2>1. TypeOK'
    BY <1>0, <1>1, OutsideTypes DEF Apart
  <2>2. EventsGrow /\ todo' = todo
    BY <1>0, <1>1, ApartIs DEF internal
  <2>3. \A r \in Runners : \A k \in 1 .. Len(todo[r]) : todo[r][k].op = "capture" => todo[r][k].n \in Nat
    <3>1. \A r \in Runners : todo[r] \in Seq(Steps)
      BY <1>0 DEF TypeOK
    <3>2. \A r \in Runners : \A k \in 1 .. Len(todo[r]) : todo[r][k] \in Steps
      BY <3>1
    <3> QED BY <3>2, FieldsAre
  <2>a. events \in Seq(Nat) /\ events' \in Seq(Nat)
    BY <1>0, <2>1 DEF TypeOK
  <2>b. Len(events) \in Nat
    BY <2>a
  <2>c. Len(events') \in Nat
    BY <2>a
  <2>4. Len(events) \in Nat /\ Len(events') \in Nat
    BY <2>b, <2>c
  <2>5. Listed'
    BY <1>0, <2>2, <2>3, <2>4 DEF Listed, EventsGrow
  <2> QED BY <2>1, <2>5 DEF TypeInv
<1>2. CASE Passes
  <2>1. TypeOK'
    BY <1>0, <1>2, TimeTypes DEF Passes
  <2>2. UNCHANGED <<events, todo>>
    BY <1>2, PassesIs DEF outside
  <2> QED BY <1>0, <2>1, <2>2 DEF TypeInv, Listed
<1>3. CASE Configures
  <2>1. TypeOK' /\ \E c \in Config : Configure(c)
    BY <1>0, <1>3, ConfiguresIs
  <2>2. UNCHANGED <<events, todo>>
    BY <2>1 DEF Configure, outside
  <2> QED BY <1>0, <2>1, <2>2 DEF TypeInv, Listed
<1>4. ASSUME NEW r \in Runners, RunOnce(r) \/ ObserveNow(r) \/ RecordProviderSignal(r)
      PROVE  TypeInv'
  <2>1. TypeOK'
    BY <1>0, <1>4, StartTypes
  <2>2. PICK a : Begins(r, a)
    BY <1>0, <1>4, StartBegins
  <2>3. \A k \in 1 .. Len(a) : a[k].op # "capture"
    BY <1>0, <2>2, BeginOps DEF OpsIn, Plain
  <2>4. Follows(r, a) /\ UNCHANGED events
    BY <2>2 DEF Begins, outside
  <2> QED BY <2>1, <2>3, <2>4, ListedKept DEF TypeInv
<1>5. ASSUME NEW r \in Runners, Step(r) PROVE TypeInv'
  <2>1. PICK a : Takes(r, a)
    BY <1>5, StepTakes
  <2>2. TypeOK'
    BY <1>0, <2>1, TakesTypes
  <2>3. \A k \in 1 .. Len(a) : a[k].op = "capture" => a[k].n <= Len(events)
    <3>1. CASE Lists(r, a)
      <4>1. Len(a) = 1 /\ a[1].n = Len(events) /\ Len(events) \in Nat
        BY <1>0, <3>1, ShortOps, TypesGive DEF On
      <4> QED BY <4>1
    <3>2. CASE ~Lists(r, a)
      BY <1>0, <2>1, <3>2, KindOps DEF Takes, OpsIn, Plain
    <3> QED BY <3>1, <3>2
  <2>4. Follows(r, a) /\ UNCHANGED events
    BY <2>1 DEF Takes, outside
  <2> QED BY <2>2, <2>3, <2>4, ListedKept DEF TypeInv
<1>6. ASSUME NEW r \in Runners, Crash(r) PROVE TypeInv'
  <2>1. Dies(r) /\ TypeOK'
    BY <1>0, <1>6, CrashDies
  <2>2. Follows(r, <<>>) /\ UNCHANGED events
    BY <2>1 DEF Dies, outside
  <2>3. 1 .. Len(<<>>) = {}
    OBVIOUS
  <2> QED BY <2>1, <2>2, <2>3, ListedKept DEF TypeInv
<1>7. CASE UNCHANGED vars
  BY <1>0, <1>7 DEF TypeInv, TypeOK, Listed, vars, outside, history
<1> QED BY <1>1, <1>2, <1>3, <1>4, <1>5, <1>6, <1>7, NextIs

\* Every variable keeps its type.
THEOREM TypesHold == Spec => []TypeOK
<1>1. TypeInv => TypeOK
  BY DEF TypeInv
<1> QED BY <1>1, InitTypeInv, NextTypeInv, PTL DEF Spec

-----------------------------------------------------------------------------
(* The snapshot                                                            *)

\* A configuration that was replaced was in a file, so that the snapshot of it
\* was taken when it was replaced.
RollInv == TypeInv /\ (previous # NoConfig => state.exists) /\ RollbackGoesBack

LEMMA InitRoll == Init => RollInv
BY InitTypeInv DEF Init, RollInv, RollbackGoesBack

LEMMA PassesKeeps ==
    ASSUME TypeOK, Passes
    PROVE  /\ state' \in State /\ state'.exists = state.exists /\ state'.lastEvent = state.lastEvent
           /\ UNCHANGED <<posts, tries, previous, saveDied>>
           /\ \/ state'.config = state.config /\ window' = window
              \/ /\ state'.config = [state.config EXCEPT !.rule.cooling = FALSE]
                 /\ window' = 0
<1>1. state' \in State
  BY TimeTypes DEF Passes, TypeOK
<1>2. state \in State
  BY DEF TypeOK
<1>3. CASE WindowElapses
  BY <1>1, <1>2, <1>3 DEF WindowElapses, State, history
<1>4. CASE CooldownElapses
  BY <1>1, <1>2, <1>4 DEF CooldownElapses, State
<1>5. CASE DelayElapses
  BY <1>1, <1>2, <1>5 DEF DelayElapses, State, history
<1> QED BY <1>3, <1>4, <1>5 DEF Passes

LEMMA NextRoll == RollInv /\ [Next]_vars => RollInv'
<1> SUFFICES ASSUME RollInv, [Next]_vars
             PROVE  (previous # NoConfig => state.exists)' /\ RollbackGoesBack'
  BY NextTypeInv DEF RollInv
<1>0. /\ TypeOK /\ (previous # NoConfig => state.exists)
      /\ (previous # NoConfig /\ ~saveDied => backup = previous)
  BY DEF RollInv, TypeInv, RollbackGoesBack
<1> USE DEF RollbackGoesBack
<1>1. CASE Apart
  BY <1>0, <1>1, ApartIs DEF internal, history
<1>2. CASE Passes
  BY <1>0, <1>2, PassesKeeps, PassesIs
<1>3. CASE Configures
  <2>1. PICK c \in Config : Configure(c)
    BY <1>0, <1>3, ConfiguresIs
  <2>2. state \in State /\ backup \in Config \cup {NoConfig, Torn}
    BY <1>0 DEF TypeOK
  <2>3. \/ c = state.config /\ state' = state /\ backup' = backup
        \/ c # state.config /\ state'.exists
           /\ backup' = IF state.exists THEN state.config ELSE backup
    BY <2>1, <2>2, ConfigureIs
  <2>4. Reconfigures(c)
    BY <2>1 DEF Configure
  <2> QED BY <1>0, <2>3, <2>4 DEF Reconfigures, history
<1>4. ASSUME NEW r \in Runners, RunOnce(r) \/ ObserveNow(r) \/ RecordProviderSignal(r)
      PROVE  (previous # NoConfig => state.exists)' /\ RollbackGoesBack'
  BY <1>0, <1>4, StartBegins DEF Begins, history
<1>5. ASSUME NEW r \in Runners, Step(r)
      PROVE  (previous # NoConfig => state.exists)' /\ RollbackGoesBack'
  <2>1. PICK a : Takes(r, a)
    BY <1>0, <1>5, StepTakes DEF RollInv
  <2>2. KeepsBackup /\ (state.exists => state'.exists) /\ UNCHANGED <<previous, saveDied>>
    BY <2>1 DEF Takes
  <2> QED BY <1>0, <2>2 DEF KeepsBackup
<1>6. ASSUME NEW r \in Runners, Crash(r)
      PROVE  (previous # NoConfig => state.exists)' /\ RollbackGoesBack'
  BY <1>0, <1>6, CrashDies DEF Dies
<1>7. CASE UNCHANGED vars
  BY <1>0, <1>7 DEF vars, history
<1> QED BY <1>1, <1>2, <1>3, <1>4, <1>5, <1>6, <1>7, NextIs

\* A rollback goes back to the configuration before the last change of it,
\* whatever runtime updates save_state made since, unless a process died in one
\* of them.
THEOREM RollbackIsRight == Spec => []RollbackGoesBack
<1>1. RollInv => RollbackGoesBack
  BY DEF RollInv
<1> QED BY <1>1, InitRoll, NextRoll, PTL DEF Spec

-----------------------------------------------------------------------------
(* Restarts                                                                *)

AttemptsBounded ==
    /\ state.config.rule.attempts <= RuleAttempts
    /\ backup \in Config => backup.rule.attempts <= RuleAttempts

\* A restart reserved in the present cooldown keeps the rule cooling.
CoolsDown == window <= 1 /\ (window = 1 => state.config.rule.cooling)

\* A restart, and the reset after it, is what a process does next.
RestartsFirst ==
    \A r \in Runners : \A k \in 1 .. Len(todo[r]) :
        /\ r \in scenario.runners
        /\ todo[r][k].op \in {"restart", "verified"} => k = 1

\* The processes that restart the service next, and those that do not reset the
\* count next
Restarting == {r \in scenario.runners : todo[r] # <<>> /\ HeadOp(r) = "restart"}
Unverified == {r \in scenario.runners : ~(todo[r] # <<>> /\ HeadOp(r) = "verified")}

\* t restarts were tried, the processes R restart next, and the rule, with n
\* attempts, gives what is left of its limit to those of U: each of them may have
\* it given once more.
Fits(t, R, U, n) ==
    t + Cardinality(R) + (IF U = {} THEN 0 ELSE RuleAttempts - n)
        <= RuleAttempts * Cardinality(U) + 1

Budget == Fits(tries, Restarting, Unverified, state.config.rule.attempts)

RestartInv == TypeInv /\ AttemptsBounded /\ CoolsDown /\ RestartsFirst /\ Budget

LEMMA Times ==
    ASSUME NEW a \in Nat \ {0}, NEW m \in Nat
    PROVE  a * m \in Nat /\ a * (m + 1) = a * m + a /\ (m >= 1 => m + a <= a * m + 1)
<1>1. a * m \in Nat /\ a * (m + 1) = a * m + a
  OBVIOUS
<1>2. ASSUME m >= 1 PROVE m + a <= a * m + 1
  <2> DEFINE x == a - 1
             y == m - 1
  <2>1. x \in Nat /\ y \in Nat /\ a = x + 1 /\ m = y + 1
    BY <1>2
  <2> HIDE DEF x, y
  <2>2. x * y \in Nat /\ (x + 1) * (y + 1) = x * y + x + y + 1
    BY <2>1
  <2> QED BY <2>1, <2>2
<1> QED BY <1>1, <1>2

LEMMA FitsAnew ==
    ASSUME NEW U, IsFiniteSet(U), NEW R \in SUBSET U, NEW n \in Nat,
           RuleAttempts \in Nat \ {0}
    PROVE  Fits(0, R, U, n)
<1>1. /\ Cardinality(U) \in Nat /\ Cardinality(R) \in Nat /\ Cardinality(R) <= Cardinality(U)
      /\ Cardinality(U) = 0 <=> U = {}
  BY FS_Subset, FS_CardinalityType, FS_EmptySet
<1>2. /\ RuleAttempts * Cardinality(U) \in Nat
      /\ Cardinality(U) >= 1 => Cardinality(U) + RuleAttempts <= RuleAttempts * Cardinality(U) + 1
  BY <1>1, Times
<1> DEFINE p == RuleAttempts * Cardinality(U)
<1> HIDE DEF p
<1>3. CASE U = {}
  <2>1. 0 + Cardinality(R) + 0 <= p + 1
    BY <1>1, <1>2, <1>3 DEF p
  <2> QED BY <1>3, <2>1 DEF Fits, p
<1>4. CASE U # {}
  <2>1. Cardinality(U) >= 1
    BY <1>1, <1>4
  <2>2. 0 + Cardinality(R) + (RuleAttempts - n) <= p + 1
    BY <1>1, <1>2, <2>1 DEF p
  <2> QED BY <1>4, <2>2 DEF Fits, p
<1> QED BY <1>3, <1>4

LEMMA FitsMore ==
    ASSUME NEW t \in Nat, NEW U, IsFiniteSet(U), NEW R, IsFiniteSet(R), NEW r, r \notin U,
           NEW n \in Nat, n <= RuleAttempts, NEW m \in Nat, Fits(t, R, U, n),
           RuleAttempts \in Nat \ {0}
    PROVE  Fits(t, R, U \cup {r}, m)
<1>1. Cardinality(U) \in Nat /\ Cardinality(R) \in Nat
  BY FS_CardinalityType
<1>2. Cardinality(U \cup {r}) = Cardinality(U) + 1 /\ U \cup {r} # {}
  BY FS_AddElement
<1> DEFINE p == RuleAttempts * Cardinality(U)
<1>3. p \in Nat /\ RuleAttempts * (Cardinality(U) + 1) = p + RuleAttempts
  BY <1>1, Times
<1>4. t + Cardinality(R) + (IF U = {} THEN 0 ELSE RuleAttempts - n) <= p + 1
  BY DEF Fits
<1> HIDE DEF p
<1>5. t + Cardinality(R) <= p + 1
  BY <1>1, <1>3, <1>4
<1>6. t + Cardinality(R) + (RuleAttempts - m) <= p + RuleAttempts + 1
  BY <1>1, <1>3, <1>5
<1> QED BY <1>2, <1>3, <1>6 DEF Fits

LEMMA FitsTried ==
    ASSUME NEW t \in Nat, NEW U, IsFiniteSet(U), NEW R, IsFiniteSet(R), NEW r \in R,
           NEW n \in Nat, Fits(t, R, U, n), RuleAttempts \in Nat \ {0}
    PROVE  Fits(t, R \ {r}, U, n) /\ Fits(t + 1, R \ {r}, U, n)
<1>1. Cardinality(U) \in Nat /\ Cardinality(R) \in Nat /\ Cardinality(R \ {r}) = Cardinality(R) - 1
      /\ Cardinality(R \ {r}) \in Nat
  BY FS_CardinalityType, FS_RemoveElement
<1> DEFINE p == RuleAttempts * Cardinality(U)
           l == IF U = {} THEN 0 ELSE RuleAttempts - n
<1>2. p \in Nat /\ l \in Int
  BY <1>1, Times
<1>3. t + Cardinality(R) + l <= p + 1
  BY DEF Fits
<1> HIDE DEF p, l
<1>4. t + Cardinality(R \ {r}) + l <= p + 1 /\ t + 1 + Cardinality(R \ {r}) + l <= p + 1
  BY <1>1, <1>2, <1>3
<1> QED BY <1>4 DEF Fits, p, l

LEMMA FitsReserved ==
    ASSUME NEW t \in Nat, NEW U, IsFiniteSet(U), U # {}, NEW R, IsFiniteSet(R), NEW r, r \notin R,
           NEW n \in Nat, Fits(t, R, U, n), RuleAttempts \in Nat \ {0}
    PROVE  Fits(t, R \cup {r}, U, n + 1)
<1>1. Cardinality(U) \in Nat /\ Cardinality(R) \in Nat /\ Cardinality(R \cup {r}) = Cardinality(R) + 1
  BY FS_CardinalityType, FS_AddElement
<1> DEFINE p == RuleAttempts * Cardinality(U)
<1>2. p \in Nat
  BY <1>1, Times
<1>3. t + Cardinality(R) + (RuleAttempts - n) <= p + 1
  BY DEF Fits
<1> HIDE DEF p
<1>4. t + Cardinality(R \cup {r}) + (RuleAttempts - (n + 1)) <= p + 1
  BY <1>1, <1>2, <1>3
<1> QED BY <1>4 DEF Fits, p

\* What is next for a process after a step: the first of the new steps, or else
\* something other than a restart or a reset.
LEMMA NextAfter ==
    ASSUME TypeOK, RestartsFirst, NEW r \in Runners, r \in scenario.runners, NEW a, Follows(r, a),
           UNCHANGED scenario,
           \A k \in 1 .. Len(a) : a[k].op \in {"restart", "verified"} => k = 1
    PROVE  /\ RestartsFirst'
           /\ (Len(a) >= 1 /\ a[1].op = "restart") => Restarting' = Restarting \cup {r}
           /\ ~(Len(a) >= 1 /\ a[1].op = "restart") => Restarting' = Restarting \ {r}
           /\ (Len(a) >= 1 /\ a[1].op = "verified") => Unverified' = Unverified \ {r}
           /\ ~(Len(a) >= 1 /\ a[1].op = "verified") => Unverified' = Unverified \cup {r}
<1>0. ToDo /\ ToDo' /\ Len(a) \in Nat /\ Len(todo'[r]) \in Nat /\ Len(todo[r]) \in Nat
  <2>1. ToDo /\ ToDo' /\ a \in Seq(Steps)
    BY TypesGive DEF Follows
  <2>2. todo[r] \in Seq(Steps) /\ todo'[r] \in Seq(Steps)
    BY <2>1 DEF ToDo
  <2>3. Len(a) \in Nat
    BY <2>1
  <2>4. Len(todo[r]) \in Nat
    BY <2>2
  <2>5. Len(todo'[r]) \in Nat
    BY <2>2
  <2> QED BY <2>1, <2>3, <2>4, <2>5
<1>1. \A q \in Runners \ {r} : todo'[q] = todo[q]
  BY DEF Follows
<1>2. ASSUME NEW k \in 1 .. Len(todo'[r]), todo'[r][k].op \in {"restart", "verified"}
      PROVE  k = 1 /\ Len(a) >= 1 /\ todo'[r][1] = a[1]
  <2>1. CASE k <= Len(a)
    BY <1>0, <1>2, <2>1 DEF Follows
  <2>2. CASE k > Len(a)
    <3> DEFINE j == k - Len(a) + 1
    <3>1. j \in 2 .. Len(todo[r]) /\ todo'[r][k] = todo[r][j]
      BY <1>0, <2>2 DEF Follows
    <3>2. j \in 1 .. Len(todo[r]) /\ j # 1
      BY <1>0, <3>1
    <3> QED BY <1>2, <3>1, <3>2 DEF RestartsFirst
  <2> QED BY <1>0, <2>1, <2>2
<1>3. RestartsFirst'
  <2> SUFFICES ASSUME NEW q \in Runners, NEW k \in 1 .. Len(todo'[q])
               PROVE  /\ q \in scenario.runners
                      /\ todo'[q][k].op \in {"restart", "verified"} => k = 1
    BY DEF RestartsFirst
  <2>1. CASE q = r
    BY <1>2, <2>1
  <2>2. CASE q # r
    BY <1>1, <2>2 DEF RestartsFirst
  <2> QED BY <2>1, <2>2
<1> DEFINE At1(op) == todo'[r] # <<>> /\ Head(todo'[r]).op = op
<1>4. ASSUME NEW op \in {"restart", "verified"} PROVE At1(op) <=> Len(a) >= 1 /\ a[1].op = op
  <2>1. ASSUME At1(op) PROVE Len(a) >= 1 /\ a[1].op = op
    <3>1. Len(todo'[r]) >= 1 /\ Head(todo'[r]) = todo'[r][1]
      BY <1>0, <2>1 DEF ToDo
    <3> QED BY <1>0, <1>2, <2>1, <3>1
  <2>2. ASSUME Len(a) >= 1, a[1].op = op PROVE At1(op)
    <3>1. Len(todo'[r]) >= 1 /\ todo'[r][1] = a[1]
      BY <1>0, <2>2 DEF Follows
    <3>2. todo'[r] \in Seq(Steps)
      BY <1>0 DEF ToDo
    <3>3. todo'[r] # <<>> /\ Head(todo'[r]) = todo'[r][1]
      BY <3>1, <3>2
    <3> QED BY <2>2, <3>1, <3>3
  <2> QED BY <2>1, <2>2
<1>5. At1("restart") <=> Len(a) >= 1 /\ a[1].op = "restart"
  BY <1>4
<1>6. At1("verified") <=> Len(a) >= 1 /\ a[1].op = "verified"
  BY <1>4
<1>7. Restarting' = {q \in scenario.runners : todo'[q] # <<>> /\ Head(todo'[q]).op = "restart"}
  BY DEF Restarting, HeadOp
<1>8. Unverified' = {q \in scenario.runners : ~(todo'[q] # <<>> /\ Head(todo'[q]).op = "verified")}
  BY DEF Unverified, HeadOp
<1>9. \A q \in scenario.runners : q \in Runners
  BY OperationsConstants DEF TypeOK
<1>10. \A q \in scenario.runners \ {r} : todo'[q] = todo[q]
  BY <1>1, <1>9
<1>11. Restarting' \ {r} = Restarting \ {r} /\ Unverified' \ {r} = Unverified \ {r}
  BY <1>7, <1>8, <1>10 DEF Restarting, Unverified, HeadOp
<1>12. r \in Restarting' <=> At1("restart")
  BY <1>7
<1>13. r \in Unverified' <=> ~At1("verified")
  BY <1>8
<1> HIDE DEF At1
<1> QED BY <1>3, <1>5, <1>6, <1>11, <1>12, <1>13

LEMMA RunnersFinite ==
    ASSUME TypeOK
    PROVE  /\ IsFiniteSet(Restarting) /\ IsFiniteSet(Unverified)
           /\ Restarting \subseteq Unverified
           /\ scenario.runners \subseteq Runners
           /\ RuleAttempts \in Nat \ {0}
<1>1. IsFiniteSet(scenario.runners) /\ scenario.runners \subseteq Runners /\ RuleAttempts \in Nat \ {0}
  BY OperationsConstants DEF TypeOK
<1>2. Restarting \subseteq Unverified /\ Unverified \subseteq scenario.runners
  BY DEF Restarting, Unverified
<1> QED BY <1>1, <1>2, FS_Subset

LEMMA RuleIs ==
    ASSUME TypeOK
    PROVE  /\ state.config.rule.attempts \in Nat /\ state.config.rule.cooling \in BOOLEAN
           /\ state.config \in Config /\ state.config.rule \in Rule
           /\ tries \in Nat /\ window \in Nat
BY StateIs, ConfigIs DEF TypeOK

\* Nothing that the restarts depend on is touched.
LEMMA Untouched ==
    ASSUME RestartInv, TypeOK', UNCHANGED <<todo, scenario, tries, window, backup>>,
           state'.config = state.config
    PROVE  AttemptsBounded' /\ CoolsDown' /\ RestartsFirst' /\ Budget'
BY DEF RestartInv, AttemptsBounded, CoolsDown, RestartsFirst, Budget, Restarting, Unverified, HeadOp

LEMMA AttemptsKept ==
    ASSUME RestartInv, KeepsBackup, state'.config.rule.attempts <= RuleAttempts
    PROVE  AttemptsBounded'
BY DEF RestartInv, AttemptsBounded, KeepsBackup

LEMMA HeadFirst ==
    ASSUME TypeOK, RestartsFirst, NEW r \in Runners, todo[r] # <<>>
    PROVE  r \in scenario.runners
<1>1. 1 \in 1 .. Len(todo[r])
  BY HeadIs, TypesGive
<1> QED BY <1>1 DEF RestartsFirst

\* The steps of a process
LEMMA TakesRestart ==
    ASSUME RestartInv, NEW r \in Runners, NEW a, Takes(r, a), TypeInv'
    PROVE  RestartInv'
<1> SUFFICES AttemptsBounded' /\ CoolsDown' /\ RestartsFirst' /\ Budget'
  BY DEF RestartInv
<1>0. /\ TypeOK /\ AttemptsBounded /\ CoolsDown /\ RestartsFirst /\ Budget
      /\ todo[r] # <<>> /\ Follows(r, a) /\ Kind(r, a) /\ KeepsBackup /\ UNCHANGED scenario
  BY DEF RestartInv, TypeInv, Takes
<1>1. r \in scenario.runners
  BY <1>0, HeadFirst
<1>2. /\ IsFiniteSet(Restarting) /\ IsFiniteSet(Unverified) /\ RuleAttempts \in Nat \ {0}
  BY <1>0, RunnersFinite
<1>3. /\ state.config.rule.attempts \in Nat /\ state.config.rule.cooling \in BOOLEAN
      /\ state.config \in Config /\ state.config.rule \in Rule
      /\ tries \in Nat /\ window \in Nat
  BY <1>0, RuleIs
<1>4. state.config.rule.attempts <= RuleAttempts
  BY <1>0 DEF AttemptsBounded
<1> DEFINE n == state.config.rule.attempts
<1>5. Fits(tries, Restarting, Unverified, n)
  BY <1>0 DEF Budget
<1>6. CASE Reserves(r, a)
  <2>1. HeadOp(r) = "reserve" /\ Len(a) = 1 /\ a[1].op = "restart"
    BY <1>6, ShortOps DEF Reserves
  <2>2. \A k \in 1 .. Len(a) : a[k].op \in {"restart", "verified"} => k = 1
    BY <2>1
  <2>3. RestartsFirst' /\ Restarting' = Restarting \cup {r} /\ Unverified' = Unverified \cup {r}
    BY <1>0, <1>1, <2>1, <2>2, NextAfter
  <2>4. r \notin Restarting /\ r \in Unverified
    BY <1>1, <2>1 DEF Restarting, Unverified
  <2>5. state'.config = [state.config EXCEPT !.rule.attempts = n + 1, !.rule.cooling = TRUE]
        /\ n < RuleAttempts /\ ~state.config.rule.cooling /\ window' = window + 1 /\ tries' = tries
    BY <1>6 DEF Reserves, NothingMade
  <2>6. state'.config.rule.attempts = n + 1 /\ state'.config.rule.cooling
    BY <1>3, <2>5 DEF Config, Rule
  <2>7. AttemptsBounded'
    BY <1>0, <1>3, <2>5, <2>6, AttemptsKept, <1>2
  <2>8. CoolsDown'
    BY <1>0, <1>3, <2>5, <2>6 DEF CoolsDown
  <2>9. Fits(tries, Restarting \cup {r}, Unverified, n + 1)
    BY <1>2, <1>3, <1>5, <2>4, FitsReserved
  <2>10. Unverified' = Unverified
    BY <2>3, <2>4
  <2>11. Budget'
    BY <2>3, <2>5, <2>6, <2>9, <2>10 DEF Budget
  <2> QED BY <2>3, <2>7, <2>8, <2>11
<1>7. CASE Restarts(r, a)
  <2>1. HeadOp(r) = "restart" /\ state'.config = state.config /\ window' = window
    BY <1>7 DEF Restarts, KeepsConfig
  <2>2. \/ Len(a) = 2 /\ a[1].op = "verified" /\ tries' = 0 /\ a[2] = On("signal", Len(signals) + 1)
        \/ Len(a) = 1 /\ a[1] = On("signal", Len(signals) + 1) /\ tries' = tries + 1
    BY <1>7, ShortOps
  <2>3. On("signal", Len(signals) + 1).op = "signal"
    BY DEF On
  <2>4. \A k \in 1 .. Len(a) : a[k].op \in {"restart", "verified"} => k = 1
    BY <2>2, <2>3
  <2>5. r \in Restarting /\ r \in Unverified
    BY <1>0, <1>1, <2>1 DEF Restarting, Unverified
  <2>6. RestartsFirst' /\ Restarting' = Restarting \ {r}
    BY <1>0, <1>1, <2>2, <2>3, <2>4, NextAfter
  <2>7. AttemptsBounded' /\ CoolsDown'
    BY <1>0, <1>4, <2>1, AttemptsKept DEF CoolsDown
  <2>8. ASSUME Len(a) = 2 /\ a[1].op = "verified" /\ tries' = 0 PROVE Budget'
    <3>1. Restarting' \subseteq Unverified' /\ IsFiniteSet(Unverified')
      BY <1>0, <1>2, <2>4, <2>6, <2>8, NextAfter, FS_RemoveElement, RunnersFinite, <1>1
    <3>2. Fits(0, Restarting', Unverified', n)
      BY <1>2, <1>3, <3>1, FitsAnew
    <3> QED BY <2>1, <2>8, <3>2 DEF Budget
  <2>9. ASSUME Len(a) = 1 /\ a[1] = On("signal", Len(signals) + 1) /\ tries' = tries + 1
        PROVE  Budget'
    <3>a. ~(Len(a) >= 1 /\ a[1].op = "verified")
      BY <2>3, <2>9
    <3>b. Unverified' = Unverified \cup {r}
      BY <1>0, <1>1, <2>4, <3>a, NextAfter
    <3>1. Unverified' = Unverified
      BY <2>5, <3>b
    <3>2. Fits(tries + 1, Restarting \ {r}, Unverified, n)
      BY <1>2, <1>3, <1>5, <2>5, FitsTried
    <3> QED BY <2>1, <2>6, <2>9, <3>1, <3>2 DEF Budget
  <2>10. Budget'
    BY <2>2, <2>8, <2>9
  <2> QED BY <2>6, <2>7, <2>10
<1>8. CASE ~Reserves(r, a) /\ ~Restarts(r, a)
  <2>1. \A k \in 1 .. Len(a) : a[k].op \notin {"restart", "verified"}
    BY <1>0, <1>8, KindOps DEF OpsIn, Plain
  <2>2. ~(Len(a) >= 1 /\ a[1].op = "restart") /\ ~(Len(a) >= 1 /\ a[1].op = "verified")
    <3>1. Len(a) >= 1 => 1 \in 1 .. Len(a)
      BY <1>0 DEF Follows
    <3> QED BY <2>1, <3>1
  <2>3. RestartsFirst' /\ Restarting' = Restarting \ {r} /\ Unverified' = Unverified \cup {r}
    BY <1>0, <1>1, <2>1, <2>2, NextAfter
  <2>4. HeadOp(r) # "restart" /\ window' = window /\ tries' = tries
    BY <1>0, <1>8 DEF Kind, Quiet, Lists, Captures, Appends, Ends, Gathers, Resets, Plain, NothingMade, KeepsConfig
  <2>5. Restarting' = Restarting
    BY <2>3, <2>4 DEF Restarting
  <2>6. CASE Resets(r, a)
    <3>1. HeadOp(r) = "verified" /\ state'.config = [state.config EXCEPT !.rule.attempts = 0]
      BY <2>6 DEF Resets
    <3>2. state'.config.rule.attempts = 0 /\ state'.config.rule.cooling = state.config.rule.cooling
      BY <1>3, <3>1 DEF Config, Rule
    <3>3. r \notin Unverified
      BY <1>0, <3>1 DEF Unverified
    <3>4. Fits(tries, Restarting, Unverified \cup {r}, 0)
      BY <1>2, <1>3, <1>4, <1>5, <3>3, FitsMore
    <3>5. Budget'
      BY <2>3, <2>4, <2>5, <3>2, <3>4 DEF Budget
    <3>6. AttemptsBounded'
      BY <1>0, <1>2, <3>2, AttemptsKept
    <3>7. CoolsDown'
      BY <1>0, <2>4, <3>2 DEF CoolsDown
    <3> QED BY <2>3, <3>5, <3>6, <3>7
  <2>7. CASE ~Resets(r, a)
    <3>1. HeadOp(r) # "verified" /\ state'.config = state.config
      BY <1>0, <1>8, <2>7 DEF Kind, Quiet, Lists, Captures, Appends, Ends, Gathers, Plain, KeepsConfig
    <3>2. Unverified' = Unverified
      BY <1>1, <2>3, <3>1 DEF Unverified
    <3>3. Budget'
      BY <1>0, <2>4, <2>5, <3>1, <3>2 DEF Budget
    <3>4. AttemptsBounded' /\ CoolsDown'
      BY <1>0, <1>4, <2>4, <3>1, AttemptsKept DEF CoolsDown
    <3> QED BY <2>3, <3>3, <3>4
  <2> QED BY <2>6, <2>7
<1> QED BY <1>6, <1>7, <1>8

LEMMA InitRestart == Init => RestartInv
<1> SUFFICES ASSUME Init PROVE RestartInv
  OBVIOUS
<1>0. TypeInv /\ TypeOK
  BY InitTypeInv DEF TypeInv
<1>1. /\ scenario.config \in Config /\ scenario.config.rule.attempts <= RuleAttempts
  BY OperationsConstants DEF Init
<1>2. state.config = scenario.config
  BY DEF Init, Configured, FreshState
<1>3. AttemptsBounded
  BY <1>1, <1>2, OperationsConstants DEF Init, AttemptsBounded
<1>4. CoolsDown /\ tries = 0
  BY DEF Init, CoolsDown
<1>5. RestartsFirst
  <2>1. ASSUME NEW r \in Runners PROVE 1 .. Len(todo[r]) = {}
    BY DEF Init
  <2> QED BY <2>1 DEF RestartsFirst
<1>6. /\ IsFiniteSet(Unverified) /\ Restarting \in SUBSET Unverified
      /\ state.config.rule.attempts \in Nat /\ RuleAttempts \in Nat \ {0}
  BY <1>0, RunnersFinite, RuleIs
<1>7. Budget
  BY <1>4, <1>6, FitsAnew DEF Budget
<1> QED BY <1>0, <1>3, <1>4, <1>5, <1>7 DEF RestartInv

LEMMA NextRestart == RestartInv /\ [Next]_vars => RestartInv'
<1> SUFFICES ASSUME RestartInv, [Next]_vars PROVE RestartInv'
  OBVIOUS
<1>0. /\ TypeOK /\ AttemptsBounded /\ CoolsDown /\ RestartsFirst /\ Budget /\ TypeInv /\ TypeInv' /\ TypeOK'
  BY NextTypeInv DEF RestartInv, TypeInv
<1>a. /\ IsFiniteSet(Restarting) /\ IsFiniteSet(Unverified) /\ RuleAttempts \in Nat \ {0}
      /\ Restarting \in SUBSET Unverified
  BY <1>0, RunnersFinite
<1>b. /\ state.config.rule.attempts \in Nat /\ state.config.rule.cooling \in BOOLEAN
      /\ state.config \in Config /\ state.config.rule \in Rule
      /\ tries \in Nat /\ window \in Nat
  BY <1>0, RuleIs
<1>1. CASE Apart
  BY <1>0, <1>1, ApartIs, Untouched DEF internal, history, RestartInv
<1>2. CASE Passes
  <2>1. UNCHANGED <<scenario, backup, todo, tries>>
    BY <1>0, <1>2, PassesIs, PassesKeeps
  <2>2. CASE state'.config = state.config /\ window' = window
    BY <1>0, <2>1, <2>2, Untouched DEF RestartInv
  <2>3. CASE state'.config = [state.config EXCEPT !.rule.cooling = FALSE] /\ window' = 0
    <3>1. state'.config.rule.attempts = state.config.rule.attempts
      BY <1>b, <2>3 DEF Config, Rule
    <3>2. AttemptsBounded' /\ CoolsDown'
      BY <1>0, <2>1, <2>3, <3>1 DEF AttemptsBounded, CoolsDown
    <3>3. RestartsFirst' /\ Budget'
      BY <1>0, <2>1, <3>1 DEF RestartsFirst, Budget, Restarting, Unverified, HeadOp
    <3> QED BY <1>0, <3>2, <3>3 DEF RestartInv
  <2> QED BY <1>0, <1>2, <2>2, <2>3, PassesKeeps
<1>3. CASE Configures
  <2>1. PICK c \in Config :
            /\ Configure(c)
            /\ c.rule \in {state.config.rule, NewRule("on"), NewRule("off")}
                               \cup (IF backup \in Config THEN {backup.rule} ELSE {})
    BY <1>0, <1>3, ConfiguresIs
  <2>2. /\ state'.config = c
        /\ backup' = backup \/ backup' = state.config
    BY <1>0, <2>1, ConfigureIs DEF TypeOK
  <2>3. c.rule.attempts \in Nat /\ c.rule.attempts <= RuleAttempts
    <3>1. NewRule("on").attempts = 0 /\ NewRule("off").attempts = 0
      BY DEF NewRule
    <3> QED BY <1>0, <1>a, <2>1, <3>1, ConfigIs DEF AttemptsBounded
  <2>4. AttemptsBounded'
    BY <1>0, <2>2, <2>3 DEF AttemptsBounded
  <2>5. Reconfigures(c) /\ UNCHANGED <<scenario, todo>>
    BY <2>1 DEF Configure
  <2>6. RestartsFirst' /\ Restarting' = Restarting /\ Unverified' = Unverified
    BY <1>0, <2>5 DEF RestartsFirst, Restarting, Unverified, HeadOp
  <2>7. CASE c.rule = state.config.rule
    <3>1. UNCHANGED <<tries, window>>
      BY <2>5, <2>7 DEF Reconfigures, history
    <3>2. CoolsDown' /\ Budget'
      BY <1>0, <2>2, <2>6, <2>7, <3>1 DEF CoolsDown, Budget
    <3> QED BY <1>0, <2>4, <2>6, <3>2 DEF RestartInv
  <2>8. CASE c.rule # state.config.rule
    <3>1. tries' = 0 /\ window' = 0
      BY <2>5, <2>8 DEF Reconfigures
    <3>2. Fits(0, Restarting, Unverified, c.rule.attempts)
      BY <1>a, <2>3, FitsAnew
    <3>3. CoolsDown' /\ Budget'
      BY <2>2, <2>6, <3>1, <3>2 DEF CoolsDown, Budget
    <3> QED BY <1>0, <2>4, <2>6, <3>3 DEF RestartInv
  <2> QED BY <2>7, <2>8
<1>4. ASSUME NEW r \in Runners, RunOnce(r) \/ ObserveNow(r) \/ RecordProviderSignal(r)
      PROVE  RestartInv'
  <2>1. PICK a : Begins(r, a)
    BY <1>0, <1>4, StartBegins
  <2>2. /\ Follows(r, a) /\ todo[r] = <<>> /\ r \in scenario.runners
        /\ UNCHANGED <<scenario, state, backup, tries, window>>
    BY <2>1 DEF Begins, history
  <2>3. \A k \in 1 .. Len(a) : a[k].op \notin {"restart", "verified"}
    BY <1>0, <2>1, BeginOps DEF OpsIn, Plain
  <2>4. ~(Len(a) >= 1 /\ a[1].op = "restart") /\ ~(Len(a) >= 1 /\ a[1].op = "verified")
    <3>1. Len(a) >= 1 => 1 \in 1 .. Len(a)
      BY <2>2 DEF Follows
    <3> QED BY <2>3, <3>1
  <2>5. RestartsFirst' /\ Restarting' = Restarting \ {r} /\ Unverified' = Unverified \cup {r}
    BY <1>0, <2>2, <2>3, <2>4, NextAfter
  <2>6. Restarting' = Restarting /\ Unverified' = Unverified
    BY <2>2, <2>5 DEF Restarting, Unverified
  <2> QED BY <1>0, <2>2, <2>5, <2>6 DEF RestartInv, AttemptsBounded, CoolsDown, Budget
<1>5. ASSUME NEW r \in Runners, Step(r) PROVE RestartInv'
  BY <1>0, <1>5, StepTakes, TakesRestart
<1>6. ASSUME NEW r \in Runners, Crash(r) PROVE RestartInv'
  <2>1. /\ Follows(r, <<>>) /\ todo[r] # <<>>
        /\ UNCHANGED <<scenario, state, tries, window>>
    BY <1>0, <1>6, CrashDies DEF Dies
  <2>2. 1 .. Len(<<>>) = {} /\ ~(Len(<<>>) >= 1)
    OBVIOUS
  <2>3. r \in scenario.runners
    BY <1>0, <2>1, HeadFirst
  <2>4. RestartsFirst' /\ Restarting' = Restarting \ {r} /\ Unverified' = Unverified \cup {r}
    BY <1>0, <2>1, <2>2, <2>3, NextAfter
  <2>5. AttemptsBounded'
    <3>1. backup' \in {backup, state.config, Torn}
      BY <1>6 DEF Crash
    <3>2. Torn \notin Config
      BY OperationsConstants
    <3> QED BY <1>0, <2>1, <3>1, <3>2 DEF AttemptsBounded
  <2> DEFINE n == state.config.rule.attempts
  <2>6. Fits(tries, Restarting', Unverified, n)
    <3>1. CASE r \in Restarting
      BY <1>0, <1>a, <1>b, <2>4, <3>1, FitsTried DEF Budget
    <3>2. CASE r \notin Restarting
      <4>1. Restarting' = Restarting
        BY <2>4, <3>2
      <4> QED BY <1>0, <4>1 DEF Budget
    <3> QED BY <3>1, <3>2
  <2>7. IsFiniteSet(Restarting')
    BY <1>a, <2>4, FS_RemoveElement
  <2>8. Fits(tries, Restarting', Unverified', n)
    <3>1. CASE r \in Unverified
      <4>1. Unverified' = Unverified
        BY <2>4, <3>1
      <4> QED BY <2>6, <4>1
    <3>2. CASE r \notin Unverified
      BY <1>0, <1>a, <1>b, <2>4, <2>6, <2>7, <3>2, FitsMore DEF AttemptsBounded
    <3> QED BY <3>1, <3>2
  <2>9. CoolsDown' /\ Budget'
    BY <1>0, <2>1, <2>8 DEF CoolsDown, Budget
  <2> QED BY <1>0, <2>4, <2>5, <2>9 DEF RestartInv
<1>7. CASE UNCHANGED vars
  BY <1>0, <1>7, Untouched DEF vars, history, RestartInv
<1> QED BY <1>1, <1>2, <1>3, <1>4, <1>5, <1>6, <1>7, NextIs

LEMMA RestartInvGives == RestartInv => RestartsLimited
<1> SUFFICES ASSUME RestartInv PROVE RestartsBounded /\ RestartsSpaced
  BY DEF RestartsLimited
<1>0. TypeOK /\ AttemptsBounded /\ CoolsDown /\ Budget
  BY DEF RestartInv, TypeInv
<1>1. /\ IsFiniteSet(Restarting) /\ RuleAttempts \in Nat \ {0} /\ IsFiniteSet(scenario.runners)
      /\ state.config.rule.attempts \in Nat /\ tries \in Nat
  BY <1>0, RunnersFinite, RuleIs, OperationsConstants DEF TypeOK
<1>2. Unverified \in SUBSET scenario.runners
  BY DEF Unverified
<1> DEFINE v == Cardinality(Unverified)
           n == Cardinality(scenario.runners)
           d == n - v
<1>3. v \in Nat /\ n \in Nat /\ v <= n /\ Cardinality(Restarting) \in Nat
  BY <1>1, <1>2, FS_Subset, FS_CardinalityType
<1>4. tries <= RuleAttempts * v + 1
  <2> DEFINE p == RuleAttempts * v
             l == IF Unverified = {} THEN 0 ELSE RuleAttempts - state.config.rule.attempts
  <2>1. p \in Nat
    BY <1>1, <1>3, Times
  <2>2. l \in Nat
    BY <1>0, <1>1 DEF AttemptsBounded
  <2>3. tries + Cardinality(Restarting) + l <= p + 1
    BY <1>0 DEF Budget, Fits
  <2> HIDE DEF p, l
  <2>4. tries <= p + 1
    BY <1>1, <1>3, <2>1, <2>2, <2>3
  <2> QED BY <2>4 DEF p
<1> HIDE DEF v, n
<1>5. RuleAttempts * v <= RuleAttempts * n
  <2>1. d \in Nat /\ n = v + d
    BY <1>3
  <2> HIDE DEF d
  <2>2. RuleAttempts * (v + d) = RuleAttempts * v + RuleAttempts * d /\ RuleAttempts * d \in Nat
        /\ RuleAttempts * v \in Nat
    BY <1>1, <1>3, <2>1
  <2> QED BY <2>1, <2>2
<1>6. RuleAttempts * v \in Nat /\ RuleAttempts * n \in Nat
  BY <1>1, <1>3, Times
<1>7. tries <= RuleAttempts * n + 1
  BY <1>1, <1>4, <1>5, <1>6
<1>8. RestartsBounded
  BY <1>7 DEF RestartsBounded, n
<1> QED BY <1>0, <1>8 DEF CoolsDown, RestartsSpaced

-----------------------------------------------------------------------------
(* Events                                                                  *)

Pending(r, k) == k \in 1 .. Len(todo[r]) /\ todo[r][k].op \in {"append", "signal"}
Ending(r, k) == k \in 1 .. Len(todo[r]) /\ todo[r][k].op = "endCapture"

\* A signal that is still to be recorded was made, is to be recorded once, and is
\* not in the timeline.
PendingOnce ==
    /\ \A r \in Runners, k \in Nat : Pending(r, k) =>
          /\ todo[r][k].n \in 1 .. Len(signals)
          /\ \A i \in 1 .. Len(timeline) : timeline[i] # todo[r][k].n
    /\ \A r, q \in Runners, k, j \in Nat :
          (Pending(r, k) /\ Pending(q, j) /\ todo[r][k].n = todo[q][j].n) => (r = q /\ k = j)

TimelineOnce ==
    /\ \A i \in 1 .. Len(timeline) : timeline[i] \in 1 .. Len(signals)
    /\ \A i, j \in 1 .. Len(timeline) : timeline[i] = timeline[j] => i = j

\* The process that captures holds the lock, and only records before it ends.
CapturesLocked ==
    \A r \in Runners, k \in Nat : Ending(r, k) =>
        /\ lock = r /\ todo[r][k].last >= state.lastEvent
        /\ \A j \in 1 .. k - 1 : todo[r][j].op = "append"

\* An event of which a signal was made is no newer than the newest captured one.
Captured(e) ==
    \/ e <= state.lastEvent
    \/ \E r \in Runners, k \in Nat : Ending(r, k) /\ e <= todo[r][k].last

SignalsOnce ==
    /\ \A i \in 1 .. Len(signals) :
          signals[i].from = "event" => signals[i].n \in 1 .. Len(events)
    /\ crashes = 0 =>
          /\ \A i \in 1 .. Len(signals) :
                signals[i].from = "event" => Captured(events[signals[i].n])
          /\ \A i, j \in 1 .. Len(signals) :
                (signals[i].from = "event" /\ signals[j].from = "event"
                   /\ signals[i].n = signals[j].n) => i = j

EventInv == TypeInv /\ PendingOnce /\ TimelineOnce /\ CapturesLocked /\ SignalsOnce

\* The signals that new steps record are new ones, each recorded once.
Numbered(a, from, to) ==
    /\ \A k \in 1 .. Len(a) : a[k].op \in {"append", "signal"} => a[k].n \in from + 1 .. to
    /\ \A k, j \in 1 .. Len(a) :
          (a[k].op \in {"append", "signal"} /\ a[j].op \in {"append", "signal"}
             /\ a[k].n = a[j].n) => k = j

LEMMA LengthsAre ==
    ASSUME TypeOK
    PROVE  /\ Len(signals) \in Nat /\ Len(timeline) \in Nat /\ Len(events) \in Nat
           /\ \A r \in Runners : todo[r] \in Seq(Steps) /\ Len(todo[r]) \in Nat
           /\ \A r \in Runners : \A k \in 1 .. Len(todo[r]) : todo[r][k] \in Steps
           /\ \A i \in 1 .. Len(signals) : signals[i] \in Signal
           /\ \A i \in 1 .. Len(timeline) : timeline[i] \in Nat
           /\ \A i \in 1 .. Len(events) : events[i] \in Nat
           /\ state.lastEvent \in Nat
<1>1. /\ signals \in Seq(Signal) /\ timeline \in Seq(Nat) /\ events \in Seq(Nat)
      /\ \A r \in Runners : todo[r] \in Seq(Steps)
  BY DEF TypeOK
<1>2. Len(signals) \in Nat /\ \A i \in 1 .. Len(signals) : signals[i] \in Signal
  BY <1>1
<1>3. Len(timeline) \in Nat /\ \A i \in 1 .. Len(timeline) : timeline[i] \in Nat
  BY <1>1
<1>4. Len(events) \in Nat /\ \A i \in 1 .. Len(events) : events[i] \in Nat
  BY <1>1
<1>5. \A r \in Runners : Len(todo[r]) \in Nat /\ \A k \in 1 .. Len(todo[r]) : todo[r][k] \in Steps
  BY <1>1
<1>6. state.lastEvent \in Nat
  BY StateIs DEF TypeOK
<1> QED BY <1>1, <1>2, <1>3, <1>4, <1>5, <1>6

\* Where a step that is left to do comes from
Old(r, a, q, k) == q # r \/ k > Len(a)
Source(r, a, q, k) == IF q = r THEN k - Len(a) + 1 ELSE k

LEMMA Origin ==
    ASSUME TypeOK, NEW r \in Runners, NEW a, Follows(r, a), NEW q \in Runners,
           NEW k \in 1 .. Len(todo'[q])
    PROVE  /\ ~Old(r, a, q, k) => q = r /\ k \in 1 .. Len(a) /\ todo'[q][k] = a[k]
           /\ Old(r, a, q, k) => /\ Source(r, a, q, k) \in 1 .. Len(todo[q])
                                 /\ todo'[q][k] = todo[q][Source(r, a, q, k)]
                                 /\ q = r => Source(r, a, q, k) # 1
<1>1. Len(a) \in Nat /\ Len(todo[q]) \in Nat /\ Len(todo'[q]) \in Nat
  <2>1. a \in Seq(Steps) /\ todo[q] \in Seq(Steps) /\ todo'[q] \in Seq(Steps)
    BY LengthsAre DEF Follows, ToDo
  <2>2. Len(a) \in Nat
    BY <2>1
  <2>3. Len(todo[q]) \in Nat
    BY <2>1
  <2>4. Len(todo'[q]) \in Nat
    BY <2>1
  <2> QED BY <2>2, <2>3, <2>4
<1>2. CASE q # r
  BY <1>2 DEF Follows, Old, Source
<1>3. CASE q = r /\ k <= Len(a)
  BY <1>1, <1>3 DEF Follows, Old, Source
<1>4. CASE q = r /\ k > Len(a)
  <2>1. k \in Len(a) + 1 .. Len(todo'[r])
    BY <1>1, <1>4
  <2> DEFINE j == k - Len(a) + 1
  <2>2. j \in 2 .. Len(todo[r]) /\ todo'[r][k] = todo[r][j]
    BY <2>1 DEF Follows
  <2>3. j \in 1 .. Len(todo[q]) /\ j # 1
    BY <1>1, <1>4, <2>2
  <2> QED BY <1>4, <2>2, <2>3 DEF Old, Source
<1> QED BY <1>1, <1>2, <1>3, <1>4

\* Two steps left to do come from two steps.
LEMMA Origins ==
    ASSUME NEW r, NEW a \in Seq(Steps), NEW q, NEW k \in Nat, NEW j \in Nat,
           Source(r, a, q, k) = Source(r, a, q, j)
    PROVE  k = j
<1>1. Len(a) \in Nat
  OBVIOUS
<1> QED BY <1>1 DEF Source

\* New steps only record new signals, and the rest stays as it was.
LEMMA PendingKept ==
    ASSUME EventInv, NEW r \in Runners, NEW a, Follows(r, a), timeline' = timeline,
           NEW m \in Nat, Len(signals') = m, Len(signals) <= m, Numbered(a, Len(signals), m)
    PROVE  PendingOnce' /\ TimelineOnce'
<1>0. TypeOK /\ PendingOnce /\ TimelineOnce /\ a \in Seq(Steps)
  BY DEF EventInv, TypeInv, Follows
<1>1. Len(signals) \in Nat /\ \A i \in 1 .. Len(timeline) : timeline[i] \in Nat
  BY <1>0, LengthsAre
<1>2. TimelineOnce'
  BY <1>0, <1>1 DEF TimelineOnce
<1> DEFINE src(q, k) == Source(r, a, q, k)
           fresh(q, k) == ~Old(r, a, q, k)
<1>3. ASSUME NEW q \in Runners, NEW k \in Nat, Pending(q, k)'
      PROVE  /\ fresh(q, k) => /\ q = r /\ k \in 1 .. Len(a) /\ todo'[q][k] = a[k]
                               /\ a[k].op \in {"append", "signal"}
                               /\ todo'[q][k].n \in Len(signals) + 1 .. m
             /\ ~fresh(q, k) => /\ src(q, k) \in Nat /\ Pending(q, src(q, k))
                                /\ todo'[q][k] = todo[q][src(q, k)]
                                /\ todo'[q][k].n \in 1 .. Len(signals)
  <2>1. k \in 1 .. Len(todo'[q]) /\ todo'[q][k].op \in {"append", "signal"}
    BY <1>3 DEF Pending
  <2>2. CASE fresh(q, k)
    BY <1>0, <2>1, <2>2, Origin DEF Numbered
  <2>3. CASE ~fresh(q, k)
    <3>1. src(q, k) \in 1 .. Len(todo[q]) /\ todo'[q][k] = todo[q][src(q, k)]
      BY <1>0, <2>1, <2>3, Origin
    <3>2. src(q, k) \in Nat /\ Pending(q, src(q, k))
      BY <1>0, <2>1, <3>1, LengthsAre DEF Pending
    <3> QED BY <1>0, <2>3, <3>1, <3>2 DEF PendingOnce
  <2> QED BY <2>2, <2>3
<1>4. ASSUME NEW q \in Runners, NEW k \in Nat, Pending(q, k)'
      PROVE  /\ todo'[q][k].n \in 1 .. m
             /\ \A i \in 1 .. Len(timeline) : timeline[i] # todo'[q][k].n
  <2>1. CASE fresh(q, k)
    <3>1. todo'[q][k].n \in Len(signals) + 1 .. m
      BY <1>3, <1>4, <2>1
    <3> HIDE DEF fresh
    <3> QED BY <1>0, <1>1, <3>1 DEF TimelineOnce
  <2>2. CASE ~fresh(q, k)
    <3>1. /\ src(q, k) \in Nat /\ Pending(q, src(q, k))
          /\ todo'[q][k] = todo[q][src(q, k)]
          /\ todo'[q][k].n \in 1 .. Len(signals)
      BY <1>3, <1>4, <2>2
    <3>2. todo'[q][k].n \in 1 .. m
      BY <1>1, <3>1
    <3> HIDE DEF src
    <3> QED BY <1>0, <3>1, <3>2 DEF PendingOnce
  <2> QED BY <2>1, <2>2
<1>5. ASSUME NEW q \in Runners, NEW p \in Runners, NEW k \in Nat, NEW j \in Nat,
             Pending(q, k)', Pending(p, j)', todo'[q][k].n = todo'[p][j].n
      PROVE  q = p /\ k = j
  <2>1. CASE fresh(q, k) /\ fresh(p, j)
    <3>1. /\ q = r /\ k \in 1 .. Len(a) /\ todo'[q][k] = a[k] /\ a[k].op \in {"append", "signal"}
          /\ p = r /\ j \in 1 .. Len(a) /\ todo'[p][j] = a[j] /\ a[j].op \in {"append", "signal"}
      BY <1>3, <1>5, <2>1
    <3> QED BY <1>5, <3>1 DEF Numbered
  <2>2. CASE ~fresh(q, k) /\ ~fresh(p, j)
    <3>1. /\ src(q, k) \in Nat /\ Pending(q, src(q, k)) /\ todo'[q][k] = todo[q][src(q, k)]
          /\ src(p, j) \in Nat /\ Pending(p, src(p, j)) /\ todo'[p][j] = todo[p][src(p, j)]
      BY <1>3, <1>5, <2>2
    <3>2. q = p /\ src(q, k) = src(p, j)
      <4> HIDE DEF src
      <4> QED BY <1>0, <1>5, <3>1 DEF PendingOnce
    <3>3. Source(r, a, q, k) = Source(r, a, q, j)
      BY <3>2
    <3> QED BY <1>0, <3>2, <3>3, Origins
  <2>3. CASE fresh(q, k) /\ ~fresh(p, j)
    <3>1. todo'[q][k].n \in Len(signals) + 1 .. m /\ todo'[p][j].n \in 1 .. Len(signals)
      BY <1>3, <1>5, <2>3
    <3> QED BY <1>1, <1>5, <3>1
  <2>4. CASE ~fresh(q, k) /\ fresh(p, j)
    <3>1. todo'[p][j].n \in Len(signals) + 1 .. m /\ todo'[q][k].n \in 1 .. Len(signals)
      BY <1>3, <1>5, <2>4
    <3> QED BY <1>1, <1>5, <3>1
  <2> QED BY <2>1, <2>2, <2>3, <2>4
<1>6. PendingOnce'
  BY <1>4, <1>5 DEF PendingOnce
<1> QED BY <1>2, <1>6

\* The signal that is next is recorded.
LEMMA PendingAppended ==
    ASSUME EventInv, NEW r \in Runners, NEW a, Follows(r, a), todo[r] # <<>>,
           HeadOp(r) \in {"append", "signal"}, IsPlain(a),
           timeline' = Append(timeline, Head(todo[r]).n), signals' = signals
    PROVE  PendingOnce' /\ TimelineOnce'
<1>0. TypeOK /\ PendingOnce /\ TimelineOnce /\ a \in Seq(Steps)
  BY DEF EventInv, TypeInv, Follows
<1> DEFINE n == Head(todo[r]).n
           l == Len(timeline)
<1>1. 1 \in Nat /\ Pending(r, 1) /\ n = todo[r][1].n
  BY <1>0, HeadIs, TypesGive DEF Pending, HeadOp
<1>2. n \in 1 .. Len(signals) /\ \A i \in 1 .. l : timeline[i] # n
  BY <1>0, <1>1 DEF PendingOnce
<1>3. timeline \in Seq(Nat) /\ n \in Nat /\ l \in Nat
  BY <1>0, <1>2, LengthsAre DEF TypeOK
<1>a. timeline' = Append(timeline, n)
  OBVIOUS
<1> HIDE DEF n
<1>4. Len(timeline') = l + 1 /\ timeline'[l + 1] = n /\ \A i \in 1 .. l : timeline'[i] = timeline[i]
  BY <1>3, <1>a
<1> HIDE DEF l
<1>5. \A i \in 1 .. Len(timeline') : i \in 1 .. l \/ i = l + 1
  BY <1>3, <1>4
<1>6. TimelineOnce'
  <2>1. \A i \in 1 .. l : timeline[i] \in 1 .. Len(signals)
    BY <1>0 DEF TimelineOnce, l
  <2>2. \A i, j \in 1 .. l : timeline[i] = timeline[j] => i = j
    BY <1>0 DEF TimelineOnce, l
  <2> QED BY <1>2, <1>4, <1>5, <2>1, <2>2 DEF TimelineOnce
<1> DEFINE src(q, k) == Source(r, a, q, k)
<1>7. ASSUME NEW q \in Runners, NEW k \in Nat, Pending(q, k)'
      PROVE  /\ src(q, k) \in Nat /\ Pending(q, src(q, k)) /\ todo'[q][k] = todo[q][src(q, k)]
             /\ q = r => src(q, k) # 1
  <2>1. k \in 1 .. Len(todo'[q]) /\ todo'[q][k].op \in {"append", "signal"}
    BY <1>7 DEF Pending
  <2>2. Old(r, a, q, k)
    <3>1. ASSUME ~Old(r, a, q, k) PROVE FALSE
      <4>1. k \in 1 .. Len(a) /\ todo'[q][k] = a[k]
        BY <1>0, <2>1, <3>1, Origin
      <4>2. a[k].op \in Plain
        BY <4>1 DEF IsPlain
      <4> QED BY <2>1, <4>1, <4>2 DEF Plain
    <3> QED BY <3>1
  <2>3. src(q, k) \in 1 .. Len(todo[q]) /\ todo'[q][k] = todo[q][src(q, k)] /\ (q = r => src(q, k) # 1)
    BY <1>0, <2>1, <2>2, Origin
  <2>4. src(q, k) \in Nat /\ Pending(q, src(q, k))
    BY <1>0, <2>1, <2>3, LengthsAre DEF Pending
  <2> QED BY <2>3, <2>4
<1>8. ASSUME NEW q \in Runners, NEW k \in Nat, Pending(q, k)'
      PROVE  /\ todo'[q][k].n \in 1 .. Len(signals)
             /\ \A i \in 1 .. l + 1 : timeline'[i] # todo'[q][k].n
  <2>1. /\ src(q, k) \in Nat /\ Pending(q, src(q, k)) /\ todo'[q][k] = todo[q][src(q, k)]
        /\ q = r => src(q, k) # 1
    BY <1>7, <1>8
  <2> HIDE DEF src
  <2>2. /\ todo'[q][k].n \in 1 .. Len(signals)
        /\ \A i \in 1 .. l : timeline[i] # todo'[q][k].n
    BY <1>0, <2>1 DEF PendingOnce, l
  <2>3. todo'[q][k].n # n
    BY <1>0, <1>1, <2>1 DEF PendingOnce
  <2> QED BY <1>3, <1>4, <1>5, <2>2, <2>3
<1>9. ASSUME NEW q \in Runners, NEW p \in Runners, NEW k \in Nat, NEW j \in Nat,
             Pending(q, k)', Pending(p, j)', todo'[q][k].n = todo'[p][j].n
      PROVE  q = p /\ k = j
  <2>1. /\ src(q, k) \in Nat /\ Pending(q, src(q, k)) /\ todo'[q][k] = todo[q][src(q, k)]
        /\ src(p, j) \in Nat /\ Pending(p, src(p, j)) /\ todo'[p][j] = todo[p][src(p, j)]
    BY <1>7, <1>9
  <2>2. q = p /\ src(q, k) = src(p, j)
    <3> HIDE DEF src
    <3> QED BY <1>0, <1>9, <2>1 DEF PendingOnce
  <2>3. Source(r, a, q, k) = Source(r, a, q, j)
    BY <2>2
  <2> QED BY <1>0, <2>2, <2>3, Origins
<1>10. PendingOnce'
  <2> HIDE DEF src
  <2> QED BY <1>4, <1>8, <1>9 DEF PendingOnce
<1> QED BY <1>6, <1>10

LEMMA NoneNumbered ==
    ASSUME NEW a, NEW n \in Nat,
           \A k \in 1 .. Len(a) : a[k].op \notin {"append", "signal"}
    PROVE  Numbered(a, n, n)
BY DEF Numbered

\* What a capture leaves to do: m appends, and then its end
Appending(a, m, last) ==
    /\ Len(a) = m + 1 /\ a[m + 1].op = "endCapture" /\ a[m + 1].last = last
    /\ \A k \in 1 .. m : a[k].op = "append"

LEMMA CaptureNumbered ==
    ASSUME NEW m \in Nat, NEW last \in Nat, NEW n \in Nat
    PROVE  /\ Appending(CaptureSteps(Ids(n, m), last), m, last)
           /\ Numbered(CaptureSteps(Ids(n, m), last), n, n + m)
<1> DEFINE a == CaptureSteps(Ids(n, m), last)
<1> DEFINE new == Ids(n, m)
<1>1. new \in Seq(Nat) /\ Len(new) = m /\ \A i \in 1 .. m : new[i] = n + i
  BY IdsAre
<1>a. new \in Seq(Nat)
  BY <1>1
<1>e. a = CaptureSteps(new, last)
  OBVIOUS
<1> HIDE DEF new
<1> DEFINE c == CaptureSteps(new, last)
<1>f. /\ Len(c) = Len(new) + 1
      /\ \A i \in 1 .. Len(new) : c[i] = On("append", new[i])
      /\ c[Len(new) + 1] = [op |-> "endCapture", new |-> new, last |-> last]
  BY ONLY <1>a, last \in Nat, CaptureStepsAre
<1>2. /\ Len(a) = Len(new) + 1
      /\ \A i \in 1 .. Len(new) : a[i] = On("append", new[i])
      /\ a[Len(new) + 1] = [op |-> "endCapture", new |-> new, last |-> last]
  BY <1>e, <1>f
<1> HIDE DEF c, a
<1>3. a[m + 1].op = "endCapture" /\ a[m + 1].last = last
  BY <1>1, <1>2
<1>b. \A k \in 1 .. m : a[k] = On("append", n + k)
  BY <1>1, <1>2
<1>c. \A x : On("append", x).op = "append" /\ On("append", x).n = x
  BY DEF On
<1>4. \A k \in 1 .. m : a[k].op = "append" /\ a[k].n = n + k
  BY <1>b, <1>c
<1>d. Len(a) = m + 1
  BY <1>1, <1>2
<1>5. \A k \in 1 .. Len(a) : k \in 1 .. m \/ k = m + 1
  BY <1>d
<1>6. \A k \in 1 .. Len(a) : a[k].op \in {"append", "signal"} => k \in 1 .. m /\ a[k].n = n + k
  BY <1>3, <1>4, <1>5
<1>7. Numbered(a, n, n + m)
  BY <1>6 DEF Numbered
<1>8. Appending(a, m, last)
  BY <1>3, <1>4, <1>d DEF Appending
<1> QED BY <1>7, <1>8 DEF a

LEMMA RecordingNumbered ==
    ASSUME NEW b, IsPlain(b), NEW new \in Seq(Nat), NEW n \in Nat,
           \A i \in 1 .. Len(new) : new[i] = n + i
    PROVE  Numbered(Recording(b, new), n, n + Len(new))
<1> DEFINE a == Recording(b, new)
           m == Len(new)
           l == Len(b)
<1>1. /\ l \in Nat /\ m \in Nat /\ Len(a) = l + m + m
      /\ \A k \in 1 .. l : a[k] = b[k]
      /\ \A k \in 1 .. m : a[l + k] = On("signal", new[k])
      /\ \A k \in 1 .. m : a[l + m + k] = On("rules", new[k])
  BY RecordingIs
<1>2. \A k \in 1 .. l : b[k].op \notin {"append", "signal"}
  BY DEF IsPlain, Plain
<1>3. \A k \in 1 .. m : new[k] = n + k
  OBVIOUS
<1> HIDE DEF a, m, l
<1>4. ASSUME NEW k \in 1 .. Len(a), a[k].op \in {"append", "signal"}
      PROVE  k - l \in 1 .. m /\ a[k].n = n + (k - l)
  <2>1. CASE k <= l
    <3>1. k \in 1 .. l
      BY <1>1, <2>1
    <3> QED BY <1>1, <1>2, <1>4, <3>1
  <2>2. CASE k > l /\ k <= l + m
    <3> DEFINE j == k - l
    <3>1. j \in 1 .. m /\ k = l + j
      BY <1>1, <2>2
    <3>2. a[l + j] = On("signal", new[j])
      BY <1>1, <3>1
    <3> QED BY <1>3, <3>1, <3>2 DEF On
  <2>3. CASE k > l + m
    <3> DEFINE j == k - l - m
    <3>1. j \in 1 .. m /\ k = l + m + j
      BY <1>1, <2>3
    <3>2. a[l + m + j] = On("rules", new[j])
      BY <1>1, <3>1
    <3> QED BY <1>4, <3>1, <3>2 DEF On
  <2> QED BY <1>1, <2>1, <2>2, <2>3
<1>5. Numbered(a, n, n + m)
  <2>1. \A k \in 1 .. Len(a) : a[k].op \in {"append", "signal"} => a[k].n \in n + 1 .. n + m
    BY <1>1, <1>4
  <2>2. ASSUME NEW k \in 1 .. Len(a), NEW j \in 1 .. Len(a), a[k].op \in {"append", "signal"},
               a[j].op \in {"append", "signal"}, a[k].n = a[j].n
        PROVE  k = j
    <3>1. n + (k - l) = n + (j - l)
      BY <1>4, <2>2
    <3> QED BY <1>1, <3>1
  <2> QED BY <2>1, <2>2 DEF Numbered
<1> QED BY <1>5 DEF a, m

LEMMA SignalSame ==
    ASSUME TypeOK, NEW made \in Seq(Signal), signals' = signals \o made
    PROVE  /\ Len(made) \in Nat /\ Len(signals') = Len(signals) + Len(made)
           /\ \A i \in 1 .. Len(signals) : signals'[i] = signals[i]
           /\ \A i \in 1 .. Len(made) : signals'[Len(signals) + i] = made[i]
<1>1. signals \in Seq(Signal)
  BY DEF TypeOK
<1> QED BY <1>1

LEMMA SignalOne ==
    ASSUME TypeOK, NEW made \in Signal, signals' = Append(signals, made)
    PROVE  /\ Len(signals') = Len(signals) + 1
           /\ \A i \in 1 .. Len(signals) : signals'[i] = signals[i]
           /\ signals'[Len(signals) + 1] = made
<1>1. signals \in Seq(Signal)
  BY DEF TypeOK
<1> QED BY <1>1

\* Signals are only added, of other things than events, except in a capture.
OthersMade ==
    /\ Len(signals') \in Nat /\ Len(signals) <= Len(signals')
    /\ \A i \in 1 .. Len(signals) : signals'[i] = signals[i]
    /\ \A i \in 1 .. Len(signals') : i \in 1 .. Len(signals) \/ signals'[i].from # "event"

LEMMA OthersAre ==
    ASSUME TypeOK
    PROVE  /\ signals' = signals => OthersMade
           /\ (\E made \in Signal : made.from # "event" /\ signals' = Append(signals, made)) => OthersMade
           /\ (\E made \in Seq(Signal) : (\A i \in 1 .. Len(made) : made[i].from # "event")
                                           /\ signals' = signals \o made) => OthersMade
<1>0. Len(signals) \in Nat
  BY LengthsAre
<1>1. signals' = signals => OthersMade
  BY <1>0 DEF OthersMade
<1>2. ASSUME NEW made \in Signal, made.from # "event", signals' = Append(signals, made)
      PROVE  OthersMade
  BY <1>0, <1>2, SignalOne DEF OthersMade
<1>3. ASSUME NEW made \in Seq(Signal), \A i \in 1 .. Len(made) : made[i].from # "event",
             signals' = signals \o made
      PROVE  OthersMade
  <2>1. /\ Len(made) \in Nat /\ Len(signals') = Len(signals) + Len(made)
        /\ \A i \in 1 .. Len(signals) : signals'[i] = signals[i]
        /\ \A i \in 1 .. Len(made) : signals'[Len(signals) + i] = made[i]
    BY <1>3, SignalSame
  <2>2. ASSUME NEW i \in 1 .. Len(signals'), i \notin 1 .. Len(signals)
        PROVE  signals'[i].from # "event"
    <3> DEFINE j == i - Len(signals)
    <3>1. j \in 1 .. Len(made) /\ i = Len(signals) + j
      BY <1>0, <2>1, <2>2
    <3>2. signals'[Len(signals) + j] = made[j]
      BY <2>1, <3>1
    <3> QED BY <1>3, <3>1, <3>2
  <2> QED BY <1>0, <2>1, <2>2 DEF OthersMade
<1> QED BY <1>1, <1>2, <1>3

LEMMA KindNumbered ==
    ASSUME TypeOK, NEW r \in Runners, NEW a, Follows(r, a), Kind(r, a), ~Appends(r, a)
    PROVE  /\ timeline' = timeline
           /\ Len(signals') \in Nat /\ Len(signals) <= Len(signals')
           /\ Numbered(a, Len(signals), Len(signals'))
<1>0. Len(signals) \in Nat
  BY LengthsAre
<1>1. timeline' = timeline
  BY DEF Kind, Quiet, Lists, Captures, Ends, Gathers, Reserves, Restarts, Resets, KeepsTimeline
<1>2. CASE Captures(r, a)
  <2>1. PICK fresh \in Seq(Nat), made \in Seq(Signal) :
            /\ LastOf(fresh) \in Nat /\ signals' = signals \o made
            /\ a = CaptureSteps(Ids(Len(signals), Len(made)), LastOf(fresh))
    BY <1>2 DEF Captures
  <2>2. Len(made) \in Nat /\ Len(signals') = Len(signals) + Len(made)
    BY <2>1, SignalSame
  <2>3. Numbered(a, Len(signals), Len(signals) + Len(made))
    BY <1>0, <2>1, <2>2, CaptureNumbered
  <2> QED BY <1>0, <1>1, <2>2, <2>3
<1>3. CASE Gathers(r, a)
  <2>1. PICK b, new, made :
          /\ IsPlain(b) /\ new \in Seq(Nat) /\ made \in Seq(Signal) /\ Len(made) = Len(new)
          /\ \A i \in 1 .. Len(new) : new[i] = Len(signals) + i
          /\ signals' = signals \o made /\ a = Recording(b, new)
    BY <1>3 DEF Gathers
  <2>2. Len(made) \in Nat /\ Len(signals') = Len(signals) + Len(made)
    BY <2>1, SignalSame
  <2>3. Numbered(a, Len(signals), Len(signals) + Len(new))
    BY <1>0, <2>1, RecordingNumbered
  <2> QED BY <1>0, <1>1, <2>1, <2>2, <2>3
<1>4. CASE Restarts(r, a)
  <2>1. Len(signals') = Len(signals) + 1
    BY <1>4, SignalOne DEF Restarts
  <2>2. \/ Len(a) = 2 /\ a[1].op = "verified" /\ a[2] = On("signal", Len(signals) + 1)
        \/ Len(a) = 1 /\ a[1] = On("signal", Len(signals) + 1)
    BY <1>4, ShortOps
  <2>3. On("signal", Len(signals) + 1).n = Len(signals) + 1
    BY DEF On
  <2>4. \A k, j \in 1 .. Len(a) : (a[k].op \in {"append", "signal"} /\ a[j].op \in {"append", "signal"}) => k = j
    BY <2>2
  <2>5. \A k \in 1 .. Len(a) : a[k].op \in {"append", "signal"} => a[k].n = Len(signals) + 1
    BY <2>2, <2>3
  <2>6. Numbered(a, Len(signals), Len(signals) + 1)
    BY <1>0, <2>4, <2>5 DEF Numbered
  <2> QED BY <1>0, <1>1, <2>1, <2>6
<1>5. CASE ~Captures(r, a) /\ ~Gathers(r, a) /\ ~Restarts(r, a)
  <2>1. \A k \in 1 .. Len(a) : a[k].op \notin {"append", "signal"}
    BY <1>5, KindOps DEF OpsIn, Plain
  <2>2. signals' = signals
    BY <1>5 DEF Kind, Quiet, Lists, Ends, Reserves, Resets, NothingMade
  <2> QED BY <1>0, <1>1, <2>1, <2>2, NoneNumbered
<1> QED BY <1>2, <1>3, <1>4, <1>5

\* The process that takes a step while another captures, or while it still has to
\* end its own capture
LEMMA EndsOnce ==
    ASSUME EventInv, NEW r \in Runners, NEW a, Takes(r, a), NEW q \in Runners, NEW k \in Nat,
           Ending(q, k)
    PROVE  /\ lock = q /\ ~Captures(r, a)
           /\ q # r => ~Ends(r, a) /\ lock' = lock
           /\ (q = r /\ k = 1) => Ends(r, a)
           /\ (q = r /\ k # 1) => Appends(r, a) /\ Len(a) = 0 /\ ~Ends(r, a) /\ lock' = lock
<1>0. TypeOK /\ CapturesLocked /\ Kind(r, a) /\ todo[r] # <<>>
  BY DEF EventInv, TypeInv, Takes
<1>1. lock = q /\ \A j \in 1 .. k - 1 : todo[q][j].op = "append"
  BY <1>0 DEF CapturesLocked
<1>2. HeadOp(r) = todo[r][1].op /\ 1 \in Nat /\ 1 \in 1 .. Len(todo[r])
  BY <1>0, HeadIs, TypesGive DEF HeadOp
<1>3. ~Captures(r, a)
  BY <1>1, OperationsConstants DEF Captures
<1>4. Ends(r, a) => lock = r
  BY <1>0, <1>2 DEF Ends, CapturesLocked, Ending
<1>5. ~Ends(r, a) => lock' = lock
  BY <1>0, <1>3 DEF Kind, Quiet, Lists, Appends, Gathers, Reserves, Restarts, Resets, KeepsLock
<1>6. ASSUME q = r, k = 1 PROVE Ends(r, a)
  <2>1. HeadOp(r) = "endCapture"
    BY <1>2, <1>6 DEF Ending
  <2> QED BY <1>0, <2>1 DEF Kind, Quiet, Plain, Lists, Captures, Appends, Gathers, Reserves, Restarts, Resets
<1>7. ASSUME q = r, k # 1 PROVE Appends(r, a) /\ Len(a) = 0 /\ ~Ends(r, a)
  <2>1. 1 \in 1 .. k - 1
    BY <1>7, <1>0, LengthsAre DEF Ending
  <2>2. HeadOp(r) = "append"
    BY <1>1, <1>2, <1>7, <2>1
  <2>3. Appends(r, a) /\ ~Ends(r, a)
    BY <1>0, <2>2 DEF Kind, Quiet, Plain, Lists, Captures, Ends, Gathers, Reserves, Restarts, Resets
  <2>4. a = <<>>
    BY <2>2, <2>3 DEF Appends
  <2>5. Len(<<>>) = 0
    OBVIOUS
  <2> QED BY <2>3, <2>4, <2>5
<1> QED BY <1>1, <1>3, <1>4, <1>5, <1>6, <1>7

LEMMA EventsKept ==
    ASSUME EventInv, NEW r \in Runners, NEW a, Takes(r, a)
    PROVE  /\ state'.lastEvent \in Nat /\ state'.lastEvent >= state.lastEvent
           /\ ~Ends(r, a) => state'.lastEvent = state.lastEvent
<1>0. TypeOK /\ CapturesLocked /\ Kind(r, a) /\ todo[r] # <<>> /\ state' \in State
  BY DEF EventInv, TypeInv, Takes
<1>1. state'.lastEvent \in Nat /\ state.lastEvent \in Nat
  BY <1>0, StateIs, LengthsAre
<1>2. ~Ends(r, a) => state'.lastEvent = state.lastEvent
  BY <1>0 DEF Kind, Quiet, Lists, Captures, Appends, Gathers, Reserves, Restarts, Resets, KeepsEvents
<1>3. ASSUME Ends(r, a) PROVE state'.lastEvent >= state.lastEvent
  <2>1. Head(todo[r]) = todo[r][1] /\ 1 \in Nat /\ Ending(r, 1)
    BY <1>0, <1>3, HeadIs, TypesGive DEF Ends, Ending, HeadOp
  <2>2. state'.lastEvent = todo[r][1].last /\ todo[r][1].last >= state.lastEvent
    BY <1>0, <1>3, <2>1 DEF Ends, CapturesLocked
  <2> QED BY <2>2
<1> QED BY <1>1, <1>2, <1>3

\* What a process still had to end, it still has to, unless it has done so.
LEMMA EndingKept ==
    ASSUME EventInv, NEW r \in Runners, NEW a, Takes(r, a), NEW q \in Runners, NEW k \in Nat,
           Ending(q, k)
    PROVE  \/ q = r /\ k = 1 /\ state'.lastEvent = todo[q][k].last
           \/ \E j \in Nat : Ending(q, j)' /\ todo'[q][j] = todo[q][k]
<1>0. TypeOK /\ Follows(r, a) /\ todo[r] # <<>>
  BY DEF EventInv, TypeInv, Takes
<1>1. CASE q # r
  <2>1. todo'[q] = todo[q]
    BY <1>0, <1>1 DEF Follows
  <2> QED BY <2>1 DEF Ending
<1>2. CASE q = r /\ k = 1
  <2>1. Ends(r, a) /\ Head(todo[r]) = todo[r][1]
    BY <1>0, <1>2, EndsOnce, HeadIs, TypesGive
  <2> QED BY <1>2, <2>1 DEF Ends
<1>3. CASE q = r /\ k # 1
  <2>1. Appends(r, a) /\ Len(a) = 0
    BY <1>3, EndsOnce
  <2>a. Len(todo'[r]) = Len(a) + Len(todo[r]) - 1
    BY <2>1 DEF Appends, GoesOn
  <2>2. Len(todo'[r]) = Len(todo[r]) - 1
    BY <1>0, <2>1, <2>a, LengthsAre
  <2> DEFINE j == k - 1
  <2>3. j \in Nat /\ j \in 1 .. Len(todo'[r])
    BY <1>0, <1>3, <2>2, LengthsAre DEF Ending
  <2>4. j \in Len(a) + 1 .. Len(todo'[r]) /\ j - Len(a) + 1 = k
    BY <2>1, <2>3
  <2>5. todo'[r][j] = todo[r][k]
    BY <1>0, <2>4 DEF Follows
  <2>6. Ending(r, j)'
    BY <1>3, <2>3, <2>5 DEF Ending
  <2> QED BY <1>3, <2>3, <2>5, <2>6
<1> QED BY <1>1, <1>2, <1>3

LEMMA CapturedKept ==
    ASSUME EventInv, NEW r \in Runners, NEW a, Takes(r, a), NEW e \in Nat, Captured(e)
    PROVE  Captured(e)'
<1>0. /\ state'.lastEvent \in Nat /\ state'.lastEvent >= state.lastEvent /\ state.lastEvent \in Nat
  BY EventsKept, LengthsAre DEF EventInv, TypeInv
<1>1. CASE e <= state.lastEvent
  <2>1. e <= state'.lastEvent
    BY <1>0, <1>1
  <2> QED BY <2>1 DEF Captured
<1>2. ASSUME NEW q \in Runners, NEW k \in Nat, Ending(q, k), e <= todo[q][k].last
      PROVE  Captured(e)'
  <2>1. CASE q = r /\ k = 1 /\ state'.lastEvent = todo[q][k].last
    BY <1>2, <2>1 DEF Captured
  <2>2. CASE \E j \in Nat : Ending(q, j)' /\ todo'[q][j] = todo[q][k]
    BY <1>2, <2>2 DEF Captured
  <2> QED BY <1>2, <2>1, <2>2, EndingKept
<1> QED BY <1>1, <1>2 DEF Captured

\* The steps of a process that begins no capture
LEMMA OldEndings ==
    ASSUME EventInv, NEW r \in Runners, NEW a, Takes(r, a), ~Captures(r, a)
    PROVE  CapturesLocked'
<1>0. TypeOK /\ Follows(r, a) /\ CapturesLocked /\ Kind(r, a) /\ a \in Seq(Steps)
  BY DEF EventInv, TypeInv, Takes, Follows
<1> SUFFICES ASSUME NEW q \in Runners, NEW k \in Nat, Ending(q, k)'
             PROVE  /\ lock' = q /\ todo'[q][k].last >= state'.lastEvent
                    /\ \A j \in 1 .. k - 1 : todo'[q][j].op = "append"
  BY DEF CapturesLocked
<1>1. k \in 1 .. Len(todo'[q]) /\ todo'[q][k].op = "endCapture"
  BY DEF Ending
<1>2. \A i \in 1 .. Len(a) : a[i].op # "endCapture"
  BY <1>0, KindOps DEF OpsIn, Plain
<1> DEFINE s == Source(r, a, q, k)
<1>3. Old(r, a, q, k)
  BY <1>0, <1>1, <1>2, Origin
<1>4. s \in 1 .. Len(todo[q]) /\ todo'[q][k] = todo[q][s] /\ (q = r => s # 1)
  BY <1>0, <1>1, <1>3, Origin
<1>5. s \in Nat /\ Ending(q, s)
  BY <1>0, <1>1, <1>4, LengthsAre DEF Ending
<1>6. lock = q /\ todo[q][s].last >= state.lastEvent /\ \A j \in 1 .. s - 1 : todo[q][j].op = "append"
  BY <1>0, <1>5 DEF CapturesLocked
<1>7. ~Ends(r, a) /\ lock' = lock
  <2> HIDE DEF s
  <2> QED BY <1>4, <1>5, EndsOnce
<1>8. state'.lastEvent = state.lastEvent
  BY <1>7, EventsKept
<1>9. \A j \in 1 .. k - 1 : todo'[q][j].op = "append"
  <2>1. CASE q # r
    BY <1>0, <1>6, <2>1 DEF Follows, Source
  <2>2. CASE q = r
    <3>1. Len(a) = 0
      <4> HIDE DEF s
      <4> QED BY <1>4, <1>5, <2>2, EndsOnce
    <3>2. s = k + 1
      BY <2>2, <3>1 DEF Source
    <3>3. ASSUME NEW j \in 1 .. k - 1 PROVE todo'[r][j].op = "append"
      <4>1. Len(todo'[r]) \in Nat
        BY <1>0, <2>2 DEF Follows, ToDo
      <4>2. j \in Len(a) + 1 .. Len(todo'[r]) /\ j - Len(a) + 1 = j + 1
        BY <1>1, <2>2, <3>1, <4>1
      <4>3. todo'[r][j] = todo[r][j + 1]
        BY <1>0, <4>2 DEF Follows
      <4>4. j + 1 \in 1 .. s - 1
        BY <3>2
      <4> QED BY <1>6, <2>2, <4>3, <4>4
    <3> QED BY <2>2, <3>3
  <2> QED BY <2>1, <2>2
<1> QED BY <1>4, <1>6, <1>7, <1>8, <1>9

\* A capture makes m signals, of the events fresh, the newest of which is last.
Fetched(fresh, m, last, a) ==
    /\ Len(signals') = Len(signals) + m
    /\ \A i \in 1 .. Len(signals) : signals'[i] = signals[i]
    /\ \A i \in 1 .. m : signals'[Len(signals) + i].from = "event" /\ signals'[Len(signals) + i].n = fresh[i]
    /\ \A i \in 1 .. m : fresh[i] \in 1 .. Len(events)
    /\ \A i \in 1 .. m : events[fresh[i]] > state.lastEvent /\ events[fresh[i]] <= last
    /\ \A i, j \in 1 .. m : fresh[i] = fresh[j] => i = j
    /\ last >= state.lastEvent
    /\ Len(a) = m + 1 /\ a[m + 1].op = "endCapture" /\ a[m + 1].last = last
    /\ \A k \in 1 .. m : a[k].op = "append"

LEMMA CaptureIs ==
    ASSUME EventInv, NEW r \in Runners, NEW a, Takes(r, a), Captures(r, a)
    PROVE  \E fresh \in Seq(Nat), m \in Nat, last \in Nat : Fetched(fresh, m, last, a)
<1>0. TypeOK /\ Listed /\ todo[r] # <<>>
  BY DEF EventInv, TypeInv, Takes
<1>1. PICK fresh \in Seq(Nat), made \in Seq(Signal) :
          /\ fresh = Fresh(Head(todo[r]).n) /\ Len(fresh) = Len(made)
          /\ LastOf(fresh) \in Nat
          /\ \A i \in 1 .. Len(made) : made[i].from = "event" /\ made[i].n = fresh[i]
          /\ signals' = signals \o made
          /\ a = CaptureSteps(Ids(Len(signals), Len(made)), LastOf(fresh))
  BY DEF Captures
<1> DEFINE n == Head(todo[r]).n
           m == Len(made)
           last == LastOf(fresh)
<1>2. n \in Nat /\ n <= Len(events)
  <2>1. Head(todo[r]) = todo[r][1] /\ 1 \in 1 .. Len(todo[r]) /\ todo[r][1] \in Steps
    BY <1>0, HeadIs, TypesGive
  <2>2. todo[r][1].op = "capture"
    BY <2>1 DEF Captures, HeadOp
  <2> QED BY <1>0, <2>1, <2>2, FieldsAre DEF Listed
<1>3. events \in Seq(Nat) /\ Len(events) \in Nat /\ Len(signals) \in Nat /\ state.lastEvent \in Nat
      /\ \A i \in 1 .. Len(events) : events[i] \in Nat
  BY <1>0, LengthsAre, TypesGive
<1> HIDE DEF n
<1>4. /\ \A i \in 1 .. Len(Fresh(n)) : Fresh(n)[i] \in 1 .. n /\ events[Fresh(n)[i]] > state.lastEvent
      /\ \A i, j \in 1 .. Len(Fresh(n)) : i < j =>
            Fresh(n)[i] < Fresh(n)[j] /\ events[Fresh(n)[i]] < events[Fresh(n)[j]]
  BY <1>2, <1>3, FreshIs
<1>5. fresh = Fresh(n) /\ Len(fresh) = m
  BY <1>1 DEF n
<1>6. /\ m \in Nat /\ Len(signals') = Len(signals) + m
      /\ \A i \in 1 .. Len(signals) : signals'[i] = signals[i]
      /\ \A i \in 1 .. m : signals'[Len(signals) + i] = made[i]
  BY <1>0, <1>1, SignalSame
<1>7. last \in Nat
  BY <1>1
<1>a. \A i \in 1 .. m : made[i].from = "event" /\ made[i].n = fresh[i]
  BY <1>1
<1>b. last = IF fresh = <<>> THEN state.lastEvent ELSE events[fresh[Len(fresh)]]
  BY DEF LastOf, Last
<1>c. fresh = <<>> <=> m = 0
  BY <1>5
<1>d. a = CaptureSteps(Ids(Len(signals), m), last)
  BY <1>1
<1> HIDE DEF m, last
<1>8. /\ Len(a) = m + 1 /\ a[m + 1].op = "endCapture" /\ a[m + 1].last = last
      /\ \A k \in 1 .. m : a[k].op = "append"
  <2>1. m \in Nat /\ last \in Nat /\ Len(signals) \in Nat
    BY <1>3, <1>6, <1>7
  <2>2. Appending(a, m, last)
    BY <2>1, <1>d, CaptureNumbered
  <2> QED BY <2>2 DEF Appending
<1>9. \A i \in 1 .. m : fresh[i] \in 1 .. n /\ events[fresh[i]] > state.lastEvent
  BY <1>4, <1>5
<1>10. \A i, j \in 1 .. m : i < j => fresh[i] < fresh[j] /\ events[fresh[i]] < events[fresh[j]]
  BY <1>4, <1>5
<1>11. \A i \in 1 .. m : fresh[i] \in 1 .. Len(events) /\ events[fresh[i]] \in Nat
  BY <1>2, <1>3, <1>9
<1>12. \A i, j \in 1 .. m : fresh[i] = fresh[j] => i = j
  <2> SUFFICES ASSUME NEW i \in 1 .. m, NEW j \in 1 .. m, i < j, fresh[i] = fresh[j] PROVE FALSE
    BY <1>6
  <2>1. fresh[i] \in Nat /\ fresh[j] \in Nat /\ fresh[i] < fresh[j]
    BY <1>10, <1>11
  <2> QED BY <2>1
<1>13. last >= state.lastEvent /\ \A i \in 1 .. m : events[fresh[i]] <= last
  <2>1. CASE m = 0
    BY <1>3, <1>b, <1>c, <2>1
  <2>2. CASE m # 0
    <3>1. m \in 1 .. m /\ last = events[fresh[m]]
      BY <1>5, <1>6, <1>b, <1>c, <2>2
    <3>2. last > state.lastEvent
      BY <1>9, <3>1
    <3>3. ASSUME NEW i \in 1 .. m PROVE events[fresh[i]] <= last
      <4>1. i = m \/ i < m
        BY <1>6
      <4>2. events[fresh[i]] \in Nat /\ last \in Nat
        BY <1>7, <1>11
      <4> QED BY <1>10, <3>1, <4>1, <4>2
    <3> QED BY <1>3, <1>7, <3>2, <3>3
  <2> QED BY <2>1, <2>2
<1>14. \A i \in 1 .. m : signals'[Len(signals) + i].from = "event" /\ signals'[Len(signals) + i].n = fresh[i]
  <2> SUFFICES ASSUME NEW i \in 1 .. m
               PROVE  signals'[Len(signals) + i].from = "event" /\ signals'[Len(signals) + i].n = fresh[i]
    OBVIOUS
  <2>1. signals'[Len(signals) + i] = made[i]
    BY <1>6
  <2> QED BY <1>a, <2>1
<1>15. \A i \in 1 .. m : fresh[i] \in 1 .. Len(events)
  BY <1>11
<1>16. \A i \in 1 .. m : events[fresh[i]] > state.lastEvent /\ events[fresh[i]] <= last
  BY <1>9, <1>13
<1>17. Fetched(fresh, m, last, a)
  BY <1>6, <1>8, <1>12, <1>13, <1>14, <1>15, <1>16 DEF Fetched
<1> QED BY <1>6, <1>7, <1>17

\* What a capture begins to record is newer than what was captured before.
LEMMA CaptureKeeps ==
    ASSUME EventInv, NEW r \in Runners, NEW a, Takes(r, a), Captures(r, a)
    PROVE  CapturesLocked' /\ SignalsOnce'
<1>0. /\ TypeOK /\ Follows(r, a) /\ CapturesLocked /\ SignalsOnce /\ todo[r] # <<>> /\ a \in Seq(Steps)
      /\ UNCHANGED <<crashes, events>>
  BY DEF EventInv, TypeInv, Takes, Follows, outside
<1>1. lock = NoRunner /\ lock' = r /\ state'.lastEvent = state.lastEvent
  BY DEF Captures, KeepsEvents
<1>2. PICK fresh \in Seq(Nat), m \in Nat, last \in Nat : Fetched(fresh, m, last, a)
  BY CaptureIs
<1>a. /\ Len(signals') = Len(signals) + m
      /\ \A i \in 1 .. Len(signals) : signals'[i] = signals[i]
      /\ \A i \in 1 .. m : signals'[Len(signals) + i].from = "event" /\ signals'[Len(signals) + i].n = fresh[i]
  BY <1>2 DEF Fetched
<1>b. /\ \A i \in 1 .. m : fresh[i] \in 1 .. Len(events)
      /\ \A i \in 1 .. m : events[fresh[i]] > state.lastEvent /\ events[fresh[i]] <= last
      /\ \A i, j \in 1 .. m : fresh[i] = fresh[j] => i = j
  BY <1>2 DEF Fetched
<1>c. /\ last >= state.lastEvent
      /\ Len(a) = m + 1 /\ a[m + 1].op = "endCapture" /\ a[m + 1].last = last
      /\ \A k \in 1 .. m : a[k].op = "append"
  BY <1>2 DEF Fetched
<1>3. \A q \in Runners, k \in Nat : ~Ending(q, k)
  BY <1>0, <1>1, OperationsConstants DEF CapturesLocked
<1>4. Len(signals) \in Nat /\ Len(events) \in Nat /\ state.lastEvent \in Nat
      /\ \A i \in 1 .. Len(events) : events[i] \in Nat
  BY <1>0, LengthsAre
<1>5. ASSUME NEW q \in Runners, NEW k \in Nat, Ending(q, k)'
      PROVE  q = r /\ k = m + 1 /\ todo'[q][k] = a[m + 1]
  <2>1. k \in 1 .. Len(todo'[q]) /\ todo'[q][k].op = "endCapture"
    BY <1>5 DEF Ending
  <2>2. ~Old(r, a, q, k)
    <3>1. ASSUME Old(r, a, q, k) PROVE FALSE
      <4> DEFINE s == Source(r, a, q, k)
      <4>1. s \in 1 .. Len(todo[q]) /\ todo'[q][k] = todo[q][s]
        BY <1>0, <2>1, <3>1, Origin
      <4>2. s \in Nat
        BY <1>0, <4>1, LengthsAre
      <4> HIDE DEF s
      <4> QED BY <1>3, <2>1, <4>1, <4>2 DEF Ending
    <3> QED BY <3>1
  <2>3. q = r /\ k \in 1 .. Len(a) /\ todo'[q][k] = a[k]
    BY <1>0, <2>1, <2>2, Origin
  <2>4. k \in 1 .. m \/ k = m + 1
    BY <1>c, <2>3
  <2> QED BY <1>c, <2>1, <2>3, <2>4
<1>6. m + 1 \in Nat /\ Ending(r, m + 1)' /\ todo'[r][m + 1] = a[m + 1]
      /\ \A j \in 1 .. m : todo'[r][j] = a[j]
  <2>1. Len(todo'[r]) \in Nat
    <3>1. todo'[r] \in Seq(Steps)
      BY <1>0 DEF Follows, ToDo
    <3> QED BY <3>1
  <2>2. m + 1 \in 1 .. Len(a) /\ m + 1 \in 1 .. Len(todo'[r]) /\ \A j \in 1 .. m : j \in 1 .. Len(a)
    BY <1>0, <1>c, <2>1 DEF Follows
  <2>3. todo'[r][m + 1] = a[m + 1] /\ \A j \in 1 .. m : todo'[r][j] = a[j]
    BY <1>0, <2>2 DEF Follows
  <2>4. m + 1 \in Nat
    OBVIOUS
  <2>5. Ending(r, m + 1)'
    BY <1>c, <2>2, <2>3 DEF Ending
  <2> QED BY <2>3, <2>4, <2>5
<1>7. CapturesLocked'
  <2> SUFFICES ASSUME NEW q \in Runners, NEW k \in Nat, Ending(q, k)'
               PROVE  /\ lock' = q /\ todo'[q][k].last >= state'.lastEvent
                      /\ \A j \in 1 .. k - 1 : todo'[q][j].op = "append"
    BY DEF CapturesLocked
  <2>1. q = r /\ k = m + 1 /\ todo'[q][k] = a[m + 1]
    BY <1>5
  <2>2. \A j \in 1 .. k - 1 : j \in 1 .. m
    BY <2>1
  <2> QED BY <1>1, <1>c, <1>6, <2>1, <2>2
<1>8. \A i \in 1 .. Len(signals') :
         \/ i \in 1 .. Len(signals) /\ signals'[i] = signals[i]
         \/ \E j \in 1 .. m : i = Len(signals) + j
  <2> SUFFICES ASSUME NEW i \in 1 .. Len(signals'), i \notin 1 .. Len(signals)
               PROVE  \E j \in 1 .. m : i = Len(signals) + j
    BY <1>a
  <2> DEFINE j == i - Len(signals)
  <2>1. j \in 1 .. m /\ i = Len(signals) + j
    BY <1>a, <1>4
  <2> QED BY <2>1
<1>9. ASSUME NEW i \in 1 .. Len(signals'), signals'[i].from = "event"
      PROVE  signals'[i].n \in 1 .. Len(events)
  <2>1. CASE i \in 1 .. Len(signals) /\ signals'[i] = signals[i]
    BY <1>0, <1>9, <2>1 DEF SignalsOnce
  <2>2. ASSUME NEW j \in 1 .. m, i = Len(signals) + j PROVE signals'[i].n \in 1 .. Len(events)
    BY <1>a, <1>b, <2>2
  <2> QED BY <1>8, <2>1, <2>2
<1>10. ASSUME crashes = 0
       PROVE  /\ \A i \in 1 .. Len(signals) :
                    signals[i].from = "event" => events[signals[i].n] <= state.lastEvent
              /\ \A i, j \in 1 .. Len(signals) :
                    (signals[i].from = "event" /\ signals[j].from = "event"
                        /\ signals[i].n = signals[j].n) => i = j
  BY <1>0, <1>3, <1>10 DEF SignalsOnce, Captured
<1>11. ASSUME crashes = 0, NEW i \in 1 .. Len(signals'), signals'[i].from = "event"
       PROVE  Captured(events[signals[i].n])'
  <2>1. CASE i \in 1 .. Len(signals) /\ signals'[i] = signals[i]
    <3>1. events[signals'[i].n] <= state'.lastEvent
      BY <1>1, <1>10, <1>11, <2>1
    <3> QED BY <1>0, <3>1 DEF Captured
  <2>2. ASSUME NEW j \in 1 .. m, i = Len(signals) + j
        PROVE  Captured(events[signals[i].n])'
    <3>1. events[signals'[i].n] <= last
      BY <1>a, <1>b, <2>2
    <3>2. todo'[r][m + 1].last = last
      BY <1>c, <1>6
    <3> QED BY <1>0, <1>6, <3>1, <3>2 DEF Captured
  <2> QED BY <1>8, <2>1, <2>2
<1>12. ASSUME crashes = 0, NEW i \in 1 .. Len(signals'), NEW j \in 1 .. Len(signals'),
              signals'[i].from = "event", signals'[j].from = "event", signals'[i].n = signals'[j].n
       PROVE  i = j
  <2>1. ASSUME NEW x \in 1 .. Len(signals), NEW y \in 1 .. m, signals[x].from = "event",
               signals[x].n = fresh[y]
        PROVE  FALSE
    <3>1. events[signals[x].n] <= state.lastEvent
      BY <1>10, <1>12, <2>1
    <3>2. events[fresh[y]] > state.lastEvent /\ events[fresh[y]] \in Nat
      BY <1>b, <1>4
    <3> QED BY <1>4, <2>1, <3>1, <3>2
  <2>2. CASE i \in 1 .. Len(signals) /\ j \in 1 .. Len(signals)
    BY <1>a, <1>10, <1>12, <2>2
  <2>3. ASSUME i \in 1 .. Len(signals), NEW y \in 1 .. m, j = Len(signals) + y PROVE FALSE
    <3>1. signals[i].from = "event" /\ signals[i].n = fresh[y]
      BY <1>a, <1>12, <2>3
    <3> QED BY <2>1, <2>3, <3>1
  <2>4. ASSUME j \in 1 .. Len(signals), NEW y \in 1 .. m, i = Len(signals) + y PROVE FALSE
    <3>1. signals[j].from = "event" /\ signals[j].n = fresh[y]
      BY <1>a, <1>12, <2>4
    <3> QED BY <2>1, <2>4, <3>1
  <2>5. ASSUME NEW x \in 1 .. m, i = Len(signals) + x, NEW y \in 1 .. m, j = Len(signals) + y
        PROVE  i = j
    <3>1. fresh[x] = fresh[y]
      BY <1>a, <1>12, <2>5
    <3>2. x = y
      BY <1>b, <3>1
    <3> QED BY <2>5, <3>2
  <2>6. i \in 1 .. Len(signals) \/ \E x \in 1 .. m : i = Len(signals) + x
    BY <1>8
  <2>7. j \in 1 .. Len(signals) \/ \E y \in 1 .. m : j = Len(signals) + y
    BY <1>8
  <2> QED BY <2>2, <2>3, <2>4, <2>5, <2>6, <2>7
<1>13. SignalsOnce'
  BY <1>0, <1>9, <1>11, <1>12 DEF SignalsOnce
<1> QED BY <1>7, <1>13

\* Signals of other things than events, and more events, change nothing.
LEMMA SignalsKept ==
    ASSUME TypeOK, TypeOK', SignalsOnce, OthersMade, EventsGrow,
           crashes' = 0 =>
               /\ crashes = 0
               /\ \A e \in Nat : Captured(e) => Captured(e)'
    PROVE  SignalsOnce'
<1>0. /\ Len(signals) \in Nat /\ Len(events) \in Nat
      /\ \A i \in 1 .. Len(events) : events[i] \in Nat
  BY LengthsAre
<1>1. ASSUME NEW i \in 1 .. Len(signals'), signals'[i].from = "event"
      PROVE  /\ i \in 1 .. Len(signals) /\ signals'[i] = signals[i]
             /\ signals[i].from = "event" /\ signals[i].n \in 1 .. Len(events)
             /\ events'[signals[i].n] = events[signals[i].n]
  <2>1. i \in 1 .. Len(signals)
    BY <1>1 DEF OthersMade
  <2>2. signals'[i] = signals[i]
    BY <2>1 DEF OthersMade
  <2>3. signals[i].n \in 1 .. Len(events)
    BY <1>1, <2>1, <2>2 DEF SignalsOnce
  <2> QED BY <1>1, <2>1, <2>2, <2>3 DEF EventsGrow
<1>2. ASSUME NEW i \in 1 .. Len(signals'), signals'[i].from = "event"
      PROVE  signals'[i].n \in 1 .. Len(events')
  <2>1. events' \in Seq(Nat)
    BY DEF TypeOK
  <2>2. Len(events') \in Nat
    BY <2>1
  <2>3. Len(events') >= Len(events)
    BY DEF EventsGrow
  <2> QED BY <1>0, <1>1, <1>2, <2>2, <2>3
<1>3. ASSUME crashes' = 0, NEW i \in 1 .. Len(signals'), signals'[i].from = "event"
      PROVE  Captured(events[signals[i].n])'
  <2>1. Captured(events[signals[i].n])
    BY <1>1, <1>3 DEF SignalsOnce
  <2> DEFINE e == events[signals[i].n]
  <2>2. e \in Nat
    BY <1>0, <1>1, <1>3
  <2>3. events'[signals'[i].n] = e
    BY <1>1, <1>3
  <2>4. \A x \in Nat : Captured(x) => Captured(x)'
    BY <1>3
  <2>5. ASSUME NEW x \in Nat, Captured(x), events'[signals'[i].n] = x
        PROVE  Captured(events[signals[i].n])'
    BY <2>4, <2>5 DEF Captured
  <2> QED BY <2>1, <2>2, <2>3, <2>5
<1>4. ASSUME crashes' = 0, NEW i \in 1 .. Len(signals'), NEW j \in 1 .. Len(signals'),
             signals'[i].from = "event", signals'[j].from = "event", signals'[i].n = signals'[j].n
      PROVE  i = j
  BY <1>1, <1>4 DEF SignalsOnce
<1> QED BY <1>2, <1>3, <1>4 DEF SignalsOnce

LEMMA TakesEvents ==
    ASSUME EventInv, NEW r \in Runners, NEW a, Takes(r, a), TypeInv'
    PROVE  EventInv'
<1>0. /\ TypeOK /\ Follows(r, a) /\ Kind(r, a) /\ SignalsOnce /\ todo[r] # <<>>
      /\ UNCHANGED <<crashes, events>> /\ TypeOK'
  BY DEF EventInv, TypeInv, Takes, outside
<1>1. PendingOnce' /\ TimelineOnce'
  <2>1. CASE Appends(r, a)
    <3>1. /\ HeadOp(r) \in {"append", "signal"} /\ IsPlain(a) /\ signals' = signals
          /\ timeline' = Append(timeline, Head(todo[r]).n)
      BY <2>1 DEF Appends, NothingMade
    <3> QED BY <1>0, <3>1, PendingAppended
  <2>2. CASE ~Appends(r, a)
    <3>1. /\ timeline' = timeline /\ Len(signals') \in Nat /\ Len(signals) <= Len(signals')
          /\ Numbered(a, Len(signals), Len(signals'))
      BY <1>0, <2>2, KindNumbered
    <3> QED BY <1>0, <3>1, PendingKept
  <2> QED BY <2>1, <2>2
<1>2. CapturesLocked' /\ SignalsOnce'
  <2>1. CASE Captures(r, a)
    BY <2>1, CaptureKeeps
  <2>2. CASE ~Captures(r, a)
    <3>1. CapturesLocked'
      BY <2>2, OldEndings
    <3>2. OthersMade
      <4>1. CASE Gathers(r, a)
        BY <1>0, <4>1, OthersAre DEF Gathers
      <4>2. CASE Restarts(r, a)
        BY <1>0, <4>2, OthersAre DEF Restarts
      <4>3. CASE ~Gathers(r, a) /\ ~Restarts(r, a)
        <5>1. signals' = signals
          BY <1>0, <2>2, <4>3 DEF Kind, Quiet, Lists, Appends, Ends, Reserves, Resets, NothingMade
        <5> QED BY <1>0, <5>1, OthersAre
      <4> QED BY <4>1, <4>2, <4>3
    <3>3. EventsGrow
      BY <1>0, LengthsAre DEF EventsGrow
    <3>4. \A e \in Nat : Captured(e) => Captured(e)'
      BY CapturedKept
    <3>5. SignalsOnce'
      BY <1>0, <3>2, <3>3, <3>4, SignalsKept
    <3> QED BY <3>1, <3>5
  <2> QED BY <2>1, <2>2
<1> QED BY <1>1, <1>2 DEF EventInv

LEMMA InitEvents == Init => EventInv
<1> SUFFICES ASSUME Init PROVE EventInv
  OBVIOUS
<1>1. TypeInv
  BY InitTypeInv
<1>2. \A r \in Runners : 1 .. Len(todo[r]) = {}
  BY DEF Init
<1>3. 1 .. Len(signals) = {} /\ 1 .. Len(timeline) = {}
  BY DEF Init
<1>4. \A r \in Runners, k \in Nat : ~Pending(r, k) /\ ~Ending(r, k)
  BY <1>2 DEF Pending, Ending
<1>5. PendingOnce /\ TimelineOnce /\ CapturesLocked /\ SignalsOnce
  BY <1>3, <1>4 DEF PendingOnce, TimelineOnce, CapturesLocked, SignalsOnce
<1> QED BY <1>1, <1>5 DEF EventInv

\* Nothing that the signals depend on is touched, except that events are added.
LEMMA SignalsUntouched ==
    ASSUME EventInv, TypeInv', UNCHANGED <<signals, timeline, lock, todo, crashes>>,
           state'.lastEvent = state.lastEvent, EventsGrow
    PROVE  EventInv'
<1>0. TypeOK /\ TypeOK' /\ PendingOnce /\ TimelineOnce /\ CapturesLocked /\ SignalsOnce
  BY DEF EventInv, TypeInv
<1>1. PendingOnce' /\ TimelineOnce' /\ CapturesLocked'
  BY <1>0 DEF PendingOnce, TimelineOnce, CapturesLocked, Pending, Ending
<1>2. \A e \in Nat : Captured(e) => Captured(e)'
  BY DEF Captured, Ending
<1>3. OthersMade
  BY <1>0, OthersAre
<1>4. SignalsOnce'
  BY <1>0, <1>2, <1>3, SignalsKept
<1> QED BY <1>1, <1>4 DEF EventInv

LEMMA NextEvents == EventInv /\ [Next]_vars => EventInv'
<1> SUFFICES ASSUME EventInv, [Next]_vars PROVE EventInv'
  OBVIOUS
<1>0. /\ TypeOK /\ TypeInv /\ TypeInv' /\ PendingOnce /\ TimelineOnce /\ CapturesLocked /\ SignalsOnce
      /\ TypeOK'
  BY NextTypeInv DEF EventInv, TypeInv
<1>a. Len(events) \in Nat /\ Len(signals) \in Nat /\ state.lastEvent \in Nat
  BY <1>0, LengthsAre
<1>b. events' = events => EventsGrow
  BY <1>a DEF EventsGrow
<1>1. CASE Apart
  BY <1>0, <1>1, ApartIs, SignalsUntouched DEF internal
<1>2. CASE Passes
  BY <1>0, <1>2, <1>b, PassesIs, PassesKeeps, SignalsUntouched DEF outside
<1>3. CASE Configures
  <2>1. PICK c \in Config : Configure(c)
    BY <1>0, <1>3, ConfiguresIs
  <2>2. state'.lastEvent = state.lastEvent
    BY <1>0, <2>1, ConfigureIs DEF TypeOK
  <2> QED BY <1>0, <1>b, <2>1, <2>2, SignalsUntouched DEF Configure, outside
<1>4. ASSUME NEW r \in Runners, RunOnce(r) \/ ObserveNow(r) \/ RecordProviderSignal(r)
      PROVE  EventInv'
  <2>1. PICK a : Begins(r, a)
    BY <1>0, <1>4, StartBegins
  <2>2. /\ Follows(r, a) /\ todo[r] = <<>>
        /\ UNCHANGED <<outside, timeline, state, lock, crashes>>
    BY <2>1 DEF Begins
  <2>3. OthersMade
    BY <1>0, <2>1, OthersAre DEF Begins
  <2>4. Numbered(a, Len(signals), Len(signals'))
    <3>1. CASE IsPlain(a) /\ signals' = signals
      <4>1. \A k \in 1 .. Len(a) : a[k].op \notin {"append", "signal"}
        BY <3>1 DEF IsPlain, Plain
      <4> QED BY <1>a, <3>1, <4>1, NoneNumbered
    <3>2. ASSUME a = Recording(<<>>, <<Len(signals) + 1>>),
                 NEW made \in Signal, signals' = Append(signals, made)
          PROVE  Numbered(a, Len(signals), Len(signals'))
      <4> DEFINE new == <<Len(signals) + 1>>
                 b == <<>>
      <4>1. new \in Seq(Nat) /\ Len(new) = 1 /\ \A i \in 1 .. Len(new) : new[i] = Len(signals) + i
        BY <1>a
      <4>2. Len(signals') = Len(signals) + 1
        BY <1>0, <3>2, SignalOne
      <4>3. IsPlain(b) /\ a = Recording(b, new)
        BY <3>2, PlainsAre
      <4> HIDE DEF new, b
      <4>4. Numbered(Recording(b, new), Len(signals), Len(signals) + Len(new))
        BY <1>a, <4>1, <4>3, RecordingNumbered
      <4> QED BY <4>1, <4>2, <4>3, <4>4
    <3> QED BY <2>1, <3>1, <3>2 DEF Begins
  <2>5. PendingOnce' /\ TimelineOnce'
    <3>1. Len(signals') \in Nat /\ Len(signals) <= Len(signals')
      BY <2>3 DEF OthersMade
    <3> QED BY <2>2, <2>4, <3>1, PendingKept
  <2>6. ASSUME NEW q \in Runners, NEW k \in Nat, Ending(q, k)'
        PROVE  q # r
    <3>1. CASE q = r
      <4>1. \A i \in 1 .. Len(a) : a[i].op # "endCapture"
        BY <1>0, <2>1, BeginOps DEF OpsIn, Plain
      <4>2. k \in 1 .. Len(todo'[q]) /\ todo'[q][k].op = "endCapture"
        BY <2>6 DEF Ending
      <4>3. Old(r, a, q, k)
        BY <1>0, <2>2, <4>1, <4>2, Origin
      <4>4. Source(r, a, q, k) \in 1 .. Len(todo[r])
        BY <1>0, <2>2, <3>1, <4>2, <4>3, Origin
      <4>5. 1 .. Len(todo[r]) = {}
        BY <2>2
      <4> QED BY <4>4, <4>5
    <3> QED BY <3>1
  <2>7. \A q \in Runners \ {r} : todo'[q] = todo[q]
    BY <2>2 DEF Follows
  <2>8. CapturesLocked'
    BY <1>0, <2>2, <2>6, <2>7 DEF CapturesLocked, Ending
  <2>9. \A q \in Runners, k \in Nat : Ending(q, k) => q # r
    <3>1. 1 .. Len(todo[r]) = {}
      BY <2>2
    <3> QED BY <3>1 DEF Ending
  <2>10. \A e \in Nat : Captured(e) => Captured(e)'
    BY <2>2, <2>7, <2>9 DEF Captured, Ending
  <2>11. SignalsOnce'
    BY <1>0, <1>b, <2>2, <2>3, <2>10, SignalsKept DEF outside
  <2> QED BY <1>0, <2>5, <2>8, <2>11 DEF EventInv
<1>5. ASSUME NEW r \in Runners, Step(r) PROVE EventInv'
  BY <1>0, <1>5, StepTakes, TakesEvents
<1>6. ASSUME NEW r \in Runners, Crash(r) PROVE EventInv'
  <2>1. /\ Follows(r, <<>>)
        /\ UNCHANGED <<outside, signals, timeline, state>>
        /\ crashes' = crashes + 1 /\ lock' = IF lock = r THEN NoRunner ELSE lock
    BY <1>0, <1>6, CrashDies DEF Dies
  <2>2. todo'[r] = <<>> /\ \A q \in Runners \ {r} : todo'[q] = todo[q]
    BY <1>0, <1>6, FailsIs, TypesGive DEF Crash
  <2>3. \A k \in 1 .. Len(<<>>) : <<>>[k].op \notin {"append", "signal"}
    OBVIOUS
  <2>4. PendingOnce' /\ TimelineOnce'
    <3>1. Numbered(<<>>, Len(signals), Len(signals))
      BY <1>a, <2>3, NoneNumbered
    <3> QED BY <1>a, <2>1, <3>1, PendingKept
  <2>5. \A q \in Runners, k \in Nat : Ending(q, k)' => q # r
    <3>1. 1 .. Len(todo'[r]) = {}
      BY <2>2
    <3> QED BY <3>1 DEF Ending
  <2>6. CapturesLocked'
    BY <1>0, <2>1, <2>2, <2>5 DEF CapturesLocked, Ending
  <2>7. crashes' # 0
    BY <1>0, <2>1 DEF TypeOK
  <2>8. OthersMade
    BY <1>0, <2>1, OthersAre
  <2>9. SignalsOnce'
    BY <1>0, <1>b, <2>1, <2>7, <2>8, SignalsKept DEF outside
  <2> QED BY <1>0, <2>4, <2>6, <2>9 DEF EventInv
<1>7. CASE UNCHANGED vars
  BY <1>0, <1>7, <1>b, SignalsUntouched DEF vars, outside
<1> QED BY <1>1, <1>2, <1>3, <1>4, <1>5, <1>6, <1>7, NextIs

LEMMA EventInvGives == EventInv => EventsOnce
<1> SUFFICES ASSUME EventInv, crashes = 0, NEW i \in DOMAIN timeline, NEW j \in DOMAIN timeline,
                    signals[timeline[i]].from = "event", signals[timeline[j]].from = "event",
                    signals[timeline[i]].n = signals[timeline[j]].n
             PROVE  i = j
  BY DEF EventsOnce
<1>1. DOMAIN timeline = 1 .. Len(timeline)
  BY DEF EventInv, TypeInv, TypeOK
<1>2. timeline[i] \in 1 .. Len(signals) /\ timeline[j] \in 1 .. Len(signals)
  BY <1>1 DEF EventInv, TimelineOnce
<1>3. timeline[i] = timeline[j]
  BY <1>2 DEF EventInv, SignalsOnce
<1> QED BY <1>1, <1>3 DEF EventInv, TimelineOnce

-----------------------------------------------------------------------------

\* Processes that see one event or one failure act on it once: no event enters the
\* timeline twice while nobody dies, a rule gives away no more restarts than its
\* limit for each process and one, and no two of them in one cooldown.
THEOREM ActsOnce == Spec => []ActedOnOnce
<1>1. RestartInv /\ EventInv => ActedOnOnce
  BY RestartInvGives, EventInvGives DEF ActedOnOnce
<1> QED BY <1>1, InitRestart, NextRestart, InitEvents, NextEvents, PTL DEF Spec
-----------------------------------------------------------------------------
(* The queue: signals in the order of their rows                           *)

\* The cells of a table are numbered by rows.
LEMMA RowsInOrder ==
    ASSUME NEW m \in Nat, m > 0, NEW i \in Nat, NEW j \in Nat
    PROVE  /\ i <= j => i \div m <= j \div m
           /\ (i \div m = j \div m /\ i % m = j % m) => i = j
<1> DEFINE p == i \div m
           q == j \div m
           a == i % m
           b == j % m
<1>1. p \in Nat /\ q \in Nat /\ a \in 0 .. m - 1 /\ b \in 0 .. m - 1
  OBVIOUS
<1>2. i = p * m + a /\ j = q * m + b
  OBVIOUS
<1> HIDE DEF p, q, a, b
<1>3. ASSUME i <= j, p > q PROVE FALSE
  <2>1. p >= q + 1
    BY <1>1, <1>3
  <2>2. p * m >= (q + 1) * m
    BY <1>1, <2>1
  <2>3. (q + 1) * m = q * m + m
    BY <1>1
  <2>4. q * m \in Nat /\ p * m \in Nat
    BY <1>1
  <2> QED BY <1>1, <1>2, <1>3, <2>2, <2>3, <2>4
<1>4. i <= j => p <= q
  BY <1>1, <1>3
<1>5. (p = q /\ a = b) => i = j
  BY <1>2
<1> QED BY <1>4, <1>5 DEF p, q, a, b

\* No signal is queued twice for a destination, and those of a signal are together.
Unique(d) == \A i, j \in 1 .. Len(d) : (d[i].sig = d[j].sig /\ d[i].dest = d[j].dest) => i = j
Grouped(d) == \A i, j, k \in 1 .. Len(d) : (i <= j /\ j <= k /\ d[i].sig = d[k].sig) => d[j].sig = d[i].sig
Distinct(ns) == \A i, j \in 1 .. Len(ns) : ns[i] = ns[j] => i = j

LEMMA SetToSeqDistinct ==
    ASSUME NEW S, IsFiniteSet(S)
    PROVE  Distinct(SetToSeq(S))
<1>1. Cardinality(S) \in Nat
  BY FS_CardinalityType
<1>2. \E f \in [1 .. Cardinality(S) -> S] : IsInjective(f)
  BY FS_CardinalityType DEF ExistsBijection, Bijection, Injection
<1>3. SetToSeq(S) \in [1 .. Cardinality(S) -> S] /\ IsInjective(SetToSeq(S))
  BY <1>2 DEF SetToSeq
<1> HIDE DEF IsInjective
<1>4. DOMAIN SetToSeq(S) = 1 .. Cardinality(S) /\ Len(SetToSeq(S)) = Cardinality(S)
  BY <1>1, <1>3
<1> QED BY <1>3, <1>4 DEF Distinct, IsInjective

\* The deliveries queued for the signals ns
Added(new, ns, paid) ==
    /\ new \in Seq(Delivery) /\ Unique(new) /\ Grouped(new)
    /\ \A k \in 1 .. Len(new) :
          /\ \E i \in 1 .. Len(ns) : new[k].sig = ns[i]
          /\ new[k].status = "pending" /\ new[k].attempts = 0 /\ new[k].sig \in paid

LEMMA QueuedAre ==
    ASSUME NEW s \in State, NEW ns \in Seq(Nat), Distinct(ns)
    PROVE  /\ Enqueued(s, ns) \in State /\ s.payloads \subseteq Enqueued(s, ns).payloads
           /\ \E new : /\ Added(new, ns, Enqueued(s, ns).payloads)
                       /\ Enqueued(s, ns).deliveries = s.deliveries \o new
<1> DEFINE D == {d \in s.config.subs : s.config.dest[d] = "on"}
           ds == SetToSeq(D)
           m == Len(ds)
           new == [k \in 1 .. Len(ns) * m |->
                     [sig |-> ns[((k - 1) \div m) + 1], dest |-> ds[((k - 1) % m) + 1],
                      status |-> "pending", attempts |-> 0, due |-> TRUE]]
           paid == IF ds = <<>> THEN s.payloads ELSE s.payloads \cup ToSet(ns)
<1>1. s.config.subs \subseteq Dests
  BY StateIs DEF Config
<1>2. D \in SUBSET Dests /\ IsFiniteSet(D)
  BY <1>1, OperationsConstants, FS_Subset
<1>3. ds \in Seq(D) /\ Distinct(ds)
  BY <1>2, SetToSeqIs, SetToSeqDistinct
<1> HIDE DEF ds
<1>4. m \in Nat /\ Len(ns) \in Nat /\ Len(ns) * m \in Nat
  BY <1>3
<1>5. ASSUME NEW k \in 1 .. Len(ns) * m
      PROVE  /\ new[k] \in Delivery /\ m > 0 /\ k - 1 \in Nat
             /\ ((k - 1) \div m) + 1 \in 1 .. Len(ns) /\ ((k - 1) % m) + 1 \in 1 .. m
             /\ new[k].sig = ns[((k - 1) \div m) + 1] /\ new[k].dest = ds[((k - 1) % m) + 1]
             /\ new[k].status = "pending" /\ new[k].attempts = 0
  <2> DEFINE a == ((k - 1) \div m) + 1
             b == ((k - 1) % m) + 1
  <2>1. a \in 1 .. Len(ns) /\ b \in 1 .. m
    BY <1>4, Row
  <2>2. new[k] = [sig |-> ns[a], dest |-> ds[b], status |-> "pending", attempts |-> 0, due |-> TRUE]
    OBVIOUS
  <2>a. m > 0 /\ k - 1 \in Nat
    BY <2>1, <1>4
  <2> HIDE DEF a, b, new
  <2>3. ns[a] \in Nat /\ ds[b] \in Dests
    BY <2>1, <1>2, <1>3
  <2>4. new[k] \in Delivery
    BY <2>2, <2>3 DEF Delivery, Statuses
  <2>5. new[k].sig = ns[a] /\ new[k].dest = ds[b] /\ new[k].status = "pending" /\ new[k].attempts = 0
    BY <2>2
  <2> QED BY <2>1, <2>a, <2>4, <2>5 DEF a, b
<1>6. new \in Seq(Delivery) /\ Len(new) = Len(ns) * m
  <2>1. new = [k \in 1 .. Len(ns) * m |-> new[k]]
    OBVIOUS
  <2> HIDE DEF new, m
  <2>2. new \in [1 .. Len(ns) * m -> Delivery]
    BY <1>5, <2>1
  <2> QED BY <2>2, <1>4
<1>7. paid \in SUBSET Nat
  BY StateIs DEF ToSet
<1>8. Enqueued(s, ns) = [s EXCEPT !.deliveries = @ \o new, !.payloads = paid]
  BY DEF Enqueued, ds
<1>9. s.payloads \subseteq paid /\ \A i \in 1 .. Len(ns) : m > 0 => ns[i] \in paid
  <2>1. m > 0 => ds # <<>>
    BY <1>3
  <2>2. \A i \in 1 .. Len(ns) : ns[i] \in ToSet(ns)
    BY DEF ToSet
  <2> QED BY <2>1, <2>2
<1> HIDE DEF new, paid
<1>10. s.deliveries \o new \in Seq(Delivery)
  BY <1>6, StateIs
<1>11. /\ Enqueued(s, ns) \in State /\ Enqueued(s, ns).payloads = paid
       /\ Enqueued(s, ns).deliveries = s.deliveries \o new
  BY <1>7, <1>8, <1>10 DEF State
<1>12. Unique(new)
  <2> SUFFICES ASSUME NEW i \in 1 .. Len(ns) * m, NEW j \in 1 .. Len(ns) * m,
                      new[i].sig = new[j].sig, new[i].dest = new[j].dest
               PROVE  i = j
    BY <1>6 DEF Unique
  <2>1. (i - 1) \div m = (j - 1) \div m
    <3> DEFINE p == (i - 1) \div m
               q == (j - 1) \div m
    <3>1. p + 1 \in 1 .. Len(ns) /\ q + 1 \in 1 .. Len(ns) /\ ns[p + 1] = ns[q + 1]
      BY <1>5
    <3>2. p \in Int /\ q \in Int
      BY <1>5, <1>4
    <3> HIDE DEF p, q
    <3>3. p + 1 = q + 1
      BY <3>1 DEF Distinct
    <3>4. p = q
      BY <3>2, <3>3
    <3> QED BY <3>4 DEF p, q
  <2>2. (i - 1) % m = (j - 1) % m
    <3> DEFINE p == (i - 1) % m
               q == (j - 1) % m
    <3>1. p + 1 \in 1 .. Len(ds) /\ q + 1 \in 1 .. Len(ds) /\ ds[p + 1] = ds[q + 1]
      BY <1>5
    <3>2. p \in Int /\ q \in Int
      BY <1>5, <1>4
    <3> HIDE DEF p, q
    <3>3. p + 1 = q + 1
      BY <3>1, <1>3 DEF Distinct
    <3>4. p = q
      BY <3>2, <3>3
    <3> QED BY <3>4 DEF p, q
  <2>3. i - 1 \in Nat /\ j - 1 \in Nat /\ m > 0
    BY <1>5
  <2> HIDE DEF m
  <2>4. i - 1 = j - 1
    BY <2>1, <2>2, <2>3, <1>4, RowsInOrder
  <2> QED BY <2>4, <1>4
<1>13. Grouped(new)
  <2> SUFFICES ASSUME NEW i \in 1 .. Len(ns) * m, NEW j \in 1 .. Len(ns) * m, NEW k \in 1 .. Len(ns) * m,
                      i <= j, j <= k, new[i].sig = new[k].sig
               PROVE  new[j].sig = new[i].sig
    BY <1>6 DEF Grouped
  <2> DEFINE p == (i - 1) \div m
             q == (j - 1) \div m
             t == (k - 1) \div m
  <2>1. p + 1 \in 1 .. Len(ns) /\ q + 1 \in 1 .. Len(ns) /\ t + 1 \in 1 .. Len(ns) /\ ns[p + 1] = ns[t + 1]
    BY <1>5
  <2>2. p \in Int /\ q \in Int /\ t \in Int
    BY <1>5, <1>4
  <2>3. new[i].sig = ns[p + 1] /\ new[j].sig = ns[q + 1]
    BY <1>5
  <2>4. i - 1 \in Nat /\ j - 1 \in Nat /\ k - 1 \in Nat /\ m > 0 /\ i - 1 <= j - 1 /\ j - 1 <= k - 1
    BY <1>5, <1>4
  <2> HIDE DEF m
  <2>5. p <= q
    BY <2>4, <1>4, RowsInOrder
  <2>6. q <= t
    BY <2>4, <1>4, RowsInOrder
  <2> HIDE DEF p, q, t
  <2>7. p + 1 = t + 1
    BY <2>1 DEF Distinct
  <2>8. q = p
    BY <2>2, <2>5, <2>6, <2>7
  <2> QED BY <2>3, <2>8
<1>14. Added(new, ns, paid)
  <2>1. \A k \in 1 .. Len(ns) * m :
          /\ \E i \in 1 .. Len(ns) : new[k].sig = ns[i]
          /\ new[k].status = "pending" /\ new[k].attempts = 0 /\ new[k].sig \in paid
    BY <1>5, <1>9
  <2> HIDE DEF m
  <2> QED BY <2>1, <1>6, <1>12, <1>13 DEF Added
<1> QED BY <1>9, <1>11, <1>14

-----------------------------------------------------------------------------
(* A bounded queue                                                         *)

\* A queue that is in order: not too long, and with the payloads it needs
Queue(d, paid) ==
    /\ d \in Seq(Delivery) /\ Len(d) <= MaxHistory /\ Unique(d) /\ Grouped(d)
    /\ \A i \in 1 .. Len(d) : d[i].sig \notin paid => (d[i].sig = d[1].sig /\ Len(d) = MaxHistory)

LEMMA QueueJoined ==
    ASSUME NEW d \in Seq(Delivery), Unique(d), Grouped(d),
           NEW new \in Seq(Delivery), Unique(new), Grouped(new),
           \A i \in 1 .. Len(d), j \in 1 .. Len(new) : d[i].sig # new[j].sig
    PROVE  Unique(d \o new) /\ Grouped(d \o new)
<1> DEFINE e == d \o new
           l == Len(d)
<1>1. e \in Seq(Delivery) /\ Len(e) = l + Len(new) /\ l \in Nat /\ Len(new) \in Nat
  BY Joined
<1>2. \A k \in 1 .. l : e[k] = d[k]
  BY Joined
<1>3. \A k \in 1 .. Len(new) : e[l + k] = new[k]
  BY Joined
<1> HIDE DEF e
<1>4. ASSUME NEW k \in 1 .. Len(e), k > l
      PROVE  k - l \in 1 .. Len(new) /\ e[k] = new[k - l]
  <2>1. k - l \in 1 .. Len(new) /\ l + (k - l) = k
    BY <1>1, <1>4
  <2> QED BY <2>1, <1>3
<1>5. \A i \in 1 .. l, j \in 1 .. Len(new) : e[i].sig # e[l + j].sig
  BY <1>2, <1>3
<1>6. Unique(e)
  <2> SUFFICES ASSUME NEW i \in 1 .. Len(e), NEW j \in 1 .. Len(e), e[i].sig = e[j].sig, e[i].dest = e[j].dest
               PROVE  i = j
    BY DEF Unique
  <2>0. i \in Nat /\ j \in Nat
    BY <1>1
  <2>1. CASE i <= l /\ j <= l
    <3>1. i \in 1 .. l /\ j \in 1 .. l
      BY <1>1, <2>1
    <3> QED BY <3>1, <1>2 DEF Unique
  <2>2. CASE i > l /\ j > l
    <3>1. i - l \in 1 .. Len(new) /\ j - l \in 1 .. Len(new) /\ e[i] = new[i - l] /\ e[j] = new[j - l]
      BY <1>4, <2>2
    <3>2. i - l = j - l
      BY <3>1 DEF Unique
    <3> QED BY <3>2, <1>1
  <2>3. CASE i <= l /\ j > l
    <3>1. i \in 1 .. l /\ e[i] = d[i] /\ j - l \in 1 .. Len(new) /\ e[j] = new[j - l]
      BY <1>1, <1>2, <1>4, <2>3
    <3> QED BY <3>1
  <2>4. CASE i > l /\ j <= l
    <3>1. j \in 1 .. l /\ e[j] = d[j] /\ i - l \in 1 .. Len(new) /\ e[i] = new[i - l]
      BY <1>1, <1>2, <1>4, <2>4
    <3> QED BY <3>1
  <2> QED BY <1>1, <2>0, <2>1, <2>2, <2>3, <2>4
<1>7. Grouped(e)
  <2> SUFFICES ASSUME NEW i \in 1 .. Len(e), NEW j \in 1 .. Len(e), NEW k \in 1 .. Len(e),
                      i <= j, j <= k, e[i].sig = e[k].sig
               PROVE  e[j].sig = e[i].sig
    BY DEF Grouped
  <2>0. i \in Nat /\ j \in Nat /\ k \in Nat
    BY <1>1
  <2>1. CASE k <= l
    <3>1. i \in 1 .. l /\ j \in 1 .. l /\ k \in 1 .. l
      BY <1>1, <2>1
    <3> QED BY <3>1, <1>2 DEF Grouped
  <2>2. CASE i > l
    <3>1. /\ i - l \in 1 .. Len(new) /\ e[i] = new[i - l] /\ j - l \in 1 .. Len(new) /\ e[j] = new[j - l]
          /\ k - l \in 1 .. Len(new) /\ e[k] = new[k - l]
      BY <1>1, <1>4, <2>2
    <3>2. i - l <= j - l /\ j - l <= k - l
      BY <1>1
    <3>3. new[i - l].sig = new[k - l].sig
      BY <3>1
    <3>4. new[j - l].sig = new[i - l].sig
      BY <3>1, <3>2, <3>3 DEF Grouped
    <3> QED BY <3>1, <3>4
  <2>3. CASE i <= l /\ k > l
    <3>1. i \in 1 .. l /\ e[i] = d[i]
      BY <1>1, <1>2, <2>3
    <3>2. k - l \in 1 .. Len(new) /\ e[k] = new[k - l]
      BY <1>4, <2>3
    <3>3. e[i].sig # e[k].sig
      BY <3>1, <3>2
    <3> QED BY <3>3
  <2> QED BY <1>1, <2>0, <2>1, <2>2, <2>3
<1> QED BY <1>6, <1>7 DEF e

LEMMA QueueCut ==
    ASSUME NEW e \in Seq(Delivery), NEW c \in 0 .. Len(e), Unique(e), Grouped(e),
           NEW f, f = SubSeq(e, c + 1, Len(e))
    PROVE  /\ f \in Seq(Delivery) /\ Len(f) = Len(e) - c
           /\ \A i \in 1 .. Len(f) : i + c \in 1 .. Len(e) /\ f[i] = e[i + c]
           /\ Unique(f) /\ Grouped(f)
<1>0. Len(e) \in Nat /\ c \in Nat
  OBVIOUS
<1>1. f \in Seq(Delivery)
  <2>1. \A i \in c + 1 .. Len(e) : e[i] \in Delivery
    OBVIOUS
  <2> QED BY <2>1, <1>0
<1>2. Len(f) = Len(e) - c
  BY <1>0
<1>3. \A i \in 1 .. Len(f) : i + c \in 1 .. Len(e) /\ f[i] = e[i + c]
  BY <1>0, <1>2
<1>4. Unique(f)
  <2> SUFFICES ASSUME NEW i \in 1 .. Len(f), NEW j \in 1 .. Len(f), f[i].sig = f[j].sig, f[i].dest = f[j].dest
               PROVE  i = j
    BY DEF Unique
  <2>1. i + c = j + c
    BY <1>3 DEF Unique
  <2> QED BY <2>1, <1>0, <1>2
<1>5. Grouped(f)
  <2> SUFFICES ASSUME NEW i \in 1 .. Len(f), NEW j \in 1 .. Len(f), NEW k \in 1 .. Len(f),
                      i <= j, j <= k, f[i].sig = f[k].sig
               PROVE  f[j].sig = f[i].sig
    BY DEF Grouped
  <2>1. i + c <= j + c /\ j + c <= k + c
    BY <1>0, <1>2
  <2>2. /\ i + c \in 1 .. Len(e) /\ j + c \in 1 .. Len(e) /\ k + c \in 1 .. Len(e)
        /\ f[i] = e[i + c] /\ f[j] = e[j + c] /\ f[k] = e[k + c]
    BY <1>3
  <2>3. e[j + c].sig = e[i + c].sig
    BY <2>1, <2>2 DEF Grouped
  <2> QED BY <2>2, <2>3
<1> QED BY <1>1, <1>2, <1>3, <1>4, <1>5

\* What is left of a queue and of its payloads without its first c deliveries
Youngest(e, c) == SubSeq(e, c + 1, Len(e))
Needed(paid, e, c) == paid \ {e[i].sig : i \in 1 .. c}

\* A queue whose payloads are there loses its oldest deliveries.
LEMMA QueueShortened ==
    ASSUME NEW e \in Seq(Delivery), Unique(e), Grouped(e), NEW more, NEW l \in Nat, l <= Len(e),
           \A k \in 1 .. Len(e) : e[k].sig \notin more =>
               (k \in 1 .. l /\ e[k].sig = e[1].sig /\ l = MaxHistory),
           NEW c, c = (IF Len(e) > MaxHistory THEN Len(e) - MaxHistory ELSE 0)
    PROVE  Queue(Youngest(e, c), Needed(more, e, c))
<1> DEFINE f == SubSeq(e, c + 1, Len(e))
           left == more \ {e[i].sig : i \in 1 .. c}
<1>1. Len(e) \in Nat /\ MaxHistory \in Nat
  BY OperationsConstants
<1>2. c \in 0 .. Len(e) /\ Len(e) - c <= MaxHistory /\ (c > 0 => Len(e) - c = MaxHistory)
  BY <1>1
<1>4. \A x : x \notin left => (x \notin more \/ \E j \in 1 .. c : x = e[j].sig)
  OBVIOUS
<1>a. f = SubSeq(e, c + 1, Len(e))
  OBVIOUS
<1> HIDE DEF f, left
<1>3. /\ f \in Seq(Delivery) /\ Len(f) = Len(e) - c
      /\ \A i \in 1 .. Len(f) : i + c \in 1 .. Len(e) /\ f[i] = e[i + c]
      /\ Unique(f) /\ Grouped(f)
  <2>1. e \in Seq(Delivery) /\ Unique(e) /\ Grouped(e)
    OBVIOUS
  <2>2. c \in 0 .. Len(e)
    BY <1>2
  <2> QED BY ONLY <2>1, <2>2, <1>a, QueueCut
<1>5. ASSUME NEW i \in 1 .. Len(f), f[i].sig \notin left
      PROVE  f[i].sig = f[1].sig /\ Len(f) = MaxHistory
  <2>1. i \in Nat /\ i + c \in 1 .. Len(e) /\ f[i] = e[i + c] /\ c \in Nat
    BY <1>1, <1>2, <1>3
  <2>2. 1 \in 1 .. Len(f)
    BY <1>1, <1>2, <1>3
  <2>3. f[1] = e[1 + c] /\ 1 + c \in 1 .. Len(e)
    BY <1>3, <2>2
  <2> DEFINE p == i + c
  <2>4. p \in 1 .. Len(e) /\ f[i] = e[p] /\ p >= 1 + c
    BY <1>1, <2>1
  <2> HIDE DEF p
  <2>5. e[p].sig \notin more \/ \E j \in 1 .. c : e[p].sig = e[j].sig
    BY <1>4, <1>5, <2>4
  <2>6. CASE c = 0
    <3>1. e[p].sig \notin more
      BY <2>5, <2>6
    <3>2. e[p].sig = e[1].sig /\ l = MaxHistory
      BY <2>4, <3>1
    <3>3. Len(f) = MaxHistory
      BY <1>1, <1>2, <1>3, <2>6, <3>2
    <3> QED BY <2>3, <2>4, <2>6, <3>2, <3>3
  <2>7. CASE c > 0
    <3>1. PICK j \in 1 .. c : e[p].sig = e[j].sig
      <4>1. CASE e[p].sig \notin more
        <5>1. e[p].sig = e[1].sig /\ 1 \in 1 .. c
          BY <2>1, <2>4, <2>7, <4>1
        <5> QED BY <5>1
      <4> QED BY <4>1, <2>5
    <3>2. j \in 1 .. Len(e) /\ j <= 1 + c /\ 1 + c <= p
      BY <2>1, <2>4, <1>1, <1>2
    <3>3. e[1 + c].sig = e[j].sig
      BY <2>3, <2>4, <3>1, <3>2 DEF Grouped
    <3>4. Len(f) = MaxHistory
      BY <1>2, <1>3, <2>7
    <3> QED BY <2>3, <2>4, <3>1, <3>3, <3>4
  <2> QED BY <2>1, <2>6, <2>7
<1>6. Len(f) <= MaxHistory
  BY <1>2, <1>3
<1>7. Queue(f, left)
  BY <1>3, <1>5, <1>6 DEF Queue
<1> QED BY <1>7 DEF f, left, Youngest, Needed

\* Where a delivery of a queue comes from that gained new ones and lost its oldest
Gained(d, new, f) ==
    \A i \in 1 .. Len(f) : (\E h \in 1 .. Len(d) : f[i] = d[h]) \/ (\E h \in 1 .. Len(new) : f[i] = new[h])

LEMMA QueueGains ==
    ASSUME NEW d, NEW paid, Queue(d, paid),
           NEW new, NEW ns \in Seq(Nat), NEW more, Added(new, ns, more), paid \subseteq more,
           \A i \in 1 .. Len(d), j \in 1 .. Len(new) : d[i].sig # new[j].sig,
           NEW c, c = (IF Len(d \o new) > MaxHistory THEN Len(d \o new) - MaxHistory ELSE 0)
    PROVE  /\ Queue(Youngest(d \o new, c), Needed(more, d \o new, c))
           /\ Gained(d, new, Youngest(d \o new, c))
<1> DEFINE e == d \o new
           l == Len(d)
           f == SubSeq(e, c + 1, Len(e))
<1>0. d \in Seq(Delivery) /\ new \in Seq(Delivery) /\ Unique(d) /\ Grouped(d) /\ Unique(new) /\ Grouped(new)
  BY DEF Queue, Added
<1>1. e \in Seq(Delivery) /\ Len(e) = l + Len(new) /\ l \in Nat /\ Len(new) \in Nat
  BY <1>0, Joined
<1>2. \A k \in 1 .. l : e[k] = d[k]
  BY <1>0, Joined
<1>3. \A k \in 1 .. Len(new) : e[l + k] = new[k]
  BY <1>0, Joined
<1>4. Unique(e) /\ Grouped(e)
  BY <1>0, QueueJoined
<1>5. c = (IF Len(e) > MaxHistory THEN Len(e) - MaxHistory ELSE 0)
  OBVIOUS
<1> HIDE DEF e
<1>a. MaxHistory \in Nat
  BY OperationsConstants
<1>6. c \in 0 .. Len(e)
  BY <1>1, <1>5, <1>a
<1>7. /\ f \in Seq(Delivery) /\ Len(f) = Len(e) - c
      /\ \A i \in 1 .. Len(f) : i + c \in 1 .. Len(e) /\ f[i] = e[i + c]
  <2>1. f = SubSeq(e, c + 1, Len(e))
    OBVIOUS
  <2> HIDE DEF f
  <2> QED BY ONLY <1>1, <1>4, <1>6, <2>1, QueueCut
<1>8. ASSUME NEW k \in 1 .. Len(e)
      PROVE  \/ k \in 1 .. l /\ e[k] = d[k]
             \/ k - l \in 1 .. Len(new) /\ e[k] = new[k - l]
  <2>1. CASE k <= l
    BY <2>1, <1>1, <1>2
  <2>2. CASE k > l
    <3>1. k - l \in 1 .. Len(new) /\ l + (k - l) = k
      BY <1>1, <2>2
    <3> QED BY <3>1, <1>3
  <2> QED BY <2>1, <2>2, <1>1
<1>9. Gained(d, new, f)
  <2> HIDE DEF f
  <2> SUFFICES ASSUME NEW i \in 1 .. Len(f)
               PROVE  (\E h \in 1 .. Len(d) : f[i] = d[h]) \/ (\E h \in 1 .. Len(new) : f[i] = new[h])
    BY DEF Gained
  <2> DEFINE p == i + c
  <2>1. p \in 1 .. Len(e) /\ f[i] = e[p]
    BY <1>7
  <2> HIDE DEF p
  <2> QED BY <2>1, <1>8
<1>10. ASSUME NEW k \in 1 .. Len(e), e[k].sig \notin more
       PROVE  k \in 1 .. l /\ e[k].sig = e[1].sig /\ l = MaxHistory
  <2>1. \A h \in 1 .. Len(new) : new[h].sig \in more
    BY DEF Added
  <2>2. k \in 1 .. l /\ e[k] = d[k]
    BY <1>8, <1>10, <2>1
  <2>3. d[k].sig \notin paid
    BY <1>10, <2>2
  <2>4. d[k].sig = d[1].sig /\ l = MaxHistory
    BY <2>2, <2>3 DEF Queue
  <2>5. 1 \in 1 .. l
    BY <2>2, <1>1
  <2> QED BY <2>2, <2>4, <2>5, <1>2
<1>11. l <= Len(e)
  BY <1>1
<1>12. Queue(Youngest(e, c), Needed(more, e, c))
  BY <1>1, <1>4, <1>5, <1>10, <1>11, QueueShortened
<1> QED BY <1>9, <1>12 DEF e, Youngest

-----------------------------------------------------------------------------
(* What the steps of a process do to the queue                             *)

\* A queue of no more than MaxHistory deliveries is saved as it is.
LEMMA SavedQueue ==
    ASSUME state \in State, Len(state.deliveries) <= MaxHistory, NEW s \in State, SaveState(s),
           NEW c, c = (IF Len(s.deliveries) > MaxHistory THEN Len(s.deliveries) - MaxHistory ELSE 0)
    PROVE  /\ state'.deliveries = SubSeq(s.deliveries, c + 1, Len(s.deliveries))
           /\ state'.payloads = s.payloads \ {s.deliveries[i].sig : i \in 1 .. c}
<1>1. CASE s # state
  <2>1. state' = Bounded(s)
    BY <1>1 DEF SaveState
  <2> QED BY <2>1, BoundedIs
<1>2. CASE s = state
  <2>1. state' = s /\ s.deliveries \in Seq(Delivery)
    BY <1>2, StateIs DEF SaveState
  <2>2. c = 0 /\ Len(s.deliveries) \in Nat
    BY <1>2, <2>1, OperationsConstants
  <2>3. 1 .. c = {}
    BY <2>2
  <2>4. SubSeq(s.deliveries, 1, Len(s.deliveries)) = s.deliveries
    BY <2>1
  <2> QED BY <2>1, <2>2, <2>3, <2>4
<1> QED BY <1>1, <1>2

LEMMA SavedWhole ==
    ASSUME state \in State, Len(state.deliveries) <= MaxHistory, NEW s \in State, SaveState(s),
           Len(s.deliveries) <= MaxHistory
    PROVE  state'.deliveries = s.deliveries /\ state'.payloads = s.payloads
<1> DEFINE c == IF Len(s.deliveries) > MaxHistory THEN Len(s.deliveries) - MaxHistory ELSE 0
<1>1. s.deliveries \in Seq(Delivery) /\ Len(s.deliveries) \in Nat /\ MaxHistory \in Nat
  BY StateIs, OperationsConstants
<1>2. c = 0
  BY <1>1
<1>3. /\ state'.deliveries = SubSeq(s.deliveries, c + 1, Len(s.deliveries))
      /\ state'.payloads = s.payloads \ {s.deliveries[i].sig : i \in 1 .. c}
  <2> HIDE DEF c
  <2> QED BY SavedQueue DEF c
<1>4. 1 .. c = {}
  BY <1>2
<1>5. SubSeq(s.deliveries, 1, Len(s.deliveries)) = s.deliveries
  BY <1>1
<1> QED BY <1>2, <1>3, <1>4, <1>5

KeepsQueue == state'.deliveries = state.deliveries /\ state'.payloads = state.payloads
IsFull == Len(state.deliveries) <= MaxHistory

\* The signals a step queues
ToQueue(step) == IF step.op = "enqueue" THEN <<step.n>> ELSE step.new

\* What the steps of a process do to the queue
Rests(r) ==
    HeadOp(r) \notin {"enqueue", "endCapture", "record"} /\ KeepsQueue /\ posts' = posts
Queues(r) ==
    /\ HeadOp(r) \in {"enqueue", "endCapture"} /\ posts' = posts
    /\ \E t \in State : /\ t.deliveries = state.deliveries /\ t.payloads = state.payloads
                        /\ SaveState(Enqueued(t, ToQueue(Head(todo[r]))))
Settles(r) ==
    /\ HeadOp(r) = "record" /\ posts' = posts /\ state'.payloads = state.payloads
    /\ \/ Matching(Head(todo[r])) = {} /\ state'.deliveries = state.deliveries
       \/ \E i \in Matching(Head(todo[r])) :
             state'.deliveries = [state.deliveries EXCEPT ![i] = Attempted(state.deliveries[i], Head(todo[r]).ok)]
Posted(id) ==
    posts' = [i \in DOMAIN posts \cup {id} |->
                 IF i # id THEN posts[i] ELSE IF i \in DOMAIN posts THEN posts[i] + 1 ELSE 1]
Records(step, ok) == [op |-> "record", sig |-> step.sig, dest |-> step.dest, ok |-> ok]
Posts(r) ==
    /\ HeadOp(r) = "deliver" /\ KeepsQueue /\ Matching(Head(todo[r])) # {}
    /\ Posted(<<Head(todo[r]).sig, Head(todo[r]).dest>>)
    /\ \E ok \in BOOLEAN : todo'[r] # <<>> /\ todo'[r][1] = Records(Head(todo[r]), ok)

LEMMA Restful ==
    ASSUME state' = state PROVE KeepsQueue
BY DEF KeepsQueue

LEMMA SavesRest ==
    ASSUME state \in State, IsFull, NEW s \in State, s.deliveries = state.deliveries, s.payloads = state.payloads,
           SaveState(s)
    PROVE  KeepsQueue
BY SavedWhole DEF KeepsQueue, IsFull

LEMMA StepEffects ==
    ASSUME TypeOK, IsFull, NEW r \in Runners, Step(r)
    PROVE  /\ todo[r] # <<>>
           /\ Rests(r) \/ Queues(r) \/ Settles(r) \/ Posts(r)
<1>0. state \in State /\ ToDo
  BY TypesGive DEF TypeOK
<1>h. todo[r] # <<>> => Head(todo[r]) \in Steps
  BY <1>0, HeadIs
<1>1. CASE ListEvents(r) \/ BeginCapture(r) \/ AppendTimeline(r) \/ Gather(r) \/ ApplyMatchingRules(r)
           \/ RestartService(r) \/ DeliverDue(r)
  <2>1. state' = state /\ posts' = posts
    BY <1>1 DEF ListEvents, BeginCapture, AppendTimeline, Gather, ApplyMatchingRules, RestartService, DeliverDue, history
  <2>2. todo[r] # <<>> /\ HeadOp(r) \notin {"enqueue", "endCapture", "record"}
    BY <1>1 DEF ListEvents, BeginCapture, AppendTimeline, Gather, ApplyMatchingRules, RestartService, DeliverDue, At, HeadOp
  <2> QED BY <2>1, <2>2, Restful DEF Rests
<1>2. CASE ReserveSample(r)
  <2> DEFINE s == [state EXCEPT !.sampled = TRUE]
  <2>1. s \in State /\ s.deliveries = state.deliveries /\ s.payloads = state.payloads
    BY <1>0 DEF State
  <2>2. state' = state \/ SaveState(s)
    BY <1>2 DEF ReserveSample
  <2>3. todo[r] # <<>> /\ HeadOp(r) = "sample" /\ posts' = posts
    BY <1>2 DEF ReserveSample, At, HeadOp, history
  <2> HIDE DEF s
  <2>4. KeepsQueue
    BY <1>0, <2>1, <2>2, Restful, SavesRest
  <2> QED BY <2>3, <2>4 DEF Rests
<1>3. CASE MarkKernel(r)
  <2> DEFINE m == Max({state.lastKernel, Head(todo[r]).n})
             s == [state EXCEPT !.lastKernel = m]
  <2>1. todo[r] # <<>> /\ HeadOp(r) = "mark" /\ posts' = posts
    BY <1>3 DEF MarkKernel, At, HeadOp, history
  <2>2. Head(todo[r]).n \in Nat /\ state.lastKernel \in Nat
    BY <1>0, <1>h, <2>1, FieldsAre, StateIs DEF HeadOp
  <2>3. m \in Nat
    <3> DEFINE a == state.lastKernel
               b == Head(todo[r]).n
               S == {a} \cup {b}
    <3>1. IsFiniteSet(S)
      BY FS_Singleton, FS_Union
    <3>2. S = {state.lastKernel, Head(todo[r]).n} /\ S # {} /\ S \in SUBSET Nat
      BY <2>2
    <3> QED BY <3>1, <3>2, MaxIs
  <2>4. SaveState(s)
    BY <1>3 DEF MarkKernel
  <2> HIDE DEF m
  <2>5. s \in State /\ s.deliveries = state.deliveries /\ s.payloads = state.payloads
    BY <1>0, <2>3 DEF State
  <2> HIDE DEF s
  <2>6. KeepsQueue
    BY <1>0, <2>4, <2>5, SavesRest
  <2> QED BY <2>1, <2>6 DEF Rests
<1>4. CASE ResetAttempts(r) \/ ReserveAttempt(r)
  <2>1. todo[r] # <<>> /\ HeadOp(r) \in {"verified", "reserve"} /\ posts' = posts
    BY <1>4 DEF ResetAttempts, ReserveAttempt, At, HeadOp, history
  <2>2. state' = state \/ \E c \in Config : SaveState([state EXCEPT !.config = c])
    <3>0. state.config \in Config /\ state.config.rule.attempts \in Nat
      BY <1>0, StateIs, ConfigIs
    <3>1. CASE ResetAttempts(r)
      <4> DEFINE c == [state.config EXCEPT !.rule.attempts = 0]
      <4>1. c \in Config
        BY <3>0 DEF Config, Rule
      <4>2. SaveState([state EXCEPT !.config.rule.attempts = 0])
        BY <3>1 DEF ResetAttempts
      <4>3. [state EXCEPT !.config.rule.attempts = 0] = [state EXCEPT !.config = c]
        BY <1>0 DEF State
      <4> QED BY <4>1, <4>2, <4>3
    <3>2. CASE ReserveAttempt(r)
      <4> DEFINE c == [state.config EXCEPT !.rule.attempts = @ + 1, !.rule.cooling = TRUE]
      <4>1. c \in Config
        <5> DEFINE u == [state.config.rule EXCEPT !.attempts = @ + 1, !.cooling = TRUE]
        <5>0. state.config.rule \in Rule /\ state.config.rule.attempts + 1 \in Nat
          BY <3>0, ConfigIs
        <5>1. u \in Rule
          BY <5>0 DEF Rule
        <5>2. c = [state.config EXCEPT !.rule = u]
          BY <3>0 DEF Config
        <5> HIDE DEF u
        <5> QED BY <3>0, <5>1, <5>2 DEF Config
      <4>2. state' = state \/ SaveState([state EXCEPT !.config.rule.attempts = @ + 1, !.config.rule.cooling = TRUE])
        BY <3>2 DEF ReserveAttempt
      <4>3. [state EXCEPT !.config.rule.attempts = @ + 1, !.config.rule.cooling = TRUE] = [state EXCEPT !.config = c]
        BY <1>0 DEF State
      <4> QED BY <4>1, <4>2, <4>3
    <3> QED BY <1>4, <3>1, <3>2
  <2>3. ASSUME NEW c \in Config, SaveState([state EXCEPT !.config = c]) PROVE KeepsQueue
    <3> DEFINE s == [state EXCEPT !.config = c]
    <3>1. s \in State /\ s.deliveries = state.deliveries /\ s.payloads = state.payloads
      BY <1>0 DEF State
    <3>2. SaveState(s)
      BY <2>3
    <3> HIDE DEF s
    <3> QED BY <1>0, <3>1, <3>2, SavesRest
  <2>4. KeepsQueue
    BY <2>2, <2>3, Restful
  <2> QED BY <2>1, <2>4 DEF Rests
<1>5. CASE EnqueueSubscriptions(r)
  <2>1. todo[r] # <<>> /\ HeadOp(r) = "enqueue" /\ posts' = posts
    BY <1>5 DEF EnqueueSubscriptions, At, HeadOp, history
  <2>2. SaveState(Enqueued(state, ToQueue(Head(todo[r]))))
    BY <1>5, <2>1 DEF EnqueueSubscriptions, ToQueue, HeadOp
  <2> QED BY <1>0, <2>1, <2>2 DEF Queues
<1>6. CASE EndCapture(r)
  <2> DEFINE t == [state EXCEPT !.lastEvent = Head(todo[r]).last]
  <2>1. todo[r] # <<>> /\ HeadOp(r) = "endCapture" /\ posts' = posts
    BY <1>6 DEF EndCapture, At, HeadOp, history
  <2>2. SaveState(Enqueued(t, ToQueue(Head(todo[r]))))
    BY <1>6, <2>1 DEF EndCapture, ToQueue, HeadOp
  <2>3. Head(todo[r]).last \in Nat
    BY <1>h, <2>1, FieldsAre DEF HeadOp
  <2>4. t \in State /\ t.deliveries = state.deliveries /\ t.payloads = state.payloads
    BY <1>0, <2>3 DEF State
  <2> HIDE DEF t
  <2> QED BY <2>1, <2>2, <2>4 DEF Queues
<1>7. CASE Deliver(r)
  <2> DEFINE step == Head(todo[r])
             id == <<step.sig, step.dest>>
  <2>1. todo[r] # <<>> /\ HeadOp(r) = "deliver" /\ state' = state
    BY <1>7 DEF Deliver, At, HeadOp
  <2>2. CASE ~Deliverable(step)
    <3>1. posts' = posts
      BY <1>7, <2>2 DEF Deliver
    <3> QED BY <2>1, <3>1, Restful DEF Rests
  <2>3. CASE Deliverable(step)
    <3>1. Posted(id)
      BY <1>7, <2>3 DEF Deliver, Posted
    <3>2. PICK ok \in BOOLEAN : Goes(r, <<Records(step, ok)>>)
      BY <1>7, <2>3 DEF Deliver, Records
    <3>3. Matching(step) # {}
      BY <2>3 DEF Deliverable
    <3> DEFINE e == Records(step, ok)
    <3>4. e \in Steps
      BY <1>h, <2>1, FieldsAre, StepsAre DEF HeadOp, Records
    <3>5. Goes(r, <<e>>)
      BY <3>2
    <3> HIDE DEF e
    <3>6. <<e>> \in Seq(Steps) /\ Len(<<e>>) = 1 /\ <<e>>[1] = e
      BY <3>4
    <3>7. todo'[r] = <<e>> \o Tail(todo[r])
      BY <1>0, <2>1, <3>5, <3>6, GoesIs
    <3>8. todo[r] \in Seq(Steps)
      BY <1>0, <2>1, HeadIs
    <3>9. todo'[r] # <<>> /\ todo'[r][1] = e
      BY <3>4, <3>7, <3>8, <2>1
    <3> QED BY <2>1, <3>1, <3>3, <3>9, Restful DEF Posts, e
  <2> QED BY <2>2, <2>3
<1>8. CASE RecordDeliveryResult(r)
  <2> DEFINE step == Head(todo[r])
             i == Min(Matching(step))
             s == [state EXCEPT !.deliveries[i] = Attempted(@, step.ok)]
  <2>1. todo[r] # <<>> /\ HeadOp(r) = "record" /\ posts' = posts
    BY <1>8 DEF RecordDeliveryResult, At, HeadOp, history
  <2>2. CASE Matching(step) = {}
    <3>1. state' = state
      BY <1>8, <2>2 DEF RecordDeliveryResult
    <3> QED BY <2>1, <2>2, <3>1 DEF Settles
  <2>3. CASE Matching(step) # {}
    <3>1. SaveState(s)
      BY <1>8, <2>3 DEF RecordDeliveryResult
    <3>2. step.ok \in BOOLEAN
      BY <1>h, <2>1, FieldsAre DEF HeadOp
    <3> HIDE DEF step
    <3>3. state.deliveries \in Seq(Delivery)
      BY <1>0, StateIs
    <3>4. Matching(step) \in SUBSET (1 .. Len(state.deliveries)) /\ Len(state.deliveries) \in Nat
      BY <3>3 DEF Matching
    <3>5. IsFiniteSet(Matching(step)) /\ Matching(step) \in SUBSET Nat
      <4>1. IsFiniteSet(1 .. Len(state.deliveries))
        BY <3>4, FS_Interval
      <4> QED BY <4>1, <3>4, FS_Subset
    <3>6. i \in Matching(step)
      BY <2>3, <3>5, MinIs
    <3> HIDE DEF i
    <3>7. i \in 1 .. Len(state.deliveries)
      BY <3>4, <3>6
    <3>8. Attempted(state.deliveries[i], step.ok) \in Delivery
      BY <3>3, <3>7, <3>2, AttemptedIs
    <3> DEFINE d == [state.deliveries EXCEPT ![i] = Attempted(state.deliveries[i], step.ok)]
    <3>10. d \in Seq(Delivery) /\ Len(d) = Len(state.deliveries)
      BY <3>3, <3>7, <3>8
    <3>a. s = [state EXCEPT !.deliveries = d]
      BY <1>0 DEF State
    <3> HIDE DEF d, s
    <3>11. s \in State /\ s.deliveries = d /\ s.payloads = state.payloads
      BY <1>0, <3>10, <3>a DEF State
    <3>12. state'.deliveries = d /\ state'.payloads = state.payloads
      BY <1>0, <3>1, <3>10, <3>11, SavedWhole DEF IsFull
    <3> QED BY <2>1, <3>6, <3>12 DEF Settles, d, step
  <2> QED BY <2>2, <2>3
<1> QED BY <1>1, <1>2, <1>3, <1>4, <1>5, <1>6, <1>7, <1>8 DEF Step

-----------------------------------------------------------------------------
(* Each signal is queued by one step, each delivery sent by one.           *)

\* The signals a step queues or hands on to one that does, and the deliveries it sends
Queuing == [s \in Steps |-> IF s.op \in {"signal", "enqueue"} THEN {s.n}
                            ELSE IF s.op = "endCapture" THEN {s.new[i] : i \in 1 .. Len(s.new)} ELSE {}]
Posting == [s \in Steps |-> IF s.op = "due" THEN Nat \X Dests
                            ELSE IF s.op \in {"deliver", "record"} THEN {<<s.sig, s.dest>>} ELSE {}]

\* No two steps left to do claim the same by f.
Once(f) ==
    \A q, p \in Runners : \A k \in 1 .. Len(todo[q]), j \in 1 .. Len(todo[p]) : \A x :
        (x \in f[todo[q][k]] /\ x \in f[todo[p][j]]) => (q = p /\ k = j)

\* What the steps a claim was not claimed but by the step they follow.
Claims(f, r, a) ==
    /\ \A k \in 1 .. Len(a) : \A x \in f[a[k]] :
          \A q \in Runners : \A j \in 1 .. Len(todo[q]) : x \in f[todo[q][j]] => (q = r /\ j = 1)
    /\ \A k, j \in 1 .. Len(a) : \A x : (x \in f[a[k]] /\ x \in f[a[j]]) => k = j

LEMMA OnceKept ==
    ASSUME TypeOK, NEW r \in Runners, NEW a, Follows(r, a), NEW f, Once(f), Claims(f, r, a)
    PROVE  Once(f)'
<1> DEFINE src(q, k) == Source(r, a, q, k)
           fresh(q, k) == ~Old(r, a, q, k)
<1>1. ASSUME NEW q \in Runners, NEW k \in 1 .. Len(todo'[q])
      PROVE  /\ fresh(q, k) => q = r /\ k \in 1 .. Len(a) /\ todo'[q][k] = a[k]
             /\ ~fresh(q, k) => /\ src(q, k) \in 1 .. Len(todo[q])
                                /\ todo'[q][k] = todo[q][src(q, k)]
                                /\ q = r => src(q, k) # 1
  BY Origin
<1>2. a \in Seq(Steps) /\ \A q \in Runners : Len(todo'[q]) \in Nat
  BY LengthsAre DEF Follows, ToDo
<1> HIDE DEF src, fresh
<1>3. ASSUME NEW q \in Runners, NEW p \in Runners, NEW k \in 1 .. Len(todo'[q]), NEW j \in 1 .. Len(todo'[p]),
             NEW x, x \in f[todo'[q][k]], x \in f[todo'[p][j]]
      PROVE  q = p /\ k = j
  <2>1. CASE fresh(q, k) /\ fresh(p, j)
    <3>1. /\ q = r /\ k \in 1 .. Len(a) /\ x \in f[a[k]]
          /\ p = r /\ j \in 1 .. Len(a) /\ x \in f[a[j]]
      BY <1>1, <1>3, <2>1
    <3> QED BY <3>1 DEF Claims
  <2>2. CASE ~fresh(q, k) /\ ~fresh(p, j)
    <3>1. /\ src(q, k) \in 1 .. Len(todo[q]) /\ x \in f[todo[q][src(q, k)]]
          /\ src(p, j) \in 1 .. Len(todo[p]) /\ x \in f[todo[p][src(p, j)]]
      BY <1>1, <1>3, <2>2
    <3>2. q = p /\ src(q, k) = src(p, j)
      BY <3>1 DEF Once
    <3>3. k \in Nat /\ j \in Nat
      BY <1>2
    <3>4. Source(r, a, q, k) = Source(r, a, q, j)
      BY <3>2 DEF src
    <3> QED BY <1>2, <3>2, <3>3, <3>4, Origins
  <2>3. CASE fresh(q, k) /\ ~fresh(p, j)
    <3>1. /\ q = r /\ k \in 1 .. Len(a) /\ x \in f[a[k]]
          /\ src(p, j) \in 1 .. Len(todo[p]) /\ x \in f[todo[p][src(p, j)]] /\ (p = r => src(p, j) # 1)
      BY <1>1, <1>3, <2>3
    <3> QED BY <3>1 DEF Claims
  <2>4. CASE ~fresh(q, k) /\ fresh(p, j)
    <3>1. /\ p = r /\ j \in 1 .. Len(a) /\ x \in f[a[j]]
          /\ src(q, k) \in 1 .. Len(todo[q]) /\ x \in f[todo[q][src(q, k)]] /\ (q = r => src(q, k) # 1)
      BY <1>1, <1>3, <2>4
    <3> QED BY <3>1 DEF Claims
  <2> QED BY <2>1, <2>2, <2>3, <2>4
<1>4. \A q, p \in Runners : \A k \in 1 .. Len(todo'[q]), j \in 1 .. Len(todo'[p]) : \A x :
          (x \in f[todo'[q][k]] /\ x \in f[todo'[p][j]]) => (q = p /\ k = j)
  BY <1>3
<1> QED BY ONLY <1>4 DEF Once

LEMMA QueuingIs ==
    ASSUME NEW s \in Steps
    PROVE  /\ s.op \in {"signal", "enqueue"} => Queuing[s] = {s.n}
           /\ s.op = "endCapture" => Queuing[s] = {s.new[i] : i \in 1 .. Len(s.new)}
           /\ s.op \notin {"signal", "enqueue", "endCapture"} => Queuing[s] = {}
BY DEF Queuing

LEMMA PostingIs ==
    ASSUME NEW s \in Steps
    PROVE  /\ s.op = "due" => Posting[s] = Nat \X Dests
           /\ s.op \in {"deliver", "record"} => Posting[s] = {<<s.sig, s.dest>>}
           /\ s.op \notin {"due", "deliver", "record"} => Posting[s] = {}
BY DEF Posting

InTimeline(n) == \E i \in 1 .. Len(timeline) : timeline[i] = n
NowIn(n) == \E i \in 1 .. Len(timeline') : timeline'[i] = n

\* The new steps a of a capture end it with what they append.
EndsCapture(a, k) ==
    /\ Distinct(a[k].new)
    /\ \A i \in 1 .. Len(a[k].new) : /\ a[k].new[i] \in Len(signals) + 1 .. Len(signals')
                                     /\ \E j \in 1 .. k - 1 : a[j] = On("append", a[k].new[i])
    /\ \A j \in 1 .. Len(a) : j # k => a[j].op = "append"

\* The signals that new steps queue are new, or that of the step they follow.
Hands(r, a) ==
    /\ a \in Seq(Steps) /\ Len(signals') \in Nat /\ Len(signals) <= Len(signals')
    /\ Numbered(a, Len(signals), Len(signals'))
    /\ \A k \in 1 .. Len(a) :
          /\ a[k].op = "enqueue" => /\ Len(a) = 1 /\ todo[r] # <<>> /\ HeadOp(r) = "signal"
                                    /\ a[k].n = Head(todo[r]).n /\ NowIn(a[k].n)
          /\ a[k].op = "endCapture" => EndsCapture(a, k)
          /\ a[k].op = "record" => k = 1

\* The signals and deliveries spent, and those that steps still claim
Spent == {state.deliveries[i].sig : i \in 1 .. Len(state.deliveries)} \cup {id[1] : id \in DOMAIN posts}
Unspent ==
    /\ Spent \subseteq 1 .. Len(signals)
    /\ \A r \in Runners : \A k \in 1 .. Len(todo[r]) : \A x \in Queuing[todo[r][k]] :
          x \in 1 .. Len(signals) /\ x \notin Spent

LEMMA HandsClaims ==
    ASSUME TypeOK, Unspent, Once(Queuing), NEW r \in Runners, NEW a, Hands(r, a)
    PROVE  /\ Claims(Queuing, r, a)
           /\ \A k \in 1 .. Len(a) : \A x \in Queuing[a[k]] :
                 x \in Len(signals) + 1 .. Len(signals')
                 \/ (todo[r] # <<>> /\ HeadOp(r) = "signal" /\ x \in Queuing[todo[r][1]])
<1>0. /\ Len(signals) \in Nat /\ a \in Seq(Steps) /\ Len(signals') \in Nat /\ ToDo
      /\ \A q \in Runners : todo[q] \in Seq(Steps) /\ Len(todo[q]) \in Nat
  BY LengthsAre, TypesGive DEF Hands
<1>1. \A k \in 1 .. Len(a) : a[k] \in Steps
  BY <1>0
<1>2. ASSUME NEW k \in 1 .. Len(a), NEW x \in Queuing[a[k]]
      PROVE  \/ a[k].op = "signal" /\ x = a[k].n /\ x \in Len(signals) + 1 .. Len(signals')
             \/ a[k].op = "endCapture" /\ x \in Len(signals) + 1 .. Len(signals')
             \/ a[k].op = "enqueue" /\ todo[r] # <<>> /\ HeadOp(r) = "signal" /\ x \in Queuing[todo[r][1]]
  <2>1. CASE a[k].op = "signal"
    BY <1>1, <1>2, <2>1, QueuingIs DEF Hands, Numbered
  <2>2. CASE a[k].op = "enqueue"
    <3>1. todo[r] # <<>> /\ HeadOp(r) = "signal" /\ a[k].n = Head(todo[r]).n
      BY <2>2 DEF Hands
    <3>2. x = a[k].n
      BY <1>1, <1>2, <2>2, QueuingIs
    <3>3. Head(todo[r]) = todo[r][1] /\ Head(todo[r]) \in Steps
      BY <1>0, <3>1, HeadIs
    <3>4. Queuing[todo[r][1]] = {Head(todo[r]).n}
      BY <3>1, <3>3, QueuingIs DEF HeadOp
    <3> QED BY <2>2, <3>1, <3>2, <3>4
  <2>3. CASE a[k].op = "endCapture"
    <3>1. PICK i \in 1 .. Len(a[k].new) : x = a[k].new[i]
      BY <1>1, <1>2, <2>3, QueuingIs
    <3> QED BY <2>3, <3>1 DEF Hands, EndsCapture
  <2>4. a[k].op \in {"signal", "enqueue", "endCapture"}
    BY <1>1, <1>2, QueuingIs
  <2> QED BY <2>1, <2>2, <2>3, <2>4
<1>3. ASSUME NEW k \in 1 .. Len(a), NEW x \in Queuing[a[k]],
             NEW q \in Runners, NEW j \in 1 .. Len(todo[q]), x \in Queuing[todo[q][j]]
      PROVE  q = r /\ j = 1
  <2>1. x \in 1 .. Len(signals)
    BY <1>3 DEF Unspent
  <2>2. todo[r] # <<>> /\ x \in Queuing[todo[r][1]]
    BY <1>0, <1>2, <1>3, <2>1
  <2>3. 1 \in 1 .. Len(todo[r])
    BY <1>0, <2>2
  <2> QED BY <1>3, <2>2, <2>3 DEF Once
<1>4. ASSUME NEW k \in 1 .. Len(a), NEW j \in 1 .. Len(a), NEW x, x \in Queuing[a[k]], x \in Queuing[a[j]]
      PROVE  k = j
  <2>1. CASE a[k].op = "signal" /\ a[j].op = "signal"
    BY <1>2, <1>4, <2>1 DEF Hands, Numbered
  <2>2. CASE a[k].op = "enqueue" \/ a[j].op = "enqueue"
    BY <2>2 DEF Hands
  <2>3. CASE a[k].op = "endCapture" /\ k # j
    <3>1. a[j].op = "append"
      BY <2>3 DEF Hands, EndsCapture
    <3> QED BY <1>2, <1>4, <3>1
  <2>4. CASE a[j].op = "endCapture" /\ k # j
    <3>1. a[k].op = "append"
      BY <2>4 DEF Hands, EndsCapture
    <3> QED BY <1>2, <1>4, <3>1
  <2> QED BY <1>2, <1>4, <2>1, <2>2, <2>3, <2>4
<1> QED BY <1>2, <1>3, <1>4 DEF Claims

\* Steps that leave the queue alone
Others == Dull \cup {"capture", "append", "signal", "restart", "verified", "due", "deliver"}

LEMMA RecordingDull ==
    ASSUME NEW b, IsPlain(b), IsDull(b), NEW new \in Seq(Nat)
    PROVE  OpsIn(Recording(b, new), Dull \cup {"signal"})
<1> DEFINE a == Recording(b, new)
<1>2. /\ Len(b) \in Nat /\ Len(new) \in Nat /\ Len(a) = Len(b) + Len(new) + Len(new)
      /\ \A k \in 1 .. Len(b) : a[k] = b[k]
      /\ \A k \in 1 .. Len(new) : a[Len(b) + k] = On("signal", new[k])
      /\ \A k \in 1 .. Len(new) : a[Len(b) + Len(new) + k] = On("rules", new[k])
  BY RecordingIs
<1> HIDE DEF a
<1>3. \A n : On("signal", n).op = "signal" /\ On("rules", n).op \in Dull
  BY DEF On, Dull
<1>4. ASSUME NEW k \in 1 .. Len(a) PROVE a[k].op \in Dull \cup {"signal"}
  <2>1. CASE k <= Len(b)
    BY <1>2, <2>1 DEF IsDull
  <2>2. CASE k > Len(b) /\ k <= Len(b) + Len(new)
    <3> DEFINE j == k - Len(b)
    <3>1. j \in 1 .. Len(new) /\ k = Len(b) + j
      BY <1>2, <2>2
    <3>2. a[Len(b) + j] = On("signal", new[j])
      BY <1>2, <3>1
    <3> QED BY <1>3, <3>1, <3>2
  <2>3. CASE k > Len(b) + Len(new)
    <3> DEFINE j == k - Len(b) - Len(new)
    <3>1. j \in 1 .. Len(new) /\ k = Len(b) + Len(new) + j
      BY <1>2, <2>3
    <3>2. a[Len(b) + Len(new) + j] = On("rules", new[j])
      BY <1>2, <3>1
    <3> QED BY <1>3, <3>1, <3>2
  <2> QED BY <1>2, <2>1, <2>2, <2>3
<1> QED BY <1>4 DEF OpsIn, a

LEMMA OthersHand ==
    ASSUME NEW r \in Runners, NEW a \in Seq(Steps), Len(signals') \in Nat, Len(signals) <= Len(signals'),
           Numbered(a, Len(signals), Len(signals')), OpsIn(a, Others)
    PROVE  Hands(r, a)
<1>1. \A k \in 1 .. Len(a) : a[k].op \notin {"enqueue", "endCapture", "record"}
  BY DEF OpsIn, Others, Dull
<1> QED BY <1>1 DEF Hands

TimelineGrows == \A n : InTimeline(n) => NowIn(n)

LEMMA CaptureHands ==
    ASSUME TypeOK, NEW r \in Runners, NEW a, Follows(r, a), Captures(r, a)
    PROVE  Hands(r, a)
<1>1. PICK fresh \in Seq(Nat), made \in Seq(Signal) :
          /\ LastOf(fresh) \in Nat /\ signals' = signals \o made
          /\ a = CaptureSteps(Ids(Len(signals), Len(made)), LastOf(fresh))
  BY DEF Captures
<1> DEFINE n == Len(signals)
           m == Len(made)
           new == Ids(n, m)
           last == LastOf(fresh)
<1>2. n \in Nat /\ m \in Nat /\ Len(signals') = n + m
  BY <1>1, SignalSame, LengthsAre
<1>3. new \in Seq(Nat) /\ Len(new) = m /\ \A i \in 1 .. m : new[i] = n + i
  BY <1>2, IdsAre
<1>4. Numbered(a, Len(signals), Len(signals'))
  BY <1>1, <1>2, CaptureNumbered
<1> HIDE DEF new, last, n, m
<1>5. /\ Len(a) = m + 1
      /\ \A i \in 1 .. m : a[i] = On("append", new[i])
      /\ a[m + 1] = [op |-> "endCapture", new |-> new, last |-> last]
  BY <1>1, <1>3, CaptureStepsAre DEF new, last, n, m
<1>6. \A x : On("append", x).op = "append"
  BY DEF On
<1>7. a[m + 1].op = "endCapture" /\ a[m + 1].new = new
  BY <1>5
<1>8. \A k \in 1 .. m : a[k].op = "append"
  BY <1>5, <1>6
<1>9. EndsCapture(a, m + 1)
  <2>1. Distinct(new)
    BY <1>2, <1>3 DEF Distinct
  <2>2. ASSUME NEW i \in 1 .. m
        PROVE  /\ new[i] \in Len(signals) + 1 .. Len(signals')
               /\ \E j \in 1 .. (m + 1) - 1 : a[j] = On("append", new[i])
    <3>1. new[i] = n + i /\ i \in 1 .. (m + 1) - 1
      BY <1>2, <1>3
    <3> QED BY <1>2, <1>5, <3>1 DEF n
  <2>3. \A j \in 1 .. Len(a) : j # m + 1 => a[j].op = "append"
    BY <1>2, <1>5, <1>8
  <2> QED BY <1>3, <1>7, <2>1, <2>2, <2>3 DEF EndsCapture
<1>10. ASSUME NEW k \in 1 .. Len(a)
       PROVE  (k = m + 1) \/ a[k].op = "append"
  <2>1. k \in 1 .. m \/ k = m + 1
    BY <1>2, <1>5
  <2> QED BY <2>1, <1>8
<1>11. a \in Seq(Steps)
  BY DEF Follows
<1>12. Len(signals') \in Nat /\ Len(signals) <= Len(signals')
  BY <1>2 DEF n
<1>13. ASSUME NEW k \in 1 .. Len(a)
       PROVE  a[k].op # "enqueue" /\ a[k].op # "record" /\ (a[k].op = "endCapture" => EndsCapture(a, k))
  BY <1>7, <1>9, <1>10
<1> QED BY <1>4, <1>11, <1>12, <1>13 DEF Hands

LEMMA AppendHands ==
    ASSUME TypeOK, NEW r \in Runners, NEW a, Follows(r, a), todo[r] # <<>>, Appends(r, a)
    PROVE  Hands(r, a) /\ TimelineGrows
<1>0. timeline \in Seq(Nat) /\ a \in Seq(Steps) /\ signals' = signals /\ Len(signals) \in Nat
  BY LengthsAre DEF TypeOK, Follows, Appends, NothingMade
<1> DEFINE n == Head(todo[r]).n
<1>1. Head(todo[r]) \in Steps /\ HeadOp(r) \in {"append", "signal"}
  BY HeadIs, TypesGive DEF Appends
<1>2. n \in Nat
  BY <1>1, FieldsAre DEF HeadOp
<1>3. timeline' = Append(timeline, n)
  BY DEF Appends
<1> HIDE DEF n
<1>4. /\ Len(timeline') = Len(timeline) + 1 /\ Len(timeline) \in Nat
      /\ \A i \in 1 .. Len(timeline) : timeline'[i] = timeline[i]
      /\ timeline'[Len(timeline) + 1] = n
  BY <1>0, <1>2, <1>3
<1>5. NowIn(n)
  BY <1>4 DEF NowIn
<1>6. TimelineGrows
  BY <1>4 DEF TimelineGrows, InTimeline, NowIn
<1>7. CASE HeadOp(r) = "append"
  <2>1. a = <<>>
    BY <1>7 DEF Appends
  <2>2. 1 .. Len(a) = {}
    BY <2>1
  <2>3. Numbered(a, Len(signals), Len(signals))
    BY <2>2, <1>0, NoneNumbered
  <2> QED BY <1>0, <1>6, <2>2, <2>3 DEF Hands
<1>8. CASE HeadOp(r) = "signal"
  <2>1. a = <<On("enqueue", n)>>
    BY <1>8 DEF Appends, n
  <2>2. On("enqueue", n).op = "enqueue" /\ On("enqueue", n).n = n
    BY DEF On
  <2>3. Len(a) = 1 /\ a[1] = On("enqueue", n)
    BY <2>1
  <2>4. \A k \in 1 .. Len(a) : k = 1
    BY <2>3
  <2>5. \A k \in 1 .. Len(a) : a[k].op = "enqueue" /\ a[k].n = n
    BY <2>2, <2>3, <2>4
  <2>6. Numbered(a, Len(signals), Len(signals))
    BY <2>5, <1>0, NoneNumbered
  <2> QED BY <1>0, <1>5, <1>6, <1>8, <2>3, <2>5, <2>6 DEF Hands, n
<1> QED BY <1>1, <1>7, <1>8

LEMMA TakesHands ==
    ASSUME TypeOK, NEW r \in Runners, NEW a, Takes(r, a)
    PROVE  Hands(r, a) /\ TimelineGrows
<1>0. Follows(r, a) /\ Kind(r, a) /\ todo[r] # <<>> /\ a \in Seq(Steps)
  BY DEF Takes, Follows
<1>1. CASE Appends(r, a)
  BY <1>0, <1>1, AppendHands
<1>2. CASE ~Appends(r, a)
  <2>1. /\ timeline' = timeline /\ Len(signals') \in Nat /\ Len(signals) <= Len(signals')
        /\ Numbered(a, Len(signals), Len(signals'))
    BY <1>0, <1>2, KindNumbered
  <2>2. TimelineGrows
    BY <2>1 DEF TimelineGrows, InTimeline, NowIn
  <2>3. CASE Captures(r, a)
    BY <1>0, <2>2, <2>3, CaptureHands
  <2>4. CASE Gathers(r, a)
    <3>1. OpsIn(a, Others)
      BY <2>4, RecordingDull DEF Gathers, OpsIn, Others
    <3> QED BY <1>0, <2>1, <2>2, <3>1, OthersHand
  <2>5. CASE Lists(r, a) \/ Reserves(r, a) \/ Restarts(r, a) \/ Resets(r, a)
    <3>1. On("signal", Len(signals) + 1).op = "signal" /\ On("capture", Len(events)).op = "capture"
      BY DEF On
    <3>2. OpsIn(a, Others)
      BY <2>5, <3>1, ShortOps DEF OpsIn, Others
    <3> QED BY <1>0, <2>1, <2>2, <3>2, OthersHand
  <2>6. CASE Ends(r, a) \/ (Quiet(r, a) /\ IsDull(a))
    <3>1. OpsIn(a, Others)
      BY <2>6 DEF OpsIn, Others, Ends, IsDull
    <3> QED BY <1>0, <2>1, <2>2, <3>1, OthersHand
  <2>7. CASE Quiet(r, a) /\ Dues(a)
    <3>1. OpsIn(a, Others)
      BY <2>7 DEF OpsIn, Others, Dues
    <3> QED BY <1>0, <2>1, <2>2, <3>1, OthersHand
  <2>8. ASSUME NEW ok \in BOOLEAN,
               a = <<[op |-> "record", sig |-> Head(todo[r]).sig, dest |-> Head(todo[r]).dest, ok |-> ok]>>
        PROVE  Hands(r, a) /\ TimelineGrows
    <3>1. Len(a) = 1 /\ a[1].op = "record"
      BY <2>8
    <3>2. \A k \in 1 .. Len(a) : k = 1 /\ a[k].op = "record"
      BY <3>1
    <3> QED BY <1>0, <2>1, <2>2, <3>2 DEF Hands
  <2> QED BY <1>0, <1>2, <2>3, <2>4, <2>5, <2>6, <2>7, <2>8 DEF Kind, Quiet, Sends
<1> QED BY <1>1, <1>2

LEMMA BeginsHands ==
    ASSUME TypeOK, NEW r \in Runners, NEW a, Begins(r, a)
    PROVE  Hands(r, a) /\ TimelineGrows
<1>0. /\ Follows(r, a) /\ a \in Seq(Steps) /\ timeline' = timeline /\ Len(signals) \in Nat
  BY LengthsAre DEF Begins, Follows
<1>1. TimelineGrows
  BY <1>0 DEF TimelineGrows, InTimeline, NowIn
<1>2. CASE /\ IsPlain(a) /\ signals' = signals
           /\ \A k \in 1 .. Len(a) : a[k].op \in Dull \/ (a[k].op = "due" /\ k = 3)
  <2>1. OpsIn(a, Others)
    BY <1>2 DEF OpsIn, Others
  <2>2. \A k \in 1 .. Len(a) : a[k].op \notin {"append", "signal"}
    BY <1>2 DEF IsPlain, Plain
  <2>3. Numbered(a, Len(signals), Len(signals'))
    BY <1>0, <1>2, <2>2, NoneNumbered
  <2>4. Len(signals') \in Nat /\ Len(signals) <= Len(signals')
    BY <1>0, <1>2
  <2> QED BY <1>0, <1>1, <2>1, <2>3, <2>4, OthersHand
<1>3. ASSUME a = Recording(<<>>, <<Len(signals) + 1>>),
             NEW made \in Signal, signals' = Append(signals, made)
      PROVE  Hands(r, a) /\ TimelineGrows
  <2> DEFINE new == <<Len(signals) + 1>>
             b == <<>>
  <2>1. new \in Seq(Nat) /\ Len(new) = 1 /\ \A i \in 1 .. Len(new) : new[i] = Len(signals) + i
    BY <1>0
  <2>2. Len(signals') = Len(signals) + 1
    BY <1>3, SignalOne
  <2>3. IsPlain(b) /\ IsDull(b) /\ a = Recording(b, new)
    BY <1>3, PlainsAre
  <2> HIDE DEF new, b
  <2>4. Numbered(Recording(b, new), Len(signals), Len(signals) + Len(new))
    BY <1>0, <2>1, <2>3, RecordingNumbered
  <2>5. OpsIn(a, Others)
    BY <2>1, <2>3, RecordingDull DEF OpsIn, Others
  <2>6. Numbered(a, Len(signals), Len(signals'))
    BY <2>1, <2>2, <2>3, <2>4
  <2>7. Len(signals') \in Nat /\ Len(signals) <= Len(signals')
    BY <1>0, <2>2
  <2> QED BY <1>0, <1>1, <2>5, <2>6, <2>7, OthersHand
<1> QED BY <1>2, <1>3 DEF Begins

LEMMA DeathHands ==
    ASSUME TypeOK, NEW r \in Runners, signals' = signals, timeline' = timeline
    PROVE  Hands(r, <<>>) /\ TimelineGrows
<1>1. <<>> \in Seq(Steps) /\ 1 .. Len(<<>>) = {} /\ Len(signals) \in Nat
  BY LengthsAre
<1>2. Numbered(<<>>, Len(signals), Len(signals))
  BY <1>1, NoneNumbered
<1>3. TimelineGrows
  BY DEF TimelineGrows, InTimeline, NowIn
<1> QED BY <1>1, <1>2, <1>3 DEF Hands

-----------------------------------------------------------------------------
(* What is queued is in the timeline.                                      *)

\* A signal that is queued next is in the timeline, or appended before that.
Explained ==
    \A r \in Runners : \A k \in 1 .. Len(todo[r]) :
        /\ todo[r][k].op = "enqueue" => InTimeline(todo[r][k].n)
        /\ todo[r][k].op = "endCapture" =>
              /\ Distinct(todo[r][k].new)
              /\ \A i \in 1 .. Len(todo[r][k].new) :
                    \/ InTimeline(todo[r][k].new[i])
                    \/ \E j \in 1 .. k - 1 : todo[r][j] = On("append", todo[r][k].new[i])
        /\ todo[r][k].op = "record" => k = 1

\* What was to be appended is, or all is dropped.
HeadAppended(r, a) ==
    Len(todo'[r]) <= Len(a) \/ (HeadOp(r) = "append" => NowIn(Head(todo[r]).n))

LEMMA ExplainedKept ==
    ASSUME TypeOK, Explained, NEW r \in Runners, NEW a, Follows(r, a), Hands(r, a), TimelineGrows,
           HeadAppended(r, a)
    PROVE  Explained'
<1>0. /\ ToDo /\ a \in Seq(Steps) /\ Len(a) \in Nat
      /\ \A q \in Runners : Len(todo[q]) \in Nat /\ Len(todo'[q]) \in Nat
  <2>1. a \in Seq(Steps)
    BY DEF Follows
  <2>2. \A q \in Runners : todo'[q] \in Seq(Steps)
    BY DEF Follows, ToDo
  <2>3. \A q \in Runners : Len(todo'[q]) \in Nat
    BY <2>2
  <2> QED BY <2>1, <2>3, LengthsAre, TypesGive
<1>1. ASSUME NEW q \in Runners, NEW k \in 1 .. Len(todo'[q])
      PROVE  /\ todo'[q][k].op = "enqueue" => NowIn(todo'[q][k].n)
             /\ todo'[q][k].op = "endCapture" =>
                   /\ Distinct(todo'[q][k].new)
                   /\ \A i \in 1 .. Len(todo'[q][k].new) :
                         \/ NowIn(todo'[q][k].new[i])
                         \/ \E j \in 1 .. k - 1 : todo'[q][j] = On("append", todo'[q][k].new[i])
             /\ todo'[q][k].op = "record" => k = 1
  <2>1. CASE ~Old(r, a, q, k)
    <3>1. q = r /\ k \in 1 .. Len(a) /\ todo'[q][k] = a[k]
      BY <2>1, Origin
    <3>2. \A j \in 1 .. k - 1 : todo'[r][j] = a[j]
      BY <1>0, <3>1 DEF Follows
    <3>3. /\ a[k].op = "enqueue" => NowIn(a[k].n)
          /\ a[k].op = "endCapture" => EndsCapture(a, k)
          /\ a[k].op = "record" => k = 1
      BY <3>1 DEF Hands
    <3>4. ASSUME a[k].op = "endCapture", NEW i \in 1 .. Len(a[k].new)
          PROVE  \E j \in 1 .. k - 1 : todo'[r][j] = On("append", a[k].new[i])
      BY <3>2, <3>3, <3>4 DEF EndsCapture
    <3> QED BY <3>1, <3>3, <3>4 DEF EndsCapture
  <2>2. CASE Old(r, a, q, k)
    <3> DEFINE s == Source(r, a, q, k)
    <3>1. s \in 1 .. Len(todo[q]) /\ todo'[q][k] = todo[q][s] /\ (q = r => s # 1)
      BY <2>2, Origin
    <3>2. /\ todo[q][s].op = "enqueue" => InTimeline(todo[q][s].n)
          /\ todo[q][s].op = "endCapture" =>
                /\ Distinct(todo[q][s].new)
                /\ \A i \in 1 .. Len(todo[q][s].new) :
                      \/ InTimeline(todo[q][s].new[i])
                      \/ \E j \in 1 .. s - 1 : todo[q][j] = On("append", todo[q][s].new[i])
          /\ todo[q][s].op = "record" => s = 1
      BY <3>1 DEF Explained
    <3>3. ASSUME NEW x, NEW j \in 1 .. s - 1, todo[q][j] = On("append", x)
          PROVE  NowIn(x) \/ \E h \in 1 .. k - 1 : todo'[q][h] = On("append", x)
      <4>1. CASE q # r
        <5>1. todo'[q] = todo[q] /\ s = k
          BY <4>1 DEF Follows, Source
        <5> QED BY <3>3, <5>1
      <4>2. CASE q = r /\ j = 1
        <5>0. todo[r] # <<>>
          BY <1>0, <3>1, <4>2
        <5>1. Head(todo[r]) = todo[r][1]
          BY <1>0, <5>0, HeadIs
        <5>2. HeadOp(r) = "append" /\ Head(todo[r]).n = x
          BY <3>3, <4>2, <5>1 DEF HeadOp, On
        <5>3. ~(Len(todo'[r]) <= Len(a))
          BY <1>0, <2>2, <4>2 DEF Old
        <5> QED BY <5>2, <5>3 DEF HeadAppended
      <4>3. CASE q = r /\ j # 1
        <5> DEFINE h == Len(a) + j - 1
        <5>1. h \in Len(a) + 1 .. Len(todo'[r]) /\ h \in 1 .. k - 1 /\ h - Len(a) + 1 = j
          BY <1>0, <3>1, <4>3 DEF Source
        <5> HIDE DEF h
        <5>2. todo'[r][h] = todo[r][j]
          BY <5>1 DEF Follows
        <5> QED BY <3>3, <4>3, <5>1, <5>2
      <4> QED BY <4>1, <4>2, <4>3
    <3>4. todo[q][s].op = "record" => k = 1
      BY <3>1, <3>2 DEF Source
    <3> HIDE DEF s
    <3>5. \A x : InTimeline(x) => NowIn(x)
      BY DEF TimelineGrows
    <3>6. ASSUME todo[q][s].op = "endCapture", NEW i \in 1 .. Len(todo[q][s].new)
          PROVE  \/ NowIn(todo[q][s].new[i])
                 \/ \E j \in 1 .. k - 1 : todo'[q][j] = On("append", todo[q][s].new[i])
      BY <3>2, <3>3, <3>5, <3>6
    <3> QED BY <3>1, <3>2, <3>4, <3>5, <3>6
  <2> QED BY <2>1, <2>2
<1>2. \A n : InTimeline(n)' <=> NowIn(n)
  BY DEF InTimeline, NowIn
<1>3. \A q \in Runners : \A k \in 1 .. Len(todo'[q]) :
             /\ todo'[q][k].op = "enqueue" => NowIn(todo'[q][k].n)
             /\ todo'[q][k].op = "endCapture" =>
                   /\ Distinct(todo'[q][k].new)
                   /\ \A i \in 1 .. Len(todo'[q][k].new) :
                         \/ NowIn(todo'[q][k].new[i])
                         \/ \E j \in 1 .. k - 1 : todo'[q][j] = On("append", todo'[q][k].new[i])
             /\ todo'[q][k].op = "record" => k = 1
  BY <1>1
<1> QED BY ONLY <1>3 DEF Explained, InTimeline, NowIn

\* A step spends no more than what it queues.
Spends(r) ==
    \A y \in Spent' : \/ y \in Spent
                      \/ /\ todo[r] # <<>> /\ HeadOp(r) \in {"enqueue", "endCapture"}
                         /\ y \in Queuing[todo[r][1]]

LEMMA UnspentKept ==
    ASSUME TypeOK, Unspent, Once(Queuing), NEW r \in Runners, NEW a, Follows(r, a), Hands(r, a), Spends(r)
    PROVE  Unspent'
<1>0. /\ Len(signals) \in Nat /\ Len(signals') \in Nat /\ Len(signals) <= Len(signals')
      /\ \A q \in Runners : todo[q] \in Seq(Steps) /\ Len(todo[q]) \in Nat
  BY LengthsAre DEF Hands
<1>1. todo[r] # <<>> => 1 \in 1 .. Len(todo[r])
  BY <1>0
<1>2. \A y \in Spent' : y \in 1 .. Len(signals)
  BY <1>1 DEF Spends, Unspent
<1>3. ASSUME NEW q \in Runners, NEW k \in 1 .. Len(todo'[q]), NEW x \in Queuing[todo'[q][k]]
      PROVE  x \in 1 .. Len(signals') /\ x \notin Spent'
  <2>1. CASE ~Old(r, a, q, k)
    <3>1. k \in 1 .. Len(a) /\ todo'[q][k] = a[k]
      BY <2>1, Origin
    <3>2. \/ x \in Len(signals) + 1 .. Len(signals')
          \/ (todo[r] # <<>> /\ HeadOp(r) = "signal" /\ x \in Queuing[todo[r][1]])
      BY <1>3, <3>1, HandsClaims
    <3>3. CASE x \in Len(signals) + 1 .. Len(signals')
      BY <1>0, <1>2, <3>3
    <3>4. CASE todo[r] # <<>> /\ HeadOp(r) = "signal" /\ x \in Queuing[todo[r][1]]
      <4>1. x \in 1 .. Len(signals) /\ x \notin Spent
        BY <1>1, <3>4 DEF Unspent
      <4>2. x \notin Spent'
        BY <3>4, <4>1 DEF Spends
      <4> QED BY <1>0, <4>1, <4>2
    <3> QED BY <3>2, <3>3, <3>4
  <2>2. CASE Old(r, a, q, k)
    <3> DEFINE s == Source(r, a, q, k)
    <3>1. s \in 1 .. Len(todo[q]) /\ todo'[q][k] = todo[q][s] /\ (q = r => s # 1)
      BY <2>2, Origin
    <3> HIDE DEF s
    <3>2. x \in 1 .. Len(signals) /\ x \notin Spent
      BY <1>3, <3>1 DEF Unspent
    <3>3. ~(todo[r] # <<>> /\ x \in Queuing[todo[r][1]])
      BY <1>1, <1>3, <3>1 DEF Once
    <3>4. x \notin Spent'
      BY <3>2, <3>3 DEF Spends
    <3> QED BY <1>0, <3>2, <3>4
  <2> QED BY <2>1, <2>2
<1>4. Spent' \subseteq 1 .. Len(signals')
  BY <1>0, <1>2
<1>5. \A q \in Runners : \A k \in 1 .. Len(todo'[q]) : \A x \in Queuing[todo'[q][k]] :
          x \in 1 .. Len(signals') /\ x \notin Spent'
  BY <1>3
<1> QED BY <1>4, <1>5 DEF Unspent

-----------------------------------------------------------------------------
(* What a process queues                                                   *)

\* A delivery that a process has just queued
Born(r, d) ==
    /\ todo[r] # <<>> /\ HeadOp(r) \in {"enqueue", "endCapture"} /\ d.sig \in Queuing[todo[r][1]]
    /\ d.sig \notin Spent /\ InTimeline(d.sig) /\ d.status = "pending" /\ d.attempts = 0

InOrderly == Queue(state.deliveries, state.payloads)
Traced == \A i \in 1 .. Len(state.deliveries) : InTimeline(state.deliveries[i].sig)

LEMMA QueueIs ==
    ASSUME TypeOK
    PROVE  /\ state \in State /\ state.deliveries \in Seq(Delivery) /\ Len(state.deliveries) \in Nat
           /\ DOMAIN state.deliveries = 1 .. Len(state.deliveries)
           /\ \A i \in 1 .. Len(state.deliveries) :
                 /\ state.deliveries[i] \in Delivery /\ state.deliveries[i].sig \in Nat
                 /\ state.deliveries[i].dest \in Dests /\ state.deliveries[i].status \in Statuses
                 /\ state.deliveries[i].attempts \in Nat
<1>1. state \in State /\ state.deliveries \in Seq(Delivery)
  BY StateIs DEF TypeOK
<1>2. Len(state.deliveries) \in Nat /\ DOMAIN state.deliveries = 1 .. Len(state.deliveries)
  BY <1>1
<1>3. \A i \in 1 .. Len(state.deliveries) : state.deliveries[i] \in Delivery
  BY <1>1
<1> QED BY <1>1, <1>2, <1>3 DEF Delivery

LEMMA HeadQueues ==
    ASSUME TypeOK, Unspent, Explained, NEW r \in Runners, todo[r] # <<>>,
           HeadOp(r) \in {"enqueue", "endCapture"}
    PROVE  /\ ToQueue(Head(todo[r])) \in Seq(Nat) /\ Distinct(ToQueue(Head(todo[r])))
           /\ \A i \in 1 .. Len(ToQueue(Head(todo[r]))) :
                 /\ ToQueue(Head(todo[r]))[i] \in Queuing[todo[r][1]]
                 /\ ToQueue(Head(todo[r]))[i] \notin Spent /\ InTimeline(ToQueue(Head(todo[r]))[i])
<1> DEFINE step == Head(todo[r])
<1>1. step \in Steps /\ step = todo[r][1] /\ 1 \in 1 .. Len(todo[r])
  BY HeadIs, TypesGive
<1>2. step.op \in {"enqueue", "endCapture"}
  BY DEF HeadOp
<1> HIDE DEF step
<1>3. \A x \in Queuing[step] : x \notin Spent
  BY <1>1 DEF Unspent
<1>4. CASE step.op = "enqueue"
  <2>1. ToQueue(step) = <<step.n>> /\ step.n \in Nat /\ Queuing[step] = {step.n}
    BY <1>1, <1>4, FieldsAre, QueuingIs DEF ToQueue
  <2>2. InTimeline(step.n)
    BY <1>1, <1>4 DEF Explained
  <2>3. Len(ToQueue(step)) = 1 /\ ToQueue(step)[1] = step.n /\ ToQueue(step) \in Seq(Nat)
    BY <2>1
  <2>4. \A i \in 1 .. Len(ToQueue(step)) : i = 1
    BY <2>3
  <2> QED BY <1>1, <1>3, <2>1, <2>2, <2>3, <2>4 DEF Distinct, step
<1>5. CASE step.op = "endCapture"
  <2>1. ToQueue(step) = step.new /\ step.new \in Seq(Nat) /\ Queuing[step] = {step.new[i] : i \in 1 .. Len(step.new)}
    BY <1>1, <1>5, FieldsAre, QueuingIs DEF ToQueue
  <2>2. 1 .. 1 - 1 = {}
    OBVIOUS
  <2>3. Distinct(step.new) /\ \A i \in 1 .. Len(step.new) : InTimeline(step.new[i])
    BY <1>1, <1>5, <2>2 DEF Explained
  <2> QED BY <1>1, <1>3, <2>1, <2>3 DEF step
<1> QED BY <1>2, <1>4, <1>5

LEMMA QueuesGain ==
    ASSUME TypeOK, Unspent, Explained, InOrderly, NEW r \in Runners, todo[r] # <<>>, Queues(r)
    PROVE  /\ InOrderly'
           /\ \A i \in 1 .. Len(state'.deliveries) :
                 \/ \E h \in 1 .. Len(state.deliveries) : state'.deliveries[i] = state.deliveries[h]
                 \/ Born(r, state'.deliveries[i])
<1> DEFINE ns == ToQueue(Head(todo[r]))
           d == state.deliveries
<1>1. HeadOp(r) \in {"enqueue", "endCapture"}
  BY DEF Queues
<1>2. PICK t \in State : t.deliveries = d /\ t.payloads = state.payloads /\ SaveState(Enqueued(t, ns))
  BY DEF Queues
<1>3. /\ ns \in Seq(Nat) /\ Distinct(ns)
      /\ \A i \in 1 .. Len(ns) : ns[i] \in Queuing[todo[r][1]] /\ ns[i] \notin Spent /\ InTimeline(ns[i])
  BY <1>1, HeadQueues
<1> DEFINE s == Enqueued(t, ns)
<1>4. SaveState(s)
  BY <1>2
<1> HIDE DEF ns
<1>5. s \in State /\ state.payloads \subseteq s.payloads
  BY <1>2, <1>3, QueuedAre
<1>6. PICK new : Added(new, ns, s.payloads) /\ s.deliveries = d \o new
  BY <1>2, <1>3, QueuedAre
<1>7. Queue(d, state.payloads) /\ state \in State /\ Len(d) <= MaxHistory
  BY DEF InOrderly, Queue, TypeOK
<1>8. ASSUME NEW j \in 1 .. Len(new)
      PROVE  /\ new[j].sig \in Queuing[todo[r][1]] /\ new[j].sig \notin Spent /\ InTimeline(new[j].sig)
             /\ new[j].status = "pending" /\ new[j].attempts = 0
  <2>1. PICK i \in 1 .. Len(ns) : new[j].sig = ns[i]
    BY <1>6 DEF Added
  <2> QED BY <1>3, <1>6, <2>1 DEF Added
<1>9. \A i \in 1 .. Len(d), j \in 1 .. Len(new) : d[i].sig # new[j].sig
  <2>1. \A i \in 1 .. Len(d) : d[i].sig \in Spent
    BY DEF Spent
  <2> QED BY <1>8, <2>1
<1> DEFINE more == s.payloads
           e == s.deliveries
           c == IF Len(e) > MaxHistory THEN Len(e) - MaxHistory ELSE 0
<1>10. /\ state'.deliveries = SubSeq(e, c + 1, Len(e))
       /\ state'.payloads = more \ {e[i].sig : i \in 1 .. c}
  <2> HIDE DEF s
  <2>1. c = (IF Len(s.deliveries) > MaxHistory THEN Len(s.deliveries) - MaxHistory ELSE 0)
    OBVIOUS
  <2> HIDE DEF c
  <2> QED BY <1>4, <1>5, <1>7, <2>1, SavedQueue
<1>11. e = d \o new /\ Added(new, ns, more) /\ state.payloads \subseteq more
  BY <1>5, <1>6
<1> HIDE DEF more, d, s
<1>12. c = (IF Len(d \o new) > MaxHistory THEN Len(d \o new) - MaxHistory ELSE 0)
  BY <1>11
<1>a. /\ state'.deliveries = Youngest(d \o new, c)
      /\ state'.payloads = Needed(more, d \o new, c)
  BY <1>10, <1>11 DEF Youngest, Needed
<1> HIDE DEF c, e
<1>13. /\ Queue(Youngest(d \o new, c), Needed(more, d \o new, c))
       /\ Gained(d, new, Youngest(d \o new, c))
  <2>1. ns \in Seq(Nat)
    BY <1>3
  <2>2. Queue(d, state.payloads)
    BY <1>7
  <2>3. Added(new, ns, more) /\ state.payloads \subseteq more
    BY <1>11
  <2>4. \A i \in 1 .. Len(d), j \in 1 .. Len(new) : d[i].sig # new[j].sig
    BY <1>9
  <2> QED BY ONLY <2>1, <2>2, <2>3, <2>4, <1>12, QueueGains
<1>14. Queue(state'.deliveries, state'.payloads) /\ Gained(d, new, state'.deliveries)
  BY <1>a, <1>13
<1>15. \A i \in 1 .. Len(state'.deliveries) :
          \/ \E h \in 1 .. Len(d) : state'.deliveries[i] = d[h]
          \/ Born(r, state'.deliveries[i])
  BY <1>1, <1>8, <1>14 DEF Gained, Born
<1> QED BY <1>14, <1>15 DEF InOrderly, d

\* The queue stays in order as long as nothing but the progress of its deliveries
\* changes.
LEMMA OrderKept ==
    ASSUME TypeOK, TypeOK', InOrderly, state'.payloads = state.payloads,
           Len(state'.deliveries) = Len(state.deliveries),
           \A i \in 1 .. Len(state.deliveries) : /\ state'.deliveries[i].sig = state.deliveries[i].sig
                                                 /\ state'.deliveries[i].dest = state.deliveries[i].dest
    PROVE  InOrderly'
<1> DEFINE d == state.deliveries
           e == state'.deliveries
<1>1. e \in Seq(Delivery) /\ Len(d) \in Nat
  BY QueueIs, StateIs DEF TypeOK
<1>2. Len(e) <= MaxHistory /\ Unique(d) /\ Grouped(d)
  BY DEF InOrderly, Queue
<1>3. Len(e) = Len(d) /\ \A i \in 1 .. Len(d) : e[i].sig = d[i].sig /\ e[i].dest = d[i].dest
  OBVIOUS
<1>4. \A i \in 1 .. Len(d) : d[i].sig \notin state.payloads => (d[i].sig = d[1].sig /\ Len(d) = MaxHistory)
  BY DEF InOrderly, Queue
<1> HIDE DEF d, e
<1>5. Unique(e)
  BY <1>2, <1>3 DEF Unique
<1>6. Grouped(e)
  BY <1>2, <1>3 DEF Grouped
<1>7. ASSUME NEW i \in 1 .. Len(e), e[i].sig \notin state'.payloads
      PROVE  e[i].sig = e[1].sig /\ Len(e) = MaxHistory
  <2>1. 1 \in 1 .. Len(d)
    BY <1>1, <1>3
  <2> QED BY <1>3, <1>4, <1>7, <2>1
<1>8. Queue(e, state'.payloads)
  BY <1>1, <1>2, <1>5, <1>6, <1>7 DEF Queue
<1> QED BY <1>8 DEF InOrderly, e

-----------------------------------------------------------------------------
(* The queue of every process                                              *)

\* Every delivery is an old one, or was queued by process r.
Descends(r) ==
    /\ \A i \in 1 .. Len(state'.deliveries) :
          \/ \E h \in 1 .. Len(state.deliveries) : state'.deliveries[i].sig = state.deliveries[h].sig
          \/ Born(r, state'.deliveries[i])
    /\ \A id \in DOMAIN posts' : id \in DOMAIN posts \/ id[1] \in Spent

QueueInv == TypeInv /\ Once(Queuing) /\ Explained /\ Unspent /\ InOrderly /\ Traced

LEMMA QueueStep ==
    ASSUME QueueInv, TypeInv', NEW r \in Runners, NEW a, Follows(r, a), Hands(r, a), TimelineGrows,
           HeadAppended(r, a), InOrderly', Descends(r)
    PROVE  QueueInv'
<1>0. TypeOK /\ Once(Queuing) /\ Explained /\ Unspent /\ InOrderly /\ Traced
  BY DEF QueueInv, TypeInv
<1>1. Claims(Queuing, r, a)
  BY <1>0, HandsClaims
<1>2. Once(Queuing)'
  <2>1. Once(Queuing) /\ Claims(Queuing, r, a) /\ TypeOK /\ Follows(r, a)
    BY <1>0, <1>1
  <2> DEFINE f == [s \in Steps |-> Queuing[s]]
  <2>2. f = Queuing
    BY DEF Queuing
  <2> HIDE DEF f
  <2>3. Once(f) /\ Claims(f, r, a)
    BY <2>1, <2>2
  <2>4. Once(f)'
    BY <2>1, <2>3, OnceKept
  <2> QED BY <2>2, <2>4
<1>3. Explained'
  BY <1>0, ExplainedKept
<1>4. Spends(r)
  <2>1. ASSUME NEW i \in 1 .. Len(state'.deliveries)
        PROVE  \/ state'.deliveries[i].sig \in Spent
               \/ /\ todo[r] # <<>> /\ HeadOp(r) \in {"enqueue", "endCapture"}
                  /\ state'.deliveries[i].sig \in Queuing[todo[r][1]]
    <3>1. \/ \E h \in 1 .. Len(state.deliveries) : state'.deliveries[i].sig = state.deliveries[h].sig
          \/ Born(r, state'.deliveries[i])
      BY DEF Descends
    <3> QED BY <3>1 DEF Spent, Born
  <2>2. \A id \in DOMAIN posts' : id[1] \in Spent
    BY DEF Descends, Spent
  <2>3. Spent' = {state'.deliveries[i].sig : i \in 1 .. Len(state'.deliveries)} \cup {id[1] : id \in DOMAIN posts'}
    BY DEF Spent
  <2> QED BY <2>1, <2>2, <2>3 DEF Spends
<1>5. Unspent'
  BY <1>0, <1>4, UnspentKept
<1>6. Traced'
  <2>1. ASSUME NEW i \in 1 .. Len(state'.deliveries)
        PROVE  NowIn(state'.deliveries[i].sig)
    <3>1. \/ \E h \in 1 .. Len(state.deliveries) : state'.deliveries[i].sig = state.deliveries[h].sig
          \/ Born(r, state'.deliveries[i])
      BY DEF Descends
    <3>2. InTimeline(state'.deliveries[i].sig)
      BY <1>0, <3>1 DEF Traced, Born
    <3> QED BY <3>2 DEF TimelineGrows
  <2> QED BY <2>1 DEF Traced, InTimeline, NowIn
<1> QED BY <1>2, <1>3, <1>5, <1>6 DEF QueueInv

\* Nothing but the progress of deliveries changes.
LEMMA QueueUntouched ==
    ASSUME QueueInv, TypeInv', UNCHANGED <<todo, signals, timeline, posts>>,
           state'.payloads = state.payloads,
           Len(state'.deliveries) = Len(state.deliveries),
           \A i \in 1 .. Len(state.deliveries) : /\ state'.deliveries[i].sig = state.deliveries[i].sig
                                                 /\ state'.deliveries[i].dest = state.deliveries[i].dest
    PROVE  QueueInv'
<1>0. TypeOK /\ TypeOK' /\ Once(Queuing) /\ Explained /\ Unspent /\ InOrderly /\ Traced
  BY DEF QueueInv, TypeInv
<1>1. InOrderly'
  BY <1>0, OrderKept
<1>2. Once(Queuing)'
  <2> DEFINE f == [s \in Steps |-> Queuing[s]]
  <2>1. f = Queuing
    BY DEF Queuing
  <2> HIDE DEF f
  <2>2. Once(f)
    BY <1>0, <2>1
  <2>3. \A q, p \in Runners : \A k \in 1 .. Len(todo'[q]), j \in 1 .. Len(todo'[p]) : \A x :
            (x \in f[todo'[q][k]] /\ x \in f[todo'[p][j]]) => (q = p /\ k = j)
    BY <2>2 DEF Once
  <2>4. Once(f)'
    BY ONLY <2>3 DEF Once
  <2> QED BY <2>1, <2>4
<1>3. Explained'
  BY <1>0 DEF Explained, InTimeline
<1>4. Spent' = Spent
  BY DEF Spent
<1>5. Unspent'
  BY <1>0, <1>4 DEF Unspent
<1>6. Traced'
  BY <1>0 DEF Traced, InTimeline
<1> QED BY <1>1, <1>2, <1>3, <1>5, <1>6 DEF QueueInv

\* What a step of a process does to the queue
LEMMA StepDescends ==
    ASSUME QueueInv, TypeInv', NEW r \in Runners, Step(r)
    PROVE  InOrderly' /\ Descends(r)
<1>0. /\ TypeOK /\ TypeOK' /\ Once(Queuing) /\ Explained /\ Unspent /\ InOrderly /\ Traced
      /\ state.deliveries \in Seq(Delivery) /\ Len(state.deliveries) \in Nat
      /\ DOMAIN state.deliveries = 1 .. Len(state.deliveries)
  BY QueueIs DEF QueueInv, TypeInv
<1>1. IsFull
  BY <1>0 DEF IsFull, InOrderly, Queue
<1>2. todo[r] # <<>> /\ (Rests(r) \/ Queues(r) \/ Settles(r) \/ Posts(r))
  BY <1>0, <1>1, StepEffects
<1>3. KeepsQueue => InOrderly'
  BY <1>0, OrderKept DEF KeepsQueue
<1>4. CASE Rests(r)
  BY <1>3, <1>4 DEF Rests, KeepsQueue, Descends
<1>5. CASE Queues(r)
  <2>1. /\ InOrderly'
        /\ \A i \in 1 .. Len(state'.deliveries) :
              \/ \E h \in 1 .. Len(state.deliveries) : state'.deliveries[i] = state.deliveries[h]
              \/ Born(r, state'.deliveries[i])
    BY <1>0, <1>2, <1>5, QueuesGain
  <2> QED BY <1>5, <2>1 DEF Queues, Descends
<1>6. CASE Settles(r)
  <2>1. CASE state'.deliveries = state.deliveries
    BY <1>3, <1>6, <2>1 DEF Settles, KeepsQueue, Descends
  <2>2. ASSUME NEW i \in Matching(Head(todo[r])),
               state'.deliveries = [state.deliveries EXCEPT ![i] = Attempted(state.deliveries[i], Head(todo[r]).ok)]
        PROVE  InOrderly' /\ Descends(r)
    <3> DEFINE ok == Head(todo[r]).ok
               d == state.deliveries
    <3>1. ok \in BOOLEAN
      BY <1>0, <1>2, <1>6, HeadIs, TypesGive, FieldsAre DEF Settles, HeadOp
    <3>2. i \in 1 .. Len(d) /\ d[i] \in Delivery
      BY <1>0, <2>2 DEF Matching
    <3> HIDE DEF ok, d
    <3>3. Attempted(d[i], ok).sig = d[i].sig /\ Attempted(d[i], ok).dest = d[i].dest
      BY <3>1, <3>2, AttemptedIs
    <3>4. state'.deliveries = [d EXCEPT ![i] = Attempted(d[i], ok)]
      BY <2>2 DEF d, ok
    <3>5. d \in Seq(Delivery) /\ Len(d) \in Nat
      BY <1>0 DEF d
    <3>6. /\ Len(state'.deliveries) = Len(d)
          /\ \A j \in 1 .. Len(d) : /\ state'.deliveries[j].sig = d[j].sig
                                    /\ state'.deliveries[j].dest = d[j].dest
      BY <3>2, <3>3, <3>4, <3>5
    <3>7. posts' = posts /\ state'.payloads = state.payloads
      BY <1>6 DEF Settles
    <3>8. InOrderly'
      BY <1>0, <3>6, <3>7, OrderKept DEF d
    <3> QED BY <3>6, <3>7, <3>8 DEF Descends, d
  <2> QED BY <1>6, <2>1, <2>2 DEF Settles
<1>7. CASE Posts(r)
  <2> DEFINE id == <<Head(todo[r]).sig, Head(todo[r]).dest>>
  <2>1. Posted(id) /\ KeepsQueue /\ Matching(Head(todo[r])) # {}
    BY <1>7 DEF Posts
  <2>2. PICK i \in Matching(Head(todo[r])) : TRUE
    BY <2>1
  <2>3. i \in 1 .. Len(state.deliveries) /\ state.deliveries[i].sig = id[1]
    BY <1>0, <2>2 DEF Matching
  <2>4. id[1] \in Spent
    BY <2>3 DEF Spent
  <2> HIDE DEF id
  <2>5. DOMAIN posts' = DOMAIN posts \cup {id}
    BY <2>1 DEF Posted
  <2>6. \A x \in DOMAIN posts' : x \in DOMAIN posts \/ x[1] \in Spent
    BY <2>4, <2>5
  <2> QED BY <1>3, <2>1, <2>6 DEF KeepsQueue, Descends
<1> QED BY <1>2, <1>4, <1>5, <1>6, <1>7

\* What is to be appended is, unless the rest is dropped.
LEMMA TakesAppended ==
    ASSUME TypeOK, NEW r \in Runners, NEW a, Takes(r, a)
    PROVE  HeadAppended(r, a)
<1>0. todo[r] # <<>> /\ Kind(r, a)
  BY DEF Takes
<1>1. CASE Appends(r, a)
  <2> DEFINE n == Head(todo[r]).n
  <2>1. timeline' = Append(timeline, n) /\ timeline \in Seq(Nat) /\ Len(timeline) \in Nat
    BY <1>1, LengthsAre DEF Appends, TypeOK
  <2> HIDE DEF n
  <2>2. Len(timeline') = Len(timeline) + 1 /\ timeline'[Len(timeline) + 1] = n
    BY <2>1
  <2>3. NowIn(n)
    BY <2>1, <2>2 DEF NowIn
  <2> QED BY <2>3 DEF HeadAppended, n
<1>2. CASE ~Appends(r, a)
  <2>1. HeadOp(r) # "append"
    BY <1>0, <1>2 DEF Kind, Quiet, Lists, Captures, Ends, Gathers, Reserves, Restarts, Resets, Plain
  <2> QED BY <2>1 DEF HeadAppended
<1> QED BY <1>1, <1>2

LEMMA InitQueue == Init => QueueInv
<1> SUFFICES ASSUME Init PROVE QueueInv
  OBVIOUS
<1>1. TypeInv /\ \A r \in Runners : 1 .. Len(todo[r]) = {}
  BY InitTypeInv DEF Init
<1>2. state.deliveries = <<>>
  BY DEF Init, Configured, FreshState
<1>3. 1 .. Len(state.deliveries) = {} /\ DOMAIN posts = {}
  BY <1>2 DEF Init
<1>4. Spent = {}
  BY <1>3 DEF Spent
<1>5. Len(state.deliveries) = 0 /\ state.deliveries \in Seq(Delivery) /\ MaxHistory \in Nat
  BY <1>2, OperationsConstants
<1>6. InOrderly
  BY <1>3, <1>5 DEF InOrderly, Queue, Unique, Grouped
<1>7. Once(Queuing) /\ Explained
  BY <1>1 DEF Once, Explained
<1>8. Unspent /\ Traced
  BY <1>1, <1>3, <1>4 DEF Unspent, Traced
<1> QED BY <1>1, <1>6, <1>7, <1>8 DEF QueueInv

\* The deliveries and what was sent of them stay as they are.
Steady ==
    /\ state'.payloads = state.payloads /\ posts' = posts
    /\ Len(state'.deliveries) = Len(state.deliveries)
    /\ \A i \in 1 .. Len(state.deliveries) : /\ state'.deliveries[i].sig = state.deliveries[i].sig
                                             /\ state'.deliveries[i].dest = state.deliveries[i].dest
                                             /\ state'.deliveries[i].status = state.deliveries[i].status
                                             /\ state'.deliveries[i].attempts = state.deliveries[i].attempts

LEMMA PassesSteady ==
    ASSUME TypeOK, Passes
    PROVE  Steady
<1>0. state \in State /\ state.deliveries \in Seq(Delivery) /\ DOMAIN state.deliveries = 1 .. Len(state.deliveries)
  BY QueueIs
<1>1. posts' = posts
  BY PassesKeeps
<1>2. CASE WindowElapses \/ CooldownElapses
  <2>1. state'.deliveries = state.deliveries /\ state'.payloads = state.payloads
    BY <1>0, <1>2 DEF WindowElapses, CooldownElapses, State
  <2> QED BY <1>1, <2>1 DEF Steady
<1>3. CASE DelayElapses
  <2>1. PICK i \in DOMAIN state.deliveries : state' = [state EXCEPT !.deliveries[i].due = TRUE]
    BY <1>3 DEF DelayElapses
  <2> DEFINE d == state.deliveries
             e == [d[i] EXCEPT !.due = TRUE]
  <2>2. d[i] \in Delivery
    BY <1>0
  <2>3. e.sig = d[i].sig /\ e.dest = d[i].dest /\ e.status = d[i].status /\ e.attempts = d[i].attempts
    BY <2>2 DEF Delivery
  <2>4. state'.deliveries = [d EXCEPT ![i] = e] /\ state'.payloads = state.payloads
    BY <1>0, <2>1 DEF State
  <2>5. d \in Seq(Delivery) /\ i \in 1 .. Len(d)
    BY <1>0
  <2> HIDE DEF d, e
  <2>6. /\ Len(state'.deliveries) = Len(d)
        /\ \A j \in 1 .. Len(d) : state'.deliveries[j] = IF j = i THEN e ELSE d[j]
    BY <2>4, <2>5
  <2> QED BY <1>1, <2>3, <2>4, <2>6 DEF Steady, d
<1> QED BY <1>2, <1>3 DEF Passes

LEMMA ConfiguresSteady ==
    ASSUME TypeOK, IsFull, Configures
    PROVE  Steady
<1>0. state \in State /\ state.deliveries \in Seq(Delivery) /\ Len(state.deliveries) \in Nat /\ MaxHistory \in Nat
  BY QueueIs, OperationsConstants
<1>1. PICK c \in Config : Configure(c)
  BY ConfiguresIs
<1>2. posts' = posts
  BY <1>1 DEF Configure, Reconfigures, history
<1> DEFINE s == [state EXCEPT !.config = c]
<1>3. s \in State /\ s.deliveries = state.deliveries /\ s.payloads = state.payloads
  BY <1>0 DEF State
<1>4. state' = s \/ state' = Bounded(s)
  BY <1>1 DEF Configure, WriteState
<1> HIDE DEF s
<1>5. CASE state' = Bounded(s)
  <2>1. PICK cut \in 0 .. Len(s.deliveries) :
           /\ state'.deliveries = SubSeq(s.deliveries, cut + 1, Len(s.deliveries))
           /\ cut = IF Len(s.deliveries) > MaxHistory THEN Len(s.deliveries) - MaxHistory ELSE 0
           /\ state'.payloads = s.payloads \ {s.deliveries[i].sig : i \in 1 .. cut}
    BY <1>3, <1>5, BoundedIs
  <2>2. cut = 0
    BY <1>0, <1>3, <2>1 DEF IsFull
  <2>3. 1 .. cut = {}
    BY <2>2
  <2>4. state'.deliveries = SubSeq(state.deliveries, 1, Len(state.deliveries))
    BY <1>3, <2>1, <2>2
  <2>5. state'.deliveries = state.deliveries
    BY <1>0, <2>4
  <2>6. state'.payloads = state.payloads
    BY <1>3, <2>1, <2>3
  <2> QED BY <1>2, <2>5, <2>6 DEF Steady
<1>6. CASE state' = s
  BY <1>2, <1>3, <1>6 DEF Steady
<1> QED BY <1>4, <1>5, <1>6

LEMMA SteadyQueue ==
    ASSUME QueueInv, TypeInv', Steady, UNCHANGED <<todo, signals, timeline>>
    PROVE  QueueInv'
<1>1. UNCHANGED <<todo, signals, timeline, posts>>
  BY DEF Steady
<1> QED BY <1>1, QueueUntouched DEF Steady

\* The state is left alone.
LEMMA SameSteady ==
    ASSUME state' = state, posts' = posts
    PROVE  Steady
BY DEF Steady

LEMMA IdleDescends ==
    ASSUME QueueInv, TypeInv', NEW r \in Runners, state' = state, posts' = posts
    PROVE  InOrderly' /\ Descends(r)
<1>1. InOrderly'
  BY DEF QueueInv, InOrderly
<1> QED BY <1>1 DEF Descends

LEMMA StartsOnly ==
    ASSUME TypeOK, NEW r \in Runners, NEW a, Follows(r, a), todo[r] = <<>>
    PROVE  Len(todo'[r]) <= Len(a) /\ Len(todo'[r]) = Len(a)
<1>1. Len(a) \in Nat /\ Len(todo'[r]) \in Nat
  <2>1. a \in Seq(Steps) /\ todo'[r] \in Seq(Steps)
    BY DEF Follows, ToDo
  <2>2. Len(a) \in Nat
    BY <2>1
  <2> QED BY <2>1, <2>2
<1>2. CASE Len(todo'[r]) > Len(a)
  <2>1. Len(a) + 1 \in Len(a) + 1 .. Len(todo'[r])
    BY <1>1, <1>2
  <2>2. Len(a) + 1 - Len(a) + 1 \in 2 .. Len(todo[r])
    BY <2>1 DEF Follows
  <2>3. Len(todo[r]) = 0
    OBVIOUS
  <2> QED BY <1>1, <2>2, <2>3
<1> QED BY <1>1, <1>2 DEF Follows

LEMMA NextQueue == QueueInv /\ [Next]_vars => QueueInv'
<1> SUFFICES ASSUME QueueInv, [Next]_vars PROVE QueueInv'
  OBVIOUS
<1>0. TypeOK /\ TypeInv /\ TypeInv' /\ TypeOK'
  BY NextTypeInv DEF QueueInv, TypeInv
<1>a. IsFull
  BY DEF QueueInv, InOrderly, Queue, IsFull
<1>1. CASE Apart
  BY <1>0, <1>1, ApartIs, SameSteady, SteadyQueue DEF internal, history
<1>2. CASE Passes
  BY <1>0, <1>2, PassesIs, PassesSteady, SteadyQueue
<1>3. CASE Configures
  <2>1. UNCHANGED <<todo, signals, timeline>>
    BY <1>0, <1>3, ConfiguresIs DEF Configure
  <2> QED BY <1>0, <1>a, <1>3, <2>1, ConfiguresSteady, SteadyQueue
<1>4. ASSUME NEW r \in Runners, RunOnce(r) \/ ObserveNow(r) \/ RecordProviderSignal(r)
      PROVE  QueueInv'
  <2>1. PICK a : Begins(r, a)
    BY <1>0, <1>4, StartBegins
  <2>2. Hands(r, a) /\ TimelineGrows
    BY <1>0, <2>1, BeginsHands
  <2>3. Follows(r, a) /\ todo[r] = <<>> /\ state' = state /\ posts' = posts
    BY <2>1 DEF Begins, history
  <2>4. HeadAppended(r, a)
    BY <1>0, <2>3, StartsOnly DEF HeadAppended
  <2> QED BY <1>0, <2>2, <2>3, <2>4, IdleDescends, QueueStep
<1>5. ASSUME NEW r \in Runners, Step(r) PROVE QueueInv'
  <2>1. PICK a : Takes(r, a)
    BY <1>0, <1>5, StepTakes
  <2>2. Hands(r, a) /\ TimelineGrows /\ HeadAppended(r, a) /\ Follows(r, a)
    BY <1>0, <2>1, TakesHands, TakesAppended DEF Takes
  <2>3. InOrderly' /\ Descends(r)
    BY <1>0, <1>5, StepDescends
  <2> QED BY <1>0, <2>2, <2>3, QueueStep
<1>6. ASSUME NEW r \in Runners, Crash(r) PROVE QueueInv'
  <2>1. Dies(r)
    BY <1>0, <1>6, CrashDies
  <2>2. Follows(r, <<>>) /\ UNCHANGED <<signals, timeline, state, posts>>
    BY <2>1 DEF Dies
  <2>3. Hands(r, <<>>) /\ TimelineGrows
    BY <1>0, <2>2, DeathHands
  <2>4. todo'[r] = <<>>
    BY <1>0, <1>6, FailsIs, TypesGive DEF Crash
  <2>5. HeadAppended(r, <<>>)
    BY <2>4 DEF HeadAppended
  <2> QED BY <1>0, <2>2, <2>3, <2>5, IdleDescends, QueueStep
<1>7. CASE UNCHANGED vars
  BY <1>0, <1>7, SameSteady, SteadyQueue DEF vars, history
<1> QED BY <1>1, <1>2, <1>3, <1>4, <1>5, <1>6, <1>7, NextIs

\* What is queued comes from a recorded signal and still has its payload.
LEMMA QueueInvGives == QueueInv => TypeOK /\ DeliveriesExplained /\ PayloadsKept
<1> SUFFICES ASSUME QueueInv PROVE TypeOK /\ DeliveriesExplained /\ PayloadsKept
  OBVIOUS
<1>1. /\ TypeOK /\ Traced /\ InOrderly /\ DOMAIN state.deliveries = 1 .. Len(state.deliveries)
      /\ DOMAIN timeline = 1 .. Len(timeline)
  BY QueueIs DEF QueueInv, TypeInv, TypeOK
<1>2. DeliveriesExplained
  BY <1>1 DEF DeliveriesExplained, Traced, InTimeline
<1>3. PayloadsKept
  BY <1>1 DEF PayloadsKept, InOrderly, Queue
<1> QED BY <1>1, <1>2, <1>3

-----------------------------------------------------------------------------
(* One process that delivers                                               *)

\* When one process delivers, whoever has something to do is that one.
LEMMA Lone ==
    ASSUME TypeOK, RestartsFirst, Alone, NEW q \in Runners, NEW p \in Runners,
           todo[q] # <<>> \/ q \in scenario.runners, todo[p] # <<>> \/ p \in scenario.runners
    PROVE  q = p
<1>1. q \in scenario.runners /\ p \in scenario.runners
  BY HeadFirst
<1>2. IsFiniteSet(scenario.runners)
  BY OperationsConstants DEF TypeOK
<1>3. \E x : scenario.runners = {x}
  BY <1>2, FS_Singleton DEF Alone
<1> QED BY <1>1, <1>3

\* Steps that send nothing
Sending == {"due", "deliver", "record"}
Mute(a) == \A k \in 1 .. Len(a) : a[k].op \notin Sending

LEMMA DullMute ==
    ASSUME NEW a, IsDull(a) \/ OpsIn(a, Dull \cup {"signal"})
    PROVE  Mute(a)
BY DEF IsDull, OpsIn, Dull, Mute, Sending

LEMMA TakesSends ==
    ASSUME TypeOK, NEW r \in Runners, NEW a, Takes(r, a)
    PROVE  \/ Mute(a)
           \/ HeadOp(r) = "due" /\ Dues(a)
           \/ HeadOp(r) = "deliver" /\ \E ok \in BOOLEAN : a = <<Records(Head(todo[r]), ok)>>
<1>0. Kind(r, a)
  BY DEF Takes
<1>1. CASE Quiet(r, a)
  BY <1>1, DullMute DEF Quiet, Sends, Records
<1>2. CASE Captures(r, a)
  BY <1>2, CaptureOps DEF OpsIn, Mute, Sending
<1>3. CASE Appends(r, a)
  <2>1. CASE a = <<>>
    <3>1. 1 .. Len(a) = {}
      BY <2>1
    <3> QED BY <3>1 DEF Mute
  <2>2. CASE a = <<On("enqueue", Head(todo[r]).n)>>
    <3>1. Len(a) = 1 /\ a[1].op = "enqueue"
      BY <2>2 DEF On
    <3> QED BY <3>1 DEF Mute, Sending
  <2> QED BY <1>3, <2>1, <2>2 DEF Appends
<1>4. CASE Ends(r, a)
  BY <1>4, DullMute DEF Ends
<1>5. CASE Gathers(r, a)
  BY <1>5, RecordingDull, DullMute DEF Gathers
<1>6. CASE Lists(r, a) \/ Reserves(r, a) \/ Restarts(r, a) \/ Resets(r, a)
  <2>1. On("signal", Len(signals) + 1).op = "signal" /\ On("capture", Len(events)).op = "capture"
    BY DEF On
  <2> QED BY <1>6, <2>1, ShortOps DEF Mute, Sending
<1> QED BY <1>0, <1>1, <1>2, <1>3, <1>4, <1>5, <1>6 DEF Kind

\* What one process sends is its own.
LEMMA MuteClaims ==
    ASSUME NEW r \in Runners, NEW a \in Seq(Steps), Mute(a)
    PROVE  Claims(Posting, r, a)
<1>1. \A k \in 1 .. Len(a) : a[k] \in Steps
  OBVIOUS
<1>2. \A k \in 1 .. Len(a) : Posting[a[k]] = {}
  BY <1>1, PostingIs DEF Mute, Sending
<1> QED BY <1>2 DEF Claims

LEMMA TakesPosts ==
    ASSUME TypeOK, Unique(state.deliveries), Once(Posting), NEW r \in Runners, NEW a, Takes(r, a)
    PROVE  Claims(Posting, r, a)
<1>0. /\ todo[r] # <<>> /\ a \in Seq(Steps) /\ Head(todo[r]) \in Steps /\ Head(todo[r]) = todo[r][1]
      /\ 1 \in 1 .. Len(todo[r]) /\ DOMAIN state.deliveries = 1 .. Len(state.deliveries)
      /\ \A k \in 1 .. Len(a) : a[k] \in Steps
  <2>1. a \in Seq(Steps) /\ todo[r] # <<>>
    BY DEF Takes, Follows
  <2>2. \A k \in 1 .. Len(a) : a[k] \in Steps
    BY <2>1
  <2> QED BY <2>1, <2>2, HeadIs, TypesGive, QueueIs
<1>1. CASE Mute(a)
  BY <1>0, <1>1, MuteClaims
<1> SUFFICES ASSUME \A k \in 1 .. Len(a) : \A x \in Posting[a[k]] : x \in Posting[todo[r][1]],
                    \A k, j \in 1 .. Len(a) : \A x : (x \in Posting[a[k]] /\ x \in Posting[a[j]]) => k = j
             PROVE  Claims(Posting, r, a)
  <2>1. CASE HeadOp(r) = "due" /\ Dues(a)
    <3>1. Posting[todo[r][1]] = Nat \X Dests
      BY <1>0, <2>1, PostingIs DEF HeadOp
    <3>2. \A k \in 1 .. Len(a) : /\ Posting[a[k]] = {<<a[k].sig, a[k].dest>>}
                                 /\ a[k].sig \in Nat /\ a[k].dest \in Dests
      BY <1>0, <2>1, PostingIs, FieldsAre DEF Dues
    <3>3. ASSUME NEW k \in 1 .. Len(a), NEW j \in 1 .. Len(a), NEW x, x \in Posting[a[k]], x \in Posting[a[j]]
          PROVE  k = j
      <4>1. a[k].sig = a[j].sig /\ a[k].dest = a[j].dest
        BY <3>2, <3>3
      <4>2. CASE k # j
        <5>1. \A g, l \in 1 .. Len(a) :
                 g # l => \E h, i \in DOMAIN state.deliveries :
                    /\ h # i /\ state.deliveries[h].sig = a[g].sig /\ state.deliveries[h].dest = a[g].dest
                    /\ state.deliveries[i].sig = a[l].sig /\ state.deliveries[i].dest = a[l].dest
          BY ONLY <2>1 DEF Dues
        <5>2. PICK h, i \in DOMAIN state.deliveries :
                 /\ h # i /\ state.deliveries[h].sig = a[k].sig /\ state.deliveries[h].dest = a[k].dest
                 /\ state.deliveries[i].sig = a[j].sig /\ state.deliveries[i].dest = a[j].dest
          BY <4>2, <5>1
        <5> QED BY <1>0, <4>1, <5>2 DEF Unique
      <4> QED BY <4>2
    <3>4. \A k \in 1 .. Len(a) : \A x \in Posting[a[k]] : x \in Posting[todo[r][1]]
      BY <3>1, <3>2
    <3> QED BY <3>3, <3>4
  <2>2. ASSUME HeadOp(r) = "deliver", NEW ok \in BOOLEAN, a = <<Records(Head(todo[r]), ok)>>
        PROVE  Claims(Posting, r, a)
    <3> DEFINE s == Head(todo[r])
    <3>1. Len(a) = 1 /\ a[1].op = "record" /\ a[1].sig = s.sig /\ a[1].dest = s.dest
      BY <2>2 DEF Records
    <3>2. Posting[todo[r][1]] = {<<s.sig, s.dest>>}
      BY <1>0, <2>2, PostingIs DEF HeadOp
    <3>3. 1 \in 1 .. Len(a) /\ \A k \in 1 .. Len(a) : k = 1
      BY <3>1
    <3>4. Posting[a[1]] = {<<s.sig, s.dest>>}
      BY <1>0, <3>1, <3>3, PostingIs
    <3> QED BY <3>2, <3>3, <3>4
  <2> QED BY <1>1, <2>1, <2>2, TakesSends
<1>2. ASSUME NEW k \in 1 .. Len(a), NEW x \in Posting[a[k]],
             NEW q \in Runners, NEW j \in 1 .. Len(todo[q]), x \in Posting[todo[q][j]]
      PROVE  q = r /\ j = 1
  BY <1>0, <1>2 DEF Once
<1> QED BY <1>2 DEF Claims

LEMMA BeginsPosts ==
    ASSUME TypeOK, RestartsFirst, Alone, NEW r \in Runners, NEW a, Begins(r, a)
    PROVE  Claims(Posting, r, a) /\ \A k \in 1 .. Len(a) : a[k].op \notin {"deliver", "record"}
<1>0. /\ Follows(r, a) /\ a \in Seq(Steps) /\ todo[r] = <<>> /\ r \in scenario.runners /\ Len(signals) \in Nat
      /\ \A k \in 1 .. Len(a) : a[k] \in Steps
  <2>1. a \in Seq(Steps)
    BY DEF Begins, Follows
  <2>2. \A k \in 1 .. Len(a) : a[k] \in Steps
    BY <2>1
  <2> QED BY <2>1, <2>2, LengthsAre DEF Begins
<1>1. ASSUME NEW q \in Runners PROVE 1 .. Len(todo[q]) = {}
  <2>1. CASE todo[q] # <<>>
    <3>1. q = r
      BY <1>0, <2>1, Lone
    <3> QED BY <1>0, <2>1, <3>1
  <2>2. CASE todo[q] = <<>>
    BY <2>2
  <2> QED BY <2>1, <2>2
<1>2. \A k \in 1 .. Len(a) : a[k].op \notin {"deliver", "record"} /\ (a[k].op = "due" => k = 3)
  <2>1. CASE \A k \in 1 .. Len(a) : a[k].op \in Dull \/ (a[k].op = "due" /\ k = 3)
    BY <2>1 DEF Dull
  <2>2. CASE a = Recording(<<>>, <<Len(signals) + 1>>)
    <3> DEFINE new == <<Len(signals) + 1>>
               b == <<>>
    <3>1. new \in Seq(Nat) /\ IsPlain(b) /\ IsDull(b) /\ a = Recording(b, new)
      BY <1>0, <2>2, PlainsAre
    <3> HIDE DEF new, b
    <3>2. OpsIn(a, Dull \cup {"signal"})
      BY <3>1, RecordingDull
    <3> QED BY <3>2 DEF OpsIn, Dull
  <2> QED BY <2>1, <2>2 DEF Begins
<1>3. ASSUME NEW k \in 1 .. Len(a), NEW j \in 1 .. Len(a), NEW x, x \in Posting[a[k]], x \in Posting[a[j]]
      PROVE  k = j
  <2>1. a[k].op = "due" /\ a[j].op = "due"
    BY <1>0, <1>2, <1>3, PostingIs
  <2> QED BY <1>2, <2>1
<1> QED BY <1>1, <1>2, <1>3 DEF Claims

Open == {"pending", "retry"}
Id(d) == <<d.sig, d.dest>>

\* What is still to be sent or recorded is not settled.
Outstanding ==
    \A r \in Runners : \A k \in 1 .. Len(todo[r]) : todo[r][k].op \in {"deliver", "record"} =>
        \A i \in 1 .. Len(state.deliveries) :
            Id(state.deliveries[i]) = Id(todo[r][k]) => state.deliveries[i].status \in Open

Limited ==
    \A i \in 1 .. Len(state.deliveries) :
        /\ state.deliveries[i].attempts <= MaxAttempts
        /\ state.deliveries[i].status \in Open => state.deliveries[i].attempts < MaxAttempts

\* A delivery was sent as often as it was attempted, but for the deaths and for a
\* process that is about to record the last time.
Underway(id) == \E r \in Runners : todo[r] # <<>> /\ todo[r][1].op = "record" /\ id = Id(todo[r][1])
NowUnderway(id) == \E r \in Runners : todo'[r] # <<>> /\ todo'[r][1].op = "record" /\ id = Id(todo'[r][1])
Counted ==
    \A id \in DOMAIN posts :
        /\ posts[id] \in Nat /\ posts[id] <= MaxAttempts + crashes
        /\ \A i \in 1 .. Len(state.deliveries) : id = Id(state.deliveries[i]) =>
              \/ posts[id] <= state.deliveries[i].attempts + crashes
              \/ posts[id] <= state.deliveries[i].attempts + crashes + 1 /\ Underway(id)

\* What holds while one process delivers
LoneInv == Once(Posting) /\ Outstanding /\ Limited /\ Counted

LEMMA LimitsAre ==
    ASSUME TypeOK
    PROVE  MaxAttempts \in Nat \ {0} /\ crashes \in Nat
BY OperationsConstants DEF TypeOK

LEMMA UnderwayKept ==
    ASSUME TypeOK, NEW r \in Runners, NEW a, Follows(r, a), todo[r] = <<>> \/ HeadOp(r) # "record"
    PROVE  \A id : Underway(id) => NowUnderway(id)
<1>1. ASSUME NEW id, NEW q \in Runners, todo[q] # <<>>, todo[q][1].op = "record", id = Id(todo[q][1])
      PROVE  NowUnderway(id)
  <2>1. q # r
    BY <1>1, HeadIs, TypesGive DEF HeadOp
  <2>2. todo'[q] = todo[q]
    BY <2>1 DEF Follows
  <2> QED BY <1>1, <2>2 DEF NowUnderway
<1> QED BY <1>1 DEF Underway

LEMMA AttemptedOnce ==
    ASSUME NEW d \in Delivery, NEW ok \in BOOLEAN
    PROVE  /\ Attempted(d, ok).attempts = d.attempts + 1
           /\ Attempted(d, ok).status = "retry" => d.attempts + 1 < MaxAttempts
           /\ Attempted(d, ok).status # "pending"
<1> DEFINE limit == IF state.config.dest[d.dest] = "none" THEN 1 ELSE MaxAttempts
           status == CASE ok -> "delivered"
                       [] ~ok /\ d.attempts + 1 >= limit -> "exhausted"
                       [] OTHER -> "retry"
           due == d.due /\ status # "retry"
<1>0. d.attempts \in Nat /\ MaxAttempts \in Nat \ {0}
  BY OperationsConstants DEF Delivery
<1>1. Attempted(d, ok) = [d EXCEPT !.attempts = d.attempts + 1, !.status = status, !.due = due]
  BY DEF Attempted
<1>2. limit \in {1, MaxAttempts}
  OBVIOUS
<1>3. status = "retry" => d.attempts + 1 < limit
  BY <1>0, <1>2
<1>4. status = "retry" => d.attempts + 1 < MaxAttempts
  BY <1>0, <1>2, <1>3
<1>5. status # "pending"
  OBVIOUS
<1> HIDE DEF status, limit, due
<1>6. Attempted(d, ok).attempts = d.attempts + 1 /\ Attempted(d, ok).status = status
  BY <1>1 DEF Delivery
<1> QED BY <1>4, <1>5, <1>6

\* Every delivery is an old one as it was, or was queued by process r.
Kin(r) ==
    \A i \in 1 .. Len(state'.deliveries) :
        \/ \E h \in 1 .. Len(state.deliveries) :
              /\ Id(state'.deliveries[i]) = Id(state.deliveries[h])
              /\ state'.deliveries[i].status = state.deliveries[h].status
              /\ state'.deliveries[i].attempts = state.deliveries[h].attempts
        \/ Born(r, state'.deliveries[i])

\* New steps send what is not settled.
SendsOpen(a) ==
    \A k \in 1 .. Len(a) : a[k].op \in {"deliver", "record"} =>
        \A i \in 1 .. Len(state.deliveries) :
            Id(state.deliveries[i]) = Id(a[k]) => state.deliveries[i].status \in Open

LEMMA OutstandingKept ==
    ASSUME TypeOK, Outstanding, NEW r \in Runners, NEW a, Follows(r, a), Kin(r), SendsOpen(a)
    PROVE  Outstanding'
<1>1. ASSUME NEW q \in Runners, NEW k \in 1 .. Len(todo'[q]), todo'[q][k].op \in {"deliver", "record"},
             NEW h \in 1 .. Len(state.deliveries), Id(state.deliveries[h]) = Id(todo'[q][k])
      PROVE  state.deliveries[h].status \in Open
  <2>1. CASE Old(r, a, q, k)
    BY <1>1, <2>1, Origin DEF Outstanding
  <2>2. CASE ~Old(r, a, q, k)
    BY <1>1, <2>2, Origin DEF SendsOpen
  <2> QED BY <2>1, <2>2
<1>2. ASSUME NEW q \in Runners, NEW k \in 1 .. Len(todo'[q]), todo'[q][k].op \in {"deliver", "record"},
             NEW i \in 1 .. Len(state'.deliveries), Id(state'.deliveries[i]) = Id(todo'[q][k])
      PROVE  state'.deliveries[i].status \in Open
  <2>1. CASE Born(r, state'.deliveries[i])
    BY <2>1 DEF Born, Open
  <2>2. CASE ~Born(r, state'.deliveries[i])
    <3>1. PICK h \in 1 .. Len(state.deliveries) :
              /\ Id(state'.deliveries[i]) = Id(state.deliveries[h])
              /\ state'.deliveries[i].status = state.deliveries[h].status
      BY <2>2 DEF Kin
    <3> QED BY <1>1, <1>2, <3>1
  <2> QED BY <2>1, <2>2
<1>3. \A q \in Runners : \A k \in 1 .. Len(todo'[q]) : todo'[q][k].op \in {"deliver", "record"} =>
        \A i \in 1 .. Len(state'.deliveries) :
            Id(state'.deliveries[i]) = Id(todo'[q][k]) => state'.deliveries[i].status \in Open
  BY <1>2
<1> QED BY ONLY <1>3 DEF Outstanding, Id

LEMMA LimitedKept ==
    ASSUME TypeOK, Limited, NEW r \in Runners, Kin(r)
    PROVE  Limited'
<1>1. ASSUME NEW i \in 1 .. Len(state'.deliveries)
      PROVE  /\ state'.deliveries[i].attempts <= MaxAttempts
             /\ state'.deliveries[i].status \in Open => state'.deliveries[i].attempts < MaxAttempts
  <2>1. CASE Born(r, state'.deliveries[i])
    BY <2>1, LimitsAre DEF Born
  <2>2. CASE ~Born(r, state'.deliveries[i])
    BY <2>2 DEF Kin, Limited
  <2> QED BY <2>1, <2>2
<1> QED BY <1>1 DEF Limited

\* No delivery that was just queued was sent before.
LEMMA BornUnsent ==
    ASSUME NEW r, NEW d, Born(r, d), NEW id \in DOMAIN posts
    PROVE  id # Id(d)
<1>1. id[1] \in Spent
  BY DEF Spent
<1>2. Id(d)[1] = d.sig
  BY DEF Id
<1> QED BY <1>1, <1>2 DEF Born

\* Nothing is sent or recorded.
LEMMA CountedKept ==
    ASSUME TypeOK, Counted, NEW r \in Runners, Kin(r), posts' = posts,
           \/ crashes' = crashes /\ \A id : Underway(id) => NowUnderway(id)
           \/ crashes' = crashes + 1,
           \A i \in 1 .. Len(state.deliveries) : state.deliveries[i].attempts \in Nat
    PROVE  Counted'
<1>0. MaxAttempts \in Nat /\ crashes \in Nat
  BY LimitsAre
<1>1. ASSUME NEW id \in DOMAIN posts
      PROVE  posts[id] \in Nat /\ posts[id] <= MaxAttempts + crashes'
  BY <1>0 DEF Counted
<1>2. ASSUME NEW id \in DOMAIN posts, NEW i \in 1 .. Len(state'.deliveries), id = Id(state'.deliveries[i])
      PROVE  \/ posts[id] <= state'.deliveries[i].attempts + crashes'
             \/ posts[id] <= state'.deliveries[i].attempts + crashes' + 1 /\ NowUnderway(id)
  <2>1. ~Born(r, state'.deliveries[i])
    BY <1>2, BornUnsent
  <2>2. PICK h \in 1 .. Len(state.deliveries) :
            /\ Id(state'.deliveries[i]) = Id(state.deliveries[h])
            /\ state'.deliveries[i].attempts = state.deliveries[h].attempts
    BY <2>1 DEF Kin
  <2>3. \/ posts[id] <= state.deliveries[h].attempts + crashes
        \/ posts[id] <= state.deliveries[h].attempts + crashes + 1 /\ Underway(id)
    BY <1>2, <2>2 DEF Counted
  <2>4. posts[id] \in Nat /\ state.deliveries[h].attempts \in Nat
    BY <1>1
  <2> QED BY <1>0, <2>2, <2>3, <2>4
<1>3. \A id \in DOMAIN posts' :
        /\ posts'[id] \in Nat /\ posts'[id] <= MaxAttempts + crashes'
        /\ \A i \in 1 .. Len(state'.deliveries) : id = Id(state'.deliveries[i]) =>
              \/ posts'[id] <= state'.deliveries[i].attempts + crashes'
              \/ posts'[id] <= state'.deliveries[i].attempts + crashes' + 1 /\ NowUnderway(id)
  BY <1>1, <1>2
<1> QED BY ONLY <1>3 DEF Counted, Underway, NowUnderway, Id

LEMMA OncePair ==
    ASSUME NEW f, Once(f), NEW q \in Runners, NEW p \in Runners,
           NEW k \in 1 .. Len(todo[q]), NEW j \in 1 .. Len(todo[p]), NEW x,
           x \in f[todo[q][k]], x \in f[todo[p][j]]
    PROVE  q = p /\ k = j
BY DEF Once

LEMMA HeadClaims ==
    ASSUME TypeOK, NEW r \in Runners, todo[r] # <<>>, HeadOp(r) \in {"deliver", "record"}
    PROVE  /\ Head(todo[r]) = todo[r][1] /\ 1 \in 1 .. Len(todo[r]) /\ todo[r][1] \in Steps
           /\ Posting[todo[r][1]] = {Id(todo[r][1])} /\ todo[r][1].op = HeadOp(r)
<1>1. Head(todo[r]) = todo[r][1] /\ 1 \in 1 .. Len(todo[r]) /\ todo[r][1] \in Steps
  BY HeadIs, TypesGive
<1> QED BY <1>1, PostingIs DEF HeadOp, Id

\* A delivery that is sent was sent no more often than it was attempted, and the
\* step that records it is what the process does next.
LEMMA PostsCounted ==
    ASSUME TypeOK, Once(Posting), Outstanding, Limited, Counted, NEW r \in Runners, NEW a, Follows(r, a),
           todo[r] # <<>>, Posts(r), crashes' = crashes
    PROVE  Counted'
<1> DEFINE s == todo[r][1]
           n == Id(s)
<1>0. /\ MaxAttempts \in Nat \ {0} /\ crashes \in Nat /\ DOMAIN state.deliveries = 1 .. Len(state.deliveries)
      /\ \A i \in 1 .. Len(state.deliveries) : state.deliveries[i].attempts \in Nat
      /\ HeadOp(r) = "deliver" /\ state'.deliveries = state.deliveries
  BY LimitsAre, QueueIs DEF Posts, KeepsQueue
<1>1. /\ Head(todo[r]) = s /\ 1 \in 1 .. Len(todo[r]) /\ s \in Steps /\ Posting[s] = {n} /\ s.op = "deliver"
  BY <1>0, HeadClaims
<1>2. \A id : Underway(id) => NowUnderway(id)
  BY <1>0, UnderwayKept
<1>3. NowUnderway(n)
  <2>1. PICK ok \in BOOLEAN : todo'[r] # <<>> /\ todo'[r][1] = Records(s, ok)
    BY <1>1 DEF Posts
  <2>2. Records(s, ok).op = "record" /\ Id(Records(s, ok)) = n
    BY DEF Records, Id
  <2> QED BY <2>1, <2>2 DEF NowUnderway
<1>4. ~Underway(n)
  <2>1. ASSUME NEW q \in Runners, todo[q] # <<>>, todo[q][1].op = "record", n = Id(todo[q][1])
        PROVE  FALSE
    <3>1. 1 \in 1 .. Len(todo[q]) /\ HeadOp(q) = "record"
      BY <2>1, HeadIs, TypesGive DEF HeadOp
    <3>2. Posting[todo[q][1]] = {n}
      BY <2>1, <3>1, HeadClaims
    <3>3. q = r
      BY <1>1, <3>1, <3>2 DEF Once
    <3> QED BY <1>1, <2>1, <3>3
  <2> QED BY <2>1 DEF Underway
<1>5. PICK i \in 1 .. Len(state.deliveries) : Id(state.deliveries[i]) = n
  <2>1. Matching(s) # {}
    BY <1>1 DEF Posts
  <2>2. PICK i \in Matching(s) : TRUE
    BY <2>1
  <2> QED BY <1>0, <2>2 DEF Matching, Id
<1>6. ASSUME NEW j \in 1 .. Len(state.deliveries), Id(state.deliveries[j]) = n
      PROVE  state.deliveries[j].attempts < MaxAttempts
  BY <1>1, <1>6 DEF Outstanding, Limited
<1>7. Posted(n)
  BY <1>1 DEF Posts, Id
<1> HIDE DEF n, s
<1>8. /\ DOMAIN posts' = DOMAIN posts \cup {n}
      /\ \A id \in DOMAIN posts : id # n => posts'[id] = posts[id]
      /\ posts'[n] = IF n \in DOMAIN posts THEN posts[n] + 1 ELSE 1
  BY <1>7 DEF Posted
<1>9. ASSUME NEW id \in DOMAIN posts'
      PROVE  /\ posts'[id] \in Nat /\ posts'[id] <= MaxAttempts + crashes
             /\ \A h \in 1 .. Len(state.deliveries) : id = Id(state.deliveries[h]) =>
                   \/ posts'[id] <= state.deliveries[h].attempts + crashes
                   \/ posts'[id] <= state.deliveries[h].attempts + crashes + 1 /\ NowUnderway(id)
  <2>1. CASE id # n
    <3>1. id \in DOMAIN posts /\ posts'[id] = posts[id]
      BY <1>8, <2>1
    <3> QED BY <1>2, <3>1 DEF Counted
  <2>2. CASE id = n /\ n \notin DOMAIN posts
    BY <1>0, <1>3, <1>8, <2>2
  <2>3. CASE id = n /\ n \in DOMAIN posts
    <3>1. /\ posts[n] \in Nat
          /\ \A h \in 1 .. Len(state.deliveries) : n = Id(state.deliveries[h]) =>
                posts[n] <= state.deliveries[h].attempts + crashes
      BY <1>4, <2>3 DEF Counted
    <3>2. posts'[n] = posts[n] + 1
      BY <1>8, <2>3
    <3>3. posts[n] <= state.deliveries[i].attempts + crashes /\ state.deliveries[i].attempts < MaxAttempts
      BY <1>5, <1>6, <3>1
    <3>4. posts'[n] \in Nat /\ posts'[n] <= MaxAttempts + crashes
      BY <1>0, <3>1, <3>2, <3>3
    <3>5. ASSUME NEW h \in 1 .. Len(state.deliveries), n = Id(state.deliveries[h])
          PROVE  posts'[n] <= state.deliveries[h].attempts + crashes + 1
      BY <1>0, <3>1, <3>2, <3>5
    <3> QED BY <1>3, <2>3, <3>4, <3>5
  <2> QED BY <2>1, <2>2, <2>3
<1>10. \A id \in DOMAIN posts' :
          /\ posts'[id] \in Nat /\ posts'[id] <= MaxAttempts + crashes'
          /\ \A h \in 1 .. Len(state'.deliveries) : id = Id(state'.deliveries[h]) =>
                \/ posts'[id] <= state'.deliveries[h].attempts + crashes'
                \/ posts'[id] <= state'.deliveries[h].attempts + crashes' + 1 /\ NowUnderway(id)
  BY <1>0, <1>9
<1> QED BY ONLY <1>10 DEF Counted, Underway, NowUnderway, Id

\* One delivery is attempted once more.
AttemptedAt(i, e) ==
    /\ i \in 1 .. Len(state.deliveries) /\ Len(state'.deliveries) = Len(state.deliveries)
    /\ \A j \in 1 .. Len(state.deliveries) : j # i => state'.deliveries[j] = state.deliveries[j]
    /\ state'.deliveries[i] = e
    /\ Id(e) = Id(state.deliveries[i]) /\ e.attempts = state.deliveries[i].attempts + 1
    /\ e.status \in Open => e.attempts < MaxAttempts

LEMMA SettlesOne ==
    ASSUME TypeOK, TypeOK', NEW r \in Runners, todo[r] # <<>>, Settles(r), Matching(Head(todo[r])) # {}
    PROVE  \E i, e : AttemptedAt(i, e) /\ Id(state.deliveries[i]) = Id(todo[r][1])
<1> DEFINE d == state.deliveries
           s == Head(todo[r])
<1>0. /\ d \in Seq(Delivery) /\ Len(d) \in Nat /\ DOMAIN d = 1 .. Len(d)
      /\ \A i \in 1 .. Len(d) : d[i] \in Delivery
      /\ s = todo[r][1] /\ s \in Steps /\ s.op = "record"
  BY QueueIs, HeadIs, TypesGive DEF Settles, HeadOp
<1>1. PICK i \in Matching(s) : state'.deliveries = [d EXCEPT ![i] = Attempted(d[i], s.ok)]
  BY DEF Settles
<1>2. s.ok \in BOOLEAN
  BY <1>0, FieldsAre
<1>3. i \in 1 .. Len(d) /\ Id(d[i]) = Id(s)
  BY <1>0, <1>1 DEF Matching, Id
<1> DEFINE e == Attempted(d[i], s.ok)
<1>4. /\ e.sig = d[i].sig /\ e.dest = d[i].dest /\ e.attempts = d[i].attempts + 1
      /\ e.status = "retry" => d[i].attempts + 1 < MaxAttempts
      /\ e.status # "pending"
  BY <1>0, <1>2, <1>3, AttemptedIs, AttemptedOnce
<1>5. state'.deliveries = [d EXCEPT ![i] = e]
  BY <1>1
<1> HIDE DEF e
<1>6. /\ Len(state'.deliveries) = Len(d) /\ state'.deliveries[i] = e
      /\ \A j \in 1 .. Len(d) : j # i => state'.deliveries[j] = d[j]
  BY <1>0, <1>3, <1>5
<1>7. AttemptedAt(i, e)
  BY <1>3, <1>4, <1>6 DEF AttemptedAt, Id, Open
<1> QED BY <1>0, <1>3, <1>7

\* Recording a result settles what no other step sends.
LEMMA SettlesKept ==
    ASSUME TypeOK, TypeOK', Unique(state.deliveries), LoneInv, NEW r \in Runners, NEW a, Follows(r, a), Mute(a),
           todo[r] # <<>>, HeadOp(r) = "record", NEW i, NEW e, AttemptedAt(i, e),
           Id(state.deliveries[i]) = Id(todo[r][1]), posts' = posts, crashes' = crashes
    PROVE  Outstanding' /\ Limited' /\ Counted'
<1> DEFINE d == state.deliveries
<1>0. /\ Len(d) \in Nat /\ \A j \in 1 .. Len(d) : d[j].attempts \in Nat
      /\ MaxAttempts \in Nat \ {0} /\ crashes \in Nat
      /\ Once(Posting) /\ Outstanding /\ Limited /\ Counted
  BY QueueIs, LimitsAre DEF LoneInv
<1>1. /\ Head(todo[r]) = todo[r][1] /\ 1 \in 1 .. Len(todo[r]) /\ todo[r][1] \in Steps
      /\ Posting[todo[r][1]] = {Id(todo[r][1])} /\ todo[r][1].op = "record"
  BY HeadClaims
<1>2. /\ i \in 1 .. Len(d) /\ Len(state'.deliveries) = Len(d) /\ state'.deliveries[i] = e
      /\ \A j \in 1 .. Len(d) : j # i => state'.deliveries[j] = d[j]
      /\ Id(e) = Id(d[i]) /\ e.attempts = d[i].attempts + 1 /\ (e.status \in Open => e.attempts < MaxAttempts)
  BY DEF AttemptedAt
<1>3. d[i].status \in Open /\ d[i].attempts < MaxAttempts
  BY <1>0, <1>1, <1>2 DEF Outstanding, Limited
<1>4. \A j \in 1 .. Len(d) : Id(d[j]) = Id(d[i]) => j = i
  BY <1>2 DEF Unique, Id
<1> HIDE DEF d
<1>5. Limited'
  <2>1. ASSUME NEW j \in 1 .. Len(state'.deliveries)
        PROVE  /\ state'.deliveries[j].attempts <= MaxAttempts
               /\ state'.deliveries[j].status \in Open => state'.deliveries[j].attempts < MaxAttempts
    <3>1. CASE j = i
      BY <1>0, <1>2, <1>3, <3>1
    <3>2. CASE j # i
      BY <1>0, <1>2, <3>2 DEF Limited, d
    <3> QED BY <3>1, <3>2
  <2> QED BY <2>1 DEF Limited
<1>6. Outstanding'
  <2>1. ASSUME NEW q \in Runners, NEW k \in 1 .. Len(todo'[q]), todo'[q][k].op \in {"deliver", "record"},
               NEW j \in 1 .. Len(state'.deliveries), Id(state'.deliveries[j]) = Id(todo'[q][k])
        PROVE  state'.deliveries[j].status \in Open
    <3>1. Old(r, a, q, k)
      BY <2>1, Origin DEF Mute, Sending
    <3> DEFINE h == Source(r, a, q, k)
    <3>2. h \in 1 .. Len(todo[q]) /\ todo'[q][k] = todo[q][h] /\ (q = r => h # 1)
      BY <3>1, Origin
    <3> HIDE DEF h
    <3>3. CASE j = i
      <4>1. Id(todo[q][h]) = Id(todo[r][1])
        BY <1>2, <2>1, <3>2, <3>3 DEF d
      <4>2. todo[q][h] \in Steps
        BY <3>2, LengthsAre
      <4>3. Posting[todo[q][h]] = {Id(todo[q][h])}
        BY <2>1, <3>2, <4>2, PostingIs DEF Id
      <4>4. q = r /\ h = 1
        <5>1. Id(todo[r][1]) \in Posting[todo[q][h]] /\ Id(todo[r][1]) \in Posting[todo[r][1]]
          BY <1>1, <4>1, <4>3
        <5>2. h \in 1 .. Len(todo[q]) /\ 1 \in 1 .. Len(todo[r])
          BY <1>1, <3>2
        <5>3. Once(Posting)
          BY <1>0
        <5>4. \A x : (x \in Posting[todo[q][h]] /\ x \in Posting[todo[r][1]]) => (q = r /\ h = 1)
          BY <5>2, <5>3 DEF Once
        <5> QED BY <5>1, <5>4, Zenon
      <4> QED BY <3>2, <4>4
    <3>4. CASE j # i
      BY <1>0, <1>2, <2>1, <3>2, <3>4 DEF Outstanding, d
    <3> QED BY <3>3, <3>4
  <2>2. \A q \in Runners : \A k \in 1 .. Len(todo'[q]) : todo'[q][k].op \in {"deliver", "record"} =>
          \A j \in 1 .. Len(state'.deliveries) :
              Id(state'.deliveries[j]) = Id(todo'[q][k]) => state'.deliveries[j].status \in Open
    BY <2>1
  <2> QED BY ONLY <2>2 DEF Outstanding, Id
<1>7. Counted'
  <2>1. ASSUME NEW id, Underway(id), id # Id(todo[r][1])
        PROVE  NowUnderway(id)
    <3>1. PICK q \in Runners : todo[q] # <<>> /\ todo[q][1].op = "record" /\ id = Id(todo[q][1])
      BY <2>1 DEF Underway
    <3>2. q # r
      BY <2>1, <3>1
    <3>3. todo'[q] = todo[q]
      BY <3>2 DEF Follows
    <3> QED BY <3>1, <3>3 DEF NowUnderway
  <2>2. ASSUME NEW id \in DOMAIN posts, NEW j \in 1 .. Len(state'.deliveries), id = Id(state'.deliveries[j])
        PROVE  \/ posts[id] <= state'.deliveries[j].attempts + crashes
               \/ posts[id] <= state'.deliveries[j].attempts + crashes + 1 /\ NowUnderway(id)
    <3>0. j \in 1 .. Len(d) /\ id = Id(d[j]) /\ posts[id] \in Nat
      BY <1>0, <1>2, <2>2 DEF Counted
    <3>1. \/ posts[id] <= d[j].attempts + crashes
          \/ posts[id] <= d[j].attempts + crashes + 1 /\ Underway(id)
      BY <1>0, <3>0 DEF Counted, d
    <3>2. CASE j = i
      BY <1>0, <1>2, <3>0, <3>1, <3>2
    <3>3. CASE j # i
      <4>1. id # Id(todo[r][1])
        BY <1>4, <3>0, <3>3 DEF d
      <4>2. state'.deliveries[j] = d[j]
        BY <1>2, <3>0, <3>3
      <4> QED BY <2>1, <3>1, <4>1, <4>2
    <3> QED BY <3>2, <3>3
  <2>3. \A id \in DOMAIN posts : posts[id] \in Nat /\ posts[id] <= MaxAttempts + crashes
    BY <1>0 DEF Counted
  <2>4. \A id \in DOMAIN posts' :
          /\ posts'[id] \in Nat /\ posts'[id] <= MaxAttempts + crashes'
          /\ \A h \in 1 .. Len(state'.deliveries) : id = Id(state'.deliveries[h]) =>
                \/ posts'[id] <= state'.deliveries[h].attempts + crashes'
                \/ posts'[id] <= state'.deliveries[h].attempts + crashes' + 1 /\ NowUnderway(id)
    BY <2>2, <2>3
  <2> QED BY ONLY <2>4 DEF Counted, Underway, NowUnderway, Id
<1> QED BY <1>5, <1>6, <1>7

\* The one delivery that process r records a result of
AttemptedBy(r) ==
    /\ todo[r] # <<>> /\ HeadOp(r) = "record"
    /\ \E i, e : AttemptedAt(i, e) /\ Id(state.deliveries[i]) = Id(todo[r][1])

LEMMA KeptKin ==
    ASSUME NEW r, state'.deliveries = state.deliveries
    PROVE  Kin(r)
BY DEF Kin

LEMMA StepKin ==
    ASSUME QueueInv, TypeInv', NEW r \in Runners, Step(r)
    PROVE  /\ todo[r] # <<>>
           /\ \/ Kin(r) /\ posts' = posts /\ HeadOp(r) # "record"
              \/ Kin(r) /\ Posts(r)
              \/ /\ HeadOp(r) = "record" /\ Matching(Head(todo[r])) = {}
                 /\ state'.deliveries = state.deliveries /\ posts' = posts
              \/ AttemptedBy(r) /\ posts' = posts
<1>0. TypeOK /\ TypeOK' /\ Explained /\ Unspent /\ InOrderly /\ IsFull
  BY DEF QueueInv, TypeInv, IsFull, InOrderly, Queue
<1>1. todo[r] # <<>> /\ (Rests(r) \/ Queues(r) \/ Settles(r) \/ Posts(r))
  BY <1>0, StepEffects
<1>2. CASE Rests(r)
  BY <1>1, <1>2, KeptKin DEF Rests, KeepsQueue
<1>3. CASE Queues(r)
  <2>1. \A i \in 1 .. Len(state'.deliveries) :
           \/ \E h \in 1 .. Len(state.deliveries) : state'.deliveries[i] = state.deliveries[h]
           \/ Born(r, state'.deliveries[i])
    BY <1>0, <1>1, <1>3, QueuesGain
  <2>2. Kin(r)
    BY <2>1 DEF Kin
  <2> QED BY <1>1, <1>3, <2>2 DEF Queues
<1>4. CASE Posts(r)
  BY <1>1, <1>4, KeptKin DEF Posts, KeepsQueue
<1>5. CASE Settles(r) /\ Matching(Head(todo[r])) = {}
  BY <1>1, <1>5 DEF Settles
<1>6. CASE Settles(r) /\ Matching(Head(todo[r])) # {}
  BY <1>0, <1>1, <1>6, SettlesOne DEF Settles, AttemptedBy
<1> QED BY <1>1, <1>2, <1>3, <1>4, <1>5, <1>6

LEMMA PostingKept ==
    ASSUME TypeOK, NEW r \in Runners, NEW a, Follows(r, a), Once(Posting), Claims(Posting, r, a)
    PROVE  Once(Posting)'
<1> DEFINE f == [s \in Steps |-> Posting[s]]
<1>1. f = Posting
  BY DEF Posting
<1> HIDE DEF f
<1>2. Once(f) /\ Claims(f, r, a)
  BY <1>1
<1>3. Once(f)'
  BY <1>2, OnceKept
<1> QED BY <1>1, <1>3

LEMMA TakesOpen ==
    ASSUME TypeOK, Unique(state.deliveries), Outstanding, NEW r \in Runners, NEW a, Takes(r, a)
    PROVE  SendsOpen(a)
<1>0. todo[r] # <<>> /\ DOMAIN state.deliveries = 1 .. Len(state.deliveries)
  BY QueueIs DEF Takes
<1>1. CASE Mute(a)
  BY <1>1 DEF Mute, SendsOpen, Sending
<1>2. CASE Dues(a)
  <2>1. ASSUME NEW k \in 1 .. Len(a), NEW i \in 1 .. Len(state.deliveries), Id(state.deliveries[i]) = Id(a[k])
        PROVE  state.deliveries[i].status \in Open
    <3>1. PICK h \in Matching(a[k]) : IsDue(state.deliveries[h])
      BY <1>2 DEF Dues
    <3>2. h \in 1 .. Len(state.deliveries) /\ state.deliveries[h].sig = a[k].sig /\ state.deliveries[h].dest = a[k].dest
      BY <1>0, <3>1 DEF Matching
    <3>3. h = i
      BY <2>1, <3>2 DEF Unique, Id
    <3> QED BY <3>1, <3>3 DEF IsDue, Open
  <2> QED BY <2>1 DEF SendsOpen
<1>3. ASSUME HeadOp(r) = "deliver", NEW ok \in BOOLEAN, a = <<Records(Head(todo[r]), ok)>>
      PROVE  SendsOpen(a)
  <2>1. Head(todo[r]) = todo[r][1] /\ 1 \in 1 .. Len(todo[r]) /\ todo[r][1].op = "deliver"
    BY <1>0, <1>3, HeadClaims
  <2>2. Len(a) = 1 /\ Id(a[1]) = Id(todo[r][1])
    BY <1>3, <2>1 DEF Records, Id
  <2>3. \A k \in 1 .. Len(a) : k = 1
    BY <2>2
  <2> QED BY <2>1, <2>2, <2>3 DEF Outstanding, SendsOpen
<1> QED BY <1>1, <1>2, <1>3, TakesSends

\* The result of a delivery that is gone is dropped.
LEMMA DropsCounted ==
    ASSUME TypeOK, Counted, NEW r \in Runners, NEW a, Follows(r, a), todo[r] # <<>>, HeadOp(r) = "record",
           Matching(Head(todo[r])) = {}, state'.deliveries = state.deliveries, posts' = posts, crashes' = crashes
    PROVE  Counted'
<1>0. Head(todo[r]) = todo[r][1] /\ DOMAIN state.deliveries = 1 .. Len(state.deliveries)
  BY HeadClaims, QueueIs
<1>1. \A i \in 1 .. Len(state.deliveries) : Id(state.deliveries[i]) # Id(todo[r][1])
  BY <1>0 DEF Matching, Id
<1>2. ASSUME NEW id, Underway(id), id # Id(todo[r][1])
      PROVE  NowUnderway(id)
  <2>1. PICK q \in Runners : todo[q] # <<>> /\ todo[q][1].op = "record" /\ id = Id(todo[q][1])
    BY <1>2 DEF Underway
  <2>2. q # r
    BY <1>2, <2>1
  <2>3. todo'[q] = todo[q]
    BY <2>2 DEF Follows
  <2> QED BY <2>1, <2>3 DEF NowUnderway
<1>3. ASSUME NEW id \in DOMAIN posts
      PROVE  /\ posts[id] \in Nat /\ posts[id] <= MaxAttempts + crashes
             /\ \A i \in 1 .. Len(state.deliveries) : id = Id(state.deliveries[i]) =>
                   \/ posts[id] <= state.deliveries[i].attempts + crashes
                   \/ posts[id] <= state.deliveries[i].attempts + crashes + 1 /\ NowUnderway(id)
  BY <1>1, <1>2 DEF Counted
<1>4. \A id \in DOMAIN posts' :
        /\ posts'[id] \in Nat /\ posts'[id] <= MaxAttempts + crashes'
        /\ \A h \in 1 .. Len(state'.deliveries) : id = Id(state'.deliveries[h]) =>
              \/ posts'[id] <= state'.deliveries[h].attempts + crashes'
              \/ posts'[id] <= state'.deliveries[h].attempts + crashes' + 1 /\ NowUnderway(id)
  BY <1>3
<1> QED BY ONLY <1>4 DEF Counted, Underway, NowUnderway, Id

LEMMA StepLone ==
    ASSUME QueueInv, TypeInv', LoneInv, NEW r \in Runners, Step(r)
    PROVE  LoneInv'
<1>0. /\ TypeOK /\ TypeOK' /\ TypeInv /\ Unique(state.deliveries)
      /\ Once(Posting) /\ Outstanding /\ Limited /\ Counted
      /\ \A i \in 1 .. Len(state.deliveries) : state.deliveries[i].attempts \in Nat
  BY QueueIs DEF QueueInv, TypeInv, InOrderly, Queue, LoneInv
<1>1. PICK a : Takes(r, a)
  BY <1>0, StepTakes
<1>2. Follows(r, a) /\ crashes' = crashes
  BY <1>1 DEF Takes
<1>3. Once(Posting)'
  BY <1>0, <1>1, <1>2, TakesPosts, PostingKept
<1>4. SendsOpen(a)
  BY <1>0, <1>1, TakesOpen
<1>5. todo[r] # <<>>
  BY StepKin
<1>6. CASE Kin(r) /\ posts' = posts /\ HeadOp(r) # "record"
  <2>1. \A id : Underway(id) => NowUnderway(id)
    BY <1>0, <1>2, <1>6, UnderwayKept
  <2>2. Outstanding' /\ Limited'
    BY <1>0, <1>2, <1>4, <1>6, OutstandingKept, LimitedKept
  <2>3. Counted'
    BY <1>0, <1>2, <1>6, <2>1, CountedKept
  <2> QED BY <1>3, <2>2, <2>3 DEF LoneInv
<1>7. CASE Kin(r) /\ Posts(r)
  <2>1. Outstanding' /\ Limited'
    BY <1>0, <1>2, <1>4, <1>7, OutstandingKept, LimitedKept
  <2>2. Counted'
    BY <1>0, <1>2, <1>5, <1>7, PostsCounted
  <2> QED BY <1>3, <2>1, <2>2 DEF LoneInv
<1>8. CASE /\ HeadOp(r) = "record" /\ Matching(Head(todo[r])) = {}
           /\ state'.deliveries = state.deliveries /\ posts' = posts
  <2>1. Outstanding' /\ Limited'
    BY <1>0, <1>2, <1>4, <1>8, KeptKin, OutstandingKept, LimitedKept
  <2>2. Counted'
    BY <1>0, <1>2, <1>5, <1>8, DropsCounted
  <2> QED BY <1>3, <2>1, <2>2 DEF LoneInv
<1>9. CASE AttemptedBy(r) /\ posts' = posts
  <2>1. Mute(a)
    BY <1>0, <1>1, <1>9, TakesSends DEF AttemptedBy
  <2>2. Outstanding' /\ Limited' /\ Counted'
    BY <1>0, <1>2, <1>9, <2>1, SettlesKept DEF AttemptedBy
  <2> QED BY <1>3, <2>2 DEF LoneInv
<1> QED BY <1>6, <1>7, <1>8, <1>9, StepKin

LEMMA SteadyLone ==
    ASSUME TypeOK, LoneInv, Steady, UNCHANGED <<todo, crashes>>
    PROVE  LoneInv'
<1>0. Once(Posting) /\ Outstanding /\ Limited /\ Counted
  BY DEF LoneInv
<1>1. Once(Posting)'
  <2> DEFINE f == [s \in Steps |-> Posting[s]]
  <2>1. f = Posting
    BY DEF Posting
  <2> HIDE DEF f
  <2>2. Once(f)
    BY <1>0, <2>1
  <2>a. todo' = todo
    OBVIOUS
  <2>b. \A q, p \in Runners : \A k \in 1 .. Len(todo[q]), j \in 1 .. Len(todo[p]) : \A x :
            (x \in f[todo[q][k]] /\ x \in f[todo[p][j]]) => (q = p /\ k = j)
    BY ONLY <2>2 DEF Once
  <2>3. \A q, p \in Runners : \A k \in 1 .. Len(todo'[q]), j \in 1 .. Len(todo'[p]) : \A x :
            (x \in f[todo'[q][k]] /\ x \in f[todo'[p][j]]) => (q = p /\ k = j)
    BY ONLY <2>a, <2>b
  <2>4. Once(f)'
    BY ONLY <2>3 DEF Once
  <2> QED BY <2>1, <2>4
<1>2. /\ posts' = posts /\ Len(state'.deliveries) = Len(state.deliveries)
      /\ \A i \in 1 .. Len(state.deliveries) : /\ Id(state'.deliveries[i]) = Id(state.deliveries[i])
                                               /\ state'.deliveries[i].status = state.deliveries[i].status
                                               /\ state'.deliveries[i].attempts = state.deliveries[i].attempts
  BY DEF Steady, Id
<1>3. Outstanding'
  <2>1. \A q \in Runners : \A k \in 1 .. Len(todo'[q]) : todo'[q][k].op \in {"deliver", "record"} =>
          \A j \in 1 .. Len(state'.deliveries) :
              Id(state'.deliveries[j]) = Id(todo'[q][k]) => state'.deliveries[j].status \in Open
    BY <1>0, <1>2 DEF Outstanding
  <2> QED BY ONLY <2>1 DEF Outstanding, Id
<1>4. Limited'
  BY <1>0, <1>2 DEF Limited
<1>5. Counted'
  <2>1. \A id : Underway(id) => NowUnderway(id)
    BY DEF Underway, NowUnderway
  <2>2. \A id \in DOMAIN posts' :
          /\ posts'[id] \in Nat /\ posts'[id] <= MaxAttempts + crashes'
          /\ \A h \in 1 .. Len(state'.deliveries) : id = Id(state'.deliveries[h]) =>
                \/ posts'[id] <= state'.deliveries[h].attempts + crashes'
                \/ posts'[id] <= state'.deliveries[h].attempts + crashes' + 1 /\ NowUnderway(id)
    BY <1>0, <1>2, <2>1 DEF Counted
  <2> QED BY ONLY <2>2 DEF Counted, Underway, NowUnderway, Id
<1> QED BY <1>1, <1>3, <1>4, <1>5 DEF LoneInv

-----------------------------------------------------------------------------
(* Deliveries are accountable, and settled for good.                       *)

DeliveryInv == QueueInv /\ RestartInv /\ (Alone => LoneInv)

LEMMA InitDelivery == Init => DeliveryInv
<1> SUFFICES ASSUME Init PROVE DeliveryInv
  OBVIOUS
<1>1. QueueInv /\ RestartInv
  BY InitQueue, InitRestart
<1>2. \A r \in Runners : 1 .. Len(todo[r]) = {}
  BY DEF Init
<1>3. state.deliveries = <<>>
  BY DEF Init, Configured, FreshState
<1>4. 1 .. Len(state.deliveries) = {} /\ DOMAIN posts = {}
  BY <1>3 DEF Init
<1>5. Once(Posting) /\ Outstanding /\ Limited /\ Counted
  BY <1>2, <1>4 DEF Once, Outstanding, Limited, Counted
<1> QED BY <1>1, <1>5 DEF DeliveryInv, LoneInv

LEMMA StartLone ==
    ASSUME QueueInv, RestartsFirst, Alone, LoneInv, NEW r \in Runners, NEW a, Begins(r, a)
    PROVE  LoneInv'
<1>0. /\ TypeOK /\ Once(Posting) /\ Outstanding /\ Limited /\ Counted
      /\ \A i \in 1 .. Len(state.deliveries) : state.deliveries[i].attempts \in Nat
  BY QueueIs DEF QueueInv, TypeInv, LoneInv
<1>1. /\ Follows(r, a) /\ todo[r] = <<>> /\ state' = state /\ posts' = posts /\ crashes' = crashes
  BY DEF Begins, history
<1>2. Claims(Posting, r, a) /\ SendsOpen(a)
  BY <1>0, BeginsPosts DEF SendsOpen
<1>3. Kin(r)
  BY <1>1, KeptKin
<1>4. \A id : Underway(id) => NowUnderway(id)
  BY <1>0, <1>1, UnderwayKept
<1>5. Once(Posting)'
  BY <1>0, <1>1, <1>2, PostingKept
<1>6. Outstanding' /\ Limited'
  BY <1>0, <1>1, <1>2, <1>3, OutstandingKept, LimitedKept
<1>7. Counted'
  BY <1>0, <1>1, <1>3, <1>4, CountedKept
<1> QED BY <1>5, <1>6, <1>7 DEF LoneInv

LEMMA DeathLone ==
    ASSUME QueueInv, LoneInv, NEW r \in Runners, Dies(r)
    PROVE  LoneInv'
<1>0. /\ TypeOK /\ Once(Posting) /\ Outstanding /\ Limited /\ Counted
      /\ \A i \in 1 .. Len(state.deliveries) : state.deliveries[i].attempts \in Nat
  BY QueueIs DEF QueueInv, TypeInv, LoneInv
<1> DEFINE a == <<>>
<1>1. /\ Follows(r, a) /\ state' = state /\ posts' = posts /\ crashes' = crashes + 1
  BY DEF Dies
<1>2. a \in Seq(Steps) /\ 1 .. Len(a) = {}
  OBVIOUS
<1> HIDE DEF a
<1>3. Mute(a) /\ SendsOpen(a)
  BY <1>2 DEF Mute, SendsOpen
<1>4. Kin(r)
  BY <1>1, KeptKin
<1>5. Once(Posting)'
  BY <1>0, <1>1, <1>2, <1>3, MuteClaims, PostingKept
<1>6. Outstanding' /\ Limited'
  BY <1>0, <1>1, <1>3, <1>4, OutstandingKept, LimitedKept
<1>7. Counted'
  BY <1>0, <1>1, <1>4, CountedKept
<1> QED BY <1>5, <1>6, <1>7 DEF LoneInv

\* All but the steps of a process leave the deliveries as they are.
LEMMA OthersSteady ==
    ASSUME QueueInv, [Next]_vars
    PROVE  Steady \/ \E r \in Runners : Step(r)
<1>0. TypeOK /\ IsFull
  BY DEF QueueInv, TypeInv, IsFull, InOrderly, Queue
<1>1. CASE Apart
  BY <1>0, <1>1, ApartIs, SameSteady DEF internal, history
<1>2. CASE Passes
  BY <1>0, <1>2, PassesSteady
<1>3. CASE Configures
  BY <1>0, <1>3, ConfiguresSteady
<1>4. ASSUME NEW r \in Runners, RunOnce(r) \/ ObserveNow(r) \/ RecordProviderSignal(r)
      PROVE  Steady
  BY <1>0, <1>4, StartBegins, SameSteady DEF Begins, history
<1>6. ASSUME NEW r \in Runners, Crash(r) PROVE Steady
  BY <1>0, <1>6, CrashDies, SameSteady DEF Dies
<1>7. CASE UNCHANGED vars
  BY <1>7, SameSteady DEF vars, history
<1> QED BY <1>1, <1>2, <1>3, <1>4, <1>6, <1>7, NextIs

LEMMA ScenarioStays ==
    ASSUME TypeInv, [Next]_vars
    PROVE  scenario' = scenario
<1>0. TypeOK
  BY DEF TypeInv
<1>1. CASE Apart
  BY <1>0, <1>1, ApartIs
<1>2. CASE Passes
  BY <1>2, PassesIs
<1>3. CASE Configures
  BY <1>0, <1>3, ConfiguresIs DEF Configure
<1>4. ASSUME NEW r \in Runners, RunOnce(r) \/ ObserveNow(r) \/ RecordProviderSignal(r)
      PROVE  scenario' = scenario
  BY <1>0, <1>4, StartBegins DEF Begins
<1>5. ASSUME NEW r \in Runners, Step(r) PROVE scenario' = scenario
  BY <1>5, StepTakes DEF Takes
<1>6. ASSUME NEW r \in Runners, Crash(r) PROVE scenario' = scenario
  BY <1>0, <1>6, CrashDies DEF Dies
<1>7. CASE UNCHANGED vars
  BY <1>7 DEF vars
<1> QED BY <1>1, <1>2, <1>3, <1>4, <1>5, <1>6, <1>7, NextIs

LEMMA NextDelivery == DeliveryInv /\ [Next]_vars => DeliveryInv'
<1> SUFFICES ASSUME DeliveryInv, [Next]_vars PROVE DeliveryInv'
  OBVIOUS
<1>0. /\ QueueInv /\ QueueInv' /\ RestartInv /\ RestartInv' /\ TypeInv /\ TypeInv' /\ TypeOK
      /\ RestartsFirst
  BY NextQueue, NextRestart DEF DeliveryInv, QueueInv, TypeInv, RestartInv
<1> SUFFICES ASSUME Alone' PROVE LoneInv'
  BY <1>0 DEF DeliveryInv
<1>a. Alone /\ LoneInv
  <2>1. scenario' = scenario
    BY <1>0, ScenarioStays
  <2> QED BY <2>1 DEF Alone, DeliveryInv
<1>b. IsFull
  BY <1>0 DEF QueueInv, IsFull, InOrderly, Queue
<1>1. CASE Apart
  BY <1>0, <1>a, <1>1, ApartIs, SameSteady, SteadyLone DEF internal, history
<1>2. CASE Passes
  BY <1>0, <1>a, <1>2, PassesIs, PassesSteady, SteadyLone
<1>3. CASE Configures
  <2>1. UNCHANGED <<todo, crashes>>
    BY <1>0, <1>3, ConfiguresIs DEF Configure
  <2> QED BY <1>0, <1>a, <1>b, <1>3, <2>1, ConfiguresSteady, SteadyLone
<1>4. ASSUME NEW r \in Runners, RunOnce(r) \/ ObserveNow(r) \/ RecordProviderSignal(r)
      PROVE  LoneInv'
  BY <1>0, <1>a, <1>4, StartBegins, StartLone
<1>5. ASSUME NEW r \in Runners, Step(r) PROVE LoneInv'
  BY <1>0, <1>a, <1>5, StepLone
<1>6. ASSUME NEW r \in Runners, Crash(r) PROVE LoneInv'
  BY <1>0, <1>a, <1>6, CrashDies, DeathLone
<1>7. CASE UNCHANGED vars
  BY <1>0, <1>a, <1>7, SameSteady, SteadyLone DEF vars, history
<1> QED BY <1>1, <1>2, <1>3, <1>4, <1>5, <1>6, <1>7, NextIs

LEMMA DeliveryInvGives == DeliveryInv => DeliveriesAccountable
<1> SUFFICES ASSUME DeliveryInv PROVE DeliveriesAccountable
  OBVIOUS
<1>1. TypeOK /\ DeliveriesExplained /\ PayloadsKept
  BY QueueInvGives DEF DeliveryInv
<1>2. PostsBounded
  BY DEF DeliveryInv, LoneInv, Counted, PostsBounded
<1> QED BY <1>1, <1>2 DEF DeliveriesAccountable

\* Deliveries can be accounted for: each comes from a signal that enqueue_subscriptions
\* found in the timeline, write_state keeps its payload as long as it keeps the delivery,
\* and deliver_due sends it no more often than its attempts and the deaths explain.
THEOREM DeliveriesAreAccountable == Spec => []DeliveriesAccountable
<1> QED BY DeliveryInvGives, InitDelivery, NextDelivery, PTL DEF Spec

\* What was settled is not sent, not queued and not recorded again.
LEMMA SettledStays ==
    ASSUME DeliveryInv, [Next]_vars, Alone, NEW i \in DOMAIN state.deliveries,
           state.deliveries[i].status \in {"delivered", "exhausted"},
           NEW j \in DOMAIN state'.deliveries,
           state'.deliveries[j].sig = state.deliveries[i].sig,
           state'.deliveries[j].dest = state.deliveries[i].dest
    PROVE  state'.deliveries[j].status = state.deliveries[i].status
<1> DEFINE d == state.deliveries
           e == state'.deliveries
<1>0. /\ TypeOK /\ TypeInv' /\ TypeOK' /\ QueueInv /\ Unique(d) /\ Outstanding
  BY NextTypeInv DEF DeliveryInv, QueueInv, TypeInv, InOrderly, Queue, LoneInv
<1>1. i \in 1 .. Len(d) /\ j \in 1 .. Len(e)
  <2>1. e \in Seq(Delivery)
    BY <1>0, StateIs DEF TypeOK
  <2> QED BY <1>0, <2>1, QueueIs
<1>2. Id(e[j]) = Id(d[i]) /\ d[i].status \notin Open
  BY DEF Id, Open
<1>3. \A h \in 1 .. Len(d) : Id(d[h]) = Id(d[i]) => h = i
  BY <1>0, <1>1 DEF Unique, Id
<1> HIDE DEF d, e
<1>4. CASE Steady
  <2>1. j \in 1 .. Len(d) /\ Id(e[j]) = Id(d[j]) /\ e[j].status = d[j].status
    BY <1>1, <1>4 DEF Steady, Id, d, e
  <2>2. j = i
    BY <1>2, <1>3, <2>1
  <2> QED BY <2>1, <2>2 DEF d, e
<1>5. ASSUME NEW r \in Runners, Kin(r) PROVE e[j].status = d[i].status
  <2>1. CASE Born(r, e[j])
    <3>1. e[j].sig = d[i].sig /\ d[i].sig \in Spent
      BY <1>1 DEF Spent, d, e
    <3> QED BY <2>1, <3>1 DEF Born
  <2>2. CASE ~Born(r, e[j])
    <3>1. PICK h \in 1 .. Len(d) : Id(e[j]) = Id(d[h]) /\ e[j].status = d[h].status
      BY <1>1, <1>5, <2>2 DEF Kin, d, e
    <3>2. h = i
      BY <1>2, <1>3, <3>1
    <3> QED BY <3>1, <3>2
  <2> QED BY <2>1, <2>2
<1>6. ASSUME NEW r \in Runners, AttemptedBy(r) PROVE e[j].status = d[i].status
  <2>1. PICK h, f : AttemptedAt(h, f) /\ Id(d[h]) = Id(todo[r][1])
    BY <1>6 DEF AttemptedBy, d
  <2>2. /\ h \in 1 .. Len(d) /\ Len(e) = Len(d) /\ Id(f) = Id(d[h]) /\ e[h] = f
        /\ \A k \in 1 .. Len(d) : k # h => e[k] = d[k]
    BY <2>1 DEF AttemptedAt, d, e
  <2>3. d[h].status \in Open
    <3>1. 1 \in 1 .. Len(todo[r]) /\ todo[r][1].op = "record"
      BY <1>0, <1>6, HeadClaims DEF AttemptedBy
    <3> QED BY <1>0, <2>1, <2>2, <3>1 DEF Outstanding, d
  <2>4. h # i
    BY <1>2, <2>3
  <2>5. j # h
    BY <1>2, <1>3, <2>2, <2>4
  <2>6. e[j] = d[j]
    BY <1>1, <2>2, <2>5
  <2>7. j = i
    BY <1>1, <1>2, <1>3, <2>2, <2>6
  <2> QED BY <2>6, <2>7
<1>7. ASSUME NEW r \in Runners, Step(r) PROVE e[j].status = d[i].status
  <2>1. Kin(r) \/ AttemptedBy(r)
    BY <1>0, <1>7, StepKin, KeptKin
  <2> QED BY <1>5, <1>6, <2>1
<1>8. Steady \/ \E r \in Runners : Step(r)
  BY <1>0, OthersSteady
<1> QED BY <1>4, <1>7, <1>8 DEF d, e

\* A delivery that record_delivery_result settled stays settled when one process
\* delivers: nothing that process still does, and nothing it reads again, tries it.
THEOREM SettledStaysFinal == Spec => SettledIsFinal
<1>1. DeliveryInv /\ [Next]_vars =>
        [Alone => \A i \in DOMAIN state.deliveries :
          LET d == state.deliveries[i]
          IN  d.status \in {"delivered", "exhausted"} =>
                 \A j \in DOMAIN state'.deliveries :
                    state'.deliveries[j].sig = d.sig /\ state'.deliveries[j].dest = d.dest
                        => state'.deliveries[j].status = d.status]_vars
  BY SettledStays
<1> QED BY <1>1, InitDelivery, NextDelivery, PTL DEF Spec, SettledIsFinal
=============================================================================
