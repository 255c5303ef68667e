---------------------------- MODULE UtilsProofs -----------------------------
(***************************************************************************)
(* Proofs about the helpers of common/utils.c: about the consensus on the  *)
(* time for any set of slots, any right clocks among them, and whatever    *)
(* the other browsers claim the time is; about the checks of a text for    *)
(* texts of every length.                                                  *)
(***************************************************************************)
EXTENDS Utils, FiniteSetTheorems, WellFoundedInduction, TLAPS

\* Instead of induction: a set of natural numbers that is not empty has a least.
LEMMA LeastExists ==
    ASSUME NEW S \in SUBSET Nat, S # {}
    PROVE  \E n \in S : \A k \in S : n <= k
<1> DEFINE less == OpToRel(<, Nat)
<1>1. PICK n \in S : \A k \in S : ~ (<<k, n>> \in less)
  <2>1. IsWellFoundedOn(less, Nat)
    BY NatLessThanWellFounded
  <2> HIDE DEF less
  <2> QED BY <2>1, WFMin
<1>2. ASSUME NEW k \in S PROVE n <= k
  <2>1. <<k, n>> \in less <=> k < n
    BY DEF OpToRel
  <2> HIDE DEF less
  <2> QED BY <1>1, <2>1
<1> QED BY <1>2

-----------------------------------------------------------------------------
(* Sums.  The fold of the library adds up a finite set by a function that  *)
(* is defined by recursion; that there is one is the first thing to show.  *)

\* The element taken from s next, and what the fold's function g is on D.
Pick(s) == CHOOSE x \in s : TRUE
Adds(g, f, D) ==
    g = [s \in D |-> IF s = {} THEN 0 ELSE f[Pick(s)] + g[s \ {Pick(s)}]]

LEMMA PickIs ==
    ASSUME NEW s, IsFiniteSet(s), s # {}
    PROVE  /\ Pick(s) \in s /\ IsFiniteSet(s \ {Pick(s)})
           /\ Cardinality(s) \in Nat \ {0}
           /\ Cardinality(s \ {Pick(s)}) = Cardinality(s) - 1
<1>1. Pick(s) \in s
  BY DEF Pick
<1>2. Cardinality(s) \in Nat /\ Cardinality(s) # 0
  BY FS_CardinalityType, FS_EmptySet
<1> QED BY <1>1, <1>2, FS_RemoveElement

LEMMA AddsExists ==
    ASSUME NEW S, IsFiniteSet(S), NEW f
    PROVE  \E g : Adds(g, f, SUBSET S)
<1> DEFINE Small(n) == {s \in SUBSET S : Cardinality(s) <= n}
           Missing == {n \in Nat : ~ \E g : Adds(g, f, Small(n))}
<1>1. \A s \in SUBSET S : IsFiniteSet(s) /\ Cardinality(s) \in Nat
  BY FS_Subset, FS_CardinalityType
<1>2. ASSUME Missing # {} PROVE FALSE
  <2>1. PICK n \in Missing : \A k \in Missing : n <= k
    <3>1. Missing \in SUBSET Nat
      OBVIOUS
    <3> HIDE DEF Missing
    <3> QED BY <1>2, <3>1, LeastExists
  <2>2. CASE n = 0
    <3>1. \A s \in Small(0) : s = {}
      BY <1>1, FS_EmptySet
    <3> DEFINE g == [s \in Small(0) |-> 0]
    <3>2. Adds(g, f, Small(0))
      BY <3>1 DEF Adds
    <3> QED BY <2>1, <2>2, <3>2
  <2>3. CASE n # 0
    <3>1. n \in Nat \ {0} /\ n - 1 \in Nat /\ n - 1 \notin Missing
      <4>1. n \in Nat \ {0}
        BY <2>1, <2>3
      <4>2. n - 1 \in Nat /\ ~ (n <= n - 1)
        BY <4>1
      <4> HIDE DEF Missing
      <4> QED BY <2>1, <4>1, <4>2
    <3>2. PICK g : Adds(g, f, Small(n - 1))
      BY <3>1
    <3> DEFINE h == [s \in Small(n) |->
                       IF s = {} THEN 0 ELSE f[Pick(s)] + g[s \ {Pick(s)}]]
    <3>3. ASSUME NEW s \in Small(n), s # {}
          PROVE  /\ s \ {Pick(s)} \in Small(n) /\ s \ {Pick(s)} \in Small(n - 1)
      BY <3>1, <1>1, <3>3, PickIs
    <3>4. ASSUME NEW s \in Small(n - 1) PROVE h[s] = g[s]
      <4>1. s \in Small(n)
        BY <3>1, <1>1
      <4>2. g[s] = IF s = {} THEN 0 ELSE f[Pick(s)] + g[s \ {Pick(s)}]
        <5> HIDE DEF Small
        <5> QED BY <3>2 DEF Adds
      <4> QED BY <4>1, <4>2
    <3>5. Adds(h, f, Small(n))
      <4>1. ASSUME NEW s \in Small(n), s # {}
            PROVE  g[s \ {Pick(s)}] = h[s \ {Pick(s)}]
        <5> HIDE DEF Small, h
        <5> QED BY <3>3, <3>4, <4>1
      <4> DEFINE k == [s \in Small(n) |->
                         IF s = {} THEN 0 ELSE f[Pick(s)] + h[s \ {Pick(s)}]]
      <4>2. h = k
        <5> HIDE DEF Small
        <5>1. \A s \in Small(n) : h[s] = k[s]
          <6> SUFFICES ASSUME NEW s \in Small(n) PROVE h[s] = k[s]
            OBVIOUS
          <6>1. h[s] = IF s = {} THEN 0 ELSE f[Pick(s)] + g[s \ {Pick(s)}]
            OBVIOUS
          <6>2. k[s] = IF s = {} THEN 0 ELSE f[Pick(s)] + h[s \ {Pick(s)}]
            BY DEF k
          <6> HIDE DEF h, k
          <6> QED BY <4>1, <6>1, <6>2
        <5> QED BY <5>1
      <4> HIDE DEF h, Small
      <4> QED BY <4>2 DEF Adds
    <3> HIDE DEF h, Small
    <3> QED BY <2>1, <3>5
  <2> QED BY <2>2, <2>3
<1>3. Small(Cardinality(S)) = SUBSET S
  BY FS_Subset
<1>4. Cardinality(S) \in Nat /\ Cardinality(S) \notin Missing
  BY <1>2, FS_CardinalityType
<1> HIDE DEF Small
<1> QED BY <1>3, <1>4

\* A sum of numbers between lo and hi lies between so many times each.
LEMMA AddsBetween ==
    ASSUME NEW S, IsFiniteSet(S), NEW f, NEW lo \in Int, NEW hi \in Int,
           \A s \in S : f[s] \in Int /\ lo <= f[s] /\ f[s] <= hi,
           NEW g, Adds(g, f, SUBSET S)
    PROVE  /\ g[S] \in Int
           /\ Cardinality(S) * lo <= g[S] /\ g[S] <= Cardinality(S) * hi
<1> DEFINE Fits(T) == /\ g[T] \in Int
                      /\ Cardinality(T) * lo <= g[T]
                      /\ g[T] <= Cardinality(T) * hi
           Wrong == {n \in Nat : \E T \in SUBSET S : Cardinality(T) = n /\ ~ Fits(T)}
<1>1. \A s \in SUBSET S : IsFiniteSet(s) /\ Cardinality(s) \in Nat
  BY FS_Subset, FS_CardinalityType
<1>2. ASSUME Wrong # {} PROVE FALSE
  <2>1. PICK n \in Wrong : \A k \in Wrong : n <= k
    <3>1. Wrong \in SUBSET Nat
      OBVIOUS
    <3> HIDE DEF Wrong
    <3> QED BY <1>2, <3>1, LeastExists
  <2>2. PICK T \in SUBSET S : Cardinality(T) = n /\ ~ Fits(T)
    BY <2>1
  <2>3. g[T] = IF T = {} THEN 0 ELSE f[Pick(T)] + g[T \ {Pick(T)}]
    BY DEF Adds
  <2>4. CASE T = {}
    BY <2>2, <2>3, <2>4, FS_EmptySet
  <2>5. CASE T # {}
    <3> DEFINE U == T \ {Pick(T)}
               x == f[Pick(T)]
               c == Cardinality(U)
    <3>1. /\ U \in SUBSET S /\ Pick(T) \in S
          /\ Cardinality(T) \in Nat \ {0} /\ c = Cardinality(T) - 1
      BY <1>1, <2>5, PickIs
    <3>2. Fits(U)
      BY <2>1, <2>2, <3>1
    <3>3. x \in Int /\ lo <= x /\ x <= hi
      BY <3>1
    <3>4. g[T] = x + g[U]
      BY <2>3, <2>5
    <3>5. c \in Nat /\ Cardinality(T) = c + 1
      BY <3>1
    <3> HIDE DEF U, x, c
    <3>6. (c + 1) * lo = c * lo + lo /\ (c + 1) * hi = c * hi + hi
      BY <3>5
    <3>7. c * lo \in Int /\ c * hi \in Int
      BY <3>5
    <3>8. Fits(T)
      BY <3>2, <3>3, <3>4, <3>5, <3>6, <3>7 DEF c
    <3> QED BY <2>2, <3>8
  <2> QED BY <2>4, <2>5
<1>3. Cardinality(S) \in Nat /\ Cardinality(S) \notin Wrong
  BY <1>2, FS_CardinalityType
<1> QED BY <1>3

Sum(f, S) == MapThenSumSet(LAMBDA d : f[d], S)

LEMMA SumBetween ==
    ASSUME NEW S, IsFiniteSet(S), NEW f, NEW lo \in Int, NEW hi \in Int,
           \A s \in S : f[s] \in Int /\ lo <= f[s] /\ f[s] <= hi
    PROVE  /\ Sum(f, S) \in Int
           /\ Cardinality(S) * lo <= Sum(f, S)
           /\ Sum(f, S) <= Cardinality(S) * hi
<1> DEFINE g == CHOOSE h : Adds(h, f, SUBSET S)
<1>1. Sum(f, S) = g[S]
  BY DEF Sum, MapThenSumSet, MapThenFoldSet, Pick, Adds
<1>2. Adds(g, f, SUBSET S)
  BY AddsExists
<1> HIDE DEF g
<1>3. /\ g[S] \in Int
      /\ Cardinality(S) * lo <= g[S] /\ g[S] <= Cardinality(S) * hi
  BY <1>2, AddsBetween
<1> QED BY <1>1, <1>3

\* The mean, rounded towards zero, lies where the numbers do.
LEMMA QuotientBetween ==
    ASSUME NEW n \in Nat \ {0}, NEW a \in Int, NEW lo \in Int, NEW hi \in Int,
           n * lo <= a, a <= n * hi
    PROVE  Quotient(a, n) \in Int /\ lo <= Quotient(a, n) /\ Quotient(a, n) <= hi
<1>1. ASSUME NEW b \in Nat, NEW k \in Int, NEW j \in Int, n * k <= b, b <= n * j
      PROVE  b \div n \in Int /\ k <= b \div n /\ b \div n <= j
  <2> DEFINE q == b \div n
             r == b % n
  <2>1. q \in Int /\ r \in 0..(n - 1) /\ b = n * q + r
    OBVIOUS
  <2> HIDE DEF q, r
  <2>2. ASSUME q < k PROVE FALSE
    <3>1. n * (q + 1) <= n * k
      BY <2>1, <2>2
    <3>2. n * (q + 1) = n * q + n
      BY <2>1
    <3> QED BY <1>1, <2>1, <3>1, <3>2
  <2>3. ASSUME q > j PROVE FALSE
    <3>1. n * (j + 1) <= n * q
      BY <2>1, <2>3
    <3>2. n * (j + 1) = n * j + n
      BY <2>1
    <3> QED BY <1>1, <2>1, <3>1, <3>2
  <2> QED BY <2>1, <2>2, <2>3 DEF q
<1>2. CASE a >= 0
  BY <1>1, <1>2 DEF Quotient
<1>3. CASE a < 0
  <2>1. - a \in Nat /\ - hi \in Int /\ - lo \in Int
    BY <1>3
  <2>2. n * (- hi) <= - a /\ - a <= n * (- lo)
    OBVIOUS
  <2>3. /\ (- a) \div n \in Int
        /\ - hi <= (- a) \div n /\ (- a) \div n <= - lo
    BY <1>1, <2>1, <2>2
  <2> QED BY <1>3, <2>3 DEF Quotient
<1> QED BY <1>2, <1>3

-----------------------------------------------------------------------------
(* The invariant *)

TypeOK ==
    /\ uptime \in 0..MaxUptime
    /\ joined \subseteq CLIENTS
    /\ time_offset \in [CLIENTS -> Int \cup {None}]

\* However old the sample of a right clock is, it says when the board started,
\* but for the delay of its frame.
Right == (PowerOnTime - Latest)..PowerOnTime
HonestOK == \A c \in Honest : time_offset[c] \in Right \cup {None}

IInv == TypeOK /\ HonestOK

LEMMA Numbers ==
    /\ VALID_EPOCH_START_S \in Nat /\ VALID_EPOCH_END_S \in Nat
    /\ TIME_SYNC_TOLERANCE_S \in Nat /\ PowerOnTime \in Nat /\ Latest \in Nat
    /\ MaxUptime \in Nat /\ MaxUptime < VALID_EPOCH_START_S
    /\ Honest \subseteq CLIENTS /\ None \notin Int
BY TimeSyncAssumption

\* A sample of browser c, whose clock may be right or not.
LEMMA SampleStep ==
    ASSUME IInv, NEW c \in CLIENTS, NEW t \in Timestamps(c), Sample(c, t)
    PROVE  /\ time_offset' \in [CLIENTS -> Int \cup {None}]
           /\ \A d \in Honest : time_offset'[d] \in Right \cup {None}
<1>1. t \in Int /\ uptime \in Int
  BY Numbers, TimeSyncAssumption DEF IInv, TypeOK, Timestamps, TrueTime
<1>2. c \in Honest => t - uptime \in Right
  BY <1>1, Numbers DEF Timestamps, TrueTime, Right
<1>3. time_offset' = time_offset
        \/ time_offset' = [time_offset EXCEPT ![c] = t - uptime]
  BY DEF Sample
<1> QED BY <1>1, <1>2, <1>3, Numbers DEF IInv, TypeOK, HonestOK

LEMMA InitIInv == TimeInit => IInv
BY Numbers DEF TimeInit, IInv, TypeOK, HonestOK

LEMMA StepIInv == IInv /\ [TimeNext]_vars => IInv'
<1> SUFFICES ASSUME IInv, [TimeNext]_vars PROVE IInv'
  OBVIOUS
<1>1. ASSUME NEW c \in CLIENTS, NEW t \in Timestamps(c), JoinAt(c, t) PROVE IInv'
  BY <1>1, SampleStep DEF JoinAt, IInv, TypeOK, HonestOK, Right
<1>2. ASSUME NEW c \in CLIENTS, NEW t \in Timestamps(c), FrameAt(c, t) PROVE IInv'
  BY <1>2, SampleStep DEF FrameAt, IInv, TypeOK, HonestOK, Right
<1>3. ASSUME NEW c \in CLIENTS, Leave(c) PROVE IInv'
  BY <1>3, Numbers DEF Leave, IInv, TypeOK, HonestOK, Right
<1>4. CASE Second
  BY <1>4, Numbers DEF Second, IInv, TypeOK, HonestOK, Right
<1>5. CASE UNCHANGED vars
  BY <1>5 DEF vars, IInv, TypeOK, HonestOK, Right
<1> QED BY <1>1, <1>2, <1>3, <1>4, <1>5 DEF TimeNext

\* Right samples stay right, in every state: the invariant of the theorems below.
THEOREM SpecIInv == TimeSpec => []IInv
BY InitIInv, StepIInv, PTL DEF TimeSpec

-----------------------------------------------------------------------------
(* Counting *)

LEMMA SampledIs ==
    ASSUME IInv
    PROVE  /\ IsFiniteSet(Sampled) /\ Sampled \subseteq CLIENTS
           /\ Cardinality(Sampled) \in Nat
           /\ \A c \in Sampled : time_offset[c] \in Int
           /\ IsFiniteSet(Lying) /\ Cardinality(Lying) \in Nat
           /\ \A c \in Sampled \cap Honest : time_offset[c] \in Right
           /\ \A c \in Sampled :
                 /\ c \in Cluster(c) /\ Cluster(c) \subseteq Sampled
                 /\ IsFiniteSet(Cluster(c)) /\ Cardinality(Cluster(c)) \in Nat \ {0}
<1>1. /\ Sampled \subseteq CLIENTS
      /\ \A c \in Sampled : time_offset[c] \in Int
      /\ \A c \in Sampled \cap Honest : time_offset[c] \in Right
  BY DEF IInv, TypeOK, HonestOK, Sampled
<1>2. IsFiniteSet(Sampled) /\ IsFiniteSet(Lying)
  BY <1>1, TimeSyncAssumption, FS_Subset DEF Lying
<1>3. ASSUME NEW c \in Sampled
      PROVE  /\ c \in Cluster(c) /\ Cluster(c) \subseteq Sampled
             /\ IsFiniteSet(Cluster(c)) /\ Cardinality(Cluster(c)) \in Nat \ {0}
  <2>1. c \in Cluster(c) /\ Cluster(c) \subseteq Sampled
    BY <1>1, Numbers DEF Cluster
  <2>2. IsFiniteSet(Cluster(c))
    BY <1>2, <2>1, FS_Subset
  <2> QED BY <2>1, <2>2, FS_CardinalityType, FS_EmptySet
<1> QED BY <1>1, <1>2, <1>3, FS_CardinalityType

\* Two thirds, rounded up.
LEMMA ThresholdIs ==
    ASSUME NEW n \in Nat
    PROVE  Threshold(n) \in Nat /\ \A k \in Nat : k >= Threshold(n) <=> 3 * k >= 2 * n
BY DEF Threshold

\* Whoever is selected without the wrong clocks being two thirds has a right
\* clock in its cluster.
LEMMA RightInCluster ==
    ASSUME IInv, NEW c \in Selected,
           3 * Cardinality(Lying) < 2 * Cardinality(Sampled)
    PROVE  \E d \in Cluster(c) : d \in Honest
<1> SUFFICES ASSUME \A d \in Cluster(c) : d \notin Honest PROVE FALSE
  OBVIOUS
<1>1. c \in Sampled /\ Cardinality(Cluster(c)) >= Threshold(Cardinality(Sampled))
  BY DEF Selected
<1>2. Cluster(c) \subseteq Lying
  BY <1>1, SampledIs DEF Lying
<1>3. Cardinality(Cluster(c)) <= Cardinality(Lying)
  BY <1>2, SampledIs, FS_Subset
<1> QED BY <1>1, <1>3, SampledIs, ThresholdIs

\* The mean of such a cluster is near the truth.
LEMMA OffsetNear ==
    ASSUME IInv, NEW o \in ConsensusOffsets,
           3 * Cardinality(Lying) < 2 * Cardinality(Sampled)
    PROVE  /\ o \in Int
           /\ o >= PowerOnTime - Latest - TIME_SYNC_TOLERANCE_S
           /\ o <= PowerOnTime + TIME_SYNC_TOLERANCE_S
<1>1. PICK c \in Selected :
         o = Quotient(Sum(time_offset, Cluster(c)), Cardinality(Cluster(c)))
  BY DEF ConsensusOffsets, Sum
<1>2. PICK d \in Cluster(c) : d \in Honest
  BY RightInCluster
<1> DEFINE C == Cluster(c)
           lo == time_offset[d] - TIME_SYNC_TOLERANCE_S
           hi == time_offset[d] + TIME_SYNC_TOLERANCE_S
<1>3. c \in Sampled /\ d \in Sampled \cap Honest
  BY <1>2 DEF Selected, Cluster
<1>4. /\ time_offset[d] \in Right /\ time_offset[c] \in Int /\ time_offset[d] \in Int
      /\ IsFiniteSet(C) /\ Cardinality(C) \in Nat \ {0} /\ C \subseteq Sampled
  BY <1>3, SampledIs
<1>5. \A x \in C : time_offset[x] \in Int /\ lo <= time_offset[x] /\ time_offset[x] <= hi
  BY <1>2, <1>3, <1>4, SampledIs, Numbers DEF Cluster
<1>6. lo \in Int /\ hi \in Int
  BY <1>4, Numbers
<1>7. /\ lo >= PowerOnTime - Latest - TIME_SYNC_TOLERANCE_S
      /\ hi <= PowerOnTime + TIME_SYNC_TOLERANCE_S
  BY <1>4, Numbers DEF Right
<1> HIDE DEF lo, hi, C
<1>8. /\ Sum(time_offset, C) \in Int
      /\ Cardinality(C) * lo <= Sum(time_offset, C)
      /\ Sum(time_offset, C) <= Cardinality(C) * hi
  BY <1>4, <1>5, <1>6, SumBetween
<1>9. o \in Int /\ lo <= o /\ o <= hi
  BY <1>1, <1>4, <1>6, <1>8, QuotientBetween DEF C
<1> QED BY <1>6, <1>7, <1>9, Numbers

LEMMA IInvNear == IInv => StampNearTruth
<1> SUFFICES ASSUME IInv, 3 * Cardinality(Lying) < 2 * Cardinality(Sampled),
                    NEW t \in CurrentTimestamps, t # uptime
             PROVE  /\ t >= TrueTime - TIME_SYNC_TOLERANCE_S - Latest
                    /\ t <= TrueTime + TIME_SYNC_TOLERANCE_S
  BY DEF StampNearTruth
<1>1. PICK o \in ConsensusOffsets : t = uptime + o
  BY DEF CurrentTimestamps
<1>2. uptime \in Nat
  BY DEF IInv, TypeOK
<1> QED BY <1>1, <1>2, OffsetNear, Numbers DEF TrueTime

\* As long as fewer than two thirds of the browsers sampled have a wrong clock,
\* a message is stamped with the uptime, or close to the time
\* (current_timestamp_s, chat_sessions_consensus_offset).
THEOREM StampNearTruthHolds == TimeSpec => []StampNearTruth
BY SpecIInv, IInvNear, PTL

-----------------------------------------------------------------------------
(* Agreement *)

\* Right clocks whose frames were late within the tolerance share a cluster.
LEMMA RightCluster ==
    ASSUME IInv, Latest <= TIME_SYNC_TOLERANCE_S, Sampled # {},
           3 * Cardinality(Lying) <= Cardinality(Sampled)
    PROVE  \E c \in Sampled :
              Cardinality(Cluster(c)) >= Threshold(Cardinality(Sampled))
<1> DEFINE H == Sampled \cap Honest
           base == PowerOnTime - Latest
           D == {time_offset[c] - base : c \in H}
<1>1. /\ IsFiniteSet(H) /\ Cardinality(H) \in Nat
      /\ Cardinality(Lying) = Cardinality(Sampled) - Cardinality(H)
  BY SampledIs, FS_Intersection, FS_Difference, FS_CardinalityType DEF Lying
<1>2. Cardinality(Sampled) # 0
  BY SampledIs, FS_EmptySet
<1>3. H # {} /\ 3 * Cardinality(H) >= 2 * Cardinality(Sampled)
  <2>1. 3 * Cardinality(H) >= 2 * Cardinality(Sampled) /\ Cardinality(H) # 0
    BY <1>1, <1>2, SampledIs
  <2> QED BY <2>1, FS_EmptySet
<1>4. \A c \in H : time_offset[c] \in Right
  BY SampledIs
<1>5. PICK c \in H : \A d \in H : time_offset[c] <= time_offset[d]
  <2>1. D \in SUBSET Nat /\ D # {}
    BY <1>3, <1>4, Numbers DEF Right
  <2>2. PICK n \in D : \A k \in D : n <= k
    <3> HIDE DEF D
    <3> QED BY <2>1, LeastExists
  <2>3. PICK c \in H : n = time_offset[c] - base
    OBVIOUS
  <2>4. ASSUME NEW d \in H PROVE time_offset[c] <= time_offset[d]
    <3>1. n <= time_offset[d] - base
      BY <2>2
    <3> QED BY <1>4, <2>3, <3>1, Numbers DEF Right
  <2> QED BY <2>4
<1>6. H \subseteq Cluster(c)
  BY <1>4, <1>5, Numbers DEF Cluster, Right
<1>7. c \in Sampled
  BY <1>5
<1>8. Cardinality(H) <= Cardinality(Cluster(c))
  BY <1>6, <1>7, SampledIs, FS_Subset
<1> HIDE DEF H
<1> QED BY <1>1, <1>3, <1>7, <1>8, SampledIs, ThresholdIs

\* A largest cluster of those, so that the server has an offset.
LEMMA SomeSelected ==
    ASSUME IInv, NEW c \in Sampled,
           Cardinality(Cluster(c)) >= Threshold(Cardinality(Sampled))
    PROVE  Selected # {}
<1> DEFINE n == Cardinality(Sampled)
           size(d) == Cardinality(Cluster(d))
           D == {n - size(d) : d \in Sampled}
<1>1. n \in Nat /\ \A d \in Sampled : size(d) \in Nat /\ size(d) <= n
  BY SampledIs, FS_Subset
<1>2. PICK k \in D : \A j \in D : k <= j
  <2>1. D \in SUBSET Nat /\ D # {}
    <3> HIDE DEF n, size
    <3> QED BY <1>1
  <2> HIDE DEF D
  <2> QED BY <2>1, LeastExists
<1>3. PICK e \in Sampled : k = n - size(e)
  OBVIOUS
<1>4. ASSUME NEW d \in Sampled PROVE size(d) <= size(e)
  <2>1. k <= n - size(d)
    BY <1>2
  <2> HIDE DEF n, size
  <2> QED BY <1>1, <1>3, <2>1
<1>5. size(e) >= Threshold(n)
  BY <1>1, <1>4, ThresholdIs
<1> QED BY <1>4, <1>5 DEF Selected

\* The epoch the server accepts reaches from the tolerance and a late frame
\* before the board started to the tolerance after it stops.
TimeIsValid ==
    /\ PowerOnTime - Latest - TIME_SYNC_TOLERANCE_S >= VALID_EPOCH_START_S
    /\ PowerOnTime + MaxUptime + TIME_SYNC_TOLERANCE_S <= VALID_EPOCH_END_S

LEMMA IInvAgrees ==
    ASSUME Latest <= TIME_SYNC_TOLERANCE_S, TimeIsValid, IInv
    PROVE  AgreementDecides
<1> SUFFICES ASSUME Sampled # {}, 3 * Cardinality(Lying) <= Cardinality(Sampled),
                    uptime \in CurrentTimestamps
             PROVE  FALSE
  BY DEF AgreementDecides
<1>1. ConsensusOffsets # {}
  BY RightCluster, SomeSelected DEF ConsensusOffsets
<1>2. uptime \in 0..MaxUptime /\ ~ ValidEpoch(uptime)
  BY Numbers DEF IInv, TypeOK, ValidEpoch
<1>3. PICK o \in ConsensusOffsets :
         uptime = IF ValidEpoch(uptime + o) THEN uptime + o ELSE uptime
  BY <1>1, <1>2 DEF CurrentTimestamps
<1>4. 3 * Cardinality(Lying) < 2 * Cardinality(Sampled)
  BY SampledIs, FS_EmptySet
<1>5. /\ o \in Int
      /\ o >= PowerOnTime - Latest - TIME_SYNC_TOLERANCE_S
      /\ o <= PowerOnTime + TIME_SYNC_TOLERANCE_S
  BY <1>4, OffsetNear
<1>6. ValidEpoch(uptime + o)
  BY <1>2, <1>5, Numbers DEF TimeIsValid, ValidEpoch
<1> QED BY <1>2, <1>3, <1>6 DEF ValidEpoch

\* When two thirds of the browsers sampled have a right clock, messages are
\* stamped with the time and not with the uptime, if frames of right clocks are
\* no later than the tolerance and the time is one the server accepts.
THEOREM AgreementDecidesHolds ==
    ASSUME Latest <= TIME_SYNC_TOLERANCE_S, TimeIsValid
    PROVE  TimeSpec => []AgreementDecides
BY SpecIInv, IInvAgrees, PTL

-----------------------------------------------------------------------------
(* UTF-8: the bytes of one character *)

BYTE == 0..255

LEMMA TailBytes ==
    ASSUME NEW t \in BYTE
    PROVE  /\ t \div 64 = 2 <=> t \in 128..191
           /\ t \in 128..191 => t % 64 = t - 128
<1>1. t \div 64 \in Int /\ t % 64 \in 0..63 /\ t = 64 * (t \div 64) + (t % 64)
  BY DEF BYTE
<1> QED BY <1>1 DEF BYTE

LEMMA MoreIs ==
    ASSUME NEW b \in BYTE
    PROVE  /\ More(b) \in {-1, 0, 1, 2, 3}
           /\ More(b) = 0 <=> b \in 0..127
           /\ More(b) = 1 <=> b \in 194..223
           /\ More(b) = 2 <=> b \in 224..239
           /\ More(b) = 3 <=> b \in 240..244
BY DEF BYTE, More

LEMMA FirstBytes ==
    ASSUME NEW b \in BYTE
    PROVE  /\ More(b) \in {-1, 0, 1, 2, 3}
           /\ More(b) = 0 <=> b \in 0..127
           /\ More(b) = 1 <=> b \in 194..223
           /\ More(b) = 2 <=> b \in 224..239
           /\ More(b) = 3 <=> b \in 240..244
           /\ More(b) = 1 => FirstBits(b) = b - 192 /\ Minimum(b) = 128
           /\ More(b) = 2 => FirstBits(b) = b - 224 /\ Minimum(b) = 2048
           /\ More(b) = 3 => FirstBits(b) = b - 240 /\ Minimum(b) = 65536
<1>1. /\ More(b) \in {-1, 0, 1, 2, 3}
      /\ More(b) = 0 <=> b \in 0..127
      /\ More(b) = 1 <=> b \in 194..223
      /\ More(b) = 2 <=> b \in 224..239
      /\ More(b) = 3 <=> b \in 240..244
  BY MoreIs
<1>2. ASSUME b \in 194..223 PROVE b % 32 = b - 192
  <2>1. b \div 32 \in Int /\ b % 32 \in 0..31 /\ b = 32 * (b \div 32) + (b % 32)
    BY DEF BYTE
  <2> QED BY <1>2, <2>1
<1>3. ASSUME b \in 224..239 PROVE b % 16 = b - 224
  <2>1. b \div 16 \in Int /\ b % 16 \in 0..15 /\ b = 16 * (b \div 16) + (b % 16)
    BY DEF BYTE
  <2> QED BY <1>3, <2>1
<1>4. ASSUME b \in 240..244 PROVE b % 8 = b - 240
  <2>1. b \div 8 \in Int /\ b % 8 \in 0..7 /\ b = 8 * (b \div 8) + (b % 8)
    BY DEF BYTE
  <2> QED BY <1>4, <2>1
<1>5. More(b) = 1 => FirstBits(b) = b - 192 /\ Minimum(b) = 128
  BY <1>1, <1>2 DEF FirstBits, Minimum
<1>6. More(b) = 2 => FirstBits(b) = b - 224 /\ Minimum(b) = 2048
  BY <1>1, <1>3 DEF FirstBits, Minimum
<1>7. More(b) = 3 => FirstBits(b) = b - 240 /\ Minimum(b) = 65536
  BY <1>1, <1>4 DEF FirstBits, Minimum
<1> QED BY <1>1, <1>5, <1>6, <1>7

\* Which sequences of bytes are characters, by their length.
LEMMA CharactersAre ==
    ASSUME NEW c
    PROVE  IsCharacter(c) <=>
             \/ Len(c) = 1 /\ c[1] \in 0..127
             \/ Len(c) = 2 /\ c[1] \in 194..223 /\ c[2] \in TailByte
             \/ /\ Len(c) = 3 /\ c[3] \in TailByte
                /\ \/ c[1] \in {224} /\ c[2] \in 160..191
                   \/ c[1] \in 225..236 /\ c[2] \in TailByte
                   \/ c[1] \in {237} /\ c[2] \in 128..159
                   \/ c[1] \in 238..239 /\ c[2] \in TailByte
             \/ /\ Len(c) = 4 /\ c[3] \in TailByte /\ c[4] \in TailByte
                /\ \/ c[1] \in {240} /\ c[2] \in 144..191
                   \/ c[1] \in 241..243 /\ c[2] \in TailByte
                   \/ c[1] \in {244} /\ c[2] \in 128..143
<1> DEFINE Fits(p) == Len(p) = Len(c) /\ \A i \in 1..Len(c) : c[i] \in p[i]
<1>1. ASSUME NEW p1 PROVE Fits(<<p1>>) <=> Len(c) = 1 /\ c[1] \in p1
  <2>1. Len(<<p1>>) = 1 /\ <<p1>>[1] = p1 /\ 1..1 = {1}
    OBVIOUS
  <2> QED BY <2>1
<1>2. ASSUME NEW p1, NEW p2
      PROVE  Fits(<<p1, p2>>) <=> Len(c) = 2 /\ c[1] \in p1 /\ c[2] \in p2
  <2>1. Len(<<p1, p2>>) = 2 /\ <<p1, p2>>[1] = p1 /\ <<p1, p2>>[2] = p2 /\ 1..2 = {1, 2}
    OBVIOUS
  <2> QED BY <2>1
<1>3. ASSUME NEW p1, NEW p2, NEW p3
      PROVE  Fits(<<p1, p2, p3>>) <=>
                Len(c) = 3 /\ c[1] \in p1 /\ c[2] \in p2 /\ c[3] \in p3
  <2>1. /\ Len(<<p1, p2, p3>>) = 3 /\ <<p1, p2, p3>>[1] = p1
        /\ <<p1, p2, p3>>[2] = p2 /\ <<p1, p2, p3>>[3] = p3 /\ 1..3 = {1, 2, 3}
    OBVIOUS
  <2> QED BY <2>1
<1>4. ASSUME NEW p1, NEW p2, NEW p3, NEW p4
      PROVE  Fits(<<p1, p2, p3, p4>>) <=>
                Len(c) = 4 /\ c[1] \in p1 /\ c[2] \in p2 /\ c[3] \in p3 /\ c[4] \in p4
  <2>1. /\ Len(<<p1, p2, p3, p4>>) = 4 /\ <<p1, p2, p3, p4>>[1] = p1
        /\ <<p1, p2, p3, p4>>[2] = p2 /\ <<p1, p2, p3, p4>>[3] = p3
        /\ <<p1, p2, p3, p4>>[4] = p4 /\ 1..4 = {1, 2, 3, 4}
    OBVIOUS
  <2> QED BY <2>1
<1>5. IsCharacter(c) <=>
        \/ Fits(<<0..127>>) \/ Fits(<<194..223, TailByte>>)
        \/ Fits(<<{224}, 160..191, TailByte>>) \/ Fits(<<225..236, TailByte, TailByte>>)
        \/ Fits(<<{237}, 128..159, TailByte>>) \/ Fits(<<238..239, TailByte, TailByte>>)
        \/ Fits(<<{240}, 144..191, TailByte, TailByte>>)
        \/ Fits(<<241..243, TailByte, TailByte, TailByte>>)
        \/ Fits(<<{244}, 128..143, TailByte, TailByte>>)
  <2>1. IsCharacter(c) <=> \E p \in Characters : Fits(p)
    BY DEF IsCharacter
  <2> HIDE DEF Fits
  <2> QED BY <2>1 DEF Characters
<1> HIDE DEF Fits
<1> QED BY <1>1, <1>2, <1>3, <1>4, <1>5

\* The code points of two, three and four bytes.
Two(b, u) == ((b - 192) * 64) + (u - 128)
Three(b, u, v) == ((((b - 224) * 64) + (u - 128)) * 64) + (v - 128)
Four(b, u, v, w) ==
    ((((((b - 240) * 64) + (u - 128)) * 64) + (v - 128)) * 64) + (w - 128)
Allowed(c, min) == c >= min /\ c <= 1114111 /\ c \notin 55296..57343

LEMMA TwoFits ==
    ASSUME NEW b \in 194..223, NEW u \in TailByte
    PROVE  Allowed(Two(b, u), 128)
<1> DEFINE c == ((b - 192) * 64) + (u - 128)
<1>1. c \in Int /\ c >= 128 /\ c < 2048
  BY DEF TailByte
<1> HIDE DEF c
<1>2. c >= 128 /\ c <= 1114111 /\ c \notin 55296..57343
  BY <1>1
<1> QED BY <1>2 DEF Allowed, Two, c

LEMMA ThreeFits ==
    ASSUME NEW b \in 224..239, NEW u \in TailByte, NEW v \in TailByte
    PROVE  Allowed(Three(b, u, v), 2048) <=> (b = 224 => u >= 160) /\ (b = 237 => u < 160)
<1> DEFINE x == ((b - 224) * 64) + (u - 128)
           c == (x * 64) + (v - 128)
<1>1. x \in Int /\ x < 1024
  BY DEF TailByte
<1>2. x >= 32 <=> (b = 224 => u >= 160)
  BY DEF TailByte
<1>3. x \notin 864..895 <=> (b = 237 => u < 160)
  BY DEF TailByte
<1> HIDE DEF x
<1>4. c \in Int /\ c <= 1114111
  BY <1>1 DEF TailByte
<1>5. c >= 2048 <=> x >= 32
  BY <1>1 DEF TailByte
<1>6. c \in 55296..57343 <=> x \in 864..895
  BY <1>1 DEF TailByte
<1> HIDE DEF c
<1>7. (c >= 2048 /\ c <= 1114111 /\ c \notin 55296..57343)
        <=> (b = 224 => u >= 160) /\ (b = 237 => u < 160)
  BY <1>2, <1>3, <1>4, <1>5, <1>6
<1> QED BY <1>7 DEF Allowed, Three, c, x

LEMMA FourFits ==
    ASSUME NEW b \in 240..244, NEW u \in TailByte, NEW v \in TailByte, NEW w \in TailByte
    PROVE  Allowed(Four(b, u, v, w), 65536)
             <=> (b = 240 => u >= 144) /\ (b = 244 => u < 144)
<1> DEFINE x == ((b - 240) * 64) + (u - 128)
           y == (x * 64) + (v - 128)
           c == (y * 64) + (w - 128)
<1>1. x \in Int
  BY DEF TailByte
<1>2. x >= 16 <=> (b = 240 => u >= 144)
  BY DEF TailByte
<1>3. x < 272 <=> (b = 244 => u < 144)
  BY DEF TailByte
<1> HIDE DEF x
<1>4. y \in Int /\ (y >= 1024 <=> x >= 16) /\ (y < 17408 <=> x < 272)
  BY <1>1 DEF TailByte
<1> HIDE DEF y
<1>5. c \in Int /\ (c >= 65536 <=> y >= 1024) /\ (c <= 1114111 <=> y < 17408)
  BY <1>4 DEF TailByte
<1> HIDE DEF c
<1>6. (c >= 65536 /\ c <= 1114111 /\ c \notin 55296..57343)
        <=> c >= 65536 /\ c <= 1114111
  BY <1>5
<1>7. (c >= 65536 /\ c <= 1114111) <=> (b = 240 => u >= 144) /\ (b = 244 => u < 144)
  BY <1>2, <1>3, <1>4, <1>5
<1> QED BY <1>6, <1>7 DEF Allowed, Four, c, y, x

LEMMA CodeOfTwo ==
    ASSUME NEW b \in BYTE, More(b) = 1, NEW u \in TailByte
    PROVE  Allowed(Shifted(FirstBits(b), u), Minimum(b))
<1>1. b \in 194..223 /\ Minimum(b) = 128 /\ FirstBits(b) = b - 192
  BY FirstBytes
<1>2. u % 64 = u - 128
  BY TailBytes DEF TailByte, BYTE
<1>3. Shifted(FirstBits(b), u) = Two(b, u)
  BY <1>1, <1>2 DEF Shifted, Two
<1>4. Allowed(Two(b, u), 128)
  BY <1>1, TwoFits
<1> QED BY <1>1, <1>3, <1>4

LEMMA CodeOfThree ==
    ASSUME NEW b \in BYTE, More(b) = 2, NEW u \in TailByte, NEW v \in TailByte
    PROVE  Allowed(Shifted(Shifted(FirstBits(b), u), v), Minimum(b))
             <=> (b = 224 => u >= 160) /\ (b = 237 => u < 160)
<1>1. b \in 224..239 /\ Minimum(b) = 2048 /\ FirstBits(b) = b - 224
  BY FirstBytes
<1>2. u % 64 = u - 128 /\ v % 64 = v - 128
  BY TailBytes DEF TailByte, BYTE
<1>3. Shifted(Shifted(FirstBits(b), u), v) = Three(b, u, v)
  BY <1>1, <1>2 DEF Shifted, Three
<1>4. Allowed(Three(b, u, v), 2048) <=> (b = 224 => u >= 160) /\ (b = 237 => u < 160)
  BY <1>1, ThreeFits
<1> QED BY <1>1, <1>3, <1>4

LEMMA CodeOfFour ==
    ASSUME NEW b \in BYTE, More(b) = 3,
           NEW u \in TailByte, NEW v \in TailByte, NEW w \in TailByte
    PROVE  Allowed(Shifted(Shifted(Shifted(FirstBits(b), u), v), w), Minimum(b))
             <=> (b = 240 => u >= 144) /\ (b = 244 => u < 144)
<1>1. b \in 240..244 /\ Minimum(b) = 65536 /\ FirstBits(b) = b - 240
  BY FirstBytes
<1>2. u % 64 = u - 128 /\ v % 64 = v - 128 /\ w % 64 = w - 128
  BY TailBytes DEF TailByte, BYTE
<1>3. Shifted(Shifted(Shifted(FirstBits(b), u), v), w) = Four(b, u, v, w)
  BY <1>1, <1>2 DEF Shifted, Four
<1>4. Allowed(Four(b, u, v, w), 65536) <=> (b = 240 => u >= 144) /\ (b = 244 => u < 144)
  BY <1>1, FourFits
<1> QED BY <1>1, <1>3, <1>4

\* A first byte, the bytes u, v and w after it, and what the code makes of them.
Fits(b, u, v, w) ==
    \/ b \in 0..127
    \/ b \in 194..223 /\ u \in TailByte
    \/ /\ b \in 224..239 /\ u \in TailByte /\ v \in TailByte
       /\ (b = 224 => u >= 160) /\ (b = 237 => u < 160)
    \/ /\ b \in 240..244 /\ u \in TailByte /\ v \in TailByte /\ w \in TailByte
       /\ (b = 240 => u >= 144) /\ (b = 244 => u < 144)

LEMMA FitsIs ==
    ASSUME NEW b \in BYTE, NEW u, NEW v, NEW w
    PROVE  /\ More(b) = -1 => ~ Fits(b, u, v, w)
           /\ More(b) = 0 => Fits(b, u, v, w)
           /\ More(b) = 1 => (Fits(b, u, v, w) <=> u \in TailByte)
           /\ More(b) = 2 =>
                (Fits(b, u, v, w) <=> /\ u \in TailByte /\ v \in TailByte
                                      /\ (b = 224 => u >= 160) /\ (b = 237 => u < 160))
           /\ More(b) = 3 =>
                (Fits(b, u, v, w) <=> /\ u \in TailByte /\ v \in TailByte /\ w \in TailByte
                                      /\ (b = 240 => u >= 144) /\ (b = 244 => u < 144))
<1>1. More(b) = -1 =>
        b \notin 0..127 /\ b \notin 194..223 /\ b \notin 224..239 /\ b \notin 240..244
  BY MoreIs
<1>2. /\ More(b) = 0 => b \in 0..127
      /\ More(b) = 1 => b \in 194..223
      /\ More(b) = 2 => b \in 224..239
      /\ More(b) = 3 => b \in 240..244
  BY MoreIs
<1>3. /\ b \in 194..223 => b \notin 0..127 /\ b \notin 224..239 /\ b \notin 240..244
      /\ b \in 224..239 => b \notin 0..127 /\ b \notin 194..223 /\ b \notin 240..244
      /\ b \in 240..244 => b \notin 0..127 /\ b \notin 194..223 /\ b \notin 224..239
  OBVIOUS
<1> QED BY <1>1, <1>2, <1>3 DEF Fits

\* The bytes of a sequence of bytes.
LEMMA BytesOf ==
    ASSUME NEW s \in Seq(BYTE)
    PROVE  Len(s) \in Nat /\ \A j \in 1..Len(s) : s[j] \in BYTE
OBVIOUS

\* The code finds a character at i exactly if its bytes are there and fit.
LEMMA CharacterAtIs ==
    ASSUME NEW s, NEW i \in Nat, NEW l \in Nat, Len(s) = l, i >= 1, i <= l,
           \A j \in 1..l : s[j] \in BYTE
    PROVE  CharacterAt(s, i) <=>
             i + More(s[i]) <= l /\ Fits(s[i], s[i + 1], s[i + 2], s[i + 3])
<1> DEFINE b == s[i]  n == More(s[i])  u == s[i + 1]  v == s[i + 2]  w == s[i + 3]
           Tails == \A j \in (i + 1)..(i + n) : s[j] \div 64 = 2
           cp == CodePoint(s, i)
<1>1. b \in BYTE
  OBVIOUS
<1>2. CharacterAt(s, i) <=>
        n # -1 /\ i + n <= l /\ Tails /\ (n > 0 => Allowed(cp, Minimum(b)))
  BY SMT DEF CharacterAt, Allowed
<1>3. n \in {-1, 0, 1, 2, 3}
  BY <1>1, MoreIs
<1>4. /\ n = 1 /\ i + n <= l => (Tails <=> u \div 64 = 2) /\ u \in BYTE
      /\ n = 2 /\ i + n <= l => /\ Tails <=> u \div 64 = 2 /\ v \div 64 = 2
                                /\ u \in BYTE /\ v \in BYTE
      /\ n = 3 /\ i + n <= l => /\ Tails <=> u \div 64 = 2 /\ v \div 64 = 2 /\ w \div 64 = 2
                                /\ u \in BYTE /\ v \in BYTE /\ w \in BYTE
      /\ n = 0 => Tails
  <2> HIDE DEF n
  <2>1. ASSUME n = 1, i + n <= l PROVE (Tails <=> u \div 64 = 2) /\ u \in BYTE
    <3>1. (i + 1)..(i + n) = {i + 1} /\ i + 1 \in 1..l
      BY <2>1
    <3> QED BY <3>1
  <2>2. ASSUME n = 2, i + n <= l
        PROVE  /\ Tails <=> u \div 64 = 2 /\ v \div 64 = 2
               /\ u \in BYTE /\ v \in BYTE
    <3>1. (i + 1)..(i + n) = {i + 1, i + 2} /\ i + 1 \in 1..l /\ i + 2 \in 1..l
      BY <2>2
    <3> QED BY <3>1
  <2>3. ASSUME n = 3, i + n <= l
        PROVE  /\ Tails <=> u \div 64 = 2 /\ v \div 64 = 2 /\ w \div 64 = 2
               /\ u \in BYTE /\ v \in BYTE /\ w \in BYTE
    <3>1. /\ (i + 1)..(i + n) = {i + 1, i + 2, i + 3}
          /\ i + 1 \in 1..l /\ i + 2 \in 1..l /\ i + 3 \in 1..l
      BY <2>3
    <3> QED BY <3>1
  <2>4. n = 0 => Tails
    OBVIOUS
  <2> QED BY <2>1, <2>2, <2>3, <2>4
<1>5. /\ n = 1 => cp = Shifted(FirstBits(b), u)
      /\ n = 2 => cp = Shifted(Shifted(FirstBits(b), u), v)
      /\ n = 3 => cp = Shifted(Shifted(Shifted(FirstBits(b), u), v), w)
  BY SMT DEF CodePoint
<1>6. CharacterAt(s, i) <=> i + n <= l /\ Fits(b, u, v, w)
  <2> HIDE DEF b, n, u, v, w, Tails, cp
  <2>1. CASE n = -1
    BY <1>1, <1>2, <2>1, FitsIs DEF n, b
  <2>2. CASE n = 0
    BY <1>1, <1>2, <1>4, <2>2, FitsIs DEF n, b
  <2>3. ASSUME n = 1, i + n <= l PROVE CharacterAt(s, i) <=> Fits(b, u, v, w)
    <3>1. u \in BYTE /\ b \in BYTE /\ More(b) = 1
      BY <1>1, <1>4, <2>3 DEF n, b
    <3>2. u \div 64 = 2 <=> u \in TailByte
      BY <3>1, TailBytes DEF TailByte
    <3>3. Fits(b, u, v, w) <=> u \in TailByte
      BY <3>1, FitsIs
    <3>4. u \in TailByte => Allowed(cp, Minimum(b))
      BY <1>5, <2>3, <3>1, CodeOfTwo
    <3> QED BY <1>2, <1>4, <2>3, <3>2, <3>3, <3>4
  <2>4. ASSUME n = 2, i + n <= l PROVE CharacterAt(s, i) <=> Fits(b, u, v, w)
    <3>1. u \in BYTE /\ v \in BYTE /\ b \in BYTE /\ More(b) = 2
      BY <1>1, <1>4, <2>4 DEF n, b
    <3>2. (u \div 64 = 2 <=> u \in TailByte) /\ (v \div 64 = 2 <=> v \in TailByte)
      BY <3>1, TailBytes DEF TailByte
    <3>3. Fits(b, u, v, w) <=> /\ u \in TailByte /\ v \in TailByte
                               /\ (b = 224 => u >= 160) /\ (b = 237 => u < 160)
      BY <3>1, FitsIs
    <3>4. u \in TailByte /\ v \in TailByte =>
            (Allowed(cp, Minimum(b)) <=> (b = 224 => u >= 160) /\ (b = 237 => u < 160))
      BY <1>5, <2>4, <3>1, CodeOfThree
    <3> QED BY <1>2, <1>4, <2>4, <3>2, <3>3, <3>4
  <2>5. ASSUME n = 3, i + n <= l PROVE CharacterAt(s, i) <=> Fits(b, u, v, w)
    <3>1. u \in BYTE /\ v \in BYTE /\ w \in BYTE /\ b \in BYTE /\ More(b) = 3
      BY <1>1, <1>4, <2>5 DEF n, b
    <3>2. /\ u \div 64 = 2 <=> u \in TailByte
          /\ v \div 64 = 2 <=> v \in TailByte
          /\ w \div 64 = 2 <=> w \in TailByte
      BY <3>1, TailBytes DEF TailByte
    <3>3. Fits(b, u, v, w) <=> /\ u \in TailByte /\ v \in TailByte /\ w \in TailByte
                               /\ (b = 240 => u >= 144) /\ (b = 244 => u < 144)
      BY <3>1, FitsIs
    <3>4. u \in TailByte /\ v \in TailByte /\ w \in TailByte =>
            (Allowed(cp, Minimum(b)) <=> (b = 240 => u >= 144) /\ (b = 244 => u < 144))
      BY <1>5, <2>5, <3>1, CodeOfFour
    <3> QED BY <1>2, <1>4, <2>5, <3>2, <3>3, <3>4
  <2> QED BY <1>2, <1>3, <2>1, <2>2, <2>3, <2>4, <2>5
<1> QED BY <1>6

\* The rows of the syntax for three and for four bytes, put together.
Rows3(b, u) ==
    \/ b \in {224} /\ u \in 160..191
    \/ b \in 225..236 /\ u \in TailByte
    \/ b \in {237} /\ u \in 128..159
    \/ b \in 238..239 /\ u \in TailByte
Rows4(b, u) ==
    \/ b \in {240} /\ u \in 144..191
    \/ b \in 241..243 /\ u \in TailByte
    \/ b \in {244} /\ u \in 128..143
Code3(b, u) == u \in TailByte /\ (b = 224 => u >= 160) /\ (b = 237 => u < 160)
Code4(b, u) == u \in TailByte /\ (b = 240 => u >= 144) /\ (b = 244 => u < 144)

LEMMA SecondByte ==
    ASSUME NEW b, NEW u
    PROVE  /\ b \in 224..239 /\ Code3(b, u) <=> Rows3(b, u)
           /\ b \in 240..244 /\ Code4(b, u) <=> Rows4(b, u)
<1>1. /\ u \in 160..191 <=> u \in TailByte /\ u >= 160
      /\ u \in 128..159 <=> u \in TailByte /\ u < 160
      /\ u \in 144..191 <=> u \in TailByte /\ u >= 144
      /\ u \in 128..143 <=> u \in TailByte /\ u < 144
  BY DEF TailByte
<1>2. b \in 224..239 <=> b = 224 \/ b \in 225..236 \/ b = 237 \/ b \in 238..239
  OBVIOUS
<1>3. /\ b \in 225..236 => b # 224 /\ b # 237
      /\ b \in 238..239 => b # 224 /\ b # 237
      /\ b = 224 => b # 237
  OBVIOUS
<1>4. b \in 240..244 <=> b = 240 \/ b \in 241..243 \/ b = 244
  OBVIOUS
<1>5. (b \in 241..243 => b # 240 /\ b # 244) /\ (b = 240 => b # 244)
  OBVIOUS
<1>6. b \in 224..239 /\ Code3(b, u) <=> Rows3(b, u)
  BY <1>1, <1>2, <1>3 DEF Code3, Rows3
<1>7. b \in 240..244 /\ Code4(b, u) <=> Rows4(b, u)
  BY <1>1, <1>4, <1>5 DEF Code4, Rows4
<1> QED BY <1>6, <1>7

\* The syntax asks the same of the bytes.
LEMMA CharacterFits ==
    \A c : c[1] \in BYTE /\ Len(c) \in Nat =>
       (IsCharacter(c) <=> Len(c) = More(c[1]) + 1 /\ Fits(c[1], c[2], c[3], c[4]))
<1>1. ASSUME NEW c, c[1] \in BYTE, Len(c) \in Nat
      PROVE  IsCharacter(c) <=> Len(c) = More(c[1]) + 1 /\ Fits(c[1], c[2], c[3], c[4])
  <2> DEFINE b == c[1]  n == More(b)  l == Len(c)  u == c[2]  v == c[3]  w == c[4]
  <2>1. IsCharacter(c) <=>
          \/ l = 1 /\ b \in 0..127
          \/ l = 2 /\ b \in 194..223 /\ u \in TailByte
          \/ /\ l = 3 /\ v \in TailByte
             /\ \/ b \in {224} /\ u \in 160..191
                \/ b \in 225..236 /\ u \in TailByte
                \/ b \in {237} /\ u \in 128..159
                \/ b \in 238..239 /\ u \in TailByte
          \/ /\ l = 4 /\ v \in TailByte /\ w \in TailByte
             /\ \/ b \in {240} /\ u \in 144..191
                \/ b \in 241..243 /\ u \in TailByte
                \/ b \in {244} /\ u \in 128..143
    BY CharactersAre
  <2>2. b \in BYTE /\ l \in Nat
    BY <1>1
  <2> HIDE DEF b, l, u, v, w
  <2>3. /\ n \in {-1, 0, 1, 2, 3}
        /\ n = 0 <=> b \in 0..127
        /\ n = 1 <=> b \in 194..223
        /\ n = 2 <=> b \in 224..239
        /\ n = 3 <=> b \in 240..244
    BY <2>2, MoreIs
  <2> HIDE DEF n
  <2>4. IsCharacter(c) <=>
          \/ l = 1 /\ n = 0
          \/ l = 2 /\ n = 1 /\ u \in TailByte
          \/ /\ l = 3 /\ n = 2 /\ v \in TailByte
             /\ u \in TailByte /\ (b = 224 => u >= 160) /\ (b = 237 => u < 160)
          \/ /\ l = 4 /\ n = 3 /\ v \in TailByte /\ w \in TailByte
             /\ u \in TailByte /\ (b = 240 => u >= 144) /\ (b = 244 => u < 144)
    <3>1. (n = 2 /\ Code3(b, u) <=> Rows3(b, u)) /\ (n = 3 /\ Code4(b, u) <=> Rows4(b, u))
      BY <2>3, SecondByte
    <3>2. IsCharacter(c) <=>
            \/ l = 1 /\ b \in 0..127
            \/ l = 2 /\ b \in 194..223 /\ u \in TailByte
            \/ l = 3 /\ v \in TailByte /\ Rows3(b, u)
            \/ l = 4 /\ v \in TailByte /\ w \in TailByte /\ Rows4(b, u)
      BY <2>1 DEF Rows3, Rows4
    <3>3. IsCharacter(c) <=>
            \/ l = 1 /\ n = 0
            \/ l = 2 /\ n = 1 /\ u \in TailByte
            \/ l = 3 /\ n = 2 /\ v \in TailByte /\ Code3(b, u)
            \/ l = 4 /\ n = 3 /\ v \in TailByte /\ w \in TailByte /\ Code4(b, u)
      BY <2>3, <3>1, <3>2
    <3> QED BY <3>3 DEF Code3, Code4
  <2>5. /\ n = -1 => ~ Fits(b, u, v, w)
        /\ n = 0 => Fits(b, u, v, w)
        /\ n = 1 => (Fits(b, u, v, w) <=> u \in TailByte)
        /\ n = 2 =>
             (Fits(b, u, v, w) <=> /\ u \in TailByte /\ v \in TailByte
                                   /\ (b = 224 => u >= 160) /\ (b = 237 => u < 160))
        /\ n = 3 =>
             (Fits(b, u, v, w) <=> /\ u \in TailByte /\ v \in TailByte /\ w \in TailByte
                                   /\ (b = 240 => u >= 144) /\ (b = 244 => u < 144))
    BY <2>2, FitsIs DEF n
  <2>6. IsCharacter(c) <=> l = n + 1 /\ Fits(b, u, v, w)
    <3>1. CASE n = -1
      BY <2>2, <2>4, <2>5, <3>1
    <3>2. CASE n = 0
      BY <2>2, <2>4, <2>5, <3>2
    <3>3. CASE n = 1
      BY <2>2, <2>4, <2>5, <3>3
    <3>4. CASE n = 2
      BY <2>2, <2>4, <2>5, <3>4
    <3>5. CASE n = 3
      BY <2>2, <2>4, <2>5, <3>5
    <3> QED BY <2>3, <3>1, <3>2, <3>3, <3>4, <3>5
  <2> QED BY <2>6 DEF b, n, l, u, v, w
<1> QED BY <1>1

\* What follows an index of a sequence, in the piece that begins there.
LEMMA PieceOf ==
    ASSUME NEW S, NEW s \in Seq(S), NEW i \in 1..Len(s), NEW k \in i..Len(s)
    PROVE  /\ Len(SubSeq(s, i, k)) = (k - i) + 1
           /\ \A j \in 0..(k - i) : SubSeq(s, i, k)[j + 1] = s[i + j]
<1>1. Len(SubSeq(s, i, k)) = (k - i) + 1
  OBVIOUS
<1>2. \A j \in 1..((k - i) + 1) : SubSeq(s, i, k)[j] = s[(i + j) - 1]
  OBVIOUS
<1>3. ASSUME NEW j \in 0..(k - i) PROVE SubSeq(s, i, k)[j + 1] = s[i + j]
  <2>1. j + 1 \in 1..((k - i) + 1) /\ (i + (j + 1)) - 1 = i + j
    OBVIOUS
  <2> QED BY <1>2, <2>1
<1> QED BY <1>1, <1>3

\* A piece of a text is a character exactly if the code finds it there.
LEMMA CharacterIs ==
    \A s \in Seq(BYTE) : \A i \in 1..Len(s) : \A k \in i..Len(s) :
       IsCharacter(SubSeq(s, i, k)) <=> CharacterAt(s, i) /\ k = i + More(s[i])
<1>1. ASSUME NEW s, NEW i, NEW k, s \in Seq(BYTE), i \in 1..Len(s), k \in i..Len(s)
      PROVE  IsCharacter(SubSeq(s, i, k)) <=> CharacterAt(s, i) /\ k = i + More(s[i])
  <2> DEFINE c == SubSeq(s, i, k)  l == Len(s)  n == More(s[i])
             b == s[i]  u == s[i + 1]  v == s[i + 2]  w == s[i + 3]
  <2>1. Len(c) = (k - i) + 1 /\ \A j \in 0..(k - i) : c[j + 1] = s[i + j]
    BY <1>1, PieceOf
  <2>2. l \in Nat /\ \A j \in 1..l : s[j] \in BYTE
    BY <1>1, BytesOf
  <2>3. i \in Nat /\ k \in Nat /\ 1 <= i /\ i <= k /\ k <= l
    BY <1>1, <2>2
  <2> HIDE DEF c, l
  <2>4. /\ c[1] = b
        /\ k >= i + 1 => c[2] = u
        /\ k >= i + 2 => c[3] = v
        /\ k >= i + 3 => c[4] = w
    <3>1. 0 \in 0..(k - i) /\ i + 0 = i
      BY <2>3
    <3>2. c[0 + 1] = s[i + 0]
      BY <2>1, <3>1
    <3>3. k >= i + 1 => 1 \in 0..(k - i)
      BY <2>3
    <3>4. k >= i + 2 => 2 \in 0..(k - i)
      BY <2>3
    <3>5. k >= i + 3 => 3 \in 0..(k - i)
      BY <2>3
    <3>6. k >= i + 1 => c[1 + 1] = s[i + 1]
      BY <2>1, <3>3
    <3>7. k >= i + 2 => c[2 + 1] = s[i + 2]
      BY <2>1, <3>4
    <3>8. k >= i + 3 => c[3 + 1] = s[i + 3]
      BY <2>1, <3>5
    <3> QED BY <3>1, <3>2, <3>6, <3>7, <3>8
  <2>5. b \in BYTE /\ Len(c) \in Nat
    BY <2>1, <2>2, <2>3
  <2>6. IsCharacter(c) <=> Len(c) = More(c[1]) + 1 /\ Fits(c[1], c[2], c[3], c[4])
    BY <2>4, <2>5, CharacterFits
  <2>7. CharacterAt(s, i) <=> i + n <= l /\ Fits(b, u, v, w)
    BY <2>2, <2>3, CharacterAtIs DEF l
  <2>8. n \in {-1, 0, 1, 2, 3}
    BY <2>5, MoreIs
  <2> HIDE DEF n, b, u, v, w
  <2>9. Len(c) = n + 1 <=> k = i + n
    BY <2>1, <2>3, <2>8
  <2>10. ASSUME k = i + n PROVE Fits(c[1], c[2], c[3], c[4]) <=> Fits(b, u, v, w)
    <3> DEFINE u2 == c[2]  v2 == c[3]  w2 == c[4]
    <3>1. /\ n >= 1 => u2 = u
          /\ n >= 2 => v2 = v
          /\ n >= 3 => w2 = w
      BY <2>3, <2>4, <2>8, <2>10
    <3> HIDE DEF u2, v2, w2
    <3>2. n # -1
      BY <2>3, <2>8, <2>10
    <3>4. CASE n = 1
      <4>1. Fits(b, u, v, w) <=> u \in TailByte
        BY <2>5, <3>4, FitsIs DEF n, b
      <4>2. Fits(b, u2, v2, w2) <=> u2 \in TailByte
        BY <2>5, <3>4, FitsIs DEF n, b
      <4> QED BY <2>4, <3>1, <3>4, <4>1, <4>2 DEF u2, v2, w2
    <3>5. CASE n = 2
      <4>1. u2 = u /\ v2 = v
        BY <3>1, <3>5
      <4>2. Fits(b, u, v, w2) <=> Fits(b, u, v, w)
        BY <2>5, <3>5, FitsIs DEF n, b
      <4> QED BY <2>4, <4>1, <4>2 DEF u2, v2, w2
    <3>6. CASE n = 3
      <4>1. u2 = u /\ v2 = v /\ w2 = w
        BY <3>1, <3>6
      <4> QED BY <2>4, <4>1 DEF u2, v2, w2
    <3>7. n = 0 => (Fits(c[1], c[2], c[3], c[4]) <=> Fits(b, u, v, w))
      <4>1. ASSUME n = 0 PROVE Fits(b, u2, v2, w2) <=> Fits(b, u, v, w)
        BY <2>5, <4>1, FitsIs DEF n, b
      <4> QED BY <2>4, <4>1 DEF u2, v2, w2
    <3> QED BY <2>8, <3>2, <3>4, <3>5, <3>6, <3>7
  <2>11. n + i = i + n /\ (k = i + n => i + n <= l)
    BY <2>3, <2>8
  <2>12. Len(c) = More(c[1]) + 1 <=> k = i + n
    BY <2>4, <2>9 DEF n, b
  <2>13. IsCharacter(c) <=> CharacterAt(s, i) /\ k = i + n
    BY <2>6, <2>7, <2>10, <2>11, <2>12
  <2> QED BY <2>13 DEF c, n
<1> QED BY <1>1

-----------------------------------------------------------------------------
(* UTF-8: a text of characters *)

\* B cuts the text from i on into characters.
NextAt(s, i) == i + More(s[i]) + 1
Adjacent(B, a, b) == a < b /\ \A m \in B : m <= a \/ m >= b
Cuts(s, i, B) ==
    /\ B \subseteq (i - 1)..Len(s) /\ i - 1 \in B /\ Len(s) \in B
    /\ \A a, b \in B : Adjacent(B, a, b) => IsCharacter(SubSeq(s, a + 1, b))
Cut(s) == [i \in 1..(Len(s) + 1) |-> \E B : Cuts(s, i, B)]

\* What CharacterIs says of adjacent elements, and of the index the code goes on at.
LEMMA NextIs ==
    \A s \in Seq(BYTE) :
       /\ Len(s) \in Nat
       /\ \A i \in 1..Len(s) : CharacterAt(s, i) =>
            /\ NextAt(s, i) \in (i + 1)..(Len(s) + 1)
            /\ IsCharacter(SubSeq(s, i, NextAt(s, i) - 1))
       /\ \A i \in 1..Len(s) : \A k \in i..Len(s) :
            IsCharacter(SubSeq(s, i, k)) => CharacterAt(s, i) /\ NextAt(s, i) = k + 1
<1>1. ASSUME NEW s, s \in Seq(BYTE)
      PROVE  Len(s) \in Nat /\ \A i \in 1..Len(s) : s[i] \in BYTE
  BY <1>1, BytesOf
<1>2. ASSUME NEW s, NEW i, s \in Seq(BYTE), i \in 1..Len(s), CharacterAt(s, i)
      PROVE  /\ NextAt(s, i) \in (i + 1)..(Len(s) + 1)
             /\ IsCharacter(SubSeq(s, i, NextAt(s, i) - 1))
  <2> DEFINE l == Len(s)  n == More(s[i])
  <2>1. l \in Nat /\ s[i] \in BYTE /\ i \in 1..l
    BY <1>1, <1>2
  <2>2. i + n <= l /\ n # -1
    BY <1>2 DEF CharacterAt
  <2>3. n \in {-1, 0, 1, 2, 3}
    BY <2>1, MoreIs
  <2> HIDE DEF l, n
  <2>4. i + n \in i..l /\ (i + n + 1) - 1 = i + n /\ i + n + 1 \in (i + 1)..(l + 1)
    BY <2>1, <2>2, <2>3
  <2>5. IsCharacter(SubSeq(s, i, i + n))
    <3>1. i + n \in i..Len(s)
      BY <2>4 DEF l
    <3>2. IsCharacter(SubSeq(s, i, i + n)) <=> CharacterAt(s, i) /\ i + n = i + More(s[i])
      BY <1>2, <3>1, CharacterIs
    <3> QED BY <1>2, <3>2 DEF n
  <2> QED BY <2>4, <2>5 DEF l, n, NextAt
<1>3. ASSUME NEW s, NEW i, NEW k, s \in Seq(BYTE), i \in 1..Len(s), k \in i..Len(s),
             IsCharacter(SubSeq(s, i, k))
      PROVE  CharacterAt(s, i) /\ NextAt(s, i) = k + 1
  BY <1>3, CharacterIs DEF NextAt
<1> QED BY <1>1, <1>2, <1>3

\* Whether a text can be cut from i on depends on the next character only.
LEMMA CutIs ==
    \A s \in Seq(BYTE) : \A i \in 1..(Len(s) + 1) :
       Cut(s)[i] <=> i > Len(s) \/ (CharacterAt(s, i) /\ Cut(s)[NextAt(s, i)])
<1>1. ASSUME NEW s, NEW i, s \in Seq(BYTE), i \in 1..(Len(s) + 1)
      PROVE  Cut(s)[i] <=> i > Len(s) \/ (CharacterAt(s, i) /\ Cut(s)[NextAt(s, i)])
  <2> DEFINE l == Len(s)
  <2>1. l \in Nat /\ i \in 1..(l + 1)
    BY <1>1, NextIs
  <2>2. \A j \in 1..(l + 1) : Cut(s)[j] <=> \E B : Cuts(s, j, B)
    BY DEF Cut
  <2> HIDE DEF l
  <2>3. CASE i > l
    <3>1. i = l + 1 /\ i - 1 = l
      BY <2>1, <2>3
    <3>2. Cuts(s, i, {l})
      <4>1. {l} \subseteq (i - 1)..l /\ i - 1 \in {l} /\ l \in {l}
        BY <2>1, <3>1
      <4>2. \A a, b \in {l} : ~ Adjacent({l}, a, b)
        BY <2>1 DEF Adjacent
      <4> QED BY <4>1, <4>2 DEF Cuts, l
    <3> QED BY <2>1, <2>2, <2>3, <3>2 DEF l
  <2>4. CASE ~ (i > l)
    <3>1. i \in 1..l
      BY <2>1, <2>4
    <3>2. ASSUME CharacterAt(s, i), Cut(s)[NextAt(s, i)] PROVE Cut(s)[i]
      <4> DEFINE n == NextAt(s, i)
      <4>1. n \in (i + 1)..(l + 1) /\ IsCharacter(SubSeq(s, i, n - 1))
        BY <1>1, <3>1, <3>2, NextIs DEF l
      <4>2. PICK B : Cuts(s, n, B)
        <5>1. n \in 1..(l + 1)
          BY <3>1, <4>1
        <5> QED BY <2>2, <3>2, <5>1
      <4> HIDE DEF n
      <4> DEFINE D == B \cup {i - 1}
      <4>3. /\ B \subseteq (n - 1)..l /\ n - 1 \in B /\ l \in B
            /\ \A a, b \in B : Adjacent(B, a, b) => IsCharacter(SubSeq(s, a + 1, b))
        BY <4>2 DEF Cuts, l
      <4>4. D \subseteq (i - 1)..l
        BY <2>1, <3>1, <4>1, <4>3
      <4>5. ASSUME NEW a \in D, NEW b \in D, Adjacent(D, a, b)
            PROVE  IsCharacter(SubSeq(s, a + 1, b))
        <5>1. a \in Int /\ b \in Int /\ a < b /\ \A m \in D : m <= a \/ m >= b
          BY <2>1, <3>1, <4>4, <4>5 DEF Adjacent
        <5>2. CASE a = i - 1
          <6>1. n - 1 >= b
            <7>1. n - 1 \in D /\ ~ (n - 1 <= a)
              BY <3>1, <4>1, <4>3, <5>2
            <7> QED BY <5>1, <7>1
          <6>2. b \in B
            BY <5>1, <5>2
          <6>3. b >= n - 1 /\ n - 1 \in Int
            BY <3>1, <2>1, <4>1, <4>3, <6>2
          <6>4. b = n - 1 /\ a + 1 = i
            BY <3>1, <5>1, <5>2, <6>1, <6>3
          <6> QED BY <4>1, <6>4
        <5>3. CASE a # i - 1
          <6>1. a \in B
            BY <5>3
          <6>2. a >= n - 1
            BY <3>1, <2>1, <4>1, <4>3, <6>1
          <6>3. b # i - 1
            BY <3>1, <4>1, <5>1, <6>2
          <6>4. b \in B /\ Adjacent(B, a, b)
            BY <5>1, <6>3 DEF Adjacent
          <6> QED BY <4>3, <6>1, <6>4
        <5> QED BY <5>2, <5>3
      <4>6. Cuts(s, i, D)
        BY <4>3, <4>4, <4>5 DEF Cuts, l
      <4> QED BY <2>1, <2>2, <4>6
    <3>3. ASSUME Cut(s)[i] PROVE CharacterAt(s, i) /\ Cut(s)[NextAt(s, i)]
      <4>1. PICK B : Cuts(s, i, B)
        BY <2>1, <2>2, <3>3
      <4>2. /\ B \subseteq (i - 1)..l /\ i - 1 \in B /\ l \in B
            /\ \A a, b \in B : Adjacent(B, a, b) => IsCharacter(SubSeq(s, a + 1, b))
        BY <4>1 DEF Cuts, l
      <4> DEFINE A == {m \in B : m >= i}
      <4>3. PICK b \in A : \A k \in A : b <= k
        <5>1. A \in SUBSET Nat
          <6>1. A \subseteq B
            OBVIOUS
          <6>2. i - 1 \in Nat /\ l \in Nat
            BY <2>1, <3>1
          <6>3. (i - 1)..l \subseteq Nat
            BY <6>2
          <6> QED BY <4>2, <6>1, <6>3
        <5>2. l \in A
          BY <2>1, <3>1, <4>2
        <5> HIDE DEF A
        <5> QED BY <5>1, <5>2, LeastExists
      <4>4. b \in B /\ b \in i..l
        BY <2>1, <3>1, <4>2
      <4>5. Adjacent(B, i - 1, b)
        <5>1. ASSUME NEW m \in B PROVE m <= i - 1 \/ m >= b
          <6>1. m \in Int /\ (m \in A => m >= b)
            BY <2>1, <3>1, <4>2, <4>3, <4>4
          <6>2. m \in A \/ m <= i - 1
            BY <3>1, <6>1
          <6> QED BY <6>1, <6>2
        <5>2. i - 1 < b
          BY <3>1, <4>4
        <5> QED BY <5>1, <5>2 DEF Adjacent
      <4>6. CharacterAt(s, i) /\ NextAt(s, i) = b + 1
        <5>1. (i - 1) + 1 = i
          BY <3>1
        <5>2. IsCharacter(SubSeq(s, i, b))
          BY <4>2, <4>4, <4>5, <5>1
        <5> QED BY <1>1, <3>1, <4>4, <5>2, NextIs DEF l
      <4> DEFINE D == {m \in B : m >= b}
      <4>7. /\ D \subseteq ((b + 1) - 1)..l /\ (b + 1) - 1 \in D /\ l \in D
        <5>1. (b + 1) - 1 = b /\ b \in Int /\ b <= l
          BY <2>1, <3>1, <4>4
        <5>2. \A m \in D : m \in Int /\ b <= m /\ m <= l
          BY <2>1, <3>1, <4>2
        <5>3. b \in D /\ l \in D
          BY <4>2, <4>4, <5>1
        <5> HIDE DEF D
        <5> QED BY <2>1, <5>1, <5>2, <5>3
      <4>8. ASSUME NEW x \in D, NEW y \in D, Adjacent(D, x, y)
            PROVE  IsCharacter(SubSeq(s, x + 1, y))
        <5>1. x \in B /\ y \in B /\ x >= b /\ x < y /\ \A m \in D : m <= x \/ m >= y
          BY <4>8 DEF Adjacent
        <5>2. ASSUME NEW m \in B PROVE m <= x \/ m >= y
          <6>1. m \in Int /\ x \in Int /\ b \in Int
            BY <2>1, <3>1, <4>2, <4>4, <5>1
          <6>2. CASE m >= b
            BY <5>1, <6>2
          <6>3. CASE ~ (m >= b)
            BY <5>1, <6>1, <6>3
          <6> QED BY <6>2, <6>3
        <5> QED BY <4>2, <5>1, <5>2 DEF Adjacent
      <4>9. Cuts(s, b + 1, D)
        BY <4>7, <4>8 DEF Cuts, l
      <4>10. b + 1 \in 1..(l + 1)
        BY <2>1, <3>1, <4>4
      <4> QED BY <2>2, <4>6, <4>9, <4>10
    <3> QED BY <2>4, <3>2, <3>3 DEF l
  <2> QED BY <2>3, <2>4
<1> QED BY <1>1

\* The function valid_utf8 stands for.
Walk(s, g) ==
    g = [i \in 1..(Len(s) + 1) |->
           i > Len(s) \/ (CharacterAt(s, i) /\ g[i + More(s[i]) + 1])]
Walked(s) == CHOOSE g : Walk(s, g)

LEMMA WalkedIsCut ==
    \A s \in Seq(BYTE) : Walked(s)[1] <=> Cut(s)[1]
<1>1. ASSUME NEW s, s \in Seq(BYTE) PROVE Walked(s)[1] <=> Cut(s)[1]
  <2> DEFINE l == Len(s)  g == Walked(s)  h == Cut(s)
  <2>1. l \in Nat
    BY <1>1, NextIs
  <2>2. Walk(s, h)
    <3> DEFINE f == [i \in 1..(Len(s) + 1) |->
                       i > Len(s) \/ (CharacterAt(s, i) /\ h[i + More(s[i]) + 1])]
    <3>1. \A i \in 1..(Len(s) + 1) : h[i] = f[i]
      <4> SUFFICES ASSUME NEW i \in 1..(Len(s) + 1) PROVE h[i] = f[i]
        OBVIOUS
      <4>1. h[i] = \E B : Cuts(s, i, B)
        BY DEF Cut
      <4>2. h[i] <=> i > Len(s) \/ (CharacterAt(s, i) /\ h[i + More(s[i]) + 1])
        BY <1>1, CutIs DEF NextAt
      <4>3. f[i] = (i > Len(s) \/ (CharacterAt(s, i) /\ h[i + More(s[i]) + 1]))
        OBVIOUS
      <4> HIDE DEF h, f
      <4> QED BY <4>1, <4>2, <4>3
    <3>2. h = [i \in 1..(Len(s) + 1) |-> h[i]] /\ f = [i \in 1..(Len(s) + 1) |-> f[i]]
      BY DEF Cut
    <3> HIDE DEF h, f
    <3>3. h = f
      BY <3>1, <3>2
    <3> QED BY <3>3 DEF Walk, f
  <2>3. Walk(s, g)
    BY <2>2 DEF Walked
  <2> HIDE DEF g, h
  <2>4. ASSUME NEW i \in 1..(l + 1)
        PROVE  /\ g[i] <=> i > l \/ (CharacterAt(s, i) /\ g[NextAt(s, i)])
               /\ h[i] <=> i > l \/ (CharacterAt(s, i) /\ h[NextAt(s, i)])
    <3>1. ASSUME NEW f, Walk(s, f)
          PROVE  f[i] <=> i > l \/ (CharacterAt(s, i) /\ f[NextAt(s, i)])
      BY <3>1 DEF Walk, NextAt
    <3> QED BY <2>2, <2>3, <3>1
  <2> HIDE DEF l
  <2> DEFINE Wrong == {k \in 0..l : ~ (g[(l + 1) - k] <=> h[(l + 1) - k])}
  <2>5. ASSUME Wrong # {} PROVE FALSE
    <3>1. PICK k \in Wrong : \A j \in Wrong : k <= j
      <4>1. Wrong \in SUBSET Nat
        BY <2>1
      <4> HIDE DEF Wrong
      <4> QED BY <2>5, <4>1, LeastExists
    <3> DEFINE i == (l + 1) - k
    <3>2. k \in 0..l /\ ~ (g[i] <=> h[i])
      OBVIOUS
    <3>3. i \in 1..(l + 1)
      BY <2>1, <3>2
    <3> HIDE DEF i
    <3>4. i \in 1..l /\ CharacterAt(s, i)
      BY <2>1, <2>4, <3>2, <3>3
    <3> DEFINE n == NextAt(s, i)
    <3>5. n \in (i + 1)..(l + 1)
      BY <1>1, <3>4, NextIs DEF l
    <3> HIDE DEF n
    <3>6. (l + 1) - n \in 0..l /\ (l + 1) - ((l + 1) - n) = n /\ (l + 1) - n < k
      BY <2>1, <3>2, <3>3, <3>5 DEF i
    <3>7. (l + 1) - n \notin Wrong
      <4>1. ~ (k <= (l + 1) - n)
        BY <2>1, <3>2, <3>6
      <4> HIDE DEF Wrong
      <4> QED BY <3>1, <4>1
    <3>8. g[n] <=> h[n]
      BY <3>6, <3>7
    <3> QED BY <2>4, <3>2, <3>3, <3>8 DEF n
  <2>6. l \in 0..l /\ (l + 1) - l = 1
    BY <2>1
  <2>7. g[1] <=> h[1]
    <3>1. l \notin Wrong
      BY <2>5
    <3>2. g[(l + 1) - l] <=> h[(l + 1) - l]
      BY <2>6, <3>1
    <3> HIDE DEF Wrong
    <3> QED BY <2>6, <3>2
  <2> QED BY <2>7 DEF g, h
<1> QED BY <1>1

\* The check of the bytes accepts the texts UTF-8 allows and no other, of every
\* length (valid_utf8).
THEOREM Utf8Exact == \A s \in Seq(0..255) : ValidUtf8(s) <=> WellFormed(s)
<1>1. ASSUME NEW s, s \in Seq(BYTE) PROVE ValidUtf8(s) <=> WellFormed(s)
  <2>1. ValidUtf8(s) = Walked(s)[1]
    BY DEF ValidUtf8, Walked, Walk
  <2>2. Len(s) \in Nat
    BY <1>1, NextIs
  <2>3. WellFormed(s) <=> \E B : Cuts(s, 1, B)
    <3>1. 1 - 1 = 0
      OBVIOUS
    <3>2. \A B : Cuts(s, 1, B) <=>
            /\ B \in SUBSET (0..Len(s)) /\ {0, Len(s)} \subseteq B
            /\ \A a, b \in B : Adjacent(B, a, b) => IsCharacter(SubSeq(s, a + 1, b))
      BY <3>1 DEF Cuts
    <3> QED BY <3>2 DEF WellFormed, Adjacent
  <2>4. 1 \in 1..(Len(s) + 1)
    BY <2>2
  <2>5. Cut(s)[1] <=> \E B : Cuts(s, 1, B)
    BY <2>4 DEF Cut
  <2>6. Walked(s)[1] <=> Cut(s)[1]
    BY <1>1, WalkedIsCut
  <2> QED BY <2>1, <2>3, <2>5, <2>6
<1> QED BY <1>1 DEF BYTE

-----------------------------------------------------------------------------
(* The scan: which letters are escaped, and the counts of the reference *)

\* The letters before i that are backslashes, up to one that is not: n of them.
Run(s, i, n) ==
    /\ n \in 0..(i - 1)
    /\ \A j \in (i - n)..(i - 1) : s[j] = "backslash"
    /\ i - n = 1 \/ s[i - n - 1] # "backslash"

LEMMA EscapedIs ==
    ASSUME NEW s, NEW i
    PROVE  Escaped(s, i) <=> \E n : Run(s, i, n) /\ n % 2 = 1
BY DEF Escaped, Run

LEMMA RunExists ==
    ASSUME NEW s, NEW i \in Nat \ {0}
    PROVE  \E n : Run(s, i, n)
<1> DEFINE Ends == {n \in 0..(i - 1) : i - n = 1 \/ s[i - n - 1] # "backslash"}
<1>1. PICK n \in Ends : \A m \in Ends : n <= m
  <2>1. Ends \in SUBSET Nat
    OBVIOUS
  <2>2. i - 1 \in Ends
    <3>1. i - 1 \in 0..(i - 1) /\ i - (i - 1) = 1
      OBVIOUS
    <3> QED BY <3>1
  <2> HIDE DEF Ends
  <2> QED BY <2>1, <2>2, LeastExists
<1>2. n \in 0..(i - 1) /\ (i - n = 1 \/ s[i - n - 1] # "backslash")
  OBVIOUS
<1>3. ASSUME NEW j \in (i - n)..(i - 1) PROVE s[j] = "backslash"
  <2> DEFINE m == (i - 1) - j
  <2>1. m \in 0..(i - 1) /\ i - m - 1 = j /\ ~ (n <= m)
    BY <1>2
  <2>2. m \notin Ends
    <3> HIDE DEF Ends, m
    <3> QED BY <1>1, <2>1
  <2> HIDE DEF m
  <2> QED BY <2>1, <2>2
<1>4. Run(s, i, n)
  BY <1>2, <1>3 DEF Run
<1> QED BY <1>4

LEMMA RunUnique ==
    ASSUME NEW s, NEW i \in Nat \ {0}, NEW n, NEW m, Run(s, i, n), Run(s, i, m)
    PROVE  n = m
<1>1. n \in 0..(i - 1) /\ m \in 0..(i - 1)
  BY DEF Run
<1>2. ASSUME NEW a, NEW b, Run(s, i, a), Run(s, i, b), a < b PROVE FALSE
  <2>1. a \in 0..(i - 1) /\ b \in 0..(i - 1)
    BY <1>2 DEF Run
  <2>2. i - a # 1 /\ i - a - 1 \in (i - b)..(i - 1)
    BY <1>2, <2>1
  <2>3. s[i - a - 1] = "backslash"
    BY <1>2, <2>2 DEF Run
  <2> QED BY <1>2, <2>2, <2>3 DEF Run
<1>3. ~ (n < m) /\ ~ (m < n)
  BY <1>2
<1> QED BY <1>1, <1>3

LEMMA RunOn ==
    ASSUME NEW s, NEW i \in Nat \ {0}, NEW n
    PROVE  /\ s[i] = "backslash" /\ Run(s, i, n) => Run(s, i + 1, n + 1)
           /\ s[i] # "backslash" /\ Run(s, i + 1, n) => n = 0
<1>1. ASSUME s[i] = "backslash", Run(s, i, n) PROVE Run(s, i + 1, n + 1)
  <2>1. /\ n \in 0..(i - 1)
        /\ \A j \in (i - n)..(i - 1) : s[j] = "backslash"
        /\ i - n = 1 \/ s[i - n - 1] # "backslash"
    BY <1>1 DEF Run
  <2>2. /\ n + 1 \in 0..((i + 1) - 1) /\ (i + 1) - (n + 1) = i - n
        /\ \A j \in (i - n)..((i + 1) - 1) : j \in (i - n)..(i - 1) \/ j = i
    BY <2>1
  <2> QED BY <1>1, <2>1, <2>2 DEF Run
<1>2. ASSUME s[i] # "backslash", Run(s, i + 1, n) PROVE n = 0
  <2>1. /\ n \in 0..((i + 1) - 1)
        /\ \A j \in ((i + 1) - n)..((i + 1) - 1) : s[j] = "backslash"
    BY <1>2 DEF Run
  <2>2. n # 0 => i \in ((i + 1) - n)..((i + 1) - 1)
    BY <2>1
  <2> QED BY <1>2, <2>1, <2>2
<1> QED BY <1>1, <1>2

LEMMA Parity ==
    ASSUME NEW n \in Nat
    PROVE  n % 2 \in {0, 1} /\ ((n + 1) % 2 = 1 <=> n % 2 # 1)
<1>1. /\ n \div 2 \in Int /\ n % 2 \in 0..1 /\ n = 2 * (n \div 2) + (n % 2)
      /\ (n + 1) \div 2 \in Int /\ (n + 1) % 2 \in 0..1
      /\ n + 1 = 2 * ((n + 1) \div 2) + ((n + 1) % 2)
  OBVIOUS
<1> DEFINE a == n \div 2  b == n % 2  c == (n + 1) \div 2  d == (n + 1) % 2
<1>2. /\ a \in Int /\ c \in Int /\ b \in 0..1 /\ d \in 0..1
      /\ n = 2 * a + b /\ n + 1 = 2 * c + d
  BY <1>1
<1> HIDE DEF a, b, c, d
<1>3. b \in {0, 1} /\ (d = 1 <=> b # 1)
  BY <1>2
<1> QED BY <1>3 DEF b, d

\* A letter is escaped exactly after a backslash that is not.
LEMMA EscapedNext ==
    ASSUME NEW s, NEW i \in Nat \ {0}
    PROVE  Escaped(s, i + 1) <=> s[i] = "backslash" /\ ~ Escaped(s, i)
<1>1. PICK n : Run(s, i, n)
  BY RunExists
<1>2. n \in Nat
  BY <1>1 DEF Run
<1>3. Escaped(s, i) <=> n % 2 = 1
  BY <1>1, EscapedIs, RunUnique
<1>4. i + 1 \in Nat \ {0}
  OBVIOUS
<1>5. CASE s[i] = "backslash"
  <2>1. Run(s, i + 1, n + 1)
    BY <1>1, <1>5, RunOn
  <2>2. Escaped(s, i + 1) <=> (n + 1) % 2 = 1
    BY <1>4, <2>1, EscapedIs, RunUnique
  <2>3. (n + 1) % 2 = 1 <=> n % 2 # 1
    BY <1>2, Parity
  <2>4. Escaped(s, i + 1) <=> ~ Escaped(s, i)
    BY <1>3, <2>2, <2>3
  <2> QED BY <1>5, <2>4
<1>6. CASE s[i] # "backslash"
  <2>1. ASSUME NEW m, Run(s, i + 1, m) PROVE m % 2 # 1
    <3>1. m = 0
      BY <1>6, <2>1, RunOn
    <3>2. 0 % 2 # 1
      BY Parity
    <3> QED BY <3>1, <3>2
  <2>2. ~ Escaped(s, i + 1)
    BY <2>1, EscapedIs
  <2> QED BY <1>6, <2>2
<1> QED BY <1>5, <1>6

\* How many of the first i numbers are in Q, from how many before it.
LEMMA CountedNext ==
    ASSUME NEW Q, NEW i \in Nat \ {0}
    PROVE  /\ IsFiniteSet(Q \cap (1..i)) /\ Cardinality(Q \cap (1..i)) \in Nat
           /\ Cardinality(Q \cap (1..(i - 1))) \in Nat
           /\ i \in Q => Cardinality(Q \cap (1..i)) = Cardinality(Q \cap (1..(i - 1))) + 1
           /\ i \notin Q => Cardinality(Q \cap (1..i)) = Cardinality(Q \cap (1..(i - 1)))
<1> DEFINE A == Q \cap (1..(i - 1))  B == Q \cap (1..i)
<1>1. IsFiniteSet(A) /\ IsFiniteSet(B)
  <2>1. IsFiniteSet(1..(i - 1)) /\ IsFiniteSet(1..i)
    BY FS_Interval
  <2> QED BY <2>1, FS_Subset
<1>2. i \notin A
  OBVIOUS
<1>3. i \in Q => B = A \cup {i}
  OBVIOUS
<1>4. i \notin Q => B = A
  OBVIOUS
<1>5. Cardinality(A) \in Nat /\ Cardinality(B) \in Nat
  BY <1>1, FS_CardinalityType
<1> HIDE DEF A, B
<1>6. i \in Q => Cardinality(B) = Cardinality(A) + 1
  BY <1>1, <1>2, <1>3, FS_AddElement
<1>7. i \notin Q => Cardinality(B) = Cardinality(A)
  BY <1>4
<1> QED BY <1>1, <1>5, <1>6, <1>7 DEF A, B

LEMMA QuotesNext ==
    ASSUME NEW s, NEW i \in Nat \ {0}
    PROVE  /\ Quotes(s, i) \in Nat
           /\ Quoted(s, i + 1) <=> Quotes(s, i) % 2 = 1
           /\ Quoted(s, i + 1) <=>
                IF s[i] = "quote" /\ ~ Escaped(s, i) THEN ~ Quoted(s, i) ELSE Quoted(s, i)
<1> DEFINE Q == {j \in Nat : s[j] = "quote" /\ ~ Escaped(s, j)}
<1>1. ASSUME NEW k \in Nat PROVE Quotes(s, k) = Cardinality(Q \cap (1..k))
  <2>1. {j \in 1..k : s[j] = "quote" /\ ~ Escaped(s, j)} = Q \cap (1..k)
    OBVIOUS
  <2> QED BY <2>1 DEF Quotes
<1>2. i \in Q <=> s[i] = "quote" /\ ~ Escaped(s, i)
  OBVIOUS
<1> HIDE DEF Q
<1>3. Quotes(s, i) = Cardinality(Q \cap (1..i))
  BY <1>1
<1>4. Quotes(s, i - 1) = Cardinality(Q \cap (1..(i - 1)))
  <2>1. i - 1 \in Nat
    OBVIOUS
  <2> QED BY <1>1, <2>1
<1> DEFINE a == Quotes(s, i - 1)  b == Quotes(s, i)
<1>5. a \in Nat /\ b \in Nat /\ (i \in Q => b = a + 1) /\ (i \notin Q => b = a)
  BY <1>3, <1>4, CountedNext
<1>6. Quoted(s, i) <=> a % 2 = 1
  BY DEF Quoted
<1>7. Quoted(s, i + 1) <=> b % 2 = 1
  <2>1. (i + 1) - 1 = i
    OBVIOUS
  <2> QED BY <2>1 DEF Quoted
<1> HIDE DEF a, b
<1>8. (a + 1) % 2 = 1 <=> a % 2 # 1
  BY <1>5, Parity
<1>9. IF i \in Q THEN Quoted(s, i + 1) <=> ~ Quoted(s, i)
                 ELSE Quoted(s, i + 1) <=> Quoted(s, i)
  BY <1>5, <1>6, <1>7, <1>8
<1> QED BY <1>2, <1>5, <1>7, <1>9 DEF b

LEMMA NestingNext ==
    ASSUME NEW s, NEW i \in Nat \ {0}
    PROVE  /\ Nesting(s, i) \in Int /\ Nesting(s, i - 1) \in Int
           /\ s[i] = "open" /\ ~ Quoted(s, i) => Nesting(s, i) = Nesting(s, i - 1) + 1
           /\ s[i] = "close" /\ ~ Quoted(s, i) => Nesting(s, i) = Nesting(s, i - 1) - 1
           /\ s[i] \notin {"open", "close"} \/ Quoted(s, i) =>
                Nesting(s, i) = Nesting(s, i - 1)
<1>1. ASSUME NEW ch
      PROVE  /\ Count(s, ch, i) \in Nat /\ Count(s, ch, i - 1) \in Nat
             /\ s[i] = ch /\ ~ Quoted(s, i) => Count(s, ch, i) = Count(s, ch, i - 1) + 1
             /\ s[i] # ch \/ Quoted(s, i) => Count(s, ch, i) = Count(s, ch, i - 1)
  <2> DEFINE Q == {j \in Nat : s[j] = ch /\ ~ Quoted(s, j)}
  <2>1. ASSUME NEW k \in Nat PROVE Count(s, ch, k) = Cardinality(Q \cap (1..k))
    <3>1. {j \in 1..k : s[j] = ch /\ ~ Quoted(s, j)} = Q \cap (1..k)
      OBVIOUS
    <3> QED BY <3>1 DEF Count
  <2>2. i \in Q <=> s[i] = ch /\ ~ Quoted(s, i)
    OBVIOUS
  <2> HIDE DEF Q
  <2>3. Count(s, ch, i) = Cardinality(Q \cap (1..i))
    BY <2>1
  <2>4. Count(s, ch, i - 1) = Cardinality(Q \cap (1..(i - 1)))
    <3>1. i - 1 \in Nat
      OBVIOUS
    <3> QED BY <2>1, <3>1
  <2> QED BY <2>2, <2>3, <2>4, CountedNext
<1> DEFINE o == Count(s, "open", i)  p == Count(s, "open", i - 1)
           c == Count(s, "close", i)  d == Count(s, "close", i - 1)
<1>2. /\ o \in Nat /\ p \in Nat /\ c \in Nat /\ d \in Nat
      /\ s[i] = "open" /\ ~ Quoted(s, i) => o = p + 1
      /\ s[i] # "open" \/ Quoted(s, i) => o = p
      /\ s[i] = "close" /\ ~ Quoted(s, i) => c = d + 1
      /\ s[i] # "close" \/ Quoted(s, i) => c = d
  BY <1>1
<1>3. Nesting(s, i) = o - c /\ Nesting(s, i - 1) = p - d
  BY DEF Nesting
<1> HIDE DEF o, p, c, d
<1>4. /\ Nesting(s, i) \in Int /\ Nesting(s, i - 1) \in Int
  BY <1>2, <1>3
<1>5. s[i] = "open" /\ ~ Quoted(s, i) => Nesting(s, i) = Nesting(s, i - 1) + 1
  BY <1>2, <1>3
<1>6. s[i] = "close" /\ ~ Quoted(s, i) => Nesting(s, i) = Nesting(s, i - 1) - 1
  BY <1>2, <1>3
<1>7. s[i] \notin {"open", "close"} \/ Quoted(s, i) => Nesting(s, i) = Nesting(s, i - 1)
  BY <1>2, <1>3
<1> QED BY <1>4, <1>5, <1>6, <1>7

LEMMA AtStart ==
    ASSUME NEW s
    PROVE  ~ Escaped(s, 1) /\ ~ Quoted(s, 1) /\ Quotes(s, 0) = 0 /\ Nesting(s, 0) = 0
<1>1. 1..0 = {} /\ 1 - 1 = 0
  OBVIOUS
<1>2. Quotes(s, 0) = 0
  BY <1>1, FS_EmptySet DEF Quotes
<1>3. Count(s, "open", 0) = 0 /\ Count(s, "close", 0) = 0
  BY <1>1, FS_EmptySet DEF Count
<1>4. Nesting(s, 0) = 0
  BY <1>3 DEF Nesting
<1>5. 0 % 2 # 1
  OBVIOUS
<1>6. ~ Quoted(s, 1)
  BY <1>1, <1>2, <1>5 DEF Quoted
<1>7. ~ Escaped(s, 1)
  BY <1>5 DEF Escaped
<1> QED BY <1>2, <1>4, <1>6, <1>7

-----------------------------------------------------------------------------
(* The scan: the states of the loop *)

\* The states of the loop up to k.
Scans(s, k, g) ==
    g = [i \in 0..k |-> IF i = 0 THEN Start ELSE Scanned(g[i - 1], s[i])]

LEMMA ScansExists ==
    ASSUME NEW s, NEW l \in Nat
    PROVE  \E g : Scans(s, l, g)
<1> DEFINE Missing == {k \in Nat : ~ \E g : Scans(s, k, g)}
<1>1. ASSUME Missing # {} PROVE FALSE
  <2>1. PICK k \in Missing : \A j \in Missing : k <= j
    <3>1. Missing \in SUBSET Nat
      OBVIOUS
    <3> HIDE DEF Missing
    <3> QED BY <1>1, <3>1, LeastExists
  <2>2. CASE k = 0
    <3> DEFINE g == [i \in 0..0 |-> Start]
    <3>1. g = [i \in 0..0 |-> IF i = 0 THEN Start ELSE Scanned(g[i - 1], s[i])]
      OBVIOUS
    <3>2. Scans(s, 0, g)
      BY <3>1 DEF Scans
    <3> QED BY <2>1, <2>2, <3>2
  <2>3. CASE k # 0
    <3>1. k \in Nat \ {0} /\ k - 1 \in Nat /\ ~ (k <= k - 1)
      BY <2>1, <2>3
    <3>2. k - 1 \notin Missing
      <4> HIDE DEF Missing
      <4> QED BY <2>1, <3>1
    <3>3. PICK g : Scans(s, k - 1, g)
      BY <3>1, <3>2
    <3> DEFINE h == [i \in 0..k |-> IF i = 0 THEN Start ELSE Scanned(g[i - 1], s[i])]
               f == [i \in 0..k |-> IF i = 0 THEN Start ELSE Scanned(h[i - 1], s[i])]
    <3>4. ASSUME NEW i \in 0..(k - 1) PROVE h[i] = g[i]
      <4>1. i \in 0..k
        BY <3>1
      <4>2. g[i] = IF i = 0 THEN Start ELSE Scanned(g[i - 1], s[i])
        BY <3>3 DEF Scans
      <4> QED BY <4>1, <4>2
    <3>5. ASSUME NEW i \in 0..k PROVE h[i] = f[i]
      <4>1. h[i] = IF i = 0 THEN Start ELSE Scanned(g[i - 1], s[i])
        OBVIOUS
      <4>2. f[i] = IF i = 0 THEN Start ELSE Scanned(h[i - 1], s[i])
        BY DEF f
      <4>3. i # 0 => i - 1 \in 0..(k - 1)
        BY <3>1
      <4> HIDE DEF h, f
      <4> QED BY <3>4, <4>1, <4>2, <4>3
    <3>6. h = f
      BY <3>5
    <3> HIDE DEF h
    <3>7. Scans(s, k, h)
      BY <3>6 DEF Scans
    <3> QED BY <2>1, <3>7
  <2> QED BY <2>2, <2>3
<1> QED BY <1>1

LEMMA ScanIs ==
    ASSUME NEW s, Len(s) \in Nat
    PROVE  /\ Scan(s)[0] = Start
           /\ \A i \in 1..Len(s) : Scan(s)[i] = Scanned(Scan(s)[i - 1], s[i])
<1> DEFINE g == CHOOSE h : Scans(s, Len(s), h)
<1>1. Scan(s) = g
  BY DEF Scan, Scans
<1>2. Scans(s, Len(s), g)
  BY ScansExists
<1> HIDE DEF g
<1>3. /\ g[0] = Start
      /\ \A i \in 1..Len(s) : g[i] = Scanned(g[i - 1], s[i])
  <2>1. ASSUME NEW i \in 0..Len(s)
        PROVE  g[i] = IF i = 0 THEN Start ELSE Scanned(g[i - 1], s[i])
    BY <1>2 DEF Scans
  <2>2. 0 \in 0..Len(s) /\ \A i \in 1..Len(s) : i \in 0..Len(s) /\ i # 0
    OBVIOUS
  <2> QED BY <2>1, <2>2
<1> QED BY <1>1, <1>3

\* A turn of the loop, when a backslash is only followed in a string.
States == [ok : BOOLEAN, inString : BOOLEAN, skip : BOOLEAN, depth : Int]

LEMMA ScannedIs ==
    ASSUME NEW r \in States, NEW ch \in Letters, r.skip => r.inString,
           ch = "backslash" => r.inString,
           r.skip => ch \in {"quote", "backslash", "u0000", "other"}
    PROVE  /\ Scanned(r, ch) \in States
           /\ Scanned(r, ch).skip <=> ch = "backslash" /\ ~ r.skip
           /\ Scanned(r, ch).inString <=>
                IF ch = "quote" /\ ~ r.skip THEN ~ r.inString ELSE r.inString
           /\ Scanned(r, ch).depth =
                IF ch = "open" /\ ~ r.inString THEN r.depth + 1
                ELSE IF ch = "close" /\ ~ r.inString THEN r.depth - 1 ELSE r.depth
           /\ Scanned(r, ch).ok <=>
                /\ r.ok /\ ch \notin {"nul", "control"} /\ ~ (r.skip /\ ch = "u0000")
                /\ ~ (r.inString /\ ch = "tab")
                /\ ch = "open" /\ ~ r.inString => r.depth < MAX_JSON_NESTING_DEPTH
                /\ ch = "close" /\ ~ r.inString => r.depth > 0
<1>0. MAX_JSON_NESTING_DEPTH \in Nat
  BY NestingAssumption
<1>1. CASE r.skip
  <2>1. Scanned(r, ch) = [r EXCEPT !.skip = FALSE, !.ok = @ /\ ch # "u0000"]
    BY <1>1 DEF Scanned
  <2> QED BY <1>1, <2>1 DEF States
<1>2. CASE ~ r.skip /\ ch = "nul"
  <2>1. Scanned(r, ch) = [r EXCEPT !.ok = FALSE]
    BY <1>2 DEF Scanned
  <2> QED BY <1>2, <2>1 DEF States
<1>3. CASE ~ r.skip /\ r.inString /\ ch # "nul"
  <2>1. Scanned(r, ch) = [r EXCEPT !.inString = ch # "quote", !.skip = ch = "backslash",
                                   !.ok = @ /\ ch \notin {"tab", "control"}]
    BY <1>3 DEF Scanned
  <2> QED BY <1>3, <2>1 DEF States
<1>4. CASE ~ r.skip /\ ~ r.inString /\ ch = "quote"
  <2>1. Scanned(r, ch) = [r EXCEPT !.inString = TRUE]
    BY <1>4 DEF Scanned
  <2> QED BY <1>4, <2>1 DEF States
<1>5. CASE ~ r.skip /\ ~ r.inString /\ ch = "open"
  <2>1. Scanned(r, ch) =
          [r EXCEPT !.depth = @ + 1, !.ok = @ /\ r.depth < MAX_JSON_NESTING_DEPTH]
    BY <1>5 DEF Scanned
  <2> DEFINE q == Scanned(r, ch)
             fits == r.depth < MAX_JSON_NESTING_DEPTH
             next == r.depth + 1
  <2>2. fits \in BOOLEAN /\ next \in Int
    BY <1>0 DEF States
  <2> HIDE DEF fits, next
  <2>3. q = [r EXCEPT !.depth = next, !.ok = @ /\ fits]
    BY <2>1 DEF fits, next
  <2> HIDE DEF q
  <2>4. /\ q \in States /\ (q.ok <=> r.ok /\ fits) /\ q.depth = next
        /\ (q.skip <=> r.skip) /\ (q.inString <=> r.inString)
    BY <2>2, <2>3 DEF States
  <2> QED BY <1>5, <2>4 DEF q, fits, next
<1>6. CASE ~ r.skip /\ ~ r.inString /\ ch = "close"
  <2>1. Scanned(r, ch) = [r EXCEPT !.depth = @ - 1, !.ok = @ /\ r.depth > 0]
    BY <1>6 DEF Scanned
  <2> DEFINE q == Scanned(r, ch)
             fits == r.depth > 0
             next == r.depth - 1
  <2>2. fits \in BOOLEAN /\ next \in Int
    BY DEF States
  <2> HIDE DEF fits, next
  <2>3. q = [r EXCEPT !.depth = next, !.ok = @ /\ fits]
    BY <2>1 DEF fits, next
  <2> HIDE DEF q
  <2>4. /\ q \in States /\ (q.ok <=> r.ok /\ fits) /\ q.depth = next
        /\ (q.skip <=> r.skip) /\ (q.inString <=> r.inString)
    BY <2>2, <2>3 DEF States
  <2> QED BY <1>6, <2>4 DEF q, fits, next
<1>7. CASE ~ r.skip /\ ~ r.inString /\ ch \notin {"nul", "quote", "open", "close"}
  <2>1. Scanned(r, ch) = [r EXCEPT !.ok = @ /\ ch # "control"]
    BY <1>7 DEF Scanned
  <2> QED BY <1>7, <2>1 DEF States
<1> QED BY <1>1, <1>2, <1>3, <1>4, <1>5, <1>6, <1>7

-----------------------------------------------------------------------------
(* What the loop has computed after i turns *)

Fine(s, j) ==
    /\ s[j] \notin {"nul", "control"}
    /\ ~ (s[j] = "u0000" /\ Escaped(s, j))
    /\ ~ (s[j] = "tab" /\ Quoted(s, j))
    /\ Nesting(s, j) \in 0..MAX_JSON_NESTING_DEPTH

Counted(s, i) ==
    LET r == Scan(s)[i]
    IN  /\ r \in States
        /\ r.skip <=> Escaped(s, i + 1)
        /\ r.inString <=> Quoted(s, i + 1)
        /\ r.depth = Nesting(s, i)
        /\ r.ok <=> \A j \in 1..i : Fine(s, j)

LEMMA EscapedQuoted ==
    ASSUME NEW s \in Seq(Letters), Readable(s), NEW i \in 1..Len(s)
    PROVE  Escaped(s, i + 1) => Quoted(s, i + 1)
<1>1. i \in Nat \ {0} /\ i \in DOMAIN s
  OBVIOUS
<1>2. s[i] = "backslash" => Quoted(s, i)
  BY <1>1 DEF Readable
<1>3. Escaped(s, i + 1) => s[i] = "backslash"
  BY <1>1, EscapedNext
<1>4. s[i] = "backslash" => (Quoted(s, i + 1) <=> Quoted(s, i))
  BY <1>1, QuotesNext
<1> QED BY <1>2, <1>3, <1>4

LEMMA CountedNextTurn ==
    ASSUME NEW s \in Seq(Letters), Readable(s), NEW i \in 1..Len(s), Counted(s, i - 1)
    PROVE  Counted(s, i)
<1> DEFINE r == Scan(s)[i - 1]  q == Scan(s)[i]  ch == s[i]
<1>1. i \in Nat \ {0} /\ (i - 1) + 1 = i /\ i \in DOMAIN s /\ Len(s) \in Nat
  OBVIOUS
<1>2. q = Scanned(r, ch)
  BY <1>1, ScanIs
<1>3. /\ r \in States
      /\ r.skip <=> Escaped(s, i)
      /\ r.inString <=> Quoted(s, i)
      /\ r.depth = Nesting(s, i - 1)
      /\ r.ok <=> \A j \in 1..(i - 1) : Fine(s, j)
  BY <1>1 DEF Counted
<1>4. /\ ch \in Letters
      /\ ch = "backslash" => Quoted(s, i)
      /\ Escaped(s, i) => ch \in {"quote", "backslash", "u0000", "other"}
  BY <1>1 DEF Readable
<1>5. Escaped(s, i) => Quoted(s, i)
  <2>1. CASE i = 1
    BY <2>1, AtStart
  <2>2. CASE i # 1
    <3>1. i - 1 \in 1..Len(s)
      BY <1>1, <2>2
    <3>2. Escaped(s, (i - 1) + 1) => Quoted(s, (i - 1) + 1)
      BY <3>1, EscapedQuoted
    <3> QED BY <1>1, <3>2
  <2> QED BY <2>1, <2>2
<1> HIDE DEF r, q, ch
<1>6. /\ q \in States
      /\ q.skip <=> ch = "backslash" /\ ~ r.skip
      /\ q.inString <=> IF ch = "quote" /\ ~ r.skip THEN ~ r.inString ELSE r.inString
      /\ q.depth = IF ch = "open" /\ ~ r.inString THEN r.depth + 1
                   ELSE IF ch = "close" /\ ~ r.inString THEN r.depth - 1 ELSE r.depth
      /\ q.ok <=> /\ r.ok /\ ch \notin {"nul", "control"} /\ ~ (r.skip /\ ch = "u0000")
                  /\ ~ (r.inString /\ ch = "tab")
                  /\ ch = "open" /\ ~ r.inString => r.depth < MAX_JSON_NESTING_DEPTH
                  /\ ch = "close" /\ ~ r.inString => r.depth > 0
  BY <1>2, <1>3, <1>4, <1>5, ScannedIs
<1>7. q.skip <=> Escaped(s, i + 1)
  <2>1. Escaped(s, i + 1) <=> ch = "backslash" /\ ~ Escaped(s, i)
    BY <1>1, EscapedNext DEF ch
  <2> QED BY <1>3, <1>6, <2>1
<1>8. q.inString <=> Quoted(s, i + 1)
  <2>1. Quoted(s, i + 1) <=>
          IF ch = "quote" /\ ~ Escaped(s, i) THEN ~ Quoted(s, i) ELSE Quoted(s, i)
    BY <1>1, QuotesNext DEF ch
  <2> QED BY <1>3, <1>6, <2>1
<1>9. q.depth = Nesting(s, i)
  <2>1. /\ ch = "open" /\ ~ Quoted(s, i) => Nesting(s, i) = Nesting(s, i - 1) + 1
        /\ ch = "close" /\ ~ Quoted(s, i) => Nesting(s, i) = Nesting(s, i - 1) - 1
        /\ ch \notin {"open", "close"} \/ Quoted(s, i) => Nesting(s, i) = Nesting(s, i - 1)
    BY <1>1, NestingNext DEF ch
  <2>2. CASE ch = "open" /\ ~ Quoted(s, i)
    BY <1>3, <1>6, <2>1, <2>2
  <2>3. CASE ch = "close" /\ ~ Quoted(s, i)
    BY <1>3, <1>6, <2>1, <2>3
  <2>4. CASE ch \notin {"open", "close"} \/ Quoted(s, i)
    BY <1>3, <1>6, <2>1, <2>4
  <2> QED BY <2>2, <2>3, <2>4
<1>10. (\A j \in 1..i : Fine(s, j)) <=> (\A j \in 1..(i - 1) : Fine(s, j)) /\ Fine(s, i)
  <2>1. \A j : j \in 1..i <=> j \in 1..(i - 1) \/ j = i
    BY <1>1
  <2> QED BY <2>1
<1>11. ASSUME \A j \in 1..(i - 1) : Fine(s, j)
       PROVE  r.depth \in 0..MAX_JSON_NESTING_DEPTH
  <2>1. CASE i = 1
    <3>1. i - 1 = 0 /\ 0 \in 0..MAX_JSON_NESTING_DEPTH
      BY <2>1, NestingAssumption
    <3> QED BY <1>3, <3>1, AtStart
  <2>2. CASE i # 1
    <3>1. i - 1 \in 1..(i - 1)
      BY <1>1, <2>2
    <3> QED BY <1>3, <1>11, <3>1 DEF Fine
  <2> QED BY <2>1, <2>2
<1>12. ASSUME r.depth \in 0..MAX_JSON_NESTING_DEPTH
       PROVE  Nesting(s, i) \in 0..MAX_JSON_NESTING_DEPTH <=>
                /\ ch = "open" /\ ~ r.inString => r.depth < MAX_JSON_NESTING_DEPTH
                /\ ch = "close" /\ ~ r.inString => r.depth > 0
  <2> DEFINE d == r.depth  M == MAX_JSON_NESTING_DEPTH  e == q.depth
  <2>1. /\ e = IF ch = "open" /\ ~ r.inString THEN d + 1
               ELSE IF ch = "close" /\ ~ r.inString THEN d - 1 ELSE d
        /\ d \in 0..M /\ M \in Nat
    BY <1>6, <1>12, NestingAssumption
  <2> HIDE DEF d, M, e
  <2>2. "open" # "close"
    OBVIOUS
  <2>3. CASE ch = "open" /\ ~ r.inString
    <3>1. e = d + 1
      BY <2>1, <2>3
    <3>2. e \in 0..M <=> d < M
      BY <2>1, <3>1
    <3> QED BY <1>9, <2>2, <2>3, <3>2 DEF d, M, e
  <2>4. CASE ch = "close" /\ ~ r.inString
    <3>1. e = d - 1
      BY <2>1, <2>2, <2>4
    <3>2. e \in 0..M <=> d > 0
      BY <2>1, <3>1
    <3> QED BY <1>9, <2>2, <2>4, <3>2 DEF d, M, e
  <2>5. CASE ~ (ch = "open" /\ ~ r.inString) /\ ~ (ch = "close" /\ ~ r.inString)
    <3>1. e \in 0..M
      BY <2>1, <2>5
    <3> QED BY <1>9, <2>5, <3>1 DEF d, M, e
  <2> QED BY <2>3, <2>4, <2>5
<1>13. q.ok <=> \A j \in 1..i : Fine(s, j)
  <2>1. CASE \A j \in 1..(i - 1) : Fine(s, j)
    <3>1. r.ok /\ r.depth \in 0..MAX_JSON_NESTING_DEPTH
      BY <1>3, <1>11, <2>1
    <3>2. Fine(s, i) <=>
            /\ ch \notin {"nul", "control"} /\ ~ (r.skip /\ ch = "u0000")
            /\ ~ (r.inString /\ ch = "tab")
            /\ Nesting(s, i) \in 0..MAX_JSON_NESTING_DEPTH
      BY <1>3 DEF Fine, ch
    <3> QED BY <1>6, <1>10, <1>12, <2>1, <3>1, <3>2
  <2>2. CASE ~ \A j \in 1..(i - 1) : Fine(s, j)
    BY <1>3, <1>6, <1>10, <2>2
  <2> QED BY <2>1, <2>2
<1> QED BY <1>6, <1>7, <1>8, <1>9, <1>13 DEF Counted, q

LEMMA AllCounted ==
    ASSUME NEW s \in Seq(Letters), Readable(s), NEW i \in 0..Len(s)
    PROVE  Counted(s, i)
<1>1. Len(s) \in Nat
  OBVIOUS
<1>2. Counted(s, 0)
  <2>1. Scan(s)[0] = Start
    BY <1>1, ScanIs
  <2>2. 1..0 = {} /\ 0 + 1 = 1
    OBVIOUS
  <2>3. Start \in States /\ ~ Start.skip /\ ~ Start.inString /\ Start.depth = 0 /\ Start.ok
    BY DEF Start, States
  <2> QED BY <2>1, <2>2, <2>3, AtStart DEF Counted
<1> DEFINE Wrong == {k \in 0..Len(s) : ~ Counted(s, k)}
<1>3. ASSUME Wrong # {} PROVE FALSE
  <2>1. PICK k \in Wrong : \A j \in Wrong : k <= j
    <3>1. Wrong \in SUBSET Nat
      BY <1>1
    <3> HIDE DEF Wrong
    <3> QED BY <1>3, <3>1, LeastExists
  <2>2. k \in 0..Len(s) /\ ~ Counted(s, k)
    OBVIOUS
  <2>3. k \in 1..Len(s) /\ k - 1 \in 0..Len(s) /\ ~ (k <= k - 1)
    BY <1>1, <1>2, <2>2
  <2>4. k - 1 \notin Wrong
    <3> HIDE DEF Wrong
    <3> QED BY <2>1, <2>3
  <2>5. Counted(s, k - 1)
    BY <2>3, <2>4
  <2> QED BY <2>2, <2>3, <2>5, CountedNextTurn
<1> QED BY <1>3

\* Of the texts the parser could read, the scan lets through exactly those that
\* do no harm, of every length (chat_json_parse_object).
THEOREM ScanExact ==
    \A s \in Seq(Letters) : Readable(s) => (PassesScan(s) <=> Harmless(s))
<1> SUFFICES ASSUME NEW s \in Seq(Letters), Readable(s)
             PROVE  PassesScan(s) <=> Harmless(s)
  OBVIOUS
<1> DEFINE l == Len(s)  r == Scan(s)[l]
<1>1. l \in Nat /\ l \in 0..l /\ DOMAIN s = 1..l
  OBVIOUS
<1>2. CASE s = <<>>
  BY <1>2 DEF PassesScan, Harmless
<1>3. CASE s # <<>>
  <2>1. l \in Nat \ {0} /\ l \in 1..l
    BY <1>3
  <2>2. /\ r.skip <=> Escaped(s, l + 1)
        /\ r.inString <=> Quoted(s, l + 1)
        /\ r.depth = Nesting(s, l)
        /\ r.ok <=> \A j \in 1..l : Fine(s, j)
    BY <1>1, AllCounted DEF Counted
  <2>3. Escaped(s, l + 1) => Quoted(s, l + 1)
    BY <2>1, EscapedQuoted
  <2>4. (Quoted(s, l + 1) <=> Quotes(s, l) % 2 = 1) /\ Quotes(s, l) \in Nat
    BY <2>1, QuotesNext
  <2>5. Quotes(s, l) % 2 = 0 <=> ~ Quoted(s, l + 1)
    BY <2>4, Parity
  <2>6. PassesScan(s) <=> r.ok /\ ~ r.skip /\ ~ r.inString /\ r.depth = 0
    BY <1>3 DEF PassesScan
  <2>7. Harmless(s) <=>
          (\A j \in 1..l : Fine(s, j)) /\ Nesting(s, l) = 0 /\ Quotes(s, l) % 2 = 0
    BY <1>1, <1>3 DEF Harmless, Fine
  <2> HIDE DEF l, r
  <2> QED BY <2>2, <2>3, <2>5, <2>6, <2>7
<1> QED BY <1>2, <1>3

-----------------------------------------------------------------------------
(* The helpers together *)

\* Whatever texts are checked, the clocks run as TimeSync says: the theorems
\* above hold of Utils.
THEOREM UtilsTime == Spec => TimeSpec
<1>1. Init => TimeInit
  BY DEF Init
<1>2. [Next]_<<vars, text>> => [TimeNext]_vars
  BY DEF Next, WriteByte, WriteLetter, Clocks
<1> QED BY <1>1, <1>2, PTL DEF Spec, TimeSpec

TextTypeOK == bytes \in Seq(BYTES) /\ letters \in Seq(Letters)

\* What is written is a sequence of bytes and one of letters.
THEOREM TextTypeOKHolds == Spec => []TextTypeOK
<1>1. Init => TextTypeOK
  BY DEF Init, TextTypeOK
<1>2. TextTypeOK /\ [Next]_<<vars, text>> => TextTypeOK'
  <2> SUFFICES ASSUME TextTypeOK, [Next]_<<vars, text>> PROVE TextTypeOK'
    OBVIOUS
  <2>1. CASE WriteByte
    BY <2>1 DEF WriteByte, TextTypeOK
  <2>2. CASE WriteLetter
    BY <2>2 DEF WriteLetter, TextTypeOK
  <2>3. CASE Clocks
    BY <2>3 DEF Clocks, text, TextTypeOK
  <2>4. CASE UNCHANGED <<vars, text>>
    BY <2>4 DEF text, TextTypeOK
  <2> QED BY <2>1, <2>2, <2>3, <2>4 DEF Next
<1> QED BY <1>1, <1>2, PTL DEF Spec

\* A payload is taken for UTF-8 exactly if it is, and a payload cJSON could read
\* reaches it exactly if it does no harm, whatever bytes and letters it is made
\* of and however long it is (valid_utf8, chat_json_parse_object).
THEOREM TextExactHolds == Spec => []TextExact
<1>1. TextTypeOK => TextExact
  <2> SUFFICES ASSUME TextTypeOK PROVE TextExact
    OBVIOUS
  <2>1. bytes \in Seq(0..255)
    <3> DEFINE Byte == 0..255
    <3>1. BYTES \subseteq Byte
      BY UtilsAssumption
    <3>2. bytes \in Seq(BYTES)
      BY DEF TextTypeOK
    <3> HIDE DEF Byte
    <3>3. Len(bytes) \in Nat /\ bytes = [i \in 1..Len(bytes) |-> bytes[i]]
      BY <3>2
    <3>4. \A i \in 1..Len(bytes) : bytes[i] \in Byte
      BY <3>1, <3>2
    <3>5. bytes \in Seq(Byte)
      BY <3>3, <3>4
    <3> QED BY <3>5 DEF Byte
  <2>2. ValidUtf8(bytes) <=> WellFormed(bytes)
    BY <2>1, Utf8Exact
  <2>3. Readable(letters) => (PassesScan(letters) <=> Harmless(letters))
    BY ScanExact DEF TextTypeOK
  <2> QED BY <2>2, <2>3 DEF TextExact
<1> QED BY <1>1, TextTypeOKHolds, PTL
=============================================================================
