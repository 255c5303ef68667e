-------------------------- MODULE HistorySyncProofs --------------------------
(***************************************************************************)
(* Proofs about HistorySync, for any browsers, audiences, window and cache *)
(* sizes, as long as the flash was not erased (era = 0).                   *)
(***************************************************************************)
EXTENDS HistorySync, FiniteSetTheorems, FunctionTheorems, WellFoundedInduction, TLAPS

\* The server: W the window, P what was published, boot and cur its two ids.
ServerOK(W, P, boot, cur) ==
    /\ cur \in Nat /\ boot \in 1..(cur + 1) /\ IsFiniteSet(P)
    /\ \A m \in P : m.id \in 1..cur
    /\ \A m, n \in P : m.id = n.id => m = n
    /\ W \subseteq P /\ \A m \in W : boot <= m.id
    /\ W = {} => boot = cur + 1
    /\ \A m \in P : RestoreBefore(W, boot) <= m.id => m \in W

\* What may be on its way to a browser when P was published.
Frames(P) ==
    {Text(m) : m \in P} \cup {Info(n) : n \in Nat} \cup {OnlineUsers}
        \cup {Request(b, r, n) : b \in BROWSERS, r \in Nat, n \in Nat}
        \cup {Response(r, m) : r \in Nat, m \in P}

\* What browser b has of P in cache c, when the server replays from bd on.
Proper(b, P, bd, c) ==
    /\ c.regular \subseteq P /\ c.recovered \subseteq P
    /\ \A m \in Stored(c) : b \in m.seen_by
    /\ \A m \in c.recovered : m.id < bd /\ m.id \notin Ids(c.regular)

\* What lies at or below a cursor, or below a message of the cache, was kept.
Behind(m, l, c) == m.id <= l \/ \E x \in c.regular : m.id <= x.id
Safe(b, W, l, c) ==
    \A m \in W : b \in m.seen_by /\ Behind(m, l, c) => Kept(c, m)

\* Message m was kept or is among the first i frames of q.
Ready(m, c, q, i) == Kept(c, m) \/ \E j \in 1..i : q[j] = Text(m)

\* Frames come without a gap: what is older than one of them comes before it.
InOrder(b, W, c, q) ==
    \A i \in 1..Len(q) : q[i].type = "text" =>
        \A m \in W : b \in m.seen_by /\ m.id <= q[i].message.id => Ready(m, c, q, i)
Complete(b, W, c, q) ==
    \A m \in W : b \in m.seen_by => Ready(m, c, q, Len(q))

\* The boundary heard last, or about to be, is the one in force.
Heard(q, h, bd) ==
    \/ h = bd /\ \A i \in 1..Len(q) : q[i].type # "historyInfo"
    \/ \E i \in 1..Len(q) :
          /\ q[i] = Info(bd)
          /\ \A j \in (i + 1)..Len(q) : q[j].type # "historyInfo"

CacheOK(c) == c = [regular |-> c.regular, recovered |-> c.recovered]
DiskOK(d) == d = [regular |-> d.regular, recovered |-> d.recovered, cursor |-> d.cursor]

\* All of that for browser b: joined says whether it has a session, q are the
\* frames on their way, c and d its cache and disk, l and h cursor and boundary.
BrowserOK(b, W, P, bd, cur, joined, q, c, d, l, h) ==
    /\ q \in Seq(Frames(P))
    /\ CacheOK(c) /\ DiskOK(d) /\ Proper(b, P, bd, c) /\ Proper(b, P, bd, d)
    /\ l \in 0..cur /\ d.cursor \in 0..l
    /\ Safe(b, W, l, c) /\ Safe(b, W, l, d)
    /\ InOrder(b, W, c, q)
    /\ \A i \in 1..Len(q) : q[i].type = "historyResponse" => q[i].message.id < bd
    /\ joined => Complete(b, W, c, q) /\ Heard(q, h, bd)

PageOK(b) ==
    BrowserOK(b, window, published, Boundary, current_id, b \in linked,
              inbox[b], cache[b], disk[b], lastSeenId[b], historyInfo[b])

Good ==
    /\ ServerOK(window, published, boot_start_id, current_id)
    /\ linked \subseteq BROWSERS
    /\ DOMAIN inbox = BROWSERS /\ DOMAIN cache = BROWSERS
    /\ DOMAIN lastSeenId = BROWSERS /\ DOMAIN disk = BROWSERS
    /\ historyInfo \in [BROWSERS -> Nat] /\ requests \in [BROWSERS -> Nat]
    /\ \A b \in BROWSERS : PageOK(b)

IInv == era \in Nat /\ (era = 0 => Good)


-----------------------------------------------------------------------------
(* Numbers and sets *)

LEMMA Facts ==
    /\ MAX_MESSAGES \in Nat \ {0} /\ MAX_LOCAL_MESSAGES \in Nat \ {0}
    /\ Half \in 1..MAX_LOCAL_MESSAGES /\ MaxErases \in Nat
    /\ Fragile \subseteq BROWSERS /\ Asking \subseteq BROWSERS
    /\ \A a \in Audiences : a \subseteq BROWSERS
BY HistorySyncAssumption DEF Half

\* The least and the largest number of a set.
LEMMA MinFound ==
    ASSUME NEW S \in SUBSET Nat, S # {}
    PROVE  Min(S) \in S /\ \A y \in S : Min(S) <= y
<1> DEFINE less == OpToRel(<, Nat)
<1>1. PICK x \in S : \A y \in S : ~ (<<y, x>> \in less)
  <2>1. IsWellFoundedOn(less, Nat)
    BY NatLessThanWellFounded
  <2> HIDE DEF less
  <2> QED BY <2>1, WFMin
<1>2. ASSUME NEW y \in S PROVE x =< y
  <2>1. <<y, x>> \in less <=> y < x
    BY DEF OpToRel
  <2> HIDE DEF less
  <2> QED BY <1>1, <2>1
<1> QED BY <1>2 DEF Min

LEMMA MaxFound ==
    ASSUME NEW S \in SUBSET Nat, S # {}, NEW n \in Nat, \A x \in S : x <= n
    PROVE  Max(S) \in S /\ \A y \in S : y <= Max(S)
<1> DEFINE D == {n - x : x \in S}
<1>1. D \in SUBSET Nat /\ D # {}
  <2>1. \A x \in S : n - x \in Nat
    OBVIOUS
  <2>2. PICK x \in S : TRUE
    OBVIOUS
  <2>3. n - x \in D
    OBVIOUS
  <2>4. \A y \in D : y \in Nat
    BY <2>1
  <2> HIDE DEF D
  <2> QED BY <2>3, <2>4
<1>2. PICK x \in S : n - x = Min(D)
  <2> HIDE DEF D
  <2>1. Min(D) \in D
    BY <1>1, MinFound
  <2> QED BY <2>1 DEF D
<1>3. ASSUME NEW y \in S PROVE x >= y
  <2>1. n - y \in D
    OBVIOUS
  <2> HIDE DEF D
  <2>2. n - x <= n - y
    BY <1>1, <1>2, <2>1, MinFound
  <2> QED BY <2>2
<1> QED BY <1>3 DEF Max

\* The messages of S above id k.
Above(S, k) == {x \in S : x.id > k}

LEMMA AboveIs ==
    ASSUME NEW S, IsFiniteSet(S), NEW T \in SUBSET S, NEW k
    PROVE  /\ IsFiniteSet(Above(S, k)) /\ Cardinality(Above(S, k)) \in Nat
           /\ IsFiniteSet(Above(T, k)) /\ Cardinality(Above(T, k)) \in Nat
           /\ Cardinality(Above(T, k)) <= Cardinality(Above(S, k))
<1>1. Above(S, k) \in SUBSET S /\ Above(T, k) \in SUBSET Above(S, k)
  BY DEF Above
<1>2. IsFiniteSet(Above(S, k))
  BY <1>1, FS_Subset
<1>3. IsFiniteSet(Above(T, k))
  BY <1>1, <1>2, FS_Subset
<1> QED BY <1>1, <1>2, <1>3, FS_Subset, FS_CardinalityType

\* A message with h newer ones keeps h newer ones among the newest n.
LEMMA NewestKeeps ==
    ASSUME NEW S, IsFiniteSet(S), \A x \in S : x.id \in Nat, NEW k \in Nat,
           NEW n \in Nat, NEW h \in Nat, h <= n,
           Cardinality(Above(S, k)) >= h
    PROVE  Cardinality(Above(Newest(S, n), k)) >= h
<1> DEFINE N == Newest(S, n)
           T == Above(S, k)
           R == {Cardinality(Above(S, x.id)) : x \in T \ N}
<1>1. N \in SUBSET S /\ \A x \in S : x \in N <=> Cardinality(Above(S, x.id)) < n
  BY DEF Newest, Above
<1>2. T \in SUBSET S /\ \A x \in S : x \in T <=> x.id > k
  BY DEF Above
<1>3. \A j : IsFiniteSet(Above(S, j)) /\ Cardinality(Above(S, j)) \in Nat
  BY AboveIs
<1> HIDE DEF N
<1>4. CASE T \subseteq N
  <2>1. Above(N, k) = T
    BY <1>1, <1>4 DEF Above
  <2> QED BY <2>1 DEF N
<1>5. CASE ~ (T \subseteq N)
  <2>1. R \in SUBSET Nat /\ R # {}
    BY <1>3, <1>5
  <2>2. PICK x \in T \ N : Cardinality(Above(S, x.id)) = Min(R)
    <3> HIDE DEF R
    <3>1. Min(R) \in R
      BY <2>1, MinFound
    <3> QED BY <3>1 DEF R
  <2> DEFINE U == Above(S, x.id)
  <2>3. U \subseteq N
    <3> SUFFICES ASSUME NEW y \in U, y \notin N PROVE FALSE
      OBVIOUS
    <3>1. y \in S /\ y.id > x.id /\ x \in S /\ x.id > k
      BY <1>2, <2>2 DEF Above
    <3>2. y \in T \ N
      BY <1>2, <3>1
    <3>3. Cardinality(Above(S, y.id)) \in R
      BY <3>2
    <3>4. Cardinality(U) <= Cardinality(Above(S, y.id))
      <4> HIDE DEF R
      <4>1. Min(R) <= Cardinality(Above(S, y.id))
        BY <2>1, <3>3, MinFound
      <4> QED BY <2>2, <4>1
    <3>5. Above(S, y.id) \in SUBSET U /\ y \notin Above(S, y.id) /\ y \in U
      BY <3>1 DEF Above
    <3>6. Above(S, y.id) # U
      BY <3>5
    <3> HIDE DEF U
    <3>7. IsFiniteSet(U) /\ Cardinality(U) \in Nat /\ Cardinality(Above(S, y.id)) \in Nat
      BY <1>3 DEF U
    <3>8. /\ Cardinality(Above(S, y.id)) <= Cardinality(U)
          /\ Cardinality(U) = Cardinality(Above(S, y.id)) => U = Above(S, y.id)
      BY <3>5, <3>7, FS_Subset
    <3> QED BY <3>4, <3>6, <3>7, <3>8
  <2>4. U \in SUBSET Above(N, k)
    BY <1>2, <2>2, <2>3 DEF Above
  <2>5. x \in S /\ ~ (Cardinality(U) < n) /\ Cardinality(U) \in Nat
    BY <1>1, <1>2, <1>3, <2>2
  <2>6. IsFiniteSet(Above(N, k)) /\ Cardinality(Above(N, k)) \in Nat
    BY <1>1, AboveIs
  <2> HIDE DEF U
  <2>7. Cardinality(U) <= Cardinality(Above(N, k))
    BY <2>4, <2>6, FS_Subset
  <2> QED BY <2>5, <2>6, <2>7 DEF N
<1> QED BY <1>4, <1>5

\* The newest |S| messages are all.
LEMMA NewestAll ==
    ASSUME NEW S, IsFiniteSet(S), \A x \in S : x.id \in Nat
    PROVE  Newest(S, Cardinality(S)) = S
<1> SUFFICES ASSUME NEW x \in S PROVE Cardinality(Above(S, x.id)) < Cardinality(S)
  BY DEF Newest, Above
<1>1. Above(S, x.id) \in SUBSET S /\ x \notin Above(S, x.id)
  BY DEF Above
<1> QED BY <1>1, FS_Subset, FS_CardinalityType

-----------------------------------------------------------------------------
(* The cache *)

LEMMA MaxOfTwo ==
    ASSUME NEW a \in Int, NEW h \in Int
    PROVE  Max({a, h}) \in {a, h} /\ Max({a, h}) >= h /\ Max({a, h}) >= a
<1>1. CASE a >= h
  <2>1. \A y \in {a, h} : a >= y
    BY <1>1
  <2> QED BY <2>1 DEF Max
<1>2. CASE ~ (a >= h)
  <2>1. \A y \in {a, h} : h >= y
    BY <1>2
  <2> QED BY <2>1 DEF Max
<1> QED BY <1>1, <1>2

LEMMA MinOfTwo ==
    ASSUME NEW a \in Int, NEW h \in Int
    PROVE  Min({a, h}) \in {a, h} /\ Min({a, h}) <= h /\ Min({a, h}) <= a
<1>1. CASE a <= h
  <2>1. \A y \in {a, h} : a <= y
    BY <1>1
  <2> QED BY <2>1 DEF Min
<1>2. CASE ~ (a <= h)
  <2>1. \A y \in {a, h} : h <= y
    BY <1>2
  <2> QED BY <2>1 DEF Min
<1> QED BY <1>1, <1>2

\* The regular part of a capped cache: the newest n, n being all or Half at least.
LEMMA CappedRegular ==
    ASSUME NEW c, CacheOK(c), IsFiniteSet(c.regular), IsFiniteSet(c.recovered)
    PROVE  /\ CacheOK(Capped(c)) /\ Capped(c).recovered \subseteq c.recovered
           /\ \/ Capped(c).regular = c.regular
              \/ \E n \in Nat : /\ n = Cardinality(c.regular) \/ n >= Half
                                /\ Capped(c).regular = Newest(c.regular, n)
<1> DEFINE live == Cardinality(c.regular)
           back == Cardinality(c.recovered)
           free == Max({MAX_LOCAL_MESSAGES - back, Half})
           slots == Min({live, free})
<1>1. live \in Nat /\ back \in Nat
  BY FS_CardinalityType
<1>2. MAX_LOCAL_MESSAGES \in Nat /\ Half \in Nat
  BY Facts
<1>3. Capped(c) = IF live + back <= MAX_LOCAL_MESSAGES THEN c
                  ELSE [regular |-> Newest(c.regular, slots),
                        recovered |-> Newest(c.recovered, MAX_LOCAL_MESSAGES - slots)]
  BY DEF Capped
<1> HIDE DEF live, back
<1>4. free \in Int /\ free >= Half
  <2>1. MAX_LOCAL_MESSAGES - back \in Int
    BY <1>1, <1>2
  <2> QED BY <2>1, <1>2, MaxOfTwo
<1> HIDE DEF free
<1>5. slots = live \/ slots = free
  <2>1. live \in Int /\ free \in Int
    BY <1>1, <1>4
  <2>2. slots \in {live, free}
    BY <2>1, MinOfTwo
  <2> QED BY <2>2
<1> HIDE DEF slots
<1>6. slots \in Nat /\ (slots = live \/ slots >= Half)
  BY <1>1, <1>2, <1>4, <1>5
<1>7. CASE live + back <= MAX_LOCAL_MESSAGES
  BY <1>3, <1>7
<1>8. CASE ~ (live + back <= MAX_LOCAL_MESSAGES)
  <2>1. Capped(c) = [regular |-> Newest(c.regular, slots),
                     recovered |-> Newest(c.recovered, MAX_LOCAL_MESSAGES - slots)]
    BY <1>3, <1>8
  <2>2. Newest(c.recovered, MAX_LOCAL_MESSAGES - slots) \subseteq c.recovered
    BY DEF Newest
  <2>3. Capped(c).regular = Newest(c.regular, slots) /\ CacheOK(Capped(c))
        /\ Capped(c).recovered = Newest(c.recovered, MAX_LOCAL_MESSAGES - slots)
    BY <2>1 DEF CacheOK
  <2> QED BY <2>2, <2>3, <1>6 DEF live
<1> QED BY <1>7, <1>8

\* Capping keeps a sub-cache, and whatever was kept.
LEMMA CappedIs ==
    ASSUME NEW c, CacheOK(c), IsFiniteSet(c.regular), IsFiniteSet(c.recovered),
           \A x \in c.regular : x.id \in Nat
    PROVE  /\ CacheOK(Capped(c))
           /\ Capped(c).regular \subseteq c.regular
           /\ Capped(c).recovered \subseteq c.recovered
           /\ \A m : (m.id \in Nat /\ Kept(c, m)) => Kept(Capped(c), m)
<1> DEFINE k == Capped(c)
<1>1. CacheOK(k) /\ k.recovered \subseteq c.recovered
  BY CappedRegular
<1>2. CASE k.regular = c.regular
  BY <1>1, <1>2 DEF Kept
<1>3. ASSUME NEW n \in Nat, k.regular = Newest(c.regular, n),
             n = Cardinality(c.regular) \/ n >= Half
      PROVE  k.regular \subseteq c.regular /\ \A m : (m.id \in Nat /\ Kept(c, m)) => Kept(k, m)
  <2> HIDE DEF k
  <2>1. k.regular \subseteq c.regular
    BY <1>3 DEF Newest
  <2>2. CASE n = Cardinality(c.regular)
    <3>1. k.regular = c.regular
      BY <1>3, <2>2, NewestAll
    <3> QED BY <3>1 DEF Kept
  <2>3. CASE n >= Half
    <3> SUFFICES ASSUME NEW m, m.id \in Nat, Kept(c, m), m \notin k.regular PROVE Kept(k, m)
      BY <2>1 DEF Kept
    <3>1. Half \in Nat /\ Half <= n
      BY <2>3, Facts
    <3>2. Cardinality(Above(c.regular, m.id)) \in Nat
      BY AboveIs
    <3>3. Cardinality(Above(c.regular, m.id)) >= Half
      <4>1. CASE m \in c.regular
        <5>1. ~ (Cardinality(Above(c.regular, m.id)) < n)
          BY <1>3, <4>1 DEF Newest, Above
        <5> QED BY <5>1, <3>1, <3>2
      <4>2. CASE m \notin c.regular
        BY <4>2 DEF Kept, Above
      <4> QED BY <4>1, <4>2
    <3>4. Cardinality(Above(Newest(c.regular, n), m.id)) >= Half
      BY <3>1, <3>3, NewestKeeps
    <3> QED BY <3>4, <1>3 DEF Kept, Above
  <2>4. n = Cardinality(c.regular) \/ n >= Half
    BY <1>3
  <2> QED BY ONLY <2>2, <2>3, <2>4
<1> QED BY <1>1, <1>2, <1>3, CappedRegular

\* More live messages: what was kept stays kept.
LEMMA KeptGrows ==
    ASSUME NEW c, NEW e, IsFiniteSet(e.regular), c.regular \subseteq e.regular,
           NEW m, Kept(c, m)
    PROVE  Kept(e, m)
<1>1. /\ Cardinality(Above(c.regular, m.id)) <= Cardinality(Above(e.regular, m.id))
      /\ Cardinality(Above(c.regular, m.id)) \in Nat
      /\ Cardinality(Above(e.regular, m.id)) \in Nat
  BY AboveIs
<1>2. CASE m \in c.regular
  BY <1>2 DEF Kept
<1>3. CASE Cardinality(Above(c.regular, m.id)) >= Half
  <2>1. Cardinality(Above(e.regular, m.id)) >= Half
    BY <1>1, <1>3, Facts
  <2> QED BY <2>1 DEF Kept, Above
<1> QED BY <1>2, <1>3 DEF Kept, Above

-----------------------------------------------------------------------------
(* The server *)

\* The boundary tells what the server can replay.
LEMMA BoundaryIs ==
    ASSUME NEW W, NEW P, NEW boot, NEW cur, ServerOK(W, P, boot, cur)
    PROVE  /\ RestoreBefore(W, boot) \in 1..(cur + 1)
           /\ \A m \in P : m \in W <=> RestoreBefore(W, boot) <= m.id
<1> USE DEF ServerOK
<1>1. CASE W = {}
  BY <1>1 DEF RestoreBefore
<1>2. CASE W # {}
  <2>1. Ids(W) \in SUBSET Nat /\ Ids(W) # {} /\ \A m \in W : m.id \in Ids(W) /\ m.id \in 1..cur
    BY <1>2 DEF Ids
  <2>2. Min(Ids(W)) \in Ids(W) /\ \A y \in Ids(W) : Min(Ids(W)) <= y
    BY <2>1, MinFound
  <2>3. RestoreBefore(W, boot) = Min(Ids(W))
    BY <1>2 DEF RestoreBefore
  <2>4. RestoreBefore(W, boot) \in 1..cur
    BY <2>1, <2>2, <2>3 DEF Ids
  <2>5. \A m \in W : RestoreBefore(W, boot) <= m.id
    BY <2>1, <2>2, <2>3
  <2> QED BY <2>4, <2>5
<1> QED BY <1>1, <1>2

\* A message more keeps the server in order and raises the boundary.
LEMMA ServerStores ==
    ASSUME NEW W, NEW P, NEW boot, NEW cur, ServerOK(W, P, boot, cur),
           NEW m, m.id = cur + 1,
           NEW V, V = {n \in W \cup {m} : n.id > m.id - MAX_MESSAGES}
    PROVE  /\ ServerOK(V, P \cup {m}, boot, cur + 1) /\ m \in V
           /\ RestoreBefore(W, boot) <= RestoreBefore(V, boot)
<1>1. /\ cur \in Nat /\ boot \in 1..(cur + 1) /\ IsFiniteSet(P)
      /\ \A n \in P : n.id \in 1..cur
      /\ W \subseteq P /\ \A n \in W : boot <= n.id
  BY DEF ServerOK
<1>2. MAX_MESSAGES \in Nat \ {0}
  BY Facts
<1>3. m \in V /\ V \subseteq W \cup {m}
  BY <1>1, <1>2
<1>4. \A n \in V : n.id \in 1..(cur + 1) /\ boot <= n.id /\ RestoreBefore(W, boot) <= n.id
  <2>1. RestoreBefore(W, boot) \in 1..(cur + 1) /\ \A n \in W : RestoreBefore(W, boot) <= n.id
    BY <1>1, BoundaryIs
  <2>2. \A n \in W : n.id \in 1..cur
    BY <1>1
  <2> QED BY <1>1, <1>3, <2>1, <2>2
<1>5. PICK x \in V : x.id = RestoreBefore(V, boot)
  <2>1. Ids(V) \in SUBSET Nat /\ Ids(V) # {}
    BY <1>3, <1>4 DEF Ids
  <2>2. Min(Ids(V)) \in Ids(V)
    BY <2>1, MinFound
  <2> QED BY <1>3, <2>2 DEF RestoreBefore, Ids
<1>6. ASSUME NEW n \in P \cup {m}, RestoreBefore(V, boot) <= n.id PROVE n \in V
  <2>1. CASE n = m
    BY <1>3, <2>1
  <2>2. CASE n \in P
    <3>1. RestoreBefore(W, boot) <= x.id /\ x.id <= n.id /\ n.id \in 1..cur
      BY <1>1, <1>4, <1>5, <1>6, <2>2
    <3>2. RestoreBefore(W, boot) \in Nat /\ x.id \in Nat
      BY <1>4, BoundaryIs
    <3>3. RestoreBefore(W, boot) <= n.id
      BY <3>1, <3>2
    <3>4. n \in W
      BY <2>2, <3>3, BoundaryIs
    <3>5. x.id > m.id - MAX_MESSAGES
      OBVIOUS
    <3>6. n.id > m.id - MAX_MESSAGES
      BY <1>1, <1>2, <3>1, <3>2, <3>5
    <3> QED BY <3>4, <3>6
  <2> QED BY <2>1, <2>2
<1>7. IsFiniteSet(P \cup {m})
  BY <1>1, FS_AddElement
<1>8. \A n, o \in P \cup {m} : n.id = o.id => n = o
  <2>1. \A n, o \in P : n.id = o.id => n = o
    BY DEF ServerOK
  <2>2. \A n \in P : n.id # m.id
    BY <1>1
  <2> QED BY <2>1, <2>2
<1>9. \A n \in P \cup {m} : n.id \in 1..(cur + 1)
  BY <1>1
<1>10. V \subseteq P \cup {m} /\ V # {}
  BY <1>1, <1>3
<1>11. ServerOK(V, P \cup {m}, boot, cur + 1)
  <2>1. cur + 1 \in Nat /\ boot \in 1..((cur + 1) + 1)
    BY <1>1
  <2> HIDE DEF Min
  <2> QED BY <2>1, <1>4, <1>6, <1>7, <1>8, <1>9, <1>10 DEF ServerOK
<1> QED BY <1>3, <1>4, <1>5, <1>11

-----------------------------------------------------------------------------
(* The replay *)

\* A finite set with unique ids can be put in order of id.
LEMMA OrderExists ==
    ASSUME NEW S, IsFiniteSet(S), \A x \in S : x.id \in Nat,
           \A x, y \in S : x.id = y.id => x = y
    PROVE  \E s \in [1..Cardinality(S) -> S] :
              \A i, j \in 1..Cardinality(S) : i < j => s[i].id < s[j].id
<1> DEFINE n == Cardinality(S)
           Below(m) == {x \in S : x.id < m.id}
           rank == [m \in S |-> Cardinality(Below(m)) + 1]
<1>1. n \in Nat
  BY FS_CardinalityType
<1>2. ASSUME NEW m \in S
      PROVE  IsFiniteSet(Below(m)) /\ Cardinality(Below(m)) \in Nat /\ Cardinality(Below(m)) < n
  <2>1. Below(m) \in SUBSET S /\ m \notin Below(m)
    OBVIOUS
  <2>2. Below(m) # S
    BY <2>1
  <2> HIDE DEF Below
  <2> QED BY <2>1, <2>2, <1>1, FS_Subset, FS_CardinalityType
<1>3. rank \in [S -> 1..n]
  <2> HIDE DEF Below
  <2>1. \A m \in S : Cardinality(Below(m)) + 1 \in 1..n
    BY <1>1, <1>2
  <2> QED BY <2>1
<1>4. ASSUME NEW x \in S, NEW y \in S, x.id < y.id PROVE rank[x] < rank[y]
  <2>1. Below(x) \in SUBSET Below(y) /\ x \in Below(y) /\ x \notin Below(x)
    BY <1>4
  <2>2. Below(x) # Below(y)
    BY <2>1
  <2>3. rank[x] = Cardinality(Below(x)) + 1 /\ rank[y] = Cardinality(Below(y)) + 1
    OBVIOUS
  <2> HIDE DEF Below
  <2>4. Cardinality(Below(x)) < Cardinality(Below(y))
    BY <1>2, <2>1, <2>2, FS_Subset
  <2> HIDE DEF rank
  <2> QED BY <1>2, <2>3, <2>4
<1> HIDE DEF rank
<1>5. \A x, y \in S : rank[x] = rank[y] => x = y
  <2> SUFFICES ASSUME NEW x \in S, NEW y \in S, rank[x] = rank[y], x # y PROVE FALSE
    OBVIOUS
  <2>1. x.id < y.id \/ y.id < x.id
    OBVIOUS
  <2>2. rank[x] \in Nat /\ rank[y] \in Nat
    BY <1>1, <1>3
  <2> QED BY <1>4, <2>1, <2>2
<1>6. ASSUME NEW i \in 1..n PROVE \E m \in S : rank[m] = i
  <2>1. rank \in Injection(S, 1..n)
    BY <1>3, <1>5, Fun_IsInj
  <2>2. IsFiniteSet(1..n) /\ Cardinality(1..n) = n
    BY <1>1, FS_Interval
  <2>3. rank \in Surjection(S, 1..n)
    BY <2>1, <2>2, FS_Injection DEF n
  <2> QED BY <2>3 DEF Surjection
<1> DEFINE s == [i \in 1..n |-> CHOOSE m \in S : rank[m] = i]
<1>7. \A i \in 1..n : s[i] \in S /\ rank[s[i]] = i
  BY <1>6
<1>8. s \in [1..n -> S]
  BY <1>7
<1> HIDE DEF s
<1>9. ASSUME NEW i \in 1..n, NEW j \in 1..n, i < j PROVE s[i].id < s[j].id
  <2>1. s[i] \in S /\ s[j] \in S /\ rank[s[i]] = i /\ rank[s[j]] = j
    BY <1>7
  <2>2. s[i].id \in Nat /\ s[j].id \in Nat
    BY <2>1
  <2>3. CASE s[i].id = s[j].id
    <3>1. s[i] = s[j]
      BY <2>1, <2>3
    <3> QED BY <1>9, <2>1, <3>1
  <2>4. CASE s[j].id < s[i].id
    <3>1. rank[s[j]] < rank[s[i]]
      BY <1>4, <2>1, <2>4
    <3> QED BY <1>9, <2>1, <3>1
  <2> QED BY <2>2, <2>3, <2>4
<1> QED BY <1>8, <1>9

\* ById puts exactly the messages of S in a sequence, in order of id.
LEMMA ByIdIs ==
    ASSUME NEW S, IsFiniteSet(S), \A x \in S : x.id \in Nat,
           \A x, y \in S : x.id = y.id => x = y
    PROVE  /\ ById(S) \in Seq(S)
           /\ \A i, j \in 1..Len(ById(S)) : i < j => ById(S)[i].id < ById(S)[j].id
           /\ \A m \in S : \E i \in 1..Len(ById(S)) : ById(S)[i] = m
<1> DEFINE n == Cardinality(S)
           s == ById(S)
<1>1. n \in Nat
  BY FS_CardinalityType
<1>2. s \in [1..n -> S] /\ \A i, j \in 1..n : i < j => s[i].id < s[j].id
  BY OrderExists DEF ById
<1> HIDE DEF s
<1>3. \A i, j \in 1..n : s[i] = s[j] => i = j
  <2> SUFFICES ASSUME NEW i \in 1..n, NEW j \in 1..n, s[i] = s[j], i # j PROVE FALSE
    OBVIOUS
  <2>1. i < j \/ j < i
    OBVIOUS
  <2>2. s[i].id < s[j].id \/ s[j].id < s[i].id
    BY <1>2, <2>1
  <2>3. s[i].id \in Nat
    BY <1>2
  <2> QED BY <2>2, <2>3
<1>4. \A m \in S : \E i \in 1..n : s[i] = m
  <2>1. s \in Injection(1..n, S)
    BY <1>2, <1>3, Fun_IsInj
  <2>2. IsFiniteSet(1..n) /\ Cardinality(1..n) = n
    BY <1>1, FS_Interval
  <2>3. s \in Surjection(1..n, S)
    BY <2>1, <2>2, FS_Injection DEF n
  <2> QED BY <2>3 DEF Surjection
<1>5. s \in Seq(S) /\ Len(s) = n
  BY <1>1, <1>2
<1> QED BY <1>2, <1>4, <1>5 DEF s

-----------------------------------------------------------------------------
(* Frames *)

\* The type of a frame tells what it carries.
LEMMA FrameIs ==
    ASSUME NEW P, NEW f \in Frames(P)
    PROVE  /\ f.type = "text" => f = Text(f.message) /\ f.message \in P
           /\ f.type = "historyInfo" =>
                 f = Info(f.restore_before_id) /\ f.restore_before_id \in Nat
           /\ f.type = "historyResponse" =>
                 f = Response(f.request, f.message) /\ f.request \in Nat /\ f.message \in P
           /\ f.type = "historyRequest" =>
                 /\ f = Request(f.from, f.request, f.restore_before_id)
                 /\ f.from \in BROWSERS /\ f.request \in Nat /\ f.restore_before_id \in Nat
BY DEF Frames, Text, Info, OnlineUsers, Request, Response

\* When the first frame is read, its message being kept if it is one, ...
LEMMA ReadyDrops ==
    ASSUME NEW P, NEW q \in Seq(Frames(P)), q # <<>>, NEW m, NEW c, NEW e,
           Kept(c, m) => Kept(e, m), q[1] = Text(m) => Kept(e, m),
           NEW i \in 1..Len(q), Ready(m, c, q, i)
    PROVE  Ready(m, e, Tail(q), i - 1)
<1>1. CASE Kept(c, m)
  BY <1>1 DEF Ready
<1>2. ASSUME NEW j \in 1..i, q[j] = Text(m) PROVE Ready(m, e, Tail(q), i - 1)
  <2>1. CASE j = 1
    BY <1>2, <2>1 DEF Ready
  <2>2. CASE j # 1
    <3>1. j - 1 \in 1..(i - 1) /\ j - 1 \in 1..(Len(q) - 1) /\ (j - 1) + 1 = j
      BY <2>2
    <3>2. Tail(q)[j - 1] = q[j]
      BY <3>1
    <3> QED BY <1>2, <3>1, <3>2 DEF Ready
  <2> QED BY <2>1, <2>2
<1> QED BY <1>1, <1>2 DEF Ready

LEMMA OrderDrops ==
    ASSUME NEW P, NEW q \in Seq(Frames(P)), q # <<>>, NEW b, NEW W, NEW c, NEW e,
           \A m \in W : Kept(c, m) => Kept(e, m),
           \A m \in W : b \in m.seen_by /\ q[1] = Text(m) => Kept(e, m)
    PROVE  /\ InOrder(b, W, c, q) => InOrder(b, W, e, Tail(q))
           /\ Complete(b, W, c, q) => Complete(b, W, e, Tail(q))
<1>1. Len(q) \in Nat \ {0} /\ Len(Tail(q)) = Len(q) - 1
  OBVIOUS
<1>2. ASSUME InOrder(b, W, c, q), NEW i \in 1..Len(Tail(q)), Tail(q)[i].type = "text",
             NEW m \in W, b \in m.seen_by, m.id <= Tail(q)[i].message.id
      PROVE  Ready(m, e, Tail(q), i)
  <2>1. i + 1 \in 1..Len(q) /\ (i + 1) - 1 = i /\ Tail(q)[i] = q[i + 1]
    BY <1>1
  <2>2. Ready(m, c, q, i + 1)
    BY <1>2, <2>1 DEF InOrder
  <2>3. Ready(m, e, Tail(q), (i + 1) - 1)
    BY <1>2, <2>1, <2>2, ReadyDrops
  <2> QED BY <2>1, <2>3
<1>3. ASSUME Complete(b, W, c, q), NEW m \in W, b \in m.seen_by
      PROVE  Ready(m, e, Tail(q), Len(Tail(q)))
  <2>1. Ready(m, c, q, Len(q)) /\ Len(q) \in 1..Len(q)
    BY <1>1, <1>3 DEF Complete
  <2>2. Ready(m, e, Tail(q), Len(q) - 1)
    BY <1>3, <2>1, ReadyDrops
  <2> QED BY <1>1, <2>2
<1> QED BY <1>2, <1>3 DEF InOrder, Complete

\* ... and when it is no boundary.
LEMMA HeardDrops ==
    ASSUME NEW P, NEW q \in Seq(Frames(P)), q # <<>>, NEW h, NEW bd, Heard(q, h, bd),
           q[1].type # "historyInfo"
    PROVE  Heard(Tail(q), h, bd)
<1>1. Len(q) \in Nat \ {0} /\ Len(Tail(q)) = Len(q) - 1
  OBVIOUS
<1>2. \A i \in 1..Len(Tail(q)) : i + 1 \in 1..Len(q) /\ Tail(q)[i] = q[i + 1]
  BY <1>1
<1>3. CASE h = bd /\ \A i \in 1..Len(q) : q[i].type # "historyInfo"
  BY <1>2, <1>3 DEF Heard
<1>4. ASSUME NEW i \in 1..Len(q), q[i] = Info(bd),
             \A j \in (i + 1)..Len(q) : q[j].type # "historyInfo"
      PROVE  Heard(Tail(q), h, bd)
  <2>1. i # 1
    BY <1>4 DEF Info
  <2>2. i - 1 \in 1..Len(Tail(q)) /\ (i - 1) + 1 = i
    BY <1>1, <2>1
  <2>3. Tail(q)[i - 1] = Info(bd)
    BY <1>2, <1>4, <2>2
  <2>4. ASSUME NEW j \in ((i - 1) + 1)..Len(Tail(q)) PROVE Tail(q)[j].type # "historyInfo"
    <3>1. j \in 1..Len(Tail(q)) /\ j + 1 \in (i + 1)..Len(q)
      BY <1>1, <2>2
    <3> QED BY <1>2, <1>4, <3>1
  <2> QED BY <2>2, <2>3, <2>4 DEF Heard
<1> QED BY <1>3, <1>4 DEF Heard

\* The boundary read last is the one in force when no other is on its way.
LEMMA HeardReads ==
    ASSUME NEW P, NEW q \in Seq(Frames(P)), q # <<>>, NEW h, NEW bd, Heard(q, h, bd),
           q[1].type = "historyInfo"
    PROVE  Heard(Tail(q), q[1].restore_before_id, bd)
<1>1. Len(q) \in Nat \ {0} /\ Len(Tail(q)) = Len(q) - 1 /\ 1 \in 1..Len(q)
  OBVIOUS
<1>2. \A i \in 1..Len(Tail(q)) : i + 1 \in 1..Len(q) /\ Tail(q)[i] = q[i + 1]
  BY <1>1
<1>3. PICK i \in 1..Len(q) :
        q[i] = Info(bd) /\ \A j \in (i + 1)..Len(q) : q[j].type # "historyInfo"
  BY <1>1 DEF Heard
<1>4. CASE i = 1
  <2>1. q[1].restore_before_id = bd
    BY <1>3, <1>4 DEF Info
  <2>2. \A j \in 1..Len(Tail(q)) : j + 1 \in (i + 1)..Len(q)
    BY <1>1, <1>4
  <2>3. \A j \in 1..Len(Tail(q)) : Tail(q)[j].type # "historyInfo"
    BY <1>2, <1>3, <2>2
  <2> QED BY <2>1, <2>3 DEF Heard
<1>5. CASE i # 1
  <2>2. i - 1 \in 1..Len(Tail(q)) /\ (i - 1) + 1 = i
    BY <1>1, <1>5
  <2>3. Tail(q)[i - 1] = Info(bd)
    BY <1>2, <1>3, <2>2
  <2>4. ASSUME NEW j \in ((i - 1) + 1)..Len(Tail(q)) PROVE Tail(q)[j].type # "historyInfo"
    <3>1. j \in 1..Len(Tail(q)) /\ j + 1 \in (i + 1)..Len(q)
      BY <1>1, <2>2
    <3> QED BY <1>2, <1>3, <3>1
  <2> QED BY <2>2, <2>3, <2>4 DEF Heard
<1> QED BY <1>4, <1>5

\* Frames that are no messages may follow.
LEMMA OrderGrows ==
    ASSUME NEW P, NEW q \in Seq(Frames(P)), NEW r \in Seq(Frames(P)),
           \A i \in 1..Len(r) : r[i].type # "text", NEW b, NEW W, NEW c
    PROVE  /\ InOrder(b, W, c, q) => InOrder(b, W, c, q \o r)
           /\ Complete(b, W, c, q) => Complete(b, W, c, q \o r)
<1>1. Len(q) \in Nat /\ Len(r) \in Nat /\ Len(q \o r) = Len(q) + Len(r)
  OBVIOUS
<1>2. ASSUME NEW m, NEW i \in 0..Len(q), Ready(m, c, q, i), NEW k \in i..Len(q \o r)
      PROVE  Ready(m, c, q \o r, k)
  <2>1. ASSUME NEW j \in 1..i, q[j] = Text(m) PROVE Ready(m, c, q \o r, k)
    <3>1. j \in 1..k /\ j \in 1..Len(q)
      BY <1>1
    <3>2. (q \o r)[j] = q[j]
      BY <3>1
    <3> QED BY <2>1, <3>1, <3>2 DEF Ready
  <2> QED BY <1>2, <2>1 DEF Ready
<1>3. ASSUME InOrder(b, W, c, q), NEW i \in 1..Len(q \o r), (q \o r)[i].type = "text",
             NEW m \in W, b \in m.seen_by, m.id <= (q \o r)[i].message.id
      PROVE  Ready(m, c, q \o r, i)
  <2>1. CASE i <= Len(q)
    <3>1. i \in 1..Len(q) /\ (q \o r)[i] = q[i]
      BY <1>1, <2>1
    <3>2. Ready(m, c, q, i) /\ i \in 0..Len(q) /\ i \in i..Len(q \o r)
      BY <1>1, <1>3, <3>1 DEF InOrder
    <3> QED BY <1>2, <3>2
  <2>2. CASE ~ (i <= Len(q))
    <3>1. i - Len(q) \in 1..Len(r) /\ (q \o r)[i] = r[i - Len(q)]
      BY <1>1, <2>2
    <3> QED BY <1>3, <3>1
  <2> QED BY <2>1, <2>2
<1>4. ASSUME Complete(b, W, c, q), NEW m \in W, b \in m.seen_by
      PROVE  Ready(m, c, q \o r, Len(q \o r))
  <2>1. Ready(m, c, q, Len(q)) /\ Len(q) \in 0..Len(q) /\ Len(q \o r) \in Len(q)..Len(q \o r)
    BY <1>1, <1>4 DEF Complete
  <2> QED BY <1>2, <2>1
<1> QED BY <1>3, <1>4 DEF InOrder, Complete

LEMMA HeardGrows ==
    ASSUME NEW P, NEW q \in Seq(Frames(P)), NEW r \in Seq(Frames(P)),
           \A i \in 1..Len(r) : r[i].type # "historyInfo", NEW h, NEW bd, Heard(q, h, bd)
    PROVE  Heard(q \o r, h, bd)
<1>1. Len(q) \in Nat /\ Len(r) \in Nat /\ Len(q \o r) = Len(q) + Len(r)
  OBVIOUS
<1>2. ASSUME NEW k \in 0..Len(q), \A j \in (k + 1)..Len(q) : q[j].type # "historyInfo",
             NEW j \in (k + 1)..Len(q \o r)
      PROVE  (q \o r)[j].type # "historyInfo"
  <2>1. CASE j <= Len(q)
    <3>1. j \in (k + 1)..Len(q) /\ j \in 1..Len(q)
      BY <1>1, <2>1
    <3>2. (q \o r)[j] = q[j]
      BY <3>1
    <3> QED BY <1>2, <3>1, <3>2
  <2>2. CASE ~ (j <= Len(q))
    <3>1. j - Len(q) \in 1..Len(r) /\ (q \o r)[j] = r[j - Len(q)]
      BY <1>1, <2>2
    <3> QED BY <3>1
  <2> QED BY <2>1, <2>2
<1>3. CASE h = bd /\ \A i \in 1..Len(q) : q[i].type # "historyInfo"
  <2>1. 0 \in 0..Len(q) /\ 0 + 1 = 1
    BY <1>1
  <2>2. \A j \in (0 + 1)..Len(q \o r) : (q \o r)[j].type # "historyInfo"
    BY <1>2, <1>3, <2>1
  <2> QED BY <1>3, <2>1, <2>2 DEF Heard
<1>4. ASSUME NEW i \in 1..Len(q), q[i] = Info(bd),
             \A j \in (i + 1)..Len(q) : q[j].type # "historyInfo"
      PROVE  Heard(q \o r, h, bd)
  <2>1. i \in 0..Len(q) /\ i \in 1..Len(q \o r) /\ (q \o r)[i] = q[i]
    BY <1>1
  <2>2. \A j \in (i + 1)..Len(q \o r) : (q \o r)[j].type # "historyInfo"
    BY <1>2, <1>4, <2>1
  <2> QED BY <1>4, <2>1, <2>2 DEF Heard
<1> QED BY <1>3, <1>4 DEF Heard

-----------------------------------------------------------------------------
(* One browser *)

LEMMA FramesGrow ==
    ASSUME NEW P, NEW Q, P \subseteq Q, NEW q \in Seq(Frames(P))
    PROVE  q \in Seq(Frames(Q))
<1>1. Frames(P) \subseteq Frames(Q)
  BY DEF Frames
<1> HIDE DEF Frames
<1>2. Len(q) \in Nat /\ q \in [1..Len(q) -> Frames(P)]
  OBVIOUS
<1>3. q \in [1..Len(q) -> Frames(Q)]
  BY <1>1, <1>2
<1> QED BY <1>2, <1>3

\* A frame that is neither message nor boundary is read and ignored.
LEMMA BrowserSkips ==
    ASSUME NEW b, NEW W, NEW P, NEW bd, NEW cur, NEW joined, NEW q, NEW c, NEW d, NEW l, NEW h,
           BrowserOK(b, W, P, bd, cur, joined, q, c, d, l, h), q # <<>>,
           q[1].type \notin {"text", "historyInfo"}
    PROVE  BrowserOK(b, W, P, bd, cur, joined, Tail(q), c, d, l, h)
<1>1. q \in Seq(Frames(P))
  BY DEF BrowserOK
<1>2. Tail(q) \in Seq(Frames(P)) /\ Len(Tail(q)) = Len(q) - 1 /\ Len(q) \in Nat
      /\ \A i \in 1..Len(Tail(q)) : i + 1 \in 1..Len(q) /\ Tail(q)[i] = q[i + 1]
  BY <1>1
<1>3. \A m : q[1] # Text(m)
  BY DEF Text
<1>4. InOrder(b, W, c, Tail(q)) /\ (joined => Complete(b, W, c, Tail(q)))
  BY <1>1, <1>3, OrderDrops DEF BrowserOK
<1>5. joined => Heard(Tail(q), h, bd)
  BY <1>1, HeardDrops DEF BrowserOK
<1>6. \A i \in 1..Len(Tail(q)) :
        Tail(q)[i].type = "historyResponse" => Tail(q)[i].message.id < bd
  BY <1>2 DEF BrowserOK
<1> QED BY <1>2, <1>4, <1>5, <1>6 DEF BrowserOK

\* Frames that are neither messages nor boundaries are put on their way.
LEMMA BrowserIsSent ==
    ASSUME NEW b, NEW W, NEW P, NEW bd, NEW cur, NEW joined, NEW q, NEW c, NEW d, NEW l, NEW h,
           BrowserOK(b, W, P, bd, cur, joined, q, c, d, l, h), NEW r \in Seq(Frames(P)),
           \A i \in 1..Len(r) : r[i].type \notin {"text", "historyInfo"},
           \A i \in 1..Len(r) : r[i].type = "historyResponse" => r[i].message.id < bd
    PROVE  BrowserOK(b, W, P, bd, cur, joined, q \o r, c, d, l, h)
<1>1. q \in Seq(Frames(P))
  BY DEF BrowserOK
<1>2. q \o r \in Seq(Frames(P)) /\ Len(q) \in Nat /\ Len(r) \in Nat
      /\ Len(q \o r) = Len(q) + Len(r)
  BY <1>1
<1>3. InOrder(b, W, c, q \o r) /\ (joined => Complete(b, W, c, q \o r))
  BY <1>1, OrderGrows DEF BrowserOK
<1>4. joined => Heard(q \o r, h, bd)
  BY <1>1, HeardGrows DEF BrowserOK
<1>5. ASSUME NEW i \in 1..Len(q \o r), (q \o r)[i].type = "historyResponse"
      PROVE  (q \o r)[i].message.id < bd
  <2>1. CASE i <= Len(q)
    <3>1. i \in 1..Len(q)
      BY <1>2, <2>1
    <3>2. (q \o r)[i] = q[i]
      BY <1>1, <3>1
    <3> QED BY <1>5, <3>1, <3>2 DEF BrowserOK
  <2>2. CASE ~ (i <= Len(q))
    <3>1. i - Len(q) \in 1..Len(r)
      BY <1>2, <2>2
    <3>2. (q \o r)[i] = r[i - Len(q)]
      BY <1>1, <1>2, <2>2
    <3> QED BY <1>5, <3>1, <3>2
  <2> QED BY <2>1, <2>2
<1> QED BY <1>2, <1>3, <1>4, <1>5 DEF BrowserOK

\* What a browser with that cache and disk needs: c2 keeps what c kept.
CacheFits(b, W, P, bd, cur, c, c2, d2, l2) ==
    /\ CacheOK(c2) /\ DiskOK(d2) /\ Proper(b, P, bd, c2) /\ Proper(b, P, bd, d2)
    /\ l2 \in 0..cur /\ d2.cursor \in 0..l2
    /\ Safe(b, W, l2, c2) /\ Safe(b, W, l2, d2)
    /\ \A m \in W : Kept(c, m) => Kept(c2, m)

LEMMA BrowserSaves ==
    ASSUME NEW b, NEW W, NEW P, NEW bd, NEW cur, NEW joined, NEW q, NEW c, NEW d, NEW l, NEW h,
           BrowserOK(b, W, P, bd, cur, joined, q, c, d, l, h),
           NEW c2, NEW d2, NEW l2, CacheFits(b, W, P, bd, cur, c, c2, d2, l2)
    PROVE  BrowserOK(b, W, P, bd, cur, joined, q, c2, d2, l2, h)
<1>1. \A m \in W : \A i : Ready(m, c, q, i) => Ready(m, c2, q, i)
  BY DEF CacheFits, Ready
<1>2. InOrder(b, W, c2, q)
  BY <1>1 DEF BrowserOK, InOrder
<1>3. joined => Complete(b, W, c2, q)
  BY <1>1 DEF BrowserOK, Complete
<1> QED BY <1>2, <1>3 DEF BrowserOK, CacheFits

\* The server goes on without this browser.
LEMMA BrowserLeft ==
    ASSUME NEW b, NEW W, NEW P, NEW boot, NEW cur, ServerOK(W, P, boot, cur),
           NEW bd \in Nat, NEW joined, NEW q, NEW c, NEW d, NEW l, NEW h,
           BrowserOK(b, W, P, bd, cur, joined, q, c, d, l, h),
           NEW V, NEW Q, NEW bd2 \in Nat, NEW cur2 \in Nat, P \subseteq Q, bd <= bd2, cur <= cur2,
           \A m \in V : m.id \in Nat /\ (m \in W \/ m.id > cur)
    PROVE  BrowserOK(b, V, Q, bd2, cur2, FALSE, q, c, d, l, h)
<1>1. cur \in Nat /\ \A m \in P : m.id \in 1..cur
  BY DEF ServerOK
<1>2. q \in Seq(Frames(P)) /\ q \in Seq(Frames(Q))
  BY FramesGrow DEF BrowserOK
<1>3. Proper(b, Q, bd2, c) /\ Proper(b, Q, bd2, d)
  <2>1. \A k : Proper(b, P, bd, k) => Proper(b, Q, bd2, k)
    <3> SUFFICES ASSUME NEW k, Proper(b, P, bd, k), NEW m \in k.recovered PROVE m.id < bd2
      BY DEF Proper
    <3>1. m.id < bd /\ m.id \in Nat
      BY <1>1 DEF Proper
    <3> QED BY <3>1
  <2> QED BY <2>1 DEF BrowserOK
<1>4. ASSUME NEW m \in V, NEW k, k.regular \subseteq P, Behind(m, l, k) PROVE m \in W
  <2>1. l \in 0..cur
    BY DEF BrowserOK
  <2>2. m.id \in Nat /\ (m \in W \/ m.id > cur)
    OBVIOUS
  <2>3. CASE m.id <= l
    BY <1>1, <2>1, <2>2, <2>3
  <2>4. ASSUME NEW x \in k.regular, m.id <= x.id PROVE m \in W
    <3>1. x.id \in 1..cur
      BY <1>1, <1>4
    <3> QED BY <1>1, <2>2, <2>4, <3>1
  <2> QED BY <1>4, <2>3, <2>4 DEF Behind
<1>5. Safe(b, V, l, c) /\ Safe(b, V, l, d)
  BY <1>4 DEF BrowserOK, Safe, Proper
<1>6. InOrder(b, V, c, q)
  <2> SUFFICES ASSUME NEW i \in 1..Len(q), q[i].type = "text", NEW m \in V, b \in m.seen_by,
                      m.id <= q[i].message.id
               PROVE  Ready(m, c, q, i)
    BY DEF InOrder
  <2>1. q[i] \in Frames(P)
    BY <1>2
  <2>2. q[i].message.id \in 1..cur
    BY <1>1, <2>1, FrameIs
  <2>3. m \in W
    BY <1>1, <2>2
  <2> QED BY <2>3 DEF BrowserOK, InOrder
<1>7. l \in 0..cur2
  BY <1>1 DEF BrowserOK
<1>8. ASSUME NEW i \in 1..Len(q), q[i].type = "historyResponse" PROVE q[i].message.id < bd2
  <2>1. q[i] \in Frames(P)
    BY <1>2
  <2>2. q[i].message.id \in Nat /\ q[i].message.id < bd
    BY <1>1, <1>8, <2>1, FrameIs DEF BrowserOK
  <2> QED BY <2>2
<1> QED BY <1>2, <1>3, <1>5, <1>6, <1>7, <1>8 DEF BrowserOK

\* Saving a proper cache leaves a proper one that kept what c kept.
LEMMA SavingFits ==
    ASSUME NEW b, NEW P, IsFiniteSet(P), \A m \in P : m.id \in Nat, NEW bd,
           NEW c, NEW e, CacheOK(e), Proper(b, P, bd, e), c.regular \subseteq e.regular
    PROVE  /\ CacheOK(Capped(e)) /\ Proper(b, P, bd, Capped(e))
           /\ Capped(e).regular \subseteq e.regular
           /\ \A m \in P : Kept(e, m) => Kept(Capped(e), m)
           /\ \A m \in P : Kept(c, m) => Kept(Capped(e), m)
<1>1. IsFiniteSet(e.regular) /\ IsFiniteSet(e.recovered)
  BY FS_Subset DEF Proper
<1>2. \A x \in e.regular : x.id \in Nat
  BY DEF Proper
<1>3. /\ CacheOK(Capped(e)) /\ Capped(e).regular \subseteq e.regular
      /\ Capped(e).recovered \subseteq e.recovered
      /\ \A m : (m.id \in Nat /\ Kept(e, m)) => Kept(Capped(e), m)
  BY <1>1, <1>2, CappedIs
<1>4. Proper(b, P, bd, Capped(e))
  BY <1>3 DEF Proper, Stored, Ids
<1>5. \A m \in P : Kept(c, m) => Kept(e, m)
  BY <1>1, KeptGrows
<1> QED BY <1>3, <1>4, <1>5

Added(c, m, new) == IF new THEN [c EXCEPT !.regular = @ \cup {m}] ELSE c

\* A message of the chat joins a cache.
LEMMA AddedIs ==
    ASSUME NEW b, NEW P, NEW bd, NEW c, CacheOK(c), Proper(b, P, bd, c), NEW m \in P,
           NEW new \in BOOLEAN, new => b \in m.seen_by /\ m.id \notin Ids(Stored(c)),
           NEW e, e = Added(c, m, new)
    PROVE  /\ CacheOK(e) /\ Proper(b, P, bd, e)
           /\ (new => e.regular = c.regular \cup {m}) /\ (~new => e.regular = c.regular)
           /\ e.recovered = c.recovered
<1>1. CacheOK(e) /\ e.recovered = c.recovered
      /\ (new => e.regular = c.regular \cup {m}) /\ (~new => e.regular = c.regular)
  BY DEF CacheOK, Added
<1>2. CASE new
  <2>1. m.id \notin Ids(c.recovered) /\ b \in m.seen_by
    BY <1>2 DEF Stored, Ids
  <2>2. e.regular = c.regular \cup {m}
    BY <1>1, <1>2
  <2>3. \A x \in Stored(e) : b \in x.seen_by
    BY <1>1, <2>1, <2>2 DEF Proper, Stored
  <2>4. \A x \in e.recovered : x.id < bd /\ x.id \notin Ids(e.regular)
    BY <1>1, <2>1, <2>2 DEF Proper, Ids
  <2> QED BY <1>1, <2>2, <2>3, <2>4 DEF Proper
<1>3. CASE ~new
  BY <1>1, <1>3 DEF Proper, Stored
<1> QED BY <1>1, <1>2, <1>3

\* The first message on its way: what is not newer was kept, and so is it.
LEMMA TextFits ==
    ASSUME NEW b, NEW W, NEW P, NEW boot, NEW cur, ServerOK(W, P, boot, cur),
           NEW joined, NEW q, NEW c, NEW d, NEW l, NEW h,
           BrowserOK(b, W, P, RestoreBefore(W, boot), cur, joined, q, c, d, l, h),
           q # <<>>, NEW m \in P, q[1] = Text(m), NEW new \in BOOLEAN,
           new <=> b \in m.seen_by /\ m.id \notin Ids(Stored(c)),
           NEW e, e = Added(c, m, new)
    PROVE  /\ CacheOK(Capped(e)) /\ Proper(b, P, RestoreBefore(W, boot), Capped(e))
           /\ \A w \in W : Kept(c, w) => Kept(Capped(e), w)
           /\ \A w \in W : b \in w.seen_by /\ q[1] = Text(w) => Kept(Capped(e), w)
           /\ Safe(b, W, l, Capped(e)) /\ Safe(b, W, m.id, Capped(e))
<1> DEFINE bd == RestoreBefore(W, boot)
           k == Capped(e)
<1>1. /\ cur \in Nat /\ IsFiniteSet(P) /\ W \subseteq P
      /\ \A x \in P : x.id \in 1..cur
      /\ \A x, y \in P : x.id = y.id => x = y
  BY DEF ServerOK
<1>2. bd \in 1..(cur + 1) /\ \A x \in P : x \in W <=> bd <= x.id
  BY BoundaryIs
<1> HIDE DEF bd
<1>3. /\ CacheOK(c) /\ Proper(b, P, bd, c) /\ Safe(b, W, l, c) /\ InOrder(b, W, c, q)
      /\ q \in Seq(Frames(P))
  BY DEF BrowserOK, bd
<1>4. /\ CacheOK(e) /\ Proper(b, P, bd, e)
      /\ (new => e.regular = c.regular \cup {m}) /\ (~new => e.regular = c.regular)
      /\ e.recovered = c.recovered
  <2>1. new => b \in m.seen_by /\ m.id \notin Ids(Stored(c))
    OBVIOUS
  <2> QED BY <1>3, <2>1, AddedIs
<1> HIDE DEF k
<1>6. /\ CacheOK(k) /\ Proper(b, P, bd, k) /\ k.regular \subseteq e.regular
      /\ \A x \in P : Kept(e, x) => Kept(k, x)
      /\ \A x \in P : Kept(c, x) => Kept(k, x)
  <2>1. c.regular \subseteq e.regular /\ \A x \in P : x.id \in Nat
    BY <1>1, <1>4
  <2> QED BY ONLY <1>1, <1>4, <2>1, SavingFits DEF k
<1>7. ASSUME m \in W, b \in m.seen_by PROVE Kept(k, m)
  <2>1. m \in e.regular
    <3>1. CASE new
      BY <1>4, <3>1
    <3>2. CASE ~new
      <4>1. PICK x \in Stored(c) : x.id = m.id
        BY <1>7, <3>2 DEF Ids
      <4>2. x \in P
        BY <1>3 DEF Proper, Stored
      <4>3. x = m
        BY <1>1, <4>1, <4>2
      <4>4. m \notin c.recovered
        <5>1. m.id \in Nat /\ bd \in Nat /\ bd <= m.id
          BY <1>1, <1>2, <1>7
        <5>2. ~ (m.id < bd)
          BY <5>1
        <5> QED BY <1>3, <5>2 DEF Proper
      <4> QED BY <1>4, <3>2, <4>3, <4>4 DEF Stored
    <3> QED BY <3>1, <3>2
  <2> QED BY <1>6, <2>1 DEF Kept
<1>8. ASSUME NEW w \in W, b \in w.seen_by, w.id <= m.id PROVE Kept(k, w)
  <2>1. Len(q) \in Nat \ {0} /\ 1 \in 1..Len(q)
    BY <1>3
  <2>2. q[1].type = "text" /\ q[1].message = m
    BY DEF Text
  <2>3. Ready(w, c, q, 1)
    BY <1>3, <1>8, <2>1, <2>2 DEF InOrder
  <2>4. CASE Kept(c, w)
    BY <1>1, <1>6, <2>4
  <2>5. CASE q[1] = Text(w)
    <3>1. w = m
      BY <2>5 DEF Text
    <3> QED BY <1>7, <1>8, <3>1
  <2>6. \A j \in 1..1 : j = 1
    OBVIOUS
  <2> QED BY <2>3, <2>4, <2>5, <2>6 DEF Ready
<1>9. ASSUME NEW w \in W, b \in w.seen_by, NEW x \in k.regular, w.id <= x.id PROVE Kept(k, w)
  <2>1. CASE x \in c.regular
    <3>1. Kept(c, w)
      BY <1>3, <1>9, <2>1 DEF Safe, Behind
    <3> QED BY <1>1, <1>6, <3>1
  <2>2. CASE x \notin c.regular
    <3>1. x = m
      BY <1>4, <1>6, <2>2
    <3> QED BY <1>8, <1>9, <3>1
  <2> QED BY <2>1, <2>2
<1>10. ASSUME NEW w \in W, b \in w.seen_by, w.id <= l PROVE Kept(k, w)
  <2>1. Kept(c, w)
    BY <1>3, <1>10 DEF Safe, Behind
  <2> QED BY <1>1, <1>6, <2>1
<1>11. Safe(b, W, l, k) /\ Safe(b, W, m.id, k)
  BY <1>8, <1>9, <1>10 DEF Safe, Behind
<1>12. \A w \in W : b \in w.seen_by /\ q[1] = Text(w) => Kept(k, w)
  BY <1>7 DEF Text
<1>13. \A w \in W : Kept(c, w) => Kept(k, w)
  BY <1>1, <1>6
<1> QED BY <1>6, <1>11, <1>12, <1>13 DEF bd, k

Recovered(c, m) == [c EXCEPT !.recovered = @ \cup {m}]

\* A recovered message joins a cache.
LEMMA RecoveredIs ==
    ASSUME NEW b, NEW P, NEW bd, NEW c, CacheOK(c), Proper(b, P, bd, c), NEW m \in P,
           b \in m.seen_by, m.id < bd, m.id \notin Ids(Stored(c)),
           NEW e, e = Recovered(c, m)
    PROVE  /\ CacheOK(e) /\ Proper(b, P, bd, e)
           /\ e.regular = c.regular /\ e.recovered = c.recovered \cup {m}
<1>1. CacheOK(e) /\ e.regular = c.regular /\ e.recovered = c.recovered \cup {m}
  BY DEF CacheOK, Recovered
<1>2. m.id \notin Ids(c.regular)
  BY DEF Ids, Stored
<1> QED BY <1>1, <1>2 DEF Proper, Stored

\* A recovered message, older than what the server replays, joins the cache.
LEMMA RecoveredFits ==
    ASSUME NEW b, NEW W, NEW P, NEW boot, NEW cur, ServerOK(W, P, boot, cur),
           NEW bd, NEW l, NEW c, CacheOK(c), Proper(b, P, bd, c), Safe(b, W, l, c),
           NEW m \in P, b \in m.seen_by, m.id < bd, m.id \notin Ids(Stored(c)),
           NEW e, e = Recovered(c, m)
    PROVE  /\ CacheOK(Capped(e)) /\ Proper(b, P, bd, Capped(e))
           /\ \A w \in W : Kept(c, w) => Kept(Capped(e), w)
           /\ Safe(b, W, l, Capped(e))
<1>1. IsFiniteSet(P) /\ W \subseteq P /\ cur \in Nat /\ \A x \in P : x.id \in 1..cur
  BY DEF ServerOK
<1>2. /\ CacheOK(e) /\ e.regular = c.regular /\ e.recovered = c.recovered \cup {m}
      /\ Proper(b, P, bd, e)
  BY RecoveredIs
<1>4. /\ CacheOK(Capped(e)) /\ Proper(b, P, bd, Capped(e))
      /\ Capped(e).regular \subseteq c.regular
      /\ \A x \in P : Kept(c, x) => Kept(Capped(e), x)
  <2>1. (\A x \in P : x.id \in Nat) /\ c.regular \subseteq e.regular
    BY <1>1, <1>2
  <2>2. /\ CacheOK(Capped(e)) /\ Proper(b, P, bd, Capped(e))
        /\ Capped(e).regular \subseteq e.regular
        /\ \A x \in P : Kept(c, x) => Kept(Capped(e), x)
    BY ONLY <1>1, <1>2, <2>1, SavingFits
  <2> QED BY <1>2, <2>2
<1>5. Safe(b, W, l, Capped(e))
  BY <1>1, <1>4 DEF Safe, Behind
<1> QED BY <1>1, <1>4, <1>5

\* A page that starts from its disk: the cursor it starts with is behind it.
LEMMA ReloadFits ==
    ASSUME NEW b, NEW W, NEW P, NEW boot, NEW cur, ServerOK(W, P, boot, cur),
           NEW bd, NEW l \in 0..cur, NEW d, DiskOK(d), Proper(b, P, bd, d), Safe(b, W, l, d),
           d.cursor \in 0..l
    PROVE  /\ ReloadCursor(d) \in 0..cur /\ d.cursor <= ReloadCursor(d)
           /\ \A m \in d.regular : m.id <= ReloadCursor(d)
           /\ Safe(b, W, ReloadCursor(d), d)
           /\ CacheOK(Capped(Snapshot(d))) /\ Proper(b, P, bd, Capped(Snapshot(d)))
           /\ Safe(b, W, ReloadCursor(d), Capped(Snapshot(d)))
<1> DEFINE r == ReloadCursor(d)
           s == Snapshot(d)
<1>1. IsFiniteSet(P) /\ W \subseteq P /\ cur \in Nat /\ \A x \in P : x.id \in 1..cur
  BY DEF ServerOK
<1>2. /\ r \in 0..cur /\ d.cursor <= r /\ \A m \in d.regular : m.id <= r
      /\ r = d.cursor \/ \E x \in d.regular : r = x.id
  <2> DEFINE S == {d.cursor} \cup Ids(d.regular)
  <2>1. \A x \in d.regular : x.id \in 1..cur /\ x.id \in S
    BY <1>1 DEF Proper, Ids
  <2>2. d.cursor \in 0..cur /\ d.cursor \in S
    BY <1>1
  <2>3. \A y \in S : y = d.cursor \/ \E x \in d.regular : y = x.id
    BY DEF Ids
  <2> HIDE DEF S
  <2>4. \A y \in S : y \in 0..cur
    BY <1>1, <2>1, <2>2, <2>3
  <2>5. S \in SUBSET Nat /\ S # {} /\ \A y \in S : y <= cur
    BY <1>1, <2>2, <2>4
  <2>6. Max(S) \in S /\ \A y \in S : y <= Max(S)
    BY <1>1, <2>5, MaxFound
  <2>7. r = Max(S)
    BY DEF ReloadCursor, S
  <2> HIDE DEF r
  <2> QED BY <2>1, <2>2, <2>3, <2>4, <2>6, <2>7
<1> HIDE DEF r
<1>3. Safe(b, W, r, d)
  <2>1. ASSUME NEW w \in W, w.id <= r PROVE Behind(w, l, d)
    <3>1. w.id \in 1..cur
      BY <1>1
    <3>2. CASE r = d.cursor
      BY <1>1, <2>1, <3>1, <3>2 DEF Behind
    <3>3. CASE \E x \in d.regular : r = x.id
      BY <2>1, <3>3 DEF Behind
    <3> QED BY <1>2, <3>2, <3>3
  <2>2. \A w \in W : Behind(w, r, d) => Behind(w, l, d)
    BY <2>1 DEF Behind
  <2> QED BY <2>2 DEF Safe
<1>4. s.regular = d.regular /\ s.recovered = d.recovered /\ CacheOK(s)
  BY DEF Snapshot, CacheOK
<1> HIDE DEF s
<1>5. /\ CacheOK(Capped(s)) /\ Proper(b, P, bd, Capped(s))
      /\ Capped(s).regular \subseteq d.regular
      /\ \A x \in P : Kept(d, x) => Kept(Capped(s), x)
  <2>1. Proper(b, P, bd, s) /\ d.regular \subseteq s.regular
    BY <1>4 DEF Proper, Stored
  <2>2. \A x \in P : x.id \in Nat
    BY <1>1
  <2> QED BY <1>1, <1>4, <2>1, <2>2, SavingFits
<1>6. Safe(b, W, r, Capped(s))
  BY <1>1, <1>3, <1>5 DEF Safe, Behind
<1> QED BY <1>2, <1>3, <1>5, <1>6 DEF r, s

\* A joined browser is sent the new message and the new boundary.
LEMMA BrowserHears ==
    ASSUME NEW b, NEW W, NEW P, NEW boot, NEW cur, ServerOK(W, P, boot, cur),
           NEW q, NEW c, NEW d, NEW l, NEW h,
           BrowserOK(b, W, P, RestoreBefore(W, boot), cur, TRUE, q, c, d, l, h),
           NEW m, m.id = cur + 1,
           NEW V, V = {n \in W \cup {m} : n.id > m.id - MAX_MESSAGES}
    PROVE  BrowserOK(b, V, P \cup {m}, RestoreBefore(V, boot), cur + 1, TRUE,
                     q \o <<Text(m), Info(RestoreBefore(V, boot))>>, c, d, l, h)
<1> DEFINE bd == RestoreBefore(V, boot)
           Q == P \cup {m}
           r == q \o <<Text(m), Info(bd)>>
<1>1. cur \in Nat /\ W \subseteq P /\ \A x \in P : x.id \in 1..cur
  BY DEF ServerOK
<1>2. /\ RestoreBefore(W, boot) \in 1..(cur + 1) /\ bd \in 1..((cur + 1) + 1)
      /\ RestoreBefore(W, boot) <= bd
  <2>1. ServerOK(V, Q, boot, cur + 1) /\ RestoreBefore(W, boot) <= bd
    BY ServerStores
  <2> HIDE DEF Q
  <2>2. bd \in 1..((cur + 1) + 1)
    BY ONLY <2>1, BoundaryIs DEF bd
  <2>3. RestoreBefore(W, boot) \in 1..(cur + 1)
    BY ONLY ServerOK(W, P, boot, cur), BoundaryIs
  <2> QED BY <2>1, <2>2, <2>3
<1>3. V \subseteq W \cup {m}
  OBVIOUS
<1> HIDE DEF bd, Q
<1>4. BrowserOK(b, V, Q, bd, cur + 1, FALSE, q, c, d, l, h)
  <2>1. \A n \in V : n.id \in Nat /\ (n \in W \/ n.id > cur)
    BY <1>1, <1>3
  <2>2. P \subseteq Q /\ cur <= cur + 1 /\ cur + 1 \in Nat /\ bd \in Nat
        /\ RestoreBefore(W, boot) \in Nat
    BY <1>1, <1>2 DEF Q
  <2> QED BY ONLY <1>2, <2>1, <2>2, ServerOK(W, P, boot, cur), BrowserLeft,
                  BrowserOK(b, W, P, RestoreBefore(W, boot), cur, TRUE, q, c, d, l, h)
<1>5. q \in Seq(Frames(Q)) /\ InOrder(b, V, c, q)
  BY <1>4 DEF BrowserOK
<1>6. Text(m) \in Frames(Q) /\ Info(bd) \in Frames(Q)
  BY <1>1, <1>2 DEF Frames, Q
<1>7. /\ r \in Seq(Frames(Q)) /\ Len(q) \in Nat /\ Len(r) = Len(q) + 2
      /\ r[Len(q) + 1] = Text(m) /\ r[Len(q) + 2] = Info(bd)
      /\ \A i \in 1..Len(q) : r[i] = q[i]
      /\ \A i \in 1..Len(r) : i \in 1..Len(q) \/ i = Len(q) + 1 \/ i = Len(q) + 2
  BY <1>5, <1>6
<1> HIDE DEF r
<1>8. ASSUME NEW i \in 1..Len(q), NEW k \in i..Len(r), NEW n, Ready(n, c, q, i)
      PROVE  Ready(n, c, r, k)
  <2>1. ASSUME NEW j \in 1..i, q[j] = Text(n) PROVE Ready(n, c, r, k)
    <3>1. j \in 1..k /\ j \in 1..Len(q)
      BY <1>7
    <3>2. r[j] = Text(n)
      BY <1>7, <2>1, <3>1
    <3> QED BY <3>1, <3>2 DEF Ready
  <2> QED BY <1>8, <2>1 DEF Ready
<1>9. ASSUME NEW n \in V, b \in n.seen_by, NEW k \in (Len(q) + 1)..Len(r)
      PROVE  Ready(n, c, r, k)
  <2>1. Len(q) + 1 \in 1..k
    BY <1>7
  <2>2. CASE n = m
    BY <1>7, <2>1, <2>2 DEF Ready
  <2>3. CASE n \in W
    <3>1. Ready(n, c, q, Len(q))
      BY <1>9, <2>3 DEF BrowserOK, Complete
    <3>2. CASE Kept(c, n)
      BY <3>2 DEF Ready
    <3>3. ASSUME NEW j \in 1..Len(q), q[j] = Text(n) PROVE Ready(n, c, r, k)
      <4>1. j \in 1..k /\ r[j] = Text(n)
        BY <1>7, <2>1, <3>3
      <4> QED BY <4>1 DEF Ready
    <3> QED BY <3>1, <3>2, <3>3 DEF Ready
  <2> QED BY <1>3, <2>2, <2>3
<1>10. ASSUME NEW i \in 1..Len(r), r[i].type = "text", NEW n \in V, b \in n.seen_by,
              n.id <= r[i].message.id
       PROVE  Ready(n, c, r, i)
  <2>1. CASE i \in 1..Len(q)
    <3>1. Ready(n, c, q, i)
      BY <1>5, <1>7, <1>10, <2>1 DEF InOrder
    <3>2. i \in i..Len(r)
      OBVIOUS
    <3> QED BY <1>8, <2>1, <3>1, <3>2
  <2>2. CASE i \notin 1..Len(q)
    <3>1. i \in (Len(q) + 1)..Len(r)
      BY <1>7, <2>2
    <3> QED BY <1>9, <1>10, <3>1
  <2> QED BY <2>1, <2>2
<1>11. Complete(b, V, c, r)
  <2>1. Len(r) \in (Len(q) + 1)..Len(r)
    BY <1>7
  <2> QED BY <1>9, <2>1 DEF Complete
<1>12. Heard(r, h, bd)
  <2>1. Len(q) + 2 \in 1..Len(r) /\ r[Len(q) + 2] = Info(bd)
        /\ \A j \in ((Len(q) + 2) + 1)..Len(r) : FALSE
    BY <1>7
  <2> QED BY <2>1 DEF Heard
<1>13. ASSUME NEW i \in 1..Len(r), r[i].type = "historyResponse" PROVE r[i].message.id < bd
  <2>1. i \in 1..Len(q)
    BY <1>7, <1>13 DEF Text, Info
  <2> QED BY <1>4, <1>7, <1>13, <2>1 DEF BrowserOK
<1>14. BrowserOK(b, V, Q, bd, cur + 1, TRUE, r, c, d, l, h)
  BY <1>4, <1>7, <1>10, <1>11, <1>12, <1>13 DEF BrowserOK, InOrder
<1> QED BY <1>14 DEF bd, Q, r

\* What a join replays: all the window holds above the cursor, in order of id.
Replays(s, W, l) ==
    /\ s \in Seq(W)
    /\ \A i, j \in 1..Len(s) : i < j => s[i].id < s[j].id
    /\ \A m \in W : m.id > l => \E i \in 1..Len(s) : s[i] = m

LEMMA ReplayIs ==
    ASSUME NEW W, NEW P, NEW boot, NEW cur, ServerOK(W, P, boot, cur), NEW l
    PROVE  Replays(ById({m \in W : m.id > l}), W, l)
<1> DEFINE S == {m \in W : m.id > l}
           s == ById(S)
<1>1. S \subseteq W /\ \A m \in W : m.id > l => m \in S
  OBVIOUS
<1> HIDE DEF S
<1>2. IsFiniteSet(S) /\ (\A x \in S : x.id \in Nat) /\ \A x, y \in S : x.id = y.id => x = y
  BY <1>1, FS_Subset DEF ServerOK
<1>3. /\ s \in Seq(S) /\ \A i, j \in 1..Len(s) : i < j => s[i].id < s[j].id
      /\ \A m \in S : \E i \in 1..Len(s) : s[i] = m
  BY ONLY <1>2, ByIdIs
<1> HIDE DEF s
<1>4. s \in Seq(W)
  <2>1. Len(s) \in Nat /\ s \in [1..Len(s) -> S]
    BY <1>3
  <2>2. s \in [1..Len(s) -> W]
    BY <1>1, <2>1
  <2> QED BY <2>1, <2>2
<1>5. Replays(s, W, l)
  BY <1>1, <1>3, <1>4 DEF Replays
<1> QED BY <1>5 DEF s, S

\* The frames of a join: the replay, the boundary and the list of users.
JoinFrames(r, s, bd) ==
    /\ Len(r) = Len(s) + 2
    /\ r[Len(s) + 1] = Info(bd) /\ r[Len(s) + 2] = OnlineUsers
    /\ \A i \in 1..Len(s) : r[i] = Text(s[i])
    /\ \A i \in 1..Len(r) : i \in 1..Len(s) \/ i = Len(s) + 1 \/ i = Len(s) + 2

Texts(s) == [i \in DOMAIN s |-> Text(s[i])]

LEMMA JoinFramesAre ==
    ASSUME NEW W, NEW P, W \subseteq P, NEW s \in Seq(W), NEW bd \in Nat,
           NEW r, r = Texts(s) \o <<Info(bd), OnlineUsers>>
    PROVE  r \in Seq(Frames(P)) /\ JoinFrames(r, s, bd)
<1> DEFINE t == Texts(s)
<1>1. Len(s) \in Nat /\ DOMAIN s = 1..Len(s) /\ \A i \in 1..Len(s) : s[i] \in W
  OBVIOUS
<1>2. t = [i \in 1..Len(s) |-> Text(s[i])]
  BY <1>1 DEF Texts
<1>3. \A m \in W : Text(m) \in Frames(P)
  BY DEF Frames
<1>4. Info(bd) \in Frames(P) /\ OnlineUsers \in Frames(P)
  BY DEF Frames
<1>5. r = t \o <<Info(bd), OnlineUsers>>
  OBVIOUS
<1> HIDE DEF t
<1>6. t \in [1..Len(s) -> Frames(P)]
  BY <1>1, <1>2, <1>3
<1>7. t \in Seq(Frames(P)) /\ Len(t) = Len(s)
  BY ONLY <1>1, <1>6
<1>8. \A i \in 1..Len(s) : t[i] = Text(s[i])
  BY <1>2
<1>9. <<Info(bd), OnlineUsers>> \in Seq(Frames(P))
  BY <1>4
<1>10. r \in Seq(Frames(P)) /\ Len(r) = Len(s) + 2
  BY ONLY <1>5, <1>7, <1>9
<1>11. \A i \in 1..Len(s) : r[i] = t[i]
  BY ONLY <1>5, <1>7, <1>9
<1>12. r[Len(s) + 1] = Info(bd) /\ r[Len(s) + 2] = OnlineUsers
  BY ONLY <1>1, <1>4, <1>5, <1>7
<1>13. \A i \in 1..Len(r) : i \in 1..Len(s) \/ i = Len(s) + 1 \/ i = Len(s) + 2
  BY <1>1, <1>10
<1> QED BY <1>8, <1>10, <1>11, <1>12, <1>13 DEF JoinFrames

\* A browser joins: it is replayed what is above its cursor, in order of id.
LEMMA BrowserJoins ==
    ASSUME NEW b, NEW W, NEW P, NEW boot, NEW cur, ServerOK(W, P, boot, cur), NEW bd,
           NEW joined, NEW q, NEW c, NEW d, NEW l, NEW h,
           BrowserOK(b, W, P, bd, cur, joined, q, c, d, l, h),
           NEW s, Replays(s, W, l), NEW r \in Seq(Frames(P)), JoinFrames(r, s, bd)
    PROVE  BrowserOK(b, W, P, bd, cur, TRUE, r, c, d, l, h)
<1>1. /\ cur \in Nat /\ W \subseteq P /\ \A x \in P : x.id \in 1..cur
  BY DEF ServerOK
<1>2. /\ s \in Seq(W) /\ \A i, j \in 1..Len(s) : i < j => s[i].id < s[j].id
      /\ \A m \in W : m.id > l => \E i \in 1..Len(s) : s[i] = m
  BY DEF Replays
<1>3. Len(s) \in Nat
  BY <1>2
<1>4. /\ Len(r) = Len(s) + 2
      /\ r[Len(s) + 1] = Info(bd) /\ r[Len(s) + 2] = OnlineUsers
      /\ \A i \in 1..Len(s) : r[i] = Text(s[i]) /\ s[i] \in W
      /\ \A i \in 1..Len(r) : i \in 1..Len(s) \/ i = Len(s) + 1 \/ i = Len(s) + 2
  BY <1>2 DEF JoinFrames
<1>5. ASSUME NEW m \in W, b \in m.seen_by, NEW i \in 1..Len(r),
             i \in 1..Len(s) => m.id <= s[i].id
      PROVE  Ready(m, c, r, i)
  <2>1. CASE m.id <= l
    BY <1>5, <2>1 DEF BrowserOK, Safe, Behind, Ready
  <2>2. CASE ~ (m.id <= l)
    <3>1. m.id \in Nat /\ l \in Nat
      BY <1>1 DEF BrowserOK
    <3>2. PICK j \in 1..Len(s) : s[j] = m
      BY <1>2, <2>2, <3>1
    <3>3. j <= i
      <4>1. CASE i \in 1..Len(s)
        <5>1. s[i].id \in Nat /\ s[j].id <= s[i].id
          BY <1>1, <1>4, <1>5, <3>2, <4>1
        <5>2. ~ (i < j)
          BY <1>2, <3>1, <3>2, <4>1, <5>1
        <5> QED BY <4>1, <5>2
      <4>2. CASE i \notin 1..Len(s)
        BY <1>3, <4>2
      <4> QED BY <4>1, <4>2
    <3>4. j \in 1..i /\ r[j] = Text(m)
      BY <1>4, <3>2, <3>3
    <3> QED BY <3>4 DEF Ready
  <2> QED BY <2>1, <2>2
<1>6. InOrder(b, W, c, r)
  <2> SUFFICES ASSUME NEW i \in 1..Len(r), r[i].type = "text", NEW m \in W, b \in m.seen_by,
                      m.id <= r[i].message.id
               PROVE  Ready(m, c, r, i)
    BY DEF InOrder
  <2>1. ASSUME i \in 1..Len(s) PROVE m.id <= s[i].id
    <3>1. r[i] = Text(s[i])
      BY <1>4, <2>1
    <3>2. r[i].message = s[i]
      BY ONLY <3>1 DEF Text
    <3> QED BY <3>2
  <2> QED BY <1>5, <2>1
<1>7. Complete(b, W, c, r)
  <2>1. Len(r) \in 1..Len(r) /\ Len(r) \notin 1..Len(s)
    BY <1>3, <1>4
  <2> QED BY <1>5, <2>1 DEF Complete
<1>8. Heard(r, h, bd)
  <2>1. /\ Len(s) + 1 \in 1..Len(r)
        /\ \A j \in ((Len(s) + 1) + 1)..Len(r) : j = Len(s) + 2
    BY <1>3, <1>4
  <2>2. r[Len(s) + 2].type # "historyInfo"
    BY <1>4 DEF OnlineUsers
  <2> QED BY <1>4, <2>1, <2>2 DEF Heard
<1>9. \A i \in 1..Len(r) : r[i].type # "historyResponse"
  <2>1. \A x : Text(x).type # "historyResponse"
    BY DEF Text
  <2>2. Info(bd).type # "historyResponse" /\ OnlineUsers.type # "historyResponse"
    BY DEF Info, OnlineUsers
  <2> QED BY <1>4, <2>1, <2>2
<1> QED BY <1>4, <1>6, <1>7, <1>8, <1>9 DEF BrowserOK

-----------------------------------------------------------------------------
(* Steps of a page *)

\* The first frame is read and the cache is saved.
LEMMA BrowserReads ==
    ASSUME NEW b, NEW W, NEW P, NEW bd, NEW cur, NEW joined, NEW q, NEW c, NEW d, NEW l, NEW h,
           BrowserOK(b, W, P, bd, cur, joined, q, c, d, l, h), q # <<>>,
           q[1].type # "historyInfo",
           NEW c2, NEW d2, NEW l2, CacheFits(b, W, P, bd, cur, c, c2, d2, l2),
           \A w \in W : b \in w.seen_by /\ q[1] = Text(w) => Kept(c2, w)
    PROVE  BrowserOK(b, W, P, bd, cur, joined, Tail(q), c2, d2, l2, h)
<1>1. q \in Seq(Frames(P))
  BY DEF BrowserOK
<1>2. Tail(q) \in Seq(Frames(P)) /\ Len(Tail(q)) = Len(q) - 1 /\ Len(q) \in Nat
      /\ \A i \in 1..Len(Tail(q)) : i + 1 \in 1..Len(q) /\ Tail(q)[i] = q[i + 1]
  BY <1>1
<1>3. InOrder(b, W, c2, Tail(q)) /\ (joined => Complete(b, W, c2, Tail(q)))
  BY <1>1, OrderDrops DEF BrowserOK, CacheFits
<1>4. joined => Heard(Tail(q), h, bd)
  BY <1>1, HeardDrops DEF BrowserOK
<1>5. \A i \in 1..Len(Tail(q)) :
        Tail(q)[i].type = "historyResponse" => Tail(q)[i].message.id < bd
  BY <1>2 DEF BrowserOK
<1> QED BY <1>2, <1>3, <1>4, <1>5 DEF BrowserOK, CacheFits

\* The first frame is a boundary.
LEMMA BrowserLearns ==
    ASSUME NEW b, NEW W, NEW P, NEW bd, NEW cur, NEW joined, NEW q, NEW c, NEW d, NEW l, NEW h,
           BrowserOK(b, W, P, bd, cur, joined, q, c, d, l, h), q # <<>>,
           q[1].type = "historyInfo"
    PROVE  BrowserOK(b, W, P, bd, cur, joined, Tail(q), c, d, l, q[1].restore_before_id)
<1>1. q \in Seq(Frames(P))
  BY DEF BrowserOK
<1>2. Tail(q) \in Seq(Frames(P)) /\ Len(Tail(q)) = Len(q) - 1 /\ Len(q) \in Nat
      /\ \A i \in 1..Len(Tail(q)) : i + 1 \in 1..Len(q) /\ Tail(q)[i] = q[i + 1]
  BY <1>1
<1>3. \A m : q[1] # Text(m)
  BY DEF Text
<1>4. InOrder(b, W, c, Tail(q)) /\ (joined => Complete(b, W, c, Tail(q)))
  BY <1>1, <1>3, OrderDrops DEF BrowserOK
<1>5. joined => Heard(Tail(q), q[1].restore_before_id, bd)
  BY <1>1, HeardReads DEF BrowserOK
<1>6. \A i \in 1..Len(Tail(q)) :
        Tail(q)[i].type = "historyResponse" => Tail(q)[i].message.id < bd
  BY <1>2 DEF BrowserOK
<1> QED BY <1>2, <1>4, <1>5, <1>6 DEF BrowserOK

\* A browser may be without a session.
LEMMA BrowserUnlinked ==
    ASSUME NEW b, NEW W, NEW P, NEW bd, NEW cur, NEW joined, NEW q, NEW c, NEW d, NEW l, NEW h,
           BrowserOK(b, W, P, bd, cur, joined, q, c, d, l, h), NEW other, other => joined
    PROVE  BrowserOK(b, W, P, bd, cur, other, q, c, d, l, h)
BY DEF BrowserOK

\* What saveMessages leaves on the disk: cache k, or only a new cursor.
LEMMA DiskIs ==
    ASSUME NEW d, DiskOK(d), NEW k, NEW n, NEW saved \in BOOLEAN,
           NEW d2, d2 = IF saved THEN [regular |-> k.regular, recovered |-> k.recovered, cursor |-> n]
                                 ELSE [d EXCEPT !.cursor = n],
           NEW b, NEW W, NEW P, NEW bd, NEW l,
           saved => Proper(b, P, bd, k) /\ Safe(b, W, l, k),
           ~saved => Proper(b, P, bd, d) /\ Safe(b, W, l, d)
    PROVE  DiskOK(d2) /\ d2.cursor = n /\ Proper(b, P, bd, d2) /\ Safe(b, W, l, d2)
<1>1. d = [regular |-> d.regular, recovered |-> d.recovered, cursor |-> d.cursor]
  BY DEF DiskOK
<1>2. PICK x \in {k, d} : /\ d2 = [regular |-> x.regular, recovered |-> x.recovered, cursor |-> n]
                          /\ Proper(b, P, bd, x) /\ Safe(b, W, l, x)
  <2>1. CASE saved
    BY <2>1
  <2>2. CASE ~saved
    <3>1. d2 = [d EXCEPT !.cursor = n]
      BY <2>2
    <3>2. d2 = [regular |-> d.regular, recovered |-> d.recovered, cursor |-> n]
      BY ONLY <1>1, <3>1
    <3> QED BY <2>2, <3>2
  <2> QED BY <2>1, <2>2
<1>3. d2.regular = x.regular /\ d2.recovered = x.recovered /\ d2.cursor = n /\ DiskOK(d2)
  BY ONLY <1>2 DEF DiskOK
<1>4. Proper(b, P, bd, d2)
  BY ONLY <1>2, <1>3 DEF Proper, Stored
<1>5. Safe(b, W, l, d2)
  BY ONLY <1>2, <1>3 DEF Safe, Behind, Kept
<1> QED BY <1>3, <1>4, <1>5

\* A step that leaves the server alone.
LEMMA PagesStep ==
    ASSUME Good, UNCHANGED server, linked' \subseteq BROWSERS,
           DOMAIN inbox' = BROWSERS, DOMAIN cache' = BROWSERS,
           DOMAIN lastSeenId' = BROWSERS, DOMAIN disk' = BROWSERS,
           historyInfo' \in [BROWSERS -> Nat], requests' \in [BROWSERS -> Nat],
           \A p \in BROWSERS :
              BrowserOK(p, window, published, Boundary, current_id, p \in linked',
                        inbox'[p], cache'[p], disk'[p], lastSeenId'[p], historyInfo'[p])
    PROVE  Good'
BY DEF Good, PageOK, Boundary, server

-----------------------------------------------------------------------------
(* Every action keeps Good *)

LEMMA InitGood == Init => Good /\ era = 0
<1> SUFFICES ASSUME Init PROVE Good /\ era = 0
  OBVIOUS
<1>1. /\ window = {} /\ boot_start_id = 1 /\ current_id = 0 /\ published = {} /\ linked = {}
      /\ era = 0
      /\ inbox = [b \in BROWSERS |-> <<>>]
      /\ cache = [b \in BROWSERS |-> Empty]
      /\ lastSeenId = [b \in BROWSERS |-> 0]
      /\ disk = [b \in BROWSERS |-> [regular |-> {}, recovered |-> {}, cursor |-> 0]]
      /\ historyInfo = [b \in BROWSERS |-> 0]
      /\ requests = [b \in BROWSERS |-> 0]
  BY DEF Init
<1>2. ServerOK(window, published, boot_start_id, current_id)
  BY <1>1, FS_EmptySet DEF ServerOK
<1>3. ASSUME NEW b \in BROWSERS PROVE PageOK(b)
  <2>1. <<>> \in Seq(Frames({})) /\ Len(<<>>) = 0
    OBVIOUS
  <2>2. CacheOK(Empty) /\ Empty.regular = {} /\ Empty.recovered = {}
    BY DEF CacheOK, Empty
  <2>3. /\ DiskOK([regular |-> {}, recovered |-> {}, cursor |-> 0])
        /\ [regular |-> {}, recovered |-> {}, cursor |-> 0].regular = {}
        /\ [regular |-> {}, recovered |-> {}, cursor |-> 0].recovered = {}
        /\ [regular |-> {}, recovered |-> {}, cursor |-> 0].cursor = 0
    BY DEF DiskOK
  <2>4. \A k : k.regular = {} /\ k.recovered = {} => Proper(b, {}, Boundary, k)
    BY DEF Proper, Stored
  <2>5. \A k, l : Safe(b, {}, l, k)
    BY DEF Safe
  <2>6. \A k : InOrder(b, {}, k, <<>>)
    BY DEF InOrder
  <2>7. BrowserOK(b, {}, {}, Boundary, 0, FALSE, <<>>, Empty,
                  [regular |-> {}, recovered |-> {}, cursor |-> 0], 0, 0)
    <3> DEFINE dd == [regular |-> {}, recovered |-> {}, cursor |-> 0]
    <3>1. DiskOK(dd) /\ Proper(b, {}, Boundary, dd) /\ dd.cursor = 0
      BY <2>3, <2>4
    <3>2. 0 \in 0..0 /\ \A i : i \notin 1..0
      OBVIOUS
    <3> HIDE DEF dd
    <3>3. BrowserOK(b, {}, {}, Boundary, 0, FALSE, <<>>, Empty, dd, 0, 0)
      BY <2>1, <2>2, <2>4, <2>5, <2>6, <3>1, <3>2 DEF BrowserOK
    <3> QED BY <3>3 DEF dd
  <2>8. b \in linked <=> FALSE
    BY <1>1
  <2> QED BY <1>1, <2>7, <2>8, BrowserUnlinked DEF PageOK
<1> QED BY <1>1, <1>2, <1>3 DEF Good

LEMMA ChatGood ==
    ASSUME Good, Chat
    PROVE  Good'
<1>1. PICK audience : 
        LET m == [id |-> current_id + 1, seen_by |-> audience, era |-> era]
            kept == {n \in window \cup {m} : n.id > m.id - MAX_MESSAGES}
        IN  /\ window' = kept
            /\ published' = published \cup {m}
            /\ inbox' = Broadcast(<<Text(m), Info(RestoreBefore(kept, boot_start_id))>>)
  BY DEF Chat
<1>2. /\ current_id' = current_id + 1 /\ boot_start_id' = boot_start_id /\ linked' = linked
      /\ cache' = cache /\ lastSeenId' = lastSeenId /\ disk' = disk
      /\ historyInfo' = historyInfo /\ requests' = requests
  BY DEF Chat, page
<1>3. ServerOK(window, published, boot_start_id, current_id) /\ (\A b \in BROWSERS : PageOK(b))
      /\ current_id \in Nat /\ (\A n \in published : n.id \in 1..current_id)
      /\ window \subseteq published
  BY DEF Good, ServerOK
<1> DEFINE m == [id |-> current_id + 1, seen_by |-> audience, era |-> era]
           V == {n \in window \cup {m} : n.id > m.id - MAX_MESSAGES}
           bd == RestoreBefore(V, boot_start_id)
<1>4. m.id = current_id + 1
  OBVIOUS
<1>5. /\ window' = V /\ published' = published \cup {m}
      /\ inbox' = Broadcast(<<Text(m), Info(bd)>>)
  BY <1>1
<1> HIDE DEF m
<1>6. /\ ServerOK(V, published \cup {m}, boot_start_id, current_id + 1)
      /\ RestoreBefore(window, boot_start_id) <= bd
      /\ bd \in Nat /\ RestoreBefore(window, boot_start_id) \in Nat
  <2>1. /\ ServerOK(V, published \cup {m}, boot_start_id, current_id + 1)
        /\ RestoreBefore(window, boot_start_id) <= bd
    BY ONLY <1>3, <1>4, ServerStores
  <2> HIDE DEF V
  <2>2. bd \in 1..((current_id + 1) + 1)
    BY ONLY <2>1, BoundaryIs
  <2>3. RestoreBefore(window, boot_start_id) \in 1..(current_id + 1)
    BY ONLY <1>3, BoundaryIs
  <2> QED BY <2>1, <2>2, <2>3
<1>7. ASSUME NEW b \in BROWSERS PROVE PageOK(b)'
  <2>1. BrowserOK(b, window, published, RestoreBefore(window, boot_start_id), current_id,
                  b \in linked, inbox[b], cache[b], disk[b], lastSeenId[b], historyInfo[b])
    BY <1>3 DEF PageOK, Boundary
  <2>2. CASE b \in linked
    <3>1. BrowserOK(b, window, published, RestoreBefore(window, boot_start_id), current_id,
                    TRUE, inbox[b], cache[b], disk[b], lastSeenId[b], historyInfo[b])
      BY <2>1, <2>2, BrowserUnlinked
    <3>2. BrowserOK(b, V, published \cup {m}, bd, current_id + 1, TRUE,
                    inbox[b] \o <<Text(m), Info(bd)>>, cache[b], disk[b], lastSeenId[b],
                    historyInfo[b])
      BY ONLY <1>3, <1>4, <3>1, BrowserHears
    <3>3. inbox'[b] = inbox[b] \o <<Text(m), Info(bd)>>
      BY <1>5, <2>2 DEF Broadcast
    <3> HIDE DEF V, bd
    <3>4. BrowserOK(b, V, published \cup {m}, bd, current_id + 1, b \in linked,
                    inbox[b] \o <<Text(m), Info(bd)>>, cache[b], disk[b], lastSeenId[b],
                    historyInfo[b])
      BY ONLY <3>2, BrowserUnlinked
    <3> QED BY <1>2, <1>5, <3>3, <3>4 DEF PageOK, Boundary, bd
  <2>3. CASE b \notin linked
    <3>1. inbox'[b] = inbox[b]
      BY <1>5, <2>3 DEF Broadcast
    <3>2. /\ published \subseteq published \cup {m} /\ current_id <= current_id + 1
          /\ current_id + 1 \in Nat
          /\ \A n \in V : n.id \in Nat /\ (n \in window \/ n.id > current_id)
      BY <1>3, <1>4
    <3>5. \A n \in V : n.id \in Nat /\ (n \in window \/ n.id > current_id)
      BY <3>2
    <3>6. RestoreBefore(window, boot_start_id) \in Nat /\ bd \in Nat
      BY <1>6
    <3> DEFINE Q == published \cup {m}
               next == current_id + 1
    <3>7. published \subseteq Q /\ next \in Nat /\ current_id <= next
      BY <3>2
    <3> HIDE DEF V, bd, Q, next
    <3>8. BrowserOK(b, V, Q, bd, next, FALSE, inbox[b],
                    cache[b], disk[b], lastSeenId[b], historyInfo[b])
      <4> DEFINE old == RestoreBefore(window, boot_start_id)
      <4>1. old <= bd /\ old \in Nat /\ bd \in Nat /\ next \in Nat
        BY <1>6, <3>7
      <4>2. BrowserOK(b, window, published, old, current_id, FALSE, inbox[b],
                      cache[b], disk[b], lastSeenId[b], historyInfo[b])
        BY ONLY <2>1, BrowserUnlinked
      <4>3. ServerOK(window, published, boot_start_id, current_id)
        BY <1>3
      <4> HIDE DEF old
      <4> QED BY ONLY <4>1, <4>2, <4>3, <3>5, <3>7, BrowserLeft
    <3>3. BrowserOK(b, V, published \cup {m}, bd, current_id + 1, FALSE, inbox[b],
                    cache[b], disk[b], lastSeenId[b], historyInfo[b])
      BY ONLY <3>8 DEF Q, next
    <3>4. BrowserOK(b, V, published \cup {m}, bd, current_id + 1, b \in linked, inbox[b],
                    cache[b], disk[b], lastSeenId[b], historyInfo[b])
      BY ONLY <3>3, <2>3, BrowserUnlinked
    <3> QED BY <1>2, <1>5, <3>1, <3>4 DEF PageOK, Boundary, bd
  <2> QED BY <2>2, <2>3
<1>8. DOMAIN inbox' = BROWSERS
  BY <1>5 DEF Broadcast
<1>9. ServerOK(window, published, boot_start_id, current_id)'
  BY <1>2, <1>5, <1>6
<1> QED BY <1>2, <1>7, <1>8, <1>9 DEF Good

\* A restart that keeps the id counter.
LEMMA RestartGood ==
    ASSUME Good, Restart, era \in Nat, era' = 0
    PROVE  Good'
<1>1. /\ current_id' = current_id /\ boot_start_id' = current_id + 1
      /\ window' = {} /\ linked' = {} /\ published' = published /\ inbox' = inbox
      /\ cache' = cache /\ lastSeenId' = lastSeenId /\ disk' = disk
      /\ historyInfo' = historyInfo /\ requests' = requests
  BY DEF Restart, page
<1>2. ServerOK(window, published, boot_start_id, current_id) /\ (\A b \in BROWSERS : PageOK(b))
      /\ current_id \in Nat /\ \A n \in published : n.id \in 1..current_id
  BY DEF Good, ServerOK
<1>3. ServerOK({}, published, current_id + 1, current_id)
      /\ RestoreBefore({}, current_id + 1) = current_id + 1
  <2>1. RestoreBefore({}, current_id + 1) = current_id + 1
    BY DEF RestoreBefore
  <2>2. current_id + 1 \in 1..(current_id + 1)
    BY <1>2
  <2>3. \A n \in published : ~ (current_id + 1 <= n.id)
    BY <1>2
  <2> QED BY <1>2, <2>1, <2>2, <2>3 DEF ServerOK
<1>4. ASSUME NEW b \in BROWSERS PROVE PageOK(b)'
  <2>1. BrowserOK(b, window, published, RestoreBefore(window, boot_start_id), current_id,
                  b \in linked, inbox[b], cache[b], disk[b], lastSeenId[b], historyInfo[b])
    BY <1>2 DEF PageOK, Boundary
  <2>2. RestoreBefore(window, boot_start_id) \in 1..(current_id + 1)
    BY ONLY <1>2, BoundaryIs
  <2>3. RestoreBefore(window, boot_start_id) \in Nat /\ current_id + 1 \in Nat
        /\ RestoreBefore(window, boot_start_id) <= current_id + 1 /\ current_id <= current_id
    BY <1>2, <2>2
  <2>4. BrowserOK(b, {}, published, current_id + 1, current_id, FALSE, inbox[b],
                  cache[b], disk[b], lastSeenId[b], historyInfo[b])
    <3>1. \A n \in {} : n.id \in Nat /\ (n \in window \/ n.id > current_id)
      OBVIOUS
    <3> QED BY ONLY <1>2, <2>1, <2>3, <3>1, BrowserLeft
  <2>5. BrowserOK(b, {}, published, current_id + 1, current_id, b \in linked', inbox[b],
                  cache[b], disk[b], lastSeenId[b], historyInfo[b])
    <3>1. b \notin linked'
      BY <1>1
    <3> QED BY ONLY <2>4, <3>1, BrowserUnlinked
  <2> QED BY <1>1, <1>3, <2>5 DEF PageOK, Boundary
<1>5. ServerOK(window, published, boot_start_id, current_id)'
  BY <1>1, <1>3
<1> QED BY <1>1, <1>4, <1>5 DEF Good

LEMMA BreakGood ==
    ASSUME Good, NEW b \in BROWSERS, Break(b)
    PROVE  Good'
<1>1. /\ linked' = linked \ {b} /\ inbox' = inbox /\ UNCHANGED <<server, page>>
  BY DEF Break
<1>2. /\ UNCHANGED server /\ cache' = cache /\ lastSeenId' = lastSeenId /\ disk' = disk
      /\ historyInfo' = historyInfo /\ requests' = requests
  BY <1>1 DEF page
<1>3. ASSUME NEW p \in BROWSERS
      PROVE  BrowserOK(p, window, published, Boundary, current_id, p \in linked',
                       inbox'[p], cache'[p], disk'[p], lastSeenId'[p], historyInfo'[p])
  <2>1. PageOK(p) /\ (p \in linked' => p \in linked)
    BY <1>1 DEF Good
  <2> QED BY <1>1, <1>2, <2>1, BrowserUnlinked DEF PageOK
<1> QED BY <1>1, <1>2, <1>3, PagesStep DEF Good

LEMMA JoinGood ==
    ASSUME Good, NEW b \in BROWSERS, Join(b)
    PROVE  Good'
<1> DEFINE s == Replay(lastSeenId[b])
           r == Texts(s) \o <<Info(Boundary), OnlineUsers>>
<1>1. /\ linked' = linked \cup {b} /\ inbox' = [inbox EXCEPT ![b] = r]
      /\ UNCHANGED server /\ cache' = cache /\ lastSeenId' = lastSeenId /\ disk' = disk
      /\ historyInfo' = historyInfo /\ requests' = requests
  BY DEF Join, Texts
<1>2. ServerOK(window, published, boot_start_id, current_id)
      /\ window \subseteq published /\ current_id \in Nat
  BY DEF Good, ServerOK
<1>3. Replays(s, window, lastSeenId[b])
  BY ONLY <1>2, ReplayIs DEF Replay
<1>4. Boundary \in Nat
  <2>1. Boundary \in 1..(current_id + 1)
    BY ONLY <1>2, BoundaryIs DEF Boundary
  <2> QED BY <2>1
<1>5. r \in Seq(Frames(published)) /\ JoinFrames(r, s, Boundary)
  <2>1. s \in Seq(window)
    BY <1>3 DEF Replays
  <2>2. r = Texts(s) \o <<Info(Boundary), OnlineUsers>>
    OBVIOUS
  <2> HIDE DEF s, r
  <2> QED BY ONLY <1>2, <1>4, <2>1, <2>2, JoinFramesAre
<1> HIDE DEF s, r
<1>6. ASSUME NEW p \in BROWSERS
      PROVE  BrowserOK(p, window, published, Boundary, current_id, p \in linked',
                       inbox'[p], cache'[p], disk'[p], lastSeenId'[p], historyInfo'[p])
  <2>1. BrowserOK(p, window, published, Boundary, current_id, p \in linked,
                  inbox[p], cache[p], disk[p], lastSeenId[p], historyInfo[p])
    BY DEF Good, PageOK
  <2>2. CASE p = b
    <3>1. BrowserOK(b, window, published, Boundary, current_id, TRUE, r, cache[b], disk[b],
                    lastSeenId[b], historyInfo[b])
      BY ONLY <1>2, <1>3, <1>5, <2>1, <2>2, BrowserJoins
    <3>2. BrowserOK(b, window, published, Boundary, current_id, b \in linked', r, cache[b],
                    disk[b], lastSeenId[b], historyInfo[b])
      BY ONLY <3>1, BrowserUnlinked
    <3>3. inbox'[b] = r
      BY <1>1 DEF Good
    <3> QED BY <1>1, <2>2, <3>2, <3>3
  <2>3. CASE p # b
    <3>1. inbox'[p] = inbox[p] /\ (p \in linked' => p \in linked)
      BY <1>1, <2>3 DEF Good
    <3> QED BY <1>1, <2>1, <3>1, BrowserUnlinked
  <2> QED BY <2>2, <2>3
<1>7. linked' \subseteq BROWSERS /\ DOMAIN inbox' = BROWSERS
  BY <1>1 DEF Good
<1> QED BY <1>1, <1>6, <1>7, PagesStep DEF Good

\* f and g differ at b only.
Only(b, f, g) == DOMAIN g = BROWSERS /\ \A p \in BROWSERS \ {b} : g[p] = f[p]

LEMMA OnlyIs ==
    ASSUME NEW b \in BROWSERS, NEW f, DOMAIN f = BROWSERS, NEW v
    PROVE  Only(b, f, f) /\ Only(b, f, [f EXCEPT ![b] = v]) /\ [f EXCEPT ![b] = v][b] = v
BY DEF Only

\* A step of one page.
LEMMA OnePage ==
    ASSUME Good, UNCHANGED server, NEW b \in BROWSERS,
           linked' \subseteq BROWSERS, \A p \in BROWSERS \ {b} : p \in linked' => p \in linked,
           Only(b, inbox, inbox'), Only(b, cache, cache'), Only(b, disk, disk'),
           Only(b, lastSeenId, lastSeenId'), Only(b, historyInfo, historyInfo'),
           historyInfo' \in [BROWSERS -> Nat], requests' \in [BROWSERS -> Nat],
           BrowserOK(b, window, published, Boundary, current_id, b \in linked',
                     inbox'[b], cache'[b], disk'[b], lastSeenId'[b], historyInfo'[b])
    PROVE  Good'
<1>1. ASSUME NEW p \in BROWSERS
      PROVE  BrowserOK(p, window, published, Boundary, current_id, p \in linked',
                       inbox'[p], cache'[p], disk'[p], lastSeenId'[p], historyInfo'[p])
  <2>1. CASE p = b
    BY <2>1
  <2>2. CASE p # b
    <3>1. BrowserOK(p, window, published, Boundary, current_id, p \in linked,
                    inbox[p], cache[p], disk[p], lastSeenId[p], historyInfo[p])
      BY DEF Good, PageOK
    <3>2. BrowserOK(p, window, published, Boundary, current_id, p \in linked',
                    inbox[p], cache[p], disk[p], lastSeenId[p], historyInfo[p])
      BY <2>2, <3>1, BrowserUnlinked
    <3> QED BY <2>2, <3>2 DEF Only
  <2> QED BY <2>1, <2>2
<1> QED BY <1>1, PagesStep DEF Only

\* What a page in order looks like, and its next frame.
LEMMA PageIs ==
    ASSUME Good, NEW b \in BROWSERS
    PROVE  /\ ServerOK(window, published, boot_start_id, current_id)
           /\ Boundary \in 1..(current_id + 1) /\ current_id \in Nat
           /\ BrowserOK(b, window, published, Boundary, current_id, b \in linked,
                        inbox[b], cache[b], disk[b], lastSeenId[b], historyInfo[b])
           /\ inbox[b] # <<>> =>
                 Head(inbox[b]) = inbox[b][1] /\ inbox[b][1] \in Frames(published)
                    /\ 1 \in 1..Len(inbox[b])
<1>1. ServerOK(window, published, boot_start_id, current_id) /\ PageOK(b)
  BY DEF Good
<1>2. Boundary \in 1..(current_id + 1)
  BY ONLY <1>1, BoundaryIs DEF Boundary
<1>3. inbox[b] \in Seq(Frames(published))
  BY <1>1 DEF PageOK, BrowserOK
<1> QED BY <1>1, <1>2, <1>3 DEF PageOK, ServerOK

LEMMA InfoGood ==
    ASSUME Good, NEW b \in BROWSERS, InfoArrives(b)
    PROVE  Good'
<1> DEFINE q == inbox[b]
<1>1. /\ q # <<>> /\ Head(q).type = "historyInfo"
      /\ inbox' = [inbox EXCEPT ![b] = Tail(q)]
      /\ historyInfo' = [historyInfo EXCEPT ![b] = Head(q).restore_before_id]
      /\ UNCHANGED <<server, linked, cache, lastSeenId, disk, requests>>
  BY DEF InfoArrives, NextFrame, Consume
<1>2. q[1].type = "historyInfo" /\ q[1].restore_before_id \in Nat
      /\ Head(q) = q[1]
  BY <1>1, PageIs, FrameIs
<1>3. BrowserOK(b, window, published, Boundary, current_id, b \in linked, Tail(q),
                cache[b], disk[b], lastSeenId[b], q[1].restore_before_id)
  <2>1. BrowserOK(b, window, published, Boundary, current_id, b \in linked, q,
                  cache[b], disk[b], lastSeenId[b], historyInfo[b])
    BY PageIs
  <2> HIDE DEF q
  <2> QED BY ONLY <1>1, <1>2, <2>1, BrowserLearns
<1> HIDE DEF q
<1>4. /\ Only(b, inbox, inbox') /\ Only(b, historyInfo, historyInfo')
      /\ inbox'[b] = Tail(q) /\ historyInfo'[b] = q[1].restore_before_id
  <2>1. DOMAIN inbox = BROWSERS /\ DOMAIN historyInfo = BROWSERS
    BY DEF Good
  <2>2. Only(b, inbox, inbox') /\ inbox'[b] = Tail(q)
    BY ONLY <1>1, <2>1, b \in BROWSERS, OnlyIs
  <2>3. Only(b, historyInfo, historyInfo') /\ historyInfo'[b] = Head(q).restore_before_id
    BY ONLY <1>1, <2>1, b \in BROWSERS, OnlyIs
  <2> QED BY <1>2, <2>2, <2>3
<1>5. Only(b, cache, cache') /\ Only(b, disk, disk') /\ Only(b, lastSeenId, lastSeenId')
  BY <1>1, OnlyIs DEF Good
<1>6. historyInfo' \in [BROWSERS -> Nat] /\ requests' \in [BROWSERS -> Nat]
      /\ linked' \subseteq BROWSERS
  BY <1>1, <1>2 DEF Good
<1> QED BY <1>1, <1>3, <1>4, <1>5, <1>6, OnePage

LEMMA PresenceGood ==
    ASSUME Good, NEW b \in BROWSERS, PresenceArrives(b)
    PROVE  Good'
<1> DEFINE q == inbox[b]
<1>1. /\ q # <<>> /\ Head(q).type = "onlineUsers"
      /\ inbox' = [inbox EXCEPT ![b] = Tail(q)]
      /\ UNCHANGED <<server, linked, cache, lastSeenId, disk, historyInfo, requests>>
  BY DEF PresenceArrives, NextFrame, Consume
<1>2. q[1].type \notin {"text", "historyInfo"}
  BY <1>1, PageIs
<1>3. BrowserOK(b, window, published, Boundary, current_id, b \in linked, Tail(q),
                cache[b], disk[b], lastSeenId[b], historyInfo[b])
  <2>1. BrowserOK(b, window, published, Boundary, current_id, b \in linked, q,
                  cache[b], disk[b], lastSeenId[b], historyInfo[b])
    BY PageIs
  <2> HIDE DEF q
  <2> QED BY ONLY <1>1, <1>2, <2>1, BrowserSkips
<1> HIDE DEF q
<1>4. Only(b, inbox, inbox') /\ inbox'[b] = Tail(q)
  BY <1>1, OnlyIs DEF Good
<1>5. Only(b, cache, cache') /\ Only(b, disk, disk') /\ Only(b, lastSeenId, lastSeenId')
      /\ Only(b, historyInfo, historyInfo')
  BY <1>1, OnlyIs DEF Good
<1>6. historyInfo' \in [BROWSERS -> Nat] /\ requests' \in [BROWSERS -> Nat]
      /\ linked' \subseteq BROWSERS
  BY <1>1 DEF Good
<1> QED BY <1>1, <1>3, <1>4, <1>5, <1>6, OnePage

LEMMA FinishGood ==
    ASSUME Good, NEW b \in BROWSERS, FinishHistoryRecovery(b)
    PROVE  Good'
<1>1. UNCHANGED <<server, linked, inbox, cache, lastSeenId, disk, historyInfo, requests>>
  BY DEF FinishHistoryRecovery
<1>2. \A p \in BROWSERS :
         BrowserOK(p, window, published, Boundary, current_id, p \in linked', inbox'[p],
                   cache'[p], disk'[p], lastSeenId'[p], historyInfo'[p])
  BY <1>1 DEF Good, PageOK
<1> QED BY <1>1, <1>2, PagesStep DEF Good

LEMMA SavedIs ==
    ASSUME Good, NEW b \in BROWSERS, NEW e, NEW n, NEW saved \in BOOLEAN,
           SaveMessages(b, e, n, saved)
    PROVE  /\ Only(b, cache, cache') /\ cache'[b] = Capped(e)
           /\ Only(b, disk, disk')
           /\ disk'[b] = IF saved THEN [regular |-> Capped(e).regular,
                                        recovered |-> Capped(e).recovered, cursor |-> n]
                                  ELSE [disk[b] EXCEPT !.cursor = n]
<1>1. DOMAIN cache = BROWSERS /\ DOMAIN disk = BROWSERS
  BY DEF Good
<1>2. cache' = [cache EXCEPT ![b] = Capped(e)]
  BY DEF SaveMessages
<1>3. Only(b, cache, cache') /\ cache'[b] = Capped(e)
  BY ONLY <1>1, <1>2, b \in BROWSERS, OnlyIs
<1> DEFINE v == IF saved THEN [regular |-> Capped(e).regular,
                               recovered |-> Capped(e).recovered, cursor |-> n]
                         ELSE [disk[b] EXCEPT !.cursor = n]
<1>4. disk' = [disk EXCEPT ![b] = v]
  BY DEF SaveMessages
<1> HIDE DEF v
<1>5. Only(b, disk, disk') /\ disk'[b] = v
  BY ONLY <1>1, <1>4, b \in BROWSERS, OnlyIs
<1> QED BY <1>3, <1>5 DEF v

LEMMA TextGood ==
    ASSUME Good, NEW b \in BROWSERS, TextArrives(b)
    PROVE  Good'
<1> DEFINE q == inbox[b]
           m == q[1].message
           c == cache[b]
           d == disk[b]
           l == lastSeenId[b]
           new == b \in m.seen_by /\ m.id \notin Ids(Stored(c))
           e == IF new THEN [c EXCEPT !.regular = @ \cup {m}] ELSE c
           ahead == m.id > l
           J == b \in linked
           h == historyInfo[b]
<1>1. /\ ServerOK(window, published, boot_start_id, current_id)
      /\ BrowserOK(b, window, published, Boundary, current_id, J, q, c, d, l, h)
      /\ current_id \in Nat
  BY PageIs
<1>2. q # <<>> /\ Head(q).type = "text" /\ Head(q) = q[1] /\ inbox' = [inbox EXCEPT ![b] = Tail(q)]
      /\ UNCHANGED <<server, linked, historyInfo, requests>>
  BY PageIs DEF TextArrives, NextFrame, Consume
<1>3. PICK saved, noted \in BOOLEAN :
         /\ SaveMessages(b, e, IF saved /\ ahead /\ noted THEN m.id ELSE d.cursor, saved)
         /\ lastSeenId' = [lastSeenId EXCEPT ![b] = IF saved /\ ahead THEN m.id ELSE l]
  BY <1>2 DEF TextArrives, Writes
<1> DEFINE n == IF saved /\ ahead /\ noted THEN m.id ELSE d.cursor
           l2 == IF saved /\ ahead THEN m.id ELSE l
           k == Capped(e)
           d2 == IF saved THEN [regular |-> k.regular, recovered |-> k.recovered, cursor |-> n]
                          ELSE [d EXCEPT !.cursor = n]
<1>4. q[1] = Text(m) /\ m \in published /\ q[1].type # "historyInfo"
  BY <1>2, PageIs, FrameIs
<1>5. m.id \in 1..current_id /\ window \subseteq published
  BY <1>1, <1>4 DEF ServerOK
<1>6. Only(b, lastSeenId, lastSeenId') /\ lastSeenId'[b] = l2
  <2>1. DOMAIN lastSeenId = BROWSERS /\ lastSeenId' = [lastSeenId EXCEPT ![b] = l2]
    BY <1>3 DEF Good
  <2> HIDE DEF l2
  <2> QED BY ONLY <2>1, b \in BROWSERS, OnlyIs
<1>7. /\ Only(b, cache, cache') /\ cache'[b] = k
      /\ Only(b, disk, disk') /\ disk'[b] = d2
  <2>1. SaveMessages(b, e, n, saved)
    BY <1>3
  <2> HIDE DEF e, n
  <2> QED BY <2>1, SavedIs
<1>8. Only(b, inbox, inbox') /\ inbox'[b] = Tail(q)
  BY <1>2, OnlyIs DEF Good
<1>9. /\ CacheOK(k) /\ Proper(b, published, Boundary, k)
      /\ \A w \in window : Kept(c, w) => Kept(k, w)
      /\ \A w \in window : b \in w.seen_by /\ q[1] = Text(w) => Kept(k, w)
      /\ Safe(b, window, l, k) /\ Safe(b, window, m.id, k)
  <2>1. new \in BOOLEAN /\ (new <=> b \in m.seen_by /\ m.id \notin Ids(Stored(c)))
        /\ e = Added(c, m, new)
    BY DEF Added
  <2>2. BrowserOK(b, window, published, RestoreBefore(window, boot_start_id), current_id, J,
                  q, c, d, l, h)
    BY <1>1 DEF Boundary
  <2> HIDE DEF q, m, c, d, l, new, e, J, h
  <2> QED BY ONLY <1>1, <1>2, <1>4, <2>1, <2>2, TextFits DEF Boundary, k
<1>10. /\ DiskOK(d) /\ Proper(b, published, Boundary, d) /\ Safe(b, window, l, d)
       /\ l \in 0..current_id /\ d.cursor \in 0..l
  BY <1>1 DEF BrowserOK
<1> HIDE DEF q, m, c, d, l, new, e, k, J, h
<1>11. l2 \in {l, m.id} /\ l2 \in 0..current_id /\ n \in 0..l2 /\ (~saved => l2 = l)
  BY <1>1, <1>5, <1>10
<1> HIDE DEF l2, n, ahead
<1>12. Safe(b, window, l2, k)
  BY <1>9, <1>11
<1>13. DiskOK(d2) /\ d2.cursor = n /\ Proper(b, published, Boundary, d2) /\ Safe(b, window, l2, d2)
  <2>1. saved => Proper(b, published, Boundary, k) /\ Safe(b, window, l2, k)
    BY <1>9, <1>12
  <2>2. ~saved => Proper(b, published, Boundary, d) /\ Safe(b, window, l2, d)
    BY <1>10, <1>11
  <2>3. DiskOK(d) /\ saved \in BOOLEAN
    BY <1>10
  <2>4. d2 = IF saved THEN [regular |-> k.regular, recovered |-> k.recovered, cursor |-> n]
                      ELSE [d EXCEPT !.cursor = n]
    OBVIOUS
  <2> HIDE DEF d2
  <2> QED BY ONLY <2>1, <2>2, <2>3, <2>4, DiskIs
<1> HIDE DEF d2
<1>14. CacheFits(b, window, published, Boundary, current_id, c, k, d2, l2)
  BY <1>9, <1>11, <1>12, <1>13 DEF CacheFits
<1>15. BrowserOK(b, window, published, Boundary, current_id, J, Tail(q), k, d2, l2, h)
  BY ONLY <1>1, <1>2, <1>4, <1>9, <1>14, BrowserReads
<1>16. Only(b, historyInfo, historyInfo') /\ historyInfo' \in [BROWSERS -> Nat]
       /\ requests' \in [BROWSERS -> Nat] /\ linked' \subseteq BROWSERS
  BY <1>2, OnlyIs DEF Good
<1>17. BrowserOK(b, window, published, Boundary, current_id, b \in linked',
                 inbox'[b], cache'[b], disk'[b], lastSeenId'[b], historyInfo'[b])
  BY <1>2, <1>6, <1>7, <1>8, <1>15 DEF J, h
<1> QED BY <1>2, <1>6, <1>7, <1>8, <1>16, <1>17, OnePage

LEMMA ReloadGood ==
    ASSUME Good, NEW b \in BROWSERS, Reload(b)
    PROVE  Good'
<1> DEFINE d == disk[b]
           l == lastSeenId[b]
           s == Snapshot(d)
           r == ReloadCursor(d)
           k == Capped(s)
<1>1. /\ ServerOK(window, published, boot_start_id, current_id)
      /\ BrowserOK(b, window, published, Boundary, current_id, b \in linked, inbox[b],
                   cache[b], d, l, historyInfo[b])
      /\ current_id \in Nat
  BY PageIs
<1>2. PICK saved, noted \in BOOLEAN :
         /\ SaveMessages(b, s, IF saved /\ noted THEN r ELSE d.cursor, saved)
         /\ lastSeenId' = [lastSeenId EXCEPT ![b] = r]
  BY DEF Reload, Writes
<1>3. /\ linked' = linked \ {b}
      /\ inbox' = [inbox EXCEPT ![b] = <<>>]
      /\ historyInfo' = [historyInfo EXCEPT ![b] = 0]
      /\ UNCHANGED <<server, requests>>
  BY DEF Reload
<1> DEFINE n == IF saved /\ noted THEN r ELSE d.cursor
           d2 == IF saved THEN [regular |-> k.regular, recovered |-> k.recovered, cursor |-> n]
                          ELSE [d EXCEPT !.cursor = n]
<1>4. Only(b, lastSeenId, lastSeenId') /\ lastSeenId'[b] = r
  <2>1. DOMAIN lastSeenId = BROWSERS
    BY DEF Good
  <2> HIDE DEF r
  <2> QED BY ONLY <1>2, <2>1, b \in BROWSERS, OnlyIs
<1>5. /\ Only(b, cache, cache') /\ cache'[b] = k
      /\ Only(b, disk, disk') /\ disk'[b] = d2
  <2>1. SaveMessages(b, s, n, saved)
    BY <1>2
  <2> HIDE DEF s, n
  <2> QED BY <2>1, SavedIs
<1>6. Only(b, inbox, inbox') /\ inbox'[b] = <<>>
  BY <1>3, OnlyIs DEF Good
<1>7. Only(b, historyInfo, historyInfo') /\ historyInfo' \in [BROWSERS -> Nat]
       /\ requests' \in [BROWSERS -> Nat] /\ linked' \subseteq BROWSERS
  BY <1>3, OnlyIs DEF Good
<1>8. /\ DiskOK(d) /\ Proper(b, published, Boundary, d) /\ Safe(b, window, l, d)
      /\ l \in 0..current_id /\ d.cursor \in 0..l
  BY <1>1 DEF BrowserOK
<1> HIDE DEF d, l
<1>9. /\ r \in 0..current_id /\ d.cursor <= r
      /\ Safe(b, window, r, d)
      /\ CacheOK(k) /\ Proper(b, published, Boundary, k) /\ Safe(b, window, r, k)
  BY ONLY <1>1, <1>8, ReloadFits
<1> HIDE DEF r, s, k
<1>10. n \in 0..r
  BY <1>1, <1>8, <1>9
<1>11. DiskOK(d2) /\ d2.cursor = n /\ Proper(b, published, Boundary, d2) /\ Safe(b, window, r, d2)
  <2>1. saved => Proper(b, published, Boundary, k) /\ Safe(b, window, r, k)
    BY <1>9
  <2>2. ~saved => Proper(b, published, Boundary, d) /\ Safe(b, window, r, d)
    BY <1>8, <1>9
  <2>3. DiskOK(d) /\ saved \in BOOLEAN
    BY <1>8
  <2>4. d2 = IF saved THEN [regular |-> k.regular, recovered |-> k.recovered, cursor |-> n]
                      ELSE [d EXCEPT !.cursor = n]
    OBVIOUS
  <2> HIDE DEF d2, n
  <2> QED BY ONLY <2>1, <2>2, <2>3, <2>4, DiskIs
<1> HIDE DEF d2, n
<1>12. ASSUME NEW h PROVE BrowserOK(b, window, published, Boundary, current_id, FALSE, <<>>, k, d2, r, h)
  <2>1. <<>> \in Seq(Frames(published)) /\ \A i \in 1..Len(<<>>) : FALSE
    OBVIOUS
  <2>2. InOrder(b, window, k, <<>>)
    BY <2>1 DEF InOrder
  <2> QED BY <1>9, <1>10, <1>11, <2>1, <2>2 DEF BrowserOK
<1>13. BrowserOK(b, window, published, Boundary, current_id, b \in linked',
                 inbox'[b], cache'[b], disk'[b], lastSeenId'[b], historyInfo'[b])
  <2>1. b \notin linked'
    BY <1>3
  <2> QED BY <1>4, <1>5, <1>6, <1>12, <2>1, BrowserUnlinked
<1>14. \A p \in BROWSERS \ {b} : p \in linked' => p \in linked
  BY <1>3
<1> QED BY <1>3, <1>4, <1>5, <1>6, <1>7, <1>13, <1>14, OnePage

LEMMA ResponseGood ==
    ASSUME Good, NEW b \in BROWSERS, ResponseArrives(b)
    PROVE  Good'
<1> DEFINE q == inbox[b]
           f == q[1]
           m == f.message
           c == cache[b]
           d == disk[b]
           l == lastSeenId[b]
           e == [c EXCEPT !.recovered = @ \cup {m}]
           k == Capped(e)
           J == b \in linked
           h == historyInfo[b]
<1>1. /\ ServerOK(window, published, boot_start_id, current_id)
      /\ BrowserOK(b, window, published, Boundary, current_id, J, q, c, d, l, h)
      /\ current_id \in Nat
  BY PageIs
<1>2. q # <<>> /\ Head(q).type = "historyResponse" /\ Head(q) = f
      /\ inbox' = [inbox EXCEPT ![b] = Tail(q)]
      /\ UNCHANGED <<server, linked, lastSeenId, historyInfo, requests>>
  BY PageIs DEF ResponseArrives, NextFrame, Consume
<1>3. f.type \notin {"text", "historyInfo"} /\ m \in published /\ m.id < Boundary
  <2>1. f.type = "historyResponse" /\ f \in Frames(published) /\ 1 \in 1..Len(q)
    BY <1>2, PageIs
  <2>2. m \in published
    BY <2>1, FrameIs
  <2> QED BY <1>1, <2>1, <2>2 DEF BrowserOK
<1>4. Only(b, inbox, inbox') /\ inbox'[b] = Tail(q)
  BY <1>2, OnlyIs DEF Good
<1>5. /\ Only(b, historyInfo, historyInfo') /\ Only(b, lastSeenId, lastSeenId')
      /\ historyInfo' \in [BROWSERS -> Nat]
      /\ requests' \in [BROWSERS -> Nat] /\ linked' \subseteq BROWSERS
  BY <1>2, OnlyIs DEF Good
<1>6. CASE ~Imports(b, f)
  <2>1. cache' = cache /\ disk' = disk
    BY <1>2, <1>6 DEF ResponseArrives
  <2>2. BrowserOK(b, window, published, Boundary, current_id, J, Tail(q), c, d, l, h)
    <3> HIDE DEF q, c, d, l, h, J, f
    <3> USE DEF f
    <3> QED BY ONLY <1>1, <1>2, <1>3, BrowserSkips
  <2>3. Only(b, cache, cache') /\ Only(b, disk, disk')
    BY <2>1, OnlyIs DEF Good
  <2> QED BY <1>2, <1>4, <1>5, <2>1, <2>2, <2>3, OnePage
<1>7. CASE Imports(b, f)
  <2>1. PICK saved \in BOOLEAN : SaveMessages(b, e, d.cursor, saved)
    BY <1>2, <1>7 DEF ResponseArrives, Writes
  <2> DEFINE d2 == IF saved THEN [regular |-> k.regular, recovered |-> k.recovered,
                                  cursor |-> d.cursor]
                            ELSE [d EXCEPT !.cursor = d.cursor]
  <2>2. /\ Only(b, cache, cache') /\ cache'[b] = k
        /\ Only(b, disk, disk') /\ disk'[b] = d2
    <3> HIDE DEF e
    <3> QED BY <2>1, SavedIs
  <2>3. b \in m.seen_by /\ m.id \notin Ids(Stored(c))
    BY <1>7 DEF Imports
  <2>4. /\ CacheOK(c) /\ Proper(b, published, Boundary, c) /\ Safe(b, window, l, c)
        /\ DiskOK(d) /\ Proper(b, published, Boundary, d) /\ Safe(b, window, l, d)
        /\ l \in 0..current_id /\ d.cursor \in 0..l
    BY <1>1 DEF BrowserOK
  <2>5. /\ CacheOK(k) /\ Proper(b, published, Boundary, k)
        /\ \A w \in window : Kept(c, w) => Kept(k, w)
        /\ Safe(b, window, l, k)
    <3>1. e = Recovered(c, m)
      BY DEF Recovered
    <3> HIDE DEF m, c, e, l
    <3> QED BY ONLY <1>1, <1>3, <2>3, <2>4, <3>1, RecoveredFits DEF k
  <2> HIDE DEF c, d, l, k, e, h, J
  <2>6. DiskOK(d2) /\ d2.cursor = d.cursor /\ Proper(b, published, Boundary, d2)
        /\ Safe(b, window, l, d2)
    <3>1. saved => Proper(b, published, Boundary, k) /\ Safe(b, window, l, k)
      BY <2>5
    <3>2. ~saved => Proper(b, published, Boundary, d) /\ Safe(b, window, l, d)
      BY <2>4
    <3>3. DiskOK(d) /\ saved \in BOOLEAN
      BY <2>4
    <3>4. d2 = IF saved THEN [regular |-> k.regular, recovered |-> k.recovered,
                              cursor |-> d.cursor]
                        ELSE [d EXCEPT !.cursor = d.cursor]
      OBVIOUS
    <3> HIDE DEF d2
    <3> QED BY ONLY <3>1, <3>2, <3>3, <3>4, DiskIs
  <2> HIDE DEF d2
  <2>7. CacheFits(b, window, published, Boundary, current_id, c, k, d2, l)
    BY <2>4, <2>5, <2>6 DEF CacheFits
  <2>8. BrowserOK(b, window, published, Boundary, current_id, J, Tail(q), k, d2, l, h)
    <3>1. \A w \in window : b \in w.seen_by /\ q[1] = Text(w) => Kept(k, w)
      BY <1>3 DEF Text
    <3>2. q[1].type # "historyInfo"
      BY <1>3
    <3> HIDE DEF q, f, m
    <3> QED BY ONLY <1>1, <1>2, <2>7, <3>1, <3>2, BrowserReads
  <2>9. BrowserOK(b, window, published, Boundary, current_id, b \in linked',
                  inbox'[b], cache'[b], disk'[b], lastSeenId'[b], historyInfo'[b])
    BY <1>2, <1>4, <2>2, <2>8 DEF J, h, l
  <2> QED BY <1>2, <1>4, <1>5, <2>2, <2>9, OnePage
<1> QED BY <1>6, <1>7

LEMMA StartGood ==
    ASSUME Good, NEW b \in BROWSERS, StartHistoryRecovery(b)
    PROVE  Good'
<1> DEFINE before == Min({historyInfo[b], Boundary})
           f == Request(b, requests[b] + 1, before)
<1>1. /\ \/ inbox' = inbox
         \/ inbox' = Broadcast(<<f>>)
      /\ requests' = [requests EXCEPT ![b] = @ + 1]
      /\ UNCHANGED <<server, linked, cache, lastSeenId, disk, historyInfo>>
  BY DEF StartHistoryRecovery
<1>2. f \in Frames(published)
  <2>1. historyInfo[b] \in Nat /\ Boundary \in Nat /\ requests[b] + 1 \in Nat
    BY PageIs DEF Good
  <2>2. before \in Nat
    <3>1. historyInfo[b] \in Int /\ Boundary \in Int
      BY <2>1
    <3>2. before \in {historyInfo[b], Boundary}
      BY ONLY <3>1, MinOfTwo
    <3> QED BY <2>1, <3>2
  <2> HIDE DEF before
  <2> QED BY <2>1, <2>2 DEF Frames
<1>3. f.type = "historyRequest"
  BY DEF Request
<1> HIDE DEF f
<1>4. ASSUME NEW p \in BROWSERS
      PROVE  BrowserOK(p, window, published, Boundary, current_id, p \in linked', inbox'[p],
                       cache'[p], disk'[p], lastSeenId'[p], historyInfo'[p])
  <2>1. BrowserOK(p, window, published, Boundary, current_id, p \in linked, inbox[p],
                  cache[p], disk[p], lastSeenId[p], historyInfo[p])
    BY PageIs
  <2>2. BrowserOK(p, window, published, Boundary, current_id, p \in linked,
                  inbox[p] \o <<f>>, cache[p], disk[p], lastSeenId[p], historyInfo[p])
    <3>1. <<f>> \in Seq(Frames(published)) /\ Len(<<f>>) = 1
      BY <1>2
    <3>2. \A i \in 1..Len(<<f>>) : <<f>>[i] = f
      BY <3>1
    <3>3. \A i \in 1..Len(<<f>>) : <<f>>[i].type \notin {"text", "historyInfo", "historyResponse"}
      BY <1>3, <3>2
    <3> QED BY <2>1, <3>1, <3>3, BrowserIsSent
  <2>3. inbox'[p] = inbox[p] \/ inbox'[p] = inbox[p] \o <<f>>
    BY <1>1 DEF Broadcast
  <2> QED BY <1>1, <2>1, <2>2, <2>3
<1>5. DOMAIN inbox' = BROWSERS
  BY <1>1 DEF Broadcast, Good
<1>6. requests' \in [BROWSERS -> Nat]
  BY <1>1 DEF Good
<1> QED BY <1>1, <1>4, <1>5, <1>6, PagesStep DEF Good

Responses(r, s) == [i \in DOMAIN s |-> Response(r, s[i])]

LEMMA ResponsesAre ==
    ASSUME NEW P, NEW bd, NEW s \in Seq(P), \A i \in 1..Len(s) : s[i].id < bd, NEW r \in Nat
    PROVE  /\ Responses(r, s) \in Seq(Frames(P)) /\ Len(Responses(r, s)) = Len(s)
           /\ \A i \in 1..Len(s) : Responses(r, s)[i] = Response(r, s[i])
           /\ \A i \in 1..Len(Responses(r, s)) :
                 /\ Responses(r, s)[i].type = "historyResponse"
                 /\ Responses(r, s)[i].message.id < bd
<1> DEFINE t == Responses(r, s)
<1>1. Len(s) \in Nat /\ DOMAIN s = 1..Len(s) /\ \A i \in 1..Len(s) : s[i] \in P
  OBVIOUS
<1>2. t = [i \in 1..Len(s) |-> Response(r, s[i])]
  BY <1>1 DEF Responses
<1>3. \A m \in P : Response(r, m) \in Frames(P)
  BY DEF Frames
<1> HIDE DEF t
<1>4. t \in [1..Len(s) -> Frames(P)]
  BY <1>1, <1>2, <1>3
<1>5. t \in Seq(Frames(P)) /\ Len(t) = Len(s)
  BY ONLY <1>1, <1>4
<1>6. \A i \in 1..Len(s) : t[i] = Response(r, s[i])
  BY <1>2
<1>7. \A m : Response(r, m).type = "historyResponse" /\ Response(r, m).message = m
  BY DEF Response
<1>8. ASSUME NEW i \in 1..Len(t) PROVE t[i].type = "historyResponse" /\ t[i].message.id < bd
  <2>1. t[i] = Response(r, s[i]) /\ i \in 1..Len(s)
    BY <1>5, <1>6
  <2>2. t[i].type = "historyResponse" /\ t[i].message = s[i]
    BY <1>7, <2>1
  <2> QED BY <2>1, <2>2
<1> QED BY <1>5, <1>6, <1>8 DEF t

\* Answers to a request, all of them or some, in order of id.
LEMMA AnswersAre ==
    ASSUME Good, NEW b \in BROWSERS, NEW f, NEW S \in SUBSET Answers(b, f)
    PROVE  /\ ById(S) \in Seq(published)
           /\ \A i \in 1..Len(ById(S)) : ById(S)[i].id < Boundary
           /\ \A m \in S : \E i \in 1..Len(ById(S)) : ById(S)[i] = m
<1> DEFINE s == ById(S)
<1>1. Proper(b, published, Boundary, cache[b])
      /\ ServerOK(window, published, boot_start_id, current_id)
  BY PageIs DEF BrowserOK
<1>2. S \subseteq published /\ \A m \in S : m.id < Boundary
  BY <1>1 DEF Answers, Offered, Relayed, Proper
<1>3. IsFiniteSet(S) /\ (\A x \in S : x.id \in Nat) /\ \A x, y \in S : x.id = y.id => x = y
  BY <1>1, <1>2, FS_Subset DEF ServerOK
<1>4. /\ s \in Seq(S) /\ \A m \in S : \E i \in 1..Len(s) : s[i] = m
  BY ONLY <1>3, ByIdIs
<1> HIDE DEF s
<1>5. Len(s) \in Nat /\ s \in [1..Len(s) -> S] /\ \A i \in 1..Len(s) : s[i] \in S
  BY <1>4
<1>6. s \in [1..Len(s) -> published]
  BY <1>2, <1>5
<1>7. s \in Seq(published)
  BY <1>5, <1>6
<1>8. \A i \in 1..Len(s) : s[i].id < Boundary
  BY <1>2, <1>5
<1> QED BY <1>4, <1>7, <1>8 DEF s

\* What the arrival of request f at browser b changes, r being the responses
\* with the answers S.
RequestSends(b, f, S, r) ==
    /\ inbox[b] # <<>> /\ f.type = "historyRequest" /\ f.from \in BROWSERS
    /\ f.request \in Nat /\ f.restore_before_id \in Nat
    /\ r \in Seq(Frames(published)) /\ Len(r) = Len(ById(S))
    /\ \A i \in 1..Len(r) :
          /\ r[i].type = "historyResponse" /\ r[i].message.id < Boundary
          /\ r[i] = Response(f.request, ById(S)[i])
    /\ DOMAIN inbox' = BROWSERS /\ inbox'[b] = Tail(inbox[b])
    /\ \A p \in BROWSERS \ {b} : inbox'[p] = inbox[p] \/ inbox'[p] = inbox[p] \o r
    /\ b # f.from /\ {b, f.from} \subseteq linked => inbox'[f.from] = inbox[f.from] \o r

LEMMA RequestSendsIs ==
    ASSUME Good, NEW b \in BROWSERS, NextFrame(b, "historyRequest"), NEW f, f = inbox[b][1],
           NEW S \in SUBSET Answers(b, f), Relay(b, f, S),
           NEW r, r = Responses(f.request, ById(S))
    PROVE  RequestSends(b, f, S, r)
<1> DEFINE relays == b # f.from /\ {b, f.from} \subseteq linked
<1>1. /\ inbox[b] # <<>> /\ Head(inbox[b]).type = "historyRequest" /\ Head(inbox[b]) = f
      /\ inbox' = [inbox EXCEPT ![b] = Tail(@),
                                ![f.from] = IF relays THEN @ \o r ELSE @]
  BY PageIs DEF Relay, NextFrame, Responses
<1>2. /\ f.type = "historyRequest" /\ f.from \in BROWSERS
      /\ f.request \in Nat /\ f.restore_before_id \in Nat
  BY <1>1, PageIs, FrameIs
<1>3. /\ r \in Seq(Frames(published)) /\ Len(r) = Len(ById(S))
      /\ \A i \in 1..Len(r) :
            /\ r[i].type = "historyResponse" /\ r[i].message.id < Boundary
            /\ r[i] = Response(f.request, ById(S)[i])
  <2> DEFINE s == ById(S)
  <2>1. s \in Seq(published) /\ \A i \in 1..Len(s) : s[i].id < Boundary
    BY AnswersAre
  <2>2. r = Responses(f.request, s) /\ f.request \in Nat
    BY <1>2
  <2> DEFINE k == f.request
             t == Responses(k, s)
  <2> HIDE DEF s, k
  <2>3. /\ t \in Seq(Frames(published)) /\ Len(t) = Len(s)
        /\ \A i \in 1..Len(s) : t[i] = Response(k, s[i])
        /\ \A i \in 1..Len(t) : t[i].type = "historyResponse" /\ t[i].message.id < Boundary
    BY <2>1, <2>2, ResponsesAre DEF k
  <2>4. r = t
    BY DEF s, k
  <2> HIDE DEF t
  <2> QED BY <2>3, <2>4 DEF s, k
<1>4. DOMAIN inbox = BROWSERS
  BY DEF Good
<1>5. /\ DOMAIN inbox' = BROWSERS /\ inbox'[b] = Tail(inbox[b])
      /\ \A p \in BROWSERS \ {b} : inbox'[p] = inbox[p] \/ inbox'[p] = inbox[p] \o r
      /\ relays => inbox'[f.from] = inbox[f.from] \o r
  <2>1. CASE f.from = b
    BY <1>1, <1>4, <2>1
  <2>2. CASE f.from # b
    BY ONLY b \in BROWSERS, <1>1, <1>2, <1>4, <2>2
  <2> QED BY ONLY <2>1, <2>2
<1> QED BY <1>1, <1>2, <1>3, <1>5 DEF RequestSends

LEMMA RequestGood ==
    ASSUME Good, NEW b \in BROWSERS, RequestArrives(b)
    PROVE  Good'
<1>0. inbox[b][1] = Head(inbox[b]) /\ NextFrame(b, "historyRequest")
  BY PageIs DEF RequestArrives, NextFrame
<1> SUFFICES ASSUME NEW f, f = inbox[b][1], NEW S \in SUBSET Answers(b, f),
                    Relay(b, f, S), NEW r, r = Responses(f.request, ById(S))
             PROVE  Good'
  BY <1>0 DEF RequestArrives
<1> DEFINE q == inbox[b]
<1>1. UNCHANGED <<server, linked, page>>
  BY DEF RequestArrives
<1>2. /\ q # <<>> /\ f.type = "historyRequest"
      /\ r \in Seq(Frames(published))
      /\ \A i \in 1..Len(r) : r[i].type = "historyResponse" /\ r[i].message.id < Boundary
      /\ DOMAIN inbox' = BROWSERS /\ inbox'[b] = Tail(q)
      /\ \A p \in BROWSERS \ {b} : inbox'[p] = inbox[p] \/ inbox'[p] = inbox[p] \o r
  <2>1. RequestSends(b, f, S, r)
    BY <1>0, RequestSendsIs
  <2> QED BY <2>1 DEF RequestSends
<1>3. UNCHANGED server /\ linked' = linked /\ cache' = cache /\ lastSeenId' = lastSeenId
      /\ disk' = disk /\ historyInfo' = historyInfo /\ requests' = requests
  BY <1>1 DEF page
<1>4. ASSUME NEW p \in BROWSERS
      PROVE  BrowserOK(p, window, published, Boundary, current_id, p \in linked', inbox'[p],
                       cache'[p], disk'[p], lastSeenId'[p], historyInfo'[p])
  <2>1. BrowserOK(p, window, published, Boundary, current_id, p \in linked, inbox[p],
                  cache[p], disk[p], lastSeenId[p], historyInfo[p])
    BY PageIs
  <2>2. CASE p = b
    <3>1. BrowserOK(b, window, published, Boundary, current_id, b \in linked, Tail(q),
                    cache[b], disk[b], lastSeenId[b], historyInfo[b])
      <4>1. q[1].type \notin {"text", "historyInfo"}
        BY <1>2
      <4>2. BrowserOK(b, window, published, Boundary, current_id, b \in linked, q,
                      cache[b], disk[b], lastSeenId[b], historyInfo[b])
        BY <2>1, <2>2
      <4> HIDE DEF q
      <4> QED BY ONLY <1>2, <4>1, <4>2, BrowserSkips
    <3> QED BY <1>2, <1>3, <2>2, <3>1
  <2>3. CASE p # b
    <3>1. BrowserOK(p, window, published, Boundary, current_id, p \in linked,
                    inbox[p] \o r, cache[p], disk[p], lastSeenId[p], historyInfo[p])
      <4>1. \A i \in 1..Len(r) : r[i].type \notin {"text", "historyInfo"}
        BY <1>2
      <4> QED BY <1>2, <2>1, <4>1, BrowserIsSent
    <3>2. inbox'[p] = inbox[p] \/ inbox'[p] = inbox[p] \o r
      BY <1>2, <2>3
    <3> QED BY <1>3, <2>1, <3>1, <3>2
  <2> QED BY <2>2, <2>3
<1> QED BY <1>2, <1>3, <1>4, PagesStep DEF Good

-----------------------------------------------------------------------------
(* The theorems *)

LEMMA InitIInv == Init => IInv
BY InitGood DEF IInv

LEMMA StepIInv == IInv /\ [Next]_vars => IInv'
<1> SUFFICES ASSUME IInv, [Next]_vars PROVE IInv'
  OBVIOUS
<1>1. CASE UNCHANGED vars
  BY <1>1 DEF IInv, Good, PageOK, Boundary, vars, server, page
<1>2. ASSUME era' = era, Good => Good' PROVE IInv'
  BY <1>2 DEF IInv
<1>3. CASE Chat
  BY <1>2, <1>3, ChatGood DEF Chat
<1>4. CASE Restart
  <2>1. era' = era \/ era' = era + 1
    BY <1>4 DEF Restart
  <2>2. era' \in Nat /\ (era' = 0 => era = 0)
    BY <2>1 DEF IInv
  <2> QED BY <1>4, <2>2, RestartGood DEF IInv
<1>5. ASSUME NEW b \in BROWSERS,
             \/ Break(b) \/ Join(b) \/ Reload(b)
             \/ TextArrives(b) \/ InfoArrives(b) \/ PresenceArrives(b)
             \/ StartHistoryRecovery(b) \/ FinishHistoryRecovery(b)
             \/ RequestArrives(b) \/ ResponseArrives(b)
      PROVE  IInv'
  <2>1. UNCHANGED server
    BY <1>5 DEF Break, Join, Reload, TextArrives, InfoArrives, PresenceArrives,
                StartHistoryRecovery, FinishHistoryRecovery, RequestArrives, ResponseArrives
  <2>2. era' = era
    BY <2>1 DEF server
  <2>3. Good => Good'
    BY <1>5, BreakGood, JoinGood, ReloadGood, TextGood, InfoGood, PresenceGood, StartGood,
       FinishGood, RequestGood, ResponseGood
  <2> QED BY <1>2, <2>2, <2>3
<1> QED BY <1>1, <1>3, <1>4, <1>5 DEF Next

THEOREM SpecIInv == Spec => []IInv
BY InitIInv, StepIInv, PTL DEF Spec

LEMMA GoodCursorSafe == Good => CursorSafe
<1> SUFFICES ASSUME Good, NEW b \in BROWSERS, NEW m \in window, b \in m.seen_by,
                    m.id <= Max({lastSeenId[b], ReloadCursor(disk[b])})
             PROVE  Kept(disk[b], m)
  BY DEF CursorSafe
<1> DEFINE l == lastSeenId[b]
           r == ReloadCursor(disk[b])
<1>1. /\ ServerOK(window, published, boot_start_id, current_id)
      /\ DiskOK(disk[b]) /\ Proper(b, published, Boundary, disk[b])
      /\ Safe(b, window, l, disk[b]) /\ l \in 0..current_id /\ disk[b].cursor \in 0..l
  BY PageIs DEF BrowserOK
<1>2. r \in 0..current_id /\ Safe(b, window, r, disk[b])
  <2> HIDE DEF l
  <2> QED BY ONLY <1>1, ReloadFits
<1>3. Max({l, r}) \in {l, r}
  <2>1. l \in Int /\ r \in Int
    BY <1>1, <1>2
  <2> HIDE DEF l, r
  <2> QED BY <2>1, MaxOfTwo
<1>4. m.id <= l \/ m.id <= r
  BY <1>3
<1> QED BY <1>1, <1>2, <1>4 DEF Safe, Behind

\* As long as the flash was never erased, no cursor passes a message that the
\* server could still replay and the disk does not hold, whichever writes fail
\* and whenever pages are reloaded.
THEOREM CursorSafeHolds == Spec => [](era = 0 => CursorSafe)
<1>1. IInv => (era = 0 => CursorSafe)
  BY GoodCursorSafe DEF IInv
<1> QED BY <1>1, SpecIInv, PTL

LEMMA GoodNothingHidden == Good => NothingHidden
<1> SUFFICES ASSUME Good, NEW b \in linked, inbox[b] = <<>>,
                    NEW m \in published, b \in m.seen_by
             PROVE  Kept(cache[b], m) \/ m.id < historyInfo[b]
  BY DEF NothingHidden
<1>1. b \in BROWSERS
  BY DEF Good
<1>2. Len(inbox[b]) = 0 /\ \A i \in 1..Len(inbox[b]) : FALSE
  OBVIOUS
<1>3. /\ ServerOK(window, published, boot_start_id, current_id)
      /\ Complete(b, window, cache[b], inbox[b])
      /\ Heard(inbox[b], historyInfo[b], Boundary)
      /\ current_id \in Nat /\ Boundary \in 1..(current_id + 1)
  BY <1>1, PageIs DEF BrowserOK
<1>4. historyInfo[b] = Boundary
  BY <1>2, <1>3 DEF Heard
<1>5. CASE m \in window
  <2>1. Ready(m, cache[b], inbox[b], Len(inbox[b]))
    BY <1>3, <1>5 DEF Complete
  <2>2. \A j \in 1..Len(inbox[b]) : inbox[b][j] # Text(m)
    BY <1>2
  <2> QED BY <2>1, <2>2 DEF Ready
<1>6. CASE m \notin window
  <2>1. m \in window <=> Boundary <= m.id
    BY ONLY <1>3, m \in published, BoundaryIs DEF Boundary
  <2>2. m.id \in Nat
    BY <1>3 DEF ServerOK
  <2> QED BY <1>3, <1>4, <1>6, <2>1, <2>2
<1> QED BY <1>5, <1>6

\* As long as the flash was never erased, a browser that read all it was sent
\* has every message it may see or knows a boundary above it.
THEOREM NothingHiddenHolds == Spec => [](era = 0 => NothingHidden)
<1>1. IInv => (era = 0 => NothingHidden)
  BY GoodNothingHidden DEF IInv
<1> QED BY <1>1, SpecIInv, PTL

LEMMA GoodRecoveredIsHistory == Good => RecoveredIsHistory
<1> SUFFICES ASSUME Good, NEW b \in BROWSERS, NEW c \in {cache[b], Snapshot(disk[b])},
                    NEW m \in c.recovered
             PROVE  /\ m \in published /\ b \in m.seen_by
                    /\ \A w \in window : m.id < w.id
                    /\ m.id \notin Ids(c.regular)
  BY DEF RecoveredIsHistory
<1>1. /\ ServerOK(window, published, boot_start_id, current_id)
      /\ Proper(b, published, Boundary, cache[b]) /\ Proper(b, published, Boundary, disk[b])
      /\ current_id \in Nat /\ Boundary \in 1..(current_id + 1)
  BY PageIs DEF BrowserOK
<1>2. Proper(b, published, Boundary, c)
  BY <1>1 DEF Snapshot, Proper, Stored
<1>3. m \in published /\ b \in m.seen_by /\ m.id < Boundary /\ m.id \notin Ids(c.regular)
  BY <1>2 DEF Proper, Stored
<1>4. ASSUME NEW w \in window PROVE m.id < w.id
  <2>1. w \in published /\ w.id \in Nat /\ m.id \in Nat
    BY <1>1, <1>3 DEF ServerOK
  <2>2. w \in window <=> Boundary <= w.id
    BY ONLY <1>1, <2>1, BoundaryIs DEF Boundary
  <2> QED BY <1>1, <1>3, <2>1, <2>2
<1> QED BY <1>3, <1>4

\* As long as the flash was never erased, what a browser recovered was sent,
\* may be seen by it, is older than all the server replays, and is no duplicate.
THEOREM RecoveredIsHistoryHolds == Spec => [](era = 0 => RecoveredIsHistory)
<1>1. IInv => (era = 0 => RecoveredIsHistory)
  BY GoodRecoveredIsHistory DEF IInv
<1> QED BY <1>1, SpecIInv, PTL

-----------------------------------------------------------------------------
(* Recovery: the size of a cache *)

\* The newest n messages are n.
LEMMA NewestCount ==
    ASSUME NEW S, IsFiniteSet(S), \A x \in S : x.id \in Nat,
           \A x, y \in S : x.id = y.id => x = y, NEW n \in Nat, n <= Cardinality(S)
    PROVE  Cardinality(Newest(S, n)) = n
<1> DEFINE size == Cardinality(S)
           rank == [m \in S |-> Cardinality(Above(S, m.id))]
           N == Newest(S, n)
           part == [m \in N |-> rank[m]]
<1>1. size \in Nat
  BY FS_CardinalityType
<1>2. ASSUME NEW m \in S
      PROVE  Cardinality(Above(S, m.id)) \in Nat /\ Cardinality(Above(S, m.id)) < size
  <2>1. Above(S, m.id) \in SUBSET S /\ m \notin Above(S, m.id)
    BY DEF Above
  <2>2. Above(S, m.id) # S
    BY <2>1
  <2> QED BY <2>1, <2>2, <1>1, FS_Subset, FS_CardinalityType
<1>3. rank \in [S -> 0..(size - 1)] /\ \A m \in S : rank[m] = Cardinality(Above(S, m.id))
  <2>1. \A m \in S : Cardinality(Above(S, m.id)) \in 0..(size - 1)
    BY <1>1, <1>2
  <2> QED BY <2>1
<1> HIDE DEF rank
<1>4. ASSUME NEW x \in S, NEW y \in S, x.id < y.id PROVE rank[y] < rank[x]
  <2>1. Above(S, y.id) \in SUBSET Above(S, x.id) /\ y \in Above(S, x.id)
        /\ y \notin Above(S, y.id)
    BY <1>4 DEF Above
  <2>2. Above(S, y.id) # Above(S, x.id)
    BY <2>1
  <2>3. IsFiniteSet(Above(S, x.id))
    BY AboveIs
  <2>4. Cardinality(Above(S, y.id)) < Cardinality(Above(S, x.id))
    BY <1>2, <2>1, <2>2, <2>3, FS_Subset
  <2> QED BY <1>3, <2>4
<1>5. \A x, y \in S : rank[x] = rank[y] => x = y
  <2> SUFFICES ASSUME NEW x \in S, NEW y \in S, rank[x] = rank[y], x # y PROVE FALSE
    OBVIOUS
  <2>1. x.id < y.id \/ y.id < x.id
    OBVIOUS
  <2>2. rank[x] \in Nat /\ rank[y] \in Nat
    BY <1>1, <1>3
  <2> QED BY <1>4, <2>1, <2>2
<1>6. ASSUME NEW i \in 0..(size - 1) PROVE \E m \in S : rank[m] = i
  <2>1. rank \in Injection(S, 0..(size - 1))
    BY <1>3, <1>5, Fun_IsInj
  <2>2. IsFiniteSet(0..(size - 1)) /\ Cardinality(0..(size - 1)) = size
    BY <1>1, FS_Interval
  <2>3. rank \in Surjection(S, 0..(size - 1))
    BY <2>1, <2>2, FS_Injection DEF size
  <2> QED BY <2>3 DEF Surjection
<1>7. N \subseteq S /\ \A m \in S : m \in N <=> rank[m] < n
  BY <1>3 DEF Newest, Above
<1> HIDE DEF N
<1>8. part \in [N -> 0..(n - 1)] /\ \A m \in N : part[m] = rank[m]
  <2>1. \A m \in N : rank[m] \in 0..(n - 1)
    BY <1>1, <1>3, <1>7
  <2> QED BY <2>1
<1> HIDE DEF part
<1>9. part \in Injection(N, 0..(n - 1))
  <2>1. \A x, y \in N : part[x] = part[y] => x = y
    BY <1>5, <1>7, <1>8
  <2> QED BY <1>8, <2>1, Fun_IsInj
<1>10. ASSUME NEW i \in 0..(n - 1) PROVE \E m \in N : part[m] = i
  <2>1. i \in 0..(size - 1)
    BY <1>1
  <2>2. PICK m \in S : rank[m] = i
    BY <1>6, <2>1
  <2> QED BY <1>7, <1>8, <2>2
<1>11. part \in Surjection(N, 0..(n - 1))
  BY <1>8, <1>10, Fun_IsSurj
<1>12. IsFiniteSet(0..(n - 1)) /\ Cardinality(0..(n - 1)) = n
  BY FS_Interval
<1> QED BY <1>9, <1>11, <1>12, FS_Injection DEF N

LEMMA DisjointCount ==
    ASSUME NEW S, NEW T, IsFiniteSet(S), IsFiniteSet(T), S \cap T = {}
    PROVE  Cardinality(S \cup T) = Cardinality(S) + Cardinality(T)
<1>1. Cardinality(S \cup T) = Cardinality(S) + Cardinality(T) - Cardinality(S \cap T)
  BY FS_Union
<1>2. Cardinality(S \cap T) = 0
  BY FS_EmptySet
<1>3. Cardinality(S) \in Nat /\ Cardinality(T) \in Nat
  BY FS_CardinalityType
<1> QED BY <1>1, <1>2, <1>3

Full(c) == Cardinality(Stored(c)) = MAX_LOCAL_MESSAGES
Holds(c, m) == m.id \in Ids(Stored(c)) \/ Full(c)

\* A cache over its limit is capped to the limit.
LEMMA CappedFull ==
    ASSUME NEW e, CacheOK(e), IsFiniteSet(e.regular), IsFiniteSet(e.recovered),
           \A x \in Stored(e) : x.id \in Nat,
           \A x, y \in Stored(e) : x.id = y.id => x = y,
           e.regular \cap e.recovered = {}
    PROVE  \/ Capped(e) = e /\ Cardinality(Stored(e)) <= MAX_LOCAL_MESSAGES
           \/ Full(Capped(e))
<1> DEFINE live == Cardinality(e.regular)
           back == Cardinality(e.recovered)
           free == Max({MAX_LOCAL_MESSAGES - back, Half})
           slots == Min({live, free})
           R == Newest(e.regular, slots)
           B == Newest(e.recovered, MAX_LOCAL_MESSAGES - slots)
<1>1. live \in Nat /\ back \in Nat
  BY FS_CardinalityType
<1>2. MAX_LOCAL_MESSAGES \in Nat /\ Half \in 1..MAX_LOCAL_MESSAGES
  BY Facts
<1>3. Capped(e) = IF live + back <= MAX_LOCAL_MESSAGES THEN e
                  ELSE [regular |-> R, recovered |-> B]
  BY DEF Capped
<1>4. CASE live + back <= MAX_LOCAL_MESSAGES
  <2>1. Cardinality(Stored(e)) = live + back
    BY DisjointCount DEF Stored
  <2> QED BY <1>3, <1>4, <2>1
<1>5. CASE ~ (live + back <= MAX_LOCAL_MESSAGES)
  <2>0. Capped(e) = [regular |-> R, recovered |-> B]
    BY <1>3, <1>5
  <2> DEFINE rest == MAX_LOCAL_MESSAGES - slots
  <2>1. slots \in 0..live /\ rest \in 0..back /\ slots + rest = MAX_LOCAL_MESSAGES
    <3> HIDE DEF live, back
    <3>1. MAX_LOCAL_MESSAGES - back \in Int /\ Half \in Int
      BY <1>1, <1>2
    <3>2. free \in {MAX_LOCAL_MESSAGES - back, Half} /\ free >= Half
      BY <3>1, MaxOfTwo
    <3> HIDE DEF free
    <3>3. live \in Int /\ free \in Int
      BY <1>1, <3>1, <3>2
    <3>4. slots \in {live, free} /\ slots <= live /\ slots <= free
      BY <3>3, MinOfTwo
    <3>5. free >= MAX_LOCAL_MESSAGES - back
      BY <3>1, MaxOfTwo DEF free
    <3> HIDE DEF slots
    <3>6. CASE slots = free /\ free = MAX_LOCAL_MESSAGES - back
      BY <1>1, <1>2, <1>5, <3>2, <3>4, <3>6
    <3>7. CASE slots = free /\ free = Half
      BY <1>1, <1>2, <1>5, <3>4, <3>5, <3>7
    <3>8. CASE slots = live
      <4>1. free = Half
        BY <1>1, <1>2, <1>5, <3>2, <3>4, <3>8
      <4> QED BY <1>1, <1>2, <1>5, <3>4, <3>8, <4>1
    <3> QED BY <3>2, <3>4, <3>6, <3>7, <3>8
  <2> HIDE DEF slots
  <2>2. Cardinality(R) = slots
    <3>1. (\A x \in e.regular : x.id \in Nat)
          /\ \A x, y \in e.regular : x.id = y.id => x = y
      BY DEF Stored
    <3>2. slots \in Nat /\ slots <= Cardinality(e.regular)
      BY <1>1, <2>1
    <3> QED BY <3>1, <3>2, NewestCount
  <2>3. Cardinality(B) = rest
    <3>1. (\A x \in e.recovered : x.id \in Nat)
          /\ \A x, y \in e.recovered : x.id = y.id => x = y
      BY DEF Stored
    <3>2. rest \in Nat /\ rest <= Cardinality(e.recovered)
      BY <1>1, <2>1
    <3> HIDE DEF rest
    <3>3. Cardinality(Newest(e.recovered, rest)) = rest
      BY <3>1, <3>2, NewestCount
    <3> QED BY <3>3 DEF rest
  <2>4. R \in SUBSET e.regular /\ B \in SUBSET e.recovered
    BY DEF Newest
  <2>5. IsFiniteSet(R) /\ IsFiniteSet(B) /\ R \cap B = {}
    BY <2>4, FS_Subset
  <2>6. Stored(Capped(e)) = R \cup B
    BY <2>0 DEF Stored
  <2> HIDE DEF R, B, rest
  <2>7. Cardinality(R \cup B) = slots + rest
    BY <2>2, <2>3, <2>5, DisjointCount
  <2> QED BY <2>1, <2>6, <2>7 DEF Full
<1> QED BY <1>4, <1>5

\* What a cache held, or was full, it is after it took more.
LEMMA HoldsGrows ==
    ASSUME NEW W, NEW P, NEW boot, NEW cur, ServerOK(W, P, boot, cur), NEW b, NEW bd,
           NEW c, NEW e, CacheOK(e), Proper(b, P, bd, e), Stored(c) \subseteq Stored(e),
           NEW m, Holds(c, m) \/ m \in Stored(e)
    PROVE  Holds(Capped(e), m)
<1>1. IsFiniteSet(P) /\ cur \in Nat /\ (\A x \in P : x.id \in 1..cur)
      /\ \A x, y \in P : x.id = y.id => x = y
  BY DEF ServerOK
<1>2. e.regular \in SUBSET P /\ e.recovered \in SUBSET P /\ Stored(e) \in SUBSET P
  BY DEF Proper, Stored
<1>3. IsFiniteSet(e.regular) /\ IsFiniteSet(e.recovered) /\ IsFiniteSet(Stored(e))
  BY <1>1, <1>2, FS_Subset
<1>4. e.regular \cap e.recovered = {}
  BY DEF Proper, Ids
<1>5. (\A x \in Stored(e) : x.id \in Nat) /\ \A x, y \in Stored(e) : x.id = y.id => x = y
  BY <1>1, <1>2
<1>6. CASE Full(Capped(e))
  BY <1>6 DEF Holds
<1>7. CASE Capped(e) = e /\ Cardinality(Stored(e)) <= MAX_LOCAL_MESSAGES
  <2>1. CASE Full(c)
    <3>1. Cardinality(Stored(c)) <= Cardinality(Stored(e)) /\ Cardinality(Stored(e)) \in Nat
      BY <1>3, FS_Subset, FS_CardinalityType
    <3>2. Full(e)
      BY <1>7, <2>1, <3>1, Facts DEF Full
    <3> QED BY <1>7, <3>2 DEF Holds
  <2>2. CASE m.id \in Ids(Stored(c)) \/ m \in Stored(e)
    BY <1>7, <2>2 DEF Holds, Ids
  <2> QED BY <2>1, <2>2 DEF Holds
<1> QED BY <1>3, <1>4, <1>5, <1>6, <1>7, CappedFull

-----------------------------------------------------------------------------
(* Recovery: who was asked what, and who answered *)

\* The messages of q from the i-th frame on have id n at least.
TextsFrom(q, i, n) == \A j \in i..Len(q) : q[j].type = "text" => n <= q[j].message.id

\* A request on its way was made, lies below the boundary, and is the active
\* one only with the boundary it was made with.
RequestOK(f, bd, reqs, active) ==
    /\ f.request \in 1..reqs[f.from] /\ f.restore_before_id <= bd
    /\ active[f.from].request = f.request => active[f.from].before = f.restore_before_id

\* No boundary on its way is ahead; messages after a request lie above it.
QueueOK(q, bd, reqs, active) ==
    \A i \in 1..Len(q) :
        /\ q[i].type = "historyInfo" => q[i].restore_before_id <= bd
        /\ q[i].type = "historyRequest" =>
              /\ RequestOK(q[i], bd, reqs, active)
              /\ TextsFrom(q, i + 1, q[i].restore_before_id)

\* A browser with frames qp and cache cp gave all it has for recovery a of
\* browser b, whose frames and cache are qb and cb.
Gave(b, a, qp, cp, cb, qb) ==
    /\ TextsFrom(qp, 1, a.before)
    /\ \A m \in cp.regular : (b \in m.seen_by /\ m.id < a.before) =>
          Holds(cb, m) \/ \E j \in 1..Len(qb) : qb[j] = Response(a.request, m)

\* The recovery of browser b and those who answered it.
AskerOK(b) ==
    /\ activeRecovery[b] = [request |-> activeRecovery[b].request,
                            before |-> activeRecovery[b].before]
    /\ activeRecovery[b].request \in 0..requests[b]
    /\ activeRecovery[b].before \in 0..Boundary
    /\ historyInfo[b] <= Boundary
    /\ activeRecovery[b] = NoRecovery => answered[b] = {}
    /\ answered[b] \subseteq BROWSERS \ {b}

GaveAll(b, p) == Gave(b, activeRecovery[b], inbox[p], cache[p], cache[b], inbox[b])

Rec ==
    /\ DOMAIN activeRecovery = BROWSERS /\ DOMAIN answered = BROWSERS
    /\ \A b \in BROWSERS : AskerOK(b)
    /\ \A b \in BROWSERS : QueueOK(inbox[b], Boundary, requests, activeRecovery)
    /\ \A b \in BROWSERS : \A p \in answered[b] : GaveAll(b, p)

\* Frames that may be on their way carry numbers.
LEMMA FrameNumbers ==
    ASSUME NEW W, NEW P, NEW boot, NEW cur, ServerOK(W, P, boot, cur),
           NEW q \in Seq(Frames(P)), NEW i \in 1..Len(q)
    PROVE  /\ q[i].type = "text" => q[i].message \in P /\ q[i].message.id \in 1..cur
           /\ q[i].type = "historyInfo" => q[i].restore_before_id \in Nat
           /\ q[i].type = "historyRequest" =>
                 /\ q[i].from \in BROWSERS /\ q[i].request \in Nat
                 /\ q[i].restore_before_id \in Nat
<1>1. q[i] \in Frames(P)
  OBVIOUS
<1> QED BY <1>1, FrameIs DEF ServerOK

\* Reading a frame.
LEMMA QueueReads ==
    ASSUME NEW P, NEW q \in Seq(Frames(P)), q # <<>>, NEW bd, NEW reqs, NEW active,
           QueueOK(q, bd, reqs, active)
    PROVE  /\ QueueOK(Tail(q), bd, reqs, active)
           /\ \A n : TextsFrom(q, 1, n) => TextsFrom(Tail(q), 1, n)
           /\ q[1].type = "historyRequest" =>
                 RequestOK(q[1], bd, reqs, active)
                    /\ TextsFrom(Tail(q), 1, q[1].restore_before_id)
<1>1. Len(q) \in Nat \ {0} /\ Len(Tail(q)) = Len(q) - 1 /\ 1 \in 1..Len(q)
  OBVIOUS
<1>2. \A i \in 1..Len(Tail(q)) : i + 1 \in 1..Len(q) /\ Tail(q)[i] = q[i + 1]
  BY <1>1
<1>3. ASSUME NEW i \in Nat, NEW n, TextsFrom(q, i + 1, n), 1 <= i PROVE TextsFrom(Tail(q), i, n)
  <2> SUFFICES ASSUME NEW j \in i..Len(Tail(q)), Tail(q)[j].type = "text"
               PROVE  n <= Tail(q)[j].message.id
    BY DEF TextsFrom
  <2>1. j \in 1..Len(Tail(q)) /\ j + 1 \in (i + 1)..Len(q)
    BY <1>1, <1>3
  <2>2. Tail(q)[j] = q[j + 1]
    BY <1>2, <2>1
  <2> QED BY <1>3, <2>1, <2>2 DEF TextsFrom
<1>4. ASSUME NEW n, TextsFrom(q, 1, n) PROVE TextsFrom(Tail(q), 1, n)
  <2>1. \A j \in (1 + 1)..Len(q) : j \in 1..Len(q)
    BY <1>1
  <2>2. TextsFrom(q, 1 + 1, n)
    BY <1>4, <2>1 DEF TextsFrom
  <2> QED BY <1>3, <2>2
<1>5. ASSUME NEW i \in 1..Len(Tail(q))
      PROVE  /\ Tail(q)[i].type = "historyInfo" => Tail(q)[i].restore_before_id <= bd
             /\ Tail(q)[i].type = "historyRequest" =>
                   /\ RequestOK(Tail(q)[i], bd, reqs, active)
                   /\ TextsFrom(Tail(q), i + 1, Tail(q)[i].restore_before_id)
  <2>1. i + 1 \in 1..Len(q) /\ Tail(q)[i] = q[i + 1] /\ i + 1 \in Nat /\ 1 <= i + 1
    BY <1>1, <1>2
  <2>2. q[i + 1].type = "historyRequest" => TextsFrom(q, (i + 1) + 1, q[i + 1].restore_before_id)
    BY <2>1 DEF QueueOK
  <2>3. q[i + 1].type = "historyRequest" => TextsFrom(Tail(q), i + 1, q[i + 1].restore_before_id)
    BY <1>3, <2>1, <2>2
  <2> QED BY <2>1, <2>3 DEF QueueOK
<1>6. QueueOK(Tail(q), bd, reqs, active)
  BY <1>5 DEF QueueOK
<1>7. q[1].type = "historyRequest" =>
         RequestOK(q[1], bd, reqs, active) /\ TextsFrom(q, 1 + 1, q[1].restore_before_id)
  BY <1>1 DEF QueueOK
<1>8. q[1].type = "historyRequest" => TextsFrom(Tail(q), 1, q[1].restore_before_id)
  BY <1>3, <1>7
<1> QED BY <1>4, <1>6, <1>7, <1>8

\* Sending frames: boundaries not ahead, requests in order, messages above.
LEMMA QueueGrows ==
    ASSUME NEW P, NEW q \in Seq(Frames(P)), NEW r \in Seq(Frames(P)), NEW W, NEW boot, NEW cur,
           ServerOK(W, P, boot, cur), NEW bd \in Nat, NEW reqs, NEW active,
           QueueOK(q, bd, reqs, active),
           \A i \in 1..Len(r) :
              /\ r[i].type = "historyInfo" => r[i].restore_before_id <= bd
              /\ r[i].type = "historyRequest" => RequestOK(r[i], bd, reqs, active)
              /\ r[i].type = "text" => bd <= r[i].message.id
    PROVE  /\ QueueOK(q \o r, bd, reqs, active)
           /\ \A n \in Nat : (n <= bd /\ TextsFrom(q, 1, n)) => TextsFrom(q \o r, 1, n)
<1>1. Len(q) \in Nat /\ Len(r) \in Nat /\ Len(q \o r) = Len(q) + Len(r) /\ q \o r \in Seq(Frames(P))
  OBVIOUS
<1>2. \A i \in 1..Len(q) : (q \o r)[i] = q[i] /\ i \in 1..Len(q \o r)
  BY <1>1
<1>3. ASSUME NEW i \in 1..Len(q \o r), ~ (i <= Len(q))
      PROVE  i - Len(q) \in 1..Len(r) /\ (q \o r)[i] = r[i - Len(q)]
  BY <1>1, <1>3
<1>4. ASSUME NEW n \in Nat, n <= bd, NEW i \in Nat, 1 <= i, TextsFrom(q, i, n)
      PROVE  TextsFrom(q \o r, i, n)
  <2> SUFFICES ASSUME NEW j \in i..Len(q \o r), (q \o r)[j].type = "text"
               PROVE  n <= (q \o r)[j].message.id
    BY DEF TextsFrom
  <2>1. j \in 1..Len(q \o r)
    BY <1>1, <1>4
  <2>2. CASE j <= Len(q)
    <3>1. j \in 1..Len(q) /\ j \in i..Len(q)
      BY <2>1, <2>2, <1>1
    <3>2. (q \o r)[j] = q[j]
      BY <1>2, <3>1
    <3> QED BY <1>4, <3>1, <3>2 DEF TextsFrom
  <2>3. CASE ~ (j <= Len(q))
    <3>1. bd <= (q \o r)[j].message.id
      BY <1>3, <2>1, <2>3
    <3>2. (q \o r)[j].message.id \in 1..cur
      BY <1>1, <2>1, FrameNumbers
    <3>3. cur \in Nat
      BY DEF ServerOK
    <3> QED BY <1>4, <3>1, <3>2, <3>3
  <2> QED BY <2>2, <2>3
<1>5. ASSUME NEW i \in 1..Len(q \o r)
      PROVE  /\ (q \o r)[i].type = "historyInfo" => (q \o r)[i].restore_before_id <= bd
             /\ (q \o r)[i].type = "historyRequest" =>
                   /\ RequestOK((q \o r)[i], bd, reqs, active)
                   /\ TextsFrom(q \o r, i + 1, (q \o r)[i].restore_before_id)
  <2>1. (q \o r)[i].type = "historyRequest" => (q \o r)[i].restore_before_id \in Nat
    BY <1>1, FrameNumbers
  <2>2. CASE i <= Len(q)
    <3>1. i \in 1..Len(q) /\ (q \o r)[i] = q[i] /\ i + 1 \in Nat /\ 1 <= i + 1
      BY <1>1, <1>2, <2>2
    <3>2. q[i].type = "historyRequest" =>
             /\ RequestOK(q[i], bd, reqs, active) /\ q[i].restore_before_id <= bd
             /\ TextsFrom(q, i + 1, q[i].restore_before_id)
      BY <3>1 DEF QueueOK, RequestOK
    <3>3. q[i].type = "historyRequest" => TextsFrom(q \o r, i + 1, q[i].restore_before_id)
      BY <1>4, <2>1, <3>1, <3>2
    <3> QED BY <3>1, <3>2, <3>3 DEF QueueOK
  <2>3. CASE ~ (i <= Len(q))
    <3>1. i - Len(q) \in 1..Len(r) /\ (q \o r)[i] = r[i - Len(q)]
      BY <1>3, <2>3
    <3>2. (q \o r)[i].type = "historyRequest" =>
             RequestOK((q \o r)[i], bd, reqs, active) /\ (q \o r)[i].restore_before_id <= bd
      BY <3>1 DEF RequestOK
    <3>3. TextsFrom(q, i + 1, (q \o r)[i].restore_before_id)
      <4>1. \A j \in (i + 1)..Len(q) : FALSE
        BY <1>1, <2>3
      <4> QED BY <4>1 DEF TextsFrom
    <3>4. (q \o r)[i].type = "historyRequest" =>
             TextsFrom(q \o r, i + 1, (q \o r)[i].restore_before_id)
      <4>1. i + 1 \in Nat /\ 1 <= i + 1
        BY <1>1
      <4> QED BY <1>4, <2>1, <3>2, <3>3, <4>1
    <3> QED BY <3>1, <3>2, <3>4
  <2> QED BY <2>2, <2>3
<1>6. QueueOK(q \o r, bd, reqs, active)
  BY <1>5 DEF QueueOK
<1>7. \A n \in Nat : (n <= bd /\ TextsFrom(q, 1, n)) => TextsFrom(q \o r, 1, n)
  <2>1. 1 \in Nat /\ 1 <= 1
    OBVIOUS
  <2> QED BY <1>4, <2>1
<1> QED BY <1>6, <1>7

\* A queue stays in order when the boundary rises and recoveries go on.
LEMMA QueueStays ==
    ASSUME NEW q, NEW bd, NEW reqs, NEW active, QueueOK(q, bd, reqs, active),
           NEW bd2, NEW reqs2, NEW active2,
           \A i \in 1..Len(q) : q[i].type = "historyInfo" =>
              q[i].restore_before_id <= bd2,
           \A i \in 1..Len(q) : q[i].type = "historyRequest" =>
              RequestOK(q[i], bd2, reqs2, active2)
    PROVE  QueueOK(q, bd2, reqs2, active2)
BY DEF QueueOK

\* A step of browser p that can take nothing from a recovery: no older message
\* is on its way, its cache holds what it held, no older live message is new in
\* it, and no answer is lost.
QueueCalm(p) ==
    \A n \in Nat : (n <= Boundary /\ TextsFrom(inbox[p], 1, n)) => TextsFrom(inbox'[p], 1, n)
LiveCalm(p) ==
    \A m \in cache'[p].regular :
        m \in cache[p].regular \/ \A n \in Nat : TextsFrom(inbox[p], 1, n) => ~ (m.id < n)
HeldCalm(p) == \A m : Holds(cache[p], m) => Holds(cache'[p], m)
AnswersCalm(p) ==
    \A m : /\ p \in m.seen_by /\ m.id < activeRecovery[p].before
           /\ \E j \in 1..Len(inbox[p]) : inbox[p][j] = Response(activeRecovery[p].request, m)
        => \/ Holds(cache'[p], m)
           \/ \E j \in 1..Len(inbox'[p]) : inbox'[p][j] = Response(activeRecovery[p].request, m)
Calm(p) == QueueCalm(p) /\ LiveCalm(p) /\ HeldCalm(p) /\ AnswersCalm(p)

LEMMA GaveCalm ==
    ASSUME Good, Rec, NEW b \in BROWSERS, NEW p \in answered[b],
           QueueCalm(p), LiveCalm(p), HeldCalm(b), AnswersCalm(b),
           activeRecovery'[b] = activeRecovery[b]
    PROVE  GaveAll(b, p)'
<1> DEFINE a == activeRecovery[b]
<1>1. a.before \in Nat /\ a.before <= Boundary
  <2>1. a.before \in 0..Boundary /\ Boundary \in Nat
    BY PageIs DEF Rec, AskerOK
  <2> QED BY <2>1
<1>2. Gave(b, a, inbox[p], cache[p], cache[b], inbox[b])
  BY DEF Rec, GaveAll
<1>3. TextsFrom(inbox'[p], 1, a.before)
  BY <1>1, <1>2 DEF Gave, QueueCalm
<1>4. ASSUME NEW m \in cache'[p].regular, b \in m.seen_by, m.id < a.before
      PROVE  \/ Holds(cache'[b], m)
             \/ \E j \in 1..Len(inbox'[b]) : inbox'[b][j] = Response(a.request, m)
  <2>1. m \in cache[p].regular
    BY <1>1, <1>2, <1>4 DEF LiveCalm, Gave
  <2>2. \/ Holds(cache[b], m)
        \/ \E j \in 1..Len(inbox[b]) : inbox[b][j] = Response(a.request, m)
    BY <1>2, <1>4, <2>1 DEF Gave
  <2> QED BY <1>4, <2>2 DEF HeldCalm, AnswersCalm
<1>5. Gave(b, a, inbox'[p], cache'[p], cache'[b], inbox'[b])
  BY <1>3, <1>4 DEF Gave
<1> QED BY <1>5 DEF GaveAll

LEMMA RecStep ==
    ASSUME Good, Rec, DOMAIN activeRecovery' = BROWSERS, DOMAIN answered' = BROWSERS,
           \A b \in BROWSERS : AskerOK(b)',
           \A b \in BROWSERS : QueueOK(inbox'[b], Boundary', requests', activeRecovery'),
           \A b \in BROWSERS : \A p \in answered'[b] :
              \/ GaveAll(b, p)'
              \/ /\ p \in answered[b] /\ activeRecovery'[b] = activeRecovery[b]
                 /\ QueueCalm(p) /\ LiveCalm(p) /\ HeldCalm(b) /\ AnswersCalm(b)
    PROVE  Rec'
<1>1. ASSUME NEW b \in BROWSERS, NEW p \in answered'[b] PROVE GaveAll(b, p)'
  BY GaveCalm
<1> QED BY <1>1 DEF Rec

LEMMA CalmSame ==
    ASSUME NEW p, inbox'[p] = inbox[p], cache'[p] = cache[p]
    PROVE  Calm(p)
BY DEF Calm, QueueCalm, LiveCalm, HeldCalm, AnswersCalm

LEMMA CalmSent ==
    ASSUME Good, NEW p \in BROWSERS, cache'[p] = cache[p],
           NEW P, NEW W, NEW boot, NEW cur, ServerOK(W, P, boot, cur), published \subseteq P,
           NEW bd \in Nat, Boundary <= bd, NEW reqs, NEW active,
           QueueOK(inbox[p], bd, reqs, active), NEW r \in Seq(Frames(P)),
           \A i \in 1..Len(r) :
              /\ r[i].type = "historyInfo" => r[i].restore_before_id <= bd
              /\ r[i].type = "historyRequest" => RequestOK(r[i], bd, reqs, active)
              /\ r[i].type = "text" => bd <= r[i].message.id,
           inbox'[p] = inbox[p] \o r
    PROVE  Calm(p) /\ QueueOK(inbox'[p], bd, reqs, active)
<1>1. inbox[p] \in Seq(Frames(published)) /\ Boundary \in Nat
  BY PageIs DEF BrowserOK
<1>2. inbox[p] \in Seq(Frames(P))
  BY <1>1, FramesGrow
<1>3. /\ QueueOK(inbox'[p], bd, reqs, active)
      /\ \A n \in Nat : (n <= bd /\ TextsFrom(inbox[p], 1, n)) => TextsFrom(inbox'[p], 1, n)
  <2> DEFINE q == inbox[p]
  <2>1. q \in Seq(Frames(P)) /\ QueueOK(q, bd, reqs, active)
    BY <1>2
  <2> HIDE DEF q
  <2>2. /\ QueueOK(q \o r, bd, reqs, active)
        /\ \A n \in Nat : (n <= bd /\ TextsFrom(q, 1, n)) => TextsFrom(q \o r, 1, n)
    BY <2>1, QueueGrows
  <2> QED BY <2>2 DEF q
<1>4. QueueCalm(p)
  BY <1>1, <1>3 DEF QueueCalm
<1>5. AnswersCalm(p)
  <2> SUFFICES ASSUME NEW m, NEW j \in 1..Len(inbox[p]),
                      inbox[p][j] = Response(activeRecovery[p].request, m)
               PROVE  \E i \in 1..Len(inbox'[p]) :
                         inbox'[p][i] = Response(activeRecovery[p].request, m)
    BY DEF AnswersCalm
  <2>1. Len(inbox[p]) \in Nat /\ Len(r) \in Nat /\ Len(inbox'[p]) = Len(inbox[p]) + Len(r)
    BY <1>2
  <2>2. j \in 1..Len(inbox'[p]) /\ inbox'[p][j] = inbox[p][j]
    BY <1>2, <2>1
  <2> QED BY <2>2
<1> QED BY <1>3, <1>4, <1>5 DEF Calm, LiveCalm, HeldCalm

\* A frame other than the first is still on its way.
LEMMA StillComing ==
    ASSUME Good, NEW p \in BROWSERS, inbox[p] # <<>>, inbox'[p] = Tail(inbox[p]),
           NEW f, inbox[p][1] # f, NEW j \in 1..Len(inbox[p]), inbox[p][j] = f
    PROVE  \E i \in 1..Len(inbox'[p]) : inbox'[p][i] = f
<1>1. inbox[p] \in Seq(Frames(published))
  BY PageIs DEF BrowserOK
<1>2. Len(inbox[p]) \in Nat /\ Len(inbox'[p]) = Len(inbox[p]) - 1 /\ j # 1
  BY <1>1
<1>3. j - 1 \in 1..Len(inbox'[p]) /\ inbox'[p][j - 1] = inbox[p][j]
  BY <1>1, <1>2
<1> QED BY <1>3

LEMMA CalmRead ==
    ASSUME Good, Rec, NEW p \in BROWSERS, cache'[p] = cache[p], inbox[p] # <<>>,
           inbox[p][1].type # "historyResponse", inbox'[p] = Tail(inbox[p])
    PROVE  Calm(p) /\ QueueOK(inbox'[p], Boundary, requests, activeRecovery)
<1>1. inbox[p] \in Seq(Frames(published))
  BY PageIs DEF BrowserOK
<1>2. QueueOK(inbox[p], Boundary, requests, activeRecovery)
  BY DEF Rec
<1>3. /\ QueueOK(inbox'[p], Boundary, requests, activeRecovery)
      /\ \A n : TextsFrom(inbox[p], 1, n) => TextsFrom(inbox'[p], 1, n)
  BY <1>1, <1>2, QueueReads
<1>4. AnswersCalm(p)
  <2> SUFFICES ASSUME NEW m, NEW j \in 1..Len(inbox[p]),
                      inbox[p][j] = Response(activeRecovery[p].request, m)
               PROVE  \E i \in 1..Len(inbox'[p]) :
                         inbox'[p][i] = Response(activeRecovery[p].request, m)
    BY DEF AnswersCalm
  <2>1. inbox[p][1] # Response(activeRecovery[p].request, m)
    BY DEF Response
  <2> QED BY <2>1, StillComing
<1> QED BY <1>3, <1>4 DEF Calm, QueueCalm, LiveCalm, HeldCalm

\* A browser whose recovery goes on.
LEMMA AskerStays ==
    ASSUME NEW b \in BROWSERS, AskerOK(b), Boundary \in Nat, Boundary' \in Nat,
           Boundary <= Boundary', historyInfo'[b] <= Boundary',
           activeRecovery'[b] = activeRecovery[b], requests'[b] = requests[b],
           answered'[b] \subseteq answered[b]
    PROVE  AskerOK(b)'
BY DEF AskerOK

\* A browser keeps cache e, which has all of c and at most one live message
\* more: the first one on its way.
LEMMA CalmSaved ==
    ASSUME Good, Rec, NEW b \in BROWSERS, inbox[b] # <<>>, inbox'[b] = Tail(inbox[b]),
           NEW e, CacheOK(e), Proper(b, published, Boundary, e),
           Stored(cache[b]) \subseteq Stored(e), cache[b].regular \subseteq e.regular,
           \A x \in e.regular : x \in cache[b].regular \/ inbox[b][1] = Text(x),
           cache'[b] = Capped(e)
    PROVE  /\ QueueCalm(b) /\ LiveCalm(b) /\ HeldCalm(b)
           /\ QueueOK(inbox'[b], Boundary, requests, activeRecovery)
           /\ \A x \in Stored(e) : Holds(cache'[b], x)
<1>1. ServerOK(window, published, boot_start_id, current_id)
      /\ inbox[b] \in Seq(Frames(published))
  BY PageIs DEF BrowserOK
<1>2. IsFiniteSet(published) /\ \A x \in published : x.id \in Nat
  BY <1>1 DEF ServerOK
<1>3. QueueOK(inbox[b], Boundary, requests, activeRecovery)
  BY DEF Rec
<1>4. /\ QueueOK(inbox'[b], Boundary, requests, activeRecovery)
      /\ \A n : TextsFrom(inbox[b], 1, n) => TextsFrom(inbox'[b], 1, n)
  BY <1>1, <1>3, QueueReads
<1>5. LiveCalm(b)
  <2>1. Capped(e).regular \subseteq e.regular
    BY <1>2, SavingFits
  <2> SUFFICES ASSUME NEW x \in e.regular, inbox[b][1] = Text(x), NEW n \in Nat,
                      TextsFrom(inbox[b], 1, n)
               PROVE  ~ (x.id < n)
    BY <2>1 DEF LiveCalm
  <2>2. inbox[b][1].type = "text" /\ inbox[b][1].message = x
    BY DEF Text
  <2>3. 1 \in 1..Len(inbox[b])
    BY PageIs
  <2>4. n <= x.id
    BY <2>2, <2>3 DEF TextsFrom
  <2>5. x.id \in Nat
    BY <1>2 DEF Proper
  <2> QED BY <2>4, <2>5
<1>6. ASSUME NEW x, Holds(cache[b], x) \/ x \in Stored(e) PROVE Holds(Capped(e), x)
  <2> DEFINE c == cache[b]
  <2>1. Stored(c) \subseteq Stored(e) /\ (Holds(c, x) \/ x \in Stored(e))
    BY <1>6
  <2> HIDE DEF c
  <2> QED BY <1>1, <2>1, HoldsGrows
<1> QED BY <1>4, <1>5, <1>6 DEF QueueCalm, HeldCalm

LEMMA CalmText ==
    ASSUME Good, Rec, NEW b \in BROWSERS, TextArrives(b)
    PROVE  Calm(b) /\ QueueOK(inbox'[b], Boundary, requests, activeRecovery)
<1> DEFINE q == inbox[b]
           m == q[1].message
           c == cache[b]
           new == b \in m.seen_by /\ m.id \notin Ids(Stored(c))
           e == Added(c, m, new)
<1>1. CacheOK(c) /\ Proper(b, published, Boundary, c) /\ DOMAIN inbox = BROWSERS
  BY PageIs DEF BrowserOK, Good
<1>2. q # <<>> /\ Head(q).type = "text" /\ Head(q) = q[1] /\ inbox' = [inbox EXCEPT ![b] = Tail(q)]
  BY PageIs DEF TextArrives, NextFrame, Consume
<1>3. q[1] = Text(m) /\ m \in published
  BY <1>2, PageIs, FrameIs
<1>4. cache'[b] = Capped(e)
  <2>1. PICK saved \in BOOLEAN, n \in {m.id, disk[b].cursor} : SaveMessages(b, e, n, saved)
    BY <1>2 DEF TextArrives, Writes, Added
  <2> HIDE DEF e
  <2> QED BY <2>1 DEF SaveMessages, Good
<1>5. /\ CacheOK(e) /\ Proper(b, published, Boundary, e)
      /\ (new => e.regular = c.regular \cup {m}) /\ (~new => e.regular = c.regular)
      /\ e.recovered = c.recovered
  <2>1. new \in BOOLEAN /\ (new => b \in m.seen_by /\ m.id \notin Ids(Stored(c)))
    OBVIOUS
  <2> HIDE DEF m, c, new
  <2> QED BY <1>1, <1>3, <2>1, AddedIs
<1> HIDE DEF e
<1>6. /\ Stored(c) \subseteq Stored(e) /\ c.regular \subseteq e.regular
      /\ \A x \in e.regular : x \in c.regular \/ q[1] = Text(x)
  BY <1>3, <1>5 DEF Stored
<1>7. inbox'[b] = Tail(q)
  BY <1>1, <1>2
<1>8. /\ QueueCalm(b) /\ LiveCalm(b) /\ HeldCalm(b)
      /\ QueueOK(inbox'[b], Boundary, requests, activeRecovery)
  BY <1>2, <1>4, <1>5, <1>6, <1>7, CalmSaved
<1>9. AnswersCalm(b)
  <2> SUFFICES ASSUME NEW x, NEW j \in 1..Len(q), q[j] = Response(activeRecovery[b].request, x)
               PROVE  \E i \in 1..Len(inbox'[b]) :
                         inbox'[b][i] = Response(activeRecovery[b].request, x)
    BY DEF AnswersCalm
  <2>1. q[1] # Response(activeRecovery[b].request, x)
    BY <1>3 DEF Text, Response
  <2> QED BY <1>2, <1>7, <2>1, StillComing
<1> QED BY <1>8, <1>9 DEF Calm

\* An answer that is not imported is one of another recovery or known already.
LEMMA CalmResponse ==
    ASSUME Good, Rec, NEW b \in BROWSERS, ResponseArrives(b)
    PROVE  Calm(b) /\ QueueOK(inbox'[b], Boundary, requests, activeRecovery)
<1> DEFINE q == inbox[b]
           f == q[1]
           m == f.message
           c == cache[b]
           e == Recovered(c, m)
           a == activeRecovery[b]
<1>1. CacheOK(c) /\ Proper(b, published, Boundary, c) /\ DOMAIN inbox = BROWSERS
  BY PageIs DEF BrowserOK, Good
<1>2. q # <<>> /\ Head(q).type = "historyResponse" /\ Head(q) = f
      /\ inbox' = [inbox EXCEPT ![b] = Tail(q)]
  BY PageIs DEF ResponseArrives, NextFrame, Consume
<1>3. f = Response(f.request, m) /\ m \in published /\ m.id < Boundary
  <2>1. f.type = "historyResponse" /\ f \in Frames(published) /\ 1 \in 1..Len(q)
    BY <1>2, PageIs
  <2>2. f = Response(f.request, m) /\ m \in published
    BY <2>1, FrameIs
  <2> QED BY <2>1, <2>2, PageIs DEF BrowserOK
<1>4. inbox'[b] = Tail(q)
  BY <1>1, <1>2
<1>5. ASSUME \A x : b \in x.seen_by /\ x.id < a.before /\ f = Response(a.request, x)
                        => Holds(cache'[b], x)
      PROVE  AnswersCalm(b)
  <2> SUFFICES ASSUME NEW x, b \in x.seen_by, x.id < a.before,
                      NEW j \in 1..Len(q), q[j] = Response(a.request, x)
               PROVE  \/ Holds(cache'[b], x)
                      \/ \E i \in 1..Len(inbox'[b]) : inbox'[b][i] = Response(a.request, x)
    BY DEF AnswersCalm
  <2>1. CASE f = Response(a.request, x)
    BY <1>5, <2>1
  <2>2. CASE f # Response(a.request, x)
    BY <1>2, <1>4, <2>2, StillComing
  <2> QED BY <2>1, <2>2
<1>6. ASSUME NEW x, f = Response(a.request, x) PROVE a.request = f.request /\ x = m
  BY <1>3, <1>6 DEF Response
<1>7. CASE ~Imports(b, f)
  <2>1. cache' = cache
    BY <1>2, <1>7 DEF ResponseArrives
  <2>2. /\ QueueCalm(b) /\ LiveCalm(b) /\ HeldCalm(b)
        /\ QueueOK(inbox'[b], Boundary, requests, activeRecovery)
    <3>1. QueueOK(q, Boundary, requests, activeRecovery) /\ q \in Seq(Frames(published))
      BY PageIs DEF Rec, BrowserOK
    <3>2. /\ QueueOK(Tail(q), Boundary, requests, activeRecovery)
          /\ \A n : TextsFrom(q, 1, n) => TextsFrom(Tail(q), 1, n)
      BY <1>2, <3>1, QueueReads
    <3> QED BY <1>4, <2>1, <3>2 DEF QueueCalm, LiveCalm, HeldCalm
  <2>3. \A x : b \in x.seen_by /\ x.id < a.before /\ f = Response(a.request, x)
                  => Holds(cache'[b], x)
    BY <1>6, <1>7, <2>1 DEF Imports, Holds
  <2> QED BY <1>5, <2>2, <2>3 DEF Calm
<1>8. CASE Imports(b, f)
  <2>1. cache'[b] = Capped(e)
    <3>1. PICK saved \in BOOLEAN : SaveMessages(b, e, disk[b].cursor, saved)
      BY <1>2, <1>8 DEF ResponseArrives, Writes, Recovered
    <3> HIDE DEF e
    <3> QED BY <3>1 DEF SaveMessages, Good
  <2>2. b \in m.seen_by /\ m.id \notin Ids(Stored(c))
    BY <1>8 DEF Imports
  <2>3. /\ CacheOK(e) /\ Proper(b, published, Boundary, e)
        /\ e.regular = c.regular /\ e.recovered = c.recovered \cup {m}
    <3> HIDE DEF m, c
    <3> QED BY <1>1, <1>3, <2>2, RecoveredIs
  <2> HIDE DEF e
  <2>4. Stored(c) \subseteq Stored(e) /\ m \in Stored(e)
    BY <2>3 DEF Stored
  <2>5. /\ QueueCalm(b) /\ LiveCalm(b) /\ HeldCalm(b)
        /\ QueueOK(inbox'[b], Boundary, requests, activeRecovery)
        /\ \A x \in Stored(e) : Holds(cache'[b], x)
    BY <1>2, <1>4, <2>1, <2>3, <2>4, CalmSaved
  <2>6. \A x : b \in x.seen_by /\ x.id < a.before /\ f = Response(a.request, x)
                  => Holds(cache'[b], x)
    BY <1>6, <2>4, <2>5
  <2> QED BY <1>5, <2>5, <2>6 DEF Calm
<1> QED BY <1>7, <1>8

\* A step of the pages that leaves the server and every recovery alone, except
\* that more browsers may have given all they have, or been forgotten.
LEMMA RecPages ==
    ASSUME Good, Rec, UNCHANGED server, activeRecovery' = activeRecovery, requests' = requests,
           \A p \in BROWSERS : historyInfo'[p] <= Boundary,
           \A p \in BROWSERS :
              Calm(p) /\ QueueOK(inbox'[p], Boundary, requests, activeRecovery),
           DOMAIN answered' = BROWSERS,
           \A p \in BROWSERS : answered'[p] \subseteq BROWSERS \ {p},
           \A p \in BROWSERS : activeRecovery[p] = NoRecovery => answered'[p] = {},
           \A p \in BROWSERS : \A x \in answered'[p] : x \in answered[p] \/ GaveAll(p, x)'
    PROVE  Rec'
<1>1. Boundary' = Boundary
  BY DEF server, Boundary
<1>2. \A p \in BROWSERS : AskerOK(p)'
  BY <1>1 DEF Rec, AskerOK
<1>3. \A p \in BROWSERS : QueueOK(inbox'[p], Boundary', requests', activeRecovery')
  BY <1>1
<1>4. DOMAIN activeRecovery' = BROWSERS
  BY DEF Rec
<1>5. ASSUME NEW p \in BROWSERS, NEW x \in answered'[p]
      PROVE  \/ GaveAll(p, x)'
             \/ /\ x \in answered[p] /\ activeRecovery'[p] = activeRecovery[p]
                /\ QueueCalm(x) /\ LiveCalm(x) /\ HeldCalm(p) /\ AnswersCalm(p)
  <2>1. x \in BROWSERS
    OBVIOUS
  <2> QED BY <2>1 DEF Calm
<1> QED BY <1>2, <1>3, <1>4, <1>5, RecStep

\* ... of one page.
LEMMA RecOnePage ==
    ASSUME Good, Rec, UNCHANGED server, NEW b \in BROWSERS,
           activeRecovery' = activeRecovery, requests' = requests, answered' = answered,
           Only(b, inbox, inbox'), Only(b, cache, cache'), Only(b, historyInfo, historyInfo'),
           historyInfo'[b] <= Boundary,
           Calm(b) /\ QueueOK(inbox'[b], Boundary, requests, activeRecovery)
    PROVE  Rec'
<1>1. ASSUME NEW p \in BROWSERS, p # b
      PROVE  /\ Calm(p) /\ QueueOK(inbox'[p], Boundary, requests, activeRecovery)
             /\ historyInfo'[p] <= Boundary
  <2>1. inbox'[p] = inbox[p] /\ cache'[p] = cache[p] /\ historyInfo'[p] = historyInfo[p]
    BY <1>1 DEF Only
  <2> QED BY <2>1, CalmSame DEF Rec, AskerOK
<1>2. \A p \in BROWSERS : /\ Calm(p) /\ QueueOK(inbox'[p], Boundary, requests, activeRecovery)
                          /\ historyInfo'[p] <= Boundary
  BY <1>1
<1>3. /\ DOMAIN answered' = BROWSERS
      /\ \A p \in BROWSERS : answered'[p] \subseteq BROWSERS \ {p}
      /\ \A p \in BROWSERS : activeRecovery[p] = NoRecovery => answered'[p] = {}
      /\ \A p \in BROWSERS : \A x \in answered'[p] : x \in answered[p]
  BY DEF Rec, AskerOK
<1> QED BY <1>2, <1>3, RecPages

LEMMA InfoRec ==
    ASSUME Good, Rec, NEW b \in BROWSERS, InfoArrives(b)
    PROVE  Rec'
<1> DEFINE q == inbox[b]
<1>1. /\ q # <<>> /\ Head(q).type = "historyInfo"
      /\ inbox' = [inbox EXCEPT ![b] = Tail(q)]
      /\ historyInfo' = [historyInfo EXCEPT ![b] = Head(q).restore_before_id]
      /\ UNCHANGED <<server, cache, requests, activeRecovery, answered>>
  BY DEF InfoArrives, NextFrame, Consume
<1>2. q[1].type = "historyInfo" /\ Head(q) = q[1] /\ 1 \in 1..Len(q)
  BY <1>1, PageIs
<1>3. Only(b, inbox, inbox') /\ inbox'[b] = Tail(q)
  BY <1>1, OnlyIs DEF Good
<1>4. Only(b, cache, cache') /\ cache'[b] = cache[b]
  BY <1>1, OnlyIs DEF Good
<1>5. Only(b, historyInfo, historyInfo') /\ historyInfo'[b] = q[1].restore_before_id
  <2>1. DOMAIN historyInfo = BROWSERS
    BY DEF Good
  <2> HIDE DEF q
  <2>2. Only(b, historyInfo, historyInfo') /\ historyInfo'[b] = Head(q).restore_before_id
    BY ONLY <1>1, <2>1, b \in BROWSERS, OnlyIs
  <2> QED BY <1>2, <2>2
<1>6. historyInfo'[b] <= Boundary
  BY <1>2, <1>5 DEF Rec, QueueOK
<1>7. Calm(b) /\ QueueOK(inbox'[b], Boundary, requests, activeRecovery)
  BY <1>1, <1>2, <1>3, <1>4, CalmRead
<1> QED BY <1>1, <1>3, <1>4, <1>5, <1>6, <1>7, RecOnePage

LEMMA PresenceRec ==
    ASSUME Good, Rec, NEW b \in BROWSERS, PresenceArrives(b)
    PROVE  Rec'
<1> DEFINE q == inbox[b]
<1>1. /\ q # <<>> /\ Head(q).type = "onlineUsers"
      /\ inbox' = [inbox EXCEPT ![b] = Tail(q)]
      /\ UNCHANGED <<server, cache, historyInfo, requests, activeRecovery, answered>>
  BY DEF PresenceArrives, NextFrame, Consume
<1>2. q[1].type # "historyResponse"
  BY <1>1, PageIs
<1>3. Only(b, inbox, inbox') /\ inbox'[b] = Tail(q)
  BY <1>1, OnlyIs DEF Good
<1>4. /\ Only(b, cache, cache') /\ cache'[b] = cache[b]
      /\ Only(b, historyInfo, historyInfo') /\ historyInfo'[b] <= Boundary
  BY <1>1, OnlyIs DEF Good, Rec, AskerOK
<1>5. Calm(b) /\ QueueOK(inbox'[b], Boundary, requests, activeRecovery)
  BY <1>1, <1>2, <1>3, <1>4, CalmRead
<1> QED BY <1>1, <1>3, <1>4, <1>5, RecOnePage

LEMMA TextRec ==
    ASSUME Good, Rec, NEW b \in BROWSERS, TextArrives(b)
    PROVE  Rec'
<1>1. /\ Only(b, inbox, inbox')
      /\ UNCHANGED <<server, historyInfo, requests, activeRecovery, answered>>
  BY OnlyIs DEF TextArrives, Consume, Good
<1>2. Only(b, cache, cache')
  <2>1. PICK e, n, saved : SaveMessages(b, e, n, saved)
    BY DEF TextArrives
  <2>2. cache' = [cache EXCEPT ![b] = Capped(e)]
    BY <2>1 DEF SaveMessages
  <2> QED BY <2>2, OnlyIs DEF Good
<1>3. Only(b, historyInfo, historyInfo') /\ historyInfo'[b] <= Boundary
  BY <1>1, OnlyIs DEF Good, Rec, AskerOK
<1> QED BY <1>1, <1>2, <1>3, CalmText, RecOnePage

LEMMA ResponseRec ==
    ASSUME Good, Rec, NEW b \in BROWSERS, ResponseArrives(b)
    PROVE  Rec'
<1>1. /\ Only(b, inbox, inbox')
      /\ UNCHANGED <<server, historyInfo, requests, activeRecovery, answered>>
  BY OnlyIs DEF ResponseArrives, Consume, Good
<1>2. Only(b, cache, cache')
  <2>1. cache' = cache \/ \E e, n, saved : SaveMessages(b, e, n, saved)
    BY DEF ResponseArrives
  <2>2. cache' = cache \/ \E k : cache' = [cache EXCEPT ![b] = k]
    BY <2>1 DEF SaveMessages
  <2>3. DOMAIN cache = BROWSERS
    BY DEF Good
  <2>4. CASE cache' = cache
    BY <2>3, <2>4, OnlyIs
  <2>5. ASSUME NEW k, cache' = [cache EXCEPT ![b] = k] PROVE Only(b, cache, cache')
    BY <2>3, <2>5, OnlyIs
  <2> QED BY <2>2, <2>4, <2>5
<1>3. Only(b, historyInfo, historyInfo') /\ historyInfo'[b] <= Boundary
  BY <1>1, OnlyIs DEF Good, Rec, AskerOK
<1> QED BY <1>1, <1>2, <1>3, CalmResponse, RecOnePage

LEMMA BreakRec ==
    ASSUME Good, Rec, NEW b \in BROWSERS, Break(b)
    PROVE  Rec'
<1>1. /\ inbox' = inbox /\ UNCHANGED <<server, page, answered>>
  BY DEF Break
<1>2. UNCHANGED server /\ cache' = cache /\ answered' = answered
      /\ historyInfo' = historyInfo /\ requests' = requests /\ activeRecovery' = activeRecovery
  BY <1>1 DEF page
<1>3. /\ Only(b, inbox, inbox') /\ Only(b, cache, cache') /\ Only(b, historyInfo, historyInfo')
      /\ historyInfo'[b] <= Boundary
      /\ Calm(b) /\ QueueOK(inbox'[b], Boundary, requests, activeRecovery)
  BY <1>1, <1>2, OnlyIs, CalmSame DEF Good, Rec, AskerOK
<1> QED BY <1>2, <1>3, RecOnePage

\* The one who answered gave all it had: what it did not send is not its.
LEMMA RequestRec ==
    ASSUME Good, Rec, NEW b \in BROWSERS, RequestArrives(b)
    PROVE  Rec'
<1>0. inbox[b][1] = Head(inbox[b]) /\ NextFrame(b, "historyRequest")
  BY PageIs DEF RequestArrives, NextFrame
<1> SUFFICES ASSUME NEW f, f = inbox[b][1], NEW S \in SUBSET Answers(b, f),
                    Relay(b, f, S), NEW r, r = Responses(f.request, ById(S))
             PROVE  Rec'
  BY <1>0 DEF RequestArrives
<1> DEFINE asker == f.from
           a == activeRecovery[asker]
           relays == b # asker /\ {b, asker} \subseteq linked
<1>1. /\ UNCHANGED server /\ activeRecovery' = activeRecovery /\ requests' = requests
      /\ cache' = cache /\ historyInfo' = historyInfo
  BY DEF RequestArrives, page
<1>2. answered' = [answered EXCEPT ![asker] =
          IF relays /\ S = Answers(b, f) /\ a.request = f.request THEN @ \cup {b} ELSE @]
  BY DEF Relay
<1>3. /\ inbox[b] # <<>> /\ f.type = "historyRequest" /\ asker \in BROWSERS
      /\ f.request \in Nat /\ f.restore_before_id \in Nat
      /\ r \in Seq(Frames(published)) /\ Len(r) = Len(ById(S))
      /\ \A i \in 1..Len(r) :
            /\ r[i].type = "historyResponse" /\ r[i].message.id < Boundary
            /\ r[i] = Response(f.request, ById(S)[i])
      /\ DOMAIN inbox' = BROWSERS /\ inbox'[b] = Tail(inbox[b])
      /\ \A p \in BROWSERS \ {b} : inbox'[p] = inbox[p] \/ inbox'[p] = inbox[p] \o r
      /\ relays => inbox'[asker] = inbox[asker] \o r
  <2>1. RequestSends(b, f, S, r)
    BY <1>0, RequestSendsIs
  <2> QED BY <2>1 DEF RequestSends
<1>4. ASSUME NEW p \in BROWSERS
      PROVE  Calm(p) /\ QueueOK(inbox'[p], Boundary, requests, activeRecovery)
  <2>0. QueueOK(inbox[p], Boundary, requests, activeRecovery)
    BY DEF Rec
  <2>1. CASE p = b
    BY <1>1, <1>3, <2>1, CalmRead
  <2>2. CASE p # b /\ inbox'[p] = inbox[p]
    BY <1>1, <2>0, <2>2, CalmSame
  <2>3. CASE inbox'[p] = inbox[p] \o r
    <3>1. /\ ServerOK(window, published, boot_start_id, current_id)
          /\ Boundary \in Nat /\ Boundary <= Boundary /\ published \subseteq published
      BY PageIs
    <3>2. \A i \in 1..Len(r) :
             /\ r[i].type = "historyInfo" => r[i].restore_before_id <= Boundary
             /\ r[i].type = "historyRequest" => RequestOK(r[i], Boundary, requests, activeRecovery)
             /\ r[i].type = "text" => Boundary <= r[i].message.id
      BY <1>3
    <3>3. cache'[p] = cache[p] /\ r \in Seq(Frames(published))
      BY <1>1, <1>3
    <3> QED BY ONLY Good, p \in BROWSERS, <2>0, <2>3, <3>1, <3>2, <3>3, CalmSent
  <2> QED BY <1>3, <2>1, <2>2, <2>3
<1>5. RequestOK(f, Boundary, requests, activeRecovery)
      /\ TextsFrom(inbox'[b], 1, f.restore_before_id)
  <2>1. QueueOK(inbox[b], Boundary, requests, activeRecovery)
        /\ inbox[b] \in Seq(Frames(published))
    BY PageIs DEF Rec, BrowserOK
  <2> QED BY <1>3, <2>1, QueueReads
<1>6. ASSUME relays, S = Answers(b, f), a.request = f.request PROVE GaveAll(asker, b)'
  <2>1. a.before = f.restore_before_id /\ f.restore_before_id <= Boundary /\ Boundary \in Nat
    BY <1>5, <1>6, PageIs DEF RequestOK
  <2>2. ASSUME NEW m \in cache[b].regular, asker \in m.seen_by, m.id < a.before
        PROVE  \E j \in 1..Len(inbox'[asker]) : inbox'[asker][j] = Response(a.request, m)
    <3>1. m.id \in Nat
      BY PageIs DEF BrowserOK, Proper, ServerOK
    <3>2. m.id < Boundary
      BY <1>3, <2>1, <2>2, <3>1
    <3>3. PICK i \in 1..Len(ById(S)) : ById(S)[i] = m
      <4>1. m \in S
        BY <1>6, <2>1, <2>2, <3>2 DEF Answers, Offered, Relayed
      <4>2. \A x \in S : \E i \in 1..Len(ById(S)) : ById(S)[i] = x
        BY ONLY Good, b \in BROWSERS, S \in SUBSET Answers(b, f), AnswersAre
      <4> QED BY ONLY <4>1, <4>2
    <3>4. r[i] = Response(a.request, m) /\ i \in 1..Len(r)
      BY <1>3, <1>6, <3>3
    <3>5. inbox[asker] \in Seq(Frames(published))
      BY <1>3, PageIs DEF BrowserOK
    <3> DEFINE q == inbox[asker]
               j == Len(q) + i
    <3>6. j \in 1..Len(q \o r) /\ (q \o r)[j] = r[i]
      <4>1. q \in Seq(Frames(published)) /\ r \in Seq(Frames(published)) /\ i \in 1..Len(r)
        BY <1>3, <3>4, <3>5
      <4> HIDE DEF q
      <4>2. Len(q) \in Nat /\ Len(r) \in Nat /\ Len(q \o r) = Len(q) + Len(r)
        BY <4>1
      <4>3. j \in 1..Len(q \o r) /\ j - Len(q) = i /\ ~ (j <= Len(q))
        BY <4>1, <4>2
      <4> QED BY ONLY <4>1, <4>2, <4>3
    <3>7. inbox'[asker] = q \o r
      BY ONLY <1>3, <1>6
    <3> HIDE DEF q, j
    <3> QED BY <3>4, <3>6, <3>7
  <2>3. TextsFrom(inbox'[b], 1, a.before)
    BY <1>5, <2>1
  <2>4. Gave(asker, a, inbox'[b], cache[b], cache[asker], inbox'[asker])
    BY <2>2, <2>3 DEF Gave
  <2> QED BY <1>1, <2>4 DEF GaveAll
<1>7. /\ DOMAIN answered' = BROWSERS
      /\ \A p \in BROWSERS : answered'[p] \subseteq BROWSERS \ {p}
      /\ \A p \in BROWSERS : activeRecovery[p] = NoRecovery => answered'[p] = {}
      /\ \A p \in BROWSERS : \A x \in answered'[p] : x \in answered[p] \/ GaveAll(p, x)'
  <2>1. DOMAIN answered = BROWSERS /\ \A p \in BROWSERS : AskerOK(p)
    BY DEF Rec
  <2>2. /\ DOMAIN answered' = BROWSERS
        /\ \A p \in BROWSERS : \/ answered'[p] = answered[p]
                               \/ /\ p = asker /\ answered'[p] = answered[p] \cup {b}
                                  /\ relays /\ S = Answers(b, f) /\ a.request = f.request
    BY <1>2, <2>1
  <2>3. a.request = f.request => a # NoRecovery
    <3>1. f.request \in 1..requests[asker] /\ requests[asker] \in Nat
      BY <1>3, <1>5 DEF RequestOK, Good
    <3> QED BY <3>1 DEF NoRecovery
  <2>4. ASSUME NEW p \in BROWSERS
        PROVE  /\ answered'[p] \subseteq BROWSERS \ {p}
               /\ activeRecovery[p] = NoRecovery => answered'[p] = {}
               /\ \A x \in answered'[p] : x \in answered[p] \/ GaveAll(p, x)'
    <3>1. CASE answered'[p] = answered[p]
      BY <2>1, <3>1 DEF AskerOK
    <3>2. CASE p = asker /\ answered'[p] = answered[p] \cup {b} /\ relays
               /\ S = Answers(b, f) /\ a.request = f.request
      BY <1>6, <2>1, <2>3, <3>2 DEF AskerOK
    <3> QED BY <2>2, <3>1, <3>2
  <2> QED BY <2>2, <2>4
<1>8. \A p \in BROWSERS : historyInfo'[p] <= Boundary
  BY <1>1 DEF Rec, AskerOK
<1> QED BY <1>1, <1>4, <1>7, <1>8, RecPages

\* A step of browser b that ends its recovery, or begins one, with the answers
\* to the others going on.
LEMMA RecAsker ==
    ASSUME Good, Rec, UNCHANGED server, NEW b \in BROWSERS,
           DOMAIN activeRecovery' = BROWSERS, DOMAIN answered' = BROWSERS,
           \A p \in BROWSERS \ {b} :
              /\ activeRecovery'[p] = activeRecovery[p] /\ requests'[p] = requests[p]
              /\ historyInfo'[p] = historyInfo[p] /\ answered'[p] \subseteq answered[p]
              /\ HeldCalm(p) /\ AnswersCalm(p)
              /\ \A x \in answered'[p] : QueueCalm(x) /\ LiveCalm(x),
           AskerOK(b)', answered'[b] = {},
           \A p \in BROWSERS : QueueOK(inbox'[p], Boundary, requests', activeRecovery')
    PROVE  Rec'
<1>1. Boundary' = Boundary
  BY DEF server, Boundary
<1>2. ASSUME NEW p \in BROWSERS PROVE AskerOK(p)'
  <2>1. CASE p = b
    BY <2>1
  <2>2. CASE p # b
    <3>1. AskerOK(p)
      BY DEF Rec
    <3> QED BY <1>1, <2>2, <3>1 DEF AskerOK
  <2> QED BY <2>1, <2>2
<1>3. \A p \in BROWSERS : QueueOK(inbox'[p], Boundary', requests', activeRecovery')
  BY <1>1
<1>4. ASSUME NEW p \in BROWSERS, NEW x \in answered'[p]
      PROVE  /\ x \in answered[p] /\ activeRecovery'[p] = activeRecovery[p]
             /\ QueueCalm(x) /\ LiveCalm(x) /\ HeldCalm(p) /\ AnswersCalm(p)
  <2>1. p # b
    BY <1>4
  <2> QED BY <2>1
<1> QED BY <1>2, <1>3, <1>4, RecStep

\* Requests on their way stay in order when a recovery ends or a new one begins.
LEMMA QueueForgets ==
    ASSUME NEW P, NEW q \in Seq(Frames(P)), NEW bd, NEW reqs, NEW active,
           QueueOK(q, bd, reqs, active), NEW reqs2, NEW active2,
           \A p \in BROWSERS :
              /\ reqs[p] \in Nat /\ reqs2[p] \in Nat /\ reqs[p] <= reqs2[p]
              /\ active2[p] = active[p] \/ active2[p].request \notin 1..reqs[p]
    PROVE  QueueOK(q, bd, reqs2, active2)
<1>1. ASSUME NEW i \in 1..Len(q), q[i].type = "historyRequest"
      PROVE  RequestOK(q[i], bd, reqs2, active2)
  <2>1. q[i] \in Frames(P)
    OBVIOUS
  <2>2. q[i].from \in BROWSERS /\ q[i].request \in Nat
    BY <1>1, <2>1, FrameIs
  <2>3. RequestOK(q[i], bd, reqs, active)
    BY <1>1 DEF QueueOK
  <2> QED BY <2>2, <2>3 DEF RequestOK
<1> QED BY <1>1 DEF QueueOK

LEMMA FinishRec ==
    ASSUME Good, Rec, NEW b \in BROWSERS, FinishHistoryRecovery(b)
    PROVE  Rec'
<1>1. /\ UNCHANGED <<server, inbox, cache, historyInfo, requests>>
      /\ activeRecovery' = [activeRecovery EXCEPT ![b] = NoRecovery]
      /\ answered' = [answered EXCEPT ![b] = {}]
  BY DEF FinishHistoryRecovery
<1>2. /\ DOMAIN activeRecovery = BROWSERS /\ DOMAIN answered = BROWSERS
      /\ (\A p \in BROWSERS : AskerOK(p)) /\ requests \in [BROWSERS -> Nat]
  BY DEF Rec, Good
<1>3. /\ DOMAIN activeRecovery' = BROWSERS /\ DOMAIN answered' = BROWSERS
      /\ activeRecovery'[b] = NoRecovery /\ answered'[b] = {}
      /\ \A p \in BROWSERS \ {b} : activeRecovery'[p] = activeRecovery[p]
                                   /\ answered'[p] = answered[p]
  BY <1>1, <1>2
<1>4. AskerOK(b)'
  <2>1. Boundary' = Boundary /\ Boundary \in Nat /\ historyInfo[b] <= Boundary
    BY <1>1, <1>2, PageIs DEF server, Boundary, AskerOK
  <2> QED BY <1>1, <1>2, <1>3, <2>1 DEF AskerOK, NoRecovery
<1>5. \A p \in BROWSERS : Calm(p)
  BY <1>1, CalmSame
<1>6. ASSUME NEW p \in BROWSERS
      PROVE  QueueOK(inbox'[p], Boundary, requests', activeRecovery')
  <2>1. QueueOK(inbox[p], Boundary, requests, activeRecovery)
        /\ inbox[p] \in Seq(Frames(published))
    BY PageIs DEF Rec, BrowserOK
  <2>2. \A x \in BROWSERS :
           /\ requests[x] \in Nat /\ requests'[x] \in Nat /\ requests[x] <= requests'[x]
           /\ activeRecovery'[x] = activeRecovery[x]
              \/ activeRecovery'[x].request \notin 1..requests[x]
    BY <1>1, <1>2, <1>3 DEF NoRecovery
  <2>3. QueueOK(inbox[p], Boundary, requests', activeRecovery')
    BY ONLY <2>1, <2>2, QueueForgets
  <2> QED BY <1>1, <2>3
<1>7. \A p \in BROWSERS \ {b} : \A x \in answered'[p] : QueueCalm(x) /\ LiveCalm(x)
  BY <1>2, <1>3, <1>5 DEF AskerOK, Calm
<1> QED BY <1>1, <1>3, <1>4, <1>5, <1>6, <1>7, RecAsker DEF Calm

LEMMA ReloadRec ==
    ASSUME Good, Rec, NEW b \in BROWSERS, Reload(b)
    PROVE  Rec'
<1>1. /\ UNCHANGED <<server, requests>>
      /\ inbox' = [inbox EXCEPT ![b] = <<>>]
      /\ historyInfo' = [historyInfo EXCEPT ![b] = 0]
      /\ activeRecovery' = [activeRecovery EXCEPT ![b] = NoRecovery]
      /\ answered' = [p \in BROWSERS |-> IF p = b THEN {} ELSE answered[p] \ {b}]
  BY DEF Reload
<1>2. /\ DOMAIN activeRecovery = BROWSERS /\ DOMAIN inbox = BROWSERS /\ DOMAIN cache = BROWSERS
      /\ (\A p \in BROWSERS : AskerOK(p)) /\ requests \in [BROWSERS -> Nat]
      /\ historyInfo \in [BROWSERS -> Nat]
  BY DEF Rec, Good
<1>3. /\ DOMAIN activeRecovery' = BROWSERS /\ DOMAIN answered' = BROWSERS
      /\ activeRecovery'[b] = NoRecovery /\ answered'[b] = {} /\ historyInfo'[b] = 0
      /\ inbox'[b] = <<>>
      /\ \A p \in BROWSERS \ {b} :
            /\ activeRecovery'[p] = activeRecovery[p] /\ historyInfo'[p] = historyInfo[p]
            /\ inbox'[p] = inbox[p] /\ answered'[p] \subseteq answered[p] \ {b}
  BY <1>1, <1>2
<1>4. AskerOK(b)'
  <2>1. Boundary' = Boundary /\ Boundary \in Nat
    BY <1>1, PageIs DEF server, Boundary
  <2> QED BY <1>1, <1>2, <1>3, <2>1 DEF AskerOK, NoRecovery
<1>5. ASSUME NEW p \in BROWSERS \ {b} PROVE Calm(p)
  <2>1. PICK e, n, saved : SaveMessages(b, e, n, saved)
    BY DEF Reload
  <2>2. cache' = [cache EXCEPT ![b] = Capped(e)]
    BY <2>1 DEF SaveMessages
  <2>3. cache'[p] = cache[p]
    BY <1>2, <2>2
  <2> QED BY <1>3, <2>3, CalmSame
<1>6. ASSUME NEW p \in BROWSERS
      PROVE  QueueOK(inbox'[p], Boundary, requests', activeRecovery')
  <2>1. QueueOK(inbox[p], Boundary, requests, activeRecovery)
        /\ inbox[p] \in Seq(Frames(published))
    BY PageIs DEF Rec, BrowserOK
  <2>2. \A x \in BROWSERS :
           /\ requests[x] \in Nat /\ requests'[x] \in Nat /\ requests[x] <= requests'[x]
           /\ activeRecovery'[x] = activeRecovery[x]
              \/ activeRecovery'[x].request \notin 1..requests[x]
    BY <1>1, <1>2, <1>3 DEF NoRecovery
  <2>3. QueueOK(inbox[p], Boundary, requests', activeRecovery')
    BY ONLY <2>1, <2>2, QueueForgets
  <2>4. QueueOK(<<>>, Boundary, requests', activeRecovery')
    <3>1. \A i \in 1..Len(<<>>) : FALSE
      OBVIOUS
    <3> QED BY <3>1 DEF QueueOK
  <2> QED BY <1>3, <2>3, <2>4
<1>7. \A p \in BROWSERS \ {b} : \A x \in answered'[p] : QueueCalm(x) /\ LiveCalm(x)
  BY <1>2, <1>3, <1>5 DEF AskerOK, Calm
<1>8. \A p \in BROWSERS \ {b} :
         /\ activeRecovery'[p] = activeRecovery[p] /\ requests'[p] = requests[p]
         /\ historyInfo'[p] = historyInfo[p] /\ answered'[p] \subseteq answered[p]
         /\ HeldCalm(p) /\ AnswersCalm(p)
  BY <1>1, <1>3, <1>5 DEF Calm
<1> QED BY <1>1, <1>3, <1>4, <1>6, <1>7, <1>8, RecAsker

\* The server need not lower the boundary a page asks with: it is not ahead.
LEMMA StartRec ==
    ASSUME Good, Rec, NEW b \in BROWSERS, StartHistoryRecovery(b)
    PROVE  Rec'
<1> SUFFICES ASSUME NEW k, k = requests[b] + 1, NEW n, n = historyInfo[b],
                    NEW f, f = Request(b, k, n)
             PROVE  Rec'
  OBVIOUS
<1>1. /\ DOMAIN activeRecovery = BROWSERS /\ DOMAIN answered = BROWSERS
      /\ (\A p \in BROWSERS : AskerOK(p)) /\ requests \in [BROWSERS -> Nat]
      /\ historyInfo \in [BROWSERS -> Nat] /\ n \in Nat /\ k \in Nat
      /\ Boundary \in Nat /\ n <= Boundary
  BY PageIs DEF Rec, Good, AskerOK
<1>2. Min({historyInfo[b], Boundary}) = n
  <2>1. historyInfo[b] \in Int /\ Boundary \in Int
    BY <1>1
  <2>2. Min({historyInfo[b], Boundary}) \in {historyInfo[b], Boundary}
        /\ Min({historyInfo[b], Boundary}) <= historyInfo[b]
        /\ Min({historyInfo[b], Boundary}) <= Boundary
    BY ONLY <2>1, MinOfTwo
  <2> HIDE DEF Min
  <2> QED BY <1>1, <2>2
<1>3. /\ UNCHANGED <<server, cache, historyInfo>>
      /\ requests' = [requests EXCEPT ![b] = @ + 1]
      /\ activeRecovery' = [activeRecovery EXCEPT ![b] = [request |-> k, before |-> n]]
      /\ answered' = [answered EXCEPT ![b] = {}]
      /\ inbox' = inbox \/ inbox' = Broadcast(<<f>>)
  BY <1>2 DEF StartHistoryRecovery
<1>4. /\ DOMAIN activeRecovery' = BROWSERS /\ DOMAIN answered' = BROWSERS
      /\ activeRecovery'[b] = [request |-> k, before |-> n] /\ requests'[b] = k
      /\ answered'[b] = {}
      /\ \A p \in BROWSERS \ {b} :
            /\ activeRecovery'[p] = activeRecovery[p] /\ requests'[p] = requests[p]
            /\ answered'[p] = answered[p]
  BY <1>1, <1>3
<1>5. activeRecovery'[b].request = k /\ activeRecovery'[b].before = n
  BY <1>4
<1>6. AskerOK(b)'
  <2>1. Boundary' = Boundary
    BY <1>3 DEF server, Boundary
  <2>2. k \in 0..k /\ n \in 0..Boundary /\ activeRecovery'[b] # NoRecovery
    BY <1>1, <1>5 DEF NoRecovery
  <2>3. historyInfo'[b] <= Boundary'
    BY <1>1, <1>3, <2>1
  <2> QED BY <1>4, <1>5, <2>1, <2>2, <2>3 DEF AskerOK
<1>7. /\ f.type = "historyRequest" /\ f \in Frames(published)
      /\ RequestOK(f, Boundary, requests', activeRecovery')
  <2>1. f \in Frames(published) /\ f.type = "historyRequest"
    BY <1>1 DEF Frames, Request
  <2>2. f.from = b /\ f.request = k /\ f.restore_before_id = n
    BY DEF Request
  <2>3. k \in 1..requests'[b]
    BY <1>1, <1>4
  <2> QED BY <1>1, <1>5, <2>1, <2>2, <2>3 DEF RequestOK
<1>8. ASSUME NEW p \in BROWSERS
      PROVE  Calm(p) /\ QueueOK(inbox'[p], Boundary, requests', activeRecovery')
  <2>1. QueueOK(inbox[p], Boundary, requests, activeRecovery)
        /\ inbox[p] \in Seq(Frames(published))
    BY PageIs DEF Rec, BrowserOK
  <2>2. \A x \in BROWSERS :
           /\ requests[x] \in Nat /\ requests'[x] \in Nat /\ requests[x] <= requests'[x]
           /\ activeRecovery'[x] = activeRecovery[x]
              \/ activeRecovery'[x].request \notin 1..requests[x]
    BY <1>1, <1>4, <1>5
  <2>3. QueueOK(inbox[p], Boundary, requests', activeRecovery')
    BY ONLY <2>1, <2>2, QueueForgets
  <2>4. CASE inbox'[p] = inbox[p]
    BY <1>3, <2>3, <2>4, CalmSame
  <2>5. CASE inbox'[p] = inbox[p] \o <<f>>
    <3> SUFFICES ASSUME NEW r, r = <<f>>
                 PROVE  Calm(p) /\ QueueOK(inbox'[p], Boundary, requests', activeRecovery')
      OBVIOUS
    <3>1. r \in Seq(Frames(published)) /\ Len(r) = 1 /\ r[1] = f
      BY <1>7
    <3>2. \A i \in 1..Len(r) :
             /\ r[i].type = "historyInfo" => r[i].restore_before_id <= Boundary
             /\ r[i].type = "historyRequest" =>
                   RequestOK(r[i], Boundary, requests', activeRecovery')
             /\ r[i].type = "text" => Boundary <= r[i].message.id
      <4>1. \A i \in 1..Len(r) : r[i] = f
        BY <3>1
      <4> QED BY <1>7, <4>1
    <3>3. /\ ServerOK(window, published, boot_start_id, current_id)
          /\ Boundary \in Nat /\ Boundary <= Boundary /\ published \subseteq published
      BY PageIs
    <3>4. cache'[p] = cache[p] /\ inbox'[p] = inbox[p] \o r
      BY <1>3, <2>5
    <3> QED BY ONLY Good, p \in BROWSERS, <2>3, <3>1, <3>2, <3>3, <3>4, CalmSent
  <2> QED BY <1>3, <2>4, <2>5 DEF Broadcast
<1>9. \A p \in BROWSERS \ {b} :
         /\ activeRecovery'[p] = activeRecovery[p] /\ requests'[p] = requests[p]
         /\ historyInfo'[p] = historyInfo[p] /\ answered'[p] \subseteq answered[p]
         /\ HeldCalm(p) /\ AnswersCalm(p)
         /\ \A x \in answered'[p] : QueueCalm(x) /\ LiveCalm(x)
  BY <1>1, <1>3, <1>4, <1>8 DEF Calm, AskerOK
<1> QED BY <1>3, <1>4, <1>6, <1>8, <1>9, RecAsker

\* What the server replays lies above the boundary.
LEMMA JoinRec ==
    ASSUME Good, Rec, NEW b \in BROWSERS, Join(b)
    PROVE  Rec'
<1> SUFFICES ASSUME NEW s, s = Replay(lastSeenId[b]),
                    NEW r, r = Texts(s) \o <<Info(Boundary), OnlineUsers>>
             PROVE  Rec'
  OBVIOUS
<1>1. /\ inbox' = [inbox EXCEPT ![b] = r] /\ answered' = [answered EXCEPT ![b] = {}]
      /\ UNCHANGED <<server, cache, historyInfo, activeRecovery, requests>>
  BY DEF Join, Texts
<1>2. /\ ServerOK(window, published, boot_start_id, current_id)
      /\ window \subseteq published /\ Boundary \in Nat /\ current_id \in Nat
  BY PageIs DEF ServerOK
<1>3. s \in Seq(window)
  <2>1. Replays(s, window, lastSeenId[b])
    BY ONLY <1>2, s = Replay(lastSeenId[b]), ReplayIs DEF Replay
  <2> QED BY <2>1 DEF Replays
<1>4. JoinFrames(r, s, Boundary) /\ r \in Seq(Frames(published))
  BY <1>2, <1>3, JoinFramesAre
<1>5. \A i \in 1..Len(r) :
         /\ r[i].type = "historyInfo" => r[i].restore_before_id <= Boundary
         /\ r[i].type # "historyRequest"
         /\ r[i].type = "text" => Boundary <= r[i].message.id
  <2>1. \A i \in 1..Len(r) : \/ r[i] = Info(Boundary) \/ r[i] = OnlineUsers
                             \/ \E m \in window : r[i] = Text(m)
    BY <1>3, <1>4 DEF JoinFrames
  <2>2. \A m \in window : Boundary <= m.id
    BY ONLY <1>2, BoundaryIs DEF Boundary
  <2>3. \A m : Text(m).type = "text" /\ Text(m).message = m
    BY DEF Text
  <2>4. /\ Info(Boundary).type = "historyInfo" /\ Info(Boundary).restore_before_id = Boundary
        /\ OnlineUsers.type = "onlineUsers"
    BY DEF Info, OnlineUsers
  <2> SUFFICES ASSUME NEW i \in 1..Len(r)
               PROVE  /\ r[i].type = "historyInfo" => r[i].restore_before_id <= Boundary
                      /\ r[i].type # "historyRequest"
                      /\ r[i].type = "text" => Boundary <= r[i].message.id
    OBVIOUS
  <2>5. CASE r[i] \in {Info(Boundary), OnlineUsers}
    BY <1>2, <2>4, <2>5
  <2>6. ASSUME NEW m \in window, r[i] = Text(m)
        PROVE  r[i].type = "text" /\ Boundary <= r[i].message.id
    BY <2>2, <2>3, <2>6
  <2> QED BY <2>1, <2>5, <2>6
<1>6. /\ DOMAIN inbox = BROWSERS /\ DOMAIN answered = BROWSERS
      /\ DOMAIN activeRecovery = BROWSERS /\ \A p \in BROWSERS : AskerOK(p)
  BY DEF Good, Rec
<1>7. /\ inbox'[b] = r /\ answered'[b] = {} /\ DOMAIN answered' = BROWSERS
      /\ \A p \in BROWSERS \ {b} : inbox'[p] = inbox[p] /\ answered'[p] = answered[p]
  BY <1>1, <1>6
<1>8. QueueCalm(b) /\ LiveCalm(b)
  <2>1. QueueCalm(b)
    <3> SUFFICES ASSUME NEW n \in Nat, n <= Boundary, NEW j \in 1..Len(r), r[j].type = "text"
                 PROVE  n <= r[j].message.id
      BY <1>7 DEF QueueCalm, TextsFrom
    <3>1. r[j].message.id \in 1..current_id
      BY <1>2, <1>4, FrameNumbers
    <3> QED BY <1>2, <1>5, <3>1
  <2> QED BY <1>1, <2>1 DEF LiveCalm
<1>9. \A p \in BROWSERS \ {b} : Calm(p)
  BY <1>1, <1>7, CalmSame
<1>10. ASSUME NEW p \in BROWSERS
       PROVE  QueueOK(inbox'[p], Boundary, requests', activeRecovery')
  <2>1. CASE p = b
    BY <1>5, <1>7, <2>1 DEF QueueOK
  <2>2. CASE p # b
    BY <1>1, <1>7, <2>2 DEF Rec
  <2> QED BY <2>1, <2>2
<1>11. AskerOK(b)'
  <2>1. Boundary' = Boundary
    BY <1>1 DEF server, Boundary
  <2> QED BY <1>1, <1>6, <1>7, <2>1 DEF AskerOK
<1>12. \A p \in BROWSERS \ {b} :
          /\ activeRecovery'[p] = activeRecovery[p] /\ requests'[p] = requests[p]
          /\ historyInfo'[p] = historyInfo[p] /\ answered'[p] \subseteq answered[p]
          /\ HeldCalm(p) /\ AnswersCalm(p)
          /\ \A x \in answered'[p] : QueueCalm(x) /\ LiveCalm(x)
  BY <1>1, <1>6, <1>7, <1>8, <1>9 DEF Calm, AskerOK
<1>13. DOMAIN activeRecovery' = BROWSERS
  BY <1>1, <1>6
<1> QED BY <1>1, <1>7, <1>10, <1>11, <1>12, <1>13, RecAsker

\* Queues stay in order when the boundary rises.
LEMMA QueueRises ==
    ASSUME NEW P, NEW q \in Seq(Frames(P)), NEW bd \in Nat, NEW reqs, NEW active,
           QueueOK(q, bd, reqs, active), NEW bd2 \in Nat, bd <= bd2
    PROVE  QueueOK(q, bd2, reqs, active)
<1> SUFFICES ASSUME NEW i \in 1..Len(q)
             PROVE  /\ q[i].type = "historyInfo" => q[i].restore_before_id <= bd2
                    /\ q[i].type = "historyRequest" => RequestOK(q[i], bd2, reqs, active)
  BY QueueStays
<1>1. q[i] \in Frames(P)
  OBVIOUS
<1>2. q[i].type \in {"historyInfo", "historyRequest"} => q[i].restore_before_id \in Nat
  BY <1>1, FrameIs
<1>3. /\ q[i].type = "historyInfo" => q[i].restore_before_id <= bd
      /\ q[i].type = "historyRequest" => RequestOK(q[i], bd, reqs, active)
  BY DEF QueueOK
<1>4. q[i].type = "historyInfo" => q[i].restore_before_id <= bd2
  BY <1>2, <1>3
<1>5. ASSUME q[i].type = "historyRequest" PROVE RequestOK(q[i], bd2, reqs, active)
  <2>1. q[i].restore_before_id \in Nat /\ q[i].restore_before_id <= bd
    BY <1>2, <1>3, <1>5 DEF RequestOK
  <2>2. q[i].restore_before_id <= bd2
    BY <2>1
  <2> QED BY <1>3, <1>5, <2>2 DEF RequestOK
<1> QED BY <1>4, <1>5

\* A step of the server that sends frames and may raise the boundary.
LEMMA RecServer ==
    ASSUME Good, Rec, Boundary' \in Nat, Boundary <= Boundary',
           UNCHANGED <<historyInfo, activeRecovery, requests, answered>>,
           \A p \in BROWSERS :
              Calm(p) /\ QueueOK(inbox'[p], Boundary', requests, activeRecovery)
    PROVE  Rec'
<1>1. /\ DOMAIN activeRecovery' = BROWSERS /\ DOMAIN answered' = BROWSERS
      /\ (\A p \in BROWSERS : AskerOK(p)) /\ historyInfo \in [BROWSERS -> Nat]
  BY DEF Rec, Good
<1>2. ASSUME NEW p \in BROWSERS PROVE AskerOK(p)'
  <2>1. Boundary \in Nat
    BY PageIs
  <2>2. historyInfo[p] \in Nat /\ historyInfo[p] <= Boundary
    BY <1>1 DEF AskerOK
  <2>3. historyInfo'[p] <= Boundary'
    BY <2>1, <2>2
  <2> QED BY <1>1, <2>1, <2>3, AskerStays
<1>3. \A p \in BROWSERS : QueueOK(inbox'[p], Boundary', requests', activeRecovery')
  OBVIOUS
<1>4. ASSUME NEW p \in BROWSERS, NEW x \in answered'[p]
      PROVE  /\ x \in answered[p] /\ activeRecovery'[p] = activeRecovery[p]
             /\ QueueCalm(x) /\ LiveCalm(x) /\ HeldCalm(p) /\ AnswersCalm(p)
  <2>1. x \in BROWSERS
    BY <1>1, <1>4 DEF AskerOK
  <2> QED BY <2>1 DEF Calm
<1> QED BY <1>1, <1>2, <1>3, <1>4, RecStep

LEMMA RestartRec ==
    ASSUME Good, Rec, Restart, era \in Nat, era' = 0
    PROVE  Rec'
<1>1. /\ window' = {} /\ boot_start_id' = current_id + 1
      /\ inbox' = inbox /\ cache' = cache /\ historyInfo' = historyInfo
      /\ activeRecovery' = activeRecovery /\ requests' = requests /\ answered' = answered
  BY DEF Restart, page
<1>2. current_id \in Nat /\ Boundary \in 1..(current_id + 1)
  BY BoundaryIs DEF Good, ServerOK, Boundary
<1>3. Boundary' = current_id + 1
  BY <1>1 DEF Boundary, RestoreBefore
<1>4. ASSUME NEW p \in BROWSERS
      PROVE  Calm(p) /\ QueueOK(inbox'[p], Boundary', requests, activeRecovery)
  <2>1. inbox[p] \in Seq(Frames(published)) /\ QueueOK(inbox[p], Boundary, requests, activeRecovery)
    BY PageIs DEF Rec, BrowserOK
  <2>2. QueueOK(inbox[p], Boundary', requests, activeRecovery)
    BY <1>2, <1>3, <2>1, QueueRises
  <2> QED BY <1>1, <2>2, CalmSame
<1> QED BY <1>1, <1>2, <1>3, <1>4, RecServer

LEMMA ChatRec ==
    ASSUME Good, Rec, Chat
    PROVE  Rec'
<1>1. PICK m, V : 
        /\ m.id = current_id + 1 /\ V = {n \in window \cup {m} : n.id > m.id - MAX_MESSAGES}
        /\ window' = V /\ published' = published \cup {m}
        /\ inbox' = Broadcast(<<Text(m), Info(RestoreBefore(V, boot_start_id))>>)
  <2>1. PICK audience : 
          LET m == [id |-> current_id + 1, seen_by |-> audience, era |-> era]
              kept == {n \in window \cup {m} : n.id > m.id - MAX_MESSAGES}
          IN  /\ window' = kept
              /\ published' = published \cup {m}
              /\ inbox' = Broadcast(<<Text(m), Info(RestoreBefore(kept, boot_start_id))>>)
    BY DEF Chat
  <2>2. [id |-> current_id + 1, seen_by |-> audience, era |-> era].id = current_id + 1
    OBVIOUS
  <2> QED BY <2>1, <2>2
<1>2. /\ boot_start_id' = boot_start_id /\ cache' = cache /\ historyInfo' = historyInfo
      /\ activeRecovery' = activeRecovery /\ requests' = requests /\ answered' = answered
  BY DEF Chat, page
<1> SUFFICES ASSUME NEW bd, bd = RestoreBefore(V, boot_start_id), NEW P, P = published \cup {m},
                    NEW next, next = current_id + 1
             PROVE  Rec'
  OBVIOUS
<1>3. ServerOK(window, published, boot_start_id, current_id) /\ current_id \in Nat
      /\ Boundary \in Nat
  <2>1. ServerOK(window, published, boot_start_id, current_id) /\ current_id \in Nat
    BY DEF Good, ServerOK
  <2>2. Boundary \in 1..(current_id + 1)
    BY ONLY <2>1, BoundaryIs DEF Boundary
  <2> QED BY <2>1, <2>2
<1>4. ServerOK(V, P, boot_start_id, next) /\ Boundary <= bd
  <2>1. V = {n \in window \cup {m} : n.id > m.id - MAX_MESSAGES} /\ m.id = current_id + 1
    BY <1>1
  <2>2. /\ ServerOK(V, published \cup {m}, boot_start_id, current_id + 1)
        /\ RestoreBefore(window, boot_start_id) <= RestoreBefore(V, boot_start_id)
    BY ONLY <1>3, <2>1, ServerStores
  <2> QED BY <2>2 DEF Boundary
<1>5. bd \in Nat /\ bd <= m.id /\ m \in P /\ m.id \in Nat
  <2>1. bd \in 1..(next + 1) /\ \A n \in P : n \in V <=> bd <= n.id
    BY ONLY <1>4, bd = RestoreBefore(V, boot_start_id), BoundaryIs
  <2>2. m \in V
    <3>1. m.id > m.id - MAX_MESSAGES
      BY <1>1, <1>3, Facts
    <3> QED BY <1>1, <3>1
  <2>3. next \in Nat /\ m \in P
    BY <1>3
  <2> QED BY <1>1, <1>3, <2>1, <2>2, <2>3
<1>6. Boundary' = bd
  BY <1>1, <1>2 DEF Boundary
<1> SUFFICES ASSUME NEW r, r = <<Text(m), Info(bd)>> PROVE Rec'
  OBVIOUS
<1>7. /\ r \in Seq(Frames(P))
      /\ \A i \in 1..Len(r) :
            /\ r[i].type = "historyInfo" => r[i].restore_before_id <= bd
            /\ r[i].type = "historyRequest" => RequestOK(r[i], bd, requests, activeRecovery)
            /\ r[i].type = "text" => bd <= r[i].message.id
  <2>1. Text(m) \in Frames(P) /\ Info(bd) \in Frames(P)
    BY <1>5 DEF Frames
  <2>2. r \in Seq(Frames(P)) /\ Len(r) = 2 /\ r[1] = Text(m) /\ r[2] = Info(bd)
    BY <2>1
  <2>3. \A i \in 1..Len(r) : r[i] = Text(m) \/ r[i] = Info(bd)
    BY <2>2
  <2>4. /\ Text(m).type = "text" /\ Text(m).message = m
        /\ Info(bd).type = "historyInfo" /\ Info(bd).restore_before_id = bd
    BY DEF Text, Info
  <2> QED BY <1>5, <2>2, <2>3, <2>4
<1>8. ASSUME NEW p \in BROWSERS
      PROVE  Calm(p) /\ QueueOK(inbox'[p], Boundary', requests, activeRecovery)
  <2>1. /\ inbox[p] \in Seq(Frames(published)) /\ QueueOK(inbox[p], Boundary, requests, activeRecovery)
        /\ cache'[p] = cache[p] /\ published \subseteq P
    BY <1>2, PageIs DEF Rec, BrowserOK
  <2>2. QueueOK(inbox[p], bd, requests, activeRecovery)
    BY <1>3, <1>4, <1>5, <2>1, QueueRises
  <2>3. CASE inbox'[p] = inbox[p]
    BY <1>6, <2>1, <2>2, <2>3, CalmSame
  <2>4. CASE inbox'[p] = inbox[p] \o r
    <3>1. Calm(p) /\ QueueOK(inbox'[p], bd, requests, activeRecovery)
      BY ONLY Good, p \in BROWSERS, <1>4, <1>5, <1>7, <2>1, <2>2, <2>4, CalmSent
    <3> QED BY <1>6, <3>1
  <2> QED BY <1>1, <2>3, <2>4 DEF Broadcast
<1> QED BY <1>2, <1>4, <1>5, <1>6, <1>8, RecServer

LEMMA InitRec == Init => Rec
<1> SUFFICES ASSUME Init PROVE Rec
  OBVIOUS
<1>1. /\ inbox = [b \in BROWSERS |-> <<>>] /\ historyInfo = [b \in BROWSERS |-> 0]
      /\ activeRecovery = [b \in BROWSERS |-> NoRecovery]
      /\ requests = [b \in BROWSERS |-> 0] /\ answered = [b \in BROWSERS |-> {}]
      /\ window = {} /\ boot_start_id = 1
  BY DEF Init
<1>2. Boundary = 1
  BY <1>1 DEF Boundary, RestoreBefore
<1>3. \A b \in BROWSERS : AskerOK(b)
  BY <1>1, <1>2 DEF AskerOK, NoRecovery
<1>4. \A b \in BROWSERS : QueueOK(inbox[b], Boundary, requests, activeRecovery)
  <2>1. \A i \in 1..Len(<<>>) : FALSE
    OBVIOUS
  <2> QED BY <1>1, <2>1 DEF QueueOK
<1> QED BY <1>1, <1>3, <1>4 DEF Rec

-----------------------------------------------------------------------------
RInv == era \in Nat /\ (era = 0 => Good /\ Rec)

LEMMA StepRInv == RInv /\ [Next]_vars => RInv'
<1> SUFFICES ASSUME RInv, [Next]_vars PROVE RInv'
  OBVIOUS
<1>1. ASSUME era' = 0 => era = 0, Good /\ Rec => Rec' PROVE RInv'
  <2>1. IInv
    BY DEF RInv, IInv
  <2>2. IInv'
    BY <2>1, StepIInv
  <2> QED BY <1>1, <2>2 DEF RInv, IInv
<1>2. CASE UNCHANGED vars
  <2>1. /\ era' = era /\ Boundary' = Boundary /\ inbox' = inbox /\ cache' = cache
        /\ historyInfo' = historyInfo /\ activeRecovery' = activeRecovery
        /\ requests' = requests /\ answered' = answered
    BY <1>2 DEF vars, server, page, Boundary
  <2>2. Rec => Rec'
    BY <2>1 DEF Rec, AskerOK, GaveAll
  <2> QED BY <1>1, <2>1, <2>2
<1>3. CASE Chat
  BY <1>1, <1>3, ChatRec DEF Chat
<1>4. CASE Restart
  <2>1. era' = era \/ era' = era + 1
    BY <1>4 DEF Restart
  <2>2. era \in Nat /\ (era' = 0 => era = 0)
    BY <2>1 DEF RInv
  <2>3. CASE era' = 0
    BY <1>1, <1>4, <2>2, <2>3, RestartRec
  <2>4. CASE era' # 0
    <3>1. era' \in Nat
      BY <2>1, <2>2
    <3> QED BY <2>4, <3>1 DEF RInv
  <2> QED BY <2>3, <2>4
<1>5. ASSUME NEW b \in BROWSERS,
             \/ Break(b) \/ Join(b) \/ Reload(b)
             \/ TextArrives(b) \/ InfoArrives(b) \/ PresenceArrives(b)
             \/ StartHistoryRecovery(b) \/ FinishHistoryRecovery(b)
             \/ RequestArrives(b) \/ ResponseArrives(b)
      PROVE  RInv'
  <2>1. UNCHANGED server
    BY <1>5 DEF Break, Join, Reload, TextArrives, InfoArrives, PresenceArrives,
                StartHistoryRecovery, FinishHistoryRecovery, RequestArrives, ResponseArrives
  <2>2. era' = era
    BY <2>1 DEF server
  <2>3. Good /\ Rec => Rec'
    BY <1>5, BreakRec, JoinRec, ReloadRec, TextRec, InfoRec, PresenceRec, StartRec,
       FinishRec, RequestRec, ResponseRec
  <2> QED BY <1>1, <2>2, <2>3
<1> QED BY <1>2, <1>3, <1>4, <1>5 DEF Next

LEMMA GoodRecoveryIsComplete == Good /\ Rec => RecoveryIsComplete
<1> SUFFICES ASSUME Good, Rec, NEW b \in BROWSERS,
                    \A i \in DOMAIN inbox[b] : inbox[b][i].type # "historyResponse",
                    NEW p \in answered[b], NEW m \in cache[p].regular,
                    b \in m.seen_by, m.id < activeRecovery[b].before
             PROVE  Holds(cache[b], m)
  BY DEF RecoveryIsComplete, Holds, Full
<1>1. Gave(b, activeRecovery[b], inbox[p], cache[p], cache[b], inbox[b])
  BY DEF Rec, GaveAll
<1>2. DOMAIN inbox[b] = 1..Len(inbox[b])
  BY PageIs DEF BrowserOK
<1>3. \A j \in 1..Len(inbox[b]) : inbox[b][j] # Response(activeRecovery[b].request, m)
  BY <1>2 DEF Response
<1> QED BY <1>1, <1>3 DEF Gave

\* Whoever answered the recovery in progress, and has not been reloaded since,
\* gave the one who asked all it had for it (protocol.c relays all of it, and
\* importRecoveredMessage drops only what is known or another's).
THEOREM RecoveryIsCompleteHolds == Spec => [](era = 0 => RecoveryIsComplete)
<1>1. Init => RInv
  BY InitIInv, InitGood, InitRec DEF IInv, RInv
<1>2. RInv => (era = 0 => RecoveryIsComplete)
  BY GoodRecoveryIsComplete DEF RInv
<1> QED BY <1>1, <1>2, StepRInv, PTL DEF Spec

=============================================================================
