----------------------------- MODULE Judo_proofs -----------------------------
(***************************************************************************)
(* Proofs about libjudo: its listeners and its copy of expat.              *)
(*                                                                         *)
(* What a listener is told and what it makes of it, for documents of any   *)
(* length and depth and any number of them.                                *)
(*                                                                         *)
(* The stack holds the end of the text, from where the depth last was 1    *)
(* (WholeTo): its lowest element begins there, and each of the others where*)
(* the one below it leaves off (Marks).                                    *)
(***************************************************************************)
EXTENDS Listeners, DTDTables, ParseBuffer, SequenceLemmas, FiniteSetTheorems

-----------------------------------------------------------------------------
(* Sets of places                                                          *)

LEMMA PlacesAreFinite ==
  ASSUME NEW N \in Nat, NEW K \in SUBSET (1 .. N)
  PROVE  IsFiniteSet(K) /\ Cardinality(K) \in Nat
<1>1. IsFiniteSet(1 .. N)
  BY FS_Interval
<1>2. IsFiniteSet(K)
  BY <1>1, FS_Subset
<1> QED
  BY <1>2, FS_CardinalityType

\* The ranks of the places are the numbers from 1 on.
LEMMA RankType ==
  ASSUME NEW N \in Nat, NEW K \in SUBSET (1 .. N), NEW n \in K
  PROVE  Rank(K, n) \in 1 .. Cardinality(K)
<1> DEFINE U == {m \in K : m <= n}
<1>1. IsFiniteSet(K) /\ Cardinality(K) \in Nat
  BY PlacesAreFinite
<1>2. U \in SUBSET K /\ n \in U
  OBVIOUS
<1> HIDE DEF U
<1>3. IsFiniteSet(U) /\ Cardinality(U) <= Cardinality(K) /\ Cardinality(U) \in Nat
  BY <1>1, <1>2, FS_Subset, FS_CardinalityType
<1>4. Cardinality(U) # 0
  BY <1>2, <1>3, FS_EmptySet
<1> QED
  BY <1>1, <1>3, <1>4 DEF Rank, U

LEMMA IntervalCount ==
  ASSUME NEW N \in Nat, NEW n \in Nat, N < n
  PROVE  IsFiniteSet(N + 1 .. n) /\ Cardinality(N + 1 .. n) = n - N
BY FS_Interval

LEMMA DisjointUnion ==
  ASSUME NEW A, NEW B, IsFiniteSet(A), IsFiniteSet(B), A \cap B = {}
  PROVE  Cardinality(A \cup B) = Cardinality(A) + Cardinality(B)
<1>1. Cardinality(A \cup B) = Cardinality(A) + Cardinality(B) - Cardinality(A \cap B)
  BY FS_Union
<1>2. Cardinality(A \cap B) = 0
  BY FS_EmptySet
<1>3. Cardinality(A) \in Nat /\ Cardinality(B) \in Nat
  BY FS_CardinalityType
<1> QED
  BY <1>1, <1>2, <1>3

\* Places behind those of K
LEMMA CountBehind ==
  ASSUME NEW N \in Nat, NEW K \in SUBSET (1 .. N), NEW n \in Nat, N < n
  PROVE  Cardinality(K \cup (N + 1 .. n)) = Cardinality(K) + (n - N)
<1>1. K \cap (N + 1 .. n) = {}
  OBVIOUS
<1>2. IsFiniteSet(K)
  BY PlacesAreFinite
<1>3. IsFiniteSet(N + 1 .. n) /\ Cardinality(N + 1 .. n) = n - N
  BY IntervalCount
<1> QED
  BY <1>1, <1>2, <1>3, DisjointUnion

LEMMA RankBehind ==
  ASSUME NEW N \in Nat, NEW K \in SUBSET (1 .. N), NEW M \in Nat, N < M
  PROVE  /\ \A n \in K : Rank(K \cup (N + 1 .. M), n) = Rank(K, n)
         /\ \A n \in N + 1 .. M : Rank(K \cup (N + 1 .. M), n) = Cardinality(K) + (n - N)
<1>1. ASSUME NEW n \in K
      PROVE  Rank(K \cup (N + 1 .. M), n) = Rank(K, n)
  <2>1. {m \in K \cup (N + 1 .. M) : m <= n} = {m \in K : m <= n}
    OBVIOUS
  <2> QED
    BY <2>1 DEF Rank
<1>2. ASSUME NEW n \in N + 1 .. M
      PROVE  Rank(K \cup (N + 1 .. M), n) = Cardinality(K) + (n - N)
  <2>1. \A m \in K : m \in 1 .. N
    OBVIOUS
  <2>3. n \in Nat /\ N < n /\ n <= M
    OBVIOUS
  <2>2. {m \in K \cup (N + 1 .. M) : m <= n} = K \cup (N + 1 .. n)
    <3>1. ASSUME NEW m \in K
          PROVE  m <= n
      BY <2>1, <2>3
    <3>2. ASSUME NEW m \in N + 1 .. M
          PROVE  m <= n <=> m \in N + 1 .. n
      BY <2>3
    <3>3. N + 1 .. n \subseteq N + 1 .. M
      BY <2>3
    <3> QED
      BY <3>1, <3>2, <3>3
  <2> QED
    BY <2>2, <2>3, CountBehind DEF Rank
<1> QED
  BY <1>1, <1>2

\* What is listed behind the rest follows it.
LEMMA ListsMore ==
  ASSUME NEW N \in Nat, NEW K \in SUBSET (1 .. N), NEW M \in Nat, N < M,
         NEW S, NEW s \in Seq(S), NEW r \in Seq(S), Len(r) = M - N,
         NEW f, NEW g, Lists(s, K, f), \A n \in K : g[n] = f[n],
         \A n \in N + 1 .. M : r[n - N] = g[n]
  PROVE  Lists(s \o r, K \cup (N + 1 .. M), g)
<1> DEFINE L == N + 1 .. M
           C == Cardinality(K)
<1>1. C \in Nat /\ Len(s) = C
  BY PlacesAreFinite DEF Lists
<1>2. Cardinality(K \cup L) = C + (M - N)
  BY CountBehind
<1>3. /\ \A n \in K : Rank(K \cup L, n) = Rank(K, n)
      /\ \A n \in L : Rank(K \cup L, n) = C + (n - N)
  BY RankBehind
<1>4. /\ \A n \in K : Rank(K, n) \in 1 .. C
      /\ \A n \in K : s[Rank(K, n)] = f[n]
  BY RankType DEF Lists
<1> HIDE DEF C
<1>5. /\ Len(s \o r) = C + (M - N)
      /\ \A i \in 1 .. C + (M - N) : (s \o r)[i] = IF i <= C THEN s[i] ELSE r[i - C]
  <2>1. /\ Len(s \o r) = Len(s) + Len(r)
        /\ \A i \in 1 .. Len(s) + Len(r) :
              (s \o r)[i] = IF i <= Len(s) THEN s[i] ELSE r[i - Len(s)]
    BY ConcatProperties
  <2> QED
    BY <1>1, <2>1
<1>6. ASSUME NEW n \in K
      PROVE  (s \o r)[Rank(K \cup L, n)] = g[n]
  <2>0. \A i \in 1 .. C : i \in 1 .. C + (M - N)
    BY <1>1
  <2>1. Rank(K, n) \in 1 .. C /\ Rank(K, n) \in 1 .. C + (M - N)
    BY <1>4, <2>0
  <2>2. (s \o r)[Rank(K, n)] = s[Rank(K, n)]
    BY <1>5, <2>1
  <2> QED
    BY <1>3, <1>4, <2>2
<1>7. ASSUME NEW n \in L
      PROVE  (s \o r)[Rank(K \cup L, n)] = g[n]
  <2>1. /\ C + (n - N) \in 1 .. C + (M - N)
        /\ ~ (C + (n - N) <= C) /\ (C + (n - N)) - C = n - N
    BY <1>1
  <2>2. (s \o r)[C + (n - N)] = r[n - N]
    BY <1>5, <2>1
  <2> QED
    BY <1>3, <2>2
<1> QED
  BY <1>2, <1>5, <1>6, <1>7 DEF Lists

LEMMA ListsOneMore ==
  ASSUME NEW N \in Nat, NEW K \in SUBSET (1 .. N),
         NEW S, NEW s \in Seq(S), NEW e \in S,
         NEW f, NEW g, Lists(s, K, f), \A n \in K : g[n] = f[n], g[N + 1] = e
  PROVE  Lists(Append(s, e), K \cup {N + 1}, g)
<1>1. N + 1 .. N + 1 = {N + 1}
  OBVIOUS
<1>2. <<e>> \in Seq(S) /\ Len(<<e>>) = (N + 1) - N /\ s \o <<e>> = Append(s, e)
  OBVIOUS
<1>3. \A n \in N + 1 .. N + 1 : <<e>>[n - N] = g[n]
  OBVIOUS
<1>4. PICK M \in Nat : M = N + 1 /\ N < M
  OBVIOUS
<1>5. Len(<<e>>) = M - N /\ \A n \in N + 1 .. M : <<e>>[n - N] = g[n]
  BY <1>2, <1>3, <1>4
<1>6. Lists(s \o <<e>>, K \cup (N + 1 .. M), g)
  BY <1>2, <1>4, <1>5, ListsMore
<1> QED
  BY <1>1, <1>2, <1>4, <1>6

LEMMA ListsNone ==
  ASSUME NEW f
  PROVE  Lists(<<>>, {}, f)
BY FS_EmptySet DEF Lists

\* The largest of some numbers
LEMMA MaxIs ==
  ASSUME NEW T \in SUBSET Int, NEW m \in T, \A x \in T : x <= m
  PROVE  Max(T) = m
<1>1. \E x \in T : \A y \in T : x >= y
  OBVIOUS
<1>2. Max(T) \in T /\ \A y \in T : Max(T) >= y
  BY <1>1 DEF Max
<1>3. Max(T) >= m /\ Max(T) <= m /\ Max(T) \in Int /\ m \in Int
  BY <1>2
<1> QED
  BY <1>3

-----------------------------------------------------------------------------
(* The depth of a text, and what its parts tell                            *)

Opened(t, n) == {k \in 1 .. n : t[k] \in Names}
ClosedIn(t, n) == {k \in 1 .. n : t[k] = "/"}

LEMMA DepthIs ==
  ASSUME NEW t, NEW n
  PROVE  Depth(t, n) = Cardinality(Opened(t, n)) - Cardinality(ClosedIn(t, n))
BY DEF Depth, Opened, ClosedIn

LEMMA DepthOfNone ==
  ASSUME NEW t
  PROVE  Depth(t, 0) = 0
<1>1. Opened(t, 0) = {} /\ ClosedIn(t, 0) = {}
  BY DEF Opened, ClosedIn
<1> QED
  BY <1>1, DepthIs, FS_EmptySet

LEMMA CountOneMore ==
  ASSUME NEW N \in Nat, NEW K \in SUBSET (1 .. N)
  PROVE  Cardinality(K \cup {N + 1}) = Cardinality(K) + 1 /\ Cardinality(K) \in Nat
<1>1. IsFiniteSet(K) /\ Cardinality(K) \in Nat
  BY PlacesAreFinite
<1>2. N + 1 \notin K
  OBVIOUS
<1> QED
  BY <1>1, <1>2, FS_AddElement

\* A token changes no depth before it, and the one behind it by one.
LEMMA DepthOfOneMore ==
  ASSUME NEW t \in Seq(Tokens), NEW x \in Tokens
  PROVE  LET u == Append(t, x)
             N == Len(t)
         IN  /\ \A n \in 0 .. N : Depth(u, n) = Depth(t, n)
             /\ x \in Names => Depth(u, N + 1) = Depth(t, N) + 1
             /\ x = "/" => Depth(u, N + 1) = Depth(t, N) - 1
             /\ x = "." => Depth(u, N + 1) = Depth(t, N)
<1> DEFINE u == Append(t, x)
           N == Len(t)
<1>1. /\ N \in Nat
      /\ \A k \in 1 .. N : u[k] = t[k]
      /\ u[N + 1] = x
  OBVIOUS
<1> HIDE DEF u, N
<1>2. ASSUME NEW n \in 0 .. N
      PROVE  Depth(u, n) = Depth(t, n)
  <2>1. Opened(u, n) = Opened(t, n) /\ ClosedIn(u, n) = ClosedIn(t, n)
    BY <1>1 DEF Opened, ClosedIn
  <2> QED
    BY <2>1, DepthIs
<1>3. /\ Opened(t, N) \in SUBSET (1 .. N) /\ ClosedIn(t, N) \in SUBSET (1 .. N)
      /\ Opened(u, N + 1) = IF x \in Names THEN Opened(t, N) \cup {N + 1} ELSE Opened(t, N)
      /\ ClosedIn(u, N + 1) = IF x = "/" THEN ClosedIn(t, N) \cup {N + 1} ELSE ClosedIn(t, N)
  BY <1>1 DEF Opened, ClosedIn
<1>4. /\ Cardinality(Opened(t, N) \cup {N + 1}) = Cardinality(Opened(t, N)) + 1
      /\ Cardinality(ClosedIn(t, N) \cup {N + 1}) = Cardinality(ClosedIn(t, N)) + 1
      /\ Cardinality(Opened(t, N)) \in Nat /\ Cardinality(ClosedIn(t, N)) \in Nat
  BY <1>1, <1>3, CountOneMore
<1>5. "/" \notin Names /\ "." \notin Names /\ "." # "/"
  BY ElementStreamAssumption
<1>6. /\ x \in Names => Depth(u, N + 1) = Depth(t, N) + 1
      /\ x = "/" => Depth(u, N + 1) = Depth(t, N) - 1
      /\ x = "." => Depth(u, N + 1) = Depth(t, N)
  BY <1>3, <1>4, <1>5, DepthIs
<1> QED
  BY <1>2, <1>6 DEF u, N

LEMMA LargestFromNone ==
  ASSUME NEW n \in Nat, NEW T \in SUBSET (1 .. n)
  PROVE  Max({0} \cup T) \in 0 .. n /\ \A x \in T : x <= Max({0} \cup T)
<1>1. CASE T = {}
  <2>1. Max({0} \cup T) = 0
    BY <1>1, MaxIs
  <2> QED
    BY <1>1, <2>1
<1>2. CASE T # {}
  <2>1. PICK m \in T : m = Max(T) /\ \A x \in T : x <= m
    BY <1>2, LargestOfSome
  <2>2. m \in 1 .. n /\ \A x \in T : x \in 1 .. n
    OBVIOUS
  <2>3. \A x \in {0} \cup T : x <= m
    BY <2>1, <2>2
  <2>4. {0} \cup T \in SUBSET Int /\ m \in {0} \cup T
    BY <2>2
  <2>5. Max({0} \cup T) = m
    BY <2>3, <2>4, MaxIs
  <2> QED
    BY <2>2, <2>3, <2>5
<1> QED
  BY <1>1, <1>2

LEMMA WholeToType ==
  ASSUME NEW t, NEW n \in Nat
  PROVE  /\ WholeTo(t, n) \in 0 .. n
         /\ \A m \in WholeTo(t, n) + 1 .. n : Depth(t, m) # 1
<1> DEFINE T == {m \in 1 .. n : Depth(t, m) = 1}
<1>1. T \in SUBSET (1 .. n)
  OBVIOUS
<1> HIDE DEF T
<1>2. PICK w \in 0 .. n : w = Max({0} \cup T) /\ \A m \in T : m <= w
  BY <1>1, LargestFromNone
<1>3. WholeTo(t, n) = w
  BY <1>2 DEF WholeTo, T
<1>4. \A m \in w + 1 .. n : m \notin T /\ m \in 1 .. n
  BY <1>2
<1> QED
  BY <1>2, <1>3, <1>4 DEF T

\* It is known by what it says.
LEMMA WholeToIs ==
  ASSUME NEW t, NEW n \in Nat, NEW w \in 0 .. n,
         w = 0 \/ Depth(t, w) = 1, \A m \in w + 1 .. n : Depth(t, m) # 1
  PROVE  WholeTo(t, n) = w
<1> DEFINE T == {0} \cup {m \in 1 .. n : Depth(t, m) = 1}
<1>1. w \in T /\ T \in SUBSET Int
  OBVIOUS
<1>2. ASSUME NEW x \in T
      PROVE  x <= w
  OBVIOUS
<1>3. Max(T) = w
  BY <1>1, <1>2, MaxIs
<1> QED
  BY <1>3 DEF WholeTo

\* Nor does it change what ended before it, ...
LEMMA EndsOfOneMore ==
  ASSUME NEW t \in Seq(Tokens), NEW x \in Tokens
  PROVE  LET u == Append(t, x)
         IN  \A n \in 1 .. Len(t) : /\ Ends(u, n) <=> Ends(t, n)
                                    /\ EventAt(u, n) = EventAt(t, n)
<1> DEFINE u == Append(t, x)
<1>1. /\ Len(t) \in Nat
      /\ \A k \in 1 .. Len(t) : u[k] = t[k]
      /\ \A k \in 0 .. Len(t) : Depth(u, k) = Depth(t, k)
  BY DepthOfOneMore
<1>2. u \in Seq(Tokens) /\ Len(u) = Len(t) + 1
  OBVIOUS
<1> HIDE DEF u
<1> SUFFICES ASSUME NEW n \in 1 .. Len(t)
             PROVE  (Ends(u, n) <=> Ends(t, n)) /\ EventAt(u, n) = EventAt(t, n)
  BY DEF u
<1>3. Ends(u, n) <=> Ends(t, n)
  BY <1>1 DEF Ends
<1>4. PICK b \in 1 .. n : b = WholeTo(t, n - 1) + 1 /\ b = WholeTo(u, n - 1) + 1
  <2>1. {m \in 1 .. n - 1 : Depth(u, m) = 1} = {m \in 1 .. n - 1 : Depth(t, m) = 1}
    BY <1>1
  <2>2. WholeTo(u, n - 1) = WholeTo(t, n - 1)
    BY <2>1 DEF WholeTo
  <2>3. n - 1 \in Nat
    BY <1>1
  <2>4. WholeTo(t, n - 1) \in 0 .. n - 1
    BY <2>3, WholeToType
  <2> QED
    BY <2>2, <2>3, <2>4
<1>5. SubSeq(u, b, n) = SubSeq(t, b, n)
  BY <1>1, <1>2
<1>6. u[1] = t[1] /\ u[n] = t[n] /\ Depth(u, n) = Depth(t, n)
  BY <1>1
<1> QED
  BY <1>3, <1>4, <1>5, <1>6 DEF EventAt

LEMMA EventsOfOneMore ==
  ASSUME NEW t \in Seq(Tokens), NEW x \in Tokens, NEW S, NEW es \in Seq(S),
         Lists(es, EndsOf(t), [n \in EndsOf(t) |-> EventAt(t, n)])
  PROVE  LET u == Append(t, x)
             N == Len(t)
             ToldIn(s) == Lists(s, EndsOf(u), [n \in EndsOf(u) |-> EventAt(u, n)])
         IN  /\ ~ Ends(u, N + 1) => ToldIn(es)
             /\ Ends(u, N + 1) /\ EventAt(u, N + 1) \in S
                    => ToldIn(Append(es, EventAt(u, N + 1)))
<1> DEFINE u == Append(t, x)
           N == Len(t)
           f == [n \in EndsOf(t) |-> EventAt(t, n)]
           g == [n \in EndsOf(u) |-> EventAt(u, n)]
<1>1. N \in Nat /\ Len(u) = N + 1
  OBVIOUS
<1>2. \A n \in 1 .. N : (Ends(u, n) <=> Ends(t, n)) /\ EventAt(u, n) = EventAt(t, n)
  BY EndsOfOneMore
<1> HIDE DEF u, N
<1>3. EndsOf(t) \in SUBSET (1 .. N)
  BY DEF EndsOf, N
<1>4. EndsOf(u) = IF Ends(u, N + 1) THEN EndsOf(t) \cup {N + 1} ELSE EndsOf(t)
  BY <1>1, <1>2 DEF EndsOf, N
<1>5. \A n \in EndsOf(t) : f[n] = EventAt(u, n) /\ n \in EndsOf(u)
  BY <1>2, <1>3, <1>4
<1>6. \A n \in EndsOf(u) : g[n] = EventAt(u, n)
  OBVIOUS
<1>7. Lists(es, EndsOf(t), f)
  OBVIOUS
<1> HIDE DEF f, g
<1>8. CASE ~ Ends(u, N + 1)
  <2>1. Lists(es, EndsOf(u), g)
    BY <1>4, <1>5, <1>6, <1>7, <1>8 DEF Lists
  <2> QED
    BY <1>8, <2>1 DEF u, N, g
<1>9. ASSUME Ends(u, N + 1), EventAt(u, N + 1) \in S
      PROVE  Lists(Append(es, EventAt(u, N + 1)), EndsOf(u), g)
  <2>1. N + 1 \in EndsOf(u)
    BY <1>4, <1>9
  <2>2. g[N + 1] = EventAt(u, N + 1) /\ \A n \in EndsOf(t) : g[n] = f[n]
    BY <1>5, <1>6, <2>1
  <2>3. Lists(Append(es, EventAt(u, N + 1)), EndsOf(t) \cup {N + 1}, g)
    BY <1>1, <1>3, <1>7, <1>9, <2>2, ListsOneMore
  <2> QED
    BY <1>4, <1>9, <2>3
<1> QED
  BY <1>8, <1>9 DEF u, N, g

-----------------------------------------------------------------------------
(* The stack over its text                                                 *)

\* The lowest element begins behind the last place of depth 1, and each ends
\* where the next begins, the topmost with the text.
Marks(t, es, q) ==
    /\ q \in [1 .. Len(es) + 1 -> 1 .. Len(t) + 1]
    /\ q[1] = WholeTo(t, Len(t)) + 1
    /\ q[Len(es) + 1] = Len(t) + 1
    /\ \A k \in 1 .. Len(es) : /\ q[k] < q[k + 1]
                               /\ es[k] = SubSeq(t, q[k], q[k + 1] - 1)

Stacked(t, es) == \E q : Marks(t, es, q)

LEMMA SubSeqOfOneMore ==
  ASSUME NEW S, NEW t \in Seq(S), NEW x \in S, NEW m \in 1 .. Len(t) + 1
  PROVE  /\ \A n \in m - 1 .. Len(t) : SubSeq(Append(t, x), m, n) = SubSeq(t, m, n)
         /\ SubSeq(Append(t, x), m, Len(t) + 1) = Append(SubSeq(t, m, Len(t)), x)
<1> DEFINE u == Append(t, x)
           N == Len(t)
<1>1. /\ N \in Nat /\ u \in Seq(S) /\ Len(u) = N + 1
      /\ \A i \in 1 .. N : u[i] = t[i]
      /\ u[N + 1] = x
  OBVIOUS
<1> HIDE DEF u, N
<1>2. m \in 1 .. N + 1
  BY DEF N
<1>3. ASSUME NEW n \in m - 1 .. N
      PROVE  SubSeq(u, m, n) = SubSeq(t, m, n)
  BY <1>1, <1>2 DEF N
<1>4. SubSeq(u, m, N + 1) = Append(SubSeq(t, m, N), x)
  <2>1. m \in 1 .. Len(u) /\ N + 1 \in m .. Len(u) /\ N + 1 - 1 = N /\ N \in m - 1 .. N
    BY <1>1, <1>2
  <2>2. SubSeq(u, m, N + 1) = SubSeq(u, m, N) \o <<x>>
    <3>1. PICK n \in m .. Len(u) : n = N + 1
      BY <2>1
    <3>2. SubSeq(u, m, n) = SubSeq(u, m, n - 1) \o <<u[n]>>
      BY <1>1, <2>1, SubSeqRecursiveSecond
    <3>3. n - 1 = N /\ u[n] = x
      BY <1>1, <3>1
    <3> QED
      BY <3>1, <3>2, <3>3
  <2>3. PICK v \in Seq(S) : v = SubSeq(t, m, N)
    <3>1. \A i \in m .. N : t[i] \in S
      BY <1>2 DEF N
    <3>2. m \in Int /\ N \in Int
      BY <1>1, <1>2
    <3>3. SubSeq(t, m, N) \in Seq(S)
      BY <3>1, <3>2, SubSeqProperties
    <3> QED
      BY <3>3
  <2>4. SubSeq(u, m, N + 1) = v \o <<x>>
    BY <1>1, <1>3, <2>1, <2>2, <2>3
  <2>5. v \o <<x>> = Append(v, x)
    OBVIOUS
  <2> QED
    BY <2>3, <2>4, <2>5
<1> QED
  BY <1>3, <1>4 DEF u, N

\* Where the depth behind a token is not 1, nothing more is whole.
LEMMA WholeToOfOneMore ==
  ASSUME NEW t \in Seq(Tokens), NEW x \in Tokens
  PROVE  LET u == Append(t, x)
             N == Len(t)
         IN  /\ WholeTo(u, N) = WholeTo(t, N)
             /\ WholeTo(t, N) \in 0 .. N
             /\ WholeTo(u, N + 1) =
                   IF Depth(u, N + 1) = 1 THEN N + 1 ELSE WholeTo(t, N)
<1> DEFINE u == Append(t, x)
           N == Len(t)
           V == {m \in 1 .. N + 1 : Depth(u, m) = 1}
           T == {m \in 1 .. N : Depth(u, m) = 1}
<1>1. N \in Nat /\ \A n \in 0 .. N : Depth(u, n) = Depth(t, n)
  BY DepthOfOneMore
<1> HIDE DEF u, N
<1>2. T = {m \in 1 .. N : Depth(t, m) = 1}
  BY <1>1
<1>3. WholeTo(u, N) = WholeTo(t, N)
  BY <1>2 DEF WholeTo
<1>4. WholeTo(t, N) \in 0 .. N
  BY <1>1, WholeToType
<1>5. CASE Depth(u, N + 1) = 1
  <2>1. WholeTo(u, N + 1) = N + 1
    <3>1. N + 1 \in Nat /\ N + 1 \in 0 .. N + 1 /\ \A m \in N + 1 + 1 .. N + 1 : FALSE
      BY <1>1
    <3> QED
      BY <1>5, <3>1, WholeToIs
  <2> QED
    BY <1>3, <1>4, <1>5, <2>1 DEF u, N
<1>6. CASE Depth(u, N + 1) # 1
  <2>1. V = T
    BY <1>1, <1>6
  <2>2. WholeTo(u, N + 1) = WholeTo(u, N)
    BY <2>1 DEF WholeTo
  <2> QED
    BY <1>3, <1>4, <1>6, <2>2 DEF u, N
<1> QED
  BY <1>5, <1>6

\* One more token, in what becomes the topmost element
LEMMA StackedOneMore ==
  ASSUME NEW t \in Seq(Tokens), NEW x \in Tokens, NEW es, NEW fs, NEW q,
         Marks(t, es, q), Len(es) \in Nat, Len(fs) \in 1 .. Len(es) + 1,
         \A k \in 1 .. Len(fs) - 1 : fs[k] = es[k],
         fs[Len(fs)] = SubSeq(Append(t, x), q[Len(fs)], Len(t) + 1),
         Depth(Append(t, x), Len(t) + 1) # 1
  PROVE  Stacked(Append(t, x), fs)
<1> DEFINE u == Append(t, x)
           N == Len(t)
           L == Len(fs)
           r == [k \in 1 .. L + 1 |-> IF k = L + 1 THEN N + 2 ELSE q[k]]
<1>1. N \in Nat /\ Len(u) = N + 1 /\ L \in Nat \ {0}
  OBVIOUS
<1>2. \A m \in 1 .. N + 1 : \A n \in m - 1 .. N : SubSeq(u, m, n) = SubSeq(t, m, n)
  BY SubSeqOfOneMore
<1>3. WholeTo(u, N + 1) = WholeTo(t, N)
  BY WholeToOfOneMore
<1>4. /\ q \in [1 .. Len(es) + 1 -> 1 .. N + 1]
      /\ q[1] = WholeTo(t, N) + 1
      /\ \A k \in 1 .. Len(es) : /\ q[k] < q[k + 1]
                                 /\ es[k] = SubSeq(t, q[k], q[k + 1] - 1)
  BY DEF Marks
<1>5. /\ fs[L] = SubSeq(u, q[L], N + 1)
      /\ \A k \in 1 .. L - 1 : fs[k] = es[k] /\ k \in 1 .. Len(es)
      /\ \A k \in 1 .. L : k \in 1 .. Len(es) + 1
  OBVIOUS
<1> HIDE DEF u, N, L
<1>6. \A k \in 1 .. L : q[k] \in 1 .. N + 1
  BY <1>4, <1>5
<1>7. /\ r \in [1 .. L + 1 -> 1 .. N + 2]
      /\ r[1] = q[1] /\ r[L + 1] = N + 2
      /\ \A k \in 1 .. L : r[k] = q[k]
  BY <1>1, <1>6
<1> HIDE DEF r
<1>8. ASSUME NEW k \in 1 .. L
      PROVE  r[k] < r[k + 1] /\ fs[k] = SubSeq(u, r[k], r[k + 1] - 1)
  <2>1. CASE k = L
    <3>1. r[k] = q[L] /\ r[k + 1] = N + 2 /\ q[L] \in 1 .. N + 1 /\ N + 2 - 1 = N + 1
      BY <1>1, <1>6, <1>7, <2>1
    <3> QED
      BY <1>1, <1>5, <2>1, <3>1
  <2>2. CASE k # L
    <3>1. k \in 1 .. L - 1 /\ k + 1 \in 1 .. L
      BY <1>1, <2>2
    <3>2. r[k] = q[k] /\ r[k + 1] = q[k + 1] /\ q[k] < q[k + 1]
          /\ q[k] \in 1 .. N + 1 /\ q[k + 1] \in 1 .. N + 1
          /\ fs[k] = SubSeq(t, q[k], q[k + 1] - 1)
      BY <1>4, <1>5, <1>6, <1>7, <3>1
    <3>3. \A a, b \in 1 .. N + 1 : a < b => b - 1 \in a - 1 .. N
      BY <1>1
    <3>4. q[k + 1] - 1 \in q[k] - 1 .. N
      BY <3>2, <3>3
    <3> QED
      BY <1>2, <3>2, <3>4
  <2> QED
    BY <2>1, <2>2
<1>9. Len(u) + 1 = N + 2
  BY <1>1
<1>10. Marks(u, fs, r)
  BY <1>1, <1>3, <1>4, <1>7, <1>8, <1>9 DEF Marks, L
<1> QED
  BY <1>10 DEF Stacked, u

\* A token at the end of the text is one at the end of the topmost element.
LEMMA TopGrows ==
  ASSUME NEW t \in Seq(Tokens), NEW x \in Tokens, NEW es, Len(es) \in Nat \ {0},
         NEW q, Marks(t, es, q)
  PROVE  /\ Append(es[Len(es)], x) = SubSeq(Append(t, x), q[Len(es)], Len(t) + 1)
         /\ q[Len(es)] \in 1 .. Len(t)
<1>1. PICK L \in Nat \ {0} : L = Len(es)
  OBVIOUS
<1>2. PICK m \in 1 .. Len(t) + 1 : m = q[L]
  BY <1>1 DEF Marks
<1>3. /\ q[L + 1] = Len(t) + 1 /\ q[L] < q[L + 1]
      /\ es[L] = SubSeq(t, q[L], q[L + 1] - 1)
  BY <1>1 DEF Marks
<1>4. Len(t) \in Nat /\ Len(t) + 1 - 1 = Len(t)
  OBVIOUS
<1>5. es[L] = SubSeq(t, m, Len(t)) /\ m \in 1 .. Len(t)
  <2>0. q[L + 1] - 1 = Len(t)
    BY <1>3, <1>4
  <2>1. es[L] = SubSeq(t, m, Len(t))
    BY <1>2, <1>3, <2>0
  <2>2. m < Len(t) + 1
    BY <1>2, <1>3
  <2> QED
    BY <1>4, <2>1, <2>2
<1>6. SubSeq(Append(t, x), m, Len(t) + 1) = Append(SubSeq(t, m, Len(t)), x)
  BY SubSeqOfOneMore
<1> QED
  BY <1>1, <1>2, <1>5, <1>6

\* Behind a whole part the stack is empty.
LEMMA StackedNone ==
  ASSUME NEW t \in Seq(Tokens), WholeTo(t, Len(t)) = Len(t)
  PROVE  Stacked(t, <<>>)
<1>1. /\ [k \in 1 .. 1 |-> Len(t) + 1] \in [1 .. 0 + 1 -> 1 .. Len(t) + 1]
      /\ Len(<<>>) = 0 /\ Len(t) \in Nat
  OBVIOUS
<1>2. Marks(t, <<>>, [k \in 1 .. 1 |-> Len(t) + 1])
  BY <1>1 DEF Marks
<1> QED
  BY <1>2 DEF Stacked

-----------------------------------------------------------------------------
(* A token that is parsed                                                  *)

Calls == [kind : {"onDocumentStart", "onElement", "onCDATA", "onDocumentEnd"},
          tokens : Seq(Tokens)]

\* The state of the stream between the calls of expat
ShapeInv ==
    /\ text \in Seq(Tokens)
    /\ element_stack \in Seq(Seq(Tokens))
    /\ events \in Seq(Calls)
    /\ document_started \in BOOLEAN /\ document_ended \in BOOLEAN
    /\ document_started <=> text # <<>>
    /\ text = <<>> \/ document_ended => element_stack = <<>>
    /\ text # <<>> /\ ~ document_ended => depth = Len(element_stack) + 1
    /\ ~ document_ended => Stacked(text, element_stack)
    /\ text # <<>> /\ document_ended => /\ text[Len(text)] = "/"
                                        /\ WholeTo(text, Len(text)) = Len(text) - 1

StreamInv == ShapeInv /\ ToldOfDocument

\* How far a document is whole
whole == WholeTo(text, Len(text))

\* What is told of token x of a document
Quiet(x) == events' = events /\ ~ Ends(text', Len(text'))

Told(x, kind, tokens) ==
    /\ events' = Append(events, [kind |-> kind, tokens |-> tokens])
    /\ Ends(text', Len(text'))
    /\ EventAt(text', Len(text')) = [kind |-> kind, tokens |-> tokens]
    /\ tokens \in Seq(Tokens)

Heard(x) ==
    /\ text' = Append(text, x)
    /\ \/ Quiet(x) /\ whole' = whole
       \/ /\ Told(x, "onDocumentStart", <<x>>)
          /\ text = <<>> /\ x \in Names /\ whole' = 1
       \/ /\ Told(x, "onElement", SubSeq(text', whole + 1, Len(text')))
          /\ text # <<>> /\ x = "/" /\ whole' = Len(text')
       \/ /\ Told(x, "onCDATA", <<".">>)
          /\ text # <<>> /\ x = "." /\ whole = Len(text) /\ whole' = Len(text')
       \/ /\ Told(x, "onDocumentEnd", <<>>)
          /\ text # <<>> /\ whole' = whole

LEMMA EndsAt ==
  ASSUME NEW t \in Seq(Tokens), NEW x \in Tokens
  PROVE  LET u == Append(t, x)
             N == Len(t)
         IN  /\ Ends(u, N + 1) <=> \/ N = 0 \/ Depth(u, N + 1) = 0
                                   \/ Depth(u, N + 1) = 1 /\ x \in {"/", "."}
             /\ N = 0 => EventAt(u, N + 1) = [kind |-> "onDocumentStart", tokens |-> <<x>>]
             /\ N # 0 /\ Depth(u, N + 1) = 0 =>
                   EventAt(u, N + 1) = [kind |-> "onDocumentEnd", tokens |-> <<>>]
             /\ N # 0 /\ Depth(u, N + 1) = 1 /\ x = "." =>
                   EventAt(u, N + 1) = [kind |-> "onCDATA", tokens |-> <<".">>]
             /\ N # 0 /\ Depth(u, N + 1) = 1 /\ x = "/" =>
                   EventAt(u, N + 1) = [kind |-> "onElement",
                                        tokens |-> SubSeq(u, WholeTo(t, N) + 1, N + 1)]
<1> DEFINE u == Append(t, x)
           N == Len(t)
<1>2. WholeTo(u, N) = WholeTo(t, N)
  BY WholeToOfOneMore
<1> HIDE DEF u
<1>3. N \in Nat /\ u[N + 1] = x /\ N + 1 - 1 = N /\ (N = 0 <=> N + 1 = 1)
      /\ (N # 0 <=> N + 1 > 1)
  BY DEF u
<1> HIDE DEF N
<1>4. PICK d : d = Depth(u, N + 1)
  OBVIOUS
<1>5. Ends(u, N + 1) <=> N = 0 \/ d = 0 \/ (d = 1 /\ x \in {"/", "."})
  BY <1>3, <1>4 DEF Ends
<1>6. ASSUME N = 0
      PROVE  EventAt(u, N + 1) = [kind |-> "onDocumentStart", tokens |-> <<x>>]
  BY <1>3, <1>6 DEF EventAt
<1>7. ASSUME N # 0, d = 0
      PROVE  EventAt(u, N + 1) = [kind |-> "onDocumentEnd", tokens |-> <<>>]
  BY <1>3, <1>4, <1>7 DEF EventAt
<1>8. ASSUME N # 0, d = 1, x = "."
      PROVE  EventAt(u, N + 1) = [kind |-> "onCDATA", tokens |-> <<".">>]
  BY <1>3, <1>4, <1>8 DEF EventAt
<1>9. ASSUME N # 0, d = 1, x = "/"
      PROVE  EventAt(u, N + 1) = [kind |-> "onElement",
                                  tokens |-> SubSeq(u, WholeTo(t, N) + 1, N + 1)]
  BY <1>2, <1>3, <1>4, <1>9 DEF EventAt, N
<1> QED
  BY <1>4, <1>5, <1>6, <1>7, <1>8, <1>9 DEF u, N

\* What the handlers share
LEMMA NextToken ==
  ASSUME ShapeInv, NEW x \in Tokens, Parses(x)
  PROVE  /\ text' = Append(text, x) /\ text' \in Seq(Tokens) /\ text' # <<>>
         /\ Len(text) \in Nat /\ Len(text') = Len(text) + 1
         /\ text'[Len(text')] = x
         /\ ~ document_ended
         /\ whole \in 0 .. Len(text)
         /\ whole' = IF depth' = 1 THEN Len(text') ELSE whole
         /\ Len(element_stack) \in Nat
         /\ text = <<>> => depth = 0
         /\ x \in Names => depth' = depth + 1
         /\ x = "/" => depth' = depth - 1
         /\ x = "." => depth' = depth
<1>1. text' = Append(text, x) /\ ~ document_ended
  BY DEF Parses
<1>2. text \in Seq(Tokens) /\ Len(element_stack) \in Nat
  BY DEF ShapeInv
<1>3. /\ text' \in Seq(Tokens) /\ text' # <<>>
      /\ Len(text) \in Nat /\ Len(text') = Len(text) + 1
      /\ text'[Len(text')] = x
  BY <1>1, <1>2
<1>4. /\ x \in Names => depth' = depth + 1
      /\ x = "/" => depth' = depth - 1
      /\ x = "." => depth' = depth
  BY <1>1, <1>2, <1>3, DepthOfOneMore DEF depth
<1>5. whole \in 0 .. Len(text) /\ whole' = IF depth' = 1 THEN Len(text') ELSE whole
  BY <1>1, <1>2, <1>3, WholeToOfOneMore DEF depth, whole
<1>6. text = <<>> => depth = 0
  BY DepthOfNone DEF depth
<1> QED
  BY <1>1, <1>2, <1>3, <1>4, <1>5, <1>6

LEMMA StartStep ==
  ASSUME ShapeInv, NEW name \in Names, onStartElement(name), text = <<>>
  PROVE  ShapeInv' /\ Heard(name)
<1>1. name \in Tokens /\ Parses(name)
  BY DEF onStartElement, Tokens
<1>2. /\ text' = Append(text, name) /\ text' \in Seq(Tokens) /\ text' # <<>>
      /\ Len(text') = 1 /\ depth' = 1 /\ whole' = 1 /\ ~ document_ended
  BY <1>1, NextToken
<1>3. /\ document_started' = TRUE /\ document_ended' = document_ended
      /\ element_stack' = element_stack
      /\ events' = Append(events, [kind |-> "onDocumentStart", tokens |-> <<name>>])
  BY DEF onStartElement, Tell, ShapeInv
<1>4. element_stack' = <<>> /\ element_stack \in Seq(Seq(Tokens))
  BY <1>3 DEF ShapeInv
<1>5. Stacked(text', element_stack')
  <2>1. Stacked(text', <<>>)
    BY <1>2, StackedNone DEF whole
  <2> QED
    BY <1>4, <2>1
<1>6. <<name>> \in Seq(Tokens)
      /\ [kind |-> "onDocumentStart", tokens |-> <<name>>] \in Calls
  <2>1. <<name>> \in Seq(Tokens)
    BY <1>1
  <2> QED
    BY <2>1 DEF Calls
<1>7. events' \in Seq(Calls)
  BY <1>3, <1>6 DEF ShapeInv
<1>8. ShapeInv'
  BY <1>2, <1>3, <1>4, <1>5, <1>7 DEF ShapeInv
<1>9. Told(name, "onDocumentStart", <<name>>)
  <2>1. Len(text) = 0 /\ text \in Seq(Tokens)
    BY DEF ShapeInv
  <2>2. Ends(text', Len(text'))
    BY <1>2 DEF Ends
  <2>3. EventAt(text', Len(text')) = [kind |-> "onDocumentStart", tokens |-> <<name>>]
    <3>1. text'[1] = name
      BY <1>1, <1>2, <2>1
    <3> QED
      BY <1>2, <3>1 DEF EventAt
  <2> QED
    BY <1>3, <1>6, <2>2, <2>3 DEF Told
<1> QED
  BY <1>2, <1>8, <1>9 DEF Heard

LEMMA PushStep ==
  ASSUME ShapeInv, NEW name \in Names, onStartElement(name), text # <<>>
  PROVE  ShapeInv' /\ Heard(name)
<1>1. name \in Tokens /\ Parses(name)
  BY DEF onStartElement, Tokens
<1>2. /\ text' = Append(text, name) /\ text' \in Seq(Tokens) /\ text' # <<>>
      /\ Len(text) \in Nat /\ Len(text') = Len(text) + 1
      /\ depth' = depth + 1 /\ ~ document_ended
      /\ whole' = IF depth' = 1 THEN Len(text') ELSE whole
      /\ Len(element_stack) \in Nat
  BY <1>1, NextToken
<1>3. /\ document_started' = document_started /\ document_ended' = document_ended
      /\ element_stack' = Append(element_stack, <<name>>)
      /\ events' = events
  BY DEF onStartElement, ShapeInv
<1>4. depth = Len(element_stack) + 1 /\ element_stack \in Seq(Seq(Tokens))
      /\ text \in Seq(Tokens) /\ Stacked(text, element_stack)
  BY <1>2 DEF ShapeInv
<1>5. /\ element_stack' \in Seq(Seq(Tokens))
      /\ Len(element_stack') = Len(element_stack) + 1
      /\ \A k \in 1 .. Len(element_stack) : element_stack'[k] = element_stack[k]
      /\ element_stack'[Len(element_stack) + 1] = <<name>>
  BY <1>1, <1>3, <1>4
<1>6. depth' = Len(element_stack') + 1 /\ depth' # 1 /\ depth' # 0
  BY <1>2, <1>4, <1>5
<1>7. Stacked(text', element_stack')
  <2>1. PICK q : Marks(text, element_stack, q)
    BY <1>4 DEF Stacked
  <2>2. q[Len(element_stack')] = Len(text) + 1
    BY <1>5, <2>1 DEF Marks
  <2>3. SubSeq(text', Len(text) + 1, Len(text) + 1) = <<name>>
    <3>1. SubSeq(text, Len(text) + 1, Len(text)) = <<>> /\ Len(text) + 1 \in 1 .. Len(text) + 1
      BY <1>2, SubSeqEmpty
    <3>2. SubSeq(text', Len(text) + 1, Len(text) + 1) = Append(<<>>, name)
      BY <1>1, <1>2, <1>4, <3>1, SubSeqOfOneMore
    <3> QED
      BY <3>2
  <2>4. /\ \A k \in 1 .. Len(element_stack') - 1 : element_stack'[k] = element_stack[k]
        /\ Len(element_stack') \in 1 .. Len(element_stack) + 1
        /\ element_stack'[Len(element_stack')]
             = SubSeq(text', q[Len(element_stack')], Len(text) + 1)
    BY <1>2, <1>5, <2>2, <2>3
  <2>5. Depth(text', Len(text) + 1) # 1
    BY <1>2, <1>6 DEF depth
  <2> QED
    BY <1>1, <1>2, <1>4, <2>1, <2>4, <2>5, StackedOneMore
<1>8. ShapeInv'
  BY <1>2, <1>3, <1>5, <1>6, <1>7 DEF ShapeInv
<1>9. Quiet(name)
  <2>1. Len(text) # 0
    BY <1>4
  <2>2. ~ Ends(text', Len(text'))
    BY <1>2, <1>6, <2>1 DEF Ends, depth
  <2> QED
    BY <1>3, <2>2 DEF Quiet
<1> QED
  BY <1>2, <1>6, <1>8, <1>9 DEF Heard

LEMMA TextStep ==
  ASSUME ShapeInv, onCDATA
  PROVE  ShapeInv' /\ Heard(".")
<1>1. "." \in Tokens /\ Parses(".") /\ depth > 0
  BY DEF onCDATA, Tokens
<1>2. /\ text' = Append(text, ".") /\ text' \in Seq(Tokens) /\ text' # <<>>
      /\ Len(text) \in Nat /\ Len(text') = Len(text) + 1 /\ text'[Len(text')] = "."
      /\ depth' = depth /\ ~ document_ended /\ text # <<>>
      /\ whole' = IF depth' = 1 THEN Len(text') ELSE whole
      /\ Len(element_stack) \in Nat
  BY <1>1, NextToken
<1>3. /\ document_started' = document_started /\ document_ended' = document_ended
  BY DEF onCDATA, flags
<1>4. depth = Len(element_stack) + 1 /\ element_stack \in Seq(Seq(Tokens))
      /\ text \in Seq(Tokens) /\ events \in Seq(Calls) /\ document_started
      /\ Stacked(text, element_stack)
  BY <1>2 DEF ShapeInv
<1>5. CASE element_stack # <<>>
  <2> DEFINE L == Len(element_stack)
             top == element_stack[L]
  <2>1. L \in Nat \ {0} /\ top \in Seq(Tokens)
    BY <1>4, <1>5
  <2>2. /\ element_stack' = [element_stack EXCEPT ![L] = Append(@, ".")]
        /\ events' = events
    BY <1>5 DEF onCDATA
  <2>3. Append(top, ".") \in Seq(Tokens)
    BY <1>1, <2>1
  <2>4. /\ element_stack' \in Seq(Seq(Tokens)) /\ Len(element_stack') = L
        /\ \A k \in 1 .. L - 1 : element_stack'[k] = element_stack[k]
        /\ element_stack'[L] = Append(top, ".")
    BY <1>4, <2>1, <2>2, <2>3
  <2>5. depth' = Len(element_stack') + 1 /\ depth' # 1 /\ depth' # 0
    BY <1>2, <1>4, <2>1, <2>4
  <2>6. Stacked(text', element_stack')
    <3>1. PICK q : Marks(text, element_stack, q)
      BY <1>4 DEF Stacked
    <3>2. Append(top, ".") = SubSeq(text', q[L], Len(text) + 1)
      BY <1>1, <1>2, <1>4, <2>1, <3>1, TopGrows
    <3>3. L \in 1 .. L + 1
      BY <2>1
    <3>4. /\ \A k \in 1 .. Len(element_stack') - 1 : element_stack'[k] = element_stack[k]
          /\ Len(element_stack') \in 1 .. Len(element_stack) + 1
          /\ element_stack'[Len(element_stack')]
               = SubSeq(text', q[Len(element_stack')], Len(text) + 1)
      BY <2>4, <3>2, <3>3
    <3>5. Depth(text', Len(text) + 1) # 1
      BY <1>2, <2>5 DEF depth
    <3> QED
      BY <1>1, <1>2, <1>4, <3>1, <3>4, <3>5, StackedOneMore
  <2>7. ShapeInv'
    BY <1>2, <1>3, <1>4, <2>2, <2>4, <2>5, <2>6 DEF ShapeInv
  <2>8. Quiet(".")
    <3>1. ~ Ends(text', Len(text'))
      BY <1>2, <1>4, <2>5 DEF Ends, depth
    <3> QED
      BY <2>2, <3>1 DEF Quiet
  <2> QED
    BY <1>2, <2>5, <2>7, <2>8 DEF Heard
<1>6. CASE element_stack = <<>>
  <2>1. /\ element_stack' = <<>>
        /\ events' = Append(events, [kind |-> "onCDATA", tokens |-> <<".">>])
    BY <1>6 DEF onCDATA, Tell
  <2>2. depth = 1 /\ depth' = 1 /\ whole' = Len(text')
    BY <1>2, <1>4, <1>6
  <2>3. Stacked(text', element_stack')
    <3>1. Stacked(text', <<>>)
      BY <1>2, <2>2, StackedNone DEF whole
    <3> QED
      BY <2>1, <3>1
  <2>4. <<".">> \in Seq(Tokens)
    BY <1>1
  <2>5. [kind |-> "onCDATA", tokens |-> <<".">>] \in Calls
    BY <2>4 DEF Calls
  <2>6. events' \in Seq(Calls) /\ element_stack' \in Seq(Seq(Tokens))
    BY <1>4, <2>1, <2>5
  <2>7. Len(element_stack') + 1 = 1
    BY <2>1
  <2>8. ShapeInv'
    BY <1>2, <1>3, <1>4, <2>1, <2>2, <2>3, <2>6, <2>7 DEF ShapeInv
  <2>9. Told(".", "onCDATA", <<".">>)
    <3>1. Len(text) # 0 /\ Depth(text', Len(text) + 1) = 1
      BY <1>2, <1>4, <2>2 DEF depth
    <3>2. /\ EventAt(text', Len(text) + 1) = [kind |-> "onCDATA", tokens |-> <<".">>]
          /\ Ends(text', Len(text) + 1)
      BY <1>1, <1>2, <1>4, <3>1, EndsAt
    <3> QED
      BY <1>2, <2>1, <2>4, <3>2 DEF Told
  <2>10. whole = Len(text)
    <3>1. Depth(text, Len(text)) = 1 /\ Len(text) \in 0 .. Len(text)
      BY <1>2, <2>2 DEF depth
    <3>2. \A m \in Len(text) + 1 .. Len(text) : FALSE
      BY <1>2
    <3> QED
      BY <1>2, <3>1, <3>2, WholeToIs DEF whole
  <2> QED
    BY <1>2, <2>2, <2>8, <2>9, <2>10 DEF Heard
<1> QED
  BY <1>5, <1>6

\* onEndElement() as it closes an element of another, a child of the root, or
\* the root
CloseInner == onEndElement /\ Len(element_stack) > 1
CloseChild == onEndElement /\ Len(element_stack) = 1
CloseRoot  == onEndElement /\ element_stack = <<>>

LEMMA EndToken ==
  ASSUME ShapeInv, onEndElement
  PROVE  /\ "/" \in Tokens
         /\ text' = Append(text, "/") /\ text' \in Seq(Tokens) /\ text' # <<>>
         /\ Len(text) \in Nat /\ Len(text') = Len(text) + 1 /\ text'[Len(text')] = "/"
         /\ depth' = depth - 1 /\ ~ document_ended /\ text # <<>> /\ Len(text) # 0
         /\ whole' = IF depth' = 1 THEN Len(text') ELSE whole
         /\ whole \in 0 .. Len(text)
         /\ Len(element_stack) \in Nat
         /\ document_started' = document_started
         /\ depth = Len(element_stack) + 1 /\ element_stack \in Seq(Seq(Tokens))
         /\ text \in Seq(Tokens) /\ events \in Seq(Calls) /\ document_started
         /\ Stacked(text, element_stack)
<1>1. "/" \in Tokens /\ Parses("/") /\ depth > 0 /\ document_started' = document_started
  BY DEF onEndElement, Tokens
<1>2. /\ text' = Append(text, "/") /\ text' \in Seq(Tokens) /\ text' # <<>>
      /\ Len(text) \in Nat /\ Len(text') = Len(text) + 1 /\ text'[Len(text')] = "/"
      /\ depth' = depth - 1 /\ ~ document_ended /\ text # <<>>
      /\ whole' = IF depth' = 1 THEN Len(text') ELSE whole
      /\ whole \in 0 .. Len(text)
      /\ Len(element_stack) \in Nat
  BY <1>1, NextToken
<1>3. depth = Len(element_stack) + 1 /\ element_stack \in Seq(Seq(Tokens))
      /\ text \in Seq(Tokens) /\ events \in Seq(Calls) /\ document_started
      /\ Stacked(text, element_stack) /\ Len(text) # 0
  BY <1>2 DEF ShapeInv
<1> QED
  BY <1>1, <1>2, <1>3

\* The element that is closed ends where the text does, and so does the one
\* below it then.
LEMMA BelowGrows ==
  ASSUME NEW t \in Seq(Tokens), NEW x \in Tokens, NEW es, Len(es) \in Nat, Len(es) > 1,
         NEW q, Marks(t, es, q)
  PROVE  es[Len(es) - 1] \o Append(es[Len(es)], x)
            = SubSeq(Append(t, x), q[Len(es) - 1], Len(t) + 1)
<1> DEFINE u == Append(t, x)
           N == Len(t)
<1>1. PICK L \in Nat : L = Len(es) /\ L > 1
  OBVIOUS
<1>2. /\ L - 1 \in 1 .. Len(es) /\ L \in 1 .. Len(es) /\ L - 1 + 1 = L
      /\ L - 1 \in 1 .. Len(es) + 1 /\ L \in 1 .. Len(es) + 1
  BY <1>1
<1>3. /\ q[L - 1] < q[L] /\ es[L - 1] = SubSeq(t, q[L - 1], q[L] - 1)
      /\ q[L - 1] \in 1 .. N + 1 /\ q[L] \in 1 .. N + 1
  BY <1>2 DEF Marks
<1>4. PICK a \in 1 .. N + 1, b \in 1 .. N + 1 :
        a = q[L - 1] /\ b = q[L] /\ a < b /\ es[L - 1] = SubSeq(t, a, b - 1)
  BY <1>3
<1>5. Append(es[L], x) = SubSeq(u, b, N + 1)
  <2>1. Len(es) \in Nat \ {0}
    OBVIOUS
  <2>2. Append(es[Len(es)], x) = SubSeq(u, q[Len(es)], N + 1)
    BY <2>1, TopGrows
  <2> QED
    BY <1>1, <1>4, <2>2
<1>6. u \in Seq(Tokens) /\ Len(u) = N + 1 /\ N \in Nat
  OBVIOUS
<1>7. es[L - 1] = SubSeq(u, a, b - 1)
  <2>1. b - 1 \in a - 1 .. N
    BY <1>4, <1>6
  <2> QED
    BY <1>4, <2>1, SubSeqOfOneMore
<1> HIDE DEF u, N
<1>8. SubSeq(u, a, b - 1) \o SubSeq(u, b, N + 1) = SubSeq(u, a, N + 1)
  <2>1. PICK k \in Int : k = b - 1 /\ k + 1 = b
    BY <1>4
  <2>3. k \in a - 1 .. Len(u) /\ N + 1 \in k .. Len(u) /\ a \in 1 .. Len(u) + 1
    BY <1>4, <1>6, <2>1
  <2>2. SubSeq(u, a, k) \o SubSeq(u, k + 1, N + 1) = SubSeq(u, a, N + 1)
    BY <1>6, <2>1, <2>3, ConcatAdjacentSubSeq
  <2> QED
    BY <2>1, <2>2
<1> QED
  BY <1>1, <1>4, <1>5, <1>7, <1>8 DEF u, N

LEMMA CloseInnerStep ==
  ASSUME ShapeInv, CloseInner
  PROVE  ShapeInv' /\ Heard("/")
<1> DEFINE L == Len(element_stack)
<1>1. onEndElement /\ L > 1
  BY DEF CloseInner
<1>2. /\ "/" \in Tokens
      /\ text' = Append(text, "/") /\ text' \in Seq(Tokens) /\ text' # <<>>
      /\ Len(text) \in Nat /\ Len(text') = Len(text) + 1 /\ text'[Len(text')] = "/"
      /\ depth' = depth - 1 /\ ~ document_ended /\ text # <<>> /\ Len(text) # 0
      /\ whole' = IF depth' = 1 THEN Len(text') ELSE whole
      /\ L \in Nat
      /\ document_started' = document_started
      /\ depth = L + 1 /\ element_stack \in Seq(Seq(Tokens))
      /\ text \in Seq(Tokens) /\ events \in Seq(Calls) /\ document_started
      /\ Stacked(text, element_stack)
  BY <1>1, EndToken
<1>0. /\ L \in Nat /\ L > 1 /\ L # 1 /\ L # 0
      /\ element_stack \in Seq(Seq(Tokens)) /\ element_stack # <<>>
  <2>1. element_stack \in Seq(Seq(Tokens))
    BY DEF ShapeInv
  <2>2. L \in Nat /\ L > 1
    BY <2>1 DEF CloseInner
  <2>3. L # 1 /\ L # 0
    BY <2>2
  <2>4. element_stack # <<>>
    BY <2>3
  <2> QED
    BY <2>1, <2>2, <2>3, <2>4
<1>3. /\ element_stack' = [Front(element_stack) EXCEPT ![Len(Front(element_stack))] = @ \o Closed]
      /\ document_ended' = document_ended /\ events' = events
  BY <1>0, <1>1 DEF onEndElement
<1>4. Closed = Append(element_stack[L], "/") /\ Closed \in Seq(Tokens)
      /\ element_stack[L] \in Seq(Tokens) /\ element_stack[L - 1] \in Seq(Tokens)
  BY <1>0, <1>2 DEF Closed, Last
<1>5. PICK front \in Seq(Seq(Tokens)) :
        /\ front = Front(element_stack) /\ Len(front) = L - 1
        /\ \A k \in 1 .. L - 1 : front[k] = element_stack[k]
  <2>1. /\ \A i \in 1 .. L - 1 : element_stack[i] \in Seq(Tokens)
        /\ 1 \in Int /\ L - 1 \in Int
    BY <1>0
  <2>2. /\ SubSeq(element_stack, 1, L - 1) \in Seq(Seq(Tokens))
        /\ Len(SubSeq(element_stack, 1, L - 1)) = L - 1
        /\ \A i \in 1 .. L - 1 : SubSeq(element_stack, 1, L - 1)[i] = element_stack[i]
    BY <1>0
  <2>3. Front(element_stack) = SubSeq(element_stack, 1, L - 1)
    BY DEF Front
  <2> QED
    BY <2>2, <2>3
<1>6. element_stack[L - 1] \o Closed \in Seq(Tokens)
  BY <1>4
<1>7. /\ element_stack' \in Seq(Seq(Tokens)) /\ Len(element_stack') = L - 1
      /\ \A k \in 1 .. L - 2 : element_stack'[k] = element_stack[k]
      /\ element_stack'[L - 1] = element_stack[L - 1] \o Closed
  <2>1. element_stack' = [front EXCEPT ![L - 1] = element_stack[L - 1] \o Closed]
    <3>0. L - 1 \in 1 .. L - 1
      BY <1>0
    <3>1. front[L - 1] = element_stack[L - 1]
      BY <1>5, <3>0
    <3> QED
      BY <1>3, <1>5, <3>1
  <2>2. L - 1 \in 1 .. L - 1 /\ L - 1 \in 1 .. Len(front)
        /\ \A k \in 1 .. L - 2 : k \in 1 .. L - 1 /\ k # L - 1
    BY <1>0, <1>5
  <2>3. element_stack' \in Seq(Seq(Tokens)) /\ Len(element_stack') = L - 1
    BY <1>5, <1>6, <2>1, <2>2
  <2>4. \A k \in 1 .. L - 1 : k \in 1 .. Len(front)
    BY <1>5
  <2>5. \A k \in 1 .. L - 2 : element_stack'[k] = element_stack[k]
    BY <1>5, <2>1, <2>2, <2>4
  <2>6. element_stack'[L - 1] = element_stack[L - 1] \o Closed
    BY <2>1, <2>2
  <2> QED
    BY <2>3, <2>5, <2>6
<1>8. depth' = Len(element_stack') + 1 /\ depth' # 1 /\ depth' # 0
  <2>1. depth' = L
    BY <1>0, <1>2
  <2> QED
    BY <1>0, <1>7, <2>1
<1>9. Stacked(text', element_stack')
  <2>1. PICK q : Marks(text, element_stack, q)
    BY <1>2 DEF Stacked
  <2>2. element_stack'[L - 1] = SubSeq(text', q[L - 1], Len(text) + 1)
    BY <1>0, <1>2, <1>4, <1>7, <2>1, BelowGrows
  <2>3. L - 1 \in 1 .. L + 1 /\ L - 1 - 1 = L - 2
    BY <1>0
  <2>4. /\ \A k \in 1 .. Len(element_stack') - 1 : element_stack'[k] = element_stack[k]
        /\ Len(element_stack') \in 1 .. Len(element_stack) + 1
        /\ element_stack'[Len(element_stack')]
             = SubSeq(text', q[Len(element_stack')], Len(text) + 1)
    BY <1>7, <2>2, <2>3
  <2>5. Depth(text', Len(text) + 1) # 1
    BY <1>2, <1>8 DEF depth
  <2> QED
    BY <1>2, <2>1, <2>4, <2>5, StackedOneMore
<1>10. ShapeInv'
  BY <1>2, <1>3, <1>7, <1>8, <1>9 DEF ShapeInv
<1>11. Quiet("/")
  <2>1. ~ Ends(text', Len(text'))
    BY <1>2, <1>8 DEF Ends, depth
  <2> QED
    BY <1>3, <2>1 DEF Quiet
<1> QED
  BY <1>2, <1>8, <1>10, <1>11 DEF Heard

LEMMA CloseChildStep ==
  ASSUME ShapeInv, CloseChild
  PROVE  ShapeInv' /\ Heard("/")
<1>1. onEndElement /\ Len(element_stack) = 1
  BY DEF CloseChild
<1>2. /\ "/" \in Tokens
      /\ text' = Append(text, "/") /\ text' \in Seq(Tokens) /\ text' # <<>>
      /\ Len(text) \in Nat /\ Len(text') = Len(text) + 1 /\ text'[Len(text')] = "/"
      /\ depth' = depth - 1 /\ ~ document_ended /\ text # <<>> /\ Len(text) # 0
      /\ whole' = IF depth' = 1 THEN Len(text') ELSE whole
      /\ whole \in 0 .. Len(text)
      /\ document_started' = document_started
      /\ depth = Len(element_stack) + 1 /\ element_stack \in Seq(Seq(Tokens))
      /\ text \in Seq(Tokens) /\ events \in Seq(Calls) /\ document_started
      /\ Stacked(text, element_stack)
  BY <1>1, EndToken
<1>3. /\ element_stack' = <<>> /\ document_ended' = document_ended
      /\ events' = Append(events, [kind |-> "onElement", tokens |-> Closed])
  BY <1>1 DEF onEndElement, Tell
<1>4. Closed = SubSeq(text', whole + 1, Len(text')) /\ Closed \in Seq(Tokens)
  <2>0. Len(element_stack) \in Nat \ {0}
    BY <1>1
  <2>1. /\ Closed = Append(element_stack[1], "/") /\ element_stack[1] \in Seq(Tokens)
        /\ Closed \in Seq(Tokens)
    <3>1. Last(element_stack) = element_stack[1]
      BY <1>1 DEF Last
    <3>2. element_stack[1] \in Seq(Tokens)
      <4>1. element_stack \in Seq(Seq(Tokens)) /\ 1 \in 1 .. Len(element_stack)
        BY <1>1 DEF ShapeInv
      <4> QED
        BY <4>1, ElementOfSeq
    <3> QED
      BY <1>2, <3>1, <3>2 DEF Closed
  <2>2. PICK q : Marks(text, element_stack, q)
    BY <1>2 DEF Stacked
  <2>3. Append(element_stack[1], "/") = SubSeq(text', q[1], Len(text) + 1)
    <3>1. Append(element_stack[Len(element_stack)], "/")
            = SubSeq(Append(text, "/"), q[Len(element_stack)], Len(text) + 1)
      BY <1>2, <2>0, <2>2, TopGrows
    <3> QED
      BY <1>1, <1>2, <3>1
  <2>4. q[1] = whole + 1
    BY <2>2 DEF Marks, whole
  <2> QED
    BY <1>2, <2>1, <2>3, <2>4
<1>5. depth' = 1 /\ whole' = Len(text')
  BY <1>1, <1>2
<1>6. Stacked(text', element_stack')
  <2>1. Stacked(text', <<>>)
    BY <1>2, <1>5, StackedNone DEF whole
  <2> QED
    BY <1>3, <2>1
<1>7. [kind |-> "onElement", tokens |-> Closed] \in Calls
  BY <1>4 DEF Calls
<1>8. events' \in Seq(Calls) /\ element_stack' \in Seq(Seq(Tokens)) /\ Len(element_stack') = 0
  BY <1>2, <1>3, <1>7
<1>9. ShapeInv'
  BY <1>2, <1>3, <1>5, <1>6, <1>8 DEF ShapeInv
<1>10. Told("/", "onElement", SubSeq(text', whole + 1, Len(text')))
  <2>1. Depth(text', Len(text) + 1) = 1
    BY <1>2, <1>5 DEF depth
  <2>2. /\ EventAt(text', Len(text) + 1) =
              [kind |-> "onElement", tokens |-> SubSeq(text', whole + 1, Len(text) + 1)]
        /\ Ends(text', Len(text) + 1)
    BY <1>2, <2>1, EndsAt DEF whole
  <2> QED
    BY <1>2, <1>3, <1>4, <2>2 DEF Told
<1> QED
  BY <1>2, <1>5, <1>9, <1>10 DEF Heard

LEMMA CloseRootStep ==
  ASSUME ShapeInv, CloseRoot
  PROVE  ShapeInv' /\ Heard("/")
<1>1. onEndElement /\ element_stack = <<>> /\ Len(element_stack) = 0
  BY DEF CloseRoot
<1>2. /\ "/" \in Tokens
      /\ text' = Append(text, "/") /\ text' \in Seq(Tokens) /\ text' # <<>>
      /\ Len(text) \in Nat /\ Len(text') = Len(text) + 1 /\ text'[Len(text')] = "/"
      /\ depth' = depth - 1 /\ ~ document_ended /\ text # <<>> /\ Len(text) # 0
      /\ whole' = IF depth' = 1 THEN Len(text') ELSE whole
      /\ document_started' = document_started
      /\ depth = Len(element_stack) + 1 /\ element_stack \in Seq(Seq(Tokens))
      /\ text \in Seq(Tokens) /\ events \in Seq(Calls) /\ document_started
  BY <1>1, EndToken
<1>3. /\ element_stack' = <<>> /\ document_ended' = TRUE
      /\ events' = Append(events, [kind |-> "onDocumentEnd", tokens |-> <<>>])
  <2>1. Len(element_stack) # 1
    BY <1>1
  <2> QED
    BY <1>1, <2>1 DEF onEndElement, Tell
<1>4. depth = 1 /\ depth' = 0 /\ whole' = whole
  BY <1>1, <1>2
<1>5. whole = Len(text)
  <2>1. Depth(text, Len(text)) = 1 /\ Len(text) \in 0 .. Len(text)
    BY <1>2, <1>4 DEF depth
  <2>2. \A m \in Len(text) + 1 .. Len(text) : FALSE
    BY <1>2
  <2> QED
    BY <1>2, <2>1, <2>2, WholeToIs DEF whole
<1>6. <<>> \in Seq(Tokens) /\ <<>> \in Seq(Seq(Tokens))
  OBVIOUS
<1>7. [kind |-> "onDocumentEnd", tokens |-> <<>>] \in Calls
  BY <1>6 DEF Calls
<1>8. events' \in Seq(Calls)
  BY <1>2, <1>3, <1>7
<1>9. WholeTo(text', Len(text')) = Len(text') - 1
  BY <1>2, <1>4, <1>5 DEF whole
<1>10. ShapeInv'
  BY <1>2, <1>3, <1>6, <1>8, <1>9 DEF ShapeInv
<1>11. Told("/", "onDocumentEnd", <<>>)
  <2>1. Depth(text', Len(text) + 1) = 0
    BY <1>2, <1>4 DEF depth
  <2>2. /\ EventAt(text', Len(text) + 1) = [kind |-> "onDocumentEnd", tokens |-> <<>>]
        /\ Ends(text', Len(text) + 1)
    BY <1>2, <2>1, EndsAt
  <2> QED
    BY <1>2, <1>3, <1>6, <2>2 DEF Told
<1> QED
  BY <1>2, <1>4, <1>10, <1>11 DEF Heard

LEMMA ParsedStep ==
  ASSUME ShapeInv, Parsed
  PROVE  ShapeInv' /\ \E x \in Tokens : Heard(x)
<1>1. Names \subseteq Tokens /\ "/" \in Tokens /\ "." \in Tokens
  BY DEF Tokens
<1>2. CASE \E name \in Names : onStartElement(name)
  <2>1. PICK name \in Names : onStartElement(name)
    BY <1>2
  <2>2. ShapeInv' /\ Heard(name)
    BY <2>1, StartStep, PushStep
  <2> QED
    BY <1>1, <2>2
<1>3. CASE onEndElement
  <2>1. \/ element_stack = <<>> \/ Len(element_stack) = 1 \/ Len(element_stack) > 1
    <3>1. Len(element_stack) \in Nat /\ (Len(element_stack) = 0 => element_stack = <<>>)
      BY DEF ShapeInv
    <3>2. \A n \in Nat : n = 0 \/ n = 1 \/ n > 1
      OBVIOUS
    <3> QED
      BY <3>1, <3>2
  <2>2. ShapeInv' /\ Heard("/")
    BY <1>3, <2>1, CloseInnerStep, CloseChildStep, CloseRootStep
       DEF CloseInner, CloseChild, CloseRoot
  <2> QED
    BY <1>1, <2>2
<1>4. CASE onCDATA
  BY <1>1, <1>4, TextStep
<1> QED
  BY <1>2, <1>3, <1>4 DEF Parsed

LEMMA ToldStep ==
  ASSUME ShapeInv, ToldOfDocument, NEW x \in Tokens, Heard(x)
  PROVE  ToldOfDocument'
<1> DEFINE u == Append(text, x)
           N == Len(text)
           ToldIn(s) == Lists(s, EndsOf(u), [n \in EndsOf(u) |-> EventAt(u, n)])
<1>1. text' = u /\ text \in Seq(Tokens) /\ events \in Seq(Calls)
  BY DEF Heard, ShapeInv
<1>2. Len(text') = N + 1
  BY <1>1
<1>3. /\ ~ Ends(u, N + 1) => ToldIn(events)
      /\ Ends(u, N + 1) /\ EventAt(u, N + 1) \in Calls
             => ToldIn(Append(events, EventAt(u, N + 1)))
  BY <1>1, EventsOfOneMore DEF ToldOfDocument
<1>4. ToldOfDocument' <=> ToldIn(events')
  BY <1>1 DEF ToldOfDocument
<1> HIDE DEF u, N, ToldIn
<1>5. CASE Quiet(x)
  BY <1>1, <1>2, <1>3, <1>4, <1>5 DEF Quiet
<1>6. ASSUME NEW kind \in {"onDocumentStart", "onElement", "onCDATA", "onDocumentEnd"},
             NEW tokens, Told(x, kind, tokens)
      PROVE  ToldOfDocument'
  <2>1. [kind |-> kind, tokens |-> tokens] \in Calls
    BY <1>6 DEF Told, Calls
  <2>2. /\ events' = Append(events, EventAt(u, N + 1)) /\ Ends(u, N + 1)
        /\ EventAt(u, N + 1) \in Calls
    BY <1>1, <1>2, <1>6, <2>1 DEF Told
  <2> QED
    BY <1>3, <1>4, <2>2
<1> QED
  BY <1>5, <1>6 DEF Heard

\* A new document
LEMMA NewDocument ==
  ASSUME text' = <<>>, events' = <<>>, element_stack' = <<>>,
         document_started' = FALSE, document_ended' \in BOOLEAN
  PROVE  StreamInv'
<1>1. /\ text' \in Seq(Tokens) /\ Len(text') = 0
      /\ element_stack' \in Seq(Seq(Tokens)) /\ events' \in Seq(Calls)
  OBVIOUS
<1>2. Stacked(text', element_stack')
  <2>1. WholeTo(text', Len(text')) = Len(text')
    <3>1. \A m \in 0 + 1 .. 0 : FALSE
      OBVIOUS
    <3> QED
      BY <1>1, <3>1, WholeToIs
  <2>2. Stacked(text', <<>>)
    BY <1>1, <2>1, StackedNone
  <2> QED
    BY <2>2
<1>3. ShapeInv'
  BY <1>1, <1>2 DEF ShapeInv
<1>4. ToldOfDocument'
  <2>1. EndsOf(text') = {}
    BY <1>1 DEF EndsOf
  <2> QED
    BY <2>1, ListsNone DEF ToldOfDocument
<1> QED
  BY <1>3, <1>4 DEF StreamInv

\* A reset() that does not come within a child finds the stack empty.
LEMMA ResetStep ==
  ASSUME ShapeInv, ~ ResetAnywhere, reset
  PROVE  StreamInv'
<1>1. element_stack = <<>>
  <2>1. Len(element_stack) \in Nat /\ (Len(element_stack) = 0 => element_stack = <<>>)
    BY DEF ShapeInv
  <2>2. CASE text # <<>> /\ ~ document_ended
    <3>1. depth = Len(element_stack) + 1 /\ depth <= 1
      BY <2>2 DEF ShapeInv, reset
    <3> QED
      BY <2>1, <3>1
  <2> QED
    BY <2>2 DEF ShapeInv
<1> QED
  BY <1>1, NewDocument DEF reset

LEMMA StreamStays ==
  ASSUME StreamInv, UNCHANGED <<text, element_stack, flags, events>>
  PROVE  StreamInv'
BY DEF StreamInv, ShapeInv, ToldOfDocument, flags, depth

LEMMA StreamStep ==
  ASSUME StreamInv, ~ ResetAnywhere, [ListenersNext]_allVars
  PROVE  StreamInv'
<1>1. ASSUME Parsed
      PROVE  StreamInv'
  BY <1>1, ParsedStep, ToldStep DEF StreamInv
<1>2. ASSUME onEndElementReset
      PROVE  StreamInv'
  BY <1>2, NewDocument DEF onEndElementReset
<1>3. ASSUME ParserError
      PROVE  StreamInv'
  BY <1>3, StreamStays DEF ParserError
<1>4. ASSUME reset
      PROVE  StreamInv'
  BY <1>4, ResetStep DEF StreamInv
<1>5. CASE UNCHANGED vars
  BY <1>5, StreamStays DEF vars
<1>6. CASE parse
  BY <1>1, <1>6 DEF parse
<1>7. CASE returns \/ disconnect
  BY <1>5, <1>7 DEF returns, disconnect
<1>8. CASE breaksOff
  BY <1>3, <1>8 DEF breaksOff
<1>9. CASE connect
  BY <1>4, <1>9 DEF connect
<1>10. CASE pushBad
  BY <1>10, StreamStays DEF pushBad
<1>11. CASE other
  BY <1>2, <1>3, <1>4, <1>11 DEF other
<1>12. CASE UNCHANGED allVars
  BY <1>5, <1>12 DEF allVars
<1> QED
  BY <1>6, <1>7, <1>8, <1>9, <1>10, <1>11, <1>12 DEF ListenersNext

LEMMA StreamInit ==
  ASSUME Init
  PROVE  StreamInv
<1>1. /\ text \in Seq(Tokens) /\ Len(text) = 0
      /\ element_stack \in Seq(Seq(Tokens)) /\ events \in Seq(Calls)
  BY DEF Init
<1>2. Stacked(text, element_stack)
  <2>1. WholeTo(text, Len(text)) = Len(text)
    <3>1. \A m \in 0 + 1 .. 0 : FALSE
      OBVIOUS
    <3> QED
      BY <1>1, <3>1, WholeToIs
  <2> QED
    BY <1>1, <2>1, StackedNone DEF Init
<1>3. ShapeInv
  BY <1>1, <1>2 DEF ShapeInv, Init
<1>4. ToldOfDocument
  <2>1. EndsOf(text) = {}
    BY <1>1 DEF EndsOf
  <2> QED
    BY <2>1, ListsNone DEF ToldOfDocument, Init
<1> QED
  BY <1>3, <1>4 DEF StreamInv

(***************************************************************************)
(* Whatever documents come one after the other, and wherever they break    *)
(* off, the listener is told of each child of the root once, whole and in  *)
(* order - if reset() never comes while a child is incomplete.             *)
(***************************************************************************)
THEOREM DocumentsAreTold ==
  ASSUME ~ ResetAnywhere
  PROVE  ListenersSpec => []ToldOfDocument
<1>1. ListenersInit => StreamInv
  BY StreamInit DEF ListenersInit
<1>2. StreamInv /\ [ListenersNext]_allVars => StreamInv'
  BY StreamStep
<1>3. StreamInv => ToldOfDocument
  BY DEF StreamInv
<1> QED
  BY <1>1, <1>2, <1>3, PTL DEF ListenersSpec

-----------------------------------------------------------------------------
(* What a listener makes of it                                             *)

\* The call that a step of the stream makes is the one of which Heard tells.
LEMMA CallIs ==
  ASSUME ShapeInv, NEW x
  PROVE  /\ Quiet(x) => ~ Called
         /\ \A kind, tokens : Told(x, kind, tokens) =>
               /\ Called /\ Call.kind = kind /\ Call.tokens = tokens
               /\ tokens \in Seq(Tokens)
<1>1. events \in Seq(Calls) /\ Len(events) \in Nat
  BY DEF ShapeInv
<1>2. ASSUME Quiet(x)
      PROVE  ~ Called
  BY <1>1, <1>2 DEF Quiet, Called
<1>3. ASSUME NEW kind, NEW tokens, Told(x, kind, tokens)
      PROVE  /\ Called /\ Call.kind = kind /\ Call.tokens = tokens
             /\ tokens \in Seq(Tokens)
  <2> DEFINE c == [kind |-> kind, tokens |-> tokens]
  <2>1. events' = Append(events, c) /\ tokens \in Seq(Tokens)
    BY <1>3 DEF Told
  <2>2. c.kind = kind /\ c.tokens = tokens
    OBVIOUS
  <2> HIDE DEF c
  <2>3. Len(events') = Len(events) + 1 /\ events'[Len(events) + 1] = c
    BY <1>1, <2>1
  <2>4. Called /\ Call = c
    BY <1>1, <2>3 DEF Called, Call, Last
  <2> QED
    BY <2>1, <2>2, <2>4
<1> QED
  BY <1>2, <1>3

RootInv ==
    /\ root \in Seq(Tokens)
    /\ listener = "BufferParser" /\ outcome # "error" => root = SubSeq(text, 1, whole)
    /\ listener = "FileStream" /\ outcome # "error" =>
          Lists(root, WithoutRootText(text), text)
    /\ listener = "BufferParser" /\ document_ended => text # <<>>
    /\ listener = "BufferParser" /\ outcome = "root" => document_ended

\* What the calls make of the root
Taken ==
    \/ root' = root /\ whole' = whole
    \/ text = <<>> /\ root' = text' /\ Len(text') = 1 /\ whole' = 1 /\ text'[1] \in Names
    \/ /\ root' = root \o SubSeq(text', whole + 1, Len(text'))
       /\ text'[Len(text')] = "/" /\ whole' = Len(text')
    \/ /\ root' = IF listener = "BufferParser" THEN root \o <<".">> ELSE root
       /\ text'[Len(text')] = "." /\ whole = Len(text) /\ whole' = Len(text')

LEMMA RootIsTaken ==
  ASSUME ShapeInv, NEW x \in Tokens, Heard(x), takeIntoRoot,
         listener \in {"BufferParser", "FileStream"}
  PROVE  Taken
<1>1. /\ text' = Append(text, x) /\ text \in Seq(Tokens)
      /\ text'[Len(text')] = x /\ (text = <<>> => text' = <<x>> /\ Len(text') = 1 /\ text'[1] = x)
  <2>1. text' = Append(text, x) /\ text \in Seq(Tokens)
    BY DEF Heard, ShapeInv
  <2>2. text'[Len(text')] = x
    BY <2>1
  <2>3. text = <<>> => text' = <<x>>
    BY <2>1
  <2> QED
    BY <2>1, <2>2, <2>3
<1>2. /\ Contains(Kept, "onElement")
      /\ Contains(Kept, "onCDATA") <=> listener = "BufferParser"
      /\ ~ Contains(Kept, "onDocumentEnd")
  BY DEF Contains, Kept
<1>3. root' = IF Called /\ Call.kind = "onDocumentStart" THEN Call.tokens
              ELSE IF Called /\ Contains(Kept, Call.kind) THEN root \o Call.tokens ELSE root
  BY DEF takeIntoRoot, CalledAs
<1>4. CASE Quiet(x) /\ whole' = whole
  BY <1>3, <1>4, CallIs DEF Taken
<1>5. ASSUME NEW kind, NEW tokens, Told(x, kind, tokens)
      PROVE  root' = IF kind = "onDocumentStart" THEN tokens
                     ELSE IF Contains(Kept, kind) THEN root \o tokens ELSE root
  BY <1>3, <1>5, CallIs
<1>6. CASE /\ Told(x, "onDocumentStart", <<x>>)
           /\ text = <<>> /\ x \in Names /\ whole' = 1
  BY <1>1, <1>5, <1>6 DEF Taken
<1>7. CASE /\ Told(x, "onElement", SubSeq(text', whole + 1, Len(text')))
           /\ text # <<>> /\ x = "/" /\ whole' = Len(text')
  BY <1>1, <1>2, <1>5, <1>7 DEF Taken
<1>8. CASE /\ Told(x, "onCDATA", <<".">>)
           /\ text # <<>> /\ x = "." /\ whole = Len(text) /\ whole' = Len(text')
  BY <1>1, <1>2, <1>5, <1>8 DEF Taken
<1>9. CASE Told(x, "onDocumentEnd", <<>>) /\ text # <<>> /\ whole' = whole
  BY <1>2, <1>5, <1>9 DEF Taken
<1> QED
  BY <1>4, <1>6, <1>7, <1>8, <1>9 DEF Heard

\* The whole part of a document grows by what is told.
LEMMA WholeGrows ==
  ASSUME NEW t \in Seq(Tokens), NEW x \in Tokens, NEW w, w = WholeTo(t, Len(t))
  PROVE  LET u == Append(t, x)
             N == Len(t)
         IN  /\ w \in 0 .. N /\ SubSeq(u, 1, w) = SubSeq(t, 1, w)
             /\ SubSeq(u, 1, w) \o SubSeq(u, w + 1, N + 1) = SubSeq(u, 1, N + 1)
             /\ SubSeq(u, w + 1, N + 1) \in Seq(Tokens)
             /\ Len(SubSeq(u, w + 1, N + 1)) = N + 1 - w
             /\ \A n \in w + 1 .. N + 1 : SubSeq(u, w + 1, N + 1)[n - w] = u[n]
<1> DEFINE u == Append(t, x)
           N == Len(t)
<1>1. w \in 0 .. N /\ N \in Nat /\ u \in Seq(Tokens) /\ Len(u) = N + 1
  BY WholeToType
<1>2. SubSeq(u, 1, w) = SubSeq(t, 1, w)
  <2>1. w \in 1 - 1 .. N /\ 1 \in 1 .. N + 1
    BY <1>1
  <2> QED
    BY <2>1, SubSeqOfOneMore
<1> HIDE DEF u, N
<1>3. SubSeq(u, 1, w) \o SubSeq(u, w + 1, N + 1) = SubSeq(u, 1, N + 1)
  <2>1. 1 \in 1 .. Len(u) + 1 /\ w \in 1 - 1 .. Len(u) /\ N + 1 \in w .. Len(u)
    BY <1>1
  <2> QED
    BY <1>1, <2>1, ConcatAdjacentSubSeq
<1>4. /\ SubSeq(u, w + 1, N + 1) \in Seq(Tokens)
      /\ Len(SubSeq(u, w + 1, N + 1)) = N + 1 - w
      /\ \A i \in 1 .. N + 1 - w : SubSeq(u, w + 1, N + 1)[i] = u[w + i]
  <2>1. \A i \in w + 1 .. N + 1 : u[i] \in Tokens
    BY <1>1
  <2>2. PICK a \in Int, b \in Int : a = w + 1 /\ b = N + 1
    BY <1>1
  <2>3. a <= b /\ b - a + 1 = N + 1 - w
        /\ \A i \in 1 .. N + 1 - w : a + i - 1 = w + i
    <3>1. w \in Int /\ N \in Int /\ w <= N
      BY <1>1
    <3> QED
      BY <2>2, <3>1
  <2>4. \A i \in a .. b : u[i] \in Tokens
    BY <2>1, <2>2
  <2>5. /\ SubSeq(u, a, b) \in Seq(Tokens)
        /\ Len(SubSeq(u, a, b)) = IF a <= b THEN b - a + 1 ELSE 0
        /\ \A i \in 1 .. b - a + 1 : SubSeq(u, a, b)[i] = u[a + i - 1]
    BY <2>4, SubSeqProperties
  <2>6. /\ Len(SubSeq(u, a, b)) = N + 1 - w
        /\ \A i \in 1 .. N + 1 - w : SubSeq(u, a, b)[i] = u[w + i]
    BY <2>3, <2>5
  <2> QED
    BY <2>2, <2>5, <2>6
<1>5. ASSUME NEW n \in w + 1 .. N + 1
      PROVE  SubSeq(u, w + 1, N + 1)[n - w] = u[n]
  <2>1. n - w \in 1 .. N + 1 - w /\ w + (n - w) = n
    BY <1>1
  <2> QED
    BY <1>4, <2>1
<1> QED
  BY <1>1, <1>2, <1>3, <1>4, <1>5 DEF u, N

\* and without the text that is directly below the root
LEMMA WithoutRootTextGrows ==
  ASSUME NEW t \in Seq(Tokens), NEW x \in Tokens, NEW w, w = WholeTo(t, Len(t))
  PROVE  LET u == Append(t, x)
             N == Len(t)
         IN  /\ WithoutRootText(t) \in SUBSET (1 .. w)
             /\ WholeTo(u, N + 1) = w => WithoutRootText(u) = WithoutRootText(t)
             /\ WholeTo(u, N + 1) = N + 1 /\ w = N /\ x = "." =>
                   WithoutRootText(u) = WithoutRootText(t)
             /\ WholeTo(u, N + 1) = N + 1 /\ x # "." =>
                   WithoutRootText(u) = WithoutRootText(t) \cup (w + 1 .. N + 1)
<1> DEFINE u == Append(t, x)
           N == Len(t)
           W == WholeTo(u, N + 1)
           Here(n) == u[n] # "." \/ Depth(u, n) # 1
<1>1. /\ w \in 0 .. N /\ N \in Nat /\ Len(u) = N + 1 /\ u[N + 1] = x
      /\ \A n \in 1 .. N : u[n] = t[n]
      /\ \A m \in w + 1 .. N : Depth(t, m) # 1
  BY WholeToType
<1>2. /\ \A n \in 0 .. N : Depth(u, n) = Depth(t, n)
  BY DepthOfOneMore
<1>3. W = IF Depth(u, N + 1) = 1 THEN N + 1 ELSE w
  BY WholeToOfOneMore
<1> HIDE DEF u, N, W
<1>4. \A n \in 1 .. N : Here(n) <=> t[n] # "." \/ Depth(t, n) # 1
  BY <1>1, <1>2
<1>5. WithoutRootText(t) = {n \in 1 .. w : Here(n)}
  BY <1>1, <1>4 DEF WithoutRootText, N
<1>6. WithoutRootText(u) = {n \in 1 .. W : Here(n)}
  BY <1>1 DEF WithoutRootText, W
<1>7. \A n \in w + 1 .. N : Here(n)
  BY <1>1, <1>2
<1>8. x # "." => Here(N + 1)
  BY <1>1
<1>9. W = N + 1 => Depth(u, N + 1) = 1
  BY <1>1, <1>3
<1>10. x = "." /\ W = N + 1 => ~ Here(N + 1)
  BY <1>1, <1>9
<1> HIDE DEF Here
<1>11. W = w => WithoutRootText(u) = WithoutRootText(t)
  BY <1>5, <1>6
<1>12. ASSUME W = N + 1, w = N, x = "."
       PROVE  WithoutRootText(u) = WithoutRootText(t)
  BY <1>1, <1>5, <1>6, <1>10, <1>12
<1>13. ASSUME W = N + 1, x # "."
       PROVE  WithoutRootText(u) = WithoutRootText(t) \cup (w + 1 .. N + 1)
  <2>1. \A n \in w + 1 .. N + 1 : Here(n)
    BY <1>1, <1>7, <1>8, <1>13
  <2>2. \A n \in 1 .. N + 1 : n \in 1 .. w \/ n \in w + 1 .. N + 1
    BY <1>1
  <2>3. \A n \in w + 1 .. N + 1 : n \in 1 .. N + 1
    BY <1>1
  <2>4. \A n \in 1 .. w : n \in 1 .. N + 1
    BY <1>1
  <2> QED
    BY <1>5, <1>6, <1>13, <2>1, <2>2, <2>3, <2>4
<1> QED
  BY <1>5, <1>11, <1>12, <1>13 DEF u, N, W

\* The root in memory is the root that was parsed, as far as it is whole.
LEMMA RootFollows ==
  ASSUME ShapeInv, RootInv, NEW x \in Tokens, text' = Append(text, x), Taken,
         UNCHANGED <<listener, outcome>>
  PROVE  /\ root' \in Seq(Tokens)
         /\ listener = "BufferParser" /\ outcome # "error" =>
               root' = SubSeq(text', 1, whole')
         /\ listener = "FileStream" /\ outcome # "error" =>
               Lists(root', WithoutRootText(text'), text')
<1> DEFINE N == Len(text)
           w == whole
           u == text'
           K == WithoutRootText(text)
<1>1. text \in Seq(Tokens) /\ u \in Seq(Tokens) /\ N \in Nat /\ Len(u) = N + 1
      /\ u[N + 1] = x /\ root \in Seq(Tokens) /\ "." \in Tokens
      /\ \A n \in 1 .. N : u[n] = text[n]
  BY DEF ShapeInv, RootInv, Tokens
<1>2. /\ w \in 0 .. N /\ SubSeq(u, 1, w) = SubSeq(text, 1, w)
      /\ SubSeq(u, 1, w) \o SubSeq(u, w + 1, N + 1) = SubSeq(u, 1, N + 1)
      /\ SubSeq(u, w + 1, N + 1) \in Seq(Tokens)
      /\ Len(SubSeq(u, w + 1, N + 1)) = N + 1 - w
      /\ \A n \in w + 1 .. N + 1 : SubSeq(u, w + 1, N + 1)[n - w] = u[n]
  <2> DEFINE v == Append(text, x)
  <2>1. whole = WholeTo(text, Len(text))
    BY DEF whole
  <2>2. /\ whole \in 0 .. N /\ SubSeq(v, 1, whole) = SubSeq(text, 1, whole)
        /\ SubSeq(v, 1, whole) \o SubSeq(v, whole + 1, N + 1) = SubSeq(v, 1, N + 1)
        /\ SubSeq(v, whole + 1, N + 1) \in Seq(Tokens)
        /\ Len(SubSeq(v, whole + 1, N + 1)) = N + 1 - whole
        /\ \A n \in whole + 1 .. N + 1 : SubSeq(v, whole + 1, N + 1)[n - whole] = v[n]
    <3>1. text \in Seq(Tokens)
      BY <1>1
    <3> HIDE DEF v
    <3> QED
      BY <2>1, <3>1, WholeGrows DEF v
  <2>3. u = v
    OBVIOUS
  <2> HIDE DEF N, w, v, u
  <2> QED
    BY <2>2, <2>3 DEF w
<1>3. whole' = WholeTo(u, N + 1)
  BY <1>1 DEF whole
<1>4. /\ K \in SUBSET (1 .. w)
      /\ whole' = w => WithoutRootText(u) = K
      /\ whole' = N + 1 /\ w = N /\ x = "." => WithoutRootText(u) = K
      /\ whole' = N + 1 /\ x # "." => WithoutRootText(u) = K \cup (w + 1 .. N + 1)
  BY <1>1, <1>3, WithoutRootTextGrows DEF whole
<1>5. Lists(root, K, text) => Lists(root, K, u)
  BY <1>1, <1>2, <1>4 DEF Lists
<1>6. listener = "BufferParser" /\ outcome # "error" => root = SubSeq(u, 1, w)
  BY <1>2 DEF RootInv
<1>7. listener = "FileStream" /\ outcome # "error" => Lists(root, K, text)
  BY DEF RootInv
<1> HIDE DEF N, w, u, K
<1>8. CASE root' = root /\ whole' = w
  BY <1>1, <1>4, <1>5, <1>6, <1>7, <1>8 DEF u
<1>9. CASE text = <<>> /\ root' = u /\ Len(u) = 1 /\ whole' = 1 /\ u[1] \in Names
  <2>1. N = 0 /\ w = 0 /\ x # "." /\ K = {}
    <3>1. N = 0
      BY <1>9 DEF N
    <3>2. w = 0
      BY <1>2, <3>1
    <3>3. K = {}
      BY <1>4, <3>2
    <3>4. x # "."
      BY <1>1, <1>9, <3>1, ElementStreamAssumption
    <3> QED
      BY <3>1, <3>2, <3>3, <3>4
  <2>2. WithoutRootText(u) = 1 .. 1
    BY <1>4, <1>9, <2>1
  <2>3. Lists(u, {} \cup (0 + 1 .. 1), u)
    <3>1. Lists(<<>>, {}, u) /\ <<>> \in Seq(Tokens) /\ {} \in SUBSET (1 .. 0)
      BY ListsNone
    <3>2. \A n \in 0 + 1 .. 1 : u[n - 0] = u[n]
      OBVIOUS
    <3>3. Len(u) = 1 - 0 /\ 0 \in Nat /\ 1 \in Nat /\ 0 < 1
      BY <1>9
    <3>4. Lists(<<>> \o u, {} \cup (0 + 1 .. 1), u)
      BY <1>1, <3>1, <3>2, <3>3, ListsMore
    <3> QED
      BY <1>1, <3>4
  <2>4. u = SubSeq(u, 1, 1)
    BY <1>1, <1>9, SubSeqFull
  <2>5. {} \cup (0 + 1 .. 1) = 1 .. 1
    OBVIOUS
  <2>6. Lists(root', WithoutRootText(u), u)
    BY <1>9, <2>2, <2>3, <2>5
  <2>7. root' = SubSeq(u, 1, whole') /\ root' \in Seq(Tokens)
    BY <1>1, <1>9, <2>4
  <2> QED
    BY <2>6, <2>7 DEF u
<1>10. CASE /\ root' = root \o SubSeq(u, w + 1, Len(u))
            /\ u[Len(u)] = "/" /\ whole' = Len(u)
  <2>1. root' = root \o SubSeq(u, w + 1, N + 1) /\ whole' = N + 1 /\ x # "."
    BY <1>1, <1>10
  <2>2. root' \in Seq(Tokens)
    BY <1>1, <1>2, <2>1
  <2>3. listener = "BufferParser" /\ outcome # "error" => root' = SubSeq(u, 1, N + 1)
    BY <1>2, <1>6, <2>1
  <2>4. ASSUME Lists(root, K, text)
        PROVE  Lists(root', WithoutRootText(u), u)
    <3>1. WithoutRootText(u) = K \cup (w + 1 .. N + 1)
      BY <1>4, <2>1
    <3>2. \A n \in K : u[n] = text[n]
      BY <1>1, <1>2, <1>4
    <3>3. w \in Nat /\ N + 1 \in Nat /\ w < N + 1
      BY <1>1, <1>2
    <3>4. Lists(root \o SubSeq(u, w + 1, N + 1), K \cup (w + 1 .. N + 1), u)
      <4>1. PICK r \in Seq(Tokens) : /\ r = SubSeq(u, w + 1, N + 1) /\ Len(r) = N + 1 - w
                                     /\ \A n \in w + 1 .. N + 1 : r[n - w] = u[n]
        BY <1>2
      <4>2. PICK M \in Nat : M = N + 1 /\ w < M
        BY <3>3
      <4>3. /\ Len(r) = M - w /\ \A n \in w + 1 .. M : r[n - w] = u[n]
            /\ K \in SUBSET (1 .. w) /\ root \in Seq(Tokens) /\ w \in Nat
        BY <1>1, <1>4, <3>3, <4>1, <4>2
      <4>4. Lists(root \o r, K \cup (w + 1 .. M), u)
        BY <2>4, <3>2, <4>2, <4>3, ListsMore
      <4> QED
        BY <4>1, <4>2, <4>4
    <3> QED
      BY <2>1, <3>1, <3>4
  <2> QED
    BY <1>7, <2>1, <2>2, <2>3, <2>4 DEF u
<1>11. CASE /\ root' = IF listener = "BufferParser" THEN root \o <<".">> ELSE root
            /\ u[Len(u)] = "." /\ w = N /\ whole' = Len(u)
  <2>1. x = "." /\ whole' = N + 1 /\ WithoutRootText(u) = K
    BY <1>1, <1>4, <1>11
  <2>2. root' \in Seq(Tokens)
    BY <1>1, <1>11
  <2>3. SubSeq(u, 1, w) \o <<".">> = SubSeq(u, 1, N + 1)
    <3>1. PICK n \in 1 .. Len(u) : n = N + 1 /\ n - 1 = N /\ u[n] = "."
      BY <1>1, <1>11
    <3>2. SubSeq(u, 1, n) = SubSeq(u, 1, n - 1) \o <<u[n]>>
      <4>1. 1 \in 1 .. Len(u)
        BY <1>1
      <4> QED
        BY <1>1, <4>1, SubSeqRecursiveSecond
    <3> QED
      BY <1>11, <3>1, <3>2
  <2> QED
    BY <1>5, <1>6, <1>7, <1>11, <2>1, <2>2, <2>3 DEF u
<1> QED
  BY <1>8, <1>9, <1>10, <1>11 DEF Taken, N, w, u

\* Nothing else touches the root, and what it was made from.
LEMMA RootStays ==
  ASSUME RootInv, UNCHANGED <<listener, root>>,
         \/ listener \notin {"BufferParser", "FileStream"}
         \/ UNCHANGED <<text, document_ended, outcome>>
  PROVE  RootInv'
<1>1. root' \in Seq(Tokens)
  BY DEF RootInv
<1>2. CASE listener \notin {"BufferParser", "FileStream"}
  BY <1>1, <1>2 DEF RootInv
<1>3. CASE UNCHANGED <<text, document_ended, outcome>>
  BY <1>3 DEF RootInv, whole
<1> QED
  BY <1>2, <1>3

LEMMA RootStep ==
  ASSUME ShapeInv, RootInv, [ListenersNext]_allVars
  PROVE  RootInv'
<1>1. CASE parse /\ listener \in {"BufferParser", "FileStream"}
  <2>1. Parsed /\ takeIntoRoot /\ outcome = "none" /\ UNCHANGED <<listener, outcome>>
    BY <1>1 DEF parse, takeIntoRoot
  <2>2. PICK x \in Tokens : Heard(x)
    BY <2>1, ParsedStep
  <2>3. Taken /\ text' = Append(text, x)
    BY <1>1, <2>1, <2>2, RootIsTaken DEF Heard
  <2>4. text' # <<>>
    <3>1. Len(text') = Len(text) + 1 /\ Len(text) \in Nat
      BY <2>3 DEF ShapeInv
    <3> QED
      BY <3>1
  <2>5. /\ root' \in Seq(Tokens)
        /\ listener = "BufferParser" /\ outcome # "error" =>
              root' = SubSeq(text', 1, whole')
        /\ listener = "FileStream" /\ outcome # "error" =>
              Lists(root', WithoutRootText(text'), text')
    BY <2>1, <2>3, RootFollows
  <2> QED
    BY <2>1, <2>4, <2>5 DEF RootInv
<1>2. CASE parse /\ listener \notin {"BufferParser", "FileStream"}
  <2>1. UNCHANGED <<listener, root>>
    BY <1>2 DEF parse, takeIntoSession, listenerVars
  <2> QED
    BY <1>2, <2>1, RootStays
<1>3. CASE returns
  <2>1. /\ UNCHANGED <<text, document_ended, listener, root>> /\ outcome = "none"
        /\ listener = "BufferParser" /\ outcome' = "root" => document_ended
    BY <1>3 DEF returns, vars, flags
  <2> QED
    BY <2>1 DEF RootInv, whole
<1>4. CASE breaksOff
  <2>1. /\ UNCHANGED <<text, document_ended, listener>> /\ outcome' = "error"
        /\ root' = <<>>
    BY <1>4 DEF breaksOff, ParserError, flags
  <2>2. <<>> \in Seq(Tokens)
    OBVIOUS
  <2> QED
    BY <2>1, <2>2 DEF RootInv
<1>5. CASE connect \/ disconnect \/ pushBad
  <2>1. listener = "ComponentSession" /\ UNCHANGED <<listener, root>>
    BY <1>5 DEF connect, disconnect, pushBad
  <2> QED
    BY <2>1, RootStays
<1>6. CASE other
  <2>1. listener = "other" /\ UNCHANGED <<listener, root>>
    BY <1>6 DEF other, listenerVars
  <2> QED
    BY <2>1, RootStays
<1>7. CASE UNCHANGED allVars
  BY <1>7, RootStays DEF allVars, vars, flags, listenerVars
<1> QED
  BY <1>1, <1>2, <1>3, <1>4, <1>5, <1>6, <1>7 DEF ListenersNext

LEMMA RootInit ==
  ASSUME ListenersInit
  PROVE  RootInv
<1>1. /\ text = <<>> /\ root = <<>> /\ ~ document_ended /\ outcome = "none"
      /\ root \in Seq(Tokens) /\ Len(text) = 0
  BY DEF ListenersInit, Init
<1>2. whole \in 0 .. 0
  BY <1>1, WholeToType DEF whole
<1>3. root = SubSeq(text, 1, whole)
  BY <1>1, <1>2, SubSeqEmpty
<1>4. Lists(root, WithoutRootText(text), text)
  <2>1. WithoutRootText(text) = {}
    BY <1>1, <1>2 DEF WithoutRootText, whole
  <2> QED
    BY <1>1, <2>1, ListsNone
<1> QED
  BY <1>1, <1>3, <1>4 DEF RootInv

LEMMA RootIsAsParsed ==
  ASSUME ShapeInv, RootInv
  PROVE  RootIsDocument
<1>1. ASSUME listener = "BufferParser", outcome = "root"
      PROVE  root \o <<"/">> = text
  <2>1. PICK N \in Nat : N = Len(text)
    BY DEF ShapeInv
  <2>2. text # <<>> /\ document_ended /\ text \in Seq(Tokens)
    BY <1>1 DEF RootInv, ShapeInv
  <2>3. text[N] = "/" /\ whole = N - 1
    BY <2>1, <2>2 DEF ShapeInv, whole
  <2>4. root = SubSeq(text, 1, N - 1)
    BY <1>1, <2>3 DEF RootInv
  <2>5. 1 \in 1 .. Len(text) /\ N \in 1 .. Len(text)
    BY <2>1, <2>2
  <2>6. SubSeq(text, 1, N) = SubSeq(text, 1, N - 1) \o <<text[N]>>
    BY <2>2, <2>5, SubSeqRecursiveSecond
  <2>7. SubSeq(text, 1, N) = text
    BY <2>1, <2>2, SubSeqFull
  <2> QED
    BY <2>3, <2>4, <2>6, <2>7
<1> QED
  BY <1>1 DEF RootIsDocument, RootInv, whole

(***************************************************************************)
(* parseAtOnce() and FileStream hold at every moment what was parsed, up to*)
(* the last child that is complete, and what parseAtOnce() returns is the  *)
(* whole document.                                                         *)
(***************************************************************************)
THEOREM RootIsRebuilt ==
  ASSUME ~ ResetAnywhere
  PROVE  ListenersSpec => []RootIsDocument
<1>1. ListenersInit => StreamInv /\ RootInv
  BY StreamInit, RootInit DEF ListenersInit
<1>2. StreamInv /\ RootInv /\ [ListenersNext]_allVars => StreamInv' /\ RootInv'
  BY StreamStep, RootStep DEF StreamInv
<1>3. StreamInv /\ RootInv => RootIsDocument
  BY RootIsAsParsed DEF StreamInv
<1> QED
  BY <1>1, <1>2, <1>3, PTL DEF ListenersSpec

-----------------------------------------------------------------------------
(* The connection of a component                                           *)

\* Wherever reset() comes, the stack holds elements and the events are calls.
CallsInv ==
    /\ element_stack \in Seq(Seq(Tokens))
    /\ events \in Seq(Calls)
    /\ document_ended \in BOOLEAN

ConnectionInv == CallsInv /\ ConnectedByHandshake

LEMMA ReplacedInSeq ==
  ASSUME NEW S, NEW s \in Seq(S), NEW i \in 1 .. Len(s), NEW e \in S
  PROVE  [s EXCEPT ![i] = e] \in Seq(S)
OBVIOUS

\* A step of the stream makes one call or none; only that of the end of the
\* document ends it.
LEMMA CallStep ==
  ASSUME CallsInv, Parsed
  PROVE  /\ CallsInv'
         /\ \/ events' = events /\ document_ended' = document_ended
            \/ \E c \in Calls : /\ events' = Append(events, c)
                                /\ c.kind # "onDocumentEnd" => document_ended' = document_ended
<1>1. /\ element_stack \in Seq(Seq(Tokens)) /\ events \in Seq(Calls)
      /\ Names \subseteq Tokens /\ "/" \in Tokens /\ "." \in Tokens
      /\ document_ended \in BOOLEAN
  BY DEF CallsInv, Tokens
<1>2. ASSUME NEW name \in Names, onStartElement(name)
      PROVE  /\ element_stack' \in Seq(Seq(Tokens)) /\ document_ended' = document_ended
             /\ \/ events' = events
                \/ \E c \in Calls : events' = Append(events, c)
  <2>1. <<name>> \in Seq(Tokens)
    BY <1>1
  <2>2. [kind |-> "onDocumentStart", tokens |-> <<name>>] \in Calls
    BY <2>1 DEF Calls
  <2>3. Append(element_stack, <<name>>) \in Seq(Seq(Tokens))
    BY <1>1, <2>1
  <2>4. CASE document_started
    BY <1>2, <2>3, <2>4 DEF onStartElement
  <2>5. CASE ~ document_started
    <3>1. /\ element_stack' = element_stack /\ document_ended' = document_ended
          /\ events' = Append(events, [kind |-> "onDocumentStart", tokens |-> <<name>>])
      BY <1>2, <2>5 DEF onStartElement, Tell
    <3> QED
      BY <1>1, <2>2, <3>1
  <2> QED
    BY <2>4, <2>5
<1>3. ASSUME onCDATA
      PROVE  /\ element_stack' \in Seq(Seq(Tokens)) /\ document_ended' = document_ended
             /\ \/ events' = events
                \/ \E c \in Calls : events' = Append(events, c)
  <2>1. <<".">> \in Seq(Tokens)
    BY <1>1
  <2>2. [kind |-> "onCDATA", tokens |-> <<".">>] \in Calls
    BY <2>1 DEF Calls
  <2>3. CASE element_stack = <<>>
    BY <1>1, <1>3, <2>2, <2>3 DEF onCDATA, Tell, flags
  <2>4. CASE element_stack # <<>>
    <3>1. Len(element_stack) \in 1 .. Len(element_stack)
      BY <1>1, <2>4
    <3>2. Append(element_stack[Len(element_stack)], ".") \in Seq(Tokens)
      BY <1>1, <3>1, ElementOfSeq
    <3>3. element_stack' = [element_stack EXCEPT ![Len(element_stack)] = Append(@, ".")]
          /\ events' = events /\ document_ended' = document_ended
      BY <1>3, <2>4 DEF onCDATA, flags
    <3>4. element_stack' \in Seq(Seq(Tokens))
      BY <1>1, <3>1, <3>2, <3>3, ReplacedInSeq
    <3> QED
      BY <3>3, <3>4
  <2> QED
    BY <2>3, <2>4
<1>4. ASSUME onEndElement
      PROVE  /\ element_stack' \in Seq(Seq(Tokens)) /\ document_ended' \in BOOLEAN
             /\ \/ events' = events /\ document_ended' = document_ended
                \/ \E c \in Calls : /\ events' = Append(events, c)
                                    /\ c.kind # "onDocumentEnd" => document_ended' = document_ended
  <2>1. Len(element_stack) \in Nat /\ (element_stack # <<>> <=> Len(element_stack) # 0)
    BY <1>1
  <2>2. CASE Len(element_stack) = 1
    <3>1. 1 \in 1 .. Len(element_stack) /\ Last(element_stack) = element_stack[1]
      BY <2>2 DEF Last
    <3>2. Closed \in Seq(Tokens)
      BY <1>1, <3>1, ElementOfSeq DEF Closed
    <3>3. [kind |-> "onElement", tokens |-> Closed] \in Calls
      BY <3>2 DEF Calls
    <3>4. /\ element_stack' = <<>> /\ document_ended' = document_ended
          /\ events' = Append(events, [kind |-> "onElement", tokens |-> Closed])
      BY <1>4, <2>2 DEF onEndElement, Tell
    <3> QED
      BY <1>1, <3>3, <3>4
  <2>3. CASE element_stack = <<>>
    <3>1. <<>> \in Seq(Tokens)
      OBVIOUS
    <3>2. [kind |-> "onDocumentEnd", tokens |-> <<>>] \in Calls
      BY <3>1 DEF Calls
    <3>3. /\ element_stack' = element_stack /\ document_ended' = TRUE
          /\ events' = Append(events, [kind |-> "onDocumentEnd", tokens |-> <<>>])
      BY <1>4, <2>1, <2>3 DEF onEndElement, Tell
    <3>4. [kind |-> "onDocumentEnd", tokens |-> <<>>].kind = "onDocumentEnd"
      OBVIOUS
    <3> QED
      BY <1>1, <3>2, <3>3, <3>4
  <2>4. CASE Len(element_stack) # 1 /\ element_stack # <<>>
    <3> DEFINE L == Len(element_stack)
    <3>1. L \in Nat /\ L > 1
      BY <2>1, <2>4
    <3>2. PICK front \in Seq(Seq(Tokens)) :
            front = Front(element_stack) /\ Len(front) = L - 1
      <4>1. /\ SubSeq(element_stack, 1, L - 1) \in Seq(Seq(Tokens))
            /\ Len(SubSeq(element_stack, 1, L - 1)) = L - 1
        BY <1>1, <3>1
      <4> QED
        BY <4>1 DEF Front
    <3>3. Closed \in Seq(Tokens)
      <4>1. L \in 1 .. Len(element_stack)
        BY <3>1
      <4>2. element_stack[L] \in Seq(Tokens)
        BY <1>1, <4>1, ElementOfSeq
      <4> QED
        BY <1>1, <4>2 DEF Closed, Last
    <3>4. front[L - 1] \o Closed \in Seq(Tokens)
      <4>1. L - 1 \in 1 .. Len(front)
        BY <3>1, <3>2
      <4>2. front[L - 1] \in Seq(Tokens)
        BY <4>1, ElementOfSeq
      <4> QED
        BY <3>3, <4>2
    <3>5. /\ element_stack' = [front EXCEPT ![L - 1] = front[L - 1] \o Closed]
          /\ document_ended' = document_ended /\ events' = events
      BY <1>4, <2>4, <3>2 DEF onEndElement
    <3>6. element_stack' \in Seq(Seq(Tokens))
      <4>1. L - 1 \in 1 .. Len(front)
        BY <3>1, <3>2
      <4> QED
        BY <3>4, <3>5, <4>1, ReplacedInSeq
    <3> QED
      BY <1>1, <3>5, <3>6
  <2> QED
    BY <2>2, <2>3, <2>4
<1>5. /\ element_stack' \in Seq(Seq(Tokens)) /\ document_ended' \in BOOLEAN
      /\ \/ events' = events /\ document_ended' = document_ended
         \/ \E c \in Calls : /\ events' = Append(events, c)
                             /\ c.kind # "onDocumentEnd" => document_ended' = document_ended
  BY <1>1, <1>2, <1>3, <1>4 DEF Parsed
<1>6. events' \in Seq(Calls)
  <2>1. CASE events' = events
    BY <1>1, <2>1
  <2>2. ASSUME NEW c \in Calls, events' = Append(events, c)
        PROVE  events' \in Seq(Calls)
    BY <1>1, <2>2
  <2> QED
    BY <1>5, <2>1, <2>2
<1> QED
  BY <1>5, <1>6 DEF CallsInv

\* A <handshake/> that the component has been told of
Shaken(es) == \E i \in DOMAIN es : es[i].kind = "onElement" /\ es[i].tokens[1] = Handshake

LEMMA ConnectedByShaken ==
  ConnectedByHandshake <=>
     (listener = "ComponentSession" /\ ~ late =>
         /\ connState = "Connected" => Shaken(events) /\ ~ document_ended
         /\ connState = "AwaitingAuth" => ~ Shaken(events))
BY DEF ConnectedByHandshake, Shaken

LEMMA ShakenByOneMore ==
  ASSUME NEW es \in Seq(Calls), NEW c \in Calls
  PROVE  Shaken(Append(es, c)) <=>
            Shaken(es) \/ (c.kind = "onElement" /\ c.tokens[1] = Handshake)
<1> DEFINE fs == Append(es, c)
           N == Len(es)
<1>1. /\ N \in Nat /\ DOMAIN es = 1 .. N /\ DOMAIN fs = 1 .. N + 1
      /\ \A i \in 1 .. N : fs[i] = es[i]
      /\ fs[N + 1] = c
  OBVIOUS
<1> HIDE DEF fs, N
<1>2. \A i \in 1 .. N + 1 : i \in 1 .. N \/ i = N + 1
  BY <1>1
<1>3. \A i \in 1 .. N : i \in 1 .. N + 1
  BY <1>1
<1>4. N + 1 \in 1 .. N + 1
  BY <1>1
<1>5. Shaken(fs) <=> Shaken(es) \/ (c.kind = "onElement" /\ c.tokens[1] = Handshake)
  BY <1>1, <1>2, <1>3, <1>4 DEF Shaken
<1> QED
  BY <1>5 DEF fs

LEMMA SessionTakes ==
  ASSUME CallsInv, ConnectedByHandshake, Parsed, takeIntoSession
  PROVE  ConnectedByHandshake'
<1>1. /\ UNCHANGED listener /\ late' = (late \/ connState = "NotConnected")
      /\ events \in Seq(Calls) /\ Len(events) \in Nat
  BY DEF takeIntoSession, CallsInv
<1> SUFFICES ASSUME listener = "ComponentSession", ~ late, connState # "NotConnected"
             PROVE  /\ connState' = "Connected" => Shaken(events') /\ ~ document_ended'
                    /\ connState' = "AwaitingAuth" => ~ Shaken(events')
  BY <1>1, ConnectedByShaken DEF ConnectedByHandshake, Shaken
<1>2. /\ connState = "Connected" => Shaken(events) /\ ~ document_ended
      /\ connState = "AwaitingAuth" => ~ Shaken(events)
  BY ConnectedByShaken
<1>3. ~ document_ended
  BY DEF Parsed, onStartElement, onEndElement, onCDATA, Parses
<1>4. CASE events' = events /\ document_ended' = document_ended
  <2>1. ~ Called
    BY <1>1, <1>4 DEF Called
  <2>2. connState' = connState
    BY <2>1 DEF takeIntoSession, CalledAs
  <2> QED
    BY <1>2, <1>3, <1>4, <2>2
<1>5. ASSUME NEW c \in Calls, events' = Append(events, c),
             c.kind # "onDocumentEnd" => document_ended' = document_ended
      PROVE  /\ connState' = "Connected" => Shaken(events') /\ ~ document_ended'
             /\ connState' = "AwaitingAuth" => ~ Shaken(events')
  <2>1. Len(events') = Len(events) + 1 /\ events'[Len(events) + 1] = c
    BY <1>1, <1>5
  <2>2. Called /\ Call = c
    BY <1>1, <2>1 DEF Called, Call, Last
  <2>3. Shaken(events') <=> Shaken(events) \/ (c.kind = "onElement" /\ c.tokens[1] = Handshake)
    BY <1>1, <1>5, ShakenByOneMore
  <2>4. connState' = CASE c.kind = "onDocumentEnd" -> "NotConnected"
                       [] c.kind = "onElement" /\ c.tokens[1] = Handshake -> "Connected"
                       [] OTHER -> connState
    BY <2>2 DEF takeIntoSession, CalledAs
  <2>5. CASE c.kind = "onDocumentEnd"
    BY <2>4, <2>5
  <2>6. CASE c.kind = "onElement" /\ c.tokens[1] = Handshake
    BY <1>3, <1>5, <2>3, <2>4, <2>6
  <2>7. CASE c.kind # "onDocumentEnd" /\ ~ (c.kind = "onElement" /\ c.tokens[1] = Handshake)
    BY <1>2, <1>3, <1>5, <2>3, <2>4, <2>7
  <2> QED
    BY <2>5, <2>6, <2>7
<1> QED
  BY <1>4, <1>5, CallStep

LEMMA CallsStep ==
  ASSUME CallsInv, [ListenersNext]_allVars
  PROVE  CallsInv'
<1>1. ASSUME reset
      PROVE  CallsInv'
  <2>1. element_stack' = element_stack /\ events' = <<>> /\ document_ended' = FALSE
    BY <1>1 DEF reset
  <2>2. <<>> \in Seq(Calls)
    OBVIOUS
  <2> QED
    BY <2>1, <2>2 DEF CallsInv
<1>2. ASSUME ParserError \/ pushBad \/ UNCHANGED vars
      PROVE  CallsInv'
  BY <1>2 DEF CallsInv, ParserError, pushBad, vars, flags
<1>3. ASSUME onEndElementReset
      PROVE  CallsInv'
  BY <1>3 DEF CallsInv, onEndElementReset
<1>4. CASE parse
  BY <1>4, CallStep DEF parse
<1>5. CASE returns \/ breaksOff \/ disconnect \/ connect \/ pushBad
  BY <1>1, <1>2, <1>5 DEF returns, breaksOff, disconnect, connect
<1>6. CASE other
  BY <1>1, <1>2, <1>3, <1>6 DEF other
<1>7. CASE UNCHANGED allVars
  BY <1>2, <1>7 DEF allVars
<1> QED
  BY <1>4, <1>5, <1>6, <1>7 DEF ListenersNext

LEMMA ConnectionStep ==
  ASSUME CallsInv, ConnectedByHandshake, [ListenersNext]_allVars
  PROVE  ConnectedByHandshake'
<1>1. CASE parse /\ listener = "ComponentSession"
  BY <1>1, SessionTakes DEF parse
<1>2. CASE parse /\ listener # "ComponentSession"
  BY <1>2 DEF parse, takeIntoRoot, listenerVars, ConnectedByHandshake
<1>3. CASE returns \/ breaksOff
  BY <1>3 DEF returns, breaksOff, ConnectedByHandshake
<1>4. CASE other
  BY <1>4 DEF other, listenerVars, ConnectedByHandshake
<1>5. CASE connect
  <2>1. connState' = "AwaitingAuth" /\ events' = <<>>
    BY <1>5 DEF connect, reset
  <2> QED
    BY <2>1 DEF ConnectedByHandshake
<1>6. CASE disconnect \/ pushBad
  <2>1. connState' = "NotConnected"
    BY <1>6 DEF disconnect, pushBad
  <2> QED
    BY <2>1 DEF ConnectedByHandshake
<1>7. CASE UNCHANGED allVars
  BY <1>7 DEF allVars, vars, flags, listenerVars, ConnectedByHandshake
<1> QED
  BY <1>1, <1>2, <1>3, <1>4, <1>5, <1>6, <1>7 DEF ListenersNext

(***************************************************************************)
(* A component is connected by a <handshake/> on the stream it opened, and *)
(* by that alone, wherever its streams break off.                          *)
(***************************************************************************)
THEOREM HandshakeConnects == ListenersSpec => []ConnectedByHandshake
<1>1. ListenersInit => ConnectionInv
  <2>1. <<>> \in Seq(Calls) /\ <<>> \in Seq(Seq(Tokens))
    OBVIOUS
  <2>2. ListenersInit => CallsInv
    BY <2>1 DEF ListenersInit, Init, CallsInv
  <2>3. ListenersInit => ConnectedByHandshake
    BY DEF ListenersInit, ConnectedByHandshake
  <2> QED
    BY <2>2, <2>3 DEF ConnectionInv
<1>2. ConnectionInv /\ [ListenersNext]_allVars => ConnectionInv'
  BY CallsStep, ConnectionStep DEF ConnectionInv
<1>3. ConnectionInv => ConnectedByHandshake
  BY DEF ConnectionInv
<1> QED
  BY <1>1, <1>2, <1>3, PTL DEF ListenersSpec

-----------------------------------------------------------------------------
(***************************************************************************)
(* The second part: the hash tables and the string pools of expat, for     *)
(* tables and pools of any size.                                           *)
(*                                                                         *)
(* Between the slot a hash gives and the one a pointer is in, all slots are*)
(* used (HashedIn); a table is filled to the half, so that there is an     *)
(* empty one.  What a pointer of a table points to is a finished string: it*)
(* lies in front of what is being written, or in another block (Settled),  *)
(* and no block is at the place of another (Apart).                        *)
(***************************************************************************)

Hashed == INSTANCE SequenceLemmas WITH Op <- WithCharacter
Refilled == INSTANCE SequenceLemmas WITH Op <- PutAgain

LEMMA HashType ==
  ASSUME NEW s \in Strings
  PROVE  hash(s) \in Nat
<1>1. s \in Seq(Characters) /\ \A c \in Characters : Code(c) \in Nat
  BY StringsAssumption
<1>2. \A h \in Nat, c \in Characters : WithCharacter(h, c) \in Nat
  BY <1>1 DEF WithCharacter
<1>3. Hashed!Folded(0, s) \in Nat
  BY <1>1, <1>2, Hashed!FoldStays
<1> QED
  BY <1>3 DEF hash, Hashed!Folded, FoldLeft, Hashed!FoldLeft, MapThenFoldSet,
              Hashed!MapThenFoldSet, Max, Hashed!Max

\* The slots from that of a hash downwards, and around: each slot is one of them.
LEMMA SlotRange ==
  ASSUME NEW n \in Nat \ {0}, NEW h \in Int
  PROVE  h % n \in 0 .. n - 1 /\ h \div n \in Int /\ h = n * (h \div n) + (h % n)
OBVIOUS

LEMMA SlotIsReached ==
  ASSUME NEW n \in Nat \ {0}, NEW h \in Nat, NEW i \in 0 .. n - 1
  PROVE  \E k \in 0 .. n - 1 : (h - k) % n = i
<1>1. PICK k, d : /\ k = (h - i) % n /\ k \in 0 .. n - 1
                  /\ d = (h - i) \div n /\ d \in Int /\ h - i = n * d + k
  OBVIOUS
<1>2. PICK r, e : /\ r = (h - k) % n /\ r \in 0 .. n - 1
                  /\ e = (h - k) \div n /\ e \in Int /\ h - k = n * e + r
  <2>1. h - k \in Int
    BY ONLY <1>1, h \in Nat, n \in Nat
  <2> QED
    BY <2>1, SlotRange
<1>3. n * d + i = n * e + r
  BY <1>1, <1>2
<1>4. i = r
  BY ONLY <1>1, <1>2, <1>3, i \in 0 .. n - 1, n \in Nat \ {0}
<1> QED
  BY <1>1, <1>2, <1>4

\* A search for hash h passes used slots only, and comes to slot i.
Reached(v, n, h, i) ==
  \E k \in 0 .. n - 1 : /\ (h - k) % n = i
                        /\ \A j \in 0 .. k - 1 : v[(h - j) % n] # Empty

LEMMA ProbeIs ==
  ASSUME NEW n \in Nat \ {0}, NEW h \in Nat, NEW v, NEW P,
         NEW e \in 0 .. n - 1, v[e] \in P \cup {Empty}
  PROVE  \E k \in 0 .. n - 1 :
            /\ Probe(v, n, h, P) = (h - k) % n
            /\ v[(h - k) % n] \in P \cup {Empty}
            /\ \A j \in 0 .. k - 1 : v[(h - j) % n] \notin P \cup {Empty}
<1> DEFINE EndsAtSlot(k) == v[(h - k) % n] \in P \cup {Empty}
           E == {k \in 0 .. n - 1 : EndsAtSlot(k)}
           First(k) == EndsAtSlot(k) /\ \A j \in 0 .. k - 1 : ~ EndsAtSlot(j)
           c == CHOOSE k \in 0 .. n - 1 : First(k)
<1>1. E # {} /\ E \in SUBSET Nat
  <2>1. PICK k \in 0 .. n - 1 : (h - k) % n = e
    BY SlotIsReached
  <2>2. k \in E
    BY <2>1
  <2>3. E \in SUBSET Nat
    <3> HIDE DEF EndsAtSlot
    <3> QED
      OBVIOUS
  <2> QED
    BY <2>2, <2>3
<1>2. PICK m \in E : \A k \in E : m <= k
  <2> HIDE DEF E
  <2> QED
    BY <1>1, LeastNatural
<1>3. m \in 0 .. n - 1 /\ First(m)
  <2>1. m \in 0 .. n - 1 /\ EndsAtSlot(m)
    BY <1>2
  <2>2. ASSUME NEW j \in 0 .. m - 1, EndsAtSlot(j) PROVE FALSE
    <3>1. j \in E /\ j < m
      BY <2>1, <2>2
    <3> HIDE DEF E
    <3> QED
      BY <3>1, <1>2, <2>1
  <2> HIDE DEF EndsAtSlot
  <2> QED
    BY <2>1, <2>2
<1>4. c \in 0 .. n - 1 /\ First(c)
  <2> HIDE DEF First
  <2> QED
    BY <1>3
<1>5. Probe(v, n, h, P) = (h - c) % n
  BY DEF Probe
<1> HIDE DEF c
<1> QED
  BY <1>4, <1>5

Used(v, n) == {i \in 0 .. n - 1 : v[i] # Empty}
Held(v, n) == {v[i] : i \in Used(v, n)}

\* Each name is where a search for it passes no empty slot, and there is one slot
\* for a name.  X has the names of the pointers.
HashedIn(v, n, X) ==
  /\ \A i \in Used(v, n) : Reached(v, n, hash(X[v[i]]), i)
  /\ \A i, j \in Used(v, n) : X[v[i]] = X[v[j]] => i = j

LEMMA UsedCount ==
  ASSUME NEW n \in Nat, NEW v
  PROVE  /\ IsFiniteSet(Used(v, n))
         /\ Cardinality(Used(v, n)) \in Nat
         /\ Cardinality(Used(v, n)) < n => \E e \in 0 .. n - 1 : v[e] = Empty
<1>1. IsFiniteSet(0 .. n - 1) /\ Cardinality(0 .. n - 1) = n
  <2>1. n - 1 \in Int /\ 0 \in Int
    OBVIOUS
  <2>2. /\ IsFiniteSet(0 .. n - 1)
        /\ Cardinality(0 .. n - 1) = IF 0 > n - 1 THEN 0 ELSE n - 1 - 0 + 1
    BY <2>1, FS_Interval
  <2> QED
    BY <2>2
<1>2. Used(v, n) \in SUBSET (0 .. n - 1)
  BY DEF Used
<1>3. IsFiniteSet(Used(v, n)) /\ Cardinality(Used(v, n)) \in Nat
  BY <1>1, <1>2, FS_Subset, FS_CardinalityType
<1>4. ASSUME Cardinality(Used(v, n)) < n
      PROVE  \E e \in 0 .. n - 1 : v[e] = Empty
  <2>1. Used(v, n) # 0 .. n - 1
    BY <1>1, <1>4
  <2> QED
    BY <2>1 DEF Used
<1> QED
  BY <1>3, <1>4

LEMMA FreeSlotIs ==
  ASSUME NEW n \in Nat \ {0}, NEW h \in Nat, NEW v, Cardinality(Used(v, n)) < n
  PROVE  \E i \in 0 .. n - 1 : /\ FreeSlot(v, n, h) = i
                               /\ v[i] = Empty
                               /\ Reached(v, n, h, i)
<1>1. PICK e \in 0 .. n - 1 : v[e] = Empty
  BY UsedCount
<1>2. v[e] \in {} \cup {Empty}
  BY <1>1
<1>3. PICK k \in 0 .. n - 1 :
         /\ Probe(v, n, h, {}) = (h - k) % n
         /\ v[(h - k) % n] \in {} \cup {Empty}
         /\ \A j \in 0 .. k - 1 : v[(h - j) % n] \notin {} \cup {Empty}
  BY <1>2, ProbeIs
<1>4. PICK i \in 0 .. n - 1 : i = (h - k) % n
  <2>1. h - k \in Int
    OBVIOUS
  <2> QED
    BY <2>1, SlotRange
<1>5. Reached(v, n, h, i)
  BY <1>3, <1>4 DEF Reached
<1> QED
  BY <1>3, <1>4, <1>5 DEF FreeSlot

\* Pointer p may be put into slot i: it is empty, a search for the name of p
\* comes to it, and no slot has that name.
MayPut(v, n, S, X, p, i) ==
  /\ n \in Nat \ {0} /\ v \in [0 .. n - 1 -> S \cup {Empty}]
  /\ HashedIn(v, n, X)
  /\ p \in S /\ p # Empty /\ \A j \in Used(v, n) : X[v[j]] # X[p]
  /\ \A q \in Held(v, n) \cup {p} : hash(X[q]) \in Nat
  /\ i \in 0 .. n - 1 /\ v[i] = Empty /\ Reached(v, n, hash(X[p]), i)

HasPut(v, w, n, S, X, p) ==
  /\ w \in [0 .. n - 1 -> S \cup {Empty}]
  /\ HashedIn(w, n, X)
  /\ Held(w, n) = Held(v, n) \cup {p}
  /\ Cardinality(Used(w, n)) = Cardinality(Used(v, n)) + 1

LEMMA PutOneMore ==
  ASSUME NEW v, NEW n, NEW S, NEW X, NEW p, NEW i, MayPut(v, n, S, X, p, i)
  PROVE  HasPut(v, [v EXCEPT ![i] = p], n, S, X, p)
<1> DEFINE w == [v EXCEPT ![i] = p]
<1> USE DEF MayPut
<1>1. w \in [0 .. n - 1 -> S \cup {Empty}]
  OBVIOUS
<1>2. w[i] = p /\ \A j \in 0 .. n - 1 : j # i => w[j] = v[j]
  OBVIOUS
<1> HIDE DEF w
<1>3. Used(w, n) = Used(v, n) \cup {i} /\ i \notin Used(v, n)
  BY <1>2 DEF Used
<1>4. \A j \in Used(v, n) : w[j] = v[j] /\ j \in 0 .. n - 1
  BY <1>2 DEF Used
<1>5. Held(w, n) = Held(v, n) \cup {p}
  <2>1. \A q \in Held(w, n) : q \in Held(v, n) \cup {p}
    BY ONLY <1>2, <1>3, <1>4 DEF Held
  <2>2. \A q \in Held(v, n) \cup {p} : q \in Held(w, n)
    BY ONLY <1>2, <1>3, <1>4 DEF Held
  <2> QED
    BY <2>1, <2>2
<1>6. ASSUME NEW h, NEW j, Reached(v, n, h, j), h \in Nat PROVE Reached(w, n, h, j)
  <2>1. PICK k \in 0 .. n - 1 : /\ (h - k) % n = j
                                /\ \A m \in 0 .. k - 1 : v[(h - m) % n] # Empty
    BY <1>6 DEF Reached
  <2>2. ASSUME NEW m \in 0 .. k - 1 PROVE w[(h - m) % n] # Empty
    <3>1. PICK g \in 0 .. n - 1 : g = (h - m) % n
      <4>1. h - m \in Int
        BY <1>6
      <4> QED
        BY <4>1, SlotRange
    <3> QED
      BY <3>1, <2>1, <1>2
  <2> QED
    BY <2>1, <2>2 DEF Reached
<1>7. \A j \in Used(w, n) : Reached(w, n, hash(X[w[j]]), j)
  <2> SUFFICES ASSUME NEW j \in Used(w, n) PROVE Reached(w, n, hash(X[w[j]]), j)
    OBVIOUS
  <2>1. CASE j = i
    <3>1. Reached(v, n, hash(X[w[j]]), j) /\ hash(X[w[j]]) \in Nat
      BY <2>1, <1>2
    <3> QED
      BY <3>1, <1>6
  <2>2. CASE j \in Used(v, n)
    <3>1. w[j] = v[j] /\ v[j] \in Held(v, n)
      BY <2>2, <1>4 DEF Held
    <3>2. Reached(v, n, hash(X[w[j]]), j) /\ hash(X[w[j]]) \in Nat
      BY <3>1, <2>2 DEF HashedIn
    <3> QED
      BY <3>2, <1>6
  <2> QED
    BY <2>1, <2>2, <1>3
<1>8. \A j, k \in Used(w, n) : X[w[j]] = X[w[k]] => j = k
  BY <1>2, <1>3, <1>4 DEF HashedIn
<1>9. Cardinality(Used(w, n)) = Cardinality(Used(v, n)) + 1
  <2>1. IsFiniteSet(Used(v, n))
    BY UsedCount
  <2> QED
    BY <2>1, <1>3, FS_AddElement
<1> QED
  BY <1>1, <1>3, <1>5, <1>7, <1>8, <1>9 DEF HashedIn, HasPut, w

\* The new slots when those of the first m old ones are in them
Refills(v, m, n, S, X) ==
  {t \in [size : {n}, texts : {X}, v : [0 .. n - 1 -> S \cup {Empty}]] :
     /\ HashedIn(t.v, n, X)
     /\ Held(t.v, n) = Held(v, m)
     /\ Cardinality(Used(t.v, n)) = Cardinality(Used(v, m))}

LEMMA NoSlotsUsed ==
  ASSUME NEW n \in Nat
  PROVE  Used(NoSlots(n), n) = {} /\ Held(NoSlots(n), n) = {}
BY DEF Used, Held, NoSlots

LEMMA UsedUpTo ==
  ASSUME NEW v, NEW m \in Nat \ {0}
  PROVE  /\ v[m - 1] = Empty => Used(v, m) = Used(v, m - 1) /\ Held(v, m) = Held(v, m - 1)
         /\ v[m - 1] # Empty =>
              /\ Used(v, m) = Used(v, m - 1) \cup {m - 1}
              /\ Held(v, m) = Held(v, m - 1) \cup {v[m - 1]}
              /\ Cardinality(Used(v, m)) = Cardinality(Used(v, m - 1)) + 1
<1>1. CASE v[m - 1] = Empty
  <2>1. Used(v, m) = Used(v, m - 1)
    BY <1>1 DEF Used
  <2> QED
    BY <1>1, <2>1 DEF Held
<1>2. CASE v[m - 1] # Empty
  <2>1. Used(v, m) = Used(v, m - 1) \cup {m - 1} /\ m - 1 \notin Used(v, m - 1)
    BY <1>2 DEF Used
  <2>2. Held(v, m) = Held(v, m - 1) \cup {v[m - 1]}
    BY <2>1 DEF Held
  <2>3. IsFiniteSet(Used(v, m - 1))
    <3>1. m - 1 \in Nat
      OBVIOUS
    <3> QED
      BY <3>1, UsedCount
  <2>4. Cardinality(Used(v, m)) = Cardinality(Used(v, m - 1)) + 1
    BY <2>1, <2>3, FS_AddElement
  <2> QED
    BY <1>2, <2>1, <2>2, <2>4
<1> QED
  BY <1>1, <1>2

LEMMA UsedBound ==
  ASSUME NEW v, NEW m \in Nat
  PROVE  Cardinality(Used(v, m)) \in Nat /\ Cardinality(Used(v, m)) <= m
<1>1. IsFiniteSet(0 .. m - 1) /\ Cardinality(0 .. m - 1) = m
  <2>1. m - 1 \in Int /\ 0 \in Int
    OBVIOUS
  <2>2. /\ IsFiniteSet(0 .. m - 1)
        /\ Cardinality(0 .. m - 1) = IF 0 > m - 1 THEN 0 ELSE m - 1 - 0 + 1
    BY <2>1, FS_Interval
  <2> QED
    BY <2>2
<1>2. Used(v, m) \in SUBSET (0 .. m - 1)
  BY DEF Used
<1> QED
  BY <1>1, <1>2, FS_Subset, UsedCount

LEMMA RefillStep ==
  ASSUME NEW N \in Nat, NEW S, Empty \notin S, NEW v \in [0 .. N - 1 -> S \cup {Empty}], NEW X,
         HashedIn(v, N, X), \A q \in Held(v, N) : hash(X[q]) \in Nat,
         NEW n \in Nat, N < n, NEW m \in 1 .. N, NEW t \in Refills(v, m - 1, n, S, X)
  PROVE  PutAgain(t, v[m - 1]) \in Refills(v, m, n, S, X)
<1>1. /\ t.size = n /\ t.texts = X /\ t.v \in [0 .. n - 1 -> S \cup {Empty}]
      /\ t = [size |-> n, texts |-> X, v |-> t.v]
      /\ HashedIn(t.v, n, X)
      /\ Held(t.v, n) = Held(v, m - 1)
      /\ Cardinality(Used(t.v, n)) = Cardinality(Used(v, m - 1))
  BY DEF Refills
<1>2. m \in Nat \ {0} /\ m - 1 \in Nat /\ m - 1 \in 0 .. N - 1 /\ n \in Nat \ {0}
  OBVIOUS
<1>3. CASE v[m - 1] = Empty
  <2>1. PutAgain(t, v[m - 1]) = t
    BY <1>3 DEF PutAgain
  <2>2. Used(v, m) = Used(v, m - 1) /\ Held(v, m) = Held(v, m - 1)
    BY <1>2, <1>3, UsedUpTo
  <2> QED
    BY <2>1, <2>2 DEF Refills
<1>4. CASE v[m - 1] # Empty
  <2> DEFINE p == v[m - 1]
  <2>1. p \in S /\ p # Empty /\ m - 1 \in Used(v, N) /\ p \in Held(v, N)
    BY <1>2, <1>4 DEF Used, Held
  <2>2. /\ Held(v, m) = Held(v, m - 1) \cup {p}
        /\ Cardinality(Used(v, m)) = Cardinality(Used(v, m - 1)) + 1
    BY <1>2, <1>4, UsedUpTo
  <2> HIDE DEF p
  <2>3. Cardinality(Used(t.v, n)) < n
    <3>1. Cardinality(Used(v, m - 1)) \in Nat /\ Cardinality(Used(v, m - 1)) <= m - 1
      BY <1>2, UsedBound
    <3> QED
      BY <1>1, <3>1
  <2>4. hash(X[p]) \in Nat
    BY <2>1
  <2>5. PICK i \in 0 .. n - 1 : /\ FreeSlot(t.v, n, hash(X[p])) = i
                                /\ t.v[i] = Empty
                                /\ Reached(t.v, n, hash(X[p]), i)
    BY <1>2, <2>3, <2>4, FreeSlotIs
  <2>6. \A j \in Used(t.v, n) : X[t.v[j]] # X[p]
    <3> SUFFICES ASSUME NEW j \in Used(t.v, n), X[t.v[j]] = X[p] PROVE FALSE
      OBVIOUS
    <3>1. t.v[j] \in Held(v, m - 1)
      BY <1>1 DEF Held
    <3>2. PICK k \in Used(v, m - 1) : t.v[j] = v[k]
      BY <3>1 DEF Held
    <3>3. k \in Used(v, N) /\ k < m - 1
      BY <3>2, <1>2 DEF Used
    <3>4. k = m - 1
      BY <2>1, <3>2, <3>3 DEF HashedIn, p
    <3> QED
      BY <3>3, <3>4, <1>2
  <2>7. \A q \in Held(t.v, n) \cup {p} : hash(X[q]) \in Nat
    <3>1. Held(v, m - 1) \subseteq Held(v, N)
      BY <1>2 DEF Held, Used
    <3> QED
      BY <1>1, <2>1, <3>1
  <2> DEFINE w == [t.v EXCEPT ![i] = p]
  <2>8. HasPut(t.v, w, n, S, X, p)
    <3>1. MayPut(t.v, n, S, X, p, i)
      BY <1>1, <1>2, <2>1, <2>5, <2>6, <2>7 DEF MayPut
    <3> QED
      BY <3>1, PutOneMore
  <2>9. PutAgain(t, v[m - 1]) = [size |-> n, texts |-> X, v |-> w]
    BY <1>1, <1>4, <2>5 DEF PutAgain, p
  <2> HIDE DEF w
  <2> QED
    BY <1>1, <2>2, <2>8, <2>9 DEF Refills, HasPut
<1> QED
  BY <1>3, <1>4

\* What is so of a table between two steps: X has the names of its pointers.
Places == [id : Nat, at : Nat]

TableType(t) ==
  /\ t = [size |-> t.size, used |-> t.used, usedLim |-> t.usedLim, v |-> t.v]
  /\ t.size \in Nat /\ t.size # 1
  /\ t.v \in [0 .. t.size - 1 -> Places \cup {Empty}]
  /\ t.usedLim = t.size \div 2
  /\ t.used = Cardinality(UsedSlots(t)) /\ t.used <= t.usedLim

TableOK(t, names, X) ==
  /\ TableType(t)
  /\ HashedIn(t.v, t.size, X)
  /\ \A q \in Pointers(t) : X[q] \in Strings
  /\ names = {X[q] : q \in Pointers(t)}
  /\ IsFiniteSet(names) /\ Cardinality(names) = t.used

LEMMA EmptyIsNoPlace == Empty \notin Places
BY DEF Empty, Places

LEMMA PointersAre ==
  ASSUME NEW t
  PROVE  UsedSlots(t) = Used(t.v, t.size) /\ Pointers(t) = Held(t.v, t.size)
BY DEF UsedSlots, Pointers, Used, Held

LEMMA TableNumbers ==
  ASSUME NEW t, TableType(t)
  PROVE  /\ t.used \in Nat /\ t.usedLim \in Nat
         /\ t.size # 0 => t.size \in Nat \ {0} /\ t.used < t.size /\ t.usedLim < t.size
         /\ t.size # 0 => Cardinality(Used(t.v, t.size)) < t.size
<1>1. t.used = Cardinality(Used(t.v, t.size)) /\ t.size \in Nat
  BY PointersAre DEF TableType
<1>2. t.used \in Nat
  BY <1>1, UsedCount
<1>3. t.usedLim \in Nat /\ (t.size # 0 => t.usedLim < t.size)
  BY <1>1 DEF TableType
<1>4. t.used <= t.usedLim
  BY DEF TableType
<1> QED
  BY <1>1, <1>2, <1>3, <1>4

\* A search finds a name if it is one of the table's, and else ends at an empty slot.
LEMMA SearchIs ==
  ASSUME NEW t, NEW names, NEW X, TableOK(t, names, X), t.size # 0, NEW s \in Strings,
         NEW P, \A q \in Pointers(t) : q \in P <=> X[q] = s
  PROVE  \E i \in 0 .. t.size - 1 :
            /\ Probe(t.v, t.size, hash(s), P) = i
            /\ Reached(t.v, t.size, hash(s), i)
            /\ (t.v[i] # Empty) = (s \in names)
            /\ t.v[i] # Empty => t.v[i] \in Pointers(t) /\ X[t.v[i]] = s
<1>1. PICK n, v, h : n = t.size /\ v = t.v /\ h = hash(s)
  OBVIOUS
<1>2. /\ n \in Nat \ {0} /\ h \in Nat
      /\ HashedIn(v, n, X)
      /\ Pointers(t) = Held(v, n)
      /\ names = {X[q] : q \in Held(v, n)}
  BY <1>1, TableNumbers, HashType, PointersAre DEF TableOK
<1>3. PICK e \in 0 .. n - 1 : v[e] = Empty
  BY <1>1, TableNumbers, UsedCount, <1>2 DEF TableOK
<1>4. PICK k \in 0 .. n - 1 :
         /\ Probe(v, n, h, P) = (h - k) % n
         /\ v[(h - k) % n] \in P \cup {Empty}
         /\ \A j \in 0 .. k - 1 : v[(h - j) % n] \notin P \cup {Empty}
  <2>1. v[e] \in P \cup {Empty}
    BY <1>3
  <2> QED
    BY <1>2, <2>1, ProbeIs
<1>5. PICK i \in 0 .. n - 1 : i = (h - k) % n
  <2>1. h - k \in Int
    BY <1>2
  <2> QED
    BY <2>1, <1>2, SlotRange
<1>6. Reached(v, n, h, i)
  BY <1>4, <1>5 DEF Reached
<1>7. ASSUME v[i] # Empty
      PROVE  v[i] \in Pointers(t) /\ X[v[i]] = s /\ s \in names
  <2>1. v[i] \in Held(v, n)
    BY <1>7 DEF Held, Used
  <2>2. v[i] \in P
    BY <1>4, <1>5, <1>7
  <2> QED
    BY <2>1, <2>2, <1>2
<1>8. ASSUME s \in names PROVE v[i] # Empty
  <2>1. PICK j \in Used(v, n) : X[v[j]] = s
    BY <1>2, <1>8 DEF Held
  <2>2. v[j] \in P
    <3>1. v[j] \in Pointers(t)
      BY <1>2 DEF Held
    <3> QED
      BY <2>1, <3>1
  <2>3. PICK m \in 0 .. n - 1 : (h - m) % n = j /\ \A l \in 0 .. m - 1 : v[(h - l) % n] # Empty
    <3>1. Reached(v, n, h, j)
      BY <1>1, <1>2, <2>1 DEF HashedIn
    <3> QED
      BY <3>1 DEF Reached
  <2>4. ~ (m < k)
    <3>1. m < k => m \in 0 .. k - 1
      BY <1>2
    <3> QED
      BY <3>1, <1>4, <2>2, <2>3
  <2>5. CASE k = m
    BY <2>5, <2>1, <2>3, <1>5 DEF Used
  <2>6. CASE k < m
    <3>1. k \in 0 .. m - 1
      BY <1>2, <2>6
    <3> QED
      BY <3>1, <2>3, <1>5
  <2> QED
    BY <2>4, <2>5, <2>6, <1>2
<1> QED
  BY <1>1, <1>4, <1>5, <1>6, <1>7, <1>8

LEMMA AddedIs ==
  ASSUME NEW t, NEW names, NEW X, TableOK(t, names, X), t.size # 0, t.used < t.usedLim,
         NEW p \in Places, X[p] \in Strings, X[p] \notin names,
         NEW i \in 0 .. t.size - 1, t.v[i] = Empty, Reached(t.v, t.size, hash(X[p]), i)
  PROVE  /\ TableOK(Added(t, i, p), names \cup {X[p]}, X)
         /\ Pointers(Added(t, i, p)) = Pointers(t) \cup {p}
<1> DEFINE w == [t.v EXCEPT ![i] = p]
<1>1. /\ t.size \in Nat \ {0} /\ t.used \in Nat /\ t.usedLim \in Nat
      /\ Pointers(t) = Held(t.v, t.size)
      /\ t.used = Cardinality(Used(t.v, t.size))
  BY TableNumbers, PointersAre DEF TableOK, TableType
<1>2. HasPut(t.v, w, t.size, Places, X, p)
  <2>1. \A j \in Used(t.v, t.size) : X[t.v[j]] # X[p]
    BY <1>1 DEF TableOK, Held
  <2>2. \A q \in Held(t.v, t.size) \cup {p} : hash(X[q]) \in Nat
    BY <1>1, HashType DEF TableOK
  <2>3. MayPut(t.v, t.size, Places, X, p, i)
    BY <1>1, <2>1, <2>2, EmptyIsNoPlace DEF MayPut, TableOK, TableType
  <2> QED
    BY <2>3, PutOneMore
<1>3. Added(t, i, p) = [size |-> t.size, used |-> t.used + 1, usedLim |-> t.usedLim, v |-> w]
  <2>1. t = [size |-> t.size, used |-> t.used, usedLim |-> t.usedLim, v |-> t.v]
    BY DEF TableOK, TableType
  <2>2. PICK m, u, l, v : /\ m = t.size /\ u = t.used /\ l = t.usedLim /\ v = t.v
                          /\ t = [size |-> m, used |-> u, usedLim |-> l, v |-> v]
    BY <2>1
  <2>3. Added(t, i, p) = [size |-> m, used |-> u + 1, usedLim |-> l, v |-> [v EXCEPT ![i] = p]]
    <3>1. PICK a, w0, u1 : a = Added(t, i, p) /\ w0 = [v EXCEPT ![i] = p] /\ u1 = u + 1
      OBVIOUS
    <3>2. a = [t EXCEPT !.v = w0, !.used = u1]
      BY ONLY <2>2, <3>1 DEF Added
    <3>3. a \in [size : {m}, used : {u1}, usedLim : {l}, v : {w0}]
      BY ONLY <2>2, <3>2
    <3>4. a = [size |-> m, used |-> u1, usedLim |-> l, v |-> w0]
      BY ONLY <3>3
    <3> QED
      BY <3>1, <3>4
  <2> QED
    BY <2>2, <2>3
<1> HIDE DEF w
<1>4. PICK a : /\ a = Added(t, i, p)
               /\ a = [size |-> t.size, used |-> t.used + 1, usedLim |-> t.usedLim, v |-> w]
  BY <1>3
<1>5. a.size = t.size /\ a.used = t.used + 1 /\ a.usedLim = t.usedLim /\ a.v = w
  BY <1>4
<1>6. Pointers(a) = Pointers(t) \cup {p} /\ UsedSlots(a) = Used(w, t.size)
  BY <1>1, <1>2, <1>5, PointersAre DEF HasPut
<1>7. TableType(a)
  BY <1>1, <1>2, <1>4, <1>5, <1>6 DEF TableType, TableOK, HasPut
<1>8. HashedIn(a.v, a.size, X)
  BY <1>2, <1>5 DEF HasPut
<1>9. \A q \in Pointers(a) : X[q] \in Strings
  BY <1>6 DEF TableOK
<1>10. names \cup {X[p]} = {X[q] : q \in Pointers(a)}
  BY <1>6 DEF TableOK
<1>11. IsFiniteSet(names \cup {X[p]}) /\ Cardinality(names \cup {X[p]}) = a.used
  <2>1. IsFiniteSet(names) /\ Cardinality(names) = t.used
    BY DEF TableOK
  <2>2. PICK s : s = X[p] /\ s \notin names
    OBVIOUS
  <2>3. IsFiniteSet(names \cup {s}) /\ Cardinality(names \cup {s}) = Cardinality(names) + 1
    BY <2>1, <2>2, FS_AddElement
  <2> QED
    BY <2>1, <2>2, <2>3, <1>5
<1> QED
  BY <1>4, <1>6, <1>7, <1>8, <1>9, <1>10, <1>11 DEF TableOK

LEMMA RefilledIs ==
  ASSUME NEW N \in Nat, NEW v \in [0 .. N - 1 -> Places \cup {Empty}], NEW X,
         HashedIn(v, N, X), \A q \in Held(v, N) : hash(X[q]) \in Nat,
         NEW n \in Nat, N < n
  PROVE  FoldLeft(PutAgain, [size |-> n, texts |-> X, v |-> NoSlots(n)], [i \in 1 .. N |-> v[i - 1]])
           \in Refills(v, N, n, Places, X)
<1> DEFINE new == [size |-> n, texts |-> X, v |-> NoSlots(n)]
           old == [i \in 1 .. N |-> v[i - 1]]
           J == [m \in 0 .. N |-> Refills(v, m, n, Places, X)]
<1>1. new \in J[0]
  <2>1. NoSlots(n) \in [0 .. n - 1 -> Places \cup {Empty}]
    BY DEF NoSlots
  <2>2. Used(v, 0) = {} /\ Held(v, 0) = {}
    BY DEF Used, Held
  <2>3. HashedIn(NoSlots(n), n, X)
    BY NoSlotsUsed DEF HashedIn
  <2>4. new \in Refills(v, 0, n, Places, X)
    BY <2>1, <2>2, <2>3, NoSlotsUsed DEF Refills
  <2> HIDE DEF new
  <2> QED
    BY <2>4
<1>2. DOMAIN old = 1 .. N
  OBVIOUS
<1>3. ASSUME NEW m \in 1 .. N, NEW t \in J[m - 1] PROVE PutAgain(t, old[m]) \in J[m]
  <2>1. t \in Refills(v, m - 1, n, Places, X) /\ old[m] = v[m - 1]
    OBVIOUS
  <2>2. PutAgain(t, v[m - 1]) \in Refills(v, m, n, Places, X)
    BY <2>1, RefillStep, EmptyIsNoPlace
  <2> QED
    BY <2>1, <2>2
<1>4. J[N] = Refills(v, N, n, Places, X)
  OBVIOUS
<1> HIDE DEF J, new, old
<1>5. Refilled!Folded(new, old) \in J[N]
  BY <1>1, <1>2, <1>3, Refilled!FoldReaches
<1>6. FoldLeft(PutAgain, new, old) = Refilled!Folded(new, old)
  BY DEF Refilled!Folded, FoldLeft, Refilled!FoldLeft, MapThenFoldSet,
         Refilled!MapThenFoldSet, Max, Refilled!Max
<1> QED
  BY <1>4, <1>5, <1>6 DEF new, old

LEMMA GrownIs ==
  ASSUME NEW t, NEW names, NEW X, TableOK(t, names, X), t.size # 0
  PROVE  /\ TableOK(Grown(t, X), names, X)
         /\ Pointers(Grown(t, X)) = Pointers(t)
         /\ Grown(t, X).size # 0
         /\ Grown(t, X).used = t.used /\ t.used < Grown(t, X).usedLim
<1>1. PICK N, n, v, f : /\ N = t.size /\ n = 2 * N /\ v = t.v
                        /\ f = FoldLeft(PutAgain, [size |-> n, texts |-> X, v |-> NoSlots(n)],
                                        [i \in 1 .. N |-> v[i - 1]])
  OBVIOUS
<1>2. /\ N \in Nat \ {0} /\ v \in [0 .. N - 1 -> Places \cup {Empty}] /\ HashedIn(v, N, X)
      /\ n \in Nat \ {0} /\ n # 1 /\ N < n /\ n \div 2 = N
      /\ Pointers(t) = Held(v, N) /\ UsedSlots(t) = Used(v, N)
  BY <1>1, PointersAre DEF TableOK, TableType
<1>3. \A q \in Held(v, N) : hash(X[q]) \in Nat
  BY <1>2, HashType DEF TableOK
<1>4. f \in Refills(v, N, n, Places, X)
  BY ONLY <1>1, <1>2, <1>3, RefilledIs
<1>5. /\ f.v \in [0 .. n - 1 -> Places \cup {Empty}]
      /\ HashedIn(f.v, n, X)
      /\ Held(f.v, n) = Held(v, N)
      /\ Cardinality(Used(f.v, n)) = Cardinality(Used(v, N))
  BY <1>4 DEF Refills
<1>6. PICK g : g = Grown(t, X)
  OBVIOUS
<1>7. /\ g = [size |-> n, used |-> t.used, usedLim |-> N, v |-> f.v]
      /\ g.size = n /\ g.used = t.used /\ g.usedLim = N /\ g.v = f.v
  <2>1. t = [size |-> t.size, used |-> t.used, usedLim |-> t.usedLim, v |-> t.v]
    BY DEF TableOK, TableType
  <2>2. PICK s, u, l, v0, w : /\ s = t.size /\ u = t.used /\ l = t.usedLim /\ v0 = t.v /\ w = f.v
                              /\ t = [size |-> s, used |-> u, usedLim |-> l, v |-> v0]
    BY <2>1
  <2>3. g = [t EXCEPT !.size = n, !.usedLim = N, !.v = w]
    BY <1>1, <1>2, <1>6, <2>2 DEF Grown
  <2>4. g \in [size : {n}, used : {u}, usedLim : {N}, v : {w}]
    BY ONLY <2>2, <2>3
  <2>5. g = [size |-> n, used |-> u, usedLim |-> N, v |-> w]
    BY ONLY <2>4
  <2> QED
    BY <2>2, <2>5
<1>8. UsedSlots(g) = Used(f.v, n) /\ Pointers(g) = Pointers(t)
  BY <1>2, <1>5, <1>7, PointersAre
<1>9. /\ t.used \in Nat /\ t.used < N /\ t.used = Cardinality(Used(v, N))
      /\ TableType(t)
  BY <1>1, <1>2, TableNumbers DEF TableOK, TableType
<1>10. TableType(g)
  BY <1>2, <1>5, <1>7, <1>8, <1>9 DEF TableType
<1>11. HashedIn(g.v, g.size, X)
  BY <1>5, <1>7
<1>12. TableOK(g, names, X)
  BY <1>7, <1>8, <1>10, <1>11 DEF TableOK
<1> QED
  BY <1>2, <1>6, <1>7, <1>8, <1>9, <1>12

LEMMA NewTable ==
  ASSUME NEW X
  PROVE  /\ TableOK(hashTableInit, {}, X) /\ Pointers(hashTableInit) = {}
         /\ LET new == [size |-> InitSize, used |-> 0, usedLim |-> InitSize \div 2,
                        v |-> NoSlots(InitSize)]
            IN  TableOK(new, {}, X) /\ Pointers(new) = {} /\ new.used < new.usedLim
<1> DEFINE new == [size |-> InitSize, used |-> 0, usedLim |-> InitSize \div 2,
                   v |-> NoSlots(InitSize)]
<1>1. /\ IsFiniteSet({}) /\ Cardinality({}) = 0 
      /\ InitSize \in Nat /\ InitSize >= 2
  BY FS_EmptySet, InitSizeAssumption
<1>2. ASSUME NEW t, TableType(t), UsedSlots(t) = {}
      PROVE  TableOK(t, {}, X) /\ Pointers(t) = {}
  <2>1. Pointers(t) = {}
    BY <1>2 DEF Pointers
  <2>2. HashedIn(t.v, t.size, X)
    BY <1>2, PointersAre DEF HashedIn
  <2>3. t.used = 0
    BY <1>1, <1>2 DEF TableType
  <2> QED
    BY <1>1, <1>2, <2>1, <2>2, <2>3 DEF TableOK
<1>3. TableType(hashTableInit) /\ UsedSlots(hashTableInit) = {}
  <2>1. UsedSlots(hashTableInit) = {}
    BY DEF UsedSlots, hashTableInit
  <2>2. hashTableInit.v \in [0 .. hashTableInit.size - 1 -> Places \cup {Empty}]
    <3>1. << >> = [i \in 0 .. 0 - 1 |-> Empty]
      OBVIOUS
    <3> QED
      BY <3>1 DEF hashTableInit
  <2> QED
    BY <1>1, <2>1, <2>2 DEF hashTableInit, TableType
<1>4. TableType(new) /\ UsedSlots(new) = {}
  <2>1. UsedSlots(new) = {}
    BY NoSlotsUsed, <1>1 DEF UsedSlots, NoSlots
  <2>2. new.v \in [0 .. new.size - 1 -> Places \cup {Empty}]
    BY DEF NoSlots
  <2>3. new.usedLim \in Nat /\ 0 < new.usedLim
    BY <1>1
  <2>4. /\ new.size = InitSize /\ new.used = 0 /\ new.usedLim = InitSize \div 2
        /\ new = [size |-> new.size, used |-> new.used, usedLim |-> new.usedLim, v |-> new.v]
    OBVIOUS
  <2> HIDE DEF new
  <2> QED
    BY <1>1, <2>1, <2>2, <2>3, <2>4 DEF TableType
<1>5. new.used < new.usedLim
  BY <1>1
<1> HIDE DEF new
<1>6. TableOK(new, {}, X) /\ Pointers(new) = {} /\ new.used < new.usedLim
  BY <1>2, <1>4, <1>5
<1>7. TableOK(hashTableInit, {}, X) /\ Pointers(hashTableInit) = {}
  BY <1>2, <1>3
<1> QED
  BY <1>6, <1>7 DEF new

LEMMA TableOKSame ==
  ASSUME NEW t, NEW names, NEW X, NEW Y, TableOK(t, names, X), \A q \in Pointers(t) : Y[q] = X[q]
  PROVE  TableOK(t, names, Y)
<1>1. Pointers(t) = Held(t.v, t.size)
  BY PointersAre
<1>2. \A i \in Used(t.v, t.size) : Y[t.v[i]] = X[t.v[i]]
  BY <1>1 DEF Held
<1>3. HashedIn(t.v, t.size, Y)
  BY <1>2 DEF TableOK, HashedIn
<1>4. names = {Y[q] : q \in Pointers(t)}
  BY DEF TableOK
<1> QED
  BY <1>3, <1>4 DEF TableOK

LEMMA LookupIs ==
  ASSUME NEW t, NEW names, NEW X, TableOK(t, names, X),
         NEW p \in Places, p \notin Pointers(t), X[p] \in Strings,
         DOMAIN X = Pointers(t) \cup {p}, NEW create \in BOOLEAN,
         NEW r, r = lookup(t, p, create, X)
  PROVE  /\ X[p] \in names => r.table = t /\ r.found \in Pointers(t)
         /\ X[p] \notin names /\ ~ create => r.table = t /\ r.found = Empty
         /\ X[p] \notin names /\ create =>
              /\ r.found = p
              /\ TableOK(r.table, names \cup {X[p]}, X)
              /\ Pointers(r.table) = Pointers(t) \cup {p}
<1> DEFINE P == {q \in DOMAIN X : X[q] = X[p]}
           h == hash(X[p])
           new == [size |-> InitSize, used |-> 0, usedLim |-> InitSize \div 2,
                   v |-> NoSlots(InitSize)]
<1>1. CASE t.size = 0
  <2>1. names = {} /\ Pointers(t) = {}
    <3>1. UsedSlots(t) = {}
      BY <1>1 DEF UsedSlots
    <3> QED
      BY <3>1 DEF TableOK, Pointers
  <2>2. CASE ~ create
    <3>1. r = [found |-> Empty, table |-> t]
      BY <1>1, <2>2 DEF lookup
    <3> QED
      BY <2>1, <2>2, <3>1
  <2>3. CASE create
    <3>1. r = [found |-> p, table |-> Added(new, h % InitSize, p)]
      BY <1>1, <2>3 DEF lookup
    <3>2. /\ TableOK(new, {}, X) /\ Pointers(new) = {} /\ new.used < new.usedLim
      BY NewTable
    <3>3. PICK i \in 0 .. InitSize - 1 : i = h % InitSize
      BY SlotRange, HashType, InitSizeAssumption
    <3>4. new.v[i] = Empty /\ new.size = InitSize
      BY DEF NoSlots
    <3>5. Reached(new.v, new.size, h, i)
      <4>1. (h - 0) % InitSize = i /\ 0 \in 0 .. InitSize - 1
        BY <3>3, HashType, InitSizeAssumption
      <4>2. \A j \in 0 .. 0 - 1 : new.v[(h - j) % InitSize] # Empty
        OBVIOUS
      <4> HIDE DEF new, h
      <4> QED
        BY <3>4, <4>1, <4>2 DEF Reached
    <3>6. new.size # 0 /\ i \in 0 .. new.size - 1
      BY <3>4, InitSizeAssumption
    <3> HIDE DEF new
    <3>7. /\ TableOK(Added(new, i, p), {} \cup {X[p]}, X)
          /\ Pointers(Added(new, i, p)) = {} \cup {p}
      BY <3>2, <3>4, <3>5, <3>6, AddedIs DEF h
    <3>8. r.found = p /\ r.table = Added(new, i, p) /\ {} \cup {p} = Pointers(t) \cup {p}
      BY <2>1, <3>1, <3>3
    <3>9. TableOK(r.table, names \cup {X[p]}, X) /\ Pointers(r.table) = Pointers(t) \cup {p}
      BY <2>1, <3>7, <3>8
    <3> QED
      BY <2>1, <2>3, <3>8, <3>9
  <2> QED
    BY <2>2, <2>3
<1>2. CASE t.size # 0
  <2>1. PICK i \in 0 .. t.size - 1 :
          /\ Probe(t.v, t.size, h, P) = i
          /\ Reached(t.v, t.size, h, i)
          /\ (t.v[i] # Empty) = (X[p] \in names)
          /\ t.v[i] # Empty => t.v[i] \in Pointers(t)
    <3>1. \A q \in Pointers(t) : q \in P <=> X[q] = X[p]
      OBVIOUS
    <3> HIDE DEF P
    <3> QED
      BY <1>2, <3>1, SearchIs
  <2> HIDE DEF P, h
  <2>2. CASE X[p] \in names
    <3>1. t.v[i] # Empty
      BY <2>1, <2>2
    <3>2. r = [found |-> t.v[i], table |-> t]
      BY <1>2, <2>1, <3>1 DEF lookup, h, P
    <3> QED
      BY <2>1, <2>2, <3>1, <3>2
  <2>3. CASE X[p] \notin names /\ ~ create
    <3>1. t.v[i] = Empty
      BY <2>1, <2>3
    <3>2. r = [found |-> Empty, table |-> t]
      BY <1>2, <2>1, <2>3, <3>1 DEF lookup, h, P
    <3> QED
      BY <2>3, <3>2
  <2>4. CASE X[p] \notin names /\ create /\ t.used # t.usedLim
    <3>1. t.v[i] = Empty
      BY <2>1, <2>4
    <3>2. r = [found |-> p, table |-> Added(t, i, p)]
      BY <1>2, <2>1, <2>4, <3>1 DEF lookup, h, P
    <3>3. t.used < t.usedLim
      BY <2>4, TableNumbers DEF TableOK, TableType
    <3>4. /\ TableOK(Added(t, i, p), names \cup {X[p]}, X)
          /\ Pointers(Added(t, i, p)) = Pointers(t) \cup {p}
      <4>1. X[p] \notin names /\ Reached(t.v, t.size, hash(X[p]), i)
        BY <2>1, <2>4 DEF h
      <4> HIDE DEF new
      <4> QED
        BY <1>2, <3>1, <3>3, <4>1, AddedIs
    <3>5. r.found = p /\ r.table = Added(t, i, p)
      BY <3>2
    <3>6. TableOK(r.table, names \cup {X[p]}, X) /\ Pointers(r.table) = Pointers(t) \cup {p}
      BY <3>4, <3>5
    <3> QED
      BY ONLY <2>4, <3>5, <3>6
  <2>5. CASE X[p] \notin names /\ create /\ t.used = t.usedLim
    <3>1. t.v[i] = Empty
      BY <2>1, <2>5
    <3>2. PICK g : g = Grown(t, X)
      OBVIOUS
    <3>3. r = [found |-> p, table |-> Added(g, FreeSlot(g.v, g.size, h), p)]
      BY <1>2, <2>1, <2>5, <3>1, <3>2 DEF lookup, h, P
    <3>4. TableOK(g, names, X) /\ Pointers(g) = Pointers(t) /\ g.size # 0 /\ g.used < g.usedLim
      BY <1>2, <3>2, GrownIs
    <3>5. PICK k \in 0 .. g.size - 1 : /\ FreeSlot(g.v, g.size, h) = k
                                       /\ g.v[k] = Empty
                                       /\ Reached(g.v, g.size, h, k)
      BY <3>4, TableNumbers, FreeSlotIs, HashType DEF TableOK, h
    <3>6. /\ TableOK(Added(g, k, p), names \cup {X[p]}, X)
          /\ Pointers(Added(g, k, p)) = Pointers(g) \cup {p}
      BY <2>5, <3>4, <3>5, AddedIs DEF h
    <3>7. r.found = p /\ r.table = Added(g, k, p)
      BY <3>3, <3>5
    <3>8. TableOK(r.table, names \cup {X[p]}, X) /\ Pointers(r.table) = Pointers(t) \cup {p}
      BY <3>4, <3>6, <3>7
    <3> QED
      BY ONLY <2>5, <3>7, <3>8
  <2> QED
    BY <2>2, <2>3, <2>4, <2>5
<1> QED
  BY <1>1, <1>2

-----------------------------------------------------------------------------
(* String pools                                                            *)

Written == INSTANCE SequenceLemmas WITH Op <- poolAppendChar

CellSet == Characters \cup {NUL, Garbage}

\* The places malloc gives a pool whose first one is f
Owned(f) == {n \in Nat : n % 2 = f % 2}

Blocks(f) == [id : Owned(f), s : Seq(CellSet) \ {<<>>}]

PoolType(p, f) ==
  p \in [blocks : Seq(Blocks(f)), freeBlocks : Seq(Blocks(f)), start : Nat, ptr : Nat,
         fresh : Owned(f)]

\* No two blocks are at one place, and none is where the next one will be.
Apart(blocks, freeBlocks, fresh) ==
  /\ \A i \in 1 .. Len(blocks) : blocks[i].id < fresh
  /\ \A i \in 1 .. Len(freeBlocks) : freeBlocks[i].id < fresh
  /\ \A i, j \in 1 .. Len(blocks) : blocks[i].id = blocks[j].id => i = j
  /\ \A i, j \in 1 .. Len(freeBlocks) : freeBlocks[i].id = freeBlocks[j].id => i = j
  /\ \A i \in 1 .. Len(blocks), j \in 1 .. Len(freeBlocks) : blocks[i].id # freeBlocks[j].id

PoolOK(p, f) ==
  /\ PoolType(p, f)
  /\ Apart(p.blocks, p.freeBlocks, p.fresh)
  /\ p.start <= p.ptr /\ p.ptr <= EndOf(p)

\* A string that is finished lies at place o, in front of what is being written.
Holds(s, at, str) ==
  /\ \A k \in 1 .. Len(str) : s[at + k] = str[k]
  /\ s[at + Len(str) + 1] = NUL

Settled(p, o, str) ==
  \E i \in 1 .. Len(p.blocks) :
     /\ p.blocks[i].id = o.id
     /\ o.at + Len(str) + 1 <= (IF i = 1 THEN p.start ELSE Len(p.blocks[i].s))
     /\ Holds(p.blocks[i].s, o.at, str)

Keeps(p, q) == \A o \in Places, str \in Strings : Settled(p, o, str) => Settled(q, o, str)

\* The first m characters of g have been written since the last string was finished.
Open(p, g, m) ==
  /\ p.ptr = p.start + m
  /\ \A k \in 1 .. m : p.blocks[1].s[p.start + k] = g[k]

LEMMA StringLength ==
  ASSUME NEW str \in Strings
  PROVE  str \in Seq(Characters) /\ str \in Seq(CellSet) /\ Len(str) \in Nat
<1>1. str \in Seq(Characters)
  BY StringsAssumption
<1>2. Characters \subseteq CellSet
  BY DEF CellSet
<1> QED
  BY <1>1, <1>2, LenProperties, SeqMonotonic

LEMMA BlockIs ==
  ASSUME NEW f, NEW b \in Blocks(f)
  PROVE  /\ b = [id |-> b.id, s |-> b.s]
         /\ b.id \in Owned(f) /\ b.id \in Nat /\ b.s \in Seq(CellSet)
         /\ Len(b.s) \in Nat /\ Len(b.s) >= 1
<1>1. b = [id |-> b.id, s |-> b.s] /\ b.id \in Owned(f) /\ b.s \in Seq(CellSet) /\ b.s # <<>>
  BY DEF Blocks
<1>2. Len(b.s) \in Nat \ {0}
  BY <1>1, EmptySeq
<1> QED
  BY <1>1, <1>2 DEF Owned

LEMMA PoolIs ==
  ASSUME NEW f, NEW p, PoolOK(p, f)
  PROVE  /\ p = [blocks |-> p.blocks, freeBlocks |-> p.freeBlocks, start |-> p.start,
                 ptr |-> p.ptr, fresh |-> p.fresh]
         /\ p.start \in Nat /\ p.ptr \in Nat /\ p.fresh \in Owned(f) /\ p.fresh \in Nat
         /\ p.start <= p.ptr /\ p.ptr <= EndOf(p) /\ EndOf(p) \in Nat
         /\ p.blocks \in Seq(Blocks(f)) /\ p.freeBlocks \in Seq(Blocks(f))
         /\ Len(p.blocks) \in Nat /\ Len(p.freeBlocks) \in Nat
         /\ \A i \in 1 .. Len(p.blocks) : p.blocks[i] \in Blocks(f)
         /\ \A i \in 1 .. Len(p.freeBlocks) : p.freeBlocks[i] \in Blocks(f)
         /\ p.blocks # <<>> => 1 \in 1 .. Len(p.blocks) /\ EndOf(p) = Len(p.blocks[1].s)
         /\ p.blocks = <<>> => EndOf(p) = 0 /\ p.start = 0 /\ p.ptr = 0
<1>1. /\ p = [blocks |-> p.blocks, freeBlocks |-> p.freeBlocks, start |-> p.start,
              ptr |-> p.ptr, fresh |-> p.fresh]
      /\ p.start \in Nat /\ p.ptr \in Nat /\ p.fresh \in Owned(f)
      /\ p.blocks \in Seq(Blocks(f)) /\ p.freeBlocks \in Seq(Blocks(f))
      /\ p.start <= p.ptr /\ p.ptr <= EndOf(p)
  BY DEF PoolOK, PoolType
<1>2. p.fresh \in Nat
  BY <1>1 DEF Owned
<1>3. Len(p.blocks) \in Nat /\ Len(p.freeBlocks) \in Nat
  BY <1>1, LenProperties
<1>4. /\ \A i \in 1 .. Len(p.blocks) : p.blocks[i] \in Blocks(f)
      /\ \A i \in 1 .. Len(p.freeBlocks) : p.freeBlocks[i] \in Blocks(f)
  BY <1>1, ElementOfSeq
<1>5. p.blocks # <<>> => 1 \in 1 .. Len(p.blocks) /\ EndOf(p) = Len(p.blocks[1].s)
  <2>1. p.blocks # <<>> => Len(p.blocks) \in Nat \ {0}
    BY <1>1, EmptySeq
  <2> QED
    BY <2>1 DEF EndOf
<1>6. p.blocks = <<>> => EndOf(p) = 0
  BY DEF EndOf
<1>7. EndOf(p) \in Nat
  BY <1>4, <1>5, <1>6, BlockIs
<1> QED
  BY <1>1, <1>2, <1>3, <1>4, <1>5, <1>6, <1>7

\* One more sequence element in front
LEMMA PrependIs ==
  ASSUME NEW S, NEW q \in Seq(S), NEW e \in S
  PROVE  /\ <<e>> \o q \in Seq(S)
         /\ Len(<<e>> \o q) = Len(q) + 1
         /\ (<<e>> \o q)[1] = e
         /\ \A i \in 1 .. Len(q) : (<<e>> \o q)[i + 1] = q[i]
<1>1. <<e>> \in Seq(S) /\ Len(<<e>>) = 1 /\ <<e>>[1] = e
  OBVIOUS
<1>2. Len(q) \in Nat
  BY LenProperties
<1>3. /\ <<e>> \o q \in Seq(S)
      /\ Len(<<e>> \o q) = Len(<<e>>) + Len(q)
      /\ \A i \in 1 .. Len(<<e>>) + Len(q) : (<<e>> \o q)[i] =
             IF i <= Len(<<e>>) THEN <<e>>[i] ELSE q[i - Len(<<e>>)]
  BY <1>1, ConcatProperties
<1>4. ASSUME NEW i \in 1 .. Len(q) PROVE (<<e>> \o q)[i + 1] = q[i]
  <2>1. i + 1 \in 1 .. 1 + Len(q) /\ ~(i + 1 <= 1) /\ (i + 1) - 1 = i
    BY <1>2
  <2> QED
    BY <1>1, <1>3, <2>1
<1> QED
  BY <1>1, <1>2, <1>3, <1>4

\* A block that is put in front takes what was being written along.
LEMMA FilledIs ==
  ASSUME NEW f, NEW p, PoolOK(p, f), NEW b \in Blocks(f), EndOf(p) - p.start <= Len(b.s)
  PROVE  /\ Filled(p, b) \in Blocks(f)
         /\ Filled(p, b).id = b.id
         /\ Len(Filled(p, b).s) = Len(b.s)
         /\ \A k \in 1 .. EndOf(p) - p.start : Filled(p, b).s[k] = p.blocks[1].s[p.start + k]
<1> DEFINE old == IF p.blocks = <<>> THEN <<>>
                  ELSE SubSeq(p.blocks[1].s, p.start + 1, Len(p.blocks[1].s))
<1>1. /\ old \in Seq(CellSet) /\ Len(old) = EndOf(p) - p.start
      /\ \A k \in 1 .. EndOf(p) - p.start : old[k] = p.blocks[1].s[p.start + k]
  <2>1. CASE p.blocks = <<>>
    <3>1. EndOf(p) = 0 /\ p.start = 0
      BY <2>1, PoolIs
    <3>2. <<>> \in Seq(CellSet) /\ Len(<<>>) = 0
      BY EmptySeq
    <3> QED
      BY <2>1, <3>1, <3>2
  <2>2. CASE p.blocks # <<>>
    <3>1. PICK s : s = p.blocks[1].s
      OBVIOUS
    <3>2. s \in Seq(CellSet) /\ Len(s) \in Nat /\ EndOf(p) = Len(s) /\ p.start \in Nat /\ p.start <= Len(s)
      BY <2>2, <3>1, PoolIs, BlockIs
    <3>3. PICK m, n : m = p.start + 1 /\ n = Len(s) /\ m \in Int /\ n \in Int
      BY <3>2
    <3>4. \A k \in m .. n : s[k] \in CellSet
      BY <3>2, <3>3, ElementOfSeq
    <3>5. /\ SubSeq(s, m, n) \in Seq(CellSet)
          /\ Len(SubSeq(s, m, n)) = IF m <= n THEN n - m + 1 ELSE 0
          /\ \A k \in 1 .. n - m + 1 : SubSeq(s, m, n)[k] = s[m + k - 1]
      BY ONLY <3>3, <3>4, SubSeqProperties
    <3>6. old = SubSeq(s, m, n)
      BY <2>2, <3>1, <3>3
    <3> HIDE DEF old
    <3>7. n - m + 1 = EndOf(p) - p.start /\ n - m + 1 >= 0
      BY <3>2, <3>3
    <3>8. Len(old) = EndOf(p) - p.start
      BY <3>3, <3>5, <3>6, <3>7
    <3>9. \A k \in 1 .. EndOf(p) - p.start : old[k] = s[p.start + k]
      <4>1. ASSUME NEW k \in 1 .. EndOf(p) - p.start PROVE old[k] = s[p.start + k]
        <5>1. k \in 1 .. n - m + 1 /\ m + k - 1 = p.start + k
          BY <3>2, <3>3, <3>7
        <5> QED
          BY <3>5, <3>6, <5>1
      <4> QED
        BY <4>1
    <3> QED
      BY <3>1, <3>5, <3>6, <3>8, <3>9
  <2> QED
    BY <2>1, <2>2
<1> DEFINE new == SubSeq(b.s, Len(old) + 1, Len(b.s))
<1>2. Filled(p, b) = [b EXCEPT !.s = old \o new]
  BY DEF Filled
<1> HIDE DEF old
<1>3. Len(old) \in Nat /\ Len(b.s) \in Nat /\ Len(old) <= Len(b.s) /\ b.s \in Seq(CellSet)
      /\ b = [id |-> b.id, s |-> b.s] /\ b.id \in Owned(f) /\ Len(b.s) >= 1
  BY <1>1, PoolIs, BlockIs
<1>4. new \in Seq(CellSet) /\ Len(new) = Len(b.s) - Len(old)
  <2>1. \A k \in Len(old) + 1 .. Len(b.s) : b.s[k] \in CellSet
    BY <1>3, ElementOfSeq
  <2>2. /\ new \in Seq(CellSet)
        /\ Len(new) = IF Len(old) + 1 <= Len(b.s) THEN Len(b.s) - (Len(old) + 1) + 1 ELSE 0
    BY ONLY <1>3, <2>1, SubSeqProperties
  <2> HIDE DEF new
  <2> QED
    BY <1>3, <2>2
<1> HIDE DEF new
<1>5. /\ old \o new \in Seq(CellSet)
      /\ Len(old \o new) = Len(b.s)
      /\ \A k \in 1 .. Len(old) : (old \o new)[k] = old[k]
  <2>1. /\ old \o new \in Seq(CellSet)
        /\ Len(old \o new) = Len(old) + Len(new)
        /\ \A i \in 1 .. Len(old) + Len(new) : (old \o new)[i] =
                     IF i <= Len(old) THEN old[i] ELSE new[i - Len(old)]
    BY <1>1, <1>4, ConcatProperties
  <2> QED
    BY <2>1, <1>3, <1>4
<1>6. old \o new # <<>>
  BY <1>3, <1>5, EmptySeq
<1>7. PICK s : s = old \o new
  OBVIOUS
<1>8. [b EXCEPT !.s = s] = [id |-> b.id, s |-> s]
  BY <1>3
<1> QED
  BY <1>1, <1>2, <1>3, <1>5, <1>6, <1>7, <1>8 DEF Blocks

\* What poolGrow makes of a pool
GrownPool(p, q, f) ==
  /\ PoolOK(q, f) /\ q.blocks # <<>> /\ q.ptr < EndOf(q)
  /\ Keeps(p, q)
  /\ \A g : \A m \in Nat : Open(p, g, m) => Open(q, g, m)

LEMMA FrontIs ==
  ASSUME NEW f, NEW p, PoolOK(p, f), p.ptr = EndOf(p),
         NEW b \in Blocks(f), EndOf(p) - p.start < Len(b.s),
         NEW free \in Seq(Blocks(f)), NEW fresh \in Owned(f),
         NEW q, q = [blocks |-> <<Filled(p, b)>> \o p.blocks, freeBlocks |-> free, start |-> 0,
                     ptr |-> p.ptr - p.start, fresh |-> fresh],
         Apart(q.blocks, free, fresh)
  PROVE  GrownPool(p, q, f)
<1>1. PICK n, blocks, c : n = Len(p.blocks) /\ blocks = p.blocks /\ c = Filled(p, b)
  OBVIOUS
<1>2. /\ n \in Nat /\ blocks \in Seq(Blocks(f))
      /\ p.start \in Nat /\ p.ptr \in Nat /\ p.start <= p.ptr
      /\ Len(b.s) \in Nat
  BY <1>1, PoolIs, BlockIs
<1>3. /\ c \in Blocks(f) /\ c.id = b.id /\ Len(c.s) = Len(b.s)
      /\ \A k \in 1 .. EndOf(p) - p.start : c.s[k] = blocks[1].s[p.start + k]
  <2>1. EndOf(p) - p.start <= Len(b.s)
    BY <1>2, PoolIs
  <2>2. /\ Filled(p, b) \in Blocks(f) /\ Filled(p, b).id = b.id
        /\ Len(Filled(p, b).s) = Len(b.s)
        /\ \A k \in 1 .. EndOf(p) - p.start : Filled(p, b).s[k] = p.blocks[1].s[p.start + k]
    BY <2>1, FilledIs
  <2> QED
    BY <1>1, <2>2
<1>4. /\ q.blocks \in Seq(Blocks(f)) /\ Len(q.blocks) = n + 1 /\ q.blocks[1] = c
      /\ \A i \in 1 .. n : q.blocks[i + 1] = blocks[i]
  BY <1>1, <1>2, <1>3, PrependIs
<1>5. q.blocks # <<>> /\ EndOf(q) = Len(b.s)
  <2>1. q.blocks # <<>>
    BY <1>2, <1>4, EmptySeq
  <2> QED
    BY <2>1, <1>3, <1>4 DEF EndOf
<1>6. q.start = 0 /\ q.ptr = p.ptr - p.start /\ q.ptr < EndOf(q) /\ q.ptr \in Nat
  BY <1>2, <1>5
<1>7. PoolOK(q, f)
  <2>1. PoolType(q, f)
    BY <1>4, <1>6 DEF PoolType
  <2> QED
    BY <2>1, <1>6, <1>2, <1>5 DEF PoolOK
<1>8. Keeps(p, q)
  <2> SUFFICES ASSUME NEW o \in Places, NEW str \in Strings, Settled(p, o, str)
               PROVE  Settled(q, o, str)
    BY DEF Keeps
  <2>1. PICK i \in 1 .. n :
          /\ blocks[i].id = o.id
          /\ o.at + Len(str) + 1 <= (IF i = 1 THEN p.start ELSE Len(blocks[i].s))
          /\ Holds(blocks[i].s, o.at, str)
    BY <1>1 DEF Settled
  <2>2. p.start <= Len(blocks[1].s)
    BY <2>1, <1>1, <1>2, PoolIs, EmptySeq
  <2>3. Len(blocks[i].s) \in Nat
    BY <1>1, <2>1, PoolIs, BlockIs
  <2>4. o.at + Len(str) + 1 <= Len(blocks[i].s)
    <3>1. o.at \in Nat /\ Len(str) \in Nat
      BY StringLength DEF Places
    <3>2. CASE i = 1
      BY ONLY <2>1, <2>2, <2>3, <3>1, <3>2, <1>2
    <3>3. CASE i # 1
      BY ONLY <2>1, <3>3
    <3> QED
      BY <3>2, <3>3
  <2>5. i + 1 \in 1 .. Len(q.blocks) /\ i + 1 # 1 /\ q.blocks[i + 1] = blocks[i]
    BY <1>2, <1>4
  <2> QED
    BY <2>1, <2>4, <2>5 DEF Settled
<1>9. ASSUME NEW g, NEW m \in Nat, Open(p, g, m) PROVE Open(q, g, m)
  <2>1. p.ptr = p.start + m
    BY <1>9 DEF Open
  <2>2. q.ptr = q.start + m
    BY <2>1, <1>2, <1>6
  <2>3. ASSUME NEW k \in 1 .. m PROVE q.blocks[1].s[q.start + k] = g[k]
    <3>1. k \in 1 .. EndOf(p) - p.start /\ q.start + k = k
      BY <2>1, <1>2, <1>6
    <3>2. blocks[1].s[p.start + k] = g[k]
      BY <1>1, <1>9 DEF Open
    <3> QED
      BY <3>1, <3>2, <1>3, <1>4
  <2> QED
    BY <2>2, <2>3 DEF Open
<1> QED
  BY <1>5, <1>6, <1>7, <1>8, <1>9 DEF GrownPool

LEMMA ApartPrepend ==
  ASSUME NEW n \in Nat, NEW blocks, Len(blocks) = n, NEW r, Len(r) = n + 1,
         \A i \in 1 .. n : r[i + 1] = blocks[i],
         NEW free, Len(free) \in Nat, NEW fresh \in Nat, Apart(blocks, free, fresh),
         r[1].id < fresh,
         \A i \in 1 .. n : blocks[i].id # r[1].id,
         \A i \in 1 .. Len(free) : free[i].id # r[1].id
  PROVE  Apart(r, free, fresh)
<1>1. \A i \in 1 .. n + 1 : i = 1 \/ (i - 1 \in 1 .. n /\ r[i] = blocks[i - 1])
  <2> SUFFICES ASSUME NEW i \in 1 .. n + 1, i # 1
               PROVE  i - 1 \in 1 .. n /\ r[i] = blocks[i - 1]
    OBVIOUS
  <2>1. i - 1 \in 1 .. n /\ (i - 1) + 1 = i
    OBVIOUS
  <2> QED
    BY <2>1
<1>2. \A i \in 1 .. n + 1 : r[i].id < fresh
  BY <1>1 DEF Apart
<1>3. ASSUME NEW i \in 1 .. n + 1, NEW j \in 1 .. n + 1, r[i].id = r[j].id PROVE i = j
  <2>1. CASE i = 1
    BY <2>1, <1>1, <1>3
  <2>2. CASE j = 1
    BY <2>2, <1>1, <1>3
  <2>3. CASE i # 1 /\ j # 1
    <3>1. i - 1 = j - 1
      BY <2>3, <1>1, <1>3 DEF Apart
    <3> QED
      BY <3>1
  <2> QED
    BY <2>1, <2>2, <2>3
<1>4. ASSUME NEW i \in 1 .. n + 1, NEW j \in 1 .. Len(free) PROVE r[i].id # free[j].id
  BY <1>1 DEF Apart
<1> QED
  BY <1>2, <1>3, <1>4 DEF Apart

LEMMA ApartTail ==
  ASSUME NEW S, NEW free \in Seq(S), free # <<>>, NEW blocks, NEW fresh, Apart(blocks, free, fresh)
  PROVE  /\ Apart(blocks, Tail(free), fresh) /\ free[1].id < fresh
         /\ \A i \in 1 .. Len(blocks) : blocks[i].id # free[1].id
         /\ \A i \in 1 .. Len(Tail(free)) : Tail(free)[i].id # free[1].id
<1>1. /\ Len(Tail(free)) = Len(free) - 1 /\ Len(free) \in Nat \ {0}
      /\ \A i \in 1 .. Len(Tail(free)) : Tail(free)[i] = free[i + 1]
  BY HeadTailProperties, EmptySeq
<1>2. \A i \in 1 .. Len(Tail(free)) : i + 1 \in 1 .. Len(free) /\ i + 1 # 1
  BY <1>1
<1>3. 1 \in 1 .. Len(free)
  BY <1>1
<1>4. \A i, j \in 1 .. Len(Tail(free)) : Tail(free)[i].id = Tail(free)[j].id => i = j
  <2> SUFFICES ASSUME NEW i \in 1 .. Len(Tail(free)), NEW j \in 1 .. Len(Tail(free)),
                      Tail(free)[i].id = Tail(free)[j].id
               PROVE  i = j
    OBVIOUS
  <2>1. i + 1 = j + 1
    BY <1>1, <1>2 DEF Apart
  <2> QED
    BY <2>1
<1> QED
  BY <1>1, <1>2, <1>3, <1>4 DEF Apart

LEMMA OwnedNext ==
  ASSUME NEW f \in Nat, NEW n \in Owned(f)
  PROVE  NextPlace(n) \in Owned(f) /\ n < NextPlace(n)
BY DEF Owned, NextPlace

LEMMA FrontRecord ==
  ASSUME NEW f, NEW p, PoolOK(p, f), NEW r, NEW a, a = Front_(p, r)
  PROVE  /\ a = [blocks |-> r, freeBlocks |-> p.freeBlocks, start |-> 0,
                 ptr |-> p.ptr - p.start, fresh |-> p.fresh]
         /\ \A x : [a EXCEPT !.freeBlocks = x]
              = [blocks |-> r, freeBlocks |-> x, start |-> 0, ptr |-> p.ptr - p.start, fresh |-> p.fresh]
         /\ \A x : [a EXCEPT !.fresh = x]
              = [blocks |-> r, freeBlocks |-> p.freeBlocks, start |-> 0,
                 ptr |-> p.ptr - p.start, fresh |-> x]
<1>1. p = [blocks |-> p.blocks, freeBlocks |-> p.freeBlocks, start |-> p.start,
           ptr |-> p.ptr, fresh |-> p.fresh]
  BY PoolIs
<1>2. PICK b0, f0, s0, p0, h0, p1 :
         /\ b0 = p.blocks /\ f0 = p.freeBlocks /\ s0 = p.start /\ p0 = p.ptr /\ h0 = p.fresh
         /\ p1 = p0 - s0
         /\ p = [blocks |-> b0, freeBlocks |-> f0, start |-> s0, ptr |-> p0, fresh |-> h0]
  BY <1>1
<1>3. a = [p EXCEPT !.blocks = r, !.start = 0, !.ptr = p1]
  BY ONLY <1>2, a = Front_(p, r) DEF Front_
<1>4. a \in [blocks : {r}, freeBlocks : {f0}, start : {0}, ptr : {p1}, fresh : {h0}]
  BY ONLY <1>2, <1>3
<1>5. a = [blocks |-> r, freeBlocks |-> f0, start |-> 0, ptr |-> p1, fresh |-> h0]
  BY ONLY <1>4
<1>6. ASSUME NEW x
      PROVE  /\ [a EXCEPT !.freeBlocks = x]
                  = [blocks |-> r, freeBlocks |-> x, start |-> 0, ptr |-> p1, fresh |-> h0]
             /\ [a EXCEPT !.fresh = x]
                  = [blocks |-> r, freeBlocks |-> f0, start |-> 0, ptr |-> p1, fresh |-> x]
  BY ONLY <1>5
<1> QED
  BY <1>2, <1>5, <1>6

LEMMA ReuseIs ==
  ASSUME NEW f \in Nat, NEW p, PoolOK(p, f), p.ptr = EndOf(p),
         p.freeBlocks # <<>>, EndOf(p) - p.start < Len(Head(p.freeBlocks).s)
  PROVE  GrownPool(p, reuseBlock(p), f)
<1>1. PICK b, free : b = Head(p.freeBlocks) /\ free = Tail(p.freeBlocks)
  OBVIOUS
<1>2. p.freeBlocks \in Seq(Blocks(f)) /\ b = p.freeBlocks[1] /\ b \in Blocks(f) /\ free \in Seq(Blocks(f))
  BY <1>1, PoolIs, HeadTailProperties
<1>3. PICK q, r : /\ r = <<Filled(p, b)>> \o p.blocks
                  /\ q = [blocks |-> r, freeBlocks |-> free, start |-> 0,
                          ptr |-> p.ptr - p.start, fresh |-> p.fresh]
  OBVIOUS
<1>4. reuseBlock(p) = q
  <2>1. PICK a : a = Front_(p, r)
    OBVIOUS
  <2>2. a.freeBlocks = p.freeBlocks /\ [a EXCEPT !.freeBlocks = free] = q
    <3>1. /\ a = [blocks |-> r, freeBlocks |-> p.freeBlocks, start |-> 0,
                  ptr |-> p.ptr - p.start, fresh |-> p.fresh]
          /\ \A x : [a EXCEPT !.freeBlocks = x]
               = [blocks |-> r, freeBlocks |-> x, start |-> 0, ptr |-> p.ptr - p.start,
                  fresh |-> p.fresh]
      BY <2>1, FrontRecord
    <3>2. a.freeBlocks = p.freeBlocks
      BY <3>1
    <3>3. [a EXCEPT !.freeBlocks = free] = q
      BY ONLY <1>3, <3>1
    <3> QED
      BY <3>2, <3>3
  <2>3. a = Front_(p, <<Filled(p, Head(p.freeBlocks))>> \o p.blocks)
    BY <1>1, <1>3, <2>1
  <2>4. reuseBlock(p) = [a EXCEPT !.freeBlocks = Tail(a.freeBlocks)]
    BY ONLY <2>3 DEF reuseBlock
  <2> QED
    BY <1>1, <2>2, <2>4
<1>5. Apart(r, free, p.fresh)
  <2>1. Apart(p.blocks, p.freeBlocks, p.fresh)
    BY DEF PoolOK
  <2>2. /\ Apart(p.blocks, free, p.fresh) /\ b.id < p.fresh
        /\ \A i \in 1 .. Len(p.blocks) : p.blocks[i].id # b.id
        /\ \A i \in 1 .. Len(free) : free[i].id # b.id
    BY <1>1, <1>2, <2>1, ApartTail
  <2>3. Filled(p, b) \in Blocks(f) /\ Filled(p, b).id = b.id
    <3>1. EndOf(p) - p.start <= Len(b.s)
      BY <1>1, <1>2, PoolIs, BlockIs
    <3> QED
      BY <3>1, <1>2, FilledIs
  <2>4. /\ p.blocks \in Seq(Blocks(f)) /\ Len(p.blocks) \in Nat /\ p.fresh \in Nat
        /\ Len(free) \in Nat
    BY <1>2, PoolIs, LenProperties
  <2>5. /\ Len(r) = Len(p.blocks) + 1 /\ r[1].id = b.id
        /\ \A i \in 1 .. Len(p.blocks) : r[i + 1] = p.blocks[i]
    BY <1>3, <2>3, <2>4, PrependIs
  <2>6. PICK n, blocks, fresh : n = Len(p.blocks) /\ blocks = p.blocks /\ fresh = p.fresh
    OBVIOUS
  <2>7. /\ n \in Nat /\ Len(blocks) = n /\ Len(r) = n + 1
        /\ \A i \in 1 .. n : r[i + 1] = blocks[i]
        /\ Len(free) \in Nat /\ fresh \in Nat /\ Apart(blocks, free, fresh)
        /\ r[1].id < fresh
        /\ \A i \in 1 .. n : blocks[i].id # r[1].id
        /\ \A i \in 1 .. Len(free) : free[i].id # r[1].id
    BY ONLY <2>2, <2>4, <2>5, <2>6
  <2>8. Apart(r, free, fresh)
    BY ONLY <2>7, ApartPrepend
  <2> QED
    BY <2>6, <2>8
<1>6. /\ q.blocks = r /\ p.fresh \in Owned(f) /\ EndOf(p) - p.start < Len(b.s)
  BY <1>1, <1>3, PoolIs
<1>7. GrownPool(p, q, f)
  BY <1>2, <1>3, <1>5, <1>6, FrontIs
<1> QED
  BY <1>4, <1>7

LEMMA CellsAre ==
  ASSUME NEW n \in Nat
  PROVE  Cells(n) \in Seq(CellSet) /\ Len(Cells(n)) = n
<1>1. Garbage \in CellSet
  BY DEF CellSet
<1> QED
  BY <1>1 DEF Cells

LEMMA NewBlockIs ==
  ASSUME NEW f \in Nat, NEW p, PoolOK(p, f), p.ptr = EndOf(p)
  PROVE  GrownPool(p, newBlock(p), f)
<1>1. PICK room, size : /\ room = EndOf(p) - p.start
                        /\ size = IF room < InitBlockSize THEN InitBlockSize ELSE 2 * room
  OBVIOUS
<1>2. room \in Nat /\ size \in Nat /\ size >= 1 /\ room < size
  <2>1. room \in Nat
    BY <1>1, PoolIs
  <2> QED
    BY <1>1, <2>1, InitBlockSizeAssumption
<1>3. PICK b, fresh : b = [id |-> p.fresh, s |-> Cells(size)] /\ fresh = NextPlace(p.fresh)
  OBVIOUS
<1>4. /\ b \in Blocks(f) /\ b.id = p.fresh /\ Len(b.s) = size
  <2>1. Cells(size) \in Seq(CellSet) /\ Len(Cells(size)) = size /\ p.fresh \in Owned(f)
    BY <1>2, CellsAre, PoolIs
  <2>2. Cells(size) # <<>>
    BY <1>2, <2>1, EmptySeq
  <2> QED
    BY <1>3, <2>1, <2>2 DEF Blocks
<1>5. fresh \in Owned(f) /\ p.fresh < fresh /\ p.fresh \in Nat /\ fresh \in Nat
  BY <1>3, OwnedNext, PoolIs DEF Owned
<1>6. PICK q, r : /\ r = <<Filled(p, b)>> \o p.blocks
                  /\ q = [blocks |-> r, freeBlocks |-> p.freeBlocks, start |-> 0,
                          ptr |-> p.ptr - p.start, fresh |-> fresh]
  OBVIOUS
<1>7. newBlock(p) = q
  <2>1. PICK a : a = Front_(p, r)
    OBVIOUS
  <2>2. a.fresh = p.fresh /\ [a EXCEPT !.fresh = fresh] = q
    <3>1. /\ a = [blocks |-> r, freeBlocks |-> p.freeBlocks, start |-> 0,
                  ptr |-> p.ptr - p.start, fresh |-> p.fresh]
          /\ \A x : [a EXCEPT !.fresh = x]
               = [blocks |-> r, freeBlocks |-> p.freeBlocks, start |-> 0,
                  ptr |-> p.ptr - p.start, fresh |-> x]
      BY <2>1, FrontRecord
    <3>2. a.fresh = p.fresh
      BY <3>1
    <3>3. [a EXCEPT !.fresh = fresh] = q
      BY ONLY <1>6, <3>1
    <3> QED
      BY <3>2, <3>3
  <2>3. newBlock(p) = [a EXCEPT !.fresh = NextPlace(a.fresh)]
    BY ONLY <1>1, <1>3, <1>6, <2>1 DEF newBlock
  <2> QED
    BY <1>3, <2>2, <2>3
<1>8. Apart(r, p.freeBlocks, fresh)
  <2>1. Apart(p.blocks, p.freeBlocks, p.fresh)
    BY DEF PoolOK
  <2>2. Filled(p, b) \in Blocks(f) /\ Filled(p, b).id = p.fresh
    <3>1. EndOf(p) - p.start <= Len(b.s)
      BY <1>1, <1>2, <1>4
    <3> QED
      BY <3>1, <1>4, FilledIs
  <2>3. /\ p.blocks \in Seq(Blocks(f)) /\ Len(p.blocks) \in Nat /\ Len(p.freeBlocks) \in Nat
        /\ \A i \in 1 .. Len(p.blocks) : p.blocks[i].id \in Nat
        /\ \A i \in 1 .. Len(p.freeBlocks) : p.freeBlocks[i].id \in Nat
    BY PoolIs, BlockIs
  <2>4. /\ Len(r) = Len(p.blocks) + 1 /\ r[1].id = p.fresh
        /\ \A i \in 1 .. Len(p.blocks) : r[i + 1] = p.blocks[i]
    BY <1>6, <2>2, <2>3, PrependIs
  <2>5. PICK n, blocks, free : n = Len(p.blocks) /\ blocks = p.blocks /\ free = p.freeBlocks
    OBVIOUS
  <2>6. Apart(blocks, free, fresh)
    <3>1. Apart(blocks, free, p.fresh)
      BY ONLY <2>1, <2>5
    <3>2. /\ \A i \in 1 .. Len(blocks) : blocks[i].id \in Nat
          /\ \A i \in 1 .. Len(free) : free[i].id \in Nat
      BY ONLY <2>3, <2>5
    <3> QED
      BY ONLY <1>5, <3>1, <3>2 DEF Apart
  <2>7. /\ n \in Nat /\ Len(blocks) = n /\ Len(r) = n + 1
        /\ \A i \in 1 .. n : r[i + 1] = blocks[i]
        /\ Len(free) \in Nat /\ fresh \in Nat
        /\ r[1].id < fresh
    BY ONLY <1>5, <2>3, <2>4, <2>5
  <2>8. /\ \A i \in 1 .. n : blocks[i].id # r[1].id
        /\ \A i \in 1 .. Len(free) : free[i].id # r[1].id
    BY ONLY <1>5, <2>1, <2>3, <2>4, <2>5 DEF Apart
  <2>9. Apart(r, free, fresh)
    BY ONLY <2>6, <2>7, <2>8, ApartPrepend
  <2> QED
    BY <2>5, <2>9
<1>9. /\ q.blocks = r /\ p.freeBlocks \in Seq(Blocks(f)) /\ EndOf(p) - p.start < Len(b.s)
  BY <1>1, <1>2, <1>4, <1>6, PoolIs
<1>10. GrownPool(p, q, f)
  BY <1>4, <1>5, <1>6, <1>8, <1>9, FrontIs
<1> QED
  BY <1>7, <1>10

LEMMA EnlargeIs ==
  ASSUME NEW f \in Nat, NEW p, PoolOK(p, f), p.ptr = EndOf(p), p.blocks # <<>>, p.start = 0
  PROVE  GrownPool(p, enlargeBlock(p), f)
<1>1. PICK blocks, s, b, fresh, r :
         /\ blocks = p.blocks /\ s = p.blocks[1].s
         /\ b = [id |-> p.fresh, s |-> s \o Cells(Len(s))]
         /\ fresh = NextPlace(p.fresh)
         /\ r = [blocks EXCEPT ![1] = b]
  OBVIOUS
<1>2. /\ blocks \in Seq(Blocks(f)) /\ Len(blocks) \in Nat /\ 1 \in 1 .. Len(blocks)
      /\ s \in Seq(CellSet) /\ Len(s) \in Nat /\ Len(s) >= 1 /\ EndOf(p) = Len(s)
      /\ p.ptr \in Nat /\ p.fresh \in Nat /\ p.fresh \in Owned(f)
      /\ \A i \in 1 .. Len(blocks) : blocks[i] \in Blocks(f)
  BY <1>1, PoolIs, BlockIs
<1>3. fresh \in Owned(f) /\ p.fresh < fresh /\ fresh \in Nat
  BY <1>1, <1>2, OwnedNext DEF Owned
<1>4. /\ b \in Blocks(f) /\ b.id = p.fresh /\ Len(b.s) = 2 * Len(s)
      /\ \A k \in 1 .. Len(s) : b.s[k] = s[k]
  <2>1. PICK c : c = Cells(Len(s))
    OBVIOUS
  <2>2. c \in Seq(CellSet) /\ Len(c) = Len(s)
    BY <1>2, <2>1, CellsAre
  <2>3. /\ s \o c \in Seq(CellSet)
        /\ Len(s \o c) = Len(s) + Len(c)
        /\ \A i \in 1 .. Len(s) + Len(c) : (s \o c)[i] = IF i <= Len(s) THEN s[i] ELSE c[i - Len(s)]
    BY <1>2, <2>2, ConcatProperties
  <2>4. PICK w : w = s \o c
    OBVIOUS
  <2>5. w # <<>> /\ Len(w) = 2 * Len(s)
    BY <1>2, <2>2, <2>3, <2>4, EmptySeq
  <2>6. b = [id |-> p.fresh, s |-> w]
    BY <1>1, <2>1, <2>4
  <2>7. \A k \in 1 .. Len(s) : w[k] = s[k]
    BY <1>2, <2>2, <2>3, <2>4
  <2> QED
    BY <1>2, <2>3, <2>4, <2>5, <2>6, <2>7 DEF Blocks
<1>5. /\ r \in Seq(Blocks(f)) /\ Len(r) = Len(blocks) /\ r[1] = b
      /\ \A i \in 1 .. Len(blocks) : i # 1 => r[i] = blocks[i]
  BY <1>1, <1>2, <1>4, ExceptSeq
<1>6. PICK q : q = [blocks |-> r, freeBlocks |-> p.freeBlocks, start |-> p.start,
                    ptr |-> p.ptr, fresh |-> fresh]
  OBVIOUS
<1>7. enlargeBlock(p) = q
  <2>1. p = [blocks |-> p.blocks, freeBlocks |-> p.freeBlocks, start |-> p.start,
             ptr |-> p.ptr, fresh |-> p.fresh]
    BY PoolIs
  <2>2. PICK f0, s0, p0, h0 :
           /\ f0 = p.freeBlocks /\ s0 = p.start /\ p0 = p.ptr /\ h0 = p.fresh
           /\ p = [blocks |-> blocks, freeBlocks |-> f0, start |-> s0, ptr |-> p0, fresh |-> h0]
    BY <1>1, <2>1
  <2>3. enlargeBlock(p) = [p EXCEPT !.blocks = r, !.fresh = fresh]
    BY ONLY <1>1, <2>2 DEF enlargeBlock
  <2>4. enlargeBlock(p) \in [blocks : {r}, freeBlocks : {f0}, start : {s0}, ptr : {p0}, fresh : {fresh}]
    BY ONLY <2>2, <2>3
  <2>5. enlargeBlock(p) = [blocks |-> r, freeBlocks |-> f0, start |-> s0, ptr |-> p0, fresh |-> fresh]
    BY ONLY <2>4
  <2> QED
    BY <1>6, <2>2, <2>5
<1>8. q.blocks # <<>> /\ EndOf(q) = 2 * Len(s)
  <2>1. q.blocks # <<>>
    BY <1>2, <1>5, <1>6, EmptySeq
  <2> QED
    BY <2>1, <1>4, <1>5, <1>6 DEF EndOf
<1>9. q.ptr = Len(s) /\ q.start = 0 /\ q.ptr < EndOf(q)
  BY <1>2, <1>6, <1>8
<1>10. PoolOK(q, f)
  <2>1. PoolType(q, f)
    <3>1. p.freeBlocks \in Seq(Blocks(f)) /\ p.start \in Nat
      BY PoolIs
    <3> QED
      BY <3>1, <1>2, <1>3, <1>5, <1>6 DEF PoolType
  <2>2. Apart(q.blocks, q.freeBlocks, q.fresh)
    <3>1. PICK free, n, h : free = p.freeBlocks /\ n = Len(blocks) /\ h = p.fresh
      OBVIOUS
    <3>2. Apart(blocks, free, h)
      BY <1>1, <3>1 DEF PoolOK
    <3>3. /\ \A i \in 1 .. n : blocks[i].id \in Nat
          /\ \A i \in 1 .. Len(free) : free[i].id \in Nat
          /\ n \in Nat /\ h \in Nat /\ fresh \in Nat /\ h < fresh
      BY <1>1, <1>2, <1>3, <3>1, PoolIs, BlockIs
    <3>4. /\ Len(r) = n /\ r[1].id = h
          /\ \A i \in 1 .. n : i # 1 => r[i].id = blocks[i].id
      BY <1>4, <1>5, <3>1
    <3>5. \A i \in 1 .. n : r[i].id < fresh
      BY ONLY <3>1, <3>2, <3>3, <3>4 DEF Apart
    <3>6. \A i \in 1 .. Len(free) : free[i].id < fresh
      BY ONLY <3>2, <3>3 DEF Apart
    <3>7. \A i, j \in 1 .. n : r[i].id = r[j].id => i = j
      BY ONLY <3>1, <3>2, <3>3, <3>4 DEF Apart
    <3>8. \A i \in 1 .. n, j \in 1 .. Len(free) : r[i].id # free[j].id
      BY ONLY <3>1, <3>2, <3>3, <3>4 DEF Apart
    <3>9. Apart(r, free, fresh)
      BY ONLY <3>2, <3>4, <3>5, <3>6, <3>7, <3>8 DEF Apart
    <3> QED
      BY <1>6, <3>1, <3>9
  <2>3. q.start <= q.ptr /\ q.ptr <= EndOf(q)
    BY <1>2, <1>8, <1>9
  <2> QED
    BY <2>1, <2>2, <2>3 DEF PoolOK
<1>11. Keeps(p, q)
  <2> SUFFICES ASSUME NEW o \in Places, NEW str \in Strings, Settled(p, o, str)
               PROVE  Settled(q, o, str)
    BY DEF Keeps
  <2>1. PICK i \in 1 .. Len(blocks) :
          /\ blocks[i].id = o.id
          /\ o.at + Len(str) + 1 <= (IF i = 1 THEN p.start ELSE Len(blocks[i].s))
          /\ Holds(blocks[i].s, o.at, str)
    BY <1>1 DEF Settled
  <2>2. i # 1
    <3>1. o.at \in Nat /\ Len(str) \in Nat
      BY StringLength DEF Places
    <3>2. i = 1 => o.at + Len(str) + 1 <= 0
      BY <2>1
    <3> QED
      BY <3>1, <3>2
  <2>3. q.blocks[i] = blocks[i] /\ i \in 1 .. Len(q.blocks)
    BY <1>5, <1>6, <2>2
  <2> QED
    BY <2>1, <2>2, <2>3 DEF Settled
<1>12. ASSUME NEW g, NEW m \in Nat, Open(p, g, m) PROVE Open(q, g, m)
  <2>1. p.ptr = p.start + m /\ \A k \in 1 .. m : s[p.start + k] = g[k]
    BY <1>1, <1>12 DEF Open
  <2>2. m = Len(s)
    BY ONLY <2>1, <1>2, p.ptr = EndOf(p), p.start = 0, m \in Nat
  <2>3. ASSUME NEW k \in 1 .. m PROVE q.blocks[1].s[q.start + k] = g[k]
    <3>1. k \in 1 .. Len(s) /\ 0 + k = k
      BY <2>2, <1>2
    <3>2. b.s[k] = s[k] /\ s[k] = g[k]
      BY <3>1, <2>1, <1>4
    <3> QED
      BY <3>1, <3>2, <1>5, <1>6, <1>9
  <2> QED
    BY <2>1, <2>3, <1>6 DEF Open
<1> QED
  BY <1>7, <1>8, <1>9, <1>10, <1>11, <1>12 DEF GrownPool

\* In each of its cases poolGrow makes room and moves nothing that is finished.
LEMMA GrowIs ==
  ASSUME NEW f \in Nat, NEW p, PoolOK(p, f), p.ptr = EndOf(p)
  PROVE  GrownPool(p, poolGrow(p), f)
<1>1. CASE p.freeBlocks # <<>> /\ EndOf(p) - p.start < Len(Head(p.freeBlocks).s)
  BY <1>1, ReuseIs DEF poolGrow
<1>2. CASE /\ ~(p.freeBlocks # <<>> /\ EndOf(p) - p.start < Len(Head(p.freeBlocks).s))
           /\ p.blocks # <<>> /\ p.start = 0
  BY <1>2, EnlargeIs DEF poolGrow
<1>3. CASE /\ ~(p.freeBlocks # <<>> /\ EndOf(p) - p.start < Len(Head(p.freeBlocks).s))
           /\ ~(p.blocks # <<>> /\ p.start = 0)
  BY <1>3, NewBlockIs DEF poolGrow
<1> QED
  BY <1>1, <1>2, <1>3

\* A pool in which one character more has been written
WrittenPool(p, q, c, f) ==
  /\ PoolOK(q, f) /\ q.blocks # <<>>
  /\ Keeps(p, q)
  /\ \A g : \A m \in Nat : Open(p, g, m) /\ g[m + 1] = c => Open(q, g, m + 1)

Put(p, c) == [p EXCEPT !.blocks[1].s[p.ptr + 1] = c, !.ptr = @ + 1]

LEMMA PutIs ==
  ASSUME NEW f \in Nat, NEW p, PoolOK(p, f), p.blocks # <<>>, p.ptr < EndOf(p), NEW c \in CellSet
  PROVE  WrittenPool(p, Put(p, c), c, f)
<1>1. PICK blocks, s, n, t, b, r :
         /\ blocks = p.blocks /\ s = p.blocks[1].s /\ n = p.ptr + 1
         /\ t = [s EXCEPT ![n] = c]
         /\ b = [id |-> blocks[1].id, s |-> t]
         /\ r = [blocks EXCEPT ![1] = b]
  OBVIOUS
<1>2. /\ blocks \in Seq(Blocks(f)) /\ Len(blocks) \in Nat /\ 1 \in 1 .. Len(blocks)
      /\ s \in Seq(CellSet) /\ Len(s) \in Nat /\ EndOf(p) = Len(s) /\ s # <<>>
      /\ p.ptr \in Nat /\ p.start \in Nat /\ p.start <= p.ptr
      /\ n \in 1 .. Len(s) /\ blocks[1] = [id |-> blocks[1].id, s |-> s]
      /\ blocks[1].id \in Owned(f)
  <2>1. blocks[1] \in Blocks(f) /\ 1 \in 1 .. Len(blocks)
    BY <1>1, PoolIs
  <2>2. s \in Seq(CellSet) /\ Len(s) \in Nat /\ Len(s) >= 1
        /\ blocks[1] = [id |-> blocks[1].id, s |-> s] /\ blocks[1].id \in Owned(f)
    BY <1>1, <2>1, BlockIs
  <2>3. s # <<>>
    BY <2>2
  <2> QED
    BY <1>1, <2>1, <2>2, <2>3, PoolIs
<1>3. /\ t \in Seq(CellSet) /\ Len(t) = Len(s) /\ t[n] = c
      /\ \A i \in 1 .. Len(s) : i # n => t[i] = s[i]
  BY <1>1, <1>2, ExceptSeq
<1>4. b \in Blocks(f) /\ b.id = blocks[1].id /\ b.s = t
  <2>1. t # <<>>
    BY <1>2, <1>3, EmptySeq
  <2> QED
    BY <1>1, <1>2, <1>3, <2>1 DEF Blocks
<1>5. /\ r \in Seq(Blocks(f)) /\ Len(r) = Len(blocks) /\ r[1] = b
      /\ \A i \in 1 .. Len(blocks) : i # 1 => r[i] = blocks[i]
  BY <1>1, <1>2, <1>4, ExceptSeq
<1>6. PICK q : q = [blocks |-> r, freeBlocks |-> p.freeBlocks, start |-> p.start,
                    ptr |-> n, fresh |-> p.fresh]
  OBVIOUS
<1>7. Put(p, c) = q
  <2>1. p = [blocks |-> p.blocks, freeBlocks |-> p.freeBlocks, start |-> p.start,
             ptr |-> p.ptr, fresh |-> p.fresh]
    BY PoolIs
  <2>2. PICK f0, s0, p0, h0, i0 :
           /\ f0 = p.freeBlocks /\ s0 = p.start /\ p0 = p.ptr /\ h0 = p.fresh /\ i0 = blocks[1].id
           /\ p = [blocks |-> blocks, freeBlocks |-> f0, start |-> s0, ptr |-> p0, fresh |-> h0]
    BY <1>1, <2>1
  <2>3. Put(p, c) = [p EXCEPT !.blocks = [blocks EXCEPT ![1] = [blocks[1] EXCEPT !.s = t]], !.ptr = n]
    BY ONLY <1>1, <2>2 DEF Put
  <2>4. blocks[1] = [id |-> i0, s |-> s]
    BY <1>2, <2>2
  <2>5. [blocks[1] EXCEPT !.s = t] = [id |-> i0, s |-> t]
    BY ONLY <2>4
  <2>6. Put(p, c) = [p EXCEPT !.blocks = r, !.ptr = n]
    BY ONLY <1>1, <2>2, <2>3, <2>5
  <2>7. Put(p, c) \in [blocks : {r}, freeBlocks : {f0}, start : {s0}, ptr : {n}, fresh : {h0}]
    BY ONLY <2>2, <2>6
  <2>8. Put(p, c) = [blocks |-> r, freeBlocks |-> f0, start |-> s0, ptr |-> n, fresh |-> h0]
    BY ONLY <2>7
  <2> QED
    BY <1>6, <2>2, <2>8
<1>8. q.blocks # <<>> /\ EndOf(q) = Len(s)
  <2>1. q.blocks # <<>>
    BY <1>2, <1>5, <1>6, EmptySeq
  <2> QED
    BY <2>1, <1>3, <1>4, <1>5, <1>6 DEF EndOf
<1>9. PoolOK(q, f)
  <2>1. PoolType(q, f)
    <3>1. p.freeBlocks \in Seq(Blocks(f)) /\ p.start \in Nat /\ p.fresh \in Owned(f)
      BY PoolIs
    <3> QED
      BY <3>1, <1>2, <1>5, <1>6 DEF PoolType
  <2>2. Apart(q.blocks, q.freeBlocks, q.fresh)
    <3>1. PICK free, m, h : free = p.freeBlocks /\ m = Len(blocks) /\ h = p.fresh
      OBVIOUS
    <3>2. Apart(blocks, free, h)
      BY <1>1, <3>1 DEF PoolOK
    <3>3. Len(r) = m /\ \A i \in 1 .. m : r[i].id = blocks[i].id
      BY <1>4, <1>5, <3>1
    <3>4. Apart(r, free, h)
      BY ONLY <3>1, <3>2, <3>3 DEF Apart
    <3> QED
      BY <1>6, <3>1, <3>4
  <2>3. q.start <= q.ptr /\ q.ptr <= EndOf(q)
    BY <1>1, <1>2, <1>6, <1>8
  <2> QED
    BY <2>1, <2>2, <2>3 DEF PoolOK
<1>10. Keeps(p, q)
  <2> SUFFICES ASSUME NEW o \in Places, NEW str \in Strings, Settled(p, o, str)
               PROVE  Settled(q, o, str)
    BY DEF Keeps
  <2>1. PICK i \in 1 .. Len(blocks) :
          /\ blocks[i].id = o.id
          /\ o.at + Len(str) + 1 <= (IF i = 1 THEN p.start ELSE Len(blocks[i].s))
          /\ Holds(blocks[i].s, o.at, str)
    BY <1>1 DEF Settled
  <2>2. i \in 1 .. Len(q.blocks) /\ q.blocks = r
    BY <1>5, <1>6
  <2>3. CASE i # 1
    <3>1. r[i] = blocks[i]
      BY <1>5, <2>3
    <3> QED
      BY <2>1, <2>2, <2>3, <3>1 DEF Settled
  <2>4. CASE i = 1
    <3>1. o.at \in Nat /\ Len(str) \in Nat
      BY StringLength DEF Places
    <3>2. o.at + Len(str) + 1 <= p.start
      BY <2>1, <2>4
    <3>3. \A k \in 1 .. Len(str) + 1 : o.at + k \in 1 .. Len(s) /\ o.at + k # n
      <4> SUFFICES ASSUME NEW k \in 1 .. Len(str) + 1
                   PROVE  o.at + k \in 1 .. Len(s) /\ o.at + k # n
        OBVIOUS
      <4>1. n = p.ptr + 1 /\ p.ptr < Len(s)
        BY <1>1, <1>2
      <4> QED
        <5>1. PICK a, x, l, e, w : a = o.at /\ x = Len(str) /\ l = Len(s) /\ e = p.start /\ w = p.ptr
          OBVIOUS
        <5>2. /\ a \in Nat /\ x \in Nat /\ l \in Nat /\ e \in Nat /\ w \in Nat
              /\ a + x + 1 <= e /\ e <= w /\ w < l /\ n = w + 1 /\ k \in 1 .. x + 1
          BY <5>1, <3>1, <3>2, <4>1, <1>2
        <5>3. a + k \in 1 .. l /\ a + k # n
          BY ONLY <5>2
        <5> QED
          BY <5>1, <5>3
    <3>4. \A k \in 1 .. Len(str) : k \in 1 .. Len(str) + 1
      BY <3>1
    <3>5. Len(str) + 1 \in 1 .. Len(str) + 1 /\ o.at + (Len(str) + 1) = o.at + Len(str) + 1
      BY <3>1
    <3>6. Holds(s, o.at, str)
      BY <1>1, <2>1, <2>4
    <3>7. Holds(t, o.at, str)
      BY ONLY <3>3, <3>4, <3>5, <3>6, <1>3 DEF Holds
    <3>8. r[i].id = o.id /\ r[i].s = t
      BY <1>4, <1>5, <2>1, <2>4
    <3>9. q.start = p.start
      BY <1>6
    <3> QED
      BY <2>2, <2>4, <3>2, <3>7, <3>8, <3>9 DEF Settled
  <2> QED
    BY <2>3, <2>4
<1>11. ASSUME NEW g, NEW m \in Nat, Open(p, g, m), g[m + 1] = c PROVE Open(q, g, m + 1)
  <2>1. p.ptr = p.start + m /\ \A k \in 1 .. m : s[p.start + k] = g[k]
    BY <1>1, <1>11 DEF Open
  <2>2. q.ptr = q.start + (m + 1) /\ q.start = p.start /\ n = p.start + (m + 1)
    BY <2>1, <1>1, <1>2, <1>6
  <2>3. q.blocks[1].s = t
    BY <1>4, <1>5, <1>6
  <2>4. ASSUME NEW k \in 1 .. m + 1 PROVE t[p.start + k] = g[k]
    <3>1. CASE k = m + 1
      BY <3>1, <2>2, <1>3, <1>11
    <3>2. CASE k # m + 1
      <4>1. k \in 1 .. m /\ p.start + k \in 1 .. Len(s) /\ p.start + k # n
        BY <3>2, <2>2, <1>2
      <4> QED
        BY <4>1, <2>1, <1>3
    <3> QED
      BY <3>1, <3>2
  <2> QED
    BY <2>2, <2>3, <2>4 DEF Open
<1> QED
  BY <1>7, <1>8, <1>9, <1>10, <1>11 DEF WrittenPool

LEMMA KeepsOn ==
  ASSUME NEW p, NEW q, NEW r, Keeps(p, q), Keeps(q, r)
  PROVE  Keeps(p, r)
BY DEF Keeps

\* Writing a character moves nothing that is finished, and what has been written
\* before it is still in front of it.
LEMMA AppendIs ==
  ASSUME NEW f \in Nat, NEW p, PoolOK(p, f), NEW c \in CellSet
  PROVE  WrittenPool(p, poolAppendChar(p, c), c, f)
<1>1. PICK q : q = IF p.ptr = EndOf(p) THEN poolGrow(p) ELSE p
  OBVIOUS
<1>2. poolAppendChar(p, c) = Put(q, c)
  BY <1>1 DEF poolAppendChar, Put
<1>3. GrownPool(p, q, f)
  <2>1. CASE p.ptr = EndOf(p)
    BY <1>1, <2>1, GrowIs
  <2>2. CASE p.ptr # EndOf(p)
    <3>1. p.blocks # <<>> /\ p.ptr < EndOf(p)
      BY <2>2, PoolIs
    <3> QED
      BY <1>1, <2>2, <3>1 DEF GrownPool, Keeps
  <2> QED
    BY <2>1, <2>2
<1>4. WrittenPool(q, Put(q, c), c, f)
  BY <1>3, PutIs DEF GrownPool
<1>5. Keeps(p, Put(q, c))
  BY <1>3, <1>4, KeepsOn DEF GrownPool, WrittenPool
<1> QED
  BY <1>2, <1>3, <1>4, <1>5 DEF GrownPool, WrittenPool

Pools(f) == [blocks : Seq(Blocks(f)), freeBlocks : Seq(Blocks(f)), start : Nat, ptr : Nat,
             fresh : Owned(f)]

\* A pool in which m characters of g have been written
Wrote(p, q, g, m, f) ==
  /\ PoolOK(q, f) /\ Keeps(p, q) /\ Open(q, g, m)

LEMMA WritingIs ==
  ASSUME NEW f \in Nat, NEW p, PoolOK(p, f), NEW g, NEW m \in Nat, Open(p, g, m),
         NEW str \in Seq(CellSet), \A i \in 1 .. Len(str) : g[m + i] = str[i]
  PROVE  /\ Wrote(p, FoldLeft(poolAppendChar, p, str), g, m + Len(str), f)
         /\ str # <<>> => FoldLeft(poolAppendChar, p, str).blocks # <<>>
<1>1. PICK n : n = Len(str) /\ n \in Nat /\ DOMAIN str = 1 .. n
                /\ \A i \in 1 .. n : str[i] \in CellSet
  BY LenProperties, ElementOfSeq
<1> DEFINE After(k) == {q \in Pools(f) : Wrote(p, q, g, m + k, f) /\ (k > 0 => q.blocks # <<>>)}
           J == [k \in 0 .. n |-> After(k)]
<1>2. p \in After(0)
  <2>1. p \in Pools(f)
    BY DEF PoolOK, PoolType, Pools
  <2>2. Wrote(p, p, g, m + 0, f)
    BY DEF Wrote, Keeps
  <2> QED
    BY <2>1, <2>2
<1>3. ASSUME NEW k \in 1 .. n, NEW q \in After(k - 1) PROVE poolAppendChar(q, str[k]) \in After(k)
  <2>1. PICK r, l, c : r = poolAppendChar(q, str[k]) /\ l = m + (k - 1) /\ c = str[k]
    OBVIOUS
  <2>2. PoolOK(q, f) /\ Keeps(p, q) /\ Open(q, g, l) /\ l \in Nat /\ l + 1 = m + k /\ c \in CellSet
    BY <1>1, <2>1 DEF Wrote
  <2>3. WrittenPool(q, r, c, f)
    BY <2>1, <2>2, AppendIs
  <2>4. g[l + 1] = c
    BY <1>1, <2>1, <2>2
  <2>5. Open(r, g, l + 1) /\ PoolOK(r, f) /\ Keeps(q, r) /\ r.blocks # <<>>
    BY <2>2, <2>3, <2>4 DEF WrittenPool
  <2>6. Keeps(p, r)
    BY <2>2, <2>5, KeepsOn
  <2>7. r \in Pools(f)
    BY <2>5 DEF PoolOK, PoolType, Pools
  <2>8. Wrote(p, r, g, m + k, f)
    BY <2>2, <2>5, <2>6 DEF Wrote
  <2> QED
    BY <2>1, <2>5, <2>7, <2>8
<1>4. p \in J[0] /\ \A k \in 1 .. n : \A t \in J[k - 1] : poolAppendChar(t, str[k]) \in J[k]
  <2>1. 0 \in 0 .. n /\ \A k \in 1 .. n : k \in 0 .. n /\ k - 1 \in 0 .. n
    BY <1>1
  <2>2. J[0] = After(0) /\ \A k \in 1 .. n : J[k] = After(k) /\ J[k - 1] = After(k - 1)
    BY <2>1
  <2> HIDE DEF J, After
  <2> QED
    BY <2>2, <1>2, <1>3
<1>5. J[n] = After(n)
  BY <1>1
<1> HIDE DEF J
<1>6. Written!Folded(p, str) \in J[n]
  BY ONLY <1>1, <1>4, Written!FoldReaches
<1>7. FoldLeft(poolAppendChar, p, str) = Written!Folded(p, str)
  BY DEF Written!Folded, FoldLeft, Written!FoldLeft, MapThenFoldSet, Written!MapThenFoldSet,
         Max, Written!Max
<1>8. FoldLeft(poolAppendChar, p, str) \in After(n)
  BY <1>5, <1>6, <1>7
<1>9. str # <<>> => n > 0
  BY <1>1, EmptySeq
<1> QED
  BY <1>1, <1>8, <1>9

\* A string that has been written, and is not finished, lies m characters behind
\* the start.
StoredPool(p, q, m, str, f) ==
  /\ PoolOK(q, f) /\ q.blocks # <<>> /\ Keeps(p, q)
  /\ q.ptr = q.start + m + Len(str) + 1
  /\ Holds(q.blocks[1].s, q.start + m, str)

LEMMA StringIsWritten ==
  ASSUME NEW f \in Nat, NEW p, PoolOK(p, f), NEW m \in Nat, p.ptr = p.start + m, NEW str \in Strings
  PROVE  StoredPool(p, FoldLeft(poolAppendChar, p, Append(str, NUL)), m, str, f)
<1>1. PICK n, s, w : n = Len(str) /\ s = p.blocks[1].s /\ w = Append(str, NUL)
  OBVIOUS
<1>2. /\ n \in Nat /\ str \in Seq(CellSet) /\ NUL \in CellSet
  BY <1>1, StringLength DEF CellSet
<1>3. /\ w \in Seq(CellSet) /\ Len(w) = n + 1 /\ w[n + 1] = NUL
      /\ \A i \in 1 .. n : w[i] = str[i]
  BY <1>1, <1>2, AppendProperties
<1>4. PICK g : g = [k \in 1 .. m + n + 1 |-> IF k <= m THEN s[p.start + k] ELSE w[k - m]]
  OBVIOUS
<1>5. Open(p, g, m)
  <2>1. \A k \in 1 .. m : g[k] = s[p.start + k]
    BY <1>2, <1>4
  <2> QED
    BY <1>1, <2>1 DEF Open
<1>6. \A i \in 1 .. n + 1 : g[m + i] = w[i]
  <2> SUFFICES ASSUME NEW i \in 1 .. n + 1 PROVE g[m + i] = w[i]
    OBVIOUS
  <2>1. m + i \in 1 .. m + n + 1 /\ ~(m + i <= m) /\ (m + i) - m = i
    BY <1>2
  <2> QED
    BY <1>4, <2>1
<1>7. PICK q : q = FoldLeft(poolAppendChar, p, w)
  OBVIOUS
<1>8. Wrote(p, q, g, m + (n + 1), f) /\ q.blocks # <<>>
  <2>1. w # <<>>
    BY <1>2, <1>3
  <2>2. w \in Seq(CellSet) /\ \A i \in 1 .. Len(w) : g[m + i] = w[i]
    BY <1>3, <1>6
  <2>3. /\ Wrote(p, FoldLeft(poolAppendChar, p, w), g, m + Len(w), f)
        /\ w # <<>> => FoldLeft(poolAppendChar, p, w).blocks # <<>>
    BY ONLY <1>5, <2>2, PoolOK(p, f), f \in Nat, m \in Nat, WritingIs
  <2> QED
    BY <2>1, <2>3, <1>3, <1>7
<1>9. /\ q.ptr = q.start + (m + (n + 1))
      /\ \A k \in 1 .. m + (n + 1) : q.blocks[1].s[q.start + k] = g[k]
      /\ q.start \in Nat
  BY <1>8, PoolIs DEF Wrote, Open
<1>10. q.ptr = q.start + m + n + 1
  BY ONLY <1>2, <1>9, m \in Nat
<1>11. \A i \in 1 .. n + 1 : q.blocks[1].s[q.start + m + i] = w[i]
  <2> SUFFICES ASSUME NEW i \in 1 .. n + 1 PROVE q.blocks[1].s[q.start + m + i] = w[i]
    OBVIOUS
  <2>1. m + i \in 1 .. m + (n + 1) /\ q.start + (m + i) = q.start + m + i
    BY ONLY <1>2, <1>9, m \in Nat, i \in 1 .. n + 1
  <2> QED
    BY <2>1, <1>6, <1>9
<1>12. Holds(q.blocks[1].s, q.start + m, str)
  <2>1. \A i \in 1 .. n : i \in 1 .. n + 1
    BY <1>2
  <2>2. n + 1 \in 1 .. n + 1 /\ q.start + m + (n + 1) = q.start + m + n + 1
    <3>1. PICK a : a = q.start /\ a \in Nat
      BY <1>9
    <3>2. n + 1 \in 1 .. n + 1 /\ a + m + (n + 1) = a + m + n + 1
      BY ONLY <1>2, <3>1, m \in Nat
    <3> QED
      BY <3>1, <3>2
  <2> QED
    BY <1>1, <1>3, <1>11, <2>1, <2>2 DEF Holds
<1> QED
  BY <1>1, <1>7, <1>8, <1>10, <1>12 DEF StoredPool, Wrote

LEMMA StoreIs ==
  ASSUME NEW f \in Nat, NEW p, PoolOK(p, f), NEW m \in Nat, p.ptr = p.start + m, NEW str \in Strings
  PROVE  StoredPool(p, poolStoreString(p, str), m, str, f)
<1>1. PICK q : q = IF p.blocks = <<>> THEN poolGrow(p) ELSE p
  OBVIOUS
<1>2. PoolOK(q, f) /\ Keeps(p, q) /\ q.ptr = q.start + m
  <2>1. CASE p.blocks = <<>>
    <3>1. p.ptr = EndOf(p)
      BY <2>1, PoolIs
    <3>2. GrownPool(p, q, f)
      BY <1>1, <2>1, <3>1, GrowIs
    <3>3. PICK g : g = [k \in 1 .. m |-> p.blocks[1].s[p.start + k]]
      OBVIOUS
    <3>4. Open(p, g, m)
      BY <3>3 DEF Open
    <3>5. Open(q, g, m)
      BY <3>2, <3>4 DEF GrownPool
    <3> QED
      BY <3>2, <3>5 DEF GrownPool, Open
  <2>2. CASE p.blocks # <<>>
    BY <1>1, <2>2 DEF Keeps
  <2> QED
    BY <2>1, <2>2
<1>3. poolStoreString(p, str) = FoldLeft(poolAppendChar, q, Append(str, NUL))
  <2>1. str \in Seq(CellSet) /\ NUL \in CellSet
    BY StringLength DEF CellSet
  <2>2. Written!Folded(q, Append(str, NUL)) = poolAppendChar(Written!Folded(q, str), NUL)
    BY <2>1, Written!FoldOfOneMore
  <2>3. \A w : FoldLeft(poolAppendChar, q, w) = Written!Folded(q, w)
    BY DEF Written!Folded, FoldLeft, Written!FoldLeft, MapThenFoldSet, Written!MapThenFoldSet,
           Max, Written!Max
  <2>4. poolStoreString(p, str) = poolAppendChar(FoldLeft(poolAppendChar, q, str), NUL)
    BY <1>1 DEF poolStoreString, poolAppend
  <2> QED
    BY <2>2, <2>3, <2>4
<1>4. PICK r : r = FoldLeft(poolAppendChar, q, Append(str, NUL))
  OBVIOUS
<1>5. StoredPool(q, r, m, str, f)
  BY <1>2, <1>4, StringIsWritten
<1>6. Keeps(p, r)
  BY <1>2, <1>5, KeepsOn DEF StoredPool
<1> QED
  BY <1>3, <1>4, <1>5, <1>6 DEF StoredPool

\* A string, finished or not, lies at place o of a pool.
Lies(p, o, str) ==
  \E i \in 1 .. Len(p.blocks) :
     /\ p.blocks[i].id = o.id
     /\ o.at + Len(str) + 1 <= Len(p.blocks[i].s)
     /\ Holds(p.blocks[i].s, o.at, str)

LEMMA SettledLies ==
  ASSUME NEW f, NEW p, PoolOK(p, f), NEW o \in Places, NEW str \in Strings, Settled(p, o, str)
  PROVE  Lies(p, o, str)
<1>1. PICK i \in 1 .. Len(p.blocks) :
        /\ p.blocks[i].id = o.id
        /\ o.at + Len(str) + 1 <= (IF i = 1 THEN p.start ELSE Len(p.blocks[i].s))
        /\ Holds(p.blocks[i].s, o.at, str)
  BY DEF Settled
<1>2. o.at + Len(str) + 1 <= Len(p.blocks[i].s)
  <2>1. PICK a, e, l : a = o.at + Len(str) + 1 /\ e = p.start /\ l = Len(p.blocks[i].s)
    OBVIOUS
  <2>2. a \in Nat /\ e \in Nat /\ l \in Nat
    <3>1. o.at \in Nat /\ Len(str) \in Nat
      BY StringLength DEF Places
    <3>2. l \in Nat /\ e \in Nat
      BY <2>1, PoolIs, BlockIs
    <3> QED
      BY <2>1, <3>1, <3>2
  <2>3. i = 1 => e <= l
    BY <2>1, PoolIs, EmptySeq
  <2> QED
    BY <1>1, <2>1, <2>2, <2>3
<1> QED
  BY <1>1, <1>2 DEF Lies

\* What a pointer to such a string gives
LEMMA StringAtIs ==
  ASSUME NEW f, NEW p, PoolOK(p, f), NEW o \in Places, NEW str \in Strings, Lies(p, o, str)
  PROVE  StringAt(p, o) = str
<1>1. PICK i \in 1 .. Len(p.blocks) :
        /\ p.blocks[i].id = o.id
        /\ o.at + Len(str) + 1 <= Len(p.blocks[i].s)
        /\ Holds(p.blocks[i].s, o.at, str)
  BY DEF Lies
<1>2. PICK s, a, n : s = p.blocks[i].s /\ a = o.at /\ n = Len(str)
  OBVIOUS
<1>3. /\ s \in Seq(CellSet) /\ Len(s) \in Nat /\ a \in Nat /\ n \in Nat
      /\ a + n + 1 <= Len(s) /\ Holds(s, a, str) /\ str \in Seq(Characters)
      /\ \A k \in 1 .. n : str[k] # NUL
  <2>1. s \in Seq(CellSet) /\ Len(s) \in Nat
    BY <1>2, PoolIs, BlockIs
  <2>2. str \in Seq(Characters) /\ n \in Nat /\ a \in Nat
    BY <1>2, StringLength DEF Places
  <2>3. \A k \in 1 .. n : str[k] # NUL
    BY <1>2, <2>2, ElementOfSeq, StringsAssumption
  <2> QED
    BY <1>1, <1>2, <2>1, <2>2, <2>3
<1> DEFINE in == {j \in DOMAIN p.blocks : p.blocks[j].id = o.id}
           ends == {k \in a + 1 .. Len(s) : s[k] = NUL}
<1>4. in = {i}
  <2>1. DOMAIN p.blocks = 1 .. Len(p.blocks)
    BY PoolIs, LenProperties
  <2>2. \A j, k \in 1 .. Len(p.blocks) : p.blocks[j].id = p.blocks[k].id => j = k
    BY DEF PoolOK, Apart
  <2> QED
    BY <1>1, <2>1, <2>2
<1>5. a + n + 1 \in ends /\ \A k \in ends : a + n + 1 <= k
  <2>1. a + n + 1 \in a + 1 .. Len(s)
    BY <1>3
  <2>2. s[a + n + 1] = NUL /\ \A k \in 1 .. n : s[a + k] # NUL
    BY <1>2, <1>3 DEF Holds
  <2>3. ASSUME NEW k \in ends, ~(a + n + 1 <= k) PROVE FALSE
    <3>1. k - a \in 1 .. n /\ a + (k - a) = k
      BY <1>3, <2>3
    <3> QED
      BY <2>2, <3>1, <2>3
  <2> QED
    BY <2>1, <2>2, <2>3
<1>6. Min(ends) = a + n + 1
  <2>1. \A k \in ends : k \in Int
    BY <1>3
  <2> HIDE DEF ends
  <2>2. \A x \in ends : (\A y \in ends : x <= y) => x = a + n + 1
    BY <1>3, <1>5, <2>1
  <2> QED
    BY <1>5, <2>2 DEF Min
<1>7. StringAt(p, o) = SubSeq(s, a + 1, Min(ends) - 1)
  <2>1. (CHOOSE j \in in : TRUE) = i
    BY <1>4
  <2>2. in # {} /\ ends # {}
    BY <1>4, <1>5
  <2> HIDE DEF in
  <2>3. p.blocks[CHOOSE j \in in : TRUE].s = s
    BY <1>2, <2>1
  <2>4. StringAt(p, o) = IF in = {} \/ ends = {} THEN <<Garbage>> ELSE SubSeq(s, a + 1, Min(ends) - 1)
    BY <1>2, <2>3 DEF StringAt, in
  <2> HIDE DEF ends
  <2> QED
    BY <2>2, <2>4
<1> HIDE DEF in, ends
<1>8. SubSeq(s, a + 1, a + n) = str
  <2>1. PICK lo, hi, w : lo = a + 1 /\ hi = a + n /\ lo \in Int /\ hi \in Int /\ w = SubSeq(s, lo, hi)
    <3>1. a + 1 \in Int /\ a + n \in Int
      BY <1>3
    <3> QED
      BY ONLY <3>1
  <2>2. \A k \in lo .. hi : s[k] \in Characters
    <3> SUFFICES ASSUME NEW k \in lo .. hi PROVE s[k] \in Characters
      OBVIOUS
    <3>1. k - a \in 1 .. n /\ a + (k - a) = k
      BY <1>3, <2>1
    <3> QED
      <4>1. s[a + (k - a)] = str[k - a]
        BY <3>1, <1>2, <1>3 DEF Holds
      <4>2. str[k - a] \in Characters
        BY <3>1, <1>2, <1>3, ElementOfSeq
      <4> QED
        BY <3>1, <4>1, <4>2
  <2>3. /\ w \in Seq(Characters)
        /\ Len(w) = IF lo <= hi THEN hi - lo + 1 ELSE 0
        /\ \A k \in 1 .. hi - lo + 1 : w[k] = s[lo + k - 1]
    BY ONLY <2>1, <2>2, SubSeqProperties
  <2>4. Len(w) = n /\ hi - lo + 1 = n
    <3>1. a \in Nat /\ n \in Nat
      BY <1>3
    <3>2. hi - lo + 1 = n /\ (lo <= hi <=> n # 0)
      BY ONLY <2>1, <3>1
    <3> QED
      BY ONLY <2>3, <3>1, <3>2
  <2>5. \A k \in 1 .. n : w[k] = str[k]
    <3> SUFFICES ASSUME NEW k \in 1 .. n PROVE w[k] = str[k]
      OBVIOUS
    <3>1. lo + k - 1 = a + k
      BY <1>3, <2>1
    <3> QED
      BY <1>2, <1>3, <2>3, <2>4, <3>1 DEF Holds
  <2>6. w = str
    <3>1. w = [k \in 1 .. n |-> w[k]] /\ str = [k \in 1 .. n |-> str[k]]
      BY <1>2, <1>3, <2>3, <2>4, LenProperties
    <3> QED
      BY <2>5, <3>1
  <2> QED
    BY <2>1, <2>6
<1>9. Min(ends) - 1 = a + n
  <2>1. (a + n + 1) - 1 = a + n
    BY ONLY <1>3
  <2> QED
    BY ONLY <1>6, <2>1
<1> QED
  BY ONLY <1>7, <1>8, <1>9

\* A string that has been written, and what its pointer points to
Place(q, m) == [id |-> q.blocks[1].id, at |-> q.start + m]

LEMMA StoredLies ==
  ASSUME NEW f, NEW p, NEW q, NEW m \in Nat, NEW str \in Strings, StoredPool(p, q, m, str, f)
  PROVE  /\ Place(q, m) \in Places /\ StringAt(q, Place(q, m)) = str
         /\ \A o \in Places, s2 \in Strings : Settled(p, o, s2) => o # Place(q, m)
<1>1. /\ PoolOK(q, f) /\ q.blocks # <<>> /\ Keeps(p, q)
      /\ q.ptr = q.start + m + Len(str) + 1
      /\ Holds(q.blocks[1].s, q.start + m, str)
  BY DEF StoredPool
<1>2. /\ q.start \in Nat /\ 1 \in 1 .. Len(q.blocks) /\ EndOf(q) = Len(q.blocks[1].s)
      /\ q.ptr <= EndOf(q) /\ q.blocks[1].id \in Nat
  BY <1>1, PoolIs, BlockIs
<1>3. PICK o : o = Place(q, m)
  OBVIOUS
<1>4. o \in Places /\ o.id = q.blocks[1].id /\ o.at = q.start + m
  BY <1>2, <1>3 DEF Place, Places
<1>5. Lies(q, o, str)
  BY <1>1, <1>2, <1>4 DEF Lies
<1>6. StringAt(q, o) = str
  BY <1>1, <1>4, <1>5, StringAtIs
<1>7. ASSUME NEW s2 \in Strings, Settled(p, o, s2) PROVE FALSE
  <2>1. Settled(q, o, s2)
    BY <1>1, <1>4, <1>7 DEF Keeps
  <2>2. PICK i \in 1 .. Len(q.blocks) :
          /\ q.blocks[i].id = o.id
          /\ o.at + Len(s2) + 1 <= (IF i = 1 THEN q.start ELSE Len(q.blocks[i].s))
    BY <2>1 DEF Settled
  <2>3. i = 1
    <3>1. \A j, k \in 1 .. Len(q.blocks) : q.blocks[j].id = q.blocks[k].id => j = k
      BY <1>1 DEF PoolOK, Apart
    <3> QED
      BY <1>2, <1>4, <2>2, <3>1
  <2>4. q.start + m + Len(s2) + 1 <= q.start
    BY <1>4, <2>2, <2>3
  <2>5. Len(s2) \in Nat
    BY StringLength
  <2> QED
    BY <1>2, <2>4, <2>5
<1> QED
  BY <1>3, <1>4, <1>6, <1>7

\* It is finished, or given up.
LEMMA FinishIs ==
  ASSUME NEW f, NEW p, NEW q, NEW m \in Nat, NEW str \in Strings, StoredPool(p, q, m, str, f)
  PROVE  /\ PoolOK(poolFinish(q), f) /\ poolFinish(q).start = poolFinish(q).ptr
         /\ Keeps(p, poolFinish(q)) /\ Keeps(q, poolFinish(q))
         /\ Settled(poolFinish(q), Place(q, m), str)
<1>1. /\ PoolOK(q, f) /\ q.blocks # <<>> /\ Keeps(p, q)
      /\ q.ptr = q.start + m + Len(str) + 1
      /\ Holds(q.blocks[1].s, q.start + m, str)
  BY DEF StoredPool
<1>2. /\ q.start \in Nat /\ 1 \in 1 .. Len(q.blocks) /\ q.ptr \in Nat /\ q.start <= q.ptr
      /\ q.ptr <= EndOf(q)
  BY <1>1, PoolIs
<1>3. PICK r : r = poolFinish(q)
  OBVIOUS
<1>4. /\ r.blocks = q.blocks /\ r.freeBlocks = q.freeBlocks /\ r.start = q.ptr /\ r.ptr = q.ptr
      /\ r.fresh = q.fresh /\ EndOf(r) = EndOf(q)
      /\ r \in [blocks : {q.blocks}, freeBlocks : {q.freeBlocks}, start : {q.ptr}, ptr : {q.ptr},
                fresh : {q.fresh}]
  <2>1. q = [blocks |-> q.blocks, freeBlocks |-> q.freeBlocks, start |-> q.start,
             ptr |-> q.ptr, fresh |-> q.fresh]
    BY <1>1, PoolIs
  <2>2. PICK b0, f0, s0, p0, h0 :
           /\ b0 = q.blocks /\ f0 = q.freeBlocks /\ s0 = q.start /\ p0 = q.ptr /\ h0 = q.fresh
           /\ q = [blocks |-> b0, freeBlocks |-> f0, start |-> s0, ptr |-> p0, fresh |-> h0]
    BY <2>1
  <2>3. r \in [blocks : {b0}, freeBlocks : {f0}, start : {p0}, ptr : {p0}, fresh : {h0}]
    BY ONLY <1>3, <2>2 DEF poolFinish
  <2>4. r.blocks = b0 /\ r.freeBlocks = f0 /\ r.start = p0 /\ r.ptr = p0 /\ r.fresh = h0
    BY ONLY <2>3
  <2>5. EndOf(r) = EndOf(q)
    BY <2>2, <2>4 DEF EndOf
  <2> QED
    BY <2>2, <2>3, <2>4, <2>5
<1>5. PoolOK(r, f)
  <2>1. PoolType(r, f)
    BY <1>1, <1>2, <1>4 DEF PoolOK, PoolType
  <2>2. Apart(r.blocks, r.freeBlocks, r.fresh)
    BY <1>1, <1>4 DEF PoolOK
  <2>3. r.start <= r.ptr /\ r.ptr <= EndOf(r)
    BY <1>2, <1>4
  <2> QED
    BY <2>1, <2>2, <2>3 DEF PoolOK
<1>6. Keeps(q, r)
  <2> SUFFICES ASSUME NEW o \in Places, NEW t \in Strings, Settled(q, o, t)
               PROVE  Settled(r, o, t)
    BY DEF Keeps
  <2>1. PICK i \in 1 .. Len(q.blocks) :
          /\ q.blocks[i].id = o.id
          /\ o.at + Len(t) + 1 <= (IF i = 1 THEN q.start ELSE Len(q.blocks[i].s))
          /\ Holds(q.blocks[i].s, o.at, t)
    BY DEF Settled
  <2>2. i = 1 => o.at + Len(t) + 1 <= q.ptr
    <3>1. o.at \in Nat /\ Len(t) \in Nat
      BY StringLength DEF Places
    <3>2. PICK a, e, w : a = o.at + Len(t) + 1 /\ e = q.start /\ w = q.ptr
      OBVIOUS
    <3>3. a \in Nat /\ e \in Nat /\ w \in Nat /\ e <= w /\ (i = 1 => a <= e)
      BY <3>1, <3>2, <1>2, <2>1
    <3> QED
      BY <3>2, <3>3
  <2> QED
    BY <1>4, <2>1, <2>2 DEF Settled
<1>7. Settled(r, Place(q, m), str)
  <2>1. Place(q, m).id = q.blocks[1].id /\ Place(q, m).at = q.start + m
    BY DEF Place
  <2> QED
    BY <1>1, <1>2, <1>4, <2>1 DEF Settled
<1>8. Keeps(p, r)
  BY <1>1, <1>6, KeepsOn
<1> QED
  BY <1>3, <1>4, <1>5, <1>6, <1>7, <1>8

LEMMA DiscardIs ==
  ASSUME NEW f, NEW p, NEW q, PoolOK(q, f), Keeps(p, q)
  PROVE  /\ PoolOK(poolDiscard(q), f) /\ poolDiscard(q).start = poolDiscard(q).ptr
         /\ Keeps(p, poolDiscard(q))
<1>1. /\ q.start \in Nat /\ q.ptr \in Nat /\ q.start <= q.ptr /\ q.ptr <= EndOf(q)
      /\ EndOf(q) \in Nat
  BY PoolIs
<1>2. PICK r : r = poolDiscard(q)
  OBVIOUS
<1>3. /\ r.blocks = q.blocks /\ r.freeBlocks = q.freeBlocks /\ r.start = q.start /\ r.ptr = q.start
      /\ r.fresh = q.fresh /\ EndOf(r) = EndOf(q)
      /\ r \in [blocks : {q.blocks}, freeBlocks : {q.freeBlocks}, start : {q.start},
                ptr : {q.start}, fresh : {q.fresh}]
  <2>1. q = [blocks |-> q.blocks, freeBlocks |-> q.freeBlocks, start |-> q.start,
             ptr |-> q.ptr, fresh |-> q.fresh]
    BY PoolIs
  <2>2. PICK b0, f0, s0, p0, h0 :
           /\ b0 = q.blocks /\ f0 = q.freeBlocks /\ s0 = q.start /\ p0 = q.ptr /\ h0 = q.fresh
           /\ q = [blocks |-> b0, freeBlocks |-> f0, start |-> s0, ptr |-> p0, fresh |-> h0]
    BY <2>1
  <2>3. r \in [blocks : {b0}, freeBlocks : {f0}, start : {s0}, ptr : {s0}, fresh : {h0}]
    BY ONLY <1>2, <2>2 DEF poolDiscard
  <2>4. r.blocks = b0 /\ r.freeBlocks = f0 /\ r.start = s0 /\ r.ptr = s0 /\ r.fresh = h0
    BY ONLY <2>3
  <2>5. EndOf(r) = EndOf(q)
    BY <2>2, <2>4 DEF EndOf
  <2> QED
    BY <2>2, <2>3, <2>4, <2>5
<1>4. PoolOK(r, f)
  <2>1. PoolType(r, f)
    BY <1>1, <1>3 DEF PoolOK, PoolType
  <2>2. Apart(r.blocks, r.freeBlocks, r.fresh)
    BY <1>3 DEF PoolOK
  <2>3. r.start <= r.ptr /\ r.ptr <= EndOf(r)
    BY <1>1, <1>3
  <2> QED
    BY <2>1, <2>2, <2>3 DEF PoolOK
<1>5. Keeps(q, r)
  BY <1>3 DEF Keeps, Settled
<1>6. Keeps(p, r)
  BY <1>5, KeepsOn
<1> QED
  BY <1>2, <1>3, <1>4, <1>6

LEMMA FirstPool ==
  ASSUME NEW f \in Nat
  PROVE  PoolOK(poolInit(f), f) /\ poolInit(f).start = poolInit(f).ptr
<1>1. PICK p : p = [blocks |-> <<>>, freeBlocks |-> <<>>, start |-> 0, ptr |-> 0, fresh |-> f]
  OBVIOUS
<1>2. poolInit(f) = p /\ EndOf(p) = 0
  BY <1>1 DEF poolInit, EndOf
<1>3. <<>> \in Seq(Blocks(f)) /\ f \in Owned(f) /\ Len(<<>>) = 0
  BY EmptySeq DEF Owned
<1>4. PoolType(p, f)
  BY <1>1, <1>3 DEF PoolType
<1>5. Apart(p.blocks, p.freeBlocks, p.fresh)
  BY <1>1, <1>3 DEF Apart
<1> QED
  BY <1>1, <1>2, <1>4, <1>5 DEF PoolOK

\* poolClear puts the blocks, the last one first, in front of those that are free.
LEMMA ReverseIs ==
  ASSUME NEW S, NEW s \in Seq(S)
  PROVE  /\ Reverse(s) \in Seq(S) /\ Len(Reverse(s)) = Len(s)
         /\ \A i \in 1 .. Len(s) : Reverse(s)[i] = s[Len(s) - i + 1]
<1>1. PICK n : n = Len(s) /\ n \in Nat /\ \A i \in 1 .. n : s[i] \in S
  BY LenProperties, ElementOfSeq
<1>2. PICK r : r = [i \in 1 .. n |-> s[(n - i) + 1]]
  OBVIOUS
<1>3. Reverse(s) = r
  BY <1>1, <1>2 DEF Reverse
<1>4. \A i \in 1 .. n : r[i] \in S
  <2> SUFFICES ASSUME NEW i \in 1 .. n PROVE r[i] \in S
    OBVIOUS
  <2>1. (n - i) + 1 \in 1 .. n
    BY <1>1
  <2> QED
    BY <1>1, <1>2, <2>1
<1>5. r \in Seq(S) /\ Len(r) = n
  <2>1. r = [i \in 1 .. n |-> r[i]]
    BY <1>2
  <2>2. r \in [1 .. n -> S]
    BY <1>4, <2>1
  <2> QED
    BY <1>1, <2>2, SeqDef, LenProperties
<1> QED
  BY <1>1, <1>2, <1>3, <1>5

LEMMA ApartFreed ==
  ASSUME NEW S, NEW blocks \in Seq(S), NEW free \in Seq(S), NEW fresh, Apart(blocks, free, fresh)
  PROVE  /\ Reverse(blocks) \o free \in Seq(S)
         /\ Apart(<<>>, Reverse(blocks) \o free, fresh)
         /\ Apart(<<>>, blocks, fresh)
<1>1. PICK n, l, w, r : /\ n = Len(blocks) /\ l = Len(free) /\ r = Reverse(blocks) /\ w = r \o free
                        /\ n \in Nat /\ l \in Nat
  BY LenProperties
<1>2. r \in Seq(S) /\ Len(r) = n /\ \A i \in 1 .. n : r[i] = blocks[n - i + 1]
  BY <1>1, ReverseIs
<1>3. /\ w \in Seq(S) /\ Len(w) = n + l
      /\ \A i \in 1 .. n + l : w[i] = IF i <= n THEN r[i] ELSE free[i - n]
  <2>1. /\ r \o free \in Seq(S)
        /\ Len(r \o free) = Len(r) + Len(free)
        /\ \A i \in 1 .. Len(r) + Len(free) :
              (r \o free)[i] = IF i <= Len(r) THEN r[i] ELSE free[i - Len(r)]
    BY <1>2, ConcatProperties
  <2>2. Len(r) = n /\ Len(free) = l /\ w = r \o free
    BY <1>1, <1>2
  <2> QED
    BY ONLY <2>1, <2>2
<1>4. /\ \A i \in 1 .. n : n - i + 1 \in 1 .. n /\ w[i] = blocks[n - i + 1]
      /\ \A i \in n + 1 .. n + l : i - n \in 1 .. l /\ w[i] = free[i - n]
  <2>1. ASSUME NEW i \in 1 .. n PROVE n - i + 1 \in 1 .. n /\ w[i] = blocks[n - i + 1]
    <3>1. i \in 1 .. n + l /\ i <= n /\ n - i + 1 \in 1 .. n
      BY <1>1
    <3> QED
      BY <1>2, <1>3, <3>1
  <2>2. ASSUME NEW i \in n + 1 .. n + l PROVE i - n \in 1 .. l /\ w[i] = free[i - n]
    <3>1. i \in 1 .. n + l /\ ~(i <= n) /\ i - n \in 1 .. l
      BY <1>1
    <3> QED
      BY <1>3, <3>1
  <2> QED
    BY <2>1, <2>2
<1> DEFINE InFront == {i \in 1 .. n + l : i <= n}
           Behind == {i \in 1 .. n + l : ~(i <= n)}
<1>5. \A i \in InFront : \E a \in 1 .. n : i = n - a + 1 /\ w[i] = blocks[a]
  <2> SUFFICES ASSUME NEW i \in InFront PROVE \E a \in 1 .. n : i = n - a + 1 /\ w[i] = blocks[a]
    OBVIOUS
  <2>1. PICK a : a = n - i + 1
    OBVIOUS
  <2>2. i \in 1 .. n /\ i = n - a + 1
    BY <1>1, <2>1
  <2> QED
    BY <1>4, <2>1, <2>2
<1>6. \A i \in Behind : \E a \in 1 .. l : i = n + a /\ w[i] = free[a]
  <2> SUFFICES ASSUME NEW i \in Behind PROVE \E a \in 1 .. l : i = n + a /\ w[i] = free[a]
    OBVIOUS
  <2>1. PICK a : a = i - n
    OBVIOUS
  <2>2. i \in n + 1 .. n + l /\ i = n + a
    BY <1>1, <2>1
  <2> QED
    BY <1>4, <2>1, <2>2
<1>7. \A i \in 1 .. n + l : i \in InFront \/ i \in Behind
  OBVIOUS
<1>8. /\ \A a \in 1 .. n : blocks[a].id < fresh
      /\ \A a \in 1 .. l : free[a].id < fresh
      /\ \A a, b \in 1 .. n : blocks[a].id = blocks[b].id => a = b
      /\ \A a, b \in 1 .. l : free[a].id = free[b].id => a = b
      /\ \A a \in 1 .. n, b \in 1 .. l : blocks[a].id # free[b].id
  BY <1>1 DEF Apart
<1> HIDE DEF InFront, Behind
<1>9. \A i \in 1 .. n + l : w[i].id < fresh
  BY <1>5, <1>6, <1>7, <1>8
<1>10. ASSUME NEW i \in 1 .. n + l, NEW j \in 1 .. n + l, w[i].id = w[j].id PROVE i = j
  <2>1. CASE i \in InFront /\ j \in InFront
    BY <1>10, <1>5, <1>8, <2>1
  <2>2. CASE i \in Behind /\ j \in Behind
    BY <1>10, <1>6, <1>8, <2>2
  <2>3. CASE i \in InFront /\ j \in Behind
    BY <1>10, <1>5, <1>6, <1>8, <2>3
  <2>4. CASE i \in Behind /\ j \in InFront
    BY <1>10, <1>5, <1>6, <1>8, <2>4
  <2> QED
    BY <1>7, <2>1, <2>2, <2>3, <2>4
<1>11. Len(<<>>) = 0
  BY EmptySeq
<1>12. Apart(<<>>, w, fresh)
  BY <1>3, <1>9, <1>10, <1>11 DEF Apart
<1>13. Apart(<<>>, blocks, fresh)
  BY <1>11 DEF Apart
<1> QED
  BY <1>1, <1>3, <1>12, <1>13

LEMMA ClearIs ==
  ASSUME NEW f, NEW p, PoolOK(p, f)
  PROVE  PoolOK(poolClear(p), f) /\ poolClear(p).start = poolClear(p).ptr
<1>1. PICK b0, f0, s0, p0, h0, w :
        /\ b0 = p.blocks /\ f0 = p.freeBlocks /\ s0 = p.start /\ p0 = p.ptr /\ h0 = p.fresh
        /\ p = [blocks |-> b0, freeBlocks |-> f0, start |-> s0, ptr |-> p0, fresh |-> h0]
        /\ w = (IF f0 = <<>> THEN b0 ELSE Reverse(b0) \o f0)
  <2>1. p = [blocks |-> p.blocks, freeBlocks |-> p.freeBlocks, start |-> p.start,
             ptr |-> p.ptr, fresh |-> p.fresh]
    BY PoolIs
  <2> QED
    BY <2>1
<1>2. b0 \in Seq(Blocks(f)) /\ f0 \in Seq(Blocks(f)) /\ h0 \in Owned(f) /\ Apart(b0, f0, h0)
  BY <1>1, PoolIs DEF PoolOK
<1>3. w \in Seq(Blocks(f)) /\ Apart(<<>>, w, h0)
  BY <1>1, <1>2, ApartFreed
<1>4. PICK r : r = poolClear(p)
  OBVIOUS
<1>5. r \in [blocks : {<<>>}, freeBlocks : {w}, start : {0}, ptr : {0}, fresh : {h0}]
  BY ONLY <1>1, <1>4 DEF poolClear
<1>6. r.blocks = <<>> /\ r.freeBlocks = w /\ r.start = 0 /\ r.ptr = 0 /\ r.fresh = h0
  BY ONLY <1>5
<1>7. EndOf(r) = 0 /\ <<>> \in Seq(Blocks(f))
  BY <1>6, EmptySeq DEF EndOf
<1>8. PoolType(r, f)
  <2>1. PICK B, O : B = Seq(Blocks(f)) /\ O = Owned(f)
    OBVIOUS
  <2>2. <<>> \in B /\ w \in B /\ h0 \in O /\ 0 \in Nat
    BY <1>2, <1>3, <1>7, <2>1
  <2>3. r \in [blocks : B, freeBlocks : B, start : Nat, ptr : Nat, fresh : O]
    BY ONLY <1>5, <2>2
  <2> QED
    BY <2>1, <2>3 DEF PoolType
<1> QED
  BY <1>3, <1>4, <1>6, <1>7, <1>8 DEF PoolOK

-----------------------------------------------------------------------------
(* Names and values                                                        *)

\* A table knows the names, and the names are finished strings of a pool.
Known(t, names, p) ==
  \E X : /\ TableOK(t, names, X)
         /\ \A q \in Pointers(t) : q \in Places /\ X[q] \in Strings /\ Settled(p, q, X[q])

LEMMA KnownStays ==
  ASSUME NEW t, NEW names, NEW p, NEW q, Known(t, names, p), Keeps(p, q)
  PROVE  Known(t, names, q)
BY DEF Known, Keeps

LEMMA KnownTexts ==
  ASSUME NEW f, NEW p, NEW t, NEW names, PoolOK(p, f), Known(t, names, p), NEW o, NEW str
  PROVE  /\ TableOK(t, names, [TextsIn(p, t, o) EXCEPT ![o] = str]) \/ o \in Pointers(t)
         /\ TableOK(t, names, TextsIn(p, t, o))
<1>1. PICK X : /\ TableOK(t, names, X)
               /\ \A q \in Pointers(t) : q \in Places /\ X[q] \in Strings /\ Settled(p, q, X[q])
  BY DEF Known
<1>2. \A q \in Pointers(t) : StringAt(p, q) = X[q]
  BY <1>1, SettledLies, StringAtIs
<1>3. PICK Y : Y = TextsIn(p, t, o)
  OBVIOUS
<1>4. /\ DOMAIN Y = Pointers(t) \cup {o}
      /\ \A q \in Pointers(t) : Y[q] = X[q]
  BY <1>2, <1>3 DEF TextsIn
<1>5. TableOK(t, names, Y)
  BY <1>1, <1>4, TableOKSame
<1>6. ASSUME o \notin Pointers(t) PROVE TableOK(t, names, [Y EXCEPT ![o] = str])
  <2>1. \A q \in Pointers(t) : [Y EXCEPT ![o] = str][q] = X[q]
    BY <1>4, <1>6
  <2> QED
    BY <1>1, <2>1, TableOKSame
<1> QED
  BY <1>3, <1>5, <1>6

\* q has the name, and s is what becomes of it when a table has been asked.
Asked(f, p, q, m, name, t, names, o, r, s) ==
  /\ m \in Nat /\ name \in Strings /\ StoredPool(p, q, m, name, f)
  /\ Known(t, names, p)
  /\ o = Place(q, m) /\ r = lookup(t, o, TRUE, TextsIn(q, t, o))
  /\ Keeps(q, s)
  /\ r.found = o => Settled(s, o, name)

\* lookup adds a name that has been written, unless the table has it already.
LEMMA NameIsAdded ==
  ASSUME NEW f, NEW p, NEW q, NEW m, NEW name, NEW t, NEW names, NEW o, NEW r, NEW s,
         Asked(f, p, q, m, name, t, names, o, r, s)
  PROVE  Known(r.table, names \cup {name}, s)
<1>1. /\ m \in Nat /\ name \in Strings /\ StoredPool(p, q, m, name, f)
      /\ Known(t, names, p)
      /\ o = Place(q, m) /\ r = lookup(t, o, TRUE, TextsIn(q, t, o))
      /\ Keeps(q, s)
      /\ r.found = o => Settled(s, o, name)
  BY DEF Asked
<1>2. PoolOK(q, f) /\ Keeps(p, q)
  BY <1>1 DEF StoredPool
<1>3. Known(t, names, q)
  BY <1>1, <1>2, KnownStays
<1>4. PICK X : X = TextsIn(q, t, o)
  OBVIOUS
<1>5. TableOK(t, names, X)
  BY <1>2, <1>3, <1>4, KnownTexts
<1>6. \A k \in Pointers(t) : /\ k \in Places /\ X[k] \in Strings /\ Settled(q, k, X[k])
                             /\ \E str \in Strings : Settled(p, k, str)
  <2>1. PICK Z : /\ TableOK(t, names, Z)
                 /\ \A k \in Pointers(t) : k \in Places /\ Z[k] \in Strings /\ Settled(p, k, Z[k])
    BY <1>1 DEF Known
  <2>2. \A k \in Pointers(t) : Settled(q, k, Z[k])
    BY <1>2, <2>1 DEF Keeps
  <2>3. \A k \in Pointers(t) : StringAt(q, k) = Z[k]
    BY <1>2, <2>1, <2>2, SettledLies, StringAtIs
  <2>4. \A k \in Pointers(t) : X[k] = Z[k]
    BY <1>4, <2>3 DEF TextsIn
  <2> QED
    BY <2>1, <2>2, <2>4
<1>7. o \in Places /\ o \notin Pointers(t) /\ X[o] = name /\ DOMAIN X = Pointers(t) \cup {o}
  <2>1. /\ o \in Places /\ StringAt(q, o) = name
        /\ \A k \in Places, s2 \in Strings : Settled(p, k, s2) => k # o
    BY <1>1, StoredLies
  <2>2. o \notin Pointers(t)
    BY <1>6, <2>1
  <2> QED
    BY <1>4, <2>1, <2>2 DEF TextsIn
<1>8. PICK c \in BOOLEAN : c = TRUE /\ r = lookup(t, o, c, X)
  BY <1>1, <1>4
<1>9. X[o] \in Strings
  BY <1>1, <1>7
<1>10. /\ X[o] \in names => r.table = t /\ r.found \in Pointers(t)
       /\ X[o] \notin names /\ ~ c => r.table = t /\ r.found = Empty
       /\ X[o] \notin names /\ c =>
              /\ r.found = o
              /\ TableOK(r.table, names \cup {X[o]}, X)
              /\ Pointers(r.table) = Pointers(t) \cup {o}
  <2>1. o \in Places
    BY <1>7
  <2>2. o \notin Pointers(t)
    BY <1>7
  <2>3. DOMAIN X = Pointers(t) \cup {o}
    BY <1>7
  <2>4. r = lookup(t, o, c, X)
    BY <1>8
  <2> QED
    BY ONLY <1>5, <1>9, <2>1, <2>2, <2>3, <2>4, c \in BOOLEAN, LookupIs
<1>11. \A k \in Pointers(t) : Settled(s, k, X[k])
  BY <1>1, <1>6 DEF Keeps
<1>12. CASE X[o] \in names
  <2>1. r.table = t /\ names \cup {name} = names
    BY <1>7, <1>8, <1>12, <1>10
  <2> QED
    BY <1>5, <1>6, <1>11, <2>1 DEF Known
<1>13. CASE X[o] \notin names
  <2>1. /\ r.found = o
        /\ TableOK(r.table, names \cup {name}, X)
        /\ Pointers(r.table) = Pointers(t) \cup {o}
    BY <1>7, <1>8, <1>13, <1>10
  <2>2. \A k \in Pointers(r.table) : k \in Places /\ X[k] \in Strings /\ Settled(s, k, X[k])
    BY <1>1, <1>6, <1>7, <1>11, <2>1
  <2> QED
    BY <2>1, <2>2 DEF Known
<1> QED
  BY <1>12, <1>13

\* A name of tempPool is no pointer of a table; what lookup finds is a name of it.
LEMMA NameIsAsked ==
  ASSUME NEW p, PoolOK(p, 1), NEW t, NEW names, Known(t, names, p),
         NEW o \in Places, o.id \in Owned(2), NEW name \in Strings,
         NEW r, r = lookup(t, o, FALSE, [TextsIn(p, t, o) EXCEPT ![o] = name]), r.found # Empty
  PROVE  name \in names
<1>1. o \notin Pointers(t)
  <2> SUFFICES ASSUME o \in Pointers(t) PROVE FALSE
    OBVIOUS
  <2>1. PICK str \in Strings : Settled(p, o, str)
    BY DEF Known
  <2>2. PICK i \in 1 .. Len(p.blocks) : p.blocks[i].id = o.id
    BY <2>1 DEF Settled
  <2>3. o.id \in Owned(1)
    BY <2>2, PoolIs, BlockIs
  <2> QED
    BY <2>3 DEF Owned
<1>2. PICK X : X = [TextsIn(p, t, o) EXCEPT ![o] = name]
  OBVIOUS
<1>3. TableOK(t, names, X)
  BY <1>1, <1>2, KnownTexts
<1>4. X[o] = name /\ DOMAIN X = Pointers(t) \cup {o} /\ X[o] \in Strings
  BY <1>2 DEF TextsIn
<1>5. PICK c \in BOOLEAN : c = FALSE
  OBVIOUS
<1>6. r = lookup(t, o, c, X)
  BY <1>2, <1>5
<1>7. /\ X[o] \in names => r.table = t /\ r.found \in Pointers(t)
      /\ X[o] \notin names /\ ~ c => r.table = t /\ r.found = Empty
      /\ X[o] \notin names /\ c =>
             /\ r.found = o
             /\ TableOK(r.table, names \cup {X[o]}, X)
             /\ Pointers(r.table) = Pointers(t) \cup {o}
  <2>1. DOMAIN X = Pointers(t) \cup {o} /\ X[o] \in Strings
    BY <1>4
  <2> QED
    BY ONLY <1>1, <1>3, <1>6, <2>1, o \in Places, c \in BOOLEAN, LookupIs
<1> QED
  BY <1>4, <1>5, <1>7

\* Strings that are kept
AllSettled(vals, p) ==
  /\ vals \in Seq([at : Places, text : Strings])
  /\ \A i \in 1 .. Len(vals) : Settled(p, vals[i].at, vals[i].text)

LEMMA KeptStays ==
  ASSUME NEW vals, NEW p, NEW q, AllSettled(vals, p), Keeps(p, q)
  PROVE  AllSettled(vals, q)
<1>1. \A i \in 1 .. Len(vals) : vals[i].at \in Places /\ vals[i].text \in Strings
  <2>1. \A i \in 1 .. Len(vals) : vals[i] \in [at : Places, text : Strings]
    BY ElementOfSeq DEF AllSettled
  <2> QED
    BY ONLY <2>1
<1> QED
  BY <1>1 DEF AllSettled, Keeps

LEMMA OneMoreKept ==
  ASSUME NEW vals, NEW p, AllSettled(vals, p), NEW o \in Places, NEW str \in Strings, Settled(p, o, str)
  PROVE  AllSettled(Append(vals, [at |-> o, text |-> str]), p)
<1>1. PICK e, w, n : e = [at |-> o, text |-> str] /\ w = Append(vals, e) /\ n = Len(vals)
  OBVIOUS
<1>2. e \in [at : Places, text : Strings] /\ e.at = o /\ e.text = str
  BY <1>1
<1>3. /\ w \in Seq([at : Places, text : Strings]) /\ Len(w) = n + 1 /\ w[n + 1] = e /\ n \in Nat
      /\ \A i \in 1 .. n : w[i] = vals[i]
  BY <1>1, <1>2, AppendProperties, LenProperties DEF AllSettled
<1>4. ASSUME NEW i \in 1 .. Len(w) PROVE Settled(p, w[i].at, w[i].text)
  <2>1. i = n + 1 \/ i \in 1 .. n
    BY <1>3
  <2> QED
    BY <1>1, <1>2, <1>3, <2>1 DEF AllSettled
<1> QED
  BY <1>1, <1>3, <1>4 DEF AllSettled

\* A pool in which nothing is being written
Idle(p, f) == PoolOK(p, f) /\ p.start = p.ptr

DTDInv ==
  /\ Idle(pool, 1) /\ Idle(tempPool, 2)
  /\ Known(elementTypes, types, pool) /\ Known(attributeIds, ids, pool)
  /\ AllSettled(values, pool) /\ AllSettled(tagValues, tempPool)

LEMMA DTDStart == DTDInit => DTDInv
<1> SUFFICES ASSUME DTDInit PROVE DTDInv
  OBVIOUS
<1>1. Idle(pool, 1) /\ Idle(tempPool, 2)
  BY FirstPool DEF DTDInit, Idle
<1>2. TableOK(hashTableInit, {}, <<>>) /\ Pointers(hashTableInit) = {}
  BY NewTable
<1>3. Known(elementTypes, types, pool) /\ Known(attributeIds, ids, pool)
  BY <1>2 DEF DTDInit, Known
<1>4. <<>> \in Seq([at : Places, text : Strings]) /\ Len(<<>>) = 0
  BY EmptySeq
<1>5. AllSettled(values, pool) /\ AllSettled(tagValues, tempPool)
  BY <1>4 DEF DTDInit, AllSettled
<1> QED
  BY <1>1, <1>3, <1>5 DEF DTDInv

\* What poolStoreString does to a pool that is idle
LEMMA StoreInIdle ==
  ASSUME NEW f \in Nat, NEW p, Idle(p, f), NEW str \in Strings, NEW q, q = poolStoreString(p, str)
  PROVE  StoredPool(p, q, 0, str, f) /\ poolStart(q) = Place(q, 0)
<1>1. PoolOK(p, f) /\ 0 \in Nat /\ p.ptr = p.start + 0
  BY PoolIs DEF Idle
<1>2. StoredPool(p, q, 0, str, f)
  BY <1>1, StoreIs
<1>3. q.start \in Nat
  BY <1>2, PoolIs DEF StoredPool
<1> QED
  BY <1>2, <1>3 DEF poolStart, Place

LEMMA CopyInIdle ==
  ASSUME NEW f \in Nat, NEW p, Idle(p, f), NEW str \in Strings,
         NEW q, q = poolAppendString(p, Append(str, NUL))
  PROVE  StoredPool(p, q, 0, str, f) /\ poolStart(q) = Place(q, 0)
<1>1. PoolOK(p, f) /\ 0 \in Nat /\ p.ptr = p.start + 0
  BY PoolIs DEF Idle
<1>2. StoredPool(p, q, 0, str, f)
  BY <1>1, StringIsWritten DEF poolAppendString
<1>3. q.start \in Nat
  BY <1>2, PoolIs DEF StoredPool
<1> QED
  BY <1>2, <1>3 DEF poolStart, Place

\* The same behind the mark of storeAtts
LEMMA StoreBehindMark ==
  ASSUME NEW f \in Nat, NEW p, Idle(p, f), NEW str \in Strings,
         NEW q, q = poolStoreString(poolAppendChar(p, NUL), str)
  PROVE  StoredPool(p, q, 1, str, f) /\ [poolStart(q) EXCEPT !.at = @ + 1] = Place(q, 1)
<1>1. PICK r : r = poolAppendChar(p, NUL)
  OBVIOUS
<1>2. PoolOK(p, f) /\ Open(p, <<NUL>>, 0) /\ NUL \in CellSet /\ <<NUL>>[0 + 1] = NUL
  BY PoolIs DEF Idle, Open, CellSet
<1>3. WrittenPool(p, r, NUL, f)
  BY <1>1, <1>2, AppendIs
<1>4. PoolOK(r, f) /\ Keeps(p, r) /\ Open(r, <<NUL>>, 0 + 1)
  BY <1>2, <1>3 DEF WrittenPool
<1>5. 1 \in Nat /\ r.ptr = r.start + 1
  BY <1>4 DEF Open
<1>6. StoredPool(r, q, 1, str, f)
  BY <1>1, <1>4, <1>5, StoreIs
<1>7. StoredPool(p, q, 1, str, f)
  BY <1>4, <1>6, KeepsOn DEF StoredPool
<1> QED
  BY <1>7 DEF poolStart, Place

\* What becomes of the pool when a name has been looked up
LEMMA SettledPoolIs ==
  ASSUME NEW f, NEW p, NEW q, NEW m \in Nat, NEW str \in Strings, StoredPool(p, q, m, str, f),
         NEW o, o = Place(q, m), NEW found, NEW s, s = SettledPool(q, o, found)
  PROVE  /\ Idle(s, f) /\ Keeps(p, s) /\ Keeps(q, s)
         /\ found = o => Settled(s, o, str)
<1>1. CASE found = o
  BY <1>1, FinishIs DEF SettledPool, Idle
<1>2. CASE found # o
  <2>1. PoolOK(q, f) /\ Keeps(p, q) /\ Keeps(q, q)
    BY DEF StoredPool, Keeps
  <2> QED
    BY <1>2, <2>1, DiscardIs DEF SettledPool, Idle
<1> QED
  BY <1>1, <1>2

LEMMA ElementTypeGot ==
  ASSUME DTDInv, NEW name \in Strings, getElementType(name)
  PROVE  DTDInv'
<1>1. PICK p, o, r : /\ p = poolStoreString(pool, name) /\ o = poolStart(p)
                     /\ r = lookup(elementTypes, o, TRUE, TextsIn(p, elementTypes, o))
  OBVIOUS
<1>2. /\ pool' = SettledPool(p, o, r.found) /\ elementTypes' = r.table /\ types' = types \cup {name}
      /\ UNCHANGED <<attributeIds, ids, values, tempPool, tagValues>>
  BY <1>1 DEF getElementType, temp
<1>3. /\ Idle(pool, 1) /\ Idle(tempPool, 2)
      /\ Known(elementTypes, types, pool) /\ Known(attributeIds, ids, pool)
      /\ AllSettled(values, pool) /\ AllSettled(tagValues, tempPool)
  BY DEF DTDInv
<1>4. StoredPool(pool, p, 0, name, 1) /\ o = Place(p, 0)
  BY <1>1, <1>3, StoreInIdle
<1>5. /\ Idle(pool', 1) /\ Keeps(pool, pool') /\ Keeps(p, pool')
      /\ r.found = o => Settled(pool', o, name)
  BY <1>2, <1>4, SettledPoolIs
<1>6. Known(elementTypes', types', pool')
  <2>1. PICK s : s = pool'
    OBVIOUS
  <2>2. /\ StoredPool(pool, p, 0, name, 1) /\ 0 \in Nat
        /\ Known(elementTypes, types, pool)
        /\ o = Place(p, 0)
        /\ r = lookup(elementTypes, o, TRUE, TextsIn(p, elementTypes, o))
        /\ Keeps(p, s)
        /\ r.found = o => Settled(s, o, name)
    BY <1>1, <1>2, <1>3, <1>4, <1>5, <2>1
  <2>3. Known(r.table, types \cup {name}, s)
    <3>1. Asked(1, pool, p, 0, name, elementTypes, types, o, r, s)
      BY ONLY <2>2, name \in Strings DEF Asked
    <3> QED
      BY ONLY <3>1, NameIsAdded
  <2> QED
    BY <1>1, <1>2, <1>3, <1>4, <1>5, <2>1, <2>3
<1>7. Known(attributeIds', ids', pool') /\ AllSettled(values', pool') /\ AllSettled(tagValues', tempPool')
  BY <1>2, <1>3, <1>5, KnownStays, KeptStays
<1> QED
  BY <1>2, <1>3, <1>5, <1>6, <1>7 DEF DTDInv

LEMMA AttributeIdGot ==
  ASSUME DTDInv, NEW name \in Strings, getAttributeId(name)
  PROVE  DTDInv'
<1>1. PICK p, o, r : /\ p = poolStoreString(poolAppendChar(pool, NUL), name)
                     /\ o = [poolStart(p) EXCEPT !.at = @ + 1]
                     /\ r = lookup(attributeIds, o, TRUE, TextsIn(p, attributeIds, o))
  OBVIOUS
<1>2. /\ pool' = SettledPool(p, o, r.found) /\ attributeIds' = r.table /\ ids' = ids \cup {name}
      /\ UNCHANGED <<elementTypes, types, values, tempPool, tagValues>>
  BY <1>1 DEF getAttributeId, temp
<1>3. /\ Idle(pool, 1) /\ Idle(tempPool, 2)
      /\ Known(elementTypes, types, pool) /\ Known(attributeIds, ids, pool)
      /\ AllSettled(values, pool) /\ AllSettled(tagValues, tempPool)
  BY DEF DTDInv
<1>4. StoredPool(pool, p, 1, name, 1) /\ o = Place(p, 1)
  BY <1>1, <1>3, StoreBehindMark
<1>5. /\ Idle(pool', 1) /\ Keeps(pool, pool') /\ Keeps(p, pool')
      /\ r.found = o => Settled(pool', o, name)
  BY <1>2, <1>4, SettledPoolIs
<1>6. Known(attributeIds', ids', pool')
  <2>1. PICK s : s = pool'
    OBVIOUS
  <2>2. /\ StoredPool(pool, p, 1, name, 1) /\ 1 \in Nat
        /\ Known(attributeIds, ids, pool)
        /\ o = Place(p, 1)
        /\ r = lookup(attributeIds, o, TRUE, TextsIn(p, attributeIds, o))
        /\ Keeps(p, s)
        /\ r.found = o => Settled(s, o, name)
    BY <1>1, <1>2, <1>3, <1>4, <1>5, <2>1
  <2>3. Known(r.table, ids \cup {name}, s)
    <3>1. Asked(1, pool, p, 1, name, attributeIds, ids, o, r, s)
      BY ONLY <2>2, name \in Strings DEF Asked
    <3> QED
      BY ONLY <3>1, NameIsAdded
  <2> QED
    BY <1>1, <1>2, <1>3, <1>4, <1>5, <2>1, <2>3
<1>7. Known(elementTypes', types', pool') /\ AllSettled(values', pool') /\ AllSettled(tagValues', tempPool')
  BY <1>2, <1>3, <1>5, KnownStays, KeptStays
<1> QED
  BY <1>2, <1>3, <1>5, <1>6, <1>7 DEF DTDInv

\* A value goes to a pool and is finished.
LEMMA ValueIsKept ==
  ASSUME NEW f \in Nat, NEW p, Idle(p, f), NEW str \in Strings, NEW q, q = poolStoreString(p, str),
         NEW s, s = poolFinish(q), NEW vals, AllSettled(vals, p)
  PROVE  /\ Idle(s, f) /\ Keeps(p, s)
         /\ AllSettled(Append(vals, [at |-> poolStart(q), text |-> str]), s)
<1>1. StoredPool(p, q, 0, str, f) /\ poolStart(q) = Place(q, 0)
  BY StoreInIdle
<1>2. PoolOK(s, f) /\ s.start = s.ptr /\ Keeps(p, s) /\ Settled(s, Place(q, 0), str)
  BY <1>1, FinishIs
<1>3. Place(q, 0) \in Places
  BY <1>1, StoredLies
<1>4. AllSettled(vals, s)
  BY <1>2, KeptStays
<1>5. AllSettled(Append(vals, [at |-> Place(q, 0), text |-> str]), s)
  BY <1>2, <1>3, <1>4, OneMoreKept
<1> QED
  BY <1>1, <1>2, <1>5 DEF Idle

LEMMA TagTyped ==
  ASSUME DTDInv, NEW name \in Strings, typeOfTag(name)
  PROVE  DTDInv'
<1>1. PICK p, o, asked, copy, c, new :
         /\ p = poolStoreString(tempPool, name) /\ o = poolStart(p)
         /\ asked = lookup(elementTypes, o, FALSE, [TextsIn(pool, elementTypes, o) EXCEPT ![o] = name])
         /\ copy = poolAppendString(pool, Append(name, NUL)) /\ c = poolStart(copy)
         /\ new = lookup(elementTypes, c, TRUE, TextsIn(copy, elementTypes, c))
  OBVIOUS
<1>2. /\ tempPool' = poolFinish(p)
      /\ tagValues' = Append(tagValues, [at |-> o, text |-> name])
      /\ types' = types \cup {name}
      /\ UNCHANGED <<attributeIds, ids, values>>
      /\ asked.found # Empty => UNCHANGED <<pool, elementTypes>>
      /\ asked.found = Empty => pool' = poolFinish(copy) /\ elementTypes' = new.table
  BY <1>1 DEF typeOfTag
<1>3. /\ Idle(pool, 1) /\ Idle(tempPool, 2)
      /\ Known(elementTypes, types, pool) /\ Known(attributeIds, ids, pool)
      /\ AllSettled(values, pool) /\ AllSettled(tagValues, tempPool)
  BY DEF DTDInv
<1>4. Idle(tempPool', 2) /\ AllSettled(tagValues', tempPool')
  BY <1>1, <1>2, <1>3, ValueIsKept
<1>5. CASE asked.found # Empty
  <2>1. StoredPool(tempPool, p, 0, name, 2) /\ o = Place(p, 0)
    BY <1>1, <1>3, StoreInIdle
  <2>2. o \in Places
    BY <2>1, StoredLies
  <2>3. o.id \in Owned(2)
    <3>1. 1 \in 1 .. Len(p.blocks) /\ p.blocks[1] \in Blocks(2)
      BY <2>1, PoolIs DEF StoredPool
    <3> QED
      BY <2>1, <3>1, BlockIs DEF Place
  <2>4. PoolOK(pool, 1)
    BY <1>3 DEF Idle
  <2>5. name \in types
    BY <1>1, <1>3, <1>5, <2>2, <2>3, <2>4, NameIsAsked
  <2>6. types' = types
    BY <1>2, <2>5
  <2> QED
    BY <1>2, <1>3, <1>4, <1>5, <2>6 DEF DTDInv
<1>6. CASE asked.found = Empty
  <2>1. StoredPool(pool, copy, 0, name, 1) /\ c = Place(copy, 0)
    BY <1>1, <1>3, CopyInIdle
  <2>2. /\ PoolOK(pool', 1) /\ pool'.start = pool'.ptr /\ Keeps(pool, pool')
        /\ Keeps(copy, pool') /\ Settled(pool', c, name)
    BY <1>2, <1>6, <2>1, FinishIs
  <2>3. Known(elementTypes', types', pool')
    <3>1. PICK s : s = pool'
      OBVIOUS
    <3>2. /\ StoredPool(pool, copy, 0, name, 1) /\ 0 \in Nat
          /\ Known(elementTypes, types, pool)
          /\ c = Place(copy, 0)
          /\ new = lookup(elementTypes, c, TRUE, TextsIn(copy, elementTypes, c))
          /\ Keeps(copy, s)
          /\ new.found = c => Settled(s, c, name)
      BY <1>1, <1>2, <1>3, <1>6, <2>1, <2>2, <3>1
    <3>3. Known(new.table, types \cup {name}, s)
      <4>1. Asked(1, pool, copy, 0, name, elementTypes, types, c, new, s)
        BY ONLY <3>2, name \in Strings DEF Asked
      <4> QED
        BY ONLY <4>1, NameIsAdded
    <3> QED
      BY <1>1, <1>2, <1>3, <1>6, <2>1, <2>2, <3>1, <3>3
  <2>4. Known(attributeIds', ids', pool') /\ AllSettled(values', pool')
    BY <1>2, <1>3, <2>2, KnownStays, KeptStays
  <2> QED
    BY <1>4, <2>2, <2>3, <2>4 DEF DTDInv, Idle
<1> QED
  BY <1>5, <1>6

LEMMA ValueKept ==
  ASSUME DTDInv, NEW str \in Strings, keepValue(str)
  PROVE  DTDInv'
<1>1. PICK p : p = poolStoreString(pool, str)
  OBVIOUS
<1>2. /\ pool' = poolFinish(p) /\ values' = Append(values, [at |-> poolStart(p), text |-> str])
      /\ UNCHANGED <<elementTypes, attributeIds, types, ids, tempPool, tagValues>>
  BY <1>1 DEF keepValue, tables, temp
<1>3. /\ Idle(pool, 1) /\ Idle(tempPool, 2)
      /\ Known(elementTypes, types, pool) /\ Known(attributeIds, ids, pool)
      /\ AllSettled(values, pool) /\ AllSettled(tagValues, tempPool)
  BY DEF DTDInv
<1>4. Idle(pool', 1) /\ Keeps(pool, pool') /\ AllSettled(values', pool')
  BY <1>1, <1>2, <1>3, ValueIsKept
<1>5. Known(elementTypes', types', pool') /\ Known(attributeIds', ids', pool')
  BY <1>2, <1>3, <1>4, KnownStays
<1> QED
  BY <1>2, <1>3, <1>4, <1>5 DEF DTDInv

LEMMA ValueStored ==
  ASSUME DTDInv, NEW str \in Strings, storeValue(str)
  PROVE  DTDInv'
<1>1. PICK p : p = poolStoreString(tempPool, str)
  OBVIOUS
<1>2. /\ tempPool' = poolFinish(p)
      /\ tagValues' = Append(tagValues, [at |-> poolStart(p), text |-> str])
      /\ UNCHANGED <<pool, elementTypes, attributeIds, types, ids, values>>
  BY <1>1 DEF storeValue, tables
<1>3. Idle(tempPool, 2) /\ AllSettled(tagValues, tempPool)
  BY DEF DTDInv
<1>4. Idle(tempPool', 2) /\ AllSettled(tagValues', tempPool')
  BY <1>1, <1>2, <1>3, ValueIsKept
<1> QED
  BY <1>2, <1>4 DEF DTDInv

LEMMA TagEnded ==
  ASSUME DTDInv, endTag
  PROVE  DTDInv'
<1>1. /\ tempPool' = poolClear(tempPool) /\ tagValues' = <<>>
      /\ UNCHANGED <<pool, elementTypes, attributeIds, types, ids, values>>
  BY DEF endTag, tables
<1>2. Idle(tempPool', 2)
  BY <1>1, ClearIs DEF DTDInv, Idle
<1>3. <<>> \in Seq([at : Places, text : Strings]) /\ Len(<<>>) = 0
  BY EmptySeq
<1>4. AllSettled(tagValues', tempPool')
  BY <1>1, <1>3 DEF AllSettled
<1> QED
  BY <1>1, <1>2, <1>4 DEF DTDInv

LEMMA DTDStep == DTDInv /\ [DTDNext]_dtdVars => DTDInv'
<1> SUFFICES ASSUME DTDInv, [DTDNext]_dtdVars PROVE DTDInv'
  OBVIOUS
<1>1. CASE UNCHANGED dtdVars
  BY <1>1 DEF dtdVars, DTDInv, Idle, Known, AllSettled
<1>2. CASE DTDNext
  BY <1>2, ElementTypeGot, AttributeIdGot, TagTyped, ValueKept, ValueStored, TagEnded DEF DTDNext
<1> QED
  BY <1>1, <1>2

LEMMA DTDInvHolds == DTDSpec => []DTDInv
BY DTDStart, DTDStep, PTL DEF DTDSpec

LEMMA KnownIsFound ==
  ASSUME Idle(pool, 1), NEW t, NEW names, Known(t, names, pool)
  PROVE  Finds(t, names)
<1>1. PICK X : /\ TableOK(t, names, X)
               /\ \A q \in Pointers(t) : q \in Places /\ X[q] \in Strings /\ Settled(pool, q, X[q])
  BY DEF Known
<1>2. \A q \in Pointers(t) : StringAt(pool, q) = X[q]
  <2>1. PoolOK(pool, 1)
    BY DEF Idle
  <2> QED
    BY <1>1, <2>1, SettledLies, StringAtIs
<1>3. {StringAt(pool, q) : q \in Pointers(t)} = names
  BY <1>1, <1>2 DEF TableOK
<1>4. t.used = Cardinality(names) /\ Cardinality(UsedSlots(t)) = Cardinality(names)
  BY <1>1 DEF TableOK, TableType
<1>5. t.size # 0 => t.used < t.size
  BY <1>1, TableNumbers DEF TableOK
<1>6. ASSUME t.size # 0, NEW s \in Strings, NEW P, P = {q \in Pointers(t) : StringAt(pool, q) = s}
      PROVE  (t.v[Probe(t.v, t.size, hash(s), P)] # Empty) = (s \in names)
  <2>1. \A q \in Pointers(t) : q \in P <=> X[q] = s
    BY <1>2, <1>6
  <2>2. \E i \in 0 .. t.size - 1 :
            /\ Probe(t.v, t.size, hash(s), P) = i
            /\ Reached(t.v, t.size, hash(s), i)
            /\ (t.v[i] # Empty) = (s \in names)
            /\ t.v[i] # Empty => t.v[i] \in Pointers(t) /\ X[t.v[i]] = s
    BY <1>1, <1>6, <2>1, SearchIs
  <2> QED
    BY <2>2
<1> QED
  BY <1>3, <1>4, <1>5, <1>6 DEF Finds

(***************************************************************************)
(* However many names there are, in whatever order they come and however   *)
(* the tables and the pool grow, a table has each once and finds it and no *)
(* other: lookup, getElementType and getAttributeId of xmlparse.c.         *)
(***************************************************************************)
THEOREM NamesFound == DTDSpec => []NamesAreFound
<1>1. DTDInv => NamesAreFound
  BY KnownIsFound DEF DTDInv, NamesAreFound
<1> QED
  BY <1>1, DTDInvHolds, PTL

LEMMA KeptIsThere ==
  ASSUME NEW f, NEW p, PoolOK(p, f), NEW vals, AllSettled(vals, p)
  PROVE  \A i \in DOMAIN vals : StringAt(p, vals[i].at) = vals[i].text
<1>1. /\ DOMAIN vals = 1 .. Len(vals)
      /\ \A i \in 1 .. Len(vals) : vals[i].at \in Places /\ vals[i].text \in Strings
  <2>1. \A i \in 1 .. Len(vals) : vals[i] \in [at : Places, text : Strings]
    BY ElementOfSeq DEF AllSettled
  <2>2. DOMAIN vals = 1 .. Len(vals)
    BY LenProperties DEF AllSettled
  <2> QED
    BY ONLY <2>1, <2>2
<1> QED
  BY <1>1, SettledLies, StringAtIs DEF AllSettled

(***************************************************************************)
(* A finished string of a pool stays where it is, whatever is written,     *)
(* discarded, moved and enlarged behind it: the pools of xmlparse.c.       *)
(***************************************************************************)
THEOREM StringsKept == DTDSpec => []StringsStay
<1>1. DTDInv => StringsStay
  <2> SUFFICES ASSUME DTDInv PROVE StringsStay
    OBVIOUS
  <2>1. PoolOK(pool, 1) /\ PoolOK(tempPool, 2) /\ AllSettled(values, pool) /\ AllSettled(tagValues, tempPool)
    BY DEF DTDInv, Idle
  <2>2. \A p \in {pool, tempPool} : p.start <= p.ptr /\ p.ptr <= EndOf(p)
    BY <2>1 DEF PoolOK
  <2> QED
    BY <2>1, <2>2, KeptIsThere DEF StringsStay
<1> QED
  BY <1>1, DTDInvHolds, PTL

-----------------------------------------------------------------------------
(***************************************************************************)
(* The third part: the buffer of XML_Parse, for pieces of any size and any *)
(* processor that stays in the text it is given.                           *)
(***************************************************************************)

Enlarged == INSTANCE SequenceLemmas WITH Op <- DoubledOnce

\* The loop of XML_GetBuffer makes the size as large as is needed.
LEMMA DoubledIs ==
  ASSUME NEW size \in Nat \ {0}, NEW needed \in Nat
  PROVE  Doubled(size, needed) \in Nat /\ Doubled(size, needed) >= needed
<1> DEFINE After(m) == {s \in [size : Nat, needed : {needed}] : s.size >= needed \/ s.size > m}
           J == [m \in 0 .. needed |-> After(m)]
           q == [round \in 1 .. needed |-> round]
           b == [size |-> 2 * size, needed |-> needed]
<1>1. b \in After(0)
  OBVIOUS
<1>2. ASSUME NEW m \in 1 .. needed, NEW s \in After(m - 1) PROVE DoubledOnce(s, q[m]) \in After(m)
  <2>1. CASE s.size >= s.needed
    BY <2>1 DEF DoubledOnce
  <2>2. CASE ~(s.size >= s.needed)
    <3>1. PICK z \in Nat : s = [size |-> z, needed |-> needed] /\ z > m - 1
      BY <2>2
    <3>2. DoubledOnce(s, q[m]) = [size |-> 2 * z, needed |-> needed]
      BY <2>2, <3>1 DEF DoubledOnce
    <3>3. 2 * z > m /\ 2 * z \in Nat
      BY <3>1
    <3> HIDE DEF q
    <3> QED
      BY <3>2, <3>3
  <2> QED
    BY <2>1, <2>2
<1>3. b \in J[0] /\ \A m \in 1 .. needed : \A s \in J[m - 1] : DoubledOnce(s, q[m]) \in J[m]
  <2>1. 0 \in 0 .. needed /\ \A m \in 1 .. needed : m \in 0 .. needed /\ m - 1 \in 0 .. needed
    OBVIOUS
  <2>2. J[0] = After(0) /\ \A m \in 1 .. needed : J[m] = After(m) /\ J[m - 1] = After(m - 1)
    BY <2>1
  <2> HIDE DEF J, After, q, b
  <2> QED
    BY <2>2, <1>1, <1>2
<1>4. DOMAIN q = 1 .. needed /\ J[needed] = After(needed)
  OBVIOUS
<1> HIDE DEF J, q, b
<1>5. Enlarged!Folded(b, q) \in J[needed]
  BY ONLY <1>3, <1>4, needed \in Nat, Enlarged!FoldReaches
<1>6. FoldLeft(DoubledOnce, b, q) = Enlarged!Folded(b, q)
  BY DEF Enlarged!Folded, FoldLeft, Enlarged!FoldLeft, MapThenFoldSet,
         Enlarged!MapThenFoldSet, Max, Enlarged!Max
<1>7. Doubled(size, needed) = FoldLeft(DoubledOnce, b, q).size
  BY DEF Doubled, b, q
<1>8. PICK s \in After(needed) : Doubled(size, needed) = s.size
  BY <1>4, <1>5, <1>6, <1>7
<1> QED
  BY <1>8

BufferInv(S) ==
  /\ buffer \in [lim : Nat, ptr : Nat, end : Nat] /\ rest \in Seq(S)
  /\ BufferHolds

\* There is room behind what is held, which has not changed its length.
LEMMA RoomIs ==
  ASSUME NEW S, BufferInv(S), NEW len \in Nat
  PROVE  \E lim, ptr, end \in Nat :
            /\ XML_GetBuffer(len) = [lim |-> lim, ptr |-> ptr, end |-> end]
            /\ ptr <= end /\ end + len <= lim /\ end - ptr = Len(rest)
<1>1. PICK l, p, e \in Nat : buffer = [lim |-> l, ptr |-> p, end |-> e]
  BY DEF BufferInv
<1>2. buffer.lim = l /\ buffer.ptr = p /\ buffer.end = e
  BY <1>1
<1>3. p <= e /\ e <= l /\ Len(rest) = e - p
  BY <1>2 DEF BufferInv, BufferHolds
<1>4. PICK size : size = Doubled(IF l - p = 0 THEN InitBufferSize ELSE l - p, len + (e - p))
  OBVIOUS
<1>5. size \in Nat /\ size >= len + (e - p)
  <2>1. PICK z : z = IF l - p = 0 THEN InitBufferSize ELSE l - p
    OBVIOUS
  <2>2. z \in Nat \ {0}
    BY <2>1, <1>3, InitBufferSizeAssumption
  <2>3. len + (e - p) \in Nat
    BY <1>3
  <2> QED
    BY <2>1, <2>2, <2>3, <1>4, DoubledIs
<1>6. CASE len <= l - e
  <2>1. XML_GetBuffer(len) = [lim |-> l, ptr |-> p, end |-> e]
    BY <1>1, <1>2, <1>6 DEF XML_GetBuffer
  <2>2. e + len <= l /\ e - p = Len(rest)
    BY <1>3, <1>6
  <2> QED
    BY <2>1, <2>2, <1>3
<1>7. CASE ~(len <= l - e)
  <2>1. PICK n : n = IF len + (e - p) <= l THEN l ELSE size
    OBVIOUS
  <2>2. XML_GetBuffer(len) = [lim |-> n, ptr |-> 0, end |-> e - p]
    BY <1>2, <1>4, <1>7, <2>1 DEF XML_GetBuffer
  <2>3. n \in Nat /\ e - p \in Nat /\ 0 <= e - p /\ (e - p) + len <= n /\ (e - p) - 0 = Len(rest)
    BY <1>3, <1>5, <2>1
  <2> QED
    BY <2>2, <2>3
<1> QED
  BY <1>6, <1>7

LEMMA RestOf ==
  ASSUME NEW S, NEW s \in Seq(S), NEW next \in 1 .. Len(s) + 1
  PROVE  /\ SubSeq(s, next, Len(s)) \in Seq(S)
         /\ Len(SubSeq(s, next, Len(s))) = Len(s) - next + 1
<1>1. Len(s) \in Nat /\ next \in Int /\ Len(s) \in Int
  BY LenProperties
<1>2. \A k \in next .. Len(s) : s[k] \in S
  <2>1. \A k \in next .. Len(s) : k \in 1 .. Len(s)
    BY <1>1
  <2> QED
    BY <2>1, ElementOfSeq
<1>3. PICK n : n = Len(s) /\ n \in Int
  BY <1>1
<1>4. /\ SubSeq(s, next, n) \in Seq(S)
      /\ Len(SubSeq(s, next, n)) = IF next <= n THEN n - next + 1 ELSE 0
  BY <1>1, <1>2, <1>3, SubSeqProperties
<1>5. next <= n \/ n - next + 1 = 0
  BY <1>1, <1>3
<1> QED
  BY <1>3, <1>4, <1>5

LEMMA LeftOverKept ==
  ASSUME NEW S, BufferInv(S), NEW data \in Seq(S), NEW next \in 1 .. Len(data) + 1,
         NEW keep \in BOOLEAN, KeepLeftOver(data, next, keep)
  PROVE  BufferInv(S)'
<1>1. PICK left, n : left = SubSeq(data, next, Len(data)) /\ n = Len(left)
  OBVIOUS
<1>2. left \in Seq(S) /\ n = Len(data) - next + 1 /\ Len(data) \in Nat
  BY <1>1, RestOf, LenProperties
<1>3. CASE keep \/ n = 0
  <2>1. buffer' = buffer /\ rest' = rest
    BY <1>1, <1>3 DEF KeepLeftOver, bufferVars
  <2> QED
    BY <2>1 DEF BufferInv, BufferHolds
<1>4. CASE ~(keep \/ n = 0)
  <2>1. PICK l : l = IF n > buffer.lim THEN 2 * Len(data) ELSE buffer.lim
    OBVIOUS
  <2>2. rest' = left /\ buffer' = [lim |-> l, ptr |-> 0, end |-> n]
    BY <1>1, <1>4, <2>1 DEF KeepLeftOver
  <2>3. l \in Nat /\ n \in Nat /\ n <= l
    <3>1. buffer.lim \in Nat
      BY DEF BufferInv
    <3>2. PICK d : d = Len(data) /\ d \in Nat /\ next \in 1 .. d + 1 /\ n = d - next + 1
      BY <1>2
    <3> QED
      BY <2>1, <3>1, <3>2
  <2> QED
    BY <1>1, <1>2, <2>2, <2>3 DEF BufferInv, BufferHolds
<1> QED
  BY <1>3, <1>4

LEMMA BufferedParsed ==
  ASSUME NEW S, BufferInv(S), NEW data \in Seq(S), NEW next \in 1 .. Len(rest) + Len(data) + 1,
         NEW keep \in BOOLEAN, ParseBuffered(data, next, keep)
  PROVE  BufferInv(S)'
<1>1. PICK d, all, r : d = Len(data) /\ all = rest \o data /\ r = Len(rest)
  OBVIOUS
<1>2. rest \in Seq(S) /\ r \in Nat /\ d \in Nat /\ next \in 1 .. r + d + 1
  BY <1>1, LenProperties DEF BufferInv
<1>3. all \in Seq(S) /\ Len(all) = r + d
  BY <1>1, <1>2, ConcatProperties
<1>4. PICK l, p, e \in Nat :
        /\ XML_GetBuffer(d) = [lim |-> l, ptr |-> p, end |-> e]
        /\ p <= e /\ e + d <= l /\ e - p = r
  BY <1>1, <1>2, RoomIs
<1>5. PICK i : i = IF keep THEN p ELSE p + next - 1
  OBVIOUS
<1>6. PICK w : w = IF keep THEN all ELSE SubSeq(all, next, Len(all))
  OBVIOUS
<1>7. rest' = w /\ buffer' = [lim |-> l, ptr |-> i, end |-> e + d]
  <2>1. PICK b : b = XML_GetBuffer(d)
    OBVIOUS
  <2>2. b = [lim |-> l, ptr |-> p, end |-> e]
    BY ONLY <2>1, <1>4
  <2>3. /\ rest' = w
        /\ buffer' = [b EXCEPT !.end = @ + d, !.ptr = IF keep THEN @ ELSE @ + next - 1]
    BY <1>1, <1>6, <2>1 DEF ParseBuffered
  <2>4. [b EXCEPT !.end = @ + d, !.ptr = IF keep THEN @ ELSE @ + next - 1]
           = [lim |-> l, ptr |-> IF keep THEN p ELSE p + next - 1, end |-> e + d]
    <3>1. /\ b.lim = l /\ b.ptr = p /\ b.end = e
          /\ b \in [lim : {l}, ptr : {p}, end : {e}]
      BY ONLY <2>2
    <3>2. PICK c : c = [b EXCEPT !.end = @ + d, !.ptr = IF keep THEN @ ELSE @ + next - 1]
      OBVIOUS
    <3>3. PICK f, g : f = (IF keep THEN b.ptr ELSE b.ptr + next - 1) /\ g = b.end + d
      OBVIOUS
    <3>4. c = [b EXCEPT !.end = g, !.ptr = f]
      BY ONLY <3>2, <3>3
    <3>5. c \in [lim : {l}, ptr : {f}, end : {g}]
      BY ONLY <3>1, <3>4
    <3>6. c = [lim |-> l, ptr |-> f, end |-> g]
      BY ONLY <3>5
    <3>7. f = (IF keep THEN p ELSE p + next - 1) /\ g = e + d
      BY ONLY <3>1, <3>3
    <3> QED
      BY ONLY <3>2, <3>6, <3>7
  <2> QED
    BY ONLY <1>5, <2>3, <2>4
<1>8. w \in Seq(S) /\ Len(w) = (e + d) - i /\ i \in Nat /\ i <= e + d /\ e + d \in Nat
  <2>1. CASE keep
    <3>1. w = all /\ i = p
      BY ONLY <1>5, <1>6, <2>1
    <3>2. Len(w) = r + d
      BY ONLY <1>3, <3>1
    <3>3. w \in Seq(S)
      BY ONLY <1>3, <3>1
    <3>4. r + d = (e + d) - p /\ p <= e + d /\ e + d \in Nat
      BY ONLY <1>2, <1>4, l \in Nat, p \in Nat, e \in Nat
    <3> QED
      BY ONLY <3>1, <3>2, <3>3, <3>4, p \in Nat
  <2>2. CASE ~ keep
    <3>1. w = SubSeq(all, next, Len(all)) /\ i = p + next - 1
      BY ONLY <1>5, <1>6, <2>2
    <3>2. next \in 1 .. Len(all) + 1
      BY ONLY <1>2, <1>3
    <3>3. w \in Seq(S) /\ Len(w) = Len(all) - next + 1
      BY ONLY <1>3, <3>1, <3>2, RestOf
    <3>4. Len(w) = r + d - next + 1
      <4>1. PICK n : n = Len(all)
        OBVIOUS
      <4>2. n = r + d /\ Len(w) = n - next + 1
        BY ONLY <1>3, <3>3, <4>1
      <4> QED
        BY ONLY <4>2, <1>2
    <3>5. r + d - next + 1 = (e + d) - i /\ i \in Nat /\ i <= e + d /\ e + d \in Nat
      BY ONLY <1>2, <1>4, <3>1, l \in Nat, p \in Nat, e \in Nat
    <3> QED
      BY ONLY <3>3, <3>4, <3>5
  <2> QED
    BY ONLY <2>1, <2>2, keep \in BOOLEAN
<1>9. /\ buffer'.lim = l /\ buffer'.ptr = i /\ buffer'.end = e + d
      /\ buffer' \in [lim : Nat, ptr : Nat, end : Nat]
  BY ONLY <1>7, <1>8, l \in Nat
<1>10. BufferHolds'
  <2>1. 0 <= i /\ i <= e + d /\ e + d <= l /\ Len(w) = (e + d) - i
    BY ONLY <1>8, <1>4
  <2>2. rest' = w
    BY <1>7
  <2> QED
    BY <2>1, <2>2, <1>9 DEF BufferHolds
<1> QED
  BY <1>7, <1>8, <1>9, <1>10 DEF BufferInv

LEMMA BufferStart ==
  ASSUME NEW S, BufferInit
  PROVE  BufferInv(S)
<1>1. <<>> \in Seq(S) /\ Len(<<>>) = 0
  BY EmptySeq
<1> QED
  BY <1>1 DEF BufferInit, NewBuffer, BufferInv, BufferHolds

LEMMA BufferStep ==
  ASSUME NEW S, BufferInv(S), [BufferNext(Seq(S))]_bufferVars
  PROVE  BufferInv(S)'
<1>1. CASE UNCHANGED bufferVars
  BY <1>1 DEF bufferVars, BufferInv, BufferHolds
<1>2. CASE BufferNext(Seq(S))
  BY <1>2, LeftOverKept, BufferedParsed DEF BufferNext
<1> QED
  BY <1>1, <1>2

(***************************************************************************)
(* Whatever the pieces are and wherever the processor stops in them,       *)
(* XML_GetBuffer, XML_Parse and XML_ParseBuffer keep what is left over in  *)
(* the buffer, and the next piece has room behind it.                      *)
(***************************************************************************)
THEOREM BufferIsLargeEnough ==
  ASSUME NEW CONSTANT S
  PROVE  BufferSpec(Seq(S)) => []BufferHolds
<1>1. BufferInit => BufferInv(S)
  BY BufferStart
<1>2. BufferInv(S) /\ [BufferNext(Seq(S))]_bufferVars => BufferInv(S)'
  BY BufferStep
<1>3. BufferInv(S) => BufferHolds
  BY DEF BufferInv
<1> QED
  BY <1>1, <1>2, <1>3, PTL DEF BufferSpec
=============================================================================
