--------------------------- MODULE SequenceLemmas ---------------------------
(***************************************************************************)
(* Facts about numbers and sequences the proofs of this project share.      *)
(***************************************************************************)
EXTENDS Integers, Sequences, SequencesExt, WellFoundedInduction,
        SequenceTheorems, TLAPS

CONSTANT Op(_, _)       \* the operation of the folds the last lemmas are about

(***************************************************************************)
(* A nonempty set of naturals has a least element: the argument behind      *)
(* every "first entry of the list that ..." of the code.                   *)
(***************************************************************************)
LEMMA LeastNatural ==
    ASSUME NEW T \in SUBSET Nat, T # {}
    PROVE  \E m \in T : \A n \in T : m <= n
<1> DEFINE Less == {ss \in Nat \X Nat : ss[1] < ss[2]}
<1>1. IsWellFoundedOn(Less, Nat)
    BY NatLessThanWellFounded DEF OpToRel
<1>2. PICK m \in T : \A n \in T : ~(<<n, m>> \in Less)
    <2> HIDE DEF Less
    <2> QED BY <1>1, WFMin
<1>3. \A n \in T : ~(n < m)
    BY <1>2
<1> QED
    BY <1>3

(***************************************************************************)
(* Erasing entry i of a list (std::list::erase) moves the later ones up.    *)
(***************************************************************************)
LEMMA RemoveAtProperties ==
    ASSUME NEW S, NEW s \in Seq(S), NEW i \in 1 .. Len(s)
    PROVE  /\ RemoveAt(s, i) \in Seq(S)
           /\ Len(RemoveAt(s, i)) = Len(s) - 1
           /\ \A k \in 1 .. Len(s) - 1 :
                 RemoveAt(s, i)[k] = IF k < i THEN s[k] ELSE s[k + 1]
<1> DEFINE front == SubSeq(s, 1, i - 1)
           back  == SubSeq(s, i + 1, Len(s))
<1>1. Len(s) \in Nat /\ \A k \in 1 .. Len(s) : s[k] \in S
    BY LenProperties, ElementOfSeq
<1>2. /\ front \in Seq(S)
      /\ Len(front) = i - 1
      /\ \A k \in 1 .. i - 1 : front[k] = s[k]
    BY <1>1, SubSeqProperties
<1>3. /\ back \in Seq(S)
      /\ Len(back) = Len(s) - i
      /\ \A k \in 1 .. Len(s) - i : back[k] = s[i + k]
    <2>1. \A k \in i + 1 .. Len(s) : s[k] \in S
        BY <1>1
    <2>2. /\ back \in Seq(S)
          /\ Len(back) = IF i + 1 <= Len(s) THEN Len(s) - (i + 1) + 1 ELSE 0
          /\ \A k \in 1 .. Len(s) - (i + 1) + 1 : back[k] = s[(i + 1) + k - 1]
        BY <2>1, <1>1, SubSeqProperties
    <2> QED
        BY <2>2, <1>1
<1> HIDE DEF front, back
<1>4. /\ front \o back \in Seq(S)
      /\ Len(front \o back) = Len(s) - 1
      /\ \A k \in 1 .. Len(s) - 1 :
            (front \o back)[k] = IF k < i THEN front[k] ELSE back[k - (i - 1)]
    <2>1. /\ front \o back \in Seq(S)
          /\ Len(front \o back) = Len(front) + Len(back)
          /\ \A k \in 1 .. Len(front) + Len(back) : (front \o back)[k] =
                IF k <= Len(front) THEN front[k] ELSE back[k - Len(front)]
        BY <1>2, <1>3, ConcatProperties
    <2>2. \A k \in 1 .. Len(s) - 1 : k <= i - 1 <=> k < i
        BY <1>1
    <2> QED
        BY <2>1, <2>2, <1>1, <1>2, <1>3
<1>5. \A k \in 1 .. Len(s) - 1 :
          (front \o back)[k] = IF k < i THEN s[k] ELSE s[k + 1]
    <2> SUFFICES ASSUME NEW k \in 1 .. Len(s) - 1
                 PROVE  (front \o back)[k] = IF k < i THEN s[k] ELSE s[k + 1]
        OBVIOUS
    <2>1. CASE k < i
        BY <2>1, <1>1, <1>2, <1>4
    <2>2. CASE ~(k < i)
        <3>1. k - (i - 1) \in 1 .. Len(s) - i /\ i + (k - (i - 1)) = k + 1
            BY <2>2, <1>1
        <3> QED
            BY <3>1, <2>2, <1>3, <1>4
    <2> QED
        BY <2>1, <2>2
<1> QED
    BY <1>4, <1>5 DEF RemoveAt, front, back

(***************************************************************************)
(* Inserting e before entry i (std::list::insert) moves that one down.      *)
(***************************************************************************)
LEMMA InsertAtProperties ==
    ASSUME NEW S, NEW s \in Seq(S), NEW i \in 1 .. Len(s) + 1, NEW e \in S
    PROVE  /\ InsertAt(s, i, e) \in Seq(S)
           /\ Len(InsertAt(s, i, e)) = Len(s) + 1
           /\ \A k \in 1 .. Len(s) + 1 :
                 InsertAt(s, i, e)[k] = IF k < i THEN s[k]
                                        ELSE IF k = i THEN e ELSE s[k - 1]
<1> DEFINE front == SubSeq(s, 1, i - 1)
           back  == SubSeq(s, i, Len(s))
<1>1. Len(s) \in Nat /\ \A k \in 1 .. Len(s) : s[k] \in S
    BY LenProperties, ElementOfSeq
<1>2. /\ front \in Seq(S)
      /\ Len(front) = i - 1
      /\ \A k \in 1 .. i - 1 : front[k] = s[k]
    BY <1>1, SubSeqProperties
<1>3. /\ back \in Seq(S)
      /\ Len(back) = Len(s) - i + 1
      /\ \A k \in 1 .. Len(s) - i + 1 : back[k] = s[i + k - 1]
    <2>1. \A k \in i .. Len(s) : s[k] \in S
        BY <1>1
    <2>2. /\ back \in Seq(S)
          /\ Len(back) = IF i <= Len(s) THEN Len(s) - i + 1 ELSE 0
          /\ \A k \in 1 .. Len(s) - i + 1 : back[k] = s[i + k - 1]
        BY <2>1, <1>1, SubSeqProperties
    <2> QED
        BY <2>2, <1>1
<1> HIDE DEF front, back
<1>4. <<e>> \in Seq(S) /\ Len(<<e>>) = 1 /\ <<e>>[1] = e
    OBVIOUS
<1>5. /\ front \o <<e>> \in Seq(S)
      /\ Len(front \o <<e>>) = i
      /\ \A k \in 1 .. i : (front \o <<e>>)[k] = IF k < i THEN s[k] ELSE e
    <2>1. /\ front \o <<e>> \in Seq(S)
          /\ Len(front \o <<e>>) = Len(front) + Len(<<e>>)
          /\ \A k \in 1 .. Len(front) + Len(<<e>>) : (front \o <<e>>)[k] =
                IF k <= Len(front) THEN front[k] ELSE <<e>>[k - Len(front)]
        BY <1>2, <1>4, ConcatProperties
    <2>2. ASSUME NEW k \in 1 .. i
          PROVE  (front \o <<e>>)[k] = IF k < i THEN s[k] ELSE e
        <3>1. CASE k < i
            BY <3>1, <2>1, <1>1, <1>2, <1>4
        <3>2. CASE k = i
            <4>1. k - Len(front) = 1 /\ ~(k <= Len(front))
                BY <3>2, <1>2, <1>1
            <4> QED
                BY <4>1, <3>2, <2>1, <1>2, <1>4
        <3>3. k < i \/ k = i
            BY <1>1
        <3> QED
            BY <3>1, <3>2, <3>3
    <2>3. Len(front \o <<e>>) = i
        BY ONLY <2>1, <1>1, <1>2, <1>4, i \in 1 .. Len(s) + 1
    <2> QED
        BY ONLY <2>1, <2>2, <2>3
<1> DEFINE head == front \o <<e>>
<1> HIDE DEF head
<1>6. /\ head \o back \in Seq(S)
      /\ Len(head \o back) = Len(s) + 1
      /\ \A k \in 1 .. Len(s) + 1 :
            (head \o back)[k] = IF k <= i THEN head[k] ELSE back[k - i]
    BY <1>1, <1>3, <1>5, ConcatProperties DEF head
<1>7. ASSUME NEW k \in 1 .. Len(s) + 1
      PROVE  (head \o back)[k] = IF k < i THEN s[k]
                                 ELSE IF k = i THEN e ELSE s[k - 1]
    <2>1. CASE k <= i
        <3>1. k \in 1 .. i
            BY <2>1, <1>1
        <3> QED
            BY <3>1, <2>1, <1>5, <1>6 DEF head
    <2>2. CASE ~(k <= i)
        <3>1. k - i \in 1 .. Len(s) - i + 1 /\ i + (k - i) - 1 = k - 1
            BY <2>2, <1>1
        <3> QED
            BY <3>1, <2>2, <1>3, <1>6
    <2> QED
        BY <2>1, <2>2
<1> QED
    BY <1>6, <1>7 DEF InsertAt, front, back, head

(***************************************************************************)
(* A nonempty set of positions has a largest one, the last of its entries;  *)
(* the others come before it.                                               *)
(***************************************************************************)
LEMMA LargestOfSome ==
    ASSUME NEW n \in Nat, NEW s \in SUBSET (1 .. n), s # {}
    PROVE  /\ Max(s) \in s
           /\ \A x \in s : x <= Max(s)
           /\ s \ {Max(s)} \in SUBSET (1 .. Max(s) - 1)
<1> DEFINE T == {n - x : x \in s}
<1>1. T \in SUBSET Nat
    BY \A x \in 1 .. n : n - x \in Nat
<1>2. T # {}
    OBVIOUS
<1>3. PICK m \in T : \A k \in T : m <= k
    BY <1>1, <1>2, LeastNatural
<1>4. PICK x \in s : m = n - x
    OBVIOUS
<1>5. \A y \in s : x >= y
    <2>1. \A y \in s : n - x <= n - y
        BY <1>3, <1>4
    <2> QED
        BY <2>1
<1>6. Max(s) \in s /\ \A y \in s : Max(s) >= y
    BY <1>5 DEF Max
<1>7. \A y \in s \ {Max(s)} : y \in 1 .. Max(s) - 1
    <2>1. \A y \in s : y \in Nat /\ 1 <= y
        OBVIOUS
    <2>2. \A y \in s \ {Max(s)} : y \in s /\ y # Max(s)
        OBVIOUS
    <2> HIDE DEF T
    <2>3. ASSUME NEW y \in s \ {Max(s)}
          PROVE  y \in 1 .. Max(s) - 1
        <3>1. y \in Nat /\ 1 <= y /\ Max(s) \in Nat /\ y # Max(s) /\ Max(s) >= y
            BY <1>6, <2>1, <2>2
        <3> QED
            BY <3>1
    <2> QED
        BY <2>3
<1>8. \A y \in s : y <= Max(s)
    <2>1. \A y \in s : y \in 1 .. n
        OBVIOUS
    <2> QED
        BY <1>6, <2>1
<1> QED
    BY <1>6, <1>7, <1>8

-----------------------------------------------------------------------------
(***************************************************************************)
(* What FoldLeft of the community modules comes to.  An operator cannot be  *)
(* the parameter of a lemma that the provers are to use; it can be the      *)
(* constant of a module, and                                                *)
(*     F == INSTANCE SequenceLemmas WITH Op <- Pushed                       *)
(* gives the lemmas about folds of Pushed.                                  *)
(***************************************************************************)
Folded(b, q) == FoldLeft(Op, b, q)

\* FoldLeft takes its value from a recursive function on sets of positions.
FoldOf(b, q, s, g) ==
    IF s = {} THEN b ELSE Op(g[s \ {Max(s)}], q[Max(s)])

(***************************************************************************)
(* Such a function exists: one that is right about the sets of the first    *)
(* m - 1 positions makes one that is right about those of the first m.      *)
(***************************************************************************)
LEMMA FoldExists ==
    ASSUME NEW b, NEW q, NEW n \in Nat
    PROVE  \E g : g = [s \in SUBSET (1 .. n) |-> FoldOf(b, q, s, g)]
<1> DEFINE Good(m) == \E g : \A s \in SUBSET (1 .. m) : g[s] = FoldOf(b, q, s, g)
           Bad == {m \in 0 .. n : ~ Good(m)}
<1>1. Good(0)
    <2> DEFINE g == [s \in SUBSET (1 .. n) |-> b]
    <2>1. \A s \in SUBSET (1 .. 0) : s = {}
        OBVIOUS
    <2>2. g[{}] = FoldOf(b, q, {}, g)
        BY DEF FoldOf
    <2> QED
        BY <2>1, <2>2
<1>2. ASSUME NEW m \in 1 .. n, Good(m - 1)
      PROVE  Good(m)
    <2>1. PICK g : \A s \in SUBSET (1 .. m - 1) : g[s] = FoldOf(b, q, s, g)
        BY <1>2
    <2> DEFINE h == [s \in SUBSET (1 .. n) |-> FoldOf(b, q, s, g)]
    <2>2. ASSUME NEW s \in SUBSET (1 .. m)
          PROVE  h[s] = FoldOf(b, q, s, h)
        <3>1. h[s] = FoldOf(b, q, s, g)
            <4>1. s \in SUBSET (1 .. n)
                OBVIOUS
            <4> QED
                BY <4>1
        <3>2. CASE s = {}
            BY <3>1, <3>2 DEF FoldOf
        <3>3. CASE s # {}
            <4>1. s \ {Max(s)} \in SUBSET (1 .. m - 1)
                <5>1. /\ Max(s) \in s
                      /\ s \ {Max(s)} \in SUBSET (1 .. Max(s) - 1)
                    BY <3>3, LargestOfSome, m \in Nat
                <5>2. Max(s) \in 1 .. m
                    BY <5>1
                <5>3. \A k \in 1 .. Max(s) - 1 : k \in 1 .. m - 1
                    BY <5>2
                <5> QED
                    BY <5>1, <5>3
            <4>2. s \ {Max(s)} \in SUBSET (1 .. n)
                BY <4>1
            <4>3. h[s \ {Max(s)}] = g[s \ {Max(s)}]
                BY <4>1, <4>2, <2>1
            <4> QED
                BY <3>1, <3>3, <4>3 DEF FoldOf
        <3> QED
            BY <3>2, <3>3
    <2> HIDE DEF h
    <2> QED
        BY <2>2
<1>3. Bad = {}
    <2> SUFFICES ASSUME Bad # {} PROVE FALSE
        OBVIOUS
    <2>1. PICK m \in Bad : \A k \in Bad : m <= k
        <3>1. Bad \in SUBSET Nat
            OBVIOUS
        <3> QED
            BY <3>1, LeastNatural
    <2>2. m # 0
        BY <1>1
    <2>3. m - 1 \in 0 .. n /\ m - 1 \notin Bad /\ m \in 1 .. n
        BY <2>1, <2>2
    <2> QED
        BY <2>1, <2>3, <1>2
<1>4. PICK g : \A s \in SUBSET (1 .. n) : g[s] = FoldOf(b, q, s, g)
    <2>1. Good(n)
        <3>1. n \in 0 .. n
            OBVIOUS
        <3> QED
            BY <1>3, <3>1
    <2> QED
        BY <2>1
<1> DEFINE h == [s \in SUBSET (1 .. n) |-> g[s]]
<1>5. \A s \in SUBSET (1 .. n) : h[s] = FoldOf(b, q, s, h)
    BY <1>4 DEF FoldOf
<1>6. h = [s \in SUBSET (1 .. n) |-> FoldOf(b, q, s, h)]
    <2>1. h = [s \in SUBSET (1 .. n) |-> h[s]]
        OBVIOUS
    <2> HIDE DEF h
    <2> QED
        BY <2>1, <1>5
<1> QED
    BY <1>6

(***************************************************************************)
(* So a fold goes from each entry to the next.                              *)
(***************************************************************************)
LEMMA FoldIs ==
    ASSUME NEW b, NEW q, NEW n \in Nat, DOMAIN q = 1 .. n
    PROVE  \E g : /\ g[{}] = b
                  /\ \A m \in 1 .. n : g[1 .. m] = Op(g[1 .. m - 1], q[m])
                  /\ Folded(b, q) = g[1 .. n]
<1> DEFINE G == CHOOSE g : g = [s \in SUBSET (1 .. n) |-> FoldOf(b, q, s, g)]
<1>1. G = [s \in SUBSET (1 .. n) |-> FoldOf(b, q, s, G)]
    BY FoldExists
<1>2. Folded(b, q) = G[1 .. n]
    BY DEF Folded, FoldLeft, MapThenFoldSet, FoldOf
<1> HIDE DEF G
<1>3. G[{}] = b
    <2>1. G[{}] = FoldOf(b, q, {}, G)
        BY <1>1
    <2> QED
        BY <2>1 DEF FoldOf
<1>4. ASSUME NEW m \in 1 .. n
      PROVE  G[1 .. m] = Op(G[1 .. m - 1], q[m])
    <2>1. 1 .. m \in SUBSET (1 .. n) /\ m \in 1 .. m
        OBVIOUS
    <2>2. G[1 .. m] = FoldOf(b, q, 1 .. m, G)
        BY <1>1, <2>1
    <2>3. Max(1 .. m) \in 1 .. m /\ \A x \in 1 .. m : x <= Max(1 .. m)
        BY <2>1, LargestOfSome
    <2>4. Max(1 .. m) = m /\ (1 .. m) \ {m} = 1 .. m - 1 /\ 1 .. m # {}
        BY <2>1, <2>3
    <2> QED
        BY <2>2, <2>4 DEF FoldOf
<1> QED
    BY <1>2, <1>3, <1>4

(***************************************************************************)
(* If each operation leads from what may come before it, J[m - 1], to what  *)
(* may come behind it, J[m], the fold ends in the last of these sets.       *)
(***************************************************************************)
LEMMA FoldReaches ==
    ASSUME NEW n \in Nat, NEW q, DOMAIN q = 1 .. n, NEW J, NEW b \in J[0],
           \A m \in 1 .. n : \A t \in J[m - 1] : Op(t, q[m]) \in J[m]
    PROVE  Folded(b, q) \in J[n]
<1>1. PICK g : /\ g[{}] = b
               /\ \A m \in 1 .. n : g[1 .. m] = Op(g[1 .. m - 1], q[m])
               /\ Folded(b, q) = g[1 .. n]
    BY FoldIs
<1> DEFINE Bad == {m \in 0 .. n : g[1 .. m] \notin J[m]}
<1>2. Bad = {}
    <2> SUFFICES ASSUME Bad # {} PROVE FALSE
        OBVIOUS
    <2>1. PICK m \in Bad : \A k \in Bad : m <= k
        <3>1. Bad \in SUBSET Nat
            OBVIOUS
        <3> QED
            BY <3>1, LeastNatural
    <2>2. m # 0
        <3>1. 1 .. 0 = {}
            OBVIOUS
        <3> QED
            BY <1>1, <3>1
    <2>3. m \in 1 .. n /\ m - 1 \in 0 .. n /\ m - 1 \notin Bad
        BY <2>1, <2>2
    <2> QED
        BY <2>1, <2>3, <1>1
<1>3. n \in 0 .. n
    OBVIOUS
<1> QED
    BY <1>1, <1>2, <1>3

(***************************************************************************)
(* What an operation never leaves, no sequence of operations leaves.        *)
(***************************************************************************)
LEMMA FoldStays ==
    ASSUME NEW T, NEW b \in T, NEW S, NEW q \in Seq(S),
           \A t \in T, e \in S : Op(t, e) \in T
    PROVE  Folded(b, q) \in T
<1>1. PICK n \in Nat : DOMAIN q = 1 .. n /\ \A i \in 1 .. n : q[i] \in S
    BY LenProperties, ElementOfSeq
<1> DEFINE J == [m \in 0 .. n |-> T]
<1>2. b \in J[0] /\ \A m \in 1 .. n : \A t \in J[m - 1] : Op(t, q[m]) \in J[m]
    BY <1>1
<1>3. J[n] = T
    OBVIOUS
<1> HIDE DEF J
<1> QED
    BY <1>1, <1>2, <1>3, FoldReaches

(***************************************************************************)
(* A fold over an empty sequence changes nothing.                           *)
(***************************************************************************)
LEMMA FoldOfNone ==
    ASSUME NEW b
    PROVE  Folded(b, <<>>) = b
<1>1. DOMAIN <<>> = 1 .. 0
    OBVIOUS
<1>2. PICK g : g[{}] = b /\ Folded(b, <<>>) = g[1 .. 0]
    BY <1>1, FoldIs
<1>3. 1 .. 0 = {}
    OBVIOUS
<1> QED
    BY <1>2, <1>3

(***************************************************************************)
(* A fold over one entry more does one operation more.                      *)
(***************************************************************************)
LEMMA FoldOfLonger ==
    ASSUME NEW b, NEW n \in Nat, NEW q, NEW r,
           DOMAIN q = 1 .. n, DOMAIN r = 1 .. n + 1, \A i \in 1 .. n : r[i] = q[i]
    PROVE  Folded(b, r) = Op(Folded(b, q), r[n + 1])
<1>1. PICK g : /\ g[{}] = b
               /\ \A m \in 1 .. n : g[1 .. m] = Op(g[1 .. m - 1], q[m])
               /\ Folded(b, q) = g[1 .. n]
    BY FoldIs
<1>2. PICK h : /\ h[{}] = b
               /\ \A m \in 1 .. n + 1 : h[1 .. m] = Op(h[1 .. m - 1], r[m])
               /\ Folded(b, r) = h[1 .. n + 1]
    <2>1. n + 1 \in Nat
        OBVIOUS
    <2> QED
        BY ONLY <2>1, DOMAIN r = 1 .. n + 1, FoldIs
<1> DEFINE Bad == {m \in 0 .. n : g[1 .. m] # h[1 .. m]}
<1>3. Bad = {}
    <2> SUFFICES ASSUME Bad # {} PROVE FALSE
        OBVIOUS
    <2>1. PICK m \in Bad : \A k \in Bad : m <= k
        <3>1. Bad \in SUBSET Nat
            OBVIOUS
        <3> QED
            BY <3>1, LeastNatural
    <2>2. m # 0
        <3>1. 1 .. 0 = {}
            OBVIOUS
        <3> QED
            BY <1>1, <1>2, <3>1
    <2>3. m \in 1 .. n /\ m \in 1 .. n + 1 /\ m - 1 \in 0 .. n /\ m - 1 \notin Bad
        BY <2>1, <2>2
    <2> QED
        BY <2>1, <2>3, <1>1, <1>2
<1>4. n \in 0 .. n /\ n + 1 \in 1 .. n + 1 /\ (n + 1) - 1 = n
    OBVIOUS
<1>5. h[1 .. n + 1] = Op(h[1 .. n], r[n + 1])
    BY <1>2, <1>4
<1> QED
    BY <1>1, <1>2, <1>3, <1>4, <1>5

LEMMA FoldOfOneMore ==
    ASSUME NEW b, NEW S, NEW q \in Seq(S), NEW e \in S
    PROVE  Folded(b, Append(q, e)) = Op(Folded(b, q), e)
<1>1. PICK n, r : n \in Nat /\ n = Len(q) /\ r = Append(q, e)
    BY LenProperties
<1>2. /\ DOMAIN q = 1 .. n /\ DOMAIN r = 1 .. n + 1
      /\ r[n + 1] = e
      /\ \A i \in 1 .. n : r[i] = q[i]
    BY <1>1, LenProperties, AppendProperties
<1>3. Folded(b, r) = Op(Folded(b, q), r[n + 1])
    <2>1. n \in Nat
        BY <1>1
    <2> QED
        BY ONLY <1>2, <2>1, FoldOfLonger
<1> QED
    BY <1>1, <1>2, <1>3

(***************************************************************************)
(* All a fold may come to: the operation leads from one to another.  It is  *)
(* the set to take a part of where FoldStays needs one and the values have  *)
(* no type.                                                                 *)
(***************************************************************************)
Folds(b, S) == {Folded(b, p) : p \in Seq(S)}

LEMMA FoldsAreClosed ==
    ASSUME NEW b, NEW S
    PROVE  /\ b \in Folds(b, S)
           /\ \A t \in Folds(b, S), e \in S : Op(t, e) \in Folds(b, S)
<1>1. b \in Folds(b, S)
    <2>1. << >> \in Seq(S) /\ Folded(b, << >>) = b
        BY FoldOfNone
    <2> QED
        BY <2>1 DEF Folds
<1>2. ASSUME NEW t \in Folds(b, S), NEW e \in S
      PROVE  Op(t, e) \in Folds(b, S)
    <2>1. PICK p \in Seq(S) : t = Folded(b, p)
        BY DEF Folds
    <2>2. Append(p, e) \in Seq(S) /\ Folded(b, Append(p, e)) = Op(t, e)
        BY <2>1, FoldOfOneMore
    <2> QED
        BY <2>2 DEF Folds
<1> QED
    BY <1>1, <1>2
=============================================================================
