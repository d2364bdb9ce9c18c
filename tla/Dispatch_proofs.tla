--------------------------- MODULE Dispatch_proofs ---------------------------
(***************************************************************************)
(* The loops over XPath queries, for any number of queries, packets and     *)
(* nested calls: each packet is shown once to every query that was there    *)
(* and still is, and a loop loses its node only by misuse.                  *)
(*                                                                          *)
(* Whoever unregisters a query is a function that is being called, as are   *)
(* those further out; each of their loops stands on the query it calls.  So *)
(* a loop whose node goes has lost the query it calls, and that is misuse.  *)
(* Around each loop its list is in two parts: behind the node it stands on  *)
(* is what it has yet to show, before it what it has shown, and between     *)
(* these what was registered since.                                         *)
(***************************************************************************)
EXTENDS Dispatch, SequenceLemmas

Frames == [list : Lists, it : Int, inside : BOOLEAN, calls : Int,
           began : SUBSET Nat, done : SUBSET Nat]

LoopsTypeOK ==
    /\ running \in Seq(Frames)
    /\ misused \in BOOLEAN /\ fault \in BOOLEAN
    /\ nextQuery \in Nat
    /\ queries \in [Lists -> Seq(Nat)]

\* The queries of a list are those made so far, each once.
Distinct(list, n) ==
    \A i, k \in 1 .. Len(list) : list[i] < n /\ (list[i] = list[k] => i = k)

\* A loop that calls a function stands on the query it calls, or lost it.
FrameOK(f) ==
    /\ f.inside => f.it \in {f.calls, Gone}
    /\ f.it = Gone => f.inside /\ misused
    /\ f.began \subseteq 0 .. nextQuery - 1
    /\ f.done \subseteq f.began

Shown(f, q) == q \in f.began => q \in f.done
ToShow(f, q) == q \in f.began /\ q \notin f.done

\* Where loop f stands in its list
StandsAt(f, list, p) ==
    /\ p \in 1 .. Len(list)
    /\ list[p] = f.it
    /\ IF f.inside THEN Shown(f, list[p]) ELSE ToShow(f, list[p])
    /\ \A k \in 1 .. Len(list) : /\ k < p => Shown(f, list[k])
                                 /\ p < k => ToShow(f, list[k])

Stands(f, list) ==
    \/ f.it = Gone
    \/ f.it = End /\ \A k \in 1 .. Len(list) : Shown(f, list[k])
    \/ \E p \in 1 .. Len(list) : StandsAt(f, list, p)

LoopsInv ==
    /\ LoopsTypeOK
    /\ \A l \in Lists : Distinct(queries[l], nextQuery)
    /\ deleted # {} => misused
    /\ fault => misused
    /\ \A i \in 1 .. Len(running) - 1 : running[i].inside
    /\ \A i \in 1 .. Len(running) : /\ FrameOK(running[i])
                                    /\ Stands(running[i], queries[running[i].list])

-----------------------------------------------------------------------------
(* The lists                                                                *)

LEMMA ErasedFrom ==
    ASSUME NEW list \in Seq(Nat), NEW q, NEW n \in Nat, Distinct(list, n),
           q \in ToSet(list)
    PROVE  \E i \in 1 .. Len(list) :
              /\ list[i] = q
              /\ Erased(list, q) \in Seq(Nat)
              /\ Len(Erased(list, q)) = Len(list) - 1
              /\ \A k \in 1 .. Len(list) - 1 :
                    Erased(list, q)[k] = IF k < i THEN list[k] ELSE list[k + 1]
<1> DEFINE i == CHOOSE m \in DOMAIN list : list[m] = q
<1>1. DOMAIN list = 1 .. Len(list)
    BY LenProperties
<1>2. \E m \in DOMAIN list : list[m] = q
    BY DEF ToSet
<1>3. i \in 1 .. Len(list) /\ list[i] = q
    BY <1>1, <1>2
<1>4. Erased(list, q) = RemoveAt(list, i)
    BY DEF Erased
<1> HIDE DEF i
<1> QED
    BY <1>3, <1>4, RemoveAtProperties

LEMMA ErasedKeeps ==
    ASSUME NEW list \in Seq(Nat), NEW q, NEW n \in Nat, Distinct(list, n)
    PROVE  Erased(list, q) \in Seq(Nat) /\ Distinct(Erased(list, q), n)
<1>1. CASE q \notin ToSet(list)
    BY <1>1 DEF Erased
<1>2. CASE q \in ToSet(list)
    <2> DEFINE new == Erased(list, q)
    <2>1. PICK i \in 1 .. Len(list) :
              /\ list[i] = q
              /\ new \in Seq(Nat)
              /\ Len(new) = Len(list) - 1
              /\ \A k \in 1 .. Len(list) - 1 :
                    new[k] = IF k < i THEN list[k] ELSE list[k + 1]
        BY <1>2, ErasedFrom
    <2>2. Len(list) \in Nat
        BY LenProperties
    <2> HIDE DEF new
    <2>3. ASSUME NEW j \in 1 .. Len(new), NEW k \in 1 .. Len(new)
          PROVE  new[j] < n /\ (new[j] = new[k] => j = k)
        <3> DEFINE g == IF j < i THEN j ELSE j + 1
                   h == IF k < i THEN k ELSE k + 1
        <3>1. j \in 1 .. Len(list) - 1 /\ k \in 1 .. Len(list) - 1
            BY <2>1
        <3>2. g \in 1 .. Len(list) /\ h \in 1 .. Len(list) /\ (g = h => j = k)
            BY <2>2, <3>1
        <3>3. new[j] = list[g] /\ new[k] = list[h]
            BY <2>1, <3>1
        <3> HIDE DEF g, h
        <3> QED
            BY <3>2, <3>3 DEF Distinct
    <2> QED
        BY <2>1, <2>3 DEF Distinct, new
<1> QED
    BY <1>1, <1>2

LEMMA PutInFront ==
    ASSUME NEW list \in Seq(Nat), NEW n \in Nat
    PROVE  /\ <<n>> \o list \in Seq(Nat)
           /\ Len(<<n>> \o list) = Len(list) + 1
           /\ (<<n>> \o list)[1] = n
           /\ \A k \in 1 .. Len(list) : (<<n>> \o list)[k + 1] = list[k]
<1>1. <<n>> \in Seq(Nat) /\ Len(<<n>>) = 1 /\ <<n>>[1] = n /\ Len(list) \in Nat
    BY LenProperties
<1> QED
    BY <1>1, ConcatProperties

LEMMA InFrontKeeps ==
    ASSUME NEW list \in Seq(Nat), NEW n \in Nat, Distinct(list, n)
    PROVE  <<n>> \o list \in Seq(Nat) /\ Distinct(<<n>> \o list, n + 1)
<1> DEFINE new == <<n>> \o list
<1>1. /\ new \in Seq(Nat) /\ Len(new) = Len(list) + 1 /\ new[1] = n
      /\ \A k \in 1 .. Len(list) : new[k + 1] = list[k]
      /\ Len(list) \in Nat /\ \A k \in 1 .. Len(list) : list[k] \in Nat
    BY PutInFront, LenProperties, ElementOfSeq
<1> HIDE DEF new
<1>2. \A k \in 1 .. Len(new) : k = 1 \/ (k - 1 \in 1 .. Len(list) /\ new[k] = list[k - 1])
    <2> SUFFICES ASSUME NEW k \in 1 .. Len(new), k # 1
                 PROVE  k - 1 \in 1 .. Len(list) /\ new[k] = list[k - 1]
        OBVIOUS
    <2>1. k - 1 \in 1 .. Len(list) /\ k = (k - 1) + 1
        BY <1>1
    <2> QED
        BY <1>1, <2>1
<1>3. Distinct(new, n + 1)
    <2> SUFFICES ASSUME NEW i \in 1 .. Len(new), NEW k \in 1 .. Len(new)
                 PROVE  new[i] < n + 1 /\ (new[i] = new[k] => i = k)
        BY DEF Distinct
    <2>1. \A m \in 1 .. Len(list) : list[m] < n /\ list[m] \in Nat
        BY <1>1 DEF Distinct
    <2>2. new[i] < n + 1
        <3>1. CASE i = 1
            BY <1>1, <3>1
        <3>2. CASE i # 1
            <4>1. i - 1 \in 1 .. Len(list) /\ new[i] = list[i - 1]
                BY <1>2, <3>2
            <4> HIDE DEF new
            <4>2. list[i - 1] < n /\ list[i - 1] \in Nat
                BY <2>1, <4>1
            <4> QED
                BY <4>1, <4>2
        <3> QED
            BY <3>1, <3>2
    <2>3. CASE i = 1 \/ k = 1
        <3>1. \A m \in 1 .. Len(new) : m # 1 => new[m] < n
            BY <1>2, <2>1
        <3> QED
            BY <1>1, <2>2, <2>3, <3>1
    <2>4. CASE i # 1 /\ k # 1
        <3>1. /\ i - 1 \in 1 .. Len(list) /\ new[i] = list[i - 1]
              /\ k - 1 \in 1 .. Len(list) /\ new[k] = list[k - 1]
            BY <1>2, <2>4
        <3>2. new[i] = new[k] => i - 1 = k - 1
            BY <3>1 DEF Distinct
        <3> QED
            BY <2>2, <3>2
    <2> QED
        BY <2>3, <2>4
<1> QED
    BY <1>1, <1>3 DEF new

-----------------------------------------------------------------------------
(* Where a loop stands when its list changes                                *)

LEMMA StandsInFront ==
    ASSUME NEW f \in Frames, NEW list \in Seq(Nat), NEW n \in Nat,
           f.began \subseteq 0 .. n - 1, Stands(f, list)
    PROVE  Stands(f, <<n>> \o list)
<1> DEFINE new == <<n>> \o list
<1>1. /\ Len(new) = Len(list) + 1 /\ new[1] = n
      /\ \A k \in 1 .. Len(list) : new[k + 1] = list[k]
      /\ Len(list) \in Nat
    BY PutInFront, LenProperties
<1> HIDE DEF new
<1>2. \A k \in 1 .. Len(new) : k = 1 \/ (k - 1 \in 1 .. Len(list) /\ new[k] = list[k - 1])
    <2> SUFFICES ASSUME NEW k \in 1 .. Len(new), k # 1
                 PROVE  k - 1 \in 1 .. Len(list) /\ new[k] = list[k - 1]
        OBVIOUS
    <2>1. k - 1 \in 1 .. Len(list) /\ k = (k - 1) + 1
        BY <1>1
    <2> QED
        BY <1>1, <2>1
<1>3. Shown(f, new[1])
    BY <1>1 DEF Shown
<1>4. CASE f.it = Gone
    BY <1>4 DEF Stands, new
<1>5. CASE f.it = End /\ \A k \in 1 .. Len(list) : Shown(f, list[k])
    <2>1. \A k \in 1 .. Len(new) : Shown(f, new[k])
        BY <1>2, <1>3, <1>5
    <2> QED
        BY <1>5, <2>1 DEF Stands, new
<1>6. ASSUME NEW p \in 1 .. Len(list), StandsAt(f, list, p)
      PROVE  Stands(f, new)
    <2>1. p + 1 \in 1 .. Len(new) /\ new[p + 1] = list[p]
        BY <1>1
    <2>2. \A k \in 1 .. Len(new) : /\ k < p + 1 => Shown(f, new[k])
                                   /\ p + 1 < k => ToShow(f, new[k])
        <3> SUFFICES ASSUME NEW k \in 1 .. Len(new)
                     PROVE  /\ k < p + 1 => Shown(f, new[k])
                            /\ p + 1 < k => ToShow(f, new[k])
            OBVIOUS
        <3>1. CASE k = 1
            BY <1>3, <3>1
        <3>2. CASE k # 1
            BY <1>2, <1>6, <3>2 DEF StandsAt
        <3> QED
            BY <3>1, <3>2
    <2>3. StandsAt(f, new, p + 1)
        BY <1>6, <2>1, <2>2 DEF StandsAt
    <2> QED
        BY <2>1, <2>3 DEF Stands
<1> QED
    BY <1>4, <1>5, <1>6 DEF Stands, new

LEMMA StandsErased ==
    ASSUME NEW f \in Frames, NEW list \in Seq(Nat), NEW q, NEW n \in Nat,
           Distinct(list, n), Stands(f, list), f.it # q
    PROVE  Stands(f, Erased(list, q))
<1>1. CASE q \notin ToSet(list)
    BY <1>1 DEF Erased
<1>2. CASE q \in ToSet(list)
    <2> DEFINE new == Erased(list, q)
    <2>1. PICK i \in 1 .. Len(list) :
              /\ list[i] = q
              /\ Len(new) = Len(list) - 1
              /\ \A k \in 1 .. Len(list) - 1 :
                    new[k] = IF k < i THEN list[k] ELSE list[k + 1]
        BY <1>2, ErasedFrom
    <2>2. Len(list) \in Nat
        BY LenProperties
    <2> HIDE DEF new
    <2>3. CASE f.it = Gone
        BY <2>3 DEF Stands, new
    <2>4. CASE f.it = End /\ \A k \in 1 .. Len(list) : Shown(f, list[k])
        <3>1. ASSUME NEW k \in 1 .. Len(new) PROVE Shown(f, new[k])
            <4>1. k \in 1 .. Len(list) - 1 /\ k \in 1 .. Len(list) /\ k + 1 \in 1 .. Len(list)
                BY <2>1, <2>2
            <4>2. new[k] = list[k] \/ new[k] = list[k + 1]
                BY <2>1, <4>1
            <4> QED
                BY <2>4, <4>1, <4>2
        <3> QED
            BY <2>4, <3>1 DEF Stands, new
    <2>5. ASSUME NEW p \in 1 .. Len(list), StandsAt(f, list, p)
          PROVE  Stands(f, new)
        <3>1. p # i
            BY <2>1, <2>5 DEF StandsAt
        <3> DEFINE r == IF p < i THEN p ELSE p - 1
        <3>2. r \in 1 .. Len(new) /\ new[r] = list[p]
            BY <2>1, <2>2, <3>1
        <3>3. \A k \in 1 .. Len(new) : /\ k < r => Shown(f, new[k])
                                       /\ r < k => ToShow(f, new[k])
            <4> SUFFICES ASSUME NEW k \in 1 .. Len(new)
                         PROVE  /\ k < r => Shown(f, new[k])
                                /\ r < k => ToShow(f, new[k])
                OBVIOUS
            <4> DEFINE h == IF k < i THEN k ELSE k + 1
            <4>1. h \in 1 .. Len(list) /\ new[k] = list[h]
                BY <2>1, <2>2
            <4>2. (k < r => h < p) /\ (r < k => p < h)
                BY <2>1, <2>2, <3>1
            <4> HIDE DEF h, r
            <4> QED
                BY <2>5, <4>1, <4>2 DEF StandsAt
        <3> HIDE DEF r
        <3>4. StandsAt(f, new, r)
            BY <2>5, <3>2, <3>3 DEF StandsAt
        <3> QED
            BY <3>2, <3>4 DEF Stands
    <2> QED
        BY <2>3, <2>4, <2>5 DEF Stands, new
<1> QED
    BY <1>1, <1>2

\* What follows a query of a list is a query or the end.
LEMMA AfterIsThere ==
    ASSUME NEW list \in Seq(Nat), NEW p \in 1 .. Len(list)
    PROVE  After(list, list[p]) \in Int
<1>1. /\ DOMAIN list = 1 .. Len(list) /\ Len(list) \in Nat
      /\ \A k \in 1 .. Len(list) : list[k] \in Nat
    BY LenProperties, ElementOfSeq
<1>2. CASE list[p] = Last(list)
    BY <1>2 DEF After, End
<1>3. CASE list[p] # Last(list)
    <2> DEFINE i == CHOOSE m \in DOMAIN list : list[m] = list[p]
    <2>1. i \in 1 .. Len(list) /\ list[i] = list[p]
        BY <1>1
    <2>2. After(list, list[p]) = list[1 + i]
        BY <1>1, <1>3 DEF After, End
    <2> HIDE DEF i
    <2>3. 1 + i \in 1 .. Len(list)
        BY <1>1, <1>3, <2>1 DEF Last
    <2> QED
        BY <1>1, <2>2, <2>3
<1> QED
    BY <1>2, <1>3

\* The loop moves on from where it stands.
LEMMA StandsAfter ==
    ASSUME NEW f \in Frames, NEW list \in Seq(Nat), NEW n \in Nat,
           Distinct(list, n), NEW p \in 1 .. Len(list), list[p] = f.it,
           \A k \in 1 .. Len(list) : /\ k <= p => Shown(f, list[k])
                                     /\ p < k => ToShow(f, list[k]),
           NEW g \in Frames, g.it = After(list, f.it), ~ g.inside,
           g.began = f.began, g.done = f.done
    PROVE  Stands(g, list) /\ g.it # Gone
<1>1. Len(list) \in Nat /\ list \in [1 .. Len(list) -> Nat] /\ f.it # End
    <2>1. list[p] \in Nat
        BY ElementOfSeq
    <2> QED
        BY <2>1, LenProperties, IsASeq DEF End
<1>2. \A k \in 1 .. Len(list) : /\ Shown(f, list[k]) <=> Shown(g, list[k])
                                /\ ToShow(f, list[k]) <=> ToShow(g, list[k])
    BY DEF Shown, ToShow
<1>3. CASE f.it = Last(list)
    <2>1. list[Len(list)] = list[p] /\ Len(list) \in 1 .. Len(list)
        BY <1>1, <1>3 DEF Last
    <2>2. p = Len(list)
        BY <2>1 DEF Distinct
    <2>3. g.it = End
        BY <1>3 DEF After
    <2>4. \A k \in 1 .. Len(list) : Shown(g, list[k])
        BY <1>1, <1>2, <2>2
    <2> QED
        BY <2>3, <2>4 DEF Stands, End, Gone
<1>4. CASE f.it # Last(list)
    <2> DEFINE i == CHOOSE m \in DOMAIN list : list[m] = f.it
    <2>1. i \in 1 .. Len(list) /\ list[i] = list[p]
        BY <1>1
    <2>2. i = p
        BY <2>1 DEF Distinct
    <2>3. g.it = list[1 + i]
        BY <1>1, <1>4 DEF After
    <2> HIDE DEF i
    <2>4. p # Len(list)
        BY <1>4 DEF Last
    <2>5. p + 1 \in 1 .. Len(list) /\ g.it = list[p + 1]
        <3>1. Len(list) \in Nat
            BY <1>1
        <3>2. p + 1 \in 1 .. Len(list) /\ 1 + p = p + 1
            BY <2>4, <3>1
        <3>3. g.it = list[1 + p]
            BY <2>2, <2>3
        <3> QED
            BY <3>2, <3>3
    <2>6. ToShow(g, list[p + 1])
        BY <1>1, <1>2, <2>5
    <2>7. \A k \in 1 .. Len(list) : /\ k < p + 1 => Shown(g, list[k])
                                    /\ p + 1 < k => ToShow(g, list[k])
        BY <1>1, <1>2
    <2>8. StandsAt(g, list, p + 1)
        BY <2>5, <2>6, <2>7 DEF StandsAt
    <2>9. g.it \in Nat
        BY <1>1, <2>5
    <2> QED
        BY <2>5, <2>8, <2>9 DEF Stands, Gone
<1> QED
    BY <1>3, <1>4

\* A loop begins with the first query of its list, all of them to be shown.
LEMMA LoopStands ==
    ASSUME LoopsInv, NEW l \in Lists
    PROVE  /\ Loop(l) \in Frames /\ Loop(l).list = l
           /\ FrameOK(Loop(l)) /\ Stands(Loop(l), queries[l])
<1> DEFINE list == queries[l]
           f == Loop(l)
<1>1. /\ list \in Seq(Nat) /\ Len(list) \in Nat /\ DOMAIN list = 1 .. Len(list)
      /\ \A k \in 1 .. Len(list) : list[k] \in Nat
      /\ Distinct(list, nextQuery) /\ nextQuery \in Nat
    <2>1. list \in Seq(Nat)
        BY DEF LoopsInv, LoopsTypeOK
    <2> QED
        BY <2>1, LenProperties, ElementOfSeq DEF LoopsInv, LoopsTypeOK
<1>2. /\ f.list = l /\ f.it = First(list) /\ f.inside = FALSE /\ f.calls = End
      /\ f.began = ToSet(list) /\ f.done = {}
    BY DEF Loop
<1>3. First(list) \in Int /\ First(list) # Gone
    <2>1. CASE list = <<>>
        BY <2>1 DEF First, End, Gone
    <2>2. CASE list # <<>>
        <3>1. 1 \in 1 .. Len(list)
            BY <1>1, <2>2, EmptySeq
        <3> QED
            BY <1>1, <2>2, <3>1 DEF First, Gone
    <2> QED
        BY <2>1, <2>2
<1>4. ToSet(list) \subseteq 0 .. nextQuery - 1 /\ \A k \in 1 .. Len(list) : list[k] \in ToSet(list)
    <2>1. ASSUME NEW q \in ToSet(list) PROVE q \in 0 .. nextQuery - 1
        <3>1. PICK k \in 1 .. Len(list) : list[k] = q
            BY <1>1 DEF ToSet
        <3>2. list[k] < nextQuery /\ list[k] \in Nat
            BY <1>1 DEF Distinct
        <3> QED
            BY <1>1, <3>1, <3>2
    <2> QED
        BY <1>1, <2>1 DEF ToSet
<1>5. f \in Frames
    BY <1>3, <1>4 DEF Loop, Frames, End
<1> HIDE DEF f, list
<1>6. FrameOK(f)
    BY <1>2, <1>3, <1>4 DEF FrameOK
<1>7. Stands(f, list)
    <2>1. CASE list = <<>>
        <3>1. f.it = End /\ Len(list) = 0
            BY <1>2, <2>1 DEF First
        <3> QED
            BY <3>1 DEF Stands
    <2>2. CASE list # <<>>
        <3>1. 1 \in 1 .. Len(list) /\ f.it = list[1]
            BY <1>1, <1>2, <2>2, EmptySeq DEF First
        <3>2. \A k \in 1 .. Len(list) : ToShow(f, list[k])
            BY <1>2, <1>4 DEF ToShow
        <3>3. StandsAt(f, list, 1)
            BY <1>1, <1>2, <3>1, <3>2 DEF StandsAt
        <3> QED
            BY <3>1, <3>3 DEF Stands
    <2> QED
        BY <2>1, <2>2
<1> QED
    BY <1>2, <1>5, <1>6, <1>7 DEF f, list
-----------------------------------------------------------------------------
(* The stack of loops                                                       *)

LEMMA Pushed ==
    ASSUME NEW s \in Seq(Frames), NEW f \in Frames
    PROVE  /\ Append(s, f) \in Seq(Frames)
           /\ Len(Append(s, f)) = Len(s) + 1
           /\ Append(s, f)[Len(s) + 1] = f
           /\ \A i \in 1 .. Len(s) : Append(s, f)[i] = s[i]
           /\ Len(s) \in Nat
BY AppendProperties, LenProperties

LEMMA Popped ==
    ASSUME NEW s \in Seq(Frames), s # <<>>
    PROVE  /\ Front(s) \in Seq(Frames)
           /\ Len(Front(s)) = Len(s) - 1
           /\ Len(s) \in Nat /\ Len(s) \in 1 .. Len(s)
           /\ \A i \in 1 .. Len(s) - 1 : Front(s)[i] = s[i]
           /\ Last(s) = s[Len(s)] /\ Last(s) \in Frames
<1>1. Len(s) \in Nat /\ Len(s) # 0
    BY LenProperties, EmptySeq
<1>2. Len(s) \in 1 .. Len(s)
    BY <1>1
<1>3. Front(s) = SubSeq(s, 1, Len(s) - 1)
    BY DEF Front
<1>4. /\ SubSeq(s, 1, Len(s) - 1) \in Seq(Frames)
      /\ Len(SubSeq(s, 1, Len(s) - 1)) = Len(s) - 1
      /\ \A i \in 1 .. Len(s) - 1 : SubSeq(s, 1, Len(s) - 1)[i] = s[i]
    <2> DEFINE n == Len(s) - 1
               t == SubSeq(s, 1, n)
    <2>1. n \in 1 - 1 .. Len(s) /\ 1 \in 1 .. Len(s) + 1 /\ n \in Nat /\ n - 1 + 1 = n
        BY <1>1
    <2> HIDE DEF n
    <2>2. /\ t \in Seq(Frames)
          /\ Len(t) = IF 1 <= n THEN n - 1 + 1 ELSE 0
          /\ \A i \in 1 .. n - 1 + 1 : t[i] = s[1 + i - 1]
        BY <2>1, SubSeqProperties
    <2> HIDE DEF t
    <2>3. Len(t) = n /\ \A i \in 1 .. n : 1 + i - 1 = i
        BY <2>1, <2>2
    <2>4. t \in Seq(Frames) /\ Len(t) = n /\ \A i \in 1 .. n : t[i] = s[i]
        BY <2>1, <2>2, <2>3
    <2> QED
        BY <2>4 DEF n, t
<1>5. Last(s) = s[Len(s)] /\ s[Len(s)] \in Frames
    BY <1>2, ElementOfSeq DEF Last
<1> QED
    BY <1>1, <1>2, <1>3, <1>4, <1>5

\* A new loop begins where a function is called, or where none runs.
LEMMA PushKeeps ==
    ASSUME LoopsInv, NEW l \in Lists, running = <<>> \/ Top.inside,
           running' = Append(running, Loop(l)),
           UNCHANGED <<queryVars, fault>>
    PROVE  LoopsInv'
<1>1. running \in Seq(Frames) /\ Loop(l) \in Frames /\ Loop(l).list = l
      /\ FrameOK(Loop(l)) /\ Stands(Loop(l), queries[l])
    BY LoopStands DEF LoopsInv, LoopsTypeOK
<1> DEFINE f == Loop(l)
<1> HIDE DEF f
<1>2. /\ running' \in Seq(Frames)
      /\ Len(running') = Len(running) + 1
      /\ running'[Len(running) + 1] = f
      /\ \A i \in 1 .. Len(running) : running'[i] = running[i]
      /\ Len(running) \in Nat
    BY <1>1, Pushed DEF f
<1>3. UNCHANGED <<queries, nextQuery, deleted, misused, fault>>
    BY DEF queryVars
<1>4. ASSUME NEW i \in 1 .. Len(running') - 1
      PROVE  running'[i].inside
    <2>1. i \in 1 .. Len(running) /\ running'[i] = running[i]
        BY <1>2
    <2>2. CASE i = Len(running)
        <3>1. running # <<>>
            BY <1>1, <1>2, <2>1, <2>2, EmptySeq
        <3>2. Top = running[Len(running)]
            BY <1>1, <3>1, Popped DEF Top
        <3> QED
            BY <2>1, <2>2, <3>1, <3>2
    <2>3. CASE i # Len(running)
        <3>1. i \in 1 .. Len(running) - 1
            BY <1>2, <2>1, <2>3
        <3> QED
            BY <2>1, <3>1 DEF LoopsInv
    <2> QED
        BY <2>2, <2>3
<1>5. ASSUME NEW i \in 1 .. Len(running')
      PROVE  (FrameOK(running[i]) /\ Stands(running[i], queries[running[i].list]))'
    <2>1. CASE i = Len(running) + 1
        <3>1. running'[i] = f
            BY <1>2, <2>1
        <3> QED
            BY <1>1, <1>3, <3>1 DEF FrameOK, f
    <2>2. CASE i # Len(running) + 1
        <3>1. i \in 1 .. Len(running) /\ running'[i] = running[i]
            BY <1>2, <2>2
        <3> QED
            BY <1>3, <3>1 DEF FrameOK, LoopsInv
    <2> QED
        BY <2>1, <2>2
<1>6. LoopsTypeOK'
    BY <1>2, <1>3 DEF LoopsInv, LoopsTypeOK
<1> QED
    BY <1>3, <1>4, <1>5, <1>6 DEF LoopsInv

\* A turn of the innermost loop
LEMMA TurnKeeps ==
    ASSUME LoopsInv, running # <<>>, NEW f \in Frames, ReplaceTop(f),
           FrameOK(f), Stands(f, queries[f.list]),
           UNCHANGED <<queryVars, fault>>
    PROVE  LoopsInv'
<1>1. running \in Seq(Frames)
    BY DEF LoopsInv, LoopsTypeOK
<1>2. /\ running' \in Seq(Frames)
      /\ Len(running') = Len(running)
      /\ running'[Len(running)] = f
      /\ \A i \in 1 .. Len(running) - 1 : running'[i] = running[i]
      /\ Len(running) \in Nat
    <2>1. /\ Front(running) \in Seq(Frames) /\ Len(running) \in Nat
          /\ Len(Front(running)) = Len(running) - 1
          /\ \A i \in 1 .. Len(running) - 1 : Front(running)[i] = running[i]
        BY <1>1, Popped
    <2>2. running' = Append(Front(running), f)
        BY DEF ReplaceTop
    <2>3. /\ Append(Front(running), f) \in Seq(Frames)
          /\ Len(Append(Front(running), f)) = Len(Front(running)) + 1
          /\ Append(Front(running), f)[Len(Front(running)) + 1] = f
          /\ \A i \in 1 .. Len(Front(running)) :
                Append(Front(running), f)[i] = Front(running)[i]
        BY <2>1, Pushed
    <2> QED
        BY <2>1, <2>2, <2>3
<1>3. UNCHANGED <<queries, nextQuery, deleted, misused, fault>>
    BY DEF queryVars
<1>4. ASSUME NEW i \in 1 .. Len(running')
      PROVE  (FrameOK(running[i]) /\ Stands(running[i], queries[running[i].list]))'
    <2>1. CASE i = Len(running)
        BY <1>2, <1>3, <2>1 DEF FrameOK
    <2>2. CASE i # Len(running)
        <3>1. i \in 1 .. Len(running) /\ running'[i] = running[i]
            BY <1>2, <2>2
        <3> QED
            BY <1>3, <3>1 DEF FrameOK, LoopsInv
    <2> QED
        BY <2>1, <2>2
<1>5. LoopsTypeOK'
    BY <1>2, <1>3 DEF LoopsInv, LoopsTypeOK
<1> QED
    BY <1>2, <1>3, <1>4, <1>5 DEF LoopsInv

\* The innermost loop, and what it does in a turn
LEMMA TopHolds ==
    ASSUME LoopsInv, running # <<>>
    PROVE  /\ Top \in Frames /\ FrameOK(Top) /\ Stands(Top, queries[Top.list])
           /\ queries[Top.list] \in Seq(Nat)
           /\ Distinct(queries[Top.list], nextQuery) /\ nextQuery \in Nat
<1>1. running \in Seq(Frames)
    BY DEF LoopsInv, LoopsTypeOK
<1>2. Top = running[Len(running)] /\ Len(running) \in 1 .. Len(running) /\ Top \in Frames
    BY <1>1, Popped DEF Top
<1>3. Top.list \in Lists
    BY <1>2 DEF Frames
<1> QED
    BY <1>2, <1>3 DEF LoopsInv, LoopsTypeOK

LEMMA CallKeeps ==
    ASSUME LoopsInv, checkMatches
    PROVE  LoopsInv'
<1> DEFINE f == [Top EXCEPT !.inside = TRUE, !.calls = Top.it,
                            !.done = @ \cup {Top.it}]
<1>1. /\ running # <<>> /\ ~ Top.inside /\ Top.it # End
      /\ ReplaceTop(f) /\ UNCHANGED <<queryVars, fault>>
    BY DEF checkMatches, AtAQuery
<1>2. /\ Top \in Frames /\ FrameOK(Top) /\ Stands(Top, queries[Top.list])
      /\ queries[Top.list] \in Seq(Nat)
    BY <1>1, TopHolds
<1>3. Top.it # Gone
    BY <1>1, <1>2 DEF FrameOK
<1>4. PICK p \in 1 .. Len(queries[Top.list]) : StandsAt(Top, queries[Top.list], p)
    BY <1>1, <1>2, <1>3 DEF Stands
<1>5. Top.it \in Top.began /\ Top.began \subseteq Nat
    BY <1>1, <1>2, <1>4 DEF StandsAt, ToShow, Frames
<1>6. /\ f \in Frames /\ f.it = Top.it /\ f.inside = TRUE /\ f.calls = Top.it
      /\ f.began = Top.began /\ f.done = Top.done \cup {Top.it} /\ f.list = Top.list
    BY <1>2, <1>5 DEF Frames
<1> HIDE DEF f
<1>7. FrameOK(f)
    BY <1>2, <1>3, <1>5, <1>6 DEF FrameOK
<1>8. StandsAt(f, queries[f.list], p)
    <2> DEFINE list == queries[Top.list]
    <2>1. /\ list[p] = Top.it /\ Shown(f, list[p])
          /\ \A k \in 1 .. Len(list) : k < p => Shown(f, list[k])
        BY <1>4, <1>6 DEF StandsAt, Shown
    <2>2. \A k \in 1 .. Len(list) : p < k => ToShow(f, list[k])
        <3> SUFFICES ASSUME NEW k \in 1 .. Len(list), p < k
                     PROVE  ToShow(f, list[k])
            OBVIOUS
        <3>1. ToShow(Top, list[k])
            BY <1>4 DEF StandsAt
        <3>2. list[k] # list[p]
            BY <1>1, TopHolds DEF Distinct
        <3> QED
            BY <1>6, <2>1, <3>1, <3>2 DEF ToShow
    <2> QED
        BY <1>4, <1>6, <2>1, <2>2 DEF StandsAt
<1>9. Stands(f, queries[f.list])
    BY <1>6, <1>8 DEF Stands
<1> QED
    BY <1>1, <1>6, <1>7, <1>9, TurnKeeps

LEMMA PassKeeps ==
    ASSUME LoopsInv, checkFails
    PROVE  LoopsInv'
<1> DEFINE list == queries[Top.list]
           g == [Top EXCEPT !.done = @ \cup {Top.it}]
           f == [Top EXCEPT !.it = After(list, Top.it), !.done = @ \cup {Top.it}]
<1>1. /\ running # <<>> /\ ~ Top.inside /\ Top.it # End
      /\ ReplaceTop(f) /\ UNCHANGED <<queryVars, fault>>
    BY DEF checkFails, AtAQuery
<1>2. /\ Top \in Frames /\ FrameOK(Top) /\ Stands(Top, list)
      /\ list \in Seq(Nat) /\ Distinct(list, nextQuery) /\ nextQuery \in Nat
    BY <1>1, TopHolds
<1> HIDE DEF list
<1>3. Top.it # Gone
    BY <1>1, <1>2 DEF FrameOK
<1>4. PICK p \in 1 .. Len(list) : StandsAt(Top, list, p)
    BY <1>1, <1>2, <1>3 DEF Stands
<1>5. Top.it \in Top.began /\ Top.began \subseteq Nat /\ list[p] = Top.it
    BY <1>1, <1>2, <1>4 DEF StandsAt, ToShow, Frames
<1>6. /\ g \in Frames /\ g.it = Top.it /\ g.inside = FALSE
      /\ g.began = Top.began /\ g.done = Top.done \cup {Top.it} /\ g.list = Top.list
    BY <1>1, <1>2, <1>5 DEF Frames
<1>7. After(list, Top.it) \in Int
    BY <1>2, <1>5, AfterIsThere
<1>8. /\ f \in Frames /\ f.it = After(list, Top.it) /\ ~ f.inside
      /\ f.began = Top.began /\ f.done = g.done /\ f.list = Top.list
    BY <1>1, <1>2, <1>5, <1>7 DEF Frames
<1> HIDE DEF f, g
<1>9. ASSUME NEW k \in 1 .. Len(list)
      PROVE  (k <= p => Shown(g, list[k])) /\ (p < k => ToShow(g, list[k]))
    <2>1. CASE k < p
        BY <1>4, <1>6, <2>1 DEF StandsAt, Shown
    <2>2. CASE k = p
        BY <1>5, <1>6, <2>2 DEF Shown
    <2>3. CASE p < k
        <3>1. ToShow(Top, list[k])
            BY <1>4, <2>3 DEF StandsAt
        <3>2. list[k] # list[p]
            BY <1>2, <2>3 DEF Distinct
        <3> QED
            BY <1>5, <1>6, <2>3, <3>1, <3>2 DEF ToShow
    <2> QED
        BY <2>1, <2>2, <2>3
<1>10. Stands(f, list) /\ f.it # Gone
    BY <1>2, <1>5, <1>6, <1>8, <1>9, StandsAfter
<1>11. FrameOK(f)
    BY <1>2, <1>5, <1>6, <1>8, <1>10 DEF FrameOK
<1> QED
    BY <1>1, <1>8, <1>10, <1>11, TurnKeeps DEF list

LEMMA ReturnKeeps ==
    ASSUME LoopsInv, returns
    PROVE  LoopsInv'
<1> DEFINE list == queries[Top.list]
           f == [Top EXCEPT !.inside = FALSE, !.calls = End,
                            !.it = After(list, Top.it)]
<1>1. /\ running # <<>> /\ Top.inside /\ Top.it # Gone
      /\ ReplaceTop(f) /\ UNCHANGED <<queryVars, fault>>
    BY DEF returns
<1>2. /\ Top \in Frames /\ FrameOK(Top) /\ Stands(Top, list)
      /\ list \in Seq(Nat) /\ Distinct(list, nextQuery) /\ nextQuery \in Nat
    BY <1>1, TopHolds
<1> HIDE DEF list
<1>3. ASSUME After(list, Top.it) \in Int
      PROVE  /\ f \in Frames /\ f.it = After(list, Top.it) /\ ~ f.inside
             /\ f.began = Top.began /\ f.done = Top.done /\ f.list = Top.list
    <2>1. End \in Int /\ Top \in Frames
        BY <1>2 DEF End
    <2>2. /\ f \in Frames /\ f.it = After(list, Top.it) /\ f.inside = FALSE
          /\ f.began = Top.began /\ f.done = Top.done /\ f.list = Top.list
        BY <1>3, <2>1 DEF Frames
    <2> QED
        BY <2>2
<1>4. CASE Top.it = End /\ \A k \in 1 .. Len(list) : Shown(Top, list[k])
    <2>1. After(list, Top.it) = End /\ End \in Int /\ End # Gone
        BY <1>4 DEF After, End, Gone
    <2>2. /\ f \in Frames /\ f.it = End /\ ~ f.inside
          /\ f.began = Top.began /\ f.done = Top.done /\ f.list = Top.list
        BY <1>3, <2>1
    <2> HIDE DEF f
    <2>3. Stands(f, list) /\ FrameOK(f)
        BY <1>2, <1>4, <2>1, <2>2 DEF Stands, Shown, FrameOK
    <2> QED
        BY <1>1, <2>2, <2>3, TurnKeeps DEF list
<1>5. ASSUME NEW p \in 1 .. Len(list), StandsAt(Top, list, p)
      PROVE  LoopsInv'
    <2>1. list[p] = Top.it /\ After(list, Top.it) \in Int
        BY <1>2, <1>5, AfterIsThere DEF StandsAt
    <2>2. /\ f \in Frames /\ f.it = After(list, Top.it) /\ ~ f.inside
          /\ f.began = Top.began /\ f.done = Top.done /\ f.list = Top.list
        BY <1>3, <2>1
    <2> HIDE DEF f
    <2>3. \A k \in 1 .. Len(list) : /\ k <= p => Shown(Top, list[k])
                                    /\ p < k => ToShow(Top, list[k])
        <3> SUFFICES ASSUME NEW k \in 1 .. Len(list)
                     PROVE  /\ k <= p => Shown(Top, list[k])
                            /\ p < k => ToShow(Top, list[k])
            OBVIOUS
        <3>1. k <= p => k < p \/ k = p
            OBVIOUS
        <3> QED
            BY <1>1, <1>5, <3>1 DEF StandsAt
    <2>4. Stands(f, list) /\ f.it # Gone
        BY <1>2, <2>1, <2>2, <2>3, StandsAfter
    <2>5. FrameOK(f)
        BY <1>2, <2>2, <2>4 DEF FrameOK
    <2> QED
        BY <1>1, <2>2, <2>4, <2>5, TurnKeeps DEF list
<1> QED
    BY <1>1, <1>2, <1>4, <1>5 DEF Stands

LEMMA FaultKeeps ==
    ASSUME LoopsInv, faults
    PROVE  LoopsInv'
<1>1. /\ running # <<>> /\ UNCHANGED <<queries, nextQuery, deleted, misused, running>>
      /\ fault' = TRUE /\ (Top.it = Gone \/ Top.it \in deleted)
    BY DEF faults, queryVars
<1>2. FrameOK(Top)
    BY <1>1, TopHolds
<1>3. misused
    BY <1>1, <1>2 DEF FrameOK, LoopsInv
<1> QED
    BY <1>1, <1>3 DEF LoopsInv, LoopsTypeOK, FrameOK

LEMMA EndKeeps ==
    ASSUME LoopsInv, endLoop
    PROVE  LoopsInv'
<1>1. /\ running # <<>> /\ running' = Front(running)
      /\ UNCHANGED <<queries, nextQuery, deleted, misused, fault>>
    BY DEF endLoop, queryVars
<1>2. running \in Seq(Frames)
    BY DEF LoopsInv, LoopsTypeOK
<1>3. /\ running' \in Seq(Frames) /\ Len(running') = Len(running) - 1
      /\ \A i \in 1 .. Len(running) - 1 : running'[i] = running[i]
      /\ Len(running) \in Nat
    BY <1>1, <1>2, Popped
<1>4. ASSUME NEW i \in 1 .. Len(running')
      PROVE  (FrameOK(running[i]) /\ Stands(running[i], queries[running[i].list]))'
    <2>1. i \in 1 .. Len(running) /\ running'[i] = running[i]
        BY <1>3
    <2> QED
        BY <1>1, <2>1 DEF FrameOK, LoopsInv
<1>5. ASSUME NEW i \in 1 .. Len(running') - 1
      PROVE  running'[i].inside
    <2>1. i \in 1 .. Len(running) - 1 /\ running'[i] = running[i]
        BY <1>3
    <2> QED
        BY <2>1 DEF LoopsInv
<1>6. LoopsTypeOK'
    BY <1>1, <1>3 DEF LoopsInv, LoopsTypeOK
<1> QED
    BY <1>1, <1>4, <1>5, <1>6 DEF LoopsInv

-----------------------------------------------------------------------------
(* The calls of the application                                             *)

LEMMA RegisterKeeps ==
    ASSUME LoopsInv, NEW l \in Lists, registerXPath(l)
    PROVE  LoopsInv'
<1>1. /\ queries' = [queries EXCEPT ![l] = <<nextQuery>> \o @]
      /\ nextQuery' = nextQuery + 1
      /\ UNCHANGED <<deleted, misused, running, fault>>
    BY DEF registerXPath
<1>2. LoopsTypeOK /\ queries[l] \in Seq(Nat) /\ nextQuery \in Nat
    BY DEF LoopsInv, LoopsTypeOK
<1>3. /\ <<nextQuery>> \o queries[l] \in Seq(Nat)
      /\ Distinct(<<nextQuery>> \o queries[l], nextQuery + 1)
    BY <1>2, InFrontKeeps DEF LoopsInv
<1>4. /\ queries'[l] = <<nextQuery>> \o queries[l]
      /\ \A m \in Lists : m # l => queries'[m] = queries[m]
      /\ queries' \in [Lists -> Seq(Nat)]
    BY <1>1, <1>2, <1>3 DEF LoopsTypeOK
<1>5. ASSUME NEW m \in Lists PROVE Distinct(queries'[m], nextQuery')
    <2>1. CASE m = l
        BY <1>1, <1>3, <1>4, <2>1
    <2>2. CASE m # l
        <3>1. queries'[m] = queries[m] /\ queries[m] \in Seq(Nat)
              /\ Distinct(queries[m], nextQuery)
            BY <1>2, <1>4, <2>2 DEF LoopsInv, LoopsTypeOK
        <3>2. \A k \in 1 .. Len(queries[m]) : queries[m][k] \in Nat
            BY <3>1, ElementOfSeq
        <3>3. \A k \in 1 .. Len(queries[m]) : queries[m][k] < nextQuery + 1
            BY <1>2, <3>1, <3>2 DEF Distinct
        <3>4. Distinct(queries[m], nextQuery + 1)
            BY <3>1, <3>3 DEF Distinct
        <3> QED
            BY <1>1, <3>1, <3>4
    <2> QED
        BY <2>1, <2>2
<1>6. ASSUME NEW i \in 1 .. Len(running)
      PROVE  (FrameOK(running[i]) /\ Stands(running[i], queries[running[i].list]))'
    <2> DEFINE f == running[i]
    <2>1. f \in Frames
        BY ElementOfSeq DEF LoopsInv, LoopsTypeOK
    <2>2. FrameOK(f) /\ Stands(f, queries[f.list]) /\ f.list \in Lists
        BY <2>1 DEF LoopsInv, Frames
    <2>3. running'[i] = f
        BY <1>1
    <2> HIDE DEF f
    <2>4. f.began \subseteq 0 .. nextQuery' - 1
        BY <1>1, <1>2, <2>2 DEF FrameOK
    <2>5. (FrameOK(running[i]))'
        <3>1. /\ f.inside => f.it \in {f.calls, Gone}
              /\ f.it = Gone => f.inside /\ misused'
              /\ f.done \subseteq f.began
            BY <1>1, <2>2 DEF FrameOK
        <3> QED
            BY <2>3, <2>4, <3>1 DEF FrameOK
    <2>6. Stands(f, queries'[f.list])
        <3>1. CASE f.list = l
            BY <1>2, <1>4, <2>1, <2>2, <3>1, StandsInFront DEF FrameOK
        <3>2. CASE f.list # l
            BY <1>4, <2>2, <3>2
        <3> QED
            BY <3>1, <3>2
    <2> QED
        BY <2>3, <2>5, <2>6
<1>7. LoopsTypeOK'
    BY <1>1, <1>2, <1>4 DEF LoopsTypeOK
<1> QED
    BY <1>1, <1>5, <1>6, <1>7 DEF LoopsInv

LEMMA UnregisterKeeps ==
    ASSUME LoopsInv, NEW q \in Nat, NEW l \in Lists, unregisterXPath(q, l)
    PROVE  LoopsInv'
<1> DEFINE lost(i) == running[i].list = l /\ running[i].it = q
<1>1. /\ HasControl
      /\ queries' = [queries EXCEPT ![l] = Erased(@, q)]
      /\ deleted' = IF q \in ToSet(queries[l]) THEN deleted ELSE deleted \cup {q}
      /\ misused' = \/ misused
                    \/ q \notin ToSet(queries[l])
                    \/ \E i \in DOMAIN running : running[i].calls = q /\ running[i].inside
      /\ running' = [i \in DOMAIN running |->
                        IF lost(i) THEN [running[i] EXCEPT !.it = Gone] ELSE running[i]]
      /\ UNCHANGED <<nextQuery, fault>>
    BY DEF unregisterXPath
<1>2. LoopsTypeOK /\ queries[l] \in Seq(Nat) /\ nextQuery \in Nat
    BY DEF LoopsInv, LoopsTypeOK
<1>3. /\ Len(running) \in Nat /\ DOMAIN running = 1 .. Len(running)
      /\ \A i \in 1 .. Len(running) : running[i] \in Frames
    BY <1>2, LenProperties, ElementOfSeq DEF LoopsTypeOK
<1>4. /\ Erased(queries[l], q) \in Seq(Nat)
      /\ Distinct(Erased(queries[l], q), nextQuery)
    BY <1>2, ErasedKeeps DEF LoopsInv
<1>5. /\ queries'[l] = Erased(queries[l], q)
      /\ \A m \in Lists : m # l => queries'[m] = queries[m]
      /\ queries' \in [Lists -> Seq(Nat)]
    BY <1>1, <1>2, <1>4 DEF LoopsTypeOK
<1>6. ASSUME NEW i \in 1 .. Len(running) PROVE running[i].inside
    <2>1. CASE i = Len(running)
        <3>1. running # <<>> /\ running \in Seq(Frames)
            BY <1>2, <1>3, EmptySeq DEF LoopsTypeOK
        <3>2. Top = running[i]
            BY <2>1, <3>1, Popped DEF Top
        <3> QED
            BY <1>1, <3>1, <3>2 DEF HasControl
    <2>2. CASE i # Len(running)
        <3>1. Len(running) \in Nat
            BY <1>3
        <3>2. i \in 1 .. Len(running) - 1
            BY <2>2, <3>1
        <3> QED
            BY <3>2 DEF LoopsInv
    <2> QED
        BY <2>1, <2>2
<1>7. ASSUME NEW i \in 1 .. Len(running), lost(i) PROVE misused'
    <2>1. running[i].inside /\ FrameOK(running[i]) /\ q # Gone
        BY <1>6 DEF LoopsInv, Gone
    <2>2. running[i].calls = q
        BY <1>7, <2>1 DEF FrameOK
    <2> QED
        BY <1>1, <1>3, <2>1, <2>2
<1>8. misused' \in BOOLEAN /\ (misused => misused')
    BY <1>1, <1>2 DEF LoopsTypeOK
<1>9. /\ \A i \in 1 .. Len(running) :
            /\ running'[i] \in Frames
            /\ running'[i] = IF lost(i) THEN [running[i] EXCEPT !.it = Gone] ELSE running[i]
      /\ Len(running') = Len(running)
      /\ running' \in Seq(Frames)
    <2>1. ASSUME NEW i \in 1 .. Len(running)
          PROVE  /\ running'[i] = IF lost(i) THEN [running[i] EXCEPT !.it = Gone]
                                             ELSE running[i]
                 /\ running'[i] \in Frames
        <3> HIDE DEF lost
        <3>1. running'[i] = IF lost(i) THEN [running[i] EXCEPT !.it = Gone]
                                       ELSE running[i]
            BY <1>1, <1>3
        <3>2. Gone \in Int
            BY DEF Gone
        <3>3. [running[i] EXCEPT !.it = Gone] \in Frames
            BY <1>3, <3>2 DEF Frames
        <3> QED
            BY <1>3, <3>1, <3>3
    <2> HIDE DEF lost
    <2>2. running' \in [1 .. Len(running) -> Frames]
        BY <1>1, <1>3, <2>1
    <2>3. running' \in Seq(Frames) /\ Len(running') = Len(running)
        <3>1. running' \in Seq(Frames)
            BY <1>3, <2>2, IsASeq
        <3>2. DOMAIN running' = 1 .. Len(running)
            BY <2>2
        <3> QED
            BY <1>3, <3>1, <3>2, LenProperties
    <2> QED
        BY <2>1, <2>3
<1>10. ASSUME NEW i \in 1 .. Len(running)
       PROVE  (FrameOK(running[i]) /\ Stands(running[i], queries[running[i].list]))'
    <2> DEFINE f == running[i]
               g == running'[i]
    <2>1. f \in Frames /\ g \in Frames /\ FrameOK(f) /\ Stands(f, queries[f.list])
          /\ f.list \in Lists /\ f.inside
        BY <1>3, <1>6, <1>9 DEF LoopsInv, Frames
    <2>2. CASE lost(i)
        <3>1. g = [f EXCEPT !.it = Gone]
            BY <1>9, <2>2
        <3>2. /\ g.it = Gone /\ g.inside = f.inside
              /\ g.began = f.began /\ g.done = f.done
            BY <2>1, <3>1 DEF Frames
        <3>3. misused'
            BY <1>7, <2>2
        <3> HIDE DEF f, g
        <3>4. Stands(g, queries'[g.list])
            BY <3>2 DEF Stands
        <3>5. /\ g.inside => g.it \in {g.calls, Gone}
              /\ g.it = Gone => g.inside /\ misused'
              /\ g.began \subseteq 0 .. nextQuery - 1 /\ g.done \subseteq g.began
            BY <2>1, <3>2, <3>3 DEF FrameOK
        <3> QED
            BY <1>1, <3>4, <3>5 DEF FrameOK, g
    <2>3. CASE ~ lost(i)
        <3>1. g = f
            BY <1>9, <2>3
        <3>2. f.list = l => f.it # q
            BY <2>3
        <3> HIDE DEF f
        <3>3. Stands(f, queries'[f.list])
            <4>1. CASE f.list = l
                BY <1>2, <1>5, <2>1, <3>2, <4>1, StandsErased DEF LoopsInv
            <4>2. CASE f.list # l
                BY <1>5, <2>1, <4>2
            <4> QED
                BY <4>1, <4>2
        <3>4. /\ f.inside => f.it \in {f.calls, Gone}
              /\ f.it = Gone => f.inside /\ misused'
              /\ f.began \subseteq 0 .. nextQuery - 1 /\ f.done \subseteq f.began
            BY <1>8, <2>1 DEF FrameOK
        <3> QED
            BY <1>1, <3>1, <3>3, <3>4 DEF FrameOK
    <2> QED
        BY <2>2, <2>3
<1>11. ASSUME NEW i \in 1 .. Len(running) PROVE running'[i].inside
    <2>1. running[i].inside /\ running[i] \in Frames
        BY <1>3, <1>6
    <2> QED
        BY <1>9, <2>1 DEF Frames
<1>12. LoopsTypeOK'
    BY <1>1, <1>2, <1>5, <1>8, <1>9 DEF LoopsTypeOK
<1>13. /\ \A m \in Lists : Distinct(queries'[m], nextQuery')
       /\ deleted' # {} => misused'
       /\ fault' => misused'
    BY <1>1, <1>4, <1>5, <1>8 DEF LoopsInv
<1> HIDE DEF lost
<1> QED
    BY <1>3, <1>9, <1>10, <1>11, <1>12, <1>13 DEF LoopsInv

-----------------------------------------------------------------------------
(* The specification                                                        *)

LEMMA LoopsInit ==
    ASSUME DispatchInit
    PROVE  LoopsInv
<1>1. /\ queries = [l \in Lists |-> <<>>] /\ nextQuery = 0 /\ deleted = {}
      /\ running = <<>> /\ misused = FALSE /\ fault = FALSE
    BY DEF DispatchInit
<1>2. <<>> \in Seq(Nat) /\ <<>> \in Seq(Frames) /\ Len(<<>>) = 0
    BY EmptySeq
<1>3. LoopsTypeOK
    BY <1>1, <1>2 DEF LoopsTypeOK
<1>4. \A l \in Lists : Distinct(queries[l], nextQuery)
    BY <1>1, <1>2 DEF Distinct
<1> QED
    BY <1>1, <1>2, <1>3, <1>4 DEF LoopsInv

LEMMA LoopsStep ==
    ASSUME LoopsInv, [DispatchNext]_allVars
    PROVE  LoopsInv'
<1>0. ASSUME UNCHANGED <<queryVars, running, fault>> PROVE LoopsInv'
    <2>1. UNCHANGED <<queries, nextQuery, deleted, misused, running, fault>>
        BY <1>0 DEF queryVars
    <2> QED
        BY <2>1 DEF LoopsInv, LoopsTypeOK, FrameOK
<1>1. ASSUME NEW l \in Lists, registerXPath(l) PROVE LoopsInv'
    BY <1>1, RegisterKeeps
<1>2. ASSUME NEW q \in 0 .. MaxQueries - 1, NEW l \in Lists, unregisterXPath(q, l)
      PROVE  LoopsInv'
    <2>1. q \in Nat
        BY DispatchAssumption
    <2> QED
        BY <1>2, <2>1, UnregisterKeeps
<1>3. CASE send
    <2>1. running = <<>> \/ Top.inside
        BY <1>3 DEF send, MayCall, HasControl
    <2>2. /\ running' = Append(running, Loop("outgoing"))
          /\ UNCHANGED <<queryVars, fault>> /\ "outgoing" \in Lists
        BY <1>3 DEF send, Lists
    <2> QED
        BY <2>1, <2>2, PushKeeps
<1>4. CASE queryAndSend
    BY <1>0, <1>4 DEF queryAndSend
<1>5. CASE receive
    BY <1>0, <1>5 DEF receive
<1>6. CASE runCallbacks
    BY <1>0, <1>6 DEF runCallbacks
<1>7. CASE runQueries
    <2>1. /\ running = <<>> /\ running' = <<Loop("incoming")>>
          /\ UNCHANGED <<queryVars, fault>> /\ "incoming" \in Lists
        BY <1>7 DEF runQueries, Lists
    <2>2. running' = Append(running, Loop("incoming"))
        <3>1. \A f : Append(<<>>, f) = <<f>>
            OBVIOUS
        <3> QED
            BY <2>1, <3>1
    <2> QED
        BY <2>1, <2>2, PushKeeps
<1>8. CASE Turn
    BY <1>8, CallKeeps, PassKeeps, ReturnKeeps, FaultKeeps, EndKeeps DEF Turn
<1>9. CASE UNCHANGED allVars
    BY <1>0, <1>9 DEF allVars
<1> QED
    BY <1>1, <1>2, <1>3, <1>4, <1>5, <1>6, <1>7, <1>8, <1>9 DEF DispatchNext

LEMMA LoopsInvariant == DispatchSpec => []LoopsInv
<1>1. DispatchInit => LoopsInv
    BY LoopsInit
<1>2. LoopsInv /\ [DispatchNext]_allVars => LoopsInv'
    BY LoopsStep
<1> QED
    BY <1>1, <1>2, PTL DEF DispatchSpec

(***************************************************************************)
(* Whatever is registered, unregistered and sent in the functions that are  *)
(* called, and however deep they nest, the loops of dispatch() and of       *)
(* operator<< use what is no longer there only after the application has    *)
(* unregistered a query in its own call, or from a list it is not in.       *)
(***************************************************************************)
THEOREM LoopsFaultByMisuseOnly == DispatchSpec => []FaultsAreMisuse
<1>1. ASSUME LoopsInv PROVE FaultsAreMisuse
    <2>1. DOMAIN running = 1 .. Len(running)
        BY <1>1, LenProperties DEF LoopsInv, LoopsTypeOK
    <2> QED
        BY <1>1, <2>1 DEF FaultsAreMisuse, LoopsInv, FrameOK
<1> QED
    BY <1>1, LoopsInvariant, PTL

(***************************************************************************)
(* However many queries, packets and nested calls there are, each loop      *)
(* shows its packet once to every query that was registered when it began   *)
(* and still is, and to no other.                                           *)
(***************************************************************************)
THEOREM LoopsShowEachOnce == DispatchSpec => []EachQueryOnce
<1>1. ASSUME LoopsInv PROVE EachQueryOnce
    <2> SUFFICES ASSUME NEW i \in DOMAIN running
                 PROVE  /\ running[i].done \subseteq running[i].began
                        /\ ~ running[i].inside => running[i].it \notin running[i].done
                        /\ running[i].it = End =>
                             running[i].began \cap ToSet(queries[running[i].list])
                               \subseteq running[i].done
        BY DEF EachQueryOnce
    <2> DEFINE f == running[i]
               list == queries[f.list]
    <2>1. i \in 1 .. Len(running) /\ f \in Frames
        BY <1>1, LenProperties, ElementOfSeq DEF LoopsInv, LoopsTypeOK
    <2>2. FrameOK(f) /\ Stands(f, list) /\ f.list \in Lists
        BY <1>1, <2>1 DEF LoopsInv, Frames
    <2>3. list \in Seq(Nat)
        BY <1>1, <2>2 DEF LoopsInv, LoopsTypeOK
    <2>4. /\ DOMAIN list = 1 .. Len(list)
          /\ \A k \in 1 .. Len(list) : list[k] \in Nat
        BY <2>3, LenProperties, ElementOfSeq
    <2> HIDE DEF f, list
    <2>5. f.done \subseteq Nat
        BY <2>1 DEF Frames
    <2>6. ASSUME ~ f.inside PROVE f.it \notin f.done
        BY <2>2, <2>5, <2>6 DEF FrameOK, Stands, StandsAt, ToShow, End
    <2>7. ASSUME f.it = End, NEW q \in f.began \cap ToSet(list) PROVE q \in f.done
        <3>1. PICK k \in 1 .. Len(list) : list[k] = q
            BY <2>4, <2>7 DEF ToSet
        <3>2. Shown(f, list[k])
            BY <2>2, <2>4, <2>7 DEF Stands, StandsAt, End, Gone
        <3> QED
            BY <2>7, <3>1, <3>2 DEF Shown
    <2> QED
        BY <2>2, <2>6, <2>7 DEF FrameOK, f, list
<1> QED
    BY <1>1, LoopsInvariant, PTL
-----------------------------------------------------------------------------
(* The texts of ids                                                         *)

DigitsOf(n, g) == IF n < Base THEN <<n>> ELSE Append(g[n \div Base], n % Base)

LEMMA Divided ==
    ASSUME NEW n \in Nat, n >= Base
    PROVE  n \div Base \in 0 .. n - 1 /\ n % Base \in Nat
<1>1. Base \in Nat /\ Base >= 2
    BY IQDispatchAssumption
<1>2. n \div Base \in Int /\ n % Base \in 0 .. Base - 1 /\ n = Base * (n \div Base) + (n % Base)
    BY <1>1
<1>3. PICK q \in Int, r \in 0 .. Base - 1 : q = n \div Base /\ r = n % Base /\ n = Base * q + r
    BY <1>2
<1>4. q >= 0
    BY <1>1, <1>3
<1>5. q < n
    BY <1>1, <1>3, <1>4
<1> QED
    BY <1>1, <1>3, <1>4, <1>5

LEMMA DigitsExist ==
    \E g : g = [n \in 0 .. MaxID |-> DigitsOf(n, g)]
<1> DEFINE Good(m) == \E g : \A n \in 0 .. m : g[n] = DigitsOf(n, g)
           Bad == {m \in 0 .. MaxID : ~ Good(m)}
<1>0. MaxID \in Nat /\ Base \in Nat /\ Base >= 2
    BY IQDispatchAssumption
<1>1. ASSUME NEW m \in 0 .. MaxID, m # 0 => Good(m - 1)
      PROVE  Good(m)
    <2>1. PICK g : m # 0 => \A n \in 0 .. m - 1 : g[n] = DigitsOf(n, g)
        BY <1>1
    <2> DEFINE h == [n \in 0 .. MaxID |-> DigitsOf(n, g)]
    <2>2. ASSUME NEW n \in 0 .. m
          PROVE  h[n] = DigitsOf(n, h)
        <3>1. n \in 0 .. MaxID /\ n \in Nat
            BY <1>0
        <3>2. h[n] = DigitsOf(n, g)
            BY <3>1
        <3>3. CASE n < Base
            BY <3>2, <3>3 DEF DigitsOf
        <3>4. CASE n >= Base
            <4>1. n \div Base \in 0 .. n - 1
                BY <3>1, <3>4, Divided
            <4>2. PICK d : d = n \div Base /\ d \in 0 .. m - 1 /\ d \in 0 .. MaxID /\ m # 0
                BY <1>0, <4>1
            <4>3. h[d] = g[d]
                BY <2>1, <4>2
            <4> HIDE DEF h
            <4> QED
                BY <3>2, <4>2, <4>3 DEF DigitsOf
        <3> QED
            BY <1>0, <3>1, <3>3, <3>4
    <2> HIDE DEF h
    <2> QED
        BY <2>2
<1>2. Bad = {}
    <2> SUFFICES ASSUME Bad # {} PROVE FALSE
        OBVIOUS
    <2>1. PICK m \in Bad : \A k \in Bad : m <= k
        <3>1. Bad \in SUBSET Nat
            OBVIOUS
        <3> QED
            BY <3>1, LeastNatural
    <2>2. m # 0 => m - 1 \in 0 .. MaxID /\ m - 1 \notin Bad
        BY <1>0, <2>1
    <2> HIDE DEF Good
    <2> QED
        BY <2>1, <2>2, <1>1
<1>3. PICK g : \A n \in 0 .. MaxID : g[n] = DigitsOf(n, g)
    BY <1>0, <1>2
<1> DEFINE h == [n \in 0 .. MaxID |-> g[n]]
<1>4. \A n \in 0 .. MaxID : h[n] = DigitsOf(n, h)
    <2>1. \A n \in 0 .. MaxID : n >= Base => n \div Base \in 0 .. MaxID
        BY <1>0, Divided
    <2>2. \A n \in 0 .. MaxID : h[n] = g[n]
        OBVIOUS
    <2> HIDE DEF h
    <2>3. ASSUME NEW n \in 0 .. MaxID
          PROVE  DigitsOf(n, h) = DigitsOf(n, g)
        <3>1. CASE n < Base
            BY <3>1 DEF DigitsOf
        <3>2. CASE n >= Base
            <4>1. PICK d \in 0 .. MaxID : d = n \div Base
                BY <2>1, <3>2
            <4> QED
                BY <2>2, <4>1 DEF DigitsOf
        <3> QED
            BY <1>0, <3>1, <3>2
    <2> QED
        BY <1>3, <2>2, <2>3
<1>5. h = [n \in 0 .. MaxID |-> DigitsOf(n, h)]
    <2>1. h = [n \in 0 .. MaxID |-> h[n]]
        OBVIOUS
    <2> HIDE DEF h
    <2> QED
        BY <2>1, <1>4
<1> QED
    BY <1>5

LEMMA DigitsAre ==
    Digits = [n \in 0 .. MaxID |-> DigitsOf(n, Digits)]
<1> DEFINE D == CHOOSE g : g = [n \in 0 .. MaxID |-> DigitsOf(n, g)]
<1>1. D = [n \in 0 .. MaxID |-> DigitsOf(n, D)]
    BY DigitsExist
<1>2. Digits = D
    BY DEF Digits, DigitsOf
<1> QED
    BY <1>1, <1>2

\* An id is a text of natural numbers.
LEMMA IdTextType ==
    \A n \in 0 .. MaxID : IdText(n) \in Seq(Nat)
<1>0. MaxID \in Nat /\ Base \in Nat /\ Base >= 2
    BY IQDispatchAssumption
<1> DEFINE Bad == {n \in 0 .. MaxID : Digits[n] \notin Seq(Nat)}
<1>1. Bad = {}
    <2> SUFFICES ASSUME Bad # {} PROVE FALSE
        OBVIOUS
    <2>1. PICK m \in Bad : \A k \in Bad : m <= k
        <3>1. Bad \in SUBSET Nat
            OBVIOUS
        <3> QED
            BY <3>1, LeastNatural
    <2>2. Digits[m] = DigitsOf(m, Digits)
        BY <2>1, DigitsAre
    <2>3. m \in Nat
        BY <1>0, <2>1
    <2>4. CASE m < Base
        <3>1. Digits[m] = <<m>>
            BY <2>2, <2>4 DEF DigitsOf
        <3>2. <<m>> \in Seq(Nat)
            BY <2>3
        <3> QED
            BY <2>1, <3>1, <3>2
    <2>5. CASE m >= Base
        <3>1. m \div Base \in 0 .. m - 1 /\ m % Base \in Nat
            BY <2>3, <2>5, Divided
        <3>2. PICK d \in 0 .. m - 1, r \in Nat : d = m \div Base /\ r = m % Base
            BY <3>1
        <3>5. d \in 0 .. MaxID /\ d < m
            BY <1>0, <2>1, <2>3, <3>2
        <3>3. Digits[d] \in Seq(Nat)
            BY <1>0, <2>1, <2>3, <3>2, <3>5
        <3>4. Digits[m] = Append(Digits[d], r)
            BY <1>0, <2>2, <2>3, <2>5, <3>2 DEF DigitsOf
        <3>6. Append(Digits[d], r) \in Seq(Nat)
            BY <3>2, <3>3, AppendProperties
        <3> QED
            BY <2>1, <3>4, <3>6
    <2> QED
        BY <1>0, <2>3, <2>4, <2>5
<1> SUFFICES ASSUME NEW n \in 0 .. MaxID PROVE IdText(n) \in Seq(Nat)
    OBVIOUS
<1>2. Digits[n] \in Seq(Nat)
    BY <1>1
<1>3. CASE Len(Digits[n]) <= Width
    BY <1>2, <1>3 DEF IdText
<1>4. CASE ~(Len(Digits[n]) <= Width)
    <2>1. Width \in Nat /\ Len(Digits[n]) \in Nat
        BY <1>2, IQDispatchAssumption
    <2>2. SubSeq(Digits[n], 1, Width) \in Seq(Nat)
        BY <1>2, <1>4, <2>1
    <2> QED
        BY <1>4, <2>2 DEF IdText
<1> QED
    BY <1>3, <1>4

\* The order of texts is strict and transitive.
LEMMA BeforeItself ==
    ASSUME NEW s \in Seq(Nat)
    PROVE  ~ Before(s, s)
<1> SUFFICES ASSUME NEW i \in 1 .. Len(s), i <= Len(s) => s[i] < s[i]
             PROVE  FALSE
    BY DEF Before
<1>1. i <= Len(s) /\ s[i] \in Nat
    BY ElementOfSeq, LenProperties
<1> QED
    BY <1>1

LEMMA BeforeBefore ==
    ASSUME NEW s \in Seq(Nat), NEW t \in Seq(Nat), NEW u \in Seq(Nat),
           Before(s, t), Before(t, u)
    PROVE  Before(s, u)
<1>1. PICK i \in 1 .. Len(t) : /\ \A k \in 1 .. i - 1 : k <= Len(s) /\ s[k] = t[k]
                               /\ i <= Len(s) => s[i] < t[i]
    BY DEF Before
<1>2. PICK j \in 1 .. Len(u) : /\ \A k \in 1 .. j - 1 : k <= Len(t) /\ t[k] = u[k]
                               /\ j <= Len(t) => t[j] < u[j]
    BY DEF Before
<1>3. /\ Len(s) \in Nat /\ Len(t) \in Nat /\ Len(u) \in Nat
      /\ \A k \in 1 .. Len(s) : s[k] \in Nat
      /\ \A k \in 1 .. Len(t) : t[k] \in Nat
      /\ \A k \in 1 .. Len(u) : u[k] \in Nat
    BY ElementOfSeq, LenProperties
<1>4. CASE i < j
    <2>1. i \in 1 .. j - 1 /\ i \in 1 .. Len(u) /\ t[i] = u[i]
        BY <1>2, <1>3, <1>4
    <2>2. \A k \in 1 .. i - 1 : k <= Len(s) /\ s[k] = u[k]
        BY <1>1, <1>2, <1>3, <1>4
    <2> QED
        BY <1>1, <2>1, <2>2 DEF Before
<1>5. CASE j < i
    <2>1. j \in 1 .. i - 1 /\ j \in 1 .. Len(t) /\ s[j] = t[j] /\ t[j] < u[j]
        BY <1>1, <1>2, <1>3, <1>5
    <2>2. \A k \in 1 .. j - 1 : k <= Len(s) /\ s[k] = u[k]
        BY <1>1, <1>2, <1>3, <1>5
    <2> QED
        BY <2>1, <2>2 DEF Before
<1>6. CASE i = j
    <2>1. t[i] < u[i]
        BY <1>2, <1>3, <1>6
    <2>2. \A k \in 1 .. i - 1 : k <= Len(s) /\ s[k] = u[k]
        BY <1>1, <1>2, <1>3, <1>6
    <2>3. i <= Len(s) => s[i] < u[i]
        BY <1>1, <1>3, <1>6, <2>1
    <2> QED
        BY <1>6, <2>2, <2>3 DEF Before
<1> QED
    BY <1>3, <1>4, <1>5, <1>6

-----------------------------------------------------------------------------
(* The multimap of callbacks                                                *)

CallbackNodes == [id : Seq(Nat), n : Nat]

\* Nodes of queries below m, each once, under its id, in the order of ids
ListOK(list, m) ==
    /\ list \in Seq(CallbackNodes)
    /\ \A i \in 1 .. Len(list) : list[i].n < m /\ list[i].id = IdText(list[i].n)
    /\ \A i, k \in 1 .. Len(list) :
          i < k => list[i].n # list[k].n /\ ~ Before(list[k].id, list[i].id)

LEMMA CallbackTypes ==
    ASSUME NEW list \in Seq(CallbackNodes)
    PROVE  /\ Len(list) \in Nat /\ DOMAIN list = 1 .. Len(list)
           /\ \A i \in 1 .. Len(list) : list[i] \in CallbackNodes
           /\ \A i \in 1 .. Len(list) : list[i].n \in Nat /\ list[i].id \in Seq(Nat)
<1>1. \A i \in 1 .. Len(list) : list[i] \in CallbackNodes
    BY ElementOfSeq
<1>2. \A i \in 1 .. Len(list) : list[i].n \in Nat /\ list[i].id \in Seq(Nat)
    BY <1>1 DEF CallbackNodes
<1> QED
    BY <1>1, <1>2, LenProperties

\* A new node goes behind those it does not come before.
LEMMA InsertedKeeps ==
    ASSUME NEW m \in 0 .. MaxID, NEW list, ListOK(list, m)
    PROVE  /\ ListOK(Inserted(list, m), m + 1)
           /\ \E p \in 1 .. Len(list) + 1 :
                 /\ Len(Inserted(list, m)) = Len(list) + 1
                 /\ \A k \in 1 .. Len(list) + 1 :
                       Inserted(list, m)[k] = IF k < p THEN list[k]
                                              ELSE IF k = p THEN [id |-> IdText(m), n |-> m]
                                              ELSE list[k - 1]
<1> DEFINE e == [id |-> IdText(m), n |-> m]
           after == {i \in 1 .. Len(list) : Before(IdText(m), list[i].id)}
           place == IF after = {} THEN Len(list) + 1
                    ELSE CHOOSE i \in after : \A k \in after : i <= k
<1>0. m \in Nat /\ IdText(m) \in Seq(Nat)
    BY IdTextType, IQDispatchAssumption
<1>1. /\ list \in Seq(CallbackNodes)
      /\ Len(list) \in Nat /\ DOMAIN list = 1 .. Len(list)
      /\ \A i \in 1 .. Len(list) : list[i].n \in Nat /\ list[i].id \in Seq(Nat)
    BY CallbackTypes DEF ListOK
<1>2. e \in CallbackNodes /\ e.id = IdText(m) /\ e.n = m
    BY <1>0 DEF CallbackNodes
<1>3. /\ place \in 1 .. Len(list) + 1
      /\ \A i \in 1 .. place - 1 : i \notin after
      /\ place # Len(list) + 1 => place \in after
    <2>1. CASE after = {}
        BY <1>1, <2>1
    <2>2. CASE after # {}
        <3>1. after \in SUBSET Nat
            OBVIOUS
        <3>2. PICK i \in after : \A k \in after : i <= k
            <4> HIDE DEF after
            <4> QED
                BY <2>2, <3>1, LeastNatural
        <3>3. place \in after /\ \A k \in after : place <= k
            BY <2>2, <3>2
        <3>4. after \subseteq 1 .. Len(list)
            OBVIOUS
        <3> HIDE DEF place, after
        <3> QED
            BY <1>1, <3>3, <3>4
    <2> QED
        BY <2>1, <2>2
<1>4. Inserted(list, m) = InsertAt(list, place, e)
    BY DEF Inserted
<1>5. \A i \in place .. Len(list) : ~ Before(list[i].id, IdText(m))
    <2> SUFFICES ASSUME NEW i \in place .. Len(list), Before(list[i].id, IdText(m))
                 PROVE  FALSE
        OBVIOUS
    <2>1. place \in after /\ i \in 1 .. Len(list) /\ place \in 1 .. Len(list)
        BY <1>1, <1>3
    <2>2. Before(IdText(m), list[place].id)
        BY <2>1
    <2> HIDE DEF place, after
    <2>3. Before(list[i].id, list[place].id)
        BY <1>0, <1>1, <2>1, <2>2, BeforeBefore
    <2>4. \/ i = place
          \/ place < i
        BY <1>1, <1>3
    <2>5. CASE place < i
        BY <2>1, <2>3, <2>5 DEF ListOK
    <2>6. CASE i = place
        BY <1>0, <1>1, <2>1, <2>2, <2>6, BeforeItself, BeforeBefore
    <2> QED
        BY <2>4, <2>5, <2>6
<1>6. \A i \in 1 .. place - 1 : ~ Before(IdText(m), list[i].id)
    <2> HIDE DEF place
    <2> QED
        BY <1>1, <1>3
<1> HIDE DEF place, after
<1> DEFINE new == Inserted(list, m)
<1>7. /\ new \in Seq(CallbackNodes) /\ Len(new) = Len(list) + 1
      /\ \A k \in 1 .. Len(list) + 1 :
            new[k] = IF k < place THEN list[k] ELSE IF k = place THEN e ELSE list[k - 1]
    <2>1. PICK p \in 1 .. Len(list) + 1, x \in CallbackNodes : p = place /\ x = e
        BY <1>2, <1>3
    <2>2. /\ InsertAt(list, p, x) \in Seq(CallbackNodes)
          /\ Len(InsertAt(list, p, x)) = Len(list) + 1
          /\ \A k \in 1 .. Len(list) + 1 :
                InsertAt(list, p, x)[k] = IF k < p THEN list[k]
                                          ELSE IF k = p THEN x ELSE list[k - 1]
        <3>1. list \in Seq(CallbackNodes)
            BY <1>1
        <3> QED
            BY ONLY <3>1, InsertAtProperties
    <2> QED
        BY <1>4, <2>1, <2>2
<1> HIDE DEF new, e
<1> DEFINE from(k) == IF k < place THEN k ELSE k - 1
<1>8. \A k \in 1 .. Len(new) : k # place => from(k) \in 1 .. Len(list) /\ new[k] = list[from(k)]
    BY <1>1, <1>3, <1>7
<1>9. \A k \in 1 .. Len(new) : new[k].n < m + 1 /\ new[k].id = IdText(new[k].n)
    <2> SUFFICES ASSUME NEW k \in 1 .. Len(new)
                 PROVE  new[k].n < m + 1 /\ new[k].id = IdText(new[k].n)
        OBVIOUS
    <2>1. CASE k = place
        BY <1>0, <1>2, <1>3, <1>7, <2>1
    <2>2. CASE k # place
        <3>1. PICK i \in 1 .. Len(list) : new[k] = list[i]
            BY <1>8, <2>2
        <3>2. list[i].n < m /\ list[i].n \in Nat /\ list[i].id = IdText(list[i].n)
            BY <1>1 DEF ListOK
        <3> QED
            BY <1>0, <3>1, <3>2
    <2> QED
        BY <2>1, <2>2
<1>10. ASSUME NEW i \in 1 .. Len(new), NEW k \in 1 .. Len(new), i < k
       PROVE  new[i].n # new[k].n /\ ~ Before(new[k].id, new[i].id)
    <2>1. CASE i = place
        <3>1. k - 1 \in place .. Len(list) /\ k - 1 \in 1 .. Len(list)
              /\ new[k] = list[k - 1] /\ new[i] = e
            BY <1>1, <1>3, <1>7, <1>10, <2>1
        <3>2. list[k - 1].n < m /\ list[k - 1].n \in Nat
            BY <1>1, <3>1 DEF ListOK
        <3> QED
            BY <1>0, <1>2, <1>5, <3>1, <3>2
    <2>2. CASE k = place
        <3>1. i \in 1 .. place - 1 /\ i \in 1 .. Len(list) /\ new[i] = list[i] /\ new[k] = e
            BY <1>1, <1>3, <1>7, <1>10, <2>2
        <3>2. list[i].n < m /\ list[i].n \in Nat
            BY <1>1, <3>1 DEF ListOK
        <3> QED
            BY <1>0, <1>2, <1>6, <3>1, <3>2
    <2>3. CASE i # place /\ k # place
        <3>1. from(i) \in 1 .. Len(list) /\ from(k) \in 1 .. Len(list) /\ from(i) < from(k)
            BY <1>1, <1>3, <1>7, <1>10, <2>3
        <3>2. new[i] = list[from(i)] /\ new[k] = list[from(k)]
            BY <1>8, <2>3
        <3> HIDE DEF from
        <3> QED
            BY <3>1, <3>2 DEF ListOK
    <2> QED
        BY <2>1, <2>2, <2>3
<1>11. ListOK(new, m + 1)
    BY <1>7, <1>9, <1>10 DEF ListOK
<1> QED
    BY <1>3, <1>7, <1>11 DEF new, e

\* Without one of its nodes the multimap is in order.
LEMMA RemovedKeeps ==
    ASSUME NEW m \in Nat, NEW list, ListOK(list, m), NEW p \in 1 .. Len(list)
    PROVE  /\ ListOK(RemoveAt(list, p), m)
           /\ Len(RemoveAt(list, p)) = Len(list) - 1
           /\ \A k \in 1 .. Len(list) - 1 :
                 RemoveAt(list, p)[k] = IF k < p THEN list[k] ELSE list[k + 1]
<1> DEFINE new == RemoveAt(list, p)
<1>1. list \in Seq(CallbackNodes) /\ Len(list) \in Nat
    BY CallbackTypes DEF ListOK
<1>2. /\ new \in Seq(CallbackNodes)
      /\ Len(new) = Len(list) - 1
      /\ \A k \in 1 .. Len(list) - 1 : new[k] = IF k < p THEN list[k] ELSE list[k + 1]
    BY <1>1, RemoveAtProperties
<1> HIDE DEF new
<1> DEFINE from(k) == IF k < p THEN k ELSE k + 1
<1>3. \A k \in 1 .. Len(new) : from(k) \in 1 .. Len(list) /\ new[k] = list[from(k)]
    <2> SUFFICES ASSUME NEW k \in 1 .. Len(new)
                 PROVE  from(k) \in 1 .. Len(list) /\ new[k] = list[from(k)]
        OBVIOUS
    <2>1. k \in 1 .. Len(list) - 1 /\ from(k) \in 1 .. Len(list)
        BY <1>1, <1>2
    <2> QED
        BY <1>2, <2>1
<1>4. \A i, k \in 1 .. Len(new) : i < k => from(i) < from(k)
    BY <1>1, <1>2
<1> HIDE DEF from
<1>5. \A k \in 1 .. Len(new) : new[k].n < m /\ new[k].id = IdText(new[k].n)
    BY <1>3 DEF ListOK
<1>6. \A i, k \in 1 .. Len(new) :
          i < k => new[i].n # new[k].n /\ ~ Before(new[k].id, new[i].id)
    BY <1>3, <1>4 DEF ListOK
<1>7. ListOK(new, m)
    BY <1>2, <1>5, <1>6 DEF ListOK
<1> QED
    BY <1>2, <1>7 DEF new

-----------------------------------------------------------------------------
(* Iterators                                                                *)

LEMMA PositionOfNode ==
    ASSUME NEW m, NEW list, ListOK(list, m), NEW p \in 1 .. Len(list) + 1
    PROVE  Position(list, NodeAt(list, p)) = p
<1>1. /\ list \in Seq(CallbackNodes) /\ Len(list) \in Nat
      /\ \A i \in 1 .. Len(list) : list[i].n \in Nat
    BY CallbackTypes DEF ListOK
<1>2. CASE p = Len(list) + 1
    BY <1>1, <1>2 DEF Position, NodeAt
<1>3. CASE p \in 1 .. Len(list)
    <2>1. NodeAt(list, p) = list[p].n /\ list[p].n # End
        BY <1>1, <1>3 DEF NodeAt, End
    <2>2. \A i \in 1 .. Len(list) : list[i].n = list[p].n => i = p
        <3> SUFFICES ASSUME NEW i \in 1 .. Len(list), list[i].n = list[p].n, i # p
                     PROVE  FALSE
            OBVIOUS
        <3>1. i < p \/ p < i
            BY <1>1, <1>3
        <3> QED
            BY <1>3, <3>1 DEF ListOK
    <2> QED
        BY <1>3, <2>1, <2>2 DEF Position
<1> QED
    BY <1>1, <1>2, <1>3

LEMMA NextNode ==
    ASSUME NEW m, NEW list, ListOK(list, m), NEW p \in 1 .. Len(list) + 1
    PROVE  Following(list, NodeAt(list, p)) = NodeAt(list, p + 1)
BY PositionOfNode DEF Following

-----------------------------------------------------------------------------
(* The callbacks and the loop of handleIQ()                                 *)

Loops == [busy : {TRUE}, id : Seq(Nat), calling : BOOLEAN, it : Int, last : Int]

Held(list) == {list[i].n : i \in 1 .. Len(list)}

Done(calls) == {c.n : c \in calls}

(***************************************************************************)
(* Loop f stands on entry p of the list and stops at entry q: what has been *)
(* answered and is still there lies between, under the id of the loop.      *)
(***************************************************************************)
StandsIn(f, list, p, q) ==
    /\ p <= q
    /\ f.it = NodeAt(list, p) /\ f.last = NodeAt(list, q)
    /\ f.calling => p < q /\ f.it \in Done(called)
    /\ \A k \in 1 .. Len(list) : list[k].n \notin owed => /\ p <= k /\ k < q
                                                          /\ list[k].id = f.id

LoopOK ==
    \/ loop = Idle /\ Held(callbacks) \subseteq owed
    \/ /\ loop \in Loops
       /\ \E p, q \in 1 .. Len(callbacks) + 1 : StandsIn(loop, callbacks, p, q)

CallbacksInv ==
    /\ nextID \in 0 .. MaxID
    /\ owed \subseteq 0 .. nextID - 1
    /\ ListOK(callbacks, nextID)
    /\ \A c \in called : c.id = IdText(c.n) /\ c.n \in 0 .. nextID - 1
    /\ 0 .. nextID - 1 \subseteq Held(callbacks) \cup Done(called)
    /\ LoopOK

LEMMA CallbackFacts ==
    ASSUME CallbacksInv
    PROVE  /\ nextID \in Nat /\ nextID <= MaxID /\ MaxID \in Nat
           /\ callbacks \in Seq(CallbackNodes)
           /\ Len(callbacks) \in Nat /\ DOMAIN callbacks = 1 .. Len(callbacks)
           /\ \A i \in 1 .. Len(callbacks) :
                 /\ callbacks[i].n \in 0 .. nextID - 1
                 /\ callbacks[i].id = IdText(callbacks[i].n)
                 /\ callbacks[i].id \in Seq(Nat)
<1>1. nextID \in Nat /\ nextID <= MaxID /\ MaxID \in Nat
    BY IQDispatchAssumption DEF CallbacksInv
<1>2. callbacks \in Seq(CallbackNodes)
    BY DEF CallbacksInv, ListOK
<1>3. /\ Len(callbacks) \in Nat /\ DOMAIN callbacks = 1 .. Len(callbacks)
      /\ \A i \in 1 .. Len(callbacks) : callbacks[i].n \in Nat /\ callbacks[i].id \in Seq(Nat)
    BY <1>2, CallbackTypes
<1>4. \A i \in 1 .. Len(callbacks) : callbacks[i].n < nextID /\ callbacks[i].id = IdText(callbacks[i].n)
    BY DEF CallbacksInv, ListOK
<1> QED
    BY <1>1, <1>2, <1>3, <1>4

\* A loop that runs stands somewhere; Idle is no such loop.
LEMMA RunningLoop ==
    ASSUME CallbacksInv, loop # Idle
    PROVE  /\ loop \in Loops
           /\ \E p, q \in 1 .. Len(callbacks) + 1 : StandsIn(loop, callbacks, p, q)
BY DEF CallbacksInv, LoopOK

LEMMA LoopIsNotIdle ==
    ASSUME NEW f \in Loops
    PROVE  f # Idle
BY DEF Loops, Idle

LEMMA QueryKeepsCallbacks ==
    ASSUME CallbacksInv, queryNamespace
    PROVE  CallbacksInv'
<1>0. nextID \in 0 .. MaxID /\ nextID \in Nat /\ nextID + 1 \in 0 .. MaxID
    BY CallbackFacts DEF queryNamespace
<1> DEFINE new == Inserted(callbacks, nextID)
           e == [id |-> IdText(nextID), n |-> nextID]
<1>1. /\ nextID' = nextID + 1 /\ callbacks' = new /\ owed' = owed \cup {nextID}
      /\ loop' = loop /\ called' = called
    BY DEF queryNamespace
<1>2. ListOK(callbacks, nextID)
    BY DEF CallbacksInv
<1>3. PICK i \in 1 .. Len(callbacks) + 1 :
              /\ Len(new) = Len(callbacks) + 1
              /\ \A k \in 1 .. Len(callbacks) + 1 :
                    new[k] = IF k < i THEN callbacks[k] ELSE IF k = i THEN e ELSE callbacks[k - 1]
    BY <1>0, <1>2, InsertedKeeps
<1>4. ListOK(new, nextID + 1)
    BY <1>0, <1>2, InsertedKeeps
<1> HIDE DEF new
<1>5. e.n = nextID /\ Len(callbacks) \in Nat
      /\ \A k \in 1 .. Len(callbacks) : callbacks[k].n \in 0 .. nextID - 1
    BY CallbackFacts
<1> HIDE DEF e
<1>6. Held(new) = Held(callbacks) \cup {nextID}
    <2>1. \A k \in 1 .. Len(new) : new[k] = e \/ \E x \in 1 .. Len(callbacks) : new[k] = callbacks[x]
        <3> SUFFICES ASSUME NEW k \in 1 .. Len(new), k # i
                     PROVE  \E x \in 1 .. Len(callbacks) : new[k] = callbacks[x]
            BY <1>3, <1>5
        <3>1. CASE k < i
            BY <1>3, <1>5, <3>1
        <3>2. CASE i < k
            <4>1. k - 1 \in 1 .. Len(callbacks) /\ new[k] = callbacks[k - 1]
                BY <1>3, <1>5, <3>2
            <4> QED
                BY <4>1
        <3> QED
            BY <1>3, <1>5, <3>1, <3>2
    <2>2. \A x \in 1 .. Len(callbacks) : \E k \in 1 .. Len(new) : new[k] = callbacks[x]
        <3> SUFFICES ASSUME NEW x \in 1 .. Len(callbacks)
                     PROVE  \E k \in 1 .. Len(new) : new[k] = callbacks[x]
            OBVIOUS
        <3>1. CASE x < i
            BY <1>3, <1>5, <3>1
        <3>2. CASE ~(x < i)
            <4>1. x + 1 \in 1 .. Len(new) /\ new[x + 1] = callbacks[x]
                BY <1>3, <1>5, <3>2
            <4> QED
                BY <4>1
        <3> QED
            BY <3>1, <3>2
    <2>3. i \in 1 .. Len(new) /\ new[i] = e
        BY <1>3, <1>5
    <2>4. ASSUME NEW x PROVE x \in Held(new) <=> x = nextID \/ x \in Held(callbacks)
        BY <1>5, <2>1, <2>2, <2>3 DEF Held
    <2> QED
        BY <2>4
<1>7. LoopOK'
    <2>1. CASE loop = Idle
        <3>1. Held(callbacks) \subseteq owed
            <4>1. loop \notin Loops
                BY <2>1, LoopIsNotIdle
            <4> QED
                BY <4>1 DEF CallbacksInv, LoopOK
        <3> QED
            BY <1>1, <1>6, <2>1, <3>1 DEF LoopOK
    <2>2. CASE loop # Idle
        <3>1. PICK p \in 1 .. Len(callbacks) + 1, q \in 1 .. Len(callbacks) + 1 :
                  StandsIn(loop, callbacks, p, q)
            BY <2>2, RunningLoop
        <3> DEFINE to(k) == IF k < i THEN k ELSE k + 1
        <3>2. \A k \in 1 .. Len(callbacks) + 1 :
                  to(k) \in 1 .. Len(new) + 1 /\ NodeAt(new, to(k)) = NodeAt(callbacks, k)
            <4> SUFFICES ASSUME NEW k \in 1 .. Len(callbacks) + 1
                         PROVE  /\ to(k) \in 1 .. Len(new) + 1
                                /\ NodeAt(new, to(k)) = NodeAt(callbacks, k)
                OBVIOUS
            <4>1. to(k) \in 1 .. Len(new) + 1
                BY <1>3, <1>5
            <4>2. CASE k = Len(callbacks) + 1
                <5>1. to(k) = Len(new) + 1
                    BY <1>3, <1>5, <4>2
                <5> QED
                    BY <1>3, <1>5, <4>1, <4>2, <5>1 DEF NodeAt
            <4>3. CASE k \in 1 .. Len(callbacks)
                <5>1. to(k) \in 1 .. Len(new) /\ new[to(k)] = callbacks[k]
                    BY <1>3, <1>5, <4>3
                <5> HIDE DEF to
                <5> QED
                    BY <1>3, <1>5, <4>1, <4>3, <5>1 DEF NodeAt
            <4> QED
                BY <1>5, <4>1, <4>2, <4>3
        <3>3. \A k, m \in 1 .. Len(callbacks) + 1 : /\ k < m => to(k) < to(m)
                                                    /\ k <= m => to(k) <= to(m)
            BY <1>3, <1>5
        <3>4. \A k \in 1 .. Len(new) : new[k].n \notin owed' =>
                  \E x \in 1 .. Len(callbacks) : k = to(x) /\ new[k] = callbacks[x]
            <4> SUFFICES ASSUME NEW k \in 1 .. Len(new), new[k].n \notin owed'
                         PROVE  \E x \in 1 .. Len(callbacks) : k = to(x) /\ new[k] = callbacks[x]
                OBVIOUS
            <4>1. k # i
                BY <1>1, <1>3, <1>5
            <4>2. CASE k < i
                BY <1>3, <1>5, <4>2
            <4>3. CASE i < k
                <5>1. k - 1 \in 1 .. Len(callbacks) /\ k = to(k - 1) /\ new[k] = callbacks[k - 1]
                    BY <1>3, <1>5, <4>3
                <5> HIDE DEF to
                <5> QED
                    BY <5>1
            <4> QED
                BY <1>3, <1>5, <4>1, <4>2, <4>3
        <3> DEFINE p2 == to(p)
                   q2 == to(q)
        <3> HIDE DEF to
        <3>5. \A k \in 1 .. Len(new) : new[k].n \notin owed' =>
                  p2 <= k /\ k < q2 /\ new[k].id = loop.id
            <4> SUFFICES ASSUME NEW k \in 1 .. Len(new), new[k].n \notin owed'
                         PROVE  p2 <= k /\ k < q2 /\ new[k].id = loop.id
                OBVIOUS
            <4>1. PICK x \in 1 .. Len(callbacks) : k = to(x) /\ new[k] = callbacks[x]
                BY <3>4
            <4>2. p <= x /\ x < q /\ callbacks[x].id = loop.id
                BY <1>1, <3>1, <4>1 DEF StandsIn
            <4> QED
                BY <1>5, <3>3, <4>1, <4>2
        <3>6. /\ p2 \in 1 .. Len(new) + 1 /\ q2 \in 1 .. Len(new) + 1
              /\ p2 <= q2 /\ (loop.calling => p2 < q2)
              /\ loop.it = NodeAt(new, p2) /\ loop.last = NodeAt(new, q2)
            BY <3>1, <3>2, <3>3 DEF StandsIn
        <3> HIDE DEF p2, q2
        <3>7. PICK r \in 1 .. Len(new) + 1, s \in 1 .. Len(new) + 1 : r = p2 /\ s = q2
            BY <3>6
        <3>8. /\ r <= s /\ (loop'.calling => r < s /\ loop'.it \in Done(called'))
              /\ loop'.it = NodeAt(callbacks', r) /\ loop'.last = NodeAt(callbacks', s)
            BY <1>1, <3>1, <3>6, <3>7 DEF StandsIn
        <3>9. \A k \in 1 .. Len(callbacks') : callbacks'[k].n \notin owed' =>
                  r <= k /\ k < s /\ callbacks'[k].id = loop'.id
            BY <1>1, <3>5, <3>7
        <3>10. StandsIn(loop, callbacks, r, s)'
            BY <3>8, <3>9 DEF StandsIn
        <3>11. loop' \in Loops /\ Len(callbacks') = Len(new)
            BY <1>1, <2>2, RunningLoop
        <3> QED
            BY <3>10, <3>11 DEF LoopOK
    <2> QED
        BY <2>1, <2>2
<1>8. 0 .. nextID = (0 .. nextID - 1) \cup {nextID} /\ (nextID + 1) - 1 = nextID
    BY <1>0
<1> QED
    BY <1>0, <1>1, <1>4, <1>6, <1>7, <1>8 DEF CallbacksInv

LEMMA NodeAtType ==
    ASSUME CallbacksInv, NEW p \in 1 .. Len(callbacks) + 1
    PROVE  NodeAt(callbacks, p) \in Int
<1>1. /\ Len(callbacks) \in Nat /\ nextID \in Nat
      /\ \A i \in 1 .. Len(callbacks) : callbacks[i].n \in 0 .. nextID - 1
    BY CallbackFacts
<1>2. CASE p > Len(callbacks)
    BY <1>2 DEF NodeAt, End
<1>3. CASE ~(p > Len(callbacks))
    <2>1. p \in 1 .. Len(callbacks)
        BY <1>1, <1>3
    <2>2. callbacks[p].n \in Int
        BY <1>1, <2>1
    <2> QED
        BY <1>3, <2>2 DEF NodeAt
<1> QED
    BY <1>2, <1>3

LEMMA InitCallbacks ==
    ASSUME Init
    PROVE  CallbacksInv
<1>1. nextID = 0 /\ callbacks = <<>> /\ owed = {} /\ loop = Idle /\ called = {}
    BY DEF Init
<1>2. MaxID \in Nat
    BY IQDispatchAssumption
<1>3. ListOK(callbacks, nextID)
    BY <1>1 DEF ListOK
<1>4. Held(callbacks) = {}
    BY <1>1 DEF Held
<1> QED
    BY <1>1, <1>2, <1>3, <1>4 DEF CallbacksInv, LoopOK

\* equal_range(): from the first node of an id to behind the last
LEMMA RangeOfId ==
    ASSUME CallbacksInv, NEW id, Registered(id) # {}
    PROVE  \E p, q \in 1 .. Len(callbacks) :
              /\ LowerBound(id) = NodeAt(callbacks, p)
              /\ UpperBound(id) = NodeAt(callbacks, q + 1)
              /\ p <= q
              /\ \A k \in Registered(id) : p <= k /\ k <= q
<1> DEFINE R == Registered(id)
           fromEnd == {Len(callbacks) - i : i \in R}
<1>1. Len(callbacks) \in Nat /\ R \subseteq 1 .. Len(callbacks)
    BY CallbackFacts DEF Registered
<1> HIDE DEF R
<1>2. R # {}
    BY DEF R
<1>3. PICK a \in R : \A k \in R : a <= k
    <2>1. R \in SUBSET Nat
        BY <1>1
    <2> QED
        BY <1>2, <2>1, LeastNatural
<1>4. PICK b \in R : \A k \in R : k <= b
    <2>1. fromEnd \in SUBSET Nat /\ fromEnd # {}
        BY <1>1, <1>2
    <2>2. PICK x \in fromEnd : \A y \in fromEnd : x <= y
        <3> HIDE DEF fromEnd
        <3> QED
            BY <2>1, LeastNatural
    <2>3. PICK i \in R : x = Len(callbacks) - i
        BY <2>2
    <2>4. \A k \in R : Len(callbacks) - i <= Len(callbacks) - k
        BY <2>2, <2>3
    <2> QED
        BY <1>1, <2>4
<1> DEFINE p == CHOOSE i \in R : \A k \in R : i <= k
           q == CHOOSE i \in R : \A k \in R : k <= i
<1>5. p \in R /\ \A k \in R : p <= k
    BY <1>3
<1>6. q \in R /\ \A k \in R : k <= q
    BY <1>4
<1>7. LowerBound(id) = NodeAt(callbacks, p) /\ UpperBound(id) = NodeAt(callbacks, 1 + q)
    BY DEF LowerBound, UpperBound, R
<1> HIDE DEF p, q
<1>8. 1 + q = q + 1 /\ p \in 1 .. Len(callbacks) /\ q \in 1 .. Len(callbacks)
    BY <1>1, <1>5, <1>6
<1> QED
    BY <1>5, <1>6, <1>7, <1>8 DEF R

\* A stanza with the id of query n begins, which may be the answer to it.
LEMMA StanzaKeepsCallbacks ==
    ASSUME CallbacksInv, NEW n \in 0 .. MaxID, handleIQ(IdText(n)),
           owed' \subseteq owed, owed \subseteq owed' \cup {n}
    PROVE  CallbacksInv'
<1> DEFINE id == IdText(n)
<1>1. /\ nextID' = nextID /\ callbacks' = callbacks /\ called' = called
      /\ loop = Idle
    BY DEF handleIQ
<1>2. loop' = IF Registered(id) = {}
              THEN Idle
              ELSE [busy |-> TRUE, id |-> id, calling |-> FALSE,
                    it |-> LowerBound(id), last |-> UpperBound(id)]
    BY DEF handleIQ
<1>3. Held(callbacks) \subseteq owed
    <2>1. loop \notin Loops
        BY <1>1, LoopIsNotIdle
    <2> QED
        BY <2>1 DEF CallbacksInv, LoopOK
<1>4. /\ Len(callbacks) \in Nat
      /\ \A i \in 1 .. Len(callbacks) : callbacks[i].id = IdText(callbacks[i].n)
    BY CallbackFacts
<1>5. \A k \in 1 .. Len(callbacks) :
          callbacks[k].n \notin owed' => k \in Registered(id) /\ callbacks[k].id = id
    <2> SUFFICES ASSUME NEW k \in 1 .. Len(callbacks), callbacks[k].n \notin owed'
                 PROVE  k \in Registered(id) /\ callbacks[k].id = id
        OBVIOUS
    <2>1. callbacks[k].n \in owed
        BY <1>3 DEF Held
    <2>2. callbacks[k].n = n
        BY <2>1
    <2>3. callbacks[k].id = id
        BY <1>4, <2>2
    <2> QED
        BY <2>3 DEF Registered
<1>6. id \in Seq(Nat)
    BY IdTextType
<1> HIDE DEF id
<1>7. LoopOK'
    <2>1. CASE Registered(id) = {}
        <3>1. Held(callbacks) \subseteq owed'
            BY <1>5, <2>1 DEF Held
        <3> QED
            BY <1>1, <1>2, <2>1, <3>1 DEF LoopOK
    <2>2. CASE Registered(id) # {}
        <3>1. PICK p \in 1 .. Len(callbacks), q \in 1 .. Len(callbacks) :
                  /\ LowerBound(id) = NodeAt(callbacks, p)
                  /\ UpperBound(id) = NodeAt(callbacks, q + 1)
                  /\ p <= q
                  /\ \A k \in Registered(id) : p <= k /\ k <= q
            BY <2>2, RangeOfId
        <3>2. PICK r \in 1 .. Len(callbacks) + 1, s \in 1 .. Len(callbacks) + 1 :
                  r = p /\ s = q + 1
            BY <1>4
        <3>3. NodeAt(callbacks, r) \in Int /\ NodeAt(callbacks, s) \in Int
            BY NodeAtType
        <3>4. /\ loop' \in Loops /\ loop'.id = id /\ loop'.calling = FALSE
              /\ loop'.it = NodeAt(callbacks, r) /\ loop'.last = NodeAt(callbacks, s)
            BY <1>2, <1>6, <2>2, <3>1, <3>2, <3>3 DEF Loops
        <3>5. \A k \in 1 .. Len(callbacks) :
                  callbacks[k].n \notin owed' => r <= k /\ k < s /\ callbacks[k].id = id
            BY <1>4, <1>5, <3>1, <3>2
        <3>6. r <= s
            BY <3>1, <3>2
        <3>7. StandsIn(loop, callbacks, r, s)'
            BY <1>1, <3>4, <3>5, <3>6 DEF StandsIn
        <3> QED
            BY <1>1, <3>4, <3>7 DEF LoopOK
    <2> QED
        BY <2>1, <2>2
<1> QED
    BY <1>1, <1>7 DEF CallbacksInv

LEMMA AnswerKeepsCallbacks ==
    ASSUME CallbacksInv, NEW n, Answer(n)
    PROVE  CallbacksInv'
<1>1. n \in owed /\ handleIQ(IdText(n)) /\ owed' = owed \ {n}
    BY DEF Answer
<1>2. n \in 0 .. MaxID
    BY <1>1, CallbackFacts DEF CallbacksInv
<1> QED
    BY <1>1, <1>2, StanzaKeepsCallbacks

LEMMA PeerKeepsCallbacks ==
    ASSUME CallbacksInv, PeerQuery
    PROVE  CallbacksInv'
BY StanzaKeepsCallbacks DEF PeerQuery

\* Where the loop stands, and that it stands on a node before its end
LEMMA LoopIsThere ==
    ASSUME CallbacksInv, loop # Idle, AtANode \/ loop.calling
    PROVE  \E p \in 1 .. Len(callbacks), q \in 1 .. Len(callbacks) + 1 :
              /\ StandsIn(loop, callbacks, p, q) /\ p < q
              /\ loop.it = callbacks[p].n
              /\ Position(callbacks, loop.it) = p
              /\ Following(callbacks, loop.it) = NodeAt(callbacks, p + 1)
<1>1. PICK p \in 1 .. Len(callbacks) + 1, q \in 1 .. Len(callbacks) + 1 :
          StandsIn(loop, callbacks, p, q)
    BY RunningLoop
<1>2. Len(callbacks) \in Nat
    BY CallbackFacts
<1>3. p <= q /\ loop.it = NodeAt(callbacks, p) /\ loop.last = NodeAt(callbacks, q)
      /\ (loop.calling => p < q)
    BY <1>1 DEF StandsIn
<1>4. p < q
    BY <1>2, <1>3 DEF AtANode
<1>5. p \in 1 .. Len(callbacks)
    BY <1>2, <1>4
<1>6. loop.it = callbacks[p].n
    BY <1>2, <1>3, <1>5 DEF NodeAt
<1>7. ListOK(callbacks, nextID)
    BY DEF CallbacksInv
<1>8. /\ Position(callbacks, loop.it) = p
      /\ Following(callbacks, loop.it) = NodeAt(callbacks, p + 1)
    BY <1>3, <1>7, PositionOfNode, NextNode
<1> QED
    BY <1>1, <1>4, <1>5, <1>6, <1>8

LEMMA CallKeepsCallbacks ==
    ASSUME CallbacksInv, Call
    PROVE  CallbacksInv'
<1>1. /\ AtANode /\ loop # Idle
      /\ callbacks[Position(callbacks, loop.it)].id = loop.id
      /\ called' = called \cup {[n |-> loop.it, id |-> loop.id]}
      /\ loop' = [loop EXCEPT !.calling = TRUE]
      /\ nextID' = nextID /\ callbacks' = callbacks /\ owed' = owed
    BY DEF Call, AtANode
<1>2. PICK p \in 1 .. Len(callbacks), q \in 1 .. Len(callbacks) + 1 :
              /\ StandsIn(loop, callbacks, p, q) /\ p < q
              /\ loop.it = callbacks[p].n
              /\ Position(callbacks, loop.it) = p
    BY <1>1, LoopIsThere
<1>3. loop.it \in 0 .. nextID - 1 /\ loop.id = IdText(loop.it)
    BY <1>1, <1>2, CallbackFacts
<1>4. \A c \in called' : c.id = IdText(c.n) /\ c.n \in 0 .. nextID - 1
    BY <1>1, <1>3 DEF CallbacksInv
<1>5. Done(called') = Done(called) \cup {loop.it}
    <2> DEFINE c0 == [n |-> loop.it, id |-> loop.id]
    <2>1. c0.n = loop.it /\ called' = called \cup {c0}
        BY <1>1
    <2> HIDE DEF c0
    <2> QED
        BY <2>1 DEF Done
<1>6. /\ loop' \in Loops /\ loop'.calling /\ loop'.id = loop.id
      /\ loop'.it = loop.it /\ loop'.last = loop.last
    <2>1. loop \in Loops
        BY <1>1, RunningLoop
    <2> QED
        BY <1>1, <2>1 DEF Loops
<1>7. PICK r \in 1 .. Len(callbacks) + 1 : r = p
    <2>1. Len(callbacks) \in Nat
        BY CallbackFacts
    <2> QED
        BY <2>1
<1>8. StandsIn(loop, callbacks, r, q)'
    BY <1>1, <1>2, <1>5, <1>6, <1>7 DEF StandsIn
<1>9. LoopOK'
    BY <1>1, <1>6, <1>8 DEF LoopOK
<1> QED
    BY <1>1, <1>4, <1>5, <1>9 DEF CallbacksInv

LEMMA PassByKeepsCallbacks ==
    ASSUME CallbacksInv, PassBy
    PROVE  CallbacksInv'
<1>1. /\ AtANode /\ loop # Idle /\ ~ loop.calling
      /\ callbacks[Position(callbacks, loop.it)].id # loop.id
      /\ loop' = [loop EXCEPT !.it = Following(callbacks, loop.it)]
      /\ nextID' = nextID /\ callbacks' = callbacks /\ owed' = owed /\ called' = called
    BY DEF PassBy, AtANode
<1>2. PICK p \in 1 .. Len(callbacks), q \in 1 .. Len(callbacks) + 1 :
              /\ StandsIn(loop, callbacks, p, q) /\ p < q
              /\ Position(callbacks, loop.it) = p
              /\ Following(callbacks, loop.it) = NodeAt(callbacks, p + 1)
    BY <1>1, LoopIsThere
<1>3. Len(callbacks) \in Nat
    BY CallbackFacts
<1>4. PICK r \in 1 .. Len(callbacks) + 1 : r = p + 1
    BY <1>3
<1>5. NodeAt(callbacks, r) \in Int
    BY NodeAtType
<1>6. /\ loop' \in Loops /\ loop'.calling = loop.calling /\ loop'.id = loop.id
      /\ loop'.it = NodeAt(callbacks, r) /\ loop'.last = loop.last
    <2>1. loop \in Loops
        BY <1>1, RunningLoop
    <2> QED
        BY <1>1, <1>2, <1>4, <1>5, <2>1 DEF Loops
<1>7. \A k \in 1 .. Len(callbacks) :
          callbacks[k].n \notin owed => r <= k /\ k < q /\ callbacks[k].id = loop.id
    <2> SUFFICES ASSUME NEW k \in 1 .. Len(callbacks), callbacks[k].n \notin owed
                 PROVE  r <= k /\ k < q /\ callbacks[k].id = loop.id
        OBVIOUS
    <2>1. p <= k /\ k < q /\ callbacks[k].id = loop.id
        BY <1>2 DEF StandsIn
    <2>2. k # p
        BY <1>1, <1>2, <2>1
    <2> QED
        BY <1>3, <1>4, <2>1, <2>2
<1>8. r <= q /\ loop.last = NodeAt(callbacks, q)
    BY <1>2, <1>3, <1>4 DEF StandsIn
<1>9. StandsIn(loop, callbacks, r, q)'
    BY <1>1, <1>6, <1>7, <1>8 DEF StandsIn
<1>10. LoopOK'
    BY <1>1, <1>6, <1>9 DEF LoopOK
<1> QED
    BY <1>1, <1>10 DEF CallbacksInv

LEMMA ReturnKeepsCallbacks ==
    ASSUME CallbacksInv, Return
    PROVE  CallbacksInv'
<1>1. /\ loop # Idle /\ ~ loop.calling /\ loop.it = loop.last /\ loop' = Idle
      /\ nextID' = nextID /\ callbacks' = callbacks /\ owed' = owed /\ called' = called
    BY DEF Return
<1>2. PICK p \in 1 .. Len(callbacks) + 1, q \in 1 .. Len(callbacks) + 1 :
          StandsIn(loop, callbacks, p, q)
    BY <1>1, RunningLoop
<1>3. p = q
    <2>1. NodeAt(callbacks, p) = NodeAt(callbacks, q)
        BY <1>1, <1>2 DEF StandsIn
    <2>2. ListOK(callbacks, nextID)
        BY DEF CallbacksInv
    <2> QED
        BY <2>1, <2>2, PositionOfNode
<1>4. \A k \in 1 .. Len(callbacks) : callbacks[k].n \in owed
    <2> SUFFICES ASSUME NEW k \in 1 .. Len(callbacks), callbacks[k].n \notin owed
                 PROVE  FALSE
        OBVIOUS
    <2>1. p <= k /\ k < q
        BY <1>2 DEF StandsIn
    <2>2. Len(callbacks) \in Nat
        BY CallbackFacts
    <2> QED
        BY <1>3, <2>1, <2>2
<1>5. Held(callbacks) \subseteq owed
    BY <1>4 DEF Held
<1>6. LoopOK'
    BY <1>1, <1>5 DEF LoopOK
<1> QED
    BY <1>1, <1>6 DEF CallbacksInv

LEMMA EraseKeepsCallbacks ==
    ASSUME CallbacksInv, Erase
    PROVE  CallbacksInv'
<1>1. /\ loop # Idle /\ loop.calling
      /\ loop' = [loop EXCEPT !.calling = FALSE, !.it = Following(callbacks, loop.it)]
      /\ callbacks' = RemoveAt(callbacks, Position(callbacks, loop.it))
      /\ nextID' = nextID /\ owed' = owed /\ called' = called
    BY DEF Erase, EraseTo
<1>2. PICK p \in 1 .. Len(callbacks), q \in 1 .. Len(callbacks) + 1 :
              /\ StandsIn(loop, callbacks, p, q) /\ p < q
              /\ loop.it = callbacks[p].n
              /\ Position(callbacks, loop.it) = p
              /\ Following(callbacks, loop.it) = NodeAt(callbacks, p + 1)
    BY <1>1, LoopIsThere
<1> DEFINE new == RemoveAt(callbacks, p)
<1>3. ListOK(callbacks, nextID) /\ nextID \in Nat /\ Len(callbacks) \in Nat
    BY CallbackFacts DEF CallbacksInv
<1>4. /\ ListOK(new, nextID)
      /\ Len(new) = Len(callbacks) - 1
      /\ \A k \in 1 .. Len(callbacks) - 1 :
            new[k] = IF k < p THEN callbacks[k] ELSE callbacks[k + 1]
    BY <1>3, RemovedKeeps
<1> HIDE DEF new
<1>5. callbacks' = new
    BY <1>1, <1>2 DEF new
<1>6. PICK r \in 1 .. Len(new) + 1, s \in 1 .. Len(new) + 1 : r = p /\ s = q - 1
    BY <1>2, <1>3, <1>4
<1>7. NodeAt(new, r) = NodeAt(callbacks, p + 1)
    <2>1. CASE p = Len(callbacks)
        BY <1>3, <1>4, <1>6, <2>1 DEF NodeAt
    <2>2. CASE p # Len(callbacks)
        <3>1. p \in 1 .. Len(callbacks) - 1
            BY <1>3, <2>2
        <3> QED
            BY <1>3, <1>4, <1>6, <3>1 DEF NodeAt
    <2> QED
        BY <2>1, <2>2
<1>8. NodeAt(new, s) = NodeAt(callbacks, q)
    <2>1. CASE q = Len(callbacks) + 1
        BY <1>3, <1>4, <1>6, <2>1 DEF NodeAt
    <2>2. CASE q # Len(callbacks) + 1
        <3>1. s \in 1 .. Len(callbacks) - 1 /\ ~(s < p) /\ s + 1 = q
            BY <1>2, <1>3, <1>4, <1>6, <2>2
        <3>2. new[s] = callbacks[q]
            BY <1>4, <3>1
        <3> QED
            BY <1>3, <1>4, <1>6, <3>1, <3>2 DEF NodeAt
    <2> QED
        BY <2>1, <2>2
<1>9. NodeAt(callbacks, p + 1) \in Int
    <2>1. p + 1 \in 1 .. Len(callbacks) + 1
        BY <1>3
    <2> QED
        BY <2>1, NodeAtType
<1>10. /\ loop' \in Loops /\ loop'.calling = FALSE /\ loop'.id = loop.id
       /\ loop'.it = NodeAt(new, r) /\ loop'.last = NodeAt(new, s)
    <2>1. loop \in Loops /\ loop.last = NodeAt(callbacks, q)
        BY <1>1, <1>2, RunningLoop DEF StandsIn
    <2> QED
        BY <1>1, <1>2, <1>7, <1>8, <1>9, <2>1 DEF Loops
<1>11. \A k \in 1 .. Len(new) :
          new[k].n \notin owed => r <= k /\ k < s /\ new[k].id = loop.id
    <2> SUFFICES ASSUME NEW k \in 1 .. Len(new), new[k].n \notin owed
                 PROVE  r <= k /\ k < s /\ new[k].id = loop.id
        OBVIOUS
    <2>1. CASE k < p
        <3>1. k \in 1 .. Len(callbacks) /\ new[k] = callbacks[k]
            BY <1>3, <1>4, <2>1
        <3>2. p <= k
            BY <1>2, <3>1 DEF StandsIn
        <3> QED
            BY <2>1, <3>1, <3>2
    <2>2. CASE ~(k < p)
        <3>1. k + 1 \in 1 .. Len(callbacks) /\ new[k] = callbacks[k + 1]
            BY <1>3, <1>4, <2>2
        <3>2. k + 1 < q /\ callbacks[k + 1].id = loop.id
            BY <1>2, <3>1 DEF StandsIn
        <3> QED
            BY <1>3, <1>6, <2>2, <3>1, <3>2
    <2> QED
        BY <2>1, <2>2
<1>12. r <= s
    BY <1>2, <1>3, <1>6
<1>13. StandsIn(loop, callbacks, r, s)'
    BY <1>1, <1>5, <1>10, <1>11, <1>12 DEF StandsIn
<1>14. LoopOK'
    <2>1. r \in 1 .. Len(callbacks') + 1 /\ s \in 1 .. Len(callbacks') + 1
        BY <1>5
    <2> QED
        BY <1>10, <1>13, <2>1 DEF LoopOK
<1>15. 0 .. nextID - 1 \subseteq Held(new) \cup Done(called)
    <2> SUFFICES ASSUME NEW x \in 0 .. nextID - 1, x \notin Done(called)
                 PROVE  x \in Held(new)
        OBVIOUS
    <2>1. PICK i \in 1 .. Len(callbacks) : callbacks[i].n = x
        BY DEF CallbacksInv, Held
    <2>2. i # p
        <3>1. callbacks[p].n \in Done(called)
            BY <1>1, <1>2 DEF StandsIn
        <3> QED
            BY <2>1, <3>1
    <2>3. CASE i < p
        <3>1. i \in 1 .. Len(new) /\ new[i] = callbacks[i]
            BY <1>3, <1>4, <2>3
        <3> QED
            BY <2>1, <3>1 DEF Held
    <2>4. CASE p < i
        <3>1. i - 1 \in 1 .. Len(new) /\ new[i - 1] = callbacks[i]
            BY <1>3, <1>4, <2>4
        <3> QED
            BY <2>1, <3>1 DEF Held
    <2> QED
        BY <1>3, <2>2, <2>3, <2>4
<1> QED
    BY <1>1, <1>4, <1>5, <1>14, <1>15 DEF CallbacksInv

LEMMA NothingKeepsCallbacks ==
    ASSUME CallbacksInv, UNCHANGED vars
    PROVE  CallbacksInv'
<1>1. /\ nextID' = nextID /\ callbacks' = callbacks /\ owed' = owed
      /\ loop' = loop /\ called' = called
    BY DEF vars
<1> QED
    BY <1>1 DEF CallbacksInv, LoopOK, StandsIn

LEMMA CallbacksStep ==
    ASSUME CallbacksInv, [DispatchNext]_allVars
    PROVE  CallbacksInv'
<1>1. CASE queryAndSend
    BY <1>1, QueryKeepsCallbacks DEF queryAndSend
<1>2. CASE receive
    BY <1>2, AnswerKeepsCallbacks, PeerKeepsCallbacks, NothingKeepsCallbacks DEF receive
<1>3. CASE runCallbacks
    BY <1>3, CallKeepsCallbacks, EraseKeepsCallbacks, PassByKeepsCallbacks,
       ReturnKeepsCallbacks DEF runCallbacks
<1>4. CASE UNCHANGED vars
    BY <1>4, NothingKeepsCallbacks
<1>5. [DispatchNext]_allVars =>
         queryAndSend \/ receive \/ runCallbacks \/ UNCHANGED vars
    BY DEF DispatchNext, allVars, registerXPath, unregisterXPath, send, runQueries, Turn,
           checkMatches, checkFails, returns, faults, endLoop
<1> QED
    BY <1>1, <1>2, <1>3, <1>4, <1>5

LEMMA CallbacksInvariant == DispatchSpec => []CallbacksInv
<1>1. DispatchInit => CallbacksInv
    BY InitCallbacks DEF DispatchInit
<1>2. CallbacksInv /\ [DispatchNext]_allVars => CallbacksInv'
    BY CallbacksStep
<1> QED
    BY <1>1, <1>2, PTL DEF DispatchSpec

(***************************************************************************)
(* For any number of queries and whatever the base and the width of ids:    *)
(* handleIQ() calls a callback for a stanza with the id it was registered   *)
(* under and for no other.                                                  *)
(***************************************************************************)
THEOREM CallbacksGetTheirOwn == DispatchSpec => []CalledForOwnID
<1>1. CallbacksInv => CalledForOwnID
    BY DEF CallbacksInv, CalledForOwnID
<1> QED
    BY <1>1, CallbacksInvariant, PTL

(***************************************************************************)
(* For any number of queries, also those made in a callback while the loop  *)
(* of handleIQ() holds its iterators, and also when the texts of two ids    *)
(* are the same: a callback waits in the map or has been called, and those  *)
(* of the answers that came have been called and are gone.                  *)
(***************************************************************************)
THEOREM CallbacksAreAnswered == DispatchSpec => []CalledWhenAnswered
<1>1. ASSUME CallbacksInv PROVE CalledWhenAnswered
    <2>1. Nodes = Held(callbacks)
        BY <1>1, CallbackFacts DEF Nodes, Held
    <2>2. 0 .. nextID - 1 \subseteq Held(callbacks) \cup Done(called)
        BY <1>1 DEF CallbacksInv
    <2>3. ASSUME loop = Idle PROVE Held(callbacks) \subseteq owed
        <3>1. loop \notin Loops
            BY <2>3, LoopIsNotIdle
        <3> QED
            BY <1>1, <3>1 DEF CallbacksInv, LoopOK
    <2>4. \A n : n \in Done(called) <=> \E c \in called : c.n = n
        BY DEF Done
    <2> SUFFICES ASSUME NEW n \in 0 .. nextID - 1
                 PROVE  LET wasCalled == \E c \in called : c.n = n
                        IN  /\ n \in Nodes \/ wasCalled
                            /\ n \notin owed /\ loop = Idle => wasCalled /\ n \notin Nodes
        BY DEF CalledWhenAnswered
    <2>5. n \in Nodes \/ \E c \in called : c.n = n
        BY <2>1, <2>2, <2>4
    <2>6. n \notin owed /\ loop = Idle => n \notin Nodes
        BY <2>1, <2>3
    <2> QED
        BY <2>5, <2>6
<1> QED
    BY <1>1, CallbacksInvariant, PTL

-----------------------------------------------------------------------------
(* dispatch() and its one loop                                              *)

OneIncoming ==
    /\ stanza = "queries" => running # <<>>
    /\ \A i \in 1 .. Len(running) :
          running[i].list = "incoming" <=> i = 1 /\ stanza = "queries"

\* A loop over what goes out begins.
LEMMA PushOutgoing ==
    ASSUME LoopsInv, OneIncoming, running' = Append(running, Loop("outgoing")),
           stanza' = stanza
    PROVE  OneIncoming'
<1>1. running \in Seq(Frames) /\ Loop("outgoing") \in Frames /\ Loop("outgoing").list = "outgoing"
    BY LoopStands DEF LoopsInv, LoopsTypeOK, Lists
<1> DEFINE f == Loop("outgoing")
<1> HIDE DEF f
<1>3. /\ Len(running) \in Nat /\ Len(running') = Len(running) + 1
      /\ running'[Len(running) + 1] = f
      /\ \A i \in 1 .. Len(running) : running'[i] = running[i]
      /\ running' \in Seq(Frames)
    BY <1>1, Pushed DEF f
<1>4. f.list = "outgoing"
    BY <1>1 DEF f
<1>5. stanza = "queries" => Len(running) >= 1
    BY <1>1, <1>3, EmptySeq DEF OneIncoming
<1>6. \A i \in 1 .. Len(running') :
          running'[i].list = "incoming" <=> i = 1 /\ stanza' = "queries"
    BY <1>3, <1>4, <1>5 DEF OneIncoming
<1>7. running' # <<>>
    BY <1>3, EmptySeq
<1> QED
    BY <1>6, <1>7 DEF OneIncoming

\* A loop has taken a turn, or others have lost their node.
LEMMA SameLists ==
    ASSUME LoopsInv, OneIncoming, LoopsInv', stanza' = stanza,
           Len(running') = Len(running),
           \A i \in 1 .. Len(running) : running'[i].list = running[i].list
    PROVE  OneIncoming'
<1>1. Len(running) \in Nat /\ (running # <<>> => running' # <<>>)
    BY EmptySeq, LenProperties DEF LoopsInv, LoopsTypeOK
<1> QED
    BY <1>1 DEF OneIncoming

\* The innermost loop is replaced by one over the same list.
LEMMA TopReplaced ==
    ASSUME LoopsInv, OneIncoming, LoopsInv', running # <<>>, NEW f, ReplaceTop(f),
           f.list = Top.list, stanza' = stanza
    PROVE  OneIncoming'
<1>1. running \in Seq(Frames) /\ running' = Append(Front(running), f)
    BY DEF LoopsInv, LoopsTypeOK, ReplaceTop
<1>2. /\ Len(running) \in Nat /\ Len(running) \in 1 .. Len(running)
      /\ Top = running[Len(running)]
      /\ Front(running) \in Seq(Frames) /\ Len(Front(running)) = Len(running) - 1
      /\ \A i \in 1 .. Len(running) - 1 : Front(running)[i] = running[i]
    BY <1>1, Popped DEF Top
<1>3. /\ Len(Append(Front(running), f)) = Len(Front(running)) + 1
      /\ Append(Front(running), f)[Len(Front(running)) + 1] = f
      /\ \A i \in 1 .. Len(Front(running)) : Append(Front(running), f)[i] = Front(running)[i]
    <2> DEFINE S == Frames \cup {f}
    <2>1. f \in S /\ Frames \subseteq S
        OBVIOUS
    <2> HIDE DEF S
    <2>2. Front(running) \in Seq(S)
        <3>1. \A i \in 1 .. Len(Front(running)) : Front(running)[i] \in Frames
            BY <1>2, ElementOfSeq
        <3> QED
            BY <1>2, <2>1, <3>1
    <2> QED
        BY <2>1, <2>2, AppendProperties
<1>4. Len(running') = Len(running) /\ running'[Len(running)] = f
      /\ \A i \in 1 .. Len(running) - 1 : running'[i] = running[i]
    BY <1>1, <1>2, <1>3
<1>5. \A i \in 1 .. Len(running) : running'[i].list = running[i].list
    BY <1>2, <1>4
<1> QED
    BY <1>4, <1>5, SameLists

\* dispatch() has ended, or a loop of operator<< has.
LEMMA LoopEnded ==
    ASSUME LoopsInv, OneIncoming, endLoop
    PROVE  OneIncoming'
<1>1. /\ running # <<>> /\ running' = Front(running) /\ running \in Seq(Frames)
      /\ stanza' = IF Top.list = "incoming" THEN "none" ELSE stanza
    BY DEF endLoop, LoopsInv, LoopsTypeOK
<1>2. /\ Len(running) \in Nat /\ Len(running) \in 1 .. Len(running)
      /\ Top = running[Len(running)]
      /\ running' \in Seq(Frames) /\ Len(running') = Len(running) - 1
      /\ \A i \in 1 .. Len(running) - 1 : running'[i] = running[i]
    BY <1>1, Popped DEF Top
<1>3. CASE Top.list = "incoming"
    <2>1. Len(running) = 1 /\ stanza' = "none"
        BY <1>1, <1>2, <1>3 DEF OneIncoming
    <2> QED
        BY <1>2, <2>1 DEF OneIncoming
<1>4. CASE Top.list # "incoming"
    <2>1. stanza' = stanza /\ (stanza = "queries" => Len(running) # 1)
        BY <1>1, <1>2, <1>4 DEF OneIncoming
    <2>2. stanza' = "queries" => running' # <<>>
        <3>1. Len(running') # 0 => running' # <<>>
            BY <1>2, EmptySeq
        <3> QED
            BY <1>2, <2>1, <3>1
    <2>3. \A i \in 1 .. Len(running') :
              running'[i].list = "incoming" <=> i = 1 /\ stanza' = "queries"
        BY <1>2, <2>1 DEF OneIncoming
    <2> QED
        BY <2>2, <2>3 DEF OneIncoming
<1> QED
    BY <1>3, <1>4

LEMMA OneIncomingStep ==
    ASSUME LoopsInv, OneIncoming, [DispatchNext]_allVars
    PROVE  OneIncoming'
<1>0. LoopsInv'
    BY LoopsStep
<1>1. CASE running' = running /\ (stanza' = stanza \/ (running = <<>> /\ stanza' # "queries"))
    <2>1. Len(<<>>) = 0
        OBVIOUS
    <2> QED
        BY <1>1, <2>1 DEF OneIncoming
<1>2. CASE send
    BY <1>2, PushOutgoing DEF send
<1>3. CASE runQueries
    <2>1. /\ running' = <<Loop("incoming")>> /\ stanza' = "queries"
          /\ Loop("incoming").list = "incoming"
        BY <1>3 DEF runQueries, Loop
    <2> DEFINE f == Loop("incoming")
    <2> HIDE DEF f
    <2>2. Len(<<f>>) = 1 /\ <<f>>[1] = f /\ <<f>> # <<>>
        OBVIOUS
    <2> QED
        BY <2>1, <2>2 DEF OneIncoming, f
<1>4. ASSUME NEW q, NEW l \in Lists, unregisterXPath(q, l)
      PROVE  OneIncoming'
    <2>1. /\ stanza' = stanza
          /\ running' = [i \in DOMAIN running |->
                           IF running[i].list = l /\ running[i].it = q
                           THEN [running[i] EXCEPT !.it = Gone] ELSE running[i]]
        BY <1>4 DEF unregisterXPath
    <2>2. /\ DOMAIN running = 1 .. Len(running) /\ Len(running) \in Nat
          /\ \A i \in 1 .. Len(running) : running[i] \in Frames
        BY LenProperties, ElementOfSeq DEF LoopsInv, LoopsTypeOK
    <2>3. Len(running') = Len(running)
        <3>1. DOMAIN running' = 1 .. Len(running) /\ DOMAIN running' = 1 .. Len(running')
              /\ Len(running') \in Nat
            BY <1>0, <2>1, <2>2, LenProperties DEF LoopsInv, LoopsTypeOK
        <3> QED
            BY <2>2, <3>1
    <2>4. \A i \in 1 .. Len(running) : running'[i].list = running[i].list
        <3> SUFFICES ASSUME NEW i \in 1 .. Len(running)
                     PROVE  running'[i].list = running[i].list
            OBVIOUS
        <3>1. [running[i] EXCEPT !.it = Gone].list = running[i].list
            BY <2>2 DEF Frames
        <3> QED
            BY <2>1, <2>2, <3>1
    <2> QED
        BY <1>0, <2>1, <2>3, <2>4, SameLists
<1>5. CASE checkMatches \/ checkFails \/ returns
    <2>0. running # <<>> /\ stanza' = stanza
        BY <1>5 DEF checkMatches, checkFails, returns, AtAQuery
    <2>1. Top \in Frames
        BY <2>0, TopHolds
    <2>2. CASE checkMatches
        <3> DEFINE f == [Top EXCEPT !.inside = TRUE, !.calls = Top.it,
                                    !.done = @ \cup {Top.it}]
        <3>1. ReplaceTop(f) /\ f.list = Top.list
            BY <2>1, <2>2 DEF checkMatches, Frames
        <3> HIDE DEF f
        <3> QED
            BY <1>0, <2>0, <3>1, TopReplaced
    <2>3. CASE checkFails
        <3> DEFINE f == [Top EXCEPT !.it = After(queries[Top.list], Top.it),
                                    !.done = @ \cup {Top.it}]
        <3>1. ReplaceTop(f) /\ f.list = Top.list
            BY <2>1, <2>3 DEF checkFails, Frames
        <3> HIDE DEF f
        <3> QED
            BY <1>0, <2>0, <3>1, TopReplaced
    <2>4. CASE returns
        <3> DEFINE f == [Top EXCEPT !.inside = FALSE, !.calls = End,
                                    !.it = After(queries[Top.list], Top.it)]
        <3>1. ReplaceTop(f) /\ f.list = Top.list
            BY <2>1, <2>4 DEF returns, Frames
        <3> HIDE DEF f
        <3> QED
            BY <1>0, <2>0, <3>1, TopReplaced
    <2> QED
        BY <1>5, <2>2, <2>3, <2>4
<1>6. CASE endLoop
    BY <1>6, LoopEnded
<1>7. ASSUME \/ \E l \in Lists : registerXPath(l)
             \/ queryAndSend
             \/ receive
             \/ runCallbacks
             \/ faults
             \/ UNCHANGED allVars
      PROVE  running' = running /\ (stanza' = stanza \/ (running = <<>> /\ stanza' # "queries"))
    BY <1>7 DEF registerXPath, queryAndSend, receive, runCallbacks, faults, allVars
<1>8. CASE \E q \in 0 .. MaxQueries - 1, l \in Lists : unregisterXPath(q, l)
    BY <1>4, <1>8
<1> QED
    BY <1>1, <1>2, <1>3, <1>5, <1>6, <1>7, <1>8 DEF DispatchNext, Turn

LEMMA OneIncomingInvariant == DispatchSpec => []OneIncoming
<1>1. DispatchInit => OneIncoming
    <2>1. Len(<<>>) = 0
        OBVIOUS
    <2> QED
        BY <2>1 DEF DispatchInit, OneIncoming
<1>2. LoopsInv /\ OneIncoming /\ [DispatchNext]_allVars => OneIncoming'
    BY OneIncomingStep
<1> QED
    BY <1>1, <1>2, LoopsInvariant, PTL DEF DispatchSpec

-----------------------------------------------------------------------------
(* Everything stands where it should                                        *)

LEMMA CallbacksType ==
    ASSUME CallbacksInv
    PROVE  TypeOK /\ IteratorsInOrder
<1>1. /\ nextID \in Nat /\ Len(callbacks) \in Nat /\ DOMAIN callbacks = 1 .. Len(callbacks)
      /\ \A i \in 1 .. Len(callbacks) :
            /\ callbacks[i].n \in 0 .. nextID - 1
            /\ callbacks[i].id = IdText(callbacks[i].n)
    BY CallbackFacts
<1>2. Nodes = Held(callbacks) /\ Nodes \subseteq 0 .. nextID - 1
    BY <1>1 DEF Nodes, Held
<1>3. \A i, k \in DOMAIN callbacks :
          /\ callbacks[i].id = IdText(callbacks[i].n)
          /\ i < k => callbacks[i].n # callbacks[k].n
          /\ i < k => ~ Before(callbacks[k].id, callbacks[i].id)
    BY <1>1 DEF CallbacksInv, ListOK
<1>4. ASSUME loop # Idle
      PROVE  /\ loop.busy /\ {loop.it, loop.last} \subseteq Nodes \cup {End}
             /\ Position(callbacks, loop.it) <= Position(callbacks, loop.last)
    <2>1. PICK p \in 1 .. Len(callbacks) + 1, q \in 1 .. Len(callbacks) + 1 :
              StandsIn(loop, callbacks, p, q)
        BY <1>4, RunningLoop
    <2>2. p <= q /\ loop.it = NodeAt(callbacks, p) /\ loop.last = NodeAt(callbacks, q)
        BY <2>1 DEF StandsIn
    <2>3. Position(callbacks, loop.it) = p /\ Position(callbacks, loop.last) = q
        BY <2>2, PositionOfNode DEF CallbacksInv
    <2>4. \A i \in 1 .. Len(callbacks) + 1 : NodeAt(callbacks, i) \in Nodes \cup {End}
        BY <1>1, <1>2 DEF NodeAt, Held
    <2>5. loop.busy
        BY <1>4, RunningLoop DEF Loops
    <2> QED
        BY <2>2, <2>3, <2>4, <2>5
<1>5. TypeOK
    BY <1>2, <1>3, <1>4 DEF TypeOK, CallbacksInv
<1> QED
    BY <1>4, <1>5 DEF IteratorsInOrder

LEMMA QueriesType ==
    ASSUME LoopsInv, OneIncoming
    PROVE  /\ \A l \in Lists : ToSet(queries[l]) \subseteq 0 .. nextQuery - 1
           /\ \A i \in DOMAIN running :
                 LET f == running[i]
                 IN  /\ f.it \in ToSet(queries[f.list]) \cup {End, Gone}
                     /\ f.list = "incoming" <=> i = 1 /\ stanza = "queries"
<1>1. ASSUME NEW l \in Lists
      PROVE  /\ DOMAIN queries[l] = 1 .. Len(queries[l])
             /\ \A k \in 1 .. Len(queries[l]) : queries[l][k] \in 0 .. nextQuery - 1
    <2>1. queries[l] \in Seq(Nat) /\ nextQuery \in Nat /\ Distinct(queries[l], nextQuery)
        BY DEF LoopsInv, LoopsTypeOK
    <2>2. DOMAIN queries[l] = 1 .. Len(queries[l]) /\ \A k \in 1 .. Len(queries[l]) : queries[l][k] \in Nat
        BY <2>1, LenProperties, ElementOfSeq
    <2> QED
        BY <2>1, <2>2 DEF Distinct
<1>2. \A l \in Lists : ToSet(queries[l]) \subseteq 0 .. nextQuery - 1
    BY <1>1 DEF ToSet
<1>3. ASSUME NEW i \in DOMAIN running
      PROVE  /\ running[i].it \in ToSet(queries[running[i].list]) \cup {End, Gone}
             /\ running[i].list = "incoming" <=> i = 1 /\ stanza = "queries"
    <2>1. i \in 1 .. Len(running) /\ running[i] \in Frames
        BY LenProperties, ElementOfSeq DEF LoopsInv, LoopsTypeOK
    <2>2. running[i].list \in Lists /\ Stands(running[i], queries[running[i].list])
        BY <2>1 DEF LoopsInv, Frames
    <2> DEFINE f == running[i]
               list == queries[f.list]
    <2>3. DOMAIN list = 1 .. Len(list)
        BY <1>1, <2>2
    <2>4. Stands(f, list)
        BY <2>2
    <2> HIDE DEF f, list
    <2>5. f.it \in ToSet(list) \cup {End, Gone}
        BY <2>3, <2>4 DEF Stands, StandsAt, ToSet
    <2> QED
        BY <2>1, <2>5 DEF OneIncoming, f, list
<1> QED
    BY <1>2, <1>3

(***************************************************************************)
(* Whatever is registered, answered, sent and unregistered, however deep:   *)
(* the iterators of handleIQ() point to nodes that are there and are in     *)
(* order, the loops over queries stand in their lists or have lost their    *)
(* node, and only the outermost can be that of dispatch().                  *)
(***************************************************************************)
THEOREM LoopsStandInTheirLists == DispatchSpec => []DispatchInv
<1>1. CallbacksInv /\ LoopsInv /\ OneIncoming => DispatchInv
    BY CallbacksType, QueriesType DEF DispatchInv, DispatchTypeOK
<1> QED
    BY <1>1, CallbacksInvariant, LoopsInvariant, OneIncomingInvariant, PTL
=============================================================================
