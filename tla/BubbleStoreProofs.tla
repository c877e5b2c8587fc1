--------------------------- MODULE BubbleStoreProofs ---------------------------
(***************************************************************************)
(* Proofs about the store of bubbles and the library over it.              *)
(***************************************************************************)
EXTENDS BubblesPage, Integers, FiniteSetTheorems, TLAPS, SequenceTheorems

StoreAssumptions ==
    TradesAssumption /\ PagesAssumption /\ StoreBounds /\ AboutAssumption

-----------------------------------------------------------------------------
(* What a selection returns: as many items as there are positions, each of them once, and *)
(* nothing else.                                                                           *)

\* A finite set of numbers has a k-th smallest one, for every k up to its size.
LEMMA NthIs ==
    ASSUME NEW n \in Nat, NEW S \in SUBSET (1 .. n)
    PROVE  /\ IsFiniteSet(S) /\ Cardinality(S) \in 0 .. n
           /\ \A k \in 1 .. Cardinality(S) :
                 Nth(S, k) \in S /\ Cardinality({j \in S : j <= Nth(S, k)}) = k
           /\ \A i \in S : \E k \in 1 .. Cardinality(S) : Nth(S, k) = i
<1> DEFINE Upto(i) == {j \in S : j <= i}
           T == 1 .. Cardinality(S)
           f == [i \in S |-> Cardinality(Upto(i))]
<1>1. IsFiniteSet(1 .. n) /\ Cardinality(1 .. n) = n
  BY FS_Interval
<1>2. IsFiniteSet(S) /\ Cardinality(S) \in 0 .. n
  <2>1. IsFiniteSet(S) /\ Cardinality(S) <= Cardinality(1 .. n)
    BY <1>1, FS_Subset
  <2>2. Cardinality(S) \in Nat
    BY <2>1, FS_CardinalityType
  <2> QED
    BY <1>1, <2>1, <2>2
<1>3. IsFiniteSet(T) /\ Cardinality(T) = Cardinality(S)
  BY <1>2, FS_Interval
<1>4. \A i \in S : /\ IsFiniteSet(Upto(i)) /\ Cardinality(Upto(i)) \in T
  <2> TAKE i \in S
  <2>1. IsFiniteSet(Upto(i)) /\ Cardinality(Upto(i)) <= Cardinality(S)
    BY <1>2, FS_Subset
  <2>2. Upto(i) # {}
    OBVIOUS
  <2>3. Cardinality(Upto(i)) \in Nat \ {0}
    BY <2>1, <2>2, FS_CardinalityType, FS_EmptySet
  <2> QED
    BY <1>2, <2>1, <2>3
<1>5. \A i, j \in S : Cardinality(Upto(i)) = Cardinality(Upto(j)) => i = j
  <2>1. ASSUME NEW i \in S, NEW j \in S, i < j PROVE Cardinality(Upto(i)) # Cardinality(Upto(j))
    <3>0. i \in Int /\ j \in Int /\ \A x \in S : x \in Int
      OBVIOUS
    <3>2. \A x \in S : x <= i => x <= j
      BY <2>1, <3>0
    <3>3. j \in Upto(j) /\ j \notin Upto(i)
      BY <2>1, <3>0
    <3>1. Upto(i) \in SUBSET Upto(j) /\ j \in Upto(j) /\ j \notin Upto(i)
      BY <3>2, <3>3
    <3> QED
      BY <1>4, <3>1, FS_Subset
  <2> QED
    BY <2>1
<1>6. f \in Injection(S, T)
  <2>1. f \in [S -> T]
    BY <1>4, Zenon
  <2>2. \A i, j \in S : f[i] = f[j] => i = j
    BY <1>5, Zenon
  <2> HIDE DEF f
  <2> QED
    BY <2>1, <2>2 DEF Injection, IsInjective
<1>7. f \in Surjection(S, T)
  BY <1>3, <1>6, FS_Injection
<1>8. \A k \in T : \E i \in S : Cardinality(Upto(i)) = k
  BY <1>7 DEF Surjection
<1>9. \A k \in T : Nth(S, k) \in S /\ Cardinality(Upto(Nth(S, k))) = k
  BY <1>8 DEF Nth
<1>10. \A i \in S : \E k \in T : Nth(S, k) = i
  BY <1>4, <1>5, <1>9
<1> QED
  BY <1>2, <1>9, <1>10

SelectionIs(X, s, S) ==
    /\ IsFiniteSet(S) /\ Cardinality(S) \in 0 .. Len(s)
    /\ Selected(s, S) \in Seq(X) /\ Len(Selected(s, S)) = Cardinality(S)
    /\ \A k \in 1 .. Cardinality(S) : \E i \in S : Selected(s, S)[k] = s[i]
    /\ \A i \in S : \E k \in 1 .. Cardinality(S) : Selected(s, S)[k] = s[i]
    /\ (\A i, j \in S : s[i] = s[j] => i = j) =>
          \A k, l \in 1 .. Cardinality(S) : Selected(s, S)[k] = Selected(s, S)[l] => k = l

LEMMA SelectedIs ==
    ASSUME NEW X, NEW s \in Seq(X), NEW S \in SUBSET DOMAIN s
    PROVE  SelectionIs(X, s, S)
<1>1. Len(s) \in Nat /\ DOMAIN s = 1 .. Len(s)
  OBVIOUS
<1>2. /\ IsFiniteSet(S) /\ Cardinality(S) \in 0 .. Len(s)
      /\ \A k \in 1 .. Cardinality(S) :
            Nth(S, k) \in S /\ Cardinality({j \in S : j <= Nth(S, k)}) = k
      /\ \A i \in S : \E k \in 1 .. Cardinality(S) : Nth(S, k) = i
  BY <1>1, NthIs
<1>3. \A k \in 1 .. Cardinality(S) : Selected(s, S)[k] = s[Nth(S, k)]
  BY DEF Selected
<1>4. Selected(s, S) \in Seq(X) /\ Len(Selected(s, S)) = Cardinality(S)
  <2>1. \A k \in 1 .. Cardinality(S) : s[Nth(S, k)] \in X
    <3> TAKE k \in 1 .. Cardinality(S)
    <3>1. Nth(S, k) \in 1 .. Len(s)
      BY <1>1, <1>2, Zenon
    <3> QED
      BY <3>1
  <2> QED
    BY <1>2, <2>1 DEF Selected
<1>5. \A k, l \in 1 .. Cardinality(S) : Nth(S, k) = Nth(S, l) => k = l
  BY <1>2
<1>6. /\ IsFiniteSet(S) /\ Cardinality(S) \in 0 .. Len(s)
      /\ Selected(s, S) \in Seq(X) /\ Len(Selected(s, S)) = Cardinality(S)
      /\ \A k \in 1 .. Cardinality(S) : \E i \in S : Selected(s, S)[k] = s[i]
      /\ \A i \in S : \E k \in 1 .. Cardinality(S) : Selected(s, S)[k] = s[i]
      /\ (\A i, j \in S : s[i] = s[j] => i = j) =>
            \A k, l \in 1 .. Cardinality(S) : Selected(s, S)[k] = Selected(s, S)[l] => k = l
  BY <1>2, <1>3, <1>4, <1>5, ZenonT(40)
<1> QED
  BY <1>6, Zenon DEF SelectionIs

-----------------------------------------------------------------------------
(* Sequences *)

Distinct(s) == \A i, j \in DOMAIN s : s[i] = s[j] => i = j

LEMMA ElementsOfConcat ==
    ASSUME NEW X, NEW s \in Seq(X), NEW t \in Seq(X)
    PROVE  /\ s \o t \in Seq(X) /\ Len(s \o t) = Len(s) + Len(t)
           /\ Elements(s \o t) = Elements(s) \cup Elements(t)
<1>1. /\ s \o t \in Seq(X) /\ Len(s \o t) = Len(s) + Len(t)
      /\ \A i \in 1 .. Len(s) + Len(t) : (s \o t)[i] = IF i <= Len(s) THEN s[i] ELSE t[i - Len(s)]
  BY ConcatProperties
<1>2. /\ DOMAIN s = 1 .. Len(s) /\ DOMAIN t = 1 .. Len(t) /\ Len(s) \in Nat /\ Len(t) \in Nat
      /\ DOMAIN (s \o t) = 1 .. Len(s) + Len(t)
  BY <1>1
<1>3. ASSUME NEW x \in Elements(s \o t) PROVE x \in Elements(s) \cup Elements(t)
  <2>1. PICK i \in 1 .. Len(s) + Len(t) : x = (s \o t)[i]
    BY <1>2 DEF Elements
  <2>2. CASE i <= Len(s)
    BY <1>1, <1>2, <2>1, <2>2 DEF Elements
  <2>3. CASE i > Len(s)
    <3>1. i - Len(s) \in 1 .. Len(t) /\ x = t[i - Len(s)]
      BY <1>1, <1>2, <2>1, <2>3
    <3> QED
      BY <1>2, <3>1 DEF Elements
  <2> QED
    BY <1>2, <2>2, <2>3
<1>4. ASSUME NEW x \in Elements(s) PROVE x \in Elements(s \o t)
  <2>1. PICK i \in 1 .. Len(s) : x = s[i]
    BY <1>2 DEF Elements
  <2>2. i \in 1 .. Len(s) + Len(t) /\ (s \o t)[i] = x
    BY <1>1, <1>2, <2>1
  <2> QED
    BY <1>2, <2>2 DEF Elements
<1>5. ASSUME NEW x \in Elements(t) PROVE x \in Elements(s \o t)
  <2>1. PICK i \in 1 .. Len(t) : x = t[i]
    BY <1>2 DEF Elements
  <2>2. i + Len(s) \in 1 .. Len(s) + Len(t) /\ (s \o t)[i + Len(s)] = x
    BY <1>1, <1>2, <2>1
  <2> QED
    BY <1>2, <2>2 DEF Elements
<1> QED
  BY <1>1, <1>3, <1>4, <1>5

LEMMA ElementsTyped ==
    ASSUME NEW X, NEW s \in Seq(X)
    PROVE  Elements(s) \subseteq X
  BY DEF Elements

LEMMA ElementsOfNone == Elements(<<>>) = {}
  BY DEF Elements

\* One more item, new to the sequence.
LEMMA Appended ==
    ASSUME NEW X, NEW s \in Seq(X), NEW x \in X
    PROVE  /\ Append(s, x) \in Seq(X) /\ Len(Append(s, x)) = Len(s) + 1
           /\ Elements(Append(s, x)) = Elements(s) \cup {x}
           /\ Distinct(s) /\ x \notin Elements(s) => Distinct(Append(s, x))
<1>1. /\ Append(s, x) \in Seq(X) /\ Len(Append(s, x)) = Len(s) + 1 /\ Len(s) \in Nat
      /\ \A i \in 1 .. Len(s) : Append(s, x)[i] = s[i]
      /\ Append(s, x)[Len(s) + 1] = x
      /\ DOMAIN s = 1 .. Len(s) /\ DOMAIN Append(s, x) = 1 .. Len(s) + 1
  BY AppendProperties
<1>2. Elements(Append(s, x)) = Elements(s) \cup {x}
  BY <1>1 DEF Elements
<1>3. Distinct(s) /\ x \notin Elements(s) => Distinct(Append(s, x))
  BY <1>1 DEF Elements, Distinct
<1> QED
  BY <1>1, <1>2, <1>3

\* An item between others.
LEMMA Inserted ==
    ASSUME NEW X, NEW s \in Seq(X), NEW x \in X, NEW k \in 0 .. Len(s)
    PROVE  \E t \in Seq(X) :
              /\ t = SubSeq(s, 1, k) \o <<x>> \o SubSeq(s, k + 1, Len(s))
              /\ Len(t) = Len(s) + 1 /\ Elements(t) = Elements(s) \cup {x}
              /\ Distinct(s) /\ x \notin Elements(s) => Distinct(t)
<1>1. Len(s) \in Nat /\ k \in Nat /\ k <= Len(s)
  OBVIOUS
<1>0. DOMAIN s = 1 .. Len(s)
  OBVIOUS
<1>2. /\ SubSeq(s, 1, k) \in Seq(X) /\ Len(SubSeq(s, 1, k)) = k
      /\ \A i \in 1 .. k : SubSeq(s, 1, k)[i] = s[i]
  BY <1>1
<1>3. /\ SubSeq(s, k + 1, Len(s)) \in Seq(X) /\ Len(SubSeq(s, k + 1, Len(s))) = Len(s) - k
      /\ \A i \in 1 .. Len(s) - k : SubSeq(s, k + 1, Len(s))[i] = s[k + i]
  <2>1. /\ SubSeq(s, k + 1, Len(s)) \in Seq(X)
        /\ Len(SubSeq(s, k + 1, Len(s))) = IF k + 1 <= Len(s) THEN Len(s) - (k + 1) + 1 ELSE 0
        /\ \A i \in 1 .. Len(s) - (k + 1) + 1 : SubSeq(s, k + 1, Len(s))[i] = s[k + 1 + i - 1]
    BY <1>1, SubSeqProperties
  <2>2. \A i \in 1 .. Len(s) - k : i \in 1 .. Len(s) - (k + 1) + 1 /\ k + 1 + i - 1 = k + i
    BY <1>1
  <2>3. Len(SubSeq(s, k + 1, Len(s))) = Len(s) - k
    <3>1. CASE k < Len(s)
      BY <1>1, <2>1, <3>1
    <3>2. CASE k = Len(s)
      BY <1>1, <2>1, <3>2
    <3> QED
      BY <1>1, <3>1, <3>2
  <2>4. ASSUME NEW i \in 1 .. Len(s) - k PROVE SubSeq(s, k + 1, Len(s))[i] = s[k + i]
    BY <2>1, <2>2, Zenon
  <2> QED
    BY <2>1, <2>3, <2>4
<1>4. PICK a \in Seq(X) : a = SubSeq(s, 1, k)
  BY <1>2
<1>5. PICK c \in Seq(X) : c = SubSeq(s, k + 1, Len(s))
  BY <1>3
<1>6. /\ Len(a) = k /\ \A i \in 1 .. k : a[i] = s[i]
      /\ Len(c) = Len(s) - k /\ \A i \in 1 .. Len(s) - k : c[i] = s[k + i]
  BY <1>2, <1>3, <1>4, <1>5, Zenon
<1>7. /\ a \o <<x>> \in Seq(X) /\ Len(a \o <<x>>) = k + 1
      /\ \A i \in 1 .. k + 1 : (a \o <<x>>)[i] = IF i <= k THEN s[i] ELSE x
  BY <1>1, <1>6
<1>8. PICK d \in Seq(X) : d = a \o <<x>>
  BY <1>7
<1>9. Len(d) = k + 1 /\ \A i \in 1 .. k + 1 : d[i] = IF i <= k THEN s[i] ELSE x
  BY <1>7, <1>8, Zenon
<1>10. /\ d \o c \in Seq(X) /\ Len(d \o c) = Len(d) + Len(c)
       /\ \A i \in 1 .. Len(d) + Len(c) : (d \o c)[i] = IF i <= Len(d) THEN d[i] ELSE c[i - Len(d)]
  BY ConcatProperties
<1>11. PICK t \in Seq(X) : t = d \o c
  BY <1>10
<1>12. t = SubSeq(s, 1, k) \o <<x>> \o SubSeq(s, k + 1, Len(s))
  BY <1>4, <1>5, <1>8, <1>11, Zenon
<1>13. /\ Len(t) = Len(s) + 1
       /\ \A i \in 1 .. Len(s) + 1 : t[i] = IF i <= k + 1 THEN d[i] ELSE c[i - (k + 1)]
  <2>1. Len(t) = Len(d) + Len(c) /\ Len(d) + Len(c) = Len(s) + 1
    BY <1>1, <1>6, <1>9, <1>10, <1>11
  <2>2. \A i \in 1 .. Len(d) + Len(c) : t[i] = IF i <= Len(d) THEN d[i] ELSE c[i - Len(d)]
    BY <1>10, <1>11, Zenon
  <2> QED
    BY <1>9, <2>1, <2>2
<1>14. ASSUME NEW i \in 1 .. Len(s) + 1
       PROVE  t[i] = IF i <= k THEN s[i] ELSE IF i = k + 1 THEN x ELSE s[i - 1]
  <2>1. CASE i <= k + 1
    BY <1>1, <1>9, <1>13, <2>1
  <2>2. CASE i > k + 1
    <3>1. i - (k + 1) \in 1 .. Len(s) - k /\ k + (i - (k + 1)) = i - 1 /\ ~ (i <= k + 1) /\ ~ (i <= k) /\ i # k + 1
      BY <1>1, <2>2
    <3>2. c[i - (k + 1)] = s[i - 1]
      BY <1>6, <3>1
    <3> QED
      BY <1>13, <3>1, <3>2
  <2> QED
    BY <1>1, <2>1, <2>2
<1>17. DOMAIN t = 1 .. Len(s) + 1
  BY <1>1, <1>13
<1>15. Elements(t) = Elements(s) \cup {x}
  <2>1. Elements(t) \subseteq Elements(s) \cup {x}
    <3>1. ASSUME NEW i \in DOMAIN t PROVE t[i] \in Elements(s) \cup {x}
      <4>1. CASE i <= k
        BY <1>0, <1>1, <1>13, <1>14, <1>17, <4>1 DEF Elements
      <4>2. CASE i = k + 1
        BY <1>1, <1>13, <1>14, <1>17, <4>2
      <4>3. CASE i > k + 1
        <5>1. i - 1 \in DOMAIN s /\ t[i] = s[i - 1]
          BY <1>0, <1>1, <1>13, <1>14, <1>17, <4>3
        <5> QED
          BY <5>1 DEF Elements
      <4> QED
        BY <1>1, <1>17, <4>1, <4>2, <4>3
    <3> QED
      BY <3>1 DEF Elements
  <2>2. x \in Elements(t)
    <3>1. k + 1 \in DOMAIN t /\ t[k + 1] = x
      BY <1>1, <1>13, <1>14, <1>17
    <3> QED
      BY <3>1 DEF Elements
  <2>3. ASSUME NEW i \in DOMAIN s PROVE s[i] \in Elements(t)
    <3>1. CASE i <= k
      <4>1. i \in DOMAIN t /\ t[i] = s[i]
        BY <1>1, <1>13, <1>14, <1>17, <3>1
      <4> QED
        BY <4>1 DEF Elements
    <3>2. CASE i > k
      <4>1. i + 1 \in DOMAIN t /\ t[i + 1] = s[i]
        BY <1>1, <1>13, <1>14, <1>17, <3>2
      <4> QED
        BY <4>1 DEF Elements
    <3> QED
      BY <1>1, <3>1, <3>2
  <2> QED
    BY <2>1, <2>2, <2>3 DEF Elements
<1>16. Distinct(s) /\ x \notin Elements(s) => Distinct(t)
  <2> SUFFICES ASSUME Distinct(s), x \notin Elements(s), NEW i \in DOMAIN t, NEW j \in DOMAIN t,
                      t[i] = t[j]
               PROVE  i = j
    BY DEF Distinct
  <2>1. \A l \in 1 .. Len(s) : s[l] # x
    BY <1>0 DEF Elements
  <2>2. \A l, m \in 1 .. Len(s) : s[l] = s[m] => l = m
    BY <1>0 DEF Distinct
  <2>3. \A l \in DOMAIN t :
           \/ l = k + 1 /\ t[l] = x
           \/ \E m \in 1 .. Len(s) : t[l] = s[m] /\ ((l = m /\ l <= k) \/ (l = m + 1 /\ l > k + 1))
    <3> TAKE l \in DOMAIN t
    <3>1. l \in 1 .. Len(s) + 1
      BY <1>17
    <3>2. CASE l <= k
      <4>1. l \in 1 .. Len(s) /\ t[l] = s[l]
        BY <1>1, <1>14, <3>1, <3>2
      <4>2. PICK m \in 1 .. Len(s) : m = l
        BY <4>1
      <4>3. t[l] = s[m] /\ l = m
        BY <4>1, <4>2
      <4>4. l = m /\ l <= k
        BY <3>2, <4>3, Zenon
      <4>5. (l = m /\ l <= k) \/ (l = m + 1 /\ l > k + 1)
        BY <4>4, Zenon
      <4> QED
        BY <4>3, <4>5, Zenon
    <3>3. CASE l = k + 1
      <4>0. ~ (l <= k)
        BY <1>1, <3>3
      <4>1. t[l] = x
        BY <1>14, <3>1, <3>3, <4>0, Zenon
      <4> QED
        BY <3>3, <4>1, Zenon
    <3>4. CASE l > k + 1
      <4>0. l - 1 \in 1 .. Len(s) /\ ~ (l <= k) /\ l # k + 1 /\ l = (l - 1) + 1
        BY <1>1, <3>1, <3>4
      <4>1. l - 1 \in 1 .. Len(s) /\ t[l] = s[l - 1] /\ l = (l - 1) + 1
        BY <1>14, <3>1, <4>0
      <4>2. PICK m \in 1 .. Len(s) : m = l - 1
        BY <4>1
      <4>3. t[l] = s[m] /\ l = m + 1
        BY <4>1, <4>2
      <4>4. (l = m /\ l <= k) \/ (l = m + 1 /\ l > k + 1)
        BY <3>4, <4>3, Zenon
      <4> QED
        BY <4>3, <4>4, Zenon
    <3> QED
      BY <1>1, <3>1, <3>2, <3>3, <3>4
  <2>4. CASE t[i] = x
    <3>1. \A l \in DOMAIN t : t[l] = x => l = k + 1
      BY <2>1, <2>3
    <3> QED
      BY <2>4, <3>1
  <2>5. CASE t[i] # x
    <3>1. PICK m \in 1 .. Len(s) : t[i] = s[m] /\ ((i = m /\ i <= k) \/ (i = m + 1 /\ i > k + 1))
      BY <2>3, <2>5
    <3>2. PICK l \in 1 .. Len(s) : t[j] = s[l] /\ ((j = l /\ j <= k) \/ (j = l + 1 /\ j > k + 1))
      BY <2>3, <2>5
    <3>3. m = l
      BY <2>2, <3>1, <3>2
    <3> QED
      BY <1>1, <3>1, <3>2, <3>3
  <2> QED
    BY <2>4, <2>5
<1> QED
  BY <1>12, <1>13, <1>15, <1>16, Zenon

\* The first items of a sequence, page by page.
LEMMA Prefixes ==
    ASSUME NEW X, NEW s \in Seq(X), NEW a \in Nat, NEW b \in Nat, a <= b, b <= Len(s)
    PROVE  /\ SubSeq(s, 1, a) \in Seq(X) /\ Len(SubSeq(s, 1, a)) = a
           /\ SubSeq(s, a + 1, b) \in Seq(X) /\ Len(SubSeq(s, a + 1, b)) = b - a
           /\ SubSeq(s, 1, a) \o SubSeq(s, a + 1, b) = SubSeq(s, 1, b)
           /\ Elements(SubSeq(s, 1, b)) \subseteq Elements(s)
           /\ Elements(SubSeq(s, a + 1, b)) \subseteq Elements(s)
           /\ Distinct(s) => Distinct(SubSeq(s, 1, b))
<1>1. Len(s) \in Nat /\ DOMAIN s = 1 .. Len(s)
  OBVIOUS
<1>2. /\ SubSeq(s, 1, a) \in Seq(X) /\ Len(SubSeq(s, 1, a)) = a
      /\ SubSeq(s, a + 1, b) \in Seq(X) /\ Len(SubSeq(s, a + 1, b)) = b - a
      /\ SubSeq(s, 1, b) \in Seq(X) /\ Len(SubSeq(s, 1, b)) = b
  BY <1>1
<1>3. /\ \A i \in 1 .. b : SubSeq(s, 1, b)[i] = s[i]
      /\ \A i \in 1 .. a : SubSeq(s, 1, a)[i] = s[i]
      /\ \A i \in 1 .. b - a : SubSeq(s, a + 1, b)[i] = s[a + i]
  BY <1>1, SMTT(30)
<1>4. SubSeq(s, 1, a) \o SubSeq(s, a + 1, b) = SubSeq(s, 1, b)
  BY <1>1, ConcatAdjacentSubSeq
<1>5. DOMAIN SubSeq(s, 1, b) = 1 .. b /\ DOMAIN SubSeq(s, a + 1, b) = 1 .. b - a
  BY <1>2
<1>6. Elements(SubSeq(s, 1, b)) \subseteq Elements(s) /\ Elements(SubSeq(s, a + 1, b)) \subseteq Elements(s)
  BY <1>1, <1>3, <1>5 DEF Elements
<1>7. Distinct(s) => Distinct(SubSeq(s, 1, b))
  BY <1>1, <1>3, <1>5 DEF Distinct
<1> QED
  BY <1>2, <1>4, <1>6, <1>7

\* A sequence without repetitions is as long as its set of items.
LEMMA DistinctCounted ==
    ASSUME NEW n \in Nat, NEW s \in Seq(1 .. n), Distinct(s)
    PROVE  Cardinality(Elements(s)) = Len(s) /\ Len(s) <= n
<1>0. DOMAIN s = 1 .. Len(s) /\ Len(s) \in Nat
  OBVIOUS
<1>6. \A m \in Nat : IsFiniteSet(1 .. m) /\ Cardinality(1 .. m) = m
  BY FS_Interval
<1>1. /\ IsFiniteSet(1 .. n) /\ Cardinality(1 .. n) = n
      /\ IsFiniteSet(1 .. Len(s)) /\ Cardinality(1 .. Len(s)) = Len(s)
  BY <1>0, <1>6, Zenon
<1>2. s \in Surjection(1 .. Len(s), Elements(s)) /\ s \in Injection(1 .. Len(s), Elements(s))
  <2>1. s \in [1 .. Len(s) -> Elements(s)]
    BY <1>0 DEF Elements
  <2> QED
    BY <1>0, <2>1 DEF Surjection, Injection, IsInjective, Elements, Distinct
<1>3. IsFiniteSet(Elements(s)) /\ Cardinality(Elements(s)) = Len(s)
  BY <1>1, <1>2, FS_Surjection
<1>4. Elements(s) \in SUBSET (1 .. n)
  BY ElementsTyped
<1>5. Cardinality(Elements(s)) <= Cardinality(1 .. n)
  BY <1>1, <1>4, FS_Subset
<1> QED
  BY <1>0, <1>1, <1>3, <1>5

-----------------------------------------------------------------------------
(* The steps of the store, with what is under way as whole records *)

Fetches ==
    [at : {"idle", "asked", "served"}, page : 1 .. PageCap + 1, mapped : Seq(Bubbles),
     total : Nat, items : Seq(Bubbles), count : Nat]
Works ==
    {r \in [at : {"idle", "next", "putting", "asked", "served"}, trade : About,
            id : Bubbles \cup {NoBubble}, rest : Seq(Trades),
            known : SUBSET (About \cup {Unborn})] :
        r.at = "served" => r.id \in Bubbles}

\* Every variable has values of its kind.
StoreTypes ==
    /\ server \in Seq(Bubbles) /\ list \in Seq(Bubbles) /\ total \in Nat
    /\ about \in [Bubbles -> About \cup {Unborn}]
    /\ trades \in Seq(Trades)
    /\ file \in [bubbles : Seq(Bubbles), trades : Seq(Trades), made : BOOLEAN]
    /\ fetch \in [Fetchers -> Fetches] /\ work \in [Writers -> Works]
    /\ imports \in 0 .. MaxImports /\ faults \in 0 .. MaxFaults
    /\ calm \subseteq Fetchers /\ mixed \in BOOLEAN /\ excused \in BOOLEAN

\* How many bubbles come before the page a load is at.
Before(f) == (fetch[f].page - 1) * PageLimit

LEMMA PagesBefore ==
    ASSUME StoreAssumptions, NEW f \in Fetchers, fetch \in [Fetchers -> Fetches]
    PROVE  Before(f) \in Nat /\ Before(f) + PageLimit = fetch[f].page * PageLimit
<1>1. PICK p \in Nat : p = fetch[f].page /\ p >= 1
  BY DEF Fetches, StoreAssumptions, PagesAssumption
<1>2. PICK l \in Nat : l = PageLimit
  BY DEF StoreAssumptions, PagesAssumption
<1>3. PICK q \in Nat : p = q + 1
  <2>1. p - 1 \in Nat /\ p = (p - 1) + 1
    BY <1>1
  <2> QED
    BY <2>1
<1>4. (q + 1) * l = q * l + l /\ q * l \in Nat
  OBVIOUS
<1>5. p - 1 = q
  BY <1>3
<1>6. Before(f) = q * l
  BY <1>1, <1>2, <1>5, Zenon DEF Before
<1>7. fetch[f].page * PageLimit = (q + 1) * l
  BY <1>1, <1>2, <1>3, Zenon
<1> QED
  BY <1>2, <1>4, <1>6, <1>7

\* A page is served.
LEMMA Serving ==
    ASSUME StoreAssumptions, StoreTypes, NEW f \in Fetchers, ServePage(f)
    PROVE  \E r \in Fetches :
              /\ fetch' = [fetch EXCEPT ![f] = r]
              /\ r.at = "served" /\ r.page = fetch[f].page
              /\ r.mapped = fetch[f].mapped /\ r.total = fetch[f].total
              /\ r.count = Len(server)
              /\ r.items = SubSeq(server, Before(f) + 1, Smaller(Before(f) + PageLimit, Len(server)))
<1>1. fetch[f] \in Fetches /\ server \in Seq(Bubbles) /\ Len(server) \in Nat
  BY DEF StoreTypes
<1>2. PageLimit \in Nat /\ Before(f) \in Nat
  BY PagesBefore DEF StoreAssumptions, PagesAssumption, StoreTypes
<1>3. Smaller(Before(f) + PageLimit, Len(server)) \in Nat
      /\ Smaller(Before(f) + PageLimit, Len(server)) <= Len(server)
  BY <1>1, <1>2 DEF Smaller
<1>4. SubSeq(server, Before(f) + 1, Smaller(Before(f) + PageLimit, Len(server))) \in Seq(Bubbles)
  <2>1. \A l \in Nat : l <= Len(server) => SubSeq(server, Before(f) + 1, l) \in Seq(Bubbles)
    BY <1>1, <1>2, SubSeqProperties
  <2> QED
    BY <1>3, <2>1
<1>5. PICK i \in Seq(Bubbles) :
         i = SubSeq(server, Before(f) + 1, Smaller(Before(f) + PageLimit, Len(server)))
  BY <1>4
<1>6. PICK n \in Nat : n = Len(server)
  BY <1>1
<1>7. (fetch[f].page - 1) * PageLimit + 1 + PageLimit - 1 = Before(f) + PageLimit
  BY <1>2 DEF Before
<1>8. fetch' = [fetch EXCEPT ![f].at = "served", ![f].count = n, ![f].items = i]
  BY <1>5, <1>6, <1>7, Zenon DEF ServePage, Before
<1> DEFINE r == [fetch[f] EXCEPT !.at = "served", !.count = n, !.items = i]
<1>9. r \in Fetches
  BY <1>1 DEF Fetches
<1>10. fetch' = [fetch EXCEPT ![f] = r]
  BY <1>8 DEF StoreTypes
<1>11. /\ r.at = "served" /\ r.page = fetch[f].page /\ r.mapped = fetch[f].mapped
       /\ r.total = fetch[f].total /\ r.count = n /\ r.items = i
  BY <1>1 DEF Fetches
<1> QED
  BY <1>5, <1>6, <1>9, <1>10, <1>11, Zenon

\* What a load has when a page came: the items of this page too, and the count, if any.
Gathered(f) == fetch[f].mapped \o fetch[f].items
Counted(f) == IF fetch[f].count > 0 THEN fetch[f].count ELSE fetch[f].total

\* A page came, and the load ends.
Ended(f) ==
    /\ fetch' = [fetch EXCEPT ![f] = NoFetch]
    /\ list' = Gathered(f)
    /\ total' = Larger(Counted(f), Len(Gathered(f)))
    /\ \/ Counted(f) > 0 /\ Len(Gathered(f)) >= Counted(f)
       \/ fetch[f].items = <<>>
       \/ Counted(f) > 0 /\ fetch[f].page * PageLimit >= Counted(f)
       \/ fetch[f].page > PageCap

\* A page came, and the next one is asked for.
GoesOn(f) ==
    /\ UNCHANGED <<list, total>>
    /\ fetch[f].items # <<>> /\ fetch[f].page <= PageCap
    /\ Counted(f) > 0 => fetch[f].page * PageLimit < Counted(f)
    /\ \E r \in Fetches :
          /\ fetch' = [fetch EXCEPT ![f] = r]
          /\ r.at = "asked" /\ r.page = fetch[f].page + 1
          /\ r.mapped = Gathered(f) /\ r.total = Counted(f)
          /\ r.items = <<>> /\ r.count = 0

LEMMA Receiving ==
    ASSUME StoreAssumptions, StoreTypes, NEW f \in Fetchers, ReceivePage(f)
    PROVE  /\ Gathered(f) \in Seq(Bubbles) /\ Counted(f) \in Nat
           /\ Len(Gathered(f)) = Len(fetch[f].mapped) + Len(fetch[f].items)
           /\ Elements(Gathered(f)) = Elements(fetch[f].mapped) \cup Elements(fetch[f].items)
           /\ Ended(f) \/ GoesOn(f)
<1>1. fetch[f] \in Fetches
  BY DEF StoreTypes
<1>2. /\ Gathered(f) \in Seq(Bubbles)
      /\ Len(Gathered(f)) = Len(fetch[f].mapped) + Len(fetch[f].items)
      /\ Elements(Gathered(f)) = Elements(fetch[f].mapped) \cup Elements(fetch[f].items)
  <2>1. fetch[f].mapped \in Seq(Bubbles) /\ fetch[f].items \in Seq(Bubbles)
    BY <1>1 DEF Fetches
  <2> QED
    BY <2>1, ElementsOfConcat DEF Gathered
<1>3. Counted(f) \in Nat
  BY <1>1 DEF Counted, Fetches
<1>4. PICK m \in Seq(Bubbles) : m = Gathered(f)
  BY <1>2
<1>5. PICK c \in Nat : c = Counted(f)
  BY <1>3
<1> DEFINE r == [fetch[f] EXCEPT !.mapped = m, !.total = c]
<1>6. /\ r \in Fetches
      /\ r.at = fetch[f].at /\ r.page = fetch[f].page /\ r.items = fetch[f].items
      /\ r.mapped = m /\ r.total = c
  BY <1>1 DEF Fetches
<1>7. IF LastPage(r)
      THEN /\ list' = r.mapped
           /\ total' = Larger(r.total, Len(r.mapped))
           /\ fetch' = [fetch EXCEPT ![f] = NoFetch]
      ELSE /\ fetch' = [fetch EXCEPT ![f] = [r EXCEPT !.at = "asked", !.page = @ + 1,
                                              !.items = <<>>, !.count = 0]]
           /\ UNCHANGED <<list, total>>
  <2>1. r = [fetch[f] EXCEPT !.mapped = fetch[f].mapped \o fetch[f].items,
                             !.total = IF fetch[f].count > 0 THEN fetch[f].count ELSE fetch[f].total]
    BY <1>4, <1>5, Zenon DEF Gathered, Counted
  <2> QED
    BY <2>1, Zenon DEF ReceivePage
<1> HIDE DEF r
<1>8. CASE LastPage(r)
  <2>1. /\ list' = m /\ total' = Larger(c, Len(m))
        /\ fetch' = [fetch EXCEPT ![f] = NoFetch]
    BY <1>6, <1>7, <1>8, Zenon
  <2>2. \/ c > 0 /\ Len(m) >= c
        \/ fetch[f].items = <<>>
        \/ c > 0 /\ fetch[f].page * PageLimit >= c
        \/ fetch[f].page > PageCap
    BY <1>6, <1>8, Zenon DEF LastPage
  <2> QED
    BY <1>2, <1>3, <1>4, <1>5, <2>1, <2>2, Zenon DEF Ended
<1>9. CASE ~ LastPage(r)
  <2>1. /\ fetch' = [fetch EXCEPT ![f] = [r EXCEPT !.at = "asked", !.page = @ + 1,
                                          !.items = <<>>, !.count = 0]]
        /\ UNCHANGED <<list, total>>
    BY <1>7, <1>9, Zenon
  <2>2. /\ fetch[f].items # <<>> /\ ~ (fetch[f].page > PageCap)
        /\ c > 0 => ~ (fetch[f].page * PageLimit >= c)
    BY <1>6, <1>9, Zenon DEF LastPage
  <2>3. fetch[f].page \in Nat /\ PageCap \in Nat /\ PageLimit \in Nat /\ fetch[f].page \in 1 .. PageCap + 1
    BY <1>1 DEF Fetches, StoreAssumptions, PagesAssumption
  <2>4. fetch[f].page * PageLimit \in Nat
    BY <2>3
  <2>5. /\ fetch[f].page <= PageCap
        /\ c > 0 => fetch[f].page * PageLimit < c
    BY <2>2, <2>3, <2>4
  <2> DEFINE s == [r EXCEPT !.at = "asked", !.page = @ + 1, !.items = <<>>, !.count = 0]
  <2>6. fetch[f].page + 1 \in 1 .. PageCap + 1
    BY <2>3, <2>5
  <2>7. s \in Fetches
    <3>1. <<>> \in Seq(Bubbles) /\ 0 \in Nat /\ r.page + 1 \in 1 .. PageCap + 1
      BY <1>6, <2>6
    <3> QED
      BY <1>6, <3>1 DEF Fetches
  <2>8. /\ s.at = "asked" /\ s.page = fetch[f].page + 1 /\ s.mapped = m /\ s.total = c
        /\ s.items = <<>> /\ s.count = 0
    BY <1>6 DEF Fetches
  <2>9. fetch' = [fetch EXCEPT ![f] = s]
    BY <2>1, Zenon
  <2> HIDE DEF s
  <2> QED
    BY <1>2, <1>3, <1>4, <1>5, <2>1, <2>2, <2>5, <2>7, <2>8, <2>9, Zenon DEF GoesOn
<1> QED
  BY <1>2, <1>3, <1>8, <1>9, Zenon

LEMMA IdleLoad ==
    ASSUME StoreAssumptions
    PROVE  /\ NoFetch \in Fetches /\ NoFetch.at = "idle" /\ NoFetch.page = 1
           /\ NoFetch.mapped = <<>> /\ NoFetch.items = <<>> /\ NoFetch.total = 0 /\ NoFetch.count = 0
<1>1. 1 \in 1 .. PageCap + 1 /\ <<>> \in Seq(Bubbles)
  BY DEF StoreAssumptions, PagesAssumption
<1> QED
  BY <1>1 DEF NoFetch, Fetches

\* A load starts.
LEMMA Starting ==
    ASSUME StoreAssumptions, NEW f \in Fetchers, StartFetch(f)
    PROVE  \E r \in Fetches :
              /\ fetch' = [fetch EXCEPT ![f] = r]
              /\ r.at = "asked" /\ r.page = 1 /\ r.mapped = <<>> /\ r.total = 0
              /\ r.items = <<>> /\ r.count = 0
<1> DEFINE r == [NoFetch EXCEPT !.at = "asked"]
<1>1. r \in Fetches
  BY IdleLoad DEF Fetches
<1>2. /\ r.at = "asked" /\ r.page = 1 /\ r.mapped = <<>> /\ r.total = 0
      /\ r.items = <<>> /\ r.count = 0
  BY DEF NoFetch
<1>3. fetch' = [fetch EXCEPT ![f] = r]
  BY DEF StartFetch
<1> QED
  BY <1>1, <1>2, <1>3, Zenon

LEMMA IdleWork ==
    /\ NoWork \in Works /\ NoWork.at = "idle" /\ NoWork.trade = Manual /\ NoWork.id = NoBubble
    /\ NoWork.rest = <<>> /\ NoWork.known = {}
<1>1. Manual \in About /\ <<>> \in Seq(Trades)
  BY DEF About
<1> QED
  BY <1>1 DEF NoWork, Works

\* A bubble is asked for in the form.
LEMMA Composing ==
    ASSUME NEW w \in Writers, Compose(w)
    PROVE  \E r \in Works :
              /\ work' = [work EXCEPT ![w] = r]
              /\ r.at = "asked" /\ r.trade = Manual /\ r.rest = <<>> /\ r.known = {}
<1> DEFINE r == [NoWork EXCEPT !.at = "asked"]
<1>1. r \in Works
  BY IdleWork DEF Works
<1>2. r.at = "asked" /\ r.trade = Manual /\ r.rest = <<>> /\ r.known = {}
  BY DEF NoWork
<1>3. work' = [work EXCEPT ![w] = r]
  BY DEF Compose
<1> QED
  BY <1>1, <1>2, <1>3, Zenon

\* A file is imported.
LEMMA Importing ==
    ASSUME StoreAssumptions, StoreTypes, NEW w \in Writers, NEW csv \in Files, ImportTrades(w, csv)
    PROVE  \E r \in Works :
              /\ work' = [work EXCEPT ![w] = r]
              /\ r.at = "next" /\ r.trade = Manual /\ r.rest = csv /\ r.known = TradesOf(list)
<1>1. PICK k : k = TradesOf(list)
  OBVIOUS
<1>2. k \in SUBSET (About \cup {Unborn})
  <2>1. Elements(list) \subseteq Bubbles
    BY ElementsTyped DEF StoreTypes
  <2> QED
    BY <1>1, <2>1 DEF TradesOf, StoreTypes
<1>3. csv \in Seq(Trades)
  BY DEF StoreAssumptions, TradesAssumption
<1> DEFINE r == [NoWork EXCEPT !.at = "next", !.rest = csv, !.known = k]
<1>4. r \in Works
  BY <1>2, <1>3, IdleWork DEF Works
<1>5. r.at = "next" /\ r.trade = Manual /\ r.rest = csv /\ r.known = k
  BY DEF NoWork
<1>6. work' = [work EXCEPT ![w] = r]
  BY <1>1, Zenon DEF ImportTrades
<1> QED
  BY <1>1, <1>4, <1>5, <1>6, Zenon

\* The trade at the head of the file, and the others.
LEMMA Taken ==
    ASSUME NEW X, NEW s \in Seq(X), s # <<>>
    PROVE  /\ Head(s) \in X /\ Tail(s) \in Seq(X)
           /\ Elements(s) = {Head(s)} \cup Elements(Tail(s))
           /\ Distinct(s) => Distinct(Tail(s)) /\ Head(s) \notin Elements(Tail(s))
<1>1. /\ Head(s) = s[1] /\ Tail(s) \in Seq(X) /\ Len(s) \in Nat /\ Len(s) >= 1
      /\ Len(Tail(s)) = Len(s) - 1
      /\ \A i \in 1 .. Len(s) - 1 : Tail(s)[i] = s[i + 1]
  BY HeadTailProperties
<1>2. DOMAIN s = 1 .. Len(s) /\ DOMAIN Tail(s) = 1 .. Len(s) - 1
  BY <1>1
<1>3. Head(s) \in X
  BY <1>1
<1>4. \A i \in DOMAIN Tail(s) : i + 1 \in DOMAIN s /\ Tail(s)[i] = s[i + 1] /\ i + 1 # 1
  BY <1>1, <1>2
<1>5. \A i \in DOMAIN s : i = 1 \/ \E j \in DOMAIN Tail(s) : i = j + 1
  <2> TAKE i \in DOMAIN s
  <2>1. i # 1 => i - 1 \in 1 .. Len(s) - 1 /\ i = (i - 1) + 1
    BY <1>1, <1>2
  <2> QED
    BY <1>2, <2>1
<1>6. 1 \in DOMAIN s
  BY <1>1, <1>2
<1>7. Elements(s) = {Head(s)} \cup Elements(Tail(s))
  BY <1>1, <1>4, <1>5, <1>6 DEF Elements
<1>8. ASSUME Distinct(s) PROVE Distinct(Tail(s)) /\ Head(s) \notin Elements(Tail(s))
  <2>1. Head(s) \notin Elements(Tail(s))
    BY <1>1, <1>4, <1>6, <1>8 DEF Elements, Distinct
  <2>2. ASSUME NEW i \in DOMAIN Tail(s), NEW j \in DOMAIN Tail(s), Tail(s)[i] = Tail(s)[j]
        PROVE  i = j
    <3>1. i + 1 = j + 1
      BY <1>4, <1>8, <2>2 DEF Distinct
    <3> QED
      BY <1>2, <3>1
  <2> QED
    BY <2>1, <2>2 DEF Distinct
<1> QED
  BY <1>1, <1>3, <1>7, <1>8

\* The import takes the next trade of its file.
LEMMA Taking ==
    ASSUME StoreTypes, NEW w \in Writers, NextTrade(w)
    PROVE  \E r \in Works :
              /\ work' = [work EXCEPT ![w] = r]
              /\ \/ r.at = "idle" /\ r.known = {}
                 \/ /\ r.at \in {"next", "putting"} /\ work[w].rest # <<>>
                    /\ r.trade = work[w].trade /\ r.rest = Tail(work[w].rest)
                    /\ r.known = work[w].known
                 \/ /\ r.at = "asked" /\ work[w].rest # <<>>
                    /\ Head(work[w].rest) \notin work[w].known
                    /\ r.trade = Head(work[w].rest) /\ r.rest = Tail(work[w].rest)
                    /\ r.known = work[w].known
<1>1. work[w] \in Works
  BY DEF StoreTypes
<1>2. CASE work[w].rest = <<>>
  <2>1. work' = [work EXCEPT ![w] = NoWork]
    BY <1>2, Zenon DEF NextTrade
  <2> QED
    BY <2>1, IdleWork, Zenon
<1>3. CASE work[w].rest # <<>>
  <2>1. Head(work[w].rest) \in Trades /\ Tail(work[w].rest) \in Seq(Trades)
    <3>1. work[w].rest \in Seq(Trades)
      BY <1>1 DEF Works
    <3> QED
      BY <1>3, <3>1, Taken
  <2> PICK h \in Trades : h = Head(work[w].rest)
    BY <2>1
  <2> PICK u \in Seq(Trades) : u = Tail(work[w].rest)
    BY <2>1
  <2> DEFINE after == [work[w] EXCEPT !.rest = u]
             patch == [after EXCEPT !.at = "putting"]
             ask == [after EXCEPT !.at = "asked", !.trade = h]
  <2>2. \/ /\ h \in work[w].known
           /\ work' = [work EXCEPT ![w] = patch] \/ work' = [work EXCEPT ![w] = after]
        \/ h \notin work[w].known /\ work' = [work EXCEPT ![w] = ask]
    BY <1>3, Zenon DEF NextTrade, Known
  <2>3. /\ after \in Works /\ after.at = "next" /\ after.rest = u
        /\ after.trade = work[w].trade /\ after.known = work[w].known
    BY <1>1 DEF Works, NextTrade
  <2>4. /\ patch \in Works /\ patch.at = "putting" /\ patch.rest = u
        /\ patch.trade = work[w].trade /\ patch.known = work[w].known
    BY <1>1 DEF Works
  <2>5. /\ ask \in Works /\ ask.at = "asked" /\ ask.rest = u
        /\ ask.trade = h /\ ask.known = work[w].known
    <3>1. h \in About
      BY DEF About
    <3> QED
      BY <1>1, <3>1 DEF Works
  <2> HIDE DEF after, patch, ask
  <2> QED
    BY <1>3, <2>2, <2>3, <2>4, <2>5, Zenon
<1> QED
  BY <1>2, <1>3, Zenon

\* A patch is answered.
LEMMA Patching ==
    ASSUME StoreTypes, NEW w \in Writers, Patched(w)
    PROVE  \E r \in Works :
              /\ work' = [work EXCEPT ![w] = r]
              /\ r.at = "next" /\ r.trade = work[w].trade /\ r.rest = work[w].rest
              /\ r.known = work[w].known
<1> DEFINE r == [work[w] EXCEPT !.at = "next"]
<1>1. work[w] \in Works
  BY DEF StoreTypes
<1>2. /\ r \in Works
      /\ r.at = "next" /\ r.trade = work[w].trade /\ r.rest = work[w].rest
      /\ r.known = work[w].known
  BY <1>1 DEF Works
<1>3. work' = [work EXCEPT ![w] = r]
  BY DEF Patched
<1> QED
  BY <1>2, <1>3, Zenon

\* The answer to a creation: the bubble joins the list.
LEMMA Answering ==
    ASSUME StoreTypes, NEW w \in Writers, CreateAnswered(w)
    PROVE  \E r \in Works :
              /\ work' = [work EXCEPT ![w] = r]
              /\ r.at = "next" /\ r.trade = Manual /\ r.rest = work[w].rest
              /\ r.known = work[w].known
<1> DEFINE r == [work[w] EXCEPT !.at = "next", !.id = NoBubble, !.trade = Manual]
<1>1. work[w] \in Works /\ Manual \in About
  BY DEF StoreTypes, About
<1>2. /\ r \in Works
      /\ r.at = "next" /\ r.trade = Manual /\ r.rest = work[w].rest
      /\ r.known = work[w].known
  BY <1>1 DEF Works
<1>3. work' = [work EXCEPT ![w] = r]
  BY DEF CreateAnswered
<1> QED
  BY <1>2, <1>3, Zenon

\* A bubble is born at the server.
BornAt(b, t) ==
    /\ about[b] = Unborn /\ about' = [about EXCEPT ![b] = t]
    /\ server' \in Seq(Bubbles) /\ Len(server') = Len(server) + 1
    /\ Elements(server') = Elements(server) \cup {b}
    /\ Distinct(server) /\ b \notin Elements(server) => Distinct(server')
    /\ calm' = {}
    /\ mixed' = (mixed \/ \E f \in Fetchers : BetweenPages(f))

LEMMA Birth ==
    ASSUME StoreTypes, NEW t \in About, Born(t)
    PROVE  \E b \in Bubbles : BornAt(b, t)
<1>1. PICK b \in Unused, k \in 0 .. Len(server) :
         /\ Insert(b, k)
         /\ about' = [about EXCEPT ![b] = t]
         /\ calm' = {}
         /\ mixed' = (mixed \/ \E f \in Fetchers : BetweenPages(f))
  BY Zenon DEF Born
<1>2. b \in Bubbles /\ about[b] = Unborn
  BY DEF Unused
<1>3. server \in Seq(Bubbles)
  BY DEF StoreTypes
<1>4. PICK s \in Seq(Bubbles) :
         /\ s = SubSeq(server, 1, k) \o <<b>> \o SubSeq(server, k + 1, Len(server))
         /\ Len(s) = Len(server) + 1 /\ Elements(s) = Elements(server) \cup {b}
         /\ Distinct(server) /\ b \notin Elements(server) => Distinct(s)
  <2> HIDE <1>1
  <2>1. \A S : server \in Seq(S) /\ b \in S /\ k \in 0 .. Len(server) =>
           \E s \in Seq(S) :
              /\ s = SubSeq(server, 1, k) \o <<b>> \o SubSeq(server, k + 1, Len(server))
              /\ Len(s) = Len(server) + 1 /\ Elements(s) = Elements(server) \cup {b}
              /\ Distinct(server) /\ b \notin Elements(server) => Distinct(s)
    BY Inserted, ZenonT(40)
  <2> QED
    BY <1>2, <1>3, <2>1, Zenon
<1>5. server' = s
  BY <1>1, <1>4, Zenon DEF Insert
<1> QED
  BY <1>1, <1>2, <1>4, <1>5, Zenon DEF BornAt

\* A creation is served: the new bubble is the one the answer will bring.
LEMMA Creating ==
    ASSUME StoreAssumptions, StoreTypes, NEW w \in Writers, ServeCreate(w)
    PROVE  \E b \in Bubbles, r \in Works :
              /\ BornAt(b, work[w].trade)
              /\ work' = [work EXCEPT ![w] = r]
              /\ r.at = "served" /\ r.id = b /\ r.trade = work[w].trade /\ r.rest = work[w].rest
              /\ r.known = work[w].known
<1>1. work[w] \in Works
  BY DEF StoreTypes
<1>2. PICK t \in About : t = work[w].trade
  BY <1>1 DEF Works
<1>3. PICK b \in Bubbles : BornAt(b, t)
  BY <1>2, Birth DEF ServeCreate
<1>4. (CHOOSE c \in Bubbles : about'[c] # about[c]) = b
  <2>1. about[b] = Unborn /\ about' = [about EXCEPT ![b] = t]
    BY <1>3, Zenon DEF BornAt
  <2>2. t # Unborn
    BY DEF StoreAssumptions, AboutAssumption
  <2>3. \A c \in Bubbles : about'[c] # about[c] <=> c = b
    BY <2>1, <2>2 DEF StoreTypes
  <2> QED
    BY <2>3
<1> DEFINE r == [work[w] EXCEPT !.at = "served", !.id = b]
<1>5. /\ r \in Works
      /\ r.at = "served" /\ r.id = b /\ r.trade = work[w].trade /\ r.rest = work[w].rest
      /\ r.known = work[w].known
  BY <1>1 DEF Works
<1>6. work' = [work EXCEPT ![w] = r]
  <2>1. work' = [work EXCEPT ![w].at = "served",
                             ![w].id = CHOOSE c \in Bubbles : about'[c] # about[c]]
    BY Zenon DEF ServeCreate
  <2>2. work' = [work EXCEPT ![w].at = "served", ![w].id = b]
    BY <1>4, <2>1, Zenon
  <2> QED
    BY <2>2
<1> QED
  BY <1>2, <1>3, <1>5, <1>6, Zenon

-----------------------------------------------------------------------------
(* Types *)

LEMMA TypesInit == ASSUME StoreAssumptions, Init PROVE StoreTypes
<1>1. about \in [Bubbles -> About \cup {Unborn}] /\ server = <<>> /\ list = <<>> /\ total = 0 /\ trades = <<>>
  BY DEF Init
<1>2. file \in [bubbles : Seq(Bubbles), trades : Seq(Trades), made : BOOLEAN]
  BY DEF Init, NoFile
<1>3. fetch \in [Fetchers -> Fetches] /\ work \in [Writers -> Works]
  BY IdleLoad, IdleWork DEF Init
<1>4. imports \in 0 .. MaxImports /\ faults \in 0 .. MaxFaults
  BY DEF Init, StoreAssumptions, StoreBounds
<1>5. server \in Seq(Bubbles) /\ list \in Seq(Bubbles) /\ total \in Nat /\ trades \in Seq(Trades)
  BY <1>1
<1>6. calm \subseteq Fetchers /\ mixed \in BOOLEAN /\ excused \in BOOLEAN
  BY DEF Init
<1> QED
  BY <1>1, <1>2, <1>3, <1>4, <1>5, <1>6, Zenon DEF StoreTypes

LEMMA TypesStep == ASSUME StoreAssumptions, StoreTypes, [Next]_storeVars PROVE StoreTypes'
<1>0. TRUE
  OBVIOUS
<1> USE DEF StoreTypes
<1>1. ASSUME NEW t \in About, ServerGains(t) PROVE StoreTypes'
  <2>1. PICK b \in Bubbles : BornAt(b, t)
    BY <1>1, Birth DEF ServerGains
  <2>2. server' \in Seq(Bubbles) /\ about' \in [Bubbles -> About \cup {Unborn}] /\ calm' \subseteq Fetchers
    BY <2>1 DEF BornAt
  <2>3. mixed' \in BOOLEAN /\ excused' \in BOOLEAN
    BY <1>1, <2>1, Zenon DEF ServerGains, BornAt
  <2> QED
    BY <1>1, <2>2, <2>3 DEF ServerGains
<1>2. ASSUME NEW f \in Fetchers, ServePage(f) PROVE StoreTypes'
  <2>1. fetch' \in [Fetchers -> Fetches]
    BY <1>2, Serving
  <2>2. mixed' \in BOOLEAN
    BY <1>2, Zenon DEF ServePage
  <2> QED
    BY <1>2, <2>1, <2>2 DEF ServePage
<1>3. ASSUME NEW f \in Fetchers, StartFetch(f) PROVE StoreTypes'
  <2>1. fetch' \in [Fetchers -> Fetches]
    BY <1>3, Starting
  <2> QED
    BY <1>3, <2>1 DEF StartFetch
<1>4. ASSUME NEW f \in Fetchers, ReceivePage(f) PROVE StoreTypes'
  <2>1. Gathered(f) \in Seq(Bubbles) /\ Counted(f) \in Nat /\ (Ended(f) \/ GoesOn(f))
    BY <1>4, Receiving
  <2>2. CASE Ended(f)
    <3>1. list' \in Seq(Bubbles) /\ total' \in Nat
      <4>1. Len(Gathered(f)) \in Nat
        BY <2>1
      <4> QED
        BY <2>1, <2>2, <4>1 DEF Ended, Larger
    <3>2. fetch' \in [Fetchers -> Fetches]
      BY <2>2, IdleLoad DEF Ended
    <3> QED
      BY <1>4, <3>1, <3>2 DEF ReceivePage
  <2>3. CASE GoesOn(f)
    <3>1. fetch' \in [Fetchers -> Fetches]
      BY <2>3 DEF GoesOn
    <3> QED
      BY <1>4, <2>3, <3>1 DEF ReceivePage, GoesOn
  <2> QED
    BY <2>1, <2>2, <2>3
<1>5. ASSUME NEW f \in Fetchers, FetchFails(f) PROVE StoreTypes'
  BY <1>5, IdleLoad DEF FetchFails, StoreAssumptions, StoreBounds
<1>6. ASSUME NEW w \in Writers, Compose(w) PROVE StoreTypes'
  <2>1. work' \in [Writers -> Works]
    BY <1>6, Composing
  <2> QED
    BY <1>6, <2>1 DEF Compose
<1>7. ASSUME NEW w \in Writers, NextTrade(w) PROVE StoreTypes'
  <2>1. work' \in [Writers -> Works]
    BY <1>7, Taking
  <2> QED
    BY <1>7, <2>1 DEF NextTrade
<1>8. ASSUME NEW w \in Writers, Patched(w) PROVE StoreTypes'
  <2>1. work' \in [Writers -> Works]
    BY <1>8, Patching
  <2> QED
    BY <1>8, <2>1 DEF Patched
<1>9. ASSUME NEW w \in Writers, ServeCreate(w) PROVE StoreTypes'
  <2>1. PICK b \in Bubbles, r \in Works : BornAt(b, work[w].trade) /\ work' = [work EXCEPT ![w] = r]
    BY <1>9, Creating
  <2>2. work[w].trade \in About
    BY DEF Works
  <2>3. server' \in Seq(Bubbles) /\ about' \in [Bubbles -> About \cup {Unborn}] /\ calm' \subseteq Fetchers
    BY <2>1, <2>2 DEF BornAt
  <2>4. mixed' \in BOOLEAN
    BY <1>9, <2>1, Zenon DEF BornAt
  <2>5. UNCHANGED <<list, total, trades, file, fetch, imports, faults, excused>>
    BY <1>9, Zenon DEF ServeCreate
  <2>6. work' \in [Writers -> Works]
    BY <2>1
  <2> QED
    BY <2>3, <2>4, <2>5, <2>6
<1>10. ASSUME NEW w \in Writers, CreateAnswered(w) PROVE StoreTypes'
  <2>1. work' \in [Writers -> Works]
    BY <1>10, Answering
  <2>2. list' \in Seq(Bubbles) /\ total' \in Nat
    <3>1. Len(list) \in Nat /\ work[w].id \in Bubbles
      BY <1>10 DEF CreateAnswered, Works
    <3> QED
      BY <1>10, <3>1 DEF CreateAnswered, Larger
  <2> QED
    BY <1>10, <2>1, <2>2 DEF CreateAnswered
<1>11. ASSUME NEW w \in Writers, CreateFails(w) PROVE StoreTypes'
  BY <1>11, IdleWork DEF CreateFails, StoreAssumptions, StoreBounds
<1>12. ASSUME NEW w \in Writers, NEW csv \in Files, ImportTrades(w, csv) PROVE StoreTypes'
  <2>1. work' \in [Writers -> Works]
    <3>1. PICK r \in Works : work' = [work EXCEPT ![w] = r]
      BY <1>12, Importing, SMTT(60)
    <3> QED
      BY <3>1
  <2>2. trades' \in Seq(Trades)
    BY <1>12 DEF ImportTrades, StoreAssumptions, TradesAssumption
  <2>3. imports' \in 0 .. MaxImports
    BY <1>12 DEF ImportTrades, StoreAssumptions, StoreBounds
  <2>4. excused' \in BOOLEAN
    BY <1>12, Zenon DEF ImportTrades
  <2> QED
    BY <1>12, <2>1, <2>2, <2>3, <2>4 DEF ImportTrades
<1>13. ASSUME AddBubble PROVE StoreTypes'
  <2>1. PICK b \in Bubbles :
           /\ about' = [about EXCEPT ![b] = Manual]
           /\ list' = Append(list, b)
           /\ total' = IF total > 0 THEN total + 1 ELSE Len(list) + 1
    BY <1>13 DEF AddBubble, Unused
  <2>2. about' \in [Bubbles -> About \cup {Unborn}] /\ list' \in Seq(Bubbles)
    BY <2>1 DEF About
  <2>3. total' \in Nat
    <3>1. Len(list) \in Nat
      OBVIOUS
    <3> QED
      BY <2>1, <3>1
  <2> QED
    BY <1>13, <2>2, <2>3 DEF AddBubble
<1>14. ASSUME NEW b \in Bubbles, DeleteBubble(b) PROVE StoreTypes'
  <2>1. list' \in Seq(Bubbles) /\ Len(list') \in Nat
    <3>1. PICK S : S = {i \in DOMAIN list : Other(b, list[i])}
      OBVIOUS
    <3>2. S \in SUBSET DOMAIN list
      BY <3>1
    <3>3. Selected(list, S) \in Seq(Bubbles)
      <4>1. SelectionIs(Bubbles, list, S)
        BY <3>2, SelectedIs, Zenon
      <4> QED
        BY <4>1, Zenon DEF SelectionIs
    <3> QED
      BY <1>14, <3>1, <3>3 DEF DeleteBubble
  <2>2. total' \in Nat
    BY <1>14, <2>1 DEF DeleteBubble
  <2> QED
    BY <1>14, <2>1, <2>2 DEF DeleteBubble
<1>15. ASSUME ClearAll PROVE StoreTypes'
  BY <1>15 DEF ClearAll, ReplaceAll
<1>16. ASSUME ExportBubbles PROVE StoreTypes'
  BY <1>16 DEF ExportBubbles
<1>17. ASSUME ImportBubbles PROVE StoreTypes'
  BY <1>17 DEF ImportBubbles, ReplaceAll
<1>18. ASSUME ResetAndReload PROVE StoreTypes'
  BY <1>18, IdleLoad, IdleWork DEF ResetAndReload
<1>19. ASSUME UNCHANGED storeVars PROVE StoreTypes'
  BY <1>19 DEF storeVars
<1> QED
  BY <1>1, <1>2, <1>3, <1>4, <1>5, <1>6, <1>7, <1>8, <1>9, <1>10, <1>11, <1>12, <1>13, <1>14,
     <1>15, <1>16, <1>17, <1>18, <1>19, Zenon DEF Next

-----------------------------------------------------------------------------
(* What is in the list *)

\* A bubble is deleted from the list, however often it is there.
LEMMA Deleting ==
    ASSUME StoreTypes, NEW b \in Bubbles, DeleteBubble(b)
    PROVE  /\ list' \in Seq(Bubbles) /\ Len(list') \in Nat /\ Len(list') < Len(list)
           /\ Elements(list') \subseteq Elements(list)
           /\ Distinct(list) => Distinct(list')
<1>1. PICK S : S = {i \in DOMAIN list : Other(b, list[i])}
  OBVIOUS
<1>2. S \in SUBSET DOMAIN list /\ list \in Seq(Bubbles)
  BY <1>1 DEF StoreTypes
<1>3. PICK s : s = Selected(list, S)
  OBVIOUS
<1>4. list' = s
  BY <1>1, <1>3, Zenon DEF DeleteBubble
<1>5. /\ IsFiniteSet(S) /\ s \in Seq(Bubbles) /\ Len(s) = Cardinality(S)
      /\ \A k \in 1 .. Cardinality(S) : \E i \in S : s[k] = list[i]
      /\ (\A i, j \in S : list[i] = list[j] => i = j) =>
            \A k, l \in 1 .. Cardinality(S) : s[k] = s[l] => k = l
  <2>1. /\ IsFiniteSet(S)
        /\ Selected(list, S) \in Seq(Bubbles) /\ Len(Selected(list, S)) = Cardinality(S)
        /\ \A k \in 1 .. Cardinality(S) : \E i \in S : Selected(list, S)[k] = list[i]
        /\ (\A i, j \in S : list[i] = list[j] => i = j) =>
              \A k, l \in 1 .. Cardinality(S) : Selected(list, S)[k] = Selected(list, S)[l] => k = l
    <3>1. SelectionIs(Bubbles, list, S)
      BY <1>2, SelectedIs, Zenon
    <3> QED
      BY <3>1, Zenon DEF SelectionIs
  <2> QED
    BY <1>3, <2>1, Zenon
<1>6. DOMAIN s = 1 .. Cardinality(S)
  BY <1>5
<1>7. Elements(s) \subseteq Elements(list)
  BY <1>2, <1>5, <1>6 DEF Elements
<1>8. Distinct(list) => Distinct(s)
  BY <1>2, <1>5, <1>6 DEF Distinct
<1>9. Cardinality(S) < Len(list)
  <2>1. PICK i \in DOMAIN list : list[i] = b
    BY DEF DeleteBubble, Elements
  <2>2. S \in SUBSET (DOMAIN list \ {i})
    BY <1>1, <1>2, <2>1 DEF Other
  <2>3. DOMAIN list = 1 .. Len(list) /\ Len(list) \in Nat
    BY <1>2
  <2>4. IsFiniteSet(DOMAIN list) /\ Cardinality(DOMAIN list) = Len(list)
    <3>1. \A n \in Nat : IsFiniteSet(1 .. n) /\ Cardinality(1 .. n) = n
      BY FS_Interval
    <3> QED
      BY <2>3, <3>1, Zenon
  <2>5. IsFiniteSet(DOMAIN list \ {i}) /\ Cardinality(DOMAIN list \ {i}) = Len(list) - 1
    BY <2>1, <2>4, FS_RemoveElement
  <2>6. Cardinality(S) <= Cardinality(DOMAIN list \ {i})
    BY <2>2, <2>5, FS_Subset
  <2>7. Cardinality(S) \in Nat
    BY <1>5, FS_CardinalityType
  <2>8. Len(list) \in Nat
    BY <1>2
  <2> QED
    BY <2>5, <2>6, <2>7, <2>8
<1>10. Cardinality(S) \in Nat
  BY <1>5, FS_CardinalityType
<1> QED
  BY <1>4, <1>5, <1>7, <1>8, <1>9, <1>10

LEMMA TotalStep ==
    ASSUME StoreAssumptions, StoreTypes, TotalCoversList, [Next]_storeVars
    PROVE  TotalCoversList'
<1>0. Len(list) \in Nat /\ total \in Nat /\ total >= Len(list)
  BY DEF TotalCoversList, StoreTypes
<1>1. ASSUME UNCHANGED <<list, total>> PROVE TotalCoversList'
  BY <1>1, Zenon DEF TotalCoversList
<1>2. ASSUME NEW f \in Fetchers, ReceivePage(f) PROVE TotalCoversList'
  <2>1. Gathered(f) \in Seq(Bubbles) /\ Counted(f) \in Nat /\ (Ended(f) \/ GoesOn(f))
    BY <1>2, Receiving
  <2>2. CASE Ended(f)
    <3>1. Len(Gathered(f)) \in Nat
      BY <2>1
    <3>2. list' = Gathered(f) /\ total' = Larger(Counted(f), Len(Gathered(f)))
      BY <2>2, Zenon DEF Ended
    <3>3. total' >= Len(Gathered(f))
      BY <2>1, <3>1, <3>2 DEF Larger
    <3> QED
      BY <3>2, <3>3, Zenon DEF TotalCoversList
  <2> QED
    BY <1>1, <2>1, <2>2 DEF GoesOn
<1>3. ASSUME NEW w \in Writers, CreateAnswered(w) PROVE TotalCoversList'
  <2>1. list' = Append(list, work[w].id) /\ total' = Larger(total, Len(list) + 1)
    BY <1>3, Zenon DEF CreateAnswered
  <2>2. Len(list') = Len(list) + 1
    BY <1>0, <2>1 DEF StoreTypes
  <2>3. total' >= Len(list) + 1
    BY <1>0, <2>1 DEF Larger
  <2> QED
    BY <2>2, <2>3, Zenon DEF TotalCoversList
<1>4. ASSUME AddBubble PROVE TotalCoversList'
  <2>1. PICK b : list' = Append(list, b) /\ total' = IF total > 0 THEN total + 1 ELSE Len(list) + 1
    BY <1>4, Zenon DEF AddBubble
  <2>2. Len(list') = Len(list) + 1
    BY <2>1 DEF StoreTypes
  <2>3. total' >= Len(list) + 1
    BY <1>0, <2>1
  <2> QED
    BY <2>2, <2>3, Zenon DEF TotalCoversList
<1>5. ASSUME NEW b \in Bubbles, DeleteBubble(b) PROVE TotalCoversList'
  <2>1. Len(list') \in Nat /\ Len(list') < Len(list)
    BY <1>5, Deleting
  <2>2. total' = IF total > 0 THEN total - 1 ELSE Len(list')
    BY <1>5, Zenon DEF DeleteBubble
  <2> QED
    BY <1>0, <2>1, <2>2 DEF TotalCoversList
<1>6. ASSUME NEW s \in Seq(Bubbles), ReplaceAll(s) PROVE TotalCoversList'
  <2>1. Len(s) \in Nat /\ total' = Len(s) /\ list' = s
    BY <1>6 DEF ReplaceAll
  <2> QED
    BY <2>1 DEF TotalCoversList
<1>7. ClearAll => TotalCoversList'
  <2>1. <<>> \in Seq(Bubbles)
    OBVIOUS
  <2> QED
    BY <1>6, <2>1, Zenon DEF ClearAll
<1>8. ImportBubbles => TotalCoversList'
  <2>1. file.bubbles \in Seq(Bubbles)
    BY DEF StoreTypes
  <2> QED
    BY <1>6, <2>1, Zenon DEF ImportBubbles
<1>9. /\ \A t \in About : ServerGains(t) => UNCHANGED <<list, total>>
      /\ \A f \in Fetchers : StartFetch(f) \/ ServePage(f) \/ FetchFails(f) => UNCHANGED <<list, total>>
      /\ \A w \in Writers : Compose(w) \/ NextTrade(w) \/ Patched(w) \/ ServeCreate(w) \/ CreateFails(w)
                               => UNCHANGED <<list, total>>
      /\ \A w \in Writers : \A csv \in Files : ImportTrades(w, csv) => UNCHANGED <<list, total>>
      /\ ExportBubbles \/ ResetAndReload \/ UNCHANGED storeVars => UNCHANGED <<list, total>>
  BY Zenon DEF ServerGains, StartFetch, ServePage, FetchFails, Compose, NextTrade, Patched,
     ServeCreate, CreateFails, ImportTrades, ExportBubbles, ResetAndReload, storeVars
<1> QED
  BY <1>1, <1>2, <1>3, <1>4, <1>5, <1>7, <1>8, <1>9, Zenon DEF Next

-----------------------------------------------------------------------------
(* Bubbles are born once *)

\* A part of a sequence.
LEMMA Slices ==
    ASSUME NEW X, NEW s \in Seq(X), NEW a \in Nat, NEW b \in Nat, NEW n \in Nat, b <= Len(s), b <= a + n
    PROVE  /\ SubSeq(s, a + 1, b) \in Seq(X) /\ Len(SubSeq(s, a + 1, b)) <= n
           /\ Elements(SubSeq(s, a + 1, b)) \subseteq Elements(s)
<1>1. /\ SubSeq(s, a + 1, b) \in Seq(X)
      /\ Len(SubSeq(s, a + 1, b)) = IF a + 1 <= b THEN b - (a + 1) + 1 ELSE 0
      /\ \A i \in 1 .. b - (a + 1) + 1 : SubSeq(s, a + 1, b)[i] = s[a + 1 + i - 1]
  BY SubSeqProperties
<1>2. CASE a + 1 <= b
  <2>1. Len(SubSeq(s, a + 1, b)) = b - a /\ b - a <= n /\ b - a \in Nat
    BY <1>1, <1>2
  <2>2. ASSUME NEW i \in 1 .. b - a
        PROVE  a + i \in 1 .. Len(s) /\ SubSeq(s, a + 1, b)[i] = s[a + i]
    <3>1. i \in 1 .. b - (a + 1) + 1 /\ a + 1 + i - 1 = a + i /\ a + i \in 1 .. Len(s)
      BY <1>2
    <3>2. SubSeq(s, a + 1, b)[i] = s[a + 1 + i - 1]
      BY <1>1, <3>1
    <3> QED
      BY <3>1, <3>2
  <2>3. DOMAIN SubSeq(s, a + 1, b) = 1 .. b - a /\ DOMAIN s = 1 .. Len(s)
    BY <1>1, <2>1
  <2> QED
    BY <1>1, <2>1, <2>2, <2>3 DEF Elements
<1>3. CASE ~ (a + 1 <= b)
  <2>1. Len(SubSeq(s, a + 1, b)) = 0
    BY <1>1, <1>3
  <2>2. SubSeq(s, a + 1, b) = <<>>
    BY <1>1, <2>1
  <2>3. Elements(SubSeq(s, a + 1, b)) = {}
    BY <2>2, ElementsOfNone
  <2> QED
    BY <1>1, <2>1, <2>3
<1> QED
  BY <1>2, <1>3

\* What a load holds; what somebody holds.
Loaded(f) == Elements(fetch[f].mapped) \cup Elements(fetch[f].items)
Awaits(w, b) == work[w].at = "served" /\ work[w].id = b
Held(b) ==
    \/ b \in Elements(server) \/ b \in Elements(list) \/ b \in Elements(file.bubbles)
    \/ \E f \in Fetchers : b \in Loaded(f)
    \/ \E w \in Writers : Awaits(w, b)

LEMMA ServedPage ==
    ASSUME StoreAssumptions, StoreTypes, NEW f \in Fetchers,
           NEW i, i = SubSeq(server, Before(f) + 1, Smaller(Before(f) + PageLimit, Len(server)))
    PROVE  i \in Seq(Bubbles) /\ Elements(i) \subseteq Elements(server) /\ Len(i) <= PageLimit
<1>1. Before(f) \in Nat /\ PageLimit \in Nat /\ server \in Seq(Bubbles) /\ Len(server) \in Nat
  BY PagesBefore DEF StoreTypes, StoreAssumptions, PagesAssumption
<1>2. PICK b \in Nat : /\ b = Smaller(Before(f) + PageLimit, Len(server))
                       /\ b <= Len(server) /\ b <= Before(f) + PageLimit
  BY <1>1 DEF Smaller
<1>3. i = SubSeq(server, Before(f) + 1, b)
  BY <1>2, Zenon
<1> QED
  BY <1>1, <1>2, <1>3, Slices

\* A step lets somebody hold only what somebody held, or the bubble that is born in it.
LEMMA HeldStep ==
    ASSUME StoreAssumptions, StoreTypes, [Next]_storeVars
    PROVE  \/ UNCHANGED about /\ \A b \in Bubbles : Held(b)' => Held(b)
           \/ \E n \in Bubbles, t \in About :
                 /\ about[n] = Unborn /\ about' = [about EXCEPT ![n] = t]
                 /\ \A b \in Bubbles : Held(b)' => Held(b) \/ b = n
<1> DEFINE Same == UNCHANGED about /\ \A b \in Bubbles : Held(b)' => Held(b)
           New(n, t) == /\ about[n] = Unborn /\ about' = [about EXCEPT ![n] = t]
                        /\ \A b \in Bubbles : Held(b)' => Held(b) \/ b = n
           Goal == Same \/ \E n \in Bubbles, t \in About : New(n, t)
           Loads(b) == \E f \in Fetchers : b \in Loaded(f)
           Waits(b) == \E w \in Writers : Awaits(w, b)
\* the parts of Held, each by itself
<1>s. UNCHANGED server => \A b : (b \in Elements(server))' <=> b \in Elements(server)
  OBVIOUS
<1>l. UNCHANGED list => \A b : (b \in Elements(list))' <=> b \in Elements(list)
  OBVIOUS
<1>x. UNCHANGED file => \A b : (b \in Elements(file.bubbles))' <=> b \in Elements(file.bubbles)
  OBVIOUS
<1>f. UNCHANGED fetch => \A b : Loads(b)' <=> Loads(b)
  BY DEF Loaded
<1>w. UNCHANGED work => \A b : Waits(b)' <=> Waits(b)
  BY DEF Awaits
<1>g. ASSUME NEW f \in Fetchers, NEW r, fetch' = [fetch EXCEPT ![f] = r], NEW b, Loads(b)'
      PROVE  Loads(b) \/ b \in Elements(r.mapped) \cup Elements(r.items)
  BY <1>g DEF Loaded, StoreTypes
<1>v. ASSUME NEW w \in Writers, NEW r, work' = [work EXCEPT ![w] = r], NEW b, Waits(b)'
      PROVE  Waits(b) \/ (r.at = "served" /\ r.id = b)
  BY <1>v DEF Awaits, StoreTypes
<1>h. \A b : Held(b) <=> \/ b \in Elements(server) \/ b \in Elements(list) \/ b \in Elements(file.bubbles)
                         \/ Loads(b) \/ Waits(b)
  BY Zenon DEF Held
<1>k. \A b : Held(b)' <=> \/ (b \in Elements(server))' \/ (b \in Elements(list))'
                          \/ (b \in Elements(file.bubbles))' \/ Loads(b)' \/ Waits(b)'
  BY Zenon DEF Held
<1> HIDE DEF Loads, Waits
<1>1. ASSUME NEW t \in About, ServerGains(t) PROVE Goal
  <2>1. PICK n \in Bubbles : BornAt(n, t)
    BY <1>1, Birth DEF ServerGains
  <2>2. UNCHANGED <<list, file, fetch, work>> /\ (\A b : (b \in Elements(server))' <=> b \in Elements(server) \/ b = n)
    BY <1>1, <2>1 DEF ServerGains, BornAt
  <2>3. New(n, t)
    BY <2>1, <2>2, <1>l, <1>x, <1>f, <1>w, <1>h, <1>k, Zenon DEF BornAt
  <2> QED
    BY <2>3, Zenon
<1>2. ASSUME NEW f \in Fetchers, ServePage(f) PROVE Goal
  <2>1. UNCHANGED <<server, list, file, work, about>>
    BY <1>2, Zenon DEF ServePage
  <2>2. PICK r \in Fetches :
           /\ fetch' = [fetch EXCEPT ![f] = r] /\ r.mapped = fetch[f].mapped
           /\ r.items = SubSeq(server, Before(f) + 1, Smaller(Before(f) + PageLimit, Len(server)))
    BY <1>2, Serving, Zenon
  <2>3. Elements(r.items) \subseteq Elements(server)
    BY <2>2, ServedPage
  <2>4. \A b \in Elements(r.mapped) : Loads(b)
    BY <2>2, Zenon DEF Loads, Loaded
  <2> QED
    BY <2>1, <2>2, <2>3, <2>4, <1>s, <1>l, <1>x, <1>g, <1>w, <1>h, <1>k, Zenon
<1>3. ASSUME NEW f \in Fetchers, StartFetch(f) PROVE Goal
  <2>1. UNCHANGED <<server, list, file, work, about>>
    BY <1>3, Zenon DEF StartFetch
  <2>2. PICK r \in Fetches :
           /\ fetch' = [fetch EXCEPT ![f] = r] /\ r.mapped = <<>> /\ r.items = <<>>
    BY <1>3, Starting, Zenon
  <2>3. Elements(r.mapped) = {} /\ Elements(r.items) = {}
    BY <2>2, ElementsOfNone, Zenon
  <2> QED
    BY <2>1, <2>2, <2>3, <1>s, <1>l, <1>x, <1>g, <1>w, <1>h, <1>k, Zenon
<1>4. ASSUME NEW f \in Fetchers, ReceivePage(f) PROVE Goal
  <2>1. UNCHANGED <<server, file, work, about>>
    BY <1>4, Zenon DEF ReceivePage
  <2>2. Elements(Gathered(f)) = Loaded(f) /\ (Ended(f) \/ GoesOn(f))
    BY <1>4, Receiving, Zenon DEF Loaded
  <2>3. \A b \in Elements(Gathered(f)) : Loads(b)
    BY <2>2, Zenon DEF Loads
  <2>4. CASE Ended(f)
    <3>1. list' = Gathered(f) /\ fetch' = [fetch EXCEPT ![f] = NoFetch]
      BY <2>4, Zenon DEF Ended
    <3>2. Elements(NoFetch.mapped) = {} /\ Elements(NoFetch.items) = {}
      BY IdleLoad, ElementsOfNone, Zenon
    <3> QED
      BY <2>1, <2>3, <3>1, <3>2, <1>s, <1>x, <1>g, <1>w, <1>h, <1>k, Zenon
  <2>5. CASE GoesOn(f)
    <3>1. PICK r \in Fetches : /\ fetch' = [fetch EXCEPT ![f] = r]
                               /\ r.mapped = Gathered(f) /\ r.items = <<>> /\ UNCHANGED list
      BY <2>5, Zenon DEF GoesOn
    <3>2. Elements(r.items) = {} /\ Elements(r.mapped) = Elements(Gathered(f))
      BY <3>1, ElementsOfNone, Zenon
    <3> QED
      BY <2>1, <2>3, <3>1, <3>2, <1>s, <1>l, <1>x, <1>g, <1>w, <1>h, <1>k, Zenon
  <2> QED
    BY <2>2, <2>4, <2>5, Zenon
<1>5. ASSUME NEW f \in Fetchers, FetchFails(f) PROVE Goal
  <2>1. UNCHANGED <<server, list, file, work, about>> /\ fetch' = [fetch EXCEPT ![f] = NoFetch]
    BY <1>5, Zenon DEF FetchFails
  <2>2. Elements(NoFetch.mapped) = {} /\ Elements(NoFetch.items) = {}
    BY IdleLoad, ElementsOfNone, Zenon
  <2> QED
    BY <2>1, <2>2, <1>s, <1>l, <1>x, <1>g, <1>w, <1>h, <1>k, Zenon
<1>6. ASSUME NEW w \in Writers, NEW r, r.at # "served", work' = [work EXCEPT ![w] = r],
             UNCHANGED <<server, list, file, fetch, about>>
      PROVE  Goal
  BY <1>6, <1>s, <1>l, <1>x, <1>f, <1>v, <1>h, <1>k, Zenon
<1>7. ASSUME NEW w \in Writers, Compose(w) PROVE Goal
  <2>1. UNCHANGED <<server, list, file, fetch, about>>
    BY <1>7, Zenon DEF Compose
  <2>2. PICK r : work' = [work EXCEPT ![w] = r] /\ r.at = "asked"
    BY <1>7, Composing, Zenon
  <2> QED
    BY <1>6, <2>1, <2>2
<1>8. ASSUME NEW w \in Writers, NextTrade(w) PROVE Goal
  <2>1. UNCHANGED <<server, list, file, fetch, about>>
    BY <1>8, Zenon DEF NextTrade
  <2>2. PICK r : work' = [work EXCEPT ![w] = r] /\ r.at \in {"idle", "next", "putting", "asked"}
    BY <1>8, Taking
  <2> QED
    BY <1>6, <2>1, <2>2
<1>9. ASSUME NEW w \in Writers, Patched(w) PROVE Goal
  <2>1. UNCHANGED <<server, list, file, fetch, about>>
    BY <1>9, Zenon DEF Patched
  <2>2. PICK r : work' = [work EXCEPT ![w] = r] /\ r.at = "next"
    BY <1>9, Patching, Zenon
  <2> QED
    BY <1>6, <2>1, <2>2
<1>10. ASSUME NEW w \in Writers, ServeCreate(w) PROVE Goal
  <2>1. UNCHANGED <<list, file, fetch>>
    BY <1>10, Zenon DEF ServeCreate
  <2>2. PICK n \in Bubbles, r \in Works :
           /\ BornAt(n, work[w].trade)
           /\ work' = [work EXCEPT ![w] = r] /\ r.id = n
    BY <1>10, Creating, Zenon
  <2>3. \A b : (b \in Elements(server))' <=> b \in Elements(server) \/ b = n
    BY <2>2 DEF BornAt
  <2>4. work[w].trade \in About
    BY DEF StoreTypes, Works
  <2>5. New(n, work[w].trade)
    BY <2>1, <2>2, <2>3, <1>l, <1>x, <1>f, <1>v, <1>h, <1>k, Zenon DEF BornAt
  <2> QED
    BY <2>4, <2>5, Zenon
<1>11. ASSUME NEW w \in Writers, CreateAnswered(w) PROVE Goal
  <2>1. UNCHANGED <<server, file, fetch, about>> /\ list' = Append(list, work[w].id) /\ Waits(work[w].id)
    BY <1>11, Zenon DEF CreateAnswered, Waits, Awaits
  <2>2. PICK r : work' = [work EXCEPT ![w] = r] /\ r.at = "next"
    BY <1>11, Answering, Zenon
  <2>3. r.at # "served"
    BY <2>2
  <2>4. Elements(list') = Elements(list) \cup {work[w].id}
    <3>1. list \in Seq(Bubbles) /\ work[w].id \in Bubbles
      BY <1>11 DEF StoreTypes, Works, CreateAnswered
    <3> QED
      BY <2>1, <3>1, Appended
  <2> QED
    BY <2>1, <2>2, <2>3, <2>4, <1>s, <1>x, <1>f, <1>v, <1>h, <1>k, Zenon
<1>12. ASSUME NEW w \in Writers, CreateFails(w) PROVE Goal
  <2>1. UNCHANGED <<server, list, file, fetch, about>> /\ work' = [work EXCEPT ![w] = NoWork]
    BY <1>12, Zenon DEF CreateFails
  <2>2. NoWork.at # "served"
    BY IdleWork
  <2> QED
    BY <1>6, <2>1, <2>2
<1>13. ASSUME NEW w \in Writers, NEW csv \in Files, ImportTrades(w, csv) PROVE Goal
  <2>1. UNCHANGED <<server, list, file, fetch, about>>
    BY <1>13, Zenon DEF ImportTrades
  <2>2. PICK r : work' = [work EXCEPT ![w] = r] /\ r.at = "next"
    BY <1>13, Importing, ZenonT(40)
  <2> QED
    BY <1>6, <2>1, <2>2
<1>14. ASSUME AddBubble PROVE Goal
  <2>1. PICK n \in Bubbles : /\ about[n] = Unborn /\ about' = [about EXCEPT ![n] = Manual]
                             /\ list' = Append(list, n)
    BY <1>14 DEF AddBubble, Unused
  <2>2. UNCHANGED <<server, file, fetch, work>>
    BY <1>14, Zenon DEF AddBubble
  <2>3. Elements(list') = Elements(list) \cup {n}
    <3>1. list \in Seq(Bubbles)
      BY DEF StoreTypes
    <3> QED
      BY <2>1, <3>1, Appended
  <2>4. Manual \in About
    BY DEF About
  <2>5. New(n, Manual)
    BY <2>1, <2>2, <2>3, <1>s, <1>x, <1>f, <1>w, <1>h, <1>k, Zenon
  <2> QED
    BY <2>4, <2>5, Zenon
<1>15. ASSUME NEW b \in Bubbles, DeleteBubble(b) PROVE Goal
  <2>1. UNCHANGED <<server, file, fetch, work, about>>
    BY <1>15, Zenon DEF DeleteBubble
  <2>2. Elements(list') \subseteq Elements(list)
    BY <1>15, Deleting
  <2> QED
    BY <2>1, <2>2, <1>s, <1>x, <1>f, <1>w, <1>h, <1>k, Zenon
<1>16. ASSUME ClearAll PROVE Goal
  <2>1. UNCHANGED <<server, file, fetch, work, about>> /\ Elements(list') = {}
    BY <1>16, ElementsOfNone, Zenon DEF ClearAll, ReplaceAll
  <2> QED
    BY <2>1, <1>s, <1>x, <1>f, <1>w, <1>h, <1>k, Zenon
<1>17. ASSUME ExportBubbles PROVE Goal
  <2>1. UNCHANGED <<server, list, fetch, work, about>>
    BY <1>17, Zenon DEF ExportBubbles
  <2>2. file'.bubbles = list
    BY <1>17 DEF ExportBubbles
  <2>3. Elements(file'.bubbles) = Elements(list)
    BY <2>2, Zenon
  <2> QED
    BY <2>1, <2>3, <1>s, <1>l, <1>f, <1>w, <1>h, <1>k, Zenon
<1>18. ASSUME ImportBubbles PROVE Goal
  <2>1. UNCHANGED <<server, file, fetch, work, about>> /\ Elements(list') = Elements(file.bubbles)
    BY <1>18, Zenon DEF ImportBubbles, ReplaceAll
  <2> QED
    BY <2>1, <1>s, <1>x, <1>f, <1>w, <1>h, <1>k, Zenon
<1>19. ASSUME ResetAndReload PROVE Goal
  <2>1. UNCHANGED <<server, list, file, about>>
    BY <1>19, Zenon DEF ResetAndReload
  <2>2. fetch' = [f \in Fetchers |-> NoFetch] /\ work' = [w \in Writers |-> NoWork]
    BY <1>19, Zenon DEF ResetAndReload
  <2>3. Elements(NoFetch.mapped) = {} /\ Elements(NoFetch.items) = {} /\ NoWork.at # "served"
    BY IdleLoad, IdleWork, ElementsOfNone
  <2>4. ASSUME NEW b PROVE ~ Loads(b)' /\ ~ Waits(b)'
    BY <2>2, <2>3 DEF Loads, Waits, Loaded, Awaits
  <2> QED
    BY <2>1, <2>4, <1>s, <1>l, <1>x, <1>h, <1>k, Zenon
<1>20. ASSUME UNCHANGED storeVars PROVE Goal
  <2>1. UNCHANGED <<server, list, file, fetch, work, about>>
    BY <1>20 DEF storeVars
  <2> QED
    BY <2>1, <1>s, <1>l, <1>x, <1>f, <1>w, <1>h, <1>k, Zenon
<1>21. Goal
  <2> HIDE DEF Goal
  <2> QED
    BY <1>1, <1>2, <1>3, <1>4, <1>5, <1>7, <1>8, <1>9, <1>10, <1>11, <1>12, <1>13, <1>14, <1>15,
       <1>16, <1>17, <1>18, <1>19, <1>20, Zenon DEF Next
<1> QED
  BY <1>21, Zenon

\* A load counts no more than there are.
Counts ==
    \A f \in Fetchers :
        fetch[f].count <= MaxBubbles /\ fetch[f].total <= MaxBubbles /\ Len(fetch[f].items) <= PageLimit

\* A bubble is born before anybody holds it, and the server has it once.
Births ==
    /\ Distinct(server)
    /\ \A b \in Bubbles : Held(b) => about[b] # Unborn
    /\ Counts
    /\ \A w \in Writers : work[w].known \subseteq Trades

LEMMA BirthsInit == ASSUME StoreAssumptions, Init PROVE Births
<1>1. /\ server = <<>> /\ list = <<>> /\ file.bubbles = <<>>
      /\ \A f \in Fetchers : fetch[f] = NoFetch
      /\ \A w \in Writers : work[w] = NoWork
  BY DEF Init, NoFile
<1>2. \A b : ~ Held(b)
  BY <1>1, IdleLoad, IdleWork, ElementsOfNone DEF Held, Loaded, Awaits
<1>3. Distinct(server)
  BY <1>1 DEF Distinct
<1>4. Counts
  <2>1. 0 <= MaxBubbles /\ Len(<<>>) <= PageLimit
    BY DEF StoreAssumptions, StoreBounds, PagesAssumption
  <2> QED
    BY <1>1, <2>1, IdleLoad, Zenon DEF Counts
<1> QED
  BY <1>1, <1>2, <1>3, <1>4, IdleWork, Zenon DEF Births

LEMMA BirthsStep ==
    ASSUME StoreAssumptions, StoreTypes, Births, [Next]_storeVars
    PROVE  Births'
<1>0. /\ server \in Seq(Bubbles) /\ Len(server) \in Nat /\ Distinct(server)
      /\ \A f \in Fetchers : fetch[f] \in Fetches
      /\ \A w \in Writers : work[w] \in Works /\ work[w].known \subseteq Trades
  BY DEF StoreTypes, Births
<1>1. \A b \in Bubbles : Held(b)' => about'[b] # Unborn
  <2>1. CASE UNCHANGED about /\ \A b \in Bubbles : Held(b)' => Held(b)
    BY <2>1, Zenon DEF Births
  <2>2. ASSUME NEW n \in Bubbles, NEW t \in About,
               about[n] = Unborn, about' = [about EXCEPT ![n] = t],
               \A b \in Bubbles : Held(b)' => Held(b) \/ b = n
        PROVE  \A b \in Bubbles : Held(b)' => about'[b] # Unborn
    <3>1. t # Unborn
      BY DEF StoreAssumptions, AboutAssumption
    <3>2. about'[n] = t /\ \A b \in Bubbles : b # n => about'[b] = about[b]
      BY <2>2 DEF StoreTypes
    <3> QED
      BY <2>2, <3>1, <3>2, Zenon DEF Births
  <2> QED
    BY <2>1, <2>2, HeldStep, Zenon
<1>2. Distinct(server)'
  <2>1. ASSUME NEW n \in Bubbles, NEW t \in About, BornAt(n, t) PROVE Distinct(server)'
    <3>1. n \notin Elements(server)
      BY <2>1, Zenon DEF Births, Held, BornAt
    <3> QED
      BY <1>0, <2>1, <3>1, Zenon DEF BornAt
  <2>2. ASSUME UNCHANGED server PROVE Distinct(server)'
    BY <1>0, <2>2, Zenon
  <2>3. ASSUME NEW t \in About, ServerGains(t) PROVE Distinct(server)'
    BY <2>1, <2>3, Birth, Zenon DEF ServerGains
  <2>4. ASSUME NEW w \in Writers, ServeCreate(w) PROVE Distinct(server)'
    <3>1. work[w].trade \in About
      BY <1>0 DEF Works
    <3> QED
      BY <2>1, <2>4, <3>1, Creating, Zenon
  <2>5. /\ \A f \in Fetchers : StartFetch(f) \/ ServePage(f) \/ ReceivePage(f) \/ FetchFails(f)
                                  => UNCHANGED server
        /\ \A w \in Writers : Compose(w) \/ NextTrade(w) \/ Patched(w) \/ CreateAnswered(w) \/ CreateFails(w)
                                 => UNCHANGED server
        /\ \A w \in Writers : \A csv \in Files : ImportTrades(w, csv) => UNCHANGED server
        /\ \A b \in Bubbles : DeleteBubble(b) => UNCHANGED server
        /\ AddBubble \/ ClearAll \/ ExportBubbles \/ ImportBubbles \/ ResetAndReload \/ UNCHANGED storeVars
              => UNCHANGED server
    BY Zenon DEF StartFetch, ServePage, ReceivePage, FetchFails, Compose, NextTrade, Patched,
       CreateAnswered, CreateFails, ImportTrades, DeleteBubble, AddBubble, ClearAll, ExportBubbles,
       ImportBubbles, ResetAndReload, storeVars
  <2> QED
    BY <2>2, <2>3, <2>4, <2>5, Zenon DEF Next
<1>3. Counts'
  <2>0. /\ Counts /\ MaxBubbles \in Nat /\ PageLimit \in Nat
        /\ 0 <= MaxBubbles /\ Len(<<>>) <= PageLimit
    BY DEF Births, StoreAssumptions, StoreBounds, PagesAssumption
  <2>1. ASSUME NEW f \in Fetchers, NEW r, fetch' = [fetch EXCEPT ![f] = r],
               r.count <= MaxBubbles, r.total <= MaxBubbles, Len(r.items) <= PageLimit
        PROVE  Counts'
    <3>1. \A g \in Fetchers : fetch'[g] = r \/ fetch'[g] = fetch[g]
      BY <2>1 DEF StoreTypes
    <3> QED
      BY <2>0, <2>1, <3>1, Zenon DEF Counts
  <2>2. ASSUME UNCHANGED fetch PROVE Counts'
    BY <2>0, <2>2, Zenon DEF Counts
  <2>3. ASSUME NEW f \in Fetchers, ServePage(f) PROVE Counts'
    <3>1. PICK r \in Fetches :
           /\ fetch' = [fetch EXCEPT ![f] = r] /\ r.total = fetch[f].total /\ r.count = Len(server)
           /\ r.items = SubSeq(server, Before(f) + 1, Smaller(Before(f) + PageLimit, Len(server)))
      BY <2>3, Serving, Zenon
    <3>2. Len(r.items) <= PageLimit
      BY <3>1, ServedPage
    <3>3. Len(server) <= MaxBubbles
      BY <1>0, <2>0, DistinctCounted DEF Bubbles
    <3> QED
      BY <2>0, <2>1, <3>1, <3>2, <3>3, ZenonT(40) DEF Counts
  <2>4. ASSUME NEW f \in Fetchers, StartFetch(f) PROVE Counts'
    <3>1. PICK r \in Fetches : /\ fetch' = [fetch EXCEPT ![f] = r] /\ r.total = 0 /\ r.items = <<>> /\ r.count = 0
      BY <2>4, Starting, Zenon
    <3> QED
      BY <2>0, <2>1, <3>1, Zenon
  <2>5. ASSUME NEW f \in Fetchers, fetch' = [fetch EXCEPT ![f] = NoFetch] PROVE Counts'
    BY <2>0, <2>1, <2>5, IdleLoad, Zenon
  <2>6. ASSUME NEW f \in Fetchers, ReceivePage(f) PROVE Counts'
    <3>1. Ended(f) \/ GoesOn(f)
      BY <2>6, Receiving
    <3>2. CASE GoesOn(f)
      <4>1. PICK r \in Fetches :
               /\ fetch' = [fetch EXCEPT ![f] = r] /\ r.total = Counted(f) /\ r.items = <<>> /\ r.count = 0
        BY <3>2, Zenon DEF GoesOn
      <4>2. Counted(f) <= MaxBubbles
        BY <2>0, Zenon DEF Counted, Counts
      <4> QED
        BY <2>0, <2>1, <4>1, <4>2, Zenon
    <3> QED
      BY <2>5, <3>1, <3>2, Zenon DEF Ended
  <2>7. ASSUME NEW f \in Fetchers, FetchFails(f) PROVE Counts'
    BY <2>5, <2>7, Zenon DEF FetchFails
  <2>8. ResetAndReload => Counts'
    <3>1. ASSUME ResetAndReload PROVE \A f \in Fetchers : fetch'[f] = NoFetch
      BY <3>1 DEF ResetAndReload
    <3> QED
      BY <2>0, <3>1, IdleLoad, Zenon DEF Counts
  <2>9. /\ \A t \in About : ServerGains(t) => UNCHANGED fetch
        /\ \A w \in Writers : Compose(w) \/ NextTrade(w) \/ Patched(w) => UNCHANGED fetch
        /\ \A w \in Writers : ServeCreate(w) \/ CreateAnswered(w) \/ CreateFails(w) => UNCHANGED fetch
        /\ \A w \in Writers : \A csv \in Files : ImportTrades(w, csv) => UNCHANGED fetch
        /\ \A b \in Bubbles : DeleteBubble(b) => UNCHANGED fetch
        /\ AddBubble \/ ClearAll \/ ExportBubbles \/ ImportBubbles \/ UNCHANGED storeVars
              => UNCHANGED fetch
    BY Zenon DEF ServerGains, Compose, NextTrade, Patched, ServeCreate,
       CreateAnswered, CreateFails, ImportTrades, DeleteBubble, AddBubble, ClearAll, ExportBubbles,
       ImportBubbles, storeVars
  <2> QED
    BY <2>2, <2>3, <2>4, <2>6, <2>7, <2>8, <2>9, Zenon DEF Next
<1>4. (\A w \in Writers : work[w].known \subseteq Trades)'
  <2>1. ASSUME NEW w \in Writers, NEW r, work' = [work EXCEPT ![w] = r], r.known \subseteq Trades
        PROVE  \A v \in Writers : work'[v].known \subseteq Trades
    <3>1. \A v \in Writers : work'[v] = r \/ work'[v] = work[v]
      BY <2>1 DEF StoreTypes
    <3> QED
      BY <1>0, <2>1, <3>1, Zenon
  <2> DEFINE Goal == \A v \in Writers : work'[v].known \subseteq Trades
  <2>2. ASSUME UNCHANGED work PROVE Goal
    BY <1>0, <2>2, Zenon
  <2>3. ASSUME NEW w \in Writers, Compose(w) PROVE Goal
    BY <2>1, <2>3, Composing, Zenon
  <2>4. ASSUME NEW w \in Writers, NextTrade(w) PROVE Goal
    <3>1. PICK r : work' = [work EXCEPT ![w] = r] /\ (r.known = {} \/ r.known = work[w].known)
      BY <2>4, Taking, Zenon
    <3> QED
      BY <1>0, <2>1, <3>1, Zenon
  <2>5. ASSUME NEW w \in Writers, Patched(w) \/ ServeCreate(w) \/ CreateAnswered(w) PROVE Goal
    <3>1. PICK r : work' = [work EXCEPT ![w] = r] /\ r.known = work[w].known
      BY <2>5, Patching, Creating, Answering, Zenon
    <3> QED
      BY <1>0, <2>1, <3>1, Zenon
  <2>6. ASSUME NEW w \in Writers, CreateFails(w) PROVE Goal
    BY <2>1, <2>6, IdleWork, Zenon DEF CreateFails
  <2>7. ASSUME NEW w \in Writers, NEW csv \in Files, ImportTrades(w, csv) PROVE Goal
    <3>1. PICK r : work' = [work EXCEPT ![w] = r] /\ r.known = TradesOf(list)
      BY <2>7, Importing, ZenonT(40)
    <3>2. TradesOf(list) \subseteq Trades
      <4>1. \A b \in Elements(list) : b \in Bubbles
        BY ElementsTyped DEF StoreTypes
      <4>2. \A b \in Elements(list) : about[b] # Unborn
        BY <4>1, Zenon DEF Births, Held
      <4>3. \A b \in Bubbles : about[b] \in Trades \cup {Manual} \cup {Unborn}
        BY DEF StoreTypes, About
      <4> QED
        BY <4>1, <4>2, <4>3 DEF TradesOf
    <3> QED
      BY <2>1, <3>1, <3>2, Zenon
  <2>8. ASSUME ResetAndReload PROVE Goal
    <3>1. \A w \in Writers : work'[w] = NoWork
      BY <2>8 DEF ResetAndReload
    <3> QED
      BY <3>1, IdleWork, Zenon
  <2>9. /\ \A t \in About : ServerGains(t) => UNCHANGED work
        /\ \A f \in Fetchers : StartFetch(f) \/ ServePage(f) \/ ReceivePage(f) \/ FetchFails(f)
                                  => UNCHANGED work
        /\ \A b \in Bubbles : DeleteBubble(b) => UNCHANGED work
        /\ AddBubble \/ ClearAll \/ ExportBubbles \/ ImportBubbles \/ UNCHANGED storeVars
              => UNCHANGED work
    BY Zenon DEF ServerGains, StartFetch, ServePage, ReceivePage, FetchFails, DeleteBubble, AddBubble,
       ClearAll, ExportBubbles, ImportBubbles, storeVars
  <2>10. Goal
    <3> HIDE DEF Goal
    <3> QED
      BY <2>2, <2>3, <2>4, <2>5, <2>6, <2>7, <2>8, <2>9, Zenon DEF Next
  <2> QED
    BY <2>10
<1> QED
  BY <1>1, <1>2, <1>3, <1>4, Zenon DEF Births

LEMMA Stored == ASSUME StoreAssumptions PROVE Spec => [](StoreTypes /\ Births)
<1>1. Init => StoreTypes /\ Births
  BY TypesInit, BirthsInit
<1>2. StoreTypes /\ Births /\ [Next]_storeVars => (StoreTypes /\ Births)'
  BY TypesStep, BirthsStep
<1> QED
  BY <1>1, <1>2, PTL DEF Spec

\* Every variable has values of its kind (lib/bubbleStore.ts, lib/dataHandler.ts).
THEOREM Typing == ASSUME StoreAssumptions PROVE Spec => []TypeOK
<1>1. StoreTypes /\ Births => TypeOK
  <2> SUFFICES ASSUME StoreTypes, Births PROVE TypeOK
    OBVIOUS
  <2>1. /\ server \in Seq(Bubbles) /\ list \in Seq(Bubbles) /\ total \in Nat
        /\ about \in [Bubbles -> About \cup {Unborn}]
        /\ trades \in Seq(Trades)
        /\ imports \in 0 .. MaxImports /\ faults \in 0 .. MaxFaults
        /\ calm \subseteq Fetchers /\ mixed \in BOOLEAN /\ excused \in BOOLEAN
    BY Zenon DEF StoreTypes
  <2>2. file.bubbles \in Seq(Bubbles) /\ file.trades \in Seq(Trades) /\ file.made \in BOOLEAN
    BY DEF StoreTypes
  <2>3. ASSUME NEW f \in Fetchers
        PROVE  /\ fetch[f].at \in {"idle", "asked", "served"}
               /\ fetch[f].page \in 1 .. PageCap + 1
               /\ fetch[f].mapped \in Seq(Bubbles) /\ fetch[f].items \in Seq(Bubbles)
               /\ Len(fetch[f].items) <= PageLimit
               /\ fetch[f].total \in 0 .. MaxBubbles /\ fetch[f].count \in 0 .. MaxBubbles
    <3>1. fetch[f] \in Fetches /\ MaxBubbles \in Nat
      BY DEF StoreTypes, StoreAssumptions, StoreBounds
    <3>2. fetch[f].count <= MaxBubbles /\ fetch[f].total <= MaxBubbles /\ Len(fetch[f].items) <= PageLimit
      BY Zenon DEF Births, Counts
    <3> QED
      BY <3>1, <3>2 DEF Fetches
  <2>4. ASSUME NEW w \in Writers
        PROVE  /\ work[w].at \in {"idle", "next", "putting", "asked", "served"}
               /\ work[w].trade \in About /\ work[w].id \in Bubbles \cup {NoBubble}
               /\ work[w].rest \in Seq(Trades) /\ work[w].known \subseteq Trades
    <3>1. work[w] \in Works
      BY DEF StoreTypes
    <3>2. work[w].known \subseteq Trades
      BY DEF Births
    <3> QED
      BY <3>1, <3>2 DEF Works
  <2> QED
    BY <2>1, <2>2, <2>3, <2>4, Zenon DEF TypeOK
<1> QED
  BY <1>1, Stored, PTL

-----------------------------------------------------------------------------
(* A load is exact *)

\* What a load has is the first pages of the server, if nothing was born meanwhile.
Fits(f) ==
    \/ fetch[f] = NoFetch
    \/ /\ fetch[f].at # "idle"
       /\ Before(f) <= Len(server)
       /\ fetch[f].mapped = SubSeq(server, 1, Before(f))
       /\ fetch[f].total = IF fetch[f].page = 1 THEN 0 ELSE Len(server)
       /\ IF fetch[f].at = "served"
          THEN /\ fetch[f].count = Len(server)
               /\ fetch[f].items = SubSeq(server, Before(f) + 1, Smaller(Before(f) + PageLimit, Len(server)))
          ELSE fetch[f].items = <<>>
PagesFit == \A f \in Fetchers : f \in calm \/ ~ mixed => Fits(f)

LEMMA Gathering ==
    ASSUME StoreAssumptions, StoreTypes, NEW f \in Fetchers, Fits(f), fetch[f].at = "served"
    PROVE  \E b \in Nat :
              /\ b = Smaller(Before(f) + PageLimit, Len(server)) /\ b <= Len(server) /\ Before(f) <= b
              /\ Gathered(f) = SubSeq(server, 1, b) /\ Len(Gathered(f)) = b
              /\ Counted(f) = Len(server)
              /\ fetch[f].items = <<>> => b = Before(f)
              /\ fetch[f].items # <<>> => Len(server) > 0
<1>1. /\ Before(f) \in Nat /\ PageLimit \in Nat /\ server \in Seq(Bubbles) /\ Len(server) \in Nat
      /\ fetch[f] \in Fetches
  BY PagesBefore DEF StoreTypes, StoreAssumptions, PagesAssumption
<1>2. /\ Before(f) <= Len(server)
      /\ fetch[f].mapped = SubSeq(server, 1, Before(f))
      /\ fetch[f].total = IF fetch[f].page = 1 THEN 0 ELSE Len(server)
      /\ fetch[f].count = Len(server)
      /\ fetch[f].items = SubSeq(server, Before(f) + 1, Smaller(Before(f) + PageLimit, Len(server)))
  <2>1. fetch[f] # NoFetch
    BY IdleLoad
  <2> QED
    BY <2>1, Zenon DEF Fits
<1>3. PICK b \in Nat : /\ b = Smaller(Before(f) + PageLimit, Len(server))
                       /\ b <= Len(server) /\ Before(f) <= b
  <2>1. Before(f) <= Len(server)
    BY <1>2
  <2>2. Before(f) \in Nat /\ PageLimit \in Nat /\ Len(server) \in Nat
    BY <1>1
  <2> QED
    BY <2>1, <2>2 DEF Smaller
<1>4. /\ Len(SubSeq(server, Before(f) + 1, b)) = b - Before(f)
      /\ SubSeq(server, 1, Before(f)) \o SubSeq(server, Before(f) + 1, b) = SubSeq(server, 1, b)
      /\ Len(SubSeq(server, 1, b)) = b
  <2>1. PICK a \in Nat : a = Before(f)
    BY <1>1
  <2>2. a <= b /\ b <= Len(server)
    BY <1>3, <2>1, Zenon
  <2>3. /\ Len(SubSeq(server, a + 1, b)) = b - a
        /\ SubSeq(server, 1, a) \o SubSeq(server, a + 1, b) = SubSeq(server, 1, b)
        /\ Len(SubSeq(server, 1, b)) = b
    <3>1. server \in Seq(Bubbles)
      BY <1>1
    <3>2. b \in Nat /\ Len(server) \in Nat
      BY <1>1
    <3>3. /\ Len(SubSeq(server, a + 1, b)) = b - a
          /\ SubSeq(server, 1, a) \o SubSeq(server, a + 1, b) = SubSeq(server, 1, b)
      BY <2>2, <3>1, Prefixes
    <3>4. 0 <= b
      BY <3>2
    <3>5. Len(SubSeq(server, 1, b)) = b
      BY <2>2, <3>1, <3>4, Prefixes
    <3> QED
      BY <3>3, <3>5
  <2> QED
    BY <2>1, <2>3, Zenon
<1>5. Gathered(f) = SubSeq(server, 1, b) /\ Len(Gathered(f)) = b
  BY <1>2, <1>3, <1>4, Zenon DEF Gathered
<1>6. Counted(f) = Len(server)
  BY <1>1, <1>2 DEF Counted
<1>7. Len(fetch[f].items) = b - Before(f)
  BY <1>2, <1>3, <1>4, Zenon
<1>8. fetch[f].items = <<>> => b = Before(f)
  BY <1>1, <1>3, <1>7
<1>9. fetch[f].items # <<>> => Len(server) > 0
  <2>1. ASSUME Len(server) = 0 PROVE fetch[f].items = <<>>
    <3>1. b = 0 /\ Before(f) = 0
      BY <1>1, <1>3, <2>1
    <3>2. Len(fetch[f].items) = 0
      BY <1>7, <3>1
    <3>3. fetch[f].items \in Seq(Bubbles)
      BY <1>1 DEF Fetches
    <3> QED
      BY <3>2, <3>3
  <2> QED
    BY <1>1, <2>1
<1> QED
  BY <1>3, <1>5, <1>6, <1>8, <1>9

\* No page is later than the last one.
LEMMA LastPageIs ==
    ASSUME StoreAssumptions, StoreTypes, NEW f \in Fetchers
    PROVE  /\ (PageCap + 1) * PageLimit \in Nat
           /\ Before(f) + PageLimit <= (PageCap + 1) * PageLimit
           /\ fetch[f].page > PageCap => Before(f) + PageLimit = (PageCap + 1) * PageLimit
<1>1. PICK p \in Nat : p = fetch[f].page /\ p <= PageCap + 1
  BY DEF StoreTypes, Fetches, StoreAssumptions, PagesAssumption
<1>2. PICK c \in Nat : c = PageCap
  BY DEF StoreAssumptions, PagesAssumption
<1>3. PICK l \in Nat : l = PageLimit
  BY DEF StoreAssumptions, PagesAssumption
<1>4. PICK d \in Nat : c + 1 = p + d
  <2>1. c + 1 - p \in Nat /\ c + 1 = p + (c + 1 - p)
    BY <1>1, <1>2
  <2> QED
    BY <2>1
<1>5. (p + d) * l = p * l + d * l /\ p * l \in Nat /\ d * l \in Nat
  OBVIOUS
<1>6. Before(f) + PageLimit = p * l
  BY <1>1, <1>3, PagesBefore, Zenon DEF StoreTypes
<1>7. (PageCap + 1) * PageLimit = (p + d) * l
  BY <1>2, <1>3, <1>4, Zenon
<1>8. (PageCap + 1) * PageLimit = p * l + d * l
  BY <1>5, <1>7, Zenon
<1>9. fetch[f].page > PageCap => p = c + 1
  BY <1>1, <1>2
<1>10. p = c + 1 => (PageCap + 1) * PageLimit = p * l
  BY <1>2, <1>3, Zenon
<1> QED
  BY <1>5, <1>6, <1>8, <1>9, <1>10

\* A load that ends has all of the server, or the pages up to the last one.
LEMMA EndsExactly ==
    ASSUME StoreAssumptions, StoreTypes, NEW f \in Fetchers, Fits(f), ReceivePage(f), Ended(f)
    PROVE  /\ list' = SubSeq(server, 1, Smaller(Len(server), (PageCap + 1) * PageLimit))
           /\ total' = Len(server)
<1>1. PICK b \in Nat :
         /\ b = Smaller(Before(f) + PageLimit, Len(server)) /\ b <= Len(server) /\ Before(f) <= b
         /\ Gathered(f) = SubSeq(server, 1, b) /\ Len(Gathered(f)) = b
         /\ Counted(f) = Len(server)
         /\ fetch[f].items = <<>> => b = Before(f)
  <2>1. fetch[f].at = "served"
    BY Zenon DEF ReceivePage
  <2> QED
    BY <2>1, Gathering
<1>2. /\ Before(f) \in Nat /\ PageLimit \in Nat \ {0} /\ Len(server) \in Nat
      /\ Before(f) + PageLimit = fetch[f].page * PageLimit
  BY PagesBefore DEF StoreTypes, StoreAssumptions, PagesAssumption
<1>3. PICK m \in Nat :
         /\ m = (PageCap + 1) * PageLimit /\ Before(f) + PageLimit <= m
         /\ fetch[f].page > PageCap => Before(f) + PageLimit = m
  BY LastPageIs
<1>4. \/ Counted(f) > 0 /\ Len(Gathered(f)) >= Counted(f)
      \/ fetch[f].items = <<>>
      \/ Counted(f) > 0 /\ fetch[f].page * PageLimit >= Counted(f)
      \/ fetch[f].page > PageCap
  BY Zenon DEF Ended
<1>5. b = Smaller(Len(server), m)
  <2>1. CASE Len(Gathered(f)) >= Counted(f)
    <3>1. b = Len(server)
      BY <1>1, <1>2, <2>1
    <3> QED
      BY <1>1, <1>2, <1>3, <3>1 DEF Smaller
  <2>2. CASE fetch[f].items = <<>>
    <3>1. b = Before(f)
      BY <1>1, <2>2, Zenon
    <3>2. b = Len(server)
      BY <1>1, <1>2, <3>1 DEF Smaller
    <3> QED
      BY <1>1, <1>2, <1>3, <3>1, <3>2 DEF Smaller
  <2>3. CASE fetch[f].page * PageLimit >= Counted(f)
    <3>1. Before(f) + PageLimit >= Len(server)
      BY <1>1, <1>2, <2>3, Zenon
    <3>2. b = Len(server)
      BY <1>1, <1>2, <3>1 DEF Smaller
    <3> QED
      BY <1>2, <1>3, <3>1, <3>2 DEF Smaller
  <2>4. CASE fetch[f].page > PageCap
    <3>1. Before(f) + PageLimit = m
      BY <1>3, <2>4, Zenon
    <3> QED
      BY <1>1, <1>2, <1>3, <3>1 DEF Smaller
  <2> QED
    BY <1>4, <2>1, <2>2, <2>3, <2>4, Zenon
<1>6. list' = SubSeq(server, 1, b) /\ total' = Larger(Len(server), b)
  BY <1>1, Zenon DEF Ended
<1>7. total' = Len(server)
  BY <1>1, <1>2, <1>6 DEF Larger
<1> QED
  BY <1>3, <1>5, <1>6, <1>7, Zenon

LEMMA NothingYet == ASSUME NEW X, NEW s \in Seq(X) PROVE SubSeq(s, 1, 0) = <<>>
<1>1. SubSeq(s, 1, 0) \in Seq(X) /\ Len(SubSeq(s, 1, 0)) = 0
  BY SubSeqProperties
<1> QED
  BY <1>1

\* A load that has only begun has nothing yet.
LEMMA Begun ==
    ASSUME StoreAssumptions, NEW s \in Seq(Bubbles), NEW f \in Fetchers, NEW r,
           r.at = "asked", r.page = 1, r.mapped = <<>>, r.total = 0, r.items = <<>>
    PROVE  (fetch'[f] = r /\ server' = s) => Fits(f)'
<1> SUFFICES ASSUME fetch'[f] = r, server' = s PROVE Fits(f)'
  OBVIOUS
<1>1. PageLimit \in Nat
  BY DEF StoreAssumptions, PagesAssumption
<1>2. Before(f)' = 0
  BY <1>1 DEF Before
<1>3. SubSeq(server', 1, 0) = <<>> /\ 0 <= Len(server')
  BY NothingYet
<1>4. fetch'[f].at # "idle" /\ fetch'[f].at # "served"
  OBVIOUS
<1> QED
  BY <1>2, <1>3, <1>4, Zenon DEF Fits

LEMMA PagesFitStep ==
    ASSUME StoreAssumptions, StoreTypes, PagesFit, [Next]_storeVars
    PROVE  PagesFit'
<1>0. /\ server \in Seq(Bubbles) /\ server' \in Seq(Bubbles) /\ Len(server) \in Nat
      /\ \A f \in Fetchers : fetch[f] \in Fetches
  BY TypesStep DEF StoreTypes
<1>a. ASSUME NEW f \in Fetchers, UNCHANGED server, fetch'[f] = fetch[f] PROVE Fits(f)' <=> Fits(f)
  BY <1>a, Zenon DEF Fits, Before
<1>b. ASSUME NEW f \in Fetchers, fetch'[f] = NoFetch PROVE Fits(f)'
  BY <1>b, Zenon DEF Fits
<1>c. ASSUME NEW f \in Fetchers, NEW r, fetch' = [fetch EXCEPT ![f] = r],
             UNCHANGED server, calm' \subseteq calm \cup {f}, ~ mixed' => ~ mixed,
             (f \in calm' \/ ~ mixed') => Fits(f)'
      PROVE  PagesFit'
  <2>1. \A g \in Fetchers : g # f => fetch'[g] = fetch[g]
    BY <1>c DEF StoreTypes
  <2>2. ASSUME NEW g \in Fetchers, g \in calm' \/ ~ mixed' PROVE Fits(g)'
    <3>1. CASE g = f
      BY <1>c, <2>2, <3>1, Zenon
    <3>2. CASE g # f
      <4>1. g \in calm \/ ~ mixed
        BY <1>c, <2>2, <3>2
      <4> QED
        BY <1>a, <1>c, <2>1, <3>2, <4>1, Zenon DEF PagesFit
    <3> QED
      BY <3>1, <3>2
  <2> QED
    BY <2>2, Zenon DEF PagesFit
<1>d. ASSUME UNCHANGED <<server, fetch, calm, mixed>> PROVE PagesFit'
  BY <1>a, <1>d, Zenon DEF PagesFit
<1>e. ASSUME NEW n, NEW t, BornAt(n, t), UNCHANGED fetch PROVE PagesFit'
  <2> SUFFICES ASSUME NEW f \in Fetchers, f \in calm' \/ ~ mixed' PROVE Fits(f)'
    BY Zenon DEF PagesFit
  <2>1. ~ mixed /\ ~ BetweenPages(f)
    BY <1>e, Zenon DEF BornAt
  <2>2. Fits(f) /\ fetch[f] \in Fetches /\ fetch[f].at # "served" /\ ~ (fetch[f].page > 1)
    BY <2>1, <1>0, Zenon DEF BetweenPages, PagesFit
  <2>3. CASE fetch[f] = NoFetch
    BY <1>b, <1>e, <2>3, Zenon
  <2>4. CASE fetch[f] # NoFetch
    <3>1. /\ fetch[f].at = "asked" /\ fetch[f].page = 1
      BY <2>2, <2>4 DEF Fits, Fetches
    <3>2. PageLimit \in Nat
      BY DEF StoreAssumptions, PagesAssumption
    <3>3. Before(f) = 0
      BY <3>1, <3>2 DEF Before
    <3>4. fetch[f].mapped = <<>> /\ fetch[f].total = 0 /\ fetch[f].items = <<>>
      BY <1>0, <2>2, <2>4, <3>1, <3>3, NothingYet, Zenon DEF Fits
    <3>5. PICK r : r = fetch[f]
      OBVIOUS
    <3>6. fetch'[f] = r
      BY <1>e, <3>5, Zenon
    <3>7. Fits(f)'
      BY <1>0, <3>1, <3>4, <3>5, <3>6, Begun, Zenon
    <3> QED
      BY <3>7
  <2> QED
    BY <2>3, <2>4
<1>1. ASSUME NEW t \in About, ServerGains(t) PROVE PagesFit'
  <2>1. UNCHANGED fetch
    BY <1>1, Zenon DEF ServerGains
  <2>2. \E n \in Bubbles : BornAt(n, t)
    BY <1>1, Birth DEF ServerGains
  <2> QED
    BY <1>e, <2>1, <2>2, Zenon
<1>2. ASSUME NEW w \in Writers, ServeCreate(w) PROVE PagesFit'
  <2>1. UNCHANGED fetch
    BY <1>2, Zenon DEF ServeCreate
  <2>2. \E n : BornAt(n, work[w].trade)
    BY <1>2, Creating, Zenon
  <2> QED
    BY <1>e, <2>1, <2>2, Zenon
<1>3. ASSUME NEW f \in Fetchers, ServePage(f) PROVE PagesFit'
  <2>1. UNCHANGED <<server, calm>> /\ (~ mixed' => ~ mixed) /\ fetch[f].at = "asked"
    BY <1>3, Zenon DEF ServePage
  <2>2. PICK r \in Fetches :
           /\ fetch' = [fetch EXCEPT ![f] = r]
           /\ r.at = "served" /\ r.page = fetch[f].page
           /\ r.mapped = fetch[f].mapped /\ r.total = fetch[f].total
           /\ r.count = Len(server)
           /\ r.items = SubSeq(server, Before(f) + 1, Smaller(Before(f) + PageLimit, Len(server)))
    BY <1>3, Serving, Zenon
  <2>3. fetch'[f] = r
    BY <2>2 DEF StoreTypes
  <2>4. ASSUME Fits(f) PROVE Fits(f)'
    <3>1. fetch[f] # NoFetch
      BY <2>1, IdleLoad
    <3>2. Before(f)' = Before(f)
      BY <2>2, <2>3, Zenon DEF Before
    <3>3. /\ Before(f) <= Len(server)
          /\ fetch[f].mapped = SubSeq(server, 1, Before(f))
          /\ fetch[f].total = IF fetch[f].page = 1 THEN 0 ELSE Len(server)
      BY <2>4, <3>1, Zenon DEF Fits
    <3>4. r.at # "idle"
      BY <2>2
    <3> QED
      BY <2>1, <2>2, <2>3, <3>2, <3>3, <3>4, Zenon DEF Fits
  <2>5. f \in calm' \/ ~ mixed' => Fits(f)
    BY <2>1, Zenon DEF PagesFit
  <2>6. calm' \subseteq calm \cup {f}
    BY <2>1
  <2> QED
    BY <1>c, <2>1, <2>2, <2>4, <2>5, <2>6, Zenon
<1>4. ASSUME NEW f \in Fetchers, StartFetch(f) PROVE PagesFit'
  <2>1. UNCHANGED <<server, mixed>> /\ calm' = calm \cup {f}
    BY <1>4, Zenon DEF StartFetch
  <2>2. PICK r \in Fetches :
              /\ fetch' = [fetch EXCEPT ![f] = r]
              /\ r.at = "asked" /\ r.page = 1 /\ r.mapped = <<>> /\ r.total = 0
              /\ r.items = <<>>
    BY <1>4, Starting, Zenon
  <2>3. fetch'[f] = r
    BY <2>2 DEF StoreTypes
  <2>4. Fits(f)'
    <3>1. server' \in Seq(Bubbles)
      BY <1>0
    <3> QED
      BY <2>2, <2>3, <3>1, Begun, Zenon
  <2>5. calm' \subseteq calm \cup {f}
    BY <2>1
  <2> QED
    BY <1>c, <2>1, <2>2, <2>4, <2>5, Zenon
<1>5. ASSUME NEW f \in Fetchers, fetch' = [fetch EXCEPT ![f] = NoFetch],
             UNCHANGED <<server, calm, mixed>>
      PROVE  PagesFit'
  <2>1. fetch'[f] = NoFetch /\ calm' \subseteq calm \cup {f}
    BY <1>5 DEF StoreTypes
  <2> QED
    BY <1>b, <1>c, <1>5, <2>1, Zenon
<1>6. ASSUME NEW f \in Fetchers, ReceivePage(f) PROVE PagesFit'
  <2>1. UNCHANGED <<server, calm, mixed>> /\ fetch[f].at = "served"
    BY <1>6, Zenon DEF ReceivePage
  <2>2. CASE Ended(f)
    BY <1>5, <2>1, <2>2, Zenon DEF Ended
  <2>3. CASE GoesOn(f)
    <3>1. PICK r \in Fetches :
             /\ fetch' = [fetch EXCEPT ![f] = r]
             /\ r.at = "asked" /\ r.page = fetch[f].page + 1
             /\ r.mapped = Gathered(f) /\ r.total = Counted(f)
             /\ r.items = <<>> /\ r.count = 0
      BY <2>3, Zenon DEF GoesOn
    <3>2. fetch'[f] = r
      BY <3>1 DEF StoreTypes
    <3>3. ASSUME Fits(f) PROVE Fits(f)'
      <4>1. PICK b \in Nat :
               /\ b = Smaller(Before(f) + PageLimit, Len(server)) /\ b <= Len(server)
               /\ Gathered(f) = SubSeq(server, 1, b)
               /\ Counted(f) = Len(server)
               /\ fetch[f].items # <<>> => Len(server) > 0
        BY <2>1, <3>3, Gathering
      <4>2. /\ Before(f) \in Nat /\ PageLimit \in Nat /\ fetch[f].page \in Nat /\ fetch[f].page >= 1
            /\ Before(f) + PageLimit = fetch[f].page * PageLimit
        <5>1. fetch[f].page \in 1 .. PageCap + 1 /\ PageLimit \in Nat /\ PageCap \in Nat
          BY <1>0 DEF Fetches, StoreAssumptions, PagesAssumption
        <5>2. fetch[f].page \in Nat /\ fetch[f].page >= 1
          BY <5>1
        <5> QED
          BY <5>1, <5>2, PagesBefore, Zenon DEF StoreTypes
      <4>3. fetch[f].page * PageLimit < Len(server)
        BY <2>3, <4>1, Zenon DEF GoesOn
      <4>4. b = Before(f) + PageLimit
        <5>1. Before(f) + PageLimit < Len(server)
          BY <4>2, <4>3, Zenon
        <5> QED
          BY <1>0, <4>1, <4>2, <5>1 DEF Smaller
      <4>5. Before(f)' = b
        <5>1. r.page - 1 = fetch[f].page
          BY <3>1, <4>2
        <5>2. Before(f)' = (r.page - 1) * PageLimit
          BY <3>2, Zenon DEF Before
        <5> QED
          BY <4>2, <4>4, <5>1, <5>2, Zenon
      <4>6. r.page # 1 /\ r.at # "idle" /\ r.at # "served"
        BY <3>1, <4>2
      <4> QED
        BY <2>1, <3>1, <3>2, <4>1, <4>5, <4>6, Zenon DEF Fits
    <3>4. f \in calm' \/ ~ mixed' => Fits(f)
      BY <2>1, Zenon DEF PagesFit
    <3>5. calm' \subseteq calm \cup {f}
      BY <2>1
    <3> QED
      BY <1>c, <2>1, <3>1, <3>3, <3>4, <3>5, Zenon
  <2> QED
    BY <1>6, <2>2, <2>3, Receiving
<1>7. ASSUME NEW f \in Fetchers, FetchFails(f) PROVE PagesFit'
  BY <1>5, <1>7, Zenon DEF FetchFails
<1>8. ResetAndReload => PagesFit'
  <2>1. ASSUME ResetAndReload PROVE \A f \in Fetchers : fetch'[f] = NoFetch
    BY <2>1 DEF ResetAndReload
  <2> QED
    BY <1>b, <2>1, Zenon DEF PagesFit
<1>9. /\ \A w \in Writers : Compose(w) \/ NextTrade(w) \/ Patched(w) => UNCHANGED <<server, fetch, calm, mixed>>
      /\ \A w \in Writers : CreateAnswered(w) \/ CreateFails(w) => UNCHANGED <<server, fetch, calm, mixed>>
      /\ \A w \in Writers : \A csv \in Files : ImportTrades(w, csv) => UNCHANGED <<server, fetch, calm, mixed>>
      /\ \A b \in Bubbles : DeleteBubble(b) => UNCHANGED <<server, fetch, calm, mixed>>
      /\ AddBubble \/ ClearAll \/ ExportBubbles \/ ImportBubbles \/ UNCHANGED storeVars
            => UNCHANGED <<server, fetch, calm, mixed>>
  BY Zenon DEF Compose, NextTrade, Patched, CreateAnswered, CreateFails, ImportTrades, DeleteBubble,
     AddBubble, ClearAll, ExportBubbles, ImportBubbles, storeVars
<1> QED
  BY <1>d, <1>1, <1>2, <1>3, <1>4, <1>6, <1>7, <1>8, <1>9, Zenon DEF Next

\* A load during which the server did not change ends with exactly the bubbles of the server,
\* up to the last page it may ask for (bubbleStore.ts:160-217).
THEOREM LoadExact == ASSUME StoreAssumptions PROVE Spec => LoadIsExact
<1>1. Init => PagesFit
  BY Zenon DEF Init, PagesFit, Fits
<1>2. StoreTypes /\ PagesFit /\ [Next]_storeVars => PagesFit'
  BY PagesFitStep
<1>3. Spec => []PagesFit
  BY <1>1, <1>2, Stored, PTL DEF Spec
<1>4. StoreTypes /\ PagesFit /\ [Next]_storeVars => [LoadsExactly]_storeVars
  <2> SUFFICES ASSUME StoreTypes, PagesFit, NEW f \in Fetchers,
                      ReceivePage(f), fetch'[f].at = "idle", f \in calm
               PROVE  /\ list' = SubSeq(server, 1, Smaller(Len(server), (PageCap + 1) * PageLimit))
                      /\ total' = Len(server)
    BY Zenon DEF LoadsExactly
  <2>1. Fits(f)
    BY DEF PagesFit
  <2>2. ~ GoesOn(f)
    <3>1. ASSUME NEW r, fetch' = [fetch EXCEPT ![f] = r] PROVE fetch'[f] = r
      BY <3>1 DEF StoreTypes
    <3>2. "asked" # "idle"
      OBVIOUS
    <3> QED
      BY <3>1, <3>2, Zenon DEF GoesOn
  <2> QED
    BY <2>1, <2>2, Receiving, EndsExactly, Zenon
<1> QED
  BY <1>3, <1>4, Stored, PTL DEF Spec, LoadIsExact

-----------------------------------------------------------------------------
(* A bubble is listed once *)

\* What the browser has of the server's bubbles.
Keeps(b) == b \in Elements(list) \/ b \in Elements(file.bubbles) \/ \E f \in Fetchers : b \in Loaded(f)

\* The list and the file hold a bubble once, and not yet the one an answer will bring.
ListedOnce ==
    ~ mixed =>
        /\ Distinct(list) /\ Distinct(file.bubbles)
        /\ \A w \in Writers, b \in Bubbles : Awaits(w, b) =>
              ~ Keeps(b) /\ \A v \in Writers : Awaits(v, b) => v = w

LEMMA ListedInit == Init => ListedOnce
<1> SUFFICES ASSUME Init PROVE ListedOnce
  OBVIOUS
<1>1. list = <<>> /\ file.bubbles = <<>> /\ \A w \in Writers : work[w].at = "idle"
  BY IdleWork DEF Init, NoFile
<1> QED
  BY <1>1 DEF ListedOnce, Distinct, Awaits

LEMMA ListedStep ==
    ASSUME StoreAssumptions, StoreTypes, Births, PagesFit, ListedOnce, [Next]_storeVars, ~ mixed'
    PROVE  ListedOnce'
<1> DEFINE Loads(b) == \E f \in Fetchers : b \in Loaded(f)
           OnlyOne == \A w \in Writers, b \in Bubbles : Awaits(w, b)' =>
                         ~ Keeps(b)' /\ \A v \in Writers : Awaits(v, b)' => v = w
           Goal == OnlyOne /\ Distinct(list)' /\ Distinct(file.bubbles)'
<1>0. ~ mixed
  <2>1. \A n, t : BornAt(n, t) => ~ mixed
    BY Zenon DEF BornAt
  <2>2. \A t \in About : ServerGains(t) => ~ mixed
    BY <2>1, Birth, Zenon DEF ServerGains
  <2>3. \A w \in Writers : ServeCreate(w) => ~ mixed
    BY <2>1, Creating, Zenon
  <2>4. \A f \in Fetchers : ServePage(f) => ~ mixed
    BY Zenon DEF ServePage
  <2>5. /\ \A f \in Fetchers : StartFetch(f) \/ ReceivePage(f) \/ FetchFails(f) => UNCHANGED mixed
        /\ \A w \in Writers : Compose(w) \/ NextTrade(w) \/ Patched(w) => UNCHANGED mixed
        /\ \A w \in Writers : CreateAnswered(w) \/ CreateFails(w) => UNCHANGED mixed
        /\ \A w \in Writers : \A csv \in Files : ImportTrades(w, csv) => UNCHANGED mixed
        /\ \A b \in Bubbles : DeleteBubble(b) => UNCHANGED mixed
        /\ AddBubble \/ ClearAll \/ ExportBubbles \/ ImportBubbles \/ ResetAndReload \/ UNCHANGED storeVars
              => UNCHANGED mixed
    BY Zenon DEF StartFetch, ReceivePage, FetchFails, Compose, NextTrade, Patched,
       CreateAnswered, CreateFails, ImportTrades, DeleteBubble, AddBubble, ClearAll, ExportBubbles,
       ImportBubbles, ResetAndReload, storeVars
  <2> QED
    BY <2>2, <2>3, <2>4, <2>5, Zenon DEF Next
<1>p. /\ Distinct(list) /\ Distinct(file.bubbles)
      /\ \A w \in Writers, b \in Bubbles : Awaits(w, b) =>
            ~ Keeps(b) /\ \A v \in Writers : Awaits(v, b) => v = w
  BY <1>0, Zenon DEF ListedOnce
<1>q. list \in Seq(Bubbles) /\ server \in Seq(Bubbles) /\ file.bubbles \in Seq(Bubbles)
  BY DEF StoreTypes
\* the parts of Keeps and Awaits, each by itself
<1>l. UNCHANGED list => Distinct(list)' /\ \A b : (b \in Elements(list))' <=> b \in Elements(list)
  BY <1>p, Zenon
<1>x. UNCHANGED file => Distinct(file.bubbles)' /\ \A b : (b \in Elements(file.bubbles))' <=> b \in Elements(file.bubbles)
  BY <1>p, Zenon
<1>f. UNCHANGED fetch => \A b : Loads(b)' <=> Loads(b)
  BY DEF Loaded
<1>g. ASSUME NEW f \in Fetchers, NEW r, fetch' = [fetch EXCEPT ![f] = r], NEW b, Loads(b)'
      PROVE  Loads(b) \/ b \in Elements(r.mapped) \cup Elements(r.items)
  BY <1>g DEF Loaded, StoreTypes
<1>w. UNCHANGED work => \A w, b : Awaits(w, b)' <=> Awaits(w, b)
  BY Zenon DEF Awaits
<1>v. ASSUME NEW w \in Writers, NEW r, work' = [work EXCEPT ![w] = r], NEW v \in Writers, NEW b, Awaits(v, b)'
      PROVE  (v = w /\ r.at = "served" /\ r.id = b) \/ (v # w /\ Awaits(v, b))
  BY <1>v DEF Awaits, StoreTypes
<1>h. \A b : Keeps(b) <=> b \in Elements(list) \/ b \in Elements(file.bubbles) \/ Loads(b)
  BY Zenon DEF Keeps
<1>k. \A b : Keeps(b)' <=> (b \in Elements(list))' \/ (b \in Elements(file.bubbles))' \/ Loads(b)'
  BY Zenon DEF Keeps
<1> HIDE DEF Loads
\* nothing more is awaited and nothing new is kept
<1>a. ASSUME \A w \in Writers, b \in Bubbles : Awaits(w, b)' => Awaits(w, b),
             \A b \in Bubbles : Keeps(b)' => Keeps(b)
      PROVE  OnlyOne
  BY <1>p, <1>a, Zenon
<1>1. ASSUME NEW t \in About, ServerGains(t) PROVE Goal
  <2>1. UNCHANGED <<list, file, fetch, work>>
    BY <1>1, Zenon DEF ServerGains
  <2> QED
    BY <2>1, <1>l, <1>x, <1>f, <1>w, <1>h, <1>k, <1>a, Zenon
<1>2. ASSUME NEW f \in Fetchers, ServePage(f) PROVE Goal
  <2>1. UNCHANGED <<list, file, work>> /\ \A w \in Writers : work[w].at # "served"
    BY <1>2, Zenon DEF ServePage
  <2>2. \A w \in Writers, b \in Bubbles : ~ Awaits(w, b)'
    BY <2>1, <1>w, Zenon DEF Awaits
  <2> QED
    BY <2>1, <2>2, <1>l, <1>x, Zenon
<1>3. ASSUME NEW f \in Fetchers, StartFetch(f) PROVE Goal
  <2>1. UNCHANGED <<list, file, work>>
    BY <1>3, Zenon DEF StartFetch
  <2>2. PICK r \in Fetches :
           /\ fetch' = [fetch EXCEPT ![f] = r] /\ r.mapped = <<>> /\ r.items = <<>>
    BY <1>3, Starting, Zenon
  <2>3. Elements(r.mapped) = {} /\ Elements(r.items) = {}
    BY <2>2, ElementsOfNone, Zenon
  <2>4. \A b : Loads(b)' => Loads(b)
    BY <2>2, <2>3, <1>g, Zenon
  <2> QED
    BY <2>1, <2>4, <1>l, <1>x, <1>w, <1>h, <1>k, <1>a, Zenon
<1>4. ASSUME NEW f \in Fetchers, ReceivePage(f) PROVE Goal
  <2>1. UNCHANGED <<server, file, work>> /\ fetch[f].at = "served"
    BY <1>4, Zenon DEF ReceivePage
  <2>2. Elements(Gathered(f)) = Loaded(f) /\ (Ended(f) \/ GoesOn(f))
    BY <1>4, Receiving, Zenon DEF Loaded
  <2>3. \A b \in Elements(Gathered(f)) : Loads(b)
    BY <2>2, Zenon DEF Loads
  <2>4. CASE Ended(f)
    <3>1. list' = Gathered(f) /\ fetch' = [fetch EXCEPT ![f] = NoFetch]
      BY <2>4, Zenon DEF Ended
    <3>2. Elements(NoFetch.mapped) = {} /\ Elements(NoFetch.items) = {}
      BY IdleLoad, ElementsOfNone, Zenon
    <3>3. \A b : Loads(b)' => Loads(b)
      BY <3>1, <3>2, <1>g, Zenon
    <3>4. Distinct(list)'
      <4>1. PICK b \in Nat : b <= Len(server) /\ Gathered(f) = SubSeq(server, 1, b)
        <5>1. Fits(f)
          BY <1>0, Zenon DEF PagesFit
        <5> QED
          BY <2>1, <5>1, Gathering
      <4>2. 0 <= b /\ 0 \in Nat /\ Distinct(server)
        BY DEF Births
      <4>3. Distinct(SubSeq(server, 1, b))
        BY <1>q, <4>1, <4>2, Prefixes
      <4> QED
        BY <3>1, <4>1, <4>3, Zenon
    <3>5. \A b \in Elements(list') : Keeps(b)
      BY <2>3, <3>1, <1>h, Zenon
    <3>6. OnlyOne
      BY <2>1, <3>3, <3>5, <1>x, <1>w, <1>h, <1>k, <1>a, Zenon
    <3> QED
      BY <2>1, <3>4, <3>6, <1>x, Zenon
  <2>5. CASE GoesOn(f)
    <3>1. PICK r \in Fetches : /\ fetch' = [fetch EXCEPT ![f] = r]
                               /\ r.mapped = Gathered(f) /\ r.items = <<>> /\ UNCHANGED list
      BY <2>5, Zenon DEF GoesOn
    <3>2. Elements(r.items) = {} /\ Elements(r.mapped) = Elements(Gathered(f))
      BY <3>1, ElementsOfNone, Zenon
    <3>3. \A b : Loads(b)' => Loads(b)
      BY <2>3, <3>1, <3>2, <1>g, Zenon
    <3> QED
      BY <2>1, <3>1, <3>3, <1>l, <1>x, <1>w, <1>h, <1>k, <1>a, Zenon
  <2> QED
    BY <2>2, <2>4, <2>5, Zenon
<1>5. ASSUME NEW f \in Fetchers, FetchFails(f) PROVE Goal
  <2>1. UNCHANGED <<list, file, work>> /\ fetch' = [fetch EXCEPT ![f] = NoFetch]
    BY <1>5, Zenon DEF FetchFails
  <2>2. Elements(NoFetch.mapped) = {} /\ Elements(NoFetch.items) = {}
    BY IdleLoad, ElementsOfNone, Zenon
  <2>3. \A b : Loads(b)' => Loads(b)
    BY <2>1, <2>2, <1>g, Zenon
  <2> QED
    BY <2>1, <2>3, <1>l, <1>x, <1>w, <1>h, <1>k, <1>a, Zenon
<1>6. ASSUME NEW w \in Writers, NEW r, r.at # "served", work' = [work EXCEPT ![w] = r],
             UNCHANGED <<list, file, fetch>>
      PROVE  Goal
  <2>1. \A v \in Writers, b \in Bubbles : Awaits(v, b)' => Awaits(v, b)
    BY <1>6, <1>v, Zenon
  <2> QED
    BY <1>6, <2>1, <1>l, <1>x, <1>f, <1>h, <1>k, <1>a, Zenon
<1>7. ASSUME NEW w \in Writers, Compose(w) PROVE Goal
  <2>1. UNCHANGED <<list, file, fetch>>
    BY <1>7, Zenon DEF Compose
  <2>2. PICK r : work' = [work EXCEPT ![w] = r] /\ r.at = "asked"
    BY <1>7, Composing, Zenon
  <2> QED
    BY <1>6, <2>1, <2>2
<1>8. ASSUME NEW w \in Writers, NextTrade(w) PROVE Goal
  <2>1. UNCHANGED <<list, file, fetch>>
    BY <1>8, Zenon DEF NextTrade
  <2>2. PICK r : work' = [work EXCEPT ![w] = r] /\ r.at \in {"idle", "next", "putting", "asked"}
    BY <1>8, Taking
  <2> QED
    BY <1>6, <2>1, <2>2
<1>9. ASSUME NEW w \in Writers, Patched(w) PROVE Goal
  <2>1. UNCHANGED <<list, file, fetch>>
    BY <1>9, Zenon DEF Patched
  <2>2. PICK r : work' = [work EXCEPT ![w] = r] /\ r.at = "next"
    BY <1>9, Patching, Zenon
  <2> QED
    BY <1>6, <2>1, <2>2
<1>10. ASSUME NEW w \in Writers, ServeCreate(w) PROVE Goal
  <2>1. UNCHANGED <<list, file, fetch>>
    BY <1>10, Zenon DEF ServeCreate
  <2>2. PICK n \in Bubbles, r \in Works :
           /\ about[n] = Unborn
           /\ work' = [work EXCEPT ![w] = r] /\ r.id = n
    BY <1>10, Creating, ZenonT(40) DEF BornAt
  <2>3. ~ Held(n)
    BY <2>2, Zenon DEF Births
  <2>4. ~ Keeps(n) /\ \A v \in Writers : ~ Awaits(v, n)
    BY <2>3, Zenon DEF Held, Keeps
  <2>5. \A b : Keeps(b)' <=> Keeps(b)
    BY <2>1, <1>l, <1>x, <1>f, <1>h, <1>k, Zenon
  <2>6. ASSUME NEW v \in Writers, NEW b \in Bubbles, Awaits(v, b)'
        PROVE  ~ Keeps(b)' /\ \A u \in Writers : Awaits(u, b)' => u = v
    <3>1. (v = w /\ b = n) \/ (v # w /\ Awaits(v, b))
      BY <2>2, <2>6, <1>v, Zenon
    <3>2. CASE v = w /\ b = n
      BY <2>2, <2>4, <2>5, <3>2, <1>v, Zenon
    <3>3. CASE v # w /\ Awaits(v, b)
      <4>1. b # n
        BY <2>4, <3>3, Zenon
      <4> QED
        BY <2>2, <2>5, <3>3, <4>1, <1>v, <1>p, Zenon
    <3> QED
      BY <3>1, <3>2, <3>3, Zenon
  <2> QED
    BY <2>1, <2>6, <1>l, <1>x, Zenon
<1>11. ASSUME NEW w \in Writers, CreateAnswered(w) PROVE Goal
  <2>1. /\ UNCHANGED <<file, fetch>> /\ list' = Append(list, work[w].id)
        /\ Awaits(w, work[w].id)
    BY <1>11, Zenon DEF CreateAnswered, Awaits
  <2>2. PICK r : work' = [work EXCEPT ![w] = r] /\ r.at = "next"
    BY <1>11, Answering, Zenon
  <2>3. r.at # "served"
    BY <2>2
  <2>4. work[w].id \in Bubbles
    BY <1>11 DEF StoreTypes, Works, CreateAnswered
  <2>5. /\ Elements(list') = Elements(list) \cup {work[w].id}
        /\ Distinct(list) /\ work[w].id \notin Elements(list) => Distinct(list')
    BY <1>q, <2>1, <2>4, Appended
  <2>6. ~ Keeps(work[w].id)
    BY <2>1, <2>4, <1>p, Zenon
  <2>7. Distinct(list)'
    BY <2>5, <2>6, <1>p, <1>h, Zenon
  <2>8. ASSUME NEW v \in Writers, NEW b \in Bubbles, Awaits(v, b)'
        PROVE  ~ Keeps(b)' /\ \A u \in Writers : Awaits(u, b)' => u = v
    <3>1. v # w /\ Awaits(v, b)
      BY <2>2, <2>3, <2>8, <1>v, Zenon
    <3>2. b # work[w].id
      BY <2>1, <2>4, <3>1, <1>p, Zenon
    <3>3. ~ Keeps(b) /\ \A u \in Writers : Awaits(u, b) => u = v
      BY <3>1, <1>p, Zenon
    <3>4. ~ Keeps(b)'
      BY <2>1, <2>5, <3>2, <3>3, <1>x, <1>f, <1>h, <1>k, Zenon
    <3>5. \A u \in Writers : Awaits(u, b)' => u = v
      BY <2>2, <2>3, <3>3, <1>v, Zenon
    <3> QED
      BY <3>4, <3>5, Zenon
  <2> QED
    BY <2>1, <2>7, <2>8, <1>x, Zenon
<1>12. ASSUME NEW w \in Writers, CreateFails(w) PROVE Goal
  <2>1. UNCHANGED <<list, file, fetch>> /\ work' = [work EXCEPT ![w] = NoWork]
    BY <1>12, Zenon DEF CreateFails
  <2>2. NoWork.at # "served"
    BY IdleWork
  <2> QED
    BY <1>6, <2>1, <2>2
<1>13. ASSUME NEW w \in Writers, NEW csv \in Files, ImportTrades(w, csv) PROVE Goal
  <2>1. UNCHANGED <<list, file, fetch>>
    BY <1>13, Zenon DEF ImportTrades
  <2>2. PICK r : work' = [work EXCEPT ![w] = r] /\ r.at = "next"
    BY <1>13, Importing, ZenonT(40)
  <2> QED
    BY <1>6, <2>1, <2>2
<1>14. ASSUME AddBubble PROVE Goal
  <2>1. PICK n \in Bubbles : about[n] = Unborn /\ list' = Append(list, n)
    BY <1>14 DEF AddBubble, Unused
  <2>2. UNCHANGED <<file, fetch, work>>
    BY <1>14, Zenon DEF AddBubble
  <2>3. /\ Elements(list') = Elements(list) \cup {n}
        /\ Distinct(list) /\ n \notin Elements(list) => Distinct(list')
    BY <1>q, <2>1, Appended
  <2>4. ~ Held(n)
    BY <2>1, Zenon DEF Births
  <2>5. n \notin Elements(list) /\ \A v \in Writers : ~ Awaits(v, n)
    BY <2>4, Zenon DEF Held
  <2>6. Distinct(list)'
    BY <2>3, <2>5, <1>p, Zenon
  <2>7. \A b : Keeps(b)' => Keeps(b) \/ b = n
    BY <2>2, <2>3, <1>x, <1>f, <1>h, <1>k, Zenon
  <2>8. OnlyOne
    BY <2>2, <2>5, <2>7, <1>w, <1>p, Zenon
  <2> QED
    BY <2>2, <2>6, <2>8, <1>x, Zenon
<1>15. ASSUME NEW b \in Bubbles, DeleteBubble(b) PROVE Goal
  <2>1. UNCHANGED <<file, fetch, work>>
    BY <1>15, Zenon DEF DeleteBubble
  <2>2. Elements(list') \subseteq Elements(list) /\ (Distinct(list) => Distinct(list'))
    BY <1>15, Deleting
  <2>3. \A c : Keeps(c)' => Keeps(c)
    BY <2>1, <2>2, <1>x, <1>f, <1>h, <1>k, Zenon
  <2>4. OnlyOne
    BY <2>1, <2>3, <1>w, <1>a, Zenon
  <2> QED
    BY <2>1, <2>2, <2>4, <1>p, <1>x, Zenon
<1>16. ASSUME ClearAll PROVE Goal
  <2>1. UNCHANGED <<file, fetch, work>> /\ list' = <<>>
    BY <1>16, Zenon DEF ClearAll, ReplaceAll
  <2>2. Elements(list') = {} /\ Distinct(list)'
    <3>1. Distinct(<<>>)
      BY DEF Distinct
    <3> QED
      BY <2>1, <3>1, ElementsOfNone, Zenon
  <2>3. \A c : Keeps(c)' => Keeps(c)
    BY <2>1, <2>2, <1>x, <1>f, <1>h, <1>k, Zenon
  <2>4. OnlyOne
    BY <2>1, <2>3, <1>w, <1>a, Zenon
  <2> QED
    BY <2>1, <2>2, <2>4, <1>x, Zenon
<1>17. ASSUME ExportBubbles PROVE Goal
  <2>1. UNCHANGED <<list, fetch, work>>
    BY <1>17, Zenon DEF ExportBubbles
  <2>2. file'.bubbles = list
    BY <1>17 DEF ExportBubbles
  <2>3. Elements(file'.bubbles) = Elements(list) /\ Distinct(file.bubbles)'
    BY <2>2, <1>p, Zenon
  <2>4. \A c : Keeps(c)' => Keeps(c)
    BY <2>1, <2>3, <1>l, <1>f, <1>h, <1>k, Zenon
  <2>5. OnlyOne
    BY <2>1, <2>4, <1>w, <1>a, Zenon
  <2> QED
    BY <2>1, <2>3, <2>5, <1>l, Zenon
<1>18. ASSUME ImportBubbles PROVE Goal
  <2>1. UNCHANGED <<file, fetch, work>> /\ list' = file.bubbles
    BY <1>18, Zenon DEF ImportBubbles, ReplaceAll
  <2>2. Elements(list') = Elements(file.bubbles) /\ Distinct(list)'
    BY <2>1, <1>p, Zenon
  <2>3. \A c : Keeps(c)' => Keeps(c)
    BY <2>1, <2>2, <1>x, <1>f, <1>h, <1>k, Zenon
  <2>4. OnlyOne
    BY <2>1, <2>3, <1>w, <1>a, Zenon
  <2> QED
    BY <2>1, <2>2, <2>4, <1>x, Zenon
<1>19. ASSUME ResetAndReload PROVE Goal
  <2>1. UNCHANGED <<list, file>>
    BY <1>19, Zenon DEF ResetAndReload
  <2>2. work' = [w \in Writers |-> NoWork] /\ NoWork.at # "served"
    BY <1>19, IdleWork DEF ResetAndReload
  <2>3. ASSUME NEW w \in Writers, NEW b PROVE ~ Awaits(w, b)'
    BY <2>2 DEF Awaits
  <2> QED
    BY <2>1, <2>3, <1>l, <1>x, Zenon
<1>20. ASSUME UNCHANGED storeVars PROVE Goal
  <2>1. UNCHANGED <<list, file, fetch, work>>
    BY <1>20 DEF storeVars
  <2> QED
    BY <2>1, <1>l, <1>x, <1>f, <1>w, <1>h, <1>k, <1>a, Zenon
<1>21. Goal
  <2> HIDE DEF Goal
  <2> QED
    BY <1>1, <1>2, <1>3, <1>4, <1>5, <1>7, <1>8, <1>9, <1>10, <1>11, <1>12, <1>13, <1>14, <1>15,
       <1>16, <1>17, <1>18, <1>19, <1>20, Zenon DEF Next
<1> QED
  BY <1>21, Zenon DEF ListedOnce

\* The store counts what it lists, and lists it once, unless a page was served while the answer to
\* a creation was on its way or the server's list changed between two pages (lib/bubbleStore.ts).
THEOREM ListSound == ASSUME StoreAssumptions PROVE Spec => []ListIsSound
<1>1. Init => PagesFit /\ ListedOnce /\ TotalCoversList
  <2>1. Init => PagesFit
    BY Zenon DEF Init, PagesFit, Fits
  <2>2. Init => TotalCoversList
    BY DEF Init, TotalCoversList
  <2> QED
    BY <2>1, <2>2, ListedInit
<1>2. StoreTypes /\ Births /\ PagesFit /\ ListedOnce /\ TotalCoversList /\ [Next]_storeVars
         => (PagesFit /\ ListedOnce /\ TotalCoversList)'
  <2> SUFFICES ASSUME StoreTypes, Births, PagesFit, ListedOnce, TotalCoversList, [Next]_storeVars
               PROVE  PagesFit' /\ ListedOnce' /\ TotalCoversList'
    OBVIOUS
  <2>1. mixed' => ListedOnce'
    BY Zenon DEF ListedOnce
  <2>2. ~ mixed' => ListedOnce'
    BY ListedStep
  <2> QED
    BY <2>1, <2>2, PagesFitStep, TotalStep, Zenon
<1>3. StoreTypes /\ ListedOnce /\ TotalCoversList => ListIsSound
  <2> SUFFICES ASSUME StoreTypes, ListedOnce, TotalCoversList, ~ mixed
               PROVE  Cardinality(Elements(list)) = Len(list)
    BY Zenon DEF ListIsSound, TwiceOnlyIfMixed
  <2>1. list \in Seq(1 .. MaxBubbles) /\ MaxBubbles \in Nat
    BY DEF StoreTypes, Bubbles, StoreAssumptions, StoreBounds
  <2>2. Distinct(list)
    BY Zenon DEF ListedOnce
  <2> QED
    BY <2>1, <2>2, DistinctCounted
<1> QED
  BY <1>1, <1>2, <1>3, Stored, PTL DEF Spec

-----------------------------------------------------------------------------
(* One bubble per trade *)

LEMMA NoRepeats ==
    ASSUME NEW X, NEW s \in Seq(X), ~ Repeats(s)
    PROVE  Distinct(s)
<1>0. DOMAIN s = 1 .. Len(s) /\ Len(s) \in Nat
  OBVIOUS
<1>1. \A m \in Nat : IsFiniteSet(1 .. m) /\ Cardinality(1 .. m) = m
  BY FS_Interval
<1>2. IsFiniteSet(1 .. Len(s)) /\ Cardinality(1 .. Len(s)) = Len(s)
  BY <1>0, <1>1, Zenon
<1>3. s \in Surjection(1 .. Len(s), Elements(s))
  <2>1. s \in [1 .. Len(s) -> Elements(s)]
    BY <1>0 DEF Elements
  <2> QED
    BY <1>0, <2>1 DEF Surjection, Elements
<1>4. /\ IsFiniteSet(Elements(s)) /\ Cardinality(Elements(s)) <= Len(s)
      /\ Cardinality(Elements(s)) = Len(s) => s \in Injection(1 .. Len(s), Elements(s))
  BY <1>2, <1>3, FS_Surjection
<1>5. Cardinality(Elements(s)) \in Nat
  BY <1>4, FS_CardinalityType
<1>6. Cardinality(Elements(s)) = Len(s)
  <2>1. ~ (Cardinality(Elements(s)) < Len(s))
    BY DEF Repeats
  <2>2. Cardinality(Elements(s)) \in Nat /\ Len(s) \in Nat /\ Cardinality(Elements(s)) <= Len(s)
    BY <1>0, <1>4, <1>5
  <2> QED
    BY <2>1, <2>2
<1>7. s \in Injection(1 .. Len(s), Elements(s))
  BY <1>4, <1>6
<1> QED
  BY <1>0, <1>7 DEF Distinct, Injection, IsInjective

\* No two bubbles of the server are about one trade.
OneEach ==
    \A b, c \in Elements(server) : about[b] = about[c] /\ about[b] # Manual => b = c

\* An import asks only for trades the server has no bubble about.
AsksForNew(w) ==
    work[w].at # "idle" =>
        /\ Distinct(work[w].rest)
        /\ \A t \in Elements(work[w].rest) : t \notin work[w].known => t \notin TradesOf(server)
        /\ work[w].at = "asked" /\ work[w].trade # Manual =>
              work[w].trade \notin TradesOf(server) /\ work[w].trade \notin Elements(work[w].rest)

\* No two imports are at one trade.
ImportsApart == \A v, w \in Writers : \A t \in Busy(v) : v # w /\ t \in Busy(w) => t = Manual

Unrepeated == ~ excused => OneEach /\ (\A w \in Writers : AsksForNew(w)) /\ ImportsApart

LEMMA UnrepeatedInit == Init => Unrepeated
<1> SUFFICES ASSUME Init PROVE Unrepeated
  OBVIOUS
<1>1. server = <<>> /\ \A w \in Writers : work[w].at = "idle"
  BY IdleWork DEF Init
<1>2. Elements(server) = {}
  BY <1>1, ElementsOfNone, Zenon
<1> QED
  BY <1>1, <1>2, Zenon DEF Unrepeated, OneEach, AsksForNew, ImportsApart, Busy

LEMMA UnrepeatedStep ==
    ASSUME StoreAssumptions, StoreTypes, Births, Unrepeated, [Next]_storeVars, ~ excused'
    PROVE  Unrepeated'
<1> DEFINE Goal == OneEach' /\ (\A w \in Writers : AsksForNew(w))' /\ ImportsApart'
<1>0. ~ excused
  <2>1. /\ \A t \in About : ServerGains(t) => ~ excused
        /\ \A w \in Writers : \A csv \in Files : ImportTrades(w, csv) => ~ excused
    BY Zenon DEF ServerGains, ImportTrades
  <2>2. /\ \A f \in Fetchers : StartFetch(f) \/ ReceivePage(f) \/ FetchFails(f) \/ ServePage(f) => UNCHANGED excused
        /\ \A w \in Writers : Compose(w) \/ NextTrade(w) \/ Patched(w) => UNCHANGED excused
        /\ \A w \in Writers : ServeCreate(w) \/ CreateAnswered(w) \/ CreateFails(w) => UNCHANGED excused
        /\ \A b \in Bubbles : DeleteBubble(b) => UNCHANGED excused
        /\ AddBubble \/ ClearAll \/ ExportBubbles \/ ImportBubbles \/ ResetAndReload \/ UNCHANGED storeVars
              => UNCHANGED excused
    BY Zenon DEF StartFetch, ReceivePage, FetchFails, ServePage, Compose, NextTrade, Patched,
       ServeCreate, CreateAnswered, CreateFails, DeleteBubble, AddBubble, ClearAll, ExportBubbles,
       ImportBubbles, ResetAndReload, storeVars
  <2> QED
    BY <2>1, <2>2, Zenon DEF Next
<1>p. OneEach /\ (\A w \in Writers : AsksForNew(w)) /\ ImportsApart
  BY <1>0, Zenon DEF Unrepeated
<1>q. /\ server \in Seq(Bubbles) /\ Elements(server) \subseteq Bubbles
      /\ \A w \in Writers : work[w] \in Works /\ work[w].rest \in Seq(Trades) /\ work[w].trade \in About
      /\ about \in [Bubbles -> About \cup {Unborn}]
  <2>1. /\ server \in Seq(Bubbles) /\ \A w \in Writers : work[w] \in Works
        /\ about \in [Bubbles -> About \cup {Unborn}]
    BY DEF StoreTypes
  <2>2. Elements(server) \subseteq Bubbles
    BY <2>1, ElementsTyped
  <2>3. \A w \in Writers : work[w].rest \in Seq(Trades) /\ work[w].trade \in About
    BY <2>1 DEF Works
  <2> QED
    BY <2>1, <2>2, <2>3
\* nothing is born at the server
<1>s. ASSUME UNCHANGED server, \A b \in Elements(server) : about'[b] = about[b]
      PROVE  OneEach' /\ TradesOf(server)' = TradesOf(server)
  <2>1. OneEach'
    BY <1>p, <1>s, Zenon DEF OneEach
  <2>2. TradesOf(server)' = TradesOf(server)
    BY <1>s DEF TradesOf
  <2> QED
    BY <2>1, <2>2
\* a bubble is born about a trade that has none
<1>n. ASSUME NEW n \in Bubbles, NEW t \in About, BornAt(n, t), t = Manual \/ t \notin TradesOf(server)
      PROVE  /\ OneEach' /\ TradesOf(server)' \subseteq TradesOf(server) \cup {t}
             /\ t = Manual => TradesOf(server)' = TradesOf(server)
  <2>1. n \notin Elements(server)
    BY <1>n, Zenon DEF Births, Held, BornAt
  <2>2. /\ about'[n] = t /\ \A b \in Elements(server) : about'[b] = about[b]
        /\ Elements(server') = Elements(server) \cup {n}
    BY <1>n, <1>q, <2>1 DEF BornAt
  <2>3. \A b \in Elements(server) : about[b] # Manual => about[b] \in TradesOf(server)
    BY DEF TradesOf
  <2>4. OneEach'
    <3> SUFFICES ASSUME NEW b \in Elements(server'), NEW c \in Elements(server'),
                        about'[b] = about'[c], about'[b] # Manual
                 PROVE  b = c
      BY Zenon DEF OneEach
    <3>1. CASE b = n /\ c # n
      BY <1>n, <2>2, <2>3, <3>1
    <3>2. CASE b # n /\ c = n
      BY <1>n, <2>2, <2>3, <3>2
    <3>3. CASE b # n /\ c # n
      BY <1>p, <2>2, <3>3 DEF OneEach
    <3> QED
      BY <3>1, <3>2, <3>3
  <2>5. TradesOf(server)' = TradesOf(server) \cup ({t} \ {Manual})
    BY <2>1, <2>2 DEF TradesOf
  <2> QED
    BY <2>4, <2>5
<1>a. ASSUME TradesOf(server)' = TradesOf(server), OneEach', UNCHANGED work PROVE Goal
  BY <1>p, <1>a, Zenon DEF AsksForNew, ImportsApart, Busy
<1>b. ASSUME NEW w \in Writers, NEW r, work' = [work EXCEPT ![w] = r]
      PROVE  work'[w] = r /\ \A v \in Writers : v # w => work'[v] = work[v] /\ Busy(v)' = Busy(v)
  BY <1>b DEF StoreTypes, Busy
<1>c. ASSUME NEW w \in Writers, NEW r, work' = [work EXCEPT ![w] = r],
             \A t \in Busy(w)' : t \in Busy(w) \/ t = Manual
      PROVE  ImportsApart'
  <2>1. \A v \in Writers : v # w => Busy(v)' = Busy(v)
    BY <1>b, <1>c, Zenon
  <2>2. \A u, v \in Writers : \A t \in Busy(u) : u # v /\ t \in Busy(v) => t = Manual
    BY <1>p, Zenon DEF ImportsApart
  <2>3. ASSUME NEW u \in Writers, NEW v \in Writers, NEW t \in Busy(u)', u # v, t \in Busy(v)'
        PROVE  t = Manual
    <3>1. t \in Busy(u) \/ t = Manual
      BY <1>c, <2>1, <2>3, Zenon
    <3>2. t \in Busy(v) \/ t = Manual
      BY <1>c, <2>1, <2>3, Zenon
    <3> QED
      BY <2>2, <2>3, <3>1, <3>2, Zenon
  <2> QED
    BY <2>3, Zenon DEF ImportsApart
<1>d. ASSUME NEW w \in Writers, NEW r, work' = [work EXCEPT ![w] = r],
             UNCHANGED <<server, about>>, AsksForNew(w)', ImportsApart'
      PROVE  Goal
  <2>1. OneEach' /\ TradesOf(server)' = TradesOf(server)
    BY <1>d, <1>s, Zenon
  <2>2. ASSUME NEW v \in Writers, v # w PROVE AsksForNew(v)'
    <3>1. work'[v] = work[v]
      BY <1>b, <1>d, <2>2, Zenon
    <3>2. AsksForNew(v)
      BY <1>p, Zenon
    <3> QED
      BY <2>1, <3>1, <3>2, Zenon DEF AsksForNew
  <2> QED
    BY <1>d, <2>1, <2>2, Zenon
<1> HIDE DEF Goal
<1>1. ASSUME NEW t \in About, ServerGains(t) PROVE Goal
  <2>1. /\ UNCHANGED work /\ t \notin TradesOf(server)
        /\ \A w \in Writers : work[w].at # "idle" => t \notin Elements(work[w].rest) \cup {work[w].trade}
    BY <1>1 DEF ServerGains
  <2>2. PICK n \in Bubbles : BornAt(n, t)
    BY <1>1, Birth DEF ServerGains
  <2>3. OneEach' /\ TradesOf(server)' \subseteq TradesOf(server) \cup {t}
    BY <1>n, <2>1, <2>2
  <2>4. ASSUME NEW w \in Writers PROVE AsksForNew(w)'
    <3>1. work'[w] = work[w] /\ AsksForNew(w)
      BY <2>1, <1>p, Zenon
    <3>2. work[w].at # "idle" => /\ \A x \in Elements(work[w].rest) : x # t
                                 /\ work[w].trade # t
      BY <2>1
    <3>3. \A x : x # t /\ x \notin TradesOf(server) => x \notin TradesOf(server)'
      BY <2>3
    <3> QED
      BY <3>1, <3>2, <3>3, Zenon DEF AsksForNew
  <2>5. ImportsApart'
    BY <1>p, <2>1, Zenon DEF ImportsApart, Busy
  <2> QED
    BY <2>3, <2>4, <2>5, Zenon DEF Goal
<1>2. ASSUME NEW w \in Writers, Compose(w) PROVE Goal
  <2>1. UNCHANGED <<server, about>>
    BY <1>2, Zenon DEF Compose
  <2>2. PICK r : /\ work' = [work EXCEPT ![w] = r] /\ r.at = "asked" /\ r.trade = Manual /\ r.rest = <<>>
    BY <1>2, Composing, Zenon
  <2>3. work'[w] = r
    BY <1>b, <2>2, Zenon
  <2>4. Elements(r.rest) = {} /\ Distinct(r.rest)
    BY <2>2, ElementsOfNone DEF Distinct
  <2>5. AsksForNew(w)'
    BY <2>2, <2>3, <2>4, Zenon DEF AsksForNew
  <2>6. \A t \in Busy(w)' : t = Manual
    BY <2>2, <2>3, <2>4 DEF Busy
  <2> QED
    BY <1>c, <1>d, <2>1, <2>2, <2>5, <2>6, Zenon
<1>3. ASSUME NEW w \in Writers, work' = [work EXCEPT ![w] = NoWork], UNCHANGED <<server, about>> PROVE Goal
  <2>1. work'[w] = NoWork
    BY <1>b, <1>3, Zenon
  <2>2. AsksForNew(w)' /\ Busy(w)' = {}
    BY <2>1, IdleWork, Zenon DEF AsksForNew, Busy
  <2>3. \A t \in Busy(w)' : t = Manual
    BY <2>2
  <2> QED
    BY <1>c, <1>d, <1>3, <2>2, <2>3, Zenon
<1>4. ASSUME NEW w \in Writers, NextTrade(w) PROVE Goal
  <2>1. UNCHANGED <<server, about>> /\ work[w].at = "next"
    BY <1>4, Zenon DEF NextTrade
  <2>2. CASE work[w].rest = <<>>
    <3>1. work' = [work EXCEPT ![w] = NoWork]
      BY <1>4, <2>2, Zenon DEF NextTrade
    <3> QED
      BY <1>3, <2>1, <3>1, Zenon
  <2>3. CASE work[w].rest # <<>>
    <3>1. /\ Head(work[w].rest) \in Trades
          /\ Elements(work[w].rest) = {Head(work[w].rest)} \cup Elements(Tail(work[w].rest))
          /\ Distinct(work[w].rest) =>
                Distinct(Tail(work[w].rest)) /\ Head(work[w].rest) \notin Elements(Tail(work[w].rest))
      BY <1>q, <2>3, Taken
    <3>2. work[w].at # "idle"
      BY <2>1
    <3>3. /\ Distinct(work[w].rest)
          /\ \A t \in Elements(work[w].rest) : t \notin work[w].known => t \notin TradesOf(server)
      BY <1>p, <3>2, Zenon DEF AsksForNew
    <3>4. Busy(w) = Elements(work[w].rest) \cup {work[w].trade}
      BY <3>2, Zenon DEF Busy
    <3>5. TradesOf(server)' = TradesOf(server)
      BY <1>s, <2>1, Zenon
    <3>6. ASSUME NEW r, work' = [work EXCEPT ![w] = r], r.at \in {"next", "putting"},
                 r.trade = work[w].trade, r.rest = Tail(work[w].rest), r.known = work[w].known
          PROVE  Goal
      <4>1. work'[w] = r
        BY <1>b, <3>6, Zenon
      <4>2. r.at # "asked" /\ r.at # "idle"
        BY <3>6
      <4>3. AsksForNew(w)'
        BY <3>1, <3>3, <3>5, <3>6, <4>1, <4>2 DEF AsksForNew
      <4>4. \A t \in Busy(w)' : t \in Busy(w)
        BY <3>1, <3>4, <3>6, <4>1, <4>2 DEF Busy
      <4> QED
        BY <1>c, <1>d, <2>1, <3>6, <4>3, <4>4, Zenon
    <3>7. ASSUME NEW r, work' = [work EXCEPT ![w] = r], r.at = "asked",
                 Head(work[w].rest) \notin work[w].known,
                 r.trade = Head(work[w].rest), r.rest = Tail(work[w].rest), r.known = work[w].known
          PROVE  Goal
      <4>1. work'[w] = r
        BY <1>b, <3>7, Zenon
      <4>2. r.at # "idle"
        BY <3>7
      <4>3. AsksForNew(w)'
        BY <3>1, <3>3, <3>5, <3>7, <4>1, <4>2 DEF AsksForNew
      <4>4. \A t \in Busy(w)' : t \in Busy(w)
        BY <3>1, <3>4, <3>7, <4>1, <4>2 DEF Busy
      <4> QED
        BY <1>c, <1>d, <2>1, <3>7, <4>3, <4>4, Zenon
    <3>8. PICK r \in Works :
             /\ work' = [work EXCEPT ![w] = r]
             /\ \/ r.at = "idle" /\ r.known = {}
                \/ /\ r.at \in {"next", "putting"} /\ work[w].rest # <<>>
                   /\ r.trade = work[w].trade /\ r.rest = Tail(work[w].rest)
                   /\ r.known = work[w].known
                \/ /\ r.at = "asked" /\ work[w].rest # <<>>
                   /\ Head(work[w].rest) \notin work[w].known
                   /\ r.trade = Head(work[w].rest) /\ r.rest = Tail(work[w].rest)
                   /\ r.known = work[w].known
      BY <1>4, Taking, Zenon
    <3>9. CASE r.at = "idle"
      <4>1. work'[w] = r
        BY <1>b, <3>8, Zenon
      <4>2. AsksForNew(w)' /\ Busy(w)' = {}
        BY <3>9, <4>1, Zenon DEF AsksForNew, Busy
      <4>3. \A t \in Busy(w)' : t = Manual
        BY <4>2
      <4> QED
        BY <1>c, <1>d, <2>1, <3>8, <4>2, <4>3, Zenon
    <3> QED
      BY <3>6, <3>7, <3>8, <3>9, Zenon
  <2> QED
    BY <2>2, <2>3, Zenon
<1>5. ASSUME NEW w \in Writers, Patched(w) \/ CreateAnswered(w) PROVE Goal
  <2>1. UNCHANGED <<server, about>> /\ work[w].at # "idle"
    BY <1>5 DEF Patched, CreateAnswered
  <2>2. PICK r : /\ work' = [work EXCEPT ![w] = r]
                 /\ r.at = "next" /\ (r.trade = work[w].trade \/ r.trade = Manual)
                 /\ r.rest = work[w].rest /\ r.known = work[w].known
    BY <1>5, Patching, Answering, Zenon
  <2>3. work'[w] = r /\ r.at # "asked" /\ r.at # "idle"
    BY <1>b, <2>2
  <2>4. /\ Distinct(work[w].rest)
        /\ \A t \in Elements(work[w].rest) : t \notin work[w].known => t \notin TradesOf(server)
    BY <1>p, <2>1, Zenon DEF AsksForNew
  <2>5. TradesOf(server)' = TradesOf(server)
    BY <1>s, <2>1, Zenon
  <2>6. AsksForNew(w)'
    BY <2>2, <2>3, <2>4, <2>5, Zenon DEF AsksForNew
  <2>7. \A t \in Busy(w)' : t \in Busy(w) \/ t = Manual
    BY <2>1, <2>2, <2>3 DEF Busy
  <2> QED
    BY <1>c, <1>d, <2>1, <2>2, <2>6, <2>7, Zenon
<1>6. ASSUME NEW w \in Writers, ServeCreate(w) PROVE Goal
  <2>1. PICK n \in Bubbles, r \in Works :
           /\ BornAt(n, work[w].trade)
           /\ work' = [work EXCEPT ![w] = r]
           /\ r.at = "served" /\ r.trade = work[w].trade /\ r.rest = work[w].rest
           /\ r.known = work[w].known
    BY <1>6, Creating, Zenon
  <2>2. work[w].at = "asked"
    BY <1>6, Zenon DEF ServeCreate
  <2>3. work[w].at # "idle" /\ r.at # "idle" /\ r.at # "asked"
    BY <2>1, <2>2
  <2> PICK t \in About : t = work[w].trade
    BY <1>q
  <2>4. /\ Distinct(work[w].rest)
        /\ \A x \in Elements(work[w].rest) : x \notin work[w].known => x \notin TradesOf(server)
        /\ t = Manual \/ (t \notin TradesOf(server) /\ t \notin Elements(work[w].rest))
    BY <1>p, <2>2, <2>3, Zenon DEF AsksForNew
  <2>5. /\ OneEach' /\ TradesOf(server)' \subseteq TradesOf(server) \cup {t}
        /\ t = Manual => TradesOf(server)' = TradesOf(server)
    BY <1>n, <2>1, <2>4
  <2>6. work'[w] = r /\ \A v \in Writers : v # w => work'[v] = work[v]
    BY <1>b, <2>1, Zenon
  <2>7. \A x : x \notin TradesOf(server) /\ (t = Manual \/ x # t) => x \notin TradesOf(server)'
    BY <2>5
  <2>8. AsksForNew(w)'
    BY <2>1, <2>3, <2>4, <2>6, <2>7, Zenon DEF AsksForNew
  <2>9. t \in Busy(w)
    BY <2>3 DEF Busy
  <2>10. ASSUME NEW v \in Writers, v # w PROVE AsksForNew(v)'
    <3>1. \A x \in Busy(v) : t = Manual \/ x # t
      BY <1>p, <2>9, <2>10, Zenon DEF ImportsApart
    <3>2. work[v].at # "idle" => /\ \A x \in Elements(work[v].rest) : x \in Busy(v)
                                 /\ work[v].trade \in Busy(v)
      BY DEF Busy
    <3> QED
      BY <1>p, <2>6, <2>7, <2>10, <3>1, <3>2, Zenon DEF AsksForNew
  <2>11. \A x \in Busy(w)' : x \in Busy(w)
    BY <2>1, <2>3, <2>6, Zenon DEF Busy
  <2>12. ImportsApart'
    BY <1>c, <2>1, <2>11, Zenon
  <2> QED
    BY <2>5, <2>8, <2>10, <2>12, Zenon DEF Goal
<1>7. ASSUME NEW w \in Writers, NEW csv \in Files, ImportTrades(w, csv) PROVE Goal
  <2>1. /\ UNCHANGED <<server, about>> /\ ~ Repeats(csv)
        /\ TradesOf(server) \cap Elements(csv) \subseteq TradesOf(list)
        /\ \A v \in Writers : Busy(v) \cap Elements(csv) = {}
    BY <1>7, Zenon DEF ImportTrades
  <2>2. PICK r \in Works :
           /\ work' = [work EXCEPT ![w] = r]
           /\ r.at = "next" /\ r.trade = Manual /\ r.rest = csv /\ r.known = TradesOf(list)
    BY <1>7, Importing
  <2>3. work'[w] = r /\ r.at # "asked" /\ r.at # "idle"
    BY <1>b, <2>2
  <2>4. Distinct(csv)
    <3>1. csv \in Seq(Trades)
      BY DEF StoreAssumptions, TradesAssumption
    <3> QED
      BY <2>1, <3>1, NoRepeats
  <2>5. TradesOf(server)' = TradesOf(server)
    BY <1>s, <2>1, Zenon
  <2>6. \A t \in Elements(csv) : t \notin TradesOf(list) => t \notin TradesOf(server)
    BY <2>1
  <2>7. AsksForNew(w)'
    BY <2>2, <2>3, <2>4, <2>5, <2>6, Zenon DEF AsksForNew
  <2>8. Busy(w)' = Elements(csv) \cup {Manual}
    BY <2>2, <2>3, Zenon DEF Busy
  <2>9. \A v \in Writers : v # w => Busy(v)' = Busy(v)
    BY <1>b, <2>2, Zenon
  <2>10. ASSUME NEW u \in Writers, NEW v \in Writers, NEW t \in Busy(u)', u # v, t \in Busy(v)'
         PROVE  t = Manual
    <3>1. CASE u = w
      BY <2>1, <2>8, <2>9, <2>10, <3>1
    <3>2. CASE v = w
      BY <2>1, <2>8, <2>9, <2>10, <3>2
    <3>3. CASE u # w /\ v # w
      BY <1>p, <2>9, <2>10, <3>3, ZenonT(40) DEF ImportsApart
    <3> QED
      BY <3>1, <3>2, <3>3
  <2>11. ImportsApart'
    BY <2>10, Zenon DEF ImportsApart
  <2> QED
    BY <1>d, <2>1, <2>2, <2>7, <2>11, Zenon
<1>8. ASSUME NEW w \in Writers, CreateFails(w) PROVE Goal
  BY <1>3, <1>8, Zenon DEF CreateFails
<1>9. ASSUME ResetAndReload PROVE Goal
  <2>1. UNCHANGED <<server, about>>
    BY <1>9, Zenon DEF ResetAndReload
  <2>2. \A w \in Writers : work'[w].at = "idle"
    BY <1>9, IdleWork DEF ResetAndReload
  <2>3. OneEach'
    BY <1>s, <2>1, Zenon
  <2>4. \A w \in Writers : Busy(w)' = {}
    BY <2>2, Zenon DEF Busy
  <2>5. ImportsApart'
    BY <2>4 DEF ImportsApart
  <2>6. \A w \in Writers : AsksForNew(w)'
    BY <2>2, Zenon DEF AsksForNew
  <2> QED
    BY <2>3, <2>5, <2>6, Zenon DEF Goal
<1>10. ASSUME AddBubble PROVE Goal
  <2>1. PICK n \in Bubbles : about[n] = Unborn /\ about' = [about EXCEPT ![n] = Manual]
    BY <1>10 DEF AddBubble, Unused
  <2>2. UNCHANGED <<server, work>>
    BY <1>10, Zenon DEF AddBubble
  <2>3. n \notin Elements(server)
    BY <2>1, Zenon DEF Births, Held
  <2>4. \A b \in Elements(server) : about'[b] = about[b]
    BY <1>q, <2>1, <2>3
  <2> QED
    BY <1>a, <1>s, <2>2, <2>4, Zenon
<1>11. ASSUME UNCHANGED <<server, about, work>> PROVE Goal
  BY <1>a, <1>s, <1>11, Zenon
<1>12. /\ \A f \in Fetchers : StartFetch(f) \/ ReceivePage(f) \/ FetchFails(f) \/ ServePage(f)
                                 => UNCHANGED <<server, about, work>>
       /\ \A b \in Bubbles : DeleteBubble(b) => UNCHANGED <<server, about, work>>
       /\ ClearAll \/ ExportBubbles \/ ImportBubbles \/ UNCHANGED storeVars
             => UNCHANGED <<server, about, work>>
  BY Zenon DEF StartFetch, ReceivePage, FetchFails, ServePage, DeleteBubble, ClearAll, ExportBubbles,
     ImportBubbles, storeVars
<1>13. Goal
  BY <1>1, <1>2, <1>4, <1>5, <1>6, <1>7, <1>8, <1>9, <1>10, <1>11, <1>12, Zenon DEF Next
<1> QED
  BY <1>13, Zenon DEF Unrepeated, Goal

\* An import gives no trade a second bubble at the server, unless the file repeats it, the list was
\* behind the server, or another import was at the same trade (bubbleStore.ts:306-360).
THEOREM OneBubble == ASSUME StoreAssumptions PROVE Spec => []OneBubblePerTrade
<1>1. StoreTypes /\ Births /\ Unrepeated /\ [Next]_storeVars => Unrepeated'
  <2>1. excused' => Unrepeated'
    BY Zenon DEF Unrepeated
  <2> QED
    BY <2>1, UnrepeatedStep, Zenon
<1>2. StoreTypes /\ Births /\ Unrepeated => OneBubblePerTrade
  <2> SUFFICES ASSUME StoreTypes, Births, Unrepeated, ~ excused,
                      NEW i \in DOMAIN server, NEW j \in DOMAIN server,
                      about[server[i]] = about[server[j]], about[server[i]] # Manual
               PROVE  i = j
    BY Zenon DEF OneBubblePerTrade
  <2>1. server[i] \in Elements(server) /\ server[j] \in Elements(server)
    BY DEF Elements
  <2>2. server[i] = server[j]
    BY <2>1, Zenon DEF Unrepeated, OneEach
  <2> QED
    BY <2>2, Zenon DEF Births, Distinct
<1> QED
  BY <1>1, <1>2, UnrepeatedInit, Stored, PTL DEF Spec

-----------------------------------------------------------------------------
(* The library over the store *)

LibraryAssumptions == StoreAssumptions /\ PageAssumption

\* The library takes steps of the store only.
LEMMA LibrarySteps == [PageNext]_<<storeVars, pageVars>> => [Next]_storeVars
<1>1. \A t \in About : ServerGains(t) => Next
  BY Zenon DEF Next
<1>2. \A f \in Fetchers : StartFetch(f) \/ ServePage(f) \/ ReceivePage(f) \/ FetchFails(f) => Next
  BY Zenon DEF Next
<1>3. \A f \in Fetchers : LoadStep(f) \/ Refresh(f) => Next
  BY <1>2, Zenon DEF LoadStep, Refresh
<1>4. \A f \in Fetchers : \A b : Open(b, f) => Next
  BY <1>2, Zenon DEF Open
<1>5. \A f : SetFilter(f) => UNCHANGED storeVars
  BY Zenon DEF SetFilter
<1>6. SetSort => UNCHANGED storeVars
  BY Zenon DEF SetSort
<1>7. Move => UNCHANGED storeVars
  BY Zenon DEF Move, Turn
<1>8. \A b \in Bubbles : Toggle(b) => UNCHANGED storeVars
  BY Zenon DEF Toggle
<1>9. \A b \in Bubbles : Delete(b) => Next
  BY Zenon DEF Delete, Next
<1>10. \A agreed : ClearEverything(agreed) => Next \/ UNCHANGED storeVars
  BY Zenon DEF ClearEverything, Next
<1>11. UNCHANGED <<storeVars, pageVars>> => UNCHANGED storeVars
  BY Zenon
<1> QED
  BY <1>1, <1>3, <1>4, <1>5, <1>6, <1>7, <1>8, <1>9, <1>10, <1>11, Zenon DEF PageNext

LEMMA Division ==
    ASSUME NEW n \in Nat, NEW q \in Nat \ {0}
    PROVE  (n + q - 1) \div q \in Nat /\ ((n + q - 1) \div q) * q <= n + q - 1
<1>1. PICK m \in Nat : m = n + q - 1
  <2>1. n + q - 1 \in Nat
    OBVIOUS
  <2> QED
    BY <2>1
<1>2. m \div q \in Nat /\ q * (m \div q) <= m
  OBVIOUS
<1>3. (m \div q) * q = q * (m \div q)
  BY <1>2
<1> QED
  BY <1>1, <1>2, <1>3, Zenon

\* Filtering a list of bubbles.
LEMMA Filtering ==
    ASSUME LibraryAssumptions, StoreTypes
    PROVE  /\ Filtered(list, filter) \in Seq(Bubbles) /\ Len(Filtered(list, filter)) \in Nat
           /\ Pages \in Nat /\ Pages >= 1
           /\ Len(Filtered(list, filter)) >= 1 => (Pages - 1) * PageSize + 1 <= Len(Filtered(list, filter))
<1>1. list \in Seq(Bubbles) /\ PageSize \in Nat \ {0}
  BY DEF StoreTypes, LibraryAssumptions, PageAssumption
<1>2. Filtered(list, filter) \in Seq(Bubbles)
  <2>1. PICK S : S = {i \in DOMAIN list : Kept(list[i], filter)}
    OBVIOUS
  <2>2. S \in SUBSET DOMAIN list
    BY <2>1
  <2>3. Selected(list, S) \in Seq(Bubbles)
    <3>1. SelectionIs(Bubbles, list, S)
      BY <1>1, <2>2, SelectedIs, Zenon
    <3> QED
      BY <3>1, Zenon DEF SelectionIs
  <2> QED
    BY <2>1, <2>3, Zenon DEF Filtered
<1>3. PICK n \in Nat : n = Len(Filtered(list, filter))
  BY <1>2
<1>4. PICK d \in Nat : d = (n + PageSize - 1) \div PageSize /\ d * PageSize <= n + PageSize - 1
  BY <1>1, Division
<1>5. Pages = Larger(1, d)
  BY <1>3, <1>4, Zenon DEF Pages, TotalPages
<1>6. Pages \in Nat /\ Pages >= 1 /\ (Pages = 1 \/ Pages = d)
  BY <1>5 DEF Larger
<1>7. n >= 1 => (Pages - 1) * PageSize + 1 <= n
  <2>1. CASE Pages = 1
    <3>1. (Pages - 1) * PageSize = 0
      BY <1>1, <2>1
    <3> QED
      BY <3>1
  <2>2. CASE Pages = d /\ d >= 1
    <3>1. PICK c \in Nat : d = c + 1
      <4>1. d - 1 \in Nat /\ d = (d - 1) + 1
        BY <2>2
      <4> QED
        BY <4>1
    <3>2. (c + 1) * PageSize = c * PageSize + PageSize /\ c * PageSize \in Nat
      BY <1>1
    <3>3. c * PageSize + PageSize <= n + PageSize - 1
      BY <1>4, <3>1, <3>2, Zenon
    <3>4. c * PageSize + 1 <= n
      BY <1>1, <3>2, <3>3
    <3>5. Pages - 1 = c
      BY <2>2, <3>1
    <3> QED
      BY <3>4, <3>5, Zenon
  <2> QED
    BY <1>6, <2>1, <2>2
<1> QED
  BY <1>2, <1>3, <1>6, <1>7

\* The same list, filtered in the same way, has as many pages.
LEMMA SamePages ==
    ASSUME UNCHANGED <<list, filter>>, \A b \in Elements(list) : about'[b] = about[b]
    PROVE  Pages' = Pages
<1>1. \A i \in DOMAIN list : Kept(list[i], filter)' <=> Kept(list[i], filter)
  BY Zenon DEF Kept, Action, Elements
<1>2. {i \in DOMAIN list : Kept(list[i], filter)}' = {i \in DOMAIN list : Kept(list[i], filter)}
  BY <1>1
<1>3. Filtered(list, filter)' = Filtered(list, filter)
  BY <1>2, Zenon DEF Filtered
<1> QED
  BY <1>3, Zenon DEF Pages, TotalPages

ViewInv ==
    /\ page \in Nat \ {0} /\ opens \in Nat
    /\ opens = 0 => ~ arrived /\ page = 1
    /\ LinkHonoured
    /\ shrunk \/ page <= Pages

\* A page there is has something on it.
LEMMA SomethingThere ==
    ASSUME LibraryAssumptions, StoreTypes, page \in Nat \ {0}, page <= Pages, Filtered(list, filter) # <<>>
    PROVE  Paged # <<>>
<1>1. /\ Filtered(list, filter) \in Seq(Bubbles)
      /\ Pages \in Nat /\ Pages >= 1
      /\ Len(Filtered(list, filter)) >= 1 => (Pages - 1) * PageSize + 1 <= Len(Filtered(list, filter))
  BY Filtering
<1>2. PICK n \in Nat : n = Len(Filtered(list, filter)) /\ n >= 1
  BY <1>1
<1>3. PICK l \in Nat \ {0} : l = PageSize
  BY DEF LibraryAssumptions, PageAssumption
<1>4. PICK c \in Nat : page = c + 1
  <2>1. page - 1 \in Nat /\ page = (page - 1) + 1
    OBVIOUS
  <2> QED
    BY <2>1
<1>5. PICK d \in Nat : Pages - 1 = c + d
  <2>1. Pages - 1 - c \in Nat /\ Pages - 1 = c + (Pages - 1 - c)
    BY <1>1, <1>4
  <2> QED
    BY <2>1
<1>6. (c + d) * l + 1 <= n
  BY <1>1, <1>2, <1>3, <1>5, Zenon
<1>7. (c + d) * l = c * l + d * l /\ c * l \in Nat /\ d * l \in Nat
  OBVIOUS
<1>8. c * l + 1 <= n
  BY <1>6, <1>7
<1>9. (c + 1) * l = c * l + l
  OBVIOUS
<1>10. PICK a \in Nat : a = c * l
  BY <1>7
<1>11. PICK s \in Seq(Bubbles) : s = Sorted(Filtered(list, filter)) /\ Len(s) = n
  <2>1. CASE newest
    BY <1>1, <1>2, <2>1 DEF Sorted
  <2>2. CASE ~ newest
    <3>1. PICK t \in Seq(Bubbles) : t = Filtered(list, filter) /\ Len(t) = n
      BY <1>1, <1>2
    <3>2. Sorted(t) = [i \in 1 .. n |-> t[n + 1 - i]]
      BY <2>2, <3>1 DEF Sorted
    <3>3. \A i \in 1 .. n : n + 1 - i \in 1 .. Len(t)
      BY <3>1
    <3>4. \A i \in 1 .. n : t[n + 1 - i] \in Bubbles
      BY <3>1, <3>3
    <3>5. Sorted(t) \in Seq(Bubbles) /\ Len(Sorted(t)) = n
      BY <3>2, <3>4
    <3> QED
      BY <3>1, <3>5
  <2> QED
    BY <2>1, <2>2
<1>12. Paged = SubSeq(s, (page - 1) * PageSize + 1, Smaller(page * PageSize, Len(s)))
  BY <1>11, Zenon DEF Paged
<1>13. (page - 1) * PageSize + 1 = a + 1 /\ page * PageSize = a + l
  <2>1. page - 1 = c
    BY <1>4
  <2> QED
    BY <1>3, <1>4, <1>9, <1>10, <2>1, Zenon
<1>14. PICK m \in Nat : m = Smaller(a + l, n) /\ m <= n /\ a + 1 <= m
  BY <1>8, <1>10 DEF Smaller
<1>15. Paged = SubSeq(s, a + 1, m)
  BY <1>11, <1>12, <1>13, <1>14, Zenon
<1>16. Len(SubSeq(s, a + 1, m)) = m - (a + 1) + 1
  <2>1. a + 1 \in Nat
    OBVIOUS
  <2> QED
    BY <1>14, <2>1, SubSeqProperties
<1>17. Len(SubSeq(s, a + 1, m)) # 0
  BY <1>14, <1>16
<1>18. Len(<<>>) = 0
  OBVIOUS
<1> QED
  BY <1>15, <1>17, <1>18, Zenon

\* The number of pages after a step.
LEMMA PagesThen ==
    ASSUME LibraryAssumptions, StoreTypes', filter' = filter, about' = about
    PROVE  Pages' = TotalPages(list', filter)
<1>1. {i \in DOMAIN list : Kept(list[i], filter)}' = {i \in DOMAIN list' : Kept(list'[i], filter)}
  BY DEF Kept, Action
<1>2. Filtered(list, filter)' = Filtered(list', filter)
  BY <1>1, Zenon DEF Filtered
<1> QED
  BY <1>2, Zenon DEF Pages, TotalPages

LEMMA SomePages ==
    ASSUME LibraryAssumptions, StoreTypes'
    PROVE  Pages' \in Nat /\ Pages' >= 1
<1>1. PICK l \in Seq(Bubbles) : l = list'
  BY DEF StoreTypes
<1>2. PageSize \in Nat \ {0}
  BY DEF LibraryAssumptions, PageAssumption
<1>3. PICK S : S = {i \in DOMAIN list : Kept(list[i], filter)}'
  OBVIOUS
<1>4. S \in SUBSET DOMAIN l
  BY <1>1, <1>3
<1>5. Selected(l, S) \in Seq(Bubbles)
  <2>1. SelectionIs(Bubbles, l, S)
    BY <1>4, SelectedIs, Zenon
  <2> QED
    BY <2>1, Zenon DEF SelectionIs
<1>6. Filtered(list, filter)' = Selected(l, S)
  BY <1>1, <1>3, Zenon DEF Filtered
<1>7. PICK n \in Nat : n = Len(Filtered(list, filter)')
  BY <1>5, <1>6
<1>8. PICK d \in Nat : d = (n + PageSize - 1) \div PageSize
  BY <1>2, Division
<1>9. Pages' = Larger(1, d)
  BY <1>7, <1>8, Zenon DEF Pages, TotalPages
<1> QED
  BY <1>9 DEF Larger

\* A step that leaves the page alone and does not take a bubble from the list.
LEMMA PageKept ==
    ASSUME ViewInv, UNCHANGED <<list, pageVars>>, \A b \in Elements(list) : about'[b] = about[b]
    PROVE  ViewInv'
<1>1. UNCHANGED <<list, filter>>
  BY Zenon DEF pageVars
<1>2. Pages' = Pages
  BY <1>1, SamePages, Zenon
<1>3. Elements(list)' = Elements(list)
  BY <1>1 DEF Elements
<1>4. UNCHANGED <<requested, selected, page, opens, arrived, touched, shrunk>>
  BY Zenon DEF pageVars
<1> QED
  BY <1>2, <1>3, <1>4, Zenon DEF ViewInv, LinkHonoured

\* A step that leaves the page number alone and keeps the account of a shorter list.
LEMMA Shrinking ==
    ASSUME LibraryAssumptions, StoreTypes, StoreTypes', ViewInv,
           UNCHANGED <<filter, about, page>>, shrunk' = (shrunk \/ TotalPages(list', filter) < Pages)
    PROVE  shrunk' \/ page' <= Pages'
<1>1. Pages' = TotalPages(list', filter)
  BY PagesThen, Zenon
<1>2. Pages' \in Nat /\ Pages \in Nat /\ page \in Nat
  BY SomePages, Filtering, Zenon DEF ViewInv
<1>3. shrunk' = (shrunk \/ Pages' < Pages)
  BY <1>1, Zenon
<1>4. shrunk \/ page <= Pages
  BY Zenon DEF ViewInv
<1>5. CASE Pages' < Pages
  BY <1>3, <1>5, Zenon
<1>6. CASE ~ (Pages' < Pages) /\ page <= Pages
  <2>1. page <= Pages'
    BY <1>2, <1>6
  <2> QED
    BY <2>1, Zenon
<1>7. CASE shrunk
  BY <1>3, <1>7, Zenon
<1> QED
  BY <1>4, <1>5, <1>6, <1>7, Zenon

LEMMA ViewInvInit == ASSUME LibraryAssumptions, PageInit PROVE ViewInv
<1>1. /\ page = 1 /\ opens = 0 /\ ~ arrived
      /\ StoreAssumptions /\ Init
  BY DEF PageInit, LibraryAssumptions
<1>2. StoreTypes
  BY <1>1, TypesInit
<1>3. Pages \in Nat /\ Pages >= 1
  BY <1>2, Filtering, Zenon
<1>4. page <= Pages
  BY <1>1, <1>3
<1> QED
  BY <1>1, <1>4 DEF ViewInv, LinkHonoured

\* An answer to a load: with the page open the list under it is another one.
LEMMA ViewReceives ==
    ASSUME LibraryAssumptions, StoreTypes, StoreTypes', ViewInv, NEW f \in Fetchers, ReceivePage(f),
           IF fetch'[f].at = "idle" /\ opens > 0 THEN Listed ELSE UNCHANGED pageVars
    PROVE  ViewInv'
<1>1. UNCHANGED about /\ StoreAssumptions
  BY Zenon DEF ReceivePage, LibraryAssumptions
<1>2. CASE Listed
  <2>1. /\ selected' = Reselect(selected, list') /\ arrived' = TRUE
        /\ shrunk' = (shrunk \/ TotalPages(list', filter) < Pages)
        /\ UNCHANGED <<requested, page, filter, opens, touched>>
    BY <1>2, Zenon DEF Listed, Render
  <2>2. shrunk' \/ page' <= Pages'
    BY <1>1, <2>1, Shrinking, Zenon
  <2>3. requested \in Elements(list') => selected' = requested
    BY <2>1, Zenon DEF Reselect
  <2>4. Elements(list)' = Elements(list')
    BY Zenon DEF Elements
  <2>5. LinkHonoured'
    BY <2>1, <2>3, <2>4, Zenon DEF LinkHonoured
  <2>6. page' \in Nat \ {0} /\ opens' \in Nat
    BY <2>1, Zenon DEF ViewInv
  <2>7. CASE fetch'[f].at = "idle" /\ opens > 0
    <3>1. opens' # 0
      BY <2>1, <2>7 DEF ViewInv
    <3> QED
      BY <2>2, <2>5, <2>6, <3>1, Zenon DEF ViewInv
  <2>8. CASE ~ (fetch'[f].at = "idle" /\ opens > 0)
    <3>1. UNCHANGED pageVars
      BY <2>8, Zenon
    <3>2. UNCHANGED arrived
      BY <3>1, Zenon DEF pageVars
    <3>3. opens' = 0 => FALSE
      <4>1. arrived
        BY <2>1, <3>2
      <4> QED
        BY <2>1, <4>1 DEF ViewInv
    <3> QED
      BY <2>2, <2>5, <2>6, <3>3, Zenon DEF ViewInv
  <2> QED
    BY <2>7, <2>8
<1>3. CASE UNCHANGED pageVars /\ GoesOn(f)
  <2>1. UNCHANGED list
    BY <1>3, Zenon DEF GoesOn
  <2> QED
    BY <1>1, <1>3, <2>1, PageKept, Zenon
<1>4. CASE UNCHANGED pageVars /\ Ended(f) /\ ~ (fetch'[f].at = "idle" /\ opens > 0)
  <2>1. fetch'[f] = NoFetch
    BY <1>4 DEF Ended, StoreTypes
  <2>2. fetch'[f].at = "idle"
    BY <1>1, <2>1, IdleLoad, Zenon
  <2>3. opens = 0
    BY <1>4, <2>2 DEF ViewInv
  <2>4. ~ arrived /\ page = 1
    BY <2>3, Zenon DEF ViewInv
  <2>5. UNCHANGED <<page, arrived, opens>>
    BY <1>4, Zenon DEF pageVars
  <2>6. Pages' \in Nat /\ Pages' >= 1
    BY SomePages
  <2>7. page' <= Pages'
    BY <2>4, <2>5, <2>6
  <2>8. page' \in Nat \ {0} /\ opens' \in Nat
    BY <2>5, Zenon DEF ViewInv
  <2> QED
    BY <2>4, <2>5, <2>7, <2>8, Zenon DEF ViewInv, LinkHonoured
<1>5. Ended(f) \/ GoesOn(f)
  BY <1>1, Receiving, Zenon
<1> QED
  BY <1>2, <1>3, <1>4, <1>5, Zenon

\* Page one is shown: the view is opened or reset.
LEMMA ViewStarts ==
    ASSUME LibraryAssumptions, StoreTypes', opens' \in Nat \ {0}, page' = 1, ~ arrived' \/ touched'
    PROVE  ViewInv'
<1>1. Pages' \in Nat /\ Pages' >= 1
  BY SomePages
<1>2. page' \in Nat \ {0} /\ page' <= Pages'
  BY <1>1
<1>3. opens' \in Nat /\ opens' # 0
  OBVIOUS
<1> QED
  BY <1>2, <1>3, Zenon DEF ViewInv, LinkHonoured

\* What the user does on the open page.
LEMMA ViewTouched ==
    ASSUME LibraryAssumptions, ViewInv, opens > 0, touched', UNCHANGED opens,
           page' \in Nat \ {0}, shrunk' \/ page' <= Pages'
    PROVE  ViewInv'
<1>1. opens' \in Nat /\ opens' # 0
  BY DEF ViewInv
<1> QED
  BY <1>1, Zenon DEF ViewInv, LinkHonoured

LEMMA ViewInvStep ==
    ASSUME LibraryAssumptions, StoreTypes, StoreTypes', Births, ViewInv,
           [PageNext]_<<storeVars, pageVars>>
    PROVE  ViewInv'
<1>0. /\ Pages \in Nat /\ Pages >= 1 /\ Pages' \in Nat /\ Pages' >= 1
      /\ page \in Nat \ {0} /\ opens \in Nat /\ (shrunk \/ page <= Pages)
  BY SomePages, Filtering, Zenon DEF ViewInv
<1>2. ASSUME NEW t \in About, ServerGains(t), UNCHANGED pageVars PROVE ViewInv'
  <2>1. PICK b \in Unused : about' = [about EXCEPT ![b] = t]
    BY <1>2, Zenon DEF ServerGains, Born
  <2>2. about[b] = Unborn
    BY DEF Unused
  <2>3. ASSUME NEW c \in Elements(list) PROVE about'[c] = about[c]
    <3>1. c \in Bubbles
      BY DEF StoreTypes, Elements
    <3>2. about[c] # Unborn
      BY <3>1, Zenon DEF Births, Held
    <3>3. c # b
      BY <2>2, <3>2, Zenon
    <3>4. about \in [Bubbles -> About \cup {Unborn}]
      BY DEF StoreTypes
    <3> QED
      BY <2>1, <3>1, <3>3, <3>4
  <2>4. UNCHANGED list
    BY <1>2, Zenon DEF ServerGains
  <2> QED
    BY <1>2, <2>3, <2>4, PageKept, Zenon
<1>3. ASSUME NEW f \in Fetchers, LoadStep(f) PROVE ViewInv'
  <2>1. CASE (ServePage(f) \/ FetchFails(f)) /\ UNCHANGED pageVars
    <3>1. UNCHANGED <<list, about>>
      BY <2>1, Zenon DEF ServePage, FetchFails
    <3> QED
      BY <2>1, <3>1, PageKept, Zenon
  <2>2. CASE /\ ReceivePage(f)
             /\ IF fetch'[f].at = "idle" /\ opens > 0 THEN Listed ELSE UNCHANGED pageVars
    BY <2>2, ViewReceives, Zenon
  <2> QED
    BY <1>3, <2>1, <2>2, Zenon DEF LoadStep
<1>4. ASSUME NEW f \in Fetchers, Refresh(f) PROVE ViewInv'
  <2>1. UNCHANGED <<list, about>> /\ UNCHANGED pageVars
    BY <1>4, Zenon DEF Refresh, StartFetch
  <2> QED
    BY <2>1, PageKept, Zenon
<1>5. ASSUME NEW f \in Fetchers, NEW b, Open(b, f) PROVE ViewInv'
  <2>1. opens' = opens + 1 /\ page' = 1 /\ ~ arrived'
    BY <1>5 DEF Open
  <2>2. opens' \in Nat \ {0}
    BY <1>0, <2>1
  <2> QED
    BY <2>1, <2>2, ViewStarts, Zenon
<1>7. opens > 0 => opens \in Nat \ {0}
  BY <1>0
<1>8. ASSUME NEW f, SetFilter(f) PROVE ViewInv'
  <2>1. opens' = opens /\ opens > 0 /\ page' = 1 /\ touched'
    BY <1>8 DEF SetFilter, ResetView, Offers
  <2> QED
    BY <1>7, <2>1, ViewStarts, Zenon
<1>9. ASSUME SetSort PROVE ViewInv'
  <2>1. opens' = opens /\ opens > 0 /\ page' = 1 /\ touched'
    BY <1>9 DEF SetSort, ResetView, Offers
  <2> QED
    BY <1>7, <2>1, ViewStarts, Zenon
<1>10. ASSUME NEW b, Toggle(b) PROVE ViewInv'
  <2>1. /\ opens > 0 /\ UNCHANGED <<page, shrunk, opens, filter, list, about>>
    BY <1>10, Zenon DEF Toggle, Offers, storeVars
  <2>2. touched'
    BY <1>10 DEF Toggle
  <2>3. Pages' = Pages
    BY <2>1, SamePages, Zenon
  <2>4. page' \in Nat \ {0} /\ (shrunk' \/ page' <= Pages')
    BY <1>0, <2>1, <2>3, Zenon
  <2> QED
    BY <2>1, <2>2, <2>4, ViewTouched, Zenon
<1>11. ASSUME NEW b, Delete(b) PROVE ViewInv'
  <2>1. /\ opens > 0 /\ UNCHANGED <<page, opens, filter, about>>
        /\ shrunk' = (shrunk \/ TotalPages(list', filter) < Pages)
    BY <1>11, Zenon DEF Delete, Offers, DeleteBubble
  <2>2. touched'
    BY <1>11 DEF Delete
  <2>3. page' \in Nat \ {0} /\ (shrunk' \/ page' <= Pages')
    BY <1>0, <2>1, Shrinking, Zenon
  <2> QED
    BY <2>1, <2>2, <2>3, ViewTouched, Zenon
<1>12. ASSUME NEW agreed, ClearEverything(agreed) PROVE ViewInv'
  <2>1. /\ opens > 0 /\ UNCHANGED <<page, opens, filter>>
        /\ shrunk' = (shrunk \/ TotalPages(list', filter) < Pages)
    BY <1>12, Zenon DEF ClearEverything, Offers
  <2>2. touched'
    BY <1>12 DEF ClearEverything
  <2>3. UNCHANGED about
    BY <1>12, Zenon DEF ClearEverything, ClearAll, storeVars
  <2>4. page' \in Nat \ {0} /\ (shrunk' \/ page' <= Pages')
    BY <1>0, <2>1, <2>3, Shrinking, Zenon
  <2> QED
    BY <2>1, <2>2, <2>4, ViewTouched, Zenon
<1>13. ASSUME Move PROVE ViewInv'
  <2>1. opens > 0
    BY <1>13, Zenon DEF Move, Offers
  <2>2. PICK p \in Nat \ {0} : Turn(p) /\ (shrunk \/ p <= Pages)
    <3>1. CASE PagerOffers("first") /\ Turn(1)
      BY <1>0, <3>1
    <3>2. CASE PagerOffers("previous") /\ Turn(Larger(page - 1, 1))
      <4>1. page > 1
        BY <3>2 DEF PagerOffers
      <4>2. PICK q \in Nat \ {0} : q = page - 1
        BY <1>0, <4>1
      <4>3. Larger(page - 1, 1) = q
        BY <1>0, <4>2 DEF Larger
      <4>4. page <= Pages => q <= Pages
        BY <1>0, <4>2
      <4> QED
        BY <1>0, <3>2, <4>3, <4>4, Zenon
    <3>3. CASE PagerOffers("next") /\ Turn(Smaller(page + 1, Pages))
      <4>1. PICK q \in Nat \ {0} : q = Smaller(page + 1, Pages) /\ q <= Pages
        BY <1>0 DEF Smaller
      <4> QED
        BY <3>3, <4>1, Zenon
    <3>4. CASE PagerOffers("last") /\ Turn(Pages)
      <4>1. Pages \in Nat \ {0} /\ Pages <= Pages
        BY <1>0
      <4> QED
        BY <3>4, <4>1, Zenon
    <3>5. CASE \E n \in 0 .. MaxBubbles + 1 : PagerOffers("jump") /\ Turn(JumpTarget(n))
      <4>1. PICK n \in 0 .. MaxBubbles + 1 : Turn(JumpTarget(n))
        BY <3>5
      <4>2. n \in Nat
        BY DEF LibraryAssumptions, StoreAssumptions, StoreBounds
      <4>3. PICK m \in Nat \ {0} : m = Larger(1, n)
        BY <4>2 DEF Larger
      <4>4. PICK q \in Nat \ {0} : q = Smaller(Pages, m) /\ q <= Pages
        BY <1>0 DEF Smaller
      <4>5. JumpTarget(n) = q
        BY <4>3, <4>4, Zenon DEF JumpTarget
      <4> QED
        BY <4>1, <4>4, <4>5, Zenon
    <3> QED
      BY <1>13, <3>1, <3>2, <3>3, <3>4, <3>5, Zenon DEF Move
  <2>3. page' = p /\ touched' /\ shrunk' = (shrunk /\ p > Pages)
    BY <2>2 DEF Turn
  <2>4. UNCHANGED <<opens, filter, list, about>>
    BY <2>2, Zenon DEF Turn, storeVars
  <2>5. Pages' = Pages
    BY <2>4, SamePages, Zenon
  <2>6. shrunk' \/ page' <= Pages'
    <3>1. CASE p <= Pages
      BY <2>3, <2>5, <3>1, Zenon
    <3>2. CASE ~ (p <= Pages)
      <4>1. p > Pages
        BY <1>0, <3>2
      <4> QED
        BY <2>2, <2>3, <3>2, <4>1, Zenon
    <3> QED
      BY <3>1, <3>2
  <2>7. page' \in Nat \ {0}
    BY <2>3
  <2> QED
    BY <2>1, <2>3, <2>4, <2>6, <2>7, ViewTouched, Zenon
<1>14. ASSUME UNCHANGED <<storeVars, pageVars>> PROVE ViewInv'
  <2>1. UNCHANGED <<list, about>> /\ UNCHANGED pageVars
    BY <1>14, Zenon DEF storeVars
  <2> QED
    BY <2>1, PageKept, Zenon
<1> QED
  BY <1>2, <1>3, <1>4, <1>5, <1>8, <1>9, <1>10, <1>11, <1>12, <1>13, <1>14, Zenon DEF PageNext

\* A link to a bubble is honoured while the user leaves the page alone, and an empty page in
\* front of results is one the list has shrunk away from (components-old/Bubbles.tsx).
THEOREM ViewSound == ASSUME LibraryAssumptions PROVE PageSpec => []ViewIsSound
<1> DEFINE LibraryInv == StoreTypes /\ Births /\ ViewInv
<1>1. PageInit => LibraryInv
  <2>1. PageInit => Init
    BY DEF PageInit
  <2>2. StoreAssumptions
    BY DEF LibraryAssumptions
  <2> QED
    BY <2>1, <2>2, TypesInit, BirthsInit, ViewInvInit, Zenon
<1>2. LibraryInv /\ [PageNext]_<<storeVars, pageVars>> => LibraryInv'
  <2>1. StoreAssumptions
    BY DEF LibraryAssumptions
  <2> SUFFICES ASSUME StoreTypes, Births, ViewInv, [PageNext]_<<storeVars, pageVars>> PROVE LibraryInv'
    OBVIOUS
  <2>2. [Next]_storeVars
    BY LibrarySteps, Zenon
  <2>3. StoreTypes'
    BY <2>1, <2>2, TypesStep, Zenon
  <2>4. Births'
    BY <2>1, <2>2, BirthsStep, Zenon
  <2>5. ViewInv'
    BY <2>3, ViewInvStep, Zenon
  <2> QED
    BY <2>3, <2>4, <2>5, Zenon
<1>3. LibraryInv => ViewIsSound
  <2> SUFFICES ASSUME StoreTypes, ViewInv PROVE ViewIsSound
    OBVIOUS
  <2>1. LinkHonoured /\ page \in Nat \ {0} /\ (shrunk \/ page <= Pages)
    BY Zenon DEF ViewInv
  <2>2. BlankOnlyAfterShrinking
    BY <2>1, SomethingThere, Zenon DEF BlankOnlyAfterShrinking
  <2> QED
    BY <2>1, <2>2, Zenon DEF ViewIsSound
<1> QED
  BY <1>1, <1>2, <1>3, PTL DEF PageSpec
=============================================================================
