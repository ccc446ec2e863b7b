--------------------------- MODULE SequenceLemmas ---------------------------
(***************************************************************************)
(* Facts about the sequence operators that the components are built from,  *)
(* for sequences of any length.                                            *)
(***************************************************************************)
EXTENDS AnySequences, SequenceTheorems, TLAPS, WellFoundedInduction

\* RemoveFirst takes out the element at the first place where it stands and
\* closes the gap.
LEMMA RemoveFirstAt ==
  ASSUME NEW S, NEW s \in Seq(S), NEW e, NEW k \in 1 .. Len(s),
         s[k] = e, \A i \in 1 .. k - 1 : s[i] # e
  PROVE  /\ RemoveFirst(s, e) \in Seq(S)
         /\ Len(RemoveFirst(s, e)) = Len(s) - 1
         /\ \A i \in 1 .. Len(s) - 1 :
              RemoveFirst(s, e)[i] = IF i < k THEN s[i] ELSE s[i + 1]
<1> DEFINE r == RemoveFirst(s, e)
           found == {i \in 1 .. Len(s) : s[i] = e}
           a == SubSeq(s, 1, k - 1)
           b == SubSeq(s, k + 1, Len(s))
<1>0. Len(s) \in Nat /\ DOMAIN s = 1 .. Len(s)
  BY LenProperties
<1>1. k \in found /\ \A i \in found : k <= i
  BY <1>0
<1>2. found \subseteq Int
  BY <1>0
<1>3. Min(found) = k
  <2> HIDE DEF found
  <2>1. \A x \in found : (\A y \in found : x <= y) => x = k
    BY <1>1, <1>2
  <2> QED
    BY <1>1, <2>1 DEF Min
<1>4. SelectInSeq(s, LAMBDA v : v = e) = k
  BY <1>1, <1>3 DEF SelectInSeq
<1>5. r = a \o b
  BY <1>4 DEF RemoveFirst, RemoveAt
<1>6. /\ a \in Seq(S) /\ Len(a) = k - 1
      /\ \A i \in 1 .. k - 1 : a[i] = s[i]
  <2>1. \A i \in 1 .. k - 1 : s[i] \in S
    BY <1>0, ElementOfSeq
  <2> QED
    BY <1>0, <2>1, SubSeqProperties
<1>7. /\ b \in Seq(S) /\ Len(b) = Len(s) - k
      /\ \A i \in 1 .. Len(s) - k : b[i] = s[i + k]
  <2>1. \A i \in k + 1 .. Len(s) : s[i] \in S
    BY <1>0, ElementOfSeq
  <2>2. k + 1 \in Int /\ Len(s) \in Int
    BY <1>0
  <2>3. /\ b \in Seq(S)
        /\ Len(b) = IF k + 1 <= Len(s) THEN Len(s) - (k + 1) + 1 ELSE 0
        /\ \A i \in 1 .. Len(s) - (k + 1) + 1 : b[i] = s[(k + 1) + i - 1]
    BY <2>1, <2>2, SubSeqProperties
  <2> HIDE DEF a, b, r, found
  <2>4. Len(b) = Len(s) - k
    <3>1. \A m, n \in Nat : m <= n =>
            (IF m + 1 <= n THEN n - (m + 1) + 1 ELSE 0) = n - m
      OBVIOUS
    <3>2. k \in Nat /\ k <= Len(s)
      BY <1>0
    <3> QED
      BY <1>0, <2>3, <3>1, <3>2
  <2>5. ASSUME NEW i \in 1 .. Len(s) - k
        PROVE  b[i] = s[i + k]
    <3>1. i \in 1 .. Len(s) - (k + 1) + 1 /\ (k + 1) + i - 1 = i + k
      BY <1>0
    <3> QED
      BY <2>3, <3>1
  <2> QED
    BY <2>3, <2>4, <2>5
<1> HIDE DEF a, b, r, found
<1>8. /\ r \in Seq(S) /\ Len(r) = Len(a) + Len(b)
      /\ \A i \in 1 .. Len(a) + Len(b) :
           r[i] = IF i <= Len(a) THEN a[i] ELSE b[i - Len(a)]
  BY <1>5, <1>6, <1>7, ConcatProperties
<1>9. Len(r) = Len(s) - 1
  BY <1>0, <1>6, <1>7, <1>8
<1>10. ASSUME NEW i \in 1 .. Len(s) - 1
       PROVE  r[i] = IF i < k THEN s[i] ELSE s[i + 1]
  <2>1. r[i] = IF i <= k - 1 THEN a[i] ELSE b[i - (k - 1)]
    BY <1>0, <1>6, <1>7, <1>8
  <2>2. CASE i < k
    BY <1>0, <1>6, <2>1, <2>2
  <2>3. CASE ~ (i < k)
    <3>1. i - (k - 1) \in 1 .. Len(s) - k /\ (i - (k - 1)) + k = i + 1
      BY <1>0, <2>3
    <3> QED
      BY <1>0, <1>7, <2>1, <2>3, <3>1
  <2> QED
    BY <2>2, <2>3
<1> QED
  BY <1>8, <1>9, <1>10 DEF r

\* std::list::remove on a list without duplicates, as ~LockAwaiter uses it:
\* exactly the given element is gone and the list still has no duplicates.
LEMMA RemoveFirstProperties ==
  ASSUME NEW S, NEW s \in Seq(S), NEW e, IsInjective(s)
  PROVE  /\ RemoveFirst(s, e) \in Seq(S)
         /\ IsInjective(RemoveFirst(s, e))
         /\ \A x : Contains(RemoveFirst(s, e), x) <=> Contains(s, x) /\ x # e
<1> DEFINE r == RemoveFirst(s, e)
<1>0. Len(s) \in Nat /\ DOMAIN s = 1 .. Len(s)
  BY LenProperties
<1>1. CASE ~ \E i \in 1 .. Len(s) : s[i] = e
  <2>1. r = s
    BY <1>1 DEF RemoveFirst
  <2> QED
    BY <1>0, <1>1, <2>1 DEF Contains
<1>2. CASE \E i \in 1 .. Len(s) : s[i] = e
  <2>1. PICK k \in 1 .. Len(s) : s[k] = e
    BY <1>2
  <2>2. \A i, j \in 1 .. Len(s) : s[i] = s[j] => i = j
    BY <1>0 DEF IsInjective
  <2>3. \A i \in 1 .. k - 1 : s[i] # e
    BY <1>0, <2>1, <2>2
  <2>4. /\ r \in Seq(S) /\ Len(r) = Len(s) - 1
        /\ \A i \in 1 .. Len(s) - 1 : r[i] = IF i < k THEN s[i] ELSE s[i + 1]
    BY <2>1, <2>3, RemoveFirstAt
  <2>5. DOMAIN r = 1 .. Len(s) - 1
    BY <2>4, LenProperties
  <2> HIDE DEF r
  <2> DEFINE old(i) == IF i < k THEN i ELSE i + 1
  <2>6. \A i \in DOMAIN r : old(i) \in 1 .. Len(s) /\ r[i] = s[old(i)] /\ old(i) # k
    BY <1>0, <2>1, <2>4, <2>5
  <2>7. \A i, j \in DOMAIN r : old(i) = old(j) => i = j
    BY <1>0, <2>1, <2>5
  <2> HIDE DEF old
  <2>8. IsInjective(r)
    BY <2>2, <2>6, <2>7 DEF IsInjective
  <2>9. ASSUME NEW x
        PROVE  (\E i \in DOMAIN r : r[i] = x) <=> (\E i \in DOMAIN s : s[i] = x) /\ x # e
    <3>1. ASSUME NEW i \in DOMAIN r, r[i] = x
          PROVE  (\E j \in DOMAIN s : s[j] = x) /\ x # e
      BY <1>0, <2>1, <2>2, <2>6, <3>1
    <3>2. ASSUME NEW j \in DOMAIN s, s[j] = x, x # e
          PROVE  \E i \in DOMAIN r : r[i] = x
      <4>1. CASE j < k
        <5>1. j \in DOMAIN r /\ r[j] = x
          BY <1>0, <2>1, <2>4, <2>5, <3>2, <4>1
        <5> QED
          BY <5>1
      <4>2. CASE j > k
        <5>1. j - 1 \in DOMAIN r /\ r[j - 1] = x
          BY <1>0, <2>1, <2>4, <2>5, <3>2, <4>2
        <5> QED
          BY <5>1
      <4> QED
        BY <1>0, <2>1, <3>2, <4>1, <4>2
    <3> QED
      BY <3>1, <3>2
  <2>10. \A x : Contains(r, x) <=> Contains(s, x) /\ x # e
    BY <1>0, <2>4, <2>5, <2>9 DEF Contains
  <2> QED
    BY <2>4, <2>8, <2>10 DEF r
<1> QED
  BY <1>1, <1>2

\* A list without duplicates still has none when a new element is appended.
LEMMA AppendFresh ==
  ASSUME NEW S, NEW s \in Seq(S), NEW e \in S, IsInjective(s), ~Contains(s, e)
  PROVE  /\ Append(s, e) \in Seq(S)
         /\ IsInjective(Append(s, e))
         /\ \A x : Contains(Append(s, e), x) <=> Contains(s, x) \/ x = e
<1> DEFINE w == Append(s, e)
<1>0. Len(s) \in Nat /\ DOMAIN s = 1 .. Len(s)
  BY LenProperties
<1>1. /\ w \in Seq(S) /\ Len(w) = Len(s) + 1 /\ w[Len(s) + 1] = e
      /\ \A i \in 1 .. Len(s) : w[i] = s[i]
  BY AppendProperties
<1>2. DOMAIN w = 1 .. Len(s) + 1
  BY <1>1, LenProperties
<1>3. \A i \in 1 .. Len(s) : s[i] # e
  BY DEF Contains
<1> HIDE DEF w
<1>4. ASSUME NEW i \in DOMAIN w, NEW j \in DOMAIN w, w[i] = w[j]
      PROVE  i = j
  <2>1. \A m, n \in 1 .. Len(s) : s[m] = s[n] => m = n
    BY <1>0 DEF IsInjective
  <2> QED
    BY <1>0, <1>1, <1>2, <1>3, <1>4, <2>1
<1>5. \A x : Contains(w, x) <=> Contains(s, x) \/ x = e
  BY <1>0, <1>1 DEF Contains
<1> QED
  BY <1>1, <1>4, <1>5 DEF IsInjective, w

\* Taking the first element off a list without duplicates takes off only it.
LEMMA TailProperties ==
  ASSUME NEW S, NEW s \in Seq(S), IsInjective(s), s # <<>>
  PROVE  /\ Head(s) \in S
         /\ Contains(s, Head(s))
         /\ Tail(s) \in Seq(S)
         /\ IsInjective(Tail(s))
         /\ \A x : Contains(Tail(s), x) <=> Contains(s, x) /\ x # Head(s)
<1> DEFINE w == Tail(s)
<1>0. Len(s) \in Nat /\ Len(s) > 0 /\ DOMAIN s = 1 .. Len(s) /\ Head(s) = s[1]
  BY LenProperties, EmptySeq
<1>1. /\ Head(s) \in S /\ w \in Seq(S) /\ Len(w) = Len(s) - 1
      /\ \A i \in 1 .. Len(s) - 1 : w[i] = s[i + 1]
  BY HeadTailProperties
<1>2. DOMAIN w = 1 .. Len(s) - 1
  BY <1>1, LenProperties
<1>3. \A m, n \in 1 .. Len(s) : s[m] = s[n] => m = n
  BY <1>0 DEF IsInjective
<1> HIDE DEF w
<1>4. ASSUME NEW i \in DOMAIN w, NEW j \in DOMAIN w, w[i] = w[j]
      PROVE  i = j
  <2>1. i + 1 \in 1 .. Len(s) /\ j + 1 \in 1 .. Len(s) /\ s[i + 1] = s[j + 1]
    BY <1>0, <1>1, <1>2, <1>4
  <2> QED
    BY <1>2, <1>3, <2>1
<1>5. Contains(s, Head(s))
  BY <1>0 DEF Contains
<1>6. ASSUME NEW x
      PROVE  Contains(w, x) <=> Contains(s, x) /\ x # Head(s)
  <2>1. ASSUME NEW i \in 1 .. Len(w), w[i] = x
        PROVE  Contains(s, x) /\ x # Head(s)
    <3>1. i + 1 \in 1 .. Len(s) /\ s[i + 1] = x /\ i + 1 # 1
      BY <1>0, <1>1, <2>1
    <3> QED
      BY <1>0, <1>3, <3>1 DEF Contains
  <2>2. ASSUME NEW j \in 1 .. Len(s), s[j] = x, x # Head(s)
        PROVE  Contains(w, x)
    <3>1. j - 1 \in 1 .. Len(w) /\ w[j - 1] = x
      BY <1>0, <1>1, <2>2
    <3> QED
      BY <3>1 DEF Contains
  <2> QED
    BY <2>1, <2>2 DEF Contains
<1> QED
  BY <1>1, <1>4, <1>5, <1>6 DEF IsInjective, w

\* The set of the elements of a sequence, as an element is appended and as the
\* first one, which stands there only once, is taken off.
LEMMA ToSetProperties ==
  ASSUME NEW S, NEW s \in Seq(S)
  PROVE  /\ ToSet(s) \subseteq S
         /\ \A x : x \in ToSet(s) <=> Contains(s, x)
         /\ \A e \in S : ToSet(Append(s, e)) = ToSet(s) \cup {e}
         /\ s # <<>> /\ IsInjective(s) => ToSet(Tail(s)) = ToSet(s) \ {Head(s)}
<1>1. ASSUME NEW T, NEW t \in Seq(T)
      PROVE  ToSet(t) \subseteq T /\ \A x : x \in ToSet(t) <=> Contains(t, x)
  <2>1. DOMAIN t = 1 .. Len(t) /\ t \in [1 .. Len(t) -> T]
    BY <1>1, LenProperties
  <2>2. \A x : x \in ToSet(t) <=> Contains(t, x)
    BY <2>1 DEF ToSet, Contains
  <2>3. ToSet(t) \subseteq T
    BY <2>1 DEF ToSet
  <2> QED
    BY <2>2, <2>3
<1>2. ASSUME NEW e \in S
      PROVE  ToSet(Append(s, e)) = ToSet(s) \cup {e}
  <2> DEFINE w == Append(s, e)
  <2>1. /\ w \in Seq(S) /\ Len(w) = Len(s) + 1 /\ w[Len(s) + 1] = e
        /\ \A i \in 1 .. Len(s) : w[i] = s[i]
    BY AppendProperties
  <2> HIDE DEF w
  <2>2. DOMAIN w = 1 .. Len(s) + 1 /\ DOMAIN s = 1 .. Len(s) /\ Len(s) \in Nat
    BY <2>1, LenProperties
  <2>3. \A x : x \in ToSet(w) <=> x \in ToSet(s) \/ x = e
    <3>1. ASSUME NEW i \in DOMAIN w PROVE w[i] \in ToSet(s) \/ w[i] = e
      BY <2>1, <2>2 DEF ToSet
    <3>2. ASSUME NEW i \in DOMAIN s PROVE s[i] \in ToSet(w)
      <4>1. i \in DOMAIN w /\ w[i] = s[i]
        BY <2>1, <2>2
      <4> QED
        BY <4>1 DEF ToSet
    <3>3. e \in ToSet(w)
      <4>1. Len(s) + 1 \in DOMAIN w /\ w[Len(s) + 1] = e
        BY <2>1, <2>2
      <4> QED
        BY <4>1 DEF ToSet
    <3> QED
      BY <3>1, <3>2, <3>3 DEF ToSet
  <2> QED
    BY <2>3 DEF w
<1>3. ASSUME s # <<>>, IsInjective(s)
      PROVE  ToSet(Tail(s)) = ToSet(s) \ {Head(s)}
  <2>1. Tail(s) \in Seq(S) /\ \A x : Contains(Tail(s), x) <=> Contains(s, x) /\ x # Head(s)
    BY <1>3, TailProperties
  <2> QED
    BY <1>1, <2>1
<1> QED
  BY <1>1, <1>2, <1>3

\* Two lists without duplicates that share no element, one after the other.
LEMMA ConcatDisjoint ==
  ASSUME NEW S, NEW s \in Seq(S), NEW t \in Seq(S), IsInjective(s), IsInjective(t),
         ToSet(s) \cap ToSet(t) = {}
  PROVE  /\ s \o t \in Seq(S)
         /\ IsInjective(s \o t)
         /\ ToSet(s \o t) = ToSet(s) \cup ToSet(t)
<1> DEFINE w == s \o t
<1>0. /\ Len(s) \in Nat /\ DOMAIN s = 1 .. Len(s)
      /\ Len(t) \in Nat /\ DOMAIN t = 1 .. Len(t)
  BY LenProperties
<1>1. /\ w \in Seq(S) /\ Len(w) = Len(s) + Len(t)
      /\ \A i \in 1 .. Len(s) + Len(t) : w[i] = IF i <= Len(s) THEN s[i] ELSE t[i - Len(s)]
  BY ConcatProperties
<1>2. DOMAIN w = 1 .. Len(s) + Len(t)
  BY <1>1, LenProperties
<1>3. \A i \in DOMAIN s, j \in DOMAIN t : s[i] # t[j]
  BY DEF ToSet
<1> HIDE DEF w
<1>4. \A i \in DOMAIN w :
        \/ i \in DOMAIN s /\ w[i] = s[i]
        \/ i > Len(s) /\ i - Len(s) \in DOMAIN t /\ w[i] = t[i - Len(s)]
  BY <1>0, <1>1, <1>2
<1>5. ASSUME NEW i \in DOMAIN w, NEW j \in DOMAIN w, w[i] = w[j]
      PROVE  i = j
  <2>1. \A a, b \in DOMAIN s : s[a] = s[b] => a = b
    BY DEF IsInjective
  <2>2. \A a, b \in DOMAIN t : t[a] = t[b] => a = b
    BY DEF IsInjective
  <2>3. CASE i \in DOMAIN s /\ w[i] = s[i]
    BY <1>0, <1>3, <1>4, <1>5, <2>1, <2>3
  <2>4. CASE i > Len(s) /\ i - Len(s) \in DOMAIN t /\ w[i] = t[i - Len(s)]
    <3>1. j > Len(s) /\ j - Len(s) \in DOMAIN t /\ w[j] = t[j - Len(s)]
      BY <1>3, <1>4, <1>5, <2>4
    <3>2. i - Len(s) = j - Len(s)
      BY <1>5, <2>2, <2>4, <3>1
    <3> QED
      BY <1>0, <1>2, <3>2
  <2> QED
    BY <1>4, <2>3, <2>4
<1>6. \A i \in DOMAIN s : i \in DOMAIN w /\ w[i] = s[i]
  BY <1>0, <1>1, <1>2
<1>7. \A j \in DOMAIN t : Len(s) + j \in DOMAIN w /\ w[Len(s) + j] = t[j]
  BY <1>0, <1>1, <1>2
<1>8. \A x : x \in ToSet(w) <=> x \in ToSet(s) \/ x \in ToSet(t)
  <2>1. ASSUME NEW i \in DOMAIN w PROVE w[i] \in ToSet(s) \/ w[i] \in ToSet(t)
    BY <1>4 DEF ToSet
  <2>2. ASSUME NEW i \in DOMAIN s PROVE s[i] \in ToSet(w)
    BY <1>6 DEF ToSet
  <2>3. ASSUME NEW j \in DOMAIN t PROVE t[j] \in ToSet(w)
    BY <1>7 DEF ToSet
  <2> QED
    BY <2>1, <2>2, <2>3 DEF ToSet
<1> QED
  BY <1>1, <1>5, <1>8 DEF IsInjective, w

\* A set of natural numbers that is not empty has a least element.  Induction
\* over data rests on this: the least counterexample of a claim.
LEMMA LeastNatural ==
  ASSUME NEW S \in SUBSET Nat, S # {}
  PROVE  \E n \in S : \A m \in S : n <= m
<1> DEFINE R == OpToRel(<, Nat)
<1>1. \E n \in S : \A m \in S : <<m, n>> \notin R
  <2>1. IsWellFoundedOn(R, Nat)
    BY NatLessThanWellFounded
  <2> HIDE DEF R
  <2> QED
    BY <2>1, WFMin
<1>2. \A m, n \in Nat : <<m, n>> \in R <=> m < n
  BY DEF OpToRel
<1> HIDE DEF R
<1>3. PICK n \in S : \A m \in S : <<m, n>> \notin R
  BY <1>1
<1>4. \A m \in S : ~ (m < n)
  BY <1>2, <1>3
<1>5. \A m \in Nat : ~ (m < n) => n <= m
  OBVIOUS
<1> QED
  BY <1>4, <1>5

\* The recursive function that FlattenSeq is defined with exists.
LEMMA FlattenExists ==
  ASSUME NEW s, NEW n \in Nat
  PROVE  \E f : f = [i \in 1 .. n |-> IF i = 1 THEN s[i] ELSE f[i - 1] \o s[i]]
<1> DEFINE Def(m) == \E f : f = [i \in 1 .. m |-> IF i = 1 THEN s[i] ELSE f[i - 1] \o s[i]]
           S == {m \in Nat : ~ Def(m)}
<1>1. SUFFICES ASSUME S # {} PROVE FALSE
  <2>1. n \in S \/ Def(n)
    OBVIOUS
  <2> QED
    BY <2>1
<1>2. PICK m \in S : \A k \in S : m <= k
  BY <1>1, LeastNatural
<1>3. m # 0
  <2>1. LET f == [i \in 1 .. 0 |-> 0] IN f = [i \in 1 .. 0 |-> IF i = 1 THEN s[i] ELSE f[i - 1] \o s[i]]
    OBVIOUS
  <2>2. Def(0)
    BY <2>1
  <2>3. 0 \notin S
    BY <2>2
  <2> QED
    BY <2>3
<1>4. m \in Nat /\ m - 1 \in Nat /\ ~ (m <= m - 1)
  BY <1>3
<1>5. Def(m - 1)
  <2>1. m - 1 \notin S
    BY <1>2, <1>4
  <2> QED
    BY <1>4, <2>1
<1>6. PICK f : f = [i \in 1 .. m - 1 |-> IF i = 1 THEN s[i] ELSE f[i - 1] \o s[i]]
  BY <1>5
<1> DEFINE g == [i \in 1 .. m |-> IF i = 1 THEN s[i] ELSE f[i - 1] \o s[i]]
<1>7. \A i \in 1 .. m - 1 : f[i] = IF i = 1 THEN s[i] ELSE f[i - 1] \o s[i]
  BY <1>6
<1>8. \A i \in 1 .. m - 1 : g[i] = f[i]
  <2>1. \A i \in 1 .. m - 1 : i \in 1 .. m
    BY <1>4
  <2> QED
    BY <1>7, <2>1
<1>9. ASSUME NEW i \in 1 .. m
      PROVE  g[i] = IF i = 1 THEN s[i] ELSE g[i - 1] \o s[i]
  <2>1. i # 1 => i - 1 \in 1 .. m - 1
    BY <1>4
  <2>2. g[i] = IF i = 1 THEN s[i] ELSE f[i - 1] \o s[i]
    OBVIOUS
  <2> HIDE DEF g
  <2> QED
    BY <1>8, <2>1, <2>2
<1>10. g = [i \in 1 .. m |-> IF i = 1 THEN s[i] ELSE g[i - 1] \o s[i]]
  <2>1. g = [i \in 1 .. m |-> g[i]]
    OBVIOUS
  <2> HIDE DEF g
  <2> QED
    BY <1>9, <2>1
<1>11. Def(m)
  BY <1>10
<1> QED
  BY <1>2, <1>11

\* FlattenSeq is what that function gives for all the sequences.
LEMMA FlattenIsRecursive ==
  ASSUME NEW s, NEW n \in Nat, Len(s) = n
  PROVE  \E f : /\ f = [i \in 1 .. n |-> IF i = 1 THEN s[i] ELSE f[i - 1] \o s[i]]
                /\ n # 0 => FlattenSeq(s) = f[n]
<1> DEFINE f == CHOOSE g : g = [i \in 1 .. n |-> IF i = 1 THEN s[i] ELSE g[i - 1] \o s[i]]
<1>1. f = [i \in 1 .. n |-> IF i = 1 THEN s[i] ELSE f[i - 1] \o s[i]]
  BY FlattenExists
<1>2. n # 0 => FlattenSeq(s) = f[n]
  BY DEF FlattenSeq
<1> QED
  BY <1>1, <1>2

-----------------------------------------------------------------------------
(***************************************************************************)
(* Sequences of whatever elements.                                         *)
(***************************************************************************)
\* A function on 1 .. n is a sequence of length n.
LEMMA SequenceOf ==
  ASSUME NEW n \in Nat, NEW s, s = [i \in 1 .. n |-> s[i]]
  PROVE  IsSequence(s) /\ Len(s) = n /\ DOMAIN s = 1 .. n
<1>1. s \in [1 .. n -> ToSet(s)]
  <2>1. \A i \in 1 .. n : s[i] \in ToSet(s)
    BY DEF ToSet
  <2> QED
    BY <2>1
<1>2. s \in Seq(ToSet(s))
  BY <1>1, SeqDef
<1>3. Len(s) \in Nat /\ 1 .. Len(s) = 1 .. n
  BY <1>1, <1>2, LenProperties
<1>4. \A a, b \in Nat : 1 .. a = 1 .. b => a = b
  OBVIOUS
<1> QED
  BY <1>2, <1>3, <1>4 DEF IsSequence

\* The length and the elements of a sequence.
LEMMA SequenceIs ==
  ASSUME NEW s, IsSequence(s)
  PROVE  Len(s) \in Nat /\ DOMAIN s = 1 .. Len(s) /\ s = [i \in 1 .. Len(s) |-> s[i]]
BY LenProperties DEF IsSequence

\* A sequence of whatever set is one.
LEMMA TypedSequence ==
  ASSUME NEW S, NEW s \in Seq(S)
  PROVE  IsSequence(s)
<1>1. Len(s) \in Nat /\ s = [i \in 1 .. Len(s) |-> s[i]]
  BY LenProperties
<1> QED
  BY <1>1, SequenceOf

\* Sequences of the same length and elements are equal.
LEMMA SequencesEqual ==
  ASSUME NEW s, IsSequence(s), NEW t, IsSequence(t),
         Len(s) = Len(t), \A i \in 1 .. Len(s) : s[i] = t[i]
  PROVE  s = t
BY SequenceIs

\* The elements of a concatenation.
LEMMA Concatenation ==
  ASSUME NEW s, IsSequence(s), NEW t, IsSequence(t)
  PROVE  /\ IsSequence(s \o t)
         /\ Len(s \o t) = Len(s) + Len(t)
         /\ \A i \in 1 .. Len(s) : (s \o t)[i] = s[i]
         /\ \A i \in 1 .. Len(t) : (s \o t)[Len(s) + i] = t[i]
<1> DEFINE S == ToSet(s) \cup ToSet(t)
<1>0. Len(s) \in Nat /\ Len(t) \in Nat
  BY SequenceIs
<1>1. s \in Seq(S) /\ t \in Seq(S)
  <2> HIDE DEF S
  <2>1. ToSet(s) \subseteq S /\ ToSet(t) \subseteq S
    BY DEF S
  <2> QED
    BY <2>1, SeqMonotonic DEF IsSequence
<1> HIDE DEF S
<1> DEFINE w == s \o t
<1>2. /\ w \in Seq(S) /\ Len(w) = Len(s) + Len(t)
      /\ \A i \in 1 .. Len(s) + Len(t) : w[i] = IF i <= Len(s) THEN s[i] ELSE t[i - Len(s)]
  BY <1>1, ConcatProperties
<1>3. IsSequence(w)
  BY <1>2, TypedSequence
<1> HIDE DEF w
<1>4. \A i \in 1 .. Len(s) : w[i] = s[i]
  BY <1>0, <1>2
<1>5. ASSUME NEW i \in 1 .. Len(t) PROVE w[Len(s) + i] = t[i]
  <2>1. Len(s) + i \in 1 .. Len(s) + Len(t) /\ ~(Len(s) + i <= Len(s)) /\ Len(s) + i - Len(s) = i
    BY <1>0
  <2> QED
    BY <1>2, <2>1
<1> QED
  BY <1>2, <1>3, <1>4, <1>5 DEF w

\* The elements of a subsequence.
LEMMA Subsequence ==
  ASSUME NEW s, IsSequence(s), NEW m \in 1 .. Len(s) + 1, NEW n \in m - 1 .. Len(s)
  PROVE  /\ IsSequence(SubSeq(s, m, n))
         /\ Len(SubSeq(s, m, n)) = n - m + 1
         /\ \A i \in 1 .. n - m + 1 : SubSeq(s, m, n)[i] = s[m + i - 1]
<1>0. Len(s) \in Nat /\ m \in Int /\ n \in Int
  BY SequenceIs
<1> DEFINE w == SubSeq(s, m, n)
<1>1. \A i \in m .. n : s[i] \in ToSet(s)
  BY <1>0, SequenceIs DEF ToSet
<1>2. /\ w \in Seq(ToSet(s)) /\ Len(w) = IF m <= n THEN n - m + 1 ELSE 0
      /\ \A i \in 1 .. n - m + 1 : w[i] = s[m + i - 1]
  BY <1>0, <1>1, SubSeqProperties
<1>3. IsSequence(w)
  BY <1>2, TypedSequence
<1> HIDE DEF w
<1>4. Len(w) = n - m + 1
  BY <1>0, <1>2
<1> QED
  BY <1>2, <1>3, <1>4 DEF w

\* The empty sequence is the one of length 0.
LEMMA EmptySequence ==
  /\ IsSequence(<<>>) /\ Len(<<>>) = 0
  /\ \A s : IsSequence(s) /\ Len(s) = 0 => s = <<>>
<1>1. <<>> \in Seq({}) /\ Len(<<>>) = 0
  BY EmptySeq
<1>2. IsSequence(<<>>)
  BY <1>1, TypedSequence
<1>3. \A s : IsSequence(s) /\ Len(s) = 0 => s = <<>>
  BY <1>1, <1>2, SequencesEqual
<1> QED
  BY <1>1, <1>2, <1>3

\* A sequence of one element.
LEMMA OneElement ==
  ASSUME NEW e
  PROVE  IsSequence(<<e>>) /\ Len(<<e>>) = 1 /\ <<e>>[1] = e /\ <<e>> # <<>>
<1>1. <<e>> \in Seq({e}) /\ Len(<<e>>) = 1
  OBVIOUS
<1>2. <<e>>[1] = e
  OBVIOUS
<1> QED
  BY <1>1, <1>2, TypedSequence, EmptySequence

\* A sequence of three elements.
LEMMA ThreeElements ==
  ASSUME NEW a, NEW b, NEW c
  PROVE  LET w == <<a, b, c>>
         IN  IsSequence(w) /\ Len(w) = 3 /\ w[1] = a /\ w[2] = b /\ w[3] = c
<1> PICK w : w = <<a, b, c>>
  OBVIOUS
<1>1. w \in Seq({a, b, c}) /\ Len(w) = 3 /\ w[1] = a /\ w[2] = b /\ w[3] = c
  OBVIOUS
<1>2. IsSequence(w)
  BY <1>1, TypedSequence
<1> QED
  BY <1>1, <1>2

\* A sequence of four elements.
LEMMA FourElements ==
  ASSUME NEW a, NEW b, NEW c, NEW d
  PROVE  LET w == <<a, b, c, d>>
         IN  IsSequence(w) /\ Len(w) = 4 /\ w[1] = a /\ w[2] = b /\ w[3] = c /\ w[4] = d
<1> PICK w : w = <<a, b, c, d>>
  OBVIOUS
<1>1. w \in Seq({a, b, c, d}) /\ Len(w) = 4 /\ w[1] = a /\ w[2] = b /\ w[3] = c /\ w[4] = d
  OBVIOUS
<1>2. IsSequence(w)
  BY <1>1, TypedSequence
<1> QED
  BY <1>1, <1>2

\* The first element on the wire.
LEMMA FirstElement ==
  ASSUME NEW s, IsSequence(s), s # <<>>
  PROVE  Head(s) = s[1] /\ 1 \in 1 .. Len(s) /\ 1 \in 0 .. Len(s)
<1>1. Len(s) \in Nat /\ Len(s) # 0
  BY SequenceIs, EmptySequence
<1>2. Head(s) = s[1]
  BY <1>1, HeadTailProperties DEF IsSequence
<1> QED
  BY <1>1, <1>2

\* The elements of a sequence that has one more.
LEMMA AppendIs ==
  ASSUME NEW s, IsSequence(s), NEW e
  PROVE  /\ IsSequence(Append(s, e)) /\ Len(Append(s, e)) = Len(s) + 1
         /\ Append(s, e)[Len(s) + 1] = e
         /\ \A i \in 1 .. Len(s) : Append(s, e)[i] = s[i]
<1> DEFINE S == ToSet(s) \cup {e}
<1>1. s \in Seq(S) /\ e \in S
  <2>1. ToSet(s) \subseteq S /\ e \in S
    OBVIOUS
  <2> HIDE DEF S
  <2> QED
    BY <2>1, SeqMonotonic DEF IsSequence
<1> HIDE DEF S
<1> PICK w : w = Append(s, e)
  OBVIOUS
<1>2. /\ w \in Seq(S) /\ Len(w) = Len(s) + 1 /\ w[Len(s) + 1] = e
      /\ \A i \in 1 .. Len(s) : w[i] = s[i]
  BY <1>1, AppendProperties
<1>3. IsSequence(w)
  BY <1>2, TypedSequence
<1> QED
  BY <1>2, <1>3

\* The sequence w is the first k sequences of s one after the other, and
\* off[j] is where the j-th of them ends.
BlocksOf(s, w, k, off) ==
  /\ IsSequence(w) /\ Len(w) = off[k]
  /\ \A j \in 1 .. k :
       /\ off[j - 1] \in Nat /\ off[j] = off[j - 1] + Len(s[j]) /\ off[j] <= off[k]
       /\ \A i \in 1 .. Len(s[j]) : w[off[j - 1] + i] = s[j][i]
  /\ \A i \in 1 .. off[k] : \E j \in 1 .. k : off[j - 1] < i /\ i <= off[j]

\* A flattened sequence is made of the sequences in it, in their order.
LEMMA FlattenBlocks ==
  ASSUME NEW s, NEW n \in Nat, n # 0, Len(s) = n, \A k \in 1 .. n : IsSequence(s[k])
  PROVE  \E off : off[0] = 0 /\ BlocksOf(s, FlattenSeq(s), n, off)
<1>1. PICK f : /\ f = [i \in 1 .. n |-> IF i = 1 THEN s[i] ELSE f[i - 1] \o s[i]]
               /\ FlattenSeq(s) = f[n]
  BY FlattenIsRecursive
<1> DEFINE off == [k \in 0 .. n |-> IF k = 0 THEN 0 ELSE Len(f[k])]
           S == {k \in 1 .. n : ~ BlocksOf(s, f[k], k, off)}
<1>2. f[1] = s[1] /\ \A k \in 2 .. n : f[k] = f[k - 1] \o s[k]
  <2>1. \A i \in 1 .. n : f[i] = IF i = 1 THEN s[i] ELSE f[i - 1] \o s[i]
    BY <1>1
  <2>2. 1 \in 1 .. n /\ \A k \in 2 .. n : k \in 1 .. n /\ k # 1
    OBVIOUS
  <2> QED
    BY <2>1, <2>2
<1>3. off[0] = 0 /\ \A k \in 1 .. n : off[k] = Len(f[k])
  OBVIOUS
<1>4. ASSUME NEW k \in 1 .. n PROVE Len(s[k]) \in Nat
  BY SequenceIs
<1> HIDE DEF off
<1>5. ASSUME S # {} PROVE FALSE
  <2>1. PICK k \in S : \A j \in S : k <= j
    <3>1. S \subseteq Nat
      OBVIOUS
    <3> QED
      BY <1>5, <3>1, LeastNatural
  <2>2. k # 1
    <3>1. BlocksOf(s, f[1], 1, off)
      <4>1. \A j \in 1 .. 1 : j = 1
        OBVIOUS
      <4>2. IsSequence(f[1]) /\ Len(f[1]) = off[1] /\ off[0] = 0 /\ off[1] = Len(s[1]) /\ f[1] = s[1]
        BY <1>2, <1>3
      <4>3. 1 - 1 = 0 /\ Len(s[1]) \in Nat /\ \A i \in Nat : 0 + i = i
        BY <1>4
      <4> QED
        BY <4>1, <4>2, <4>3 DEF BlocksOf
    <3> QED
      BY <3>1
  <2>3. k \in 2 .. n /\ k - 1 \in 1 .. n /\ Len(s[k]) \in Nat
    BY <1>4, <2>2
  <2>4. BlocksOf(s, f[k - 1], k - 1, off)
    <3>1. k - 1 \notin S
      <4>1. \A j \in S : j \in Nat
        OBVIOUS
      <4>2. ~ (k <= k - 1)
        BY <2>3
      <4> QED
        BY <2>1, <4>2
    <3> QED
      BY <2>3, <3>1
  <2>5. /\ IsSequence(f[k - 1]) /\ Len(f[k - 1]) = off[k - 1] /\ off[k - 1] \in Nat
    BY <2>3, <2>4, SequenceIs DEF BlocksOf
  <2>6. /\ IsSequence(f[k]) /\ Len(f[k]) = off[k - 1] + Len(s[k])
        /\ \A i \in 1 .. off[k - 1] : f[k][i] = f[k - 1][i]
        /\ \A i \in 1 .. Len(s[k]) : f[k][off[k - 1] + i] = s[k][i]
    <3>1. f[k] = f[k - 1] \o s[k] /\ IsSequence(s[k])
      BY <1>2, <2>3
    <3>2. IsSequence(f[k - 1])
      BY <2>5
    <3>3. /\ IsSequence(f[k - 1] \o s[k]) /\ Len(f[k - 1] \o s[k]) = Len(f[k - 1]) + Len(s[k])
          /\ \A i \in 1 .. Len(f[k - 1]) : (f[k - 1] \o s[k])[i] = f[k - 1][i]
          /\ \A i \in 1 .. Len(s[k]) : (f[k - 1] \o s[k])[Len(f[k - 1]) + i] = s[k][i]
      BY <3>1, <3>2, Concatenation
    <3>4. Len(f[k - 1]) = off[k - 1]
      BY <2>5
    <3> QED
      BY <3>1, <3>3, <3>4
  <2>7. off[k] = off[k - 1] + Len(s[k]) /\ off[k] \in Nat
    BY <1>3, <2>3, <2>5, <2>6
  <2>8. ASSUME NEW j \in 1 .. k
        PROVE  /\ off[j - 1] \in Nat /\ off[j] = off[j - 1] + Len(s[j]) /\ off[j] <= off[k]
               /\ \A i \in 1 .. Len(s[j]) : f[k][off[j - 1] + i] = s[j][i]
    <3>1. CASE j = k
      BY <2>5, <2>6, <2>7, <3>1
    <3>2. CASE j # k
      <4>1. j \in 1 .. k - 1
        BY <3>2
      <4>2. /\ off[j - 1] \in Nat /\ off[j] = off[j - 1] + Len(s[j]) /\ off[j] <= off[k - 1]
            /\ \A i \in 1 .. Len(s[j]) : f[k - 1][off[j - 1] + i] = s[j][i]
        BY <2>4, <4>1 DEF BlocksOf
      <4>3. Len(s[j]) \in Nat
        BY <1>4, <2>3
      <4>4. off[j] <= off[k]
        BY <2>3, <2>5, <2>7, <4>2, <4>3
      <4>5. ASSUME NEW i \in 1 .. Len(s[j]) PROVE f[k][off[j - 1] + i] = s[j][i]
        <5>1. off[j - 1] + i \in 1 .. off[k - 1]
          BY <2>5, <4>2, <4>3
        <5> QED
          BY <2>6, <4>2, <5>1
      <4> QED
        BY <4>2, <4>4, <4>5
    <3> QED
      BY <3>1, <3>2
  <2>9. ASSUME NEW i \in 1 .. off[k] PROVE \E j \in 1 .. k : off[j - 1] < i /\ i <= off[j]
    <3>1. CASE i <= off[k - 1]
      <4>1. i \in 1 .. off[k - 1]
        BY <2>5, <2>7, <3>1
      <4>2. PICK j \in 1 .. k - 1 : off[j - 1] < i /\ i <= off[j]
        BY <2>4, <4>1 DEF BlocksOf
      <4>3. j \in 1 .. k
        BY <2>3
      <4> QED
        BY <4>2, <4>3
    <3>2. CASE ~ (i <= off[k - 1])
      <4>1. off[k - 1] < i /\ i <= off[k] /\ k \in 1 .. k
        BY <2>3, <2>5, <2>7, <3>2
      <4> QED
        BY <4>1
    <3> QED
      BY <3>1, <3>2
  <2>10. Len(f[k]) = off[k]
    BY <2>6, <2>7
  <2>11. BlocksOf(s, f[k], k, off)
    BY <2>6, <2>8, <2>9, <2>10 DEF BlocksOf
  <2> QED
    BY <2>1, <2>11
<1>6. BlocksOf(s, f[n], n, off)
  <2>1. n \in 1 .. n
    OBVIOUS
  <2> QED
    BY <1>5, <2>1
<1> QED
  BY <1>1, <1>3, <1>6

\* The parts of a flattened sequence, also of an empty one.
LEMMA FlattenAny ==
  ASSUME NEW s, IsSequence(s), \A k \in 1 .. Len(s) : IsSequence(s[k])
  PROVE  \E off : off[0] = 0 /\ BlocksOf(s, FlattenSeq(s), Len(s), off)
<1> PICK n : n = Len(s)
  OBVIOUS
<1>1. n \in Nat
  BY SequenceIs
<1>2. CASE n # 0
  BY <1>1, <1>2, FlattenBlocks
<1>3. CASE n = 0
  <2>1. FlattenSeq(s) = s
    BY <1>3 DEF FlattenSeq
  <2>2. PICK off : off = [i \in {0} |-> 0]
    OBVIOUS
  <2>3. off[0] = 0 /\ 1 .. 0 = {}
    BY <2>2
  <2>4. BlocksOf(s, s, 0, off)
    BY <1>3, <2>3 DEF BlocksOf
  <2> QED
    BY <1>3, <2>1, <2>3, <2>4
<1> QED
  BY <1>2, <1>3
=============================================================================
