------------------------ MODULE GaebHierarchyProofs ------------------------
(***************************************************************************)
(* The structure of a bill of quantities stays one GAEB allows, every      *)
(* entry arrives where it is asked to go, and GaebHierarchy implements     *)
(* OutlineTree: whatever the sections, the positions and the limit of      *)
(* levels are.                                                             *)
(***************************************************************************)
EXTENDS GaebHierarchy, SequenceTheorems, WellFoundedInduction, TLAPS

-----------------------------------------------------------------------------
(* Induction on the natural numbers, in terms of sets                      *)

\* A non-empty set of natural numbers has a least member.
LEMMA LeastMember ==
    ASSUME NEW T, T \subseteq Nat, T # {}
    PROVE  \E n \in T : \A m \in T : n <= m
<1> DEFINE R == OpToRel(<, Nat)
<1>1. IsWellFoundedOn(R, Nat)
  BY NatLessThanWellFounded
<1>2. \E n \in T : \A m \in T : ~(<<m, n>> \in R)
  <2> HIDE DEF R
  <2> QED BY <1>1, WFMin
<1>3. \A m, n \in Nat : m < n => <<m, n>> \in R
  BY DEF OpToRel
<1>4. PICK n \in T : \A m \in T : ~(<<m, n>> \in R)
  BY <1>2
<1>5. \A m \in T : ~(m < n)
  <2> HIDE DEF R
  <2> QED BY <1>3, <1>4
<1>6. \A m \in T : n <= m
  BY <1>5
<1> QED BY <1>6

\* A set that has 0 and the successor of each of its numbers has all of them.
LEMMA AllNumbers ==
    ASSUME NEW G, 0 \in G, \A n \in Nat : n \in G => n + 1 \in G
    PROVE  \A n \in Nat : n \in G
<1> DEFINE T == Nat \ G
<1>1. SUFFICES ASSUME T # {} PROVE FALSE
  OBVIOUS
<1>2. PICK n \in T : \A m \in T : n <= m
  BY <1>1, LeastMember
<1>3. n # 0 /\ n - 1 \in Nat /\ n - 1 \notin T
  BY <1>2
<1> QED BY <1>2, <1>3

-----------------------------------------------------------------------------
(* Sequences without some of their elements                                *)

\* The steps of Omit: the elements kept of the first k ones.
KeptStep(s, X, f, k) ==
    IF k = 0 THEN <<>> ELSE IF s[k] \in X THEN f[k - 1] ELSE Append(f[k - 1], s[k])

Kept(s, X) == CHOOSE f : f = [k \in 0..Len(s) |-> KeptStep(s, X, f, k)]

LEMMA OmitIsKept == \A s, X : Tree!Omit(s, X) = Kept(s, X)[Len(s)]
  BY DEF Tree!Omit, Kept, KeptStep

KeptUpto(S, s, X, n) ==
    {f \in [0..n -> Seq(S)] : \A k \in 0..n : f[k] = KeptStep(s, X, f, k)}

\* The recursive function exists: it grows by one element at a time.
LEMMA KeptUnfolds ==
    ASSUME NEW S, NEW s \in Seq(S), NEW X
    PROVE  Kept(s, X) = [k \in 0..Len(s) |-> KeptStep(s, X, Kept(s, X), k)]
<1> DEFINE G == {n \in Nat : n <= Len(s) => KeptUpto(S, s, X, n) # {}}
<1>1. Len(s) \in Nat /\ \A k \in 1..Len(s) : s[k] \in S
  BY LenProperties
<1>2. 0 \in G
  <2> DEFINE f == [k \in 0..0 |-> <<>>]
  <2>1. f \in KeptUpto(S, s, X, 0)
    BY EmptySeq DEF KeptStep, KeptUpto
  <2> QED BY <2>1
<1>3. ASSUME NEW n \in Nat, n \in G PROVE n + 1 \in G
  <2> SUFFICES ASSUME n + 1 <= Len(s) PROVE KeptUpto(S, s, X, n + 1) # {}
    OBVIOUS
  <2>1. PICK f \in KeptUpto(S, s, X, n) : TRUE
    BY <1>3, <1>1
  <2> DEFINE x == KeptStep(s, X, f, n + 1)
             g == [k \in 0..(n + 1) |-> IF k = n + 1 THEN x ELSE f[k]]
  <2>2. f[n] \in Seq(S) /\ s[n + 1] \in S
    BY <2>1, <1>1 DEF KeptUpto
  <2>3. x \in Seq(S)
    BY <2>2, AppendProperties DEF KeptStep
  <2>4. g \in [0..(n + 1) -> Seq(S)]
    BY <2>1, <2>3 DEF KeptUpto
  <2>5. ASSUME NEW k \in 0..(n + 1) PROVE g[k] = KeptStep(s, X, g, k)
    <3>1. CASE k = n + 1
      BY <3>1, <2>1 DEF KeptStep
    <3>2. CASE k # n + 1
      <4>1. k \in 0..n /\ g[k] = f[k] /\ (k # 0 => k - 1 \in 0..n /\ g[k - 1] = f[k - 1])
        BY <3>2
      <4>2. f[k] = KeptStep(s, X, f, k)
        BY <4>1, <2>1 DEF KeptUpto
      <4> HIDE DEF g
      <4> QED BY <4>1, <4>2 DEF KeptStep
    <3> QED BY <3>1, <3>2
  <2> QED BY <2>4, <2>5 DEF KeptUpto
<1>4. \A n \in Nat : n \in G
  <2> HIDE DEF G
  <2> QED BY <1>2, <1>3, AllNumbers
<1>5. PICK f \in KeptUpto(S, s, X, Len(s)) : TRUE
  BY <1>4, <1>1
<1>6. f = [k \in 0..Len(s) |-> KeptStep(s, X, f, k)]
  BY <1>5 DEF KeptUpto
<1> QED BY <1>6 DEF Kept

LEMMA KeptInSeq ==
    ASSUME NEW S, NEW s \in Seq(S), NEW X, NEW n \in 0..Len(s)
    PROVE  Kept(s, X)[n] \in Seq(S \ X)
<1> DEFINE G == {k \in Nat : k <= Len(s) => Kept(s, X)[k] \in Seq(S \ X)}
<1>1. Len(s) \in Nat /\ \A k \in 1..Len(s) : s[k] \in S
  BY LenProperties
<1>2. ASSUME NEW k \in 0..Len(s) PROVE Kept(s, X)[k] = KeptStep(s, X, Kept(s, X), k)
  BY KeptUnfolds
<1>3. 0 \in G
  <2>1. Kept(s, X)[0] = KeptStep(s, X, Kept(s, X), 0)
    BY <1>2, <1>1
  <2> QED BY <2>1, EmptySeq DEF KeptStep
<1>4. ASSUME NEW k \in Nat, k \in G PROVE k + 1 \in G
  <2> SUFFICES ASSUME k + 1 <= Len(s) PROVE Kept(s, X)[k + 1] \in Seq(S \ X)
    OBVIOUS
  <2>1. Kept(s, X)[k] \in Seq(S \ X) /\ s[k + 1] \in S
    BY <1>4, <1>1
  <2>2. Kept(s, X)[k + 1] = KeptStep(s, X, Kept(s, X), k + 1)
    BY <1>2, <1>1
  <2> QED BY <2>1, <2>2, AppendProperties DEF KeptStep
<1>5. \A k \in Nat : k \in G
  <2> HIDE DEF G
  <2> QED BY <1>3, <1>4, AllNumbers
<1> QED BY <1>5

LEMMA OmitInSeq ==
    ASSUME NEW S, NEW s \in Seq(S), NEW X
    PROVE  /\ Tree!Omit(s, X) \in Seq(S \ X)
           /\ Tree!Omit(s, X) \in Seq(S)
<1>1. Len(s) \in 0..Len(s)
  BY LenProperties
<1>2. Tree!Omit(s, X) \in Seq(S \ X)
  BY <1>1, KeptInSeq, OmitIsKept
<1>3. S \ X \subseteq S
  OBVIOUS
<1> QED BY <1>2, <1>3, SeqMonotonic

LEMMA OmitEmpty == \A X : Tree!Omit(<<>>, X) = <<>>
<1> TAKE X
<1>1. <<>> \in Seq({}) /\ Len(<<>>) = 0
  BY EmptySeq
<1>2. Kept(<<>>, X)[0] = KeptStep(<<>>, X, Kept(<<>>, X), 0)
  <2>1. Kept(<<>>, X) = [k \in 0..Len(<<>>) |-> KeptStep(<<>>, X, Kept(<<>>, X), k)]
    <3> DEFINE nil == <<>>
    <3>1. nil \in Seq({})
      BY <1>1
    <3> HIDE DEF nil
    <3>2. Kept(nil, X) = [k \in 0..Len(nil) |-> KeptStep(nil, X, Kept(nil, X), k)]
      BY <3>1, KeptUnfolds
    <3> QED BY <3>2 DEF nil
  <2>2. 0 \in 0..Len(<<>>)
    BY <1>1
  <2> QED BY <2>1, <2>2
<1> QED BY <1>1, <1>2, OmitIsKept DEF KeptStep

\* The last element is kept unless it is one to omit.
LEMMA OmitAppend ==
    ASSUME NEW S, NEW s \in Seq(S), NEW x \in S, NEW X
    PROVE  Tree!Omit(Append(s, x), X) =
               IF x \in X THEN Tree!Omit(s, X) ELSE Append(Tree!Omit(s, X), x)
<1> DEFINE t == Append(s, x)
           n == Len(s)
<1>1. n \in Nat /\ t \in Seq(S) /\ Len(t) = n + 1 /\ t[n + 1] = x
      /\ \A k \in 1..n : t[k] = s[k]
  BY LenProperties, AppendProperties
<1> HIDE DEF t
<1>2. ASSUME NEW k \in 0..n PROVE Kept(s, X)[k] = KeptStep(s, X, Kept(s, X), k)
  BY KeptUnfolds
<1>3. ASSUME NEW k \in 0..(n + 1) PROVE Kept(t, X)[k] = KeptStep(t, X, Kept(t, X), k)
  BY <1>1, KeptUnfolds
<1> DEFINE G == {k \in Nat : k <= n => Kept(t, X)[k] = Kept(s, X)[k]}
<1>4. 0 \in G
  BY <1>1, <1>2, <1>3 DEF KeptStep
<1>5. ASSUME NEW k \in Nat, k \in G PROVE k + 1 \in G
  <2> SUFFICES ASSUME k + 1 <= n PROVE Kept(t, X)[k + 1] = Kept(s, X)[k + 1]
    OBVIOUS
  <2>1. Kept(t, X)[k] = Kept(s, X)[k] /\ t[k + 1] = s[k + 1]
    BY <1>1, <1>5
  <2>2. Kept(s, X)[k + 1] = KeptStep(s, X, Kept(s, X), k + 1)
    BY <1>2, <1>1
  <2>3. Kept(t, X)[k + 1] = KeptStep(t, X, Kept(t, X), k + 1)
    BY <1>3, <1>1
  <2> QED BY <2>1, <2>2, <2>3 DEF KeptStep
<1>6. \A k \in Nat : k \in G
  <2> HIDE DEF G
  <2> QED BY <1>4, <1>5, AllNumbers
<1>7. Kept(t, X)[n] = Kept(s, X)[n]
  BY <1>1, <1>6
<1>8. Kept(t, X)[n + 1] = KeptStep(t, X, Kept(t, X), n + 1)
  BY <1>1, <1>3
<1>9. Tree!Omit(t, X) = Kept(t, X)[n + 1] /\ Tree!Omit(s, X) = Kept(s, X)[n]
  BY <1>1, OmitIsKept
<1>10. KeptStep(t, X, Kept(t, X), n + 1) =
           IF x \in X THEN Kept(s, X)[n] ELSE Append(Kept(s, X)[n], x)
  BY <1>1, <1>7 DEF KeptStep
<1> QED BY <1>8, <1>9, <1>10 DEF t

-----------------------------------------------------------------------------
(* Concatenation and the elements of sequences                             *)

LEMMA OneElement ==
    ASSUME NEW S, NEW x \in S
    PROVE  /\ <<x>> \in Seq(S) /\ Len(<<x>>) = 1 /\ <<x>>[1] = x
           /\ <<x>> = Append(<<>>, x)
  OBVIOUS

LEMMA ConcatAppend ==
    ASSUME NEW S, NEW s \in Seq(S), NEW t \in Seq(S), NEW x \in S
    PROVE  s \o Append(t, x) = Append(s \o t, x)
<1>1. <<x>> \in Seq(S) /\ s \o t \in Seq(S)
  BY OneElement, ConcatProperties
<1>2. Append(t, x) = t \o <<x>> /\ Append(s \o t, x) = (s \o t) \o <<x>>
  BY <1>1, AppendIsConcat
<1> QED BY <1>1, <1>2, ConcatAssociative

LEMMA LastElement ==
    ASSUME NEW S, NEW s \in Seq(S), NEW n \in Nat, Len(s) = n + 1
    PROVE  \E t \in Seq(S), x \in S : s = Append(t, x) /\ Len(t) = n
<1>1. s # <<>>
  BY EmptySeq
<1>2. PICK t \in Seq(S), x \in S : s = Append(t, x)
  BY <1>1, SequenceEmptyOrAppend
<1>3. Len(t) = n
  BY <1>2, AppendProperties, LenProperties
<1> QED BY <1>2, <1>3

LEMMA OmitOne ==
    ASSUME NEW S, NEW x \in S, NEW X
    PROVE  Tree!Omit(<<x>>, X) = IF x \in X THEN <<>> ELSE <<x>>
<1> DEFINE nil == <<>>
<1>1. nil \in Seq(S) /\ <<x>> = Append(nil, x)
  BY EmptySeq, OneElement
<1>2. Tree!Omit(nil, X) = nil
  BY OmitEmpty
<1> HIDE DEF nil
<1>3. Tree!Omit(Append(nil, x), X) =
          IF x \in X THEN Tree!Omit(nil, X) ELSE Append(Tree!Omit(nil, X), x)
  BY <1>1, OmitAppend
<1>4. Tree!Omit(<<x>>, X) = IF x \in X THEN nil ELSE <<x>>
  BY ONLY <1>1, <1>2, <1>3
<1> QED BY <1>4 DEF nil

LEMMA OmitConcat ==
    ASSUME NEW S, NEW s \in Seq(S), NEW t \in Seq(S), NEW X
    PROVE  Tree!Omit(s \o t, X) = Tree!Omit(s, X) \o Tree!Omit(t, X)
<1> DEFINE G == {n \in Nat : \A u \in Seq(S) :
                    Len(u) = n => Tree!Omit(s \o u, X) = Tree!Omit(s, X) \o Tree!Omit(u, X)}
<1>1. 0 \in G
  <2> SUFFICES ASSUME NEW u \in Seq(S), Len(u) = 0
               PROVE  Tree!Omit(s \o u, X) = Tree!Omit(s, X) \o Tree!Omit(u, X)
    OBVIOUS
  <2>1. u = <<>>
    BY EmptySeq
  <2>2. s \o u = s /\ Tree!Omit(u, X) = <<>>
    BY <2>1, ConcatEmptySeq, OmitEmpty
  <2>3. Tree!Omit(s, X) \o <<>> = Tree!Omit(s, X)
    BY OmitInSeq, ConcatEmptySeq
  <2> QED BY <2>2, <2>3
<1>2. ASSUME NEW n \in Nat, n \in G PROVE n + 1 \in G
  <2> SUFFICES ASSUME NEW v \in Seq(S), Len(v) = n + 1
               PROVE  Tree!Omit(s \o v, X) = Tree!Omit(s, X) \o Tree!Omit(v, X)
    OBVIOUS
  <2>1. \E u \in Seq(S), x \in S : v = Append(u, x) /\ Len(u) = n
    BY LastElement
  <2>2. PICK u \in Seq(S), x \in S : v = Append(u, x) /\ Len(u) = n
    BY ONLY <2>1
  <2>4. Tree!Omit(s \o u, X) = Tree!Omit(s, X) \o Tree!Omit(u, X)
    BY <1>2, <2>2
  <2>5. s \o v = Append(s \o u, x) /\ s \o u \in Seq(S)
    BY <2>2, ConcatAppend, ConcatProperties
  <2>6. /\ Tree!Omit(s \o v, X) =
               IF x \in X THEN Tree!Omit(s \o u, X) ELSE Append(Tree!Omit(s \o u, X), x)
        /\ Tree!Omit(v, X) = IF x \in X THEN Tree!Omit(u, X) ELSE Append(Tree!Omit(u, X), x)
    <3>1. \A w \in Seq(S) : Tree!Omit(Append(w, x), X) =
                                IF x \in X THEN Tree!Omit(w, X) ELSE Append(Tree!Omit(w, X), x)
      BY OmitAppend
    <3> QED BY ONLY <3>1, <2>2, <2>5
  <2>7. Tree!Omit(s, X) \o Append(Tree!Omit(u, X), x) =
            Append(Tree!Omit(s, X) \o Tree!Omit(u, X), x)
    <3>1. Tree!Omit(s, X) \in Seq(S) /\ Tree!Omit(u, X) \in Seq(S)
      BY OmitInSeq
    <3> QED BY <3>1, ConcatAppend
  <2> QED BY <2>4, <2>6, <2>7
<1>3. \A n \in Nat : n \in G
  <2> HIDE DEF G
  <2> QED BY <1>1, <1>2, AllNumbers
<1>4. Len(t) \in Nat
  BY LenProperties
<1> QED BY <1>3, <1>4

\* Membership.
LEMMA ToSetIs ==
    ASSUME NEW S, NEW s \in Seq(S), NEW x
    PROVE  x \in ToSet(s) <=> \E k \in 1..Len(s) : s[k] = x
  BY LenProperties DEF ToSet

LEMMA ToSetEmpty == ToSet(<<>>) = {}
  BY DEF ToSet

LEMMA ToSetConcat ==
    ASSUME NEW S, NEW s \in Seq(S), NEW t \in Seq(S)
    PROVE  ToSet(s \o t) = ToSet(s) \cup ToSet(t)
<1>1. /\ Len(s) \in Nat /\ Len(t) \in Nat
      /\ s \o t \in Seq(S) /\ Len(s \o t) = Len(s) + Len(t)
      /\ \A k \in 1..(Len(s) + Len(t)) :
            (s \o t)[k] = IF k <= Len(s) THEN s[k] ELSE t[k - Len(s)]
  BY LenProperties, ConcatProperties
<1>2. ASSUME NEW x, x \in ToSet(s \o t) PROVE x \in ToSet(s) \/ x \in ToSet(t)
  <2>1. PICK k \in 1..Len(s \o t) : (s \o t)[k] = x
    BY <1>1, <1>2, ToSetIs
  <2>2. CASE k <= Len(s)
    <3>1. k \in 1..Len(s) /\ s[k] = x
      BY <1>1, <2>1, <2>2
    <3> QED BY <3>1, ToSetIs
  <2>3. CASE ~(k <= Len(s))
    <3>1. k - Len(s) \in 1..Len(t) /\ t[k - Len(s)] = x
      BY <1>1, <2>1, <2>3
    <3> QED BY <3>1, ToSetIs
  <2> QED BY <2>2, <2>3
<1>3. ASSUME NEW x, x \in ToSet(s) PROVE x \in ToSet(s \o t)
  <2>1. PICK k \in 1..Len(s) : s[k] = x
    BY <1>3, ToSetIs
  <2>2. k \in 1..Len(s \o t) /\ (s \o t)[k] = x
    BY <1>1, <2>1
  <2> QED BY <1>1, <2>2, ToSetIs
<1>4. ASSUME NEW x, x \in ToSet(t) PROVE x \in ToSet(s \o t)
  <2>1. PICK k \in 1..Len(t) : t[k] = x
    BY <1>4, ToSetIs
  <2>2. k + Len(s) \in 1..Len(s \o t) /\ (s \o t)[k + Len(s)] = x
    BY <1>1, <2>1
  <2> QED BY <1>1, <2>2, ToSetIs
<1> QED BY <1>2, <1>3, <1>4

LEMMA ToSetOne == \A x : ToSet(<<x>>) = {x}
  BY DEF ToSet

LEMMA ToSetAppend ==
    ASSUME NEW S, NEW s \in Seq(S), NEW x \in S
    PROVE  ToSet(Append(s, x)) = ToSet(s) \cup {x}
<1>1. Append(s, x) = s \o <<x>> /\ <<x>> \in Seq(S)
  BY AppendIsConcat, OneElement
<1>2. ToSet(s \o <<x>>) = ToSet(s) \cup ToSet(<<x>>)
  <2> DEFINE u == <<x>>
  <2>1. u \in Seq(S)
    BY <1>1
  <2>2. ToSet(s \o u) = ToSet(s) \cup ToSet(u)
    <3> HIDE DEF u
    <3> QED BY <2>1, ToSetConcat
  <2> QED BY <2>2
<1> QED BY <1>1, <1>2, ToSetOne

LEMMA ToSetOmit ==
    ASSUME NEW S, NEW s \in Seq(S), NEW X
    PROVE  ToSet(Tree!Omit(s, X)) = ToSet(s) \ X
<1> DEFINE G == {n \in Nat : \A u \in Seq(S) :
                    Len(u) = n => ToSet(Tree!Omit(u, X)) = ToSet(u) \ X}
<1>1. 0 \in G
  <2> SUFFICES ASSUME NEW u \in Seq(S), Len(u) = 0
               PROVE  ToSet(Tree!Omit(u, X)) = ToSet(u) \ X
    OBVIOUS
  <2>1. u = <<>>
    BY EmptySeq
  <2> QED BY <2>1, OmitEmpty, ToSetEmpty
<1>2. ASSUME NEW n \in Nat, n \in G PROVE n + 1 \in G
  <2> SUFFICES ASSUME NEW v \in Seq(S), Len(v) = n + 1
               PROVE  ToSet(Tree!Omit(v, X)) = ToSet(v) \ X
    OBVIOUS
  <2>0. v \in Seq(S) /\ n \in Nat /\ Len(v) = n + 1
    OBVIOUS
  <2>1. \E u \in Seq(S), x \in S : v = Append(u, x) /\ Len(u) = n
    BY ONLY <2>0, LastElement
  <2>2. PICK u \in Seq(S), x \in S : v = Append(u, x) /\ Len(u) = n
    BY ONLY <2>1
  <2>4. ToSet(Tree!Omit(u, X)) = ToSet(u) \ X
    BY <1>2, <2>2
  <2>5. ToSet(v) = ToSet(u) \cup {x}
    BY <2>2, ToSetAppend
  <2>6. ToSet(Append(Tree!Omit(u, X), x)) = ToSet(Tree!Omit(u, X)) \cup {x}
    <3>1. Tree!Omit(u, X) \in Seq(S)
      BY OmitInSeq
    <3> QED BY <3>1, ToSetAppend
  <2>7. Tree!Omit(v, X) = IF x \in X THEN Tree!Omit(u, X) ELSE Append(Tree!Omit(u, X), x)
    BY <2>2, OmitAppend
  <2> QED BY ONLY <2>4, <2>5, <2>6, <2>7
<1>3. \A n \in Nat : n \in G
  <2> HIDE DEF G
  <2> QED BY <1>1, <1>2, AllNumbers
<1>4. Len(s) \in Nat
  BY LenProperties
<1> QED BY <1>3, <1>4

LEMMA OmitNothing ==
    ASSUME NEW S, NEW s \in Seq(S), NEW X, ToSet(s) \cap X = {}
    PROVE  Tree!Omit(s, X) = s
<1> DEFINE G == {n \in Nat : \A u \in Seq(S) :
                    Len(u) = n /\ ToSet(u) \cap X = {} => Tree!Omit(u, X) = u}
<1>1. 0 \in G
  <2> SUFFICES ASSUME NEW u \in Seq(S), Len(u) = 0
               PROVE  Tree!Omit(u, X) = u
    OBVIOUS
  <2>1. u = <<>>
    BY EmptySeq
  <2> QED BY <2>1, OmitEmpty
<1>2. ASSUME NEW n \in Nat, n \in G PROVE n + 1 \in G
  <2> SUFFICES ASSUME NEW v \in Seq(S), Len(v) = n + 1, ToSet(v) \cap X = {}
               PROVE  Tree!Omit(v, X) = v
    OBVIOUS
  <2>0. v \in Seq(S) /\ n \in Nat /\ Len(v) = n + 1
    OBVIOUS
  <2>1. \E u \in Seq(S), x \in S : v = Append(u, x) /\ Len(u) = n
    BY ONLY <2>0, LastElement
  <2>2. PICK u \in Seq(S), x \in S : v = Append(u, x) /\ Len(u) = n
    BY ONLY <2>1
  <2>4. ToSet(v) = ToSet(u) \cup {x}
    BY <2>2, ToSetAppend
  <2>5. Tree!Omit(u, X) = u
    BY <1>2, <2>2, <2>4
  <2>6. Tree!Omit(v, X) = IF x \in X THEN Tree!Omit(u, X) ELSE Append(Tree!Omit(u, X), x)
    BY <2>2, OmitAppend
  <2> QED BY <2>2, <2>4, <2>5, <2>6
<1>3. \A n \in Nat : n \in G
  <2> HIDE DEF G
  <2> QED BY <1>1, <1>2, AllNumbers
<1>4. Len(s) \in Nat
  BY LenProperties
<1> QED BY <1>3, <1>4

\* No element occurs twice.
Distinct(s) == \A j, k \in 1..Len(s) : s[j] = s[k] => j = k

LEMMA DistinctConcat ==
    ASSUME NEW S, NEW s \in Seq(S), NEW t \in Seq(S)
    PROVE  Distinct(s \o t) <=> Distinct(s) /\ Distinct(t) /\ ToSet(s) \cap ToSet(t) = {}
<1>1. /\ Len(s) \in Nat /\ Len(t) \in Nat
      /\ Len(s \o t) = Len(s) + Len(t)
      /\ \A k \in 1..(Len(s) + Len(t)) :
            (s \o t)[k] = IF k <= Len(s) THEN s[k] ELSE t[k - Len(s)]
  BY LenProperties, ConcatProperties
<1> DEFINE c == s \o t
<1>2. /\ Len(c) = Len(s) + Len(t)
      /\ \A k \in 1..(Len(s) + Len(t)) : c[k] = IF k <= Len(s) THEN s[k] ELSE t[k - Len(s)]
  BY <1>1
<1> HIDE DEF c
<1>3. ASSUME Distinct(c) PROVE Distinct(s) /\ Distinct(t) /\ ToSet(s) \cap ToSet(t) = {}
  <2>1. Distinct(s)
    BY <1>1, <1>2, <1>3 DEF Distinct
  <2>2. ASSUME NEW j \in 1..Len(t), NEW k \in 1..Len(t), t[j] = t[k] PROVE j = k
    <3>1. j + Len(s) \in 1..Len(c) /\ k + Len(s) \in 1..Len(c)
          /\ c[j + Len(s)] = t[j] /\ c[k + Len(s)] = t[k]
      BY <1>1, <1>2
    <3>2. j + Len(s) = k + Len(s)
      BY <1>3, <2>2, <3>1 DEF Distinct
    <3> QED BY <1>1, <3>2
  <2>3. ASSUME NEW x, x \in ToSet(s), x \in ToSet(t) PROVE FALSE
    <3>1. PICK j \in 1..Len(s) : s[j] = x
      BY <2>3, ToSetIs
    <3>2. PICK k \in 1..Len(t) : t[k] = x
      BY <2>3, ToSetIs
    <3>3. j \in 1..Len(c) /\ k + Len(s) \in 1..Len(c) /\ c[j] = x /\ c[k + Len(s)] = x
          /\ j # k + Len(s)
      BY <1>1, <1>2, <3>1, <3>2
    <3> QED BY <1>3, <3>3 DEF Distinct
  <2> QED BY <2>1, <2>2, <2>3 DEF Distinct
<1>4. ASSUME Distinct(s), Distinct(t), ToSet(s) \cap ToSet(t) = {} PROVE Distinct(c)
  <2> SUFFICES ASSUME NEW j \in 1..Len(c), NEW k \in 1..Len(c), c[j] = c[k] PROVE j = k
    BY DEF Distinct
  <2>1. CASE j <= Len(s) /\ k <= Len(s)
    <3>1. j \in 1..Len(s) /\ k \in 1..Len(s) /\ s[j] = s[k]
      BY <1>1, <1>2, <2>1
    <3> QED BY <1>4, <3>1 DEF Distinct
  <2>2. CASE ~(j <= Len(s)) /\ ~(k <= Len(s))
    <3>1. j - Len(s) \in 1..Len(t) /\ k - Len(s) \in 1..Len(t) /\ t[j - Len(s)] = t[k - Len(s)]
      BY <1>1, <1>2, <2>2
    <3>2. j - Len(s) = k - Len(s)
      BY <1>4, <3>1 DEF Distinct
    <3> QED BY <1>1, <1>2, <3>2
  <2>3. ASSUME NEW l \in 1..Len(c), NEW m \in 1..Len(c), l <= Len(s), ~(m <= Len(s)), c[l] = c[m]
        PROVE  FALSE
    <3>1. l \in 1..Len(s) /\ m - Len(s) \in 1..Len(t) /\ s[l] = t[m - Len(s)]
      BY <1>1, <1>2, <2>3
    <3>2. s[l] \in ToSet(s) /\ t[m - Len(s)] \in ToSet(t)
      BY <3>1, ToSetIs
    <3> QED BY <1>4, <3>1, <3>2
  <2> QED BY <2>1, <2>2, <2>3
<1> QED BY <1>3, <1>4 DEF c

LEMMA DistinctShort ==
    /\ Distinct(<<>>)
    /\ \A x : Distinct(<<x>>)
  BY DEF Distinct

LEMMA DistinctAppend ==
    ASSUME NEW S, NEW s \in Seq(S), NEW x \in S
    PROVE  Distinct(Append(s, x)) <=> Distinct(s) /\ x \notin ToSet(s)
<1> DEFINE u == <<x>>
<1>1. u \in Seq(S) /\ Append(s, x) = s \o u /\ Distinct(u) /\ ToSet(u) = {x}
  BY OneElement, AppendIsConcat, DistinctShort, ToSetOne
<1> HIDE DEF u
<1> QED BY <1>1, DistinctConcat

LEMMA DistinctOmit ==
    ASSUME NEW S, NEW s \in Seq(S), NEW X, Distinct(s)
    PROVE  Distinct(Tree!Omit(s, X))
<1> DEFINE G == {n \in Nat : \A u \in Seq(S) :
                    Len(u) = n /\ Distinct(u) => Distinct(Tree!Omit(u, X))}
<1>1. 0 \in G
  <2> SUFFICES ASSUME NEW u \in Seq(S), Len(u) = 0
               PROVE  Distinct(Tree!Omit(u, X))
    OBVIOUS
  <2>1. u = <<>>
    BY EmptySeq
  <2> QED BY <2>1, OmitEmpty, DistinctShort
<1>2. ASSUME NEW n \in Nat, n \in G PROVE n + 1 \in G
  <2> SUFFICES ASSUME NEW v \in Seq(S), Len(v) = n + 1, Distinct(v)
               PROVE  Distinct(Tree!Omit(v, X))
    OBVIOUS
  <2>1. \E u \in Seq(S), x \in S : v = Append(u, x) /\ Len(u) = n
    BY LastElement
  <2>2. PICK u \in Seq(S), x \in S : v = Append(u, x) /\ Len(u) = n
    BY ONLY <2>1
  <2>4. Distinct(u) /\ x \notin ToSet(u)
    BY <2>2, DistinctAppend
  <2>5. Distinct(Tree!Omit(u, X))
    BY <1>2, <2>2, <2>4
  <2>6. Tree!Omit(v, X) = IF x \in X THEN Tree!Omit(u, X) ELSE Append(Tree!Omit(u, X), x)
    BY <2>2, OmitAppend
  <2>7. Tree!Omit(u, X) \in Seq(S) /\ x \notin ToSet(Tree!Omit(u, X))
    BY <2>4, OmitInSeq, ToSetOmit
  <2>8. Distinct(Append(Tree!Omit(u, X), x))
    BY <2>5, <2>7, DistinctAppend
  <2> QED BY <2>5, <2>6, <2>8
<1>3. \A n \in Nat : n \in G
  <2> HIDE DEF G
  <2> QED BY <1>1, <1>2, AllNumbers
<1>4. Len(s) \in Nat
  BY LenProperties
<1> QED BY <1>3, <1>4

-----------------------------------------------------------------------------
(* Taking sequences apart and putting an element between                   *)

LEMMA Cut ==
    ASSUME NEW S, NEW s \in Seq(S), NEW k \in 1..(Len(s) + 1)
    PROVE  /\ SubSeq(s, 1, k - 1) \in Seq(S) /\ SubSeq(s, k, Len(s)) \in Seq(S)
           /\ Len(SubSeq(s, 1, k - 1)) = k - 1
           /\ Len(SubSeq(s, k, Len(s))) = Len(s) - k + 1
           /\ s = SubSeq(s, 1, k - 1) \o SubSeq(s, k, Len(s))
<1>1. Len(s) \in Nat /\ \A j \in 1..Len(s) : s[j] \in S
  BY LenProperties
<1>2. SubSeq(s, 1, Len(s)) = s
  BY SubSeqFull
<1>3. SubSeq(s, 1, k - 1) \o SubSeq(s, k, Len(s)) = SubSeq(s, 1, Len(s))
  <2> DEFINE l == k - 1
  <2>1. 1 \in 1..(Len(s) + 1) /\ l \in (1 - 1)..Len(s) /\ Len(s) \in l..Len(s) /\ k = l + 1
    BY <1>1
  <2> HIDE DEF l
  <2>2. SubSeq(s, 1, l) \o SubSeq(s, l + 1, Len(s)) = SubSeq(s, 1, Len(s))
    BY <2>1, ConcatAdjacentSubSeq
  <2> QED BY <2>1, <2>2 DEF l
<1>4. \A j \in 1..(k - 1) : s[j] \in S
  BY <1>1
<1>5. \A j \in k..Len(s) : s[j] \in S
  BY <1>1
<1>6. /\ SubSeq(s, 1, k - 1) \in Seq(S)
      /\ Len(SubSeq(s, 1, k - 1)) = IF 1 <= k - 1 THEN (k - 1) - 1 + 1 ELSE 0
  BY <1>1, <1>4, SubSeqProperties
<1>7. /\ SubSeq(s, k, Len(s)) \in Seq(S)
      /\ Len(SubSeq(s, k, Len(s))) = IF k <= Len(s) THEN Len(s) - k + 1 ELSE 0
  BY <1>1, <1>5, SubSeqProperties
<1>8. Len(SubSeq(s, 1, k - 1)) = k - 1
  <2>1. CASE 1 <= k - 1
    BY <1>6, <2>1
  <2>2. CASE ~(1 <= k - 1)
    BY <1>6, <2>2
  <2> QED BY <2>1, <2>2
<1>10. Len(SubSeq(s, k, Len(s))) = Len(s) - k + 1
  <2>1. CASE k <= Len(s)
    BY <1>7, <2>1
  <2>2. CASE ~(k <= Len(s))
    BY <1>1, <1>7, <2>2
  <2> QED BY <2>1, <2>2
<1>9. s = SubSeq(s, 1, k - 1) \o SubSeq(s, k, Len(s))
  BY ONLY <1>2, <1>3
<1> QED BY <1>6, <1>7, <1>8, <1>9, <1>10

\* The two halves of a concatenation.
LEMMA Halves ==
    ASSUME NEW S, NEW x \in Seq(S), NEW y \in Seq(S)
    PROVE  /\ SubSeq(x \o y, 1, Len(x)) = x
           /\ SubSeq(x \o y, Len(x) + 1, Len(x \o y)) = y
<1> DEFINE s == x \o y
           a == SubSeq(s, 1, Len(x))
           b == SubSeq(s, Len(x) + 1, Len(s))
<1>1. /\ Len(x) \in Nat /\ Len(y) \in Nat /\ s \in Seq(S)
      /\ Len(s) = Len(x) + Len(y)
      /\ \A k \in 1..(Len(x) + Len(y)) :
            s[k] = IF k <= Len(x) THEN x[k] ELSE y[k - Len(x)]
  BY LenProperties, ConcatProperties
<1> HIDE DEF s
<1>2. \A k \in 1..Len(s) : s[k] \in S
  BY <1>1, LenProperties
<1>3. a = x
  <2>1. \A k \in 1..Len(x) : s[k] \in S
    BY <1>1, <1>2
  <2>2. /\ a \in Seq(S)
        /\ Len(a) = IF 1 <= Len(x) THEN Len(x) - 1 + 1 ELSE 0
        /\ \A k \in 1..(Len(x) - 1 + 1) : a[k] = s[1 + k - 1]
    BY <1>1, <2>1, SubSeqProperties
  <2> HIDE DEF a
  <2>3. Len(a) = Len(x)
    BY <1>1, <2>2
  <2>4. \A k \in 1..Len(a) : a[k] = x[k]
    BY <1>1, <2>2, <2>3
  <2> QED BY <2>2, <2>3, <2>4, SeqEqual
<1>4. b = y
  <2>1. \A k \in (Len(x) + 1)..Len(s) : s[k] \in S
    BY <1>1, <1>2
  <2>2. /\ b \in Seq(S)
        /\ Len(b) = IF Len(x) + 1 <= Len(s) THEN Len(s) - (Len(x) + 1) + 1 ELSE 0
        /\ \A k \in 1..(Len(s) - (Len(x) + 1) + 1) : b[k] = s[(Len(x) + 1) + k - 1]
    BY <1>1, <2>1, SubSeqProperties
  <2> HIDE DEF b
  <2>3. Len(b) = Len(y)
    BY <1>1, <2>2
  <2>4. ASSUME NEW k \in 1..Len(b) PROVE b[k] = y[k]
    <3>1. /\ (Len(x) + 1) + k - 1 = Len(x) + k /\ Len(x) + k \in 1..(Len(x) + Len(y))
          /\ ~(Len(x) + k <= Len(x)) /\ (Len(x) + k) - Len(x) = k
          /\ k \in 1..(Len(s) - (Len(x) + 1) + 1)
      BY <1>1, <2>3
    <3>2. b[k] = s[(Len(x) + 1) + k - 1]
      BY <2>2, <3>1
    <3> QED BY <1>1, <3>1, <3>2
  <2> QED BY <2>2, <2>3, <2>4, SeqEqual
<1> QED BY <1>3, <1>4 DEF s

LEMMA InsertBetween ==
    ASSUME NEW S, NEW x \in Seq(S), NEW y \in Seq(S), NEW e
    PROVE  InsertAt(x \o y, Len(x) + 1, e) = (x \o <<e>>) \o y
<1>1. Len(x) \in Nat /\ (Len(x) + 1) - 1 = Len(x)
  BY LenProperties
<1>2. SubSeq(x \o y, 1, (Len(x) + 1) - 1) = x
  BY <1>1, Halves
<1>3. SubSeq(x \o y, Len(x) + 1, Len(x \o y)) = y
  BY Halves
<1> QED BY <1>2, <1>3 DEF InsertAt

LEMMA PlaceOfElement ==
    ASSUME NEW S, NEW s \in Seq(S), Distinct(s), NEW k \in 1..Len(s)
    PROVE  Tree!PlaceOf(s, s[k]) = k
<1>1. DOMAIN s = 1..Len(s)
  BY LenProperties
<1>2. \A j \in 1..Len(s) : s[j] = s[k] => j = k
  BY DEF Distinct
<1> QED BY <1>1, <1>2 DEF Tree!PlaceOf, Tree!Contains

LEMMA PlaceOfStranger ==
    ASSUME NEW S, NEW s \in Seq(S), NEW b, b \notin ToSet(s)
    PROVE  Tree!PlaceOf(s, b) = Len(s) + 1
  BY ToSetIs DEF Tree!PlaceOf, Tree!Contains

LEMMA ContainsIs ==
    ASSUME NEW S, NEW s \in Seq(S), NEW b
    PROVE  Contains(s, b) <=> b \in ToSet(s)
  BY ToSetIs DEF Contains

\* b comes first in y, or y is empty and there is no b.
Ahead(y, b) == IF y = <<>> THEN b = NoEntry ELSE b = y[1]

LEMMA PlaceBetween ==
    ASSUME NEW S, NEW x \in Seq(S), NEW y \in Seq(S), Distinct(x \o y), NoEntry \notin S,
           NEW b, Ahead(y, b)
    PROVE  Tree!PlaceOf(x \o y, b) = Len(x) + 1
<1> DEFINE s == x \o y
<1>1. /\ Len(x) \in Nat /\ Len(y) \in Nat /\ s \in Seq(S)
      /\ Len(s) = Len(x) + Len(y)
      /\ \A k \in 1..(Len(x) + Len(y)) :
            s[k] = IF k <= Len(x) THEN x[k] ELSE y[k - Len(x)]
  BY LenProperties, ConcatProperties
<1>2. Distinct(s)
  OBVIOUS
<1> HIDE DEF s
<1>3. CASE y = <<>>
  <2>1. Len(y) = 0
    BY <1>3, EmptySeq
  <2>2. b \notin S
    BY <1>3 DEF Ahead
  <2>3. b \notin ToSet(s)
    BY <1>1, <2>2, LenProperties DEF ToSet
  <2> QED BY <1>1, <2>1, <2>3, PlaceOfStranger DEF s
<1>4. CASE y # <<>>
  <2>1. 1 <= Len(y)
    BY <1>1, <1>4, EmptySeq
  <2>2. Len(x) + 1 \in 1..Len(s) /\ s[Len(x) + 1] = b
    <3>1. b = y[1]
      BY <1>4 DEF Ahead
    <3>2. Len(x) + 1 \in 1..Len(s)
      BY <1>1, <2>1
    <3> QED BY <1>1, <2>1, <3>1, <3>2
  <2>3. Tree!PlaceOf(s, s[Len(x) + 1]) = Len(x) + 1
    BY <1>1, <1>2, <2>2, PlaceOfElement
  <2> QED BY <2>2, <2>3 DEF s
<1> QED BY <1>3, <1>4

\* Omitting what is not b leaves b ahead.
LEMMA OmitAhead ==
    ASSUME NEW S, NEW y \in Seq(S), NEW b, Ahead(y, b), NEW X, b \notin X
    PROVE  Ahead(Tree!Omit(y, X), b)
<1>1. CASE y = <<>>
  BY <1>1, OmitEmpty DEF Ahead
<1>2. CASE y # <<>>
  <2> DEFINE h == <<y[1]>>
             t == SubSeq(y, 2, Len(y))
  <2>1. Len(y) \in Nat /\ 1 <= Len(y) /\ y[1] \in S /\ b = y[1]
    BY <1>2, EmptySeq, LenProperties DEF Ahead
  <2>2. h \in Seq(S) /\ t \in Seq(S) /\ y = h \o t
    <3>1. 1 \in 1..Len(y) /\ Len(y) \in 1..Len(y)
      BY <2>1
    <3>2. SubSeq(y, 1, Len(y)) = <<y[1]>> \o SubSeq(y, 1 + 1, Len(y))
      BY <3>1, SubSeqRecursiveFirst
    <3>3. SubSeq(y, 1, Len(y)) = y
      BY SubSeqFull
    <3>4. t \in Seq(S)
      <4>1. 2 \in 1..(Len(y) + 1)
        BY <2>1
      <4> QED BY <4>1, Cut
    <3> QED BY <2>1, <3>2, <3>3, <3>4, OneElement
  <2>3. Tree!Omit(h, X) = h
    BY <2>1, OmitOne
  <2>4. h \in Seq(S) /\ Len(h) = 1 /\ h[1] = b
    BY <2>1, <2>2
  <2> HIDE DEF h, t
  <2> DEFINE u == Tree!Omit(t, X)
  <2>5. Tree!Omit(y, X) = h \o u /\ u \in Seq(S)
    <3>1. Tree!Omit(h \o t, X) = Tree!Omit(h, X) \o Tree!Omit(t, X)
      BY <2>2, OmitConcat
    <3>2. u \in Seq(S)
      BY <2>2, OmitInSeq
    <3>3. Tree!Omit(h, X) = h
      BY <2>3 DEF h
    <3> QED BY <2>2, <3>1, <3>2, <3>3
  <2> HIDE DEF u
  <2>6. h \o u \in Seq(S) /\ Len(h \o u) = 1 + Len(u) /\ (h \o u)[1] = h[1] /\ Len(u) \in Nat
    <3>1. Len(u) \in Nat
      BY <2>5, LenProperties
    <3>2. /\ h \o u \in Seq(S) /\ Len(h \o u) = Len(h) + Len(u)
          /\ \A k \in 1..(Len(h) + Len(u)) :
                (h \o u)[k] = IF k <= Len(h) THEN h[k] ELSE u[k - Len(h)]
      BY <2>4, <2>5, ConcatProperties
    <3> QED BY <2>4, <3>1, <3>2
  <2>7. h \o u # <<>>
    BY <2>6, EmptySeq
  <2> QED BY <2>4, <2>5, <2>6, <2>7 DEF Ahead
<1> QED BY <1>1, <1>2

-----------------------------------------------------------------------------
(* Flattened sequences                                                     *)

\* The steps of FlattenSeq: the first k sequences in one.
GlueStep(ss, f, k) == IF k = 1 THEN ss[k] ELSE f[k - 1] \o ss[k]

Glued(ss) == CHOOSE f : f = [k \in 1..Len(ss) |-> GlueStep(ss, f, k)]

LEMMA FlattenIsGlued ==
    \A ss : FlattenSeq(ss) = IF Len(ss) = 0 THEN ss ELSE Glued(ss)[Len(ss)]
  BY DEF FlattenSeq, Glued, GlueStep

GluedUpto(S, ss, n) ==
    {f \in [1..n -> Seq(S)] : \A k \in 1..n : f[k] = GlueStep(ss, f, k)}

LEMMA GluedUnfolds ==
    ASSUME NEW S, NEW ss \in Seq(Seq(S))
    PROVE  /\ Glued(ss) = [k \in 1..Len(ss) |-> GlueStep(ss, Glued(ss), k)]
           /\ \E f \in [1..Len(ss) -> Seq(S)] : f = [k \in 1..Len(ss) |-> GlueStep(ss, f, k)]
<1> DEFINE G == {n \in Nat : n <= Len(ss) => GluedUpto(S, ss, n) # {}}
<1>1. Len(ss) \in Nat /\ \A k \in 1..Len(ss) : ss[k] \in Seq(S)
  BY LenProperties
<1>2. 0 \in G
  <2> DEFINE f == [k \in 1..0 |-> <<>>]
  <2>1. f \in GluedUpto(S, ss, 0)
    BY EmptySeq DEF GluedUpto
  <2> QED BY <2>1
<1>3. ASSUME NEW n \in Nat, n \in G PROVE n + 1 \in G
  <2> SUFFICES ASSUME n + 1 <= Len(ss) PROVE GluedUpto(S, ss, n + 1) # {}
    OBVIOUS
  <2>1. PICK f \in GluedUpto(S, ss, n) : TRUE
    BY <1>3, <1>1
  <2> DEFINE x == GlueStep(ss, f, n + 1)
             g == [k \in 1..(n + 1) |-> IF k = n + 1 THEN x ELSE f[k]]
  <2>2. (n # 0 => f[n] \in Seq(S)) /\ ss[n + 1] \in Seq(S)
    BY <2>1, <1>1 DEF GluedUpto
  <2>3. x \in Seq(S)
    <3>1. CASE n = 0
      BY <2>2, <3>1 DEF GlueStep
    <3>2. CASE n # 0
      <4>1. f[n] \o ss[n + 1] \in Seq(S)
        BY <2>2, <3>2, ConcatProperties
      <4> QED BY <3>2, <4>1 DEF GlueStep
    <3> QED BY <3>1, <3>2
  <2>4. g \in [1..(n + 1) -> Seq(S)]
    BY <2>1, <2>3 DEF GluedUpto
  <2>5. ASSUME NEW k \in 1..(n + 1) PROVE g[k] = GlueStep(ss, g, k)
    <3>1. CASE k = n + 1
      BY <3>1, <2>1 DEF GlueStep
    <3>2. CASE k # n + 1
      <4>1. k \in 1..n /\ g[k] = f[k] /\ (k # 1 => k - 1 \in 1..n /\ g[k - 1] = f[k - 1])
        BY <3>2
      <4>2. f[k] = GlueStep(ss, f, k)
        BY <4>1, <2>1 DEF GluedUpto
      <4> HIDE DEF g
      <4> QED BY <4>1, <4>2 DEF GlueStep
    <3> QED BY <3>1, <3>2
  <2> QED BY <2>4, <2>5 DEF GluedUpto
<1>4. \A n \in Nat : n \in G
  <2> HIDE DEF G
  <2> QED BY <1>2, <1>3, AllNumbers
<1>5. PICK f \in GluedUpto(S, ss, Len(ss)) : TRUE
  BY <1>4, <1>1
<1>6. f \in [1..Len(ss) -> Seq(S)] /\ f = [k \in 1..Len(ss) |-> GlueStep(ss, f, k)]
  BY <1>5 DEF GluedUpto
<1>7. Glued(ss) = [k \in 1..Len(ss) |-> GlueStep(ss, Glued(ss), k)]
  BY <1>6 DEF Glued
<1> QED BY <1>6, <1>7

LEMMA GluedInSeq ==
    ASSUME NEW S, NEW ss \in Seq(Seq(S)), NEW n \in 1..Len(ss)
    PROVE  Glued(ss)[n] \in Seq(S)
<1> DEFINE G == {k \in Nat : 1 <= k /\ k <= Len(ss) => Glued(ss)[k] \in Seq(S)}
<1>1. Len(ss) \in Nat /\ \A k \in 1..Len(ss) : ss[k] \in Seq(S)
  BY LenProperties
<1>2. ASSUME NEW k \in 1..Len(ss) PROVE Glued(ss)[k] = GlueStep(ss, Glued(ss), k)
  BY GluedUnfolds
<1>3. 0 \in G
  OBVIOUS
<1>4. ASSUME NEW k \in Nat, k \in G PROVE k + 1 \in G
  <2> SUFFICES ASSUME k + 1 <= Len(ss) PROVE Glued(ss)[k + 1] \in Seq(S)
    OBVIOUS
  <2>1. (k # 0 => Glued(ss)[k] \in Seq(S)) /\ ss[k + 1] \in Seq(S)
    BY <1>4, <1>1
  <2>2. Glued(ss)[k + 1] = GlueStep(ss, Glued(ss), k + 1)
    BY <1>2, <1>1
  <2>3. CASE k = 0
    BY <2>1, <2>2, <2>3 DEF GlueStep
  <2>4. CASE k # 0
    <3>1. Glued(ss)[k] \o ss[k + 1] \in Seq(S)
      BY <2>1, <2>4, ConcatProperties
    <3> QED BY <2>2, <2>4, <3>1 DEF GlueStep
  <2> QED BY <2>3, <2>4
<1>5. \A k \in Nat : k \in G
  <2> HIDE DEF G
  <2> QED BY <1>3, <1>4, AllNumbers
<1> QED BY <1>5

LEMMA FlattenInSeq ==
    ASSUME NEW S, NEW ss \in Seq(Seq(S))
    PROVE  FlattenSeq(ss) \in Seq(S)
<1>1. CASE Len(ss) = 0
  <2>1. ss = <<>> /\ FlattenSeq(ss) = ss
    BY <1>1, EmptySeq, FlattenIsGlued
  <2> QED BY <2>1, EmptySeq
<1>2. CASE Len(ss) # 0
  <2>1. Len(ss) \in 1..Len(ss)
    BY <1>2, LenProperties
  <2> QED BY <1>2, <2>1, GluedInSeq, FlattenIsGlued
<1> QED BY <1>1, <1>2

LEMMA FlattenAppend ==
    ASSUME NEW S, NEW ss \in Seq(Seq(S)), NEW x \in Seq(S)
    PROVE  FlattenSeq(Append(ss, x)) = FlattenSeq(ss) \o x
<1> DEFINE tt == Append(ss, x)
           n == Len(ss)
<1>1. n \in Nat /\ tt \in Seq(Seq(S)) /\ Len(tt) = n + 1 /\ tt[n + 1] = x
      /\ \A k \in 1..n : tt[k] = ss[k]
  BY LenProperties, AppendProperties
<1> HIDE DEF tt
<1>2. ASSUME NEW k \in 1..n PROVE Glued(ss)[k] = GlueStep(ss, Glued(ss), k)
  BY GluedUnfolds
<1>3. ASSUME NEW k \in 1..(n + 1) PROVE Glued(tt)[k] = GlueStep(tt, Glued(tt), k)
  <2>1. Glued(tt) = [j \in 1..Len(tt) |-> GlueStep(tt, Glued(tt), j)]
    BY <1>1, GluedUnfolds
  <2> QED BY <1>1, <2>1
<1> DEFINE G == {k \in Nat : 1 <= k /\ k <= n => Glued(tt)[k] = Glued(ss)[k]}
<1>4. 0 \in G
  OBVIOUS
<1>5. ASSUME NEW k \in Nat, k \in G PROVE k + 1 \in G
  <2> SUFFICES ASSUME k + 1 <= n PROVE Glued(tt)[k + 1] = Glued(ss)[k + 1]
    OBVIOUS
  <2>1. (k # 0 => Glued(tt)[k] = Glued(ss)[k]) /\ tt[k + 1] = ss[k + 1]
    BY <1>1, <1>5
  <2>2. Glued(ss)[k + 1] = GlueStep(ss, Glued(ss), k + 1)
    BY <1>2, <1>1
  <2>3. Glued(tt)[k + 1] = GlueStep(tt, Glued(tt), k + 1)
    BY <1>3, <1>1
  <2> QED BY <2>1, <2>2, <2>3 DEF GlueStep
<1>6. \A k \in Nat : k \in G
  <2> HIDE DEF G
  <2> QED BY <1>4, <1>5, AllNumbers
<1>7. n # 0 => Glued(tt)[n] = Glued(ss)[n]
  BY <1>1, <1>6
<1>8. Glued(tt)[n + 1] = GlueStep(tt, Glued(tt), n + 1)
  BY <1>1, <1>3
<1>9. FlattenSeq(tt) = Glued(tt)[n + 1]
  BY <1>1, FlattenIsGlued
<1>10. CASE n = 0
  <2>1. ss = <<>> /\ FlattenSeq(ss) = <<>>
    BY <1>10, EmptySeq, FlattenIsGlued
  <2>2. FlattenSeq(tt) = x
    BY <1>1, <1>8, <1>9, <1>10 DEF GlueStep
  <2>3. <<>> \o x = x
    BY ConcatEmptySeq
  <2> QED BY <2>1, <2>2, <2>3 DEF tt
<1>11. CASE n # 0
  <2>1. FlattenSeq(ss) = Glued(ss)[n]
    BY <1>11, FlattenIsGlued
  <2>2. Glued(tt)[n + 1] = Glued(tt)[n] \o x
    BY <1>1, <1>8, <1>11 DEF GlueStep
  <2> QED BY <1>7, <1>9, <1>11, <2>1, <2>2 DEF tt
<1> QED BY <1>10, <1>11

-----------------------------------------------------------------------------
(* What the outline shows of the parts of a container                      *)

Parts == Cats \cup Seq(Items)

Piece(part) == IF IsBucket(part) THEN part ELSE <<part>>

Pieces(parts) == [k \in DOMAIN parts |-> Piece(parts[k])]

LEMMA PieceInSeq ==
    ASSUME NEW x \in Parts
    PROVE  Piece(x) \in Seq(Entries)
<1>1. CASE x \in Cats
  BY <1>1, OneElement DEF Piece, IsBucket, Entries
<1>2. CASE x \notin Cats
  <2>1. x \in Seq(Items) /\ Items \subseteq Entries
    BY <1>2 DEF Parts, Entries
  <2>2. x \in Seq(Entries)
    BY <2>1, SeqMonotonic
  <2> QED BY <1>2, <2>2 DEF Piece, IsBucket
<1> QED BY <1>1, <1>2

LEMMA PiecesInSeq ==
    ASSUME NEW parts \in Seq(Parts)
    PROVE  Pieces(parts) \in Seq(Seq(Entries)) /\ Len(Pieces(parts)) = Len(parts)
<1>1. Len(parts) \in Nat /\ DOMAIN parts = 1..Len(parts) /\ \A k \in 1..Len(parts) : parts[k] \in Parts
  BY LenProperties
<1>2. \A k \in 1..Len(parts) : Piece(parts[k]) \in Seq(Entries)
  BY <1>1, PieceInSeq
<1>3. [k \in 1..Len(parts) |-> Piece(parts[k])] \in Seq(Seq(Entries))
  BY <1>1, <1>2, IsASeq
<1>4. Pieces(parts) = [k \in 1..Len(parts) |-> Piece(parts[k])]
  BY <1>1 DEF Pieces
<1>5. DOMAIN Pieces(parts) = 1..Len(parts)
  BY <1>4
<1> QED BY <1>1, <1>3, <1>4, <1>5, LenProperties

LEMMA ShownIs == \A parts : Shown(parts) = FlattenSeq(Pieces(parts))
  BY DEF Shown, Pieces, Piece

LEMMA ShownInSeq ==
    ASSUME NEW parts \in Seq(Parts)
    PROVE  Shown(parts) \in Seq(Entries)
  BY PiecesInSeq, FlattenInSeq, ShownIs

LEMMA ShownAppend ==
    ASSUME NEW parts \in Seq(Parts), NEW x \in Parts
    PROVE  Shown(Append(parts, x)) = Shown(parts) \o Piece(x)
<1>1. /\ Append(parts, x) \in Seq(Parts) /\ Len(Append(parts, x)) = Len(parts) + 1
      /\ \A k \in 1..Len(parts) : Append(parts, x)[k] = parts[k]
      /\ Append(parts, x)[Len(parts) + 1] = x
      /\ Len(parts) \in Nat
  BY AppendProperties, LenProperties
<1>2. /\ Pieces(parts) \in Seq(Seq(Entries)) /\ Len(Pieces(parts)) = Len(parts)
      /\ Pieces(Append(parts, x)) \in Seq(Seq(Entries))
      /\ Len(Pieces(Append(parts, x))) = Len(parts) + 1
      /\ Piece(x) \in Seq(Entries)
  BY <1>1, PiecesInSeq, PieceInSeq
<1>3. Pieces(Append(parts, x)) = Append(Pieces(parts), Piece(x))
  <2> DEFINE a == Pieces(Append(parts, x))
             b == Append(Pieces(parts), Piece(x))
             w == Append(parts, x)
  <2>1. /\ b \in Seq(Seq(Entries)) /\ Len(b) = Len(parts) + 1
        /\ \A k \in 1..Len(parts) : b[k] = Pieces(parts)[k]
        /\ b[Len(parts) + 1] = Piece(x)
    BY <1>2, AppendProperties
  <2>2. DOMAIN w = 1..(Len(parts) + 1) /\ DOMAIN parts = 1..Len(parts)
    BY <1>1, LenProperties
  <2>3. \A k \in 1..(Len(parts) + 1) : a[k] = Piece(w[k])
    BY <2>2 DEF Pieces
  <2>4. \A k \in 1..Len(parts) : Pieces(parts)[k] = Piece(parts[k])
    BY <2>2 DEF Pieces
  <2>5. /\ \A k \in 1..Len(parts) : w[k] = parts[k]
        /\ w[Len(parts) + 1] = x
    BY <1>1
  <2> HIDE DEF w, b
  <2>6. \A k \in 1..(Len(parts) + 1) : a[k] = b[k]
    <3>1. ASSUME NEW k \in 1..Len(parts) PROVE k \in 1..(Len(parts) + 1) /\ a[k] = b[k]
      <4>1. k \in 1..(Len(parts) + 1)
        BY <1>1
      <4> QED BY ONLY <2>1, <2>3, <2>4, <2>5, <3>1, <4>1
    <3>2. Len(parts) + 1 \in 1..(Len(parts) + 1) /\ a[Len(parts) + 1] = b[Len(parts) + 1]
      <4>1. Len(parts) + 1 \in 1..(Len(parts) + 1)
        BY <1>1
      <4> QED BY ONLY <2>1, <2>3, <2>5, <4>1
    <3>3. \A k \in 1..(Len(parts) + 1) : k \in 1..Len(parts) \/ k = Len(parts) + 1
      BY <1>1
    <3> QED BY ONLY <3>1, <3>2, <3>3
  <2>7. a \in Seq(Seq(Entries)) /\ Len(a) = Len(b)
    BY <1>2, <2>1
  <2> HIDE DEF a
  <2>8. a = b
    BY <2>1, <2>6, <2>7, SeqEqual
  <2> QED BY <2>8 DEF a, b
<1> QED BY <1>2, <1>3, FlattenAppend, ShownIs

LEMMA ShownEmpty == Shown(<<>>) = <<>>
  BY DEF Shown, FlattenSeq

LEMMA EntriesAssociate ==
    \A a, b, c \in Seq(Entries) : (a \o b) \o c = a \o (b \o c)
<1> SUFFICES ASSUME NEW a \in Seq(Entries), NEW b \in Seq(Entries), NEW c \in Seq(Entries)
             PROVE  (a \o b) \o c = a \o (b \o c)
  BY Zenon
<1> QED BY ConcatAssociative

LEMMA ShownConcat ==
    ASSUME NEW s \in Seq(Parts), NEW t \in Seq(Parts)
    PROVE  Shown(s \o t) = Shown(s) \o Shown(t)
<1> DEFINE G == {n \in Nat : \A u \in Seq(Parts) :
                    Len(u) = n => Shown(s \o u) = Shown(s) \o Shown(u)}
<1>1. 0 \in G
  <2> SUFFICES ASSUME NEW u \in Seq(Parts), Len(u) = 0
               PROVE  Shown(s \o u) = Shown(s) \o Shown(u)
    OBVIOUS
  <2>1. u = <<>>
    BY EmptySeq
  <2>2. s \o u = s /\ Shown(u) = <<>>
    BY <2>1, ConcatEmptySeq, ShownEmpty
  <2>3. Shown(s) \o <<>> = Shown(s)
    BY ShownInSeq, ConcatEmptySeq
  <2> QED BY <2>2, <2>3
<1>2. ASSUME NEW n \in Nat, n \in G PROVE n + 1 \in G
  <2> SUFFICES ASSUME NEW v \in Seq(Parts), Len(v) = n + 1
               PROVE  Shown(s \o v) = Shown(s) \o Shown(v)
    OBVIOUS
  <2>0. v \in Seq(Parts) /\ n \in Nat /\ Len(v) = n + 1
    OBVIOUS
  <2>1. \E u \in Seq(Parts), x \in Parts : v = Append(u, x) /\ Len(u) = n
    BY ONLY <2>0, LastElement
  <2>2. PICK u \in Seq(Parts), x \in Parts : v = Append(u, x) /\ Len(u) = n
    BY ONLY <2>1
  <2>3. Shown(s \o u) = Shown(s) \o Shown(u)
    BY <1>2, <2>2
  <2>4. s \o v = Append(s \o u, x) /\ s \o u \in Seq(Parts)
    BY <2>2, ConcatAppend, ConcatProperties
  <2>5. Shown(s \o v) = (Shown(s) \o Shown(u)) \o Piece(x)
    BY <2>3, <2>4, ShownAppend
  <2>6. Shown(v) = Shown(u) \o Piece(x)
    BY <2>2, ShownAppend
  <2>7. Shown(s) \in Seq(Entries) /\ Shown(u) \in Seq(Entries) /\ Piece(x) \in Seq(Entries)
    BY ShownInSeq, PieceInSeq
  <2>8. (Shown(s) \o Shown(u)) \o Piece(x) = Shown(s) \o (Shown(u) \o Piece(x))
    BY <2>7, EntriesAssociate, Zenon
  <2> QED BY ONLY <2>5, <2>6, <2>8
<1>3. \A n \in Nat : n \in G
  <2> HIDE DEF G
  <2> QED BY <1>1, <1>2, AllNumbers
<1>4. Len(t) \in Nat
  BY LenProperties
<1> QED BY <1>3, <1>4

LEMMA ShownOne ==
    ASSUME NEW x \in Parts
    PROVE  Shown(<<x>>) = Piece(x)
<1> DEFINE nil == <<>>
<1>1. nil \in Seq(Parts) /\ <<x>> = Append(nil, x)
  BY EmptySeq, OneElement
<1>2. Shown(nil) = <<>>
  BY ShownEmpty
<1> HIDE DEF nil
<1>3. Shown(<<x>>) = <<>> \o Piece(x)
  BY <1>1, <1>2, ShownAppend
<1> QED BY <1>3, PieceInSeq, ConcatEmptySeq

-----------------------------------------------------------------------------
(* Outlines: the places of their entries                                   *)

Outlines == [Containers -> Seq(Entries)]

LEMMA TreeNames ==
    /\ Tree!Containers = Containers
    /\ Tree!Elements = Entries
    /\ \A s : Tree!ToSet(s) = ToSet(s)
    /\ \A s, e : Tree!Contains(s, e) <=> Contains(s, e)
    /\ \A s, k, e : Tree!InsertAt(s, k, e) = InsertAt(s, k, e)
  BY DEF Tree!Containers, Containers, Tree!Elements, Entries, Tree!ToSet, ToSet,
         Tree!Contains, Contains, Tree!InsertAt, InsertAt

LEMMA PlacedIs ==
    ASSUME NEW t, NEW e
    PROVE  e \in Tree!Placed(t) <=> \E c \in Containers : e \in ToSet(t[c])
  BY TreeNames DEF Tree!Placed

LEMMA GroupsIs ==
    ASSUME NEW t
    PROVE  Tree!Groups(t) = {Root} \cup (Tree!Placed(t) \cap Cats)
  BY DEF Tree!Groups

\* An entry has one place.
Unique(t) ==
    /\ \A c \in Containers : Distinct(t[c])
    /\ \A c, p \in Containers : c # p => ToSet(t[c]) \cap ToSet(t[p]) = {}

LEMMA ParentIs ==
    ASSUME NEW t \in Outlines, Unique(t), NEW c \in Containers, NEW e, e \in ToSet(t[c])
    PROVE  Tree!ParentIn(t, e) = c
<1>1. \A p \in Containers : Contains(t[p], e) <=> e \in ToSet(t[p])
  BY ContainsIs DEF Outlines
<1>2. \A p \in Containers : Contains(t[p], e) <=> p = c
  BY <1>1 DEF Unique
<1>3. Tree!ParentIn(t, e) = CHOOSE p \in Containers : Contains(t[p], e)
  BY TreeNames, Zenon DEF Tree!ParentIn
<1> QED BY <1>2, <1>3

LEMMA ParentHolds ==
    ASSUME NEW t \in Outlines, NEW e \in Tree!Placed(t)
    PROVE  Tree!ParentIn(t, e) \in Containers /\ e \in ToSet(t[Tree!ParentIn(t, e)])
<1>1. \A p \in Containers : Contains(t[p], e) <=> e \in ToSet(t[p])
  BY ContainsIs DEF Outlines
<1>2. PICK c \in Containers : Contains(t[c], e)
  BY <1>1, PlacedIs
<1>3. Tree!ParentIn(t, e) = CHOOSE p \in Containers : Contains(t[p], e)
  BY TreeNames, Zenon DEF Tree!ParentIn
<1>4. Tree!ParentIn(t, e) \in Containers /\ Contains(t[Tree!ParentIn(t, e)], e)
  BY <1>2, <1>3
<1> QED BY <1>1, <1>4

-----------------------------------------------------------------------------
(* Hanging below: the recursive function of InsideOf                       *)

InsideStep(t, c, f, x) == x = c \/ (x \in Tree!Placed(t) /\ f[Tree!ParentIn(t, x)])

InsideFunction(t, c) ==
    CHOOSE f : f = [x \in Entries \cup {Root} |-> InsideStep(t, c, f, x)]

LEMMA InsideIsFunction == \A t, c, p : Tree!InsideOf(t, c, p) = InsideFunction(t, c)[p]
  BY TreeNames DEF Tree!InsideOf, InsideFunction, InsideStep

\* c is in every set that has x and with its members their parents.
UpClosed(t, c, A) == \A x \in A : x # c /\ x \in Tree!Placed(t) => Tree!ParentIn(t, x) \in A

Reached(t, c, x) ==
    \A A \in SUBSET (Entries \cup {Root}) : x \in A /\ UpClosed(t, c, A) => c \in A

LEMMA ReachedUnfolds ==
    ASSUME NEW t \in Outlines, NEW c \in Entries \cup {Root}, NEW x \in Entries \cup {Root}
    PROVE  Reached(t, c, x) <=>
               x = c \/ (x \in Tree!Placed(t) /\ Reached(t, c, Tree!ParentIn(t, x)))
<1> DEFINE D == Entries \cup {Root}
           p == Tree!ParentIn(t, x)
<1>1. x \in Tree!Placed(t) => p \in D
  BY ParentHolds DEF Containers, Entries
<1>2. ASSUME x = c PROVE Reached(t, c, x)
  BY <1>2 DEF Reached
<1>3. ASSUME x # c, x \in Tree!Placed(t), Reached(t, c, p) PROVE Reached(t, c, x)
  <2> SUFFICES ASSUME NEW A \in SUBSET D, x \in A, UpClosed(t, c, A) PROVE c \in A
    BY DEF Reached
  <2>1. p \in A
    BY <1>3 DEF UpClosed
  <2> QED BY <1>3, <2>1 DEF Reached
<1>4. ASSUME x # c, Reached(t, c, x) PROVE x \in Tree!Placed(t)
  <2> SUFFICES ASSUME x \notin Tree!Placed(t) PROVE FALSE
    OBVIOUS
  <2> DEFINE A == {x}
  <2>1. A \in SUBSET D /\ x \in A /\ UpClosed(t, c, A)
    BY DEF UpClosed
  <2>2. c \in A
    <3> HIDE DEF A
    <3> QED BY <1>4, <2>1 DEF Reached
  <2> QED BY <1>4, <2>2
<1>5. ASSUME x # c, x \in Tree!Placed(t), Reached(t, c, x) PROVE Reached(t, c, p)
  <2> SUFFICES ASSUME NEW A \in SUBSET D, p \in A, UpClosed(t, c, A) PROVE c \in A
    BY DEF Reached
  <2> DEFINE B == A \cup {x}
  <2>1. B \in SUBSET D /\ x \in B /\ UpClosed(t, c, B)
    BY DEF UpClosed
  <2>2. c \in B
    <3> HIDE DEF B
    <3> QED BY <1>5, <2>1 DEF Reached
  <2> QED BY <1>5, <2>2
<1> QED BY <1>2, <1>3, <1>4, <1>5

\* An entry is inside c when it is c or its parent is inside c.
LEMMA InsideIs ==
    ASSUME NEW t \in Outlines, NEW c \in Entries \cup {Root}, NEW x \in Entries \cup {Root}
    PROVE  Tree!InsideOf(t, c, x) <=>
               x = c \/ (x \in Tree!Placed(t) /\ Tree!InsideOf(t, c, Tree!ParentIn(t, x)))
<1> DEFINE D == Entries \cup {Root}
           f == [y \in D |-> Reached(t, c, y)]
<1>1. ASSUME NEW y \in D PROVE f[y] = InsideStep(t, c, f, y)
  <2>1. y \in Tree!Placed(t) => Tree!ParentIn(t, y) \in D
    BY ParentHolds DEF Containers, Entries
  <2>2. Reached(t, c, y) <=>
            y = c \/ (y \in Tree!Placed(t) /\ Reached(t, c, Tree!ParentIn(t, y)))
    BY ReachedUnfolds
  <2>3. f[y] = Reached(t, c, y)
    OBVIOUS
  <2>4. y \in Tree!Placed(t) => f[Tree!ParentIn(t, y)] = Reached(t, c, Tree!ParentIn(t, y))
    BY <2>1
  <2> HIDE DEF f
  <2>5. f[y] <=> InsideStep(t, c, f, y)
    BY <2>2, <2>3, <2>4 DEF InsideStep
  <2>6. f[y] \in BOOLEAN
    BY <2>3 DEF Reached
  <2>7. InsideStep(t, c, f, y) \in BOOLEAN
    BY DEF InsideStep
  <2> QED BY <2>5, <2>6, <2>7
<1>2. f = [y \in D |-> InsideStep(t, c, f, y)]
  <2> DEFINE g == [y \in D |-> InsideStep(t, c, f, y)]
  <2>1. \A y \in D : f[y] = g[y]
    <3> HIDE DEF f
    <3> QED BY <1>1
  <2> QED BY <2>1
<1>3. InsideFunction(t, c) = [y \in D |-> InsideStep(t, c, InsideFunction(t, c), y)]
  <2> HIDE DEF f
  <2> QED BY <1>2, Zenon DEF InsideFunction
<1>4. InsideFunction(t, c)[x] = InsideStep(t, c, InsideFunction(t, c), x)
  <2> DEFINE i == InsideFunction(t, c)
  <2>1. i = [y \in D |-> InsideStep(t, c, i, y)]
    BY <1>3
  <2> HIDE DEF i
  <2>2. i[x] = InsideStep(t, c, i, x)
    BY <2>1, Zenon
  <2> QED BY <2>2 DEF i
<1> QED BY <1>4, InsideIsFunction, Zenon DEF InsideStep

-----------------------------------------------------------------------------
(* How deep the sections stand: no entry hangs below itself                *)

Ranks(t, f) ==
    /\ f \in [Tree!Groups(t) -> Nat]
    /\ \A x \in Tree!Groups(t) : f[x] = IF x = Root THEN 0 ELSE 1 + f[Tree!ParentIn(t, x)]

\* The outlines of proper documents.
IsOutline(t) ==
    /\ t \in Outlines
    /\ Unique(t)
    /\ \A c \in Containers \ Tree!Groups(t) : t[c] = <<>>
    /\ \E f : Ranks(t, f)

LEMMA NoRootEntry == Root \notin Entries /\ NoEntry \notin Entries /\ NoEntry # Root
                     /\ Cats \cap Items = {}
  BY HierarchyAssumption DEF Entries

LEMMA RootIsPlacedNowhere == \A t \in Outlines : Root \notin Tree!Placed(t)
<1> SUFFICES ASSUME NEW t \in Outlines, NEW c \in Containers, Root \in ToSet(t[c])
             PROVE  FALSE
  BY PlacedIs
<1>1. t[c] \in Seq(Entries)
  BY DEF Outlines
<1>2. Root \in Entries
  BY <1>1, ToSetIs, LenProperties
<1> QED BY <1>2, NoRootEntry

LEMMA PlacedAreEntries == \A t \in Outlines : Tree!Placed(t) \subseteq Entries
<1> SUFFICES ASSUME NEW t \in Outlines, NEW c \in Containers, NEW e \in ToSet(t[c])
             PROVE  e \in Entries
  BY PlacedIs
<1>1. t[c] \in Seq(Entries)
  BY DEF Outlines
<1> QED BY <1>1, ToSetIs, LenProperties

\* The parent of an entry stands.
LEMMA ParentStands ==
    ASSUME NEW t, IsOutline(t), NEW e \in Tree!Placed(t)
    PROVE  /\ Tree!ParentIn(t, e) \in Tree!Groups(t)
           /\ e \in ToSet(t[Tree!ParentIn(t, e)])
<1>1. Tree!ParentIn(t, e) \in Containers /\ e \in ToSet(t[Tree!ParentIn(t, e)])
  BY ParentHolds DEF IsOutline
<1>2. t[Tree!ParentIn(t, e)] # <<>>
  BY <1>1, ToSetEmpty
<1> QED BY <1>1, <1>2 DEF IsOutline

\* What is inside an entry is deeper.
LEMMA InsideIsDeeper ==
    ASSUME NEW t, IsOutline(t), NEW f, Ranks(t, f), NEW e \in Entries \cup {Root},
           NEW y \in Tree!Groups(t), Tree!InsideOf(t, e, y)
    PROVE  e \in Tree!Groups(t) /\ f[e] <= f[y]
<1> DEFINE Bad == {x \in Tree!Groups(t) :
                      Tree!InsideOf(t, e, x) /\ ~(e \in Tree!Groups(t) /\ f[e] <= f[x])}
           T == {f[x] : x \in Bad}
<1>1. \A x \in Tree!Groups(t) : f[x] \in Nat
  BY DEF Ranks
<1>2. Bad = {}
  <2> SUFFICES ASSUME Bad # {} PROVE FALSE
    OBVIOUS
  <2>1. T \subseteq Nat /\ T # {}
    BY <1>1
  <2>2. \E n \in T : \A m \in T : n <= m
    <3> HIDE DEF T
    <3> QED BY <2>1, LeastMember
  <2>3. PICK x \in Bad : \A z \in Bad : f[x] <= f[z]
    BY <2>2
  <2>4. x \in Tree!Groups(t) /\ Tree!InsideOf(t, e, x) /\ ~(e \in Tree!Groups(t) /\ f[e] <= f[x])
    OBVIOUS
  <2>5. x # e
    BY <1>1, <2>4
  <2>6. t \in Outlines /\ x \in Entries \cup {Root}
    BY <2>4, GroupsIs DEF IsOutline, Entries
  <2>7. x \in Tree!Placed(t) /\ Tree!InsideOf(t, e, Tree!ParentIn(t, x))
    BY <2>4, <2>5, <2>6, InsideIs
  <2>8. Tree!ParentIn(t, x) \in Tree!Groups(t)
    BY <2>7, ParentStands
  <2>9. f[x] = 1 + f[Tree!ParentIn(t, x)]
    BY <2>4, <2>6, <2>7, RootIsPlacedNowhere DEF Ranks
  <2>10. f[Tree!ParentIn(t, x)] < f[x] /\ f[Tree!ParentIn(t, x)] \in Nat
    BY <1>1, <2>8, <2>9
  <2>11. Tree!ParentIn(t, x) \notin Bad
    BY <1>1, <2>3, <2>4, <2>10
  <2>12. e \in Tree!Groups(t) /\ f[e] <= f[Tree!ParentIn(t, x)]
    BY <2>7, <2>8, <2>11
  <2> QED BY <1>1, <2>4, <2>10, <2>12
<1> QED BY <1>2

LEMMA NotInsideItself ==
    ASSUME NEW t, IsOutline(t), NEW e \in Tree!Placed(t)
    PROVE  ~Tree!InsideOf(t, e, Tree!ParentIn(t, e))
<1> SUFFICES ASSUME Tree!InsideOf(t, e, Tree!ParentIn(t, e)) PROVE FALSE
  OBVIOUS
<1>1. PICK f : Ranks(t, f)
  BY DEF IsOutline
<1>2. Tree!ParentIn(t, e) \in Tree!Groups(t) /\ e \in Entries \cup {Root} /\ e # Root
  BY ParentStands, PlacedAreEntries, RootIsPlacedNowhere DEF IsOutline
<1>3. e \in Tree!Groups(t) /\ f[e] <= f[Tree!ParentIn(t, e)]
  BY <1>1, <1>2, InsideIsDeeper
<1>4. f[e] = 1 + f[Tree!ParentIn(t, e)] /\ f[Tree!ParentIn(t, e)] \in Nat
  BY <1>1, <1>2, <1>3 DEF Ranks
<1> QED BY <1>3, <1>4

\* A position has nothing below it.
LEMMA NothingInsideItems ==
    ASSUME NEW t, IsOutline(t), NEW e \in Entries, NEW p \in Tree!Groups(t), e \notin Tree!Groups(t)
    PROVE  ~Tree!InsideOf(t, e, p)
  BY InsideIsDeeper DEF IsOutline

LEMMA AllInsideRoot ==
    ASSUME NEW t, IsOutline(t), NEW e \in Tree!Placed(t)
    PROVE  Tree!InsideOf(t, Root, e)
<1>1. PICK f : Ranks(t, f)
  BY DEF IsOutline
<1> DEFINE Bad == {x \in Tree!Groups(t) : ~Tree!InsideOf(t, Root, x)}
           T == {f[x] : x \in Bad}
<1>2. \A x \in Tree!Groups(t) : f[x] \in Nat
  BY <1>1 DEF Ranks
<1>3. Bad = {}
  <2> SUFFICES ASSUME Bad # {} PROVE FALSE
    OBVIOUS
  <2>1. T \subseteq Nat /\ T # {}
    BY <1>2
  <2>2. \E n \in T : \A m \in T : n <= m
    <3> HIDE DEF T
    <3> QED BY <2>1, LeastMember
  <2>3. PICK x \in Bad : \A z \in Bad : f[x] <= f[z]
    BY <2>2
  <2>4. t \in Outlines /\ x \in Entries \cup {Root}
    BY GroupsIs DEF IsOutline, Entries
  <2>5. x # Root
    BY <2>4, InsideIs
  <2>6. x \in Tree!Placed(t)
    BY <2>5, GroupsIs
  <2>7. Tree!ParentIn(t, x) \in Tree!Groups(t)
    BY <2>6, ParentStands
  <2>8. f[x] = 1 + f[Tree!ParentIn(t, x)]
    BY <1>1, <2>5 DEF Ranks
  <2>9. Tree!ParentIn(t, x) \notin Bad
    BY <1>2, <2>3, <2>7, <2>8
  <2>10. Tree!InsideOf(t, Root, Tree!ParentIn(t, x))
    BY <2>7, <2>9
  <2> QED BY <2>4, <2>6, <2>10, InsideIs
<1>4. t \in Outlines /\ e \in Entries \cup {Root}
  BY PlacedAreEntries DEF IsOutline
<1>5. Tree!ParentIn(t, e) \in Tree!Groups(t)
  BY ParentStands
<1>6. Tree!InsideOf(t, Root, Tree!ParentIn(t, e))
  BY <1>3, <1>5
<1> QED BY <1>4, <1>6, InsideIs

-----------------------------------------------------------------------------
(* The recursive function of Level                                         *)

LevelStep(t, f, x) == IF x = Root THEN 0 ELSE 1 + f[Tree!ParentIn(t, x)]

LevelFunction(t) == CHOOSE f : f = [x \in Tree!Groups(t) |-> LevelStep(t, f, x)]

LEMMA LevelIsFunction == \A t, c : Tree!Level(t, c) = LevelFunction(t)[c]
  BY DEF Tree!Level, LevelFunction, LevelStep

\* The levels are the only ranks of an outline.
LEMMA LevelIsRank ==
    ASSUME NEW t, IsOutline(t), NEW f, Ranks(t, f), NEW y \in Tree!Groups(t)
    PROVE  Tree!Level(t, y) = f[y] /\ Tree!Level(t, y) \in Nat
<1> DEFINE g == LevelFunction(t)
<1>1. \A x \in Tree!Groups(t) : f[x] \in Nat /\ f[x] = LevelStep(t, f, x)
  BY DEF Ranks, LevelStep
<1>2. f = [x \in Tree!Groups(t) |-> LevelStep(t, f, x)]
  BY <1>1 DEF Ranks
<1>3. g = [x \in Tree!Groups(t) |-> LevelStep(t, g, x)]
  BY <1>2, Zenon DEF LevelFunction
<1> HIDE DEF g
<1>4. \A x \in Tree!Groups(t) : g[x] = LevelStep(t, g, x)
  BY <1>3, Zenon
<1> DEFINE Bad == {x \in Tree!Groups(t) : g[x] # f[x]}
           T == {f[x] : x \in Bad}
<1>5. Bad = {}
  <2> SUFFICES ASSUME Bad # {} PROVE FALSE
    OBVIOUS
  <2>1. T \subseteq Nat /\ T # {}
    BY <1>1
  <2>2. \E n \in T : \A m \in T : n <= m
    <3> HIDE DEF T
    <3> QED BY <2>1, LeastMember
  <2>3. PICK x \in Bad : \A z \in Bad : f[x] <= f[z]
    BY <2>2
  <2>4. x # Root
    BY <1>1, <1>4 DEF LevelStep
  <2>5. x \in Tree!Placed(t)
    BY <2>4, GroupsIs
  <2>6. Tree!ParentIn(t, x) \in Tree!Groups(t)
    BY <2>5, ParentStands
  <2>7. f[x] = 1 + f[Tree!ParentIn(t, x)] /\ g[x] = 1 + g[Tree!ParentIn(t, x)]
    BY <1>1, <1>4, <2>4 DEF LevelStep
  <2>8. Tree!ParentIn(t, x) \notin Bad
    BY <1>1, <2>3, <2>6, <2>7
  <2>9. g[Tree!ParentIn(t, x)] = f[Tree!ParentIn(t, x)]
    BY <2>6, <2>8
  <2> QED BY <2>7, <2>9
<1> QED BY <1>1, <1>5, LevelIsFunction DEF g

LEMMA LevelsAreNumbers ==
    ASSUME NEW t, IsOutline(t), NEW c \in Tree!Groups(t)
    PROVE  Tree!Level(t, c) \in Nat
<1>1. PICK f : Ranks(t, f)
  BY DEF IsOutline
<1> QED BY <1>1, LevelIsRank

LEMMA UniquePlaces ==
    ASSUME NEW t \in Outlines
    PROVE  Unique(t) <=>
               \A c, p \in Containers : \A j \in DOMAIN t[c], k \in DOMAIN t[p] :
                   t[c][j] = t[p][k] => c = p /\ j = k
<1>1. \A c \in Containers : t[c] \in Seq(Entries) /\ DOMAIN t[c] = 1..Len(t[c])
  BY LenProperties DEF Outlines
<1>2. ASSUME Unique(t), NEW c \in Containers, NEW p \in Containers,
             NEW j \in DOMAIN t[c], NEW k \in DOMAIN t[p], t[c][j] = t[p][k]
      PROVE  c = p /\ j = k
  <2>1. t[c][j] \in ToSet(t[c]) /\ t[p][k] \in ToSet(t[p])
    BY DEF ToSet
  <2>2. c = p
    BY <1>2, <2>1 DEF Unique
  <2> QED BY <1>1, <1>2, <2>2 DEF Unique, Distinct
<1>3. ASSUME \A c, p \in Containers : \A j \in DOMAIN t[c], k \in DOMAIN t[p] :
                 t[c][j] = t[p][k] => c = p /\ j = k
      PROVE  Unique(t)
  <2>1. ASSUME NEW c \in Containers PROVE Distinct(t[c])
    BY <1>1, <1>3 DEF Distinct
  <2>2. ASSUME NEW c \in Containers, NEW p \in Containers, c # p,
               NEW x, x \in ToSet(t[c]), x \in ToSet(t[p])
        PROVE  FALSE
    <3>1. PICK j \in DOMAIN t[c] : t[c][j] = x
      BY <2>2 DEF ToSet
    <3>2. PICK k \in DOMAIN t[p] : t[p][k] = x
      BY <2>2 DEF ToSet
    <3> QED BY <1>3, <2>2, <3>1, <3>2
  <2> QED BY <2>1, <2>2 DEF Unique
<1> QED BY <1>2, <1>3

\* What the proofs say of an outline is what OutlineTree calls a tree.
LEMMA OutlinesAreTrees ==
    ASSUME NEW t, IsOutline(t)
    PROVE  Tree!IsTree(t)
<1>1. \A c, p \in Containers : \A j \in DOMAIN t[c], k \in DOMAIN t[p] :
          t[c][j] = t[p][k] => c = p /\ j = k
  BY UniquePlaces, Zenon DEF IsOutline
<1>2. \A c \in Containers \ Tree!Groups(t) : t[c] = <<>>
  BY DEF IsOutline
<1>3. \A e \in Tree!Placed(t) : Tree!InsideOf(t, Root, e)
  BY AllInsideRoot
<1> QED BY <1>1, <1>2, <1>3, TreeNames, Zenon DEF Tree!IsTree

-----------------------------------------------------------------------------
(* Placing an entry                                                        *)

\* e between x and y in p, and nowhere else.
Between(t, e, p, x, y) ==
    [c \in Containers |-> IF c = p THEN (x \o <<e>>) \o y ELSE Tree!Omit(t[c], {e})]

\* Without e, p has x and then y, and b says that e goes between them.
Gap(t, e, p, b, x, y) ==
    /\ x \in Seq(Entries) /\ y \in Seq(Entries)
    /\ Tree!Omit(t[p], {e}) = x \o y
    /\ Tree!PlaceOf(x \o y, b) = Len(x) + 1

LEMMA PlacingGap ==
    ASSUME NEW t \in Outlines, NEW e \in Entries, NEW p \in Containers, NEW b,
           NEW x, NEW y, Gap(t, e, p, b, x, y)
    PROVE  Tree!Placing(t, e, p, b) = Between(t, e, p, x, y)
<1>0. Tree!Omit(t[p], {e}) = x \o y /\ Tree!PlaceOf(x \o y, b) = Len(x) + 1
  BY Zenon DEF Gap
<1>1. InsertAt(x \o y, Len(x) + 1, e) = (x \o <<e>>) \o y
  BY InsertBetween DEF Gap
<1> DEFINE rest == Tree!Detached(t, e)
<1>2. rest = [c \in Containers |-> Tree!Omit(t[c], {e})]
  BY TreeNames, Zenon DEF Tree!Detached
<1>3. Tree!Placing(t, e, p, b) =
          [rest EXCEPT ![p] = InsertAt(rest[p], Tree!PlaceOf(rest[p], b), e)]
  BY TreeNames, Zenon DEF Tree!Placing
<1> HIDE DEF rest
<1>4. rest[p] = x \o y
  BY <1>0, <1>2
<1>5. InsertAt(rest[p], Tree!PlaceOf(rest[p], b), e) = (x \o <<e>>) \o y
  BY <1>0, <1>1, <1>4
<1> DEFINE w == (x \o <<e>>) \o y
<1>6. Tree!Placing(t, e, p, b) = [rest EXCEPT ![p] = w]
  BY <1>3, <1>5
<1> HIDE DEF w
<1>7. [rest EXCEPT ![p] = w] = [c \in Containers |-> IF c = p THEN w ELSE Tree!Omit(t[c], {e})]
  BY <1>2
<1> QED BY <1>6, <1>7 DEF w, Between

LEMMA PlaceInRange ==
    ASSUME NEW S, NEW s \in Seq(S), NEW b
    PROVE  Tree!PlaceOf(s, b) \in 1..(Len(s) + 1)
<1>1. Len(s) \in Nat /\ DOMAIN s = 1..Len(s)
  BY LenProperties
<1>2. CASE Contains(s, b)
  <2>1. \E k \in DOMAIN s : s[k] = b
    BY <1>1, <1>2 DEF Contains
  <2>2. Tree!PlaceOf(s, b) = CHOOSE k \in DOMAIN s : s[k] = b
    BY <1>2, TreeNames, Zenon DEF Tree!PlaceOf
  <2>3. Tree!PlaceOf(s, b) \in DOMAIN s
    BY <2>1, <2>2
  <2> QED BY <1>1, <2>3
<1>3. CASE ~Contains(s, b)
  <2>1. Tree!PlaceOf(s, b) = Len(s) + 1
    BY <1>3, TreeNames, Zenon DEF Tree!PlaceOf
  <2> QED BY <1>1, <2>1
<1> QED BY <1>2, <1>3

PutBetween(t, e, p, x, y, u) ==
    /\ x \in Seq(Entries)
    /\ y \in Seq(Entries)
    /\ Tree!Omit(t[p], {e}) = x \o y
    /\ u = Between(t, e, p, x, y)

LEMMA PlacingSplits ==
    ASSUME NEW t \in Outlines, NEW e \in Entries, NEW p \in Containers, NEW b
    PROVE  \E x, y : PutBetween(t, e, p, x, y, Tree!Placing(t, e, p, b))
<1> DEFINE s == Tree!Omit(t[p], {e})
           k == Tree!PlaceOf(s, b)
           x == SubSeq(s, 1, k - 1)
           y == SubSeq(s, k, Len(s))
<1>1. s \in Seq(Entries)
  BY OmitInSeq DEF Outlines
<1>2. k \in 1..(Len(s) + 1) /\ Len(s) \in Nat
  <2> HIDE DEF s
  <2> QED BY <1>1, PlaceInRange, LenProperties
<1>3. x \in Seq(Entries) /\ y \in Seq(Entries) /\ s = x \o y /\ Len(x) = k - 1
  <2> HIDE DEF s, k
  <2> QED BY <1>1, <1>2, Cut
<1>4. Tree!PlaceOf(x \o y, b) = Len(x) + 1
  <2>1. k = Len(x) + 1
    <3> HIDE DEF k, x, s
    <3> QED BY <1>2, <1>3
  <2>2. Tree!PlaceOf(s, b) = Len(x) + 1
    <3> HIDE DEF x, s
    <3> QED BY <2>1
  <2> HIDE DEF x, y, s, k
  <2> QED BY <1>3, <2>2
<1>5. Tree!Omit(t[p], {e}) = x \o y
  <2> HIDE DEF x, y
  <2> QED BY <1>3
<1>6. Tree!Placing(t, e, p, b) = Between(t, e, p, x, y)
  <2> HIDE DEF x, y, s, k
  <2>1. Gap(t, e, p, b, x, y)
    BY <1>3, <1>4, <1>5, Zenon DEF Gap
  <2> QED BY <2>1, PlacingGap
<1> HIDE DEF x, y
<1> QED BY <1>3, <1>5, <1>6 DEF PutBetween

\* Where the entries are after that.
LEMMA BetweenPlaces ==
    ASSUME NEW t \in Outlines, Unique(t), NEW e \in Entries, NEW p \in Containers,
           NEW x \in Seq(Entries), NEW y \in Seq(Entries), Tree!Omit(t[p], {e}) = x \o y
    PROVE  /\ Between(t, e, p, x, y) \in Outlines
           /\ \A c \in Containers :
                 ToSet(Between(t, e, p, x, y)[c]) =
                     (ToSet(t[c]) \ {e}) \cup (IF c = p THEN {e} ELSE {})
           /\ Unique(Between(t, e, p, x, y))
<1> DEFINE u == Between(t, e, p, x, y)
           w == x \o <<e>>
           one == <<e>>
<1>1. \A c \in Containers : t[c] \in Seq(Entries)
  BY DEF Outlines
<1>2. ASSUME NEW c \in Containers
      PROVE  /\ Tree!Omit(t[c], {e}) \in Seq(Entries)
             /\ ToSet(Tree!Omit(t[c], {e})) = ToSet(t[c]) \ {e}
             /\ Distinct(Tree!Omit(t[c], {e}))
  BY <1>1, OmitInSeq, ToSetOmit, DistinctOmit DEF Unique
<1>3. one \in Seq(Entries) /\ ToSet(one) = {e} /\ Distinct(one)
  BY OneElement, ToSetOne, DistinctShort
<1>4. w \in Seq(Entries) /\ ToSet(w) = ToSet(x) \cup {e}
  <2> HIDE DEF one
  <2>1. x \o one \in Seq(Entries) /\ ToSet(x \o one) = ToSet(x) \cup ToSet(one)
    BY <1>3, ConcatProperties, ToSetConcat
  <2> QED BY <1>3, <2>1 DEF one
<1>5. w \o y \in Seq(Entries) /\ ToSet(w \o y) = (ToSet(x) \cup ToSet(y)) \cup {e}
  <2> HIDE DEF w
  <2>1. w \o y \in Seq(Entries) /\ ToSet(w \o y) = ToSet(w) \cup ToSet(y)
    BY <1>4, ConcatProperties, ToSetConcat
  <2> QED BY <1>4, <2>1
<1>6. /\ ToSet(x) \cup ToSet(y) = ToSet(t[p]) \ {e}
      /\ Distinct(x) /\ Distinct(y) /\ ToSet(x) \cap ToSet(y) = {}
  <2>1. ToSet(x \o y) = ToSet(t[p]) \ {e} /\ Distinct(x \o y)
    BY <1>2
  <2>2. ToSet(x \o y) = ToSet(x) \cup ToSet(y)
    BY ToSetConcat
  <2>3. Distinct(x) /\ Distinct(y) /\ ToSet(x) \cap ToSet(y) = {}
    BY <2>1, DistinctConcat
  <2> QED BY <2>1, <2>2, <2>3
<1>7. Distinct(w \o y)
  <2>1. e \notin ToSet(x) /\ e \notin ToSet(y)
    BY <1>6
  <2>2. Distinct(w)
    <3> HIDE DEF one
    <3>1. Distinct(x \o one)
      BY <1>3, <1>6, <2>1, DistinctConcat
    <3> QED BY <3>1 DEF one
  <2> HIDE DEF w
  <2>3. ToSet(w) \cap ToSet(y) = {}
    BY <1>4, <1>6, <2>1
  <2> QED BY <1>4, <1>6, <2>2, <2>3, DistinctConcat
<1>8. u = [c \in Containers |-> IF c = p THEN w \o y ELSE Tree!Omit(t[c], {e})]
  BY Zenon DEF Between
<1> HIDE DEF u, w
<1>9. u \in Outlines
  BY <1>2, <1>5, <1>8 DEF Outlines
<1>10. ASSUME NEW c \in Containers
       PROVE  /\ ToSet(u[c]) = (ToSet(t[c]) \ {e}) \cup (IF c = p THEN {e} ELSE {})
              /\ Distinct(u[c])
  <2>1. CASE c = p
    <3>1. u[c] = w \o y
      BY <1>8, <2>1
    <3> QED BY <1>5, <1>6, <1>7, <2>1, <3>1
  <2>2. CASE c # p
    <3>1. u[c] = Tree!Omit(t[c], {e})
      BY <1>8, <2>2
    <3> QED BY <1>2, <2>2, <3>1
  <2> QED BY <2>1, <2>2
<1>11. Unique(u)
  <2>1. ASSUME NEW c \in Containers, NEW q \in Containers, c # q
        PROVE  ToSet(u[c]) \cap ToSet(u[q]) = {}
    <3>1. ToSet(t[c]) \cap ToSet(t[q]) = {}
      BY <2>1 DEF Unique
    <3>2. ~(c = p /\ q = p)
      BY <2>1
    <3>3. /\ ToSet(u[c]) = (ToSet(t[c]) \ {e}) \cup (IF c = p THEN {e} ELSE {})
          /\ ToSet(u[q]) = (ToSet(t[q]) \ {e}) \cup (IF q = p THEN {e} ELSE {})
      BY <1>10
    <3> QED BY ONLY <3>1, <3>2, <3>3
  <2> QED BY <1>10, <2>1 DEF Unique
<1> QED BY <1>9, <1>10, <1>11 DEF u

\* An outline stays one when an entry is placed in a container that stands and is
\* not inside the entry: the entries below the one that moves change their levels.
LEMMA BetweenIsOutline ==
    ASSUME NEW t, IsOutline(t), NEW e \in Entries, NEW p \in Tree!Groups(t),
           ~Tree!InsideOf(t, e, p),
           NEW x \in Seq(Entries), NEW y \in Seq(Entries), Tree!Omit(t[p], {e}) = x \o y
    PROVE  IsOutline(Between(t, e, p, x, y))
<1> DEFINE u == Between(t, e, p, x, y)
<1>1. t \in Outlines /\ Unique(t) /\ p \in Containers
  BY GroupsIs DEF IsOutline, Containers
<1>2. /\ u \in Outlines
      /\ \A c \in Containers :
            ToSet(u[c]) = (ToSet(t[c]) \ {e}) \cup (IF c = p THEN {e} ELSE {})
      /\ Unique(u)
  BY <1>1, BetweenPlaces
<1>3. \A c \in Containers : c # p => u[c] = Tree!Omit(t[c], {e})
  BY DEF Between
<1> HIDE DEF u
<1>4. Tree!Placed(u) = Tree!Placed(t) \cup {e}
  <2>1. ASSUME NEW z, z \in Tree!Placed(u) PROVE z \in Tree!Placed(t) \cup {e}
    <3>1. PICK c \in Containers : z \in ToSet(u[c])
      BY <2>1, PlacedIs
    <3>2. ToSet(u[c]) = (ToSet(t[c]) \ {e}) \cup (IF c = p THEN {e} ELSE {})
      BY <1>2
    <3>3. z \in ToSet(t[c]) \/ z = e
      BY ONLY <3>1, <3>2
    <3> QED BY <3>3, PlacedIs
  <2>2. ASSUME NEW z, z \in Tree!Placed(t) PROVE z \in Tree!Placed(u)
    <3>1. PICK c \in Containers : z \in ToSet(t[c])
      BY <2>2, PlacedIs
    <3>2. z # e => z \in ToSet(u[c])
      BY <1>2, <3>1
    <3>3. e \in ToSet(u[p])
      BY <1>1, <1>2
    <3> QED BY <1>1, <3>2, <3>3, PlacedIs
  <2>3. e \in Tree!Placed(u)
    <3>1. e \in ToSet(u[p])
      BY <1>1, <1>2
    <3> QED BY <1>1, <3>1, PlacedIs
  <2> QED BY <2>1, <2>2, <2>3
<1>5. Tree!Groups(u) = Tree!Groups(t) \cup ({e} \cap Cats)
  BY <1>4, GroupsIs
<1>6. ASSUME NEW z \in Tree!Placed(t), z # e
      PROVE  Tree!ParentIn(u, z) = Tree!ParentIn(t, z)
  <2>1. Tree!ParentIn(t, z) \in Containers /\ z \in ToSet(t[Tree!ParentIn(t, z)])
    BY <1>1, ParentHolds
  <2>2. z \in ToSet(u[Tree!ParentIn(t, z)])
    BY <1>2, <1>6, <2>1
  <2> QED BY <1>2, <2>1, <2>2, ParentIs
<1>7. Tree!ParentIn(u, e) = p
  <2>1. e \in ToSet(u[p])
    BY <1>1, <1>2
  <2> QED BY <1>1, <1>2, <2>1, ParentIs
<1>8. \A c \in Containers \ Tree!Groups(u) : u[c] = <<>>
  <2> SUFFICES ASSUME NEW c \in Containers \ Tree!Groups(u) PROVE u[c] = <<>>
    OBVIOUS
  <2>1. c \notin Tree!Groups(t) /\ c # p
    BY <1>5
  <2>2. t[c] = <<>>
    BY <2>1 DEF IsOutline
  <2> QED BY <1>3, <2>1, <2>2, OmitEmpty
<1>9. PICK f : Ranks(t, f)
  BY DEF IsOutline
<1> DEFINE g == [z \in Tree!Groups(u) |->
                    IF z = e THEN f[p] + 1
                    ELSE IF Tree!InsideOf(t, e, z) THEN (f[z] - f[e]) + (f[p] + 1) ELSE f[z]]
<1>10. \A z \in Tree!Groups(t) : f[z] \in Nat
  BY <1>9 DEF Ranks
<1>11. ASSUME NEW z \in Tree!Groups(u), z # e
       PROVE  /\ z \in Tree!Groups(t)
              /\ Tree!InsideOf(t, e, z) => f[e] \in Nat /\ f[e] <= f[z]
  BY <1>5, <1>9, <1>10, <1>11, InsideIsDeeper
<1>12. g \in [Tree!Groups(u) -> Nat]
  <2>1. ASSUME NEW z \in Tree!Groups(u) PROVE g[z] \in Nat
    <3>1. CASE z = e
      BY <1>10, <3>1
    <3>2. CASE z # e
      BY <1>10, <1>11, <3>2
    <3> QED BY <3>1, <3>2
  <2> QED BY <2>1
<1>13. ASSUME NEW z \in Tree!Groups(u)
       PROVE  g[z] = IF z = Root THEN 0 ELSE 1 + g[Tree!ParentIn(u, z)]
  <2>1. e # Root /\ Root \in Entries \cup {Root} /\ Root \notin Tree!Placed(t)
        /\ Root \in Tree!Groups(t)
    BY <1>1, NoRootEntry, RootIsPlacedNowhere, GroupsIs
  <2>2. CASE z = Root
    <3>1. ~Tree!InsideOf(t, e, Root)
      BY <1>1, <2>1, InsideIs
    <3>2. f[Root] = 0
      BY <1>9, <2>1 DEF Ranks
    <3> QED BY <2>1, <2>2, <3>1, <3>2
  <2>3. CASE z = e
    <3>1. p # e
      <4>1. p = e => Tree!InsideOf(t, e, p)
        BY <1>1, InsideIs
      <4> QED BY <4>1
    <3>2. g[p] = f[p] /\ f[p] \in Nat
      BY <1>5, <1>10, <3>1
    <3> HIDE DEF g
    <3>3. g[e] = f[p] + 1
      BY <2>3 DEF g
    <3> QED BY <1>7, <2>1, <2>3, <3>2, <3>3
  <2>4. CASE z # Root /\ z # e
    <3> DEFINE q == Tree!ParentIn(t, z)
    <3>1. z \in Tree!Groups(t) /\ z \in Tree!Placed(t)
      BY <1>11, <2>4, GroupsIs
    <3>2. q \in Tree!Groups(t) /\ Tree!ParentIn(u, z) = q /\ q \in Tree!Groups(u)
      BY <1>5, <1>6, <2>4, <3>1, ParentStands
    <3>3. f[z] = 1 + f[q] /\ f[q] \in Nat
      BY <1>9, <1>10, <2>4, <3>1, <3>2 DEF Ranks
    <3>4. Tree!InsideOf(t, e, z) <=> Tree!InsideOf(t, e, q)
      <4>1. z \in Entries \cup {Root} /\ e \in Entries \cup {Root}
        BY <1>1, <3>1, PlacedAreEntries
      <4> QED BY <1>1, <2>4, <3>1, <4>1, InsideIs
    <3>5. q = e => Tree!InsideOf(t, e, q)
      BY <1>1, InsideIs
    <3> HIDE DEF q
    <3>6. /\ g[z] = IF Tree!InsideOf(t, e, z) THEN (f[z] - f[e]) + (f[p] + 1) ELSE f[z]
          /\ g[q] = IF q = e THEN f[p] + 1
                    ELSE IF Tree!InsideOf(t, e, q) THEN (f[q] - f[e]) + (f[p] + 1) ELSE f[q]
      BY <2>4, <3>2
    <3>7. f[p] \in Nat
      BY <1>10
    <3> HIDE DEF g
    <3>8. CASE Tree!InsideOf(t, e, z)
      <4>1. f[e] \in Nat
        BY <1>11, <2>4, <3>8
      <4>2. CASE q = e
        BY <2>4, <3>2, <3>3, <3>6, <3>7, <3>8, <4>1, <4>2
      <4>3. CASE q # e
        BY <2>4, <3>2, <3>3, <3>4, <3>6, <3>7, <3>8, <4>1, <4>3
      <4> QED BY <4>2, <4>3
    <3>9. CASE ~Tree!InsideOf(t, e, z)
      BY <2>4, <3>2, <3>3, <3>4, <3>5, <3>6, <3>9
    <3> QED BY <3>8, <3>9
  <2> QED BY <2>2, <2>3, <2>4
<1>14. Ranks(u, g)
  <2> HIDE DEF g
  <2> QED BY <1>12, <1>13 DEF Ranks
<1>15. IsOutline(u)
  <2> HIDE DEF g
  <2> QED BY <1>2, <1>8, <1>14 DEF IsOutline
<1> QED BY <1>15 DEF u

-----------------------------------------------------------------------------
(* Removing an entry                                                       *)

\* The containers that go with e.
Gone(t, e, c) == e \in Cats /\ Tree!InsideOf(t, e, c)

LEMMA WithoutIs ==
    ASSUME NEW t, NEW e
    PROVE  Tree!Without(t, e) =
               [c \in Containers |-> IF Gone(t, e, c) THEN <<>> ELSE Tree!Omit(t[c], {e})]
  BY TreeNames, Zenon DEF Tree!Without, Gone

LEMMA WithoutPlaces ==
    ASSUME NEW t \in Outlines, Unique(t), NEW e
    PROVE  /\ Tree!Without(t, e) \in Outlines
           /\ \A c \in Containers :
                 ToSet(Tree!Without(t, e)[c]) = IF Gone(t, e, c) THEN {} ELSE ToSet(t[c]) \ {e}
           /\ Unique(Tree!Without(t, e))
<1> DEFINE u == Tree!Without(t, e)
           nil == <<>>
<1>1. \A c \in Containers : t[c] \in Seq(Entries) /\ Distinct(t[c])
  BY DEF Outlines, Unique
<1>2. nil \in Seq(Entries) /\ ToSet(nil) = {} /\ Distinct(nil)
  BY EmptySeq, ToSetEmpty, DistinctShort
<1>3. u = [c \in Containers |-> IF Gone(t, e, c) THEN nil ELSE Tree!Omit(t[c], {e})]
  BY WithoutIs
<1> HIDE DEF u, nil
<1>4. ASSUME NEW c \in Containers
      PROVE  /\ u[c] \in Seq(Entries) /\ Distinct(u[c])
             /\ ToSet(u[c]) = IF Gone(t, e, c) THEN {} ELSE ToSet(t[c]) \ {e}
  <2>1. /\ Tree!Omit(t[c], {e}) \in Seq(Entries)
        /\ ToSet(Tree!Omit(t[c], {e})) = ToSet(t[c]) \ {e}
        /\ Distinct(Tree!Omit(t[c], {e}))
    BY <1>1, OmitInSeq, ToSetOmit, DistinctOmit
  <2>2. u[c] = IF Gone(t, e, c) THEN nil ELSE Tree!Omit(t[c], {e})
    BY <1>3
  <2>3. CASE Gone(t, e, c)
    BY <1>2, <2>2, <2>3
  <2>4. CASE ~Gone(t, e, c)
    BY <2>1, <2>2, <2>4
  <2> QED BY <2>3, <2>4
<1>5. u \in Outlines
  BY <1>3, <1>4 DEF Outlines
<1>6. ASSUME NEW c \in Containers, NEW q \in Containers, c # q
      PROVE  ToSet(u[c]) \cap ToSet(u[q]) = {}
  <2>1. ToSet(t[c]) \cap ToSet(t[q]) = {}
    BY <1>6 DEF Unique
  <2>2. ToSet(u[c]) \subseteq ToSet(t[c]) /\ ToSet(u[q]) \subseteq ToSet(t[q])
    BY <1>4
  <2> QED BY ONLY <2>1, <2>2
<1>7. Unique(u)
  BY <1>4, <1>6 DEF Unique
<1> QED BY <1>4, <1>5, <1>7 DEF u

\* An outline stays one without an entry and what is inside it.
LEMMA WithoutIsOutline ==
    ASSUME NEW t, IsOutline(t), NEW e \in Tree!Placed(t)
    PROVE  IsOutline(Tree!Without(t, e))
<1> DEFINE u == Tree!Without(t, e)
<1>1. t \in Outlines /\ Unique(t)
  BY DEF IsOutline
<1>2. /\ u \in Outlines /\ Unique(u)
      /\ \A c \in Containers :
            ToSet(u[c]) = IF Gone(t, e, c) THEN {} ELSE ToSet(t[c]) \ {e}
      /\ \A c \in Containers : u[c] = IF Gone(t, e, c) THEN <<>> ELSE Tree!Omit(t[c], {e})
  BY <1>1, WithoutPlaces, WithoutIs
<1> HIDE DEF u
<1>3. ASSUME NEW z \in Tree!Placed(u)
      PROVE  /\ z \in Tree!Placed(t)
             /\ Tree!ParentIn(u, z) = Tree!ParentIn(t, z)
             /\ Tree!ParentIn(t, z) \in Containers
             /\ z \in ToSet(u[Tree!ParentIn(t, z)])
  <2>1. PICK c \in Containers : z \in ToSet(u[c])
    BY PlacedIs
  <2>2. z \in ToSet(t[c])
    BY <1>2, <2>1
  <2>3. Tree!ParentIn(u, z) = c /\ Tree!ParentIn(t, z) = c
    BY <1>1, <1>2, <2>1, <2>2, ParentIs
  <2> QED BY <2>1, <2>2, <2>3, PlacedIs
<1>4. Tree!Groups(u) \subseteq Tree!Groups(t)
  BY <1>3, GroupsIs
<1>5. \A c \in Containers \ Tree!Groups(u) : u[c] = <<>>
  <2> SUFFICES ASSUME NEW c \in Containers \ Tree!Groups(u) PROVE u[c] = <<>>
    OBVIOUS
  <2>1. CASE c \notin Tree!Groups(t)
    <3>1. t[c] = <<>>
      BY <2>1 DEF IsOutline
    <3> QED BY <1>2, <3>1, OmitEmpty
  <2>2. CASE c \in Tree!Groups(t)
    <3> DEFINE q == Tree!ParentIn(t, c)
    <3>1. c \in Tree!Placed(t) /\ c \in Cats /\ c \notin Tree!Placed(u)
      BY <2>2, GroupsIs
    <3>2. q \in Containers /\ c \in ToSet(t[q])
      BY <1>1, <3>1, ParentHolds
    <3>3. c \notin ToSet(u[q])
      BY <3>1, <3>2, PlacedIs
    <3>4. Gone(t, e, q) \/ c = e
      BY <1>2, <3>2, <3>3
    <3>5. c \in Entries \cup {Root} /\ e \in Entries \cup {Root}
      BY <1>1, <3>1, PlacedAreEntries
    <3>6. Tree!InsideOf(t, e, c) <=> c = e \/ (c \in Tree!Placed(t) /\ Tree!InsideOf(t, e, q))
      BY <1>1, <3>5, InsideIs
    <3> HIDE DEF q
    <3>7. Gone(t, e, c)
      BY <3>1, <3>4, <3>6 DEF Gone
    <3> QED BY <1>2, <3>7
  <2> QED BY <2>1, <2>2
<1>6. PICK f : Ranks(t, f)
  BY DEF IsOutline
<1> DEFINE g == [z \in Tree!Groups(u) |-> f[z]]
<1>7. g \in [Tree!Groups(u) -> Nat]
  BY <1>4, <1>6 DEF Ranks
<1>8. ASSUME NEW z \in Tree!Groups(u)
      PROVE  g[z] = IF z = Root THEN 0 ELSE 1 + g[Tree!ParentIn(u, z)]
  <2>1. f[z] = IF z = Root THEN 0 ELSE 1 + f[Tree!ParentIn(t, z)]
    BY <1>4, <1>6 DEF Ranks
  <2>2. CASE z # Root
    <3>1. z \in Tree!Placed(u)
      BY <2>2, GroupsIs
    <3>2. u[Tree!ParentIn(t, z)] # <<>>
      BY <1>3, <3>1, ToSetEmpty
    <3>3. Tree!ParentIn(t, z) \in Tree!Groups(u)
      BY <1>3, <1>5, <3>1, <3>2
    <3> QED BY <1>3, <2>1, <2>2, <3>1, <3>3
  <2> QED BY <2>1, <2>2
<1>9. Ranks(u, g)
  <2> HIDE DEF g
  <2> QED BY <1>7, <1>8 DEF Ranks
<1>10. IsOutline(u)
  <2> HIDE DEF g
  <2> QED BY <1>2, <1>5, <1>9 DEF IsOutline
<1> QED BY <1>10 DEF u

\* An entry that is not there yet has nothing inside.
LEMMA NothingInsideStrangers ==
    ASSUME NEW t, IsOutline(t), NEW e \in Entries \ Tree!Placed(t), NEW p \in Tree!Groups(t)
    PROVE  ~Tree!InsideOf(t, e, p)
<1>1. e \notin Tree!Groups(t)
  BY GroupsIs, NoRootEntry
<1> QED BY <1>1, NothingInsideItems

\* e is placed in u, and the parents of the others are those in t.
KeepsParents(t, e, u) ==
    /\ Tree!Placed(u) = Tree!Placed(t) \cup {e}
    /\ \A z \in Tree!Placed(t) \ {e} : Tree!ParentIn(u, z) = Tree!ParentIn(t, z)

LEMMA BetweenKeepsParents ==
    ASSUME NEW t \in Outlines, Unique(t), NEW e \in Entries, NEW p \in Containers,
           NEW x \in Seq(Entries), NEW y \in Seq(Entries), Tree!Omit(t[p], {e}) = x \o y
    PROVE  KeepsParents(t, e, Between(t, e, p, x, y))
<1> DEFINE u == Between(t, e, p, x, y)
<1>1. /\ u \in Outlines
      /\ \A c \in Containers :
            ToSet(u[c]) = (ToSet(t[c]) \ {e}) \cup (IF c = p THEN {e} ELSE {})
      /\ Unique(u)
  BY BetweenPlaces
<1> HIDE DEF u
<1>2. Tree!Placed(u) = Tree!Placed(t) \cup {e}
  <2>1. ASSUME NEW z, z \in Tree!Placed(u) PROVE z \in Tree!Placed(t) \cup {e}
    <3>1. PICK c \in Containers : z \in ToSet(u[c])
      BY <2>1, PlacedIs
    <3>2. ToSet(u[c]) = (ToSet(t[c]) \ {e}) \cup (IF c = p THEN {e} ELSE {})
      BY <1>1
    <3>3. z \in ToSet(t[c]) \/ z = e
      BY ONLY <3>1, <3>2
    <3> QED BY <3>3, PlacedIs
  <2>2. ASSUME NEW z, z \in Tree!Placed(t) PROVE z \in Tree!Placed(u)
    <3>1. PICK c \in Containers : z \in ToSet(t[c])
      BY <2>2, PlacedIs
    <3>2. z # e => z \in ToSet(u[c])
      BY <1>1, <3>1
    <3>3. e \in ToSet(u[p])
      BY <1>1
    <3> QED BY <3>2, <3>3, PlacedIs
  <2>3. e \in Tree!Placed(u)
    <3>1. e \in ToSet(u[p])
      BY <1>1
    <3> QED BY <3>1, PlacedIs
  <2> QED BY <2>1, <2>2, <2>3
<1>3. ASSUME NEW z \in Tree!Placed(t) \ {e}
      PROVE  Tree!ParentIn(u, z) = Tree!ParentIn(t, z)
  <2>1. Tree!ParentIn(t, z) \in Containers /\ z \in ToSet(t[Tree!ParentIn(t, z)])
    BY ParentHolds
  <2>2. z \in ToSet(u[Tree!ParentIn(t, z)])
    BY <1>1, <2>1
  <2> QED BY <1>1, <2>1, <2>2, ParentIs
<1> QED BY <1>2, <1>3 DEF u, KeepsParents

-----------------------------------------------------------------------------
(* Documents and their outlines                                            *)

LEMMA PartsAre ==
    /\ Cats \subseteq Parts /\ Seq(Items) \subseteq Parts
    /\ \A x \in Parts : x \notin Cats => x \in Seq(Items)
    /\ Cats \cap Seq(Items) = {}
    /\ Seq(Items) \subseteq Seq(Entries)
<1>1. Items \subseteq Entries
  BY DEF Entries
<1>2. Cats \cap Seq(Items) = {}
  BY HierarchyAssumption
<1>3. Seq(Items) \subseteq Seq(Entries)
  BY <1>1, SeqMonotonic
<1> QED BY <1>2, <1>3 DEF Parts

LEMMA DocumentsHold ==
    ASSUME NEW d \in Documents, NEW c \in Containers
    PROVE  /\ d[c].list \in Seq(Items) /\ d[c].list \in Seq(Entries)
           /\ d[c].parts \in Seq(Parts)
  BY PartsAre DEF Documents, Parts

LEMMA OutlineAt ==
    ASSUME NEW d \in Documents, NEW c \in Containers
    PROVE  /\ Outline(d)[c] = d[c].list \o Shown(d[c].parts)
           /\ Outline(d)[c] \in Seq(Entries)
           /\ d[c].parts = <<>> => Outline(d)[c] = d[c].list
           /\ d[c].list = <<>> => Outline(d)[c] = Shown(d[c].parts)
<1>1. Outline(d)[c] = d[c].list \o Shown(d[c].parts)
  BY Zenon DEF Outline, OutlineChildren
<1>2. d[c].list \in Seq(Entries) /\ Shown(d[c].parts) \in Seq(Entries)
  BY DocumentsHold, ShownInSeq
<1>3. d[c].list \o Shown(d[c].parts) \in Seq(Entries)
  BY <1>2, ConcatProperties
<1>4. d[c].parts = <<>> => d[c].list \o Shown(d[c].parts) = d[c].list
  <2> DEFINE nil == <<>>
  <2>1. d[c].list \o nil = d[c].list
    BY <1>2, ConcatEmptySeq
  <2>2. Shown(nil) = nil
    BY ShownEmpty
  <2> HIDE DEF nil
  <2>3. d[c].parts = nil => d[c].list \o Shown(d[c].parts) = d[c].list
    BY <2>1, <2>2
  <2> QED BY <2>3 DEF nil
<1>5. d[c].list = <<>> => d[c].list \o Shown(d[c].parts) = Shown(d[c].parts)
  <2> DEFINE nil == <<>>
  <2>1. nil \o Shown(d[c].parts) = Shown(d[c].parts)
    BY <1>2, ConcatEmptySeq
  <2> HIDE DEF nil
  <2>2. d[c].list = nil => d[c].list \o Shown(d[c].parts) = Shown(d[c].parts)
    BY <2>1
  <2> QED BY <2>2 DEF nil
<1> QED BY <1>1, <1>3, <1>4, <1>5

\* A container has sections or a list.
Exclusive(d) == \A c \in Containers : d[c].list = <<>> \/ d[c].parts = <<>>

\* The documents between two operations: NativeLayout without the limit, then with it.
Proper(d) ==
    /\ d \in Documents
    /\ Exclusive(d)
    /\ IsOutline(Outline(d))

Native(d) ==
    /\ Proper(d)
    /\ \A c \in Containers : ~Contains(d[c].parts, <<>>)
    /\ ~TooDeep(d)

-----------------------------------------------------------------------------
(* Normalisation                                                           *)

\* A bucket without positions shows nothing.
LEMMA ShownWithoutEmpty ==
    ASSUME NEW parts \in Seq(Parts)
    PROVE  Shown(Tree!Omit(parts, {<<>>})) = Shown(parts)
<1> DEFINE nil == <<>>
<1>0. nil \notin Cats /\ Piece(nil) = nil
  <2>1. nil \in Seq(Items)
    BY EmptySeq
  <2>2. nil \notin Cats
    <3> HIDE DEF nil
    <3> QED BY <2>1, PartsAre
  <2> QED BY <2>2 DEF Piece, IsBucket
<1>a. \A s \in Seq(Entries) : s \o nil = s
  BY ConcatEmptySeq
<1>b. \A X : Tree!Omit(nil, X) = nil
  BY OmitEmpty
<1>c. \A u \in Seq(Parts) : Len(u) = 0 => u = nil
  BY EmptySeq
<1> HIDE DEF nil
<1> DEFINE G == {n \in Nat : \A u \in Seq(Parts) :
                    Len(u) = n => Shown(Tree!Omit(u, {nil})) = Shown(u)}
<1>1. 0 \in G
  BY <1>b, <1>c
<1>2. ASSUME NEW n \in Nat, n \in G PROVE n + 1 \in G
  <2> SUFFICES ASSUME NEW v \in Seq(Parts), Len(v) = n + 1
               PROVE  Shown(Tree!Omit(v, {nil})) = Shown(v)
    <3>1. n + 1 \in Nat
      OBVIOUS
    <3> QED BY <3>1, Zenon
  <2>1. \E u \in Seq(Parts), x \in Parts : v = Append(u, x) /\ Len(u) = n
    BY LastElement
  <2>2. PICK u \in Seq(Parts), x \in Parts : v = Append(u, x) /\ Len(u) = n
    BY ONLY <2>1
  <2>3. Shown(Tree!Omit(u, {nil})) = Shown(u)
    BY <1>2, <2>2
  <2>4. Shown(v) = Shown(u) \o Piece(x)
    BY <2>2, ShownAppend
  <2>5. Tree!Omit(v, {nil}) =
            IF x \in {nil} THEN Tree!Omit(u, {nil}) ELSE Append(Tree!Omit(u, {nil}), x)
    BY <2>2, OmitAppend
  <2>6. CASE x = nil
    <3>1. Shown(v) = Shown(u)
      BY <1>0, <1>a, <2>4, <2>6, ShownInSeq
    <3> QED BY <2>3, <2>5, <2>6, <3>1
  <2>7. CASE x # nil
    <3> DEFINE w == Tree!Omit(u, {nil})
    <3>1. w \in Seq(Parts)
      BY OmitInSeq
    <3> HIDE DEF w
    <3>2. Shown(Append(w, x)) = Shown(w) \o Piece(x)
      BY <3>1, ShownAppend
    <3> QED BY <2>3, <2>4, <2>5, <2>7, <3>2 DEF w
  <2> QED BY <2>6, <2>7
<1>3. \A n \in Nat : n \in G
  <2> HIDE DEF G
  <2> QED BY <1>1, <1>2, AllNumbers
<1>4. Len(parts) \in Nat
  BY LenProperties
<1> QED BY <1>3, <1>4 DEF nil

LEMMA SlimIs ==
    ASSUME NEW d \in Documents, Exclusive(d)
    PROVE  /\ WithoutEmptyBuckets(d) \in Documents
           /\ Exclusive(WithoutEmptyBuckets(d))
           /\ \A c \in Containers : ~Contains(WithoutEmptyBuckets(d)[c].parts, <<>>)
           /\ Outline(WithoutEmptyBuckets(d)) = Outline(d)
<1> DEFINE s == WithoutEmptyBuckets(d)
           nil == <<>>
           X == {nil}
<1>1. s = [c \in Containers |-> [d[c] EXCEPT !.parts = Tree!Omit(d[c].parts, X)]]
  BY Zenon DEF WithoutEmptyBuckets
<1>2. Tree!Omit(nil, X) = nil
  BY OmitEmpty
<1>3. \A c \in Containers : d[c].list = nil \/ d[c].parts = nil
  BY DEF Exclusive
<1>4. \A c \in Containers : Shown(Tree!Omit(d[c].parts, X)) = Shown(d[c].parts)
  BY DocumentsHold, ShownWithoutEmpty
<1>5. nil \in X
  OBVIOUS
<1> HIDE DEF s, nil, X
<1>6. ASSUME NEW c \in Containers
      PROVE  /\ Tree!Omit(d[c].parts, X) \in Seq(Parts)
             /\ ToSet(Tree!Omit(d[c].parts, X)) = ToSet(d[c].parts) \ X
  BY DocumentsHold, OmitInSeq, ToSetOmit
<1>7. ASSUME NEW c \in Containers
      PROVE  s[c] = [list |-> d[c].list, parts |-> Tree!Omit(d[c].parts, X)]
  <2>1. d[c] = [list |-> d[c].list, parts |-> d[c].parts]
    BY DEF Documents
  <2> QED BY <1>1, <2>1
<1>14. ASSUME NEW c \in Containers
       PROVE  s[c].list = d[c].list /\ s[c].parts = Tree!Omit(d[c].parts, X)
  <2>1. s[c] = [list |-> d[c].list, parts |-> Tree!Omit(d[c].parts, X)]
    BY <1>7
  <2> QED BY ONLY <2>1
<1>8. s \in Documents
  <2>1. \A c \in Containers : d[c].list \in Seq(Items)
    BY DocumentsHold
  <2> QED BY <1>1, <1>6, <1>7, <2>1 DEF Documents, Parts
<1>9. \A c \in Containers : s[c].list = nil \/ s[c].parts = nil
  BY <1>2, <1>3, <1>14
<1>10. ASSUME NEW c \in Containers PROVE ~Contains(s[c].parts, nil)
  <2>1. s[c].parts \in Seq(Parts) /\ nil \notin ToSet(s[c].parts)
    BY <1>5, <1>6, <1>14
  <2> QED BY <2>1, ContainsIs
<1>11. \A c \in Containers : OutlineChildren(s, c) = OutlineChildren(d, c)
  <2> TAKE c \in Containers
  <2>1. s[c].list = d[c].list /\ Shown(s[c].parts) = Shown(d[c].parts)
    BY <1>4, <1>14
  <2> QED BY <2>1 DEF OutlineChildren
<1>12. Outline(s) = Outline(d)
  BY <1>11, Zenon DEF Outline
<1>13. Exclusive(s)
  BY <1>9 DEF Exclusive, nil
<1> QED BY <1>8, <1>10, <1>12, <1>13 DEF s, nil

\* A document that comes out of an operation: as it was asked, or the limit is close.
LEMMA NormalizeIs ==
    ASSUME NEW d, Proper(d)
    PROVE  \/ /\ NormalizeHierarchy(d) = HierarchyLimit
              /\ NeedsLevels(Outline(d), MaxLevels)
           \/ /\ Native(NormalizeHierarchy(d))
              /\ Outline(NormalizeHierarchy(d)) = Outline(d)
<1> DEFINE s == WithoutEmptyBuckets(d)
<1>1. /\ s \in Documents /\ Exclusive(s) /\ Outline(s) = Outline(d)
      /\ \A c \in Containers : ~Contains(s[c].parts, <<>>)
  BY SlimIs DEF Proper
<1>2. NormalizeHierarchy(d) = IF TooDeep(s) THEN HierarchyLimit ELSE s
  BY Zenon DEF NormalizeHierarchy
<1> HIDE DEF s
<1>3. CASE TooDeep(s)
  <2>1. PICK c \in Tree!Groups(Outline(d)) :
            Tree!Level(Outline(d), c)
                + (IF \E k \in DOMAIN s[c].parts : IsBucket(s[c].parts[k]) THEN 1 ELSE 0)
                    > MaxLevels
    BY <1>1, <1>3 DEF TooDeep
  <2>2. Tree!Level(Outline(d), c) \in Nat /\ MaxLevels \in Nat
    BY LevelsAreNumbers, HierarchyAssumption DEF Proper
  <2>3. Tree!Level(Outline(d), c) >= MaxLevels
    BY <2>1, <2>2
  <2>4. Tree!Level(Outline(d), c)
            + (IF \E x, y \in ToSet(Outline(d)[c]) : x \in Cats /\ y \in Items THEN 1 ELSE 0)
                >= MaxLevels
    BY <2>2, <2>3
  <2>5. NeedsLevels(Outline(d), MaxLevels)
    BY <2>4 DEF NeedsLevels
  <2> QED BY <1>2, <1>3, <2>5
<1>4. CASE ~TooDeep(s)
  BY <1>1, <1>2, <1>4 DEF Native, Proper
<1> QED BY <1>3, <1>4

\* A native document is no error.
LEMMA NativeIsNoError == \A d : Native(d) => d \notin Errors
  BY HierarchyAssumption DEF Native, Proper

-----------------------------------------------------------------------------
(* A document without an entry                                             *)

ClearedPart(x, e) == IF IsBucket(x) THEN Tree!Omit(x, {e}) ELSE x

ClearEach(s, e) == [k \in DOMAIN s |-> ClearedPart(s[k], e)]

LEMMA ClearedIs == \A s, e : Cleared(s, e) = ClearEach(Tree!Omit(s, {e}), e)
  BY DEF Cleared, ClearEach, ClearedPart

LEMMA ClearedPartIs ==
    ASSUME NEW x \in Parts, NEW e \in Entries
    PROVE  /\ ClearedPart(x, e) \in Parts
           /\ x # e => Piece(ClearedPart(x, e)) = Tree!Omit(Piece(x), {e})
           /\ x = e => Tree!Omit(Piece(x), {e}) = <<>>
           /\ e \in Items => x # e
<1>1. x = e => e \in Cats
  BY HierarchyAssumption DEF Parts, Entries
<1>2. CASE x \in Cats
  <2>1. ClearedPart(x, e) = x /\ Piece(x) = <<x>>
    BY <1>2 DEF ClearedPart, Piece, IsBucket
  <2>2. x # e => Tree!Omit(<<x>>, {e}) = <<x>>
    BY OmitOne
  <2>3. x = e => Tree!Omit(<<x>>, {e}) = <<>>
    BY OmitOne
  <2> QED BY <1>1, <2>1, <2>2, <2>3, NoRootEntry
<1>3. CASE x \notin Cats
  <2>1. x \in Seq(Items)
    BY <1>3, PartsAre
  <2>2. ClearedPart(x, e) = Tree!Omit(x, {e}) /\ Piece(x) = x
    BY <1>3 DEF ClearedPart, Piece, IsBucket
  <2>3. Tree!Omit(x, {e}) \in Seq(Items)
    BY <2>1, OmitInSeq
  <2>4. Tree!Omit(x, {e}) \notin Cats
    BY <2>3, PartsAre
  <2>5. Piece(Tree!Omit(x, {e})) = Tree!Omit(x, {e})
    BY <2>4 DEF Piece, IsBucket
  <2> QED BY <1>1, <1>3, <2>2, <2>3, <2>5, NoRootEntry, PartsAre
<1> QED BY <1>2, <1>3

LEMMA ClearEachInSeq ==
    ASSUME NEW s \in Seq(Parts), NEW e \in Entries
    PROVE  /\ ClearEach(s, e) \in Seq(Parts)
           /\ Len(ClearEach(s, e)) = Len(s)
           /\ \A k \in 1..Len(s) : ClearEach(s, e)[k] = ClearedPart(s[k], e)
<1>1. Len(s) \in Nat /\ DOMAIN s = 1..Len(s) /\ \A k \in 1..Len(s) : s[k] \in Parts
  BY LenProperties
<1>2. \A k \in 1..Len(s) : ClearedPart(s[k], e) \in Parts
  BY <1>1, ClearedPartIs
<1>3. [k \in 1..Len(s) |-> ClearedPart(s[k], e)] \in Seq(Parts)
  BY <1>1, <1>2, IsASeq
<1>4. ClearEach(s, e) = [k \in 1..Len(s) |-> ClearedPart(s[k], e)]
  BY <1>1 DEF ClearEach
<1>5. DOMAIN ClearEach(s, e) = 1..Len(s)
  BY <1>4
<1> QED BY <1>1, <1>3, <1>4, <1>5, LenProperties

LEMMA ClearEachAppend ==
    ASSUME NEW s \in Seq(Parts), NEW x \in Parts, NEW e \in Entries
    PROVE  ClearEach(Append(s, x), e) = Append(ClearEach(s, e), ClearedPart(x, e))
<1> DEFINE w == Append(s, x)
           a == ClearEach(w, e)
           c == ClearEach(s, e)
           b == Append(c, ClearedPart(x, e))
<1>1. /\ w \in Seq(Parts) /\ Len(w) = Len(s) + 1
      /\ \A k \in 1..Len(s) : w[k] = s[k]
      /\ w[Len(s) + 1] = x
      /\ Len(s) \in Nat
  BY AppendProperties, LenProperties
<1>2. /\ c \in Seq(Parts) /\ Len(c) = Len(s)
      /\ \A k \in 1..Len(s) : c[k] = ClearedPart(s[k], e)
  BY ClearEachInSeq
<1> HIDE DEF w
<1>3. /\ a \in Seq(Parts) /\ Len(a) = Len(s) + 1
      /\ \A k \in 1..(Len(s) + 1) : a[k] = ClearedPart(w[k], e)
  BY <1>1, ClearEachInSeq
<1>4. ClearedPart(x, e) \in Parts
  BY ClearedPartIs
<1> HIDE DEF a, c
<1>5. /\ b \in Seq(Parts) /\ Len(b) = Len(s) + 1
      /\ \A k \in 1..Len(s) : b[k] = c[k]
      /\ b[Len(s) + 1] = ClearedPart(x, e)
  BY <1>2, <1>4, AppendProperties
<1> HIDE DEF b
<1>6. ASSUME NEW k \in 1..(Len(s) + 1) PROVE a[k] = b[k]
  <2>1. CASE k \in 1..Len(s)
    <3>1. a[k] = ClearedPart(w[k], e) /\ w[k] = s[k] /\ c[k] = ClearedPart(s[k], e) /\ b[k] = c[k]
      BY <1>1, <1>2, <1>3, <1>5, <2>1
    <3> QED BY ONLY <3>1
  <2>2. CASE k = Len(s) + 1
    BY <1>1, <1>3, <1>5, <2>2
  <2> QED BY <1>1, <2>1, <2>2
<1>7. a = b
  BY <1>3, <1>5, <1>6, SeqEqual
<1> QED BY <1>7 DEF a, b, c, w

LEMMA ClearedInSeq ==
    ASSUME NEW s \in Seq(Parts), NEW e \in Entries
    PROVE  Cleared(s, e) \in Seq(Parts)
<1> DEFINE w == Tree!Omit(s, {e})
<1>1. w \in Seq(Parts)
  BY OmitInSeq
<1>2. Cleared(s, e) = ClearEach(w, e)
  BY ClearedIs
<1> HIDE DEF w
<1> QED BY <1>1, <1>2, ClearEachInSeq

LEMMA ClearedEmpty == \A e : Cleared(<<>>, e) = <<>>
<1> TAKE e
<1>1. Cleared(<<>>, e) = ClearEach(<<>>, e)
  BY ClearedIs, OmitEmpty
<1>2. ClearEach(<<>>, e) = <<>>
  BY DEF ClearEach
<1> QED BY <1>1, <1>2

LEMMA ClearedAppend ==
    ASSUME NEW s \in Seq(Parts), NEW x \in Parts, NEW e \in Entries
    PROVE  Cleared(Append(s, x), e) =
               IF x = e THEN Cleared(s, e) ELSE Append(Cleared(s, e), ClearedPart(x, e))
<1> DEFINE w == Tree!Omit(s, {e})
<1>1. w \in Seq(Parts)
  BY OmitInSeq
<1>2. Tree!Omit(Append(s, x), {e}) = IF x \in {e} THEN w ELSE Append(w, x)
  BY OmitAppend
<1>3. Cleared(s, e) = ClearEach(w, e)
      /\ Cleared(Append(s, x), e) = ClearEach(Tree!Omit(Append(s, x), {e}), e)
  BY ClearedIs
<1> HIDE DEF w
<1>4. ClearEach(Append(w, x), e) = Append(ClearEach(w, e), ClearedPart(x, e))
  BY <1>1, ClearEachAppend
<1>5. CASE x = e
  BY <1>2, <1>3, <1>5
<1>6. CASE x # e
  BY <1>2, <1>3, <1>4, <1>6
<1> QED BY <1>5, <1>6

\* What is shown of the rest is the rest of what was shown.
LEMMA ShownCleared ==
    ASSUME NEW parts \in Seq(Parts), NEW e \in Entries
    PROVE  Shown(Cleared(parts, e)) = Tree!Omit(Shown(parts), {e})
<1> DEFINE nil == <<>>
<1>0. /\ \A u \in Seq(Parts) : Len(u) = 0 => u = nil
      /\ \A X : Tree!Omit(nil, X) = nil
      /\ Shown(nil) = nil
      /\ Cleared(nil, e) = nil
      /\ \A s \in Seq(Entries) : s \o nil = s
      /\ \A x \in Parts : x = e => Tree!Omit(Piece(x), {e}) = nil
  BY EmptySeq, OmitEmpty, ShownEmpty, ClearedEmpty, ConcatEmptySeq, ClearedPartIs
<1> HIDE DEF nil
<1> DEFINE G == {n \in Nat : \A u \in Seq(Parts) :
                    Len(u) = n => Shown(Cleared(u, e)) = Tree!Omit(Shown(u), {e})}
<1>1. 0 \in G
  BY <1>0
<1>2. ASSUME NEW n \in Nat, n \in G PROVE n + 1 \in G
  <2> SUFFICES ASSUME NEW v \in Seq(Parts), Len(v) = n + 1
               PROVE  Shown(Cleared(v, e)) = Tree!Omit(Shown(v), {e})
    <3>1. n + 1 \in Nat
      OBVIOUS
    <3> QED BY <3>1, Zenon
  <2>1. \E u \in Seq(Parts), x \in Parts : v = Append(u, x) /\ Len(u) = n
    BY LastElement
  <2>2. PICK u \in Seq(Parts), x \in Parts : v = Append(u, x) /\ Len(u) = n
    BY ONLY <2>1
  <2>3. Shown(Cleared(u, e)) = Tree!Omit(Shown(u), {e})
    BY <1>2, <2>2
  <2>4. Shown(v) = Shown(u) \o Piece(x) /\ Shown(u) \in Seq(Entries) /\ Piece(x) \in Seq(Entries)
    BY <2>2, ShownAppend, ShownInSeq, PieceInSeq
  <2>5. Tree!Omit(Shown(v), {e}) = Tree!Omit(Shown(u), {e}) \o Tree!Omit(Piece(x), {e})
    <3>1. Tree!Omit(Shown(u) \o Piece(x), {e}) = Tree!Omit(Shown(u), {e}) \o Tree!Omit(Piece(x), {e})
      BY ONLY <2>4, OmitConcat
    <3> QED BY ONLY <2>4, <3>1
  <2>6. Cleared(v, e) = IF x = e THEN Cleared(u, e) ELSE Append(Cleared(u, e), ClearedPart(x, e))
    BY <2>2, ClearedAppend
  <2>7. CASE x = e
    <3>1. Tree!Omit(Shown(u), {e}) \in Seq(Entries)
      BY <2>4, OmitInSeq
    <3>2. Tree!Omit(Piece(x), {e}) = nil
      BY <1>0, <2>7
    <3>3. Tree!Omit(Shown(v), {e}) = Tree!Omit(Shown(u), {e})
      BY <1>0, <2>5, <3>1, <3>2
    <3> QED BY <2>3, <2>6, <2>7, <3>3
  <2>8. CASE x # e
    <3> DEFINE w == Cleared(u, e)
               z == ClearedPart(x, e)
    <3>1. w \in Seq(Parts) /\ z \in Parts /\ Piece(z) = Tree!Omit(Piece(x), {e})
      BY <2>8, ClearedInSeq, ClearedPartIs
    <3> HIDE DEF w, z
    <3>2. Shown(Append(w, z)) = Shown(w) \o Piece(z)
      BY <3>1, ShownAppend
    <3>3. Cleared(v, e) = Append(w, z)
      BY <2>6, <2>8 DEF w, z
    <3>4. Shown(w) = Tree!Omit(Shown(u), {e})
      BY <2>3 DEF w
    <3> QED BY <2>5, <3>1, <3>2, <3>3, <3>4
  <2> QED BY <2>7, <2>8
<1>3. \A n \in Nat : n \in G
  <2> HIDE DEF G
  <2> QED BY <1>1, <1>2, AllNumbers
<1>4. Len(parts) \in Nat
  BY LenProperties
<1> QED BY <1>3, <1>4

LEMMA ClearedConcat ==
    ASSUME NEW s \in Seq(Parts), NEW t \in Seq(Parts), NEW e \in Entries
    PROVE  Cleared(s \o t, e) = Cleared(s, e) \o Cleared(t, e)
<1> DEFINE nil == <<>>
<1>0. /\ \A u \in Seq(Parts) : Len(u) = 0 => u = nil
      /\ Cleared(nil, e) = nil
      /\ \A u \in Seq(Parts) : u \o nil = u
  BY EmptySeq, ClearedEmpty, ConcatEmptySeq
<1> HIDE DEF nil
<1> DEFINE G == {n \in Nat : \A u \in Seq(Parts) :
                    Len(u) = n => Cleared(s \o u, e) = Cleared(s, e) \o Cleared(u, e)}
<1>1. 0 \in G
  <2> SUFFICES ASSUME NEW u \in Seq(Parts), Len(u) = 0
               PROVE  Cleared(s \o u, e) = Cleared(s, e) \o Cleared(u, e)
    OBVIOUS
  <2>1. u = nil
    BY <1>0
  <2>2. s \o nil = s
    BY <1>0
  <2>3. Cleared(s, e) \o nil = Cleared(s, e)
    BY <1>0, ClearedInSeq
  <2> QED BY <1>0, <2>1, <2>2, <2>3
<1>2. ASSUME NEW n \in Nat, n \in G PROVE n + 1 \in G
  <2> SUFFICES ASSUME NEW v \in Seq(Parts), Len(v) = n + 1
               PROVE  Cleared(s \o v, e) = Cleared(s, e) \o Cleared(v, e)
    OBVIOUS
  <2>1. \E u \in Seq(Parts), x \in Parts : v = Append(u, x) /\ Len(u) = n
    BY LastElement
  <2>2. PICK u \in Seq(Parts), x \in Parts : v = Append(u, x) /\ Len(u) = n
    BY ONLY <2>1
  <2>3. Cleared(s \o u, e) = Cleared(s, e) \o Cleared(u, e)
    BY <1>2, <2>2
  <2>4. s \o v = Append(s \o u, x) /\ s \o u \in Seq(Parts)
    BY <2>2, ConcatAppend, ConcatProperties
  <2>5. Cleared(v, e) = IF x = e THEN Cleared(u, e) ELSE Append(Cleared(u, e), ClearedPart(x, e))
    BY <2>2, ClearedAppend
  <2>8. Cleared(s \o v, e) = IF x = e THEN Cleared(s \o u, e)
                             ELSE Append(Cleared(s \o u, e), ClearedPart(x, e))
    <3> DEFINE w == s \o u
    <3>1. w \in Seq(Parts)
      BY <2>4
    <3> HIDE DEF w
    <3>2. Cleared(Append(w, x), e) =
              IF x = e THEN Cleared(w, e) ELSE Append(Cleared(w, e), ClearedPart(x, e))
      BY <3>1, ClearedAppend
    <3> QED BY <2>4, <3>2 DEF w
  <2>6. Cleared(s, e) \in Seq(Parts) /\ Cleared(u, e) \in Seq(Parts) /\ ClearedPart(x, e) \in Parts
    BY ClearedInSeq, ClearedPartIs
  <2>7. Cleared(s, e) \o Append(Cleared(u, e), ClearedPart(x, e))
            = Append(Cleared(s, e) \o Cleared(u, e), ClearedPart(x, e))
    BY <2>6, ConcatAppend
  <2> QED BY <2>3, <2>5, <2>7, <2>8
<1>3. \A n \in Nat : n \in G
  <2> HIDE DEF G
  <2> QED BY <1>1, <1>2, AllNumbers
<1>4. Len(t) \in Nat
  BY LenProperties
<1> QED BY <1>3, <1>4

LEMMA ClearedOne ==
    ASSUME NEW x \in Parts, NEW e \in Entries, x # e
    PROVE  Cleared(<<x>>, e) = <<ClearedPart(x, e)>>
<1> DEFINE nil == <<>>
<1>1. nil \in Seq(Parts) /\ <<x>> = Append(nil, x)
      /\ Append(nil, ClearedPart(x, e)) = <<ClearedPart(x, e)>>
  BY EmptySeq, OneElement
<1>2. Cleared(nil, e) = nil
  BY ClearedEmpty
<1> HIDE DEF nil
<1>3. Cleared(Append(nil, x), e) = Append(nil, ClearedPart(x, e))
  BY <1>1, <1>2, ClearedAppend
<1> QED BY <1>1, <1>3

\* A position is in a bucket: the parts stay as many as they are.
LEMMA ClearedLen ==
    ASSUME NEW s \in Seq(Parts), NEW e \in Items
    PROVE  Len(Cleared(s, e)) = Len(s)
<1> DEFINE X == {e}
<1>1. e \in Entries /\ e \notin Parts
  BY HierarchyAssumption DEF Entries, Parts
<1>2. ToSet(s) \cap X = {}
  <2>1. \A x \in ToSet(s) : x \in Parts
    BY ToSetIs, LenProperties
  <2> QED BY <1>1, <2>1
<1> HIDE DEF X
<1>3. Tree!Omit(s, X) = s
  BY <1>2, OmitNothing
<1> QED BY <1>1, <1>3, ClearedIs, ClearEachInSeq DEF X

LEMMA DetachIs ==
    ASSUME NEW d \in Documents, Exclusive(d), NEW e \in Entries
    PROVE  /\ Detach(d, e) \in Documents
           /\ Exclusive(Detach(d, e))
           /\ \A c \in Containers :
                 /\ Detach(d, e)[c].list = Tree!Omit(d[c].list, {e})
                 /\ Detach(d, e)[c].parts = Cleared(d[c].parts, e)
                 /\ Outline(Detach(d, e))[c] = Tree!Omit(Outline(d)[c], {e})
<1> DEFINE s == Detach(d, e)
           nil == <<>>
           X == {e}
<1>1. s = [c \in Containers |->
              [list |-> Tree!Omit(d[c].list, X), parts |-> Cleared(d[c].parts, e)]]
  BY Zenon DEF Detach
<1>2. Tree!Omit(nil, X) = nil /\ Cleared(nil, e) = nil
  BY OmitEmpty, ClearedEmpty
<1>3. \A c \in Containers : d[c].list = nil \/ d[c].parts = nil
  BY DEF Exclusive
<1>4. \A c \in Containers : Shown(Cleared(d[c].parts, e)) = Tree!Omit(Shown(d[c].parts), X)
  BY DocumentsHold, ShownCleared
<1> HIDE DEF s, nil, X
<1>5. ASSUME NEW c \in Containers
      PROVE  /\ Tree!Omit(d[c].list, X) \in Seq(Items)
             /\ Cleared(d[c].parts, e) \in Seq(Parts)
  BY DocumentsHold, OmitInSeq, ClearedInSeq
<1>6. \A c \in Containers :
          s[c] = [list |-> Tree!Omit(d[c].list, X), parts |-> Cleared(d[c].parts, e)]
  BY <1>1
<1>7. ASSUME NEW c \in Containers
      PROVE  s[c].list = Tree!Omit(d[c].list, X) /\ s[c].parts = Cleared(d[c].parts, e)
  <2>1. s[c] = [list |-> Tree!Omit(d[c].list, X), parts |-> Cleared(d[c].parts, e)]
    BY <1>6
  <2> QED BY ONLY <2>1
<1>8. s \in Documents
  BY <1>1, <1>5 DEF Documents, Parts
<1>9. \A c \in Containers : s[c].list = nil \/ s[c].parts = nil
  BY <1>2, <1>3, <1>7
<1>10. ASSUME NEW c \in Containers PROVE Outline(s)[c] = Tree!Omit(Outline(d)[c], X)
  <2>1. Outline(s)[c] = s[c].list \o Shown(s[c].parts)
        /\ Outline(d)[c] = d[c].list \o Shown(d[c].parts)
    BY <1>8, OutlineAt
  <2>2. d[c].list \in Seq(Entries) /\ Shown(d[c].parts) \in Seq(Entries)
    BY DocumentsHold, ShownInSeq
  <2>3. Tree!Omit(d[c].list \o Shown(d[c].parts), X)
            = Tree!Omit(d[c].list, X) \o Tree!Omit(Shown(d[c].parts), X)
    <3> DEFINE l == d[c].list
               v == Shown(d[c].parts)
    <3>1. l \in Seq(Entries) /\ v \in Seq(Entries)
      BY <2>2
    <3> HIDE DEF l, v
    <3>2. Tree!Omit(l \o v, X) = Tree!Omit(l, X) \o Tree!Omit(v, X)
      BY <3>1, OmitConcat
    <3> QED BY <3>2 DEF l, v
  <2> QED BY <1>4, <1>7, <2>1, <2>3
<1>11. Exclusive(s)
  BY <1>9 DEF Exclusive, nil
<1> QED BY <1>7, <1>8, <1>10, <1>11 DEF s, X

-----------------------------------------------------------------------------
(* A document with an entry at another place                               *)

\* The container p of d has this list and these parts instead.
Refilled(d, p, list, parts) == [d EXCEPT ![p] = [list |-> list, parts |-> parts]]

OneKind(list, parts) == list = <<>> \/ parts = <<>>

LEMMA RefilledIs ==
    ASSUME NEW d \in Documents, Exclusive(d), NEW p \in Containers,
           NEW list \in Seq(Items), NEW parts \in Seq(Parts), OneKind(list, parts)
    PROVE  /\ Refilled(d, p, list, parts) \in Documents
           /\ Exclusive(Refilled(d, p, list, parts))
           /\ Refilled(d, p, list, parts)[p].list = list
           /\ Refilled(d, p, list, parts)[p].parts = parts
           /\ Outline(Refilled(d, p, list, parts)) = [Outline(d) EXCEPT ![p] = list \o Shown(parts)]
<1> DEFINE s == Refilled(d, p, list, parts)
           r == [list |-> list, parts |-> parts]
<1>1. s = [d EXCEPT ![p] = r]
  BY DEF Refilled
<1>2. r \in [list : Seq(Items), parts : Seq(Parts)] /\ r.list = list /\ r.parts = parts
  OBVIOUS
<1> HIDE DEF s, r
<1>3. s \in Documents
  BY <1>1, <1>2 DEF Documents, Parts
<1>4. s[p] = r /\ \A c \in Containers : c # p => s[c] = d[c]
  BY <1>1 DEF Documents
<1>5. s[p].list = list /\ s[p].parts = parts
  BY <1>2, <1>4
<1>6. Exclusive(s)
  <2>1. \A c \in Containers \ {p} : s[c].list = <<>> \/ s[c].parts = <<>>
    BY <1>4 DEF Exclusive
  <2>2. s[p].list = <<>> \/ s[p].parts = <<>>
    BY <1>5 DEF OneKind
  <2> QED BY <2>1, <2>2 DEF Exclusive
<1>7. Outline(s) = [Outline(d) EXCEPT ![p] = list \o Shown(parts)]
  <2> DEFINE w == list \o Shown(parts)
  <2>1. OutlineChildren(s, p) = w
    BY <1>5 DEF OutlineChildren
  <2>2. \A c \in Containers : c # p => OutlineChildren(s, c) = OutlineChildren(d, c)
    BY <1>4 DEF OutlineChildren
  <2>3. Outline(s) = [c \in Containers |-> OutlineChildren(s, c)]
        /\ Outline(d) = [c \in Containers |-> OutlineChildren(d, c)]
    BY Zenon DEF Outline
  <2> HIDE DEF w
  <2>4. Outline(s) = [Outline(d) EXCEPT ![p] = w]
    BY <2>1, <2>2, <2>3
  <2> QED BY <2>4 DEF w
<1> QED BY <1>3, <1>5, <1>6, <1>7 DEF s

LEMMA RefillingOne ==
    ASSUME NEW d \in Documents, NEW p \in Containers, NEW list
    PROVE  [d EXCEPT ![p].list = list] = Refilled(d, p, list, d[p].parts)
<1>1. d[p] = [list |-> d[p].list, parts |-> d[p].parts]
  BY DEF Documents
<1>2. [d[p] EXCEPT !.list = list] = [list |-> list, parts |-> d[p].parts]
  BY <1>1
<1>3. [d EXCEPT ![p].list = list] = [d EXCEPT ![p] = [d[p] EXCEPT !.list = list]]
  BY Zenon
<1> QED BY <1>2, <1>3, Zenon DEF Refilled

\* p has x and then y, and b is what follows x.
Before(t, p, b, x, y) ==
    /\ x \in Seq(Entries) /\ y \in Seq(Entries)
    /\ t[p] = x \o y
    /\ Ahead(y, b)

Rest(s, e) == Tree!Omit(s, {e})

Joined(s, x, y) == s = x \o y

\* An entry that goes between x and y: what follows it stays what it was asked to precede.
LEMMA PlacingAhead ==
    ASSUME NEW t \in Outlines, Unique(t), NEW e \in Entries, NEW p \in Containers, NEW b, b # e,
           NEW x, NEW y, Before(t, p, b, x, y)
    PROVE  /\ Rest(x, e) \in Seq(Entries) /\ Rest(y, e) \in Seq(Entries)
           /\ Joined(Rest(t[p], e), Rest(x, e), Rest(y, e))
           /\ Tree!Placing(t, e, p, b) = Between(t, e, p, Rest(x, e), Rest(y, e))
<1> DEFINE X == {e}
<1>0. x \in Seq(Entries) /\ y \in Seq(Entries) /\ t[p] = x \o y /\ Ahead(y, b)
  BY DEF Before
<1>1. PICK ox, oy : ox = Tree!Omit(x, X) /\ oy = Tree!Omit(y, X)
  OBVIOUS
<1>2. t[p] \in Seq(Entries) /\ Distinct(t[p])
  BY DEF Outlines, Unique
<1>3. b \notin X
  OBVIOUS
<1> HIDE DEF X
<1>4. ox \in Seq(Entries) /\ oy \in Seq(Entries) /\ Tree!Omit(t[p], X) = ox \o oy
  <2>1. Tree!Omit(x \o y, X) = Tree!Omit(x, X) \o Tree!Omit(y, X)
    BY <1>0, OmitConcat
  <2>2. Tree!Omit(x, X) \in Seq(Entries) /\ Tree!Omit(y, X) \in Seq(Entries)
    BY <1>0, OmitInSeq
  <2> QED BY <1>0, <1>1, <2>1, <2>2
<1>5. Distinct(ox \o oy)
  <2>2. Distinct(Tree!Omit(t[p], X))
    BY <1>2, DistinctOmit
  <2> QED BY <1>4, <2>2
<1>6. Ahead(oy, b)
  BY <1>0, <1>1, <1>3, OmitAhead
<1>7. Tree!PlaceOf(ox \o oy, b) = Len(ox) + 1
  BY <1>4, <1>5, <1>6, NoRootEntry, PlaceBetween
<1>8. Tree!Omit(t[p], {e}) = ox \o oy
  BY <1>4 DEF X
<1>9. Tree!Placing(t, e, p, b) = Between(t, e, p, ox, oy)
  <2>1. Gap(t, e, p, b, ox, oy)
    BY <1>4, <1>7, <1>8, Zenon DEF Gap
  <2>2. t \in Outlines /\ e \in Entries /\ p \in Containers
    OBVIOUS
  <2> QED BY ONLY <2>1, <2>2, PlacingGap
<1> QED BY <1>1, <1>4, <1>8, <1>9 DEF X, Rest, Joined

\* s is what is shown once e stands between what x and y leave.
Filled(s, e, x, y) == s = (Rest(x, e) \o <<e>>) \o Rest(y, e)

\* With that the entry is in the outline where it was asked to go.
LEMMA PlacedDocument ==
    ASSUME NEW d, Proper(d), NEW e \in Entries, NEW p \in Tree!Groups(Outline(d)),
           ~Within(d, e, p), NEW b, b # e, NEW x, NEW y, Before(Outline(d), p, b, x, y),
           NEW list \in Seq(Items), NEW parts \in Seq(Parts), OneKind(list, parts),
           Filled(list \o Shown(parts), e, x, y)
    PROVE  /\ Proper(Refilled(Detach(d, e), p, list, parts))
           /\ Outline(Refilled(Detach(d, e), p, list, parts)) = Tree!Placing(Outline(d), e, p, b)
<1>a. PICK t : t = Outline(d)
  OBVIOUS
<1> DEFINE D == Detach(d, e)
           s == Refilled(D, p, list, parts)
<1>1. d \in Documents /\ Exclusive(d) /\ IsOutline(t) /\ Unique(t) /\ p \in Containers /\ t \in Outlines
  BY <1>a, GroupsIs DEF Proper, IsOutline, Containers
<1>2. /\ D \in Documents /\ Exclusive(D)
      /\ \A c \in Containers : Outline(D)[c] = Tree!Omit(t[c], {e})
  BY <1>1, <1>a, DetachIs
<1>3. s \in Documents /\ Exclusive(s) /\ Outline(s) = [Outline(D) EXCEPT ![p] = list \o Shown(parts)]
  <2>1. /\ D \in Documents /\ Exclusive(D) /\ p \in Containers
        /\ list \in Seq(Items) /\ parts \in Seq(Parts) /\ OneKind(list, parts)
    BY <1>1, <1>2
  <2> HIDE DEF D
  <2> QED BY ONLY <2>1, RefilledIs
<1> HIDE DEF s, D
<1>4. PICK ox, oy : ox = Tree!Omit(x, {e}) /\ oy = Tree!Omit(y, {e})
  OBVIOUS
<1>5. /\ ox \in Seq(Entries) /\ oy \in Seq(Entries)
      /\ Tree!Omit(t[p], {e}) = ox \o oy
      /\ Tree!Placing(t, e, p, b) = Between(t, e, p, ox, oy)
  <2>1. Before(t, p, b, x, y)
    BY <1>a
  <2>2. t \in Outlines /\ Unique(t) /\ p \in Containers /\ e \in Entries /\ b # e
    BY <1>1
  <2>3. /\ Rest(x, e) \in Seq(Entries) /\ Rest(y, e) \in Seq(Entries)
        /\ Joined(Rest(t[p], e), Rest(x, e), Rest(y, e))
        /\ Tree!Placing(t, e, p, b) = Between(t, e, p, Rest(x, e), Rest(y, e))
    BY ONLY <2>1, <2>2, PlacingAhead
  <2>4. Rest(x, e) = Tree!Omit(x, {e}) /\ Rest(y, e) = Tree!Omit(y, {e})
        /\ Rest(t[p], e) = Tree!Omit(t[p], {e})
    BY DEF Rest
  <2>5. Rest(t[p], e) = Rest(x, e) \o Rest(y, e)
    BY <2>3 DEF Joined
  <2> QED BY ONLY <1>4, <2>3, <2>4, <2>5
<1> DEFINE w == (ox \o <<e>>) \o oy
<1>6. list \o Shown(parts) = w
  BY <1>4, Zenon DEF Filled, Rest
<1>7. Between(t, e, p, ox, oy) = [c \in Containers |-> IF c = p THEN w ELSE Tree!Omit(t[c], {e})]
  BY Zenon DEF Between
<1>8. Outline(D) = [c \in Containers |-> Tree!Omit(t[c], {e})]
  <2>1. Outline(D) = [c \in Containers |-> OutlineChildren(D, c)]
    BY Zenon DEF Outline
  <2>2. \A c \in Containers : OutlineChildren(D, c) = Tree!Omit(t[c], {e})
    BY <1>2, <2>1
  <2> QED BY <2>1, <2>2
<1>9. Outline(s) = Between(t, e, p, ox, oy)
  <2> HIDE DEF w
  <2>1. Outline(s) = [Outline(D) EXCEPT ![p] = w]
    BY <1>3, <1>6
  <2> QED BY <1>1, <1>7, <1>8, <2>1
<1>10. IsOutline(Between(t, e, p, ox, oy))
  <2>1. ~Tree!InsideOf(t, e, p)
    BY <1>a, Zenon DEF Within
  <2>2. p \in Tree!Groups(t)
    BY <1>a
  <2> QED BY <1>1, <1>5, <2>1, <2>2, BetweenIsOutline
<1>11. Proper(s) /\ Outline(s) = Tree!Placing(t, e, p, b)
  BY <1>3, <1>5, <1>9, <1>10 DEF Proper
<1> QED BY <1>11, <1>a DEF s, D

\* An entry that is there already.
LEMMA AlreadyPlaced ==
    ASSUME NEW t, IsOutline(t), NEW e \in Entries, NEW p \in Containers, NEW b, b # e,
           NEW x \in Seq(Entries), NEW y \in Seq(Entries), t[p] = (x \o <<e>>) \o y, Ahead(y, b)
    PROVE  Tree!Placing(t, e, p, b) = t
<1> DEFINE X == {e}
           one == <<e>>
           xe == x \o one
<1>1. /\ t \in Outlines /\ Unique(t)
      /\ \A c \in Containers : t[c] \in Seq(Entries) /\ Distinct(t[c])
  BY DEF IsOutline, Outlines, Unique
<1>2. one \in Seq(Entries) /\ ToSet(one) = X
  BY OneElement, ToSetOne
<1>3. Tree!Omit(one, X) = <<>>
  BY OmitOne
<1> HIDE DEF one
<1>4. xe \in Seq(Entries) /\ t[p] = xe \o y
  BY <1>2, ConcatProperties DEF one
<1>5. Distinct(xe) /\ Distinct(y) /\ ToSet(xe) \cap ToSet(y) = {}
  <2> HIDE DEF xe
  <2>1. Distinct(xe \o y)
    BY <1>1, <1>4
  <2> QED BY <1>4, <2>1, DistinctConcat
<1>6. Distinct(x) /\ ToSet(x) \cap ToSet(one) = {} /\ ToSet(xe) = ToSet(x) \cup ToSet(one)
  BY <1>2, <1>5, DistinctConcat, ToSetConcat
<1>7. ToSet(x) \cap X = {} /\ ToSet(y) \cap X = {}
  <2>1. ToSet(x) \cap X = {}
    BY ONLY <1>2, <1>6
  <2>2. ToSet(y) \cap X = {}
    BY ONLY <1>2, <1>5, <1>6
  <2> QED BY <2>1, <2>2
<1>8. Tree!Omit(x, X) = x /\ Tree!Omit(y, X) = y
  <2> HIDE DEF X
  <2> QED BY <1>7, OmitNothing
<1>9. Tree!Omit(t[p], X) = x \o y
  <2> HIDE DEF X, xe
  <2>1. Tree!Omit(xe \o y, X) = Tree!Omit(xe, X) \o Tree!Omit(y, X)
    BY <1>4, OmitConcat
  <2>2. Tree!Omit(xe, X) = Tree!Omit(x, X) \o Tree!Omit(one, X)
    BY <1>2, OmitConcat DEF xe
  <2>3. x \o <<>> = x
    BY ConcatEmptySeq
  <2>4. Tree!Omit(xe, X) = x
    BY <1>3, <1>8, <2>2, <2>3
  <2> QED BY <1>4, <1>8, <2>1, <2>4
<1>10. Tree!PlaceOf(x \o y, b) = Len(x) + 1
  <2>1. Distinct(x \o y)
    <3>1. ToSet(x) \cap ToSet(y) = {}
      BY ONLY <1>5, <1>6
    <3> QED BY <1>5, <1>6, <3>1, DistinctConcat
  <2> QED BY <2>1, NoRootEntry, PlaceBetween
<1>11. Tree!Placing(t, e, p, b) = Between(t, e, p, x, y)
  <2>1. Gap(t, e, p, b, x, y)
    <3>1. Tree!Omit(t[p], {e}) = x \o y
      BY <1>9
    <3> QED BY <1>10, <3>1, Zenon DEF Gap
  <2>2. t \in Outlines
    BY <1>1
  <2> HIDE DEF X, one, xe
  <2> QED BY <2>1, <2>2, PlacingGap
<1>12. ASSUME NEW c \in Containers, c # p PROVE Tree!Omit(t[c], X) = t[c]
  <2>1. ToSet(t[c]) \cap ToSet(t[p]) = {}
    BY <1>1, <1>12 DEF Unique
  <2>2. ToSet(t[p]) = ToSet(xe) \cup ToSet(y)
    <3>1. xe \in Seq(Entries) /\ y \in Seq(Entries) /\ t[p] = xe \o y
      BY <1>4
    <3> HIDE DEF xe
    <3> QED BY ONLY <3>1, ToSetConcat
  <2>3. ToSet(t[c]) \cap X = {}
    BY ONLY <1>2, <1>6, <2>1, <2>2
  <2> HIDE DEF X
  <2> QED BY <1>1, <2>3, OmitNothing
<1> DEFINE w == (x \o <<e>>) \o y
<1>13. Between(t, e, p, x, y) = [c \in Containers |-> IF c = p THEN w ELSE Tree!Omit(t[c], X)]
  BY Zenon DEF Between
<1>14. t[p] = w
  OBVIOUS
<1>15. t = [c \in Containers |-> t[c]]
  BY <1>1 DEF Outlines
<1>16. Between(t, e, p, x, y) = t
  <2> HIDE DEF w, X
  <2> QED BY <1>12, <1>13, <1>14, <1>15
<1> QED BY <1>11, <1>16

-----------------------------------------------------------------------------
(* Where an entry is asked to go                                           *)

LEMMA FirstOfJoined ==
    ASSUME NEW S, NEW x \in Seq(S), NEW y \in Seq(S), x # <<>>
    PROVE  /\ x \o y # <<>>
           /\ (x \o y)[1] = x[1]
<1>1. /\ Len(x) \in Nat /\ Len(y) \in Nat /\ x \o y \in Seq(S)
      /\ Len(x \o y) = Len(x) + Len(y)
      /\ \A k \in 1..(Len(x) + Len(y)) :
            (x \o y)[k] = IF k <= Len(x) THEN x[k] ELSE y[k - Len(x)]
  BY LenProperties, ConcatProperties
<1>2. Len(x) # 0
  BY EmptySeq
<1>3. Len(x \o y) # 0
  BY <1>1, <1>2
<1>4. x \o y # <<>>
  BY <1>1, <1>3, EmptySeq
<1>5. 1 \in 1..(Len(x) + Len(y)) /\ 1 <= Len(x)
  BY <1>1, <1>2
<1> QED BY <1>1, <1>4, <1>5

\* The entry to precede, or none, cuts a sequence in two.
Cuts(S, s, b, x, y) ==
    /\ x \in Seq(S) /\ y \in Seq(S)
    /\ Joined(s, x, y)
    /\ Tree!PlaceOf(s, b) = Len(x) + 1
    /\ Ahead(y, b)

LEMMA AskedCuts ==
    ASSUME NEW S, NEW s \in Seq(S), NoEntry \notin S, NEW b, b = NoEntry \/ b \in ToSet(s)
    PROVE  \E x, y : Cuts(S, s, b, x, y)
<1>1. PICK k : k = Tree!PlaceOf(s, b)
  OBVIOUS
<1>2. k \in 1..(Len(s) + 1) /\ Len(s) \in Nat
  BY <1>1, PlaceInRange, LenProperties
<1>3. PICK x, y : x = SubSeq(s, 1, k - 1) /\ y = SubSeq(s, k, Len(s))
  OBVIOUS
<1>4. /\ x \in Seq(S) /\ y \in Seq(S) /\ s = x \o y
      /\ Len(x) = k - 1 /\ Len(y) = Len(s) - k + 1
  BY <1>2, <1>3, Cut
<1>7. /\ x \in Seq(S) /\ y \in Seq(S) /\ Joined(s, x, y)
      /\ Tree!PlaceOf(s, b) = Len(x) + 1
  <2>1. Joined(s, x, y)
    BY <1>4 DEF Joined
  <2>2. Tree!PlaceOf(s, b) = Len(x) + 1
    <3>1. Len(x) = k - 1
      BY <1>4
    <3>2. k = Len(x) + 1
      BY ONLY <1>2, <3>1
    <3> QED BY ONLY <1>1, <3>2
  <2> QED BY <1>4, <2>1, <2>2
<1>5. CASE b \in ToSet(s)
  <2>1. PICK i \in 1..Len(s) : s[i] = b
    BY <1>5, ToSetIs
  <2>2. \E j \in DOMAIN s : s[j] = b
    BY <2>1, LenProperties
  <2>3. Contains(s, b)
    BY <1>5, ContainsIs
  <2>4. k = CHOOSE j \in DOMAIN s : s[j] = b
    BY <1>1, <2>3, TreeNames, Zenon DEF Tree!PlaceOf
  <2>5. k \in 1..Len(s) /\ s[k] = b
    BY <2>2, <2>4, LenProperties
  <2>6. Len(y) # 0
    BY <1>2, <1>4, <2>5
  <2>7. y # <<>>
    BY <2>6
  <2>8. y[1] = s[k]
    <3>1. \A j \in k..Len(s) : s[j] \in S
      BY <1>2, LenProperties
    <3>2. \A j \in 1..(Len(s) - k + 1) : SubSeq(s, k, Len(s))[j] = s[k + j - 1]
      BY <1>2, <3>1, SubSeqProperties
    <3>3. 1 \in 1..(Len(s) - k + 1) /\ k + 1 - 1 = k
      BY <1>2, <2>5
    <3>4. SubSeq(s, k, Len(s))[1] = s[k + 1 - 1]
      BY <3>2, <3>3
    <3> QED BY <1>3, <3>3, <3>4
  <2>9. Ahead(y, b)
    BY <2>5, <2>7, <2>8 DEF Ahead
  <2> QED BY <1>7, <2>9 DEF Cuts
<1>6. CASE b \notin ToSet(s)
  <2>1. b = NoEntry /\ k = Len(s) + 1
    BY <1>1, <1>6, PlaceOfStranger
  <2>2. y = <<>>
    BY <1>2, <1>4, <2>1, EmptySeq
  <2>3. Ahead(y, b)
    BY <2>1, <2>2 DEF Ahead
  <2> QED BY <1>7, <2>3 DEF Cuts
<1> QED BY <1>5, <1>6

\* e is there already: s is x, then e, then y, and b is what follows e.
Holds(S, s, e, b, x, y) ==
    /\ x \in Seq(S) /\ y \in Seq(S)
    /\ s = (x \o <<e>>) \o y
    /\ Ahead(y, b)

LEMMA Regrouped ==
    ASSUME NEW S, NEW a \in Seq(S), NEW b \in Seq(S), NEW c \in Seq(S), NEW s
    PROVE  s = a \o (b \o c) => s = (a \o b) \o c
<1>1. (a \o b) \o c = a \o (b \o c)
  BY ConcatAssociative
<1> QED BY ONLY <1>1

LEMMA OneOfMany ==
    ASSUME NEW S, NEW s \in Seq(S), NEW k \in 1..Len(s)
    PROVE  /\ SubSeq(s, 1, k - 1) \in Seq(S) /\ Len(SubSeq(s, 1, k - 1)) = k - 1
           /\ SubSeq(s, k + 1, Len(s)) \in Seq(S) /\ Len(SubSeq(s, k + 1, Len(s))) = Len(s) - k
           /\ s = (SubSeq(s, 1, k - 1) \o <<s[k]>>) \o SubSeq(s, k + 1, Len(s))
<1>1. Len(s) \in Nat /\ s[k] \in S /\ k \in 1..(Len(s) + 1) /\ k + 1 \in 1..(Len(s) + 1)
  BY LenProperties
<1> DEFINE u == SubSeq(s, 1, k - 1)
           v == SubSeq(s, k + 1, Len(s))
           one == <<s[k]>>
<1>2. u \in Seq(S) /\ Len(u) = k - 1 /\ s = u \o SubSeq(s, k, Len(s))
  BY <1>1, Cut
<1>3. v \in Seq(S) /\ Len(v) = Len(s) - k
  <2>1. Len(s) - (k + 1) + 1 = Len(s) - k
    BY <1>1
  <2>2. v \in Seq(S) /\ Len(v) = Len(s) - (k + 1) + 1
    BY <1>1, Cut
  <2> QED BY <2>1, <2>2
<1>4. SubSeq(s, k, Len(s)) = one \o v
  <2>1. k \in 1..Len(s) /\ Len(s) \in k..Len(s)
    BY <1>1
  <2> QED BY <2>1, SubSeqRecursiveFirst
<1>5. one \in Seq(S)
  BY <1>1, OneElement
<1> HIDE DEF u, v, one
<1>6. s = (u \o one) \o v
  <2>1. s = u \o (one \o v)
    BY <1>2, <1>4
  <2>2. u \in Seq(S) /\ one \in Seq(S) /\ v \in Seq(S)
    BY <1>2, <1>3, <1>5
  <2> QED BY ONLY <2>1, <2>2, Regrouped
<1> QED BY <1>2, <1>3, <1>6 DEF u, v, one

LEMMA AlreadyAtIs ==
    ASSUME NEW S, NEW s \in Seq(S), NoEntry \notin S, NEW e, NEW b, b # e, AlreadyAt(s, e, b)
    PROVE  \E x, y : Holds(S, s, e, b, x, y)
<1>1. PICK k : k = Tree!PlaceOf(s, e)
  OBVIOUS
<1>2. Contains(s, e) /\ IF k = Len(s) THEN b = NoEntry ELSE b = s[k + 1]
  BY <1>1, Zenon DEF AlreadyAt
<1>3. \E j \in DOMAIN s : s[j] = e
  BY <1>2, ContainsIs DEF ToSet
<1>4. k = CHOOSE j \in DOMAIN s : s[j] = e
  BY <1>1, <1>2, TreeNames, Zenon DEF Tree!PlaceOf
<1>5. k \in 1..Len(s) /\ s[k] = e /\ Len(s) \in Nat
  BY <1>3, <1>4, LenProperties
<1>6. PICK x, y : x = SubSeq(s, 1, k - 1) /\ y = SubSeq(s, k + 1, Len(s))
  OBVIOUS
<1>7. /\ x \in Seq(S) /\ y \in Seq(S) /\ Len(y) = Len(s) - k
      /\ s = (x \o <<e>>) \o y
  BY <1>5, <1>6, OneOfMany
<1>8. CASE k = Len(s)
  <2>1. y = <<>>
    BY <1>5, <1>7, <1>8, EmptySeq
  <2>2. Ahead(y, b)
    BY <1>2, <1>8, <2>1 DEF Ahead
  <2> QED BY <1>7, <2>2 DEF Holds
<1>9. CASE k # Len(s)
  <2>1. Len(y) # 0
    BY <1>5, <1>7, <1>9
  <2>2. y # <<>>
    BY <2>1
  <2>3. y[1] = s[k + 1]
    <3>1. \A j \in (k + 1)..Len(s) : s[j] \in S
      BY <1>5, LenProperties
    <3>2. \A j \in 1..(Len(s) - (k + 1) + 1) : SubSeq(s, k + 1, Len(s))[j] = s[(k + 1) + j - 1]
      BY <1>5, <3>1, SubSeqProperties
    <3>3. 1 \in 1..(Len(s) - (k + 1) + 1) /\ (k + 1) + 1 - 1 = k + 1
      BY <1>5, <1>9
    <3>4. SubSeq(s, k + 1, Len(s))[1] = s[(k + 1) + 1 - 1]
      BY <3>2, <3>3
    <3> QED BY <1>6, <3>3, <3>4
  <2>4. Ahead(y, b)
    BY <1>2, <1>9, <2>2, <2>3 DEF Ahead
  <2> QED BY <1>7, <2>4 DEF Holds
<1> QED BY <1>8, <1>9

\* What Put makes of a sequence that is cut there.
LEMMA PutIs ==
    ASSUME NEW S, NEW s, NEW x \in Seq(S), NEW y \in Seq(S), Joined(s, x, y), NEW e \in S
    PROVE  /\ Filled(Put(s, e, Len(x) + 1), e, x, y)
           /\ Put(s, e, Len(x) + 1) \in Seq(S)
<1>1. Len(x) \in Nat /\ (Len(x) + 1) - 1 = Len(x)
  BY LenProperties
<1>2. SubSeq(x \o y, 1, (Len(x) + 1) - 1) = x /\ SubSeq(x \o y, Len(x) + 1, Len(x \o y)) = y
  BY <1>1, Halves
<1>3. SubSeq(s, 1, (Len(x) + 1) - 1) = x /\ SubSeq(s, Len(x) + 1, Len(s)) = y
  BY <1>2 DEF Joined
<1>4. Put(s, e, Len(x) + 1) = (Rest(x, e) \o <<e>>) \o Rest(y, e)
  BY <1>3, Zenon DEF Put, Rest
<1>5. Rest(x, e) \in Seq(S) /\ Rest(y, e) \in Seq(S)
  BY OmitInSeq DEF Rest
<1>6. (Rest(x, e) \o <<e>>) \o Rest(y, e) \in Seq(S)
  <2>1. <<e>> \in Seq(S)
    BY OneElement
  <2>2. Rest(x, e) \o <<e>> \in Seq(S)
    BY <1>5, <2>1, ConcatProperties
  <2> QED BY <1>5, <2>2, ConcatProperties
<1> QED BY <1>4, <1>6, Zenon DEF Filled

-----------------------------------------------------------------------------
(* The parts of a container around one of them                             *)

\* s is a, then v at the k-th place, then c.
At(s, k, a, v, c) ==
    /\ a \in Seq(Parts) /\ v \in Parts /\ c \in Seq(Parts)
    /\ k = Len(a) + 1
    /\ s = (a \o <<v>>) \o c

LEMMA PartAt ==
    ASSUME NEW s \in Seq(Parts), NEW k \in 1..Len(s)
    PROVE  \E a, c : At(s, k, a, s[k], c)
<1>1. PICK a, c : a = SubSeq(s, 1, k - 1) /\ c = SubSeq(s, k + 1, Len(s))
  OBVIOUS
<1>2. /\ a \in Seq(Parts) /\ Len(a) = k - 1 /\ c \in Seq(Parts)
      /\ s = (a \o <<s[k]>>) \o c
  BY <1>1, OneOfMany
<1>3. s[k] \in Parts /\ k = Len(a) + 1
  <2>1. Len(s) \in Nat /\ s[k] \in Parts
    BY LenProperties
  <2>2. Len(a) = k - 1
    BY <1>2
  <2> QED BY ONLY <2>1, <2>2
<1> QED BY <1>2, <1>3 DEF At

LEMMA AtIs ==
    ASSUME NEW s, NEW k, NEW a, NEW v, NEW c, At(s, k, a, v, c)
    PROVE  /\ s \in Seq(Parts) /\ k \in 1..Len(s) /\ s[k] = v
           /\ Len(s) = Len(a) + 1 + Len(c)
<1> DEFINE one == <<v>>
<1>1. /\ a \in Seq(Parts) /\ v \in Parts /\ c \in Seq(Parts) /\ k = Len(a) + 1
      /\ s = (a \o one) \o c
  BY DEF At
<1>2. one \in Seq(Parts) /\ Len(one) = 1 /\ one[1] = v
  BY <1>1, OneElement
<1>3. Len(a) \in Nat /\ Len(c) \in Nat
  BY <1>1, LenProperties
<1> HIDE DEF one
<1>4. /\ a \o one \in Seq(Parts) /\ Len(a \o one) = Len(a) + Len(one)
      /\ \A j \in 1..(Len(a) + Len(one)) :
            (a \o one)[j] = IF j <= Len(a) THEN a[j] ELSE one[j - Len(a)]
  BY <1>1, <1>2, ConcatProperties
<1>5. (a \o one)[Len(a) + 1] = v
  <2>1. Len(a) + 1 \in 1..(Len(a) + Len(one)) /\ ~(Len(a) + 1 <= Len(a)) /\ (Len(a) + 1) - Len(a) = 1
    BY <1>2, <1>3
  <2> QED BY <1>2, <1>4, <2>1
<1>6. PICK w : w = a \o one
  OBVIOUS
<1>7. w \in Seq(Parts) /\ Len(w) = Len(a) + 1 /\ w[Len(a) + 1] = v /\ s = w \o c
  BY <1>1, <1>2, <1>4, <1>5, <1>6
<1>8. /\ w \o c \in Seq(Parts) /\ Len(w \o c) = Len(w) + Len(c)
      /\ \A j \in 1..(Len(w) + Len(c)) :
            (w \o c)[j] = IF j <= Len(w) THEN w[j] ELSE c[j - Len(w)]
  BY <1>1, <1>7, ConcatProperties
<1>9. k \in 1..(Len(w) + Len(c)) /\ k <= Len(w)
  BY <1>1, <1>3, <1>7
<1> QED BY <1>1, <1>3, <1>7, <1>8, <1>9

LEMMA SpliceAt ==
    ASSUME NEW s, NEW k, NEW a, NEW v, NEW c, At(s, k, a, v, c), NEW t \in Seq(Parts)
    PROVE  Splice(s, k, t) = (a \o t) \o c
<1> DEFINE one == <<v>>
<1>1. /\ a \in Seq(Parts) /\ one \in Seq(Parts) /\ c \in Seq(Parts) /\ k = Len(a) + 1
      /\ s = (a \o one) \o c /\ Len(one) = 1
  BY OneElement DEF At
<1> HIDE DEF one
<1>2. PICK w, r : w = a \o one /\ r = one \o c
  OBVIOUS
<1>3. w \in Seq(Parts) /\ Len(w) = Len(a) + 1 /\ r \in Seq(Parts) /\ Len(a) \in Nat
  <2>1. a \o one \in Seq(Parts) /\ Len(a \o one) = Len(a) + Len(one)
    BY <1>1, ConcatProperties
  <2>2. one \o c \in Seq(Parts)
    BY <1>1, ConcatProperties
  <2>3. Len(a) \in Nat
    BY <1>1, LenProperties
  <2> QED BY <1>1, <1>2, <2>1, <2>2, <2>3
<1>4. s = w \o c
  BY <1>1, <1>2
<1>5. s = a \o r
  <2>1. (a \o one) \o c = a \o (one \o c)
    <3>1. a \in Seq(Parts) /\ one \in Seq(Parts) /\ c \in Seq(Parts)
      BY <1>1
    <3> QED BY ONLY <3>1, ConcatAssociative
  <2> QED BY <1>1, <1>2, <2>1
<1>6. SubSeq(w \o c, Len(w) + 1, Len(w \o c)) = c
  BY <1>1, <1>3, Halves
<1>7. SubSeq(a \o r, 1, Len(a)) = a
  BY <1>1, <1>3, Halves
<1>8. k - 1 = Len(a) /\ k + 1 = Len(w) + 1
  BY <1>1, <1>3
<1>9. SubSeq(s, k + 1, Len(s)) = c
  BY <1>4, <1>6, <1>8
<1>10. SubSeq(s, 1, k - 1) = a
  BY <1>5, <1>7, <1>8
<1> QED BY <1>9, <1>10, Zenon DEF Splice

LEMMA ShownThree ==
    ASSUME NEW a \in Seq(Parts), NEW t \in Seq(Parts), NEW c \in Seq(Parts)
    PROVE  /\ (a \o t) \o c \in Seq(Parts)
           /\ Shown((a \o t) \o c) = (Shown(a) \o Shown(t)) \o Shown(c)
<1>1. PICK w : w = a \o t
  OBVIOUS
<1>2. w \in Seq(Parts) /\ Shown(w) = Shown(a) \o Shown(t)
  BY <1>1, ConcatProperties, ShownConcat
<1>3. w \o c \in Seq(Parts) /\ Shown(w \o c) = Shown(w) \o Shown(c)
  BY <1>2, ConcatProperties, ShownConcat
<1> QED BY <1>1, <1>2, <1>3

LEMMA ShownAt ==
    ASSUME NEW s, NEW k, NEW a, NEW v, NEW c, At(s, k, a, v, c)
    PROVE  Shown(s) = (Shown(a) \o Piece(v)) \o Shown(c)
<1> DEFINE one == <<v>>
<1>1. a \in Seq(Parts) /\ one \in Seq(Parts) /\ c \in Seq(Parts) /\ s = (a \o one) \o c
  BY OneElement DEF At
<1>2. Shown(one) = Piece(v)
  BY ShownOne DEF At
<1> HIDE DEF one
<1>3. Shown((a \o one) \o c) = (Shown(a) \o Shown(one)) \o Shown(c)
  BY <1>1, ShownThree
<1> QED BY <1>1, <1>2, <1>3

LEMMA ClearedAt ==
    ASSUME NEW s, NEW k, NEW a, NEW v, NEW c, At(s, k, a, v, c), NEW e \in Items
    PROVE  At(Cleared(s, e), k, Cleared(a, e), ClearedPart(v, e), Cleared(c, e))
<1> DEFINE one == <<v>>
           new == <<ClearedPart(v, e)>>
<1>1. /\ a \in Seq(Parts) /\ one \in Seq(Parts) /\ c \in Seq(Parts) /\ v \in Parts
      /\ s = (a \o one) \o c /\ k = Len(a) + 1 /\ e \in Entries
  BY OneElement DEF At, Entries
<1>2. Cleared(one, e) = new
  BY <1>1, ClearedPartIs, ClearedOne
<1> HIDE DEF one, new
<1>3. PICK w : w = a \o one
  OBVIOUS
<1>4. w \in Seq(Parts) /\ Cleared(w, e) = Cleared(a, e) \o Cleared(one, e)
  BY <1>1, <1>3, ConcatProperties, ClearedConcat
<1>5. Cleared(w \o c, e) = Cleared(w, e) \o Cleared(c, e)
  BY <1>1, <1>4, ClearedConcat
<1>6. Cleared(s, e) = (Cleared(a, e) \o new) \o Cleared(c, e)
  BY <1>1, <1>2, <1>3, <1>4, <1>5
<1>7. /\ Cleared(a, e) \in Seq(Parts) /\ Cleared(c, e) \in Seq(Parts)
      /\ ClearedPart(v, e) \in Parts /\ Len(Cleared(a, e)) = Len(a)
  BY <1>1, ClearedInSeq, ClearedPartIs, ClearedLen
<1> QED BY <1>1, <1>6, <1>7 DEF At, new

\* What is shown of the parts without a section.
LEMMA ShownWithoutSection ==
    ASSUME NEW s \in Seq(Parts), NEW e \in Cats
    PROVE  /\ Tree!Omit(s, {e}) \in Seq(Parts)
           /\ Cleared(s, e) = Tree!Omit(s, {e})
           /\ Shown(Tree!Omit(s, {e})) = Tree!Omit(Shown(s), {e})
<1>1. e \in Entries
  BY DEF Entries
<1>2. PICK w : w = Tree!Omit(s, {e})
  OBVIOUS
<1>3. w \in Seq(Parts)
  BY <1>2, OmitInSeq
<1>4. ASSUME NEW x \in Parts PROVE ClearedPart(x, e) = x
  <2>1. CASE x \in Cats
    BY <2>1 DEF ClearedPart, IsBucket
  <2>2. CASE x \notin Cats
    <3> DEFINE X == {e}
    <3>1. x \in Seq(Items)
      BY <2>2, PartsAre
    <3>2. ToSet(x) \cap X = {}
      <4>1. \A i \in ToSet(x) : i \in Items
        BY <3>1, ToSetIs, LenProperties
      <4> QED BY <4>1, NoRootEntry
    <3> HIDE DEF X
    <3>3. Tree!Omit(x, X) = x
      BY <3>1, <3>2, OmitNothing
    <3> QED BY <3>3 DEF X, ClearedPart
  <2> QED BY <2>1, <2>2
<1>5. ClearEach(w, e) = w
  <2>1. /\ ClearEach(w, e) \in Seq(Parts) /\ Len(ClearEach(w, e)) = Len(w)
        /\ \A k \in 1..Len(w) : ClearEach(w, e)[k] = ClearedPart(w[k], e)
    BY <1>1, <1>3, ClearEachInSeq
  <2>2. \A k \in 1..Len(w) : w[k] \in Parts
    BY <1>3, LenProperties
  <2>3. \A k \in 1..Len(ClearEach(w, e)) : ClearEach(w, e)[k] = w[k]
    BY <1>4, <2>1, <2>2
  <2> QED BY <1>3, <2>1, <2>3, SeqEqual
<1>6. Cleared(s, e) = w
  BY <1>2, <1>5, ClearedIs
<1>7. Shown(Cleared(s, e)) = Tree!Omit(Shown(s), {e})
  BY <1>1, ShownCleared
<1> QED BY <1>2, <1>3, <1>6, <1>7

\* What is shown first of a part.
HeadOf(q, b) ==
    IF q = NoEntry THEN b = NoEntry
    ELSE q \in Parts /\ Piece(q) # <<>> /\ b = Piece(q)[1]

LEMMA ShownAhead ==
    ASSUME NEW v \in Seq(Parts), NEW q, Ahead(v, q), NEW b, HeadOf(q, b)
    PROVE  Ahead(Shown(v), b)
<1>1. NoEntry \notin Parts
  BY HierarchyAssumption DEF Parts
<1>2. CASE v = <<>>
  BY <1>2, ShownEmpty DEF Ahead, HeadOf
<1>3. CASE v # <<>>
  <2>1. Len(v) \in Nat /\ Len(v) # 0
    BY <1>3, EmptySeq, LenProperties
  <2>2. 1 \in 1..Len(v) /\ v[1] \in Parts /\ q = v[1]
    BY <1>3, <2>1, LenProperties DEF Ahead
  <2>3. Piece(q) # <<>> /\ b = Piece(q)[1] /\ Piece(q) \in Seq(Entries)
    BY <1>1, <2>2, PieceInSeq DEF HeadOf
  <2>4. PICK a, c : At(v, 1, a, q, c)
    BY <2>2, PartAt
  <2>5. a \in Seq(Parts) /\ c \in Seq(Parts) /\ 1 = Len(a) + 1
    BY <2>4 DEF At
  <2>6. a = <<>>
    <3>1. Len(a) \in Nat
      BY <2>5, LenProperties
    <3>2. Len(a) = 0
      BY ONLY <2>5, <3>1
    <3> QED BY <2>5, <3>2, EmptySeq
  <2>7. Shown(v) = (Shown(a) \o Piece(q)) \o Shown(c)
    BY <2>4, ShownAt
  <2>8. Shown(a) \o Piece(q) = Piece(q)
    <3>1. Shown(a) = <<>>
      BY <2>6, ShownEmpty
    <3> QED BY <2>3, <3>1, ConcatEmptySeq
  <2>9. Shown(c) \in Seq(Entries)
    BY <2>5, ShownInSeq
  <2>10. Piece(q) \o Shown(c) # <<>> /\ (Piece(q) \o Shown(c))[1] = Piece(q)[1]
    BY <2>3, <2>9, FirstOfJoined
  <2> QED BY <2>3, <2>7, <2>8, <2>10 DEF Ahead
<1> QED BY <1>2, <1>3

-----------------------------------------------------------------------------
(* Putting an entry into a list, a bucket or among the parts               *)

\* The operation gave a document with this outline, or the limit is close to it.
Arrived(t, r) ==
    \/ r = HierarchyLimit /\ NeedsLevels(t, MaxLevels)
    \/ Native(r) /\ Outline(r) = t

LEMMA NormalizedArrives ==
    ASSUME NEW d, Proper(d)
    PROVE  Arrived(Outline(d), NormalizeHierarchy(d))
  BY NormalizeIs DEF Arrived

\* An entry of a proper document, and a container that can take it.
Movable(d, e, p) ==
    /\ Proper(d)
    /\ e \in Entries
    /\ p \in Tree!Groups(Outline(d))
    /\ ~Within(d, e, p)

LEMMA MovableIs ==
    ASSUME NEW d, NEW e, NEW p, Movable(d, e, p)
    PROVE  /\ d \in Documents /\ Exclusive(d) /\ e \in Entries /\ p \in Containers
           /\ IsOutline(Outline(d)) /\ Outline(d) \in Outlines /\ Unique(Outline(d))
           /\ d[p].list \in Seq(Items) /\ d[p].list \in Seq(Entries) /\ d[p].parts \in Seq(Parts)
           /\ Outline(d)[p] \in Seq(Entries) /\ Distinct(Outline(d)[p])
           /\ d[p].parts = <<>> => Outline(d)[p] = d[p].list
           /\ d[p].list = <<>> => Outline(d)[p] = Shown(d[p].parts)
           /\ d[p].list = <<>> \/ d[p].parts = <<>>
<1>1. /\ d \in Documents /\ Exclusive(d) /\ e \in Entries /\ p \in Containers
      /\ IsOutline(Outline(d)) /\ Outline(d) \in Outlines /\ Unique(Outline(d))
  BY GroupsIs DEF Movable, Proper, IsOutline, Containers
<1>2. /\ d[p].list \in Seq(Items) /\ d[p].list \in Seq(Entries) /\ d[p].parts \in Seq(Parts)
  BY <1>1, DocumentsHold
<1>3. /\ Outline(d)[p] \in Seq(Entries)
      /\ d[p].parts = <<>> => Outline(d)[p] = d[p].list
      /\ d[p].list = <<>> => Outline(d)[p] = Shown(d[p].parts)
  BY <1>1, OutlineAt
<1>4. Distinct(Outline(d)[p])
  BY <1>1 DEF Unique
<1>5. d[p].list = <<>> \/ d[p].parts = <<>>
  BY <1>1 DEF Exclusive
<1> QED BY <1>1, <1>2, <1>3, <1>4, <1>5

LEMMA RefilledArrives ==
    ASSUME NEW d, NEW e, NEW p, Movable(d, e, p), NEW b, b # e,
           NEW x, NEW y, Before(Outline(d), p, b, x, y),
           NEW list \in Seq(Items), NEW parts \in Seq(Parts), OneKind(list, parts),
           Filled(list \o Shown(parts), e, x, y)
    PROVE  Arrived(Tree!Placing(Outline(d), e, p, b),
                   NormalizeHierarchy(Refilled(Detach(d, e), p, list, parts)))
<1>2. /\ Proper(d) /\ e \in Entries /\ p \in Tree!Groups(Outline(d)) /\ ~Within(d, e, p)
  BY DEF Movable
<1>3. PICK s : s = Refilled(Detach(d, e), p, list, parts)
  OBVIOUS
<1>4. Proper(s) /\ Outline(s) = Tree!Placing(Outline(d), e, p, b)
  BY <1>2, <1>3, PlacedDocument
<1>5. Arrived(Outline(s), NormalizeHierarchy(s))
  BY <1>4, NormalizedArrives
<1> QED BY <1>3, <1>4, <1>5

LEMMA HeldAlready ==
    ASSUME NEW d, NEW e, NEW p, Movable(d, e, p), NEW b, b # e,
           NEW x, NEW y, Holds(Entries, Outline(d)[p], e, b, x, y)
    PROVE  Tree!Placing(Outline(d), e, p, b) = Outline(d)
<1>1. PICK t : t = Outline(d)
  OBVIOUS
<1>2. IsOutline(t) /\ e \in Entries /\ p \in Containers
  BY <1>1, MovableIs
<1>3. /\ x \in Seq(Entries) /\ y \in Seq(Entries)
      /\ t[p] = (x \o <<e>>) \o y /\ Ahead(y, b)
  BY <1>1 DEF Holds
<1>4. Tree!Placing(t, e, p, b) = t
  BY <1>2, <1>3, AlreadyPlaced
<1> QED BY <1>1, <1>4

\* What came of moving e: it was there already, or it arrived.
Moved(d, e, p, b, r) ==
    \/ r = d /\ Tree!Placing(Outline(d), e, p, b) = Outline(d)
    \/ Arrived(Tree!Placing(Outline(d), e, p, b), r)

LEMMA InListMoves ==
    ASSUME NEW d, NEW e, NEW p, Movable(d, e, p), e \in Items, d[p].parts = <<>>,
           NEW b, b # e, b = NoEntry \/ b \in ToSet(Outline(d)[p])
    PROVE  Moved(d, e, p, b, PutInList(d, e, p, b))
<1>1. PICK s : s = d[p].list
  OBVIOUS
<1>2. /\ s \in Seq(Items) /\ s \in Seq(Entries) /\ Outline(d)[p] = s
      /\ d \in Documents /\ Exclusive(d) /\ e \in Entries /\ p \in Containers
  BY <1>1, MovableIs
<1>3. ~(b # NoEntry /\ ~Contains(s, b))
  BY <1>2, ContainsIs
<1>4. PutInList(d, e, p, b) =
          IF AlreadyAt(s, e, b) THEN d
          ELSE NormalizeHierarchy([Detach(d, e) EXCEPT ![p].list = Put(s, e, Tree!PlaceOf(s, b))])
  BY <1>1, <1>3, Zenon DEF PutInList
<1>5. CASE AlreadyAt(s, e, b)
  <2>1. PICK x, y : Holds(Entries, s, e, b, x, y)
    BY <1>2, <1>5, AlreadyAtIs, NoRootEntry
  <2>2. Tree!Placing(Outline(d), e, p, b) = Outline(d)
    BY <1>2, <2>1, HeldAlready
  <2> QED BY <1>4, <1>5, <2>2 DEF Moved
<1>6. CASE ~AlreadyAt(s, e, b)
  <2>1. NoEntry \notin Items /\ (b = NoEntry \/ b \in ToSet(s))
    BY <1>2, NoRootEntry DEF Entries
  <2>2. \E x, y : Cuts(Items, s, b, x, y)
    BY <1>2, <2>1, AskedCuts
  <2>3. PICK x, y : Cuts(Items, s, b, x, y)
    BY ONLY <2>2
  <2>4. x \in Seq(Items) /\ y \in Seq(Items) /\ Joined(s, x, y) /\ Ahead(y, b)
        /\ Tree!PlaceOf(s, b) = Len(x) + 1
    BY <2>3 DEF Cuts
  <2>5. PICK w : w = Put(s, e, Len(x) + 1)
    OBVIOUS
  <2>6. w \in Seq(Items) /\ Filled(w, e, x, y)
    BY <2>4, <2>5, PutIs
  <2>7. Before(Outline(d), p, b, x, y)
    <3>1. s = x \o y
      BY <2>4 DEF Joined
    <3>2. x \in Seq(Entries) /\ y \in Seq(Entries)
      BY <2>4, PartsAre
    <3> QED BY <1>2, <2>4, <3>1, <3>2 DEF Before
  <2> DEFINE nil == <<>>
             D == Detach(d, e)
  <2>8. nil \in Seq(Parts) /\ OneKind(w, nil) /\ Shown(nil) = nil
    BY EmptySeq, ShownEmpty DEF OneKind
  <2>9. w \o nil = w
    <3>1. w \in Seq(Entries)
      BY <2>6, PartsAre
    <3> QED BY <3>1, ConcatEmptySeq
  <2>10. D \in Documents /\ D[p].parts = nil
    <3>1. Cleared(d[p].parts, e) = nil
      BY ClearedEmpty
    <3>2. D \in Documents /\ D[p].parts = Cleared(d[p].parts, e)
      BY <1>2, DetachIs
    <3> QED BY ONLY <3>1, <3>2
  <2> HIDE DEF nil, D
  <2>11. [D EXCEPT ![p].list = w] = Refilled(D, p, w, nil)
    <3>1. [D EXCEPT ![p].list = w] = Refilled(D, p, w, D[p].parts)
      BY <1>2, <2>10, RefillingOne
    <3> QED BY ONLY <2>10, <3>1
  <2>12. Filled(w \o Shown(nil), e, x, y)
    BY <2>6, <2>8, <2>9
  <2>13. Arrived(Tree!Placing(Outline(d), e, p, b), NormalizeHierarchy(Refilled(D, p, w, nil)))
    BY <2>6, <2>7, <2>8, <2>12, RefilledArrives DEF D
  <2>14. PutInList(d, e, p, b) = NormalizeHierarchy([D EXCEPT ![p].list = w])
    BY <1>4, <1>6, <2>4, <2>5 DEF D
  <2> QED BY <2>11, <2>13, <2>14 DEF Moved
<1> QED BY <1>5, <1>6

\* Concatenation under a name: the backends know \o too well to instantiate with it.
Cat(x, y) == x \o y

LEMMA CatInSeq ==
    ASSUME NEW S, NEW x \in Seq(S), NEW y \in Seq(S)
    PROVE  Cat(x, y) \in Seq(S)
  BY ConcatProperties DEF Cat

LEMMA CatAssociative ==
    ASSUME NEW S, NEW x \in Seq(S), NEW y \in Seq(S), NEW z \in Seq(S)
    PROVE  Cat(Cat(x, y), z) = Cat(x, Cat(y, z))
  BY ConcatAssociative DEF Cat

LEMMA JoinedAround ==
    ASSUME NEW S, NEW u \in Seq(S), NEW x \in Seq(S), NEW o \in Seq(S), NEW y \in Seq(S),
           NEW v \in Seq(S)
    PROVE  Cat(Cat(u, Cat(Cat(x, o), y)), v) = Cat(Cat(Cat(u, x), o), Cat(y, v))
<1>1. Cat(x, o) \in Seq(S) /\ Cat(y, v) \in Seq(S) /\ Cat(Cat(x, o), y) \in Seq(S)
  BY CatInSeq
<1>2. Cat(Cat(u, Cat(Cat(x, o), y)), v) = Cat(u, Cat(Cat(Cat(x, o), y), v))
  BY <1>1, CatAssociative
<1>3. Cat(Cat(Cat(x, o), y), v) = Cat(Cat(x, o), Cat(y, v))
  BY <1>1, CatAssociative
<1>4. Cat(u, Cat(Cat(x, o), Cat(y, v))) = Cat(Cat(u, Cat(x, o)), Cat(y, v))
  BY <1>1, CatAssociative
<1>5. Cat(u, Cat(x, o)) = Cat(Cat(u, x), o)
  BY CatAssociative
<1> QED BY <1>2, <1>3, <1>4, <1>5

LEMMA RestJoined ==
    ASSUME NEW S, NEW x \in Seq(S), NEW y \in Seq(S), NEW e
    PROVE  /\ Rest(x, e) \in Seq(S) /\ Rest(y, e) \in Seq(S)
           /\ Joined(Rest(x \o y, e), Rest(x, e), Rest(y, e))
<1>1. PICK X : X = {e}
  OBVIOUS
<1>2. Tree!Omit(x \o y, X) = Tree!Omit(x, X) \o Tree!Omit(y, X)
  BY OmitConcat
<1>3. Tree!Omit(x, X) \in Seq(S) /\ Tree!Omit(y, X) \in Seq(S)
  BY OmitInSeq
<1> QED BY <1>1, <1>2, <1>3 DEF Rest, Joined

\* A sequence that is filled within another one fills that one.
LEMMA FilledAround ==
    ASSUME NEW S, NEW u \in Seq(S), NEW x \in Seq(S), NEW y \in Seq(S), NEW v \in Seq(S),
           NEW e \in S, NEW w, Filled(w, e, x, y)
    PROVE  Filled((Rest(u, e) \o w) \o Rest(v, e), e, u \o x, y \o v)
<1>1. PICK one : one = <<e>>
  OBVIOUS
<1>2. one \in Seq(S)
  BY <1>1, OneElement
<1>3. /\ Rest(u, e) \in Seq(S) /\ Rest(x, e) \in Seq(S) /\ Rest(y, e) \in Seq(S)
      /\ Rest(v, e) \in Seq(S)
  BY RestJoined
<1>4. Joined(Rest(u \o x, e), Rest(u, e), Rest(x, e)) /\ Joined(Rest(y \o v, e), Rest(y, e), Rest(v, e))
  BY RestJoined
<1>5. Rest(u \o x, e) = Rest(u, e) \o Rest(x, e) /\ Rest(y \o v, e) = Rest(y, e) \o Rest(v, e)
  BY <1>4, Zenon DEF Joined
<1>6. w = (Rest(x, e) \o one) \o Rest(y, e)
  BY <1>1, Zenon DEF Filled
<1>7. (Rest(u, e) \o ((Rest(x, e) \o one) \o Rest(y, e))) \o Rest(v, e)
          = ((Rest(u, e) \o Rest(x, e)) \o one) \o (Rest(y, e) \o Rest(v, e))
  <2>1. Cat(Cat(Rest(u, e), Cat(Cat(Rest(x, e), one), Rest(y, e))), Rest(v, e))
            = Cat(Cat(Cat(Rest(u, e), Rest(x, e)), one), Cat(Rest(y, e), Rest(v, e)))
    BY <1>2, <1>3, JoinedAround
  <2> QED BY <2>1, Zenon DEF Cat
<1>8. (Rest(u, e) \o w) \o Rest(v, e) = (Rest(u \o x, e) \o one) \o Rest(y \o v, e)
  BY <1>5, <1>6, <1>7, Zenon
<1> QED BY <1>1, <1>8, Zenon DEF Filled

LEMMA HoldsAround ==
    ASSUME NEW S, NEW u \in Seq(S), NEW v \in Seq(S), NEW e \in S, NEW s, NEW q,
           NEW x, NEW y, Holds(S, s, e, q, x, y), NEW b, Ahead(y \o v, b)
    PROVE  Holds(S, (u \o s) \o v, e, b, u \o x, y \o v)
<1>1. PICK one : one = <<e>>
  OBVIOUS
<1>2. one \in Seq(S)
  BY <1>1, OneElement
<1>3. x \in Seq(S) /\ y \in Seq(S)
  BY DEF Holds
<1>4. s = (x \o one) \o y
  BY <1>1, Zenon DEF Holds
<1>5. (u \o ((x \o one) \o y)) \o v = ((u \o x) \o one) \o (y \o v)
  <2>1. Cat(Cat(u, Cat(Cat(x, one), y)), v) = Cat(Cat(Cat(u, x), one), Cat(y, v))
    BY <1>2, <1>3, JoinedAround
  <2> QED BY <2>1, Zenon DEF Cat
<1>6. (u \o s) \o v = ((u \o x) \o one) \o (y \o v)
  BY <1>4, <1>5, Zenon
<1>7. u \o x \in Seq(S) /\ y \o v \in Seq(S)
  BY <1>3, ConcatProperties
<1>8. (u \o s) \o v = ((u \o x) \o <<e>>) \o (y \o v)
  BY <1>1, <1>6, Zenon
<1> QED BY <1>7, <1>8, Zenon DEF Holds

\* What follows a bucket, or the position to precede in it, is b in the outline.
Follows(q, v, b) == IF q = NoEntry THEN Ahead(v, b) ELSE b = q

LEMMA AheadFollows ==
    ASSUME NEW S, NEW y \in Seq(S), NEW v \in Seq(S), NoEntry \notin S,
           NEW q, Ahead(y, q), NEW b, Follows(q, v, b)
    PROVE  Ahead(y \o v, b)
<1>1. CASE y = <<>>
  <2>1. y \o v = v
    BY <1>1, ConcatEmptySeq
  <2> QED BY <1>1, <2>1 DEF Ahead, Follows
<1>2. CASE y # <<>>
  <2>1. y[1] \in S
    <3>1. Len(y) \in Nat /\ Len(y) # 0
      BY <1>2, EmptySeq, LenProperties
    <3>2. 1 \in 1..Len(y)
      BY <3>1
    <3> QED BY <3>2, LenProperties
  <2>2. q = y[1] /\ q # NoEntry /\ b = q
    BY <1>2, <2>1 DEF Ahead, Follows
  <2>3. y \o v # <<>> /\ (y \o v)[1] = y[1]
    BY <1>2, FirstOfJoined
  <2> QED BY <2>2, <2>3 DEF Ahead
<1> QED BY <1>1, <1>2

\* Around the k-th part of a container: what the outline shows of it.
LEMMA OutlineAround ==
    ASSUME NEW d, NEW e, NEW p, Movable(d, e, p),
           NEW k, NEW a, NEW v, NEW c, At(d[p].parts, k, a, v, c)
    PROVE  /\ d[p].list = <<>>
           /\ Outline(d)[p] = Cat(Cat(Shown(a), Piece(v)), Shown(c))
           /\ Shown(a) \in Seq(Entries) /\ Piece(v) \in Seq(Entries) /\ Shown(c) \in Seq(Entries)
<1>1. k \in 1..Len(d[p].parts)
  BY AtIs
<1>2. d[p].parts # <<>>
  <2>1. CASE d[p].parts = <<>>
    BY <1>1, <2>1
  <2> QED BY <2>1
<1>3. d[p].list = <<>> /\ Outline(d)[p] = Shown(d[p].parts)
  BY <1>2, MovableIs
<1>4. Shown(d[p].parts) = (Shown(a) \o Piece(v)) \o Shown(c)
  BY ShownAt
<1>5. Shown(a) \in Seq(Entries) /\ Piece(v) \in Seq(Entries) /\ Shown(c) \in Seq(Entries)
  BY ShownInSeq, PieceInSeq DEF At
<1> QED BY <1>3, <1>4, <1>5 DEF Cat

LEMMA RefillingParts ==
    ASSUME NEW d \in Documents, NEW p \in Containers, NEW parts
    PROVE  [d EXCEPT ![p].parts = parts] = Refilled(d, p, d[p].list, parts)
<1>1. d[p] = [list |-> d[p].list, parts |-> d[p].parts]
  BY DEF Documents
<1>2. [d[p] EXCEPT !.parts = parts] = [list |-> d[p].list, parts |-> parts]
  BY <1>1
<1>3. [d EXCEPT ![p].parts = parts] = [d EXCEPT ![p] = [d[p] EXCEPT !.parts = parts]]
  BY Zenon
<1> QED BY <1>2, <1>3, Zenon DEF Refilled

LEMMA InBucketMoves ==
    ASSUME NEW d, NEW e, NEW p, Movable(d, e, p), e \in Items,
           NEW k, NEW a, NEW s, NEW c, At(d[p].parts, k, a, s, c), s \notin Cats,
           NEW q, q = NoEntry \/ q \in ToSet(s), NEW b, b # e, Follows(q, Shown(c), b)
    PROVE  \/ /\ AlreadyAt(s, e, q)
              /\ PutInBucket(d, e, p, k, q) = d
              /\ Tree!Placing(Outline(d), e, p, b) = Outline(d)
           \/ Arrived(Tree!Placing(Outline(d), e, p, b), PutInBucket(d, e, p, k, q))
<1>1. /\ s \in Seq(Items) /\ s \in Seq(Entries) /\ Piece(s) = s
      /\ d[p].parts[k] = s
  BY PartsAre, AtIs DEF At, Piece, IsBucket
<1>2. d \in Documents /\ Exclusive(d) /\ e \in Entries /\ p \in Containers
  BY MovableIs
<1>3. PICK u, v : u = Shown(a) /\ v = Shown(c)
  OBVIOUS
<1>4. /\ d[p].list = <<>> /\ Outline(d)[p] = (u \o s) \o v
      /\ u \in Seq(Entries) /\ v \in Seq(Entries)
  <2>1. /\ d[p].list = <<>>
        /\ Outline(d)[p] = Cat(Cat(Shown(a), Piece(s)), Shown(c))
        /\ Shown(a) \in Seq(Entries) /\ Shown(c) \in Seq(Entries)
    BY OutlineAround
  <2> QED BY <1>1, <1>3, <2>1, Zenon DEF Cat
<1>5. e # q
  BY <1>2, NoRootEntry DEF Follows
<1>6. PutInBucket(d, e, p, k, q) =
          IF AlreadyAt(s, e, q) THEN d
          ELSE NormalizeHierarchy([Detach(d, e) EXCEPT ![p].parts =
                  Splice(Detach(d, e)[p].parts, k, <<Put(s, e, Tree!PlaceOf(s, q))>>)])
  BY <1>1, Zenon DEF PutInBucket
<1>7. CASE AlreadyAt(s, e, q)
  <2>1. \E x, y : Holds(Entries, s, e, q, x, y)
    BY <1>1, <1>5, <1>7, AlreadyAtIs, NoRootEntry
  <2>2. PICK x, y : Holds(Entries, s, e, q, x, y)
    BY ONLY <2>1
  <2>3. Ahead(y \o v, b)
    <3>1. y \in Seq(Entries) /\ Ahead(y, q) /\ Follows(q, v, b)
      BY <1>3, <2>2 DEF Holds
    <3> QED BY <1>4, <3>1, AheadFollows, NoRootEntry
  <2>4. Holds(Entries, Outline(d)[p], e, b, u \o x, y \o v)
    BY <1>2, <1>4, <2>2, <2>3, HoldsAround
  <2>5. Tree!Placing(Outline(d), e, p, b) = Outline(d)
    BY <2>4, HeldAlready
  <2> QED BY <1>6, <1>7, <2>5
<1>8. CASE ~AlreadyAt(s, e, q)
  <2>1. NoEntry \notin Items
    BY NoRootEntry DEF Entries
  <2>2. \E x, y : Cuts(Items, s, q, x, y)
    BY <1>1, <2>1, AskedCuts
  <2>3. PICK x, y : Cuts(Items, s, q, x, y)
    BY ONLY <2>2
  <2>4. x \in Seq(Items) /\ y \in Seq(Items) /\ Joined(s, x, y) /\ Ahead(y, q)
        /\ Tree!PlaceOf(s, q) = Len(x) + 1
    BY <2>3 DEF Cuts
  <2>5. PICK w : w = Put(s, e, Len(x) + 1)
    OBVIOUS
  <2>6. w \in Seq(Items) /\ Filled(w, e, x, y)
    BY <2>4, <2>5, PutIs
  <2>7. x \in Seq(Entries) /\ y \in Seq(Entries)
    BY <2>4, PartsAre
  <2>8. Ahead(y \o v, b)
    <3>1. Follows(q, v, b)
      BY <1>3
    <3> QED BY <1>4, <2>4, <2>7, <3>1, AheadFollows, NoRootEntry
  <2>9. Before(Outline(d), p, b, u \o x, y \o v)
    <3>1. s = x \o y
      BY <2>4 DEF Joined
    <3>2. PICK one : one = <<>>
      OBVIOUS
    <3>3. one \in Seq(Entries) /\ x \o one = x
      BY <2>7, <3>2, ConcatEmptySeq
    <3>4. (u \o ((x \o one) \o y)) \o v = ((u \o x) \o one) \o (y \o v)
      <4>1. Cat(Cat(u, Cat(Cat(x, one), y)), v) = Cat(Cat(Cat(u, x), one), Cat(y, v))
        BY <1>4, <2>7, <3>3, JoinedAround
      <4> QED BY <4>1, Zenon DEF Cat
    <3>5. u \o x \in Seq(Entries) /\ y \o v \in Seq(Entries)
      BY <1>4, <2>7, ConcatProperties
    <3>6. (u \o x) \o one = u \o x
      BY <3>2, <3>5, ConcatEmptySeq
    <3>7. Outline(d)[p] = (u \o x) \o (y \o v)
      BY <1>4, <3>1, <3>3, <3>4, <3>6
    <3> QED BY <2>8, <3>5, <3>7 DEF Before
  <2>10. PICK D : D = Detach(d, e)
    OBVIOUS
  <2>11. /\ D \in Documents /\ D[p].list = <<>> /\ D[p].parts = Cleared(d[p].parts, e)
    <3>1. D \in Documents /\ D[p].list = Tree!Omit(d[p].list, {e})
          /\ D[p].parts = Cleared(d[p].parts, e)
      BY <1>2, <2>10, DetachIs
    <3>2. Tree!Omit(d[p].list, {e}) = <<>>
      BY <1>4, OmitEmpty
    <3> QED BY <3>1, <3>2
  <2>12. PICK a2, c2 : a2 = Cleared(a, e) /\ c2 = Cleared(c, e)
    OBVIOUS
  <2>13. At(D[p].parts, k, a2, ClearedPart(s, e), c2)
    BY <2>11, <2>12, ClearedAt
  <2>14. a2 \in Seq(Parts) /\ c2 \in Seq(Parts) /\ Shown(a2) = Rest(u, e) /\ Shown(c2) = Rest(v, e)
    <3>1. a \in Seq(Parts) /\ c \in Seq(Parts)
      BY DEF At
    <3> QED BY <1>2, <1>3, <2>12, <3>1, ClearedInSeq, ShownCleared DEF Rest
  <2>15. PICK one : one = <<w>>
    OBVIOUS
  <2>16. one \in Seq(Parts) /\ Shown(one) = w
    <3>1. w \in Parts /\ w \notin Cats
      BY <2>6, PartsAre
    <3>2. <<w>> \in Seq(Parts) /\ Shown(<<w>>) = Piece(w)
      BY <3>1, OneElement, ShownOne
    <3> QED BY <2>15, <3>1, <3>2 DEF Piece, IsBucket
  <2>17. PICK parts : parts = (a2 \o one) \o c2
    OBVIOUS
  <2>18. /\ Splice(D[p].parts, k, one) = parts /\ parts \in Seq(Parts)
         /\ Shown(parts) = (Rest(u, e) \o w) \o Rest(v, e)
    <3>1. Splice(D[p].parts, k, one) = parts
      BY <2>13, <2>16, <2>17, SpliceAt
    <3>2. parts \in Seq(Parts) /\ Shown(parts) = (Shown(a2) \o Shown(one)) \o Shown(c2)
      BY <2>14, <2>16, <2>17, ShownThree
    <3> QED BY <2>14, <2>16, <3>1, <3>2
  <2>19. Filled(Shown(parts), e, u \o x, y \o v)
    BY <1>2, <1>4, <2>6, <2>7, <2>18, FilledAround
  <2>20. PICK nil : nil = <<>>
    OBVIOUS
  <2>21. nil \in Seq(Items) /\ OneKind(nil, parts) /\ nil \o Shown(parts) = Shown(parts)
         /\ D[p].list = nil
    <3>1. Shown(parts) \in Seq(Entries)
      BY <2>18, ShownInSeq
    <3> QED BY <2>11, <2>20, <3>1, ConcatEmptySeq, EmptySeq DEF OneKind
  <2>22. Arrived(Tree!Placing(Outline(d), e, p, b), NormalizeHierarchy(Refilled(D, p, nil, parts)))
    <3>1. Filled(nil \o Shown(parts), e, u \o x, y \o v)
      BY <2>19, <2>21
    <3> QED BY <2>9, <2>10, <2>18, <2>21, <3>1, RefilledArrives
  <2>23. [D EXCEPT ![p].parts = parts] = Refilled(D, p, nil, parts)
    <3>1. [D EXCEPT ![p].parts = parts] = Refilled(D, p, D[p].list, parts)
      <4>1. D \in Documents /\ p \in Containers
        BY <1>2, <2>11
      <4> QED BY ONLY <4>1, RefillingParts
    <3> QED BY <2>21, <3>1
  <2>24. PutInBucket(d, e, p, k, q) = NormalizeHierarchy([D EXCEPT ![p].parts = parts])
    BY <1>6, <1>8, <2>4, <2>5, <2>10, <2>15, <2>18
  <2> QED BY <2>22, <2>23, <2>24
<1> QED BY <1>7, <1>8

\* q is the part at the place k, or none behind the last one.
PartTo(s, k, q) ==
    /\ k \in 1..(Len(s) + 1)
    /\ q = IF k > Len(s) THEN NoEntry ELSE s[k]

LEMMA PartToCuts ==
    ASSUME NEW s \in Seq(Parts), NEW k, NEW q, PartTo(s, k, q)
    PROVE  \E u, v : /\ u \in Seq(Parts) /\ v \in Seq(Parts)
                     /\ Joined(s, u, v) /\ k = Len(u) + 1 /\ Ahead(v, q)
<1>1. PICK u, v : u = SubSeq(s, 1, k - 1) /\ v = SubSeq(s, k, Len(s))
  OBVIOUS
<1>2. k \in 1..(Len(s) + 1) /\ q = IF k > Len(s) THEN NoEntry ELSE s[k]
  BY DEF PartTo
<1>3. u \in Seq(Parts) /\ v \in Seq(Parts) /\ Len(u) = k - 1 /\ Len(v) = Len(s) - k + 1
      /\ s = u \o v
  BY <1>1, <1>2, Cut
<1>4. Len(s) \in Nat
  BY LenProperties
<1>5. k = Len(u) + 1
  BY ONLY <1>2, <1>3, <1>4
<1>6. Ahead(v, q)
  <2>1. CASE k > Len(s)
    <3>1. Len(v) = 0 /\ q = NoEntry
      BY ONLY <1>2, <1>3, <1>4, <2>1
    <3>2. v = <<>>
      BY <1>3, <3>1, EmptySeq
    <3> QED BY <3>1, <3>2 DEF Ahead
  <2>2. CASE ~(k > Len(s))
    <3>1. k \in 1..Len(s) /\ Len(v) # 0 /\ q = s[k]
      BY ONLY <1>2, <1>3, <1>4, <2>2
    <3>2. v # <<>>
      BY <3>1, EmptySeq
    <3>3. v[1] = s[k]
      <4>1. SubSeq(s, k, Len(s))[1] = s[k + 1 - 1]
        BY <1>4, <3>1
      <4> QED BY <1>1, <1>4, <3>1, <4>1
    <3> QED BY <3>1, <3>2, <3>3 DEF Ahead
  <2> QED BY <2>1, <2>2
<1> QED BY <1>3, <1>5, <1>6 DEF Joined

LEMMA ShownBetween ==
    ASSUME NEW x \in Seq(Parts), NEW y \in Seq(Parts), NEW e \in Cats
    PROVE  /\ (x \o <<e>>) \o y \in Seq(Parts)
           /\ Shown((x \o <<e>>) \o y) = (Shown(x) \o <<e>>) \o Shown(y)
<1> DEFINE one == <<e>>
<1>1. e \in Parts /\ Piece(e) = one
  BY PartsAre DEF Piece, IsBucket
<1>2. one \in Seq(Parts) /\ Shown(one) = one
  BY <1>1, OneElement, ShownOne
<1> HIDE DEF one
<1>3. (x \o one) \o y \in Seq(Parts) /\ Shown((x \o one) \o y) = (Shown(x) \o Shown(one)) \o Shown(y)
  BY <1>2, ShownThree
<1>4. Shown((x \o one) \o y) = (Shown(x) \o one) \o Shown(y)
  BY <1>2, <1>3
<1> QED BY <1>3, <1>4 DEF one

\* A section that is filled in among the parts is filled in among the shown entries.
LEMMA ShownFilled ==
    ASSUME NEW u \in Seq(Parts), NEW v \in Seq(Parts), NEW e \in Cats, NEW w, Filled(w, e, u, v)
    PROVE  w \in Seq(Parts) /\ Filled(Shown(w), e, Shown(u), Shown(v))
<1>1. /\ Rest(u, e) \in Seq(Parts) /\ Shown(Rest(u, e)) = Rest(Shown(u), e)
      /\ Rest(v, e) \in Seq(Parts) /\ Shown(Rest(v, e)) = Rest(Shown(v), e)
  BY ShownWithoutSection DEF Rest
<1>2. PICK x, y : x = Rest(u, e) /\ y = Rest(v, e)
  OBVIOUS
<1>3. w = (x \o <<e>>) \o y
  BY <1>2, Zenon DEF Filled
<1>4. (x \o <<e>>) \o y \in Seq(Parts) /\ Shown((x \o <<e>>) \o y) = (Shown(x) \o <<e>>) \o Shown(y)
  BY <1>1, <1>2, ShownBetween
<1>5. Shown(w) = (Rest(Shown(u), e) \o <<e>>) \o Rest(Shown(v), e)
  BY <1>1, <1>2, <1>3, <1>4, Zenon
<1> QED BY <1>3, <1>4, <1>5, Zenon DEF Filled

LEMMA InPartsMoves ==
    ASSUME NEW d, NEW e, NEW p, Movable(d, e, p), e \in Cats, d[p].list = <<>>,
           NEW k, NEW q, PartTo(d[p].parts, k, q), NEW b, b # e, HeadOf(q, b)
    PROVE  \/ /\ AlreadyAt(d[p].parts, e, q)
              /\ PutInParts(d, e, p, k) = d
              /\ Tree!Placing(Outline(d), e, p, b) = Outline(d)
              /\ \E x, y : Holds(Entries, Outline(d)[p], e, b, x, y)
           \/ Arrived(Tree!Placing(Outline(d), e, p, b), PutInParts(d, e, p, k))
<1>1. PICK s : s = d[p].parts
  OBVIOUS
<1>2. /\ d \in Documents /\ Exclusive(d) /\ e \in Entries /\ p \in Containers
      /\ s \in Seq(Parts) /\ Outline(d)[p] = Shown(s)
  BY <1>1, MovableIs
<1>3. NoEntry \notin Parts /\ NoEntry \notin Entries
  BY HierarchyAssumption, NoRootEntry DEF Parts
<1>4. e # q
  <2>1. e # NoEntry /\ ~IsBucket(e)
    BY <1>2, <1>3 DEF IsBucket
  <2>2. Piece(e) = <<e>> /\ <<e>>[1] = e
    BY <2>1 DEF Piece
  <2>3. e = q => b = e
    BY <2>1, <2>2 DEF HeadOf
  <2> QED BY <2>3
<1>5. PutInParts(d, e, p, k) =
          IF AlreadyAt(s, e, q) THEN d
          ELSE NormalizeHierarchy([Detach(d, e) EXCEPT ![p].parts = Put(s, e, k)])
  <2>1. q = IF k > Len(s) THEN NoEntry ELSE s[k]
    BY <1>1 DEF PartTo
  <2> QED BY <1>1, <2>1, Zenon DEF PutInParts
<1>6. CASE AlreadyAt(s, e, q)
  <2>1. \E x, y : Holds(Parts, s, e, q, x, y)
    BY <1>2, <1>3, <1>4, <1>6, AlreadyAtIs
  <2>2. PICK x, y : Holds(Parts, s, e, q, x, y)
    BY ONLY <2>1
  <2>3. x \in Seq(Parts) /\ y \in Seq(Parts) /\ Ahead(y, q)
    BY <2>2 DEF Holds
  <2>4. s = (x \o <<e>>) \o y
    BY <2>2, Zenon DEF Holds
  <2>5. Shown(s) = (Shown(x) \o <<e>>) \o Shown(y)
    BY <2>3, <2>4, ShownBetween
  <2>6. Shown(x) \in Seq(Entries) /\ Shown(y) \in Seq(Entries) /\ Ahead(Shown(y), b)
    BY <2>3, ShownInSeq, ShownAhead
  <2>7. Holds(Entries, Outline(d)[p], e, b, Shown(x), Shown(y))
    BY <1>2, <2>5, <2>6, Zenon DEF Holds
  <2>8. Tree!Placing(Outline(d), e, p, b) = Outline(d)
    BY <2>7, HeldAlready
  <2> QED BY <1>1, <1>5, <1>6, <2>7, <2>8
<1>7. CASE ~AlreadyAt(s, e, q)
  <2>1. \E u, v : /\ u \in Seq(Parts) /\ v \in Seq(Parts)
                  /\ Joined(s, u, v) /\ k = Len(u) + 1 /\ Ahead(v, q)
    BY <1>1, <1>2, PartToCuts
  <2>2. PICK u, v : /\ u \in Seq(Parts) /\ v \in Seq(Parts)
                    /\ Joined(s, u, v) /\ k = Len(u) + 1 /\ Ahead(v, q)
    BY ONLY <2>1
  <2>3. PICK w : w = Put(s, e, k)
    OBVIOUS
  <2>4. Filled(w, e, u, v)
    <3>1. e \in Parts
      BY PartsAre
    <3>2. Filled(Put(s, e, Len(u) + 1), e, u, v)
      BY <2>2, <3>1, PutIs
    <3> QED BY <2>2, <2>3, <3>2
  <2>5. w \in Seq(Parts) /\ Filled(Shown(w), e, Shown(u), Shown(v))
    BY <2>2, <2>4, ShownFilled
  <2>6. Before(Outline(d), p, b, Shown(u), Shown(v))
    <3>1. Shown(u) \in Seq(Entries) /\ Shown(v) \in Seq(Entries) /\ Ahead(Shown(v), b)
      BY <2>2, ShownInSeq, ShownAhead
    <3>2. s = u \o v
      BY <2>2 DEF Joined
    <3>3. Shown(u \o v) = Shown(u) \o Shown(v)
      BY <2>2, ShownConcat
    <3>4. Outline(d)[p] = Shown(u) \o Shown(v)
      BY <1>2, <3>2, <3>3
    <3> QED BY <3>1, <3>4, Zenon DEF Before
  <2>7. PICK nil : nil = <<>>
    OBVIOUS
  <2>8. PICK D : D = Detach(d, e)
    OBVIOUS
  <2>9. D \in Documents /\ D[p].list = nil
    <3>1. D \in Documents /\ D[p].list = Tree!Omit(d[p].list, {e})
      BY <1>2, <2>8, DetachIs
    <3>2. Tree!Omit(d[p].list, {e}) = <<>>
      BY OmitEmpty
    <3> QED BY <2>7, <3>1, <3>2
  <2>10. nil \in Seq(Items) /\ OneKind(nil, w) /\ nil \o Shown(w) = Shown(w)
    <3>1. Shown(w) \in Seq(Entries)
      BY <2>5, ShownInSeq
    <3> QED BY <2>7, <3>1, ConcatEmptySeq, EmptySeq DEF OneKind
  <2>11. Filled(nil \o Shown(w), e, Shown(u), Shown(v))
    BY <2>5, <2>10
  <2>12. Arrived(Tree!Placing(Outline(d), e, p, b), NormalizeHierarchy(Refilled(D, p, nil, w)))
    BY <2>5, <2>6, <2>8, <2>10, <2>11, RefilledArrives
  <2>13. [D EXCEPT ![p].parts = w] = Refilled(D, p, nil, w)
    <3>1. [D EXCEPT ![p].parts = w] = Refilled(D, p, D[p].list, w)
      <4>1. D \in Documents /\ p \in Containers
        BY <1>2, <2>9
      <4> QED BY ONLY <4>1, RefillingParts
    <3> QED BY <2>9, <3>1
  <2>14. PutInParts(d, e, p, k) = NormalizeHierarchy([D EXCEPT ![p].parts = w])
    BY <1>5, <1>7, <2>3, <2>8
  <2> QED BY <2>12, <2>13, <2>14
<1> QED BY <1>6, <1>7

-----------------------------------------------------------------------------
(* Finding buckets                                                         *)

LEMMA MinIs ==
    ASSUME NEW T, T \subseteq Nat, T # {}
    PROVE  Min(T) \in T
<1>1. \E n \in T : \A m \in T : n <= m
  BY LeastMember
<1> QED BY <1>1, Zenon DEF Min

LEMMA FirstBucketIs ==
    ASSUME NEW d \in Documents, NEW p \in Containers
    PROVE  \/ FirstBucket(d, p) = 0 /\ \A k \in 1..Len(d[p].parts) : d[p].parts[k] \in Cats
           \/ FirstBucket(d, p) \in 1..Len(d[p].parts) /\ d[p].parts[FirstBucket(d, p)] \notin Cats
<1>1. PICK I : I = {i \in 1..Len(d[p].parts) : d[p].parts[i] \notin Cats}
  OBVIOUS
<1>2. FirstBucket(d, p) = IF I # {} THEN Min(I) ELSE 0
  BY <1>1, Zenon DEF FirstBucket, SelectInSeq, IsBucket
<1>3. I \subseteq Nat
  BY <1>1
<1>4. I # {} => Min(I) \in I
  BY <1>3, MinIs
<1> QED BY <1>1, <1>2, <1>4

LEMMA BucketOfIs ==
    ASSUME NEW d \in Documents, NEW p \in Containers, NEW i
    PROVE  \/ /\ BucketOf(d, p, i) = 0
              /\ \A k \in 1..Len(d[p].parts) :
                    d[p].parts[k] \in Cats \/ i \notin ToSet(d[p].parts[k])
           \/ /\ BucketOf(d, p, i) \in 1..Len(d[p].parts)
              /\ d[p].parts[BucketOf(d, p, i)] \notin Cats
              /\ i \in ToSet(d[p].parts[BucketOf(d, p, i)])
<1>0. d[p].parts \in Seq(Parts)
  BY DocumentsHold
<1>1. PICK I : I = {k \in 1..Len(d[p].parts) :
                        d[p].parts[k] \notin Cats /\ Contains(d[p].parts[k], i)}
  OBVIOUS
<1>2. BucketOf(d, p, i) = IF I # {} THEN Min(I) ELSE 0
  BY <1>1, Zenon DEF BucketOf, SelectInSeq, IsBucket
<1>3. I \subseteq Nat
  BY <1>1
<1>4. I # {} => Min(I) \in I
  BY <1>3, MinIs
<1>5. ASSUME NEW k \in 1..Len(d[p].parts), d[p].parts[k] \notin Cats
      PROVE  Contains(d[p].parts[k], i) <=> i \in ToSet(d[p].parts[k])
  <2>1. d[p].parts[k] \in Parts
    BY <1>0, LenProperties
  <2>2. d[p].parts[k] \in Seq(Items)
    BY <1>5, <2>1, PartsAre
  <2> QED BY <2>2, ContainsIs
<1> QED BY <1>1, <1>2, <1>4, <1>5

\* What is shown is shown of one of the parts.
LEMMA ShownMembers ==
    ASSUME NEW parts \in Seq(Parts), NEW x
    PROVE  x \in ToSet(Shown(parts)) <=> \E k \in 1..Len(parts) : x \in ToSet(Piece(parts[k]))
<1> DEFINE P(s) == x \in ToSet(Shown(s)) <=> \E k \in 1..Len(s) : x \in ToSet(Piece(s[k]))
           G == {n \in Nat : \A s \in Seq(Parts) : Len(s) = n => P(s)}
<1>1. 0 \in G
  <2> SUFFICES ASSUME NEW s \in Seq(Parts), Len(s) = 0 PROVE P(s)
    OBVIOUS
  <2>1. s = <<>>
    BY EmptySeq
  <2>2. ToSet(Shown(s)) = {}
    BY <2>1, ShownEmpty, ToSetEmpty
  <2>3. 1..Len(s) = {}
    OBVIOUS
  <2> QED BY <2>2, <2>3
<1>2. ASSUME NEW n \in Nat, n \in G PROVE n + 1 \in G
  <2> SUFFICES ASSUME NEW s \in Seq(Parts), Len(s) = n + 1 PROVE P(s)
    OBVIOUS
  <2>1. \E t \in Seq(Parts), y \in Parts : s = Append(t, y) /\ Len(t) = n
    BY LastElement
  <2>2. PICK t \in Seq(Parts), y \in Parts : s = Append(t, y) /\ Len(t) = n
    BY ONLY <2>1
  <2>3. x \in ToSet(Shown(t)) <=> \E k \in 1..Len(t) : x \in ToSet(Piece(t[k]))
    BY <1>2, <2>2
  <2>4. ToSet(Shown(s)) = ToSet(Shown(t)) \cup ToSet(Piece(y))
    <3>1. Shown(s) = Shown(t) \o Piece(y)
      BY <2>2, ShownAppend
    <3>2. Shown(t) \in Seq(Entries) /\ Piece(y) \in Seq(Entries)
      BY ShownInSeq, PieceInSeq
    <3> QED BY <3>1, <3>2, ToSetConcat
  <2>5. /\ Len(s) = n + 1 /\ Len(t) = n /\ s[n + 1] = y
        /\ \A k \in 1..n : s[k] = t[k]
    BY <2>2, AppendProperties
  <2>6. \A k \in 1..(n + 1) : k \in 1..n \/ k = n + 1
    OBVIOUS
  <2>7. n + 1 \in 1..(n + 1) /\ \A k \in 1..n : k \in 1..(n + 1)
    OBVIOUS
  <2>8. (\E k \in 1..Len(s) : x \in ToSet(Piece(s[k])))
            <=> (\E k \in 1..Len(t) : x \in ToSet(Piece(t[k]))) \/ x \in ToSet(Piece(y))
    BY <2>5, <2>6, <2>7
  <2> QED BY <2>3, <2>4, <2>8
<1>3. \A n \in Nat : n \in G
  <2> HIDE DEF G
  <2> QED BY <1>1, <1>2, AllNumbers
<1>4. Len(parts) \in Nat
  BY LenProperties
<1> QED BY <1>3, <1>4

LEMMA SectionsShown ==
    ASSUME NEW parts \in Seq(Parts)
    PROVE  /\ \A b \in Cats : b \in ToSet(Shown(parts)) <=> b \in ToSet(parts)
           /\ \A b \in Items : b \in ToSet(Shown(parts)) <=>
                 \E k \in 1..Len(parts) : parts[k] \notin Cats /\ b \in ToSet(parts[k])
<1>1. \A k \in 1..Len(parts) : parts[k] \in Parts
  BY LenProperties
<1>2. \A k \in 1..Len(parts) : parts[k] \in Cats => ToSet(Piece(parts[k])) = {parts[k]}
  BY ToSetOne DEF Piece, IsBucket
<1>3. \A k \in 1..Len(parts) : parts[k] \notin Cats =>
            Piece(parts[k]) = parts[k] /\ \A b \in ToSet(parts[k]) : b \in Items
  <2> SUFFICES ASSUME NEW k \in 1..Len(parts), parts[k] \notin Cats
               PROVE  Piece(parts[k]) = parts[k] /\ \A b \in ToSet(parts[k]) : b \in Items
    OBVIOUS
  <2>1. parts[k] \in Seq(Items)
    BY <1>1, PartsAre
  <2>2. \A b \in ToSet(parts[k]) : b \in Items
    BY <2>1, ToSetIs, LenProperties
  <2> QED BY <2>2 DEF Piece, IsBucket
<1>4. \A b : b \in ToSet(parts) <=> \E k \in 1..Len(parts) : parts[k] = b
  BY ToSetIs
<1>5. \A x : x \in ToSet(Shown(parts)) <=> \E k \in 1..Len(parts) : x \in ToSet(Piece(parts[k]))
  BY ShownMembers
<1>6. ASSUME NEW b \in Cats PROVE b \in ToSet(Shown(parts)) <=> b \in ToSet(parts)
  <2>1. \A k \in 1..Len(parts) : b \in ToSet(Piece(parts[k])) <=> parts[k] = b
    BY <1>2, <1>3, NoRootEntry
  <2> QED BY <1>4, <1>5, <2>1
<1>7. ASSUME NEW b \in Items
      PROVE  b \in ToSet(Shown(parts)) <=>
                 \E k \in 1..Len(parts) : parts[k] \notin Cats /\ b \in ToSet(parts[k])
  <2>1. \A k \in 1..Len(parts) :
            b \in ToSet(Piece(parts[k])) <=> parts[k] \notin Cats /\ b \in ToSet(parts[k])
    BY <1>2, <1>3, NoRootEntry
  <2> QED BY <1>5, <2>1
<1> QED BY <1>6, <1>7

-----------------------------------------------------------------------------
(* The documents in the middle of a move: the outline stays                *)

LEMMA Reshaped ==
    ASSUME NEW d, NEW e, NEW p, Movable(d, e, p), NEW w \in Seq(Parts), Shown(w) = Outline(d)[p]
    PROVE  /\ Movable(Refilled(d, p, <<>>, w), e, p)
           /\ Outline(Refilled(d, p, <<>>, w)) = Outline(d)
           /\ Refilled(d, p, <<>>, w)[p].list = <<>>
           /\ Refilled(d, p, <<>>, w)[p].parts = w
<1>1. PICK nil : nil = <<>>
  OBVIOUS
<1>2. d \in Documents /\ Exclusive(d) /\ p \in Containers /\ Outline(d) \in Outlines
  BY MovableIs
<1>3. nil \in Seq(Items) /\ OneKind(nil, w) /\ nil \o Shown(w) = Shown(w)
  <2>1. Shown(w) \in Seq(Entries)
    BY ShownInSeq
  <2> QED BY <1>1, <2>1, ConcatEmptySeq, EmptySeq DEF OneKind
<1>4. PICK m : m = Refilled(d, p, nil, w)
  OBVIOUS
<1>5. /\ m \in Documents /\ Exclusive(m) /\ m[p].list = nil /\ m[p].parts = w
      /\ Outline(m) = [Outline(d) EXCEPT ![p] = nil \o Shown(w)]
  <2>1. /\ d \in Documents /\ Exclusive(d) /\ p \in Containers
        /\ nil \in Seq(Items) /\ w \in Seq(Parts) /\ OneKind(nil, w)
    BY <1>2, <1>3
  <2>2. /\ Refilled(d, p, nil, w) \in Documents /\ Exclusive(Refilled(d, p, nil, w))
        /\ Refilled(d, p, nil, w)[p].list = nil /\ Refilled(d, p, nil, w)[p].parts = w
        /\ Outline(Refilled(d, p, nil, w)) = [Outline(d) EXCEPT ![p] = nil \o Shown(w)]
    BY ONLY <2>1, RefilledIs
  <2> QED BY <1>4, <2>2
<1>6. Outline(m) = Outline(d)
  <2>1. PICK t : t = Outline(d)
    OBVIOUS
  <2>2. Outline(m) = [t EXCEPT ![p] = t[p]]
    BY <1>3, <1>5, <2>1
  <2>3. [t EXCEPT ![p] = t[p]] = t
    BY <1>2, <2>1 DEF Outlines
  <2> QED BY <2>1, <2>2, <2>3
<1>7. Movable(m, e, p)
  BY <1>5, <1>6, Zenon DEF Movable, Proper, Within
<1> QED BY <1>1, <1>4, <1>5, <1>6, <1>7

\* A new bucket between two parts.
LEMMA NewBucketIs ==
    ASSUME NEW d, NEW e, NEW p, Movable(d, e, p), d[p].list = <<>>,
           NEW u \in Seq(Parts), NEW v \in Seq(Parts), Joined(d[p].parts, u, v),
           NEW k, k = Len(u) + 1
    PROVE  /\ Movable(EmptyBucketAt(d, p, k), e, p)
           /\ Outline(EmptyBucketAt(d, p, k)) = Outline(d)
           /\ At(EmptyBucketAt(d, p, k)[p].parts, k, u, <<>>, v)
<1>1. PICK nil : nil = <<>>
  OBVIOUS
<1>2. PICK one : one = <<nil>>
  OBVIOUS
<1>3. nil \in Parts /\ nil \notin Cats /\ Piece(nil) = nil
  <2>1. nil \in Seq(Items)
    BY <1>1, EmptySeq
  <2> QED BY <2>1, PartsAre DEF Piece, IsBucket
<1>4. one \in Seq(Parts) /\ Shown(one) = nil
  BY <1>2, <1>3, OneElement, ShownOne
<1>5. d \in Documents /\ p \in Containers /\ Outline(d)[p] = Shown(d[p].parts)
  BY MovableIs
<1>6. PICK w : w = (u \o one) \o v
  OBVIOUS
<1>7. w \in Seq(Parts) /\ Shown(w) = Outline(d)[p]
  <2>1. w \in Seq(Parts) /\ Shown(w) = (Shown(u) \o Shown(one)) \o Shown(v)
    BY <1>4, <1>6, ShownThree
  <2>2. Shown(u) \in Seq(Entries) /\ Shown(u) \o nil = Shown(u)
    BY <1>1, ShownInSeq, ConcatEmptySeq
  <2>3. d[p].parts = u \o v
    BY DEF Joined
  <2>4. Shown(u \o v) = Shown(u) \o Shown(v)
    BY ShownConcat
  <2> QED BY <1>4, <1>5, <2>1, <2>2, <2>3, <2>4
<1>8. InsertAt(d[p].parts, k, nil) = w
  <2>1. d[p].parts = u \o v
    BY DEF Joined
  <2>2. InsertAt(u \o v, Len(u) + 1, nil) = (u \o <<nil>>) \o v
    BY InsertBetween
  <2> QED BY <1>2, <1>6, <2>1, <2>2
<1>9. EmptyBucketAt(d, p, k) = Refilled(d, p, nil, w)
  <2>1. EmptyBucketAt(d, p, k) = [d EXCEPT ![p].parts = InsertAt(d[p].parts, k, nil)]
    BY <1>1, Zenon DEF EmptyBucketAt
  <2>2. [d EXCEPT ![p].parts = w] = Refilled(d, p, d[p].list, w)
    <3>1. d \in Documents /\ p \in Containers
      BY <1>5
    <3>2. \A ps : [d EXCEPT ![p].parts = ps] = Refilled(d, p, d[p].list, ps)
      BY ONLY <3>1, RefillingParts
    <3> QED BY ONLY <3>2, Zenon
  <2>3. d[p].list = nil
    BY <1>1
  <2> QED BY <1>8, <2>1, <2>2, <2>3
<1>10. /\ Movable(Refilled(d, p, nil, w), e, p) /\ Outline(Refilled(d, p, nil, w)) = Outline(d)
       /\ Refilled(d, p, nil, w)[p].parts = w
  BY <1>1, <1>7, Reshaped
<1>11. At(w, k, u, nil, v)
  BY <1>2, <1>3, <1>6, Zenon DEF At
<1> QED BY <1>1, <1>9, <1>10, <1>11

LEMMA InNewBucketMoves ==
    ASSUME NEW d, NEW e, NEW p, Movable(d, e, p), e \in Items, d[p].list = <<>>,
           NEW u \in Seq(Parts), NEW v \in Seq(Parts), Joined(d[p].parts, u, v),
           NEW k, k = Len(u) + 1, NEW b, b # e, Ahead(Shown(v), b)
    PROVE  Moved(d, e, p, b, PutInBucket(EmptyBucketAt(d, p, k), e, p, k, NoEntry))
<1>1. PICK m : m = EmptyBucketAt(d, p, k)
  OBVIOUS
<1>2. PICK nil : nil = <<>>
  OBVIOUS
<1>3. Movable(m, e, p) /\ Outline(m) = Outline(d) /\ At(m[p].parts, k, u, nil, v)
  BY <1>1, <1>2, NewBucketIs
<1>4. nil \notin Cats /\ ~AlreadyAt(nil, e, NoEntry)
  <2>1. nil \in Seq(Items) /\ Len(nil) = 0
    BY <1>2, EmptySeq
  <2>2. ~Contains(nil, e)
    BY <2>1 DEF Contains
  <2> QED BY <2>1, <2>2, PartsAre DEF AlreadyAt
<1>5. Follows(NoEntry, Shown(v), b)
  BY DEF Follows
<1>6. Arrived(Tree!Placing(Outline(m), e, p, b), PutInBucket(m, e, p, k, NoEntry))
  BY <1>3, <1>4, <1>5, InBucketMoves
<1> QED BY <1>1, <1>3, <1>6 DEF Moved

LEMMA MoveItemLands ==
    ASSUME NEW d, NEW e, NEW p, Movable(d, e, p), e \in Items,
           NEW b, b # e, b = NoEntry \/ b \in ToSet(Outline(d)[p])
    PROVE  Moved(d, e, p, b, MoveItem(d, e, p, b))
<1>1. PICK s : s = d[p].parts
  OBVIOUS
<1>2. /\ d \in Documents /\ p \in Containers /\ s \in Seq(Parts) /\ Outline(d)[p] \in Seq(Entries)
      /\ d[p].list = <<>> \/ s = <<>>
  BY <1>1, MovableIs
<1>3. CASE s = <<>>
  <2>1. MoveItem(d, e, p, b) = PutInList(d, e, p, b)
    BY <1>1, <1>3, Zenon DEF MoveItem
  <2> QED BY <1>1, <1>3, <2>1, InListMoves
<1>4. CASE s # <<>>
  <2>1. d[p].list = <<>> /\ Outline(d)[p] = Shown(s)
    BY <1>1, <1>2, <1>4, MovableIs
  <2>2. NoEntry \notin Parts /\ NoEntry \notin Entries /\ Cats \cap Items = {}
    BY HierarchyAssumption, NoRootEntry DEF Parts
  <2>3. CASE b \in Cats
    <3>1. PICK k : k = Tree!PlaceOf(s, b)
      OBVIOUS
    <3>2. MoveItem(d, e, p, b) = PutInBucket(EmptyBucketAt(d, p, k), e, p, k, NoEntry)
      BY <1>1, <1>4, <2>2, <2>3, <3>1 DEF MoveItem
    <3>3. b \in ToSet(s)
      BY <1>2, <2>1, <2>2, <2>3, SectionsShown DEF Entries
    <3>4. \E u, v : Cuts(Parts, s, b, u, v)
      BY <1>2, <2>2, <3>3, AskedCuts
    <3>5. PICK u, v : Cuts(Parts, s, b, u, v)
      BY ONLY <3>4
    <3>6. /\ u \in Seq(Parts) /\ v \in Seq(Parts) /\ Joined(s, u, v) /\ k = Len(u) + 1
          /\ Ahead(v, b)
      BY <3>1, <3>5 DEF Cuts
    <3>7. HeadOf(b, b)
      <4>1. b \in Parts /\ Piece(b) = <<b>> /\ <<b>> # <<>> /\ <<b>>[1] = b
        BY <2>3, PartsAre DEF Piece, IsBucket
      <4> QED BY <2>2, <4>1 DEF HeadOf
    <3>8. Ahead(Shown(v), b)
      BY <3>6, <3>7, ShownAhead
    <3>9. Joined(d[p].parts, u, v)
      BY <1>1, <3>6
    <3> QED BY <2>1, <3>2, <3>6, <3>8, <3>9, InNewBucketMoves
  <2>4. CASE b \in Items
    <3>1. PICK k : k = BucketOf(d, p, b)
      OBVIOUS
    <3>2. \E j \in 1..Len(s) : s[j] \notin Cats /\ b \in ToSet(s[j])
      BY <1>2, <2>1, <2>2, <2>4, SectionsShown DEF Entries
    <3>3. k # 0 /\ k \in 1..Len(s) /\ s[k] \notin Cats /\ b \in ToSet(s[k])
      <4>1. Len(s) \in Nat
        BY <1>2, LenProperties
      <4>2. \/ k = 0 /\ \A j \in 1..Len(s) : s[j] \in Cats \/ b \notin ToSet(s[j])
            \/ k \in 1..Len(s) /\ s[k] \notin Cats /\ b \in ToSet(s[k])
        BY <1>1, <1>2, <3>1, BucketOfIs
      <4> QED BY <3>2, <4>1, <4>2
    <3>4. MoveItem(d, e, p, b) = PutInBucket(d, e, p, k, b)
      BY <1>1, <1>4, <2>2, <2>4, <3>1, <3>3 DEF MoveItem
    <3>5. \E a, c : At(s, k, a, s[k], c)
      BY <1>2, <3>3, PartAt
    <3>6. PICK a, c : At(s, k, a, s[k], c)
      BY ONLY <3>5
    <3>7. At(d[p].parts, k, a, s[k], c)
      BY <1>1, <3>6
    <3>8. Follows(b, Shown(c), b)
      BY <2>2, <2>4 DEF Follows, Entries
    <3>9. \/ /\ PutInBucket(d, e, p, k, b) = d
             /\ Tree!Placing(Outline(d), e, p, b) = Outline(d)
          \/ Arrived(Tree!Placing(Outline(d), e, p, b), PutInBucket(d, e, p, k, b))
      BY <3>3, <3>7, <3>8, InBucketMoves
    <3> QED BY <3>4, <3>9 DEF Moved
  <2>5. CASE b = NoEntry
    <3>1. PICK k : k = Len(s)
      OBVIOUS
    <3>2. k \in 1..Len(s) /\ k \in Nat
      <4>1. Len(s) \in Nat /\ Len(s) # 0
        BY <1>2, <1>4, EmptySeq, LenProperties
      <4> QED BY <3>1, <4>1
    <3>3. PICK nil : nil = <<>>
      OBVIOUS
    <3>4. nil \in Seq(Parts) /\ Shown(nil) = nil /\ Ahead(nil, b)
      BY <2>5, <3>3, EmptySeq, ShownEmpty DEF Ahead
    <3>5. CASE IsBucket(s[k])
      <4>1. MoveItem(d, e, p, b) = PutInBucket(d, e, p, k, NoEntry)
        BY <1>1, <1>4, <2>2, <2>5, <3>1, <3>5 DEF MoveItem, Entries
      <4>2. \E a, c : At(s, k, a, s[k], c)
        BY <1>2, <3>2, PartAt
      <4>3. PICK a, c : At(s, k, a, s[k], c)
        BY ONLY <4>2
      <4>4. c = nil
        <5>1. c \in Seq(Parts) /\ a \in Seq(Parts) /\ k = Len(a) + 1 /\ Len(s) = Len(a) + 1 + Len(c)
          BY <4>3, AtIs DEF At
        <5>2. Len(a) \in Nat /\ Len(c) \in Nat
          BY <5>1, LenProperties
        <5>3. Len(c) = 0
          <6>1. k = Len(a) + 1 /\ k = Len(a) + 1 + Len(c)
            BY <3>1, <5>1
          <6> QED BY ONLY <5>2, <6>1
        <5> QED BY <3>3, <5>1, <5>3, EmptySeq
      <4>5. At(d[p].parts, k, a, s[k], c) /\ Follows(NoEntry, Shown(c), b) /\ s[k] \notin Cats
        BY <1>1, <3>4, <3>5, <4>3, <4>4 DEF Follows, IsBucket
      <4>6. \/ /\ PutInBucket(d, e, p, k, NoEntry) = d
               /\ Tree!Placing(Outline(d), e, p, b) = Outline(d)
            \/ Arrived(Tree!Placing(Outline(d), e, p, b), PutInBucket(d, e, p, k, NoEntry))
        BY <4>5, InBucketMoves
      <4> QED BY <4>1, <4>6 DEF Moved
    <3>6. CASE ~IsBucket(s[k])
      <4>1. MoveItem(d, e, p, b) = PutInBucket(EmptyBucketAt(d, p, k + 1), e, p, k + 1, NoEntry)
        BY <1>1, <1>4, <2>2, <2>5, <3>1, <3>6 DEF MoveItem, Entries
      <4>2. Joined(d[p].parts, s, nil)
        BY <1>1, <1>2, <3>3, ConcatEmptySeq DEF Joined
      <4>3. Ahead(Shown(nil), b)
        BY <3>4
      <4>4. k + 1 = Len(s) + 1
        BY <3>1
      <4> QED BY <1>2, <2>1, <3>4, <4>1, <4>2, <4>3, <4>4, InNewBucketMoves
    <3> QED BY <3>5, <3>6
  <2>6. b \in Cats \/ b \in Items \/ b = NoEntry
    <3>1. b \in ToSet(Outline(d)[p]) => b \in Entries
      BY <1>2, ToSetIs, LenProperties
    <3> QED BY <3>1 DEF Entries
  <2> QED BY <2>3, <2>4, <2>5, <2>6
<1> QED BY <1>3, <1>4

\* The first bucket of p, or a new one with its list: the outline stays.
LEMMA WithItemBucketIs ==
    ASSUME NEW d, NEW e, NEW p, Movable(d, e, p)
    PROVE  /\ Movable(WithItemBucket(d, p), e, p)
           /\ Outline(WithItemBucket(d, p)) = Outline(d)
           /\ WithItemBucket(d, p)[p].list = <<>>
           /\ \/ WithItemBucket(d, p) = d
              \/ WithItemBucket(d, p)[p].parts = Append(d[p].parts, d[p].list)
           /\ FirstBucket(WithItemBucket(d, p), p) \in 1..Len(WithItemBucket(d, p)[p].parts)
           /\ WithItemBucket(d, p)[p].parts[FirstBucket(WithItemBucket(d, p), p)] \notin Cats
<1>1. PICK s, l : s = d[p].parts /\ l = d[p].list
  OBVIOUS
<1>2. /\ d \in Documents /\ p \in Containers /\ s \in Seq(Parts) /\ l \in Seq(Items)
      /\ l \in Seq(Entries) /\ (l = <<>> \/ s = <<>>)
      /\ (s = <<>> => Outline(d)[p] = l) /\ (l = <<>> => Outline(d)[p] = Shown(s))
  BY <1>1, MovableIs
<1>3. \/ FirstBucket(d, p) = 0 /\ \A k \in 1..Len(s) : s[k] \in Cats
      \/ FirstBucket(d, p) \in 1..Len(s) /\ s[FirstBucket(d, p)] \notin Cats
  BY <1>1, <1>2, FirstBucketIs
<1>4. CASE FirstBucket(d, p) # 0
  <2>1. WithItemBucket(d, p) = d
    BY <1>4, Zenon DEF WithItemBucket
  <2>2. FirstBucket(d, p) \in 1..Len(s) /\ s[FirstBucket(d, p)] \notin Cats
    BY <1>3, <1>4
  <2>3. s # <<>>
    BY <2>2
  <2> QED BY <1>1, <1>2, <2>1, <2>2, <2>3
<1>5. CASE FirstBucket(d, p) = 0
  <2>1. PICK nil : nil = <<>>
    OBVIOUS
  <2>2. PICK w : w = Append(s, l)
    OBVIOUS
  <2>3. l \in Parts /\ l \notin Cats /\ Piece(l) = l
    BY <1>2, PartsAre DEF Piece, IsBucket
  <2>4. w \in Seq(Parts) /\ Shown(w) = Shown(s) \o l /\ Len(w) = Len(s) + 1 /\ w[Len(s) + 1] = l
        /\ Len(s) \in Nat
    <3>1. s \in Seq(Parts) /\ l \in Parts
      BY <1>2, <2>3
    <3>2. Shown(Append(s, l)) = Shown(s) \o Piece(l)
      BY ONLY <3>1, ShownAppend
    <3>3. /\ Append(s, l) \in Seq(Parts) /\ Len(Append(s, l)) = Len(s) + 1
          /\ Append(s, l)[Len(s) + 1] = l
      BY ONLY <3>1, AppendProperties
    <3>4. Len(s) \in Nat
      BY ONLY <3>1, LenProperties
    <3> QED BY <2>2, <2>3, <3>2, <3>3, <3>4
  <2>5. Shown(w) = Outline(d)[p]
    <3>1. CASE s = nil
      <4>1. Shown(s) = nil /\ nil \o l = l
        BY <1>2, <2>1, <3>1, ShownEmpty, ConcatEmptySeq
      <4> QED BY <1>2, <2>1, <2>4, <3>1, <4>1
    <3>2. CASE l = nil
      <4>1. Shown(s) \in Seq(Entries)
        BY <1>2, ShownInSeq
      <4>2. Shown(s) \o nil = Shown(s)
        BY <2>1, <4>1, ConcatEmptySeq
      <4> QED BY <1>2, <2>1, <2>4, <3>2, <4>2
    <3> QED BY <1>2, <2>1, <3>1, <3>2
  <2>6. PICK m : m = Refilled(d, p, nil, w)
    OBVIOUS
  <2>7. WithItemBucket(d, p) = m
    <3>1. WithItemBucket(d, p) = [d EXCEPT ![p] = [list |-> nil, parts |-> Append(d[p].parts, d[p].list)]]
      BY <1>5, <2>1, Zenon DEF WithItemBucket
    <3> QED BY <1>1, <2>2, <2>6, <3>1, Zenon DEF Refilled
  <2>8. Movable(m, e, p) /\ Outline(m) = Outline(d) /\ m[p].list = nil /\ m[p].parts = w
    BY <2>1, <2>4, <2>5, <2>6, Reshaped
  <2>9. m \in Documents /\ p \in Containers
    BY <2>8, MovableIs
  <2>10. \/ FirstBucket(m, p) = 0 /\ \A k \in 1..Len(w) : w[k] \in Cats
         \/ FirstBucket(m, p) \in 1..Len(w) /\ w[FirstBucket(m, p)] \notin Cats
    BY <2>8, <2>9, FirstBucketIs
  <2>11. Len(s) + 1 \in 1..Len(w) /\ w[Len(s) + 1] \notin Cats
    BY <2>3, <2>4
  <2> QED BY <1>1, <2>1, <2>2, <2>7, <2>8, <2>10, <2>11
<1> QED BY <1>4, <1>5

\* The document in which a section is moved: without an Itemlist.
Wrapped(d, p) == IF d[p].list # <<>> THEN WithItemBucket(d, p) ELSE d

LEMMA WrappedIs ==
    ASSUME NEW d, NEW e, NEW p, Movable(d, e, p)
    PROVE  /\ Movable(Wrapped(d, p), e, p)
           /\ Outline(Wrapped(d, p)) = Outline(d)
           /\ Wrapped(d, p)[p].list = <<>>
           /\ Wrapped(d, p) = d \/ \A c \in Cats : c \notin ToSet(Wrapped(d, p)[p].parts)
<1>1. CASE d[p].list = <<>>
  <2>1. Wrapped(d, p) = d
    BY <1>1 DEF Wrapped
  <2> QED BY <1>1, <2>1
<1>2. CASE d[p].list # <<>>
  <2>1. PICK m : m = WithItemBucket(d, p)
    OBVIOUS
  <2>2. PICK nil, l : nil = <<>> /\ l = d[p].list
    OBVIOUS
  <2>3. Wrapped(d, p) = m
    BY <1>2, <2>1 DEF Wrapped
  <2>4. /\ Movable(m, e, p) /\ Outline(m) = Outline(d) /\ m[p].list = <<>>
        /\ m = d \/ m[p].parts = Append(d[p].parts, d[p].list)
    BY <2>1, WithItemBucketIs
  <2>5. d[p].parts = nil /\ l \in Seq(Items) /\ m # d
    BY <1>2, <2>2, <2>4, MovableIs
  <2>6. m[p].parts = Append(nil, l)
    BY <2>2, <2>4, <2>5
  <2>7. l \in Parts
    BY <2>5, PartsAre
  <2>8. ToSet(m[p].parts) = {l}
    <3>1. nil \in Seq(Parts) /\ ToSet(nil) = {}
      BY <2>2, EmptySeq, ToSetEmpty
    <3>2. ToSet(Append(nil, l)) = ToSet(nil) \cup {l}
      BY <2>7, <3>1, ToSetAppend
    <3> QED BY <2>6, <3>1, <3>2
  <2>9. \A c \in Cats : c \notin ToSet(m[p].parts)
    BY <2>5, <2>8, PartsAre
  <2> QED BY <2>3, <2>4, <2>9
<1> QED BY <1>1, <1>2

LEMMA MoveCategoryIs ==
    ASSUME NEW d, NEW e, NEW p, NEW b, NEW k, k = BucketOf(Wrapped(d, p), p, b)
    PROVE  /\ b \notin Items =>
                MoveCategory(d, e, p, b) =
                    PutInParts(Wrapped(d, p), e, p, Tree!PlaceOf(Wrapped(d, p)[p].parts, b))
           /\ b \in Items /\ k # 0 /\ Wrapped(d, p)[p].parts[k][1] = b =>
                MoveCategory(d, e, p, b) = PutInParts(Wrapped(d, p), e, p, k)
           /\ b \in Items /\ k # 0 /\ Wrapped(d, p)[p].parts[k][1] # b =>
                MoveCategory(d, e, p, b) = PutInParts(SplitBucket(Wrapped(d, p), p, k, b), e, p, k + 1)
  BY DEF MoveCategory, Wrapped

LEMMA Neighbours ==
    ASSUME NEW S, NEW s, NEW x \in Seq(S), NEW y \in Seq(S), x # <<>>, y # <<>>, Joined(s, x, y)
    PROVE  /\ Len(x) \in 1..Len(s) /\ s[Len(x)] = x[Len(x)]
           /\ Len(x) + 1 \in 1..Len(s) /\ s[Len(x) + 1] = y[1]
<1>1. Len(x) \in Nat /\ Len(y) \in Nat /\ Len(x) # 0 /\ Len(y) # 0
  BY EmptySeq, LenProperties
<1>2. /\ Len(x \o y) = Len(x) + Len(y)
      /\ \A k \in 1..(Len(x) + Len(y)) :
            (x \o y)[k] = IF k <= Len(x) THEN x[k] ELSE y[k - Len(x)]
  BY ConcatProperties
<1>3. s = x \o y
  BY DEF Joined
<1>4. /\ Len(x) \in 1..(Len(x) + Len(y)) /\ Len(x) <= Len(x)
      /\ Len(x) + 1 \in 1..(Len(x) + Len(y)) /\ ~(Len(x) + 1 <= Len(x))
      /\ (Len(x) + 1) - Len(x) = 1
  BY ONLY <1>1
<1> QED BY <1>2, <1>3, <1>4

\* Where nothing occurs twice, an element has one element before it.
LEMMA OneBefore ==
    ASSUME NEW S, NEW s \in Seq(S), Distinct(s),
           NEW x \in Seq(S), NEW y \in Seq(S), x # <<>>, y # <<>>, Joined(s, x, y),
           NEW u \in Seq(S), NEW v \in Seq(S), u # <<>>, v # <<>>, Joined(s, u, v),
           y[1] = v[1]
    PROVE  x[Len(x)] = u[Len(u)]
<1>1. /\ Len(x) \in 1..Len(s) /\ s[Len(x)] = x[Len(x)]
      /\ Len(x) + 1 \in 1..Len(s) /\ s[Len(x) + 1] = y[1]
  BY Neighbours
<1>2. /\ Len(u) \in 1..Len(s) /\ s[Len(u)] = u[Len(u)]
      /\ Len(u) + 1 \in 1..Len(s) /\ s[Len(u) + 1] = v[1]
  BY Neighbours
<1>3. Len(x) + 1 = Len(u) + 1
  BY <1>1, <1>2 DEF Distinct
<1>4. Len(x) \in Nat /\ Len(u) \in Nat
  BY LenProperties
<1>5. Len(x) = Len(u)
  BY ONLY <1>3, <1>4
<1> QED BY <1>1, <1>2, <1>5

LEMMA TwoElements ==
    ASSUME NEW S, NEW x \in S, NEW y \in S
    PROVE  <<x>> \o <<y>> = <<x, y>> /\ <<x, y>> \in Seq(S)
<1>1. <<x>> = Append(<<>>, x) /\ <<x, y>> = Append(<<x>>, y)
  OBVIOUS
<1>2. <<x>> \in Seq(S) /\ <<y>> = Append(<<>>, y) /\ <<>> \in Seq(S)
  BY OneElement, EmptySeq
<1>3. PICK nil, one : nil = <<>> /\ one = <<x>>
  OBVIOUS
<1>4. one \o Append(nil, y) = Append(one \o nil, y)
  BY <1>2, <1>3, ConcatAppend
<1>5. one \o nil = one
  BY <1>2, <1>3, ConcatEmptySeq
<1>6. PICK two, pair : two = <<y>> /\ pair = <<x, y>>
  OBVIOUS
<1>7. two = Append(nil, y) /\ pair = Append(one, y) /\ one \in Seq(S)
  BY <1>1, <1>2, <1>3, <1>6
<1>8. one \o two = pair
  BY ONLY <1>4, <1>5, <1>7
<1>9. pair \in Seq(S)
  BY <1>7, AppendProperties
<1> QED BY <1>3, <1>6, <1>8, <1>9, Zenon

\* p has no Itemlist, and its k-th part is the bucket of x and then y: b cuts it there.
Splits(d, p, k, b, a, c, x, y) ==
    /\ d[p].list = <<>>
    /\ \E s : At(d[p].parts, k, a, s, c) /\ s \notin Cats /\ Cuts(Items, s, b, x, y)

\* The k-th bucket in two: the outline stays, the tail is the next bucket.
LEMMA SplitBucketIs ==
    ASSUME NEW d, NEW e, NEW p, Movable(d, e, p),
           NEW k, NEW b, NEW a, NEW c, NEW x, NEW y, Splits(d, p, k, b, a, c, x, y)
    PROVE  /\ Movable(SplitBucket(d, p, k, b), e, p)
           /\ Outline(SplitBucket(d, p, k, b)) = Outline(d)
           /\ SplitBucket(d, p, k, b)[p].list = <<>>
           /\ PartTo(SplitBucket(d, p, k, b)[p].parts, k + 1, y)
           /\ Joined(Outline(d)[p], Cat(Shown(a), x), Cat(y, Shown(c)))
<1>a. PICK s : At(d[p].parts, k, a, s, c) /\ s \notin Cats /\ Cuts(Items, s, b, x, y)
  BY DEF Splits
<1>b. d[p].list = <<>>
  BY DEF Splits
<1>1. /\ x \in Seq(Items) /\ y \in Seq(Items) /\ Joined(s, x, y) /\ Tree!PlaceOf(s, b) = Len(x) + 1
      /\ s = x \o y
  BY <1>a DEF Cuts, Joined
<1>2. /\ a \in Seq(Parts) /\ c \in Seq(Parts) /\ k = Len(a) + 1 /\ d[p].parts[k] = s
      /\ k \in 1..Len(d[p].parts)
  BY <1>a, AtIs DEF At
<1>3. x \in Parts /\ y \in Parts /\ Piece(x) = x /\ Piece(y) = y /\ Piece(s) = s
      /\ x \in Seq(Entries) /\ y \in Seq(Entries)
  BY <1>1, <1>a, PartsAre DEF Piece, IsBucket
<1>4. PICK one, two : one = <<x>> /\ two = <<y>>
  OBVIOUS
<1>5. /\ one \in Seq(Parts) /\ Len(one) = 1 /\ two \in Seq(Parts) /\ Len(two) = 1 /\ two[1] = y
      /\ Shown(one) = x /\ Shown(two) = y
  BY <1>3, <1>4, OneElement, ShownOne
<1>6. PICK t : t = one \o two
  OBVIOUS
<1>7. t \in Seq(Parts) /\ t = <<x, y>> /\ Shown(t) = x \o y
  BY <1>3, <1>4, <1>5, <1>6, TwoElements, ShownConcat
<1>8. PICK w : w = (a \o t) \o c
  OBVIOUS
<1>9. /\ w \in Seq(Parts) /\ Shown(w) = (Shown(a) \o Shown(t)) \o Shown(c)
      /\ Splice(d[p].parts, k, t) = w
  <2>1. a \in Seq(Parts) /\ t \in Seq(Parts) /\ c \in Seq(Parts)
    BY <1>2, <1>7
  <2>2. (a \o t) \o c \in Seq(Parts) /\ Shown((a \o t) \o c) = (Shown(a) \o Shown(t)) \o Shown(c)
    BY ONLY <2>1, ShownThree
  <2>3. Splice(d[p].parts, k, t) = (a \o t) \o c
    BY <1>a, <2>1, SpliceAt
  <2> QED BY <1>8, <2>2, <2>3
<1>10. d \in Documents /\ p \in Containers /\ Outline(d)[p] = Shown(d[p].parts)
  BY <1>b, MovableIs
<1>11. Shown(w) = Outline(d)[p]
  <2>1. Shown(d[p].parts) = (Shown(a) \o Piece(s)) \o Shown(c)
    BY <1>a, ShownAt
  <2> QED BY <1>1, <1>3, <1>7, <1>9, <1>10, <2>1
<1>12. SplitBucket(d, p, k, b) = [d EXCEPT ![p].parts = w]
  <2>1. SubSeq(s, 1, Len(x)) = x /\ SubSeq(s, Len(x) + 1, Len(s)) = y
    BY <1>1, Halves
  <2>2. Len(x) \in Nat
    BY <1>1, LenProperties
  <2>3. PICK at : at = Tree!PlaceOf(d[p].parts[k], b)
    OBVIOUS
  <2>4. at = Len(x) + 1 /\ at - 1 = Len(x)
    BY <1>1, <1>2, <2>2, <2>3
  <2>5. SubSeq(d[p].parts[k], 1, at - 1) = x /\ SubSeq(d[p].parts[k], at, Len(d[p].parts[k])) = y
    BY <1>2, <2>1, <2>4
  <2>6. SplitBucket(d, p, k, b) =
            [d EXCEPT ![p].parts = Splice(d[p].parts, k,
                <<SubSeq(d[p].parts[k], 1, at - 1), SubSeq(d[p].parts[k], at, Len(d[p].parts[k]))>>)]
    BY <2>3, Zenon DEF SplitBucket
  <2>7. <<SubSeq(d[p].parts[k], 1, at - 1), SubSeq(d[p].parts[k], at, Len(d[p].parts[k]))>> = t
    BY <1>7, <2>5
  <2> QED BY <1>9, <2>6, <2>7, Zenon
<1>13. PICK nil : nil = <<>>
  OBVIOUS
<1>14. SplitBucket(d, p, k, b) = Refilled(d, p, nil, w)
  <2>1. [d EXCEPT ![p].parts = w] = Refilled(d, p, d[p].list, w)
    <3>1. d \in Documents /\ p \in Containers
      BY <1>10
    <3> QED BY ONLY <3>1, RefillingParts
  <2> QED BY <1>b, <1>12, <1>13, <2>1
<1>15. /\ Movable(Refilled(d, p, nil, w), e, p) /\ Outline(Refilled(d, p, nil, w)) = Outline(d)
       /\ Refilled(d, p, nil, w)[p].list = nil /\ Refilled(d, p, nil, w)[p].parts = w
  BY <1>9, <1>11, <1>13, Reshaped
<1>16. PartTo(w, k + 1, y)
  <2>1. At(w, k + 1, a \o one, y, c)
    <3>1. PICK u : u = a \o one
      OBVIOUS
    <3>2. u \in Seq(Parts) /\ Len(u) = Len(a) + 1
      <4>1. a \in Seq(Parts) /\ one \in Seq(Parts)
        BY <1>2, <1>5
      <4>2. a \o one \in Seq(Parts) /\ Len(a \o one) = Len(a) + Len(one)
        BY ONLY <4>1, ConcatProperties
      <4> QED BY <1>5, <3>1, <4>2
    <3>3. u \o two = a \o (one \o two)
      <4>1. a \in Seq(Parts) /\ one \in Seq(Parts) /\ two \in Seq(Parts)
        BY <1>2, <1>5
      <4>2. (a \o one) \o two = a \o (one \o two)
        BY ONLY <4>1, ConcatAssociative
      <4> QED BY <3>1, <4>2
    <3>4. w = (u \o two) \o c
      BY <1>6, <1>8, <3>3
    <3>5. k + 1 = Len(u) + 1
      BY <1>2, <3>2
    <3>6. At(w, k + 1, u, y, c)
      BY <1>2, <1>3, <1>4, <3>2, <3>4, <3>5, Zenon DEF At
    <3> QED BY <3>1, <3>6
  <2>2. k + 1 \in 1..Len(w) /\ w[k + 1] = y
    BY <2>1, AtIs
  <2>3. Len(w) \in Nat
    BY <1>9, LenProperties
  <2> QED BY <2>2, <2>3 DEF PartTo
<1>17. Joined(Outline(d)[p], Cat(Shown(a), x), Cat(y, Shown(c)))
  <2>1. Shown(a) \in Seq(Entries) /\ Shown(c) \in Seq(Entries)
    BY <1>2, ShownInSeq
  <2>2. Cat(Shown(a), x) \in Seq(Entries)
    BY <1>3, <2>1, CatInSeq
  <2>3. Cat(Cat(Shown(a), Cat(x, y)), Shown(c)) = Cat(Cat(Shown(a), x), Cat(y, Shown(c)))
    <3>1. Cat(Cat(Shown(a), x), y) = Cat(Shown(a), Cat(x, y))
      BY <1>3, <2>1, CatAssociative
    <3>2. Cat(Cat(Cat(Shown(a), x), y), Shown(c)) = Cat(Cat(Shown(a), x), Cat(y, Shown(c)))
      BY <1>3, <2>1, <2>2, CatAssociative
    <3> QED BY <3>1, <3>2
  <2>4. Outline(d)[p] = Cat(Cat(Shown(a), Cat(x, y)), Shown(c))
    BY <1>7, <1>9, <1>11, Zenon DEF Cat
  <2> QED BY <2>3, <2>4 DEF Joined, Cat
<1> QED BY <1>13, <1>14, <1>15, <1>16, <1>17

LEMMA PlaceIsPartTo ==
    ASSUME NEW s \in Seq(Parts), NEW b, b = NoEntry \/ b \in ToSet(s)
    PROVE  PartTo(s, Tree!PlaceOf(s, b), b)
<1>1. NoEntry \notin Parts
  BY HierarchyAssumption DEF Parts
<1>2. \E u, v : Cuts(Parts, s, b, u, v)
  BY <1>1, AskedCuts
<1>3. PICK u, v : Cuts(Parts, s, b, u, v)
  BY ONLY <1>2
<1>4. /\ u \in Seq(Parts) /\ v \in Seq(Parts) /\ Joined(s, u, v)
      /\ Tree!PlaceOf(s, b) = Len(u) + 1 /\ Ahead(v, b)
  BY <1>3 DEF Cuts
<1>5. Len(u) \in Nat /\ Len(v) \in Nat /\ Len(s) = Len(u) + Len(v)
  <2>1. Len(u \o v) = Len(u) + Len(v)
    BY <1>4, ConcatProperties
  <2> QED BY <1>4, <2>1, LenProperties DEF Joined
<1>6. CASE v = <<>>
  <2>1. Len(v) = 0 /\ b = NoEntry
    BY <1>4, <1>6 DEF Ahead
  <2>2. Len(u) + 1 \in 1..(Len(s) + 1) /\ Len(u) + 1 > Len(s)
    BY ONLY <1>5, <2>1
  <2> QED BY <1>4, <2>1, <2>2 DEF PartTo
<1>7. CASE v # <<>>
  <2>1. Len(v) # 0 /\ b = v[1]
    BY <1>4, <1>7, EmptySeq DEF Ahead
  <2>2. Len(u) + 1 \in 1..(Len(s) + 1) /\ ~(Len(u) + 1 > Len(s))
    BY ONLY <1>5, <2>1
  <2>3. s[Len(u) + 1] = v[1]
    <3>1. \A k \in 1..(Len(u) + Len(v)) : (u \o v)[k] = IF k <= Len(u) THEN u[k] ELSE v[k - Len(u)]
      BY <1>4, ConcatProperties
    <3>2. Len(u) + 1 \in 1..(Len(u) + Len(v)) /\ ~(Len(u) + 1 <= Len(u)) /\ (Len(u) + 1) - Len(u) = 1
      BY ONLY <1>5, <2>1
    <3> QED BY <1>4, <3>1, <3>2 DEF Joined
  <2> QED BY <1>4, <2>1, <2>2, <2>3 DEF PartTo
<1> QED BY <1>6, <1>7

\* A section among the wrapped parts of p.
LEMMA InWrappedMoves ==
    ASSUME NEW d, NEW e, NEW p, Movable(d, e, p), e \in Cats,
           NEW k, NEW q, PartTo(Wrapped(d, p)[p].parts, k, q), NEW b, b # e, HeadOf(q, b)
    PROVE  Moved(d, e, p, b, PutInParts(Wrapped(d, p), e, p, k))
<1>1. PICK m : m = Wrapped(d, p)
  OBVIOUS
<1>2. /\ Movable(m, e, p) /\ Outline(m) = Outline(d) /\ m[p].list = <<>>
      /\ m = d \/ \A c \in Cats : c \notin ToSet(m[p].parts)
  BY <1>1, WrappedIs
<1>3. PartTo(m[p].parts, k, q)
  BY <1>1
<1>4. \/ /\ AlreadyAt(m[p].parts, e, q)
         /\ PutInParts(m, e, p, k) = m
         /\ Tree!Placing(Outline(m), e, p, b) = Outline(m)
      \/ Arrived(Tree!Placing(Outline(m), e, p, b), PutInParts(m, e, p, k))
  BY <1>2, <1>3, InPartsMoves
<1>5. AlreadyAt(m[p].parts, e, q) => m = d
  <2>1. AlreadyAt(m[p].parts, e, q) => Contains(m[p].parts, e)
    BY DEF AlreadyAt
  <2>2. m[p].parts \in Seq(Parts)
    BY <1>2, MovableIs
  <2> QED BY <1>2, <2>1, <2>2, ContainsIs
<1> QED BY <1>1, <1>2, <1>4, <1>5 DEF Moved

\* A section in front of a position that is not the first one of its bucket.
LEMMA InSplitMoves ==
    ASSUME NEW d, NEW e, NEW p, Movable(d, e, p), e \in Cats, d[p].list = <<>>,
           NEW k, NEW a, NEW s, NEW c, At(d[p].parts, k, a, s, c), s \notin Cats,
           NEW b \in Items, b \in ToSet(s), s[1] # b
    PROVE  Arrived(Tree!Placing(Outline(d), e, p, b), PutInParts(SplitBucket(d, p, k, b), e, p, k + 1))
<1>1. s \in Seq(Items) /\ a \in Seq(Parts) /\ c \in Seq(Parts)
  BY PartsAre DEF At
<1>2. NoEntry \notin Items /\ NoEntry \notin Parts /\ Cats \cap Items = {}
  BY HierarchyAssumption DEF Parts
<1>3. \E x, y : Cuts(Items, s, b, x, y)
  BY <1>1, <1>2, AskedCuts
<1>4. PICK x, y : Cuts(Items, s, b, x, y)
  BY ONLY <1>3
<1>5. x \in Seq(Items) /\ y \in Seq(Items) /\ Joined(s, x, y) /\ y # <<>> /\ y[1] = b
  BY <1>2, <1>4 DEF Cuts, Ahead
<1>6. x # <<>>
  <2>1. CASE x = <<>>
    <3>1. PICK nil : nil = <<>>
      OBVIOUS
    <3>2. nil \o y = y
      BY <1>5, <3>1, ConcatEmptySeq
    <3>3. s = y
      BY <1>5, <2>1, <3>1, <3>2 DEF Joined
    <3> QED BY <1>5, <3>3
  <2> QED BY <2>1
<1>7. PICK m : m = SplitBucket(d, p, k, b)
  OBVIOUS
<1>8. /\ Movable(m, e, p) /\ Outline(m) = Outline(d) /\ m[p].list = <<>>
      /\ PartTo(m[p].parts, k + 1, y)
      /\ Joined(Outline(d)[p], Cat(Shown(a), x), Cat(y, Shown(c)))
  <2>1. Movable(d, e, p) /\ Splits(d, p, k, b, a, c, x, y)
    BY <1>4 DEF Splits
  <2>2. /\ Movable(SplitBucket(d, p, k, b), e, p) /\ Outline(SplitBucket(d, p, k, b)) = Outline(d)
        /\ SplitBucket(d, p, k, b)[p].list = <<>>
        /\ PartTo(SplitBucket(d, p, k, b)[p].parts, k + 1, y)
        /\ Joined(Outline(d)[p], Cat(Shown(a), x), Cat(y, Shown(c)))
    BY ONLY <2>1, SplitBucketIs
  <2> QED BY <1>7, <2>2
<1>9. HeadOf(y, b)
  <2>1. y \in Parts /\ Piece(y) = y
    BY <1>5, PartsAre DEF Piece, IsBucket
  <2> QED BY <1>2, <1>5, <2>1 DEF HeadOf
<1>10. b # e
  BY <1>2
<1>11. \/ \E X, Y : Holds(Entries, Outline(m)[p], e, b, X, Y)
       \/ Arrived(Tree!Placing(Outline(m), e, p, b), PutInParts(m, e, p, k + 1))
  BY <1>8, <1>9, <1>10, InPartsMoves
<1>12. ASSUME NEW X, NEW Y, Holds(Entries, Outline(m)[p], e, b, X, Y) PROVE FALSE
  <2>1. PICK one, t : one = <<e>> /\ t = Outline(d)[p]
    OBVIOUS
  <2>2. X \in Seq(Entries) /\ Y \in Seq(Entries) /\ Ahead(Y, b) /\ t = (X \o one) \o Y
    <3>1. t = (X \o <<e>>) \o Y
      BY <1>8, <1>12, <2>1, Zenon DEF Holds
    <3> QED BY <1>12, <2>1, <3>1 DEF Holds
  <2>3. one \in Seq(Entries) /\ Len(one) = 1 /\ one[1] = e /\ one # <<>>
    BY <2>1, OneElement DEF Entries
  <2>4. t \in Seq(Entries) /\ Distinct(t)
    BY <2>1, MovableIs
  <2>5. Y # <<>> /\ Y[1] = b
    BY <1>2, <2>2 DEF Ahead
  <2>6. PICK L : L = X \o one
    OBVIOUS
  <2>7. L \in Seq(Entries) /\ L # <<>> /\ L[Len(L)] = e
    <3>1. X \in Seq(Entries) /\ one \in Seq(Entries)
      BY <2>2, <2>3
    <3>2. /\ X \o one \in Seq(Entries) /\ Len(X \o one) = Len(X) + Len(one)
          /\ \A j \in 1..(Len(X) + Len(one)) :
                (X \o one)[j] = IF j <= Len(X) THEN X[j] ELSE one[j - Len(X)]
      BY ONLY <3>1, ConcatProperties
    <3>3. Len(X) \in Nat
      BY <2>2, LenProperties
    <3>4. PICK n : n = Len(X) + 1
      OBVIOUS
    <3>5. n \in 1..(Len(X) + Len(one)) /\ ~(n <= Len(X)) /\ n - Len(X) = 1 /\ Len(X) + Len(one) = n
      BY <2>3, <3>3, <3>4
    <3>6. L[n] = e /\ Len(L) = n /\ n # 0
      BY <2>3, <2>6, <3>2, <3>3, <3>4, <3>5
    <3> QED BY <2>6, <3>2, <3>6
  <2>8. Joined(t, L, Y)
    BY <2>2, <2>6 DEF Joined
  <2>9. PICK U, V : U = Cat(Shown(a), x) /\ V = Cat(y, Shown(c))
    OBVIOUS
  <2>10. x \in Seq(Entries) /\ y \in Seq(Entries) /\ Shown(a) \in Seq(Entries) /\ Shown(c) \in Seq(Entries)
    BY <1>1, <1>5, PartsAre, ShownInSeq
  <2>11. U \in Seq(Entries) /\ V \in Seq(Entries) /\ Joined(t, U, V)
    BY <1>8, <2>1, <2>9, <2>10, CatInSeq
  <2>12. V # <<>> /\ V[1] = b
    BY <1>5, <2>9, <2>10, FirstOfJoined DEF Cat
  <2>13. U # <<>> /\ U[Len(U)] \in Items
    <3>1. PICK f : f = Shown(a)
      OBVIOUS
    <3>2. f \in Seq(Entries)
      BY <2>10, <3>1
    <3>3. /\ Len(f \o x) = Len(f) + Len(x)
          /\ \A j \in 1..(Len(f) + Len(x)) :
                (f \o x)[j] = IF j <= Len(f) THEN f[j] ELSE x[j - Len(f)]
      BY <2>10, <3>2, ConcatProperties
    <3>4. Len(f) \in Nat /\ Len(x) \in Nat /\ Len(x) # 0
      BY <1>5, <1>6, <3>2, EmptySeq, LenProperties
    <3>5. PICK n : n = Len(f) + Len(x)
      OBVIOUS
    <3>6. n \in 1..(Len(f) + Len(x)) /\ ~(n <= Len(f)) /\ n - Len(f) = Len(x) /\ n # 0
          /\ Len(x) \in 1..Len(x)
      BY ONLY <3>4, <3>5
    <3>7. (f \o x)[n] = x[Len(x)] /\ Len(f \o x) = n
      BY <3>3, <3>5, <3>6
    <3>8. U = f \o x
      BY <2>9, <3>1 DEF Cat
    <3>9. x[Len(x)] \in Items
      BY <1>5, <3>6, LenProperties
    <3> QED BY <3>6, <3>7, <3>8, <3>9
  <2>14. L[Len(L)] = U[Len(U)]
    <3>1. /\ t \in Seq(Entries) /\ Distinct(t) /\ L \in Seq(Entries) /\ Y \in Seq(Entries)
          /\ U \in Seq(Entries) /\ V \in Seq(Entries) /\ Joined(t, L, Y) /\ Joined(t, U, V)
          /\ L # <<>> /\ Y # <<>> /\ U # <<>> /\ V # <<>> /\ Y[1] = V[1]
      BY <2>2, <2>4, <2>5, <2>7, <2>8, <2>11, <2>12, <2>13
    <3> QED BY ONLY <3>1, OneBefore
  <2> QED BY <1>2, <2>7, <2>13, <2>14
<1> QED BY <1>7, <1>8, <1>11, <1>12

LEMMA MoveCategoryLands ==
    ASSUME NEW d, NEW e, NEW p, Movable(d, e, p), e \in Cats,
           NEW b, b # e, b = NoEntry \/ b \in ToSet(Outline(d)[p])
    PROVE  Moved(d, e, p, b, MoveCategory(d, e, p, b))
<1>1. PICK m, s : m = Wrapped(d, p) /\ s = m[p].parts
  OBVIOUS
<1>2. /\ Movable(m, e, p) /\ Outline(m) = Outline(d) /\ m[p].list = <<>>
      /\ m = d \/ \A c \in Cats : c \notin ToSet(m[p].parts)
  BY <1>1, WrappedIs
<1>3. m \in Documents /\ p \in Containers /\ s \in Seq(Parts) /\ Outline(d)[p] = Shown(s)
  BY <1>1, <1>2, MovableIs
<1>4. NoEntry \notin Parts /\ NoEntry \notin Entries /\ Cats \cap Items = {}
  BY HierarchyAssumption, NoRootEntry DEF Parts
<1>5. PICK k : k = BucketOf(m, p, b)
  OBVIOUS
<1>6. /\ b \notin Items => MoveCategory(d, e, p, b) = PutInParts(m, e, p, Tree!PlaceOf(s, b))
      /\ b \in Items /\ k # 0 /\ s[k][1] = b => MoveCategory(d, e, p, b) = PutInParts(m, e, p, k)
      /\ b \in Items /\ k # 0 /\ s[k][1] # b =>
            MoveCategory(d, e, p, b) = PutInParts(SplitBucket(m, p, k, b), e, p, k + 1)
  <2>1. k = BucketOf(Wrapped(d, p), p, b)
    BY <1>1, <1>5
  <2> QED BY <1>1, <2>1, MoveCategoryIs
<1>7. CASE b \notin Items
  <2>1. b = NoEntry \/ b \in Cats
    <3>1. b \in ToSet(Outline(d)[p]) => b \in Entries
      BY <1>3, ShownInSeq, ToSetIs, LenProperties
    <3> QED BY <1>7, <3>1 DEF Entries
  <2>2. b = NoEntry \/ b \in ToSet(s)
    BY <1>3, <2>1, SectionsShown
  <2>3. PartTo(s, Tree!PlaceOf(s, b), b)
    BY <1>3, <2>2, PlaceIsPartTo
  <2>4. HeadOf(b, b)
    <3>1. CASE b = NoEntry
      BY <3>1 DEF HeadOf
    <3>2. CASE b \in Cats
      <4>1. b \in Parts /\ Piece(b) = <<b>> /\ <<b>> # <<>> /\ <<b>>[1] = b
        BY <3>2, PartsAre DEF Piece, IsBucket
      <4> QED BY <1>4, <4>1 DEF HeadOf
    <3> QED BY <2>1, <3>1, <3>2
  <2>5. PICK j : j = Tree!PlaceOf(s, b)
    OBVIOUS
  <2>6. PartTo(Wrapped(d, p)[p].parts, j, b)
    BY <1>1, <2>3, <2>5
  <2>7. Moved(d, e, p, b, PutInParts(Wrapped(d, p), e, p, j))
    BY <2>4, <2>6, InWrappedMoves
  <2> QED BY <1>1, <1>6, <1>7, <2>5, <2>7
<1>8. CASE b \in Items
  <2>1. \E j \in 1..Len(s) : s[j] \notin Cats /\ b \in ToSet(s[j])
    <3>1. b # NoEntry
      BY <1>4, <1>8 DEF Entries
    <3> QED BY <1>3, <1>8, <3>1, SectionsShown
  <2>2. k # 0 /\ k \in 1..Len(s) /\ s[k] \notin Cats /\ b \in ToSet(s[k])
    <3>1. Len(s) \in Nat
      BY <1>3, LenProperties
    <3>2. \/ k = 0 /\ \A j \in 1..Len(s) : s[j] \in Cats \/ b \notin ToSet(s[j])
          \/ k \in 1..Len(s) /\ s[k] \notin Cats /\ b \in ToSet(s[k])
      BY <1>1, <1>3, <1>5, BucketOfIs
    <3> QED BY <2>1, <3>1, <3>2
  <2>3. s[k] \in Seq(Items) /\ s[k] \in Parts
    BY <1>3, <2>2, PartsAre, LenProperties
  <2>4. CASE s[k][1] = b
    <3>1. PartTo(s, k, s[k])
      <4>1. Len(s) \in Nat
        BY <1>3, LenProperties
      <4> QED BY <2>2, <4>1 DEF PartTo
    <3>2. HeadOf(s[k], b)
      <4>1. Piece(s[k]) = s[k]
        BY <2>2 DEF Piece, IsBucket
      <4>2. s[k] # <<>>
        BY <2>2, <2>3, ToSetIs
      <4> QED BY <1>4, <2>3, <2>4, <4>1, <4>2 DEF HeadOf
    <3>3. PartTo(Wrapped(d, p)[p].parts, k, s[k])
      BY <1>1, <3>1
    <3>4. Moved(d, e, p, b, PutInParts(Wrapped(d, p), e, p, k))
      BY <3>2, <3>3, InWrappedMoves
    <3> QED BY <1>1, <1>6, <1>8, <2>2, <2>4, <3>4
  <2>5. CASE s[k][1] # b
    <3>1. \E a, c : At(s, k, a, s[k], c)
      BY <1>3, <2>2, PartAt
    <3>2. PICK a, c : At(s, k, a, s[k], c)
      BY ONLY <3>1
    <3>3. At(m[p].parts, k, a, s[k], c)
      BY <1>1, <3>2
    <3>4. Arrived(Tree!Placing(Outline(m), e, p, b), PutInParts(SplitBucket(m, p, k, b), e, p, k + 1))
      BY <1>2, <1>8, <2>2, <2>5, <3>3, InSplitMoves
    <3> QED BY <1>2, <1>6, <1>8, <2>2, <2>5, <3>4 DEF Moved
  <2> QED BY <2>4, <2>5
<1> QED BY <1>7, <1>8

\* Asked to precede itself, an entry stays.
LEMMA MoveToItselfStays ==
    ASSUME NEW d, NEW e, NEW p, Movable(d, e, p), e \in ToSet(Outline(d)[p])
    PROVE  /\ e \in Items => MoveItem(d, e, p, e) = d
           /\ e \in Cats => MoveCategory(d, e, p, e) = d
<1>1. PICK s, l : s = d[p].parts /\ l = d[p].list
  OBVIOUS
<1>2. /\ d \in Documents /\ p \in Containers /\ s \in Seq(Parts) /\ l \in Seq(Items)
      /\ (l = <<>> \/ s = <<>>)
      /\ (s = <<>> => Outline(d)[p] = l) /\ (l = <<>> => Outline(d)[p] = Shown(s))
  BY <1>1, MovableIs
<1>3. NoEntry \notin Entries /\ Cats \cap Items = {}
  BY NoRootEntry
<1>4. \A w : AlreadyAt(w, e, e) <=> Contains(w, e)
  BY Zenon DEF AlreadyAt
<1>5. ASSUME e \in Items, s = <<>> PROVE MoveItem(d, e, p, e) = d
  <2>1. MoveItem(d, e, p, e) = PutInList(d, e, p, e)
    BY <1>1, <1>5, Zenon DEF MoveItem
  <2>2. Contains(l, e)
    BY <1>2, <1>5, ContainsIs
  <2> QED BY <1>1, <1>4, <2>1, <2>2, Zenon DEF PutInList
<1>6. ASSUME e \in Items, s # <<>> PROVE MoveItem(d, e, p, e) = d
  <2>1. PICK k : k = BucketOf(d, p, e)
    OBVIOUS
  <2>2. \E j \in 1..Len(s) : s[j] \notin Cats /\ e \in ToSet(s[j])
    BY <1>2, <1>6, SectionsShown
  <2>3. k # 0 /\ k \in 1..Len(s) /\ s[k] \notin Cats /\ e \in ToSet(s[k])
    <3>1. Len(s) \in Nat
      BY <1>2, LenProperties
    <3>2. \/ k = 0 /\ \A j \in 1..Len(s) : s[j] \in Cats \/ e \notin ToSet(s[j])
          \/ k \in 1..Len(s) /\ s[k] \notin Cats /\ e \in ToSet(s[k])
      BY <1>1, <1>2, <2>1, BucketOfIs
    <3> QED BY <2>2, <3>1, <3>2
  <2>4. MoveItem(d, e, p, e) = PutInBucket(d, e, p, k, e)
    BY <1>1, <1>3, <1>6, <2>1, <2>3 DEF MoveItem
  <2>5. Contains(s[k], e)
    <3>1. s[k] \in Parts
      BY <1>2, <2>3, LenProperties
    <3>2. s[k] \in Seq(Items)
      BY <2>3, <3>1, PartsAre
    <3> QED BY <2>3, <3>2, ContainsIs
  <2>6. AlreadyAt(d[p].parts[k], e, e)
    BY <1>1, <1>4, <2>5
  <2> QED BY <2>4, <2>6, Zenon DEF PutInBucket
<1>7. ASSUME e \in Cats PROVE MoveCategory(d, e, p, e) = d
  <2>1. l = <<>> /\ e \in ToSet(s)
    <3>1. s # <<>>
      <4>1. ASSUME s = <<>> PROVE FALSE
        <5>1. e \in ToSet(l)
          BY <1>2, <4>1
        <5>2. e \in Items
          BY <1>2, <5>1, ToSetIs, LenProperties
        <5> QED BY <1>3, <1>7, <5>2
      <4> QED BY <4>1
    <3>2. l = <<>> /\ Outline(d)[p] = Shown(s)
      BY <1>2, <3>1
    <3> QED BY <1>2, <1>7, <3>2, SectionsShown
  <2>2. Wrapped(d, p) = d
    BY <1>1, <2>1 DEF Wrapped
  <2>3. PICK k : k = Tree!PlaceOf(s, e)
    OBVIOUS
  <2>4. MoveCategory(d, e, p, e) = PutInParts(d, e, p, k)
    BY <1>1, <1>3, <1>7, <2>2, <2>3, MoveCategoryIs
  <2>5. PartTo(s, k, e)
    BY <1>2, <2>1, <2>3, PlaceIsPartTo
  <2>6. e = IF k > Len(s) THEN NoEntry ELSE s[k]
    BY <2>5 DEF PartTo
  <2>7. AlreadyAt(s, e, e)
    BY <1>2, <1>4, <2>1, ContainsIs
  <2> QED BY <1>1, <2>4, <2>6, <2>7, Zenon DEF PutInParts
<1> QED BY <1>5, <1>6, <1>7

LEMMA MoveLands ==
    ASSUME NEW d, NEW e, NEW p, Movable(d, e, p),
           NEW b, b = NoEntry \/ b \in ToSet(Outline(d)[p])
    PROVE  /\ b # e => Moved(d, e, p, b, MoveEntry(d, e, p, b))
           /\ b = e => MoveEntry(d, e, p, b) = d
<1>1. p \notin Items /\ ~Within(d, e, p)
  BY GroupsIs, NoRootEntry DEF Movable, Entries
<1>2. e \in Cats \/ e \in Items
  BY DEF Movable, Entries
<1>3. NoEntry \notin Entries /\ e \in Entries /\ Cats \cap Items = {}
  BY NoRootEntry DEF Movable
<1>4. MoveEntry(d, e, p, b) = IF e \in Items THEN MoveItem(d, e, p, b) ELSE MoveCategory(d, e, p, b)
  BY <1>1, Zenon DEF MoveEntry
<1>5. ASSUME b # e PROVE Moved(d, e, p, b, MoveEntry(d, e, p, b))
  BY <1>2, <1>4, <1>5, MoveItemLands, MoveCategoryLands
<1>6. ASSUME b = e PROVE MoveEntry(d, e, p, b) = d
  BY <1>2, <1>3, <1>4, <1>6, MoveToItselfStays
<1> QED BY <1>5, <1>6

-----------------------------------------------------------------------------
(* Where the interface lets an entry go                                    *)

LEMMA ChildrenAre ==
    ASSUME NEW d \in Documents, NEW c \in Containers
    PROVE  OutlineChildren(d, c) = Outline(d)[c] /\ Outline(d)[c] \in Seq(Entries)
<1>1. OutlineChildren(d, c) = Outline(d)[c]
  BY Zenon DEF Outline
<1> QED BY <1>1, OutlineAt

LEMMA ParentOfPresent ==
    ASSUME NEW d, Proper(d), NEW e \in Present(d)
    PROVE  /\ OutlineParent(d, e) \in Containers
           /\ e \in Entries
           /\ Movable(d, e, OutlineParent(d, e))
           /\ e \in ToSet(Outline(d)[OutlineParent(d, e)])
<1>1. PICK t : t = Outline(d)
  OBVIOUS
<1>2. IsOutline(t) /\ t \in Outlines /\ e \in Tree!Placed(t)
  BY <1>1 DEF Proper, IsOutline, Present
<1>3. PICK p : p = Tree!ParentIn(t, e)
  OBVIOUS
<1>4. p \in Tree!Groups(t) /\ e \in ToSet(t[p])
  BY <1>2, <1>3, ParentStands
<1>5. ~Tree!InsideOf(t, e, p)
  BY <1>2, <1>3, NotInsideItself
<1>6. e \in Entries /\ p \in Containers
  BY <1>2, <1>4, PlacedAreEntries, GroupsIs DEF Containers
<1>7. OutlineParent(d, e) = p
  BY <1>1, <1>3 DEF OutlineParent
<1>8. Movable(d, e, p)
  BY <1>1, <1>4, <1>5, <1>6, Zenon DEF Movable, Within
<1> QED BY <1>1, <1>4, <1>6, <1>7, <1>8

\* The next entry stands beside it.
LEMMA NextIsPeer ==
    ASSUME NEW d, Proper(d), NEW x \in Present(d)
    PROVE  NextOf(d, x) = NoEntry \/ NextOf(d, x) \in ToSet(Outline(d)[OutlineParent(d, x)])
<1>1. PICK p : p = OutlineParent(d, x)
  OBVIOUS
<1>2. PICK s : s = Outline(d)[p]
  OBVIOUS
<1>3. p \in Containers /\ d \in Documents
  BY <1>1, ParentOfPresent DEF Proper
<1>4. OutlineChildren(d, p) = s /\ s \in Seq(Entries)
  BY <1>2, <1>3, ChildrenAre
<1>5. PICK at : at = Tree!PlaceOf(s, x)
  OBVIOUS
<1>6. at \in 1..(Len(s) + 1) /\ Len(s) \in Nat
  BY <1>4, <1>5, PlaceInRange, LenProperties
<1>7. NextOf(d, x) = IF at < Len(s) THEN s[at + 1] ELSE NoEntry
  BY <1>1, <1>4, <1>5, Zenon DEF NextOf
<1>8. at < Len(s) => at + 1 \in 1..Len(s)
  BY <1>6
<1>9. at < Len(s) => s[at + 1] \in ToSet(s)
  BY <1>4, <1>8, ToSetIs
<1> QED BY <1>1, <1>2, <1>7, <1>9

\* A place that moveEntry can give: a standing container that is not inside the entry,
\* and one of its children, or its end.
Fit(d, e, p, b) == Movable(d, e, p) /\ (b = NoEntry \/ b \in ToSet(Outline(d)[p]))

LEMMA ReorderFits ==
    ASSUME NEW d, Proper(d), NEW e \in Present(d), NEW l \in ReorderTargets(d, e)
    PROVE  Fit(d, e, l[1], l[2])
<1>1. PICK p : p = OutlineParent(d, e)
  OBVIOUS
<1>2. PICK s : s = Outline(d)[p]
  OBVIOUS
<1>3. p \in Containers /\ d \in Documents /\ Movable(d, e, p)
  BY <1>1, ParentOfPresent DEF Proper
<1>4. OutlineChildren(d, p) = s /\ s \in Seq(Entries)
  BY <1>2, <1>3, ChildrenAre
<1>5. PICK at : at = Tree!PlaceOf(s, e)
  OBVIOUS
<1>6. at \in 1..(Len(s) + 1) /\ Len(s) \in Nat
  BY <1>4, <1>5, PlaceInRange, LenProperties
<1>7. ReorderTargets(d, e) =
          (IF at > 1 THEN {<<p, s[at - 1]>>} ELSE {})
          \cup (IF at = Len(s) THEN {} ELSE {<<p, IF at + 2 <= Len(s) THEN s[at + 2] ELSE NoEntry>>})
  BY <1>1, <1>4, <1>5, Zenon DEF ReorderTargets
<1>8. \/ at > 1 /\ l = <<p, s[at - 1]>>
      \/ l = <<p, IF at + 2 <= Len(s) THEN s[at + 2] ELSE NoEntry>>
  BY <1>7
<1>9. at > 1 => at - 1 \in 1..Len(s)
  BY <1>6
<1>10. at + 2 <= Len(s) => at + 2 \in 1..Len(s)
  BY <1>6
<1>11. l[1] = p /\ (l[2] = NoEntry \/ \E k \in 1..Len(s) : s[k] = l[2])
  BY <1>8, <1>9, <1>10
<1>12. l[2] = NoEntry \/ l[2] \in ToSet(s)
  BY <1>4, <1>11, ToSetIs
<1> QED BY <1>2, <1>3, <1>11, <1>12 DEF Fit

LEMMA IndentFits ==
    ASSUME NEW d, Proper(d), NEW e \in Present(d), NEW l \in IndentTargets(d, e)
    PROVE  l[1] \in Items \/ Fit(d, e, l[1], l[2])
<1>1. PICK p : p = OutlineParent(d, e)
  OBVIOUS
<1>2. PICK t, s : t = Outline(d) /\ s = t[p]
  OBVIOUS
<1>3. p \in Containers /\ d \in Documents /\ Movable(d, e, p) /\ e \in ToSet(s) /\ e \in Entries
  BY <1>1, <1>2, ParentOfPresent DEF Proper
<1>4. /\ OutlineChildren(d, p) = s /\ s \in Seq(Entries) /\ Distinct(s) /\ IsOutline(t)
      /\ t \in Outlines /\ Unique(t)
  BY <1>2, <1>3, ChildrenAre, MovableIs
<1>5. PICK others, peers : others = (IF e \in Cats THEN Items ELSE Cats) /\ peers = Tree!Omit(s, others)
  OBVIOUS
<1>6. peers \in Seq(Entries) /\ ToSet(peers) = ToSet(s) \ others /\ Distinct(peers)
  BY <1>4, <1>5, OmitInSeq, ToSetOmit, DistinctOmit
<1>7. PICK at : at = Tree!PlaceOf(peers, e)
  OBVIOUS
<1>8. IndentTargets(d, e) = IF at > 1 THEN {<<peers[at - 1], NoEntry>>} ELSE {}
  BY <1>1, <1>4, <1>5, <1>7, Zenon DEF IndentTargets
<1>9. at > 1 /\ l[1] = peers[at - 1] /\ l[2] = NoEntry
  BY <1>8
<1>10. e \in ToSet(peers)
  BY <1>3, <1>5, <1>6, NoRootEntry DEF Entries
<1>11. \E k \in 1..Len(peers) : peers[k] = e
  BY <1>6, <1>10, ToSetIs
<1>12. PICK k \in 1..Len(peers) : peers[k] = e
  BY ONLY <1>11
<1>13. at = k
  BY <1>6, <1>7, <1>12, PlaceOfElement
<1>14. at - 1 \in 1..Len(peers) /\ at - 1 # at /\ at \in 1..Len(peers)
  <2>1. Len(peers) \in Nat
    BY <1>6, LenProperties
  <2> QED BY <1>9, <1>12, <1>13, <2>1
<1>15. PICK q : q = peers[at - 1]
  OBVIOUS
<1>16. q \in ToSet(peers) /\ q # e
  BY <1>6, <1>12, <1>13, <1>14, <1>15, ToSetIs DEF Distinct
<1>17. q \in ToSet(s) /\ q \notin others
  BY <1>6, <1>16
<1>18. q \in Entries
  BY <1>4, <1>17, ToSetIs, LenProperties
<1>19. CASE e \in Cats
  <2>1. q \in Cats
    BY <1>5, <1>17, <1>18, <1>19 DEF Entries
  <2>2. q \in Tree!Placed(t) /\ q \in Tree!Groups(t)
    BY <1>2, <1>3, <1>17, <2>1, PlacedIs, GroupsIs
  <2>3. Tree!ParentIn(t, q) = p
    BY <1>2, <1>3, <1>4, <1>17, ParentIs
  <2>4. ~Tree!InsideOf(t, e, p)
    BY <1>2, <1>3, Zenon DEF Movable, Within
  <2>5. ~Tree!InsideOf(t, e, q)
    <3>1. Tree!InsideOf(t, e, q) <=> q = e \/ (q \in Tree!Placed(t) /\ Tree!InsideOf(t, e, Tree!ParentIn(t, q)))
      BY <1>3, <1>4, <1>18, InsideIs
    <3> QED BY <1>16, <2>3, <2>4, <3>1
  <2>6. Movable(d, e, q)
    BY <1>2, <1>3, <2>2, <2>5, Zenon DEF Movable, Within
  <2> QED BY <1>9, <1>15, <2>6 DEF Fit
<1>20. CASE e \notin Cats
  BY <1>5, <1>9, <1>15, <1>17, <1>18, <1>20 DEF Entries
<1> QED BY <1>19, <1>20

LEMMA OutdentFits ==
    ASSUME NEW d, Proper(d), NEW e \in Present(d), NEW l \in OutdentTargets(d, e)
    PROVE  Fit(d, e, l[1], l[2])
<1>1. PICK o : o = OutlineParent(d, e)
  OBVIOUS
<1>2. PICK t : t = Outline(d)
  OBVIOUS
<1>3. o \in Containers /\ d \in Documents /\ Movable(d, e, o) /\ e \in Entries
  BY <1>1, ParentOfPresent DEF Proper
<1>4. OutdentTargets(d, e) = IF o = Root THEN {} ELSE {<<OutlineParent(d, o), NextOf(d, o)>>}
  BY <1>1, Zenon DEF OutdentTargets
<1>5. o # Root /\ l[1] = OutlineParent(d, o) /\ l[2] = NextOf(d, o)
  BY <1>4
<1>6. /\ IsOutline(t) /\ t \in Outlines
      /\ o \in Tree!Groups(t) /\ ~Tree!InsideOf(t, e, o)
  <2>1. IsOutline(t) /\ t \in Outlines
    BY <1>2, <1>3, MovableIs
  <2>2. o \in Tree!Groups(t) /\ ~Tree!InsideOf(t, e, o)
    BY <1>2, <1>3, Zenon DEF Movable, Within
  <2> QED BY <2>1, <2>2
<1>7. o \in Tree!Placed(t) /\ o \in Present(d) /\ o \in Entries
  BY <1>2, <1>5, <1>6, GroupsIs, PlacedAreEntries DEF Present
<1>8. PICK q : q = OutlineParent(d, o)
  OBVIOUS
<1>9. q = Tree!ParentIn(t, o)
  BY <1>2, <1>8 DEF OutlineParent
<1>10. q \in Tree!Groups(t)
  BY <1>6, <1>7, <1>9, ParentStands
<1>11. ~Tree!InsideOf(t, e, q)
  <2>1. Tree!InsideOf(t, e, o) <=> o = e \/ (o \in Tree!Placed(t) /\ Tree!InsideOf(t, e, Tree!ParentIn(t, o)))
    BY <1>3, <1>6, <1>7, InsideIs
  <2> QED BY <1>6, <1>7, <1>9, <2>1
<1>12. Movable(d, e, q)
  BY <1>2, <1>3, <1>10, <1>11, Zenon DEF Movable, Within
<1>13. NextOf(d, o) = NoEntry \/ NextOf(d, o) \in ToSet(Outline(d)[OutlineParent(d, o)])
  BY <1>7, NextIsPeer
<1> QED BY <1>5, <1>8, <1>12, <1>13 DEF Fit

LEMMA DropFits ==
    ASSUME NEW d, Proper(d), NEW e \in Present(d), NEW l \in DropTargets(d, e)
    PROVE  Fit(d, e, l[1], l[2])
<1>1. PICK t : t = Outline(d)
  OBVIOUS
<1>2. IsOutline(t) /\ t \in Outlines /\ e \in Entries
  BY <1>1, ParentOfPresent DEF Proper, IsOutline
<1>3. PICK onto, around :
          /\ onto = {<<p, NoEntry>> : p \in Present(d) \cap Cats}
          /\ around = UNION {{<<OutlineParent(d, x), x>>, <<OutlineParent(d, x), NextOf(d, x)>>} :
                                x \in Present(d) \ {e}}
  OBVIOUS
<1>4. DropTargets(d, e) = {<<Root, NoEntry>>} \cup {j \in onto \cup around : ~Within(d, e, j[1])}
  BY <1>3, Zenon DEF DropTargets
<1>5. \/ l = <<Root, NoEntry>>
      \/ l \in onto /\ ~Within(d, e, l[1])
      \/ l \in around /\ ~Within(d, e, l[1])
  BY <1>4
<1>6. CASE l = <<Root, NoEntry>>
  <2>1. Root \in Tree!Groups(t)
    BY GroupsIs
  <2>2. ~Tree!InsideOf(t, e, Root)
    <3>1. Tree!InsideOf(t, e, Root) <=>
              Root = e \/ (Root \in Tree!Placed(t) /\ Tree!InsideOf(t, e, Tree!ParentIn(t, Root)))
      BY <1>2, InsideIs
    <3> QED BY <1>2, <3>1, NoRootEntry, RootIsPlacedNowhere
  <2>3. Movable(d, e, Root)
    BY <1>1, <1>2, <2>1, <2>2, Zenon DEF Movable, Within
  <2>4. l[1] = Root /\ l[2] = NoEntry
    BY <1>6
  <2> QED BY <2>3, <2>4 DEF Fit
<1>7. CASE l \in onto /\ ~Within(d, e, l[1])
  <2>1. \E p \in Present(d) \cap Cats : l = <<p, NoEntry>>
    BY <1>3, <1>7
  <2>2. PICK p \in Present(d) \cap Cats : l = <<p, NoEntry>>
    BY ONLY <2>1
  <2>3. l[1] = p /\ l[2] = NoEntry /\ p \in Present(d) /\ p \in Cats
    BY <2>2
  <2>4. p \in Tree!Groups(t)
    BY <1>1, <2>3, GroupsIs DEF Present
  <2>5. ~Within(d, e, p)
    BY <1>7, <2>3
  <2>6. Movable(d, e, p)
    BY <1>1, <1>2, <2>4, <2>5, Zenon DEF Movable
  <2> QED BY <2>3, <2>6 DEF Fit
<1>8. CASE l \in around /\ ~Within(d, e, l[1])
  <2>1. \E x \in Present(d) : l = <<OutlineParent(d, x), x>> \/ l = <<OutlineParent(d, x), NextOf(d, x)>>
    BY <1>3, <1>8
  <2>2. PICK x \in Present(d) : l = <<OutlineParent(d, x), x>> \/ l = <<OutlineParent(d, x), NextOf(d, x)>>
    BY ONLY <2>1
  <2>3. PICK q, n : q = OutlineParent(d, x) /\ n = NextOf(d, x)
    OBVIOUS
  <2>4. l[1] = q /\ (l[2] = x \/ l[2] = n)
    BY <2>2, <2>3
  <2>5. x \in ToSet(Outline(d)[q]) /\ (n = NoEntry \/ n \in ToSet(Outline(d)[q]))
    BY <2>3, ParentOfPresent, NextIsPeer
  <2>6. q \in Tree!Groups(t)
    BY <2>3, <1>1, ParentOfPresent DEF Movable
  <2>7. ~Within(d, e, q)
    BY <1>8, <2>4
  <2>8. Movable(d, e, q)
    BY <1>1, <1>2, <2>6, <2>7, Zenon DEF Movable
  <2> QED BY <2>4, <2>5, <2>8 DEF Fit
<1> QED BY <1>5, <1>6, <1>7, <1>8

LEMMA TargetsFit ==
    ASSUME NEW d, Proper(d), NEW e \in Present(d), NEW l \in Targets(d, e)
    PROVE  l[1] \in Items \/ Fit(d, e, l[1], l[2])
<1>1. \/ l \in ReorderTargets(d, e) \/ l \in IndentTargets(d, e)
      \/ l \in OutdentTargets(d, e) \/ l \in DropTargets(d, e)
  BY DEF Targets
<1> QED BY <1>1, ReorderFits, IndentFits, OutdentFits, DropFits

-----------------------------------------------------------------------------
(* Adding an entry                                                         *)

\* s is x, then e, then y.
Inserted(s, e, x, y) == s = (x \o <<e>>) \o y

LEMMA InsertedInSeq ==
    ASSUME NEW S, NEW e \in S, NEW x \in Seq(S), NEW y \in Seq(S), NEW s, Inserted(s, e, x, y)
    PROVE  s \in Seq(S) /\ ToSet(s) = (ToSet(x) \cup ToSet(y)) \cup {e}
<1>1. PICK one : one = <<e>>
  OBVIOUS
<1>2. one \in Seq(S) /\ ToSet(one) = {e}
  BY <1>1, OneElement, ToSetOne
<1>3. s = (x \o one) \o y
  BY <1>1, Zenon DEF Inserted
<1>4. PICK w : w = x \o one
  OBVIOUS
<1>5. w \in Seq(S) /\ ToSet(w) = ToSet(x) \cup ToSet(one)
  BY <1>2, <1>4, ConcatProperties, ToSetConcat
<1>6. w \o y \in Seq(S) /\ ToSet(w \o y) = ToSet(w) \cup ToSet(y)
  BY <1>5, ConcatProperties, ToSetConcat
<1> QED BY <1>2, <1>3, <1>4, <1>5, <1>6

\* e is nowhere in t, and the children of p are x and then y.
Awaits(t, e, p, x, y) ==
    /\ IsOutline(t)
    /\ e \in Entries \ Tree!Placed(t)
    /\ p \in Tree!Groups(t)
    /\ x \in Seq(Entries) /\ y \in Seq(Entries)
    /\ Joined(t[p], x, y)

LEMMA AwaitsIs ==
    ASSUME NEW t, NEW e, NEW p, NEW x, NEW y, Awaits(t, e, p, x, y)
    PROVE  /\ IsOutline(t) /\ t \in Outlines /\ Unique(t)
           /\ e \in Entries /\ e \notin Tree!Placed(t)
           /\ p \in Tree!Groups(t) /\ p \in Containers /\ ~Tree!InsideOf(t, e, p)
           /\ x \in Seq(Entries) /\ y \in Seq(Entries) /\ Joined(t[p], x, y)
           /\ \A c \in Containers : Rest(t[c], e) = t[c]
           /\ e \notin ToSet(x) /\ e \notin ToSet(y)
<1>1. /\ IsOutline(t) /\ t \in Outlines /\ Unique(t) /\ e \in Entries /\ e \notin Tree!Placed(t)
      /\ p \in Tree!Groups(t) /\ x \in Seq(Entries) /\ y \in Seq(Entries) /\ t[p] = x \o y
  BY DEF Awaits, Joined, IsOutline
<1>2. p \in Containers
  BY <1>1, GroupsIs DEF Containers
<1>3. ~Tree!InsideOf(t, e, p)
  BY <1>1, NothingInsideStrangers
<1>4. ASSUME NEW c \in Containers PROVE Tree!Omit(t[c], {e}) = t[c]
  <2>1. t[c] \in Seq(Entries)
    BY <1>1 DEF Outlines
  <2>2. ToSet(t[c]) \cap {e} = {}
    BY <1>1, PlacedIs
  <2>3. PICK X : X = {e}
    OBVIOUS
  <2>4. Tree!Omit(t[c], X) = t[c]
    BY <2>1, <2>2, <2>3, OmitNothing
  <2> QED BY <2>3, <2>4
<1>5. Joined(t[p], x, y) /\ \A c \in Containers : Rest(t[c], e) = t[c]
  BY <1>1, <1>4 DEF Joined, Rest
<1>6. e \notin ToSet(x) /\ e \notin ToSet(y)
  <2>1. e \notin ToSet(t[p])
    BY <1>1, <1>2, PlacedIs
  <2>2. ToSet(x \o y) = ToSet(x) \cup ToSet(y)
    BY <1>1, ToSetConcat
  <2> QED BY <1>1, <2>1, <2>2
<1> QED BY <1>1, <1>2, <1>3, <1>4, <1>5, <1>6

\* That is a place OutlineTree can give it.
LEMMA InsertedIsPlaced ==
    ASSUME NEW t, NEW e, NEW p, NEW x, NEW y, Awaits(t, e, p, x, y)
    PROVE  \E b \in Entries : Tree!Placing(t, e, p, b) = Between(t, e, p, x, y)
<1>1. /\ t \in Outlines /\ Unique(t) /\ e \in Entries /\ p \in Containers
      /\ x \in Seq(Entries) /\ y \in Seq(Entries) /\ t[p] = x \o y
      /\ Tree!Omit(t[p], {e}) = x \o y /\ e \notin ToSet(x) /\ e \notin ToSet(y)
  <2>1. /\ t \in Outlines /\ Unique(t) /\ e \in Entries /\ p \in Containers
        /\ x \in Seq(Entries) /\ y \in Seq(Entries) /\ Joined(t[p], x, y)
        /\ (\A c \in Containers : Rest(t[c], e) = t[c]) /\ e \notin ToSet(x) /\ e \notin ToSet(y)
    BY AwaitsIs
  <2>2. Rest(t[p], e) = t[p]
    BY <2>1
  <2> QED BY <2>1, <2>2 DEF Joined, Rest
<1>2. CASE y = <<>>
  <2>1. ToSet(x \o y) = ToSet(x) \cup ToSet(y) /\ x \o y \in Seq(Entries)
    BY <1>1, ToSetConcat, ConcatProperties
  <2>2. Tree!PlaceOf(x \o y, e) = Len(x \o y) + 1
    BY <1>1, <2>1, PlaceOfStranger
  <2>3. Len(x \o y) = Len(x)
    <3>1. PICK nil : nil = <<>>
      OBVIOUS
    <3>2. x \o nil = x
      BY <1>1, <3>1, ConcatEmptySeq
    <3> QED BY <1>2, <3>1, <3>2
  <2>4. Gap(t, e, p, e, x, y)
    BY <1>1, <2>2, <2>3 DEF Gap
  <2>5. Tree!Placing(t, e, p, e) = Between(t, e, p, x, y)
    BY <1>1, <2>4, PlacingGap
  <2> QED BY <1>1, <2>5
<1>3. CASE y # <<>>
  <2>1. PICK b : b = y[1]
    OBVIOUS
  <2>2. Ahead(y, b)
    BY <1>3, <2>1 DEF Ahead
  <2>3. Distinct(x \o y)
    BY <1>1 DEF Unique
  <2>4. Tree!PlaceOf(x \o y, b) = Len(x) + 1
    BY <1>1, <2>2, <2>3, PlaceBetween, NoRootEntry
  <2>5. Gap(t, e, p, b, x, y)
    BY <1>1, <2>4 DEF Gap
  <2>6. Tree!Placing(t, e, p, b) = Between(t, e, p, x, y)
    BY <1>1, <2>5, PlacingGap
  <2>7. b \in Entries
    <3>1. Len(y) \in Nat /\ Len(y) # 0
      BY <1>1, <1>3, EmptySeq, LenProperties
    <3>2. 1 \in 1..Len(y)
      BY <3>1
    <3> QED BY <1>1, <2>1, <3>2, LenProperties
  <2> QED BY <2>6, <2>7
<1> QED BY <1>2, <1>3

LEMMA AddedDocument ==
    ASSUME NEW d, Proper(d), NEW e, NEW p, NEW x, NEW y, Awaits(Outline(d), e, p, x, y),
           NEW list \in Seq(Items), NEW parts \in Seq(Parts), OneKind(list, parts),
           Inserted(list \o Shown(parts), e, x, y)
    PROVE  /\ Proper(Refilled(d, p, list, parts))
           /\ Outline(Refilled(d, p, list, parts)) = Between(Outline(d), e, p, x, y)
<1>1. PICK t : t = Outline(d)
  OBVIOUS
<1>2. Awaits(t, e, p, x, y)
  BY <1>1
<1>3. /\ IsOutline(t) /\ t \in Outlines /\ e \in Entries /\ p \in Tree!Groups(t) /\ p \in Containers
      /\ ~Tree!InsideOf(t, e, p) /\ x \in Seq(Entries) /\ y \in Seq(Entries)
      /\ \A c \in Containers : Tree!Omit(t[c], {e}) = t[c]
      /\ Tree!Omit(t[p], {e}) = x \o y
  <2>1. /\ IsOutline(t) /\ t \in Outlines /\ e \in Entries /\ p \in Tree!Groups(t) /\ p \in Containers
        /\ ~Tree!InsideOf(t, e, p) /\ x \in Seq(Entries) /\ y \in Seq(Entries)
        /\ Joined(t[p], x, y) /\ (\A c \in Containers : Rest(t[c], e) = t[c])
    BY <1>2, AwaitsIs
  <2>2. \A c \in Containers : Tree!Omit(t[c], {e}) = t[c]
    BY <2>1 DEF Rest
  <2> QED BY <2>1, <2>2 DEF Joined
<1>4. PICK s : s = Refilled(d, p, list, parts)
  OBVIOUS
<1>5. PICK w : w = list \o Shown(parts)
  OBVIOUS
<1>6. s \in Documents /\ Exclusive(s) /\ Outline(s) = [t EXCEPT ![p] = w]
  <2>1. /\ d \in Documents /\ Exclusive(d) /\ p \in Containers
        /\ list \in Seq(Items) /\ parts \in Seq(Parts) /\ OneKind(list, parts)
    BY <1>3 DEF Proper
  <2>2. /\ Refilled(d, p, list, parts) \in Documents /\ Exclusive(Refilled(d, p, list, parts))
        /\ Outline(Refilled(d, p, list, parts)) = [Outline(d) EXCEPT ![p] = list \o Shown(parts)]
    BY ONLY <2>1, RefilledIs
  <2> QED BY <1>1, <1>4, <1>5, <2>2
<1>7. w = (x \o <<e>>) \o y
  BY <1>5, Zenon DEF Inserted
<1>8. Between(t, e, p, x, y) = [c \in Containers |-> IF c = p THEN w ELSE Tree!Omit(t[c], {e})]
  BY <1>7, Zenon DEF Between
<1>9. Outline(s) = Between(t, e, p, x, y)
  BY <1>3, <1>6, <1>8 DEF Outlines
<1>10. IsOutline(Between(t, e, p, x, y))
  BY <1>3, BetweenIsOutline
<1> QED BY <1>1, <1>4, <1>6, <1>9, <1>10 DEF Proper

\* With one more position the sections stand as deep as before.
LEMMA LevelsStay ==
    ASSUME NEW t, NEW e \in Items, NEW p, NEW x, NEW y, Awaits(t, e, p, x, y)
    PROVE  /\ Tree!Groups(Between(t, e, p, x, y)) = Tree!Groups(t)
           /\ \A c \in Tree!Groups(t) : Tree!Level(Between(t, e, p, x, y), c) = Tree!Level(t, c)
<1>1. PICK u : u = Between(t, e, p, x, y)
  OBVIOUS
<1>2. /\ IsOutline(t) /\ t \in Outlines /\ Unique(t) /\ e \in Entries /\ p \in Containers
      /\ p \in Tree!Groups(t) /\ ~Tree!InsideOf(t, e, p) /\ e \notin Tree!Placed(t)
      /\ x \in Seq(Entries) /\ y \in Seq(Entries)
      /\ Joined(t[p], x, y) /\ (\A c \in Containers : Rest(t[c], e) = t[c])
  BY AwaitsIs
<1>3. Tree!Omit(t[p], {e}) = x \o y
  <2>1. Rest(t[p], e) = t[p]
    BY <1>2
  <2> QED BY <1>2, <2>1 DEF Rest, Joined
<1>4. IsOutline(u)
  BY <1>1, <1>2, <1>3, BetweenIsOutline
<1>5. /\ Tree!Placed(u) = Tree!Placed(t) \cup {e}
      /\ \A z \in Tree!Placed(t) \ {e} : Tree!ParentIn(u, z) = Tree!ParentIn(t, z)
  <2>1. /\ t \in Outlines /\ Unique(t) /\ e \in Entries /\ p \in Containers
        /\ x \in Seq(Entries) /\ y \in Seq(Entries) /\ Tree!Omit(t[p], {e}) = x \o y
    BY <1>2, <1>3
  <2>2. KeepsParents(t, e, Between(t, e, p, x, y))
    BY ONLY <2>1, BetweenKeepsParents
  <2> QED BY <1>1, <2>2 DEF KeepsParents
<1>6. Tree!Groups(u) = Tree!Groups(t)
  BY <1>5, GroupsIs, NoRootEntry
<1>7. \E f : Ranks(t, f)
  BY <1>2 DEF IsOutline
<1>8. PICK f : Ranks(t, f)
  BY ONLY <1>7
<1>9. Ranks(u, f)
  <2>1. /\ f \in [Tree!Groups(t) -> Nat]
        /\ \A z \in Tree!Groups(t) : f[z] = IF z = Root THEN 0 ELSE 1 + f[Tree!ParentIn(t, z)]
    BY <1>8 DEF Ranks
  <2>2. \A z \in Tree!Groups(t) : z # Root => Tree!ParentIn(u, z) = Tree!ParentIn(t, z)
    BY <1>2, <1>5, GroupsIs
  <2> QED BY <1>6, <2>1, <2>2 DEF Ranks
<1>10. ASSUME NEW c \in Tree!Groups(t) PROVE Tree!Level(u, c) = Tree!Level(t, c)
  BY <1>2, <1>4, <1>6, <1>8, <1>9, LevelIsRank
<1> QED BY <1>1, <1>6, <1>10

\* A position in an Itemlist: nothing has to be counted anew.
LEMMA InListAdds ==
    ASSUME NEW d, Native(d), NEW e \in Items, NEW p, d[p].parts = <<>>,
           NEW y, y = <<>>, Awaits(Outline(d), e, p, Outline(d)[p], y)
    PROVE  /\ Native([d EXCEPT ![p].list = Append(@, e)])
           /\ Outline([d EXCEPT ![p].list = Append(@, e)]) = Between(Outline(d), e, p, Outline(d)[p], y)
<1>1. PICK t, l, nil : t = Outline(d) /\ l = d[p].list /\ nil = <<>>
  OBVIOUS
<1>2. p \in Containers /\ e \in Entries
  BY AwaitsIs
<1>3. d \in Documents /\ Exclusive(d) /\ Proper(d) /\ ~TooDeep(d)
      /\ \A c \in Containers : ~Contains(d[c].parts, <<>>)
  BY DEF Native, Proper
<1>4. l \in Seq(Items) /\ l \in Seq(Entries) /\ t[p] = l
  BY <1>1, <1>2, <1>3, DocumentsHold, OutlineAt
<1>5. PICK w : w = Append(l, e)
  OBVIOUS
<1>6. w \in Seq(Items) /\ w \in Seq(Entries)
  BY <1>4, <1>5, PartsAre, AppendProperties
<1>7. Inserted(w \o Shown(nil), e, l, nil)
  <2>1. Shown(nil) = nil
    BY <1>1, ShownEmpty
  <2>2. w \o nil = w
    BY <1>1, <1>6, ConcatEmptySeq
  <2>3. PICK one : one = <<e>>
    OBVIOUS
  <2>4. one \in Seq(Items) /\ one = Append(nil, e)
    BY <1>1, <2>3, OneElement
  <2>5. l \o one = w
    <3>1. nil \in Seq(Items) /\ l \o nil = l
      BY <1>1, <1>4, EmptySeq, ConcatEmptySeq
    <3>2. l \o Append(nil, e) = Append(l \o nil, e)
      BY <1>4, <3>1, ConcatAppend
    <3> QED BY <1>5, <2>4, <3>1, <3>2
  <2>6. w \o nil = (l \o one) \o nil
    BY <2>5
  <2> QED BY <2>1, <2>3, <2>6, Zenon DEF Inserted
<1>8. PICK r : r = Refilled(d, p, w, nil)
  OBVIOUS
<1>9. Proper(r) /\ Outline(r) = Between(t, e, p, l, nil)
  <2>1. /\ Proper(d) /\ Awaits(Outline(d), e, p, l, nil) /\ w \in Seq(Items) /\ nil \in Seq(Parts)
        /\ OneKind(w, nil) /\ Inserted(w \o Shown(nil), e, l, nil)
    BY <1>1, <1>3, <1>4, <1>6, <1>7, EmptySeq DEF OneKind
  <2>2. /\ Proper(Refilled(d, p, w, nil))
        /\ Outline(Refilled(d, p, w, nil)) = Between(Outline(d), e, p, l, nil)
    BY ONLY <2>1, AddedDocument
  <2> QED BY <1>1, <1>8, <2>2
<1>10. [d EXCEPT ![p].list = Append(@, e)] = r
  <2>1. [d EXCEPT ![p].list = Append(@, e)] = [d EXCEPT ![p].list = w]
    BY <1>1, <1>5
  <2>2. [d EXCEPT ![p].list = w] = Refilled(d, p, w, d[p].parts)
    <3>1. d \in Documents /\ p \in Containers
      BY <1>2, <1>3
    <3> QED BY ONLY <3>1, RefillingOne
  <2>3. d[p].parts = nil
    BY <1>1
  <2> QED BY <1>8, <2>1, <2>2, <2>3
<1>11. \A c \in Containers : r[c].parts = d[c].parts
  <2>1. PICK q : q = [list |-> w, parts |-> nil]
    OBVIOUS
  <2>2. q.parts = nil
    BY <2>1
  <2>3. r = [d EXCEPT ![p] = q]
    BY <1>8, <2>1, Zenon DEF Refilled
  <2>4. r[p] = q /\ \A c \in Containers : c # p => r[c] = d[c]
    BY <1>2, <1>3, <2>3 DEF Documents
  <2>5. r[p].parts = d[p].parts
    BY <1>1, <2>2, <2>4
  <2> QED BY <2>4, <2>5
<1>12. ~TooDeep(r)
  <2>1. PICK u : u = Outline(r)
    OBVIOUS
  <2>2. /\ Tree!Groups(u) = Tree!Groups(t)
        /\ \A c \in Tree!Groups(t) : Tree!Level(u, c) = Tree!Level(t, c)
    <3>1. Awaits(t, e, p, l, nil)
      BY <1>1, <1>4
    <3> QED BY <1>9, <2>1, <3>1, LevelsStay
  <2>3. Tree!Groups(t) \subseteq Containers
    BY GroupsIs DEF Containers
  <2> DEFINE More(x, c) == IF \E k \in DOMAIN x[c].parts : IsBucket(x[c].parts[k]) THEN 1 ELSE 0
  <2>4. TooDeep(r) <=> \E c \in Tree!Groups(u) : Tree!Level(u, c) + More(r, c) > MaxLevels
    BY <2>1, Zenon DEF TooDeep
  <2>5. TooDeep(d) <=> \E c \in Tree!Groups(t) : Tree!Level(t, c) + More(d, c) > MaxLevels
    BY <1>1, Zenon DEF TooDeep
  <2>6. \A c \in Containers : More(r, c) = More(d, c)
    BY <1>11
  <2> HIDE DEF More
  <2> QED BY <1>3, <2>2, <2>3, <2>4, <2>5, <2>6
<1>13. Native(r)
  BY <1>3, <1>9, <1>11, <1>12 DEF Native
<1> QED BY <1>1, <1>4, <1>9, <1>10, <1>13

LEMMA StrangersMove ==
    ASSUME NEW d, Proper(d), NEW e \in Entries, e \notin Present(d), NEW p \in Tree!Groups(Outline(d))
    PROVE  Movable(d, e, p)
<1>1. PICK t : t = Outline(d)
  OBVIOUS
<1>2. IsOutline(t) /\ e \in Entries \ Tree!Placed(t) /\ p \in Tree!Groups(t)
  BY <1>1 DEF Proper, Present
<1>3. ~Tree!InsideOf(t, e, p)
  BY <1>2, NothingInsideStrangers
<1> QED BY <1>1, <1>3, Zenon DEF Movable, Within

\* What came of adding e to p: an error, or e is among the children of p.
Added(d, e, p, r) ==
    \/ r \in Errors
    \/ /\ Native(r)
       /\ \E x, y : Awaits(Outline(d), e, p, x, y) /\ Outline(r) = Between(Outline(d), e, p, x, y)

LEMMA PartsAdded ==
    ASSUME NEW d, NEW e \in Entries, e \notin Present(d), NEW p, Movable(d, e, p), d[p].list = <<>>,
           NEW w \in Seq(Parts), NEW x \in Seq(Entries), NEW y \in Seq(Entries),
           Joined(Outline(d)[p], x, y), Inserted(Shown(w), e, x, y)
    PROVE  Added(d, e, p, NormalizeHierarchy([d EXCEPT ![p].parts = w]))
<1>1. PICK t, nil : t = Outline(d) /\ nil = <<>>
  OBVIOUS
<1>2. Proper(d) /\ d \in Documents /\ p \in Containers /\ p \in Tree!Groups(t) /\ IsOutline(t)
  BY <1>1, MovableIs DEF Movable
<1>3. Awaits(t, e, p, x, y)
  BY <1>1, <1>2 DEF Awaits, Present
<1>4. nil \in Seq(Items) /\ OneKind(nil, w) /\ nil \o Shown(w) = Shown(w)
  <2>1. Shown(w) \in Seq(Entries)
    BY ShownInSeq
  <2> QED BY <1>1, <2>1, ConcatEmptySeq, EmptySeq DEF OneKind
<1>5. PICK r : r = Refilled(d, p, nil, w)
  OBVIOUS
<1>6. Proper(r) /\ Outline(r) = Between(t, e, p, x, y)
  <2>1. /\ Proper(d) /\ Awaits(Outline(d), e, p, x, y) /\ nil \in Seq(Items) /\ w \in Seq(Parts)
        /\ OneKind(nil, w) /\ Inserted(nil \o Shown(w), e, x, y)
    BY <1>1, <1>2, <1>3, <1>4
  <2>2. /\ Proper(Refilled(d, p, nil, w))
        /\ Outline(Refilled(d, p, nil, w)) = Between(Outline(d), e, p, x, y)
    BY ONLY <2>1, AddedDocument
  <2> QED BY <1>1, <1>5, <2>2
<1>7. [d EXCEPT ![p].parts = w] = r
  <2>1. [d EXCEPT ![p].parts = w] = Refilled(d, p, d[p].list, w)
    <3>1. d \in Documents /\ p \in Containers
      BY <1>2
    <3>2. \A ps : [d EXCEPT ![p].parts = ps] = Refilled(d, p, d[p].list, ps)
      BY ONLY <3>1, RefillingParts
    <3> QED BY ONLY <3>2, Zenon
  <2> QED BY <1>1, <1>5, <2>1
<1>8. \/ NormalizeHierarchy(r) = HierarchyLimit
      \/ Native(NormalizeHierarchy(r)) /\ Outline(NormalizeHierarchy(r)) = Outline(r)
  BY <1>6, NormalizeIs
<1>9. HierarchyLimit \in Errors
  BY DEF Errors
<1> QED BY <1>1, <1>3, <1>6, <1>7, <1>8, <1>9 DEF Added

LEMMA AddCategoryAdds ==
    ASSUME NEW d, Native(d), NEW e \in Cats, e \notin Present(d), NEW p \in Tree!Groups(Outline(d))
    PROVE  Added(d, e, p, AddCategory(d, e, p))
<1>1. Movable(d, e, p) /\ e \in Entries
  BY StrangersMove DEF Native, Entries
<1>2. PICK m, s : m = Wrapped(d, p) /\ s = m[p].parts
  OBVIOUS
<1>3. Movable(m, e, p) /\ Outline(m) = Outline(d) /\ m[p].list = <<>>
  BY <1>1, <1>2, WrappedIs
<1>4. /\ s \in Seq(Parts) /\ Outline(m)[p] = Shown(s) /\ Outline(m)[p] \in Seq(Entries)
      /\ m \in Documents /\ p \in Containers
  BY <1>2, <1>3, MovableIs
<1>5. PICK w, x, nil : w = Append(s, e) /\ x = Shown(s) /\ nil = <<>>
  OBVIOUS
<1>6. e \in Parts /\ Piece(e) = <<e>>
  BY PartsAre DEF Piece, IsBucket
<1>7. w \in Seq(Parts) /\ Shown(w) = x \o <<e>> /\ x \in Seq(Entries) /\ nil \in Seq(Entries)
  <2>1. Shown(Append(s, e)) = Shown(s) \o Piece(e)
    BY <1>4, <1>6, ShownAppend
  <2>2. w \in Seq(Parts)
    BY <1>4, <1>5, <1>6, AppendProperties
  <2> QED BY <1>4, <1>5, <1>6, <2>1, <2>2, EmptySeq
<1>8. Inserted(Shown(w), e, x, nil)
  <2>1. Shown(w) \in Seq(Entries)
    BY <1>7, ShownInSeq
  <2>2. Shown(w) \o nil = Shown(w)
    BY <1>5, <2>1, ConcatEmptySeq
  <2>3. Shown(w) = (x \o <<e>>) \o nil
    BY <1>7, <2>2
  <2> QED BY <2>3, Zenon DEF Inserted
<1>9. Joined(Outline(m)[p], x, nil)
  <2>1. x \o nil = x
    BY <1>5, <1>7, ConcatEmptySeq
  <2> QED BY <1>4, <1>5, <2>1 DEF Joined
<1>10. Added(m, e, p, NormalizeHierarchy([m EXCEPT ![p].parts = w]))
  <2>1. e \notin Present(m)
    BY <1>3, Zenon DEF Present
  <2> QED BY <1>1, <1>3, <1>7, <1>8, <1>9, <2>1, PartsAdded
<1>11. AddCategory(d, e, p) = NormalizeHierarchy([m EXCEPT ![p].parts = w])
  <2>1. [m EXCEPT ![p].parts = Append(@, e)] = [m EXCEPT ![p].parts = w]
    BY <1>2, <1>5
  <2> QED BY <1>2, <2>1, Zenon DEF AddCategory, Wrapped
<1> QED BY <1>3, <1>10, <1>11, Zenon DEF Added

LEMMA InFirstBucketAdds ==
    ASSUME NEW d, Native(d), NEW e \in Items, e \notin Present(d), NEW p \in Tree!Groups(Outline(d)),
           d[p].parts # <<>>
    PROVE  Added(d, e, p, AddItemInCategory(d, e, p))
<1>1. Movable(d, e, p) /\ e \in Entries
  BY StrangersMove DEF Native, Entries
<1>2. PICK m : m = WithItemBucket(d, p)
  OBVIOUS
<1>3. PICK S, k : S = m[p].parts /\ k = FirstBucket(m, p)
  OBVIOUS
<1>4. /\ Movable(m, e, p) /\ Outline(m) = Outline(d) /\ m[p].list = <<>>
      /\ k \in 1..Len(S) /\ S[k] \notin Cats
  BY <1>1, <1>2, <1>3, WithItemBucketIs
<1>5. S \in Seq(Parts) /\ m \in Documents /\ p \in Containers
  BY <1>3, <1>4, MovableIs
<1>6. PICK s : s = S[k]
  OBVIOUS
<1>7. \E a, c : At(S, k, a, s, c)
  BY <1>4, <1>5, <1>6, PartAt
<1>8. PICK a, c : At(S, k, a, s, c)
  BY ONLY <1>7
<1>9. a \in Seq(Parts) /\ c \in Seq(Parts) /\ s \in Parts /\ s \in Seq(Items) /\ Piece(s) = s
  BY <1>4, <1>6, <1>8, PartsAre DEF At, Piece, IsBucket
<1>10. PICK n, one, new : n = Append(s, e) /\ one = <<n>> /\ new = <<e>>
  OBVIOUS
<1>11. PICK u, v : u = Shown(a) /\ v = Shown(c)
  OBVIOUS
<1>12. /\ n \in Seq(Items) /\ n \in Parts /\ n \notin Cats /\ Piece(n) = n
       /\ one \in Seq(Parts) /\ Shown(one) = n /\ n = s \o new
       /\ new \in Seq(Entries) /\ s \in Seq(Entries) /\ u \in Seq(Entries) /\ v \in Seq(Entries)
  <2>1. n \in Seq(Items)
    BY <1>9, <1>10, AppendProperties
  <2>2. n \in Parts /\ n \notin Cats /\ Piece(n) = n
    BY <2>1, PartsAre DEF Piece, IsBucket
  <2>3. one \in Seq(Parts) /\ Shown(one) = n
    BY <1>10, <2>2, OneElement, ShownOne
  <2>4. n = s \o new
    <3>1. PICK nil : nil = <<>>
      OBVIOUS
    <3>2. nil \in Seq(Items) /\ s \o nil = s /\ new = Append(nil, e)
      BY <1>9, <1>10, <3>1, EmptySeq, ConcatEmptySeq, OneElement
    <3>3. s \o Append(nil, e) = Append(s \o nil, e)
      BY <1>9, <3>2, ConcatAppend
    <3> QED BY <1>10, <3>2, <3>3
  <2>5. new \in Seq(Entries)
    BY <1>1, <1>10, OneElement
  <2>6. s \in Seq(Entries) /\ u \in Seq(Entries) /\ v \in Seq(Entries)
    BY <1>9, <1>11, PartsAre, ShownInSeq
  <2> QED BY <2>1, <2>2, <2>3, <2>4, <2>5, <2>6
<1>13. PICK w : w = (a \o one) \o c
  OBVIOUS
<1>14. w \in Seq(Parts) /\ Shown(w) = (u \o n) \o v /\ Splice(S, k, one) = w
  <2>1. a \in Seq(Parts) /\ one \in Seq(Parts) /\ c \in Seq(Parts)
    BY <1>9, <1>12
  <2>2. (a \o one) \o c \in Seq(Parts)
        /\ Shown((a \o one) \o c) = (Shown(a) \o Shown(one)) \o Shown(c)
    BY ONLY <2>1, ShownThree
  <2>3. Splice(S, k, one) = (a \o one) \o c
    BY <1>8, <2>1, SpliceAt
  <2> QED BY <1>11, <1>12, <1>13, <2>2, <2>3
<1>15. Inserted(Shown(w), e, Cat(u, s), v)
  <2>1. Cat(u, Cat(s, new)) = Cat(Cat(u, s), new)
    BY <1>12, CatAssociative
  <2>2. Shown(w) = ((u \o s) \o new) \o v
    BY <1>12, <1>14, <2>1 DEF Cat
  <2> QED BY <1>10, <2>2, Zenon DEF Inserted, Cat
<1>16. Joined(Outline(m)[p], Cat(u, s), v) /\ Cat(u, s) \in Seq(Entries)
  <2>1. At(m[p].parts, k, a, s, c)
    BY <1>3, <1>8
  <2>2. Outline(m)[p] = Cat(Cat(Shown(a), Piece(s)), Shown(c))
    BY <1>4, <2>1, OutlineAround
  <2>3. Outline(m)[p] = Cat(Cat(u, s), v)
    BY <1>9, <1>11, <2>2
  <2>4. Cat(u, s) \in Seq(Entries)
    BY <1>12, CatInSeq
  <2> QED BY <2>3, <2>4, Zenon DEF Cat, Joined
<1>17. Added(m, e, p, NormalizeHierarchy([m EXCEPT ![p].parts = w]))
  <2>1. e \notin Present(m)
    BY <1>4, Zenon DEF Present
  <2> QED BY <1>1, <1>4, <1>12, <1>14, <1>15, <1>16, <2>1, PartsAdded
<1>18. AddItemInCategory(d, e, p) = NormalizeHierarchy([m EXCEPT ![p].parts = w])
  <2>1. AddItemInCategory(d, e, p) =
            NormalizeHierarchy([m EXCEPT ![p].parts = Splice(@, k, <<Append(m[p].parts[k], e)>>)])
    BY <1>2, <1>3, Zenon DEF AddItemInCategory
  <2>2. Splice(m[p].parts, k, <<Append(m[p].parts[k], e)>>) = w
    BY <1>3, <1>6, <1>10, <1>14
  <2> QED BY <2>1, <2>2
<1> QED BY <1>4, <1>17, <1>18, Zenon DEF Added

LEMMA AddItemAdds ==
    ASSUME NEW d, Native(d), NEW e \in Items, e \notin Present(d), NEW p \in Tree!Groups(Outline(d))
    PROVE  Added(d, e, p, AddItemInCategory(d, e, p))
<1>1. CASE d[p].parts = <<>>
  <2>1. PICK t, nil : t = Outline(d) /\ nil = <<>>
    OBVIOUS
  <2>2. IsOutline(t) /\ t \in Outlines /\ p \in Containers /\ e \in Entries \ Tree!Placed(t)
    <3>1. IsOutline(t) /\ e \notin Tree!Placed(t)
      BY <2>1 DEF Native, Proper, Present
    <3> QED BY <2>1, <3>1, GroupsIs DEF IsOutline, Containers, Entries
  <2>3. t[p] \in Seq(Entries) /\ nil \in Seq(Entries) /\ t[p] \o nil = t[p]
    BY <2>1, <2>2, EmptySeq, ConcatEmptySeq DEF Outlines
  <2>4. Awaits(t, e, p, t[p], nil)
    BY <2>1, <2>2, <2>3 DEF Awaits, Joined
  <2>5. PICK r : r = [d EXCEPT ![p].list = Append(@, e)]
    OBVIOUS
  <2>6. AddItemInCategory(d, e, p) = r
    BY <1>1, <2>5, Zenon DEF AddItemInCategory
  <2>7. Native(r) /\ Outline(r) = Between(t, e, p, t[p], nil)
    <3>1. Native(d) /\ d[p].parts = <<>> /\ nil = <<>> /\ Awaits(Outline(d), e, p, Outline(d)[p], nil)
      BY <1>1, <2>1, <2>4
    <3>2. /\ Native([d EXCEPT ![p].list = Append(@, e)])
          /\ Outline([d EXCEPT ![p].list = Append(@, e)])
                 = Between(Outline(d), e, p, Outline(d)[p], nil)
      BY ONLY <3>1, InListAdds
    <3> QED BY <2>1, <2>5, <3>2
  <2> QED BY <2>1, <2>4, <2>6, <2>7 DEF Added
<1>2. CASE d[p].parts # <<>>
  BY <1>2, InFirstBucketAdds
<1> QED BY <1>1, <1>2

\* What is inserted can be placed anew, as if it were not there.
LEMMA PlacingAgain ==
    ASSUME NEW t, NEW e, NEW p, NEW x, NEW y, Awaits(t, e, p, x, y), NEW b
    PROVE  Tree!Placing(Between(t, e, p, x, y), e, p, b) = Tree!Placing(t, e, p, b)
<1>1. /\ t \in Outlines /\ e \in Entries /\ p \in Containers
      /\ x \in Seq(Entries) /\ y \in Seq(Entries) /\ Joined(t[p], x, y)
      /\ (\A c \in Containers : Rest(t[c], e) = t[c]) /\ e \notin ToSet(x) /\ e \notin ToSet(y)
  BY AwaitsIs
<1>2. PICK X, one, u : X = {e} /\ one = <<e>> /\ u = Between(t, e, p, x, y)
  OBVIOUS
<1>3. \A c \in Containers : Tree!Omit(t[c], X) = t[c]
  BY <1>1, <1>2 DEF Rest
<1>4. u = [c \in Containers |-> IF c = p THEN (x \o one) \o y ELSE Tree!Omit(t[c], X)]
  BY <1>2, Zenon DEF Between
<1>5. u[p] = (x \o one) \o y /\ \A c \in Containers : c # p => u[c] = t[c]
  BY <1>1, <1>3, <1>4
<1>6. Tree!Omit((x \o one) \o y, X) = x \o y
  <2>1. one \in Seq(Entries) /\ Tree!Omit(one, X) = <<>>
    BY <1>1, <1>2, OneElement, OmitOne
  <2>2. Tree!Omit(x, X) = x /\ Tree!Omit(y, X) = y
    <3>1. ToSet(x) \cap X = {} /\ ToSet(y) \cap X = {}
      BY <1>1, <1>2
    <3> QED BY <1>1, <3>1, OmitNothing
  <2>3. PICK w : w = x \o one
    OBVIOUS
  <2>4. w \in Seq(Entries) /\ Tree!Omit(w, X) = Tree!Omit(x, X) \o Tree!Omit(one, X)
    <3>1. x \in Seq(Entries) /\ one \in Seq(Entries)
      BY <1>1, <2>1
    <3>2. x \o one \in Seq(Entries)
      BY <3>1, ConcatProperties
    <3>3. Tree!Omit(x \o one, X) = Tree!Omit(x, X) \o Tree!Omit(one, X)
      BY ONLY <3>1, OmitConcat
    <3> QED BY <2>3, <3>2, <3>3
  <2>5. Tree!Omit(w \o y, X) = Tree!Omit(w, X) \o Tree!Omit(y, X)
    <3>1. w \in Seq(Entries) /\ y \in Seq(Entries)
      BY <1>1, <2>4
    <3> QED BY ONLY <3>1, OmitConcat
  <2>6. PICK nil : nil = <<>>
    OBVIOUS
  <2>7. x \o nil = x
    BY <1>1, <2>6, ConcatEmptySeq
  <2>8. Tree!Omit(w, X) = x
    BY <2>1, <2>2, <2>4, <2>6, <2>7
  <2> QED BY <2>2, <2>3, <2>5, <2>8
<1>7. \A c \in Containers : Tree!Omit(u[c], X) = Tree!Omit(t[c], X)
  <2>1. Tree!Omit(u[p], X) = Tree!Omit(t[p], X)
    BY <1>1, <1>3, <1>5, <1>6 DEF Joined
  <2> QED BY <1>5, <2>1
<1>8. Tree!Detached(u, e) = Tree!Detached(t, e)
  <2>1. /\ Tree!Detached(u, e) = [c \in Containers |-> Tree!Omit(u[c], {e})]
        /\ Tree!Detached(t, e) = [c \in Containers |-> Tree!Omit(t[c], {e})]
    BY TreeNames, Zenon DEF Tree!Detached
  <2>2. /\ Tree!Detached(u, e) = [c \in Containers |-> Tree!Omit(u[c], X)]
        /\ Tree!Detached(t, e) = [c \in Containers |-> Tree!Omit(t[c], X)]
    BY <1>2, <2>1, Zenon
  <2> QED BY <1>7, <2>2
<1>9. Tree!Placing(u, e, p, b) = Tree!Placing(t, e, p, b)
  BY <1>8, Zenon DEF Tree!Placing
<1> QED BY <1>2, <1>9

\* What an operation of the interface comes to in the outline, apart from removing:
\* an error, nothing, or a proper document in which e was placed.
Settled(d, e, r) ==
    \/ r \in Errors
    \/ /\ Native(r)
       /\ \E p \in Tree!Groups(Outline(d)), b \in Entries :
            /\ ~Within(d, e, p)
            /\ Outline(r) = Tree!Placing(Outline(d), e, p, b)

LEMMA AddedIsPlaced ==
    ASSUME NEW d, NEW e, NEW p, NEW r, Added(d, e, p, r)
    PROVE  Settled(d, e, r)
<1>1. CASE r \in Errors
  BY <1>1 DEF Settled
<1>2. CASE r \notin Errors
  <2>1. PICK t : t = Outline(d)
    OBVIOUS
  <2>2. Native(r) /\ \E x, y : Awaits(t, e, p, x, y) /\ Outline(r) = Between(t, e, p, x, y)
    BY <1>2, <2>1 DEF Added
  <2>3. PICK x, y : Awaits(t, e, p, x, y) /\ Outline(r) = Between(t, e, p, x, y)
    BY ONLY <2>2
  <2>4. \E b \in Entries : Tree!Placing(t, e, p, b) = Between(t, e, p, x, y)
    BY <2>3, InsertedIsPlaced
  <2>5. p \in Tree!Groups(t) /\ ~Tree!InsideOf(t, e, p)
    BY <2>3, AwaitsIs
  <2> QED BY <2>1, <2>2, <2>3, <2>4, <2>5, Zenon DEF Settled, Within
<1> QED BY <1>1, <1>2

\* Without an entry to precede, b = e says so as well.
LEMMA NoneIsItself ==
    ASSUME NEW t \in Outlines, NEW e \in Entries, NEW p \in Containers
    PROVE  Tree!Placing(t, e, p, NoEntry) = Tree!Placing(t, e, p, e)
<1>1. PICK X, rest : X = {e} /\ rest = Tree!Detached(t, e)
  OBVIOUS
<1>2. rest = [c \in Containers |-> Tree!Omit(t[c], X)]
  <2>1. Tree!Detached(t, e) = [c \in Containers |-> Tree!Omit(t[c], {e})]
    BY TreeNames, Zenon DEF Tree!Detached
  <2> QED BY <1>1, <2>1, Zenon
<1>3. t[p] \in Seq(Entries)
  BY DEF Outlines
<1>4. rest[p] \in Seq(Entries) /\ ToSet(rest[p]) = ToSet(t[p]) \ X
  BY <1>2, <1>3, OmitInSeq, ToSetOmit
<1>5. e \notin ToSet(rest[p]) /\ NoEntry \notin ToSet(rest[p])
  <2>1. NoEntry \notin ToSet(rest[p])
    BY <1>4, ToSetIs, LenProperties, NoRootEntry
  <2> QED BY <1>1, <1>4, <2>1
<1>6. Tree!PlaceOf(rest[p], e) = Tree!PlaceOf(rest[p], NoEntry)
  BY <1>4, <1>5, PlaceOfStranger
<1>7. \A b : Tree!Placing(t, e, p, b) = [rest EXCEPT ![p] = Tree!InsertAt(@, Tree!PlaceOf(@, b), e)]
  BY <1>1, Zenon DEF Tree!Placing
<1> QED BY <1>6, <1>7

LEMMA MovedIsPlaced ==
    ASSUME NEW d, NEW e, NEW p, Fit(d, e, p, NoEntry), NEW b, b = NoEntry \/ b \in Entries,
           NEW r, Arrived(Tree!Placing(Outline(d), e, p, b), r)
    PROVE  Settled(d, e, r)
<1>1. CASE r = HierarchyLimit
  BY <1>1 DEF Settled, Errors
<1>2. CASE r # HierarchyLimit
  <2>1. PICK t : t = Outline(d)
    OBVIOUS
  <2>2. Native(r) /\ Outline(r) = Tree!Placing(t, e, p, b)
    BY <1>2, <2>1 DEF Arrived
  <2>3. t \in Outlines /\ e \in Entries /\ p \in Containers
    BY <2>1, MovableIs DEF Fit
  <2>4. p \in Tree!Groups(t) /\ ~Within(d, e, p)
    BY <2>1 DEF Fit, Movable
  <2>5. \E c \in Entries : Outline(r) = Tree!Placing(t, e, p, c)
    BY <2>2, <2>3, NoneIsItself
  <2> QED BY <2>1, <2>2, <2>4, <2>5 DEF Settled
<1> QED BY <1>1, <1>2

LEMMA AddBelowSettles ==
    ASSUME NEW d, Native(d), NEW e \in Items, e \notin Present(d), NEW chosen \in {Root} \cup Present(d)
    PROVE  Settled(d, e, AddBelow(d, e, chosen))
<1>1. PICK t : t = Outline(d)
  OBVIOUS
<1>2. Proper(d) /\ IsOutline(t) /\ t \in Outlines /\ Unique(t) /\ e \in Entries
      /\ e \notin Tree!Placed(t)
  BY <1>1 DEF Native, Proper, IsOutline, Entries, Present
<1>3. PICK p : p = IF chosen \in Items THEN OutlineParent(d, chosen) ELSE chosen
  OBVIOUS
<1>4. PICK b : b = IF chosen \in Items THEN NextOf(d, chosen) ELSE NoEntry
  OBVIOUS
<1>5. PICK m : m = AddItemInCategory(d, e, p)
  OBVIOUS
<1>6. AddBelow(d, e, chosen) = IF m \in Errors \/ b = NoEntry THEN m ELSE MoveEntry(m, e, p, b)
  BY <1>3, <1>4, <1>5, Zenon DEF AddBelow
<1>7. p \in Tree!Groups(t)
  <2>1. CASE chosen \in Items
    <3>1. chosen \in Present(d)
      BY <2>1, NoRootEntry DEF Entries
    <3> QED BY <1>1, <1>2, <1>3, <2>1, <3>1, ParentOfPresent DEF Movable
  <2>2. CASE chosen \notin Items
    <3>1. chosen = Root \/ chosen \in Tree!Placed(t) \cap Cats
      BY <1>1, <1>2, <2>2, PlacedAreEntries DEF Present, Entries
    <3> QED BY <1>3, <2>2, <3>1, GroupsIs
  <2> QED BY <2>1, <2>2
<1>8. Movable(d, e, p) /\ p \in Containers
  <2>1. Movable(d, e, p)
    BY <1>1, <1>2, <1>7, StrangersMove
  <2> QED BY <2>1, MovableIs
<1>9. Added(d, e, p, m) /\ Settled(d, e, m)
  BY <1>1, <1>5, <1>7, AddItemAdds, AddedIsPlaced
<1>10. CASE m \in Errors \/ b = NoEntry
  BY <1>6, <1>9, <1>10
<1>11. CASE m \notin Errors /\ b # NoEntry
  <2>1. chosen \in Items /\ chosen \in Present(d) /\ p = OutlineParent(d, chosen) /\ b = NextOf(d, chosen)
    BY <1>3, <1>4, <1>11, NoRootEntry DEF Entries
  <2>2. b \in ToSet(t[p])
    BY <1>1, <1>2, <1>11, <2>1, NextIsPeer
  <2>3. b # e /\ b \in Entries
    <3>1. b \in Tree!Placed(t)
      BY <1>8, <2>2, PlacedIs
    <3> QED BY <1>2, <3>1, PlacedAreEntries
  <2>4. Native(m) /\ \E x, y : Awaits(t, e, p, x, y) /\ Outline(m) = Between(t, e, p, x, y)
    BY <1>1, <1>9, <1>11 DEF Added
  <2>5. PICK x, y : Awaits(t, e, p, x, y) /\ Outline(m) = Between(t, e, p, x, y)
    BY ONLY <2>4
  <2>6. PICK u : u = Outline(m)
    OBVIOUS
  <2>7. IsOutline(u) /\ Proper(m) /\ u = Between(t, e, p, x, y)
    BY <2>4, <2>5, <2>6 DEF Native, Proper
  <2>8. Tree!Groups(u) = Tree!Groups(t)
    BY <2>5, <2>7, LevelsStay
  <2>9. Movable(m, e, p)
    <3>1. e \notin Tree!Groups(u)
      BY GroupsIs, NoRootEntry, <1>2
    <3>2. ~Tree!InsideOf(u, e, p)
      BY <1>2, <1>7, <2>7, <2>8, <3>1, NothingInsideItems
    <3> QED BY <1>2, <1>7, <2>6, <2>7, <2>8, <3>2, Zenon DEF Movable, Within
  <2>10. b \in ToSet(u[p])
    <3>1. x \in Seq(Entries) /\ y \in Seq(Entries) /\ t[p] = x \o y
      BY <2>5 DEF Awaits, Joined
    <3>2. ToSet(t[p]) = ToSet(x) \cup ToSet(y)
      BY <3>1, ToSetConcat
    <3>3. u[p] = (x \o <<e>>) \o y
      BY <1>8, <2>7, Zenon DEF Between
    <3>4. Inserted(u[p], e, x, y)
      BY <3>3, Zenon DEF Inserted
    <3>5. ToSet(u[p]) = (ToSet(x) \cup ToSet(y)) \cup {e}
      BY <1>2, <3>1, <3>4, InsertedInSeq
    <3> QED BY <2>2, <3>2, <3>5
  <2>11. Moved(m, e, p, b, MoveEntry(m, e, p, b))
    BY <2>3, <2>6, <2>9, <2>10, MoveLands
  <2>12. Tree!Placing(u, e, p, b) = Tree!Placing(t, e, p, b)
    BY <2>5, <2>7, PlacingAgain
  <2>13. CASE MoveEntry(m, e, p, b) = m
    BY <1>6, <1>9, <1>11, <2>13
  <2>14. CASE Arrived(Tree!Placing(u, e, p, b), MoveEntry(m, e, p, b))
    <3>1. Fit(d, e, p, NoEntry)
      BY <1>8 DEF Fit
    <3>2. Arrived(Tree!Placing(Outline(d), e, p, b), MoveEntry(m, e, p, b))
      BY <1>1, <2>12, <2>14
    <3>3. Settled(d, e, MoveEntry(m, e, p, b))
      BY <2>3, <3>1, <3>2, MovedIsPlaced
    <3> QED BY <1>6, <1>11, <3>3
  <2> QED BY <2>6, <2>11, <2>13, <2>14 DEF Moved
<1> QED BY <1>10, <1>11

\* An entry that is moved by the interface.
LEMMA MoveSettles ==
    ASSUME NEW d, Proper(d), NEW e \in Present(d), NEW l \in Targets(d, e)
    PROVE  \/ MoveEntry(d, e, l[1], l[2]) = d
           \/ Settled(d, e, MoveEntry(d, e, l[1], l[2]))
<1>1. PICK p, b : p = l[1] /\ b = l[2]
  OBVIOUS
<1>2. p \in Items \/ Fit(d, e, p, b)
  BY <1>1, TargetsFit
<1>3. CASE p \in Items
  <2>1. MoveEntry(d, e, p, b) = HierarchyCycle
    BY <1>3, Zenon DEF MoveEntry
  <2> QED BY <1>1, <2>1 DEF Settled, Errors
<1>4. CASE Fit(d, e, p, b)
  <2>1. Movable(d, e, p) /\ (b = NoEntry \/ b \in ToSet(Outline(d)[p]))
    BY <1>4 DEF Fit
  <2>2. Fit(d, e, p, NoEntry)
    BY <2>1 DEF Fit
  <2>3. b = NoEntry \/ b \in Entries
    <3>1. Outline(d)[p] \in Seq(Entries)
      BY <2>1, MovableIs
    <3> QED BY <2>1, <3>1, ToSetIs, LenProperties
  <2>4. b = e => MoveEntry(d, e, p, b) = d
    BY <2>1, MoveLands
  <2>5. b # e => Moved(d, e, p, b, MoveEntry(d, e, p, b))
    BY <2>1, MoveLands
  <2>6. CASE MoveEntry(d, e, p, b) = d
    BY <1>1, <2>6
  <2>7. CASE Arrived(Tree!Placing(Outline(d), e, p, b), MoveEntry(d, e, p, b))
    BY <1>1, <2>2, <2>3, <2>7, MovedIsPlaced
  <2> QED BY <2>4, <2>5, <2>6, <2>7 DEF Moved
<1> QED BY <1>2, <1>3, <1>4

-----------------------------------------------------------------------------
(* Removing an entry                                                       *)

LEMMA RemoveEntryRemoves ==
    ASSUME NEW d, Native(d), NEW e \in Present(d)
    PROVE  \/ RemoveEntry(d, e) \in Errors
           \/ /\ Native(RemoveEntry(d, e))
              /\ Outline(RemoveEntry(d, e)) = Tree!Without(Outline(d), e)
<1>1. PICK t : t = Outline(d)
  OBVIOUS
<1>2. /\ d \in Documents /\ Exclusive(d) /\ IsOutline(t) /\ e \in Tree!Placed(t) /\ e \in Entries
  BY <1>1, ParentOfPresent DEF Native, Proper, Present
<1>3. PICK rest : rest = Detach(d, e)
  OBVIOUS
<1>4. /\ rest \in Documents /\ Exclusive(rest)
      /\ \A c \in Containers : Outline(rest)[c] = Tree!Omit(t[c], {e})
  BY <1>1, <1>2, <1>3, DetachIs
<1>5. PICK r : r = [c \in Containers |-> IF Gone(t, e, c) THEN Blank[c] ELSE rest[c]]
  OBVIOUS
<1>6. RemoveEntry(d, e) = NormalizeHierarchy(r)
  BY <1>1, <1>3, <1>5, Zenon DEF RemoveEntry, Gone, Within
<1>7. PICK nil : nil = <<>>
  OBVIOUS
<1>8. \A c \in Containers : Blank[c] = [list |-> nil, parts |-> nil]
  BY <1>7, Zenon DEF Blank
<1>9. nil \in Seq(Items) /\ nil \in Seq(Cats \cup Seq(Items)) /\ Shown(nil) = nil /\ nil \o nil = nil
  <2>1. nil \in Seq(Items) /\ nil \in Seq(Cats \cup Seq(Items))
    BY <1>7, EmptySeq
  <2> QED BY <1>7, <2>1, ShownEmpty, ConcatEmptySeq
<1>10. \A c \in Containers :
          /\ Blank[c] \in [list : Seq(Items), parts : Seq(Cats \cup Seq(Items))]
          /\ Blank[c].list = nil /\ Blank[c].parts = nil
  BY <1>8, <1>9
<1>11. r \in Documents
  BY <1>4, <1>5, <1>10 DEF Documents
<1>12. Exclusive(r)
  BY <1>4, <1>5, <1>7, <1>10 DEF Exclusive
<1>13. Outline(r) = Tree!Without(t, e)
  <2>1. Outline(r) = [c \in Containers |-> OutlineChildren(r, c)]
    BY Zenon DEF Outline
  <2>2. Tree!Without(t, e) = [c \in Containers |-> IF Gone(t, e, c) THEN <<>> ELSE Tree!Omit(t[c], {e})]
    BY WithoutIs
  <2>3. PICK X : X = {e}
    OBVIOUS
  <2>4. Tree!Without(t, e) = [c \in Containers |-> IF Gone(t, e, c) THEN nil ELSE Tree!Omit(t[c], X)]
    BY <1>7, <2>2, <2>3, Zenon
  <2>5. ASSUME NEW c \in Containers
        PROVE  OutlineChildren(r, c) = IF Gone(t, e, c) THEN nil ELSE Tree!Omit(t[c], X)
    <3>1. OutlineChildren(r, c) = r[c].list \o Shown(r[c].parts)
      BY DEF OutlineChildren
    <3>2. CASE Gone(t, e, c)
      <4>1. r[c] = Blank[c]
        BY <1>5, <3>2
      <4>2. r[c].list = nil /\ r[c].parts = nil
        BY <1>10, <4>1
      <4> QED BY <1>9, <3>1, <3>2, <4>2
    <3>3. CASE ~Gone(t, e, c)
      <4>1. r[c] = rest[c]
        BY <1>5, <3>3
      <4>2. Outline(rest)[c] = rest[c].list \o Shown(rest[c].parts)
        BY <1>4, OutlineAt
      <4> QED BY <1>4, <2>3, <3>1, <3>3, <4>1, <4>2
    <3> QED BY <3>2, <3>3
  <2> QED BY <2>1, <2>4, <2>5
<1>14. Proper(r)
  <2>1. IsOutline(Tree!Without(t, e))
    BY <1>2, WithoutIsOutline
  <2> QED BY <1>11, <1>12, <1>13, <2>1 DEF Proper
<1>15. \/ NormalizeHierarchy(r) = HierarchyLimit
       \/ Native(NormalizeHierarchy(r)) /\ Outline(NormalizeHierarchy(r)) = Outline(r)
  BY <1>14, NormalizeIs
<1> QED BY <1>1, <1>6, <1>13, <1>15 DEF Errors

-----------------------------------------------------------------------------
(* The empty bill of quantities                                            *)

LEMMA BlankOutline == Outline(Blank) = Tree!EmptyTree /\ Blank \in Documents
<1>1. PICK nil : nil = <<>>
  OBVIOUS
<1>2. \A S : nil \in Seq(S)
  BY <1>1, EmptySeq
<1>3. Blank = [c \in Containers |-> [list |-> nil, parts |-> nil]]
  BY <1>1, Zenon DEF Blank
<1>4. Shown(nil) = nil /\ nil \o nil = nil
  BY <1>1, ShownEmpty
<1>5. \A c \in Containers : Blank[c].list = nil /\ Blank[c].parts = nil
  BY <1>3
<1>6. \A c \in Containers : OutlineChildren(Blank, c) = nil
  BY <1>4, <1>5 DEF OutlineChildren
<1>7. Outline(Blank) = [c \in Containers |-> nil]
  BY <1>6, Zenon DEF Outline
<1>8. Tree!EmptyTree = [c \in Containers |-> nil]
  BY <1>1, TreeNames, Zenon DEF Tree!EmptyTree
<1>9. Blank \in Documents
  BY <1>2, <1>3 DEF Documents
<1> QED BY <1>7, <1>8, <1>9

LEMMA EmptyIsOutline ==
    ASSUME NEW t, t = [c \in Containers |-> <<>>]
    PROVE  /\ IsOutline(t)
           /\ Tree!Groups(t) = {Root}
           /\ Tree!Level(t, Root) = 0
<1>1. PICK nil : nil = <<>>
  OBVIOUS
<1>2. /\ \A S : nil \in Seq(S)
      /\ Len(nil) = 0
      /\ Contains(nil, nil) <=> nil \in ToSet(nil)
  BY <1>1, EmptySeq, ContainsIs
<1>3. ToSet(nil) = {}
  BY <1>1 DEF ToSet
<1>4. t = [c \in Containers |-> nil]
  BY <1>1, Zenon
<1>5. t \in Outlines
  BY <1>2, <1>4 DEF Outlines
<1>6. \A c \in Containers : t[c] = nil
  BY <1>4
<1>7. Unique(t)
  <2>1. Distinct(nil)
    BY <1>2 DEF Distinct
  <2> QED BY <1>3, <1>6, <2>1 DEF Unique
<1>8. Tree!Placed(t) = {}
  BY <1>3, <1>6, PlacedIs
<1>9. Tree!Groups(t) = {Root}
  BY <1>8, GroupsIs
<1>10. PICK f : f = [x \in {Root} |-> 0]
  OBVIOUS
<1>11. Ranks(t, f)
  BY <1>9, <1>10 DEF Ranks
<1>12. IsOutline(t)
  BY <1>1, <1>5, <1>6, <1>7, <1>11 DEF IsOutline
<1>13. Tree!Level(t, Root) = 0
  BY <1>9, <1>10, <1>11, <1>12, LevelIsRank
<1> QED BY <1>9, <1>12, <1>13

LEMMA BlankIsNative == Native(Blank)
<1>1. PICK t : t = Outline(Blank)
  OBVIOUS
<1>2. PICK nil : nil = <<>>
  OBVIOUS
<1>3. Blank = [c \in Containers |-> [list |-> nil, parts |-> nil]]
  BY <1>2, Zenon DEF Blank
<1>4. \A c \in Containers : Blank[c].list = nil /\ Blank[c].parts = nil
  BY <1>3
<1>5. DOMAIN nil = {} /\ ~Contains(nil, nil)
  BY <1>2 DEF Contains
<1>6. t = [c \in Containers |-> <<>>]
  BY <1>1, BlankOutline, TreeNames, Zenon DEF Tree!EmptyTree
<1>7. IsOutline(t) /\ Tree!Groups(t) = {Root} /\ Tree!Level(t, Root) = 0
  BY <1>6, EmptyIsOutline
<1>8. Exclusive(Blank)
  BY <1>2, <1>4 DEF Exclusive
<1>9. Root \in Containers
  BY DEF Containers
<1>10. ~TooDeep(Blank)
  <2>1. ~\E k \in DOMAIN Blank[Root].parts : IsBucket(Blank[Root].parts[k])
    BY <1>4, <1>5, <1>9
  <2>2. MaxLevels \in Nat /\ ~(0 + 0 > MaxLevels)
    BY HierarchyAssumption
  <2>3. ~\E c \in Tree!Groups(t) :
            Tree!Level(t, c)
                + (IF \E k \in DOMAIN Blank[c].parts : IsBucket(Blank[c].parts[k]) THEN 1 ELSE 0)
                    > MaxLevels
    BY <1>7, <2>1, <2>2, Zenon
  <2> QED BY <1>1, <2>3, Zenon DEF TooDeep
<1>11. \A c \in Containers : ~Contains(Blank[c].parts, <<>>)
  BY <1>2, <1>4, <1>5
<1> QED BY <1>1, <1>7, <1>8, <1>10, <1>11, BlankOutline DEF Native, Proper

-----------------------------------------------------------------------------
(* A step of the editor                                                    *)

\* What a step makes of d: the same document, one in which e has been placed, or one
\* without e.
Lands(d, e, r) ==
    \E p \in Tree!Groups(Outline(d)), b \in Entries :
        ~Within(d, e, p) /\ Outline(r) = Tree!Placing(Outline(d), e, p, b)

Stepped(d, r) ==
    /\ Native(r)
    /\ \/ r = d
       \/ \E e \in Entries : Lands(d, e, r)
       \/ \E e \in Present(d) : Outline(r) = Tree!Without(Outline(d), e)

LEMMA SettledSteps ==
    ASSUME NEW d, NEW e \in Entries, NEW r, Settled(d, e, r), r \notin Errors
    PROVE  Stepped(d, r)
  BY DEF Settled, Stepped, Lands

\* The targets of a gesture are all asked for by MoveSettles.
LEMMA MovesStep ==
    ASSUME Native(doc), NEW e \in Present(doc), NEW T, T \subseteq Targets(doc, e),
           MoveTo(e, T)
    PROVE  Stepped(doc, doc')
<1>1. PICK l \in T : Apply(MoveEntry(doc, e, l[1], l[2]))
  BY DEF MoveTo
<1>2. doc' = MoveEntry(doc, e, l[1], l[2]) /\ doc' \notin Errors
  BY <1>1 DEF Apply
<1>3. Proper(doc) /\ l \in Targets(doc, e)
  BY DEF Native
<1>4. e \in Entries
  BY <1>3, ParentOfPresent
<1>5. doc' = doc \/ Settled(doc, e, doc')
  BY <1>2, <1>3, MoveSettles
<1>6. CASE doc' = doc
  BY <1>6 DEF Stepped
<1>7. CASE Settled(doc, e, doc')
  BY <1>2, <1>4, <1>7, SettledSteps
<1> QED BY <1>5, <1>6, <1>7

LEMMA NextSteps ==
    ASSUME Native(doc), Next
    PROVE  Stepped(doc, doc')
<1>1. ASSUME NEW e \in Cats, AddTitle(e) PROVE Stepped(doc, doc')
  <2>1. PICK p \in Tree!Groups(Outline(doc)) : Apply(AddCategory(doc, e, p))
    BY <1>1 DEF AddTitle
  <2>2. e \notin Present(doc) /\ e \in Entries
    BY <1>1 DEF AddTitle, Entries
  <2>3. doc' = AddCategory(doc, e, p) /\ doc' \notin Errors
    BY <2>1 DEF Apply
  <2>4. Settled(doc, e, doc')
    BY <2>2, <2>3, AddCategoryAdds, AddedIsPlaced
  <2> QED BY <2>2, <2>3, <2>4, SettledSteps
<1>2. ASSUME NEW e \in Items, AddPosition(e) PROVE Stepped(doc, doc')
  <2>1. PICK chosen \in {Root} \cup Present(doc) : Apply(AddBelow(doc, e, chosen))
    BY <1>2 DEF AddPosition
  <2>2. e \notin Present(doc) /\ e \in Entries
    BY <1>2 DEF AddPosition, Entries
  <2>3. doc' = AddBelow(doc, e, chosen) /\ doc' \notin Errors
    BY <2>1 DEF Apply
  <2>4. Settled(doc, e, doc')
    BY <2>2, <2>3, AddBelowSettles
  <2> QED BY <2>2, <2>3, <2>4, SettledSteps
<1>3. ASSUME NEW e \in Entries, Reorder(e) PROVE Stepped(doc, doc')
  <2>1. e \in Present(doc) /\ MoveTo(e, ReorderTargets(doc, e))
    BY <1>3 DEF Reorder
  <2>2. ReorderTargets(doc, e) \subseteq Targets(doc, e)
    BY DEF Targets
  <2> QED BY <2>1, <2>2, MovesStep
<1>4. ASSUME NEW e \in Entries, Indent(e) PROVE Stepped(doc, doc')
  <2>1. e \in Present(doc) /\ MoveTo(e, IndentTargets(doc, e))
    BY <1>4 DEF Indent
  <2>2. IndentTargets(doc, e) \subseteq Targets(doc, e)
    BY DEF Targets
  <2> QED BY <2>1, <2>2, MovesStep
<1>5. ASSUME NEW e \in Entries, Outdent(e) PROVE Stepped(doc, doc')
  <2>1. e \in Present(doc) /\ MoveTo(e, OutdentTargets(doc, e))
    BY <1>5 DEF Outdent
  <2>2. OutdentTargets(doc, e) \subseteq Targets(doc, e)
    BY DEF Targets
  <2> QED BY <2>1, <2>2, MovesStep
<1>6. ASSUME NEW e \in Entries, Drop(e) PROVE Stepped(doc, doc')
  <2>1. e \in Present(doc) /\ MoveTo(e, DropTargets(doc, e))
    BY <1>6 DEF Drop
  <2>2. DropTargets(doc, e) \subseteq Targets(doc, e)
    BY DEF Targets
  <2> QED BY <2>1, <2>2, MovesStep
<1>7. ASSUME NEW e \in Entries, Delete(e) PROVE Stepped(doc, doc')
  <2>1. e \in Present(doc) /\ doc' = RemoveEntry(doc, e) /\ doc' \notin Errors
    BY <1>7 DEF Delete, Apply
  <2>2. Native(doc') /\ Outline(doc') = Tree!Without(Outline(doc), e)
    BY <2>1, RemoveEntryRemoves
  <2> QED BY <2>1, <2>2 DEF Stepped
<1> QED BY <1>1, <1>2, <1>3, <1>4, <1>5, <1>6, <1>7 DEF Next

-----------------------------------------------------------------------------
(* The theorems                                                            *)

LEMMA NativeHolds == Spec => []Native(doc)
<1>1. Init => Native(doc)
  BY BlankIsNative DEF Init
<1>2. Native(doc) /\ [Next]_doc => Native(doc)'
  <2>1. ASSUME Native(doc), Next PROVE Native(doc)'
    BY <2>1, NextSteps DEF Stepped
  <2>2. ASSUME Native(doc), UNCHANGED doc PROVE Native(doc)'
    BY <2>2
  <2> QED BY <2>1, <2>2
<1> QED BY <1>1, <1>2, PTL DEF Spec

\* Whatever sections and positions are added, moved and deleted, in whatever order,
\* every document the editor keeps is one GAEB allows: a container has sections or a
\* list, no bucket is empty, the entries form a tree below the bill of quantities, and
\* the breakdown stays within the limit of levels (applyHierarchy, normalizeHierarchy).
THEOREM DocumentsStayNative == Spec => []NativeLayout
<1>1. Native(doc) => NativeLayout
  BY OutlinesAreTrees DEF Native, Proper, Exclusive, NativeLayout
<1> QED BY <1>1, NativeHolds, PTL

\* Wherever reordering, indenting, outdenting or dropping asks an entry to go, it lands
\* exactly there in the outline and nothing else changes its place, however moveEntry
\* has to wrap, split or drop buckets for it; a place in the outline is refused only
\* when the outline comes within one level of the limit.
THEOREM EntriesArrive == Spec => []EntriesLandWhereAsked
<1>1. ASSUME Native(doc), NEW e \in Present(doc), NEW l \in Targets(doc, e),
             NEW asked, asked = Tree!Placing(Outline(doc), e, l[1], l[2]),
             NEW moved, moved = MoveEntry(doc, e, l[1], l[2])
      PROVE  IF l[1] \in Items THEN moved = HierarchyCycle
             ELSE IF l[2] = e THEN moved = doc
             ELSE \/ moved \notin Errors /\ Outline(moved) = asked
                  \/ moved = HierarchyLimit /\ NeedsLevels(asked, MaxLevels)
  <2>1. PICK p, b : p = l[1] /\ b = l[2]
    OBVIOUS
  <2>2. moved = MoveEntry(doc, e, p, b) /\ asked = Tree!Placing(Outline(doc), e, p, b)
    BY <1>1, <2>1
  <2>3. CASE p \in Items
    <3>1. moved = HierarchyCycle
      BY <2>2, <2>3, Zenon DEF MoveEntry
    <3> QED BY <2>1, <2>3, <3>1
  <2>4. CASE p \notin Items
    <3>1. Fit(doc, e, p, b)
      BY <1>1, <2>1, <2>4, TargetsFit DEF Native
    <3>2. Movable(doc, e, p) /\ (b = NoEntry \/ b \in ToSet(Outline(doc)[p]))
      BY <3>1 DEF Fit
    <3>3. CASE b = e
      BY <2>1, <2>2, <2>4, <3>2, <3>3, MoveLands
    <3>4. CASE b # e
      <4>1. Moved(doc, e, p, b, moved)
        BY <2>2, <3>2, <3>4, MoveLands
      <4>2. CASE moved = doc /\ asked = Outline(doc)
        BY <1>1, <2>1, <2>4, <3>4, <4>2, NativeIsNoError
      <4>3. CASE Arrived(asked, moved)
        BY <2>1, <2>4, <3>4, <4>3, NativeIsNoError DEF Arrived
      <4> QED BY <2>2, <4>1, <4>2, <4>3 DEF Moved
    <3> QED BY <3>3, <3>4
  <2> QED BY <2>3, <2>4
<1>2. Native(doc) => EntriesLandWhereAsked
  BY <1>1, Zenon DEF EntriesLandWhereAsked
<1> QED BY <1>2, NativeHolds, PTL

LEMMA InitIsEmptyTree == Init => Tree!OutlineInit
  BY BlankOutline DEF Init, Tree!OutlineInit

\* An entry that stands is moved, another one inserted.
LEMMA StepsAreTreeSteps == Native(doc) /\ [Next]_doc => [Tree!OutlineNext]_(Outline(doc))
<1>1. ASSUME UNCHANGED doc PROVE Outline(doc)' = Outline(doc)
  BY <1>1
<1>2. ASSUME Native(doc), Next PROVE [Tree!OutlineNext]_(Outline(doc))
  <2>1. Stepped(doc, doc')
    BY <1>2, NextSteps
  <2>2. CASE doc' = doc
    BY <1>1, <2>2
  <2>3. ASSUME NEW e \in Entries, Lands(doc, e, doc')
        PROVE  Tree!OutlineNext
    <3>1. PICK p \in Tree!Groups(Outline(doc)), b \in Entries :
              ~Within(doc, e, p) /\ Outline(doc') = Tree!Placing(Outline(doc), e, p, b)
      BY <2>3 DEF Lands
    <3>2. ~Tree!InsideOf(Outline(doc), e, p)
      BY <3>1 DEF Within
    <3>3. p \in Tree!Containers /\ b \in Tree!Elements /\ e \in Tree!Elements
      BY GroupsIs, TreeNames DEF Containers
    <3>4. CASE e \in Tree!Placed(Outline(doc))
      <4>1. Tree!Move(e)
        BY <3>1, <3>2, <3>3, <3>4, Zenon DEF Tree!Move
      <4> QED BY <3>3, <4>1 DEF Tree!OutlineNext
    <3>5. CASE e \notin Tree!Placed(Outline(doc))
      <4>1. Tree!Insert(e)
        BY <3>1, <3>3, <3>5, Zenon DEF Tree!Insert
      <4> QED BY <3>3, <4>1 DEF Tree!OutlineNext
    <3> QED BY <3>4, <3>5
  <2>4. ASSUME NEW e \in Present(doc), Outline(doc') = Tree!Without(Outline(doc), e)
        PROVE  Tree!OutlineNext
    <3>1. e \in Tree!Elements /\ e \in Tree!Placed(Outline(doc))
      BY <1>2, ParentOfPresent, TreeNames DEF Native, Present
    <3>2. Tree!Delete(e)
      BY <2>4, <3>1, Zenon DEF Tree!Delete
    <3> QED BY <3>1, <3>2 DEF Tree!OutlineNext
  <2> QED BY <2>1, <2>2, <2>3, <2>4 DEF Stepped
<1> QED BY <1>1, <1>2

\* What the user sees is an ordered tree that is changed by moves, insertions and
\* removals of one entry only: no normalisation, wrapping or splitting of buckets ever
\* shows (GaebOutline renders the children of a bucket in its place).
THEOREM HierarchyImplementsOutline == Spec => ImplementsOutlineTree
  BY InitIsEmptyTree, StepsAreTreeSteps, NativeHolds, PTL
     DEF Spec, ImplementsOutlineTree, Tree!OutlineSpec
=============================================================================
