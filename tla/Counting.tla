------------------------------ MODULE Counting ------------------------------
(***************************************************************************)
(* Facts about numbers and finite sets that the proofs about the servers    *)
(* keep needing: the least free descriptor exists, there is a free one for  *)
(* a connection that has none, and adding an entry to a list or removing    *)
(* one changes how often it holds each value.                               *)
(***************************************************************************)
EXTENDS Sequences, FiniteSetTheorems, TLAPS

(* A set of natural numbers that is not empty has a least element.          *)
LEMMA LeastExists ==
    ASSUME NEW S \in SUBSET Nat, S # {}
    PROVE  \E x \in S : \A y \in S : x <= y
<1>1. PICK x \in S : \A y \in S : ~(<<y, x>> \in OpToRel(<, Nat))
      BY WFMin, NatLessThanWellFounded
<1>2. \A y \in S : <<y, x>> \in OpToRel(<, Nat) <=> y < x
      BY DEF OpToRel
<1>3. \A y \in S : ~(y < x)
      BY <1>1, <1>2, Zenon
<1> QED BY <1>3

(* As many places as there are things, each thing in at most one of them,   *)
(* one thing in none: then a place is free.                                 *)
LEMMA FreePlace ==
    ASSUME NEW T, IsFiniteSet(T), NEW none, none \notin T,
           NEW place \in [1 .. Cardinality(T) -> T \cup {none}],
           \A i, j \in DOMAIN place : place[i] = place[j] /\ place[i] # none => i = j,
           NEW c \in T, \A i \in DOMAIN place : place[i] # c
    PROVE  \E i \in DOMAIN place : place[i] = none
<1> DEFINE D == 1 .. Cardinality(T)
<1>1. Cardinality(T) \in Nat
      BY FS_CardinalityType
<1>2. IsFiniteSet(D) /\ Cardinality(D) = Cardinality(T)
      BY <1>1, FS_Interval
<1> SUFFICES ASSUME \A i \in D : place[i] # none PROVE FALSE
    OBVIOUS
<1>3. place \in [D -> T \ {c}]
      OBVIOUS
<1>4. IsFiniteSet(T \ {c}) /\ Cardinality(T \ {c}) < Cardinality(D)
  <2>1. IsFiniteSet(T \ {c}) /\ Cardinality(T \ {c}) = Cardinality(T) - 1
        BY FS_RemoveElement
  <2> QED BY <1>1, <1>2, <2>1
<1>5. \E i, j \in D : i # j /\ place[i] = place[j]
      BY <1>2, <1>3, <1>4, FS_PigeonHole
<1> QED BY <1>5

(* One element more, one element less.                                      *)
LEMMA OneMore ==
    ASSUME NEW S, IsFiniteSet(S), NEW x, x \notin S
    PROVE  /\ IsFiniteSet(S \cup {x})
           /\ Cardinality(S) \in Nat
           /\ Cardinality(S \cup {x}) = Cardinality(S) + 1
BY FS_AddElement, FS_CardinalityType

LEMMA OneLess ==
    ASSUME NEW S, IsFiniteSet(S), NEW x \in S
    PROVE  /\ IsFiniteSet(S \ {x})
           /\ Cardinality(S \ {x}) = Cardinality(S) - 1
           /\ Cardinality(S) \in Nat \ {0}
<1>1. Cardinality(S) \in Nat /\ Cardinality(S) # 0
      BY FS_CardinalityType, FS_EmptySet
<1> QED BY <1>1, FS_RemoveElement

-----------------------------------------------------------------------------
(* Lists from which an entry is removed                                     *)

Without(s, i) == SubSeq(s, 1, i - 1) \o SubSeq(s, i + 1, Len(s))

At(s, x) == {j \in DOMAIN s : s[j] = x}

LEMMA WithoutType ==
    ASSUME NEW S, NEW s \in Seq(S), NEW i \in DOMAIN s
    PROVE  /\ Without(s, i) \in Seq(S)
           /\ DOMAIN Without(s, i) = 1 .. Len(s) - 1
           /\ \A j \in 1 .. Len(s) - 1 : Without(s, i)[j] = IF j < i THEN s[j] ELSE s[j + 1]
<1>1. i \in 1 .. Len(s) /\ Len(s) \in Nat
      OBVIOUS
<1> DEFINE a == SubSeq(s, 1, i - 1)
           b == SubSeq(s, i + 1, Len(s))
<1>2. a \in Seq(S) /\ Len(a) = i - 1 /\ \A j \in 1 .. i - 1 : a[j] = s[j]
      BY <1>1
<1>3. b \in Seq(S) /\ Len(b) = Len(s) - i /\ \A j \in 1 .. Len(s) - i : b[j] = s[i + j]
      BY <1>1
<1> HIDE DEF a, b
<1>4. a \o b \in Seq(S) /\ Len(a \o b) = Len(s) - 1
      BY <1>1, <1>2, <1>3
<1>5. ASSUME NEW j \in 1 .. Len(s) - 1
      PROVE  (a \o b)[j] = IF j < i THEN s[j] ELSE s[j + 1]
  <2>1. CASE j < i
        BY <1>1, <1>2, <1>3, <2>1
  <2>2. CASE ~(j < i)
    <3>1. j - (i - 1) \in 1 .. Len(s) - i
          BY <1>1, <2>2
    <3>2. (a \o b)[j] = b[j - (i - 1)]
          BY <1>1, <1>2, <1>3, <2>2
    <3> QED BY <1>1, <1>3, <2>2, <3>1, <3>2
  <2> QED BY <2>1, <2>2
<1>6. DOMAIN (a \o b) = 1 .. Len(s) - 1
      BY <1>4
<1>7. Without(s, i) = a \o b
      BY DEF Without, a, b
<1> QED BY <1>4, <1>5, <1>6, <1>7

LEMMA WithoutAt ==
    ASSUME NEW S, NEW s \in Seq(S), NEW i \in DOMAIN s, NEW x
    PROVE  /\ IsFiniteSet(At(s, x)) /\ IsFiniteSet(At(Without(s, i), x))
           /\ Cardinality(At(Without(s, i), x))
                = IF s[i] = x THEN Cardinality(At(s, x)) - 1 ELSE Cardinality(At(s, x))
<1> DEFINE A == At(s, x) \ {i}
           B == At(Without(s, i), x)
           f == [j \in A |-> IF j < i THEN j ELSE j - 1]
<1>1. i \in 1 .. Len(s) /\ Len(s) \in Nat /\ DOMAIN s = 1 .. Len(s)
      OBVIOUS
<1>2. IsFiniteSet(At(s, x))
  <2>1. At(s, x) \subseteq 1 .. Len(s)
        BY <1>1 DEF At
  <2>2. IsFiniteSet(1 .. Len(s))
        BY <1>1, FS_Interval
  <2> QED BY <2>1, <2>2, FS_Subset
<1>3. f \in [A -> B]
  <2>1. ASSUME NEW j \in A
        PROVE  (IF j < i THEN j ELSE j - 1) \in B
    <3>1. j \in 1 .. Len(s) /\ s[j] = x /\ j # i
          BY <1>1, <2>1 DEF At
    <3>2. CASE j < i
      <4>1. j \in 1 .. Len(s) - 1 /\ Without(s, i)[j] = x
            BY <1>1, <3>1, <3>2, WithoutType
      <4> QED BY <3>2, <4>1, WithoutType DEF At
    <3>3. CASE ~(j < i)
      <4>1. j - 1 \in 1 .. Len(s) - 1 /\ ~(j - 1 < i) /\ (j - 1) + 1 = j
            BY <1>1, <3>1, <3>3
      <4>2. Without(s, i)[j - 1] = s[(j - 1) + 1]
            BY <4>1, WithoutType
      <4>3. Without(s, i)[j - 1] = x
            BY <3>1, <4>1, <4>2
      <4> QED BY <3>3, <4>1, <4>3, WithoutType DEF At
    <3> QED BY <3>2, <3>3
  <2> QED BY <2>1
<1>4. \A j, k \in A : f[j] = f[k] => j = k
      BY <1>1 DEF At
<1>5. ASSUME NEW k \in B
      PROVE  \E j \in A : f[j] = k
  <2>1. k \in 1 .. Len(s) - 1 /\ Without(s, i)[k] = x
        BY <1>1, <1>5, WithoutType DEF At
  <2>2. CASE k < i
    <3>1. k \in 1 .. Len(s) /\ s[k] = x /\ k # i
          BY <1>1, <2>1, <2>2, WithoutType
    <3>2. k \in A
          BY <1>1, <3>1 DEF At
    <3> QED BY <2>2, <3>2
  <2>3. CASE ~(k < i)
    <3>1. k + 1 \in A
      <4>1. k + 1 \in 1 .. Len(s) /\ s[k + 1] = x /\ k + 1 # i
            BY <1>1, <2>1, <2>3, WithoutType
      <4> QED BY <1>1, <4>1 DEF At
    <3>2. f[k + 1] = k
          BY <1>1, <2>1, <2>3, <3>1
    <3> QED BY <3>1, <3>2
  <2> QED BY <2>2, <2>3
<1>6. ExistsBijection(A, B)
  <2> HIDE DEF A, B, f
  <2>1. f \in Injection(A, B)
        BY <1>3, <1>4 DEF Injection, IsInjective
  <2>2. f \in Surjection(A, B)
        BY <1>3, <1>5 DEF Surjection
  <2> QED BY <2>1, <2>2 DEF ExistsBijection, Bijection
<1>7. IsFiniteSet(A) /\ IsFiniteSet(B) /\ Cardinality(B) = Cardinality(A)
  <2>1. IsFiniteSet(A)
        BY <1>2, FS_Subset
  <2> QED BY <1>6, <2>1, FS_Bijection
<1>8. i \in At(s, x) <=> s[i] = x
      BY DEF At
<1>9. s[i] = x => Cardinality(A) = Cardinality(At(s, x)) - 1
      BY <1>2, <1>8, OneLess
<1>10. s[i] # x => A = At(s, x)
      BY <1>8
<1> QED BY <1>2, <1>7, <1>9, <1>10

LEMMA AppendAt ==
    ASSUME NEW S, NEW s \in Seq(S), NEW y \in S, NEW x
    PROVE  /\ IsFiniteSet(At(s, x)) /\ Cardinality(At(s, x)) \in Nat
           /\ Cardinality(At(Append(s, y), x))
                = IF y = x THEN Cardinality(At(s, x)) + 1 ELSE Cardinality(At(s, x))
<1>1. Len(s) \in Nat /\ DOMAIN s = 1 .. Len(s) /\ DOMAIN Append(s, y) = 1 .. Len(s) + 1
      OBVIOUS
<1>2. \A j \in 1 .. Len(s) + 1 : Append(s, y)[j] = IF j = Len(s) + 1 THEN y ELSE s[j]
      OBVIOUS
<1>3. At(Append(s, y), x) = IF y = x THEN At(s, x) \cup {Len(s) + 1} ELSE At(s, x)
      BY <1>1, <1>2 DEF At
<1>4. IsFiniteSet(At(s, x)) /\ Len(s) + 1 \notin At(s, x)
  <2>1. At(s, x) \subseteq 1 .. Len(s)
        BY <1>1 DEF At
  <2>2. IsFiniteSet(1 .. Len(s))
        BY <1>1, FS_Interval
  <2>3. Len(s) + 1 \notin 1 .. Len(s)
        BY <1>1
  <2> QED BY <2>1, <2>2, <2>3, FS_Subset
<1>5. Cardinality(At(s, x)) \in Nat
      BY <1>4, FS_CardinalityType
<1> QED BY <1>3, <1>4, <1>5, OneMore
=============================================================================
