--------------------------- MODULE Counting_proofs ---------------------------
(***************************************************************************)
(* What sending and reading do to the number of messages under way, and    *)
(* the first and the last of a set of positions: lemmas for the proofs     *)
(* about the handshake and the exchange.                                   *)
(***************************************************************************)
EXTENDS Counting, FiniteSetTheorems, SequenceTheorems, WellFoundedInduction, TLAPS

Places(ch, m) == {i \in DOMAIN ch : ch[i] = m}

LEMMA CountPlaces ==
  ASSUME NEW ch, NEW m
  PROVE  CountOf(ch, m) = Cardinality(Places(ch, m))
  BY DEF CountOf, Places

LEMMA PlacesFinite ==
  ASSUME NEW S, NEW ch \in Seq(S), NEW m
  PROVE  IsFiniteSet(Places(ch, m))
  <1>1. Len(ch) \in Nat /\ DOMAIN ch = 1 .. Len(ch)  OBVIOUS
  <1>2. IsFiniteSet(1 .. Len(ch))  BY <1>1, FS_Interval
  <1> QED  BY <1>1, <1>2, FS_Subset DEF Places

\* A channel holds a number of messages of a kind.
LEMMA CountIsNat ==
  ASSUME NEW S, NEW ch \in Seq(S), NEW m
  PROVE  CountOf(ch, m) \in Nat
  BY PlacesFinite, CountPlaces, FS_CardinalityType

\* An empty one holds none.
LEMMA CountEmpty ==
  ASSUME NEW m
  PROVE  CountOf(<<>>, m) = 0
  <1>1. {i \in DOMAIN <<>> : <<>>[i] = m} = {}  OBVIOUS
  <1> QED  BY <1>1, FS_EmptySet DEF CountOf

\* What is sent counts from then on.
LEMMA CountAppend ==
  ASSUME NEW S, NEW ch \in Seq(S), NEW x \in S, NEW m
  PROVE  CountOf(Append(ch, x), m) = CountOf(ch, m) + IF x = m THEN 1 ELSE 0
  <1>1. /\ Len(ch) \in Nat /\ DOMAIN ch = 1 .. Len(ch)
        /\ DOMAIN Append(ch, x) = 1 .. Len(ch) + 1
        /\ \A i \in 1 .. Len(ch) : Append(ch, x)[i] = ch[i]
        /\ Append(ch, x)[Len(ch) + 1] = x
    BY AppendProperties
  <1>2. CASE x = m
    <2>1. Places(Append(ch, x), m) = Places(ch, m) \cup {Len(ch) + 1}
      BY <1>1, <1>2 DEF Places
    <2>2. Len(ch) + 1 \notin Places(ch, m)  BY <1>1 DEF Places
    <2>3. IsFiniteSet(Places(ch, m))  BY PlacesFinite
    <2>4. Cardinality(Places(ch, m) \cup {Len(ch) + 1}) = Cardinality(Places(ch, m)) + 1
      BY <2>2, <2>3, FS_AddElement
    <2> QED  BY <1>2, <2>1, <2>4, CountPlaces
  <1>3. CASE x # m
    <2>1. Places(Append(ch, x), m) = Places(ch, m)
      BY <1>1, <1>3 DEF Places
    <2>2. CountOf(ch, m) \in Nat  BY CountIsNat
    <2> QED  BY <1>3, <2>1, <2>2, CountPlaces
  <1> QED  BY <1>2, <1>3

\* What is read does not count any more.
LEMMA CountTail ==
  ASSUME NEW S, NEW ch \in Seq(S), ch # <<>>, NEW m
  PROVE  CountOf(ch, m) = CountOf(Tail(ch), m) + IF Head(ch) = m THEN 1 ELSE 0
  <1> DEFINE T == Tail(ch)
             P == Places(ch, m) \ {1}
  <1>1. /\ Len(ch) \in Nat \ {0} /\ DOMAIN ch = 1 .. Len(ch)
        /\ T \in Seq(S) /\ DOMAIN T = 1 .. Len(ch) - 1
        /\ \A i \in 1 .. Len(ch) - 1 : T[i] = ch[i + 1]
        /\ Head(ch) = ch[1]
    BY HeadTailProperties
  <1>2. IsFiniteSet(Places(T, m)) /\ IsFiniteSet(Places(ch, m))
    BY <1>1, PlacesFinite
  <1>3. Cardinality(P) = Cardinality(Places(T, m))
    <2> DEFINE f == [i \in Places(T, m) |-> i + 1]
    <2>1. \A i \in Places(T, m) : f[i] \in P
      BY <1>1 DEF Places
    <2>2. \A i, j \in Places(T, m) : f[i] = f[j] => i = j
      BY <1>1 DEF Places
    <2>3. \A p \in P : p - 1 \in Places(T, m) /\ f[p - 1] = p
      BY <1>1 DEF Places
    <2>4. f \in [Places(T, m) -> P]  BY <2>1
    <2>6. \A p \in P : \E i \in Places(T, m) : f[i] = p  BY <2>3
    <2>7. f \in Bijection(Places(T, m), P)
      <3> HIDE DEF f, P
      <3> QED  BY <2>2, <2>4, <2>6 DEF Bijection, Injection, Surjection, IsInjective
    <2>5. ExistsBijection(Places(T, m), P)  BY <2>7 DEF ExistsBijection
    <2> QED  BY <1>2, <2>5, FS_Bijection
  <1>4. CASE Head(ch) = m
    <2>1. 1 \in Places(ch, m)  BY <1>1, <1>4 DEF Places
    <2>2. Cardinality(P) = Cardinality(Places(ch, m)) - 1 /\ Cardinality(Places(ch, m)) \in Nat
      BY <1>2, <2>1, FS_RemoveElement, FS_CardinalityType
    <2> QED  BY <1>3, <1>4, <2>2, CountPlaces
  <1>5. CASE Head(ch) # m
    <2>1. P = Places(ch, m)  BY <1>1, <1>5 DEF Places
    <2>2. CountOf(ch, m) \in Nat  BY CountIsNat
    <2>3. CountOf(ch, m) = CountOf(T, m)
      <3> HIDE DEF T, P
      <3> QED  BY <1>3, <2>1, CountPlaces
    <2> QED  BY <1>5, <2>2, <2>3
  <1> QED  BY <1>4, <1>5

\* A set of positions has a first.
LEMMA FirstExists ==
  ASSUME NEW S \in SUBSET Nat, S # {}
  PROVE  \E n \in S : \A m \in S : n <= m
  <1> DEFINE R == OpToRel(<, Nat)
  <1>1. IsWellFoundedOn(R, Nat)  BY NatLessThanWellFounded
  <1>2. \A x, y \in S : y < x => <<y, x>> \in R  BY DEF OpToRel
  <1> HIDE DEF R
  <1>3. PICK x \in S : \A y \in S : ~ (<<y, x>> \in R)  BY <1>1, WFMin
  <1>4. x \in Nat /\ \A y \in S : ~ (y < x)  BY <1>2, <1>3
  <1> QED  BY <1>4

\* One within a sequence has a last.
LEMMA LastExists ==
  ASSUME NEW n \in Nat, NEW S \in SUBSET (1 .. n), S # {}
  PROVE  \E p \in S : \A q \in S : q <= p
  <1> DEFINE D == {n - p : p \in S}
  <1>1. D \in SUBSET Nat /\ D # {}
    <2>1. \A p \in S : n - p \in Nat  OBVIOUS
    <2> QED  BY <2>1
  <1>2. PICK d \in D : \A e \in D : d <= e  BY <1>1, FirstExists
  <1>3. PICK p \in S : d = n - p  BY <1>2
  <1>4. \A q \in S : n - q \in D  OBVIOUS
  <1>5. \A q \in S : q <= p
    <2> SUFFICES ASSUME NEW q \in S PROVE q <= p  OBVIOUS
    <2>1. n - p <= n - q  BY <1>2, <1>3, <1>4
    <2>2. p \in Nat /\ q \in Nat  OBVIOUS
    <2> QED  BY <2>1, <2>2
  <1> QED  BY <1>5
=============================================================================
