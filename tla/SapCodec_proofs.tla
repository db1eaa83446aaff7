---------------------------- MODULE SapCodec_proofs ----------------------------
(***************************************************************************)
(* What the two parsers of SapCodec read, for every message: a capex       *)
(* response and a service connection response give back what they were     *)
(* built from, whole or cut at any byte.                                   *)
(*                                                                         *)
(* The parser of capex responses is a loop in a loop, modelled by two      *)
(* recursive functions.  What they compute is proved without induction     *)
(* over data: a run that goes wrong would have a first step that does.     *)
(***************************************************************************)
EXTENDS SapCodec, Counting_proofs
-----------------------------------------------------------------------------
(* Numbers and sequences.                                                  *)

LEMMA TwoBytes ==
  ASSUME NEW v \in Nat
  PROVE  /\ 256 * (v \div 256) + (v % 256) = v
         /\ v \div 256 \in Nat /\ v % 256 \in Nat
  OBVIOUS

LEMMA Joined ==
  ASSUME NEW a \in Seq(Nat), NEW c \in Seq(Nat)
  PROVE  /\ a \o c \in Seq(Nat) /\ Len(a \o c) = Len(a) + Len(c)
         /\ \A i \in 1 .. Len(a) : (a \o c)[i] = a[i]
         /\ \A i \in 1 .. Len(c) : (a \o c)[Len(a) + i] = c[i]
  BY ConcatProperties

LEMMA Slice ==
  ASSUME NEW b \in Seq(Nat), NEW lo \in Int, NEW hi \in Int, 1 <= lo, hi <= Len(b)
  PROVE  /\ SubSeq(b, lo, hi) \in Seq(Nat)
         /\ Len(SubSeq(b, lo, hi)) = IF lo <= hi THEN hi - lo + 1 ELSE 0
         /\ \A i \in 1 .. hi - lo + 1 : SubSeq(b, lo, hi)[i] = b[lo + i - 1]
  <1>1. Len(b) \in Nat /\ \A i \in 1 .. Len(b) : b[i] \in Nat  OBVIOUS
  <1>2. \A i \in lo .. hi : i \in 1 .. Len(b)  BY <1>1
  <1>3. \A i \in lo .. hi : b[i] \in Nat  BY <1>1, <1>2
  <1> QED  BY <1>3, SubSeqProperties

LEMMA Beginning ==
  ASSUME NEW b \in Seq(Nat), NEW k \in Nat, k <= Len(b)
  PROVE  /\ SubSeq(b, 1, k) \in Seq(Nat) /\ Len(SubSeq(b, 1, k)) = k
         /\ \A i \in 1 .. k : SubSeq(b, 1, k)[i] = b[i]
  <1>1. Len(b) \in Nat  OBVIOUS
  <1> QED  BY <1>1, SubSeqProperties
-----------------------------------------------------------------------------
(* A loop: from a state of D that is not in `stop` a step leads to one of   *)
(* lower rank, and `out` is what it ends with.                              *)

Loops(f, D, stop, out, step) ==
  f = [s \in D |-> IF s \in stop THEN out[s] ELSE f[step[s]]]

Descends(D, stop, rank, step) ==
  /\ stop \in SUBSET D /\ rank \in [D -> Nat] /\ step \in [D -> D]
  /\ \A s \in D \ stop : rank[step[s]] < rank[s]

\* A loop that ends is a function: the recursive definition of one has a value.
LEMMA LoopExists ==
  ASSUME NEW D, NEW stop, NEW out, NEW rank, NEW step, Descends(D, stop, rank, step)
  PROVE  \E f : Loops(f, D, stop, out, step)
  <1> USE DEF Descends
  <1> DEFINE Low(n) == {s \in D : rank[s] < n}
             Is(f, n) == Loops(f, Low(n), stop, out, step)
             bad == {n \in Nat : ~ \E f : Is(f, n)}
  <1>1. \E f : Is(f, 0)
    <2>1. Low(0) = {}  OBVIOUS
    <2> DEFINE e == [s \in Low(0) |-> IF s \in stop THEN out[s] ELSE s]
    <2>2. e = [s \in Low(0) |-> IF s \in stop THEN out[s] ELSE e[step[s]]]  BY <2>1
    <2> QED  BY <2>2 DEF Loops
  <1>2. ASSUME NEW n \in Nat, NEW f, Is(f, n)
        PROVE  \E g : Is(g, n + 1)
    <2> DEFINE g == [s \in Low(n + 1) |-> IF s \in stop THEN out[s] ELSE f[step[s]]]
    <2>1. \A s \in Low(n) : f[s] = IF s \in stop THEN out[s] ELSE f[step[s]]
      BY <1>2 DEF Loops
    <2>2. \A s \in Low(n) : s \in Low(n + 1)  OBVIOUS
    <2>3. \A s \in Low(n) : f[s] = g[s]  BY <2>1, <2>2
    <2>4. \A s \in Low(n + 1) \ stop : step[s] \in Low(n)
      <3> SUFFICES ASSUME NEW s \in Low(n + 1) \ stop PROVE step[s] \in Low(n)  OBVIOUS
      <3>1. step[s] \in D /\ rank[step[s]] < rank[s] /\ rank[s] < n + 1  OBVIOUS
      <3>2. rank[step[s]] \in Nat /\ rank[s] \in Nat  BY <3>1
      <3> QED  BY <3>1, <3>2
    <2>5. g = [s \in Low(n + 1) |-> IF s \in stop THEN out[s] ELSE g[step[s]]]
      BY <2>3, <2>4
    <2> QED  BY <2>5 DEF Loops
  <1>3. \A n \in Nat : \E f : Is(f, n)
    <2> SUFFICES ASSUME bad # {} PROVE FALSE  OBVIOUS
    <2> HIDE DEF Is
    <2>1. PICK n \in bad : \A m \in bad : n <= m  BY FirstExists
    <2>2. n # 0  BY <1>1, <2>1
    <2>3. n - 1 \in Nat /\ n - 1 \notin bad /\ (n - 1) + 1 = n  BY <2>1, <2>2
    <2>4. \E f : Is(f, n - 1)  BY <2>3
    <2> QED  BY <1>2, <2>1, <2>3, <2>4
  <1>4. ASSUME NEW n \in Nat, NEW m \in Nat, NEW f, NEW g, Is(f, n), Is(g, m),
               NEW s \in D, rank[s] < n, rank[s] < m
        PROVE  f[s] = g[s]
    <2> DEFINE Both == {x \in D : rank[x] < n /\ rank[x] < m}
               differ == {rank[x] : x \in {y \in Both : f[y] # g[y]}}
    <2>1. \A x \in Both : /\ f[x] = IF x \in stop THEN out[x] ELSE f[step[x]]
                          /\ g[x] = IF x \in stop THEN out[x] ELSE g[step[x]]
      BY <1>4 DEF Loops
    <2>2. \A x \in Both \ stop : step[x] \in Both /\ rank[step[x]] < rank[x]
      <3> SUFFICES ASSUME NEW x \in Both \ stop
                   PROVE  step[x] \in Both /\ rank[step[x]] < rank[x]
        OBVIOUS
      <3>1. step[x] \in D /\ rank[step[x]] < rank[x] /\ rank[x] < n /\ rank[x] < m  OBVIOUS
      <3>2. rank[step[x]] \in Nat /\ rank[x] \in Nat  BY <3>1
      <3> QED  BY <3>1, <3>2
    <2>3. SUFFICES ASSUME f[s] # g[s] PROVE FALSE  OBVIOUS
    <2>4. differ # {} /\ differ \in SUBSET Nat  BY <1>4, <2>3
    <2>5. PICK r \in differ : \A q \in differ : r <= q
      <3> HIDE DEF differ
      <3> QED  BY <2>4, FirstExists
    <2>6. PICK x \in Both : f[x] # g[x] /\ r = rank[x]  BY <2>5
    <2>7. x \notin stop  BY <2>1, <2>6
    <2>8. f[step[x]] # g[step[x]] /\ step[x] \in Both  BY <2>1, <2>2, <2>6, <2>7
    <2>9. rank[step[x]] \in differ /\ rank[step[x]] < r  BY <2>2, <2>6, <2>7, <2>8
    <2>10. rank[step[x]] \in Nat /\ r \in Nat  BY <2>4, <2>9
    <2>11. r <= rank[step[x]]  BY <2>5, <2>9
    <2> QED  BY <2>9, <2>10, <2>11
  <1> DEFINE part == [n \in Nat |-> CHOOSE f : Is(f, n)]
             whole == [s \in D |-> part[rank[s] + 1][s]]
  <1>5. \A n \in Nat : Is(part[n], n)
    <2> HIDE DEF Is
    <2> QED  BY <1>3
  <1>6. \A s \in D : whole[s] = IF s \in stop THEN out[s] ELSE whole[step[s]]
    <2> SUFFICES ASSUME NEW s \in D
                 PROVE  whole[s] = IF s \in stop THEN out[s] ELSE whole[step[s]]
      OBVIOUS
    <2> DEFINE n == rank[s] + 1
               m == rank[step[s]] + 1
    <2>1. rank[s] \in Nat /\ rank[step[s]] \in Nat /\ n \in Nat /\ m \in Nat /\ step[s] \in D  OBVIOUS
    <2>2. Is(part[n], n) /\ Is(part[m], m)  BY <1>5, <2>1
    <2>3. whole[s] = part[n][s] /\ whole[step[s]] = part[m][step[s]]  BY <2>1
    <2>4. part[n][s] = IF s \in stop THEN out[s] ELSE part[n][step[s]]
      <3>1. s \in Low(n)  BY <2>1
      <3> HIDE DEF n, part
      <3> QED  BY <2>2, <3>1 DEF Loops
    <2>5. s \notin stop => part[n][step[s]] = part[m][step[s]]
      <3> SUFFICES ASSUME s \notin stop PROVE part[n][step[s]] = part[m][step[s]]  OBVIOUS
      <3>1. rank[step[s]] < n /\ rank[step[s]] < m  BY <2>1
      <3> HIDE DEF Is, n, m, part
      <3> QED  BY <1>4, <2>1, <2>2, <3>1
    <2> HIDE DEF whole, part, n, m
    <2> QED  BY <2>3, <2>4, <2>5
  <1>7. whole = [s \in D |-> IF s \in stop THEN out[s] ELSE whole[step[s]]]
    <2>1. whole = [s \in D |-> whole[s]]  OBVIOUS
    <2> HIDE DEF whole
    <2> QED  BY <1>6, <2>1
  <1> HIDE DEF whole
  <1> QED  BY <1>7 DEF Loops

\* It ends in a state where it stops, and what every step keeps holds there.
LEMMA LoopEnds ==
  ASSUME NEW D, NEW stop, NEW out, NEW rank, NEW step, Descends(D, stop, rank, step),
         NEW f, Loops(f, D, stop, out, step),
         NEW kept \in SUBSET D, \A s \in kept \ stop : step[s] \in kept,
         NEW start \in kept
  PROVE  \E s \in kept \cap stop : f[start] = out[s]
  <1> USE DEF Descends
  <1> DEFINE Ends(s) == \E e \in kept \cap stop : f[s] = out[e]
             bad == {rank[s] : s \in {x \in kept : ~Ends(x)}}
  <1>1. \A s \in D : f[s] = IF s \in stop THEN out[s] ELSE f[step[s]]  BY DEF Loops
  <1>2. SUFFICES ASSUME ~Ends(start) PROVE FALSE  OBVIOUS
  <1>3. bad # {} /\ bad \in SUBSET Nat
    <2> HIDE DEF Ends
    <2> QED  BY <1>2
  <1>4. PICK r \in bad : \A q \in bad : r <= q
    <2> HIDE DEF bad
    <2> QED  BY <1>3, FirstExists
  <1>5. PICK s \in kept : ~Ends(s) /\ r = rank[s]
    <2> HIDE DEF Ends
    <2> QED  BY <1>4
  <1>6. s \notin stop  BY <1>1, <1>5
  <1>7. step[s] \in kept /\ ~Ends(step[s])  BY <1>1, <1>5, <1>6
  <1>8. rank[step[s]] \in bad /\ rank[step[s]] < r
    <2> HIDE DEF Ends
    <2> QED  BY <1>5, <1>6, <1>7
  <1>9. r \in Nat /\ rank[step[s]] \in Nat /\ r <= rank[step[s]]  BY <1>3, <1>4, <1>8
  <1> QED  BY <1>8, <1>9

-----------------------------------------------------------------------------
(* Sequences laid one after the other.                                      *)

\* q is what msg holds from an offset on.
Lies(q, msg, offset) == /\ offset + Len(q) <= Len(msg)
                        /\ \A i \in 1 .. Len(q) : msg[offset + i] = q[i]
\* msg is the start of whole, perhaps all of it.
Starts(msg, whole) == Lies(msg, whole, 0)

\* The first n parts of a sequence of sequences, laid one by one.
LaidTo(f, q, n, S) == /\ f \in [0 .. n -> Seq(S)] /\ f[0] = <<>>
                      /\ \A i \in 1 .. n : f[i] = f[i - 1] \o q[i]
Laid(f, q, S) == LaidTo(f, q, Len(q), S)

LEMMA LaidOneMore ==
  ASSUME NEW S, NEW q, NEW n \in Nat \ {0}, q[n] \in Seq(S), NEW f, LaidTo(f, q, n - 1, S)
  PROVE  \E g : LaidTo(g, q, n, S)
  <1> DEFINE g == [i \in 0 .. n |-> IF i = n THEN f[n - 1] \o q[n] ELSE f[i]]
  <1>1. /\ f \in [0 .. n - 1 -> Seq(S)] /\ f[0] = <<>>
        /\ \A i \in 1 .. n - 1 : f[i] = f[i - 1] \o q[i]
    BY DEF LaidTo
  <1>2. n - 1 \in 0 .. n - 1 /\ f[n - 1] \in Seq(S)  BY <1>1
  <1>3. f[n - 1] \o q[n] \in Seq(S)  BY <1>2, ConcatProperties
  <1>4. \A i \in 0 .. n - 1 : g[i] = f[i]  OBVIOUS
  <1>5. g[n] = f[n - 1] \o q[n]
    <2>1. n \in 0 .. n  OBVIOUS
    <2> QED  BY <2>1
  <1>6. \A i \in 0 .. n : i = n \/ i \in 0 .. n - 1  OBVIOUS
  <1>7. g = [i \in 0 .. n |-> g[i]]  OBVIOUS
  <1> HIDE DEF g
  <1>8. \A i \in 0 .. n : g[i] \in Seq(S)  BY <1>1, <1>3, <1>4, <1>5, <1>6
  <1>9. g \in [0 .. n -> Seq(S)]  BY <1>7, <1>8
  <1>10. g[0] = <<>>
    <2>1. 0 \in 0 .. n - 1  OBVIOUS
    <2> QED  BY <1>1, <1>4, <2>1
  <1>11. \A i \in 1 .. n : g[i] = g[i - 1] \o q[i]
    <2> SUFFICES ASSUME NEW i \in 1 .. n PROVE g[i] = g[i - 1] \o q[i]  OBVIOUS
    <2>1. i - 1 \in 0 .. n - 1 /\ (i = n \/ i \in 1 .. n - 1)  OBVIOUS
    <2>2. g[i - 1] = f[i - 1]  BY <1>4, <2>1
    <2>3. CASE i = n  BY <1>5, <2>2, <2>3
    <2>4. CASE i \in 1 .. n - 1
      <3>1. i \in 0 .. n - 1  BY <2>4
      <3>2. g[i] = f[i]  BY <1>4, <3>1
      <3> QED  BY <1>1, <2>2, <2>4, <3>2
    <2> QED  BY <2>1, <2>3, <2>4
  <1> QED  BY <1>9, <1>10, <1>11 DEF LaidTo

LEMMA LaidExists ==
  ASSUME NEW S, NEW q \in Seq(Seq(S))
  PROVE  \E f : Laid(f, q, S)
  <1> DEFINE N == Len(q)
             bad == {n \in 0 .. N : ~ \E f : LaidTo(f, q, n, S)}
  <1>1. N \in Nat /\ \A i \in 1 .. N : q[i] \in Seq(S)  OBVIOUS
  <1> HIDE DEF N
  <1>2. LaidTo([i \in 0 .. 0 |-> <<>>], q, 0, S)
    <2> DEFINE f == [i \in 0 .. 0 |-> <<>>]
    <2>1. \A i \in 0 .. 0 : f[i] \in Seq(S)  OBVIOUS
    <2>2. f \in [0 .. 0 -> Seq(S)] /\ f[0] = <<>>  BY <2>1
    <2>3. 1 .. 0 = {}  OBVIOUS
    <2> QED  BY <2>2, <2>3 DEF LaidTo
  <1>3. bad = {}
    <2> SUFFICES ASSUME bad # {} PROVE FALSE  OBVIOUS
    <2>1. bad \in SUBSET Nat  BY <1>1
    <2>2. PICK n \in bad : \A m \in bad : n <= m
      <3> HIDE DEF bad
      <3> QED  BY <2>1, FirstExists
    <2>3. n \in 0 .. N /\ ~ \E f : LaidTo(f, q, n, S)  BY <2>2
    <2>4. n # 0  BY <1>2, <2>3
    <2>5. n \in Nat \ {0} /\ n \in 1 .. N /\ n - 1 \in 0 .. N /\ ~ (n <= n - 1)
      BY <1>1, <2>3, <2>4
    <2>6. n - 1 \notin bad
      <3> HIDE DEF bad
      <3> QED  BY <2>2, <2>5
    <2>7. \E f : LaidTo(f, q, n - 1, S)  BY <2>5, <2>6
    <2> QED  BY <1>1, <2>3, <2>5, <2>7, LaidOneMore
  <1>4. N \in 0 .. N  BY <1>1
  <1>5. \E f : LaidTo(f, q, N, S)  BY <1>3, <1>4
  <1> QED  BY <1>5 DEF Laid, N

\* Flattening lays all of them.
LEMMA Flattened ==
  ASSUME NEW S, NEW q \in Seq(Seq(S)), NEW f, Laid(f, q, S)
  PROVE  FlattenSeq(q) = f[Len(q)]
  <1> DEFINE n == Len(q)
             Is(h) == h = [i \in 1 .. n |-> IF i = 1 THEN q[i] ELSE h[i - 1] \o q[i]]
             c == CHOOSE h : Is(h)
             bad == {i \in 1 .. n : c[i] # f[i]}
  <1>1. n \in Nat /\ (\A i \in 1 .. n : q[i] \in Seq(S)) /\ (n = 0 => q = <<>>)  OBVIOUS
  <1>2. /\ \A i \in 0 .. n : f[i] \in Seq(S)
        /\ f[0] = <<>> /\ \A i \in 1 .. n : f[i] = f[i - 1] \o q[i]
    BY DEF Laid, LaidTo
  <1>3. CASE n = 0  BY <1>1, <1>2, <1>3 DEF FlattenSeq
  <1>4. CASE n # 0
    <2>1. FlattenSeq(q) = c[n]  BY <1>4 DEF FlattenSeq
    <2>2. f[1] = q[1]
      <3>1. 1 \in 1 .. n  BY <1>1, <1>4
      <3>2. f[1] = f[1 - 1] \o q[1] /\ q[1] \in Seq(S)  BY <1>1, <1>2, <3>1
      <3>3. 1 - 1 = 0 /\ <<>> \o q[1] = q[1]  BY <3>2, ConcatEmptySeq
      <3> QED  BY <1>2, <3>2, <3>3
    <2> DEFINE h == [i \in 1 .. n |-> f[i]]
    <2>3. Is(h)
      <3>1. \A i \in 1 .. n : i # 1 => i - 1 \in 1 .. n  BY <1>1
      <3>2. \A i \in 1 .. n : h[i] = IF i = 1 THEN q[i] ELSE h[i - 1] \o q[i]
        BY <1>2, <2>2, <3>1
      <3>3. h = [i \in 1 .. n |-> h[i]]  OBVIOUS
      <3> HIDE DEF h
      <3>4. h = [i \in 1 .. n |-> IF i = 1 THEN q[i] ELSE h[i - 1] \o q[i]]  BY <3>2, <3>3
      <3> QED  BY <3>4
    <2>4. Is(c)
      <3> HIDE DEF Is, h
      <3> QED  BY <2>3
    <2>5. \A i \in 1 .. n : c[i] = IF i = 1 THEN q[i] ELSE c[i - 1] \o q[i]
      <3> HIDE DEF c
      <3> QED  BY <2>4
    <2>6. bad = {}
      <3> HIDE DEF c, Is
      <3> SUFFICES ASSUME bad # {} PROVE FALSE  OBVIOUS
      <3>1. bad \in SUBSET Nat  BY <1>1
      <3>2. PICK i \in bad : \A j \in bad : i <= j
        <4> HIDE DEF bad
        <4> QED  BY <3>1, FirstExists
      <3>3. i \in 1 .. n /\ c[i] # f[i] /\ i # 1
        <4>1. 1 \in 1 .. n  BY <1>1, <1>4
        <4> QED  BY <2>2, <2>5, <3>2, <4>1
      <3>4. i - 1 \in 1 .. n /\ i - 1 \notin bad  BY <1>1, <3>1, <3>2, <3>3
      <3>5. c[i - 1] = f[i - 1]  BY <3>4
      <3> QED  BY <1>2, <2>5, <3>3, <3>5
    <2>7. n \in 1 .. n  BY <1>1, <1>4
    <2> HIDE DEF c
    <2> QED  BY <2>1, <2>6, <2>7
  <1> QED  BY <1>3, <1>4

LEMMA LiesApart ==
  ASSUME NEW S, NEW a \in Seq(S), NEW b \in Seq(S), NEW msg, Len(msg) \in Nat,
         NEW p \in Nat, Lies(a \o b, msg, p)
  PROVE  Lies(a, msg, p) /\ Lies(b, msg, p + Len(a))
  <1> DEFINE c == a \o b
  <1>1. /\ Len(a) \in Nat /\ Len(b) \in Nat /\ Len(c) = Len(a) + Len(b)
        /\ \A i \in 1 .. Len(a) : c[i] = a[i]
        /\ \A i \in 1 .. Len(b) : c[Len(a) + i] = b[i]
    BY ConcatProperties
  <1>2. p + Len(c) <= Len(msg) /\ \A i \in 1 .. Len(c) : msg[p + i] = c[i]  BY DEF Lies
  <1> HIDE DEF c
  <1>3. Lies(a, msg, p)  BY <1>1, <1>2 DEF Lies
  <1>4. ASSUME NEW i \in 1 .. Len(b) PROVE msg[p + Len(a) + i] = b[i]
    <2>1. Len(a) + i \in 1 .. Len(c) /\ p + (Len(a) + i) = p + Len(a) + i  BY <1>1
    <2>2. msg[p + (Len(a) + i)] = c[Len(a) + i]  BY <1>2, <2>1
    <2> QED  BY <1>1, <2>1, <2>2
  <1>5. p + Len(a) + Len(b) <= Len(msg)  BY <1>1, <1>2
  <1> QED  BY <1>3, <1>4, <1>5 DEF Lies

\* Where the whole lies, each of the sequences does, after those before it.
LEMMA EachLies ==
  ASSUME NEW S, NEW q \in Seq(Seq(S)), NEW f, Laid(f, q, S), NEW msg, Len(msg) \in Nat,
         NEW p \in Nat, Lies(f[Len(q)], msg, p), NEW i \in 1 .. Len(q)
  PROVE  /\ Lies(q[i], msg, p + Len(f[i - 1]))
         /\ Len(f[i]) = Len(f[i - 1]) + Len(q[i])
         /\ Len(f[i - 1]) \in Nat
  <1> DEFINE n == Len(q)
             bad == {d \in 0 .. n : ~Lies(f[n - d], msg, p)}
  <1>1. n \in Nat /\ \A j \in 1 .. n : q[j] \in Seq(S)  OBVIOUS
  <1>2. /\ \A j \in 0 .. n : f[j] \in Seq(S)
        /\ \A j \in 1 .. n : f[j] = f[j - 1] \o q[j]
    BY DEF Laid, LaidTo
  <1>3. i \in 1 .. n /\ Lies(f[n], msg, p)  OBVIOUS
  <1> HIDE DEF n
  <1>4. bad = {}
    <2> SUFFICES ASSUME bad # {} PROVE FALSE  OBVIOUS
    <2>1. bad \in SUBSET Nat  BY <1>1
    <2>2. PICK d \in bad : \A e \in bad : d <= e
      <3> HIDE DEF bad
      <3> QED  BY <2>1, FirstExists
    <2>3. d \in 0 .. n /\ ~Lies(f[n - d], msg, p)  BY <2>2
    <2>4. d # 0  BY <1>1, <1>3, <2>3
    <2> DEFINE j == n - d + 1
    <2>5. /\ d - 1 \in 0 .. n /\ ~ (d <= d - 1) /\ n - (d - 1) = j /\ j \in 1 .. n
          /\ j - 1 = n - d /\ j - 1 \in 0 .. n
      BY <1>1, <2>3, <2>4
    <2> HIDE DEF j
    <2>6. d - 1 \notin bad
      <3> HIDE DEF bad
      <3> QED  BY <2>2, <2>5
    <2>7. Lies(f[j], msg, p)  BY <2>5, <2>6
    <2>8. f[j] = f[j - 1] \o q[j] /\ f[j - 1] \in Seq(S) /\ q[j] \in Seq(S)
      BY <1>1, <1>2, <2>5
    <2>9. Lies(f[j - 1], msg, p)  BY <2>7, <2>8, LiesApart
    <2> QED  BY <2>3, <2>5, <2>9
  <1>5. i - 1 \in 0 .. n /\ n - i \in 0 .. n /\ n - (n - i) = i  BY <1>1, <1>3
  <1>6. Lies(f[i], msg, p)  BY <1>4, <1>5
  <1>7. f[i] = f[i - 1] \o q[i] /\ f[i - 1] \in Seq(S) /\ q[i] \in Seq(S)
    BY <1>1, <1>2, <1>3, <1>5
  <1>8. Lies(q[i], msg, p + Len(f[i - 1]))  BY <1>6, <1>7, LiesApart
  <1>9. Len(f[i - 1] \o q[i]) = Len(f[i - 1]) + Len(q[i]) /\ Len(f[i - 1]) \in Nat
    BY <1>7, ConcatProperties
  <1> QED  BY <1>7, <1>8, <1>9

LEMMA LaidGrows ==
  ASSUME NEW S, NEW q \in Seq(Seq(S)), NEW f, Laid(f, q, S)
  PROVE  /\ \A i \in 0 .. Len(q) : /\ f[i] \in Seq(S) /\ Len(f[i]) \in Nat
                                   /\ Len(f[i]) <= Len(f[Len(q)])
         /\ \A i \in 1 .. Len(q) : /\ Len(f[i]) = Len(f[i - 1]) + Len(q[i])
                                   /\ Len(q[i]) \in Nat
  <1> DEFINE n == Len(q)
             size == [i \in 0 .. n |-> Len(f[i])]
  <1>1. n \in Nat /\ \A i \in 1 .. n : q[i] \in Seq(S) /\ Len(q[i]) \in Nat  OBVIOUS
  <1>2. /\ \A i \in 0 .. n : f[i] \in Seq(S) /\ Len(f[i]) \in Nat
        /\ \A i \in 1 .. n : f[i] = f[i - 1] \o q[i]
    <2>1. /\ \A i \in 0 .. n : f[i] \in Seq(S)
          /\ \A i \in 1 .. n : f[i] = f[i - 1] \o q[i]
      BY DEF Laid, LaidTo
    <2>2. \A g \in Seq(S) : Len(g) \in Nat  OBVIOUS
    <2> HIDE DEF n
    <2> QED  BY <2>1, <2>2
  <1> HIDE DEF n
  <1>3. ASSUME NEW i \in 1 .. n
        PROVE  Len(f[i]) = Len(f[i - 1]) + Len(q[i])
    <2>1. i - 1 \in 0 .. n  BY <1>1
    <2>2. f[i - 1] \in Seq(S) /\ q[i] \in Seq(S)  BY <1>1, <1>2, <2>1
    <2>3. Len(f[i - 1] \o q[i]) = Len(f[i - 1]) + Len(q[i])  BY <2>2, ConcatProperties
    <2> QED  BY <1>2, <2>3
  <1>4. \A i \in 1 .. n : i - 1 \in 0 .. n /\ i \in 0 .. n /\ size[i - 1] <= size[i]
    <2> SUFFICES ASSUME NEW i \in 1 .. n
                 PROVE  i - 1 \in 0 .. n /\ i \in 0 .. n /\ size[i - 1] <= size[i]
      OBVIOUS
    <2>1. i - 1 \in 0 .. n /\ i \in 0 .. n  BY <1>1
    <2>2. size[i] = Len(f[i]) /\ size[i - 1] = Len(f[i - 1])  BY <2>1
    <2>3. Len(f[i - 1]) \in Nat /\ Len(q[i]) \in Nat  BY <1>1, <1>2, <2>1
    <2>4. Len(f[i]) = Len(f[i - 1]) + Len(q[i])  BY <1>3
    <2>6. \A x, y, z \in Nat : x = y + z => y <= x  OBVIOUS
    <2>7. Len(f[i]) \in Nat  BY <1>2, <2>1
    <2>5. Len(f[i - 1]) <= Len(f[i])  BY <2>3, <2>4, <2>6, <2>7, Zenon
    <2> HIDE DEF size
    <2> QED  BY <2>1, <2>2, <2>5
  <1>5. size \in [0 .. n -> Nat]  BY <1>2
  <1> DEFINE bad == {d \in 0 .. n : ~ (size[n - d] <= size[n])}
  <1>6. bad = {}
    <2> HIDE DEF size
    <2> SUFFICES ASSUME bad # {} PROVE FALSE  OBVIOUS
    <2>1. bad \in SUBSET Nat  BY <1>1
    <2>2. PICK d \in bad : \A c \in bad : d <= c
      <3> HIDE DEF bad
      <3> QED  BY <2>1, FirstExists
    <2>3. d \in 0 .. n /\ ~ (size[n - d] <= size[n])  BY <2>2
    <2>4. n - d \in 0 .. n /\ n \in 0 .. n  BY <1>1, <2>3
    <2>5. size[n - d] \in Nat /\ size[n] \in Nat  BY <1>5, <2>4
    <2>6. d # 0
      <3> SUFFICES ASSUME d = 0 PROVE FALSE  OBVIOUS
      <3>1. n - d = n  BY <1>1
      <3>2. ~ (size[n] <= size[n])  BY <2>3, <3>1
      <3> QED  BY <2>5, <3>2
    <2> DEFINE j == n - d + 1
    <2>7. /\ d - 1 \in 0 .. n /\ ~ (d <= d - 1) /\ n - (d - 1) = j /\ j \in 1 .. n
          /\ j - 1 = n - d
      BY <1>1, <2>3, <2>6
    <2> HIDE DEF j
    <2>8. d - 1 \notin bad
      <3> HIDE DEF bad
      <3> QED  BY <2>2, <2>7
    <2>9. size[j] <= size[n]  BY <2>7, <2>8
    <2>10. size[n - d] <= size[j] /\ size[j] \in Nat  BY <1>4, <1>5, <2>7
    <2> QED  BY <2>3, <2>5, <2>9, <2>10
  <1>7. ASSUME NEW i \in 0 .. n PROVE Len(f[i]) <= Len(f[n])
    <2>1. n - i \in 0 .. n /\ n - (n - i) = i /\ n \in 0 .. n  BY <1>1
    <2>2. size[i] <= size[n]
      <3> HIDE DEF size
      <3> QED  BY <1>6, <2>1
    <2> QED  BY <2>1, <2>2
  <1> QED  BY <1>1, <1>2, <1>3, <1>7 DEF n

-----------------------------------------------------------------------------
(* The parser of capex responses, step by step.                             *)

\* No separator is found any more: the loops stop at such a state.
Dead(msg, s) == \A i \in Text(s) + 1 .. Len(msg) : msg[i] # FieldSeparator

LEMMA ParsingIs ==
  ASSUME NEW s \in Parsing
  PROVE  /\ s = [offset |-> s.offset, left |-> s.left, services |-> s.services]
         /\ s.offset \in Nat /\ s.left \in Nat
         /\ s.services \in Seq([componentId : Nat, profileId : Seq(Nat)])
         /\ Text(s) = s.offset + 2 /\ Text(s) \in Nat
  BY DEF Parsing, Text

\* The first separator is found, where there is one.
LEMMA FindIs ==
  ASSUME NEW msg, Len(msg) \in Nat, NEW x \in Nat, Found(msg, x)
  PROVE  /\ Find(msg, x) \in x .. Len(msg) - 1 /\ Separator(msg, Find(msg, x))
         /\ \A j \in x .. Find(msg, x) - 1 : ~Separator(msg, j)
  <1> DEFINE all == {i \in x .. Len(msg) - 1 : Separator(msg, i)}
             First(i) == Separator(msg, i) /\ \A j \in x .. i - 1 : ~Separator(msg, j)
  <1>1. all # {} /\ all \in SUBSET Nat  BY DEF Found
  <1>2. PICK i \in all : \A j \in all : i <= j
    <2> HIDE DEF all
    <2> QED  BY <1>1, FirstExists
  <1>3. i \in x .. Len(msg) - 1 /\ Separator(msg, i)  BY <1>2
  <1>4. \A j \in x .. i - 1 : ~Separator(msg, j)
    <2> SUFFICES ASSUME NEW j \in x .. i - 1, Separator(msg, j) PROVE FALSE  OBVIOUS
    <2>1. j \in x .. Len(msg) - 1 /\ ~ (i <= j)  BY <1>3
    <2> QED  BY <1>2, <2>1
  <1>5. \E k \in x .. Len(msg) - 1 : First(k)  BY <1>3, <1>4
  <1>6. Find(msg, x) = CHOOSE k \in x .. Len(msg) - 1 : First(k)  BY DEF Find
  <1>7. Find(msg, x) \in x .. Len(msg) - 1 /\ First(Find(msg, x))
    <2> HIDE DEF First
    <2> QED  BY <1>5, <1>6
  <1> QED  BY <1>7

\* Where a text of n bytes starts, its end is what is found, if it is there.
LEMMA TextIsFound ==
  ASSUME NEW msg, Len(msg) \in Nat, NEW x \in Nat, NEW n \in Nat,
         \A i \in 1 .. n : x + i <= Len(msg) => msg[x + i] # FieldSeparator,
         x + n + 1 <= Len(msg) => msg[x + n + 1] = FieldSeparator
  PROVE  IF x + n + 1 <= Len(msg) THEN Found(msg, x) /\ Find(msg, x) = x + n
         ELSE ~Found(msg, x) /\ \A i \in x + 1 .. Len(msg) : msg[i] # FieldSeparator
  <1>1. \A i \in x .. Len(msg) - 1 : i < x + n => ~Separator(msg, i)
    <2> SUFFICES ASSUME NEW i \in x .. Len(msg) - 1, i < x + n PROVE ~Separator(msg, i)
      OBVIOUS
    <2>1. i + 1 - x \in 1 .. n /\ x + (i + 1 - x) = i + 1 /\ i + 1 <= Len(msg)  OBVIOUS
    <2>2. msg[x + (i + 1 - x)] # FieldSeparator  BY <2>1
    <2>3. msg[i + 1] # FieldSeparator  BY <2>1, <2>2
    <2> QED  BY <2>3 DEF Separator
  <1>2. CASE x + n + 1 <= Len(msg)
    <2>1. x + n \in x .. Len(msg) - 1 /\ Separator(msg, x + n)  BY <1>2 DEF Separator
    <2>2. Found(msg, x)  BY <2>1 DEF Found
    <2>3. /\ Find(msg, x) \in x .. Len(msg) - 1 /\ Separator(msg, Find(msg, x))
          /\ \A j \in x .. Find(msg, x) - 1 : ~Separator(msg, j)
      BY <2>2, FindIs
    <2>4. ~ (Find(msg, x) < x + n)  BY <1>1, <2>3
    <2>5. ~ (x + n < Find(msg, x))  BY <2>1, <2>3
    <2>6. Find(msg, x) = x + n  BY <2>3, <2>4, <2>5
    <2> QED  BY <1>2, <2>2, <2>6
  <1>3. CASE ~ (x + n + 1 <= Len(msg))
    <2>1. \A i \in x .. Len(msg) - 1 : ~Separator(msg, i)  BY <1>1, <1>3
    <2>2. ~Found(msg, x)  BY <2>1 DEF Found
    <2>3. \A i \in x + 1 .. Len(msg) : msg[i] # FieldSeparator
      <3> SUFFICES ASSUME NEW i \in x + 1 .. Len(msg) PROVE msg[i] # FieldSeparator  OBVIOUS
      <3>1. i - 1 \in x .. Len(msg) - 1 /\ i - 1 + 1 = i  OBVIOUS
      <3>2. ~Separator(msg, i - 1)  BY <2>1, <3>1
      <3> QED  BY <3>1, <3>2 DEF Separator
    <2> QED  BY <1>3, <2>2, <2>3
  <1> QED  BY <1>2, <1>3

\* A state with a text goes on with two whole bytes before it.
LEMMA TextTyped ==
  ASSUME NEW msg \in Seq(Nat), NEW s \in Parsing, HasText(msg, s)
  PROVE  /\ PastText(msg, s) \in Text(s) + 1 .. Len(msg)
         /\ s.left - 1 \in Nat
         /\ U16(msg, s.offset) \in Nat
         /\ SubSeq(msg, Text(s) + 1, PastText(msg, s) - 1) \in Seq(Nat)
  <1>1. Len(msg) \in Nat /\ \A i \in 1 .. Len(msg) : msg[i] \in Nat  OBVIOUS
  <1>2. s.offset \in Nat /\ s.left \in Nat /\ Text(s) = s.offset + 2  BY ParsingIs
  <1>3. s.left # 0 /\ Text(s) <= Len(msg) /\ Found(msg, Text(s))  BY DEF HasText
  <1>4. Find(msg, Text(s)) \in Text(s) .. Len(msg) - 1  BY <1>1, <1>2, <1>3, FindIs
  <1>5. PastText(msg, s) \in Text(s) + 1 .. Len(msg)
    <2> DEFINE x == Text(s)
               l == Len(msg)
               f == Find(msg, x)
    <2>1. x \in Nat /\ l \in Nat /\ f \in x .. l - 1  BY <1>1, <1>2, <1>4
    <2> HIDE DEF x, l, f
    <2>2. f + 1 \in x + 1 .. l  BY <2>1
    <2> QED  BY <2>2 DEF PastText, x, l, f
  <1>6. U16(msg, s.offset) \in Nat
    <2> DEFINE high == msg[s.offset + 1]
               low == msg[s.offset + 2]
    <2>1. s.offset + 1 \in 1 .. Len(msg) /\ s.offset + 2 \in 1 .. Len(msg)  BY <1>1, <1>2, <1>3
    <2>2. high \in Nat /\ low \in Nat  BY <1>1, <2>1
    <2>3. U16(msg, s.offset) = 256 * high + low  BY DEF U16
    <2> HIDE DEF high, low
    <2>4. 256 * high + low \in Nat  BY <2>2
    <2> QED  BY <2>3, <2>4
  <1>7. SubSeq(msg, Text(s) + 1, PastText(msg, s) - 1) \in Seq(Nat)
    <2> DEFINE t == Text(s)
               p == PastText(msg, s)
               l == Len(msg)
    <2>1. t \in Nat /\ l \in Nat /\ p \in t + 1 .. l  BY <1>1, <1>2, <1>5
    <2> HIDE DEF t, p, l
    <2>2. t + 1 \in Int /\ p - 1 \in Int /\ 1 <= t + 1 /\ p - 1 <= l  BY <2>1
    <2>3. SubSeq(msg, t + 1, p - 1) \in Seq(Nat)  BY <2>2, Slice DEF l
    <2> QED  BY <2>3 DEF t, p
  <1>8. s.left - 1 \in Nat  BY <1>2, <1>3
  <1> QED  BY <1>5, <1>6, <1>7, <1>8

LEMMA NextAgentTyped ==
  ASSUME NEW msg \in Seq(Nat), NEW s \in Parsing, HasAgent(msg, s)
  PROVE  NextAgent(msg, s) \in Parsing /\ NextAgent(msg, s).left < s.left
  <1> DEFINE S == [componentId : Nat, profileId : Seq(Nat)]
             a == [componentId |-> U16(msg, s.offset),
                   profileId |-> SubSeq(msg, Text(s) + 1, PastText(msg, s) - 1)]
  <1>1. HasText(msg, s) /\ PastText(msg, s) + 5 <= Len(msg)  BY DEF HasAgent
  <1>2. /\ PastText(msg, s) \in Text(s) + 1 .. Len(msg) /\ s.left - 1 \in Nat
        /\ U16(msg, s.offset) \in Nat
        /\ SubSeq(msg, Text(s) + 1, PastText(msg, s) - 1) \in Seq(Nat)
    BY <1>1, TextTyped
  <1>3. a \in S  BY <1>2
  <1>4. s.services \in Seq(S) /\ s.left \in Nat /\ Text(s) \in Nat  BY ParsingIs
  <1>5. Append(s.services, a) \in Seq(S)
    <2> HIDE DEF S, a
    <2> QED  BY <1>3, <1>4, AppendProperties
  <1>6. PastText(msg, s) + 5 \in Nat
    <2>1. Len(msg) \in Nat  OBVIOUS
    <2> QED  BY <1>2, <1>4, <2>1
  <1>7. NextAgent(msg, s) = [offset |-> PastText(msg, s) + 5, left |-> s.left - 1,
                             services |-> Append(s.services, a)]
    BY DEF NextAgent
  <1>8. NextAgent(msg, s) \in Parsing
    <2> HIDE DEF a
    <2> QED  BY <1>2, <1>5, <1>6, <1>7 DEF Parsing
  <1>9. NextAgent(msg, s).left = s.left - 1  BY <1>7
  <1> QED  BY <1>4, <1>8, <1>9

LEMMA AgentBreakTyped ==
  ASSUME NEW msg \in Seq(Nat), NEW s \in Parsing
  PROVE  /\ AgentBreak(msg, s) \in Parsing
         /\ AgentBreak(msg, s).services = s.services
  <1>1. /\ s.offset \in Nat /\ s.left \in Nat /\ Text(s) \in Nat
        /\ s = [offset |-> s.offset, left |-> s.left, services |-> s.services]
    BY ParsingIs
  <1>2. CASE s.left = 0 \/ Text(s) > Len(msg)  BY <1>2 DEF AgentBreak
  <1>3. CASE ~ (s.left = 0 \/ Text(s) > Len(msg))
    <2> DEFINE o == IF HasText(msg, s) THEN PastText(msg, s) ELSE Text(s)
    <2>1. AgentBreak(msg, s) = [s EXCEPT !.offset = o]  BY <1>3 DEF AgentBreak
    <2>2. o \in Nat
      <3>1. CASE HasText(msg, s)
        <4>1. Len(msg) \in Nat  OBVIOUS
        <4> QED  BY <1>1, <3>1, <4>1, TextTyped
      <3>2. CASE ~HasText(msg, s)  BY <1>1, <3>2
      <3> QED  BY <3>1, <3>2
    <2> HIDE DEF o
    <2> QED  BY <2>1, <2>2 DEF Parsing
  <1> QED  BY <1>2, <1>3

\* The inner loop ends where it has no agent to read, with what was kept on the
\* way.
LEMMA ParseAgentsEnds ==
  ASSUME NEW msg \in Seq(Nat), NEW kept \in SUBSET Parsing,
         \A s \in kept : HasAgent(msg, s) => NextAgent(msg, s) \in kept,
         NEW start \in kept
  PROVE  \E s \in kept : ~HasAgent(msg, s) /\ ParseAgents(msg, start) = AgentBreak(msg, s)
  <1> DEFINE Is(f) == f = [s \in Parsing |-> IF HasAgent(msg, s) THEN f[NextAgent(msg, s)]
                                             ELSE AgentBreak(msg, s)]
             agents == CHOOSE f : Is(f)
             stop == {s \in Parsing : ~HasAgent(msg, s)}
             out == [s \in Parsing |-> AgentBreak(msg, s)]
             step == [s \in Parsing |-> IF HasAgent(msg, s) THEN NextAgent(msg, s) ELSE s]
             rank == [s \in Parsing |-> s.left]
  <1>1. ParseAgents(msg, start) = agents[start]  BY DEF ParseAgents
  <1>2. rank \in [Parsing -> Nat]  BY ParsingIs
  <1>3. step \in [Parsing -> Parsing]  BY NextAgentTyped
  <1>4. \A s \in Parsing \ stop : step[s] = NextAgent(msg, s) /\ rank[step[s]] < rank[s]
    BY NextAgentTyped
  <1>5. \A s \in Parsing : s \in stop => out[s] = AgentBreak(msg, s) /\ ~HasAgent(msg, s)
    OBVIOUS
  <1>6. \A s \in Parsing : s \notin stop => HasAgent(msg, s) /\ step[s] = NextAgent(msg, s)
    OBVIOUS
  <1>7. stop \in SUBSET Parsing  OBVIOUS
  <1> HIDE DEF stop, out, step, rank
  <1>0. Descends(Parsing, stop, rank, step)  BY <1>2, <1>3, <1>4, <1>7 DEF Descends
  <1>8. ASSUME NEW f
        PROVE  [s \in Parsing |-> IF s \in stop THEN out[s] ELSE f[step[s]]]
               = [s \in Parsing |-> IF HasAgent(msg, s) THEN f[NextAgent(msg, s)]
                                    ELSE AgentBreak(msg, s)]
    BY <1>5, <1>6
  <1>9. \E f : Is(f)
    <2>1. PICK f : Loops(f, Parsing, stop, out, step)
      BY <1>0, LoopExists
    <2>2. Is(f)  BY <1>8, <2>1 DEF Loops
    <2> QED  BY <2>2
  <1>10. Is(agents)
    <2> HIDE DEF Is
    <2> QED  BY <1>9
  <1> HIDE DEF agents
  <1>11. Loops(agents, Parsing, stop, out, step)  BY <1>8, <1>10 DEF Loops
  <1>12. \A s \in kept \ stop : step[s] \in kept  BY <1>6
  <1>13. \E s \in kept \cap stop : agents[start] = out[s]
    BY <1>0, <1>11, <1>12, LoopEnds
  <1> QED  BY <1>1, <1>5, <1>13

LEMMA ParseAgentsTyped ==
  ASSUME NEW msg \in Seq(Nat), NEW start \in Parsing
  PROVE  ParseAgents(msg, start) \in Parsing
  <1>1. \A s \in Parsing : HasAgent(msg, s) => NextAgent(msg, s) \in Parsing  BY NextAgentTyped
  <1>2. PICK s \in Parsing : ParseAgents(msg, start) = AgentBreak(msg, s)
    BY <1>1, ParseAgentsEnds
  <1> QED  BY <1>2, AgentBreakTyped

LEMMA NextRecordTyped ==
  ASSUME NEW msg \in Seq(Nat), NEW s \in Parsing, HasRecord(msg, s)
  PROVE  LET count == PastText(msg, s)
             agents == [offset |-> count + 2, left |-> U16(msg, count), services |-> s.services]
         IN /\ agents \in Parsing
            /\ NextRecord(msg, s) = [offset |-> ParseAgents(msg, agents).offset,
                                     left |-> s.left - 1,
                                     services |-> ParseAgents(msg, agents).services]
            /\ NextRecord(msg, s) \in Parsing /\ NextRecord(msg, s).left < s.left
  <1> DEFINE count == PastText(msg, s)
             agents == [offset |-> count + 2, left |-> U16(msg, count), services |-> s.services]
             parsed == ParseAgents(msg, agents)
  <1>1. /\ s.offset \in Nat /\ s.left \in Nat /\ Text(s) \in Nat
        /\ s.services \in Seq([componentId : Nat, profileId : Seq(Nat)])
        /\ s = [offset |-> s.offset, left |-> s.left, services |-> s.services]
    BY ParsingIs
  <1>2. HasText(msg, s) /\ count + 2 <= Len(msg)  BY DEF HasRecord
  <1>3. count \in Text(s) + 1 .. Len(msg) /\ s.left - 1 \in Nat  BY <1>2, TextTyped
  <1>4. Len(msg) \in Nat /\ \A i \in 1 .. Len(msg) : msg[i] \in Nat  OBVIOUS
  <1>5. count + 2 \in Nat /\ count + 1 \in 1 .. Len(msg) /\ count + 2 \in 1 .. Len(msg)
    <2> DEFINE l == Len(msg)
               t == Text(s)
    <2>1. count \in t + 1 .. l /\ count + 2 <= l  BY <1>2, <1>3
    <2>2. l \in Nat /\ t \in Nat  BY <1>1, <1>4
    <2> HIDE DEF count, l, t
    <2>3. count + 2 \in Nat /\ count + 1 \in 1 .. l /\ count + 2 \in 1 .. l
      BY <2>1, <2>2
    <2> QED  BY <2>3 DEF l
  <1>6. U16(msg, count) \in Nat
    <2>1. msg[count + 1] \in Nat /\ msg[count + 2] \in Nat  BY <1>4, <1>5
    <2> QED  BY <2>1 DEF U16
  <1> HIDE DEF count
  <1>7. agents \in Parsing  BY <1>1, <1>5, <1>6 DEF Parsing
  <1>9. NextRecord(msg, s) = [parsed EXCEPT !.left = s.left - 1]
    BY DEF NextRecord, count
  <1> HIDE DEF agents
  <1>10. parsed \in Parsing  BY <1>7, ParseAgentsTyped
  <1> HIDE DEF parsed
  <1>11. /\ parsed = [offset |-> parsed.offset, left |-> parsed.left, services |-> parsed.services]
         /\ parsed.offset \in Nat
         /\ parsed.services \in Seq([componentId : Nat, profileId : Seq(Nat)])
    BY <1>10, ParsingIs
  <1>12. NextRecord(msg, s) = [offset |-> parsed.offset, left |-> s.left - 1,
                               services |-> parsed.services]
    BY <1>9, <1>11
  <1>13. NextRecord(msg, s) \in Parsing  BY <1>3, <1>11, <1>12 DEF Parsing
  <1>14. NextRecord(msg, s).left < s.left
    <2>1. NextRecord(msg, s).left = s.left - 1  BY <1>12
    <2> QED  BY <1>1, <2>1
  <1> QED  BY <1>7, <1>12, <1>13, <1>14 DEF agents, count, parsed

\* The outer loop likewise.
LEMMA ParseRecordsEnds ==
  ASSUME NEW msg \in Seq(Nat), NEW kept \in SUBSET Parsing,
         \A s \in kept : HasRecord(msg, s) => NextRecord(msg, s) \in kept,
         NEW start \in kept
  PROVE  \E s \in kept : ~HasRecord(msg, s) /\ ParseRecords(msg, start) = s.services
  <1> DEFINE Is(f) == f = [s \in Parsing |-> IF HasRecord(msg, s) THEN f[NextRecord(msg, s)]
                                             ELSE s.services]
             records == CHOOSE f : Is(f)
             stop == {s \in Parsing : ~HasRecord(msg, s)}
             out == [s \in Parsing |-> s.services]
             step == [s \in Parsing |-> IF HasRecord(msg, s) THEN NextRecord(msg, s) ELSE s]
             rank == [s \in Parsing |-> s.left]
  <1>1. ParseRecords(msg, start) = records[start]  BY DEF ParseRecords
  <1>2. rank \in [Parsing -> Nat]  BY ParsingIs
  <1>3. \A s \in Parsing : HasRecord(msg, s) =>
          NextRecord(msg, s) \in Parsing /\ NextRecord(msg, s).left < s.left
    BY NextRecordTyped
  <1>4. step \in [Parsing -> Parsing]  BY <1>3
  <1>5. \A s \in Parsing \ stop : rank[step[s]] < rank[s]  BY <1>3
  <1>6. \A s \in Parsing : s \in stop => out[s] = s.services /\ ~HasRecord(msg, s)
    OBVIOUS
  <1>7. \A s \in Parsing : s \notin stop => HasRecord(msg, s) /\ step[s] = NextRecord(msg, s)
    OBVIOUS
  <1>8. stop \in SUBSET Parsing  OBVIOUS
  <1> HIDE DEF stop, out, step, rank
  <1>0. Descends(Parsing, stop, rank, step)  BY <1>2, <1>4, <1>5, <1>8 DEF Descends
  <1>9. ASSUME NEW f
        PROVE  [s \in Parsing |-> IF s \in stop THEN out[s] ELSE f[step[s]]]
               = [s \in Parsing |-> IF HasRecord(msg, s) THEN f[NextRecord(msg, s)]
                                    ELSE s.services]
    BY <1>6, <1>7
  <1>10. \E f : Is(f)
    <2>1. PICK f : Loops(f, Parsing, stop, out, step)
      BY <1>0, LoopExists
    <2>2. Is(f)  BY <1>9, <2>1 DEF Loops
    <2> QED  BY <2>2
  <1>11. Is(records)
    <2> HIDE DEF Is
    <2> QED  BY <1>10
  <1> HIDE DEF records
  <1>12. Loops(records, Parsing, stop, out, step)  BY <1>9, <1>11 DEF Loops
  <1>13. \A s \in kept \ stop : step[s] \in kept  BY <1>7
  <1>14. \E s \in kept \cap stop : records[start] = out[s]
    BY <1>0, <1>12, <1>13, LoopEnds
  <1> QED  BY <1>1, <1>6, <1>14

-----------------------------------------------------------------------------
(* What the parser reads of a response, or of the start of one.             *)

Titled(v, text) == Be16(v) \o text \o <<FieldSeparator>>

Halves(h, v) == h[1] = v \div 256 /\ h[2] = v % 256

LEMMA Be16Is ==
  ASSUME NEW v \in Nat
  PROVE  Be16(v) \in Seq(Nat) /\ Len(Be16(v)) = 2 /\ Halves(Be16(v), v)
  <1>1. v \div 256 \in Nat /\ v % 256 \in Nat  BY TwoBytes
  <1> QED  BY <1>1 DEF Be16, Halves

LEMMA TextsTyped ==
  ASSUME NEW text \in Texts
  PROVE  /\ text \in Seq(Nat) /\ Len(text) \in Nat
         /\ \A i \in 1 .. Len(text) : text[i] # FieldSeparator
  <1> DEFINE T == (0 .. 255) \ {FieldSeparator}
  <1>1. text \in Seq(T)  BY Zenon DEF Texts
  <1>4. T \subseteq Nat  OBVIOUS
  <1>2. text \in Seq(Nat)
    <2> HIDE DEF T
    <2> QED  BY <1>1, <1>4, SeqMonotonic
  <1>3. \A i \in 1 .. Len(text) : text[i] \in T
    <2> HIDE DEF T
    <2> QED  BY <1>1
  <1> QED  BY <1>2, <1>3

LEMMA TitledIs ==
  ASSUME NEW v \in Nat, NEW text \in Texts
  PROVE  /\ Titled(v, text) \in Seq(Nat) /\ Len(Titled(v, text)) = Len(text) + 3
         /\ Titled(v, text)[1] = v \div 256 /\ Titled(v, text)[2] = v % 256
         /\ \A i \in 1 .. Len(text) : Titled(v, text)[2 + i] = text[i]
         /\ Titled(v, text)[Len(text) + 3] = FieldSeparator
  <1> DEFINE a == Be16(v)
             b == a \o text
             c == <<FieldSeparator>>
             d == b \o c
  <1>1. a \in Seq(Nat) /\ Len(a) = 2 /\ a[1] = v \div 256 /\ a[2] = v % 256
    <2>1. a \in Seq(Nat) /\ Len(a) = 2 /\ Halves(a, v)  BY Be16Is
    <2> HIDE DEF a
    <2> QED  BY <2>1 DEF Halves
  <1>2. text \in Seq(Nat) /\ Len(text) \in Nat  BY TextsTyped
  <1>3. c \in Seq(Nat) /\ Len(c) = 1 /\ c[1] = FieldSeparator
    <2>1. FieldSeparator \in Nat  BY DEF FieldSeparator
    <2> QED  BY <2>1
  <1> HIDE DEF a, c
  <1>4. /\ b \in Seq(Nat) /\ Len(b) = Len(a) + Len(text)
        /\ \A i \in 1 .. Len(a) : b[i] = a[i]
        /\ \A i \in 1 .. Len(text) : b[Len(a) + i] = text[i]
    <2>1. a \in Seq(Nat)  BY <1>1
    <2>2. text \in Seq(Nat)  BY <1>2
    <2> QED  BY <2>1, <2>2, Joined
  <1> HIDE DEF b
  <1>5. /\ d \in Seq(Nat) /\ Len(d) = Len(b) + Len(c)
        /\ \A i \in 1 .. Len(b) : d[i] = b[i]
        /\ \A i \in 1 .. Len(c) : d[Len(b) + i] = c[i]
    BY <1>3, <1>4, Joined
  <1> HIDE DEF d
  <1>6. Len(b) = Len(text) + 2 /\ Len(d) = Len(text) + 3  BY <1>1, <1>2, <1>3, <1>4, <1>5
  <1>7. d[1] = v \div 256 /\ d[2] = v % 256
    <2>1. /\ 1 \in 1 .. Len(a) /\ 2 \in 1 .. Len(a)
          /\ 1 \in 1 .. Len(b) /\ 2 \in 1 .. Len(b)
      BY <1>1, <1>2, <1>6
    <2> QED  BY <1>1, <1>4, <1>5, <2>1
  <1>8. \A i \in 1 .. Len(text) : d[2 + i] = text[i]
    <2> SUFFICES ASSUME NEW i \in 1 .. Len(text) PROVE d[2 + i] = text[i]  OBVIOUS
    <2>1. 2 + i \in 1 .. Len(b)  BY <1>2, <1>6
    <2> QED  BY <1>1, <1>4, <1>5, <2>1
  <1>9. d[Len(text) + 3] = FieldSeparator
    <2>1. Len(text) + 3 = Len(b) + 1 /\ 1 \in 1 .. Len(c)  BY <1>2, <1>3, <1>6
    <2> QED  BY <1>3, <1>5, <2>1
  <1> QED  BY <1>5, <1>6, <1>7, <1>8, <1>9 DEF Titled, a, b, c, d

\* A title is read whole, or nothing more is.
TitleRead(msg, s, v, text, past) ==
  IF past <= Len(msg)
  THEN /\ s.left # 0 => HasText(msg, s)
       /\ PastText(msg, s) = past
       /\ U16(msg, s.offset) = v
       /\ SubSeq(msg, Text(s) + 1, past - 1) = text
  ELSE ~HasText(msg, s) /\ Dead(msg, s)

LEMMA TitleIsRead ==
  ASSUME NEW msg \in Seq(Nat), NEW full \in Seq(Nat), Starts(msg, full),
         NEW v \in Nat, NEW text \in Texts, NEW s \in Parsing,
         Lies(Titled(v, text), full, s.offset), NEW past, past = s.offset + Len(text) + 3
  PROVE  TitleRead(msg, s, v, text, past)
  <1> DEFINE e == s.offset
             x == Text(s)
             n == Len(text)
             t == Titled(v, text)
  <1>1. e \in Nat /\ x \in Nat /\ x = e + 2  BY ParsingIs
  <1>0. n \in Nat  BY TextsTyped
  <1>2. /\ text \in Seq(Nat)
        /\ \A i \in 1 .. n : text[i] # FieldSeparator /\ text[i] \in Nat
    BY TextsTyped
  <1>3. /\ Len(t) = n + 3 /\ t[1] = v \div 256 /\ t[2] = v % 256
        /\ \A i \in 1 .. n : t[2 + i] = text[i]
        /\ t[n + 3] = FieldSeparator
    BY TitledIs
  <1>4. Len(msg) \in Nat /\ Len(full) \in Nat  OBVIOUS
  <1>5. \A i \in 1 .. Len(msg) : msg[i] = full[i]
    <2>1. \A i \in 1 .. Len(msg) : full[0 + i] = msg[i]  BY DEF Starts, Lies
    <2>2. \A i \in 1 .. Len(msg) : 0 + i = i  BY <1>4
    <2> QED  BY <2>1, <2>2
  <1>6. \A i \in 1 .. n + 3 : full[e + i] = t[i]  BY <1>3 DEF Lies
  <1> HIDE DEF t, n, x, e
  <1>7. \A i \in 1 .. n + 3 : e + i <= Len(msg) => msg[e + i] = t[i]
    BY <1>0, <1>1, <1>4, <1>5, <1>6
  <1>8. past = x + n + 1
    <2>1. past = e + n + 3  BY DEF n, e
    <2>2. e + n + 3 = (e + 2) + n + 1  BY <1>0, <1>1
    <2> QED  BY <1>1, <2>1, <2>2, Zenon
  <1>9. \A i \in 1 .. n : x + i <= Len(msg) => msg[x + i] = text[i]
    <2> SUFFICES ASSUME NEW i \in 1 .. n, x + i <= Len(msg) PROVE msg[x + i] = text[i]
      OBVIOUS
    <2>1. 2 + i \in 1 .. n + 3 /\ e + (2 + i) = x + i  BY <1>0, <1>1
    <2>2. msg[e + (2 + i)] = t[2 + i]  BY <1>7, <2>1
    <2> QED  BY <1>3, <2>1, <2>2
  <1>10. x + n + 1 <= Len(msg) => msg[x + n + 1] = FieldSeparator
    <2>1. n + 3 \in 1 .. n + 3 /\ e + (n + 3) = x + n + 1  BY <1>0, <1>1
    <2> QED  BY <1>3, <1>7, <2>1
  <1>11. \A i \in 1 .. n : x + i <= Len(msg) => msg[x + i] # FieldSeparator  BY <1>2, <1>9
  <1>12. IF x + n + 1 <= Len(msg) THEN Found(msg, x) /\ Find(msg, x) = x + n
         ELSE ~Found(msg, x) /\ \A i \in x + 1 .. Len(msg) : msg[i] # FieldSeparator
    BY <1>0, <1>1, <1>4, <1>10, <1>11, TextIsFound
  <1>13. CASE past <= Len(msg)
    <2>1. Found(msg, x) /\ Find(msg, x) = x + n /\ x <= Len(msg)
      BY <1>0, <1>1, <1>4, <1>8, <1>12, <1>13
    <2>2. s.left # 0 => HasText(msg, s)  BY <2>1 DEF HasText, x
    <2>3. PastText(msg, s) = past  BY <1>8, <2>1 DEF PastText, x
    <2>4. U16(msg, e) = v
      <3>1. /\ 1 \in 1 .. n + 3 /\ 2 \in 1 .. n + 3
            /\ e + 1 <= Len(msg) /\ e + 2 <= Len(msg)
        BY <1>0, <1>1, <1>4, <1>8, <1>13
      <3>2. msg[e + 1] = t[1] /\ msg[e + 2] = t[2]  BY <1>7, <3>1
      <3>3. U16(msg, e) = 256 * (v \div 256) + (v % 256)  BY <1>3, <3>2 DEF U16
      <3> QED  BY <3>3, TwoBytes
    <2>5. SubSeq(msg, x + 1, past - 1) = text
      <3> DEFINE lo == x + 1
                 hi == past - 1
                 c == SubSeq(msg, lo, hi)
      <3>1. lo \in Int /\ hi \in Int /\ 1 <= lo /\ hi <= Len(msg) /\ hi - lo + 1 = n
        <4>1. x \in Nat /\ n \in Nat /\ Len(msg) \in Nat  BY <1>0, <1>1, <1>4
        <4>2. past = x + n + 1 /\ past <= Len(msg)  BY <1>8, <1>13
        <4> QED  BY <4>1, <4>2
      <3>2. lo = x + 1  OBVIOUS
      <3> HIDE DEF lo, hi
      <3>3. /\ c \in Seq(Nat)
            /\ Len(c) = IF lo <= hi THEN hi - lo + 1 ELSE 0
            /\ \A i \in 1 .. hi - lo + 1 : c[i] = msg[lo + i - 1]
        BY <3>1, Slice
      <3> HIDE DEF c
      <3>4. Len(c) = n  BY <1>0, <3>1, <3>3
      <3>5. \A i \in 1 .. n : c[i] = text[i]
        <4> SUFFICES ASSUME NEW i \in 1 .. n PROVE c[i] = text[i]  OBVIOUS
        <4>1. lo + i - 1 = x + i /\ x + i <= Len(msg)
          BY <1>0, <1>1, <1>4, <1>8, <1>13, <3>2
        <4> QED  BY <1>9, <3>1, <3>3, <4>1
      <3>6. c = text  BY <1>2, <3>3, <3>4, <3>5, SeqEqual DEF n
      <3> QED  BY <3>6 DEF c, lo, hi
    <2> QED  BY <1>13, <2>2, <2>3, <2>4, <2>5 DEF TitleRead, x, e
  <1>14. CASE ~ (past <= Len(msg))
    <2>1. ~Found(msg, x) /\ \A i \in x + 1 .. Len(msg) : msg[i] # FieldSeparator
      BY <1>8, <1>12, <1>14
    <2> QED  BY <1>14, <2>1 DEF TitleRead, HasText, Dead, x
  <1> QED  BY <1>13, <1>14

LEMMA WordsTyped == Words \subseteq Nat
  BY SMT DEF Words

LEMMA AgentsTyped ==
  ASSUME NEW a \in Agents
  PROVE  /\ a.componentId \in Nat /\ a.profileId \in Texts
         /\ a = [componentId |-> a.componentId, profileId |-> a.profileId]
  BY WordsTyped DEF Agents

\* An agent that lies at the offset is read, or is the first that is cut.
LEMMA AgentIsRead ==
  ASSUME NEW msg \in Seq(Nat), NEW full \in Seq(Nat), Starts(msg, full),
         NEW a \in Agents, NEW s \in Parsing, s.left # 0, Lies(Agent(a), full, s.offset)
  PROVE  IF s.offset + Len(Agent(a)) <= Len(msg)
         THEN /\ HasAgent(msg, s)
              /\ NextAgent(msg, s) = [offset |-> s.offset + Len(Agent(a)), left |-> s.left - 1,
                                      services |-> Append(s.services, a)]
         ELSE ~HasAgent(msg, s) /\ Dead(msg, AgentBreak(msg, s))
  <1> DEFINE e == s.offset
             t == Titled(a.componentId, a.profileId)
             y == Be16(256)
             w == <<2>>
             z == Be16(10)
             b == t \o y
             c == b \o w
             d == c \o z
             n == Len(a.profileId)
             past == s.offset + Len(a.profileId) + 3
  <1>1. e \in Nat /\ Text(s) = e + 2  BY ParsingIs
  <1>2. /\ a.componentId \in Nat /\ a.profileId \in Texts
        /\ a = [componentId |-> a.componentId, profileId |-> a.profileId]
    BY AgentsTyped
  <1>3. n \in Nat  BY <1>2, TextsTyped
  <1>4. t \in Seq(Nat) /\ Len(t) = n + 3  BY <1>2, TitledIs
  <1>5. /\ y \in Seq(Nat) /\ Len(y) = 2 /\ y[1] = 1 /\ y[2] = 0
        /\ z \in Seq(Nat) /\ Len(z) = 2 /\ z[1] = 0 /\ z[2] = 10
        /\ w \in Seq(Nat) /\ Len(w) = 1 /\ w[1] = 2
    BY DEF Be16
  <1>6. Agent(a) = d  BY DEF Agent, Titled
  <1> HIDE DEF t, y, w, z
  <1>7. b \in Seq(Nat) /\ Len(b) = Len(t) + Len(y)  BY <1>4, <1>5, Joined
  <1> HIDE DEF b
  <1>8. c \in Seq(Nat) /\ Len(c) = Len(b) + Len(w)  BY <1>5, <1>7, Joined
  <1> HIDE DEF c
  <1>9. d \in Seq(Nat) /\ Len(d) = Len(c) + Len(z)  BY <1>5, <1>8, Joined
  <1> HIDE DEF d
  <1> HIDE DEF n
  <1>10. Len(b) = n + 5 /\ Len(c) = n + 6 /\ Len(d) = n + 8  BY <1>3, <1>4, <1>5, <1>7, <1>8, <1>9
  <1>11. Len(full) \in Nat /\ Len(msg) \in Nat  OBVIOUS
  <1>12. Lies(d, full, e)  BY <1>6
  <1> HIDE DEF e
  <1>13. Lies(c, full, e) /\ Lies(z, full, e + (n + 6))
    BY <1>1, <1>5, <1>8, <1>10, <1>11, <1>12, LiesApart DEF d
  <1>14. Lies(b, full, e) /\ Lies(w, full, e + (n + 5))
    BY <1>1, <1>5, <1>7, <1>10, <1>11, <1>13, LiesApart DEF c
  <1>15. Lies(t, full, e) /\ Lies(y, full, e + (n + 3))
    BY <1>1, <1>4, <1>5, <1>11, <1>14, LiesApart DEF b
  <1>16. past = e + n + 3  BY DEF e, n
  <1>17. IF past <= Len(msg)
         THEN /\ s.left # 0 => HasText(msg, s)
              /\ PastText(msg, s) = past
              /\ U16(msg, s.offset) = a.componentId
              /\ SubSeq(msg, Text(s) + 1, past - 1) = a.profileId
         ELSE ~HasText(msg, s) /\ Dead(msg, s)
    <2>1. Lies(Titled(a.componentId, a.profileId), full, s.offset)  BY <1>15 DEF t, e
    <2>2. a.componentId \in Nat /\ a.profileId \in Texts  BY <1>2
    <2>3. past = s.offset + Len(a.profileId) + 3  OBVIOUS
    <2> HIDE DEF past
    <2>4. TitleRead(msg, s, a.componentId, a.profileId, past)
      BY <2>1, <2>2, <2>3, TitleIsRead
    <2> QED  BY <2>4 DEF TitleRead
  <1> HIDE DEF past
  <1>18. CASE e + Len(d) <= Len(msg)
    <2>1. past <= Len(msg) /\ past + 5 <= Len(msg) /\ past + 5 = e + Len(d)
      BY <1>1, <1>3, <1>10, <1>11, <1>16, <1>18
    <2>2. HasText(msg, s) /\ PastText(msg, s) = past  BY <1>17, <2>1
    <2>3. HasAgent(msg, s)  BY <2>1, <2>2 DEF HasAgent
    <2>4. NextAgent(msg, s) = [offset |-> e + Len(d), left |-> s.left - 1,
                               services |-> Append(s.services, a)]
      BY <1>2, <1>17, <2>1, <2>2 DEF NextAgent
    <2> QED  BY <1>6, <1>18, <2>3, <2>4 DEF e
  <1>19. CASE ~ (e + Len(d) <= Len(msg))
    <2>1. CASE past <= Len(msg)
      <3>1. HasText(msg, s) /\ PastText(msg, s) = past  BY <1>17, <2>1
      <3>2. ~ (past + 5 <= Len(msg))  BY <1>1, <1>3, <1>10, <1>11, <1>16, <1>19
      <3>3. ~HasAgent(msg, s)  BY <3>1, <3>2 DEF HasAgent
      <3>4. AgentBreak(msg, s).offset = past
        <4>1. ~ (s.left = 0 \/ Text(s) > Len(msg))  BY <1>1, <1>11, <3>1 DEF HasText
        <4>2. AgentBreak(msg, s) = [s EXCEPT !.offset = past]
          BY <3>1, <4>1 DEF AgentBreak
        <4> QED  BY <4>2 DEF Parsing
      <3>5. \A i \in past + 1 .. Len(msg) : msg[i] # FieldSeparator
        <4> SUFFICES ASSUME NEW i \in past + 1 .. Len(msg) PROVE msg[i] # FieldSeparator
          OBVIOUS
        <4>1. full[0 + i] = msg[i]
          <5>1. i \in 1 .. Len(msg)  BY <1>1, <1>3, <1>11, <1>16
          <5> QED  BY <5>1 DEF Starts, Lies
        <4>2. 0 + i = i /\ i - e \in n + 4 .. n + 7
          BY <1>1, <1>3, <1>10, <1>11, <1>16, <1>19
        <4>5. 1 \in 1 .. Len(y) /\ 2 \in 1 .. Len(y) /\ 1 \in 1 .. Len(w) /\ 1 \in 1 .. Len(z)
          BY <1>5
        <4>3. /\ full[e + (n + 3) + 1] = 1 /\ full[e + (n + 3) + 2] = 0
              /\ full[e + (n + 5) + 1] = 2 /\ full[e + (n + 6) + 1] = 0
          BY <1>5, <1>13, <1>14, <1>15, <4>5 DEF Lies
        <4>4. \/ i = e + (n + 3) + 1 \/ i = e + (n + 3) + 2
              \/ i = e + (n + 5) + 1 \/ i = e + (n + 6) + 1
          BY <1>1, <1>3, <4>2
        <4>6. full[i] \in {0, 1, 2}  BY <4>3, <4>4
        <4>7. msg[i] = full[i]  BY <4>1, <4>2
        <4> QED  BY <4>6, <4>7 DEF FieldSeparator
      <3>6. Dead(msg, AgentBreak(msg, s))
        <4>1. Text(AgentBreak(msg, s)) = past + 2  BY <3>4 DEF Text
        <4>2. past \in Nat  BY <1>1, <1>3, <1>16
        <4> QED  BY <1>11, <3>5, <4>1, <4>2 DEF Dead
      <3> QED  BY <1>6, <1>19, <3>3, <3>6 DEF e
    <2>2. CASE ~ (past <= Len(msg))
      <3>1. ~HasText(msg, s) /\ Dead(msg, s)  BY <1>17, <2>2
      <3>2. ~HasAgent(msg, s)  BY <3>1 DEF HasAgent
      <3>3. Dead(msg, AgentBreak(msg, s))
        <4>1. CASE Text(s) > Len(msg)
          <5>1. AgentBreak(msg, s) = s  BY <4>1 DEF AgentBreak
          <5> QED  BY <3>1, <5>1
        <4>2. CASE ~ (Text(s) > Len(msg))
          <5>1. AgentBreak(msg, s) = [s EXCEPT !.offset = Text(s)]
            BY <3>1, <4>2 DEF AgentBreak
          <5>2. AgentBreak(msg, s).offset = Text(s)  BY <5>1 DEF Parsing
          <5>3. Text(AgentBreak(msg, s)) = Text(s) + 2  BY <5>2 DEF Text
          <5>4. \A i \in Text(s) + 1 .. Len(msg) : msg[i] # FieldSeparator  BY <3>1 DEF Dead
          <5>5. Text(s) \in Nat  BY <1>1
          <5> QED  BY <1>11, <5>3, <5>4, <5>5 DEF Dead
        <4> QED  BY <4>1, <4>2
      <3> QED  BY <1>6, <1>19, <3>2, <3>3 DEF e
    <2> QED  BY <2>1, <2>2
  <1> QED  BY <1>18, <1>19, <1>6 DEF e

\* Where one sequence starts another, what is appended to it there starts it too.
NextOf(got, x, all, S) == /\ all \in Seq(S) /\ got \in Seq(S) /\ x \in S
                          /\ Starts(got, all)
                          /\ Len(got) + 1 <= Len(all) /\ all[Len(got) + 1] = x
OneMoreOf(got, x, all, S) == /\ Append(got, x) \in Seq(S) /\ Starts(Append(got, x), all)
                             /\ Len(Append(got, x)) = Len(got) + 1

LEMMA StartsMore ==
  ASSUME NEW S, NEW all, NEW got, NEW x, NextOf(got, x, all, S)
  PROVE  OneMoreOf(got, x, all, S)
  <1> DEFINE g == Append(got, x)
  <1>0. /\ all \in Seq(S) /\ got \in Seq(S) /\ x \in S /\ Starts(got, all)
        /\ Len(got) + 1 <= Len(all) /\ all[Len(got) + 1] = x
    BY DEF NextOf
  <1>1. /\ g \in Seq(S) /\ Len(g) = Len(got) + 1
        /\ \A i \in 1 .. Len(got) : g[i] = got[i]
        /\ g[Len(got) + 1] = x
    BY <1>0, AppendProperties
  <1>2. Len(got) \in Nat /\ Len(all) \in Nat  BY <1>0
  <1>3. \A i \in 1 .. Len(got) : all[0 + i] = got[i]  BY <1>0 DEF Starts, Lies
  <1> HIDE DEF g
  <1>4. \A i \in 1 .. Len(g) : all[0 + i] = g[i]
    <2> SUFFICES ASSUME NEW i \in 1 .. Len(g) PROVE all[0 + i] = g[i]  OBVIOUS
    <2>1. 0 + i = i /\ (i \in 1 .. Len(got) \/ i = Len(got) + 1)  BY <1>1, <1>2
    <2> QED  BY <1>0, <1>1, <1>3, <2>1
  <1>5. 0 + Len(g) <= Len(all)  BY <1>0, <1>1, <1>2
  <1> QED  BY <1>1, <1>4, <1>5 DEF OneMoreOf, Starts, Lies, g

AgentBytes(agents) == [i \in 1 .. Len(agents) |-> Agent(agents[i])]

LEMMA AgentBytesTyped ==
  ASSUME NEW agents \in Seq(Agents)
  PROVE  /\ AgentBytes(agents) \in Seq(Seq(Nat)) /\ Len(AgentBytes(agents)) = Len(agents)
         /\ \A i \in 1 .. Len(agents) : AgentBytes(agents)[i] = Agent(agents[i])
  <1>1. Len(agents) \in Nat /\ \A i \in 1 .. Len(agents) : agents[i] \in Agents  OBVIOUS
  <1>2. \A a \in Agents : Agent(a) \in Seq(Nat)
    <2> SUFFICES ASSUME NEW a \in Agents PROVE Agent(a) \in Seq(Nat)  OBVIOUS
    <2> DEFINE t == Titled(a.componentId, a.profileId)
               y == Be16(256)
               z == Be16(10)
    <2>1. t \in Seq(Nat)  BY AgentsTyped, TitledIs
    <2>4. y \in Seq(Nat)  BY Be16Is
    <2>5. z \in Seq(Nat)  BY Be16Is
    <2>2. y \in Seq(Nat) /\ z \in Seq(Nat) /\ <<2>> \in Seq(Nat)  BY <2>4, <2>5
    <2>3. Agent(a) = ((t \o y) \o <<2>>) \o z  BY DEF Agent, Titled
    <2> HIDE DEF t, y, z
    <2> QED  BY <2>1, <2>2, <2>3, Joined
  <1>3. \A i \in 1 .. Len(agents) : Agent(agents[i]) \in Seq(Nat)  BY <1>1, <1>2
  <1> QED  BY <1>1, <1>3 DEF AgentBytes

\* What the inner loop has listed when it ends: count agents, size bytes, or
\* what there is of them.
AgentsEnd(msg, all, start, count, size, parsed) ==
  /\ parsed \in Parsing /\ parsed.services \in Seq(Agents) /\ Starts(parsed.services, all)
  /\ \/ /\ parsed.offset = start.offset + size
        /\ Len(parsed.services) = Len(start.services) + count
     \/ Dead(msg, parsed) /\ Len(msg) < start.offset + size

\* The inner loop lists the agents of a record, all of them or those before the
\* response is cut.
LEMMA AgentsAreRead ==
  ASSUME NEW msg \in Seq(Nat), NEW full \in Seq(Nat), Starts(msg, full),
         NEW agents \in Seq(Agents), NEW start \in Parsing, start.left = Len(agents),
         NEW laid, Laid(laid, AgentBytes(agents), Nat),
         Lies(laid[Len(agents)], full, start.offset),
         NEW all \in Seq(Agents), Lies(agents, all, Len(start.services)),
         start.services \in Seq(Agents), Starts(start.services, all)
  PROVE  AgentsEnd(msg, all, start, Len(agents), Len(laid[Len(agents)]),
                   ParseAgents(msg, start))
  <1> DEFINE n == Len(agents)
             parsed == ParseAgents(msg, start)
             e == start.offset
             base == Len(start.services)
             At(s, j) == /\ s.offset = e + Len(laid[j]) /\ s.left = n - j
                         /\ Len(s.services) = base + j
             kept == {s \in Parsing : /\ s.services \in Seq(Agents) /\ Starts(s.services, all)
                                      /\ \E j \in 0 .. n : At(s, j)}
             end == e + Len(laid[n])
  <1>1. /\ n \in Nat /\ (\A j \in 1 .. n : agents[j] \in Agents)
        /\ Len(msg) \in Nat /\ Len(full) \in Nat /\ Len(all) \in Nat
    OBVIOUS
  <1>2. e \in Nat /\ base \in Nat
    <2>1. base \in Nat  OBVIOUS
    <2> QED  BY <2>1, ParsingIs
  <1> DEFINE q == AgentBytes(agents)
  <1>a. q \in Seq(Seq(Nat)) /\ Len(q) = n /\ \A j \in 1 .. n : q[j] = Agent(agents[j])
    BY AgentBytesTyped
  <1>b. Laid(laid, q, Nat) /\ Lies(laid[n], full, e)  OBVIOUS
  <1> HIDE DEF q, n, e, base, parsed
  <1>3. \A j \in 1 .. n : Lies(q[j], full, e + Len(laid[j - 1]))
    BY <1>1, <1>2, <1>a, <1>b, EachLies
  <1>4. /\ laid[0] = <<>> /\ Len(laid[0]) = 0
        /\ \A j \in 0 .. n : Len(laid[j]) \in Nat /\ Len(laid[j]) <= Len(laid[n])
        /\ \A j \in 1 .. n : /\ Len(laid[j]) = Len(laid[j - 1]) + Len(q[j])
                             /\ Len(q[j]) \in Nat
    <2>1. laid[0] = <<>>  BY <1>b DEF Laid, LaidTo
    <2> QED  BY <1>a, <1>b, <2>1, LaidGrows
  <1>5. \A j \in 1 .. n : base + j <= Len(all) /\ all[base + j] = agents[j]
    BY <1>1, <1>2 DEF Lies, n, base
  <1>6. start \in kept
    <2>1. start.left = n /\ start.offset = e /\ Len(start.services) = base  BY DEF n, e, base
    <2>2. 0 \in 0 .. n /\ At(start, 0)  BY <1>1, <1>2, <1>4, <2>1
    <2> QED  BY <2>2
  <1>7. ASSUME NEW s \in kept, NEW j \in 0 .. n, At(s, j), j # n
        PROVE  /\ HasAgent(msg, s) => /\ NextAgent(msg, s) \in kept
               /\ ~HasAgent(msg, s) => Dead(msg, AgentBreak(msg, s)) /\ Len(msg) < e + Len(laid[j + 1])
    <2> DEFINE k == j + 1
               a == agents[k]
               got == s.services
               size == Len(Agent(a))
    <2>0. k = j + 1  OBVIOUS
    <2>1. /\ k \in 1 .. n /\ k - 1 = j /\ k \in 0 .. n /\ j \in Nat
          /\ a \in Agents /\ q[k] = Agent(a)
      <3>1. k \in 1 .. n /\ k - 1 = j /\ k \in 0 .. n /\ j \in Nat
        <4>1. j # n  BY <1>7, Zenon
        <4>2. n \in Nat  BY <1>1
        <4> HIDE DEF At, kept
        <4> QED  BY <4>1, <4>2
      <3> HIDE DEF k
      <3>2. a \in Agents /\ q[k] = Agent(a)  BY <1>1, <1>a, <3>1
      <3> QED  BY <3>1, <3>2
    <2>2. /\ s.offset = e + Len(laid[j]) /\ s.left = n - j /\ Len(got) = base + j
          /\ s \in Parsing /\ got \in Seq(Agents) /\ Starts(got, all)
      BY <1>7
    <2>3. s.left # 0  BY <1>1, <1>7, <2>1, <2>2
    <2> HIDE DEF a, k, kept, At
    <2>4. /\ Len(laid[j]) \in Nat /\ Len(laid[k]) \in Nat /\ size \in Nat
          /\ Len(laid[k]) = Len(laid[j]) + size
      <3>1. /\ Len(laid[k]) = Len(laid[k - 1]) + Len(q[k])
            /\ Len(q[k]) \in Nat
        BY <1>4, <2>1
      <3> QED  BY <1>4, <2>1, <3>1
    <2>5. Lies(Agent(a), full, s.offset)
      <3>1. Lies(q[k], full, e + Len(laid[k - 1]))  BY <1>3, <2>1
      <3> QED  BY <2>1, <2>2, <3>1
    <2> HIDE DEF size, got
    <2>6. s.offset + size = e + Len(laid[k])  BY <1>2, <2>2, <2>4
    <2>7. IF s.offset + size <= Len(msg)
          THEN /\ HasAgent(msg, s)
               /\ NextAgent(msg, s) = [offset |-> s.offset + size, left |-> s.left - 1,
                                       services |-> Append(got, a)]
          ELSE ~HasAgent(msg, s) /\ Dead(msg, AgentBreak(msg, s))
      BY <2>1, <2>2, <2>3, <2>5, AgentIsRead DEF size, got
    <2>8. ASSUME HasAgent(msg, s) PROVE NextAgent(msg, s) \in kept
      <3> DEFINE t == NextAgent(msg, s)
      <3>1. t = [offset |-> s.offset + size, left |-> s.left - 1, services |-> Append(got, a)]
        BY <2>7, <2>8
      <3>2. t \in Parsing  BY <2>2, <2>8, NextAgentTyped
      <3>3. Len(got) + 1 <= Len(all) /\ all[Len(got) + 1] = a
        <4>1. base + k = base + k  BY <1>2, <2>0, <2>1
        <4>2. base + k <= Len(all) /\ all[base + k] = a  BY <1>5, <2>1 DEF a
        <4>3. Len(got) + 1 = base + k  BY <1>2, <2>1, <2>2, <4>1
        <4> QED  BY <4>2, <4>3, Zenon
      <3>4. /\ Append(got, a) \in Seq(Agents) /\ Starts(Append(got, a), all)
            /\ Len(Append(got, a)) = Len(got) + 1
        <4>1. got \in Seq(Agents) /\ a \in Agents /\ Starts(got, all)  BY <2>1, <2>2
        <4> HIDE DEF t
        <4>2. NextOf(got, a, all, Agents)  BY <3>3, <4>1 DEF NextOf
        <4>3. OneMoreOf(got, a, all, Agents)  BY <4>2, StartsMore
        <4> QED  BY <4>3 DEF OneMoreOf
      <3> HIDE DEF t
      <3>5. /\ t.offset = s.offset + size /\ t.left = s.left - 1
            /\ t.services = Append(got, a)
        BY <3>1
      <3>6. t.left = n - k /\ Len(t.services) = base + k
        BY <1>1, <1>2, <2>0, <2>1, <2>2, <3>4, <3>5
      <3>7. At(t, k)  BY <2>6, <3>5, <3>6 DEF At
      <3> QED  BY <2>1, <3>2, <3>4, <3>5, <3>7 DEF kept, t
    <2>9. ASSUME ~HasAgent(msg, s)
          PROVE  Dead(msg, AgentBreak(msg, s)) /\ Len(msg) < e + Len(laid[k])
      <3>1. ~ (s.offset + size <= Len(msg)) /\ Dead(msg, AgentBreak(msg, s))
        BY <2>7, <2>9
      <3>2. e + Len(laid[k]) \in Nat  BY <1>2, <2>4
      <3> QED  BY <1>1, <2>6, <3>1, <3>2
    <2> QED  BY <2>8, <2>9 DEF k
  <1>8. \A s \in kept : HasAgent(msg, s) => NextAgent(msg, s) \in kept
    <2> SUFFICES ASSUME NEW s \in kept, HasAgent(msg, s) PROVE NextAgent(msg, s) \in kept
      OBVIOUS
    <2>1. PICK j \in 0 .. n : At(s, j)  OBVIOUS
    <2>2. s.left # 0  BY DEF HasAgent, HasText
    <2>3. j # n  BY <1>1, <2>1, <2>2
    <2> HIDE DEF kept, At
    <2> QED  BY <1>7, <2>1, <2>3
  <1>9. PICK s \in kept : ~HasAgent(msg, s) /\ parsed = AgentBreak(msg, s)
    <2>1. kept \in SUBSET Parsing  OBVIOUS
    <2> HIDE DEF kept
    <2> QED  BY <1>6, <1>8, <2>1, ParseAgentsEnds DEF parsed
  <1>10. PICK j \in 0 .. n : At(s, j)  BY <1>9
  <1>11. /\ s \in Parsing /\ s.services \in Seq(Agents) /\ Starts(s.services, all)
    BY <1>9
  <1>12. parsed \in Parsing /\ parsed.services = s.services  BY <1>9, <1>11, AgentBreakTyped
  <1>13. CASE j = n
    <2>1. s.left = 0  BY <1>1, <1>10, <1>13
    <2>2. parsed = s  BY <1>9, <2>1 DEF AgentBreak
    <2> QED  BY <1>10, <1>11, <1>12, <1>13, <2>2 DEF n, e, base, parsed, AgentsEnd
  <1>14. CASE j # n
    <2>1. Dead(msg, parsed) /\ Len(msg) < e + Len(laid[j + 1])
      <3> HIDE DEF kept, At
      <3> QED  BY <1>7, <1>9, <1>10, <1>14
    <2>2. j + 1 \in 0 .. n /\ n \in 0 .. n /\ Len(laid[j + 1]) <= Len(laid[n])
      BY <1>1, <1>4, <1>14
    <2>3. Len(laid[j + 1]) \in Nat /\ Len(laid[n]) \in Nat  BY <1>4, <2>2
    <2>4. Len(msg) < e + Len(laid[n])  BY <1>1, <1>2, <2>1, <2>2, <2>3
    <2> QED  BY <1>11, <1>12, <2>1, <2>4 DEF n, e, parsed, AgentsEnd
  <1> QED  BY <1>13, <1>14

AleBytes(records) == [i \in 1 .. Len(records) |-> Ale(records[i])]
AgentLists(records) == [i \in 1 .. Len(records) |-> records[i].agents]


LEMMA RecordsTyped ==
  ASSUME NEW r \in Records, Len(r.agents) \in Words
  PROVE  /\ r.name \in Texts /\ r.agents \in Seq(Agents) /\ Len(r.agents) \in Nat
         /\ Ale(r) = (Titled(0, r.name) \o Be16(Len(r.agents))) \o FlattenSeq(AgentBytes(r.agents))
         /\ Titled(0, r.name) \in Seq(Nat) /\ Be16(Len(r.agents)) \in Seq(Nat)
         /\ FlattenSeq(AgentBytes(r.agents)) \in Seq(Nat)
         /\ Ale(r) \in Seq(Nat)
  <1> DEFINE t == Titled(0, r.name)
             y == Be16(Len(r.agents))
             q == AgentBytes(r.agents)
             z == FlattenSeq(q)
  <1>1. r.name \in Texts /\ r.agents \in Seq(Agents)  BY DEF Records
  <1>2. Len(r.agents) \in Nat  BY <1>1
  <1>3. t \in Seq(Nat)  BY <1>1, TitledIs
  <1>4. y \in Seq(Nat)  BY <1>2, Be16Is
  <1>5. z \in Seq(Nat)
    <2>1. q \in Seq(Seq(Nat))  BY <1>1, AgentBytesTyped
    <2> HIDE DEF q
    <2>2. PICK f : Laid(f, q, Nat)  BY <2>1, LaidExists
    <2>3. z = f[Len(q)]  BY <2>1, <2>2, Flattened
    <2>4. Len(q) \in 0 .. Len(q)  BY <2>1
    <2>5. \A i \in 0 .. Len(q) : f[i] \in Seq(Nat)  BY <2>1, <2>2, LaidGrows
    <2>6. f[Len(q)] \in Seq(Nat)  BY <2>4, <2>5
    <2> QED  BY <2>3, <2>6
  <1>6. Ale(r) = (t \o y) \o z  BY DEF Ale, Titled, AgentBytes
  <1> HIDE DEF t, y, z
  <1>7. (t \o y) \o z \in Seq(Nat)  BY <1>3, <1>4, <1>5, Joined
  <1> QED  BY <1>1, <1>2, <1>3, <1>4, <1>5, <1>6, <1>7 DEF t, y, z, q

\* A record's title and number of agents are read, or the response is cut there.
LEMMA RecordIsRead ==
  ASSUME NEW msg \in Seq(Nat), NEW full \in Seq(Nat), Starts(msg, full),
         NEW name \in Texts, NEW n \in Nat, NEW s \in Parsing, s.left # 0,
         Lies(Titled(0, name) \o Be16(n), full, s.offset)
  PROVE  IF s.offset + Len(name) + 5 <= Len(msg)
         THEN /\ HasRecord(msg, s) /\ U16(msg, PastText(msg, s)) = n
              /\ PastText(msg, s) + 2 = s.offset + Len(name) + 5
         ELSE ~HasRecord(msg, s)
  <1> DEFINE e == s.offset
             t == Titled(0, name)
             y == Be16(n)
             past == s.offset + Len(name) + 3
  <1>1. e \in Nat  BY ParsingIs
  <1>2. Len(name) \in Nat /\ t \in Seq(Nat) /\ Len(t) = Len(name) + 3  BY TextsTyped, TitledIs
  <1>3. y \in Seq(Nat) /\ Len(y) = 2 /\ y[1] = n \div 256 /\ y[2] = n % 256
    <2>1. y \in Seq(Nat) /\ Len(y) = 2 /\ Halves(y, n)  BY Be16Is
    <2> HIDE DEF y
    <2> QED  BY <2>1 DEF Halves
  <1>4. Len(msg) \in Nat /\ Len(full) \in Nat  OBVIOUS
  <1>5. Lies(t \o y, full, e)  OBVIOUS
  <1> HIDE DEF t, y, e
  <1>6. Lies(t, full, e) /\ Lies(y, full, e + Len(t))
    <2>1. t \in Seq(Nat) /\ y \in Seq(Nat) /\ Len(msg) \in Nat  BY <1>2, <1>3, <1>4
    <2> QED  BY <1>1, <1>5, <2>1, LiesApart
  <1>7. past = e + Len(t) /\ past \in Nat /\ past + 2 = e + Len(name) + 5
    <2> DEFINE l == Len(name)
    <2>1. past = e + l + 3 /\ l \in Nat /\ Len(t) = l + 3  BY <1>2 DEF e
    <2> HIDE DEF past, l
    <2>2. past = e + Len(t) /\ past \in Nat /\ past + 2 = e + l + 5  BY <1>1, <2>1
    <2> QED  BY <2>2 DEF l
  <1>8. IF past <= Len(msg)
        THEN /\ s.left # 0 => HasText(msg, s)
             /\ PastText(msg, s) = past
             /\ U16(msg, s.offset) = 0
             /\ SubSeq(msg, Text(s) + 1, past - 1) = name
        ELSE ~HasText(msg, s) /\ Dead(msg, s)
    <2>1. Lies(Titled(0, name), full, s.offset)  BY <1>6 DEF t, e
    <2>2. past = s.offset + Len(name) + 3  OBVIOUS
    <2>3. 0 \in Nat  OBVIOUS
    <2> HIDE DEF past
    <2>4. TitleRead(msg, s, 0, name, past)  BY <2>1, <2>2, <2>3, TitleIsRead
    <2> QED  BY <2>4 DEF TitleRead
  <1> HIDE DEF past
  <1>9. CASE past + 2 <= Len(msg)
    <2>1. past <= Len(msg)  BY <1>4, <1>7, <1>9
    <2>2. HasText(msg, s) /\ PastText(msg, s) = past  BY <1>8, <2>1
    <2>3. HasRecord(msg, s)  BY <1>9, <2>2 DEF HasRecord
    <2>4. U16(msg, past) = n
      <3>1. 1 \in 1 .. Len(y) /\ 2 \in 1 .. Len(y)  BY <1>3
      <3>2. full[past + 1] = y[1] /\ full[past + 2] = y[2]  BY <1>6, <1>7, <3>1 DEF Lies
      <3>3. /\ past + 1 \in 1 .. Len(msg) /\ past + 2 \in 1 .. Len(msg)
            /\ 0 + (past + 1) = past + 1 /\ 0 + (past + 2) = past + 2
        <4>1. past \in Nat /\ past + 2 <= Len(msg) /\ Len(msg) \in Nat  BY <1>4, <1>7, <1>9
        <4> QED  BY <4>1
      <3>4. full[0 + (past + 1)] = msg[past + 1] /\ full[0 + (past + 2)] = msg[past + 2]
        BY <3>3 DEF Starts, Lies
      <3>5. msg[past + 1] = n \div 256 /\ msg[past + 2] = n % 256  BY <1>3, <3>2, <3>3, <3>4
      <3>6. U16(msg, past) = 256 * (n \div 256) + (n % 256)  BY <3>5 DEF U16
      <3> QED  BY <3>6, TwoBytes
    <2> QED  BY <1>7, <1>9, <2>2, <2>3, <2>4 DEF e
  <1>10. CASE ~ (past + 2 <= Len(msg))
    <2>1. ~HasRecord(msg, s)
      <3>1. CASE past <= Len(msg)  BY <1>8, <1>10, <3>1 DEF HasRecord
      <3>2. CASE ~ (past <= Len(msg))  BY <1>8, <3>2 DEF HasRecord
      <3> QED  BY <3>1, <3>2
    <2> QED  BY <1>7, <1>10, <2>1 DEF e
  <1> QED  BY <1>9, <1>10

LEMMA ListableTyped ==
  ASSUME NEW records, Listable(records)
  PROVE  /\ Len(records) \in Nat
         /\ \A i \in 1 .. Len(records) : records[i] \in Records /\ Len(records[i].agents) \in Words
         /\ AleBytes(records) \in Seq(Seq(Nat)) /\ Len(AleBytes(records)) = Len(records)
         /\ \A i \in 1 .. Len(records) : AleBytes(records)[i] = Ale(records[i])
         /\ AgentLists(records) \in Seq(Seq(Agents)) /\ Len(AgentLists(records)) = Len(records)
         /\ \A i \in 1 .. Len(records) : AgentLists(records)[i] = records[i].agents
  <1> DEFINE n == Len(records)
  <1>1. records \in Seq(Records)  BY DEF Listable
  <1>2. n \in Nat /\ \A i \in 1 .. n : records[i] \in Records  BY <1>1
  <1>3. \A i \in 1 .. n : Len(records[i].agents) \in Words
    <2>1. DOMAIN records = 1 .. n  BY <1>1
    <2> QED  BY <2>1 DEF Listable
  <1> HIDE DEF n
  <1>4. \A i \in 1 .. n : Ale(records[i]) \in Seq(Nat) /\ records[i].agents \in Seq(Agents)
    BY <1>2, <1>3, RecordsTyped
  <1>5. AleBytes(records) = [i \in 1 .. n |-> Ale(records[i])]  BY DEF AleBytes, n
  <1>6. AgentLists(records) = [i \in 1 .. n |-> records[i].agents]  BY DEF AgentLists, n
  <1>7. AleBytes(records) \in Seq(Seq(Nat)) /\ Len(AleBytes(records)) = n
    BY <1>2, <1>4, <1>5
  <1>8. AgentLists(records) \in Seq(Seq(Agents)) /\ Len(AgentLists(records)) = n
    BY <1>2, <1>4, <1>6
  <1>9. \A i \in 1 .. n : /\ AleBytes(records)[i] = Ale(records[i])
                          /\ AgentLists(records)[i] = records[i].agents
    BY <1>5, <1>6
  <1> QED  BY <1>2, <1>3, <1>7, <1>8, <1>9 DEF n

LEMMA PartsLie ==
  ASSUME NEW name \in Texts, NEW n \in Nat, NEW z \in Seq(Nat), NEW full \in Seq(Nat),
         NEW e \in Nat, Lies((Titled(0, name) \o Be16(n)) \o z, full, e)
  PROVE  /\ Lies(Titled(0, name) \o Be16(n), full, e)
         /\ Lies(z, full, e + Len(name) + 5)
         /\ Len((Titled(0, name) \o Be16(n)) \o z) = Len(name) + 5 + Len(z)
  <1> DEFINE t == Titled(0, name)
             y == Be16(n)
             b == t \o y
             l == Len(name)
             m == Len(b)
             w == Len(z)
  <1>1. l \in Nat  BY TextsTyped
  <1>2. t \in Seq(Nat) /\ Len(t) = l + 3  BY TitledIs
  <1>3. y \in Seq(Nat) /\ Len(y) = 2  BY Be16Is
  <1>4. Len(full) \in Nat /\ w \in Nat  OBVIOUS
  <1>5. Lies(b \o z, full, e)  OBVIOUS
  <1> HIDE DEF t, y, l
  <1>6. b \in Seq(Nat) /\ m = Len(t) + Len(y)  BY <1>2, <1>3, Joined
  <1>7. m = l + 5  BY <1>1, <1>2, <1>3, <1>6
  <1> HIDE DEF b
  <1>8. Lies(b, full, e) /\ Lies(z, full, e + m)  BY <1>4, <1>5, <1>6, LiesApart
  <1>9. Len(b \o z) = m + w  BY <1>6, Joined
  <1> HIDE DEF m, w
  <1>10. e + m = e + l + 5 /\ m + w = l + 5 + w  BY <1>1, <1>4, <1>7
  <1>11. Lies(z, full, e + l + 5)  BY <1>8, <1>10, Zenon
  <1>12. Len(b \o z) = l + 5 + w  BY <1>9, <1>10, Zenon
  <1> QED  BY <1>8, <1>11, <1>12 DEF b, t, y, l, w

\* The parts of a record that lies at an offset, and where the next one does.
RecordAt(r, full, e, past) ==
  /\ Lies(Titled(0, r.name) \o Be16(Len(r.agents)), full, e)
  /\ Lies(FlattenSeq(AgentBytes(r.agents)), full, e + Len(r.name) + 5)
  /\ e + Len(r.name) + 5 + Len(FlattenSeq(AgentBytes(r.agents))) = past
  /\ past <= Len(full)

\* Where the records lie, the parts of the next one do.
LEMMA RecordLies ==
  ASSUME NEW records, Listable(records), NEW full \in Seq(Nat), NEW at \in Nat,
         NEW laid, Laid(laid, AleBytes(records), Nat), Lies(laid[Len(records)], full, at),
         NEW k \in 1 .. Len(records)
  PROVE  RecordAt(records[k], full, at + Len(laid[k - 1]), at + Len(laid[k]))
  <1> DEFINE r == records[k]
             n == Len(records)
             q == AleBytes(records)
             y == Len(r.agents)
             x == r.name
             z == FlattenSeq(AgentBytes(r.agents))
             p == Len(laid[k - 1])
             u == Len(laid[k])
             v == Len(q[k])
             l == Len(x)
             w == Len(z)
             e == at + p
  <1>1. /\ n \in Nat /\ r \in Records /\ y \in Words
        /\ q \in Seq(Seq(Nat)) /\ Len(q) = n /\ q[k] = Ale(r)
    BY ListableTyped
  <1>2. Laid(laid, q, Nat) /\ Lies(laid[Len(q)], full, at) /\ k \in 1 .. Len(q)
    BY <1>1
  <1>3. Len(full) \in Nat  OBVIOUS
  <1>4. /\ x \in Texts /\ y \in Nat /\ z \in Seq(Nat)
        /\ Ale(r) = (Titled(0, x) \o Be16(y)) \o z
    BY <1>1, RecordsTyped
  <1> HIDE DEF q, y, z, r, x
  <1>5. w \in Nat  BY <1>4
  <1>6. /\ Lies(q[k], full, at + Len(laid[k - 1]))
        /\ Len(laid[k]) = Len(laid[k - 1]) + Len(q[k]) /\ Len(laid[k - 1]) \in Nat
    BY <1>1, <1>2, <1>3, EachLies
  <1>7. q[k] = (Titled(0, x) \o Be16(y)) \o z  BY <1>1, <1>4, Zenon
  <1>8. Lies(q[k], full, e) /\ u = p + v /\ p \in Nat  BY <1>6, Zenon
  <1>16. e = at + p /\ e \in Nat  BY <1>8
  <1> HIDE DEF e
  <1>9. Lies((Titled(0, x) \o Be16(y)) \o z, full, e)  BY <1>7, <1>8, Zenon
  <1>10. /\ Lies(Titled(0, x) \o Be16(y), full, e)
         /\ Lies(z, full, e + l + 5)
         /\ Len((Titled(0, x) \o Be16(y)) \o z) = l + 5 + w
    BY <1>4, <1>9, <1>16, PartsLie
  <1>11. v = l + 5 + w  BY <1>7, <1>10, Zenon
  <1>12. l \in Nat  BY <1>4, TextsTyped
  <1>13. e + v <= Len(full)  BY <1>8 DEF Lies
  <1> HIDE DEF l, w, v, p, u
  <1>14. e + l + 5 + w = at + u /\ at + u = e + v  BY <1>5, <1>8, <1>11, <1>12, <1>16
  <1>15. at + u <= Len(full)  BY <1>13, <1>14
  <1> QED  BY <1>10, <1>14, <1>15 DEF RecordAt, y, z, r, x, u, l, w, e, p

LEMMA DeadHasNoText ==
  ASSUME NEW msg \in Seq(Nat), NEW s \in Parsing, Dead(msg, s)
  PROVE  ~HasText(msg, s)
  <1> SUFFICES ASSUME HasText(msg, s) PROVE FALSE  OBVIOUS
  <1>1. PICK i \in Text(s) .. Len(msg) - 1 : msg[i + 1] = FieldSeparator
    BY DEF HasText, Found, Separator
  <1>2. i + 1 \in Text(s) + 1 .. Len(msg)
    <2>1. Text(s) \in Nat /\ Len(msg) \in Nat  BY ParsingIs
    <2> QED  BY <2>1
  <1> QED  BY <1>1, <1>2 DEF Dead

\* The records of a response are listed, all of them or those before it is cut.
LEMMA RecordsAreRead ==
  ASSUME NEW msg \in Seq(Nat), NEW full \in Seq(Nat), Starts(msg, full),
         NEW records, Listable(records), NEW at \in Nat,
         NEW laid, Laid(laid, AleBytes(records), Nat), Lies(laid[Len(records)], full, at),
         NEW start \in Parsing, start.offset = at, start.left = Len(records),
         start.services = <<>>
  PROVE  /\ ParseRecords(msg, start) \in Seq(Agents)
         /\ Starts(ParseRecords(msg, start), Listing(records))
         /\ Len(msg) = Len(full) => ParseRecords(msg, start) = Listing(records)
  <1> DEFINE n == Len(records)
             lists == AgentLists(records)
             all == Listing(records)
             got == ParseRecords(msg, start)
  <1>1. /\ n \in Nat /\ lists \in Seq(Seq(Agents)) /\ Len(lists) = n
        /\ \A i \in 1 .. n : lists[i] = records[i].agents
    BY ListableTyped
  <1>2. \A i \in 1 .. n : records[i] \in Records /\ Len(records[i].agents) \in Words
    BY ListableTyped
  <1>3. Len(msg) \in Nat /\ Len(full) \in Nat /\ Len(msg) <= Len(full)
    <2>1. 0 + Len(msg) <= Len(full)  BY DEF Starts, Lies
    <2> QED  BY <2>1
  <1>17. start.left = n  OBVIOUS
  <1> HIDE DEF lists, n, got
  <1>4. PICK listed : Laid(listed, lists, Agents)  BY <1>1, LaidExists
  <1>5. all = listed[n]  BY <1>1, <1>4, Flattened DEF Listing, AgentLists, lists
  <1> HIDE DEF all
  <1>6. /\ \A i \in 0 .. n : listed[i] \in Seq(Agents) /\ Len(listed[i]) \in Nat
        /\ \A i \in 1 .. n : Len(listed[i]) = Len(listed[i - 1]) + Len(lists[i])
        /\ listed[0] = <<>>
    <2>1. listed[0] = <<>>  BY <1>4 DEF Laid, LaidTo
    <2> QED  BY <1>1, <1>4, <2>1, LaidGrows
  <1>7. all \in Seq(Agents)
    <2>1. n \in 0 .. n  BY <1>1
    <2> QED  BY <1>5, <1>6, <2>1
  <1>8. \A i \in 1 .. n : Lies(lists[i], all, Len(listed[i - 1]))
    <2> SUFFICES ASSUME NEW i \in 1 .. n PROVE Lies(lists[i], all, Len(listed[i - 1]))
      OBVIOUS
    <2>1. Len(all) \in Nat  BY <1>7
    <2>2. Lies(listed[Len(lists)], all, 0)
      <3>1. \A j \in 1 .. Len(all) : 0 + j = j  BY <2>1
      <3>2. Lies(all, all, 0)  BY <2>1, <3>1 DEF Lies
      <3> QED  BY <1>1, <1>5, <3>2
    <2>3. Lies(lists[i], all, 0 + Len(listed[i - 1])) /\ Len(listed[i - 1]) \in Nat
      BY <1>1, <1>4, <2>1, <2>2, EachLies
    <2>4. 0 + Len(listed[i - 1]) = Len(listed[i - 1])  BY <2>3
    <2> QED  BY <2>3, <2>4
  <1>16. \A i \in 0 .. n : Len(laid[i]) \in Nat
    <2>1. AleBytes(records) \in Seq(Seq(Nat)) /\ Len(AleBytes(records)) = n
      BY ListableTyped DEF n
    <2> QED  BY <2>1, LaidGrows
  <1> DEFINE At(s, i) == /\ s.offset = at + Len(laid[i]) /\ s.left = n - i
                         /\ Len(s.services) = Len(listed[i])
             kept == {s \in Parsing : /\ s.services \in Seq(Agents) /\ Starts(s.services, all)
                                      /\ \/ \E i \in 0 .. n : At(s, i)
                                         \/ Dead(msg, s) /\ Len(msg) < Len(full)}
  <1>9. start \in kept
    <2>1. laid[0] = <<>>  BY DEF Laid, LaidTo
    <2>2. At(start, 0) /\ 0 \in 0 .. n
      <3>1. at + 0 = at /\ n - 0 = n /\ Len(<<>>) = 0  BY <1>1
      <3> QED  BY <1>1, <1>6, <1>17, <2>1, <3>1
    <2>3. start.services \in Seq(Agents) /\ Starts(start.services, all)
      <3>1. Len(all) \in Nat  BY <1>7
      <3> QED  BY <3>1 DEF Starts, Lies
    <2> QED  BY <2>2, <2>3
  <1>10. ASSUME NEW s \in kept, NEW i \in 0 .. n, At(s, i), i # n
         PROVE  /\ HasRecord(msg, s) => NextRecord(msg, s) \in kept
                /\ ~HasRecord(msg, s) => Len(msg) < Len(full)
    <2> DEFINE k == i + 1
               r == records[k]
               e == s.offset
               z == FlattenSeq(AgentBytes(r.agents))
               in == e + Len(r.name) + 5
    <2>1. k \in 1 .. n /\ k - 1 = i /\ k \in 0 .. n /\ i \in Nat  BY <1>1, <1>10
    <2>2. /\ s \in Parsing /\ s.services \in Seq(Agents) /\ Starts(s.services, all)
          /\ e = at + Len(laid[i]) /\ s.left = n - i /\ Len(s.services) = Len(listed[i])
      BY <1>10
    <2>3. s.left # 0  BY <1>1, <1>10, <2>2
    <2> HIDE DEF k, kept, At
    <2>4. r \in Records /\ Len(r.agents) \in Words /\ lists[k] = r.agents  BY <1>1, <1>2, <2>1
    <2>5. r.name \in Texts /\ r.agents \in Seq(Agents) /\ Len(r.agents) \in Nat /\ z \in Seq(Nat)
      BY <2>4, RecordsTyped
    <2>7. Len(r.name) \in Nat  BY <2>5, TextsTyped
    <2>6. /\ Lies(Titled(0, r.name) \o Be16(Len(r.agents)), full, e)
          /\ Lies(z, full, in) /\ in + Len(z) = at + Len(laid[k])
          /\ at + Len(laid[k]) <= Len(full) /\ e \in Nat
      <3>1. k \in 1 .. Len(records)  BY <2>1 DEF n
      <3>2. Lies(laid[Len(records)], full, at)  OBVIOUS
      <3>3. RecordAt(records[k], full, at + Len(laid[k - 1]), at + Len(laid[k]))
        BY <3>1, <3>2, RecordLies
      <3>4. laid[k - 1] = laid[i]  BY <2>1
      <3>5. e = at + Len(laid[k - 1])  BY <2>2, <3>4, Zenon
      <3>6. e \in Nat  BY <2>2, ParsingIs
      <3>7. RecordAt(r, full, e, at + Len(laid[k]))  BY <3>3, <3>5, Zenon
      <3> HIDE DEF e, r
      <3> QED  BY <3>6, <3>7 DEF RecordAt
    <2> HIDE DEF r, e, z
    <2>8. in \in Nat /\ Len(z) \in Nat
      <3> DEFINE l == Len(r.name)
      <3>1. l \in Nat /\ e \in Nat /\ in = e + l + 5  BY <2>6, <2>7
      <3> HIDE DEF l, in
      <3>2. in \in Nat  BY <3>1
      <3> QED  BY <2>5, <3>2
    <2>9. IF in <= Len(msg)
          THEN /\ HasRecord(msg, s) /\ U16(msg, PastText(msg, s)) = Len(r.agents)
               /\ PastText(msg, s) + 2 = in
          ELSE ~HasRecord(msg, s)
      BY <2>2, <2>3, <2>5, <2>6, RecordIsRead DEF e
    <2> HIDE DEF in
    <2>10. ASSUME HasRecord(msg, s)
           PROVE  NextRecord(msg, s) \in kept
      <3> DEFINE agents == [offset |-> in, left |-> Len(r.agents), services |-> s.services]
                 parsed == ParseAgents(msg, agents)
                 next == NextRecord(msg, s)
      <3>1. /\ agents \in Parsing /\ next \in Parsing
            /\ next = [offset |-> parsed.offset, left |-> s.left - 1, services |-> parsed.services]
        BY <2>2, <2>9, <2>10, NextRecordTyped
      <3> DEFINE q == AgentBytes(r.agents)
      <3>2. q \in Seq(Seq(Nat)) /\ Len(q) = Len(r.agents)  BY <2>5, AgentBytesTyped
      <3>3. PICK byte : Laid(byte, q, Nat)
        <4> HIDE DEF q
        <4> QED  BY <3>2, LaidExists
      <3>4. byte[Len(r.agents)] = z
        <4> HIDE DEF q
        <4>1. FlattenSeq(q) = byte[Len(q)]  BY <3>2, <3>3, Flattened
        <4> QED  BY <3>2, <4>1 DEF z, q
      <3>5. /\ agents.offset = in /\ agents.left = Len(r.agents) /\ agents.services = s.services
        OBVIOUS
      <3>6. Lies(r.agents, all, Len(s.services))  BY <1>8, <2>1, <2>2, <2>4
      <3> HIDE DEF agents, next
      <3>7. /\ parsed \in Parsing /\ parsed.services \in Seq(Agents)
            /\ Starts(parsed.services, all)
            /\ \/ /\ parsed.offset = in + Len(z)
                  /\ Len(parsed.services) = Len(s.services) + Len(r.agents)
               \/ Dead(msg, parsed) /\ Len(msg) < in + Len(z)
        <4>1. Lies(byte[Len(r.agents)], full, agents.offset)  BY <2>6, <3>4, <3>5, Zenon
        <4>2. Lies(r.agents, all, Len(agents.services))  BY <3>5, <3>6, Zenon
        <4>3. agents.services \in Seq(Agents) /\ Starts(agents.services, all)
          BY <2>2, <3>5, Zenon
        <4>4. agents \in Parsing /\ agents.left = Len(r.agents)  BY <3>1, <3>5
        <4>5. AgentsEnd(msg, all, agents, Len(r.agents), Len(byte[Len(r.agents)]), parsed)
          BY <1>7, <2>5, <3>3, <4>1, <4>2, <4>3, <4>4, AgentsAreRead
        <4> HIDE DEF parsed
        <4> QED  BY <3>4, <3>5, <4>5 DEF AgentsEnd
      <3> HIDE DEF parsed
      <3>8. /\ next.offset = parsed.offset /\ next.left = s.left - 1
            /\ next.services = parsed.services
        BY <3>1
      <3>9. CASE /\ parsed.offset = in + Len(z)
                 /\ Len(parsed.services) = Len(s.services) + Len(r.agents)
        <4>1. next.offset = at + Len(laid[k])  BY <2>6, <3>8, <3>9
        <4>2. next.left = n - k  BY <1>1, <2>1, <2>2, <3>8
        <4>3. Len(next.services) = Len(listed[k])
          <5>1. Len(listed[k]) = Len(listed[k - 1]) + Len(lists[k])  BY <1>6, <2>1
          <5> QED  BY <2>1, <2>2, <2>4, <3>8, <3>9, <5>1
        <4>4. At(next, k)  BY <4>1, <4>2, <4>3 DEF At
        <4> QED  BY <2>1, <3>1, <3>7, <3>8, <4>4 DEF kept, next
      <3>10. CASE Dead(msg, parsed) /\ Len(msg) < in + Len(z)
        <4>1. Dead(msg, next)  BY <3>8, <3>10 DEF Dead, Text
        <4>2. Len(msg) < Len(full)
          <5>1. in + Len(z) <= Len(full)  BY <2>6
          <5> QED  BY <1>3, <2>8, <3>10, <5>1
        <4> QED  BY <3>1, <3>7, <3>8, <4>1, <4>2 DEF kept, next
      <3> QED  BY <3>7, <3>9, <3>10
    <2>11. ASSUME ~HasRecord(msg, s) PROVE Len(msg) < Len(full)
      <3>1. ~ (in <= Len(msg))  BY <2>9, <2>11
      <3>2. in + Len(z) <= Len(full)  BY <2>6
      <3> QED  BY <1>3, <2>8, <3>1, <3>2
    <2> QED  BY <2>10, <2>11
  <1>11. \A s \in kept : HasRecord(msg, s) => NextRecord(msg, s) \in kept
    <2> SUFFICES ASSUME NEW s \in kept, HasRecord(msg, s) PROVE NextRecord(msg, s) \in kept
      OBVIOUS
    <2>1. HasText(msg, s) /\ s.left # 0  BY DEF HasRecord, HasText
    <2>2. s \in Parsing /\ ((\E i \in 0 .. n : At(s, i)) \/ Dead(msg, s))  OBVIOUS
    <2> HIDE DEF kept
    <2>3. PICK i \in 0 .. n : At(s, i)
      <3> HIDE DEF At
      <3> QED  BY <2>1, <2>2, DeadHasNoText
    <2>4. i # n  BY <1>1, <2>1, <2>3
    <2> HIDE DEF At
    <2> QED  BY <1>10, <2>3, <2>4
  <1>12. PICK s \in kept : ~HasRecord(msg, s) /\ got = s.services
    <2>1. kept \in SUBSET Parsing  OBVIOUS
    <2> HIDE DEF kept
    <2>2. \E s \in kept : ~HasRecord(msg, s) /\ ParseRecords(msg, start) = s.services
      BY <1>9, <1>11, <2>1, ParseRecordsEnds
    <2> QED  BY <2>2 DEF got
  <1>13. got \in Seq(Agents) /\ Starts(got, all)  BY <1>12
  <1>14. ASSUME Len(msg) = Len(full) PROVE got = all
    <2>1. ~ (Len(msg) < Len(full))  BY <1>3, <1>14
    <2>2. PICK i \in 0 .. n : At(s, i)
      <3> HIDE DEF At
      <3> QED  BY <1>12, <2>1
    <2>3. i = n
      <3> HIDE DEF At, kept
      <3> QED  BY <1>10, <1>12, <2>1, <2>2
    <2>4. Len(got) = Len(all)  BY <1>5, <1>12, <2>2, <2>3
    <2>5. \A j \in 1 .. Len(got) : all[0 + j] = got[j]  BY <1>13 DEF Starts, Lies
    <2>6. Len(got) \in Nat  BY <1>13
    <2>7. \A j \in 1 .. Len(got) : 0 + j = j  BY <2>6
    <2>8. \A j \in 1 .. Len(got) : got[j] = all[j]  BY <2>5, <2>7
    <2> QED  BY <1>7, <1>13, <2>4, <2>8, SeqEqual
  <1> QED  BY <1>13, <1>14 DEF all, got

\* What comes after the checksum: how many records, then the records.
LEMMA CountIsRead ==
  ASSUME NEW msg \in Seq(Nat), NEW head \in Seq(Nat), NEW n \in Nat, NEW body \in Seq(Nat),
         Starts(msg, (head \o Be16(n)) \o body)
  PROVE  /\ (head \o Be16(n)) \o body \in Seq(Nat)
         /\ Lies(body, (head \o Be16(n)) \o body, Len(head) + 2)
         /\ Len(head) + 2 <= Len(msg) => U16(msg, Len(head)) = n
         /\ Len(head) + 2 <= Len((head \o Be16(n)) \o body)
         /\ \A i \in 1 .. Len(head) : i <= Len(msg) => msg[i] = head[i]
  <1> DEFINE y == Be16(n)
             b == head \o y
             full == b \o body
             c == Len(head)
             m == Len(b)
             w == Len(body)
  <1>1. /\ y \in Seq(Nat) /\ Len(y) = 2 /\ y[1] = n \div 256 /\ y[2] = n % 256
    <2>1. y \in Seq(Nat) /\ Len(y) = 2 /\ Halves(y, n)  BY Be16Is
    <2> HIDE DEF y
    <2> QED  BY <2>1 DEF Halves
  <1>2. c \in Nat /\ w \in Nat /\ Len(msg) \in Nat  OBVIOUS
  <1>3. Starts(msg, full)  OBVIOUS
  <1> HIDE DEF y
  <1>4. /\ b \in Seq(Nat) /\ m = c + Len(y)
        /\ \A i \in 1 .. Len(head) : b[i] = head[i]
        /\ \A i \in 1 .. Len(y) : b[Len(head) + i] = y[i]
    <2>1. y \in Seq(Nat)  BY <1>1
    <2> QED  BY <2>1, Joined
  <1>5. m = c + 2  BY <1>1, <1>2, <1>4
  <1> HIDE DEF b
  <1>6. /\ full \in Seq(Nat) /\ Len(full) = m + w
        /\ \A i \in 1 .. Len(b) : full[i] = b[i]
        /\ \A i \in 1 .. Len(body) : full[Len(b) + i] = body[i]
    BY <1>4, Joined
  <1> HIDE DEF full
  <1>7. c + 2 <= Len(full) /\ Len(full) \in Nat
    <2> DEFINE f == Len(full)
    <2>1. f = m + w  BY <1>6
    <2> HIDE DEF f, m, w, c
    <2>2. c + 2 <= f /\ f \in Nat  BY <1>2, <1>5, <2>1
    <2> QED  BY <2>2 DEF f
  <1>8. Lies(body, full, m)
    <2>1. m + Len(body) <= Len(full)
      <3> HIDE DEF m
      <3>1. Len(full) = m + Len(body)  BY <1>6
      <3>2. Len(full) \in Nat  BY <1>7
      <3> QED  BY <3>1, <3>2
    <2>2. \A i \in 1 .. Len(body) : full[m + i] = body[i]  BY <1>6
    <2> QED  BY <2>1, <2>2 DEF Lies
  <1>9. Lies(body, full, c + 2)  BY <1>5, <1>8, Zenon
  <1>10. \A i \in 1 .. Len(msg) : full[i] = msg[i]
    <2>1. \A i \in 1 .. Len(msg) : full[0 + i] = msg[i]  BY <1>3 DEF Starts, Lies
    <2>2. \A i \in 1 .. Len(msg) : 0 + i = i  BY <1>2
    <2> QED  BY <2>1, <2>2
  <1>11. \A i \in 1 .. c : i <= Len(msg) => msg[i] = head[i]
    <2> SUFFICES ASSUME NEW i \in 1 .. c, i <= Len(msg) PROVE msg[i] = head[i]  OBVIOUS
    <2>1. i \in 1 .. Len(msg)  BY <1>2
    <2>2. i \in 1 .. Len(b)
      <3> HIDE DEF m
      <3>1. i \in 1 .. m
        <4> HIDE DEF c
        <4> QED  BY <1>2, <1>5
      <3> QED  BY <3>1 DEF m
    <2> QED  BY <1>4, <1>6, <1>10, <2>1, <2>2
  <1>12. ASSUME c + 2 <= Len(msg) PROVE U16(msg, c) = n
    <2>1. 1 \in 1 .. Len(y) /\ 2 \in 1 .. Len(y)  BY <1>1
    <2>2. b[c + 1] = y[1] /\ b[c + 2] = y[2]  BY <1>4, <2>1
    <2>3. c + 1 \in 1 .. m /\ c + 2 \in 1 .. m
      <3> HIDE DEF c, m
      <3> QED  BY <1>2, <1>5
    <2>4. full[c + 1] = y[1] /\ full[c + 2] = y[2]  BY <1>6, <2>2, <2>3
    <2>5. c + 1 \in 1 .. Len(msg) /\ c + 2 \in 1 .. Len(msg)
      <3> HIDE DEF c
      <3> QED  BY <1>2, <1>12
    <2>6. msg[c + 1] = n \div 256 /\ msg[c + 2] = n % 256  BY <1>1, <1>10, <2>4, <2>5
    <2>7. U16(msg, c) = 256 * (n \div 256) + (n % 256)  BY <2>6 DEF U16
    <2> QED  BY <2>7, TwoBytes
  <1> QED  BY <1>6, <1>7, <1>9, <1>11, <1>12 DEF full, b, y

\* The bytes before the count.
Header(queryType) ==
  <<2, queryType>> \o (IF HasChecksum(queryType) THEN <<0, 0, 0, 0>> ELSE <<>>)

LEMMA HeadIs ==
  ASSUME NEW queryType \in Nat
  PROVE  /\ Header(queryType) \in Seq(Nat)
         /\ Len(Header(queryType)) = (IF HasChecksum(queryType) THEN 6 ELSE 2)
         /\ Header(queryType)[1] = 2 /\ Header(queryType)[2] = queryType
  <1> DEFINE a == <<2, queryType>>
             sum == <<0, 0, 0, 0>>
  <1>1. a \in Seq(Nat) /\ Len(a) = 2 /\ a[1] = 2 /\ a[2] = queryType  OBVIOUS
  <1>2. sum \in Seq(Nat) /\ Len(sum) = 4  OBVIOUS
  <1>3. Header(queryType) = a \o (IF HasChecksum(queryType) THEN sum ELSE <<>>)  BY DEF Header
  <1>4. 1 \in 1 .. Len(a) /\ 2 \in 1 .. Len(a)  BY <1>1
  <1> HIDE DEF a, sum
  <1>5. CASE HasChecksum(queryType)
    <2>1. /\ a \o sum \in Seq(Nat) /\ Len(a \o sum) = Len(a) + Len(sum)
          /\ \A i \in 1 .. Len(a) : (a \o sum)[i] = a[i]
      BY <1>1, <1>2, Joined
    <2>2. Header(queryType) = a \o sum  BY <1>3, <1>5
    <2>3. (a \o sum)[1] = 2 /\ (a \o sum)[2] = queryType  BY <1>1, <1>4, <2>1
    <2>4. Len(a \o sum) = 6  BY <1>1, <1>2, <2>1
    <2> QED  BY <1>5, <2>1, <2>2, <2>3, <2>4
  <1>6. CASE ~HasChecksum(queryType)
    <2>1. a \o <<>> = a  BY <1>1, ConcatEmptySeq
    <2>2. Header(queryType) = a  BY <1>3, <1>6, <2>1
    <2> QED  BY <1>1, <1>6, <2>2
  <1> QED  BY <1>5, <1>6

LEMMA ListingTyped ==
  ASSUME NEW records, Listable(records)
  PROVE  Listing(records) \in Seq(Agents)
  <1> DEFINE lists == AgentLists(records)
  <1>1. lists \in Seq(Seq(Agents)) /\ Len(lists) \in Nat  BY ListableTyped
  <1>2. Listing(records) = FlattenSeq(lists)  BY DEF Listing, AgentLists
  <1> HIDE DEF lists
  <1>3. PICK listed : Laid(listed, lists, Agents)  BY <1>1, LaidExists
  <1>4. Listing(records) = listed[Len(lists)]  BY <1>1, <1>2, <1>3, Flattened
  <1>5. \A i \in 0 .. Len(lists) : listed[i] \in Seq(Agents)  BY <1>1, <1>3, LaidGrows
  <1>6. Len(lists) \in 0 .. Len(lists)  BY <1>1
  <1> QED  BY <1>4, <1>5, <1>6

\* A service discovery response the camera builds, received whole or cut short
\* at any byte, lists its services in the order of the records: all of them, or
\* the first ones. (make_capex_response and parse_capex_response, sap.py.)
THEOREM CapexIsRead ==
  ASSUME NEW records, Listable(records), NEW queryType \in Nat,
         NEW msg \in Seq(Nat), Starts(msg, CapexResponse(queryType, records))
  PROVE  /\ parse_capex_response(msg) \in Seq(Agents)
         /\ Starts(parse_capex_response(msg), Listing(records))
         /\ Len(msg) = Len(CapexResponse(queryType, records))
              => parse_capex_response(msg) = Listing(records)
  <1> DEFINE n == Len(records)
             q == AleBytes(records)
             head == Header(queryType)
             body == FlattenSeq(q)
             full == CapexResponse(queryType, records)
             count == IF HasChecksum(queryType) THEN 6 ELSE 2
             out == parse_capex_response(msg)
  <1>1. n \in Nat /\ q \in Seq(Seq(Nat)) /\ Len(q) = n  BY ListableTyped
  <1>2. head \in Seq(Nat) /\ Len(head) = count /\ head[1] = 2 /\ head[2] = queryType  BY HeadIs
  <1>3. full = (head \o Be16(n)) \o body  BY DEF CapexResponse, Header, AleBytes
  <1> HIDE DEF n, q, head, full
  <1>4. PICK laid : Laid(laid, q, Nat)  BY <1>1, LaidExists
  <1>5. body = laid[n]  BY <1>1, <1>4, Flattened
  <1>6. body \in Seq(Nat)
    <2>1. \A i \in 0 .. n : laid[i] \in Seq(Nat)  BY <1>1, <1>4, LaidGrows
    <2>2. n \in 0 .. n  BY <1>1
    <2> QED  BY <1>5, <2>1, <2>2
  <1> HIDE DEF body
  <1>7. count \in Nat /\ count >= 2  OBVIOUS
  <1>8. Starts(msg, (head \o Be16(n)) \o body)  BY <1>3 DEF full
  <1>9. /\ full \in Seq(Nat) /\ Lies(body, full, Len(head) + 2)
        /\ Len(head) + 2 <= Len(msg) => U16(msg, Len(head)) = n
        /\ Len(head) + 2 <= Len(full)
        /\ \A i \in 1 .. Len(head) : i <= Len(msg) => msg[i] = head[i]
    <2>1. /\ (head \o Be16(n)) \o body \in Seq(Nat)
          /\ Lies(body, (head \o Be16(n)) \o body, Len(head) + 2)
          /\ Len(head) + 2 <= Len(msg) => U16(msg, Len(head)) = n
          /\ Len(head) + 2 <= Len((head \o Be16(n)) \o body)
          /\ \A i \in 1 .. Len(head) : i <= Len(msg) => msg[i] = head[i]
      <3>1. head \in Seq(Nat) /\ n \in Nat /\ body \in Seq(Nat)  BY <1>1, <1>2, <1>6
      <3> HIDE DEF count
      <3> QED  BY <1>8, <3>1, CountIsRead
    <2> QED  BY <1>3, <2>1, Zenon
  <1>10. /\ Lies(body, full, count + 2) /\ count + 2 <= Len(full)
         /\ count + 2 <= Len(msg) => U16(msg, count) = n
         /\ 2 <= Len(msg) => msg[1] = 2 /\ msg[2] = queryType
    <2>1. 1 \in 1 .. Len(head) /\ 2 \in 1 .. Len(head)  BY <1>2
    <2>2. 2 <= Len(msg) => 1 <= Len(msg)  OBVIOUS
    <2> HIDE DEF count
    <2>3. 2 <= Len(msg) => msg[1] = 2 /\ msg[2] = queryType  BY <1>2, <1>9, <2>1, <2>2
    <2> QED  BY <1>2, <1>9, <2>3
  <1>11. CASE count + 2 <= Len(msg)
    <2>1. 2 <= Len(msg)  BY <1>7, <1>11
    <2>2. msg[1] = 2 /\ msg[2] = queryType /\ U16(msg, count) = n  BY <1>10, <1>11, <2>1
    <2> DEFINE start == [offset |-> count + 2, left |-> n, services |-> <<>>]
    <2>3. out = ParseRecords(msg, start)
      <3>1. ~ (Len(msg) < 2) /\ ~ (count + 2 > Len(msg))  BY <1>7, <1>11
      <3> QED  BY <2>2, <3>1 DEF parse_capex_response
    <2>4. /\ start \in Parsing /\ start.offset = count + 2 /\ start.left = n
          /\ start.services = <<>>
      BY <1>1, <1>7 DEF Parsing
    <2>5. Lies(laid[Len(records)], full, count + 2)  BY <1>5, <1>10 DEF n
    <2>6. Starts(msg, full) /\ Laid(laid, AleBytes(records), Nat) /\ start.left = Len(records)
      BY <1>4, <2>4 DEF full, q, n
    <2> HIDE DEF start, count
    <2>7. /\ ParseRecords(msg, start) \in Seq(Agents)
          /\ Starts(ParseRecords(msg, start), Listing(records))
          /\ Len(msg) = Len(full) => ParseRecords(msg, start) = Listing(records)
      <3>1. count + 2 \in Nat  BY <1>7
      <3> QED  BY <1>9, <2>4, <2>5, <2>6, <3>1, RecordsAreRead
    <2> QED  BY <2>3, <2>7 DEF full
  <1>12. CASE ~ (count + 2 <= Len(msg))
    <2>1. out = <<>>
      <3>1. count + 2 > Len(msg)  BY <1>7, <1>12
      <3>2. CASE Len(msg) < 2  BY <3>2 DEF parse_capex_response
      <3>3. CASE ~ (Len(msg) < 2)
        <4>1. msg[2] = queryType  BY <1>10, <3>3
        <4> QED  BY <3>1, <4>1 DEF parse_capex_response
      <3> QED  BY <3>2, <3>3
    <2>2. Len(msg) # Len(full)  BY <1>10, <1>12
    <2>3. Listing(records) \in Seq(Agents)  BY ListingTyped
    <2>4. Starts(<<>>, Listing(records))
      <3>1. Len(Listing(records)) \in Nat /\ Len(<<>>) = 0  BY <2>3
      <3> QED  BY <3>1 DEF Starts, Lies
    <2> QED  BY <2>1, <2>2, <2>4 DEF full
  <1> QED  BY <1>11, <1>12

\* A listing is taken for a component that it names, or for none if it names none.
LEMMA ComponentIs ==
  ASSUME NEW services \in Seq(Agents)
  PROVE  \/ /\ ComponentOf(services) = 0
            /\ \A i \in 1 .. Len(services) : ~Serves(services[i])
         \/ \E i \in 1 .. Len(services) : /\ ComponentOf(services) = services[i].componentId
                                          /\ Serves(services[i])
  <1> DEFINE at == {i \in 1 .. Len(services) : Serves(services[i])}
             last == CHOOSE i \in at : \A j \in at : j <= i
  <1>1. CASE at = {}  BY <1>1 DEF ComponentOf
  <1>2. CASE at # {}
    <2>1. ComponentOf(services) = services[last].componentId  BY <1>2 DEF ComponentOf
    <2>2. \E i \in at : \A j \in at : j <= i
      <3>1. Len(services) \in Nat /\ at \in SUBSET (1 .. Len(services))  OBVIOUS
      <3> HIDE DEF at
      <3> QED  BY <1>2, <3>1, LastExists
    <2>3. last \in at
      <3> HIDE DEF at
      <3> QED  BY <2>2
    <2> HIDE DEF last
    <2> QED  BY <2>1, <2>3
  <1> QED  BY <1>1, <1>2

\* The component a part of a listing is taken for is one that it lists.
LEMMA ComponentIsListed ==
  ASSUME NEW services \in Seq(Agents), NEW all \in Seq(Agents), Starts(services, all)
  PROVE  \/ ComponentOf(services) = 0
         \/ \E i \in 1 .. Len(all) : /\ all[i].componentId = ComponentOf(services)
                                     /\ Serves(all[i]) /\ all[i] \in Agents
  <1>1. CASE ComponentOf(services) = 0  BY <1>1
  <1>2. CASE ComponentOf(services) # 0
    <2>1. PICK last \in 1 .. Len(services) :
                 ComponentOf(services) = services[last].componentId /\ Serves(services[last])
      BY <1>2, ComponentIs
    <2>4. last \in 1 .. Len(services) /\ Serves(services[last]) /\ services[last] \in Agents
      BY <2>1
    <2>5. Len(services) \in Nat  OBVIOUS
    <2>6. 0 + Len(services) <= Len(all) /\ all[0 + last] = services[last]
      BY <2>4 DEF Starts, Lies
    <2> DEFINE l == Len(services)
    <2>7. 0 + last = last /\ 0 + l = l  BY <2>4, <2>5
    <2>8. all[last] = services[last]  BY <2>6, <2>7
    <2>9. last <= l /\ l <= Len(all) /\ l \in Nat /\ last \in Nat /\ 1 <= last
      BY <2>4, <2>5, <2>6, <2>7
    <2>10. last \in 1 .. Len(all)
      <3>1. Len(all) \in Nat  OBVIOUS
      <3> HIDE DEF l
      <3> QED  BY <2>9, <3>1
    <2> QED  BY <2>1, <2>4, <2>8, <2>10
  <1> QED  BY <1>1, <1>2
-----------------------------------------------------------------------------
(* Service connection responses.                                           *)

LEMMA Be16sTyped ==
  ASSUME NEW g \in Seq(Nat)
  PROVE  /\ Be16s(g) \in Seq(Nat) /\ Len(Be16s(g)) = 2 * Len(g)
         /\ \A i \in 1 .. Len(g) : /\ Be16s(g)[2 * i - 1] = g[i] \div 256
                                   /\ Be16s(g)[2 * i] = g[i] % 256
  <1> DEFINE tail == Be16s(g)
  <1>2. Len(g) \in Nat /\ \A i \in 1 .. Len(g) : g[i] \in Nat  OBVIOUS
  <1>4. \A j \in 1 .. 2 * Len(g) : tail[j] = IF j % 2 = 1 THEN g[(j + 1) \div 2] \div 256
                                                          ELSE g[j \div 2] % 256
    <2> SUFFICES ASSUME NEW j \in 1 .. 2 * Len(g)
                 PROVE  tail[j] = IF j % 2 = 1 THEN g[(j + 1) \div 2] \div 256
                                               ELSE g[j \div 2] % 256
      OBVIOUS
    <2>1. CASE j % 2 = 1  BY <1>2, <2>1 DEF Be16s, Be16
    <2>2. CASE j % 2 = 0
      <3>1. (j + 1) \div 2 = j \div 2  BY <1>2, <2>2
      <3> QED  BY <1>2, <2>2, <3>1 DEF Be16s, Be16
    <2> QED  BY <1>2, <2>1, <2>2
  <1>5. tail \in Seq(Nat) /\ Len(tail) = 2 * Len(g)
    <2>1. \A j \in 1 .. 2 * Len(g) : tail[j] \in Nat
      <3> SUFFICES ASSUME NEW j \in 1 .. 2 * Len(g) PROVE tail[j] \in Nat  OBVIOUS
      <3>1. CASE j % 2 = 1
        <4>1. (j + 1) \div 2 \in 1 .. Len(g)  BY <1>2, <3>1
        <4>2. g[(j + 1) \div 2] \in Nat  BY <1>2, <4>1
        <4>3. tail[j] = g[(j + 1) \div 2] \div 256  BY <1>4, <3>1
        <4> HIDE DEF tail
        <4> QED  BY <4>2, <4>3, TwoBytes
      <3>2. CASE j % 2 = 0
        <4>1. j \div 2 \in 1 .. Len(g)  BY <1>2, <3>2
        <4>2. g[j \div 2] \in Nat  BY <1>2, <4>1
        <4>3. tail[j] = g[j \div 2] % 256  BY <1>4, <3>2
        <4> HIDE DEF tail
        <4> QED  BY <4>2, <4>3, TwoBytes
      <3> QED  BY <1>2, <3>1, <3>2
    <2>2. tail = [j \in 1 .. 2 * Len(g) |-> tail[j]]  BY DEF Be16s
    <2> QED  BY <1>2, <2>1, <2>2
  <1>6. \A i \in 1 .. Len(g) : tail[2 * i - 1] = g[i] \div 256 /\ tail[2 * i] = g[i] % 256
    <2> SUFFICES ASSUME NEW i \in 1 .. Len(g)
                 PROVE  tail[2 * i - 1] = g[i] \div 256 /\ tail[2 * i] = g[i] % 256
      OBVIOUS
    <2>1. /\ 2 * i - 1 \in 1 .. 2 * Len(g) /\ (2 * i - 1) % 2 = 1 /\ (2 * i - 1 + 1) \div 2 = i
          /\ 2 * i \in 1 .. 2 * Len(g) /\ (2 * i) % 2 = 0 /\ (2 * i) \div 2 = i
      BY <1>2
    <2> HIDE DEF tail
    <2> QED  BY <1>2, <1>4, <2>1
  <1> QED  BY <1>5, <1>6

ScLaid(b, status, g) ==
  /\ b \in Seq(Nat) /\ Len(b) = 10 + 2 * Len(g)
  /\ b[6] = Di360 /\ b[7] = FieldSeparator /\ b[8] = status
  /\ b[9] = Len(g) \div 256 /\ b[10] = Len(g) % 256
  /\ \A i \in 1 .. Len(g) : b[9 + 2 * i] = g[i] \div 256 /\ b[10 + 2 * i] = g[i] % 256

LEMMA ScBytes ==
  ASSUME NEW status \in Nat, NEW g \in Seq(Nat)
  PROVE  ScLaid(ScResponse(status, g), status, g)
  <1> DEFINE head == <<2, 0, 0, 0, 0, Di360, FieldSeparator, status>>
             size == Be16(Len(g))
             tail == Be16s(g)
             hs == head \o size
             b == ScResponse(status, g)
  <1>1. head \in Seq(Nat) /\ Len(head) = 8
    BY DEF Di360, FieldSeparator
  <1>2. head[6] = Di360 /\ head[7] = FieldSeparator /\ head[8] = status
    OBVIOUS
  <1>3. size \in Seq(Nat) /\ Len(size) = 2
    <2>1. Len(g) \in Nat  OBVIOUS
    <2> QED  BY <2>1 DEF Be16
  <1>4. size[1] = Len(g) \div 256 /\ size[2] = Len(g) % 256
    BY DEF Be16
  <1>5. /\ tail \in Seq(Nat) /\ Len(tail) = 2 * Len(g)
        /\ \A i \in 1 .. Len(g) : /\ tail[2 * i - 1] = g[i] \div 256
                                  /\ tail[2 * i] = g[i] % 256
    BY Be16sTyped
  <1>6. b = hs \o tail  BY DEF ScResponse
  <1> HIDE DEF head, size, tail
  <1>7. /\ hs \in Seq(Nat) /\ Len(hs) = 10
        /\ \A i \in 1 .. 8 : hs[i] = head[i]
        /\ \A i \in 1 .. 2 : hs[8 + i] = size[i]
    <2>1. head \in Seq(Nat) /\ size \in Seq(Nat)  BY <1>1, <1>3
    <2>2. /\ hs \in Seq(Nat) /\ Len(hs) = Len(head) + Len(size)
          /\ \A i \in 1 .. Len(head) : hs[i] = head[i]
          /\ \A i \in 1 .. Len(size) : hs[Len(head) + i] = size[i]
      BY <2>1, Joined
    <2> HIDE DEF hs
    <2> QED  BY <1>1, <1>3, <2>2
  <1> HIDE DEF hs, b
  <1>8. /\ b \in Seq(Nat) /\ Len(b) = 10 + Len(tail)
        /\ \A i \in 1 .. 10 : b[i] = hs[i]
        /\ \A i \in 1 .. Len(tail) : b[10 + i] = tail[i]
    <2>1. tail \in Seq(Nat) /\ hs \in Seq(Nat) /\ Len(hs) = 10  BY <1>5, <1>7
    <2>2. /\ hs \o tail \in Seq(Nat) /\ Len(hs \o tail) = Len(hs) + Len(tail)
          /\ \A i \in 1 .. Len(hs) : (hs \o tail)[i] = hs[i]
          /\ \A i \in 1 .. Len(tail) : (hs \o tail)[Len(hs) + i] = tail[i]
      BY <2>1, Joined
    <2> QED  BY <1>6, <2>1, <2>2
  <1>9. b[6] = head[6] /\ b[7] = head[7] /\ b[8] = head[8]
    <2>1. \A i \in 1 .. 8 : b[i] = head[i]
      <3>1. 1 .. 8 \subseteq 1 .. 10  OBVIOUS
      <3> QED  BY <1>7, <1>8, <3>1
    <2> QED  BY <2>1
  <1>10. b[9] = size[1] /\ b[10] = size[2]
    <2>1. hs[8 + 1] = size[1] /\ hs[8 + 2] = size[2]  BY <1>7
    <2> QED  BY <1>8, <2>1
  <1>11. ASSUME NEW i \in 1 .. Len(g)
         PROVE  b[9 + 2 * i] = g[i] \div 256 /\ b[10 + 2 * i] = g[i] % 256
    <2>0. Len(g) \in Nat /\ i \in Nat  OBVIOUS
    <2>1. /\ 2 * i - 1 \in 1 .. 2 * Len(g) /\ 10 + (2 * i - 1) = 9 + 2 * i
          /\ 2 * i \in 1 .. 2 * Len(g)
      BY <2>0
    <2>2. b[10 + (2 * i - 1)] = tail[2 * i - 1] /\ b[10 + 2 * i] = tail[2 * i]
      BY <1>5, <1>8, <2>1
    <2>3. tail[2 * i - 1] = g[i] \div 256 /\ tail[2 * i] = g[i] % 256  BY <1>5
    <2> QED  BY <2>1, <2>2, <2>3
  <1>12. Len(b) = 10 + 2 * Len(g)  BY <1>5, <1>8
  <1>13. b[9] = Len(g) \div 256 /\ b[10] = Len(g) % 256  BY <1>4, <1>10
  <1>14. b[6] = Di360 /\ b[7] = FieldSeparator /\ b[8] = status  BY <1>2, <1>9
  <1> QED  BY <1>8, <1>11, <1>12, <1>13, <1>14 DEF b, ScLaid

\* The separator is found where the profile ends.
LEMMA ScFinds ==
  ASSUME NEW b \in Seq(Nat), Len(b) >= 7, b[6] = Di360, b[7] = FieldSeparator
  PROVE  Found(b, 5) /\ Find(b, 5) = 6
  <1>1. Separator(b, 6) /\ ~Separator(b, 5)  BY DEF Separator, Di360, FieldSeparator
  <1>2. 6 \in 5 .. Len(b) - 1 /\ \A j \in 5 .. 6 - 1 : ~Separator(b, j)  BY <1>1
  <1>3. \A i \in 5 .. Len(b) - 1 :
          Separator(b, i) /\ (\A j \in 5 .. i - 1 : ~Separator(b, j)) => i = 6
    BY <1>1
  <1> QED  BY <1>1, <1>2, <1>3 DEF Found, Find

\* What an accepting response grants is what is read out of it.
LEMMA ScIsRead ==
  ASSUME NEW status \in Nat, NEW g \in Seq(Nat)
  PROVE  ScSessions(ScResponse(status, g)) = g
  <1> DEFINE b == ScResponse(status, g)
  <1>1. /\ b \in Seq(Nat) /\ Len(b) = 10 + 2 * Len(g)
        /\ b[6] = Di360 /\ b[7] = FieldSeparator
        /\ b[9] = Len(g) \div 256 /\ b[10] = Len(g) % 256
        /\ \A i \in 1 .. Len(g) : /\ b[9 + 2 * i] = g[i] \div 256
                                  /\ b[10 + 2 * i] = g[i] % 256
    <2>1. ScLaid(b, status, g)  BY ScBytes
    <2> HIDE DEF b
    <2> QED  BY <2>1 DEF ScLaid
  <1> HIDE DEF b
  <1>2. Len(g) \in Nat /\ \A i \in 1 .. Len(g) : g[i] \in Nat  OBVIOUS
  <1>3. Find(b, 5) = 6
    <2>1. Len(b) >= 7  BY <1>1, <1>2
    <2> QED  BY <1>1, <2>1, ScFinds
  <1>4. U16(b, 8) = Len(g)
    <2>1. U16(b, 8) = 256 * b[9] + b[10]  BY DEF U16
    <2>2. 256 * (Len(g) \div 256) + (Len(g) % 256) = Len(g)  BY <1>2, TwoBytes
    <2> QED  BY <1>1, <2>1, <2>2
  <1>5. \A i \in 1 .. Len(g) : U16(b, 8 + 2 * i) = g[i]
    <2> SUFFICES ASSUME NEW i \in 1 .. Len(g) PROVE U16(b, 8 + 2 * i) = g[i]  OBVIOUS
    <2>1. U16(b, 8 + 2 * i) = 256 * b[9 + 2 * i] + b[10 + 2 * i]
      <3>1. 8 + 2 * i + 1 = 9 + 2 * i /\ 8 + 2 * i + 2 = 10 + 2 * i  BY <1>2
      <3> QED  BY <3>1, Zenon DEF U16
    <2>2. 256 * (g[i] \div 256) + (g[i] % 256) = g[i]  BY <1>2, TwoBytes
    <2>3. b[9 + 2 * i] = g[i] \div 256 /\ b[10 + 2 * i] = g[i] % 256  BY <1>1
    <2> QED  BY <2>1, <2>2, <2>3, Zenon
  <1>6. (Len(b) - 8 - 2) \div 2 = Len(g) /\ ~ (8 + 2 > Len(b))  BY <1>1, <1>2
  <1>7. ScSessions(b) = [i \in 1 .. Len(g) |-> U16(b, 8 + 2 * i)]
    <2>1. 6 + 2 = 8  OBVIOUS
    <2>2. ScSessions(b) = IF 8 + 2 > Len(b) THEN <<>>
                          ELSE [i \in 1 .. (IF U16(b, 8) < (Len(b) - 8 - 2) \div 2
                                             THEN U16(b, 8) ELSE (Len(b) - 8 - 2) \div 2)
                                  |-> U16(b, 8 + 2 * i)]
      BY <1>3, <2>1, Zenon DEF ScSessions
    <2>3. ~ (Len(g) < Len(g))  BY <1>2
    <2> QED  BY <1>4, <1>6, <2>2, <2>3, Zenon
  <1>8. [i \in 1 .. Len(g) |-> U16(b, 8 + 2 * i)] = g
    BY <1>2, <1>5
  <1> QED  BY <1>7, <1>8 DEF b

\* A refusal, wherever it is cut, is not read as a grant.
LEMMA ScIsRefused ==
  ASSUME NEW g \in Seq(Nat), NEW r, r = ScResponse(1, g),
         NEW k \in 0 .. Len(r), NEW b, b = SubSeq(r, 1, k)
  PROVE  ScStatus(b) # "granted"
  <1>1. /\ r \in Seq(Nat) /\ Len(r) = 10 + 2 * Len(g) /\ Len(g) \in Nat
        /\ r[6] = Di360 /\ r[7] = FieldSeparator /\ r[8] = 1
    <2>1. ScLaid(r, 1, g)  BY ScBytes
    <2> QED  BY <2>1 DEF ScLaid
  <1>5. /\ b \in Seq(Nat) /\ Len(b) = k /\ \A i \in 1 .. k : b[i] = r[i]
    <2>1. k \in Nat /\ k <= Len(r)  BY <1>1
    <2> QED  BY <1>1, <2>1, Beginning
  <1>6. CASE k < 7
    <2>1. ~Found(b, 5)
      <3>1. \A i \in 5 .. Len(b) - 1 : i = 5  BY <1>5, <1>6
      <3>2. 5 \in 5 .. Len(b) - 1 => b[6] = Di360  BY <1>1, <1>5
      <3>3. ~Separator(b, 5) \/ 5 \notin 5 .. Len(b) - 1
        BY <3>2 DEF Separator, Di360, FieldSeparator
      <3> QED  BY <3>1, <3>3 DEF Found
    <2> QED  BY <2>1 DEF ScStatus
  <1>7. CASE k >= 7
    <2>1. Found(b, 5) /\ Find(b, 5) = 6  
      <3>1. Len(b) >= 7 /\ b[6] = Di360 /\ b[7] = FieldSeparator  BY <1>1, <1>5, <1>7
      <3> QED  BY <1>5, <3>1, ScFinds
    <2>2. k > 7 => b[8] = 1  BY <1>1, <1>5
    <2> QED  BY <1>5, <1>7, <2>1, <2>2 DEF ScStatus
  <1> QED  BY <1>6, <1>7
-----------------------------------------------------------------------------
(* Whole and cut responses, and where what they list stands.              *)

LEMMA CapexTyped ==
  ASSUME NEW records, Listable(records), NEW queryType \in Nat
  PROVE  CapexResponse(queryType, records) \in Seq(Nat)
  <1> DEFINE n == Len(records)
             q == AleBytes(records)
             head == Header(queryType)
             body == FlattenSeq(q)
             y == Be16(n)
  <1>1. n \in Nat /\ q \in Seq(Seq(Nat)) /\ Len(q) = n  BY ListableTyped
  <1>2. head \in Seq(Nat)  BY HeadIs
  <1>3. CapexResponse(queryType, records) = (head \o y) \o body
    BY DEF CapexResponse, Header, AleBytes
  <1>4. y \in Seq(Nat)  BY <1>1, Be16Is
  <1> HIDE DEF n, q, head, y
  <1>5. PICK laid : Laid(laid, q, Nat)  BY <1>1, LaidExists
  <1>6. body = laid[n]  BY <1>1, <1>5, Flattened
  <1>7. body \in Seq(Nat)
    <2>1. \A i \in 0 .. n : laid[i] \in Seq(Nat)  BY <1>1, <1>5, LaidGrows
    <2>2. n \in 0 .. n  BY <1>1
    <2> QED  BY <1>6, <2>1, <2>2
  <1> HIDE DEF body
  <1>8. (head \o y) \o body \in Seq(Nat)  BY <1>2, <1>4, <1>7, Joined
  <1> QED  BY <1>3, <1>8

LEMMA CutStarts ==
  ASSUME NEW b \in Seq(Nat), NEW k \in Nat, k <= Len(b)
  PROVE  SubSeq(b, 1, k) \in Seq(Nat) /\ Starts(SubSeq(b, 1, k), b)
  <1> DEFINE c == SubSeq(b, 1, k)
  <1>1. Len(b) \in Nat  OBVIOUS
  <1>2. c \in Seq(Nat) /\ Len(c) = k /\ \A i \in 1 .. k : c[i] = b[i]  BY Beginning
  <1> HIDE DEF c
  <1>3. 0 + k = k /\ \A i \in 1 .. k : 0 + i = i  OBVIOUS
  <1>4. 0 + Len(c) <= Len(b)  BY <1>2, <1>3
  <1>5. \A i \in 1 .. Len(c) : b[0 + i] = c[i]  BY <1>2, <1>3
  <1> QED  BY <1>2, <1>4, <1>5 DEF Starts, Lies, c

LEMMA WholeStarts ==
  ASSUME NEW b \in Seq(Nat)
  PROVE  Starts(b, b)
  <1>1. Len(b) \in Nat  OBVIOUS
  <1>2. 0 + Len(b) <= Len(b) /\ \A i \in 1 .. Len(b) : 0 + i = i  BY <1>1
  <1> QED  BY <1>2 DEF Starts, Lies

\* What s holds is in one of the parts.
TakenFrom(s, q) == \A i \in 1 .. Len(s) : \E j \in 1 .. Len(q) : \E k \in 1 .. Len(q[j]) :
                     s[i] = q[j][k]

LEMMA LaidHolds ==
  ASSUME NEW S, NEW q \in Seq(Seq(S)), NEW f, Laid(f, q, S)
  PROVE  TakenFrom(f[Len(q)], q)
  <1> DEFINE Holds(m) == \A i \in 1 .. Len(f[m]) : \E j \in 1 .. Len(q) :
                           \E k \in 1 .. Len(q[j]) : f[m][i] = q[j][k]
             bad == {m \in 0 .. Len(q) : ~Holds(m)}
  <1>1. /\ Len(q) \in Nat /\ f[0] = <<>>
        /\ \A m \in 1 .. Len(q) : f[m] = f[m - 1] \o q[m] /\ q[m] \in Seq(S)
        /\ \A m \in 0 .. Len(q) : f[m] \in Seq(S)
    <2>1. Len(q) \in Nat /\ \A m \in 1 .. Len(q) : q[m] \in Seq(S)  OBVIOUS
    <2>2. /\ f[0] = <<>> /\ \A m \in 1 .. Len(q) : f[m] = f[m - 1] \o q[m]
          /\ \A m \in 0 .. Len(q) : f[m] \in Seq(S)
      BY DEF Laid, LaidTo
    <2> QED  BY <2>1, <2>2
  <1>2. Holds(0)
    <2>1. 1 .. Len(f[0]) = {}  BY <1>1
    <2> QED  BY <2>1
  <1>3. ASSUME NEW m \in 1 .. Len(q), Holds(m - 1)
        PROVE  Holds(m)
    <2> SUFFICES ASSUME NEW i \in 1 .. Len(f[m])
                 PROVE  \E j \in 1 .. Len(q) : \E k \in 1 .. Len(q[j]) : f[m][i] = q[j][k]
      OBVIOUS
    <2> DEFINE a == f[m - 1]
               b == q[m]
    <2>1. m - 1 \in 0 .. Len(q)
      <3>1. Len(q) \in Nat  BY <1>1
      <3> QED  BY <3>1
    <2>2. a \in Seq(S) /\ b \in Seq(S) /\ f[m] = a \o b  BY <1>1, <2>1
    <2>3. /\ Len(a) \in Nat /\ Len(b) \in Nat /\ Len(f[m]) = Len(a) + Len(b)
          /\ \A x \in 1 .. Len(a) : f[m][x] = a[x]
          /\ \A x \in 1 .. Len(b) : f[m][Len(a) + x] = b[x]
      <3> HIDE DEF a, b
      <3> QED  BY <2>2, ConcatProperties
    <2>4. CASE i \in 1 .. Len(a)
      <3>1. \E j \in 1 .. Len(q) : \E k \in 1 .. Len(q[j]) : a[i] = q[j][k]  BY <1>3, <2>4
      <3> HIDE DEF a, b
      <3> QED  BY <2>3, <2>4, <3>1
    <2>5. CASE i \notin 1 .. Len(a)
      <3> DEFINE k == i - Len(a)
      <3>1. k \in 1 .. Len(b) /\ Len(a) + k = i
        <4> HIDE DEF a, b
        <4> QED  BY <2>3, <2>5
      <3> HIDE DEF k
      <3>2. f[m][i] = b[k]
        <4> HIDE DEF a, b
        <4> QED  BY <2>3, <3>1
      <3> QED  BY <3>1, <3>2
    <2> QED  BY <2>4, <2>5
  <1>4. bad = {}
    <2> SUFFICES ASSUME bad # {} PROVE FALSE  OBVIOUS
    <2>1. bad \in SUBSET Nat  BY <1>1
    <2>2. PICK m \in bad : \A x \in bad : m <= x
      <3> HIDE DEF bad
      <3> QED  BY <2>1, FirstExists
    <2>3. m \in 0 .. Len(q) /\ ~Holds(m)  BY <2>2
    <2>4. m # 0  BY <1>2, <2>3
    <2>5. m \in 1 .. Len(q) /\ m - 1 \in 0 .. Len(q) /\ ~ (m <= m - 1)  BY <1>1, <2>3, <2>4
    <2>6. m - 1 \notin bad
      <3> HIDE DEF bad
      <3> QED  BY <2>2, <2>5
    <2>7. Holds(m - 1)  BY <2>5, <2>6
    <2> QED  BY <1>3, <2>3, <2>5, <2>7
  <1>5. Len(q) \in 0 .. Len(q)  BY <1>1
  <1>6. Holds(Len(q))  BY <1>4, <1>5
  <1> QED  BY <1>6 DEF TakenFrom

\* What a response lists is in one of its records.
LEMMA ListingHolds ==
  ASSUME NEW records, Listable(records), NEW i \in 1 .. Len(Listing(records))
  PROVE  \E j \in DOMAIN records : \E k \in DOMAIN records[j].agents :
           records[j].agents[k] = Listing(records)[i]
  <1> DEFINE lists == AgentLists(records)
             all == Listing(records)
  <1>1. /\ lists \in Seq(Seq(Agents)) /\ Len(lists) = Len(records) /\ Len(records) \in Nat
        /\ \A j \in 1 .. Len(records) : lists[j] = records[j].agents
    BY ListableTyped
  <1>2. all = FlattenSeq(lists)  BY DEF Listing, AgentLists
  <1>3. DOMAIN records = 1 .. Len(records)
    <2>1. records \in Seq(Records)  BY DEF Listable
    <2> QED  BY <2>1
  <1>4. i \in 1 .. Len(all)  OBVIOUS
  <1> HIDE DEF lists, all
  <1>5. PICK listed : Laid(listed, lists, Agents)  BY <1>1, LaidExists
  <1>6. all = listed[Len(lists)]  BY <1>1, <1>2, <1>5, Flattened
  <1>8. PICK j \in 1 .. Len(lists) : \E k \in 1 .. Len(lists[j]) :
               listed[Len(lists)][i] = lists[j][k]
    <2>1. TakenFrom(listed[Len(lists)], lists)  BY <1>1, <1>5, LaidHolds
    <2>2. i \in 1 .. Len(listed[Len(lists)])  BY <1>4, <1>6
    <2> QED  BY <2>1, <2>2 DEF TakenFrom
  <1>9. PICK k \in 1 .. Len(lists[j]) : all[i] = lists[j][k]  BY <1>6, <1>8
  <1>10. j \in DOMAIN records /\ lists[j] = records[j].agents  BY <1>1, <1>3, <1>8
  <1>11. k \in DOMAIN records[j].agents
    <2>1. lists[j] \in Seq(Agents)  BY <1>1
    <2>2. k \in DOMAIN lists[j]  BY <2>1
    <2> QED  BY <1>10, <2>2
  <1>12. records[j].agents[k] = Listing(records)[i]  BY <1>9, <1>10 DEF all
  <1> QED  BY <1>10, <1>11, <1>12
=============================================================================
