---------------------------- MODULE ReaderProofs ----------------------------
(***************************************************************************)
(* What is read piece by piece.                                            *)
(*                                                                         *)
(* The decoder: for streams of any length cut into any chunks, the events  *)
(* are those that the reference of SseDecoder finds in the whole stream,   *)
(* and each is out with the chunk that completes it.  The argument follows *)
(* the place of the stream up to which lines were taken: the reference at  *)
(* that place is what the decoder keeps, for the stream and for the stream *)
(* as EOF ends it, and a line that is found is the next of both.           *)
(*                                                                         *)
(* The receipt: a published receipt is truthful, and the two checks of a   *)
(* receipt implement module Attest, for any set of files and any number of *)
(* changes and verifications.  The argument rests on stats that never come *)
(* back: a change gives a file a stat no document can hold yet.            *)
(***************************************************************************)
EXTENDS SseDecoder, Receipt, FiniteSetTheorems, SequenceTheorems,
        WellFoundedInduction, NaturalsInduction, TLAPS

(***************************************************************************)
(* Sequences in the order of places (InOrder).                             *)
(***************************************************************************)
\* Of the naturals in a set that is not empty one is the least.
LEMMA HasLeast ==
  ASSUME NEW S \in SUBSET Nat, S # {}
  PROVE  \E x \in S : \A y \in S : x <= y
<1>1. PICK x \in S : \A y \in S : ~(<<y, x>> \in OpToRel(<, Nat))
  BY NatLessThanWellFounded, WFMin
<1>2. \A y \in S : ~(y < x)
  BY <1>1 DEF OpToRel
<1>3. \A y \in S : x <= y
  BY <1>2
<1> QED BY <1>3

\* The places of a sequence.
LEMMA PlacesCounted ==
  ASSUME NEW n \in Nat
  PROVE  IsFiniteSet(1..n) /\ Cardinality(1..n) = n
<1>1. IsFiniteSet(1..n) /\ Cardinality(1..n) = IF 1 > n THEN 0 ELSE n - 1 + 1
  BY FS_Interval
<1>2. (IF 1 > n THEN 0 ELSE n - 1 + 1) = n
  OBVIOUS
<1> QED BY <1>1, <1>2

\* Some of the places of a sequence.
LEMMA PlacesFinite ==
  ASSUME NEW n \in Nat, NEW S \in SUBSET (1..n)
  PROVE  S \in SUBSET Nat /\ IsFiniteSet(S) /\ Cardinality(S) \in Nat
<1>1. IsFiniteSet(1..n)
  BY PlacesCounted
<1>2. IsFiniteSet(S)
  BY <1>1, FS_Subset
<1> QED BY <1>2, FS_CardinalityType

\* Ranks number a set from 1 on.
LEMMA Ranks ==
  ASSUME NEW S \in SUBSET Nat, IsFiniteSet(S)
  PROVE  /\ Cardinality(S) \in Nat
         /\ \A e \in S : Rank(S, e) \in 1..Cardinality(S)
         /\ \A d, e \in S : Rank(S, d) = Rank(S, e) => d = e
         /\ \A k \in 1..Cardinality(S) : \E e \in S : Rank(S, e) = k
<1>1. Cardinality(S) \in Nat
  BY FS_CardinalityType
<1>2. ASSUME NEW e \in Nat
      PROVE  IsFiniteSet(Before(S, e)) /\ Cardinality(Before(S, e)) \in Nat /\ Before(S, e) \in SUBSET S
  <2>1. Before(S, e) \in SUBSET S
    BY DEF Before
  <2> QED BY <2>1, FS_Subset, FS_CardinalityType
<1>3. ASSUME NEW e \in S PROVE Rank(S, e) \in 1..Cardinality(S)
  <2>1. Before(S, e) # S
    BY DEF Before
  <2>2. Cardinality(Before(S, e)) <= Cardinality(S) /\ Cardinality(Before(S, e)) # Cardinality(S)
    <3>1. e \in Nat /\ Before(S, e) \in SUBSET S
      BY <1>2
    <3> QED BY <2>1, <3>1, FS_Subset
  <2>3. Cardinality(Before(S, e)) \in Nat
    BY <1>2
  <2> QED BY <1>1, <2>2, <2>3 DEF Rank
<1>4. ASSUME NEW d \in S, NEW e \in S, d < e PROVE Rank(S, d) < Rank(S, e)
  <2>1. Before(S, d) \in SUBSET Before(S, e) /\ d \in Before(S, e) /\ d \notin Before(S, d)
    <3>1. d \in Nat /\ e \in Nat /\ \A x \in S : x \in Nat
      OBVIOUS
    <3>2. \A x \in S : x < d => x < e
      BY <1>4, <3>1
    <3>3. ~(d < d)
      BY <3>1
    <3>4. \A x \in Before(S, d) : x \in Before(S, e)
      BY <3>2 DEF Before
    <3>5. d \in Before(S, e) /\ d \notin Before(S, d)
      BY <1>4, <3>3 DEF Before
    <3> QED BY <3>4, <3>5
  <2>2. IsFiniteSet(Before(S, e)) /\ Cardinality(Before(S, e)) \in Nat /\ Cardinality(Before(S, d)) \in Nat
    BY <1>2
  <2>3. Cardinality(Before(S, d)) <= Cardinality(Before(S, e)) /\ Cardinality(Before(S, d)) # Cardinality(Before(S, e))
    BY <2>1, <2>2, FS_Subset
  <2> QED BY <2>2, <2>3 DEF Rank
<1>5. ASSUME NEW d \in S, NEW e \in S, Rank(S, d) = Rank(S, e) PROVE d = e
  <2>1. d \in Nat /\ e \in Nat /\ Rank(S, d) \in Nat /\ Rank(S, e) \in Nat
    BY <1>1, <1>3
  <2>2. ~(d < e) /\ ~(e < d)
    BY <1>4, <1>5, <2>1
  <2> QED BY <2>1, <2>2
<1>6. ASSUME NEW k \in 1..Cardinality(S) PROVE \E e \in S : Rank(S, e) = k
  <2> DEFINE n == Cardinality(S)
             r == [e \in S |-> Rank(S, e)]
  <2>1. r \in Injection(S, 1..n)
    BY <1>3, <1>5 DEF Injection, IsInjective
  <2>2. IsFiniteSet(1..n) /\ Cardinality(1..n) = n
    <3> HIDE DEF n
    <3>1. n \in Nat BY <1>1 DEF n
    <3> QED BY <3>1, PlacesCounted
  <2>3. r \in Surjection(S, 1..n)
    <3> HIDE DEF r
    <3> QED BY <2>1, <2>2, FS_Injection
  <2> QED BY <2>3 DEF Surjection
<1> QED BY <1>1, <1>3, <1>5, <1>6

\* What lemmas say of sets of places, named so that they can be cited whole.
Values(S, f) == {f[e] : e \in S}
Above(S, m) == \A x \in S : x < m
Plus(S, m) == S \cup {m}
Agree(S, f, g) == \A x \in S : g[x] = f[x]
UpTo(S, p) == {x \in S : x <= p}

\* What is at the place of a number.
LEMMA InOrderAt ==
  ASSUME NEW S \in SUBSET Nat, IsFiniteSet(S), NEW f, NEW e \in S
  PROVE  Rank(S, e) \in 1..Cardinality(S) /\ InOrder(S, f)[Rank(S, e)] = f[e]
<1>1. Rank(S, e) \in 1..Cardinality(S) /\ \A d \in S : Rank(S, d) = Rank(S, e) => d = e
  BY Ranks
<1>2. (CHOOSE d \in S : Rank(S, d) = Rank(S, e)) = e
  BY <1>1
<1> QED BY <1>1, <1>2 DEF InOrder

\* As a sequence.
LEMMA InOrderSeq ==
  ASSUME NEW S \in SUBSET Nat, IsFiniteSet(S), NEW f
  PROVE  /\ InOrder(S, f) \in Seq(Values(S, f))
         /\ Len(InOrder(S, f)) = Cardinality(S)
         /\ InOrder(S, f) = << >> <=> S = {}
<1> DEFINE n == Cardinality(S)
           T == Values(S, f)
           q == InOrder(S, f)
<1>1. n \in Nat
  BY Ranks
<1>2. DOMAIN q = 1..n /\ q = [k \in 1..n |-> q[k]]
  BY DEF InOrder
<1>3. ASSUME NEW k \in 1..n PROVE q[k] \in T
  <2>1. PICK e \in S : Rank(S, e) = k
    BY Ranks
  <2> QED BY <2>1, InOrderAt DEF Values
<1>4. n = 0 <=> S = {}
  BY FS_EmptySet
<1> HIDE DEF n, q, T
<1>5. q \in Seq(T)
  BY <1>1, <1>2, <1>3
<1>6. Len(q) = n
  BY <1>1, <1>2, <1>5
<1>7. q = << >> <=> n = 0
  BY <1>1, <1>5, <1>6
<1> QED BY <1>4, <1>5, <1>6, <1>7 DEF n, q, T

\* A number above the others comes last.
LEMMA InOrderAppend ==
  ASSUME NEW S \in SUBSET Nat, IsFiniteSet(S), NEW m \in Nat, Above(S, m),
         NEW f, NEW g, Agree(S, f, g)
  PROVE  InOrder(Plus(S, m), g) = Append(InOrder(S, f), g[m])
<1> DEFINE U == S \cup {m}
           n == Cardinality(S)
           q == InOrder(S, f)
           r == InOrder(U, g)
           T == Values(S, f) \cup {g[m]}
<1>0. n \in Nat /\ m \notin S
  BY Ranks DEF Above
<1>1. U \in SUBSET Nat /\ IsFiniteSet(U) /\ Cardinality(U) = n + 1
  <2>1. IsFiniteSet(S \cup {m}) /\ Cardinality(S \cup {m}) = n + 1
    BY <1>0, FS_AddElement
  <2> QED BY <2>1
<1>2. /\ \A e \in S : Before(U, e) = Before(S, e)
      /\ Before(U, m) = S
  <2>1. \A e \in S : ~(m < e) /\ e < m
    BY DEF Above
  <2>2. ~(m < m)
    OBVIOUS
  <2> QED BY <2>1, <2>2 DEF Before
<1>3. /\ \A e \in S : Rank(U, e) = Rank(S, e)
      /\ Rank(U, m) = n + 1
  BY <1>2 DEF Rank
<1>4. q \in Seq(T) /\ Len(q) = n /\ g[m] \in T
  <2> DEFINE V == Values(S, f)
  <2>1. q \in Seq(V) /\ Len(q) = n
    BY InOrderSeq
  <2>2. V \subseteq T
    OBVIOUS
  <2> HIDE DEF V, T, q
  <2>3. q \in Seq(T)
    BY <2>1, <2>2
  <2> QED BY <2>1, <2>3 DEF T
<1>5. r = [k \in 1..(n + 1) |-> r[k]]
  BY <1>1 DEF InOrder
<1>6. ASSUME NEW k \in 1..n PROVE r[k] = q[k]
  <2>1. PICK e \in S : Rank(S, e) = k
    BY Ranks
  <2>2. q[k] = f[e]
    BY <2>1, InOrderAt
  <2>3. r[k] = g[e]
    <3>1. e \in U /\ Rank(U, e) = k
      BY <1>3, <2>1
    <3> HIDE DEF U
    <3> QED BY <1>1, <3>1, InOrderAt
  <2> QED BY <2>2, <2>3 DEF Agree
<1>7. r[n + 1] = g[m]
  <2>1. m \in U
    OBVIOUS
  <2> HIDE DEF U
  <2> QED BY <1>1, <1>3, <2>1, InOrderAt
<1> HIDE DEF U, n, q, r, T
<1>8. r = Append(q, g[m])
  <2>1. /\ DOMAIN Append(q, g[m]) = 1..(n + 1)
        /\ \A k \in 1..n : Append(q, g[m])[k] = q[k]
        /\ Append(q, g[m])[n + 1] = g[m]
        /\ Append(q, g[m]) = [k \in 1..(n + 1) |-> Append(q, g[m])[k]]
    BY <1>0, <1>4
  <2>2. \A k \in 1..(n + 1) : r[k] = Append(q, g[m])[k]
    BY <1>0, <1>6, <1>7, <2>1
  <2> QED BY <1>5, <2>1, <2>2
<1> QED BY <1>8 DEF U, q, r, Plus

\* The numbers up to one come first.
LEMMA InOrderPrefix ==
  ASSUME NEW S \in SUBSET Nat, IsFiniteSet(S), NEW p \in Nat,
         NEW f, NEW g, Agree(UpTo(S, p), f, g)
  PROVE  InOrder(UpTo(S, p), g) = SubSeq(InOrder(S, f), 1, Cardinality(UpTo(S, p)))
<1> DEFINE T == {x \in S : x <= p}
           n == Cardinality(T)
           N == Cardinality(S)
           q == InOrder(S, f)
           r == InOrder(T, g)
           V == Values(S, f)
<1>1. T \in SUBSET Nat /\ IsFiniteSet(T) /\ n \in Nat /\ N \in Nat /\ n <= N
  BY FS_Subset, FS_CardinalityType
<1>2. \A e \in T : Rank(T, e) = Rank(S, e)
  <2>1. \A e \in T : Before(T, e) = Before(S, e)
    <3>1. \A e \in T, x \in S : x < e => x <= p
      OBVIOUS
    <3> QED BY <3>1 DEF Before
  <2> QED BY <2>1 DEF Rank
<1>3. q \in Seq(V) /\ Len(q) = N
  BY InOrderSeq
<1>4. r = [k \in 1..n |-> r[k]]
  BY DEF InOrder
<1>5. ASSUME NEW k \in 1..n PROVE r[k] = q[k]
  <2>1. PICK e \in T : Rank(T, e) = k
    BY <1>1, Ranks
  <2>2. r[k] = g[e]
    BY <1>1, <2>1, InOrderAt
  <2>3. q[k] = f[e]
    <3>1. e \in S /\ Rank(S, e) = k
      BY <1>2, <2>1
    <3> QED BY <3>1, InOrderAt
  <2> QED BY <2>1, <2>2, <2>3 DEF Agree, UpTo
<1> HIDE DEF n, N, q, r, V
<1>6. r = SubSeq(q, 1, n)
  <2>1. SubSeq(q, 1, n) = [k \in 1..n |-> q[k]]
    <3>1. /\ DOMAIN SubSeq(q, 1, n) = 1..n
          /\ \A k \in 1..n : SubSeq(q, 1, n)[k] = q[k]
          /\ SubSeq(q, 1, n) = [k \in DOMAIN SubSeq(q, 1, n) |-> SubSeq(q, 1, n)[k]]
      BY <1>1, <1>3
    <3> QED BY <3>1
  <2> QED BY <1>4, <1>5, <2>1
<1> QED BY <1>6 DEF n, q, r, UpTo

(***************************************************************************)
(* Lines and events by their ends.                                         *)
(***************************************************************************)
\* Of the naturals in a bounded set that is not empty one is the highest.
LEMMA HasHighest ==
  ASSUME NEW S \in SUBSET Nat, S # {}, NEW b \in Nat, \A x \in S : x <= b
  PROVE  \E x \in S : \A y \in S : y <= x
<1> DEFINE D == {b - x : x \in S}
<1>1. D \in SUBSET Nat /\ D # {}
  <2>1. \A x \in S : b - x \in Nat
    OBVIOUS
  <2> QED BY <2>1
<1>2. PICK d \in D : \A y \in D : d <= y
  <2> HIDE DEF D
  <2> QED BY <1>1, HasLeast
<1>3. PICK x \in S : d = b - x
  BY <1>2
<1>4. \A y \in S : b - x <= b - y
  BY <1>2, <1>3
<1>5. \A y \in S : y <= x
  BY <1>4
<1> QED BY <1>5

\* What follows the last number before another.
LEMMA AfterIs ==
  ASSUME NEW S \in SUBSET (Nat \ {0}), NEW p \in Nat, NEW e \in Nat, p < e,
         p = 0 \/ p \in S, \A x \in S : ~(p < x /\ x < e)
  PROVE  After(S, e) = p + 1
<1>1. \A x \in Before(S, e) : x \in Nat \ {0} /\ x <= p
  BY DEF Before
<1>2. CASE p = 0
  <2>1. Before(S, e) = {}
    BY <1>1, <1>2
  <2> QED BY <1>2, <2>1 DEF After
<1>3. CASE p # 0
  <2>1. p \in Before(S, e)
    BY <1>3 DEF Before
  <2>2. \A x \in Before(S, e) : (\A y \in Before(S, e) : x >= y) => x = p
    BY <1>1, <2>1
  <2>3. \A y \in Before(S, e) : p >= y
    BY <1>1
  <2>4. Max(Before(S, e)) = p
    BY <2>1, <2>2, <2>3 DEF Max
  <2> QED BY <2>1, <2>4 DEF After
<1> QED BY <1>2, <1>3

\* It depends on the numbers before only.
LEMMA AfterSame ==
  ASSUME NEW S, NEW d, NEW e, \A x \in S : x < d <=> x < e
  PROVE  After(S, d) = After(S, e)
<1>1. Before(S, d) = Before(S, e)
  BY DEF Before
<1> QED BY <1>1 DEF After

\* It is not beyond the number itself.
LEMMA AfterLow ==
  ASSUME NEW S \in SUBSET Nat, NEW e \in Nat \ {0}
  PROVE  After(S, e) \in Nat /\ After(S, e) <= e
<1> DEFINE B == Before(S, e)
<1>1. B \in SUBSET Nat /\ \A x \in B : x < e
  BY DEF Before
<1>2. CASE B = {}
  BY <1>2 DEF After
<1>3. CASE B # {}
  <2>1. \A x \in B : x <= e
    BY <1>1
  <2>2. \E x \in B : \A y \in B : y <= x
    <3> HIDE DEF B
    <3> QED BY <1>1, <1>3, <2>1, HasHighest
  <2>3. \E x \in B : \A y \in B : x >= y
    BY <1>1, <2>2
  <2> HIDE DEF B
  <2>4. Max(B) \in B
    BY <2>3 DEF Max
  <2>5. Max(B) \in Nat /\ Max(B) + 1 <= e
    <3>1. \A x \in B : x \in Nat /\ x + 1 <= e
      BY <1>1
    <3> QED BY <2>4, <3>1
  <2> QED BY <1>3, <2>5 DEF After, B
<1> QED BY <1>2, <1>3

\* The first end of a line after p.
NextEnd(t, p, e) == e \in LineEnds(t) /\ p < e /\ \A x \in LineEnds(t) : ~(p < x /\ x < e)
\* What the decoder has out once it is at p.
Out(t, p) == {b \in EventEnds(t) : b <= p}
Seen(t, p) == InOrder(Out(t, p), [b \in Out(t, p) |-> DataOf(t, b)])

\* Ends are places of the stream.
LEMMA EndsArePlaces ==
  ASSUME NEW X, NEW t \in Seq(X)
  PROVE  /\ LineEnds(t) \in SUBSET (1..Len(t)) /\ Len(t) \in Nat
         /\ Blanks(t) \subseteq LineEnds(t)
         /\ EventEnds(t) \subseteq Blanks(t)
         /\ \A b : DataEnds(t, b) \subseteq LineEnds(t)
BY DEF LineEnds, Blanks, EventEnds, DataEnds

\* Places of the stream are finitely many.
LEMMA EndsFinite ==
  ASSUME NEW X, NEW t \in Seq(X), NEW S, S \subseteq LineEnds(t)
  PROVE  S \in SUBSET Nat /\ IsFiniteSet(S) /\ S \in SUBSET (Nat \ {0})
<1>1. S \in SUBSET (1..Len(t)) /\ Len(t) \in Nat
  BY EndsArePlaces
<1>2. S \in SUBSET (Nat \ {0})
  BY <1>1
<1> QED BY <1>1, <1>2, PlacesFinite

\* An empty line hands over the data of the lines before it.
LEMMA BlankTaken ==
  ASSUME NEW X, NEW t \in Seq(X), NEW p \in Nat, NEW e \in Nat, NextEnd(t, p, e), LineText(t, e) = << >>
  PROVE  /\ DataOf(t, e + 1) = << >>
         /\ Seen(t, e) = IF DataOf(t, p + 1) = << >> THEN Seen(t, p)
                         ELSE Append(Seen(t, p), DataOf(t, p + 1))
<1>0. /\ e \in Blanks(t) /\ e \in Nat /\ e \in LineEnds(t) /\ p < e
      /\ \A x \in LineEnds(t) : x \in Nat \ {0}
      /\ \A x \in LineEnds(t) : ~(p < x /\ x < e)
  BY EndsArePlaces DEF NextEnd, Blanks
<1>1. \A x \in LineEnds(t) : (x < p + 1 <=> x < e) /\ (x <= e <=> x <= p \/ x = e)
  BY <1>0
<1>2. DataEnds(t, e) = DataEnds(t, p + 1)
  <2>1. \A x \in Blanks(t) : x < e <=> x < p + 1
    BY <1>1, EndsArePlaces
  <2>2. After(Blanks(t), e) = After(Blanks(t), p + 1)
    BY <2>1, AfterSame
  <2> QED BY <1>1, <2>2 DEF DataEnds
<1>3. DataOf(t, e) = DataOf(t, p + 1)
  BY <1>2 DEF DataOf
<1>4. DataEnds(t, e + 1) = {}
  <2>1. Blanks(t) \in SUBSET (Nat \ {0})
    BY <1>0, EndsArePlaces
  <2>2. \A x \in Blanks(t) : ~(e < x /\ x < e + 1)
    BY <1>0, <2>1
  <2>3. After(Blanks(t), e + 1) = e + 1
    BY <1>0, <2>1, <2>2, AfterIs
  <2>4. \A x \in LineEnds(t) : ~(e + 1 <= x /\ x < e + 1)
    BY <1>0
  <2> QED BY <2>3, <2>4 DEF DataEnds
<1>5. DataOf(t, e + 1) = << >>
  <2>1. {} \in SUBSET Nat /\ IsFiniteSet({})
    BY FS_EmptySet
  <2> QED BY <1>4, <2>1, InOrderSeq DEF DataOf
<1>6. DataOf(t, p + 1) = << >> <=> DataEnds(t, p + 1) = {}
  <2>1. DataEnds(t, p + 1) \in SUBSET Nat /\ IsFiniteSet(DataEnds(t, p + 1))
    BY EndsArePlaces, EndsFinite
  <2> QED BY <2>1, InOrderSeq DEF DataOf
<1>7. CASE DataEnds(t, p + 1) = {}
  <2>1. e \notin EventEnds(t)
    BY <1>2, <1>7 DEF EventEnds
  <2>2. Out(t, e) = Out(t, p)
    BY <1>1, <2>1, EndsArePlaces DEF Out
  <2> QED BY <1>5, <1>6, <1>7, <2>2 DEF Seen
<1>8. CASE DataEnds(t, p + 1) # {}
  <2>1. e \in EventEnds(t)
    BY <1>0, <1>2, <1>8 DEF EventEnds
  <2>2. Out(t, e) = Out(t, p) \cup {e}
    BY <1>0, <1>1, <2>1, EndsArePlaces DEF Out
  <2> DEFINE S == Out(t, p)
             f == [b \in Out(t, p) |-> DataOf(t, b)]
             g == [b \in Out(t, e) |-> DataOf(t, b)]
  <2>3. S \subseteq LineEnds(t)
    BY EndsArePlaces DEF Out
  <2>4. S \in SUBSET Nat /\ IsFiniteSet(S)
    BY <2>3, EndsFinite
  <2>5. Above(S, e)
    BY <1>0, <2>4 DEF Out, Above
  <2>6. Agree(S, f, g) /\ g[e] = DataOf(t, e)
    BY <2>2 DEF Agree
  <2> HIDE DEF S, f, g
  <2>7. InOrder(Plus(S, e), g) = Append(InOrder(S, f), g[e])
    BY <2>4, <2>5, <2>6, InOrderAppend
  <2>8. Seen(t, e) = Append(Seen(t, p), DataOf(t, p + 1))
    BY <1>3, <2>2, <2>6, <2>7 DEF Seen, Plus, S, f, g
  <2> QED BY <1>5, <1>6, <1>8, <2>8
<1> QED BY <1>7, <1>8

\* A line with text adds its data, and no event ends.
LEMMA TextTaken ==
  ASSUME NEW X, NEW t \in Seq(X), NEW p \in Nat, NEW e \in Nat, NextEnd(t, p, e), LineText(t, e) # << >>
  PROVE  /\ Seen(t, e) = Seen(t, p)
         /\ DataOf(t, e + 1) = IF IsData(LineText(t, e))
                               THEN Append(DataOf(t, p + 1), Tail(LineText(t, e)))
                               ELSE DataOf(t, p + 1)
<1>0. /\ e \notin Blanks(t) /\ e \in Nat /\ e \in LineEnds(t) /\ p < e
      /\ \A x \in LineEnds(t) : x \in Nat \ {0}
      /\ \A x \in LineEnds(t) : ~(p < x /\ x < e)
  BY EndsArePlaces DEF NextEnd, Blanks
<1>1. \A x \in LineEnds(t) : (x < e + 1 <=> x < p + 1 \/ x = e) /\ (x <= e <=> x <= p \/ x = e)
  BY <1>0
<1>2. Out(t, e) = Out(t, p)
  BY <1>0, <1>1, EndsArePlaces DEF Out
<1>3. Seen(t, e) = Seen(t, p)
  BY <1>2 DEF Seen
<1>4. After(Blanks(t), e + 1) = After(Blanks(t), p + 1)
  <2>1. \A x \in Blanks(t) : x < e + 1 <=> x < p + 1
    BY <1>0, <1>1, EndsArePlaces
  <2> QED BY <2>1, AfterSame
<1>5. After(Blanks(t), p + 1) \in Nat /\ After(Blanks(t), p + 1) <= p + 1
  <2>1. Blanks(t) \in SUBSET Nat /\ p + 1 \in Nat \ {0}
    BY <1>0, EndsArePlaces
  <2> QED BY <2>1, AfterLow
<1>6. After(Blanks(t), p + 1) <= e
  BY <1>0, <1>5
<1>7. DataEnds(t, e + 1) = DataEnds(t, p + 1) \cup (IF IsData(LineText(t, e)) THEN {e} ELSE {})
  BY <1>0, <1>1, <1>4, <1>6 DEF DataEnds
<1>8. CASE ~IsData(LineText(t, e))
  <2>1. DataEnds(t, e + 1) = DataEnds(t, p + 1)
    BY <1>7, <1>8
  <2> QED BY <1>3, <1>8, <2>1 DEF DataOf
<1>9. CASE IsData(LineText(t, e))
  <2> DEFINE S == DataEnds(t, p + 1)
             f == [x \in DataEnds(t, p + 1) |-> Tail(LineText(t, x))]
             g == [x \in DataEnds(t, e + 1) |-> Tail(LineText(t, x))]
  <2>1. DataEnds(t, e + 1) = S \cup {e}
    BY <1>7, <1>9
  <2>2. S \subseteq LineEnds(t)
    BY EndsArePlaces
  <2>3. S \in SUBSET Nat /\ IsFiniteSet(S)
    BY <2>2, EndsFinite
  <2>4. Above(S, e)
    <3>1. \A x \in S : x \in Nat /\ x < p + 1
      BY <2>3 DEF DataEnds
    <3> QED BY <1>0, <3>1 DEF Above
  <2>5. Agree(S, f, g) /\ g[e] = Tail(LineText(t, e))
    BY <2>1 DEF Agree
  <2> HIDE DEF S, f, g
  <2>6. InOrder(Plus(S, e), g) = Append(InOrder(S, f), g[e])
    BY <2>3, <2>4, <2>5, InOrderAppend, SMTT(30)
  <2>7. DataOf(t, e + 1) = Append(DataOf(t, p + 1), Tail(LineText(t, e)))
    BY <2>1, <2>5, <2>6 DEF DataOf, Plus, S, f, g
  <2> QED BY <1>3, <1>9, <2>7
<1> QED BY <1>8, <1>9

(***************************************************************************)
(* The buffer.                                                             *)
(***************************************************************************)
\* A byte that is somewhere has a first place.
LEMMA FirstAt ==
  ASSUME NEW X, NEW b \in Seq(X), NEW byte, NEW i \in 1..Len(b), b[i] = byte
  PROVE  \E j \in Find(byte, b) : j \in 1..Len(b) /\ j <= i
<1> DEFINE P == {k \in 1..Len(b) : b[k] = byte}
<1>1. P \in SUBSET Nat /\ P # {} /\ i \in P
  OBVIOUS
<1>2. PICK j \in P : \A k \in P : j <= k
  <2> HIDE DEF P
  <2> QED BY <1>1, HasLeast
<1>3. j \in 1..Len(b) /\ b[j] = byte /\ DOMAIN b = 1..Len(b)
  OBVIOUS
<1>4. \A k \in 1..(j - 1) : b[k] # byte
  <2> SUFFICES ASSUME NEW k \in 1..(j - 1), b[k] = byte PROVE FALSE
    OBVIOUS
  <2>1. k \in 1..Len(b) /\ k < j
    BY <1>3
  <2> QED BY <1>2, <2>1
<1>5. j \in Find(byte, b)
  BY <1>3, <1>4 DEF Find
<1> QED BY <1>1, <1>2, <1>3, <1>5

\* The newline that is found (_find_newline) ends the first line of the buffer.
LEMMA Found ==
  ASSUME NEW X, NEW b \in Seq(X), NEW nl \in FindNewline(b)
  PROVE  /\ nl.end \in 1..Len(b)
         /\ \A j \in 1..(nl.end - 1) : b[j] # "LF" /\ b[j] # "CR"
         /\ \/ b[nl.end] = "LF" /\ nl.next = nl.end + 1
            \/ b[nl.end] = "CR" /\ nl.end < Len(b) /\ b[nl.end + 1] = "LF" /\ nl.next = nl.end + 2
            \/ b[nl.end] = "CR" /\ nl.end < Len(b) /\ b[nl.end + 1] # "LF" /\ nl.next = nl.end + 1
<1>0. /\ nl \in LfAt(b) \cup CrAt(b) /\ \A d \in LfAt(b) \cup CrAt(b) : nl.end <= d.end
      /\ DOMAIN b = 1..Len(b) /\ Len(b) \in Nat
  BY DEF FindNewline, Candidates
<1>1. \A k \in Find("LF", b) : k \in 1..Len(b) /\ nl.end <= k
  <2> SUFFICES ASSUME NEW k \in Find("LF", b) PROVE k \in 1..Len(b) /\ nl.end <= k
    OBVIOUS
  <2>1. [end |-> k, next |-> k + 1] \in LfAt(b)
    BY DEF LfAt
  <2> QED BY <1>0, <2>1 DEF Find
<1>2. \A k \in Find("CR", b) : k < Len(b) => nl.end <= k
  <2> SUFFICES ASSUME NEW k \in Find("CR", b), k < Len(b) PROVE nl.end <= k
    OBVIOUS
  <2>1. [end |-> k, next |-> IF b[k + 1] = "LF" THEN k + 2 ELSE k + 1] \in CrAt(b)
    BY DEF CrAt
  <2> QED BY <1>0, <2>1
<1>3. /\ nl.end \in 1..Len(b)
      /\ \/ b[nl.end] = "LF" /\ nl.next = nl.end + 1
         \/ /\ b[nl.end] = "CR" /\ nl.end < Len(b)
            /\ nl.next = IF b[nl.end + 1] = "LF" THEN nl.end + 2 ELSE nl.end + 1
  <2>1. CASE nl \in LfAt(b)
    <3>1. PICK i \in Find("LF", b) : nl = [end |-> i, next |-> i + 1]
      BY <2>1 DEF LfAt
    <3> QED BY <1>0, <3>1 DEF Find
  <2>2. CASE nl \in CrAt(b)
    <3>1. PICK i \in Find("CR", b) :
            i < Len(b) /\ nl = [end |-> i, next |-> IF b[i + 1] = "LF" THEN i + 2 ELSE i + 1]
      BY <2>2 DEF CrAt
    <3> QED BY <1>0, <3>1 DEF Find
  <2> QED BY <1>0, <2>1, <2>2
<1>4. ASSUME NEW j \in 1..(nl.end - 1) PROVE b[j] # "LF" /\ b[j] # "CR"
  <2>1. j \in 1..Len(b) /\ j < nl.end /\ j < Len(b)
    BY <1>0, <1>3
  <2>2. b[j] # "LF"
    <3> SUFFICES ASSUME b[j] = "LF" PROVE FALSE
      OBVIOUS
    <3>1. PICK k \in Find("LF", b) : k \in 1..Len(b) /\ k <= j
      BY <2>1, FirstAt
    <3>2. nl.end <= k
      BY <1>1
    <3> QED BY <1>3, <2>1, <3>1, <3>2
  <2>3. b[j] # "CR"
    <3> SUFFICES ASSUME b[j] = "CR" PROVE FALSE
      OBVIOUS
    <3>1. PICK k \in Find("CR", b) : k \in 1..Len(b) /\ k <= j
      BY <2>1, FirstAt
    <3>2. k < Len(b)
      BY <2>1, <3>1
    <3>3. nl.end <= k
      BY <1>2, <3>2
    <3> QED BY <1>3, <2>1, <3>1, <3>3
  <2> QED BY <2>2, <2>3
<1> QED BY <1>3, <1>4

\* Without one there is no LF, and a CR only at the end, where it is held.
LEMMA NoneFound ==
  ASSUME NEW X, NEW b \in Seq(X), FindNewline(b) = {}, NEW i \in 1..Len(b)
  PROVE  b[i] # "LF" /\ (b[i] = "CR" => i = Len(b))
<1> DEFINE E == {c.end : c \in Candidates(b)}
<1>1. E \in SUBSET Nat
  BY DEF Candidates, LfAt, CrAt, Find
<1>2. E = {}
  <2> SUFFICES ASSUME E # {} PROVE FALSE
    OBVIOUS
  <2>1. PICK x \in E : \A y \in E : x <= y
    <3> HIDE DEF E
    <3> QED BY <1>1, HasLeast
  <2>2. PICK c \in Candidates(b) : c.end = x
    BY <2>1
  <2>3. \A d \in Candidates(b) : c.end <= d.end
    BY <2>1, <2>2
  <2> QED BY <2>2, <2>3 DEF FindNewline
<1>3. Candidates(b) = {}
  BY <1>2
<1>4. b[i] # "LF"
  <2> SUFFICES ASSUME b[i] = "LF" PROVE FALSE
    OBVIOUS
  <2>1. PICK k : k \in Find("LF", b)
    BY FirstAt
  <2> QED BY <1>3, <2>1 DEF Candidates, LfAt
<1>5. ASSUME b[i] = "CR", i # Len(b) PROVE FALSE
  <2>1. PICK k \in Find("CR", b) : k \in 1..Len(b) /\ k <= i
    BY <1>5, FirstAt
  <2>2. k < Len(b)
    BY <1>5, <2>1
  <2> QED BY <1>3, <2>1, <2>2 DEF Candidates, CrAt
<1> QED BY <1>4, <1>5

\* A cut of a cut.
LEMMA CutCut ==
  ASSUME NEW X, NEW t \in Seq(X), NEW p \in Nat, NEW n \in Nat, p <= n, n <= Len(t),
         NEW i \in 1..(n - p + 1), NEW j \in 0..(n - p)
  PROVE  SubSeq(SubSeq(t, p + 1, n), i, j) = SubSeq(t, p + i, p + j)
<1> DEFINE b == SubSeq(t, p + 1, n)
           u == SubSeq(b, i, j)
           v == SubSeq(t, p + i, p + j)
<1>1. b \in Seq(X) /\ Len(b) = n - p /\ \A k \in 1..(n - p) : b[k] = t[p + k]
  OBVIOUS
<1> HIDE DEF b
<1>2. /\ u \in Seq(X) /\ Len(u) = (IF i <= j THEN j - i + 1 ELSE 0)
      /\ \A k \in 1..(j - i + 1) : u[k] = b[i + k - 1]
  <2>1. i \in Int /\ j \in Int /\ i..j \subseteq 1..(n - p)
    OBVIOUS
  <2>2. \A k \in i..j : b[k] \in X
    <3>1. \A k \in 1..(n - p) : b[k] \in X
      BY <1>1
    <3> QED BY <2>1, <3>1
  <2> QED BY <2>1, <2>2, SubSeqProperties
<1>3. /\ v \in Seq(X) /\ Len(v) = (IF i <= j THEN j - i + 1 ELSE 0)
      /\ \A k \in 1..(j - i + 1) : v[k] = t[p + i + k - 1]
  OBVIOUS
<1>4. \A k \in 1..(j - i + 1) : b[i + k - 1] = t[p + (i + k - 1)]
  BY <1>1
<1>5. \A k \in 1..(j - i + 1) : u[k] = v[k]
  BY <1>2, <1>3, <1>4
<1> HIDE DEF u, v
<1>6. u = v
  BY <1>2, <1>3, <1>5
<1> QED BY <1>6 DEF u, v, b

\* What is buffered is a piece of the stream from the start of a line on.
Buffered(t, p, n, b) ==
  /\ p <= n /\ n <= Len(t) /\ (p = 0 \/ p \in LineEnds(t))
  /\ b = SubSeq(t, p + 1, n)
\* The line that ends at e is the first of the buffer.
FirstLine(t, p, n, b, nl, e) ==
  /\ NextEnd(t, p, e) /\ e <= n
  /\ t[e] = "CR" => e < n
  /\ LineText(t, e) = SubSeq(b, 1, nl.end - 1)
  /\ SubSeq(b, nl.next, Len(b)) = SubSeq(t, e + 1, n)
NextAfter(p, nl, e) == p + nl.next = e + 1

\* The line that is found is the next of the stream.
LEMMA LineFound ==
  ASSUME NEW X, NEW t \in Seq(X), NEW p \in Nat, NEW n \in Nat, NEW b, Buffered(t, p, n, b),
         NEW nl \in FindNewline(b), NEW e \in Nat, NextAfter(p, nl, e)
  PROVE  FirstLine(t, p, n, b, nl, e)
<1> SUFFICES ASSUME p <= n, n <= Len(t), p = 0 \/ p \in LineEnds(t), b = SubSeq(t, p + 1, n),
                    p + nl.next = e + 1
             PROVE  FirstLine(t, p, n, b, nl, e)
  BY DEF Buffered, NextAfter
<1>1. b \in Seq(X) /\ Len(b) = n - p /\ \A k \in 1..(n - p) : b[k] = t[p + k]
  OBVIOUS
<1> DEFINE q == nl.end
<1>2. /\ q \in 1..(n - p)
      /\ \A j \in 1..(q - 1) : b[j] # "LF" /\ b[j] # "CR"
      /\ \/ b[q] = "LF" /\ nl.next = q + 1
         \/ b[q] = "CR" /\ q < n - p /\ b[q + 1] = "LF" /\ nl.next = q + 2
         \/ b[q] = "CR" /\ q < n - p /\ b[q + 1] # "LF" /\ nl.next = q + 1
  <2>1. /\ q \in 1..Len(b)
        /\ \A j \in 1..(q - 1) : b[j] # "LF" /\ b[j] # "CR"
        /\ \/ b[q] = "LF" /\ nl.next = q + 1
           \/ b[q] = "CR" /\ q < Len(b) /\ b[q + 1] = "LF" /\ nl.next = q + 2
           \/ b[q] = "CR" /\ q < Len(b) /\ b[q + 1] # "LF" /\ nl.next = q + 1
    BY <1>1, Found, Zenon
  <2> QED BY <1>1, <2>1
<1> HIDE DEF q
<1>3. \A x \in (p + 1)..(p + q - 1) : t[x] # "LF" /\ t[x] # "CR"
  <2> SUFFICES ASSUME NEW x \in (p + 1)..(p + q - 1) PROVE t[x] # "LF" /\ t[x] # "CR"
    OBVIOUS
  <2>1. x - p \in 1..(q - 1) /\ x - p \in 1..(n - p) /\ p + (x - p) = x
    BY <1>2
  <2> QED BY <1>1, <1>2, <2>1
<1>4. t[p + q] = b[q] /\ (q < n - p => t[p + q + 1] = b[q + 1])
  BY <1>1, <1>2
<1>5. /\ e \in Nat /\ p < e /\ e <= n /\ nl.next \in 1..(n - p + 1)
      /\ (t[e] = "CR" => e < n)
      /\ \/ t[e] = "LF" /\ e = p + q
         \/ t[e] = "LF" /\ t[e - 1] = "CR" /\ e = p + q + 1
         \/ t[e] = "CR" /\ t[e + 1] # "LF" /\ e = p + q /\ e < n
  <2>1. CASE b[q] = "LF" /\ nl.next = q + 1
    <3>1. e = p + q /\ e \in Nat /\ p < e /\ e <= n /\ nl.next \in 1..(n - p + 1)
      BY <1>2, <2>1
    <3>2. t[e] = "LF"
      BY <1>4, <2>1, <3>1
    <3> QED BY <3>1, <3>2
  <2>2. CASE b[q] = "CR" /\ q < n - p /\ b[q + 1] = "LF" /\ nl.next = q + 2
    <3>1. e = p + q + 1 /\ e \in Nat /\ p < e /\ e <= n /\ nl.next \in 1..(n - p + 1) /\ e - 1 = p + q
      BY <1>2, <2>2
    <3>2. t[e] = "LF" /\ t[e - 1] = "CR"
      BY <1>4, <2>2, <3>1
    <3> QED BY <3>1, <3>2
  <2>3. CASE b[q] = "CR" /\ q < n - p /\ b[q + 1] # "LF" /\ nl.next = q + 1
    <3>1. e = p + q /\ e \in Nat /\ p < e /\ e < n /\ e <= n /\ nl.next \in 1..(n - p + 1)
      BY <1>2, <2>3
    <3>2. t[e] = "CR" /\ t[e + 1] # "LF"
      BY <1>4, <2>3, <3>1
    <3> QED BY <3>1, <3>2
  <2> QED BY <1>2, <2>1, <2>2, <2>3
<1>6. DOMAIN t = 1..Len(t) /\ Len(t) \in Nat /\ e <= n /\ p < e
  BY <1>5
<1>7. e \in LineEnds(t)
  <2>1. e \in DOMAIN t
    BY <1>6
  <2>2. t[e] = "LF" \/ (t[e] = "CR" /\ t[e + 1] # "LF")
    BY <1>5
  <2> QED BY <2>1, <2>2 DEF LineEnds
<1>8. ASSUME NEW x \in LineEnds(t), p < x, x < e PROVE FALSE
  <2>1. x \in 1..Len(t) /\ (t[x] = "LF" \/ (t[x] = "CR" /\ (x = Len(t) \/ t[x + 1] # "LF")))
    BY <1>6 DEF LineEnds
  <2>2. x \notin (p + 1)..(p + q - 1)
    BY <1>3, <2>1
  <2>3. x = p + q /\ e = p + q + 1 /\ t[e] = "LF" /\ t[e - 1] = "CR"
    BY <1>2, <1>5, <1>8, <2>1, <2>2
  <2>4. t[x] = "CR" /\ t[x + 1] = "LF" /\ x # Len(t)
    <3>1. t[x] = "CR" /\ t[x + 1] = "LF" /\ x + 1 = e
      BY <2>3, <2>1
    <3>2. e <= Len(t)
      BY <1>5
    <3> QED BY <3>1, <3>2, <2>1
  <2> QED BY <2>1, <2>4
<1>9. NextEnd(t, p, e)
  BY <1>5, <1>7, <1>8 DEF NextEnd
<1>10. After(LineEnds(t), e) = p + 1
  <2>1. LineEnds(t) \in SUBSET (Nat \ {0})
    BY EndsArePlaces
  <2>2. \A x \in LineEnds(t) : ~(p < x /\ x < e)
    BY <1>8
  <2>3. e \in Nat /\ p < e
    BY <1>5
  <2> QED BY <2>1, <2>2, <2>3, AfterIs
<1>11. (IF e > 1 /\ t[e - 1] = "CR" /\ t[e] = "LF" THEN e - 2 ELSE e - 1) = p + (q - 1)
  <2>1. CASE t[e] = "LF" /\ t[e - 1] = "CR" /\ e = p + q + 1
    BY <1>2, <2>1
  <2>2. CASE t[e] = "CR" /\ e = p + q
    BY <1>2, <2>2
  <2>3. CASE t[e] = "LF" /\ e = p + q
    <3>1. ASSUME e > 1, t[e - 1] = "CR" PROVE FALSE
      <4>1. e - 1 \notin (p + 1)..(p + q - 1)
        BY <1>3, <3>1
      <4>2. e - 1 = p /\ p # 0
        BY <1>2, <2>3, <3>1, <4>1
      <4>3. p + 1 = e /\ p # Len(t)
        <5>1. PICK m \in Nat : m = Len(t) /\ p < m
          <6>1. Len(t) \in Nat
            OBVIOUS
          <6>2. p < Len(t)
            BY <1>6
          <6> QED BY <6>1, <6>2
        <5>2. p + 1 = e
          BY <4>2
        <5>3. p # m
          BY <5>1
        <5> QED BY <5>1, <5>2, <5>3
      <4>4. t[p] = "CR" /\ t[p + 1] = "LF"
        BY <2>3, <3>1, <4>2, <4>3
      <4>5. p \in LineEnds(t)
        BY <4>2
      <4> QED BY <4>3, <4>4, <4>5 DEF LineEnds
    <3> QED BY <1>2, <2>3, <3>1
  <2> QED BY <1>5, <2>1, <2>2, <2>3
<1>12. LineText(t, e) = SubSeq(t, p + 1, p + (q - 1))
  BY <1>10, <1>11 DEF LineText
<1>13. SubSeq(b, 1, q - 1) = SubSeq(t, p + 1, p + (q - 1))
  <2>1. 1 \in 1..(n - p + 1) /\ q - 1 \in 0..(n - p)
    BY <1>2
  <2> QED BY <2>1, CutCut, ZenonT(30)
<1>14. SubSeq(b, nl.next, Len(b)) = SubSeq(t, e + 1, n)
  <2>1. n - p \in 0..(n - p) /\ p + (n - p) = n
    OBVIOUS
  <2>2. PICK c \in 1..(n - p + 1) : c = nl.next /\ p + c = e + 1
    BY <1>5
  <2>3. SubSeq(b, c, n - p) = SubSeq(t, p + c, p + (n - p))
    BY <2>1, CutCut
  <2> QED BY <1>1, <2>1, <2>2, <2>3
<1> QED BY <1>1, <1>2, <1>5, <1>9, <1>12, <1>13, <1>14 DEF q, FirstLine

\* A cut and the cut that follows it.
LEMMA CutJoin ==
  ASSUME NEW X, NEW t \in Seq(X), NEW p \in Nat, NEW m \in Nat, NEW n \in Nat,
         p <= m, m <= n, n <= Len(t)
  PROVE  SubSeq(t, p + 1, m) \o SubSeq(t, m + 1, n) = SubSeq(t, p + 1, n)
<1> DEFINE a == SubSeq(t, p + 1, m)
           b == SubSeq(t, m + 1, n)
           u == a \o b
           v == SubSeq(t, p + 1, n)
<1>1. a \in Seq(X) /\ Len(a) = m - p /\ \A k \in 1..(m - p) : a[k] = t[p + k]
  OBVIOUS
<1>2. b \in Seq(X) /\ Len(b) = n - m /\ \A k \in 1..(n - m) : b[k] = t[m + k]
  OBVIOUS
<1>3. v \in Seq(X) /\ Len(v) = n - p /\ \A k \in 1..(n - p) : v[k] = t[p + k]
  OBVIOUS
<1> HIDE DEF a, b, v
<1>4. /\ u \in Seq(X) /\ Len(u) = n - p
      /\ \A k \in 1..(n - p) : u[k] = IF k <= m - p THEN a[k] ELSE b[k - (m - p)]
  <2>1. /\ u \in Seq(X) /\ Len(u) = Len(a) + Len(b)
        /\ \A k \in 1..(Len(a) + Len(b)) : u[k] = IF k <= Len(a) THEN a[k] ELSE b[k - Len(a)]
    BY <1>1, <1>2, ConcatProperties
  <2>2. Len(a) + Len(b) = n - p
    BY <1>1, <1>2
  <2> QED BY <1>1, <2>1, <2>2
<1>5. ASSUME NEW k \in 1..(n - p) PROVE u[k] = t[p + k]
  <2>1. CASE k <= m - p
    <3>1. k \in 1..(m - p)
      BY <2>1
    <3>2. u[k] = a[k]
      BY <1>4, <2>1
    <3> QED BY <1>1, <3>1, <3>2
  <2>2. CASE ~(k <= m - p)
    <3>1. k - (m - p) \in 1..(n - m) /\ m + (k - (m - p)) = p + k
      BY <2>2
    <3>2. u[k] = b[k - (m - p)]
      BY <1>4, <2>2
    <3> QED BY <1>2, <3>1, <3>2
  <2> QED BY <2>1, <2>2
<1> HIDE DEF u
<1>6. u = v
  BY <1>3, <1>4, <1>5
<1> QED BY <1>6 DEF u, v, a, b

\* The stream as EOF ends it.
Whole(s) == s \o <<"LF", "LF">>

\* Two line ends follow the bytes of the stream.
LEMMA WholeIs ==
  ASSUME NEW s \in Seq(Octets)
  PROVE  /\ Whole(s) \in Seq(Octets) /\ Len(s) \in Nat /\ Len(Whole(s)) = Len(s) + 2
         /\ \A i \in 1..Len(s) : Whole(s)[i] = s[i]
         /\ Whole(s)[Len(s) + 1] = "LF" /\ Whole(s)[Len(s) + 2] = "LF"
<1>1. <<"LF", "LF">> \in Seq(Octets)
  BY DEF Octets
<1>2. Len(<<"LF", "LF">>) = 2 /\ <<"LF", "LF">>[1] = "LF" /\ <<"LF", "LF">>[2] = "LF"
  OBVIOUS
<1> DEFINE z == <<"LF", "LF">>
<1>3. z \in Seq(Octets) /\ Len(z) = 2 /\ z[1] = "LF" /\ z[2] = "LF"
  BY <1>1, <1>2
<1> HIDE DEF z
<1>4. /\ s \o z \in Seq(Octets) /\ Len(s) \in Nat /\ Len(s \o z) = Len(s) + 2
      /\ \A i \in 1..(Len(s) + 2) : (s \o z)[i] = IF i <= Len(s) THEN s[i] ELSE z[i - Len(s)]
  <2>1. /\ s \o z \in Seq(Octets) /\ Len(s \o z) = Len(s) + Len(z)
        /\ \A i \in 1..(Len(s) + Len(z)) : (s \o z)[i] = IF i <= Len(s) THEN s[i] ELSE z[i - Len(s)]
    BY <1>3, ConcatProperties
  <2>2. Len(s) \in Nat
    OBVIOUS
  <2> QED BY <1>3, <2>1, <2>2
<1>5. \A i \in 1..Len(s) : (s \o z)[i] = s[i]
  BY <1>4
<1>6. (s \o z)[Len(s) + 1] = z[1] /\ (s \o z)[Len(s) + 2] = z[2]
  <2> DEFINE L == Len(s)
  <2>1. L \in Nat
    OBVIOUS
  <2> HIDE DEF L
  <2>2. L + 1 \in 1..(L + 2) /\ L + 2 \in 1..(L + 2) /\ ~(L + 1 <= L) /\ ~(L + 2 <= L)
        /\ (L + 1) - L = 1 /\ (L + 2) - L = 2
    BY <2>1
  <2> QED BY <1>4, <2>2 DEF L
<1> QED BY <1>3, <1>4, <1>5, <1>6 DEF Whole, z

\* Up to EOF it is the stream.
LEMMA WholeCut ==
  ASSUME NEW s \in Seq(Octets), NEW p \in Nat, NEW n \in Nat, n <= Len(s)
  PROVE  SubSeq(Whole(s), p + 1, n) = SubSeq(s, p + 1, n)
<1> DEFINE t == Whole(s)
           u == SubSeq(t, p + 1, n)
           v == SubSeq(s, p + 1, n)
<1>1. t \in Seq(Octets) /\ Len(t) = Len(s) + 2 /\ \A i \in 1..Len(s) : t[i] = s[i]
  BY WholeIs
<1> HIDE DEF t
<1>2. /\ u \in Seq(Octets) /\ Len(u) = (IF p + 1 <= n THEN n - p ELSE 0)
      /\ \A k \in 1..(n - p) : u[k] = t[p + k]
  BY <1>1
<1>3. /\ v \in Seq(Octets) /\ Len(v) = (IF p + 1 <= n THEN n - p ELSE 0)
      /\ \A k \in 1..(n - p) : v[k] = s[p + k]
  OBVIOUS
<1>4. \A k \in 1..(n - p) : t[p + k] = s[p + k]
  <2>1. \A k \in 1..(n - p) : p + k \in 1..Len(s)
    OBVIOUS
  <2> QED BY <1>1, <2>1
<1> HIDE DEF u, v
<1>5. Len(u) = Len(v) /\ \A k \in 1..Len(u) : u[k] = v[k]
  <2>1. Len(u) = Len(v)
    BY <1>2, <1>3
  <2>2. 1..Len(u) \subseteq 1..(n - p)
    BY <1>2
  <2> QED BY <1>2, <1>3, <1>4, <2>1, <2>2
<1>6. u = v
  BY <1>2, <1>3, <1>5, SeqEqual
<1> QED BY <1>6 DEF u, v, t

\* The places of data lines.
DataLines(ls) == {i \in DOMAIN ls : IsData(ls[i])}

\* One more line adds its data.
LEMMA PayloadAppend ==
  ASSUME NEW X, NEW ls \in Seq(X), NEW w \in X
  PROVE  Payload(Append(ls, w)) = IF IsData(w) THEN Append(Payload(ls), Tail(w)) ELSE Payload(ls)
<1> DEFINE n == Len(ls)
           l2 == Append(ls, w)
           S == DataLines(ls)
           U == DataLines(l2)
           f == [i \in S |-> Tail(ls[i])]
           g == [i \in U |-> Tail(l2[i])]
<1>1. /\ n \in Nat /\ DOMAIN ls = 1..n /\ DOMAIN l2 = 1..(n + 1)
      /\ \A i \in 1..n : l2[i] = ls[i]
      /\ l2[n + 1] = w
  OBVIOUS
<1>2. Payload(ls) = InOrder(S, f) /\ Payload(l2) = InOrder(U, g)
  BY DEF Payload, DataLines
<1>3. S \in SUBSET (1..n)
  BY <1>1 DEF DataLines
<1>4. S \in SUBSET Nat /\ IsFiniteSet(S)
  <2> HIDE DEF n, S
  <2> QED BY <1>1, <1>3, PlacesFinite
<1> HIDE DEF l2
<1>5. U = S \cup (IF IsData(w) THEN {n + 1} ELSE {})
  <2>1. \A i \in 1..(n + 1) : i \in 1..n \/ i = n + 1
    BY <1>1
  <2> HIDE DEF n
  <2> QED BY <1>1, <2>1 DEF DataLines
<1>6. Agree(S, f, g)
  <2>1. \A i \in S : i \in 1..n /\ i \in U
    BY <1>3, <1>5
  <2> QED BY <1>1, <2>1 DEF Agree
<1>7. CASE ~IsData(w)
  <2>1. U = S
    BY <1>5, <1>7
  <2>2. f = g
    BY <1>6, <2>1 DEF Agree
  <2> QED BY <1>2, <1>7, <2>1, <2>2 DEF l2
<1>8. CASE IsData(w)
  <2>1. U = S \cup {n + 1}
    BY <1>5, <1>8
  <2>2. g[n + 1] = Tail(w)
    BY <1>1, <2>1
  <2>3. n + 1 \in Nat /\ Above(S, n + 1)
    BY <1>1, <1>3 DEF Above
  <2>4. PICK k \in Nat : Above(S, k) /\ g[k] = Tail(w) /\ U = Plus(S, k)
    BY <2>1, <2>2, <2>3 DEF Plus
  <2> HIDE DEF n, S, U, f, g
  <2>5. InOrder(Plus(S, k), g) = Append(InOrder(S, f), g[k])
    <3>1. Above(S, k) /\ Agree(S, f, g)
      BY <1>6, <2>4
    <3> QED BY ONLY <1>4, <3>1, k \in Nat, InOrderAppend
  <2> QED BY <1>2, <1>8, <2>4, <2>5 DEF l2
<1> QED BY <1>7, <1>8

\* Without lines there is no data.
LEMMA PayloadEmpty == Payload(<< >>) = << >>
<1>1. DataLines(<< >>) = {}
  BY DEF DataLines
<1>2. {} \in SUBSET Nat /\ IsFiniteSet({})
  BY FS_EmptySet
<1> QED BY <1>1, <1>2, InOrderSeq DEF Payload, DataLines

(***************************************************************************)
(* The decoder at place p of a stream t: a line starts there, the lines it *)
(* keeps hold the data of the event that is not complete, and its events   *)
(* are those that ended.                                                   *)
(***************************************************************************)
Tracks(t, p, ls, ev) ==
  /\ p = 0 \/ p \in LineEnds(t)
  /\ Payload(ls) = DataOf(t, p + 1)
  /\ ev = Seen(t, p)
EmitTo(ev, ls) == IF Payload(ls) = << >> THEN ev ELSE Append(ev, Payload(ls))
NextLines(ls, line) == IF line = << >> THEN << >> ELSE Append(ls, line)
NextEvents(ev, ls, line) == IF line = << >> THEN EmitTo(ev, ls) ELSE ev

\* Before the first byte.
LEMMA TracksStart ==
  ASSUME NEW X, NEW t \in Seq(X)
  PROVE  Tracks(t, 0, << >>, << >>)
<1>1. \A x \in LineEnds(t) : x \in Nat \ {0}
  BY EndsArePlaces
<1>2. DataEnds(t, 0 + 1) = {} /\ Out(t, 0) = {}
  <2>1. \A x \in LineEnds(t) : ~(x < 0 + 1) /\ ~(x <= 0)
    BY <1>1
  <2> QED BY <2>1, EndsArePlaces DEF DataEnds, Out
<1>3. {} \in SUBSET Nat /\ IsFiniteSet({})
  BY FS_EmptySet
<1>4. DataOf(t, 0 + 1) = << >> /\ Seen(t, 0) = << >>
  BY <1>2, <1>3, InOrderSeq DEF DataOf, Seen
<1> QED BY <1>4, PayloadEmpty DEF Tracks

\* A line that is taken.
LEMMA LineTaken ==
  ASSUME NEW t \in Seq(Octets), NEW p \in Nat, NEW e \in Nat,
         NEW ls \in Seq(Seq(Octets)), NEW ev, Tracks(t, p, ls, ev), NextEnd(t, p, e),
         NEW line \in Seq(Octets), line = LineText(t, e)
  PROVE  Tracks(t, e, NextLines(ls, line), NextEvents(ev, ls, line))
<1>1. Payload(ls) = DataOf(t, p + 1) /\ ev = Seen(t, p) /\ e \in LineEnds(t)
  BY DEF Tracks, NextEnd
<1>2. CASE line = << >>
  <2>1. /\ DataOf(t, e + 1) = << >>
        /\ Seen(t, e) = IF DataOf(t, p + 1) = << >> THEN Seen(t, p)
                        ELSE Append(Seen(t, p), DataOf(t, p + 1))
    BY <1>2, BlankTaken
  <2>2. NextLines(ls, line) = << >> /\ NextEvents(ev, ls, line) = EmitTo(ev, ls)
    BY <1>2 DEF NextLines, NextEvents
  <2>3. EmitTo(ev, ls) = Seen(t, e)
    BY <1>1, <2>1 DEF EmitTo
  <2>4. Payload(<< >>) = DataOf(t, e + 1)
    BY <2>1, PayloadEmpty
  <2> QED BY <1>1, <2>2, <2>3, <2>4 DEF Tracks
<1>3. CASE line # << >>
  <2>1. /\ Seen(t, e) = Seen(t, p)
        /\ DataOf(t, e + 1) = IF IsData(line) THEN Append(DataOf(t, p + 1), Tail(line))
                              ELSE DataOf(t, p + 1)
    BY <1>3, TextTaken
  <2>2. NextLines(ls, line) = Append(ls, line) /\ NextEvents(ev, ls, line) = ev
    BY <1>3 DEF NextLines, NextEvents
  <2>3. Payload(Append(ls, line)) = IF IsData(line) THEN Append(Payload(ls), Tail(line)) ELSE Payload(ls)
    BY PayloadAppend
  <2>4. Payload(Append(ls, line)) = DataOf(t, e + 1)
    BY <1>1, <2>1, <2>3
  <2> QED BY <1>1, <2>1, <2>2, <2>4 DEF Tracks
<1> QED BY <1>2, <1>3

\* The decoder's own state: what is buffered follows p, and p is not a CR
\* whose LF may still come.
Held(s, n, b, ls, ev, p) ==
  /\ b = SubSeq(s, p + 1, n)
  /\ p # 0 /\ s[p] = "CR" => p < n
  /\ ls \in Seq(Seq(Octets))
  /\ Tracks(s, p, ls, ev)
  /\ Tracks(Whole(s), p, ls, ev)

\* A turn of the loop of feed().
LEMMA HeldLine ==
  ASSUME NEW s \in Seq(Octets), NEW n \in Nat, n <= Len(s), NEW p \in Nat, p <= n,
         NEW b, NEW ls, NEW ev, Held(s, n, b, ls, ev, p), NEW nl \in FindNewline(b),
         NEW line, line = SubSeq(b, 1, nl.end - 1)
  PROVE  \E e \in 0..n : Held(s, n, SubSeq(b, nl.next, Len(b)), NextLines(ls, line), NextEvents(ev, ls, line), e)
<1>0. p \in Nat /\ n \in Nat /\ p <= n /\ n <= Len(s) /\ Len(s) \in Nat
  OBVIOUS
<1>1. /\ b = SubSeq(s, p + 1, n) /\ ls \in Seq(Seq(Octets))
      /\ Tracks(s, p, ls, ev) /\ Tracks(Whole(s), p, ls, ev)
  BY DEF Held
<1>2. b \in Seq(Octets) /\ b = SubSeq(Whole(s), p + 1, n)
  <2>1. b \in Seq(Octets)
    BY <1>0, <1>1
  <2> QED BY <1>0, <1>1, <2>1, WholeCut
<1>3. nl.end \in 1..Len(b) /\ nl.next \in Nat \ {0}
  <2>1. nl.end \in 1..Len(b) /\ (nl.next = nl.end + 1 \/ nl.next = nl.end + 2)
    BY <1>2, Found
  <2> QED BY <2>1
<1>4. PICK e \in Nat : NextAfter(p, nl, e)
  <2>1. p + nl.next - 1 \in Nat /\ p + nl.next = (p + nl.next - 1) + 1
    BY <1>0, <1>3
  <2> QED BY <2>1 DEF NextAfter
<1>5. /\ NextEnd(s, p, e) /\ e <= n /\ (s[e] = "CR" => e < n)
      /\ LineText(s, e) = line /\ SubSeq(b, nl.next, Len(b)) = SubSeq(s, e + 1, n)
  <2>1. Buffered(s, p, n, b)
    BY <1>0, <1>1 DEF Tracks, Buffered
  <2>2. FirstLine(s, p, n, b, nl, e)
    BY <1>4, <2>1, LineFound
  <2> QED BY <2>2 DEF FirstLine
<1>6. NextEnd(Whole(s), p, e) /\ LineText(Whole(s), e) = line
  <2>1. Whole(s) \in Seq(Octets) /\ n <= Len(Whole(s))
    BY <1>0, WholeIs
  <2>2. Buffered(Whole(s), p, n, b)
    BY <1>0, <1>1, <1>2, <2>1 DEF Tracks, Buffered
  <2>3. FirstLine(Whole(s), p, n, b, nl, e)
    BY <1>4, <2>1, <2>2, LineFound
  <2> QED BY <2>3 DEF FirstLine
<1>7. line \in Seq(Octets)
  <2>1. nl.end \in Nat /\ nl.end - 1 <= Len(b)
    BY <1>2, <1>3
  <2> QED BY <1>2, <1>3, <2>1
<1>8. NextLines(ls, line) \in Seq(Seq(Octets))
  <2> DEFINE Y == Seq(Octets)
  <2>1. ls \in Seq(Y) /\ line \in Y
    BY <1>1, <1>7
  <2> HIDE DEF Y
  <2>2. << >> \in Seq(Y) /\ Append(ls, line) \in Seq(Y)
    BY <2>1
  <2> QED BY <2>2 DEF NextLines, Y
<1>9. Tracks(s, e, NextLines(ls, line), NextEvents(ev, ls, line))
  BY <1>0, <1>1, <1>5, <1>7, LineTaken
<1>10. Tracks(Whole(s), e, NextLines(ls, line), NextEvents(ev, ls, line))
  <2>1. Whole(s) \in Seq(Octets)
    BY WholeIs
  <2> QED BY <1>0, <1>1, <1>6, <1>7, <2>1, LineTaken
<1>11. Held(s, n, SubSeq(b, nl.next, Len(b)), NextLines(ls, line), NextEvents(ev, ls, line), e)
  BY <1>5, <1>8, <1>9, <1>10 DEF Held
<1>12. e \in 0..n
  BY <1>0, <1>5
<1> QED BY <1>11, <1>12

\* The text of the line that EOF ends.
EofText(b) == IF b = << >> THEN << >> ELSE LastLine(b)

\* EOF ends what is buffered as a line.
LEMMA EofLine ==
  ASSUME NEW s \in Seq(Octets), NEW L \in Nat, L = Len(s), NEW p \in Nat, p <= L,
         NEW b, NEW ls, NEW ev, Held(s, L, b, ls, ev, p), FindNewline(b) = {}
  PROVE  /\ NextEnd(Whole(s), p, L + 1) /\ EofText(b) \in Seq(Octets)
         /\ LineText(Whole(s), L + 1) = EofText(b)
<1> DEFINE w == Whole(s)
<1>1. /\ w \in Seq(Octets) /\ Len(w) = L + 2 /\ \A i \in 1..L : w[i] = s[i]
      /\ w[L + 1] = "LF" /\ w[L + 2] = "LF"
  BY WholeIs
<1>2. b = SubSeq(s, p + 1, L) /\ (p # 0 /\ s[p] = "CR" => p < L) /\ (p = 0 \/ p \in LineEnds(w))
  BY DEF Held, Tracks
<1>3. b \in Seq(Octets) /\ Len(b) = L - p /\ \A k \in 1..(L - p) : b[k] = s[p + k]
  BY <1>2
<1>4. b = SubSeq(w, p + 1, L)
  <2>1. L <= Len(s)
    OBVIOUS
  <2>2. SubSeq(Whole(s), p + 1, L) = SubSeq(s, p + 1, L)
    BY <2>1, WholeCut
  <2> QED BY <1>2, <2>2
<1> HIDE DEF w
<1>5. DOMAIN w = 1..(L + 2)
  BY <1>1
<1>6. ASSUME NEW x \in LineEnds(w), p < x, x < L + 1 PROVE FALSE
  <2>1. x \in 1..(L + 2) /\ (w[x] = "LF" \/ (w[x] = "CR" /\ (x = L + 2 \/ w[x + 1] # "LF")))
    BY <1>1, <1>5 DEF LineEnds
  <2>2. x \in 1..L /\ x - p \in 1..(L - p) /\ p + (x - p) = x
    BY <1>6, <2>1
  <2>3. w[x] = b[x - p]
    BY <1>1, <1>3, <2>2
  <2>4. PICK k \in 1..Len(b) : k = x - p
    BY <1>3, <2>2
  <2>5. b[k] # "LF" /\ (b[k] = "CR" => k = Len(b))
    BY <1>3, NoneFound
  <2>6. w[x] = "CR" /\ x = L
    BY <1>3, <2>1, <2>2, <2>3, <2>4, <2>5
  <2>7. w[x + 1] = "LF" /\ x # L + 2
    BY <1>1, <2>6
  <2> QED BY <2>1, <2>6, <2>7
<1>7. L + 1 \in LineEnds(w)
  BY <1>1, <1>5 DEF LineEnds
<1>8. NextEnd(w, p, L + 1)
  BY <1>6, <1>7 DEF NextEnd
<1>9. After(LineEnds(w), L + 1) = p + 1
  <2>1. LineEnds(w) \in SUBSET (Nat \ {0})
    BY <1>1, EndsArePlaces
  <2>2. L + 1 \in Nat /\ p < L + 1 /\ \A x \in LineEnds(w) : ~(p < x /\ x < L + 1)
    BY <1>6
  <2> QED BY <1>2, <2>1, <2>2, AfterIs
<1>10. LineText(w, L + 1) = SubSeq(w, p + 1, IF L # 0 /\ w[L] = "CR" THEN L - 1 ELSE L)
  <2>1. (L + 1 > 1 <=> L # 0) /\ (L + 1) - 1 = L /\ (L + 1) - 2 = L - 1
    OBVIOUS
  <2> QED BY <1>1, <1>9, <2>1 DEF LineText
<1>11. CASE b = << >>
  <2>1. p = L
    BY <1>3, <1>11
  <2>2. ~(L # 0 /\ w[L] = "CR")
    BY <1>1, <1>2, <2>1
  <2>3. SubSeq(w, p + 1, L) = << >>
    BY <1>4, <1>11
  <2>4. LineText(w, L + 1) = EofText(b) /\ EofText(b) \in Seq(Octets)
    <3>1. LineText(w, L + 1) = << >>
      BY <1>10, <2>2, <2>3
    <3>2. EofText(b) = << >>
      BY <1>11 DEF EofText
    <3> QED BY <3>1, <3>2
  <2> QED BY <1>8, <2>4 DEF w
<1>12. CASE b # << >>
  <2>1. Len(b) # 0
    BY <1>3, <1>12
  <2>2. p < L /\ L # 0
    BY <1>3, <2>1
  <2>3. Last(b) = w[L]
    <3>1. L \in 1..L /\ L - p \in 1..(L - p) /\ p + (L - p) = L
      BY <2>2
    <3> QED BY <1>1, <1>3, <3>1 DEF Last
  <2>4. CASE w[L] = "CR"
    <3>1. EofText(b) = SubSeq(b, 1, L - p - 1)
      BY <1>3, <1>12, <2>3, <2>4 DEF EofText, LastLine, Front
    <3>2. 1 \in 1..(L - p + 1) /\ L - p - 1 \in 0..(L - p) /\ p + (L - p - 1) = L - 1 /\ L <= Len(w)
      BY <1>1, <2>2
    <3>3. SubSeq(SubSeq(w, p + 1, L), 1, L - p - 1) = SubSeq(w, p + 1, p + (L - p - 1))
      BY <1>1, <3>2, CutCut
    <3>4. LineText(w, L + 1) = EofText(b)
      BY <1>4, <1>10, <2>2, <2>4, <3>1, <3>2, <3>3
    <3>5. EofText(b) \in Seq(Octets)
      BY <1>3, <3>1, <3>2
    <3> QED BY <1>8, <3>4, <3>5 DEF w
  <2>5. CASE w[L] # "CR"
    <3>1. EofText(b) = b
      BY <1>12, <2>3, <2>5 DEF EofText, LastLine
    <3> QED BY <1>3, <1>4, <1>8, <1>10, <2>5, <3>1 DEF w
  <2> QED BY <2>4, <2>5
<1> QED BY <1>11, <1>12

\* The last line of the stream as EOF ends it is empty.
LEMMA EofBlank ==
  ASSUME NEW s \in Seq(Octets), NEW L \in Nat, L = Len(s)
  PROVE  NextEnd(Whole(s), L + 1, L + 2) /\ LineText(Whole(s), L + 2) = << >>
<1> DEFINE w == Whole(s)
<1>1. w \in Seq(Octets) /\ Len(w) = L + 2 /\ w[L + 1] = "LF" /\ w[L + 2] = "LF"
  BY WholeIs
<1> HIDE DEF w
<1>2. DOMAIN w = 1..(L + 2)
  BY <1>1
<1>3. L + 1 \in LineEnds(w) /\ L + 2 \in LineEnds(w)
  BY <1>1, <1>2 DEF LineEnds
<1>4. LineEnds(w) \in SUBSET (Nat \ {0})
  BY <1>1, EndsArePlaces
<1>5. \A x \in LineEnds(w) : ~(L + 1 < x /\ x < L + 2)
  BY <1>4
<1>6. NextEnd(w, L + 1, L + 2)
  BY <1>3, <1>5 DEF NextEnd
<1>7. After(LineEnds(w), L + 2) = L + 2
  <2>1. L + 1 \in Nat /\ L + 2 \in Nat /\ L + 1 < L + 2 /\ (L + 1) + 1 = L + 2
    OBVIOUS
  <2>2. After(LineEnds(w), L + 2) = (L + 1) + 1
    BY <1>3, <1>4, <1>5, <2>1, AfterIs
  <2> QED BY <2>1, <2>2
<1>8. LineText(w, L + 2) = SubSeq(w, L + 2, L + 1)
  <2>1. (L + 2) - 1 = L + 1
    OBVIOUS
  <2> QED BY <1>1, <1>7, <2>1 DEF LineText
<1>9. SubSeq(w, L + 2, L + 1) = << >>
  BY SubSeqEmpty
<1> QED BY <1>6, <1>8, <1>9 DEF w

\* At the end of the stream every event is out.
LEMMA AllSeen ==
  ASSUME NEW X, NEW t \in Seq(X), NEW n \in Nat, n = Len(t)
  PROVE  Seen(t, n) = EventsOf(t)
<1>1. \A b \in EventEnds(t) : b <= n
  BY EndsArePlaces
<1>2. Out(t, n) = EventEnds(t)
  BY <1>1 DEF Out
<1> QED BY <1>2 DEF Seen, EventsOf

\* close() at EOF.
LEMMA EofTaken ==
  ASSUME NEW s \in Seq(Octets), NEW L \in Nat, L = Len(s), NEW p \in Nat, p <= L,
         NEW b, NEW ls, NEW ev, Held(s, L, b, ls, ev, p), FindNewline(b) = {}
  PROVE  EmitTo(ev, IF b = << >> THEN ls ELSE Append(ls, LastLine(b))) = EventsOf(Whole(s))
<1> DEFINE w == Whole(s)
           text == EofText(b)
           l1 == NextLines(ls, text)
           e1 == NextEvents(ev, ls, text)
<1>1. w \in Seq(Octets) /\ Len(w) = L + 2 /\ ls \in Seq(Seq(Octets)) /\ Tracks(w, p, ls, ev)
  BY WholeIs DEF Held
<1>2. NextEnd(w, p, L + 1) /\ text \in Seq(Octets) /\ LineText(w, L + 1) = text
  BY EofLine
<1>3. L + 1 \in Nat /\ L + 2 \in Nat
  OBVIOUS
<1>4. NextEnd(w, L + 1, L + 2) /\ LineText(w, L + 2) = << >>
  BY EofBlank
<1> DEFINE Y == Seq(Octets)
<1> HIDE DEF Y
<1>5. l1 \in Seq(Y) /\ ls \in Seq(Y) /\ text \in Y /\ << >> \in Y
  <2>1. ls \in Seq(Y) /\ text \in Y /\ << >> \in Y
    BY <1>1, <1>2 DEF Y
  <2>2. << >> \in Seq(Y) /\ Append(ls, text) \in Seq(Y)
    BY <2>1
  <2> QED BY <2>1, <2>2 DEF NextLines
<1> HIDE DEF w, text
<1>6. Tracks(w, L + 1, l1, e1)
  BY <1>1, <1>2, <1>3, LineTaken
<1> HIDE DEF l1, e1
<1>7. Tracks(w, L + 2, NextLines(l1, << >>), NextEvents(e1, l1, << >>))
  <2>1. l1 \in Seq(Seq(Octets)) /\ << >> \in Seq(Octets)
    BY <1>5 DEF Y
  <2> QED BY <1>1, <1>3, <1>4, <1>6, <2>1, LineTaken
<1>8. EmitTo(e1, l1) = EventsOf(w)
  <2>1. EmitTo(e1, l1) = Seen(w, L + 2)
    BY <1>7 DEF Tracks, NextEvents
  <2> QED BY <1>1, <1>3, <2>1, AllSeen
<1>9. CASE text = << >>
  <2>1. l1 = << >> /\ e1 = EmitTo(ev, ls)
    BY <1>9 DEF l1, e1, NextLines, NextEvents
  <2>2. EmitTo(e1, l1) = e1
    BY <2>1, PayloadEmpty DEF EmitTo
  <2>3. Payload(Append(ls, << >>)) = Payload(ls)
    <3>1. ~IsData(<< >>)
      BY DEF IsData
    <3> QED BY <1>5, <3>1, PayloadAppend
  <2>4. b # << >> => LastLine(b) = << >>
    BY <1>9 DEF text, EofText
  <2>5. EmitTo(ev, Append(ls, << >>)) = EmitTo(ev, ls)
    BY <2>3 DEF EmitTo
  <2> QED BY <1>8, <2>1, <2>2, <2>4, <2>5 DEF w
<1>10. CASE text # << >>
  <2>1. l1 = Append(ls, text) /\ e1 = ev
    BY <1>10 DEF l1, e1, NextLines, NextEvents
  <2>2. b # << >> /\ text = LastLine(b)
    BY <1>10 DEF text, EofText
  <2> QED BY <1>8, <2>1, <2>2 DEF w
<1> QED BY <1>9, <1>10

\* After a chunk the ends that were seen are those up to p.
LEMMA SeenUpTo ==
  ASSUME NEW s \in Seq(Octets), NEW n \in Nat, n <= Len(s), NEW p \in Nat, p <= n,
         NEW b, NEW ls, NEW ev, Held(s, n, b, ls, ev, p), FindNewline(b) = {},
         NEW x \in LineEnds(s)
  PROVE  (x < n \/ (x = n /\ s[x] = "LF")) <=> x <= p
<1>1. b = SubSeq(s, p + 1, n) /\ (p # 0 /\ s[p] = "CR" => p < n)
  BY DEF Held
<1>2. b \in Seq(Octets) /\ Len(b) = n - p /\ \A k \in 1..(n - p) : b[k] = s[p + k]
  BY <1>1
<1>3. x \in Nat \ {0} /\ (s[x] = "LF" \/ s[x] = "CR")
  <2>1. x \in Nat \ {0}
    BY EndsArePlaces
  <2> QED BY <2>1 DEF LineEnds
<1>4. CASE x <= p
  <2>1. x < n \/ (x = n /\ x = p)
    BY <1>3, <1>4
  <2>2. ASSUME x = n, x = p PROVE s[x] = "LF"
    BY <1>1, <1>3, <2>2
  <2> QED BY <1>4, <2>1, <2>2
<1>5. CASE ~(x <= p) /\ x <= n
  <2>1. PICK k \in 1..Len(b) : p + k = x
    <3>1. x - p \in 1..(n - p) /\ p + (x - p) = x
      BY <1>3, <1>5
    <3> QED BY <1>2, <3>1
  <2>2. b[k] = s[x]
    BY <1>2, <2>1
  <2>3. b[k] # "LF" /\ (b[k] = "CR" => k = Len(b))
    BY <1>2, NoneFound
  <2>4. s[x] # "LF" /\ k = Len(b)
    BY <1>3, <2>2, <2>3
  <2>5. x = n
    BY <1>2, <2>1, <2>4
  <2> QED BY <1>5, <2>4, <2>5
<1>6. CASE ~(x <= n)
  BY <1>3, <1>6
<1> QED BY <1>3, <1>4, <1>5, <1>6

(***************************************************************************)
(* The inductive invariant: while it runs the decoder is at some place of  *)
(* the stream, and between two chunks it holds no whole line.              *)
(***************************************************************************)
DecoderInv ==
  /\ input \in Seq(Octets) /\ fed \in 0..Len(input)
  /\ dpc \in {"read", "scan", "closed", "failed"}
  /\ dpc \in {"read", "scan"} => \E p \in 0..fed : Held(input, fed, buf, lines, events, p)
  /\ dpc = "read" => FindNewline(buf) = {}
  /\ ChunkingIrrelevant

\* Nothing was read at first.
LEMMA DecoderStart == DecoderInit => DecoderInv
<1> SUFFICES ASSUME DecoderInit PROVE DecoderInv
  OBVIOUS
<1>1. input \in Seq(Octets)
  BY DEF DecoderInit, Streams, BoundedSeq, SeqOf
<1>2. fed = 0 /\ fed \in 0..Len(input) /\ 0 \in 0..fed
  BY <1>1 DEF DecoderInit
<1>3. SubSeq(input, 0 + 1, 0) = << >>
  BY SubSeqEmpty
<1>4. Tracks(input, 0, << >>, << >>) /\ Tracks(Whole(input), 0, << >>, << >>)
  BY <1>1, TracksStart, WholeIs
<1>5. Held(input, fed, buf, lines, events, 0)
  BY <1>2, <1>3, <1>4 DEF Held, DecoderInit
<1>6. FindNewline(<< >>) = {}
  BY DEF FindNewline, Candidates, LfAt, CrAt, Find
<1> QED BY <1>1, <1>2, <1>5, <1>6 DEF DecoderInv, DecoderInit, ChunkingIrrelevant

\* Each step keeps the decoder at a place of the stream.
LEMMA DecoderStep == DecoderInv /\ [DecoderNext]_decoder => DecoderInv'
<1> SUFFICES ASSUME DecoderInv, [DecoderNext]_decoder PROVE DecoderInv'
  OBVIOUS
<1>0. input \in Seq(Octets) /\ fed \in Nat /\ fed <= Len(input) /\ Len(input) \in Nat
  BY DEF DecoderInv
<1>1. ASSUME NEW n \in 1..MaxLen, Feed(n) PROVE DecoderInv'
  <2>1. /\ dpc = "read" /\ dpc' = "scan" /\ fed' = fed + n /\ fed + n <= Len(input)
        /\ buf' = buf \o SubSeq(input, fed + 1, fed + n)
        /\ input' = input /\ lines' = lines /\ events' = events
    BY <1>1 DEF Feed
  <2>2. PICK p \in 0..fed : Held(input, fed, buf, lines, events, p)
    BY <2>1 DEF DecoderInv
  <2>3. fed + n \in Nat /\ p \in Nat /\ p <= fed /\ fed < fed + n /\ fed <= fed + n
    BY <1>0
  <2>4. buf' = SubSeq(input, p + 1, fed + n)
    <3>1. buf = SubSeq(input, p + 1, fed)
      BY <2>2 DEF Held
    <3> QED BY <1>0, <2>1, <2>3, <3>1, CutJoin
  <2>5. Held(input, fed + n, buf', lines, events, p)
    <3>1. p < fed => p < fed + n
      BY <1>0, <2>3
    <3> QED BY <2>2, <2>4, <3>1 DEF Held
  <2>6. p \in 0..fed' /\ fed' \in 0..Len(input')
    BY <1>0, <2>1, <2>3
  <2> QED BY <1>0, <2>1, <2>5, <2>6 DEF DecoderInv, ChunkingIrrelevant
<1>2. ASSUME DecodeLine PROVE DecoderInv'
  <2>1. dpc = "scan" /\ dpc' = "scan" /\ input' = input /\ fed' = fed
    BY <1>2 DEF DecodeLine
  <2>2. PICK nl \in FindNewline(buf) :
          /\ buf' = SubSeq(buf, nl.next, Len(buf))
          /\ lines' = NextLines(lines, SubSeq(buf, 1, nl.end - 1))
          /\ events' = NextEvents(events, lines, SubSeq(buf, 1, nl.end - 1))
    BY <1>2 DEF DecodeLine, NextLines, NextEvents, Emit, EmitTo
  <2>3. PICK p \in 0..fed : Held(input, fed, buf, lines, events, p)
    BY <2>1 DEF DecoderInv
  <2>4. p \in Nat /\ p <= fed
    BY <1>0
  <2>5. \E e \in 0..fed : Held(input, fed, buf', lines', events', e)
    BY <1>0, <2>2, <2>3, <2>4, HeldLine
  <2> QED BY <2>1, <2>5 DEF DecoderInv, ChunkingIrrelevant
<1>3. ASSUME FeedReturns PROVE DecoderInv'
  BY <1>3 DEF FeedReturns, DecoderInv, ChunkingIrrelevant
<1>4. ASSUME Close PROVE DecoderInv'
  <2>1. /\ dpc = "read" /\ fed = Len(input) /\ input' = input /\ fed' = fed
        /\ FindNewline(buf) = {}
    BY <1>4 DEF Close, DecoderInv
  <2>2. PICK p \in 0..fed : Held(input, fed, buf, lines, events, p)
    BY <2>1 DEF DecoderInv
  <2>3. p \in Nat /\ p <= fed
    BY <1>0
  <2>4. CASE HalfChar(buf) /\ dpc' = "failed"
    <3>1. buf = SubSeq(input, p + 1, fed)
      BY <2>2 DEF Held
    <3>2. /\ buf \in Seq(Octets) /\ Len(buf) = fed - p
          /\ \A k \in 1..(fed - p) : buf[k] = input[p + k]
      BY <1>0, <2>3, <3>1
    <3>3. Len(buf) # 0
      BY <2>4, <3>2 DEF HalfChar
    <3>4. fed - p \in 1..(fed - p) /\ p + (fed - p) = fed /\ fed # 0
      BY <1>0, <2>3, <3>2, <3>3
    <3>5. Last(buf) = Last(input) /\ input # << >>
      BY <1>0, <2>1, <3>2, <3>4 DEF Last
    <3>6. HalfChar(input)
      BY <2>4, <3>5 DEF HalfChar
    <3> QED BY <1>0, <2>1, <2>4, <3>6 DEF DecoderInv, ChunkingIrrelevant
  <2>5. CASE dpc' = "closed" /\ events' = Emit(IF buf = << >> THEN lines ELSE Append(lines, LastLine(buf)))
    <3>1. EmitTo(events, IF buf = << >> THEN lines ELSE Append(lines, LastLine(buf))) = EventsOf(Whole(input))
      BY <1>0, <2>1, <2>2, <2>3, EofTaken
    <3>2. events' = EventsOf(input \o <<"LF", "LF">>)
      BY <2>5, <3>1 DEF Emit, EmitTo, Whole
    <3> QED BY <1>0, <2>1, <2>5, <3>2 DEF DecoderInv, ChunkingIrrelevant
  <2> QED BY <1>4, <2>4, <2>5 DEF Close
<1>5. ASSUME UNCHANGED decoder PROVE DecoderInv'
  BY <1>5 DEF decoder, DecoderInv, ChunkingIrrelevant
<1> QED BY <1>1, <1>2, <1>3, <1>4, <1>5 DEF DecoderNext, DecoderOver

\* Hence it always is.
LEMMA DecoderAlways == DecoderSpec => []DecoderInv
<1> QED BY DecoderStart, DecoderStep, PTL DEF DecoderSpec

\* SSEDecoder (http_client.py:96-178): for a stream of any length and any chunks
\* it is cut into, a decoder that was closed gave the events of the whole stream,
\* and one that failed met half a character at EOF.
THEOREM StreamDecoded == DecoderSpec => []ChunkingIrrelevant
<1>1. DecoderInv => ChunkingIrrelevant
  BY DEF DecoderInv
<1> QED BY <1>1, DecoderAlways, PTL

\* SSEDecoder.feed (http_client.py:109-134): for a stream of any length, after each
\* chunk exactly the events whose end was seen are out, in the order of the stream.
THEOREM DecodedInTime == DecoderSpec => []EventsPrompt
<1>1. ASSUME DecoderInv PROVE EventsPrompt
  <2> SUFFICES ASSUME dpc = "read"
               PROVE  events = SubSeq(EventsOf(input), 1,
                        Cardinality({b \in EventEnds(input) : b < fed \/ (b = fed /\ input[b] = "LF")}))
    BY DEF EventsPrompt
  <2>0. input \in Seq(Octets) /\ fed \in Nat /\ fed <= Len(input) /\ FindNewline(buf) = {}
    BY <1>1 DEF DecoderInv
  <2>1. PICK p \in 0..fed : Held(input, fed, buf, lines, events, p)
    BY <1>1 DEF DecoderInv
  <2>2. p \in Nat /\ p <= fed
    BY <2>0
  <2>3. \A b \in EventEnds(input) : (b < fed \/ (b = fed /\ input[b] = "LF")) <=> b <= p
    <3> SUFFICES ASSUME NEW b \in EventEnds(input)
                 PROVE  (b < fed \/ (b = fed /\ input[b] = "LF")) <=> b <= p
      OBVIOUS
    <3>1. b \in LineEnds(input)
      BY <2>0, EndsArePlaces
    <3> QED BY <2>0, <2>1, <2>2, <3>1, SeenUpTo
  <2>4. {b \in EventEnds(input) : b < fed \/ (b = fed /\ input[b] = "LF")} = Out(input, p)
    BY <2>3 DEF Out
  <2> DEFINE S == EventEnds(input)
             T == Out(input, p)
             f == [b \in EventEnds(input) |-> DataOf(input, b)]
             g == [b \in Out(input, p) |-> DataOf(input, b)]
  <2>5. S \in SUBSET Nat /\ IsFiniteSet(S)
    BY <2>0, EndsArePlaces, EndsFinite
  <2>6. T = UpTo(S, p) /\ Agree(UpTo(S, p), f, g)
    BY DEF Out, UpTo, Agree
  <2>7. InOrder(T, g) = SubSeq(InOrder(S, f), 1, Cardinality(T))
    <3> HIDE DEF S, T, f, g
    <3> QED BY <2>2, <2>5, <2>6, InOrderPrefix
  <2>8. events = Seen(input, p)
    BY <2>1 DEF Held, Tracks
  <2> QED BY <2>4, <2>7, <2>8 DEF Seen, EventsOf
<1> QED BY <1>1, DecoderAlways, PTL

(***************************************************************************)
(* The receipt (verify_files.py, guard.py).                                *)
(***************************************************************************)
USE ReceiptAssumption

VerifierSteps == {"idle", "next", "hash", "restat", "write", "replace", "print", "done", "failed"}
CheckerSteps == {"idle", "next", "hash", "restat", "pass", "fail", "refused"}

ReceiptType ==
  /\ file \in [Files -> [bytes : Bytes, stat : Nat]]
  /\ changes \in Nat /\ root \in Nat /\ rootStat \in Nat /\ verifies \in Nat
  /\ vpc \in VerifierSteps /\ vfile \in Files \cup {NoFile} /\ vstat \in Nat
  /\ rows \in [Files -> Nat] /\ receipt \in [id : Nat, root : Nat, rows : [Files -> Nat]]
  /\ vpc \in {"hash", "restat"} => vfile \in Files
  /\ kpc \in CheckerSteps /\ kleft \subseteq Files
  /\ doc \in [id : Nat, root : Nat, rows : [Files -> Nat]] /\ start \in {"yes", "no"}

\* Stats are no higher than the changes so far, and never 0, which stands for a
\* file that is not recorded.
StatInv == vstat <= changes + 1 /\ \A f \in Files : file[f].stat \in 1..(changes + 1)

\* The stats m are of the past, and those that are still there are of good files.
Vouches(m) ==
  \A f \in Files : m[f] <= changes + 1 /\ (file[f].stat = m[f] => file[f].bytes = "good")

TruthInv == Vouches(rows) /\ Vouches(receipt.rows) /\ Vouches(doc.rows)

\* What was hashed is what is there, if the stat is still the first one.
HashedInv == vpc = "restat" /\ file[vfile].stat = vstat => file[vfile].bytes = vgot

VerifierInv == ReceiptType /\ StatInv /\ TruthInv /\ HashedInv

\* Nothing is recorded at first.
LEMMA InitVerifier == ReceiptInit => VerifierInv
BY DEF ReceiptInit, VerifierInv, ReceiptType, StatInv, TruthInv, Vouches, HashedInv, NoRows, NoDoc,
       Bytes, VerifierSteps, CheckerSteps

\* A change takes a file out of every document.
LEMMA ChangeVerifier ==
  ASSUME VerifierInv, NEW f \in Files, NEW b \in Bytes, NEW how, Change(f, b, how)
  PROVE  VerifierInv'
<1> USE DEF VerifierInv, Change, verifier, checker
<1>1. ReceiptType' BY DEF ReceiptType
<1>2. StatInv' BY DEF StatInv, ReceiptType
<1>3. Vouches(rows)' BY DEF TruthInv, Vouches, ReceiptType
<1>4. Vouches(receipt.rows)' /\ Vouches(doc.rows)' BY DEF TruthInv, Vouches, ReceiptType
<1>5. HashedInv' BY DEF HashedInv, ReceiptType, StatInv
<1> QED BY <1>1, <1>2, <1>3, <1>4, <1>5 DEF TruthInv

\* Another file is in no document.
LEMMA OtherVerifier ==
  ASSUME VerifierInv, ChangeOther
  PROVE  VerifierInv'
BY DEF VerifierInv, ChangeOther, ReceiptType, StatInv, TruthInv, Vouches, HashedInv, verifier, checker

\* The verifier records a stat only for a file it found good under it.
LEMMA VerifyVerifier ==
  ASSUME VerifierInv, Verify
  PROVE  VerifierInv'
<1> USE DEF VerifierInv, ReceiptType, VerifyGoes, tree, checker, VerifierSteps
<1>1. CASE VerifyBegin
  BY <1>1 DEF VerifyBegin, StatInv, TruthInv, Vouches, HashedInv, NoRows
<1>2. CASE \E f \in Files : VerifyStat(f)
  BY <1>2 DEF VerifyStat, StatInv, TruthInv, Vouches, HashedInv
<1>3. CASE VerifyHash
  BY <1>3 DEF VerifyHash, StatInv, TruthInv, Vouches, HashedInv
<1>4. CASE VerifyRestat
  <2>1. ReceiptType' /\ StatInv' BY <1>4 DEF VerifyRestat, StatInv
  <2>2. Vouches(rows)' BY <1>4 DEF VerifyRestat, StatInv, TruthInv, Vouches, HashedInv, UnchangedSince
  <2>3. TruthInv' /\ HashedInv' BY <1>4, <2>2 DEF VerifyRestat, TruthInv, Vouches, HashedInv
  <2> QED BY <2>1, <2>3
<1>5. CASE WriteTemporary \/ PrintDigest \/ VerifierKilled
  BY <1>5 DEF WriteTemporary, PrintDigest, VerifierKilled, StatInv, TruthInv, Vouches, HashedInv
<1>6. CASE ReplaceReceipt
  BY <1>6 DEF ReplaceReceipt, StatInv, TruthInv, Vouches, HashedInv
<1> QED BY <1>1, <1>2, <1>3, <1>4, <1>5, <1>6 DEF Verify

\* A check changes nothing but its own state.
LEMMA CheckVerifier ==
  ASSUME VerifierInv, Check
  PROVE  VerifierInv'
<1> USE DEF VerifierInv, ReceiptType, CheckGoes, tree, verifier, CheckerSteps
<1>1. CASE \E k \in {"guard", "recheck"} : CheckBegin(k)
  BY <1>1 DEF CheckBegin, StatInv, TruthInv, Vouches, HashedInv
<1>2. CASE \E f \in Files : CheckStat(f)
  BY <1>2 DEF CheckStat, CheckDone, StatInv, TruthInv, Vouches, HashedInv
<1>3. CASE CheckHash \/ CheckRestat
  BY <1>3 DEF CheckHash, CheckRestat, CheckDone, StatInv, TruthInv, Vouches, HashedInv
<1> QED BY <1>1, <1>2, <1>3 DEF Check

\* Every step keeps the invariant.
LEMMA NextVerifier == VerifierInv /\ [ReceiptNext]_receiptVars => VerifierInv'
<1> SUFFICES ASSUME VerifierInv, [ReceiptNext]_receiptVars PROVE VerifierInv'
  OBVIOUS
<1>1. CASE UNCHANGED receiptVars
  BY <1>1 DEF VerifierInv, ReceiptType, StatInv, TruthInv, Vouches, HashedInv,
              receiptVars, tree, verifier, checker
<1> QED BY <1>1, ChangeVerifier, OtherVerifier, VerifyVerifier, CheckVerifier DEF ReceiptNext

\* A receipt never vouches for other bytes than those of the source lock, for any
\* set of files and any changes between any two steps (verify_files.py:237-272).
THEOREM Truthful == ReceiptSpec => []ReceiptTruthful
<1>1. VerifierInv => ReceiptTruthful
  BY DEF VerifierInv, TruthInv, Vouches, ReceiptTruthful
<1> QED BY <1>1, InitVerifier, NextVerifier, PTL DEF ReceiptSpec

(***************************************************************************)
(* The checks implement Attest.                                            *)
(***************************************************************************)
\* A check that began on a tree that did not match still has a file to find that
\* does not; the file it hashes had the recorded stat.
CheckerInv ==
  /\ kpc \in {"next", "hash", "restat"} /\ start = "no" =>
       \E f \in kleft : file[f].stat # doc.rows[f]
  /\ kpc \in {"hash", "restat"} => kfile \in kleft /\ kstat = doc.rows[kfile]

\* No check is under way at first.
LEMMA InitChecker == ReceiptInit => CheckerInv
BY DEF ReceiptInit, CheckerInv

\* Every step keeps the invariant.
LEMMA NextChecker == VerifierInv /\ CheckerInv /\ [ReceiptNext]_receiptVars => CheckerInv'
<1> SUFFICES ASSUME VerifierInv, CheckerInv, [ReceiptNext]_receiptVars PROVE CheckerInv'
  OBVIOUS
<1> USE DEF VerifierInv, ReceiptType, CheckerInv
<1>1. CASE UNCHANGED receiptVars
  BY <1>1 DEF receiptVars, tree, verifier, checker
<1>2. CASE ChangeOther \/ \E f \in Files, b \in Bytes, how \in {"place", "name"} : Change(f, b, how)
  BY <1>2 DEF Change, ChangeOther, checker, TruthInv, Vouches
<1>3. CASE Verify
  BY <1>3 DEF Verify, VerifyGoes, VerifyBegin, VerifyStat, VerifyHash, VerifyRestat, WriteTemporary,
              ReplaceReceipt, PrintDigest, VerifierKilled, tree, checker
<1>4. CASE \E k \in {"guard", "recheck"} : CheckBegin(k)
  BY <1>4 DEF CheckBegin, Matches, tree
<1>5. CASE \E f \in Files : CheckStat(f)
  BY <1>5 DEF CheckStat, CheckGoes, CheckDone, StatMatches, tree
<1>6. CASE CheckHash
  BY <1>6 DEF CheckHash, CheckGoes, tree
<1>7. CASE CheckRestat
  BY <1>7 DEF CheckRestat, CheckGoes, CheckDone, UnchangedSince, tree
<1> QED BY <1>1, <1>2, <1>3, <1>4, <1>5, <1>6, <1>7 DEF ReceiptNext, Check

\* A change can only end a match.
LEMMA ChangeDrifts ==
  ASSUME VerifierInv, NEW f \in Files, NEW b \in Bytes, NEW how, Change(f, b, how)
  PROVE  ~Matches(doc)' /\ UNCHANGED <<kpc, doc, start>>
BY DEF VerifierInv, ReceiptType, TruthInv, Vouches, Change, Matches, checker

\* The beginning of a check is the beginning of an attestation, or a refusal.
LEMMA BeginAttests ==
  ASSUME VerifierInv, NEW k \in {"guard", "recheck"}, CheckBegin(k)
  PROVE  A!Begin \/ A!Refuse
BY DEF VerifierInv, ReceiptType, CheckerSteps, CheckBegin, Matches, tree, A!Begin, A!Refuse

\* A step of a running check goes on, passes a tree that matched at its beginning,
\* or fails one that does not match.
LEMMA RunAttests ==
  ASSUME VerifierInv, CheckerInv, CheckHash \/ CheckRestat \/ \E f \in Files : CheckStat(f)
  PROVE  A!Pass \/ A!Fail \/ UNCHANGED A!vars
<1> USE DEF VerifierInv, ReceiptType, CheckerInv, CheckGoes, tree, Matches, A!Pass, A!Fail, A!vars
<1>1. CASE \E f \in Files : CheckStat(f)
  BY <1>1 DEF CheckStat, CheckDone, StatMatches, TruthInv, Vouches
<1>2. CASE CheckHash
  BY <1>2 DEF CheckHash, TruthInv, Vouches
<1>3. CASE CheckRestat
  BY <1>3 DEF CheckRestat, CheckDone, UnchangedSince
<1> QED BY <1>1, <1>2, <1>3

\* Both receipt checks, for any set of files that change at any moment, implement
\* module Attest: they pass only if every file matched when they began, and fail
\* only if one does not match (verify_files.py:348-384,
\* guard.py:143-205).
THEOREM ChecksAttest == ReceiptSpec => CheckIsAttest
<1>1. ReceiptInit => A!Init
  BY DEF ReceiptInit, A!Init
<1>2. VerifierInv /\ CheckerInv /\ [ReceiptNext]_receiptVars => [A!Next]_(A!vars)
  <2> SUFFICES ASSUME VerifierInv, CheckerInv, [ReceiptNext]_receiptVars
               PROVE  A!Next \/ UNCHANGED A!vars
    OBVIOUS
  <2>1. CASE UNCHANGED receiptVars
    BY <2>1 DEF receiptVars, tree, verifier, checker, A!vars, Matches
  <2>2. CASE \E f \in Files, b \in Bytes, how \in {"place", "name"} : Change(f, b, how)
    BY <2>2, ChangeDrifts DEF A!Next, A!Drift, A!vars
  <2>3. CASE Verify
    BY <2>3 DEF Verify, VerifyGoes, VerifyBegin, VerifyStat, VerifyHash, VerifyRestat, WriteTemporary,
                ReplaceReceipt, PrintDigest, VerifierKilled, tree, checker, A!vars, Matches
  <2>4. CASE Check
    BY <2>4, BeginAttests, RunAttests DEF Check, A!Next
  <2>5. CASE ChangeOther
    BY <2>5 DEF ChangeOther, checker, A!vars, Matches
  <2> QED BY <2>1, <2>2, <2>3, <2>4, <2>5 DEF ReceiptNext
<1> QED BY <1>1, <1>2, InitVerifier, NextVerifier, InitChecker, NextChecker, PTL
        DEF ReceiptSpec, CheckIsAttest, A!Spec
=============================================================================
