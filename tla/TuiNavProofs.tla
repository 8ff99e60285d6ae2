---------------------------- MODULE TuiNavProofs ----------------------------
(***************************************************************************)
(* Proofs about navigation: for any lines, rows, groups, scrollback, size  *)
(* of the screen and number of keys.                                       *)
(*                                                                         *)
(* Everything rests on how the rows are laid out: they are a stretch of    *)
(* the rows of all records (Stream) that begins with the first row of a    *)
(* record, so that a record and an offset name one row, and an arrival     *)
(* only moves all rows up by the same number.                              *)
(***************************************************************************)
EXTENDS TuiNav, FiniteSetTheorems, TLAPS

-----------------------------------------------------------------------------
(* Numbers and sets of numbers.                                             *)

\* A nonempty set of naturals has a least element.
LEMMA LeastElement ==
  ASSUME NEW T \in SUBSET Nat, T # {}
  PROVE  \E m \in T : \A k \in T : m <= k
<1> DEFINE Less == {p \in Nat \X Nat : p[1] < p[2]}
<1>1. IsWellFoundedOn(Less, Nat)
  BY NatLessThanWellFounded, Zenon DEF OpToRel
<1>2. PICK m \in T : \A k \in T : ~ (<<k, m>> \in Less)
  <2> HIDE DEF Less
  <2> QED BY <1>1, WFMin
<1>3. ASSUME NEW k \in T
      PROVE  m <= k
  <2>1. <<k, m>> \notin Less /\ <<k, m>> \in Nat \X Nat
    BY <1>2
  <2>2. ~ (<<k, m>>[1] < <<k, m>>[2])
    BY <2>1
  <2>3. k \in Nat /\ m \in Nat
    OBVIOUS
  <2>4. QED
    BY <2>2, <2>3
<1>4. QED
  BY <1>3

\* Induction up to n, over a set instead of a predicate.
LEMMA UpTo ==
  ASSUME NEW n \in Nat, NEW T, 0 \in T,
         \A i \in 0 .. n - 1 : i \in T => i + 1 \in T
  PROVE  \A i \in 0 .. n : i \in T
<1> DEFINE Out == {i \in 0 .. n : i \notin T}
<1> SUFFICES ASSUME Out # {} PROVE FALSE
  OBVIOUS
<1>1. PICK m \in Out : \A k \in Out : m <= k
  <2>1. Out \in SUBSET Nat
    OBVIOUS
  <2> HIDE DEF Out
  <2>2. QED
    BY <2>1, LeastElement
<1>2. m \in 0 .. n /\ m \notin T /\ m # 0
  OBVIOUS
<1>3. m - 1 \in 0 .. n - 1 /\ m - 1 \notin Out
  BY <1>1, <1>2
<1>4. m - 1 \in T
  BY <1>3
<1>5. (m - 1) + 1 = m
  BY <1>2
<1>6. QED
  BY <1>2, <1>3, <1>4, <1>5

\* Min and Max are what they are called.
LEMMA MinIs ==
  ASSUME NEW S \in SUBSET Nat, S # {}
  PROVE  Min(S) \in S /\ \A x \in S : Min(S) <= x
BY LeastElement DEF Min

LEMMA MaxIs ==
  ASSUME NEW n \in Nat, NEW S \in SUBSET (0 .. n), S # {}
  PROVE  Max(S) \in S /\ \A x \in S : x <= Max(S)
<1> DEFINE T == {k \in 0 .. n : n - k \in S}
<1>1. T \in SUBSET Nat
  OBVIOUS
<1>2. T # {}
  <2>1. PICK x \in S : TRUE
    OBVIOUS
  <2>2. n - x \in 0 .. n /\ n - (n - x) = x
    OBVIOUS
  <2>3. QED
    BY <2>1, <2>2
<1>3. PICK m \in T : \A k \in T : m <= k
  <2> HIDE DEF T
  <2>1. QED
    BY <1>1, <1>2, LeastElement
<1>4. ASSUME NEW x \in S
      PROVE  x <= n - m
  <2>1. x \in 0 .. n /\ n - x \in 0 .. n /\ n - (n - x) = x
    OBVIOUS
  <2>2. n - x \in T
    BY <2>1
  <2>3. m <= n - x
    BY <1>3, <2>2
  <2>4. QED
    BY <2>1, <2>3
<1>5. n - m \in S /\ \A x \in S : n - m >= x
  BY <1>3, <1>4
<1>6. QED
  BY <1>5 DEF Max

LEMMA MinOfTwo ==
  ASSUME NEW a \in Int, NEW b \in Int
  PROVE  Min({a, b}) = IF a <= b THEN a ELSE b
BY DEF Min

LEMMA MaxOfTwo ==
  ASSUME NEW a \in Int, NEW b \in Int
  PROVE  Max({a, b}) = IF a <= b THEN b ELSE a
BY DEF Max

\* A set of rows is finite.
LEMMA RowsAreFinite ==
  ASSUME NEW n \in Nat, NEW S \in SUBSET (1 .. n)
  PROVE  /\ IsFiniteSet(S)
         /\ Cardinality(S) \in Nat
         /\ \A T \in SUBSET S : Cardinality(T) \in Nat /\ Cardinality(T) <= Cardinality(S)
         /\ Cardinality(S) = 0 <=> S = {}
<1>1. IsFiniteSet(1 .. n)
  BY FS_Interval
<1>2. IsFiniteSet(S)
  BY <1>1, FS_Subset
<1>3. ASSUME NEW T \in SUBSET S
      PROVE  Cardinality(T) \in Nat /\ Cardinality(T) <= Cardinality(S)
  BY <1>2, FS_Subset, FS_CardinalityType
<1>4. Cardinality(S) \in Nat
  BY <1>2, FS_CardinalityType
<1>5. Cardinality(S) = 0 <=> S = {}
  BY <1>2, FS_EmptySet
<1>6. QED
  BY <1>2, <1>3, <1>4, <1>5

\* There are at most b - a rows from a on and before b.
LEMMA FewBetween ==
  ASSUME NEW n \in Nat, NEW S \in SUBSET (1 .. n), NEW a \in Nat, NEW b \in Nat, a <= b
  PROVE  Cardinality({j \in S : a <= j /\ j < b}) <= b - a
<1> DEFINE T == {j \in S : a <= j /\ j < b}
<1>1. IsFiniteSet(a .. b - 1) /\ Cardinality(a .. b - 1) = b - a
  <2>1. b - 1 \in Int /\ a \in Int
    OBVIOUS
  <2>2. IsFiniteSet(a .. b - 1) /\ Cardinality(a .. b - 1) = IF a > b - 1 THEN 0 ELSE (b - 1) - a + 1
    BY <2>1, FS_Interval
  <2>3. QED
    BY <2>2
<1>2. T \subseteq a .. b - 1
  <2>1. ASSUME NEW j \in S, a <= j, j < b
        PROVE  j \in a .. b - 1
    <3>1. j \in 1 .. n
      OBVIOUS
    <3>2. QED
      BY <2>1, <3>1
  <2>2. QED
    BY <2>1
<1> HIDE DEF T
<1>3. Cardinality(T) <= Cardinality(a .. b - 1)
  BY <1>1, <1>2, FS_Subset
<1>4. QED
  BY <1>1, <1>3 DEF T

\* Nth finds an element that has as many up to it as was asked for.
LEMMA NthIs ==
  ASSUME NEW n \in Nat, NEW S \in SUBSET (1 .. n), NEW k \in 1 .. Cardinality(S)
  PROVE  Nth(S, k) \in S /\ Cardinality({j \in S : j <= Nth(S, k)}) = k
<1> DEFINE Rank(i) == Cardinality({j \in S : j <= i})
           T == {i \in 0 .. n : Rank(i) >= k}
<1>1. \A i \in 0 .. n : Rank(i) \in Nat
  <2>1. \A i \in 0 .. n : {j \in S : j <= i} \in SUBSET (1 .. n)
    OBVIOUS
  <2>2. QED
    BY <2>1, RowsAreFinite
<1>0. \A j \in S : j \in 1 .. n
  OBVIOUS
<1>2. Rank(n) = Cardinality(S) /\ Rank(0) = 0
  <2>1. \A j \in S : j <= n /\ ~ (j <= 0)
    BY <1>0
  <2>3. {j \in S : j <= n} = S /\ {j \in S : j <= 0} = {}
    BY <2>1
  <2>2. QED
    BY <2>3, FS_EmptySet
<1>3. Cardinality(S) \in Nat
  BY RowsAreFinite
<1>4. PICK m \in T : \A i \in T : m <= i
  <2>1. T \in SUBSET Nat /\ n \in T
    BY <1>2, <1>3
  <2> HIDE DEF T
  <2>2. QED
    BY <2>1, LeastElement
<1>5. m \in 0 .. n /\ Rank(m) >= k /\ m # 0
  BY <1>2, <1>4
<1>6. m - 1 \in 0 .. n /\ Rank(m - 1) < k
  <2>1. m - 1 \in 0 .. n /\ ~ (m <= m - 1)
    BY <1>5
  <2>2. ~ (Rank(m - 1) >= k)
    <3>1. m - 1 \notin T
      <4> HIDE DEF T
      <4>1. QED
        BY <1>4, <2>1
    <3> HIDE DEF Rank
    <3>2. QED
      BY <2>1, <3>1
  <2> HIDE DEF Rank, T
  <2>3. QED
    BY <2>1, <2>2, <1>1, <1>3
<1>7. Rank(m) = IF m \in S THEN Rank(m - 1) + 1 ELSE Rank(m - 1)
  <2>1. {j \in S : j <= m} = IF m \in S THEN {j \in S : j <= m - 1} \union {m}
                             ELSE {j \in S : j <= m - 1}
    <3>1. \A j \in S : j <= m <=> j <= m - 1 \/ j = m
      BY <1>0, <1>5
    <3>2. QED
      BY <3>1, <1>5
  <2>2. IsFiniteSet({j \in S : j <= m - 1}) /\ m \notin {j \in S : j <= m - 1}
    <3>1. {j \in S : j <= m - 1} \in SUBSET (1 .. n) /\ ~ (m <= m - 1)
      <4>1. m \in 0 .. n
        BY <1>5
      <4>2. {j \in S : j <= m - 1} \in SUBSET (1 .. n)
        OBVIOUS
      <4>3. ~ (m <= m - 1)
        BY <4>1
      <4>4. QED
        BY <4>2, <4>3
    <3>2. IsFiniteSet({j \in S : j <= m - 1})
      BY <3>1, RowsAreFinite
    <3>3. m \notin {j \in S : j <= m - 1}
      BY <3>1
    <3>4. QED
      BY <3>2, <3>3, Zenon
  <2>3. Cardinality({j \in S : j <= m - 1} \union {m}) = Cardinality({j \in S : j <= m - 1}) + 1
    BY <2>2, FS_AddElement
  <2>4. QED
    BY <2>1, <2>3
<1>8. m \in S /\ Rank(m) = k
  <2> HIDE DEF Rank, T
  <2>1. QED
    BY <1>1, <1>3, <1>5, <1>6, <1>7
<1>9. QED
  BY <1>8, Zenon DEF Nth

\* The first rows of a set are all of them if they are few.
LEMMA FirstNIsAll ==
  ASSUME NEW n \in Nat, NEW S \in SUBSET (1 .. n), NEW c \in Nat, Cardinality(S) <= c
  PROVE  FirstN(S, c) = S
<1>1. SUFFICES ASSUME NEW i \in S
               PROVE  Cardinality({j \in S : j < i}) < c
  BY DEF FirstN
<1>2. IsFiniteSet(S) /\ Cardinality(S) \in Nat
  BY RowsAreFinite
<1>3. IsFiniteSet(S \ {i}) /\ Cardinality(S \ {i}) = Cardinality(S) - 1
  BY <1>2, FS_RemoveElement
<1>4. Cardinality({j \in S : j < i}) <= Cardinality(S \ {i})
  <2>1. {j \in S : j < i} \subseteq S \ {i}
    OBVIOUS
  <2>2. QED
    BY <1>3, <2>1, FS_Subset
<1>5. Cardinality({j \in S : j < i}) \in Nat
  BY RowsAreFinite
<1>6. QED
  BY <1>2, <1>3, <1>4, <1>5

\* LastN takes a tail of a set, of at most c elements; of none only if there are
\* none to take.
LEMMA LastNIsATail ==
  ASSUME NEW n \in Nat, NEW S \in SUBSET (1 .. n), NEW c \in Nat \ {0}
  PROVE  /\ LastN(S, c) \in SUBSET S
         /\ \A i \in LastN(S, c), j \in S : i <= j => j \in LastN(S, c)
         /\ Cardinality(LastN(S, c)) <= c
         /\ S # {} => LastN(S, c) # {}
         /\ Cardinality(S) <= c => LastN(S, c) = S
<1> DEFINE L == LastN(S, c)
           After(i) == {j \in S : j > i}
<1>1. L = {i \in S : Cardinality(After(i)) < c}
  BY DEF LastN
<1>2. \A i \in S : /\ After(i) \in SUBSET S /\ IsFiniteSet(After(i))
                   /\ Cardinality(After(i)) \in Nat
  <2>1. \A i \in S : After(i) \in SUBSET S /\ After(i) \in SUBSET (1 .. n)
    OBVIOUS
  <2> HIDE DEF After
  <2>2. QED
    BY <2>1, RowsAreFinite
<1>3. ASSUME NEW i \in L, NEW j \in S, i <= j
      PROVE  j \in L
  <2>1. i \in S /\ After(j) \in SUBSET After(i)
    <3>1. i \in S /\ i \in 1 .. n /\ j \in 1 .. n
      BY <1>1
    <3>2. \A k \in S : k \in 1 .. n
      OBVIOUS
    <3>3. \A k \in S : k > j => k > i
      BY <1>3, <3>1, <3>2
    <3>4. QED
      BY <3>1, <3>3
  <2>2. Cardinality(After(j)) <= Cardinality(After(i))
    BY <1>2, <2>1, FS_Subset
  <2>3. Cardinality(After(i)) < c
    BY <1>1
  <2> HIDE DEF After
  <2>4. QED
    BY <1>1, <1>2, <2>1, <2>2, <2>3
<1>4. Cardinality(L) <= c
  <2>1. CASE L = {}
    BY <2>1, FS_EmptySet
  <2>2. CASE L # {}
    <3>1. L \in SUBSET Nat
      <4>1. L \in SUBSET S /\ S \in SUBSET Nat
        BY <1>1
      <4> HIDE DEF L
      <4>2. QED
        BY <4>1
    <3>2. PICK m \in L : \A i \in L : m <= i
      <4> HIDE DEF L
      <4>1. QED
        BY <2>2, <3>1, LeastElement
    <3>3. L \subseteq After(m) \union {m}
      <4>1. ASSUME NEW i \in L
            PROVE  i \in S /\ (i > m \/ i = m)
        <5>1. i \in S /\ i \in Nat /\ m \in Nat /\ m <= i
          BY <1>1, <3>1, <3>2
        <5>2. QED
          BY <5>1
      <4> HIDE DEF L
      <4>2. QED
        BY <4>1
    <3>4. m \in S /\ Cardinality(After(m)) < c
      <4> HIDE DEF After
      <4>1. QED
        BY <1>1
    <3> HIDE DEF L, After
    <3>5. /\ IsFiniteSet(After(m) \union {m})
          /\ Cardinality(After(m) \union {m}) <= Cardinality(After(m)) + 1
          /\ Cardinality(After(m) \union {m}) \in Nat
      <4> DEFINE A == After(m)
      <4>1. IsFiniteSet(A) /\ Cardinality(A) \in Nat
        BY <1>2, <3>4
      <4> HIDE DEF A
      <4>2. /\ IsFiniteSet(A \union {m})
            /\ Cardinality(A \union {m}) = IF m \in A THEN Cardinality(A) ELSE Cardinality(A) + 1
        BY <4>1, FS_AddElement
      <4>3. QED
        BY <4>1, <4>2 DEF A
    <3>6. Cardinality(L) <= Cardinality(After(m) \union {m}) /\ Cardinality(L) \in Nat
      BY <3>3, <3>5, FS_Subset, FS_CardinalityType
    <3>7. QED
      BY <1>2, <3>4, <3>5, <3>6
  <2>3. QED
    BY <2>1, <2>2
<1>5. ASSUME S # {}
      PROVE  L # {}
  <2>1. S \in SUBSET (0 .. n)
    OBVIOUS
  <2>2. Max(S) \in S /\ \A x \in S : x <= Max(S)
    BY <1>5, <2>1, MaxIs
  <2> DEFINE m == Max(S)
  <2>3. m \in S /\ \A x \in S : x <= m
    BY <2>2
  <2> HIDE DEF m
  <2>4. After(m) = {}
    <3>1. \A x \in S : ~ (x > m)
      <4>1. \A x \in S : x \in Nat
        OBVIOUS
      <4>2. QED
        BY <2>3, <4>1
    <3>2. QED
      BY <3>1
  <2>5. Cardinality(After(m)) = 0
    BY <2>4, FS_EmptySet
  <2>6. QED
    BY <1>1, <2>3, <2>5
<1>6. ASSUME Cardinality(S) <= c
      PROVE  L = S
  <2>1. SUFFICES ASSUME NEW i \in S
                 PROVE  Cardinality(After(i)) < c
    BY <1>1
  <2>2. IsFiniteSet(S) /\ Cardinality(S) \in Nat
    BY RowsAreFinite
  <2>3. IsFiniteSet(S \ {i}) /\ Cardinality(S \ {i}) = Cardinality(S) - 1
    BY <2>2, FS_RemoveElement
  <2>4. After(i) \subseteq S \ {i}
    OBVIOUS
  <2>5. Cardinality(After(i)) <= Cardinality(S \ {i})
    BY <2>3, <2>4, FS_Subset
  <2> HIDE DEF After
  <2>6. QED
    BY <1>2, <1>6, <2>2, <2>3, <2>5
<1>7. L \in SUBSET S
  BY <1>1
<1> HIDE DEF L
<1>8. QED
  BY <1>3, <1>4, <1>5, <1>6, <1>7 DEF L

-----------------------------------------------------------------------------
(* The rows of all records.                                                 *)

Line == [id : Nat \ {0}, off : Nat \ {0}, group : Groups, row : Rows]

\* A record has a row, and no more than the window holds.
LEMMA RecordIs ==
  ASSUME NEW all \in Seq(Kinds), NEW on \in BOOLEAN, NEW id \in 1 .. Len(all)
  PROVE  /\ Record(all, on, id) \in Seq(Line)
         /\ Len(Record(all, on, id)) \in 1 .. Scrollback
         /\ \A off \in 1 .. Len(Record(all, on, id)) :
              Record(all, on, id)[off].id = id /\ Record(all, on, id)[off].off = off
<1> DEFINE kind == all[id]
           r == RowsOf[on][kind]
<1>1. kind \in Kinds /\ Scrollback \in Nat /\ id \in Nat \ {0}
  BY NavAssumption
<1>2. r \in Seq(Rows) /\ r # <<>> /\ Len(r) <= Scrollback /\ GroupOf[kind] \in Groups
  <2>1. RowsOf[on] \in [Kinds -> Seq(Rows) \ {<<>>}]
    BY NavAssumption
  <2>2. r \in Seq(Rows) \ {<<>>}
    BY <1>1, <2>1
  <2>3. Len(r) <= Scrollback /\ GroupOf[kind] \in Groups
    BY <1>1, NavAssumption, FitsAssumption
  <2>4. QED
    BY <2>2, <2>3
<1>3. Record(all, on, id) = [off \in 1 .. Len(r) |->
        [id |-> id, off |-> off, group |-> GroupOf[kind], row |-> r[off]]]
  BY DEF Record
<1> HIDE DEF r, kind
<1>4. Len(r) \in 1 .. Scrollback /\ \A off \in 1 .. Len(r) : r[off] \in Rows /\ off \in Nat \ {0}
  BY <1>1, <1>2
<1> DEFINE f == [off \in 1 .. Len(r) |->
        [id |-> id, off |-> off, group |-> GroupOf[kind], row |-> r[off]]]
<1>5. \A off \in 1 .. Len(r) : f[off] \in Line /\ f[off].id = id /\ f[off].off = off
  <2> USE DEF Line
  <2>1. QED
    BY <1>1, <1>2, <1>4
<1>6. f \in Seq(Line) /\ Len(f) = Len(r)
  <2>1. f \in [1 .. Len(r) -> Line] /\ Len(r) \in Nat
    BY <1>4, <1>5
  <2> HIDE DEF f
  <2>2. QED
    BY <2>1
<1> HIDE DEF f
<1>7. QED
  BY <1>3, <1>4, <1>5, <1>6 DEF f

\* The recursion of Stream, up to n.
IsStream(f, all, on, n) ==
  f = [m \in 0 .. n |-> IF m = 0 THEN <<>> ELSE f[m - 1] \o Record(all, on, m)]

\* That recursion has a solution.
LEMMA StreamExists ==
  ASSUME NEW all, NEW on, NEW n \in Nat
  PROVE  \E f : IsStream(f, all, on, n)
<1> DEFINE T == {m \in Nat : \E f : IsStream(f, all, on, m)}
<1>1. 0 \in T
  <2>1. IsStream([m \in 0 .. 0 |-> <<>>], all, on, 0)
    BY DEF IsStream
  <2>2. QED
    BY <2>1
<1>2. ASSUME NEW k \in 0 .. n - 1, k \in T
      PROVE  k + 1 \in T
  <2>1. PICK f : IsStream(f, all, on, k)
    BY <1>2
  <2> DEFINE g == [m \in 0 .. k + 1 |->
                     IF m = k + 1 THEN f[k] \o Record(all, on, k + 1) ELSE f[m]]
             e(h, m) == IF m = 0 THEN <<>> ELSE h[m - 1] \o Record(all, on, m)
  <2>2. \A m \in 0 .. k : f[m] = e(f, m)
    <3>1. f = [m \in 0 .. k |-> e(f, m)]
      BY <2>1 DEF IsStream
    <3> HIDE DEF e
    <3>2. QED
      BY <3>1
  <2>3. ASSUME NEW m \in 0 .. k + 1
        PROVE  g[m] = e(g, m)
    <3>1. CASE m = k + 1
      <4>1. m # 0 /\ m - 1 = k /\ g[m - 1] = f[k]
        BY <3>1
      <4>2. QED
        BY <3>1, <4>1
    <3>2. CASE m # k + 1
      <4>1. m \in 0 .. k /\ g[m] = f[m] /\ (m # 0 => m - 1 \in 0 .. k /\ g[m - 1] = f[m - 1])
        BY <3>2
      <4>2. QED
        BY <4>1, <2>2
    <3>3. QED
      BY <3>1, <3>2
  <2>4. IsStream(g, all, on, k + 1)
    <3>1. g = [m \in 0 .. k + 1 |-> g[m]]
      OBVIOUS
    <3>2. [m \in 0 .. k + 1 |-> g[m]] = [m \in 0 .. k + 1 |-> e(g, m)]
      <4> HIDE DEF g, e
      <4>1. QED
        BY <2>3
    <3> HIDE DEF g
    <3>3. g = [m \in 0 .. k + 1 |-> e(g, m)]
      BY <3>1, <3>2
    <3>4. QED
      BY <3>3 DEF IsStream
  <2>5. QED
    BY <2>4
<1> HIDE DEF T
<1>3. n \in T
  BY <1>1, <1>2, UpTo
<1>4. QED
  BY <1>3 DEF T

\* What Stream is, record by record.
LEMMA StreamIs ==
  ASSUME NEW all \in Seq(Kinds), NEW on \in BOOLEAN
  PROVE  /\ Stream(all, on)[0] = <<>>
         /\ \A m \in 1 .. Len(all) :
              Stream(all, on)[m] = Stream(all, on)[m - 1] \o Record(all, on, m)
<1> DEFINE n == Len(all)
           f == CHOOSE f : IsStream(f, all, on, n)
           e(m) == IF m = 0 THEN <<>> ELSE f[m - 1] \o Record(all, on, m)
<1>1. n \in Nat
  OBVIOUS
<1>2. Stream(all, on) = f
  BY DEF Stream, IsStream
<1>3. IsStream(f, all, on, n)
  <2> HIDE DEF n
  <2>1. QED
    BY <1>1, StreamExists
<1> HIDE DEF f
<1>4. \A m \in 0 .. n : f[m] = e(m)
  <2>1. f = [m \in 0 .. n |-> e(m)]
    BY <1>3 DEF IsStream
  <2> HIDE DEF e
  <2>2. QED
    BY <2>1
<1>5. f[0] = <<>>
  BY <1>1, <1>4
<1>6. ASSUME NEW m \in 1 .. n
      PROVE  f[m] = f[m - 1] \o Record(all, on, m)
  <2>1. m \in 0 .. n /\ m # 0
    BY <1>1
  <2>2. QED
    BY <1>4, <2>1
<1>7. QED
  BY <1>2, <1>5, <1>6

\* The rows of the first m records are rows.
LEMMA StreamTypes ==
  ASSUME NEW all \in Seq(Kinds), NEW on \in BOOLEAN
  PROVE  /\ \A m \in 0 .. Len(all) : Stream(all, on)[m] \in Seq(Line)
         /\ Len(Stream(all, on)[0]) = 0
         /\ \A m \in 1 .. Len(all) :
              Len(Stream(all, on)[m]) = Len(Stream(all, on)[m - 1]) + Len(Record(all, on, m))
<1> DEFINE n == Len(all)
           st == Stream(all, on)
           T == {m \in 0 .. n : st[m] \in Seq(Line)}
<1>1. n \in Nat
  OBVIOUS
<1>2. st[0] = <<>> /\ \A m \in 1 .. n : st[m] = st[m - 1] \o Record(all, on, m)
  BY StreamIs
<1>3. \A m \in 1 .. n : Record(all, on, m) \in Seq(Line)
  BY RecordIs
<1> HIDE DEF n, st
<1>4. ASSUME NEW m \in 0 .. n - 1, m \in T
      PROVE  m + 1 \in T
  <2>1. m + 1 \in 1 .. n /\ m + 1 \in 0 .. n /\ (m + 1) - 1 = m
    BY <1>1
  <2>2. st[m + 1] = st[m] \o Record(all, on, m + 1)
    BY <1>2, <2>1
  <2>3. st[m] \in Seq(Line) /\ Record(all, on, m + 1) \in Seq(Line)
    BY <1>3, <1>4, <2>1
  <2>4. st[m + 1] \in Seq(Line)
    BY <2>2, <2>3
  <2>5. QED
    BY <2>1, <2>4
<1>5. 0 \in T
  <2>1. st[0] \in Seq(Line)
    BY <1>2
  <2>2. QED
    BY <1>1, <2>1
<1> HIDE DEF T
<1>6. \A m \in 0 .. n : m \in T
  BY <1>1, <1>4, <1>5, UpTo
<1>7. \A m \in 0 .. n : st[m] \in Seq(Line)
  BY <1>6 DEF T
<1>8. ASSUME NEW m \in 1 .. n
      PROVE  Len(st[m]) = Len(st[m - 1]) + Len(Record(all, on, m))
  <2>1. m - 1 \in 0 .. n
    BY <1>1
  <2>2. st[m - 1] \in Seq(Line) /\ Record(all, on, m) \in Seq(Line)
    BY <1>3, <1>7, <2>1
  <2>3. st[m] = st[m - 1] \o Record(all, on, m)
    BY <1>2
  <2>4. QED
    BY <2>2, <2>3
<1>9. Len(st[0]) = 0
  BY <1>2
<1>10. QED
  BY <1>7, <1>8, <1>9 DEF n, st

\* The rows of fewer records come first in those of more.
LEMMA StreamGrows ==
  ASSUME NEW all \in Seq(Kinds), NEW on \in BOOLEAN, NEW k \in 0 .. Len(all)
  PROVE  \A m \in k .. Len(all) :
           /\ Len(Stream(all, on)[k]) + (m - k) <= Len(Stream(all, on)[m])
           /\ \A i \in 1 .. Len(Stream(all, on)[k]) : Stream(all, on)[m][i] = Stream(all, on)[k][i]
<1> DEFINE n == Len(all)
           st == Stream(all, on)
           Grown(m) == /\ Len(st[k]) + (m - k) <= Len(st[m])
                       /\ \A i \in 1 .. Len(st[k]) : st[m][i] = st[k][i]
           T == {m \in 0 .. n : m >= k => Grown(m)}
<1>1. n \in Nat /\ k \in 0 .. n
  OBVIOUS
<1>2. \A m \in 0 .. n : st[m] \in Seq(Line) /\ Len(st[m]) \in Nat
  BY StreamTypes
<1>3. \A m \in 1 .. n :
        /\ Record(all, on, m) \in Seq(Line)
        /\ Len(Record(all, on, m)) \in Nat \ {0}
        /\ st[m] = st[m - 1] \o Record(all, on, m)
        /\ Len(st[m]) = Len(st[m - 1]) + Len(Record(all, on, m))
  BY StreamIs, StreamTypes, RecordIs
<1> HIDE DEF n, st
<1>4. Grown(k)
  BY <1>1, <1>2
<1>5. ASSUME NEW m \in 0 .. n - 1, m \in T
      PROVE  m + 1 \in T
  <2>1. m + 1 \in 1 .. n /\ m + 1 \in 0 .. n /\ (m + 1) - 1 = m /\ m \in 0 .. n
    BY <1>1
  <2>2. CASE m + 1 < k
    <3>1. ~ (m + 1 >= k)
      BY <2>1, <2>2, <1>1
    <3>2. QED
      BY <2>1, <3>1
  <2>3. CASE m + 1 = k
    BY <2>1, <2>3, <1>4
  <2>4. CASE m >= k
    <3>1. Grown(m)
      BY <1>5, <2>4
    <3> DEFINE r == Record(all, on, m + 1)
    <3>2. /\ r \in Seq(Line) /\ Len(r) \in Nat \ {0} /\ st[m + 1] = st[m] \o r
          /\ Len(st[m + 1]) = Len(st[m]) + Len(r)
      BY <1>3, <2>1
    <3>3. st[m] \in Seq(Line) /\ Len(st[m]) \in Nat /\ Len(st[k]) \in Nat
      BY <1>1, <1>2, <2>1
    <3> HIDE DEF r
    <3>4. Len(st[k]) + ((m + 1) - k) <= Len(st[m + 1])
      <4> DEFINE x == Len(st[k])
                 y == Len(st[m])
                 z == Len(st[m + 1])
                 d == Len(r)
      <4>1. /\ x \in Nat /\ y \in Nat /\ d \in Nat \ {0} /\ m \in Nat /\ k \in Nat
            /\ z = y + d /\ x + (m - k) <= y
        BY <3>1, <3>2, <3>3, <1>1, <2>1
      <4> HIDE DEF x, y, z, d
      <4>2. x + ((m + 1) - k) <= z
        BY <4>1
      <4>3. QED
        BY <4>2 DEF x, z
    <3>5. ASSUME NEW i \in 1 .. Len(st[k])
          PROVE  st[m + 1][i] = st[k][i]
      <4>1. i \in 1 .. Len(st[m])
        BY <3>1, <3>3, <2>4, <1>1
      <4>2. (st[m] \o r)[i] = st[m][i]
        BY <4>1, <3>2, <3>3
      <4>3. QED
        BY <4>2, <3>1, <3>2
    <3>6. Grown(m + 1)
      BY <3>4, <3>5
    <3> HIDE DEF Grown
    <3>7. QED
      BY <2>1, <3>6
  <2>5. QED
    BY <2>1, <2>2, <2>3, <2>4, <1>1
<1>6. 0 \in T
  <2>1. 0 >= k => k = 0
    BY <1>1
  <2> HIDE DEF Grown
  <2>2. QED
    BY <1>1, <1>4, <2>1
<1> HIDE DEF T
<1>7. \A m \in 0 .. n : m \in T
  BY <1>1, <1>5, <1>6, UpTo
<1>8. \A m \in k .. n : Grown(m)
  <2> HIDE DEF Grown
  <2>1. QED
    BY <1>1, <1>7 DEF T
<1>9. QED
  BY <1>8 DEF n, st

\* A row of the first m records is the one at its offset, after those of the
\* records before its own.
LEMMA RowsAreLocated ==
  ASSUME NEW all \in Seq(Kinds), NEW on \in BOOLEAN
  PROVE  \A m \in 0 .. Len(all) : \A i \in 1 .. Len(Stream(all, on)[m]) :
           LET line == Stream(all, on)[m][i]
           IN /\ line \in Line
              /\ line.id \in 1 .. m
              /\ line.off \in 1 .. Len(Record(all, on, line.id))
              /\ i = Len(Stream(all, on)[line.id - 1]) + line.off
<1> DEFINE n == Len(all)
           st == Stream(all, on)
           At(m, i, line) == /\ line \in Line
                             /\ line.id \in 1 .. m
                             /\ line.off \in 1 .. Len(Record(all, on, line.id))
                             /\ i = Len(st[line.id - 1]) + line.off
           Placed(m) == \A i \in 1 .. Len(st[m]) : At(m, i, st[m][i])
           T == {m \in 0 .. n : Placed(m)}
<1>1. n \in Nat
  OBVIOUS
<1>2. \A m \in 0 .. n : st[m] \in Seq(Line) /\ Len(st[m]) \in Nat
  BY StreamTypes
<1>3. \A m \in 1 .. n :
        /\ Record(all, on, m) \in Seq(Line)
        /\ Len(Record(all, on, m)) \in Nat \ {0}
        /\ \A off \in 1 .. Len(Record(all, on, m)) :
             Record(all, on, m)[off].id = m /\ Record(all, on, m)[off].off = off
        /\ st[m] = st[m - 1] \o Record(all, on, m)
        /\ Len(st[m]) = Len(st[m - 1]) + Len(Record(all, on, m))
  BY StreamIs, StreamTypes, RecordIs
<1>4. Len(st[0]) = 0
  BY StreamTypes
<1> HIDE DEF n, st
<1>5. ASSUME NEW m \in 0 .. n - 1, m \in T
      PROVE  m + 1 \in T
  <2>1. m + 1 \in 1 .. n /\ m + 1 \in 0 .. n /\ (m + 1) - 1 = m /\ m \in 0 .. n
    BY <1>1
  <2> DEFINE r == Record(all, on, m + 1)
  <2>2. /\ r \in Seq(Line) /\ Len(r) \in Nat \ {0} /\ st[m + 1] = st[m] \o r
        /\ Len(st[m + 1]) = Len(st[m]) + Len(r)
        /\ \A off \in 1 .. Len(r) : r[off].id = m + 1 /\ r[off].off = off
    BY <1>3, <2>1
  <2>3. st[m] \in Seq(Line) /\ Len(st[m]) \in Nat
    BY <1>2, <2>1
  <2>4. SUFFICES ASSUME NEW i \in 1 .. Len(st[m + 1])
                 PROVE  At(m + 1, i, st[m + 1][i])
    <3> HIDE DEF At
    <3>1. QED
      BY <2>1
  <2>5. CASE i \in 1 .. Len(st[m])
    <3>1. st[m + 1][i] = st[m][i]
      <4> HIDE DEF r
      <4>1. (st[m] \o r)[i] = st[m][i]
        BY <2>2, <2>3, <2>5
      <4>2. QED
        BY <4>1, <2>2
    <3>2. At(m, i, st[m][i])
      <4> HIDE DEF At
      <4>1. QED
        BY <1>5, <2>5
    <3> DEFINE line == st[m][i]
    <3>3. At(m, i, line)
      BY <3>2
    <3> HIDE DEF line
    <3>4. At(m + 1, i, line)
      BY <2>1, <3>3
    <3> HIDE DEF At
    <3>5. QED
      BY <3>1, <3>4 DEF line
  <2>6. CASE i > Len(st[m])
    <3> DEFINE off == i - Len(st[m])
    <3> HIDE DEF r
    <3>1. off \in 1 .. Len(r) /\ i = Len(st[m]) + off
      BY <2>2, <2>3, <2>6
    <3>2. (st[m] \o r)[i] = r[off]
      BY <2>2, <2>3, <2>6, <3>1
    <3>3. st[m + 1][i] = r[off]
      BY <2>2, <3>2
    <3>4. r[off] \in Line /\ r[off].id = m + 1 /\ r[off].off = off
      <4> HIDE DEF off
      <4>1. QED
        BY <2>2, <3>1
    <3> HIDE DEF off
    <3> DEFINE line == r[off]
    <3>5. line \in Line /\ line.id = m + 1 /\ line.off = off
      BY <3>4
    <3> HIDE DEF line
    <3>6. At(m + 1, i, line)
      BY <2>1, <3>1, <3>5 DEF r
    <3> HIDE DEF At
    <3>7. QED
      BY <3>3, <3>6 DEF line
  <2>7. QED
    BY <2>2, <2>3, <2>5, <2>6
<1>6. 0 \in T
  BY <1>1, <1>4
<1> HIDE DEF T
<1>7. \A m \in 0 .. n : m \in T
  BY <1>1, <1>5, <1>6, UpTo
<1>8. \A m \in 0 .. n : Placed(m)
  <2> HIDE DEF Placed
  <2>1. QED
    BY <1>7 DEF T
<1>9. QED
  BY <1>8 DEF n, st

\* The place of a row among all, by its record and its offset in it.
Place(all, on, id, off) == Len(Stream(all, on)[id - 1]) + off

HasRow(rows, i, id, off) == i \in 1 .. Len(rows) /\ rows[i].id = id /\ rows[i].off = off

\* And every record has its rows there.
LEMMA RowsAreFound ==
  ASSUME NEW all \in Seq(Kinds), NEW on \in BOOLEAN, NEW m \in 0 .. Len(all),
         NEW id \in 1 .. m, NEW off \in 1 .. Len(Record(all, on, id))
  PROVE  HasRow(Stream(all, on)[m], Place(all, on, id, off), id, off)
<1> DEFINE st == Stream(all, on)
           r == Record(all, on, id)
           i == Len(st[id - 1]) + off
<1>1. id \in 1 .. Len(all) /\ id \in 0 .. Len(all) /\ id - 1 \in 0 .. Len(all) /\ m \in id .. Len(all)
  OBVIOUS
<1>2. /\ st[id - 1] \in Seq(Line) /\ r \in Seq(Line)
      /\ r[off].id = id /\ r[off].off = off /\ off \in 1 .. Len(r)
      /\ st[id] = st[id - 1] \o r
      /\ Len(st[id]) = Len(st[id - 1]) + Len(r)
  BY <1>1, StreamIs, StreamTypes, RecordIs
<1>3. /\ Len(st[id]) + (m - id) <= Len(st[m])
      /\ \A j \in 1 .. Len(st[id]) : st[m][j] = st[id][j]
  BY <1>1, StreamGrows
<1> HIDE DEF st, r
<1>4. Len(st[id - 1]) \in Nat /\ Len(r) \in Nat
  BY <1>2
<1>5. Len(st[id]) \in Nat /\ Len(st[m]) \in Nat
  <2>1. st[id] \in Seq(Line) /\ st[m] \in Seq(Line)
    BY <1>1, StreamTypes DEF st
  <2>2. QED
    BY <2>1
<1>6. i \in 1 .. Len(st[id]) /\ i \in 1 .. Len(st[m])
  <2> DEFINE x == Len(st[id - 1])
             y == Len(st[id])
             z == Len(st[m])
             d == Len(r)
  <2>1. /\ x \in Nat /\ y \in Nat /\ z \in Nat /\ d \in Nat /\ m \in Nat /\ id \in Nat
        /\ y = x + d /\ y + (m - id) <= z /\ id <= m /\ off \in 1 .. d
    BY <1>1, <1>2, <1>3, <1>4, <1>5
  <2> HIDE DEF x, y, z, d
  <2>2. x + off \in 1 .. y /\ x + off \in 1 .. z
    BY <2>1
  <2>3. QED
    BY <2>2 DEF x, y, z
<1>7. (st[id - 1] \o r)[i] = r[off]
  <2>1. i \in 1 .. Len(st[id - 1]) + Len(r) /\ i > Len(st[id - 1]) /\ i - Len(st[id - 1]) = off
    BY <1>2, <1>4, <1>6
  <2> DEFINE a == st[id - 1]
  <2>2. a \in Seq(Line) /\ r \in Seq(Line)
    BY <1>2
  <2>3. i \in 1 .. Len(a) + Len(r) /\ i > Len(a) /\ i - Len(a) = off
    BY <2>1
  <2> HIDE DEF i, a
  <2>4. (a \o r)[i] = r[i - Len(a)]
    BY <2>2, <2>3
  <2>5. (a \o r)[i] = r[off]
    BY <2>3, <2>4
  <2>6. QED
    BY <2>5 DEF a
<1>8. st[m][i] = r[off]
  BY <1>2, <1>3, <1>6, <1>7
<1>9. QED
  BY <1>2, <1>6, <1>8 DEF st, Place, HasRow


-----------------------------------------------------------------------------
(* The window.                                                              *)

\* A Clear never reaches beyond the last record.
FloorOK(all, floor) == floor \in Nat /\ (floor = 0 \/ floor < Len(all))

\* The records that are not dropped are above the floor and fit, and no more
\* of them would.
LEMMA DroppedIs ==
  ASSUME NEW all \in Seq(Kinds), NEW on \in BOOLEAN, NEW floor, FloorOK(all, floor)
  PROVE  LET n == Len(all)
             rows == Stream(all, on)
             May(k) == /\ k >= n - Scrollback
                       /\ floor > 0 => k > floor
                       /\ Len(rows[n]) - Len(rows[k]) <= Scrollback
         IN /\ Dropped(all, on, floor) \in 0 .. n
            /\ May(Dropped(all, on, floor))
            /\ \A k \in 0 .. n : May(k) => Dropped(all, on, floor) <= k
<1> DEFINE n == Len(all)
           rows == Stream(all, on)
           lowest == IF floor > 0 THEN floor + 1 ELSE 0
           above == Max({lowest, n - Scrollback})
           fits(k) == Len(rows[n]) - Len(rows[k]) <= Scrollback
           K == {k \in above .. n : fits(k)}
<1>1. n \in Nat /\ Scrollback \in Nat \ {0} /\ lowest \in Nat /\ lowest <= n
  BY NavAssumption DEF FloorOK
<1>2. Len(rows[n]) \in Nat
  <2>1. rows[n] \in Seq(Line)
    BY <1>1, StreamTypes
  <2> HIDE DEF n, rows
  <2>2. QED
    BY <2>1
<1>3. Dropped(all, on, floor) = Min(K)
  BY DEF Dropped
<1>4. \A k : k \in Int /\ k <= n => (k \in above .. n <=> k >= lowest /\ k >= n - Scrollback)
  <2> HIDE DEF lowest, n
  <2>1. n - Scrollback \in Int /\ lowest \in Int
    BY <1>1
  <2>2. above = IF lowest <= n - Scrollback THEN n - Scrollback ELSE lowest
    BY <2>1, MaxOfTwo
  <2> HIDE DEF above
  <2>3. QED
    BY <1>1, <2>1, <2>2
<1>5. \A k \in Nat : k >= lowest <=> (floor > 0 => k > floor)
  BY DEF FloorOK
<1>6. above \in Nat
  <2> HIDE DEF lowest, n
  <2>1. n - Scrollback \in Int /\ lowest \in Int
    BY <1>1
  <2>2. above = IF lowest <= n - Scrollback THEN n - Scrollback ELSE lowest
    BY <2>1, MaxOfTwo
  <2>3. QED
    BY <1>1, <2>1, <2>2
<1> HIDE DEF above, lowest, n, rows
<1>7. K \in SUBSET Nat /\ K # {}
  <2>1. n \in above .. n
    BY <1>1, <1>4
  <2>2. fits(n)
    BY <1>1, <1>2
  <2> HIDE DEF fits
  <2>3. QED
    BY <1>1, <1>6, <2>1, <2>2
<1> DEFINE d == Min(K)
<1>8. d \in K /\ \A k \in K : d <= k
  <2> HIDE DEF K
  <2>1. QED
    BY <1>7, MinIs
<1> HIDE DEF d, fits
<1>9. d \in 0 .. n /\ d >= n - Scrollback /\ d >= lowest /\ fits(d)
  <2>1. d \in above .. n /\ fits(d)
    BY <1>8
  <2>2. d \in Nat /\ d <= n
    BY <2>1, <1>1, <1>6
  <2>3. d >= lowest /\ d >= n - Scrollback
    BY <2>1, <2>2, <1>4
  <2>4. QED
    BY <2>1, <2>2, <2>3, <1>1
<1>10. ASSUME NEW k \in 0 .. n, k >= n - Scrollback, k >= lowest, fits(k)
       PROVE  d <= k
  <2>1. k \in above .. n
    BY <1>1, <1>4, <1>10
  <2>2. QED
    BY <2>1, <1>8, <1>10
<1>11. d >= n - Scrollback /\ (floor > 0 => d > floor) /\ fits(d)
  BY <1>1, <1>5, <1>9
<1>12. \A k \in 0 .. n : k >= n - Scrollback /\ (floor > 0 => k > floor) /\ fits(k) => d <= k
  BY <1>1, <1>5, <1>10
<1>13. QED
  BY <1>3, <1>9, <1>11, <1>12 DEF d, n, rows, fits

LEMMA DroppedRange ==
  ASSUME NEW all \in Seq(Kinds), NEW on \in BOOLEAN, NEW floor, FloorOK(all, floor)
  PROVE  Len(all) \in Nat /\ Dropped(all, on, floor) \in 0 .. Len(all)
<1>1. Dropped(all, on, floor) \in 0 .. Len(all)
  BY DroppedIs, Zenon
<1>2. QED
  BY <1>1

\* The rows before those of the window.
Base(all, on, floor) == Len(Stream(all, on)[Dropped(all, on, floor)])

\* The window is a stretch of the rows of all records, and ends with them.
LEMMA LinesAre ==
  ASSUME NEW all \in Seq(Kinds), NEW on \in BOOLEAN, NEW floor, FloorOK(all, floor)
  PROVE  LET n == Len(all)
             rows == Stream(all, on)
             base == Base(all, on, floor)
             ls == LinesOf(all, on, floor)
         IN /\ base \in Nat
            /\ ls \in Seq(Line)
            /\ Len(ls) \in Nat
            /\ base + Len(ls) = Len(rows[n])
            /\ \A i \in 1 .. Len(ls) : ls[i] = rows[n][base + i]
<1> DEFINE n == Len(all)
           rows == Stream(all, on)
           base == Base(all, on, floor)
           ls == LinesOf(all, on, floor)
           d == Dropped(all, on, floor)
<1>1. n \in Nat /\ d \in 0 .. n
  BY DroppedRange
<1>2. rows[n] \in Seq(Line) /\ rows[d] \in Seq(Line)
  <2>1. n \in 0 .. n
    BY <1>1
  <2>2. QED
    BY <1>1, <2>1, StreamTypes, Zenon
<1>3. Len(rows[d]) + (n - d) <= Len(rows[n])
  <2>1. n \in d .. n
    BY <1>1
  <2>2. QED
    BY <1>1, <2>1, StreamGrows, Zenon
<1>4. base = Len(rows[d])
  BY DEF Base
<1>5. ls = SubSeq(rows[n], base + 1, Len(rows[n]))
  BY DEF LinesOf, Base
<1> HIDE DEF n, rows, base, ls, d
<1>6. base \in Nat /\ Len(rows[n]) \in Nat /\ base <= Len(rows[n])
  <2>1. base \in Nat /\ Len(rows[n]) \in Nat
    BY <1>2, <1>4
  <2>2. QED
    BY <2>1, <1>1, <1>3, <1>4
<1> DEFINE s == rows[n]
           m == Len(s)
<1>7. s \in Seq(Line) /\ m \in Nat /\ base <= m /\ ls = SubSeq(s, base + 1, m)
  BY <1>2, <1>5, <1>6
<1> HIDE DEF s
<1>8. /\ ls \in Seq(Line)
      /\ Len(ls) = m - base
      /\ \A i \in 1 .. m - base : ls[i] = s[(base + 1) + i - 1]
  BY <1>6, <1>7
<1> HIDE DEF m
<1>9. Len(ls) \in Nat /\ base + Len(ls) = m
  BY <1>6, <1>7, <1>8
<1>10. \A i \in 1 .. Len(ls) : ls[i] = s[base + i]
  <2>1. ASSUME NEW i \in 1 .. Len(ls)
        PROVE  ls[i] = s[base + i]
    <3>1. i \in 1 .. m - base /\ (base + 1) + i - 1 = base + i
      BY <1>6, <1>7, <1>8
    <3>2. QED
      BY <1>8, <3>1
  <2>2. QED
    BY <2>1
<1>11. QED
  BY <1>6, <1>8, <1>9, <1>10 DEF m, s, n, rows, base, ls

IsRow(all, on, floor, i, line) ==
  /\ line \in Line
  /\ line.id \in Dropped(all, on, floor) + 1 .. Len(all)
  /\ line.off \in 1 .. Len(Record(all, on, line.id))
  /\ Base(all, on, floor) + i = Len(Stream(all, on)[line.id - 1]) + line.off

\* A record and an offset name a row, and which one it is.
LEMMA LinesAreLocated ==
  ASSUME NEW all \in Seq(Kinds), NEW on \in BOOLEAN, NEW floor, FloorOK(all, floor),
         NEW i \in 1 .. Len(LinesOf(all, on, floor))
  PROVE  IsRow(all, on, floor, i, LinesOf(all, on, floor)[i])
<1> DEFINE n == Len(all)
           rows == Stream(all, on)
           base == Base(all, on, floor)
           ls == LinesOf(all, on, floor)
           d == Dropped(all, on, floor)
           line == ls[i]
<1>1. n \in Nat /\ d \in 0 .. n
  BY DroppedRange
<1>2. /\ base \in Nat /\ Len(ls) \in Nat /\ base + Len(ls) = Len(rows[n])
      /\ line = rows[n][base + i]
  BY LinesAre
<1>3. i \in 1 .. Len(ls)
  OBVIOUS
<1>4. base + i \in 1 .. Len(rows[n])
  <2> HIDE DEF base, rows, n, ls
  <2>1. QED
    BY <1>2, <1>3
<1>5. /\ line \in Line
      /\ line.id \in 1 .. n
      /\ line.off \in 1 .. Len(Record(all, on, line.id))
      /\ base + i = Len(rows[line.id - 1]) + line.off
  <2>1. n \in 0 .. Len(all)
    BY <1>1
  <2> DEFINE here == rows[n][base + i]
  <2>2. /\ here \in Line
        /\ here.id \in 1 .. n
        /\ here.off \in 1 .. Len(Record(all, on, here.id))
        /\ base + i = Len(rows[here.id - 1]) + here.off
    BY <1>4, <2>1, RowsAreLocated, Zenon
  <2>3. line = here
    BY <1>2
  <2> HIDE DEF here, line, n, rows, base
  <2>4. QED
    BY <2>2, <2>3
<1>6. line.id > d
  <2>1. SUFFICES ASSUME line.id <= d PROVE FALSE
    BY <1>1, <1>5
  <2>2. d \in 0 .. Len(all) /\ line.id \in 1 .. d
    BY <1>1, <1>5, <2>1
  <2> DEFINE id == line.id
             off == line.off
  <2>5. id \in 1 .. d /\ off \in 1 .. Len(Record(all, on, id)) /\ base + i = Place(all, on, id, off)
    BY <1>5, <2>2 DEF Place
  <2> HIDE DEF id, off
  <2>6. Place(all, on, id, off) \in 1 .. Len(rows[d])
    <3>1. HasRow(rows[d], Place(all, on, id, off), id, off)
      BY <2>2, <2>5, RowsAreFound
    <3>2. QED
      BY <3>1 DEF HasRow
  <2>3. base + i \in 1 .. Len(rows[d])
    BY <2>5, <2>6
  <2>4. base = Len(rows[d])
    BY DEF Base
  <2> HIDE DEF base, rows, ls
  <2>7. QED
    BY <1>2, <1>3, <2>3, <2>4
<1> HIDE DEF line
<1>7. line.id \in d + 1 .. n
  BY <1>1, <1>5, <1>6
<1>8. QED
  BY <1>5, <1>7 DEF line, IsRow

\* Every record of the window has its rows there.
LEMMA LinesAreFound ==
  ASSUME NEW all \in Seq(Kinds), NEW on \in BOOLEAN, NEW floor, FloorOK(all, floor),
         NEW id \in Dropped(all, on, floor) + 1 .. Len(all),
         NEW off \in 1 .. Len(Record(all, on, id))
  PROVE  HasRow(LinesOf(all, on, floor), Place(all, on, id, off) - Base(all, on, floor), id, off)
<1> DEFINE n == Len(all)
           rows == Stream(all, on)
           base == Base(all, on, floor)
           ls == LinesOf(all, on, floor)
           d == Dropped(all, on, floor)
           x == Len(rows[id - 1])
           i == (x + off) - base
<1>1. n \in Nat /\ d \in 0 .. n /\ id \in 1 .. n /\ d <= id - 1 /\ id - 1 \in 0 .. n
  <2>1. n \in Nat /\ d \in 0 .. n /\ id \in d + 1 .. n
    BY DroppedRange
  <2> HIDE DEF n, d
  <2>2. QED
    BY <2>1
<1>2. /\ base \in Nat /\ Len(ls) \in Nat /\ base + Len(ls) = Len(rows[n])
      /\ \A j \in 1 .. Len(ls) : ls[j] = rows[n][base + j]
  <2> HIDE DEF x, i, d
  <2>1. QED
    BY LinesAre
<1>3. HasRow(rows[n], x + off, id, off)
  <2>1. n \in 0 .. Len(all) /\ id \in 1 .. n
    BY <1>1
  <2>2. HasRow(rows[n], Place(all, on, id, off), id, off)
    BY <2>1, RowsAreFound
  <2>3. QED
    BY <2>2 DEF Place
<1>4. base <= x /\ x \in Nat /\ off \in Nat \ {0}
  <2>1. id - 1 \in d .. Len(all) /\ d \in 0 .. Len(all)
    BY <1>1
  <2>2. Len(rows[d]) + ((id - 1) - d) <= Len(rows[id - 1])
    BY <2>1, StreamGrows
  <2>3. base = Len(rows[d])
    BY DEF Base
  <2>4. rows[id - 1] \in Seq(Line)
    BY <1>1, StreamTypes
  <2>5. x \in Nat /\ off \in Nat \ {0}
    <3> HIDE DEF rows
    <3>1. x \in Nat
      BY <2>4
    <3>2. Len(Record(all, on, id)) \in Nat
      BY <1>1, RecordIs, NavAssumption
    <3>3. QED
      BY <3>1, <3>2
  <2>6. base \in Nat /\ base + ((id - 1) - d) <= x
    BY <1>2, <2>2, <2>3
  <2>7. d \in Nat /\ id \in Nat /\ d <= id - 1
    BY <1>1
  <2> HIDE DEF base, d, rows, x
  <2>8. QED
    BY <2>5, <2>6, <2>7
<1> HIDE DEF base, d, rows, ls, x
<1>5. i \in 1 .. Len(ls) /\ base + i = x + off
  <2>1. x + off \in 1 .. Len(rows[n])
    BY <1>3 DEF HasRow
  <2> DEFINE y == Len(rows[n])
             z == Len(ls)
             t == x + off
  <2>2. /\ base \in Nat /\ z \in Nat /\ base + z = y
        /\ base < t /\ t \in 1 .. y /\ i = t - base
    <3> HIDE DEF y, z
    <3>1. base \in Nat /\ z \in Nat /\ base + z = y
      BY <1>2 DEF y, z
    <3>2. base < t /\ t \in Nat
      BY <1>2, <1>4
    <3>3. t \in 1 .. y
      BY <2>1 DEF y
    <3>4. QED
      BY <3>1, <3>2, <3>3
  <2> HIDE DEF y, z, t, i
  <2>3. i \in 1 .. z /\ base + i = t
    BY <2>2
  <2>4. QED
    BY <2>3 DEF z, t
<1>6. ls[i] = rows[n][x + off]
  BY <1>2, <1>5
<1>7. HasRow(ls, i, id, off)
  BY <1>3, <1>5, <1>6 DEF HasRow
<1>8. Place(all, on, id, off) - base = i
  BY DEF Place, x, rows
<1> HIDE DEF i
<1>9. QED
  BY <1>7, <1>8 DEF base, ls

\* How rows are laid out: those of a record are consecutive, and its first one
\* is there.
Layout(ls) ==
  /\ ls \in Seq(Line)
  /\ \A i, j \in 1 .. Len(ls) : ls[i].id = ls[j].id => i - ls[i].off = j - ls[j].off
  /\ \A i \in 1 .. Len(ls) : HasRow(ls, (i - ls[i].off) + 1, ls[i].id, 1)

LEMMA LinesAreLaidOut ==
  ASSUME NEW all \in Seq(Kinds), NEW on \in BOOLEAN, NEW floor, FloorOK(all, floor)
  PROVE  /\ Layout(LinesOf(all, on, floor))
         /\ \A i \in 1 .. Len(LinesOf(all, on, floor)) : LinesOf(all, on, floor)[i].id \in 1 .. Len(all)
<1> DEFINE base == Base(all, on, floor)
           ls == LinesOf(all, on, floor)
           d == Dropped(all, on, floor)
           n == Len(all)
           first(id) == Len(Stream(all, on)[id - 1])
<1>1. base \in Nat /\ ls \in Seq(Line) /\ Len(ls) \in Nat
  BY LinesAre
<1>2. \A i \in 1 .. Len(ls) :
        /\ ls[i] \in Line
        /\ ls[i].id \in d + 1 .. n
        /\ ls[i].off \in 1 .. Len(Record(all, on, ls[i].id))
        /\ base + i = first(ls[i].id) + ls[i].off
  <2>1. \A i \in 1 .. Len(ls) : IsRow(all, on, floor, i, ls[i])
    BY LinesAreLocated
  <2> DEFINE line(i) == ls[i]
  <2>2. \A i \in 1 .. Len(ls) : IsRow(all, on, floor, i, line(i))
    BY <2>1
  <2> HIDE DEF line, ls
  <2>3. \A i \in 1 .. Len(ls) :
          /\ line(i) \in Line
          /\ line(i).id \in d + 1 .. n
          /\ line(i).off \in 1 .. Len(Record(all, on, line(i).id))
          /\ base + i = first(line(i).id) + line(i).off
    BY <2>2, Zenon DEF IsRow
  <2>4. QED
    BY <2>3 DEF line
<1>3. n \in Nat /\ d \in 0 .. n
  BY DroppedRange
<1>4. \A id \in 1 .. n : first(id) \in Nat /\ Len(Record(all, on, id)) \in Nat \ {0}
  <2>1. ASSUME NEW id \in 1 .. n
        PROVE  first(id) \in Nat /\ Len(Record(all, on, id)) \in Nat \ {0}
    <3>1. id - 1 \in 0 .. n
      BY <1>3
    <3>2. Stream(all, on)[id - 1] \in Seq(Line)
      BY <3>1, StreamTypes
    <3>3. first(id) \in Nat
      BY <3>2
    <3>4. Len(Record(all, on, id)) \in 1 .. Scrollback
      BY RecordIs
    <3>5. QED
      BY <3>3, <3>4, NavAssumption
  <2>2. QED
    BY <2>1
<1>5. \A i \in 1 .. Len(ls) : ls[i].id \in 1 .. n
  <2> HIDE DEF n, d, ls, base, first
  <2>1. QED
    BY <1>2, <1>3
<1>6. \A i \in 1 .. Len(ls) : HasRow(ls, (first(ls[i].id) + 1) - base, ls[i].id, 1)
  <2>1. ASSUME NEW i \in 1 .. Len(ls)
        PROVE  HasRow(ls, (first(ls[i].id) + 1) - base, ls[i].id, 1)
    <3> DEFINE id == ls[i].id
    <3>1. id \in d + 1 .. n /\ 1 \in 1 .. Len(Record(all, on, id))
      BY <1>2, <1>4, <1>5
    <3>2. Place(all, on, id, 1) = first(id) + 1
      BY DEF Place
    <3> HIDE DEF id
    <3>3. HasRow(ls, Place(all, on, id, 1) - base, id, 1)
      BY <3>1, LinesAreFound
    <3> HIDE DEF first, base, ls
    <3>4. QED
      BY <3>2, <3>3 DEF id
  <2>2. QED
    BY <2>1
<1> HIDE DEF n, d, ls, base, first
<1>7. ASSUME NEW i \in 1 .. Len(ls)
      PROVE  /\ i - ls[i].off = first(ls[i].id) - base
             /\ (i - ls[i].off) + 1 = (first(ls[i].id) + 1) - base
  <2> DEFINE o == ls[i].off
             f == first(ls[i].id)
  <2>1. o \in Nat /\ f \in Nat /\ base + i = f + o /\ base \in Nat /\ i \in Nat
    BY <1>1, <1>2, <1>4, <1>5 DEF Line
  <2> HIDE DEF o, f
  <2>2. i - o = f - base /\ (i - o) + 1 = (f + 1) - base
    BY <2>1
  <2>3. QED
    BY <2>2 DEF o, f
<1>8. \A i, j \in 1 .. Len(ls) : ls[i].id = ls[j].id => i - ls[i].off = j - ls[j].off
  BY <1>7
<1>9. \A i \in 1 .. Len(ls) : HasRow(ls, (i - ls[i].off) + 1, ls[i].id, 1)
  BY <1>6, <1>7
<1>10. Layout(ls)
  BY <1>1, <1>8, <1>9 DEF Layout
<1>11. QED
  BY <1>5, <1>10 DEF ls, n

\* There are rows exactly if there is a record above the floor.
LEMMA RowsAreShown ==
  ASSUME NEW all \in Seq(Kinds), NEW on \in BOOLEAN, NEW floor, FloorOK(all, floor)
  PROVE  LinesOf(all, on, floor) # <<>> <=> all # <<>> /\ (floor > 0 => floor + 1 < Len(all))
<1> DEFINE n == Len(all)
           rows == Stream(all, on)
           base == Base(all, on, floor)
           ls == LinesOf(all, on, floor)
           d == Dropped(all, on, floor)
<1>1. n \in Nat /\ d \in 0 .. n
  BY DroppedRange
<1>2. base \in Nat /\ ls \in Seq(Line) /\ Len(ls) \in Nat /\ base + Len(ls) = Len(rows[n])
  BY LinesAre
<1>3. /\ floor > 0 => d > floor
      /\ \A k \in 0 .. n : /\ k >= n - Scrollback
                           /\ floor > 0 => k > floor
                           /\ Len(rows[n]) - Len(rows[k]) <= Scrollback
                           => d <= k
  BY DroppedIs
<1>4. floor \in Nat /\ Scrollback \in Nat \ {0}
  BY NavAssumption DEF FloorOK
<1>5. ls # <<>> <=> Len(ls) > 0
  BY <1>2
<1>6. all # <<>> <=> n > 0
  OBVIOUS
<1>7. ASSUME Len(ls) > 0
      PROVE  d < n
  <2>1. 1 \in 1 .. Len(ls)
    BY <1>2, <1>7
  <2>2. ls[1].id \in d + 1 .. n
    BY <2>1, LinesAreLocated DEF IsRow
  <2> HIDE DEF d, n, ls
  <2>3. QED
    BY <1>1, <2>2
<1>8. ASSUME d < n
      PROVE  Len(ls) > 0
  <2>1. n \in d .. n /\ d \in 0 .. n
    BY <1>1, <1>8
  <2>2. Len(rows[d]) + (n - d) <= Len(rows[n])
    BY <2>1, StreamGrows
  <2>3. base = Len(rows[d])
    BY DEF Base
  <2> HIDE DEF base, rows, n, d, ls
  <2>4. QED
    BY <1>1, <1>2, <1>8, <2>2, <2>3
<1>9. ASSUME n > 0, floor > 0 => n - 1 > floor
      PROVE  d < n
  <2>1. n \in 1 .. n /\ n - 1 \in 0 .. n
    BY <1>1, <1>9
  <2>2. Len(rows[n]) = Len(rows[n - 1]) + Len(Record(all, on, n)) /\ rows[n - 1] \in Seq(Line)
    BY <2>1, StreamTypes
  <2>3. Len(Record(all, on, n)) \in 1 .. Scrollback
    BY <2>1, RecordIs
  <2>4. Len(rows[n - 1]) \in Nat
    BY <2>2
  <2> HIDE DEF rows, n, d
  <2>5. Len(rows[n]) - Len(rows[n - 1]) <= Scrollback
    BY <1>4, <2>2, <2>3, <2>4
  <2>6. d <= n - 1
    BY <1>1, <1>3, <1>4, <1>9, <2>1, <2>5
  <2>7. QED
    BY <1>1, <2>6
<1>10. ASSUME d < n
       PROVE  n > 0 /\ (floor > 0 => n - 1 > floor)
  <2> HIDE DEF d, n, rows
  <2>1. QED
    BY <1>1, <1>3, <1>4, <1>10
<1> HIDE DEF d, n, ls
<1>11. ls # <<>> <=> n > 0 /\ (floor > 0 => n - 1 > floor)
  BY <1>5, <1>7, <1>8, <1>9, <1>10
<1>12. n > 0 /\ (floor > 0 => n - 1 > floor)
         <=> n > 0 /\ (floor > 0 => floor + 1 < n)
  BY <1>1, <1>4
<1>13. QED
  BY <1>6, <1>11, <1>12 DEF ls, n


-----------------------------------------------------------------------------
(* Anchors in rows that are laid out.                                       *)

\* RowForAnchor and AnchorForRow in any rows.
RowIn(ls, a) ==
  LET own == {i \in DOMAIN ls : ls[i].id = a.id}
  IN IF own = {} THEN 0 ELSE Min({Min(own) + a.off - 1, Max(own)})

AnchorIn(ls, i) ==
  IF i < 1 \/ ls = <<>> THEN NoAnchor
  ELSE LET line == ls[Min({i, Len(ls)})] IN [id |-> line.id, off |-> line.off]

\* The anchors of rows of the first n records, or none.
AnchorsOf(n) == {NoAnchor} \union [id : 1 .. n, off : Nat \ {0}]

Own(ls, id) == {i \in 1 .. Len(ls) : ls[i].id = id}

\* What a row is.
LEMMA RowIs ==
  ASSUME NEW ls, Layout(ls)
  PROVE  /\ Len(ls) \in Nat /\ DOMAIN ls = 1 .. Len(ls)
         /\ \A i \in 1 .. Len(ls) :
              ls[i] \in Line /\ ls[i].id \in Nat \ {0} /\ ls[i].off \in Nat \ {0}
<1>1. ls \in Seq(Line)
  BY DEF Layout
<1>2. \A i \in 1 .. Len(ls) : ls[i] \in Line
  BY <1>1
<1>3. \A line \in Line : line.id \in Nat \ {0} /\ line.off \in Nat \ {0}
  BY DEF Line
<1>4. QED
  BY <1>1, <1>2, <1>3

\* The row of an anchor is within the rows, and there is none exactly if no row
\* is of the record.
LEMMA RowOfAnchor ==
  ASSUME NEW ls, Layout(ls), NEW n \in Nat, NEW a \in AnchorsOf(n)
  PROVE  /\ RowIn(ls, a) \in 0 .. Len(ls)
         /\ RowIn(ls, a) = 0 <=> Own(ls, a.id) = {}
<1>1. ls \in Seq(Line) /\ DOMAIN ls = 1 .. Len(ls) /\ Len(ls) \in Nat
  BY DEF Layout
<1> DEFINE own == Own(ls, a.id)
           m == Len(ls)
<1>2. RowIn(ls, a) = IF own = {} THEN 0 ELSE Min({Min(own) + a.off - 1, Max(own)})
  BY <1>1, Zenon DEF RowIn, Own
<1>3. own \in SUBSET (1 .. m)
  BY DEF Own
<1>4. a = NoAnchor => own = {}
  <2>1. \A i \in 1 .. m : ls[i].id # 0
    BY RowIs
  <2>2. QED
    BY <2>1 DEF NoAnchor, Own
<1>5. m \in Nat
  BY <1>1
<1>6. CASE own = {}
  BY <1>2, <1>5, <1>6
<1>7. CASE own # {}
  <2>1. a.off \in Nat \ {0}
    BY <1>4, <1>7 DEF AnchorsOf
  <2> HIDE DEF own, m
  <2>2. Min(own) \in own
    <3>1. own \in SUBSET Nat
      BY <1>3, <1>5
    <3>2. QED
      BY <1>7, <3>1, MinIs
  <2>3. Max(own) \in own
    <3>1. own \in SUBSET (0 .. m)
      BY <1>3, <1>5
    <3>2. QED
      BY <1>7, <3>1, <1>5, MaxIs
  <2>4. Min(own) \in 1 .. m /\ Max(own) \in 1 .. m
    BY <2>2, <2>3, <1>3
  <2> DEFINE x == Min(own) + a.off - 1
             y == Max(own)
  <2>5. x \in 1 .. x /\ x \in Int /\ y \in 1 .. m /\ y \in Int
    BY <2>1, <2>4, <1>5
  <2>6. RowIn(ls, a) = Min({x, y})
    BY <1>2, <1>7
  <2> HIDE DEF x, y
  <2>7. Min({x, y}) = IF x <= y THEN x ELSE y
    BY <2>5, MinOfTwo
  <2>8. Min({x, y}) \in 1 .. m
    BY <2>5, <2>7, <1>5
  <2>9. QED
    BY <1>7, <2>6, <2>8, <1>5 DEF own, m
<1>8. QED
  BY <1>6, <1>7

\* The row of the anchor of a row is that row.
LEMMA AnchorOfRow ==
  ASSUME NEW ls, Layout(ls), NEW i \in 1 .. Len(ls)
  PROVE  /\ AnchorIn(ls, i) = [id |-> ls[i].id, off |-> ls[i].off]
         /\ RowIn(ls, AnchorIn(ls, i)) = i
<1>1. ls \in Seq(Line) /\ DOMAIN ls = 1 .. Len(ls) /\ Len(ls) \in Nat
  BY DEF Layout
<1> DEFINE a == AnchorIn(ls, i)
           own == Own(ls, ls[i].id)
           m == Len(ls)
           o == ls[i].off
<1>2. a = [id |-> ls[i].id, off |-> o]
  <2>1. ls # <<>> /\ i >= 1 /\ i <= m /\ i \in Int /\ m \in Int
    BY <1>1
  <2>2. Min({i, m}) = i
    BY <2>1, MinOfTwo
  <2>3. QED
    BY <2>1, <2>2 DEF AnchorIn
<1>3. ls[i] \in Line /\ o \in Nat \ {0}
  BY RowIs
<1>4. own \in SUBSET (1 .. m) /\ i \in own
  BY DEF Own
<1>5. \A j \in own : i - o = j - ls[j].off /\ ls[j].off \in Nat \ {0}
  BY RowIs DEF Own, Layout
<1>6. (i - o) + 1 \in own
  BY DEF Own, Layout, HasRow
<1>7. RowIn(ls, a) = Min({Min(own) + o - 1, Max(own)})
  <2>1. a.id = ls[i].id /\ a.off = o
    BY <1>2
  <2>2. {j \in DOMAIN ls : ls[j].id = a.id} = own
    BY <1>1, <2>1 DEF Own
  <2>3. own # {}
    BY <1>4
  <2> HIDE DEF own, o, a
  <2>4. QED
    BY <2>1, <2>2, <2>3, Zenon DEF RowIn
<1>8. m \in Nat /\ i \in 1 .. m
  BY <1>1
<1>9. \A j \in own : (i - o) + 1 <= j
  <2>1. \A j \in own : j \in Nat
    BY <1>4, <1>8
  <2> HIDE DEF own, o
  <2>2. QED
    BY <2>1, <1>5, <1>3, <1>8
<1> HIDE DEF own, m, o
<1>10. Min(own) \in own /\ \A j \in own : Min(own) <= j
  <2>1. own \in SUBSET Nat /\ own # {}
    BY <1>4, <1>8
  <2>2. QED
    BY <2>1, MinIs
<1>11. Max(own) \in own /\ \A j \in own : j <= Max(own)
  <2>1. own \in SUBSET (0 .. m) /\ own # {}
    BY <1>4, <1>8
  <2>2. QED
    BY <2>1, <1>8, MaxIs
<1>12. Min(own) \in 1 .. m /\ Max(own) \in 1 .. m
  BY <1>4, <1>10, <1>11
<1> DEFINE lo == Min(own)
           hi == Max(own)
<1>13. lo = (i - o) + 1 /\ i <= hi /\ lo \in Nat /\ hi \in Nat
  <2>1. lo <= (i - o) + 1 /\ (i - o) + 1 <= lo /\ i <= hi
    BY <1>6, <1>9, <1>10, <1>11, <1>4
  <2>2. lo \in Nat /\ hi \in Nat
    BY <1>12, <1>8
  <2> HIDE DEF lo, hi
  <2>3. QED
    BY <2>1, <2>2, <1>3, <1>8
<1>14. RowIn(ls, a) = Min({lo + o - 1, hi})
  BY <1>7
<1> HIDE DEF lo, hi, a
<1>15. lo + o - 1 = i /\ i \in Int /\ hi \in Int
  BY <1>13, <1>3, <1>8
<1>16. Min({i, hi}) = i
  BY <1>15, <1>13, MinOfTwo
<1>17. RowIn(ls, a) = i
  BY <1>14, <1>15, <1>16
<1>18. QED
  BY <1>2, <1>17 DEF a, o

\* The anchor of a row, wherever it is asked for, is one of a record.
LEMMA AnchorIsGood ==
  ASSUME NEW ls, Layout(ls), NEW n \in Nat, NEW i \in Int,
         \A j \in 1 .. Len(ls) : ls[j].id \in 1 .. n
  PROVE  AnchorIn(ls, i) \in AnchorsOf(n)
<1>1. ls \in Seq(Line) /\ Len(ls) \in Nat
  BY DEF Layout
<1>2. CASE i < 1 \/ ls = <<>>
  BY <1>2 DEF AnchorIn, AnchorsOf
<1>3. CASE ~ (i < 1 \/ ls = <<>>)
  <2> DEFINE j == Min({i, Len(ls)})
             m == Len(ls)
  <2>1. m \in Nat \ {0} /\ m \in Int /\ i \in Int /\ i >= 1
    BY <1>1, <1>3
  <2>2. Min({i, m}) = IF i <= m THEN i ELSE m
    <3> HIDE DEF m
    <3>1. QED
      BY <2>1, MinOfTwo
  <2>3. j \in 1 .. Len(ls)
    BY <2>1, <2>2
  <2> HIDE DEF j
  <2>4. ls[j] \in Line /\ ls[j].id \in 1 .. n /\ ls[j].off \in Nat \ {0}
    BY <2>3, RowIs
  <2>5. AnchorIn(ls, i) = [id |-> ls[j].id, off |-> ls[j].off]
    BY <1>3 DEF AnchorIn, j
  <2>6. QED
    BY <2>4, <2>5 DEF AnchorsOf
<1>4. QED
  BY <1>2, <1>3


-----------------------------------------------------------------------------
(* The inductive invariant.                                                 *)

FeedOK ==
  /\ ring \in Seq(Kinds)
  /\ rendered \in BOOLEAN
  /\ FloorOK(ring, clearedSeq)
  /\ lines = LinesOf(ring, rendered, clearedSeq)

ShowsOK == groupOff \subseteq Groups /\ collapseMultiline \in BOOLEAN

ViewportOK == tailMode \in BOOLEAN /\ streamTopA \in AnchorsOf(Len(ring))

SearchOK ==
  /\ searching \in BOOLEAN
  /\ filterMode \in BOOLEAN
  /\ searchHitA \in AnchorsOf(Len(ring))
  /\ wrapPrompt \in {"", "next", "prev"}
  /\ filterMode \/ wrapPrompt # "" => searching

VisualOK ==
  /\ visualMode \in BOOLEAN
  /\ visualCursorA \in AnchorsOf(Len(ring))
  /\ visualAnchorA \in AnchorsOf(Len(ring))
  /\ visualMode => lines # <<>> /\ ~ tailMode

\* The window is that of a floor below the last line, an anchor names a record
\* and a row of it or nothing, and visual mode has rows and does not follow the
\* tail.
NavInv == FeedOK /\ ShowsOK /\ ViewportOK /\ blockFocused \in BOOLEAN /\ SearchOK /\ VisualOK

LEMMA InvGivesType == NavInv => TypeOK
<1>1. SUFFICES ASSUME NavInv
               PROVE  TypeOK
  OBVIOUS
<1>2. AnchorsOf(Len(ring)) \subseteq Anchors
  <2>1. Len(ring) \in Nat
    BY <1>1 DEF NavInv, FeedOK
  <2>2. QED
    BY <2>1 DEF AnchorsOf, Anchors, NoAnchor
<1>3. clearedSeq \in Nat
  BY <1>1 DEF NavInv, FeedOK, FloorOK
<1>4. {streamTopA, searchHitA, visualCursorA, visualAnchorA} \subseteq Anchors
  BY <1>1, <1>2 DEF NavInv, ViewportOK, SearchOK, VisualOK
<1>5. QED
  BY <1>1, <1>3, <1>4 DEF NavInv, FeedOK, ShowsOK, ViewportOK, SearchOK, VisualOK, TypeOK

\* The window is laid out, of lines that have arrived.
LEMMA WindowIsLaidOut ==
  ASSUME FeedOK
  PROVE  /\ Layout(lines)
         /\ Len(lines) \in Nat
         /\ DOMAIN lines = 1 .. Len(lines)
         /\ Len(ring) \in Nat
         /\ \A i \in 1 .. Len(lines) : lines[i].id \in 1 .. Len(ring)
<1>1. /\ ring \in Seq(Kinds) /\ rendered \in BOOLEAN /\ FloorOK(ring, clearedSeq)
      /\ lines = LinesOf(ring, rendered, clearedSeq)
  BY DEF FeedOK
<1>2. Layout(lines) /\ \A i \in 1 .. Len(lines) : lines[i].id \in 1 .. Len(ring)
  BY <1>1, LinesAreLaidOut
<1>3. QED
  BY <1>1, <1>2, RowIs

\* Sets of rows are sets of rows of the window, and anchored rows are in it.
LEMMA RowsAreRows ==
  ASSUME NavInv
  PROVE  /\ EnabledRows \in SUBSET (1 .. Len(lines))
         /\ FilteredRows \in SUBSET (1 .. Len(lines))
         /\ BlockStarts \in SUBSET (1 .. Len(lines))
         /\ \A i \in EnabledRows : lines[i].row.hit => i \in FilteredRows
<1>1. DOMAIN lines = 1 .. Len(lines)
  BY WindowIsLaidOut DEF NavInv
<1>2. EnabledRows \in SUBSET (1 .. Len(lines)) /\ BlockStarts \in SUBSET (1 .. Len(lines))
  BY <1>1 DEF EnabledRows, BlockStarts
<1>3. FilteredRows \in SUBSET (1 .. Len(lines))
  BY <1>1 DEF FilteredRows
<1>4. \A i \in EnabledRows : lines[i].row.hit => i \in FilteredRows
  BY DEF EnabledRows, Enabled, FilteredRows
<1>5. QED
  BY <1>2, <1>3, <1>4

LEMMA AnchoredRowsAreRows ==
  ASSUME NavInv
  PROVE  /\ StreamTopRow \in Nat \ {0}
         /\ VisualCursorRow \in Nat \ {0}
         /\ SearchHitRow \in 0 .. Len(lines)
         /\ VisualAnchorRow \in 0 .. Len(lines)
         /\ lines # <<>> => /\ StreamTopRow \in 1 .. Len(lines)
                            /\ VisualCursorRow \in 1 .. Len(lines)
<1>1. /\ Layout(lines) /\ Len(lines) \in Nat /\ Len(ring) \in Nat
      /\ lines # <<>> => Len(lines) # 0
  <2>1. FeedOK
    BY DEF NavInv
  <2>2. Layout(lines) /\ Len(lines) \in Nat /\ Len(ring) \in Nat
    BY <2>1, WindowIsLaidOut
  <2>3. lines \in Seq(Line)
    BY <2>2 DEF Layout
  <2>4. QED
    BY <2>2, <2>3
<1>2. \A a : RowForAnchor(a) = RowIn(lines, a)
  BY Zenon DEF RowForAnchor, RowIn
<1>3. /\ streamTopA \in AnchorsOf(Len(ring)) /\ searchHitA \in AnchorsOf(Len(ring))
      /\ visualCursorA \in AnchorsOf(Len(ring)) /\ visualAnchorA \in AnchorsOf(Len(ring))
  BY DEF NavInv, ViewportOK, SearchOK, VisualOK
<1>4. /\ RowForAnchor(streamTopA) \in 0 .. Len(lines)
      /\ RowForAnchor(searchHitA) \in 0 .. Len(lines)
      /\ RowForAnchor(visualCursorA) \in 0 .. Len(lines)
      /\ RowForAnchor(visualAnchorA) \in 0 .. Len(lines)
  BY <1>1, <1>2, <1>3, RowOfAnchor
<1>5. \A i \in 0 .. Len(lines) : /\ OrFirst(i) \in Nat \ {0}
                                 /\ lines # <<>> => OrFirst(i) \in 1 .. Len(lines)
  BY <1>1 DEF OrFirst
<1>6. QED
  BY <1>4, <1>5 DEF StreamTopRow, VisualCursorRow, SearchHitRow, VisualAnchorRow

\* Whatever row an anchor is made of, it is a good one.
LEMMA AnchorsAreGood ==
  ASSUME NavInv
  PROVE  /\ NoAnchor \in AnchorsOf(Len(ring))
         /\ lines = <<>> => \A i : AnchorForRow(i) = NoAnchor
         /\ \A i \in Int : AnchorForRow(i) \in AnchorsOf(Len(ring))
<1>1. /\ Layout(lines) /\ Len(ring) \in Nat
      /\ \A i \in 1 .. Len(lines) : lines[i].id \in 1 .. Len(ring)
  BY WindowIsLaidOut DEF NavInv
<1>2. \A i : AnchorForRow(i) = AnchorIn(lines, i)
  BY Zenon DEF AnchorForRow, AnchorIn
<1>3. \A i \in Int : AnchorIn(lines, i) \in AnchorsOf(Len(ring))
  BY <1>1, AnchorIsGood
<1>4. QED
  BY <1>2, <1>3 DEF AnchorsOf, AnchorForRow


-----------------------------------------------------------------------------
(* What the keys land on.                                                   *)

LEMMA UnstickRowIs ==
  ASSUME NavInv
  PROVE  /\ UnstickRow \in Nat \ {0}
         /\ UnstickRow = 1 \/ UnstickRow \in LastN(EnabledRows, ContentHeight)
         /\ \A i \in LastN(EnabledRows, ContentHeight) : UnstickRow <= i
<1> DEFINE n == Len(lines)
           L == LastN(EnabledRows, ContentHeight)
<1>1. n \in Nat /\ EnabledRows \in SUBSET (1 .. n) /\ ContentHeight \in Nat \ {0}
  BY WindowIsLaidOut, RowsAreRows, NavAssumption DEF NavInv
<1> HIDE DEF n
<1>2. L \in SUBSET EnabledRows /\ (EnabledRows # {} => L # {})
  BY <1>1, LastNIsATail
<1>3. Cardinality(EnabledRows) \in Nat /\ (Cardinality(EnabledRows) = 0 <=> EnabledRows = {})
  BY <1>1, RowsAreFinite
<1>4. L \in SUBSET (1 .. n)
  BY <1>1, <1>2
<1>5. CASE Cardinality(EnabledRows) < ContentHeight
  <2>1. UnstickRow = 1
    BY <1>5 DEF UnstickRow
  <2> HIDE DEF L
  <2>2. \A i \in L : 1 <= i
    BY <1>1, <1>4
  <2>3. QED
    BY <2>1, <2>2 DEF L
<1>6. CASE ~ (Cardinality(EnabledRows) < ContentHeight)
  <2>1. UnstickRow = Min(L) /\ L # {}
    BY <1>1, <1>2, <1>3, <1>6 DEF UnstickRow
  <2> HIDE DEF L
  <2>2. L \in SUBSET Nat
    BY <1>1, <1>4
  <2>3. Min(L) \in L /\ \A i \in L : Min(L) <= i
    BY <2>1, <2>2, MinIs
  <2>4. QED
    BY <2>1, <2>3, <1>4, <1>1 DEF L
<1>7. QED
  BY <1>5, <1>6

LEMMA StepsAreRows ==
  ASSUME NavInv, NEW i \in Nat, NEW k \in Nat \ {0}
  PROVE  StepUp(i, k) \in Nat /\ StepDown(i, k) \in Nat
<1> DEFINE n == Len(lines)
           above == {j \in EnabledRows : j < i}
           below == {j \in EnabledRows : j > i}
<1>1. n \in Nat /\ above \in SUBSET (1 .. n) /\ below \in SUBSET (1 .. n)
  <2>1. EnabledRows \in SUBSET (1 .. n)
    BY RowsAreRows
  <2>2. QED
    BY <2>1, WindowIsLaidOut DEF NavInv
<1>2. /\ StepUp(i, k) = IF Cardinality(above) >= k THEN Min(LastN(above, k)) ELSE 1
      /\ StepDown(i, k) = IF Cardinality(below) >= k THEN Nth(below, k) ELSE Max({i, n})
  BY DEF StepUp, StepDown
<1> HIDE DEF n, above, below
<1>3. /\ Cardinality(above) \in Nat /\ (Cardinality(above) = 0 <=> above = {})
      /\ Cardinality(below) \in Nat
  BY <1>1, RowsAreFinite
<1>4. StepUp(i, k) \in Nat
  <2>1. CASE Cardinality(above) >= k
    <3>1. above # {}
      BY <2>1, <1>3
    <3>2. LastN(above, k) \in SUBSET above /\ LastN(above, k) # {}
      BY <3>1, <1>1, LastNIsATail
    <3>3. LastN(above, k) \in SUBSET Nat
      <4>1. \A j \in above : j \in Nat
        BY <1>1
      <4>2. QED
        BY <3>2, <4>1
    <3>4. Min(LastN(above, k)) \in LastN(above, k)
      BY <3>2, <3>3, MinIs
    <3>5. QED
      BY <2>1, <3>3, <3>4, <1>2
  <2>2. QED
    BY <2>1, <1>2
<1>5. StepDown(i, k) \in Nat
  <2>1. CASE Cardinality(below) >= k
    <3>1. k \in 1 .. Cardinality(below)
      BY <2>1, <1>3
    <3>2. Nth(below, k) \in below
      BY <3>1, <1>1, NthIs
    <3>3. Nth(below, k) \in 1 .. n
      BY <3>2, <1>1
    <3>4. QED
      BY <2>1, <3>3, <1>1, <1>2
  <2>2. CASE ~ (Cardinality(below) >= k)
    <3>1. Max({i, n}) \in Nat
      BY <1>1, MaxOfTwo
    <3>2. QED
      BY <2>2, <3>1, <1>2
  <2>3. QED
    BY <2>1, <2>2
<1>6. QED
  BY <1>4, <1>5

\* A search finds nothing, or a row that matches and is not hidden.
IsHit(i) == i \in EnabledRows /\ lines[i].row.hit

LEMMA SearchFindsHits ==
  ASSUME NavInv, NEW start
  PROVE  /\ FindDown(start) = 0 \/ IsHit(FindDown(start))
         /\ FindUp(start) = 0 \/ IsHit(FindUp(start))
<1> DEFINE n == Len(lines)
           down == {i \in EnabledRows : lines[i].row.hit /\ i >= Min({start, n})}
           up == {i \in EnabledRows : lines[i].row.hit /\ i <= Max({start, 1})}
<1>1. n \in Nat /\ EnabledRows \in SUBSET (1 .. n)
  BY WindowIsLaidOut, RowsAreRows DEF NavInv
<1>2. /\ FindDown(start) = IF down = {} THEN 0 ELSE Min(down)
      /\ FindUp(start) = IF up = {} THEN 0 ELSE Max(up)
  BY DEF FindDown, FindUp
<1>3. (\A i \in down : IsHit(i)) /\ (\A i \in up : IsHit(i))
  BY DEF IsHit
<1>4. down \in SUBSET (1 .. n) /\ up \in SUBSET (1 .. n)
  BY <1>1
<1> HIDE DEF n, down, up
<1>5. down \in SUBSET Nat /\ up \in SUBSET (0 .. n)
  BY <1>1, <1>4
<1>6. down # {} => Min(down) \in down
  BY <1>5, MinIs
<1>7. up # {} => Max(up) \in up
  BY <1>1, <1>5, MaxIs
<1>8. QED
  BY <1>2, <1>3, <1>6, <1>7

\* The rank of a row in a set that it is in.
LEMMA RankIs ==
  ASSUME NEW n \in Nat, NEW S \in SUBSET (1 .. n), NEW h \in S
  PROVE  Cardinality({i \in S : i <= h}) \in 1 .. Cardinality(S)
<1> DEFINE T == {i \in S : i <= h}
<1>1. h \in T /\ T \in SUBSET S /\ T \in SUBSET (1 .. n)
  <2>1. h \in Nat /\ h <= h
    OBVIOUS
  <2>2. h \in T
    BY <2>1
  <2>3. T \in SUBSET S
    OBVIOUS
  <2> HIDE DEF T
  <2>4. QED
    BY <2>2, <2>3
<1> HIDE DEF T
<1>2. Cardinality(T) \in Nat /\ (Cardinality(T) = 0 <=> T = {})
  BY <1>1, RowsAreFinite
<1>3. Cardinality(T) <= Cardinality(S) /\ Cardinality(S) \in Nat
  BY <1>1, RowsAreFinite
<1>4. Cardinality(T) \in 1 .. Cardinality(S)
  BY <1>1, <1>2, <1>3
<1>5. QED
  BY <1>4 DEF T

\* jumpToHit puts a row of the screen above the hit or at it, less than a
\* screen of rows before it.
LEMMA CentredTopIs ==
  ASSUME NavInv, NEW h, IsHit(h)
  PROVE  /\ CentredTop(h) \in 1 .. Len(lines)
         /\ CentredTop(h) <= h
         /\ ~ filterMode => h - CentredTop(h) < ContentHeight
         /\ filterMode => /\ CentredTop(h) \in FilteredRows
                          /\ Cardinality({i \in FilteredRows : i <= h})
                               < Cardinality({i \in FilteredRows : i <= CentredTop(h)})
                                   + ContentHeight
<1> DEFINE n == Len(lines)
           F == FilteredRows
           half == ContentHeight \div 2
           rank == Cardinality({i \in F : i <= h})
           k == Max({1, rank - half})
<1>1. /\ n \in Nat /\ F \in SUBSET (1 .. n) /\ h \in F /\ h \in 1 .. n
      /\ ContentHeight \in Nat \ {0}
  BY WindowIsLaidOut, RowsAreRows, NavAssumption DEF NavInv, IsHit
<1>2. half \in Nat /\ half < ContentHeight
  BY <1>1
<1>3. rank \in 1 .. Cardinality(F) /\ Cardinality(F) \in Nat
  BY <1>1, RankIs, RowsAreFinite
<1>4. CentredTop(h) = IF filterMode THEN Nth(F, k) ELSE Max({1, h - half})
  BY DEF CentredTop
<1> HIDE DEF n, F, half, rank
<1>5. CASE ~ filterMode
  <2>1. h - half \in Int /\ h \in Nat
    BY <1>1, <1>2
  <2>2. Max({1, h - half}) = IF 1 <= h - half THEN h - half ELSE 1
    BY <2>1, MaxOfTwo
  <2> DEFINE c == CentredTop(h)
  <2>3. c = IF 1 <= h - half THEN h - half ELSE 1
    BY <1>4, <1>5, <2>2
  <2> HIDE DEF c
  <2>4. c \in 1 .. n /\ c <= h /\ h - c < ContentHeight
    BY <1>1, <1>2, <2>3
  <2>5. QED
    BY <1>5, <2>4 DEF c, n
<1>6. CASE filterMode
  <2>1. rank - half \in Int /\ rank \in Nat
    BY <1>2, <1>3
  <2>2. k = IF 1 <= rank - half THEN rank - half ELSE 1
    BY <2>1, MaxOfTwo
  <2> HIDE DEF k
  <2>3. k \in 1 .. Cardinality(F) /\ k <= rank /\ rank < k + ContentHeight
    BY <1>1, <1>2, <1>3, <2>2
  <2>4. Nth(F, k) \in F /\ Cardinality({i \in F : i <= Nth(F, k)}) = k
    BY <1>1, <2>3, NthIs
  <2>5. Nth(F, k) <= h
    <3> DEFINE c == Nth(F, k)
               A == {i \in F : i <= h}
               B == {i \in F : i <= c}
    <3>1. c \in F /\ c \in 1 .. n
      BY <2>4, <1>1
    <3> HIDE DEF c
    <3>2. SUFFICES ASSUME c > h
                   PROVE  FALSE
      BY <3>1, <1>1 DEF c
    <3>3. A \in SUBSET (B \ {c}) /\ c \in B /\ B \in SUBSET (1 .. n)
      <4>1. \A i \in F : i \in 1 .. n
        BY <1>1
      <4>2. \A i \in F : i <= h => i <= c /\ i # c
        BY <1>1, <3>1, <3>2, <4>1
      <4>3. c \in B
        BY <3>1, <1>1
      <4>4. B \in SUBSET (1 .. n)
        BY <4>1
      <4>5. \A i \in A : i \in B /\ i # c
        BY <4>2
      <4> HIDE DEF A, B
      <4>6. QED
        BY <4>3, <4>4, <4>5
    <3> HIDE DEF A, B
    <3>4. IsFiniteSet(B) /\ Cardinality(B) \in Nat
      BY <1>1, <3>3, RowsAreFinite
    <3>5. IsFiniteSet(B \ {c}) /\ Cardinality(B \ {c}) = Cardinality(B) - 1
      BY <3>3, <3>4, FS_RemoveElement
    <3>6. Cardinality(A) <= Cardinality(B \ {c})
      BY <3>3, <3>5, FS_Subset
    <3>7. Cardinality(A) = rank /\ Cardinality(B) = k
      BY <2>4 DEF A, B, c, rank
    <3>8. QED
      BY <3>5, <3>6, <3>7, <2>3, <1>3
  <2>6. /\ Nth(F, k) \in 1 .. n
        /\ Cardinality({i \in F : i <= h})
             < Cardinality({i \in F : i <= Nth(F, k)}) + ContentHeight
    BY <2>3, <2>4, <1>1 DEF rank
  <2>7. QED
    BY <1>4, <1>6, <2>4, <2>5, <2>6 DEF F, n
<1>7. QED
  BY <1>5, <1>6


-----------------------------------------------------------------------------
(* The invariant is kept.                                                   *)

LEMMA InitHolds == Init => NavInv
<1>1. SUFFICES ASSUME Init
               PROVE  NavInv
  OBVIOUS
<1>2. <<>> \in Seq(Kinds) /\ TRUE \in BOOLEAN /\ FloorOK(<<>>, 0) /\ Len(<<>>) = 0
  BY DEF FloorOK
<1>3. LinesOf(<<>>, TRUE, 0) = <<>>
  BY <1>2, RowsAreShown
<1>4. FeedOK
  BY <1>1, <1>2, <1>3 DEF Init, FeedOK
<1>5. NoAnchor \in AnchorsOf(Len(ring))
  BY DEF AnchorsOf
<1>6. ViewportOK /\ SearchOK /\ VisualOK /\ blockFocused \in BOOLEAN
  BY <1>1, <1>5 DEF Init, ViewportOK, SearchOK, VisualOK
<1>7. ShowsOK
  BY <1>1, NavAssumption DEF Init, ShowsOK
<1>8. QED
  BY <1>4, <1>6, <1>7 DEF NavInv

\* The parts of the invariant of which a step changes nothing.
LEMMA UntouchedPartsHold ==
  ASSUME NavInv, feed' = feed
  PROVE  /\ FeedOK'
         /\ Len(ring)' = Len(ring)
         /\ shows' = shows => ShowsOK'
         /\ viewport' = viewport => ViewportOK'
         /\ search' = search => SearchOK'
         /\ visual' = visual /\ (visualMode => tailMode' = tailMode) => VisualOK'
<1>1. ring' = ring /\ rendered' = rendered /\ clearedSeq' = clearedSeq /\ lines' = lines
  BY DEF feed
<1>2. FeedOK' /\ Len(ring)' = Len(ring)
  BY <1>1 DEF NavInv, FeedOK
<1>3. shows' = shows => ShowsOK'
  BY DEF NavInv, ShowsOK, shows
<1>4. viewport' = viewport => ViewportOK'
  BY <1>2 DEF NavInv, ViewportOK, viewport
<1>5. search' = search => SearchOK'
  <2>1. ASSUME search' = search
        PROVE  SearchOK'
    <3>1. /\ searching' = searching /\ searchHitA' = searchHitA
          /\ filterMode' = filterMode /\ wrapPrompt' = wrapPrompt
      BY <2>1, Zenon DEF search
    <3>2. QED
      BY <3>1, <1>2, Zenon DEF NavInv, SearchOK
  <2>2. QED
    BY <2>1
<1>6. visual' = visual /\ (visualMode => tailMode' = tailMode) => VisualOK'
  BY <1>1, <1>2 DEF NavInv, VisualOK, visual
<1>7. QED
  BY <1>2, <1>3, <1>4, <1>5, <1>6

\* When lines arrive, or are rendered anew, all that was anchored still is.
LEMMA NewRowsKeep ==
  ASSUME NavInv, FeedOK', Len(ring) <= Len(ring'), ShowsOK',
         viewport' = viewport, search' = search, visual' = visual,
         blockFocused' \in BOOLEAN, visualMode => lines' # <<>>
  PROVE  NavInv'
<1>1. Len(ring) \in Nat /\ Len(ring') \in Nat
  BY DEF NavInv, FeedOK
<1> DEFINE n == Len(ring)
           m == Len(ring')
<1>2. AnchorsOf(n) \subseteq AnchorsOf(m)
  <2>1. n \in Nat /\ m \in Nat /\ n <= m
    BY <1>1
  <2> HIDE DEF n, m
  <2>2. 1 .. n \subseteq 1 .. m
    BY <2>1
  <2>3. QED
    BY <2>2 DEF AnchorsOf
<1>3. ViewportOK'
  BY <1>2 DEF NavInv, ViewportOK, viewport
<1>4. SearchOK'
  <2>1. /\ searching' = searching /\ searchHitA' = searchHitA
        /\ filterMode' = filterMode /\ wrapPrompt' = wrapPrompt
    BY Zenon DEF search
  <2>2. searchHitA \in AnchorsOf(m)
    BY <1>2 DEF NavInv, SearchOK
  <2>3. QED
    BY <2>1, <2>2, Zenon DEF NavInv, SearchOK
<1>5. VisualOK'
  BY <1>2 DEF NavInv, VisualOK, visual, viewport
<1>6. QED
  BY <1>3, <1>4, <1>5 DEF NavInv

LEMMA ArrivalsKeep == NavInv /\ Arrivals => NavInv'
<1>1. ASSUME NavInv, NEW kind \in Kinds, Push(kind)
      PROVE  NavInv'
  <2>1. /\ ring' = Append(ring, kind) /\ rendered' = rendered /\ clearedSeq' = clearedSeq
        /\ lines' = LinesOf(ring', rendered', clearedSeq')
        /\ shows' = shows /\ viewport' = viewport /\ search' = search /\ visual' = visual
        /\ blockFocused' \in BOOLEAN
    BY <1>1 DEF Push, Reconcile, NavInv, shows, viewport, search, visual
  <2>2. /\ ring \in Seq(Kinds) /\ rendered \in BOOLEAN /\ FloorOK(ring, clearedSeq)
        /\ lines = LinesOf(ring, rendered, clearedSeq)
    BY <1>1 DEF NavInv, FeedOK
  <2>3. ring' \in Seq(Kinds) /\ Len(ring') = Len(ring) + 1 /\ Len(ring) \in Nat /\ ring' # <<>>
    BY <2>1, <2>2
  <2>4. FloorOK(ring', clearedSeq')
    BY <2>1, <2>2, <2>3 DEF FloorOK
  <2>5. FeedOK'
    BY <2>1, <2>2, <2>3, <2>4 DEF FeedOK
  <2>6. lines # <<>> => lines' # <<>>
    <3>1. lines # <<>> => (clearedSeq > 0 => clearedSeq + 1 < Len(ring))
      BY <2>2, RowsAreShown
    <3>2. lines' # <<>> <=> ring' # <<>> /\ (clearedSeq > 0 => clearedSeq + 1 < Len(ring'))
      <4>1. lines' = LinesOf(ring', rendered, clearedSeq) /\ FloorOK(ring', clearedSeq)
        BY <2>1, <2>4
      <4>2. LinesOf(ring', rendered, clearedSeq) # <<>>
              <=> ring' # <<>> /\ (clearedSeq > 0 => clearedSeq + 1 < Len(ring'))
        BY <4>1, <2>2, <2>3, RowsAreShown
      <4>3. QED
        BY <4>1, <4>2
    <3>3. clearedSeq \in Nat
      BY <2>2 DEF FloorOK
    <3>4. QED
      BY <3>1, <3>2, <3>3, <2>3
  <2>7. ShowsOK'
    BY <1>1, <2>1 DEF NavInv, ShowsOK, shows
  <2>8. visualMode => lines' # <<>>
    BY <1>1, <2>6 DEF NavInv, VisualOK
  <2>9. Len(ring) <= Len(ring')
    BY <2>3
  <2>10. QED
    BY <1>1, <2>1, <2>5, <2>7, <2>8, <2>9, NewRowsKeep
<1>2. ASSUME NavInv, Reload
      PROVE  NavInv'
  <2>1. /\ ring' = ring /\ rendered' = TRUE /\ clearedSeq' = clearedSeq
        /\ lines' = LinesOf(ring', rendered', clearedSeq')
        /\ groupOff' = StartOff /\ collapseMultiline' = collapseMultiline
        /\ viewport' = viewport /\ search' = search /\ visual' = visual
        /\ blockFocused' \in BOOLEAN
    BY <1>2 DEF Reload, Reconcile, NavInv, viewport, search, visual
  <2>2. /\ ring \in Seq(Kinds) /\ rendered \in BOOLEAN /\ FloorOK(ring, clearedSeq)
        /\ lines = LinesOf(ring, rendered, clearedSeq)
    BY <1>2 DEF NavInv, FeedOK
  <2>3. FeedOK' /\ Len(ring) <= Len(ring')
    BY <2>1, <2>2 DEF FeedOK
  <2>4. lines # <<>> => lines' # <<>>
    BY <2>1, <2>2, RowsAreShown
  <2>5. ShowsOK'
    BY <1>2, <2>1, NavAssumption DEF NavInv, ShowsOK
  <2>6. visualMode => lines' # <<>>
    BY <1>2, <2>4 DEF NavInv, VisualOK
  <2>7. QED
    BY <1>2, <2>1, <2>3, <2>5, <2>6, NewRowsKeep
<1>3. QED
  BY <1>1, <1>2 DEF Arrivals

LEMMA TogglesKeep == NavInv /\ Toggles => NavInv'
<1>1. ASSUME NavInv, ToggleRenderer
      PROVE  NavInv'
  <2>1. /\ ring' = ring /\ rendered' = (~ rendered) /\ clearedSeq' = clearedSeq
        /\ lines' = LinesOf(ring', rendered', clearedSeq')
        /\ shows' = shows /\ viewport' = viewport /\ search' = search /\ visual' = visual
        /\ blockFocused' \in BOOLEAN /\ ~ visualMode
    BY <1>1 DEF ToggleRenderer, Key, Reconcile, NavInv, shows, viewport, search, visual
  <2>2. FeedOK' /\ Len(ring) <= Len(ring')
    BY <1>1, <2>1 DEF NavInv, FeedOK
  <2>3. ShowsOK'
    BY <1>1, <2>1 DEF NavInv, ShowsOK, shows
  <2>4. QED
    BY <1>1, <2>1, <2>2, <2>3, NewRowsKeep
<1>2. ASSUME NavInv, NEW group \in Groups, ToggleGroup(group)
      PROVE  NavInv'
  <2>1. /\ feed' = feed /\ viewport' = viewport /\ search' = search /\ visual' = visual
        /\ blockFocused' = blockFocused /\ tailMode' = tailMode
    BY <1>2 DEF ToggleGroup, viewport, feed, search, visual
  <2>2. groupOff' \subseteq Groups /\ collapseMultiline' = collapseMultiline
    BY <1>2 DEF ToggleGroup, NavInv, ShowsOK
  <2>3. ShowsOK'
    BY <1>2, <2>2 DEF NavInv, ShowsOK
  <2>4. QED
    BY <1>2, <2>1, <2>3, UntouchedPartsHold DEF NavInv
<1>3. ASSUME NavInv, CollapseAll
      PROVE  NavInv'
  <2>1. /\ feed' = feed /\ viewport' = viewport /\ search' = search /\ visual' = visual
        /\ blockFocused' = blockFocused /\ tailMode' = tailMode
    BY <1>3 DEF CollapseAll, viewport, feed, search, visual
  <2>2. ShowsOK'
    BY <1>3 DEF CollapseAll, NavInv, ShowsOK
  <2>3. QED
    BY <1>3, <2>1, <2>2, UntouchedPartsHold DEF NavInv
<1>4. ASSUME NavInv, Clear
      PROVE  NavInv'
  <2>1. /\ ring' = ring /\ rendered' = rendered
        /\ clearedSeq' = IF ring = <<>> THEN clearedSeq ELSE Len(ring) - 1
        /\ lines' = LinesOf(ring, rendered, clearedSeq')
        /\ groupOff' = groupOff /\ collapseMultiline' = collapseMultiline
        /\ tailMode' = TRUE /\ streamTopA' = NoAnchor
        /\ searching' = searching /\ searchHitA' = NoAnchor
        /\ filterMode' = FALSE /\ wrapPrompt' = wrapPrompt /\ wrapPrompt = ""
        /\ visualMode' = visualMode /\ visualCursorA' = visualCursorA
        /\ visualAnchorA' = visualAnchorA /\ ~ visualMode
        /\ blockFocused' = blockFocused
    BY <1>4 DEF Clear, Key, shows, visual
  <2>2. ring \in Seq(Kinds) /\ rendered \in BOOLEAN /\ FloorOK(ring, clearedSeq)
    BY <1>4 DEF NavInv, FeedOK
  <2>3. FloorOK(ring, clearedSeq')
    <3>1. CASE ring = <<>>
      BY <2>1, <2>2, <3>1
    <3>2. CASE ring # <<>>
      <4> DEFINE n == Len(ring)
      <4>1. n \in Nat \ {0}
        BY <2>2, <3>2
      <4>0. clearedSeq' = n - 1
        BY <2>1, <3>2
      <4> HIDE DEF n
      <4>2. clearedSeq' \in Nat /\ clearedSeq' < n
        BY <4>0, <4>1
      <4>3. QED
        BY <4>2 DEF FloorOK, n
    <3>3. QED
      BY <3>1, <3>2
  <2>4. FeedOK' /\ ShowsOK'
    BY <1>4, <2>1, <2>2, <2>3 DEF NavInv, FeedOK, ShowsOK
  <2>5. NoAnchor \in AnchorsOf(Len(ring)) /\ Len(ring)' = Len(ring)
    BY <2>1 DEF AnchorsOf
  <2>6. ViewportOK' /\ SearchOK' /\ VisualOK'
    BY <1>4, <2>1, <2>5 DEF NavInv, ViewportOK, SearchOK, VisualOK
  <2>7. QED
    BY <1>4, <2>1, <2>4, <2>6 DEF NavInv
<1>5. QED
  BY <1>1, <1>2, <1>3, <1>4 DEF Toggles


\* A key outside visual mode moves the viewport or changes the search.
LEMMA KeysKeep ==
  ASSUME NavInv, feed' = feed, shows' = shows, visual' = visual, ~ visualMode,
         ViewportOK', SearchOK', blockFocused' \in BOOLEAN
  PROVE  NavInv'
<1>1. FeedOK' /\ ShowsOK' /\ VisualOK'
  BY UntouchedPartsHold
<1>2. QED
  BY <1>1 DEF NavInv

\* Wherever a key moves the viewport to, it is anchored in the window.
LEMMA ScrollingAnchors ==
  ASSUME NavInv, feed' = feed, NEW k \in Nat \ {0}, ScrollUp(k) \/ ScrollDown(k)
  PROVE  ViewportOK'
<1>1. ring' = ring /\ StreamTopRow \in Nat /\ BrowseTop \in Nat
  <2>1. StreamTopRow \in Nat /\ UnstickRow \in Nat
    BY AnchoredRowsAreRows, UnstickRowIs
  <2>2. QED
    BY <2>1 DEF BrowseTop, feed
<1>2. \A i \in Nat : AnchorForRow(i) \in AnchorsOf(Len(ring))
  BY AnchorsAreGood
<1>3. CASE ScrollUp(k)
  <2>1. StepUp(BrowseTop, k) \in Nat
    BY <1>1, StepsAreRows
  <2>2. QED
    BY <1>1, <1>2, <1>3, <2>1 DEF ScrollUp, ViewportOK
<1>4. CASE ScrollDown(k)
  <2>1. StepDown(StreamTopRow, k) \in Nat
    BY <1>1, StepsAreRows
  <2>2. CASE tailMode
    <3>1. viewport' = viewport
      BY <1>4, <2>2 DEF ScrollDown
    <3>2. QED
      BY <3>1, UntouchedPartsHold
  <2>3. CASE ~ tailMode
    <3>1. streamTopA' = AnchorForRow(StepDown(StreamTopRow, k)) /\ tailMode' \in BOOLEAN
      BY <1>4, <2>3 DEF ScrollDown
    <3>2. QED
      BY <3>1, <2>1, <1>1, <1>2 DEF ViewportOK
  <2>4. QED
    BY <2>2, <2>3
<1>5. QED
  BY <1>3, <1>4

LEMMA JumpingAnchors ==
  ASSUME NavInv, feed' = feed, NEW h, IsHit(h), JumpToHit(h)
  PROVE  /\ ViewportOK'
         /\ searchHitA' \in AnchorsOf(Len(ring'))
<1>1. /\ tailMode' = FALSE /\ searchHitA' = AnchorForRow(h)
      /\ streamTopA' = AnchorForRow(CentredTop(h)) /\ ring' = ring
  BY DEF JumpToHit, feed
<1>2. h \in Int /\ CentredTop(h) \in Int
  <2>1. h \in 1 .. Len(lines)
    BY RowsAreRows DEF IsHit
  <2>2. CentredTop(h) \in 1 .. Len(lines)
    BY CentredTopIs
  <2>3. QED
    BY <2>1, <2>2
<1>3. /\ AnchorForRow(h) \in AnchorsOf(Len(ring))
      /\ AnchorForRow(CentredTop(h)) \in AnchorsOf(Len(ring))
  BY <1>2, AnchorsAreGood
<1>4. QED
  BY <1>1, <1>3 DEF ViewportOK

\* Between two searches nothing moves, or the hit and the viewport do.
LEMMA StayingAnchors ==
  ASSUME NavInv, feed' = feed, Stay
  PROVE  ViewportOK' /\ searchHitA' \in AnchorsOf(Len(ring'))
<1>1. viewport' = viewport /\ searchHitA' = searchHitA /\ ring' = ring
  BY DEF Stay, feed
<1>2. QED
  BY <1>1, UntouchedPartsHold DEF NavInv, SearchOK

LEMMA SearchingKeeps ==
  ASSUME NavInv, feed' = feed, searching' = searching, filterMode' = filterMode,
         SearchNext \/ SearchPrev
  PROVE  ViewportOK' /\ SearchOK'
<1>1. CASE SearchNext
  <2> DEFINE hit == FindDown(IF SearchHitRow > 0 THEN SearchHitRow + 1 ELSE StreamTopRow)
  <2>1. hit = 0 \/ IsHit(hit)
    BY SearchFindsHits
  <2>2. \/ Stay /\ wrapPrompt' = wrapPrompt
        \/ searching /\ hit > 0 /\ JumpToHit(hit) /\ wrapPrompt' = wrapPrompt
        \/ searching /\ Stay /\ wrapPrompt' = "next"
    <3> HIDE DEF hit
    <3>1. QED
      BY <1>1, Zenon DEF SearchNext, hit
  <2> HIDE DEF hit
  <2>3. ViewportOK' /\ searchHitA' \in AnchorsOf(Len(ring'))
    BY <2>1, <2>2, JumpingAnchors, StayingAnchors
  <2>4. QED
    BY <2>2, <2>3 DEF NavInv, SearchOK
<1>2. CASE SearchPrev
  <2> DEFINE from == IF SearchHitRow > 0 THEN SearchHitRow - 1 ELSE StreamTopRow
             hit == IF from < 1 THEN 0 ELSE FindUp(from)
  <2>1. hit = 0 \/ IsHit(hit)
    BY SearchFindsHits
  <2>2. \/ Stay /\ wrapPrompt' = wrapPrompt
        \/ searching /\ hit > 0 /\ JumpToHit(hit) /\ wrapPrompt' = wrapPrompt
        \/ searching /\ Stay /\ wrapPrompt' = "prev"
    <3> HIDE DEF hit, from
    <3>1. QED
      BY <1>2, Zenon DEF SearchPrev, hit, from
  <2> HIDE DEF hit
  <2>3. ViewportOK' /\ searchHitA' \in AnchorsOf(Len(ring'))
    BY <2>1, <2>2, JumpingAnchors, StayingAnchors
  <2>4. QED
    BY <2>2, <2>3 DEF NavInv, SearchOK
<1>3. QED
  BY <1>1, <1>2

LEMMA ScrollsKeep == NavInv /\ Scrolls => NavInv'
<1>1. ASSUME NavInv, Scrolls
      PROVE  /\ feed' = feed /\ shows' = shows /\ visual' = visual /\ ~ visualMode
             /\ searching' = searching /\ filterMode' = filterMode /\ blockFocused' = FALSE
  BY <1>1 DEF Scrolls, LineUp, LineDown, PageUp, PageDown, Top, Bottom, Scrolling, Key,
              feed, shows, visual
<1>2. ASSUME NavInv, LineUp \/ LineDown, searching
      PROVE  NavInv'
  <2>1. Scrolls
    BY <1>2 DEF Scrolls
  <2>2. SearchNext \/ SearchPrev
    BY <1>2 DEF LineUp, LineDown
  <2>3. ViewportOK' /\ SearchOK'
    BY <1>1, <1>2, <2>1, <2>2, SearchingKeeps
  <2>4. QED
    BY <1>1, <1>2, <2>1, <2>3, KeysKeep
<1>3. ASSUME NavInv, \/ (LineUp \/ LineDown) /\ ~ searching
                     \/ PageUp \/ PageDown \/ Top \/ Bottom
      PROVE  NavInv'
  <2>1. Scrolls
    BY <1>3 DEF Scrolls
  <2>2. searchHitA' = searchHitA /\ wrapPrompt' = wrapPrompt
    BY <1>3 DEF LineUp, LineDown, PageUp, PageDown, Top, Bottom
  <2>3. search' = search
    BY <1>1, <1>3, <2>1, <2>2 DEF search
  <2>4. SearchOK'
    BY <1>1, <1>3, <2>1, <2>3, UntouchedPartsHold
  <2>5. ViewportOK'
    <3>1. ASSUME NEW k \in Nat \ {0}, ScrollUp(k) \/ ScrollDown(k)
          PROVE  ViewportOK'
      BY <1>1, <1>3, <2>1, <3>1, ScrollingAnchors
    <3>2. CASE Top
      <4>1. AnchorForRow(1) \in AnchorsOf(Len(ring)) /\ ring' = ring
        BY <1>1, <1>3, <2>1, AnchorsAreGood DEF feed
      <4>2. QED
        BY <3>2, <4>1 DEF Top, ViewportOK
    <3>3. CASE Bottom
      <4>1. streamTopA' = streamTopA /\ tailMode' = TRUE /\ ring' = ring
        BY <1>1, <1>3, <2>1, <3>3 DEF Bottom, feed
      <4>2. QED
        BY <1>3, <4>1 DEF NavInv, ViewportOK
    <3>4. CASE PageUp \/ PageDown
      <4>1. ScrollUp(ContentHeight) \/ ScrollDown(ContentHeight)
        BY <3>4 DEF PageUp, PageDown
      <4>2. ContentHeight \in Nat \ {0}
        BY NavAssumption
      <4>3. QED
        BY <3>1, <4>1, <4>2
    <3>5. CASE (LineUp \/ LineDown) /\ ~ searching
      <4>1. ScrollUp(1) \/ ScrollDown(1)
        BY <3>5 DEF LineUp, LineDown
      <4>2. QED
        BY <3>1, <4>1
    <3>6. QED
      BY <1>3, <3>2, <3>3, <3>4, <3>5
  <2>6. QED
    BY <1>1, <1>3, <2>1, <2>4, <2>5, KeysKeep
<1>4. QED
  BY <1>2, <1>3 DEF Scrolls


LEMMA SearchesKeep == NavInv /\ Searches => NavInv'
<1>1. ASSUME NavInv, CommitSearch
      PROVE  NavInv'
  <2> DEFINE first == IF tailMode THEN FindUp(Len(lines)) ELSE FindDown(StreamTopRow)
             other == IF tailMode THEN FindDown(1) ELSE FindUp(StreamTopRow - 1)
             hit == IF first > 0 THEN first ELSE other
  <2>1. /\ feed' = feed /\ shows' = shows /\ visual' = visual /\ ~ visualMode
        /\ blockFocused' = blockFocused /\ searching' = TRUE
        /\ filterMode' = filterMode /\ wrapPrompt' = wrapPrompt
    BY <1>1 DEF CommitSearch, Key, feed, shows, visual
  <2>2. hit = 0 \/ IsHit(hit)
    <3>1. /\ first = 0 \/ IsHit(first)
          /\ other = 0 \/ IsHit(other)
      BY <1>1, SearchFindsHits
    <3> HIDE DEF first, other
    <3>2. QED
      BY <3>1
  <2>3. (hit > 0 /\ JumpToHit(hit)) \/ Stay
    <3>1. IF hit > 0 THEN JumpToHit(hit) ELSE Stay
      BY <1>1, Zenon DEF CommitSearch
    <3> HIDE DEF hit
    <3>2. QED
      BY <3>1
  <2> HIDE DEF hit
  <2>4. ViewportOK' /\ searchHitA' \in AnchorsOf(Len(ring'))
    <3>1. CASE hit > 0 /\ JumpToHit(hit)
      <4>1. IsHit(hit)
        BY <2>2, <3>1
      <4>2. QED
        BY <1>1, <2>1, <3>1, <4>1, JumpingAnchors
    <3>2. CASE Stay
      BY <1>1, <2>1, <3>2, StayingAnchors
    <3>3. QED
      BY <2>3, <3>1, <3>2
  <2>5. SearchOK'
    BY <1>1, <2>1, <2>4 DEF NavInv, SearchOK
  <2>6. blockFocused' \in BOOLEAN
    BY <1>1, <2>1 DEF NavInv
  <2>7. QED
    BY <1>1, <2>1, <2>4, <2>5, <2>6, KeysKeep
<1>2. ASSUME NavInv, NextMatch \/ PrevMatch
      PROVE  NavInv'
  <2>1. /\ feed' = feed /\ shows' = shows /\ visual' = visual /\ ~ visualMode
        /\ blockFocused' = blockFocused /\ searching' = searching /\ filterMode' = filterMode
        /\ SearchNext \/ SearchPrev
    BY <1>2 DEF NextMatch, PrevMatch, Key, feed, shows, visual
  <2>2. ViewportOK' /\ SearchOK'
    BY <1>2, <2>1, SearchingKeeps
  <2>3. blockFocused' \in BOOLEAN
    BY <1>2, <2>1 DEF NavInv
  <2>4. QED
    BY <1>2, <2>1, <2>2, <2>3, KeysKeep
<1>3. ASSUME NavInv, Filter
      PROVE  NavInv'
  <2>1. /\ feed' = feed /\ shows' = shows /\ visual' = visual /\ ~ visualMode
        /\ blockFocused' = blockFocused /\ searching /\ searching' = searching
        /\ searchHitA' = searchHitA /\ wrapPrompt' = wrapPrompt
        /\ streamTopA' = streamTopA /\ ring' = ring
        /\ tailMode' \in BOOLEAN /\ filterMode' \in BOOLEAN
    BY <1>3 DEF Filter, Key, feed, shows, visual, NavInv, SearchOK, ViewportOK
  <2>2. ViewportOK'
    BY <1>3, <2>1 DEF NavInv, ViewportOK
  <2>3. SearchOK'
    BY <1>3, <2>1 DEF NavInv, SearchOK
  <2>4. blockFocused' \in BOOLEAN
    BY <1>3, <2>1 DEF NavInv
  <2>5. QED
    BY <1>3, <2>1, <2>2, <2>3, <2>4, KeysKeep
<1>4. ASSUME NavInv, Esc
      PROVE  NavInv'
  <2>1. /\ feed' = feed /\ shows' = shows /\ visual' = visual /\ ~ visualMode
        /\ viewport' = viewport /\ blockFocused' = FALSE /\ ring' = ring
        /\ IF searching THEN ClearSearch ELSE search' = search
    BY <1>4 DEF Esc, Key, feed, shows, visual, viewport, search
  <2>2. ViewportOK'
    BY <1>4, <2>1, UntouchedPartsHold
  <2>3. SearchOK'
    <3>1. CASE searching
      <4>1. searching' = FALSE /\ searchHitA' = NoAnchor /\ wrapPrompt' = "" /\ filterMode' = FALSE
        BY <2>1, <3>1 DEF ClearSearch
      <4>2. NoAnchor \in AnchorsOf(Len(ring'))
        BY DEF AnchorsOf
      <4>3. QED
        BY <4>1, <4>2 DEF SearchOK
    <3>2. CASE ~ searching
      BY <1>4, <2>1, <3>2, UntouchedPartsHold
    <3>3. QED
      BY <3>1, <3>2
  <2>4. QED
    BY <1>4, <2>1, <2>2, <2>3, KeysKeep
<1>5. ASSUME NavInv, NEW yes \in BOOLEAN, AnswerPrompt(yes)
      PROVE  NavInv'
  <2> DEFINE hit == IF wrapPrompt = "next" THEN FindDown(1) ELSE FindUp(Len(lines))
  <2>1. /\ feed' = feed /\ shows' = shows /\ visual' = visual /\ ~ visualMode
        /\ blockFocused' = blockFocused /\ searching' = searching
        /\ filterMode' = filterMode /\ wrapPrompt' = ""
    BY <1>5 DEF AnswerPrompt, feed, shows, visual
  <2>2. hit = 0 \/ IsHit(hit)
    BY <1>5, SearchFindsHits
  <2>3. (hit > 0 /\ JumpToHit(hit)) \/ Stay
    <3>1. IF yes /\ searching /\ hit > 0 THEN JumpToHit(hit) ELSE Stay
      BY <1>5, Zenon DEF AnswerPrompt
    <3> HIDE DEF hit
    <3>2. QED
      BY <3>1
  <2> HIDE DEF hit
  <2>4. ViewportOK' /\ searchHitA' \in AnchorsOf(Len(ring'))
    <3>1. CASE hit > 0 /\ JumpToHit(hit)
      <4>1. IsHit(hit)
        BY <2>2, <3>1
      <4>2. QED
        BY <1>5, <2>1, <3>1, <4>1, JumpingAnchors
    <3>2. CASE Stay
      BY <1>5, <2>1, <3>2, StayingAnchors
    <3>3. QED
      BY <2>3, <3>1, <3>2
  <2>5. SearchOK'
    BY <1>5, <2>1, <2>4 DEF NavInv, SearchOK
  <2>6. blockFocused' \in BOOLEAN
    BY <1>5, <2>1 DEF NavInv
  <2>7. QED
    BY <1>5, <2>1, <2>4, <2>5, <2>6, KeysKeep
<1>6. QED
  BY <1>1, <1>2, <1>3, <1>4, <1>5 DEF Searches

\* Blocks to go to start at rows.
LEMMA BlocksKeep == NavInv /\ Blocks => NavInv'
<1>1. SUFFICES ASSUME NavInv, NEW marked \in BOOLEAN, NextBlock(marked) \/ PrevBlock(marked)
               PROVE  NavInv'
  BY DEF Blocks
<1> DEFINE next == {i \in Targets(marked) : i > StreamTopRow}
           prev == {i \in Targets(marked) : tailMode \/ i < StreamTopRow}
<1>2. /\ feed' = feed /\ shows' = shows /\ search' = search /\ visual' = visual /\ ~ visualMode
      /\ \/ next # {} /\ JumpToBlock(Min(next))
         \/ prev # {} /\ JumpToBlock(Max(prev))
  <2>1. feed' = feed /\ shows' = shows /\ search' = search /\ visual' = visual /\ ~ visualMode
    BY <1>1 DEF NextBlock, PrevBlock, Key, feed, shows, search, visual
  <2>2. \/ next # {} /\ JumpToBlock(Min(next))
        \/ prev # {} /\ JumpToBlock(Max(prev))
    BY <1>1, Zenon DEF NextBlock, PrevBlock
  <2>3. QED
    BY <2>1, <2>2
<1>3. next \in SUBSET (1 .. Len(lines)) /\ prev \in SUBSET (1 .. Len(lines)) /\ Len(lines) \in Nat
  <2>1. Targets(marked) \subseteq BlockStarts
    BY DEF Targets
  <2>2. QED
    BY <1>1, <2>1, RowsAreRows, WindowIsLaidOut DEF NavInv
<1> HIDE DEF next, prev
<1>4. (next # {} => Min(next) \in Int) /\ (prev # {} => Max(prev) \in Int)
  <2>1. next \in SUBSET Nat /\ prev \in SUBSET (0 .. Len(lines))
    BY <1>3
  <2>2. (next # {} => Min(next) \in next) /\ (prev # {} => Max(prev) \in prev)
    BY <2>1, <1>3, MinIs, MaxIs
  <2>3. next \in SUBSET Int /\ prev \in SUBSET Int
    BY <1>3
  <2>4. QED
    BY <2>2, <2>3
<1>5. PICK start \in Int : JumpToBlock(start)
  BY <1>2, <1>4
<1>6. /\ tailMode' = FALSE /\ streamTopA' = AnchorForRow(start) /\ blockFocused' = TRUE
      /\ ring' = ring
  BY <1>2, <1>5 DEF JumpToBlock, feed
<1>7. AnchorForRow(start) \in AnchorsOf(Len(ring))
  BY <1>1, AnchorsAreGood
<1>8. ViewportOK'
  BY <1>6, <1>7 DEF ViewportOK
<1>9. SearchOK'
  BY <1>1, <1>2, UntouchedPartsHold
<1>10. QED
  BY <1>1, <1>2, <1>6, <1>8, <1>9, KeysKeep

\* The row that the cursor of visual mode moves to.
LEMMA CursorMoves ==
  ASSUME NavInv, lines # <<>>, NEW delta \in Int
  PROVE  Max({1, Min({VisualCursorRow + delta, Len(lines)})}) \in 1 .. Len(lines)
<1> DEFINE n == Len(lines)
           x == VisualCursorRow + delta
<1>1. n \in Nat /\ VisualCursorRow \in 1 .. n
  BY AnchoredRowsAreRows, WindowIsLaidOut DEF NavInv
<1> HIDE DEF n
<1>2. x \in Int /\ n >= 1
  BY <1>1
<1> HIDE DEF x
<1>3. Min({x, n}) = IF x <= n THEN x ELSE n
  BY <1>1, <1>2, MinOfTwo
<1> DEFINE y == Min({x, n})
<1>4. y \in Int /\ y <= n
  BY <1>1, <1>2, <1>3
<1> HIDE DEF y
<1>5. Max({1, y}) = IF 1 <= y THEN y ELSE 1
  BY <1>4, MaxOfTwo
<1>6. Max({1, y}) \in 1 .. n
  BY <1>1, <1>2, <1>4, <1>5
<1>7. QED
  BY <1>6 DEF x, y, n

LEMMA VisualKeysKeep == NavInv /\ VisualKeys => NavInv'
<1>1. ASSUME NavInv, EnterVisual
      PROVE  NavInv'
  <2> DEFINE seen == VisibleFrom(BrowseTop, FALSE)
             at == IF seen # {} THEN Min(seen) ELSE BrowseTop
  <2>1. /\ feed' = feed /\ shows' = shows /\ search' = search /\ ring' = ring
        /\ lines' = lines /\ lines # <<>> /\ blockFocused' = blockFocused
        /\ tailMode' = FALSE /\ visualMode' = TRUE
        /\ streamTopA' = IF tailMode THEN AnchorForRow(UnstickRow) ELSE streamTopA
        /\ visualAnchorA' = NoAnchor
    BY <1>1 DEF EnterVisual, feed, shows, search
  <2>2. visualCursorA' = AnchorForRow(at)
    BY <1>1, Zenon DEF EnterVisual
  <2>3. UnstickRow \in Int /\ BrowseTop \in Int
    <3>1. UnstickRow \in Int /\ StreamTopRow \in Int
      BY <1>1, UnstickRowIs, AnchoredRowsAreRows
    <3>2. QED
      BY <3>1 DEF BrowseTop
  <2>4. seen \in SUBSET (1 .. Len(lines)) /\ Len(lines) \in Nat
    <3>1. /\ EnabledRows \in SUBSET (1 .. Len(lines))
          /\ FilteredRows \in SUBSET (1 .. Len(lines))
          /\ Len(lines) \in Nat
      BY <1>1, RowsAreRows, WindowIsLaidOut DEF NavInv
    <3>2. QED
      BY <3>1 DEF VisibleFrom, FirstN, LastN
  <2>5. at \in Int
    <3> HIDE DEF seen
    <3>1. seen \in SUBSET Nat
      BY <2>4
    <3>2. seen # {} => Min(seen) \in seen
      BY <3>1, MinIs
    <3>3. seen # {} => Min(seen) \in Nat
      BY <3>1, <3>2
    <3>4. QED
      BY <2>3, <3>3
  <2> HIDE DEF seen, at
  <2>6. /\ AnchorForRow(UnstickRow) \in AnchorsOf(Len(ring))
        /\ AnchorForRow(at) \in AnchorsOf(Len(ring))
        /\ NoAnchor \in AnchorsOf(Len(ring))
    BY <1>1, <2>3, <2>5, AnchorsAreGood
  <2>7. ViewportOK' /\ VisualOK'
    BY <1>1, <2>1, <2>2, <2>6 DEF NavInv, ViewportOK, VisualOK
  <2>8. FeedOK' /\ ShowsOK' /\ SearchOK'
    BY <1>1, <2>1, UntouchedPartsHold
  <2>9. QED
    BY <1>1, <2>1, <2>7, <2>8 DEF NavInv
<1>2. ASSUME NavInv, SetAnchor
      PROVE  NavInv'
  <2>1. /\ feed' = feed /\ shows' = shows /\ search' = search /\ viewport' = viewport
        /\ ring' = ring /\ lines' = lines /\ blockFocused' = blockFocused
        /\ tailMode' = tailMode /\ visualMode' = visualMode
        /\ visualCursorA' = visualCursorA /\ visualAnchorA' = AnchorForRow(VisualCursorRow)
    BY <1>2 DEF SetAnchor, feed, shows, search, viewport
  <2>2. VisualCursorRow \in Int
    BY <1>2, AnchoredRowsAreRows
  <2>3. AnchorForRow(VisualCursorRow) \in AnchorsOf(Len(ring))
    BY <1>2, <2>2, AnchorsAreGood
  <2>4. VisualOK'
    BY <1>2, <2>1, <2>3 DEF NavInv, VisualOK
  <2>5. FeedOK' /\ ShowsOK' /\ SearchOK' /\ ViewportOK'
    BY <1>2, <2>1, UntouchedPartsHold
  <2>6. QED
    BY <1>2, <2>1, <2>4, <2>5 DEF NavInv
<1>3. ASSUME NavInv, ExitVisual
      PROVE  NavInv'
  <2>1. /\ feed' = feed /\ shows' = shows /\ search' = search /\ viewport' = viewport
        /\ ring' = ring /\ blockFocused' = blockFocused /\ visualMode' = FALSE
        /\ visualCursorA' = NoAnchor /\ visualAnchorA' = NoAnchor
    BY <1>3 DEF ExitVisual, feed, shows, search, viewport
  <2>2. NoAnchor \in AnchorsOf(Len(ring'))
    BY DEF AnchorsOf
  <2>3. VisualOK'
    BY <2>1, <2>2 DEF VisualOK
  <2>4. FeedOK' /\ ShowsOK' /\ SearchOK' /\ ViewportOK'
    BY <1>3, <2>1, UntouchedPartsHold
  <2>5. QED
    BY <1>3, <2>1, <2>3, <2>4 DEF NavInv
<1>4. ASSUME NavInv, NEW delta \in {-1, 1}, MoveCursor(delta)
      PROVE  NavInv'
  <2> DEFINE row == Max({1, Min({VisualCursorRow + delta, Len(lines)})})
             r == row
  <2>1. /\ feed' = feed /\ shows' = shows /\ search' = search /\ ring' = ring
        /\ lines' = lines /\ blockFocused' = blockFocused /\ tailMode' = tailMode
        /\ visualMode /\ visualMode' = visualMode /\ visualAnchorA' = visualAnchorA
    BY <1>4 DEF MoveCursor, feed, shows, search
  <2>2. visualCursorA' = AnchorForRow(r) /\ EnsureVisible(r)
    BY <1>4, Zenon DEF MoveCursor
  <2>3. lines # <<>>
    BY <1>4, <2>1 DEF NavInv, VisualOK
  <2>4. r \in 1 .. Len(lines) /\ StreamTopRow \in Nat /\ ContentHeight \in Nat
    <3>1. delta \in Int
      BY <1>4
    <3>2. row \in 1 .. Len(lines)
      BY <1>4, <2>3, <3>1, CursorMoves
    <3>3. QED
      BY <1>4, <3>2, AnchoredRowsAreRows, NavAssumption
  <2> HIDE DEF r
  <2>5. /\ AnchorForRow(r) \in AnchorsOf(Len(ring))
        /\ AnchorForRow(r - ContentHeight + 1) \in AnchorsOf(Len(ring))
    <3>1. r \in Int /\ r - ContentHeight + 1 \in Int
      BY <2>4
    <3>2. QED
      BY <1>4, <3>1, AnchorsAreGood
  <2>6. streamTopA' \in AnchorsOf(Len(ring)) /\ tailMode' \in BOOLEAN
    <3>1. streamTopA \in AnchorsOf(Len(ring)) /\ tailMode \in BOOLEAN
      BY <1>4 DEF NavInv, ViewportOK
    <3>2. \/ streamTopA' = AnchorForRow(r)
          \/ streamTopA' = AnchorForRow(r - ContentHeight + 1)
          \/ streamTopA' = streamTopA
      BY <2>2 DEF EnsureVisible
    <3>3. QED
      BY <2>1, <2>5, <3>1, <3>2
  <2>7. ViewportOK'
    BY <2>1, <2>6 DEF ViewportOK
  <2>8. VisualOK'
    BY <1>4, <2>1, <2>2, <2>5 DEF NavInv, VisualOK
  <2>9. FeedOK' /\ ShowsOK' /\ SearchOK'
    BY <1>4, <2>1, UntouchedPartsHold
  <2>10. QED
    BY <1>4, <2>1, <2>7, <2>8, <2>9 DEF NavInv
<1>5. QED
  BY <1>1, <1>2, <1>3, <1>4 DEF VisualKeys

LEMMA NextHolds == NavInv /\ [Next]_vars => NavInv'
<1>1. ASSUME NavInv, UNCHANGED vars
      PROVE  NavInv'
  <2>1. /\ feed' = feed /\ shows' = shows /\ search' = search /\ viewport' = viewport
        /\ visual' = visual /\ blockFocused' = blockFocused
    BY <1>1, Zenon DEF vars
  <2>2. tailMode' = tailMode
    BY <2>1, Zenon DEF viewport
  <2>3. QED
    BY <1>1, <2>1, <2>2, UntouchedPartsHold DEF NavInv
<1>2. QED
  BY <1>1, ArrivalsKeep, TogglesKeep, ScrollsKeep, SearchesKeep, BlocksKeep, VisualKeysKeep
     DEF Next

LEMMA NavInvHolds == Spec => []NavInv
BY InitHolds, NextHolds, PTL DEF Spec

\* The state is well typed, the window is the one of the lines that arrived, and
\* neither a filter nor a wrap prompt outlives the search it is about.
THEOREM NavTypeCorrect == Spec => []TypeOK
BY NavInvHolds, InvGivesType, PTL


-----------------------------------------------------------------------------
(* Selecting and copying.                                                   *)

LEMMA SelectionIsInWindow == NavInv => SelectionInRange
<1>1. SUFFICES ASSUME NavInv, visualMode
               PROVE  Selection \subseteq DOMAIN lines
  BY DEF SelectionInRange
<1> DEFINE n == Len(lines)
           a == VisualAnchorRow
           c == VisualCursorRow
<1>2. n \in Nat /\ DOMAIN lines = 1 .. n /\ lines # <<>>
  BY <1>1, WindowIsLaidOut DEF NavInv, VisualOK
<1>3. a \in 0 .. n /\ c \in 1 .. n
  BY <1>1, <1>2, AnchoredRowsAreRows
<1>4. Selection = IF a > 0 THEN Min({a, c}) .. Max({a, c}) ELSE {c}
  BY DEF Selection
<1> HIDE DEF n, a, c
<1>5. a \in Int /\ c \in Int
  BY <1>2, <1>3
<1>6. /\ Min({a, c}) = IF a <= c THEN a ELSE c
      /\ Max({a, c}) = IF a <= c THEN c ELSE a
  BY <1>5, MinOfTwo, MaxOfTwo
<1>7. a > 0 => Min({a, c}) \in 1 .. n /\ Max({a, c}) \in 1 .. n
  BY <1>2, <1>3, <1>6
<1>8. Selection \subseteq 1 .. n
  BY <1>2, <1>3, <1>4, <1>7
<1>9. QED
  BY <1>2, <1>8 DEF n

\* In visual mode there are rows, and what is selected is among them, whatever
\* has left the window or was rendered anew since it was selected.
THEOREM SelectionStaysInRange == Spec => []SelectionInRange
BY NavInvHolds, SelectionIsInWindow, PTL

LEMMA CopiesMatch == NavInv => CopyAgrees
<1>1. SUFFICES ASSUME NavInv
               PROVE  Ends(SelectedRows) = Reference
  BY DEF CopyAgrees
<1>2. CASE ~ (searching /\ SearchHitRow > 0)
  BY <1>2 DEF SelectedRows, Reference
<1>3. CASE searching /\ SearchHitRow > 0
  <2> DEFINE n == Len(lines)
             id == IdOfRow(SearchHitRow)
             S == {i \in DOMAIN lines : lines[i].id = id}
  <2>1. SelectedRows = S /\ Reference = <<id, id>>
    BY <1>3 DEF SelectedRows, Reference
  <2>2. n \in Nat /\ DOMAIN lines = 1 .. n /\ SearchHitRow \in 1 .. n
    <3>1. n \in Nat /\ DOMAIN lines = 1 .. n /\ SearchHitRow \in 0 .. n
      BY <1>1, WindowIsLaidOut, AnchoredRowsAreRows DEF NavInv
    <3> HIDE DEF n
    <3>2. QED
      BY <1>3, <3>1
  <2>3. SearchHitRow \in S /\ S \in SUBSET (1 .. n)
    BY <2>2 DEF IdOfRow
  <2>4. \A i \in S : IdOfRow(i) = id
    BY DEF IdOfRow
  <2> HIDE DEF S, id, n
  <2>5. S # {} /\ S \in SUBSET Nat /\ S \in SUBSET (0 .. n)
    BY <2>2, <2>3
  <2>6. Min(S) \in S /\ Max(S) \in S
    BY <2>2, <2>5, MinIs, MaxIs
  <2>7. Ends(S) = <<id, id>>
    BY <2>4, <2>5, <2>6 DEF Ends
  <2>8. QED
    BY <2>1, <2>7
<1>4. QED
  BY <1>2, <1>3

\* What Y copies begins and ends with the records that y names.
THEOREM CopiesAgree == Spec => []CopyAgrees
BY NavInvHolds, CopiesMatch, PTL

-----------------------------------------------------------------------------
(* Leaving tail mode.                                                       *)

\* The rows on the screen of a browsing view with the given top.
LEMMA UnstickingStays ==
  ASSUME NavInv, tailMode, ~ filterMode
  PROVE  FirstN({i \in EnabledRows : i >= UnstickRow}, ContentHeight)
           = LastN(EnabledRows, ContentHeight)
<1> DEFINE n == Len(lines)
           E == EnabledRows
           L == LastN(E, ContentHeight)
           B == {i \in E : i >= UnstickRow}
<1>1. n \in Nat /\ E \in SUBSET (1 .. n) /\ ContentHeight \in Nat \ {0}
  BY WindowIsLaidOut, RowsAreRows, NavAssumption DEF NavInv
<1>2. /\ UnstickRow \in Nat \ {0}
      /\ UnstickRow = 1 \/ UnstickRow \in L
      /\ \A i \in L : UnstickRow <= i
  BY UnstickRowIs
<1>3. /\ L \in SUBSET E
      /\ \A i \in L, j \in E : i <= j => j \in L
      /\ Cardinality(L) <= ContentHeight
      /\ Cardinality(E) <= ContentHeight => L = E
  BY <1>1, LastNIsATail
<1>4. Cardinality(E) \in Nat
  BY <1>1, RowsAreFinite
<1>5. CASE Cardinality(E) < ContentHeight
  <2>1. UnstickRow = 1 /\ L = E
    BY <1>1, <1>3, <1>4, <1>5 DEF UnstickRow
  <2>2. \A i \in E : i >= 1
    BY <1>1
  <2>3. B = E
    BY <2>1, <2>2
  <2>4. FirstN(E, ContentHeight) = E
    <3>1. Cardinality(E) <= ContentHeight
      BY <1>1, <1>4, <1>5
    <3> HIDE DEF E, n
    <3>2. QED
      BY <1>1, <3>1, FirstNIsAll
  <2>5. QED
    BY <2>1, <2>3, <2>4
<1>6. CASE ~ (Cardinality(E) < ContentHeight)
  <2>1. UnstickRow \in L
    <3>1. UnstickRow = Min(L)
      BY <1>6 DEF UnstickRow
    <3>2. E # {}
      BY <1>1, <1>4, <1>6, FS_EmptySet
    <3>3. L # {}
      BY <1>1, <3>2, LastNIsATail
    <3>4. L \in SUBSET Nat
      <4>1. \A i \in E : i \in Nat
        BY <1>1
      <4>2. QED
        BY <1>3, <4>1
    <3> HIDE DEF L
    <3>5. QED
      BY <3>1, <3>3, <3>4, MinIs
  <2>2. B = L
    <3>1. \A i \in E : i \in Nat
      BY <1>1
    <3>2. \A i \in E : i >= UnstickRow => i \in L
      BY <2>1, <1>2, <1>3, <3>1
    <3>3. \A i \in L : i \in E /\ i >= UnstickRow
      BY <1>2, <1>3, <3>1
    <3> HIDE DEF L, E
    <3>4. QED
      BY <3>2, <3>3
  <2>3. L \in SUBSET (1 .. n)
    BY <1>1, <1>3
  <2>4. FirstN(L, ContentHeight) = L
    <3> HIDE DEF L, n
    <3>1. QED
      BY <1>1, <1>3, <2>3, FirstNIsAll
  <2>5. QED
    BY <2>2, <2>4
<1>7. QED
  BY <1>5, <1>6

\* enterVisual anchors the first row that was on the screen.
LEMMA EnteringIsStill ==
  ASSUME NavInv, EnterVisual, ~ filterMode
  PROVE  Screen' = Screen
<1>1. /\ lines' = lines /\ groupOff' = groupOff /\ collapseMultiline' = collapseMultiline
      /\ filterMode' = filterMode /\ tailMode' = FALSE /\ lines # <<>>
      /\ streamTopA' = IF tailMode THEN AnchorForRow(UnstickRow) ELSE streamTopA
  BY DEF EnterVisual, feed, shows, search
<1>2. EnabledRows' = EnabledRows
  BY <1>1 DEF EnabledRows, Enabled
<1>3. Visible' = FirstN({i \in EnabledRows : i >= StreamTopRow'}, ContentHeight)
  <2>1. ~ filterMode' /\ ~ tailMode'
    BY <1>1
  <2>2. Visible' = FirstN({i \in EnabledRows' : i >= StreamTopRow'}, ContentHeight)
    BY <2>1 DEF Visible, VisibleFrom, FirstN
  <2>3. QED
    BY <1>2, <2>2
<1>4. CASE ~ tailMode
  <2>1. StreamTopRow' = StreamTopRow
    BY <1>1, <1>4 DEF StreamTopRow, RowForAnchor
  <2>2. Visible = FirstN({i \in EnabledRows : i >= StreamTopRow}, ContentHeight)
    BY <1>4 DEF Visible, VisibleFrom
  <2>3. QED
    BY <1>1, <1>3, <2>1, <2>2 DEF Screen
<1>5. CASE tailMode
  <2>1. Visible = LastN(EnabledRows, ContentHeight)
    BY <1>5 DEF Visible, VisibleFrom
  <2>2. StreamTopRow' = OrFirst(RowIn(lines, AnchorIn(lines, UnstickRow)))
    BY <1>1, <1>5, Zenon DEF StreamTopRow, RowForAnchor, RowIn, AnchorForRow, AnchorIn
  <2>3. UnstickRow \in 1 .. Len(lines) /\ Layout(lines)
    <3> DEFINE n == Len(lines)
    <3>1. n \in Nat /\ Layout(lines) /\ EnabledRows \in SUBSET (1 .. n)
      BY WindowIsLaidOut, RowsAreRows DEF NavInv
    <3>2. n # 0
      <4>1. lines \in Seq(Line)
        BY <3>1 DEF Layout
      <4>2. QED
        BY <1>1, <4>1
    <3>3. UnstickRow = 1 \/ UnstickRow \in LastN(EnabledRows, ContentHeight)
      BY UnstickRowIs
    <3>4. LastN(EnabledRows, ContentHeight) \in SUBSET EnabledRows
      BY DEF LastN
    <3> HIDE DEF n
    <3>5. UnstickRow \in 1 .. n
      <4>1. 1 \in 1 .. n
        BY <3>1, <3>2
      <4>2. LastN(EnabledRows, ContentHeight) \in SUBSET (1 .. n)
        BY <3>1, <3>4
      <4>3. QED
        BY <3>3, <4>1, <4>2
    <3>6. QED
      BY <3>1, <3>5 DEF n
  <2>4. StreamTopRow' = UnstickRow
    <3>1. RowIn(lines, AnchorIn(lines, UnstickRow)) = UnstickRow
      BY <2>3, AnchorOfRow
    <3>2. UnstickRow # 0
      BY <2>3
    <3>3. QED
      BY <2>2, <3>1, <3>2 DEF OrFirst
  <2>5. Visible' = Visible
    BY <1>3, <1>5, <2>1, <2>4, UnstickingStays
  <2>6. QED
    BY <1>1, <2>5 DEF Screen
<1>6. QED
  BY <1>4, <1>5

\* Entering visual mode shows exactly what was on the screen, whatever groups
\* are off and rows are folded.
THEOREM UnstickingIsStill == Spec => UnstickKeepsScreen
<1>1. ASSUME NavInv, [Next]_vars
      PROVE  [EnterVisual /\ ~ filterMode => Screen' = Screen]_vars
  BY <1>1, EnteringIsStill
<1>2. QED
  BY <1>1, NavInvHolds, PTL DEF Spec, UnstickKeepsScreen


-----------------------------------------------------------------------------
(* What is moved to is shown.                                               *)

\* A row is on a screen that begins less than a screen of shown rows before it.
LEMMA ShownFrom ==
  ASSUME NEW n \in Nat, NEW S \in SUBSET (1 .. n), NEW c \in Nat \ {0},
         NEW top \in Nat, NEW h \in S, top <= h,
         Cardinality({j \in S : top <= j /\ j < h}) < c
  PROVE  h \in FirstN({i \in S : i >= top}, c)
<1> DEFINE T == {i \in S : i >= top}
<1>1. \A i \in S : i \in Nat
  OBVIOUS
<1>2. h \in T
  BY <1>1
<1>3. {j \in T : j < h} = {j \in S : top <= j /\ j < h}
  <2>1. \A j \in S : j >= top <=> top <= j
    BY <1>1
  <2>2. QED
    BY <2>1
<1>4. Cardinality({j \in T : j < h}) < c
  BY <1>3
<1> HIDE DEF T
<1>5. h \in FirstN(T, c)
  BY <1>2, <1>4 DEF FirstN
<1>6. QED
  BY <1>5 DEF T

\* The rows from one of a set on and before another one, from their ranks.
LEMMA RanksBetween ==
  ASSUME NEW n \in Nat, NEW S \in SUBSET (1 .. n), NEW a \in S, NEW b \in S, a <= b
  PROVE  Cardinality({j \in S : a <= j /\ j < b})
           = Cardinality({j \in S : j <= b}) - Cardinality({j \in S : j <= a})
<1> DEFINE A == {j \in S : j <= a}
           B == {j \in S : j <= b}
           D == {j \in S : a <= j /\ j < b}
<1>1. \A j \in S : j \in 1 .. n
  OBVIOUS
<1>2. /\ A \in SUBSET (1 .. n) /\ B \in SUBSET (1 .. n)
      /\ a \in A /\ b \in B
  <2>1. a <= a /\ b <= b
    BY <1>1
  <2>2. a \in A /\ b \in B
    BY <2>1
  <2>3. A \in SUBSET (1 .. n) /\ B \in SUBSET (1 .. n)
    BY <1>1
  <2> HIDE DEF A, B
  <2>4. QED
    BY <2>2, <2>3
<1>3. /\ A \ {a} \subseteq B \ {b}
      /\ D = (B \ {b}) \ (A \ {a})
  <2>1. \A j \in S : j <= a /\ j # a => j <= b /\ j # b
    BY <1>1
  <2>2. \A j \in S : (a <= j /\ j < b) <=> (j <= b /\ j # b /\ ~ (j <= a /\ j # a))
    BY <1>1
  <2>3. QED
    BY <2>1, <2>2
<1> HIDE DEF A, B, D
<1>4. /\ IsFiniteSet(A) /\ IsFiniteSet(B)
      /\ Cardinality(A) \in Nat /\ Cardinality(B) \in Nat
  BY <1>2, RowsAreFinite
<1>5. /\ IsFiniteSet(A \ {a}) /\ Cardinality(A \ {a}) = Cardinality(A) - 1
      /\ IsFiniteSet(B \ {b}) /\ Cardinality(B \ {b}) = Cardinality(B) - 1
  BY <1>2, <1>4, FS_RemoveElement
<1>6. Cardinality(D) = Cardinality(B \ {b}) - Cardinality(A \ {a})
  <2>1. (B \ {b}) \intersect (A \ {a}) = A \ {a}
    BY <1>3
  <2>2. Cardinality(D) = Cardinality(B \ {b}) - Cardinality((B \ {b}) \intersect (A \ {a}))
    BY <1>3, <1>5, FS_Difference
  <2>3. QED
    BY <2>1, <2>2
<1>7. Cardinality(D) = Cardinality(B) - Cardinality(A)
  BY <1>4, <1>5, <1>6
<1>8. QED
  BY <1>7 DEF A, B, D

\* What is enabled and what is filtered depends on the lines and what is shown.
LEMMA SameShownRows ==
  ASSUME lines' = lines, shows' = shows
  PROVE  EnabledRows' = EnabledRows /\ FilteredRows' = FilteredRows
<1>1. groupOff' = groupOff /\ collapseMultiline' = collapseMultiline
  BY DEF shows
<1>2. QED
  BY <1>1 DEF EnabledRows, Enabled, FilteredRows

\* Where a row that was anchored is.
LEMMA AnchoredTop ==
  ASSUME NavInv, lines' = lines, NEW top \in 1 .. Len(lines), streamTopA' = AnchorForRow(top)
  PROVE  StreamTopRow' = top
<1>1. Layout(lines)
  BY WindowIsLaidOut DEF NavInv
<1>2. RowIn(lines, AnchorIn(lines, top)) = top /\ top # 0
  BY <1>1, AnchorOfRow
<1>3. StreamTopRow' = OrFirst(RowIn(lines, AnchorIn(lines, top)))
  BY Zenon DEF StreamTopRow, RowForAnchor, RowIn, AnchorForRow, AnchorIn
<1>4. QED
  BY <1>2, <1>3 DEF OrFirst

LEMMA JumpShowsHit ==
  ASSUME NavInv, feed' = feed, shows' = shows, filterMode' = filterMode,
         NEW h, IsHit(h), JumpToHit(h)
  PROVE  /\ RowForAnchor(searchHitA)' = h
         /\ h \in Visible'
         /\ h \in EnabledRows'
         /\ lines'[h].row.hit
<1>1. /\ lines' = lines /\ tailMode' = FALSE /\ searchHitA' = AnchorForRow(h)
      /\ streamTopA' = AnchorForRow(CentredTop(h))
  BY DEF JumpToHit, feed
<1> DEFINE n == Len(lines)
           top == CentredTop(h)
<1>2. /\ n \in Nat /\ EnabledRows \in SUBSET (1 .. n) /\ FilteredRows \in SUBSET (1 .. n)
      /\ ContentHeight \in Nat \ {0} /\ Layout(lines)
      /\ h \in EnabledRows /\ h \in FilteredRows /\ lines[h].row.hit
  BY WindowIsLaidOut, RowsAreRows, NavAssumption DEF NavInv, IsHit
<1>3. /\ top \in 1 .. n /\ top <= h
      /\ ~ filterMode => h - top < ContentHeight
      /\ filterMode => /\ top \in FilteredRows
                       /\ Cardinality({i \in FilteredRows : i <= h})
                            < Cardinality({i \in FilteredRows : i <= top}) + ContentHeight
  BY CentredTopIs
<1>4. EnabledRows' = EnabledRows /\ FilteredRows' = FilteredRows
  BY <1>1, SameShownRows
<1>5. StreamTopRow' = top
  BY <1>1, <1>3, AnchoredTop
<1>6. RowForAnchor(searchHitA)' = h
  <2>1. RowForAnchor(searchHitA)' = RowIn(lines, AnchorIn(lines, h))
    BY <1>1, Zenon DEF RowForAnchor, RowIn, AnchorForRow, AnchorIn
  <2>2. h \in 1 .. Len(lines)
    BY <1>2
  <2>3. QED
    BY <2>1, <2>2, <1>2, AnchorOfRow
<1> HIDE DEF n, top
<1>7. top \in Nat /\ h \in 1 .. n /\ h \in Nat
  BY <1>2, <1>3
<1>8. CASE ~ filterMode
  <2>1. Visible' = FirstN({i \in EnabledRows : i >= top}, ContentHeight)
    <3>1. Visible' = FirstN({i \in EnabledRows' : i >= StreamTopRow'}, ContentHeight)
      BY <1>1, <1>8 DEF Visible, VisibleFrom, FirstN
    <3>2. QED
      BY <3>1, <1>4, <1>5
  <2> DEFINE C == Cardinality({j \in EnabledRows : top <= j /\ j < h})
  <2>2. C <= h - top /\ C \in Nat
    <3>1. C <= h - top
      BY <1>2, <1>3, <1>7, FewBetween
    <3>2. {j \in EnabledRows : top <= j /\ j < h} \in SUBSET (1 .. n)
      BY <1>2
    <3>3. QED
      BY <3>1, <3>2, <1>2, RowsAreFinite
  <2>3. C < ContentHeight
    <3> HIDE DEF C
    <3>1. QED
      BY <1>2, <1>3, <1>7, <1>8, <2>2
  <2>4. h \in FirstN({i \in EnabledRows : i >= top}, ContentHeight)
    BY <1>2, <1>3, <1>7, <2>3, ShownFrom
  <2>5. QED
    BY <1>1, <1>2, <1>4, <1>6, <2>1, <2>4
<1>9. CASE filterMode
  <2> DEFINE below == {i \in FilteredRows : i >= top}
  <2>1. h \in below
    BY <1>2, <1>3
  <2>2. Visible' = FirstN(below, ContentHeight)
    <3>1. {i \in FilteredRows' : i >= StreamTopRow'} = below
      BY <1>4, <1>5
    <3> HIDE DEF below
    <3>2. {i \in FilteredRows' : i >= StreamTopRow'} # {}
      BY <2>1, <3>1
    <3>3. Visible' = FirstN({i \in FilteredRows' : i >= StreamTopRow'}, ContentHeight)
      BY <1>9, <3>2 DEF Visible, VisibleFrom, FirstN
    <3>4. QED
      BY <3>1, <3>3
  <2> DEFINE F == FilteredRows
             C == Cardinality({j \in F : top <= j /\ j < h})
             CH == Cardinality({i \in F : i <= h})
             CT == Cardinality({i \in F : i <= top})
  <2>3. F \in SUBSET (1 .. n) /\ top \in F /\ h \in F /\ top <= h
    BY <1>2, <1>3, <1>9
  <2>4. CH < CT + ContentHeight
    BY <1>3, <1>9
  <2> HIDE DEF F
  <2>5. C = CH - CT /\ CH \in Nat /\ CT \in Nat
    <3>1. C = CH - CT
      BY <1>2, <2>3, RanksBetween
    <3>2. CH \in 1 .. Cardinality(F) /\ CT \in 1 .. Cardinality(F)
      BY <1>2, <2>3, RankIs
    <3>3. QED
      BY <3>1, <3>2
  <2>6. C < ContentHeight
    <3> HIDE DEF C, CH, CT
    <3>1. QED
      BY <1>2, <2>4, <2>5
  <2>7. h \in FirstN({i \in F : i >= top}, ContentHeight)
    BY <1>2, <1>7, <2>3, <2>6, ShownFrom
  <2>8. QED
    BY <1>1, <1>2, <1>4, <1>6, <2>2, <2>7 DEF F
<1>10. QED
  BY <1>8, <1>9


\* The cursor of visual mode is less than a screen below the top, or is the top.
LEMMA CursorIsShown ==
  ASSUME NavInv, ~ filterMode, NEW delta \in {-1, 1}, MoveCursor(delta)
  PROVE  (VisualCursorRow \in Visible \/ VisualCursorRow \notin EnabledRows)'
<1> DEFINE n == Len(lines)
           row == Max({1, Min({VisualCursorRow + delta, Len(lines)})})
           h == row
           st == StreamTopRow
           top == IF h < st THEN h ELSE IF h >= st + ContentHeight THEN h - ContentHeight + 1
                  ELSE st
<1>1. /\ lines' = lines /\ shows' = shows /\ feed' = feed /\ ~ filterMode'
      /\ visualMode /\ tailMode' = tailMode
  BY DEF MoveCursor, feed, shows, search
<1>2. visualCursorA' = AnchorForRow(h) /\ EnsureVisible(h)
  BY Zenon DEF MoveCursor
<1>3. ~ tailMode' /\ lines # <<>>
  BY <1>1 DEF NavInv, VisualOK
<1>4. /\ n \in Nat /\ EnabledRows \in SUBSET (1 .. n)
      /\ ContentHeight \in Nat \ {0} /\ Layout(lines) /\ st \in 1 .. n
  BY <1>3, WindowIsLaidOut, RowsAreRows, AnchoredRowsAreRows, NavAssumption DEF NavInv
<1>5. h \in 1 .. n
  <2>1. delta \in Int
    OBVIOUS
  <2>2. row \in 1 .. Len(lines)
    BY <1>3, <2>1, CursorMoves
  <2>3. QED
    BY <2>2
<1> HIDE DEF n, h, st
<1>6. /\ top \in 1 .. n /\ top <= h /\ h - top < ContentHeight
      /\ top \in Nat /\ h \in Nat
  BY <1>4, <1>5
<1>7. streamTopA' = IF h < st THEN AnchorForRow(h)
                    ELSE IF h >= st + ContentHeight THEN AnchorForRow(h - ContentHeight + 1)
                    ELSE streamTopA
  BY <1>2 DEF EnsureVisible, st
<1>8. StreamTopRow' = top
  <2>1. CASE streamTopA' = AnchorForRow(top)
    BY <1>1, <1>6, <2>1, AnchoredTop DEF n
  <2>2. CASE streamTopA' = streamTopA /\ top = st
    <3>1. StreamTopRow' = StreamTopRow
      BY <1>1, <2>2 DEF StreamTopRow, RowForAnchor
    <3>2. QED
      BY <2>2, <3>1 DEF st
  <2>3. \/ streamTopA' = AnchorForRow(top)
        \/ streamTopA' = streamTopA /\ top = st
    BY <1>7
  <2>4. QED
    BY <2>1, <2>2, <2>3
<1> HIDE DEF top
<1>9. VisualCursorRow' = h
  <2>1. RowIn(lines, AnchorIn(lines, h)) = h /\ h # 0
    BY <1>4, <1>5, AnchorOfRow DEF n
  <2>2. VisualCursorRow' = OrFirst(RowIn(lines, AnchorIn(lines, h)))
    BY <1>1, <1>2, Zenon DEF VisualCursorRow, RowForAnchor, RowIn, AnchorForRow, AnchorIn
  <2>3. QED
    BY <2>1, <2>2 DEF OrFirst
<1>10. EnabledRows' = EnabledRows
  BY <1>1, SameShownRows
<1>11. Visible' = FirstN({i \in EnabledRows : i >= top}, ContentHeight)
  <2>1. Visible' = FirstN({i \in EnabledRows' : i >= StreamTopRow'}, ContentHeight)
    BY <1>1, <1>3 DEF Visible, VisibleFrom, FirstN
  <2>2. QED
    BY <2>1, <1>8, <1>10
<1>12. ASSUME h \in EnabledRows
       PROVE  h \in FirstN({i \in EnabledRows : i >= top}, ContentHeight)
  <2> DEFINE C == Cardinality({j \in EnabledRows : top <= j /\ j < h})
  <2>1. C <= h - top
    BY <1>4, <1>6, FewBetween
  <2>2. C \in Nat
    <3>1. {j \in EnabledRows : top <= j /\ j < h} \in SUBSET (1 .. n)
      BY <1>4
    <3>2. QED
      BY <3>1, <1>4, RowsAreFinite
  <2>3. C < ContentHeight
    <3> HIDE DEF C
    <3>1. QED
      BY <1>4, <1>6, <2>1, <2>2
  <2>4. QED
    BY <1>4, <1>6, <1>12, <2>3, ShownFrom
<1>13. QED
  BY <1>9, <1>10, <1>11, <1>12

\* A step that makes another row the hit jumps to it.
LEMMA HitsAreJumpedTo ==
  ASSUME NavInv, Next
  PROVE  \/ searchHitA' = searchHitA
         \/ searchHitA' = NoAnchor
         \/ /\ feed' = feed /\ shows' = shows /\ filterMode' = filterMode
            /\ \E h : IsHit(h) /\ JumpToHit(h)
<1> DEFINE Jumps == \E h : IsHit(h) /\ JumpToHit(h)
<1>1. ASSUME SearchNext \/ SearchPrev
      PROVE  searchHitA' = searchHitA \/ Jumps
  <2>1. CASE SearchNext
    <3> DEFINE hit == FindDown(IF SearchHitRow > 0 THEN SearchHitRow + 1 ELSE StreamTopRow)
    <3>1. hit = 0 \/ IsHit(hit)
      BY SearchFindsHits
    <3>2. Stay \/ (hit > 0 /\ JumpToHit(hit))
      BY <2>1, Zenon DEF SearchNext
    <3> HIDE DEF hit
    <3>3. hit > 0 => IsHit(hit)
      BY <3>1
    <3>4. QED
      BY <3>2, <3>3 DEF Stay
  <2>2. CASE SearchPrev
    <3> DEFINE from == IF SearchHitRow > 0 THEN SearchHitRow - 1 ELSE StreamTopRow
               hit == IF from < 1 THEN 0 ELSE FindUp(from)
    <3>1. hit = 0 \/ IsHit(hit)
      BY SearchFindsHits
    <3>2. Stay \/ (hit > 0 /\ JumpToHit(hit))
      BY <2>2, Zenon DEF SearchPrev
    <3> HIDE DEF hit
    <3>3. hit > 0 => IsHit(hit)
      BY <3>1
    <3>4. QED
      BY <3>2, <3>3 DEF Stay
  <2>3. QED
    BY <1>1, <2>1, <2>2
<1>2. CASE Arrivals
  <2>1. search' = search
    BY <1>2 DEF Arrivals, Push, Reload
  <2>2. QED
    BY <2>1 DEF search
<1>3. CASE Toggles
  BY <1>3 DEF Toggles, ToggleRenderer, ToggleGroup, CollapseAll, Clear, search
<1>4. CASE Scrolls
  <2>1. /\ feed' = feed /\ shows' = shows /\ filterMode' = filterMode
        /\ searchHitA' = searchHitA \/ SearchNext \/ SearchPrev
    BY <1>4 DEF Scrolls, LineUp, LineDown, PageUp, PageDown, Top, Bottom, Scrolling, feed, shows
  <2> HIDE DEF Jumps
  <2>2. searchHitA' = searchHitA \/ Jumps
    BY <2>1, <1>1
  <2>3. QED
    BY <2>1, <2>2 DEF Jumps
<1>5. CASE Searches
  <2>1. CASE CommitSearch
    <3> DEFINE first == IF tailMode THEN FindUp(Len(lines)) ELSE FindDown(StreamTopRow)
               other == IF tailMode THEN FindDown(1) ELSE FindUp(StreamTopRow - 1)
               hit == IF first > 0 THEN first ELSE other
    <3>1. feed' = feed /\ shows' = shows /\ filterMode' = filterMode
      BY <2>1 DEF CommitSearch, feed, shows
    <3>2. hit = 0 \/ IsHit(hit)
      <4>1. /\ first = 0 \/ IsHit(first)
            /\ other = 0 \/ IsHit(other)
        BY SearchFindsHits
      <4> HIDE DEF first, other
      <4>2. QED
        BY <4>1
    <3>3. IF hit > 0 THEN JumpToHit(hit) ELSE Stay
      BY <2>1, Zenon DEF CommitSearch
    <3> HIDE DEF hit
    <3>4. hit > 0 => IsHit(hit)
      BY <3>2
    <3>5. QED
      BY <3>1, <3>3, <3>4 DEF Stay
  <2>2. CASE NextMatch \/ PrevMatch
    <3>1. /\ feed' = feed /\ shows' = shows /\ filterMode' = filterMode
          /\ SearchNext \/ SearchPrev
      BY <2>2 DEF NextMatch, PrevMatch, feed, shows
    <3> HIDE DEF Jumps
    <3>2. searchHitA' = searchHitA \/ Jumps
      BY <3>1, <1>1
    <3>3. QED
      BY <3>1, <3>2 DEF Jumps
  <2>3. CASE Filter \/ Esc
    BY <2>3 DEF Filter, Esc, ClearSearch, search
  <2>4. ASSUME NEW yes \in BOOLEAN, AnswerPrompt(yes)
        PROVE  \/ searchHitA' = searchHitA
               \/ feed' = feed /\ shows' = shows /\ filterMode' = filterMode /\ Jumps
    <3> DEFINE hit == IF wrapPrompt = "next" THEN FindDown(1) ELSE FindUp(Len(lines))
    <3>1. feed' = feed /\ shows' = shows /\ filterMode' = filterMode
      BY <2>4 DEF AnswerPrompt, feed, shows
    <3>2. hit = 0 \/ IsHit(hit)
      BY SearchFindsHits
    <3>3. IF yes /\ searching /\ hit > 0 THEN JumpToHit(hit) ELSE Stay
      BY <2>4, Zenon DEF AnswerPrompt
    <3> HIDE DEF hit
    <3>4. hit > 0 => IsHit(hit)
      BY <3>2
    <3>5. QED
      BY <3>1, <3>3, <3>4 DEF Stay
  <2>5. QED
    BY <1>5, <2>1, <2>2, <2>3, <2>4 DEF Searches
<1>6. CASE Blocks
  <2>1. search' = search
    BY <1>6 DEF Blocks, NextBlock, PrevBlock
  <2>2. QED
    BY <2>1 DEF search
<1>7. CASE VisualKeys
  <2>1. search' = search
    BY <1>7 DEF VisualKeys, EnterVisual, SetAnchor, ExitVisual, MoveCursor
  <2>2. QED
    BY <2>1 DEF search
<1>8. QED
  BY <1>2, <1>3, <1>4, <1>5, <1>6, <1>7 DEF Next

LEMMA NoRowForNoAnchor == NavInv => RowForAnchor(NoAnchor) = 0
<1>1. SUFFICES ASSUME NavInv
               PROVE  RowForAnchor(NoAnchor) = 0
  OBVIOUS
<1>2. Layout(lines) /\ DOMAIN lines = 1 .. Len(lines)
  BY <1>1, WindowIsLaidOut DEF NavInv
<1>3. \A i \in DOMAIN lines : lines[i].id # NoAnchor.id
  BY <1>2, RowIs DEF NoAnchor
<1>4. {i \in DOMAIN lines : lines[i].id = NoAnchor.id} = {}
  BY <1>3
<1>5. QED
  BY <1>4, Zenon DEF RowForAnchor

\* A key that moves to a row shows it: a search the hit, which is not hidden,
\* filtered or not, and visual mode its cursor unless the row is hidden.
THEOREM MovesAreShown == Spec => MovesShowTarget
<1>1. ASSUME NavInv, Next, searchHitA' # searchHitA, RowForAnchor(searchHitA)' > 0, NavInv'
      PROVE  LET hit == RowForAnchor(searchHitA)
             IN (hit \in Visible \intersect EnabledRows /\ lines[hit].row.hit)'
  <2>1. (NavInv => RowForAnchor(NoAnchor) = 0)'
    BY NoRowForNoAnchor, PTL
  <2>2. searchHitA' # NoAnchor
    <3>1. SUFFICES ASSUME searchHitA' = NoAnchor
                   PROVE  FALSE
      OBVIOUS
    <3>2. RowForAnchor(searchHitA)' = RowForAnchor(NoAnchor)'
      BY <3>1, Zenon DEF RowForAnchor
    <3>3. QED
      BY <1>1, <2>1, <3>2
  <2>3. /\ feed' = feed /\ shows' = shows /\ filterMode' = filterMode
        /\ \E h : IsHit(h) /\ JumpToHit(h)
    BY <1>1, <2>2, HitsAreJumpedTo
  <2>4. PICK h : IsHit(h) /\ JumpToHit(h)
    BY <2>3
  <2>5. /\ RowForAnchor(searchHitA)' = h /\ h \in Visible' /\ h \in EnabledRows'
        /\ lines'[h].row.hit
    BY <1>1, <2>3, <2>4, JumpShowsHit
  <2>6. QED
    BY <2>5
<1>2. ASSUME NavInv, [Next]_vars, NavInv'
      PROVE  [ /\ searchHitA' # searchHitA /\ RowForAnchor(searchHitA)' > 0 =>
                    LET hit == RowForAnchor(searchHitA)
                    IN (hit \in Visible \intersect EnabledRows /\ lines[hit].row.hit)'
               /\ \A delta \in {-1, 1} :
                    MoveCursor(delta) /\ ~ filterMode =>
                      (VisualCursorRow \in Visible \/ VisualCursorRow \notin EnabledRows)' ]_vars
  <2>1. CASE vars' = vars
    BY <2>1
  <2>2. CASE Next
    BY <1>1, <1>2, <2>2, CursorIsShown
  <2>3. QED
    BY <1>2, <2>1, <2>2
<1>3. QED
  BY <1>2, NavInvHolds, PTL DEF Spec, MovesShowTarget


-----------------------------------------------------------------------------
(* Arrivals while browsing.                                                 *)

\* Rows that can be matched, by moving them d up, with some of others are no
\* more than these.
LEMMA NoMoreWhenMoved ==
  ASSUME NEW n \in Nat, NEW S \in SUBSET (1 .. n), NEW m \in Nat, NEW T \in SUBSET (1 .. m),
         NEW d \in Int, \A j \in S : j + d \in T
  PROVE  Cardinality(S) <= Cardinality(T)
<1> DEFINE f == [j \in S |-> j + d]
<1>1. \A j \in S : j \in Int
  OBVIOUS
<1>2. f \in [S -> T]
  OBVIOUS
<1>3. IsInjective(f)
  <2>1. \A a, b \in S : a + d = b + d => a = b
    BY <1>1
  <2>2. QED
    BY <2>1 DEF IsInjective
<1> HIDE DEF f
<1>4. f \in Injection(S, T) /\ IsFiniteSet(T)
  BY <1>2, <1>3, RowsAreFinite DEF Injection
<1>5. QED
  BY <1>4, FS_Injection

\* Records do not change when another one arrives.
LEMMA AppendKeepsStream ==
  ASSUME NEW all \in Seq(Kinds), NEW kind \in Kinds, NEW on \in BOOLEAN
  PROVE  \A m \in 0 .. Len(all) : Stream(Append(all, kind), on)[m] = Stream(all, on)[m]
<1> DEFINE more == Append(all, kind)
           n == Len(all)
           T == {m \in 0 .. n : Stream(more, on)[m] = Stream(all, on)[m]}
<1>1. n \in Nat /\ more \in Seq(Kinds) /\ Len(more) = n + 1
  OBVIOUS
<1>2. \A m \in 1 .. n : more[m] = all[m]
  OBVIOUS
<1> HIDE DEF more
<1>3. \A m \in 1 .. n : Record(more, on, m) = Record(all, on, m)
  BY <1>2 DEF Record
<1>4. /\ Stream(all, on)[0] = <<>>
      /\ \A m \in 1 .. n : Stream(all, on)[m] = Stream(all, on)[m - 1] \o Record(all, on, m)
  BY StreamIs
<1>5. /\ Stream(more, on)[0] = <<>>
      /\ \A m \in 1 .. n : Stream(more, on)[m] = Stream(more, on)[m - 1] \o Record(more, on, m)
  <2>1. /\ Stream(more, on)[0] = <<>>
        /\ \A m \in 1 .. Len(more) :
             Stream(more, on)[m] = Stream(more, on)[m - 1] \o Record(more, on, m)
    BY <1>1, StreamIs
  <2>2. \A m \in 1 .. n : m \in 1 .. Len(more)
    BY <1>1
  <2>3. QED
    BY <2>1, <2>2
<1> HIDE DEF n
<1>6. 0 \in T
  BY <1>1, <1>4, <1>5
<1>7. \A m \in 0 .. n - 1 : m \in T => m + 1 \in T
  <2>1. SUFFICES ASSUME NEW m \in 0 .. n - 1, m \in T
                 PROVE  m + 1 \in T
    OBVIOUS
  <2>2. m + 1 \in 1 .. n /\ m + 1 \in 0 .. n /\ (m + 1) - 1 = m
    BY <1>1
  <2>3. Stream(more, on)[m] = Stream(all, on)[m]
    BY <2>1
  <2> DEFINE k == m + 1
  <2>4. k \in 1 .. n /\ k \in 0 .. n /\ k - 1 = m
    BY <2>2
  <2> HIDE DEF k
  <2>5. Stream(more, on)[k] = Stream(all, on)[k]
    BY <2>3, <2>4, <1>3, <1>4, <1>5
  <2>6. QED
    BY <2>4, <2>5 DEF k
<1> HIDE DEF T
<1>8. \A m \in 0 .. n : m \in T
  BY <1>1, <1>6, <1>7, UpTo
<1>9. QED
  BY <1>8 DEF T, n, more

\* What has left the window does not come back with an arrival.
LEMMA DropsMore ==
  ASSUME NEW all \in Seq(Kinds), NEW kind \in Kinds, NEW on \in BOOLEAN,
         NEW floor, FloorOK(all, floor)
  PROVE  /\ FloorOK(Append(all, kind), floor)
         /\ Dropped(all, on, floor) <= Dropped(Append(all, kind), on, floor)
<1> DEFINE more == Append(all, kind)
           n == Len(all)
           rows == Stream(all, on)
           new == Stream(more, on)
           D == Dropped(all, on, floor)
           E == Dropped(more, on, floor)
           May(k) == /\ k >= n - Scrollback
                     /\ floor > 0 => k > floor
                     /\ Len(rows[n]) - Len(rows[k]) <= Scrollback
<1>1. n \in Nat /\ more \in Seq(Kinds) /\ Len(more) = n + 1 /\ floor \in Nat
  BY DEF FloorOK
<1>2. FloorOK(more, floor)
  BY <1>1 DEF FloorOK
<1>3. D \in 0 .. n /\ \A k \in 0 .. n : May(k) => D <= k
  BY DroppedIs
<1>4. /\ E \in 0 .. Len(more)
      /\ E >= Len(more) - Scrollback
      /\ floor > 0 => E > floor
      /\ Len(new[Len(more)]) - Len(new[E]) <= Scrollback
  <2> HIDE DEF more
  <2>1. QED
    BY <1>1, <1>2, DroppedIs
<1>5. \A m \in 0 .. n : new[m] = rows[m]
  BY AppendKeepsStream
<1>6. Len(new[n]) + 1 <= Len(new[n + 1]) /\ Len(new[n + 1]) \in Nat /\ Len(new[n]) \in Nat
  <2> HIDE DEF more
  <2>1. n \in 0 .. Len(more) /\ n + 1 \in n .. Len(more)
    BY <1>1
  <2>2. Len(new[n]) + ((n + 1) - n) <= Len(new[n + 1])
    BY <1>1, <2>1, StreamGrows
  <2>3. new[n] \in Seq(Line) /\ new[n + 1] \in Seq(Line)
    BY <1>1, <2>1, StreamTypes
  <2>4. Len(new[n]) \in Nat /\ Len(new[n + 1]) \in Nat
    BY <2>3
  <2> HIDE DEF n, new
  <2>5. QED
    BY <1>1, <2>2, <2>4
<1>7. CASE E \in 0 .. n
  <2>1. new[E] = rows[E] /\ new[n] = rows[n]
    BY <1>1, <1>5, <1>7
  <2>2. new[E] \in Seq(Line)
    <3> HIDE DEF more
    <3>1. QED
      BY <1>1, <1>4, StreamTypes
  <2>3. Len(new[E]) \in Nat
    BY <2>2
  <2>4. May(E)
    <3> HIDE DEF more, n, rows, new, E
    <3>1. E >= n - Scrollback
      BY <1>1, <1>4, <1>7, NavAssumption
    <3>2. Len(rows[n]) - Len(rows[E]) <= Scrollback
      <4> DEFINE x == Len(new[n])
                 y == Len(new[n + 1])
                 z == Len(new[E])
      <4>1. y - z <= Scrollback /\ Scrollback \in Nat
        BY <1>1, <1>4, NavAssumption
      <4>2. x + 1 <= y /\ x \in Nat /\ y \in Nat /\ z \in Nat
        BY <1>6, <2>3
      <4>3. Len(rows[n]) = x /\ Len(rows[E]) = z
        BY <2>1
      <4> HIDE DEF x, y, z
      <4>4. x - z <= Scrollback
        BY <4>1, <4>2
      <4>5. QED
        BY <4>3, <4>4
    <3>3. QED
      BY <1>4, <3>1, <3>2
  <2> HIDE DEF May, D, E
  <2>5. QED
    BY <1>2, <1>3, <1>7, <2>4 DEF D, E
<1>8. CASE ~ (E \in 0 .. n)
  <2> HIDE DEF more, n, D, E
  <2>1. D <= E
    BY <1>1, <1>3, <1>4, <1>8
  <2>2. QED
    BY <1>2, <2>1 DEF D, E, more
<1>9. QED
  BY <1>7, <1>8


\* An arrival moves the rows up by the d that leave at the head, and what is
\* below is of a record after the n first.
Shifted(ls, new, d, n) ==
  /\ d \in 0 .. Len(ls)
  /\ Len(ls) - d <= Len(new)
  /\ \A i \in 1 .. Len(ls) - d : new[i] = ls[i + d]
  /\ \A i \in Len(ls) - d + 1 .. Len(new) : new[i].id > n

\* None of the first d rows is of the record.
Before(ls, d, id) == \A i \in 1 .. d : ls[i].id # id

\* LinesAre, said of any lines.
AreLast(all, on, floor) ==
  /\ Base(all, on, floor) \in Nat
  /\ Len(LinesOf(all, on, floor)) \in Nat
  /\ Base(all, on, floor) + Len(LinesOf(all, on, floor)) = Len(Stream(all, on)[Len(all)])
  /\ \A i \in 1 .. Len(LinesOf(all, on, floor)) :
       LinesOf(all, on, floor)[i] = Stream(all, on)[Len(all)][Base(all, on, floor) + i]

LEMMA LinesAreLast ==
  ASSUME NEW all \in Seq(Kinds), NEW on \in BOOLEAN, NEW floor, FloorOK(all, floor)
  PROVE  AreLast(all, on, floor)
BY LinesAre DEF AreLast

\* While a record is in the window, none of its rows is among those that leave.
LEMMA ArrivalShifts ==
  ASSUME NEW all \in Seq(Kinds), NEW kind \in Kinds, NEW on \in BOOLEAN,
         NEW floor, FloorOK(all, floor), NEW id \in 1 .. Len(all),
         NEW k \in 1 .. Len(LinesOf(Append(all, kind), on, floor)),
         LinesOf(Append(all, kind), on, floor)[k].id = id
  PROVE  \E d \in Nat :
           /\ Shifted(LinesOf(all, on, floor), LinesOf(Append(all, kind), on, floor), d, Len(all))
           /\ Before(LinesOf(all, on, floor), d, id)
<1> DEFINE more == Append(all, kind)
           n == Len(all)
           rows == Stream(all, on)
           new == Stream(more, on)
           D == Dropped(all, on, floor)
           E == Dropped(more, on, floor)
           ls == LinesOf(all, on, floor)
           ms == LinesOf(more, on, floor)
           b == Base(all, on, floor)
           c == Base(more, on, floor)
<1>1. n \in Nat /\ more \in Seq(Kinds) /\ Len(more) = n + 1
  OBVIOUS
<1>2. FloorOK(more, floor) /\ D <= E /\ D \in 0 .. n
  BY DropsMore, DroppedRange
<1>3. \A m \in 0 .. n : new[m] = rows[m]
  BY AppendKeepsStream
<1>4. /\ b \in Nat /\ Len(ls) \in Nat /\ b + Len(ls) = Len(rows[n])
      /\ \A i \in 1 .. Len(ls) : ls[i] = rows[n][b + i]
  BY LinesAre
<1>5. /\ c \in Nat /\ Len(ms) \in Nat /\ c + Len(ms) = Len(new[n + 1])
      /\ \A i \in 1 .. Len(ms) : ms[i] = new[n + 1][c + i]
  <2> HIDE DEF more
  <2>1. /\ c \in Nat /\ Len(ms) \in Nat /\ c + Len(ms) = Len(new[Len(more)])
        /\ \A i \in 1 .. Len(ms) : ms[i] = new[Len(more)][c + i]
    <3>1. AreLast(more, on, floor)
      BY <1>1, <1>2, LinesAreLast
    <3>2. QED
      BY <3>1 DEF AreLast
  <2>2. Len(more) = n + 1
    BY <1>1
  <2> HIDE DEF ms, c, new, n
  <2>3. QED
    BY <2>1, <2>2
<1>6. E \in 0 .. n /\ E < id
  <2> HIDE DEF more
  <2>1. IsRow(more, on, floor, k, ms[k]) /\ ms[k].id = id
    BY <1>1, <1>2, LinesAreLocated DEF more
  <2>2. id \in E + 1 .. Len(more) /\ E \in 0 .. Len(more)
    BY <1>1, <1>2, <2>1, DroppedRange DEF IsRow
  <2> HIDE DEF E
  <2>3. QED
    BY <1>1, <2>2 DEF more
<1>7. b = Len(rows[D]) /\ c = Len(rows[E])
  BY <1>3, <1>6 DEF Base
<1>8. \A m \in 0 .. n : rows[m] \in Seq(Line) /\ Len(rows[m]) \in Nat
  <2>1. \A m \in 0 .. n : rows[m] \in Seq(Line)
    BY StreamTypes
  <2> HIDE DEF rows
  <2>2. QED
    BY <2>1
<1>9. \A m, l \in 0 .. n : m <= l => Len(rows[m]) <= Len(rows[l])
  <2>1. SUFFICES ASSUME NEW m \in 0 .. n, NEW l \in 0 .. n, m <= l
                 PROVE  Len(rows[m]) <= Len(rows[l])
    OBVIOUS
  <2>2. l \in m .. n
    BY <2>1
  <2>3. Len(rows[m]) + (l - m) <= Len(rows[l])
    BY <2>2, StreamGrows
  <2>4. Len(rows[m]) \in Nat /\ Len(rows[l]) \in Nat
    BY <1>8
  <2> HIDE DEF rows
  <2>5. QED
    BY <2>1, <2>3, <2>4
<1>10. /\ Len(new[n]) <= Len(new[n + 1])
       /\ \A i \in 1 .. Len(new[n]) : new[n + 1][i] = new[n][i]
  <2> HIDE DEF more, n
  <2>1. n \in 0 .. Len(more) /\ n + 1 \in n .. Len(more)
    BY <1>1
  <2>2. /\ Len(new[n]) + ((n + 1) - n) <= Len(new[n + 1])
        /\ \A i \in 1 .. Len(new[n]) : new[n + 1][i] = new[n][i]
    BY <1>1, <2>1, StreamGrows
  <2>3. Len(new[n]) \in Nat /\ Len(new[n + 1]) \in Nat
    <3>1. new[n] \in Seq(Line) /\ new[n + 1] \in Seq(Line)
      BY <1>1, <2>1, StreamTypes
    <3>2. QED
      BY <3>1
  <2> HIDE DEF new
  <2>4. QED
    BY <1>1, <2>2, <2>3
<1>11. new[n] = rows[n]
  BY <1>1, <1>3
<1> DEFINE d == c - b
           p == Len(ls)
           q == Len(ms)
           r == Len(rows[n])
<1>12. /\ b <= c /\ c <= r /\ r \in Nat /\ p \in Nat /\ q \in Nat
       /\ b + p = r /\ r <= c + q
  <2>1. Len(rows[D]) <= Len(rows[E]) /\ Len(rows[E]) <= Len(rows[n])
    BY <1>1, <1>2, <1>6, <1>9
  <2>2. r \in Nat
    BY <1>1, <1>8
  <2>3. r <= Len(new[n + 1])
    BY <1>10, <1>11
  <2>4. QED
    BY <1>4, <1>5, <1>7, <2>1, <2>2, <2>3
<1>13. d \in Nat /\ d \in 0 .. p /\ p - d <= q /\ d = c - b /\ c + (p - d) = r
  <2> HIDE DEF b, c, p, q, r
  <2>1. QED
    BY <1>4, <1>5, <1>12
<1>14. ASSUME NEW i \in 1 .. p - d
       PROVE  ms[i] = ls[i + d]
  <2> HIDE DEF b, c, p, q, r, d
  <2>1. /\ i \in 1 .. q /\ c + i \in 1 .. r /\ i + d \in 1 .. p
        /\ b + (i + d) = c + i
    BY <1>4, <1>5, <1>12, <1>13
  <2> HIDE DEF ms, ls, new, rows
  <2>2. ms[i] = new[n + 1][c + i] /\ ls[i + d] = rows[n][b + (i + d)]
    BY <1>4, <1>5, <2>1 DEF p, q
  <2>3. new[n + 1][c + i] = rows[n][c + i]
    BY <1>10, <1>11, <2>1 DEF r
  <2>4. QED
    BY <2>1, <2>2, <2>3
<1>15. ASSUME NEW i \in p - d + 1 .. q
       PROVE  ms[i].id > n
  <2> DEFINE id2 == ms[i].id
             off2 == ms[i].off
  <2>1. i \in 1 .. q /\ c + i > r /\ c \in Nat /\ r \in Nat
    <3>1. c \in Nat
      BY <1>5
    <3> HIDE DEF b, c, p, q, r, d
    <3> DEFINE e == p - d
    <3>2. i \in Int /\ i >= e + 1 /\ i <= q /\ e \in Nat /\ c + e = r /\ q \in Nat /\ r \in Nat
      BY <1>12, <1>13
    <3> HIDE DEF e
    <3>3. i \in 1 .. q /\ c + i > r
      BY <3>1, <3>2
    <3>4. QED
      BY <3>1, <3>2, <3>3
  <2>2. /\ id2 \in E + 1 .. n + 1
        /\ off2 \in 1 .. Len(Record(more, on, id2))
        /\ c + i = Len(new[id2 - 1]) + off2
    <3>1. IsRow(more, on, floor, i, ms[i])
      <4> HIDE DEF more
      <4>1. QED
        BY <1>1, <1>2, <2>1, LinesAreLocated
    <3> HIDE DEF more
    <3>2. QED
      BY <1>1, <3>1 DEF IsRow
  <2> HIDE DEF id2, off2
  <2>3. id2 > n
    <3>1. SUFFICES ASSUME id2 \in 1 .. n
                   PROVE  FALSE
      <4>1. E \in Nat /\ n \in Nat /\ id2 \in E + 1 .. n + 1
        BY <1>1, <1>6, <2>2
      <4> HIDE DEF n, E
      <4>2. ~ id2 > n => id2 \in 1 .. n
        BY <4>1
      <4>3. QED
        BY <4>2
    <3>2. Len(new[id2]) = Len(new[id2 - 1]) + Len(Record(more, on, id2))
      <4>1. id2 \in 1 .. Len(more)
        BY <1>1, <3>1
      <4> HIDE DEF more
      <4>2. QED
        BY <1>1, <4>1, StreamTypes
    <3>3. Len(new[id2]) <= r /\ Len(new[id2]) \in Nat /\ Len(new[id2 - 1]) \in Nat
      <4>1. id2 \in 0 .. n /\ id2 - 1 \in 0 .. n /\ id2 <= n /\ n \in 0 .. n
        BY <1>1, <3>1
      <4>2. new[id2] = rows[id2] /\ new[id2 - 1] = rows[id2 - 1]
        BY <1>3, <4>1
      <4>3. QED
        BY <1>8, <1>9, <4>1, <4>2
    <3>4. Len(Record(more, on, id2)) \in Nat
      <4>1. id2 \in 1 .. Len(more)
        BY <1>1, <3>1
      <4> HIDE DEF more
      <4>2. Len(Record(more, on, id2)) \in 1 .. Scrollback
        BY <1>1, <4>1, RecordIs
      <4>3. QED
        BY <4>2
    <3> DEFINE x == Len(new[id2])
               y == Len(new[id2 - 1])
               z == Len(Record(more, on, id2))
    <3>5. /\ x = y + z /\ x <= r /\ c + i = y + off2 /\ off2 \in 1 .. z /\ z \in Nat
          /\ x \in Nat /\ y \in Nat /\ c + i > r
      BY <2>1, <2>2, <3>2, <3>3, <3>4
    <3> HIDE DEF c, r, x, y, z, q, p, d
    <3>6. QED
      BY <2>1, <3>5
  <2>4. QED
    BY <2>3 DEF id2
<1>16. ASSUME NEW i \in 1 .. d, ls[i].id = id
       PROVE  FALSE
  <2> DEFINE off2 == ls[i].off
  <2>1. i \in 1 .. p /\ b + i <= c
    <3>1. b \in Nat /\ c \in Nat /\ p \in Nat
      BY <1>4, <1>5
    <3>2. d \in 0 .. p /\ d = c - b
      BY <1>13
    <3> HIDE DEF b, c, p, q, r, d
    <3>3. QED
      BY <3>1, <3>2
  <2>2. /\ off2 \in 1 .. Len(Record(all, on, id))
        /\ b + i = Len(rows[id - 1]) + off2
    <3>1. IsRow(all, on, floor, i, ls[i])
      BY <2>1, LinesAreLocated
    <3>2. QED
      BY <1>16, <3>1 DEF IsRow
  <2>3. c <= Len(rows[id - 1]) /\ Len(rows[id - 1]) \in Nat
    <3>1. id - 1 \in 0 .. n /\ E <= id - 1
      <4> HIDE DEF E
      <4>1. QED
        BY <1>1, <1>6
    <3>2. QED
      BY <1>6, <1>7, <1>8, <1>9, <3>1
  <2>4. off2 >= 1 /\ off2 \in Int
    BY <2>2
  <2> DEFINE x == Len(rows[id - 1])
  <2>5. b \in Nat /\ c \in Nat
    BY <1>4, <1>5
  <2>6. c <= x /\ x \in Nat /\ b + i = x + off2 /\ i \in Nat /\ b + i <= c
    BY <2>1, <2>2, <2>3
  <2> HIDE DEF b, c, x, off2
  <2>7. QED
    BY <2>4, <2>5, <2>6
<1>17. Shifted(ls, ms, d, n)
  <2> HIDE DEF ls, ms, d, n, more
  <2>1. QED
    BY <1>13, <1>14, <1>15 DEF Shifted, p, q
<1>18. Before(ls, d, id)
  BY <1>16 DEF Before
<1>19. QED
  BY <1>13, <1>17, <1>18


\* An anchored row moves up with the others.
LEMMA AnchoredRowShifts ==
  ASSUME NEW ls, NEW new, NEW d, NEW n \in Nat, Layout(ls), Layout(new), Shifted(ls, new, d, n),
         NEW a \in AnchorsOf(n), Own(new, a.id) # {}, Before(ls, d, a.id)
  PROVE  RowIn(ls, a) = RowIn(new, a) + d
<1> DEFINE p == Len(ls)
           q == Len(new)
           S == Own(ls, a.id)
           T == Own(new, a.id)
<1>1. p \in Nat /\ q \in Nat /\ DOMAIN ls = 1 .. p /\ DOMAIN new = 1 .. q
  BY RowIs
<1>2. /\ d \in 0 .. p /\ p - d <= q
      /\ \A i \in 1 .. p - d : new[i] = ls[i + d]
      /\ \A i \in p - d + 1 .. q : new[i].id > n
  BY DEF Shifted
<1>3. a.id \in 1 .. n /\ a.off \in Nat \ {0}
  <2>1. PICK i \in 1 .. q : new[i].id = a.id
    BY DEF Own
  <2>2. a.id \in Nat \ {0}
    BY <2>1, RowIs
  <2>3. a # NoAnchor
    BY <2>2 DEF NoAnchor
  <2>4. QED
    BY <2>3 DEF AnchorsOf
<1>4. S = {i \in 1 .. p : ls[i].id = a.id} /\ T = {i \in 1 .. q : new[i].id = a.id}
  BY DEF Own
<1> HIDE DEF p, q, S, T
<1>5. ASSUME NEW i \in T
      PROVE  i + d \in S
  <2>1. i \in 1 .. q /\ new[i].id = a.id
    BY <1>4
  <2>2. ~ (i \in p - d + 1 .. q)
    BY <1>2, <1>3, <2>1
  <2> DEFINE e == p - d
  <2>3. e \in Nat /\ e + d = p /\ ~ (i \in e + 1 .. q)
    BY <1>1, <1>2, <2>2
  <2> HIDE DEF e
  <2>4. i \in 1 .. e
    BY <1>1, <2>1, <2>3
  <2>5. new[i] = ls[i + d] /\ i + d \in 1 .. p
    BY <1>1, <1>2, <2>3, <2>4 DEF e
  <2>6. QED
    BY <1>4, <2>1, <2>5
<1>6. ASSUME NEW j \in S
      PROVE  j - d \in T
  <2>1. j \in 1 .. p /\ ls[j].id = a.id
    BY <1>4
  <2>2. ~ (j \in 1 .. d)
    BY <2>1 DEF Before
  <2> DEFINE i == j - d
  <2>3. i \in 1 .. p - d /\ i + d = j /\ i \in 1 .. q
    BY <1>1, <1>2, <2>1, <2>2
  <2> HIDE DEF i
  <2>4. new[i].id = a.id
    BY <1>2, <2>1, <2>3
  <2>5. i \in T
    BY <1>4, <2>3, <2>4
  <2>6. QED
    BY <2>5 DEF i
<1>7. S # {} /\ T # {} /\ S \in SUBSET (1 .. p) /\ T \in SUBSET (1 .. q)
  BY <1>4, <1>5 DEF T
<1>8. /\ Min(S) \in S /\ (\A j \in S : Min(S) <= j)
      /\ Min(T) \in T /\ (\A i \in T : Min(T) <= i)
  <2>1. S \in SUBSET Nat /\ T \in SUBSET Nat
    BY <1>1, <1>7
  <2>2. QED
    BY <1>7, <2>1, MinIs
<1>9. /\ Max(S) \in S /\ (\A j \in S : j <= Max(S))
      /\ Max(T) \in T /\ (\A i \in T : i <= Max(T))
  <2>1. S \in SUBSET (0 .. p) /\ T \in SUBSET (0 .. q)
    BY <1>1, <1>7
  <2>2. QED
    BY <1>1, <1>7, <2>1, MaxIs
<1> DEFINE lo == Min(T)
           hi == Max(T)
           mn == Min(S)
           mx == Max(S)
           o == a.off
<1>10. /\ lo \in Nat /\ hi \in Nat /\ mn \in Nat /\ mx \in Nat
       /\ o \in Nat \ {0} /\ d \in Nat
  <2>1. S \in SUBSET Nat /\ T \in SUBSET Nat
    BY <1>1, <1>7
  <2>2. QED
    <3>1. lo \in Nat /\ hi \in Nat /\ mn \in Nat /\ mx \in Nat
      BY <1>8, <1>9, <2>1
    <3>2. d \in Nat /\ o \in Nat \ {0}
      BY <1>1, <1>2, <1>3
    <3>3. QED
      BY <3>1, <3>2
<1>11. mn = lo + d /\ mx = hi + d
  <2>1. mn <= lo + d /\ hi + d <= mx
    BY <1>5, <1>8, <1>9
  <2>2. lo <= mn - d /\ mx - d <= hi
    BY <1>6, <1>8, <1>9
  <2> HIDE DEF lo, hi, mn, mx
  <2>3. QED
    BY <1>10, <2>1, <2>2
<1>12. RowIn(ls, a) = Min({mn + o - 1, mx}) /\ RowIn(new, a) = Min({lo + o - 1, hi})
  <2>1. /\ {i \in DOMAIN ls : ls[i].id = a.id} = S
        /\ {i \in DOMAIN new : new[i].id = a.id} = T
    BY <1>1, <1>4
  <2>2. QED
    BY <1>7, <2>1, Zenon DEF RowIn
<1> HIDE DEF lo, hi, mn, mx, o
<1> DEFINE x == mn + o - 1
           y == lo + o - 1
<1>13. x \in Int /\ y \in Int /\ x = y + d /\ mx = hi + d
  BY <1>10, <1>11
<1>14. RowIn(ls, a) = Min({x, mx}) /\ RowIn(new, a) = Min({y, hi})
  BY <1>12
<1> HIDE DEF x, y
<1>15. /\ Min({x, mx}) = IF x <= mx THEN x ELSE mx
       /\ Min({y, hi}) = IF y <= hi THEN y ELSE hi
  BY <1>10, <1>13, MinOfTwo
<1>16. QED
  BY <1>10, <1>13, <1>14, <1>15

\* The rows of a set from a top on.
From(S, top) == {j \in S : j >= top}

\* The rows of a screen are those that were on it, and if it was full no others.
LEMMA ScreenShifts ==
  ASSUME NEW p \in Nat, NEW q \in Nat, NEW d \in 0 .. p, p - d <= q,
         NEW E \in SUBSET (1 .. p), NEW F \in SUBSET (1 .. q),
         \A i \in 1 .. p - d : i \in F <=> i + d \in E,
         NEW top \in Nat \ {0}, top + d <= p, NEW c \in Nat \ {0}
  PROVE  /\ \A i \in FirstN(From(E, top + d), c) :
              i - d \in FirstN(From(F, top), c) /\ i - d \in 1 .. p - d
         /\ Cardinality(From(E, top + d)) >= c =>
              \A i \in FirstN(From(F, top), c) :
                i \in 1 .. p - d /\ i + d \in FirstN(From(E, top + d), c)
<1> DEFINE V == From(E, top + d)
           W == From(F, top)
           e == p - d
<1>1. \A j \in E : j \in 1 .. p
  OBVIOUS
<1>2. \A j \in F : j \in 1 .. q
  OBVIOUS
<1>3. e \in Nat /\ e + d = p /\ e <= q /\ d \in Nat /\ top <= e
  OBVIOUS
<1>4. \A i \in 1 .. e : i \in F <=> i + d \in E
  OBVIOUS
<1>5. V \in SUBSET (1 .. p) /\ W \in SUBSET (1 .. q)
  BY <1>1, <1>2 DEF From
<1>6. \A i \in V : i \in E /\ i >= top + d /\ i \in 1 .. p
  BY <1>1 DEF From
<1>7. \A i \in W : i \in F /\ i >= top /\ i \in 1 .. q
  BY <1>2 DEF From
<1>8. \A i : i \in E /\ i >= top + d => i \in V
  BY DEF From
<1>9. \A i : i \in F /\ i >= top => i \in W
  BY DEF From
<1> HIDE DEF V, W, e
<1>10. ASSUME NEW i \in V
       PROVE  i - d \in W /\ i - d \in 1 .. e
  <2> DEFINE k == i - d
  <2>1. k \in 1 .. e /\ k + d = i /\ k >= top
    BY <1>3, <1>6
  <2> HIDE DEF k
  <2>2. k \in F
    BY <1>4, <1>6, <2>1
  <2>3. QED
    BY <1>9, <2>1, <2>2 DEF k
<1>11. ASSUME NEW k \in W, k \in 1 .. e
       PROVE  k + d \in V
  <2>1. k + d \in E /\ k + d >= top + d
    BY <1>3, <1>4, <1>7, <1>11
  <2>2. QED
    BY <1>8, <2>1
<1> DEFINE BeforeV(i) == {j \in V : j < i}
           BeforeW(i) == {j \in W : j < i}
<1>12. \A i : /\ BeforeV(i) \in SUBSET (1 .. p) /\ Cardinality(BeforeV(i)) \in Nat
              /\ BeforeW(i) \in SUBSET (1 .. q) /\ Cardinality(BeforeW(i)) \in Nat
  <2>1. \A i : BeforeV(i) \in SUBSET (1 .. p) /\ BeforeW(i) \in SUBSET (1 .. q)
    BY <1>5
  <2> HIDE DEF BeforeV, BeforeW
  <2>2. QED
    BY <2>1, RowsAreFinite
<1>13. Cardinality(V) \in Nat
  BY <1>5, RowsAreFinite
<1>14. FirstN(V, c) = {i \in V : Cardinality(BeforeV(i)) < c}
  BY DEF FirstN
<1>15. FirstN(W, c) = {i \in W : Cardinality(BeforeW(i)) < c}
  BY DEF FirstN
<1>16. ASSUME NEW i \in FirstN(V, c)
       PROVE  i - d \in FirstN(W, c) /\ i - d \in 1 .. e
  <2> DEFINE k == i - d
  <2>1. i \in V /\ Cardinality(BeforeV(i)) < c
    BY <1>14
  <2>2. k \in W /\ k \in 1 .. e /\ k + d = i
    BY <1>3, <1>6, <1>10, <2>1
  <2> HIDE DEF k
  <2>3. \A j \in BeforeW(k) : j + d \in BeforeV(i)
    <3>1. SUFFICES ASSUME NEW j \in W, j < k
                   PROVE  j + d \in V /\ j + d < i
      OBVIOUS
    <3>2. j \in 1 .. e
      BY <1>3, <1>7, <2>2, <3>1
    <3>3. j + d < i
      BY <1>3, <2>2, <3>1, <3>2
    <3>4. QED
      BY <1>11, <3>2, <3>3
  <2> HIDE DEF BeforeV, BeforeW
  <2>4. Cardinality(BeforeW(k)) <= Cardinality(BeforeV(i))
    <3>1. BeforeW(k) \in SUBSET (1 .. q) /\ BeforeV(i) \in SUBSET (1 .. p) /\ d \in Int
      BY <1>3, <1>12
    <3>2. QED
      BY <2>3, <3>1, NoMoreWhenMoved
  <2>5. Cardinality(BeforeW(k)) < c
    BY <1>12, <2>1, <2>4
  <2>6. QED
    BY <1>15, <2>2, <2>5 DEF k
<1>17. ASSUME Cardinality(V) >= c, NEW k \in FirstN(W, c)
       PROVE  k \in 1 .. e /\ k + d \in FirstN(V, c)
  <2>1. k \in W /\ Cardinality(BeforeW(k)) < c /\ k \in 1 .. q
    BY <1>7, <1>15
  <2>2. k \in 1 .. e
    <3>1. SUFFICES ASSUME ~ (k \in 1 .. e)
                   PROVE  FALSE
      OBVIOUS
    <3>2. k > e
      BY <1>3, <2>1, <3>1
    <3>3. \A j \in V : j + (0 - d) \in BeforeW(k)
      <4>1. SUFFICES ASSUME NEW j \in V
                     PROVE  j + (0 - d) \in W /\ j + (0 - d) < k
        OBVIOUS
      <4>2. j - d \in W /\ j - d \in 1 .. e /\ j + (0 - d) = j - d
        BY <1>3, <1>6, <1>10
      <4>3. QED
        BY <1>3, <2>1, <3>2, <4>2
    <3> HIDE DEF BeforeW
    <3>4. 0 - d \in Int
      BY <1>3
    <3>5. Cardinality(V) <= Cardinality(BeforeW(k))
      BY <1>5, <1>12, <3>3, <3>4, NoMoreWhenMoved
    <3> DEFINE x == Cardinality(V)
               y == Cardinality(BeforeW(k))
    <3>6. x \in Nat /\ y \in Nat /\ x >= c /\ x <= y
      BY <1>12, <1>13, <1>17, <3>5
    <3>7. y < c
      BY <2>1
    <3> HIDE DEF x, y
    <3>8. QED
      BY <3>6, <3>7
  <2> DEFINE i == k + d
  <2>3. i \in V /\ i \in 1 .. p
    BY <1>6, <1>11, <2>1, <2>2
  <2>4. \A j \in BeforeV(i) : j + (0 - d) \in BeforeW(k)
    <3>1. SUFFICES ASSUME NEW j \in V, j < i
                   PROVE  j + (0 - d) \in W /\ j + (0 - d) < k
      OBVIOUS
    <3>2. j - d \in W /\ j - d \in 1 .. e /\ j + (0 - d) = j - d /\ j \in 1 .. p
      BY <1>3, <1>6, <1>10
    <3>3. j - d < k
      BY <1>3, <2>1, <3>1, <3>2
    <3>4. QED
      BY <3>2, <3>3
  <2> HIDE DEF BeforeV, BeforeW, i
  <2>5. 0 - d \in Int
    BY <1>3
  <2>6. Cardinality(BeforeV(i)) <= Cardinality(BeforeW(k))
    BY <1>12, <2>4, <2>5, NoMoreWhenMoved
  <2>7. Cardinality(BeforeV(i)) < c
    BY <1>12, <2>1, <2>6
  <2>8. i \in FirstN(V, c)
    BY <1>14, <2>3, <2>7
  <2>9. QED
    BY <2>2, <2>8 DEF i
<1>18. QED
  BY <1>16, <1>17 DEF V, W, e


\* What an arrival does to the rows of the screen.
Moved(d, top) ==
  /\ d \in 0 .. Len(lines)
  /\ top \in Nat \ {0}
  /\ top + d <= Len(lines)
  /\ StreamTopRow = top + d
  /\ Shifted(lines, lines', d, Len(ring))

LEMMA ArrivalMoves ==
  ASSUME NavInv, NavInv', NEW kind \in Kinds, Push(kind), RowForAnchor(streamTopA)' > 0
  PROVE  \E d \in Nat : Moved(d, StreamTopRow')
<1> DEFINE a == streamTopA
<1>1. /\ ring' = Append(ring, kind) /\ rendered' = rendered /\ clearedSeq' = clearedSeq
      /\ streamTopA' = streamTopA
  BY DEF Push, viewport
<1>2. /\ ring \in Seq(Kinds) /\ rendered \in BOOLEAN /\ FloorOK(ring, clearedSeq)
      /\ lines = LinesOf(ring, rendered, clearedSeq)
      /\ lines' = LinesOf(Append(ring, kind), rendered, clearedSeq)
      /\ FloorOK(Append(ring, kind), clearedSeq)
  BY <1>1 DEF NavInv, FeedOK
<1>3. Append(ring, kind) \in Seq(Kinds) /\ Len(ring) \in Nat
  BY <1>2
<1>4. Layout(lines) /\ Layout(lines')
  BY <1>2, <1>3, LinesAreLaidOut
<1>5. a \in AnchorsOf(Len(ring))
  BY DEF NavInv, ViewportOK
<1>6. RowForAnchor(streamTopA)' = RowIn(lines', a) /\ RowForAnchor(streamTopA) = RowIn(lines, a)
  BY <1>1, Zenon DEF RowForAnchor, RowIn
<1>7. RowIn(lines', a) \in 0 .. Len(lines') /\ RowIn(lines', a) > 0 /\ Own(lines', a.id) # {}
  BY <1>3, <1>4, <1>5, <1>6, RowOfAnchor
<1>8. PICK k \in 1 .. Len(lines') : lines'[k].id = a.id
  BY <1>7 DEF Own
<1>9. a.id \in 1 .. Len(ring)
  <2>1. a.id \in Nat \ {0}
    BY <1>4, <1>8, RowIs
  <2>2. QED
    BY <1>5, <2>1 DEF AnchorsOf, NoAnchor
<1>10. PICK d \in Nat : /\ Shifted(lines, lines', d, Len(ring))
                        /\ Before(lines, d, a.id)
  <2> DEFINE id == a.id
  <2>1. /\ id \in 1 .. Len(ring)
        /\ k \in 1 .. Len(LinesOf(Append(ring, kind), rendered, clearedSeq))
        /\ LinesOf(Append(ring, kind), rendered, clearedSeq)[k].id = id
    BY <1>2, <1>8, <1>9
  <2> HIDE DEF id
  <2>2. \E d \in Nat :
          /\ Shifted(LinesOf(ring, rendered, clearedSeq),
                     LinesOf(Append(ring, kind), rendered, clearedSeq), d, Len(ring))
          /\ Before(LinesOf(ring, rendered, clearedSeq), d, id)
    BY <1>2, <2>1, ArrivalShifts
  <2>3. QED
    BY <1>2, <2>2 DEF id
<1> DEFINE top == RowIn(lines', a)
<1>11. RowIn(lines, a) = top + d
  <2> DEFINE n == Len(ring)
             new == lines'
  <2>1. /\ n \in Nat /\ Layout(lines) /\ Layout(new) /\ Shifted(lines, new, d, n)
        /\ a \in AnchorsOf(n) /\ Own(new, a.id) # {}
    BY <1>3, <1>4, <1>5, <1>7, <1>10
  <2>2. Before(lines, d, a.id)
    BY <1>10
  <2> HIDE DEF n, new, a
  <2>3. \A b \in AnchorsOf(n) :
           Own(new, b.id) # {} /\ Before(lines, d, b.id) => RowIn(lines, b) = RowIn(new, b) + d
    BY <2>1, AnchoredRowShifts
  <2>4. RowIn(lines, a) = RowIn(new, a) + d
    BY <2>1, <2>2, <2>3
  <2>5. QED
    BY <2>4 DEF new
<1>12. d \in 0 .. Len(lines) /\ RowIn(lines, a) \in 0 .. Len(lines) /\ Len(lines) \in Nat
  <2>1. RowIn(lines, a) \in 0 .. Len(lines)
    BY <1>3, <1>4, <1>5, RowOfAnchor
  <2>2. QED
    BY <1>4, <1>10, <2>1, RowIs DEF Shifted
<1>13. top \in Nat \ {0}
  BY <1>7
<1>14. StreamTopRow' = top /\ StreamTopRow = top + d
  <2>1. StreamTopRow' = OrFirst(top) /\ StreamTopRow = OrFirst(top + d)
    BY <1>6, <1>11 DEF StreamTopRow
  <2> HIDE DEF top
  <2>2. top # 0 /\ top + d # 0
    BY <1>13
  <2>3. QED
    BY <2>1, <2>2 DEF OrFirst
<1> HIDE DEF top
<1>15. top + d <= Len(lines)
  BY <1>11, <1>12
<1>16. Moved(d, top)
  BY <1>10, <1>12, <1>13, <1>14, <1>15 DEF Moved
<1>17. QED
  BY <1>14, <1>16

LEMMA ArrivalIsStill ==
  ASSUME NavInv, NavInv', NEW kind \in Kinds, Push(kind), ~ tailMode, ~ filterMode,
         RowForAnchor(streamTopA)' > 0
  PROVE  IF Cardinality(Screen) = ContentHeight THEN Screen' = Screen
         ELSE Screen \subseteq Screen'
<1>1. /\ groupOff' = groupOff /\ collapseMultiline' = collapseMultiline
      /\ ~ tailMode' /\ ~ filterMode'
  BY DEF Push, shows, viewport, search
<1>2. PICK d \in Nat : Moved(d, StreamTopRow')
  BY ArrivalMoves
<1> DEFINE p == Len(lines)
           q == Len(lines')
           E == EnabledRows
           F == EnabledRows'
           top == StreamTopRow'
           V == From(E, top + d)
           W == From(F, top)
           c == ContentHeight
<1>3. /\ d \in 0 .. p /\ top \in Nat \ {0} /\ top + d <= p /\ p - d <= q
      /\ StreamTopRow = top + d
      /\ \A i \in 1 .. p - d : lines'[i] = lines[i + d]
  BY <1>2 DEF Moved, Shifted
<1>4. /\ p \in Nat /\ q \in Nat /\ c \in Nat \ {0}
      /\ DOMAIN lines = 1 .. p /\ DOMAIN lines' = 1 .. q
  <2>1. Layout(lines)
    BY WindowIsLaidOut DEF NavInv
  <2>2. Layout(lines')
    <3>1. /\ ring' \in Seq(Kinds) /\ rendered' \in BOOLEAN /\ FloorOK(ring', clearedSeq')
          /\ lines' = LinesOf(ring', rendered', clearedSeq')
      BY DEF NavInv, FeedOK
    <3>2. QED
      BY <3>1, LinesAreLaidOut
  <2>3. QED
    BY <2>1, <2>2, RowIs, NavAssumption
<1>5. E = {i \in 1 .. p : Enabled(lines[i])} /\ F = {i \in 1 .. q : Enabled(lines'[i])}
  <2>1. E = {i \in 1 .. p : Enabled(lines[i])}
    BY <1>4 DEF EnabledRows
  <2>2. F = {i \in 1 .. q : Enabled(lines'[i])}
    BY <1>1, <1>4 DEF EnabledRows, Enabled
  <2>3. QED
    BY <2>1, <2>2
<1>6. E \in SUBSET (1 .. p) /\ F \in SUBSET (1 .. q)
  BY <1>5
<1>7. ASSUME NEW i \in 1 .. p - d
      PROVE  i \in F <=> i + d \in E
  <2> HIDE DEF p, q, E, F
  <2>1. i \in 1 .. q /\ i + d \in 1 .. p
    BY <1>3, <1>4
  <2>2. lines'[i] = lines[i + d]
    BY <1>3
  <2>3. QED
    BY <1>5, <2>1, <2>2
<1>8. Visible = FirstN(V, c) /\ Visible' = FirstN(W, c)
  <2>1. Visible = FirstN(V, c)
    BY <1>3 DEF Visible, VisibleFrom, From
  <2>2. Visible' = FirstN(W, c)
    BY <1>1 DEF Visible, VisibleFrom, FirstN, From
  <2>3. QED
    BY <2>1, <2>2
<1> HIDE DEF p, q, E, F, top, c
<1>9. /\ \A i \in FirstN(V, c) : i - d \in FirstN(W, c) /\ i - d \in 1 .. p - d
      /\ Cardinality(V) >= c =>
           \A i \in FirstN(W, c) : i \in 1 .. p - d /\ i + d \in FirstN(V, c)
  <2>1. \A i \in 1 .. p - d : i \in F <=> i + d \in E
    BY <1>7
  <2>2. /\ p \in Nat /\ q \in Nat /\ d \in 0 .. p /\ p - d <= q
        /\ top \in Nat \ {0} /\ top + d <= p /\ c \in Nat \ {0}
    BY <1>3, <1>4
  <2>3. QED
    BY <2>1, <2>2, <1>6, ScreenShifts
<1> DEFINE At(ls, i) == [id |-> ls[i].id, off |-> ls[i].off]
<1>10. /\ Screen = {At(lines, i) : i \in FirstN(V, c)}
       /\ Screen' = {At(lines', i) : i \in FirstN(W, c)}
  BY <1>8 DEF Screen
<1>11. V \in SUBSET (1 .. p) /\ FirstN(V, c) \in SUBSET V
  BY <1>6 DEF FirstN, From
<1> HIDE DEF V, W
<1>12. Screen \subseteq Screen'
  <2>1. SUFFICES ASSUME NEW i \in FirstN(V, c)
                 PROVE  \E k \in FirstN(W, c) : At(lines, i) = At(lines', k)
    BY <1>10
  <2> DEFINE k == i - d
  <2>2. i \in 1 .. p
    BY <1>11
  <2>3. k \in FirstN(W, c) /\ k \in 1 .. p - d /\ k + d = i
    BY <1>3, <1>4, <1>9, <2>2
  <2> HIDE DEF k
  <2>4. lines'[k] = lines[i]
    BY <1>3, <2>3
  <2>5. QED
    BY <2>3, <2>4
<1>13. ASSUME Cardinality(Screen) = c
       PROVE  Screen' \subseteq Screen
  <2>1. Cardinality(V) >= c
    <3> DEFINE X == FirstN(V, c)
               f == [i \in X |-> At(lines, i)]
    <3>1. f \in Surjection(X, Screen)
      <4>1. f \in [X -> Screen] /\ \A s \in Screen : \E i \in X : f[i] = s
        BY <1>10
      <4> HIDE DEF f, X
      <4>2. QED
        BY <4>1 DEF Surjection
    <3>2. /\ IsFiniteSet(X) /\ Cardinality(X) <= Cardinality(V)
          /\ Cardinality(X) \in Nat /\ Cardinality(V) \in Nat
      <4> HIDE DEF X
      <4>1. X \in SUBSET V /\ X \in SUBSET (1 .. p)
        BY <1>11 DEF X
      <4>2. QED
        BY <4>1, <1>4, <1>11, RowsAreFinite
    <3> HIDE DEF f, X
    <3>3. Cardinality(Screen) <= Cardinality(X)
      BY <3>1, <3>2, FS_Surjection
    <3>4. c <= Cardinality(X)
      BY <1>13, <3>3
    <3>5. QED
      BY <1>4, <3>2, <3>4
  <2>2. SUFFICES ASSUME NEW k \in FirstN(W, c)
                 PROVE  \E i \in FirstN(V, c) : At(lines', k) = At(lines, i)
    BY <1>10
  <2>3. k \in 1 .. p - d /\ k + d \in FirstN(V, c)
    BY <1>9, <2>1
  <2>4. lines'[k] = lines[k + d]
    BY <1>3, <2>3
  <2>5. QED
    BY <2>3, <2>4
<1>14. QED
  BY <1>12, <1>13 DEF c

\* While the user browses, lines that arrive at the end and leave at the head
\* move nothing on the screen, unless the record at its top leaves.
THEOREM ArrivalsAreStill == Spec => BrowsingIsStill
<1>1. ASSUME NavInv, NavInv', [Next]_vars
      PROVE  [ \A kind \in Kinds :
                 Push(kind) /\ ~ tailMode /\ ~ filterMode /\ RowForAnchor(streamTopA)' > 0 =>
                   IF Cardinality(Screen) = ContentHeight THEN Screen' = Screen
                   ELSE Screen \subseteq Screen' ]_vars
  BY <1>1, ArrivalIsStill
<1>2. QED
  BY <1>1, NavInvHolds, PTL DEF Spec, BrowsingIsStill

=============================================================================
