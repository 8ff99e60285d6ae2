----------------------------- MODULE RingProofs -----------------------------
(***************************************************************************)
(* Theorems about the record ring, for every capacity, every number of     *)
(* appends and re-renders and every set of renderings, and about its two   *)
(* readers, the MCP tools and the view of the terminal UI.                 *)
(*                                                                         *)
(* LineBuf: the invariants are proved together: RingContiguous makes the   *)
(* entry with a given sequence number unique, which is what keeps          *)
(* IndexAgrees through a re-render, and IndexAgrees tells which key an     *)
(* eviction deletes.                                                       *)
(*                                                                         *)
(* McpTools: seen from the ring the handlers do nothing, so that what is   *)
(* proved of the ring holds under them; what the accessors return is       *)
(* exact; and what a handler holds stays what it was given.                *)
(*                                                                         *)
(* TuiView: the view is in order and within its bounds; a change of the    *)
(* ring is on its way to it or in it; and between reloads the display      *)
(* cache knows of every entry what the ring does, so that a view that has  *)
(* seen the latest change is the one built without it.                     *)
(***************************************************************************)
EXTENDS McpTools, TuiView, SequenceTheorems, WellFoundedInduction, TLAPS

IInv == TypeOK /\ RingContiguous /\ IndexAgrees

-----------------------------------------------------------------------------
(* Numbers, and what Filter returns.                                        *)

\* A nonempty set of naturals has a least element.
LEMMA LeastElement ==
  ASSUME NEW T \in SUBSET Nat, T # {}
  PROVE  \E m \in T : \A k \in T : m <= k
<1> DEFINE Less == {p \in Nat \X Nat : p[1] < p[2]}
<1>1. IsWellFoundedOn(Less, Nat)
  BY NatLessThanWellFounded, Zenon DEF OpToRel
<1>2. PICK m \in T : \A k \in T : ~ (<<k, m>> \in Less)
  <2> HIDE DEF Less
  <2> QED BY <1>1, WFMin
<1>3. ASSUME NEW k \in T
      PROVE  m <= k
  <2>1. <<k, m>> \notin Less /\ <<k, m>> \in Nat \X Nat
    BY <1>2
  <2>2. ~ (<<k, m>>[1] < <<k, m>>[2])
    BY <2>1
  <2>3. k \in Nat /\ m \in Nat
    OBVIOUS
  <2>4. QED
    BY <2>2, <2>3
<1>4. QED
  BY <1>3

\* Induction up to n, over a set instead of a predicate.
LEMMA UpTo ==
  ASSUME NEW n \in Nat, NEW T, 0 \in T,
         \A i \in 0 .. n - 1 : i \in T => i + 1 \in T
  PROVE  \A i \in 0 .. n : i \in T
<1> DEFINE Out == {i \in 0 .. n : i \notin T}
<1> SUFFICES ASSUME Out # {} PROVE FALSE
  OBVIOUS
<1>1. PICK m \in Out : \A k \in Out : m <= k
  <2>1. Out \in SUBSET Nat
    OBVIOUS
  <2> HIDE DEF Out
  <2>2. QED
    BY <2>1, LeastElement
<1>2. m \in 0 .. n /\ m \notin T /\ m # 0
  OBVIOUS
<1>3. m - 1 \in 0 .. n - 1 /\ m - 1 \notin Out
  BY <1>1, <1>2
<1>4. m - 1 \in T
  BY <1>3
<1>5. (m - 1) + 1 = m
  BY <1>2
<1>6. QED
  BY <1>2, <1>3, <1>4, <1>5

\* What Filter computes for the first n elements, by recursion on n.
IsFilter(f, s, K, n) ==
  f = [i \in 0 .. n |->
         IF i = 0 THEN <<>>
         ELSE IF s[i] \in K THEN Append(f[i - 1], s[i]) ELSE f[i - 1]]

\* That recursion has a solution.
LEMMA FilterExists ==
  ASSUME NEW s, NEW K, NEW n \in Nat
  PROVE  \E f : IsFilter(f, s, K, n)
<1> DEFINE T == {m \in Nat : \E f : IsFilter(f, s, K, m)}
<1>1. 0 \in T
  <2>1. IsFilter([i \in 0 .. 0 |-> <<>>], s, K, 0)
    BY DEF IsFilter
  <2>2. QED
    BY <2>1
<1>2. ASSUME NEW m \in 0 .. n - 1, m \in T
      PROVE  m + 1 \in T
  <2>1. PICK f : IsFilter(f, s, K, m)
    BY <1>2
  <2> DEFINE g == [i \in 0 .. m + 1 |->
                     IF i = m + 1
                     THEN IF s[m + 1] \in K THEN Append(f[m], s[m + 1]) ELSE f[m]
                     ELSE f[i]]
  <2>2. \A i \in 0 .. m : f[i] = IF i = 0 THEN <<>>
            ELSE IF s[i] \in K THEN Append(f[i - 1], s[i]) ELSE f[i - 1]
    <3>1. \A i \in 0 .. m : [j \in 0 .. m |->
         IF j = 0 THEN <<>>
         ELSE IF s[j] \in K THEN Append(f[j - 1], s[j]) ELSE f[j - 1]][i] = IF i = 0 THEN <<>>
            ELSE IF s[i] \in K THEN Append(f[i - 1], s[i]) ELSE f[i - 1]
      OBVIOUS
    <3>2. QED
      BY <2>1, <3>1 DEF IsFilter
  <2>3. ASSUME NEW i \in 0 .. m + 1
        PROVE  g[i] = IF i = 0 THEN <<>>
            ELSE IF s[i] \in K THEN Append(g[i - 1], s[i]) ELSE g[i - 1]
    <3>1. CASE i = m + 1
      <4>1. i # 0 /\ i - 1 = m /\ g[i - 1] = f[m]
        BY <3>1
      <4>2. QED
        BY <3>1, <4>1
    <3>2. CASE i # m + 1
      <4>1. i \in 0 .. m /\ g[i] = f[i] /\ (i # 0 => i - 1 \in 0 .. m /\ g[i - 1] = f[i - 1])
        BY <3>2
      <4>2. QED
        BY <4>1, <2>2
    <3>3. QED
      BY <3>1, <3>2
  <2>4. IsFilter(g, s, K, m + 1)
    BY <2>3 DEF IsFilter
  <2>5. QED
    BY <2>4
<1> HIDE DEF T
<1>3. n \in T
  BY <1>1, <1>2, UpTo
<1>4. QED
  BY <1>3 DEF T

\* t holds those of the first m elements of s that are in K, in their order: its
\* j-th element is the one at position h[j].
Picks(s, K, t, h, m) ==
  /\ h \in [1 .. Len(t) -> 1 .. m]
  /\ \A j \in 1 .. Len(t) : t[j] = s[h[j]] /\ s[h[j]] \in K
  /\ \A j, k \in 1 .. Len(t) : j < k => h[j] < h[k]
  /\ \A i \in 1 .. m : s[i] \in K => \E j \in 1 .. Len(t) : h[j] = i

\* One more element is looked at.
LEMMA FilterStep ==
  ASSUME NEW S, NEW s, NEW K, NEW m \in Nat, NEW t \in Seq(S), NEW h,
         Picks(s, K, t, h, m), s[m + 1] \in S
  PROVE  LET u == IF s[m + 1] \in K THEN Append(t, s[m + 1]) ELSE t
         IN u \in Seq(S) /\ \E g : Picks(s, K, u, g, m + 1)
<1>1. CASE s[m + 1] \notin K
  <2>1. Picks(s, K, t, h, m + 1)
    BY <1>1 DEF Picks
  <2>2. QED
    BY <1>1, <2>1
<1>2. CASE s[m + 1] \in K
  <2> DEFINE n == Len(t)
             u == Append(t, s[m + 1])
             g == [j \in 1 .. n + 1 |-> IF j = n + 1 THEN m + 1 ELSE h[j]]
  <2>1. n \in Nat /\ u \in Seq(S) /\ Len(u) = n + 1 /\ u[n + 1] = s[m + 1]
        /\ \A j \in 1 .. n : u[j] = t[j]
    OBVIOUS
  <2>2. /\ \A j \in 1 .. n : h[j] \in 1 .. m /\ u[j] = s[h[j]] /\ s[h[j]] \in K
        /\ \A j, k \in 1 .. n : j < k => h[j] < h[k]
        /\ \A i \in 1 .. m : s[i] \in K => \E j \in 1 .. n : h[j] = i
    BY <2>1 DEF Picks
  <2> HIDE DEF n, u
  <2>3. /\ \A j \in 1 .. n : g[j] = h[j]
        /\ g[n + 1] = m + 1
        /\ g \in [1 .. n + 1 -> 1 .. m + 1]
    BY <2>1, <2>2
  <2> HIDE DEF g
  <2>4. \A j \in 1 .. n + 1 : j \in 1 .. n \/ j = n + 1
    BY <2>1
  <2>5. \A j \in 1 .. n + 1 : u[j] = s[g[j]] /\ s[g[j]] \in K
    BY <1>2, <2>1, <2>2, <2>3, <2>4
  <2>6. \A j, k \in 1 .. n + 1 : j < k => g[j] < g[k]
    <3>1. \A j \in 1 .. n : g[j] \in 1 .. m
      BY <2>2, <2>3
    <3>2. \A j \in 1 .. n : g[j] < g[n + 1]
      BY <3>1, <2>3
    <3>3. \A j, k \in 1 .. n : j < k => g[j] < g[k]
      BY <2>2, <2>3
    <3>4. \A j, k \in 1 .. n + 1 : j < k => j \in 1 .. n
      BY <2>1
    <3>5. QED
      BY <2>4, <3>2, <3>3, <3>4
  <2>7. \A i \in 1 .. m + 1 : s[i] \in K => \E j \in 1 .. n + 1 : g[j] = i
    <3>1. SUFFICES ASSUME NEW i \in 1 .. m + 1, s[i] \in K
                   PROVE  \E j \in 1 .. n + 1 : g[j] = i
      OBVIOUS
    <3>2. CASE i = m + 1
      BY <3>2, <2>1, <2>3
    <3>3. CASE i \in 1 .. m
      <4>1. PICK j \in 1 .. n : h[j] = i
        BY <3>1, <3>3, <2>2
      <4>2. QED
        BY <4>1, <2>1, <2>3
    <3>4. QED
      BY <3>2, <3>3
  <2>8. Picks(s, K, u, g, m + 1)
    BY <2>1, <2>3, <2>5, <2>6, <2>7 DEF Picks
  <2>9. QED
    BY <1>2, <2>1, <2>8 DEF u
<1>3. QED
  BY <1>1, <1>2

\* Filter keeps exactly the elements that are in K, in their order.
LEMMA FilterPicks ==
  ASSUME NEW S, NEW s \in Seq(S), NEW K
  PROVE  /\ Filter(s, K) \in Seq(S)
         /\ \E h : Picks(s, K, Filter(s, K), h, Len(s))
<1> DEFINE n == Len(s)
           f == CHOOSE f : IsFilter(f, s, K, n)
           T == {m \in 0 .. n : f[m] \in Seq(S) /\ \E h : Picks(s, K, f[m], h, m)}
<1>1. n \in Nat
  OBVIOUS
<1>2. Filter(s, K) = f[n]
  BY DEF Filter, IsFilter
<1>3. IsFilter(f, s, K, n)
  BY <1>1, FilterExists
<1>4. /\ f[0] = <<>>
      /\ \A i \in 1 .. n : f[i] = IF s[i] \in K THEN Append(f[i - 1], s[i]) ELSE f[i - 1]
  <2> HIDE DEF f
  <2>1. \A i \in 0 .. n : f[i] = IF i = 0 THEN <<>>
          ELSE IF s[i] \in K THEN Append(f[i - 1], s[i]) ELSE f[i - 1]
    <3> DEFINE e(i) == IF i = 0 THEN <<>>
          ELSE IF s[i] \in K THEN Append(f[i - 1], s[i]) ELSE f[i - 1]
    <3>1. f = [i \in 0 .. n |-> e(i)]
      BY <1>3 DEF IsFilter
    <3> HIDE DEF e
    <3>2. \A i \in 0 .. n : f[i] = e(i)
      BY <3>1
    <3>3. QED
      BY <3>2 DEF e
  <2>2. QED
    BY <1>1, <2>1
<1> HIDE DEF f
<1>5. 0 \in T
  <2>1. Picks(s, K, <<>>, <<>>, 0)
    BY DEF Picks
  <2>2. f[0] \in Seq(S) /\ Picks(s, K, f[0], <<>>, 0)
    BY <1>4, <2>1
  <2>3. QED
    BY <1>1, <2>2
<1>6. ASSUME NEW m \in 0 .. n - 1, m \in T
      PROVE  m + 1 \in T
  <2>1. PICK h : f[m] \in Seq(S) /\ Picks(s, K, f[m], h, m)
    BY <1>6
  <2>2. s[m + 1] \in S /\ m \in Nat /\ m + 1 \in 1 .. n /\ (m + 1) - 1 = m
    BY <1>1
  <2>3. f[m + 1] = IF s[m + 1] \in K THEN Append(f[m], s[m + 1]) ELSE f[m]
    BY <1>4, <2>2
  <2>4. f[m + 1] \in Seq(S) /\ \E g : Picks(s, K, f[m + 1], g, m + 1)
    BY <2>1, <2>2, <2>3, FilterStep
  <2>5. m + 1 \in 0 .. n
    BY <1>1
  <2>6. QED
    BY <2>4, <2>5
<1> HIDE DEF T, n
<1>7. \A i \in 0 .. n : i \in T
  <2>1. \A i \in 0 .. n - 1 : i \in T => i + 1 \in T
    BY <1>6
  <2>2. QED
    BY <1>1, <1>5, <2>1, UpTo
<1>8. QED
  BY <1>1, <1>2, <1>7 DEF T, n

-----------------------------------------------------------------------------
(* What the two writing steps do to the heap and the ring, position by      *)
(* position.                                                                *)

LEMMA EntryType ==
  ASSUME TypeOK, NEW i \in 1 .. Len(entries)
  PROVE  /\ entries[i] \in 1 .. Len(heap)
         /\ At(i) \in Entry
         /\ At(i).seq \in Nat
         /\ At(i).raw \in Raws
         /\ At(i).rows \in Renderings
<1>1. entries[i] \in 1 .. Len(heap)
  BY ElementOfSeq DEF TypeOK
<1>2. At(i) \in Entry
  BY <1>1, ElementOfSeq DEF TypeOK, At
<1>3. QED
  BY <1>1, <1>2 DEF Entry

\* The object an append allocates, and how many entries it evicts.
New(raw, rows) == [seq |-> seq, raw |-> raw, rows |-> rows]
Evicted == IF Len(entries) = Cap THEN 1 ELSE 0

\* An append allocates one object, and the ring becomes the old one, without
\* its first entry when it was full, followed by that object.
LEMMA AppendFacts ==
  ASSUME TypeOK, RingContiguous,
         NEW raw \in Raws, NEW rows \in Renderings, BufAppend(raw, rows)
  PROVE  /\ Evicted \in 0 .. 1 /\ Evicted <= Len(entries)
         /\ Len(entries) <= Cap
         /\ New(raw, rows) \in Entry
         /\ heap' \in Seq(Entry)
         /\ Len(heap') = Len(heap) + 1
         /\ \A p \in 1 .. Len(heap) : heap'[p] = heap[p]
         /\ heap'[Len(heap) + 1] = New(raw, rows)
         /\ entries' \in Seq(1 .. Len(heap) + 1)
         /\ Len(entries') = Len(entries) + 1 - Evicted
         /\ \A i \in 1 .. Len(entries) - Evicted : entries'[i] = entries[i + Evicted]
         /\ entries'[Len(entries) + 1 - Evicted] = Len(heap) + 1
         /\ \A i \in 1 .. Len(entries) - Evicted : At(i)' = At(i + Evicted)
         /\ \A i \in Nat : i = Len(entries) + 1 - Evicted => At(i)' = New(raw, rows)
<1> DEFINE n == Len(entries)
           p == Len(heap) + 1
           grown == Append(entries, p)
<1>1. New(raw, rows) \in Entry
  BY DEF Entry, TypeOK, New
<1>2. /\ heap \in Seq(Entry)
      /\ entries \in Seq(1 .. Len(heap))
      /\ seq \in Nat
      /\ n \in Nat
      /\ Len(heap) \in Nat
      /\ Cap \in Nat /\ Cap >= 1
  BY CapAssumption DEF TypeOK
<1>3. n <= Cap
  BY <1>2 DEF RingContiguous
<1>4. Evicted \in 0 .. 1 /\ Evicted <= n
  BY <1>2 DEF Evicted
<1>5. /\ heap' \in Seq(Entry)
      /\ Len(heap') = Len(heap) + 1
      /\ \A q \in 1 .. Len(heap) : heap'[q] = heap[q]
      /\ heap'[p] = New(raw, rows)
  <2>1. heap' = Append(heap, New(raw, rows))
    BY DEF BufAppend, New
  <2>2. QED
    BY <1>1, <1>2, <2>1
<1>6. /\ grown \in Seq(1 .. p)
      /\ Len(grown) = n + 1
      /\ \A i \in 1 .. n : grown[i] = entries[i]
      /\ grown[n + 1] = p
  <2>1. 1 .. Len(heap) \subseteq 1 .. p /\ p \in 1 .. p
    BY <1>2
  <2> HIDE DEF p
  <2>2. entries \in Seq(1 .. p)
    BY <1>2, <2>1, SeqMonotonic
  <2>3. QED
    BY <1>2, <2>1, <2>2
<1>7. entries' = IF n + 1 > Cap THEN Tail(grown) ELSE grown
  BY <1>6 DEF BufAppend
<1>8. /\ entries' \in Seq(1 .. p)
      /\ Len(entries') = n + 1 - Evicted
      /\ \A i \in 1 .. n - Evicted : entries'[i] = entries[i + Evicted]
      /\ entries'[n + 1 - Evicted] = p
  <2> HIDE DEF grown, p
  <2>1. CASE n = Cap
    <3>1. grown # << >>
      BY <1>2, <1>6, EmptySeq
    <3>2. entries' = Tail(grown) /\ Evicted = 1
      BY <1>2, <1>7, <2>1 DEF Evicted
    <3>3. /\ entries' \in Seq(1 .. p)
          /\ Len(entries') = n
          /\ \A i \in 1 .. n : entries'[i] = grown[i + 1]
      BY <1>2, <1>6, <3>1, <3>2, HeadTailProperties
    <3>4. ASSUME NEW i \in 1 .. n - 1
          PROVE  entries'[i] = entries[i + 1]
      <4>1. i \in 1 .. n /\ i + 1 \in 1 .. n
        BY <1>2
      <4>2. QED
        BY <1>6, <3>3, <4>1
    <3>5. entries'[n] = p
      BY <1>2, <1>6, <2>1, <3>3
    <3>6. /\ n + 1 - Evicted = n
          /\ \A i \in 1 .. n - Evicted : i \in 1 .. n - 1 /\ i + Evicted = i + 1
      BY <1>2, <3>2
    <3> HIDE DEF n
    <3>7. QED
      BY <3>3, <3>4, <3>5, <3>6
  <2>2. CASE n # Cap
    <3>1. entries' = grown /\ Evicted = 0
      BY <1>2, <1>3, <1>7, <2>2 DEF Evicted
    <3>2. /\ n + 1 - Evicted = n + 1
          /\ \A i \in 1 .. n - Evicted : i \in 1 .. n /\ i + Evicted = i
      BY <1>2, <3>1
    <3> HIDE DEF n
    <3>3. QED
      BY <1>6, <3>1, <3>2
  <2>3. QED
    BY <2>1, <2>2
<1>9. \A i \in 1 .. n - Evicted : At(i)' = At(i + Evicted)
  <2> SUFFICES ASSUME NEW i \in 1 .. n - Evicted
               PROVE  heap'[entries'[i]] = heap[entries[i + Evicted]]
    BY DEF At
  <2>1. i + Evicted \in 1 .. n
    BY <1>2, <1>4
  <2>2. entries[i + Evicted] \in 1 .. Len(heap)
    BY <2>1, EntryType
  <2>3. entries'[i] = entries[i + Evicted]
    BY <1>8
  <2>4. QED
    BY <1>5, <2>2, <2>3
<1>10. \A i \in Nat : i = n + 1 - Evicted => At(i)' = New(raw, rows)
  BY <1>5, <1>8 DEF At
<1>11. QED
  <2>1. /\ Evicted \in 0 .. 1 /\ Evicted <= Len(entries)
        /\ Len(entries) <= Cap
        /\ New(raw, rows) \in Entry
    BY <1>1, <1>3, <1>4
  <2>2. /\ heap' \in Seq(Entry)
        /\ Len(heap') = Len(heap) + 1
        /\ \A q \in 1 .. Len(heap) : heap'[q] = heap[q]
        /\ heap'[Len(heap) + 1] = New(raw, rows)
    BY <1>5
  <2>3. /\ \A i \in 1 .. Len(entries) - Evicted : At(i)' = At(i + Evicted)
        /\ \A i \in Nat : i = Len(entries) + 1 - Evicted => At(i)' = New(raw, rows)
    BY <1>9, <1>10
  <2> HIDE DEF n, p
  <2>4. QED
    BY <1>8, <2>1, <2>2, <2>3 DEF n, p

\* A re-render allocates one object per entry, and every position of the ring
\* keeps the sequence number and the source line it had.
LEMMA RerenderFacts ==
  ASSUME TypeOK, NEW render \in [Raws -> Renderings \union {NotOk}], Rerender(render)
  PROVE  /\ heap' \in Seq(Entry)
         /\ Len(heap') = Len(heap) + Len(entries)
         /\ \A p \in 1 .. Len(heap) : heap'[p] = heap[p]
         /\ entries' \in Seq(1 .. Len(heap'))
         /\ Len(entries') = Len(entries)
         /\ \A i \in 1 .. Len(entries) :
              /\ entries'[i] = Moved(render, i)
              /\ Moved(render, i) \in 1 .. Len(heap')
              /\ At(i)' = Fresh(render, i)
              /\ At(i)'.seq = At(i).seq
              /\ At(i)'.raw = At(i).raw
<1> DEFINE n == Len(entries)
           new == [i \in 1 .. n |-> Fresh(render, i)]
<1>1. /\ heap \in Seq(Entry)
      /\ entries \in Seq(1 .. Len(heap))
      /\ n \in Nat
      /\ Len(heap) \in Nat
  BY DEF TypeOK
<1>2. ASSUME NEW i \in 1 .. n
      PROVE  /\ Fresh(render, i) \in Entry
             /\ Fresh(render, i).seq = At(i).seq
             /\ Fresh(render, i).raw = At(i).raw
  <2>1. At(i) \in Entry /\ At(i).raw \in Raws
    BY EntryType
  <2>2. render[At(i).raw] # NotOk => render[At(i).raw] \in Renderings
    BY <2>1
  <2>3. QED
    BY <2>1, <2>2 DEF Fresh, Entry
<1>3. new \in Seq(Entry) /\ Len(new) = n /\ \A i \in 1 .. n : new[i] = Fresh(render, i)
  BY <1>1, <1>2
<1>4. heap' = heap \o new
  BY DEF Rerender
<1>5. /\ heap' \in Seq(Entry)
      /\ Len(heap') = Len(heap) + n
      /\ \A i \in 1 .. Len(heap) + n :
           heap'[i] = IF i <= Len(heap) THEN heap[i] ELSE new[i - Len(heap)]
  <2>1. new \in Seq(Entry) /\ Len(new) = n
    BY <1>3
  <2> HIDE DEF new, n
  <2>2. QED
    BY <1>1, <1>4, <2>1, ConcatProperties
<1>6. ASSUME NEW p \in 1 .. Len(heap)
      PROVE  heap'[p] = heap[p]
  <2>1. p \in 1 .. Len(heap) + n /\ p <= Len(heap)
    BY <1>1
  <2> HIDE DEF new, n
  <2>2. QED
    BY <1>5, <2>1
<1>7. ASSUME NEW i \in 1 .. n
      PROVE  /\ Moved(render, i) \in 1 .. Len(heap')
             /\ heap'[Moved(render, i)] = Fresh(render, i)
  <2>1. entries[i] \in 1 .. Len(heap)
    BY EntryType
  <2>2. CASE render[At(i).raw] = NotOk
    BY <1>1, <1>5, <1>6, <2>1, <2>2 DEF Moved, Fresh, At
  <2>3. CASE render[At(i).raw] # NotOk
    <3>1. Moved(render, i) = Len(heap) + i
      BY <2>3 DEF Moved
    <3>2. heap'[Len(heap) + i] = new[i]
      <4> HIDE DEF new, n
      <4>1. i \in 1 .. n /\ n \in Nat /\ Len(heap) \in Nat
        BY <1>1, <1>7
      <4>2. /\ Len(heap) + i \in 1 .. Len(heap) + n
            /\ ~ (Len(heap) + i <= Len(heap))
            /\ (Len(heap) + i) - Len(heap) = i
        BY <4>1
      <4>3. heap'[Len(heap) + i] = new[(Len(heap) + i) - Len(heap)]
        BY <1>5, <4>2
      <4>4. QED
        BY <4>2, <4>3
    <3>3. QED
      BY <1>1, <1>3, <1>5, <3>1, <3>2
  <2>4. QED
    BY <2>2, <2>3
<1>8. entries' = [i \in 1 .. n |-> Moved(render, i)]
  BY DEF Rerender
<1>9. entries' \in Seq(1 .. Len(heap')) /\ Len(entries') = n
  BY <1>1, <1>7, <1>8
<1>10. \A i \in 1 .. n : entries'[i] = Moved(render, i)
  BY <1>8
<1>11. \A i \in 1 .. n : At(i)' = Fresh(render, i)
  BY <1>7, <1>10 DEF At
<1>12. QED
  BY <1>2, <1>5, <1>6, <1>7, <1>9, <1>10, <1>11

-----------------------------------------------------------------------------
(* Segmentation.                                                            *)

\* Every block has an end, in the ring and before the next head.
LEMMA EndOfBlock ==
  ASSUME TypeOK, NEW h \in Heads
  PROVE  /\ h \in 1 .. Len(entries)
         /\ EndOf(h) \in h .. Len(entries)
         /\ \A j \in h + 1 .. EndOf(h) : j \notin Heads
         /\ EndOf(h) = Len(entries) \/ EndOf(h) + 1 \in Heads
<1> DEFINE n == Len(entries)
           IsEnd(e) == /\ \A j \in h + 1 .. e : j \notin Heads
                       /\ e = n \/ e + 1 \in Heads
           next == {j \in Heads : j > h}
<1>1. n \in Nat /\ h \in 1 .. n /\ next \in SUBSET Nat
  BY DEF TypeOK, Heads
<1>2. \E e \in h .. n : IsEnd(e)
  <2>1. CASE next = {}
    <3>1. IsEnd(n)
      BY <1>1, <2>1
    <3>2. QED
      BY <1>1, <3>1
  <2>2. CASE next # {}
    <3>1. PICK m \in next : \A k \in next : m <= k
      <4> HIDE DEF next
      <4> QED BY <1>1, <2>2, LeastElement
    <3>2. m \in 1 .. n /\ m > h /\ m \in Heads
      BY <3>1 DEF Heads
    <3>3. \A j \in h + 1 .. m - 1 : j \notin Heads
      BY <1>1, <3>1, <3>2
    <3>4. m - 1 \in h .. n /\ (m - 1) + 1 = m
      BY <1>1, <3>2
    <3>5. QED
      BY <3>2, <3>3, <3>4
  <2>3. QED
    BY <2>1, <2>2
<1>3. EndOf(h) \in h .. n /\ IsEnd(EndOf(h))
  <2>1. EndOf(h) = CHOOSE e \in h .. n : IsEnd(e)
    BY DEF EndOf
  <2> HIDE DEF IsEnd
  <2>2. QED
    BY <1>2, <2>1
<1>4. QED
  BY <1>1, <1>3

\* What Segment computes is a set of blocks.
LEMMA SegmentType ==
  ASSUME TypeOK
  PROVE  Segment \subseteq Block
<1>1. ASSUME NEW h \in Heads
      PROVE  [head |-> At(h).seq, end |-> At(EndOf(h)).seq,
              exc |-> \E j \in h .. EndOf(h) : At(j).rows \in Marked] \in Block
  <2>1. h \in 1 .. Len(entries) /\ EndOf(h) \in 1 .. Len(entries)
    BY EndOfBlock DEF TypeOK
  <2>2. At(h).seq \in Nat /\ At(EndOf(h)).seq \in Nat
    BY <2>1, EntryType
  <2>3. (\E j \in h .. EndOf(h) : At(j).rows \in Marked) \in BOOLEAN
    OBVIOUS
  <2>4. QED
    BY <2>2, <2>3 DEF Block
<1>2. QED
  BY <1>1 DEF Segment

-----------------------------------------------------------------------------
(* The invariant, one step at a time.                                       *)

\* The keys of the index are the last Len(entries) sequence numbers.
IndexShape ==
  /\ DOMAIN byID = seq - Len(entries) .. seq - 1
  /\ \A i \in 1 .. Len(entries) : byID[seq - Len(entries) + i - 1] = entries[i]

LEMMA IndexIsShape == TypeOK /\ RingContiguous => (IndexAgrees <=> IndexShape)
<1> SUFFICES ASSUME TypeOK, RingContiguous
             PROVE  IndexAgrees <=> IndexShape
  OBVIOUS
<1> DEFINE n == Len(entries)
           S == {At(i).seq : i \in 1 .. n}
<1>1. seq \in Nat /\ n \in Nat /\ Cap \in Nat /\ n <= seq
  BY CapAssumption DEF TypeOK, RingContiguous
<1>2. \A i \in 1 .. n : At(i).seq = seq - n + i - 1
  BY DEF RingContiguous
<1>3. S = seq - n .. seq - 1
  <2>1. ASSUME NEW s \in S
        PROVE  s \in seq - n .. seq - 1
    <3>1. PICK i \in 1 .. n : s = At(i).seq
      OBVIOUS
    <3>2. s = seq - n + i - 1
      BY <1>2, <3>1
    <3>3. QED
      BY <1>1, <3>2
  <2>2. ASSUME NEW s \in seq - n .. seq - 1
        PROVE  s \in S
    <3>1. s - seq + n + 1 \in 1 .. n
      BY <1>1
    <3>2. At(s - seq + n + 1).seq = s
      BY <1>1, <1>2, <3>1
    <3>3. QED
      BY <3>1, <3>2
  <2>3. QED
    BY <2>1, <2>2
<1>4. (\A i \in 1 .. n : byID[At(i).seq] = entries[i])
        <=> (\A i \in 1 .. n : byID[seq - n + i - 1] = entries[i])
  BY <1>2
<1>5. QED
  BY <1>3, <1>4 DEF IndexAgrees, IndexShape

LEMMA AppendKeepsRing ==
  ASSUME TypeOK, RingContiguous,
         NEW raw \in Raws, NEW rows \in Renderings, BufAppend(raw, rows)
  PROVE  RingContiguous'
<1> DEFINE n == Len(entries)
           m == n + 1 - Evicted
<1>1. /\ Evicted \in 0 .. 1 /\ Evicted <= n /\ n <= Cap
      /\ Len(entries') = m
      /\ \A i \in 1 .. n - Evicted : At(i)' = At(i + Evicted)
      /\ \A i \in Nat : i = m => At(i)' = New(raw, rows)
  BY AppendFacts
<1>2. seq \in Nat /\ n \in Nat /\ Cap \in Nat /\ Cap >= 1 /\ seq' = seq + 1
  BY CapAssumption DEF TypeOK, BufAppend
<1>3. n = (IF seq < Cap THEN seq ELSE Cap)
  BY DEF RingContiguous
<1>4. m = (IF seq' < Cap THEN seq' ELSE Cap)
  BY <1>2, <1>3 DEF Evicted
<1>5. ASSUME NEW i \in 1 .. m
      PROVE  At(i)'.seq = seq' - m + i - 1
  <2>1. CASE i = m
    <3>1. At(i)' = New(raw, rows)
      BY <1>1, <2>1
    <3>2. QED
      BY <1>1, <1>2, <2>1, <3>1 DEF New
  <2>2. CASE i # m
    <3>1. i \in 1 .. n - Evicted /\ i + Evicted \in 1 .. n
      BY <1>1, <1>2, <2>2
    <3>2. At(i + Evicted).seq = seq - n + (i + Evicted) - 1
      BY <3>1 DEF RingContiguous
    <3>3. At(i)' = At(i + Evicted)
      BY <1>1, <3>1
    <3>4. QED
      BY <1>1, <1>2, <3>1, <3>2, <3>3
  <2>3. QED
    BY <2>1, <2>2
<1>6. QED
  BY <1>1, <1>4, <1>5 DEF RingContiguous

LEMMA AppendKeepsIndex ==
  ASSUME IInv, NEW raw \in Raws, NEW rows \in Renderings, BufAppend(raw, rows)
  PROVE  IndexShape'
<1> USE DEF IInv
<1> DEFINE n == Len(entries)
           m == n + 1 - Evicted
           p == Len(heap) + 1
           ids == DOMAIN byID \union {seq}
           over == Len(Append(entries, p)) > Cap
           keep == IF over THEN ids \ {At(1).seq} ELSE ids
<1>1. /\ Evicted \in 0 .. 1 /\ Evicted <= n /\ n <= Cap
      /\ Len(entries') = m
      /\ \A i \in 1 .. n - Evicted : entries'[i] = entries[i + Evicted]
      /\ entries'[m] = p
  BY AppendFacts
<1>2. /\ seq \in Nat /\ n \in Nat /\ Cap \in Nat /\ Cap >= 1 /\ seq' = seq + 1
      /\ n <= seq
  BY CapAssumption DEF TypeOK, RingContiguous, BufAppend
<1>3. IndexShape
  BY IndexIsShape
<1>4. byID' = [id \in keep |-> IF id = seq THEN p ELSE byID[id]]
  BY DEF BufAppend
<1>5. over <=> Evicted = 1
  <2>1. Len(Append(entries, p)) = n + 1
    BY DEF TypeOK
  <2>2. QED
    BY <1>1, <1>2, <2>1 DEF Evicted
<1>6. keep = seq' - m .. seq' - 1
  <2>1. ids = seq - n .. seq
    BY <1>2, <1>3 DEF IndexShape
  <2>2. Evicted = 1 => At(1).seq = seq - n
    BY <1>1, <1>2 DEF RingContiguous
  <2>3. keep = seq - n + Evicted .. seq
    <3>1. CASE Evicted = 1
      <4>1. keep = ids \ {seq - n}
        BY <1>5, <2>2, <3>1
      <4>2. (seq - n .. seq) \ {seq - n} = seq - n + 1 .. seq
        BY <1>2
      <4> HIDE DEF keep, ids
      <4>3. QED
        BY <2>1, <3>1, <4>1, <4>2
    <3>2. CASE Evicted = 0
      <4>1. keep = ids
        BY <1>5, <3>2
      <4>2. seq - n + Evicted = seq - n
        BY <1>2, <3>2
      <4> HIDE DEF keep, ids
      <4>3. QED
        BY <2>1, <4>1, <4>2
    <3>3. QED
      BY <1>1, <3>1, <3>2
  <2>4. seq - n + Evicted = seq' - m /\ seq = seq' - 1
    BY <1>1, <1>2
  <2> HIDE DEF keep, m
  <2>5. QED
    BY <2>3, <2>4
<1>7. ASSUME NEW i \in 1 .. m
      PROVE  byID'[seq' - m + i - 1] = entries'[i]
  <2>1. seq' - m + i - 1 \in keep
    BY <1>1, <1>2, <1>6
  <2>2. CASE i = m
    <3>1. seq' - m + i - 1 = seq
      BY <1>1, <1>2, <2>2
    <3> HIDE DEF keep, m
    <3>2. QED
      BY <1>1, <1>4, <2>1, <2>2, <3>1
  <2>3. CASE i # m
    <3>1. /\ i \in 1 .. n - Evicted
          /\ i + Evicted \in 1 .. n
          /\ seq' - m + i - 1 # seq
          /\ seq' - m + i - 1 = seq - n + (i + Evicted) - 1
      BY <1>1, <1>2, <2>3
    <3>2. byID[seq - n + (i + Evicted) - 1] = entries[i + Evicted]
      BY <1>3, <3>1 DEF IndexShape
    <3> HIDE DEF keep, m, n
    <3>3. QED
      BY <1>1, <1>4, <2>1, <3>1, <3>2
  <2>4. QED
    BY <2>2, <2>3
<1>8. DOMAIN byID' = keep
  BY <1>4
<1>9. QED
  BY <1>1, <1>6, <1>7, <1>8 DEF IndexShape

LEMMA AppendStep ==
  ASSUME IInv, NEW raw \in Raws, NEW rows \in Renderings, BufAppend(raw, rows)
  PROVE  IInv'
<1> USE DEF IInv
<1>1. RingContiguous'
  BY AppendKeepsRing
<1>2. IndexShape'
  BY AppendKeepsIndex
<1>3. TypeOK'
  <2>1. /\ heap' \in Seq(Entry)
        /\ Len(heap') = Len(heap) + 1
        /\ entries' \in Seq(1 .. Len(heap'))
    BY AppendFacts
  <2>2. seq' \in Nat /\ gen' \in Nat /\ dirty' \in BOOLEAN /\ blocks' \subseteq Block
    BY DEF TypeOK, BufAppend
  <2>3. /\ DOMAIN byID' \subseteq DOMAIN byID \union {seq}
        /\ \A id \in DOMAIN byID' :
             byID'[id] = IF id = seq THEN Len(heap) + 1 ELSE byID[id]
    BY DEF BufAppend
  <2>4. /\ DOMAIN byID' \subseteq Nat
        /\ \A id \in DOMAIN byID' : byID'[id] \in 1 .. Len(heap')
    BY <2>1, <2>3 DEF TypeOK
  <2>5. QED
    BY <2>1, <2>2, <2>4 DEF TypeOK
<1>4. (IndexAgrees <=> IndexShape)'
  BY <1>1, <1>3, IndexIsShape, PTL
<1>5. QED
  BY <1>1, <1>2, <1>3, <1>4

LEMMA RerenderStep ==
  ASSUME IInv, NEW render \in [Raws -> Renderings \union {NotOk}], Rerender(render)
  PROVE  IInv'
<1> USE DEF IInv
<1> DEFINE n == Len(entries)
           pos(id) == CHOOSE i \in 1 .. n : At(i).seq = id
<1>1. /\ heap' \in Seq(Entry)
      /\ Len(heap') = Len(heap) + n
      /\ entries' \in Seq(1 .. Len(heap'))
      /\ Len(entries') = n
      /\ \A i \in 1 .. n : /\ entries'[i] = Moved(render, i)
                           /\ Moved(render, i) \in 1 .. Len(heap')
                           /\ At(i)'.seq = At(i).seq
  BY RerenderFacts
<1>2. /\ seq \in Nat /\ n \in Nat /\ seq' = seq
      /\ \A i \in 1 .. n : At(i).seq = seq - n + i - 1
  BY DEF TypeOK, RingContiguous, Rerender
<1>3. RingContiguous'
  BY <1>1, <1>2 DEF RingContiguous
<1>4. byID' = [id \in DOMAIN byID |-> Moved(render, pos(id))]
  BY DEF Rerender
<1>5. DOMAIN byID = seq - n .. seq - 1
  BY IndexIsShape DEF IndexShape
<1>6. ASSUME NEW i \in 1 .. n
      PROVE  pos(seq - n + i - 1) = i
  <2>1. \A j \in 1 .. n : At(j).seq = seq - n + i - 1 <=> j = i
    BY <1>2
  <2>2. QED
    BY <2>1
<1>7. ASSUME NEW i \in 1 .. n
      PROVE  byID'[seq - n + i - 1] = entries'[i]
  <2>1. seq - n + i - 1 \in DOMAIN byID
    BY <1>2, <1>5
  <2>2. byID'[seq - n + i - 1] = Moved(render, pos(seq - n + i - 1))
    BY <1>4, <2>1
  <2>3. QED
    BY <1>1, <1>6, <2>2
<1>8. IndexShape'
  <2>1. DOMAIN byID' = DOMAIN byID
    BY <1>4
  <2>2. QED
    BY <1>1, <1>2, <1>5, <1>7, <2>1 DEF IndexShape
<1>9. TypeOK'
  <2>1. seq' \in Nat /\ gen' \in Nat /\ dirty' \in BOOLEAN /\ blocks' \subseteq Block
    BY DEF TypeOK, Rerender
  <2>2. DOMAIN byID' = DOMAIN byID /\ DOMAIN byID \subseteq Nat
    BY <1>4 DEF TypeOK
  <2>3. ASSUME NEW id \in DOMAIN byID'
        PROVE  byID'[id] \in 1 .. Len(heap')
    <3>1. id - (seq - n) + 1 \in 1 .. n /\ id = seq - n + (id - (seq - n) + 1) - 1
      BY <1>2, <1>5, <2>2
    <3>2. byID'[id] = entries'[id - (seq - n) + 1]
      BY <1>7, <3>1
    <3>3. QED
      BY <1>1, <3>1, <3>2
  <2>4. QED
    BY <1>1, <2>1, <2>2, <2>3 DEF TypeOK
<1>10. (IndexAgrees <=> IndexShape)'
  BY <1>3, <1>9, IndexIsShape, PTL
<1>11. QED
  BY <1>3, <1>8, <1>9, <1>10

LEMMA InvariantInit == Init => IInv
<1> SUFFICES ASSUME Init PROVE IInv
  OBVIOUS
<1>1. heap = << >> /\ entries = << >> /\ DOMAIN byID = {} /\ seq = 0
      /\ gen = 0 /\ blocks = {} /\ dirty = FALSE
  BY DEF Init
<1>2. Len(entries) = 0 /\ Len(heap) = 0
  BY <1>1
<1>3. TypeOK
  <2>1. heap \in Seq(Entry) /\ entries \in Seq(1 .. Len(heap))
    BY <1>1, EmptySeq
  <2>2. QED
    BY <1>1, <2>1 DEF TypeOK
<1>4. RingContiguous
  BY <1>1, <1>2, CapAssumption DEF RingContiguous
<1>5. IndexAgrees
  BY <1>1, <1>2 DEF IndexAgrees
<1>6. QED
  BY <1>3, <1>4, <1>5 DEF IInv

LEMMA InvariantStep == IInv /\ [Next]_vars => IInv'
<1> SUFFICES ASSUME IInv, [Next]_vars
             PROVE  IInv'
  OBVIOUS
<1>1. ASSUME DoAppend
      PROVE  IInv'
  BY <1>1, AppendStep DEF DoAppend
<1>2. ASSUME DoRerender
      PROVE  IInv'
  BY <1>2, RerenderStep DEF DoRerender
<1>3. ASSUME EnsureBlocks
      PROVE  IInv'
  <2>1. UNCHANGED ringVars
    BY <1>3 DEF EnsureBlocks
  <2>2. blocks' \subseteq Block /\ dirty' \in BOOLEAN
    BY <1>3, SegmentType DEF EnsureBlocks, IInv, TypeOK
  <2>3. TypeOK'
    BY <2>1, <2>2 DEF IInv, TypeOK, ringVars
  <2>4. RingContiguous' /\ IndexAgrees'
    BY <2>1 DEF IInv, RingContiguous, IndexAgrees, At, ringVars
  <2>5. QED
    BY <2>3, <2>4 DEF IInv
<1>4. ASSUME UNCHANGED vars
      PROVE  IInv'
  BY <1>4 DEF vars, IInv, TypeOK, RingContiguous, IndexAgrees, At
<1>5. QED
  BY <1>1, <1>2, <1>3, <1>4 DEF Next

\* The types, the contiguity of the ring and the agreement of the index with
\* it hold in every reachable state (linebuf.go, Append, Rerender,
\* ensureBlocks).
THEOREM Invariant == Spec => []IInv
<1>1. QED
  BY InvariantInit, InvariantStep, PTL DEF Spec

\* Every state is well typed; in particular every pointer in the ring and in
\* the index is to an allocated object.
THEOREM TypeCorrect == Spec => []TypeOK
<1>1. IInv => TypeOK
  BY DEF IInv
<1>2. QED
  BY Invariant, <1>1, PTL

\* The ring is the last min(seq, Cap) records appended, for every Cap: Append
\* evicts exactly the oldest and Rerender neither drops nor reorders one.
THEOREM RingIsContiguous == Spec => []RingContiguous
<1>1. IInv => RingContiguous
  BY DEF IInv
<1>2. QED
  BY Invariant, <1>1, PTL

\* An ID resolves exactly while its record is in the ring, and to the object
\* the ring holds: Append's delete and Rerender's replacement keep byID true.
THEOREM IndexIsExact == Spec => []IndexAgrees
<1>1. IInv => IndexAgrees
  BY DEF IInv
<1>2. QED
  BY Invariant, <1>1, PTL

-----------------------------------------------------------------------------
(* What a step may never do.                                                *)

LEMMA ImmutableStep ==
  IInv /\ [Next]_vars =>
    [\A p \in DOMAIN heap : p \in DOMAIN heap' /\ heap'[p] = heap[p]]_vars
<1> SUFFICES ASSUME IInv, Next
             PROVE  \A p \in DOMAIN heap : p \in DOMAIN heap' /\ heap'[p] = heap[p]
  OBVIOUS
<1>1. heap \in Seq(Entry) /\ DOMAIN heap = 1 .. Len(heap) /\ Len(heap) \in Nat
  BY DEF IInv, TypeOK
<1>2. CASE DoAppend
  <2>1. PICK raw \in Raws, rows \in Renderings : BufAppend(raw, rows)
    BY <1>2 DEF DoAppend
  <2>2. /\ heap' \in Seq(Entry) /\ Len(heap') = Len(heap) + 1
        /\ \A p \in 1 .. Len(heap) : heap'[p] = heap[p]
    BY <2>1, AppendFacts DEF IInv
  <2>3. QED
    BY <1>1, <2>2
<1>3. CASE DoRerender
  <2>1. PICK render \in [Raws -> Renderings \union {NotOk}] : Rerender(render)
    BY <1>3 DEF DoRerender
  <2>2. /\ heap' \in Seq(Entry) /\ Len(heap') = Len(heap) + Len(entries)
        /\ \A p \in 1 .. Len(heap) : heap'[p] = heap[p]
    BY <2>1, RerenderFacts DEF IInv
  <2>3. Len(entries) \in Nat
    BY DEF IInv, TypeOK
  <2>4. QED
    BY <1>1, <2>2, <2>3
<1>4. CASE EnsureBlocks
  BY <1>4 DEF EnsureBlocks, ringVars
<1>5. QED
  BY <1>2, <1>3, <1>4 DEF Next

\* No operation writes to an Entry it has handed out (the copy-on-write that
\* the comment on Rerender requires), for every capacity and any number of
\* re-renders.
THEOREM EntriesAreImmutable == Spec => HandedOutIsImmutable
<1>1. QED
  BY Invariant, ImmutableStep, PTL DEF HandedOutIsImmutable, Spec

\* The record an ID in the index names, and where it is in the ring.
LEMMA Lookup ==
  ASSUME IInv, NEW id \in DOMAIN byID
  PROVE  /\ id \in seq - Len(entries) .. seq - 1
         /\ id - (seq - Len(entries)) + 1 \in 1 .. Len(entries)
         /\ byID[id] = entries[id - (seq - Len(entries)) + 1]
         /\ byID[id] \in 1 .. Len(heap)
<1>1. IndexShape
  BY IndexIsShape DEF IInv
<1>2. seq \in Nat /\ Len(entries) \in Nat
  BY DEF IInv, TypeOK
<1>3. /\ id \in seq - Len(entries) .. seq - 1
      /\ id - (seq - Len(entries)) + 1 \in 1 .. Len(entries)
      /\ id = seq - Len(entries) + (id - (seq - Len(entries)) + 1) - 1
  BY <1>1, <1>2 DEF IndexShape
<1>4. QED
  BY <1>1, <1>3 DEF IndexShape, IInv, TypeOK

LEMMA IdentityStep ==
  IInv /\ [Next]_vars =>
    [/\ \A id \in DOMAIN byID \intersect DOMAIN byID' :
          heap'[byID'[id]].raw = heap[byID[id]].raw
     /\ \A id \in 0 .. seq - 1 : id \in DOMAIN byID' => id \in DOMAIN byID]_vars
<1> SUFFICES ASSUME IInv, Next
             PROVE  /\ \A id \in DOMAIN byID \intersect DOMAIN byID' :
                         heap'[byID'[id]].raw = heap[byID[id]].raw
                    /\ \A id \in 0 .. seq - 1 : id \in DOMAIN byID' => id \in DOMAIN byID
  OBVIOUS
<1>1. CASE DoAppend
  <2>1. PICK raw \in Raws, rows \in Renderings : BufAppend(raw, rows)
    BY <1>1 DEF DoAppend
  <2>2. /\ DOMAIN byID' \subseteq DOMAIN byID \union {seq}
        /\ \A id \in DOMAIN byID' : id # seq => byID'[id] = byID[id]
    BY <2>1 DEF BufAppend
  <2>3. seq \notin DOMAIN byID /\ seq \in Nat
    BY Lookup DEF IInv, TypeOK
  <2>4. \A p \in 1 .. Len(heap) : heap'[p] = heap[p]
    BY <2>1, AppendFacts DEF IInv
  <2>5. ASSUME NEW id \in DOMAIN byID \intersect DOMAIN byID'
        PROVE  heap'[byID'[id]].raw = heap[byID[id]].raw
    BY <2>2, <2>3, <2>4, Lookup
  <2>6. QED
    BY <2>2, <2>3, <2>5
<1>2. CASE DoRerender
  <2>1. PICK render \in [Raws -> Renderings \union {NotOk}] : Rerender(render)
    BY <1>2 DEF DoRerender
  <2>2. DOMAIN byID' = DOMAIN byID
    BY <2>1 DEF Rerender
  <2>3. IInv'
    BY <2>1, RerenderStep
  <2>4. seq' = seq /\ Len(entries') = Len(entries)
    BY <2>1, RerenderFacts DEF Rerender, IInv
  <2>5. IndexShape'
    <3>1. (TypeOK /\ RingContiguous => (IndexAgrees <=> IndexShape))'
      BY IndexIsShape, PTL
    <3>2. QED
      BY <2>3, <3>1 DEF IInv
  <2>6. ASSUME NEW id \in DOMAIN byID
        PROVE  heap'[byID'[id]].raw = heap[byID[id]].raw
    <3> DEFINE i == id - (seq - Len(entries)) + 1
    <3>1. i \in 1 .. Len(entries) /\ byID[id] = entries[i]
      BY Lookup
    <3>2. seq - Len(entries) + i - 1 = id
      BY <3>1, Lookup DEF IInv, TypeOK
    <3>3. byID'[id] = entries'[i]
      BY <2>4, <2>5, <3>1, <3>2 DEF IndexShape
    <3>4. heap'[entries'[i]].raw = heap[entries[i]].raw
      <4> HIDE DEF i
      <4>1. \A j \in 1 .. Len(entries) : At(j)'.raw = At(j).raw
        BY <2>1, RerenderFacts DEF IInv
      <4>2. QED
        BY <3>1, <4>1 DEF At
    <3>5. QED
      BY <3>1, <3>3, <3>4
  <2>7. QED
    BY <2>2, <2>6
<1>3. CASE EnsureBlocks
  BY <1>3 DEF EnsureBlocks, ringVars
<1>4. QED
  BY <1>1, <1>2, <1>3 DEF Next

\* An ID names one source line for ever: no operation gives it to another
\* record, and after eviction it is never resolvable again.
THEOREM IdentityIsStable == Spec => IdentityStable
<1>1. QED
  BY Invariant, IdentityStep, PTL DEF IdentityStable, Spec

LEMMA GenStep ==
  IInv /\ [Next]_vars => [UNCHANGED gen => UNCHANGED <<entries, byID>>]_vars
<1> SUFFICES ASSUME IInv, Next, gen' = gen
             PROVE  UNCHANGED <<entries, byID>>
  OBVIOUS
<1>1. gen \in Nat
  BY DEF IInv, TypeOK
<1>2. ASSUME DoAppend \/ DoRerender
      PROVE  FALSE
  <2>1. gen' = gen + 1
    BY <1>2, Zenon DEF DoAppend, DoRerender, BufAppend, Rerender
  <2>2. QED
    BY <1>1, <2>1
<1>3. EnsureBlocks
  BY <1>2 DEF Next
<1>4. QED
  BY <1>3 DEF EnsureBlocks, ringVars

\* A reader that finds the generation unchanged has missed nothing: whatever
\* changes the ring or the index moves it.
THEOREM GenIsEnough == Spec => GenSeesEveryChange
<1>1. QED
  BY Invariant, GenStep, PTL DEF GenSeesEveryChange, Spec

-----------------------------------------------------------------------------
(* The cached segmentation.                                                 *)

\* Heads of different blocks: the earlier block ends before the later starts.
LEMMA BlocksApart ==
  ASSUME TypeOK, NEW g \in Heads, NEW h \in Heads, g < h
  PROVE  EndOf(g) < h
<1>1. /\ g \in 1 .. Len(entries) /\ h \in 1 .. Len(entries)
      /\ EndOf(g) \in g .. Len(entries)
      /\ \A j \in g + 1 .. EndOf(g) : j \notin Heads
  BY EndOfBlock
<1>2. Len(entries) \in Nat
  BY DEF TypeOK
<1>3. QED
  BY <1>1, <1>2

\* Every position of the ring is in a block.
LEMMA BlocksCover ==
  ASSUME TypeOK, NEW i \in 1 .. Len(entries)
  PROVE  \E h \in Heads : h <= i /\ i <= EndOf(h)
<1> DEFINE T == {i - h : h \in {h \in Heads : h <= i}}
<1>1. Len(entries) \in Nat /\ Heads \subseteq 1 .. Len(entries) /\ 1 \in Heads
  BY DEF TypeOK, Heads
<1>2. T \in SUBSET Nat /\ i - 1 \in T
  BY <1>1
<1>3. PICK m \in T : \A k \in T : m <= k
  <2> HIDE DEF T
  <2> QED BY <1>2, LeastElement
<1>4. PICK h \in Heads : h <= i /\ m = i - h
  BY <1>3
<1>5. \A g \in Heads : g <= i => g <= h
  <2> SUFFICES ASSUME NEW g \in Heads, g <= i
               PROVE  g <= h
    OBVIOUS
  <2>1. i - g \in T
    OBVIOUS
  <2>2. i - h <= i - g
    BY <1>3, <1>4, <2>1
  <2> HIDE DEF T
  <2>3. QED
    BY <1>1, <2>2
<1>6. /\ EndOf(h) \in h .. Len(entries)
      /\ EndOf(h) = Len(entries) \/ EndOf(h) + 1 \in Heads
  BY EndOfBlock
<1>7. i <= EndOf(h)
  BY <1>1, <1>4, <1>5, <1>6
<1>8. QED
  BY <1>4, <1>7

BlockAt(h) ==
  [head |-> At(h).seq,
   end  |-> At(EndOf(h)).seq,
   exc  |-> \E j \in h .. EndOf(h) : At(j).rows \in Marked]

LEMMA SegmentPartitions ==
  ASSUME IInv
  PROVE  /\ \A i \in 1 .. Len(entries) :
              \E b \in Segment :
                /\ At(i).seq \in b.head .. b.end
                /\ \A c \in Segment \ {b} : At(i).seq \notin c.head .. c.end
         /\ \A b \in Segment : {b.head, b.end} \subseteq DOMAIN byID
<1> DEFINE n == Len(entries)
           base == seq - n - 1
<1>1. /\ seq \in Nat /\ n \in Nat /\ base \in Int
      /\ \A i \in 1 .. n : At(i).seq = base + i
  BY DEF IInv, TypeOK, RingContiguous
<1>2. Segment = {BlockAt(h) : h \in Heads}
  BY DEF Segment, BlockAt
<1>3. ASSUME NEW h \in Heads
      PROVE  /\ h \in 1 .. n /\ EndOf(h) \in 1 .. n
             /\ BlockAt(h).head = base + h
             /\ BlockAt(h).end = base + EndOf(h)
  <2>1. h \in 1 .. n /\ EndOf(h) \in 1 .. n
    BY <1>1, EndOfBlock DEF IInv
  <2>2. QED
    BY <1>1, <2>1 DEF BlockAt
<1>4. ASSUME NEW i \in 1 .. n
      PROVE  \E b \in Segment :
               /\ At(i).seq \in b.head .. b.end
               /\ \A c \in Segment \ {b} : At(i).seq \notin c.head .. c.end
  <2>1. PICK h \in Heads : h <= i /\ i <= EndOf(h)
    BY BlocksCover DEF IInv
  <2>2. At(i).seq \in BlockAt(h).head .. BlockAt(h).end
    BY <1>1, <1>3, <2>1
  <2>3. ASSUME NEW g \in Heads, g # h
        PROVE  At(i).seq \notin BlockAt(g).head .. BlockAt(g).end
    <3>1. g < h => EndOf(g) < h
      BY BlocksApart DEF IInv
    <3>2. h < g => EndOf(h) < g
      BY BlocksApart DEF IInv
    <3>3. i < g \/ EndOf(g) < i
      BY <1>1, <1>3, <2>1, <2>3, <3>1, <3>2
    <3>4. QED
      BY <1>1, <1>3, <3>3
  <2>4. \A c \in Segment \ {BlockAt(h)} : At(i).seq \notin c.head .. c.end
    BY <1>2, <2>3
  <2>5. BlockAt(h) \in Segment
    BY <1>2
  <2>6. QED
    BY <2>2, <2>4, <2>5
<1>5. ASSUME NEW b \in Segment
      PROVE  {b.head, b.end} \subseteq DOMAIN byID
  <2>1. PICK h \in Heads : b = BlockAt(h)
    BY <1>2
  <2>2. h \in 1 .. n /\ EndOf(h) \in 1 .. n
    BY <1>3
  <2>3. b.head = At(h).seq /\ b.end = At(EndOf(h)).seq
    BY <2>1 DEF BlockAt
  <2>4. QED
    BY <2>2, <2>3 DEF IInv, IndexAgrees
<1>6. QED
  BY <1>4, <1>5

CacheInv == IInv /\ (~ dirty => blocks = Segment)

LEMMA CacheStep == CacheInv /\ [Next]_vars => CacheInv'
<1> SUFFICES ASSUME CacheInv, [Next]_vars
             PROVE  ~ dirty' => blocks' = Segment'
  BY InvariantStep DEF CacheInv
<1>1. CASE DoAppend \/ DoRerender
  <2>1. dirty' = TRUE
    BY <1>1 DEF DoAppend, DoRerender, BufAppend, Rerender
  <2>2. QED
    BY <2>1
<1>2. CASE EnsureBlocks
  <2>1. UNCHANGED <<heap, entries>>
    BY <1>2 DEF EnsureBlocks, ringVars
  <2>2. Segment' = Segment
    BY <2>1 DEF Segment, Heads, EndOf, At
  <2>3. blocks' = Segment
    BY <1>2 DEF EnsureBlocks, CacheInv
  <2>4. QED
    BY <2>2, <2>3
<1>3. CASE UNCHANGED vars
  <2>1. UNCHANGED <<heap, entries, blocks, dirty>>
    BY <1>3 DEF vars
  <2>2. Segment' = Segment
    BY <2>1 DEF Segment, Heads, EndOf, At
  <2>3. QED
    BY <2>1, <2>2 DEF CacheInv
<1>4. QED
  BY <1>1, <1>2, <1>3 DEF Next

\* A clean cache is the segmentation of the ring, and that is a partition: a
\* record is in exactly one block, whatever was evicted or re-rendered since
\* ensureBlocks last ran.
THEOREM BlocksAreCurrent == Spec => []BlocksCurrent
<1>1. Init => CacheInv
  <2>1. Init => blocks = {} /\ entries = << >>
    BY DEF Init
  <2>2. entries = << >> => Segment = {}
    BY DEF Segment, Heads
  <2>3. QED
    BY <2>1, <2>2, InvariantInit DEF CacheInv
<1>2. CacheInv => BlocksCurrent
  BY SegmentPartitions DEF CacheInv, BlocksCurrent
<1>3. QED
  BY <1>1, <1>2, CacheStep, PTL DEF Spec

-----------------------------------------------------------------------------
(* The handlers and the ring.                                               *)

\* Every step of the handlers, the pump and the TUI is a step of the ring or
\* leaves it alone.
LEMMA McpStepIsRingStep == [McpNext]_mcpVars => [Next]_vars
<1> SUFFICES ASSUME [McpNext]_mcpVars PROVE [Next]_vars
  OBVIOUS
<1>1. CASE GetLine
  BY <1>1 DEF GetLine, Call
<1>2. CASE GetRange
  BY <1>2 DEF GetRange, Call
<1>3. CASE GetContext
  BY <1>3 DEF GetContext, Call
<1>4. CASE GetScrollback
  BY <1>4 DEF GetScrollback, Call
<1>5. CASE SearchTool
  BY <1>5 DEF SearchTool
<1>6. CASE ListExceptions
  BY <1>6 DEF ListExceptions, Next
<1>7. CASE GetViewport
  BY <1>7 DEF GetViewport
<1>8. CASE GetViewportRange
  BY <1>8 DEF GetViewportRange
<1>9. CASE Reply
  BY <1>9 DEF Reply
<1>10. CASE PublishViewport
  BY <1>10 DEF PublishViewport, SetViewport
<1>11. CASE (DoAppend \/ DoRerender) /\ UNCHANGED <<viewport, req>>
  BY <1>11 DEF Next
<1>12. CASE UNCHANGED mcpVars
  BY <1>12 DEF mcpVars
<1>13. QED
  BY <1>1, <1>2, <1>3, <1>4, <1>5, <1>6, <1>7, <1>8, <1>9, <1>10, <1>11, <1>12
  DEF McpNext

\* The MCP server implements the ring's specification: every theorem about Spec
\* is one about McpSpec.
THEOREM McpRefinesRing == McpSpec => Spec
<1>1. McpInit => Init
  BY DEF McpInit
<1>2. QED
  BY <1>1, McpStepIsRingStep, PTL DEF McpSpec, Spec
-----------------------------------------------------------------------------
(* What the accessors return, in every state the ring can be in.            *)

\* The oldest sequence number in the ring.
Oldest == seq - Len(entries)

\* The ring as a list of sequence numbers.
LEMMA RingFacts ==
  ASSUME IInv
  PROVE  /\ heap \in Seq(Entry) /\ DOMAIN heap = 1 .. Len(heap)
         /\ entries \in Seq(1 .. Len(heap)) /\ Len(entries) \in Nat
         /\ seq \in Nat /\ Oldest \in Nat
         /\ \A i \in 1 .. Len(entries) :
              entries[i] \in DOMAIN heap /\ heap[entries[i]].seq = Oldest + i - 1
         /\ DOMAIN byID = Oldest .. seq - 1
<1>1. TypeOK /\ RingContiguous /\ IndexAgrees
  BY DEF IInv
<1>2. heap \in Seq(Entry) /\ entries \in Seq(1 .. Len(heap)) /\ seq \in Nat
  BY <1>1 DEF TypeOK
<1>3. Len(entries) \in Nat /\ Len(heap) \in Nat /\ DOMAIN heap = 1 .. Len(heap)
  BY <1>2
<1>4. Oldest \in Nat
  BY <1>1, <1>2, <1>3, CapAssumption DEF RingContiguous, Oldest
<1>5. \A i \in 1 .. Len(entries) :
        entries[i] \in DOMAIN heap /\ heap[entries[i]].seq = Oldest + i - 1
  <2>1. \A i \in 1 .. Len(entries) : entries[i] \in 1 .. Len(heap)
    BY <1>2, ElementOfSeq
  <2>2. \A i \in 1 .. Len(entries) : heap[entries[i]].seq = seq - Len(entries) + i - 1
    BY <1>1 DEF RingContiguous, At
  <2>3. QED
    BY <1>3, <2>1, <2>2 DEF Oldest
<1>6. DOMAIN byID = Oldest .. seq - 1
  <2>1. DOMAIN byID = {At(i).seq : i \in 1 .. Len(entries)}
    BY <1>1 DEF IndexAgrees
  <2>2. \A i \in 1 .. Len(entries) : At(i).seq = Oldest + i - 1
    BY <1>5 DEF At
  <2>3. \A s \in Oldest .. seq - 1 :
          s - Oldest + 1 \in 1 .. Len(entries) /\ Oldest + (s - Oldest + 1) - 1 = s
    BY <1>2, <1>3, <1>4 DEF Oldest
  <2>4. \A i \in 1 .. Len(entries) : Oldest + i - 1 \in Oldest .. seq - 1
    BY <1>2, <1>3, <1>4 DEF Oldest
  <2>5. QED
    BY <2>1, <2>2, <2>3, <2>4
<1>7. QED
  BY <1>2, <1>3, <1>4, <1>5, <1>6

\* What a loop over the ring that keeps the objects in K returns: pointers of
\* the ring, in the order of their sequence numbers, none of those left out.
LEMMA FilterRing ==
  ASSUME IInv, NEW K
  PROVE  LET kept == Filter(entries, K)
         IN /\ kept \in Seq(DOMAIN heap)
            /\ \A j \in 1 .. Len(kept) :
                 kept[j] \in K /\ heap[kept[j]].seq \in DOMAIN byID
            /\ \A j, k \in 1 .. Len(kept) : j < k => heap[kept[j]].seq < heap[kept[k]].seq
            /\ \A i \in 1 .. Len(entries) :
                 entries[i] \in K => \E j \in 1 .. Len(kept) : kept[j] = entries[i]
<1> DEFINE kept == Filter(entries, K)
           n == Len(entries)
<1>1. /\ entries \in Seq(DOMAIN heap) /\ n \in Nat /\ Oldest \in Nat /\ seq = Oldest + n
      /\ \A i \in 1 .. n : entries[i] \in DOMAIN heap /\ heap[entries[i]].seq = Oldest + i - 1
      /\ DOMAIN byID = Oldest .. seq - 1
  BY RingFacts DEF Oldest
<1>2. PICK h : kept \in Seq(DOMAIN heap) /\ Picks(entries, K, kept, h, n)
  BY <1>1, FilterPicks
<1> HIDE DEF kept, n
<1>3. /\ \A j \in 1 .. Len(kept) : h[j] \in 1 .. n /\ kept[j] = entries[h[j]] /\ kept[j] \in K
      /\ \A j, k \in 1 .. Len(kept) : j < k => h[j] < h[k]
      /\ \A i \in 1 .. n : entries[i] \in K => \E j \in 1 .. Len(kept) : h[j] = i
  BY <1>2 DEF Picks
<1>4. \A j \in 1 .. Len(kept) : heap[kept[j]].seq = Oldest + h[j] - 1
  BY <1>1, <1>3
<1>5. \A j \in 1 .. Len(kept) : heap[kept[j]].seq \in DOMAIN byID
  BY <1>1, <1>3, <1>4
<1>6. \A j, k \in 1 .. Len(kept) : j < k => heap[kept[j]].seq < heap[kept[k]].seq
  <2> SUFFICES ASSUME NEW j \in 1 .. Len(kept), NEW k \in 1 .. Len(kept), j < k
               PROVE  heap[kept[j]].seq < heap[kept[k]].seq
    OBVIOUS
  <2>1. h[j] < h[k] /\ h[j] \in Nat /\ h[k] \in Nat
    BY <1>1, <1>3
  <2>2. heap[kept[j]].seq = Oldest + h[j] - 1 /\ heap[kept[k]].seq = Oldest + h[k] - 1
    BY <1>4
  <2>3. Oldest \in Nat
    BY <1>1
  <2> DEFINE x == h[j]  y == h[k]  o == Oldest
             p == heap[kept[j]].seq  q == heap[kept[k]].seq
  <2>4. /\ x < y /\ x \in Nat /\ y \in Nat /\ o \in Nat
        /\ p = o + x - 1 /\ q = o + y - 1
    BY <2>1, <2>2, <2>3
  <2> HIDE DEF x, y, o, p, q
  <2>5. p < q
    BY <2>4
  <2>6. QED
    BY <2>5 DEF p, q
<1>7. ASSUME NEW i \in 1 .. n, entries[i] \in K
      PROVE  \E j \in 1 .. Len(kept) : kept[j] = entries[i]
  <2>1. PICK j \in 1 .. Len(kept) : h[j] = i
    BY <1>3, <1>7
  <2>2. QED
    BY <1>3, <2>1
<1>8. QED
  BY <1>2, <1>3, <1>5, <1>6, <1>7 DEF kept, n

\* A list of pointers to the resident objects with sequence numbers in S, in
\* order, lists exactly S.
LEMMA ListedExactly ==
  ASSUME IInv, NEW ptrs \in Seq(DOMAIN heap), NEW S \in SUBSET DOMAIN byID,
         \A j \in 1 .. Len(ptrs) : heap[ptrs[j]].seq \in S,
         \A j, k \in 1 .. Len(ptrs) : j < k => heap[ptrs[j]].seq < heap[ptrs[k]].seq,
         \A s \in S : \E j \in 1 .. Len(ptrs) : heap[ptrs[j]].seq = s
  PROVE  ListsExactly(ptrs, S)
<1>1. {heap[ptrs[i]].seq : i \in 1 .. Len(ptrs)} = S
  OBVIOUS
<1>2. Ascending(SeqsOf(ptrs))
  <2> DEFINE n == Len(ptrs)
             s == [i \in 1 .. n |-> heap[ptrs[i]].seq]
  <2>1. n \in Nat /\ SeqsOf(ptrs) = s
    BY DEF SeqsOf
  <2>2. Len(s) = n
    BY <2>1
  <2>3. \A i \in 1 .. n - 1 : i \in 1 .. n /\ i + 1 \in 1 .. n /\ i < i + 1
    BY <2>1
  <2>4. \A i \in 1 .. n - 1 : s[i] < s[i + 1]
    BY <2>3
  <2>5. QED
    BY <2>1, <2>2, <2>4 DEF Ascending
<1>3. QED
  BY <1>1, <1>2 DEF ListsExactly

\* Two IDs in order, and the side of the span that an unknown one leaves open:
\* Range returns the resident records between them.
LEMMA RangeExact ==
  ASSUME IInv, NEW a \in 0 .. seq - 1, NEW b \in a .. seq - 1
  PROVE  /\ BufRange(a, b) \in Seq(DOMAIN heap)
         /\ ListsExactly(BufRange(a, b), ResidentBetween(a, b))
<1> DEFINE S == ResidentBetween(a, b)
<1>1. /\ Len(entries) \in Nat /\ Oldest \in Nat /\ seq \in Nat
      /\ \A i \in 1 .. Len(entries) :
           entries[i] \in DOMAIN heap /\ heap[entries[i]].seq = Oldest + i - 1
      /\ DOMAIN byID = Oldest .. seq - 1 /\ seq = Oldest + Len(entries)
  BY RingFacts DEF Oldest
<1>2. a \in Nat /\ b \in Nat /\ a <= b /\ b <= seq - 1
  BY <1>1
<1>3. S \subseteq DOMAIN byID /\ \A s : s \in S <=> s \in Oldest .. seq - 1 /\ a <= s /\ s <= b
  BY <1>1 DEF ResidentBetween
<1>4. CASE {a, b} \intersect DOMAIN byID = {}
  <2>1. S = {}
    <3>1. a \notin Oldest .. seq - 1 /\ b \notin Oldest .. seq - 1
      BY <1>1, <1>4
    <3>2. b < Oldest
      BY <1>1, <1>2, <3>1
    <3>3. QED
      BY <1>1, <1>2, <1>3, <3>2
  <2>2. BufRange(a, b) = <<>>
    BY <1>4 DEF BufRange
  <2>3. <<>> \in Seq(DOMAIN heap) /\ Len(<<>>) = 0
    BY EmptySeq
  <2> HIDE DEF S
  <2>4. ListsExactly(<<>>, S)
    BY <2>1, <2>3 DEF ListsExactly, Ascending, SeqsOf
  <2>5. QED
    BY <2>2, <2>3, <2>4 DEF S
<1>5. CASE {a, b} \intersect DOMAIN byID # {}
  <2> DEFINE lo == IF a \in DOMAIN byID THEN a ELSE 0
             hi == IF b \in DOMAIN byID THEN b ELSE seq
             K == Between(lo, hi)
             kept == Filter(entries, K)
  <2>1. BufRange(a, b) = kept
    BY <1>5 DEF BufRange
  <2>2. lo \in Nat /\ hi = b /\ lo <= hi /\ b \in DOMAIN byID
    BY <1>1, <1>2, <1>5
  <2>3. \A s \in Oldest .. seq - 1 : s \in lo .. hi <=> a <= s /\ s <= b
    BY <1>1, <1>2, <2>2
  <2>4. Smaller(lo, hi) = lo /\ Larger(lo, hi) = hi
    BY <1>2, <2>2 DEF Smaller, Larger
  <2>5. \A p : p \in K <=> p \in DOMAIN heap /\ heap[p].seq \in lo .. hi
    BY <2>4 DEF Between
  <2> HIDE DEF lo, hi, K
  <2>6. /\ kept \in Seq(DOMAIN heap)
        /\ \A j \in 1 .. Len(kept) : kept[j] \in K /\ heap[kept[j]].seq \in DOMAIN byID
        /\ \A j, k \in 1 .. Len(kept) : j < k => heap[kept[j]].seq < heap[kept[k]].seq
        /\ \A i \in 1 .. Len(entries) :
             entries[i] \in K => \E j \in 1 .. Len(kept) : kept[j] = entries[i]
    BY FilterRing
  <2> HIDE DEF kept
  <2>7. \A j \in 1 .. Len(kept) : heap[kept[j]].seq \in S
    BY <1>1, <1>3, <2>3, <2>5, <2>6
  <2>8. ASSUME NEW s \in S
        PROVE  \E j \in 1 .. Len(kept) : heap[kept[j]].seq = s
    <3> DEFINE i == s - Oldest + 1
    <3>1. i \in 1 .. Len(entries) /\ Oldest + i - 1 = s /\ s \in lo .. hi
      BY <1>1, <1>3, <2>3
    <3>2. entries[i] \in DOMAIN heap /\ heap[entries[i]].seq = s
      BY <1>1, <3>1
    <3> HIDE DEF i
    <3>3. entries[i] \in K
      BY <2>5, <3>1, <3>2
    <3>4. QED
      BY <2>6, <3>1, <3>2, <3>3
  <2>9. S \in SUBSET DOMAIN byID
    BY <1>3
  <2>10. QED
    BY <2>1, <2>6, <2>7, <2>8, <2>9, ListedExactly
<1>6. QED
  BY <1>4, <1>5

\* Context returns the records at most `before' below and `after' above the one
\* asked for, as many of them as the ring has.
LEMMA ContextExact ==
  ASSUME IInv, NEW id \in DOMAIN byID, NEW before \in Int, NEW after \in Int
  PROVE  /\ Context(id, before, after) \in Seq(DOMAIN heap)
         /\ ListsExactly(Context(id, before, after),
                         ResidentBetween(id - Larger(0, before), id + Larger(0, after)))
<1> DEFINE B == Larger(0, before)
           A == Larger(0, after)
           S == ResidentBetween(id - B, id + A)
           n == Len(entries)
           i == id - Oldest + 1
           l == Larger(1, i - B)
           r == Smaller(n, i + A)
           list == SubSeq(entries, l, r)
<1>1. /\ n \in Nat /\ Oldest \in Nat /\ seq \in Nat
      /\ entries \in Seq(1 .. Len(heap)) /\ DOMAIN heap = 1 .. Len(heap)
      /\ \A k \in 1 .. n : entries[k] \in DOMAIN heap /\ heap[entries[k]].seq = Oldest + k - 1
      /\ DOMAIN byID = Oldest .. seq - 1 /\ seq = Oldest + n
  BY RingFacts DEF Oldest
<1>2. A \in Nat /\ B \in Nat
  BY DEF Larger
<1>3. i \in 1 .. n /\ id = Oldest + i - 1
  BY <1>1
<1> HIDE DEF i, A, B
<1>4. Context(id, before, after) = list
  <2>1. ASSUME NEW k \in 1 .. n
        PROVE  At(k).seq = id <=> k = i
    <3>1. At(k).seq = Oldest + k - 1
      BY <1>1 DEF At
    <3>2. Oldest \in Nat /\ i \in Int /\ id = Oldest + i - 1
      BY <1>1, <1>3
    <3> HIDE DEF n
    <3>3. QED
      BY <1>1, <3>1, <3>2
  <2>2. {k \in 1 .. n : At(k).seq = id} = {i}
    BY <1>3, <2>1
  <2>3. (CHOOSE k \in {i} : TRUE) = i
    OBVIOUS
  <2>4. QED
    BY <2>2, <2>3 DEF Context, A, B
<1> HIDE DEF n
<1>5. l \in 1 .. i /\ r \in i .. n /\ (l = 1 \/ l = i - B) /\ (r = n \/ r = i + A)
      /\ l >= i - B /\ r <= i + A
  BY <1>1, <1>2, <1>3 DEF Larger, Smaller
<1> HIDE DEF l, r
<1>6. /\ list \in Seq(DOMAIN heap) /\ Len(list) = r - l + 1
      /\ \A k \in 1 .. r - l + 1 : list[k] = entries[l + k - 1]
  <2>1. l \in Int /\ r \in Int /\ l <= r /\ \A k \in l .. r : entries[k] \in DOMAIN heap
    BY <1>1, <1>3, <1>5
  <2>2. QED
    BY <2>1, SubSeqProperties
<1> HIDE DEF list
<1>7. S \in SUBSET DOMAIN byID
      /\ \A s \in Int : s \in S <=> s \in Oldest .. seq - 1 /\ id - B <= s /\ s <= id + A
  BY <1>1 DEF ResidentBetween
<1> HIDE DEF S
<1>8. ASSUME NEW k \in 1 .. Len(list)
      PROVE  /\ heap[list[k]].seq = Oldest + (l + k - 1) - 1
             /\ heap[list[k]].seq \in S
  <2>1. l + k - 1 \in l .. r /\ l + k - 1 \in 1 .. n
    <3>1. n \in Nat /\ i \in 1 .. n /\ l \in 1 .. i /\ r \in i .. n /\ k \in 1 .. r - l + 1
      BY <1>1, <1>3, <1>5, <1>6
    <3>2. QED
      BY <3>1
  <2>2. heap[list[k]].seq = Oldest + (l + k - 1) - 1
    BY <1>1, <1>6, <2>1
  <2> DEFINE s == Oldest + (l + k - 1) - 1
  <2>3. s \in Oldest .. seq - 1 /\ id - B <= s /\ s <= id + A
    <3>1. l \in Int /\ r \in Int /\ k \in Int
      BY <1>1, <1>3, <1>5
    <3>2. QED
      BY <1>1, <1>2, <1>3, <1>5, <2>1, <3>1
  <2>4. s \in Int
    BY <1>1, <2>3
  <2> HIDE DEF s
  <2>5. s \in S
    BY <1>7, <2>3, <2>4
  <2>6. QED
    BY <2>2, <2>5 DEF s
<1>9. \A j, k \in 1 .. Len(list) : j < k => heap[list[j]].seq < heap[list[k]].seq
  <2>1. Len(list) \in Nat /\ l \in Nat
    BY <1>3, <1>5, <1>6
  <2> SUFFICES ASSUME NEW j \in 1 .. Len(list), NEW k \in 1 .. Len(list), j < k
               PROVE  heap[list[j]].seq < heap[list[k]].seq
    OBVIOUS
  <2>2. /\ heap[list[j]].seq = Oldest + (l + j - 1) - 1
        /\ heap[list[k]].seq = Oldest + (l + k - 1) - 1
    BY <1>8
  <2>3. Oldest \in Nat /\ j \in Nat /\ k \in Nat
    BY <1>1, <2>1
  <2>4. QED
    BY <2>1, <2>2, <2>3
<1>10. ASSUME NEW s \in S
       PROVE  \E k \in 1 .. Len(list) : heap[list[k]].seq = s
  <2>1. s \in Oldest .. seq - 1 /\ id - B <= s /\ s <= id + A
    BY <1>1, <1>7
  <2>2. s - Oldest + 1 \in l .. r
    BY <1>1, <1>2, <1>3, <1>5, <2>1
  <2>3. s - Oldest + 1 - l + 1 \in 1 .. Len(list)
        /\ Oldest + (l + (s - Oldest + 1 - l + 1) - 1) - 1 = s
    BY <1>1, <1>3, <1>5, <1>6, <2>1, <2>2
  <2>4. QED
    BY <1>8, <2>3
<1>11. ListsExactly(list, S)
  BY <1>6, <1>7, <1>8, <1>9, <1>10, ListedExactly
<1>12. QED
  BY <1>4, <1>6, <1>11 DEF S, A, B

\* Two pages one after the other are the page of their common length.
LEMMA PagesExact ==
  ASSUME IInv, NEW limit \in Nat \ {0}, NEW offset \in Nat
  PROVE  /\ Recent(limit, offset) \in Seq(DOMAIN heap)
         /\ Recent(limit, offset + limit) \o Recent(limit, offset) = Recent(2 * limit, offset)
<1> DEFINE n == Len(entries)
           end == n - offset
           Page(low, high) == SubSeq(entries, Larger(0, low) + 1, high)
<1>1. n \in Nat /\ entries \in Seq(DOMAIN heap)
  BY RingFacts
<1>2. \A lim, off \in Nat : Recent(lim, off) = Page(n - off - lim, n - off)
  <2> SUFFICES ASSUME NEW lim \in Nat, NEW off \in Nat
               PROVE  Recent(lim, off) = Page(n - off - lim, n - off)
    OBVIOUS
  <2>1. Smaller(n, n - off) = n - off
    BY <1>1 DEF Smaller
  <2>2. QED
    BY <2>1 DEF Recent
<1>3. ASSUME NEW low \in Int, NEW high \in Int, high <= n
      PROVE  /\ Page(low, high) \in Seq(DOMAIN heap)
             /\ high <= 0 => Page(low, high) = <<>>
  <2>1. Larger(0, low) + 1 \in Int /\ Larger(0, low) + 1 >= 1
    BY DEF Larger
  <2>2. \A i \in Larger(0, low) + 1 .. high : entries[i] \in DOMAIN heap
    BY <1>1, <1>3, <2>1
  <2>3. Page(low, high) \in Seq(DOMAIN heap)
    BY <2>1, <2>2, SubSeqProperties
  <2>4. high <= 0 => high < Larger(0, low) + 1
    BY <2>1
  <2>5. QED
    BY <2>1, <2>3, <2>4, SubSeqEmpty
<1>4. /\ Recent(limit, offset) = Page(end - limit, end)
      /\ Recent(limit, offset + limit) = Page(end - limit - limit, end - limit)
      /\ Recent(2 * limit, offset) = Page(end - limit - limit, end)
  <2>1. /\ limit \in Nat /\ offset + limit \in Nat /\ 2 * limit \in Nat
        /\ n - (offset + limit) - limit = end - limit - limit
        /\ n - (offset + limit) = end - limit
        /\ n - offset - 2 * limit = end - limit - limit
    BY <1>1
  <2> HIDE DEF Page
  <2>2. QED
    BY <1>2, <2>1
<1>5. end \in Int /\ end <= n /\ end - limit \in Int /\ end - limit <= n
      /\ end - limit - limit \in Int
  BY <1>1
<1> HIDE DEF end, Page, n
<1>6. Page(end - limit - limit, end - limit) \o Page(end - limit, end)
        = Page(end - limit - limit, end)
  <2>1. CASE end <= 0
    BY <1>3, <1>5, <2>1
  <2>2. CASE end > 0 /\ end - limit <= 0
    <3>1. Page(end - limit - limit, end - limit) = <<>>
      BY <1>3, <1>5, <2>2
    <3>2. Larger(0, end - limit) = 0 /\ Larger(0, end - limit - limit) = 0
      BY <1>5, <2>2 DEF Larger
    <3>3. Page(end - limit, end) = Page(end - limit - limit, end)
      BY <3>2 DEF Page
    <3>4. Page(end - limit, end) \in Seq(DOMAIN heap)
      BY <1>3, <1>5
    <3>5. QED
      BY <3>1, <3>3, <3>4
  <2>3. CASE end - limit > 0
    <3> DEFINE m == Larger(0, end - limit - limit) + 1
               k == end - limit
    <3>1. m \in 1 .. n + 1 /\ k \in m - 1 .. n /\ end \in k .. n /\ Larger(0, k) = k
      BY <1>1, <1>5, <2>3 DEF Larger, n
    <3>2. SubSeq(entries, m, k) \o SubSeq(entries, k + 1, end) = SubSeq(entries, m, end)
      <4> HIDE DEF m, k
      <4> QED BY <1>1, <3>1, ConcatAdjacentSubSeq DEF n
    <3>3. QED
      BY <3>1, <3>2 DEF Page
  <2>4. QED
    BY <1>5, <2>1, <2>2, <2>3
<1>7. QED
  BY <1>3, <1>4, <1>5, <1>6

\* What a search sees, newest first, and the first `limit' hits of it.
Newest == [i \in 1 .. Len(entries) |-> entries[Len(entries) + 1 - i]]
Hits == Filter(Newest, Matches)

\* The hits are pointers of the ring to objects that match, newest first, and
\* every record of the ring that matches is one of them.
LEMMA HitsExact ==
  ASSUME IInv
  PROVE  /\ Hits \in Seq(DOMAIN heap)
         /\ \A j \in 1 .. Len(Hits) :
              \E i \in 1 .. Len(entries) : Hits[j] = entries[i] /\ entries[i] \in Matches
         /\ \A j \in 1 .. Len(Hits) : heap[Hits[j]].seq \in Nat
         /\ \A j, k \in 1 .. Len(Hits) : j < k => heap[Hits[j]].seq > heap[Hits[k]].seq
         /\ \A i \in 1 .. Len(entries) :
              entries[i] \in Matches => \E j \in 1 .. Len(Hits) : Hits[j] = entries[i]
<1> DEFINE n == Len(entries)
<1>1. /\ n \in Nat /\ Oldest \in Nat
      /\ \A i \in 1 .. n : entries[i] \in DOMAIN heap /\ heap[entries[i]].seq = Oldest + i - 1
  BY RingFacts
<1>2. /\ Newest \in Seq(DOMAIN heap) /\ Len(Newest) = n
      /\ \A i \in 1 .. n : n + 1 - i \in 1 .. n /\ Newest[i] = entries[n + 1 - i]
  <2>1. \A i \in 1 .. n : n + 1 - i \in 1 .. n
    BY <1>1
  <2>2. \A i \in 1 .. n : entries[n + 1 - i] \in DOMAIN heap
    BY <1>1, <2>1
  <2> HIDE DEF n
  <2>3. Newest = [i \in 1 .. n |-> entries[n + 1 - i]]
    BY DEF Newest, n
  <2>4. QED
    BY <1>1, <2>1, <2>2, <2>3
<1>3. PICK h : Hits \in Seq(DOMAIN heap) /\ Picks(Newest, Matches, Hits, h, n)
  BY <1>2, FilterPicks DEF Hits
<1> HIDE DEF n
<1>4. /\ \A j \in 1 .. Len(Hits) :
           h[j] \in 1 .. n /\ Hits[j] = Newest[h[j]] /\ Newest[h[j]] \in Matches
      /\ \A j, k \in 1 .. Len(Hits) : j < k => h[j] < h[k]
      /\ \A i \in 1 .. n : Newest[i] \in Matches => \E j \in 1 .. Len(Hits) : h[j] = i
  BY <1>3 DEF Picks
<1>5. \A j \in 1 .. Len(Hits) :
        n + 1 - h[j] \in 1 .. n /\ Hits[j] = entries[n + 1 - h[j]]
  BY <1>2, <1>4
<1>6. \A j \in 1 .. Len(Hits) : heap[Hits[j]].seq = Oldest + (n + 1 - h[j]) - 1
  BY <1>1, <1>5
<1>7. \A j, k \in 1 .. Len(Hits) : j < k => heap[Hits[j]].seq > heap[Hits[k]].seq
  <2> SUFFICES ASSUME NEW j \in 1 .. Len(Hits), NEW k \in 1 .. Len(Hits), j < k
               PROVE  heap[Hits[j]].seq > heap[Hits[k]].seq
    OBVIOUS
  <2>1. h[j] < h[k] /\ h[j] \in 1 .. n /\ h[k] \in 1 .. n
    BY <1>4
  <2>2. /\ heap[Hits[j]].seq = Oldest + (n + 1 - h[j]) - 1
        /\ heap[Hits[k]].seq = Oldest + (n + 1 - h[k]) - 1
    BY <1>6
  <2>3. Oldest \in Nat /\ n \in Nat
    BY <1>1
  <2> DEFINE x == h[j]  y == h[k]  o == Oldest
             p == heap[Hits[j]].seq  q == heap[Hits[k]].seq
  <2>4. /\ x < y /\ x \in Nat /\ y \in Nat /\ o \in Nat /\ n \in Nat
        /\ p = o + (n + 1 - x) - 1 /\ q = o + (n + 1 - y) - 1
    BY <2>1, <2>2, <2>3
  <2> HIDE DEF x, y, o, p, q
  <2>5. p > q
    BY <2>4
  <2>6. QED
    BY <2>5 DEF p, q
<1>8. \A i \in 1 .. n :
        entries[i] \in Matches => \E j \in 1 .. Len(Hits) : Hits[j] = entries[i]
  <2> SUFFICES ASSUME NEW i \in 1 .. n, entries[i] \in Matches
               PROVE  \E j \in 1 .. Len(Hits) : Hits[j] = entries[i]
    OBVIOUS
  <2>1. n + 1 - i \in 1 .. n /\ n + 1 - (n + 1 - i) = i
    BY <1>1
  <2>2. Newest[n + 1 - i] = entries[i]
    BY <1>2, <2>1
  <2>3. PICK j \in 1 .. Len(Hits) : h[j] = n + 1 - i
    BY <1>4, <2>1, <2>2
  <2>4. Hits[j] = Newest[h[j]]
    BY <1>4
  <2>5. QED
    BY <2>2, <2>3, <2>4
<1>9. ASSUME NEW j \in 1 .. Len(Hits)
      PROVE  heap[Hits[j]].seq \in Nat
  <2>1. heap[Hits[j]].seq = Oldest + (n + 1 - h[j]) - 1 /\ h[j] \in 1 .. n
    BY <1>4, <1>6
  <2>2. QED
    BY <1>1, <2>1
<1>10. ASSUME NEW j \in 1 .. Len(Hits)
       PROVE  \E i \in 1 .. n : Hits[j] = entries[i] /\ entries[i] \in Matches
  <2>1. Hits[j] = Newest[h[j]] /\ Newest[h[j]] \in Matches
    BY <1>4
  <2>2. n + 1 - h[j] \in 1 .. n /\ Hits[j] = entries[n + 1 - h[j]]
    BY <1>5
  <2>3. QED
    BY <2>1, <2>2
<1>11. QED
  BY <1>3, <1>7, <1>8, <1>9, <1>10 DEF n

\* Search returns the newest hits, as many as the limit allows.
LEMMA SearchExact ==
  ASSUME IInv, NEW limit \in Nat
  PROVE  LET hits == SeqsOf(Search(limit))
             all  == {At(i).seq : i \in {j \in 1 .. Len(entries) : entries[j] \in Matches}}
             got  == {hits[i] : i \in 1 .. Len(hits)}
         IN /\ Search(limit) \in Seq(DOMAIN heap)
            /\ \A i \in 1 .. Len(hits) - 1 : hits[i] > hits[i + 1]
            /\ got \subseteq all
            /\ \A s \in all \ got : Len(hits) = limit /\ \A t \in got : s < t
<1> DEFINE m == Smaller(Len(Hits), limit)
           found == SubSeq(Hits, 1, m)
           hits == SeqsOf(found)
           all  == {At(i).seq : i \in {j \in 1 .. Len(entries) : entries[j] \in Matches}}
           got  == {hits[i] : i \in 1 .. Len(hits)}
<1>1. Search(limit) = found
  BY DEF Search, Hits, Newest
<1>2. Hits \in Seq(DOMAIN heap) /\ Len(Hits) \in Nat
  BY HitsExact
<1>3. m \in 0 .. Len(Hits) /\ (m = Len(Hits) \/ m = limit)
  BY <1>2 DEF Smaller
<1> HIDE DEF m
<1>4. found \in Seq(DOMAIN heap) /\ Len(found) = m /\ \A j \in 1 .. m : found[j] = Hits[j]
  <2>1. \A j \in 1 .. m : Hits[j] \in DOMAIN heap
    BY <1>2, <1>3, ElementOfSeq
  <2>2. 1 \in Int /\ m \in Int
    BY <1>3
  <2>3. QED
    BY <1>3, <2>1, <2>2, SubSeqProperties
<1> HIDE DEF found
<1>5. Len(hits) = m /\ \A j \in 1 .. m : hits[j] = heap[Hits[j]].seq
  BY <1>3, <1>4 DEF SeqsOf
<1> HIDE DEF hits
<1>6. \A i \in 1 .. m - 1 : hits[i] > hits[i + 1]
  <2> SUFFICES ASSUME NEW i \in 1 .. m - 1 PROVE hits[i] > hits[i + 1]
    OBVIOUS
  <2>1. i \in 1 .. Len(Hits) /\ i + 1 \in 1 .. Len(Hits) /\ i < i + 1
        /\ i \in 1 .. m /\ i + 1 \in 1 .. m
    BY <1>2, <1>3
  <2>2. QED
    BY <1>5, <2>1, HitsExact
<1>7. got \subseteq all
  <2> SUFFICES ASSUME NEW j \in 1 .. m PROVE hits[j] \in all
    BY <1>5
  <2>1. j \in 1 .. Len(Hits)
    BY <1>2, <1>3
  <2>2. PICK i \in 1 .. Len(entries) : Hits[j] = entries[i] /\ entries[i] \in Matches
    BY <2>1, HitsExact
  <2>3. QED
    BY <1>5, <2>2 DEF At
<1>8. ASSUME NEW s \in all \ got
      PROVE  m = limit /\ \A t \in got : s < t
  <2>1. PICK i \in 1 .. Len(entries) : entries[i] \in Matches /\ s = heap[entries[i]].seq
    BY <1>8 DEF At
  <2>2. PICK k \in 1 .. Len(Hits) : Hits[k] = entries[i]
    BY <2>1, HitsExact
  <2>3. k \notin 1 .. m
    BY <1>5, <1>8, <2>1, <2>2
  <2>4. m < k /\ m < Len(Hits)
    BY <1>2, <1>3, <2>3
  <2>5. m = limit
    BY <1>2, <1>3, <2>4
  <2>6. ASSUME NEW t \in got
        PROVE  s < t
    <3>1. PICK j \in 1 .. m : t = heap[Hits[j]].seq
      BY <1>5
    <3>2. j \in 1 .. Len(Hits) /\ j < k
      BY <1>2, <1>3, <2>4
    <3>3. heap[Hits[j]].seq > heap[Hits[k]].seq
          /\ heap[Hits[j]].seq \in Nat /\ heap[Hits[k]].seq \in Nat
      BY <3>2, HitsExact
    <3>4. QED
      BY <2>1, <2>2, <3>1, <3>3
  <2>7. QED
    BY <2>5, <2>6
<1> HIDE DEF all, got
<1>9. /\ found \in Seq(DOMAIN heap)
      /\ \A i \in 1 .. Len(hits) - 1 : hits[i] > hits[i + 1]
      /\ got \subseteq all
      /\ \A s \in all \ got : Len(hits) = limit /\ \A t \in got : s < t
  BY <1>4, <1>5, <1>6, <1>7, <1>8
<1>10. QED
  BY <1>1, <1>9 DEF hits, all, got

\* In every state of the ring the accessors return exactly what they promise.
LEMMA AccessorsAreExact ==
  ASSUME IInv
  PROVE  RangeIsResidentSpan /\ ContextIsNeighbourhood /\ SearchNewestFirst /\ PagesTile
<1>1. RangeIsResidentSpan
  BY RangeExact DEF RangeIsResidentSpan
<1>2. ContextIsNeighbourhood
  <2>1. \A i \in Inputs : i \in Int
    BY ToolAssumption
  <2>2. ASSUME NEW id \in DOMAIN byID, NEW before \in Inputs, NEW after \in Inputs
        PROVE  ListsExactly(Context(id, before, after),
                 ResidentBetween(id - Larger(0, before), id + Larger(0, after)))
    BY <2>1, ContextExact
  <2>3. QED
    BY <2>2 DEF ContextIsNeighbourhood
<1>3. SearchNewestFirst
  <2>1. ASSUME NEW limit \in 1 .. Cap
        PROVE  limit \in Nat
    BY CapAssumption
  <2>2. QED
    BY <2>1, SearchExact, Zenon DEF SearchNewestFirst
<1>4. PagesTile
  <2>1. ASSUME NEW limit \in 1 .. Cap + 1, NEW offset \in 0 .. Cap + 1
        PROVE  Recent(limit, offset + limit) \o Recent(limit, offset)
                 = Recent(2 * limit, offset)
    <3>1. limit \in Nat \ {0} /\ offset \in Nat
      BY CapAssumption
    <3>2. QED
      BY <3>1, PagesExact
  <2>2. QED
    BY <2>1 DEF PagesTile
<1>5. QED
  BY <1>1, <1>2, <1>3, <1>4

-----------------------------------------------------------------------------
(* The handlers: a request in progress, however long it is since the lock   *)
(* was released, holds pointers to objects that are as they were.           *)

\* What the TUI publishes: nothing, or two IDs that were issued, in order.
Screen(from, to) ==
  \/ from = NoId /\ to = NoId
  \/ from \in 0 .. seq - 1 /\ to \in from .. seq - 1

Window(from, to) == [pc |-> "window", from |-> from, to |-> to]

Held(tool, from, to, ptrs) ==
  [pc |-> "held", tool |-> tool, from |-> from, to |-> to, ptrs |-> ptrs,
   given |-> [i \in 1 .. Len(ptrs) |-> heap[ptrs[i]]]]

OnScreen(tool, from, to, ptrs) ==
  tool = "get_viewport" => \A i \in 1 .. Len(ptrs) : heap[ptrs[i]].seq \in from .. to

RequestOK ==
  \/ req = Idle
  \/ \E seqs : req = [pc |-> "hits", seqs |-> seqs]
  \/ \E from, to : Screen(from, to) /\ req = Window(from, to)
  \/ \E tool, from, to : \E ptrs \in Seq(DOMAIN heap) :
       req = Held(tool, from, to, ptrs) /\ OnScreen(tool, from, to, ptrs)

ViewportOK ==
  /\ viewport \in [from : Nat \union {NoId}, to : Nat \union {NoId}, attached : BOOLEAN]
  /\ Screen(viewport.from, viewport.to)

McpInv == IInv /\ ViewportOK /\ RequestOK

\* Objects are never written to, and IDs go up.
LEMMA HeapGrows ==
  ASSUME IInv, [Next]_vars
  PROVE  /\ \A p \in DOMAIN heap : p \in DOMAIN heap' /\ heap'[p] = heap[p]
         /\ seq \in Nat /\ seq' \in Nat /\ seq <= seq'
<1>1. \A p \in DOMAIN heap : p \in DOMAIN heap' /\ heap'[p] = heap[p]
  <2>1. CASE UNCHANGED vars
    BY <2>1 DEF vars
  <2>2. CASE ~ UNCHANGED vars
    BY <2>2, ImmutableStep
  <2>3. QED
    BY <2>1, <2>2
<1>2. seq \in Nat
  BY DEF IInv, TypeOK
<1>3. seq' = seq \/ seq' = seq + 1
  BY DEF Next, vars, DoAppend, BufAppend, DoRerender, Rerender, EnsureBlocks, ringVars
<1>4. QED
  BY <1>1, <1>2, <1>3

\* What a handler holds is still what it was given, and what was on the screen
\* still was, after any step of the ring.
LEMMA RequestLasts ==
  ASSUME IInv, [Next]_vars, RequestOK, UNCHANGED req
  PROVE  RequestOK'
<1>1. /\ \A p \in DOMAIN heap : p \in DOMAIN heap' /\ heap'[p] = heap[p]
      /\ seq \in Nat /\ seq' \in Nat /\ seq <= seq'
  BY HeapGrows
<1>2. CASE req = Idle
  BY <1>2 DEF RequestOK
<1>3. CASE \E seqs : req = [pc |-> "hits", seqs |-> seqs]
  BY <1>3 DEF RequestOK
<1>4. CASE \E from, to : Screen(from, to) /\ req = Window(from, to)
  <2>1. PICK from, to : Screen(from, to) /\ req = Window(from, to)
    BY <1>4
  <2>2. Screen(from, to)' /\ (req = Window(from, to))'
    BY <1>1, <2>1 DEF Screen, Window, NoId
  <2>3. QED
    BY <2>2 DEF RequestOK, Screen, Window
<1>5. CASE \E tool, from, to : \E ptrs \in Seq(DOMAIN heap) :
             req = Held(tool, from, to, ptrs) /\ OnScreen(tool, from, to, ptrs)
  <2>1. PICK tool, from, to :
          \E ptrs \in Seq(DOMAIN heap) :
            req = Held(tool, from, to, ptrs) /\ OnScreen(tool, from, to, ptrs)
    BY <1>5
  <2>2. PICK ptrs \in Seq(DOMAIN heap) :
          req = Held(tool, from, to, ptrs) /\ OnScreen(tool, from, to, ptrs)
    BY <2>1
  <2>3. \A i \in 1 .. Len(ptrs) : ptrs[i] \in DOMAIN heap /\ heap'[ptrs[i]] = heap[ptrs[i]]
    BY <1>1
  <2>4. ptrs \in Seq(DOMAIN heap')
    <3>1. DOMAIN heap \subseteq DOMAIN heap'
      BY <1>1
    <3>2. QED
      BY <3>1, SeqMonotonic
  <2>5. (req = Held(tool, from, to, ptrs))'
    <3>1. [i \in 1 .. Len(ptrs) |-> heap[ptrs[i]]] = [i \in 1 .. Len(ptrs) |-> heap'[ptrs[i]]]
      BY <2>3
    <3>2. QED
      BY <2>2, <3>1 DEF Held
  <2>6. OnScreen(tool, from, to, ptrs)'
    BY <2>2, <2>3 DEF OnScreen
  <2>7. QED
    BY <2>4, <2>5, <2>6 DEF RequestOK, Held, OnScreen
<1>6. QED
  BY <1>2, <1>3, <1>4, <1>5 DEF RequestOK

\* A tool that looked pointers up in the ring as it is holds them properly.
LEMMA HoldsProperly ==
  ASSUME UNCHANGED vars, NEW ptrs \in Seq(DOMAIN heap), NEW tool, NEW from, NEW to,
         OnScreen(tool, from, to, ptrs), req' = Hold(tool, ptrs, from, to)
  PROVE  RequestOK'
<1>1. CASE ptrs = <<>>
  BY <1>1 DEF Hold, RequestOK
<1>2. CASE ptrs # <<>>
  <2>1. heap' = heap
    BY DEF vars
  <2>2. req' = Held(tool, from, to, ptrs)
    BY <1>2 DEF Hold, Held
  <2>3. (req = Held(tool, from, to, ptrs))' /\ OnScreen(tool, from, to, ptrs)'
    BY <2>1, <2>2 DEF Held, OnScreen
  <2>4. QED
    BY <2>1, <2>3 DEF RequestOK, Held, OnScreen
<1>3. QED
  BY <1>1, <1>2

\* Whatever a client asks for, an accessor returns pointers to objects.
LEMMA AccessorTypes ==
  ASSUME IInv
  PROVE  /\ \A id \in DOMAIN byID : <<byID[id]>> \in Seq(DOMAIN heap)
         /\ \A from, to : BufRange(from, to) \in Seq(DOMAIN heap)
         /\ \A id : \A before, after \in Int : Context(id, before, after) \in Seq(DOMAIN heap)
         /\ \A limit, offset \in Int : Recent(limit, offset) \in Seq(DOMAIN heap)
<1>1. /\ Len(entries) \in Nat /\ DOMAIN heap = 1 .. Len(heap)
      /\ \A i \in 1 .. Len(entries) :
           entries[i] \in DOMAIN heap /\ heap[entries[i]].seq = Oldest + i - 1
      /\ DOMAIN byID = Oldest .. seq - 1
      /\ Oldest \in Nat /\ seq = Oldest + Len(entries)
  BY RingFacts DEF Oldest
<1>2. <<>> \in Seq(DOMAIN heap)
  BY EmptySeq
<1>3. ASSUME NEW id \in DOMAIN byID
      PROVE  <<byID[id]>> \in Seq(DOMAIN heap)
  <2>1. byID[id] \in DOMAIN heap
    BY <1>1 DEF IInv, TypeOK
  <2>2. QED
    BY <2>1
<1>4. ASSUME NEW from, NEW to
      PROVE  BufRange(from, to) \in Seq(DOMAIN heap)
  BY <1>2, FilterRing, Zenon DEF BufRange
<1>5. ASSUME NEW id, NEW before \in Int, NEW after \in Int
      PROVE  Context(id, before, after) \in Seq(DOMAIN heap)
  <2>1. CASE id \in DOMAIN byID
    BY <2>1, ContextExact
  <2>2. CASE id \notin DOMAIN byID
    <3>1. \A i \in 1 .. Len(entries) : At(i).seq # id
      BY <1>1, <2>2 DEF At
    <3>2. {i \in 1 .. Len(entries) : At(i).seq = id} = {}
      BY <3>1
    <3>3. QED
      BY <1>2, <3>2 DEF Context
  <2>3. QED
    BY <2>1, <2>2
<1>6. ASSUME NEW limit \in Int, NEW offset \in Int
      PROVE  Recent(limit, offset) \in Seq(DOMAIN heap)
  <2> DEFINE end == Smaller(Len(entries), Len(entries) - offset)
             first == Larger(0, end - limit) + 1
  <2>1. end \in Int /\ end <= Len(entries)
    BY <1>1 DEF Smaller
  <2> HIDE DEF end
  <2>2. first \in Int /\ first >= 1
    BY <2>1 DEF Larger
  <2> HIDE DEF first
  <2>3. \A i \in first .. end : entries[i] \in DOMAIN heap
    BY <1>1, <2>1, <2>2
  <2>4. SubSeq(entries, first, end) \in Seq(DOMAIN heap)
    BY <2>1, <2>2, <2>3, SubSeqProperties
  <2>5. QED
    BY <2>4 DEF Recent, first, end
<1>7. QED
  BY <1>3, <1>4, <1>5, <1>6

\* get_viewport: what Range returns for a window that was on the screen was on
\* it, whichever of its two ends has been evicted.
LEMMA WindowIsOnScreen ==
  ASSUME IInv, NEW from, NEW to, Screen(from, to)
  PROVE  OnScreen("get_viewport", from, to, BufRange(from, to))
<1>1. CASE from = NoId /\ to = NoId
  <2>1. NoId \notin DOMAIN byID
    BY RingFacts DEF NoId
  <2>2. BufRange(from, to) = <<>>
    BY <1>1, <2>1 DEF BufRange
  <2>3. QED
    BY <2>2 DEF OnScreen
<1>2. CASE from \in 0 .. seq - 1 /\ to \in from .. seq - 1
  <2>1. ListsExactly(BufRange(from, to), ResidentBetween(from, to))
    BY <1>2, RangeExact
  <2>2. \A s \in ResidentBetween(from, to) : s \in from .. to
    <3>1. DOMAIN byID \subseteq Int /\ seq \in Int
      BY RingFacts
    <3>2. from \in Int /\ to \in Int
      BY <1>2, <3>1
    <3>3. QED
      BY <3>1, <3>2 DEF ResidentBetween
  <2>3. \A i \in 1 .. Len(BufRange(from, to)) :
          heap[BufRange(from, to)[i]].seq \in ResidentBetween(from, to)
    BY <2>1 DEF ListsExactly
  <2>4. QED
    BY <2>2, <2>3 DEF OnScreen
<1>3. QED
  BY <1>1, <1>2 DEF Screen

LEMMA McpInvInit == McpInit => McpInv
<1> SUFFICES ASSUME McpInit PROVE McpInv
  OBVIOUS
<1>1. IInv
  BY InvariantInit DEF McpInit
<1>2. ViewportOK
  BY DEF McpInit, ViewportOK, Screen, NoId
<1>3. RequestOK
  BY DEF McpInit, RequestOK
<1>4. QED
  BY <1>1, <1>2, <1>3 DEF McpInv

LEMMA McpInvStep == McpInv /\ [McpNext]_mcpVars => McpInv'
<1> SUFFICES ASSUME McpInv, [McpNext]_mcpVars PROVE McpInv'
  OBVIOUS
<1>1. IInv /\ ViewportOK /\ RequestOK /\ [Next]_vars
  BY McpStepIsRingStep DEF McpInv
<1>2. IInv'
  BY <1>1, InvariantStep
<1>3. seq \in Nat /\ seq' \in Nat /\ seq <= seq'
  BY <1>1, HeapGrows
<1>4. ViewportOK'
  <2>1. CASE UNCHANGED viewport
    BY <1>1, <1>3, <2>1 DEF ViewportOK, Screen
  <2>2. CASE PublishViewport
    <3>1. seq' = seq
      BY <2>2 DEF PublishViewport, SetViewport, vars
    <3>2. PICK from, to : SetViewport(from, to) /\ Screen(from, to)
      BY <2>2 DEF PublishViewport, Screen
    <3>3. viewport' = [from |-> from, to |-> to, attached |-> TRUE]
      BY <3>2 DEF SetViewport
    <3>4. {from, to} \subseteq Nat \union {NoId}
      BY <1>3, <3>2 DEF Screen
    <3>5. QED
      BY <3>1, <3>2, <3>3, <3>4 DEF ViewportOK, Screen
  <2>3. QED
    BY <2>1, <2>2
    DEF McpNext, mcpVars, GetLine, GetRange, GetContext, GetScrollback, Call, SearchTool,
        ListExceptions, GetViewport, GetViewportRange, Reply
<1>5. RequestOK'
  <2>1. CASE UNCHANGED req
    BY <1>1, <2>1, RequestLasts
  <2>2. ASSUME NEW tool, NEW ptrs \in Seq(DOMAIN heap), Call(tool, ptrs),
               tool # "get_viewport"
        PROVE  RequestOK'
    BY <2>2, HoldsProperly DEF Call, OnScreen
  <2>3. CASE GetLine
    <3>1. PICK id \in DOMAIN byID : Call("get_line", <<byID[id]>>)
      BY <2>3 DEF GetLine
    <3>2. QED
      BY <1>1, <2>2, <3>1, AccessorTypes
  <2>4. CASE GetRange
    <3>1. PICK from, to \in IdsAskedFor : Call("get_range", BufRange(from, to))
      BY <2>4 DEF GetRange
    <3>2. QED
      BY <1>1, <2>2, <3>1, AccessorTypes
  <2>5. CASE GetContext
    <3>1. PICK id \in IdsAskedFor, before, after \in Inputs :
            LET args == ContextArgs(before, after)
            IN Call("get_context", Context(id, args[1], args[2]))
      BY <2>5 DEF GetContext
    <3>2. before \in Int /\ after \in Int
      BY ToolAssumption
    <3>3. ContextArgs(before, after)[1] \in Int /\ ContextArgs(before, after)[2] \in Int
      BY <3>2, ToolAssumption DEF ContextArgs, Smaller
    <3>4. QED
      BY <1>1, <2>2, <3>1, <3>3, AccessorTypes
  <2>6. CASE GetScrollback
    <3>1. PICK limit, offset \in Inputs :
            Call("get_scrollback", Recent(ScrollbackLimit(limit), offset))
      BY <2>6 DEF GetScrollback
    <3>2. limit \in Int /\ offset \in Int
      BY ToolAssumption
    <3>3. ScrollbackLimit(limit) \in Int
      BY <3>2, ToolAssumption DEF ScrollbackLimit, Smaller
    <3>4. QED
      BY <1>1, <2>2, <3>1, <3>2, <3>3, AccessorTypes
  <2>7. CASE SearchTool
    BY <2>7 DEF SearchTool, RequestOK
  <2>8. CASE GetViewport
    <3>1. req' = Window(viewport.from, viewport.to) /\ seq' = seq
      BY <2>8 DEF GetViewport, Window, vars
    <3>2. Screen(viewport.from, viewport.to)
      BY <1>1 DEF ViewportOK
    <3>3. PICK from, to : Screen(from, to) /\ req' = Window(from, to)
      BY <3>1, <3>2
    <3>4. Screen(from, to)' /\ (req = Window(from, to))'
      BY <3>1, <3>3 DEF Screen, Window
    <3>5. QED
      BY <3>4 DEF RequestOK, Screen, Window
  <2>9. CASE GetViewportRange
    <3>1. req.pc = "window" /\ req' = Hold("get_viewport", BufRange(req.from, req.to), req.from, req.to)
          /\ UNCHANGED vars
      BY <2>9 DEF GetViewportRange
    <3>2. PICK from, to : Screen(from, to) /\ req = Window(from, to)
      BY <1>1, <3>1 DEF RequestOK, Idle, Held
    <3>3. req.from = from /\ req.to = to
      BY <3>2 DEF Window
    <3>4. BufRange(from, to) \in Seq(DOMAIN heap)
      BY <1>1, AccessorTypes
    <3>5. OnScreen("get_viewport", from, to, BufRange(from, to))
      BY <1>1, <3>2, WindowIsOnScreen
    <3>6. QED
      BY <3>1, <3>3, <3>4, <3>5, HoldsProperly
  <2>10. CASE Reply
    BY <2>10 DEF Reply, RequestOK
  <2>11. QED
    BY <2>1, <2>3, <2>4, <2>5, <2>6, <2>7, <2>8, <2>9, <2>10
    DEF McpNext, mcpVars, ListExceptions, PublishViewport, SetViewport
<1>6. QED
  BY <1>2, <1>4, <1>5 DEF McpInv

LEMMA McpInvariant == McpSpec => []McpInv
<1>1. QED
  BY McpInvInit, McpInvStep, PTL DEF McpSpec

LEMMA McpTypes == McpInv => McpTypeOK
<1> SUFFICES ASSUME McpInv PROVE McpTypeOK
  OBVIOUS
<1>1. TypeOK
  BY DEF McpInv, IInv
<1>2. /\ req.pc \in {"idle", "window", "held", "hits"}
      /\ req.pc = "held" => \A i \in DOMAIN req.ptrs : req.ptrs[i] \in DOMAIN heap
  <2>1. ASSUME NEW tool, NEW from, NEW to, NEW ptrs \in Seq(DOMAIN heap),
               req = Held(tool, from, to, ptrs)
        PROVE  req.pc = "held" /\ \A i \in DOMAIN req.ptrs : req.ptrs[i] \in DOMAIN heap
    <3>1. req.pc = "held" /\ req.ptrs = ptrs
      BY <2>1 DEF Held
    <3>2. QED
      BY <3>1
  <2>2. QED
    BY <2>1 DEF McpInv, RequestOK, Idle, Window
<1>3. QED
  BY <1>1, <1>2 DEF McpTypeOK, McpInv, ViewportOK

\* Every state is well typed: a handler that has pointers has pointers to
\* objects.
THEOREM McpTypeCorrect == McpSpec => []McpTypeOK
<1>1. QED
  BY McpInvariant, McpTypes, PTL

\* What a handler that has released the lock is about to reply.
LEMMA HeldIsCoherent == McpInv => ReplyCoherent /\ ViewportReplyOnScreen
<1> SUFFICES ASSUME McpInv, req.pc = "held"
             PROVE  /\ \A i \in DOMAIN req.ptrs : heap[req.ptrs[i]] = req.given[i]
                    /\ req.tool = "get_viewport" =>
                         \A i \in DOMAIN req.given : req.given[i].seq \in req.from .. req.to
  BY DEF ReplyCoherent, ViewportReplyOnScreen
<1>1. PICK tool, from, to :
        \E ptrs \in Seq(DOMAIN heap) :
          req = Held(tool, from, to, ptrs) /\ OnScreen(tool, from, to, ptrs)
  BY DEF McpInv, RequestOK, Idle, Window
<1>2. PICK ptrs \in Seq(DOMAIN heap) :
        req = Held(tool, from, to, ptrs) /\ OnScreen(tool, from, to, ptrs)
  BY <1>1
<1>3. /\ req.tool = tool /\ req.from = from /\ req.to = to /\ req.ptrs = ptrs
      /\ req.given = [i \in 1 .. Len(ptrs) |-> heap[ptrs[i]]]
  BY <1>2 DEF Held
<1>4. DOMAIN ptrs = 1 .. Len(ptrs)
  OBVIOUS
<1>5. QED
  BY <1>2, <1>3, <1>4 DEF OnScreen

\* A handler converts its pointers after the lock is released (tools.go): no
\* append, eviction or re-render in between changes what it replies.
THEOREM RepliesAreCoherent == McpSpec => []ReplyCoherent
<1>1. QED
  BY McpInvariant, HeldIsCoherent, PTL

\* get_viewport takes two locks, and the ring may move on in between: what it
\* lists was on the screen it reports all the same.
THEOREM ViewportRepliesAreOnScreen == McpSpec => []ViewportReplyOnScreen
<1>1. QED
  BY McpInvariant, HeldIsCoherent, PTL

\* Range, Context, Search and Recent return exactly what they promise, at every
\* fill of a ring of any capacity and for every count a client sends.
THEOREM AccessorsAreAlwaysExact == McpSpec => []AccessorsExact
<1>1. McpInv => AccessorsExact
  BY AccessorsAreExact DEF McpInv, AccessorsExact
<1>2. QED
  BY <1>1, McpInvariant, PTL

-----------------------------------------------------------------------------
(* What a view is made of.                                                  *)

\* What the view keeps of an entry.
Item == [id : Nat, rows : Renderings]

\* What Rows computes for the first n items, by recursion on n.
IsTotal(f, s, n) ==
  f = [i \in 0 .. n |-> IF i = 0 THEN 0 ELSE f[i - 1] + Height[s[i].rows]]

\* That recursion has a solution.
LEMMA TotalExists ==
  ASSUME NEW s, NEW n \in Nat
  PROVE  \E f : IsTotal(f, s, n)
<1> DEFINE T == {m \in Nat : \E f : IsTotal(f, s, m)}
<1>1. 0 \in T
  <2>1. IsTotal([i \in 0 .. 0 |-> 0], s, 0)
    BY DEF IsTotal
  <2>2. QED
    BY <2>1
<1>2. ASSUME NEW m \in 0 .. n - 1, m \in T
      PROVE  m + 1 \in T
  <2>1. PICK f : IsTotal(f, s, m)
    BY <1>2
  <2> DEFINE g == [i \in 0 .. m + 1 |->
                     IF i = m + 1 THEN f[m] + Height[s[m + 1].rows] ELSE f[i]]
             e(i) == IF i = 0 THEN 0 ELSE f[i - 1] + Height[s[i].rows]
  <2>2. \A i \in 0 .. m : f[i] = e(i)
    <3>1. f = [i \in 0 .. m |-> e(i)]
      BY <2>1 DEF IsTotal
    <3> HIDE DEF e
    <3>2. QED
      BY <3>1
  <2>3. ASSUME NEW i \in 0 .. m + 1
        PROVE  g[i] = IF i = 0 THEN 0 ELSE g[i - 1] + Height[s[i].rows]
    <3>1. CASE i = m + 1
      <4>1. i # 0 /\ i - 1 = m /\ g[i - 1] = f[m]
        BY <3>1
      <4>2. QED
        BY <3>1, <4>1
    <3>2. CASE i # m + 1
      <4>1. i \in 0 .. m /\ g[i] = f[i] /\ (i # 0 => i - 1 \in 0 .. m /\ g[i - 1] = f[i - 1])
        BY <3>2
      <4>2. QED
        BY <4>1, <2>2
    <3>3. QED
      BY <3>1, <3>2
  <2>4. IsTotal(g, s, m + 1)
    BY <2>3 DEF IsTotal
  <2>5. m + 1 \in Nat
    OBVIOUS
  <2>6. QED
    BY <2>4, <2>5
<1> HIDE DEF T
<1>3. n \in T
  BY <1>1, <1>2, UpTo
<1>4. QED
  BY <1>3 DEF T

\* A view has a number of rows, and an empty one has none.
LEMMA RowsAreCounted ==
  ASSUME NEW s \in Seq(Item)
  PROVE  Rows(s) \in Nat /\ (Len(s) = 0 => Rows(s) = 0)
<1> DEFINE n == Len(s)
           f == CHOOSE f : IsTotal(f, s, n)
           e(i) == IF i = 0 THEN 0 ELSE f[i - 1] + Height[s[i].rows]
           T == {m \in 0 .. n : f[m] \in Nat}
<1>1. n \in Nat
  OBVIOUS
<1>2. Rows(s) = f[n]
  BY DEF Rows, IsTotal
<1>3. IsTotal(f, s, n)
  BY <1>1, TotalExists
<1> HIDE DEF f
<1>4. \A i \in 0 .. n : f[i] = e(i)
  <2>1. f = [i \in 0 .. n |-> e(i)]
    BY <1>3 DEF IsTotal
  <2> HIDE DEF e
  <2>2. QED
    BY <2>1
<1>5. f[0] = 0
  BY <1>1, <1>4
<1>6. ASSUME NEW m \in 0 .. n - 1, m \in T
      PROVE  m + 1 \in T
  <2>1. s[m + 1] \in Item /\ m + 1 \in 0 .. n /\ m + 1 # 0 /\ (m + 1) - 1 = m
    BY <1>1, ElementOfSeq
  <2>2. Height[s[m + 1].rows] \in Nat
    BY <2>1, ViewAssumption DEF Item
  <2>3. f[m + 1] = f[m] + Height[s[m + 1].rows]
    BY <1>4, <2>1
  <2>4. QED
    BY <1>6, <2>1, <2>2, <2>3
<1>7. 0 \in T
  BY <1>1, <1>5
<1> HIDE DEF T, n, e
<1>8. \A i \in 0 .. n : i \in T
  <2>1. \A i \in 0 .. n - 1 : i \in T => i + 1 \in T
    BY <1>6
  <2>2. QED
    BY <1>1, <1>7, <2>1, UpTo
<1>9. f[n] \in Nat
  BY <1>1, <1>8 DEF T
<1>10. QED
  BY <1>2, <1>5, <1>9 DEF n

\* Fit keeps a tail, and one that fits: a single entry with more rows than the
\* window leaves nothing.
LEMMA FitIsATail ==
  ASSUME NEW s \in Seq(Item)
  PROVE  /\ \E k \in 0 .. Len(s) : Fit(s) = SubSeq(s, k + 1, Len(s))
         /\ Rows(Fit(s)) <= Scrollback
<1> DEFINE n == Len(s)
           rest(k) == Rows(SubSeq(s, k + 1, n))
           K == {k \in 0 .. n : rest(k) <= Scrollback}
           Is(k) == rest(k) <= Scrollback /\ \A j \in 0 .. k - 1 : rest(j) > Scrollback
<1>1. n \in Nat /\ Scrollback \in Nat
  BY ViewAssumption
<1>2. \A k \in 0 .. n : rest(k) \in Nat /\ (k = n => rest(k) = 0)
  <2>1. ASSUME NEW k \in 0 .. n
        PROVE  /\ SubSeq(s, k + 1, n) \in Seq(Item)
               /\ k = n => Len(SubSeq(s, k + 1, n)) = 0
    BY <1>1
  <2>2. QED
    BY <2>1, RowsAreCounted
<1> HIDE DEF rest
<1>3. n \in K
  BY <1>1, <1>2
<1>4. PICK m \in K : \A k \in K : m <= k
  <2>1. K \in SUBSET Nat
    BY <1>1
  <2> HIDE DEF K
  <2>2. QED
    BY <1>3, <2>1, LeastElement
<1>5. m \in 0 .. n /\ Is(m)
  <2>1. ASSUME NEW j \in 0 .. m - 1 PROVE rest(j) > Scrollback
    <3>1. j \in 0 .. n /\ ~ (m <= j)
      BY <1>1, <1>4
    <3>2. ~ (rest(j) <= Scrollback)
      BY <1>4, <3>1
    <3>3. QED
      BY <1>1, <1>2, <3>1, <3>2
  <2>2. QED
    BY <1>4, <2>1
<1> DEFINE c == CHOOSE k \in 0 .. n : Is(k)
<1>6. c \in 0 .. n /\ Is(c)
  <2> HIDE DEF Is
  <2>1. QED
    BY <1>5
<1>7. Fit(s) = SubSeq(s, c + 1, n)
  BY DEF Fit, rest
<1> HIDE DEF c
<1>8. QED
  BY <1>6, <1>7 DEF rest

-----------------------------------------------------------------------------
(* View, over a ring whose entries are in order.                            *)

\* The objects and the pointers of a ring.
IsRing(obj, ring) ==
  /\ obj \in Seq(Entry)
  /\ ring \in Seq(1 .. Len(obj))
  /\ \A i, j \in 1 .. Len(ring) : i < j => obj[ring[i]].seq < obj[ring[j]].seq

\* Renderings by ID, as the display cache keeps them.
IsCache(c) == \A id \in DOMAIN c : id \in Nat /\ c[id] \in Renderings

\* What is known of the entries of the ring is how they are rendered.
KnowsWell(obj, ring, c) ==
  \A i \in 1 .. Len(ring) :
    obj[ring[i]].seq \in DOMAIN c => c[obj[ring[i]].seq] = obj[ring[i]].rows

\* The parts of View.
Above(obj, ring, floor) ==
  Filter(SubSeq(ring, IF Len(ring) > Scrollback
                      THEN Len(ring) - Scrollback + 1 ELSE 1, Len(ring)),
         {p \in DOMAIN obj : ~ (floor > 0 /\ obj[p].seq <= floor)})
ItemOf(obj, known, p) ==
  [id |-> obj[p].seq,
   rows |-> IF obj[p].seq \in DOMAIN known THEN known[obj[p].seq] ELSE obj[p].rows]
Items(obj, ring, known, floor) ==
  [i \in 1 .. Len(Above(obj, ring, floor)) |->
     ItemOf(obj, known, Above(obj, ring, floor)[i])]

LEMMA ViewIsFit ==
  ASSUME NEW obj, NEW ring, NEW known, NEW floor
  PROVE  View(obj, ring, known, floor) = Fit(Items(obj, ring, known, floor))
BY DEF View, Items, ItemOf, Above

\* The entries above the floor are entries of the ring, in its order.
LEMMA AboveIsOfRing ==
  ASSUME NEW obj, NEW ring, IsRing(obj, ring), NEW floor \in Nat
  PROVE  LET a == Above(obj, ring, floor)
         IN /\ a \in Seq(1 .. Len(obj))
            /\ \A i \in 1 .. Len(a) :
                 /\ \E k \in 1 .. Len(ring) : a[i] = ring[k]
                 /\ obj[a[i]] \in Entry
                 /\ floor > 0 => obj[a[i]].seq > floor
            /\ \A i, j \in 1 .. Len(a) : i < j => obj[a[i]].seq < obj[a[j]].seq
<1> DEFINE n == Len(ring)
           m == IF n > Scrollback THEN n - Scrollback + 1 ELSE 1
           snap == SubSeq(ring, m, n)
           K == {p \in DOMAIN obj : ~ (floor > 0 /\ obj[p].seq <= floor)}
           a == Above(obj, ring, floor)
           P == 1 .. Len(obj)
<1>1. n \in Nat /\ Scrollback \in Nat \ {0} /\ m \in Nat \ {0} /\ m <= n + 1
  BY ViewAssumption DEF IsRing
<1>2. /\ snap \in Seq(P)
      /\ Len(snap) = n - m + 1
      /\ \A i \in 1 .. Len(snap) : i + m - 1 \in 1 .. n /\ snap[i] = ring[i + m - 1]
  <2> HIDE DEF m
  <2>1. ring \in Seq(P)
    BY DEF IsRing
  <2> HIDE DEF P
  <2>2. QED
    BY <1>1, <2>1
<1>3. a = Filter(snap, K)
  BY DEF Above
<1> HIDE DEF a, snap, K, m, P
<1>4. a \in Seq(P) /\ \E h : Picks(snap, K, a, h, Len(snap))
  BY <1>2, <1>3, FilterPicks
<1>5. PICK h : Picks(snap, K, a, h, Len(snap))
  BY <1>4
<1> DEFINE g(i) == h[i] + m - 1
<1>6. /\ \A i \in 1 .. Len(a) : g(i) \in 1 .. n /\ a[i] = ring[g(i)] /\ a[i] \in K
      /\ \A i, j \in 1 .. Len(a) : i < j => g(i) < g(j)
  <2>1. \A i \in 1 .. Len(a) : h[i] \in 1 .. Len(snap) /\ a[i] = snap[h[i]] /\ a[i] \in K
    BY <1>5 DEF Picks
  <2>2. \A i, j \in 1 .. Len(a) : i < j => h[i] < h[j]
    BY <1>5 DEF Picks
  <2>3. Len(snap) \in Nat
    BY <1>2
  <2>4. ASSUME NEW i \in 1 .. Len(a)
        PROVE  g(i) \in 1 .. n /\ a[i] = ring[g(i)]
    <3>1. h[i] \in 1 .. Len(snap)
      BY <2>1
    <3>2. h[i] + m - 1 \in 1 .. n /\ snap[h[i]] = ring[h[i] + m - 1]
      BY <1>2, <3>1
    <3>3. QED
      BY <2>1, <3>2
  <2>5. ASSUME NEW i \in 1 .. Len(a), NEW j \in 1 .. Len(a), i < j
        PROVE  g(i) < g(j)
    <3>1. h[i] \in Nat /\ h[j] \in Nat /\ h[i] < h[j]
      BY <2>1, <2>2, <2>3, <2>5
    <3>2. QED
      BY <1>1, <3>1
  <2> HIDE DEF g
  <2>6. QED
    BY <2>1, <2>4, <2>5
<1> HIDE DEF g
<1>7. ASSUME NEW i \in 1 .. Len(a)
      PROVE  /\ \E k \in 1 .. n : a[i] = ring[k]
             /\ obj[a[i]] \in Entry
             /\ floor > 0 => obj[a[i]].seq > floor
  <2>1. a[i] \in P
    BY <1>4, ElementOfSeq
  <2>2. obj[a[i]] \in Entry
    BY <2>1, ElementOfSeq DEF P, IsRing
  <2>3. obj[a[i]].seq \in Nat
    BY <2>2 DEF Entry
  <2>4. ~ (floor > 0 /\ obj[a[i]].seq <= floor)
    BY <1>6 DEF K
  <2>5. floor > 0 => obj[a[i]].seq > floor
    BY <2>3, <2>4
  <2>6. QED
    BY <1>6, <2>2, <2>5
<1>8. ASSUME NEW i \in 1 .. Len(a), NEW j \in 1 .. Len(a), i < j
      PROVE  obj[a[i]].seq < obj[a[j]].seq
  <2>1. g(i) \in 1 .. n /\ g(j) \in 1 .. n /\ g(i) < g(j)
    BY <1>6, <1>8
  <2>2. obj[ring[g(i)]].seq < obj[ring[g(j)]].seq
    BY <2>1 DEF IsRing
  <2>3. QED
    BY <1>6, <2>2
<1>9. QED
  BY <1>4, <1>7, <1>8 DEF a, P, n

\* A view lists entries of the ring in order, above the floor, and fits.
LEMMA ViewFacts ==
  ASSUME NEW obj, NEW ring, IsRing(obj, ring), NEW floor \in Nat,
         NEW known, IsCache(known)
  PROVE  LET v == View(obj, ring, known, floor)
         IN /\ v \in Seq(Item)
            /\ Rows(v) <= Scrollback
            /\ \A i, j \in 1 .. Len(v) : i < j => v[i].id < v[j].id
            /\ \A i \in 1 .. Len(v) :
                 /\ floor > 0 => v[i].id > floor
                 /\ \E k \in 1 .. Len(ring) : v[i] = ItemOf(obj, known, ring[k])
<1> DEFINE a == Above(obj, ring, floor)
           s == Items(obj, ring, known, floor)
           v == View(obj, ring, known, floor)
<1>1. /\ a \in Seq(1 .. Len(obj))
      /\ \A i \in 1 .. Len(a) :
           /\ \E k \in 1 .. Len(ring) : a[i] = ring[k]
           /\ obj[a[i]] \in Entry
           /\ floor > 0 => obj[a[i]].seq > floor
      /\ \A i, j \in 1 .. Len(a) : i < j => obj[a[i]].seq < obj[a[j]].seq
  BY AboveIsOfRing
<1> HIDE DEF a
<1>2. Len(a) \in Nat
  BY <1>1
<1>3. ASSUME NEW i \in 1 .. Len(a)
      PROVE  ItemOf(obj, known, a[i]) \in Item
  <2>1. obj[a[i]].seq \in Nat /\ obj[a[i]].rows \in Renderings
    BY <1>1 DEF Entry
  <2>2. QED
    BY <2>1 DEF ItemOf, Item, IsCache
<1>4. s = [i \in 1 .. Len(a) |-> ItemOf(obj, known, a[i])]
  BY DEF Items, a
<1> HIDE DEF s
<1>5. s \in Seq(Item) /\ Len(s) = Len(a)
      /\ \A i \in 1 .. Len(a) : s[i] = ItemOf(obj, known, a[i])
  BY <1>2, <1>3, <1>4
<1>6. \A i \in 1 .. Len(a) : s[i].id = obj[a[i]].seq
  <2>1. \A p : ItemOf(obj, known, p).id = obj[p].seq
    BY DEF ItemOf
  <2>2. QED
    BY <1>5, <2>1
<1>7. v = Fit(s)
  BY ViewIsFit DEF s
<1> HIDE DEF v
<1>8. PICK k \in 0 .. Len(a) : v = SubSeq(s, k + 1, Len(a))
  BY <1>5, <1>7, FitIsATail
<1>9. Rows(v) <= Scrollback
  BY <1>5, <1>7, FitIsATail
<1>10. /\ v \in Seq(Item)
       /\ \A i \in 1 .. Len(v) : i + k \in 1 .. Len(a) /\ v[i] = s[i + k]
  BY <1>2, <1>5, <1>8
<1>11. \A i, j \in 1 .. Len(v) : i < j => v[i].id < v[j].id
  <2>1. ASSUME NEW i \in 1 .. Len(v), NEW j \in 1 .. Len(v), i < j
        PROVE  v[i].id < v[j].id
    <3>1. i + k < j + k /\ i + k \in 1 .. Len(a) /\ j + k \in 1 .. Len(a)
      BY <1>10, <2>1
    <3>2. obj[a[i + k]].seq < obj[a[j + k]].seq
      BY <1>1, <3>1
    <3>3. QED
      BY <1>6, <1>10, <3>1, <3>2
  <2>2. QED
    BY <2>1
<1>12. ASSUME NEW i \in 1 .. Len(v)
       PROVE  /\ floor > 0 => v[i].id > floor
              /\ \E x \in 1 .. Len(ring) : v[i] = ItemOf(obj, known, ring[x])
  <2>1. i + k \in 1 .. Len(a) /\ v[i] = s[i + k]
    BY <1>10
  <2>2. QED
    BY <1>1, <1>5, <1>6, <2>1
<1>13. QED
  BY <1>9, <1>10, <1>11, <1>12 DEF v

\* Known renderings that are those of the ring make no difference.
LEMMA ViewIgnoresTrueCache ==
  ASSUME NEW obj, NEW ring, IsRing(obj, ring), NEW floor \in Nat,
         NEW known, KnowsWell(obj, ring, known)
  PROVE  View(obj, ring, known, floor) = View(obj, ring, <<>>, floor)
<1> DEFINE a == Above(obj, ring, floor)
<1>1. \A i \in 1 .. Len(a) : \E k \in 1 .. Len(ring) : a[i] = ring[k]
  BY AboveIsOfRing
<1> HIDE DEF a
<1>2. \A k \in 1 .. Len(ring) : ItemOf(obj, known, ring[k]) = ItemOf(obj, <<>>, ring[k])
  BY DEF ItemOf, KnowsWell
<1>3. \A i \in 1 .. Len(a) : ItemOf(obj, known, a[i]) = ItemOf(obj, <<>>, a[i])
  BY <1>1, <1>2
<1>4. Items(obj, ring, known, floor) = Items(obj, ring, <<>>, floor)
  <2>1. /\ Items(obj, ring, known, floor) = [i \in 1 .. Len(a) |-> ItemOf(obj, known, a[i])]
        /\ Items(obj, ring, <<>>, floor) = [i \in 1 .. Len(a) |-> ItemOf(obj, <<>>, a[i])]
    BY DEF Items, a
  <2>2. QED
    BY <1>3, <2>1
<1>5. QED
  BY <1>4, ViewIsFit

-----------------------------------------------------------------------------
(* The invariant.                                                           *)

\* What the goroutines hold.
ProcessesOK ==
  /\ pipeline \in [version : Versions, on : BOOLEAN]
  /\ pump.pc \in {"select", "append", "push", "rerender", "panel", "reload"}
  /\ pump.pc = "append" => pump.raw \in Raws /\ pump.rows \in Renderings
  /\ pump.pc = "reload" => pump.on \in BOOLEAN
  /\ sig \in BOOLEAN
  /\ forwarder \in {"wait", "send", "stopped"}
  /\ mirror \in BOOLEAN /\ exited \in BOOLEAN
  /\ keys \in Nat /\ cleared \in Nat

\* The cache knows of no entry that is still to come.
ShownOK ==
  /\ shown \in Seq(Item)
  /\ ViewInOrder
  /\ IsCache(cache)
  /\ \A id \in DOMAIN cache : id < seq
  /\ lastGen \in Nat /\ gen \in Nat /\ lastGen <= gen

\* Between reloads the cache agrees with the ring, also in what the view has
\* yet to see.
Current ==
  pump.pc \notin {"panel", "reload"} /\ ~ exited =>
    /\ KnowsWell(heap, entries, cache)
    /\ lastGen = gen => shown = View(heap, entries, <<>>, cleared)

ViewInv == IInv /\ ProcessesOK /\ ShownOK /\ Current /\ ReconcilePending

\* The ring is in order, and all of it below the next number.
RingOK ==
  /\ IsRing(heap, entries)
  /\ \A i \in 1 .. Len(entries) : heap[entries[i]].seq < seq

LEMMA RingInOrder == IInv => RingOK
<1> SUFFICES ASSUME IInv PROVE RingOK
  OBVIOUS
<1>1. /\ heap \in Seq(Entry) /\ entries \in Seq(1 .. Len(heap)) /\ seq \in Nat
      /\ Len(entries) \in Nat
      /\ \A i \in 1 .. Len(entries) : heap[entries[i]].seq = seq - Len(entries) + i - 1
  BY DEF IInv, TypeOK, RingContiguous, At
<1> DEFINE n == Len(entries)
           num(i) == heap[entries[i]].seq
<1>2. \A i \in 1 .. n : num(i) = seq - n + i - 1
  BY <1>1
<1>3. n \in Nat
  BY <1>1
<1> HIDE DEF n, num
<1>4. /\ \A i, j \in 1 .. n : i < j => num(i) < num(j)
      /\ \A i \in 1 .. n : num(i) < seq
  BY <1>1, <1>2, <1>3
<1>5. QED
  BY <1>1, <1>4 DEF RingOK, IsRing, n, num

\* It stays so.
LEMMA RingStaysInOrder == IInv' => RingOK'
BY RingInOrder, PTL

\* Nothing is known before a rendering is cached.
LEMMA NothingKnown ==
  IsCache(<<>>) /\ \A obj, ring : KnowsWell(obj, ring, <<>>)
BY DEF IsCache, KnowsWell

\* A rebuilt view is in order and fits; if what was known was right, it is the
\* view of the ring as it is, and what is cached is right too.
LEMMA Rebuilt ==
  ASSUME IInv', NEW floor \in Nat, NEW known, IsCache(known), Rebuild(known, floor)
  PROVE  /\ shown' \in Seq(Item)
         /\ Rows(shown') <= Scrollback
         /\ \A i \in 1 .. Len(shown') - 1 : shown'[i].id < shown'[i + 1].id
         /\ floor > 0 => \A i \in 1 .. Len(shown') : shown'[i].id > floor
         /\ IsCache(cache')
         /\ \A id \in DOMAIN cache' : id < seq'
         /\ lastGen' = gen' /\ gen' \in Nat
         /\ KnowsWell(heap', entries', known) =>
              /\ KnowsWell(heap', entries', cache')
              /\ shown' = View(heap', entries', <<>>, floor)
<1> DEFINE obj == heap'
           ring == entries'
           v == View(obj, ring, known, floor)
           n == Len(ring)
<1>1. IsRing(obj, ring) /\ \A i \in 1 .. n : obj[ring[i]].seq < seq'
  BY RingStaysInOrder DEF RingOK
<1>2. /\ shown' = v
      /\ cache' = [id \in {v[i].id : i \in 1 .. Len(v)} |->
                     (CHOOSE e \in {v[i] : i \in 1 .. Len(v)} : e.id = id).rows]
      /\ lastGen' = gen' /\ gen' \in Nat
  BY DEF Rebuild, IInv, TypeOK
<1> HIDE DEF obj, ring
<1>3. /\ v \in Seq(Item)
      /\ Rows(v) <= Scrollback
      /\ \A i, j \in 1 .. Len(v) : i < j => v[i].id < v[j].id
      /\ \A i \in 1 .. Len(v) :
           /\ floor > 0 => v[i].id > floor
           /\ \E k \in 1 .. Len(ring) : v[i] = ItemOf(obj, known, ring[k])
  BY <1>1, ViewFacts
<1> HIDE DEF v
<1>4. Len(v) \in Nat
  BY <1>3
<1>5. ASSUME NEW id \in DOMAIN cache'
      PROVE  \E k \in 1 .. n :
               /\ id = obj[ring[k]].seq
               /\ cache'[id] = ItemOf(obj, known, ring[k]).rows
               /\ cache'[id] \in Renderings /\ id \in Nat
  <2> DEFINE Vs == {v[i] : i \in 1 .. Len(v)}
             e == CHOOSE x \in Vs : x.id = id
  <2>1. id \in {v[i].id : i \in 1 .. Len(v)} /\ cache'[id] = e.rows
    BY <1>2
  <2>2. e \in Vs /\ e.id = id
    BY <2>1
  <2> HIDE DEF e
  <2>3. PICK i \in 1 .. Len(v) : e = v[i]
    BY <2>2
  <2>4. e \in Item
    BY <1>3, <2>3, ElementOfSeq
  <2>5. PICK k \in 1 .. n : e = ItemOf(obj, known, ring[k])
    BY <1>3, <2>3
  <2>6. e.id = obj[ring[k]].seq
    BY <2>5 DEF ItemOf
  <2>7. QED
    BY <2>1, <2>2, <2>4, <2>5, <2>6 DEF Item
<1>6. IsCache(cache') /\ \A id \in DOMAIN cache' : id < seq'
  BY <1>1, <1>5 DEF IsCache
<1>7. ASSUME KnowsWell(obj, ring, known)
      PROVE  KnowsWell(obj, ring, cache')
  <2> SUFFICES ASSUME NEW i \in 1 .. n, obj[ring[i]].seq \in DOMAIN cache'
               PROVE  cache'[obj[ring[i]].seq] = obj[ring[i]].rows
    BY DEF KnowsWell
  <2>1. PICK k \in 1 .. n :
          /\ obj[ring[i]].seq = obj[ring[k]].seq
          /\ cache'[obj[ring[i]].seq] = ItemOf(obj, known, ring[k]).rows
    BY <1>5
  <2>2. i = k
    <3>1. n \in Nat
      BY <1>1 DEF IsRing
    <3>2. obj[ring[i]].seq \in Nat /\ obj[ring[k]].seq \in Nat
      <4>1. ring[i] \in 1 .. Len(obj) /\ ring[k] \in 1 .. Len(obj)
        BY <1>1, ElementOfSeq DEF IsRing
      <4>2. obj[ring[i]] \in Entry /\ obj[ring[k]] \in Entry
        BY <1>1, <4>1, ElementOfSeq DEF IsRing
      <4>3. QED
        BY <4>2 DEF Entry
    <3>3. ~ (i < k) /\ ~ (k < i)
      BY <1>1, <2>1, <3>2 DEF IsRing
    <3>4. QED
      BY <3>1, <3>3
  <2>3. ItemOf(obj, known, ring[i]).rows = obj[ring[i]].rows
    BY <1>7 DEF ItemOf, KnowsWell
  <2>4. QED
    BY <2>1, <2>2, <2>3
<1>8. KnowsWell(obj, ring, known) => v = View(obj, ring, <<>>, floor)
  BY <1>1, ViewIgnoresTrueCache DEF v
<1>9. \A i \in 1 .. Len(v) - 1 : v[i].id < v[i + 1].id
  BY <1>3, <1>4
<1>10. QED
  BY <1>2, <1>3, <1>6, <1>7, <1>8, <1>9 DEF obj, ring

\* A line that arrives is not in the cache, and moves no other entry's rows.
LEMMA ArrivalKeepsCache ==
  ASSUME IInv, NEW raw \in Raws, NEW rows \in Renderings, BufAppend(raw, rows),
         \A id \in DOMAIN cache : id < seq,
         KnowsWell(heap, entries, cache)
  PROVE  KnowsWell(heap', entries', cache)
<1> DEFINE n == Len(entries)
           m == n + 1 - Evicted
<1>1. /\ Evicted \in 0 .. 1 /\ Evicted <= n
      /\ Len(entries') = m
      /\ \A i \in 1 .. n - Evicted : At(i)' = At(i + Evicted)
      /\ \A i \in Nat : i = m => At(i)' = New(raw, rows)
  BY AppendFacts DEF IInv
<1>2. n \in Nat /\ seq \in Nat
  BY DEF IInv, TypeOK
<1> HIDE DEF n
<1>3. ASSUME NEW i \in 1 .. Len(entries'), heap'[entries'[i]].seq \in DOMAIN cache
      PROVE  cache[heap'[entries'[i]].seq] = heap'[entries'[i]].rows
  <2>1. CASE i = m
    <3>1. heap'[entries'[i]].seq = seq
      BY <1>1, <1>2, <2>1 DEF At, New
    <3>2. QED
      BY <1>2, <1>3, <3>1
  <2>2. CASE i # m
    <3>1. i \in 1 .. n - Evicted /\ i + Evicted \in 1 .. n
      BY <1>1, <1>2, <2>2
    <3>2. heap'[entries'[i]] = heap[entries[i + Evicted]]
      BY <1>1, <3>1 DEF At
    <3>3. QED
      BY <1>3, <3>1, <3>2 DEF KnowsWell, n
  <2>3. QED
    BY <2>1, <2>2
<1>4. QED
  BY <1>3 DEF KnowsWell

-----------------------------------------------------------------------------
(* The steps.                                                               *)

\* What the pipeline makes of lines is a rendering or nothing.
LEMMA RenderedType ==
  ASSUME NEW p \in [version : Versions, on : BOOLEAN]
  PROVE  Rendered(p) \in [Raws -> Renderings \union {NotOk}]
<1>1. <<p.version, p.on>> \in Versions \X BOOLEAN
  OBVIOUS
<1>2. QED
  BY <1>1, ViewAssumption DEF Rendered

\* A step that leaves ring and view alone, and begins or ends no reload.
LEMMA ViewIsLeftAlone ==
  ASSUME ViewInv, UNCHANGED bufVars, UNCHANGED uiVars, ProcessesOK',
         exited \/ pump.pc \notin {"panel", "reload"} \/ pump'.pc \in {"panel", "reload"},
         exited => exited',
         ReconcilePending'
  PROVE  ViewInv'
<1>1. IInv'
  BY DEF ViewInv, IInv, TypeOK, RingContiguous, IndexAgrees, At, bufVars
<1>2. ShownOK'
  BY DEF ViewInv, ShownOK, ViewInOrder, bufVars, uiVars
<1>3. Current'
  BY DEF ViewInv, Current, bufVars, uiVars
<1>4. QED
  BY <1>1, <1>2, <1>3 DEF ViewInv

\* A step that changes the ring, and leaves the view behind.
LEMMA ViewIsLeftBehind ==
  ASSUME ViewInv, IInv', UNCHANGED uiVars, ProcessesOK', ReconcilePending',
         seq <= seq', seq' \in Nat, gen' = gen + 1,
         pump'.pc \in {"panel", "reload"} \/ exited'
           \/ KnowsWell(heap', entries', cache)
  PROVE  ViewInv'
<1>1. ShownOK'
  <2>1. \A id \in DOMAIN cache : id < seq'
    BY DEF ViewInv, ShownOK, IsCache, IInv, TypeOK
  <2>2. gen' \in Nat /\ lastGen <= gen'
    BY DEF ViewInv, ShownOK
  <2>3. QED
    BY <2>1, <2>2 DEF ViewInv, ShownOK, ViewInOrder, uiVars
<1>2. lastGen' # gen'
  BY DEF ViewInv, ShownOK, uiVars
<1>3. Current'
  BY <1>2 DEF Current, uiVars
<1>4. QED
  BY <1>1, <1>3 DEF ViewInv

\* A step that rebuilds the view.
LEMMA ViewIsRebuilt ==
  ASSUME IInv', ProcessesOK', NEW known, IsCache(known), NEW floor \in Nat,
         Rebuild(known, floor), cleared' = floor,
         pump'.pc \in {"panel", "reload"} \/ exited'
           \/ KnowsWell(heap', entries', known)
  PROVE  ViewInv'
<1>1. /\ shown' \in Seq(Item)
      /\ Rows(shown') <= Scrollback
      /\ \A i \in 1 .. Len(shown') - 1 : shown'[i].id < shown'[i + 1].id
      /\ floor > 0 => \A i \in 1 .. Len(shown') : shown'[i].id > floor
      /\ IsCache(cache')
      /\ \A id \in DOMAIN cache' : id < seq'
      /\ lastGen' = gen' /\ gen' \in Nat
      /\ KnowsWell(heap', entries', known) =>
           /\ KnowsWell(heap', entries', cache')
           /\ shown' = View(heap', entries', <<>>, floor)
  BY Rebuilt
<1>2. ViewInOrder'
  BY <1>1 DEF ViewInOrder
<1>3. ShownOK'
  BY <1>1, <1>2 DEF ShownOK
<1>4. Current'
  BY <1>1 DEF Current
<1>5. ReconcilePending'
  BY <1>1 DEF ReconcilePending
<1>6. QED
  BY <1>3, <1>4, <1>5 DEF ViewInv

\* Nothing is shown, known or pending at the start.
LEMMA ViewInvInit == ViewInit => ViewInv
<1> SUFFICES ASSUME ViewInit PROVE ViewInv
  OBVIOUS
<1>1. IInv
  BY InvariantInit DEF ViewInit
<1>2. ProcessesOK
  <2>1. 0 \in Versions
    BY ViewAssumption DEF Versions
  <2>2. pipeline \in [version : Versions, on : BOOLEAN]
    BY <2>1 DEF ViewInit
  <2>3. pump.pc = "select"
    BY DEF ViewInit, Selecting
  <2>4. QED
    BY <2>2, <2>3 DEF ViewInit, ProcessesOK
<1>3. entries = <<>> /\ heap = <<>> /\ gen = 0
  BY DEF ViewInit, Init
<1>4. shown = <<>> /\ cache = <<>> /\ cleared = 0 /\ lastGen = 0
  BY DEF ViewInit
<1>5. <<>> \in Seq(Item) /\ Len(<<>>) = 0
  OBVIOUS
<1>6. Rows(<<>>) <= Scrollback
  <2>1. Rows(<<>>) = 0
    BY <1>5, RowsAreCounted
  <2>2. QED
    BY <2>1, ViewAssumption
<1>7. ShownOK
  BY <1>3, <1>4, <1>5, <1>6, NothingKnown DEF ShownOK, ViewInOrder
<1>8. View(heap, entries, <<>>, cleared) = <<>>
  <2> DEFINE v == View(heap, entries, <<>>, cleared)
  <2>1. IsRing(heap, entries)
    BY <1>1, RingInOrder DEF RingOK
  <2>2. v \in Seq(Item) /\ \A i \in 1 .. Len(v) : \E k \in 1 .. Len(entries) : TRUE
    BY <1>4, <2>1, NothingKnown, ViewFacts
  <2> HIDE DEF v
  <2>3. Len(v) = 0
    <3>1. Len(v) \in Nat /\ Len(entries) = 0
      BY <1>3, <2>2
    <3>2. ~ (1 \in 1 .. Len(v))
      BY <2>2, <3>1
    <3>3. QED
      BY <3>1, <3>2
  <2>4. QED
    BY <2>2, <2>3 DEF v
<1>9. Current
  BY <1>4, <1>8, NothingKnown DEF Current
<1>10. ReconcilePending
  BY <1>3, <1>4 DEF ReconcilePending
<1>11. QED
  BY <1>1, <1>2, <1>7, <1>9, <1>10 DEF ViewInv

\* A line of the pump or a marker goes into the ring.
LEMMA Arrival ==
  ASSUME ViewInv, NEW raw \in Raws, NEW rows \in Renderings, BufAppend(raw, rows)
  PROVE  /\ IInv'
         /\ seq <= seq' /\ seq' \in Nat /\ gen' = gen + 1
         /\ pump.pc \in {"panel", "reload"} \/ exited \/ KnowsWell(heap', entries', cache)
<1>1. IInv'
  BY AppendStep DEF ViewInv
<1>2. seq' = seq + 1 /\ gen' = gen + 1 /\ seq \in Nat
  BY DEF BufAppend, ViewInv, IInv, TypeOK
<1>3. ASSUME pump.pc \notin {"panel", "reload"}, ~ exited
      PROVE  KnowsWell(heap', entries', cache)
  <2>1. KnowsWell(heap, entries, cache)
    BY <1>3 DEF ViewInv, Current
  <2>2. QED
    BY <2>1, ArrivalKeepsCache DEF ViewInv, ShownOK
<1>4. QED
  BY <1>1, <1>2, <1>3

\* The ring is re-rendered as the pipeline renders.
LEMMA Rerendered ==
  ASSUME ViewInv, NEW p \in [version : Versions, on : BOOLEAN], Rerender(Rendered(p))
  PROVE  IInv' /\ seq' = seq /\ seq \in Nat /\ gen' = gen + 1
<1>1. Rendered(p) \in [Raws -> Renderings \union {NotOk}]
  BY RenderedType
<1>2. IInv'
  BY <1>1, RerenderStep DEF ViewInv
<1>3. QED
  BY <1>2 DEF Rerender, ViewInv, IInv, TypeOK

\* A toggle or a reload.
LEMMA RerenderedAll ==
  ASSUME ViewInv, NEW p \in [version : Versions, on : BOOLEAN], ReRenderAll(p),
         ProcessesOK', cleared' = cleared
  PROVE  ViewInv'
<1>1. Rerender(Rendered(p)) /\ Rebuild(<<>>, cleared)
  BY DEF ReRenderAll
<1>2. IInv'
  BY <1>1, Rerendered
<1>3. cleared \in Nat
  BY DEF ViewInv, ProcessesOK
<1>4. IsCache(<<>>) /\ KnowsWell(heap', entries', <<>>)
  BY NothingKnown
<1>5. QED
  BY <1>1, <1>2, <1>3, <1>4, ViewIsRebuilt

\* Every step of the pump keeps the invariant.
LEMMA PumpStep == ASSUME ViewInv, Pump PROVE ViewInv'
<1> USE DEF Selecting
<1>1. CASE PumpRender
  <2>1. PICK raw \in Raws \ {Marker} :
          /\ Rendered(pipeline)[raw] # NotOk
          /\ pump' = [pc |-> "append", raw |-> raw, rows |-> Rendered(pipeline)[raw]]
    BY <1>1 DEF PumpRender
  <2>2. Rendered(pipeline)[raw] \in Renderings
    BY <2>1, RenderedType DEF ViewInv, ProcessesOK
  <2>3. ProcessesOK'
    BY <1>1, <2>1, <2>2 DEF PumpRender, ViewInv, ProcessesOK, uiVars
  <2>4. ReconcilePending'
    BY <1>1, <2>1 DEF PumpRender, ViewInv, ReconcilePending, uiVars, bufVars
  <2>5. QED
    BY <1>1, <2>3, <2>4, ViewIsLeftAlone DEF PumpRender
<1>2. CASE PumpAppend
  <2>1. pump.pc = "append" /\ pump.raw \in Raws /\ pump.rows \in Renderings
    BY <1>2 DEF PumpAppend, ViewInv, ProcessesOK
  <2>2. /\ IInv'
        /\ seq <= seq' /\ seq' \in Nat /\ gen' = gen + 1
        /\ exited \/ KnowsWell(heap', entries', cache)
    BY <1>2, <2>1, Arrival DEF PumpAppend
  <2>3. pump' = [pc |-> "push"] /\ UNCHANGED <<pipeline, sig, forwarder, uiVars, keys, exited>>
    BY <1>2 DEF PumpAppend
  <2>4. ProcessesOK' /\ ReconcilePending'
    BY <2>3 DEF ViewInv, ProcessesOK, ReconcilePending, uiVars
  <2>5. QED
    BY <2>2, <2>3, <2>4, ViewIsLeftBehind
<1>3. CASE PumpPush
  <2>1. ProcessesOK'
    BY <1>3 DEF PumpPush, ViewInv, ProcessesOK, uiVars
  <2>2. ReconcilePending'
    BY <1>3 DEF PumpPush, ViewInv, ReconcilePending, uiVars, bufVars
  <2>3. QED
    BY <1>3, <2>1, <2>2, ViewIsLeftAlone DEF PumpPush
<1>4. CASE PumpSwap
  <2>1. pipeline' \in [version : Versions, on : BOOLEAN]
    BY <1>4, ViewAssumption DEF PumpSwap, ViewInv, ProcessesOK, Versions
  <2>2. ProcessesOK'
    BY <1>4, <2>1 DEF PumpSwap, ViewInv, ProcessesOK, uiVars
  <2>3. ReconcilePending'
    BY <1>4 DEF PumpSwap, ViewInv, ReconcilePending, uiVars, bufVars
  <2>4. QED
    BY <1>4, <2>2, <2>3, ViewIsLeftAlone DEF PumpSwap
<1>5. CASE PumpRerender
  <2>1. IInv' /\ seq' = seq /\ seq \in Nat /\ gen' = gen + 1
    BY <1>5, Rerendered DEF PumpRerender, ViewInv, ProcessesOK
  <2>2. pump' = [pc |-> "panel"] /\ UNCHANGED <<pipeline, sig, forwarder, uiVars, keys, exited>>
    BY <1>5 DEF PumpRerender
  <2>3. ProcessesOK' /\ ReconcilePending'
    BY <2>2 DEF ViewInv, ProcessesOK, ReconcilePending, uiVars
  <2>4. QED
    BY <2>1, <2>2, <2>3, ViewIsLeftBehind
<1>6. CASE PumpPanel
  <2>1. ProcessesOK'
    BY <1>6 DEF PumpPanel, ViewInv, ProcessesOK, uiVars
  <2>2. ReconcilePending'
    BY <1>6 DEF PumpPanel, ReconcilePending
  <2>3. QED
    BY <1>6, <2>1, <2>2, ViewIsLeftAlone DEF PumpPanel
<1>7. CASE PumpReloadDone
  <2>1. ProcessesOK'
    BY <1>7 DEF PumpReloadDone, ViewInv, ProcessesOK, uiVars
  <2>2. ReconcilePending'
    BY <1>7 DEF PumpReloadDone, ReconcilePending
  <2>3. QED
    BY <1>7, <2>1, <2>2, ViewIsLeftAlone DEF PumpReloadDone
<1>8. QED
  BY <1>1, <1>2, <1>3, <1>4, <1>5, <1>6, <1>7 DEF Pump

\* So does every step of the event loop.
LEMMA EventLoopStep == ASSUME ViewInv, EventLoop PROVE ViewInv'
<1>1. CASE UiReconcile
  <2>1. ~ exited /\ ~ exited'
        /\ UNCHANGED <<pipeline, pump, sig, cleared, mirror, keys, exited, bufVars>>
    BY <1>1 DEF UiReconcile, Reconcile
  <2>2. ProcessesOK'
    BY <1>1, <2>1 DEF UiReconcile, ViewInv, ProcessesOK
  <2>3. CASE gen = lastGen
    <3>1. UNCHANGED bufVars /\ UNCHANGED uiVars
      BY <1>1, <2>1, <2>3 DEF UiReconcile, Reconcile, uiVars
    <3>2. ReconcilePending'
      BY <2>3, <3>1 DEF ReconcilePending, bufVars, uiVars
    <3>3. QED
      BY <2>1, <2>2, <3>1, <3>2, ViewIsLeftAlone
  <2>4. CASE gen # lastGen
    <3>1. Rebuild(cache, cleared)
      BY <1>1, <2>4 DEF UiReconcile, Reconcile
    <3>2. IInv'
      BY <2>1 DEF ViewInv, IInv, TypeOK, RingContiguous, IndexAgrees, At, bufVars
    <3>3. IsCache(cache) /\ cleared \in Nat
      BY DEF ViewInv, ShownOK, ProcessesOK
    <3>4. pump'.pc \in {"panel", "reload"} \/ KnowsWell(heap', entries', cache)
      BY <2>1 DEF ViewInv, Current, bufVars
    <3>5. QED
      BY <2>1, <2>2, <3>1, <3>2, <3>3, <3>4, ViewIsRebuilt
  <2>5. QED
    BY <2>3, <2>4
<1>2. CASE UiReload
  <2>1. pump.on \in BOOLEAN
    BY <1>2 DEF UiReload, ViewInv, ProcessesOK
  <2>2. ProcessesOK'
    BY <1>2, <2>1 DEF UiReload, Selecting, ViewInv, ProcessesOK
  <2>3. QED
    BY <1>2, <2>2, RerenderedAll DEF UiReload, ViewInv, ProcessesOK
<1>3. CASE UiToggle
  <2>1. pipeline' \in [version : Versions, on : BOOLEAN]
    BY <1>3 DEF UiToggle, ViewInv, ProcessesOK
  <2>2. ProcessesOK'
    BY <1>3, <2>1 DEF UiToggle, Key, ViewInv, ProcessesOK
  <2>3. QED
    BY <1>3, <2>1, <2>2, RerenderedAll DEF UiToggle
<1>4. CASE UiClear
  <2>1. UNCHANGED bufVars
    BY <1>4 DEF UiClear
  <2>2. cleared' \in Nat
    <3>1. CASE entries = <<>>
      BY <1>4, <3>1 DEF UiClear, ViewInv, ProcessesOK
    <3>2. CASE entries # <<>>
      <4>1. Len(entries) \in 1 .. Len(entries) /\ TypeOK
        BY <3>2 DEF ViewInv, IInv, TypeOK
      <4>2. At(Len(entries)).seq \in Nat
        BY <4>1, EntryType
      <4>3. QED
        BY <1>4, <3>2, <4>2 DEF UiClear
    <3>3. QED
      BY <3>1, <3>2
  <2>3. ProcessesOK'
    BY <1>4, <2>2 DEF UiClear, Key, ViewInv, ProcessesOK
  <2>4. IInv'
    BY <2>1 DEF ViewInv, IInv, TypeOK, RingContiguous, IndexAgrees, At, bufVars
  <2>5. IsCache(<<>>) /\ KnowsWell(heap', entries', <<>>)
    BY NothingKnown
  <2>6. Rebuild(<<>>, cleared')
    BY <1>4 DEF UiClear
  <2>7. QED
    BY <2>2, <2>3, <2>4, <2>5, <2>6, ViewIsRebuilt
<1>5. CASE UiMarker
  <2>1. Marker \in Raws /\ MarkerRow \in Renderings
    BY ViewAssumption
  <2>2. /\ BufAppend(Marker, MarkerRow) /\ Rebuild(cache, cleared)
        /\ UNCHANGED <<pump, exited, cleared>>
    BY <1>5 DEF UiMarker, Key
  <2>3. IInv' /\ (pump.pc \in {"panel", "reload"} \/ exited \/ KnowsWell(heap', entries', cache))
    BY <2>1, <2>2, Arrival
  <2>4. ProcessesOK'
    BY <1>5 DEF UiMarker, Key, ViewInv, ProcessesOK
  <2>5. IsCache(cache) /\ cleared \in Nat
    BY DEF ViewInv, ShownOK, ProcessesOK
  <2>6. QED
    BY <2>2, <2>3, <2>4, <2>5, ViewIsRebuilt
<1>6. CASE UiQuit
  <2>1. ProcessesOK' /\ ReconcilePending'
    BY <1>6 DEF UiQuit, ViewInv, ProcessesOK, ReconcilePending, uiVars
  <2>2. QED
    BY <1>6, <2>1, ViewIsLeftAlone DEF UiQuit
<1>7. QED
  BY <1>1, <1>2, <1>3, <1>4, <1>5, <1>6 DEF EventLoop

\* Every step keeps the invariant.
LEMMA ViewInvStep == ViewInv /\ [ViewNext]_viewVars => ViewInv'
<1> SUFFICES ASSUME ViewInv, [ViewNext]_viewVars PROVE ViewInv'
  OBVIOUS
<1>1. CASE ForwardTake
  <2>1. ProcessesOK' /\ ReconcilePending'
    BY <1>1 DEF ForwardTake, ViewInv, ProcessesOK, ReconcilePending, uiVars
  <2>2. QED
    BY <1>1, <2>1, ViewIsLeftAlone DEF ForwardTake
<1>2. CASE ForwardStop
  <2>1. ProcessesOK' /\ ReconcilePending'
    BY <1>2 DEF ForwardStop, ViewInv, ProcessesOK, ReconcilePending, uiVars
  <2>2. QED
    BY <1>2, <2>1, ViewIsLeftAlone DEF ForwardStop
<1>3. CASE UNCHANGED viewVars
  <2>1. /\ UNCHANGED bufVars /\ UNCHANGED uiVars
        /\ UNCHANGED <<pipeline, pump, sig, forwarder, keys, exited>>
    BY <1>3 DEF viewVars
  <2>2. ProcessesOK' /\ ReconcilePending'
    BY <2>1 DEF ViewInv, ProcessesOK, ReconcilePending, bufVars, uiVars
  <2>3. QED
    BY <2>1, <2>2, ViewIsLeftAlone
<1>4. QED
  BY <1>1, <1>2, <1>3, PumpStep, EventLoopStep DEF ViewNext

\* The invariant holds in every behaviour.
LEMMA ViewInvariant == ViewSpec => []ViewInv
BY ViewInvInit, ViewInvStep, PTL DEF ViewSpec

\* Whatever the lines, keys and reloads, the view and what it is made of have
\* their types.
THEOREM ViewTypeCorrect == ViewSpec => []ViewTypeOK
<1>1. ViewInv => ViewTypeOK
  <2> SUFFICES ASSUME ViewInv PROVE ViewTypeOK
    OBVIOUS
  <2>1. DOMAIN cache \subseteq Nat
    BY DEF ViewInv, ShownOK, IsCache
  <2>2. QED
    BY <2>1 DEF ViewInv, IInv, ProcessesOK, ShownOK, Item, ViewTypeOK
<1>2. QED
  BY <1>1, ViewInvariant, PTL

\* Push and the forwarder may drop any number of signals and never leave the
\* view behind the ring with nothing on its way (app.go:223-226).
THEOREM NoChangeIsForgotten == ViewSpec => []ReconcilePending
<1>1. ViewInv => ReconcilePending
  BY DEF ViewInv
<1>2. QED
  BY <1>1, ViewInvariant, PTL

\* For a ring and a window of any size, the view lists records in order and
\* once, above the Clear floor, in no more rows than it may keep
\* (reconcile.go:75-98).
THEOREM ViewIsInOrder == ViewSpec => []ViewInOrder
<1>1. ViewInv => ViewInOrder
  BY DEF ViewInv, ShownOK
<1>2. QED
  BY <1>1, ViewInvariant, PTL

\* A view that has seen the latest change is the one that would be built
\* without a display cache, for every pipeline and any interleaving of lines,
\* toggles, clears and reloads.
THEOREM ViewIsNeverStale == ViewSpec => []ViewIsFresh
<1>1. ViewInv => ViewIsFresh
  BY DEF ViewInv, Current, ViewIsFresh
<1>2. QED
  BY <1>1, ViewInvariant, PTL

=============================================================================
