------------------------------- MODULE LineBuf -------------------------------
(***************************************************************************)
(* The shared record ring of internal/linebuf/linebuf.go: the one store    *)
(* that the pump writes, the TUI mirrors and the MCP server reads.         *)
(*                                                                         *)
(* An entry's ID is "L" followed by its sequence number in base 36, which  *)
(* is injective, so an ID is modelled by the sequence number.  Entries are *)
(* heap objects: the ring and the index hold pointers into `heap', because *)
(* accessors hand pointers out and drop the lock before the caller reads   *)
(* through them.  Raw stands for the immutable Group, File, Ts and Raw of  *)
(* an entry.  Its decomposed Lines are a member of Renderings, of which    *)
(* the buffer can tell two things: whether the first row continues the     *)
(* block above it, and whether some row carries an exception marker.       *)
(***************************************************************************)
EXTENDS Integers, Sequences

CONSTANTS
  Cap,          \* most entries the ring keeps (New replaces cap <= 0 by 10000)
  Raws,         \* source lines
  Renderings,   \* decompositions a line can have
  ContFirst,    \* the renderings whose first row continues the block above
  Marked,       \* the renderings with an exception marker on some row
  NotOk,        \* renderFn's ok = false
  MaxSeq,       \* bound on the number of appends
  MaxRerenders  \* bound on the number of re-renders

ASSUME CapAssumption == Cap \in Nat \ {0}
ASSUME RenderingAssumption ==
  /\ ContFirst \subseteq Renderings
  /\ Marked \subseteq Renderings
  /\ NotOk \notin Renderings
ASSUME BoundAssumption == MaxSeq \in Nat /\ MaxRerenders \in Nat

VARIABLES
  heap,      \* every Entry ever allocated; a pointer is an index into it
  entries,   \* the ring: pointers, oldest first
  byID,      \* ID -> pointer
  seq,       \* next sequence number
  gen,       \* change counter polled by the TUI
  blocks,    \* cached segmentation
  dirty      \* the cache is out of date

ringVars == <<heap, entries, byID, seq, gen>>
vars == <<heap, entries, byID, seq, gen, blocks, dirty>>

Entry == [seq : Nat, raw : Raws, rows : Renderings]

\* What the entry at position i of the ring contains.
At(i) == heap[entries[i]]

\* The pointers of a sequence that are in K, in their order: what the loops
\* over the ring that append the entries they look for return.  (A SelectSeq
\* whose test is a set.)
Filter(ptrs, K) ==
  LET kept[i \in 0 .. Len(ptrs)] ==
        IF i = 0 THEN <<>>
        ELSE IF ptrs[i] \in K THEN Append(kept[i - 1], ptrs[i]) ELSE kept[i - 1]
  IN kept[Len(ptrs)]

Block == [head : Nat, end : Nat, exc : BOOLEAN]

(***************************************************************************)
(* Segmentation, at the granularity of entries.  Rows after an entry's     *)
(* first are continuations, so blocks break only between entries: at the   *)
(* oldest resident entry, and wherever the first row is not a continuation *)
(***************************************************************************)
Heads == {i \in 1 .. Len(entries) : i = 1 \/ At(i).rows \notin ContFirst}

\* The last position of the block headed at h: just before the next head.
EndOf(h) ==
  CHOOSE e \in h .. Len(entries) :
    /\ \A j \in h + 1 .. e : j \notin Heads
    /\ e = Len(entries) \/ e + 1 \in Heads

Segment ==
  { [head |-> At(h).seq,
     end  |-> At(EndOf(h)).seq,
     exc  |-> \E j \in h .. EndOf(h) : At(j).rows \in Marked] : h \in Heads }

-----------------------------------------------------------------------------
Init ==
  /\ heap = <<>>
  /\ entries = <<>>
  /\ byID = [id \in {} |-> 0]
  /\ seq = 0
  /\ gen = 0
  /\ blocks = {}
  /\ dirty = FALSE

\* Mutant of BufAppend: nothing is ever evicted.
BufAppendUnbounded(raw, rows) ==
  /\ seq < MaxSeq
  /\ heap' = Append(heap, [seq |-> seq, raw |-> raw, rows |-> rows])
  /\ entries' = Append(entries, Len(heap'))
  /\ byID' = [id \in DOMAIN byID \union {seq} |->
                IF id = seq THEN Len(heap') ELSE byID[id]]
  /\ seq' = seq + 1 /\ gen' = gen + 1 /\ dirty' = TRUE
  /\ UNCHANGED blocks

\* Append: assign the next ID, store, evict the oldest when over cap.
BufAppend(raw, rows) ==
  /\ seq < MaxSeq
  /\ LET p      == Len(heap) + 1
         grown  == Append(entries, p)
         over   == Len(grown) > Cap
         ids    == DOMAIN byID \union {seq}
         keep   == IF over THEN ids \ {At(1).seq} ELSE ids
     IN /\ heap' = Append(heap, [seq |-> seq, raw |-> raw, rows |-> rows])
        /\ entries' = IF over THEN Tail(grown) ELSE grown
        /\ byID' = [id \in keep |-> IF id = seq THEN p ELSE byID[id]]
  /\ seq' = seq + 1
  /\ gen' = gen + 1
  /\ dirty' = TRUE
  /\ UNCHANGED blocks

\* Rerender: a NEW object for every entry the render function accepts; the
\* entries it rejects stay as they are.  (An unused slot is allocated for
\* those, so that position i of the ring always gets slot Len(heap) + i.)
Fresh(render, i) ==
  IF render[At(i).raw] = NotOk
  THEN At(i)
  ELSE [At(i) EXCEPT !.rows = render[At(i).raw]]

Moved(render, i) ==
  IF render[At(i).raw] = NotOk THEN entries[i] ELSE Len(heap) + i

\* Mutants of Rerender: it writes to the objects the ring holds, ...
RerenderInPlace(render) ==
  /\ heap' = [p \in DOMAIN heap |->
                IF \E i \in DOMAIN entries : entries[i] = p
                THEN Fresh(render, CHOOSE i \in DOMAIN entries : entries[i] = p)
                ELSE heap[p]]
  /\ gen' = gen + 1
  /\ dirty' = TRUE
  /\ UNCHANGED <<entries, byID, seq, blocks>>

\* ... or leaves the cache as it was.
RerenderKeepsCache(render) ==
  /\ heap' = heap \o [i \in 1 .. Len(entries) |-> Fresh(render, i)]
  /\ entries' = [i \in 1 .. Len(entries) |-> Moved(render, i)]
  /\ byID' = [id \in DOMAIN byID |->
                Moved(render, CHOOSE i \in 1 .. Len(entries) : At(i).seq = id)]
  /\ gen' = gen + 1
  /\ UNCHANGED <<seq, blocks, dirty>>

Rerender(render) ==
  /\ heap' = heap \o [i \in 1 .. Len(entries) |-> Fresh(render, i)]
  /\ entries' = [i \in 1 .. Len(entries) |-> Moved(render, i)]
  /\ byID' = [id \in DOMAIN byID |->
                Moved(render, CHOOSE i \in 1 .. Len(entries) : At(i).seq = id)]
  /\ gen' = gen + 1
  /\ dirty' = TRUE
  /\ UNCHANGED <<seq, blocks>>

\* ensureBlocks, the write-locked refresh that Exceptions and BlockOf start
\* with.
EnsureBlocks ==
  /\ blocks' = IF dirty THEN Segment ELSE blocks
  /\ dirty' = FALSE
  /\ UNCHANGED ringVars

\* gen - seq is the number of re-renders so far.
DoRerender ==
  /\ gen - seq < MaxRerenders
  /\ \E render \in [Raws -> Renderings \union {NotOk}] : Rerender(render)

DoAppend == \E raw \in Raws, rows \in Renderings : BufAppend(raw, rows)

Next == DoAppend \/ DoRerender \/ EnsureBlocks

Spec == Init /\ [][Next]_vars

-----------------------------------------------------------------------------
TypeOK ==
  /\ heap \in Seq(Entry)
  /\ entries \in Seq(1 .. Len(heap))
  /\ seq \in Nat
  /\ gen \in Nat
  /\ DOMAIN byID \subseteq Nat
  /\ \A id \in DOMAIN byID : byID[id] \in 1 .. Len(heap)
  /\ blocks \subseteq Block
  /\ dirty \in BOOLEAN

\* The ring holds the last min(seq, Cap) records appended, consecutive and
\* oldest first: eviction takes exactly the oldest, never a record in the
\* middle, and a re-render neither drops nor reorders one.  Every position
\* arithmetic of Range, Context and Recent depends on it.
RingContiguous ==
  /\ Len(entries) = (IF seq < Cap THEN seq ELSE Cap)
  /\ \A i \in 1 .. Len(entries) : At(i).seq = seq - Len(entries) + i - 1

\* The ID index and the ring agree: an ID resolves exactly while its record
\* is in the ring, and to the very object the ring holds, so that Get cannot
\* return a record Range no longer lists, or one from before a re-render.
IndexAgrees ==
  /\ DOMAIN byID = {At(i).seq : i \in 1 .. Len(entries)}
  /\ \A i \in 1 .. Len(entries) : byID[At(i).seq] = entries[i]

\* Copy-on-write: no step writes to an object that has been handed out, so a
\* caller that holds a pointer past the lock reads what it was given.
HandedOutIsImmutable ==
  [][\A p \in DOMAIN heap : p \in DOMAIN heap' /\ heap'[p] = heap[p]]_vars

\* An ID means the same source line for ever: it is never given to another
\* record, and once evicted it never comes back (a re-render keeps ID, group,
\* file and raw).
IdentityStable ==
  [][/\ \A id \in DOMAIN byID \intersect DOMAIN byID' :
           heap'[byID'[id]].raw = heap[byID[id]].raw
     /\ \A id \in 0 .. seq - 1 : id \in DOMAIN byID' => id \in DOMAIN byID]_vars

\* The TUI skips a reconcile when the generation is unchanged, so any step
\* that changes what a reader can see must move it.
GenSeesEveryChange == [][UNCHANGED gen => UNCHANGED <<entries, byID>>]_vars

\* A clean cache is the segmentation of the ring as it is now, and every
\* resident record is in exactly one of its blocks: an append, an eviction
\* (which can make a continuation the head of its block) and a re-render all
\* invalidate it.
BlocksCurrent ==
  ~ dirty =>
    /\ blocks = Segment
    /\ \A i \in 1 .. Len(entries) :
         \E b \in blocks :
           /\ At(i).seq \in b.head .. b.end
           /\ \A c \in blocks \ {b} : At(i).seq \notin c.head .. c.end
    /\ \A b \in blocks : {b.head, b.end} \subseteq DOMAIN byID
=============================================================================
