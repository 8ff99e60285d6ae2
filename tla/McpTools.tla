------------------------------ MODULE McpTools ------------------------------
(***************************************************************************)
(* The MCP tool handlers (internal/mcp/tools.go) reading the shared ring   *)
(* through the accessors of internal/linebuf, while the pump appends, a    *)
(* reload re-renders and the TUI publishes its viewport.                   *)
(*                                                                         *)
(* Each accessor runs under the ring's lock and returns pointers; the      *)
(* handler turns them into the reply (toDTO) after the lock is released.   *)
(* get_viewport takes two locks one after the other.  `req' is one handler *)
(* in progress: handlers only read the ring, so one stands for them all.   *)
(***************************************************************************)
EXTENDS LineBuf

CONSTANTS
  DefaultContext, MaxContext,  \* get_context: 5 and 200 in the code
  DefaultLimit, MaxLimit,      \* get_scrollback: 200 and 2000; search: 50, 500
  Inputs                       \* integers a client sends as counts

ASSUME ToolAssumption ==
  /\ {DefaultContext, MaxContext, DefaultLimit, MaxLimit} \subseteq Nat \ {0}
  /\ Inputs \subseteq Int

VARIABLES
  viewport,  \* range last published by the TUI, under its own lock
  req

mcpVars == <<vars, viewport, req>>

\* No row on screen: SetViewport("", ""), an ID that is never issued.
NoId == -1

Idle == [pc |-> "idle"]

-----------------------------------------------------------------------------
(* The accessors: sequences of pointers, oldest first unless said so.       *)

Larger(a, b) == IF a > b THEN a ELSE b
Smaller(a, b) == IF a < b THEN a ELSE b

\* The objects whose sequence number is one of the two or between them.
Between(a, b) == {p \in DOMAIN heap : heap[p].seq \in Smaller(a, b) .. Larger(a, b)}

\* Mutant of BufRange: both IDs must be in the ring.
BufRangeBothResident(from, to) ==
  IF ~ ({from, to} \subseteq DOMAIN byID)
  THEN <<>>
  ELSE Filter(entries, Between(from, to))

\* An ID the index does not know leaves its side of the span open.
BufRange(from, to) ==
  LET lo == IF from \in DOMAIN byID THEN from ELSE 0
      hi == IF to \in DOMAIN byID THEN to ELSE seq
  IN IF {from, to} \intersect DOMAIN byID = {}
     THEN <<>>
     ELSE Filter(entries, Between(lo, hi))

Context(id, before, after) ==
  LET at == {i \in 1 .. Len(entries) : At(i).seq = id}
  IN IF at = {}
     THEN <<>>
     ELSE LET i == CHOOSE i \in at : TRUE
          IN SubSeq(entries, Larger(1, i - Larger(0, before)),
                             Smaller(Len(entries), i + Larger(0, after)))

Recent(limit, offset) ==
  LET end == Smaller(Len(entries), Len(entries) - offset)
  IN SubSeq(entries, Larger(0, end - limit) + 1, end)

\* Newest first: the scan stops at the limit.
Matches == {p \in DOMAIN heap : heap[p].rows \in Marked}
Search(limit) ==
  LET newest == [i \in 1 .. Len(entries) |-> entries[Len(entries) + 1 - i]]
      hits   == Filter(newest, Matches)
  IN SubSeq(hits, 1, Smaller(Len(hits), limit))

-----------------------------------------------------------------------------
(* The tools.  A tool that finds nothing replies at once: there is nothing  *)
(* to convert and no state to keep.                                         *)

\* Mutant of Hold: sequence numbers taken for pointers.
HoldSeqs(tool, ptrs, from, to) ==
  IF ptrs = <<>>
  THEN Idle
  ELSE [pc |-> "held", tool |-> tool, from |-> from, to |-> to,
        ptrs  |-> [i \in 1 .. Len(ptrs) |-> heap[ptrs[i]].seq],
        given |-> [i \in 1 .. Len(ptrs) |-> heap[ptrs[i]]]]

Hold(tool, ptrs, from, to) ==
  IF ptrs = <<>>
  THEN Idle
  ELSE [pc |-> "held", tool |-> tool, from |-> from, to |-> to, ptrs |-> ptrs,
        given |-> [i \in 1 .. Len(ptrs) |-> heap[ptrs[i]]]]

Call(tool, ptrs) ==
  /\ req.pc = "idle"
  /\ req' = Hold(tool, ptrs, NoId, NoId)
  /\ UNCHANGED <<vars, viewport>>

IdsAskedFor == 0 .. seq   \* every ID issued so far, and one that was not

GetLine == \E id \in DOMAIN byID : Call("get_line", <<byID[id]>>)

GetRange == \E from, to \in IdsAskedFor : Call("get_range", BufRange(from, to))

ContextArgs(before, after) ==
  IF before = 0 /\ after = 0
  THEN <<DefaultContext, DefaultContext>>
  ELSE <<Smaller(before, MaxContext), Smaller(after, MaxContext)>>

GetContext ==
  \E id \in IdsAskedFor, before, after \in Inputs :
    LET args == ContextArgs(before, after)
    IN Call("get_context", Context(id, args[1], args[2]))

ScrollbackLimit(limit) ==
  IF limit <= 0 THEN DefaultLimit ELSE Smaller(limit, MaxLimit)

GetScrollback ==
  \E limit, offset \in Inputs :
    Call("get_scrollback", Recent(ScrollbackLimit(limit), offset))

\* The hits carry the text itself, read under the lock.
SearchTool ==
  \E limit \in Inputs :
    LET hits == Search(ScrollbackLimit(limit))
    IN /\ req.pc = "idle"
       /\ hits # <<>>
       /\ req' = [pc |-> "hits", seqs |-> [i \in 1 .. Len(hits) |-> heap[hits[i]].seq]]
       /\ UNCHANGED <<vars, viewport>>

ListExceptions ==
  /\ req.pc = "idle"
  /\ EnsureBlocks
  /\ UNCHANGED <<viewport, req>>

\* get_viewport, first lock: the published range, if a TUI ever published.
GetViewport ==
  /\ req.pc = "idle"
  /\ viewport.attached
  /\ req' = [pc |-> "window", from |-> viewport.from, to |-> viewport.to]
  /\ UNCHANGED <<vars, viewport>>

\* Mutant of GetViewportRange: the published range is read again.
GetViewportRangeAgain ==
  /\ req.pc = "window"
  /\ req' = Hold("get_viewport", BufRange(viewport.from, viewport.to), req.from, req.to)
  /\ UNCHANGED <<vars, viewport>>

\* get_viewport, second lock.
GetViewportRange ==
  /\ req.pc = "window"
  /\ req' = Hold("get_viewport", BufRange(req.from, req.to), req.from, req.to)
  /\ UNCHANGED <<vars, viewport>>

\* toDTO over the pointers, and the reply.
Reply ==
  /\ req.pc \in {"held", "hits"}
  /\ req' = Idle
  /\ UNCHANGED <<vars, viewport>>

-----------------------------------------------------------------------------
\* SetViewport: the TUI publishes the first and last entry on screen, or
\* nothing.  Its window is a past snapshot of the ring, so either ID may have
\* been evicted since; they were issued, and are in order.
SetViewport(from, to) ==
  /\ viewport' = [from |-> from, to |-> to, attached |-> TRUE]
  /\ UNCHANGED <<vars, req>>

PublishViewport ==
  \/ SetViewport(NoId, NoId)
  \/ \E from \in 0 .. seq - 1 : \E to \in from .. seq - 1 : SetViewport(from, to)

McpInit ==
  /\ Init
  /\ viewport = [from |-> NoId, to |-> NoId, attached |-> FALSE]
  /\ req = Idle

McpNext ==
  \/ GetLine \/ GetRange \/ GetContext \/ GetScrollback
  \/ SearchTool \/ ListExceptions
  \/ GetViewport \/ GetViewportRange
  \/ Reply
  \/ PublishViewport
  \/ (DoAppend \/ DoRerender) /\ UNCHANGED <<viewport, req>>

McpSpec == McpInit /\ [][McpNext]_mcpVars

-----------------------------------------------------------------------------
McpTypeOK ==
  /\ TypeOK
  /\ viewport \in [from : Nat \union {NoId}, to : Nat \union {NoId},
                   attached : BOOLEAN]
  /\ req.pc \in {"idle", "window", "held", "hits"}
  /\ req.pc = "held" => \A i \in DOMAIN req.ptrs : req.ptrs[i] \in DOMAIN heap

\* A handler that converts its pointers after the lock is released, however
\* many appends, evictions and re-renders later, replies with the records as
\* they were when it looked them up.
ReplyCoherent ==
  req.pc = "held" =>
    \A i \in DOMAIN req.ptrs : heap[req.ptrs[i]] = req.given[i]

\* The sequence numbers of a result, in the order it lists them.
SeqsOf(ptrs) == [i \in 1 .. Len(ptrs) |-> heap[ptrs[i]].seq]
ResidentBetween(a, b) == {s \in DOMAIN byID : a <= s /\ s <= b}
Ascending(s) == \A i \in 1 .. Len(s) - 1 : s[i] < s[i + 1]
ListsExactly(ptrs, S) ==
  /\ {heap[ptrs[i]].seq : i \in 1 .. Len(ptrs)} = S
  /\ Ascending(SeqsOf(ptrs))

\* get_range on two IDs in order returns exactly the records between them
\* that are still in the ring, whichever of the two has been evicted.
RangeIsResidentSpan ==
  \A a \in 0 .. seq - 1 : \A b \in a .. seq - 1 :
    ListsExactly(BufRange(a, b), ResidentBetween(a, b))

\* linebuf.go:175-177: "tolerant of argument order.  If one ID was evicted,
\* the resident sub-span is returned".  So the same two IDs, the newer one
\* first, name the same records.
RangeToleratesOrder ==
  \A a \in 0 .. seq - 1 : \A b \in a .. seq - 1 : BufRange(b, a) = BufRange(a, b)

\* get_context returns the records whose distance from the one asked for is
\* within the counts, clipped at both ends of the ring.
ContextIsNeighbourhood ==
  \A id \in DOMAIN byID, before, after \in Inputs :
    ListsExactly(Context(id, before, after),
                 ResidentBetween(id - Larger(0, before), id + Larger(0, after)))

\* Pages of get_scrollback taken one after another on a quiet buffer tile it:
\* none is skipped or repeated at a page boundary.
PagesTile ==
  \A limit \in 1 .. Cap + 1, offset \in 0 .. Cap + 1 :
    Recent(limit, offset + limit) \o Recent(limit, offset)
      = Recent(2 * limit, offset)

\* A search reply lists the newest matches: newest first, and no match that
\* was left out is newer than one that was listed.
SearchNewestFirst ==
  \A limit \in 1 .. Cap :
    LET hits == SeqsOf(Search(limit))
        all  == {At(i).seq : i \in {j \in 1 .. Len(entries) : entries[j] \in Matches}}
        got  == {hits[i] : i \in 1 .. Len(hits)}
    IN /\ \A i \in 1 .. Len(hits) - 1 : hits[i] > hits[i + 1]
       /\ got \subseteq all
       /\ \A s \in all \ got : Len(hits) = limit /\ \A t \in got : s < t

\* Range, Context, Search and Recent return exactly what they promise at every fill of
\* the ring, evictions and counts out of range included.
AccessorsExact ==
  req = Idle =>
    RangeIsResidentSpan /\ ContextIsNeighbourhood /\ SearchNewestFirst /\ PagesTile

\* get_viewport lists only records that were on the screen it reports, even
\* when the ring moved on between its two locks.
ViewportReplyOnScreen ==
  req.pc = "held" /\ req.tool = "get_viewport" =>
    \A i \in DOMAIN req.given : req.given[i].seq \in req.from .. req.to
=============================================================================
