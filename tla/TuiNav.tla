------------------------------- MODULE TuiNav -------------------------------
(***************************************************************************)
(* Moving around in the terminal UI: scrolling, tailing, searching,        *)
(* filtering, folding, jumping from block to block, selecting and copying  *)
(* (internal/tui/viewport.go, viewanchor.go, search.go, blocks.go,         *)
(* focusbar.go, visual.go, copyref.go, copytext.go and the keys of         *)
(* update.go), while lines arrive, are re-rendered and leave the window.   *)
(*                                                                         *)
(* The event loop handles a message or a key to its end, so each is one    *)
(* step.  TuiView is about what gets into the window; here every change of *)
(* the ring is reconciled at once.  Records are numbered from 1 as they    *)
(* arrive (their Seq is one less), and rows from 1 where the code counts   *)
(* from 0, so that its -1 is 0 here.  Overlays are closed, and with word   *)
(* wrap off a row is one terminal row.                                     *)
(***************************************************************************)
EXTENDS Integers, FiniteSets, Sequences, FiniteSetsExt

CONSTANTS
  Kinds,          \* source lines
  Groups,
  GroupOf,        \* the group of a source line
  RowsOf,         \* its rows, with the renderer off and on
  StartOff,       \* groups the configuration starts disabled
  Scrollback,     \* display rows the view keeps
  ContentHeight,  \* rows of the screen
  MaxLines,       \* bound on the lines that arrive
  MaxToggles      \* bound on what changes all rows: toggles, clears, reloads

Rows == [cont : BOOLEAN,  \* indented or part of rendered JSON/XML
         sig  : BOOLEAN,  \* continues a block though it is not indented
         exc  : BOOLEAN,  \* marks an exception
         hit  : BOOLEAN]  \* the search term matches

ASSUME NavAssumption ==
  /\ GroupOf \in [Kinds -> Groups]
  /\ RowsOf \in [BOOLEAN -> [Kinds -> Seq(Rows) \ {<<>>}]]
  /\ StartOff \subseteq Groups
  /\ {Scrollback, ContentHeight} \subseteq Nat \ {0}

\* A longer record leaves the window as soon as it has entered it, and the
\* ones before it with it (reconcile.go:95).
ASSUME FitsAssumption ==
  \A on \in BOOLEAN, kind \in Kinds : Len(RowsOf[on][kind]) <= Scrollback

VARIABLES
  ring,           \* the lines so far
  rendered,       \* the renderer is on
  clearedSeq,     \* the Clear floor
  lines,          \* m.lines: the rows of the window
  groupOff,       \* groups that are disabled
  collapseMultiline,
  tailMode,
  streamTopA,     \* anchor of the first visible row
  blockFocused,
  searching,      \* a term is committed: m.matcher is not nil
  searchHitA,     \* anchor of the current hit
  filterMode,
  wrapPrompt,     \* "", or the direction that the prompt is about
  visualMode,
  visualCursorA, visualAnchorA,
  toggles         \* toggles so far

feed == <<ring, rendered, clearedSeq, lines>>
shows == <<groupOff, collapseMultiline>>
viewport == <<tailMode, streamTopA>>
search == <<searching, searchHitA, filterMode, wrapPrompt>>
visual == <<visualMode, visualCursorA, visualAnchorA>>
vars == <<feed, shows, viewport, blockFocused, search, visual, toggles>>

-----------------------------------------------------------------------------
(* The window and its rows.                                                 *)

\* The rows of a record, each with the record it is of and its offset in it.
Record(all, on, id) ==
  [off \in 1 .. Len(RowsOf[on][all[id]]) |->
     [id |-> id, off |-> off, group |-> GroupOf[all[id]], row |-> RowsOf[on][all[id]][off]]]

\* The rows of the first n records, for every n.
Stream(all, on) ==
  LET rows[n \in 0 .. Len(all)] == IF n = 0 THEN <<>> ELSE rows[n - 1] \o Record(all, on, n)
  IN rows

\* Of the last Scrollback records above the Clear floor (0 is none), those that
\* are dropped at the head until the rows of the rest fit.
Dropped(all, on, floor) ==
  LET rows  == Stream(all, on)
      above == Max({IF floor > 0 THEN floor + 1 ELSE 0, Len(all) - Scrollback})
  IN Min({k \in above .. Len(all) : Len(rows[Len(all)]) - Len(rows[k]) <= Scrollback})

LinesOf(all, on, floor) ==
  LET rows == Stream(all, on)
  IN SubSeq(rows[Len(all)], Len(rows[Dropped(all, on, floor)]) + 1, Len(rows[Len(all)]))

Window == {lines[i].id : i \in DOMAIN lines}

\* reconcile: rebuild the window; evictions take the focus away.
Reconcile ==
  /\ lines' = LinesOf(ring', rendered', clearedSeq')
  /\ blockFocused' = (blockFocused /\ Window \subseteq Window')

Enabled(line) == line.group \notin groupOff /\ ~ (collapseMultiline /\ line.row.cont)

EnabledRows == {i \in DOMAIN lines : Enabled(lines[i])}

\* filteredIndices: the rows, folded ones too, of every record with a match.
FilteredRows ==
  {i \in DOMAIN lines :
     /\ lines[i].group \notin groupOff
     /\ \E j \in DOMAIN lines : lines[j].id = lines[i].id /\ lines[j].row.hit}

\* Of a set of rows: the n-th, the first n and the last n.
Nth(S, n) == CHOOSE i \in S : Cardinality({j \in S : j <= i}) = n
FirstN(S, n) == {i \in S : Cardinality({j \in S : j < i}) < n}
LastN(S, n) == {i \in S : Cardinality({j \in S : j > i}) < n}

-----------------------------------------------------------------------------
(* Anchors.                                                                 *)

NoAnchor == [id |-> 0, off |-> 0]

\* rowForAnchor: 0 if the record has left the window.
RowForAnchor(a) ==
  LET own == {i \in DOMAIN lines : lines[i].id = a.id}
  IN IF own = {} THEN 0 ELSE Min({Min(own) + a.off - 1, Max(own)})

\* anchorForRow, and the set...Row methods that store it: beyond the end is the last row.
AnchorForRow(i) ==
  IF i < 1 \/ lines = <<>> THEN NoAnchor
  ELSE LET line == lines[Min({i, Len(lines)})] IN [id |-> line.id, off |-> line.off]

OrFirst(i) == IF i = 0 THEN 1 ELSE i

StreamTopRow == OrFirst(RowForAnchor(streamTopA))
SearchHitRow == RowForAnchor(searchHitA)
VisualCursorRow == OrFirst(RowForAnchor(visualCursorA))
VisualAnchorRow == RowForAnchor(visualAnchorA)

-----------------------------------------------------------------------------
(* The viewport.                                                            *)

\* collectVisible with the given top row, tailing or not.
VisibleFrom(top, tailing) ==
  IF filterMode THEN
    LET below == {i \in FilteredRows : i >= top}
    IN IF below = {} THEN LastN(FilteredRows, 1) ELSE FirstN(below, ContentHeight)
  ELSE IF tailing THEN LastN(EnabledRows, ContentHeight)
  ELSE FirstN({i \in EnabledRows : i >= top}, ContentHeight)

Visible == VisibleFrom(StreamTopRow, tailMode)

\* Mutant of UnstickRow: counts rows that are hidden.
UnstickRowHidden == Max({1, Len(lines) - ContentHeight + 1})

\* unstickFromTail: the first of the last ContentHeight enabled rows.
UnstickRow ==
  IF Cardinality(EnabledRows) < ContentHeight THEN 1
  ELSE Min(LastN(EnabledRows, ContentHeight))

\* The top row once the view no longer follows the tail.
BrowseTop == IF tailMode THEN UnstickRow ELSE StreamTopRow

\* stepEnabled.
StepUp(i, n) ==
  LET above == {j \in EnabledRows : j < i}
  IN IF Cardinality(above) >= n THEN Min(LastN(above, n)) ELSE 1
StepDown(i, n) ==
  LET below == {j \in EnabledRows : j > i}
  IN IF Cardinality(below) >= n THEN Nth(below, n) ELSE Max({i, Len(lines)})

\* scrollBy, up and down; maybeReStick follows the tail again when what is
\* below the new top fits the screen.
ScrollUp(n) ==
  /\ tailMode' = FALSE
  /\ streamTopA' = AnchorForRow(StepUp(BrowseTop, n))
ScrollDown(n) ==
  IF tailMode THEN UNCHANGED viewport
  ELSE LET top == StepDown(StreamTopRow, n)
       IN /\ streamTopA' = AnchorForRow(top)
          /\ tailMode' = (Cardinality({i \in EnabledRows : i >= top}) <= ContentHeight)

-----------------------------------------------------------------------------
(* Search.                                                                  *)

\* findHit: the nearest match that is not hidden, from start on, up or down;
\* a start out of range is moved to the end that it is beyond.
FindDown(start) ==
  LET hits == {i \in EnabledRows : lines[i].row.hit /\ i >= Min({start, Len(lines)})}
  IN IF hits = {} THEN 0 ELSE Min(hits)
FindUp(start) ==
  LET hits == {i \in EnabledRows : lines[i].row.hit /\ i <= Max({start, 1})}
  IN IF hits = {} THEN 0 ELSE Max(hits)

\* jumpToHit: the hit in the middle of the screen; of the filtered rows when
\* these are what is shown.
CentredTop(hit) ==
  IF filterMode
  THEN Nth(FilteredRows,
           Max({1, Cardinality({i \in FilteredRows : i <= hit}) - ContentHeight \div 2}))
  ELSE Max({1, hit - ContentHeight \div 2})

JumpToHit(hit) ==
  /\ searchHitA' = AnchorForRow(hit)
  /\ tailMode' = FALSE
  /\ streamTopA' = AnchorForRow(CentredTop(hit))

Stay == UNCHANGED <<searchHitA, viewport>>

\* searchNext and searchPrev: jump, or ask whether to wrap around.
SearchNext ==
  LET hit == FindDown(IF SearchHitRow > 0 THEN SearchHitRow + 1 ELSE StreamTopRow)
  IN IF ~ searching \/ lines = <<>> THEN Stay /\ UNCHANGED wrapPrompt
     ELSE IF hit > 0 THEN JumpToHit(hit) /\ UNCHANGED wrapPrompt
     ELSE wrapPrompt' = "next" /\ Stay
SearchPrev ==
  LET from == IF SearchHitRow > 0 THEN SearchHitRow - 1 ELSE StreamTopRow
      hit  == IF from < 1 THEN 0 ELSE FindUp(from)
  IN IF ~ searching \/ lines = <<>> THEN Stay /\ UNCHANGED wrapPrompt
     ELSE IF hit > 0 THEN JumpToHit(hit) /\ UNCHANGED wrapPrompt
     ELSE wrapPrompt' = "prev" /\ Stay

\* Mutant of ClearSearch: the filter stays on without a term.
ClearSearchOnly ==
  /\ searching' = FALSE
  /\ searchHitA' = NoAnchor
  /\ wrapPrompt' = ""
  /\ UNCHANGED filterMode

ClearSearch ==
  /\ searching' = FALSE
  /\ searchHitA' = NoAnchor
  /\ wrapPrompt' = ""
  /\ filterMode' = FALSE

-----------------------------------------------------------------------------
(* Blocks.                                                                  *)

\* blocks.Segment: a row that continues nothing starts a block.
BlockStarts == {i \in DOMAIN lines : i = 1 \/ ~ (lines[i].row.cont \/ lines[i].row.sig)}
BlockEnd(start) == Min({i \in start .. Len(lines) : i + 1 \notin start + 1 .. Len(lines)
                                                    \/ i + 1 \in BlockStarts})

\* isNavTarget and blockHeadEnabled.
Targets(marked) ==
  {i \in BlockStarts \intersect EnabledRows :
     IF marked THEN \E j \in i .. BlockEnd(i) : lines[j].row.exc
               ELSE BlockEnd(i) > i}

\* focusedBlockRange: the rows of the block at the top, when it is focused.
FocusedRows ==
  IF ~ blockFocused \/ tailMode \/ lines = <<>> THEN {}
  ELSE LET start == Max({i \in BlockStarts : i <= StreamTopRow})
       IN IF BlockEnd(start) > start THEN start .. BlockEnd(start) ELSE {}

\* jumpToBlockHead.
JumpToBlock(start) ==
  /\ tailMode' = FALSE
  /\ streamTopA' = AnchorForRow(start)
  /\ blockFocused' = TRUE

-----------------------------------------------------------------------------
(* What y and Y copy, in visual mode and outside it.                        *)

IdOfRow(i) == lines[i].id

\* selectionBounds.
Selection ==
  IF VisualAnchorRow > 0
  THEN Min({VisualAnchorRow, VisualCursorRow}) .. Max({VisualAnchorRow, VisualCursorRow})
  ELSE {VisualCursorRow}

Ends(S) == IF S = {} THEN <<>> ELSE <<IdOfRow(Min(S)), IdOfRow(Max(S))>>

\* Mutant of Reference: the hit does not come first.
ReferenceWithoutHit == Ends(IF FocusedRows # {} THEN FocusedRows ELSE Visible)

\* buildReference: the first and the last record.
Reference ==
  IF searching /\ SearchHitRow > 0 THEN <<IdOfRow(SearchHitRow), IdOfRow(SearchHitRow)>>
  ELSE Ends(IF FocusedRows # {} THEN FocusedRows ELSE Visible)

\* selectedRows.
SelectedRows ==
  IF searching /\ SearchHitRow > 0
  THEN {i \in DOMAIN lines : lines[i].id = IdOfRow(SearchHitRow)}
  ELSE IF FocusedRows # {} THEN FocusedRows ELSE Visible

-----------------------------------------------------------------------------
(* Lines arrive and are rendered anew.                                      *)

\* Mutant of Push: the top stays at the row with the same number.
PushKeepsIndex(kind) ==
  /\ Len(ring) < MaxLines
  /\ ring' = Append(ring, kind)
  /\ UNCHANGED <<rendered, clearedSeq>>
  /\ Reconcile
  /\ streamTopA' = LET line == lines'[Min({StreamTopRow, Len(lines')})]
                    IN [id |-> line.id, off |-> line.off]
  /\ UNCHANGED <<shows, tailMode, search, visual, toggles>>

Push(kind) ==
  /\ Len(ring) < MaxLines
  /\ ring' = Append(ring, kind)
  /\ UNCHANGED <<rendered, clearedSeq>>
  /\ Reconcile
  /\ UNCHANGED <<shows, viewport, search, visual, toggles>>

Toggle ==
  /\ toggles < MaxToggles
  /\ toggles' = toggles + 1

\* applyReload: groups and renderers are as the configuration starts them.
Reload ==
  /\ Toggle
  /\ groupOff' = StartOff
  /\ rendered' = TRUE
  /\ UNCHANGED <<ring, clearedSeq>>
  /\ Reconcile
  /\ UNCHANGED <<collapseMultiline, viewport, search, visual>>

-----------------------------------------------------------------------------
(* Keys.  Visual mode comes first, then the wrap prompt.                    *)

Key == ~ visualMode /\ wrapPrompt = ""

ToggleRenderer ==
  /\ Key /\ Toggle
  /\ rendered' = ~ rendered
  /\ UNCHANGED <<ring, clearedSeq>>
  /\ Reconcile
  /\ UNCHANGED <<shows, viewport, search, visual>>

ToggleGroup(group) ==
  /\ Key /\ Toggle
  /\ groupOff' = IF group \in groupOff THEN groupOff \ {group} ELSE groupOff \union {group}
  /\ UNCHANGED <<feed, collapseMultiline, viewport, blockFocused, search, visual>>

CollapseAll ==
  /\ Key /\ Toggle
  /\ collapseMultiline' = ~ collapseMultiline
  /\ UNCHANGED <<feed, groupOff, viewport, blockFocused, search, visual>>

\* Mutant of Clear: a key of its own, also in visual mode.
ClearAnywhere ==
  /\ Toggle
  /\ clearedSeq' = IF ring = <<>> THEN clearedSeq ELSE Len(ring) - 1
  /\ streamTopA' = NoAnchor
  /\ tailMode' = TRUE
  /\ searchHitA' = NoAnchor
  /\ filterMode' = FALSE
  /\ UNCHANGED <<ring, rendered>>
  /\ lines' = LinesOf(ring, rendered, clearedSeq')
  /\ UNCHANGED <<shows, blockFocused, searching, wrapPrompt, visual>>

\* ActionClear.  Nothing counts as dropped, so a focus stays.
Clear ==
  /\ Key /\ Toggle
  /\ clearedSeq' = IF ring = <<>> THEN clearedSeq ELSE Len(ring) - 1
  /\ streamTopA' = NoAnchor
  /\ tailMode' = TRUE
  /\ searchHitA' = NoAnchor
  /\ filterMode' = FALSE
  /\ UNCHANGED <<ring, rendered>>
  /\ lines' = LinesOf(ring, rendered, clearedSeq')
  /\ UNCHANGED <<shows, blockFocused, searching, wrapPrompt, visual>>

\* Every scrolling key takes the focus away.
Scrolling ==
  /\ Key
  /\ blockFocused' = FALSE
  /\ UNCHANGED <<feed, shows, searching, filterMode, visual, toggles>>

\* While there are search results, up and down go through them.
LineUp ==
  /\ Scrolling
  /\ IF searching THEN SearchPrev ELSE ScrollUp(1) /\ UNCHANGED <<searchHitA, wrapPrompt>>

LineDown ==
  /\ Scrolling
  /\ IF searching THEN SearchNext ELSE ScrollDown(1) /\ UNCHANGED <<searchHitA, wrapPrompt>>

PageUp == Scrolling /\ ScrollUp(ContentHeight) /\ UNCHANGED <<searchHitA, wrapPrompt>>

PageDown == Scrolling /\ ScrollDown(ContentHeight) /\ UNCHANGED <<searchHitA, wrapPrompt>>

Top ==
  /\ Scrolling
  /\ tailMode' = FALSE
  /\ streamTopA' = AnchorForRow(1)
  /\ UNCHANGED <<searchHitA, wrapPrompt>>

Bottom ==
  /\ Scrolling
  /\ tailMode' = TRUE
  /\ UNCHANGED <<streamTopA, searchHitA, wrapPrompt>>

\* commitSearch, typing the term included; from the end up while tailing.
CommitSearch ==
  /\ Key
  /\ searching' = TRUE
  /\ LET first == IF tailMode THEN FindUp(Len(lines)) ELSE FindDown(StreamTopRow)
         other == IF tailMode THEN FindDown(1) ELSE FindUp(StreamTopRow - 1)
         hit   == IF first > 0 THEN first ELSE other
     IN IF hit > 0 THEN JumpToHit(hit) ELSE Stay
  /\ UNCHANGED <<feed, shows, blockFocused, filterMode, wrapPrompt, visual, toggles>>

NextMatch ==
  /\ Key
  /\ SearchNext
  /\ UNCHANGED <<feed, shows, blockFocused, searching, filterMode, visual, toggles>>

PrevMatch ==
  /\ Key
  /\ SearchPrev
  /\ UNCHANGED <<feed, shows, blockFocused, searching, filterMode, visual, toggles>>

\* handleWrapPromptKey: yes wraps around, any other key only dismisses.
AnswerPrompt(yes) ==
  /\ ~ visualMode /\ wrapPrompt # ""
  /\ wrapPrompt' = ""
  /\ LET hit == IF wrapPrompt = "next" THEN FindDown(1) ELSE FindUp(Len(lines))
     IN IF yes /\ searching /\ hit > 0 THEN JumpToHit(hit) ELSE Stay
  /\ UNCHANGED <<feed, shows, blockFocused, searching, filterMode, visual, toggles>>

Filter ==
  /\ Key /\ searching
  /\ filterMode' = ~ filterMode
  /\ tailMode' = (tailMode /\ filterMode)
  /\ UNCHANGED <<feed, shows, streamTopA, blockFocused, searching, searchHitA,
                 wrapPrompt, visual, toggles>>

\* ActionCloseOverlay.
Esc ==
  /\ Key
  /\ blockFocused' = FALSE
  /\ IF searching THEN ClearSearch ELSE UNCHANGED search
  /\ UNCHANGED <<feed, shows, viewport, visual, toggles>>

\* gotoNextBlock and gotoPrevBlock; the anchor of the tail is below all rows.
NextBlock(marked) ==
  /\ Key /\ ~ tailMode
  /\ LET next == {i \in Targets(marked) : i > StreamTopRow}
     IN next # {} /\ JumpToBlock(Min(next))
  /\ UNCHANGED <<feed, shows, search, visual, toggles>>

PrevBlock(marked) ==
  /\ Key
  /\ LET prev == {i \in Targets(marked) : tailMode \/ i < StreamTopRow}
     IN prev # {} /\ JumpToBlock(Max(prev))
  /\ UNCHANGED <<feed, shows, search, visual, toggles>>

-----------------------------------------------------------------------------
(* Visual mode.                                                             *)

EnterVisual ==
  /\ Key /\ lines # <<>>
  /\ visualMode' = TRUE
  /\ tailMode' = FALSE
  /\ streamTopA' = IF tailMode THEN AnchorForRow(UnstickRow) ELSE streamTopA
  /\ visualAnchorA' = NoAnchor
  /\ LET seen == VisibleFrom(BrowseTop, FALSE)
     IN visualCursorA' = AnchorForRow(IF seen # {} THEN Min(seen) ELSE BrowseTop)
  /\ UNCHANGED <<feed, shows, blockFocused, search, toggles>>

\* Mutant of EnsureVisible: the cursor ends up one row below the screen.
EnsureVisibleShort(row) ==
  streamTopA' = IF row < StreamTopRow THEN AnchorForRow(row)
                ELSE IF row >= StreamTopRow + ContentHeight
                     THEN AnchorForRow(row - ContentHeight)
                     ELSE streamTopA

\* ensureVisualVisible.
EnsureVisible(row) ==
  streamTopA' = IF row < StreamTopRow THEN AnchorForRow(row)
                ELSE IF row >= StreamTopRow + ContentHeight
                     THEN AnchorForRow(row - ContentHeight + 1)
                     ELSE streamTopA

\* moveVisualCursor.
MoveCursor(delta) ==
  /\ visualMode
  /\ LET row == Max({1, Min({VisualCursorRow + delta, Len(lines)})})
     IN visualCursorA' = AnchorForRow(row) /\ EnsureVisible(row)
  /\ UNCHANGED <<feed, shows, tailMode, blockFocused, search, visualMode,
                 visualAnchorA, toggles>>

SetAnchor ==
  /\ visualMode
  /\ visualAnchorA' = AnchorForRow(VisualCursorRow)
  /\ UNCHANGED <<feed, shows, viewport, blockFocused, search, visualMode,
                 visualCursorA, toggles>>

\* exitVisual, after esc or after the selection was copied or saved.  The
\* cursor is not read again before enterVisual sets it.
ExitVisual ==
  /\ visualMode
  /\ visualMode' = FALSE
  /\ visualAnchorA' = NoAnchor
  /\ visualCursorA' = NoAnchor
  /\ UNCHANGED <<feed, shows, viewport, blockFocused, search, toggles>>

-----------------------------------------------------------------------------
Init ==
  /\ ring = <<>>
  /\ rendered = TRUE
  /\ clearedSeq = 0
  /\ lines = <<>>
  /\ groupOff = StartOff
  /\ collapseMultiline = FALSE
  /\ tailMode = TRUE
  /\ streamTopA = NoAnchor
  /\ blockFocused = FALSE
  /\ searching = FALSE
  /\ searchHitA = NoAnchor
  /\ filterMode = FALSE
  /\ wrapPrompt = ""
  /\ visualMode = FALSE
  /\ visualCursorA = NoAnchor
  /\ visualAnchorA = NoAnchor
  /\ toggles = 0

Arrivals == (\E kind \in Kinds : Push(kind)) \/ Reload

Toggles == ToggleRenderer \/ (\E group \in Groups : ToggleGroup(group)) \/ CollapseAll \/ Clear

Scrolls == LineUp \/ LineDown \/ PageUp \/ PageDown \/ Top \/ Bottom

Searches ==
  \/ CommitSearch \/ NextMatch \/ PrevMatch \/ Filter \/ Esc
  \/ \E yes \in BOOLEAN : AnswerPrompt(yes)

Blocks == \E marked \in BOOLEAN : NextBlock(marked) \/ PrevBlock(marked)

VisualKeys == EnterVisual \/ SetAnchor \/ ExitVisual \/ \E delta \in {-1, 1} : MoveCursor(delta)

Next == Arrivals \/ Toggles \/ Scrolls \/ Searches \/ Blocks \/ VisualKeys

Spec == Init /\ [][Next]_vars

-----------------------------------------------------------------------------
Anchors == [id : 0 .. Len(ring), off : Nat]

TypeOK ==
  /\ ring \in Seq(Kinds)
  /\ clearedSeq \in Nat
  /\ {rendered, collapseMultiline, tailMode, blockFocused, searching, filterMode, visualMode}
       \subseteq BOOLEAN
  /\ groupOff \subseteq Groups
  /\ {streamTopA, searchHitA, visualCursorA, visualAnchorA} \subseteq Anchors
  /\ wrapPrompt \in {"", "next", "prev"}
  /\ filterMode \/ wrapPrompt # "" => searching
  /\ lines = LinesOf(ring, rendered, clearedSeq)

\* The rows on the screen, whatever their numbers are.
Screen == {[id |-> lines[i].id, off |-> lines[i].off] : i \in Visible}

\* viewanchor.go:3-9: while the user browses, lines that arrive at the end, and
\* leave at the head, move nothing on the screen unless its first record goes.
BrowsingIsStill ==
  [][ \A kind \in Kinds :
        Push(kind) /\ ~ tailMode /\ ~ filterMode /\ RowForAnchor(streamTopA)' > 0 =>
          IF Cardinality(Screen) = ContentHeight THEN Screen' = Screen
          ELSE Screen \subseteq Screen' ]_vars

\* viewport.go:109-111, leaving tail mode keeps "exactly the same lines" on the
\* screen, whatever groups are off and rows folded (unless the filter is on).
UnstickKeepsScreen ==
  [][ EnterVisual /\ ~ filterMode => Screen' = Screen ]_vars

\* A key that moves to a row shows it.  A search that lands on another hit
\* leaves it on the screen, not hidden by a group toggle or a fold; and the
\* cursor of visual mode stays on the screen as it moves (visual.go:86), unless
\* its row is hidden or the filter shows other rows than it walks over.
MovesShowTarget ==
  [][ /\ searchHitA' # searchHitA /\ RowForAnchor(searchHitA)' > 0 =>
           LET hit == RowForAnchor(searchHitA)
           IN (hit \in Visible \intersect EnabledRows /\ lines[hit].row.hit)'
      /\ \A delta \in {-1, 1} :
           MoveCursor(delta) /\ ~ filterMode =>
             (VisualCursorRow \in Visible \/ VisualCursorRow \notin EnabledRows)' ]_vars

\* copytext.go:35-36: what Y copies mirrors "buildReference's precedence
\* EXACTLY": its rows begin and end with the records that y names.
CopyAgrees == Ends(SelectedRows) = Reference

\* visual.go:106-108 and save.go:50-51: in visual mode there are rows, and the
\* selection is within them, through evictions and re-renderings.
SelectionInRange == visualMode => Selection \subseteq DOMAIN lines

\* search.go:78-79, "If no hit exists between cursor+1 and end, sets
\* wrapPrompt='n'".  False: a search from the last row starts at it again.
NextOrPrompt ==
  [][ NextMatch /\ SearchHitRow > 0
      /\ ~ (\E i \in EnabledRows : i > SearchHitRow /\ lines[i].row.hit)
      => wrapPrompt' = "next" ]_vars

\* focusbar.go:14-15 and 41-42, the focused block is the one "set by block
\* navigation".  False: a search moves the top row and with it the focus.
FocusIsNavigated ==
  [][ FocusedRows # {} /\ (FocusedRows # {})' /\ feed' = feed
      /\ Ends(FocusedRows)' # Ends(FocusedRows)
      => \E marked \in BOOLEAN : NextBlock(marked) \/ PrevBlock(marked) ]_vars
=============================================================================
