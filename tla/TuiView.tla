------------------------------ MODULE TuiView ------------------------------
(***************************************************************************)
(* The terminal UI as a mirror of the shared ring: the pump's half         *)
(* (main.go runWatchTUI), the coalescing signal and its forwarder          *)
(* (internal/tui/app.go), and the model's reconcile, re-render, clear and  *)
(* reload (internal/tui/reconcile.go, update.go, view.go).                 *)
(*                                                                         *)
(* Every message and key is handled to its end by the event loop, so each  *)
(* handler is one step; the pump and the forwarder act between them.  The  *)
(* pipeline is what the pump and the UI share besides the ring: the        *)
(* version of the configuration that is loaded, and whether its renderer   *)
(* is enabled.  Outcome says what it makes of each source line.            *)
(***************************************************************************)
EXTENDS LineBuf

CONSTANTS
  Marker,      \* the source line of a catch-up marker, which is empty
  MarkerRow,   \* what a marker is rendered as when it is appended
  Outcome,     \* pipeline.Render: of a version, renderer on or off, on a line
  Height,      \* display rows of each rendering
  Scrollback,  \* display rows the view keeps
  MaxReloads,  \* bound on config reloads
  MaxKeys      \* bound on toggle and clear keys and catch-up markers

Versions == 0 .. MaxReloads

ASSUME ViewAssumption ==
  /\ Marker \in Raws /\ MarkerRow \in Renderings
  /\ Outcome \in [Versions \X BOOLEAN -> [Raws -> Renderings \union {NotOk}]]
  /\ Height \in [Renderings -> Nat \ {0}]
  /\ Scrollback \in Nat \ {0}
  /\ MaxReloads \in Nat /\ MaxKeys \in Nat

VARIABLES
  pipeline,  \* pipePtr: [version, on]
  pump,      \* the pump goroutine
  sig,       \* App.sig holds its one signal
  forwarder, \* the forwarder goroutine: waiting for a signal, or sending
  shown,     \* m.window and m.lines: [id, rows] of every entry in the view
  cache,     \* m.displayCache: rendering of an ID
  cleared,   \* m.clearedSeq
  lastGen,   \* m.lastGen
  mirror,    \* m.rendererEnabled: what the renderers panel shows
  keys,      \* keys and markers so far
  exited     \* the program has ended

bufVars == <<heap, entries, byID, seq, gen, blocks, dirty>>
uiVars == <<shown, cache, cleared, lastGen, mirror>>
viewVars == <<bufVars, pipeline, pump, sig, forwarder, uiVars, keys, exited>>

Rendered(p) == Outcome[<<p.version, p.on>>]
Selecting == [pc |-> "select"]

-----------------------------------------------------------------------------
(* reconcile.                                                               *)

Rows(s) ==
  LET total[i \in 0 .. Len(s)] == IF i = 0 THEN 0 ELSE total[i - 1] + Height[s[i].rows]
  IN total[Len(s)]

\* Mutant of Fit: nothing is dropped.
FitAll(s) == s

\* Drop whole entries from the head until the rest fits the window.
Fit(s) ==
  LET start == CHOOSE k \in 0 .. Len(s) :
                 /\ Rows(SubSeq(s, k + 1, Len(s))) <= Scrollback
                 /\ \A j \in 0 .. k - 1 : Rows(SubSeq(s, j + 1, Len(s))) > Scrollback
  IN SubSeq(s, start + 1, Len(s))

\* The view over a ring, given the cached renderings and the Clear floor.
View(obj, ring, known, floor) ==
  LET snap  == SubSeq(ring, IF Len(ring) > Scrollback
                            THEN Len(ring) - Scrollback + 1 ELSE 1, Len(ring))
      above == Filter(snap, {p \in DOMAIN obj : ~ (floor > 0 /\ obj[p].seq <= floor)})
      rowsOf(p) == IF obj[p].seq \in DOMAIN known THEN known[obj[p].seq] ELSE obj[p].rows
  IN Fit([i \in 1 .. Len(above) |-> [id |-> obj[above[i]].seq, rows |-> rowsOf(above[i])]])

\* Rebuild the view; the cache keeps exactly what is in it.
Rebuild(known, floor) ==
  LET view == View(heap', entries', known, floor)
  IN /\ shown' = view
     /\ cache' = [id \in {view[i].id : i \in 1 .. Len(view)} |->
                    (CHOOSE e \in {view[i] : i \in 1 .. Len(view)} : e.id = id).rows]
     /\ lastGen' = gen'

Reconcile ==
  /\ UNCHANGED bufVars
  /\ IF gen = lastGen
     THEN UNCHANGED <<shown, cache, lastGen>>
     ELSE Rebuild(cache, cleared)

\* Mutant of ReRenderAll: the cached renderings survive.
ReRenderAllCached(p) ==
  /\ Rerender(Rendered(p))
  /\ Rebuild(cache, cleared)

\* reRenderAll: re-render the ring, drop the cache, reconcile.
ReRenderAll(p) ==
  /\ Rerender(Rendered(p))
  /\ Rebuild(<<>>, cleared)

-----------------------------------------------------------------------------
(* The pump.                                                                *)

\* A line arrives and is rendered; a line the pipeline drops ends there.
PumpRender ==
  /\ pump = Selecting
  /\ seq < MaxSeq
  /\ \E raw \in Raws \ {Marker} :
       /\ Rendered(pipeline)[raw] # NotOk
       /\ pump' = [pc |-> "append", raw |-> raw, rows |-> Rendered(pipeline)[raw]]
  /\ UNCHANGED <<bufVars, pipeline, sig, forwarder, uiVars, keys, exited>>

PumpAppend ==
  /\ pump.pc = "append"
  /\ BufAppend(pump.raw, pump.rows)
  /\ pump' = [pc |-> "push"]
  /\ UNCHANGED <<pipeline, sig, forwarder, uiVars, keys, exited>>

\* Push: mark a reconcile as pending, unless the program has ended.
PumpPush ==
  /\ pump.pc = "push"
  /\ sig' = (sig \/ ~ exited)
  /\ pump' = Selecting
  /\ UNCHANGED <<bufVars, pipeline, forwarder, uiVars, keys, exited>>

\* A reload swaps the pipeline (renderers on, as configured), re-renders the
\* ring, reads the panel state and sends ReloadMsg.
PumpSwap ==
  /\ pump = Selecting
  /\ pipeline.version < MaxReloads
  /\ pipeline' = [version |-> pipeline.version + 1, on |-> TRUE]
  /\ pump' = [pc |-> "rerender"]
  /\ UNCHANGED <<bufVars, sig, forwarder, uiVars, keys, exited>>

PumpRerender ==
  /\ pump.pc = "rerender"
  /\ Rerender(Rendered(pipeline))
  /\ pump' = [pc |-> "panel"]
  /\ UNCHANGED <<pipeline, sig, forwarder, uiVars, keys, exited>>

\* Mutant of PumpPanel: no ReloadMsg when the panel would not change.
PumpPanelIfChanged ==
  /\ pump.pc = "panel"
  /\ pump' = IF pipeline.on = mirror THEN Selecting ELSE [pc |-> "reload", on |-> pipeline.on]
  /\ UNCHANGED <<bufVars, pipeline, sig, forwarder, uiVars, keys, exited>>

PumpPanel ==
  /\ pump.pc = "panel"
  /\ pump' = [pc |-> "reload", on |-> pipeline.on]
  /\ UNCHANGED <<bufVars, pipeline, sig, forwarder, uiVars, keys, exited>>

PumpReloadDone ==   \* Reload, or a Send, after the program has ended
  /\ pump.pc = "reload"
  /\ exited
  /\ pump' = Selecting
  /\ UNCHANGED <<bufVars, pipeline, sig, forwarder, uiVars, keys, exited>>

Pump ==
  \/ PumpRender \/ PumpAppend \/ PumpPush
  \/ PumpSwap \/ PumpRerender \/ PumpPanel \/ PumpReloadDone

-----------------------------------------------------------------------------
(* The forwarder.                                                           *)

ForwardTake ==
  /\ forwarder = "wait"
  /\ sig
  /\ sig' = FALSE
  /\ forwarder' = "send"
  /\ UNCHANGED <<bufVars, pipeline, pump, uiVars, keys, exited>>

\* close(a.stop) ends it; a Send after the program has ended does nothing.
ForwardStop ==
  /\ exited
  /\ forwarder' = "stopped"
  /\ UNCHANGED <<bufVars, pipeline, pump, sig, uiVars, keys, exited>>

-----------------------------------------------------------------------------
(* The event loop.                                                          *)

UiReconcile ==
  /\ ~ exited
  /\ forwarder = "send"
  /\ forwarder' = "wait"
  /\ Reconcile
  /\ UNCHANGED <<pipeline, pump, sig, cleared, mirror, keys, exited>>

\* ReloadMsg: applyReload.
UiReload ==
  /\ ~ exited
  /\ pump.pc = "reload"
  /\ mirror' = pump.on
  /\ ReRenderAll(pipeline)
  /\ pump' = Selecting
  /\ UNCHANGED <<pipeline, sig, forwarder, cleared, keys, exited>>

Key ==
  /\ ~ exited
  /\ keys < MaxKeys
  /\ keys' = keys + 1
  /\ UNCHANGED <<pump, sig, forwarder, exited>>

\* toggleRenderer.
UiToggle ==
  /\ Key
  /\ mirror' = ~ mirror
  /\ pipeline' = [pipeline EXCEPT !.on = ~ mirror]
  /\ ReRenderAll(pipeline')
  /\ UNCHANGED cleared

\* Mutant of UiClear: the floor is one below the latest entry.
UiClearBelow ==
  /\ Key
  /\ UNCHANGED <<bufVars, pipeline, mirror>>
  /\ cleared' = IF entries = <<>> THEN cleared ELSE At(Len(entries)).seq - 1
  /\ Rebuild(<<>>, cleared')

\* ActionClear: raise the floor to the latest entry.
UiClear ==
  /\ Key
  /\ UNCHANGED <<bufVars, pipeline, mirror>>
  /\ cleared' = IF entries = <<>> THEN cleared ELSE At(Len(entries)).seq
  /\ Rebuild(<<>>, cleared')

\* applyCatchUp: the marker is appended, and reconciled, on the event loop.
UiMarker ==
  /\ Key
  /\ BufAppend(Marker, MarkerRow)
  /\ Rebuild(cache, cleared)
  /\ UNCHANGED <<pipeline, cleared, mirror>>

UiQuit ==
  /\ ~ exited
  /\ exited' = TRUE
  /\ UNCHANGED <<bufVars, pipeline, pump, sig, forwarder, uiVars, keys>>

EventLoop == UiReconcile \/ UiReload \/ UiToggle \/ UiClear \/ UiMarker \/ UiQuit

-----------------------------------------------------------------------------
ViewInit ==
  /\ Init
  /\ pipeline = [version |-> 0, on |-> TRUE]
  /\ pump = Selecting
  /\ sig = FALSE
  /\ forwarder = "wait"
  /\ shown = <<>>
  /\ cache = <<>>
  /\ cleared = 0
  /\ lastGen = 0
  /\ mirror = TRUE
  /\ keys = 0
  /\ exited = FALSE

ViewNext == Pump \/ ForwardTake \/ ForwardStop \/ EventLoop

\* Goroutines run when they can, and a sender that waits for the event loop is
\* served.  Lines, reloads and keys come as they please.
ViewFairness ==
  /\ WF_viewVars(PumpAppend \/ PumpPush)
  /\ WF_viewVars(PumpRerender \/ PumpPanel \/ PumpReloadDone)
  /\ WF_viewVars(ForwardTake)
  /\ WF_viewVars(UiReconcile)
  /\ WF_viewVars(UiReload)

ViewSpec == ViewInit /\ [][ViewNext]_viewVars /\ ViewFairness

-----------------------------------------------------------------------------
ViewTypeOK ==
  /\ TypeOK
  /\ pipeline \in [version : Versions, on : BOOLEAN]
  /\ pump.pc \in {"select", "append", "push", "rerender", "panel", "reload"}
  /\ sig \in BOOLEAN
  /\ forwarder \in {"wait", "send", "stopped"}
  /\ shown \in Seq([id : Nat, rows : Renderings])
  /\ DOMAIN cache \subseteq Nat
  /\ {cleared, lastGen, keys} \subseteq Nat
  /\ {mirror, exited} \subseteq BOOLEAN

\* Coalescing loses nothing (app.go:223-226): while the view has not seen the
\* latest change of the ring, a reconcile or a reload is on its way.
ReconcilePending ==
  lastGen # gen =>
    \/ sig \/ forwarder = "send"
    \/ pump.pc \in {"push", "panel", "reload"}
    \/ exited

\* No record stays hidden behind the coalescing, the display cache or a reload
\* that overlaps with keys: the view ends up being what a view built afresh
\* from the ring, above the Clear floor, would be.
ViewConverges ==
  <>[](exited \/ shown = View(heap, entries, <<>>, cleared))

\* What ViewConverges comes down to at any moment: a view that has seen the
\* latest change of the ring is what a view built afresh would be, unless a
\* reload has re-rendered the ring and its message has not been handled; so no
\* rendering survives in the display cache that the ring has not got any more.
ViewIsFresh ==
  lastGen = gen /\ pump.pc \notin {"panel", "reload"} /\ ~ exited =>
    shown = View(heap, entries, <<>>, cleared)

\* The view never lists a record twice or out of order, and never one from
\* below the Clear floor, whatever was evicted under it.
ViewInOrder ==
  /\ \A i \in 1 .. Len(shown) - 1 : shown[i].id < shown[i + 1].id
  /\ cleared > 0 => \A i \in 1 .. Len(shown) : shown[i].id > cleared
  /\ Rows(shown) <= Scrollback

\* reconcile.go:162-163, "Re-render the shared buffer under the current
\* pipeline so linebuf.Entry Lines reflect the new rendering": with nothing in
\* flight, every line of the ring is rendered as the pipeline renders it.
RingIsCurrent ==
  pump = Selecting =>
    \A i \in 1 .. Len(entries) :
      At(i).raw # Marker => At(i).rows = Rendered(pipeline)[At(i).raw]

\* lag.go, applyCatchUp: the marker "is scrollback-visible, copyable, and
\* searchable like any other line": while it is in the ring, its text is.
MarkerReadable ==
  \A i \in 1 .. Len(entries) : At(i).raw = Marker => At(i).rows = MarkerRow

\* view.go:134-135, a toggle flips the renderer "both in the pipeline (via the
\* wired-up callback) and in the TUI's mirror cache": with nothing in flight
\* the panel shows the state the pipeline is in.
MirrorAgrees == pump = Selecting => mirror = pipeline.on
=============================================================================
