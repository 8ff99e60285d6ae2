-------------------------- MODULE WatchPumpProofs --------------------------
(***************************************************************************)
(* WatchPump implements Delivery: for any number of files, lines, reloads  *)
(* and any channel capacity, the tailers, the channel, the pump and the    *)
(* watchers that follow one another are a queue of the lines of each file. *)
(*                                                                         *)
(* The invariant says where the lines are.  Those on their way from one    *)
(* watcher are in order and behind what its tailers have read (Flow); what *)
(* has been delivered is before whatever is on its way from the watcher    *)
(* that counts for the file, which changes hands when a rebuild adds the   *)
(* file or finds that it is not there (Front); and only the next watcher   *)
(* can be under construction, only old ones, or the last after the user    *)
(* quit, are closed (Hands).                                               *)
(***************************************************************************)
EXTENDS WatchPump, TLAPS

(* Sequences of lines, as sets and as orders.                               *)

\* Lines of one file are in order in s.
Sorted(s) ==
  \A i, j \in 1 .. Len(s) : i < j /\ s[i].file = s[j].file => s[i].n < s[j].n

\* All of S is before all of T, file by file.
Before(S, T) == \A x \in S, y \in T : x.file = y.file => x.n < y.n

\* The elements after an element is appended.
LEMMA ElemsAppend ==
  ASSUME NEW S, NEW s \in Seq(S), NEW x \in S
  PROVE  Append(s, x) \in Seq(S) /\ Elems(Append(s, x)) = Elems(s) \union {x}
<1>1. Append(s, x) \in Seq(S) /\ Len(Append(s, x)) = Len(s) + 1
  OBVIOUS
<1>2. \A i \in 1 .. Len(s) : Append(s, x)[i] = s[i]
  OBVIOUS
<1>3. Append(s, x)[Len(s) + 1] = x
  OBVIOUS
<1>4. 1 .. Len(s) + 1 = (1 .. Len(s)) \union {Len(s) + 1}
  OBVIOUS
<1>5. QED
  BY <1>1, <1>2, <1>3, <1>4 DEF Elems

\* The elements before and after the first one is taken.
LEMMA ElemsTail ==
  ASSUME NEW S, NEW s \in Seq(S), s # <<>>
  PROVE  /\ Head(s) \in S
         /\ Tail(s) \in Seq(S)
         /\ Elems(s) = Elems(Tail(s)) \union {Head(s)}
<1>1. Len(s) \in Nat /\ Len(s) >= 1 /\ Head(s) = s[1]
  OBVIOUS
<1>2. Tail(s) \in Seq(S) /\ Len(Tail(s)) = Len(s) - 1
  OBVIOUS
<1>3. \A i \in 1 .. Len(s) - 1 : Tail(s)[i] = s[i + 1]
  OBVIOUS
<1>4. Elems(s) \subseteq Elems(Tail(s)) \union {Head(s)}
  <2> SUFFICES ASSUME NEW i \in 1 .. Len(s) PROVE s[i] \in Elems(Tail(s)) \union {Head(s)}
    BY DEF Elems
  <2>1. CASE i = 1
    BY <2>1, <1>1
  <2>2. CASE i # 1
    <3>1. i - 1 \in 1 .. Len(Tail(s)) /\ Tail(s)[i - 1] = s[i]
      BY <2>2, <1>1, <1>2, <1>3
    <3>2. QED
      BY <3>1 DEF Elems
  <2>3. QED
    BY <2>1, <2>2
<1>5. Elems(Tail(s)) \subseteq Elems(s) /\ Head(s) \in Elems(s)
  BY <1>1, <1>2, <1>3 DEF Elems
<1>6. QED
  BY <1>1, <1>2, <1>4, <1>5

\* The empty sequence is in order and has no elements.
LEMMA EmptySorted == Sorted(<<>>) /\ Elems(<<>>) = {}
BY DEF Sorted, Elems

\* A line after all the others leaves a sequence in order.
LEMMA SortedAppend ==
  ASSUME NEW s \in Seq(Line), NEW x \in Line, Sorted(s), Before(Elems(s), {x})
  PROVE  Sorted(Append(s, x))
<1>1. Len(Append(s, x)) = Len(s) + 1 /\ Append(s, x)[Len(s) + 1] = x
  OBVIOUS
<1>2. \A i \in 1 .. Len(s) : Append(s, x)[i] = s[i] /\ s[i] \in Elems(s)
  BY DEF Elems
<1>3. SUFFICES ASSUME NEW i \in 1 .. Len(s) + 1, NEW j \in 1 .. Len(s) + 1, i < j,
                      Append(s, x)[i].file = Append(s, x)[j].file
               PROVE  Append(s, x)[i].n < Append(s, x)[j].n
  BY <1>1 DEF Sorted
<1>4. i \in 1 .. Len(s)
  BY <1>3
<1>5. CASE j = Len(s) + 1
  BY <1>1, <1>2, <1>3, <1>4, <1>5 DEF Before
<1>6. CASE j # Len(s) + 1
  BY <1>2, <1>3, <1>4, <1>6 DEF Sorted
<1>7. QED
  BY <1>5, <1>6

\* The first of a sequence in order is before the rest, which is in order.
LEMMA SortedTail ==
  ASSUME NEW s \in Seq(Line), s # <<>>, Sorted(s)
  PROVE  Sorted(Tail(s)) /\ Before({Head(s)}, Elems(Tail(s)))
<1>1. /\ Len(s) \in Nat /\ Len(s) >= 1 /\ Head(s) = s[1]
      /\ Tail(s) \in Seq(Line) /\ Len(Tail(s)) = Len(s) - 1
      /\ \A i \in 1 .. Len(s) - 1 : Tail(s)[i] = s[i + 1]
  OBVIOUS
<1>2. Sorted(Tail(s))
  BY <1>1 DEF Sorted
<1>3. Before({Head(s)}, Elems(Tail(s)))
  BY <1>1 DEF Sorted, Before, Elems
<1>4. QED
  BY <1>2, <1>3

-----------------------------------------------------------------------------
(* Type correctness.                                                        *)

\* Lines are in the file, and the lines a tick returns are lines of the file.
LEMMA UnreadTypes ==
  ASSUME TypeOK, NEW w \in Watchers, NEW f \in Files
  PROVE  /\ Unread(w, f) \in Seq(Line)
         /\ Sorted(Unread(w, f))
         /\ Elems(Unread(w, f)) =
              {l \in Line : l.file = f /\ l.n \in Pos(w, f) + 1 .. written[f]}
<1> DEFINE r == Pos(w, f)
           u == written[f]
<1>1. r \in Nat /\ u \in 0 .. MaxLines /\ MaxLines \in Nat
  <2>1. read[w][f] \in NotAdded .. scenario.lines /\ scenario.lines \in 0 .. MaxLines
        /\ MaxLines \in Nat /\ written[f] \in 0 .. scenario.lines
    BY PumpAssumption DEF TypeOK
  <2>2. QED
    BY <2>1 DEF Pos, NotAdded
<1>2. Unread(w, f) = [i \in 1 .. u - r |-> [file |-> f, n |-> r + i]]
  BY DEF Unread
<1> HIDE DEF r, u
<1>3. CASE u - r \in Nat
  <2>1. \A i \in 1 .. u - r : [file |-> f, n |-> r + i] \in Line
    BY <1>1 DEF Line
  <2>2. Unread(w, f) \in Seq(Line) /\ Len(Unread(w, f)) = u - r
    BY <1>2, <1>3, <2>1
  <2> DEFINE Q == Unread(w, f)
  <2>a. \A i \in 1 .. u - r : Q[i].file = f /\ Q[i].n = r + i
    BY <1>2
  <2> HIDE DEF Q
  <2>3. Sorted(Q)
    BY <1>1, <2>2, <2>a DEF Q, Sorted
  <2>4. Elems(Q) \subseteq {l \in Line : l.file = f /\ l.n \in r + 1 .. u}
    <3> SUFFICES ASSUME NEW i \in 1 .. u - r
                 PROVE  Q[i] \in Line /\ Q[i].file = f /\ Q[i].n \in r + 1 .. u
      BY <2>2 DEF Elems, Q
    <3>1. Q[i] \in Line
      BY <1>2, <2>1 DEF Q
    <3>2. QED
      BY <1>1, <2>a, <3>1
  <2>5. ASSUME NEW l \in Line, l.file = f, l.n \in r + 1 .. u
        PROVE  l \in Elems(Unread(w, f))
    <3>1. l.n - r \in 1 .. u - r
      BY <1>1, <2>5
    <3>2. Unread(w, f)[l.n - r] = [file |-> f, n |-> l.n]
      BY <1>1, <1>2, <2>5, <3>1
    <3>3. l = [file |-> f, n |-> l.n]
      BY <2>5 DEF Line
    <3>4. QED
      BY <2>2, <3>1, <3>2, <3>3 DEF Elems
  <2>6. QED
    BY <2>2, <2>3, <2>4, <2>5 DEF r, u, Q
<1>4. CASE u - r \notin Nat
  <2>1. 1 .. u - r = {} /\ (r + 1 .. u) = {}
    BY <1>1, <1>4
  <2>2. Unread(w, f) = <<>>
    BY <1>2, <2>1
  <2>3. QED
    BY <2>1, <2>2, EmptySorted DEF r, u
<1>5. QED
  BY <1>3, <1>4

LoopType == [pc : {"none", "select", "poll", "send", "ended"},
             locked : BOOLEAN, todo : SUBSET Files, queue : Seq(Line)]
Ended == [NoLoop EXCEPT !.pc = "ended"]

\* The loops that are not in the middle of something.
LEMMA IdleLoops ==
  /\ NoLoop \in LoopType /\ Selecting \in LoopType /\ Ended \in LoopType
  /\ NoLoop.pc = "none" /\ Selecting.pc = "select" /\ Ended.pc = "ended"
  /\ \A x \in {NoLoop, Selecting, Ended} :
       x.queue = <<>> /\ x.todo = {} /\ ~ x.locked
<1>1. <<>> \in Seq(Line) /\ {} \in SUBSET Files
  OBVIOUS
<1>2. NoLoop \in LoopType /\ NoLoop.pc = "none" /\ NoLoop.queue = <<>> /\ NoLoop.todo = {}
      /\ ~ NoLoop.locked
  BY <1>1 DEF LoopType, NoLoop
<1>3. /\ Selecting \in LoopType /\ Selecting.pc = "select" /\ Selecting.queue = <<>>
      /\ Selecting.todo = {} /\ ~ Selecting.locked
  BY <1>2 DEF LoopType, Selecting
<1>4. /\ Ended \in LoopType /\ Ended.pc = "ended" /\ Ended.queue = <<>>
      /\ Ended.todo = {} /\ ~ Ended.locked
  BY <1>2 DEF LoopType, Ended
<1>5. QED
  BY <1>2, <1>3, <1>4

\* The initial state is well typed.
LEMMA PumpInitTypes == Init => TypeOK
<1> SUFFICES ASSUME Init PROVE TypeOK
  OBVIOUS
<1>1. MaxLines \in Nat /\ MaxReloads \in Nat /\ EventCap \in Nat /\ scenario \in Scenarios
      /\ scenario.lines \in 0 .. MaxLines
  BY PumpAssumption DEF Init
<1>2. loop \in [Watchers -> LoopType]
  BY IdleLoops DEF Init
<1>3. /\ read \in [Watchers -> [Files -> NotAdded .. scenario.lines]]
      /\ told \in [Watchers -> SUBSET Files]
  BY <1>1 DEF Init, NotAdded
<1>4. events \in [Watchers -> Seq(Line)] /\ \A w \in Watchers : Len(events[w]) <= EventCap
  BY <1>1 DEF Init
<1>5. pump.pc = "select" /\ pump.todo = {} /\ pump \in [pc : {"select"}, todo : SUBSET Files]
  BY DEF Init
<1>6. scenario \in Scenarios /\ written \in [Files -> 0 .. scenario.lines]
  BY <1>1 DEF Init
<1>7. done \in [Watchers -> BOOLEAN] /\ {cur, wptr} \subseteq Watchers
  BY <1>1 DEF Init, Watchers
<1>8. pump \in [pc : {"select", "setfile", "setdir", "add", "close", "replace", "publish",
                     "notify", "quit", "closing", "stopped"}, todo : SUBSET Files]
  BY <1>5
<1>9. /\ changes \in 0 .. 1 /\ reloads \in 0 .. MaxReloads
      /\ ui.pc \in {"idle", "lag", "exited"} /\ catchup.pc \in {"idle", "wait", "result"}
      /\ delivered \in Seq(Line) /\ skipped \subseteq Line
  BY <1>1 DEF Init
<1>10. QED
  BY <1>2, <1>3, <1>4, <1>6, <1>7, <1>8, <1>9 DEF TypeOK, LoopType

\* The watcher under construction has a name: each reload names one.
Counted ==
  cur + changes + (IF pump.pc \in {"add", "close", "replace"} THEN 1 ELSE 0)
    <= reloads + 1

\* A step of a loop goroutine keeps the types.
LEMMA LoopTypes ==
  ASSUME TypeOK, NEW w \in Watchers, Loop(w)
  PROVE  TypeOK'
<1>0. MaxLines \in Nat /\ \A s \in Scenarios : s.lines \in 0 .. MaxLines
  BY PumpAssumption
<1>a. loop \in [Watchers -> LoopType] /\ loop[w] \in LoopType
  BY DEF TypeOK, LoopType
<1>1. ASSUME NEW f \in Files, NEW b \in BOOLEAN, NEW T \in SUBSET Files, StartTick(w, f, b, T)
      PROVE  TypeOK'
  <2>1. loop' \in [Watchers -> LoopType]
    <3>1. Unread(w, f) \in Seq(Line)
      BY UnreadTypes
    <3>2. [pc |-> "send", locked |-> b, todo |-> T, queue |-> Unread(w, f)] \in LoopType
      BY <3>1 DEF LoopType
    <3>3. QED
      BY <1>1, <1>a, <3>2 DEF StartTick
  <2>2. read' \in [Watchers -> [Files -> NotAdded .. scenario.lines]]
    <3>1. /\ read \in [Watchers -> [Files -> NotAdded .. scenario.lines]]
          /\ written[f] \in 0 .. scenario.lines
      BY DEF TypeOK
    <3>2. written[f] \in NotAdded .. scenario.lines
      BY <3>1 DEF NotAdded
    <3>3. read' = [read EXCEPT ![w] = [read[w] EXCEPT ![f] = written[f]]]
      BY <1>1, <3>1 DEF StartTick
    <3>4. [read[w] EXCEPT ![f] = written[f]] \in [Files -> NotAdded .. scenario.lines]
      BY <3>1, <3>2
    <3>5. QED
      BY <3>1, <3>3, <3>4
  <2>3. QED
    BY <1>1, <2>1, <2>2
       DEF TypeOK, StartTick, LoopType, logVars, pumpVars, uiVars
<1>2. CASE LoopFsEvent(w) \/ LoopNewFile(w)
  <2>1. PICK f \in Files : StartTick(w, f, TRUE, {})
    BY <1>2 DEF LoopFsEvent, LoopNewFile, TypeOK
  <2>2. {} \in SUBSET Files
    OBVIOUS
  <2>3. QED
    BY <1>1, <2>1, <2>2
<1>3. CASE LoopPoll(w)
  <2>1. loop' \in [Watchers -> LoopType]
    <3>1. {f \in Files : read[w][f] # NotAdded} \in SUBSET Files
      OBVIOUS
    <3>2. PICK T \in SUBSET Files : loop' = [loop EXCEPT ![w].pc = "poll", ![w].todo = T]
      BY <1>3, <3>1 DEF LoopPoll
    <3>3. [loop[w] EXCEPT !.pc = "poll", !.todo = T] \in LoopType
      BY <1>a DEF LoopType
    <3>4. loop' = [loop EXCEPT ![w] = [loop[w] EXCEPT !.pc = "poll", !.todo = T]]
      BY <1>a, <3>2
    <3>5. QED
      BY <1>a, <3>3, <3>4
  <2>2. QED
    BY <1>3, <2>1 DEF LoopPoll, TypeOK, LoopType, logVars, pumpVars, uiVars
<1>4. CASE LoopPollFile(w)
  <2>1. CASE loop[w].todo = {}
    <3>1. loop' \in [Watchers -> LoopType]
      BY <1>4, <2>1, IdleLoops DEF LoopPollFile, TypeOK, LoopType
    <3>2. QED
      BY <1>4, <2>1, <3>1 DEF LoopPollFile, TypeOK, LoopType, logVars, pumpVars, uiVars
  <2>2. CASE loop[w].todo # {}
    <3>1. PICK f \in loop[w].todo : StartTick(w, f, FALSE, loop[w].todo \ {f})
      BY <1>4, <2>2 DEF LoopPollFile
    <3>2. f \in Files /\ loop[w].todo \ {f} \in SUBSET Files
      BY DEF TypeOK
    <3>3. QED
      BY <3>1, <3>2, <1>1
  <2>3. QED
    BY <2>1, <2>2
<1>5. CASE LoopSend(w)
  <2>1. loop[w].queue \in Seq(Line) /\ loop[w].queue # <<>> /\ events[w] \in Seq(Line)
    BY <1>5 DEF LoopSend, TypeOK
  <2>2. Head(loop[w].queue) \in Line /\ Tail(loop[w].queue) \in Seq(Line)
    BY <2>1
  <2>3. Append(events[w], Head(loop[w].queue)) \in Seq(Line)
    BY <2>1, <2>2
  <2>4. Len(Append(events[w], Head(loop[w].queue))) <= EventCap
    BY <1>5, <2>1, <2>2, PumpAssumption DEF LoopSend
  <2>5. loop' \in [Watchers -> LoopType]
    <3>1. loop' = [loop EXCEPT ![w] = [loop[w] EXCEPT !.queue = Tail(loop[w].queue)]]
      BY <1>5, <1>a DEF LoopSend
    <3>2. [loop[w] EXCEPT !.queue = Tail(loop[w].queue)] \in LoopType
      BY <1>a, <2>2 DEF LoopType
    <3>3. QED
      BY <1>a, <3>1, <3>2
  <2>6. events' \in [Watchers -> Seq(Line)] /\ \A v \in Watchers : Len(events'[v]) <= EventCap
    BY <1>5, <2>3, <2>4 DEF LoopSend, TypeOK
  <2>7. QED
    BY <1>5, <2>5, <2>6 DEF LoopSend, TypeOK, LoopType, logVars, pumpVars, uiVars
<1>6. CASE LoopSent(w)
  <2>1. loop' \in [Watchers -> LoopType]
    <3>1. [loop[w] EXCEPT !.pc = "poll", !.locked = FALSE] \in LoopType
      BY <1>a DEF LoopType
    <3>2. loop' = [loop EXCEPT ![w] = [loop[w] EXCEPT !.pc = "poll", !.locked = FALSE]]
      BY <1>6, <1>a DEF LoopSent
    <3>3. QED
      BY <1>a, <3>1, <3>2
  <2>2. QED
    BY <1>6, <2>1 DEF LoopSent, TypeOK, LoopType, logVars, pumpVars, uiVars
<1>7. CASE LoopServeSkip(w)
  <2>1. read' \in [Watchers -> [Files -> NotAdded .. scenario.lines]]
    <3>1. PICK known \in SUBSET Files :
            read' = [read EXCEPT ![w] = [f \in Files |-> IF f \in known THEN written[f] ELSE @[f]]]
      BY <1>7 DEF LoopServeSkip
    <3>2. /\ read \in [Watchers -> [Files -> NotAdded .. scenario.lines]]
          /\ \A f \in Files : written[f] \in NotAdded .. scenario.lines
      BY <1>0 DEF TypeOK, NotAdded
    <3>3. QED
      BY <3>1, <3>2
  <2>2. skipped' \subseteq Line
    BY <1>7 DEF LoopServeSkip, TypeOK
  <2>3. QED
    BY <1>7, <2>1, <2>2 DEF LoopServeSkip, TypeOK, logVars, pumpVars
<1>8. CASE LoopEnd(w)
  <2>1. loop' \in [Watchers -> LoopType]
    BY <1>8, IdleLoops DEF LoopEnd, TypeOK, LoopType, Ended
  <2>2. QED
    BY <1>8, <2>1 DEF LoopEnd, TypeOK, LoopType, logVars, pumpVars, uiVars
<1>9. QED
  BY <1>2, <1>3, <1>4, <1>5, <1>6, <1>7, <1>8 DEF Loop, LoopWork

-----------------------------------------------------------------------------
(* The invariant.                                                           *)

Rebuilding == pump.pc \in {"add", "close", "replace"}

OnWay(w) == Elems(events[w]) \union Elems(loop[w].queue)

\* Every watcher's lines are in order, and its tailers are past them.
Flow ==
  \A w \in Watchers :
    /\ \A f \in Files : read[w][f] <= written[f]
    /\ loop[w].pc # "send" => loop[w].queue = <<>>
    /\ \A f \in loop[w].todo : read[w][f] # NotAdded
    /\ Sorted(events[w])
    /\ Sorted(loop[w].queue)
    /\ Before(Elems(events[w]), Elems(loop[w].queue))
    /\ \A l \in OnWay(w) : l.n <= read[w][l.file]

\* What was delivered is before what is on its way or unread.
Front ==
  /\ Sorted(delivered)
  /\ \A l \in Elems(delivered) :
       /\ l.n <= read[Active(l.file)][l.file]
       /\ Before({l}, OnWay(Active(l.file)))

\* Which watchers there are, and which are closed.
Unborn(w) ==
  /\ \A f \in Files : read[w][f] = NotAdded
  /\ told[w] = {}
  /\ events[w] = <<>>
  /\ loop[w].pc = "none"
  /\ loop[w].queue = <<>>
Hands ==
  /\ Counted
  /\ \A w \in Watchers : w > cur + 1 \/ (w = cur + 1 /\ ~ Rebuilding) => Unborn(w)
  /\ pump.pc = "add" =>
       \A f \in pump.todo :
         read[cur + 1][f] = NotAdded /\ f \notin told[cur + 1] /\ f \in Present
  /\ \A w \in Watchers :
       done[w] => w < cur \/ (w = cur /\ pump.pc \in {"replace", "closing", "stopped"})
  /\ pump.pc \in {"quit", "closing", "stopped"} => ui.pc = "exited"

PumpInv == TypeOK /\ Flow /\ Front /\ Hands

\* A step of the pump keeps the types.
LEMMA PumpTypes ==
  ASSUME TypeOK, Hands, Pump
  PROVE  TypeOK'
<1> DEFINE PumpType == [pc : {"select", "setfile", "setdir", "add", "close", "replace",
                              "publish", "notify", "quit", "closing", "stopped"},
                        todo : SUBSET Files]
<1>0. MaxReloads \in Nat /\ MaxLines \in Nat /\ scenario.lines \in 0 .. MaxLines
  BY PumpAssumption DEF TypeOK
<1>1. \A p \in DOMAIN [select |-> 0, setfile |-> 0, setdir |-> 0, add |-> 0, close |-> 0,
                       replace |-> 0, publish |-> 0, notify |-> 0, quit |-> 0,
                       closing |-> 0, stopped |-> 0] :
        Go(p) => pump' \in PumpType
  BY DEF Go, TypeOK
<1>2. ASSUME NEW from, NEW w, NEW to \in {"setdir", "publish", "close", "stopped"},
             PumpLocked(from, w, to)
      PROVE  TypeOK'
  BY <1>1, <1>2 DEF PumpLocked, TypeOK, logVars, watchVars, uiVars
<1>3. CASE PumpLine
  <2>1. events[cur] \in Seq(Line) /\ events[cur] # <<>> /\ cur \in Watchers
    BY <1>3 DEF PumpLine, TypeOK
  <2>2. Head(events[cur]) \in Line /\ Tail(events[cur]) \in Seq(Line)
        /\ Len(Tail(events[cur])) <= Len(events[cur])
    BY <2>1
  <2>3. delivered' \in Seq(Line)
    BY <1>3, <2>2 DEF PumpLine, TypeOK
  <2>4. events' \in [Watchers -> Seq(Line)] /\ \A v \in Watchers : Len(events'[v]) <= EventCap
    <3>1. events \in [Watchers -> Seq(Line)] /\ Len(events[cur]) <= EventCap /\ EventCap \in Nat
      BY <2>1, PumpAssumption DEF TypeOK
    <3>2. events' = [events EXCEPT ![cur] = Tail(events[cur])]
      BY <1>3 DEF PumpLine
    <3>3. Len(Tail(events[cur])) <= EventCap
      BY <2>1, <2>2, <3>1
    <3>4. \A v \in Watchers : Len(events[v]) <= EventCap
      BY DEF TypeOK
    <3>5. QED
      BY <2>1, <2>2, <3>1, <3>2, <3>3, <3>4
  <2>5. QED
    BY <1>3, <2>3, <2>4 DEF PumpLine, TypeOK, logVars, uiVars
<1>4. CASE PumpReload
  <2>1. PICK kind \in ReloadKinds :
          /\ kind \in scenario.reloads
          /\ pump' = CASE kind = "bad"      -> pump
                       [] kind = "same"     -> [pump EXCEPT !.pc = "setfile"]
                       [] kind = "builderr" -> [pump EXCEPT !.pc = "publish"]
                       [] kind = "changed"  -> [pc |-> "add", todo |-> Present]
          /\ loop' = IF kind = "changed"
                       THEN [loop EXCEPT ![cur + 1] = Selecting] ELSE loop
    BY <1>4, PumpAssumption DEF PumpReload, TypeOK
  <2>2. pump' \in PumpType
    <3>1. CASE kind = "bad"
      BY <2>1, <3>1 DEF TypeOK
    <3>2. CASE kind = "same"
      <4>1. pump' = [pump EXCEPT !.pc = "setfile"]
        BY <2>1, <3>2
      <4>2. QED
        BY <4>1 DEF TypeOK
    <3>3. CASE kind = "builderr"
      <4>1. pump' = [pump EXCEPT !.pc = "publish"]
        BY <2>1, <3>3
      <4>2. QED
        BY <4>1 DEF TypeOK
    <3>4. CASE kind = "changed"
      <4>1. pump' = [pc |-> "add", todo |-> Present]
        BY <2>1, <3>4
      <4>2. Present \in SUBSET Files
        BY DEF Present
      <4>3. QED
        BY <4>1, <4>2
    <3>5. QED
      BY <2>1, <3>1, <3>2, <3>3, <3>4 DEF ReloadKinds
  <2>3. loop' \in [Watchers -> LoopType]
    BY <2>1, IdleLoops DEF TypeOK, LoopType
  <2>4. changes' \in 0 .. 1
    BY <1>4 DEF PumpReload, TypeOK
  <2>5. QED
    BY <1>4, <2>2, <2>3, <2>4 DEF PumpReload, TypeOK, LoopType, logVars, uiVars
<1>5. CASE PumpAdd
  <2>0. PICK f \in pump.todo :
          /\ read' = [read EXCEPT ![cur + 1][f] = written[f]]
          /\ pump' = [pump EXCEPT !.todo = @ \ {f}]
    BY <1>5 DEF PumpAdd
  <2>1. read' \in [Watchers -> [Files -> NotAdded .. scenario.lines]]
    <3>1. f \in Files /\ written[f] \in NotAdded .. scenario.lines
      BY <1>0, <2>0 DEF TypeOK, NotAdded
    <3>2. QED
      BY <2>0, <3>1 DEF TypeOK
  <2>2. pump' \in PumpType
    BY <2>0 DEF TypeOK
  <2>3. QED
    BY <1>5, <2>1, <2>2 DEF PumpAdd, TypeOK, logVars, uiVars
<1>6. CASE PumpClose
  BY <1>1, <1>6 DEF PumpClose, TypeOK, logVars, uiVars
<1>7. CASE PumpReplace
  <2>1. cur + 1 \in Watchers
    <3>1. cur \in Nat /\ cur >= 1 /\ changes \in 0 .. 1 /\ reloads \in 0 .. MaxReloads
      BY <1>0 DEF TypeOK, Watchers
    <3>2. cur + changes + 1 <= reloads + 1
      BY <1>7 DEF PumpReplace, Hands, Counted
    <3>3. QED
      BY <1>0, <3>1, <3>2 DEF Watchers
  <2>2. QED
    BY <1>1, <1>7, <2>1 DEF PumpReplace, TypeOK, logVars, watchVars, uiVars
<1>8. CASE PumpPublish
  BY <1>1, <1>8 DEF PumpPublish, TypeOK, logVars, watchVars, uiVars
<1>9. CASE PumpNotify \/ PumpQuit
  BY <1>1, <1>9 DEF PumpNotify, PumpQuit, TypeOK, logVars, watchVars, uiVars
<1>10. QED
  BY <1>2, <1>3, <1>4, <1>5, <1>6, <1>7, <1>8, <1>9
     DEF Pump, PumpBusy, PumpSetFileMatcher, PumpSetDirMatcher, PumpWatchDir, PumpStopped

\* Every step keeps the types.
LEMMA StepTypes == PumpInv /\ [Next]_vars => TypeOK'
<1> SUFFICES ASSUME PumpInv, [Next]_vars PROVE TypeOK'
  OBVIOUS
<1> USE DEF PumpInv
<1>0. MaxReloads \in Nat /\ MaxLines \in Nat /\ scenario.lines \in 0 .. MaxLines
  BY PumpAssumption DEF TypeOK
<1>1. CASE WriteLine
  <2>1. PICK f \in Files : written[f] < scenario.lines /\ written' = [written EXCEPT ![f] = @ + 1]
    BY <1>1 DEF WriteLine
  <2>2. written[f] + 1 \in 0 .. scenario.lines /\ written \in [Files -> 0 .. scenario.lines]
    BY <1>0, <2>1 DEF TypeOK
  <2>3. written' \in [Files -> 0 .. scenario.lines]
    BY <2>1, <2>2
  <2>4. told' \in [Watchers -> SUBSET Files]
    <3> DEFINE Told(g, S) == [w \in Watchers |-> IF w \in S THEN told[w] \union {g} ELSE told[w]]
    <3>1. told' = told \/ \E g \in Files, early \in BOOLEAN : told' = Told(g, Watching(early))
      BY <1>1 DEF WriteLine
    <3>2. ASSUME NEW g \in Files, NEW S PROVE Told(g, S) \in [Watchers -> SUBSET Files]
      BY DEF TypeOK
    <3> HIDE DEF Told
    <3>3. told \in [Watchers -> SUBSET Files]
      BY DEF TypeOK
    <3>4. QED
      BY <3>1, <3>2, <3>3
  <2>5. QED
    BY <1>1, <2>3, <2>4 DEF WriteLine, TypeOK, watchVars, pumpVars, uiVars
<1>2. CASE ConfigChange
  BY <1>0, <1>2 DEF ConfigChange, TypeOK, logVars, watchVars, uiVars
<1>3. ASSUME NEW w \in Watchers, Loop(w) PROVE TypeOK'
  BY <1>3, LoopTypes
<1>4. CASE Pump
  BY <1>4, PumpTypes
<1>5. CASE Ui
  BY <1>5 DEF Ui, UiLagTick, UiLagRead, UiCatchUpKey, UiCatchUpResult, UiQuit, TypeOK,
              logVars, watchVars, pumpVars
<1>6. CASE CatchUpClosed
  BY <1>6 DEF CatchUpClosed, TypeOK, logVars, watchVars, pumpVars
<1>7. CASE UNCHANGED vars
  BY <1>7 DEF vars, logVars, watchVars, pumpVars, uiVars, TypeOK
<1>8. QED
  BY <1>1, <1>2, <1>3, <1>4, <1>5, <1>6, <1>7 DEF Next

-----------------------------------------------------------------------------
(* Who holds what.                                                          *)

\* A tick of one file, which was added before or is a new one.
LEMMA TickPicks ==
  ASSUME TypeOK, Flow, NEW w \in Watchers,
         LoopFsEvent(w) \/ LoopNewFile(w) \/ (LoopPollFile(w) /\ loop[w].todo # {})
  PROVE  \E f \in Files, b \in BOOLEAN, T \in SUBSET Files :
           /\ read[w][f] # NotAdded \/ f \in told[w]
           /\ loop[w].pc \in {"select", "poll"}
           /\ loop[w].queue = <<>>
           /\ \A g \in T : read[w][g] # NotAdded
           /\ StartTick(w, f, b, T)
<1>1. CASE LoopFsEvent(w) \/ LoopNewFile(w)
  <2>1. PICK f \in Files : (read[w][f] # NotAdded \/ f \in told[w]) /\ StartTick(w, f, TRUE, {})
    BY <1>1 DEF LoopFsEvent, LoopNewFile, TypeOK
  <2>2. loop[w].pc = "select" /\ loop[w].queue = <<>>
    BY <1>1 DEF LoopFsEvent, LoopNewFile, Flow
  <2>3. {} \in SUBSET Files /\ \A g \in {} : read[w][g] # NotAdded
    OBVIOUS
  <2>4. QED
    BY <2>1, <2>2, <2>3
<1>2. CASE LoopPollFile(w) /\ loop[w].todo # {}
  <2>1. PICK f \in loop[w].todo : StartTick(w, f, FALSE, loop[w].todo \ {f})
    BY <1>2 DEF LoopPollFile
  <2>2. loop[w].pc = "poll" /\ loop[w].queue = <<>>
    BY <1>2 DEF LoopPollFile, Flow
  <2>3. f \in Files /\ loop[w].todo \ {f} \in SUBSET Files
    BY DEF TypeOK
  <2>4. \A g \in loop[w].todo : read[w][g] # NotAdded
    BY DEF Flow
  <2>5. QED
    BY <2>1, <2>2, <2>3, <2>4
<1>3. QED
  BY <1>1, <1>2

\* A loop goroutine works on its own watcher, adds no file it was not told of and
\* forgets none.
LEMMA LoopLocal ==
  ASSUME TypeOK, Flow, NEW w \in Watchers, Loop(w)
  PROVE  /\ loop[w].pc # "none"
         /\ UNCHANGED <<scenario, written, told, done, cur, wptr, pump, changes, reloads, delivered, ui>>
         /\ \A v \in Watchers \ {w} :
              loop'[v] = loop[v] /\ read'[v] = read[v] /\ events'[v] = events[v]
         /\ \A f \in Files : /\ read[w][f] # NotAdded => read'[w][f] # NotAdded
                             /\ read'[w][f] # NotAdded => read[w][f] # NotAdded \/ f \in told[w]
                             /\ read'[w][f] = read[w][f] \/ read'[w][f] = written[f]
<1>1. CASE LoopFsEvent(w) \/ LoopNewFile(w) \/ (LoopPollFile(w) /\ loop[w].todo # {})
  <2>1. PICK f \in Files, b \in BOOLEAN, T \in SUBSET Files :
          (read[w][f] # NotAdded \/ f \in told[w]) /\ loop[w].pc \in {"select", "poll"} /\ StartTick(w, f, b, T)
    BY <1>1, TickPicks
  <2>2. written[f] # NotAdded
    BY PumpAssumption DEF TypeOK, NotAdded
  <2>3. QED
    BY <2>1, <2>2 DEF StartTick, TypeOK, logVars, pumpVars, uiVars
<1>2. CASE LoopPollFile(w) /\ loop[w].todo = {}
  BY <1>2 DEF LoopPollFile, TypeOK, logVars, pumpVars, uiVars
<1>3. CASE LoopPoll(w)
  BY <1>3 DEF LoopPoll, TypeOK, logVars, pumpVars, uiVars
<1>4. CASE LoopSend(w)
  BY <1>4 DEF LoopSend, TypeOK, logVars, pumpVars, uiVars
<1>5. CASE LoopSent(w)
  BY <1>5 DEF LoopSent, TypeOK, logVars, pumpVars, uiVars
<1>6. CASE LoopServeSkip(w)
  <2>1. \A f \in Files : written[f] # NotAdded
    BY PumpAssumption DEF TypeOK, NotAdded
  <2>2. QED
    BY <1>6, <2>1 DEF LoopServeSkip, TypeOK, logVars, pumpVars
<1>7. CASE LoopEnd(w)
  BY <1>7 DEF LoopEnd, TypeOK, logVars, pumpVars, uiVars
<1>8. QED
  BY <1>1, <1>2, <1>3, <1>4, <1>5, <1>6, <1>7 DEF Loop, LoopWork

\* The next watcher has a name while it is being built.
LEMMA NextNamed ==
  ASSUME TypeOK, Counted, Rebuilding
  PROVE  cur + 1 \in Watchers
<1>1. cur \in Nat /\ cur >= 1 /\ changes \in 0 .. 1 /\ reloads \in 0 .. MaxReloads
      /\ MaxReloads \in Nat
  BY PumpAssumption DEF TypeOK, Watchers
<1>2. cur + changes + 1 <= reloads + 1
  BY DEF Counted, Rebuilding
<1>3. QED
  BY <1>1, <1>2 DEF Watchers

\* Only the next watcher is ever under construction, and only old ones close.
LEMMA StepHands == PumpInv /\ [Next]_vars => Hands'
<1> SUFFICES ASSUME PumpInv, [Next]_vars PROVE Hands'
  OBVIOUS
<1> USE DEF PumpInv
<1>0. /\ MaxReloads \in Nat /\ cur \in Nat /\ cur >= 1 /\ cur <= MaxReloads + 1
      /\ changes \in 0 .. 1 /\ reloads \in 0 .. MaxReloads
  BY PumpAssumption DEF TypeOK, Watchers
<1>1. CASE WriteLine
  <2>1. UNCHANGED <<scenario, read, loop, events, done, cur, pump, changes, reloads, ui>>
    BY <1>1 DEF WriteLine, watchVars, pumpVars, uiVars
  <2>2. PICK f \in Files :
          /\ written' = [written EXCEPT ![f] = @ + 1]
          /\ \/ told' = told
             \/ /\ f \notin Present
                /\ \E S \in SUBSET Watchers :
                     /\ \A w \in S : w = cur \/ (w = cur + 1 /\ Rebuilding)
                     /\ told' = [w \in Watchers |->
                                   IF w \in S THEN told[w] \union {f} ELSE told[w]]
    <3>1. \A early \in BOOLEAN :
            /\ Watching(early) \in SUBSET Watchers
            /\ \A w \in Watching(early) : w = cur \/ (w = cur + 1 /\ Rebuilding)
      BY DEF Watching, Rebuilding
    <3>2. QED
      BY <1>1, <3>1 DEF WriteLine
  <2>3. \A w \in Watchers :
          /\ told'[w] = told[w] \/ (told'[w] = told[w] \union {f} /\ f \notin Present)
          /\ w # cur /\ ~ (w = cur + 1 /\ Rebuilding) => told'[w] = told[w]
    BY <2>2
  <2>4. \A w \in Watchers : w > cur + 1 \/ (w = cur + 1 /\ ~ Rebuilding) => Unborn(w)'
    <3> SUFFICES ASSUME NEW w \in Watchers, w > cur + 1 \/ (w = cur + 1 /\ ~ Rebuilding)
                 PROVE  Unborn(w)'
      OBVIOUS
    <3>1. w # cur /\ ~ (w = cur + 1 /\ Rebuilding) /\ Unborn(w)
      BY <1>0 DEF Hands, Watchers
    <3>2. QED
      BY <2>1, <2>3, <3>1 DEF Unborn
  <2>5. \A g \in Present : g \in Present'
    <3>1. \A g \in Files : written[g] > 0 => written'[g] > 0
      BY <2>2 DEF TypeOK
    <3>2. QED
      BY <2>1, <3>1 DEF Present
  <2>6. ASSUME pump.pc = "add", NEW g \in pump.todo
        PROVE  read'[cur + 1][g] = NotAdded /\ g \notin told'[cur + 1] /\ g \in Present'
    <3>1. cur + 1 \in Watchers
      BY <2>6, NextNamed DEF Hands, Rebuilding
    <3>2. read[cur + 1][g] = NotAdded /\ g \notin told[cur + 1] /\ g \in Present
      BY <2>6 DEF Hands
    <3>3. QED
      BY <2>1, <2>3, <2>5, <3>1, <3>2
  <2>7. QED
    BY <2>1, <2>4, <2>6 DEF Hands, Counted, Rebuilding
<1>2. CASE ConfigChange
  <2>1. Counted'
    BY <1>0, <1>2 DEF ConfigChange, Hands, Counted
  <2>2. QED
    BY <1>2, <2>1 DEF ConfigChange, Hands, Unborn, Rebuilding, Present, logVars, watchVars, uiVars
<1>3. ASSUME NEW w \in Watchers, Loop(w) PROVE Hands'
  <2>1. \A v \in Watchers : Unborn(v) => v # w
    BY <1>3, LoopLocal DEF Unborn
  <2>2. \A v \in Watchers : Unborn(v) => Unborn(v)'
    BY <1>3, <2>1, LoopLocal DEF Unborn
  <2>3. \A v \in Watchers, f \in Files :
          read'[v][f] # NotAdded => read[v][f] # NotAdded \/ f \in told[v]
    BY <1>3, LoopLocal
  <2>4. UNCHANGED <<scenario, written, told, done, cur, pump, changes, reloads, ui>>
    BY <1>3, LoopLocal
  <2>5. cur \in Watchers /\ (Rebuilding => cur + 1 \in Watchers)
    BY NextNamed DEF TypeOK, Hands
  <2>6. ASSUME pump.pc = "add", NEW f \in pump.todo PROVE read'[cur + 1][f] = NotAdded
    <3>1. cur + 1 \in Watchers /\ f \in Files
      BY <2>5, <2>6 DEF Rebuilding, TypeOK
    <3>2. read[cur + 1][f] = NotAdded /\ f \notin told[cur + 1]
      BY <2>6 DEF Hands
    <3>3. QED
      BY <2>3, <3>1, <3>2
  <2>7. Present' = Present
    BY <2>4 DEF Present
  <2>8. QED
    BY <2>2, <2>4, <2>5, <2>6, <2>7 DEF Hands, Counted, Rebuilding
<1>4. CASE Ui \/ CatchUpClosed
  <2>1. UNCHANGED <<logVars, watchVars, pumpVars>> /\ (ui.pc = "exited" => ui'.pc = "exited")
    BY <1>4 DEF Ui, CatchUpClosed, UiLagTick, UiLagRead, UiCatchUpKey, UiCatchUpResult, UiQuit
  <2>2. QED
    BY <2>1 DEF Hands, Counted, Unborn, Rebuilding, Present, logVars, watchVars, pumpVars
<1>5. CASE UNCHANGED vars
  BY <1>5 DEF vars, Hands, Counted, Unborn, Rebuilding, Present, logVars, watchVars, pumpVars, uiVars
<1>6. CASE Pump
  <2>1. CASE PumpLine
    <3>1. pump.pc = "select" /\ events[cur] # <<>> /\ cur \in Watchers
          /\ events' = [events EXCEPT ![cur] = Tail(events[cur])]
          /\ UNCHANGED <<logVars, read, loop, done, cur, pump, changes, reloads, ui>>
      BY <2>1 DEF PumpLine, TypeOK, uiVars
    <3>2. \A w \in Watchers : Unborn(w) => Unborn(w)'
      BY <3>1 DEF Unborn, TypeOK, logVars
    <3>3. QED
      BY <3>1, <3>2 DEF Hands, Counted, Rebuilding
  <2>2. CASE PumpReload
    <3>1. PICK kind \in ReloadKinds :
            /\ pump' = CASE kind = "bad"      -> pump
                         [] kind = "same"     -> [pump EXCEPT !.pc = "setfile"]
                         [] kind = "builderr" -> [pump EXCEPT !.pc = "publish"]
                         [] kind = "changed"  -> [pc |-> "add", todo |-> Present]
            /\ loop' = IF kind = "changed"
                         THEN [loop EXCEPT ![cur + 1] = Selecting] ELSE loop
      BY <2>2, PumpAssumption DEF PumpReload, TypeOK
    <3>2. /\ pump.pc = "select" /\ changes = 1 /\ changes' = 0
          /\ UNCHANGED <<scenario, written, told, read, events, done, cur, reloads, ui>>
      BY <1>0, <2>2 DEF PumpReload, logVars, uiVars
    <3>3. CASE kind = "changed"
      <4>1. pump'.pc = "add" /\ pump'.todo = Present /\ loop' = [loop EXCEPT ![cur + 1] = Selecting]
        BY <3>1, <3>3
      <4>2. Counted'
        BY <1>0, <3>2, <4>1 DEF Counted, Hands
      <4>3. \A w \in Watchers : w >= cur + 1 => Unborn(w)
        BY <1>0, <3>2 DEF Hands, Rebuilding, Watchers
      <4>4. \A w \in Watchers : w > cur + 1 => Unborn(w)'
        <5> SUFFICES ASSUME NEW w \in Watchers, w > cur + 1 PROVE Unborn(w)'
          OBVIOUS
        <5>1. Unborn(w)
          BY <1>0, <4>3 DEF Watchers
        <5>2. loop'[w] = loop[w]
          BY <1>0, <4>1 DEF TypeOK, Watchers
        <5>3. QED
          BY <3>2, <5>1, <5>2 DEF Unborn
      <4>5. cur + 1 \in Watchers
        BY <3>2, <4>1, <4>2, <1>0 DEF Counted, Watchers
      <4>6. /\ \A f \in Files : read'[cur + 1][f] = NotAdded
            /\ told'[cur + 1] = {}
        BY <1>0, <3>2, <4>3, <4>5 DEF Unborn
      <4>7. Present' = Present /\ Present \subseteq Files
        BY <3>2 DEF Present
      <4>8. QED
        BY <3>2, <4>1, <4>2, <4>4, <4>6, <4>7 DEF Hands, Rebuilding
    <3>4. CASE kind # "changed"
      <4>1. pump'.pc \in {"select", "setfile", "publish"} /\ loop' = loop
        <5>1. CASE kind = "bad"
          BY <3>1, <3>2, <5>1
        <5>2. CASE kind = "same"
          <6>1. pump' = [pump EXCEPT !.pc = "setfile"]
            BY <3>1, <5>2
          <6>2. QED
            BY <3>1, <3>4, <6>1 DEF TypeOK
        <5>3. CASE kind = "builderr"
          <6>1. pump' = [pump EXCEPT !.pc = "publish"]
            BY <3>1, <5>3
          <6>2. QED
            BY <3>1, <3>4, <6>1 DEF TypeOK
        <5>4. QED
          BY <3>1, <3>4, <5>1, <5>2, <5>3 DEF ReloadKinds
      <4>2. Counted'
        BY <1>0, <3>2, <4>1 DEF Counted, Hands
      <4>3. \A w \in Watchers : Unborn(w) => Unborn(w)'
        BY <3>2, <4>1 DEF Unborn
      <4>4. QED
        BY <3>2, <4>1, <4>2, <4>3 DEF Hands, Rebuilding
    <3>5. QED
      BY <3>3, <3>4
  <2>3. CASE PumpAdd
    <3>1. PICK f \in pump.todo :
            /\ read' = [read EXCEPT ![cur + 1][f] = written[f]]
            /\ pump' = [pump EXCEPT !.todo = @ \ {f}]
      BY <2>3 DEF PumpAdd
    <3>2. /\ UNCHANGED <<scenario, written, told, loop, events, done, cur, changes, reloads, ui>>
          /\ pump.pc = "add"
          /\ f \in Files /\ pump'.pc = "add" /\ pump'.todo = pump.todo \ {f}
      BY <2>3, <3>1 DEF PumpAdd, TypeOK, logVars, uiVars
    <3>3. cur + 1 \in Watchers
      BY <3>2, NextNamed DEF Rebuilding, Hands
    <3>5. \A w \in Watchers : w # cur + 1 => read'[w] = read[w]
      BY <3>1, <3>3 DEF TypeOK
    <3>6. \A g \in Files : read'[cur + 1][g] = IF g = f THEN written[f] ELSE read[cur + 1][g]
      BY <3>1, <3>2, <3>3 DEF TypeOK
    <3>7. \A w \in Watchers : w > cur + 1 => Unborn(w)'
      BY <1>0, <3>2, <3>5 DEF Hands, Unborn, Watchers
    <3>8. Counted'
      BY <3>2 DEF Hands, Counted
    <3>9. ASSUME NEW g \in pump'.todo
          PROVE  read'[cur + 1][g] = NotAdded /\ g \notin told[cur + 1] /\ g \in Present'
      <4>1. g \in pump.todo /\ g # f /\ g \in Files /\ Present' = Present
        BY <3>2 DEF TypeOK, Present
      <4>2. QED
        BY <3>2, <3>6, <4>1 DEF Hands
    <3>10. QED
      BY <3>2, <3>7, <3>8, <3>9 DEF Hands, Rebuilding
  <2>4. CASE PumpClose
    <3>1. /\ UNCHANGED <<scenario, written, told, read, loop, events, cur, changes, reloads, ui>>
          /\ done' = [done EXCEPT ![cur] = TRUE]
          /\ pump' = [pump EXCEPT !.pc = IF pump.pc = "close" THEN "replace" ELSE "closing"]
          /\ pump.pc \in {"close", "quit"}
      BY <2>4 DEF PumpClose, Go, logVars, uiVars
    <3>2. /\ pump.pc = "close" => pump'.pc = "replace"
          /\ pump.pc = "quit" => pump'.pc = "closing"
      BY <3>1 DEF TypeOK
    <3>3. \A w \in Watchers : done'[w] => done[w] \/ w = cur
      BY <3>1 DEF TypeOK
    <3>4. \A w \in Watchers : done'[w] => w < cur \/ (w = cur /\ pump'.pc \in {"replace", "closing"})
      BY <3>1, <3>2, <3>3 DEF Hands
    <3>5. Counted' /\ \A w \in Watchers : Unborn(w) => Unborn(w)'
      BY <3>1, <3>2 DEF Hands, Counted, Unborn
    <3>6. (pump.pc = "quit" => ~ Rebuilding /\ ~ Rebuilding' /\ ui.pc = "exited")
          /\ (pump.pc = "close" => Rebuilding /\ Rebuilding')
      BY <3>2 DEF Rebuilding, Hands
    <3>7. QED
      BY <3>1, <3>2, <3>4, <3>5, <3>6 DEF Hands
  <2>5. CASE PumpReplace
    <3>1. /\ pump.pc = "replace" /\ cur' = cur + 1 /\ pump'.pc = "publish"
          /\ UNCHANGED <<told, read, loop, events, done, changes, reloads, ui>>
      BY <2>5 DEF PumpReplace, Go, TypeOK, logVars, watchVars, uiVars
    <3>2. cur + 1 \in Watchers
      BY <3>1, NextNamed DEF Rebuilding, Hands
    <3>3. Counted'
      BY <1>0, <3>1 DEF Hands, Counted
    <3>4. \A w \in Watchers : w >= cur + 2 => Unborn(w)'
      BY <1>0, <3>1 DEF Hands, Unborn, Watchers
    <3>5. \A w \in Watchers : done'[w] => w < cur'
      BY <1>0, <3>1 DEF Hands, Watchers
    <3>6. QED
      BY <1>0, <3>1, <3>3, <3>4, <3>5 DEF Hands, Rebuilding, Watchers
  <2>6. CASE PumpWatchDir
    <3>1. /\ pump.pc = "add" /\ pump.todo = {} /\ pump'.pc = "close"
          /\ UNCHANGED <<told, read, loop, events, done, cur, changes, reloads, ui>>
      BY <2>6 DEF PumpWatchDir, PumpLocked, Go, TypeOK, logVars, watchVars, uiVars
    <3>2. QED
      BY <3>1 DEF Hands, Counted, Unborn, Rebuilding
  <2>7. CASE PumpSetFileMatcher \/ PumpSetDirMatcher \/ PumpPublish \/ PumpNotify
    <3>1. /\ UNCHANGED <<told, read, loop, events, done, cur, changes, reloads, ui>>
          /\ pump.pc \in {"setfile", "setdir", "publish", "notify"}
          /\ pump'.pc \in {"setdir", "publish", "notify", "select"}
      BY <2>7 DEF PumpSetFileMatcher, PumpSetDirMatcher, PumpPublish, PumpNotify, PumpLocked,
                  Go, TypeOK, logVars, watchVars, uiVars
    <3>2. QED
      BY <3>1 DEF Hands, Counted, Unborn, Rebuilding
  <2>8. CASE PumpQuit \/ PumpStopped
    <3>1. /\ UNCHANGED <<told, read, loop, events, done, cur, changes, reloads, ui>>
          /\ \/ pump.pc = "select" /\ pump'.pc = "quit" /\ ui.pc = "exited"
             \/ pump.pc = "closing" /\ pump'.pc = "stopped"
      BY <2>8 DEF PumpQuit, PumpStopped, PumpLocked, Go, TypeOK, logVars, watchVars, uiVars
    <3>2. QED
      BY <3>1 DEF Hands, Counted, Unborn, Rebuilding
  <2>9. QED
    BY <1>6, <2>1, <2>2, <2>3, <2>4, <2>5, <2>6, <2>7, <2>8 DEF Pump, PumpBusy
<1>7. QED
  BY <1>1, <1>2, <1>3, <1>4, <1>5, <1>6 DEF Next

-----------------------------------------------------------------------------
(* Where the lines are, and what a step of the system is for the queue.     *)

\* The watcher that counts for a file has a name.
LEMMA ActiveNamed ==
  ASSUME PumpInv, NEW f \in Files
  PROVE  Active(f) \in Watchers
BY NextNamed DEF Active, PumpInv, TypeOK, Hands, Rebuilding

\* Lines on their way are lines.
LEMMA OnWayLines ==
  ASSUME TypeOK, NEW w \in Watchers
  PROVE  OnWay(w) \subseteq Line /\ Elems(delivered) \subseteq Line
<1>1. events[w] \in Seq(Line) /\ loop[w].queue \in Seq(Line) /\ delivered \in Seq(Line)
  BY DEF TypeOK
<1>2. ASSUME NEW s \in Seq(Line) PROVE Elems(s) \subseteq Line
  BY DEF Elems
<1>3. QED
  BY <1>1, <1>2 DEF OnWay

\* A line is lost when its tailer is past it and it is nowhere on the way.
LEMMA LostIs ==
  \A l \in Line :
    l \in Lost <=> /\ l.n <= read[Active(l.file)][l.file]
                   /\ l \notin Elems(delivered)
                   /\ l \notin OnWay(Active(l.file))
BY DEF Lost, OnWay

\* The numbers involved.
LEMMA Counts ==
  ASSUME PumpInv
  PROVE  /\ \A v \in Watchers, f \in Files :
              /\ read[v][f] \in Int /\ read[v][f] <= written[f]
              /\ read[v][f] # NotAdded => read[v][f] \in Nat
         /\ \A f \in Files : written[f] \in Nat /\ written[f] <= MaxLines
         /\ \A l \in Line : l.file \in Files /\ l.n \in Nat /\ l.n >= 1
<1>1. scenario.lines \in 0 .. MaxLines /\ MaxLines \in Nat
  BY PumpAssumption DEF PumpInv, TypeOK
<1>2. ASSUME NEW v \in Watchers, NEW f \in Files
      PROVE  read[v][f] \in Int /\ (read[v][f] # NotAdded => read[v][f] \in Nat)
  BY <1>1 DEF PumpInv, TypeOK, NotAdded
<1>3. \A f \in Files : written[f] \in Nat /\ written[f] <= MaxLines
  BY <1>1 DEF PumpInv, TypeOK
<1>4. \A v \in Watchers, f \in Files : read[v][f] <= written[f]
  BY DEF PumpInv, Flow
<1>5. \A l \in Line : l.file \in Files /\ l.n \in Nat /\ l.n >= 1
  BY <1>1 DEF Line
<1>6. QED
  BY <1>2, <1>3, <1>4, <1>5

\* Steps that move no line: the watcher that counts changes for files without
\* lines only.
LEMMA Still ==
  ASSUME PumpInv, UNCHANGED <<written, read, events, delivered>>,
         \A f \in Files :
           \/ Active(f)' = Active(f)
           \/ Active(f)' \in Watchers /\ written[f] = 0,
         \A w \in Watchers :
           /\ loop'[w].queue = loop[w].queue
           /\ loop'[w].pc # "send" => loop'[w].queue = <<>>
           /\ \A f \in loop'[w].todo : read[w][f] # NotAdded
  PROVE  Flow' /\ Front' /\ Lost' = Lost
<1> USE DEF PumpInv
<1>1. \A w \in Watchers : OnWay(w)' = OnWay(w)
  BY DEF OnWay
<1>2. Flow'
  BY <1>1 DEF Flow
<1>3. \A l \in Line :
        \/ Active(l.file)' = Active(l.file) /\ OnWay(Active(l.file))' = OnWay(Active(l.file))
        \/ /\ ~ (l.n <= read[Active(l.file)][l.file])
           /\ ~ (l.n <= read[Active(l.file)'][l.file])
  <2> SUFFICES ASSUME NEW l \in Line, NEW a, NEW b,
                      a = Active(l.file), b = Active(l.file)'
               PROVE  \/ b = a /\ OnWay(Active(l.file))' = OnWay(a)
                      \/ ~ (l.n <= read[a][l.file]) /\ ~ (l.n <= read[b][l.file])
    OBVIOUS
  <2>1. a \in Watchers /\ l.file \in Files /\ l.n \in Nat /\ l.n >= 1
    BY ActiveNamed, Counts
  <2>2. CASE b = a
    BY <1>1, <2>1, <2>2 DEF OnWay
  <2>3. CASE b \in Watchers /\ written[l.file] = 0
    <3>1. read[a][l.file] \in Int /\ read[a][l.file] <= 0
      BY <2>1, <2>3, Counts
    <3>2. read[b][l.file] \in Int /\ read[b][l.file] <= 0
      BY <2>1, <2>3, Counts
    <3>3. QED
      BY <2>1, <3>1, <3>2
  <2>4. QED
    BY <2>1, <2>2, <2>3
<1>4. Elems(delivered)' = Elems(delivered) /\ Elems(delivered) \subseteq Line
  <2>1. delivered \in Seq(Line)
    BY DEF TypeOK
  <2>2. QED
    BY <2>1 DEF Elems
<1>5. Front'
  <2> SUFFICES ASSUME NEW l \in Elems(delivered)
               PROVE  /\ l.n <= read[Active(l.file)'][l.file]
                      /\ Before({l}, OnWay(Active(l.file))')
    BY <1>4 DEF Front, OnWay
  <2>1. l \in Line /\ l.n <= read[Active(l.file)][l.file] /\ Before({l}, OnWay(Active(l.file)))
    BY <1>4 DEF Front
  <2>2. QED
    BY <1>3, <2>1
<1>6. Lost' = Lost
  <2>1. Lost \subseteq Line /\ Lost' \subseteq Line
    BY DEF Lost
  <2>2. \A l \in Line :
          l \in Lost' <=> /\ l.n <= read[Active(l.file)'][l.file]
                          /\ l \notin Elems(delivered)
                          /\ l \notin OnWay(Active(l.file))'
    BY <1>4 DEF Lost, OnWay
  <2>3. ASSUME NEW l \in Line PROVE l \in Lost' <=> l \in Lost
    BY <1>3, <2>2, LostIs
  <2>4. QED
    BY <2>1, <2>3
<1>7. QED
  BY <1>2, <1>5, <1>6

\* What the user has asked for, request by request.
LEMMA AskedIs ==
  /\ Asked \subseteq D!Requests
  /\ "catchup" \in Asked <=> catchup.pc = "wait"
  /\ "rebuild" \in Asked <=> pump.pc = "add"
  /\ "quit" \in Asked <=> ui.pc = "exited"
BY DEF Asked, D!Requests

\* Nothing moved: a stutter, a request or the end of one.
LEMMA StillStep ==
  ASSUME UNCHANGED <<written, delivered>>, Lost' = Lost,
         \/ \E r \in D!Requests : Asked' = Asked \union {r}
         \/ Asked' \subseteq Asked
  PROVE  [D!Next]_(D!vars)
<1>1. ASSUME NEW r \in D!Requests, Asked' = Asked \union {r} PROVE D!Next
  BY <1>1 DEF D!Next, D!Ask
<1>2. CASE Asked' = Asked
  BY <1>2 DEF D!vars
<1>3. CASE Asked' \subseteq Asked /\ Asked' # Asked
  <2>1. {} \in SUBSET D!Pending /\ Asked \ Asked' \in SUBSET Asked /\ Asked # {}
    BY <1>3
  <2>2. Lost' = Lost \union {} /\ Asked' = Asked \ (Asked \ Asked')
    BY <1>3
  <2>3. D!GiveUp({}, Asked \ Asked')
    BY <2>1, <2>2 DEF D!GiveUp
  <2>4. QED
    BY <2>1, <2>3 DEF D!Next
<1>4. QED
  BY <1>1, <1>2, <1>3

\* Lines are given up while a request is under way.
LEMMA LossStep ==
  ASSUME UNCHANGED <<written, delivered>>, Lost \subseteq Lost', Asked # {},
         Asked' \subseteq Asked,
         \A l \in Lost' \ Lost : /\ l \in Line
                                /\ l.n <= written[l.file]
                                /\ l \notin Elems(delivered)
  PROVE  [D!Next]_(D!vars)
<1>1. Lost' \ Lost \in SUBSET D!Pending
  BY DEF D!Pending, D!Line, D!Out, Line, Elems
<1>2. Asked \ Asked' \in SUBSET Asked
  OBVIOUS
<1>3. Lost' = Lost \union (Lost' \ Lost) /\ Asked' = Asked \ (Asked \ Asked')
  OBVIOUS
<1>4. D!GiveUp(Lost' \ Lost, Asked \ Asked')
  BY <1>3 DEF D!GiveUp
<1>5. QED
  BY <1>1, <1>2, <1>4 DEF D!Next

Moves == Flow' /\ Front' /\ [D!Next]_(D!vars)

\* Steps of the UI, of a catch-up on a closed watcher, and changes of the
\* configuration move no line.
LEMMA UiMoves == PumpInv /\ (Ui \/ CatchUpClosed \/ ConfigChange \/ UNCHANGED vars) => Moves
<1> SUFFICES ASSUME PumpInv, Ui \/ CatchUpClosed \/ ConfigChange \/ UNCHANGED vars PROVE Moves
  OBVIOUS
<1>1. /\ UNCHANGED <<written, read, loop, events, delivered, cur>>
      /\ pump' = pump
      /\ \/ UNCHANGED catchup /\ (ui.pc = "exited") = (ui'.pc = "exited")
         \/ catchup'.pc # "wait" /\ (ui.pc = "exited") = (ui'.pc = "exited")
         \/ catchup'.pc = "wait" /\ UNCHANGED ui
         \/ ui'.pc = "exited" /\ UNCHANGED catchup
  BY DEF Ui, CatchUpClosed, ConfigChange, UiLagTick, UiLagRead, UiCatchUpKey, UiCatchUpResult,
         UiQuit, vars, logVars, watchVars, pumpVars, uiVars
<1>2. \A f \in Files : Active(f)' = Active(f)
  BY <1>1 DEF Active
<1>3. Flow' /\ Front' /\ Lost' = Lost
  BY <1>1, <1>2, Still DEF PumpInv, Flow
<1>4. (\E r \in D!Requests : Asked' = Asked \union {r}) \/ Asked' \subseteq Asked
  BY <1>1 DEF Asked, D!Requests
<1>5. QED
  BY <1>1, <1>3, <1>4, StillStep DEF Moves

\* A line written is a line the queue has yet to hand on.
LEMMA WriteMoves == PumpInv /\ WriteLine => Moves
<1> SUFFICES ASSUME PumpInv, WriteLine PROVE Moves
  OBVIOUS
<1> USE DEF PumpInv
<1>1. PICK f \in Files : written[f] < scenario.lines /\ written' = [written EXCEPT ![f] = @ + 1]
  BY DEF WriteLine
<1>2. scenario.lines \in 0 .. MaxLines /\ MaxLines \in Nat
  BY PumpAssumption DEF TypeOK
<1>3. UNCHANGED <<read, loop, events, delivered, cur, pump, ui, catchup>>
  BY DEF WriteLine, watchVars, pumpVars, uiVars
<1>4. \A g \in Files : written[g] \in Nat /\ written'[g] \in Nat /\ written'[g] >= written[g]
  <2>1. written \in [Files -> 0 .. scenario.lines]
    BY DEF TypeOK
  <2>2. QED
    BY <1>1, <1>2, <2>1
<1>5. Flow'
  <2> SUFFICES ASSUME NEW w \in Watchers, NEW g \in Files PROVE read[w][g] <= written'[g]
    BY <1>3 DEF Flow, OnWay
  <2>1. read[w][g] <= written[g] /\ read[w][g] \in Int
    BY <1>2 DEF Flow, TypeOK, NotAdded
  <2>2. QED
    BY <2>1, <1>4
<1>6. Front'
  BY <1>3 DEF Front, Active, OnWay
<1>7. Lost' = Lost /\ Asked' = Asked
  BY <1>3 DEF Lost, Active, Asked
<1>8. D!Write(f)
  <2>1. written[f] < MaxLines
    BY <1>1, <1>2, <1>4
  <2>2. QED
    BY <1>1, <1>3, <1>7, <2>1 DEF D!Write
<1>9. QED
  BY <1>5, <1>6, <1>8 DEF Moves, D!Next

\* The loop reads lines into its queue, in order and after all that are on the
\* way.
LEMMA TickMoves ==
  ASSUME PumpInv, NEW w \in Watchers, NEW f \in Files, NEW b \in BOOLEAN,
         NEW T \in SUBSET Files, loop[w].queue = <<>>,
         \A g \in T : read[w][g] # NotAdded,
         StartTick(w, f, b, T)
  PROVE  Moves
<1> USE DEF PumpInv
<1> DEFINE New == {l \in Line : l.file = f /\ l.n \in Pos(w, f) + 1 .. written[f]}
<1>1. Unread(w, f) \in Seq(Line) /\ Sorted(Unread(w, f)) /\ Elems(Unread(w, f)) = New
  BY UnreadTypes
<1>2. /\ UNCHANGED <<written, events, delivered, cur, pump, ui, catchup>>
      /\ read' = [read EXCEPT ![w][f] = written[f]]
      /\ loop'[w].pc = "send" /\ loop'[w].queue = Unread(w, f) /\ loop'[w].todo = T
      /\ \A v \in Watchers \ {w} : loop'[v] = loop[v] /\ read'[v] = read[v]
      /\ \A g \in Files : read'[w][g] = IF g = f THEN written[f] ELSE read[w][g]
  BY DEF StartTick, TypeOK, logVars, pumpVars, uiVars
<1>3. /\ OnWay(w)' = OnWay(w) \union New /\ Elems(loop'[w].queue) = New
      /\ OnWay(w) = Elems(events[w]) /\ Elems(events[w])' = Elems(events[w])
      /\ \A v \in Watchers \ {w} : OnWay(v)' = OnWay(v)
  BY <1>1, <1>2, EmptySorted DEF OnWay
<1>4. /\ written[f] \in Nat /\ read[w][f] \in Int /\ read[w][f] <= written[f]
      /\ \A v \in Watchers, g \in Files : read[v][g] \in Int /\ written[g] \in Nat
  BY Counts
<1>5. \A l \in Line : l.file \in Files /\ l.n \in Nat /\ l.n >= 1
  BY Counts
<1>a. \A l \in Line : l.n \in Pos(w, f) + 1 .. written[f] <=>
                       l.n > read[w][f] /\ l.n <= written[f]
  <2>1. Pos(w, f) = IF read[w][f] = NotAdded THEN 0 ELSE read[w][f]
    BY DEF Pos
  <2>2. CASE read[w][f] = NotAdded
    BY <1>4, <1>5, <2>1, <2>2 DEF NotAdded
  <2>3. CASE read[w][f] # NotAdded
    BY <1>4, <1>5, <2>1, <2>3
  <2>4. QED
    BY <2>2, <2>3
<1>b. \A l : l \in New <=> l \in Line /\ l.file = f /\ l.n > read[w][f] /\ l.n <= written[f]
  BY <1>a
<1> HIDE DEF New
<1>6. \A l \in New : l \in Line /\ l.file = f /\ l.n > read[w][f] /\ l.n <= written[f]
  BY <1>b
<1>7. Flow'
  <2>1. ASSUME NEW v \in Watchers, v # w
        PROVE  /\ \A g \in Files : read'[v][g] <= written'[g]
               /\ loop'[v].pc # "send" => loop'[v].queue = <<>>
               /\ \A g \in loop'[v].todo : read'[v][g] # NotAdded
               /\ Sorted(events'[v])
               /\ Sorted(loop'[v].queue)
               /\ Before(Elems(events'[v]), Elems(loop'[v].queue))
               /\ \A l \in OnWay(v)' : l.n <= read'[v][l.file]
    BY <1>2, <1>3, <2>1 DEF Flow
  <2>2. \A g \in Files : read'[w][g] <= written'[g]
    BY <1>2, <1>4 DEF Flow
  <2>3. \A g \in loop'[w].todo : read'[w][g] # NotAdded
    BY <1>2, <1>4 DEF NotAdded
  <2>4. Sorted(events'[w]) /\ Sorted(loop'[w].queue)
    BY <1>1, <1>2 DEF Flow
  <2>5. Before(Elems(events'[w]), Elems(loop'[w].queue))
    BY <1>2, <1>3, <1>4, <1>5, <1>6, OnWayLines DEF Flow, Before
  <2>6. \A l \in OnWay(w)' : l.n <= read'[w][l.file]
    BY <1>2, <1>3, <1>4, <1>5, <1>6, OnWayLines DEF Flow
  <2>7. QED
    BY <1>2, <2>1, <2>2, <2>3, <2>4, <2>5, <2>6 DEF Flow
<1>8. \A g \in Files : Active(g)' = Active(g)
  BY <1>2 DEF Active
<1>9. \A l \in Line :
        /\ Active(l.file) \in Watchers
        /\ OnWay(Active(l.file))' =
             OnWay(Active(l.file)) \union (IF Active(l.file) = w THEN New ELSE {})
        /\ Active(l.file) = w /\ l.file = f => read'[Active(l.file)][l.file] = written[f]
        /\ ~ (Active(l.file) = w /\ l.file = f) =>
             read'[Active(l.file)][l.file] = read[Active(l.file)][l.file]
  <2> SUFFICES ASSUME NEW l \in Line, NEW a \in Watchers, a = Active(l.file)
               PROVE  /\ OnWay(Active(l.file))' = OnWay(a) \union (IF a = w THEN New ELSE {})
                      /\ a = w /\ l.file = f => read'[a][l.file] = written[f]
                      /\ ~ (a = w /\ l.file = f) => read'[a][l.file] = read[a][l.file]
    BY <1>5, ActiveNamed
  <2>1. OnWay(Active(l.file))' = OnWay(a)'
    BY <1>5, <1>8 DEF OnWay
  <2>2. QED
    BY <1>2, <1>3, <1>5, <2>1
<1>10. Elems(delivered)' = Elems(delivered) /\ Elems(delivered) \subseteq Line
  BY <1>2, OnWayLines
<1>12. Front'
  <2> SUFFICES ASSUME NEW l \in Elems(delivered)
               PROVE  /\ l.n <= read'[Active(l.file)][l.file]
                      /\ Before({l}, OnWay(Active(l.file))')
    BY <1>2, <1>5, <1>8, <1>10 DEF Front, OnWay
  <2>1. l \in Line /\ l.n <= read[Active(l.file)][l.file] /\ Before({l}, OnWay(Active(l.file)))
    BY <1>10 DEF Front
  <2>2. l.n <= read'[Active(l.file)][l.file]
    BY <1>4, <1>5, <1>9, <2>1
  <2>3. QED
    BY <1>4, <1>5, <1>6, <1>9, <2>1, <2>2 DEF Before
<1>13. Lost' = Lost
  <2>1. Lost \subseteq Line /\ Lost' \subseteq Line
    BY DEF Lost
  <2>2. \A l \in Line :
          l \in Lost' <=> /\ l.n <= read'[Active(l.file)][l.file]
                          /\ l \notin Elems(delivered)
                          /\ l \notin OnWay(Active(l.file))'
    BY <1>5, <1>8, <1>10 DEF Lost, OnWay
  <2>3. ASSUME NEW l \in Line PROVE l \in Lost' <=> l \in Lost
    <3>1. CASE Active(l.file) = w /\ l.file = f
      <4>1. l \in New <=> l.n > read[w][f] /\ l.n <= written[f]
        BY <1>b, <3>1
      <4>2. QED
        BY <1>4, <1>5, <1>9, <2>2, <3>1, <4>1, LostIs
    <3>2. CASE ~ (Active(l.file) = w /\ l.file = f)
      BY <1>6, <1>9, <2>2, <3>2, LostIs
    <3>3. QED
      BY <3>1, <3>2
  <2>4. QED
    BY <2>1, <2>3
<1>14. QED
  BY <1>2, <1>7, <1>12, <1>13, StillStep DEF Moves, Asked

\* The loop sends a line: it is on the way before and after.
LEMMA SendMoves ==
  ASSUME PumpInv, NEW w \in Watchers, LoopSend(w)
  PROVE  Moves
<1> USE DEF PumpInv
<1> DEFINE q == loop[w].queue
           e == events[w]
           x == Head(q)
<1>1. /\ UNCHANGED <<written, read, delivered, cur, pump, ui, catchup>>
      /\ q # <<>> /\ q \in Seq(Line) /\ e \in Seq(Line)
      /\ events' = [events EXCEPT ![w] = Append(e, x)]
      /\ events'[w] = Append(e, x) /\ loop'[w].queue = Tail(q)
      /\ loop'[w].pc = "send" /\ loop[w].pc = "send" /\ loop'[w].todo = loop[w].todo
      /\ \A v \in Watchers \ {w} : loop'[v] = loop[v] /\ events'[v] = events[v]
  BY DEF LoopSend, TypeOK, logVars, pumpVars, uiVars
<1>2. Sorted(e) /\ Sorted(q) /\ Before(Elems(e), Elems(q)) /\ OnWay(w) = Elems(e) \union Elems(q)
  BY DEF Flow, OnWay
<1>3. \A f \in Files : Active(f)' = Active(f)
  BY <1>1 DEF Active
<1> HIDE DEF q, e
<1>4. x \in Line /\ Tail(q) \in Seq(Line) /\ Elems(q) = Elems(Tail(q)) \union {x}
  BY <1>1, ElemsTail
<1>5. Elems(Append(e, x)) = Elems(e) \union {x}
  BY <1>1, <1>4, ElemsAppend
<1>6. Sorted(Append(e, x))
  <2>1. Before(Elems(e), {x})
    BY <1>2, <1>4 DEF Before
  <2>2. QED
    BY <1>1, <1>2, <1>4, <2>1, SortedAppend
<1>7. Sorted(Tail(q)) /\ Before({x}, Elems(Tail(q)))
  BY <1>1, <1>2, SortedTail
<1>8. Before(Elems(Append(e, x)), Elems(Tail(q)))
  BY <1>2, <1>4, <1>5, <1>7 DEF Before
<1>9. \A v \in Watchers : OnWay(v)' = OnWay(v)
  <2>1. OnWay(w)' = OnWay(w)
    BY <1>1, <1>2, <1>4, <1>5 DEF OnWay
  <2>2. QED
    BY <1>1, <2>1 DEF OnWay
<1>10. Flow'
  <2> SUFFICES ASSUME NEW v \in Watchers
               PROVE  /\ \A f \in Files : read[v][f] <= written[f]
                      /\ loop'[v].pc # "send" => loop'[v].queue = <<>>
                      /\ \A f \in loop'[v].todo : read[v][f] # NotAdded
                      /\ Sorted(events'[v])
                      /\ Sorted(loop'[v].queue)
                      /\ Before(Elems(events'[v]), Elems(loop'[v].queue))
                      /\ \A l \in OnWay(v)' : l.n <= read[v][l.file]
    BY <1>1 DEF Flow
  <2>1. CASE v = w
    BY <1>1, <1>6, <1>7, <1>8, <1>9, <2>1 DEF Flow
  <2>2. CASE v # w
    BY <1>1, <1>9, <2>2 DEF Flow
  <2>3. QED
    BY <2>1, <2>2
<1>11. \A l \in Line : OnWay(Active(l.file))' = OnWay(Active(l.file))
  <2> SUFFICES ASSUME NEW l \in Line, NEW a \in Watchers, a = Active(l.file)
               PROVE  OnWay(Active(l.file))' = OnWay(a)
    BY ActiveNamed DEF Line
  <2>1. OnWay(Active(l.file))' = OnWay(a)'
    BY <1>3 DEF OnWay, Line
  <2>2. QED
    BY <1>9, <2>1
<1>12. Elems(delivered)' = Elems(delivered) /\ Elems(delivered) \subseteq Line
  BY <1>1, OnWayLines
<1>13. \A l \in Line : l.file \in Files
  BY DEF Line
<1>14. Front'
  BY <1>1, <1>3, <1>11, <1>12, <1>13 DEF Front
<1>15. Lost' = Lost
  <2>1. Lost \subseteq Line /\ Lost' \subseteq Line
    BY DEF Lost
  <2>2. \A l \in Line :
          l \in Lost' <=> /\ l.n <= read[Active(l.file)][l.file]
                          /\ l \notin Elems(delivered)
                          /\ l \notin OnWay(Active(l.file))
    BY <1>1, <1>3, <1>11, <1>12, <1>13 DEF Lost, OnWay
  <2>3. QED
    BY <2>1, <2>2, LostIs
<1>16. QED
  BY <1>1, <1>10, <1>14, <1>15, StillStep DEF Moves, Asked

\* A catch-up skips what the tailers of its watcher have not read: if that is
\* the watcher that counts, those lines are lost, and it was asked for.
LEMMA SkipMoves ==
  ASSUME PumpInv, NEW w \in Watchers, LoopServeSkip(w)
  PROVE  Moves
<1> USE DEF PumpInv
<1>1. /\ UNCHANGED <<written, loop, events, delivered, cur, pump, ui>>
      /\ catchup.pc = "wait" /\ catchup'.pc # "wait"
      /\ \A v \in Watchers \ {w} : read'[v] = read[v]
      /\ \A f \in Files : read'[w][f] = IF read[w][f] # NotAdded THEN written[f] ELSE read[w][f]
  BY DEF LoopServeSkip, TypeOK, logVars, pumpVars
<1>2. /\ \A v \in Watchers, f \in Files : /\ read[v][f] \in Int
                                          /\ written[f] \in Nat
                                          /\ read[v][f] <= written[f]
      /\ \A l \in Line : l.file \in Files /\ l.n \in Nat
  BY Counts
<1>3. \A v \in Watchers, f \in Files :
        /\ read'[v][f] \in Int /\ read[v][f] <= read'[v][f] /\ read'[v][f] <= written[f]
        /\ read'[v][f] = NotAdded <=> read[v][f] = NotAdded
  BY <1>1, <1>2 DEF NotAdded
<1>4. \A f \in Files : Active(f)' = Active(f)
  BY <1>1, <1>3 DEF Active
<1>5. \A v \in Watchers : OnWay(v)' = OnWay(v) /\ OnWay(v) \subseteq Line
  BY <1>1, OnWayLines DEF OnWay
<1>6. Flow'
  <2> SUFFICES ASSUME NEW v \in Watchers
               PROVE  /\ \A f \in loop[v].todo : read'[v][f] # NotAdded
                      /\ \A l \in OnWay(v) : l.n <= read'[v][l.file]
    BY <1>1, <1>3, <1>5 DEF Flow
  <2>1. loop[v].todo \subseteq Files /\ OnWay(v) \subseteq Line
    BY <1>5 DEF TypeOK
  <2>2. QED
    BY <1>2, <1>3, <2>1 DEF Flow
<1>7. \A l \in Line :
        /\ read'[Active(l.file)][l.file] \in Int
        /\ read[Active(l.file)][l.file] \in Int
        /\ read[Active(l.file)][l.file] <= read'[Active(l.file)][l.file]
        /\ read'[Active(l.file)][l.file] <= written[l.file]
        /\ OnWay(Active(l.file))' = OnWay(Active(l.file))
  <2> SUFFICES ASSUME NEW l \in Line, NEW a \in Watchers, a = Active(l.file)
               PROVE  /\ read'[a][l.file] \in Int /\ read[a][l.file] \in Int
                      /\ read[a][l.file] <= read'[a][l.file] /\ read'[a][l.file] <= written[l.file]
                      /\ OnWay(Active(l.file))' = OnWay(a)
    BY <1>2, ActiveNamed
  <2>1. OnWay(Active(l.file))' = OnWay(a)'
    BY <1>2, <1>4 DEF OnWay
  <2>2. QED
    BY <1>2, <1>3, <1>5, <2>1
<1>8. Elems(delivered)' = Elems(delivered) /\ Elems(delivered) \subseteq Line
  BY <1>1, OnWayLines
<1>9. Front'
  <2> SUFFICES ASSUME NEW l \in Elems(delivered)
               PROVE  /\ l.n <= read'[Active(l.file)][l.file]
                      /\ Before({l}, OnWay(Active(l.file))')
    BY <1>1, <1>2, <1>4, <1>8 DEF Front, OnWay
  <2>1. l \in Line /\ l.n <= read[Active(l.file)][l.file] /\ Before({l}, OnWay(Active(l.file)))
    BY <1>8 DEF Front
  <2>2. QED
    BY <1>2, <1>7, <2>1
<1>10. \A l \in Line :
         l \in Lost' <=> /\ l.n <= read'[Active(l.file)][l.file]
                         /\ l \notin Elems(delivered)
                         /\ l \notin OnWay(Active(l.file))
  BY <1>1, <1>2, <1>4, <1>7, <1>8 DEF Lost, OnWay
<1>11. Lost \subseteq Lost'
  <2>1. Lost \subseteq Line
    BY DEF Lost
  <2>2. QED
    BY <1>2, <1>7, <1>10, <2>1, LostIs
<1>12. \A l \in Lost' \ Lost : l \in Line /\ l.n <= written[l.file] /\ l \notin Elems(delivered)
  <2>1. Lost' \subseteq Line
    BY DEF Lost
  <2>2. QED
    BY <1>2, <1>7, <1>10, <2>1
<1>13. Asked # {} /\ Asked' \subseteq Asked
  BY <1>1 DEF Asked
<1>14. QED
  BY <1>1, <1>6, <1>9, <1>11, <1>12, <1>13, LossStep DEF Moves

\* The loop ends: it forgets its queue, which matters when its watcher is the
\* one that counts, and then the user has quit.
LEMMA EndMoves ==
  ASSUME PumpInv, NEW w \in Watchers, LoopEnd(w)
  PROVE  Moves
<1> USE DEF PumpInv
<1>1. /\ UNCHANGED <<written, read, events, delivered, cur, pump, ui, catchup>>
      /\ done[w]
      /\ loop'[w].queue = <<>> /\ loop'[w].todo = {}
      /\ \A v \in Watchers \ {w} : loop'[v] = loop[v]
  BY IdleLoops DEF LoopEnd, TypeOK, Ended, logVars, pumpVars, uiVars
<1>2. \A f \in Files : Active(f)' = Active(f)
  BY <1>1 DEF Active
<1>3. /\ \A v \in Watchers \ {w} : OnWay(v)' = OnWay(v)
      /\ OnWay(w)' \subseteq OnWay(w)
  BY <1>1, EmptySorted DEF OnWay
<1>4. Flow'
  <2> SUFFICES ASSUME NEW v \in Watchers
               PROVE  /\ \A f \in Files : read[v][f] <= written[f]
                      /\ loop'[v].pc # "send" => loop'[v].queue = <<>>
                      /\ \A f \in loop'[v].todo : read[v][f] # NotAdded
                      /\ Sorted(events[v])
                      /\ Sorted(loop'[v].queue)
                      /\ Before(Elems(events[v]), Elems(loop'[v].queue))
                      /\ \A l \in OnWay(v)' : l.n <= read[v][l.file]
    BY <1>1 DEF Flow
  <2>1. CASE v = w
    BY <1>1, <1>3, <2>1, EmptySorted DEF Flow, Before
  <2>2. CASE v # w
    BY <1>1, <1>3, <2>2 DEF Flow
  <2>3. QED
    BY <2>1, <2>2
<1>5. \A l \in Line :
        /\ l.file \in Files
        /\ OnWay(Active(l.file))' \subseteq OnWay(Active(l.file))
        /\ Active(l.file) # w => OnWay(Active(l.file))' = OnWay(Active(l.file))
  <2> SUFFICES ASSUME NEW l \in Line, NEW a \in Watchers, a = Active(l.file)
               PROVE  /\ OnWay(Active(l.file))' \subseteq OnWay(a)
                      /\ a # w => OnWay(Active(l.file))' = OnWay(a)
    BY Counts, ActiveNamed
  <2>1. OnWay(Active(l.file))' = OnWay(a)'
    BY <1>2, Counts DEF OnWay
  <2>2. QED
    BY <1>3, <2>1
<1>6. Elems(delivered)' = Elems(delivered) /\ Elems(delivered) \subseteq Line
  BY <1>1, OnWayLines
<1>7. Front'
  <2> SUFFICES ASSUME NEW l \in Elems(delivered)
               PROVE  /\ l.n <= read[Active(l.file)][l.file]
                      /\ Before({l}, OnWay(Active(l.file))')
    BY <1>1, <1>2, <1>5, <1>6 DEF Front, OnWay
  <2>1. l \in Line /\ l.n <= read[Active(l.file)][l.file] /\ Before({l}, OnWay(Active(l.file)))
    BY <1>6 DEF Front
  <2>2. QED
    BY <1>5, <2>1 DEF Before
<1>8. \A l \in Line :
        l \in Lost' <=> /\ l.n <= read[Active(l.file)][l.file]
                        /\ l \notin Elems(delivered)
                        /\ l \notin OnWay(Active(l.file))'
  BY <1>1, <1>2, <1>5, <1>6 DEF Lost, OnWay
<1>9. Lost \subseteq Line /\ Lost' \subseteq Line
  BY DEF Lost
<1>10. Asked' = Asked
  BY <1>1 DEF Asked
<1>11. CASE \A f \in Files : Active(f) # w
  <2>1. Lost' = Lost
    BY <1>5, <1>8, <1>9, <1>11, LostIs
  <2>2. QED
    BY <1>1, <1>4, <1>7, <1>10, <2>1, StillStep DEF Moves
<1>12. CASE \E f \in Files : Active(f) = w
  <2>1. PICK f \in Files : Active(f) = w
    BY <1>12
  <2>2. cur \in Nat /\ w \in Nat
    BY DEF TypeOK, Watchers
  <2>3. w < cur \/ (w = cur /\ pump.pc \in {"replace", "closing", "stopped"})
    BY <1>1 DEF Hands
  <2>4. w = cur
    BY <2>1, <2>2, <2>3 DEF Active
  <2>5. pump.pc # "replace"
    BY <2>1, <2>2, <2>4 DEF Active
  <2>6. ui.pc = "exited"
    BY <2>2, <2>3, <2>4, <2>5 DEF Hands
  <2>7. Asked # {}
    BY <2>6 DEF Asked
  <2>8. Lost \subseteq Lost'
    BY <1>5, <1>8, <1>9, LostIs
  <2>9. \A l \in Lost' \ Lost : l \in Line /\ l.n <= written[l.file] /\ l \notin Elems(delivered)
    <3> SUFFICES ASSUME NEW l \in Lost' PROVE l \in Line /\ l.n <= written[l.file] /\ l \notin Elems(delivered)
      OBVIOUS
    <3>1. l \in Line /\ l.n <= read[Active(l.file)][l.file] /\ l \notin Elems(delivered)
      BY <1>8, <1>9
    <3>2. Active(l.file) \in Watchers
      BY <3>1, Counts, ActiveNamed
    <3>3. QED
      BY <3>1, <3>2, Counts
  <2>10. QED
    BY <1>1, <1>4, <1>7, <1>10, <2>7, <2>8, <2>9, LossStep DEF Moves
<1>13. QED
  BY <1>11, <1>12

\* Every step of a loop goroutine.
LEMMA LoopMoves ==
  ASSUME PumpInv, NEW w \in Watchers, Loop(w)
  PROVE  Moves
<1> USE DEF PumpInv
<1>1. CASE LoopFsEvent(w) \/ LoopNewFile(w) \/ (LoopPollFile(w) /\ loop[w].todo # {})
  BY <1>1, TickPicks, TickMoves
<1>2. CASE LoopPoll(w) \/ LoopSent(w) \/ (LoopPollFile(w) /\ loop[w].todo = {})
  <2>1. /\ UNCHANGED <<written, read, events, delivered, cur, pump, ui, catchup>>
        /\ \A v \in Watchers \ {w} : loop'[v] = loop[v]
        /\ loop'[w].queue = <<>> /\ loop[w].queue = <<>>
        /\ \A f \in loop'[w].todo : read[w][f] # NotAdded
    <3>1. CASE LoopPoll(w)
      BY <3>1 DEF LoopPoll, TypeOK, Flow, logVars, pumpVars, uiVars
    <3>2. CASE LoopSent(w)
      BY <3>2 DEF LoopSent, TypeOK, Flow, logVars, pumpVars, uiVars
    <3>3. CASE LoopPollFile(w) /\ loop[w].todo = {}
      BY <3>3, IdleLoops DEF LoopPollFile, TypeOK, Flow, logVars, pumpVars, uiVars
    <3>4. QED
      BY <1>2, <3>1, <3>2, <3>3
  <2>2. \A f \in Files : Active(f)' = Active(f)
    BY <2>1 DEF Active
  <2>3. Flow' /\ Front' /\ Lost' = Lost
    BY <2>1, <2>2, Still DEF Flow
  <2>4. QED
    BY <2>1, <2>3, StillStep DEF Moves, Asked
<1>3. QED
  BY <1>1, <1>2, SendMoves, SkipMoves, EndMoves DEF Loop, LoopWork

\* The pump hands on the head of the channel, which is the oldest pending line
\* of its file.
LEMMA LineMoves ==
  ASSUME PumpInv, PumpLine
  PROVE  Moves
<1> USE DEF PumpInv
<1> DEFINE e == events[cur]
           x == Head(e)
<1>1. /\ UNCHANGED <<written, read, loop, cur, pump, ui, catchup>>
      /\ pump.pc = "select" /\ cur \in Watchers /\ e \in Seq(Line) /\ e # <<>>
      /\ delivered' = Append(delivered, x) /\ delivered \in Seq(Line)
      /\ events'[cur] = Tail(e)
      /\ \A v \in Watchers \ {cur} : events'[v] = events[v]
  BY DEF PumpLine, TypeOK, logVars, uiVars
<1>2. \A f \in Files : Active(f) = cur /\ Active(f)' = cur
  BY <1>1 DEF Active
<1>3. x \in Line /\ Tail(e) \in Seq(Line) /\ Elems(e) = Elems(Tail(e)) \union {x}
  BY <1>1, ElemsTail
<1>4. Sorted(e) /\ Sorted(Tail(e)) /\ Before({x}, Elems(Tail(e)))
  <2>1. Sorted(e)
    BY <1>1 DEF Flow
  <2>2. QED
    BY <1>1, <2>1, SortedTail
<1>5. Elems(delivered') = Elems(delivered) \union {x}
  BY <1>1, <1>3, ElemsAppend
<1>6. Before(Elems(e), Elems(loop[cur].queue)) /\ x \in Elems(e)
  BY <1>1, <1>3 DEF Flow
<1>7. OnWay(cur) = OnWay(cur)' \union {x}
  BY <1>1, <1>3 DEF OnWay
<1>8. Before({x}, OnWay(cur)')
  <2>1. OnWay(cur)' = Elems(Tail(e)) \union Elems(loop[cur].queue)
    BY <1>1 DEF OnWay
  <2>2. QED
    BY <1>4, <1>6, <2>1 DEF Before
<1>9. \A l \in Line : l.file \in Files /\ l.n \in Nat
  BY Counts
<1>10. Elems(delivered) \subseteq Line /\ OnWay(cur) \subseteq Line
  BY <1>1, OnWayLines
<1>11. \A l \in Elems(delivered) : l.n <= read[cur][l.file] /\ Before({l}, OnWay(cur))
  BY <1>2, <1>9, <1>10 DEF Front
<1>12. x \in OnWay(cur) /\ x.n <= read[cur][x.file]
  BY <1>1, <1>7 DEF Flow
<1> HIDE DEF e, x
<1>13. x \notin Elems(delivered)
  BY <1>9, <1>11, <1>12, <1>3 DEF Before
<1>14. Flow'
  <2> SUFFICES ASSUME NEW v \in Watchers
               PROVE  /\ Sorted(events'[v])
                      /\ Before(Elems(events'[v]), Elems(loop[v].queue))
                      /\ \A l \in OnWay(v)' : l.n <= read[v][l.file]
    BY <1>1 DEF Flow
  <2>1. CASE v = cur
    <3>1. Before(Elems(Tail(e)), Elems(loop[cur].queue))
      BY <1>3, <1>6 DEF Before
    <3>2. \A l \in OnWay(cur)' : l.n <= read[cur][l.file]
      BY <1>1, <1>7 DEF Flow
    <3>3. QED
      BY <1>1, <1>4, <2>1, <3>1, <3>2
  <2>2. CASE v # cur
    BY <1>1, <2>2 DEF Flow, OnWay
  <2>3. QED
    BY <2>1, <2>2
<1>15. Front'
  <2>1. Sorted(delivered')
    <3>1. Before(Elems(delivered), {x})
      BY <1>11, <1>12 DEF Before
    <3>2. QED
      BY <1>1, <1>3, <3>1, SortedAppend DEF Front
  <2>2. ASSUME NEW l \in Elems(delivered')
        PROVE  l.n <= read[cur][l.file] /\ Before({l}, OnWay(cur)')
    <3>1. CASE l \in Elems(delivered)
      BY <1>7, <1>11, <3>1 DEF Before
    <3>2. CASE l = x
      BY <1>8, <1>12, <3>2
    <3>3. QED
      BY <1>5, <2>2, <3>1, <3>2
  <2>3. \A l \in Elems(delivered') : l.file \in Files
    BY <1>3, <1>5, <1>9, <1>10
  <2>4. \A f \in Files : OnWay(Active(f))' = OnWay(cur)'
    BY <1>1, <1>2 DEF OnWay
  <2>5. QED
    BY <1>1, <1>2, <2>1, <2>2, <2>3, <2>4 DEF Front
<1>16. \A l \in Line : l \in Lost <=> /\ l.n <= read[cur][l.file]
                                     /\ l \notin Elems(delivered)
                                     /\ l \notin OnWay(cur)
  BY <1>2, <1>9, LostIs
<1>17. Lost' = Lost /\ Lost \subseteq Line
  <2>1. Lost \subseteq Line /\ Lost' \subseteq Line
    BY DEF Lost
  <2>2. \A l \in Line :
          l \in Lost' <=> /\ l.n <= read[cur][l.file]
                          /\ l \notin Elems(delivered')
                          /\ l \notin OnWay(cur)'
    BY <1>1, <1>2, <1>9 DEF Lost, OnWay
  <2>3. QED
    BY <1>5, <1>7, <1>16, <2>1, <2>2
<1>18. D!Deliver(x)
  <2>1. D!Line = Line /\ D!Out = Elems(delivered)
    BY DEF D!Line, Line, D!Out, Elems
  <2>2. x \in D!Pending
    <3>1. x.n <= written[x.file]
      BY <1>1, <1>3, <1>12, Counts
    <3>2. QED
      BY <1>3, <1>12, <1>13, <1>16, <2>1, <3>1 DEF D!Pending
  <2>3. ASSUME NEW k \in D!Pending, k.file = x.file
        PROVE  x.n <= k.n
    <3>1. k \in Line /\ k.n <= written[k.file] /\ k \notin Elems(delivered) /\ k \notin Lost
      BY <2>1 DEF D!Pending
    <3>2. CASE k \in OnWay(cur)
      <4>1. CASE k = x
        BY <1>3, <1>9, <4>1
      <4>2. CASE k # x
        BY <1>3, <1>7, <1>8, <1>9, <2>3, <3>1, <3>2, <4>2 DEF Before
      <4>3. QED
        BY <4>1, <4>2
    <3>3. CASE k \notin OnWay(cur)
      <4>1. ~ (k.n <= read[cur][k.file])
        BY <1>16, <3>1, <3>3
      <4>2. read[cur][k.file] \in Int /\ k.n \in Nat /\ x.n \in Nat
        BY <1>1, <1>3, <1>9, <3>1, Counts
      <4>3. QED
        BY <1>12, <2>3, <4>1, <4>2
    <3>4. QED
      BY <3>2, <3>3
  <2>4. QED
    BY <1>1, <1>17, <2>2, <2>3 DEF D!Deliver, Asked
<1>19. x \in D!Line
  BY <1>3 DEF D!Line, Line
<1>20. QED
  BY <1>14, <1>15, <1>18, <1>19 DEF Moves, D!Next

\* A rebuild adds a file at its end: from now on the new watcher counts for it,
\* and what the old one had not handed on is lost.
LEMMA AddMoves ==
  ASSUME PumpInv, PumpAdd
  PROVE  Moves
<1> USE DEF PumpInv
<1>1. PICK f \in pump.todo :
        /\ read' = [read EXCEPT ![cur + 1][f] = written[f]]
        /\ pump' = [pump EXCEPT !.todo = @ \ {f}]
  BY DEF PumpAdd
<1> DEFINE n == cur + 1
<1>2. /\ pump.pc = "add" /\ pump'.pc = "add" /\ f \in Files
      /\ pump'.todo = pump.todo \ {f}
      /\ UNCHANGED <<written, loop, events, delivered, cur, ui, catchup>>
  BY <1>1 DEF PumpAdd, TypeOK, logVars, uiVars
<1>3. n \in Watchers /\ cur \in Watchers /\ cur \in Nat /\ n # cur
  <2>1. Rebuilding /\ Counted
    BY <1>2 DEF Hands, Rebuilding
  <2>2. n \in Watchers
    BY <2>1, NextNamed
  <2>3. cur \in Watchers
    BY DEF TypeOK
  <2>4. cur \in Nat
    BY <2>3, PumpAssumption DEF Watchers
  <2>5. QED
    BY <2>2, <2>3, <2>4
<1>4. read[n][f] = NotAdded
  BY <1>1, <1>2 DEF Hands
<1>5. /\ \A v \in Watchers \ {n} : read'[v] = read[v]
      /\ \A g \in Files : read'[n][g] = IF g = f THEN written[f] ELSE read[n][g]
  BY <1>1, <1>2, <1>3 DEF TypeOK
<1>6. written[f] \in Nat /\ written[f] # NotAdded /\ read[cur][f] \in Int /\ read[cur][f] <= written[f]
  BY <1>2, <1>3, Counts DEF NotAdded
<1>7. Active(f) = cur /\ Active(f)' = n
  BY <1>1, <1>2 DEF Active
<1>8. \A g \in Files \ {f} : Active(g)' = Active(g)
  BY <1>2 DEF Active
<1> HIDE DEF n
<1>9. \A v \in Watchers : OnWay(v)' = OnWay(v) /\ OnWay(v) \subseteq Line
  BY <1>2, OnWayLines DEF OnWay
<1>10. \A l \in OnWay(n) : l.file # f
  <2> SUFFICES ASSUME NEW l \in OnWay(n), l.file = f PROVE FALSE
    OBVIOUS
  <2>1. l \in Line /\ l.n <= NotAdded
    BY <1>3, <1>4, <1>9 DEF Flow
  <2>2. QED
    BY <2>1, Counts DEF NotAdded
<1>11. Flow'
  <2> SUFFICES ASSUME NEW v \in Watchers
               PROVE  /\ \A g \in Files : read'[v][g] <= written[g]
                      /\ \A g \in loop[v].todo : read'[v][g] # NotAdded
                      /\ \A l \in OnWay(v) : l.n <= read'[v][l.file]
    BY <1>2, <1>9 DEF Flow
  <2>1. CASE v # n
    BY <1>5, <2>1 DEF Flow
  <2>2. CASE v = n
    <3>1. \A g \in Files : read'[n][g] <= written[g]
      BY <1>3, <1>5, <1>6 DEF Flow
    <3>2. \A g \in loop[n].todo : read'[n][g] # NotAdded
      <4>1. loop[n].todo \subseteq Files /\ \A g \in loop[n].todo : read[n][g] # NotAdded
        BY <1>3 DEF TypeOK, Flow
      <4>2. QED
        BY <1>4, <1>5, <4>1
    <3>3. \A l \in OnWay(n) : l.n <= read'[n][l.file]
      <4> SUFFICES ASSUME NEW l \in OnWay(n) PROVE l.n <= read'[n][l.file]
        OBVIOUS
      <4>1. l.file # f /\ l.file \in Files /\ l.n <= read[n][l.file]
        BY <1>3, <1>9, <1>10, Counts DEF Flow
      <4>2. QED
        BY <1>5, <4>1
    <3>4. QED
      BY <2>2, <3>1, <3>2, <3>3
  <2>3. QED
    BY <2>1, <2>2
<1>12. Elems(delivered)' = Elems(delivered) /\ Elems(delivered) \subseteq Line
  BY <1>2, <1>3, OnWayLines
<1>13. \A g \in Files : OnWay(Active(g))' = IF g = f THEN OnWay(n) ELSE OnWay(Active(g))
  <2> SUFFICES ASSUME NEW g \in Files
               PROVE  OnWay(Active(g))' = IF g = f THEN OnWay(n) ELSE OnWay(Active(g))
    OBVIOUS
  <2>1. CASE g = f
    BY <1>2, <1>7, <2>1 DEF OnWay
  <2>2. CASE g # f
    BY <1>2, <1>8, <2>2 DEF OnWay
  <2>3. QED
    BY <2>1, <2>2
<1>14. \A g \in Files \ {f} : read'[Active(g)'][g] = read[Active(g)][g]
  <2> SUFFICES ASSUME NEW g \in Files \ {f}, NEW a \in Watchers, a = Active(g)
               PROVE  read'[a][g] = read[a][g]
    BY <1>8, ActiveNamed
  <2>1. QED
    BY <1>5
<1>15. Front'
  <2> SUFFICES ASSUME NEW l \in Elems(delivered)
               PROVE  /\ l.n <= read'[Active(l.file)'][l.file]
                      /\ Before({l}, OnWay(Active(l.file))')
    BY <1>2, <1>12 DEF Front, OnWay
  <2>1. l \in Line /\ l.file \in Files /\ l.n \in Nat
    BY <1>12, Counts
  <2>2. l.n <= read[Active(l.file)][l.file] /\ Before({l}, OnWay(Active(l.file)))
    BY DEF Front
  <2>3. CASE l.file = f
    <3>1. l.n <= read'[n][f]
      BY <1>2, <1>5, <1>6, <1>7, <2>1, <2>2, <2>3
    <3>2. Before({l}, OnWay(n))
      BY <1>10, <2>3 DEF Before
    <3>3. QED
      BY <1>7, <1>13, <2>1, <2>3, <3>1, <3>2
  <2>4. CASE l.file # f
    BY <1>13, <1>14, <2>1, <2>2, <2>4
  <2>5. QED
    BY <2>3, <2>4
<1>16. Lost \subseteq Line /\ Lost' \subseteq Line
  BY DEF Lost
<1>17. \A l \in Line :
         l \in Lost' <=> /\ l.n <= read'[Active(l.file)'][l.file]
                         /\ l \notin Elems(delivered)
                         /\ l \notin OnWay(Active(l.file))'
  BY <1>2, <1>12 DEF Lost, OnWay
<1>18. ASSUME NEW l \in Line
       PROVE  /\ l \in Lost => l \in Lost'
              /\ l \in Lost' => l \in Lost \/ (l.n <= written[l.file] /\ l \notin Elems(delivered))
  <2>1. CASE l.file = f
    <3>1. read'[Active(l.file)'][l.file] = written[f] /\ OnWay(Active(l.file))' = OnWay(n)
      BY <1>2, <1>5, <1>7, <1>13, <2>1
    <3>2. l \notin OnWay(n)
      BY <1>10, <2>1
    <3>3. l \in Lost => l.n <= read[cur][f] /\ l \notin Elems(delivered)
      BY <1>7, <2>1, LostIs
    <3>4. QED
      BY <1>6, <1>17, <2>1, <3>1, <3>2, <3>3, Counts
  <2>2. CASE l.file # f
    BY <1>13, <1>14, <1>17, <2>2, Counts, LostIs
  <2>3. QED
    BY <2>1, <2>2
<1>19. Asked # {} /\ Asked' = Asked
  BY <1>2 DEF Asked
<1>20. QED
  BY <1>2, <1>11, <1>15, <1>16, <1>18, <1>19, LossStep DEF Moves

\* The other steps of the pump move no line; the new watcher takes over when it
\* already counts for every file.
LEMMA PumpMoves == PumpInv /\ Pump => Moves
<1> SUFFICES ASSUME PumpInv, Pump PROVE Moves
  OBVIOUS
<1> USE DEF PumpInv
<1>1. CASE PumpReload
  <2>1. PICK kind \in ReloadKinds :
          /\ pump' = CASE kind = "bad"      -> pump
                       [] kind = "same"     -> [pump EXCEPT !.pc = "setfile"]
                       [] kind = "builderr" -> [pump EXCEPT !.pc = "publish"]
                       [] kind = "changed"  -> [pc |-> "add", todo |-> Present]
          /\ loop' = IF kind = "changed" THEN [loop EXCEPT ![cur + 1] = Selecting] ELSE loop
    BY <1>1, PumpAssumption DEF PumpReload, TypeOK
  <2>2. pump.pc = "select" /\ UNCHANGED <<written, read, events, delivered, cur, ui, catchup>>
    BY <1>1 DEF PumpReload, logVars, uiVars
  <2>3. cur + 1 \in Watchers => Unborn(cur + 1)
    <3>1. cur + 1 = cur + 1 /\ ~ Rebuilding
      BY <2>2 DEF Rebuilding
    <3>2. QED
      BY <3>1 DEF Hands
  <2>4. \A w \in Watchers :
          /\ loop'[w].queue = loop[w].queue
          /\ loop'[w].pc # "send" => loop'[w].queue = <<>>
          /\ \A f \in loop'[w].todo : read[w][f] # NotAdded
    <3> SUFFICES ASSUME NEW w \in Watchers
                 PROVE  /\ loop'[w].queue = loop[w].queue
                        /\ loop'[w].pc # "send" => loop'[w].queue = <<>>
                        /\ \A f \in loop'[w].todo : read[w][f] # NotAdded
      OBVIOUS
    <3>1. CASE loop'[w] = loop[w]
      BY <3>1 DEF Flow
    <3>2. CASE w = cur + 1 /\ loop'[w] = Selecting
      BY <2>3, <3>2, IdleLoops DEF Unborn
    <3>3. QED
      BY <2>1, <3>1, <3>2 DEF TypeOK
  <2>5. \A f \in Files :
          \/ Active(f)' = Active(f)
          \/ Active(f)' \in Watchers /\ written[f] = 0
    <3>1. CASE kind = "changed"
      <4>1. pump'.pc = "add" /\ pump'.todo = Present /\ cur + 1 \in Watchers
        <5>1. Hands' /\ TypeOK'
          BY StepHands, StepTypes, <1>1 DEF Next, Pump
        <5>2. pump' = [pc |-> "add", todo |-> Present]
          BY <2>1, <3>1
        <5>3. Rebuilding' /\ Counted'
          BY <5>1, <5>2 DEF Rebuilding, Hands
        <5>4. (TypeOK /\ Counted /\ Rebuilding => cur + 1 \in Watchers)'
          BY NextNamed, PTL
        <5>5. QED
          BY <2>2, <5>1, <5>2, <5>3, <5>4 DEF Watchers
      <4>2. \A f \in Files : f \notin Present => written[f] = 0
        BY Counts DEF Present
      <4>3. QED
        BY <2>2, <4>1, <4>2 DEF Active
    <3>2. CASE kind # "changed"
      <4>1. pump'.pc \notin {"add", "close", "replace"}
        <5>1. pump' \in {pump, [pump EXCEPT !.pc = "setfile"], [pump EXCEPT !.pc = "publish"]}
          BY <2>1, <3>2 DEF ReloadKinds
        <5>2. QED
          BY <2>2, <5>1 DEF TypeOK
      <4>2. QED
        BY <2>2, <4>1 DEF Active
    <3>3. QED
      BY <3>1, <3>2
  <2>6. Flow' /\ Front' /\ Lost' = Lost
    BY <2>2, <2>4, <2>5, Still
  <2>7. (\E r \in D!Requests : Asked' = Asked \union {r}) \/ Asked' \subseteq Asked
    <3>1. CASE pump'.pc = "add"
      <4>1. Asked' = Asked \union {"rebuild"}
        BY <2>2, <3>1 DEF Asked
      <4>2. QED
        BY <4>1 DEF D!Requests
    <3>2. CASE pump'.pc # "add"
      BY <2>2, <3>2 DEF Asked
    <3>3. QED
      BY <3>1, <3>2
  <2>8. QED
    BY <2>2, <2>6, <2>7, StillStep DEF Moves
<1>2. CASE PumpReplace
  <2>1. /\ pump.pc = "replace" /\ cur' = cur + 1 /\ pump'.pc = "publish"
        /\ UNCHANGED <<written, read, loop, events, delivered, ui, catchup>>
    BY <1>2 DEF PumpReplace, Go, TypeOK, logVars, watchVars, uiVars
  <2>4. \A f \in Files : Active(f)' = Active(f)
    BY <2>1 DEF Active
  <2>5. Flow' /\ Front' /\ Lost' = Lost
    BY <2>1, <2>4, Still DEF Flow
  <2>6. Asked' \subseteq Asked
    BY <2>1 DEF Asked
  <2>7. QED
    BY <2>1, <2>5, <2>6, StillStep DEF Moves
<1>3. CASE \/ PumpSetFileMatcher \/ PumpSetDirMatcher \/ PumpWatchDir \/ PumpClose
           \/ PumpPublish \/ PumpNotify \/ PumpQuit \/ PumpStopped
  <2>1. /\ UNCHANGED <<written, read, loop, events, delivered, cur, ui, catchup>>
        /\ pump'.pc # "add"
        /\ \/ {pump.pc, pump'.pc} \intersect {"add", "close", "replace"} = {}
           \/ pump.pc = "add" /\ pump.todo = {} /\ pump'.pc = "close"
           \/ pump.pc = "close" /\ pump'.pc = "replace"
    BY <1>3 DEF PumpSetFileMatcher, PumpSetDirMatcher, PumpWatchDir, PumpClose, PumpPublish,
                PumpNotify, PumpQuit, PumpStopped, PumpLocked, Go, TypeOK,
                logVars, watchVars, uiVars
  <2>2. \A f \in Files : Active(f)' = Active(f)
    BY <2>1 DEF Active
  <2>3. Flow' /\ Front' /\ Lost' = Lost
    BY <2>1, <2>2, Still DEF Flow
  <2>4. Asked' \subseteq Asked
    BY <2>1 DEF Asked
  <2>5. QED
    BY <2>1, <2>3, <2>4, StillStep DEF Moves
<1>4. QED
  BY <1>1, <1>2, <1>3, LineMoves, AddMoves DEF Pump, PumpBusy

-----------------------------------------------------------------------------
\* The invariant holds at the start, where nothing is on its way.
LEMMA PumpInvInit == Init => PumpInv /\ D!Init
<1> SUFFICES ASSUME Init PROVE PumpInv /\ D!Init
  OBVIOUS
<1>1. TypeOK
  BY PumpInitTypes
<1>2. /\ MaxReloads \in Nat /\ MaxLines \in Nat /\ 1 \in Watchers /\ cur = 1 /\ pump.pc = "select"
      /\ delivered = <<>> /\ ui.pc = "idle" /\ catchup.pc = "idle"
      /\ \A w \in Watchers : events[w] = <<>> /\ ~ done[w]
      /\ \A w \in Watchers, f \in Files : /\ read[w][f] \in {0, NotAdded}
                                          /\ w # 1 => read[w][f] = NotAdded
      /\ \A w \in Watchers : told[w] = {}
      /\ \A f \in Files : written[f] = 0
  BY PumpAssumption DEF Init, Watchers
<1>3. \A w \in Watchers :
        /\ loop[w].queue = <<>> /\ loop[w].todo = {}
        /\ w # 1 => loop[w].pc = "none"
  BY IdleLoops DEF Init
<1>4. \A w \in Watchers : OnWay(w) = {}
  BY <1>2, <1>3, EmptySorted DEF OnWay
<1>5. Flow
  BY <1>2, <1>3, <1>4, EmptySorted DEF Flow, Before, NotAdded
<1>6. Front
  BY <1>2, EmptySorted DEF Front
<1>7. Hands
  <2>1. Counted
    BY <1>2 DEF Counted, Init
  <2>2. \A w \in Watchers : w # 1 => Unborn(w)
    BY <1>2, <1>3 DEF Unborn
  <2>3. QED
    BY <1>2, <2>1, <2>2 DEF Hands, Rebuilding, NotAdded
<1>8. D!Init
  <2>1. Lost = {}
    <3>1. \A l \in Line : l.file \in Files /\ l.n \in Nat /\ l.n >= 1
      BY <1>2 DEF Line
    <3>2. \A f \in Files : read[Active(f)][f] \in {0, NotAdded}
      BY <1>2 DEF Active
    <3>3. QED
      BY <3>1, <3>2 DEF Lost, NotAdded
  <2>2. Asked = {}
    BY <1>2 DEF Asked
  <2>3. QED
    BY <1>2, <2>1, <2>2 DEF D!Init, Init
<1>9. QED
  BY <1>1, <1>5, <1>6, <1>7, <1>8 DEF PumpInv

\* Every step keeps it, and is a step of the queue or none.
LEMMA PumpInvStep == PumpInv /\ [Next]_vars => PumpInv' /\ [D!Next]_(D!vars)
<1> SUFFICES ASSUME PumpInv, [Next]_vars PROVE PumpInv' /\ [D!Next]_(D!vars)
  OBVIOUS
<1>1. TypeOK' /\ Hands'
  BY StepTypes, StepHands
<1>2. Moves
  BY UiMoves, WriteMoves, LoopMoves, PumpMoves DEF Next
<1>3. QED
  BY <1>1, <1>2 DEF PumpInv, Moves

\* Types are kept (watcher.go, main.go runWatchTUI); in particular the channel
\* never holds more than its capacity.
THEOREM PumpTypeCorrect == Spec => []TypeOK
<1>1. PumpInv => TypeOK
  BY DEF PumpInv
<1>2. QED
  BY PumpInvInit, PumpInvStep, <1>1, PTL DEF Spec

\* Tailers, channel, pump, catch-ups and watchers that replace one another are a
\* queue of each file's lines, from which a line goes missing only while a
\* catch-up is served, a rebuild adds the file, or after the user quit.
THEOREM PumpIsAQueue == Spec => ImplementsDelivery
<1>1. Init => D!Init
  BY PumpInvInit
<1>2. QED
  BY PumpInvInit, PumpInvStep, <1>1, PTL DEF Spec, ImplementsDelivery, D!Spec

\* So lines of one file come out in the order they were written, none twice, at
\* any moment and whatever the number of watchers that have read the file.
THEOREM PumpOnceInOrder == Spec => []D!OnceInOrder
<1>1. PumpInv => D!OnceInOrder
  BY DEF PumpInv, Front, Sorted, D!OnceInOrder
<1>2. QED
  BY PumpInvInit, PumpInvStep, <1>1, PTL DEF Spec

-----------------------------------------------------------------------------
(* Catch-ups.                                                               *)

\* As long as there is one watcher, what a catch-up skipped is lost.
SkipsAreLosses == reloads = 0 => skipped \subseteq Lost

\* The elements of two sequences.
LEMMA ElemsConcat ==
  ASSUME NEW s \in Seq(Line), NEW t \in Seq(Line)
  PROVE  s \o t \in Seq(Line) /\ Elems(s \o t) = Elems(s) \union Elems(t)
<1>1. /\ Len(s) \in Nat /\ Len(t) \in Nat /\ s \o t \in Seq(Line)
      /\ Len(s \o t) = Len(s) + Len(t)
      /\ \A i \in 1 .. Len(s) : (s \o t)[i] = s[i]
      /\ \A i \in 1 .. Len(t) : (s \o t)[Len(s) + i] = t[i]
  OBVIOUS
<1>2. Elems(s \o t) \subseteq Elems(s) \union Elems(t)
  <2> SUFFICES ASSUME NEW i \in 1 .. Len(s \o t) PROVE (s \o t)[i] \in Elems(s) \union Elems(t)
    BY DEF Elems
  <2>1. CASE i \in 1 .. Len(s)
    BY <1>1, <2>1 DEF Elems
  <2>2. CASE i \notin 1 .. Len(s)
    <3>1. i - Len(s) \in 1 .. Len(t) /\ i = Len(s) + (i - Len(s))
      BY <1>1, <2>2
    <3>2. (s \o t)[i] = t[i - Len(s)]
      BY <1>1, <3>1
    <3>3. QED
      BY <3>1, <3>2 DEF Elems
  <2>3. QED
    BY <2>1, <2>2
<1>3. Elems(s) \subseteq Elems(s \o t)
  <2>1. \A i \in 1 .. Len(s) : i \in 1 .. Len(s \o t)
    BY <1>1
  <2>2. QED
    BY <1>1, <2>1 DEF Elems
<1>4. Elems(t) \subseteq Elems(s \o t)
  <2>1. \A i \in 1 .. Len(t) : Len(s) + i \in 1 .. Len(s \o t)
    BY <1>1
  <2>2. QED
    BY <1>1, <2>1 DEF Elems
<1>5. QED
  BY <1>1, <1>2, <1>3, <1>4

\* Before the first reload there is one watcher, which counts for every file.
LEMMA FirstWatcher ==
  ASSUME PumpInv, reloads = 0
  PROVE  /\ \A f \in Files : Active(f) = cur
         /\ \A w \in Watchers : w # cur => Unborn(w)
<1>1. cur \in Watchers /\ cur \in Nat /\ changes \in 0 .. 1 /\ Counted
  BY DEF PumpInv, TypeOK, Watchers, Hands
<1>2. cur = 1 /\ ~ Rebuilding
  BY <1>1 DEF Counted, Rebuilding, Watchers
<1>3. ASSUME NEW w \in Watchers, w # cur PROVE Unborn(w)
  <2>1. w > cur + 1 \/ w = cur + 1
    BY <1>2, <1>3 DEF Watchers
  <2>2. QED
    BY <1>2, <2>1 DEF PumpInv, Hands
<1>4. \A f \in Files : Active(f) = cur
  BY <1>2 DEF Active, Rebuilding
<1>5. QED
  BY <1>3, <1>4

\* A catch-up skips what the tailers had yet to read, which is then lost.
LEMMA SkipLoses ==
  ASSUME PumpInv, PumpInv', reloads = 0, NEW w \in Watchers, LoopServeSkip(w)
  PROVE  skipped' \subseteq skipped \union Lost'
<1> DEFINE new == {l \in Line : /\ l.file \in {f \in Files : read[w][f] # NotAdded}
                                /\ l.n \in read[w][l.file] + 1 .. written[l.file]}
<1>1. /\ skipped' = skipped \union new /\ loop[w].pc = "select"
      /\ UNCHANGED <<written, loop, events, delivered, cur, pump, reloads>>
      /\ \A f \in Files : read[w][f] # NotAdded => read'[w][f] = written[f]
  BY DEF LoopServeSkip, logVars, pumpVars, PumpInv, TypeOK
<1>2. w = cur
  BY <1>1, FirstWatcher DEF Unborn
<1>3. \A f \in Files : Active(f) = cur /\ Active(f)' = cur
  <2>1. \A f \in Files : Active(f) = cur
    BY FirstWatcher
  <2>2. QED
    BY <1>1, <2>1 DEF Active
<1>4. ASSUME NEW l \in new PROVE l \in Lost'
  <2>1. l \in Line /\ l.file \in Files /\ l.n \in Nat /\ read[cur][l.file] \in Int
        /\ read[cur][l.file] # NotAdded /\ l.n > read[cur][l.file] /\ l.n <= written[l.file]
    BY <1>2, Counts
  <2>2. l \notin OnWay(cur)
    BY <1>2, <2>1 DEF PumpInv, Flow
  <2>3. l \notin Elems(delivered)
    <3>1. l \in Elems(delivered) => l.n <= read[Active(l.file)][l.file]
      BY DEF PumpInv, Front
    <3>2. Active(l.file) = cur
      BY <1>3, <2>1
    <3>3. QED
      BY <2>1, <3>1, <3>2
  <2>4. l.n <= read'[cur][l.file]
    BY <1>1, <1>2, <2>1
  <2>5. QED
    BY <1>1, <1>3, <2>1, <2>2, <2>3, <2>4 DEF Lost, OnWay
<1>5. QED
  BY <1>1, <1>4

\* Losses are for ever, and nothing but a catch-up skips.
LEMMA SkipStep ==
  PumpInv /\ PumpInv' /\ SkipsAreLosses /\ [Next]_vars /\ [D!Next]_(D!vars) => SkipsAreLosses'
<1> SUFFICES ASSUME PumpInv, PumpInv', SkipsAreLosses, [Next]_vars, [D!Next]_(D!vars),
                    reloads' = 0
             PROVE  skipped' \subseteq Lost'
  BY DEF SkipsAreLosses
<1>1. Lost \subseteq Lost'
  BY DEF D!Next, D!vars, D!Write, D!Deliver, D!Ask, D!GiveUp
<1>2. reloads = 0
  <2>1. reloads \in Nat
    BY DEF PumpInv, TypeOK
  <2>2. reloads' = reloads \/ reloads' = reloads + 1
    <3>1. CASE \E w \in Watchers : Loop(w)
      BY <3>1, LoopLocal DEF PumpInv
    <3>2. CASE Pump
      BY <3>2 DEF Pump, PumpBusy, PumpLine, PumpReload, PumpQuit, PumpSetFileMatcher,
                  PumpSetDirMatcher, PumpAdd, PumpWatchDir, PumpClose, PumpReplace, PumpPublish,
                  PumpNotify, PumpStopped, PumpLocked
    <3>3. CASE WriteLine \/ ConfigChange \/ Ui \/ CatchUpClosed \/ UNCHANGED vars
      BY <3>3 DEF WriteLine, ConfigChange, Ui, CatchUpClosed, UiLagTick, UiLagRead, UiCatchUpKey,
                  UiCatchUpResult, UiQuit, vars, pumpVars
    <3>4. QED
      BY <3>1, <3>2, <3>3 DEF Next
  <2>3. QED
    BY <2>1, <2>2
<1>3. skipped' = skipped \/ \E w \in Watchers : LoopServeSkip(w)
  <2>1. CASE \E w \in Watchers : Loop(w)
    <3>1. PICK w \in Watchers : Loop(w)
      BY <2>1
    <3>2. CASE LoopWork(w) \/ LoopEnd(w)
      BY <3>2 DEF LoopWork, LoopFsEvent, LoopNewFile, LoopPoll, LoopPollFile, LoopSend, LoopSent, StartTick, LoopEnd
    <3>3. QED
      BY <3>1, <3>2 DEF Loop
  <2>2. CASE Pump
    BY <2>2 DEF Pump, PumpBusy, PumpLine, PumpReload, PumpQuit, PumpSetFileMatcher,
                PumpSetDirMatcher, PumpAdd, PumpWatchDir, PumpClose, PumpReplace, PumpPublish,
                PumpNotify, PumpStopped, PumpLocked
  <2>3. CASE WriteLine \/ ConfigChange \/ Ui \/ CatchUpClosed \/ UNCHANGED vars
    BY <2>3 DEF WriteLine, ConfigChange, Ui, CatchUpClosed, UiLagTick, UiLagRead, UiCatchUpKey,
                UiCatchUpResult, UiQuit, vars
  <2>4. QED
    BY <2>1, <2>2, <2>3 DEF Next
<1>4. skipped \subseteq Lost
  BY <1>2 DEF SkipsAreLosses
<1>5. CASE \E w \in Watchers : LoopServeSkip(w)
  BY <1>1, <1>2, <1>4, <1>5, SkipLoses
<1>6. QED
  BY <1>1, <1>3, <1>4, <1>5

\* What a catch-up reports as skipped is not shown afterwards, however many
\* lines are in the channel or in the loop's hands when it is served
\* (watcher.go: SkipToEOF, skipAllToEOF).
THEOREM PumpSkippedIsGone == Spec => []SkippedIsGone
<1>1. Init => SkipsAreLosses
  BY DEF Init, SkipsAreLosses
<1>2. PumpInv /\ SkipsAreLosses => SkippedIsGone
  <2> SUFFICES ASSUME PumpInv, SkipsAreLosses, reloads = 0, NEW l \in skipped
               PROVE  l \notin Elems(delivered \o events[cur] \o loop[cur].queue)
    BY DEF SkippedIsGone
  <2>1. delivered \in Seq(Line) /\ events[cur] \in Seq(Line) /\ loop[cur].queue \in Seq(Line)
    BY DEF PumpInv, TypeOK
  <2>2. delivered \o events[cur] \in Seq(Line)
        /\ Elems(delivered \o events[cur]) = Elems(delivered) \union Elems(events[cur])
    BY <2>1, ElemsConcat
  <2>3. Elems((delivered \o events[cur]) \o loop[cur].queue)
          = Elems(delivered) \union Elems(events[cur]) \union Elems(loop[cur].queue)
    BY <2>1, <2>2, ElemsConcat
  <2>4. l \in Lost /\ l \in Line /\ l.file \in Files
    BY Counts DEF SkipsAreLosses, Lost
  <2>5. Active(l.file) = cur
    BY <2>4, FirstWatcher
  <2>6. l \notin Elems(delivered) /\ l \notin OnWay(cur)
    BY <2>4, <2>5, LostIs
  <2>7. QED
    BY <2>3, <2>6 DEF OnWay
<1>3. QED
  BY <1>1, <1>2, PumpInvInit, PumpInvStep, SkipStep, PTL DEF Spec
=============================================================================
