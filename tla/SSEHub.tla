------------------------------- MODULE SSEHub --------------------------------
(***************************************************************************)
(* The SSE broadcast hub of internal/sink/sse.go: Emit on the pump         *)
(* goroutine, one handleStream goroutine per client, and Close.            *)
(*                                                                         *)
(* Each critical section on h.mu is one step.  Emit has two of them, with  *)
(* the JSON encoding in between, so clients come and go, and the hub may   *)
(* be closed, inside one Emit.  Sending on a closed channel and closing it *)
(* twice panic in Go; `panicked' records that a step would have done so.   *)
(* An event is its number.  Keepalive comments write nothing an event      *)
(* stream keeps, and are left out.                                         *)
(***************************************************************************)
EXTENDS Integers, Sequences

CONSTANTS
  Clients,   \* the connections ever made, each with its own channel
  Stuck,     \* clients that may stop reading without disconnecting
  ChanCap,   \* capacity of a client's channel (256 in the code)
  MaxEvents  \* bound on the events emitted

ASSUME HubAssumption ==
  /\ Stuck \subseteq Clients
  /\ ChanCap \in Nat \ {0}
  /\ MaxEvents \in Nat

VARIABLES
  closed,     \* h.closed
  clients,    \* h.clients
  open,       \* open[c]: c's channel is not closed
  buf,        \* buf[c]: what is in c's channel
  handler,    \* where c's handleStream is
  held,       \* held[c]: what c's handler is writing to the connection
  sent,       \* sent[c]: what has been written to the connection
  emitted,    \* number of the last Emit to have started
  emitting,   \* that Emit is between its critical sections
  panicked,   \* a step sent on, or closed, a closed channel
  since,      \* since[c]: emitted when c registered
  missed      \* missed[c]: events dropped because c's channel was full

hubVars == <<closed, clients, open, buf>>
connVars == <<handler, held, sent>>
emitVars == <<emitted, emitting>>
vars == <<hubVars, connVars, emitVars, panicked, since, missed>>

Init ==
  /\ closed = FALSE
  /\ clients = {}
  /\ open = [c \in Clients |-> TRUE]
  /\ buf = [c \in Clients |-> <<>>]
  /\ handler = [c \in Clients |-> "none"]
  /\ held = [c \in Clients |-> <<>>]
  /\ sent = [c \in Clients |-> <<>>]
  /\ emitted = 0
  /\ emitting = FALSE
  /\ panicked = FALSE
  /\ since = [c \in Clients |-> 0]
  /\ missed = [c \in Clients |-> {}]

-----------------------------------------------------------------------------
(* Emit.                                                                    *)

EmitCheck ==
  /\ ~ emitting
  /\ emitted < MaxEvents
  /\ emitted' = emitted + 1
  /\ emitting' = ~ (closed \/ clients = {})
  /\ UNCHANGED <<hubVars, connVars, panicked, since, missed>>

\* Mutant of EmitSend: one full channel spoils the event for all.
EmitSendAllOrNone ==
  LET full   == {c \in clients : Len(buf[c]) >= ChanCap}
      served == IF full = {} THEN clients ELSE {}
  IN /\ emitting
     /\ emitting' = FALSE
     /\ buf' = [c \in Clients |->
                  IF c \in served THEN Append(buf[c], emitted) ELSE buf[c]]
     /\ missed' = [c \in Clients |->
                     IF c \in full THEN missed[c] \union {emitted} ELSE missed[c]]
     /\ panicked' = (panicked \/ \E c \in served : ~ open[c])
     /\ UNCHANGED <<closed, clients, open, connVars, emitted, since>>

\* A client whose channel is full misses the event; the others get it.
EmitSend ==
  LET reached == IF closed THEN {} ELSE clients
      full    == {c \in reached : Len(buf[c]) >= ChanCap}
  IN /\ emitting
     /\ emitting' = FALSE
     /\ buf' = [c \in Clients |->
                  IF c \in reached \ full THEN Append(buf[c], emitted) ELSE buf[c]]
     /\ missed' = [c \in Clients |->
                     IF c \in full THEN missed[c] \union {emitted} ELSE missed[c]]
     /\ panicked' = (panicked \/ \E c \in reached : ~ open[c])
     /\ UNCHANGED <<closed, clients, open, connVars, emitted, since>>

-----------------------------------------------------------------------------
(* handleStream.                                                            *)

\* The headers are flushed before the client is registered.
Connect(c) ==
  /\ handler[c] = "none"
  /\ handler' = [handler EXCEPT ![c] = "accepted"]
  /\ UNCHANGED <<hubVars, held, sent, emitVars, panicked, since, missed>>

Register(c) ==
  /\ handler[c] = "accepted"
  /\ handler' = [handler EXCEPT ![c] = "serving"]
  /\ IF closed
     THEN open' = [open EXCEPT ![c] = FALSE] /\ UNCHANGED clients
     ELSE clients' = clients \union {c} /\ UNCHANGED open
  /\ since' = [since EXCEPT ![c] = emitted]
  /\ UNCHANGED <<closed, buf, held, sent, emitVars, panicked, missed>>

\* A closed channel still yields what is in it.
Receive(c) ==
  /\ handler[c] = "serving"
  /\ buf[c] # <<>>
  /\ handler' = [handler EXCEPT ![c] = "writing"]
  /\ held' = [held EXCEPT ![c] = <<Head(buf[c])>>]
  /\ buf' = [buf EXCEPT ![c] = Tail(@)]
  /\ UNCHANGED <<closed, clients, open, sent, emitVars, panicked, since, missed>>

Write(c) ==
  /\ handler[c] = "writing"
  /\ handler' = [handler EXCEPT ![c] = "serving"]
  /\ sent' = [sent EXCEPT ![c] = @ \o held[c]]
  /\ held' = [held EXCEPT ![c] = <<>>]
  /\ UNCHANGED <<hubVars, emitVars, panicked, since, missed>>

\* The channel is closed and drained, the client has gone, or a write failed.
Leave(c) ==
  /\ handler[c] \in {"serving", "writing"}
  /\ handler' = [handler EXCEPT ![c] = "leaving"]
  /\ UNCHANGED <<hubVars, held, sent, emitVars, panicked, since, missed>>

LeaveClosed(c) ==
  /\ handler[c] = "serving" /\ ~ open[c] /\ buf[c] = <<>>
  /\ Leave(c)

\* Mutant of Unregister: it does not look whether Close has been there.
UnregisterUnchecked(c) ==
  /\ handler[c] = "leaving"
  /\ handler' = [handler EXCEPT ![c] = "done"]
  /\ clients' = clients \ {c}
  /\ open' = [open EXCEPT ![c] = FALSE]
  /\ panicked' = (panicked \/ ~ open[c])
  /\ UNCHANGED <<closed, buf, held, sent, emitVars, since, missed>>

\* The deferred unregister; Close may have closed the channel already.
Unregister(c) ==
  /\ handler[c] = "leaving"
  /\ handler' = [handler EXCEPT ![c] = "done"]
  /\ IF c \in clients
     THEN /\ clients' = clients \ {c}
          /\ open' = [open EXCEPT ![c] = FALSE]
          /\ panicked' = (panicked \/ ~ open[c])
     ELSE UNCHANGED <<clients, open, panicked>>
  /\ UNCHANGED <<closed, buf, held, sent, emitVars, since, missed>>

-----------------------------------------------------------------------------
\* Mutant of Close: the channels are forgotten, not closed.
CloseForgets ==
  /\ ~ closed
  /\ closed' = TRUE
  /\ clients' = {}
  /\ UNCHANGED <<open, buf, connVars, emitVars, panicked, since, missed>>

Close ==
  /\ ~ closed
  /\ closed' = TRUE
  /\ open' = [c \in Clients |-> open[c] /\ c \notin clients]
  /\ panicked' = (panicked \/ \E c \in clients : ~ open[c])
  /\ clients' = {}
  /\ UNCHANGED <<buf, connVars, emitVars, since, missed>>

Handle(c) ==
  \/ Connect(c) \/ Register(c) \/ Receive(c) \/ Write(c) \/ Leave(c) \/ Unregister(c)

Next == EmitCheck \/ EmitSend \/ Close \/ \E c \in Clients : Handle(c)

\* Goroutines run when they can.  A write to a connection ends unless the
\* client is stuck: the server sets no write deadline.
Fairness ==
  /\ WF_vars(EmitSend)
  /\ \A c \in Clients :
       /\ WF_vars(Register(c)) /\ WF_vars(Receive(c)) /\ WF_vars(LeaveClosed(c))
       /\ WF_vars(Unregister(c))
       /\ c \notin Stuck => WF_vars(Write(c))

Spec == Init /\ [][Next]_vars /\ Fairness

-----------------------------------------------------------------------------
Events == 1 .. MaxEvents

HubTypeOK ==
  /\ {closed, emitting, panicked} \subseteq BOOLEAN
  /\ clients \subseteq Clients
  /\ open \in [Clients -> BOOLEAN]
  /\ buf \in [Clients -> Seq(Events)]
  /\ handler \in [Clients -> {"none", "accepted", "serving", "writing", "leaving",
                              "done"}]
  /\ held \in [Clients -> Seq(Events)]
  /\ sent \in [Clients -> Seq(Events)]
  /\ emitted \in 0 .. MaxEvents
  /\ since \in [Clients -> 0 .. MaxEvents]
  /\ missed \in [Clients -> SUBSET Events]

\* Whatever the order of Emit, of clients coming and going and of Close, no
\* event is sent on a closed channel and no channel is closed twice.
NoPanic == ~ panicked

\* What reached or will reach a client.
Stream(c) == sent[c] \o held[c] \o buf[c]

\* A client gets events in order and without repetition, and, from the first
\* Emit after it registered, every one except those that found its channel
\* full: no client loses an event because of another.
InOrderUnlessFull ==
  \A c \in Clients :
    /\ \A i, j \in 1 .. Len(Stream(c)) : i < j => Stream(c)[i] < Stream(c)[j]
    /\ c \in clients =>
         \A e \in since[c] + 1 .. (IF emitting THEN emitted - 1 ELSE emitted) :
           e \in missed[c] \/ \E i \in 1 .. Len(Stream(c)) : Stream(c)[i] = e

\* After Close every stream ends, but for clients that have stopped reading.
StreamsEnd ==
  \A c \in Clients \ Stuck :
    (closed /\ handler[c] # "none") ~> (handler[c] = "done")
=============================================================================
