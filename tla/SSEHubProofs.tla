---------------------------- MODULE SSEHubProofs ----------------------------
(***************************************************************************)
(* Theorems about SSEHub.  A step panics when a member of h.clients has a  *)
(* closed channel; h.mu and the membership test of unregister keep exactly *)
(* the open channels of running handlers in that set.                      *)
(***************************************************************************)
EXTENDS SSEHub, SequenceTheorems, TLAPS

Types ==
  /\ clients \subseteq Clients
  /\ open \in [Clients -> BOOLEAN]
  /\ handler \in [Clients -> {"none", "accepted", "serving", "writing", "leaving",
                              "done"}]

\* A registered client's channel is open and its handler has yet to unregister.
RegisteredAreOpen ==
  \A c \in clients : open[c] /\ handler[c] \in {"serving", "writing", "leaving"}

\* register makes the channel, and nobody closes it before it is registered.
NewChannelsAreOpen ==
  \A c \in Clients : handler[c] \in {"none", "accepted"} => open[c]

\* After Close nobody is registered, nor registers any more.
NobodyAfterClose == closed => clients = {}

HubInv ==
  /\ Types
  /\ RegisteredAreOpen
  /\ NewChannelsAreOpen
  /\ NobodyAfterClose
  /\ NoPanic

\* The invariant holds before the first client.
LEMMA HubInit == Init => HubInv
BY DEF Init, HubInv, Types, RegisteredAreOpen, NewChannelsAreOpen, NobodyAfterClose,
       NoPanic

\* Every critical section, and every other step, keeps the invariant.
LEMMA HubStep == HubInv /\ [Next]_vars => HubInv'
<1> SUFFICES ASSUME HubInv, [Next]_vars PROVE HubInv'
  OBVIOUS
<1> USE DEF HubInv, Types, RegisteredAreOpen, NewChannelsAreOpen, NobodyAfterClose,
            NoPanic
<1>1. CASE EmitCheck
  BY <1>1 DEF EmitCheck, hubVars, connVars
<1>2. CASE EmitSend
  BY <1>2 DEF EmitSend, connVars
<1>3. CASE Close
  BY <1>3 DEF Close, connVars
<1>4. ASSUME NEW c \in Clients, Handle(c) PROVE HubInv'
  <2>1. CASE Connect(c)
    BY <2>1 DEF Connect, hubVars
  <2>2. CASE Register(c)
    <3>1. CASE closed
      BY <2>2, <3>1 DEF Register
    <3>2. CASE ~ closed
      BY <2>2, <3>2 DEF Register
    <3>3. QED
      BY <3>1, <3>2
  <2>3. CASE Receive(c)
    BY <2>3 DEF Receive
  <2>4. CASE Write(c)
    BY <2>4 DEF Write, hubVars
  <2>5. CASE Leave(c)
    BY <2>5 DEF Leave, hubVars
  <2>6. CASE Unregister(c)
    <3>1. CASE c \in clients
      BY <2>6, <3>1 DEF Unregister
    <3>2. CASE c \notin clients
      BY <2>6, <3>2 DEF Unregister
    <3>3. QED
      BY <3>1, <3>2
  <2>7. QED
    BY <1>4, <2>1, <2>2, <2>3, <2>4, <2>5, <2>6 DEF Handle
<1>5. CASE UNCHANGED vars
  BY <1>5 DEF vars, hubVars, connVars
<1>6. QED
  BY <1>1, <1>2, <1>3, <1>4, <1>5 DEF Next

\* No number of clients, coming and going in any order around Emit and Close,
\* makes the hub send on or close a closed channel (sse.go: Emit, Close,
\* register, unregister).
THEOREM HubNeverPanics == Spec => []NoPanic
<1>1. HubInv => NoPanic
  BY DEF HubInv
<1>2. QED
  BY HubInit, HubStep, <1>1, PTL DEF Spec

-----------------------------------------------------------------------------
\* Only an event that was numbered is being sent.
EmitsEvents == emitting => emitted \in Events

\* The hub starts well typed.
LEMMA TypeInit == Init => HubTypeOK /\ EmitsEvents
<1> SUFFICES ASSUME Init PROVE HubTypeOK /\ EmitsEvents
  OBVIOUS
<1>1. buf \in [Clients -> Seq(Events)] /\ held \in [Clients -> Seq(Events)]
      /\ sent \in [Clients -> Seq(Events)]
  BY DEF Init
<1>2. emitted \in 0 .. MaxEvents /\ since \in [Clients -> 0 .. MaxEvents]
  BY HubAssumption DEF Init
<1>3. missed \in [Clients -> SUBSET Events]
  BY DEF Init
<1>4. {closed, emitting, panicked} \subseteq BOOLEAN /\ clients \subseteq Clients
      /\ open \in [Clients -> BOOLEAN]
  BY DEF Init
<1>5. handler \in [Clients -> {"none", "accepted", "serving", "writing", "leaving", "done"}]
  BY DEF Init
<1>6. QED
  BY <1>1, <1>2, <1>3, <1>4, <1>5 DEF Init, HubTypeOK, EmitsEvents

\* A step of a stream handler keeps the hub well typed.
LEMMA HandleType ==
  ASSUME HubTypeOK, EmitsEvents, NEW c \in Clients, Handle(c)
  PROVE  HubTypeOK' /\ EmitsEvents'
<1> USE HubAssumption DEF HubTypeOK, EmitsEvents, Events
<1>1. CASE Connect(c)
  BY <1>1 DEF Connect, hubVars, emitVars
<1>2. CASE Register(c)
  BY <1>2 DEF Register, emitVars
<1>3. CASE Receive(c)
  <2>1. Head(buf[c]) \in Events /\ Tail(buf[c]) \in Seq(Events)
    BY <1>3 DEF Receive
  <2>2. <<Head(buf[c])>> \in Seq(Events)
    BY <2>1
  <2>3. buf' \in [Clients -> Seq(Events)] /\ held' \in [Clients -> Seq(Events)]
    BY <1>3, <2>1, <2>2 DEF Receive
  <2>4. QED
    BY <1>3, <2>3 DEF Receive, emitVars
<1>4. CASE Write(c)
  <2>1. sent[c] \o held[c] \in Seq(Events) /\ <<>> \in Seq(Events)
    OBVIOUS
  <2>2. sent' \in [Clients -> Seq(Events)] /\ held' \in [Clients -> Seq(Events)]
    BY <1>4, <2>1 DEF Write
  <2>3. QED
    BY <1>4, <2>2 DEF Write, hubVars, emitVars
<1>5. CASE Leave(c)
  BY <1>5 DEF Leave, hubVars, emitVars
<1>6. CASE Unregister(c)
  BY <1>6 DEF Unregister, emitVars
<1>7. QED
  BY <1>1, <1>2, <1>3, <1>4, <1>5, <1>6 DEF Handle

\* So does every other step.
LEMMA TypeStep == HubTypeOK /\ EmitsEvents /\ [Next]_vars => HubTypeOK' /\ EmitsEvents'
<1> SUFFICES ASSUME HubTypeOK, EmitsEvents, [Next]_vars
             PROVE  HubTypeOK' /\ EmitsEvents'
  OBVIOUS
<1>1. CASE EmitCheck
  BY <1>1, HubAssumption DEF EmitCheck, hubVars, connVars, HubTypeOK, EmitsEvents, Events
<1>2. CASE EmitSend
  <2> USE DEF HubTypeOK, EmitsEvents, Events
  <2>1. emitted \in Events
    BY <1>2 DEF EmitSend
  <2>2. \A c \in Clients : Append(buf[c], emitted) \in Seq(Events)
    BY <2>1
  <2>3. buf' \in [Clients -> Seq(Events)]
    BY <1>2, <2>2 DEF EmitSend
  <2>4. missed' \in [Clients -> SUBSET Events]
    BY <1>2, <2>1 DEF EmitSend
  <2>5. panicked' \in BOOLEAN /\ emitting' \in BOOLEAN
    BY <1>2 DEF EmitSend
  <2>6. QED
    BY <1>2, <2>3, <2>4, <2>5 DEF EmitSend, connVars
<1>3. CASE Close
  BY <1>3 DEF Close, connVars, emitVars, HubTypeOK, EmitsEvents, Events
<1>4. ASSUME NEW c \in Clients, Handle(c) PROVE HubTypeOK' /\ EmitsEvents'
  BY <1>4, HandleType
<1>5. CASE UNCHANGED vars
  BY <1>5 DEF vars, hubVars, connVars, emitVars, HubTypeOK, EmitsEvents, Events
<1>6. QED
  BY <1>1, <1>2, <1>3, <1>4, <1>5 DEF Next

\* The hub and its clients are well typed: what is queued, being written and
\* sent are events that were emitted (sse.go: SSEHub, Emit, handleStream).
THEOREM HubTypeCorrect == Spec => []HubTypeOK
BY TypeInit, TypeStep, PTL DEF Spec

-----------------------------------------------------------------------------
(* The order of events.                                                     *)

\* The last event whose Emit has got as far as the channels.
Sent == IF emitting THEN emitted - 1 ELSE emitted

\* A handler that waits is not writing anything.
NothingHeld ==
  \A c \in Clients : handler[c] \in {"none", "accepted", "serving"} => held[c] = <<>>

\* No stream is ahead of Emit.
NotAhead == \A c \in Clients : \A i \in 1 .. Len(Stream(c)) : Stream(c)[i] <= Sent

Increasing(s) == \A i, j \in 1 .. Len(s) : i < j => s[i] < s[j]

\* A client has every event since it registered, or missed it.
Complete(c) ==
  \A e \in since[c] + 1 .. Sent :
    e \in missed[c] \/ \E i \in 1 .. Len(Stream(c)) : Stream(c)[i] = e

OrderInv ==
  /\ NothingHeld
  /\ NotAhead
  /\ \A c \in Clients : Increasing(Stream(c))
  /\ \A c \in clients : Complete(c)

\* Appending to the second of two sequences appends to both.
LEMMA ConcatAppend ==
  ASSUME NEW S, NEW s \in Seq(S), NEW t \in Seq(S), NEW x \in S
  PROVE  s \o Append(t, x) = Append(s \o t, x)
<1>1. Append(t, x) = t \o <<x>> /\ <<x>> \in Seq(S)
  OBVIOUS
<1>2. s \o t \in Seq(S)
  BY ConcatProperties
<1>3. Append(s \o t, x) = (s \o t) \o <<x>>
  BY <1>2
<1>4. QED
  BY <1>1, <1>3, ConcatAssociative

\* The head of a sequence may as well end the one before it.
LEMMA ConcatHead ==
  ASSUME NEW S, NEW s \in Seq(S), NEW t \in Seq(S), t # <<>>
  PROVE  (s \o <<Head(t)>>) \o Tail(t) = s \o t
<1>1. <<Head(t)>> \in Seq(S) /\ Tail(t) \in Seq(S)
  OBVIOUS
<1>2. <<Head(t)>> \o Tail(t) = t
  OBVIOUS
<1>3. QED
  BY <1>1, <1>2, ConcatAssociative

\* A stream is a sequence of events.
LEMMA StreamType ==
  ASSUME HubTypeOK, NEW c \in Clients
  PROVE  /\ Stream(c) \in Seq(Events) /\ Len(Stream(c)) \in Nat
         /\ \A i \in 1 .. Len(Stream(c)) : Stream(c)[i] \in Int
<1>1. sent[c] \in Seq(Events) /\ held[c] \in Seq(Events) /\ buf[c] \in Seq(Events)
  BY DEF HubTypeOK
<1>2. sent[c] \o held[c] \in Seq(Events)
  BY <1>1, ConcatProperties
<1>3. Stream(c) \in Seq(Events)
  BY <1>1, <1>2, ConcatProperties DEF Stream
<1>4. Events \subseteq Int
  BY HubAssumption DEF Events
<1>5. \A i \in 1 .. Len(Stream(c)) : Stream(c)[i] \in Events
  BY <1>3, ElementOfSeq
<1>6. QED
  BY <1>3, <1>4, <1>5, LenProperties

\* A step that neither emits nor changes a stream keeps what clients have.
LEMMA StreamsLast ==
  ASSUME OrderInv, HubTypeOK,
         \A c \in Clients : Stream(c)' = Stream(c),
         Sent <= Sent', Sent' \in Int,
         \A c \in clients' : (c \in clients /\ since'[c] = since[c] /\ Sent' = Sent)
                             \/ since'[c] >= Sent',
         UNCHANGED missed, NothingHeld', clients' \subseteq Clients,
         \A c \in Clients : since'[c] \in Nat
  PROVE  OrderInv'
<1>1. Sent \in Int /\ \A c \in Clients : Stream(c) \in Seq(Events) /\ Len(Stream(c)) \in Nat
  BY StreamType DEF HubTypeOK, Sent
<1>2. \A c \in Clients : \A i \in 1 .. Len(Stream(c)) : Stream(c)[i] \in Int
  BY StreamType
<1>3. NotAhead'
  BY <1>1, <1>2 DEF OrderInv, NotAhead
<1>4. ASSUME NEW c \in clients' PROVE Complete(c)'
  <2>1. c \in Clients /\ Stream(c)' = Stream(c)
    OBVIOUS
  <2>2. CASE c \in clients /\ since'[c] = since[c] /\ Sent' = Sent
    BY <2>1, <2>2 DEF OrderInv, Complete
  <2>3. CASE since'[c] >= Sent'
    BY <2>1, <2>3 DEF Complete
  <2>4. QED
    BY <1>4, <2>2, <2>3
<1>5. \A c \in Clients : Increasing(Stream(c))'
  BY DEF OrderInv, Increasing
<1>6. QED
  BY <1>3, <1>4, <1>5 DEF OrderInv

\* An event sent goes to the end of a stream, which it is ahead of, or is missed.
LEMMA EmitSendOrder ==
  ASSUME HubTypeOK, EmitsEvents, HubInv, OrderInv, EmitSend
  PROVE  OrderInv'
<1> DEFINE full == {c \in clients : Len(buf[c]) >= ChanCap}
           reached == IF closed THEN {} ELSE clients
<1>1. /\ emitted \in Events /\ emitted \in Nat /\ Sent = emitted - 1 /\ Sent' = emitted
      /\ reached = clients
      /\ \A c \in Clients : since[c] \in Nat
  BY HubAssumption DEF EmitSend, EmitsEvents, HubTypeOK, Sent, Events, HubInv, NobodyAfterClose
<1>2. /\ UNCHANGED <<clients, handler, held, sent, since>>
      /\ clients \subseteq Clients
      /\ \A c \in Clients :
           /\ buf'[c] = IF c \in clients \ full THEN Append(buf[c], emitted) ELSE buf[c]
           /\ missed'[c] = IF c \in full THEN missed[c] \union {emitted} ELSE missed[c]
  BY <1>1 DEF EmitSend, connVars, HubTypeOK
<1> HIDE DEF full
<1>3. ASSUME NEW c \in Clients
      PROVE  Stream(c)' = IF c \in clients \ full THEN Append(Stream(c), emitted) ELSE Stream(c)
  <2>1. CASE c \in clients \ full
    <3>1. sent[c] \in Seq(Events) /\ held[c] \in Seq(Events) /\ buf[c] \in Seq(Events)
      BY DEF HubTypeOK
    <3>2. sent[c] \o held[c] \in Seq(Events)
      BY <3>1, ConcatProperties
    <3>3. (sent[c] \o held[c]) \o Append(buf[c], emitted)
            = Append((sent[c] \o held[c]) \o buf[c], emitted)
      <4>1. \A s, t \in Seq(Events), x \in Events : s \o Append(t, x) = Append(s \o t, x)
        BY ConcatAppend
      <4>2. QED
        BY <1>1, <3>1, <3>2, <4>1
    <3>4. QED
      BY <1>2, <2>1, <3>3 DEF Stream
  <2>2. CASE c \notin clients \ full
    BY <1>2, <2>2 DEF Stream
  <2>3. QED
    BY <2>1, <2>2
<1>4. ASSUME NEW c \in Clients
      PROVE  /\ \A i \in 1 .. Len(Stream(c)') : Stream(c)'[i] <= emitted
             /\ Increasing(Stream(c))'
             /\ c \in clients => Complete(c)'
  <2> DEFINE S == Stream(c)
             T == Stream(c)'
  <2>1. S \in Seq(Events) /\ Len(S) \in Nat /\ \A i \in 1 .. Len(S) : S[i] \in Int
    BY StreamType
  <2>2. /\ \A i \in 1 .. Len(S) : S[i] <= emitted - 1
        /\ Increasing(S)
        /\ c \in clients => \A e \in since[c] + 1 .. emitted - 1 :
                              e \in missed[c] \/ \E i \in 1 .. Len(S) : S[i] = e
    BY <1>1 DEF OrderInv, NotAhead, Complete
  <2>3. CASE c \in clients \ full
    <3>1. T = Append(S, emitted)
      BY <1>3, <2>3
    <3> HIDE DEF S, T
    <3>2. /\ Len(T) = Len(S) + 1 /\ T[Len(S) + 1] = emitted
          /\ \A i \in 1 .. Len(S) : T[i] = S[i]
      BY <1>1, <2>1, <3>1
    <3>3. \A i \in 1 .. Len(T) : T[i] <= emitted
      BY <1>1, <2>1, <2>2, <3>2
    <3>4. Increasing(T)
      BY <1>1, <2>1, <2>2, <3>2 DEF Increasing
    <3>5. \A e \in since[c] + 1 .. emitted :
            e \in missed[c] \/ \E i \in 1 .. Len(T) : T[i] = e
      <4> SUFFICES ASSUME NEW e \in since[c] + 1 .. emitted, e \notin missed[c]
                   PROVE  \E i \in 1 .. Len(T) : T[i] = e
        OBVIOUS
      <4>1. CASE e = emitted
        BY <2>1, <3>2, <4>1
      <4>2. CASE e # emitted
        <5>1. PICK i \in 1 .. Len(S) : S[i] = e
          BY <1>1, <2>2, <2>3, <4>2
        <5>2. i \in 1 .. Len(T) /\ T[i] = e
          BY <2>1, <3>2, <5>1
        <5>3. QED
          BY <5>2
      <4>3. QED
        BY <4>1, <4>2
    <3>6. Increasing(Stream(c))'
      BY <3>4 DEF T, Increasing
    <3>7. Complete(c)'
      BY <1>1, <1>2, <2>3, <3>5 DEF T, Complete
    <3>8. QED
      BY <3>3, <3>6, <3>7 DEF T
  <2>4. CASE c \notin clients \ full
    <3>1. T = S
      BY <1>3, <2>4
    <3> HIDE DEF S, T
    <3>2. \A i \in 1 .. Len(T) : T[i] <= emitted
      BY <1>1, <2>1, <2>2, <3>1
    <3>3. Increasing(Stream(c))'
      BY <2>2, <3>1 DEF T, Increasing
    <3>4. ASSUME c \in clients PROVE Complete(c)'
      <4>1. missed'[c] = missed[c] \union {emitted}
        BY <1>2, <2>4, <3>4
      <4>2. \A e \in since[c] + 1 .. emitted :
              e \in missed'[c] \/ \E i \in 1 .. Len(T) : T[i] = e
        BY <1>1, <2>2, <3>1, <3>4, <4>1
      <4>3. QED
        BY <1>1, <1>2, <4>2 DEF T, Complete
    <3>5. QED
      BY <3>2, <3>3, <3>4 DEF T
  <2>5. QED
    BY <2>3, <2>4
<1>5. NotAhead'
  BY <1>1, <1>4 DEF NotAhead
<1>6. NothingHeld'
  BY <1>2 DEF NothingHeld, OrderInv
<1>7. QED
  BY <1>2, <1>4, <1>5, <1>6 DEF OrderInv

\* A handler moves events along its stream, one at a time.
LEMMA HandleOrder ==
  ASSUME HubTypeOK, HubTypeOK', HubInv, OrderInv, NEW c \in Clients, Handle(c)
  PROVE  OrderInv'
<1>1. /\ UNCHANGED <<missed, emitted, emitting>>
      /\ UNCHANGED <<clients, since>> \/ Register(c) \/ (Unregister(c) /\ UNCHANGED since)
  BY DEF Handle, Connect, Register, Receive, Write, Leave, Unregister, emitVars, hubVars
<1>2. /\ Sent' = Sent /\ Sent \in Int /\ Sent <= Sent' /\ Sent <= emitted
      /\ clients' \subseteq Clients
      /\ \A d \in Clients : since'[d] \in Nat
  BY <1>1 DEF Sent, HubTypeOK
<1>a. \A d \in clients' : (d \in clients /\ since'[d] = since[d]) \/ since'[d] >= Sent'
  <2>1. CASE Register(c)
    <3>1. since' = [since EXCEPT ![c] = emitted] /\ clients' \subseteq clients \union {c}
      BY <2>1 DEF Register
    <3>2. QED
      BY <1>2, <3>1 DEF HubTypeOK
  <2>2. CASE UNCHANGED since /\ clients' \subseteq clients
    BY <2>2
  <2>3. QED
    BY <1>1, <2>1, <2>2 DEF Unregister
<1>3. NothingHeld'
  BY DEF Handle, Connect, Register, Receive, Write, Leave, Unregister, hubVars, HubTypeOK,
         NothingHeld, OrderInv
<1>4. \A d \in Clients : Stream(d)' = Stream(d)
  <2> SUFFICES ASSUME NEW d \in Clients PROVE Stream(d)' = Stream(d)
    OBVIOUS
  <2>1. sent[d] \in Seq(Events) /\ held[d] \in Seq(Events) /\ buf[d] \in Seq(Events)
    BY DEF HubTypeOK
  <2>2. CASE UNCHANGED <<sent[d], held[d], buf[d]>>
    BY <2>2 DEF Stream
  <2>3. CASE d = c /\ Receive(c)
    <3>1. held[d] = <<>> /\ buf[d] # <<>>
      BY <2>3 DEF Receive, OrderInv, NothingHeld
    <3>2. sent'[d] = sent[d] /\ held'[d] = <<Head(buf[d])>> /\ buf'[d] = Tail(buf[d])
      BY <2>3 DEF Receive, HubTypeOK
    <3>3. (sent[d] \o <<Head(buf[d])>>) \o Tail(buf[d]) = sent[d] \o buf[d]
      BY <2>1, <3>1, ConcatHead
    <3>4. (sent[d] \o <<>>) \o buf[d] = sent[d] \o buf[d]
      BY <2>1, ConcatEmptySeq
    <3>5. QED
      BY <3>1, <3>2, <3>3, <3>4 DEF Stream
  <2>4. CASE d = c /\ Write(c)
    <3>1. sent'[d] = sent[d] \o held[d] /\ held'[d] = <<>> /\ buf'[d] = buf[d]
      BY <2>4 DEF Write, HubTypeOK, hubVars
    <3>2. sent[d] \o held[d] \in Seq(Events)
      BY <2>1, ConcatProperties
    <3>3. (sent[d] \o held[d]) \o <<>> = sent[d] \o held[d]
      BY <3>2, ConcatEmptySeq
    <3>4. QED
      BY <3>1, <3>3 DEF Stream
  <2>5. QED
    BY <2>2, <2>3, <2>4
       DEF Handle, Connect, Register, Receive, Write, Leave, Unregister, hubVars, HubTypeOK
<1>5. QED
  BY <1>1, <1>2, <1>a, <1>3, <1>4, StreamsLast

\* Every step keeps the order.
LEMMA OrderStep ==
  HubTypeOK /\ EmitsEvents /\ HubInv /\ OrderInv /\ [Next]_vars /\ HubTypeOK' => OrderInv'
<1> SUFFICES ASSUME HubTypeOK, EmitsEvents, HubInv, OrderInv, [Next]_vars, HubTypeOK'
             PROVE  OrderInv'
  OBVIOUS
<1>0. /\ Sent \in Int /\ clients \subseteq Clients /\ clients' \subseteq Clients
      /\ \A c \in Clients : since[c] \in Nat /\ since'[c] \in Nat
  BY DEF HubTypeOK, Sent
<1>1. CASE EmitCheck
  <2>1. /\ UNCHANGED <<clients, since, missed>>
        /\ \A c \in Clients : Stream(c)' = Stream(c)
    BY <1>1 DEF EmitCheck, hubVars, connVars, Stream
  <2>2. NothingHeld'
    BY <1>1 DEF EmitCheck, connVars, NothingHeld, OrderInv
  <2>3. Sent <= Sent' /\ Sent' \in Int /\ (clients = {} \/ Sent' = Sent)
    <3>1. emitted \in Int /\ emitting = FALSE /\ emitted' = emitted + 1 /\ Sent = emitted
      BY <1>1 DEF EmitCheck, HubTypeOK, Sent
    <3>2. CASE closed \/ clients = {}
      BY <1>1, <3>1, <3>2 DEF EmitCheck, Sent, HubInv, NobodyAfterClose
    <3>3. CASE ~ (closed \/ clients = {})
      <4>1. emitting'
        BY <1>1, <3>3, Zenon DEF EmitCheck
      <4>2. QED
        BY <3>1, <4>1 DEF Sent
    <3>4. QED
      BY <3>2, <3>3
  <2>4. QED
    BY <1>0, <2>1, <2>2, <2>3, StreamsLast
<1>2. CASE EmitSend
  BY <1>2, EmitSendOrder
<1>3. CASE Close
  <2>1. /\ clients' = {} /\ UNCHANGED <<since, missed>> /\ Sent' = Sent
        /\ \A c \in Clients : Stream(c)' = Stream(c)
    BY <1>3 DEF Close, connVars, emitVars, Stream, Sent
  <2>2. NothingHeld'
    BY <1>3 DEF Close, connVars, NothingHeld, OrderInv
  <2>3. QED
    BY <1>0, <2>1, <2>2, StreamsLast
<1>4. ASSUME NEW c \in Clients, Handle(c) PROVE OrderInv'
  BY <1>4, HandleOrder
<1>5. CASE UNCHANGED vars
  <2>1. /\ UNCHANGED <<clients, since, missed>> /\ Sent' = Sent
        /\ \A c \in Clients : Stream(c)' = Stream(c)
    BY <1>5 DEF vars, hubVars, connVars, emitVars, Stream, Sent
  <2>2. NothingHeld'
    BY <1>5 DEF vars, connVars, NothingHeld, OrderInv
  <2>3. QED
    BY <1>0, <2>1, <2>2, StreamsLast
<1>6. QED
  BY <1>1, <1>2, <1>3, <1>4, <1>5 DEF Next

\* Every client's stream is in order and, from the event after it registered,
\* complete but for what found its own channel full, whatever the other clients
\* do (sse.go: Emit, handleStream).
THEOREM HubInOrderUnlessFull == Spec => []InOrderUnlessFull
<1>1. Init => OrderInv
  <2> SUFFICES ASSUME Init PROVE OrderInv
    OBVIOUS
  <2>1. \A c \in Clients : Stream(c) = <<>> /\ Len(Stream(c)) = 0
    <3>1. \A c \in Clients : Stream(c) = (<<>> \o <<>>) \o <<>>
      BY DEF Init, Stream
    <3>2. (<<>> \o <<>>) \o <<>> = <<>> /\ Len(<<>>) = 0
      BY EmptySeq, ConcatEmptySeq
    <3>3. QED
      BY <3>1, <3>2
  <2>2. QED
    BY <2>1 DEF Init, OrderInv, NothingHeld, NotAhead, Increasing, Complete
<1>2. OrderInv /\ HubTypeOK => InOrderUnlessFull
  BY DEF OrderInv, Increasing, Complete, Sent, InOrderUnlessFull, HubTypeOK
<1>3. QED
  BY <1>1, <1>2, HubInit, HubStep, TypeInit, TypeStep, OrderStep, PTL DEF Spec
=============================================================================
