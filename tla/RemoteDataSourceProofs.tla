------------------------ MODULE RemoteDataSourceProofs ------------------------
(***************************************************************************)
(* Proofs about the delegate of a distributed run, for every number of     *)
(* connections, flushing threads, messages and flushes.                    *)
(***************************************************************************)
EXTENDS RemoteDataSource, TLAPS

\* A batch has rows of a peer; only flush() numbers its requests.
Messages ==
    {m \in [kind : {"batch", "flush"}, id : Ids \cup {Local}, flushSeq : Nat] :
       m.kind = "batch" => m.id \in Ids /\ m.flushSeq = 0}
PeerMessages == {m \in Messages : m.flushSeq = 0}

NetTypes ==
    /\ at \in [Conns -> {"unused", "connected", "open", "closed"}]
    /\ sent \in [Conns -> 0 .. MaxMessages] /\ wire \in [Conns -> Seq(PeerMessages)]
ThreadTypes ==
    /\ acceptor \in {"loop", "poll", "greet", "exited"} /\ greeting \in Conns \cup {Nobody}
    /\ greeting = Nobody <=> acceptor # "greet"
    /\ receiver \in [Conns -> {"none", "loop", "recv", "push", "exited"}]
    /\ hand \in [Conns -> PeerMessages]
    /\ acceptor = "greet" => receiver[greeting] = "none"
WriterTypes ==
    /\ item \in Messages /\ queue \in Seq(Messages)
    /\ writer \in {"wait", "work", "signal", "drain", "exited", "null"}
    /\ done \in BOOLEAN /\ running \in BOOLEAN
    /\ nextFlushSeq \in 0 .. MaxFlushes /\ completedFlushSeq \in 0 .. nextFlushSeq
    /\ item.flushSeq <= nextFlushSeq
    /\ \A k \in 1 .. Len(queue) : queue[k].flushSeq <= nextFlushSeq
StoreTypes == log \in Seq(Ids) /\ temp \subseteq Ids /\ main \subseteq Ids
FlushTypes ==
    /\ pc \in [Flushers -> {"idle", "waiting"}] /\ seq \in [Flushers -> 0 .. MaxFlushes]
    /\ mark \in [Flushers -> SUBSET Ids]

\* After its batch or its flush the writer has nothing at hand; it writes batches and
\* signals flushes.
ItemInv ==
    /\ writer \notin {"work", "signal"} => item = NoItem
    /\ writer = "signal" => item.kind = "flush"

Types == NetTypes /\ ThreadTypes /\ WriterTypes /\ StoreTypes /\ FlushTypes /\ ItemInv

LEMMA MessageFacts ==
    ASSUME NEW m \in Messages
    PROVE  /\ m.kind \in {"batch", "flush"} /\ m.id \in Ids \cup {Local} /\ m.flushSeq \in Nat
           /\ m.kind = "batch" => m.id \in Ids /\ m.flushSeq = 0
  BY DEF Messages

LEMMA PeerFacts == \A m \in PeerMessages : m \in Messages /\ m.flushSeq = 0
  BY DEF PeerMessages

LEMMA NoItemFacts ==
    /\ NoItem \in Messages /\ NoItem \in PeerMessages /\ NoItem.kind = "flush"
    /\ NoItem.id = Local /\ NoItem.flushSeq = 0 /\ Local[1] = Nobody /\ Local \notin Ids
<1>1. Local \notin Ids
  BY RemoteDataSourceAssumption DEF Local, Ids
<1> QED
  BY <1>1 DEF NoItem, Message, Messages, PeerMessages, Local

LEMMA InitTypes == Init => Types
<1> SUFFICES ASSUME Init PROVE Types
  OBVIOUS
<1>1. NetTypes
  <2>1. wire \in [Conns -> Seq(PeerMessages)]
    BY DEF Init
  <2> QED
    BY <2>1, RemoteDataSourceAssumption DEF Init, NetTypes
<1>2. ThreadTypes
  BY NoItemFacts DEF Init, ThreadTypes
<1>3. WriterTypes
  <2>1. /\ item = NoItem /\ queue = <<>> /\ writer = "wait" /\ done = FALSE /\ running = TRUE
        /\ nextFlushSeq = 0 /\ completedFlushSeq = 0
    BY DEF Init
  <2>2. queue \in Seq(Messages) /\ \A k \in 1 .. Len(queue) : queue[k].flushSeq <= nextFlushSeq
    BY <2>1
  <2>3. nextFlushSeq \in 0 .. MaxFlushes /\ completedFlushSeq \in 0 .. nextFlushSeq
    BY <2>1, RemoteDataSourceAssumption
  <2>4. item \in Messages /\ item.flushSeq <= nextFlushSeq
    BY <2>1, NoItemFacts
  <2>5. /\ writer \in {"wait", "work", "signal", "drain", "exited", "null"}
        /\ done \in BOOLEAN /\ running \in BOOLEAN
    BY <2>1
  <2> QED
    BY <2>2, <2>3, <2>4, <2>5 DEF WriterTypes
<1>4. StoreTypes
  BY DEF Init, StoreTypes
<1>5. FlushTypes
  BY RemoteDataSourceAssumption DEF Init, FlushTypes
<1>6. ItemInv
  BY DEF Init, ItemInv
<1> QED
  BY <1>1, <1>2, <1>3, <1>4, <1>5, <1>6 DEF Types

\* What a step of the writer does to its own state.
LEMMA WriterTypesStep == ASSUME Types, Writer PROVE WriterTypes' /\ StoreTypes' /\ ItemInv'
<1> USE MessageFacts, NoItemFacts DEF Types, WriterTypes, StoreTypes, ItemInv
<1>1. CASE Dequeue
  <2>1. /\ queue # <<>> /\ item' = queue[1] /\ queue' = Tail(queue) /\ writer' = "work"
        /\ UNCHANGED <<done, running, nextFlushSeq, completedFlushSeq, store>>
    BY <1>1 DEF Dequeue, stop
  <2>2. /\ queue' \in Seq(Messages) /\ Len(queue') = Len(queue) - 1 /\ queue[1] \in Messages
        /\ 1 \in 1 .. Len(queue)
        /\ \A k \in 1 .. Len(queue') : queue'[k] = queue[k + 1] /\ k + 1 \in 1 .. Len(queue)
    BY <2>1
  <2> QED
    BY <2>1, <2>2 DEF store
<1>2. CASE Work
  <2>1. CASE item.kind = "batch"
    <3>1. /\ item' = NoItem /\ writer' = "wait" /\ temp' = temp \cup {item.id} /\ main' = main
          /\ log' = Append(log, item.id)
          /\ UNCHANGED <<queue, done, running, nextFlushSeq, completedFlushSeq>>
      BY <1>2, <2>1 DEF Work, Write, channel, stop
    <3>2. item.id \in Ids
      BY <2>1
    <3>3. StoreTypes'
      BY <3>1, <3>2
    <3>4. WriterTypes' /\ ItemInv'
      BY <3>1
    <3> QED
      BY <3>3, <3>4
  <2>2. CASE item.kind = "flush"
    BY <1>2, <2>2 DEF Work, FlushRows, Flushed, channel, stop
  <2> QED
    BY <1>2, <2>1, <2>2 DEF Work
<1>3. CASE Signal
  BY <1>3 DEF Signal, Completed, store, stop
<1>4. CASE WriterDone
  BY <1>4 DEF WriterDone, channel, store, stop
<1>5. CASE Drain
  <2>1. CASE queue = <<>>
    BY <1>5, <2>1 DEF Drain, FlushRows, Flushed, stop
  <2>2. CASE queue # <<>>
    <3>1. /\ Head(queue) = queue[1] /\ queue' = Tail(queue) /\ writer' = "drain"
          /\ UNCHANGED <<item, done, running, nextFlushSeq>>
          /\ \/ Head(queue).kind = "batch" /\ Write(Head(queue)) /\ UNCHANGED completedFlushSeq
             \/ FlushRows /\ completedFlushSeq' = Completed(Head(queue))
      BY <1>5, <2>2 DEF Drain, DrainNext, stop
    <3>2. /\ queue' \in Seq(Messages) /\ Len(queue') = Len(queue) - 1 /\ queue[1] \in Messages
          /\ 1 \in 1 .. Len(queue)
          /\ \A k \in 1 .. Len(queue') : queue'[k] = queue[k + 1] /\ k + 1 \in 1 .. Len(queue)
      BY <2>2, <3>1
    <3>3. StoreTypes'
      <4>1. CASE Head(queue).kind = "batch" /\ Write(Head(queue))
        BY <3>1, <3>2, <4>1 DEF Write
      <4>2. CASE FlushRows
        BY <4>2 DEF FlushRows, Flushed
      <4> QED
        BY <3>1, <4>1, <4>2
    <3>4. queue[1].flushSeq \in Nat /\ queue[1].flushSeq <= nextFlushSeq
      BY <3>2
    <3>5. completedFlushSeq' \in 0 .. nextFlushSeq
      BY <3>1, <3>4, RemoteDataSourceAssumption DEF Completed
    <3>6. \A k \in 1 .. Len(queue') : queue'[k].flushSeq <= nextFlushSeq
      BY <3>2
    <3>7. WriterTypes'
      BY <3>1, <3>2, <3>5, <3>6
    <3>8. ItemInv'
      BY <1>5, <3>1 DEF Drain
    <3> QED
      BY <3>3, <3>7, <3>8
  <2> QED
    BY <2>1, <2>2
<1> QED
  BY <1>1, <1>2, <1>3, <1>4, <1>5 DEF Writer

\* A message that goes to the end of the queue.
LEMMA PushTypes ==
    ASSUME WriterTypes, NEW m \in Messages, NEW n \in Nat, m.flushSeq <= n, n <= MaxFlushes,
           nextFlushSeq <= n, queue' = Append(queue, m), nextFlushSeq' = n,
           UNCHANGED <<item, writer, done, running, completedFlushSeq>>
    PROVE  WriterTypes'
<1>1. /\ queue' \in Seq(Messages) /\ Len(queue') = Len(queue) + 1
      /\ \A k \in 1 .. Len(queue') : queue'[k] = IF k = Len(queue) + 1 THEN m ELSE queue[k]
  BY DEF WriterTypes
<1>2. \A k \in 1 .. Len(queue) : queue[k] \in Messages /\ queue[k].flushSeq \in Nat
  BY MessageFacts DEF WriterTypes
<1>3. \A k \in 1 .. Len(queue') : queue'[k].flushSeq <= n
  BY <1>1, <1>2, MessageFacts DEF WriterTypes
<1> QED
  BY <1>1, <1>3, MessageFacts, RemoteDataSourceAssumption DEF WriterTypes

LEMMA TypesStep == ASSUME Types, [Next]_vars PROVE Types'
<1> USE DEF Types
<1>1. ASSUME NEW c \in Conns, Peer(c) PROVE Types'
  <2>1. UNCHANGED <<accept, recv, channel, writer, item, store, stop, flush>>
    BY <1>1 DEF Peer, Connect, Handshake, Send, Break
  <2>2. NetTypes'
    <3>1. CASE Connect(c) \/ Handshake(c)
      BY <3>1 DEF Connect, Handshake, NetTypes
    <3>2. CASE Send(c)
      <4>1. PICK kind \in {"batch", "flush"} :
              wire' = [wire EXCEPT ![c] = Append(@, Message(kind, <<c, sent[c] + 1>>, 0))]
        BY <3>2 DEF Send
      <4>2. Message(kind, <<c, sent[c] + 1>>, 0) \in PeerMessages
        <5>1. <<c, sent[c] + 1>> \in Ids
          BY <3>2, RemoteDataSourceAssumption DEF Send, NetTypes, Ids
        <5> QED
          BY <5>1 DEF Message, PeerMessages, Messages
      <4>3. Append(wire[c], Message(kind, <<c, sent[c] + 1>>, 0)) \in Seq(PeerMessages)
        BY <4>2 DEF NetTypes
      <4>4. wire' \in [Conns -> Seq(PeerMessages)]
        BY <4>1, <4>3 DEF NetTypes
      <4> QED
        BY <3>2, <4>4, RemoteDataSourceAssumption DEF Send, NetTypes
    <3>3. CASE Break(c)
      <4>1. PICK kept \in {wire[c], <<>>} : wire' = [wire EXCEPT ![c] = kept]
        BY <3>3 DEF Break
      <4>2. kept \in Seq(PeerMessages)
        <5>1. wire[c] \in Seq(PeerMessages) /\ <<>> \in Seq(PeerMessages)
          BY DEF NetTypes
        <5> QED
          BY <4>1, <5>1
      <4>3. wire' \in [Conns -> Seq(PeerMessages)]
        BY <4>1, <4>2 DEF NetTypes
      <4> QED
        BY <3>3, <4>3 DEF Break, NetTypes
    <3> QED
      BY <1>1, <3>1, <3>2, <3>3 DEF Peer
  <2> QED
    BY <2>1, <2>2 DEF accept, recv, channel, store, stop, flush, ThreadTypes, WriterTypes, StoreTypes,
       FlushTypes, ItemInv
<1>2. ASSUME NEW c \in Conns, Receiver(c) PROVE Types'
  <2>1. UNCHANGED <<sent, accept, writer, item, store, stop, flush, done, nextFlushSeq, completedFlushSeq>>
    BY <1>2 DEF Receiver, RecvLoop, Recv, RecvFails, Push, net, channel
  <2>2. NetTypes' /\ ThreadTypes' /\ WriterTypes'
    <3>1. CASE RecvLoop(c) \/ RecvFails(c)
      BY <3>1 DEF RecvLoop, RecvFails, net, accept, channel, stop, NetTypes, ThreadTypes, WriterTypes
    <3>2. CASE Recv(c)
      <4>1. /\ Head(wire[c]) \in PeerMessages /\ Tail(wire[c]) \in Seq(PeerMessages)
        BY <3>2 DEF Recv, NetTypes
      <4> QED
        BY <3>2, <4>1 DEF Recv, accept, channel, stop, NetTypes, ThreadTypes, WriterTypes
    <3>3. CASE Push(c)
      <4>1. /\ hand[c] \in Messages /\ hand[c].flushSeq = 0 /\ queue' = Append(queue, hand[c])
            /\ UNCHANGED <<item, writer, done, running, nextFlushSeq, completedFlushSeq>>
        BY <2>1, <3>3, PeerFacts DEF Push, PushLast, ThreadTypes, stop
      <4>2. nextFlushSeq \in Nat /\ nextFlushSeq <= MaxFlushes
        BY RemoteDataSourceAssumption DEF WriterTypes
      <4>3. WriterTypes'
        BY <4>1, <4>2, PushTypes
      <4> QED
        BY <3>3, <4>3, NoItemFacts DEF Push, net, accept, NetTypes, ThreadTypes
    <3> QED
      BY <1>2, <3>1, <3>2, <3>3 DEF Receiver
  <2> QED
    BY <2>1, <2>2 DEF store, flush, StoreTypes, FlushTypes, ItemInv
<1>3. CASE Acceptor
  <2>1. UNCHANGED <<net, channel, writer, item, store, stop, flush, hand>>
    BY <1>3 DEF Acceptor, AcceptLoop, PollTimeout, Greeted, Accept, recv
  <2>2. ThreadTypes'
    BY <1>3, RemoteDataSourceAssumption DEF Acceptor, AcceptLoop, PollTimeout, Greeted, Accept, recv,
       ThreadTypes
  <2> QED
    BY <2>1, <2>2 DEF net, channel, store, stop, flush, NetTypes, WriterTypes, StoreTypes, FlushTypes,
       ItemInv
<1>4. CASE Writer
  <2>1. UNCHANGED <<net, accept, recv, flush>>
    BY <1>4 DEF Writer, Dequeue, Work, Signal, WriterDone, Drain
  <2> QED
    BY <1>4, <2>1, WriterTypesStep DEF net, accept, recv, flush, NetTypes, ThreadTypes, FlushTypes
<1>5. ASSUME NEW f \in Flushers, Flusher(f) PROVE Types'
  <2>1. UNCHANGED <<net, accept, recv, writer, item, store, stop, done, completedFlushSeq>>
    BY <1>5 DEF Flusher, FlushCall, FlushCompleted, FlushTimeout, FlushReturn, channel
  <2>2. CASE FlushCall(f)
    <3>1. /\ Message("flush", Local, nextFlushSeq + 1) \in Messages
          /\ Message("flush", Local, nextFlushSeq + 1).flushSeq = nextFlushSeq + 1
          /\ nextFlushSeq + 1 \in Nat /\ nextFlushSeq + 1 <= MaxFlushes
      BY <2>2, RemoteDataSourceAssumption DEF FlushCall, Message, Messages, WriterTypes
    <3>2. WriterTypes'
      BY <2>1, <2>2, <3>1, PushTypes DEF FlushCall, PushLast, stop, WriterTypes
    <3>3. Queued \subseteq Ids
      <4>1. \A i \in DOMAIN queue : queue[i].kind = "batch" => queue[i].id \in Ids
        BY MessageFacts DEF WriterTypes
      <4>2. item.kind = "batch" => item.id \in Ids
        BY MessageFacts DEF WriterTypes
      <4>3. \A i \in DOMAIN log : log[i] \in Ids
        BY DEF StoreTypes
      <4> QED
        BY <4>1, <4>2, <4>3 DEF Queued
    <3>4. FlushTypes'
      BY <2>2, <3>1, <3>3 DEF FlushCall, FlushTypes, WriterTypes
    <3> QED
      BY <2>1, <3>2, <3>4 DEF net, accept, recv, store, NetTypes, ThreadTypes, StoreTypes, ItemInv
  <2>3. CASE FlushReturn(f)
    <3>1. UNCHANGED channel
      BY <2>3 DEF FlushReturn
    <3>2. FlushTypes'
      BY <2>3, RemoteDataSourceAssumption DEF FlushReturn, FlushTypes
    <3> QED
      BY <2>1, <3>1, <3>2 DEF net, accept, recv, channel, store, stop, NetTypes, ThreadTypes,
         WriterTypes, StoreTypes, ItemInv
  <2> QED
    BY <1>5, <2>2, <2>3 DEF Flusher, FlushCompleted, FlushTimeout
<1>6. CASE EndCall \/ End
  <2>1. UNCHANGED <<sent, accept, recv, queue, nextFlushSeq, completedFlushSeq, item, store, flush>>
    BY <1>6 DEF EndCall, End, EndListener, EndAccept, EndConnections, EndReceivers, EndSignal, EndWriter,
                net, channel
  <2>2. NetTypes'
    <3>1. CASE EndConnections
      <4>1. wire' \in [Conns -> Seq(PeerMessages)]
        BY <3>1 DEF EndConnections, NetTypes
      <4>2. at' \in [Conns -> {"unused", "connected", "open", "closed"}]
        BY <3>1 DEF EndConnections, NetTypes
      <4> QED
        BY <2>1, <4>1, <4>2 DEF NetTypes
    <3>2. CASE UNCHANGED net
      BY <3>2 DEF net, NetTypes
    <3> QED
      BY <1>6, <3>1, <3>2 DEF EndCall, End, EndListener, EndAccept, EndReceivers, EndSignal, EndWriter
  <2>3. /\ done' \in BOOLEAN /\ running' \in BOOLEAN
        /\ \/ writer' = writer
           \/ writer = "exited" /\ writer' = "null"
    BY <1>6 DEF EndCall, End, EndListener, EndAccept, EndConnections, EndReceivers, EndSignal, EndWriter,
                channel, WriterTypes
  <2> QED
    BY <2>1, <2>2, <2>3 DEF accept, recv, store, flush, ThreadTypes, WriterTypes, StoreTypes, FlushTypes,
       ItemInv
<1>7. CASE UNCHANGED vars
  BY <1>7 DEF vars, net, accept, recv, channel, store, stop, flush, NetTypes, ThreadTypes, WriterTypes,
     StoreTypes, FlushTypes, ItemInv
<1> QED
  BY <1>1, <1>2, <1>3, <1>4, <1>5, <1>6, <1>7 DEF Next

-----------------------------------------------------------------------------
(* The order of a connection's messages, from the wire to the log *)

\* What was read from a connection, and what has left its receive thread.
Seen(c)  == sent[c] - Len(wire[c])
Limit(c) == IF receiver[c] = "push" THEN hand[c].id[2] - 1 ELSE Seen(c)

\* A wire has the messages sent last; a receive thread has one or none.
ConnInv(c) ==
    /\ Len(wire[c]) <= sent[c]
    /\ \A k \in 1 .. Len(wire[c]) : wire[c][k].id = <<c, Seen(c) + k>>
    /\ receiver[c] = "push" => hand[c].id[1] = c /\ hand[c].id[2] \in 1 .. Seen(c)
    /\ receiver[c] # "push" => hand[c] = NoItem
WireInv == \A c \in Conns : ConnInv(c)

Limits           == [c \in Conns |-> Limit(c)]
Under(id, bound) == id[1] \in Conns => id[2] <= bound[id[1]]
Before(a, b)     == a[1] \in Conns /\ a[1] = b[1] => a[2] < b[2]

\* The log, what the writer has in work and the queue have a connection's messages in
\* the order they were sent, and later ones have not got so far.
OrderInv ==
    /\ \A i \in 1 .. Len(log) : Under(log[i], Limits) /\ Before(log[i], item.id)
    /\ \A i, j \in 1 .. Len(log) : i < j => Before(log[i], log[j])
    /\ Under(item.id, Limits)
    /\ \A k \in 1 .. Len(queue) :
         /\ Under(queue[k].id, Limits) /\ Before(item.id, queue[k].id)
         /\ \A i \in 1 .. Len(log) : Before(log[i], queue[k].id)
    /\ \A k, l \in 1 .. Len(queue) : k < l => Before(queue[k].id, queue[l].id)

-----------------------------------------------------------------------------
(* Flushes *)

Written == {log[i] : i \in 1 .. Len(log)}

\* What is in the log is in one of the tables; a flush leaves nothing in the first.
StoreInv ==
    /\ Written = temp \cup main /\ temp \cap main = {}
    /\ writer = "signal" => temp = {}

InWork(id)      == writer = "work" /\ item.kind = "batch" /\ item.id = id
InQueue(id, n)  == \E k \in 1 .. n : queue[k].kind = "batch" /\ queue[k].id = id
Ahead(id, n)    == id \in Written \/ InWork(id) \/ InQueue(id, n)

\* A request has behind it, in the queue or further, what its caller waits for; once it
\* is completed that is in the main table.
Served(f) ==
    pc[f] = "waiting" =>
        /\ seq[f] >= 1
        /\ \A id \in mark[f] : Ahead(id, Len(queue))
        /\ completedFlushSeq >= seq[f] => mark[f] \subseteq main
        /\ item.flushSeq >= seq[f] => mark[f] \subseteq Written
        /\ \A k \in 1 .. Len(queue) : queue[k].flushSeq >= seq[f] => \A id \in mark[f] : Ahead(id, k - 1)
FlushInv == \A f \in Flushers : Served(f)

-----------------------------------------------------------------------------
(* The end *)

\* end() has passed: the accept thread, the receive threads, the writer.
EndInv ==
    /\ ending \in {"no", "listener", "accept", "connections", "receivers", "signal", "writer", "ended"}
    /\ ending # "no" => ~running
    /\ ending \notin {"no", "listener", "accept"} => acceptor = "exited"
    /\ ending \in {"signal", "writer", "ended"} => ReceiversJoined
    /\ done <=> ending \in {"writer", "ended"}
    /\ writer \in {"drain", "exited", "null"} => done /\ queue = <<>>
    /\ writer \in {"exited", "null"} => temp = {}
    /\ ending = "ended" => writer = "null"

IInv == Types /\ WireInv /\ OrderInv /\ StoreInv /\ FlushInv /\ EndInv

-----------------------------------------------------------------------------
LEMMA ConnNumbers ==
    ASSUME Types, NEW c \in Conns
    PROVE  /\ sent[c] \in Nat /\ Len(wire[c]) \in Nat /\ Seen(c) \in Int /\ sent[c] <= MaxMessages
           /\ \A k \in 1 .. Len(wire[c]) : wire[c][k] \in PeerMessages
  BY RemoteDataSourceAssumption DEF Types, NetTypes, Seen

\* A step that leaves a connection alone, or takes away what is on its wire.
LEMMA ConnKept ==
    ASSUME Types, Types', NEW c \in Conns, ConnInv(c), sent'[c] = sent[c], hand'[c] = hand[c],
           wire'[c] \in {wire[c], <<>>}, (receiver'[c] = "push") = (receiver[c] = "push")
    PROVE  ConnInv(c)' /\ Limit(c)' >= Limit(c)
<1>1. CASE wire'[c] = wire[c]
  BY <1>1, ConnNumbers, MessageFacts, PeerFacts DEF ConnInv, Limit, Seen, Types, ThreadTypes, Ids
<1>2. CASE wire'[c] = <<>>
  <2>1. Len(wire'[c]) = 0 /\ Seen(c)' = sent[c] /\ Seen(c) <= sent[c]
    BY <1>2, ConnNumbers DEF Seen
  <2>2. Limit(c)' >= Limit(c)
    BY <2>1, ConnNumbers DEF ConnInv, Limit
  <2>3. ConnInv(c)'
    BY <2>1, ConnNumbers DEF ConnInv
  <2> QED
    BY <2>2, <2>3
<1> QED
  BY <1>1, <1>2

LEMMA WireStep ==
    ASSUME Types, Types', WireInv, [Next]_vars
    PROVE  WireInv' /\ \A c \in Conns : Limit(c)' >= Limit(c)
<1> SUFFICES ASSUME NEW d \in Conns PROVE ConnInv(d)' /\ Limit(d)' >= Limit(d)
  BY DEF WireInv
<1>0. ConnInv(d)
  BY DEF WireInv
<1>1. ASSUME NEW c \in Conns, Send(c) \/ Recv(c) \/ Push(c), c = d PROVE ConnInv(d)' /\ Limit(d)' >= Limit(d)
  <2>1. CASE Send(c)
    <3>1. PICK m \in {Message(kind, <<c, sent[c] + 1>>, 0) : kind \in {"batch", "flush"}} :
            wire' = [wire EXCEPT ![c] = Append(@, m)]
      BY <2>1 DEF Send
    <3>2. m.id = <<c, sent[c] + 1>>
      BY <3>1 DEF Message
    <3>3. /\ wire'[c] = Append(wire[c], m) /\ sent'[c] = sent[c] + 1 /\ UNCHANGED <<receiver, hand>>
      BY <2>1, <3>1 DEF Send, Types, NetTypes, recv
    <3>4. m \in PeerMessages
      <4>1. <<c, sent[c] + 1>> \in Ids
        BY <2>1, ConnNumbers, RemoteDataSourceAssumption DEF Send, Ids, Types, NetTypes
      <4> QED
        BY <3>1, <4>1 DEF Message, PeerMessages, Messages
    <3>5. /\ Len(wire'[c]) = Len(wire[c]) + 1
          /\ \A k \in 1 .. Len(wire'[c]) : wire'[c][k] = IF k = Len(wire[c]) + 1 THEN m ELSE wire[c][k]
      BY <3>3, <3>4 DEF Types, NetTypes
    <3>6. Seen(c)' = Seen(c)
      BY <3>3, <3>5, ConnNumbers DEF Seen
    <3>7. \A k \in 1 .. Len(wire'[c]) : wire'[c][k].id = <<c, Seen(c) + k>>
      <4>1. \A k \in 1 .. Len(wire[c]) : wire[c][k].id = <<c, Seen(c) + k>>
        BY <1>0, <1>1 DEF ConnInv
      <4>2. Seen(c) + (Len(wire[c]) + 1) = sent[c] + 1
        BY ConnNumbers DEF Seen
      <4>3. ASSUME NEW k \in 1 .. Len(wire'[c]) PROVE wire'[c][k].id = <<c, Seen(c) + k>>
        <5>1. CASE k = Len(wire[c]) + 1
          BY <3>2, <3>5, <4>2, <5>1
        <5>2. CASE k \in 1 .. Len(wire[c])
          <6>1. k # Len(wire[c]) + 1
            BY <5>2, ConnNumbers
          <6>2. wire'[c][k] = wire[c][k]
            BY <3>5, <6>1
          <6> QED
            BY <4>1, <5>2, <6>2
        <5> QED
          BY <3>5, <5>1, <5>2, ConnNumbers
      <4> QED
        BY <4>3
    <3>8. Limit(c)' = Limit(c) /\ Limit(c) \in Int
      BY <1>0, <1>1, <3>3, <3>6, ConnNumbers DEF Limit, ConnInv
    <3> QED
      BY <1>0, <1>1, <3>3, <3>5, <3>6, <3>7, <3>8, ConnNumbers DEF ConnInv
  <2>2. CASE Recv(c)
    <3>1. /\ wire[c] # <<>> /\ receiver[c] = "recv" /\ receiver'[c] = "push"
          /\ wire'[c] = Tail(wire[c]) /\ hand'[c] = wire[c][1] /\ UNCHANGED sent
      BY <2>2 DEF Recv, Types, NetTypes, ThreadTypes
    <3>2. /\ Len(wire'[c]) = Len(wire[c]) - 1 /\ 1 \in 1 .. Len(wire[c])
          /\ \A k \in 1 .. Len(wire'[c]) : wire'[c][k] = wire[c][k + 1] /\ k + 1 \in 1 .. Len(wire[c])
      BY <3>1 DEF Types, NetTypes
    <3>3. Seen(c)' = Seen(c) + 1
      BY <3>1, <3>2, ConnNumbers DEF Seen
    <3>4. hand'[c].id = <<c, Seen(c) + 1>>
      BY <1>0, <1>1, <3>1, <3>2 DEF ConnInv
    <3>5. Seen(c) >= 0
      BY <1>0, <1>1, ConnNumbers DEF ConnInv, Seen
    <3>6. Limit(c)' = Limit(c) /\ Limit(c) \in Int
      BY <3>1, <3>4, ConnNumbers DEF Limit
    <3>7. \A k \in 1 .. Len(wire'[c]) : wire'[c][k].id = <<c, Seen(c)' + k>>
      <4>1. \A k \in 1 .. Len(wire'[c]) : wire[c][k + 1].id = <<c, Seen(c) + (k + 1)>>
        BY <1>0, <1>1, <3>2 DEF ConnInv
      <4> QED
        <5>1. ASSUME NEW k \in 1 .. Len(wire'[c]) PROVE Seen(c) + (k + 1) = Seen(c)' + k
          BY <3>2, <3>3, ConnNumbers
        <5>2. \A k \in 1 .. Len(wire'[c]) : wire'[c][k].id = <<c, Seen(c) + (k + 1)>>
          BY <3>2, <4>1
        <5> QED
          BY <5>1, <5>2
    <3> QED
      BY <1>0, <1>1, <3>1, <3>2, <3>3, <3>4, <3>5, <3>6, <3>7, ConnNumbers DEF ConnInv
  <2>3. CASE Push(c)
    <3>1. /\ receiver[c] = "push" /\ receiver'[c] = "loop" /\ hand'[c] = NoItem /\ UNCHANGED <<sent, wire>>
      BY <2>3 DEF Push, net, Types, ThreadTypes
    <3>2. Seen(c)' = Seen(c) /\ Limit(c)' = Seen(c) /\ Limit(c) <= Seen(c)
      BY <1>0, <1>1, <3>1, ConnNumbers DEF Seen, Limit, ConnInv
    <3> QED
      BY <1>0, <1>1, <3>1, <3>2 DEF ConnInv
  <2> QED
    BY <1>1, <2>1, <2>2, <2>3
<1>2. ASSUME NEW c \in Conns, Peer(c) \/ Receiver(c), c # d PROVE ConnInv(d)' /\ Limit(d)' >= Limit(d)
  <2>1. /\ sent'[d] = sent[d] /\ hand'[d] = hand[d] /\ wire'[d] = wire[d] /\ receiver'[d] = receiver[d]
    BY <1>2 DEF Peer, Receiver, Connect, Handshake, Send, Break, RecvLoop, Recv, RecvFails, Push, net, recv,
                Types, NetTypes, ThreadTypes
  <2> QED
    BY <1>0, <2>1, ConnKept
<1>3. ASSUME NEW c \in Conns, Connect(c) \/ Handshake(c) \/ Break(c) \/ RecvLoop(c) \/ RecvFails(c), c = d
      PROVE  ConnInv(d)' /\ Limit(d)' >= Limit(d)
  <2>1. /\ sent' = sent /\ hand' = hand /\ wire'[d] \in {wire[d], <<>>}
        /\ receiver'[d] = "push" <=> receiver[d] = "push"
    BY <1>3 DEF Connect, Handshake, Break, RecvLoop, RecvFails, net, recv, Types, NetTypes, ThreadTypes
  <2> QED
    BY <1>0, <2>1, ConnKept
<1>4. CASE Acceptor
  <2>1. sent' = sent /\ hand' = hand /\ wire' = wire
    BY <1>4 DEF Acceptor, AcceptLoop, PollTimeout, Greeted, Accept, net, recv
  <2>2. CASE receiver' = receiver
    BY <1>0, <2>1, <2>2, ConnKept
  <2>3. CASE Greeted
    <3>1. greeting \in Conns /\ receiver[greeting] = "none" /\ receiver'[greeting] \in {"loop", "exited"}
      BY <2>3 DEF Greeted, Types, ThreadTypes
    <3>2. receiver'[d] = "push" <=> receiver[d] = "push"
      <4>1. d # greeting => receiver'[d] = receiver[d]
        BY <2>3 DEF Greeted, Types, ThreadTypes
      <4> QED
        BY <3>1, <4>1
    <3> QED
      BY <1>0, <2>1, <3>2, ConnKept
  <2> QED
    BY <1>4, <2>2, <2>3 DEF Acceptor, AcceptLoop, PollTimeout, Accept, recv
<1>5. CASE \/ Writer \/ (\E f \in Flushers : Flusher(f)) \/ EndCall \/ End \/ UNCHANGED vars
  <2>1. sent' = sent /\ hand' = hand /\ wire'[d] \in {wire[d], <<>>} /\ receiver' = receiver
    BY <1>5 DEF Writer, Dequeue, Work, Signal, WriterDone, Drain, Flusher, FlushCall, FlushCompleted,
       FlushTimeout, FlushReturn, EndCall, End, EndListener, EndAccept, EndConnections, EndReceivers,
       EndSignal, EndWriter, vars, net, recv, Types, NetTypes
  <2> QED
    BY <1>0, <2>1, ConnKept
<1> QED
  BY <1>1, <1>2, <1>3, <1>4, <1>5 DEF Next, Peer, Receiver

-----------------------------------------------------------------------------
LimitsInt == Limits \in [Conns -> Int]

LEMMA LimitInt == Types /\ WireInv => LimitsInt
  BY ConnNumbers DEF WireInv, ConnInv, Limits, Limit, LimitsInt

\* The limits of a step.
Grows == LimitsInt /\ LimitsInt' /\ \A c \in Conns : Limits[c] <= Limits'[c]

LEMMA LimitsGrow == ASSUME Types, Types', WireInv, [Next]_vars PROVE WireInv' /\ Grows
<1>1. WireInv' /\ \A c \in Conns : Limit(c)' >= Limit(c)
  BY WireStep
<1>2. Types' /\ WireInv' => LimitsInt'
  BY LimitInt, PTL
<1>3. \A c \in Conns : Limits[c] = Limit(c) /\ Limits'[c] = Limit(c)'
  BY DEF Limits
<1> QED
  BY <1>1, <1>2, <1>3, LimitInt DEF Grows, LimitsInt

LEMMA IdFacts ==
    /\ \A id \in Ids : id[1] \in Conns /\ id[2] \in Nat
    /\ \A m \in Messages : m.id[1] \in Conns => m.id \in Ids
<1>1. \A id \in Ids : id[1] \in Conns /\ id[2] \in Nat
  BY RemoteDataSourceAssumption DEF Ids
<1>2. \A m \in Messages : m.id[1] \in Conns => m.id \in Ids
  BY MessageFacts, NoItemFacts, RemoteDataSourceAssumption
<1> QED
  BY <1>1, <1>2

LEMMA PipeFacts ==
    Types => /\ \A k \in 1 .. Len(queue) : queue[k] \in Messages
             /\ \A i \in 1 .. Len(log) : log[i] \in Ids
             /\ item \in Messages /\ Len(queue) \in Nat /\ Len(log) \in Nat
  BY DEF Types, WriterTypes, StoreTypes

LEMMA UnderGrows ==
    ASSUME Grows, NEW id, id[1] \in Conns => id \in Ids, Under(id, Limits)
    PROVE  Under(id, Limits')
  BY IdFacts DEF Grows, Under, LimitsInt

\* A step that leaves log, item and queue alone.
LEMMA PipeKept ==
    ASSUME Types, OrderInv, Grows, UNCHANGED <<log, item, queue>>
    PROVE  OrderInv'
<1>1. \A i \in 1 .. Len(log) : Under(log[i], Limits')
  BY PipeFacts, IdFacts, UnderGrows DEF OrderInv
<1>2. \A k \in 1 .. Len(queue) : Under(queue[k].id, Limits')
  BY PipeFacts, IdFacts, UnderGrows DEF OrderInv
<1>3. Under(item.id, Limits')
  BY PipeFacts, IdFacts, UnderGrows DEF OrderInv
<1> QED
  BY <1>1, <1>2, <1>3 DEF OrderInv, Under, Before

\* A step that adds a message to the queue, of no connection or behind all of its own.
LEMMA PushOrder ==
    ASSUME Types, OrderInv, Grows, NEW m \in Messages, queue' = Append(queue, m), UNCHANGED <<log, item>>,
           m.id[1] \in Conns => Limits[m.id[1]] < m.id[2], Under(m.id, Limits')
    PROVE  OrderInv'
<1>1. /\ Len(queue') = Len(queue) + 1 /\ queue'[Len(queue) + 1] = m
      /\ \A k \in 1 .. Len(queue) : queue'[k] = queue[k]
  BY DEF Types, WriterTypes
<1>2. \A x \in Messages : Under(x.id, Limits) => Before(x.id, m.id)
  BY IdFacts DEF Under, Before, Grows, LimitsInt
<1>3. \A id \in Ids : Under(id, Limits) => Before(id, m.id)
  BY IdFacts DEF Under, Before, Grows, LimitsInt
<1>4. ASSUME NEW i \in 1 .. Len(log)
      PROVE  Under(log[i], Limits') /\ Before(log[i], item.id) /\ Before(log[i], m.id)
  BY <1>3, PipeFacts, UnderGrows DEF OrderInv
<1>5. Under(item.id, Limits') /\ Before(item.id, m.id)
  BY <1>2, PipeFacts, IdFacts, UnderGrows DEF OrderInv
<1>6. ASSUME NEW k \in 1 .. Len(queue')
      PROVE  /\ Under(queue'[k].id, Limits') /\ Before(item.id, queue'[k].id)
             /\ \A i \in 1 .. Len(log) : Before(log[i], queue'[k].id)
  <2>1. CASE k = Len(queue) + 1
    BY <1>1, <1>4, <1>5, <2>1 DEF Under
  <2>2. CASE k \in 1 .. Len(queue)
    <3>1. queue'[k] = queue[k] /\ queue[k] \in Messages /\ Under(queue[k].id, Limits)
      BY <1>1, <2>2, PipeFacts DEF OrderInv
    <3>2. Under(queue[k].id, Limits')
      BY <3>1, IdFacts, UnderGrows
    <3> QED
      BY <2>2, <3>1, <3>2 DEF OrderInv, Under
  <2> QED
    BY <1>1, <2>1, <2>2, PipeFacts
<1>7. ASSUME NEW k \in 1 .. Len(queue'), NEW l \in 1 .. Len(queue'), k < l
      PROVE  Before(queue'[k].id, queue'[l].id)
  <2>1. k \in 1 .. Len(queue)
    BY <1>1, <1>7, PipeFacts
  <2>2. CASE l = Len(queue) + 1
    <3>1. queue[k] \in Messages /\ Under(queue[k].id, Limits)
      BY <2>1, PipeFacts DEF OrderInv
    <3> QED
      BY <1>1, <1>2, <2>1, <2>2, <3>1
  <2>3. CASE l \in 1 .. Len(queue)
    BY <1>1, <1>7, <2>1, <2>3 DEF OrderInv
  <2> QED
    BY <1>1, <2>2, <2>3, PipeFacts
<1> QED
  BY <1>4, <1>5, <1>6, <1>7 DEF OrderInv, Under, Before

LEMMA WriterOrder ==
    ASSUME Types, OrderInv, Grows, EndInv, Writer
    PROVE  OrderInv'
<1>1. CASE Dequeue
  <2>1. /\ queue # <<>> /\ item' = queue[1] /\ queue' = Tail(queue) /\ log' = log
    BY <1>1 DEF Dequeue, store
  <2>2. /\ Len(queue') = Len(queue) - 1 /\ 1 \in 1 .. Len(queue)
        /\ \A k \in 1 .. Len(queue') : queue'[k] = queue[k + 1] /\ k + 1 \in 1 .. Len(queue) /\ 1 < k + 1
    BY <2>1 DEF Types, WriterTypes
  <2>3. \A k \in 1 .. Len(queue) : Under(queue[k].id, Limits')
    BY PipeFacts, IdFacts, UnderGrows DEF OrderInv
  <2>4. \A i \in 1 .. Len(log) : Under(log[i], Limits')
    BY PipeFacts, IdFacts, UnderGrows DEF OrderInv
  <2>5. \A k, l \in 1 .. Len(queue') : k < l => k + 1 < l + 1
    OBVIOUS
  <2> QED
    BY <2>1, <2>2, <2>3, <2>4, <2>5 DEF OrderInv, Under, Before
<1>2. CASE Work /\ item.kind = "batch"
  <2>1. log' = Append(log, item.id) /\ item' = NoItem /\ queue' = queue /\ item.id \in Ids
    BY <1>2, MessageFacts, PipeFacts DEF Work, Write, channel
  <2>2. /\ Len(log') = Len(log) + 1 /\ log'[Len(log) + 1] = item.id
        /\ \A i \in 1 .. Len(log) : log'[i] = log[i]
    BY <2>1 DEF Types, StoreTypes
  <2>3. /\ \A i \in 1 .. Len(log') : \/ i \in 1 .. Len(log) /\ log'[i] = log[i]
                                     \/ i = Len(log) + 1 /\ log'[i] = item.id
        /\ \A i, j \in 1 .. Len(log') : i < j => i \in 1 .. Len(log)
    BY <2>2, PipeFacts
  <2>4. \A k \in 1 .. Len(queue) : Under(queue[k].id, Limits')
    BY PipeFacts, IdFacts, UnderGrows DEF OrderInv
  <2>5. \A i \in 1 .. Len(log') : Under(log'[i], Limits')
    <3>1. \A i \in 1 .. Len(log) : Under(log[i], Limits')
      BY PipeFacts, IdFacts, UnderGrows DEF OrderInv
    <3>2. Under(item.id, Limits')
      BY <2>1, UnderGrows DEF OrderInv
    <3> QED
      BY <2>3, <3>1, <3>2 DEF Under
  <2>6. \A x : Before(x, NoItem.id) /\ Before(NoItem.id, x) /\ Under(NoItem.id, Limits')
    BY NoItemFacts, RemoteDataSourceAssumption DEF Before, Under
  <2>7. \A i, j \in 1 .. Len(log') : i < j => Before(log'[i], log'[j])
    BY <2>3 DEF OrderInv
  <2>8. \A k \in 1 .. Len(queue) : \A i \in 1 .. Len(log') : Before(log'[i], queue[k].id)
    BY <2>3 DEF OrderInv
  <2> QED
    BY <2>1, <2>4, <2>5, <2>6, <2>7, <2>8 DEF OrderInv, Under, Before
<1>3. CASE Work /\ item.kind = "flush"
  <2>1. UNCHANGED <<log, item, queue>>
    BY <1>3 DEF Work, FlushRows, channel
  <2> QED
    BY <2>1, PipeKept
<1>4. CASE Signal
  <2>1. UNCHANGED <<log, queue>> /\ item' = NoItem
    BY <1>4 DEF Signal, store
  <2>2. \A x : Before(x, NoItem.id) /\ Before(NoItem.id, x) /\ Under(NoItem.id, Limits')
    BY NoItemFacts, RemoteDataSourceAssumption DEF Before, Under
  <2>3. \A k \in 1 .. Len(queue) : Under(queue[k].id, Limits')
    BY PipeFacts, IdFacts, UnderGrows DEF OrderInv
  <2>4. \A i \in 1 .. Len(log) : Under(log[i], Limits')
    BY PipeFacts, IdFacts, UnderGrows DEF OrderInv
  <2> QED
    BY <2>1, <2>2, <2>3, <2>4 DEF OrderInv, Under, Before
<1>5. CASE WriterDone \/ Drain
  <2>1. UNCHANGED <<log, item, queue>>
    BY <1>5 DEF WriterDone, Drain, FlushRows, EndInv, channel, store
  <2> QED
    BY <2>1, PipeKept
<1> QED
  BY <1>1, <1>2, <1>3, <1>4, <1>5, MessageFacts, PipeFacts DEF Writer, Work

LEMMA OrderStep ==
    ASSUME Types, WireInv, OrderInv, EndInv, Grows, WireInv', [Next]_vars
    PROVE  OrderInv'
<1>1. ASSUME NEW c \in Conns, Push(c) PROVE OrderInv'
  <2>1. /\ queue' = Append(queue, hand[c]) /\ UNCHANGED <<log, item>>
        /\ hand[c] \in Messages /\ receiver[c] = "push" /\ receiver'[c] = "loop" /\ UNCHANGED <<sent, wire>>
    BY <1>1, PeerFacts DEF Push, PushLast, Types, ThreadTypes, net, store
  <2>2. hand[c].id[1] = c /\ hand[c].id[2] \in 1 .. Seen(c)
    BY <2>1 DEF WireInv, ConnInv
  <2>3. Limits[c] = hand[c].id[2] - 1 /\ Limits'[c] = Seen(c)
    BY <2>1 DEF Limits, Limit, Seen
  <2>4. Under(hand[c].id, Limits')
    BY <2>1, <2>2, <2>3, ConnNumbers DEF Under
  <2> QED
    BY <2>1, <2>2, <2>3, <2>4, ConnNumbers, PushOrder
<1>2. ASSUME NEW f \in Flushers, FlushCall(f) PROVE OrderInv'
  <2>1. queue' = Append(queue, Message("flush", Local, nextFlushSeq + 1)) /\ UNCHANGED <<log, item>>
    BY <1>2 DEF FlushCall, PushLast, store
  <2>2. /\ Message("flush", Local, nextFlushSeq + 1) \in Messages
        /\ Message("flush", Local, nextFlushSeq + 1).id = Local
    BY RemoteDataSourceAssumption DEF Message, Messages, Types, WriterTypes
  <2>3. Local[1] \notin Conns
    BY NoItemFacts, RemoteDataSourceAssumption
  <2>4. Under(Message("flush", Local, nextFlushSeq + 1).id, Limits')
    BY <2>2, <2>3 DEF Under
  <2> QED
    BY <2>1, <2>2, <2>3, <2>4, PushOrder
<1>3. CASE Writer
  BY <1>3, WriterOrder
<1>4. ASSUME UNCHANGED <<log, item, queue>> PROVE OrderInv'
  BY <1>4, PipeKept
<1> QED
  BY <1>1, <1>2, <1>3, <1>4 DEF Next, Peer, Connect, Handshake, Send, Break, Receiver, RecvLoop, Recv,
     RecvFails, Acceptor, AcceptLoop, PollTimeout, Greeted, Accept, Flusher, FlushCompleted, FlushTimeout,
     FlushReturn, EndCall, End, EndListener, EndAccept, EndConnections, EndReceivers, EndSignal,
     EndWriter, vars, channel, store

-----------------------------------------------------------------------------
LEMMA LogGrows ==
    ASSUME Types, NEW id \in Ids, log' = Append(log, id)
    PROVE  Written' = Written \cup {id}
<1>1. /\ Len(log') = Len(log) + 1 /\ log'[Len(log) + 1] = id /\ Len(log) \in Nat
      /\ \A i \in 1 .. Len(log) : log'[i] = log[i]
  BY DEF Types, StoreTypes
<1>2. \A i \in 1 .. Len(log') : i \in 1 .. Len(log) \/ i = Len(log) + 1
  BY <1>1
<1>3. \A i \in 1 .. Len(log) : i \in 1 .. Len(log')
  BY <1>1
<1>4. Len(log) + 1 \in 1 .. Len(log')
  BY <1>1
<1> QED
  BY <1>1, <1>2, <1>3, <1>4 DEF Written

LEMMA StoreStep ==
    ASSUME Types, OrderInv, StoreInv, EndInv, [Next]_vars
    PROVE  StoreInv' /\ main \subseteq main' /\ Written \subseteq Written'
<1>1. ASSUME UNCHANGED <<store, writer>> PROVE StoreInv' /\ main \subseteq main' /\ Written \subseteq Written'
  BY <1>1 DEF store, StoreInv, Written
<1>2. CASE Work /\ item.kind = "batch"
  <2>1. /\ log' = Append(log, item.id) /\ temp' = temp \cup {item.id} /\ main' = main /\ writer' = "wait"
        /\ item.id \in Ids
    BY <1>2, MessageFacts, PipeFacts DEF Work, Write
  <2>2. Written' = Written \cup {item.id}
    BY <2>1, LogGrows
  <2>3. item.id \notin Written
    BY <2>1, IdFacts DEF OrderInv, Before, Written
  <2> QED
    BY <2>1, <2>2, <2>3 DEF StoreInv
<1>3. CASE Work /\ item.kind = "flush"
  BY <1>3 DEF Work, FlushRows, Flushed, StoreInv, Written
<1>4. CASE Dequeue \/ Signal \/ WriterDone
  BY <1>4 DEF Dequeue, Signal, WriterDone, store, StoreInv, Written
<1>5. CASE Drain
  BY <1>5 DEF Drain, FlushRows, Flushed, EndInv, StoreInv, Written
<1>6. CASE EndWriter
  BY <1>6 DEF EndWriter, store, StoreInv, Written
<1> QED
  BY <1>1, <1>2, <1>3, <1>4, <1>5, <1>6, MessageFacts, PipeFacts
  DEF Next, Peer, Connect, Handshake, Send, Break, Receiver, RecvLoop, Recv, RecvFails, Push, Acceptor,
      AcceptLoop, PollTimeout, Greeted, Accept, Writer, Work, Flusher, FlushCall, FlushCompleted,
      FlushTimeout, FlushReturn, EndCall, End, EndListener, EndAccept, EndConnections, EndReceivers,
      EndSignal, vars

LEMMA EndStep == ASSUME Types, EndInv, [Next]_vars PROVE EndInv'
<1> USE DEF EndInv
<1>1. ASSUME NEW c \in Conns, Peer(c) PROVE EndInv'
  BY <1>1 DEF Peer, Connect, Handshake, Send, Break, accept, recv, channel, store, stop, ReceiversJoined
<1>2. ASSUME NEW c \in Conns, Receiver(c) PROVE EndInv'
  <2>1. receiver[c] \notin {"none", "exited"}
    BY <1>2 DEF Receiver, RecvLoop, Recv, RecvFails, Push
  <2>2. ending \notin {"signal", "writer", "ended"} /\ ~done /\ writer \notin {"drain", "exited", "null"}
    BY <2>1 DEF ReceiversJoined
  <2>3. UNCHANGED <<acceptor, done, writer, stop>>
    BY <1>2 DEF Receiver, RecvLoop, Recv, RecvFails, Push, accept, channel
  <2> QED
    BY <2>2, <2>3 DEF stop
<1>3. CASE Acceptor
  <2>1. acceptor # "exited" /\ UNCHANGED <<channel, writer, temp, stop>>
    BY <1>3 DEF Acceptor, AcceptLoop, PollTimeout, Greeted, Accept, store
  <2>2. ending \in {"no", "listener", "accept"}
    BY <2>1
  <2> QED
    BY <2>1, <2>2 DEF channel, stop
<1>4. CASE Writer
  <2>1. UNCHANGED <<accept, recv, done, stop>>
    BY <1>4 DEF Writer, Dequeue, Work, Signal, WriterDone, Drain, channel
  <2>2. /\ writer \notin {"exited", "null"}
        /\ writer' \in {"drain", "exited", "null"} => done' /\ queue' = <<>>
        /\ writer' \in {"exited", "null"} => temp' = {}
    BY <1>4 DEF Writer, Dequeue, Work, Signal, WriterDone, Drain, FlushRows, channel
  <2> QED
    BY <2>1, <2>2 DEF accept, recv, stop, ReceiversJoined
<1>5. ASSUME NEW f \in Flushers, Flusher(f) PROVE EndInv'
  BY <1>5 DEF Flusher, FlushCall, FlushCompleted, FlushTimeout, FlushReturn, CanServe, MutexFree, accept, recv,
     channel, store, stop, ReceiversJoined
<1>6. CASE EndCall \/ End
  BY <1>6 DEF EndCall, End, EndListener, EndAccept, EndConnections, EndReceivers, EndSignal, EndWriter,
     MutexFree, accept, recv, channel, store, ReceiversJoined
<1>7. CASE UNCHANGED vars
  BY <1>7 DEF vars, accept, recv, channel, store, stop, ReceiversJoined
<1> QED
  BY <1>1, <1>2, <1>3, <1>4, <1>5, <1>6, <1>7 DEF Next

-----------------------------------------------------------------------------
\* A message at the end of the queue changes nothing ahead of the others.
LEMMA PushServed ==
    ASSUME Types, NEW f \in Flushers, Served(f), NEW m \in Messages, queue' = Append(queue, m),
           UNCHANGED <<log, main, item, writer, completedFlushSeq, pc[f], seq[f], mark[f]>>
    PROVE  Served(f)'
<1>1. /\ Len(queue') = Len(queue) + 1 /\ queue'[Len(queue) + 1] = m /\ Len(queue) \in Nat
      /\ \A k \in 1 .. Len(queue) : queue'[k] = queue[k]
  BY DEF Types, WriterTypes
<1>2. ASSUME NEW id, NEW n \in 0 .. Len(queue), NEW q \in Nat, n <= q, Ahead(id, n)
      PROVE  Ahead(id, q)'
  <2>1. CASE InQueue(id, n)
    <3>1. PICK k \in 1 .. n : queue[k].kind = "batch" /\ queue[k].id = id
      BY <2>1 DEF InQueue
    <3>2. k \in 1 .. q /\ queue'[k] = queue[k]
      BY <1>1, <1>2
    <3> QED
      BY <3>1, <3>2 DEF Ahead, InQueue
  <2>2. CASE id \in Written \/ InWork(id)
    BY <2>2 DEF Ahead, InWork, Written
  <2> QED
    BY <1>2, <2>1, <2>2 DEF Ahead
<1> SUFFICES ASSUME pc[f] = "waiting", pc'[f] = "waiting" PROVE Served(f)'
  BY DEF Served
<1>3. /\ seq'[f] = seq[f] /\ mark'[f] = mark[f] /\ seq[f] >= 1 /\ seq[f] \in Nat /\ Written' = Written
      /\ completedFlushSeq >= seq[f] => mark[f] \subseteq main
      /\ item.flushSeq >= seq[f] => mark[f] \subseteq Written
  BY RemoteDataSourceAssumption DEF Served, Types, FlushTypes, Written
<1>4. \A id \in mark[f] : Ahead(id, Len(queue)) 
  BY DEF Served
<1>5. \A id \in mark[f] : id \in Written' \/ InWork(id)' \/ \E k \in 1 .. Len(queue') :
        queue'[k].kind = "batch" /\ queue'[k].id = id
  <2> SUFFICES ASSUME NEW id \in mark[f], NEW n \in Nat, NEW q \in Nat, n = Len(queue), q = Len(queue')
               PROVE  id \in Written' \/ InWork(id)' \/ \E k \in 1 .. q :
                        queue'[k].kind = "batch" /\ queue'[k].id = id
    BY <1>1
  <2>1. Ahead(id, q)'
    BY <1>1, <1>2, <1>4
  <2> QED
    BY <2>1 DEF Ahead, InQueue
<1>6. ASSUME NEW k \in 1 .. Len(queue'), queue'[k].flushSeq >= seq[f], NEW id \in mark[f]
      PROVE  Ahead(id, k - 1)'
  <2>1. k - 1 \in 0 .. Len(queue) /\ k - 1 \in Nat
    BY <1>1
  <2>2. Ahead(id, k - 1)
    <3>1. CASE k = Len(queue) + 1
      BY <1>1, <1>4, <1>6, <3>1
    <3>2. CASE k # Len(queue) + 1
      <4>1. k \in 1 .. Len(queue) /\ queue'[k] = queue[k]
        BY <1>1, <3>2
      <4> QED
        BY <1>6, <4>1 DEF Served
    <3> QED
      BY <3>1, <3>2
  <2> QED
    BY <1>2, <2>1, <2>2
<1> QED
  BY <1>3, <1>5, <1>6 DEF Served, Ahead, InQueue, InWork

\* A step that leaves the pipe alone; what is in the main table stays there.
LEMMA ServedKept ==
    ASSUME NEW f \in Flushers, Served(f), main \subseteq main', completedFlushSeq' = completedFlushSeq,
           UNCHANGED <<log, item, queue, pc[f], seq[f], mark[f]>>,
           \A id : InWork(id) => InWork(id)'
    PROVE  Served(f)'
<1>1. \A id, n : Ahead(id, n) => Ahead(id, n)'
  BY DEF Ahead, InQueue, Written
<1>2. Written' = Written
  BY DEF Written
<1> QED
  BY <1>1, <1>2 DEF Served

LEMMA WriterServes ==
    ASSUME Types, StoreInv, EndInv, StoreInv', main \subseteq main', Written \subseteq Written', Writer,
           NEW f \in Flushers, Served(f)
    PROVE  Served(f)'
<1>0. UNCHANGED flush
  BY DEF Writer, Dequeue, Work, Signal, WriterDone, Drain
<1> SUFFICES ASSUME pc[f] = "waiting" PROVE Served(f)'
  BY <1>0 DEF Served, flush
<1>1. seq[f] >= 1 /\ seq[f] \in Nat
  BY RemoteDataSourceAssumption DEF Served, Types, FlushTypes
<1>2. CASE Dequeue
  <2>1. /\ queue # <<>> /\ item' = queue[1] /\ queue' = Tail(queue) /\ writer = "wait" /\ writer' = "work"
        /\ UNCHANGED <<log, main, completedFlushSeq>>
    BY <1>2 DEF Dequeue, store
  <2>2. /\ Len(queue') = Len(queue) - 1 /\ Len(queue) \in Nat /\ 1 \in 1 .. Len(queue)
        /\ \A k \in 1 .. Len(queue') : queue'[k] = queue[k + 1] /\ k + 1 \in 1 .. Len(queue)
    BY <2>1 DEF Types, WriterTypes
  <2>3. ASSUME NEW id, NEW n \in 1 .. Len(queue), Ahead(id, n) PROVE Ahead(id, n - 1)'
    <3>1. CASE InQueue(id, n)
      <4>1. PICK k \in 1 .. n : queue[k].kind = "batch" /\ queue[k].id = id
        BY <3>1 DEF InQueue
      <4>2. CASE k = 1
        BY <2>1, <4>1, <4>2 DEF Ahead, InWork
      <4>3. CASE k # 1
        <5>1. k - 1 \in 1 .. n - 1 /\ k - 1 \in 1 .. Len(queue') /\ (k - 1) + 1 = k
          BY <2>2, <4>1, <4>3
        <5>2. queue'[k - 1] = queue[k]
          BY <2>2, <5>1
        <5> QED
          BY <4>1, <5>1, <5>2 DEF Ahead, InQueue
      <4> QED
        BY <4>2, <4>3
    <3>2. CASE id \in Written
      BY <2>1, <3>2 DEF Ahead, Written
    <3> QED
      BY <2>1, <2>3, <3>1, <3>2 DEF Ahead, InWork
  <2>5. item'.flushSeq >= seq[f] => mark[f] \subseteq Written'
    <3> SUFFICES ASSUME queue[1].flushSeq >= seq[f], NEW id \in mark[f] PROVE id \in Written'
      BY <2>1
    <3>1. Ahead(id, 0)
      BY <2>2 DEF Served
    <3> QED
      BY <2>1, <3>1 DEF Ahead, InWork, InQueue, Written
  <2>6. ASSUME NEW k \in 1 .. Len(queue'), queue'[k].flushSeq >= seq[f], NEW id \in mark[f]
        PROVE  Ahead(id, k - 1)'
    <3>1. k \in 1 .. Len(queue) /\ (k + 1) - 1 = k /\ queue[k + 1].flushSeq >= seq[f]
      BY <2>2, <2>6
    <3>2. Ahead(id, k)
      BY <2>2, <3>1 DEF Served
    <3> QED
      BY <2>3, <3>1, <3>2
  <2>7. \A id \in mark[f] : id \in Written' \/ InWork(id)' \/ \E k \in 1 .. Len(queue') :
          queue'[k].kind = "batch" /\ queue'[k].id = id
    <3> SUFFICES ASSUME NEW id \in mark[f], NEW n \in Nat, n = Len(queue')
                 PROVE  id \in Written' \/ InWork(id)' \/ \E k \in 1 .. n :
                          queue'[k].kind = "batch" /\ queue'[k].id = id
      BY <2>2
    <3>1. n + 1 \in 1 .. Len(queue) /\ (n + 1) - 1 = n /\ Ahead(id, n + 1)
      BY <2>2 DEF Served
    <3>2. Ahead(id, n)'
      BY <2>3, <3>1
    <3> QED
      BY <3>2 DEF Ahead, InQueue
  <2> QED
    BY <1>0, <2>1, <2>5, <2>6, <2>7 DEF Served, flush, Ahead, InQueue, InWork
<1>3. CASE Work /\ item.kind = "batch"
  <2>1. /\ item' = NoItem /\ log' = Append(log, item.id) /\ item.id \in Ids
        /\ UNCHANGED <<queue, completedFlushSeq, main>>
    BY <1>3, MessageFacts, PipeFacts DEF Work, Write, channel
  <2>2. Written' = Written \cup {item.id}
    BY <2>1, LogGrows
  <2>3. \A id, n : Ahead(id, n) => Ahead(id, n)'
    BY <2>1, <2>2 DEF Ahead, InWork, InQueue
  <2> QED
    BY <1>0, <1>1, <2>1, <2>2, <2>3, NoItemFacts DEF Served, flush
<1>4. CASE Work /\ item.kind = "flush"
  <2>1. UNCHANGED <<item, log, queue, completedFlushSeq>>
    BY <1>4 DEF Work, FlushRows, channel
  <2> QED
    BY <1>0, <1>4, <2>1, ServedKept DEF InWork, flush
<1>5. CASE Signal
  <2>1. /\ writer = "signal" /\ item' = NoItem /\ UNCHANGED <<log, main, queue>>
        /\ completedFlushSeq' = Completed(item)
    BY <1>5 DEF Signal, store
  <2>2. Written' = Written /\ Written \subseteq main
    BY <2>1 DEF StoreInv, Written
  <2>3. \A id, n : Ahead(id, n) => Ahead(id, n)'
    BY <2>1, <2>2 DEF Ahead, InWork, InQueue
  <2>4. completedFlushSeq' >= seq[f] => mark[f] \subseteq main
    BY <2>1, <2>2 DEF Completed, Served
  <2> QED
    BY <1>0, <1>1, <2>1, <2>2, <2>3, <2>4, NoItemFacts DEF Served, flush
<1>6. CASE WriterDone \/ Drain
  <2>1. /\ UNCHANGED <<log, item, queue, completedFlushSeq>> /\ writer # "work"
    BY <1>6 DEF WriterDone, Drain, FlushRows, EndInv, channel, store
  <2> QED
    BY <1>0, <2>1, ServedKept DEF InWork, flush
<1> QED
  BY <1>2, <1>3, <1>4, <1>5, <1>6, MessageFacts, PipeFacts DEF Writer, Work

LEMMA FlushStep ==
    ASSUME Types, StoreInv, EndInv, FlushInv, StoreInv', main \subseteq main', Written \subseteq Written',
           [Next]_vars
    PROVE  FlushInv'
<1> SUFFICES ASSUME NEW f \in Flushers PROVE Served(f)'
  BY DEF FlushInv
<1>0. Served(f)
  BY DEF FlushInv
<1>1. ASSUME NEW c \in Conns, Push(c) PROVE Served(f)'
  <2>1. /\ hand[c] \in Messages /\ queue' = Append(queue, hand[c])
        /\ UNCHANGED <<log, main, item, writer, completedFlushSeq, flush>>
    BY <1>1, PeerFacts DEF Push, PushLast, Types, ThreadTypes, store
  <2> QED
    BY <1>0, <2>1, PushServed DEF flush
<1>2. CASE Writer
  BY <1>0, <1>2, WriterServes
<1>3. ASSUME NEW g \in Flushers, FlushCall(g) PROVE Served(f)'
  <2> DEFINE m == Message("flush", Local, nextFlushSeq + 1)
  <2>1. m \in Messages /\ m.kind = "flush" /\ m.flushSeq = nextFlushSeq + 1
    BY RemoteDataSourceAssumption DEF Message, Messages, Types, WriterTypes
  <2>2. queue' = Append(queue, m) /\ UNCHANGED <<log, main, item, writer, completedFlushSeq>>
    BY <1>3 DEF FlushCall, PushLast, store
  <2>3. CASE g # f
    <3>1. pc'[f] = pc[f] /\ seq'[f] = seq[f] /\ mark'[f] = mark[f]
      BY <1>3, <2>3 DEF FlushCall, Types, FlushTypes
    <3> HIDE DEF m
    <3> QED
      BY <1>0, <2>1, <2>2, <3>1, PushServed
  <2>4. CASE g = f
    <3>1. /\ seq'[f] = nextFlushSeq + 1 /\ mark'[f] = Queued
          /\ nextFlushSeq \in Nat /\ completedFlushSeq \in Nat /\ completedFlushSeq <= nextFlushSeq
          /\ item.flushSeq \in Nat /\ item.flushSeq <= nextFlushSeq
      BY <1>3, <2>4, MessageFacts, PipeFacts, RemoteDataSourceAssumption
      DEF FlushCall, Types, FlushTypes, WriterTypes
    <3>2. /\ Len(queue') = Len(queue) + 1 /\ Len(queue) \in Nat
          /\ \A k \in 1 .. Len(queue) : queue'[k] = queue[k] /\ queue[k].flushSeq \in Nat
                                        /\ queue[k].flushSeq <= nextFlushSeq
      BY <2>1, <2>2, MessageFacts, PipeFacts DEF Types, WriterTypes
    <3>3. \A id \in Queued : \/ id \in Written \/ InWork(id)
                             \/ \E k \in 1 .. Len(queue) : queue[k].kind = "batch" /\ queue[k].id = id
      BY PipeFacts DEF Queued, Written, InWork, Types, WriterTypes, StoreTypes
    <3>4. \A id \in Queued : \A n \in Nat : n >= Len(queue) => Ahead(id, n)'
      <4> SUFFICES ASSUME NEW id \in Queued, NEW n \in Nat, n >= Len(queue) PROVE Ahead(id, n)'
        OBVIOUS
      <4>1. CASE id \in Written \/ InWork(id)
        BY <2>2, <4>1 DEF Ahead, Written, InWork
      <4>2. CASE \E k \in 1 .. Len(queue) : queue[k].kind = "batch" /\ queue[k].id = id
        <5>1. PICK k \in 1 .. Len(queue) : queue[k].kind = "batch" /\ queue[k].id = id
          BY <4>2
        <5>2. k \in 1 .. n /\ queue'[k] = queue[k]
          BY <3>2, <5>1
        <5> QED
          BY <5>1, <5>2 DEF Ahead, InQueue
      <4> QED
        BY <3>3, <4>1, <4>2
    <3>5. ~(completedFlushSeq >= seq'[f]) /\ ~(item.flushSeq >= seq'[f]) /\ seq'[f] >= 1
      BY <3>1
    <3>6. \A k \in 1 .. Len(queue') : queue'[k].flushSeq >= seq'[f] => k = Len(queue) + 1
      BY <3>1, <3>2
    <3>7. \A k \in 1 .. Len(queue') : queue'[k].flushSeq >= seq'[f] => \A id \in mark'[f] : Ahead(id, k - 1)'
      <4> SUFFICES ASSUME NEW k \in 1 .. Len(queue'), queue'[k].flushSeq >= seq'[f], NEW id \in Queued
                   PROVE  Ahead(id, k - 1)'
        BY <3>1
      <4>1. k - 1 = Len(queue) /\ k - 1 \in Nat /\ k - 1 >= Len(queue)
        BY <3>2, <3>6
      <4> QED
        BY <3>4, <4>1
    <3>8. \A id \in mark'[f] : id \in Written' \/ InWork(id)' \/ \E k \in 1 .. Len(queue') :
            queue'[k].kind = "batch" /\ queue'[k].id = id
      <4> SUFFICES ASSUME NEW id \in Queued, NEW n \in Nat, n = Len(queue')
                   PROVE  id \in Written' \/ InWork(id)' \/ \E k \in 1 .. n :
                            queue'[k].kind = "batch" /\ queue'[k].id = id
        BY <3>1, <3>2
      <4>1. Ahead(id, n)'
        BY <3>2, <3>4
      <4> QED
        BY <4>1 DEF Ahead, InQueue
    <3> QED
      BY <2>2, <3>5, <3>7, <3>8 DEF Served, Ahead, InQueue
  <2> QED
    BY <2>3, <2>4
<1>4. ASSUME NEW g \in Flushers, FlushReturn(g) PROVE Served(f)'
  <2>1. UNCHANGED <<log, main, item, queue, writer, completedFlushSeq>>
    BY <1>4 DEF FlushReturn, channel, store
  <2>2. CASE g = f
    BY <1>4, <2>2 DEF FlushReturn, Types, FlushTypes, Served
  <2>3. CASE g # f
    <3>1. pc'[f] = pc[f] /\ seq'[f] = seq[f] /\ mark'[f] = mark[f]
      BY <1>4, <2>3 DEF FlushReturn, Types, FlushTypes
    <3> QED
      BY <1>0, <2>1, <3>1, ServedKept DEF InWork
  <2> QED
    BY <2>2, <2>3
<1>5. ASSUME UNCHANGED <<log, main, item, queue, completedFlushSeq, flush>>,
             writer' = writer \/ (writer = "exited" /\ writer' = "null")
      PROVE  Served(f)'
  BY <1>0, <1>5, ServedKept DEF InWork, flush
<1> QED
  BY <1>1, <1>2, <1>3, <1>4, <1>5
  DEF Next, Peer, Connect, Handshake, Send, Break, Receiver, RecvLoop, Recv, RecvFails, Acceptor,
      AcceptLoop, PollTimeout, Greeted, Accept, Flusher, FlushCompleted, FlushTimeout, EndCall, End,
      EndListener, EndAccept, EndConnections, EndReceivers, EndSignal, EndWriter, vars, channel, store

-----------------------------------------------------------------------------
LEMMA InitIInv == Init => IInv
<1> SUFFICES ASSUME Init PROVE IInv
  OBVIOUS
<1>1. WireInv
  BY DEF Init, WireInv, ConnInv, Seen
<1>2. OrderInv
  <2>1. log = <<>> /\ queue = <<>> /\ item = NoItem
    BY DEF Init
  <2> QED
    BY <2>1, NoItemFacts, RemoteDataSourceAssumption DEF OrderInv, Under
<1>3. StoreInv /\ EndInv
  BY DEF Init, StoreInv, Written, EndInv
<1>4. FlushInv
  BY DEF Init, FlushInv, Served
<1> QED
  BY <1>1, <1>2, <1>3, <1>4, InitTypes DEF IInv

LEMMA IInvStep == ASSUME IInv, [Next]_vars PROVE IInv'
<1> USE DEF IInv
<1>1. Types'
  BY TypesStep
<1>2. WireInv' /\ Grows
  BY <1>1, LimitsGrow
<1>3. OrderInv'
  BY <1>2, OrderStep
<1>4. StoreInv' /\ main \subseteq main' /\ Written \subseteq Written'
  BY StoreStep
<1>5. FlushInv'
  BY <1>4, FlushStep
<1>6. EndInv'
  BY EndStep
<1> QED
  BY <1>1, <1>2, <1>3, <1>4, <1>5, <1>6

\* The parts of the invariant hold in every state.
THEOREM Invariant == Spec => []IInv
<1>1. Init => IInv
  BY InitIInv
<1>2. IInv /\ [Next]_vars => IInv'
  BY IInvStep
<1> QED
  BY <1>1, <1>2, PTL DEF Spec

\* Every variable has its type.
THEOREM TypeCorrect == Spec => []TypeOK
<1>1. IInv => TypeOK
  BY DEF IInv, Types, NetTypes, ThreadTypes, WriterTypes, StoreTypes, FlushTypes, StoreInv, TypeOK
<1> QED
  BY <1>1, Invariant, PTL

\* A connection's batches are written once each, in the order in which they were sent,
\* whatever breaks and whenever end() comes.
THEOREM InOrder == Spec => []WrittenInOrder
<1>1. IInv => WrittenInOrder
  <2> SUFFICES ASSUME IInv, NEW i \in DOMAIN log, NEW j \in DOMAIN log, i < j, log[i][1] = log[j][1]
               PROVE  log[i][2] < log[j][2]
    BY DEF WrittenInOrder
  <2>1. i \in 1 .. Len(log) /\ j \in 1 .. Len(log) /\ log[i][1] \in Conns
    BY IdFacts DEF IInv, Types, StoreTypes
  <2> QED
    BY <2>1 DEF IInv, OrderInv, Before
<1> QED
  BY <1>1, Invariant, PTL

\* A flush() that was answered in time, and a flush of a peer, have in the main table
\* what was ahead of them.
THEOREM FlushesCover == Spec => []FlushCovers
<1>1. IInv => FlushCovers
  <2> SUFFICES ASSUME IInv PROVE FlushCovers
    OBVIOUS
  <2>1. ASSUME NEW f \in Flushers, pc[f] = "waiting", completedFlushSeq >= seq[f] PROVE mark[f] \subseteq main
    BY <2>1 DEF IInv, FlushInv, Served
  <2>2. ASSUME writer = "signal", NEW id \in Queued, id[1] = item.id[1], id[2] < item.id[2] PROVE id \in main
    <3>1. \/ id \in Written
          \/ \E k \in 1 .. Len(queue) : queue[k].kind = "batch" /\ queue[k].id = id
      BY <2>2 DEF Queued, Written, IInv, Types, WriterTypes, StoreTypes
    <3>2. ASSUME NEW k \in 1 .. Len(queue), queue[k].kind = "batch", queue[k].id = id PROVE FALSE
      <4>1. queue[k] \in Messages /\ item \in Messages
        BY PipeFacts DEF IInv
      <4>2. id \in Ids
        BY <3>2, <4>1, MessageFacts
      <4>3. item.id \in Ids
        BY <2>2, <4>1, <4>2, IdFacts
      <4>4. item.id[2] < id[2]
        BY <2>2, <3>2, <4>3, IdFacts DEF IInv, OrderInv, Before
      <4> QED
        BY <2>2, <4>2, <4>3, <4>4, IdFacts
    <3> QED
      BY <2>2, <3>1, <3>2 DEF IInv, StoreInv
  <2> QED
    BY <2>1, <2>2 DEF FlushCovers
<1> QED
  BY <1>1, Invariant, PTL

\* Nothing that a receive thread has read is lost when end() has returned.
THEOREM EndKeepsAll == Spec => []EndComplete
<1>1. IInv => EndComplete
  <2> SUFFICES ASSUME IInv, ending = "ended" PROVE EndComplete
    BY DEF EndComplete
  <2>1. writer = "null" /\ queue = <<>> /\ temp = {} /\ ReceiversJoined
    BY DEF IInv, EndInv
  <2>2. Queued \subseteq main
    BY <2>1 DEF Queued, IInv, StoreInv, Written, Types, StoreTypes
  <2>3. \A c \in Conns : receiver[c] \in {"none", "exited"} /\ hand[c] = NoItem
    BY <2>1 DEF ReceiversJoined, IInv, WireInv, ConnInv
  <2> QED
    BY <2>1, <2>2, <2>3 DEF EndComplete
<1> QED
  BY <1>1, Invariant, PTL
=============================================================================
