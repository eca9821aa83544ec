---------------------------- MODULE RemoteDataSource ----------------------------
(***************************************************************************)
(* The delegate of a run over several nodes                                *)
(* (rpd_tracer/RemoteDataSource.cpp): the accept thread, a receive thread  *)
(* for each connection, and for each table a channel, a queue of batches   *)
(* with one writer thread.  flush() queues a request and waits for it;     *)
(* end() stops the threads one kind after the other.  Channels share       *)
(* nothing but the code, so there is one.                                  *)
(*                                                                         *)
(* Each wait on a condition variable has its predicate and each notify     *)
(* follows a change under the mutex: the wait is the predicate as a guard. *)
(* A connection (TCP, external) delivers in order what it delivers; a peer *)
(* that reconnects is another member of Conns.  The temporary table is     *)
(* used by the writer thread alone.                                        *)
(***************************************************************************)
EXTENDS Integers, Sequences, FiniteSets

CONSTANTS
    Conns,          \* connections of NetWriterBackends for this table
    Flushers,       \* threads that call rpdflush()
    Nobody,         \* no connection
    MaxMessages,    \* bound: messages on a connection
    MaxFlushes      \* bound: calls of flush()

ASSUME RemoteDataSourceAssumption ==
    MaxMessages \in Nat /\ MaxFlushes \in Nat /\ Nobody \notin Conns

VARIABLES
    at, wire, sent,         \* each connection, its bytes on the way, messages sent
    acceptor, greeting,     \* the accept thread, the connection it reads the tag of
    receiver, hand,         \* the receive threads, the message each has read
    queue, done,            \* WriterChannel
    writer, item,           \* its worker, "null" once end() has cleared it
    nextFlushSeq, completedFlushSeq,
    temp, main, log,        \* rows in the tables; batches in the order written
    running, ending,        \* m_running, position in end()
    pc, seq, mark           \* flush(): its number, the rows queued before it

net     == <<at, wire, sent>>
accept  == <<acceptor, greeting>>
recv    == <<receiver, hand>>
channel == <<queue, done, nextFlushSeq, completedFlushSeq>>
store   == <<temp, main, log>>
stop    == <<running, ending>>
flush   == <<pc, seq, mark>>
vars    == <<net, accept, recv, channel, writer, item, store, stop, flush>>

\* A message on the wire and an item of the queue: a batch of rows or a flush
\* (rowCount 0).  `id` says which message of which connection it is.
Ids == Conns \X (1 .. MaxMessages)
Message(kind, id, flushSeq) == [kind |-> kind, id |-> id, flushSeq |-> flushSeq]
Local  == <<Nobody, 0>>
NoItem == Message("flush", Local, 0)

\* After init().
Init ==
    /\ at = [c \in Conns |-> "unused"] /\ wire = [c \in Conns |-> <<>>]
    /\ sent = [c \in Conns |-> 0]
    /\ acceptor = "loop" /\ greeting = Nobody
    /\ receiver = [c \in Conns |-> "none"] /\ hand = [c \in Conns |-> NoItem]
    /\ queue = <<>> /\ done = FALSE
    /\ writer = "wait" /\ item = NoItem
    /\ nextFlushSeq = 0 /\ completedFlushSeq = 0
    /\ temp = {} /\ main = {} /\ log = <<>>
    /\ running = TRUE /\ ending = "no"
    /\ pc = [f \in Flushers |-> "idle"] /\ seq = [f \in Flushers |-> 0]
    /\ mark = [f \in Flushers |-> {}]

-----------------------------------------------------------------------------
(* The peers: NetWriterBackend *)

\* A listening socket takes connections before they are accepted.
Connect(c) ==
    /\ at[c] = "unused" /\ ending \in {"no", "listener"}
    /\ at' = [at EXCEPT ![c] = "connected"]
    /\ UNCHANGED <<wire, sent, accept, recv, channel, writer, item, store, stop, flush>>

Handshake(c) ==
    /\ at[c] = "connected"
    /\ at' = [at EXCEPT ![c] = "open"]
    /\ UNCHANGED <<wire, sent, accept, recv, channel, writer, item, store, stop, flush>>

\* writeBatch() or flush()
Send(c) ==
    /\ at[c] = "open" /\ sent[c] < MaxMessages
    /\ sent' = [sent EXCEPT ![c] = @ + 1]
    /\ \E kind \in {"batch", "flush"} :
            wire' = [wire EXCEPT ![c] = Append(@, Message(kind, <<c, sent[c] + 1>>, 0))]
    /\ UNCHANGED <<at, accept, recv, channel, writer, item, store, stop, flush>>

\* The peer leaves or the network fails: what was not read arrives or is lost.
Break(c) ==
    /\ at[c] \in {"connected", "open"}
    /\ at' = [at EXCEPT ![c] = "closed"]
    /\ \E kept \in {wire[c], <<>>} : wire' = [wire EXCEPT ![c] = kept]
    /\ UNCHANGED <<sent, accept, recv, channel, writer, item, store, stop, flush>>

-----------------------------------------------------------------------------
(* acceptLoop() *)

AcceptLoop ==
    /\ acceptor = "loop"
    /\ acceptor' = IF running THEN "poll" ELSE "exited"
    /\ UNCHANGED <<net, greeting, recv, channel, writer, item, store, stop, flush>>

PollTimeout ==
    /\ acceptor = "poll"
    /\ acceptor' = "loop"
    /\ UNCHANGED <<net, greeting, recv, channel, writer, item, store, stop, flush>>

Accept(c) ==
    /\ acceptor = "poll" /\ ending \in {"no", "listener"}
    /\ at[c] # "unused" /\ receiver[c] = "none"
    /\ acceptor' = "greet" /\ greeting' = c
    /\ UNCHANGED <<net, recv, channel, writer, item, store, stop, flush>>

\* The tag is read, or the connection fails before and is given up.
Greeted ==
    /\ acceptor = "greet" /\ at[greeting] # "connected"
    /\ receiver' = [receiver EXCEPT ![greeting] =
                      IF at[greeting] = "open" \/ wire[greeting] # <<>>
                      THEN "loop" ELSE "exited"]
    /\ acceptor' = "loop" /\ greeting' = Nobody
    /\ UNCHANGED <<net, hand, channel, writer, item, store, stop, flush>>

-----------------------------------------------------------------------------
(* recvLoop().  The writer holds the channel's mutex while it drains. *)

MutexFree == writer # "drain"

PushFirst(message) == <<message>> \o queue
PushLast(message)  == Append(queue, message)

RecvLoop(c) ==
    /\ receiver[c] = "loop"
    /\ receiver' = [receiver EXCEPT ![c] = IF running THEN "recv" ELSE "exited"]
    /\ at' = [at EXCEPT ![c] = IF running THEN @ ELSE "closed"]
    /\ UNCHANGED <<wire, sent, accept, hand, channel, writer, item, store, stop, flush>>

Recv(c) ==
    /\ receiver[c] = "recv" /\ wire[c] # <<>>
    /\ hand' = [hand EXCEPT ![c] = Head(wire[c])]
    /\ wire' = [wire EXCEPT ![c] = Tail(@)]
    /\ receiver' = [receiver EXCEPT ![c] = "push"]
    /\ UNCHANGED <<at, sent, accept, channel, writer, item, store, stop, flush>>

RecvFails(c) ==
    /\ receiver[c] = "recv" /\ wire[c] = <<>> /\ at[c] = "closed"
    /\ receiver' = [receiver EXCEPT ![c] = "exited"]
    /\ UNCHANGED <<net, accept, hand, channel, writer, item, store, stop, flush>>

Push(c) ==
    /\ receiver[c] = "push" /\ MutexFree
    /\ queue' = PushLast(hand[c])
    /\ hand' = [hand EXCEPT ![c] = NoItem]
    /\ receiver' = [receiver EXCEPT ![c] = "loop"]
    /\ UNCHANGED <<net, accept, done, nextFlushSeq, completedFlushSeq, writer,
                   item, store, stop, flush>>

-----------------------------------------------------------------------------
(* writerLoop() *)

Dequeue ==
    /\ writer = "wait" /\ queue # <<>>
    /\ item' = Head(queue)
    /\ queue' = Tail(queue)
    /\ writer' = "work"
    /\ UNCHANGED <<net, accept, recv, done, nextFlushSeq, completedFlushSeq,
                   store, stop, flush>>

NothingFlushed == main
Flushed == main \cup temp

\* deserializeAndWrite()
Write(batch) ==
    /\ temp' = temp \cup {batch.id} /\ log' = Append(log, batch.id)
    /\ UNCHANGED main

\* The backend's flush()
FlushRows ==
    /\ main' = Flushed /\ temp' = {}
    /\ UNCHANGED log

Work ==
    /\ writer = "work"
    /\ \/ item.kind = "batch" /\ Write(item) /\ writer' = "wait" /\ item' = NoItem
       \/ item.kind = "flush" /\ FlushRows /\ writer' = "signal" /\ UNCHANGED item
    /\ UNCHANGED <<net, accept, recv, channel, stop, flush>>

\* signalFlushComplete()
Completed(m) == IF m.flushSeq > completedFlushSeq THEN m.flushSeq ELSE completedFlushSeq

Signal ==
    /\ writer = "signal"
    /\ completedFlushSeq' = Completed(item)
    /\ writer' = "wait" /\ item' = NoItem
    /\ UNCHANGED <<net, accept, recv, queue, done, nextFlushSeq, store, stop, flush>>

WriterDone ==
    /\ writer = "wait" /\ queue = <<>> /\ done
    /\ writer' = "drain"
    /\ UNCHANGED <<net, accept, recv, channel, item, store, stop, flush>>

\* The rest of the queue, message by message under the mutex, and a last flush.
DrainNext(first) ==
    /\ queue' = Tail(queue)
    /\ IF first.kind = "batch" THEN Write(first) /\ UNCHANGED completedFlushSeq
                               ELSE FlushRows /\ completedFlushSeq' = Completed(first)
    /\ UNCHANGED writer

Drain ==
    /\ writer = "drain"
    /\ IF queue # <<>> THEN DrainNext(Head(queue))
       ELSE FlushRows /\ writer' = "exited" /\ UNCHANGED <<queue, completedFlushSeq>>
    /\ UNCHANGED <<net, accept, recv, done, nextFlushSeq, item, stop, flush>>

-----------------------------------------------------------------------------
(* flush() *)

CanServe == MutexFree /\ ~done /\ writer # "null"

Queued == {queue[i].id : i \in {j \in DOMAIN queue : queue[j].kind = "batch"}}
          \cup (IF writer = "work" /\ item.kind = "batch" THEN {item.id} ELSE {})
          \cup {log[i] : i \in DOMAIN log}

\* If nobody can serve it, the call returns.
FlushCall(f) ==
    /\ pc[f] = "idle" /\ nextFlushSeq < MaxFlushes /\ CanServe
    /\ nextFlushSeq' = nextFlushSeq + 1
    /\ queue' = PushLast(Message("flush", Local, nextFlushSeq + 1))
    /\ seq' = [seq EXCEPT ![f] = nextFlushSeq + 1]
    /\ mark' = [mark EXCEPT ![f] = Queued]
    /\ pc' = [pc EXCEPT ![f] = "waiting"]
    /\ UNCHANGED <<net, accept, recv, done, completedFlushSeq, writer, item, store, stop>>

FlushReturn(f) ==
    /\ pc[f] = "waiting"
    /\ pc' = [pc EXCEPT ![f] = "idle"]
    /\ mark' = [mark EXCEPT ![f] = {}] /\ seq' = [seq EXCEPT ![f] = 0]
    /\ UNCHANGED <<net, accept, recv, channel, writer, item, store, stop>>

FlushCompleted(f) == completedFlushSeq >= seq[f] /\ FlushReturn(f)

\* FLUSH_WAIT_TIMEOUT_MS
FlushTimeout(f) == completedFlushSeq < seq[f] /\ FlushReturn(f)

-----------------------------------------------------------------------------
(* end() *)

EndCall ==
    /\ ending = "no"
    /\ running' = FALSE /\ ending' = "listener"
    /\ UNCHANGED <<net, accept, recv, channel, writer, item, store, flush>>

EndListener ==
    /\ ending = "listener"
    /\ ending' = "accept"
    /\ UNCHANGED <<net, accept, recv, channel, writer, item, store, running, flush>>

EndAccept ==
    /\ ending = "accept" /\ acceptor = "exited"
    /\ ending' = "connections"
    /\ UNCHANGED <<net, accept, recv, channel, writer, item, store, running, flush>>

\* "Close all recv connections to unblock recv threads"
LeftOpen(c) == FALSE
ClosedByEnd(c) == receiver[c] # "none"

EndConnections ==
    /\ ending = "connections"
    /\ at' = [c \in Conns |-> IF ClosedByEnd(c) THEN "closed" ELSE at[c]]
    /\ wire' = [c \in Conns |-> IF ClosedByEnd(c) THEN <<>> ELSE wire[c]]
    /\ ending' = "receivers"
    /\ UNCHANGED <<sent, accept, recv, channel, writer, item, store, running, flush>>

NotJoined == TRUE
ReceiversJoined == \A c \in Conns : receiver[c] \in {"none", "exited"}

EndReceivers ==
    /\ ending = "receivers" /\ ReceiversJoined
    /\ ending' = "signal"
    /\ UNCHANGED <<net, accept, recv, channel, writer, item, store, running, flush>>

EndSignal ==
    /\ ending = "signal" /\ MutexFree
    /\ done' = TRUE
    /\ ending' = "writer"
    /\ UNCHANGED <<net, accept, recv, queue, nextFlushSeq, completedFlushSeq,
                   writer, item, store, running, flush>>

EndWriter ==
    /\ ending = "writer" /\ writer = "exited"
    /\ writer' = "null"
    /\ ending' = "ended"
    /\ UNCHANGED <<net, accept, recv, channel, item, store, running, flush>>

-----------------------------------------------------------------------------
Peer(c)     == Connect(c) \/ Handshake(c) \/ Send(c) \/ Break(c)
Acceptor    == AcceptLoop \/ PollTimeout \/ Greeted \/ \E c \in Conns : Accept(c)
Receiver(c) == RecvLoop(c) \/ Recv(c) \/ RecvFails(c) \/ Push(c)
Writer      == Dequeue \/ Work \/ Signal \/ WriterDone \/ Drain
Flusher(f)  == FlushCall(f) \/ FlushCompleted(f) \/ FlushTimeout(f)
End         == EndListener \/ EndAccept \/ EndConnections \/ EndReceivers
               \/ EndSignal \/ EndWriter

Next ==
    \/ \E c \in Conns : Peer(c) \/ Receiver(c)
    \/ Acceptor \/ Writer
    \/ \E f \in Flushers : Flusher(f)
    \/ EndCall \/ End

Spec == Init /\ [][Next]_vars

\* Every thread runs; a peer that was accepted sends its tag or goes away.
\* Nobody counts on the timeout of flush().
Fairness ==
    /\ WF_vars(Acceptor) /\ WF_vars(Writer) /\ WF_vars(End)
    /\ \A c \in Conns : WF_vars(Handshake(c)) /\ WF_vars(Receiver(c))
    /\ \A f \in Flushers : WF_vars(FlushCompleted(f))

FairSpec == Spec /\ Fairness

-----------------------------------------------------------------------------
(* Properties *)

\* The type of every variable.
TypeOK ==
    /\ at \in [Conns -> {"unused", "connected", "open", "closed"}]
    /\ sent \in [Conns -> 0 .. MaxMessages]
    /\ acceptor \in {"loop", "poll", "greet", "exited"}
    /\ greeting \in Conns \cup {Nobody} /\ (greeting = Nobody <=> acceptor # "greet")
    /\ receiver \in [Conns -> {"none", "loop", "recv", "push", "exited"}]
    /\ writer \in {"wait", "work", "signal", "drain", "exited", "null"}
    /\ nextFlushSeq \in 0 .. MaxFlushes /\ completedFlushSeq \in 0 .. nextFlushSeq
    /\ temp \subseteq Ids /\ main \subseteq Ids /\ temp \cap main = {}
    /\ done \in BOOLEAN /\ running \in BOOLEAN
    /\ pc \in [Flushers -> {"idle", "waiting"}]
    /\ \A f \in Flushers : mark[f] \subseteq Ids

\* A flush() that returns in time has in the main table what was queued before
\* it; so has a remote node's flush() what the node sent on that connection.
FlushCovers ==
    /\ \A f \in Flushers :
            pc[f] = "waiting" /\ completedFlushSeq >= seq[f] => mark[f] \subseteq main
    /\ writer = "signal"
         => \A id \in Queued : id[1] = item.id[1] /\ id[2] < item.id[2] => id \in main

\* A connection's batches are written once each, in the order they were sent.
WrittenInOrder ==
    \A i, j \in DOMAIN log : i < j /\ log[i][1] = log[j][1] => log[i][2] < log[j][2]

\* "end() drains the queue and performs a final flush before joining, so there
\* is nothing left to flush on a stopped channel" (RemoteDataSource.cpp:333):
\* whatever a receive thread has read is in the main table after end().
EndComplete ==
    ending = "ended"
      => /\ queue = <<>> /\ temp = {} /\ Queued \subseteq main
         /\ \A c \in Conns : receiver[c] \in {"none", "exited"} /\ hand[c] = NoItem

\* "observing !done here guarantees the worker is still running and will
\* dequeue (or drain) this item" (RemoteDataSource.cpp:348): flush() returns
\* without its timeout, also when end() comes in between.
FlushServed == \A f \in Flushers : pc[f] = "waiting" ~> pc[f] = "idle"

\* end() gets past all its joins, whatever peers and flushes are doing.
EndReturns == ending = "listener" ~> ending = "ended"

\* Both calls of the delegate return.
CallsReturn == FlushServed /\ EndReturns
=============================================================================
