---------------------------- MODULE NetWriterBackend ----------------------------
(***************************************************************************)
(* The sending side of a table in a distributed run                        *)
(* (rpd_tracer/NetWriterBackend.cpp).  The worker of the table sends its   *)
(* batches with writeBatch(), a thread that flushes the table sends a      *)
(* signal with flush(); both send a message part by part on the table's    *)
(* one connection, connect anew when it was lost, and lock nothing.        *)
(* BufferedTable calls the first under m_writeMutex and the second under   *)
(* m_mutex, so that they may overlap.  TCP (TcpConnection.cpp) keeps the   *)
(* order of what is sent, and may break between two sends; RemoteDataSource*)
(* has the receiving side.                                                 *)
(***************************************************************************)
EXTENDS Integers, Sequences

CONSTANTS
    Overlap,        \* environment: a flush may come while a batch is sent
    MaxMessages,    \* bound: calls of writeBatch() and flush()
    MaxConnections  \* bound: connections made

VARIABLES
    m_connected,
    m_fd,           \* the connection in use, 0: closed
    broken,         \* connections the network has broken
    streams,        \* what was sent on each connection so far
    sending,        \* each sender: the message, and its parts sent; or none
    messages        \* messages so far

netVars == <<m_connected, m_fd, broken, streams, sending, messages>>

Senders == {"worker", "flusher"}

\* size, idOffset, nodeId, rowCount, and the rows of a batch
PartsOf(sender) == IF sender = "worker" THEN 5 ELSE 4
NoMessage == [id |-> 0, sent |-> 0]
Idle(s)   == sending[s] = NoMessage

Init ==
    /\ m_connected = FALSE /\ m_fd = 0 /\ broken = {}
    /\ streams = <<>>
    /\ sending = [s \in Senders |-> NoMessage] /\ messages = 0

\* The tag and directWrite: the first that goes out on a connection.
Handshake == [from |-> "handshake", id |-> 0, part |-> 1, of |-> 1]
NoGreeting == <<>>          \* a connection made anew is not greeted
Greeting   == <<Handshake>>

Begin(s) ==
    /\ Idle(s) /\ messages < MaxMessages
    /\ Overlap \/ \A other \in Senders : Idle(other)
    /\ messages' = messages + 1
    /\ sending' = [sending EXCEPT ![s] = [id |-> messages + 1, sent |-> 0]]

\* ensureConnected(), which gives up after some attempts: the batch is lost.
writeBatch ==
    \/ /\ m_connected /\ Begin("worker")
       /\ UNCHANGED <<m_connected, m_fd, broken, streams>>
    \/ /\ ~m_connected /\ Begin("worker") /\ Len(streams) < MaxConnections
       /\ streams' = Append(streams, Greeting)
       /\ m_fd' = Len(streams) + 1 /\ m_connected' = TRUE
       /\ UNCHANGED broken

NotConnected ==
    /\ ~m_connected /\ Idle("worker") /\ messages < MaxMessages
    /\ messages' = messages + 1
    /\ UNCHANGED <<m_connected, m_fd, broken, streams, sending>>

flush == m_connected /\ Begin("flusher") /\ UNCHANGED <<m_connected, m_fd, broken, streams>>

-----------------------------------------------------------------------------
(* TcpConnection::send() of the next part *)

Sendable == m_fd # 0 /\ m_fd \notin broken
PartOf(s) == [from |-> s, id |-> sending[s].id, part |-> sending[s].sent + 1, of |-> PartsOf(s)]
Advanced(s) == IF sending[s].sent + 1 = PartsOf(s) THEN NoMessage
               ELSE [sending[s] EXCEPT !.sent = @ + 1]

SendPart(s) ==
    /\ ~Idle(s) /\ Sendable
    /\ streams' = [streams EXCEPT ![m_fd] = Append(@, PartOf(s))]
    /\ sending' = [sending EXCEPT ![s] = Advanced(s)]
    /\ UNCHANGED <<m_connected, m_fd, broken, messages>>

\* dropConnection(): the message is lost, and the next one connects.
SendFails(s) ==
    /\ ~Idle(s) /\ ~Sendable
    /\ m_connected' = FALSE /\ m_fd' = 0
    /\ sending' = [sending EXCEPT ![s] = NoMessage]
    /\ UNCHANGED <<broken, streams, messages>>

Break ==
    /\ Sendable
    /\ broken' = broken \cup {m_fd}
    /\ UNCHANGED <<m_connected, m_fd, streams, sending, messages>>

-----------------------------------------------------------------------------
Next ==
    \/ writeBatch \/ NotConnected \/ flush \/ Break
    \/ \E s \in Senders : SendPart(s) \/ SendFails(s)

Spec == Init /\ [][Next]_netVars

-----------------------------------------------------------------------------
(* Properties *)

\* "the client sends a handshake ... Then the client streams batch messages"
\* (NetWriterBackend.h:21-26): every connection carries a handshake and then one
\* whole message after the other, but for the one it breaks in, so that the
\* receiver can tell the messages by their sizes.
FramesIntact ==
    \A c \in DOMAIN streams : \A i \in DOMAIN streams[c] :
        LET this == streams[c][i] IN
        IF i = 1 THEN this = Handshake
        ELSE LET last == streams[c][i - 1] IN
             IF last.part = last.of THEN this.part = 1 /\ this # Handshake
             ELSE this = [last EXCEPT !.part = @ + 1]
=============================================================================
