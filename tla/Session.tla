-------------------------------- MODULE Session --------------------------------
(***************************************************************************)
(* How a process joins a trace file: ensureSchema() (rpd_tracer/Schema.cpp)*)
(* creates the tables in a new file, MetadataTable's constructor takes the *)
(* next session number (MetadataTable.cpp), and the other tables open the  *)
(* file and put session * 2^32 on every id they write (Storage.cpp).       *)
(*                                                                         *)
(* sqlite (external): BEGIN EXCLUSIVE keeps out other writers, and also    *)
(* readers until the file is switched to WAL.  Connections of tables wait  *)
(* for each other (busy handler); ensureSchema() does not and gives up.    *)
(***************************************************************************)
EXTENDS Integers, FiniteSets

CONSTANTS
    Procs, Nobody,
    Connection(_),  \* a process's other connection to the file (DbResource)
    CrashCreating,  \* environment: a process may die while it creates the schema
    MaxCrashes,     \* bound: crashes
    MaxSessions     \* bound: session numbers given out

VARIABLES
    schema, wal,        \* the file: tables exist, journal_mode=WAL
    sessionCount,       \* the row session_count, -1: there is none
    writer,             \* who is inside a transaction
    pc,
    metaReady,          \* processes whose metaInsert was prepared
    tablesReady,        \* processes whose tables were opened with a schema
    sessionId,          \* the session of each process, -1: none yet
    owners,             \* how many processes wrote rows under a session
    crashes

file    == <<schema, wal, sessionCount, writer>>
process == <<pc, metaReady, tablesReady, sessionId>>
vars    == <<file, process, owners, crashes>>

Init ==
    /\ schema = FALSE /\ wal = FALSE /\ sessionCount = -1 /\ writer = Nobody
    /\ pc = [p \in Procs |-> "start"]
    /\ metaReady = {} /\ tablesReady = {}
    /\ sessionId = [p \in Procs |-> -1]
    /\ owners = [s \in 0 .. MaxSessions + Cardinality(Procs) |-> 0]
    /\ crashes = 0

Goto(p, place) == pc' = [pc EXCEPT ![p] = place]
CanRead == wal \/ writer = Nobody

-----------------------------------------------------------------------------
(* ensureSchema() *)

EnsureBegin(p) ==
    /\ pc[p] = "start" /\ sessionCount < MaxSessions
    /\ IF writer = Nobody THEN writer' = p /\ Goto(p, "create")
                          ELSE UNCHANGED writer /\ Goto(p, "open")
    /\ UNCHANGED <<schema, wal, sessionCount, metaReady, tablesReady, sessionId,
                   owners, crashes>>

EnsureEnd(p) ==
    /\ pc[p] = "create"
    /\ schema' = TRUE /\ writer' = Nobody
    /\ Goto(p, "open")
    /\ UNCHANGED <<wal, sessionCount, metaReady, tablesReady, sessionId,
                   owners, crashes>>

-----------------------------------------------------------------------------
(* MetadataTable *)

\* Table's constructor: the busy handler waits, then the file is in WAL mode.
NotWaiting == TRUE
OpenWaits  == CanRead

OpenFile(p) ==
    /\ pc[p] = "open" /\ OpenWaits
    /\ wal' = (wal \/ writer = Nobody)
    /\ Goto(p, "prepare")
    /\ UNCHANGED <<schema, sessionCount, writer, metaReady, tablesReady,
                   sessionId, owners, crashes>>

PrepareInsert(p) ==
    /\ pc[p] = "prepare"
    /\ metaReady' = IF schema THEN metaReady \cup {p} ELSE metaReady
    /\ Goto(p, "session")
    /\ UNCHANGED <<file, tablesReady, sessionId, owners, crashes>>

\* createSession(): waits for BEGIN EXCLUSIVE.
Exclusive(p) == writer = Nobody /\ writer' = p

SessionBegin(p) ==
    /\ pc[p] = "session" /\ Exclusive(p)
    /\ Goto(p, "count")
    /\ UNCHANGED <<schema, wal, sessionCount, metaReady, tablesReady, sessionId,
                   owners, crashes>>

NextSession == IF sessionCount = -1 THEN 0 ELSE sessionCount
CountUp     == NextSession + 1

Release    == writer' = Nobody

\* The number read is the process's session.
SessionSelect(p) ==
    /\ pc[p] = "count"
    /\ sessionId' = [sessionId EXCEPT ![p] = NextSession]
    /\ Goto(p, "update")
    /\ UNCHANGED <<file, metaReady, tablesReady, owners, crashes>>

SessionUpdate(p) ==
    /\ pc[p] = "update"
    /\ sessionCount' = IF schema THEN CountUp ELSE sessionCount
    /\ Release
    /\ Goto(p, "tables")
    /\ UNCHANGED <<schema, wal, metaReady, tablesReady, sessionId,
                   owners, crashes>>

-----------------------------------------------------------------------------
(* Storage: the other tables, and the row with the session in rocpd_metadata *)

OpenTables(p) ==
    /\ pc[p] = "tables"
    /\ tablesReady' = IF schema THEN tablesReady \cup {p} ELSE tablesReady
    /\ Goto(p, "announce")
    /\ UNCHANGED <<file, metaReady, sessionId, owners, crashes>>

Announce(p) ==
    /\ pc[p] = "announce" /\ writer = Nobody
    /\ owners' = IF p \in tablesReady
                 THEN [owners EXCEPT ![sessionId[p]] = @ + 1] ELSE owners
    /\ Goto(p, "running")
    /\ UNCHANGED <<file, metaReady, tablesReady, sessionId, crashes>>

\* A batch of rows.
WriteBegin(p) ==
    /\ pc[p] = "running" /\ p \in tablesReady /\ writer = Nobody
    /\ writer' = p
    /\ Goto(p, "writing")
    /\ UNCHANGED <<schema, wal, sessionCount, metaReady, tablesReady, sessionId,
                   owners, crashes>>

WriteEnd(p) ==
    /\ pc[p] = "writing"
    /\ writer' = Nobody
    /\ Goto(p, "running")
    /\ UNCHANGED <<schema, wal, sessionCount, metaReady, tablesReady, sessionId,
                   owners, crashes>>

\* The process ends, and another with the same file takes its place.
Leave(p) ==
    /\ metaReady' = metaReady \ {p} /\ tablesReady' = tablesReady \ {p}
    /\ sessionId' = [sessionId EXCEPT ![p] = -1]
    /\ Goto(p, "start")

Exit(p) ==
    /\ pc[p] = "running"
    /\ Leave(p)
    /\ UNCHANGED <<file, owners, crashes>>

\* sqlite rolls back what a dead process has not committed.
Crash(p) ==
    /\ pc[p] # "start" /\ crashes < MaxCrashes
    /\ pc[p] = "create" => CrashCreating
    /\ crashes' = crashes + 1
    /\ writer' = IF writer \in {p, Connection(p)} THEN Nobody ELSE writer
    /\ Leave(p)
    /\ UNCHANGED <<schema, wal, sessionCount, owners>>

-----------------------------------------------------------------------------
Join(p) == \/ EnsureBegin(p) \/ EnsureEnd(p) \/ OpenFile(p) \/ PrepareInsert(p)
           \/ SessionBegin(p) \/ SessionSelect(p) \/ SessionUpdate(p)
           \/ OpenTables(p) \/ Announce(p)

\* The type of every variable.
TypeOK ==
    /\ schema \in BOOLEAN /\ wal \in BOOLEAN
    /\ sessionCount \in -1 .. MaxSessions + Cardinality(Procs)
    /\ writer \in {p \in Procs : pc[p] \in {"create", "count", "update", "writing"}}
                  \cup {Connection(p) : p \in Procs} \cup {Nobody}
    /\ metaReady \subseteq Procs /\ tablesReady \subseteq Procs
    /\ sessionId \in [Procs -> -1 .. MaxSessions + Cardinality(Procs)]
    /\ crashes \in 0 .. MaxCrashes
=============================================================================
