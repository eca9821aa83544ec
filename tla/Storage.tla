-------------------------------- MODULE Storage --------------------------------
(***************************************************************************)
(* A storage with its string tables (rpd_tracer/Storage.cpp,               *)
(* StringTable.cpp, UStringTable.cpp), the caches a thread keeps in front  *)
(* of them (LocalStringCache.h, UStringCache.h) and the records the tracer *)
(* writes about itself (Logger::createOverheadRecord).                     *)
(*                                                                         *)
(* A callback turns its strings into ids and inserts a row that holds the  *)
(* ids; rpdflush() and finalize() go through the tables one by one; a swap *)
(* of the storage leaves the threads' caches behind.  A table is what      *)
(* TableLog promises of it: rows are accepted, stored in order, and a      *)
(* flush shows what is stored.  `op' stands for every table whose worker   *)
(* writes an overhead record; only the ring of strings can be full here,   *)
(* since its inserters hold the lock of the cache meanwhile.               *)
(*                                                                         *)
(* An id is the index of the row (the offset of the session is the same    *)
(* for all rows of a storage); a row also keeps the strings it meant.      *)
(***************************************************************************)
EXTENDS Naturals, Sequences

CONSTANTS
    Users,          \* threads that run callbacks
    Nobody,
    Names, Args,    \* strings of callbacks
    Empty, OverheadName,
    CAPACITY,       \* entries of a LocalStringCache
    BUFFERSIZE,     \* ring of the string table
    MaxCalls,       \* bound: callbacks
    MaxRows,        \* bound: no overhead record once rocpd_api has that many rows
    MaxStorages     \* bound: storages

Texts   == Names \cup Args \cup {Empty, OverheadName}
Tables  == {"string", "ustring", "op", "api"}
Callers == Users \cup Tables \cup {"rpdflush"}      \* a worker has the name of its table

ASSUME StorageAssumption ==
    /\ Nobody \notin Callers /\ Users \cap (Tables \cup {"rpdflush"}) = {}
    /\ CAPACITY \in Nat \ {0} /\ BUFFERSIZE \in Nat \ {0}
    /\ MaxCalls \in Nat /\ MaxRows \in Nat /\ MaxStorages \in Nat \ {0}

VARIABLES
    storage,        \* generation of m_storage
    rows,           \* rows accepted by each table
    stored,         \* how many of them its worker has written
    visible,        \* how many of them are in the main table
    finalized,      \* tables whose worker has ended
    cache,          \* StringTablePrivate::cache
    cacheOwner,     \* who holds cacheMutex exclusively
    local,          \* LocalStringCache of each user: entries and writeIdx
    ulocal,         \* one slot of the UStringCache of each user; strings collide
    pc, job,        \* callbacks and overhead records under way
    overhead,       \* m_writeOverheadRecords
    flushing,       \* position of rpdflush() in FlushOrder, 0: not under way
    mark,           \* rows of each table when rpdflush() was called
    ctl, position,  \* resetStorage() or finalize(), position in FinalizeOrder
    calls

tables == <<rows, stored, visible, finalized>>
shared == <<cache, cacheOwner>>
caches == <<local, ulocal>>
others == <<storage, overhead, flushing, mark, ctl, position, calls>>
vars   == <<tables, shared, caches, pc, job, others>>

\* An op has no arguments: the empty ones.
NoJob == [table |-> "api", name |-> Empty, arg |-> Empty, gen |-> 0,
          nameId |-> 1, argId |-> 1]

\* Both string tables start with the empty string, id 1.
FreshRows  == [t \in Tables |-> IF t \in {"string", "ustring"} THEN <<Empty>> ELSE <<>>]
FreshCache == [text \in {Empty} |-> 1]
Zeros      == [t \in Tables |-> 0]

Init ==
    /\ storage = 1
    /\ rows = FreshRows /\ stored = Zeros /\ visible = Zeros /\ finalized = {}
    /\ cache = FreshCache /\ cacheOwner = Nobody
    /\ local = [u \in Users |-> [entries |-> <<>>, writeIdx |-> 1]]
    /\ ulocal = [u \in Users |-> [gen |-> 0, text |-> Empty, id |-> 0]]
    /\ pc = [c \in Callers |-> "idle"] /\ job = [c \in Callers |-> NoJob]
    /\ overhead = TRUE /\ flushing = 0 /\ mark = Zeros
    /\ ctl = "idle" /\ position = 0 /\ calls = 0

Accept(t, row) == rows' = [rows EXCEPT ![t] = Append(@, row)]
Goto(c, place) == pc' = [pc EXCEPT ![c] = place]

-----------------------------------------------------------------------------
(* Callbacks: nobody is inside one while the storage is swapped *)

Call(u) ==
    /\ pc[u] = "idle" /\ ctl = "idle" /\ calls < MaxCalls
    /\ calls' = calls + 1
    /\ \E table \in {"op", "api"}, name \in Names, arg \in Args :
         /\ job' = [job EXCEPT ![u] = [NoJob EXCEPT !.table = table, !.name = name,
                           !.arg = IF table = "op" THEN Empty ELSE arg, !.gen = storage]]
    /\ Goto(u, "lookup")
    /\ UNCHANGED <<tables, shared, caches, storage, overhead, flushing, mark,
                   ctl, position>>

\* LocalStringCache::lookup: an entry of an earlier storage is asked for again.
Entry(u)        == {i \in DOMAIN local[u].entries : local[u].entries[i].text = job[u].name}
AnyGeneration(u, i)  == TRUE
SameGeneration(u, i) == local[u].entries[i].gen = job[u].gen

\* The cache after the lookup: the entry renewed, a new one, or the oldest replaced.
Remember(u, id) ==
    LET entry == [text |-> job[u].name, id |-> id, gen |-> job[u].gen]
        old   == local[u].entries
        next  == local[u].writeIdx
    IN  local' = [local EXCEPT ![u] =
          IF Entry(u) # {} THEN [@ EXCEPT !.entries = [i \in DOMAIN old |->
                                    IF i \in Entry(u) THEN entry ELSE old[i]]]
          ELSE IF Len(old) < CAPACITY THEN [@ EXCEPT !.entries = Append(old, entry)]
          ELSE [entries |-> [old EXCEPT ![next] = entry], writeIdx |-> (next % CAPACITY) + 1]]

\* The caller has the id of its name; an op row has no arguments.
Named(c, id) ==
    /\ job' = [job EXCEPT ![c].nameId = id]
    /\ Goto(c, IF job[c].table = "op" THEN "row" ELSE "arg")

Lookup(u) ==
    /\ pc[u] = "lookup"
    /\ \/ \E i \in Entry(u) : SameGeneration(u, i) /\ Named(u, local[u].entries[i].id)
       \/ /\ \A i \in Entry(u) : ~SameGeneration(u, i)
          /\ Goto(u, "find") /\ UNCHANGED job
    /\ UNCHANGED <<tables, shared, caches, others>>

Obtained(c, id) ==
    /\ Named(c, id)
    /\ IF c \in Users THEN Remember(c, id) ELSE UNCHANGED local
    /\ UNCHANGED <<ulocal, stored, visible, finalized, others>>

-----------------------------------------------------------------------------
(* StringTable::getOrCreate *)

Known(c) == job[c].name \in DOMAIN cache

\* Under the shared lock.
Find(c) ==
    /\ pc[c] = "find" /\ cacheOwner = Nobody
    /\ \/ Known(c) /\ Obtained(c, cache[job[c].name]) /\ UNCHANGED <<rows, shared>>
       \/ ~Known(c) /\ Goto(c, "create") /\ UNCHANGED <<tables, shared, caches, job, others>>

\* Under the exclusive lock the string is looked for again.
NotLookedFor(c) == FALSE
KnownByNow(c)   == Known(c)

Create(c) ==
    /\ pc[c] = "create" /\ cacheOwner = Nobody
    /\ \/ KnownByNow(c) /\ Obtained(c, cache[job[c].name]) /\ UNCHANGED <<rows, shared>>
       \/ /\ ~KnownByNow(c)
          /\ cacheOwner' = c /\ Goto(c, "insert")
          /\ UNCHANGED <<tables, cache, caches, job, others>>

\* The ring has room again; the lock is held until the cache has the id, too.
InsertString(c) ==
    /\ pc[c] = "insert"
    /\ Len(rows["string"]) - stored["string"] < BUFFERSIZE
    /\ LET id == Len(rows["string"]) + 1
       IN  /\ Accept("string", job[c].name)
           /\ cache' = [text \in DOMAIN cache \cup {job[c].name} |->
                          IF text = job[c].name THEN id ELSE cache[text]]
           /\ cacheOwner' = Nobody
           /\ Obtained(c, id)

-----------------------------------------------------------------------------
(* UStringTable::create behind a UStringCache, and the row itself *)

ValidSlot(u) == ulocal[u].gen = job[u].gen

HasArg(c, id) == job' = [job EXCEPT ![c].argId = id] /\ Goto(c, "row")

Arg(c) ==
    /\ pc[c] = "arg"
    /\ \/ /\ job[c].arg = Empty
          /\ HasArg(c, 1) /\ UNCHANGED <<rows, ulocal>>
       \/ /\ c \in Users /\ job[c].arg # Empty
          /\ ValidSlot(c) /\ ulocal[c].text = job[c].arg
          /\ HasArg(c, ulocal[c].id) /\ UNCHANGED <<rows, ulocal>>
       \/ /\ job[c].arg # Empty
          /\ c \in Users => ~(ValidSlot(c) /\ ulocal[c].text = job[c].arg)
          /\ LET id == Len(rows["ustring"]) + 1
             IN  /\ Accept("ustring", job[c].arg)
                 /\ HasArg(c, id)
                 /\ ulocal' = IF c \in Users
                              THEN [ulocal EXCEPT ![c] = [gen |-> job[c].gen,
                                                  text |-> job[c].arg, id |-> id]]
                              ELSE ulocal
    /\ UNCHANGED <<stored, visible, finalized, shared, local, others>>

InsertRow(c) ==
    /\ pc[c] = "row"
    /\ Accept(job[c].table, [name |-> job[c].name, nameId |-> job[c].nameId,
                             arg |-> job[c].arg, argId |-> job[c].argId])
    /\ job' = [job EXCEPT ![c] = NoJob]
    /\ Goto(c, "idle")
    /\ UNCHANGED <<stored, visible, finalized, shared, caches, others>>

\* createOverheadRecord(): it does not come from a cache of the thread.
Record(c, arg) ==
    IF overhead /\ Len(rows["api"]) < MaxRows
    THEN /\ job' = [job EXCEPT ![c] = [NoJob EXCEPT !.name = OverheadName, !.arg = arg]]
         /\ Goto(c, "find")
    ELSE UNCHANGED <<job, pc>>

-----------------------------------------------------------------------------
(* The workers of the tables *)

\* The string tables write no record about their batches.
RecordsAll(t)     == TRUE
RecordsBatches(t) == t \in {"op", "api"}

WriteRows(t) ==
    /\ t \notin finalized /\ pc[t] = "idle"
    /\ stored[t] < Len(rows[t])
    /\ stored' = [stored EXCEPT ![t] = Len(rows[t])]
    /\ IF RecordsBatches(t) THEN Record(t, OverheadName) ELSE UNCHANGED <<job, pc>>
    /\ UNCHANGED <<rows, visible, finalized, shared, caches, others>>

-----------------------------------------------------------------------------
(* rpdflush(): Storage::flush *)

ArgsNotFlushed == <<"string", "op", "api">>
FlushOrder     == <<"string", "ustring", "op", "api">>

FlushBegin ==
    /\ flushing = 0 /\ pc["rpdflush"] = "idle" /\ ctl = "idle"
    /\ flushing' = 1
    /\ mark' = [t \in Tables |-> Len(rows[t])]
    /\ UNCHANGED <<tables, shared, caches, pc, job, storage, overhead, ctl,
                   position, calls>>

\* BufferedTable::flush waits for the worker and shows what it has written.
FlushTable ==
    /\ flushing > 0
    /\ LET t == FlushOrder[flushing]
       IN  /\ stored[t] >= mark[t]
           /\ visible' = [visible EXCEPT ![t] = stored[t]]
    /\ IF flushing = Len(FlushOrder)
       THEN flushing' = 0 /\ mark' = Zeros /\ Record("rpdflush", Empty)
       ELSE flushing' = flushing + 1 /\ UNCHANGED <<mark, pc, job>>
    /\ UNCHANGED <<rows, stored, finalized, shared, caches, storage, overhead,
                   ctl, position, calls>>

-----------------------------------------------------------------------------
(* resetStorage() and Logger::finalize(): Storage::finalize *)

StringsFirst  == <<"ustring", "string", "op", "api">>
FinalizeOrder == <<"op", "api", "ustring", "string">>

Quiet == flushing = 0 /\ \A c \in Users \cup {"rpdflush"} : pc[c] = "idle"

\* Recording has been stopped, the autoflush thread has ended.
ResetCall ==
    /\ ctl = "idle" /\ Quiet /\ storage < MaxStorages
    /\ ctl' = "reset" /\ position' = 1
    /\ UNCHANGED <<tables, shared, caches, pc, job, storage, overhead, flushing,
                   mark, calls>>

FinalizeCall ==
    /\ ctl = "idle" /\ Quiet
    /\ ctl' = "exit" /\ position' = 1
    /\ overhead' = FALSE
    /\ UNCHANGED <<tables, shared, caches, pc, job, storage, flushing, mark, calls>>

\* The worker has drained its table and ended, its last record included.
FinalizeTable ==
    /\ position \in 1 .. Len(FinalizeOrder)
    /\ LET t == FinalizeOrder[position]
       IN  /\ stored[t] = Len(rows[t]) /\ pc[t] = "idle"
           /\ visible' = [visible EXCEPT ![t] = stored[t]]
           /\ finalized' = finalized \cup {t}
    /\ position' = position + 1
    /\ UNCHANGED <<rows, stored, shared, caches, pc, job, storage, overhead,
                   flushing, mark, ctl, calls>>

\* delete m_storage, new Storage; the threads keep their caches.
NewStorage ==
    /\ ctl = "reset" /\ finalized = Tables
    /\ storage' = storage + 1
    /\ rows' = FreshRows /\ stored' = Zeros /\ visible' = Zeros /\ finalized' = {}
    /\ cache' = FreshCache /\ mark' = Zeros
    /\ ctl' = "idle" /\ position' = 0
    /\ UNCHANGED <<cacheOwner, caches, pc, job, overhead, flushing, calls>>

-----------------------------------------------------------------------------
Step(c) == Find(c) \/ Create(c) \/ InsertString(c) \/ Arg(c) \/ InsertRow(c)

Next ==
    \/ \E u \in Users : Call(u) \/ Lookup(u)
    \/ \E c \in Callers : Step(c)
    \/ \E t \in Tables : WriteRows(t)
    \/ FlushBegin \/ FlushTable
    \/ ResetCall \/ FinalizeCall \/ FinalizeTable \/ NewStorage

Spec == Init /\ [][Next]_vars

\* The holder of cacheMutex and the workers go on when they can.
Fairness == WF_vars(\E c \in Callers : InsertString(c)) /\ WF_vars(\E t \in Tables : WriteRows(t))

FairSpec == Spec /\ Fairness

-----------------------------------------------------------------------------
(* Properties *)

\* The type of every variable.
TypeOK ==
    /\ storage \in 1 .. MaxStorages
    /\ \A t \in {"string", "ustring"} : rows[t] \in Seq(Texts)
    /\ \A t \in Tables : visible[t] <= stored[t] /\ stored[t] <= Len(rows[t])
    /\ finalized \subseteq Tables
    /\ DOMAIN cache \subseteq Texts /\ cacheOwner \in Callers \cup {Nobody}
    /\ \A u \in Users : Len(local[u].entries) <= CAPACITY
    /\ pc \in [Callers -> {"idle", "lookup", "find", "create", "insert", "arg", "row"}]
    /\ overhead \in BOOLEAN /\ flushing \in 0 .. Len(FlushOrder)
    /\ ctl \in {"idle", "reset", "exit"} /\ position \in 0 .. Len(FinalizeOrder) + 1
    /\ calls \in 0 .. MaxCalls

\* "All cached state (string IDs, etc.) is reset" (docs/README_embedded.md:176):
\* whichever caches an id came from, and after whatever swaps, the row it is
\* in gets the string that was meant, from the storage the row is in.
Means(t, id, text) == id \in DOMAIN rows[t] /\ rows[t][id] = text
RightStrings ==
    \A t \in {"op", "api"} : \A i \in DOMAIN rows[t] :
        LET r == rows[t][i]
        IN  Means("string", r.nameId, r.name) /\ Means("ustring", r.argId, r.arg)

\* StringTable keeps one row for a string (FEATURES.md:53), whichever threads
\* ask for it at once.
OneRowPerString ==
    \A i, j \in DOMAIN rows["string"] : rows["string"][i] = rows["string"][j] => i = j

\* "Call rpdflush() before querying to ensure all buffered data is visible"
\* (docs/README_embedded.md:92): when it returns, each row inserted before the
\* call is visible and so are its strings, without which the view `api' and
\* its like do not show it.
Resolved(t, i) ==
    /\ i <= visible'[t]
    /\ rows[t][i].nameId <= visible'["string"]
    /\ rows[t][i].argId <= visible'["ustring"]

FlushResolves ==
    [][ flushing > 0 /\ flushing' = 0 =>
            \A t \in {"op", "api"} : \A i \in 1 .. mark[t] : Resolved(t, i) ]_vars

\* Nothing reaches a table whose worker has ended: the records that workers
\* write while they drain find their tables still there.
FinalizeKeepsAll == \A t \in finalized : visible[t] = Len(rows[t])

\* An insert into a full ring sleeps with the lock of the cache held, which
\* stops every lookup; it gets its room and releases the lock (StringTable.cpp:150).
LockReleased == cacheOwner # Nobody ~> cacheOwner = Nobody
=============================================================================
