----------------------------- MODULE ClrDataSource -----------------------------
(***************************************************************************)
(* The source on the profiler inside the HIP runtime                       *)
(* (rpd_tracer/ClrDataSource.cpp).  The runtime numbers its records and    *)
(* keeps them in slabs.  A full slab goes to chunkCallback(), on the       *)
(* thread that filled it, and is freed when that returns; flush() reads    *)
(* the slabs that are there.  Either may come to a record first:           *)
(* m_processedCount is the number of records that were consumed, and       *)
(* m_flushMutex makes the two take turns.                                  *)
(*                                                                         *)
(* The runtime is external.  Assumed of it: a record is complete when it   *)
(* is in its slab, and full slabs are delivered in order (a slab that      *)
(* arrived behind a later one would be taken for consumed).                *)
(***************************************************************************)
EXTENDS Integers, Sequences, FiniteSets, Functions, Selection

CONSTANTS
    Kinds,          \* of records: "launch", "copy", "barrier", "host copy", "omitted"
    SlabSize,       \* chunk_size
    MaxEvents,      \* bound: records
    MaxStarts       \* bound: startTracing() calls

VARIABLES
    context, starts,    \* "none", "stopped" or "started"; startTracing() calls
    records,            \* what the runtime recorded; record i is at position i + 1
    delivered,          \* slabs that chunkCallback() was given, the last is freed later
    freed,              \* slabs that are gone
    snapshot,           \* total_count while flush() holds m_flushMutex, else -1
    m_ranges, m_processedCount,
    idsFrom, storageNow,\* storage of the cached ids (0: not cached), m_storage
    tables              \* rows, each with what goes with it in the other tables

contextVars == <<context, starts>>
runtimeVars == <<records, delivered, freed>>
rowVars     == <<idsFrom, storageNow, tables>>

Unlocked == snapshot = -1
m_apiList_contains(kind) == kind # "omitted"

Init ==
    /\ context = "none" /\ starts = 0
    /\ records = <<>> /\ delivered = 0 /\ freed = 0
    /\ snapshot = -1 /\ m_ranges = <<>> /\ m_processedCount = 0
    /\ idsFrom = 0 /\ storageNow = 1 /\ tables = <<>>

-----------------------------------------------------------------------------
(* The runtime: a call that was in flight at a stop still records. *)

SlabsFull == Len(records) \div SlabSize
SlabOf(i) == i \div SlabSize

NewRecord(kind) ==
    /\ starts > 0 /\ Len(records) < MaxEvents
    /\ records' = Append(records, [kind |-> kind, traced |-> context = "started"])
    /\ UNCHANGED <<contextVars, delivered, freed, snapshot, m_ranges, m_processedCount, rowVars>>

\* The callback has returned.
FreeSlab ==
    /\ freed < delivered
    /\ freed' = delivered
    /\ UNCHANGED <<contextVars, records, delivered, snapshot, m_ranges, m_processedCount, rowVars>>

-----------------------------------------------------------------------------
(* Records become rows *)

in_range(i) ==
    \E k \in DOMAIN m_ranges : i >= m_ranges[k].start /\ (m_ranges[k].end = 0 \/ i < m_ranges[k].end)

Ids == IF idsFrom = 0 THEN storageNow ELSE idsFrom

\* The row of a call, the operations with its api_id, and its launch or copy.
RowOf(i) ==
    LET kind == records[i + 1].kind IN
    [record |-> i, storage |-> storageNow, ids |-> Ids,
     op     |-> IF kind \in {"launch", "copy", "barrier"} THEN kind ELSE "none",
     kernel |-> kind = "launch",
     copy   |-> kind \in {"copy", "host copy"}]

processRecords(ids) ==
    LET wanted == {i \in Range(ids) : in_range(i) /\ m_apiList_contains(records[i + 1].kind)}
        logged == Selected(ids, wanted)
    IN /\ tables' = tables \o [j \in DOMAIN logged |-> RowOf(logged[j])]
       /\ idsFrom' = IF logged = <<>> THEN idsFrom ELSE Ids

RecordsFrom(a, b) == [j \in 1 .. b - a |-> a + j - 1]

WholeSlab(ids)   == ids     \* what flush() consumed comes again
NotConsumed(ids) == Selected(ids, {i \in Range(ids) : i >= m_processedCount})

\* chunkCallback(): its slab is freed when it has returned.
chunkCallback ==
    LET first == delivered * SlabSize
        slab  == RecordsFrom(first, first + SlabSize)
    IN /\ delivered < SlabsFull /\ freed = delivered /\ Unlocked
       /\ processRecords(NotConsumed(slab))
       /\ m_processedCount' = IF slab[Len(slab)] + 1 > m_processedCount
                              THEN slab[Len(slab)] + 1 ELSE m_processedCount
       /\ delivered' = delivered + 1
       /\ UNCHANGED <<contextVars, records, freed, snapshot, m_ranges, storageNow>>

\* flush() takes the lock and asks for the slabs, more records may come, then
\* it walks over them from the last record that was consumed on.
FlushBegin ==
    /\ starts > 0 /\ Unlocked
    /\ snapshot' = Len(records)
    /\ UNCHANGED <<contextVars, runtimeVars, m_ranges, m_processedCount, rowVars>>

FlushFrom == m_processedCount

FlushEnd ==
    /\ ~Unlocked
    /\ processRecords(RecordsFrom(FlushFrom, snapshot))
    /\ m_processedCount' = IF snapshot > m_processedCount THEN snapshot ELSE m_processedCount
    /\ snapshot' = -1
    /\ UNCHANGED <<contextVars, runtimeVars, m_ranges, storageNow>>

-----------------------------------------------------------------------------
(* The life cycle, called by the Logger *)

init ==
    /\ context = "none" /\ starts = 0
    /\ context' = "stopped"
    /\ UNCHANGED <<starts, runtimeVars, snapshot, m_ranges, m_processedCount, rowVars>>

startTracing ==
    /\ context = "stopped" /\ starts < MaxStarts
    /\ context' = "started" /\ starts' = starts + 1
    /\ m_ranges' = Append(m_ranges, [start |-> Len(records), end |-> 0])
    /\ UNCHANGED <<runtimeVars, snapshot, m_processedCount, rowVars>>

stopTracing ==
    /\ context = "started"
    /\ context' = "stopped"
    /\ m_ranges' = [m_ranges EXCEPT ![Len(m_ranges)].end = Len(records)]
    /\ UNCHANGED <<starts, runtimeVars, snapshot, m_processedCount, rowVars>>

\* end() flushes.
end ==
    /\ context = "stopped" /\ starts > 0 /\ Unlocked /\ m_processedCount = Len(records)
    /\ context' = "none"
    /\ UNCHANGED <<starts, runtimeVars, snapshot, m_ranges, m_processedCount, rowVars>>

\* resetStorage(): a new storage, and reset() of the source.
IdsAfterReset == 0
reset ==
    /\ context = "stopped" /\ storageNow = 1
    /\ storageNow' = 2 /\ idsFrom' = IdsAfterReset
    /\ UNCHANGED <<contextVars, runtimeVars, snapshot, m_ranges, m_processedCount, tables>>

-----------------------------------------------------------------------------
Next ==
    \/ \E kind \in Kinds : NewRecord(kind)
    \/ FreeSlab \/ chunkCallback \/ FlushBegin \/ FlushEnd
    \/ init \/ startTracing \/ stopTracing \/ end \/ reset

-----------------------------------------------------------------------------
(* Properties *)

\* "Records below the high-water mark were already consumed by flush() and must
\* not be processed again" (ClrDataSource.cpp:85): no record becomes two rows,
\* and each that was made while tracing was on and is below the mark has its
\* row, with ids of the storage it is in, whether flush() or its slab came first.
EachRecordOnce ==
    LET RowsFor(i) == Cardinality({j \in DOMAIN tables : tables[j].record = i}) IN
    /\ \A i \in 0 .. Len(records) - 1 :
           /\ RowsFor(i) <= 1
           /\ i < m_processedCount /\ records[i + 1].traced
                /\ m_apiList_contains(records[i + 1].kind) => RowsFor(i) = 1
    /\ \A j \in DOMAIN tables : tables[j].ids = tables[j].storage

\* "to guarantee flush() never iterates a slab that is being (or has been)
\* delivered here" (ClrDataSource.cpp:83): while flush() has the lock, no record
\* it still has to visit is in a slab that was handed to chunkCallback().
FlushSparesDelivered ==
    ~Unlocked => \A i \in FlushFrom .. snapshot - 1 : SlabOf(i) >= delivered
=============================================================================
