------------------------------- MODULE MCControl -------------------------------
(***************************************************************************)
(* Instances for TLC of the modules that are about the start and the end   *)
(* of tracing: Logger, Remote, ApiTable, BufferedTable with its temporary  *)
(* table, and SharedFile, which it extends.  A behaviour is one of a single*)
(* module, `subject`; the variables of the others keep their initial       *)
(* values.                                                                 *)
(***************************************************************************)
EXTENDS SharedFile, TLC

CONSTANTS
    Users, Exiters, AutoFlusher, Sources, Autostart, Autoflush,
    MaxHeld, MaxStorages,                               \* of Logger
    SignalThreads, RepeatStop, InterruptInsert, MaxSignals, \* of Remote
    Inserters, Flushers, TableWorker, Finalizer,        \* of ApiTable
    BUFFERSIZE, BATCHSIZE, MaxCalls, MaxDepth,
    MaxRows                                             \* of BufferedTable

ASSUME ControlAssumption ==
    /\ Autostart \in BOOLEAN /\ Autoflush \in BOOLEAN
    /\ RepeatStop \in BOOLEAN /\ InterruptInsert \in BOOLEAN
    /\ MaxHeld \in Nat /\ MaxStorages \in Nat \ {0} /\ MaxSignals \in Nat
    /\ BUFFERSIZE \in Nat \ {0} /\ BATCHSIZE \in 1 .. BUFFERSIZE
    /\ Inserters \cap Flushers = {} /\ {TableWorker, Finalizer} \cap (Inserters \cup Flushers) = {}
    /\ TableWorker # Finalizer /\ Nobody \notin Inserters \cup Flushers \cup {TableWorker, Finalizer}
    /\ Users \cap Exiters = {} /\ AutoFlusher \notin Users /\ Nobody \notin Users \cup Exiters
    /\ MaxCalls \in Nat /\ MaxDepth \in Nat /\ MaxRows \in Nat
    /\ Contended \in BOOLEAN /\ CrashCreating \in BOOLEAN
    /\ MaxCrashes \in Nat /\ MaxSessions \in Nat

VARIABLES
    subject,
    count, active, tracing, ended, held, storage, deleted, finalized, using, overhead, done,
    worker, reset, respawn, doFinalize, finalizeMutex, logPc,
    refCount, loaded, activeCount, tracer, mutex, at, wants, pending, last, sent,
    size, left, flushRequested, tableDone, workerRunning, records, waiting, place, ret, batch, depth,
    calls,
    head, tail, rows, asked, flushTarget, ending, running, asleep, owner, step, from, cursor, final,
    cache, main, written, mark

Log == INSTANCE Logger WITH pc <- logPc
Rem == INSTANCE Remote WITH Threads <- SignalThreads, tracing <- tracer
Api == INSTANCE ApiTable WITH
    Worker <- TableWorker, done <- tableDone, overhead <- records, pc <- place, count <- batch,
    ClearsOverhead <- TRUE, QuietFinalize <- FALSE
Tab == INSTANCE BufferedTable WITH
    Worker <- TableWorker, flushRequested <- asked, done <- ending, workerRunning <- running, waiting <- asleep,
    pc <- step, ret <- from, last <- final, DirectWrite <- FALSE, QuietFlush <- TRUE

logVars == <<count, active, tracing, ended, held, storage, deleted, finalized, using, overhead,
             done, worker, reset, respawn, doFinalize, finalizeMutex, logPc>>
remVars == <<refCount, loaded, activeCount, tracer, mutex, at, wants, pending, last, sent>>
apiVars == <<size, left, flushRequested, tableDone, workerRunning, records, waiting, place, ret,
             batch, depth, calls>>
tabVars == <<head, tail, rows, asked, flushTarget, ending, running, asleep, owner, step, from,
             cursor, final, cache, main, written, mark>>
fileVars == vars         \* SharedFile's

ControlInit ==
    /\ subject \in {"logger", "remote", "api", "table", "file"}
    /\ Log!Init /\ Rem!Init /\ Api!Init /\ Tab!Init /\ Init

ControlNext ==
    \/ subject = "logger" /\ Log!Next /\ UNCHANGED <<subject, remVars, apiVars, tabVars, fileVars>>
    \/ subject = "remote" /\ Rem!Next /\ UNCHANGED <<subject, logVars, apiVars, tabVars, fileVars>>
    \/ subject = "api" /\ Api!Next /\ UNCHANGED <<subject, logVars, remVars, tabVars, fileVars>>
    \/ subject = "table" /\ Tab!Next /\ UNCHANGED <<subject, logVars, remVars, apiVars, fileVars>>
    \/ subject = "file" /\ Next /\ UNCHANGED <<subject, logVars, remVars, apiVars, tabVars>>

ControlSpec ==
    /\ ControlInit /\ [][ControlNext]_<<subject, logVars, remVars, apiVars, tabVars, fileVars>>
    /\ \/ subject = "logger" /\ Log!Fairness
       \/ subject = "remote" /\ Rem!Fairness
       \/ subject = "api" /\ Api!Fairness
       \/ subject = "table"
       \/ subject = "file" /\ Fairness

-----------------------------------------------------------------------------
(* Each module's properties, under the names they have there *)

\* Logger.cpp:98: overlapping recording windows do not end each other.
SourcesFollowStarts == Log!SourcesFollowStarts
\* Logger.cpp:61, 274: no thread uses a storage that was deleted, and the autoflush
\* thread is gone before one is finalized.
StorageOutlivesUse == Log!NoDeletedStorage /\ Log!AutoflushBeforeFinalize
\* FEATURES.md:78: the tracer does what the last command said.
CommandObeyed == Rem!CommandObeyed
\* README_embedded.md:92: after flush() the rows are visible, if nobody inserts meanwhile.
FlushVisible == Tab!FlushVisible
\* Whatever is under way, a call returns: resetStorage() and finalize() of the
\* Logger get past their joins, the handler of a remote stop through its flush
\* (FEATURES.md:83), flush() and finalize() of the API table to their end, a
\* process through joining the file, and one of them is elected.
CallsReturn ==
    /\ subject = "logger" => Log!CallsReturn
    /\ subject = "remote" => Rem!StopFlushes
    /\ subject = "api" => Api!ApiCallsReturn
    /\ subject = "file" => Proceeds
\* ApiTable.cpp:194: the worker's own records do not keep it busy for ever.
WorkerRests == subject = "api" => Api!WorkerRests
=============================================================================
