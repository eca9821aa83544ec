---------------------------- MODULE ControlProofs -----------------------------
(***************************************************************************)
(* Proofs about the modules that MCControl composes: the processes that    *)
(* share a trace file, the remote start and stop and, citing the modules   *)
(* of their proofs, the Logger and the row table; for every number of      *)
(* processes, threads, sources, signals, rows, crashes and sessions.       *)
(***************************************************************************)
EXTENDS MCControl, FiniteSetTheorems, TLAPS

\* Processes, their other connections and Nobody are told apart.
Distinct ==
    /\ Nobody \notin Procs
    /\ \A p \in Procs : Connection(p) \notin Procs /\ Connection(p) # Nobody

JoinPlaces == {"start", "create", "open", "prepare", "session", "count", "update", "tables",
               "announce", "running", "writing"}
LockPlaces == {"idle", "begin", "check", "insert", "end", "update"}

Types ==
    /\ pc \in [Procs -> JoinPlaces] /\ lockPc \in [Procs -> LockPlaces]
    /\ locked \subseteq Procs /\ inserted \subseteq Procs
    /\ schema \in BOOLEAN /\ wal \in BOOLEAN

\* A process inside a transaction is the writer.
WriterInv ==
    \A p \in Procs : pc[p] \in {"create", "count", "update", "writing"} => writer = p

-----------------------------------------------------------------------------
(* The resource *)

\* As long as every BEGIN of tryLock() and unlock() succeeds, they are inside their
\* transaction; who has the resource has committed a 1, or has yet to commit it.
LockInv ==
    /\ \A p \in Procs : lockPc[p] \in {"check", "insert", "end", "update"} <=> writer = Connection(p)
    /\ \A p \in Procs : p \in inserted => lockPc[p] = "end" /\ p \in locked
    /\ \A p \in Procs : p \in locked => value = "1" \/ p \in inserted
    /\ \A p \in Procs : lockPc[p] = "insert" => value # "1"
    /\ \A p \in Procs : lockPc[p] = "update" => p \in locked
    /\ \A p \in Procs : lockPc[p] \in {"begin", "check", "insert"} => p \notin locked
    /\ \A p, q \in locked : p = q

DelegateInv == Types /\ WriterInv /\ LockInv

LEMMA Connections ==
    ASSUME Distinct, NEW p \in Procs, NEW q \in Procs
    PROVE  /\ Connection(p) # q /\ Connection(p) # Nobody /\ q # Nobody
           /\ Connection(p) = Connection(q) => p = q
<1>1. Connection(p) # q /\ Connection(p) # Nobody /\ q # Nobody
  BY DEF Distinct
<1>2. Connection(p)[1] = p /\ Connection(q)[1] = q
  BY DEF Connection
<1> QED
  BY <1>1, <1>2

LEMMA InitDelegate == Distinct /\ Init => DelegateInv
<1> SUFFICES ASSUME Distinct, Init PROVE DelegateInv
  OBVIOUS
<1>1. Types /\ WriterInv
  BY DEF Init, Join!Init, Lock!Init, Types, WriterInv, JoinPlaces, LockPlaces
<1>2. LockInv
  BY Connections DEF Init, Join!Init, Lock!Init, LockInv
<1> QED
  BY <1>1, <1>2 DEF DelegateInv

\* The position of one process changes in a step.
LEMMA JoinFrame ==
    ASSUME Types, NEW p \in Procs,
           JoinStep(p) \/ WriteStep(p) \/ Exit(p) \/ Crash(p)
    PROVE  /\ pc' \in [Procs -> JoinPlaces] /\ \A q \in Procs \ {p} : pc'[q] = pc[q]
           /\ schema' \in BOOLEAN /\ wal' \in BOOLEAN
  BY DEF Types, JoinPlaces, JoinStep, WriteStep, Exit, Crash, Join!Join, Join!EnsureBegin,
     Join!EnsureEnd, Join!OpenFile, Join!PrepareInsert, Join!SessionBegin, Join!SessionSelect,
     Join!SessionUpdate, Join!OpenTables, Join!Announce, Join!WriteBegin, Join!WriteEnd, Join!Exit,
     Join!Crash, Join!Leave, Join!Goto, Join!file

\* What the steps of Session do to the writer.
LEMMA JoinWriter ==
    ASSUME Distinct, Types, WriterInv, NEW p \in Procs, JoinStep(p) \/ WriteStep(p) \/ Exit(p)
    PROVE  /\ WriterInv' /\ UNCHANGED lockVars
           /\ \/ writer' = writer
              \/ writer = Nobody /\ writer' = p
              \/ writer = p /\ writer' = Nobody
<1>1. /\ UNCHANGED lockVars /\ pc' \in [Procs -> JoinPlaces]
      /\ \A q \in Procs \ {p} : pc'[q] = pc[q]
  BY JoinFrame DEF JoinStep, WriteStep, Exit
<1>2. CASE \/ Join!OpenFile(p) \/ Join!PrepareInsert(p) \/ Join!SessionSelect(p) \/ Join!OpenTables(p)
           \/ Join!Announce(p) \/ Exit(p)
  <2>1. /\ writer' = writer
        /\ pc'[p] \in {"create", "count", "update", "writing"} =>
             pc[p] \in {"create", "count", "update", "writing"}
    BY <1>2 DEF Join!OpenFile, Join!PrepareInsert, Join!SessionSelect, Join!OpenTables, Join!Announce,
                Exit, Join!Exit, Join!Leave, Join!Goto, Join!file, Types
  <2> QED
    BY <1>1, <2>1 DEF WriterInv
<1>3. CASE Join!EnsureBegin(p) \/ Join!SessionBegin(p) \/ Join!WriteBegin(p)
  <2>1. \/ writer = Nobody /\ writer' = p
        \/ writer' = writer /\ pc'[p] = "open"
    BY <1>3 DEF Join!EnsureBegin, Join!SessionBegin, Join!WriteBegin, Join!Exclusive, Join!Goto, Types
  <2> QED
    BY <1>1, <2>1, Connections DEF WriterInv
<1>4. CASE Join!EnsureEnd(p) \/ Join!SessionUpdate(p) \/ Join!WriteEnd(p)
  <2>1. /\ pc[p] \in {"create", "count", "update", "writing"} /\ writer' = Nobody
        /\ pc'[p] \notin {"create", "count", "update", "writing"}
    BY <1>4 DEF Join!EnsureEnd, Join!SessionUpdate, Join!WriteEnd, Join!Release, Join!Goto, Types
  <2> QED
    BY <1>1, <2>1 DEF WriterInv
<1> QED
  BY <1>2, <1>3, <1>4 DEF JoinStep, WriteStep, Join!Join

\* A crash frees the file if the process had it.
LEMMA CrashWriter ==
    ASSUME Distinct, Types, WriterInv, NEW p \in Procs, Crash(p)
    PROVE  /\ WriterInv' /\ Types'
           /\ lockPc' = [lockPc EXCEPT ![p] = "idle"] /\ value' = value
           /\ locked' = locked \ {p} /\ inserted' = inserted \ {p}
           /\ writer' = IF writer \in {p, Connection(p)} THEN Nobody ELSE writer
<1>1. /\ lockPc' = [lockPc EXCEPT ![p] = "idle"] /\ value' = value
      /\ locked' = locked \ {p} /\ inserted' = inserted \ {p}
      /\ writer' = IF writer \in {p, Connection(p)} THEN Nobody ELSE writer
      /\ pc' = [pc EXCEPT ![p] = "start"]
  BY DEF Crash, Join!Crash, Join!Leave, Join!Goto, Lock!Die, Lock!Goto
<1>2. /\ pc'[p] = "start"
      /\ \A q \in Procs \ {p} :
           /\ pc'[q] = pc[q]
           /\ writer = q => writer # p /\ writer # Connection(p)
  BY <1>1, Connections DEF Types
<1>3. WriterInv'
  BY <1>1, <1>2 DEF WriterInv
<1>4. Types'
  BY <1>1, JoinFrame DEF Types, LockPlaces
<1> QED
  BY <1>1, <1>3, <1>4

\* The steps of tryLock() and unlock().
LEMMA LockFrame ==
    ASSUME Types, NEW p \in Procs, TryLock(p) \/ LockStep(p) \/ Unlock(p) \/ UnlockEnd(p)
    PROVE  /\ Types' /\ UNCHANGED joinVars
           /\ \A q \in Procs \ {p} : lockPc'[q] = lockPc[q]
  BY DEF Types, LockPlaces, TryLock, LockStep, Unlock, UnlockEnd, Lock!TryLock, Lock!LockStep,
     Lock!LockBegin, Lock!LockCheck, Lock!LockInsert, Lock!LockEnd, Lock!UnlockBegin,
     Lock!UnlockUpdate, Lock!Goto, joinVars

LEMMA LockWriter ==
    ASSUME Distinct, Types, WriterInv, NEW p \in Procs,
           TryLock(p) \/ LockStep(p) \/ Unlock(p) \/ UnlockEnd(p)
    PROVE  /\ WriterInv'
           /\ \/ writer' = writer
              \/ writer = Nobody /\ writer' = Connection(p)
              \/ writer = Connection(p) /\ writer' = Nobody
<1>1. \/ writer' = writer
      \/ writer = Nobody /\ writer' = Connection(p)
      \/ writer = Connection(p) /\ writer' = Nobody
  BY DEF TryLock, LockStep, Unlock, UnlockEnd, Lock!TryLock, Lock!LockStep, Lock!LockBegin,
     Lock!LockCheck, Lock!LockInsert, Lock!LockEnd, Lock!UnlockBegin, Lock!UnlockUpdate, Lock!Begin,
     Lock!InTransaction
<1>2. pc' = pc
  BY LockFrame DEF joinVars
<1> QED
  BY <1>1, <1>2, Connections DEF WriterInv

LEMMA DelegateStep == ASSUME Distinct, ~Contended, DelegateInv, [Next]_vars PROVE DelegateInv'
<1> USE DEF DelegateInv
<1>1. ASSUME NEW p \in Procs, JoinStep(p) \/ WriteStep(p) \/ Exit(p) PROVE DelegateInv'
  <2>1. /\ WriterInv' /\ UNCHANGED lockVars
        /\ \/ writer' = writer
           \/ writer = Nobody /\ writer' = p
           \/ writer = p /\ writer' = Nobody
    BY <1>1, JoinWriter
  <2>2. Types'
    BY <1>1, <2>1, JoinFrame DEF Types, lockVars
  <2>3. LockInv'
    BY <2>1, Connections DEF LockInv, lockVars
  <2> QED
    BY <2>1, <2>2, <2>3
<1>2. ASSUME NEW p \in Procs, Crash(p) PROVE DelegateInv'
  <2>1. /\ WriterInv' /\ Types'
        /\ lockPc' = [lockPc EXCEPT ![p] = "idle"] /\ value' = value
        /\ locked' = locked \ {p} /\ inserted' = inserted \ {p}
        /\ writer' = IF writer \in {p, Connection(p)} THEN Nobody ELSE writer
    BY <1>2, CrashWriter
  <2>2. lockPc'[p] = "idle" /\ \A q \in Procs \ {p} : lockPc'[q] = lockPc[q]
    BY <2>1 DEF Types
  <2>3. LockInv'
    BY <2>1, <2>2, Connections DEF LockInv
  <2> QED
    BY <2>1, <2>3
<1>3. ASSUME NEW p \in Procs, TryLock(p) \/ LockStep(p) \/ Unlock(p) \/ UnlockEnd(p)
      PROVE  DelegateInv'
  <2>1. Types' /\ WriterInv' /\ \A q \in Procs \ {p} : lockPc'[q] = lockPc[q]
    BY <1>3, LockFrame, LockWriter
  <2>2. CASE TryLock(p)
    BY <2>1, <2>2 DEF TryLock, Lock!TryLock, Lock!Goto, LockInv, Types
  <2>3. CASE Lock!LockBegin(p) \/ Unlock(p)
    <3>1. /\ writer = Nobody /\ writer' = Connection(p) /\ UNCHANGED <<value, locked, inserted>>
          /\ \/ lockPc[p] = "begin" /\ lockPc'[p] = "check"
             \/ lockPc[p] = "idle" /\ lockPc'[p] = "update" /\ p \in locked
      BY <2>3 DEF Lock!LockBegin, Unlock, Lock!UnlockBegin, Lock!Begin, Lock!MayBegin, Lock!Goto, Types
    <3> QED
      BY <2>1, <3>1, Connections DEF LockInv
  <2>4. CASE Lock!LockCheck(p)
    BY <2>1, <2>4 DEF Lock!LockCheck, Lock!SeenFree, Lock!Goto, LockInv, Types
  <2>5. CASE Lock!LockInsert(p)
    <3>1. /\ lockPc[p] = "insert" /\ lockPc'[p] = "end" /\ writer = Connection(p)
          /\ inserted' = inserted \cup {p} /\ locked' = locked \cup {p} /\ UNCHANGED <<value, writer>>
      BY <2>5 DEF Lock!LockInsert, Lock!InTransaction, Lock!Goto, LockInv, Types
    <3>2. locked = {}
      BY <3>1, Connections DEF LockInv, Types
    <3> QED
      BY <2>1, <3>1, <3>2 DEF LockInv
  <2>6. CASE Lock!LockEnd(p)
    <3>1. /\ lockPc[p] = "end" /\ lockPc'[p] = "idle" /\ writer = Connection(p) /\ writer' = Nobody
          /\ value' = (IF p \in inserted THEN "1" ELSE value) /\ inserted' = inserted \ {p}
          /\ locked' = locked
      BY <2>6 DEF Lock!LockEnd, Lock!InTransaction, Lock!Goto, LockInv, Types
    <3> QED
      BY <2>1, <3>1, Connections DEF LockInv
  <2>7. CASE UnlockEnd(p)
    <3>1. /\ lockPc[p] = "update" /\ lockPc'[p] = "idle" /\ writer = Connection(p) /\ writer' = Nobody
          /\ p \in locked /\ locked' = locked \ {p} /\ inserted' = inserted
      BY <2>7 DEF UnlockEnd, Lock!UnlockUpdate, Lock!InTransaction, Lock!Goto, LockInv, Types
    <3>2. locked' = {}
      BY <3>1 DEF LockInv, Types
    <3> QED
      BY <2>1, <3>1, <3>2, Connections DEF LockInv
  <2> QED
    BY <1>3, <2>2, <2>3, <2>4, <2>5, <2>6, <2>7 DEF LockStep, Lock!LockStep
<1>4. CASE UNCHANGED vars
  BY <1>4 DEF vars, joinVars, lockVars, Types, WriterInv, LockInv
<1> QED
  BY <1>1, <1>2, <1>3, <1>4 DEF Next

\* If no BEGIN of tryLock() and unlock() finds a writer, no two processes have the
\* resource, whoever crashes.
THEOREM OneDelegate == Distinct /\ ~Contended => (Spec => []SingleDelegate)
<1> SUFFICES ASSUME Distinct, ~Contended PROVE Spec => []SingleDelegate
  OBVIOUS
<1>1. Init => DelegateInv
  BY InitDelegate
<1>2. DelegateInv /\ [Next]_vars => DelegateInv'
  BY DelegateStep
<1>3. DelegateInv => SingleDelegate
  <2> SUFFICES ASSUME DelegateInv PROVE Cardinality(locked) <= 1
    BY DEF SingleDelegate
  <2>1. CASE locked = {}
    BY <2>1, FS_EmptySet
  <2>2. ASSUME NEW p \in locked PROVE Cardinality(locked) = 1
    <3>1. locked = {p}
      BY <2>2 DEF DelegateInv, LockInv
    <3> QED
      BY <3>1, FS_Singleton
  <2> QED
    BY <2>1, <2>2
<1> QED
  BY <1>1, <1>2, <1>3, PTL DEF Spec

-----------------------------------------------------------------------------
(* The sessions *)

Creating == \E p \in Procs : pc[p] = "create"
Numbered(p) == pc[p] \in {"tables", "announce"}

\* If nobody dies creating the schema, whoever gets beyond opening the file finds it.
SchemaInv ==
    /\ wal => schema
    /\ \A p \in Procs : pc[p] \notin {"start", "create", "open"} => schema
    /\ ~schema /\ writer # Nobody => Creating
    /\ \A p \in Procs : ~schema /\ pc[p] = "open" => Creating
    /\ \A p \in Procs : lockPc[p] # "idle" \/ p \in locked => Open(p)
    /\ \A p \in Procs : pc[p] \notin {"start", "create", "open", "prepare"} => p \in metaReady
    /\ \A p \in Procs : pc[p] \in {"announce", "running", "writing"} => p \in tablesReady

\* A process that has its session, and has not yet written rows under it, is alone with
\* it; the sessions that are to come have no rows.
SessionInv ==
    /\ sessionCount \in Int /\ sessionCount >= -1 /\ sessionId \in [Procs -> Int]
    /\ \A p \in Procs : pc[p] = "update" => sessionId[p] = Join!NextSession
    /\ \A p \in Procs : Numbered(p) =>
         /\ sessionId[p] < sessionCount
         /\ sessionId[p] \in DOMAIN owners => owners[sessionId[p]] = 0
    /\ \A p, q \in Procs : Numbered(p) /\ Numbered(q) /\ sessionId[p] = sessionId[q] => p = q
    /\ \A s \in DOMAIN owners : s \in Int /\ owners[s] \in {0, 1}
                                /\ (s >= Join!NextSession => owners[s] = 0)

JoinInv == Types /\ WriterInv /\ SchemaInv /\ SessionInv

LEMMA InitJoin == Distinct /\ Init => JoinInv
<1> SUFFICES ASSUME Distinct, Init PROVE JoinInv
  OBVIOUS
<1>1. Types /\ WriterInv
  BY InitDelegate DEF DelegateInv
<1>2. SchemaInv
  BY DEF Init, Join!Init, Lock!Init, SchemaInv, Creating
<1>3. SessionInv
  BY DEF Init, Join!Init, SessionInv, Numbered
<1> QED
  BY <1>1, <1>2, <1>3 DEF JoinInv

LEMMA SchemaStep == ASSUME Distinct, ~CrashCreating, JoinInv, [Next]_vars PROVE SchemaInv'
<1> USE DEF JoinInv
<1>1. ASSUME NEW p \in Procs, JoinStep(p) \/ WriteStep(p) \/ Exit(p) PROVE SchemaInv'
  <2>1. /\ pc' \in [Procs -> JoinPlaces] /\ \A q \in Procs \ {p} : pc'[q] = pc[q]
        /\ UNCHANGED <<lockPc, locked>>
    BY <1>1, JoinFrame, JoinWriter DEF lockVars
  <2>2. CASE Join!EnsureBegin(p)
    <3>1. /\ pc[p] = "start" /\ UNCHANGED <<schema, wal, metaReady, tablesReady>>
          /\ \/ writer = Nobody /\ writer' = p /\ pc'[p] = "create"
             \/ writer # Nobody /\ writer' = writer /\ pc'[p] = "open"
      BY <2>2 DEF Join!EnsureBegin, Join!Goto, Types
    <3> QED
      BY <2>1, <3>1 DEF SchemaInv, Creating, Open
  <2>3. CASE Join!EnsureEnd(p)
    <3>1. /\ pc[p] = "create" /\ pc'[p] = "open" /\ schema' = TRUE
          /\ UNCHANGED <<metaReady, tablesReady>>
      BY <2>3 DEF Join!EnsureEnd, Join!Goto, Types
    <3> QED
      BY <2>1, <3>1 DEF SchemaInv, Open
  <2>4. CASE Join!OpenFile(p)
    <3>1. /\ pc[p] = "open" /\ pc'[p] = "prepare" /\ (wal \/ writer = Nobody)
          /\ UNCHANGED <<schema, writer, metaReady, tablesReady>>
      BY <2>4 DEF Join!OpenFile, Join!OpenWaits, Join!CanRead, Join!Goto, Types
    <3>2. schema
      BY <3>1, Connections DEF SchemaInv, Creating, WriterInv
    <3> QED
      BY <2>1, <3>1, <3>2 DEF SchemaInv, Open
  <2>5. CASE pc[p] \notin {"start", "create", "open"}
    <3>1. schema /\ UNCHANGED <<schema, wal>> /\ pc'[p] \notin {"create", "open"}
      BY <1>1, <2>5 DEF SchemaInv, Types, JoinStep, WriteStep, Exit, Join!Join, Join!EnsureBegin,
         Join!EnsureEnd, Join!OpenFile, Join!PrepareInsert, Join!SessionBegin, Join!SessionSelect,
         Join!SessionUpdate, Join!OpenTables, Join!Announce, Join!WriteBegin, Join!WriteEnd,
         Join!Exit, Join!Leave, Join!Goto, Join!file
    <3>2. lockPc[p] # "idle" \/ p \in locked => pc'[p] \in {"running", "writing"}
      BY <1>1, <2>5 DEF SchemaInv, Open, Types, JoinStep, WriteStep, Exit, Join!Join,
         Join!EnsureBegin, Join!EnsureEnd, Join!OpenFile, Join!PrepareInsert, Join!SessionBegin,
         Join!SessionSelect, Join!SessionUpdate, Join!OpenTables, Join!Announce, Join!WriteBegin,
         Join!WriteEnd, Join!Goto
    <3>3. /\ metaReady \ {p} \subseteq metaReady' /\ tablesReady \ {p} \subseteq tablesReady'
          /\ pc'[p] \notin {"start", "create", "open", "prepare"} => p \in metaReady'
          /\ pc'[p] \in {"announce", "running", "writing"} => p \in tablesReady'
      <4>1. CASE Join!PrepareInsert(p) \/ Join!OpenTables(p)
        BY <2>5, <3>1, <4>1 DEF SchemaInv, Types, Join!PrepareInsert, Join!OpenTables, Join!Goto
      <4>2. CASE Exit(p)
        BY <4>2 DEF Exit, Join!Exit, Join!Leave, Join!Goto, Types
      <4>3. CASE \/ Join!SessionBegin(p) \/ Join!SessionSelect(p) \/ Join!SessionUpdate(p)
                 \/ Join!Announce(p) \/ Join!WriteBegin(p) \/ Join!WriteEnd(p)
        BY <4>3 DEF SchemaInv, Types, Join!SessionBegin, Join!SessionSelect, Join!SessionUpdate,
           Join!Announce, Join!WriteBegin, Join!WriteEnd, Join!Goto
      <4> QED
        BY <1>1, <2>5, <4>1, <4>2, <4>3 DEF JoinStep, WriteStep, Join!Join, Join!EnsureBegin,
           Join!EnsureEnd, Join!OpenFile
    <3> QED
      BY <2>1, <3>1, <3>2, <3>3 DEF SchemaInv, Open
  <2> QED
    BY <1>1, <2>2, <2>3, <2>4, <2>5 DEF JoinStep, WriteStep, Exit, Join!Join, Join!PrepareInsert,
       Join!SessionBegin, Join!SessionSelect, Join!SessionUpdate, Join!OpenTables, Join!Announce,
       Join!WriteBegin, Join!WriteEnd, Join!Exit
<1>2. ASSUME NEW p \in Procs, Crash(p) PROVE SchemaInv'
  <2>1. /\ pc[p] # "create" /\ pc' = [pc EXCEPT ![p] = "start"] /\ UNCHANGED <<schema, wal>>
        /\ lockPc' = [lockPc EXCEPT ![p] = "idle"] /\ writer' \in {writer, Nobody}
        /\ metaReady' = metaReady \ {p} /\ tablesReady' = tablesReady \ {p}
        /\ locked' = locked \ {p}
    BY <1>2 DEF Crash, Join!Crash, Join!Leave, Join!Goto, Lock!Die, Lock!Goto
  <2>2. /\ pc'[p] = "start" /\ \A q \in Procs \ {p} : pc'[q] = pc[q]
        /\ lockPc'[p] = "idle" /\ \A q \in Procs \ {p} : lockPc'[q] = lockPc[q]
    BY <2>1 DEF Types
  <2>3. Creating => Creating'
    BY <2>1, <2>2 DEF Creating
  <2> QED
    BY <2>1, <2>2, <2>3 DEF SchemaInv, Open
<1>3. ASSUME NEW p \in Procs, TryLock(p) \/ LockStep(p) \/ Unlock(p) \/ UnlockEnd(p)
      PROVE  SchemaInv'
  <2>1. /\ UNCHANGED joinVars /\ \A q \in Procs \ {p} : lockPc'[q] = lockPc[q]
        /\ \/ writer' = writer
           \/ writer = Nobody /\ writer' = Connection(p)
           \/ writer = Connection(p) /\ writer' = Nobody
    BY <1>3, LockFrame, LockWriter
  <2>2. lockPc[p] # "idle" \/ TryLock(p) \/ Unlock(p)
    BY <1>3 DEF LockStep, UnlockEnd, Lock!LockStep, Lock!LockBegin, Lock!LockCheck, Lock!LockInsert,
                Lock!LockEnd, Lock!UnlockUpdate
  <2>3. Open(p)
    BY <1>3, <2>2 DEF SchemaInv, TryLock, Unlock, Lock!UnlockBegin
  <2>4. locked' \subseteq locked \cup {p}
    BY <1>3 DEF TryLock, LockStep, Unlock, UnlockEnd, Lock!TryLock, Lock!LockStep, Lock!LockBegin,
       Lock!LockCheck, Lock!LockInsert, Lock!LockEnd, Lock!UnlockBegin, Lock!UnlockUpdate
  <2> QED
    BY <2>1, <2>3, <2>4 DEF SchemaInv, Creating, Open, joinVars
<1>4. CASE UNCHANGED vars
  BY <1>4 DEF vars, joinVars, lockVars, SchemaInv, Creating, Open
<1> QED
  BY <1>1, <1>2, <1>3, <1>4 DEF Next

\* A step of another part leaves the sessions alone.
LEMMA SessionKept ==
    ASSUME SessionInv, UNCHANGED <<sessionCount, sessionId, owners>>, NEW p \in Procs,
           \A q \in Procs \ {p} : pc'[q] = pc[q],
           pc'[p] = "update" => pc[p] = "update",
           Numbered(p)' => Numbered(p)
    PROVE  SessionInv'
  BY DEF SessionInv, Numbered, Join!NextSession

LEMMA SessionStep == ASSUME Distinct, JoinInv, [Next]_vars PROVE SessionInv'
<1> USE DEF JoinInv
<1>1. ASSUME NEW p \in Procs, JoinStep(p) \/ WriteStep(p) \/ Exit(p) PROVE SessionInv'
  <2>1. pc' \in [Procs -> JoinPlaces] /\ \A q \in Procs \ {p} : pc'[q] = pc[q]
    BY <1>1, JoinFrame
  <2>2. CASE Join!SessionSelect(p)
    <3>1. /\ pc[p] = "count" /\ pc'[p] = "update" /\ UNCHANGED <<sessionCount, owners>>
          /\ sessionId' = [sessionId EXCEPT ![p] = Join!NextSession]
      BY <2>2 DEF Join!SessionSelect, Join!Goto, Join!file, Types
    <3>2. /\ sessionId' \in [Procs -> Int] /\ sessionId'[p] = Join!NextSession
          /\ \A q \in Procs \ {p} : sessionId'[q] = sessionId[q]
          /\ Join!NextSession' = Join!NextSession
      BY <3>1 DEF SessionInv, Join!NextSession
    <3> QED
      BY <2>1, <3>1, <3>2 DEF SessionInv, Numbered
  <2>3. CASE Join!SessionUpdate(p)
    <3>1. /\ pc[p] = "update" /\ pc'[p] = "tables" /\ UNCHANGED <<sessionId, owners>>
          /\ sessionCount' = Join!NextSession + 1
      BY <2>3 DEF Join!SessionUpdate, Join!CountUp, Join!Goto, Types, SchemaInv
    <3>2. /\ Join!NextSession \in Int /\ sessionCount <= Join!NextSession /\ Join!NextSession >= 0
          /\ Join!NextSession' = Join!NextSession + 1
      BY <3>1 DEF SessionInv, Join!NextSession
    <3>3. \A q \in Procs \ {p} : pc'[q] # "update"
      BY <2>1, <3>1 DEF WriterInv
    <3>4. sessionId[p] = Join!NextSession
      BY <3>1 DEF SessionInv
    <3>5. ASSUME NEW q \in Procs, Numbered(q)'
          PROVE  /\ sessionId[q] < sessionCount'
                 /\ sessionId[q] \in DOMAIN owners => owners[sessionId[q]] = 0
                 /\ q # p => sessionId[q] # sessionId[p]
      <4>1. CASE q = p
        BY <3>1, <3>2, <3>4, <4>1 DEF SessionInv
      <4>2. CASE q # p
        BY <2>1, <3>1, <3>2, <3>4, <3>5, <4>2 DEF SessionInv, Numbered
      <4> QED
        BY <4>1, <4>2
    <3>6. \A q, r \in Procs : Numbered(q)' /\ Numbered(r)' /\ sessionId[q] = sessionId[r] => q = r
      <4> SUFFICES ASSUME NEW q \in Procs, NEW r \in Procs, Numbered(q)', Numbered(r)',
                          sessionId[q] = sessionId[r], q # p, r # p
                   PROVE  q = r
        BY <3>5
      <4> QED
        BY <2>1 DEF SessionInv, Numbered
    <3> QED
      BY <3>1, <3>2, <3>3, <3>4, <3>5, <3>6, <2>1 DEF SessionInv
  <2>4. CASE Join!Announce(p)
    <3>1. /\ pc[p] = "announce" /\ pc'[p] = "running" /\ UNCHANGED <<sessionId, sessionCount>>
          /\ owners' \in {owners, [owners EXCEPT ![sessionId[p]] = @ + 1]}
      BY <2>4 DEF Join!Announce, Join!Goto, Join!file, Types
    <3>2. /\ Numbered(p) /\ Join!NextSession' = Join!NextSession
          /\ sessionId[p] < sessionCount /\ sessionCount <= Join!NextSession
          /\ Join!NextSession \in Int
      BY <3>1 DEF SessionInv, Numbered, Join!NextSession
    <3>3. /\ DOMAIN owners' = DOMAIN owners
          /\ \A s \in DOMAIN owners : s # sessionId[p] => owners'[s] = owners[s]
          /\ sessionId[p] \in DOMAIN owners => owners'[sessionId[p]] \in {0, 1}
      BY <3>1, <3>2 DEF SessionInv
    <3>4. \A s \in DOMAIN owners' :
            s \in Int /\ owners'[s] \in {0, 1} /\ (s >= Join!NextSession => owners'[s] = 0)
      BY <3>2, <3>3 DEF SessionInv
    <3>5. \A q \in Procs : Numbered(q)' => Numbered(q) /\ q # p
      BY <2>1, <3>1 DEF Numbered
    <3>6. \A q \in Procs : Numbered(q)' => sessionId[q] # sessionId[p]
      BY <3>2, <3>5 DEF SessionInv
    <3>7. \A q \in Procs : pc'[q] = "update" => pc[q] = "update"
      BY <2>1, <3>1
    <3> QED
      BY <3>1, <3>2, <3>3, <3>4, <3>5, <3>6, <3>7 DEF SessionInv
  <2>5. CASE Exit(p)
    <3>1. /\ pc'[p] = "start" /\ UNCHANGED <<sessionCount, owners>>
          /\ sessionId' = [sessionId EXCEPT ![p] = -1]
      BY <2>5 DEF Exit, Join!Exit, Join!Leave, Join!Goto, Join!file, Types
    <3> QED
      BY <2>1, <3>1 DEF SessionInv, Numbered, Join!NextSession
  <2>6. CASE \/ Join!EnsureBegin(p) \/ Join!EnsureEnd(p) \/ Join!OpenFile(p) \/ Join!PrepareInsert(p)
             \/ Join!SessionBegin(p) \/ Join!OpenTables(p) \/ WriteStep(p)
    <3>1. /\ UNCHANGED <<sessionCount, sessionId, owners>> /\ pc'[p] # "update"
          /\ pc'[p] \in {"tables", "announce"} => pc[p] = "tables"
      BY <2>6 DEF Join!EnsureBegin, Join!EnsureEnd, Join!OpenFile, Join!PrepareInsert,
         Join!SessionBegin, Join!OpenTables, WriteStep, Join!WriteBegin, Join!WriteEnd, Join!Goto,
         Join!file, Types
    <3>2. Numbered(p)' => Numbered(p)
      BY <3>1 DEF Numbered
    <3> QED
      BY <2>1, <3>1, <3>2, SessionKept
  <2> QED
    BY <1>1, <2>2, <2>3, <2>4, <2>5, <2>6 DEF JoinStep, Join!Join
<1>2. ASSUME NEW p \in Procs, Crash(p) PROVE SessionInv'
  <2>1. /\ pc' = [pc EXCEPT ![p] = "start"] /\ UNCHANGED <<sessionCount, owners>>
        /\ sessionId' = [sessionId EXCEPT ![p] = -1]
    BY <1>2 DEF Crash, Join!Crash, Join!Leave, Join!Goto
  <2>2. pc'[p] = "start" /\ \A q \in Procs \ {p} : pc'[q] = pc[q]
    BY <2>1 DEF Types
  <2> QED
    BY <2>1, <2>2 DEF SessionInv, Numbered, Join!NextSession
<1>3. ASSUME NEW p \in Procs, TryLock(p) \/ LockStep(p) \/ Unlock(p) \/ UnlockEnd(p)
      PROVE  SessionInv'
  <2>1. UNCHANGED joinVars
    BY <1>3, LockFrame
  <2> QED
    BY <2>1 DEF joinVars, SessionInv, Numbered, Join!NextSession
<1>4. CASE UNCHANGED vars
  BY <1>4 DEF vars, joinVars, SessionInv, Numbered, Join!NextSession
<1> QED
  BY <1>1, <1>2, <1>3, <1>4 DEF Next

LEMMA JoinInvStep == ASSUME Distinct, ~CrashCreating, JoinInv, [Next]_vars PROVE JoinInv'
<1>1. Types' /\ WriterInv'
  <2>1. ASSUME NEW p \in Procs, JoinStep(p) \/ WriteStep(p) \/ Exit(p) PROVE Types' /\ WriterInv'
    BY <2>1, JoinFrame, JoinWriter DEF JoinInv, Types, lockVars
  <2>2. ASSUME NEW p \in Procs, Crash(p) PROVE Types' /\ WriterInv'
    BY <2>2, CrashWriter DEF JoinInv
  <2>3. ASSUME NEW p \in Procs, TryLock(p) \/ LockStep(p) \/ Unlock(p) \/ UnlockEnd(p)
        PROVE  Types' /\ WriterInv'
    BY <2>3, LockFrame, LockWriter DEF JoinInv
  <2>4. CASE UNCHANGED vars
    BY <2>4 DEF JoinInv, vars, joinVars, lockVars, Types, WriterInv
  <2> QED
    BY <2>1, <2>2, <2>3, <2>4 DEF Next
<1> QED
  BY <1>1, SchemaStep, SessionStep DEF JoinInv

\* If nobody dies while creating the schema, a process that found the file locked has
\* the tables when it opens them.
THEOREM SchemaFound == Distinct /\ ~CrashCreating => (Spec => []SchemaBeforeTables)
<1> SUFFICES ASSUME Distinct, ~CrashCreating PROVE Spec => []SchemaBeforeTables
  OBVIOUS
<1>1. Init => JoinInv
  BY InitJoin
<1>2. JoinInv /\ [Next]_vars => JoinInv'
  BY JoinInvStep
<1>3. JoinInv => SchemaBeforeTables
  BY DEF JoinInv, SchemaInv, SchemaBeforeTables
<1> QED
  BY <1>1, <1>2, <1>3, PTL DEF Spec

\* If nobody dies while creating the schema, no two processes write rows under one
\* session, whoever crashes and restarts.
THEOREM SessionsUnique == Distinct /\ ~CrashCreating => (Spec => []UniqueSessions)
<1> SUFFICES ASSUME Distinct, ~CrashCreating PROVE Spec => []UniqueSessions
  OBVIOUS
<1>1. Init => JoinInv
  BY InitJoin
<1>2. JoinInv /\ [Next]_vars => JoinInv'
  BY JoinInvStep
<1>3. JoinInv => UniqueSessions
  BY DEF JoinInv, SessionInv, UniqueSessions
<1> QED
  BY <1>1, <1>2, <1>3, PTL DEF Spec
-----------------------------------------------------------------------------
(* Remote start and stop *)

\* The signal under way, if there is one: sent, or with its handler.
HandlerPlaces == {"none", "start", "rpdstart", "stop", "rpdstop", "rpdflush"}
RemoteTypes ==
    /\ at \in [SignalThreads -> HandlerPlaces]
    /\ last \in {"start", "stop"} /\ pending \subseteq {last}
    /\ loaded \in BOOLEAN

\* One command at a time.
OneCommand ==
    /\ \A t \in SignalThreads : at[t] # "none" => pending = {}
    /\ \A t, u \in SignalThreads : at[t] # "none" /\ at[u] # "none" => t = u

\* Both counts and the sources agree, and the library is there to be stopped.
Recording == refCount = 1 /\ activeCount = 1 /\ tracer = TRUE /\ loaded = TRUE
Resting   == refCount = 0 /\ activeCount = 0 /\ tracer = FALSE

\* Before its handler, a stop finds tracing on; a start may be a repeated one.
CommandInv ==
    /\ Rem!Handled => IF last = "start" THEN Recording ELSE Resting
    /\ "start" \in pending => Recording \/ Resting
    /\ "stop" \in pending => Recording
    /\ \A t \in SignalThreads :
           /\ at[t] \in {"start", "rpdstart"} <=> at[t] # "none" /\ last = "start"
           /\ at[t] = "start" => Recording \/ Resting
           /\ at[t] = "rpdstart" => Resting /\ loaded = TRUE
           /\ at[t] \in {"stop", "rpdstop"} => Recording
           /\ at[t] = "rpdflush" => refCount = 1 /\ activeCount = 0 /\ tracer = FALSE

RemoteInv == RemoteTypes /\ OneCommand /\ CommandInv

LEMMA InitRemote == Rem!Init => RemoteInv
  BY DEF Rem!Init, Rem!Handled, RemoteInv, RemoteTypes, OneCommand, CommandInv, Recording, Resting, HandlerPlaces

\* A signal is sent when the last was handled, and given to one thread.
LEMMA SignalStep ==
    ASSUME RemoteInv, ~RepeatStop, NEW signal \in Rem!Signals,
           Rem!Send(signal) \/ \E t \in SignalThreads : Rem!Deliver(t, signal)
    PROVE  RemoteInv'
<1> USE DEF RemoteInv, Rem!Signals, Rem!Handled, Rem!logger, Rem!remote
<1>1. CASE Rem!Send(signal)
  <2> USE <1>1 DEF Rem!Send
  <2>1. RemoteTypes' /\ OneCommand'
    BY DEF RemoteTypes, OneCommand
  <2>2. CommandInv'
    BY DEF RemoteTypes, OneCommand, CommandInv, Recording, Resting
  <2> QED
    BY <2>1, <2>2
<1>2. ASSUME NEW t \in SignalThreads, Rem!Deliver(t, signal) PROVE RemoteInv'
  <2> USE <1>2 DEF Rem!Deliver, Rem!Goto
  <2>1. pending = {signal} /\ last = signal /\ \A u \in SignalThreads : at[u] = "none"
    BY DEF RemoteTypes, OneCommand
  <2>2. at' = [u \in SignalThreads |-> IF u = t THEN signal ELSE "none"]
    BY <2>1 DEF RemoteTypes
  <2>3. RemoteTypes' /\ OneCommand'
    BY <2>1, <2>2 DEF RemoteTypes, OneCommand, HandlerPlaces
  <2>4. CommandInv'
    BY <2>1, <2>2 DEF CommandInv, Recording, Resting
  <2> QED
    BY <2>3, <2>4
<1> QED
  BY <1>1, <1>2

LEMMA HandlerStep ==
    ASSUME RemoteInv, ~Autostart, NEW t \in SignalThreads, Rem!Handle(t)
    PROVE  RemoteInv'
<1> USE DEF RemoteInv, Rem!logger, Rem!remote, Rem!env, Rem!Goto
<1>1. /\ at[t] # "none" /\ pending = {} /\ pending' = {} /\ last' = last
      /\ \A u \in SignalThreads \ {t} : at[u] = "none"
      /\ loaded' \in BOOLEAN
  BY DEF Rem!Handle, Rem!StartEnter, Rem!StartCall, Rem!StopEnter, Rem!StopCall, Rem!StopFlush,
     RemoteTypes, OneCommand
<1>2. PICK goal \in HandlerPlaces :
          /\ at' = [u \in SignalThreads |-> IF u = t THEN goal ELSE "none"]
          /\ \/ goal = "none"
             \/ at[t] = "start" /\ goal = "rpdstart"
             \/ at[t] = "stop" /\ goal = "rpdstop"
             \/ at[t] = "rpdstop" /\ goal = "rpdflush"
  BY <1>1 DEF Rem!Handle, Rem!StartEnter, Rem!StartCall, Rem!StopEnter, Rem!StopCall,
     Rem!StopFlush, RemoteTypes, HandlerPlaces
<1>3. RemoteTypes' /\ OneCommand'
  BY <1>1, <1>2 DEF RemoteTypes, OneCommand
<1>4. CommandInv'
  <2>1. at'[t] = goal /\ \A u \in SignalThreads \ {t} : at'[u] = "none"
    BY <1>2
  <2>2. CASE Rem!StartEnter(t)
    BY <1>1, <2>1, <2>2 DEF Rem!StartEnter, Rem!AlreadyStarted, CommandInv, Recording, Resting, Rem!Handled,
       RemoteTypes
  <2>3. CASE Rem!StartCall(t)
    BY <1>1, <2>1, <2>3 DEF Rem!StartCall, CommandInv, Recording, Resting, Rem!Handled, RemoteTypes
  <2>4. CASE Rem!StopEnter(t)
    BY <1>1, <2>1, <2>4 DEF Rem!StopEnter, CommandInv, Recording, Resting, Rem!Handled, RemoteTypes
  <2>5. CASE Rem!StopCall(t)
    <3>1. at[t] = "rpdstop" /\ refCount = 1 /\ activeCount = 1 /\ last # "start"
      BY <1>1, <2>5 DEF Rem!StopCall, CommandInv, Recording
    <3>2. tracer' = (tracer /\ activeCount # 1) /\ activeCount' = activeCount - 1 /\ refCount' = refCount
          /\ goal = "rpdflush"
      BY <2>1, <2>5 DEF Rem!StopCall, RemoteTypes
    <3>3. tracer' = FALSE
      BY <3>1, <3>2, Zenon
    <3>4. activeCount' = 0
      BY <3>1, <3>2
    <3> QED
      BY <1>1, <2>1, <3>1, <3>2, <3>3, <3>4 DEF CommandInv, Recording, Resting, Rem!Handled
  <2>6. CASE Rem!StopFlush(t)
    BY <1>1, <2>1, <2>6 DEF Rem!StopFlush, Rem!CountAfterStop, CommandInv, Recording, Resting, Rem!Handled,
       RemoteTypes
  <2> QED
    BY <2>2, <2>3, <2>4, <2>5, <2>6 DEF Rem!Handle
<1> QED
  BY <1>3, <1>4

\* Recording is no part of it.
LEMMA RecordStep ==
    ASSUME RemoteInv,
           \/ \E t \in SignalThreads : Rem!Record(t) \/ Rem!Insert(t)
           \/ UNCHANGED remVars
    PROVE  RemoteInv'
<1>1. UNCHANGED <<refCount, loaded, activeCount, tracer, at, pending, last>>
  BY DEF Rem!Record, Rem!Insert, Rem!InsertBegin, Rem!InsertEnd, Rem!logger, Rem!remote, Rem!env,
     remVars
<1> QED
  BY <1>1 DEF RemoteInv, RemoteTypes, OneCommand, CommandInv, Recording, Resting, Rem!Handled

\* Without autostart, and if a stop is sent only after a start, the tracer does
\* what the last command said as soon as its signal is handled, whatever threads
\* the signals hit and however often a start is repeated.
THEOREM CommandsObeyed == ~Autostart /\ ~RepeatStop => (ControlSpec => []CommandObeyed)
<1> SUFFICES ASSUME ~Autostart, ~RepeatStop PROVE ControlSpec => []CommandObeyed
  OBVIOUS
<1>1. ControlInit => RemoteInv
  BY InitRemote DEF ControlInit
<1>2. RemoteInv /\ [ControlNext]_<<subject, logVars, remVars, apiVars, tabVars, fileVars>>
        => RemoteInv'
  <2>1. [ControlNext]_<<subject, logVars, remVars, apiVars, tabVars, fileVars>>
          => Rem!Next \/ UNCHANGED remVars
    BY DEF ControlNext
  <2> QED
    BY <2>1, SignalStep, HandlerStep, RecordStep DEF Rem!Next
<1>3. RemoteInv => CommandObeyed
  BY DEF RemoteInv, CommandInv, Recording, Resting, CommandObeyed, Rem!CommandObeyed
<1> QED
  BY <1>1, <1>2, <1>3, PTL DEF ControlSpec

-----------------------------------------------------------------------------
(* The Logger and the row table: what is proved of them in modules of their *)
(* own holds in the composition.                                            *)

LogP == INSTANCE LoggerProofs WITH pc <- logPc
TabP == INSTANCE BufferedTableProofs WITH
    Worker <- TableWorker, flushRequested <- asked, done <- ending, workerRunning <- running, waiting <- asleep,
    pc <- step, ret <- from, last <- final, DirectWrite <- FALSE, QuietFlush <- TRUE

LEMMA SameLogger == Log!Init = LogP!Init /\ Log!Next = LogP!Next
  BY DEF Log!refs, LogP!refs, Log!store, LogP!store, Log!resetting, LogP!resetting, Log!ending,
     LogP!ending, Log!vars, LogP!vars, Log!Goto, LogP!Goto, Log!Init, LogP!Init, Log!MayCall,
     LogP!MayCall, Log!RpdStart, LogP!RpdStart, Log!StartSource, LogP!StartSource,
     Log!CountAfterStart, LogP!CountAfterStart, Log!StartReturn, LogP!StartReturn, Log!RpdStop,
     LogP!RpdStop, Log!AnyStop, LogP!AnyStop, Log!LastStop, LogP!LastStop, Log!StopSource,
     LogP!StopSource, Log!StopReturn, LogP!StopReturn, Log!FlushBegin, LogP!FlushBegin,
     Log!FlushEnd, LogP!FlushEnd, Log!WorkerLoop, LogP!WorkerLoop, Log!WorkerFlushed,
     LogP!WorkerFlushed, Log!Exiting, LogP!Exiting, Log!DoneOnReset, LogP!DoneOnReset,
     Log!ResetCall, LogP!ResetCall, Log!NoJoin, LogP!NoJoin, Log!Joined, LogP!Joined,
     Log!ResetJoin, LogP!ResetJoin, Log!ResetFinalize, LogP!ResetFinalize, Log!ResetDelete,
     LogP!ResetDelete, Log!ResetNew, LogP!ResetNew, Log!DoneOnRespawn, LogP!DoneOnRespawn,
     Log!ResetReturn, LogP!ResetReturn, Log!DoFinalizeAfter, LogP!DoFinalizeAfter, Log!DoneNotSet,
     LogP!DoneNotSet, Log!DoneAtExit, LogP!DoneAtExit, Log!FinalizeCall, LogP!FinalizeCall,
     Log!NotAwaited, LogP!NotAwaited, Log!AutoflushEnded, LogP!AutoflushEnded, Log!FinalizeJoin,
     LogP!FinalizeJoin, Log!FinalizeLock, LogP!FinalizeLock, Log!FinalizeStop, LogP!FinalizeStop,
     Log!FinalizeEnd, LogP!FinalizeEnd, Log!FinalizeStorage, LogP!FinalizeStorage, Log!StartStop,
     LogP!StartStop, Log!UserStep, LogP!UserStep, Log!Worker, LogP!Worker, Log!ResetStep,
     LogP!ResetStep, Log!FinalizeStep, LogP!FinalizeStep, Log!Next, LogP!Next

LEMMA LoggerAlone == ControlSpec => LogP!Spec
<1>1. ControlInit => LogP!Init
  BY SameLogger DEF ControlInit
<1>2. [ControlNext]_<<subject, logVars, remVars, apiVars, tabVars, fileVars>> => [LogP!Next]_LogP!vars
  <2>1. UNCHANGED logVars => UNCHANGED LogP!vars
    BY DEF logVars, LogP!vars, LogP!refs, LogP!store, LogP!resetting, LogP!ending
  <2> QED
    BY <2>1, SameLogger DEF ControlNext
<1> QED
  BY <1>1, <1>2, PTL DEF ControlSpec, LogP!Spec

LEMMA SameTable == Tab!Init = TabP!Init /\ Tab!Next = TabP!Next
  BY DEF Tab!Threads, TabP!Threads, Tab!ring, TabP!ring, Tab!request, TabP!request, Tab!batch,
     TabP!batch, Tab!store, TabP!store, Tab!vars, TabP!vars, Tab!Slot, TabP!Slot, Tab!CanRun,
     TabP!CanRun, Tab!AfterNotifyOne, TabP!AfterNotifyOne, Tab!Goto, TabP!Goto, Tab!Init,
     TabP!Init, Tab!Wants, TabP!Wants, Tab!FullOffByOne, TabP!FullOffByOne, Tab!Full, TabP!Full,
     Tab!InsertWait, TabP!InsertWait, Tab!InsertRow, TabP!InsertRow, Tab!CallWriteRows,
     TabP!CallWriteRows, Tab!DrainNothing, TabP!DrainNothing, Tab!Drain, TabP!Drain, Tab!Park,
     TabP!Park, Tab!FlushLoopNoNotify, TabP!FlushLoopNoNotify, Tab!FlushLoop, TabP!FlushLoop,
     Tab!BatchLoop, TabP!BatchLoop, Tab!WorkerStep, TabP!WorkerStep, Tab!FromTail, TabP!FromTail,
     Tab!FirstOfBatch, TabP!FirstOfBatch, Tab!TakeBatch, TabP!TakeBatch, Tab!WriteRow,
     TabP!WriteRow, Tab!TailAfterSkip, TabP!TailAfterSkip, Tab!TailAfterBatch,
     TabP!TailAfterBatch, Tab!CommitBatch, TabP!CommitBatch, Tab!SleepersLeft, TabP!SleepersLeft,
     Tab!SleepersGone, TabP!SleepersGone, Tab!NotifyAll, TabP!NotifyAll, Tab!FlushCall,
     TabP!FlushCall, Tab!KeepWaitingNever, TabP!KeepWaitingNever, Tab!KeepWaiting,
     TabP!KeepWaiting, Tab!FlushWake, TabP!FlushWake, Tab!FlushCopy, TabP!FlushCopy,
     Tab!FlushDelete, TabP!FlushDelete, Tab!FinalizeCall, TabP!FinalizeCall, Tab!FinalizeJoin,
     TabP!FinalizeJoin, Tab!SpuriousWakeup, TabP!SpuriousWakeup, Tab!InsertStep, TabP!InsertStep,
     Tab!WorkerThread, TabP!WorkerThread, Tab!FlushStep, TabP!FlushStep, Tab!FinalizeStep,
     TabP!FinalizeStep, Tab!Next, TabP!Next

LEMMA TableAlone == ControlSpec => TabP!Spec
<1>1. ControlInit => TabP!Init
  BY SameTable DEF ControlInit
<1>2. [ControlNext]_<<subject, logVars, remVars, apiVars, tabVars, fileVars>> => [TabP!Next]_TabP!vars
  <2>1. UNCHANGED tabVars => UNCHANGED TabP!vars
    BY DEF tabVars, TabP!vars, TabP!ring, TabP!request, TabP!batch, TabP!store
  <2> QED
    BY <2>1, SameTable DEF ControlNext
<1> QED
  BY <1>1, <1>2, PTL DEF ControlSpec, TabP!Spec

LEMMA ThreadsApart == LogP!Distinct /\ TabP!Quiet
  BY ControlAssumption DEF LogP!Distinct, TabP!Quiet

\* When nobody starts or stops, the sources that trace are those somebody started
\* and has not stopped: overlapping windows do not end each other.
THEOREM WindowsNest == ControlSpec => []SourcesFollowStarts
<1>1. LogP!SourcesFollowStarts => SourcesFollowStarts
  BY DEF SourcesFollowStarts, Log!SourcesFollowStarts, LogP!SourcesFollowStarts, Log!Exiting, LogP!Exiting
<1> QED
  BY <1>1, LoggerAlone, ThreadsApart, LogP!WindowsNest, PTL

\* No thread flushes a storage that resetStorage() deleted, and the autoflush thread
\* is gone before a storage is finalized.
THEOREM NoUseAfterEnd == ControlSpec => []StorageOutlivesUse
<1>1. LogP!NoDeletedStorage /\ LogP!AutoflushBeforeFinalize => StorageOutlivesUse
  BY DEF StorageOutlivesUse, Log!NoDeletedStorage, LogP!NoDeletedStorage,
     Log!AutoflushBeforeFinalize, LogP!AutoflushBeforeFinalize
<1> QED
  BY <1>1, LoggerAlone, ThreadsApart, LogP!NoUseAfterDelete, LogP!AutoflushEndsFirst, PTL

\* Rows inserted before a flush() are in the main table when it has returned, if
\* nobody inserts meanwhile: the temporary table loses and hides none.
THEOREM FlushedRowsVisible == ControlSpec => []FlushVisible
<1>1. TabP!FlushVisible => FlushVisible
  BY DEF FlushVisible, Tab!FlushVisible, TabP!FlushVisible
<1>2. TabP!ThreadsAssumption /\ TabP!SizeAssumption
  BY ControlAssumption DEF TabP!Threads
<1>3. TabP!Spec => []TabP!FlushVisible
  BY <1>2, ThreadsApart, TabP!FlushVisibleQuiet
<1> QED
  BY <1>1, <1>3, TableAlone, PTL
=============================================================================
