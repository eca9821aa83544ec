------------------------- MODULE BufferedTableProofs -------------------------
(***************************************************************************)
(* Proofs about BufferedTable for every number of threads, ring size,      *)
(* batch size and row bound.                                               *)
(***************************************************************************)
EXTENDS BufferedTable, SequenceTheorems, TLAPS

(***************************************************************************)
(* The inductive invariant, in parts.                                      *)
(***************************************************************************)

\* Each kind of thread is at one of its own places.
Places ==
    /\ \A p \in Inserters : pc[p] \in {"idle", "blocked"}
    /\ \A f \in Flushers : pc[f] \in {"idle", "waitflush", "copy", "delete"}
    /\ pc[Finalizer] \in {"idle", "joining", "copy", "delete", "finalized"}
    /\ pc[Worker] \in {"parked", "batch", "flush", "drain", "take", "write",
                       "commit", "notify", "exited"}

\* The ring keeps every row the worker has not written.
RingInv == tail <= head /\ NoOverwrite

\* The batch being written lies between tail and head.
BatchInv ==
    /\ pc[Worker] = "take" => tail < head
    /\ pc[Worker] = "write" => tail < cursor /\ cursor <= last /\ last <= head
    /\ pc[Worker] = "commit" => tail < last /\ last <= head /\ cursor = last + 1

\* How many rows the backend has.
Stored == IF pc[Worker] \in {"write", "commit"} THEN cursor - 1 ELSE tail

\* It has the first ones, in order; with DirectWrite they are in main.
WrittenInv ==
    /\ Len(written) = Stored
    /\ \A i \in 1 .. Len(written) : written[i] = i
    /\ DirectWrite => \A i \in 1 .. Len(written) : i \in main

\* A flush waits until everything up to its mark has been written.
MarkInv ==
    /\ flushTarget <= head
    /\ \A f \in Flushers :
         \/ mark[f] <= tail
         \/ pc[f] = "waitflush" /\ flushRequested /\ mark[f] <= flushTarget

\* The worker leaves its loop only for finalize, with everything written.
DoneInv ==
    /\ done <=> pc[Finalizer] # "idle"
    /\ pc[Worker] \in {"drain", "exited"} => done
    /\ ret = "drain" => done
    /\ mark[Finalizer] <= head
    /\ \/ pc[Worker] = "exited"
       \/ pc[Finalizer] \in {"copy", "delete", "finalized"}
       => mark[Finalizer] <= tail

\* Who can be asleep, and why.
SignalInv ==
    /\ Finalizer \notin waiting
    /\ NoMissedSignal
    /\ \A f \in Flushers : f \in waiting => pc[f] = "waitflush" /\ flushRequested
    /\ Worker \in waiting => pc[Worker] = "parked"
    /\ pc[Worker] \in {"parked", "batch"} =>
         \A p \in Inserters : p \in waiting => head - tail >= BUFFERSIZE

IInv == /\ TypeOK /\ Places /\ RingInv /\ BatchInv
        /\ WrittenInv /\ MarkInv /\ DoneInv /\ SignalInv

-----------------------------------------------------------------------------
(* Facts about the constants and the helpers *)

LEMMA ThreadFacts ==
    /\ Worker \in Threads /\ Finalizer \in Threads
    /\ \A p \in Inserters : p \in Threads /\ p # Worker /\ p # Finalizer /\ p \notin Flushers
    /\ \A f \in Flushers : f \in Threads /\ f # Worker /\ f # Finalizer /\ f \notin Inserters
    /\ Worker # Finalizer /\ Nobody \notin Threads
  BY ThreadsAssumption DEF Threads

\* Two rows less than a ring apart never share a slot.
LEMMA SlotInjective ==
    ASSUME NEW i \in Nat, NEW j \in Nat, i < j, j - i < BUFFERSIZE
    PROVE  Slot(i) # Slot(j)
<1> DEFINE a == i \div BUFFERSIZE
           b == j \div BUFFERSIZE
<1>1. BUFFERSIZE \in Int /\ BUFFERSIZE > 0
  BY SizeAssumption
<1>2. a \in Int /\ b \in Int /\ Slot(i) \in Int /\ Slot(j) \in Int
  BY <1>1 DEF Slot
<1>3. i = BUFFERSIZE * a + Slot(i) /\ j = BUFFERSIZE * b + Slot(j)
  BY <1>1 DEF Slot
<1> HIDE DEF a, b
<1> SUFFICES ASSUME Slot(i) = Slot(j) PROVE FALSE
  OBVIOUS
<1>4. j - i = BUFFERSIZE * b - BUFFERSIZE * a
  BY <1>1, <1>2, <1>3
<1>5. BUFFERSIZE * b - BUFFERSIZE * a = BUFFERSIZE * (b - a)
  BY <1>1, <1>2
<1>6. CASE b - a <= 0
  <2>1. BUFFERSIZE * (b - a) <= 0
    BY <1>1, <1>2, <1>6
  <2> QED BY <2>1, <1>1, <1>2, <1>4, <1>5
<1>7. CASE b - a >= 1
  <2>1. BUFFERSIZE * (b - a) >= BUFFERSIZE
    BY <1>1, <1>2, <1>7
  <2> QED BY <2>1, <1>1, <1>2, <1>4, <1>5
<1> QED BY <1>2, <1>6, <1>7

LEMMA SlotType == ASSUME NEW i \in Nat PROVE Slot(i) \in 0 .. BUFFERSIZE - 1
  BY SizeAssumption DEF Slot

\* notify_one leaves a subset of the sleepers, and none of them when only
\* one was asleep.
LEMMA NotifyOneFacts ==
    ASSUME NEW W \in AfterNotifyOne
    PROVE  /\ W \subseteq waiting
           /\ \A t : waiting = {t} => W = {}
  BY DEF AfterNotifyOne

-----------------------------------------------------------------------------
(* Type correctness *)

LEMMA TypeInit == Init => TypeOK
<1> SUFFICES ASSUME Init PROVE TypeOK
  OBVIOUS
<1>1. written \in Seq(Nat \ {0}) /\ cache \subseteq Nat \ {0} /\ main \subseteq Nat \ {0}
  BY EmptySeq DEF Init
<1>2. rows \in [0 .. BUFFERSIZE - 1 -> Nat]
  BY DEF Init
<1>3. mark \in [Flushers \cup {Finalizer} -> Nat]
  BY DEF Init
<1> QED
  BY <1>1, <1>2, <1>3 DEF Init, TypeOK

-----------------------------------------------------------------------------
(* The inductive invariant.  Type correctness leans on the rest of it: that *)
(* an unused slot is never stored follows from the ring invariant.          *)


LEMMA InvInit == Init => IInv
<1> SUFFICES ASSUME Init PROVE IInv
  OBVIOUS
<1> USE ThreadFacts DEF Init
<1>1. TypeOK
  BY TypeInit
<1>2. Places
  BY DEF Places, Threads
<1>3. RingInv /\ BatchInv
  BY SizeAssumption DEF RingInv, NoOverwrite, BatchInv
<1>4. WrittenInv
  BY EmptySeq DEF WrittenInv, Stored
<1>5. MarkInv /\ DoneInv /\ SignalInv
  BY DEF MarkInv, DoneInv, SignalInv, NoMissedSignal
<1> QED
  BY <1>1, <1>2, <1>3, <1>4, <1>5 DEF IInv

LEMMA TypeStep == ASSUME IInv, [Next]_vars PROVE TypeOK'
<1> USE ThreadFacts, SizeAssumption DEF IInv, TypeOK, Goto, ring, request, batch, store
<1>1. ASSUME NEW p \in Inserters, InsertWait(p) PROVE TypeOK'
  <2>1. waiting' \subseteq Threads
    BY <1>1, NotifyOneFacts DEF InsertWait, Full
  <2> QED BY <1>1, <2>1 DEF InsertWait, Full
<1>2. ASSUME NEW p \in Inserters, InsertRow(p) PROVE TypeOK'
  <2>1. rows' \in [0 .. BUFFERSIZE - 1 -> Nat]
    BY <1>2, SlotType, head + 1 \in Nat DEF InsertRow, Full
  <2>2. waiting' \subseteq Threads
    BY <1>2, NotifyOneFacts DEF InsertRow, Full
  <2> QED BY <1>2, <2>1, <2>2 DEF InsertRow, Full
<1>3. ASSUME WorkerStep PROVE TypeOK'
  BY <1>3 DEF WorkerStep, Drain, Park, FlushLoop, BatchLoop, CallWriteRows
<1>4. ASSUME TakeBatch PROVE TypeOK'
  <2>1. last' \in Nat /\ cursor' \in Nat
    BY <1>4 DEF TakeBatch, FirstOfBatch
  <2>2. pc' \in [Threads -> {"idle", "blocked", "waitflush", "copy", "delete",
                  "joining", "finalized", "parked", "batch", "flush", "drain",
                  "take", "write", "commit", "notify", "exited"}]
    BY <1>4 DEF TakeBatch, FirstOfBatch
  <2> QED BY <1>4, <2>1, <2>2 DEF TakeBatch
<1>5. ASSUME WriteRow PROVE TypeOK'
  <2>1. rows[Slot(cursor)] \in Nat \ {0}
    BY <1>5 DEF WriteRow, RingInv, NoOverwrite, BatchInv
  <2>2. written' \in Seq(Nat \ {0})
    BY <1>5, <2>1, AppendProperties DEF WriteRow
  <2>3. cache' \subseteq Nat \ {0} /\ main' \subseteq Nat \ {0}
    BY <1>5, <2>1 DEF WriteRow
  <2> QED BY <1>5, <2>2, <2>3 DEF WriteRow
<1>6. ASSUME CommitBatch PROVE TypeOK'
  BY <1>6 DEF CommitBatch, TailAfterBatch
<1>7. ASSUME NotifyAll PROVE TypeOK'
  BY <1>7 DEF NotifyAll, SleepersGone
<1>8. ASSUME NEW f \in Flushers, FlushCall(f) PROVE TypeOK'
  BY <1>8, NotifyOneFacts DEF FlushCall
<1>9. ASSUME NEW f \in Flushers, FlushWake(f) PROVE TypeOK'
  BY <1>9 DEF FlushWake, KeepWaiting
<1>10. ASSUME NEW f \in Flushers \cup {Finalizer}, FlushCopy(f) PROVE TypeOK'
  BY <1>10 DEF FlushCopy
<1>11. ASSUME NEW f \in Flushers \cup {Finalizer}, FlushDelete(f) PROVE TypeOK'
  BY <1>11 DEF FlushDelete
<1>12. ASSUME FinalizeCall PROVE TypeOK'
  BY <1>12, NotifyOneFacts DEF FinalizeCall
<1>13. ASSUME FinalizeJoin PROVE TypeOK'
  BY <1>13 DEF FinalizeJoin
<1>14. ASSUME NEW t \in Threads, SpuriousWakeup(t) PROVE TypeOK'
  BY <1>14 DEF SpuriousWakeup
<1>15. CASE UNCHANGED vars
  BY <1>15 DEF vars
<1> QED
  BY <1>1, <1>2, <1>3, <1>4, <1>5, <1>6, <1>7, <1>8, <1>9, <1>10, <1>11,
     <1>12, <1>13, <1>14, <1>15
  DEF Next, InsertStep, WorkerThread, FlushStep, FinalizeStep

(***************************************************************************)
(* What WorkerStep amounts to: the worker calls writeRows with a row to    *)
(* write, goes to sleep alone, or exits with the ring empty.               *)
(***************************************************************************)
WorkerOutcome ==
    \/ /\ pc'[Worker] = "take" /\ tail < head
       /\ flushRequested' = flushRequested /\ waiting' = waiting
       /\ ret' = "drain" => done
    \/ /\ pc'[Worker] = "take" /\ tail < head /\ done
       /\ tail >= flushTarget
       /\ flushRequested' = FALSE /\ waiting' = {}
    \/ /\ pc'[Worker] = "parked" /\ ~done
       /\ flushRequested => tail >= flushTarget
       /\ flushRequested' = FALSE /\ waiting' = {Worker}
       /\ ret' = ret
    \/ /\ pc'[Worker] = "exited" /\ done /\ head = tail
       /\ flushRequested' = flushRequested /\ waiting' = waiting
       /\ ret' = ret
    \/ /\ pc'[Worker] = "exited" /\ done /\ head = tail
       /\ tail >= flushTarget
       /\ flushRequested' = FALSE /\ waiting' = {}
       /\ ret' = ret

LEMMA WorkerStepCases ==
    ASSUME IInv, WorkerStep
    PROVE  /\ pc[Worker] \in {"parked", "batch", "flush", "drain"}
           /\ Worker \notin waiting
           /\ UNCHANGED <<head, tail, rows, flushTarget, done, cursor, last,
                          cache, main, written, mark>>
           /\ \A t \in Threads \ {Worker} : pc'[t] = pc[t]
           /\ WorkerOutcome
<1> USE ThreadFacts, SizeAssumption
        DEF IInv, TypeOK, ring, store, Goto, CallWriteRows
<1>1. /\ pc[Worker] \in {"parked", "batch", "flush", "drain"}
      /\ Worker \notin waiting
      /\ UNCHANGED <<head, tail, rows, flushTarget, done, cursor, last,
                     cache, main, written, mark>>
  BY DEF WorkerStep, CanRun
<1>2. \A t \in Threads \ {Worker} : pc'[t] = pc[t]
  BY DEF WorkerStep, Drain, Park, FlushLoop, BatchLoop
<1>3. tail <= head /\ flushTarget <= head
  BY DEF RingInv, MarkInv
<1>4. ASSUME pc[Worker] \in {"parked", "batch"}, ~(head - tail >= BATCHSIZE),
             ~flushRequested
      PROVE  waiting = {}
  <2> SUFFICES ASSUME NEW t \in waiting PROVE FALSE
    OBVIOUS
  <2>1. t \in Inserters
    BY <1>1, <1>4 DEF SignalInv, Threads
  <2> QED BY <2>1, <1>4 DEF SignalInv
<1>5. CASE pc[Worker] = "drain" \/ (pc[Worker] = "parked" /\ done)
  <2>1. Drain(waiting) /\ UNCHANGED flushRequested
    BY <1>5, <1>3 DEF WorkerStep, DoneInv
  <2>2. done
    BY <1>5 DEF DoneInv
  <2>3. WorkerOutcome
    BY <2>1, <2>2, <1>3 DEF Drain, WorkerOutcome
  <2> QED BY <2>3, <1>1, <1>2
<1>6. ASSUME FlushLoop PROVE WorkerOutcome
  BY <1>3, <1>6 DEF FlushLoop, Park, Drain, WorkerOutcome
<1>7. CASE pc[Worker] = "flush"
  <2>1. FlushLoop
    BY <1>7 DEF WorkerStep
  <2> QED BY <2>1, <1>6, <1>1, <1>2
<1>8. CASE pc[Worker] = "batch" \/ (pc[Worker] = "parked" /\ ~done)
  <2>1. BatchLoop
    BY <1>8 DEF WorkerStep
  <2>2. CASE head - tail >= BATCHSIZE
    <3>1. WorkerOutcome
      BY <2>1, <2>2, <1>3, <1>8 DEF BatchLoop, WorkerOutcome, DoneInv
    <3> QED BY <3>1, <1>1, <1>2
  <2>3. CASE ~(head - tail >= BATCHSIZE) /\ flushRequested
    <3>1. FlushLoop
      BY <2>1, <2>3, Zenon DEF BatchLoop
    <3> QED BY <3>1, <1>6, <1>1, <1>2
  <2>4. CASE ~(head - tail >= BATCHSIZE) /\ ~flushRequested
    <3>1. waiting = {}
      BY <1>4, <1>8, <2>4
    <3>2. Park(waiting) /\ UNCHANGED flushRequested
      BY <2>1, <2>4, Zenon DEF BatchLoop
    <3>3. WorkerOutcome
      BY <3>1, <3>2, <2>4, <1>3 DEF Park, Drain, WorkerOutcome
    <3> QED BY <3>3, <1>1, <1>2
  <2> QED BY <2>2, <2>3, <2>4
<1> QED BY <1>1, <1>5, <1>7, <1>8

LEMMA InsertWaitStep ==
    ASSUME IInv, TypeOK', NEW p \in Inserters, InsertWait(p)
    PROVE  IInv'
<1> USE ThreadFacts, SizeAssumption
        DEF IInv, TypeOK, Goto, CanRun, ring, request, batch, store, InsertWait, Wants, Full
<1>1. Places'
  BY NotifyOneFacts DEF Places
<1>2. RingInv'
  BY NotifyOneFacts DEF RingInv, NoOverwrite
<1>3. BatchInv'
  BY NotifyOneFacts DEF BatchInv
<1>4. WrittenInv'
  BY NotifyOneFacts DEF WrittenInv, Stored
<1>5. MarkInv'
  BY NotifyOneFacts DEF MarkInv
<1>6. DoneInv'
  BY NotifyOneFacts DEF DoneInv
<1>7. SignalInv'
  <2>1. PICK W \in AfterNotifyOne : waiting' = W \cup {p}
    BY DEF InsertWait
  <2>2. W \subseteq waiting /\ Worker \notin W
    BY <2>1, NotifyOneFacts DEF SignalInv, NoMissedSignal
  <2> QED BY <2>1, <2>2 DEF SignalInv, NoMissedSignal
<1> QED BY <1>1, <1>2, <1>3, <1>4, <1>5, <1>6, <1>7

LEMMA InsertRowStep ==
    ASSUME IInv, TypeOK', NEW p \in Inserters, InsertRow(p)
    PROVE  IInv'
<1> USE ThreadFacts, SizeAssumption
        DEF IInv, TypeOK, Goto, CanRun, ring, request, batch, store, InsertRow, Wants, Full
<1>1. Places'
  BY NotifyOneFacts DEF Places
<1>2. RingInv'
  <2>1. head + 1 - tail <= BUFFERSIZE /\ tail <= head
    BY DEF RingInv
  <2>2. ASSUME NEW i \in tail + 1 .. head + 1 PROVE rows'[Slot(i)] = i
    <3>1. Slot(head + 1) \in 0 .. BUFFERSIZE - 1 /\ Slot(i) \in 0 .. BUFFERSIZE - 1
      BY SlotType, head + 1 \in Nat, i \in Nat
    <3>2. CASE i = head + 1
      BY <3>1, <3>2
    <3>3. CASE i # head + 1
      <4>1. i \in Nat /\ i < head + 1 /\ (head + 1) - i < BUFFERSIZE
        BY <2>1, <3>3
      <4>2. Slot(i) # Slot(head + 1)
        BY <4>1, SlotInjective, head + 1 \in Nat
      <4>3. rows[Slot(i)] = i
        BY <3>3 DEF RingInv, NoOverwrite
      <4> QED BY <3>1, <4>2, <4>3
    <3> QED BY <3>2, <3>3
  <2> QED BY <2>1, <2>2 DEF RingInv, NoOverwrite
<1>3. BatchInv'
  BY NotifyOneFacts DEF BatchInv
<1>4. WrittenInv'
  BY NotifyOneFacts DEF WrittenInv, Stored
<1>5. MarkInv'
  BY NotifyOneFacts DEF MarkInv
<1>6. DoneInv'
  BY NotifyOneFacts DEF DoneInv
<1>7. SignalInv'
  BY NotifyOneFacts DEF SignalInv, NoMissedSignal
<1> QED BY <1>1, <1>2, <1>3, <1>4, <1>5, <1>6, <1>7

LEMMA TakeBatchStep ==
    ASSUME IInv, TypeOK', TakeBatch
    PROVE  IInv'
<1> USE ThreadFacts, SizeAssumption
        DEF IInv, TypeOK, Goto, CanRun, ring, request, batch, store, TakeBatch, FirstOfBatch
<1>1. Places'
  BY DEF Places
<1>2. RingInv'
  BY DEF RingInv, NoOverwrite
<1>3. BatchInv'
  BY DEF BatchInv
<1>4. WrittenInv'
  BY DEF WrittenInv, Stored
<1>5. MarkInv'
  BY DEF MarkInv
<1>6. DoneInv'
  BY DEF DoneInv
<1>7. SignalInv'
  BY DEF SignalInv, BatchInv, NoMissedSignal
<1> QED BY <1>1, <1>2, <1>3, <1>4, <1>5, <1>6, <1>7

LEMMA WriteRowStep ==
    ASSUME IInv, TypeOK', WriteRow
    PROVE  IInv'
<1> USE ThreadFacts, SizeAssumption
        DEF IInv, TypeOK, Goto, CanRun, ring, request, batch, store, WriteRow
<1>1. Places'
  BY DEF Places
<1>2. RingInv'
  BY DEF RingInv, NoOverwrite
<1>3. BatchInv'
  BY DEF BatchInv
<1>4. WrittenInv'
  <2>1. cursor \in tail + 1 .. head /\ cursor = Len(written) + 1
    BY DEF BatchInv, WrittenInv, Stored
  <2>2. rows[Slot(cursor)] = cursor
    BY <2>1 DEF RingInv, NoOverwrite
  <2>3. /\ Len(written') = Len(written) + 1
        /\ \A i \in 1 .. Len(written) : written'[i] = written[i]
        /\ written'[Len(written) + 1] = cursor
    BY <2>2, AppendProperties, cursor \in Nat
  <2>4. Len(written') = Stored'
    BY <2>1, <2>3, LenProperties DEF Stored
  <2>5. \A i \in 1 .. Len(written') : written'[i] = i
    BY <2>1, <2>3, LenProperties DEF WrittenInv
  <2>6. DirectWrite => \A i \in 1 .. Len(written') : i \in main'
    BY <2>1, <2>2, <2>3, LenProperties DEF WrittenInv
  <2> QED BY <2>4, <2>5, <2>6 DEF WrittenInv
<1>5. MarkInv'
  BY DEF MarkInv
<1>6. DoneInv'
  BY DEF DoneInv
<1>7. SignalInv'
  BY DEF SignalInv, NoMissedSignal
<1> QED BY <1>1, <1>2, <1>3, <1>4, <1>5, <1>6, <1>7

LEMMA CommitBatchStep ==
    ASSUME IInv, TypeOK', CommitBatch
    PROVE  IInv'
<1> USE ThreadFacts, SizeAssumption
        DEF IInv, TypeOK, Goto, CanRun, ring, request, batch, store, CommitBatch, TailAfterBatch
<1>1. Places'
  BY DEF Places
<1>2. RingInv'
  BY DEF BatchInv, RingInv, NoOverwrite
<1>3. BatchInv'
  BY DEF BatchInv
<1>4. WrittenInv'
  BY DEF BatchInv, WrittenInv, Stored
<1>5. MarkInv'
  BY DEF BatchInv, MarkInv
<1>6. DoneInv'
  BY DEF BatchInv, DoneInv
<1>7. SignalInv'
  BY DEF SignalInv, NoMissedSignal
<1> QED BY <1>1, <1>2, <1>3, <1>4, <1>5, <1>6, <1>7

LEMMA NotifyAllStep ==
    ASSUME IInv, TypeOK', NotifyAll
    PROVE  IInv'
<1> USE ThreadFacts, SizeAssumption
        DEF IInv, TypeOK, Goto, CanRun, ring, request, batch, store, NotifyAll, SleepersGone
<1>1. Places'
  BY DEF Places
<1>2. RingInv'
  BY DEF RingInv, NoOverwrite
<1>3. BatchInv'
  BY DEF BatchInv
<1>4. WrittenInv'
  BY DEF WrittenInv, Stored
<1>5. MarkInv'
  BY DEF MarkInv
<1>6. DoneInv'
  BY DEF DoneInv
<1>7. SignalInv'
  BY DEF SignalInv, NoMissedSignal
<1> QED BY <1>1, <1>2, <1>3, <1>4, <1>5, <1>6, <1>7

LEMMA FlushCallStep ==
    ASSUME IInv, TypeOK', NEW f \in Flushers, FlushCall(f)
    PROVE  IInv'
<1> USE ThreadFacts, SizeAssumption
        DEF IInv, TypeOK, Goto, CanRun, ring, request, batch, store, FlushCall
<1>1. Places'
  BY NotifyOneFacts DEF Places
<1>2. RingInv'
  BY NotifyOneFacts DEF RingInv, NoOverwrite
<1>3. BatchInv'
  BY NotifyOneFacts DEF BatchInv
<1>4. WrittenInv'
  BY NotifyOneFacts DEF WrittenInv, Stored
<1>5. MarkInv'
  BY NotifyOneFacts DEF MarkInv
<1>6. DoneInv'
  BY NotifyOneFacts DEF DoneInv
<1>7. SignalInv'
  <2>1. PICK W \in AfterNotifyOne : waiting' = W \cup {f}
    BY DEF FlushCall
  <2>2. W \subseteq waiting /\ Worker \notin W
    BY <2>1, NotifyOneFacts DEF SignalInv, NoMissedSignal
  <2> QED BY <2>1, <2>2 DEF SignalInv, NoMissedSignal
<1> QED BY <1>1, <1>2, <1>3, <1>4, <1>5, <1>6, <1>7

LEMMA FlushWakeStep ==
    ASSUME IInv, TypeOK', NEW f \in Flushers, FlushWake(f)
    PROVE  IInv'
<1> USE ThreadFacts, SizeAssumption
        DEF IInv, TypeOK, Goto, CanRun, ring, request, batch, store, FlushWake, KeepWaiting
<1>1. Places'
  BY DEF Places
<1>2. RingInv'
  BY DEF RingInv, NoOverwrite
<1>3. BatchInv'
  BY DEF BatchInv
<1>4. WrittenInv'
  BY DEF WrittenInv, Stored
<1>5. MarkInv'
  BY DEF MarkInv
<1>6. DoneInv'
  BY DEF DoneInv
<1>7. SignalInv'
  BY DEF SignalInv, NoMissedSignal
<1> QED BY <1>1, <1>2, <1>3, <1>4, <1>5, <1>6, <1>7

LEMMA FlushCopyStep ==
    ASSUME IInv, TypeOK', NEW f \in Flushers \cup {Finalizer}, FlushCopy(f)
    PROVE  IInv'
<1> USE ThreadFacts, SizeAssumption
        DEF IInv, TypeOK, Goto, CanRun, ring, request, batch, store, FlushCopy
<1>1. Places'
  BY DEF Places
<1>2. RingInv'
  BY DEF RingInv, NoOverwrite
<1>3. BatchInv'
  BY DEF BatchInv
<1>4. WrittenInv'
  BY DEF WrittenInv, Stored
<1>5. MarkInv'
  BY DEF MarkInv
<1>6. DoneInv'
  BY DEF DoneInv
<1>7. SignalInv'
  BY DEF SignalInv, NoMissedSignal
<1> QED BY <1>1, <1>2, <1>3, <1>4, <1>5, <1>6, <1>7

LEMMA FlushDeleteStep ==
    ASSUME IInv, TypeOK', NEW f \in Flushers \cup {Finalizer}, FlushDelete(f)
    PROVE  IInv'
<1> USE ThreadFacts, SizeAssumption
        DEF IInv, TypeOK, Goto, CanRun, ring, request, batch, store, FlushDelete
<1>1. Places'
  BY DEF Places
<1>2. RingInv'
  BY DEF RingInv, NoOverwrite
<1>3. BatchInv'
  BY DEF BatchInv
<1>4. WrittenInv'
  BY DEF WrittenInv, Stored
<1>5. MarkInv'
  BY DEF MarkInv
<1>6. DoneInv'
  BY DEF DoneInv
<1>7. SignalInv'
  BY DEF SignalInv, NoMissedSignal
<1> QED BY <1>1, <1>2, <1>3, <1>4, <1>5, <1>6, <1>7

LEMMA FinalizeCallStep ==
    ASSUME IInv, TypeOK', FinalizeCall
    PROVE  IInv'
<1> USE ThreadFacts, SizeAssumption
        DEF IInv, TypeOK, Goto, CanRun, ring, request, batch, store, FinalizeCall
<1>1. Places'
  BY NotifyOneFacts DEF Places
<1>2. RingInv'
  BY NotifyOneFacts DEF RingInv, NoOverwrite
<1>3. BatchInv'
  BY NotifyOneFacts DEF BatchInv
<1>4. WrittenInv'
  BY NotifyOneFacts DEF WrittenInv, Stored
<1>5. MarkInv'
  BY NotifyOneFacts DEF MarkInv
<1>6. DoneInv'
  BY NotifyOneFacts DEF DoneInv
<1>7. SignalInv'
  <2>1. waiting' \subseteq waiting /\ Worker \notin waiting'
    BY NotifyOneFacts DEF SignalInv, NoMissedSignal
  <2> QED BY <2>1 DEF SignalInv, NoMissedSignal
<1> QED BY <1>1, <1>2, <1>3, <1>4, <1>5, <1>6, <1>7

LEMMA FinalizeJoinStep ==
    ASSUME IInv, TypeOK', FinalizeJoin
    PROVE  IInv'
<1> USE ThreadFacts, SizeAssumption
        DEF IInv, TypeOK, Goto, CanRun, ring, request, batch, store, FinalizeJoin
<1>1. Places'
  BY DEF Places
<1>2. RingInv'
  BY DEF RingInv, NoOverwrite
<1>3. BatchInv'
  BY DEF BatchInv
<1>4. WrittenInv'
  BY DEF WrittenInv, Stored
<1>5. MarkInv'
  BY DEF MarkInv
<1>6. DoneInv'
  BY DEF DoneInv
<1>7. SignalInv'
  BY DEF SignalInv, NoMissedSignal
<1> QED BY <1>1, <1>2, <1>3, <1>4, <1>5, <1>6, <1>7

LEMMA SpuriousStep ==
    ASSUME IInv, TypeOK', NEW t \in Threads, SpuriousWakeup(t)
    PROVE  IInv'
<1> USE ThreadFacts, SizeAssumption
        DEF IInv, TypeOK, Goto, CanRun, ring, request, batch, store, SpuriousWakeup
<1>1. Places'
  BY DEF Places
<1>2. RingInv'
  BY DEF RingInv, NoOverwrite
<1>3. BatchInv'
  BY DEF BatchInv
<1>4. WrittenInv'
  BY DEF WrittenInv, Stored
<1>5. MarkInv'
  BY DEF MarkInv
<1>6. DoneInv'
  BY DEF DoneInv
<1>7. SignalInv'
  BY DEF SignalInv, NoMissedSignal
<1> QED BY <1>1, <1>2, <1>3, <1>4, <1>5, <1>6, <1>7

LEMMA WorkerStepStep ==
    ASSUME IInv, TypeOK', WorkerStep
    PROVE  IInv'
<1> USE ThreadFacts, SizeAssumption, WorkerStepCases DEF IInv, TypeOK
<1>1. Places'
  <2>1. pc'[Worker] \in {"take", "parked", "exited"}
    BY DEF WorkerOutcome
  <2> QED BY <2>1 DEF Places
<1>2. RingInv'
  BY DEF RingInv, NoOverwrite, Slot
<1>3. BatchInv'
  BY DEF BatchInv, WorkerOutcome
<1>4. WrittenInv'
  BY DEF WrittenInv, Stored, WorkerOutcome
<1>5. MarkInv'
  <2> SUFFICES ASSUME NEW f \in Flushers
               PROVE  \/ mark[f] <= tail
                      \/ pc'[f] = "waitflush" /\ flushRequested' /\ mark[f] <= flushTarget
    BY DEF MarkInv
  <2>1. mark[f] \in Nat /\ pc'[f] = pc[f]
    OBVIOUS
  <2>2. flushRequested' = flushRequested \/ (flushRequested => tail >= flushTarget)
    BY DEF WorkerOutcome
  <2> QED BY <2>1, <2>2 DEF MarkInv
<1>6. DoneInv'
  BY DEF DoneInv, WorkerOutcome
<1>7. SignalInv'
  BY DEF SignalInv, NoMissedSignal, WorkerOutcome
<1> QED BY <1>1, <1>2, <1>3, <1>4, <1>5, <1>6, <1>7

LEMMA InvStep == ASSUME IInv, [Next]_vars PROVE IInv'
<1>1. TypeOK'
  BY TypeStep DEF IInv
<1>2. CASE UNCHANGED vars
  BY <1>1, <1>2
  DEF vars, ring, request, batch, store, IInv, Places, RingInv, NoOverwrite,
      Slot, BatchInv, WrittenInv, Stored, MarkInv, DoneInv, SignalInv, NoMissedSignal
<1>3. CASE Next
  <2>1. ASSUME NEW p \in Inserters, InsertStep(p) PROVE IInv'
    BY <1>1, <2>1, InsertWaitStep, InsertRowStep DEF InsertStep
  <2>2. ASSUME WorkerThread PROVE IInv'
    BY <1>1, <2>2, WorkerStepStep, TakeBatchStep, WriteRowStep, CommitBatchStep,
       NotifyAllStep DEF WorkerThread
  <2>3. ASSUME NEW f \in Flushers, FlushStep(f) PROVE IInv'
    BY <1>1, <2>3, FlushCallStep, FlushWakeStep, FlushCopyStep, FlushDeleteStep
    DEF FlushStep
  <2>4. ASSUME FinalizeStep PROVE IInv'
    BY <1>1, <2>4, FinalizeCallStep, FinalizeJoinStep, FlushCopyStep,
       FlushDeleteStep DEF FinalizeStep
  <2>5. ASSUME NEW t \in Threads, SpuriousWakeup(t) PROVE IInv'
    BY <1>1, <2>5, SpuriousStep
  <2> QED BY <1>3, <2>1, <2>2, <2>3, <2>4, <2>5 DEF Next
<1> QED BY <1>2, <1>3

LEMMA Invariance == Spec => []IInv
<1>1. IInv /\ [Next]_vars => IInv'
  BY InvStep
<1> QED BY InvInit, <1>1, PTL DEF Spec

-----------------------------------------------------------------------------
(* The results *)

\* Every variable stays in its type, whatever the sizes and the threads: in
\* particular writeBatch never stores a slot that insert() has not filled.
THEOREM TypeCorrect == Spec => []TypeOK
<1>1. IInv => TypeOK
  BY DEF IInv
<1> QED BY Invariance, <1>1, PTL

\* An unwritten row is never overwritten and the ring never holds more than
\* BUFFERSIZE rows (the full test of insert() against the late m_tail = end
\* of writeRows()).
THEOREM RingSafe == Spec => []NoOverwrite
<1>1. IInv => NoOverwrite
  BY DEF IInv, RingInv
<1> QED BY Invariance, <1>1, PTL

\* The worker sleeps only when it is alone on m_wait with nothing requested,
\* so the notify_one of insert(), flush() and finalize() cannot be lost.
THEOREM SignalSafe == Spec => []NoMissedSignal
<1>1. IInv => NoMissedSignal
  BY DEF IInv, SignalInv
<1> QED BY Invariance, <1>1, PTL

LEMMA StoredCoversTail == ASSUME IInv PROVE tail <= Len(written) /\ Len(written) \in Nat
  BY LenProperties DEF IInv, TypeOK, WrittenInv, Stored, BatchInv

\* With directWrite, a flush() that returned made every row inserted before
\* the call visible in the main table.
THEOREM FlushVisibleDirect == ASSUME DirectWrite PROVE Spec => []FlushVisible
<1>1. ASSUME IInv PROVE FlushVisible
  <2> SUFFICES ASSUME NEW f \in Flushers, pc[f] = "idle", NEW i \in 1 .. mark[f]
               PROVE  i \in main
    BY DEF FlushVisible
  <2>1. mark[f] \in Nat /\ mark[f] <= tail /\ tail \in Nat
    BY <1>1 DEF IInv, MarkInv, TypeOK
  <2>2. i \in 1 .. Len(written)
    BY <1>1, <2>1, StoredCoversTail
  <2> QED BY <1>1, <2>2, DirectWrite DEF IInv, WrittenInv
<1>2. IInv => FlushVisible
  BY <1>1
<1> QED BY Invariance, <1>2, PTL

\* With directWrite, a finalize() that returned left every row inserted
\* before the call in the main table.
THEOREM FinalizeCompleteDirect ==
    ASSUME DirectWrite PROVE Spec => []FinalizeComplete
<1>1. ASSUME IInv PROVE FinalizeComplete
  <2> SUFFICES ASSUME pc[Finalizer] = "finalized", NEW i \in 1 .. mark[Finalizer]
               PROVE  i \in main
    BY DEF FinalizeComplete
  <2>1. mark[Finalizer] \in Nat /\ mark[Finalizer] <= tail /\ tail \in Nat
    BY <1>1 DEF IInv, DoneInv, TypeOK
  <2>2. i \in 1 .. Len(written)
    BY <1>1, <2>1, StoredCoversTail
  <2> QED BY <1>1, <2>2, DirectWrite DEF IInv, WrittenInv
<1>2. IInv => FinalizeComplete
  BY <1>1
<1> QED BY Invariance, <1>2, PTL

-----------------------------------------------------------------------------
(* The temporary table, when nobody inserts while a flush is under way *)

AllCallers == Flushers \cup {Finalizer}

\* A flush keeps inserters away, so that its mark stays the last row.
QuietInv ==
    \A f \in Flushers : pc[f] # "idle" =>
        /\ mark[f] = head
        /\ \A p \in Inserters : pc[p] = "idle"

\* Each row that was written is in one of the two tables, and in both only between
\* the copy and the delete of somebody, while nothing more is written.
CacheInv ==
    /\ cache \cup main = 1 .. Len(written)
    /\ cache \cap main = {} \/ \E c \in AllCallers : pc[c] = "delete"
    /\ \A c \in AllCallers : pc[c] = "delete" => cache \subseteq main

\* Who has copied has its rows in the main table; finalize() copies when the
\* worker has exited.
CopiedInv ==
    /\ \A f \in Flushers : pc[f] \in {"idle", "delete"} => 1 .. mark[f] \subseteq main
    /\ pc[Finalizer] \in {"delete", "finalized"} => 1 .. mark[Finalizer] \subseteq main
    /\ pc[Finalizer] \in {"copy", "delete", "finalized"} => pc[Worker] = "exited"

TempInv == QuietInv /\ CacheInv /\ CopiedInv

Quiet == QuietFlush /\ ~DirectWrite

LEMMA TempInit == Init => TempInv
<1> SUFFICES ASSUME Init PROVE TempInv
  OBVIOUS
<1>1. QuietInv /\ CopiedInv
  BY ThreadFacts DEF Init, QuietInv, CopiedInv
<1>2. CacheInv
  BY ThreadFacts DEF Init, CacheInv, AllCallers
<1> QED
  BY <1>1, <1>2 DEF TempInv

\* While somebody is between copy and delete, the worker is not writing.
LEMMA NothingWritten ==
    ASSUME IInv, TempInv, NEW c \in AllCallers, pc[c] \in {"copy", "delete"}
    PROVE  pc[Worker] \notin {"take", "write", "commit"}
<1>1. CASE c = Finalizer
  BY <1>1 DEF TempInv, CopiedInv
<1>2. CASE c \in Flushers
  <2>1. mark[c] <= tail /\ mark[c] = head
    BY <1>2, ThreadFacts DEF IInv, MarkInv, TempInv, QuietInv
  <2> QED
    BY <2>1 DEF IInv, BatchInv, TypeOK
<1> QED
  BY <1>1, <1>2 DEF AllCallers

LEMMA TempInsert ==
    ASSUME Quiet, IInv, TempInv, NEW p \in Inserters, InsertStep(p)
    PROVE  TempInv'
<1> USE ThreadFacts DEF IInv, TypeOK, Goto, request, batch, store
<1>1. /\ \A t \in Threads \ {p} : pc'[t] = pc[t]
      /\ UNCHANGED <<cache, main, written, mark>>
  BY DEF InsertStep, InsertWait, InsertRow
<1>2. \A f \in Flushers : pc[f] = "idle"
  BY DEF InsertStep, InsertWait, InsertRow, Wants, TempInv, QuietInv, Quiet
<1>3. QuietInv'
  BY <1>1, <1>2 DEF QuietInv
<1>4. CacheInv'
  BY <1>1 DEF TempInv, CacheInv, AllCallers
<1>5. CopiedInv'
  BY <1>1 DEF TempInv, CopiedInv
<1> QED
  BY <1>3, <1>4, <1>5 DEF TempInv

LEMMA TempWrite ==
    ASSUME Quiet, IInv, TempInv, WriteRow
    PROVE  TempInv'
<1> USE ThreadFacts DEF IInv, TypeOK, Goto
<1>1. cursor \in tail + 1 .. head /\ cursor = Len(written) + 1
  BY DEF WriteRow, BatchInv, WrittenInv, Stored
<1>2. rows[Slot(cursor)] = cursor
  BY <1>1 DEF RingInv, NoOverwrite
<1>3. written' = Append(written, cursor) /\ cache' = cache \cup {cursor} /\ main' = main
  BY <1>2 DEF WriteRow, Quiet
<1>4. Len(written') = cursor /\ cursor \in Nat
  BY <1>1, <1>3, AppendProperties
<1>5. UNCHANGED <<head, mark>> /\ \A t \in Threads \ {Worker} : pc'[t] = pc[t]
  BY DEF WriteRow, ring
<1>6. pc'[Worker] # "exited" /\ pc[Worker] = "write"
  BY DEF WriteRow
<1>7. \A c \in AllCallers : pc[c] # "delete" /\ pc'[c] = pc[c]
  BY <1>5, <1>6, NothingWritten DEF AllCallers
<1>8. QuietInv'
  BY <1>5 DEF TempInv, QuietInv
<1>9. CacheInv'
  <2>1. cache \cup main = 1 .. Len(written) /\ cache \cap main = {}
    BY <1>7 DEF TempInv, CacheInv
  <2>2. cursor \notin main /\ 1 .. cursor = (1 .. Len(written)) \cup {cursor}
    BY <1>1, <2>1, LenProperties
  <2> QED
    BY <1>3, <1>4, <1>7, <2>1, <2>2 DEF CacheInv
<1>10. CopiedInv'
  BY <1>3, <1>5, <1>6 DEF TempInv, CopiedInv
<1> QED
  BY <1>8, <1>9, <1>10 DEF TempInv

\* The worker's other steps leave the tables alone, and it never comes back.
LEMMA TempWorker ==
    ASSUME IInv, TempInv, WorkerStep \/ TakeBatch \/ CommitBatch \/ NotifyAll
    PROVE  TempInv'
<1> USE ThreadFacts DEF IInv, TypeOK, Goto
<1>1. /\ \A t \in Threads \ {Worker} : pc'[t] = pc[t]
      /\ UNCHANGED <<head, cache, main, written, mark>>
      /\ pc[Worker] # "exited"
  <2>1. CASE WorkerStep
    <3>1. pc[Worker] # "exited"
      BY <2>1 DEF WorkerStep
    <3> QED
      BY <2>1, <3>1, WorkerStepCases DEF WorkerOutcome, ring, store
  <2>2. CASE TakeBatch \/ CommitBatch \/ NotifyAll
    BY <2>2 DEF TakeBatch, CommitBatch, NotifyAll, ring, store
  <2> QED
    BY <2>1, <2>2
<1>2. QuietInv'
  BY <1>1 DEF TempInv, QuietInv
<1>3. CacheInv'
  BY <1>1 DEF TempInv, CacheInv, AllCallers
<1>4. CopiedInv'
  BY <1>1 DEF TempInv, CopiedInv
<1> QED
  BY <1>2, <1>3, <1>4 DEF TempInv

\* Everything that c waited for is in one of the tables when it copies.
LEMMA TempCopy ==
    ASSUME IInv, TempInv, NEW c \in AllCallers, FlushCopy(c)
    PROVE  TempInv'
<1> USE ThreadFacts DEF IInv, TypeOK, Goto
<1>1. /\ c \in Threads /\ pc[c] = "copy" /\ pc'[c] = "delete"
      /\ \A t \in Threads \ {c} : pc'[t] = pc[t]
      /\ UNCHANGED <<head, cache, written, mark>> /\ main' = main \cup cache
  <2>1. cache \cap main = {} \/ cache \subseteq main
    BY DEF TempInv, CacheInv
  <2> QED
    BY <2>1 DEF FlushCopy, AllCallers, ring
<1>2. QuietInv'
  BY <1>1 DEF TempInv, QuietInv, AllCallers
<1>3. CacheInv'
  BY <1>1 DEF TempInv, CacheInv
<1>4. mark[c] \in Nat /\ mark[c] <= Len(written) /\ Len(written) \in Nat
  BY <1>1, StoredCoversTail DEF MarkInv, DoneInv, AllCallers
<1>5. 1 .. mark[c] \subseteq main'
  BY <1>1, <1>4 DEF TempInv, CacheInv
<1>6. CopiedInv'
  BY <1>1, <1>5 DEF TempInv, CopiedInv, AllCallers
<1> QED
  BY <1>2, <1>3, <1>6 DEF TempInv

LEMMA TempDelete ==
    ASSUME IInv, TempInv, NEW c \in AllCallers, FlushDelete(c)
    PROVE  TempInv'
<1> USE ThreadFacts DEF IInv, TypeOK, Goto
<1>1. /\ c \in Threads /\ pc[c] = "delete" /\ pc'[c] = IF c = Finalizer THEN "finalized" ELSE "idle"
      /\ \A t \in Threads \ {c} : pc'[t] = pc[t]
      /\ UNCHANGED <<head, main, written, mark>> /\ cache' = {}
  BY DEF FlushDelete, AllCallers, ring
<1>2. QuietInv'
  BY <1>1 DEF TempInv, QuietInv
<1>3. CacheInv'
  BY <1>1 DEF TempInv, CacheInv
<1>4. CopiedInv'
  BY <1>1 DEF TempInv, CopiedInv, AllCallers
<1> QED
  BY <1>2, <1>3, <1>4 DEF TempInv

\* The calls and waits of flush() and finalize(), and a spurious wakeup.
LEMMA TempOther ==
    ASSUME Quiet, IInv, TempInv,
           \/ \E f \in Flushers : FlushCall(f) \/ FlushWake(f)
           \/ FinalizeCall \/ FinalizeJoin
           \/ \E t \in Threads : SpuriousWakeup(t)
           \/ UNCHANGED vars
    PROVE  TempInv'
<1> USE ThreadFacts DEF IInv, TypeOK, Goto, ring, store
<1>1. UNCHANGED <<head, cache, main, written>>
  BY DEF FlushCall, FlushWake, FinalizeCall, FinalizeJoin, SpuriousWakeup, vars
<1>2. /\ pc'[Worker] = pc[Worker] /\ \A p \in Inserters : pc'[p] = pc[p]
      /\ \A c \in AllCallers : pc[c] = "delete" <=> pc'[c] = "delete"
      /\ pc'[Finalizer] \in {"delete", "finalized"} <=> pc[Finalizer] \in {"delete", "finalized"}
  BY DEF FlushCall, FlushWake, FinalizeCall, FinalizeJoin, SpuriousWakeup, vars, AllCallers
<1>3. \A f \in Flushers :
          \/ mark'[f] = mark[f] /\ pc'[f] = pc[f]
          \/ mark'[f] = mark[f] /\ pc[f] = "waitflush" /\ pc'[f] = "copy"
          \/ pc'[f] = "waitflush" /\ mark'[f] = head /\ \A p \in Inserters : pc[p] = "idle"
  BY DEF FlushCall, FlushWake, FinalizeCall, FinalizeJoin, SpuriousWakeup, vars, Quiet
<1>4. \/ mark'[Finalizer] = mark[Finalizer] /\ pc'[Finalizer] = pc[Finalizer]
      \/ pc'[Finalizer] = "joining"
      \/ pc'[Finalizer] = "copy" /\ pc[Worker] = "exited"
  BY DEF FlushCall, FlushWake, FinalizeCall, FinalizeJoin, SpuriousWakeup, vars
<1>5. QuietInv'
  BY <1>1, <1>2, <1>3 DEF TempInv, QuietInv
<1>6. CacheInv'
  BY <1>1, <1>2 DEF TempInv, CacheInv
<1>7. CopiedInv'
  BY <1>1, <1>2, <1>3, <1>4 DEF TempInv, CopiedInv
<1> QED
  BY <1>5, <1>6, <1>7 DEF TempInv

LEMMA TempStep == ASSUME Quiet, IInv, TempInv, [Next]_vars PROVE TempInv'
  BY TempInsert, TempWrite, TempWorker, TempCopy, TempDelete, TempOther
  DEF Next, WorkerThread, FlushStep, FinalizeStep, AllCallers

\* Through the temporary table, too, a flush() that returned made every row
\* inserted before the call visible, if nobody inserts while it is under way.
THEOREM FlushVisibleQuiet == Quiet => (Spec => []FlushVisible)
<1> SUFFICES ASSUME Quiet PROVE Spec => []FlushVisible
  OBVIOUS
<1>1. IInv /\ TempInv /\ [Next]_vars => TempInv'
  BY TempStep
<1>2. TempInv => FlushVisible
  BY DEF TempInv, CopiedInv, FlushVisible
<1> QED
  BY Invariance, TempInit, <1>1, <1>2, PTL DEF Spec

\* And so did a finalize() that returned.
THEOREM FinalizeCompleteQuiet == Quiet => (Spec => []FinalizeComplete)
<1> SUFFICES ASSUME Quiet PROVE Spec => []FinalizeComplete
  OBVIOUS
<1>1. IInv /\ TempInv /\ [Next]_vars => TempInv'
  BY TempStep
<1>2. TempInv => FinalizeComplete
  BY DEF TempInv, CopiedInv, FinalizeComplete
<1> QED
  BY Invariance, TempInit, <1>1, <1>2, PTL DEF Spec

-----------------------------------------------------------------------------
(* Refinement of TableLog *)

Callers == Flushers \cup {Finalizer}

LEMMA LogInit == Init => Log!Init
  BY ThreadFacts DEF Init, Log!Init

LEMMA LogStep == ASSUME IInv, [Next]_vars PROVE [Log!Next]_Log!vars
<1> USE ThreadFacts DEF IInv, TypeOK, Goto, ring, request, batch, store
<1>1. ASSUME NEW p \in Inserters, InsertWait(p) PROVE UNCHANGED Log!vars
  BY <1>1 DEF InsertWait, Log!vars
<1>2. ASSUME NEW p \in Inserters, InsertRow(p) PROVE Log!Accept
  BY <1>2 DEF InsertRow, Log!Accept
<1>3. ASSUME WorkerStep PROVE UNCHANGED Log!vars
  BY <1>3, WorkerStepCases DEF Log!vars
<1>4. ASSUME TakeBatch \/ CommitBatch \/ NotifyAll PROVE UNCHANGED Log!vars
  BY <1>4 DEF TakeBatch, CommitBatch, NotifyAll, Log!vars
<1>5. ASSUME WriteRow PROVE Log!Store
  <2>1. cursor \in tail + 1 .. head /\ cursor = Len(written) + 1
    BY <1>5 DEF WriteRow, BatchInv, WrittenInv, Stored
  <2>2. rows[Slot(cursor)] = cursor
    BY <2>1 DEF RingInv, NoOverwrite
  <2>3. Len(written) < head
    BY <2>1, LenProperties
  <2> QED BY <1>5, <2>1, <2>2, <2>3 DEF WriteRow, Log!Store
<1>6. ASSUME NEW f \in Flushers, FlushCall(f) PROVE Log!Call(f)
  BY <1>6 DEF FlushCall, Log!Call
<1>7. ASSUME NEW f \in Flushers, FlushWake(f)
      PROVE  Log!Publish(f) \/ UNCHANGED Log!vars
  <2>1. CASE flushRequested
    BY <1>7, <2>1 DEF FlushWake, KeepWaiting, Log!vars
  <2>2. CASE ~flushRequested
    <3>1. mark[f] <= Len(written)
      BY <2>2, StoredCoversTail DEF MarkInv
    <3> QED BY <1>7, <2>2, <3>1 DEF FlushWake, KeepWaiting, Log!Publish
  <2> QED BY <2>1, <2>2
<1>8. ASSUME NEW c \in Callers, FlushCopy(c) \/ FlushDelete(c)
      PROVE  UNCHANGED Log!vars
  BY <1>8 DEF FlushCopy, FlushDelete, Log!vars, Callers
<1>9. ASSUME FinalizeCall PROVE Log!Call(Finalizer)
  BY <1>9 DEF FinalizeCall, Log!Call
<1>10. ASSUME FinalizeJoin PROVE Log!Publish(Finalizer)
  <2>1. mark[Finalizer] <= Len(written)
    BY <1>10, StoredCoversTail DEF FinalizeJoin, DoneInv
  <2> QED BY <1>10, <2>1 DEF FinalizeJoin, Log!Publish
<1>11. ASSUME NEW t \in Threads, SpuriousWakeup(t) PROVE UNCHANGED Log!vars
  BY <1>11 DEF SpuriousWakeup, Log!vars
<1>12. CASE UNCHANGED vars
  BY <1>12 DEF vars, Log!vars
<1> QED
  BY <1>1, <1>2, <1>3, <1>4, <1>5, <1>6, <1>7, <1>8, <1>9, <1>10, <1>11, <1>12
  DEF Next, InsertStep, WorkerThread, FlushStep, FinalizeStep, Log!Next, Callers

\* Every behaviour of the table is one of the abstract log: rows are stored
\* once, in order, and callers wait for what they asked for.
THEOREM ImplementsTableLog == Spec => ImplementsLog
<1>1. IInv /\ [Next]_vars => [Log!Next]_Log!vars
  BY LogStep
<1> QED BY LogInit, Invariance, <1>1, PTL DEF Spec, ImplementsLog, Log!Spec
=============================================================================
