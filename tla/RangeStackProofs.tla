--------------------------- MODULE RangeStackProofs ---------------------------
(***************************************************************************)
(* Proofs about the ranges of roctx, nvtx and rlog, for every number of    *)
(* threads, depth of a stack, number of sessions and of storages.          *)
(***************************************************************************)
EXTENDS RlogDataSource, TLAPS

-----------------------------------------------------------------------------
(* The drain and the threads that end *)

Places == {"idle", "push", "pushrow", "pop", "mark", "insert"}

\* A thread in a call lives, and so do the threads whose stacks are registered.
LivingInv ==
    /\ pc \in [Threads -> Places]
    /\ \A t \in Threads : pc[t] # "idle" => t \in alive
    /\ registered \subseteq alive
    /\ DrainVisitsLiving

\* The steps that register no stack, end no thread and begin no drain.
LEMMA LivingKept ==
    ASSUME LivingInv, UNCHANGED alive, pc' \in [Threads -> Places],
           \A t \in Threads : pc'[t] = "idle" \/ pc[t] # "idle" \/ t \in alive,
           registered' \subseteq alive, todo' \subseteq todo, ctl' = "drain" => ctl = "drain"
    PROVE  LivingInv'
  BY DEF LivingInv, DrainVisitsLiving

LEMMA LivingStep == ASSUME LivingInv, [Next \/ NextRlog]_vars PROVE LivingInv'
<1> USE DEF LivingInv, Places
<1>1. ASSUME NEW t \in Threads,
             \/ CallPush(t) \/ CallPop(t) \/ CallMark(t)
             \/ \E place \in {"push", "pop", "mark"} : CallRlog(t, place)
      PROVE  LivingInv'
  <2>1. PICK place \in {"push", "pop", "mark"} : Call(t, place)
    BY <1>1 DEF CallPush, CallPop, CallMark, CallRlog
  <2> QED
    BY <2>1, LivingKept DEF Call, Goto, source, control
<1>2. ASSUME NEW t \in Threads, MakeRange(t) \/ rangePush(t) PROVE LivingInv'
  <2>1. t \in alive
    BY <1>2 DEF MakeRange, rangePush
  <2>2. /\ UNCHANGED <<alive, ctl, todo>> /\ registered' = registered \cup {t}
        /\ pc' = [pc EXCEPT ![t] = "pushrow"]
    BY <1>2 DEF MakeRange, rangePush, Goto, control
  <2> QED
    BY <2>1, <2>2, LivingKept
<1>3. ASSUME NEW t \in Threads,
             \/ PushRow(t) \/ TakeRange(t) \/ MakeMark(t) \/ InsertRow(t)
             \/ rangePop(t) \/ mark(t)
      PROVE  LivingInv'
  <2>1. /\ UNCHANGED <<alive, ctl, todo, registered>> /\ pc[t] # "idle"
        /\ \E place \in {"idle", "insert"} : pc' = [pc EXCEPT ![t] = place]
    BY <1>3 DEF PushRow, TakeRange, MakeMark, InsertRow, rangePop, mark, Goto, control
  <2> QED
    BY <2>1, LivingKept
<1>4. ASSUME NEW t \in Threads, Exit(t) PROVE LivingInv'
  BY <1>4 DEF Exit, StacksFree, RegisteredAfterExit, DrainVisitsLiving, call, control
<1>5. CASE \/ StartTracing \/ StopTracing \/ Finalize \/ SwapStorage \/ ResetSource
           \/ startTracing \/ stopTracing \/ end \/ reset
  <2>1. UNCHANGED <<alive, registered, pc, todo>> /\ (ctl' = "drain" => ctl = "drain")
    BY <1>5 DEF StartTracing, StopTracing, Finalize, SwapStorage, ResetSource,
                startTracing, stopTracing, end, reset, call, control
  <2> QED
    BY <2>1, LivingKept
<1>6. CASE DrainBegin
  BY <1>6 DEF DrainBegin, StacksToDrain, DrainVisitsLiving, call
<1>7. CASE DrainEnd \/ \E t \in Threads : DrainRow(t) \/ DrainNext(t)
  <2>1. /\ UNCHANGED <<alive, registered, pc>> /\ todo' \subseteq todo
        /\ ctl' = "drain" => ctl = "drain"
    BY <1>7 DEF DrainEnd, DrainRow, DrainNext, call, control
  <2> QED
    BY <2>1, LivingKept
<1>8. CASE UNCHANGED vars
  BY <1>8, LivingKept DEF vars, call, control
<1> QED
  BY <1>1, <1>2, <1>3, <1>4, <1>5, <1>6, <1>7, <1>8
     DEF Next, NextRlog, CallStep, DrainStep

\* A drain never visits the stack of a thread that has ended, with roctx and nvtx.
THEOREM DrainsVisitLiving == Spec => []DrainVisitsLiving
<1>1. Init => LivingInv
  BY DEF Init, LivingInv, DrainVisitsLiving, Places
<1>2. LivingInv /\ [Next]_vars => LivingInv'
  BY LivingStep
<1>3. LivingInv => DrainVisitsLiving
  BY DEF LivingInv
<1> QED
  BY <1>1, <1>2, <1>3, PTL DEF Spec

\* The same with rlog.
THEOREM RlogDrainsVisitLiving == SpecRlog => []DrainVisitsLiving
<1>1. Init => LivingInv
  BY DEF Init, LivingInv, DrainVisitsLiving, Places
<1>2. LivingInv /\ [NextRlog]_vars => LivingInv'
  BY LivingStep
<1>3. LivingInv => DrainVisitsLiving
  BY DEF LivingInv
<1> QED
  BY <1>1, <1>2, <1>3, PTL DEF SpecRlog

-----------------------------------------------------------------------------
(* A range is recorded once *)

\* The names given to ranges so far.
Past == Threads \X (0 .. clock - 1)
Row  == [range : {Unnamed} \cup (Threads \X Nat), start : Nat, end : Nat,
         ids : Nat, arg : Nat]
Types ==
    /\ stack \in [Threads -> Seq(Row)] /\ mine \in [Threads -> Row]
    /\ pc \in [Threads -> Places]
    /\ clock \in Nat /\ now \in Nat /\ resumeTime \in Nat
    /\ idsOf \in Nat /\ storage \in Nat

\* A stack has ranges of its own thread, each once.
StackInv ==
    \A t \in Threads : \A i \in DOMAIN stack[t] :
        /\ stack[t][i].range \in Past /\ stack[t][i].range[1] = t
        /\ \A j \in DOMAIN stack[t] : stack[t][j].range = stack[t][i].range => i = j

\* A row in a thread's hands is not on its stack.
MineInv ==
    \A t \in Threads :
        /\ pc[t] = "pushrow" => mine[t].range # Unnamed
        /\ mine[t].range # Unnamed =>
             /\ mine[t].range \in Past /\ mine[t].range[1] = t
             /\ \A i \in DOMAIN stack[t] : stack[t][i].range # mine[t].range

\* What is recorded is neither on a stack nor in a thread's hands.
RowsInv ==
    \A r \in rows : r.row.range # Unnamed =>
        /\ r.row.range \in Past
        /\ \A t \in Threads :
             /\ mine[t].range # r.row.range
             /\ \A i \in DOMAIN stack[t] : stack[t][i].range # r.row.range

IInv == Types /\ StackInv /\ MineInv /\ RowsInv /\ RecordedOnce

LEMMA OnTop ==
    ASSUME NEW S, NEW s \in Seq(S), NEW x \in S
    PROVE  /\ <<x>> \o s \in Seq(S) /\ DOMAIN (<<x>> \o s) = 1 .. Len(s) + 1
           /\ (<<x>> \o s)[1] = x
           /\ \A i \in 1 .. Len(s) : (<<x>> \o s)[i + 1] = s[i]
  OBVIOUS

LEMMA BelowTop ==
    ASSUME NEW S, NEW s \in Seq(S), s # <<>>
    PROVE  /\ Tail(s) \in Seq(S) /\ DOMAIN Tail(s) = 1 .. Len(s) - 1 /\ Len(s) \in Nat \ {0}
           /\ \A i \in 1 .. Len(s) - 1 : Tail(s)[i] = s[i + 1]
           /\ Head(s) = s[1] /\ Head(s) \in S /\ DOMAIN s = 1 .. Len(s)
  OBVIOUS

\* A row with another end is the row of the same range.
LEMMA Closed ==
    ASSUME NEW row \in Row, NEW time \in Nat
    PROVE  [row EXCEPT !.end = time] \in Row /\ [row EXCEPT !.end = time].range = row.range
  BY DEF Row

\* Time passes.
LEMMA PastGrows ==
    ASSUME clock \in Nat, clock' \in Nat, clock <= clock'
    PROVE  /\ Past \subseteq Past'
           /\ \A t \in Threads : Range(t) \notin Past /\ Range(t) # Unnamed
           /\ clock < clock' => \A t \in Threads : Range(t) \in Past' /\ Range(t)[1] = t
  BY DEF Past, Range, Unnamed

LEMMA InitOnce == Init => IInv
<1> SUFFICES ASSUME Init PROVE IInv
  OBVIOUS
<1>1. NoRow \in Row
  BY DEF NoRow, Row, Unnamed
<1>2. Types
  BY <1>1 DEF Init, Types, Places
<1>3. \A t \in Threads : mine[t].range = Unnamed /\ DOMAIN stack[t] = {} /\ pc[t] = "idle"
  BY DEF Init, NoRow
<1> QED
  BY <1>2, <1>3 DEF Init, IInv, StackInv, MineInv, RowsInv, RecordedOnce

\* No range changes its place.
LEMMA OnceKept ==
    ASSUME IInv, UNCHANGED <<stack, mine, rows>>, Types', clock <= clock',
           \A t \in Threads : pc'[t] = "pushrow" => pc[t] = "pushrow"
    PROVE  IInv'
<1>1. Past \subseteq Past'
  BY PastGrows DEF IInv, Types
<1> QED
  BY <1>1 DEF IInv, StackInv, MineInv, RowsInv, RecordedOnce

\* A thread takes a row in its hands that is new or has no name.
LEMMA OnceNew ==
    ASSUME IInv, UNCHANGED <<stack, rows>>, Types', clock < clock', NEW t \in Threads,
           NEW row \in Row, mine' = [mine EXCEPT ![t] = row], row.range \in {Range(t), Unnamed},
           NEW place, pc' = [pc EXCEPT ![t] = place], place = "pushrow" => row.range # Unnamed
    PROVE  IInv'
<1>1. Past \subseteq Past' /\ Range(t) \notin Past /\ Range(t) \in Past' /\ Range(t)[1] = t
  BY PastGrows DEF IInv, Types
<1>2. StackInv' /\ RecordedOnce'
  BY <1>1 DEF IInv, StackInv, RecordedOnce
<1>3. mine'[t] = row /\ \A u \in Threads \ {t} : mine'[u] = mine[u] /\ pc'[u] = pc[u]
  BY DEF IInv, Types
<1>4. MineInv'
  BY <1>1, <1>3 DEF IInv, Types, StackInv, MineInv
<1>5. RowsInv'
  BY <1>1, <1>3 DEF IInv, RowsInv
<1> QED
  BY <1>2, <1>4, <1>5 DEF IInv

\* The row in a thread's hands goes to its stack.
LEMMA OncePushed ==
    ASSUME IInv, NEW t \in Threads, PushRow(t)
    PROVE  IInv'
<1> USE DEF IInv
<1>1. /\ mine[t] \in Row /\ mine[t].range \in Past /\ mine[t].range[1] = t
      /\ stack[t] \in Seq(Row) /\ mine[t].range # Unnamed
      /\ \A i \in DOMAIN stack[t] : stack[t][i].range # mine[t].range
  BY DEF PushRow, Types, MineInv
<1>2. stack'[t] = <<mine[t]>> \o stack[t] /\ \A u \in Threads \ {t} : stack'[u] = stack[u]
  BY DEF PushRow, Types
<1>3. /\ stack'[t] \in Seq(Row) /\ DOMAIN stack'[t] = 1 .. Len(stack[t]) + 1
      /\ stack'[t][1] = mine[t] /\ DOMAIN stack[t] = 1 .. Len(stack[t])
      /\ \A i \in 1 .. Len(stack[t]) : stack'[t][i + 1] = stack[t][i]
  BY <1>1, <1>2, OnTop
<1>4. mine'[t] = NoRow /\ \A u \in Threads \ {t} : mine'[u] = mine[u] /\ pc'[u] = pc[u]
  BY DEF PushRow, Hold, Goto, Types
<1>5. NoRow \in Row /\ NoRow.range = Unnamed
  BY DEF NoRow, Row, Unnamed
<1>6. Types'
  <2>1. stack' \in [Threads -> Seq(Row)]
    BY <1>2, <1>3 DEF PushRow, Types
  <2> QED
    BY <2>1, <1>5 DEF PushRow, Types, Hold, Goto, Places, source, control
<1>7. Past' = Past /\ rows' = rows
  BY DEF Past, PushRow
<1>8. \A i \in DOMAIN stack'[t] : \/ i = 1
                                  \/ i - 1 \in DOMAIN stack[t] /\ stack'[t][i] = stack[t][i - 1]
  BY <1>1, <1>3
<1>9. StackInv'
  <2>1. ASSUME NEW i \in DOMAIN stack'[t]
        PROVE  /\ stack'[t][i].range \in Past /\ stack'[t][i].range[1] = t
               /\ \A j \in DOMAIN stack'[t] : stack'[t][j].range = stack'[t][i].range => i = j
    <3>1. CASE i = 1
      BY <1>1, <1>3, <1>8, <3>1
    <3>2. CASE i - 1 \in DOMAIN stack[t] /\ stack'[t][i] = stack[t][i - 1]
      <4>1. ASSUME NEW j \in DOMAIN stack'[t], stack'[t][j].range = stack'[t][i].range
            PROVE  i = j
        <5>1. j # 1
          BY <1>1, <1>3, <3>2, <4>1
        <5>2. j - 1 \in DOMAIN stack[t] /\ stack'[t][j] = stack[t][j - 1]
          BY <1>8, <5>1
        <5>3. i - 1 = j - 1 /\ i \in Nat /\ j \in Nat
          BY <1>3, <3>2, <4>1, <5>2 DEF StackInv
        <5> QED
          BY <5>3
      <4> QED
        BY <3>2, <4>1 DEF StackInv
    <3> QED
      BY <1>8, <3>1, <3>2
  <2> QED
    BY <1>2, <1>7, <2>1 DEF StackInv
<1>10. MineInv'
  BY <1>2, <1>4, <1>5, <1>7 DEF MineInv, PushRow, Goto, Types
<1>11. RowsInv'
  <2>1. ASSUME NEW r \in rows, r.row.range # Unnamed, NEW u \in Threads
        PROVE  /\ mine'[u].range # r.row.range
               /\ \A i \in DOMAIN stack'[u] : stack'[u][i].range # r.row.range
    <3>1. CASE u = t
      <4>1. /\ mine[t].range # r.row.range
            /\ \A i \in DOMAIN stack[t] : stack[t][i].range # r.row.range
        BY <2>1 DEF RowsInv
      <4> QED
        BY <1>3, <1>4, <1>5, <1>8, <2>1, <3>1, <4>1
    <3>2. CASE u # t
      BY <1>2, <1>4, <2>1, <3>2 DEF RowsInv
    <3> QED
      BY <3>1, <3>2
  <2> QED
    BY <1>7, <2>1 DEF RowsInv
<1> QED
  BY <1>6, <1>7, <1>9, <1>10, <1>11 DEF RecordedOnce

\* A stack without its top: what a pop and a drain leave.
LEMMA TopOff ==
    ASSUME IInv, NEW t \in Threads, stack[t] # <<>>, stack' = [stack EXCEPT ![t] = Tail(@)],
           Past \subseteq Past'
    PROVE  /\ StackInv' /\ stack' \in [Threads -> Seq(Row)]
           /\ \A u \in Threads \ {t} : stack'[u] = stack[u]
           /\ Head(stack[t]) \in Row /\ Head(stack[t]).range \in Past
           /\ Head(stack[t]).range[1] = t /\ Head(stack[t]).range # Unnamed
           /\ 1 \in DOMAIN stack[t] /\ Head(stack[t]) = stack[t][1]
           /\ \A i \in DOMAIN stack'[t] :
                /\ i + 1 \in DOMAIN stack[t] /\ stack'[t][i] = stack[t][i + 1]
                /\ stack'[t][i].range # Head(stack[t]).range
<1> USE DEF IInv
<1>1. stack[t] \in Seq(Row)
  BY DEF Types
<1>2. stack'[t] = Tail(stack[t]) /\ \A u \in Threads \ {t} : stack'[u] = stack[u]
  BY DEF Types
<1>3. /\ stack'[t] \in Seq(Row) /\ DOMAIN stack'[t] = 1 .. Len(stack[t]) - 1
      /\ DOMAIN stack[t] = 1 .. Len(stack[t]) /\ Len(stack[t]) \in Nat \ {0}
      /\ \A i \in 1 .. Len(stack[t]) - 1 : stack'[t][i] = stack[t][i + 1]
      /\ Head(stack[t]) = stack[t][1] /\ Head(stack[t]) \in Row
  <2>1. /\ Tail(stack[t]) \in Seq(Row) /\ DOMAIN Tail(stack[t]) = 1 .. Len(stack[t]) - 1
        /\ Len(stack[t]) \in Nat \ {0}
        /\ \A i \in 1 .. Len(stack[t]) - 1 : Tail(stack[t])[i] = stack[t][i + 1]
        /\ Head(stack[t]) = stack[t][1] /\ Head(stack[t]) \in Row
        /\ DOMAIN stack[t] = 1 .. Len(stack[t])
    BY <1>1, BelowTop
  <2> QED
    BY <1>2, <2>1
<1>4. 1 \in DOMAIN stack[t]
  BY <1>3
<1>5. Head(stack[t]).range \in Past /\ Head(stack[t]).range[1] = t
  BY <1>3, <1>4 DEF StackInv
<1>6. Head(stack[t]).range # Unnamed
  BY <1>5 DEF Past, Unnamed
<1>7. \A i \in DOMAIN stack'[t] :
         i \in Nat \ {0} /\ i + 1 \in DOMAIN stack[t] /\ stack'[t][i] = stack[t][i + 1]
  BY <1>3
<1>8. \A i \in DOMAIN stack'[t] : stack'[t][i].range # Head(stack[t]).range
  <2> TAKE i \in DOMAIN stack'[t]
  <2>1. i + 1 # 1
    BY <1>7
  <2> QED
    BY <1>3, <1>4, <1>7, <2>1 DEF StackInv
<1>9. StackInv'
  <2>1. ASSUME NEW i \in DOMAIN stack'[t]
        PROVE  /\ stack'[t][i].range \in Past /\ stack'[t][i].range[1] = t
               /\ \A j \in DOMAIN stack'[t] : stack'[t][j].range = stack'[t][i].range => i = j
    <3>1. ASSUME NEW j \in DOMAIN stack'[t], stack'[t][j].range = stack'[t][i].range
          PROVE  i = j
      <4>1. i + 1 = j + 1
        BY <1>7, <3>1 DEF StackInv
      <4> QED
        BY <1>7, <4>1
    <3> QED
      BY <1>7, <3>1 DEF StackInv
  <2> QED
    BY <1>2, <2>1 DEF StackInv
<1>10. stack' \in [Threads -> Seq(Row)]
  BY <1>2, <1>3 DEF Types
<1> QED
  BY <1>2, <1>3, <1>4, <1>5, <1>6, <1>7, <1>8, <1>9, <1>10

\* A pop takes the row on top in hand.
LEMMA OncePopped ==
    ASSUME IInv, NEW t \in Threads, stack[t] # <<>>, stack' = [stack EXCEPT ![t] = Tail(@)],
           mine' = [mine EXCEPT ![t] = [Head(stack[t]) EXCEPT !.end = clock]],
           pc' = [pc EXCEPT ![t] = "insert"], UNCHANGED <<rows, storage, now, resumeTime>>,
           idsOf' \in Nat, clock' \in Nat, clock <= clock'
    PROVE  IInv'
<1> USE DEF IInv
<1> DEFINE top == [Head(stack[t]) EXCEPT !.end = clock]
<1>1. Past \subseteq Past'
  BY PastGrows DEF Types
<1>2. /\ StackInv' /\ stack' \in [Threads -> Seq(Row)]
      /\ \A u \in Threads \ {t} : stack'[u] = stack[u]
      /\ Head(stack[t]) \in Row /\ Head(stack[t]).range \in Past
      /\ Head(stack[t]).range[1] = t /\ Head(stack[t]).range # Unnamed
      /\ 1 \in DOMAIN stack[t] /\ Head(stack[t]) = stack[t][1]
      /\ \A i \in DOMAIN stack'[t] :
           /\ i + 1 \in DOMAIN stack[t] /\ stack'[t][i] = stack[t][i + 1]
           /\ stack'[t][i].range # Head(stack[t]).range
  BY <1>1, TopOff
<1>3. top \in Row /\ top.range = Head(stack[t]).range
  BY <1>2, Closed DEF Types
<1> HIDE DEF top
<1>4. mine'[t] = top /\ \A u \in Threads \ {t} : mine'[u] = mine[u] /\ pc'[u] = pc[u]
  BY DEF Types, top
<1>5. Types'
  <2>1. mine' \in [Threads -> Row]
    BY <1>3, <1>4 DEF Types, top
  <2> QED
    BY <1>2, <2>1 DEF Types, Places
<1>6. MineInv'
  BY <1>1, <1>2, <1>3, <1>4 DEF MineInv
<1>7. RowsInv'
  <2>1. ASSUME NEW r \in rows, r.row.range # Unnamed, NEW u \in Threads
        PROVE  /\ r.row.range \in Past
               /\ mine'[u].range # r.row.range
               /\ \A i \in DOMAIN stack'[u] : stack'[u][i].range # r.row.range
    <3>1. /\ r.row.range \in Past /\ mine[u].range # r.row.range
          /\ \A i \in DOMAIN stack[u] : stack[u][i].range # r.row.range
      BY <2>1 DEF RowsInv
    <3>2. CASE u = t
      BY <1>2, <1>3, <1>4, <3>1, <3>2
    <3>3. CASE u # t
      BY <1>2, <1>4, <3>1, <3>3
    <3> QED
      BY <3>1, <3>2, <3>3
  <2>2. \A r \in rows : r.row.range # Unnamed => r.row.range \in Past
    BY DEF RowsInv
  <2> QED
    BY <1>1, <2>1, <2>2 DEF RowsInv
<1> QED
  BY <1>2, <1>5, <1>6, <1>7 DEF RecordedOnce

\* The row in a thread's hands is recorded, or lost after the finalization.
LEMMA OnceInserted == ASSUME IInv, NEW t \in Threads, InsertRow(t) PROVE IInv'
<1> USE DEF IInv
<1> DEFINE new == [thread |-> t, row |-> mine[t], storage |-> storage]
<1>1. /\ rows' \subseteq rows \cup {new}
      /\ UNCHANGED <<stack, clock, now, resumeTime, idsOf, storage>>
      /\ mine' = [mine EXCEPT ![t] = NoRow] /\ pc' = [pc EXCEPT ![t] = "idle"]
  BY DEF InsertRow, Inserted, Hold, Goto, source, control
<1>2. NoRow \in Row /\ NoRow.range = Unnamed
  BY DEF NoRow, Row, Unnamed
<1>3. mine'[t] = NoRow /\ \A u \in Threads \ {t} : mine'[u] = mine[u] /\ pc'[u] = pc[u]
  BY <1>1 DEF Types
<1>4. pc'[t] = "idle"
  BY <1>1 DEF Types
<1>5. Types'
  BY <1>1, <1>2 DEF Types, Places
<1>6. Past' = Past
  BY <1>1 DEF Past
<1>7. StackInv' /\ MineInv'
  BY <1>1, <1>2, <1>3, <1>4, <1>6 DEF StackInv, MineInv
<1>8. new.row = mine[t]
  OBVIOUS
<1> HIDE DEF new
<1>9. mine[t].range # Unnamed =>
        /\ mine[t].range \in Past /\ mine[t].range[1] = t
        /\ \A i \in DOMAIN stack[t] : stack[t][i].range # mine[t].range
        /\ \A u \in Threads \ {t} :
             /\ mine[u].range # mine[t].range
             /\ \A i \in DOMAIN stack[u] : stack[u][i].range # mine[t].range
  BY DEF MineInv, StackInv
<1>10. RowsInv'
  BY <1>1, <1>2, <1>3, <1>6, <1>8, <1>9 DEF RowsInv
<1>11. RecordedOnce'
  BY <1>1, <1>8 DEF RecordedOnce, RowsInv
<1> QED
  BY <1>5, <1>7, <1>10, <1>11

\* The drain records the row on top of a stack.
LEMMA OnceDrained == ASSUME IInv, NEW t \in Threads, DrainRow(t) PROVE IInv'
<1> USE DEF IInv
<1> DEFINE top == [Head(stack[t]) EXCEPT !.end = now]
           new == [thread |-> t, row |-> top, storage |-> storage]
<1>1. /\ rows' \subseteq rows \cup {new} /\ stack[t] # <<>>
      /\ stack' = [stack EXCEPT ![t] = Tail(@)]
      /\ UNCHANGED <<mine, pc, clock, now, resumeTime, idsOf, storage>>
  BY DEF DrainRow, Inserted, source, call, control
<1>2. Past' = Past
  BY <1>1 DEF Past
<1>3. /\ StackInv' /\ stack' \in [Threads -> Seq(Row)]
      /\ \A u \in Threads \ {t} : stack'[u] = stack[u]
      /\ Head(stack[t]) \in Row /\ Head(stack[t]).range \in Past
      /\ Head(stack[t]).range[1] = t /\ Head(stack[t]).range # Unnamed
      /\ 1 \in DOMAIN stack[t] /\ Head(stack[t]) = stack[t][1]
      /\ \A i \in DOMAIN stack'[t] :
           /\ i + 1 \in DOMAIN stack[t] /\ stack'[t][i] = stack[t][i + 1]
           /\ stack'[t][i].range # Head(stack[t]).range
  BY <1>1, <1>2, TopOff
<1>4. new.row.range = Head(stack[t]).range
  <2>1. top.range = Head(stack[t]).range
    BY <1>3, Closed DEF Types
  <2> HIDE DEF top
  <2> QED
    BY <2>1
<1> HIDE DEF new
<1>5. Types'
  BY <1>1, <1>3 DEF Types
<1>6. \A u \in Threads : \A i \in DOMAIN stack'[u] :
         \E j \in DOMAIN stack[u] : stack'[u][i] = stack[u][j]
  BY <1>3
<1>7. MineInv'
  BY <1>1, <1>2, <1>6 DEF MineInv
<1>8. \A u \in Threads : /\ mine[u].range # Head(stack[t]).range
                         /\ \A i \in DOMAIN stack'[u] : stack'[u][i].range # Head(stack[t]).range
  <2> TAKE u \in Threads
  <2>1. CASE u = t
    BY <1>3, <2>1 DEF MineInv
  <2>2. CASE u # t
    BY <1>3, <2>2 DEF MineInv, StackInv
  <2> QED
    BY <2>1, <2>2
<1>9. RowsInv'
  <2>1. ASSUME NEW r \in rows', r.row.range # Unnamed
        PROVE  /\ r.row.range \in Past
               /\ \A u \in Threads :
                    /\ mine[u].range # r.row.range
                    /\ \A i \in DOMAIN stack'[u] : stack'[u][i].range # r.row.range
    <3>1. CASE r = new
      BY <1>3, <1>4, <1>8, <3>1
    <3>2. CASE r \in rows
      BY <1>6, <2>1, <3>2 DEF RowsInv
    <3> QED
      BY <1>1, <3>1, <3>2
  <2> QED
    BY <1>1, <1>2, <2>1 DEF RowsInv
<1>10. RecordedOnce'
  BY <1>1, <1>3, <1>4 DEF RecordedOnce, RowsInv
<1> QED
  BY <1>5, <1>3, <1>7, <1>9, <1>10

\* The stack of a thread that ends goes with it.
LEMMA OnceExited == ASSUME IInv, NEW t \in Threads, Exit(t) PROVE IInv'
<1> USE DEF IInv
<1>1. /\ stack' = [stack EXCEPT ![t] = <<>>] /\ <<>> \in Seq(Row)
      /\ UNCHANGED <<rows, mine, pc, clock, now, resumeTime, idsOf, storage>>
  BY DEF Exit, source, call, control
<1>2. /\ stack'[t] = <<>> /\ \A u \in Threads \ {t} : stack'[u] = stack[u]
      /\ stack' \in [Threads -> Seq(Row)]
  BY <1>1 DEF Types
<1>3. DOMAIN stack'[t] = {}
  BY <1>2
<1>4. Types' /\ Past' = Past
  BY <1>1, <1>2 DEF Types, Past
<1>5. StackInv' /\ MineInv' /\ RowsInv' /\ RecordedOnce'
  BY <1>1, <1>2, <1>3, <1>4 DEF StackInv, MineInv, RowsInv, RecordedOnce
<1> QED
  BY <1>4, <1>5

LEMMA OnceStep == ASSUME IInv, [Next \/ NextRlog]_vars PROVE IInv'
<1> USE DEF Places
<1>0. Types
  BY DEF IInv
<1>1. ASSUME NEW t \in Threads,
             \/ CallPush(t) \/ CallPop(t) \/ CallMark(t)
             \/ \E place \in {"push", "pop", "mark"} : CallRlog(t, place)
      PROVE  IInv'
  <2>1. PICK place \in {"push", "pop", "mark"} : Call(t, place)
    BY <1>1 DEF CallPush, CallPop, CallMark, CallRlog
  <2>2. /\ UNCHANGED <<stack, mine, rows, clock, now, resumeTime, idsOf, storage>>
        /\ pc' = [pc EXCEPT ![t] = place]
    BY <2>1 DEF Call, Goto, source, control
  <2> QED
    BY <1>0, <2>2, OnceKept DEF Types
<1>2. ASSUME NEW t \in Threads, MakeRange(t) \/ rangePush(t) \/ MakeMark(t) \/ mark(t)
      PROVE  IInv'
  <2>1. ASSUME NEW place \in {"pushrow", "insert"}, NEW time \in Nat, NEW ids \in Nat,
               mine' = [mine EXCEPT ![t] = [range |-> Range(t), start |-> clock, end |-> time,
                                            ids |-> ids, arg |-> storage]],
               pc' = [pc EXCEPT ![t] = place], idsOf' \in Nat,
               UNCHANGED <<stack, rows, now, resumeTime, storage>>, clock' = clock + 1
        PROVE  IInv'
    <3> DEFINE row == [range |-> Range(t), start |-> clock, end |-> time,
                       ids |-> ids, arg |-> storage]
    <3>1. row \in Row /\ row.range = Range(t) /\ row.range # Unnamed
      BY <1>0 DEF Row, Range, Types, Unnamed
    <3>2. mine' = [mine EXCEPT ![t] = row]
      BY <2>1
    <3> HIDE DEF row
    <3>3. Types' /\ clock < clock'
      BY <1>0, <2>1, <3>1, <3>2 DEF Types
    <3> QED
      BY <2>1, <3>1, <3>2, <3>3, OnceNew
  <2>2. CASE MakeRange(t)
    BY <1>0, <2>1, <2>2 DEF MakeRange, Tick, Hold, Goto, CacheIds, control, Types
  <2>3. CASE rangePush(t)
    BY <1>0, <2>1, <2>3 DEF rangePush, Tick, Hold, Goto, source, control, Types
  <2>4. CASE MakeMark(t)
    BY <1>0, <2>1, <2>4 DEF MakeMark, Tick, Hold, Goto, CacheIds, control, Types
  <2>5. CASE mark(t)
    BY <1>0, <2>1, <2>5 DEF mark, Tick, Hold, Goto, source, control, Types
  <2> QED
    BY <1>2, <2>2, <2>3, <2>4, <2>5
<1>3. ASSUME NEW t \in Threads, PushRow(t) PROVE IInv'
  BY <1>3, OncePushed
<1>4. ASSUME NEW t \in Threads, TakeRange(t) \/ rangePop(t), stack[t] # <<>> PROVE IInv'
  <2>1. /\ mine' = [mine EXCEPT ![t] = [Head(stack[t]) EXCEPT !.end = clock]]
        /\ stack' = [stack EXCEPT ![t] = Tail(@)] /\ pc' = [pc EXCEPT ![t] = "insert"]
        /\ UNCHANGED <<rows, storage, now, resumeTime>> /\ clock' = clock + 1 /\ idsOf' \in Nat
    BY <1>0, <1>4 DEF TakeRange, rangePop, Tick, Hold, Goto, AfterPop, CacheIds, source,
                      control, Types
  <2>2. clock' \in Nat /\ clock <= clock'
    BY <1>0, <2>1 DEF Types
  <2> QED
    BY <1>4, <2>1, <2>2, OncePopped
<1>5. ASSUME NEW t \in Threads, TakeRange(t), stack[t] = <<>> PROVE IInv'
  <2> DEFINE row == [range |-> Unnamed, start |-> PlaceholderStart, end |-> clock,
                     ids |-> CacheIds, arg |-> storage]
  <2>1. row \in Row /\ row.range = Unnamed
    BY <1>0 DEF Row, PlaceholderStart, CacheIds, Types
  <2>2. /\ mine' = [mine EXCEPT ![t] = row] /\ pc' = [pc EXCEPT ![t] = "insert"]
        /\ UNCHANGED <<stack, rows, storage, now, resumeTime>> /\ clock' = clock + 1
        /\ idsOf' \in Nat
    BY <1>0, <1>5 DEF TakeRange, Tick, Hold, Goto, CacheIds, control, Types
  <2> HIDE DEF row
  <2>3. Types' /\ clock < clock'
    BY <1>0, <2>1, <2>2 DEF Types
  <2> QED
    BY <2>1, <2>2, <2>3, OnceNew
<1>6. ASSUME NEW t \in Threads, rangePop(t), stack[t] = <<>> PROVE IInv'
  <2>1. /\ UNCHANGED <<stack, mine, rows, clock, now, resumeTime, idsOf, storage>>
        /\ pc' = [pc EXCEPT ![t] = "idle"]
    BY <1>6 DEF rangePop, Goto, source, control
  <2> QED
    BY <1>0, <2>1, OnceKept DEF Types
<1>7. ASSUME NEW t \in Threads, InsertRow(t) PROVE IInv'
  BY <1>7, OnceInserted
<1>8. ASSUME NEW t \in Threads, Exit(t) PROVE IInv'
  BY <1>8, OnceExited
<1>9. CASE StartTracing \/ DrainBegin
  <2>1. /\ UNCHANGED <<stack, mine, rows, pc, idsOf, storage>> /\ clock' = clock + 1
        /\ now' \in Nat /\ resumeTime' \in Nat
    BY <1>0, <1>9 DEF StartTracing, DrainBegin, Tick, call, source, control, Types
  <2> QED
    BY <1>0, <2>1, OnceKept DEF Types
<1>10. CASE \/ StopTracing \/ Finalize \/ SwapStorage \/ ResetSource
            \/ startTracing \/ stopTracing \/ end \/ reset \/ DrainEnd
            \/ (\E t \in Threads : DrainNext(t)) \/ UNCHANGED vars
  <2>1. /\ UNCHANGED <<stack, mine, rows, pc, clock, now, resumeTime>>
        /\ idsOf' \in Nat /\ storage' \in Nat
    BY <1>0, <1>10 DEF StopTracing, Finalize, SwapStorage, ResetSource, startTracing,
         stopTracing, end, reset, DrainEnd, DrainNext, vars, source, call, control,
         IdsAfterReset, Types
  <2> QED
    BY <1>0, <2>1, OnceKept DEF Types
<1>11. ASSUME NEW t \in Threads, DrainRow(t) PROVE IInv'
  BY <1>11, OnceDrained
<1> QED
  BY <1>1, <1>2, <1>3, <1>4, <1>5, <1>6, <1>7, <1>8, <1>9, <1>10, <1>11
     DEF Next, NextRlog, CallStep, DrainStep

\* Each range and mark of roctx and nvtx is recorded at most once, whichever of its
\* pop, a stop and the finalization closes it.
THEOREM RangesRecordedOnce == Spec => []RecordedOnce
<1>1. IInv /\ [Next]_vars => IInv'
  BY OnceStep
<1>2. IInv => RecordedOnce
  BY DEF IInv
<1> QED
  BY InitOnce, <1>1, <1>2, PTL DEF Spec

\* The same with rlog.
THEOREM RlogRangesRecordedOnce == SpecRlog => []RecordedOnce
<1>1. IInv /\ [NextRlog]_vars => IInv'
  BY OnceStep
<1>2. IInv => RecordedOnce
  BY DEF IInv
<1> QED
  BY InitOnce, <1>1, <1>2, PTL DEF SpecRlog

-----------------------------------------------------------------------------
(* String ids belong to the storage of their row *)

Own(row) == row.ids = storage /\ row.arg = storage

\* While no control call has met a thread in a call: threads are in calls only while
\* tracing is on, stacks have rows only then and until the drain has visited them,
\* and every id at hand is of the storage in use.
QuietInv ==
    /\ active => ctl = "idle"
    /\ ~active => \A t \in Threads : pc[t] = "idle"
    /\ ctl # "swapped" => idsOf \in {0, storage}
    /\ \A t \in Threads : stack[t] # <<>> =>
         t \in registered /\ (active \/ ctl = "drainnow" \/ (ctl = "drain" /\ t \in todo))
    /\ \A t \in Threads : \A i \in DOMAIN stack[t] : Own(stack[t][i])
    /\ \A t \in Threads : pc[t] \in {"pushrow", "insert"} => Own(mine[t])
    /\ \A t \in Threads : pc[t] = "pushrow" => t \in registered

IdsInv == Types /\ IdsOfOwnStorage /\ (~raced => QuietInv)

LEMMA TypesStep == ASSUME IInv, [Next \/ NextRlog]_vars PROVE Types'
  BY OnceStep DEF IInv

LEMMA IdsStep ==
    ASSUME IInv, IdsInv, [Next \/ NextRlog]_vars,
           ctl = "swapped" /\ ctl' # "swapped" => idsOf' = 0
    PROVE  IdsInv'
<1> USE DEF IdsInv
<1>1. Types'
  BY TypesStep
<1>2. raced => raced'
  BY DEF Next, NextRlog, CallStep, DrainStep, CallPush, CallPop, CallMark, CallRlog, Call,
     MakeRange, rangePush, PushRow, TakeRange, rangePop, MakeMark, mark, InsertRow, Exit,
     StartTracing, StopTracing, Finalize, startTracing, stopTracing, end, ControlCall,
     DrainBegin, DrainRow, DrainNext, DrainEnd, SwapStorage, ResetSource, reset, vars
<1> SUFFICES ASSUME ~raced' PROVE IdsOfOwnStorage' /\ QuietInv'
  BY <1>1 DEF IdsOfOwnStorage
<1>3. QuietInv /\ IdsOfOwnStorage /\ ~raced
  BY <1>2
<1>4. \A r \in rows : Own(r.row) \/ r.storage # storage
  BY <1>3 DEF IdsOfOwnStorage, Own
<1>5. ASSUME NEW t \in Threads,
             \/ CallPush(t) \/ CallPop(t) \/ CallMark(t)
             \/ \E place \in {"push", "pop", "mark"} : CallRlog(t, place)
      PROVE  IdsOfOwnStorage' /\ QuietInv'
  <2>1. PICK place \in {"push", "pop", "mark"} : Call(t, place)
    BY <1>5 DEF CallPush, CallPop, CallMark, CallRlog
  <2> QED
    BY <1>3, <2>1 DEF Call, Goto, source, control, QuietInv, IdsOfOwnStorage, Own, Types
<1>6. ASSUME NEW t \in Threads, MakeRange(t) \/ rangePush(t) \/ MakeMark(t) \/ mark(t)
      PROVE  IdsOfOwnStorage' /\ QuietInv'
  <2>1. active /\ ctl = "idle" /\ CacheIds = storage
    BY <1>3, <1>6 DEF QuietInv, CacheIds, MakeRange, rangePush, MakeMark, mark
  <2>2. /\ UNCHANGED <<active, ctl, todo, stack, storage, rows>>
        /\ registered \subseteq registered'
        /\ pc' \in {[pc EXCEPT ![t] = "pushrow"], [pc EXCEPT ![t] = "insert"]}
        /\ pc'[t] = "pushrow" => t \in registered'
        /\ idsOf' \in {0, storage}
    BY <1>3, <1>6, <2>1 DEF MakeRange, rangePush, MakeMark, mark, Goto, source, control,
                            QuietInv, Types
  <2>3. mine'[t].ids = storage /\ mine'[t].arg = storage /\ \A u \in Threads \ {t} : mine'[u] = mine[u]
    <3>1. CASE MakeRange(t)
      BY <2>1, <3>1 DEF MakeRange, Hold, Types
    <3>2. CASE rangePush(t)
      BY <3>2 DEF rangePush, Hold, Types
    <3>3. CASE MakeMark(t)
      BY <2>1, <3>3 DEF MakeMark, Hold, Types
    <3>4. CASE mark(t)
      BY <3>4 DEF mark, Hold, Types
    <3> QED
      BY <1>6, <3>1, <3>2, <3>3, <3>4
  <2> QED
    BY <1>3, <2>1, <2>2, <2>3 DEF QuietInv, IdsOfOwnStorage, Own, Types
<1>7. ASSUME NEW t \in Threads, PushRow(t) PROVE IdsOfOwnStorage' /\ QuietInv'
  <2>1. /\ UNCHANGED <<active, ctl, todo, storage, rows, registered, idsOf>>
        /\ pc[t] = "pushrow" /\ pc' = [pc EXCEPT ![t] = "idle"]
        /\ stack' = [stack EXCEPT ![t] = <<mine[t]>> \o @]
        /\ mine' = [mine EXCEPT ![t] = NoRow]
    BY <1>7 DEF PushRow, Goto, Hold, source, control
  <2>2. mine[t] \in Row /\ stack[t] \in Seq(Row) /\ Own(mine[t]) /\ active
    BY <1>3, <2>1 DEF QuietInv, Types
  <2>3. \A i \in DOMAIN stack'[t] : stack'[t][i].ids = storage /\ stack'[t][i].arg = storage
    <3>1. stack'[t] = <<mine[t]>> \o stack[t]
      BY <2>1 DEF Types
    <3>2. \A i \in DOMAIN stack'[t] :
             i = 1 \/ (i - 1 \in DOMAIN stack[t] /\ stack'[t][i] = stack[t][i - 1])
      <4>1. /\ DOMAIN stack'[t] = 1 .. Len(stack[t]) + 1 /\ DOMAIN stack[t] = 1 .. Len(stack[t])
            /\ Len(stack[t]) \in Nat
            /\ \A i \in 1 .. Len(stack[t]) : stack'[t][i + 1] = stack[t][i]
        BY <2>2, <3>1, OnTop
      <4>2. ASSUME NEW i \in DOMAIN stack'[t], i # 1
            PROVE  i - 1 \in DOMAIN stack[t] /\ stack'[t][i] = stack[t][i - 1]
        <5>1. i - 1 \in 1 .. Len(stack[t]) /\ (i - 1) + 1 = i
          BY <4>1, <4>2
        <5>2. stack'[t][(i - 1) + 1] = stack[t][i - 1]
          BY <4>1, <5>1
        <5> QED
          BY <4>1, <5>1, <5>2
      <4> QED
        BY <4>2
    <3>3. stack'[t][1] = mine[t]
      BY <2>2, <3>1
    <3> QED
      BY <1>3, <2>2, <3>2, <3>3 DEF QuietInv, Own
  <2> QED
    BY <1>3, <2>1, <2>2, <2>3 DEF QuietInv, IdsOfOwnStorage, Own, Types
<1>8. ASSUME NEW t \in Threads, TakeRange(t) \/ rangePop(t), stack[t] # <<>>
      PROVE  IdsOfOwnStorage' /\ QuietInv'
  <2>1. /\ UNCHANGED <<active, ctl, todo, storage, rows, registered>> /\ idsOf' \in {idsOf, CacheIds}
        /\ pc[t] = "pop" /\ pc' = [pc EXCEPT ![t] = "insert"]
        /\ stack' = [stack EXCEPT ![t] = Tail(@)]
        /\ mine' = [mine EXCEPT ![t] = [Head(stack[t]) EXCEPT !.end = clock]]
    BY <1>8 DEF TakeRange, rangePop, Goto, Hold, AfterPop, source, control
  <2>2. active /\ ctl = "idle" /\ idsOf' \in {0, storage}
    BY <1>3, <2>1 DEF QuietInv, CacheIds
  <2>3. /\ stack[t] \in Seq(Row) /\ Head(stack[t]) = stack[t][1] /\ 1 \in DOMAIN stack[t]
        /\ \A i \in DOMAIN Tail(stack[t]) :
             i + 1 \in DOMAIN stack[t] /\ Tail(stack[t])[i] = stack[t][i + 1]
        /\ Head(stack[t]) \in Row
    BY <1>8, BelowTop DEF Types
  <2>4. mine'[t].ids = storage /\ mine'[t].arg = storage
    <3>1. mine'[t] = [Head(stack[t]) EXCEPT !.end = clock]
      BY <2>1 DEF Types
    <3>2. Head(stack[t]).ids = storage /\ Head(stack[t]).arg = storage
      BY <1>3, <2>3 DEF QuietInv, Own
    <3> QED
      BY <2>3, <3>1, <3>2 DEF Row
  <2>5. \A i \in DOMAIN stack'[t] : stack'[t][i].ids = storage /\ stack'[t][i].arg = storage
    BY <1>3, <2>1, <2>3 DEF QuietInv, Own, Types
  <2>6. t \in registered
    BY <1>3, <1>8 DEF QuietInv
  <2> QED
    BY <1>3, <2>1, <2>2, <2>4, <2>5, <2>6 DEF QuietInv, IdsOfOwnStorage, Own, Types
<1>9. ASSUME NEW t \in Threads, TakeRange(t) \/ rangePop(t), stack[t] = <<>>
      PROVE  IdsOfOwnStorage' /\ QuietInv'
  <2>1. active /\ ctl = "idle" /\ CacheIds = storage
    BY <1>3, <1>9 DEF QuietInv, CacheIds, TakeRange, rangePop
  <2>2. /\ UNCHANGED <<active, ctl, todo, stack, storage, rows, registered>>
        /\ idsOf' \in {0, storage}
        /\ \A u \in Threads \ {t} : mine'[u] = mine[u] /\ pc'[u] = pc[u]
        /\ pc'[t] \in {"insert", "idle"}
        /\ pc'[t] = "insert" => mine'[t].ids = storage /\ mine'[t].arg = storage
    <3>1. CASE TakeRange(t)
      BY <1>3, <1>9, <2>1, <3>1 DEF TakeRange, Goto, Hold, control, Types
    <3>2. CASE rangePop(t)
      BY <1>3, <1>9, <2>1, <3>2 DEF rangePop, Goto, source, control, Types, QuietInv
    <3> QED
      BY <1>9, <3>1, <3>2
  <2> QED
    BY <1>3, <2>1, <2>2 DEF QuietInv, IdsOfOwnStorage, Own
<1>10. ASSUME NEW t \in Threads, InsertRow(t) PROVE IdsOfOwnStorage' /\ QuietInv'
  <2>1. /\ UNCHANGED <<active, ctl, todo, storage, stack, registered, idsOf>>
        /\ pc[t] = "insert" /\ pc' = [pc EXCEPT ![t] = "idle"]
        /\ mine' = [mine EXCEPT ![t] = NoRow]
        /\ rows' \subseteq rows \cup {[thread |-> t, row |-> mine[t], storage |-> storage]}
    BY <1>10 DEF InsertRow, Inserted, Goto, Hold, source, control
  <2>2. Own(mine[t])
    BY <1>3, <2>1 DEF QuietInv
  <2> QED
    BY <1>3, <2>1, <2>2 DEF QuietInv, IdsOfOwnStorage, Own, Types
<1>11. ASSUME NEW t \in Threads, Exit(t) PROVE IdsOfOwnStorage' /\ QuietInv'
  <2>1. /\ UNCHANGED <<active, ctl, todo, storage, rows, idsOf, pc, mine>>
        /\ stack' = [stack EXCEPT ![t] = <<>>] /\ registered' = registered \ {t} /\ pc[t] = "idle"
    BY <1>11 DEF Exit, RegisteredAfterExit, source, call, control
  <2> QED
    BY <1>3, <2>1 DEF QuietInv, IdsOfOwnStorage, Own, Types
<1>12. CASE StartTracing \/ startTracing
  <2>1. /\ UNCHANGED <<ctl, todo, storage, rows, idsOf, pc, mine, stack, registered>>
        /\ ctl = "idle" /\ active' = TRUE
    BY <1>12 DEF StartTracing, startTracing, call, control
  <2> QED
    BY <1>3, <2>1 DEF QuietInv, IdsOfOwnStorage, Own
<1>13. CASE StopTracing \/ Finalize \/ stopTracing \/ end
  <2>1. /\ UNCHANGED <<todo, storage, rows, idsOf, pc, mine, stack, registered>>
        /\ ctl = "idle" /\ ctl' = "drainnow" /\ active' = FALSE
        /\ \A t \in Threads : pc[t] = "idle"
    BY <1>13 DEF StopTracing, Finalize, stopTracing, end, ControlCall, call
  <2> QED
    BY <1>3, <2>1 DEF QuietInv, IdsOfOwnStorage, Own
<1>14. CASE DrainBegin
  BY <1>3, <1>14 DEF DrainBegin, StacksToDrain, source, call, QuietInv, IdsOfOwnStorage, Own
<1>15. ASSUME NEW t \in Threads, DrainRow(t) PROVE IdsOfOwnStorage' /\ QuietInv'
  <2>1. /\ UNCHANGED <<active, ctl, todo, storage, registered, idsOf, pc, mine>>
        /\ stack' = [stack EXCEPT ![t] = Tail(@)] /\ stack[t] # <<>>
        /\ rows' \subseteq rows \cup {[thread |-> t, row |-> [Head(stack[t]) EXCEPT !.end = now],
                                       storage |-> storage]}
    BY <1>15 DEF DrainRow, Inserted, source, call, control
  <2>2. /\ stack[t] \in Seq(Row) /\ Head(stack[t]) = stack[t][1] /\ 1 \in DOMAIN stack[t]
        /\ \A i \in DOMAIN Tail(stack[t]) :
             i + 1 \in DOMAIN stack[t] /\ Tail(stack[t])[i] = stack[t][i + 1]
        /\ Head(stack[t]) \in Row
    BY <2>1, BelowTop DEF Types
  <2>3. Own([Head(stack[t]) EXCEPT !.end = now])
    <3>1. Head(stack[t]).ids = storage /\ Head(stack[t]).arg = storage
      BY <1>3, <2>2 DEF QuietInv, Own
    <3> QED
      BY <2>2, <3>1 DEF Row, Own
  <2>4. \A i \in DOMAIN stack'[t] : stack'[t][i].ids = storage /\ stack'[t][i].arg = storage
    BY <1>3, <2>1, <2>2 DEF QuietInv, Own, Types
  <2>5. QuietInv'
    BY <1>3, <2>1, <2>4 DEF QuietInv, Own, Types
  <2> HIDE DEF QuietInv
  <2>6. IdsOfOwnStorage'
    <3> DEFINE top == [Head(stack[t]) EXCEPT !.end = now]
    <3>1. Own(top)
      BY <2>3
    <3>2. rows' \subseteq rows \cup {[thread |-> t, row |-> top, storage |-> storage]}
      BY <2>1
    <3> HIDE DEF top
    <3> QED
      BY <1>3, <3>1, <3>2 DEF IdsOfOwnStorage, Own
  <2> QED
    BY <2>5, <2>6
<1>16. CASE DrainEnd \/ \E t \in Threads : DrainNext(t)
  <2>1. /\ UNCHANGED <<active, storage, rows, idsOf, pc, mine, stack, registered>>
        /\ ctl = "drain" /\ ctl' \in {"drain", "drainnow", "ended", "idle"}
        /\ ctl' = "drain" => \A t \in Threads : stack[t] # <<>> /\ t \in todo => t \in todo'
        /\ ctl' # "drain" => todo = {}
    BY <1>16 DEF DrainEnd, DrainNext, source, call, control
  <2> QED
    BY <1>3, <2>1 DEF QuietInv, IdsOfOwnStorage, Own
<1>17. CASE SwapStorage
  <2>1. \A t \in Threads : stack[t] = <<>> /\ pc[t] = "idle" /\ DOMAIN stack[t] = {}
    BY <1>3, <1>17 DEF SwapStorage, QuietInv
  <2> QED
    BY <1>3, <1>17, <2>1 DEF SwapStorage, source, call, QuietInv, IdsOfOwnStorage, Own
<1>18. CASE ResetSource \/ reset
  <2>1. \A t \in Threads : stack[t] = <<>> /\ pc[t] = "idle" /\ DOMAIN stack[t] = {}
    BY <1>3, <1>18 DEF ResetSource, reset, QuietInv
  <2> QED
    <3>1. /\ UNCHANGED <<active, storage, rows, pc, mine, stack, registered>>
          /\ ctl = "swapped" /\ ctl' = "idle" /\ idsOf' = 0
      BY <1>18 DEF ResetSource, reset, source, call
    <3> QED
      BY <1>3, <2>1, <3>1 DEF QuietInv, IdsOfOwnStorage, Own
<1>19. CASE UNCHANGED vars
  BY <1>3, <1>19 DEF vars, source, call, control, QuietInv, IdsOfOwnStorage, Own
<1> QED
  BY <1>5, <1>6, <1>7, <1>8, <1>9, <1>10, <1>11, <1>12, <1>13, <1>14, <1>15, <1>16, <1>17,
     <1>18, <1>19 DEF Next, NextRlog, CallStep, DrainStep

LEMMA InitIds == Init => IdsInv
<1> SUFFICES ASSUME Init PROVE IdsInv
  OBVIOUS
<1>1. Types
  BY InitOnce DEF IInv
<1>2. \A t \in Threads : stack[t] = <<>> /\ pc[t] = "idle" /\ DOMAIN stack[t] = {}
  BY DEF Init
<1> QED
  BY <1>1, <1>2 DEF Init, IdsInv, QuietInv, IdsOfOwnStorage

\* After a swap, roctx and nvtx forget their ids.
LEMMA LeavesSwapped == [Next]_vars => (ctl = "swapped" /\ ctl' # "swapped" => idsOf' = 0)
  BY DEF Next, CallStep, DrainStep, CallPush, CallPop, CallMark, Call, MakeRange, PushRow,
     TakeRange, MakeMark, InsertRow, Exit, StartTracing, StopTracing, Finalize, DrainBegin,
     DrainRow, DrainNext, DrainEnd, SwapStorage, ResetSource, IdsAfterReset, control, vars

\* If no control call comes during a call of the application, every string id of a
\* row of roctx or nvtx was made by the storage that the row is in.
THEOREM RangesKeepIds == Spec => []IdsOfOwnStorage
<1>1. IInv /\ IdsInv /\ [Next]_vars => IInv' /\ IdsInv'
  <2> SUFFICES ASSUME IInv, IdsInv, [Next]_vars PROVE IInv' /\ IdsInv'
    OBVIOUS
  <2> QED
    BY LeavesSwapped, OnceStep, IdsStep
<1>2. IdsInv => IdsOfOwnStorage
  BY DEF IdsInv
<1> QED
  BY InitOnce, InitIds, <1>1, <1>2, PTL DEF Spec

\* The source of rlog keeps no ids.
NoIds == idsOf = 0

\* The same with rlog.
THEOREM RlogRangesKeepIds == SpecRlog => []IdsOfOwnStorage
<1>1. IInv /\ IdsInv /\ NoIds /\ [NextRlog]_vars => IInv' /\ IdsInv' /\ NoIds'
  <2> SUFFICES ASSUME IInv, IdsInv, NoIds, [NextRlog]_vars PROVE IInv' /\ IdsInv' /\ NoIds'
    OBVIOUS
  <2>1. UNCHANGED idsOf
    BY DEF NextRlog, DrainStep, CallRlog, Call, rangePush, PushRow, rangePop, mark, InsertRow,
       Exit, startTracing, stopTracing, StopTracing, end, Finalize, DrainBegin, DrainRow,
       DrainNext, DrainEnd, SwapStorage, reset, source, vars
  <2> QED
    BY <2>1, OnceStep, IdsStep DEF NoIds
<1>2. Init => NoIds
  BY DEF Init, NoIds
<1>3. IdsInv => IdsOfOwnStorage
  BY DEF IdsInv
<1> QED
  BY InitOnce, InitIds, <1>1, <1>2, <1>3, PTL DEF SpecRlog

-----------------------------------------------------------------------------
(* The rows of a thread nest *)

Fits(a, b) == Disjoint(a, b) \/ Contains(a, b) \/ Contains(b, a)

\* What was recorded is over; during a session it lies before or after its resume.
RowTimes ==
    \A r \in rows : /\ r.row \in Row /\ r.row.start <= r.row.end /\ r.row.end < clock
                    /\ active => r.row.end <= resumeTime \/ resumeTime <= r.row.start

\* The stacks grow with time; a row was recorded before an open range of its thread
\* began, or began inside it.
StackTimes ==
    \A t \in Threads : \A i \in DOMAIN stack[t] :
        /\ stack[t][i].start < clock /\ (active => resumeTime <= stack[t][i].start)
        /\ \A j \in DOMAIN stack[t] : i < j => stack[t][j].start <= stack[t][i].start
        /\ \A r \in rows : r.thread = t =>
             r.row.end <= stack[t][i].start \/ stack[t][i].start <= r.row.start

\* A row in hand began after the open ranges of its thread, and fits with its rows.
MineTimes ==
    \A t \in Threads : pc[t] \in {"pushrow", "insert"} =>
        /\ mine[t].start < clock /\ resumeTime <= mine[t].start
        /\ \A i \in DOMAIN stack[t] : stack[t][i].start <= mine[t].start
        /\ pc[t] = "pushrow" => \A r \in rows : r.thread = t => r.row.end <= mine[t].start
        /\ pc[t] = "insert" =>
             /\ mine[t].start <= mine[t].end /\ mine[t].end < clock
             /\ \A r \in rows : r.thread = t => Fits(mine[t], r.row)

\* The drain closes what is open no earlier than what was recorded.
DrainTimes ==
    ctl = "drain" =>
        /\ now < clock
        /\ \A r \in rows : r.row.end <= now
        /\ \A t \in Threads : \A i \in DOMAIN stack[t] : stack[t][i].start <= now

\* Two rows of a thread fit, whichever storage they are in.
FitRows == \A r, q \in rows : r.thread = q.thread => Fits(r.row, q.row)

TimeInv == RowTimes /\ StackTimes /\ MineTimes /\ DrainTimes /\ resumeTime < clock
NestInv == ~raced => TimeInv /\ FitRows

LEMMA StackFacts ==
    ASSUME Types, NEW t \in Threads
    PROVE  /\ stack[t] \in Seq(Row) /\ DOMAIN stack[t] = 1 .. Len(stack[t]) /\ Len(stack[t]) \in Nat
           /\ \A i \in DOMAIN stack[t] : stack[t][i] \in Row /\ stack[t][i].start \in Nat /\ i \in Nat
           /\ mine[t] \in Row /\ mine[t].start \in Nat /\ mine[t].end \in Nat
<1>1. stack[t] \in Seq(Row) /\ mine[t] \in Row
  BY DEF Types
<1>2. \A row \in Row : row.start \in Nat /\ row.end \in Nat
  BY DEF Row
<1> QED
  BY <1>1, <1>2

\* Steps that change neither stacks nor rows, and put no row in a thread's hands.
LEMMA TimesKept ==
    ASSUME TimeInv, Types, Types', UNCHANGED <<stack, mine, rows, now>>, clock <= clock',
           UNCHANGED resumeTime, active' => active, ctl' = "drain" => ctl = "drain",
           \A t \in Threads : pc'[t] = pc[t] \/ pc'[t] \notin {"pushrow", "insert"}
    PROVE  TimeInv'
<1> USE DEF TimeInv
<1>1. clock \in Nat /\ clock' \in Nat /\ now \in Nat /\ resumeTime \in Nat
  BY DEF Types
<1>2. \A row \in Row : row.start \in Nat /\ row.end \in Nat
  BY DEF Row
<1>3. RowTimes'
  BY <1>1, <1>2 DEF RowTimes
<1>4. StackTimes'
  BY <1>1, <1>2, StackFacts DEF StackTimes, RowTimes
<1>5. MineTimes'
  BY <1>1, <1>2, StackFacts DEF MineTimes, RowTimes
<1>6. DrainTimes'
  BY <1>1, <1>2, StackFacts DEF DrainTimes, RowTimes
<1> QED
  BY <1>1, <1>3, <1>4, <1>5, <1>6

\* A thread takes a row in hand that begins no earlier than all it has open.
LEMMA TimesTaken ==
    ASSUME TimeInv, QuietInv, Types, Types', NEW t \in Threads, NEW row \in Row, active, active',
           UNCHANGED <<rows, now, resumeTime, ctl>>, clock' = clock + 1,
           \A u \in Threads \ {t} : mine'[u] = mine[u] /\ pc'[u] = pc[u] /\ stack'[u] = stack[u],
           mine'[t] = row, pc'[t] \in {"pushrow", "insert"},
           \A i \in DOMAIN stack'[t] :
             /\ stack'[t][i].start <= row.start
             /\ \/ i \in DOMAIN stack[t] /\ stack'[t] = stack[t]
                \/ stack[t] # <<>> /\ stack'[t] = Tail(stack[t]),
           row.start < clock', resumeTime <= row.start,
           pc'[t] = "pushrow" => row.start = clock,
           pc'[t] = "insert" =>
             /\ row.start <= row.end /\ row.end = clock
             /\ \A r \in rows : r.thread = t => Fits(row, r.row)
    PROVE  TimeInv'
<1> USE DEF TimeInv
<1>1. clock \in Nat /\ clock' \in Nat /\ now \in Nat /\ resumeTime \in Nat /\ clock < clock'
  BY DEF Types
<1>2. \A r \in Row : r.start \in Nat /\ r.end \in Nat
  BY DEF Row
<1>3. RowTimes'
  BY <1>1, <1>2 DEF RowTimes
<1>4. \A i \in DOMAIN stack'[t] : \E k \in {0, 1} :
        /\ i \in Nat
        /\ \A j \in DOMAIN stack'[t] : j + k \in DOMAIN stack[t] /\ stack'[t][j] = stack[t][j + k]
  <2> TAKE i \in DOMAIN stack'[t]
  <2>1. CASE stack'[t] = stack[t]
    BY <2>1, StackFacts
  <2>2. CASE stack[t] # <<>> /\ stack'[t] = Tail(stack[t])
    <3>1. /\ DOMAIN Tail(stack[t]) = 1 .. Len(stack[t]) - 1 /\ Len(stack[t]) \in Nat \ {0}
          /\ \A j \in 1 .. Len(stack[t]) - 1 : Tail(stack[t])[j] = stack[t][j + 1]
          /\ DOMAIN stack[t] = 1 .. Len(stack[t])
      BY <2>2, BelowTop, StackFacts
    <3> QED
      BY <2>2, <3>1
  <2> QED
    BY <2>1, <2>2
<1>5. StackTimes'
  <2>1. ASSUME NEW i \in DOMAIN stack'[t]
        PROVE  /\ stack'[t][i].start < clock' /\ resumeTime <= stack'[t][i].start
               /\ \A j \in DOMAIN stack'[t] : i < j => stack'[t][j].start <= stack'[t][i].start
               /\ \A r \in rows : r.thread = t =>
                    r.row.end <= stack'[t][i].start \/ stack'[t][i].start <= r.row.start
    <3>1. PICK k \in {0, 1} :
            /\ i \in Nat
            /\ \A j \in DOMAIN stack'[t] : j + k \in DOMAIN stack[t] /\ stack'[t][j] = stack[t][j + k]
      BY <1>4
    <3>2. \A j \in DOMAIN stack'[t] : j \in Nat
      BY <1>4
    <3>3. /\ stack[t][i + k].start < clock /\ resumeTime <= stack[t][i + k].start
          /\ \A j \in DOMAIN stack[t] : i + k < j => stack[t][j].start <= stack[t][i + k].start
          /\ \A r \in rows : r.thread = t =>
               r.row.end <= stack[t][i + k].start \/ stack[t][i + k].start <= r.row.start
      BY <3>1 DEF StackTimes
    <3>4. stack[t][i + k].start \in Nat /\ stack'[t][i] = stack[t][i + k]
      BY <3>1, StackFacts
    <3> QED
      BY <1>1, <3>1, <3>2, <3>3, <3>4
  <2>2. ASSUME NEW u \in Threads, u # t, NEW i \in DOMAIN stack[u]
        PROVE  stack[u][i].start < clock'
    BY <1>1, <2>2, StackFacts DEF StackTimes
  <2> QED
    BY <2>1, <2>2 DEF StackTimes
<1>6. MineTimes'
  <2>1. ASSUME NEW u \in Threads, pc'[u] \in {"pushrow", "insert"}
        PROVE  /\ mine'[u].start < clock' /\ resumeTime <= mine'[u].start
               /\ \A i \in DOMAIN stack'[u] : stack'[u][i].start <= mine'[u].start
               /\ pc'[u] = "pushrow" => \A r \in rows : r.thread = u => r.row.end <= mine'[u].start
               /\ pc'[u] = "insert" =>
                    /\ mine'[u].start <= mine'[u].end /\ mine'[u].end < clock'
                    /\ \A r \in rows : r.thread = u => Fits(mine'[u], r.row)
    <3>1. CASE u = t
      BY <1>1, <1>2, <3>1 DEF RowTimes
    <3>2. CASE u # t
      BY <1>1, <1>2, <2>1, <3>2, StackFacts DEF MineTimes
    <3> QED
      BY <3>1, <3>2
  <2> QED
    BY <2>1 DEF MineTimes
<1>7. DrainTimes' /\ resumeTime' < clock'
  BY <1>1 DEF DrainTimes, QuietInv
<1> QED
  BY <1>3, <1>5, <1>6, <1>7

LEMMA NestStep ==
    ASSUME NestInv, IdsInv, IInv, [Next \/ NextRlog]_vars,
           ~active /\ active' => resumeTime' \in {0, clock}
    PROVE  NestInv'
<1>0. Types /\ Types'
  BY TypesStep DEF IInv
<1>1. raced => raced'
  BY DEF Next, NextRlog, CallStep, DrainStep, CallPush, CallPop, CallMark, CallRlog, Call,
     MakeRange, rangePush, PushRow, TakeRange, rangePop, MakeMark, mark, InsertRow, Exit,
     StartTracing, StopTracing, Finalize, startTracing, stopTracing, end, ControlCall,
     DrainBegin, DrainRow, DrainNext, DrainEnd, SwapStorage, ResetSource, reset, vars
<1> SUFFICES ASSUME ~raced' PROVE TimeInv' /\ FitRows'
  BY DEF NestInv
<1>2. QuietInv /\ TimeInv /\ FitRows /\ ~raced
  BY <1>1 DEF NestInv, IdsInv
<1>3. clock \in Nat /\ now \in Nat /\ resumeTime \in Nat
  BY <1>0 DEF Types
<1>4. \A r \in Row : r.start \in Nat /\ r.end \in Nat
  BY DEF Row
<1>5. ASSUME NEW t \in Threads,
             \/ CallPush(t) \/ CallPop(t) \/ CallMark(t)
             \/ \E place \in {"push", "pop", "mark"} : CallRlog(t, place)
      PROVE  TimeInv' /\ FitRows'
  <2>1. PICK place \in {"push", "pop", "mark"} : Call(t, place)
    BY <1>5 DEF CallPush, CallPop, CallMark, CallRlog
  <2>2. /\ UNCHANGED <<stack, mine, rows, now, clock, resumeTime, active, ctl>>
        /\ \A u \in Threads : pc'[u] = pc[u] \/ pc'[u] \notin {"pushrow", "insert"}
    BY <1>0, <2>1 DEF Call, Goto, source, control, Types
  <2> QED
    BY <1>0, <1>2, <1>3, <2>2, TimesKept DEF FitRows
<1>6. ASSUME NEW t \in Threads, MakeRange(t) \/ rangePush(t) \/ MakeMark(t) \/ mark(t)
      PROVE  TimeInv' /\ FitRows'
  <2>1. active /\ resumeTime < clock
    BY <1>2, <1>6 DEF QuietInv, TimeInv, MakeRange, rangePush, MakeMark, mark
  <2>2. /\ UNCHANGED <<active, resumeTime, ctl, now, stack, rows>> /\ clock' = clock + 1
        /\ \A u \in Threads \ {t} : mine'[u] = mine[u] /\ pc'[u] = pc[u]
        /\ mine'[t].start = clock
        /\ \/ pc'[t] = "pushrow"
           \/ pc'[t] = "insert" /\ mine'[t].end = clock
    <3>1. CASE MakeRange(t)
      BY <1>0, <3>1 DEF MakeRange, Tick, Hold, Goto, control, Types
    <3>2. CASE rangePush(t)
      BY <1>0, <3>2 DEF rangePush, Tick, Hold, Goto, source, control, Types
    <3>3. CASE MakeMark(t)
      BY <1>0, <3>3 DEF MakeMark, Tick, Hold, Goto, control, Types
    <3>4. CASE mark(t)
      BY <1>0, <3>4 DEF mark, Tick, Hold, Goto, source, control, Types
    <3> QED
      BY <1>6, <3>1, <3>2, <3>3, <3>4
  <2>3. mine'[t] \in Row
    BY <1>0 DEF Types
  <2>4. \A i \in DOMAIN stack'[t] : stack'[t][i].start <= mine'[t].start /\ i \in DOMAIN stack[t]
    BY <1>0, <1>2, <1>3, <2>2, StackFacts DEF TimeInv, StackTimes
  <2>5. mine'[t].end = clock => \A r \in rows : r.thread = t => Fits(mine'[t], r.row)
    BY <1>2, <1>3, <1>4, <2>2 DEF TimeInv, RowTimes, Fits, Disjoint
  <2>6. TimeInv'
    BY <1>0, <1>2, <1>3, <2>1, <2>2, <2>3, <2>4, <2>5, TimesTaken
  <2> QED
    BY <1>2, <2>2, <2>6 DEF FitRows
<1>7. ASSUME NEW t \in Threads, PushRow(t) PROVE TimeInv' /\ FitRows'
  <2>1. /\ UNCHANGED <<active, resumeTime, ctl, now, clock, rows>> /\ pc[t] = "pushrow"
        /\ pc' = [pc EXCEPT ![t] = "idle"] /\ mine' = [mine EXCEPT ![t] = NoRow]
        /\ stack' = [stack EXCEPT ![t] = <<mine[t]>> \o @]
    BY <1>7 DEF PushRow, Goto, Hold, source, control
  <2>2. /\ \A u \in Threads \ {t} : stack'[u] = stack[u] /\ mine'[u] = mine[u] /\ pc'[u] = pc[u]
        /\ pc'[t] = "idle" /\ stack'[t] = <<mine[t]>> \o stack[t]
    BY <1>0, <2>1 DEF Types
  <2>3. /\ DOMAIN stack'[t] = 1 .. Len(stack[t]) + 1 /\ DOMAIN stack[t] = 1 .. Len(stack[t])
        /\ Len(stack[t]) \in Nat /\ stack'[t][1] = mine[t] /\ mine[t].start \in Nat
        /\ \A i \in 1 .. Len(stack[t]) : stack'[t][i + 1] = stack[t][i]
    BY <1>0, <2>2, StackFacts, OnTop
  <2>4. active /\ ctl # "drain"
    BY <1>2, <2>1 DEF QuietInv
  <2>5. \A i \in DOMAIN stack'[t] :
           \/ i = 1 /\ stack'[t][i] = mine[t]
           \/ /\ i \in Nat /\ i - 1 \in DOMAIN stack[t] /\ i - 1 \in Nat /\ 1 < i
              /\ stack'[t][i] = stack[t][i - 1]
    <3>1. ASSUME NEW i \in DOMAIN stack'[t], i # 1
          PROVE  /\ i \in Nat /\ i - 1 \in DOMAIN stack[t] /\ i - 1 \in Nat /\ 1 < i
                 /\ stack'[t][i] = stack[t][i - 1]
      <4>1. i \in Nat /\ i - 1 \in 1 .. Len(stack[t]) /\ (i - 1) + 1 = i
        BY <2>3, <3>1
      <4>2. stack'[t][(i - 1) + 1] = stack[t][i - 1]
        BY <2>3, <4>1
      <4> QED
        BY <2>3, <4>1, <4>2
    <3> QED
      BY <2>3, <3>1
  <2>6. /\ mine[t].start < clock /\ resumeTime <= mine[t].start
        /\ \A i \in DOMAIN stack[t] : stack[t][i].start <= mine[t].start
        /\ \A r \in rows : r.thread = t => r.row.end <= mine[t].start
    BY <1>2, <2>1 DEF TimeInv, MineTimes
  <2>7. ASSUME NEW i \in DOMAIN stack'[t]
        PROVE  /\ stack'[t][i].start < clock /\ resumeTime <= stack'[t][i].start
               /\ \A j \in DOMAIN stack'[t] : i < j => stack'[t][j].start <= stack'[t][i].start
               /\ \A r \in rows : r.thread = t =>
                    r.row.end <= stack'[t][i].start \/ stack'[t][i].start <= r.row.start
    <3>1. CASE i = 1
      BY <2>5, <2>6, <3>1
    <3>2. CASE i # 1
      <4>1. /\ i \in Nat /\ i - 1 \in DOMAIN stack[t] /\ i - 1 \in Nat /\ 1 < i
            /\ stack'[t][i] = stack[t][i - 1]
        BY <2>5, <3>2
      <4>2. ASSUME NEW j \in DOMAIN stack'[t], i < j
            PROVE  stack'[t][j].start <= stack'[t][i].start
        <5>1. /\ j \in Nat /\ j - 1 \in DOMAIN stack[t] /\ j - 1 \in Nat
              /\ stack'[t][j] = stack[t][j - 1]
          BY <2>5, <4>1, <4>2
        <5>2. i - 1 < j - 1
          BY <4>1, <4>2, <5>1
        <5> QED
          BY <1>2, <4>1, <5>1, <5>2 DEF TimeInv, StackTimes
      <4> QED
        BY <1>2, <2>4, <4>1, <4>2 DEF TimeInv, StackTimes
    <3> QED
      BY <3>1, <3>2
  <2>8. StackTimes'
    <3>1. ASSUME NEW u \in Threads, u # t, NEW i \in DOMAIN stack[u]
          PROVE  /\ stack[u][i].start < clock /\ resumeTime <= stack[u][i].start
                 /\ \A j \in DOMAIN stack[u] : i < j => stack[u][j].start <= stack[u][i].start
                 /\ \A r \in rows : r.thread = u =>
                      r.row.end <= stack[u][i].start \/ stack[u][i].start <= r.row.start
      BY <1>2, <2>4, <3>1 DEF TimeInv, StackTimes
    <3>2. UNCHANGED <<rows, clock, resumeTime>>
      BY <2>1
    <3> QED
      BY <2>2, <2>7, <3>1, <3>2 DEF StackTimes
  <2>9. MineTimes'
    BY <1>2, <2>1, <2>2 DEF TimeInv, MineTimes
  <2> QED
    BY <1>2, <2>1, <2>4, <2>8, <2>9 DEF TimeInv, RowTimes, DrainTimes, FitRows
<1>8. ASSUME NEW t \in Threads, TakeRange(t) \/ rangePop(t), stack[t] # <<>>
      PROVE  TimeInv' /\ FitRows'
  <2>1. /\ UNCHANGED <<active, resumeTime, ctl, now, rows>> /\ clock' = clock + 1
        /\ pc[t] = "pop" /\ pc' = [pc EXCEPT ![t] = "insert"]
        /\ stack' = [stack EXCEPT ![t] = Tail(@)]
        /\ mine' = [mine EXCEPT ![t] = [Head(stack[t]) EXCEPT !.end = clock]]
    BY <1>8 DEF TakeRange, rangePop, Tick, Goto, Hold, AfterPop, source, control
  <2>2. /\ \A u \in Threads \ {t} : stack'[u] = stack[u] /\ mine'[u] = mine[u] /\ pc'[u] = pc[u]
        /\ pc'[t] = "insert" /\ stack'[t] = Tail(stack[t])
        /\ mine'[t] = [Head(stack[t]) EXCEPT !.end = clock]
    BY <1>0, <2>1 DEF Types
  <2>3. /\ 1 \in DOMAIN stack[t] /\ Head(stack[t]) = stack[t][1] /\ Head(stack[t]) \in Row
        /\ \A i \in DOMAIN stack'[t] :
             i + 1 \in DOMAIN stack[t] /\ stack'[t][i] = stack[t][i + 1] /\ 1 < i + 1
    <3>1. /\ DOMAIN Tail(stack[t]) = 1 .. Len(stack[t]) - 1 /\ Len(stack[t]) \in Nat \ {0}
          /\ \A i \in 1 .. Len(stack[t]) - 1 : Tail(stack[t])[i] = stack[t][i + 1]
          /\ DOMAIN stack[t] = 1 .. Len(stack[t])
          /\ Head(stack[t]) = stack[t][1] /\ Head(stack[t]) \in Row
      BY <1>0, <1>8, BelowTop, StackFacts
    <3> QED
      BY <2>2, <3>1
  <2>4. active
    BY <1>2, <2>1 DEF QuietInv
  <2>5. /\ stack[t][1].start < clock /\ resumeTime <= stack[t][1].start
        /\ \A j \in DOMAIN stack[t] : 1 < j => stack[t][j].start <= stack[t][1].start
        /\ \A r \in rows : r.thread = t =>
             r.row.end <= stack[t][1].start \/ stack[t][1].start <= r.row.start
    BY <1>2, <2>3, <2>4 DEF TimeInv, StackTimes
  <2>6. /\ mine'[t].start = stack[t][1].start /\ mine'[t].end = clock /\ stack[t][1].start \in Nat
        /\ mine'[t] \in Row
    BY <1>0, <1>3, <1>4, <2>2, <2>3, Closed DEF Row
  <2>7. \A r \in rows : r.thread = t => Fits(mine'[t], r.row)
    BY <1>2, <1>3, <1>4, <2>5, <2>6 DEF TimeInv, RowTimes, Fits, Disjoint, Contains
  <2>8. \A i \in DOMAIN stack'[t] : stack'[t][i].start <= mine'[t].start
    BY <2>3, <2>5, <2>6
  <2>9. mine'[t].start <= mine'[t].end /\ mine'[t].start < clock'
    BY <1>3, <2>1, <2>5, <2>6
  <2>10. TimeInv'
    BY <1>0, <1>2, <1>8, <2>1, <2>2, <2>4, <2>5, <2>6, <2>7, <2>8, <2>9, TimesTaken
  <2> QED
    BY <1>2, <2>1, <2>10 DEF FitRows
<1>9. ASSUME NEW t \in Threads, TakeRange(t), stack[t] = <<>> PROVE TimeInv' /\ FitRows'
  <2> DEFINE row == [range |-> Unnamed, start |-> PlaceholderStart, end |-> clock,
                     ids |-> CacheIds, arg |-> storage]
  <2>1. row \in Row /\ row.start = resumeTime /\ row.end = clock
    BY <1>0 DEF Row, PlaceholderStart, CacheIds, Types
  <2>2. /\ UNCHANGED <<active, resumeTime, ctl, now, stack, rows>> /\ clock' = clock + 1
        /\ pc[t] = "pop" /\ pc' = [pc EXCEPT ![t] = "insert"] /\ mine' = [mine EXCEPT ![t] = row]
    BY <1>9 DEF TakeRange, Tick, Hold, Goto, control
  <2> HIDE DEF row
  <2>3. /\ \A u \in Threads \ {t} : mine'[u] = mine[u] /\ pc'[u] = pc[u]
        /\ mine'[t] = row /\ pc'[t] = "insert"
    BY <1>0, <2>2 DEF Types
  <2>4. active /\ resumeTime < clock
    BY <1>2, <2>2 DEF QuietInv, TimeInv
  <2>5. \A r \in rows : r.thread = t => Fits(row, r.row)
    BY <1>2, <1>3, <1>4, <2>1, <2>4 DEF TimeInv, RowTimes, Fits, Disjoint, Contains
  <2>6. DOMAIN stack'[t] = {}
    BY <1>9, <2>2
  <2>7. row.start < clock' /\ resumeTime <= row.start /\ row.start <= row.end
    BY <1>3, <2>1, <2>2, <2>4
  <2>8. TimeInv'
    BY <1>0, <1>2, <2>1, <2>2, <2>3, <2>4, <2>5, <2>6, <2>7, TimesTaken
  <2> QED
    BY <1>2, <2>2, <2>8 DEF FitRows
<1>10. ASSUME NEW t \in Threads, rangePop(t), stack[t] = <<>> PROVE TimeInv' /\ FitRows'
  <2>1. /\ UNCHANGED <<stack, mine, rows, now, clock, resumeTime, active, ctl>>
        /\ \A u \in Threads : pc'[u] = pc[u] \/ pc'[u] \notin {"pushrow", "insert"}
    BY <1>0, <1>10 DEF rangePop, Goto, source, control, Types
  <2> QED
    BY <1>0, <1>2, <1>3, <2>1, TimesKept DEF FitRows
<1>11. ASSUME NEW t \in Threads, InsertRow(t) PROVE TimeInv' /\ FitRows'
  <2> DEFINE new == [thread |-> t, row |-> mine[t], storage |-> storage]
  <2>1. /\ UNCHANGED <<active, resumeTime, ctl, now, clock, stack>> /\ pc[t] = "insert"
        /\ pc' = [pc EXCEPT ![t] = "idle"] /\ mine' = [mine EXCEPT ![t] = NoRow]
        /\ rows' \subseteq rows \cup {new}
    BY <1>11 DEF InsertRow, Inserted, Goto, Hold, source, control
  <2>2. \A u \in Threads \ {t} : mine'[u] = mine[u] /\ pc'[u] = pc[u]
    BY <1>0, <2>1 DEF Types
  <2>3. pc'[t] = "idle" /\ mine[t] \in Row /\ mine[t].start \in Nat /\ mine[t].end \in Nat
    BY <1>0, <2>1, StackFacts DEF Types
  <2>4. /\ mine[t].start < clock /\ resumeTime <= mine[t].start
        /\ \A i \in DOMAIN stack[t] : stack[t][i].start <= mine[t].start
        /\ mine[t].start <= mine[t].end /\ mine[t].end < clock
        /\ \A r \in rows : r.thread = t => Fits(mine[t], r.row)
    BY <1>2, <2>1 DEF TimeInv, MineTimes
  <2>5. new.thread = t /\ new.row = mine[t]
    OBVIOUS
  <2> HIDE DEF new
  <2>6. RowTimes'
    BY <1>2, <2>1, <2>3, <2>4, <2>5 DEF TimeInv, RowTimes
  <2>7. StackTimes'
    BY <1>2, <2>1, <2>4, <2>5 DEF TimeInv, StackTimes
  <2>8. MineTimes'
    BY <1>2, <2>1, <2>2, <2>3, <2>5 DEF TimeInv, MineTimes
  <2>9. DrainTimes' /\ resumeTime' < clock'
    BY <1>2, <2>1 DEF TimeInv, DrainTimes, QuietInv
  <2>10. FitRows'
    BY <1>2, <2>1, <2>3, <2>4, <2>5 DEF FitRows, Fits, Contains, Disjoint
  <2> QED
    BY <2>6, <2>7, <2>8, <2>9, <2>10 DEF TimeInv
<1>12. ASSUME NEW t \in Threads, Exit(t) PROVE TimeInv' /\ FitRows'
  <2>1. /\ UNCHANGED <<active, resumeTime, ctl, now, clock, rows, pc, mine>>
        /\ stack' = [stack EXCEPT ![t] = <<>>]
    BY <1>12 DEF Exit, source, call, control
  <2>2. DOMAIN stack'[t] = {} /\ \A u \in Threads \ {t} : stack'[u] = stack[u]
    BY <1>0, <2>1 DEF Types
  <2> QED
    BY <1>2, <2>1, <2>2 DEF TimeInv, RowTimes, StackTimes, MineTimes, DrainTimes, FitRows
<1>13. CASE StartTracing \/ startTracing
  <2>1. /\ UNCHANGED <<ctl, now, stack, rows, pc, mine>> /\ clock' \in {clock, clock + 1}
        /\ ctl = "idle" /\ ~active /\ active' /\ resumeTime' < clock'
    BY <1>2, <1>3, <1>13 DEF StartTracing, startTracing, Tick, call, control, TimeInv
  <2>2. \A t \in Threads : DOMAIN stack[t] = {} /\ pc[t] = "idle"
    BY <1>2, <2>1 DEF QuietInv
  <2>3. RowTimes'
    BY <1>2, <1>3, <1>4, <2>1 DEF TimeInv, RowTimes
  <2> QED
    BY <1>2, <2>1, <2>2, <2>3 DEF TimeInv, StackTimes, MineTimes, DrainTimes, FitRows
<1>14. CASE StopTracing \/ Finalize \/ stopTracing \/ end
  <2>1. /\ UNCHANGED <<now, stack, rows, pc, mine, resumeTime, clock>>
        /\ ctl' = "drainnow" /\ active' = FALSE
    BY <1>14 DEF StopTracing, Finalize, stopTracing, end, call
  <2> QED
    BY <1>0, <1>2, <1>3, <2>1, TimesKept DEF FitRows
<1>15. CASE DrainBegin
  <2>1. /\ UNCHANGED <<active, stack, rows, pc, mine, resumeTime>> /\ clock' = clock + 1 /\ now' = clock
        /\ ctl = "drainnow"
    BY <1>15 DEF DrainBegin, Tick, source, call
  <2>2. ~active /\ \A t \in Threads : pc[t] = "idle"
    BY <1>2, <2>1 DEF QuietInv
  <2>3. RowTimes' /\ resumeTime' < clock'
    BY <1>2, <1>3, <1>4, <2>1 DEF TimeInv, RowTimes
  <2>4. \A t \in Threads : \A i \in DOMAIN stack[t] :
           stack[t][i].start < clock /\ stack[t][i].start \in Nat
    BY <1>0, <1>2, StackFacts DEF TimeInv, StackTimes
  <2>5. StackTimes'
    BY <1>2, <1>3, <2>1, <2>2, <2>4 DEF TimeInv, StackTimes
  <2>6. MineTimes'
    BY <2>1, <2>2 DEF MineTimes
  <2>7. DrainTimes'
    BY <1>2, <1>3, <1>4, <2>1, <2>4 DEF TimeInv, RowTimes, DrainTimes
  <2> QED
    BY <1>2, <2>1, <2>3, <2>5, <2>6, <2>7 DEF TimeInv, FitRows
<1>16. ASSUME NEW t \in Threads, DrainRow(t) PROVE TimeInv' /\ FitRows'
  <2> DEFINE top == [Head(stack[t]) EXCEPT !.end = now]
             new == [thread |-> t, row |-> top, storage |-> storage]
  <2>1. /\ UNCHANGED <<active, resumeTime, ctl, now, clock, pc, mine>> /\ stack[t] # <<>>
        /\ stack' = [stack EXCEPT ![t] = Tail(@)] /\ ctl = "drain"
        /\ rows' \subseteq rows \cup {new}
    BY <1>16 DEF DrainRow, Inserted, source, call, control
  <2>2. \A u \in Threads \ {t} : stack'[u] = stack[u]
    BY <1>0, <2>1 DEF Types
  <2>3. /\ 1 \in DOMAIN stack[t] /\ Head(stack[t]) = stack[t][1] /\ Head(stack[t]) \in Row
        /\ \A i \in DOMAIN stack'[t] :
             /\ i \in Nat /\ i + 1 \in DOMAIN stack[t]
             /\ stack'[t][i] = stack[t][i + 1] /\ 1 < i + 1
    <3>1. stack'[t] = Tail(stack[t])
      BY <1>0, <2>1 DEF Types
    <3>2. /\ DOMAIN Tail(stack[t]) = 1 .. Len(stack[t]) - 1 /\ Len(stack[t]) \in Nat \ {0}
          /\ \A i \in 1 .. Len(stack[t]) - 1 : Tail(stack[t])[i] = stack[t][i + 1]
          /\ DOMAIN stack[t] = 1 .. Len(stack[t])
          /\ Head(stack[t]) = stack[t][1] /\ Head(stack[t]) \in Row
      BY <1>0, <2>1, BelowTop, StackFacts
    <3> QED
      BY <3>1, <3>2
  <2>4. ~active /\ \A u \in Threads : pc[u] = "idle"
    BY <1>2, <2>1 DEF QuietInv
  <2>5. /\ top.start = stack[t][1].start /\ top.end = now /\ top \in Row
        /\ stack[t][1].start \in Nat /\ stack[t][1].start <= now /\ now < clock
    BY <1>0, <1>2, <1>3, <1>4, <2>1, <2>3, Closed DEF Row, TimeInv, DrainTimes
  <2>6. new.thread = t /\ new.row = top
    OBVIOUS
  <2> HIDE DEF top, new
  <2>7. /\ \A j \in DOMAIN stack[t] : 1 < j => stack[t][j].start <= stack[t][1].start
        /\ \A r \in rows : r.thread = t =>
             r.row.end <= stack[t][1].start \/ stack[t][1].start <= r.row.start
    BY <1>2, <2>3 DEF TimeInv, StackTimes
  <2>8. \A r \in rows : r.row.end <= now /\ r.row \in Row
    BY <1>2, <2>1 DEF TimeInv, DrainTimes, RowTimes
  <2>9. \A r \in rows : r.thread = t => Fits(top, r.row) /\ Fits(r.row, top)
    BY <1>3, <1>4, <2>5, <2>7, <2>8 DEF Fits, Disjoint, Contains
  <2>10. FitRows'
    <3>1. Fits(top, top)
      BY <1>3, <2>5 DEF Fits, Contains
    <3> QED
      BY <1>2, <2>1, <2>6, <2>9, <3>1 DEF FitRows
  <2>11. RowTimes'
    BY <1>2, <2>1, <2>4, <2>5, <2>6 DEF TimeInv, RowTimes
  <2>12. StackTimes'
    <3>1. ASSUME NEW i \in DOMAIN stack'[t]
          PROVE  /\ stack'[t][i].start < clock
                 /\ \A j \in DOMAIN stack'[t] : i < j => stack'[t][j].start <= stack'[t][i].start
                 /\ \A r \in rows' : r.thread = t =>
                      r.row.end <= stack'[t][i].start \/ stack'[t][i].start <= r.row.start
      <4>1. /\ i + 1 \in DOMAIN stack[t] /\ stack'[t][i] = stack[t][i + 1]
            /\ stack[t][i + 1].start <= stack[t][1].start
        BY <2>3, <2>7
      <4>2. /\ stack[t][i + 1].start < clock
            /\ \A j \in DOMAIN stack[t] : i + 1 < j => stack[t][j].start <= stack[t][i + 1].start
            /\ \A r \in rows : r.thread = t =>
                 r.row.end <= stack[t][i + 1].start \/ stack[t][i + 1].start <= r.row.start
        BY <1>2, <4>1 DEF TimeInv, StackTimes
      <4>3. ASSUME NEW j \in DOMAIN stack'[t], i < j
            PROVE  stack'[t][j].start <= stack'[t][i].start
        <5>1. i + 1 < j + 1
          BY <2>3, <4>3
        <5> QED
          BY <2>3, <4>1, <4>2, <5>1
      <4> QED
        BY <2>1, <2>5, <2>6, <4>1, <4>2, <4>3
    <3>2. ASSUME NEW u \in Threads, u # t, NEW r \in rows', r.thread = u PROVE r \in rows
      BY <2>1, <2>6, <3>2
    <3> QED
      BY <1>2, <2>1, <2>2, <2>4, <3>1, <3>2 DEF TimeInv, StackTimes
  <2>13. MineTimes'
    BY <2>1, <2>4 DEF MineTimes
  <2>14. DrainTimes' /\ resumeTime' < clock'
    <3>1. \A u \in Threads : \A i \in DOMAIN stack'[u] :
             \E j \in DOMAIN stack[u] : stack'[u][i] = stack[u][j]
      BY <2>2, <2>3
    <3> QED
      BY <1>2, <1>3, <2>1, <2>5, <2>6, <2>8, <3>1 DEF TimeInv, DrainTimes
  <2> QED
    BY <2>10, <2>11, <2>12, <2>13, <2>14 DEF TimeInv
<1>17. CASE \/ DrainEnd \/ SwapStorage \/ ResetSource \/ reset
            \/ (\E t \in Threads : DrainNext(t)) \/ UNCHANGED vars
  <2>1. /\ UNCHANGED <<active, now, stack, rows, pc, mine, resumeTime, clock>>
        /\ ctl' = "drain" => ctl = "drain"
    BY <1>17 DEF DrainEnd, SwapStorage, ResetSource, reset, DrainNext, vars, source, call, control
  <2> QED
    BY <1>0, <1>2, <1>3, <2>1, TimesKept DEF FitRows
<1> QED
  BY <1>5, <1>6, <1>7, <1>8, <1>9, <1>10, <1>11, <1>12, <1>13, <1>14, <1>15, <1>16, <1>17
     DEF Next, NextRlog, CallStep, DrainStep

LEMMA FitsNested == NestInv => Nested
<1> SUFFICES ASSUME NestInv, NEW r \in rows, NEW q \in rows,
                    ~raced, r.thread = q.thread
             PROVE  Fits(r.row, q.row)
  BY DEF Nested, Fits
<1> QED
  BY DEF NestInv, FitRows

LEMMA InitNest == Init => NestInv
<1> SUFFICES ASSUME Init PROVE NestInv
  OBVIOUS
<1>1. \A t \in Threads : pc[t] = "idle" /\ DOMAIN stack[t] = {}
  BY DEF Init
<1> QED
  BY <1>1 DEF Init, NestInv, TimeInv, RowTimes, StackTimes, MineTimes, DrainTimes, FitRows

\* If no control call comes during a call of the application, two rows of a thread in
\* roctx or nvtx are disjoint or one contains the other.
THEOREM RangesNest == Spec => []Nested
<1> DEFINE Inv == IInv /\ IdsInv /\ NestInv
<1>1. Init => Inv
  BY InitOnce, InitIds, InitNest
<1>2. Inv /\ [Next]_vars => Inv'
  <2> SUFFICES ASSUME Inv, [Next]_vars PROVE Inv'
    OBVIOUS
  <2>1. IInv' /\ IdsInv'
    BY OnceStep, IdsStep, LeavesSwapped
  <2>2. ~active /\ active' => resumeTime' \in {0, clock}
    BY DEF Next, CallStep, DrainStep, CallPush, CallPop, CallMark, Call, MakeRange, PushRow,
       TakeRange, MakeMark, InsertRow, Exit, StartTracing, StopTracing, Finalize, DrainBegin,
       DrainRow, DrainNext, DrainEnd, SwapStorage, ResetSource, source, vars
  <2> QED
    BY <2>1, <2>2, NestStep
<1>3. Inv => Nested
  BY FitsNested
<1> QED
  BY <1>1, <1>2, <1>3, PTL DEF Spec

\* The source of rlog keeps no time either.
NoResume == NoIds /\ resumeTime = 0

\* The same with rlog.
THEOREM RlogRangesNest == SpecRlog => []Nested
<1> DEFINE Inv == IInv /\ IdsInv /\ NestInv /\ NoResume
<1>1. Init => Inv
  BY InitOnce, InitIds, InitNest DEF Init, NoResume, NoIds
<1>2. Inv /\ [NextRlog]_vars => Inv'
  <2> SUFFICES ASSUME Inv, [NextRlog]_vars PROVE Inv'
    OBVIOUS
  <2>1. UNCHANGED <<idsOf, resumeTime>>
    BY DEF NextRlog, DrainStep, CallRlog, Call, rangePush, PushRow, rangePop, mark, InsertRow,
       Exit, startTracing, stopTracing, StopTracing, end, Finalize, DrainBegin, DrainRow,
       DrainNext, DrainEnd, SwapStorage, reset, source, vars
  <2>2. IInv' /\ IdsInv' /\ NestInv'
    BY <2>1, OnceStep, IdsStep, NestStep DEF NoResume, NoIds
  <2> QED
    BY <2>1, <2>2 DEF NoResume, NoIds
<1>3. Inv => Nested
  BY FitsNested
<1> QED
  BY <1>1, <1>2, <1>3, PTL DEF SpecRlog
=============================================================================
