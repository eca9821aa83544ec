------------------------------ MODULE CallStacks ------------------------------
(***************************************************************************)
(* The table of callers that rocpd_python/rocpd/call_stacks.py adds to a   *)
(* trace file, of one thread's rows in rocpd_api.  Either of two ways is   *)
(* taken: generateCallStacksPython() replays starts and ends on a stack,   *)
(* generateCallStacksSQL() joins each row with the one around it.  For     *)
(* each row and each row around it, itself included, both give the         *)
(* distance and the time that the inner one spent outside its callees.     *)
(* GPU times go along unchanged and are left out.                          *)
(*                                                                         *)
(* A row is recorded when its range ends, so that a row id, which is the   *)
(* position here, tells the order of the ends: ranges that a stop closes   *)
(* end at one time, the inner ones first.  The order of events of one time *)
(* and kind is sqlite's choice: that of the ids, as its sort is stable.    *)
(***************************************************************************)
EXTENDS Integers, Sequences, FiniteSetsExt

CONSTANTS
    MaxRows,        \* bound: rows recorded
    EndOfTime,      \* bound: times
    Placeholders    \* environment: ranges begun before the tracing have rows,
                    \* which start when it did

VARIABLE rocpd_api  \* the rows: start and end

Ids == DOMAIN rocpd_api
Start(f) == rocpd_api[f].start
End(f)   == rocpd_api[f].end

Init == rocpd_api = <<>>

\* Rows nest (RangeStack), and each start or mark reads a clock that goes on.
Around(outer, inner) == outer.start <= inner.start /\ inner.end <= outer.end
Record(row) ==
    /\ Len(rocpd_api) < MaxRows /\ row.start <= row.end
    /\ \A f \in Ids :
           /\ End(f) < row.start \/ Around(row, rocpd_api[f])
           /\ Start(f) = row.start => Placeholders /\ Start(f) < End(f) /\ End(f) < row.end
           /\ Start(f) < row.end
    /\ rocpd_api' = Append(rocpd_api, row)

Next == \E start, end \in 0 .. EndOfTime : Record([start |-> start, end |-> end])

Spec == Init /\ [][Next]_rocpd_api

-----------------------------------------------------------------------------
(* Both ways read starts and ends in the order of time, starts first. *)

Event(f, ts, evt) == [id |-> f, ts |-> ts, evt |-> evt]
Precedes(a, b) ==
    \/ a.ts < b.ts
    \/ a.ts = b.ts /\ a.evt > b.evt
    \/ a.ts = b.ts /\ a.evt = b.evt /\ a.id < b.id
EventSet == {Event(f, Start(f), 1) : f \in Ids} \cup {Event(f, End(f), -1) : f \in Ids}
Events   == [n \in 1 .. 2 * Len(rocpd_api) |->
                CHOOSE e \in EventSet : Cardinality({d \in EventSet : Precedes(d, e)}) = n - 1]

-----------------------------------------------------------------------------
(* generateCallStacksPython() *)

Frame(f) == [id |-> f, start |-> Start(f), child |-> 0]

\* Every frame below the one on top is given the time.
ParentOnly(stack, time) ==         \* only the frame below gets it
    [i \in DOMAIN stack |-> IF i = Len(stack) - 1 THEN [stack[i] EXCEPT !.child = @ + time]
                                                 ELSE stack[i]]
Propagated(stack, time) ==
    [i \in DOMAIN stack |-> IF i < Len(stack) THEN [stack[i] EXCEPT !.child = @ + time]
                                              ELSE stack[i]]

Replay(st, event) ==
    IF event.evt = 1 THEN [st EXCEPT !.stack = Append(@, Frame(event.id))]
    ELSE LET top  == st.stack[Len(st.stack)]
             time == event.ts - top.start - top.child
         IN [stack |-> SubSeq(Propagated(st.stack, time), 1, Len(st.stack) - 1),
             rows  |-> st.rows \o [i \in DOMAIN st.stack |->
                           [parent |-> st.stack[i].id, child |-> event.id,
                            depth |-> Len(st.stack) - i, cpu |-> time]]]

\* The stack and the rows after so many events.
Replayed[n \in Nat] == IF n = 0 THEN [stack |-> <<>>, rows |-> <<>>]
                       ELSE Replay(Replayed[n - 1], Events[n])

generateCallStacksPython == Replayed[Len(Events)].rows

-----------------------------------------------------------------------------
(* generateCallStacksSQL() *)

\* opens: a running sum of evt over the events.
Depth(f) == LET opened == Event(f, Start(f), 1)
            IN  MapThenSumSet(LAMBDA e : e.evt, {e \in EventSet : e = opened \/ Precedes(e, opened)})

\* slim_tree: the parent of a row below depth 1, 0 where the query finds NULL.
NoParent == 0
Parent(f) ==
    LET candidates == {p \in Ids : Depth(p) = Depth(f) - 1 /\ Around(rocpd_api[p], rocpd_api[f])}
    IN IF candidates = {} THEN NoParent
       ELSE CHOOSE p \in candidates : \A q \in candidates : Start(q) <= Start(p)

slim_tree == {f \in Ids : Depth(f) > 1}

\* child_agg and slim_exclusive
Inclusive(f) == End(f) - Start(f)
Exclusive(f) == Inclusive(f) - MapThenSumSet(Inclusive, {c \in slim_tree : Parent(c) = f})

\* The recursive table cs, step by step.
Base == {[parent |-> f, child |-> f, depth |-> 0, cpu |-> Exclusive(f)] : f \in Ids}
Up(cs) == {[r EXCEPT !.parent = Parent(@), !.depth = @ + 1] : r \in {r \in cs : r.parent \in slim_tree}}
cs[n \in Nat] == IF n = 0 THEN Base ELSE Up(cs[n - 1])

generateCallStacksSQL == UNION {cs[n] : n \in 0 .. Len(rocpd_api)}

-----------------------------------------------------------------------------
(* Properties *)

\* Which rows are around a row, by the times that no row inside covers.
Inside(outer, inner) == Around(rocpd_api[outer], rocpd_api[inner]) /\ (outer >= inner)
OwnTime(f) == Cardinality({t \in Start(f) .. End(f) - 1 :
                             \A c \in Ids \ {f} : Inside(f, c) => t \notin Start(c) .. End(c) - 1})
Distance(a, f) == Cardinality({b \in Ids \ {a} : Inside(a, b) /\ Inside(b, f)})
CallStacksOf ==
    {[parent |-> p[1], child |-> p[2], depth |-> Distance(p[1], p[2]), cpu |-> OwnTime(p[2])] :
        p \in {p \in Ids \X Ids : Inside(p[1], p[2])}}

\* "each ancestor reports only its own exclusive time at depth=0"
\* (call_stacks.py:39), and "Both produce identical output" (call_stacks.py:14):
\* either way each row is below exactly the rows around it, at its distance, and
\* its time is what no row inside it covers.
CallStacksAgree ==
    /\ Range(generateCallStacksPython) = CallStacksOf
    /\ Len(generateCallStacksPython) = Cardinality(CallStacksOf)
    /\ generateCallStacksSQL = CallStacksOf
=============================================================================
