---------------------------- MODULE RlogDataSource ----------------------------
(***************************************************************************)
(* Ranges and marks that a library reports through rlog                    *)
(* (rpd_tracer/RlogDataSource.cpp).  The stacks, their registration and    *)
(* the drain are those of RangeStack; what differs is modelled here.       *)
(* rlog::Hub, which is not in this repository, delivers calls while the    *)
(* source is one of its loggers: `active` stands for that.  Whether        *)
(* removeLogger() waits for a call being delivered is not known, so that   *)
(* a call goes on whatever happens later.  The string ids come from caches *)
(* per thread that look at the generation of the storage (Storage), and a  *)
(* pop with nothing on the stack is ignored.                               *)
(***************************************************************************)
EXTENDS RangeStack

CallRlog(t, place) == /\ place = "push" => Len(stack[t]) < MaxOpen
                      /\ Call(t, place)

\* rangePush(): register the stack, make the row.
rangePush(t) ==
    /\ pc[t] = "push" /\ (t \in registered \/ StacksFree)
    /\ Tick
    /\ registered' = registered \cup {t}
    /\ Hold(t, [range |-> Range(t), start |-> clock, end |-> 0, ids |-> storage, arg |-> storage])
    /\ Goto(t, "pushrow")
    /\ UNCHANGED <<source, storage, stack, alive, control, session, rows, raced>>

rangePop(t) ==
    /\ pc[t] = "pop"
    /\ IF stack[t] = <<>>
       THEN Goto(t, "idle") /\ UNCHANGED <<stack, mine, clock>>
       ELSE /\ Tick
            /\ Hold(t, [Head(stack[t]) EXCEPT !.end = clock])
            /\ stack' = [stack EXCEPT ![t] = AfterPop(@)]
            /\ Goto(t, "insert")
    /\ UNCHANGED <<source, storage, registered, alive, control, session, rows, raced>>

mark(t) ==
    /\ pc[t] = "mark"
    /\ Tick
    /\ Hold(t, [range |-> Range(t), start |-> clock, end |-> clock, ids |-> storage, arg |-> storage])
    /\ Goto(t, "insert")
    /\ UNCHANGED <<source, storage, stack, registered, alive, control, session, rows, raced>>

\* Hub::addLogger()
startTracing ==
    /\ ctl = "idle" /\ ~active /\ session < MaxSessions
    /\ active' = TRUE /\ session' = session + 1
    /\ ControlCall
    /\ UNCHANGED <<resumeTime, idsOf, storage, stack, registered, alive, call, control, clock, rows>>

\* Hub::removeLogger() and the drain; end() is stopTracing() once more.
stopTracing == StopTracing
end         == Finalize

\* The source has no ids to forget.
reset ==
    /\ ctl = "swapped"
    /\ ctl' = "idle"
    /\ UNCHANGED <<source, storage, stack, registered, alive, call, drains,
                   finalizing, now, todo, clock, session, rows, raced>>

NextRlog ==
    \/ \E t \in Threads : \/ \E place \in {"push", "pop", "mark"} : CallRlog(t, place)
                          \/ rangePush(t) \/ PushRow(t) \/ rangePop(t) \/ mark(t)
                          \/ InsertRow(t) \/ Exit(t)
    \/ startTracing \/ stopTracing \/ end
    \/ DrainStep
    \/ SwapStorage \/ reset

SpecRlog == Init /\ [][NextRlog]_vars
=============================================================================
