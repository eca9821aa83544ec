-------------------------------- MODULE Firefly --------------------------------
(***************************************************************************)
(* The clock probes between node 0 (A, a thread of run_server) and another *)
(* node (B, run_client): rpd_tracer/Firefly.cpp, and the loop of           *)
(* ChronoSyncDataSource::work() that publishes what B measured.  A round   *)
(* is a probe, its echo, and the times of each side sent to the other.     *)
(* The sides number their probes by themselves, and times carry no number. *)
(*                                                                         *)
(* UDP is external: a datagram may be lost, and a receive times out        *)
(* whether or not one is under way; datagrams keep their order.  A time is *)
(* the number of the round in which its side took it.  Both sides are past *)
(* the TCP handshake, which assigns the port.                              *)
(***************************************************************************)
EXTENDS Integers, Sequences

CONSTANTS
    Window,         \* MEDIAN_WINDOW_SIZE
    MaxRounds,      \* bound: probes of each side
    MaxInFlight     \* bound: datagrams on the way to a side

VARIABLES
    side,           \* run_probes() of A and B: position and probeIndex
    toA, toB,       \* datagrams on the way
    count, latest,  \* MeasurementBuffer of B: measurements so far, the last one
    lastCount,      \* of the loop in work()
    published       \* measurements that firefly_run() used, in order

fireflyVars == <<side, toA, toB, count, latest, lastCount, published>>

Probe(n) == [kind |-> "probe", round |-> n]
Times(n) == [kind |-> "times", round |-> n]
NoMeasurement == [a |-> 0, b |-> 0]

Init ==
    /\ side = [s \in {"A", "B"} |-> [at |-> "start", probe |-> 0]]
    /\ toA = <<>> /\ toB = <<>>
    /\ count = 0 /\ latest = NoMeasurement
    /\ lastCount = 0 /\ published = <<>>

probeIndex(s) == side[s].probe
At(s, place)  == side[s].at = place
Goto(s, place) == side' = [side EXCEPT ![s].at = place]
Box(s) == IF s = "A" THEN toA ELSE toB
bufferVars == <<count, latest, lastCount, published>>

-----------------------------------------------------------------------------
(* The network: s takes a datagram out of its socket, sends one, or both;    *)
(* a datagram too many is dropped                                            *)

Arrived(s) == Box(s) # <<>>
Sent(box, messages) == IF Len(box) + Len(messages) > MaxInFlight THEN box ELSE box \o messages
Taken(box) == Tail(box)

Exchange(s, takes, messages) ==
    LET after(box) == IF takes THEN Taken(box) ELSE box IN
    IF s = "A" THEN toA' = after(toA) /\ toB' = Sent(toB, messages)
               ELSE toB' = after(toB) /\ toA' = Sent(toA, messages)

Lose ==
    /\ \/ toA # <<>> /\ toA' = Tail(toA) /\ UNCHANGED toB
       \/ toB # <<>> /\ toB' = Tail(toB) /\ UNCHANGED toA
    /\ UNCHANGED <<side, bufferVars>>

-----------------------------------------------------------------------------
(* run_probes() *)

\* ++probeIndex; A sends its probe and both wait for one of that number.
NextRound(s) ==
    /\ At(s, "start") /\ probeIndex(s) < MaxRounds
    /\ side' = [side EXCEPT ![s] = [at |-> "probe", probe |-> @.probe + 1]]
    /\ Exchange(s, FALSE, IF s = "A" THEN <<Probe(probeIndex(s) + 1)>> ELSE <<>>)
    /\ UNCHANGED bufferVars

\* Weaker: the number of a probe is not looked at.
AnyProbe(s, message) == message.kind = "probe"
Matches(s, message) == message = Probe(probeIndex(s))

\* A answers the echo with its times, B the probe with the echo.
ReceiveProbe(s) ==
    /\ At(s, "probe") /\ Arrived(s) /\ Matches(s, Head(Box(s)))
    /\ Exchange(s, TRUE, <<IF s = "A" THEN Times(probeIndex(s)) ELSE Probe(probeIndex(s))>>)
    /\ Goto(s, "times")
    /\ UNCHANGED bufferVars

Measurement(s, theirs) ==
    IF s = "A" THEN [a |-> probeIndex(s), b |-> theirs] ELSE [a |-> theirs, b |-> probeIndex(s)]

\* B sends its times back; record_measurement().  Node 0 uses none of its own.
ReceiveTimes(s) ==
    /\ At(s, "times") /\ Arrived(s) /\ Head(Box(s)).kind = "times"
    /\ Exchange(s, TRUE, IF s = "B" THEN <<Times(probeIndex(s))>> ELSE <<>>)
    /\ Goto(s, "start")
    /\ IF s = "B"
       THEN count' = count + 1 /\ latest' = Measurement(s, Head(Box(s)).round)
       ELSE UNCHANGED <<count, latest>>
    /\ UNCHANGED <<lastCount, published>>

\* Anything else ends the round: a probe of another number, times where a probe
\* is due, a probe where times are due, or nothing for 200 ms.
Unexpected(s, message) == IF At(s, "probe") THEN ~Matches(s, message) ELSE message.kind # "times"
Discards == TRUE

GiveUp(s) ==
    /\ ~At(s, "start")
    /\ \/ Exchange(s, FALSE, <<>>)
       \/ Arrived(s) /\ Unexpected(s, Head(Box(s))) /\ Exchange(s, Discards, <<>>)
    /\ Goto(s, "start")
    /\ UNCHANGED bufferVars

-----------------------------------------------------------------------------
(* work() and firefly_run(): the last measurement, unless it is an outlier    *)
(* among the last ones, moves the offset; the first one sets it               *)

\* Which ones are outliers is OutlierFilter's matter: any may be, once there is
\* a measurement to compare with.
Rejected == IF count > Window THEN BOOLEAN ELSE {FALSE}

firefly_run ==
    /\ count # lastCount
    /\ lastCount' = count
    /\ \E rejected \in Rejected :
           published' = IF rejected THEN published ELSE Append(published, latest)
    /\ UNCHANGED <<side, toA, toB, count, latest>>

-----------------------------------------------------------------------------
Next ==
    \/ \E s \in {"A", "B"} : NextRound(s) \/ ReceiveProbe(s) \/ ReceiveTimes(s) \/ GiveUp(s)
    \/ Lose \/ firefly_run

Spec == Init /\ [][Next]_fireflyVars

-----------------------------------------------------------------------------
(* Properties *)

\* "continuously exchanges UDP timing probes" (README_clocksync.md): the four
\* times behind a published offset are of one round, and no round is used twice,
\* although times carry no number and datagrams and rounds get lost on the way.
OffsetsOfOneRound ==
    /\ \A i \in DOMAIN published : published[i].a = published[i].b
    /\ \A i, j \in DOMAIN published : i < j => published[i].b < published[j].b
=============================================================================
