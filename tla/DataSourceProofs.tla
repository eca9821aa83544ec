--------------------------- MODULE DataSourceProofs ---------------------------
(***************************************************************************)
(* Proofs about the sources of DataSources that follow the time, and the   *)
(* sending side of a distributed run: the GPU metrics, the clock probes,   *)
(* the clock offset of a node, the messages of a table and the clock       *)
(* offsets that are used, and about the table of callers, for every number *)
(* of processes, delegates, metrics, rounds, messages, connections,        *)
(* updates, measurements and rows.                                         *)
(***************************************************************************)
EXTENDS DataSources, SequenceTheorems, FiniteSetTheorems, WellFoundedInduction, TLAPS

-----------------------------------------------------------------------------
(* The GPU metrics (AmdSmiDataSource)                                        *)

SmiTypes ==
    /\ loggingActive \in BOOLEAN /\ stopping \in BOOLEAN /\ disturbed \in BOOLEAN
    /\ worker \in {"none", "waiting", "looping", "sampling", "ended"}
    /\ clock \in Nat /\ readAt \in Nat /\ readAt < clock
    /\ todo \in Seq(Smi!SlotSet)
    /\ metricsCache \in [Smi!SlotSet -> Int] /\ lastEmitted \in [Smi!SlotSet -> Int]
    /\ DOMAIN values \subseteq Smi!SlotSet
    /\ \A s \in DOMAIN values : values[s] \in [value : Int, start : Nat]
    /\ runs \subseteq [slot : Smi!SlotSet, start : Nat, end : Nat, value : Int]

\* A run ended before now, an open one began with a reading that was emitted.
TimesInv ==
    /\ \A r \in runs : r.end < clock
    /\ \A s \in DOMAIN values : values[s].start <= readAt /\ lastEmitted[s] = values[s].value

\* While a sample is inserted that no control call has met, all runs ended before its
\* reading.
SampleInv == worker = "sampling" => loggingActive /\ \A r \in runs : r.end <= readAt

RunsInv ==
    /\ \A r \in runs : r.start <= r.end
    /\ \A r, q \in runs : r.slot = q.slot /\ r # q => r.end <= q.start \/ q.end <= r.start
    /\ \A s \in DOMAIN values : \A r \in runs : r.slot = s => r.end <= values[s].start

\* What is open is within the deadband of what was read last.
BandInv ==
    \A s \in DOMAIN values :
        s \notin Smi!Range(todo) /\ metricsCache[s] # Smi!Unavailable
          => values[s].value = metricsCache[s]
             \/ Smi!abs(values[s].value - metricsCache[s]) < Deadband[s]

SmiInv ==
    /\ SmiTypes /\ TimesInv
    /\ ~disturbed => /\ SampleInv /\ RunsInv /\ BandInv
                     /\ ~loggingActive /\ ~stopping => DOMAIN values = {}

LEMMA MetricFacts ==
    /\ Slots \in Seq(Smi!SlotSet) /\ Smi!Range(Slots) = Smi!SlotSet
    /\ Readings \subseteq Int /\ \A s \in Smi!SlotSet : Deadband[s] \in Nat
  BY MetricsAssumption DEF Smi!SlotSet, Smi!Range

LEMMA SmiInit == Smi!Init => SmiInv
<1> SUFFICES ASSUME Smi!Init PROVE SmiInv
  OBVIOUS
<1>1. DOMAIN values = {} /\ runs = {} /\ worker = "none"
  BY DEF Smi!Init
<1>2. SmiTypes
  <2>1. -2 \in Int /\ 0 \in Int /\ <<>> \in Seq(Smi!SlotSet)
    OBVIOUS
  <2>2. lastEmitted \in [Smi!SlotSet -> Int] /\ metricsCache \in [Smi!SlotSet -> Int]
    BY <2>1 DEF Smi!Init, Smi!NotEmitted
  <2>3. clock = 1 /\ readAt = 0 /\ todo = <<>> /\ loggingActive = FALSE /\ stopping = FALSE /\ disturbed = FALSE
    BY DEF Smi!Init
  <2> HIDE DEF Smi!Init
  <2>4. DOMAIN values \subseteq Smi!SlotSet /\ \A s \in DOMAIN values : values[s] \in [value : Int, start : Nat]
    BY <1>1
  <2>5. runs \subseteq [slot : Smi!SlotSet, start : Nat, end : Nat, value : Int]
    BY <1>1
  <2>6. loggingActive \in BOOLEAN /\ stopping \in BOOLEAN /\ disturbed \in BOOLEAN
    BY <2>3, Zenon
  <2> QED
    BY <1>1, <2>1, <2>2, <2>3, <2>4, <2>5, <2>6 DEF SmiTypes
<1> QED
  BY <1>1, <1>2 DEF Smi!Init, SmiInv, TimesInv, SampleInv, RunsInv, BandInv

LEMMA Remaining ==
    ASSUME NEW t \in Seq(Smi!SlotSet), t # <<>>
    PROVE  /\ Head(t) \in Smi!SlotSet /\ Tail(t) \in Seq(Smi!SlotSet)
           /\ \A s : s \notin Smi!Range(Tail(t)) /\ s # Head(t) => s \notin Smi!Range(t)
<1>1. /\ Len(t) \in Nat \ {0} /\ Tail(t) \in Seq(Smi!SlotSet) /\ Len(Tail(t)) = Len(t) - 1
      /\ DOMAIN t = 1 .. Len(t) /\ DOMAIN Tail(t) = 1 .. Len(t) - 1
      /\ Head(t) = t[1] /\ \A i \in 1 .. Len(t) - 1 : Tail(t)[i] = t[i + 1]
  OBVIOUS
<1>2. ASSUME NEW i \in 1 .. Len(t), i # 1 PROVE t[i] \in Smi!Range(Tail(t))
  <2>1. i - 1 \in 1 .. Len(t) - 1 /\ (i - 1) + 1 = i
    BY <1>1, <1>2
  <2>2. t[i] = Tail(t)[i - 1]
    BY <1>1, <2>1
  <2> QED
    BY <1>1, <2>1, <2>2 DEF Smi!Range
<1> QED
  BY <1>1, <1>2 DEF Smi!Range

\* One reading inserted: a run ends at most and another begins.
LEMMA SmiInsert ==
    ASSUME SmiInv, Smi!InsertSlot PROVE SmiInv'
<1> DEFINE s == Head(todo)
<1>1. /\ s \in Smi!SlotSet /\ todo' \in Seq(Smi!SlotSet)
      /\ \A x : x \notin Smi!Range(todo)' /\ x # s => x \notin Smi!Range(todo)
  BY Remaining DEF SmiInv, SmiTypes, Smi!InsertSlot, Smi!Range
<1>2. worker = "sampling" /\ UNCHANGED <<loggingActive, worker, metricsCache, readAt, stopping, clock, disturbed>>
  BY DEF Smi!InsertSlot
<1>3. CASE ~Smi!collects(s)
  <2>1. UNCHANGED <<lastEmitted, values, runs>>
    BY <1>3 DEF Smi!InsertSlot
  <2>2. s \in DOMAIN values /\ metricsCache[s] # Smi!Unavailable
        => Smi!abs(values[s].value - metricsCache[s]) < Deadband[s]
    BY <1>1, <1>3, MetricFacts DEF Smi!collects, Smi!abs, SmiInv, SmiTypes, TimesInv
  <2>3. BandInv => BandInv'
    BY <1>1, <1>2, <2>1, <2>2 DEF BandInv
  <2>4. SmiTypes' /\ TimesInv' /\ (SampleInv => SampleInv') /\ (RunsInv => RunsInv')
    BY <1>1, <1>2, <2>1 DEF SmiInv, SmiTypes, TimesInv, SampleInv, RunsInv
  <2> QED
    BY <1>2, <2>1, <2>3, <2>4 DEF SmiInv
<1>4. CASE Smi!collects(s)
  <2> DEFINE v == metricsCache[s]
  <2>1. lastEmitted' = [lastEmitted EXCEPT ![s] = v] /\ Smi!insert(s, v, readAt)
    BY <1>4 DEF Smi!InsertSlot
  <2>2. v \in Int /\ readAt \in Nat
    BY <1>1 DEF SmiInv, SmiTypes
  <2>3. \/ /\ s \notin DOMAIN values \/ values[s].value # v
           /\ values' = [x \in DOMAIN values \cup {s} |->
                 IF x = s THEN [value |-> v, start |-> readAt] ELSE values[x]]
        \/ s \in DOMAIN values /\ values[s].value = v /\ values' = values
    BY <2>1 DEF Smi!insert, Smi!OpenRun
  <2>4. \/ s \notin DOMAIN values /\ runs' = runs
        \/ /\ s \in DOMAIN values /\ values[s].value # v
           /\ runs' = runs \cup {[slot |-> s, start |-> values[s].start, end |-> readAt,
                                  value |-> values[s].value]}
        \/ s \in DOMAIN values /\ values[s].value = v /\ runs' = runs
    BY <2>1 DEF Smi!insert, Smi!OpenRun, Smi!Finished
  <2>5. DOMAIN values' = DOMAIN values \cup {s}
    BY <2>3
  <2>6. SmiTypes'
    <3>1. \A x \in DOMAIN values' : values'[x] \in [value : Int, start : Nat]
      BY <1>1, <2>2, <2>3 DEF SmiInv, SmiTypes
    <3>2. runs' \subseteq [slot : Smi!SlotSet, start : Nat, end : Nat, value : Int]
      BY <1>1, <2>2, <2>4 DEF SmiInv, SmiTypes
    <3> QED
      BY <1>1, <1>2, <2>1, <2>2, <2>5, <3>1, <3>2 DEF SmiInv, SmiTypes
  <2>7. TimesInv'
    <3>1. \A r \in runs' : r.end < clock'
      BY <1>2, <2>2, <2>4 DEF SmiInv, SmiTypes, TimesInv
    <3>2. \A x \in DOMAIN values : x # s => lastEmitted'[x] = lastEmitted[x]
      BY <2>1 DEF SmiInv, SmiTypes
    <3>3. lastEmitted'[s] = v
      BY <1>1, <2>1 DEF SmiInv, SmiTypes
    <3>4. \A x \in DOMAIN values : values[x].start <= readAt /\ lastEmitted[x] = values[x].value
      BY DEF SmiInv, TimesInv
    <3>5. \A x \in DOMAIN values' : values'[x].start <= readAt /\ lastEmitted'[x] = values'[x].value
      BY <2>2, <2>3, <3>2, <3>3, <3>4
    <3> QED
      BY <1>2, <3>1, <3>5 DEF TimesInv
  <2>8. ASSUME ~disturbed PROVE SampleInv' /\ RunsInv' /\ BandInv'
    <3>1. \A r \in runs' : r.end <= readAt
      BY <1>2, <2>2, <2>4, <2>8 DEF SmiInv, SmiTypes, SampleInv
    <3>2. RunsInv'
      <4>1. CASE runs' = runs /\ values' = values
        BY <4>1, <2>8 DEF SmiInv, RunsInv
      <4>2. CASE s \notin DOMAIN values
        <5>1. runs' = runs /\ \A x \in DOMAIN values : values'[x] = values[x]
          BY <4>2, <2>3, <2>4
        <5>2. values'[s].start = readAt
          BY <4>2, <2>3
        <5> QED
          BY <2>5, <2>8, <3>1, <5>1, <5>2, <4>2 DEF SmiInv, RunsInv
      <4>3. CASE s \in DOMAIN values /\ values[s].value # v
        <5> DEFINE run == [slot |-> s, start |-> values[s].start, end |-> readAt, value |-> values[s].value]
        <5>1. /\ runs' = runs \cup {run} /\ run.slot = s /\ run.start = values[s].start
              /\ run.end = readAt
          BY <4>3, <2>4
        <5> HIDE DEF run
        <5>2. values'[s].start = readAt /\ \A x \in DOMAIN values \ {s} : values'[x] = values[x]
          BY <4>3, <2>3
        <5>3. run.start <= run.end /\ \A r \in runs : r.slot = s => r.end <= run.start
          BY <4>3, <5>1, <2>8 DEF SmiInv, TimesInv, RunsInv
        <5>4. readAt <= readAt
          BY <2>2
        <5> QED
          BY <2>5, <2>8, <3>1, <5>1, <5>2, <5>3, <5>4, <4>3 DEF SmiInv, RunsInv
      <4> QED
        BY <4>1, <4>2, <4>3, <2>3, <2>4
    <3>3. BandInv'
      BY <1>1, <1>2, <2>2, <2>3, <2>8 DEF SmiInv, BandInv
    <3> QED
      BY <1>2, <2>8, <3>1, <3>2, <3>3 DEF SmiInv, SampleInv
  <2> QED
    BY <1>2, <2>6, <2>7, <2>8 DEF SmiInv, SampleInv
<1> QED
  BY <1>3, <1>4

\* All runs ended at once, with the clock.
LEMMA SmiEndRuns ==
    ASSUME SmiInv, Smi!endCurrentRuns, Smi!Tick, Smi!Disturbs, loggingActive' \in BOOLEAN, stopping' \in BOOLEAN,
           UNCHANGED <<loggingActive, worker, done, haveResource, metricsCache, readAt, todo, lastEmitted>>
    PROVE  SmiInv'
<1>1. /\ DOMAIN values' = {} /\ clock' = clock + 1
      /\ runs' = runs \cup {Smi!Finished(s, clock) : s \in DOMAIN values}
  BY DEF Smi!endCurrentRuns, Smi!Tick, Smi!RunsLeft
<1>2. SmiTypes'
  BY <1>1 DEF SmiInv, SmiTypes, Smi!Finished, Smi!Disturbs
<1>3. TimesInv'
  BY <1>1 DEF SmiInv, SmiTypes, TimesInv, Smi!Finished
<1>4. ASSUME ~disturbed' PROVE SampleInv' /\ RunsInv' /\ BandInv'
  <2>1. ~disturbed /\ worker # "sampling"
    BY <1>4 DEF Smi!Disturbs
  <2>2. \A r \in runs' : \/ r \in runs
                         \/ /\ r.slot \in DOMAIN values /\ r.start = values[r.slot].start /\ r.end = clock
                            /\ r = Smi!Finished(r.slot, clock)
    BY <1>1 DEF Smi!Finished
  <2>3. \A s \in DOMAIN values : values[s].start <= clock
    BY DEF SmiInv, SmiTypes, TimesInv
  <2>4. \A r \in runs' : r.start <= r.end
    BY <2>1, <2>2, <2>3 DEF SmiInv, RunsInv
  <2>5. ASSUME NEW r \in runs', NEW q \in runs', r.slot = q.slot, r # q
        PROVE  r.end <= q.start \/ q.end <= r.start
    BY <2>1, <2>2, <2>5 DEF SmiInv, RunsInv
  <2> QED
    BY <1>1, <2>1, <2>4, <2>5 DEF SampleInv, RunsInv, BandInv
<1> QED
  BY <1>1, <1>2, <1>3, <1>4 DEF SmiInv

LEMMA SmiStep == ASSUME SmiInv, [Smi!Next]_Smi!smiVars PROVE SmiInv'
<1> USE DEF Smi!slotVars
<1>1. CASE Smi!Read
  <2>1. CASE disturbed' = TRUE /\ UNCHANGED <<metricsCache, readAt, clock>>
    BY <1>1, <2>1, MetricFacts DEF Smi!Read, SmiInv, SmiTypes, TimesInv
  <2>2. CASE /\ metricsCache' \in [Smi!SlotSet -> Readings \cup {Smi!Unavailable}]
             /\ Smi!Tick /\ readAt' = clock /\ UNCHANGED disturbed
    <3>1. todo' \in Seq(Smi!SlotSet) /\ Smi!Range(todo)' = Smi!SlotSet
      BY <1>1, MetricFacts DEF Smi!Read, Smi!Range
    <3>2. SmiTypes' /\ TimesInv'
      <4>1. metricsCache' \in [Smi!SlotSet -> Int]
        <5>1. Readings \cup {Smi!Unavailable} \subseteq Int
          BY MetricFacts DEF Smi!Unavailable
        <5> QED
          BY <2>2, <5>1
      <4>2. clock' = clock + 1 /\ readAt' = clock
        BY <2>2 DEF Smi!Tick
      <4> QED
        BY <1>1, <2>2, <3>1, <4>1, <4>2 DEF Smi!Read, SmiInv, SmiTypes, TimesInv
    <3>3. BandInv'
      BY <1>1, <3>1, <3>2 DEF BandInv, SmiTypes
    <3>4. SampleInv'
      BY <1>1, <2>2 DEF Smi!Read, SmiInv, SmiTypes, TimesInv, SampleInv
    <3> QED
      BY <1>1, <2>2, <3>2, <3>3, <3>4 DEF Smi!Read, SmiInv, RunsInv
  <2> QED
    BY <1>1, <2>1, <2>2 DEF Smi!Read
<1>2. CASE Smi!InsertSlot
  BY <1>2, SmiInsert
<1>3. CASE Smi!WorkBegin \/ Smi!Sleep \/ Smi!Leave \/ Smi!init \/ Smi!EndBegin \/ Smi!EndJoin
           \/ UNCHANGED Smi!smiVars
  <2>1. /\ UNCHANGED <<loggingActive, Smi!slotVars, values, runs, stopping, clock, disturbed>>
        /\ worker' \in {worker, "none", "waiting", "looping", "ended"}
    BY <1>3 DEF Smi!WorkBegin, Smi!Sleep, Smi!Leave, Smi!init, Smi!EndBegin, Smi!EndJoin, Smi!smiVars
  <2>2. SmiTypes' /\ TimesInv'
    BY <2>1 DEF SmiInv, SmiTypes, TimesInv
  <2>3. ~disturbed => SampleInv' /\ RunsInv' /\ BandInv'
    BY <2>1 DEF SmiInv, SampleInv, RunsInv, BandInv, Smi!Range
  <2> QED
    BY <2>1, <2>2, <2>3 DEF SmiInv
<1>4. CASE Smi!startTracing \/ Smi!StopBegin
  <2>1. /\ UNCHANGED <<worker, Smi!slotVars, values, runs, clock>> /\ Smi!Disturbs
        /\ \/ loggingActive' = TRUE /\ stopping' = stopping
           \/ loggingActive' = FALSE /\ stopping' = TRUE
    BY <1>4 DEF Smi!startTracing, Smi!StopBegin
  <2>2. SmiTypes' /\ TimesInv'
    BY <2>1 DEF SmiInv, SmiTypes, TimesInv, Smi!Disturbs
  <2>3. ~disturbed' => ~disturbed /\ worker # "sampling" /\ SampleInv' /\ RunsInv' /\ BandInv'
    BY <2>1 DEF SmiInv, SampleInv, RunsInv, BandInv, Smi!Disturbs, Smi!Range
  <2> QED
    BY <2>1, <2>2, <2>3 DEF SmiInv
<1>5. CASE Smi!StopEnd \/ Smi!flush
  BY <1>5, SmiEndRuns DEF Smi!StopEnd, Smi!flush, SmiInv, SmiTypes
<1> QED
  BY <1>1, <1>2, <1>3, <1>4, <1>5 DEF Smi!Next

\* As long as no control call meets a sample in progress and every read succeeds,
\* the runs of every metric follow each other without overlap, and what is open is
\* within the deadband of the last reading.
THEOREM RunsPartitionTime == SourcesSpec => []MonitorRuns
<1> DEFINE Inv == subject = "smi" => SmiInv
<1>1. SourcesInit => Inv
  BY SmiInit DEF SourcesInit
<1>2. Inv /\ [SourcesNext]_vars => Inv'
  <2>1. [SourcesNext]_vars => subject' = subject /\ (subject = "smi" => [Smi!Next]_Smi!smiVars)
    BY DEF SourcesNext, Rocprof, Roctracer, Cupti, ClrNext, AmdSmi, Clock, Probes, Filter, Sender,
       CallStacks, vars, smiVars, lifeVars, Smi!smiVars
  <2> QED
    BY <2>1, SmiStep
<1>3. Inv => MonitorRuns
  BY DEF MonitorRuns, Smi!MonitorRuns, SmiInv, RunsInv, BandInv
<1> QED
  BY <1>1, <1>2, <1>3, PTL DEF SourcesSpec

-----------------------------------------------------------------------------
(* The clock probes (Firefly)                                                *)

Datagrams == [kind : {"probe", "times"}, round : Nat]
Places    == {"start", "probe", "times"}

\* What one side sends it sends in this order, and FIFO keeps it.
Before(m, n) ==
    \/ m.round < n.round
    \/ m.round = n.round /\ m.kind = "probe" /\ n.kind = "times"

FfyTypes ==
    /\ side \in [{"A", "B"} -> [at : Places, probe : Nat]]
    /\ toA \in Seq(Datagrams) /\ toB \in Seq(Datagrams)
    /\ count \in Nat /\ lastCount \in 0 .. count
    /\ latest \in [a : Nat, b : Nat] /\ published \in Seq([a : Nat, b : Nat])

\* Nothing is on the way that B has not asked for, or A not begun.
SentInv ==
    /\ \A i \in 1 .. Len(toA) : toA[i].round <= side["B"].probe
    /\ \A i \in 1 .. Len(toB) :
           /\ toB[i].round <= side["A"].probe
           /\ side["A"].at = "probe" => Before(toB[i], Ffy!Times(side["A"].probe))
           /\ toB[i].kind = "times" => toB[i].round <= side["B"].probe
    /\ \A i, j \in 1 .. Len(toB) : i < j => Before(toB[i], toB[j])

\* When B waits for times it has taken the probe of its round, and all that was sent
\* before that probe.
AheadInv ==
    side["B"].at = "times" =>
        /\ side["B"].probe <= side["A"].probe
        /\ \A i \in 1 .. Len(toB) : Before(Ffy!Probe(side["B"].probe), toB[i])

PublishedInv ==
    /\ latest.a = latest.b /\ latest.b <= side["B"].probe
    /\ side["B"].at # "start" => latest.b < side["B"].probe
    /\ \A i \in 1 .. Len(published) :
           /\ published[i].a = published[i].b /\ published[i].b <= latest.b
           /\ count # lastCount => published[i].b < latest.b
    /\ \A i, j \in 1 .. Len(published) : i < j => published[i].b < published[j].b

FfyInv == FfyTypes /\ SentInv /\ AheadInv /\ PublishedInv

LEMMA FfyInit == Ffy!Init => FfyInv
<1> SUFFICES ASSUME Ffy!Init PROVE FfyInv
  OBVIOUS
<1>1. Len(toA) = 0 /\ Len(toB) = 0 /\ Len(published) = 0
  BY DEF Ffy!Init
<1>2. FfyTypes
  BY DEF Ffy!Init, FfyTypes, Places, Ffy!NoMeasurement
<1> QED
  BY <1>1, <1>2 DEF Ffy!Init, FfyInv, SentInv, AheadInv, PublishedInv, Ffy!NoMeasurement

LEMMA Received ==
    ASSUME NEW T, NEW s \in Seq(T), s # <<>>
    PROVE  /\ Tail(s) \in Seq(T) /\ Len(Tail(s)) = Len(s) - 1 /\ Len(s) \in Nat \ {0}
           /\ s[1] = Head(s) /\ s[1] \in T
           /\ \A i \in 1 .. Len(Tail(s)) : i + 1 \in 1 .. Len(s) /\ Tail(s)[i] = s[i + 1]
  BY HeadTailProperties

LEMMA FfyElements ==
    ASSUME FfyTypes
    PROVE  /\ Len(toA) \in Nat /\ Len(toB) \in Nat /\ Len(published) \in Nat
           /\ \A i \in 1 .. Len(toA) : toA[i].round \in Nat
           /\ \A i \in 1 .. Len(toB) : toB[i].round \in Nat /\ toB[i].kind \in {"probe", "times"}
           /\ \A i \in 1 .. Len(published) : published[i].a \in Nat /\ published[i].b \in Nat
           /\ \A s \in {"A", "B"} : side[s].probe \in Nat /\ side[s].at \in Places
           /\ latest.a \in Nat /\ latest.b \in Nat
<1>1. /\ Len(toA) \in Nat /\ Len(toB) \in Nat /\ Len(published) \in Nat
      /\ \A i \in 1 .. Len(toA) : toA[i] \in Datagrams
      /\ \A i \in 1 .. Len(toB) : toB[i] \in Datagrams
      /\ \A i \in 1 .. Len(published) : published[i] \in [a : Nat, b : Nat]
  BY LenProperties, ElementOfSeq DEF FfyTypes
<1>2. /\ \A s \in {"A", "B"} : side[s] \in [at : Places, probe : Nat]
      /\ latest \in [a : Nat, b : Nat]
  BY DEF FfyTypes
<1> QED
  BY <1>1, <1>2 DEF Datagrams

LEMMA ProbeTimes ==
    ASSUME NEW n \in Nat
    PROVE  /\ Ffy!Probe(n).round = n /\ Ffy!Probe(n).kind = "probe" /\ Ffy!Probe(n) \in Datagrams
           /\ Ffy!Times(n).round = n /\ Ffy!Times(n).kind = "times" /\ Ffy!Times(n) \in Datagrams
  BY DEF Ffy!Probe, Ffy!Times, Datagrams

-----------------------------------------------------------------------------
(* A box after a datagram was taken from its front, or put at its end *)

\* The elements of `after` are those of `box`, in order, one of them perhaps gone
\* from the front.
Within(after, box) ==
    \E k \in {0, 1} :
        /\ Len(after) + k = Len(box)
        /\ \A i \in 1 .. Len(after) : i + k \in 1 .. Len(box) /\ after[i] = box[i + k]

\* And m may be behind the others.
Extends(after, box, m) ==
    \/ after = box
    \/ /\ Len(after) = Len(box) + 1 /\ after[Len(after)] = m
       /\ \A i \in 1 .. Len(box) : after[i] = box[i]

LEMMA TailWithin ==
    ASSUME NEW box \in Seq(Datagrams), box # <<>>
    PROVE  Tail(box) \in Seq(Datagrams) /\ Within(Tail(box), box)
<1>1. /\ Tail(box) \in Seq(Datagrams) /\ Len(Tail(box)) = Len(box) - 1 /\ Len(box) \in Nat
      /\ \A i \in 1 .. Len(Tail(box)) : Tail(box)[i] = box[i + 1]
  BY HeadTailProperties
<1>2. Len(Tail(box)) + 1 = Len(box)
  BY <1>1
<1>3. \A i \in 1 .. Len(Tail(box)) : i + 1 \in 1 .. Len(box)
  BY <1>1
<1> QED
  BY <1>1, <1>2, <1>3 DEF Within

LEMMA SameWithin == ASSUME NEW box \in Seq(Datagrams) PROVE Within(box, box)
  BY DEF Within

LEMMA SentExtends ==
    ASSUME NEW box \in Seq(Datagrams), NEW m \in Datagrams
    PROVE  Ffy!Sent(box, <<m>>) \in Seq(Datagrams) /\ Extends(Ffy!Sent(box, <<m>>), box, m)
<1>1. <<m>> \in Seq(Datagrams) /\ Len(<<m>>) = 1
  OBVIOUS
<1>2. /\ box \o <<m>> \in Seq(Datagrams) /\ Len(box \o <<m>>) = Len(box) + 1 /\ Len(box) \in Nat
      /\ (box \o <<m>>)[Len(box) + 1] = m /\ \A i \in 1 .. Len(box) : (box \o <<m>>)[i] = box[i]
  BY <1>1, ConcatProperties
<1> QED
  BY <1>2 DEF Ffy!Sent, Extends

\* Where the elements of the longer box come from.
LEMMA ExtendsAt ==
    ASSUME NEW box, NEW after, NEW m, Len(box) \in Nat, Extends(after, box, m), NEW j \in 1 .. Len(after)
    PROVE  \/ j \in 1 .. Len(box) /\ after[j] = box[j]
           \/ j = Len(box) + 1 /\ after[j] = m
  BY DEF Extends

LEMMA SentNothing == ASSUME NEW box \in Seq(Datagrams) PROVE Ffy!Sent(box, <<>>) = box
  BY ConcatEmptySeq DEF Ffy!Sent

-----------------------------------------------------------------------------
(* The steps *)

\* A side that only takes a datagram, or loses one, changes no order.
LEMMA FfyTake ==
    ASSUME FfyInv, toA' \in Seq(Datagrams), toB' \in Seq(Datagrams), Within(toA', toA), Within(toB', toB),
           UNCHANGED <<count, latest, lastCount, published>>,
           side' = side \/ \E s \in {"A", "B"} : Ffy!Goto(s, "start")
    PROVE  FfyInv'
<1>1. /\ side' \in [{"A", "B"} -> [at : Places, probe : Nat]]
      /\ \A s \in {"A", "B"} : side'[s].probe = side[s].probe /\ side'[s].at \in {side[s].at, "start"}
  <2>1. side \in [{"A", "B"} -> [at : Places, probe : Nat]] /\ "start" \in Places
    BY DEF FfyInv, FfyTypes, Places
  <2>2. CASE side' = side
    BY <2>1, <2>2
  <2>3. ASSUME NEW s \in {"A", "B"}, side' = [side EXCEPT ![s].at = "start"]
        PROVE  /\ side' \in [{"A", "B"} -> [at : Places, probe : Nat]]
               /\ \A t \in {"A", "B"} : side'[t].probe = side[t].probe /\ side'[t].at \in {side[t].at, "start"}
    BY <2>1, <2>3
  <2> QED
    BY <2>2, <2>3 DEF Ffy!Goto
<1>2. PICK k \in {0, 1} : Len(toB') + k = Len(toB)
                          /\ \A i \in 1 .. Len(toB') : i + k \in 1 .. Len(toB) /\ toB'[i] = toB[i + k]
  BY DEF Within
<1>3. \A i \in 1 .. Len(toA') : toA'[i].round <= side["B"].probe
  BY DEF Within, FfyInv, SentInv
<1>4. \A i, j \in 1 .. Len(toB') : i < j => Before(toB'[i], toB'[j])
  <2> SUFFICES ASSUME NEW i \in 1 .. Len(toB'), NEW j \in 1 .. Len(toB'), i < j
               PROVE  Before(toB'[i], toB'[j])
    OBVIOUS
  <2>1. i + k < j + k
    OBVIOUS
  <2> QED
    BY <1>2, <2>1 DEF FfyInv, SentInv
<1>5. SentInv'
  BY <1>1, <1>2, <1>3, <1>4 DEF FfyInv, SentInv, Before, Ffy!Times
<1>6. AheadInv'
  BY <1>1, <1>2 DEF FfyInv, AheadInv, Before, Ffy!Probe
<1>7. FfyTypes' /\ PublishedInv'
  BY <1>1 DEF FfyInv, FfyTypes, PublishedInv
<1> QED
  BY <1>5, <1>6, <1>7 DEF FfyInv

LEMMA FfyNextRound == ASSUME FfyInv, NEW s \in {"A", "B"}, Ffy!NextRound(s) PROVE FfyInv'
<1>1. /\ side' = [side EXCEPT ![s] = [at |-> "probe", probe |-> side[s].probe + 1]]
      /\ side[s].at = "start"
      /\ UNCHANGED <<count, latest, lastCount, published>>
  BY DEF Ffy!NextRound, Ffy!At, Ffy!bufferVars
<1>2. side' \in [{"A", "B"} -> [at : Places, probe : Nat]]
  BY <1>1 DEF FfyInv, FfyTypes, Places
<1>3. CASE s = "B"
  <2>1. toA' = toA /\ toB' = toB
    BY <1>3, SentNothing DEF Ffy!NextRound, Ffy!Exchange, FfyInv, FfyTypes
  <2>2. side'["A"] = side["A"] /\ side'["B"].at = "probe" /\ side'["B"].probe = side["B"].probe + 1
    BY <1>1, <1>3 DEF FfyInv, FfyTypes
  <2>3. SentInv'
    <3>1. /\ side'["A"].probe = side["A"].probe /\ side'["B"].probe \in Nat /\ side["B"].probe \in Nat
          /\ side["B"].probe <= side'["B"].probe
      BY <2>2, FfyElements DEF FfyInv
    <3>2. \A i \in 1 .. Len(toA) : toA[i].round \in Nat /\ toA[i].round <= side["B"].probe
      BY FfyElements DEF FfyInv, SentInv
    <3>3. \A i \in 1 .. Len(toB) :
             /\ toB[i].round <= side["A"].probe
             /\ side["A"].at = "probe" => Before(toB[i], Ffy!Times(side["A"].probe))
             /\ toB[i].kind = "times" => toB[i].round \in Nat /\ toB[i].round <= side["B"].probe
      BY FfyElements DEF FfyInv, SentInv
    <3>4. \A i, j \in 1 .. Len(toB) : i < j => Before(toB[i], toB[j])
      BY DEF FfyInv, SentInv
    <3> QED
      BY <2>1, <2>2, <3>1, <3>2, <3>3, <3>4 DEF SentInv
  <2>4. PublishedInv'
    BY <1>1, <2>2, FfyElements DEF FfyInv, PublishedInv
  <2>5. FfyTypes' /\ AheadInv'
    BY <1>1, <1>2, <2>1, <2>2 DEF FfyInv, FfyTypes, AheadInv
  <2> QED
    BY <2>3, <2>4, <2>5 DEF FfyInv
<1>4. CASE s = "A"
  <2> DEFINE m == Ffy!Probe(side["A"].probe + 1)
  <2>1. m \in Datagrams /\ m.round = side["A"].probe + 1 /\ m.kind = "probe"
    BY DEF FfyInv, FfyTypes, Datagrams, Ffy!Probe
  <2>2. toA' = toA /\ toB' = Ffy!Sent(toB, <<m>>)
    BY <1>4 DEF Ffy!NextRound, Ffy!Exchange, Ffy!probeIndex
  <2>3. toB' \in Seq(Datagrams) /\ Extends(toB', toB, m)
    BY <2>1, <2>2, SentExtends DEF FfyInv, FfyTypes
  <2>4. side'["B"] = side["B"] /\ side'["A"].at = "probe" /\ side'["A"].probe = side["A"].probe + 1
    BY <1>1, <1>4 DEF FfyInv, FfyTypes
  <2> HIDE DEF m
  <2>8. \A i \in 1 .. Len(toB') : \/ i \in 1 .. Len(toB) /\ toB'[i] = toB[i]
                                  \/ i = Len(toB) + 1 /\ toB'[i] = m
    BY <2>3, ExtendsAt, FfyElements DEF FfyInv
  <2>9. FfyTypes /\ side["A"].probe \in Nat /\ side["B"].probe \in Nat
    BY FfyElements DEF FfyInv
  <2>5. SentInv'
    <3>0. /\ Len(toB) \in Nat
          /\ \A i \in 1 .. Len(toB) : /\ toB[i].round \in Nat /\ toB[i].round <= side["A"].probe
                                      /\ toB[i].kind = "times" => toB[i].round <= side["B"].probe
      BY <2>9, FfyElements DEF FfyInv, SentInv
    <3>3. \A i \in 1 .. Len(toB) : Before(toB[i], m)
      BY <2>1, <2>9, <3>0 DEF Before
    <3>1. ASSUME NEW i \in 1 .. Len(toB'), NEW j \in 1 .. Len(toB'), i < j
          PROVE  Before(toB'[i], toB'[j])
      <4>1. i \in 1 .. Len(toB) /\ toB'[i] = toB[i]
        BY <2>8, <3>0, <3>1
      <4> QED
        BY <2>8, <3>3, <3>1, <4>1 DEF FfyInv, SentInv
    <3>2. ASSUME NEW i \in 1 .. Len(toB')
          PROVE  /\ toB'[i].round <= side["A"].probe + 1
                 /\ Before(toB'[i], Ffy!Times(side["A"].probe + 1))
                 /\ toB'[i].kind = "times" => toB'[i].round <= side["B"].probe
      <4> DEFINE t == Ffy!Times(side["A"].probe + 1)
      <4>1. t.round = side["A"].probe + 1 /\ t.kind = "times"
        BY <2>9, ProbeTimes
      <4>2. CASE i \in 1 .. Len(toB) /\ toB'[i] = toB[i]
        BY <2>9, <3>0, <4>1, <4>2 DEF Before
      <4>3. CASE toB'[i] = m
        BY <2>1, <2>9, <4>1, <4>3 DEF Before
      <4> QED
        BY <2>8, <4>2, <4>3
    <3> QED
      BY <2>2, <2>4, <3>1, <3>2 DEF FfyInv, SentInv
  <2>6. AheadInv'
    <3> SUFFICES ASSUME side["B"].at = "times"
                 PROVE  /\ side["B"].probe <= side["A"].probe + 1
                        /\ \A i \in 1 .. Len(toB') : Before(Ffy!Probe(side["B"].probe), toB'[i])
      BY <2>4 DEF AheadInv
    <3>1. side["B"].probe <= side["A"].probe
      BY DEF FfyInv, AheadInv
    <3>2. Before(Ffy!Probe(side["B"].probe), m)
      BY <2>1, <2>9, <3>1, ProbeTimes DEF Before
    <3> QED
      BY <2>8, <2>9, <3>1, <3>2 DEF FfyInv, AheadInv
  <2>7. FfyTypes' /\ PublishedInv'
    BY <1>1, <1>2, <2>2, <2>3, <2>4 DEF FfyInv, FfyTypes, PublishedInv
  <2> QED
    BY <2>5, <2>6, <2>7 DEF FfyInv
<1> QED
  BY <1>3, <1>4

\* B takes the probe of its round: what is behind it in the box was sent later.
LEMMA FfyProbeB == ASSUME FfyInv, Ffy!ReceiveProbe("B") PROVE FfyInv'
<1> DEFINE m == Ffy!Probe(side["B"].probe)
<1>1. /\ side' = [side EXCEPT !["B"].at = "times"] /\ side["B"].at = "probe"
      /\ UNCHANGED <<count, latest, lastCount, published>>
      /\ toB # <<>> /\ Head(toB) = m /\ toB' = Tail(toB) /\ toA' = Ffy!Sent(toA, <<m>>)
  BY DEF Ffy!ReceiveProbe, Ffy!At, Ffy!Goto, Ffy!Arrived, Ffy!Box, Ffy!Matches, Ffy!probeIndex,
     Ffy!Exchange, Ffy!Taken, Ffy!bufferVars
<1>2. m \in Datagrams /\ m.round = side["B"].probe /\ m.kind = "probe"
  BY DEF FfyInv, FfyTypes, Datagrams, Ffy!Probe
<1>3. toA' \in Seq(Datagrams) /\ Extends(toA', toA, m)
  BY <1>1, <1>2, SentExtends DEF FfyInv, FfyTypes
<1>4. /\ toB' \in Seq(Datagrams) /\ Len(toB') = Len(toB) - 1 /\ Len(toB) \in Nat \ {0} /\ toB[1] = m
      /\ \A i \in 1 .. Len(toB') : i + 1 \in 1 .. Len(toB) /\ toB'[i] = toB[i + 1]
  BY <1>1, HeadTailProperties DEF FfyInv, FfyTypes
<1>5. /\ side'["A"] = side["A"] /\ side'["B"].at = "times" /\ side'["B"].probe = side["B"].probe
      /\ side' \in [{"A", "B"} -> [at : Places, probe : Nat]]
  BY <1>1 DEF FfyInv, FfyTypes, Places
<1>6. AheadInv'
  <2>1. m.round <= side["A"].probe
    BY <1>4 DEF FfyInv, SentInv
  <2>2. \A i \in 1 .. Len(toB') : Before(m, toB'[i])
    BY <1>4 DEF FfyInv, SentInv
  <2> QED
    BY <1>2, <1>5, <2>1, <2>2 DEF AheadInv, Before, Ffy!Probe
<1> HIDE DEF m
<1>7. SentInv'
  <2>1. \A i, j \in 1 .. Len(toB') : i < j => Before(toB'[i], toB'[j])
    <3> SUFFICES ASSUME NEW i \in 1 .. Len(toB'), NEW j \in 1 .. Len(toB'), i < j
                 PROVE  Before(toB'[i], toB'[j])
      OBVIOUS
    <3>1. i + 1 < j + 1
      OBVIOUS
    <3> QED
      BY <1>4, <3>1 DEF FfyInv, SentInv
  <2>2. \A i \in 1 .. Len(toA') : toA'[i].round <= side["B"].probe
    BY <1>2, <1>3 DEF FfyInv, FfyTypes, SentInv, Extends
  <2> QED
    BY <1>4, <1>5, <2>1, <2>2 DEF FfyInv, SentInv
<1>8. FfyTypes' /\ PublishedInv'
  BY <1>1, <1>3, <1>4, <1>5 DEF FfyInv, FfyTypes, PublishedInv
<1> QED
  BY <1>6, <1>7, <1>8 DEF FfyInv

\* A has the echo of its round: B is in that round, or waits for a later one.
LEMMA FfyProbeA == ASSUME FfyInv, Ffy!ReceiveProbe("A") PROVE FfyInv'
<1> DEFINE m == Ffy!Times(side["A"].probe)
<1>1. /\ side' = [side EXCEPT !["A"].at = "times"] /\ side["A"].at = "probe"
      /\ UNCHANGED <<count, latest, lastCount, published>>
      /\ toA # <<>> /\ Head(toA).round = side["A"].probe
      /\ toA' = Tail(toA) /\ toB' = Ffy!Sent(toB, <<m>>)
  BY DEF Ffy!ReceiveProbe, Ffy!At, Ffy!Goto, Ffy!Arrived, Ffy!Box, Ffy!Matches, Ffy!probeIndex,
     Ffy!Exchange, Ffy!Taken, Ffy!bufferVars, Ffy!Probe
<1>2. m \in Datagrams /\ m.round = side["A"].probe /\ m.kind = "times"
  BY DEF FfyInv, FfyTypes, Datagrams, Ffy!Times
<1>3. toB' \in Seq(Datagrams) /\ Extends(toB', toB, m)
  BY <1>1, <1>2, SentExtends DEF FfyInv, FfyTypes
<1>4. /\ toA' \in Seq(Datagrams) /\ Len(toA') = Len(toA) - 1 /\ Len(toA) \in Nat \ {0}
      /\ toA[1].round = side["A"].probe
      /\ \A i \in 1 .. Len(toA') : i + 1 \in 1 .. Len(toA) /\ toA'[i] = toA[i + 1]
  BY <1>1, Received DEF FfyInv, FfyTypes
<1>5. /\ side'["B"] = side["B"] /\ side'["A"].at = "times" /\ side'["A"].probe = side["A"].probe
      /\ side' \in [{"A", "B"} -> [at : Places, probe : Nat]]
  BY <1>1 DEF FfyInv, FfyTypes, Places
<1>6. side["A"].probe <= side["B"].probe
  BY <1>4 DEF FfyInv, SentInv
<1>7. \A i \in 1 .. Len(toB) : Before(toB[i], m)
  BY <1>1 DEF FfyInv, SentInv
<1> HIDE DEF m
<1>11. \A i \in 1 .. Len(toB') : \/ i \in 1 .. Len(toB) /\ toB'[i] = toB[i]
                                 \/ i = Len(toB) + 1 /\ toB'[i] = m
  <2>1. Len(toB) \in Nat
    BY FfyElements DEF FfyInv
  <2> QED
    BY <1>3, <2>1, ExtendsAt
<1>8. SentInv'
  <2>1. ASSUME NEW i \in 1 .. Len(toB'), NEW j \in 1 .. Len(toB'), i < j
        PROVE  Before(toB'[i], toB'[j])
    <3>1. i \in 1 .. Len(toB) /\ toB'[i] = toB[i]
      BY <1>11, <2>1, FfyElements DEF FfyInv
    <3> QED
      BY <1>7, <1>11, <2>1, <3>1 DEF FfyInv, SentInv
  <2>2. \A i \in 1 .. Len(toB') : toB'[i].round <= side["A"].probe
                                  /\ (toB'[i].kind = "times" => toB'[i].round <= side["B"].probe)
    <3> TAKE i \in 1 .. Len(toB')
    <3>1. CASE i \in 1 .. Len(toB) /\ toB'[i] = toB[i]
      BY <3>1 DEF FfyInv, SentInv
    <3>2. CASE toB'[i] = m
      BY <1>2, <1>6, <3>2, FfyElements DEF FfyInv
    <3> QED
      BY <1>11, <3>1, <3>2
  <2> QED
    BY <1>4, <1>5, <2>1, <2>2 DEF FfyInv, SentInv
<1>9. AheadInv'
  <2>1. side["B"].at = "times" => /\ side["B"].probe = side["A"].probe
                                  /\ Before(Ffy!Probe(side["B"].probe), m)
    BY <1>2, <1>6, FfyElements, ProbeTimes DEF FfyInv, AheadInv, Before
  <2> QED
    BY <1>5, <1>11, <2>1 DEF FfyInv, AheadInv
<1>10. FfyTypes' /\ PublishedInv'
  BY <1>1, <1>3, <1>4, <1>5 DEF FfyInv, FfyTypes, PublishedInv
<1> QED
  BY <1>8, <1>9, <1>10 DEF FfyInv

\* The times B gets are of its own round.
LEMMA FfyTimesB == ASSUME FfyInv, Ffy!ReceiveTimes("B") PROVE FfyInv'
<1> DEFINE m == Ffy!Times(side["B"].probe)
<1>1. /\ side' = [side EXCEPT !["B"].at = "start"] /\ side["B"].at = "times"
      /\ UNCHANGED <<lastCount, published>> /\ count' = count + 1
      /\ latest' = [a |-> Head(toB).round, b |-> side["B"].probe]
      /\ toB # <<>> /\ Head(toB).kind = "times" /\ toB' = Tail(toB) /\ toA' = Ffy!Sent(toA, <<m>>)
  BY DEF Ffy!ReceiveTimes, Ffy!At, Ffy!Goto, Ffy!Arrived, Ffy!Box, Ffy!probeIndex, Ffy!Measurement,
     Ffy!Exchange, Ffy!Taken
<1>2. m \in Datagrams /\ m.round = side["B"].probe
  BY DEF FfyInv, FfyTypes, Datagrams, Ffy!Times
<1>3. toA' \in Seq(Datagrams) /\ Extends(toA', toA, m)
  BY <1>1, <1>2, SentExtends DEF FfyInv, FfyTypes
<1>4. /\ toB' \in Seq(Datagrams) /\ Len(toB') = Len(toB) - 1 /\ Len(toB) \in Nat \ {0}
      /\ toB[1] = Head(toB) /\ toB[1] \in Datagrams
      /\ \A i \in 1 .. Len(toB') : i + 1 \in 1 .. Len(toB) /\ toB'[i] = toB[i + 1]
  BY <1>1, Received DEF FfyInv, FfyTypes
<1>5. /\ side'["A"] = side["A"] /\ side'["B"].at = "start" /\ side'["B"].probe = side["B"].probe
      /\ side' \in [{"A", "B"} -> [at : Places, probe : Nat]] /\ side["B"].probe \in Nat
  BY <1>1 DEF FfyInv, FfyTypes, Places
<1>6. toB[1].round = side["B"].probe
  <2>1. toB[1].round <= side["B"].probe
    BY <1>1, <1>4 DEF FfyInv, SentInv
  <2>2. side["B"].probe <= toB[1].round
    <3>1. Before(Ffy!Probe(side["B"].probe), toB[1])
      BY <1>1, <1>4 DEF FfyInv, AheadInv
    <3>2. Ffy!Probe(side["B"].probe).round = side["B"].probe /\ toB[1].round \in Nat
      BY <1>4, <1>5, ProbeTimes DEF Datagrams
    <3> QED
      BY <1>5, <3>1, <3>2 DEF Before
  <2> QED
    BY <1>4, <1>5, <2>1, <2>2 DEF Datagrams
<1> HIDE DEF m
<1>7. SentInv'
  <2>1. \A i, j \in 1 .. Len(toB') : i < j => Before(toB'[i], toB'[j])
    <3> SUFFICES ASSUME NEW i \in 1 .. Len(toB'), NEW j \in 1 .. Len(toB'), i < j
                 PROVE  Before(toB'[i], toB'[j])
      OBVIOUS
    <3>1. i + 1 < j + 1
      OBVIOUS
    <3> QED
      BY <1>4, <3>1 DEF FfyInv, SentInv
  <2>2. \A i \in 1 .. Len(toA') : toA'[i].round <= side["B"].probe
    BY <1>2, <1>3, <1>5 DEF FfyInv, FfyTypes, SentInv, Extends
  <2> QED
    BY <1>4, <1>5, <2>1, <2>2 DEF FfyInv, SentInv
<1>8. latest'.a = side["B"].probe /\ latest'.b = side["B"].probe /\ latest' \in [a : Nat, b : Nat]
  BY <1>1, <1>4, <1>5, <1>6
<1>9. FfyTypes'
  BY <1>1, <1>3, <1>4, <1>5, <1>8 DEF FfyInv, FfyTypes
<1>10. PublishedInv'
  <2>1. latest.b < side["B"].probe /\ latest.b \in Nat
    BY <1>1 DEF FfyInv, FfyTypes, PublishedInv
  <2>2. \A i \in 1 .. Len(published) : /\ published[i].a = published[i].b
                                       /\ published[i].b < side["B"].probe
    BY <1>5, <2>1, FfyElements DEF FfyInv, PublishedInv
  <2>3. \A i \in 1 .. Len(published) : published[i].b <= side["B"].probe
    BY <1>5, <2>2, FfyElements DEF FfyInv
  <2>4. \A i, j \in 1 .. Len(published) : i < j => published[i].b < published[j].b
    BY DEF FfyInv, PublishedInv
  <2> QED
    BY <1>1, <1>5, <1>8, <2>2, <2>3, <2>4 DEF PublishedInv
<1> QED
  BY <1>5, <1>7, <1>9, <1>10 DEF FfyInv, AheadInv

LEMMA FfyRun == ASSUME FfyInv, Ffy!firefly_run PROVE FfyInv'
<1>1. /\ UNCHANGED <<side, toA, toB, count, latest>> /\ count # lastCount /\ lastCount' = count
      /\ published' = published \/ published' = Append(published, latest)
  BY DEF Ffy!firefly_run, Ffy!Rejected
<1>2. CASE published' = published
  <2>1. FfyTypes'
    BY <1>1, <1>2 DEF FfyInv, FfyTypes
  <2>2. SentInv'
    BY <1>1 DEF FfyInv, SentInv
  <2>3. AheadInv'
    BY <1>1 DEF FfyInv, AheadInv
  <2>4. PublishedInv'
    BY <1>1, <1>2 DEF FfyInv, PublishedInv
  <2> QED
    BY <2>1, <2>2, <2>3, <2>4 DEF FfyInv
<1>3. CASE published' = Append(published, latest)
  <2>1. /\ published' \in Seq([a : Nat, b : Nat]) /\ Len(published') = Len(published) + 1
        /\ published'[Len(published) + 1] = latest /\ Len(published) \in Nat
        /\ \A i \in 1 .. Len(published) : published'[i] = published[i]
    BY <1>3, AppendProperties DEF FfyInv, FfyTypes
  <2>9. latest.a \in Nat /\ latest.b \in Nat /\ Len(published) \in Nat
    BY FfyElements DEF FfyInv
  <2>8. \A i \in 1 .. Len(published') : \/ i \in 1 .. Len(published)
                                        \/ i = Len(published) + 1 /\ published'[i] = latest
    BY <2>1
  <2>2. \A i \in 1 .. Len(published') : published'[i].a = published'[i].b /\ published'[i].b <= latest.b
    <3> TAKE i \in 1 .. Len(published')
    <3>2. CASE i \in 1 .. Len(published)
      BY <2>1, <3>2 DEF FfyInv, PublishedInv
    <3>3. CASE published'[i] = latest
      BY <2>9, <3>3 DEF FfyInv, PublishedInv
    <3> QED
      BY <2>8, <3>2, <3>3
  <2>3. ASSUME NEW i \in 1 .. Len(published'), NEW j \in 1 .. Len(published'), i < j
        PROVE  published'[i].b < published'[j].b
    <3>4. i \in 1 .. Len(published)
      <4> DEFINE n == Len(published)
      <4>1. i \in 1 .. (n + 1) /\ j \in 1 .. (n + 1) /\ n \in Nat
        BY <2>1
      <4> HIDE DEF n
      <4>2. i \in 1 .. n
        BY <2>3, <4>1
      <4> QED
        BY <4>2 DEF n
    <3>1. i \in 1 .. Len(published) /\ published'[i] = published[i]
      BY <2>1, <3>4
    <3>2. CASE j \in 1 .. Len(published)
      BY <2>1, <2>3, <3>1, <3>2 DEF FfyInv, PublishedInv
    <3>3. CASE published'[j] = latest
      BY <1>1, <3>1, <3>3 DEF FfyInv, PublishedInv
    <3> QED
      BY <2>8, <3>2, <3>3
  <2>4. PublishedInv'
    BY <1>1, <2>2, <2>3 DEF FfyInv, PublishedInv
  <2> QED
    BY <1>1, <2>1, <2>4 DEF FfyInv, FfyTypes, SentInv, AheadInv
<1> QED
  BY <1>1, <1>2, <1>3

LEMMA FfyStep == ASSUME FfyInv, [Ffy!Next]_Ffy!fireflyVars PROVE FfyInv'
<1>1. toA \in Seq(Datagrams) /\ toB \in Seq(Datagrams)
  BY DEF FfyInv, FfyTypes
<1>2. ASSUME NEW s \in {"A", "B"}, Ffy!GiveUp(s) PROVE FfyInv'
  <2>1. /\ toA' = toA \/ (toA # <<>> /\ toA' = Tail(toA))
        /\ toB' = toB \/ (toB # <<>> /\ toB' = Tail(toB))
    <3>1. CASE s = "A"
      BY <1>1, <1>2, <3>1, SentNothing DEF Ffy!GiveUp, Ffy!Exchange, Ffy!Arrived, Ffy!Box, Ffy!Taken
    <3>2. CASE s = "B"
      BY <1>1, <1>2, <3>2, SentNothing DEF Ffy!GiveUp, Ffy!Exchange, Ffy!Arrived, Ffy!Box, Ffy!Taken
    <3> QED
      BY <3>1, <3>2
  <2> QED
    BY <1>1, <1>2, <2>1, SameWithin, TailWithin, FfyTake DEF Ffy!GiveUp, Ffy!bufferVars
<1>3. CASE Ffy!Lose \/ UNCHANGED Ffy!fireflyVars
  <2>1. /\ toA' = toA \/ (toA # <<>> /\ toA' = Tail(toA))
        /\ toB' = toB \/ (toB # <<>> /\ toB' = Tail(toB))
        /\ side' = side /\ UNCHANGED <<count, latest, lastCount, published>>
    <3>1. CASE Ffy!Lose
      BY <3>1, Zenon DEF Ffy!Lose, Ffy!bufferVars
    <3>2. CASE UNCHANGED Ffy!fireflyVars
      BY <3>2 DEF Ffy!fireflyVars
    <3> QED
      BY <1>3, <3>1, <3>2
  <2> QED
    BY <1>1, <2>1, SameWithin, TailWithin, FfyTake
<1>4. CASE Ffy!ReceiveTimes("A")
  <2>1. /\ toA # <<>> /\ toA' = Tail(toA) /\ toB' = toB
        /\ Ffy!Goto("A", "start") /\ UNCHANGED <<count, latest, lastCount, published>>
    BY <1>1, <1>4, SentNothing DEF Ffy!ReceiveTimes, Ffy!Exchange, Ffy!Arrived, Ffy!Box, Ffy!Taken
  <2> QED
    BY <1>1, <2>1, SameWithin, TailWithin, FfyTake
<1> QED
  BY <1>2, <1>3, <1>4, FfyNextRound, FfyProbeA, FfyProbeB, FfyTimesB, FfyRun DEF Ffy!Next

\* However many probes, echoes and times are lost or come too late, the four times
\* behind an offset that is used are of one round, and no round is used twice.
THEOREM RoundsMatch == SourcesSpec => []OffsetsOfOneRound
<1> DEFINE Inv == subject = "firefly" => FfyInv
<1>1. SourcesInit => Inv
  BY FfyInit DEF SourcesInit
<1>2. Inv /\ [SourcesNext]_vars => Inv'
  <2>1. [SourcesNext]_vars => subject' = subject /\ (subject = "firefly" => [Ffy!Next]_Ffy!fireflyVars)
    BY DEF SourcesNext, Rocprof, Roctracer, Cupti, ClrNext, AmdSmi, Clock, Probes, Filter, Sender,
       CallStacks, vars, ffyVars, onlineVars, Ffy!fireflyVars
  <2> QED
    BY <2>1, FfyStep
<1>3. Inv => OffsetsOfOneRound
  <2> SUFFICES ASSUME FfyInv PROVE Ffy!OffsetsOfOneRound
    BY DEF OffsetsOfOneRound
  <2>1. DOMAIN published = 1 .. Len(published)
    BY DEF FfyInv, FfyTypes
  <2> QED
    BY <2>1 DEF FfyInv, PublishedInv, Ffy!OffsetsOfOneRound
<1> QED
  BY <1>1, <1>2, <1>3, PTL DEF SourcesSpec

-----------------------------------------------------------------------------
(* The clock offset of a node (ClockSync)                                    *)

\* A process's own state is no segment.
SegmentsApart == MaxDelegates \in Nat /\ Processes \cap Segments = {}

States == Processes \cup Segments
State  == [sequence : Nat, referenceTime : Nat, offset : Nat, drift : Nat]

ClockTypes ==
    /\ delegates \in 0 .. MaxDelegates /\ clocksync_shm \in 0 .. delegates
    /\ linked \subseteq 1 .. delegates
    /\ m_shmName \in [Processes -> 0 .. delegates]
    /\ g_pSvcState \in [Processes -> States] /\ SvcState \in [States -> State]
    /\ at \in [Processes -> {"new", "creating", "storing", "delegate", "querying", "waiting",
                             "attached", "unlocking", "cleaning", "over"}]
    /\ updating \in [Processes -> [at : {"sleeping", "time", "offset", "drift", "end"},
                                   sequence : Nat]]
    /\ reading \in [Processes -> [at : {"out", "sequence", "offset", "drift", "time", "check",
                                        "done"},
                                  seq : Nat, offset : Nat, drift : Nat, ref : Nat, seen : Nat]]

\* Each delegate has a segment of its own, and it or its own state is what it uses.
Delegated(p) == at[p] \in {"creating", "storing", "delegate", "unlocking", "cleaning"}
NamesInv ==
    /\ \A p, q \in Processes : m_shmName[p] # 0 /\ m_shmName[p] = m_shmName[q] => p = q
    /\ \A p \in Processes : Delegated(p) => m_shmName[p] # 0 /\ g_pSvcState[p] \in {p, m_shmName[p]}
    /\ \A p \in Processes : at[p] = "new" => m_shmName[p] = 0 /\ g_pSvcState[p] = p

\* Only delegates update, only processes that run read.
PlacesInv ==
    \A p \in Processes : /\ updating[p].at # "sleeping" => at[p] = "delegate"
                         /\ reading[p].at # "out" => Running(p)

Holds(s, ref, offset, drift) ==
    SvcState[s].referenceTime = ref /\ SvcState[s].offset = offset /\ SvcState[s].drift = drift

\* An even sequence means that the fields are of one update; the one that is under
\* way has made it odd.
Whole(s) == SvcState[s].sequence % 2 = 0
            /\ LET n == SvcState[s].sequence \div 2 IN Holds(s, n, n, n)
Partial(p) ==
    LET s == g_pSvcState[p]
        n == updating[p].sequence \div 2
    IN  /\ updating[p].sequence % 2 = 0 /\ SvcState[s].sequence = updating[p].sequence + 1
        /\ updating[p].at = "time"   => Holds(s, n, n, n)
        /\ updating[p].at = "offset" => Holds(s, n + 1, n, n)
        /\ updating[p].at = "drift"  => Holds(s, n + 1, n + 1, n)
        /\ updating[p].at = "end"    => Holds(s, n + 1, n + 1, n + 1)
Updated(s) == \E p \in Processes : updating[p].at # "sleeping" /\ g_pSvcState[p] = s
StatesInv ==
    /\ \A s \in States : Updated(s) \/ Whole(s)
    /\ \A p \in Processes : updating[p].at # "sleeping" => Partial(p)

\* What a reader has read so far is of the update it began with, unless the
\* sequence has changed since.
Current(p) == Mine(p).sequence = reading[p].seq /\ reading[p].seq % 2 = 0
ReadersInv ==
    \A p \in Processes :
        LET r == reading[p]
            n == r.seq \div 2
        IN  /\ r.at = "sequence" => r.seen <= Mine(p).sequence
            /\ r.at \in {"offset", "drift", "time", "check", "done"} => r.seen <= r.seq
            /\ r.at \in {"offset", "drift", "time", "check"} => r.seq <= Mine(p).sequence
            /\ r.at \in {"drift", "time", "check"} /\ Current(p) => r.offset = n
            /\ r.at \in {"time", "check"} /\ Current(p) => r.drift = n
            /\ r.at = "check" /\ Current(p) => r.ref = n
            /\ r.at = "done" => r.offset = n /\ r.drift = n /\ r.ref = n

ClockInv == ClockTypes /\ NamesInv /\ PlacesInv /\ StatesInv /\ ReadersInv

LEMMA Halves ==
    ASSUME NEW n \in Nat, n % 2 = 0
    PROVE  /\ (n + 1) % 2 = 1 /\ (n + 2) % 2 = 0 /\ (n + 2) \div 2 = n \div 2 + 1
           /\ n \div 2 \in Nat
  OBVIOUS

LEMMA InitInv == SegmentsApart /\ Init => ClockInv
<1> SUFFICES ASSUME SegmentsApart, Init PROVE ClockInv
  OBVIOUS
<1>1. ClockTypes
  BY DEF Init, ClockTypes, SegmentsApart, States, State, Segments, NotUpdating, NotReading
<1>2. NamesInv /\ PlacesInv
  BY DEF Init, NamesInv, PlacesInv, Delegated, NotUpdating, NotReading
<1>3. \A s \in States : /\ SvcState[s].sequence = 0 /\ SvcState[s].referenceTime = 0
                        /\ SvcState[s].offset = 0 /\ SvcState[s].drift = 0
  BY DEF Init, States
<1>4. StatesInv
  <2>1. 0 % 2 = 0 /\ 0 \div 2 = 0
    OBVIOUS
  <2> QED
    BY <1>3, <2>1 DEF Init, StatesInv, Whole, Holds, NotUpdating
<1>5. ReadersInv
  BY DEF Init, ReadersInv, NotReading
<1> QED
  BY <1>1, <1>2, <1>4, <1>5 DEF ClockInv

\* Two workers never update one state.
LEMMA OneWriter ==
    ASSUME SegmentsApart, ClockInv, NEW p \in Processes, NEW q \in Processes,
           Delegated(p), Delegated(q), g_pSvcState[p] = g_pSvcState[q]
    PROVE  p = q
<1>1. /\ m_shmName[p] \in 1 .. MaxDelegates /\ m_shmName[q] \in 1 .. MaxDelegates
      /\ g_pSvcState[p] \in {p, m_shmName[p]} /\ g_pSvcState[q] \in {q, m_shmName[q]}
  BY DEF ClockInv, ClockTypes, NamesInv, SegmentsApart
<1> QED
  BY <1>1 DEF SegmentsApart, Segments, ClockInv, NamesInv

-----------------------------------------------------------------------------
(* Steps of init() and end() *)

LEMMA LifeTypes ==
    ASSUME SegmentsApart, ClockInv, NEW p \in Processes, LifeCycle(p)
    PROVE  ClockTypes'
<1> USE DEF ClockInv, ClockTypes, Goto, lockVars
<1>1. delegates \in Nat /\ MaxDelegates \in Nat
  BY DEF SegmentsApart
<1>2. CASE Elect(p)
  <2>1. /\ delegates + 1 \in 0 .. MaxDelegates /\ clocksync_shm \in 0 .. delegates + 1
        /\ linked \subseteq 1 .. delegates + 1 /\ delegates + 1 \in 0 .. delegates + 1
        /\ \A q \in Processes : m_shmName[q] \in 0 .. delegates + 1
    BY <1>1, <1>2 DEF Elect
  <2> QED
    BY <1>2, <2>1 DEF Elect
<1>3. CASE CreateShm(p)
  <2>1. m_shmName[p] \in 1 .. delegates /\ m_shmName[p] \in States
    BY <1>1, <1>3 DEF CreateShm, NamesInv, Delegated, States, Segments
  <2> QED
    BY <1>3, <2>1 DEF CreateShm
<1>4. CASE StoreMetadata(p)
  BY <1>4 DEF StoreMetadata
<1>5. CASE NotElected(p) \/ Synced(p) \/ TimeOut(p) \/ Leave(p) \/ JoinWorker(p)
  BY <1>5 DEF NotElected, Synced, TimeOut, Leave, JoinWorker
<1>6. CASE Attach(p)
  <2>1. clocksync_shm \in States
    BY <1>1, <1>6 DEF Attach, States, Segments
  <2> QED
    BY <1>6, <2>1 DEF Attach
<1>7. CASE Unlock(p)
  BY <1>7 DEF Unlock
<1>8. CASE CleanupShm(p)
  <2>1. p \in States
    BY DEF States
  <2> QED
    BY <1>8, <2>1 DEF CleanupShm
<1> QED
  BY <1>2, <1>3, <1>4, <1>5, <1>6, <1>7, <1>8 DEF LifeCycle

LEMMA LifeInv == ASSUME SegmentsApart, ClockInv, NEW p \in Processes, LifeCycle(p) PROVE ClockInv'
<1> USE DEF ClockInv
<1>1. ClockTypes'
  BY LifeTypes
<1>2. UNCHANGED <<SvcState, updating, reading>>
  BY DEF LifeCycle, Elect, CreateShm, StoreMetadata, NotElected, Attach, Synced, TimeOut,
     Leave, JoinWorker, Unlock, CleanupShm
<1>3. \A q \in Processes \ {p} : at'[q] = at[q] /\ g_pSvcState'[q] = g_pSvcState[q]
                                  /\ m_shmName'[q] = m_shmName[q]
  BY DEF LifeCycle, Elect, CreateShm, StoreMetadata, NotElected, Attach, Synced, TimeOut,
     Leave, JoinWorker, Unlock, CleanupShm, Goto, ClockTypes, lockVars
<1>4. /\ updating[p].at # "sleeping" => at[p] = "delegate" /\ at'[p] = "delegate"
      /\ reading[p].at # "out" => Running(p) /\ at'[p] \in {"attached", "delegate"}
  BY DEF LifeCycle, Elect, CreateShm, StoreMetadata, NotElected, Attach, Synced, TimeOut,
     Leave, JoinWorker, Unlock, CleanupShm, Goto, ClockTypes, lockVars, PlacesInv, Running
<1>5. /\ at'[p] # "new"
      /\ at[p] \notin {"creating", "querying", "cleaning"} => g_pSvcState'[p] = g_pSvcState[p]
      /\ at[p] # "new" => m_shmName'[p] = m_shmName[p]
  BY DEF LifeCycle, Elect, CreateShm, StoreMetadata, NotElected, Attach, Synced, TimeOut,
     Leave, JoinWorker, Unlock, CleanupShm, Goto, ClockTypes, lockVars
<1>6. NamesInv'
  <2>1. CASE Elect(p)
    <3>1. /\ m_shmName'[p] = delegates + 1 /\ delegates \in Nat /\ at[p] = "new"
          /\ g_pSvcState'[p] = g_pSvcState[p]
          /\ \A q \in Processes : m_shmName[q] \in 0 .. delegates
      BY <2>1 DEF Elect, ClockTypes, SegmentsApart
    <3> QED
      BY <1>3, <1>5, <3>1 DEF NamesInv, Delegated
  <2>2. CASE ~Elect(p)
    <3>1. m_shmName' = m_shmName
      BY <2>2 DEF LifeCycle, Elect, CreateShm, StoreMetadata, NotElected, Attach, Synced, TimeOut,
     Leave, JoinWorker, Unlock, CleanupShm, lockVars
    <3>2. Delegated(p)' => m_shmName[p] # 0 /\ g_pSvcState'[p] \in {p, m_shmName[p]}
      BY <2>2 DEF LifeCycle, Elect, CreateShm, StoreMetadata, NotElected, Attach, Synced, TimeOut,
     Leave, JoinWorker, Unlock, CleanupShm, lockVars, Goto, ClockTypes, NamesInv, Delegated
    <3> QED
      BY <1>3, <1>5, <3>1, <3>2 DEF NamesInv, Delegated
  <2> QED
    BY <2>1, <2>2
<1>7. PlacesInv'
  BY <1>2, <1>3, <1>4 DEF PlacesInv, Running
<1>8. \A q \in Processes : updating[q].at # "sleeping" \/ reading[q].at # "out" =>
         g_pSvcState'[q] = g_pSvcState[q]
  BY <1>3, <1>4, <1>5 DEF Running
<1>9. StatesInv'
  BY <1>2, <1>8 DEF StatesInv, Updated, Whole, Partial, Holds
<1>10. ReadersInv'
  BY <1>2, <1>8 DEF ReadersInv, Mine, Current
<1> QED
  BY <1>1, <1>6, <1>7, <1>9, <1>10

-----------------------------------------------------------------------------
(* Steps of svc_update_ns() *)

\* A write of the only worker of a state: the fields change only while the sequence
\* is odd, and the sequence grows.
LEMMA WriteInv ==
    ASSUME SegmentsApart, ClockInv, NEW p \in Processes, at[p] = "delegate",
           UNCHANGED <<rank, lockVars, g_pSvcState, at, timedOut, m_shmName, reading>>,
           NEW state \in State, SvcState' = [SvcState EXCEPT ![g_pSvcState[p]] = state],
           NEW u \in [at : {"sleeping", "time", "offset", "drift", "end"}, sequence : Nat],
           updating' = [updating EXCEPT ![p] = u],
           Mine(p).sequence <= state.sequence,
           Mine(p).sequence = state.sequence => state.sequence % 2 # 0,
           u.at # "sleeping" => Partial(p)', u.at = "sleeping" => Whole(g_pSvcState[p])'
    PROVE  ClockInv'
<1> USE DEF ClockInv
<1> DEFINE s == g_pSvcState[p]
<1>1. s \in States
  BY DEF ClockTypes
<1>2. ClockTypes'
  BY <1>1 DEF ClockTypes, lockVars
<1>3. /\ SvcState'[s] = state /\ \A v \in States \ {s} : SvcState'[v] = SvcState[v]
      /\ updating'[p] = u /\ \A q \in Processes \ {p} : updating'[q] = updating[q]
  BY <1>1 DEF ClockTypes
<1>4. NamesInv' /\ PlacesInv'
  BY <1>3 DEF NamesInv, PlacesInv, Delegated, Running
<1>5. \A q \in Processes \ {p} : updating[q].at # "sleeping" => g_pSvcState[q] # s
  BY OneWriter DEF PlacesInv, Delegated
<1>6. StatesInv'
  <2>1. ASSUME NEW q \in Processes \ {p}, updating[q].at # "sleeping" PROVE Partial(q)'
    <3>1. g_pSvcState[q] \in States \ {s}
      BY <1>5, <2>1 DEF ClockTypes
    <3> QED
      BY <1>3, <2>1, <3>1 DEF StatesInv, Partial, Holds
  <2>2. ASSUME NEW v \in States PROVE Updated(v)' \/ Whole(v)'
    <3>1. CASE v = s
      BY <1>3, <3>1 DEF Updated
    <3>2. CASE v # s
      <4>1. CASE Whole(v)
        BY <1>3, <3>2, <4>1 DEF Whole, Holds
      <4>2. CASE Updated(v)
        BY <1>3, <3>2, <4>2 DEF Updated
      <4> QED
        BY <4>1, <4>2 DEF StatesInv
    <3> QED
      BY <3>1, <3>2
  <2> QED
    BY <1>3, <2>1, <2>2 DEF StatesInv
<1>7. ReadersInv'
  <2>1. ASSUME NEW q \in Processes
        PROVE  /\ Mine(q).sequence \in Nat /\ Mine(q)'.sequence \in Nat /\ reading[q].seq \in Nat
               /\ reading[q].seen \in Nat /\ Mine(q).sequence <= Mine(q)'.sequence
               /\ reading[q].seq <= Mine(q).sequence /\ Current(q)' => Current(q)
    <3>1. g_pSvcState[q] \in States /\ g_pSvcState'[q] = g_pSvcState[q] /\ reading' = reading
      BY DEF ClockTypes
    <3>2. Mine(q) \in State /\ Mine(q)' \in State /\ reading[q].seq \in Nat /\ reading[q].seen \in Nat
      BY <1>2, <3>1 DEF ClockTypes, Mine
    <3>3. Mine(q).sequence \in Nat /\ Mine(q)'.sequence \in Nat
      BY <3>2 DEF State
    <3>4. CASE g_pSvcState[q] = s
      BY <1>3, <3>1, <3>2, <3>3, <3>4 DEF Mine, Current
    <3>5. CASE g_pSvcState[q] # s
      BY <1>3, <3>1, <3>2, <3>3, <3>5 DEF Mine, Current
    <3> QED
      BY <3>4, <3>5
  <2> QED
    BY <2>1 DEF ReadersInv
<1> QED
  BY <1>2, <1>4, <1>6, <1>7

LEMMA WorkerInv == ASSUME SegmentsApart, ClockInv, NEW p \in Processes, Worker(p) PROVE ClockInv'
<1> USE DEF ClockInv
<1> DEFINE s == g_pSvcState[p]
           m == updating[p].sequence
           n == m \div 2
<1>1. /\ s \in States /\ SvcState[s] \in State /\ Mine(p) = SvcState[s]
      /\ m \in Nat /\ n \in Nat
      /\ updating[p] \in [at : {"sleeping", "time", "offset", "drift", "end"}, sequence : Nat]
  <2>1. s \in States /\ updating[p] \in [at : {"sleeping", "time", "offset", "drift", "end"}, sequence : Nat]
    BY DEF ClockTypes
  <2>2. SvcState[s] \in State /\ Mine(p) = SvcState[s] /\ m \in Nat
    BY <2>1 DEF ClockTypes, Mine
  <2> QED
    BY <2>1, <2>2
<1>2. at[p] = "delegate" /\ UNCHANGED <<rank, lockVars, g_pSvcState, at, timedOut, m_shmName, reading>>
  BY DEF Worker, UpdateBegin, UpdateTime, UpdateOffset, UpdateDrift, UpdateEnd, UpdateStep, PlacesInv
<1>3. CASE UpdateBegin(p)
  <2> DEFINE state == [SvcState[s] EXCEPT !.sequence = @ + 1]
             u == [at |-> "time", sequence |-> SvcState[s].sequence]
  <2>1. SvcState' = [SvcState EXCEPT ![s] = state] /\ updating' = [updating EXCEPT ![p] = u]
    BY <1>1, <1>3 DEF UpdateBegin, Set, Mine
  <2>2. /\ state \in State /\ state.sequence = SvcState[s].sequence + 1
        /\ state.referenceTime = SvcState[s].referenceTime /\ state.offset = SvcState[s].offset
        /\ state.drift = SvcState[s].drift /\ SvcState[s].sequence \in Nat
    BY <1>1 DEF State
  <2>3. Whole(s)
    <3>1. ~Updated(s)
      BY <1>2, <1>3, OneWriter DEF Updated, UpdateBegin, PlacesInv, Delegated
    <3> QED
      BY <1>1, <3>1 DEF StatesInv
  <2>4. SvcState'[s] = state /\ updating'[p] = u
    BY <1>1, <2>1 DEF ClockTypes
  <2>5. Partial(p)'
    BY <1>2, <2>2, <2>3, <2>4 DEF Partial, Whole, Holds
  <2>6. u \in [at : {"sleeping", "time", "offset", "drift", "end"}, sequence : Nat] /\ u.at = "time"
    BY <2>2
  <2> HIDE DEF state, u
  <2>7. Mine(p).sequence <= state.sequence /\ Mine(p).sequence # state.sequence
    BY <1>1, <2>2
  <2> QED
    BY <1>2, <2>1, <2>2, <2>5, <2>6, <2>7, WriteInv
<1>4. ASSUME NEW to \in {"offset", "drift", "end"}, NEW state \in State,
             updating[p].at # "sleeping",
             SvcState' = [SvcState EXCEPT ![s] = state],
             updating' = [updating EXCEPT ![p].at = to], state.sequence = SvcState[s].sequence,
             LET r == state.referenceTime
                 o == state.offset
                 d == state.drift
             IN  /\ to = "offset" => r = n + 1 /\ o = n /\ d = n
                 /\ to = "drift" => r = n + 1 /\ o = n + 1 /\ d = n
                 /\ to = "end" => r = n + 1 /\ o = n + 1 /\ d = n + 1
      PROVE  ClockInv'
  <2> DEFINE u == [updating[p] EXCEPT !.at = to]
  <2>1. /\ updating' = [updating EXCEPT ![p] = u] /\ u.at = to /\ u.sequence = m
        /\ u \in [at : {"sleeping", "time", "offset", "drift", "end"}, sequence : Nat]
    BY <1>1, <1>4
  <2>2. SvcState'[s] = state /\ updating'[p] = u
    BY <1>1, <1>4, <2>1 DEF ClockTypes
  <2> HIDE DEF u
  <2>3. Partial(p)
    BY <1>4 DEF StatesInv
  <2>4. Partial(p)'
    BY <1>2, <1>4, <2>1, <2>2, <2>3 DEF Partial, Holds
  <2>5. Mine(p).sequence = state.sequence /\ state.sequence % 2 # 0 /\ state.sequence \in Nat
    <3>1. state.sequence = m + 1 /\ m % 2 = 0
      BY <1>4, <2>3 DEF Partial
    <3> QED
      BY <1>1, <1>4, <3>1, Halves
  <2>6. Mine(p).sequence <= state.sequence
    BY <2>5
  <2> QED
    BY <1>2, <1>4, <2>1, <2>4, <2>5, <2>6, WriteInv
<1>5. ASSUME updating[p].at \in {"time", "offset", "drift"},
             UpdateTime(p) \/ UpdateOffset(p) \/ UpdateDrift(p)
      PROVE  ClockInv'
  <2>1. /\ updating[p].at = "time"   => Holds(s, n, n, n)
        /\ updating[p].at = "offset" => Holds(s, n + 1, n, n)
        /\ updating[p].at = "drift"  => Holds(s, n + 1, n + 1, n)
    BY <1>5 DEF StatesInv, Partial
  <2>2. CASE UpdateTime(p)
    <3> DEFINE state == [SvcState[s] EXCEPT !.referenceTime = n + 1]
    <3>1. /\ SvcState' = [SvcState EXCEPT ![s] = state] /\ updating[p].at = "time"
          /\ updating' = [updating EXCEPT ![p].at = "offset"]
      BY <1>1, <2>2 DEF UpdateTime, UpdateStep, Set, Update, Mine
    <3>2. /\ state \in State /\ state.sequence = SvcState[s].sequence /\ state.referenceTime = n + 1
          /\ state.offset = SvcState[s].offset /\ state.drift = SvcState[s].drift
      BY <1>1 DEF State
    <3> HIDE DEF state
    <3> QED
      BY <1>4, <2>1, <3>1, <3>2 DEF Holds
  <2>3. CASE UpdateOffset(p)
    <3> DEFINE state == [SvcState[s] EXCEPT !.offset = n + 1]
    <3>1. /\ SvcState' = [SvcState EXCEPT ![s] = state] /\ updating[p].at = "offset"
          /\ updating' = [updating EXCEPT ![p].at = "drift"]
      BY <1>1, <2>3 DEF UpdateOffset, UpdateStep, Set, Update, Mine
    <3>2. /\ state \in State /\ state.sequence = SvcState[s].sequence /\ state.offset = n + 1
          /\ state.referenceTime = SvcState[s].referenceTime /\ state.drift = SvcState[s].drift
      BY <1>1 DEF State
    <3> HIDE DEF state
    <3> QED
      BY <1>4, <2>1, <3>1, <3>2 DEF Holds
  <2>4. CASE UpdateDrift(p)
    <3> DEFINE state == [SvcState[s] EXCEPT !.drift = n + 1]
    <3>1. /\ SvcState' = [SvcState EXCEPT ![s] = state] /\ updating[p].at = "drift"
          /\ updating' = [updating EXCEPT ![p].at = "end"]
      BY <1>1, <2>4 DEF UpdateDrift, UpdateStep, Set, Update, Mine
    <3>2. /\ state \in State /\ state.sequence = SvcState[s].sequence /\ state.drift = n + 1
          /\ state.referenceTime = SvcState[s].referenceTime /\ state.offset = SvcState[s].offset
      BY <1>1 DEF State
    <3> HIDE DEF state
    <3> QED
      BY <1>4, <2>1, <3>1, <3>2 DEF Holds
  <2> QED
    BY <1>5, <2>2, <2>3, <2>4
<1>6. CASE UpdateEnd(p)
  <2> DEFINE state == [SvcState[s] EXCEPT !.sequence = m + 2]
             u == [updating[p] EXCEPT !.at = "sleeping"]
  <2>1. /\ SvcState' = [SvcState EXCEPT ![s] = state] /\ updating[p].at = "end"
        /\ updating' = [updating EXCEPT ![p] = u]
    BY <1>1, <1>6 DEF UpdateEnd, UpdateStep, Set, Mine
  <2>2. /\ state \in State /\ state.sequence = m + 2
        /\ state.referenceTime = SvcState[s].referenceTime /\ state.offset = SvcState[s].offset
        /\ state.drift = SvcState[s].drift
        /\ u \in [at : {"sleeping", "time", "offset", "drift", "end"}, sequence : Nat]
        /\ u.at = "sleeping"
    BY <1>1 DEF State
  <2>3. SvcState'[s] = state
    BY <1>1, <2>1 DEF ClockTypes
  <2> HIDE DEF state, u
  <2>4. m % 2 = 0 /\ SvcState[s].sequence = m + 1 /\ Holds(s, n + 1, n + 1, n + 1)
    BY <2>1 DEF StatesInv, Partial
  <2>5. (m + 2) % 2 = 0 /\ (m + 2) \div 2 = n + 1
    BY <1>1, <2>4, Halves
  <2>6. Whole(s)'
    BY <1>2, <2>2, <2>3, <2>4, <2>5 DEF Whole, Holds
  <2>7. Mine(p).sequence <= state.sequence /\ Mine(p).sequence # state.sequence
    BY <1>1, <2>2, <2>4
  <2>8. Whole(g_pSvcState[p])'
    BY <1>2, <2>6
  <2> QED
    BY <1>2, <2>1, <2>2, <2>7, <2>8, WriteInv
<1> QED
  BY <1>3, <1>5, <1>6 DEF Worker, UpdateTime, UpdateOffset, UpdateDrift, UpdateStep

-----------------------------------------------------------------------------
(* Steps of svc_read_offset_ns() *)

\* While the sequence is even and has not changed, the fields are of one update.
LEMMA WholeNow ==
    ASSUME SegmentsApart, ClockInv, NEW p \in Processes, Current(p)
    PROVE  LET n == reading[p].seq \div 2
           IN  Mine(p).offset = n /\ Mine(p).drift = n /\ Mine(p).referenceTime = n
<1> DEFINE s == g_pSvcState[p]
<1>1. s \in States /\ reading[p].seq \in Nat
  BY DEF ClockInv, ClockTypes
<1>2. CASE Whole(s)
  BY <1>2 DEF Whole, Holds, Current, Mine
<1>3. CASE Updated(s)
  <2>1. PICK q \in Processes : updating[q].at # "sleeping" /\ g_pSvcState[q] = s
    BY <1>3 DEF Updated
  <2>2. /\ updating[q].sequence % 2 = 0 /\ SvcState[s].sequence = updating[q].sequence + 1
        /\ updating[q].sequence \in Nat
    BY <2>1 DEF ClockInv, ClockTypes, StatesInv, Partial
  <2> QED
    BY <2>2, Halves DEF Current, Mine
<1> QED
  BY <1>1, <1>2, <1>3 DEF ClockInv, StatesInv

LEMMA ReaderInv == ASSUME SegmentsApart, ClockInv, NEW p \in Processes, Reader(p) PROVE ClockInv'
<1> USE DEF ClockInv
<1> DEFINE Reading == [at : {"out", "sequence", "offset", "drift", "time", "check", "done"},
                       seq : Nat, offset : Nat, drift : Nat, ref : Nat, seen : Nat]
           r == reading[p]
<1>1. /\ r \in Reading /\ Mine(p) \in State
      /\ UNCHANGED <<rank, lockVars, SvcState, g_pSvcState, at, timedOut, m_shmName, updating>>
  BY DEF ClockTypes, Mine, Reader, ReadBegin, ReadSequence, ReadOffset, ReadDrift, ReadTime, ReadCheck,
     ReadDone, ReadTo
<1>2. /\ Mine(p).sequence \in Nat /\ Mine(p).offset \in Nat /\ Mine(p).drift \in Nat
      /\ Mine(p).referenceTime \in Nat
  BY <1>1 DEF State
<1>3. ASSUME NEW value \in Reading, ReadTo(p, value),
             value.at # "out" => Running(p),
             LET n == value.seq \div 2
                 current == Mine(p).sequence = value.seq /\ value.seq % 2 = 0
             IN  /\ value.at = "sequence" => value.seen <= Mine(p).sequence
                 /\ value.at \in {"offset", "drift", "time", "check", "done"} => value.seen <= value.seq
                 /\ value.at \in {"offset", "drift", "time", "check"} => value.seq <= Mine(p).sequence
                 /\ value.at \in {"drift", "time", "check"} /\ current => value.offset = n
                 /\ value.at \in {"time", "check"} /\ current => value.drift = n
                 /\ value.at = "check" /\ current => value.ref = n
                 /\ value.at = "done" => value.offset = n /\ value.drift = n /\ value.ref = n
      PROVE  ClockInv'
  <2>1. reading' = [reading EXCEPT ![p] = value]
    BY <1>3 DEF ReadTo
  <2>2. reading'[p] = value /\ \A q \in Processes \ {p} : reading'[q] = reading[q]
    BY <2>1 DEF ClockTypes
  <2>3. ClockTypes'
    BY <1>1, <2>1 DEF ClockTypes, lockVars
  <2>4. NamesInv' /\ StatesInv'
    BY <1>1 DEF NamesInv, Delegated, StatesInv, Whole, Partial, Updated, Holds
  <2>5. PlacesInv'
    BY <1>1, <1>3, <2>2 DEF PlacesInv, Running
  <2>6. ReadersInv'
    BY <1>1, <1>3, <2>2 DEF ReadersInv, Mine, Current
  <2> QED
    BY <2>3, <2>4, <2>5, <2>6
<1>4. r.at # "out" => Running(p)
  BY DEF PlacesInv
<1>5. CASE ReadBegin(p)
  <2> DEFINE value == [NotReading EXCEPT !.at = "sequence", !.seen = Mine(p).sequence]
  <2>1. value \in Reading /\ value.at = "sequence" /\ value.seen = Mine(p).sequence
    BY <1>2 DEF NotReading
  <2>2. ReadTo(p, value) /\ Running(p)
    BY <1>5 DEF ReadBegin
  <2> HIDE DEF value
  <2> QED
    BY <1>2, <1>3, <2>1, <2>2
<1>6. CASE ReadSequence(p)
  <2> DEFINE value == [r EXCEPT !.at = "offset", !.seq = Mine(p).sequence]
  <2>1. value \in Reading /\ value.at = "offset" /\ value.seq = Mine(p).sequence /\ value.seen = r.seen
    BY <1>1, <1>2
  <2>2. ReadTo(p, value) /\ r.at = "sequence"
    BY <1>6 DEF ReadSequence
  <2>3. r.seen <= Mine(p).sequence
    BY <2>2 DEF ReadersInv
  <2> HIDE DEF value
  <2> QED
    BY <1>2, <1>3, <1>4, <2>1, <2>2, <2>3
<1>7. CASE ReadOffset(p)
  <2> DEFINE value == [r EXCEPT !.at = "drift", !.offset = Mine(p).offset]
  <2>1. /\ value \in Reading /\ value.at = "drift" /\ value.offset = Mine(p).offset
        /\ value.seq = r.seq /\ value.seen = r.seen
    BY <1>1, <1>2
  <2>2. ReadTo(p, value) /\ r.at = "offset"
    BY <1>7 DEF ReadOffset
  <2>3. r.seen <= r.seq /\ r.seq <= Mine(p).sequence
    BY <2>2 DEF ReadersInv
  <2>4. Mine(p).sequence = r.seq /\ r.seq % 2 = 0 => Mine(p).offset = r.seq \div 2
    BY WholeNow DEF Current
  <2> HIDE DEF value
  <2> QED
    BY <1>3, <1>4, <2>1, <2>2, <2>3, <2>4
<1>8. CASE ReadDrift(p)
  <2> DEFINE value == [r EXCEPT !.at = "time", !.drift = Mine(p).drift]
  <2>1. /\ value \in Reading /\ value.at = "time" /\ value.drift = Mine(p).drift
        /\ value.seq = r.seq /\ value.seen = r.seen /\ value.offset = r.offset
    BY <1>1, <1>2
  <2>2. ReadTo(p, value) /\ r.at = "drift"
    BY <1>8 DEF ReadDrift
  <2>3. /\ r.seen <= r.seq /\ r.seq <= Mine(p).sequence
        /\ Current(p) => r.offset = r.seq \div 2
    BY <2>2 DEF ReadersInv
  <2>4. Current(p) => Mine(p).drift = r.seq \div 2
    BY WholeNow
  <2> HIDE DEF value
  <2> QED
    BY <1>3, <1>4, <2>1, <2>2, <2>3, <2>4 DEF Current
<1>9. CASE ReadTime(p)
  <2> DEFINE value == [r EXCEPT !.at = "check", !.ref = Mine(p).referenceTime]
  <2>1. /\ value \in Reading /\ value.at = "check" /\ value.ref = Mine(p).referenceTime
        /\ value.seq = r.seq /\ value.seen = r.seen /\ value.offset = r.offset /\ value.drift = r.drift
    BY <1>1, <1>2
  <2>2. ReadTo(p, value) /\ r.at = "time"
    BY <1>9 DEF ReadTime
  <2>3. /\ r.seen <= r.seq /\ r.seq <= Mine(p).sequence
        /\ Current(p) => r.offset = r.seq \div 2 /\ r.drift = r.seq \div 2
    BY <2>2 DEF ReadersInv
  <2>4. Current(p) => Mine(p).referenceTime = r.seq \div 2
    BY WholeNow
  <2> HIDE DEF value
  <2> QED
    BY <1>3, <1>4, <2>1, <2>2, <2>3, <2>4 DEF Current
<1>10. CASE ReadCheck(p)
  <2> DEFINE value == [r EXCEPT !.at = IF Again(p) THEN "sequence" ELSE "done"]
  <2>1. /\ value \in Reading /\ value.at = IF Again(p) THEN "sequence" ELSE "done"
        /\ value.seq = r.seq /\ value.seen = r.seen /\ value.offset = r.offset
        /\ value.drift = r.drift /\ value.ref = r.ref
    BY <1>1
  <2>2. ReadTo(p, value) /\ r.at = "check"
    BY <1>10 DEF ReadCheck
  <2>3. /\ r.seen <= r.seq /\ r.seq <= Mine(p).sequence
        /\ Current(p) => r.offset = r.seq \div 2 /\ r.drift = r.seq \div 2 /\ r.ref = r.seq \div 2
    BY <2>2 DEF ReadersInv
  <2>4. r.seen \in Nat /\ r.seq \in Nat
    BY <1>1
  <2>5. ~Again(p) => Current(p)
    BY <1>2, <2>4 DEF Again, Current
  <2>6. r.seen <= Mine(p).sequence
    BY <1>2, <2>3, <2>4
  <2> HIDE DEF value
  <2> QED
    BY <1>3, <1>4, <2>1, <2>2, <2>3, <2>5, <2>6
<1>11. CASE ReadDone(p)
  <2>1. NotReading \in Reading /\ NotReading.at = "out"
    BY DEF NotReading
  <2>2. ReadTo(p, NotReading)
    BY <1>11 DEF ReadDone
  <2> QED
    BY <1>3, <2>1, <2>2
<1> QED
  BY <1>5, <1>6, <1>7, <1>8, <1>9, <1>10, <1>11 DEF Reader

LEMMA InvStep == ASSUME SegmentsApart, ClockInv, [Next]_clockVars PROVE ClockInv'
<1>1. CASE UNCHANGED clockVars
  BY <1>1 DEF clockVars, ClockInv, ClockTypes, NamesInv, PlacesInv, StatesInv, ReadersInv, Delegated, Running,
     Updated, Whole, Partial, Holds, Current, Mine
<1> QED
  BY <1>1, LifeInv, WorkerInv, ReaderInv DEF Next

\* A reader of the clock offset goes on with the fields of one update, no older than
\* the one that was there when it began, whatever the processes of the node do.
THEOREM ReadersSeeOneUpdate == SegmentsApart => (Spec => []ReadsOneUpdate)
<1> SUFFICES ASSUME SegmentsApart PROVE Spec => []ReadsOneUpdate
  OBVIOUS
<1>1. Init => ClockInv
  BY InitInv
<1>2. ClockInv /\ [Next]_clockVars => ClockInv'
  BY InvStep
<1>3. ClockInv => ReadsOneUpdate
  <2> SUFFICES ASSUME ClockInv, NEW p \in Processes, reading[p].at = "done"
               PROVE  /\ {reading[p].offset, reading[p].drift, reading[p].ref} = {reading[p].seq \div 2}
                      /\ reading[p].seq >= reading[p].seen
    BY DEF ReadsOneUpdate
  <2>1. reading[p].seq \in Nat /\ reading[p].seen \in Nat
    BY DEF ClockInv, ClockTypes
  <2> QED
    BY <2>1 DEF ClockInv, ReadersInv
<1> QED
  BY <1>1, <1>2, <1>3, PTL DEF Spec

-----------------------------------------------------------------------------
(* The messages of a table (NetWriterBackend)                                *)

MessageParts == [from : Net!Senders \cup {"handshake"}, id : Nat, part : Nat, of : Nat]

NetTypes ==
    /\ m_connected \in BOOLEAN /\ messages \in Nat
    /\ streams \in Seq(Seq(MessageParts))
    /\ m_fd \in 0 .. Len(streams)
    /\ sending \in [Net!Senders -> [id : Nat, sent : Nat]]
    /\ m_connected <=> m_fd # 0

\* One sender at a time, and never behind its last part.
OneSender ==
    /\ \A s \in Net!Senders : ~Net!Idle(s) => m_connected /\ sending[s].sent < Net!PartsOf(s)
    /\ \A s, r \in Net!Senders : ~Net!Idle(s) /\ ~Net!Idle(r) => s = r

\* A stream begins with the handshake, and each part follows its predecessor.
PartFollows(this, last) ==
    IF last.part = last.of THEN this.part = 1 /\ this # Net!Handshake
                           ELSE this = [last EXCEPT !.part = @ + 1]
WholeFrames(stream) ==
    /\ stream # <<>> /\ stream[1] = Net!Handshake
    /\ \A i \in 2 .. Len(stream) : PartFollows(stream[i], stream[i - 1])

\* The connection in use ends where the sender under way has got to.
LastPart == streams[m_fd][Len(streams[m_fd])]
AtBoundary ==
    m_connected =>
        IF \E s \in Net!Senders : sending[s].sent > 0
        THEN \E s \in Net!Senders :
                /\ sending[s].sent > 0
                /\ LastPart = [from |-> s, id |-> sending[s].id, part |-> sending[s].sent, of |-> Net!PartsOf(s)]
        ELSE LastPart.part = LastPart.of

NetInv ==
    /\ NetTypes /\ OneSender
    /\ \A c \in DOMAIN streams : WholeFrames(streams[c])
    /\ AtBoundary

-----------------------------------------------------------------------------

LEMMA FramesFromParts == NetInv => Net!FramesIntact
<1> SUFFICES ASSUME NetInv, NEW c \in DOMAIN streams, NEW i \in DOMAIN streams[c], i # 1
             PROVE  PartFollows(streams[c][i], streams[c][i - 1])
  BY DEF Net!FramesIntact, NetInv, WholeFrames, PartFollows
<1>1. streams[c] \in Seq(MessageParts)
  BY DEF NetInv, NetTypes
<1>2. i \in 2 .. Len(streams[c])
  BY <1>1
<1> QED
  BY <1>2 DEF NetInv, WholeFrames

\* Appending a part that follows the last one keeps a stream whole.
LEMMA AppendKeepsWhole ==
    ASSUME NEW stream \in Seq(MessageParts), NEW part \in MessageParts,
           WholeFrames(stream), PartFollows(part, stream[Len(stream)])
    PROVE  WholeFrames(Append(stream, part))
<1> DEFINE longer == Append(stream, part)
<1>1. Len(stream) > 0
  BY DEF WholeFrames
<1>2. longer # <<>> /\ longer[1] = Net!Handshake
  BY <1>1 DEF WholeFrames
<1>3. ASSUME NEW i \in 2 .. Len(longer) PROVE PartFollows(longer[i], longer[i - 1])
  <2>1. CASE i = Len(stream) + 1
    BY <1>1, <2>1
  <2>2. CASE i \in 2 .. Len(stream)
    <3>1. longer[i] = stream[i] /\ longer[i - 1] = stream[i - 1]
      BY <2>2
    <3> QED
      BY <2>2, <3>1 DEF WholeFrames
  <2> QED
    BY <2>1, <2>2
<1> QED
  BY <1>2, <1>3 DEF WholeFrames

LEMMA NetInit == Net!Init => NetInv
<1> SUFFICES ASSUME Net!Init PROVE NetInv
  OBVIOUS
<1>1. NetTypes
  <2>1. streams \in Seq(Seq(MessageParts)) /\ m_fd \in 0 .. Len(streams) /\ messages \in Nat
    BY DEF Net!Init
  <2>2. sending \in [Net!Senders -> [id : Nat, sent : Nat]]
    BY DEF Net!Init, Net!NoMessage
  <2>3. m_connected \in BOOLEAN /\ (m_connected <=> m_fd # 0)
    BY DEF Net!Init
  <2> QED
    BY <2>1, <2>2, <2>3 DEF NetTypes
<1> QED
  BY <1>1 DEF Net!Init, NetInv, OneSender, AtBoundary, Net!Idle, Net!NoMessage, Net!Senders

\* With no Overlap, a message begins when no other is under way.
LEMMA NetBegin ==
    ASSUME NetInv, ~Overlap, NEW s \in Net!Senders, Net!Begin(s)
    PROVE  /\ messages' \in Nat /\ sending' \in [Net!Senders -> [id : Nat, sent : Nat]]
           /\ \A r \in Net!Senders : sending[r].sent = 0 /\ sending'[r].sent = 0
           /\ \A r \in Net!Senders : sending'[r] # Net!NoMessage => r = s
<1>1. \A r \in Net!Senders : Net!Idle(r)
  BY DEF Net!Begin
<1>2. sending' = [sending EXCEPT ![s] = [id |-> messages + 1, sent |-> 0]]
  BY DEF Net!Begin
<1>3. messages \in Nat /\ sending \in [Net!Senders -> [id : Nat, sent : Nat]]
  BY DEF NetInv, NetTypes
<1> QED
  BY <1>1, <1>2, <1>3 DEF Net!Begin, Net!Idle, Net!NoMessage

LEMMA NetWriteBatch == ASSUME NetInv, ~Overlap, Net!writeBatch PROVE NetInv'
<1> USE DEF NetInv
<1>0. "worker" \in Net!Senders /\ Net!Begin("worker")
  BY DEF Net!writeBatch, Net!Senders
<1>1. /\ messages' \in Nat /\ sending' \in [Net!Senders -> [id : Nat, sent : Nat]]
      /\ \A r \in Net!Senders : sending[r].sent = 0 /\ sending'[r].sent = 0
      /\ \A r \in Net!Senders : sending'[r] # Net!NoMessage => r = "worker"
  BY <1>0, NetBegin
<1>2. \A s \in Net!Senders : sending'[s].sent < Net!PartsOf(s)
  BY <1>1 DEF Net!PartsOf
<1>3. CASE m_connected /\ UNCHANGED <<m_connected, m_fd, broken, streams>>
  <2>1. NetTypes' /\ OneSender'
    BY <1>1, <1>2, <1>3 DEF NetTypes, OneSender, Net!Idle
  <2>2. AtBoundary'
    BY <1>1, <1>3 DEF AtBoundary, LastPart
  <2> QED
    BY <1>3, <2>1, <2>2
<1>4. CASE /\ streams' = Append(streams, Net!Greeting)
           /\ m_fd' = Len(streams) + 1 /\ m_connected' = TRUE
  <2>1. Net!Handshake \in MessageParts /\ Net!Greeting \in Seq(MessageParts) /\ Len(Net!Greeting) = 1 /\ Net!Greeting[1] = Net!Handshake
    BY DEF Net!Handshake, MessageParts, Net!Greeting
  <2>2. streams \in Seq(Seq(MessageParts))
    BY DEF NetTypes
  <2>3. NetTypes' /\ OneSender'
    BY <1>1, <1>2, <1>4, <2>1, <2>2 DEF NetTypes, OneSender, Net!Idle
  <2>4. WholeFrames(Net!Greeting)
    <3>1. Net!Greeting # <<>> /\ 2 .. Len(Net!Greeting) = {}
      <4>1. 2 .. 1 = {}
        OBVIOUS
      <4>2. Net!Greeting # <<>>
        BY DEF Net!Greeting
      <4> QED
        BY <2>1, <4>1, <4>2
    <3> QED
      BY <2>1, <3>1 DEF WholeFrames
  <2>5. \A c \in DOMAIN streams' : WholeFrames(streams'[c])
    BY <1>4, <2>1, <2>2, <2>4
  <2>6. AtBoundary'
    <3>1. streams'[m_fd'] = Net!Greeting
      BY <1>4, <2>1, <2>2
    <3>2. LastPart' = Net!Handshake
      BY <2>1, <3>1 DEF LastPart
    <3> QED
      BY <1>1, <3>2 DEF AtBoundary, Net!Handshake
  <2> QED
    BY <2>3, <2>5, <2>6
<1> QED
  BY <1>3, <1>4 DEF Net!writeBatch

LEMMA NetFlush == ASSUME NetInv, ~Overlap, Net!flush PROVE NetInv'
<1> USE DEF NetInv
<1>0. "flusher" \in Net!Senders /\ Net!Begin("flusher")
  BY DEF Net!flush, Net!Senders
<1>1. /\ messages' \in Nat /\ sending' \in [Net!Senders -> [id : Nat, sent : Nat]]
      /\ \A r \in Net!Senders : sending[r].sent = 0 /\ sending'[r].sent = 0
      /\ \A r \in Net!Senders : sending'[r] # Net!NoMessage => r = "flusher"
  BY <1>0, NetBegin
<1>2. \A s \in Net!Senders : sending'[s].sent < Net!PartsOf(s)
  BY <1>1 DEF Net!PartsOf
<1>3. NetTypes' /\ OneSender'
  BY <1>1, <1>2 DEF NetTypes, OneSender, Net!Idle, Net!flush
<1>4. AtBoundary'
  BY <1>1 DEF AtBoundary, LastPart, Net!flush
<1> QED
  BY <1>3, <1>4 DEF Net!flush

\* Each sender's part is what follows on the connection.
LEMMA NetSendPart == ASSUME NetInv, NEW s \in Net!Senders, Net!SendPart(s) PROVE NetInv'
<1> USE DEF NetInv
<1> DEFINE stream == streams[m_fd]
<1>1. /\ m_fd \in 1 .. Len(streams) /\ m_connected /\ ~Net!Idle(s)
      /\ streams \in Seq(Seq(MessageParts)) /\ stream \in Seq(MessageParts) /\ WholeFrames(stream)
  BY DEF Net!SendPart, Net!Sendable, NetTypes
<1>2. /\ sending \in [Net!Senders -> [id : Nat, sent : Nat]]
      /\ sending[s] \in [id : Nat, sent : Nat] /\ sending[s].sent < Net!PartsOf(s)
      /\ \A r \in Net!Senders \ {s} : sending[r] = Net!NoMessage
  BY <1>1 DEF NetTypes, OneSender, Net!Idle
<1>3. Net!PartOf(s) \in MessageParts /\ Net!PartsOf(s) \in Nat /\ Net!PartsOf(s) > 1
  BY <1>2 DEF Net!PartOf, MessageParts, Net!PartsOf
<1>4. PartFollows(Net!PartOf(s), stream[Len(stream)])
  <2>1. CASE sending[s].sent = 0
    <3>1. LastPart.part = LastPart.of
      <4>1. \A r \in Net!Senders : ~(sending[r].sent > 0)
        BY <1>2, <2>1 DEF Net!NoMessage
      <4> QED
        BY <1>1, <4>1 DEF AtBoundary
    <3>2. Net!PartOf(s).part = 1 /\ Net!PartOf(s).from # Net!Handshake.from
      BY <1>2, <2>1 DEF Net!PartOf, Net!Handshake, Net!Senders
    <3> QED
      BY <3>1, <3>2 DEF PartFollows, LastPart
  <2>2. CASE sending[s].sent > 0
    <3>1. LastPart = [from |-> s, id |-> sending[s].id, part |-> sending[s].sent, of |-> Net!PartsOf(s)]
      BY <1>1, <1>2, <2>2 DEF AtBoundary, Net!NoMessage
    <3> QED
      BY <1>2, <1>3, <2>2, <3>1 DEF PartFollows, LastPart, Net!PartOf
  <2> QED
    BY <1>2, <2>1, <2>2
<1>5. WholeFrames(Append(stream, Net!PartOf(s)))
  BY <1>1, <1>3, <1>4, AppendKeepsWhole
<1>6. streams' = [streams EXCEPT ![m_fd] = Append(stream, Net!PartOf(s))] /\ UNCHANGED <<m_connected, m_fd, messages>>
  BY DEF Net!SendPart
<1>7. /\ Append(stream, Net!PartOf(s)) \in Seq(MessageParts)
      /\ streams' \in Seq(Seq(MessageParts)) /\ Len(streams') = Len(streams)
      /\ streams'[m_fd] = Append(stream, Net!PartOf(s))
      /\ \A c \in DOMAIN streams' : c \in DOMAIN streams /\ (c # m_fd => streams'[c] = streams[c])
  BY <1>1, <1>3, <1>6
<1>8. \A c \in DOMAIN streams' : WholeFrames(streams'[c])
  BY <1>5, <1>7
<1>9. LastPart' = Net!PartOf(s)
  BY <1>1, <1>3, <1>6, <1>7 DEF LastPart
<1>10. CASE sending[s].sent + 1 = Net!PartsOf(s)
  <2>1. sending' = [sending EXCEPT ![s] = Net!NoMessage]
    BY <1>10 DEF Net!SendPart, Net!Advanced
  <2>2. \A r \in Net!Senders : sending'[r] = Net!NoMessage
    BY <1>2, <2>1
  <2>3. NetTypes' /\ OneSender'
    BY <1>2, <1>6, <1>7, <2>1, <2>2 DEF NetTypes, OneSender, Net!Idle, Net!NoMessage
  <2>4. AtBoundary'
    BY <1>9, <1>10, <2>2 DEF AtBoundary, Net!PartOf, Net!NoMessage
  <2> QED
    BY <1>8, <2>3, <2>4
<1>11. CASE sending[s].sent + 1 # Net!PartsOf(s)
  <2>1. sending' = [sending EXCEPT ![s] = Net!Advanced(s)] /\ Net!Advanced(s) = [sending[s] EXCEPT !.sent = @ + 1]
    BY <1>11 DEF Net!SendPart, Net!Advanced
  <2>2. /\ sending'[s] = [id |-> sending[s].id, sent |-> sending[s].sent + 1]
        /\ \A r \in Net!Senders \ {s} : sending'[r] = Net!NoMessage
        /\ sending' \in [Net!Senders -> [id : Nat, sent : Nat]]
    <3>1. [sending[s] EXCEPT !.sent = @ + 1] = [id |-> sending[s].id, sent |-> sending[s].sent + 1]
      BY <1>2
    <3>2. [id |-> sending[s].id, sent |-> sending[s].sent + 1] \in [id : Nat, sent : Nat]
      BY <1>2
    <3> QED
      BY <1>2, <2>1, <3>1, <3>2
  <2>3. NetTypes' /\ OneSender'
    BY <1>1, <1>2, <1>3, <1>6, <1>7, <1>11, <2>2 DEF NetTypes, OneSender, Net!Idle, Net!NoMessage
  <2>4. AtBoundary'
    BY <1>2, <1>9, <2>2 DEF AtBoundary, Net!PartOf
  <2> QED
    BY <1>8, <2>3, <2>4
<1> QED
  BY <1>10, <1>11

LEMMA NetSendFails == ASSUME NetInv, NEW s \in Net!Senders, Net!SendFails(s) PROVE NetInv'
<1> USE DEF NetInv
<1>1. /\ sending \in [Net!Senders -> [id : Nat, sent : Nat]]
      /\ sending' = [sending EXCEPT ![s] = Net!NoMessage] /\ ~Net!Idle(s)
      /\ \A r \in Net!Senders \ {s} : Net!Idle(r)
  BY DEF Net!SendFails, NetTypes, OneSender
<1>2. \A r \in Net!Senders : sending'[r] = Net!NoMessage
  BY <1>1 DEF Net!Idle
<1>3. NetTypes'
  <2>1. Net!NoMessage \in [id : Nat, sent : Nat]
    BY DEF Net!NoMessage
  <2>2. sending' \in [Net!Senders -> [id : Nat, sent : Nat]]
    BY <1>1, <2>1
  <2>3. /\ m_connected' = FALSE /\ m_fd' = 0 /\ streams' = streams /\ messages' = messages
        /\ streams \in Seq(Seq(MessageParts)) /\ messages \in Nat
    BY DEF Net!SendFails, NetTypes
  <2>4. 0 \in 0 .. Len(streams)
    BY <2>3
  <2>5. m_fd' \in 0 .. Len(streams') /\ (m_connected' <=> m_fd' # 0)
    BY <2>3, <2>4
  <2>6. m_connected' \in BOOLEAN /\ messages' \in Nat /\ streams' \in Seq(Seq(MessageParts))
    BY <2>3
  <2> QED
    BY <2>2, <2>5, <2>6 DEF NetTypes
<1>4. OneSender' /\ AtBoundary'
  BY <1>2 DEF Net!SendFails, OneSender, AtBoundary, Net!Idle
<1> QED
  BY <1>3, <1>4 DEF Net!SendFails

LEMMA NetStep == ASSUME ~Overlap, NetInv, [Net!Next]_Net!netVars PROVE NetInv'
<1>1. CASE Net!writeBatch
  BY <1>1, NetWriteBatch
<1>2. CASE Net!flush
  BY <1>2, NetFlush
<1>3. CASE Net!NotConnected \/ Net!Break \/ UNCHANGED Net!netVars
  <2>1. UNCHANGED <<m_connected, m_fd, streams, sending>> /\ (messages \in Nat => messages' \in Nat)
    BY <1>3 DEF Net!NotConnected, Net!Break, Net!netVars
  <2>2. NetTypes' /\ OneSender'
    BY <2>1 DEF NetInv, NetTypes, OneSender, Net!Idle
  <2>3. AtBoundary'
    BY <2>1 DEF NetInv, AtBoundary, LastPart
  <2> QED
    BY <2>1, <2>2, <2>3 DEF NetInv
<1>4. CASE \E s \in Net!Senders : Net!SendPart(s) \/ Net!SendFails(s)
  BY <1>4, NetSendPart, NetSendFails
<1> QED
  BY <1>1, <1>2, <1>3, <1>4 DEF Net!Next

\* If no flush is sent while a batch is being sent, each connection carries a
\* handshake and then one whole message after the other, wherever it breaks.
THEOREM FramesWhole == ~Overlap => (SourcesSpec => []FramesIntact)
<1> SUFFICES ASSUME ~Overlap PROVE SourcesSpec => []FramesIntact
  OBVIOUS
<1> DEFINE Inv == subject = "net" => NetInv
<1>1. SourcesInit => Inv
  BY NetInit DEF SourcesInit
<1>2. Inv /\ [SourcesNext]_vars => Inv'
  <2>1. [SourcesNext]_vars => subject' = subject /\ (subject = "net" => [Net!Next]_Net!netVars)
    BY DEF SourcesNext, Rocprof, Roctracer, Cupti, ClrNext, AmdSmi, Clock, Probes, Filter, Sender,
       CallStacks, vars, netVars, onlineVars, Net!netVars
  <2> QED
    BY <2>1, NetStep
<1>3. Inv => FramesIntact
  BY FramesFromParts DEF FramesIntact
<1> QED
  BY <1>1, <1>2, <1>3, PTL DEF SourcesSpec

-----------------------------------------------------------------------------
(* Numbers and rings                                                         *)

LEMMA LeastElement ==
    ASSUME NEW T \in SUBSET Nat, T # {}
    PROVE  \E n \in T : \A m \in T : n <= m
<1> DEFINE R == OpToRel(<, Nat)
<1>1. IsWellFoundedOn(R, Nat)
  BY NatLessThanWellFounded
<1>2. \A m, n \in Nat : m < n => <<m, n>> \in R
  BY Zenon DEF OpToRel
<1> HIDE DEF R
<1>3. PICK n \in T : \A m \in T : ~ (<<m, n>> \in R)
  BY <1>1, WFMin, Zenon
<1>4. \A m \in T : ~ (m < n)
  BY <1>2, <1>3
<1> QED
  BY <1>4

-----------------------------------------------------------------------------
(* The fences around a set of measurements (OutlierFilter)                   *)

Samples(S)  == IsFiniteSet(S) /\ \A m \in S : m.offset \in Int
Less(S, o)   == {m \in S : m.offset < o}
AtMost(S, o) == {m \in S : m.offset <= o}
Equal(S, o)  == {m \in S : m.offset = o}

LEMMA FltCardinality == ASSUME NEW S PROVE Flt!Cardinality(S) = Cardinality(S)
BY DEF Flt!Cardinality, Cardinality

LEMMA PartCount ==
    ASSUME NEW S, Samples(S), NEW T \in SUBSET S
    PROVE  /\ Samples(T) /\ Cardinality(T) \in Nat /\ Cardinality(S) \in Nat /\ Cardinality(T) <= Cardinality(S)
           /\ \A x \in S : x \notin T => Cardinality(T) < Cardinality(S)
<1>1. IsFiniteSet(T) /\ Cardinality(T) <= Cardinality(S) /\ (Cardinality(S) = Cardinality(T) => S = T)
  BY FS_Subset DEF Samples
<1>2. Cardinality(T) \in Nat /\ Cardinality(S) \in Nat
  BY <1>1, FS_CardinalityType DEF Samples
<1>3. ASSUME NEW x \in S, x \notin T PROVE Cardinality(T) < Cardinality(S)
  <2>1. Cardinality(S) # Cardinality(T)
    BY <1>1, <1>3
  <2> QED
    BY <1>1, <1>2, <2>1
<1> QED
  BY <1>1, <1>2, <1>3 DEF Samples

LEMMA Greatest ==
    ASSUME NEW S, Samples(S), S # {}
    PROVE  \E m \in S : \A n \in S : n.offset <= m.offset
<1> DEFINE above(m) == Cardinality(S) - Cardinality(AtMost(S, m.offset))
           T == {above(m) : m \in S}
<1>1. ASSUME NEW m \in S
      PROVE  /\ AtMost(S, m.offset) \in SUBSET S /\ Cardinality(AtMost(S, m.offset)) \in Nat
             /\ above(m) \in Nat
  <2>1. AtMost(S, m.offset) \in SUBSET S
    BY DEF AtMost
  <2> QED
    BY <2>1, PartCount
<1>2. T \in SUBSET Nat /\ T # {}
  BY <1>1
<1>3. PICK m \in S : \A n \in S : above(m) <= above(n)
  <2> HIDE DEF T, above
  <2>1. PICK c \in T : \A d \in T : c <= d
    BY <1>2, LeastElement
  <2> QED
    BY <2>1 DEF T
<1>4. ASSUME NEW n \in S, ~(n.offset <= m.offset) PROVE FALSE
  <2>1. AtMost(S, m.offset) \in SUBSET AtMost(S, n.offset) /\ n \in AtMost(S, n.offset) /\ n \notin AtMost(S, m.offset)
    BY <1>4 DEF AtMost, Samples
  <2>2. Samples(AtMost(S, n.offset))
    BY <1>1, PartCount
  <2>3. Cardinality(AtMost(S, m.offset)) < Cardinality(AtMost(S, n.offset))
    BY <2>1, <2>2, PartCount
  <2>4. above(m) <= above(n) /\ Cardinality(S) \in Nat
    BY <1>3, <1>1, PartCount
  <2> QED
    BY <1>1, <2>3, <2>4
<1> QED
  BY <1>4

\* Some offset is at each index of the sorted ones.
LEMMA RankExists ==
    ASSUME NEW S, Samples(S), NEW k \in Nat, k < Cardinality(S)
    PROVE  \E m \in S : Cardinality(Less(S, m.offset)) <= k /\ Cardinality(AtMost(S, m.offset)) > k
<1> DEFINE upTo(m) == Cardinality(AtMost(S, m.offset))
           T == {upTo(m) : m \in {n \in S : upTo(n) > k}}
<1>1. ASSUME NEW m \in S
      PROVE  AtMost(S, m.offset) \in SUBSET S /\ upTo(m) \in Nat /\ Samples(AtMost(S, m.offset))
  <2>1. AtMost(S, m.offset) \in SUBSET S
    BY DEF AtMost
  <2> QED
    BY <2>1, PartCount
<1>2. S # {}
  BY FS_EmptySet
<1>3. PICK g \in S : \A n \in S : n.offset <= g.offset
  BY <1>2, Greatest
<1>4. AtMost(S, g.offset) = S
  BY <1>3 DEF AtMost
<1>5. T \in SUBSET Nat /\ T # {}
  BY <1>1, <1>4
<1>6. PICK m \in S : upTo(m) > k /\ \A n \in S : upTo(n) > k => upTo(m) <= upTo(n)
  <2> HIDE DEF T, upTo
  <2>1. PICK c \in T : \A d \in T : c <= d
    BY <1>5, LeastElement
  <2> QED
    BY <2>1 DEF T
<1>7. ASSUME ~(Cardinality(Less(S, m.offset)) <= k) PROVE FALSE
  <2>1. Less(S, m.offset) \in SUBSET S
    BY DEF Less
  <2>2. Samples(Less(S, m.offset)) /\ Cardinality(Less(S, m.offset)) \in Nat
    BY <2>1, PartCount
  <2>3. Less(S, m.offset) # {}
    BY <1>7, <2>2, FS_EmptySet
  <2>4. PICK p \in Less(S, m.offset) : \A n \in Less(S, m.offset) : n.offset <= p.offset
    BY <2>2, <2>3, Greatest
  <2>5. p \in S /\ p.offset < m.offset
    BY <2>4 DEF Less
  <2>6. AtMost(S, p.offset) = Less(S, m.offset)
    <3>1. ASSUME NEW n \in S PROVE n.offset <= p.offset <=> n.offset < m.offset
      <4>1. n.offset \in Int /\ p.offset \in Int /\ m.offset \in Int
        BY <2>5 DEF Samples
      <4>2. n.offset < m.offset => n.offset <= p.offset
        BY <2>4 DEF Less
      <4> QED
        BY <2>5, <4>1, <4>2
    <3> QED
      BY <3>1 DEF AtMost, Less
  <2>7. upTo(m) <= upTo(p)
    BY <1>6, <1>7, <2>2, <2>5, <2>6
  <2>8. /\ AtMost(S, p.offset) \in SUBSET AtMost(S, m.offset)
        /\ m \in AtMost(S, m.offset) /\ m \notin AtMost(S, p.offset)
    BY <2>5 DEF AtMost, Samples
  <2>9. upTo(p) < upTo(m)
    BY <1>1, <2>8, PartCount
  <2> QED
    BY <1>1, <2>5, <2>7, <2>9
<1> QED
  BY <1>6, <1>7

LEMMA RankedIs ==
    ASSUME NEW S, Samples(S), NEW k \in Nat, k < Cardinality(S)
    PROVE  /\ Flt!Ranked(S, k) \in Int /\ \E m \in S : m.offset = Flt!Ranked(S, k)
           /\ Cardinality(Less(S, Flt!Ranked(S, k))) <= k
           /\ Cardinality(AtMost(S, Flt!Ranked(S, k))) > k
<1> DEFINE At(o) == Cardinality(Less(S, o)) <= k /\ Cardinality(AtMost(S, o)) > k
           O == {m.offset : m \in S}
<1>1. \E o \in O : At(o)
  BY RankExists
<1>2. Flt!Ranked(S, k) = CHOOSE o \in O : At(o)
  BY FltCardinality, Zenon DEF Flt!Ranked, Less, AtMost
<1> HIDE DEF At
<1>3. Flt!Ranked(S, k) \in O /\ At(Flt!Ranked(S, k))
  BY <1>1, <1>2
<1> QED
  BY <1>3 DEF At, Samples

\* A value that more than a quarter has is within the fences.
LEMMA Accepted ==
    ASSUME NEW S, Samples(S), NEW v \in Int, Cardinality(Equal(S, v)) > Cardinality(S) \div 4
    PROVE  ~Flt!Outlying(v, S)
<1> DEFINE n == Cardinality(S)
           q1 == Flt!Ranked(S, n \div 4)
           q3 == Flt!Ranked(S, (3 * n) \div 4)
<1>1. /\ Equal(S, v) \in SUBSET S /\ \A o : Less(S, o) \in SUBSET S /\ AtMost(S, o) \in SUBSET S
  BY DEF Equal, Less, AtMost
<1>2. n \in Nat \ {0} /\ Cardinality(Equal(S, v)) \in Nat /\ Cardinality(Equal(S, v)) <= n
  <2>1. n \in Nat /\ Cardinality(Equal(S, v)) \in Nat /\ Cardinality(Equal(S, v)) <= n
    BY <1>1, PartCount
  <2> QED
    BY <2>1
<1>3. n \div 4 \in Nat /\ (3 * n) \div 4 \in Nat /\ n \div 4 < n /\ (3 * n) \div 4 < n
      /\ n <= n \div 4 + (3 * n) \div 4 + 1
  <2> HIDE DEF n
  <2> QED
    BY <1>2
<1>4. /\ q1 \in Int /\ q3 \in Int
      /\ Cardinality(Less(S, q1)) <= n \div 4 /\ Cardinality(AtMost(S, q3)) > (3 * n) \div 4
  BY <1>3, RankedIs
<1>5. q1 <= v
  <2> SUFFICES ASSUME v < q1 PROVE FALSE
    BY <1>4
  <2>1. Equal(S, v) \in SUBSET Less(S, q1)
    BY DEF Equal, Less
  <2>2. Samples(Less(S, q1)) /\ Cardinality(Less(S, q1)) \in Nat
    BY <1>1, PartCount
  <2>3. Cardinality(Equal(S, v)) <= Cardinality(Less(S, q1))
    BY <2>1, <2>2, PartCount
  <2> QED
    BY <1>2, <1>3, <1>4, <2>2, <2>3
<1>6. v <= q3
  <2> SUFFICES ASSUME q3 < v PROVE FALSE
    BY <1>4
  <2>1. Equal(S, v) \cap AtMost(S, q3) = {}
    BY <1>4 DEF Equal, AtMost
  <2>2. /\ IsFiniteSet(Equal(S, v)) /\ IsFiniteSet(AtMost(S, q3))
        /\ Cardinality(AtMost(S, q3)) \in Nat
    BY <1>1, PartCount DEF Samples
  <2>3. Cardinality(Equal(S, v) \cup AtMost(S, q3)) = Cardinality(Equal(S, v)) + Cardinality(AtMost(S, q3))
    <3>1. Cardinality(Equal(S, v) \cap AtMost(S, q3)) = 0
      BY <2>1, FS_EmptySet
    <3>2. Cardinality(Equal(S, v) \cup AtMost(S, q3))
            = Cardinality(Equal(S, v)) + Cardinality(AtMost(S, q3)) - Cardinality(Equal(S, v) \cap AtMost(S, q3))
      BY <2>2, FS_Union, Zenon
    <3> QED
      BY <1>2, <2>2, <3>1, <3>2
  <2>4. Cardinality(Equal(S, v) \cup AtMost(S, q3)) <= n
    BY <1>1, PartCount
  <2> QED
    BY <1>2, <1>3, <1>4, <2>2, <2>3, <2>4
<1>7. Flt!Quartiles(S) = <<q1, q3>>
  BY FltCardinality, Zenon DEF Flt!Quartiles
<1> HIDE DEF q1, q3
<1> QED
  BY <1>4, <1>5, <1>6, <1>7 DEF Flt!Outlying

\* Of two values, the one at a rank that the other does not reach.
LEMMA RankOfTwo ==
    ASSUME NEW S, Samples(S), NEW u \in Int, NEW v \in Int, \A m \in S : m.offset \in {u, v},
           NEW k \in Nat, Cardinality(Equal(S, v)) <= k, k < Cardinality(Equal(S, u)), u # v
    PROVE  Flt!Ranked(S, k) = u
<1>1. /\ Equal(S, v) \in SUBSET S /\ Equal(S, u) \in SUBSET S
  BY DEF Equal
<1>2. /\ Cardinality(Equal(S, v)) \in Nat /\ Cardinality(Equal(S, u)) \in Nat /\ Cardinality(S) \in Nat
      /\ Cardinality(Equal(S, u)) <= Cardinality(S)
  BY <1>1, PartCount
<1> DEFINE r == Flt!Ranked(S, k)
<1>3. /\ r \in {u, v} /\ Cardinality(Less(S, r)) <= k /\ Cardinality(AtMost(S, r)) > k
  BY <1>2, RankedIs
<1> HIDE DEF r
<1> SUFFICES ASSUME r = v PROVE FALSE
  BY <1>3 DEF r
<1>4. CASE v < u
  <2>1. AtMost(S, v) = Equal(S, v)
    BY <1>4 DEF AtMost, Equal
  <2> QED
    BY <1>2, <1>3, <2>1
<1>5. CASE u < v
  <2>1. Less(S, v) = Equal(S, u)
    BY <1>5 DEF Less, Equal
  <2> QED
    BY <1>2, <1>3, <2>1
<1> QED
  BY <1>4, <1>5

\* A value that at most a quarter has is outside if all others agree on another.
LEMMA Lone ==
    ASSUME NEW S, Samples(S), NEW u \in Int, NEW v \in Int, u # v, \A m \in S : m.offset \in {u, v},
           Cardinality(Equal(S, v)) <= Cardinality(S) \div 4,
           (3 * Cardinality(S)) \div 4 < Cardinality(Equal(S, u))
    PROVE  Flt!Outlying(v, S) /\ ~Flt!Outlying(u, S)
<1> DEFINE n == Cardinality(S)
<1>1. n \in Nat /\ Cardinality(Equal(S, v)) \in Nat /\ Cardinality(Equal(S, u)) \in Nat
  BY PartCount DEF Equal
<1>2. n \div 4 \in Nat /\ (3 * n) \div 4 \in Nat /\ n \div 4 <= (3 * n) \div 4
  <2> HIDE DEF n
  <2> QED
    BY <1>1
<1>3. Flt!Ranked(S, n \div 4) = u /\ Flt!Ranked(S, (3 * n) \div 4) = u
  <2>1. Cardinality(Equal(S, v)) <= (3 * n) \div 4 /\ n \div 4 < Cardinality(Equal(S, u))
    BY <1>1, <1>2
  <2> QED
    BY <1>2, <2>1, RankOfTwo
<1>4. Flt!Quartiles(S) = <<u, u>>
  BY <1>3, FltCardinality, Zenon DEF Flt!Quartiles
<1> QED
  BY <1>4 DEF Flt!Outlying

LEMMA Divided == ASSUME NEW n \in Nat, n > 0, NEW a \in Nat PROVE a = n * (a \div n) + (a % n)
OBVIOUS

LEMMA RingApart ==
    ASSUME NEW C \in Nat \ {0}, NEW a \in Nat, NEW b \in Nat, a < b, b - a < C
    PROVE  a % C # b % C
<1>1. a = C * (a \div C) + (a % C) /\ b = C * (b \div C) + (b % C)
  BY Divided
<1>3. a \div C \in Int /\ b \div C \in Int /\ a % C \in Int /\ b % C \in Int
  OBVIOUS
<1>2. ASSUME a % C = b % C PROVE FALSE
  <2> DEFINE d == (b \div C) - (a \div C)
  <2>1. d \in Int /\ b - a = C * d
    BY <1>1, <1>2, <1>3
  <2> HIDE DEF d
  <2>2. d >= 1 => C * d >= C
    BY <2>1
  <2>3. d <= 0 => C * d <= 0
    BY <2>1
  <2> QED
    BY <2>1, <2>2, <2>3
<1> QED
  BY <1>2

\* Every place of a ring comes up in a turn.
LEMMA RingOnto ==
    ASSUME NEW n \in Nat \ {0}, NEW a \in Nat, NEW j \in 0 .. n - 1
    PROVE  \E i \in 1 .. n : (a + i - 1) % n = j
<1> DEFINE f == [i \in 1 .. n |-> (a + i - 1) % n]
<1>1. n \in Nat /\ n > 0
  OBVIOUS
<1>2. ASSUME NEW i \in 1 .. n PROVE a + i - 1 \in Nat /\ (a + i - 1) % n \in 0 .. n - 1
  BY <1>1
<1>3. f \in [1 .. n -> 0 .. n - 1]
  BY <1>2
<1>4. ASSUME NEW i \in 1 .. n, NEW k \in 1 .. n, f[i] = f[k] PROVE i = k
  <2>1. ASSUME NEW x \in 1 .. n, NEW y \in 1 .. n, x < y PROVE (a + x - 1) % n # (a + y - 1) % n
    <3>1. /\ a + x - 1 \in Nat /\ a + y - 1 \in Nat
          /\ a + x - 1 < a + y - 1 /\ (a + y - 1) - (a + x - 1) < n
      BY <2>1
    <3> QED
      BY <3>1, RingApart
  <2> QED
    BY <1>4, <2>1
<1>5. f \in Injection(1 .. n, 0 .. n - 1)
  BY <1>3, <1>4 DEF Injection, IsInjective
<1>6. /\ IsFiniteSet(1 .. n) /\ IsFiniteSet(0 .. n - 1)
      /\ Cardinality(1 .. n) = n /\ Cardinality(0 .. n - 1) = n
  BY <1>1, FS_Interval
<1> HIDE DEF f
<1>7. f \in Surjection(1 .. n, 0 .. n - 1)
  BY <1>5, <1>6, FS_Injection, Zenon
<1>8. \E i \in 1 .. n : f[i] = j
  BY <1>7 DEF Surjection
<1> QED
  BY <1>8 DEF f

-----------------------------------------------------------------------------
(* Which offsets are used (OutlierFilter) *)

\* Measurement n, as long as the ring has it.
Measured(n) == measurements[(n - 1) % Capacity]

FltTypes ==
    /\ count \in Nat /\ used \in {"yes", "no", "not yet"}
    /\ measurements \in [0 .. Capacity - 1 -> [time : Nat, offset : Int]]
InRing(n) == n \in 1 .. count /\ n > count - Capacity
\* The place of a measurement is its own until the ring has gone round.
RingInv == \A n \in 1 .. count : InRing(n) => Measured(n).time = n
\* What firefly_run() decided is right for the measurements it read.
UsedInv == /\ used = "no" => Flt!Rejected
           /\ used = "yes" => ~Flt!Rejected
FltInv == FltTypes /\ RingInv /\ UsedInv

LEMMA MeasuredType ==
    ASSUME FltInv, NEW n \in Nat, n > 0 PROVE Measured(n).offset \in Int /\ Measured(n).time \in Nat
<1>1. (n - 1) % Capacity \in 0 .. Capacity - 1
  BY FilterAssumption
<1>2. Measured(n) \in [time : Nat, offset : Int]
  BY <1>1 DEF Measured, FltInv, FltTypes
<1> QED
  BY <1>2

\* Measurements in the ring are different ones.
LEMMA Distinct ==
    ASSUME FltInv, NEW D \in SUBSET (1 .. count), \A n \in D : InRing(n)
    PROVE  LET S == {Measured(n) : n \in D}
           IN  Samples(S) /\ Cardinality(S) = Cardinality(D) /\ IsFiniteSet(D)
<1> DEFINE S == {Measured(n) : n \in D}
           f == [n \in D |-> Measured(n)]
<1>1. ASSUME NEW n \in D
      PROVE  n \in Nat /\ n > 0 /\ Measured(n).time = n /\ Measured(n).offset \in Int
  <2>1. count \in Nat /\ n \in 1 .. count
    BY DEF FltInv, FltTypes
  <2>2. n \in Nat /\ n > 0
    BY <2>1
  <2>3. Measured(n).time = n
    BY <2>1 DEF FltInv, RingInv
  <2> QED
    BY <2>2, <2>3, MeasuredType
<1>2. IsFiniteSet(D)
  <2>1. count \in Nat
    BY DEF FltInv, FltTypes
  <2>2. IsFiniteSet(1 .. count)
    BY <2>1, FS_Interval
  <2> QED
    BY <2>2, FS_Subset
<1>7. /\ DOMAIN f = D /\ f \in [D -> S] /\ \A n \in D : f[n] = Measured(n)
      /\ \A m \in S : \E n \in D : m = Measured(n)
  OBVIOUS
<1> HIDE DEF f, S
<1>3. f \in Surjection(D, S)
  BY <1>7 DEF Surjection
<1>4. f \in Injection(D, S)
  BY <1>1, <1>7 DEF Injection, IsInjective
<1>5. IsFiniteSet(S) /\ Cardinality(S) = Cardinality(D)
  BY <1>2, <1>3, <1>4, FS_Surjection
<1>6. \A m \in S : m.offset \in Int
  BY <1>1, <1>7
<1> QED
  BY <1>2, <1>5, <1>6 DEF Samples, S

\* The last measurements that read_latest_measurements() starts from.
Latter == {Measured(n) : n \in count - Window + 1 .. count}

LEMMA WindowIs ==
    ASSUME FltInv, count > Window, Window <= Capacity
    PROVE  Flt!LastInTime(Flt!AsRing(Flt!Copied)) = Latter
<1> DEFINE L == IF count < Capacity THEN count ELSE Capacity
           Rg == {Measured(n) : n \in count - L + 1 .. count}
<1>1. /\ L \in Nat \ {0} /\ Window <= L /\ L <= count /\ L <= Capacity
      /\ count \in Nat /\ Window \in Nat \ {0} /\ Capacity \in Nat
  <2>1. count \in Nat /\ Window \in Nat \ {0} /\ Capacity \in Nat \ {0}
    BY FilterAssumption DEF FltInv, FltTypes
  <2> QED
    BY <2>1
<1>2. Flt!Copied = [i \in 1 .. L |-> Measured(count - L + i)]
  <2>1. Flt!Copied = [i \in 1 .. L |-> measurements[(count - L + i - 1) % Capacity]]
    BY DEF Flt!Copied
  <2> HIDE DEF L
  <2>2. \A i \in 1 .. L : count - L + i - 1 = (count - L + i) - 1
    BY <1>1
  <2> QED
    BY <2>1, <2>2 DEF Measured
<1> HIDE DEF L
<1>3. Len(Flt!Copied) = L /\ DOMAIN Flt!Copied = 1 .. L
  <2>1. DOMAIN Flt!Copied = 1 .. L
    BY <1>2
  <2> DEFINE W == {Measured(count - L + i) : i \in 1 .. L}
  <2>2. Flt!Copied \in [1 .. L -> W]
    BY <1>2
  <2> HIDE DEF W
  <2>3. Flt!Copied \in Seq(W)
    BY <1>1, <2>2, SeqDef
  <2> QED
    BY <1>1, <2>1, <2>3, LenProperties
<1>4. ASSUME NEW i \in 1 .. L
      PROVE  ((count - L + i - 1) % L) + 1 \in 1 .. L
  BY <1>1
<1>5. Flt!AsRing(Flt!Copied) = [i \in 1 .. L |-> Measured(count - L + (((count - L + i - 1) % L) + 1))]
  <2>1. Flt!AsRing(Flt!Copied) = [i \in 1 .. L |-> Flt!Copied[((count - L + i - 1) % L) + 1]]
    BY <1>3 DEF Flt!AsRing
  <2> QED
    BY <1>2, <1>4, <2>1
<1>6. Flt!Range(Flt!AsRing(Flt!Copied)) = Rg
  <2>1. ASSUME NEW i \in 1 .. L
        PROVE  count - L + (((count - L + i - 1) % L) + 1) \in count - L + 1 .. count
    BY <1>1, <1>4
  <2>2. ASSUME NEW n \in count - L + 1 .. count
        PROVE  \E i \in 1 .. L : n = count - L + (((count - L + i - 1) % L) + 1)
    <3>1. count - L \in Nat /\ n - (count - L) - 1 \in 0 .. L - 1
      BY <1>1
    <3>2. PICK i \in 1 .. L : ((count - L) + i - 1) % L = n - (count - L) - 1
      BY <1>1, <3>1, RingOnto
    <3>3. n = count - L + ((n - (count - L) - 1) + 1)
      BY <1>1
    <3> QED
      BY <3>2, <3>3
  <2> QED
    BY <1>5, <2>1, <2>2 DEF Flt!Range
<1>7. ASSUME NEW n \in count - L + 1 .. count
      PROVE  n \in 1 .. count /\ InRing(n) /\ Measured(n).time = n
  BY <1>1 DEF InRing, FltInv, RingInv
<1>8. ASSUME NEW n \in count - L + 1 .. count
      PROVE  Cardinality({m \in Rg : m.time > Measured(n).time}) = count - n
  <2>1. {m \in Rg : m.time > Measured(n).time} = {Measured(k) : k \in n + 1 .. count}
    <3>1. n + 1 .. count \subseteq count - L + 1 .. count
      BY <1>1
    <3>2. \A k \in count - L + 1 .. count : Measured(k).time > Measured(n).time <=> k \in n + 1 .. count
      BY <1>1, <1>7
    <3> QED
      BY <3>1, <3>2
  <2>2. Cardinality({Measured(k) : k \in n + 1 .. count}) = Cardinality(n + 1 .. count)
    <3>1. n + 1 .. count \in SUBSET (1 .. count) /\ \A k \in n + 1 .. count : InRing(k)
      BY <1>1, <1>7
    <3> QED
      BY <3>1, Distinct
  <2>3. Cardinality(n + 1 .. count) = count - n
    BY <1>1, FS_Interval
  <2> QED
    BY <2>1, <2>2, <2>3
<1>9. Flt!LastInTime(Flt!AsRing(Flt!Copied)) = {m \in Rg : Cardinality({k \in Rg : k.time > m.time}) < Window}
  BY <1>6, FltCardinality DEF Flt!LastInTime
<1>10. \A n \in count - L + 1 .. count : count - n < Window <=> n \in count - Window + 1 .. count
  BY <1>1
<1>11. count - Window + 1 .. count \subseteq count - L + 1 .. count
  BY <1>1
<1> QED
  BY <1>8, <1>9, <1>10, <1>11 DEF Latter

LEMMA FltProperty == ASSUME FltInv PROVE Flt!RejectsOutliersOnly
<1> DEFINE v == Flt!Latest.offset
           W == count - Window + 1 .. count
           own == {n \in W : Measured(n).offset = v}
           earlier == count - Window + 1 .. count - 1
           theirs == {Measured(n).offset : n \in earlier}
<1> SUFFICES ASSUME count > Window, Window <= Capacity
             PROVE  /\ used = "no" => Cardinality(own) <= Window \div 4
                    /\ used = "yes" /\ Window >= 5 => Cardinality(theirs) > 1 \/ v \in theirs
  BY FltCardinality DEF Flt!RejectsOutliersOnly, Measured
<1>1. /\ count \in Nat /\ Window \in Nat \ {0} /\ Capacity \in Nat \ {0} /\ Window \in Nat
      /\ Window \div 4 \in Nat
  <2>1. count \in Nat /\ Window \in Nat \ {0} /\ Capacity \in Nat \ {0}
    BY FilterAssumption DEF FltInv, FltTypes
  <2> QED
    BY <2>1
<1>2. /\ W \in SUBSET (1 .. count) /\ \A n \in W : InRing(n)
      /\ count \in W /\ earlier \in SUBSET W /\ count \notin earlier /\ W = earlier \cup {count}
  BY <1>1 DEF InRing
<1>3. v = Measured(count).offset /\ v \in Int
  BY <1>1, MeasuredType DEF Flt!Latest, Measured
<1> DEFINE R == IF Cardinality(Latter) < 2 THEN Latter ELSE {m \in Latter : ~Flt!Outlying(m.offset, Latter)}
<1>4. Flt!Rejected <=> R # {} /\ Flt!Outlying(v, R)
  <2>1. Flt!read_latest_measurements = R
    BY WindowIs, FltCardinality DEF Flt!read_latest_measurements
  <2> QED
    BY <2>1 DEF Flt!Rejected
<1>5. Cardinality(W) = Window /\ Cardinality(earlier) = Window - 1 /\ IsFiniteSet(earlier)
  BY <1>1, FS_Interval
<1>6. Samples(Latter) /\ Cardinality(Latter) = Window
  BY <1>2, <1>5, Distinct DEF Latter
<1>7. R \in SUBSET Latter /\ Samples(R) /\ Cardinality(R) \in Nat /\ Cardinality(R) <= Window
  <2>1. R \in SUBSET Latter
    OBVIOUS
  <2> QED
    BY <1>6, <2>1, PartCount
<1>8. ASSUME NEW o, NEW D \in SUBSET W, \A n \in W : Measured(n).offset = o <=> n \in D
      PROVE  Cardinality(Equal(Latter, o)) = Cardinality(D)
  <2>1. Equal(Latter, o) = {Measured(n) : n \in D}
    BY <1>8 DEF Equal, Latter
  <2>2. D \in SUBSET (1 .. count) /\ \A n \in D : InRing(n)
    BY <1>2
  <2> QED
    BY <2>1, <2>2, Distinct
<1> HIDE DEF v, W, earlier, R
<1>9. ASSUME used = "no" PROVE Cardinality(own) <= Window \div 4
  <2> SUFFICES ASSUME Cardinality(own) > Window \div 4 PROVE FALSE
    <3>1. own \in SUBSET W
      OBVIOUS
    <3>2. Cardinality(own) \in Nat
      BY <1>2, <3>1, Distinct, FS_CardinalityType
    <3> QED
      BY <1>1, <3>2
  <2>1. Cardinality(Equal(Latter, v)) > Window \div 4
    BY <1>8
  <2>2. ~Flt!Outlying(v, Latter)
    BY <1>3, <1>6, <2>1, Accepted
  <2>3. Equal(R, v) = Equal(Latter, v)
    BY <2>2 DEF R, Equal
  <2>4. Cardinality(R) \div 4 <= Window \div 4 /\ Cardinality(R) \div 4 \in Nat
    BY <1>1, <1>7
  <2>5. Cardinality(Equal(R, v)) > Cardinality(R) \div 4
    <3>1. Cardinality(Equal(R, v)) \in Nat
      BY <1>7, PartCount DEF Equal
    <3> QED
      BY <1>1, <2>1, <2>3, <2>4, <3>1
  <2>6. ~Flt!Outlying(v, R)
    BY <1>3, <1>7, <2>5, Accepted
  <2> QED
    BY <1>4, <1>9, <2>6 DEF FltInv, UsedInv
<1>10. ASSUME used = "yes", Window >= 5, ~(Cardinality(theirs) > 1), v \notin theirs PROVE FALSE
  <2>1. count - 1 \in earlier
    BY <1>1, <1>10 DEF earlier
  <2> DEFINE u == Measured(count - 1).offset
  <2>2. u \in theirs /\ u # v
    BY <1>10, <2>1
  <2>3. theirs = {u}
    <3>1. IsFiniteSet(theirs) /\ Cardinality(theirs) \in Nat
      <4> DEFINE f == [n \in earlier |-> Measured(n).offset]
      <4>1. f \in Surjection(earlier, theirs)
        BY DEF Surjection
      <4> HIDE DEF f
      <4>2. IsFiniteSet(theirs)
        BY <1>5, <4>1, FS_Surjection
      <4> QED
        BY <4>2, FS_CardinalityType
    <3>2. ASSUME NEW o \in theirs, o # u PROVE FALSE
      <4>1. {o} \cup {u} \in SUBSET theirs
        BY <2>2, <3>2
      <4>2. Cardinality({o} \cup {u}) = 2
        <5>1. IsFiniteSet({o}) /\ Cardinality({o}) = 1 /\ u \notin {o}
          BY <3>2, FS_Singleton
        <5>2. Cardinality({o} \cup {u}) = 1 + 1
          BY <5>1, FS_AddElement
        <5> QED
          BY <5>2
      <4>3. Cardinality({o} \cup {u}) <= Cardinality(theirs)
        BY <3>1, <4>1, FS_Subset
      <4> QED
        BY <1>10, <3>1, <4>2, <4>3
    <3> QED
      BY <2>2, <3>2
  <2>4. \A n \in earlier : Measured(n).offset = u
    BY <2>3
  <2>5. u \in Int
    BY <1>1, <1>10, MeasuredType
  <2> HIDE DEF u, theirs
  <2>6. Cardinality(Equal(Latter, v)) = 1
    <3>1. \A n \in W : Measured(n).offset = v <=> n \in {count}
      BY <1>2, <1>3, <2>2, <2>4
    <3>2. {count} \in SUBSET W
      BY <1>2
    <3>3. Cardinality(Equal(Latter, v)) = Cardinality({count})
      BY <1>8, <3>1, <3>2
    <3> QED
      BY <3>3, FS_Singleton
  <2>7. Cardinality(Equal(Latter, u)) = Window - 1
    <3>1. \A n \in W : Measured(n).offset = u <=> n \in earlier
      BY <1>2, <1>3, <2>2, <2>4
    <3> QED
      BY <1>2, <1>5, <1>8, <3>1
  <2>8. \A m \in Latter : m.offset \in {u, v}
    BY <1>2, <1>3, <2>4 DEF Latter, W
  <2>9. Window \div 4 >= 1 /\ (3 * Window) \div 4 < Window - 1
    BY <1>1, <1>10
  <2>10. Flt!Outlying(v, Latter) /\ ~Flt!Outlying(u, Latter)
    <3>1. Cardinality(Equal(Latter, v)) <= Window \div 4
      BY <1>1, <2>6, <2>9
    <3>2. /\ Cardinality(Equal(Latter, v)) <= Cardinality(Latter) \div 4
          /\ (3 * Cardinality(Latter)) \div 4 < Cardinality(Equal(Latter, u))
      BY <1>6, <2>7, <2>9, <3>1
    <3> QED
      BY <1>3, <1>6, <2>2, <2>5, <2>8, <3>2, Lone
  <2>11. R = Equal(Latter, u)
    <3>1. ~(Cardinality(Latter) < 2)
      BY <1>1, <1>6, <1>10
    <3> QED
      BY <2>8, <2>10, <3>1 DEF R, Equal
  <2>12. Cardinality(R) = Window - 1 /\ Equal(R, u) = R /\ Equal(R, v) = {}
    BY <2>2, <2>7, <2>11 DEF Equal
  <2>13. Flt!Outlying(v, R)
    <3>1. Cardinality(Equal(R, v)) = 0
      BY <2>12, FS_EmptySet
    <3>2. 0 <= (Window - 1) \div 4 /\ (3 * (Window - 1)) \div 4 < Window - 1
      BY <1>1, <1>10
    <3>3. \A m \in R : m.offset \in {u, v}
      BY <1>7, <2>8
    <3>4. /\ Cardinality(Equal(R, v)) <= Cardinality(R) \div 4
          /\ (3 * Cardinality(R)) \div 4 < Cardinality(Equal(R, u))
      BY <2>12, <3>1, <3>2
    <3> QED
      BY <1>3, <1>7, <2>2, <2>5, <3>3, <3>4, Lone
  <2>14. R # {}
    BY <1>1, <1>10, <2>12, FS_EmptySet
  <2> QED
    BY <1>4, <1>10, <2>13, <2>14 DEF FltInv, UsedInv
<1> QED
  BY <1>9, <1>10

LEMMA FltInit == Flt!Init => FltInv
<1> SUFFICES ASSUME Flt!Init PROVE FltInv
  OBVIOUS
<1>1. FltTypes
  BY FilterAssumption DEF Flt!Init, FltTypes
<1>2. count = 0 /\ used = "yes"
  BY DEF Flt!Init
<1>3. 1 .. count = {}
  BY <1>2
<1>4. ~Flt!Rejected
  BY <1>2, FilterAssumption DEF Flt!Rejected
<1> QED
  BY <1>1, <1>2, <1>3, <1>4 DEF FltInv, RingInv, UsedInv

\* A measurement takes the place of the one a turn of the ring before.
LEMMA FltRecord ==
    ASSUME FltInv, NEW offset \in Offsets, Flt!record_measurement(offset) PROVE FltInv'
<1>1. count \in Nat /\ Capacity \in Nat /\ Capacity > 0 /\ count' = count + 1
  <2>1. Capacity \in Nat /\ Capacity > 0
    BY FilterAssumption
  <2>2. count \in Nat
    BY DEF FltInv, FltTypes
  <2> QED
    BY <2>1, <2>2 DEF Flt!record_measurement
<1>2. /\ used' = "not yet" /\ offset \in Int
      /\ measurements' = [measurements EXCEPT ![count % Capacity] = [time |-> count + 1, offset |-> offset]]
      /\ measurements \in [0 .. Capacity - 1 -> [time : Nat, offset : Int]]
  <2>1. offset \in Int
    BY FilterAssumption
  <2>2. measurements \in [0 .. Capacity - 1 -> [time : Nat, offset : Int]]
    BY DEF FltInv, FltTypes
  <2> QED
    BY <2>1, <2>2 DEF Flt!record_measurement
<1>3. count % Capacity \in 0 .. Capacity - 1
  BY <1>1
<1>4. FltTypes'
  <2>1. count' \in Nat /\ count + 1 \in Nat
    BY <1>1
  <2>2. measurements' \in [0 .. Capacity - 1 -> [time : Nat, offset : Int]]
    BY <1>2, <2>1
  <2> QED
    BY <1>2, <2>1, <2>2 DEF FltTypes
<1>5. ASSUME NEW n \in 1 .. count', InRing(n)' PROVE Measured(n)'.time = n
  <2>0. n \in Int /\ 1 <= n /\ n <= count + 1 /\ n > count + 1 - Capacity
    BY <1>1, <1>5 DEF InRing
  <2>1. CASE n = count + 1
    <3>1. n - 1 = count
      BY <1>1, <2>1
    <3>2. Measured(n)' = measurements'[count % Capacity]
      BY <3>1 DEF Measured
    <3>3. Measured(n)' = [time |-> count + 1, offset |-> offset]
      BY <1>2, <1>3, <3>2
    <3> QED
      BY <2>1, <3>3
  <2>2. CASE n # count + 1
    <3>1. n \in 1 .. count /\ n > count - Capacity
      BY <1>1, <2>0, <2>2
    <3>2. n - 1 \in Nat /\ n - 1 < count /\ count - (n - 1) < Capacity
      BY <1>1, <2>0, <2>2
    <3>3. (n - 1) % Capacity # count % Capacity
      BY <1>1, <3>2, RingApart, FilterAssumption
    <3>4. (n - 1) % Capacity \in 0 .. Capacity - 1
      BY <1>1, <3>2
    <3>5. Measured(n)' = Measured(n)
      BY <1>2, <3>3, <3>4 DEF Measured
    <3>6. InRing(n)
      BY <3>1 DEF InRing
    <3> QED
      BY <3>1, <3>5, <3>6 DEF FltInv, RingInv
  <2> QED
    BY <2>1, <2>2
<1> QED
  BY <1>2, <1>4, <1>5 DEF FltInv, RingInv, UsedInv

LEMMA FltStep == ASSUME FltInv, [Flt!Next]_Flt!filterVars PROVE FltInv'
<1>1. ASSUME NEW offset \in Offsets, Flt!record_measurement(offset) PROVE FltInv'
  BY <1>1, FltRecord
<1>2. ASSUME UNCHANGED <<measurements, count>>
      PROVE  (FltTypes /\ used' \in {"yes", "no", "not yet"} => FltTypes') /\ (RingInv => RingInv')
             /\ (Flt!Rejected' <=> Flt!Rejected)
  <2>1. Flt!Rejected' <=> Flt!Rejected
    <3>1. Flt!Copied' = Flt!Copied /\ Flt!Latest' = Flt!Latest
      BY <1>2 DEF Flt!Copied, Flt!Latest
    <3>2. Flt!LastInTime(Flt!AsRing(Flt!Copied))' = Flt!LastInTime(Flt!AsRing(Flt!Copied))
      BY <1>2, <3>1 DEF Flt!LastInTime, Flt!AsRing
    <3>3. Flt!read_latest_measurements' = Flt!read_latest_measurements
      BY <3>2 DEF Flt!read_latest_measurements
    <3> QED
      BY <1>2, <3>1, <3>3 DEF Flt!Rejected
  <2>2. (FltTypes /\ used' \in {"yes", "no", "not yet"} => FltTypes') /\ (RingInv => RingInv')
    <3>1. UNCHANGED <<measurements, count>>
      BY <1>2
    <3> QED
      BY <3>1 DEF FltTypes, RingInv, InRing, Measured
  <2> QED
    BY <2>1, <2>2
<1>3. CASE Flt!firefly_run
  <2>1. used' = IF Flt!Rejected THEN "no" ELSE "yes"
    BY <1>3 DEF Flt!firefly_run
  <2>2. FltTypes' /\ RingInv' /\ (Flt!Rejected' <=> Flt!Rejected)
    BY <1>2, <1>3, <2>1 DEF FltInv, Flt!firefly_run
  <2> QED
    BY <2>1, <2>2 DEF FltInv, UsedInv
<1>4. CASE UNCHANGED Flt!filterVars
  <2>1. UNCHANGED <<measurements, count>> /\ used' = used
    BY <1>4 DEF Flt!filterVars
  <2> QED
    BY <1>2, <2>1 DEF FltInv, FltTypes, UsedInv
<1> QED
  BY <1>1, <1>3, <1>4 DEF Flt!Next

\* Whatever was measured and however often the ring went round: after a step of the
\* clock at most a quarter of a window is refused, and an offset that differs from all
\* others of a window which agree is not used.
THEOREM OutliersRejected == SourcesSpec => []RejectsOutliersOnly
<1> DEFINE Inv == subject = "filter" => FltInv
<1>1. SourcesInit => Inv
  BY FltInit DEF SourcesInit
<1>2. Inv /\ [SourcesNext]_vars => Inv'
  <2>1. [SourcesNext]_vars => subject' = subject /\ (subject = "filter" => [Flt!Next]_Flt!filterVars)
    BY DEF SourcesNext, Rocprof, Roctracer, Cupti, ClrNext, AmdSmi, Clock, Probes, Filter, Sender,
       CallStacks, vars, fltVars, onlineVars, Flt!filterVars
  <2> QED
    BY <2>1, FltStep
<1>3. Inv => RejectsOutliersOnly
  BY FltProperty DEF RejectsOutliersOnly
<1> QED
  BY <1>1, <1>2, <1>3, PTL DEF SourcesSpec

-----------------------------------------------------------------------------
(* The callers of a range (CallStacks)                                       *)

LEMMA NatSetInduction ==
    ASSUME NEW T, 0 \in T, \A n \in Nat : n \in T => n + 1 \in T
    PROVE  \A n \in Nat : n \in T
<1>1. SUFFICES ASSUME Nat \ T # {} PROVE FALSE
  OBVIOUS
<1>2. PICK n \in Nat \ T : \A m \in Nat \ T : n <= m
  BY <1>1, LeastElement, Zenon
<1>3. n - 1 \in Nat
  BY <1>2
<1>4. n - 1 \in T
  BY <1>2, <1>3
<1> QED
  BY <1>2, <1>3, <1>4

\* Rows nest, in the order of their ends, and have starts of their own.
CstInv ==
    /\ rocpd_api \in Seq([start : Int, end : Int])
    /\ \A f \in Cst!Ids : Cst!Start(f) <= Cst!End(f)
    /\ \A f, g \in Cst!Ids : f < g =>
         /\ Cst!Start(f) # Cst!Start(g)
         /\ Cst!End(f) < Cst!Start(g) \/ Cst!Around(rocpd_api[g], rocpd_api[f])

LEMMA CstCardinality == ASSUME NEW S PROVE Cst!Cardinality(S) = Cardinality(S)
BY DEF Cst!Cardinality, Cardinality

LEMMA CstRow ==
    ASSUME CstInv
    PROVE  /\ Len(rocpd_api) \in Nat /\ Cst!Ids = 1 .. Len(rocpd_api) /\ IsFiniteSet(Cst!Ids)
           /\ Cardinality(Cst!Ids) = Len(rocpd_api)
           /\ \A f \in Cst!Ids : /\ f \in Nat /\ f > 0 /\ Cst!Start(f) \in Int /\ Cst!End(f) \in Int
                                 /\ Cst!Start(f) <= Cst!End(f)
<1>1. Len(rocpd_api) \in Nat /\ Cst!Ids = 1 .. Len(rocpd_api)
  <2>1. rocpd_api \in Seq([start : Int, end : Int])
    BY DEF CstInv
  <2>2. Len(rocpd_api) \in Nat /\ DOMAIN rocpd_api = 1 .. Len(rocpd_api)
    BY <2>1, LenProperties
  <2> QED
    BY <2>2 DEF Cst!Ids
<1>2. IsFiniteSet(Cst!Ids) /\ Cardinality(Cst!Ids) = Len(rocpd_api)
  <2>1. PICK n \in Nat : n = Len(rocpd_api)
    BY <1>1
  <2>2. IsFiniteSet(1 .. n) /\ Cardinality(1 .. n) = IF 1 > n THEN 0 ELSE n - 1 + 1
    BY FS_Interval
  <2>3. Cardinality(1 .. n) = n
    BY <2>2
  <2> QED
    BY <1>1, <2>1, <2>2, <2>3
<1>3. ASSUME NEW f \in Cst!Ids PROVE f \in Nat /\ f > 0 /\ Cst!Start(f) \in Int /\ Cst!End(f) \in Int
  <2>1. rocpd_api[f] \in [start : Int, end : Int]
    BY <1>1, <1>3, ElementOfSeq DEF CstInv
  <2> QED
    BY <1>1, <2>1 DEF Cst!Start, Cst!End
<1> QED
  BY <1>1, <1>2, <1>3 DEF CstInv

\* The rows around one are those that have begun and not ended when it begins.
LEMMA InsideIs ==
    ASSUME CstInv, NEW a \in Cst!Ids, NEW f \in Cst!Ids
    PROVE  /\ Cst!Inside(a, f) <=> a = f \/ (Cst!Start(a) < Cst!Start(f) /\ Cst!Start(f) <= Cst!End(a))
           /\ Cst!Inside(a, f) => /\ Cst!Start(a) <= Cst!Start(f) /\ Cst!End(f) <= Cst!End(a)
                                  /\ a = f \/ f < a
<1>1. /\ a \in Nat /\ Cst!Start(a) \in Int /\ Cst!End(a) \in Int /\ Cst!Start(a) <= Cst!End(a)
      /\ f \in Nat /\ Cst!Start(f) \in Int /\ Cst!End(f) \in Int /\ Cst!Start(f) <= Cst!End(f)
  BY CstRow
<1>2. /\ a < f => /\ Cst!Start(a) # Cst!Start(f)
                  /\ Cst!End(a) < Cst!Start(f) \/ (Cst!Start(f) <= Cst!Start(a) /\ Cst!End(a) <= Cst!End(f))
      /\ f < a => /\ Cst!Start(a) # Cst!Start(f)
                  /\ Cst!End(f) < Cst!Start(a) \/ (Cst!Start(a) <= Cst!Start(f) /\ Cst!End(f) <= Cst!End(a))
  BY DEF CstInv, Cst!Around, Cst!Start, Cst!End
<1>3. Cst!Inside(a, f) <=> Cst!Start(a) <= Cst!Start(f) /\ Cst!End(f) <= Cst!End(a) /\ a >= f
  BY DEF Cst!Inside, Cst!Around, Cst!Start, Cst!End
<1> QED
  BY <1>1, <1>2, <1>3

LEMMA InsideTransitive ==
    ASSUME CstInv, NEW a \in Cst!Ids, NEW b \in Cst!Ids, NEW f \in Cst!Ids, Cst!Inside(a, b), Cst!Inside(b, f)
    PROVE  Cst!Inside(a, f) /\ (a = f => b = f)
BY InsideIs, CstRow

\* Rows of one time are around each other.
Spans(f) == Cst!Start(f) .. Cst!End(f) - 1

LEMMA InsideLinear ==
    ASSUME CstInv, NEW a \in Cst!Ids, NEW b \in Cst!Ids
    PROVE  /\ Spans(a) \cap Spans(b) # {} => Cst!Inside(a, b) \/ Cst!Inside(b, a)
           /\ \A f \in Cst!Ids : Cst!Inside(a, f) /\ Cst!Inside(b, f) => Cst!Inside(a, b) \/ Cst!Inside(b, a)
           /\ Cst!Inside(a, b) /\ Cst!Inside(b, a) => a = b
           /\ Cst!Inside(a, b) => Spans(b) \subseteq Spans(a)
<1>1. /\ a \in Nat /\ Cst!Start(a) \in Int /\ Cst!End(a) \in Int /\ Cst!Start(a) <= Cst!End(a)
      /\ b \in Nat /\ Cst!Start(b) \in Int /\ Cst!End(b) \in Int /\ Cst!Start(b) <= Cst!End(b)
  BY CstRow
<1>2. Cst!Start(a) = Cst!Start(b) => a = b
  BY <1>1 DEF CstInv
<1>3. ASSUME NEW t \in Spans(a), t \in Spans(b) PROVE Cst!Inside(a, b) \/ Cst!Inside(b, a)
  <2>1. t \in Int /\ Cst!Start(a) <= t /\ t < Cst!End(a) /\ Cst!Start(b) <= t /\ t < Cst!End(b)
    BY <1>1, <1>3 DEF Spans
  <2> QED
    BY <1>1, <1>2, <2>1, InsideIs
<1>4. ASSUME NEW f \in Cst!Ids, Cst!Inside(a, f), Cst!Inside(b, f) PROVE Cst!Inside(a, b) \/ Cst!Inside(b, a)
  <2>1. /\ Cst!Start(a) <= Cst!Start(f) /\ Cst!Start(f) <= Cst!End(a) /\ Cst!Start(f) \in Int
        /\ Cst!Start(b) <= Cst!Start(f) /\ Cst!Start(f) <= Cst!End(b)
    BY <1>1, <1>4, InsideIs, CstRow
  <2> QED
    BY <1>1, <1>2, <2>1, InsideIs
<1>5. Cst!Inside(a, b) /\ Cst!Inside(b, a) => a = b
  BY <1>1, <1>2, InsideIs
<1>6. Cst!Inside(a, b) => Spans(b) \subseteq Spans(a)
  BY <1>1, InsideIs DEF Spans
<1> QED
  BY <1>3, <1>4, <1>5, <1>6

Enclosing(f) == {a \in Cst!Ids : Cst!Inside(a, f)}

LEMMA FinitePart ==
    ASSUME NEW S, IsFiniteSet(S), NEW T \in SUBSET S
    PROVE  /\ IsFiniteSet(T) /\ Cardinality(T) \in Nat /\ Cardinality(S) \in Nat /\ Cardinality(T) <= Cardinality(S)
           /\ \A x \in S : x \notin T => Cardinality(T) < Cardinality(S)
           /\ IsFiniteSet(S \ T) /\ Cardinality(S \ T) = Cardinality(S) - Cardinality(T)
<1>1. IsFiniteSet(T) /\ Cardinality(T) <= Cardinality(S) /\ (Cardinality(S) = Cardinality(T) => S = T)
  BY FS_Subset
<1>2. Cardinality(T) \in Nat /\ Cardinality(S) \in Nat
  BY <1>1, FS_CardinalityType
<1>3. ASSUME NEW x \in S, x \notin T PROVE Cardinality(T) < Cardinality(S)
  <2>1. Cardinality(S) # Cardinality(T)
    BY <1>1, <1>3
  <2> QED
    BY <1>1, <1>2, <2>1
<1>4. IsFiniteSet(S \ T) /\ Cardinality(S \ T) = Cardinality(S) - Cardinality(S \cap T)
  BY <1>1, FS_Difference
<1>5. S \cap T = T
  OBVIOUS
<1> QED
  BY <1>1, <1>2, <1>3, <1>4, <1>5

LEMMA EnclosingSet ==
    ASSUME CstInv, NEW f \in Cst!Ids
    PROVE  /\ Enclosing(f) \in SUBSET Cst!Ids /\ IsFiniteSet(Enclosing(f)) /\ f \in Enclosing(f)
           /\ Cardinality(Enclosing(f)) \in Nat \ {0} /\ Cardinality(Enclosing(f)) <= Len(rocpd_api)
           /\ \A a \in Cst!Ids : Cst!Inside(a, f) => Enclosing(a) \in SUBSET Enclosing(f)
<1>1. Enclosing(f) \in SUBSET Cst!Ids /\ f \in Enclosing(f)
  BY InsideIs DEF Enclosing
<1>2. /\ IsFiniteSet(Enclosing(f)) /\ Cardinality(Enclosing(f)) \in Nat
      /\ Cardinality(Enclosing(f)) <= Len(rocpd_api)
  BY <1>1, FinitePart, CstRow
<1>3. Cardinality(Enclosing(f)) # 0
  BY <1>1, <1>2, FS_EmptySet
<1>4. \A a \in Cst!Ids : Cst!Inside(a, f) => Enclosing(a) \in SUBSET Enclosing(f)
  BY InsideTransitive DEF Enclosing
<1> QED
  BY <1>1, <1>2, <1>3, <1>4

\* The distance of two rows is that of their depths.
LEMMA DistanceIs ==
    ASSUME CstInv, NEW a \in Cst!Ids, NEW f \in Cst!Ids, Cst!Inside(a, f)
    PROVE  /\ Cst!Distance(a, f) = Cardinality(Enclosing(f)) - Cardinality(Enclosing(a))
           /\ Cst!Distance(a, f) \in 0 .. Len(rocpd_api)
           /\ Cst!Distance(a, f) = 0 <=> a = f
<1>1. {b \in Cst!Ids \ {a} : Cst!Inside(a, b) /\ Cst!Inside(b, f)} = Enclosing(f) \ Enclosing(a)
  <2>1. ASSUME NEW b \in Cst!Ids, b # a, Cst!Inside(a, b), Cst!Inside(b, f)
        PROVE  b \in Enclosing(f) \ Enclosing(a)
    BY <2>1, InsideLinear DEF Enclosing
  <2>2. ASSUME NEW b \in Enclosing(f) \ Enclosing(a)
        PROVE  b \in Cst!Ids \ {a} /\ Cst!Inside(a, b) /\ Cst!Inside(b, f)
    <3>1. b \in Cst!Ids /\ Cst!Inside(b, f) /\ ~Cst!Inside(b, a)
      BY DEF Enclosing
    <3>2. Cst!Inside(a, b) /\ b # a
      BY <3>1, InsideLinear, InsideIs
    <3> QED
      BY <3>1, <3>2
  <2> QED
    BY <2>1, <2>2
<1>2. Cst!Distance(a, f) = Cardinality(Enclosing(f) \ Enclosing(a))
  BY <1>1, CstCardinality DEF Cst!Distance
<1>3. /\ Enclosing(a) \in SUBSET Enclosing(f) /\ IsFiniteSet(Enclosing(f))
      /\ Cardinality(Enclosing(f)) \in Nat /\ Cardinality(Enclosing(f)) <= Len(rocpd_api)
      /\ Len(rocpd_api) \in Nat
  BY EnclosingSet, CstRow
<1>4. Cst!Distance(a, f) = Cardinality(Enclosing(f)) - Cardinality(Enclosing(a))
  BY <1>2, <1>3, FinitePart
<1>5. Cardinality(Enclosing(a)) \in Nat /\ Cardinality(Enclosing(a)) <= Cardinality(Enclosing(f))
  BY <1>3, FinitePart
<1>6. ASSUME a # f PROVE Cardinality(Enclosing(a)) < Cardinality(Enclosing(f))
  <2>1. f \in Enclosing(f) /\ f \notin Enclosing(a)
    BY <1>6, EnclosingSet, InsideLinear DEF Enclosing
  <2> QED
    BY <1>3, <2>1, FinitePart
<1> QED
  BY <1>3, <1>4, <1>5, <1>6

\* The innermost row around a row that is not outermost.
LEMMA Innermost ==
    ASSUME CstInv, NEW f \in Cst!Ids, Cardinality(Enclosing(f)) > 1
    PROVE  \E p \in Cst!Ids : /\ p # f /\ Cst!Inside(p, f) /\ Enclosing(p) = Enclosing(f) \ {f}
                              /\ Cardinality(Enclosing(p)) = Cardinality(Enclosing(f)) - 1
<1> DEFINE E == Enclosing(f) \ {f}
           above(a) == Len(rocpd_api) - Cardinality(Enclosing(a))
           T == {above(a) : a \in E}
<1>1. /\ E \in SUBSET Cst!Ids /\ IsFiniteSet(E) /\ Cardinality(E) = Cardinality(Enclosing(f)) - 1
      /\ Cardinality(Enclosing(f)) \in Nat
  <2>1. /\ Enclosing(f) \in SUBSET Cst!Ids /\ IsFiniteSet(Enclosing(f)) /\ f \in Enclosing(f)
        /\ Cardinality(Enclosing(f)) \in Nat
    BY EnclosingSet
  <2> QED
    BY <2>1, FS_RemoveElement
<1>2. E # {}
  BY <1>1, FS_EmptySet
<1>3. T \in SUBSET Nat /\ T # {} /\ \A a \in E : above(a) \in Nat
  BY <1>1, <1>2, EnclosingSet, CstRow
<1>4. PICK p \in E : \A a \in E : above(p) <= above(a)
  <2> HIDE DEF T, above, E
  <2>1. PICK c \in T : \A d \in T : c <= d
    BY <1>3, LeastElement
  <2> QED
    BY <2>1 DEF T
<1>5. p \in Cst!Ids /\ p # f /\ Cst!Inside(p, f)
  BY DEF Enclosing
<1>6. ASSUME NEW a \in E PROVE a \in Enclosing(p)
  <2>1. a \in Cst!Ids /\ Cst!Inside(a, f)
    BY DEF Enclosing
  <2>2. Cst!Inside(a, p) \/ Cst!Inside(p, a)
    BY <1>5, <2>1, InsideLinear
  <2>3. ASSUME Cst!Inside(p, a), a # p PROVE FALSE
    <3>1. Enclosing(p) \in SUBSET Enclosing(a) /\ a \in Enclosing(a) /\ IsFiniteSet(Enclosing(a))
      BY <1>5, <2>1, <2>3, EnclosingSet
    <3>2. a \notin Enclosing(p)
      BY <1>5, <2>1, <2>3, InsideLinear DEF Enclosing
    <3>3. /\ Cardinality(Enclosing(p)) < Cardinality(Enclosing(a))
          /\ Cardinality(Enclosing(p)) \in Nat /\ Cardinality(Enclosing(a)) \in Nat
      BY <3>1, <3>2, FinitePart
    <3> QED
      BY <1>4, <3>3, CstRow
  <2> QED
    BY <1>5, <2>1, <2>2, <2>3, InsideIs DEF Enclosing
<1>7. ASSUME NEW a \in Enclosing(p) PROVE a \in E
  <2>1. a \in Enclosing(f) /\ a \in Cst!Ids /\ Cst!Inside(a, p)
    BY <1>5, EnclosingSet DEF Enclosing
  <2>2. a # f
    BY <1>5, <2>1, InsideLinear
  <2> QED
    BY <2>1, <2>2
<1>8. Enclosing(p) = E
  BY <1>6, <1>7
<1> QED
  BY <1>1, <1>5, <1>8

\* A sum over a finite set, taken one element after the other, is what it comes to.
Weighs(w, S, h) ==
    /\ h \in [S -> Int] /\ w \in [SUBSET S -> Int] /\ w[{}] = 0
    /\ \A s \in SUBSET S : \A x \in s : w[s] = h[x] + w[s \ {x}]
SumsUp(f, S, h) ==
    f[{}] = 0 /\ \A s \in SUBSET S : s # {} => \E x \in s : f[s] = h[x] + f[s \ {x}]

LEMMA SumIs ==
    ASSUME NEW S, IsFiniteSet(S), NEW h, NEW w, Weighs(w, S, h), NEW f, SumsUp(f, S, h)
    PROVE  f[S] = w[S]
<1> DEFINE T == {Cardinality(s) : s \in {s \in SUBSET S : f[s] # w[s]}}
<1>1. SUFFICES ASSUME f[S] # w[S] PROVE FALSE
  OBVIOUS
<1>2. T \in SUBSET Nat /\ T # {}
  <2>1. \A s \in SUBSET S : Cardinality(s) \in Nat
    BY FinitePart
  <2> QED
    BY <1>1, <2>1
<1>0. /\ h \in [S -> Int] /\ w \in [SUBSET S -> Int] /\ w[{}] = 0
      /\ \A s \in SUBSET S : \A x \in s : w[s] = h[x] + w[s \ {x}]
      /\ f[{}] = 0 /\ \A s \in SUBSET S : s # {} => \E x \in s : f[s] = h[x] + f[s \ {x}]
  BY DEF Weighs, SumsUp
<1>3. PICK s \in SUBSET S : f[s] # w[s] /\ \A r \in SUBSET S : f[r] # w[r] => Cardinality(s) <= Cardinality(r)
  <2> HIDE DEF T
  <2>1. PICK c \in T : \A d \in T : c <= d
    BY <1>2, LeastElement
  <2> QED
    BY <2>1 DEF T
<1>4. s # {}
  BY <1>0, <1>3
<1>5. PICK x \in s : f[s] = h[x] + f[s \ {x}]
  BY <1>0, <1>4
<1>6. s \ {x} \in SUBSET s /\ x \notin s \ {x} /\ IsFiniteSet(s)
  BY FinitePart
<1>7. /\ Cardinality(s \ {x}) < Cardinality(s)
      /\ Cardinality(s \ {x}) \in Nat /\ Cardinality(s) \in Nat
  BY <1>6, FinitePart
<1>8. f[s \ {x}] = w[s \ {x}]
  BY <1>3, <1>7
<1> QED
  BY <1>0, <1>3, <1>5, <1>8

LEMMA ImageCount ==
    ASSUME NEW A, IsFiniteSet(A), NEW g, DOMAIN g = A, \A a \in A : \A b \in A : g[a] = g[b] => a = b
    PROVE  IsFiniteSet({g[a] : a \in A}) /\ Cardinality({g[a] : a \in A}) = Cardinality(A)
<1> DEFINE S == {g[a] : a \in A}
<1>1. g \in [A -> S] \/ g # [a \in A |-> g[a]]
  OBVIOUS
<1>2. PICK f : f = [a \in A |-> g[a]]
  OBVIOUS
<1>3. f \in [A -> S] /\ \A a \in A : f[a] = g[a]
  BY <1>2
<1>4. \A m \in S : \E a \in A : f[a] = m
  BY <1>3
<1> HIDE DEF S
<1>5. f \in Surjection(A, S)
  BY <1>3, <1>4 DEF Surjection
<1>6. f \in Injection(A, S)
  BY <1>3 DEF Injection, IsInjective
<1>7. IsFiniteSet(S) /\ Cardinality(S) = Cardinality(A)
  BY <1>5, <1>6, FS_Surjection
<1> QED
  BY <1>7 DEF S

-----------------------------------------------------------------------------
(* Starts and ends *)

Opening(f) == Cst!Event(f, Cst!Start(f), 1)
Closing(f) == Cst!Event(f, Cst!End(f), -1)
Opens(T)  == {e \in T : e.evt = 1}
Closes(T) == {e \in T : e.evt = -1}

LEMMA EventIs ==
    /\ \A e \in Cst!EventSet : \E f \in Cst!Ids : e = Opening(f) \/ e = Closing(f)
    /\ \A f \in Cst!Ids : Opening(f) \in Cst!EventSet /\ Closing(f) \in Cst!EventSet
    /\ \A f : /\ Opening(f).id = f /\ Opening(f).ts = Cst!Start(f) /\ Opening(f).evt = 1
              /\ Closing(f).id = f /\ Closing(f).ts = Cst!End(f) /\ Closing(f).evt = -1
BY DEF Cst!EventSet, Opening, Closing, Cst!Event

\* The running sum of evt.
LEMMA EvtSum ==
    ASSUME NEW T, IsFiniteSet(T), \A e \in T : e.evt \in {1, -1},
           NEW f, f = CHOOSE iter : iter = [s \in SUBSET T |->
                          IF s = {} THEN 0 ELSE LET x == CHOOSE y \in s : TRUE IN x.evt + iter[s \ {x}]]
    PROVE  f[T] = Cardinality(Opens(T)) - Cardinality(Closes(T))
<1> DEFINE w == [s \in SUBSET T |-> Cardinality(Opens(s)) - Cardinality(Closes(s))]
           h == [e \in T |-> e.evt]
<1>1. ASSUME NEW s \in SUBSET T
      PROVE  /\ IsFiniteSet(s) /\ Opens(s) \in SUBSET s /\ Closes(s) \in SUBSET s
             /\ IsFiniteSet(Opens(s)) /\ IsFiniteSet(Closes(s))
             /\ Cardinality(Opens(s)) \in Nat /\ Cardinality(Closes(s)) \in Nat
  <2>1. IsFiniteSet(s) /\ Opens(s) \in SUBSET s /\ Closes(s) \in SUBSET s
    BY FinitePart DEF Opens, Closes
  <2> QED
    BY <2>1, FinitePart
<1>2. w \in [SUBSET T -> Int] /\ h \in [T -> Int]
  BY <1>1
<1>5. /\ DOMAIN w = SUBSET T /\ w = [s \in SUBSET T |-> w[s]]
      /\ \A s \in SUBSET T : w[s] = Cardinality(Opens(s)) - Cardinality(Closes(s))
  OBVIOUS
<1>6. \A x \in T : h[x] = x.evt
  OBVIOUS
<1> HIDE DEF w, h
<1>3. w[{}] = 0
  <2>1. Opens({}) = {} /\ Closes({}) = {}
    BY DEF Opens, Closes
  <2>2. Cardinality(Opens({})) = 0 /\ Cardinality(Closes({})) = 0
    BY <2>1, FS_EmptySet
  <2>3. w[{}] = Cardinality(Opens({})) - Cardinality(Closes({}))
    BY <1>5
  <2> QED
    BY <2>2, <2>3
<1>4. ASSUME NEW s \in SUBSET T, NEW x \in s PROVE w[s] = x.evt + w[s \ {x}]
  <2>1. s \ {x} \in SUBSET T /\ x.evt \in {1, -1}
    OBVIOUS
  <2>4. /\ w[s] = Cardinality(Opens(s)) - Cardinality(Closes(s))
        /\ w[s \ {x}] = Cardinality(Opens(s \ {x})) - Cardinality(Closes(s \ {x}))
    BY <1>5, <2>1
  <2>5. /\ IsFiniteSet(Opens(s \ {x})) /\ Cardinality(Opens(s \ {x})) \in Nat
        /\ IsFiniteSet(Closes(s \ {x})) /\ Cardinality(Closes(s \ {x})) \in Nat
    BY <1>1, <2>1
  <2>2. CASE x.evt = 1
    <3>1. Opens(s) = Opens(s \ {x}) \cup {x} /\ x \notin Opens(s \ {x}) /\ Closes(s \ {x}) = Closes(s)
      BY <2>2 DEF Opens, Closes
    <3>2. Cardinality(Opens(s)) = Cardinality(Opens(s \ {x})) + 1
      BY <2>5, <3>1, FS_AddElement
    <3>3. Cardinality(Closes(s)) = Cardinality(Closes(s \ {x}))
      BY <3>1
    <3> QED
      BY <2>2, <2>4, <2>5, <3>2, <3>3
  <2>3. CASE x.evt = -1
    <3>1. Closes(s) = Closes(s \ {x}) \cup {x} /\ x \notin Closes(s \ {x}) /\ Opens(s \ {x}) = Opens(s)
      BY <2>3 DEF Opens, Closes
    <3>2. Cardinality(Closes(s)) = Cardinality(Closes(s \ {x})) + 1
      BY <2>5, <3>1, FS_AddElement
    <3>3. Cardinality(Opens(s)) = Cardinality(Opens(s \ {x}))
      BY <3>1
    <3> QED
      BY <2>3, <2>4, <2>5, <3>2, <3>3
  <2> QED
    BY <2>1, <2>2, <2>3
<1> DEFINE Q(g) == g = [s \in SUBSET T |-> IF s = {} THEN 0 ELSE LET x == CHOOSE y \in s : TRUE IN x.evt + g[s \ {x}]]
<1>7. Q(w)
  <2>1. \A s \in SUBSET T : w[s] = IF s = {} THEN 0 ELSE LET x == CHOOSE y \in s : TRUE IN x.evt + w[s \ {x}]
    BY <1>3, <1>4
  <2> QED
    BY <1>5, <2>1
<1>8. Q(f)
  <2>1. f = CHOOSE g : Q(g)
    BY Zenon
  <2> HIDE DEF Q
  <2> QED
    BY <1>7, <2>1, Zenon
<1>9. f[{}] = 0
  BY <1>8
<1>10. ASSUME NEW s \in SUBSET T, s # {} PROVE \E x \in s : f[s] = h[x] + f[s \ {x}]
  <2>1. PICK x : x = CHOOSE y \in s : TRUE
    OBVIOUS
  <2>2. x \in s
    BY <1>10, <2>1
  <2>3. f[s] = x.evt + f[s \ {x}]
    BY <1>8, <1>10, <2>1
  <2> QED
    BY <1>6, <2>2, <2>3
<1>11. \A s \in SUBSET T : \A x \in s : w[s] = h[x] + w[s \ {x}]
  BY <1>4, <1>6
<1> HIDE DEF Q
<1>12. f[T] = w[T]
  <2>1. \A s \in SUBSET T : s # {} => \E x \in s : f[s] = h[x] + f[s \ {x}]
    BY <1>10
  <2>2. SumsUp(f, T, h)
    BY <1>9, <2>1 DEF SumsUp
  <2>3. Weighs(w, T, h)
    BY <1>2, <1>3, <1>11 DEF Weighs
  <2> QED
    BY <2>2, <2>3, SumIs
<1> QED
  BY <1>5, <1>12

\* slim_tree has the rows that others are around.
LEMMA DepthIs ==
    ASSUME CstInv, NEW f \in Cst!Ids PROVE Cst!Depth(f) = Cardinality(Enclosing(f))
<1> DEFINE T == {e \in Cst!EventSet : e = Opening(f) \/ Cst!Precedes(e, Opening(f))}
           A == {a \in Cst!Ids : Cst!Start(a) <= Cst!Start(f)}
           B == {b \in Cst!Ids : Cst!End(b) < Cst!Start(f)}
           sum == CHOOSE iter : iter = [s \in SUBSET T |->
                          IF s = {} THEN 0 ELSE LET x == CHOOSE y \in s : TRUE IN x.evt + iter[s \ {x}]]
<1>1. Cst!Depth(f) = sum[T]
  BY Zenon DEF Cst!Depth, Cst!MapThenSumSet, Cst!MapThenFoldSet, Opening
<1>2. /\ A \in SUBSET Cst!Ids /\ B \in SUBSET A /\ A \ B = Enclosing(f)
  <2>1. \A a \in Cst!Ids : Cst!End(a) < Cst!Start(f) => Cst!Start(a) <= Cst!Start(f)
    BY CstRow
  <2>2. ASSUME NEW a \in Cst!Ids
        PROVE  Cst!Inside(a, f) <=> Cst!Start(a) <= Cst!Start(f) /\ ~(Cst!End(a) < Cst!Start(f))
    <3>1. Cst!Start(a) = Cst!Start(f) => a = f
      BY CstRow DEF CstInv
    <3> QED
      BY <3>1, InsideIs, CstRow
  <2> QED
    BY <2>1, <2>2 DEF Enclosing
<1>3. ASSUME NEW a \in Cst!Ids
      PROVE  /\ Opening(a) \in T <=> a \in A
             /\ Closing(a) \in T <=> a \in B
  <2>1. /\ a \in Nat /\ f \in Nat /\ Cst!Start(a) \in Int /\ Cst!Start(f) \in Int /\ Cst!End(a) \in Int
        /\ Cst!Start(a) = Cst!Start(f) => a = f
    BY CstRow DEF CstInv
  <2>2. Cst!Precedes(Opening(a), Opening(f)) <=>
          Cst!Start(a) < Cst!Start(f) \/ (Cst!Start(a) = Cst!Start(f) /\ a < f)
    BY <2>1, EventIs DEF Cst!Precedes
  <2>3. Cst!Precedes(Closing(a), Opening(f)) <=> Cst!End(a) < Cst!Start(f)
    BY <2>1, EventIs DEF Cst!Precedes
  <2>4. Closing(a) # Opening(f) /\ (Opening(a) = Opening(f) <=> a = f)
    <3>1. Closing(a).evt # Opening(f).evt
      BY EventIs
    <3>2. Opening(a) = Opening(f) => a = f
      BY EventIs
    <3> QED
      BY <3>1, <3>2
  <2>5. Opening(a) \in Cst!EventSet /\ Closing(a) \in Cst!EventSet
    BY EventIs
  <2>6. Opening(a) \in T <=> a \in A
    BY <2>1, <2>2, <2>4, <2>5
  <2>7. Closing(a) \in T <=> a \in B
    BY <2>3, <2>4, <2>5
  <2> QED
    BY <2>6, <2>7
<1>4. Opens(T) = {Opening(a) : a \in A} /\ Closes(T) = {Closing(b) : b \in B}
  <2>1. \A e \in T : e \in Cst!EventSet
    OBVIOUS
  <2>2. A \in SUBSET Cst!Ids /\ B \in SUBSET Cst!Ids
    OBVIOUS
  <2> HIDE DEF T, A, B
  <2>3. ASSUME NEW e \in Opens(T) PROVE e \in {Opening(a) : a \in A}
    <3>1. PICK a \in Cst!Ids : e = Opening(a) \/ e = Closing(a)
      BY <2>1, EventIs DEF Opens
    <3>2. e = Opening(a)
      BY <3>1, EventIs DEF Opens
    <3> QED
      BY <1>3, <3>2 DEF Opens
  <2>4. ASSUME NEW e \in Closes(T) PROVE e \in {Closing(b) : b \in B}
    <3>1. PICK a \in Cst!Ids : e = Opening(a) \/ e = Closing(a)
      BY <2>1, EventIs DEF Closes
    <3>2. e = Closing(a)
      BY <3>1, EventIs DEF Closes
    <3> QED
      BY <1>3, <3>2 DEF Closes
  <2>5. (\A a \in A : Opening(a) \in Opens(T)) /\ (\A b \in B : Closing(b) \in Closes(T))
    BY <1>3, <2>2, EventIs DEF Opens, Closes
  <2> QED
    BY <2>3, <2>4, <2>5
<1>5. \A e \in T : e.evt \in {1, -1}
  BY EventIs
<1>6. /\ IsFiniteSet(A) /\ IsFiniteSet(B) /\ Cardinality(A) \in Nat /\ Cardinality(B) \in Nat
      /\ Cardinality(A \ B) = Cardinality(A) - Cardinality(B)
  BY <1>2, CstRow, FinitePart
<1> HIDE DEF A, B, T
<1>7. IsFiniteSet(Opens(T)) /\ Cardinality(Opens(T)) = Cardinality(A)
  <2> DEFINE g == [a \in A |-> Opening(a)]
  <2>1. DOMAIN g = A /\ {Opening(a) : a \in A} = {g[a] : a \in A} /\ \A a \in A : g[a] = Opening(a)
    OBVIOUS
  <2> HIDE DEF g
  <2>2. \A a \in A : \A b \in A : g[a] = g[b] => a = b
    BY <2>1, EventIs
  <2> QED
    BY <1>4, <1>6, <2>1, <2>2, ImageCount
<1>8. IsFiniteSet(Closes(T)) /\ Cardinality(Closes(T)) = Cardinality(B)
  <2> DEFINE g == [a \in B |-> Closing(a)]
  <2>1. DOMAIN g = B /\ {Closing(a) : a \in B} = {g[a] : a \in B} /\ \A a \in B : g[a] = Closing(a)
    OBVIOUS
  <2> HIDE DEF g
  <2>2. \A a \in B : \A b \in B : g[a] = g[b] => a = b
    BY <2>1, EventIs
  <2> QED
    BY <1>4, <1>6, <2>1, <2>2, ImageCount
<1>9. IsFiniteSet(T)
  <2>1. T = Opens(T) \cup Closes(T)
    BY <1>5 DEF Opens, Closes
  <2> QED
    BY <1>7, <1>8, <2>1, FS_Union
<1>10. sum[T] = Cardinality(Opens(T)) - Cardinality(Closes(T))
  BY <1>5, <1>9, EvtSum
<1> QED
  BY <1>1, <1>2, <1>6, <1>7, <1>8, <1>10

-----------------------------------------------------------------------------
(* The join *)

Deep(f) == Cardinality(Enclosing(f)) > 1

LEMMA SlimTree == ASSUME CstInv PROVE Cst!slim_tree = {f \in Cst!Ids : Deep(f)}
BY DepthIs DEF Cst!slim_tree, Deep

\* The parent that the query finds is the innermost row around a row.
LEMMA ParentIs ==
    ASSUME CstInv, NEW f \in Cst!Ids, Deep(f)
    PROVE  /\ Cst!Parent(f) \in Cst!Ids /\ Cst!Parent(f) # f /\ Cst!Inside(Cst!Parent(f), f)
           /\ Enclosing(Cst!Parent(f)) = Enclosing(f) \ {f}
           /\ Cardinality(Enclosing(Cst!Parent(f))) = Cardinality(Enclosing(f)) - 1
<1> DEFINE cand == {p \in Cst!Ids : Cst!Depth(p) = Cst!Depth(f) - 1 /\ Cst!Around(rocpd_api[p], rocpd_api[f])}
<1>1. PICK p0 \in Cst!Ids : /\ p0 # f /\ Cst!Inside(p0, f) /\ Enclosing(p0) = Enclosing(f) \ {f}
                            /\ Cardinality(Enclosing(p0)) = Cardinality(Enclosing(f)) - 1
  BY Innermost DEF Deep
<1>2. p0 \in cand
  BY <1>1, DepthIs DEF Cst!Inside
<1>3. ASSUME NEW p \in cand, p # p0 PROVE FALSE
  <2>1. /\ p \in Cst!Ids /\ Cardinality(Enclosing(p)) = Cardinality(Enclosing(f)) - 1
        /\ Cst!Start(p) <= Cst!Start(f) /\ Cst!End(f) <= Cst!End(p)
    BY DepthIs DEF Cst!Around, Cst!Start, Cst!End
  <2>2. p # f
    BY <2>1, EnclosingSet
  <2>3. Cst!Start(p) # Cst!Start(f)
    BY <2>1, <2>2, CstRow DEF CstInv
  <2>4. Cst!Inside(p, f)
    BY <2>1, <2>3, InsideIs, CstRow
  <2>5. Cst!Inside(p, p0)
    BY <1>1, <2>1, <2>2, <2>4 DEF Enclosing
  <2>6. /\ Enclosing(p) \in SUBSET Enclosing(p0) /\ p0 \in Enclosing(p0) /\ IsFiniteSet(Enclosing(p0))
        /\ Cardinality(Enclosing(p0)) \in Nat
    BY <1>1, <2>1, <2>5, EnclosingSet
  <2>7. p0 \notin Enclosing(p)
    BY <1>1, <1>3, <2>1, <2>5, InsideLinear DEF Enclosing
  <2>8. Cardinality(Enclosing(p)) < Cardinality(Enclosing(p0))
    BY <2>6, <2>7, FinitePart
  <2> QED
    BY <1>1, <2>1, <2>6, <2>8
<1>4. cand = {p0}
  BY <1>2, <1>3
<1>5. Cst!Parent(f) = CHOOSE p \in cand : \A q \in cand : Cst!Start(q) <= Cst!Start(p)
  BY <1>2 DEF Cst!Parent
<1> HIDE DEF cand
<1>6. \A q \in cand : Cst!Start(q) <= Cst!Start(p0)
  BY <1>1, <1>4, CstRow
<1>7. Cst!Parent(f) \in cand
  BY <1>2, <1>5, <1>6
<1>8. Cst!Parent(f) = p0
  BY <1>4, <1>7
<1> QED
  BY <1>1, <1>8

\* Between a row and one inside it there is a child of the one around the other.
LEMMA ChildOf ==
    ASSUME CstInv, NEW f \in Cst!Ids, NEW g \in Cst!Ids, Cst!Inside(f, g), f # g
    PROVE  \E c \in Cst!Ids : Deep(c) /\ Cst!Parent(c) = f /\ Cst!Inside(c, g)
<1> DEFINE C == {c \in Cst!Ids : c # f /\ Cst!Inside(f, c) /\ Cst!Inside(c, g)}
           T == {Cardinality(Enclosing(c)) : c \in C}
<1>1. g \in C
  BY InsideIs
<1>2. T \in SUBSET Nat /\ T # {} /\ \A c \in C : Cardinality(Enclosing(c)) \in Nat
  BY <1>1, EnclosingSet
<1>3. PICK c \in C : \A d \in C : Cardinality(Enclosing(c)) <= Cardinality(Enclosing(d))
  <2> HIDE DEF T, C
  <2>1. PICK n \in T : \A d \in T : n <= d
    BY <1>2, LeastElement
  <2> QED
    BY <2>1 DEF T
<1>4. c \in Cst!Ids /\ c # f /\ Cst!Inside(f, c) /\ Cst!Inside(c, g) /\ Cardinality(Enclosing(c)) \in Nat
  BY <1>2
<1>5. Deep(c)
  <2>1. f \in Enclosing(c) /\ Enclosing(f) \in SUBSET Enclosing(c) /\ IsFiniteSet(Enclosing(c)) /\ c \in Enclosing(c)
    BY <1>4, EnclosingSet DEF Enclosing
  <2>2. c \notin Enclosing(f)
    BY <1>4, InsideLinear DEF Enclosing
  <2>3. Cardinality(Enclosing(f)) < Cardinality(Enclosing(c)) /\ Cardinality(Enclosing(f)) \in Nat \ {0}
    BY <2>1, <2>2, FinitePart, EnclosingSet
  <2> QED
    BY <1>4, <2>3 DEF Deep
<1> DEFINE p == Cst!Parent(c)
<1>6. /\ p \in Cst!Ids /\ p # c /\ Cst!Inside(p, c) /\ Enclosing(p) = Enclosing(c) \ {c}
      /\ Cardinality(Enclosing(p)) = Cardinality(Enclosing(c)) - 1
  BY <1>4, <1>5, ParentIs
<1> HIDE DEF p
<1>7. f \in Enclosing(p)
  BY <1>4, <1>6 DEF Enclosing
<1>8. ASSUME p # f PROVE FALSE
  <2>1. Cst!Inside(f, p) /\ Cst!Inside(p, g)
    BY <1>4, <1>6, <1>7, InsideTransitive DEF Enclosing
  <2>2. p \in C
    BY <1>6, <1>8, <2>1
  <2> QED
    BY <1>3, <1>4, <1>6, <2>2
<1> QED
  BY <1>4, <1>5, <1>8 DEF p

-----------------------------------------------------------------------------
(* The time that a row spends outside the rows inside it *)

\* What the rows inside a, of those in D, cover of it.
Covered(a, D) == {t \in Spans(a) : \E c \in D : c # a /\ Cst!Inside(a, c) /\ t \in Spans(c)}
Own(f) == {t \in Spans(f) : \A c \in Cst!Ids \ {f} : Cst!Inside(f, c) => t \notin Spans(c)}

LEMMA SpansFinite ==
    ASSUME CstInv, NEW f \in Cst!Ids
    PROVE  /\ IsFiniteSet(Spans(f)) /\ Cardinality(Spans(f)) = Cst!End(f) - Cst!Start(f)
           /\ Cst!Inclusive(f) = Cardinality(Spans(f)) /\ Cst!Inclusive(f) \in Nat
<1>1. Cst!Start(f) \in Int /\ Cst!End(f) \in Int /\ Cst!Start(f) <= Cst!End(f)
  BY CstRow
<1>2. Cst!End(f) - 1 \in Int
  BY <1>1
<1>3. IsFiniteSet(Spans(f)) /\ Cardinality(Spans(f)) = IF Cst!Start(f) > Cst!End(f) - 1 THEN 0 ELSE (Cst!End(f) - 1) - Cst!Start(f) + 1
  BY <1>1, <1>2, FS_Interval DEF Spans
<1> QED
  BY <1>1, <1>3 DEF Cst!Inclusive

LEMMA OwnIs ==
    ASSUME CstInv, NEW f \in Cst!Ids
    PROVE  /\ Cst!OwnTime(f) = Cardinality(Own(f)) /\ Own(f) \in SUBSET Spans(f)
           /\ Cst!OwnTime(f) = Cst!Inclusive(f) - Cardinality(Covered(f, Cst!Ids)) /\ Cst!OwnTime(f) \in Nat
<1>1. Cst!OwnTime(f) = Cardinality(Own(f))
  BY CstCardinality, Zenon DEF Cst!OwnTime, Own, Spans
<1>2. Own(f) \in SUBSET Spans(f) /\ Covered(f, Cst!Ids) \in SUBSET Spans(f)
  BY DEF Own, Covered
<1>3. Own(f) = Spans(f) \ Covered(f, Cst!Ids)
  BY DEF Own, Covered
<1> QED
  BY <1>1, <1>2, <1>3, SpansFinite, FinitePart

Children(f) == {c \in Cst!Ids : Deep(c) /\ Cst!Parent(c) = f}
Union(s) == {t \in Int : \E c \in s : t \in Spans(c)}

LEMMA ChildrenApart ==
    ASSUME CstInv, NEW f \in Cst!Ids
    PROVE  /\ \A c \in Children(f) : \A d \in Children(f) : c # d => Spans(c) \cap Spans(d) = {}
           /\ Union(Children(f)) = Covered(f, Cst!Ids)
<1>1. ASSUME NEW c \in Children(f), NEW d \in Children(f), c # d, Cst!Inside(c, d) PROVE FALSE
  <2>1. /\ c \in Cst!Ids /\ d \in Cst!Ids /\ f # c /\ Cst!Inside(f, c) /\ Enclosing(f) = Enclosing(d) \ {d}
    BY ParentIs DEF Children
  <2>2. Cst!Inside(c, f)
    BY <1>1, <2>1 DEF Enclosing
  <2> QED
    BY <2>1, <2>2, InsideLinear
<1>2. ASSUME NEW c \in Children(f), NEW d \in Children(f), c # d PROVE Spans(c) \cap Spans(d) = {}
  <2>1. c \in Cst!Ids /\ d \in Cst!Ids
    BY DEF Children
  <2> QED
    BY <1>1, <1>2, <2>1, InsideLinear
<1>3. ASSUME NEW t \in Union(Children(f)) PROVE t \in Covered(f, Cst!Ids)
  <2>1. PICK c \in Children(f) : t \in Spans(c)
    BY DEF Union
  <2>2. c \in Cst!Ids /\ c # f /\ Cst!Inside(f, c)
    BY ParentIs DEF Children
  <2>3. t \in Spans(f)
    BY <2>1, <2>2, InsideLinear
  <2> QED
    BY <2>1, <2>2, <2>3 DEF Covered
<1>4. ASSUME NEW t \in Covered(f, Cst!Ids) PROVE t \in Union(Children(f))
  <2>1. PICK g \in Cst!Ids : g # f /\ Cst!Inside(f, g) /\ t \in Spans(g)
    BY DEF Covered
  <2>2. PICK c \in Cst!Ids : Deep(c) /\ Cst!Parent(c) = f /\ Cst!Inside(c, g)
    BY <2>1, ChildOf
  <2>3. t \in Spans(c) /\ t \in Int
    BY <2>1, <2>2, InsideLinear, CstRow DEF Spans
  <2> QED
    BY <2>2, <2>3 DEF Union, Children
<1> QED
  BY <1>2, <1>3, <1>4

\* The time of rows that are apart is what they cover together.
LEMMA InclusiveSum ==
    ASSUME CstInv, NEW S \in SUBSET Cst!Ids,
           \A c \in S : \A d \in S : c # d => Spans(c) \cap Spans(d) = {},
           NEW f, f = CHOOSE iter : iter = [s \in SUBSET S |->
                          IF s = {} THEN 0 ELSE LET x == CHOOSE y \in s : TRUE IN Cst!Inclusive(x) + iter[s \ {x}]]
    PROVE  f[S] = Cardinality(Union(S))
<1> DEFINE w == [s \in SUBSET S |-> Cardinality(Union(s))]
           h == [c \in S |-> Cst!Inclusive(c)]
<1>0. IsFiniteSet(S)
  BY CstRow, FS_Subset
<1>1. ASSUME NEW s \in SUBSET S, NEW x \in s
      PROVE  Union(s) = Union(s \ {x}) \cup Spans(x) /\ Union(s \ {x}) \cap Spans(x) = {}
  <2>1. Spans(x) \in SUBSET Int
    BY CstRow DEF Spans
  <2> QED
    BY <2>1 DEF Union
<1> DEFINE Z == {s \in SUBSET S : IsFiniteSet(Union(s))}
<1>2. \A s \in SUBSET S : IsFiniteSet(Union(s)) /\ Cardinality(Union(s)) \in Nat
  <2> DEFINE sizes == {Cardinality(s) : s \in (SUBSET S) \ Z}
  <2>2. SUFFICES ASSUME (SUBSET S) \ Z # {} PROVE FALSE
    BY FS_CardinalityType
  <2>3. sizes \in SUBSET Nat /\ sizes # {}
    <3>1. \A s \in SUBSET S : Cardinality(s) \in Nat
      BY <1>0, FinitePart
    <3> QED
      BY <2>2, <3>1
  <2>4. PICK s \in (SUBSET S) \ Z : \A r \in (SUBSET S) \ Z : Cardinality(s) <= Cardinality(r)
    <3> HIDE DEF sizes, Z
    <3>1. PICK c \in sizes : \A d \in sizes : c <= d
      BY <2>3, LeastElement
    <3> QED
      BY <3>1 DEF sizes
  <2>5. CASE s = {}
    <3>1. Union(s) = {}
      BY <2>5 DEF Union
    <3> QED
      BY <2>4, <3>1, FS_EmptySet
  <2>6. CASE s # {}
    <3>1. PICK x \in s : TRUE
      BY <2>6
    <3>2. IsFiniteSet(s) /\ s \ {x} \in SUBSET s /\ x \notin s \ {x}
      BY <1>0, FinitePart
    <3>3. Cardinality(s \ {x}) < Cardinality(s) /\ Cardinality(s) \in Nat /\ Cardinality(s \ {x}) \in Nat
      BY <3>2, FinitePart
    <3>4. IsFiniteSet(Union(s \ {x}))
      BY <2>4, <3>3
    <3>5. IsFiniteSet(Union(s))
      <4>1. IsFiniteSet(Spans(x)) /\ Union(s) = Union(s \ {x}) \cup Spans(x)
        <5>1. s \in SUBSET S /\ x \in Cst!Ids
          OBVIOUS
        <5>2. IsFiniteSet(Spans(x))
          BY <5>1, SpansFinite
        <5> QED
          BY <1>1, <5>1, <5>2
      <4>2. IsFiniteSet(Union(s \ {x}) \cup Spans(x))
        BY <3>4, <4>1, FS_Union
      <4> QED
        BY <4>1, <4>2
    <3> QED
      BY <2>4, <3>5
  <2> QED
    BY <2>5, <2>6
<1> HIDE DEF Z
<1>3. w \in [SUBSET S -> Int] /\ h \in [S -> Int]
  BY <1>2, SpansFinite
<1>4. /\ w = [s \in SUBSET S |-> w[s]] /\ \A s \in SUBSET S : w[s] = Cardinality(Union(s))
      /\ \A c \in S : h[c] = Cst!Inclusive(c)
  OBVIOUS
<1> HIDE DEF w, h
<1>5. w[{}] = 0
  <2>1. Union({}) = {}
    BY DEF Union
  <2> QED
    BY <1>4, <2>1, FS_EmptySet
<1>6. ASSUME NEW s \in SUBSET S, NEW x \in s PROVE w[s] = Cst!Inclusive(x) + w[s \ {x}]
  <2>1. /\ IsFiniteSet(Union(s \ {x})) /\ Cardinality(Union(s \ {x})) \in Nat
        /\ IsFiniteSet(Spans(x)) /\ Cardinality(Spans(x)) = Cst!Inclusive(x) /\ Cst!Inclusive(x) \in Nat
    BY <1>2, SpansFinite
  <2>2. Cardinality(Union(s)) = Cardinality(Union(s \ {x})) + Cst!Inclusive(x)
    <3>1. Cardinality(Union(s)) = Cardinality(Union(s \ {x})) + Cardinality(Spans(x)) - Cardinality(Union(s \ {x}) \cap Spans(x))
      BY <1>1, <2>1, FS_Union
    <3>2. Cardinality(Union(s \ {x}) \cap Spans(x)) = 0
      BY <1>1, FS_EmptySet
    <3> QED
      BY <2>1, <3>1, <3>2
  <2> QED
    <3>1. s \ {x} \in SUBSET S
      OBVIOUS
    <3>2. w[s] = Cardinality(Union(s)) /\ w[s \ {x}] = Cardinality(Union(s \ {x}))
      BY <1>4, <3>1
    <3> QED
      BY <2>1, <2>2, <3>2
<1> DEFINE Q(g) == g = [s \in SUBSET S |-> IF s = {} THEN 0 ELSE LET x == CHOOSE y \in s : TRUE IN Cst!Inclusive(x) + g[s \ {x}]]
<1>7. Q(w)
  <2>1. \A s \in SUBSET S : w[s] = IF s = {} THEN 0 ELSE LET x == CHOOSE y \in s : TRUE IN Cst!Inclusive(x) + w[s \ {x}]
    BY <1>5, <1>6
  <2> QED
    BY <1>4, <2>1
<1>8. Q(f)
  <2>1. f = CHOOSE g : Q(g)
    BY Zenon
  <2> HIDE DEF Q
  <2> QED
    BY <1>7, <2>1, Zenon
<1>9. f[{}] = 0
  BY <1>8
<1>10. ASSUME NEW s \in SUBSET S, s # {} PROVE \E x \in s : f[s] = h[x] + f[s \ {x}]
  <2>1. PICK x : x = CHOOSE y \in s : TRUE
    OBVIOUS
  <2>2. x \in s
    BY <1>10, <2>1
  <2>3. f[s] = Cst!Inclusive(x) + f[s \ {x}]
    BY <1>8, <1>10, <2>1
  <2> QED
    BY <1>4, <2>2, <2>3
<1> HIDE DEF Q
<1>11. f[S] = w[S]
  <2>1. SumsUp(f, S, h)
    BY <1>9, <1>10 DEF SumsUp
  <2>2. \A s \in SUBSET S : \A x \in s : w[s] = h[x] + w[s \ {x}]
    BY <1>4, <1>6
  <2>3. Weighs(w, S, h)
    BY <1>3, <1>5, <2>2 DEF Weighs
  <2> QED
    BY <1>0, <2>1, <2>3, SumIs
<1> QED
  BY <1>4, <1>11

\* child_agg and slim_exclusive
LEMMA ExclusiveIs ==
    ASSUME CstInv, NEW f \in Cst!Ids PROVE Cst!Exclusive(f) = Cst!OwnTime(f)
<1> DEFINE S == {c \in Cst!slim_tree : Cst!Parent(c) = f}
           sum == CHOOSE iter : iter = [s \in SUBSET S |->
                          IF s = {} THEN 0 ELSE LET x == CHOOSE y \in s : TRUE IN Cst!Inclusive(x) + iter[s \ {x}]]
<1>1. Cst!Exclusive(f) = Cst!Inclusive(f) - sum[S]
  BY Zenon DEF Cst!Exclusive, Cst!MapThenSumSet, Cst!MapThenFoldSet
<1>2. S = Children(f)
  BY SlimTree DEF Children
<1>3. S \in SUBSET Cst!Ids
  BY SlimTree
<1> HIDE DEF S
<1>4. sum[S] = Cardinality(Union(S))
  <2>1. \A c \in S : \A d \in S : c # d => Spans(c) \cap Spans(d) = {}
    BY <1>2, ChildrenApart
  <2> QED
    BY <1>3, <2>1, InclusiveSum
<1>5. Union(S) = Covered(f, Cst!Ids)
  BY <1>2, ChildrenApart
<1> QED
  BY <1>1, <1>4, <1>5, OwnIs

-----------------------------------------------------------------------------
(* The recursive table *)

RowOf(a, f) == [parent |-> a, child |-> f, depth |-> Cst!Distance(a, f), cpu |-> Cst!OwnTime(f)]
AtDistance(n) == {r \in {RowOf(p[1], p[2]) : p \in {p \in Cst!Ids \X Cst!Ids : Cst!Inside(p[1], p[2])}} : r.depth = n}

LEMMA RowOfIs ==
    ASSUME NEW a, NEW f
    PROVE  /\ RowOf(a, f).parent = a /\ RowOf(a, f).child = f
           /\ RowOf(a, f).depth = Cst!Distance(a, f) /\ RowOf(a, f).cpu = Cst!OwnTime(f)
BY DEF RowOf

LEMMA AtDistanceIs ==
    ASSUME NEW n, NEW r
    PROVE  r \in AtDistance(n) <=> \E a \in Cst!Ids, f \in Cst!Ids :
              r = RowOf(a, f) /\ Cst!Inside(a, f) /\ Cst!Distance(a, f) = n
<1>1. ASSUME r \in AtDistance(n)
      PROVE  \E a \in Cst!Ids, f \in Cst!Ids : r = RowOf(a, f) /\ Cst!Inside(a, f) /\ Cst!Distance(a, f) = n
  <2>1. PICK p \in Cst!Ids \X Cst!Ids : Cst!Inside(p[1], p[2]) /\ r = RowOf(p[1], p[2]) /\ r.depth = n
    BY <1>1 DEF AtDistance
  <2> QED
    BY <2>1, RowOfIs
<1>2. ASSUME NEW a \in Cst!Ids, NEW f \in Cst!Ids, r = RowOf(a, f), Cst!Inside(a, f), Cst!Distance(a, f) = n
      PROVE  r \in AtDistance(n)
  <2>1. <<a, f>> \in Cst!Ids \X Cst!Ids /\ <<a, f>>[1] = a /\ <<a, f>>[2] = f
    OBVIOUS
  <2>2. <<a, f>> \in {p \in Cst!Ids \X Cst!Ids : Cst!Inside(p[1], p[2])}
    BY <1>2, <2>1
  <2>3. r = RowOf(<<a, f>>[1], <<a, f>>[2])
    BY <1>2, <2>1
  <2> QED
    BY <1>2, <2>2, <2>3, RowOfIs DEF AtDistance
<1> QED
  BY <1>1, <1>2

LEMMA BaseIs == ASSUME CstInv PROVE Cst!Base = AtDistance(0)
<1>1. ASSUME NEW f \in Cst!Ids
      PROVE  /\ [parent |-> f, child |-> f, depth |-> 0, cpu |-> Cst!Exclusive(f)] = RowOf(f, f)
             /\ Cst!Inside(f, f) /\ Cst!Distance(f, f) = 0
  <2>1. Cst!Inside(f, f)
    BY InsideIs
  <2> QED
    BY <2>1, DistanceIs, ExclusiveIs DEF RowOf
<1>2. ASSUME NEW r \in AtDistance(0) PROVE r \in Cst!Base
  <2>1. PICK a \in Cst!Ids, f \in Cst!Ids : r = RowOf(a, f) /\ Cst!Inside(a, f) /\ Cst!Distance(a, f) = 0
    BY AtDistanceIs
  <2> QED
    BY <1>1, <2>1, DistanceIs DEF Cst!Base
<1>3. ASSUME NEW r \in Cst!Base PROVE r \in AtDistance(0)
  <2>1. PICK f \in Cst!Ids : r = [parent |-> f, child |-> f, depth |-> 0, cpu |-> Cst!Exclusive(f)]
    BY DEF Cst!Base
  <2> QED
    BY <1>1, <2>1, AtDistanceIs
<1> QED
  BY <1>2, <1>3

LEMMA UpIs == ASSUME CstInv, NEW n \in Nat PROVE Cst!Up(AtDistance(n)) = AtDistance(n + 1)
<1>1. ASSUME NEW r \in AtDistance(n + 1) PROVE r \in Cst!Up(AtDistance(n))
  <2>1. PICK a \in Cst!Ids, f \in Cst!Ids : r = RowOf(a, f) /\ Cst!Inside(a, f) /\ Cst!Distance(a, f) = n + 1
    BY AtDistanceIs
  <2>2. a # f
    BY <2>1, DistanceIs
  <2>3. PICK c \in Cst!Ids : Deep(c) /\ Cst!Parent(c) = a /\ Cst!Inside(c, f)
    BY <2>1, <2>2, ChildOf
  <2>4. /\ Cardinality(Enclosing(a)) = Cardinality(Enclosing(c)) - 1
        /\ Cardinality(Enclosing(c)) \in Nat /\ Cardinality(Enclosing(f)) \in Nat
    BY <2>3, ParentIs, EnclosingSet
  <2>5. Cst!Distance(c, f) = n
    BY <2>1, <2>3, <2>4, DistanceIs
  <2>6. RowOf(c, f) \in AtDistance(n)
    BY <2>3, <2>5, AtDistanceIs
  <2>7. RowOf(c, f).parent = c /\ c \in Cst!slim_tree
    BY <2>3, RowOfIs, SlimTree
  <2>8. [RowOf(c, f) EXCEPT !.parent = Cst!Parent(@), !.depth = @ + 1] = RowOf(a, f)
    <3>0. Cst!Parent(RowOf(c, f).parent) = a
      BY <2>3, RowOfIs
    <3>1. [RowOf(c, f) EXCEPT !.parent = Cst!Parent(@), !.depth = @ + 1] = [RowOf(c, f) EXCEPT !.parent = a, !.depth = @ + 1]
      BY <3>0
    <3>2. [RowOf(c, f) EXCEPT !.parent = a, !.depth = @ + 1] = RowOf(a, f)
      <4>1. Cst!Distance(a, f) = Cst!Distance(c, f) + 1
        BY <2>1, <2>5
      <4>2. PICK q : q = [RowOf(c, f) EXCEPT !.parent = a, !.depth = @ + 1]
        OBVIOUS
      <4>3. q = RowOf(a, f)
        BY <4>1, <4>2 DEF RowOf
      <4> QED
        BY <4>2, <4>3
    <3> QED
      BY <3>1, <3>2
  <2> QED
    BY <2>1, <2>6, <2>7, <2>8 DEF Cst!Up
<1>2. ASSUME NEW q \in Cst!Up(AtDistance(n)) PROVE q \in AtDistance(n + 1)
  <2>1. PICK r \in AtDistance(n) : /\ r.parent \in Cst!slim_tree
                                   /\ q = [r EXCEPT !.parent = Cst!Parent(@), !.depth = @ + 1]
    BY DEF Cst!Up
  <2>2. PICK c \in Cst!Ids, f \in Cst!Ids : r = RowOf(c, f) /\ Cst!Inside(c, f) /\ Cst!Distance(c, f) = n
    BY AtDistanceIs
  <2>3. c \in Cst!Ids /\ Deep(c)
    BY <2>1, <2>2, RowOfIs, SlimTree
  <2> DEFINE a == Cst!Parent(c)
  <2>4. /\ a \in Cst!Ids /\ Cst!Inside(a, c) /\ Cardinality(Enclosing(a)) = Cardinality(Enclosing(c)) - 1
        /\ Cardinality(Enclosing(c)) \in Nat /\ Cardinality(Enclosing(f)) \in Nat
    BY <2>3, ParentIs, EnclosingSet
  <2>5. q = [RowOf(c, f) EXCEPT !.parent = a, !.depth = @ + 1]
    BY <2>1, <2>2, RowOfIs
  <2> HIDE DEF a
  <2>6. Cst!Inside(a, f)
    BY <2>2, <2>4, InsideTransitive
  <2>7. Cst!Distance(a, f) = n + 1
    BY <2>2, <2>4, <2>6, DistanceIs
  <2>8. q = RowOf(a, f)
    BY <2>2, <2>5, <2>7 DEF RowOf
  <2> QED
    BY <2>4, <2>6, <2>7, <2>8, AtDistanceIs
<1> QED
  BY <1>1, <1>2

LEMMA CsIs == ASSUME CstInv PROVE \A n \in Nat : Cst!cs[n] = AtDistance(n)
<1> DEFINE w == [n \in Nat |-> AtDistance(n)]
           Q(g) == g = [n \in Nat |-> IF n = 0 THEN Cst!Base ELSE Cst!Up(g[n - 1])]
<1>1. Q(w)
  <2>1. ASSUME NEW n \in Nat PROVE AtDistance(n) = IF n = 0 THEN Cst!Base ELSE Cst!Up(w[n - 1])
    <3>1. CASE n = 0
      BY <3>1, BaseIs
    <3>2. CASE n # 0
      <4>1. n - 1 \in Nat /\ n - 1 + 1 = n
        BY <3>2
      <4>2. w[n - 1] = AtDistance(n - 1)
        BY <4>1
      <4>3. Cst!Up(AtDistance(n - 1)) = AtDistance(n)
        <5>1. PICK m \in Nat : m = n - 1
          BY <4>1
        <5>2. Cst!Up(AtDistance(m)) = AtDistance(m + 1) /\ m + 1 = n
          BY <5>1, UpIs
        <5> QED
          BY <5>1, <5>2, Zenon
      <4> QED
        BY <3>2, <4>2, <4>3, Zenon
    <3> QED
      BY <3>1, <3>2
  <2> QED
    BY <2>1, Zenon
<1>2. Cst!cs = CHOOSE g : Q(g)
  BY Zenon DEF Cst!cs
<1>3. Q(Cst!cs)
  <2> HIDE DEF Q, w
  <2> QED
    BY <1>1, <1>2, Zenon
<1> DEFINE T == {n \in Nat : Cst!cs[n] = AtDistance(n)}
<1>4. 0 \in T
  BY <1>3, BaseIs
<1>5. ASSUME NEW n \in Nat, n \in T PROVE n + 1 \in T
  <2>1. n + 1 \in Nat /\ n + 1 # 0 /\ n + 1 - 1 = n
    OBVIOUS
  <2>2. Cst!cs[n + 1] = Cst!Up(Cst!cs[n])
    BY <1>3, <2>1
  <2> QED
    BY <1>5, <2>1, <2>2, UpIs
<1> HIDE DEF Q, w, T
<1>6. \A n \in Nat : n \in T
  BY <1>4, <1>5, NatSetInduction
<1> QED
  BY <1>6 DEF T

\* The join gives each row below exactly the rows around it.
LEMMA JoinIs == ASSUME CstInv PROVE Cst!generateCallStacksSQL = Cst!CallStacksOf
<1>1. Cst!CallStacksOf = {RowOf(p[1], p[2]) : p \in {p \in Cst!Ids \X Cst!Ids : Cst!Inside(p[1], p[2])}}
  BY DEF Cst!CallStacksOf, RowOf
<1>2. ASSUME NEW r \in Cst!CallStacksOf PROVE \E n \in 0 .. Len(rocpd_api) : r \in AtDistance(n)
  <2>1. PICK p \in Cst!Ids \X Cst!Ids : Cst!Inside(p[1], p[2]) /\ r = RowOf(p[1], p[2])
    BY <1>1
  <2>2. Cst!Distance(p[1], p[2]) \in 0 .. Len(rocpd_api)
    BY <2>1, DistanceIs
  <2> QED
    BY <2>1, <2>2, AtDistanceIs
<1>3. \A n : AtDistance(n) \subseteq Cst!CallStacksOf
  BY <1>1 DEF AtDistance
<1>4. 0 .. Len(rocpd_api) \subseteq Nat
  BY CstRow
<1>5. Cst!generateCallStacksSQL = UNION {AtDistance(n) : n \in 0 .. Len(rocpd_api)}
  BY <1>4, CsIs DEF Cst!generateCallStacksSQL
<1> QED
  BY <1>2, <1>3, <1>5

-----------------------------------------------------------------------------
(* The order of the events *)

Preceding(e) == {d \in Cst!EventSet : Cst!Precedes(d, e)}

LEMMA EventFields ==
    ASSUME CstInv, NEW e \in Cst!EventSet
    PROVE  e.id \in Cst!Ids /\ e.id \in Nat /\ e.ts \in Int /\ e.evt \in {1, -1}
           /\ \A d \in Cst!EventSet : d.id = e.id /\ d.evt = e.evt => d = e
<1>1. ASSUME NEW d \in Cst!EventSet
      PROVE  /\ d.id \in Cst!Ids /\ d.id \in Nat /\ d.ts \in Int
             /\ (d.evt = 1 /\ d = Opening(d.id)) \/ (d.evt = -1 /\ d = Closing(d.id))
  <2>1. PICK f \in Cst!Ids : d = Opening(f) \/ d = Closing(f)
    BY EventIs
  <2>2. f \in Nat /\ Cst!Start(f) \in Int /\ Cst!End(f) \in Int
    BY CstRow
  <2>3. CASE d = Opening(f)
    <3>1. d.id = f /\ d.ts = Cst!Start(f) /\ d.evt = 1
      BY <2>3, EventIs
    <3> QED
      BY <2>2, <2>3, <3>1
  <2>4. CASE d = Closing(f)
    <3>1. d.id = f /\ d.ts = Cst!End(f) /\ d.evt = -1
      BY <2>4, EventIs
    <3> QED
      BY <2>2, <2>4, <3>1
  <2> QED
    BY <2>1, <2>3, <2>4
<1>2. ASSUME NEW d \in Cst!EventSet, d.id = e.id, d.evt = e.evt PROVE d = e
  BY <1>1, <1>2
<1> QED
  BY <1>1, <1>2

LEMMA EventsOrdered ==
    ASSUME CstInv, NEW d \in Cst!EventSet, NEW e \in Cst!EventSet
    PROVE  /\ ~Cst!Precedes(e, e)
           /\ d # e => Cst!Precedes(d, e) \/ Cst!Precedes(e, d)
           /\ Cst!Precedes(d, e) => \A c \in Cst!EventSet : Cst!Precedes(c, d) => Cst!Precedes(c, e)
<1>1. ASSUME NEW x \in Cst!EventSet PROVE x.id \in Nat /\ x.ts \in Int /\ x.evt \in Int
  BY EventFields
<1>2. d.id = e.id /\ d.evt = e.evt => d = e
  BY EventFields
<1>3. ~Cst!Precedes(e, e)
  BY <1>1 DEF Cst!Precedes
<1>4. d # e => Cst!Precedes(d, e) \/ Cst!Precedes(e, d)
  BY <1>1, <1>2 DEF Cst!Precedes
<1>5. ASSUME Cst!Precedes(d, e), NEW c \in Cst!EventSet, Cst!Precedes(c, d) PROVE Cst!Precedes(c, e)
  BY <1>1, <1>5 DEF Cst!Precedes
<1> QED
  BY <1>3, <1>4, <1>5

LEMMA EventCount ==
    ASSUME CstInv PROVE IsFiniteSet(Cst!EventSet) /\ Cardinality(Cst!EventSet) = 2 * Len(rocpd_api)
<1> DEFINE A == {Opening(f) : f \in Cst!Ids}
           B == {Closing(f) : f \in Cst!Ids}
<1>1. IsFiniteSet(A) /\ Cardinality(A) = Len(rocpd_api)
  <2> DEFINE g == [f \in Cst!Ids |-> Opening(f)]
  <2>1. DOMAIN g = Cst!Ids /\ A = {g[f] : f \in Cst!Ids} /\ \A f \in Cst!Ids : g[f] = Opening(f)
    OBVIOUS
  <2> HIDE DEF g, A
  <2>2. \A a \in Cst!Ids : \A b \in Cst!Ids : g[a] = g[b] => a = b
    BY <2>1, EventIs
  <2>3. IsFiniteSet(Cst!Ids) /\ Cardinality(Cst!Ids) = Len(rocpd_api)
    BY CstRow
  <2> QED
    BY <2>1, <2>2, <2>3, ImageCount
<1>2. IsFiniteSet(B) /\ Cardinality(B) = Len(rocpd_api)
  <2> DEFINE g == [f \in Cst!Ids |-> Closing(f)]
  <2>1. DOMAIN g = Cst!Ids /\ B = {g[f] : f \in Cst!Ids} /\ \A f \in Cst!Ids : g[f] = Closing(f)
    OBVIOUS
  <2> HIDE DEF g, B
  <2>2. \A a \in Cst!Ids : \A b \in Cst!Ids : g[a] = g[b] => a = b
    BY <2>1, EventIs
  <2>3. IsFiniteSet(Cst!Ids) /\ Cardinality(Cst!Ids) = Len(rocpd_api)
    BY CstRow
  <2> QED
    BY <2>1, <2>2, <2>3, ImageCount
<1>3. A \cap B = {}
  <2>1. \A f, g \in Cst!Ids : Opening(f) # Closing(g)
    BY EventIs
  <2> QED
    BY <2>1
<1>4. Cst!EventSet = A \cup B
  BY DEF Cst!EventSet, Opening, Closing
<1>5. Len(rocpd_api) \in Nat
  BY CstRow
<1> HIDE DEF A, B
<1>6. IsFiniteSet(A \cup B) /\ Cardinality(A \cup B) = Cardinality(A) + Cardinality(B) - Cardinality(A \cap B)
  BY <1>1, <1>2, FS_Union
<1>7. Cardinality(A \cap B) = 0
  BY <1>3, FS_EmptySet
<1> QED
  BY <1>1, <1>2, <1>4, <1>5, <1>6, <1>7

LEMMA PrecedingIs ==
    ASSUME CstInv, NEW e \in Cst!EventSet
    PROVE  /\ Cardinality(Preceding(e)) \in 0 .. 2 * Len(rocpd_api) - 1
           /\ \A d \in Cst!EventSet : Cst!Precedes(d, e) <=> Cardinality(Preceding(d)) < Cardinality(Preceding(e))
           /\ \A d \in Cst!EventSet : Cardinality(Preceding(d)) = Cardinality(Preceding(e)) => d = e
<1>1. ASSUME NEW x \in Cst!EventSet
      PROVE  /\ Preceding(x) \in SUBSET Cst!EventSet /\ IsFiniteSet(Preceding(x)) /\ x \notin Preceding(x)
             /\ Cardinality(Preceding(x)) \in Nat /\ Cardinality(Preceding(x)) < 2 * Len(rocpd_api)
  <2>1. Preceding(x) \in SUBSET Cst!EventSet /\ x \notin Preceding(x)
    BY EventsOrdered DEF Preceding
  <2> QED
    BY <2>1, EventCount, FinitePart
<1>2. ASSUME NEW x \in Cst!EventSet, NEW y \in Cst!EventSet, Cst!Precedes(x, y)
      PROVE  Cardinality(Preceding(x)) < Cardinality(Preceding(y))
  <2>1. Preceding(x) \in SUBSET Preceding(y) /\ x \in Preceding(y)
    BY <1>2, EventsOrdered DEF Preceding
  <2> QED
    BY <1>1, <2>1, FinitePart
<1>3. ASSUME NEW d \in Cst!EventSet
      PROVE  /\ Cst!Precedes(d, e) <=> Cardinality(Preceding(d)) < Cardinality(Preceding(e))
             /\ Cardinality(Preceding(d)) = Cardinality(Preceding(e)) => d = e
  <2>1. /\ Cst!Precedes(d, e) => Cardinality(Preceding(d)) < Cardinality(Preceding(e))
        /\ Cst!Precedes(e, d) => Cardinality(Preceding(e)) < Cardinality(Preceding(d))
        /\ d # e => Cst!Precedes(d, e) \/ Cst!Precedes(e, d)
        /\ Cardinality(Preceding(d)) \in Nat /\ Cardinality(Preceding(e)) \in Nat
    BY <1>1, <1>2, EventsOrdered
  <2> QED
    BY <2>1
<1>4. Cardinality(Preceding(e)) \in 0 .. 2 * Len(rocpd_api) - 1
  BY <1>1, CstRow
<1> QED
  BY <1>3, <1>4

\* Events lists the starts and ends in their order, each once.
LEMMA EventsAre ==
    ASSUME CstInv
    PROVE  /\ DOMAIN Cst!Events = 1 .. 2 * Len(rocpd_api) /\ 2 * Len(rocpd_api) \in Nat
           /\ Len(Cst!Events) = 2 * Len(rocpd_api)
           /\ \A n \in 1 .. 2 * Len(rocpd_api) :
                 Cst!Events[n] \in Cst!EventSet /\ Cardinality(Preceding(Cst!Events[n])) = n - 1
           /\ \A e \in Cst!EventSet : /\ Cardinality(Preceding(e)) + 1 \in 1 .. 2 * Len(rocpd_api)
                                      /\ Cst!Events[Cardinality(Preceding(e)) + 1] = e
<1> DEFINE N == 2 * Len(rocpd_api)
           g == [e \in Cst!EventSet |-> Cardinality(Preceding(e))]
           places == {g[e] : e \in Cst!EventSet}
<1>1. N \in Nat
  BY CstRow
<1>2. DOMAIN g = Cst!EventSet /\ \A e \in Cst!EventSet : g[e] = Cardinality(Preceding(e))
  OBVIOUS
<1> HIDE DEF g
<1>3. \A a \in Cst!EventSet : \A b \in Cst!EventSet : g[a] = g[b] => a = b
  BY <1>2, PrecedingIs
<1>4. Cardinality(places) = N
  BY <1>2, <1>3, EventCount, ImageCount
<1>5. places \subseteq 0 .. N - 1
  BY <1>2, PrecedingIs
<1>6. IsFiniteSet(0 .. N - 1) /\ Cardinality(0 .. N - 1) = N
  <2>1. N - 1 \in Int /\ 0 \in Int
    BY <1>1
  <2>2. IsFiniteSet(0 .. N - 1) /\ Cardinality(0 .. N - 1) = IF 0 > N - 1 THEN 0 ELSE (N - 1) - 0 + 1
    BY <2>1, FS_Interval
  <2> QED
    BY <1>1, <2>2
<1>7. places = 0 .. N - 1
  <2> HIDE DEF N, places
  <2> QED
    BY <1>4, <1>5, <1>6, FS_Subset
<1> DEFINE P(e) == Cst!Cardinality({d \in Cst!EventSet : Cst!Precedes(d, e)})
<1>8. Cst!Events = [n \in 1 .. N |-> CHOOSE e \in Cst!EventSet : P(e) = n - 1]
  BY Zenon DEF Cst!Events
<1>0. \A e : P(e) = Cardinality(Preceding(e))
  BY CstCardinality, Zenon DEF Preceding
<1> HIDE DEF P
<1> HIDE DEF N
<1>9. ASSUME NEW n \in 1 .. N
      PROVE  Cst!Events[n] \in Cst!EventSet /\ Cardinality(Preceding(Cst!Events[n])) = n - 1
  <2>1. n - 1 \in 0 .. N - 1
    BY <1>1
  <2>2. \E e \in Cst!EventSet : P(e) = n - 1
    BY <1>0, <1>2, <1>7, <2>1
  <2>3. Cst!Events[n] = CHOOSE e \in Cst!EventSet : P(e) = n - 1
    BY <1>8
  <2>4. Cst!Events[n] \in Cst!EventSet /\ P(Cst!Events[n]) = n - 1
    BY <2>2, <2>3
  <2> QED
    BY <1>0, <2>4
<1>10. ASSUME NEW e \in Cst!EventSet
       PROVE  Cardinality(Preceding(e)) + 1 \in 1 .. N /\ Cst!Events[Cardinality(Preceding(e)) + 1] = e
  <2>1. PICK k \in 0 .. N - 1 : k = Cardinality(Preceding(e))
    BY <1>1, <1>2, <1>5
  <2>2. k + 1 \in 1 .. N /\ k + 1 - 1 = k
    BY <1>1
  <2>3. Cst!Events[k + 1] \in Cst!EventSet /\ Cardinality(Preceding(Cst!Events[k + 1])) = k
    BY <1>9, <2>2
  <2>4. Cst!Events[k + 1] = e
    BY <2>1, <2>3, PrecedingIs
  <2> QED
    BY <2>1, <2>2, <2>4
<1>11. DOMAIN Cst!Events = 1 .. N /\ Len(Cst!Events) = N
  <2>1. DOMAIN Cst!Events = 1 .. N
    BY <1>8
  <2>2. Cst!Events \in Seq(Cst!EventSet)
    <3>1. Cst!Events \in [1 .. N -> Cst!EventSet]
      BY <1>8, <1>9
    <3> QED
      BY <1>1, <3>1, SeqDef
  <2> QED
    BY <1>1, <2>1, <2>2, LenProperties
<1> QED
  BY <1>1, <1>9, <1>10, <1>11 DEF N

-----------------------------------------------------------------------------
(* The replay *)

\* The rows whose start or end is among the first n events.
Begun(n) == {f \in Cst!Ids : Cardinality(Preceding(Opening(f))) < n}
Ended(n) == {f \in Cst!Ids : Cardinality(Preceding(Closing(f))) < n}

FrameAt(f, n) == [id |-> f, start |-> Cst!Start(f), child |-> Cardinality(Covered(f, Ended(n)))]

\* After n events the stack has the rows that are open, the outer ones below,
\* each with the time that rows inside it covered, and the rows are those of
\* the ranges that ended, each once.
ReplayInv(n, st) ==
    /\ st = [stack |-> st.stack, rows |-> st.rows]
    /\ st.stack \in Seq([id : Cst!Ids, start : Int, child : Nat]) /\ st.rows \in Seq(Cst!CallStacksOf)
    /\ \A i \in 1 .. Len(st.stack) :
          st.stack[i] = FrameAt(st.stack[i].id, n) /\ st.stack[i].id \in Begun(n) \ Ended(n)
    /\ \A i, j \in 1 .. Len(st.stack) : i < j => Cst!Start(st.stack[i].id) < Cst!Start(st.stack[j].id)
    /\ \A f \in Begun(n) \ Ended(n) : \E i \in 1 .. Len(st.stack) : st.stack[i].id = f
    /\ \A i \in 1 .. Len(st.rows) : st.rows[i].child \in Ended(n)
    /\ \A i, j \in 1 .. Len(st.rows) : st.rows[i] = st.rows[j] => i = j
    /\ \A a \in Cst!Ids : \A f \in Ended(n) :
          Cst!Inside(a, f) => \E i \in 1 .. Len(st.rows) : st.rows[i] = RowOf(a, f)

LEMMA PrecedesIs ==
    ASSUME CstInv, NEW c \in Cst!Ids, NEW g \in Cst!Ids
    PROVE  /\ Cst!Precedes(Opening(c), Opening(g)) <=> Cst!Start(c) < Cst!Start(g)
           /\ Cst!Precedes(Closing(c), Opening(g)) <=> Cst!End(c) < Cst!Start(g)
           /\ Cst!Precedes(Opening(c), Closing(g)) <=> Cst!Start(c) <= Cst!End(g)
           /\ Cst!Precedes(Closing(c), Closing(g)) <=>
                 Cst!End(c) < Cst!End(g) \/ (Cst!End(c) = Cst!End(g) /\ c < g)
<1>1. /\ c \in Nat /\ Cst!Start(c) \in Int /\ Cst!End(c) \in Int
      /\ g \in Nat /\ Cst!Start(g) \in Int /\ Cst!End(g) \in Int
      /\ Cst!Start(c) = Cst!Start(g) => c = g
  BY CstRow DEF CstInv
<1>2. /\ Opening(c).id = c /\ Opening(c).ts = Cst!Start(c) /\ Opening(c).evt = 1
      /\ Closing(c).id = c /\ Closing(c).ts = Cst!End(c) /\ Closing(c).evt = -1
      /\ Opening(g).id = g /\ Opening(g).ts = Cst!Start(g) /\ Opening(g).evt = 1
      /\ Closing(g).id = g /\ Closing(g).ts = Cst!End(g) /\ Closing(g).evt = -1
  BY EventIs
<1> QED
  BY <1>1, <1>2 DEF Cst!Precedes

LEMMA OpeningStep ==
    ASSUME CstInv, NEW n \in 0 .. 2 * Len(rocpd_api) - 1, NEW g \in Cst!Ids, Cst!Events[n + 1] = Opening(g)
    PROVE  /\ Begun(n + 1) = Begun(n) \cup {g} /\ g \notin Begun(n) /\ Ended(n + 1) = Ended(n)
           /\ \A c \in Cst!Ids : /\ c \in Begun(n) <=> Cst!Start(c) < Cst!Start(g)
                                 /\ c \in Ended(n) <=> Cst!End(c) < Cst!Start(g)
<1>1. n \in Nat /\ n + 1 \in 1 .. 2 * Len(rocpd_api) /\ n + 1 - 1 = n
  BY CstRow
<1>2. Opening(g) \in Cst!EventSet /\ Cardinality(Preceding(Opening(g))) = n
  BY <1>1, EventsAre
<1>3. ASSUME NEW c \in Cst!Ids
      PROVE  /\ Cardinality(Preceding(Opening(c))) \in Nat /\ Cardinality(Preceding(Closing(c))) \in Nat
             /\ Cardinality(Preceding(Opening(c))) < n <=> Cst!Start(c) < Cst!Start(g)
             /\ Cardinality(Preceding(Closing(c))) < n <=> Cst!End(c) < Cst!Start(g)
             /\ Cardinality(Preceding(Opening(c))) = n <=> c = g
             /\ Cardinality(Preceding(Closing(c))) # n
  <2>1. Opening(c) \in Cst!EventSet /\ Closing(c) \in Cst!EventSet
    BY EventIs
  <2>2. Closing(c) # Opening(g) /\ (Opening(c) = Opening(g) => c = g)
    <3>1. Closing(c).evt = -1 /\ Opening(g).evt = 1 /\ Opening(c).id = c /\ Opening(g).id = g
      BY EventIs
    <3> QED
      BY <3>1
  <2>3. Cardinality(Preceding(Opening(c))) \in Nat /\ Cardinality(Preceding(Closing(c))) \in Nat
    BY <2>1, PrecedingIs
  <2>4. /\ Cst!Precedes(Opening(c), Opening(g)) <=> Cardinality(Preceding(Opening(c))) < n
        /\ Cst!Precedes(Closing(c), Opening(g)) <=> Cardinality(Preceding(Closing(c))) < n
        /\ Cardinality(Preceding(Opening(c))) = n => Opening(c) = Opening(g)
        /\ Cardinality(Preceding(Closing(c))) = n => Closing(c) = Opening(g)
    BY <1>2, <2>1, PrecedingIs
  <2> QED
    BY <1>2, <2>2, <2>3, <2>4, PrecedesIs
<1>4. \A c \in Cst!Ids : /\ c \in Begun(n) <=> Cst!Start(c) < Cst!Start(g)
                         /\ c \in Ended(n) <=> Cst!End(c) < Cst!Start(g)
  BY <1>3 DEF Begun, Ended
<1>5. Begun(n + 1) = Begun(n) \cup {g} /\ g \notin Begun(n)
  BY <1>1, <1>3 DEF Begun
<1>6. Ended(n + 1) = Ended(n)
  BY <1>1, <1>3 DEF Ended
<1> QED
  BY <1>4, <1>5, <1>6

LEMMA ClosingStep ==
    ASSUME CstInv, NEW n \in 0 .. 2 * Len(rocpd_api) - 1, NEW g \in Cst!Ids, Cst!Events[n + 1] = Closing(g)
    PROVE  /\ Begun(n + 1) = Begun(n) /\ Ended(n + 1) = Ended(n) \cup {g} /\ g \notin Ended(n)
           /\ \A c \in Cst!Ids :
                 /\ c \in Begun(n) <=> Cst!Start(c) <= Cst!End(g)
                 /\ c \in Ended(n) <=> Cst!End(c) < Cst!End(g) \/ (Cst!End(c) = Cst!End(g) /\ c < g)
<1>1. n \in Nat /\ n + 1 \in 1 .. 2 * Len(rocpd_api) /\ n + 1 - 1 = n
  BY CstRow
<1>2. Closing(g) \in Cst!EventSet /\ Cardinality(Preceding(Closing(g))) = n
  BY <1>1, EventsAre
<1>3. ASSUME NEW c \in Cst!Ids
      PROVE  /\ Cardinality(Preceding(Opening(c))) \in Nat /\ Cardinality(Preceding(Closing(c))) \in Nat
             /\ Cardinality(Preceding(Opening(c))) < n <=> Cst!Start(c) <= Cst!End(g)
             /\ Cardinality(Preceding(Closing(c))) < n <=> Cst!End(c) < Cst!End(g) \/ (Cst!End(c) = Cst!End(g) /\ c < g)
             /\ Cardinality(Preceding(Closing(c))) = n <=> c = g
             /\ Cardinality(Preceding(Opening(c))) # n
  <2>1. Opening(c) \in Cst!EventSet /\ Closing(c) \in Cst!EventSet
    BY EventIs
  <2>2. Opening(c) # Closing(g) /\ (Closing(c) = Closing(g) => c = g)
    <3>1. Opening(c).evt = 1 /\ Closing(g).evt = -1 /\ Closing(c).id = c /\ Closing(g).id = g
      BY EventIs
    <3> QED
      BY <3>1
  <2>3. Cardinality(Preceding(Opening(c))) \in Nat /\ Cardinality(Preceding(Closing(c))) \in Nat
    BY <2>1, PrecedingIs
  <2>4. /\ Cst!Precedes(Opening(c), Closing(g)) <=> Cardinality(Preceding(Opening(c))) < n
        /\ Cst!Precedes(Closing(c), Closing(g)) <=> Cardinality(Preceding(Closing(c))) < n
        /\ Cardinality(Preceding(Opening(c))) = n => Opening(c) = Closing(g)
        /\ Cardinality(Preceding(Closing(c))) = n => Closing(c) = Closing(g)
    BY <1>2, <2>1, PrecedingIs
  <2> QED
    BY <1>2, <2>2, <2>3, <2>4, PrecedesIs
<1>4. \A c \in Cst!Ids :
         /\ c \in Begun(n) <=> Cst!Start(c) <= Cst!End(g)
         /\ c \in Ended(n) <=> Cst!End(c) < Cst!End(g) \/ (Cst!End(c) = Cst!End(g) /\ c < g)
  BY <1>3 DEF Begun, Ended
<1>5. Begun(n + 1) = Begun(n)
  BY <1>1, <1>3 DEF Begun
<1>6. Ended(n + 1) = Ended(n) \cup {g} /\ g \notin Ended(n)
  BY <1>1, <1>3 DEF Ended
<1> QED
  BY <1>4, <1>5, <1>6

\* A row that ends adds the time outside its callees to what those around it have.
LEMMA CoveredGrows ==
    ASSUME CstInv, NEW f \in Cst!Ids, NEW g \in Cst!Ids, f # g, Cst!Inside(f, g),
           NEW D \in SUBSET Cst!Ids, g \notin D, \A c \in Cst!Ids : c # g /\ Cst!Inside(g, c) => c \in D,
           \A c \in D : ~Cst!Inside(c, g)
    PROVE  /\ Cardinality(Covered(f, D \cup {g})) = Cardinality(Covered(f, D)) + Cst!OwnTime(g)
           /\ Cardinality(Covered(f, D)) \in Nat /\ Cardinality(Covered(f, D \cup {g})) \in Nat
           /\ Cst!OwnTime(g) \in Nat
<1>1. ASSUME NEW t \in Covered(f, D \cup {g}), t \notin Covered(f, D) PROVE t \in Own(g)
  <2>1. t \in Spans(f) /\ t \in Spans(g) /\ \A c \in D : c # f /\ Cst!Inside(f, c) => t \notin Spans(c)
    BY <1>1 DEF Covered
  <2>2. ASSUME NEW c \in Cst!Ids \ {g}, Cst!Inside(g, c), t \in Spans(c) PROVE FALSE
    <3>1. c \in D /\ Cst!Inside(f, c) /\ c # f
      BY <2>2, InsideTransitive
    <3> QED
      BY <2>1, <2>2, <3>1
  <2> QED
    BY <2>1, <2>2 DEF Own
<1>2. ASSUME NEW t \in Own(g) PROVE t \in Covered(f, D \cup {g})
  <2>1. t \in Spans(g) /\ t \in Spans(f)
    BY InsideLinear DEF Own
  <2> QED
    BY <2>1 DEF Covered
<1>3. ASSUME NEW t \in Own(g), t \in Covered(f, D) PROVE FALSE
  <2>1. PICK c \in D : t \in Spans(c)
    BY <1>3 DEF Covered
  <2>2. t \in Spans(g) /\ (Cst!Inside(g, c) => t \notin Spans(c))
    BY <2>1 DEF Own
  <2>3. ~Cst!Inside(c, g)
    BY <2>1
  <2> QED
    BY <2>1, <2>2, <2>3, InsideLinear
<1>4. Covered(f, D) \in SUBSET Covered(f, D \cup {g}) /\ Covered(f, D \cup {g}) \in SUBSET Spans(f)
  BY DEF Covered
<1>5. Covered(f, D \cup {g}) \ Covered(f, D) = Own(g)
  BY <1>1, <1>2, <1>3
<1>6. IsFiniteSet(Covered(f, D \cup {g}))
  BY <1>4, SpansFinite, FinitePart
<1>7. Cardinality(Own(g)) = Cardinality(Covered(f, D \cup {g})) - Cardinality(Covered(f, D))
  BY <1>4, <1>5, <1>6, FinitePart
<1>8. Cardinality(Covered(f, D)) \in Nat /\ Cardinality(Covered(f, D \cup {g})) \in Nat
  BY <1>4, <1>6, FinitePart
<1> QED
  BY <1>7, <1>8, OwnIs

NoReplay == [stack |-> <<>>, rows |-> <<>>]

\* Replayed[] is what its definition says.
ReplayChain(g, n) ==
    /\ g = [i \in 0 .. n |-> g[i]] /\ g[0] = NoReplay
    /\ \A i \in 1 .. n : g[i] = Cst!Replay(g[i - 1], Cst!Events[i])

LEMMA ReplayChainsExist == \A n \in Nat : \E g : ReplayChain(g, n)
<1> DEFINE T == {n \in Nat : \E g : ReplayChain(g, n)}
<1>1. 0 \in T
  <2>1. ReplayChain([i \in 0 .. 0 |-> NoReplay], 0)
    BY DEF ReplayChain
  <2> QED
    BY <2>1
<1>2. ASSUME NEW n \in Nat, n \in T PROVE n + 1 \in T
  <2>1. PICK g : ReplayChain(g, n)
    BY <1>2
  <2>2. PICK last : last = Cst!Replay(g[n], Cst!Events[n + 1])
    OBVIOUS
  <2>3. PICK h : h = [i \in 0 .. n + 1 |-> IF i <= n THEN g[i] ELSE last]
    OBVIOUS
  <2>4. h = [i \in 0 .. n + 1 |-> h[i]]
    BY <2>3
  <2>5. h[0] = NoReplay
    BY <2>1, <2>3 DEF ReplayChain
  <2>6. \A i \in 1 .. n + 1 : h[i] = Cst!Replay(h[i - 1], Cst!Events[i])
    <3> TAKE i \in 1 .. n + 1
    <3>1. h[i - 1] = g[i - 1] /\ i - 1 <= n
      BY <2>3
    <3>2. CASE i <= n
      <4>1. h[i] = g[i]
        BY <2>3, <3>2
      <4> QED
        <5>1. i \in 1 .. n
          BY <3>2
        <5>2. g[i] = Cst!Replay(g[i - 1], Cst!Events[i])
          BY <2>1, <5>1 DEF ReplayChain
        <5> QED
          BY <3>1, <4>1, <5>2
    <3>3. CASE i = n + 1
      <4>1. h[n + 1] = last /\ h[n] = g[n] /\ (n + 1) - 1 = n
        BY <2>3
      <4> QED
        BY <2>2, <3>3, <4>1
    <3> QED
      BY <3>2, <3>3
  <2>7. ReplayChain(h, n + 1)
    BY <2>4, <2>5, <2>6 DEF ReplayChain
  <2> QED
    BY <2>7
<1> HIDE DEF T
<1>3. \A n \in Nat : n \in T
  BY <1>1, <1>2, NatSetInduction, Zenon
<1> QED
  BY <1>3 DEF T

LEMMA ReplayChainsAgree ==
    ASSUME NEW m \in Nat, NEW n \in Nat, m <= n, NEW g, ReplayChain(g, m), NEW h, ReplayChain(h, n)
    PROVE  g[m] = h[m]
<1> DEFINE T == {i \in Nat : i <= m => g[i] = h[i]}
<1>1. 0 \in T
  BY DEF ReplayChain
<1>2. ASSUME NEW i \in Nat, i \in T PROVE i + 1 \in T
  <2>1. SUFFICES ASSUME i + 1 <= m PROVE g[i + 1] = h[i + 1]
    OBVIOUS
  <2>2. g[i] = h[i] /\ i + 1 \in 1 .. m /\ i + 1 \in 1 .. n /\ (i + 1) - 1 = i
    BY <1>2, <2>1
  <2>3. /\ g[i + 1] = Cst!Replay(g[(i + 1) - 1], Cst!Events[i + 1])
        /\ h[i + 1] = Cst!Replay(h[(i + 1) - 1], Cst!Events[i + 1])
    BY <2>2 DEF ReplayChain
  <2> QED
    BY <2>2, <2>3
<1> HIDE DEF T
<1>3. m \in T
  BY <1>1, <1>2, NatSetInduction, Zenon
<1> QED
  BY <1>3 DEF T

LEMMA ReplayedUnfolds ==
    /\ Cst!Replayed[0] = NoReplay
    /\ \A n \in Nat : Cst!Replayed[n + 1] = Cst!Replay(Cst!Replayed[n], Cst!Events[n + 1])
<1> DEFINE ch(n) == CHOOSE g : ReplayChain(g, n)
<1>1. \A n \in Nat : ReplayChain(ch(n), n)
  BY ReplayChainsExist, Zenon
<1> HIDE DEF ch
<1>2. PICK G : G = [n \in Nat |-> ch(n)[n]]
  OBVIOUS
<1>3. \A n \in Nat : G[n] = ch(n)[n]
  BY <1>2
<1>4. G[0] = NoReplay
  BY <1>1, <1>3 DEF ReplayChain
<1>5. ASSUME NEW n \in Nat, n # 0 PROVE G[n] = Cst!Replay(G[n - 1], Cst!Events[n])
  <2>1. n - 1 \in Nat /\ n - 1 <= n /\ n \in 1 .. n
    BY <1>5
  <2>2. ch(n)[n] = Cst!Replay(ch(n)[n - 1], Cst!Events[n])
    BY <1>1, <2>1 DEF ReplayChain
  <2>3. ch(n - 1)[n - 1] = ch(n)[n - 1]
    BY <1>1, <2>1, ReplayChainsAgree
  <2> QED
    BY <1>3, <2>1, <2>2, <2>3
<1>6. G = [n \in Nat |-> IF n = 0 THEN NoReplay ELSE Cst!Replay(G[n - 1], Cst!Events[n])]
  <2>1. \A n \in Nat : G[n] = IF n = 0 THEN NoReplay ELSE Cst!Replay(G[n - 1], Cst!Events[n])
    BY <1>4, <1>5
  <2>2. G = [n \in Nat |-> G[n]]
    BY <1>2
  <2> QED
    BY <2>1, <2>2
<1> DEFINE f == CHOOSE f : f = [n \in Nat |-> IF n = 0 THEN NoReplay ELSE Cst!Replay(f[n - 1], Cst!Events[n])]
<1>7. f = [n \in Nat |-> IF n = 0 THEN NoReplay ELSE Cst!Replay(f[n - 1], Cst!Events[n])]
  BY <1>6, Zenon
<1>8. Cst!Replayed = f
  BY Zenon DEF Cst!Replayed, NoReplay
<1> HIDE DEF f
<1>9. \A n \in Nat : n + 1 \in Nat /\ n + 1 # 0 /\ (n + 1) - 1 = n
  OBVIOUS
<1> QED
  BY <1>7, <1>8, <1>9, Zenon

\* A start puts a row on the stack.
LEMMA ReplayOpening ==
    ASSUME CstInv, NEW n \in 0 .. 2 * Len(rocpd_api) - 1, NEW st, ReplayInv(n, st),
           NEW g \in Cst!Ids, Cst!Events[n + 1] = Opening(g)
    PROVE  ReplayInv(n + 1, Cst!Replay(st, Opening(g)))
<1> DEFINE K == st.stack
           F == [id : Cst!Ids, start : Int, child : Nat]
           top == FrameAt(g, n + 1)
           to == [stack |-> Append(K, top), rows |-> st.rows]
<1>1. /\ Begun(n + 1) = Begun(n) \cup {g} /\ g \notin Begun(n) /\ Ended(n + 1) = Ended(n)
      /\ \A c \in Cst!Ids : /\ c \in Begun(n) <=> Cst!Start(c) < Cst!Start(g)
                            /\ c \in Ended(n) <=> Cst!End(c) < Cst!Start(g)
  BY OpeningStep
<1>2. Covered(g, Ended(n)) = {}
  <2>1. \A c \in Ended(n) : c # g => ~Cst!Inside(g, c)
    <3>1. ASSUME NEW c \in Ended(n), c # g, Cst!Inside(g, c) PROVE FALSE
      <4>1. c \in Cst!Ids /\ Cst!End(c) < Cst!Start(g)
        BY <1>1 DEF Ended
      <4>2. Cst!Start(g) <= Cst!Start(c)
        BY <3>1, <4>1, InsideIs
      <4> QED
        BY <4>1, <4>2, CstRow
    <3> QED
      BY <3>1
  <2> QED
    BY <2>1 DEF Covered
<1>3. Cardinality(Covered(g, Ended(n + 1))) = 0
  BY <1>1, <1>2, FS_EmptySet
<1>4. Cst!Replay(st, Opening(g)) = to
  <2>1. Opening(g).evt = 1 /\ Opening(g).id = g
    BY EventIs
  <2>2. top = Cst!Frame(g)
    BY <1>3 DEF FrameAt, Cst!Frame
  <2>3. st = [stack |-> st.stack, rows |-> st.rows]
    BY DEF ReplayInv
  <2>4. Cst!Replay(st, Opening(g)) = [st EXCEPT !.stack = Append(K, top)]
    BY <2>1, <2>2 DEF Cst!Replay
  <2>5. PICK q : q = [st EXCEPT !.stack = Append(K, top)]
    OBVIOUS
  <2> HIDE DEF top
  <2>6. q = to
    BY <2>3, <2>5
  <2> QED
    BY <2>4, <2>5, <2>6
<1>5. top \in F /\ top.id = g
  BY <1>3, CstRow DEF FrameAt
<1>6. /\ K \in Seq(F) /\ st.rows \in Seq(Cst!CallStacksOf) /\ Len(K) \in Nat
  <2>1. K \in Seq(F) /\ st.rows \in Seq(Cst!CallStacksOf)
    BY DEF ReplayInv
  <2> QED
    BY <2>1, LenProperties
<1> HIDE DEF K, F, top
<1>7. /\ Append(K, top) \in Seq(F) /\ Len(Append(K, top)) = Len(K) + 1
      /\ \A i \in 1 .. Len(K) : Append(K, top)[i] = K[i]
      /\ Append(K, top)[Len(K) + 1] = top
  BY <1>5, <1>6, AppendProperties
<1> DEFINE L == Append(K, top)
<1>8. \A i \in 1 .. Len(K) + 1 : (i \in 1 .. Len(K) /\ L[i] = K[i]) \/ (i = Len(K) + 1 /\ L[i] = top)
  BY <1>6, <1>7
<1>9. /\ to.stack = L /\ to.rows = st.rows /\ to = [stack |-> to.stack, rows |-> to.rows]
  OBVIOUS
<1>7a. L \in Seq(F) /\ Len(L) = Len(K) + 1
  BY <1>7
<1> HIDE DEF L, to
<1>10. /\ \A i \in 1 .. Len(K) : K[i] = FrameAt(K[i].id, n) /\ K[i].id \in Begun(n) \ Ended(n)
       /\ \A i, j \in 1 .. Len(K) : i < j => Cst!Start(K[i].id) < Cst!Start(K[j].id)
       /\ \A f \in Begun(n) \ Ended(n) : \E i \in 1 .. Len(K) : K[i].id = f
  BY DEF ReplayInv, K
<1>11. \A i \in 1 .. Len(L) : L[i] = FrameAt(L[i].id, n + 1) /\ L[i].id \in Begun(n + 1) \ Ended(n + 1)
  <2>1. g \notin Ended(n)
    <3>1. Cst!Start(g) <= Cst!End(g) /\ Cst!Start(g) \in Int /\ Cst!End(g) \in Int
      BY CstRow
    <3> QED
      BY <1>1, <3>1
  <2>2. \A f : FrameAt(f, n) = FrameAt(f, n + 1)
    BY <1>1 DEF FrameAt
  <2>3. top = FrameAt(top.id, n + 1)
    BY <1>5 DEF top
  <2> QED
    BY <1>1, <1>5, <1>7a, <1>8, <1>10, <2>1, <2>2, <2>3
<1>12. \A i, j \in 1 .. Len(L) : i < j => Cst!Start(L[i].id) < Cst!Start(L[j].id)
  <2>1. \A i \in 1 .. Len(K) : K[i].id \in Cst!Ids /\ Cst!Start(K[i].id) < Cst!Start(g)
    BY <1>1, <1>10 DEF Begun
  <2>2. ASSUME NEW i \in 1 .. Len(L), NEW j \in 1 .. Len(L), i < j PROVE Cst!Start(L[i].id) < Cst!Start(L[j].id)
    <3>1. i \in 1 .. Len(K) /\ L[i] = K[i]
      BY <1>6, <1>7a, <1>8, <2>2
    <3>2. CASE j = Len(K) + 1 /\ L[j] = top
      BY <1>5, <2>1, <3>1, <3>2
    <3>3. CASE j \in 1 .. Len(K) /\ L[j] = K[j]
      BY <1>10, <2>2, <3>1, <3>3
    <3> QED
      BY <1>7a, <1>8, <3>2, <3>3
  <2> QED
    BY <2>2
<1>13. \A f \in Begun(n + 1) \ Ended(n + 1) : \E i \in 1 .. Len(L) : L[i].id = f
  <2> TAKE f \in Begun(n + 1) \ Ended(n + 1)
  <2>1. CASE f = g
    <3>1. Len(K) + 1 \in 1 .. Len(L) /\ L[Len(K) + 1] = top
      BY <1>6, <1>7, <1>7a DEF L
    <3> QED
      BY <1>5, <2>1, <3>1
  <2>2. CASE f # g
    <3>1. PICK i \in 1 .. Len(K) : K[i].id = f
      BY <1>1, <1>10, <2>2
    <3>2. i \in 1 .. Len(L) /\ L[i] = K[i]
      BY <1>6, <1>7, <1>7a DEF L
    <3> QED
      BY <3>1, <3>2
  <2> QED
    BY <2>1, <2>2
<1>14. /\ \A i \in 1 .. Len(st.rows) : st.rows[i].child \in Ended(n + 1)
       /\ \A i, j \in 1 .. Len(st.rows) : st.rows[i] = st.rows[j] => i = j
       /\ \A a \in Cst!Ids : \A f \in Ended(n + 1) :
             Cst!Inside(a, f) => \E i \in 1 .. Len(st.rows) : st.rows[i] = RowOf(a, f)
  BY <1>1 DEF ReplayInv
<1>15. ReplayInv(n + 1, to)
  <2>1. to.stack \in Seq([id : Cst!Ids, start : Int, child : Nat]) /\ to.rows \in Seq(Cst!CallStacksOf)
    BY <1>6, <1>7a, <1>9 DEF F
  <2>2. /\ \A i \in 1 .. Len(to.stack) :
             to.stack[i] = FrameAt(to.stack[i].id, n + 1) /\ to.stack[i].id \in Begun(n + 1) \ Ended(n + 1)
        /\ \A i, j \in 1 .. Len(to.stack) : i < j => Cst!Start(to.stack[i].id) < Cst!Start(to.stack[j].id)
        /\ \A f \in Begun(n + 1) \ Ended(n + 1) : \E i \in 1 .. Len(to.stack) : to.stack[i].id = f
    BY <1>9, <1>11, <1>12, <1>13
  <2>3. /\ \A i \in 1 .. Len(to.rows) : to.rows[i].child \in Ended(n + 1)
        /\ \A i, j \in 1 .. Len(to.rows) : to.rows[i] = to.rows[j] => i = j
        /\ \A a \in Cst!Ids : \A f \in Ended(n + 1) :
              Cst!Inside(a, f) => \E i \in 1 .. Len(to.rows) : to.rows[i] = RowOf(a, f)
    BY <1>9, <1>14
  <2> QED
    BY <1>9, <2>1, <2>2, <2>3 DEF ReplayInv
<1> QED
  BY <1>4, <1>15

\* The open rows are those around the one that ends, which is on top.
LEMMA OpenStack ==
    ASSUME CstInv, NEW n \in 0 .. 2 * Len(rocpd_api) - 1, NEW st, ReplayInv(n, st),
           NEW g \in Cst!Ids, Cst!Events[n + 1] = Closing(g)
    PROVE  /\ Len(st.stack) \in Nat \ {0} /\ DOMAIN st.stack = 1 .. Len(st.stack)
           /\ st.stack[Len(st.stack)].id = g
           /\ \A i \in 1 .. Len(st.stack) :
                 /\ st.stack[i].id \in Cst!Ids /\ Cst!Inside(st.stack[i].id, g)
                 /\ Cst!Distance(st.stack[i].id, g) = Len(st.stack) - i
           /\ \A c \in Cst!Ids : /\ c # g /\ Cst!Inside(g, c) => c \in Ended(n)
                                 /\ Cst!Inside(c, g) => c \in Begun(n) \ Ended(n)
<1> DEFINE K == st.stack
           id(i) == K[i].id
<1>1. /\ Begun(n + 1) = Begun(n) /\ Ended(n + 1) = Ended(n) \cup {g} /\ g \notin Ended(n)
      /\ \A c \in Cst!Ids :
            /\ c \in Begun(n) <=> Cst!Start(c) <= Cst!End(g)
            /\ c \in Ended(n) <=> Cst!End(c) < Cst!End(g) \/ (Cst!End(c) = Cst!End(g) /\ c < g)
  BY ClosingStep
<1>2. ASSUME NEW c \in Cst!Ids PROVE c \in Begun(n) \ Ended(n) <=> Cst!Inside(c, g)
  <2>1. /\ c \in Nat /\ Cst!Start(c) \in Int /\ Cst!End(c) \in Int /\ Cst!Start(c) <= Cst!End(c)
        /\ g \in Nat /\ Cst!Start(g) \in Int /\ Cst!End(g) \in Int /\ Cst!Start(g) <= Cst!End(g)
    BY CstRow
  <2>2. /\ c < g => Cst!End(c) < Cst!Start(g) \/ (Cst!Start(g) <= Cst!Start(c) /\ Cst!End(c) <= Cst!End(g))
        /\ g < c => Cst!End(g) < Cst!Start(c) \/ (Cst!Start(c) <= Cst!Start(g) /\ Cst!End(g) <= Cst!End(c))
    BY DEF CstInv, Cst!Around, Cst!Start, Cst!End
  <2>3. Cst!Inside(c, g) <=> Cst!Start(c) <= Cst!Start(g) /\ Cst!End(g) <= Cst!End(c) /\ c >= g
    BY DEF Cst!Inside, Cst!Around, Cst!Start, Cst!End
  <2>4. c \in Begun(n) \ Ended(n) <=>
           Cst!Start(c) <= Cst!End(g) /\ ~(Cst!End(c) < Cst!End(g) \/ (Cst!End(c) = Cst!End(g) /\ c < g))
    BY <1>1
  <2> QED
    BY <2>1, <2>2, <2>3, <2>4
<1>3. ASSUME NEW c \in Cst!Ids, c # g, Cst!Inside(g, c) PROVE c \in Ended(n)
  <2>1. Cst!End(c) <= Cst!End(g) /\ c < g
    BY <1>3, InsideIs
  <2> QED
    BY <1>1, <2>1, CstRow
<1>4. /\ Len(K) \in Nat /\ DOMAIN K = 1 .. Len(K)
      /\ \A i \in 1 .. Len(K) : id(i) \in Begun(n) \ Ended(n)
      /\ \A i, j \in 1 .. Len(K) : i < j => Cst!Start(id(i)) < Cst!Start(id(j))
      /\ \A f \in Begun(n) \ Ended(n) : \E i \in 1 .. Len(K) : id(i) = f
  <2>1. K \in Seq([id : Cst!Ids, start : Int, child : Nat])
    BY DEF ReplayInv
  <2>2. Len(K) \in Nat /\ DOMAIN K = 1 .. Len(K)
    BY <2>1, LenProperties
  <2> QED
    BY <2>2 DEF ReplayInv
<1> HIDE DEF K
<1>5. \A i \in 1 .. Len(K) : id(i) \in Cst!Ids /\ Cst!Inside(id(i), g) /\ Cst!Start(id(i)) \in Int
  <2>1. \A i \in 1 .. Len(K) : id(i) \in Cst!Ids
    BY <1>4 DEF Begun
  <2> QED
    BY <1>2, <1>4, <2>1, CstRow
<1>6. \A c \in Cst!Ids : Cst!Inside(c, g) => \E i \in 1 .. Len(K) : id(i) = c
  BY <1>2, <1>4
<1>7. PICK k \in 1 .. Len(K) : id(k) = g
  <2>1. Cst!Inside(g, g)
    BY InsideIs
  <2> QED
    BY <1>6, <2>1
<1>8. Len(K) \in Nat \ {0} /\ k = Len(K)
  <2>1. Len(K) # 0
    BY <1>4
  <2>2. Len(K) \in 1 .. Len(K)
    BY <1>4, <2>1
  <2>3. Cst!Start(id(Len(K))) <= Cst!Start(g)
    BY <1>5, <2>2, InsideIs
  <2>4. ~(k < Len(K))
    <3>1. ASSUME k < Len(K) PROVE FALSE
      <4>1. Cst!Start(id(k)) < Cst!Start(id(Len(K)))
        BY <1>4, <2>2, <3>1
      <4> QED
        BY <1>5, <1>7, <2>2, <2>3, <4>1
    <3> QED
      BY <3>1
  <2>5. Len(K) \in Nat
    BY <1>4
  <2>6. k \in Nat /\ k <= Len(K)
    BY <2>5
  <2> QED
    BY <2>1, <2>4, <2>5, <2>6
<1> HIDE DEF id
<1>9. ASSUME NEW i \in 1 .. Len(K) PROVE Cardinality(Enclosing(id(i))) = i
  <2> DEFINE h == [j \in 1 .. i |-> id(j)]
             below == {h[j] : j \in 1 .. i}
  <2>1. \A j \in 1 .. i : j \in 1 .. Len(K)
    BY <1>4
  <2>2. ASSUME NEW j \in 1 .. i PROVE id(j) \in Enclosing(id(i))
    <3>1. j \in 1 .. Len(K) /\ (j < i \/ j = i)
      BY <1>4
    <3>2. Cst!Start(id(j)) <= Cst!Start(id(i)) /\ Cst!Start(id(j)) \in Int /\ Cst!Start(id(i)) \in Int
      BY <1>4, <1>5, <3>1
    <3>3. Cst!Inside(id(j), id(i)) \/ Cst!Inside(id(i), id(j))
      BY <1>5, <3>1, InsideLinear
    <3>4. Cst!Inside(id(j), id(i))
      BY <1>5, <3>1, <3>2, <3>3, InsideIs
    <3> QED
      BY <1>5, <3>1, <3>4 DEF Enclosing
  <2>3. ASSUME NEW a \in Enclosing(id(i)) PROVE \E j \in 1 .. i : id(j) = a
    <3>1. a \in Cst!Ids /\ Cst!Inside(a, id(i)) /\ Cst!Inside(a, g)
      BY <1>5, InsideTransitive DEF Enclosing
    <3>2. PICK j \in 1 .. Len(K) : id(j) = a
      BY <1>6, <3>1
    <3>3. Cst!Start(id(j)) <= Cst!Start(id(i))
      BY <1>5, <3>1, <3>2, InsideIs
    <3>4. ~(i < j)
      BY <1>4, <1>5, <3>3
    <3>5. j \in 1 .. i
      BY <1>4, <3>4
    <3> QED
      BY <3>2, <3>5
  <2>4. DOMAIN h = 1 .. i /\ \A j \in 1 .. i : h[j] = id(j)
    OBVIOUS
  <2> HIDE DEF h
  <2>5. below = Enclosing(id(i))
    BY <2>2, <2>3, <2>4
  <2>6. \A a \in 1 .. i : \A b \in 1 .. i : h[a] = h[b] => a = b
    <3>1. ASSUME NEW a \in 1 .. i, NEW b \in 1 .. i, id(a) = id(b), a < b PROVE FALSE
      BY <1>4, <1>5, <2>1, <3>1
    <3> QED
      BY <2>4, <3>1
  <2>7. IsFiniteSet(1 .. i) /\ Cardinality(1 .. i) = i
    <3>1. IsFiniteSet(1 .. i) /\ Cardinality(1 .. i) = IF 1 > i THEN 0 ELSE i - 1 + 1
      BY FS_Interval
    <3> QED
      BY <3>1
  <2>8. Cardinality(below) = i
    BY <2>4, <2>6, <2>7, ImageCount
  <2> QED
    BY <2>5, <2>8
<1>10. ASSUME NEW i \in 1 .. Len(K) PROVE Cst!Distance(id(i), g) = Len(K) - i
  <2>1. Cst!Distance(id(i), g) = Cardinality(Enclosing(g)) - Cardinality(Enclosing(id(i)))
    BY <1>5, DistanceIs
  <2> QED
    BY <1>7, <1>8, <1>9, <2>1
<1> QED
  BY <1>2, <1>3, <1>4, <1>5, <1>7, <1>8, <1>10 DEF K, id

\* An end gives the row to each row around it, and its own time to their callees'.
LEMMA ReplayClosing ==
    ASSUME CstInv, NEW n \in 0 .. 2 * Len(rocpd_api) - 1, NEW st, ReplayInv(n, st),
           NEW g \in Cst!Ids, Cst!Events[n + 1] = Closing(g)
    PROVE  ReplayInv(n + 1, Cst!Replay(st, Closing(g)))
<1> DEFINE K == st.stack
           m == Len(K)
           F == [id : Cst!Ids, start : Int, child : Nat]
           time == Cst!OwnTime(g)
           P == Cst!Propagated(K, time)
           L == SubSeq(P, 1, m - 1)
           R == [i \in 1 .. m |-> RowOf(K[i].id, g)]
           to == [stack |-> L, rows |-> st.rows \o R]
<1>1. /\ Begun(n + 1) = Begun(n) /\ Ended(n + 1) = Ended(n) \cup {g} /\ g \notin Ended(n)
      /\ g \in Begun(n)
  <2>1. Cst!Start(g) <= Cst!End(g)
    BY CstRow
  <2> QED
    BY <2>1, ClosingStep
<1>2. /\ m \in Nat \ {0} /\ DOMAIN K = 1 .. m /\ K[m].id = g
      /\ \A i \in 1 .. m : /\ K[i].id \in Cst!Ids /\ Cst!Inside(K[i].id, g)
                           /\ Cst!Distance(K[i].id, g) = m - i
      /\ \A c \in Cst!Ids : /\ c # g /\ Cst!Inside(g, c) => c \in Ended(n)
                            /\ Cst!Inside(c, g) => c \in Begun(n) \ Ended(n)
  BY OpenStack
<1>3. /\ K \in Seq(F) /\ st.rows \in Seq(Cst!CallStacksOf)
      /\ \A i \in 1 .. m : K[i] = FrameAt(K[i].id, n) /\ K[i].id \in Begun(n) \ Ended(n)
      /\ \A i, j \in 1 .. m : i < j => Cst!Start(K[i].id) < Cst!Start(K[j].id)
      /\ \A f \in Begun(n) \ Ended(n) : \E i \in 1 .. m : K[i].id = f
      /\ \A i \in 1 .. Len(st.rows) : st.rows[i].child \in Ended(n)
      /\ \A i, j \in 1 .. Len(st.rows) : st.rows[i] = st.rows[j] => i = j
      /\ \A a \in Cst!Ids : \A f \in Ended(n) :
            Cst!Inside(a, f) => \E i \in 1 .. Len(st.rows) : st.rows[i] = RowOf(a, f)
  BY DEF ReplayInv
<1>4. st = [stack |-> K, rows |-> st.rows]
  BY DEF ReplayInv
<1>5. K[m].start = Cst!Start(g) /\ K[m].child = Cardinality(Covered(g, Cst!Ids))
  <2>1. Covered(g, Ended(n)) = Covered(g, Cst!Ids)
    BY <1>2 DEF Covered, Ended
  <2>2. m \in 1 .. m
    BY <1>2
  <2>3. K[m] = FrameAt(K[m].id, n)
    BY <1>3, <2>2
  <2>4. K[m].id = g
    BY <1>2
  <2> HIDE DEF K, m
  <2> QED
    BY <2>1, <2>3, <2>4 DEF FrameAt
<1>6. Cst!End(g) - K[m].start - K[m].child = time
  BY <1>5, OwnIs, CstRow, SpansFinite DEF Cst!Inclusive
<1>7. Cst!Replay(st, Closing(g)) = to
  <2>1. Closing(g).evt = -1 /\ Closing(g).id = g /\ Closing(g).ts = Cst!End(g) /\ -1 # 1
    BY EventIs
  <2>2. [i \in DOMAIN K |-> [parent |-> K[i].id, child |-> g, depth |-> m - i, cpu |-> time]] = R
    <3>1. \A i \in 1 .. m : [parent |-> K[i].id, child |-> g, depth |-> m - i, cpu |-> time] = RowOf(K[i].id, g)
      BY <1>2 DEF RowOf
    <3> QED
      BY <1>2, <3>1
  <2> HIDE DEF K, P, R
  <2>3. PICK t : t = Cst!End(g) - K[m].start - K[m].child
    OBVIOUS
  <2>4. t = time
    BY <1>6, <2>3
  <2>5. Cst!Replay(st, Closing(g)) =
          [stack |-> SubSeq(Cst!Propagated(K, t), 1, m - 1),
           rows  |-> st.rows \o [i \in DOMAIN K |->
                         [parent |-> K[i].id, child |-> g, depth |-> m - i, cpu |-> t]]]
    BY <2>1, <2>3 DEF Cst!Replay, K
  <2> HIDE DEF m, time
  <2> QED
    BY <2>2, <2>4, <2>5 DEF P
<1>8. ASSUME NEW i \in 1 .. m - 1
      PROVE  /\ i \in 1 .. m /\ P[i] = FrameAt(K[i].id, n + 1) /\ P[i].id = K[i].id /\ P[i] \in F /\ K[i].id # g
  <2>1. i \in 1 .. m /\ i < m /\ m \in 1 .. m
    BY <1>2
  <2> DEFINE f == K[i].id
  <2>2. f \in Cst!Ids /\ Cst!Inside(f, g) /\ Cst!Start(f) < Cst!Start(g)
    BY <1>2, <1>3, <2>1
  <2>3. f # g
    BY <2>2, CstRow
  <2>4. Ended(n) \in SUBSET Cst!Ids
    BY DEF Ended
  <2>5. /\ \A c \in Cst!Ids : c # g /\ Cst!Inside(g, c) => c \in Ended(n)
        /\ \A c \in Ended(n) : ~Cst!Inside(c, g)
    BY <1>2, <2>4
  <2>6. K[i] = FrameAt(f, n)
    BY <1>3, <2>1
  <2>7. P[i] = [K[i] EXCEPT !.child = @ + time]
    BY <1>2, <2>1 DEF Cst!Propagated
  <2> HIDE DEF f, P, K, time
  <2>8. /\ Cardinality(Covered(f, Ended(n + 1))) = Cardinality(Covered(f, Ended(n))) + time
        /\ Cardinality(Covered(f, Ended(n + 1))) \in Nat
    <3>1. /\ Cardinality(Covered(f, Ended(n) \cup {g})) = Cardinality(Covered(f, Ended(n))) + Cst!OwnTime(g)
          /\ Cardinality(Covered(f, Ended(n) \cup {g})) \in Nat
      BY <1>1, <2>2, <2>3, <2>4, <2>5, CoveredGrows
    <3> QED
      BY <1>1, <3>1 DEF time
  <2>9. PICK q : q = [FrameAt(f, n) EXCEPT !.child = @ + time]
    OBVIOUS
  <2>10. q = FrameAt(f, n + 1)
    BY <2>8, <2>9 DEF FrameAt
  <2>11. P[i] = FrameAt(f, n + 1)
    BY <2>6, <2>7, <2>9, <2>10
  <2>12. FrameAt(f, n + 1) \in [id : Cst!Ids, start : Int, child : Nat] /\ FrameAt(f, n + 1).id = f
    BY <2>2, <2>8, CstRow DEF FrameAt
  <2> QED
    BY <2>1, <2>3, <2>11, <2>12 DEF f
<1>9. L \in Seq(F) /\ Len(L) = m - 1 /\ \A i \in 1 .. m - 1 : L[i] = P[i]
  <2>1. \A i \in 1 .. m - 1 : P[i] \in F
    BY <1>8
  <2>2. m - 1 \in Int /\ 1 \in Int
    BY <1>2
  <2> HIDE DEF P, F, m
  <2>3. /\ L \in Seq(F) /\ Len(L) = IF 1 <= m - 1 THEN (m - 1) - 1 + 1 ELSE 0
        /\ \A i \in 1 .. (m - 1) - 1 + 1 : L[i] = P[1 + i - 1]
    BY <2>1, <2>2, SubSeqProperties
  <2>4. \A i \in 1 .. m - 1 : 1 + i - 1 = i
    BY <2>2
  <2> HIDE DEF L
  <2> QED
    BY <1>2, <2>2, <2>3, <2>4
<1>10. R \in Seq(Cst!CallStacksOf) /\ Len(R) = m /\ \A i \in 1 .. m : R[i] = RowOf(K[i].id, g)
  <2>1. ASSUME NEW i \in 1 .. m PROVE RowOf(K[i].id, g) \in Cst!CallStacksOf
    <3>1. <<K[i].id, g>> \in {p \in Cst!Ids \X Cst!Ids : Cst!Inside(p[1], p[2])}
      BY <1>2
    <3> QED
      BY <3>1 DEF Cst!CallStacksOf, RowOf
  <2>2. R \in [1 .. m -> Cst!CallStacksOf] /\ \A i \in 1 .. m : R[i] = RowOf(K[i].id, g)
    BY <2>1
  <2>3. R \in Seq(Cst!CallStacksOf)
    BY <1>2, <2>2, SeqDef
  <2>4. DOMAIN R = 1 .. m
    OBVIOUS
  <2> QED
    BY <1>2, <2>2, <2>3, <2>4, LenProperties
<1> DEFINE Q == st.rows \o R
           len == Len(st.rows)
<1>11. /\ Q \in Seq(Cst!CallStacksOf) /\ len \in Nat /\ Len(Q) = len + m
       /\ \A i \in 1 .. len : Q[i] = st.rows[i]
       /\ \A i \in 1 .. m : Q[len + i] = RowOf(K[i].id, g)
       /\ \A i \in 1 .. len + m : i \in 1 .. len \/ (i - len \in 1 .. m /\ Q[i] = RowOf(K[i - len].id, g))
  <2>1. len \in Nat
    BY <1>3, LenProperties
  <2> HIDE DEF R, K, m
  <2>2. /\ Q \in Seq(Cst!CallStacksOf) /\ Len(Q) = len + m
        /\ \A i \in 1 .. len + m : Q[i] = IF i <= len THEN st.rows[i] ELSE R[i - len]
    <3>1. st.rows \in Seq(Cst!CallStacksOf) /\ R \in Seq(Cst!CallStacksOf) /\ Len(R) = m
      BY <1>3, <1>10
    <3>2. /\ Q \in Seq(Cst!CallStacksOf) /\ Len(Q) = Len(st.rows) + Len(R)
          /\ \A i \in 1 .. Len(st.rows) + Len(R) : Q[i] = IF i <= Len(st.rows) THEN st.rows[i] ELSE R[i - Len(st.rows)]
      BY <3>1, ConcatProperties
    <3> HIDE DEF Q
    <3> QED
      BY <3>1, <3>2
  <2> HIDE DEF Q, len
  <2>3. \A i \in 1 .. len : i \in 1 .. len + m /\ i <= len
    BY <1>2, <2>1
  <2>4. \A i \in 1 .. m : len + i \in 1 .. len + m /\ ~(len + i <= len) /\ len + i - len = i
    BY <1>2, <2>1
  <2>5. \A i \in 1 .. len + m : i \in 1 .. len \/ (i - len \in 1 .. m /\ ~(i <= len))
    BY <1>2, <2>1
  <2>6. \A i \in 1 .. len : Q[i] = st.rows[i]
    BY <2>2, <2>3
  <2>7. \A i \in 1 .. m : R[i] = RowOf(K[i].id, g)
    BY <1>10
  <2>8. \A i \in 1 .. m : Q[len + i] = RowOf(K[i].id, g)
    <3> TAKE i \in 1 .. m
    <3>1. PICK k : k = len + i
      OBVIOUS
    <3>2. k \in 1 .. len + m /\ ~(k <= len) /\ k - len = i
      BY <1>2, <2>1, <3>1
    <3>3. Q[k] = R[k - len]
      BY <2>2, <3>2
    <3>4. Q[k] = R[i]
      BY <3>2, <3>3
    <3>5. R[i] = RowOf(K[i].id, g)
      BY <2>7
    <3> QED
      BY <3>1, <3>4, <3>5
  <2>9. \A i \in 1 .. len + m : i \in 1 .. len \/ (i - len \in 1 .. m /\ Q[i] = RowOf(K[i - len].id, g))
    BY <2>2, <2>5, <2>7
  <2> QED
    BY <2>1, <2>2, <2>6, <2>8, <2>9
<1>12. to.stack = L /\ to.rows = Q /\ to = [stack |-> to.stack, rows |-> to.rows]
  OBVIOUS
<1> HIDE DEF L, Q, R, P, to, F, K, len, m, time
<1>13. to.stack \in Seq([id : Cst!Ids, start : Int, child : Nat]) /\ to.rows \in Seq(Cst!CallStacksOf)
  BY <1>9, <1>11, <1>12 DEF F
<1>14. \A i \in 1 .. m - 1 : L[i] = FrameAt(L[i].id, n + 1) /\ L[i].id = K[i].id /\ L[i].id \in Begun(n + 1) \ Ended(n + 1)
  <2> TAKE i \in 1 .. m - 1
  <2>1. L[i] = FrameAt(K[i].id, n + 1) /\ L[i].id = K[i].id /\ K[i].id # g /\ i \in 1 .. m
    BY <1>8, <1>9
  <2> QED
    BY <1>1, <1>3, <2>1
<1>15. \A i, j \in 1 .. m - 1 : i < j => Cst!Start(L[i].id) < Cst!Start(L[j].id)
  BY <1>3, <1>8, <1>14
<1>16. \A f \in Begun(n + 1) \ Ended(n + 1) : \E i \in 1 .. m - 1 : L[i].id = f
  <2> TAKE f \in Begun(n + 1) \ Ended(n + 1)
  <2>1. PICK i \in 1 .. m : K[i].id = f
    BY <1>1, <1>3
  <2>2. f # g
    BY <1>1
  <2>3. i \in 1 .. m - 1
    BY <1>2, <2>1, <2>2
  <2> QED
    BY <1>14, <2>1, <2>3
<1>17. \A i \in 1 .. len + m : Q[i].child \in Ended(n + 1)
  <2> TAKE i \in 1 .. len + m
  <2>1. CASE i \in 1 .. len
    BY <1>1, <1>3, <1>11, <2>1 DEF len
  <2>2. CASE i - len \in 1 .. m /\ Q[i] = RowOf(K[i - len].id, g)
    BY <1>1, <2>2, RowOfIs
  <2> QED
    BY <1>11, <2>1, <2>2
<1>18. \A i, j \in 1 .. len + m : Q[i] = Q[j] => i = j
  <2>1. ASSUME NEW i \in 1 .. len + m, NEW j \in 1 .. len + m, Q[i] = Q[j], i \in 1 .. len, j \notin 1 .. len
        PROVE  FALSE
    <3>1. Q[i].child \in Ended(n)
      BY <1>3, <1>11, <2>1 DEF len
    <3>2. Q[j].child = g
      BY <1>11, <2>1, RowOfIs
    <3> QED
      BY <1>1, <2>1, <3>1, <3>2
  <2>2. ASSUME NEW i \in 1 .. len + m, NEW j \in 1 .. len + m, Q[i] = Q[j], i \in 1 .. len, j \in 1 .. len
        PROVE  i = j
    <3>1. st.rows[i] = st.rows[j]
      BY <1>11, <2>2
    <3> QED
      BY <1>3, <2>2, <3>1 DEF len
  <2>3. ASSUME NEW i \in 1 .. len + m, NEW j \in 1 .. len + m, Q[i] = Q[j], i \notin 1 .. len, j \notin 1 .. len
        PROVE  i = j
    <3>1. /\ i - len \in 1 .. m /\ Q[i] = RowOf(K[i - len].id, g)
          /\ j - len \in 1 .. m /\ Q[j] = RowOf(K[j - len].id, g)
      BY <1>11, <2>3
    <3>2. K[i - len].id = K[j - len].id
      <4>1. Q[i].parent = K[i - len].id /\ Q[j].parent = K[j - len].id
        BY <3>1, RowOfIs
      <4> QED
        BY <2>3, <4>1
    <3>3. \A a, b \in 1 .. m : K[a].id = K[b].id => a = b
      <4>1. ASSUME NEW a \in 1 .. m, NEW b \in 1 .. m, a < b, K[a].id = K[b].id PROVE FALSE
        <5>1. Cst!Start(K[a].id) < Cst!Start(K[b].id) /\ Cst!Start(K[a].id) \in Int
          BY <1>2, <1>3, <4>1, CstRow
        <5> QED
          BY <4>1, <5>1
      <4> QED
        BY <1>2, <4>1
    <3>4. i - len = j - len
      BY <3>1, <3>2, <3>3
    <3> QED
      BY <1>2, <1>11, <3>4
  <2> QED
    BY <2>1, <2>2, <2>3
<1>19. \A a \in Cst!Ids : \A f \in Ended(n + 1) :
          Cst!Inside(a, f) => \E i \in 1 .. len + m : Q[i] = RowOf(a, f)
  <2> TAKE a \in Cst!Ids
  <2> TAKE f \in Ended(n + 1)
  <2> HAVE Cst!Inside(a, f)
  <2>1. CASE f = g
    <3>1. PICK i \in 1 .. m : K[i].id = a
      BY <1>2, <1>3, <2>1
    <3>2. len + i \in 1 .. len + m /\ Q[len + i] = RowOf(K[i].id, g)
      BY <1>2, <1>11
    <3> QED
      BY <2>1, <3>1, <3>2
  <2>2. CASE f # g
    <3>1. PICK i \in 1 .. len : st.rows[i] = RowOf(a, f)
      BY <1>1, <1>3, <2>2 DEF len
    <3>2. i \in 1 .. len + m /\ Q[i] = st.rows[i]
      BY <1>2, <1>11
    <3> QED
      BY <3>1, <3>2
  <2> QED
    BY <2>1, <2>2
<1>20. ReplayInv(n + 1, to)
  <2>0. Len(to.stack) = m - 1 /\ Len(to.rows) = len + m
    BY <1>9, <1>11, <1>12
  <2>1. /\ \A i \in 1 .. Len(to.stack) :
             to.stack[i] = FrameAt(to.stack[i].id, n + 1) /\ to.stack[i].id \in Begun(n + 1) \ Ended(n + 1)
        /\ \A i, j \in 1 .. Len(to.stack) : i < j => Cst!Start(to.stack[i].id) < Cst!Start(to.stack[j].id)
        /\ \A f \in Begun(n + 1) \ Ended(n + 1) : \E i \in 1 .. Len(to.stack) : to.stack[i].id = f
    BY <1>12, <1>14, <1>15, <1>16, <2>0
  <2>2. /\ \A i \in 1 .. Len(to.rows) : to.rows[i].child \in Ended(n + 1)
        /\ \A i, j \in 1 .. Len(to.rows) : to.rows[i] = to.rows[j] => i = j
        /\ \A a \in Cst!Ids : \A f \in Ended(n + 1) :
              Cst!Inside(a, f) => \E i \in 1 .. Len(to.rows) : to.rows[i] = RowOf(a, f)
    BY <1>12, <1>17, <1>18, <1>19, <2>0
  <2> QED
    BY <1>12, <1>13, <2>1, <2>2 DEF ReplayInv
<1> QED
  BY <1>7, <1>20

LEMMA ReplaysAgree == ASSUME CstInv PROVE \A n \in 0 .. 2 * Len(rocpd_api) : ReplayInv(n, Cst!Replayed[n])
<1> DEFINE T == {n \in Nat : n <= 2 * Len(rocpd_api) => ReplayInv(n, Cst!Replayed[n])}
<1>1. 0 \in T
  <2>1. Begun(0) = {} /\ Ended(0) = {}
    <3>1. \A f \in Cst!Ids : /\ ~(Cardinality(Preceding(Opening(f))) < 0)
                             /\ ~(Cardinality(Preceding(Closing(f))) < 0)
      <4> TAKE f \in Cst!Ids
      <4>1. Opening(f) \in Cst!EventSet /\ Closing(f) \in Cst!EventSet
        BY EventIs
      <4>2. /\ Cardinality(Preceding(Opening(f))) \in 0 .. 2 * Len(rocpd_api) - 1
            /\ Cardinality(Preceding(Closing(f))) \in 0 .. 2 * Len(rocpd_api) - 1
        BY <4>1, PrecedingIs
      <4> QED
        BY <4>2
    <3> QED
      BY <3>1 DEF Begun, Ended
  <2>2. NoReplay.stack = <<>> /\ NoReplay.rows = <<>> /\ NoReplay = [stack |-> NoReplay.stack, rows |-> NoReplay.rows]
    BY DEF NoReplay
  <2>3. /\ <<>> \in Seq([id : Cst!Ids, start : Int, child : Nat]) /\ <<>> \in Seq(Cst!CallStacksOf)
        /\ Len(<<>>) = 0
    BY EmptySeq
  <2>4. 1 .. Len(NoReplay.stack) = {} /\ 1 .. Len(NoReplay.rows) = {}
    BY <2>2, <2>3
  <2>5. ReplayInv(0, NoReplay)
    BY <2>1, <2>2, <2>3, <2>4 DEF ReplayInv
  <2> QED
    BY <2>5, ReplayedUnfolds
<1>2. ASSUME NEW n \in Nat, n \in T PROVE n + 1 \in T
  <2>1. SUFFICES ASSUME n + 1 <= 2 * Len(rocpd_api) PROVE ReplayInv(n + 1, Cst!Replayed[n + 1])
    OBVIOUS
  <2>2. n \in 0 .. 2 * Len(rocpd_api) - 1 /\ n + 1 \in 1 .. 2 * Len(rocpd_api)
    BY <2>1, CstRow
  <2>3. ReplayInv(n, Cst!Replayed[n])
    BY <1>2, <2>2, CstRow
  <2>4. Cst!Events[n + 1] \in Cst!EventSet
    BY <2>2, EventsAre
  <2>5. PICK g \in Cst!Ids : Cst!Events[n + 1] = Opening(g) \/ Cst!Events[n + 1] = Closing(g)
    BY <2>4, EventIs
  <2>6. Cst!Replayed[n + 1] = Cst!Replay(Cst!Replayed[n], Cst!Events[n + 1])
    BY ReplayedUnfolds
  <2>7. CASE Cst!Events[n + 1] = Opening(g)
    BY <2>2, <2>3, <2>6, <2>7, ReplayOpening
  <2>8. CASE Cst!Events[n + 1] = Closing(g)
    BY <2>2, <2>3, <2>6, <2>8, ReplayClosing
  <2> QED
    BY <2>5, <2>7, <2>8
<1> HIDE DEF T
<1>3. \A n \in Nat : n \in T
  BY <1>1, <1>2, NatSetInduction, Zenon
<1> QED
  BY <1>3, CstRow DEF T

\* The replay gives each row below exactly the rows around it, each once.
LEMMA ReplayIs ==
    ASSUME CstInv
    PROVE  /\ Range(Cst!generateCallStacksPython) = Cst!CallStacksOf
           /\ Len(Cst!generateCallStacksPython) = Cardinality(Cst!CallStacksOf)
<1> DEFINE N == 2 * Len(rocpd_api)
           Q == Cst!generateCallStacksPython
<1>1. Q = Cst!Replayed[N].rows
  BY EventsAre DEF Cst!generateCallStacksPython
<1>2. ReplayInv(N, Cst!Replayed[N])
  BY CstRow, ReplaysAgree
<1>3. Ended(N) = Cst!Ids
  <2>1. \A f \in Cst!Ids : Cardinality(Preceding(Closing(f))) < N
    BY EventIs, PrecedingIs, CstRow
  <2> QED
    BY <2>1 DEF Ended
<1> HIDE DEF N, Q
<1>4. /\ Q \in Seq(Cst!CallStacksOf)
      /\ \A i, j \in 1 .. Len(Q) : Q[i] = Q[j] => i = j
      /\ \A a \in Cst!Ids : \A f \in Cst!Ids :
            Cst!Inside(a, f) => \E i \in 1 .. Len(Q) : Q[i] = RowOf(a, f)
  BY <1>1, <1>2, <1>3 DEF ReplayInv
<1>5. Len(Q) \in Nat /\ DOMAIN Q = 1 .. Len(Q) /\ \A i \in 1 .. Len(Q) : Q[i] \in Cst!CallStacksOf
  BY <1>4, LenProperties, ElementOfSeq
<1>6. ASSUME NEW r \in Cst!CallStacksOf PROVE \E i \in 1 .. Len(Q) : Q[i] = r
  <2>1. PICK p \in Cst!Ids \X Cst!Ids : Cst!Inside(p[1], p[2]) /\ r = RowOf(p[1], p[2])
    BY DEF Cst!CallStacksOf, RowOf
  <2> QED
    BY <1>4, <2>1
<1>7. {Q[i] : i \in 1 .. Len(Q)} = Cst!CallStacksOf
  BY <1>5, <1>6
<1>8. Range(Q) = Cst!CallStacksOf
  BY <1>5, <1>7 DEF Range
<1>9. Cardinality({Q[i] : i \in 1 .. Len(Q)}) = Cardinality(1 .. Len(Q))
  <2>1. IsFiniteSet(1 .. Len(Q))
    BY <1>5, FS_Interval
  <2> QED
    BY <1>4, <1>5, <2>1, ImageCount
<1>10. Cardinality(1 .. Len(Q)) = Len(Q)
  <2>1. Cardinality(1 .. Len(Q)) = IF 1 > Len(Q) THEN 0 ELSE Len(Q) - 1 + 1
    BY <1>5, FS_Interval
  <2> QED
    BY <1>5, <2>1
<1> QED
  BY <1>7, <1>8, <1>9, <1>10 DEF Q

LEMMA CstAgree == ASSUME CstInv PROVE Cst!CallStacksAgree
<1>1. Cst!Range(Cst!generateCallStacksPython) = Range(Cst!generateCallStacksPython)
  BY DEF Cst!Range, Range
<1> QED
  BY <1>1, ReplayIs, JoinIs, CstCardinality DEF Cst!CallStacksAgree

LEMMA CstStart == ASSUME Cst!Init PROVE CstInv
<1>1. rocpd_api \in Seq([start : Int, end : Int]) /\ Len(rocpd_api) = 0
  BY EmptySeq DEF Cst!Init
<1>2. Cst!Ids = {}
  <2>1. DOMAIN rocpd_api = 1 .. Len(rocpd_api)
    BY <1>1, LenProperties
  <2> QED
    BY <1>1, <2>1 DEF Cst!Ids
<1> QED
  BY <1>1, <1>2 DEF CstInv

LEMMA CstStep == ASSUME CstInv, ~Placeholders, [Cst!Next]_rocpd_api PROVE CstInv'
<1>1. CASE Cst!Next
  <2>1. PICK start \in 0 .. EndOfTime, end \in 0 .. EndOfTime : Cst!Record([start |-> start, end |-> end])
    BY <1>1 DEF Cst!Next
  <2>2. start \in Int /\ end \in Int
    BY <2>1
  <2> DEFINE row == [start |-> start, end |-> end]
  <2>0. PICK n : n = Len(rocpd_api) + 1
    OBVIOUS
  <2>3. row \in [start : Int, end : Int] /\ row.start = start /\ row.end = end
    BY <2>2
  <2> HIDE DEF row
  <2>4. /\ start <= end /\ rocpd_api' = Append(rocpd_api, row)
        /\ \A f \in Cst!Ids : /\ Cst!End(f) < start \/ Cst!Around(row, rocpd_api[f])
                              /\ Cst!Start(f) # start
    BY <2>1, <2>3 DEF Cst!Record, row
  <2>5. /\ rocpd_api' \in Seq([start : Int, end : Int]) /\ Len(rocpd_api') = n
        /\ \A f \in 1 .. Len(rocpd_api) : rocpd_api'[f] = rocpd_api[f]
        /\ rocpd_api'[n] = row
    BY <2>0, <2>3, <2>4, AppendProperties DEF CstInv
  <2>6. Cst!Ids = 1 .. Len(rocpd_api) /\ Len(rocpd_api) \in Nat
    BY CstRow
  <2>7. DOMAIN rocpd_api' = 1 .. n
    BY <2>5, LenProperties
  <2>8. Cst!Ids' = 1 .. n
    BY <2>7 DEF Cst!Ids
  <2>9. \A f \in Cst!Ids : Cst!Start(f)' = Cst!Start(f) /\ Cst!End(f)' = Cst!End(f) /\ rocpd_api'[f] = rocpd_api[f]
    BY <2>5, <2>6 DEF Cst!Start, Cst!End
  <2>10. Cst!Start(n)' = start /\ Cst!End(n)' = end
    BY <2>3, <2>5 DEF Cst!Start, Cst!End
  <2>11. \A f \in Cst!Ids' : f \in Cst!Ids \/ f = n
    BY <2>0, <2>6, <2>8
  <2>12. \A f \in Cst!Ids' : (Cst!Start(f) <= Cst!End(f))'
    BY <2>4, <2>9, <2>10, <2>11 DEF CstInv
  <2>13. ASSUME NEW f \in Cst!Ids', NEW g \in Cst!Ids', f < g
         PROVE  (/\ Cst!Start(f) # Cst!Start(g)
                 /\ Cst!End(f) < Cst!Start(g) \/ Cst!Around(rocpd_api[g], rocpd_api[f]))'
    <3>1. f \in Cst!Ids
      BY <2>0, <2>6, <2>8, <2>13
    <3>2. CASE g \in Cst!Ids
      <4>1. /\ Cst!Start(f) # Cst!Start(g)
            /\ Cst!End(f) < Cst!Start(g) \/ Cst!Around(rocpd_api[g], rocpd_api[f])
        BY <2>13, <3>1, <3>2 DEF CstInv
      <4> QED
        BY <2>9, <3>1, <3>2, <4>1 DEF Cst!Around
    <3>3. CASE g = n
      BY <2>4, <2>5, <2>9, <2>10, <3>1, <3>3 DEF Cst!Around
    <3> QED
      BY <2>11, <3>2, <3>3
  <2> QED
    BY <2>5, <2>12, <2>13 DEF CstInv
<1>2. CASE UNCHANGED rocpd_api
  BY <1>2 DEF CstInv, Cst!Ids, Cst!Start, Cst!End, Cst!Around
<1> QED
  BY <1>1, <1>2

\* Unless ranges that began before the tracing have rows: however many rows a thread
\* has, both ways list each row below exactly the rows around it, at its distance,
\* with the time that no row inside it covers.
THEOREM CallersAgree == ~Placeholders => (SourcesSpec => []CallStacksAgree)
<1> SUFFICES ASSUME ~Placeholders PROVE SourcesSpec => []CallStacksAgree
  OBVIOUS
<1> DEFINE Inv == subject = "callstacks" => CstInv
<1>1. SourcesInit => Inv
  BY CstStart DEF SourcesInit
<1>2. Inv /\ [SourcesNext]_vars => Inv'
  <2>1. [SourcesNext]_vars => subject' = subject /\ (subject = "callstacks" => [Cst!Next]_rocpd_api)
    BY DEF SourcesNext, Rocprof, Roctracer, Cupti, ClrNext, AmdSmi, Clock, Probes, Filter, Sender,
       CallStacks, vars, onlineVars
  <2> QED
    BY <2>1, CstStep
<1>3. Inv => CallStacksAgree
  BY CstAgree DEF CallStacksAgree
<1> QED
  BY <1>1, <1>2, <1>3, PTL DEF SourcesSpec
=============================================================================
