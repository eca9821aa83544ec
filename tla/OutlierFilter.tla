----------------------------- MODULE OutlierFilter -----------------------------
(***************************************************************************)
(* Which measurements of the clock offset are used: firefly_run() of       *)
(* rpd_tracer/Firefly.cpp takes the last one out of the ring of            *)
(* measurements unless it lies outside the fences of the last ones, and    *)
(* read_latest_measurements() removes what lies outside from these first.  *)
(* A fence is three interquartile ranges beyond a quartile.  The mean and  *)
(* the slope that are computed beside are used by nobody.  Firefly has the *)
(* exchange that makes the measurements; what an accepted one does to the  *)
(* offset is floating-point arithmetic and left out.                       *)
(***************************************************************************)
EXTENDS Integers, Sequences, FiniteSets, Functions

CONSTANTS
    Window,         \* MEDIAN_WINDOW_SIZE
    Capacity,       \* MAX_MEASUREMENT_COUNT
    Offsets,        \* what may be measured
    MaxMeasurements \* bound: measurements

VARIABLES
    measurements,   \* the ring: MeasurementBuffer
    count,
    used            \* what firefly_run() made of the last one: "yes", "no", "not yet"

filterVars == <<measurements, count, used>>

Init ==
    /\ measurements = [idx \in 0 .. Capacity - 1 |-> [time |-> 0, offset |-> 0]]
    /\ count = 0 /\ used = "yes"

\* Times are numbers of measurements.
record_measurement(offset) ==
    /\ count < MaxMeasurements
    /\ measurements' = [measurements EXCEPT ![count % Capacity] = [time |-> count + 1, offset |-> offset]]
    /\ count' = count + 1 /\ used' = "not yet"

-----------------------------------------------------------------------------
(* The fences around a set of measurements; each has a time of its own *)

\* The offset that sorting puts at index k, counted from 0.
Ranked(samples, k) ==
    CHOOSE offset \in {m.offset : m \in samples} :
        /\ Cardinality({m \in samples : m.offset < offset}) <= k
        /\ Cardinality({m \in samples : m.offset <= offset}) > k

Quartiles(samples) ==
    LET n == Cardinality(samples) IN <<Ranked(samples, n \div 4), Ranked(samples, (3 * n) \div 4)>>

Outlying(offset, samples) ==
    LET q   == Quartiles(samples)
        iqr == q[2] - q[1]
    IN offset < q[1] - 3 * iqr \/ offset > q[2] + 3 * iqr

-----------------------------------------------------------------------------
(* read_latest_measurements() and firefly_run() *)

\* Copied out of the ring in order, and read in the order of another ring.
Copied == LET available == IF count < Capacity THEN count ELSE Capacity IN
          [i \in 1 .. available |-> measurements[(count - available + i - 1) % Capacity]]

AsRing(w) == [i \in DOMAIN w |-> w[((count - Len(w) + i - 1) % Len(w)) + 1]]

\* Weaker: the ring's order is taken for the order of time.
LastInRing(w) == {w[i] : i \in {i \in DOMAIN w : i > Len(w) - Window}}
LastInTime(w) == {m \in Range(w) : Cardinality({n \in Range(w) : n.time > m.time}) < Window}

read_latest_measurements ==
    LET last == LastInTime(AsRing(Copied)) IN
    IF Cardinality(last) < 2 THEN last ELSE {m \in last : ~Outlying(m.offset, last)}

Latest   == measurements[(count - 1) % Capacity]
Rejected == /\ count > Window
            /\ read_latest_measurements # {}
            /\ Outlying(Latest.offset, read_latest_measurements)

firefly_run ==
    /\ used = "not yet"
    /\ used' = IF Rejected THEN "no" ELSE "yes"
    /\ UNCHANGED <<measurements, count>>

Next == (\E offset \in Offsets : record_measurement(offset)) \/ firefly_run

Spec == Init /\ [][Next]_filterVars

-----------------------------------------------------------------------------
(* Properties *)

\* "reject the latest sample if it's an outlier relative to the recent window"
\* (Firefly.cpp:261), and only then: an offset that differs from all others of a
\* window which agree is not used, one that more than a quarter of the window
\* has is, so that after a step of the clock at most a quarter of a window is
\* refused; however often the ring went round.
RejectsOutliersOnly ==
    LET own == {n \in count - Window + 1 .. count : measurements[(n - 1) % Capacity].offset = Latest.offset}
        others == {measurements[(n - 1) % Capacity].offset : n \in count - Window + 1 .. count - 1}
    IN count > Window /\ Window <= Capacity =>
         /\ used = "no" => Cardinality(own) <= Window \div 4
         /\ used = "yes" /\ Window >= 5 => Cardinality(others) > 1 \/ Latest.offset \in others
=============================================================================
