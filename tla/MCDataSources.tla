----------------------------- MODULE MCDataSources -----------------------------
(***************************************************************************)
(* DataSources for TLC: the values of the constants that are functions.    *)
(***************************************************************************)
EXTENDS DataSources, TLC

CONSTANTS Kernel1, Kernel2                      \* kernel ids, of one name

MCSetsOf     == [a \in Agents |-> <<1, 2>>]
MCNameOf     == [k \in {Kernel1, Kernel2} |-> "k"]
MCCountersOf == << <<"busy", "busy">>, <<"insts", "waves">> >>
MCSlots      == <<"sclk", "power">>
MCDeadband   == [s \in {"sclk", "power"} |-> IF s = "power" THEN 2 ELSE 0]

Symmetry == Permutations(Processes) \cup Permutations({Kernel1, Kernel2})
=============================================================================
