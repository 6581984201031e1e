------------------------------ MODULE MCServices ------------------------------
(* An instance of Services for TLC. *)
EXTENDS Services

CONSTANTS loop, value1, value2

\* A ban longer than a cycle, and longer than it is guessed when nothing is said.
TwoHosts == <<"data", "api">>

\* Validation and the trend check every second iteration.
Intervals == [c \in {"retention", "breakers", "trend", "validation", "dust", "signals"} |->
                 IF c \in {"validation", "trend"} THEN 2 ELSE 1]

\* One of the two values is no number.
SomeInts == [x \in {value1, value2} |-> IF x = value1 THEN 5 ELSE Nothing]

ASSUME /\ Hosts!HostsAssumption /\ Adapter!AdapterAssumption /\ Cycle!EveryAssumption
       /\ Setting!SettingsAssumption
=============================================================================
