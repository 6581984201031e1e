---------------------------- MODULE MCSignalLoop ----------------------------
(* Instances of SignalLoop for TLC. *)
EXTENDS SignalLoop, TLC

CONSTANTS p1, p2, s1, s2

\* Two profiles of a group that share a symbol.
Watched == p1 :> {s1, s2} @@ p2 :> {s1}

=============================================================================
