---------------------------- MODULE MCCandleFeed ----------------------------
(* Instances of CandleFeed for TLC. *)
EXTENDS CandleFeed, TLC

CONSTANT s1

\* A bar as long as the fetch interval.
OneLength == s1 :> 4

=============================================================================
