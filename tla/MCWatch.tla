------------------------------- MODULE MCWatch -------------------------------
(* An instance of Watch for TLC: a long and a short around an entry price  *)
(* of 100 ticks, where the prices reach, on both sides, the arming         *)
(* threshold (1%), two raises of the trailing stop (2% away), the stop     *)
(* loss (3%) and the take profit (5%); and one series whose bars are three *)
(* ticks long, fetched every second tick, with a repeated alert that waits *)
(* longer than it takes to see the cause again.                            *)
EXTENDS Watch

OneLength == [x \in Series |-> 3]

ASSUME Health!AlertsAssumption
=============================================================================
