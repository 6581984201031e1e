------------------------------- MODULE MCConfig -------------------------------
(* An instance of Config for TLC. *)
EXTENDS Config

CONSTANTS id1, id2, user1, user2, profile1

SomeIds == {id1, id2}

\* A close book, a wide one, a crossed one and one with an empty side.
SomeBooks == {[bids |-> {198, 196}, asks |-> {202}], [bids |-> {176}, asks |-> {296}],
              [bids |-> {204}, asks |-> {202}], [bids |-> {}, asks |-> {202}]}
Spelled == {"SOL_USDC", "SOL-USD"}
OtherSpelling == [s \in Spelled |-> IF s = "SOL_USDC" THEN "SOL-USD" ELSE "SOL_USDC"]

\* The re-entry waits, in rows.
Waits == [reason \in {"stop_loss", "take_profit", "trailing_stop", "stale_position",
                      "trend_invalidation"} |-> IF reason = "take_profit" THEN 2 ELSE 1]

ASSUME /\ SizeCacheAssumption /\ Swap!ProfileAssumption /\ Prompt!PromptAssumption
       /\ Feed!PriceAssumption /\ Session!AccessAssumption /\ Replay!BacktestAssumption
=============================================================================
