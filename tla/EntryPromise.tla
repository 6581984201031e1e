---------------------------- MODULE EntryPromise ----------------------------
(***************************************************************************)
(* What the entry half of the loop promises, whichever order type carries  *)
(* a signal: every signal acted on is decided, once, as one open position  *)
(* or as none, and a symbol never holds more positions than its cap.       *)
(***************************************************************************)
EXTENDS Integers

CONSTANTS Entries, Symbols, MaxOpen

VARIABLES
    state,  \* of each entry: "idle", "pending", "opened" or "dropped"
    of,     \* the symbol an entry is for
    held    \* open positions of each symbol

pvars == <<state, of, held>>

PInit ==
    /\ state = [e \in Entries |-> "idle"]
    /\ of \in [Entries -> Symbols]
    /\ held = [s \in Symbols |-> 0]

Accept(e, s) ==
    /\ state[e] = "idle" /\ held[s] < MaxOpen
    /\ state' = [state EXCEPT ![e] = "pending"]
    /\ of' = [of EXCEPT ![e] = s]
    /\ UNCHANGED held

Opened(e) ==
    /\ state[e] = "pending" /\ held[of[e]] < MaxOpen
    /\ state' = [state EXCEPT ![e] = "opened"]
    /\ held' = [held EXCEPT ![of[e]] = @ + 1]
    /\ UNCHANGED of

Dropped(e) ==
    /\ state[e] = "pending"
    /\ state' = [state EXCEPT ![e] = "dropped"]
    /\ UNCHANGED <<of, held>>

Closed(s) ==
    /\ held[s] > 0
    /\ held' = [held EXCEPT ![s] = @ - 1]
    /\ UNCHANGED <<state, of>>

PNext ==
    \/ \E e \in Entries : Opened(e) \/ Dropped(e) \/ (\E s \in Symbols : Accept(e, s))
    \/ \E s \in Symbols : Closed(s)

\* Every pending entry is decided.
PFairness == \A e \in Entries : WF_pvars(Opened(e) \/ Dropped(e))

PSpec == PInit /\ [][PNext]_pvars /\ PFairness

=============================================================================
