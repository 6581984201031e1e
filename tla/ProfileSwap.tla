---------------------------- MODULE ProfileSwap -----------------------------
(***************************************************************************)
(* One trading profile: its row, the operations of the API that edit,      *)
(* activate and deactivate it, the copy of it in the ProfileManager, the   *)
(* SignalGenerator built from that copy, and the monitoring loop, which    *)
(* signals and enters with the copy it took when a scan began and watches  *)
(* the positions of the profiles that are loaded.                          *)
(*                                                                         *)
(* A handler commits, reads all profiles back, swaps them in and clears    *)
(* the generators; the loop may run between any two of these.  Everything  *)
(* the row says of trading is a version: an edit of the profile, of its    *)
(* indicators, of its trading hours or of its credentials gives a new one. *)
(***************************************************************************)
EXTENDS Integers

CONSTANT
    MaxEdits    \* bound: writes of the row

ProfileAssumption == MaxEdits \in Nat

VARIABLES
    row,        \* the row: its version, is_active, enable_signal_generation
    loaded,     \* the ProfileManager's copy, or NoProfile
    generator,  \* version of the profile the cached generator was built with
    api,        \* where the handler of an edit is
    scan,       \* the loop's signal scan
    order,      \* an entry of this profile is at the exchange
    open,       \* the profile has an open position
    due         \* history: the write every scan that begins from now on must know

loadVars == <<loaded, generator>>
tradeVars == <<order, open>>
vars == <<row, loadVars, api, scan, tradeVars, due>>

NoProfile == [ver |-> -1, on |-> FALSE]
Resting == [at |-> "rest", with |-> NoProfile, gen |-> -1, need |-> 0]

Rows == [ver : 0 .. MaxEdits, active : BOOLEAN, on : BOOLEAN]
Copies == {NoProfile} \cup [ver : 0 .. MaxEdits, on : BOOLEAN]

TypeOK ==
    /\ row \in Rows /\ loaded \in Copies
    /\ generator \in -1 .. MaxEdits
    /\ api \in {"idle", "saved", "swapped"}
    /\ scan \in [at : {"rest", "took", "signalled"}, with : Copies,
                 gen : -1 .. MaxEdits, need : 0 .. MaxEdits]
    /\ order \in BOOLEAN /\ open \in BOOLEAN /\ due \in 0 .. MaxEdits

\* load_profiles_from_db reads active rows only.
Load(r) == IF r.active THEN [ver |-> r.ver, on |-> r.on] ELSE NoProfile

Init ==
    /\ row \in {r \in Rows : r.ver = 0}
    /\ loaded = Load(row) /\ generator = -1
    /\ api = "idle" /\ due = 0
    /\ scan = Resting /\ order = FALSE /\ open = FALSE

-----------------------------------------------------------------------------
(* The API.                                                                *)

Save(active, on) ==
    /\ api = "idle" /\ row.ver < MaxEdits
    /\ row' = [ver |-> row.ver + 1, active |-> active, on |-> on]
    /\ api' = "saved"
    /\ UNCHANGED <<loadVars, scan, tradeVars, due>>

\* The edits that leave the profile active or inactive as it was.
UpdateProfile == \E on \in BOOLEAN : Save(row.active, on)
EditIndicators == Save(row.active, row.on)
CopyIndicators == Save(row.active, row.on)
SaveTradingHours == Save(row.active, row.on)
UpdateCredentials == Save(row.active, row.on)

\* PUT takes is_active as any other field, whatever is open.
FlagEdited == Save(~row.active, row.on)

\* DELETE refuses while the profile has open positions.
Deactivate == ~open /\ Save(FALSE, row.on)
Activate == ~row.active /\ Save(TRUE, row.on)

\* POST /admin/cache/refresh/profiles.
RefreshByHand ==
    /\ api = "idle"
    /\ api' = "saved"
    /\ UNCHANGED <<row, loadVars, scan, tradeVars, due>>

SwapNames ==
    /\ api = "saved"
    /\ loaded' = IF row.active THEN Load(row) ELSE loaded
    /\ api' = "swapped"
    /\ UNCHANGED <<row, generator, scan, tradeVars, due>>

\* refresh_profiles_from_db: the swap, and then the generators.
ReplaceProfiles ==
    /\ api = "saved"
    /\ loaded' = Load(row)
    /\ api' = "swapped"
    /\ UNCHANGED <<row, generator, scan, tradeVars, due>>

\* A scan that took the old profile may still build a generator of it.
InvalidateGenerators ==
    /\ api = "swapped"
    /\ generator' = -1
    /\ due' = IF scan.at = "took" /\ scan.with # loaded THEN due ELSE row.ver
    /\ api' = "idle"
    /\ UNCHANGED <<row, loaded, scan, tradeVars>>

\* The database cannot be read back: the error is returned and not looked at.
RefreshFails ==
    /\ api = "saved"
    /\ api' = "idle"
    /\ UNCHANGED <<row, loadVars, scan, tradeVars, due>>

\* POST /admin/cache/refresh/signal_generators.
InvalidateByHand ==
    /\ api = "idle"
    /\ generator' = -1
    /\ UNCHANGED <<row, loaded, api, scan, tradeVars, due>>

-----------------------------------------------------------------------------
(* The monitoring loop.                                                    *)

\* _check_signals takes the profiles that generate signals.
TakeProfiles ==
    /\ scan = Resting /\ ~order
    /\ loaded.on
    /\ scan' = [at |-> "took", with |-> loaded, gen |-> -1, need |-> due]
    /\ UNCHANGED <<row, loadVars, api, tradeVars, due>>

\* get_signal_generator: by name, whatever profile it was built with.
ScanSymbols ==
    /\ scan.at = "took"
    /\ generator' = IF generator = -1 THEN scan.with.ver ELSE generator
    /\ \/ scan' = [scan EXCEPT !.at = "signalled", !.gen = generator']
       \/ scan' = Resting
    /\ UNCHANGED <<row, loaded, api, tradeVars, due>>

Execute ==
    /\ scan.at = "signalled"
    /\ order' = TRUE
    /\ scan' = Resting
    /\ UNCHANGED <<row, loadVars, api, open, due>>

\* The entry is booked by the thread that placed it, at once or, of a resting
\* order, when the loop finds it filled: it looks at loaded profiles only.
Book ==
    /\ order
    /\ order' = FALSE
    /\ open' \in {open, TRUE}
    /\ UNCHANGED <<row, loadVars, api, scan, due>>

\* _check_positions, of the profiles that are loaded.
WatchAndClose ==
    /\ open /\ loaded # NoProfile
    /\ open' = FALSE
    /\ UNCHANGED <<row, loadVars, api, scan, order, due>>

-----------------------------------------------------------------------------
Next ==
    \/ UpdateProfile \/ EditIndicators \/ CopyIndicators \/ SaveTradingHours
    \/ UpdateCredentials \/ FlagEdited \/ Deactivate \/ Activate
    \/ RefreshByHand \/ ReplaceProfiles \/ InvalidateGenerators
    \/ RefreshFails \/ InvalidateByHand
    \/ TakeProfiles \/ ScanSymbols \/ Execute \/ Book \/ WatchAndClose

Spec == Init /\ [][Next]_vars

\* Once an edit's refresh has ended, every scan that begins afterwards signals
\* and enters by what was written, and one of a deactivated profile does not
\* begin; unless a scan with the old profile was under way.
EditApplied ==
    /\ scan.at # "rest" => scan.with.ver >= scan.need
    /\ scan.at = "signalled" => scan.gen >= scan.need

\* An open position belongs to a loaded profile: nothing else would sell it
\* ("block deactivation if open positions exist", api_server.py).
OpenIsWatched == open => loaded # NoProfile

\* When nothing is under way, the generator is built from the profile as it is
\* loaded ("recreated with the latest profile on next call").
GeneratorCurrent ==
    api = "idle" /\ scan = Resting /\ loaded # NoProfile
        => generator \in {-1, loaded.ver}

=============================================================================
