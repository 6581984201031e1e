------------------------------ MODULE Settings ------------------------------
(***************************************************************************)
(* The settings of the system: the rows of the settings table, edited by   *)
(* the admin endpoints, by the command-line tools of another process and   *)
(* by the script that fills in the defaults; and SettingsCache, loaded     *)
(* when the process starts, again by every edit through the API and again  *)
(* by a timer thread.  A load reads the rows without the lock of the cache *)
(* and installs them under it a moment later; the API handler (it never    *)
(* awaits, so there is one at a time) and the timer thread load side by    *)
(* side.                                                                   *)
(***************************************************************************)
EXTENDS Naturals

CONSTANTS
    Nothing,     \* no row, no value, no reading under way
    Global,      \* the profile name '0'
    Profiles,    \* names of trading profiles
    Names,       \* setting names
    Values,      \* the strings a setting may hold
    AsInt,       \* what int() makes of each, Nothing when it raises
    Default,     \* the default a property of SettingsHelper gives
    MaxEdits     \* bound: edits of the table and restarts

Owners == Profiles \cup {Global}
Tables == [Owners \X Names -> Values \cup {Nothing}]

SettingsAssumption == Global \notin Profiles /\ AsInt \in [Values -> Nat \cup {Nothing}]

VARIABLES
    rows,        \* the settings table
    cache,       \* SettingsCache._cache
    handler,     \* the API handler: what it does next, and the rows it has read
    timer,       \* the refresh thread: the rows it has read
    up,          \* the process is up
    edits,       \* number of edits and restarts used up
    wrote,       \* history: the last edit through the API in this process
    held         \* history: every content the table has had

vars == <<rows, cache, handler, timer, up, edits, wrote, held>>

Empty == [k \in Owners \X Names |-> Nothing]
AtRest == [stage |-> "rest", read |-> Nothing]

Init ==
    /\ rows = Empty
    /\ cache = rows
    /\ handler = AtRest
    /\ timer = Nothing
    /\ up = TRUE
    /\ edits = 0
    /\ wrote = Nothing
    /\ held = {Empty}

-----------------------------------------------------------------------------
\* SettingsCache.get: the profile's own value before the global one.
Get(table, name, profile) ==
    IF profile # Nothing /\ table[<<profile, name>>] # Nothing
    THEN table[<<profile, name>>]
    ELSE table[<<Global, name>>]

\* get_int: a value that is no integer counts as missing.
GetInt(table, name, profile) ==
    LET v == Get(table, name, profile)
    IN  IF v = Nothing \/ AsInt[v] = Nothing THEN Default ELSE AsInt[v]

\* get_settings_for_profile and get_all_for_profile: the global values,
\* overridden by the profile's.
ForProfile(table, profile) ==
    [n \in Names |-> IF table[<<profile, n>>] # Nothing THEN table[<<profile, n>>]
                     ELSE table[<<Global, n>>]]

-----------------------------------------------------------------------------
Edited(table) ==
    /\ edits < MaxEdits
    /\ edits' = edits + 1
    /\ rows' = table
    /\ held' = held \cup {table}

\* admin_upsert_setting: update_setting creates the row when there is none and
\* commits; then the handler refreshes the cache.
Upsert(owner, name, value) ==
    /\ up /\ handler.stage = "rest"
    /\ Edited([rows EXCEPT ![<<owner, name>>] = value])
    /\ handler' = [stage |-> "refresh", read |-> Nothing]
    /\ wrote' = [key |-> <<owner, name>>, value |-> value]
    /\ UNCHANGED <<cache, timer, up>>

\* admin_delete_setting: a row that is not there is a 404, without a refresh.
Delete(owner, name) ==
    /\ up /\ handler.stage = "rest"
    /\ rows[<<owner, name>>] # Nothing
    /\ Edited([rows EXCEPT ![<<owner, name>>] = Nothing])
    /\ handler' = [stage |-> "refresh", read |-> Nothing]
    /\ wrote' = [key |-> <<owner, name>>, value |-> Nothing]
    /\ UNCHANGED <<cache, timer, up>>

\* admin_refresh_cache("settings").
RefreshByHand ==
    /\ up /\ handler.stage = "rest"
    /\ handler' = [stage |-> "refresh", read |-> Nothing]
    /\ UNCHANGED <<rows, cache, timer, up, edits, wrote, held>>

\* The settings_manager tool sets or deletes (Nothing) a row in a process of its
\* own: there is no cache to refresh there.
SetByTool(owner, name, value) ==
    /\ value = Nothing => rows[<<owner, name>>] # Nothing
    /\ Edited([rows EXCEPT ![<<owner, name>>] = value])
    /\ UNCHANGED <<cache, handler, timer, up, wrote>>

\* initialize_default_settings: global rows that are missing, and only those.
PopulateDefaults(value) ==
    /\ Edited([k \in Owners \X Names |->
                  IF k[1] = Global /\ rows[k] = Nothing THEN value ELSE rows[k]])
    /\ UNCHANGED <<cache, handler, timer, up, wrote>>

-----------------------------------------------------------------------------
\* SettingsCache.refresh reads all rows ...
Read == rows
\* ... and replaces what the cache holds under its lock.
Install(read) == cache' = read

HandlerReads ==
    /\ up /\ handler.stage = "refresh"
    /\ handler' = [stage |-> "install", read |-> Read]
    /\ UNCHANGED <<rows, cache, timer, up, edits, wrote, held>>

\* A failed read is logged; the handler answers ok all the same.
HandlerFails ==
    /\ up /\ handler.stage = "refresh"
    /\ handler' = AtRest
    /\ UNCHANGED <<rows, cache, timer, up, edits, wrote, held>>

HandlerInstalls ==
    /\ up /\ handler.stage = "install"
    /\ Install(handler.read)
    /\ handler' = AtRest
    /\ UNCHANGED <<rows, timer, up, edits, wrote, held>>

\* Mutant of TimerReads: it reads once and never again.
TimerReadsOnce ==
    /\ up /\ timer = Nothing /\ cache = Empty
    /\ timer' = Read
    /\ UNCHANGED <<rows, cache, handler, up, edits, wrote, held>>

\* The refresh thread, when its interval is over.
TimerReads ==
    /\ up /\ timer = Nothing
    /\ timer' = Read
    /\ UNCHANGED <<rows, cache, handler, up, edits, wrote, held>>

TimerInstalls ==
    /\ up /\ timer # Nothing
    /\ Install(timer)
    /\ timer' = Nothing
    /\ UNCHANGED <<rows, handler, up, edits, wrote, held>>

\* The process stops, and starts with a first load that may fail.
Stop ==
    /\ up /\ edits < MaxEdits
    /\ up' = FALSE
    /\ cache' = Empty /\ handler' = AtRest /\ timer' = Nothing /\ wrote' = Nothing
    /\ edits' = edits + 1
    /\ UNCHANGED <<rows, held>>

Start(ok) ==
    /\ ~ up
    /\ up' = TRUE
    /\ cache' = IF ok THEN Read ELSE Empty
    /\ UNCHANGED <<rows, handler, timer, edits, wrote, held>>

Next ==
    \/ \E o \in Owners, n \in Names, v \in Values : Upsert(o, n, v)
    \/ \E o \in Owners, n \in Names, v \in Values \cup {Nothing} : SetByTool(o, n, v)
    \/ \E o \in Owners, n \in Names : Delete(o, n)
    \/ \E v \in Values : PopulateDefaults(v)
    \/ RefreshByHand
    \/ HandlerReads \/ HandlerFails \/ HandlerInstalls
    \/ TimerReads \/ TimerInstalls
    \/ Stop \/ \E ok \in BOOLEAN : Start(ok)

Spec == Init /\ [][Next]_vars

\* The timer goes off again and again, the database is not down for ever and a
\* process that is down is started.
Fairness ==
    /\ WF_vars(TimerReads) /\ WF_vars(TimerInstalls)
    /\ WF_vars(HandlerReads \/ HandlerFails) /\ WF_vars(HandlerInstalls)
    /\ WF_vars(\E ok \in BOOLEAN : Start(ok))
FairSpec == Spec /\ Fairness

-----------------------------------------------------------------------------
TypeOK ==
    /\ rows \in Tables /\ cache \in Tables
    /\ handler.stage \in {"rest", "refresh", "install"}
    /\ timer \in Tables \cup {Nothing}

(* Nobody acts on a mixture of two versions of the settings: what a profile   *)
(* is given, setting by setting or all at once, is what one content of the    *)
(* table gives it, although the table is read and the cache replaced at       *)
(* different moments by two threads.                                          *)
OneVersion ==
    \E t \in held : \A p \in Profiles :
        /\ ForProfile(cache, p) = ForProfile(t, p)
        /\ \A n \in Names : GetInt(cache, n, p) = GetInt(t, n, p)

(* Once the edits end, every reader gets the values of the table: an older    *)
(* reading that is installed last, or a failed refresh, does not stay.        *)
EditsArrive == <>[](cache = rows)

(* An edit through the API is in force once the endpoint has answered, as its *)
(* docstring says ("then immediately refresh the settings cache").  Not so    *)
(* when the refresh fails, which the handler does not notice, nor when the    *)
(* timer thread installs what it had read before the edit.                    *)
InForceAtOnce ==
    (handler.stage = "rest" /\ wrote # Nothing /\ rows[wrote.key] = wrote.value)
        => cache[wrote.key] = wrote.value
=============================================================================
