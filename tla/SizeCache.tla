----------------------------- MODULE SizeCache ------------------------------
(***************************************************************************)
(* The order size of one (profile, symbol): its row of symbol_configs, the *)
(* operations that write the row, the SymbolConfigCache every sizing reads *)
(* and the SymbolCache that says what the signal loop scans.               *)
(*                                                                         *)
(* Two threads read the cache: the monitoring loop, whose reload may be    *)
(* overtaken by anything, and the API's event loop, which also makes the   *)
(* edits.  db/manage.py and a second process write the row unseen.  Each   *)
(* write gives the row a new version.                                      *)
(***************************************************************************)
EXTENDS Integers

CONSTANTS
    TTL,       \* ttl_seconds
    Slow,      \* bound: time a reload spends between its query and its end
    MaxEdits,  \* bound: writes of the row
    MaxNow     \* bound: time

SizeCacheAssumption ==
    /\ {TTL, Slow, MaxEdits, MaxNow} \subseteq Nat
    /\ TTL > 0

VARIABLES
    row,       \* the row: its version, and "none", "on" or "off"
    cache,     \* the row as the cache holds it
    loadedAt,  \* _loaded_at; Never when invalidated
    listed,    \* SymbolCache: the profile's symbols include this one
    fetch,     \* the loop's reload under way: what it read, and when
    api,       \* the write the event loop is in the middle of
    now,
    until,     \* history: when each version ceased to be the row's
    missed,    \* history: the last reload failed
    due,       \* history: the version an edit has made every reader see
    answer     \* history: what the last sizing was told

rowVars == <<row, until>>
cacheVars == <<cache, loadedAt, missed>>
vars == <<rowVars, cacheVars, listed, fetch, api, now, due, answer>>

Never == -1
Nothing == [ver |-> Never, is |-> "none"]
Idle == [row |-> Nothing, at |-> Never]
States == {"none", "on", "off"}
Rows == [ver : 0 .. MaxEdits, is : States]

TypeOK ==
    /\ row \in Rows /\ cache \in Rows \cup {Nothing}
    /\ loadedAt \in {Never} \cup 0 .. MaxNow
    /\ listed \in BOOLEAN /\ missed \in BOOLEAN
    /\ fetch = Idle \/ fetch \in [row : Rows, at : 0 .. MaxNow]
    /\ api \in {"idle", "upsert", "clone"}
    /\ now \in 0 .. MaxNow
    /\ until \in [0 .. MaxEdits -> {Never} \cup 0 .. MaxNow]
    /\ due \in 0 .. MaxEdits

Init ==
    /\ \E s \in States : row = [ver |-> 0, is |-> s] /\ listed = (s = "on")
    /\ cache = Nothing /\ loadedAt = Never /\ missed = FALSE
    /\ fetch = Idle /\ api = "idle" /\ now = 0
    /\ until = [v \in 0 .. MaxEdits |-> Never] /\ due = 0
    /\ answer = [age |-> 0, seen |-> TRUE, missed |-> FALSE]

-----------------------------------------------------------------------------
(* Writes.  The row's commit and what the handler does after it are two    *)
(* steps for the loop's thread.                                            *)

Commit(state) ==
    /\ row.ver < MaxEdits
    /\ row' = [ver |-> row.ver + 1, is |-> state]
    /\ until' = [until EXCEPT ![row.ver] = now]

\* upsert_symbol_config for one symbol; the bulk form touches existing rows.
Upsert ==
    /\ api = "idle"
    /\ \E s \in {"on", "off"} : Commit(s)
    /\ api' = "upsert"
    /\ UNCHANGED <<cacheVars, listed, fetch, now, due, answer>>

BulkSet ==
    /\ api = "idle" /\ row.is # "none"
    /\ \E s \in {"on", "off"} : Commit(s)
    /\ api' = "upsert"
    /\ UNCHANGED <<cacheVars, listed, fetch, now, due, answer>>

\* A clone adds its rows itself, and leaves the symbol cache as it was.
Clone ==
    /\ api = "idle" /\ row.is = "none"
    /\ \E s \in {"on", "off"} : Commit(s)
    /\ api' = "clone"
    /\ UNCHANGED <<cacheVars, listed, fetch, now, due, answer>>

KeepLoaded(seen) ==
    /\ loadedAt' = loadedAt
    /\ due' = seen

\* A reload that read the row before this write may still publish it.
Invalidate(seen) ==
    /\ loadedAt' = Never
    /\ due' = IF fetch # Idle /\ fetch.row # row THEN due ELSE seen

Finish ==
    /\ api # "idle"
    /\ Invalidate(row.ver)
    /\ listed' = IF api = "upsert" THEN row.is = "on" ELSE listed
    /\ api' = "idle"
    /\ UNCHANGED <<rowVars, cache, missed, fetch, now, answer>>

\* delete_symbol_config finds enabled rows only; neither delete invalidates.
Delete ==
    /\ api = "idle" /\ row.is = "on"
    /\ Commit("none") /\ listed' = FALSE
    /\ UNCHANGED <<cacheVars, fetch, api, now, due, answer>>

DeleteMonitored ==
    /\ api = "idle" /\ row.is # "none"
    /\ Commit("none") /\ listed' = FALSE
    /\ UNCHANGED <<cacheVars, fetch, api, now, due, answer>>

External ==
    /\ \E s \in States : Commit(s)
    /\ UNCHANGED <<cacheVars, listed, fetch, api, now, due, answer>>

-----------------------------------------------------------------------------
(* Reads.                                                                  *)

Fresh == loadedAt # Never /\ now - loadedAt < TTL

Answer(r, failed) ==
    answer' = [age |-> IF r = Nothing THEN now
                       ELSE IF until[r.ver] = Never THEN 0
                       ELSE now - until[r.ver],
               seen |-> r.ver >= due, missed |-> failed]

\* The monitoring loop sizes what it scans: at once from a fresh cache.
SizeFromCache ==
    /\ listed /\ fetch = Idle /\ Fresh
    /\ Answer(cache, missed)
    /\ UNCHANGED <<rowVars, cacheVars, listed, fetch, api, now, due>>

BeginReload ==
    /\ listed /\ fetch = Idle /\ ~Fresh
    /\ fetch' = [row |-> row, at |-> now]
    /\ UNCHANGED <<rowVars, cacheVars, listed, api, now, due, answer>>

Publish ==
    /\ fetch # Idle
    /\ cache' = fetch.row /\ loadedAt' = now /\ missed' = FALSE
    /\ fetch' = Idle
    /\ Answer(fetch.row, FALSE)
    /\ UNCHANGED <<rowVars, listed, api, now, due>>

\* The previous contents stay, and are served, without a new stamp.
ReloadFails ==
    /\ fetch # Idle
    /\ missed' = TRUE /\ fetch' = Idle
    /\ Answer(cache, TRUE)
    /\ UNCHANGED <<rowVars, cache, loadedAt, listed, api, now, due>>

\* A webhook or a manual order sizes on the event loop, listed or not.
SizeForWebhook ==
    /\ api = "idle"
    /\ \/ /\ Fresh
          /\ Answer(cache, missed)
          /\ UNCHANGED cacheVars
       \/ /\ ~Fresh
          /\ cache' = row /\ loadedAt' = now /\ missed' = FALSE
          /\ Answer(row, FALSE)
       \/ /\ ~Fresh
          /\ missed' = TRUE
          /\ Answer(cache, TRUE)
          /\ UNCHANGED <<cache, loadedAt>>
    /\ UNCHANGED <<rowVars, listed, fetch, api, now, due>>

Tick ==
    /\ now < MaxNow
    /\ fetch # Idle => now - fetch.at < Slow
    /\ now' = now + 1
    /\ UNCHANGED <<rowVars, cacheVars, listed, fetch, api, due, answer>>

-----------------------------------------------------------------------------
Next ==
    \/ Upsert \/ BulkSet \/ Clone \/ Finish
    \/ Delete \/ DeleteMonitored \/ External
    \/ SizeFromCache \/ BeginReload \/ Publish \/ ReloadFails
    \/ SizeForWebhook \/ Tick

Spec == Init /\ [][Next]_vars

\* No order is sized by a row that was replaced or deleted, by anyone, longer
\* ago than the TTL and the duration of one reload, unless the database could
\* not be read since ("bounds how long a stale order size could survive": the
\* stamp is that of the end of a reload, so the TTL alone is not the bound).
SizeNotOld == answer.missed \/ answer.age < TTL + Slow

\* An edit made through this process reaches every later sizing, unless a
\* reload was under way when it was made or the database cannot be read.  A
\* delete is no such edit: it does not invalidate, and waits for the TTL.
EditSeen == answer.missed \/ answer.seen

\* An edit reaches every later sizing, and no order is sized by a row replaced
\* or deleted longer ago than the TTL and one reload.
SizesCurrent == EditSeen /\ SizeNotOld

=============================================================================
