---------------------------- MODULE PromptCache -----------------------------
(***************************************************************************)
(* The system prompts of the AI agent: the ai_prompts table, the endpoints *)
(* that write it, and the cache the AISignalHandler keeps of the prompt it *)
(* resolved for one profile.                                               *)
(*                                                                         *)
(* The monitoring loop evaluates with the profile's own strategy type, an  *)
(* Enum member; the endpoints reload with the string of the row.  The two  *)
(* are different keys, so a reload of anything but the global scope fills  *)
(* an entry no evaluation reads.  As a parameter of the query the member   *)
(* equals no row's strategy_type, or the driver refuses it and the load    *)
(* fails: only prompts without a strategy are ever resolved.               *)
(***************************************************************************)
EXTENDS Integers, FiniteSets

CONSTANTS
    Ids,       \* prompts
    Fallback,  \* _FALLBACK_PROMPT
    MaxEdits   \* bound: writes of the table

PromptAssumption ==
    /\ IsFiniteSet(Ids) /\ MaxEdits \in Nat
    /\ Fallback \notin Ids \X (0 .. MaxEdits)

VARIABLES
    table,   \* the rows, and how often each was written
    edits,   \* writes so far
    api,     \* the scopes a handler has still to reload
    cached,  \* the evaluation's entry of _prompt_cache
    ask,     \* get_prompt under way in the loop
    raised,  \* the last evaluation ended in a KeyError
    excused  \* history: the cached text need not be the table's

vars == <<table, edits, api, cached, ask, raised, excused>>

\* For this profile; naming a strategy or another profile; neither.
Scopes == {"profile", "other", "global"}
Absent == [scope |-> "none", active |-> FALSE, default |-> FALSE, ver |-> 0]
Nothing == <<>>
Texts == {Fallback} \cup (Ids \X (0 .. MaxEdits))

TypeOK ==
    /\ table \in [Ids -> {Absent} \cup
            [scope : Scopes, active : BOOLEAN, default : BOOLEAN,
             ver : 1 .. MaxEdits]]
    /\ edits \in 0 .. MaxEdits
    /\ api \in SUBSET Scopes
    /\ cached \in {Nothing} \cup Texts
    /\ ask \in [at : {"idle", "return"}, text : {Nothing}]
            \cup [at : {"store"}, text : Texts]
    /\ raised \in BOOLEAN /\ excused \in BOOLEAN

Idle == [at |-> "idle", text |-> Nothing]

Init ==
    /\ table = [i \in Ids |-> Absent]
    /\ edits = 0 /\ api = {}
    /\ cached = Nothing /\ ask = Idle /\ raised = FALSE /\ excused = FALSE

-----------------------------------------------------------------------------
(* _load_prompt.  The query has no order: among equals any row may win.    *)

Candidate(i) ==
    /\ table[i].active
    /\ \/ table[i].scope = "profile"
       \/ table[i].scope = "global" /\ table[i].default

Rank(i) == IF table[i].scope = "profile" THEN 3 ELSE 1

Text(i) == <<i, table[i].ver>>

Resolved ==
    LET found == {i \in Ids : Candidate(i)}
    IN  IF found = {} THEN {Fallback}
        ELSE {Text(i) : i \in {j \in found : \A k \in found : Rank(j) >= Rank(k)}}

-----------------------------------------------------------------------------
(* The endpoints: write and commit, then reload the scopes concerned.      *)

\* A write is excused from reaching the loop when its scope's reload goes to
\* another key, or when the loop is between its query and its store.
Write(i, new, scopes) ==
    /\ api = {} /\ edits < MaxEdits
    /\ edits' = edits + 1
    /\ table' = new
    /\ api' = scopes
    /\ excused' = (excused \/ ask.at = "store"
                    \/ "global" \notin {table[i].scope, new[i].scope})
    /\ UNCHANGED <<cached, ask, raised>>

Create(i) ==
    /\ table[i] = Absent
    /\ \E s \in Scopes, a, d \in BOOLEAN :
          Write(i, [table EXCEPT ![i] = [scope |-> s, active |-> a,
                                         default |-> d, ver |-> edits + 1]], {s})

UpdateNewScope(i) ==
    /\ table[i] # Absent
    /\ \E s \in {table[i].scope} \cup (Scopes \ {"global"}), a, d \in BOOLEAN :
          Write(i, [table EXCEPT ![i] = [scope |-> s, active |-> a,
                                         default |-> d, ver |-> edits + 1]], {s})

\* Every field may change, is_active and is_default too, and the scope may
\* narrow: None means "leave as it is".
Update(i) ==
    /\ table[i] # Absent
    /\ \E s \in {table[i].scope} \cup (Scopes \ {"global"}), a, d \in BOOLEAN :
          Write(i, [table EXCEPT ![i] = [scope |-> s, active |-> a,
                                         default |-> d, ver |-> edits + 1]], {table[i].scope, s})

OtherDefaults(i) ==
    {j \in Ids \ {i} : /\ table[j].scope = "global"
                       /\ table[j].active /\ table[j].default}

Delete(i) ==
    /\ table[i] # Absent
    /\ table[i].scope = "global" /\ table[i].default => OtherDefaults(i) # {}
    /\ Write(i, [table EXCEPT ![i] = Absent], {table[i].scope})

SetDefault(i) ==
    /\ table[i] # Absent
    /\ Write(i, [j \in Ids |->
                 IF j = i THEN [table[i] EXCEPT !.default = TRUE]
                 ELSE IF table[j].scope = table[i].scope /\ table[j] # Absent
                      THEN [table[j] EXCEPT !.default = FALSE]
                      ELSE table[j]], {table[i].scope})

ReloadByHand(i) ==
    /\ api = {} /\ table[i] # Absent
    /\ api' = {table[i].scope}
    /\ UNCHANGED <<table, edits, cached, ask, raised, excused>>

\* reload_prompt: clear() for the global scope, else another key's entry.
Reload(scope) ==
    /\ scope \in api
    /\ api' = api \ {scope}
    /\ IF scope = "global"
       THEN cached' = Nothing /\ excused' = (ask.at = "store")
       ELSE UNCHANGED <<cached, excused>>
    /\ UNCHANGED <<table, edits, ask, raised>>

-----------------------------------------------------------------------------
(* get_prompt, in the monitoring loop.                                     *)

Evaluate ==
    /\ ask = Idle
    /\ \/ /\ cached # Nothing
          /\ ask' = [at |-> "return", text |-> Nothing]
       \/ /\ cached = Nothing
          /\ \E t \in Resolved : ask' = [at |-> "store", text |-> t]
    /\ UNCHANGED <<table, edits, api, cached, raised, excused>>

LoadFails ==
    /\ ask = Idle /\ cached = Nothing
    /\ ask' = [at |-> "store", text |-> Fallback]
    /\ excused' = TRUE
    /\ UNCHANGED <<table, edits, api, cached, raised>>

Store ==
    /\ ask.at = "store"
    /\ cached' = ask.text
    /\ ask' = [at |-> "return", text |-> Nothing]
    /\ UNCHANGED <<table, edits, api, raised, excused>>

\* A clear since the key was looked up makes the last line raise.
Return ==
    /\ ask.at = "return"
    /\ raised' = (cached = Nothing)
    /\ ask' = Idle
    /\ UNCHANGED <<table, edits, api, cached, excused>>

-----------------------------------------------------------------------------
Next ==
    \/ \E i \in Ids : \/ Create(i) \/ Update(i) \/ Delete(i)
                      \/ SetDefault(i) \/ ReloadByHand(i)
    \/ \E s \in Scopes : Reload(s)
    \/ Evaluate \/ LoadFails \/ Store \/ Return

Spec == Init /\ [][Next]_vars

\* When no handler is at work, the cached prompt is one the table resolves to
\* now: a global prompt's edit, move or deletion has reached the loop, unless
\* the last load failed or raced the edit.
PromptCurrent ==
    cached # Nothing /\ api = {} /\ ~excused => cached \in Resolved

\* The same with no excuse for an edit of a scope that has a strategy or a
\* profile ("so next signal call picks up the new prompt").
NextCallPicksUp ==
    cached # Nothing /\ api = {} /\ ask = Idle => cached \in Resolved

\* The fallback is evaluated with only while the table resolves to nothing
\* ("used only if the DB is unreachable or empty").
FallbackWhenEmpty == cached = Fallback /\ api = {} => Resolved = {Fallback}

=============================================================================
