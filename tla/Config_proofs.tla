---------------------------- MODULE Config_proofs ----------------------------
(***************************************************************************)
(* What is read at one moment and used at another, for every value of the  *)
(* constants: the order sizes, the profiles, the prompts, the prices and   *)
(* the sessions of Config.                                                 *)
(***************************************************************************)
EXTENDS Config, Sequences, FiniteSetTheorems, WellFoundedInduction, TLAPS

-----------------------------------------------------------------------------
\* A step of the whole is a step of the part it is about, or none of it.
LEMMA PartsApart ==
    ASSUME [EveryNext]_allVars
    PROVE  /\ part' = part
           /\ part = "swap" => [Swap!Next]_Swap!vars
           /\ part = "prompt" => [Prompt!Next]_Prompt!vars
           /\ part = "feed" => [Feed!Next]_Feed!vars
           /\ part = "session" => [Session!Next]_Session!vars
           /\ part = "replay" => [Replay!Next]_Replay!vars
<1>1. CASE EveryNext
  BY <1>1 DEF EveryNext
<1>2. CASE UNCHANGED allVars
  <2>1. /\ part' = part /\ UNCHANGED swapVars /\ UNCHANGED promptVars /\ UNCHANGED feedVars
        /\ UNCHANGED sessionVars /\ UNCHANGED replayVars
    BY <1>2 DEF allVars
  <2>2. UNCHANGED Swap!vars
    BY <2>1 DEF swapVars, Swap!vars, Swap!loadVars, Swap!tradeVars
  <2>3. UNCHANGED Prompt!vars
    BY <2>1 DEF promptVars, Prompt!vars
  <2>4. UNCHANGED Feed!vars
    BY <2>1 DEF feedVars, Feed!vars
  <2>5. UNCHANGED Session!vars
    BY <2>1 DEF sessionVars, Session!vars
  <2>6. UNCHANGED Replay!vars
    BY <2>1 DEF replayVars, Replay!vars
  <2> QED BY <2>1, <2>2, <2>3, <2>4, <2>5, <2>6
<1> QED
  BY <1>1, <1>2

-----------------------------------------------------------------------------
(* The order sizes.                                                        *)

\* Each version but the row's own ceased to be the row's at some moment.
ReplacedOK ==
    \A v \in 0 .. MaxEdits :
        IF v < row.ver THEN until[v] \in 0 .. now ELSE until[v] = Never

\* Version v was the row's still at moment t, or later.
InForce(v, t) == until[v] = Never \/ until[v] >= t

\* A reload under way took the row as it was when it began, no earlier than
\* the last edit it must know, and not long ago.
FetchOK ==
    fetch # Idle =>
        /\ fetch.at <= now /\ now - fetch.at <= Slow
        /\ fetch.row.ver <= row.ver /\ fetch.row.ver >= due
        /\ fetch.row.ver = row.ver => fetch.row = row
        /\ InForce(fetch.row.ver, fetch.at)

\* A cache that was not invalidated holds a row that was in force when the
\* reload that brought it began, and no earlier than the last edit it must know.
LoadedOK ==
    loadedAt # Never =>
        /\ loadedAt <= now /\ cache # Nothing
        /\ cache.ver >= due
        /\ InForce(cache.ver, loadedAt - Slow)

Answered == answer.missed \/ (answer.seen /\ answer.age < TTL + Slow)

SizesInv == TypeOK /\ due <= row.ver /\ ReplacedOK /\ FetchOK /\ LoadedOK /\ Answered

\* A row in force at t, answered from within the time to live and a reload of
\* t, is not too old.
LEMMA AnswerInTime ==
    ASSUME SizeCacheAssumption, TypeOK, NEW r \in Rows, NEW t \in Int, NEW f \in BOOLEAN,
           InForce(r.ver, t), now - t < TTL + Slow, r.ver >= due, Answer(r, f)
    PROVE  Answered'
<1>1. until[r.ver] \in {Never} \cup 0 .. MaxNow /\ r # Nothing
  BY DEF TypeOK, Rows, Nothing, Never
<1>2. (now - until[r.ver] < TTL + Slow \/ until[r.ver] = Never) /\ 0 < TTL + Slow
  BY <1>1 DEF InForce, SizeCacheAssumption, TypeOK, Never
<1> QED BY <1>1, <1>2 DEF Answer, Answered

LEMMA SizesInit == SizeCacheAssumption /\ Init => SizesInv
<1> SUFFICES ASSUME SizeCacheAssumption, Init PROVE SizesInv
  OBVIOUS
<1> USE DEF SizeCacheAssumption, Init
<1>1. TypeOK
  <2> USE DEF Rows, States, Nothing, Idle, Never
  <2>1. row \in Rows /\ listed \in BOOLEAN
    OBVIOUS
  <2>2. cache \in Rows \cup {Nothing} /\ loadedAt \in {Never} \cup 0 .. MaxNow
    OBVIOUS
  <2>3. until \in [0 .. MaxEdits -> {Never} \cup 0 .. MaxNow] /\ due \in 0 .. MaxEdits /\ now \in 0 .. MaxNow
    OBVIOUS
  <2> QED BY <2>1, <2>2, <2>3 DEF TypeOK
<1>2. due <= row.ver /\ ReplacedOK /\ FetchOK /\ LoadedOK /\ Answered
  BY DEF ReplacedOK, FetchOK, LoadedOK, Answered, Idle, Never
<1> QED BY <1>1, <1>2 DEF SizesInv

LEMMA SizesStep ==
    ASSUME SizeCacheAssumption, SizesInv, [Next]_vars
    PROVE  SizesInv'
<1> USE
      DEF SizeCacheAssumption, SizesInv, TypeOK, ReplacedOK, FetchOK, LoadedOK, Answered,
            InForce,
            Rows, States, Nothing, Idle, Never, rowVars, cacheVars
<1>1. ASSUME NEW s \in States, Commit(s), UNCHANGED <<cacheVars, fetch, now, due, answer>>,
             listed' \in BOOLEAN, api' \in {"idle", "upsert", "clone"}
      PROVE  SizesInv'
  <2> USE <1>1 DEF Commit
  <2>1. TypeOK'
    OBVIOUS
  <2>2. due' <= row'.ver /\ ReplacedOK'
    OBVIOUS
  <2>3. FetchOK'
    OBVIOUS
  <2>4. LoadedOK'
    OBVIOUS
  <2>5. Answered'
    OBVIOUS
  <2> HIDE <1>1 DEF Commit, TypeOK, ReplacedOK, FetchOK, LoadedOK, Answered
  <2> QED BY <2>1, <2>2, <2>3, <2>4, <2>5
<1>2. CASE Upsert
  BY <1>1, <1>2 DEF Upsert
<1>3. CASE BulkSet
  BY <1>1, <1>3 DEF BulkSet
<1>4. CASE Clone
  BY <1>1, <1>4 DEF Clone
<1>5. CASE Finish
  <2> USE <1>5 DEF Finish, Invalidate
  <2>1. TypeOK'
    OBVIOUS
  <2>2. due' <= row'.ver /\ ReplacedOK'
    OBVIOUS
  <2>3. FetchOK'
    OBVIOUS
  <2>4. LoadedOK'
    OBVIOUS
  <2>5. Answered'
    OBVIOUS
  <2> HIDE <1>5 DEF Finish, Invalidate, TypeOK, ReplacedOK, FetchOK, LoadedOK, Answered
  <2> QED BY <2>1, <2>2, <2>3, <2>4, <2>5
<1>6. CASE Delete
  BY <1>1, <1>6 DEF Delete
<1>7. CASE DeleteMonitored
  BY <1>1, <1>7 DEF DeleteMonitored
<1>8. CASE External
  BY <1>1, <1>8 DEF External
<1>9. CASE SizeFromCache
  <2> USE <1>9 DEF SizeFromCache, Fresh, Answer
  <2>1. TypeOK'
    OBVIOUS
  <2>2. due' <= row'.ver /\ ReplacedOK'
    OBVIOUS
  <2>3. FetchOK'
    OBVIOUS
  <2>4. LoadedOK'
    OBVIOUS
  <2>5. Answered'
    BY AnswerInTime
  <2> HIDE <1>9
        DEF SizeFromCache, Fresh, Answer, TypeOK, ReplacedOK, FetchOK, LoadedOK, Answered
  <2> QED BY <2>1, <2>2, <2>3, <2>4, <2>5
<1>10. CASE BeginReload
  BY <1>10 DEF BeginReload
<1>11. CASE Publish
  <2> USE <1>11 DEF Publish, Answer
  <2>1. TypeOK'
    OBVIOUS
  <2>2. due' <= row'.ver /\ ReplacedOK'
    OBVIOUS
  <2>3. FetchOK'
    OBVIOUS
  <2>4. LoadedOK'
    OBVIOUS
  <2>5. Answered'
    <3>1. fetch.row \in Rows /\ InForce(fetch.row.ver,
          fetch.at) /\ now - fetch.at < TTL + Slow
      OBVIOUS
    <3>2. Answer(fetch.row,
          FALSE) /\ fetch.row.ver >= due /\ fetch.at \in Int /\ FALSE \in BOOLEAN
      OBVIOUS
    <3> HIDE DEF Answer, Answered, InForce, TypeOK, Rows
    <3> QED BY <3>1, <3>2, AnswerInTime DEF SizesInv
  <2> HIDE <1>11 DEF Publish, Answer, TypeOK, ReplacedOK, FetchOK, LoadedOK, Answered
  <2> QED BY <2>1, <2>2, <2>3, <2>4, <2>5
<1>12. CASE ReloadFails
  BY <1>12 DEF ReloadFails, Answer
<1>13. CASE SizeForWebhook
  <2> USE <1>13 DEF SizeForWebhook, Fresh, Answer
  <2>1. TypeOK'
    OBVIOUS
  <2>2. due' <= row'.ver /\ ReplacedOK'
    OBVIOUS
  <2>3. FetchOK'
    OBVIOUS
  <2>4. LoadedOK'
    OBVIOUS
  <2>5. Answered'
    <3>1. CASE Answer(cache, TRUE)
      BY <3>1
    <3>2. CASE Fresh /\ Answer(cache, missed)
      <4>1. cache \in Rows /\ cache.ver >= due /\ InForce(cache.ver, loadedAt - Slow)
        BY <3>2
      <4>2. now - (loadedAt - Slow) < TTL + Slow /\ loadedAt - Slow \in Int /\ missed \in BOOLEAN
        BY <3>2
      <4> HIDE DEF Answer, Answered, InForce, TypeOK, Rows
      <4> QED BY <3>2, <4>1, <4>2, AnswerInTime DEF SizesInv
    <3>3. CASE Answer(row, FALSE)
      <4>1. row \in Rows /\ InForce(row.ver, now) /\ now - now < TTL + Slow
        OBVIOUS
      <4>2. row.ver >= due /\ now \in Int /\ FALSE \in BOOLEAN
        OBVIOUS
      <4> HIDE DEF Answer, Answered, InForce, TypeOK, Rows
      <4> QED BY <3>3, <4>1, <4>2, AnswerInTime DEF SizesInv
    <3> QED BY <3>1, <3>2, <3>3
  <2> HIDE <1>13
        DEF SizeForWebhook, Fresh, Answer, TypeOK, ReplacedOK, FetchOK, LoadedOK, Answered
  <2> QED BY <2>1, <2>2, <2>3, <2>4, <2>5
<1>14. CASE Tick
  BY <1>14 DEF Tick
<1>15. CASE UNCHANGED vars
  BY <1>15 DEF vars
<1> QED
  BY <1>2, <1>3, <1>4, <1>5, <1>6, <1>7, <1>8, <1>9, <1>10, <1>11, <1>12, <1>13, <1>14,
        <1>15 DEF Next

\* SizesCurrent, for any time to live, duration of a reload and number of edits
\* (SymbolConfigCache, and the operations that write the row).
THEOREM SizesCurrentAlways == ASSUME SizeCacheAssumption PROVE Spec => []SizesCurrent
<1>1. SizesInv => SizesCurrent
  BY DEF SizesInv, Answered, SizesCurrent, EditSeen, SizeNotOld
<1>2. Init => SizesInv
  BY SizesInit
<1>3. SizesInv /\ [Next]_vars => SizesInv'
  BY SizesStep
<1> QED
  BY <1>1, <1>2, <1>3, PTL DEF Spec

-----------------------------------------------------------------------------
(* The profiles.                                                           *)

\* The manager's copy is the row as the last write every new scan must know
\* left it, or a later one; between the swap and the clearing of the
\* generators it is the row.
CopyOK ==
    /\ mustKnow <= profile.ver
    /\ loaded # Swap!NoProfile => loaded.ver >= mustKnow
    /\ loaded.on => loaded # Swap!NoProfile
    /\ handler = "swapped" => loaded = Swap!Load(profile)

\* So is the profile a cached generator was built with, or a scan may still
\* build one with; a scan under way has what it had to know when it began.
ScanOK ==
    /\ generator # -1 => generator >= mustKnow
    /\ scan.at = "took" => scan.with.ver >= mustKnow
    /\ scan.need <= mustKnow
    /\ scan.at \in {"took", "signalled"} => scan.with.ver >= scan.need
    /\ scan.at = "signalled" => scan.gen >= scan.need

SwapInv == Swap!TypeOK /\ CopyOK /\ ScanOK

LEMMA SwapInit == ASSUME Swap!ProfileAssumption, Swap!Init PROVE SwapInv
<1> USE
      DEF Swap!ProfileAssumption, Swap!Init, Swap!Rows, Swap!Copies, Swap!NoProfile,
            Swap!Resting,
            Swap!Load
<1>1. profile \in Swap!Rows /\ profile.ver = 0
  OBVIOUS
<1>2. loaded \in Swap!Copies
  BY <1>1
<1>3. Swap!TypeOK
  <2>1. scan \in [at : {"rest", "took", "signalled"}, with : Swap!Copies,
                  gen : -1 .. ProfileEdits, need : 0 .. ProfileEdits]
    OBVIOUS
  <2>2. generator \in -1 .. ProfileEdits /\ mustKnow \in 0 .. ProfileEdits
    OBVIOUS
  <2> HIDE DEF Swap!Rows, Swap!Copies
  <2> QED BY <1>1, <1>2, <2>1, <2>2 DEF Swap!TypeOK
<1>4. CopyOK /\ ScanOK
  BY <1>1 DEF CopyOK, ScanOK
<1> QED BY <1>3, <1>4 DEF SwapInv

LEMMA SwapStep ==
    ASSUME Swap!ProfileAssumption, SwapInv, [Swap!Next]_Swap!vars
    PROVE  SwapInv'
<1> USE
      DEF Swap!ProfileAssumption, SwapInv, Swap!TypeOK, CopyOK, ScanOK, Swap!Rows,
            Swap!Copies,
            Swap!NoProfile, Swap!Resting, Swap!Load, Swap!loadVars, Swap!tradeVars
<1>1. ASSUME NEW a \in BOOLEAN, NEW o \in BOOLEAN, Swap!Save(a, o) PROVE SwapInv'
  BY <1>1 DEF Swap!Save
<1>2. CASE \/ Swap!UpdateProfile \/ Swap!EditIndicators \/ Swap!CopyIndicators
           \/ Swap!SaveTradingHours \/ Swap!UpdateCredentials \/ Swap!FlagEdited
           \/ Swap!Deactivate \/ Swap!Activate
  BY <1>1, <1>2 DEF Swap!UpdateProfile, Swap!EditIndicators, Swap!CopyIndicators,
     Swap!SaveTradingHours, Swap!UpdateCredentials, Swap!FlagEdited, Swap!Deactivate,
           Swap!Activate
<1>3. CASE Swap!RefreshByHand
  BY <1>3 DEF Swap!RefreshByHand
<1>4. CASE Swap!ReplaceProfiles
  BY <1>4 DEF Swap!ReplaceProfiles
<1>5. CASE Swap!InvalidateGenerators
  BY <1>5 DEF Swap!InvalidateGenerators
<1>6. CASE Swap!RefreshFails
  BY <1>6 DEF Swap!RefreshFails
<1>7. CASE Swap!InvalidateByHand
  BY <1>7 DEF Swap!InvalidateByHand
<1>8. CASE Swap!TakeProfiles
  BY <1>8 DEF Swap!TakeProfiles
<1>9. CASE Swap!ScanSymbols
  <2>1. generator' \in 0 .. ProfileEdits /\ generator' >= mustKnow
    BY <1>9 DEF Swap!ScanSymbols
  <2>a. scan' = Swap!Resting \/ scan' = [scan EXCEPT !.at = "signalled", !.gen = generator']
    BY <1>9, Zenon DEF Swap!ScanSymbols
  <2>b. scan.at = "took"
    BY <1>9 DEF Swap!ScanSymbols
  <2>2. scan' \in [at : {"rest", "took", "signalled"}, with : Swap!Copies,
                   gen : -1 .. ProfileEdits, need : 0 .. ProfileEdits]
    <3>1. CASE scan' = Swap!Resting
      BY <3>1
    <3>2. CASE scan' = [scan EXCEPT !.at = "signalled", !.gen = generator']
      <4>1. scan' = [at |-> "signalled", with |-> scan.with, gen |-> generator',
                     need |-> scan.need]
        BY <3>2
      <4>2. scan.with \in Swap!Copies /\ scan.need \in 0 .. ProfileEdits /\ generator' \in -1 .. ProfileEdits
        BY <2>1
      <4> HIDE DEF Swap!Copies
      <4> QED BY <4>1, <4>2
    <3> QED BY <2>a, <3>1, <3>2
  <2>3. ScanOK'
    <3>0. mustKnow' = mustKnow
      BY <1>9 DEF Swap!ScanSymbols
    <3>1. CASE scan' = Swap!Resting
      BY <2>1, <3>0, <3>1
    <3>2. CASE scan' = [scan EXCEPT !.at = "signalled", !.gen = generator']
      BY <2>1, <2>b, <3>0, <3>2
    <3> QED BY <2>a, <3>1, <3>2
  <2>4. UNCHANGED <<profile, loaded, handler, order, open, mustKnow>>
    BY <1>9 DEF Swap!ScanSymbols
  <2> QED BY <2>1, <2>2, <2>3, <2>4
<1>10. CASE Swap!Execute
  BY <1>10 DEF Swap!Execute
<1>11. CASE Swap!Book
  <2>1. open' \in BOOLEAN /\ order' \in BOOLEAN
    BY <1>11, Zenon DEF Swap!Book
  <2> QED BY <1>11, <2>1 DEF Swap!Book
<1>12. CASE Swap!WatchAndClose
  BY <1>12 DEF Swap!WatchAndClose
<1>13. CASE UNCHANGED Swap!vars
  BY <1>13 DEF Swap!vars
<1> QED
  BY <1>2, <1>3, <1>4, <1>5, <1>6, <1>7, <1>8, <1>9, <1>10, <1>11, <1>12, <1>13
        DEF Swap!Next

\* Once an edit's refresh has ended, every scan that begins afterwards signals
\* and enters by what was written, unless a scan with the old profile was under
\* way, for any number of edits (refresh_profiles_from_db, get_signal_generator).
THEOREM EditAppliedAlways == ASSUME Swap!ProfileAssumption PROVE EverySpec => []EditApplied
<1>1. SwapInv => Swap!EditApplied
  BY DEF SwapInv, ScanOK, Swap!TypeOK, Swap!EditApplied
<1>2. EveryInit => (part = "swap" => SwapInv)
  BY SwapInit DEF EveryInit
<1>3. (part = "swap" => SwapInv) /\ [EveryNext]_allVars => (part = "swap" => SwapInv)'
  BY SwapStep, PartsApart
<1> QED
  BY <1>1, <1>2, <1>3, PTL DEF EverySpec, EditApplied

-----------------------------------------------------------------------------
(* The prompts.                                                            *)

LEMMA PromptTyped ==
    ASSUME Prompt!PromptAssumption
    PROVE  /\ Prompt!Init => Prompt!TypeOK
           /\ Prompt!TypeOK /\ [Prompt!Next]_Prompt!vars => Prompt!TypeOK'
<1> USE DEF Prompt!PromptAssumption
<1> DEFINE Row == [scope : Prompt!Scopes, active : BOOLEAN, default : BOOLEAN,
      ver : 1 .. PromptEdits]
<1>1. Prompt!Init => Prompt!TypeOK
  <2> SUFFICES ASSUME Prompt!Init PROVE Prompt!TypeOK
    OBVIOUS
  <2>1. ask \in [at : {"idle", "return"},
        text : {Prompt!Nothing}] /\ writes \in 0 .. PromptEdits
    BY DEF Prompt!Init, Prompt!Idle
  <2>2. table \in [Ids -> {Prompt!Absent} \cup Row]
    BY DEF Prompt!Init
  <2>3. raised \in BOOLEAN /\ excused \in BOOLEAN
    BY DEF Prompt!Init
  <2> QED BY <2>1, <2>2, <2>3, Zenon DEF Prompt!Init, Prompt!TypeOK
<1>2. ASSUME Prompt!TypeOK, [Prompt!Next]_Prompt!vars PROVE Prompt!TypeOK'
  <2> USE <1>2 DEF Prompt!TypeOK
  <2>1. ASSUME NEW i \in Ids, NEW new, new \in [Ids -> {Prompt!Absent} \cup Row],
               NEW scopes \in SUBSET Prompt!Scopes, Prompt!Write(i, new, scopes)
        PROVE  Prompt!TypeOK'
    <3>1. excused' \in BOOLEAN
      BY <2>1, Zenon DEF Prompt!Write
    <3>2. UNCHANGED <<cached, ask, raised>> /\ table' = new /\ reloads' = scopes
      BY <2>1 DEF Prompt!Write
    <3>3. writes' \in 0 .. PromptEdits
      BY <2>1 DEF Prompt!Write
    <3> QED BY <2>1, <3>1, <3>2, <3>3
  <2>2. ASSUME NEW i \in Ids, NEW s \in Prompt!Scopes, NEW a \in BOOLEAN, NEW d \in BOOLEAN,
               writes < PromptEdits
        PROVE  [table EXCEPT ![i] = [scope |-> s, active |-> a, default |-> d,
                                     ver |-> writes + 1]] \in [Ids -> {Prompt!Absent} \cup Row]
    BY <2>2
  <2>3. ASSUME NEW i \in Ids, Prompt!Create(i) PROVE Prompt!TypeOK'
    <3>1. PICK s \in Prompt!Scopes, a \in BOOLEAN, d \in BOOLEAN :
            Prompt!Write(i, [table EXCEPT ![i] = [scope |-> s, active |-> a, default |-> d,
                                                  ver |-> writes + 1]], {s})
      BY <2>3 DEF Prompt!Create
    <3>2. writes < PromptEdits
      BY <3>1 DEF Prompt!Write
    <3> DEFINE new == [table EXCEPT ![i] = [scope |-> s, active |-> a, default |-> d,
                                            ver |-> writes + 1]]
    <3>3. new \in [Ids -> {Prompt!Absent} \cup Row] /\ {s} \in SUBSET Prompt!Scopes
      BY <2>2, <3>2
    <3> HIDE DEF new, Row, Prompt!TypeOK
    <3> QED BY <2>1, <3>1, <3>3 DEF new
  <2>4. ASSUME NEW i \in Ids, Prompt!Update(i) PROVE Prompt!TypeOK'
    <3>0. table[i] # Prompt!Absent /\ table[i].scope \in Prompt!Scopes
      BY <2>4 DEF Prompt!Update
    <3>1. PICK s \in {table[i].scope} \cup (Prompt!Scopes \ {"global"}), a \in BOOLEAN,
          d \in BOOLEAN :
            Prompt!Write(i, [table EXCEPT ![i] = [scope |-> s, active |-> a, default |-> d,
                                                  ver |-> writes + 1]], {table[i].scope, s})
      BY <2>4 DEF Prompt!Update
    <3>2. writes < PromptEdits /\ s \in Prompt!Scopes
      BY <3>0, <3>1 DEF Prompt!Write
    <3> DEFINE new == [table EXCEPT ![i] = [scope |-> s, active |-> a, default |-> d,
                                            ver |-> writes + 1]]
    <3>3. new \in [Ids -> {Prompt!Absent} \cup Row] /\ {table[i].scope,
          s} \in SUBSET Prompt!Scopes
      BY <2>2, <3>0, <3>2
    <3> HIDE DEF new, Row, Prompt!TypeOK
    <3> QED BY <2>1, <3>1, <3>3 DEF new
  <2>5. ASSUME NEW i \in Ids, Prompt!Delete(i) PROVE Prompt!TypeOK'
    <3>1. /\ {table[i].scope} \in SUBSET Prompt!Scopes
          /\ [table EXCEPT ![i] = Prompt!Absent] \in [Ids -> {Prompt!Absent} \cup Row]
      BY <2>5 DEF Prompt!Delete
    <3> QED BY <2>1, <2>5, <3>1 DEF Prompt!Delete
  <2>6. ASSUME NEW i \in Ids, Prompt!SetDefault(i) PROVE Prompt!TypeOK'
    <3> DEFINE new == [j \in Ids |->
                 IF j = i THEN [table[i] EXCEPT !.default = TRUE]
                 ELSE IF table[j].scope = table[i].scope /\ table[j] # Prompt!Absent
                      THEN [table[j] EXCEPT !.default = FALSE]
                      ELSE table[j]]
    <3>0. table[i] \in Row
      BY <2>6 DEF Prompt!SetDefault
    <3>1. ASSUME NEW r \in Row, NEW b \in BOOLEAN PROVE [r EXCEPT !.default = b] \in Row
      OBVIOUS
    <3>2. \A j \in Ids : new[j] \in {Prompt!Absent} \cup Row
      BY <3>0, <3>1
    <3>3. new \in [Ids -> {Prompt!Absent} \cup Row]
      BY <3>2
    <3>4. Prompt!Write(i, new,
          {table[i].scope}) /\ {table[i].scope} \in SUBSET Prompt!Scopes
      BY <2>6, <3>0 DEF Prompt!SetDefault
    <3> QED BY <2>1, <3>3, <3>4
  <2>7. ASSUME NEW i \in Ids, Prompt!ReloadByHand(i) PROVE Prompt!TypeOK'
    BY <2>7 DEF Prompt!ReloadByHand, Prompt!Absent
  <2>8. ASSUME NEW s \in Prompt!Scopes, Prompt!Reload(s) PROVE Prompt!TypeOK'
    <3>1. excused' \in BOOLEAN /\ cached' \in {Prompt!Nothing,
          cached} /\ reloads' \subseteq reloads
      BY <2>8, Zenon DEF Prompt!Reload
    <3> QED BY <2>8, <3>1 DEF Prompt!Reload
  <2>9. Prompt!Resolved \subseteq Prompt!Texts
    BY DEF Prompt!Resolved, Prompt!Texts, Prompt!Text, Prompt!Absent
  <2>10. CASE Prompt!Evaluate
    BY <2>9, <2>10 DEF Prompt!Evaluate
  <2>11. CASE Prompt!LoadFails
    BY <2>11 DEF Prompt!LoadFails, Prompt!Texts
  <2>12. CASE Prompt!Store
    BY <2>12 DEF Prompt!Store
  <2>13. CASE Prompt!Return
    <3>1. raised' \in BOOLEAN
      BY <2>13, Zenon DEF Prompt!Return
    <3> QED BY <2>13, <3>1 DEF Prompt!Return, Prompt!Idle
  <2>14. CASE UNCHANGED Prompt!vars
    BY <2>14 DEF Prompt!vars
  <2> QED
    BY <2>3, <2>4, <2>5, <2>6, <2>7, <2>8, <2>10, <2>11, <2>12, <2>13, <2>14 DEF Prompt!Next
<1> QED BY <1>1, <1>2

\* Unless it is excused, what is cached is the table's once no reload of the
\* global scope is to come, and a lookup under way is about to store what the
\* table resolves to.
Resolves ==
    ~excused =>
        /\ cached # Prompt!Nothing /\ "global" \notin reloads => cached \in Prompt!Resolved
        /\ ask.at = "store" => ask.text \in Prompt!Resolved

LEMMA ResolvesInit == ASSUME Prompt!Init PROVE Resolves
  BY DEF Prompt!Init, Resolves, Prompt!Idle

\* A write that is not excused is followed by a reload of the global scope.
LEMMA WriteResolves ==
    ASSUME NEW i, NEW new, NEW scopes, {table[i].scope,
          new[i].scope} \cap {"global"} \subseteq scopes,
           Prompt!Write(i, new, scopes)
    PROVE  Resolves'
  BY DEF Prompt!Write, Resolves

LEMMA ResolvesStep ==
    ASSUME Prompt!TypeOK, Resolves, [Prompt!Next]_Prompt!vars
    PROVE  Resolves'
<1>0. ASSUME UNCHANGED table PROVE Prompt!Resolved' = Prompt!Resolved
  BY <1>0 DEF Prompt!Resolved, Prompt!Candidate, Prompt!Rank, Prompt!Text
<1>1. ASSUME NEW i \in Ids, Prompt!Create(i) PROVE Resolves'
  BY <1>1, WriteResolves DEF Prompt!Create, Prompt!Absent, Prompt!TypeOK
<1>2. ASSUME NEW i \in Ids, Prompt!Update(i) PROVE Resolves'
  BY <1>2, WriteResolves DEF Prompt!Update, Prompt!TypeOK
<1>3. ASSUME NEW i \in Ids, Prompt!Delete(i) PROVE Resolves'
  BY <1>3, WriteResolves DEF Prompt!Delete, Prompt!Absent, Prompt!TypeOK
<1>4. ASSUME NEW i \in Ids, Prompt!SetDefault(i) PROVE Resolves'
  BY <1>4, WriteResolves DEF Prompt!SetDefault, Prompt!TypeOK
<1>5. ASSUME NEW i \in Ids, Prompt!ReloadByHand(i) PROVE Resolves'
  BY <1>0, <1>5 DEF Prompt!ReloadByHand, Resolves
<1>6. ASSUME NEW s \in Prompt!Scopes, Prompt!Reload(s) PROVE Resolves'
  <2>1. CASE s = "global"
    <3>1. cached' = Prompt!Nothing /\ UNCHANGED <<ask,
          table>> /\ (excused' <=> ask.at = "store")
      BY <1>6, <2>1, Zenon DEF Prompt!Reload
    <3> QED BY <1>0, <3>1 DEF Resolves
  <2>2. CASE s # "global"
    <3>1. UNCHANGED <<cached, excused, ask,
          table>> /\ reloads' = reloads \ {s} /\ s \in reloads
      BY <1>6, <2>2, Zenon DEF Prompt!Reload
    <3> QED BY <1>0, <2>2, <3>1 DEF Resolves
  <2> QED BY <2>1, <2>2
<1>7. CASE Prompt!Evaluate
  BY <1>0, <1>7 DEF Prompt!Evaluate, Resolves
<1>8. CASE Prompt!LoadFails
  BY <1>8 DEF Prompt!LoadFails, Resolves
<1>9. CASE Prompt!Store
  BY <1>0, <1>9 DEF Prompt!Store, Resolves
<1>10. CASE Prompt!Return
  BY <1>0, <1>10 DEF Prompt!Return, Prompt!Idle, Resolves
<1>11. CASE UNCHANGED Prompt!vars
  BY <1>0, <1>11 DEF Prompt!vars, Resolves
<1> QED
  BY <1>1, <1>2, <1>3, <1>4, <1>5, <1>6, <1>7, <1>8, <1>9, <1>10, <1>11 DEF Prompt!Next

\* The cached prompt is one the table resolves to now, unless the last load
\* failed or raced an edit, for any number of prompts and edits
\* (AISignalHandler.get_prompt, reload_prompt, the endpoints of /ai/prompts).
THEOREM PromptCurrentAlways == ASSUME Prompt!PromptAssumption
      PROVE EverySpec => []PromptCurrent
<1>1. Resolves => Prompt!PromptCurrent
  BY DEF Resolves, Prompt!PromptCurrent
<1>2. EveryInit => (part = "prompt" => Prompt!TypeOK /\ Resolves)
  BY PromptTyped, ResolvesInit DEF EveryInit
<1>3. (part = "prompt" => Prompt!TypeOK /\ Resolves) /\ [EveryNext]_allVars =>
       (part = "prompt" => Prompt!TypeOK /\ Resolves)'
  BY PromptTyped, ResolvesStep, PartsApart
<1> QED
  BY <1>1, <1>2, <1>3, PTL DEF EverySpec, PromptCurrent

-----------------------------------------------------------------------------
(* The sessions.                                                           *)

Row == [role : Session!Roles, active : BOOLEAN]
AccessToken == [role : Session!Roles, profiles : SUBSET Profiles, exp : Nat]
Cookies == [access : AccessToken \cup {Nobody}, refresh : [exp : Nat] \cup {Nobody}]

SessionTyped ==
    /\ users \in [Users -> Row \cup {Nobody}]
    /\ mappings \in [Users -> [Profiles -> Session!MappingRows]]
    /\ browser \in [Users -> Cookies]
    /\ moment \in Nat /\ held \in [Users -> [Profiles -> Nat]]

\* What the database lets a user see, the user sees now.
InSight ==
    \A u \in Users, p \in Profiles :
        /\ held[u][p] <= moment
        /\ p \in Session!Seen(users, mappings)[u] => held[u][p] = moment

\* A token has the role its user always has, and was made while the user could
\* see the profiles in it.
TokenOK ==
    \A u \in Users :
        browser[u].access # Nobody =>
            /\ users[u] # Nobody /\ browser[u].access.role = users[u].role
            /\ \A p \in browser[u].access.profiles :
                  held[u][p] + AccessTtl >= browser[u].access.exp

SessionInv == SessionTyped /\ InSight /\ TokenOK

\* No account is taken away, and none changes its role.
RolesStay ==
    \A u \in Users : users[u] # Nobody => users'[u] # Nobody /\ users'[u].role = users[u].role

LEMMA SessionInit == ASSUME Session!AccessAssumption, Session!Init PROVE SessionInv
<1> USE DEF Session!AccessAssumption, Session!Init
<1>1. users \in [Users -> Row \cup {Nobody}]
  BY DEF Row, Session!Roles, Session!Account
<1>2. /\ mappings \in [Users -> [Profiles -> Session!MappingRows]]
      /\ browser \in [Users -> Cookies] /\ moment \in Nat /\ held \in [Users -> [Profiles -> Nat]]
  BY DEF Session!MappingRows, Cookies, Session!NoCookies
<1>3. InSight
  BY DEF InSight
<1>4. TokenOK
  BY DEF TokenOK, Session!NoCookies
<1> QED BY <1>1, <1>2, <1>3, <1>4 DEF SessionInv, SessionTyped

\* A new token is good for what its user sees now.
LEMMA MakeAccessOK ==
    ASSUME Session!AccessAssumption, SessionInv, NEW u \in Users, Session!Active(u)
    PROVE  /\ Session!MakeAccess(u) \in AccessToken
           /\ users[u] # Nobody /\ Session!MakeAccess(u).role = users[u].role
           /\ \A p \in Session!MakeAccess(u).profiles :
                 held[u][p] + AccessTtl >= Session!MakeAccess(u).exp
<1>1. users[u] \in Row /\ users[u] # Nobody /\ users[u].active
  BY DEF SessionInv, SessionTyped, Session!Active
<1>2. \A p \in Session!get_user_profiles(u) : held[u][p] = moment
  BY <1>1 DEF Session!get_user_profiles, SessionInv, InSight, Session!Seen
<1>3. moment \in Nat /\ AccessTtl \in Nat
  BY DEF SessionInv, SessionTyped, Session!AccessAssumption
<1>4. Session!get_user_profiles(u) \subseteq Profiles
  BY DEF Session!get_user_profiles
<1> QED BY <1>1, <1>2, <1>3, <1>4 DEF Session!MakeAccess, AccessToken, Row

\* An edit that takes no account away moves the history of what it shows or
\* hides to now.
LEMMA EditOK ==
    ASSUME Session!AccessAssumption, SessionInv, Session!Edit, RolesStay,
           users' \in [Users -> Row \cup {Nobody}],
           mappings' \in [Users -> [Profiles -> Session!MappingRows]]
    PROVE  SessionInv'
<1> USE DEF SessionInv, SessionTyped
<1>1. /\ UNCHANGED <<browser, moment>>
      /\ held' = [u \in Users |-> [p \in Profiles |->
                     IF p \in Session!Seen(users, mappings)[u]
                          \/ p \in Session!Seen(users', mappings')[u]
                     THEN moment ELSE held[u][p]]]
  BY DEF Session!Edit
<1>2. held' \in [Users -> [Profiles -> Nat]]
  BY <1>1
<1>3. \A u \in Users, p \in Profiles : held'[u][p] \in {held[u][p], moment}
  BY <1>1
<1>4. InSight'
  BY <1>1 DEF InSight
<1>5. TokenOK'
  <2> SUFFICES ASSUME NEW u \in Users, browser[u].access # Nobody
               PROVE  /\ users'[u] # Nobody /\ browser[u].access.role = users'[u].role
                      /\ \A p \in browser[u].access.profiles :
                            held'[u][p] + AccessTtl >= browser[u].access.exp
    BY <1>1 DEF TokenOK
  <2>1. /\ users[u] # Nobody /\ browser[u].access.role = users[u].role
        /\ browser[u].access \in AccessToken
        /\ \A p \in browser[u].access.profiles :
              held[u][p] + AccessTtl >= browser[u].access.exp
    BY DEF TokenOK, Cookies
  <2>2. browser[u].access.exp \in Nat /\ browser[u].access.profiles \subseteq Profiles
    BY <2>1 DEF AccessToken
  <2>3. ASSUME NEW p \in browser[u].access.profiles
        PROVE  held'[u][p] + AccessTtl >= browser[u].access.exp
    <3>1. held'[u][p] >= held[u][p] /\ held'[u][p] \in Nat /\ held[u][p] \in Nat
      <4>1. held[u][p] <= moment /\ held[u][p] \in Nat /\ held'[u][p] \in Nat /\ moment \in Nat
        BY <1>2, <2>2 DEF InSight
      <4>2. held'[u][p] \in {held[u][p], moment}
        BY <1>3, <2>2
      <4> QED BY <4>1, <4>2
    <3> QED BY <2>1, <2>2, <2>3, <3>1 DEF Session!AccessAssumption
  <2> QED BY <2>1, <2>3 DEF RolesStay
<1> QED BY <1>1, <1>2, <1>4, <1>5

LEMMA SessionStep ==
    ASSUME Session!AccessAssumption, SessionInv, [Session!Next]_Session!vars
    PROVE  SessionInv'
<1>0. /\ users \in [Users -> Row \cup {Nobody}] /\ Nobody \notin Row
      /\ mappings \in [Users -> [Profiles -> Session!MappingRows]]
      /\ browser \in [Users -> Cookies]
  BY DEF SessionInv, SessionTyped, Session!AccessAssumption, Row, Session!Roles
<1>1. ASSUME NEW u \in Users, NEW c \in Cookies,
             c.access # Nobody =>
                /\ users[u] # Nobody /\ c.access.role = users[u].role
                /\ \A p \in c.access.profiles : held[u][p] + AccessTtl >= c.access.exp,
             browser' = [browser EXCEPT ![u] = c],
             UNCHANGED <<users, mappings, moment, held>>
      PROVE  SessionInv'
  <2>1. SessionTyped' /\ InSight'
    BY <1>1 DEF SessionInv, SessionTyped, InSight
  <2>2. TokenOK'
    BY <1>1 DEF SessionInv, SessionTyped, TokenOK
  <2> QED BY <2>1, <2>2 DEF SessionInv
<1>2. ASSUME NEW u \in Users, Session!Login(u) PROVE SessionInv'
  <2> DEFINE c == [access |-> Session!MakeAccess(u),
        refresh |-> [exp |-> moment + RefreshTtl]]
  <2>1. Session!Active(u)
    BY <1>2 DEF Session!Login, Session!authenticate_user
  <2>2. c \in Cookies /\ c.access = Session!MakeAccess(u)
    BY <2>1, MakeAccessOK DEF Cookies, Session!AccessAssumption, SessionInv, SessionTyped
  <2>3. browser' = [browser EXCEPT ![u] = c] /\ UNCHANGED <<users, mappings, moment, held>>
    BY <1>2 DEF Session!Login
  <2> HIDE DEF c
  <2> QED BY <1>1, <2>1, <2>2, <2>3, MakeAccessOK
<1>3. ASSUME NEW u \in Users, Session!RefreshToken(u) PROVE SessionInv'
  <2> DEFINE c == [browser[u] EXCEPT !.access = Session!MakeAccess(u)]
  <2>1. Session!Active(u)
    BY <1>3 DEF Session!RefreshToken, Session!MayRefresh
  <2>2. c \in Cookies /\ c.access = Session!MakeAccess(u)
    BY <1>0, <2>1, MakeAccessOK DEF Cookies
  <2>3. browser' = [browser EXCEPT ![u] = c] /\ UNCHANGED <<users, mappings, moment, held>>
    BY <1>3 DEF Session!RefreshToken
  <2> HIDE DEF c
  <2> QED BY <1>1, <2>1, <2>2, <2>3, MakeAccessOK
<1>4. ASSUME NEW u \in Users, Session!Logout(u) PROVE SessionInv'
  <2>1. Session!NoCookies \in Cookies /\ Session!NoCookies.access = Nobody
    BY DEF Session!NoCookies, Cookies
  <2>2. /\ browser' = [browser EXCEPT ![u] = Session!NoCookies]
        /\ UNCHANGED <<users, mappings, moment, held>>
    BY <1>4 DEF Session!Logout
  <2> QED BY <1>1, <2>1, <2>2
<1>5. ASSUME NEW u \in Users, NEW ps \in SUBSET Profiles
      PROVE  /\ Session!Assigned(mappings[u], ps) \in [Profiles -> Session!MappingRows]
             /\ Session!Replaced(mappings[u], ps) \in [Profiles -> Session!MappingRows]
  BY <1>0 DEF Session!Assigned, Session!Replaced, Session!MappingRows
<1>6. ASSUME NEW u \in Users, NEW b \in BOOLEAN, users[u] # Nobody,
             users' = [users EXCEPT ![u].active = b]
      PROVE  RolesStay /\ users' \in [Users -> Row \cup {Nobody}]
  <2>1. users[u] \in Row
    BY <1>0, <1>6
  <2>2. [users[u] EXCEPT !.active = b] \in Row /\ [users[u] EXCEPT !.active = b].role = users[u].role
    BY <2>1 DEF Row
  <2> QED BY <1>0, <1>6, <2>2 DEF RolesStay
<1>7. ASSUME UNCHANGED users PROVE RolesStay /\ users' \in [Users -> Row \cup {Nobody}]
  BY <1>0, <1>7 DEF RolesStay
<1>8. ASSUME NEW by \in Users, NEW u \in Users, NEW role \in Session!Roles,
      NEW ps \in SUBSET Profiles,
             Session!CreateUser(by, u, role, ps)
      PROVE  SessionInv'
  <2>1. /\ users[u] = Nobody /\ users' = [users EXCEPT ![u] = Session!Account(role)] /\ Session!Edit
        /\ \E made \in SUBSET ps :
              mappings' = [mappings EXCEPT ![u] = Session!Assigned(@, made)]
    BY <1>8 DEF Session!CreateUser
  <2>2. Session!Account(role) \in Row
    BY DEF Session!Account, Row
  <2>3. RolesStay /\ users' \in [Users -> Row \cup {Nobody}]
    BY <1>0, <2>1, <2>2 DEF RolesStay
  <2>4. mappings' \in [Users -> [Profiles -> Session!MappingRows]]
    BY <1>0, <1>5, <2>1
  <2> QED BY <2>1, <2>3, <2>4, EditOK
<1>9. ASSUME NEW by \in Users, NEW u \in Users, NEW ps \in SUBSET Profiles,
             Session!UpdateProfiles(by, u, ps)
      PROVE  SessionInv'
  <2>1. mappings' \in [Users -> [Profiles -> Session!MappingRows]]
    BY <1>0, <1>5, <1>9 DEF Session!UpdateProfiles
  <2> QED BY <1>7, <1>9, <2>1, EditOK DEF Session!UpdateProfiles
<1>10. ASSUME NEW by \in Users, NEW u \in Users, Session!DeactivateUser(by, u)
      PROVE SessionInv'
  <2>1. RolesStay /\ users' \in [Users -> Row \cup {Nobody}]
    BY <1>6, <1>10 DEF Session!DeactivateUser
  <2> QED BY <1>0, <1>10, <2>1, EditOK DEF Session!DeactivateUser
<1>11. ASSUME NEW u \in Users, Session!ReactivateUser(u) PROVE SessionInv'
  <2>1. RolesStay /\ users' \in [Users -> Row \cup {Nobody}]
    BY <1>6, <1>11 DEF Session!ReactivateUser
  <2> QED BY <1>0, <1>11, <2>1, EditOK DEF Session!ReactivateUser
<1>12. ASSUME NEW u \in Users, NEW p \in Profiles, Session!AssignProfile(u, p)
      PROVE SessionInv'
  <2>1. mappings' \in [Users -> [Profiles -> Session!MappingRows]]
    BY <1>0, <1>5, <1>12 DEF Session!AssignProfile
  <2> QED BY <1>7, <1>12, <2>1, EditOK DEF Session!AssignProfile
<1>13. ASSUME NEW u \in Users, NEW p \in Profiles, Session!RemoveProfile(u, p)
      PROVE SessionInv'
  <2>1. mappings' \in [Users -> [Profiles -> Session!MappingRows]]
    BY <1>0, <1>13 DEF Session!RemoveProfile, Session!MappingRows
  <2> QED BY <1>7, <1>13, <2>1, EditOK DEF Session!RemoveProfile
<1>14. CASE Session!Tick
  <2> USE DEF SessionInv, SessionTyped
  <2>1. UNCHANGED <<users, mappings>> /\ moment' = moment + 1
    BY <1>14 DEF Session!Tick
  <2>2. held' = [u \in Users |-> [p \in Profiles |->
                   IF p \in Session!Seen(users,
                         mappings)[u] THEN moment + 1 ELSE held[u][p]]]
    BY <1>14 DEF Session!Tick
  <2>3. held' \in [Users -> [Profiles -> Nat]] /\ moment' \in Nat
    BY <2>1, <2>2
  <2>4. \A u \in Users, p \in Profiles :
          held'[u][p] = IF p \in Session!Seen(users,
                mappings)[u] THEN moment + 1 ELSE held[u][p]
    BY <2>2
  <2>5. browser' = [u \in Users |->
           [access |-> IF browser[u].access # Nobody /\ browser[u].access.exp >= moment'
                       THEN browser[u].access ELSE Nobody,
            refresh |-> IF browser[u].refresh # Nobody /\ browser[u].refresh.exp >= moment'
                        THEN browser[u].refresh ELSE Nobody]]
    BY <1>14 DEF Session!Tick
  <2>6. browser' \in [Users -> Cookies] /\ \A u \in Users : browser'[u].access \in {browser[u].access, Nobody}
    BY <2>5 DEF Cookies
  <2>7. InSight'
    BY <2>1, <2>3, <2>4 DEF InSight
  <2>8. TokenOK'
    <3> SUFFICES ASSUME NEW u \in Users, browser'[u].access # Nobody
                 PROVE  /\ users[u] # Nobody /\ browser[u].access.role = users[u].role
                        /\ \A p \in browser[u].access.profiles :
                              held'[u][p] + AccessTtl >= browser[u].access.exp
      BY <2>1, <2>6 DEF TokenOK
    <3>1. /\ browser[u].access # Nobody /\ browser[u].access \in AccessToken
      BY <2>6 DEF Cookies
    <3>2. browser[u].access.exp \in Nat /\ browser[u].access.profiles \subseteq Profiles
      BY <3>1 DEF AccessToken
    <3>3. ASSUME NEW p \in browser[u].access.profiles
          PROVE  held'[u][p] + AccessTtl >= browser[u].access.exp
      <4>1. held'[u][p] >= held[u][p] /\ held'[u][p] \in Nat /\ held[u][p] \in Nat
        BY <2>3, <2>4, <3>2, <3>3 DEF InSight
      <4>2. held[u][p] + AccessTtl >= browser[u].access.exp
        BY <3>1, <3>3 DEF TokenOK
      <4> QED BY <3>2, <4>1, <4>2 DEF Session!AccessAssumption
    <3> QED BY <3>1, <3>3 DEF TokenOK
  <2> QED BY <2>1, <2>3, <2>6, <2>7, <2>8
<1>15. CASE UNCHANGED Session!vars
  BY <1>15 DEF Session!vars, SessionInv, SessionTyped, InSight, TokenOK
<1> QED
  BY <1>2, <1>3, <1>4, <1>8, <1>9, <1>10, <1>11, <1>12, <1>13, <1>14, <1>15 DEF Session!Next

\* What is taken from a viewer is gone one life of an access token later, for
\* any users, profiles, edits and lives of the tokens (require_profile_access,
\* refresh_token).
THEOREM AccessEndsAlways == ASSUME Session!AccessAssumption PROVE EverySpec => []AccessEnds
<1>1. SessionInv => Session!AccessEnds
  <2> SUFFICES ASSUME SessionInv, NEW u \in Users, NEW p \in Profiles,
                      Session!Admitted(u, p), users[u].role = "viewer"
               PROVE  held[u][p] + AccessTtl >= moment
    BY DEF Session!AccessEnds
  <2>1. browser[u].access # Nobody /\ browser[u].access.exp >= moment
    BY DEF Session!Admitted, Session!Live
  <2>2. p \in browser[u].access.profiles
    BY <2>1 DEF Session!Admitted, SessionInv, TokenOK
  <2>3. browser[u].access.exp \in Nat /\ moment \in Nat /\ held[u][p] \in Nat /\ AccessTtl \in Nat
    BY <2>1 DEF SessionInv, SessionTyped, Cookies, AccessToken, Session!AccessAssumption
  <2>4. held[u][p] + AccessTtl >= browser[u].access.exp
    BY <2>1, <2>2 DEF SessionInv, TokenOK
  <2> QED BY <2>1, <2>3, <2>4
<1>2. EveryInit => (part = "session" => SessionInv)
  BY SessionInit DEF EveryInit
<1>3. (part = "session" => SessionInv) /\ [EveryNext]_allVars => (part = "session" => SessionInv)'
  BY SessionStep, PartsApart
<1> QED
  BY <1>1, <1>2, <1>3, PTL DEF EverySpec, AccessEnds

-----------------------------------------------------------------------------
(* The prices.                                                             *)

Sight(t, p, m) == [of |-> t, price |-> p, time |-> m]

FeedTyped ==
    /\ clock \in Nat /\ left \subseteq Tickers
    /\ DOMAIN prices = Spellings /\ DOMAIN book = Tickers /\ DOMAIN fill = Tickers
    /\ \A s \in Spellings : prices[s].time # NoPrice => prices[s].time \in 0 .. clock
    /\ \A t \in Tickers : fill[t] # NoPrice => fill[t].time \in 0 .. clock
    /\ \A w \in seen : w.time \in 0 .. clock

Close(b) == Feed!BookTop(b) # NoPrice /\ ~Feed!TooWide(Feed!BookTop(b))

\* The quotes that stand were seen now, and the fills that count when they were
\* made.
MarketSeen ==
    /\ \A t \in Tickers : Close(book[t]) => Sight(t, Feed!BookTop(book[t]).mid,
          clock) \in seen
    /\ \A t \in Tickers :
          fill[t] # NoPrice /\ clock - fill[t].time <= Ttl + MaxFillAge =>
             Sight(t, fill[t].price, fill[t].time) \in seen

\* A cached price, while it is given out, was seen no longer before it was
\* cached than a fill may be old.
CachedSeen ==
    \A s \in Spellings :
        prices[s].time # NoPrice /\ clock - prices[s].time <= Ttl =>
            \E w \in seen : /\ w.of = s /\ w.price = prices[s].price
                            /\ w.time >= prices[s].time - MaxFillAge

FeedInv == FeedTyped /\ MarketSeen /\ CachedSeen

LEMMA WitnessedIs ==
    ASSUME NEW t, NEW b, NEW f
    PROVE  /\ Close(b) => Sight(t, Feed!BookTop(b).mid, clock) \in Feed!Witnessed(t, b, f)
           /\ \A w \in Feed!Witnessed(t, b, f) : \E p : w = Sight(t, p, clock)
  BY DEF Feed!Witnessed, Close, Sight

LEMMA SightIs ==
    ASSUME NEW t, NEW p, NEW m, NEW n
    PROVE  /\ Sight(t, p, m).of = t /\ Sight(t, p, m).price = p /\ Sight(t, p, m).time = m
           /\ [Sight(t, p, m) EXCEPT !.time = n] = Sight(t, p, n)
  BY DEF Sight

LEMMA FeedInit == ASSUME Feed!PriceAssumption, Feed!Init PROVE FeedInv
<1> USE DEF Feed!Init
<1>1. /\ clock = 0 /\ left = {} /\ DOMAIN prices = Spellings /\ DOMAIN book = Tickers
      /\ DOMAIN fill = Tickers /\ \A s \in Spellings : prices[s].time = NoPrice
      /\ \A t \in Tickers : fill[t] = NoPrice
      /\ seen = UNION {Feed!Witnessed(t, book[t], NoPrice) : t \in Tickers}
  OBVIOUS
<1> HIDE DEF Feed!Init
<1>2. ASSUME NEW w \in seen PROVE w.time = 0
  <2>1. PICK t \in Tickers : w \in Feed!Witnessed(t, book[t], NoPrice)
    BY <1>1
  <2>2. PICK p : w = Sight(t, p, clock)
    BY <2>1, WitnessedIs
  <2> QED BY <1>1, <2>2, SightIs
<1>3. \A t \in Tickers : Close(book[t]) => Sight(t, Feed!BookTop(book[t]).mid,
      clock) \in seen
  BY <1>1, WitnessedIs
<1> QED BY <1>1, <1>2, <1>3 DEF FeedInv, FeedTyped, MarketSeen, CachedSeen

LEMMA FeedStep ==
    ASSUME Feed!PriceAssumption, FeedInv, [Feed!Next]_Feed!vars
    PROVE  FeedInv'
<1> USE DEF FeedInv
<1>0. Ttl \in Nat /\ MaxFillAge \in Nat /\ Tickers \subseteq Spellings
  BY DEF Feed!PriceAssumption
<1>1. ASSUME NEW r \in BOOLEAN, Feed!StartPass(r) PROVE FeedInv'
  BY <1>1 DEF Feed!StartPass, FeedTyped, MarketSeen, CachedSeen
<1>2. ASSUME NEW t \in Tickers, NEW gotBook \in BOOLEAN, NEW gotFill \in BOOLEAN,
             Feed!Visit(t, gotBook, gotFill)
      PROVE  FeedInv'
  <2> DEFINE top == IF gotBook THEN Feed!BookTop(book[t]) ELSE NoPrice
             asks == top = NoPrice \/ Feed!TooWide(top)
             price == Feed!ResolveReferencePrice(
                          IF asks THEN Feed!FreshTradePrice(fill[t]) ELSE NoPrice, top)
  <2>1. /\ UNCHANGED <<clock, book, fill, seen>> /\ left' \subseteq left
        /\ \/ prices' = prices
           \/ price # NoPrice /\ prices' = [prices EXCEPT ![t] = [price |-> price,
                 time |-> clock]]
    BY <1>2 DEF Feed!Visit
  <2>2. ASSUME price # NoPrice
        PROVE  \E w \in seen : w.of = t /\ w.price = price /\ w.time >= clock - MaxFillAge
    <3>1. CASE asks
      <4>1. price = Feed!FreshTradePrice(fill[t])
        BY <3>1 DEF Feed!ResolveReferencePrice
      <4>2. fill[t] # NoPrice /\ ~(clock - fill[t].time > MaxFillAge) /\ price = fill[t].price
        BY <2>2, <4>1 DEF Feed!FreshTradePrice
      <4>3. fill[t].time \in 0 .. clock /\ clock \in Nat
        BY <4>2 DEF FeedTyped
      <4>4. Sight(t, fill[t].price, fill[t].time) \in seen
        BY <1>0, <4>2, <4>3 DEF MarketSeen
      <4> HIDE DEF price
      <4> QED BY <1>0, <4>2, <4>3, <4>4, SightIs
    <3>2. CASE ~asks
      <4>1. Close(book[t]) /\ price = Feed!BookTop(book[t]).mid
        BY <3>2 DEF Close, Feed!ResolveReferencePrice
      <4>2. Sight(t, Feed!BookTop(book[t]).mid, clock) \in seen
        BY <4>1 DEF MarketSeen
      <4> QED BY <1>0, <4>1, <4>2 DEF Sight, FeedTyped
    <3> QED BY <3>1, <3>2
  <2> HIDE DEF price
  <2>3. FeedTyped'
    BY <1>0, <2>1 DEF FeedTyped
  <2>4. CachedSeen'
    BY <1>0, <2>1, <2>2 DEF CachedSeen, FeedTyped
  <2>5. MarketSeen'
    BY <2>1 DEF MarketSeen, Close
  <2> QED BY <2>3, <2>4, <2>5
<1>3. ASSUME NEW t \in Tickers, NEW b, Feed!BookMoves(t, b) PROVE FeedInv'
  <2>1. /\ book' = [book EXCEPT ![t] = b] /\ seen' = seen \cup Feed!Witnessed(t, b, fill[t])
        /\ UNCHANGED <<clock, fill, left, prices>>
    BY <1>3 DEF Feed!BookMoves
  <2>2. FeedTyped'
    <3>1. ASSUME NEW w \in Feed!Witnessed(t, b, fill[t]) PROVE w.time = clock
      BY <3>1, WitnessedIs, SightIs
    <3> QED BY <2>1, <3>1 DEF FeedTyped
  <2>3. CachedSeen'
    BY <2>1 DEF CachedSeen
  <2>4. MarketSeen'
    BY <2>1, WitnessedIs DEF MarketSeen, FeedTyped, Close
  <2> QED BY <2>2, <2>3, <2>4
<1>4. ASSUME NEW t \in Tickers, NEW p, Feed!Trade(t, p) PROVE FeedInv'
  <2>1. /\ fill' = [fill EXCEPT ![t] = [price |-> p, time |-> clock]]
        /\ seen' = seen \cup {Sight(t, p, clock)}
        /\ UNCHANGED <<clock, book, left, prices>>
    BY <1>4 DEF Feed!Trade, Sight
  <2>2. FeedTyped'
    BY <2>1 DEF FeedTyped, Sight
  <2>3. CachedSeen'
    BY <2>1 DEF CachedSeen
  <2>4. MarketSeen'
    BY <2>1 DEF MarketSeen, FeedTyped, Close
  <2> QED BY <2>2, <2>3, <2>4
<1>5. ASSUME NEW t \in Tickers, NEW p, Feed!ReferenceMoves(t, p) PROVE FeedInv'
  BY <1>5 DEF Feed!ReferenceMoves, FeedTyped, MarketSeen, CachedSeen, Close
<1>6. ASSUME NEW s \in Tickers, Feed!RemoveTicker(s) PROVE FeedInv'
  <2>1. /\ prices' = [prices EXCEPT ![s] = [price |-> NoPrice, time |-> NoPrice]]
        /\ UNCHANGED <<clock, book, fill, left, seen>>
    BY <1>6 DEF Feed!RemoveTicker
  <2> QED BY <1>0, <2>1 DEF FeedTyped, MarketSeen, CachedSeen, Close
<1>7. CASE Feed!Tick
  <2>1. /\ clock' = clock + 1 /\ UNCHANGED <<book, fill, left, prices>> /\ clock \in Nat
        /\ seen' = {w \in seen : clock + 1 - w.time <= Ttl + MaxFillAge}
                   \cup {[w EXCEPT !.time = clock + 1] :
                            w \in UNION {Feed!Witnessed(t, book[t],
                                  NoPrice) : t \in Tickers}}
    BY <1>7 DEF Feed!Tick, FeedTyped
  <2>2. \A w \in seen : clock + 1 - w.time <= Ttl + MaxFillAge => w \in seen'
    BY <2>1
  <2>3. \A t \in Tickers : \A w \in Feed!Witnessed(t, book[t], NoPrice) :
           [w EXCEPT !.time = clock + 1] \in seen'
    BY <2>1
  <2>4. \A w \in seen' : w \in seen \/ \E t \in Tickers : \E p : w = Sight(t, p, clock + 1)
    <3> SUFFICES ASSUME NEW t \in Tickers, NEW w \in Feed!Witnessed(t, book[t], NoPrice)
                 PROVE  \E p : [w EXCEPT !.time = clock + 1] = Sight(t, p, clock + 1)
      BY <2>1
    <3>1. PICK p : w = Sight(t, p, clock)
      BY WitnessedIs
    <3> QED BY <3>1, SightIs
  <2>5. FeedTyped'
    <3>1. \A w \in seen' : w.time \in 0 .. clock + 1
      BY <2>1, <2>4, SightIs DEF FeedTyped
    <3> QED BY <2>1, <3>1 DEF FeedTyped
  <2>6. CachedSeen'
    BY <1>0, <2>1, <2>2 DEF CachedSeen, FeedTyped
  <2>7. MarketSeen'
    <3>1. ASSUME NEW t \in Tickers, Close(book[t])
          PROVE  Sight(t, Feed!BookTop(book[t]).mid, clock + 1) \in seen'
      <4>1. [Sight(t, Feed!BookTop(book[t]).mid, clock) EXCEPT !.time = clock + 1] \in seen'
        BY <2>3, <3>1, WitnessedIs
      <4> QED BY <4>1, SightIs
    <3>2. ASSUME NEW t \in Tickers, fill[t] # NoPrice,
          clock + 1 - fill[t].time <= Ttl + MaxFillAge
          PROVE  Sight(t, fill[t].price, fill[t].time) \in seen'
      <4>1. fill[t].time \in 0 .. clock
        BY <3>2 DEF FeedTyped
      <4>2. Sight(t, fill[t].price, fill[t].time) \in seen
        BY <1>0, <2>1, <3>2, <4>1 DEF MarketSeen
      <4> QED BY <2>2, <3>2, <4>2, SightIs
    <3>3. clock' = clock + 1 /\ book' = book /\ fill' = fill
      BY <2>1
    <3>4. (\A t \in Tickers : Close(book[t]) => Sight(t, Feed!BookTop(book[t]).mid,
          clock) \in seen)'
      BY <3>1, <3>3 DEF Close, Feed!BookTop, Feed!TooWide, Feed!Usable
    <3>5. (\A t \in Tickers :
             fill[t] # NoPrice /\ clock - fill[t].time <= Ttl + MaxFillAge =>
                Sight(t, fill[t].price, fill[t].time) \in seen)'
      <4> SUFFICES ASSUME NEW t \in Tickers, fill'[t] # NoPrice,
                          clock' - fill'[t].time <= Ttl + MaxFillAge
                   PROVE  Sight(t, fill'[t].price, fill'[t].time) \in seen'
        OBVIOUS
      <4>1. fill[t] # NoPrice /\ clock + 1 - fill[t].time <= Ttl + MaxFillAge
        <5>1. fill[t] # NoPrice /\ clock' - fill[t].time <= Ttl + MaxFillAge
          BY <3>3
        <5>2. fill[t].time \in 0 .. clock /\ clock \in Nat
          BY <5>1 DEF FeedTyped
        <5> QED BY <1>0, <3>3, <5>1, <5>2
      <4>2. Sight(t, fill[t].price, fill[t].time) \in seen'
        BY <3>2, <4>1
      <4> QED BY <3>3, <4>2
    <3> QED BY <3>4, <3>5 DEF MarketSeen
  <2> QED BY <2>5, <2>6, <2>7
<1>8. CASE UNCHANGED Feed!vars
  BY <1>8 DEF Feed!vars, FeedTyped, MarketSeen, CachedSeen, Close
<1> QED
  BY <1>1, <1>2, <1>3, <1>4, <1>5, <1>6, <1>7, <1>8 DEF Feed!Next

\* No made-up price, for any tickers, spellings, books, limits of age and
\* tolerances (resolve_reference_price, fresh_trade_price, PriceCache.get_price).
THEOREM NoPhantomAlways == ASSUME Feed!PriceAssumption PROVE EverySpec => []NoPhantom
<1>1. FeedInv => Feed!NoPhantom
  <2> SUFFICES ASSUME FeedInv, NEW s \in Spellings, Feed!GetPrice(s) # NoPrice
               PROVE  \E w \in seen : /\ w.of \in {s, Alias[s]}
                                      /\ w.price = Feed!GetPrice(s) /\ Feed!Recent(w)
    BY DEF Feed!NoPhantom
  <2>1. PICK x \in {s,
        Alias[s]} : x \in Spellings /\ Feed!Valid(x) /\ Feed!GetPrice(s) = prices[x].price
    BY DEF Feed!GetPrice, Feed!ResolveSymbol, Feed!PriceAssumption
  <2>2. PICK w \in seen : /\ w.of = x /\ w.price = prices[x].price
                          /\ w.time >= prices[x].time - MaxFillAge
    BY <2>1 DEF FeedInv, CachedSeen, Feed!Valid
  <2>3. /\ w.time \in Nat /\ clock \in Nat /\ prices[x].time \in Nat
        /\ clock - prices[x].time <= Ttl /\ Ttl \in Nat /\ MaxFillAge \in Nat
    BY <2>1 DEF FeedInv, FeedTyped, Feed!Valid, Feed!PriceAssumption
  <2> QED BY <2>1, <2>2, <2>3 DEF Feed!Recent
<1>2. EveryInit => (part = "feed" => FeedInv)
  BY FeedInit DEF EveryInit
<1>3. (part = "feed" => FeedInv) /\ [EveryNext]_allVars => (part = "feed" => FeedInv)'
  BY FeedStep, PartsApart
<1> QED
  BY <1>1, <1>2, <1>3, PTL DEF EverySpec, NoPhantom

-----------------------------------------------------------------------------
(* The backtest: its row is Config's bar, and the row's bar its candle.    *)

\* Cardinality, as the backtest takes it from its own copy of FiniteSets.
LEMMA SameCardinality == \A S : Replay!Cardinality(S) = Cardinality(S)
  BY DEF Replay!Cardinality, Cardinality

\* Induction, as a fact about a set of numbers.
LEMMA Numbers ==
    ASSUME NEW T \in SUBSET Nat, 0 \in T, \A n \in T : n + 1 \in T
    PROVE  T = Nat
<1> DEFINE Bad == Nat \ T
<1>1. ASSUME Bad # {} PROVE FALSE
  <2> DEFINE Less == OpToRel(<, Nat)
  <2>1. \A m, n \in Nat : m < n => <<m, n>> \in Less
    BY DEF OpToRel
  <2>2. IsWellFoundedOn(Less, Nat)
    BY NatLessThanWellFounded
  <2> HIDE DEF Less
  <2>3. PICK n \in Bad : \A m \in Bad : ~(<<m, n>> \in Less)
    BY <1>1, <2>2, WFMin
  <2>4. n # 0 /\ n - 1 \in Nat /\ n - 1 < n
    BY <2>3
  <2>5. n - 1 \notin Bad
    BY <2>1, <2>3, <2>4
  <2> QED BY <2>3, <2>4, <2>5
<1> QED BY <1>1

\* The best of finitely many prices.
LEMMA BestOf ==
    ASSUME NEW S, IsFiniteSet(S), S # {}, \A x \in S : x \in Int
    PROVE  Replay!Best(S) \in S /\ \A y \in S : Replay!Best(S) >= y
<1> DEFINE N == Cardinality(S)
<1>0. N \in Nat /\ ExistsBijection(1 .. N, S)
  BY FS_CardinalityType
<1> HIDE DEF N
<1>1. PICK g \in [1 .. N -> S] : \A x \in S : \E i \in 1 .. N : g[i] = x
  <2>1. PICK g \in Bijection(1 .. N, S) : TRUE
    BY <1>0 DEF ExistsBijection
  <2> QED BY <2>1 DEF Bijection, Surjection
<1>2. \A i \in 1 .. N : g[i] \in Int
  OBVIOUS
<1> DEFINE Top == {n \in Nat : n + 1 <= N =>
                        \E i \in 1 .. n + 1 : \A j \in 1 .. n + 1 : g[j] <= g[i]}
<1>3. 0 \in Top
  BY <1>2
<1>4. ASSUME NEW n \in Top PROVE n + 1 \in Top
  <2> SUFFICES ASSUME n + 2 <= N
               PROVE  \E i \in 1 .. n + 2 : \A j \in 1 .. n + 2 : g[j] <= g[i]
    BY DEF Top
  <2>1. n \in Nat /\ n + 1 <= N
    BY <1>0 DEF Top
  <2>2. PICK i \in 1 .. n + 1 : \A j \in 1 .. n + 1 : g[j] <= g[i]
    BY <2>1 DEF Top
  <2>3. /\ \A j \in 1 .. n + 2 : j \in 1 .. n + 1 \/ j = n + 2
        /\ \A j \in 1 .. n + 2 : j \in 1 .. N
        /\ i \in 1 .. n + 2 /\ n + 2 \in 1 .. n + 2
    BY <1>0, <2>1
  <2>4. g[i] \in Int /\ g[n + 2] \in Int /\ \A j \in 1 .. n + 2 : g[j] \in Int
    BY <1>2, <2>3
  <2>5. CASE g[n + 2] <= g[i]
    BY <2>2, <2>3, <2>5
  <2>6. CASE g[i] <= g[n + 2]
    <3>1. ASSUME NEW j \in 1 .. n + 2 PROVE g[j] <= g[n + 2]
      <4>1. CASE j = n + 2
        BY <2>4, <4>1
      <4>2. CASE j \in 1 .. n + 1
        <5>1. g[j] <= g[i] /\ g[j] \in Int
          BY <2>2, <2>4, <4>2
        <5> QED BY <2>4, <2>6, <5>1
      <4> QED BY <2>3, <4>1, <4>2
    <3> QED BY <2>3, <3>1
  <2>7. g[n + 2] <= g[i] \/ g[i] <= g[n + 2]
    BY <2>4
  <2> QED BY <2>5, <2>6, <2>7, Zenon
<1> HIDE DEF Top
<1>5. Top = Nat
  <2>1. Top \in SUBSET Nat
    BY DEF Top
  <2> QED BY <2>1, <1>3, <1>4, Numbers
<1>6. N >= 1 /\ N - 1 \in Top
  BY <1>0, <1>1, <1>5
<1>7. PICK i \in 1 .. N : \A j \in 1 .. N : g[j] <= g[i]
  BY <1>0, <1>6 DEF Top
<1>8. g[i] \in S /\ \A y \in S : g[i] >= y
  BY <1>1, <1>2, <1>7
<1> QED BY <1>8 DEF Replay!Best

LEMMA WorstOf ==
    ASSUME NEW S, IsFiniteSet(S), S # {}, \A x \in S : x \in Int
    PROVE  Replay!Worst(S) \in S /\ \A y \in S : Replay!Worst(S) <= y
<1> DEFINE M == {-x : x \in S}
           m == [x \in S |-> -x]
<1>1. m \in Surjection(S, M)
  BY DEF Surjection
<1>2. IsFiniteSet(M) /\ M # {} /\ \A x \in M : x \in Int
  <2>1. IsFiniteSet(M)
    BY <1>1, FS_Surjection
  <2> QED BY <2>1
<1>3. Replay!Best(M) \in M /\ \A y \in M : Replay!Best(M) >= y
  BY <1>2, BestOf
<1>4. PICK x \in S : Replay!Best(M) = -x
  BY <1>3
<1>5. \A y \in S : x <= y
  <2>1. \A y \in S : -x >= -y
    BY <1>3, <1>4
  <2> QED BY <2>1
<1> QED BY <1>5 DEF Replay!Worst

-----------------------------------------------------------------------------
(* What a position earned, as a function of what it depends on.            *)

Sided(s, p) == s * p
EarnedBy(s, best, at, m, r, b, w) ==
    Replay!Best({best}
         \cup {Sided(s, b[i]) : i \in {j \in 1..Ticks :
                  at < Replay!Moment(r - 1, j) /\ Replay!Moment(r - 1, j) <= m}}
         \cup {Sided(s, w[i]) : i \in {j \in 1..Ticks :
                  at < Replay!Moment(r, j) /\ Replay!Moment(r, j) <= m}})

LEMMA EarnedIs == \A p, m :
   Replay!Earned(p, m) = EarnedBy(side, p.best, p.at, m, bar, candle, path)
  BY DEF Replay!Earned, EarnedBy, Replay!Fav, Sided

Counts(E, s, best, at, m, r, b, w) ==
    /\ E \in Int /\ E >= best
    /\ \A i \in 1..Ticks :
          at < Replay!Moment(r - 1, i) /\ Replay!Moment(r - 1, i) <= m => E >= Sided(s, b[i])
    /\ \A i \in 1..Ticks :
          at < Replay!Moment(r, i) /\ Replay!Moment(r, i) <= m => E >= Sided(s, w[i])
    /\ \/ E = best
       \/ \E i \in 1..Ticks : /\ at < Replay!Moment(r - 1, i) /\ Replay!Moment(r - 1, i) <= m
                              /\ E = Sided(s, b[i])
       \/ \E i \in 1..Ticks : /\ at < Replay!Moment(r, i) /\ Replay!Moment(r, i) <= m
                              /\ E = Sided(s, w[i])

LEMMA EarnedFacts ==
    ASSUME Replay!BacktestAssumption, NEW s \in {1, -1}, NEW best \in Int, NEW at, NEW m, NEW r,
           NEW b \in Replay!Paths, NEW w \in Replay!Paths
    PROVE  Counts(EarnedBy(s, best, at, m, r, b, w), s, best, at, m, r, b, w)
<1> DEFINE E == EarnedBy(s, best, at, m, r, b, w)
<1> DEFINE A == {j \in 1..Ticks : at < Replay!Moment(r - 1, j) /\ Replay!Moment(r - 1, j) <= m}
           B == {j \in 1..Ticks : at < Replay!Moment(r, j) /\ Replay!Moment(r, j) <= m}
           SA == {Sided(s, b[i]) : i \in A}
           SB == {Sided(s, w[i]) : i \in B}
           S == {best} \cup SA \cup SB
<1>0. Ticks \in Nat
  BY DEF Replay!BacktestAssumption
<1>1. /\ \A i \in 1..Ticks : Sided(s, b[i]) \in Int /\ Sided(s, w[i]) \in Int
      /\ A \subseteq 1..Ticks /\ B \subseteq 1..Ticks
  <2>1. \A i \in 1..Ticks : b[i] \in Levels /\ w[i] \in Levels
    BY DEF Replay!Paths
  <2>2. \A x \in Levels : x \in Int
    BY DEF Replay!BacktestAssumption
  <2> QED BY <2>1, <2>2 DEF Sided
<1> HIDE DEF A, B
<1>2. IsFiniteSet(A) /\ IsFiniteSet(B)
  <2>1. IsFiniteSet(1..Ticks)
    BY <1>0, FS_Interval
  <2> QED BY <1>1, <2>1, FS_Subset
<1>3. IsFiniteSet(SA)
  <2>1. [i \in A |-> Sided(s, b[i])] \in Surjection(A, SA)
    BY DEF Surjection
  <2> QED BY <1>2, <2>1, FS_Surjection
<1>4. IsFiniteSet(SB)
  <2>1. [i \in B |-> Sided(s, w[i])] \in Surjection(B, SB)
    BY DEF Surjection
  <2> QED BY <1>2, <2>1, FS_Surjection
<1>5. IsFiniteSet(S)
  <2>1. IsFiniteSet({best})
    BY FS_Singleton
  <2> HIDE DEF SA, SB
  <2> QED BY <1>3, <1>4, <2>1, FS_Union
<1>6. S # {} /\ \A x \in S : x \in Int
  BY <1>1
<1>8. E = Replay!Best(S)
  BY DEF EarnedBy, A, B
<1> HIDE DEF E
<1>7. E \in S /\ \A y \in S : E >= y
  <2> HIDE DEF S
  <2> QED BY <1>5, <1>6, <1>8, BestOf
<1>9. E \in Int
  BY <1>6, <1>7
<1>10. E >= best /\ (\A i \in A : E >= Sided(s, b[i])) /\ (\A i \in B : E >= Sided(s, w[i]))
  BY <1>7
<1>11. E = best \/ (\E i \in A : E = Sided(s, b[i])) \/ (\E i \in B : E = Sided(s, w[i]))
  BY <1>7
<1>12. Counts(E, s, best, at, m, r, b, w)
  BY <1>9, <1>10, <1>11 DEF A, B, Counts
<1> QED BY <1>12 DEF E

-----------------------------------------------------------------------------
(* A position among the prices.                                            *)

Held == [entry : Int, mark : Int, armed : BOOLEAN, trail : Int, runner : BOOLEAN,
         since : Int, main : Int, due : Int, slot : Int, best : Int, at : Int,
         gap : BOOLEAN]

\* The window and what it starts from.
Window ==
    /\ side \in {1, -1} /\ bar \in Nat \ {0}
    /\ candle \in Replay!Paths /\ path \in Replay!Paths

\* The same position, as the rules have moved it.
Kept(q, p) == /\ q \in Held
              /\ q.best = p.best /\ q.at = p.at /\ q.since = p.since /\ q.gap = p.gap
              /\ q.slot = p.slot

\* Its mark was earned until m, and the part a runner left behind its fill.
Trusted(p, m) == ~p.gap => p.mark <= Replay!Earned(p, m) /\ p.main <= p.due

LEMMA PricesInt ==
    ASSUME Replay!BacktestAssumption, NEW w \in Replay!Paths
    PROVE  \A i \in 1..Ticks : w[i] \in Int
<1>1. \A i \in 1..Ticks : w[i] \in Levels
  BY DEF Replay!Paths
<1>2. \A x \in Levels : x \in Int
  BY DEF Replay!BacktestAssumption
<1> QED BY <1>1, <1>2

\* What counts is the entry's best price and those between the entry and m.
LEMMA EarnedHas ==
    ASSUME Replay!BacktestAssumption, Window, NEW p \in Held, NEW m
    PROVE  /\ Replay!Earned(p, m) \in Int /\ Replay!Earned(p, m) >= p.best
           /\ \A i \in 1..Ticks : p.at < Replay!Moment(bar - 1, i)
                 /\ Replay!Moment(bar - 1, i) <= m =>
                                     Replay!Earned(p, m) >= Sided(side, candle[i])
           /\ \A i \in 1..Ticks : p.at < Replay!Moment(bar, i) /\ Replay!Moment(bar, i) <= m =>
                                     Replay!Earned(p, m) >= Sided(side, path[i])
           /\ \/ Replay!Earned(p, m) = p.best
              \/ \E i \in 1..Ticks : /\ p.at < Replay!Moment(bar - 1, i)
                                     /\ Replay!Moment(bar - 1, i) <= m
                                     /\ Replay!Earned(p, m) = Sided(side, candle[i])
              \/ \E i \in 1..Ticks : /\ p.at < Replay!Moment(bar, i)
                                     /\ Replay!Moment(bar, i) <= m
                                     /\ Replay!Earned(p, m) = Sided(side, path[i])
<1> DEFINE E == Replay!Earned(p, m)
<1>1. E = EarnedBy(side, p.best, p.at, m, bar, candle, path)
  BY EarnedIs
<1>2. p.best \in Int /\ side \in {1, -1} /\ candle \in Replay!Paths /\ path \in Replay!Paths
  BY DEF Held, Window
<1> HIDE DEF E
<1>3. Counts(E, side, p.best, p.at, m, bar, candle, path)
  BY <1>1, <1>2, EarnedFacts
<1> QED BY <1>3 DEF E, Counts

LEMMA EarnedInt ==
    ASSUME Replay!BacktestAssumption, Window, NEW p \in Held, NEW m
    PROVE  Replay!Earned(p, m) \in Int /\ Replay!Earned(p, m) >= p.best
  BY EarnedHas

LEMMA EarnedSame ==
    ASSUME NEW p, NEW q, q.best = p.best, q.at = p.at, NEW m
    PROVE  Replay!Earned(q, m) = Replay!Earned(p, m)
  BY EarnedIs

LEMMA EarnedGrows ==
    ASSUME Replay!BacktestAssumption, Window, NEW p \in Held, NEW m \in Int, NEW n \in Int,
              m <= n
    PROVE  Replay!Earned(p, m) <= Replay!Earned(p, n)
<1> DEFINE E == Replay!Earned(p, m)
           F == Replay!Earned(p, n)
<1>0. \A i \in 1..Ticks : Replay!Moment(bar, i) \in Int /\ Replay!Moment(bar - 1, i) \in Int
  BY DEF Replay!Moment, Window, Replay!BacktestAssumption
<1>2. /\ F >= p.best
      /\ \A i \in 1..Ticks :
            p.at < Replay!Moment(bar - 1, i) /\ Replay!Moment(bar - 1, i) <= n =>
               F >= Sided(side, candle[i])
      /\ \A i \in 1..Ticks :
            p.at < Replay!Moment(bar, i) /\ Replay!Moment(bar, i) <= n =>
               F >= Sided(side, path[i])
  BY EarnedHas, Zenon
<1>3. \/ E = p.best
      \/ \E i \in 1..Ticks : /\ p.at < Replay!Moment(bar - 1, i)
                             /\ Replay!Moment(bar - 1, i) <= m
                             /\ E = Sided(side, candle[i])
      \/ \E i \in 1..Ticks : /\ p.at < Replay!Moment(bar, i) /\ Replay!Moment(bar, i) <= m
                             /\ E = Sided(side, path[i])
  BY EarnedHas, Zenon
<1> HIDE DEF E, F
<1>4. \A x \in Int : x <= m => x <= n
  OBVIOUS
<1>5. F >= E
  BY <1>0, <1>2, <1>3, <1>4
<1>6. F \in Int /\ E \in Int
  BY EarnedInt DEF E, F
<1>7. \A x, y \in Int : x >= y => y <= x
  OBVIOUS
<1> QED BY <1>5, <1>6, <1>7 DEF E, F

LEMMA MarkedIs ==
    ASSUME NEW p \in Held, NEW x \in Int
    PROVE  /\ Kept(Replay!Marked(p, x), p) /\ Replay!Marked(p, x).trail = p.trail
           /\ Replay!Marked(p, x).main = p.main /\ Replay!Marked(p, x).due = p.due
           /\ Replay!Marked(p, x).mark = IF x <= p.mark THEN p.mark ELSE x
           /\ Replay!Marked(p, x).entry = p.entry
<1>1. CASE x <= p.mark
  BY <1>1 DEF Replay!Marked, Kept
<1>2. CASE ~(x <= p.mark)
  <2> DEFINE b == p.armed \/ x >= Replay!Fav(p.entry) + Arm
  <2>1. Replay!Marked(p, x) = [p EXCEPT !.mark = x, !.armed = b] /\ b \in BOOLEAN
    BY <1>2 DEF Replay!Marked
  <2> HIDE DEF b
  <2> QED BY <1>2, <2>1 DEF Kept, Held
<1> QED BY <1>1, <1>2

LEMMA RunnerIs ==
    ASSUME Replay!BacktestAssumption, Window, NEW p \in Held, NEW m \in Int, Trusted(p, m)
    PROVE  /\ Kept(Replay!AsRunner(p, m), p) /\ Replay!AsRunner(p, m).mark = p.mark
           /\ Trusted(Replay!AsRunner(p, m), m)
<1> DEFINE q == Replay!AsRunner(p, m)
<1>1. q = [p EXCEPT !.runner = TRUE, !.trail = RunnerTrail,
                    !.main = p.mark - p.trail, !.due = Replay!Earned(p, m) - p.trail]
  BY DEF Replay!AsRunner, Replay!Fill
<1>2. Replay!Earned(p, m) \in Int /\ RunnerTrail \in Int /\ p.mark \in Int /\ p.trail \in Int
  BY EarnedInt DEF Held, Replay!BacktestAssumption
<1> DEFINE a == p.mark - p.trail
           d == Replay!Earned(p, m) - p.trail
<1>6. a \in Int /\ d \in Int
  BY <1>2
<1> HIDE DEF q, a, d
<1>3. Kept(q, p) /\ q.mark = p.mark /\ q.main = p.mark - p.trail
      /\ q.due = Replay!Earned(p, m) - p.trail
  <2>1. q = [p EXCEPT !.runner = TRUE, !.trail = RunnerTrail, !.main = a, !.due = d]
    BY <1>1 DEF a, d
  <2>2. Kept(q, p) /\ q.mark = p.mark /\ q.main = a /\ q.due = d
    BY <1>2, <1>6, <2>1 DEF Kept, Held
  <2> QED BY <2>2 DEF a, d
<1>4. Replay!Earned(q, m) = Replay!Earned(p, m)
  BY <1>3, EarnedSame DEF Kept
<1>5. Trusted(q, m)
  BY <1>2, <1>3, <1>4 DEF Trusted, Kept
<1> QED BY <1>3, <1>5 DEF q

\* A position faces one more price.
Faces == [pos : Held, hit : {"none"} \cup Replay!LevelExits, idx : Int]

LEMMA Touched ==
    ASSUME Replay!BacktestAssumption, Window, NEW mayRun \in BOOLEAN,
           NEW s \in Faces, s.hit = "none",
           NEW i \in 1..Ticks, s.pos.at < Replay!Moment(bar, i),
           NEW m \in Int, m <= Replay!Moment(bar, i), Trusted(s.pos, m),
           NEW t, t = Replay!Touch(mayRun, s, i, Replay!Fav(path[i]))
    PROVE  /\ t \in Faces /\ Kept(t.pos, s.pos) /\ Trusted(t.pos, Replay!Moment(bar, i))
           /\ t.hit # "none" => t.idx = i
<1> DEFINE x == Replay!Fav(path[i])
           p == Replay!Marked(s.pos, x)
           hit == Replay!RuleHit(p, x, x)
           n == Replay!Moment(bar, i)
<1>1. s.pos \in Held /\ x \in Int /\ n \in Int
  <2>1. path[i] \in Int
    BY PricesInt DEF Window
  <2> QED BY <2>1 DEF Faces, Window, Replay!Fav, Replay!Moment, Replay!BacktestAssumption
<1>2. hit \in {"none"} \cup Replay!LevelExits
  BY DEF Replay!RuleHit, Replay!LevelExits
<1>3. t = IF mayRun /\ Replay!Runs(p, hit) THEN [s EXCEPT !.pos = Replay!AsRunner(p, n)]
          ELSE [pos |-> p, hit |-> hit, idx |-> i]
  BY DEF Replay!Touch
<1>4. Replay!Earned(s.pos, n) \in Int /\ Replay!Earned(s.pos, n) >= x
         /\ Replay!Earned(s.pos, m) <= Replay!Earned(s.pos, n)
      /\ Replay!Earned(s.pos, m) \in Int
  <2>1. /\ \A k \in 1..Ticks : s.pos.at < Replay!Moment(bar, k) /\ Replay!Moment(bar, k) <= n =>
                                Replay!Earned(s.pos, n) >= Sided(side, path[k])
        /\ Replay!Earned(s.pos, n) \in Int /\ Replay!Earned(s.pos, m) \in Int
    BY <1>1, EarnedHas, Zenon
  <2>2. n <= n /\ m <= n
    BY <1>1
  <2> QED BY <1>1, <2>1, <2>2, EarnedGrows DEF Replay!Fav, Sided
<1> HIDE DEF x, hit, n
<1>5. /\ Kept(p, s.pos) /\ p.main = s.pos.main /\ p.due = s.pos.due
      /\ p.mark = IF x <= s.pos.mark THEN s.pos.mark ELSE x
  BY <1>1, MarkedIs
<1> HIDE DEF p
<1>6. Trusted(p, n)
  <2>1. Replay!Earned(p, n) = Replay!Earned(s.pos, n)
    BY <1>5, EarnedSame DEF Kept
  <2>2. s.pos.mark \in Int
    BY <1>1 DEF Held
  <2> QED BY <1>1, <1>4, <1>5, <2>1, <2>2 DEF Trusted, Kept
<1>7. CASE mayRun /\ Replay!Runs(p, hit)
  <2>1. p \in Held
    BY <1>5 DEF Kept
  <2>2. Kept(Replay!AsRunner(p, n), p) /\ Trusted(Replay!AsRunner(p, n), n)
    BY <1>1, <1>6, <2>1, RunnerIs
  <2>3. t \in Faces /\ t.pos = Replay!AsRunner(p, n) /\ t.hit = "none"
    BY <1>3, <1>7, <2>2 DEF Faces, Kept
  <2> QED BY <1>5, <2>2, <2>3 DEF Kept, n
<1>8. CASE ~(mayRun /\ Replay!Runs(p, hit))
  <2>1. t = [pos |-> p, hit |-> hit, idx |-> i]
    BY <1>3, <1>8
  <2> QED BY <1>2, <1>5, <1>6, <2>1 DEF Faces, Kept, n
<1> QED BY <1>7, <1>8
-----------------------------------------------------------------------------
(* The ticks of a window, one after the other.                             *)

Start(p) == [pos |-> p, hit |-> "none", idx |-> 0]
Walks(f, p, w, from, mayRun) ==
    f = [i \in 0..Ticks |-> IF i = 0 THEN Start(p)
                            ELSE IF i < from THEN f[i - 1]
                            ELSE Replay!Touch(mayRun, f[i - 1], i, Replay!Fav(w[i]))]

LEMMA WalksExists ==
    ASSUME Ticks \in Nat, NEW p, NEW w, NEW from, NEW mayRun
    PROVE  \E f : Walks(f, p, w, from, mayRun)
<1> DEFINE V(f, i) == IF i = 0 THEN Start(p) ELSE IF i < from THEN f[i - 1]
                                      ELSE Replay!Touch(mayRun, f[i - 1], i, Replay!Fav(w[i]))
           T == {n \in Nat : \E f : \A i \in 0 .. n : f[i] = V(f, i)}
<1>1. 0 \in T
  <2> DEFINE f == [i \in 0 .. 0 |-> Start(p)]
  <2>1. \A i \in 0 .. 0 : f[i] = V(f, i)
    OBVIOUS
  <2> HIDE DEF V
  <2> QED BY <2>1
<1>2. ASSUME NEW n \in T PROVE n + 1 \in T
  <2>1. PICK f : \A i \in 0 .. n : f[i] = V(f, i)
    OBVIOUS
  <2> DEFINE g == [i \in 0 .. n + 1 |-> IF i <= n THEN f[i] ELSE V(f, i)]
  <2>2. n \in Nat
    OBVIOUS
  <2>3. ASSUME NEW i \in 0 .. n + 1 PROVE g[i] = V(g, i)
    <3>1. g[i] = V(f, i)
      BY <2>1, <2>2
    <3>2. CASE i = 0
      BY <3>1, <3>2
    <3>3. CASE i # 0
      <4>1. i - 1 \in 0 .. n + 1 /\ i - 1 <= n
        BY <2>2, <3>3
      <4>2. g[i - 1] = f[i - 1]
        BY <4>1
      <4> HIDE DEF g
      <4> QED BY <3>1, <3>3, <4>2
    <3> QED BY <3>2, <3>3
  <2>4. n + 1 \in Nat
    BY <2>2
  <2> HIDE DEF V, g
  <2>5. \A i \in 0 .. n + 1 : g[i] = V(g, i)
    BY <2>3
  <2> QED BY <2>4, <2>5
<1>3. T = Nat
  <2>1. T \in SUBSET Nat
    OBVIOUS
  <2> HIDE DEF T
  <2> QED BY <1>1, <1>2, <2>1, Numbers
<1>4. PICK f : \A i \in 0 .. Ticks : f[i] = V(f, i)
  <2>1. Ticks \in T
    BY <1>3
  <2> QED BY <2>1
<1> DEFINE g == [i \in 0 .. Ticks |-> f[i]]
<1>5. ASSUME NEW i \in 0 .. Ticks PROVE g[i] = V(g, i)
  <2>1. CASE i = 0
    BY <1>4, <2>1
  <2>2. CASE i # 0
    <3>1. i - 1 \in 0 .. Ticks
      BY <2>2
    <3>2. g[i - 1] = f[i - 1]
      BY <3>1
    <3>3. g[i] = V(f, i)
      BY <1>4
    <3> HIDE DEF g
    <3> QED BY <2>2, <3>2, <3>3
  <2> QED BY <2>1, <2>2
<1>6. g = [i \in 0 .. Ticks |-> V(g, i)]
  <2>1. g = [i \in 0 .. Ticks |-> g[i]]
    OBVIOUS
  <2> HIDE DEF g, V
  <2> QED BY <1>5, <2>1
<1> HIDE DEF g
<1>7. Walks(g, p, w, from, mayRun)
  BY <1>6 DEF Walks
<1> QED BY <1>7

\* The position that faced the ticks from `from` on.
LEMMA Walked ==
    ASSUME Replay!BacktestAssumption, Window, NEW mayRun \in BOOLEAN, NEW p \in Held,
           NEW from \in 1..(Ticks + 1), p.at <= Replay!Moment(bar, from - 1),
           Trusted(p, Replay!Moment(bar, from - 1)),
           NEW t, t = Replay!Walk(p, path, from, mayRun)
    PROVE  /\ t \in Faces /\ Kept(t.pos, p)
           /\ t.hit = "none" => Trusted(t.pos, Replay!Moment(bar, Ticks))
           /\ t.hit # "none" => /\ t.idx \in from..Ticks
                                /\ Trusted(t.pos, Replay!Moment(bar, t.idx))
<1> DEFINE Done(n) == IF n < from THEN from - 1 ELSE n
           Fits(x, n) == /\ x \in Faces /\ Kept(x.pos, p)
                         /\ x.hit = "none" => Trusted(x.pos, Replay!Moment(bar, Done(n)))
                         /\ x.hit # "none" => /\ x.idx \in from..n
                                              /\ Trusted(x.pos, Replay!Moment(bar, x.idx))
<1>0. Ticks \in Nat \ {0} /\ from \in Int /\ \A n \in Int : Replay!Moment(bar, n) \in Int
  BY DEF Replay!BacktestAssumption, Replay!Moment, Window
<1>1. PICK f : Walks(f, p, path, from, mayRun)
  BY <1>0, WalksExists
<1> DEFINE g == CHOOSE h : Walks(h, p, path, from, mayRun)
<1>2. Walks(g, p, path, from, mayRun)
  BY <1>1
<1>3. t = g[Ticks]
  BY DEF Replay!Walk, Walks, Start
<1> HIDE DEF g
<1>4. g[0] = Start(p) /\ \A i \in 1..Ticks :
         g[i] = IF i < from THEN g[i - 1]
            ELSE Replay!Touch(mayRun, g[i - 1], i, Replay!Fav(path[i]))
  <2>1. \A i \in 0..Ticks :
           g[i] = IF i = 0 THEN Start(p)
                  ELSE IF i < from THEN g[i - 1]
                  ELSE Replay!Touch(mayRun, g[i - 1], i, Replay!Fav(path[i]))
    BY <1>2, Zenon DEF Walks
  <2>2. 0 \in 0..Ticks /\ \A i \in 1..Ticks : i \in 0..Ticks /\ i # 0
    BY <1>0
  <2>3. g[0] = Start(p)
    BY <2>1, <2>2, Zenon
  <2>4. ASSUME NEW i \in 1..Ticks
        PROVE  g[i] = IF i < from THEN g[i - 1]
                  ELSE Replay!Touch(mayRun, g[i - 1], i, Replay!Fav(path[i]))
    BY <2>1, <2>2, Zenon
  <2> QED BY <2>3, <2>4
<1> DEFINE T == {n \in Nat : n <= Ticks => Fits(g[n], n)}
<1>5. 0 \in T
  <2>1. Start(p) \in Faces /\ Kept(p, p) /\ Start(p).pos = p /\ Start(p).hit = "none"
    BY DEF Start, Faces, Kept
  <2>2. Done(0) = from - 1
    BY <1>0
  <2> QED BY <1>4, <2>1, <2>2
<1>6. ASSUME NEW n \in T PROVE n + 1 \in T
  <2> SUFFICES ASSUME n + 1 <= Ticks PROVE Fits(g[n + 1], n + 1)
    BY DEF T
  <2>0. n \in Nat /\ n <= Ticks /\ n + 1 \in 1..Ticks /\ (n + 1) - 1 = n
    BY <1>0 DEF T
  <2>1. Fits(g[n], n)
    BY <2>0 DEF T
  <2>2. g[n + 1] = IF n + 1 < from THEN g[n]
           ELSE Replay!Touch(mayRun, g[n], n + 1, Replay!Fav(path[n + 1]))
    BY <1>4, <2>0
  <2> HIDE DEF T
  <2>3. CASE n + 1 < from
    <3>1. g[n + 1] = g[n] /\ Done(n + 1) = Done(n) /\ n < from
      BY <1>0, <2>0, <2>2, <2>3
    <3>2. ASSUME NEW x \in from..n PROVE x \in from..(n + 1)
      BY <1>0, <2>0
    <3> HIDE DEF Done
    <3> QED BY <2>1, <3>1, <3>2
  <2>4. CASE ~(n + 1 < from) /\ g[n].hit # "none"
    <3>1. g[n + 1] = g[n]
      BY <2>2, <2>4 DEF Replay!Touch
    <3>2. ASSUME NEW x \in from..n PROVE x \in from..(n + 1)
      BY <1>0, <2>0
    <3> QED BY <2>1, <2>4, <3>1, <3>2
  <2>5. CASE ~(n + 1 < from) /\ g[n].hit = "none"
    <3> DEFINE m == Replay!Moment(bar, Done(n))
               x == g[n]
    <3>1. m \in Int /\ m <= Replay!Moment(bar, n + 1) /\ p.at < Replay!Moment(bar, n + 1)
             /\ Done(n) = n
          /\ Done(n + 1) = n + 1
      <4>1. Done(n) = n /\ Done(n + 1) = n + 1 /\ from - 1 <= n
        BY <1>0, <2>0, <2>5
      <4>2. Replay!Moment(bar, n) < Replay!Moment(bar, n + 1)
               /\ Replay!Moment(bar, from - 1) <= Replay!Moment(bar, n)
            /\ Replay!Moment(bar, n) \in Int /\ Replay!Moment(bar, from - 1) \in Int
            /\ Replay!Moment(bar, n + 1) \in Int
        BY <1>0, <2>0, <4>1 DEF Replay!Moment, Window
      <4>3. p.at \in Int
        BY DEF Held
      <4> QED BY <4>1, <4>2, <4>3
    <3>2. x \in Faces /\ x.hit = "none" /\ Trusted(x.pos, m)
             /\ x.pos.at < Replay!Moment(bar, n + 1)
      BY <2>1, <2>5, <3>1 DEF Kept
    <3>3. g[n + 1] = Replay!Touch(mayRun, x, n + 1, Replay!Fav(path[n + 1]))
      BY <2>2, <2>5
    <3> HIDE DEF x, m
    <3>4. /\ g[n + 1] \in Faces /\ Kept(g[n + 1].pos, x.pos)
          /\ Trusted(g[n + 1].pos, Replay!Moment(bar, n + 1))
          /\ g[n + 1].hit # "none" => g[n + 1].idx = n + 1
      BY <2>0, <3>1, <3>2, <3>3, Touched
    <3>5. Kept(g[n + 1].pos, p)
      BY <2>1, <3>4 DEF Kept, x
    <3>6. n + 1 \in from..(n + 1)
      BY <1>0, <2>0, <2>5
    <3> QED BY <3>1, <3>4, <3>5, <3>6
  <2> QED BY <2>3, <2>4, <2>5
<1>7. T = Nat
  <2>1. T \in SUBSET Nat
    BY DEF T
  <2> HIDE DEF T
  <2> QED BY <1>5, <1>6, <2>1, Numbers
<1>8. Fits(t, Ticks)
  <2>1. Ticks \in T
    BY <1>0, <1>7
  <2> HIDE DEF Fits
  <2> QED BY <1>0, <1>3, <2>1 DEF T
<1>9. t.hit = "none" => Trusted(t.pos, Replay!Moment(bar, Ticks))
  <2>1. Done(Ticks) = Ticks
    BY <1>0
  <2> QED BY <1>8, <2>1
<1> QED BY <1>8, <1>9

-----------------------------------------------------------------------------
(* The replay of a symbol.                                                 *)

Turn(w) == w * Ticks

\* The moment up to which the position has faced the prices, and the one it was
\* opened by.
FacedTo ==
    CASE mode = "ticks" /\ phase = "manage" -> Turn(bar)
      [] mode = "ticks" /\ phase # "manage" -> Turn(bar + 1)
      [] mode # "ticks" /\ phase = "manage" -> Turn(bar - 1)
      [] OTHER -> Turn(bar)
OpenedBy == IF phase = "review" THEN Turn(bar) ELSE FacedTo

TrustedBy(p, m, s, r, b, w) ==
    ~p.gap => p.mark <= EarnedBy(s, p.best, p.at, m, r, b, w) /\ p.main <= p.due

ReplayTyped ==
    /\ Window
    /\ mode \in {"ticks", "candle"} /\ gap \in BOOLEAN /\ (mode = "candle" => ~gap)
    /\ phase \in {"manage", "review", "signal", "next"}
    /\ cooling \in Int

\* An open position was opened before the prices it faces, and after the trade
\* before it was closed; it trusts the prices it faced.
HeldOK ==
    pos # NoTrade \/ phase = "review" =>
        /\ pos \in Held /\ phase # "signal"
        /\ pos.since \in 1..bar
        /\ pos.at > 0 /\ pos.at <= OpenedBy
        /\ gap => pos.gap
        /\ TrustedBy(pos, FacedTo, side, bar, candle, path)
        /\ ~pos.gap /\ done # NoTrade => pos.at > done.exited

\* The last trade was closed no later than the cooldown allows the next to open.
DoneOK ==
    done # NoTrade =>
        /\ done.exited \in Int
        /\ done.exited <= IF mode = "ticks" THEN Turn(cooling) ELSE Turn(cooling - 1)
        /\ ~done.gap =>
              /\ done.entered > done.after
              /\ IF done.reason \in Replay!LevelExits THEN done.exited > done.entered
                                               ELSE done.exited >= done.entered
              /\ done.reason = "trailing_stop" => done.price <= done.earned - done.trail

ClosesOK == closes \in Seq([at : Int, reason : Replay!Reasons])

ReplayInv == ReplayTyped /\ HeldOK /\ DoneOK /\ ClosesOK /\ Replay!PauseKept

LEMMA TrustedIs == \A p, m : Trusted(p, m) <=> TrustedBy(p, m, side, bar, candle, path)
  BY EarnedIs DEF Trusted, TrustedBy

LEMMA Turns ==
    ASSUME Replay!BacktestAssumption
    PROVE  /\ Ticks \in Nat \ {0}
           /\ \A w \in Int : /\ Turn(w) \in Int /\ Turn(w + 1) = Turn(w) + Ticks
                             /\ Turn(w - 1) = Turn(w) - Ticks
                             /\ \A i \in Int : Replay!Moment(w, i) = Turn(w) + i
                             /\ Replay!CloseOf(w) = Turn(w)
           /\ \A v, w \in Int : v <= w => Turn(v) <= Turn(w)
           /\ \A w \in Nat \ {0} : Turn(w) > 0
<1>1. Ticks \in Nat \ {0}
  BY DEF Replay!BacktestAssumption
<1>2. \A v, w \in Int : v <= w => Turn(v) <= Turn(w)
  <2>1. \A v, d \in Int : (v + d) * Ticks = v * Ticks + d * Ticks
    BY <1>1
  <2>2. \A d \in Nat : d * Ticks \in Nat
    BY <1>1
  <2> SUFFICES ASSUME NEW v \in Int, NEW w \in Int, v <= w PROVE Turn(v) <= Turn(w)
    OBVIOUS
  <2>3. w - v \in Nat /\ v + (w - v) = w
    OBVIOUS
  <2>4. w * Ticks = v * Ticks + (w - v) * Ticks
    BY <2>1, <2>3
  <2>5. (w - v) * Ticks \in Nat /\ v * Ticks \in Int /\ w * Ticks \in Int
    BY <1>1, <2>2, <2>3
  <2> QED BY <2>4, <2>5 DEF Turn
<1>3. \A w \in Nat \ {0} : Turn(w) > 0
  <2> SUFFICES ASSUME NEW w \in Nat \ {0} PROVE Turn(w) > 0
    OBVIOUS
  <2>1. Turn(1) <= Turn(w) /\ Turn(1) = Ticks
    BY <1>1, <1>2 DEF Turn
  <2>2. Turn(w) \in Int
    BY <1>1 DEF Turn
  <2> QED BY <1>1, <2>1, <2>2
<1>4. ASSUME NEW w \in Int
      PROVE  /\ Turn(w) \in Int /\ Turn(w + 1) = Turn(w) + Ticks
             /\ Turn(w - 1) = Turn(w) - Ticks
             /\ \A i \in Int : Replay!Moment(w, i) = Turn(w) + i
             /\ Replay!CloseOf(w) = Turn(w)
  BY <1>1 DEF Turn, Replay!Moment, Replay!CloseOf
<1> QED BY <1>1, <1>2, <1>3, <1>4

LEMMA Closing ==
    ASSUME Replay!BacktestAssumption, ReplayInv,
           NEW p \in Held, NEW reason \in Replay!Reasons, NEW price \in Int, NEW m \in Int,
           Replay!CloseTrade(p, reason, price, m), UNCHANGED <<mode, bar>>,
           m <= IF mode = "ticks" THEN Turn(bar + 1) ELSE Turn(bar),
           p.since \in 1..bar,
           p.at > 0,
           ~p.gap => /\ done # NoTrade => p.at > done.exited
                     /\ IF reason \in Replay!LevelExits THEN m > p.at ELSE m >= p.at
                     /\ reason = "trailing_stop" => price <= Replay!Earned(p, m) - p.trail
    PROVE  pos' = NoTrade /\ cooling' \in Int /\ DoneOK' /\ ClosesOK' /\ Replay!PauseKept'
<1>1. bar \in Nat \ {0} /\ FireCooldown \in Nat /\ Cooldown[reason] \in Nat \ {0}
  BY DEF ReplayInv, ReplayTyped, Window, Replay!BacktestAssumption
<1>2. Replay!Wait(p, reason) \in Int /\ Replay!Wait(p, reason) >= bar + 1
  <2> DEFINE a == p.since + FireCooldown
             b == bar + Cooldown[reason]
  <2>1. a \in Int /\ b \in Int /\ b >= bar + 1
    BY <1>1 DEF Held
  <2>2. Replay!Wait(p, reason) = Replay!Best({a, b})
    BY DEF Replay!Wait
  <2> HIDE DEF a, b
  <2>3. IsFiniteSet({a, b})
    <3>1. {a, b} = {a} \cup {b}
      OBVIOUS
    <3>2. IsFiniteSet({a}) /\ IsFiniteSet({b})
      BY FS_Singleton
    <3> QED BY <3>1, <3>2, FS_Union
  <2>4. Replay!Best({a, b}) \in {a, b} /\ Replay!Best({a, b}) >= b
    BY <2>1, <2>3, BestOf
  <2> QED BY <1>1, <2>1, <2>2, <2>4
<1>3. /\ pos' = NoTrade /\ cooling' = Replay!Wait(p, reason)
      /\ done' = [entered |-> p.at, exited |-> m, reason |-> reason, price |-> price,
                  trail |-> p.trail, earned |-> Replay!Earned(p, m), gap |-> p.gap,
                  after |-> IF done = NoTrade THEN 0 ELSE done.exited]
  BY DEF Replay!CloseTrade
<1> DEFINE a == IF done = NoTrade THEN 0 ELSE done.exited
           e == Replay!Earned(p, m)
<1>4. ~p.gap => p.at > a
  OBVIOUS
<1> HIDE DEF a, e
<1>5. /\ done'.entered = p.at /\ done'.exited = m /\ done'.reason = reason
      /\ done'.price = price /\ done'.trail = p.trail /\ done'.earned = e
      /\ done'.gap = p.gap /\ done'.after = a
  BY <1>3 DEF a, e
<1>6. m <= IF mode = "ticks" THEN Turn(cooling') ELSE Turn(cooling' - 1)
  <2>1. /\ Turn(bar + 1) <= Turn(cooling') /\ Turn(bar) <= Turn(cooling' - 1)
        /\ {Turn(bar + 1), Turn(cooling'), Turn(bar), Turn(cooling' - 1)} \subseteq Int
    <3>1. bar \in Int /\ bar + 1 \in Int /\ cooling' \in Int /\ cooling' - 1 \in Int
          /\ bar + 1 <= cooling' /\ bar <= cooling' - 1
      BY <1>1, <1>2, <1>3
    <3> QED BY <3>1, Turns
  <2> QED BY <2>1
<1>7. ~p.gap => /\ p.at > a
                /\ IF reason \in Replay!LevelExits THEN m > p.at ELSE m >= p.at
                /\ reason = "trailing_stop" => price <= e - p.trail
  BY <1>4 DEF e
<1>8. DoneOK'
  BY <1>5, <1>6, <1>7 DEF DoneOK
<1>9. ClosesOK'
  <2>1. closes' = Append(closes, [at |-> bar, reason |-> reason])
    BY DEF Replay!CloseTrade
  <2>2. [at |-> bar, reason |-> reason] \in [at : Int, reason : Replay!Reasons]
    BY <1>1
  <2> QED BY <2>1, <2>2 DEF ReplayInv, ClosesOK
<1>10. Replay!PauseKept'
  BY <1>3 DEF Replay!PauseKept
<1> QED BY <1>2, <1>3, <1>8, <1>9, <1>10

-----------------------------------------------------------------------------
(* One row after the other.                                                *)

LEMMA Least ==
    ASSUME NEW S \in SUBSET Nat, S # {}
    PROVE  \E n \in S : \A m \in S : n <= m
<1> DEFINE Less == OpToRel(<, Nat)
<1>1. \A m, n \in Nat : m < n => <<m, n>> \in Less
  BY DEF OpToRel
<1>2. IsWellFoundedOn(Less, Nat)
  BY NatLessThanWellFounded
<1> HIDE DEF Less
<1>3. PICK n \in S : \A m \in S : ~(<<m, n>> \in Less)
  BY <1>2, WFMin
<1>4. \A m \in S : ~(m < n)
  BY <1>1, <1>3
<1> QED BY <1>4

\* The worst and the best price of the bar were traded in it.
LEMMA Extremes ==
    ASSUME Replay!BacktestAssumption, Window
    PROVE  /\ \E i \in 1..Ticks : Replay!Worst(Replay!Seen(candle)) = Replay!Fav(candle[i])
           /\ \E i \in 1..Ticks : Replay!Best(Replay!Seen(candle)) = Replay!Fav(candle[i])
           /\ Replay!Worst(Replay!Seen(candle)) \in Int
                 /\ Replay!Best(Replay!Seen(candle)) \in Int
<1> DEFINE S == {Replay!Fav(candle[i]) : i \in 1..Ticks}
<1>1. Ticks \in Nat \ {0} /\ \A i \in 1..Ticks : Replay!Fav(candle[i]) \in Int
  <2>1. \A i \in 1..Ticks : candle[i] \in Int
    BY PricesInt DEF Window
  <2> QED BY <2>1 DEF Replay!BacktestAssumption, Replay!Fav, Window
<1>2. Replay!Seen(candle) = S
  BY DEF Replay!Seen, Window, Replay!Paths
<1>3. IsFiniteSet(S)
  <2>1. [i \in 1..Ticks |-> Replay!Fav(candle[i])] \in Surjection(1..Ticks, S)
    BY DEF Surjection
  <2>2. IsFiniteSet(1..Ticks)
    BY <1>1, FS_Interval
  <2> QED BY <2>1, <2>2, FS_Surjection
<1>4. S # {} /\ \A x \in S : x \in Int
  <2>1. 1 \in 1..Ticks
    BY <1>1
  <2> QED BY <1>1, <2>1
<1>5. Replay!Worst(S) \in S /\ Replay!Best(S) \in S
  <2> HIDE DEF S
  <2> QED BY <1>3, <1>4, BestOf, WorstOf
<1> QED BY <1>2, <1>4, <1>5

LEMMA BarHit ==
    ASSUME Replay!BacktestAssumption, Window, NEW p \in Held,
           NEW hit,
              hit = Replay!RuleHit(p, Replay!Worst(Replay!Seen(candle)),
                 Replay!Best(Replay!Seen(candle))), hit # "none"
    PROVE  hit \in Replay!LevelExits /\ Replay!BarIndex(p, hit) \in 1..Ticks
<1>1. hit \in Replay!LevelExits
  BY DEF Replay!RuleHit, Replay!LevelExits
<1> DEFINE I == {i \in 1..Ticks : Replay!Fires(p, hit, Replay!Fav(candle[i]))}
<1>2. I # {}
  <2>1. Replay!Fires(p, hit, Replay!Worst(Replay!Seen(candle)))
           \/ Replay!Fires(p, hit, Replay!Best(Replay!Seen(candle)))
    BY DEF Replay!RuleHit, Replay!Fires
  <2> QED BY <2>1, Extremes
<1>3. PICK n \in I : \A m \in I : n <= m
  <2>1. I \in SUBSET Nat
    BY DEF Replay!BacktestAssumption
  <2> HIDE DEF I
  <2> QED BY <1>2, <2>1, Least
<1>4. n \in 1..Ticks /\ Replay!Fires(p, hit, Replay!Fav(candle[n]))
      /\ \A j \in 1..n - 1 : ~Replay!Fires(p, hit, Replay!Fav(candle[j]))
  <2>1. n \in 1..Ticks /\ Replay!Fires(p, hit, Replay!Fav(candle[n])) /\ Ticks \in Int
    BY DEF Replay!BacktestAssumption
  <2>2. ASSUME NEW j \in 1..n - 1, Replay!Fires(p, hit, Replay!Fav(candle[j])) PROVE FALSE
    <3>1. j \in 1..Ticks /\ j < n
      BY <2>1
    <3> QED BY <1>3, <2>2, <3>1
  <2> QED BY <2>1, <2>2
<1>5. Replay!BarIndex(p, hit) \in 1..Ticks
  BY <1>4 DEF Replay!BarIndex
<1> QED BY <1>1, <1>5

LEMMA FillInt ==
    ASSUME Replay!BacktestAssumption, Window, NEW p \in Held, NEW hit \in Replay!LevelExits
    PROVE  Replay!Fill(p, hit) \in Int
              /\ (hit = "trailing_stop" => Replay!Fill(p, hit) = p.mark - p.trail)
<1>1. /\ p.entry \in Int /\ p.mark \in Int /\ p.trail \in Int
      /\ Stop \in Int /\ Slip \in Int /\ Target \in Int /\ Replay!Fav(p.entry) \in Int
  BY DEF Held, Replay!BacktestAssumption, Replay!Fav, Window
<1> QED BY <1>1 DEF Replay!Fill, Replay!LevelExits

Rests == UNCHANGED <<mode, low, side, symbol, bar, candle, path, gap>>

LEMMA TypedStays ==
    ASSUME ReplayTyped, Rests, cooling' \in Int,
           phase' \in {"manage", "review", "signal", "next"}
    PROVE  ReplayTyped'
  BY DEF ReplayTyped, Rests, Window

LEMMA TurnBefore ==
    ASSUME Replay!BacktestAssumption, NEW r \in Nat \ {0}
    PROVE  Turn(r) \in Int /\ Turn(r - 1) \in Int /\ Turn(r - 1) <= Turn(r)
<1>1. r \in Int /\ r - 1 \in Int /\ r - 1 <= r
  OBVIOUS
<1> QED BY <1>1, Turns

\* A pause is kept while nothing is opened and no close is added.
LEMMA PauseStays ==
    ASSUME Replay!PauseKept, UNCHANGED closes, pos' # NoTrade =>
              pos # NoTrade /\ pos'.since = pos.since
    PROVE  Replay!PauseKept'
<1>1. \A k : Replay!RunOfLosses(k)' = Replay!RunOfLosses(k)
  BY DEF Replay!RunOfLosses, Replay!Precedes
<1>2. ASSUME pos' # NoTrade, NEW k \in DOMAIN closes',
             closes'[k].at < pos'.since, pos'.since < closes'[k].at + Lock,
             Replay!RunOfLosses(k)' > 0, Replay!RunOfLosses(k)' % Limit = 0
      PROVE  FALSE
  BY <1>1, <1>2 DEF Replay!PauseKept
<1> QED BY <1>2 DEF Replay!PauseKept

\* A position that has faced a row goes on to its review.
LEMMA Reviewed ==
    ASSUME Replay!BacktestAssumption, ReplayInv, Rests, phase = "manage", phase' = "review",
           pos # NoTrade, UNCHANGED <<cooling, done, closes>>, Kept(pos', pos),
           Trusted(pos', IF mode = "ticks" THEN Turn(bar + 1) ELSE Turn(bar))
    PROVE  ReplayInv'
<1>1. ReplayTyped'
  BY TypedStays DEF ReplayInv, ReplayTyped
<1>2. DoneOK'
  BY DEF ReplayInv, DoneOK, Rests
<1>3. bar \in Nat \ {0}
  BY DEF ReplayInv, ReplayTyped, Window
<1>4. FacedTo' = IF mode = "ticks" THEN Turn(bar + 1) ELSE Turn(bar)
  BY DEF FacedTo, Rests
<1>5. TrustedBy(pos', FacedTo', side', bar', candle', path')
  BY <1>4, TrustedIs DEF Rests
<1>6. pos.at <= OpenedBy'
  <2>1. OpenedBy' = Turn(bar)
           /\ OpenedBy = (IF mode = "ticks" THEN Turn(bar) ELSE Turn(bar - 1))
    BY DEF OpenedBy, FacedTo, Rests
  <2>2. Turn(bar) \in Int /\ Turn(bar - 1) \in Int /\ Turn(bar - 1) <= Turn(bar)
    BY <1>3, TurnBefore
  <2>3. pos.at \in Int /\ pos.at <= OpenedBy
    BY DEF ReplayInv, HeldOK, Held
  <2> QED BY <2>1, <2>2, <2>3
<1>7. HeldOK'
  BY <1>5, <1>6 DEF ReplayInv, HeldOK, Rests, Kept
<1>8. ClosesOK' /\ Replay!PauseKept'
  BY PauseStays DEF ReplayInv, ClosesOK, Kept
<1> QED BY <1>1, <1>2, <1>7, <1>8 DEF ReplayInv

\* A position that is open when its row is managed.
LEMMA Managed ==
    ASSUME Replay!BacktestAssumption, ReplayInv, phase = "manage", pos # NoTrade
    PROVE  /\ pos \in Held /\ Window /\ bar \in Nat \ {0}
           /\ pos.at \in Int /\ pos.at > 0 /\ pos.at <= Turn(bar) /\ pos.since \in 1..bar
           /\ mode = "ticks" => Trusted(pos, Turn(bar))
           /\ mode # "ticks" => pos.at <= Turn(bar - 1) /\ Trusted(pos, Turn(bar - 1))
           /\ gap => pos.gap
           /\ ~pos.gap /\ done # NoTrade => pos.at > done.exited
<1>1. Window /\ bar \in Nat \ {0}
  BY DEF ReplayInv, ReplayTyped, Window
<1>2. /\ OpenedBy = IF mode = "ticks" THEN Turn(bar) ELSE Turn(bar - 1)
      /\ FacedTo = IF mode = "ticks" THEN Turn(bar) ELSE Turn(bar - 1)
  BY DEF OpenedBy, FacedTo
<1>3. Turn(bar) \in Int /\ Turn(bar - 1) \in Int /\ Turn(bar - 1) <= Turn(bar)
  BY <1>1, TurnBefore
<1>4. /\ pos \in Held /\ pos.since \in 1..bar /\ pos.at > 0 /\ pos.at <= OpenedBy
      /\ gap => pos.gap
      /\ TrustedBy(pos, FacedTo, side, bar, candle, path)
      /\ ~pos.gap /\ done # NoTrade => pos.at > done.exited
  BY DEF ReplayInv, HeldOK
<1>5. pos.at \in Int
  BY <1>4 DEF Held
<1>6. Trusted(pos, FacedTo)
  BY <1>4, TrustedIs
<1> QED BY <1>1, <1>2, <1>3, <1>4, <1>5, <1>6

LEMMA ManageTicksOK ==
    ASSUME Replay!BacktestAssumption, ReplayInv, Replay!ManageTicks PROVE ReplayInv'
<1> DEFINE w == Replay!Walk(pos, path, 1, TRUE)
<1>1. /\ phase = "manage" /\ pos # NoTrade /\ mode = "ticks" /\ ~gap /\ Rests
  BY DEF Replay!ManageTicks, Replay!Fixed, Rests
<1>2. /\ pos \in Held /\ Window /\ bar \in Nat \ {0}
      /\ pos.at \in Int /\ pos.at > 0 /\ pos.at <= Turn(bar) /\ pos.since \in 1..bar
      /\ Trusted(pos, Turn(bar))
      /\ ~pos.gap /\ done # NoTrade => pos.at > done.exited
  BY <1>1, Managed
<1>3. /\ Ticks \in Nat \ {0} /\ Turn(bar) \in Int /\ Turn(bar + 1) = Turn(bar) + Ticks
      /\ \A i \in Int : Replay!Moment(bar, i) = Turn(bar) + i
      /\ Replay!CloseOf(bar) = Turn(bar)
  BY <1>2, Turns
<1>4. /\ w \in Faces /\ Kept(w.pos, pos)
      /\ w.hit = "none" => Trusted(w.pos, Turn(bar + 1))
      /\ w.hit # "none" => w.idx \in 1..Ticks /\ Trusted(w.pos, Replay!Moment(bar, w.idx))
  <2>1. 1 \in 1..(Ticks + 1) /\ Replay!Moment(bar, 1 - 1) = Turn(bar)
        /\ Replay!Moment(bar, Ticks) = Turn(bar + 1)
    BY <1>3
  <2> HIDE DEF w
  <2>2. w = Replay!Walk(pos, path, 1, TRUE)
    BY DEF w
  <2> QED BY <1>2, <2>1, <2>2, Walked
<1>5. /\ w.pos \in Held /\ w.pos.since \in 1..bar /\ w.pos.at = pos.at /\ w.pos.gap = pos.gap
  BY <1>2, <1>4 DEF Kept
<1>6. \/ /\ w.hit # "none"
         /\ Replay!CloseTrade(w.pos, w.hit, Replay!Fill(w.pos, w.hit),
               Replay!Moment(bar, w.idx))
         /\ phase' = "signal"
      \/ /\ w.hit = "none"
         /\ Replay!CloseTrade(w.pos, "stale_position", Replay!Fav(candle[Ticks]),
               Replay!CloseOf(bar))
         /\ phase' = "signal"
      \/ /\ w.hit = "none" /\ pos' = w.pos /\ phase' = "review"
         /\ UNCHANGED <<cooling, done, closes>>
  BY DEF Replay!ManageTicks
<1> HIDE DEF w
<1>7. CASE /\ w.hit # "none"
           /\ Replay!CloseTrade(w.pos, w.hit, Replay!Fill(w.pos, w.hit),
                 Replay!Moment(bar, w.idx))
           /\ phase' = "signal"
  <2> DEFINE m == Replay!Moment(bar, w.idx)
             price == Replay!Fill(w.pos, w.hit)
  <2>1. m \in Int /\ m > pos.at /\ m <= Turn(bar + 1) /\ w.hit \in Replay!LevelExits
    BY <1>2, <1>3, <1>4, <1>7 DEF Faces
  <2>2. price \in Int /\ (w.hit = "trailing_stop" => price = w.pos.mark - w.pos.trail)
    BY <1>2, <1>5, <2>1, FillInt
  <2>3. ~pos.gap => w.pos.mark <= Replay!Earned(w.pos, m)
    BY <1>4, <1>5, <1>7 DEF Trusted
  <2>4. Replay!Earned(w.pos, m) \in Int /\ w.pos.mark \in Int /\ w.pos.trail \in Int
    BY <1>2, <1>5, EarnedInt DEF Held
  <2>5. Replay!CloseTrade(w.pos, w.hit, price, m) /\ UNCHANGED <<mode, bar>>
           /\ w.hit \in Replay!Reasons
    BY <1>1, <1>7, <2>1 DEF Rests, Replay!LevelExits, Replay!Reasons
  <2> HIDE DEF m, price
  <2>6. pos' = NoTrade /\ cooling' \in Int /\ DoneOK' /\ ClosesOK' /\ Replay!PauseKept'
    BY <1>1, <1>2, <1>5, <2>1, <2>2, <2>3, <2>4, <2>5, Closing
  <2>7. ReplayTyped' /\ HeldOK'
    BY <1>1, <1>7, <2>6, TypedStays DEF ReplayInv, HeldOK
  <2> QED BY <2>6, <2>7 DEF ReplayInv
<1>8. CASE /\ w.hit = "none"
           /\ Replay!CloseTrade(w.pos, "stale_position", Replay!Fav(candle[Ticks]),
                 Replay!CloseOf(bar))
           /\ phase' = "signal"
  <2> DEFINE m == Replay!CloseOf(bar)
             price == Replay!Fav(candle[Ticks])
  <2>1. m \in Int /\ m >= pos.at /\ m <= Turn(bar + 1)
    BY <1>2, <1>3
  <2>2. price \in Int
    BY <1>2, <1>3, PricesInt DEF Window, Replay!Fav
  <2>3. Replay!CloseTrade(w.pos, "stale_position", price, m) /\ UNCHANGED <<mode, bar>>
        /\ "stale_position" \in Replay!Reasons /\ "stale_position" \notin Replay!LevelExits
    BY <1>1, <1>8 DEF Rests, Replay!LevelExits, Replay!Reasons
  <2> HIDE DEF m, price
  <2>4. pos' = NoTrade /\ cooling' \in Int /\ DoneOK' /\ ClosesOK' /\ Replay!PauseKept'
    BY <1>1, <1>2, <1>5, <2>1, <2>2, <2>3, Closing
  <2>5. ReplayTyped' /\ HeldOK'
    BY <1>1, <1>8, <2>4, TypedStays DEF ReplayInv, HeldOK
  <2> QED BY <2>4, <2>5 DEF ReplayInv
<1>9. CASE w.hit = "none" /\ pos' = w.pos /\ phase' = "review"
              /\ UNCHANGED <<cooling, done, closes>>
  BY <1>1, <1>4, <1>9, Reviewed
<1> QED BY <1>6, <1>7, <1>8, <1>9

-----------------------------------------------------------------------------
(* The other steps of a row.                                               *)

LEMMA TrustedGrows ==
    ASSUME Replay!BacktestAssumption, Window, NEW p \in Held, NEW m \in Int, NEW n \in Int,
              m <= n,
           Trusted(p, m)
    PROVE  Trusted(p, n)
<1>1. Replay!Earned(p, m) <= Replay!Earned(p, n) /\ Replay!Earned(p, m) \in Int
         /\ Replay!Earned(p, n) \in Int
  BY EarnedGrows, EarnedInt
<1>2. p.mark \in Int
  BY DEF Held
<1> QED BY <1>1, <1>2 DEF Trusted

\* The bar of the row moves the mark of a position that was open before it.
LEMMA BarMarked ==
    ASSUME Replay!BacktestAssumption, Window, NEW q \in Held, q.at <= Turn(bar - 1),
           Trusted(q, Turn(bar)), NEW x, x = Replay!Best(Replay!Seen(candle))
    PROVE  Kept(Replay!Marked(q, x), q) /\ Trusted(Replay!Marked(q, x), Turn(bar))
<1> DEFINE p == Replay!Marked(q, x)
<1>1. PICK i \in 1..Ticks : x = Replay!Fav(candle[i])
  BY Extremes
<1>2. x \in Int
  BY Extremes
<1>3. /\ Kept(p, q) /\ p.main = q.main /\ p.due = q.due
      /\ p.mark = IF x <= q.mark THEN q.mark ELSE x
  BY <1>2, MarkedIs
<1>4. q.at < Replay!Moment(bar - 1, i) /\ Replay!Moment(bar - 1, i) <= Turn(bar)
  <2>1. bar - 1 \in Int /\ bar \in Nat \ {0} /\ i \in Int /\ q.at \in Int /\ 1 <= i
           /\ i <= Ticks
    BY Replay!BacktestAssumption DEF Window, Held, Replay!BacktestAssumption
  <2>2. Replay!Moment(bar - 1, i) = Turn(bar - 1) + i
    BY <2>1, Turns
  <2>3. Turn(bar - 1) = Turn(bar) - Ticks /\ Turn(bar) \in Int /\ Ticks \in Int
    BY <2>1, Turns
  <2> QED BY <2>1, <2>2, <2>3
<1>5. Replay!Earned(q, Turn(bar)) \in Int /\ Replay!Earned(q, Turn(bar)) >= x
  BY <1>1, <1>4, EarnedHas DEF Replay!Fav, Sided
<1> HIDE DEF p
<1>6. Replay!Earned(p, Turn(bar)) = Replay!Earned(q, Turn(bar))
  BY <1>3, EarnedSame DEF Kept
<1>7. Trusted(p, Turn(bar))
  <2>1. q.mark \in Int
    BY DEF Held
  <2> QED BY <1>2, <1>3, <1>5, <1>6, <2>1 DEF Trusted, Kept
<1> QED BY <1>3, <1>7 DEF p

LEMMA ManageBarOK ==
    ASSUME Replay!BacktestAssumption, ReplayInv, Replay!ManageBar PROVE ReplayInv'
<1> DEFINE hit == Replay!RuleHit(pos, Replay!Worst(Replay!Seen(candle)),
   Replay!Best(Replay!Seen(candle)))
           m == Replay!Moment(bar - 1, Replay!BarIndex(pos, hit))
           kept == IF ~Replay!Runs(pos, hit) THEN pos ELSE Replay!AsRunner(pos, m)
<1>1. phase = "manage" /\ pos # NoTrade /\ (mode = "candle" \/ gap) /\ Rests
  BY DEF Replay!ManageBar, Replay!Fixed, Rests
<1>2. /\ pos \in Held /\ Window /\ bar \in Nat \ {0}
      /\ pos.at \in Int /\ pos.at > 0 /\ pos.at <= Turn(bar) /\ pos.since \in 1..bar
      /\ ~pos.gap => mode = "candle"
      /\ mode # "ticks" => pos.at <= Turn(bar - 1) /\ Trusted(pos, Turn(bar - 1))
      /\ ~pos.gap /\ done # NoTrade => pos.at > done.exited
  BY <1>1, Managed
<1>3. /\ Ticks \in Nat \ {0} /\ Turn(bar) \in Int /\ Turn(bar - 1) = Turn(bar) - Ticks
      /\ Turn(bar + 1) = Turn(bar) + Ticks
      /\ \A i \in Int : Replay!Moment(bar - 1, i) = Turn(bar - 1) + i
      /\ Replay!CloseOf(bar) = Turn(bar)
  <2>1. bar \in Int /\ bar - 1 \in Int
    BY <1>2
  <2> QED BY <2>1, Turns
<1>4. \/ /\ hit # "none" /\ Replay!CloseTrade(pos, hit, Replay!Fill(pos, hit), m)
            /\ phase' = "signal"
      \/ /\ Replay!CloseTrade(pos, "stale_position", Replay!Fav(candle[Ticks]),
            Replay!CloseOf(bar))
         /\ phase' = "signal"
      \/ /\ Replay!Runs(pos, hit) \/ hit = "none"
         /\ pos' = IF mode =
               "candle" THEN Replay!Marked(kept, Replay!Best(Replay!Seen(candle))) ELSE kept
         /\ phase' = "review" /\ UNCHANGED <<cooling, done, closes>>
  BY DEF Replay!ManageBar, Replay!Faced
<1>5. ASSUME hit # "none"
      PROVE  /\ hit \in Replay!LevelExits /\ m \in Int /\ m > Turn(bar - 1) /\ m <= Turn(bar)
             /\ Trusted(pos, m)
  <2>1. hit \in Replay!LevelExits /\ Replay!BarIndex(pos, hit) \in 1..Ticks
    BY <1>2, <1>5, BarHit
  <2>2. Replay!BarIndex(pos, hit) \in Int /\ 1 <= Replay!BarIndex(pos, hit)
           /\ Replay!BarIndex(pos, hit) <= Ticks
    BY <1>3, <2>1
  <2>3. m = Turn(bar - 1) + Replay!BarIndex(pos, hit)
    BY <1>3, <2>2
  <2>4. m \in Int /\ m > Turn(bar - 1) /\ m <= Turn(bar)
    BY <1>3, <2>2, <2>3
  <2> HIDE DEF m
  <2>5. CASE pos.gap
    BY <2>1, <2>4, <2>5 DEF Trusted
  <2>6. CASE ~pos.gap
    <3>1. Turn(bar - 1) \in Int /\ Turn(bar - 1) <= m /\ Trusted(pos, Turn(bar - 1))
      BY <1>2, <1>3, <2>4, <2>6
    <3>2. Trusted(pos, m)
      BY <1>2, <2>4, <3>1, TrustedGrows
    <3> QED BY <2>1, <2>4, <3>2
  <2> QED BY <2>5, <2>6
<1> HIDE DEF hit, m
<1>6. CASE hit # "none" /\ Replay!CloseTrade(pos, hit, Replay!Fill(pos, hit), m)
              /\ phase' = "signal"
  <2> DEFINE price == Replay!Fill(pos, hit)
  <2>1. /\ m \in Int /\ m <= Turn(bar) /\ m <= Turn(bar + 1) /\ hit \in Replay!LevelExits
        /\ ~pos.gap => m > pos.at
    BY <1>2, <1>3, <1>5, <1>6
  <2>2. price \in Int /\ (hit = "trailing_stop" => price = pos.mark - pos.trail)
    BY <1>2, <2>1, FillInt
  <2>3. ~pos.gap => pos.mark <= Replay!Earned(pos, m)
    BY <1>5, <1>6 DEF Trusted
  <2>4. Replay!Earned(pos, m) \in Int /\ pos.mark \in Int /\ pos.trail \in Int
    BY <1>2, EarnedInt DEF Held
  <2>5. Replay!CloseTrade(pos, hit, price, m) /\ UNCHANGED <<mode, bar>>
           /\ hit \in Replay!Reasons
    BY <1>1, <1>6, <2>1 DEF Rests, Replay!LevelExits, Replay!Reasons
  <2> HIDE DEF price
  <2>6. pos' = NoTrade /\ cooling' \in Int /\ DoneOK' /\ ClosesOK' /\ Replay!PauseKept'
    BY <1>2, <2>1, <2>2, <2>3, <2>4, <2>5, Closing
  <2>7. ReplayTyped' /\ HeldOK'
    BY <1>1, <1>6, <2>6, TypedStays DEF ReplayInv, HeldOK
  <2> QED BY <2>6, <2>7 DEF ReplayInv
<1>7. CASE /\ Replay!CloseTrade(pos, "stale_position", Replay!Fav(candle[Ticks]),
                 Replay!CloseOf(bar))
           /\ phase' = "signal"
  <2> DEFINE n == Replay!CloseOf(bar)
             price == Replay!Fav(candle[Ticks])
  <2>1. n \in Int /\ n >= pos.at /\ n <= Turn(bar + 1) /\ n <= Turn(bar)
    BY <1>2, <1>3
  <2>2. price \in Int
    BY <1>2, <1>3, PricesInt DEF Window, Replay!Fav
  <2>3. Replay!CloseTrade(pos, "stale_position", price, n) /\ UNCHANGED <<mode, bar>>
        /\ "stale_position" \in Replay!Reasons /\ "stale_position" \notin Replay!LevelExits
    BY <1>1, <1>7 DEF Rests, Replay!LevelExits, Replay!Reasons
  <2> HIDE DEF n, price
  <2>4. pos' = NoTrade /\ cooling' \in Int /\ DoneOK' /\ ClosesOK' /\ Replay!PauseKept'
    BY <1>2, <2>1, <2>2, <2>3, Closing
  <2>5. ReplayTyped' /\ HeldOK'
    BY <1>1, <1>7, <2>4, TypedStays DEF ReplayInv, HeldOK
  <2> QED BY <2>4, <2>5 DEF ReplayInv
<1>8. CASE /\ Replay!Runs(pos, hit) \/ hit = "none"
           /\ pos' = IF mode =
                 "candle" THEN Replay!Marked(kept, Replay!Best(Replay!Seen(candle))) ELSE kept
           /\ phase' = "review" /\ UNCHANGED <<cooling, done, closes>>
  <2>1. Kept(kept, pos) /\ Trusted(kept, Turn(bar))
    <3>1. CASE Replay!Runs(pos, hit)
      <4>1. m \in Int /\ m <= Turn(bar) /\ Trusted(pos, m)
        BY <1>5, <3>1 DEF Replay!Runs
      <4>2. kept = Replay!AsRunner(pos, m)
        BY <3>1
      <4>3. Kept(kept, pos) /\ Trusted(kept, m)
        BY <1>2, <4>1, <4>2, RunnerIs
      <4>4. kept \in Held
        BY <4>3 DEF Kept
      <4> HIDE DEF kept
      <4>5. Trusted(kept, Turn(bar))
        BY <1>2, <1>3, <4>1, <4>3, <4>4, TrustedGrows
      <4> QED BY <4>3, <4>5
    <3>2. CASE ~Replay!Runs(pos, hit)
      <4>1. kept = pos /\ Kept(pos, pos)
        BY <1>2, <3>2 DEF Kept
      <4>2. Trusted(pos, Turn(bar))
        <5>1. CASE pos.gap
          BY <5>1 DEF Trusted
        <5>2. CASE ~pos.gap
          <6>1. Turn(bar - 1) \in Int /\ Turn(bar - 1) <= Turn(bar)
                   /\ Trusted(pos, Turn(bar - 1))
            BY <1>2, <1>3, <5>2
          <6> QED BY <1>2, <1>3, <6>1, TrustedGrows
        <5> QED BY <5>1, <5>2
      <4> QED BY <4>1, <4>2
    <3> QED BY <3>1, <3>2
  <2> HIDE DEF kept
  <2>2. Kept(pos', pos) /\ Trusted(pos', Turn(bar))
    <3>1. CASE mode = "candle"
      <4>1. kept.at <= Turn(bar - 1) /\ kept \in Held
        BY <1>2, <2>1, <3>1 DEF Kept
      <4>2. pos' = Replay!Marked(kept, Replay!Best(Replay!Seen(candle)))
        BY <1>8, <3>1
      <4>3. Kept(pos', kept) /\ Trusted(pos', Turn(bar))
        BY <1>2, <2>1, <4>1, <4>2, BarMarked
      <4> QED BY <2>1, <4>3 DEF Kept
    <3>2. CASE mode # "candle"
      BY <1>8, <2>1, <3>2
    <3> QED BY <3>1, <3>2
  <2>3. Trusted(pos', IF mode = "ticks" THEN Turn(bar + 1) ELSE Turn(bar))
    <3>1. CASE mode = "ticks"
      <4>1. pos'.gap
        BY <1>2, <2>2, <3>1 DEF Kept
      <4> QED BY <3>1, <4>1 DEF Trusted
    <3>2. CASE mode # "ticks"
      BY <2>2, <3>2
    <3> QED BY <3>1, <3>2
  <2> QED BY <1>1, <1>8, <2>2, <2>3, Reviewed
<1> QED BY <1>4, <1>6, <1>7, <1>8

-----------------------------------------------------------------------------
(* Between the rows.                                                       *)

LEMMA NothingToManageOK ==
    ASSUME Replay!BacktestAssumption, ReplayInv, Replay!NothingToManage PROVE ReplayInv'
<1>1. /\ phase = "manage" /\ pos = NoTrade /\ phase' = "signal" /\ Rests
      /\ UNCHANGED <<pos, cooling, done, closes>>
  BY DEF Replay!NothingToManage, Replay!Fixed, Rests
<1>2. ReplayTyped' /\ HeldOK' /\ DoneOK' /\ ClosesOK'
  BY <1>1, TypedStays DEF ReplayInv, ReplayTyped, HeldOK, DoneOK, ClosesOK, Rests
<1>3. Replay!PauseKept'
  BY <1>1, PauseStays DEF ReplayInv
<1> QED BY <1>2, <1>3 DEF ReplayInv

LEMMA NoSignalOK ==
    ASSUME Replay!BacktestAssumption, ReplayInv, Replay!NoSignal PROVE ReplayInv'
<1>1. /\ phase = "signal" /\ phase' = "next" /\ Rests
      /\ UNCHANGED <<pos, cooling, done, closes>>
  BY DEF Replay!NoSignal, Replay!Fixed, Rests
<1>2. pos = NoTrade
  BY <1>1 DEF ReplayInv, HeldOK
<1>3. ReplayTyped' /\ HeldOK' /\ DoneOK' /\ ClosesOK'
  BY <1>1, <1>2, TypedStays DEF ReplayInv, ReplayTyped, HeldOK, DoneOK, ClosesOK, Rests
<1>4. Replay!PauseKept'
  BY <1>1, <1>2, PauseStays DEF ReplayInv
<1> QED BY <1>3, <1>4 DEF ReplayInv

LEMMA ReviewOK ==
    ASSUME Replay!BacktestAssumption, ReplayInv, Replay!Review PROVE ReplayInv'
<1>1. phase = "review" /\ phase' = "next" /\ Rests
  BY DEF Replay!Review, Replay!Fixed, Rests
<1>2. /\ pos \in Held /\ Window /\ bar \in Nat \ {0} /\ pos.since \in 1..bar
      /\ pos.at \in Int /\ pos.at > 0 /\ pos.at <= Turn(bar)
      /\ gap => pos.gap
      /\ TrustedBy(pos, FacedTo, side, bar, candle, path)
      /\ ~pos.gap /\ done # NoTrade => pos.at > done.exited
  <2>1. pos \in Held /\ Window /\ bar \in Nat \ {0} /\ OpenedBy = Turn(bar)
    BY <1>1 DEF ReplayInv, ReplayTyped, HeldOK, Window, OpenedBy
  <2> QED BY <1>1, <2>1 DEF ReplayInv, HeldOK, Held
<1>3. /\ Turn(bar) \in Int /\ Turn(bar + 1) \in Int /\ Turn(bar) <= Turn(bar + 1)
      /\ Replay!CloseOf(bar) = Turn(bar) /\ Ticks \in 1..Ticks
  <2>1. Ticks \in Nat \ {0} /\ Turn(bar) \in Int /\ Turn(bar + 1) = Turn(bar) + Ticks
        /\ Replay!CloseOf(bar) = Turn(bar)
    BY <1>2, Turns
  <2> QED BY <2>1
<1>4. CASE Replay!CloseTrade(pos, "trend_invalidation", Replay!Fav(candle[Ticks]),
              Replay!CloseOf(bar))
  <2> DEFINE n == Replay!CloseOf(bar)
             price == Replay!Fav(candle[Ticks])
  <2>1. n \in Int /\ n >= pos.at /\ n <= Turn(bar + 1) /\ n <= Turn(bar)
    BY <1>2, <1>3
  <2>2. price \in Int
    BY <1>2, <1>3, PricesInt DEF Window, Replay!Fav
  <2>3. Replay!CloseTrade(pos, "trend_invalidation", price, n) /\ UNCHANGED <<mode, bar>>
        /\ "trend_invalidation" \in Replay!Reasons
              /\ "trend_invalidation" \notin Replay!LevelExits
    BY <1>1, <1>4 DEF Rests, Replay!LevelExits, Replay!Reasons
  <2> HIDE DEF n, price
  <2>4. pos' = NoTrade /\ cooling' \in Int /\ DoneOK' /\ ClosesOK' /\ Replay!PauseKept'
    BY <1>2, <2>1, <2>2, <2>3, Closing
  <2>5. ReplayTyped' /\ HeldOK'
    BY <1>1, <2>4, TypedStays DEF ReplayInv, HeldOK
  <2> QED BY <2>4, <2>5 DEF ReplayInv
<1>5. CASE UNCHANGED <<pos, slots, closes, cooling, done>>
  <2>1. ReplayTyped' /\ DoneOK' /\ ClosesOK'
    BY <1>1, <1>5, TypedStays DEF ReplayInv, ReplayTyped, DoneOK, ClosesOK, Rests
  <2>2. FacedTo' = FacedTo /\ OpenedBy' = FacedTo
    BY <1>1 DEF FacedTo, OpenedBy, Rests
  <2>3. pos.at <= OpenedBy'
    <3>1. FacedTo = IF mode = "ticks" THEN Turn(bar + 1) ELSE Turn(bar)
      BY <1>1 DEF FacedTo
    <3> QED BY <1>2, <1>3, <2>2, <3>1
  <2>4. pos' = pos /\ bar' = bar /\ gap' = gap /\ done' = done /\ side' = side
        /\ candle' = candle /\ path' = path
    BY <1>1, <1>5 DEF Rests
  <2>5. TrustedBy(pos', FacedTo', side', bar', candle', path')
    BY <1>2, <2>2, <2>4
  <2>6. HeldOK'
    BY <1>1, <1>2, <2>3, <2>4, <2>5 DEF HeldOK
  <2>7. Replay!PauseKept'
    BY <1>5, PauseStays DEF ReplayInv
  <2> QED BY <2>1, <2>6, <2>7 DEF ReplayInv
<1> QED BY <1>4, <1>5 DEF Replay!Review

\* What a position had earned in the windows before is its best price in the next.
LEMMA EarnedLater ==
    ASSUME Replay!BacktestAssumption, Window, NEW p \in Held, NEW m \in Int, NEW n \in Int,
           NEW w \in Replay!Paths, NEW best, best = Replay!Earned(p, n),
           \A i \in 1..Ticks : Replay!Moment(bar - 1, i) <= n
    PROVE  Replay!Earned(p, m) <= EarnedBy(side, best, p.at, m, bar + 1, path, w)
<1> DEFINE E == Replay!Earned(p, m)
           F == EarnedBy(side, best, p.at, m, bar + 1, path, w)
<1>1. /\ E \in Int
      /\ \/ E = p.best
         \/ \E i \in 1..Ticks : /\ p.at < Replay!Moment(bar - 1, i)
                                /\ Replay!Moment(bar - 1, i) <= m
                                /\ E = Sided(side, candle[i])
         \/ \E i \in 1..Ticks : /\ p.at < Replay!Moment(bar, i) /\ Replay!Moment(bar, i) <= m
                                /\ E = Sided(side, path[i])
  BY EarnedHas, Zenon
<1>2. /\ best \in Int /\ best >= p.best
      /\ \A i \in 1..Ticks : p.at < Replay!Moment(bar - 1, i)
            /\ Replay!Moment(bar - 1, i) <= n =>
                                best >= Sided(side, candle[i])
  BY EarnedHas, Zenon
<1>3. /\ F \in Int /\ F >= best
      /\ \A i \in 1..Ticks : p.at < Replay!Moment(bar, i) /\ Replay!Moment(bar, i) <= m =>
                                F >= Sided(side, path[i])
  <2>1. side \in {1, -1} /\ path \in Replay!Paths /\ (bar + 1) - 1 = bar
    BY DEF Window
  <2> HIDE DEF F
  <2>2. F = EarnedBy(side, best, p.at, m, bar + 1, path, w)
    BY DEF F
  <2>3. Counts(F, side, best, p.at, m, bar + 1, path, w)
    BY <1>2, <2>1, <2>2, EarnedFacts
  <2>4. F \in Int /\ F >= best
    BY <2>3 DEF Counts
  <2>5. \A i \in 1..Ticks : p.at < Replay!Moment((bar + 1) - 1, i)
           /\ Replay!Moment((bar + 1) - 1, i) <= m =>
                                F >= Sided(side, path[i])
    BY <2>3 DEF Counts
  <2> QED BY <2>1, <2>4, <2>5
<1> HIDE DEF E, F
<1>4. p.best \in Int /\ \A i \in 1..Ticks : Sided(side, candle[i]) \in Int
                                           /\ Sided(side, path[i]) \in Int
  BY PricesInt DEF Held, Window, Sided
<1>5. CASE E = p.best
  BY <1>2, <1>3, <1>4, <1>5 DEF E, F
<1>6. CASE \E i \in 1..Ticks : /\ p.at < Replay!Moment(bar - 1, i)
                               /\ Replay!Moment(bar - 1, i) <= m
                               /\ E = Sided(side, candle[i])
  <2>1. PICK i \in 1..Ticks : p.at < Replay!Moment(bar - 1, i) /\ E = Sided(side, candle[i])
    BY <1>6
  <2>2. best >= E
    BY <1>2, <2>1
  <2> QED BY <1>1, <1>2, <1>3, <2>2 DEF E, F
<1>7. CASE \E i \in 1..Ticks : /\ p.at < Replay!Moment(bar, i) /\ Replay!Moment(bar, i) <= m
                               /\ E = Sided(side, path[i])
  <2>1. F >= E
    BY <1>3, <1>7
  <2> QED BY <1>1, <1>3, <2>1 DEF E, F
<1> QED BY <1>1, <1>5, <1>6, <1>7

LEMMA NoGaps ==
    ASSUME NEW g \in Replay!Gaps, mode \in {"ticks", "candle"}
    PROVE  g \in BOOLEAN /\ (mode = "candle" => ~g)
<1>1. CASE mode = "ticks"
  BY <1>1 DEF Replay!Gaps
<1>2. CASE mode = "candle"
  BY <1>2 DEF Replay!Gaps
<1> QED BY <1>1, <1>2

LEMMA NextRowOK ==
    ASSUME Replay!BacktestAssumption, ReplayInv, Replay!NextRow PROVE ReplayInv'
<1>1. /\ phase = "next" /\ phase' = "manage" /\ bar' = bar + 1 /\ candle' = path
      /\ path' \in Replay!Paths /\ gap' \in Replay!Gaps
      /\ UNCHANGED <<mode, side, cooling, done, closes>>
  BY DEF Replay!NextRow, Replay!Fixed
<1>2. bar \in Nat \ {0} /\ Window /\ mode \in {"ticks", "candle"}
  BY DEF ReplayInv, ReplayTyped, Window
<1>3. ReplayTyped'
  <2>1. gap' \in BOOLEAN /\ (mode = "candle" => ~gap')
    BY <1>1, <1>2, NoGaps
  <2>2. bar' \in Nat \ {0}
    BY <1>1, <1>2
  <2> QED BY <1>1, <1>2, <2>1, <2>2 DEF ReplayInv, ReplayTyped, Window
<1>4. DoneOK' /\ ClosesOK'
  BY <1>1 DEF ReplayInv, DoneOK, ClosesOK
<1>5. CASE pos = NoTrade
  <2>1. pos' = NoTrade
    BY <1>5 DEF Replay!NextRow
  <2>2. HeldOK' /\ Replay!PauseKept'
    BY <1>1, <2>1 DEF HeldOK, Replay!PauseKept
  <2> QED BY <1>3, <1>4, <2>2 DEF ReplayInv
<1>6. CASE pos # NoTrade
  <2> DEFINE best == Replay!Earned(pos, Replay!CloseOf(bar))
  <2>1. /\ pos \in Held /\ pos.since \in 1..bar /\ pos.at > 0 /\ pos.at <= FacedTo
        /\ TrustedBy(pos, FacedTo, side, bar, candle, path)
        /\ ~pos.gap /\ done # NoTrade => pos.at > done.exited
    BY <1>1, <1>6 DEF ReplayInv, HeldOK, OpenedBy
  <2>2. best \in Int /\ gap' \in BOOLEAN
    BY <1>1, <1>2, <2>1, EarnedInt DEF Replay!Gaps
  <2>3. pos' = [pos EXCEPT !.best = best, !.gap = @ \/ gap']
    BY <1>6 DEF Replay!NextRow
  <2>4. /\ pos' \in Held /\ pos'.best = best /\ pos'.at = pos.at /\ pos'.since = pos.since
        /\ pos'.mark = pos.mark /\ pos'.main = pos.main /\ pos'.due = pos.due
        /\ pos'.gap = (pos.gap \/ gap')
    <3> HIDE DEF best
    <3> QED BY <2>1, <2>2, <2>3 DEF Held
  <2>5. FacedTo' = FacedTo /\ OpenedBy' = FacedTo /\ FacedTo \in Int
    <3>1. bar + 1 \in Int /\ bar \in Int /\ (bar + 1) - 1 = bar
      BY <1>2
    <3>2. FacedTo' = FacedTo /\ OpenedBy' = FacedTo
      BY <1>1, <3>1 DEF FacedTo, OpenedBy
    <3>3. Turn(bar) \in Int /\ Turn(bar + 1) \in Int
      BY <3>1, Turns
    <3>4. FacedTo = Turn(bar) \/ FacedTo = Turn(bar + 1)
      BY <1>1, <1>2 DEF FacedTo
    <3> QED BY <3>2, <3>3, <3>4
  <2>6. TrustedBy(pos', FacedTo', side', bar', candle', path')
    <3> DEFINE E == Replay!Earned(pos, FacedTo)
               F == EarnedBy(side, best, pos.at, FacedTo, bar + 1, path, path')
    <3>1. E <= F
      <4>1. \A i \in 1..Ticks : Replay!Moment(bar - 1, i) <= Replay!CloseOf(bar)
        <5>1. bar - 1 \in Int /\ bar \in Int
          BY <1>2
        <5>2. /\ \A i \in Int : Replay!Moment(bar - 1, i) = Turn(bar - 1) + i
              /\ Turn(bar - 1) = Turn(bar) - Ticks /\ Turn(bar) \in Int /\ Ticks \in Nat
              /\ Replay!CloseOf(bar) = Turn(bar)
          BY <5>1, Turns
        <5>3. \A i \in 1..Ticks : i \in Int /\ i <= Ticks
          BY <5>2
        <5> QED BY <5>2, <5>3
      <4>2. Replay!CloseOf(bar) \in Int
        BY <1>2, Turns
      <4> HIDE DEF best
      <4>3. best = Replay!Earned(pos, Replay!CloseOf(bar)) /\ path' \in Replay!Paths
        BY <1>1 DEF best
      <4> QED BY <1>2, <2>1, <2>5, <4>1, <4>2, <4>3, EarnedLater
    <3>2. ~pos.gap => pos.mark <= E /\ pos.main <= pos.due
      BY <2>1, EarnedIs DEF TrustedBy
    <3>3. E \in Int /\ F \in Int /\ pos.mark \in Int
      <4> HIDE DEF best
      <4>1. E \in Int /\ pos.mark \in Int /\ side \in {1, -1} /\ path \in Replay!Paths
        BY <1>2, <2>1, EarnedInt DEF Held, Window
      <4>2. Counts(F, side, best, pos.at, FacedTo, bar + 1, path, path')
        BY <1>1, <2>2, <4>1, EarnedFacts
      <4> QED BY <4>1, <4>2 DEF Counts
    <3>4. EarnedBy(side', pos'.best, pos'.at, FacedTo', bar', candle', path') = F
      BY <1>1, <2>4, <2>5
    <3> HIDE DEF E, F
    <3>5. ASSUME ~pos'.gap PROVE pos'.mark <= F /\ pos'.main <= pos'.due
      <4>1. ~pos.gap
        BY <2>4, <3>5
      <4>2. pos.mark <= E /\ pos.main <= pos.due
        BY <3>2, <4>1
      <4> QED BY <2>4, <3>1, <3>3, <4>2
    <3> QED BY <3>4, <3>5, Zenon DEF TrustedBy
  <2>7. HeldOK'
    <3>1. pos'.since \in 1..bar'
      BY <1>1, <1>2, <2>1, <2>4
    <3> QED BY <1>1, <2>1, <2>4, <2>5, <2>6, <3>1 DEF HeldOK
  <2>8. Replay!PauseKept'
    BY <1>1, <1>6, <2>4, PauseStays DEF ReplayInv
  <2> QED BY <1>3, <1>4, <2>7, <2>8 DEF ReplayInv
<1> QED BY <1>5, <1>6

LEMMA NextSymbolOK ==
    ASSUME Replay!BacktestAssumption, ReplayInv, Replay!NextSymbol PROVE ReplayInv'
<1>1. /\ phase' = "signal" /\ bar' = 1 /\ pos' = NoTrade /\ done' = NoTrade /\ cooling' = 0
      /\ candle' \in Replay!Paths /\ path' \in Replay!Paths /\ gap' \in Replay!Gaps
      /\ UNCHANGED <<mode, side, closes>>
  BY DEF Replay!NextSymbol, Replay!Fixed
<1>2. gap' \in BOOLEAN /\ (mode = "candle" => ~gap') /\ mode \in {"ticks", "candle"}
  BY <1>1, NoGaps DEF ReplayInv, ReplayTyped
<1>3. ReplayTyped'
  BY <1>1, <1>2 DEF ReplayInv, ReplayTyped, Window
<1>4. HeldOK' /\ DoneOK' /\ ClosesOK' /\ Replay!PauseKept'
  BY <1>1 DEF ReplayInv, HeldOK, DoneOK, ClosesOK, Replay!PauseKept
<1> QED BY <1>3, <1>4 DEF ReplayInv

LEMMA ReplayStarts == ASSUME Replay!BacktestAssumption, Replay!Init PROVE ReplayInv
   /\ slots = <<>>
<1>1. /\ phase = "signal" /\ bar = 1 /\ pos = NoTrade /\ done = NoTrade /\ cooling = 0
      /\ candle \in Replay!Paths /\ path \in Replay!Paths /\ gap \in Replay!Gaps
      /\ closes = <<>>
      /\ mode \in {"ticks", "candle"} /\ side \in {1, -1}
  BY DEF Replay!Init
<1>2. gap \in BOOLEAN /\ (mode = "candle" => ~gap)
  BY <1>1, NoGaps
<1>3. ReplayTyped
  BY <1>1, <1>2 DEF ReplayTyped, Window
<1>4. HeldOK /\ DoneOK /\ ClosesOK /\ Replay!PauseKept
  BY <1>1 DEF HeldOK, DoneOK, ClosesOK, Replay!PauseKept
<1> QED BY <1>3, <1>4 DEF ReplayInv, Replay!Init

LEMMA ReplayRestsOK == ASSUME ReplayInv, UNCHANGED Replay!vars PROVE ReplayInv'
<1>1. UNCHANGED <<mode, side, bar, candle, path, gap, phase, pos, cooling, closes, done>>
  BY DEF Replay!vars
<1>2. FacedTo' = FacedTo /\ OpenedBy' = OpenedBy
  BY <1>1 DEF FacedTo, OpenedBy
<1>3. ReplayTyped' /\ HeldOK' /\ DoneOK' /\ ClosesOK'
  BY <1>1, <1>2 DEF ReplayInv, ReplayTyped, Window, HeldOK, DoneOK, ClosesOK
<1>4. Replay!PauseKept'
  BY <1>1, PauseStays DEF ReplayInv
<1> QED BY <1>3, <1>4 DEF ReplayInv

LEMMA ReplayJudged == ASSUME ReplayInv PROVE Replay!TrailEarned /\ Replay!TradesInOrder
   /\ Replay!PauseKept
<1>1. pos # NoTrade /\ ~pos.gap => pos.main <= pos.due
  BY DEF ReplayInv, HeldOK, TrustedBy
<1> QED BY <1>1 DEF ReplayInv, DoneOK, Replay!TrailEarned, Replay!TradesInOrder, Replay!Finished

-----------------------------------------------------------------------------
(* The pause after a streak of stop losses.                                *)

LEMMA Whole ==
    ASSUME NEW L \in Nat \ {0}, NEW q \in Int, NEW s \in 0 .. (L - 1)
    PROVE  (L * q + s) % L = s
  OBVIOUS

LEMMA OneMore ==
    ASSUME NEW L \in Nat \ {0}, NEW r \in Nat
    PROVE  r % L \in Nat /\ (r + 1) % L = IF (r % L) + 1 >= L THEN 0 ELSE (r % L) + 1
<1> DEFINE q == r \div L
           s == r % L
<1>1. r = L * q + s /\ q \in Int /\ s \in 0 .. (L - 1)
  <2>1. r = L * (r \div L) + (r % L)
    OBVIOUS
  <2>2. r \div L \in Int
    OBVIOUS
  <2>3. r % L \in 0 .. (L - 1)
    OBVIOUS
  <2> QED BY <2>1, <2>2, <2>3
<1> HIDE DEF q, s
<1>2. L * q \in Int /\ L * (q + 1) = L * q + L
  BY <1>1
<1>3. CASE s + 1 >= L
  <2>1. r + 1 = L * (q + 1) + 0 /\ q + 1 \in Int /\ 0 \in 0 .. (L - 1)
    BY <1>1, <1>2, <1>3
  <2>2. (r + 1) % L = 0
    BY <2>1, Whole
  <2> QED BY <1>1, <1>3, <2>2 DEF s
<1>4. CASE ~(s + 1 >= L)
  <2>1. r + 1 = L * q + (s + 1) /\ s + 1 \in 0 .. (L - 1)
    BY <1>1, <1>2, <1>4
  <2>2. (r + 1) % L = s + 1
    BY <1>1, <2>1, Whole
  <2> QED BY <1>1, <1>4, <2>2 DEF s
<1> QED BY <1>3, <1>4

LEMMA UpTo ==
    ASSUME NEW n \in Nat PROVE IsFiniteSet(1..n) /\ Cardinality(1..n) = n
<1>1. IsFiniteSet(1..n) /\ Cardinality(1..n) = IF 1 > n THEN 0 ELSE n - 1 + 1
  <2>1. 1 \in Int /\ n \in Int
    OBVIOUS
  <2> QED BY <2>1, FS_Interval, Zenon
<1> QED BY <1>1

\* The closes are linearly ordered by their times.
LEMMA Ordered ==
    ASSUME ClosesOK
    PROVE  /\ Len(closes) \in Nat /\ DOMAIN closes = 1..Len(closes)
           /\ \A k \in DOMAIN closes : closes[k].at \in Int
           /\ \A k, l \in DOMAIN closes : Replay!Precedes(k, l) \/ Replay!Precedes(l, k)
           /\ \A k, l \in DOMAIN closes : Replay!Precedes(k, l) /\ Replay!Precedes(l, k) =>
                 k = l
           /\ \A k, l, m \in DOMAIN closes :
                 Replay!Precedes(k, l) /\ Replay!Precedes(l, m) => Replay!Precedes(k, m)
           /\ \A k, l \in DOMAIN closes : Replay!Precedes(k, l) => closes[k].at <= closes[l].at
           /\ \A k, l \in DOMAIN closes : closes[k].at < closes[l].at => Replay!Precedes(k, l)
<1>1. Len(closes) \in Nat /\ DOMAIN closes = 1..Len(closes)
  BY DEF ClosesOK
<1>2. ASSUME NEW k \in DOMAIN closes PROVE closes[k].at \in Int /\ k \in Int
  <2>1. closes[k] \in [at : Int, reason : Replay!Reasons]
    <3> DEFINE R == [at : Int, reason : Replay!Reasons]
    <3>1. closes \in Seq(R)
      BY DEF ClosesOK
    <3> HIDE DEF R
    <3>2. closes[k] \in R
      BY <1>1, <3>1
    <3> QED BY <3>2 DEF R
  <2> QED BY <1>1, <2>1
<1> QED BY <1>1, <1>2 DEF Replay!Precedes

Below(k) == {l \in DOMAIN closes : Replay!Precedes(l, k)}

LEMMA PlaceIs ==
    ASSUME ClosesOK
    PROVE  /\ IsFiniteSet(DOMAIN closes) /\ Cardinality(DOMAIN closes) = Len(closes)
           /\ \A k \in DOMAIN closes : Replay!Place(k) \in 1..Len(closes)
           /\ \A k, l \in DOMAIN closes :
                 Replay!Precedes(k, l) <=> Replay!Place(k) <= Replay!Place(l)
<1> DEFINE D == DOMAIN closes
<1>0. Len(closes) \in Nat /\ D = 1..Len(closes)
  BY Ordered
<1>1. IsFiniteSet(D) /\ Cardinality(D) = Len(closes)
  BY <1>0, UpTo
<1>2. \A k, l \in D : Replay!Precedes(k, l) \/ Replay!Precedes(l, k)
  BY Ordered
<1>3. \A k, l \in D : Replay!Precedes(k, l) /\ Replay!Precedes(l, k) => k = l
  BY Ordered
<1>4. \A k, l, m \in D : Replay!Precedes(k, l) /\ Replay!Precedes(l, m) => Replay!Precedes(k, m)
  BY Ordered
<1> HIDE DEF D
<1>5. ASSUME NEW k \in D
      PROVE  /\ IsFiniteSet(Below(k)) /\ Replay!Place(k) = Cardinality(Below(k))
             /\ Replay!Place(k) \in 1..Len(closes) /\ Below(k) \subseteq D /\ k \in Below(k)
  <2>1. Below(k) \subseteq D /\ k \in Below(k)
    BY <1>2 DEF Below, D
  <2>2. IsFiniteSet(Below(k)) /\ Cardinality(Below(k)) <= Len(closes)
    BY <1>1, <2>1, FS_Subset
  <2>3. Cardinality(Below(k)) \in Nat
    BY <2>2, FS_CardinalityType
  <2>4. Cardinality(Below(k)) # 0
    BY <2>1, <2>2, FS_EmptySet
  <2>5. Replay!Place(k) = Cardinality(Below(k))
    BY SameCardinality DEF Replay!Place, Below
  <2> QED BY <1>0, <2>1, <2>2, <2>3, <2>4, <2>5
<1>6. ASSUME NEW k \in D, NEW l \in D,
                Replay!Precedes(k, l) PROVE Replay!Place(k) <= Replay!Place(l)
  <2>1. Below(k) \subseteq Below(l)
    BY <1>4, <1>6 DEF Below, D
  <2> QED BY <1>5, <2>1, FS_Subset
<1>7. ASSUME NEW k \in D, NEW l \in D,
                ~Replay!Precedes(k, l) PROVE ~(Replay!Place(k) <= Replay!Place(l))
  <2>1. Replay!Precedes(l, k)
    BY <1>2, <1>7
  <2>2. Below(l) \subseteq Below(k)
    BY <1>4, <2>1 DEF Below, D
  <2>3. k \in Below(k) /\ k \notin Below(l)
    BY <1>5, <1>7 DEF Below
  <2>4. Cardinality(Below(l)) <= Cardinality(Below(k))
        /\ (Cardinality(Below(k)) = Cardinality(Below(l)) => Below(k) = Below(l))
    BY <1>5, <2>2, FS_Subset
  <2>5. Cardinality(Below(l)) # Cardinality(Below(k))
    BY <2>3, <2>4
  <2>6. Replay!Place(k) \in Int /\ Replay!Place(l) \in Int
    BY <1>5
  <2> QED BY <1>5, <2>4, <2>5, <2>6
<1> QED BY <1>1, <1>5, <1>6, <1>7 DEF D

\* Every place is taken, and by one close.
LEMMA PlaceTaken ==
    ASSUME ClosesOK, NEW i \in 1..Len(closes)
    PROVE  \E k \in DOMAIN closes : Replay!Place(k) = i
<1> DEFINE D == DOMAIN closes
           P == [k \in D |-> Replay!Place(k)]
<1>0. Len(closes) \in Nat
  BY Ordered
<1>1. IsFiniteSet(D) /\ Cardinality(D) = Len(closes)
  BY PlaceIs
<1>2. IsFiniteSet(1..Len(closes)) /\ Cardinality(1..Len(closes)) = Len(closes)
  BY <1>0, UpTo
<1>3. \A k \in D : Replay!Place(k) \in 1..Len(closes)
  BY PlaceIs
<1>4. ASSUME NEW k \in D, NEW l \in D, Replay!Place(k) = Replay!Place(l) PROVE k = l
  <2>1. Replay!Place(k) <= Replay!Place(l) /\ Replay!Place(l) <= Replay!Place(k)
    BY <1>3, <1>4
  <2>2. Replay!Precedes(k, l) /\ Replay!Precedes(l, k)
    BY <2>1, PlaceIs
  <2> QED BY <2>2, Ordered
<1>5. P \in Injection(D, 1..Len(closes))
  BY <1>3, <1>4 DEF Injection, IsInjective
<1>6. P \in Surjection(D, 1..Len(closes))
  <2> HIDE DEF P, D
  <2> QED BY <1>1, <1>2, <1>5, FS_Injection
<1>7. \E k \in D : P[k] = i
  <2> HIDE DEF P, D
  <2> QED BY <1>6 DEF Surjection
<1> QED BY <1>7

LEMMA CloseAtIs ==
    ASSUME ClosesOK, NEW k \in DOMAIN closes PROVE Replay!CloseAt(Replay!Place(k)) = closes[k]
<1>1. ASSUME NEW l \in DOMAIN closes, Replay!Place(l) = Replay!Place(k) PROVE l = k
  <2>1. Replay!Place(k) <= Replay!Place(l) /\ Replay!Place(l) <= Replay!Place(k)
    BY <1>1, PlaceIs
  <2>2. Replay!Precedes(k, l) /\ Replay!Precedes(l, k)
    BY <2>1, PlaceIs
  <2> QED BY <2>2, Ordered
<1>2. k = CHOOSE l \in DOMAIN closes : Replay!Place(l) = Replay!Place(k)
  BY <1>1
<1> QED BY <1>2 DEF Replay!CloseAt

\* The closes before t take the first places.
LEMMA ClosedBefore ==
    ASSUME ClosesOK, NEW t \in Int,
           NEW n, n = Cardinality({k \in DOMAIN closes : closes[k].at < t})
    PROVE  /\ n \in 0..Len(closes)
           /\ \A k \in DOMAIN closes : closes[k].at < t <=> Replay!Place(k) <= n
<1> DEFINE D == DOMAIN closes
           B == {k \in D : closes[k].at < t}
<1>0. Len(closes) \in Nat /\ IsFiniteSet(D) /\ Cardinality(D) = Len(closes)
      /\ \A k \in D : closes[k].at \in Int /\ Replay!Place(k) \in Int
  BY Ordered, PlaceIs
<1>1. IsFiniteSet(B) /\ n <= Len(closes) /\ n \in Nat
  <2>1. B \subseteq D /\ n = Cardinality(B)
    OBVIOUS
  <2> HIDE DEF B, D
  <2>2. IsFiniteSet(B) /\ Cardinality(B) <= Len(closes)
    BY <1>0, <2>1, FS_Subset
  <2> QED BY <2>1, <2>2, FS_CardinalityType
<1>2. ASSUME NEW k \in D PROVE IsFiniteSet(Below(k)) /\ Replay!Place(k) = Cardinality(Below(k))
  <2>1. Below(k) \subseteq D /\ Replay!Place(k) = Cardinality(Below(k))
    BY SameCardinality DEF Below, Replay!Place
  <2> HIDE DEF D
  <2> QED BY <1>0, <2>1, FS_Subset
<1>3. ASSUME NEW k \in D, closes[k].at < t PROVE Replay!Place(k) <= n
  <2>1. Below(k) \subseteq B
    <3>1. ASSUME NEW l \in Below(k) PROVE l \in B
      <4>1. l \in D /\ closes[l].at <= closes[k].at
        BY Ordered DEF Below
      <4> QED BY <1>0, <1>3, <4>1
    <3> QED BY <3>1
  <2>2. n = Cardinality(B)
    OBVIOUS
  <2> HIDE DEF B, D
  <2>3. Cardinality(Below(k)) <= Cardinality(B)
    BY <1>1, <2>1, FS_Subset
  <2> QED BY <1>2, <2>2, <2>3
<1>4. ASSUME NEW k \in D, ~(closes[k].at < t) PROVE ~(Replay!Place(k) <= n)
  <2>1. B \subseteq Below(k)
    <3>1. ASSUME NEW l \in B PROVE l \in Below(k)
      <4>1. l \in D /\ closes[l].at < closes[k].at
        BY <1>0, <1>4
      <4> QED BY <4>1, Ordered DEF Below
    <3> QED BY <3>1
  <2>2. k \in Below(k) /\ k \notin B /\ n = Cardinality(B)
    BY <1>4, Ordered DEF Below
  <2> HIDE DEF B, D
  <2>3. Cardinality(B) <= Cardinality(Below(k))
        /\ (Cardinality(Below(k)) = Cardinality(B) => Below(k) = B)
    BY <1>2, <2>1, FS_Subset
  <2>4. Cardinality(Below(k)) # Cardinality(B)
    BY <2>2, <2>3
  <2>5. Replay!Place(k) \in Int /\ n \in Int
    BY <1>0, <1>1
  <2> QED BY <1>2, <2>2, <2>3, <2>4, <2>5
<1> QED BY <1>0, <1>1, <1>3, <1>4

\* The stop losses in a row that a close ends.
Run(k) == {l \in DOMAIN closes : Replay!Precedes(l, k) /\
              \A m \in DOMAIN closes :
                 Replay!Precedes(l, m) /\ Replay!Precedes(m, k) =>
                    closes[m].reason = "stop_loss"}

LEMMA RunIs ==
    ASSUME ClosesOK, NEW k \in DOMAIN closes
    PROVE  /\ Replay!RunOfLosses(k) = Cardinality(Run(k)) /\ Replay!RunOfLosses(k) \in Nat
           /\ IsFiniteSet(Run(k))
<1>1. Run(k) \subseteq DOMAIN closes
  BY DEF Run
<1>2. IsFiniteSet(Run(k))
  BY <1>1, PlaceIs, FS_Subset
<1>3. Cardinality(Run(k)) \in Nat
  BY <1>2, FS_CardinalityType
<1> QED BY <1>2, <1>3, SameCardinality DEF Replay!RunOfLosses, Run

LEMMA RunBroken ==
    ASSUME ClosesOK, NEW k \in DOMAIN closes, closes[k].reason # "stop_loss"
    PROVE  Replay!RunOfLosses(k) = 0
<1>1. Replay!Precedes(k, k)
  BY Ordered
<1>2. Run(k) = {}
  BY <1>1 DEF Run
<1> QED BY <1>2, RunIs, FS_EmptySet

LEMMA RunStarts ==
    ASSUME ClosesOK, NEW k \in DOMAIN closes, closes[k].reason = "stop_loss",
              Replay!Place(k) = 1
    PROVE  Replay!RunOfLosses(k) = 1
<1>1. ASSUME NEW l \in DOMAIN closes, Replay!Precedes(l, k) PROVE l = k
  <2>1. Replay!Place(l) \in 1..Len(closes) /\ Replay!Place(l) <= Replay!Place(k)
           /\ Len(closes) \in Nat
    BY <1>1, PlaceIs, Ordered
  <2>2. Replay!Place(k) <= Replay!Place(l)
    BY <2>1
  <2>3. Replay!Precedes(k, l)
    BY <2>2, PlaceIs
  <2> QED BY <1>1, <2>3, Ordered
<1>2. Replay!Precedes(k, k)
  BY Ordered
<1>3. Run(k) = {k}
  BY <1>1, <1>2 DEF Run
<1> QED BY <1>3, RunIs, FS_Singleton

LEMMA RunGoesOn ==
    ASSUME ClosesOK, NEW k \in DOMAIN closes, closes[k].reason = "stop_loss",
           NEW j \in DOMAIN closes, Replay!Place(k) = Replay!Place(j) + 1
    PROVE  Replay!RunOfLosses(k) = Replay!RunOfLosses(j) + 1
<1>0. \A l \in DOMAIN closes : Replay!Place(l) \in Int
  BY PlaceIs
<1>1. Replay!Precedes(k, k) /\ Replay!Precedes(j, k) /\ ~Replay!Precedes(k, j)
  BY <1>0, PlaceIs, Ordered
<1>2. ASSUME NEW l \in DOMAIN closes PROVE Replay!Precedes(l, k) <=> Replay!Precedes(l, j)
                \/ l = k
  <2>1. ASSUME Replay!Precedes(l, j) PROVE Replay!Precedes(l, k)
    BY <1>1, <2>1, Ordered
  <2>2. ASSUME Replay!Precedes(l, k), l # k PROVE Replay!Precedes(l, j)
    <3>1. ~Replay!Precedes(k, l)
      BY <2>2, Ordered
    <3>2. ~(Replay!Place(k) <= Replay!Place(l))
      BY <3>1, PlaceIs
    <3>3. Replay!Place(l) <= Replay!Place(j)
      BY <1>0, <3>2
    <3> QED BY <3>3, PlaceIs
  <2> QED BY <1>1, <2>1, <2>2
<1>3. Run(k) = Run(j) \cup {k}
  <2>1. ASSUME NEW l \in Run(k), l # k PROVE l \in Run(j)
    BY <1>2, <2>1 DEF Run
  <2>2. ASSUME NEW l \in Run(j) PROVE l \in Run(k)
    BY <1>2, <2>2 DEF Run
  <2>3. k \in Run(k)
    BY <1>1, Ordered DEF Run
  <2> QED BY <2>1, <2>2, <2>3
<1>4. k \notin Run(j)
  BY <1>1 DEF Run
<1> QED BY <1>3, <1>4, RunIs, FS_AddElement

-----------------------------------------------------------------------------
(* What the breaker counts over the closes before t.                       *)

Unlocked == [streak |-> 0, until |-> 0]
Locks(f, n) == f = [i \in 0..n |-> IF i = 0 THEN Unlocked
   ELSE Replay!Counted(f[i - 1], Replay!CloseAt(i))]

LEMMA LocksExists == ASSUME NEW n \in Nat PROVE \E f : Locks(f, n)
<1> DEFINE V(f, i) == IF i = 0 THEN Unlocked ELSE Replay!Counted(f[i - 1], Replay!CloseAt(i))
           T == {m \in Nat : \E f : \A i \in 0 .. m : f[i] = V(f, i)}
<1>1. 0 \in T
  <2> DEFINE f == [i \in 0 .. 0 |-> Unlocked]
  <2>1. \A i \in 0 .. 0 : f[i] = V(f, i)
    OBVIOUS
  <2> HIDE DEF V
  <2> QED BY <2>1
<1>2. ASSUME NEW m \in T PROVE m + 1 \in T
  <2>1. PICK f : \A i \in 0 .. m : f[i] = V(f, i)
    OBVIOUS
  <2> DEFINE g == [i \in 0 .. m + 1 |-> IF i <= m THEN f[i] ELSE V(f, i)]
  <2>2. m \in Nat
    OBVIOUS
  <2>3. ASSUME NEW i \in 0 .. m + 1 PROVE g[i] = V(g, i)
    <3>1. g[i] = V(f, i)
      BY <2>1, <2>2
    <3>2. CASE i = 0
      BY <3>1, <3>2
    <3>3. CASE i # 0
      <4>1. i - 1 \in 0 .. m + 1 /\ i - 1 <= m
        BY <2>2, <3>3
      <4>2. g[i - 1] = f[i - 1]
        BY <4>1
      <4> HIDE DEF g
      <4> QED BY <3>1, <3>3, <4>2
    <3> QED BY <3>2, <3>3
  <2>4. m + 1 \in Nat
    BY <2>2
  <2> HIDE DEF V, g
  <2>5. \A i \in 0 .. m + 1 : g[i] = V(g, i)
    BY <2>3
  <2> QED BY <2>4, <2>5
<1>3. T = Nat
  <2>1. T \in SUBSET Nat
    OBVIOUS
  <2> HIDE DEF T
  <2> QED BY <1>1, <1>2, <2>1, Numbers
<1>4. PICK f : \A i \in 0 .. n : f[i] = V(f, i)
  <2>1. n \in T
    BY <1>3
  <2> QED BY <2>1
<1> DEFINE g == [i \in 0 .. n |-> f[i]]
<1>5. ASSUME NEW i \in 0 .. n PROVE g[i] = V(g, i)
  <2>1. CASE i = 0
    BY <1>4, <2>1
  <2>2. CASE i # 0
    <3>1. i - 1 \in 0 .. n
      BY <2>2
    <3>2. g[i - 1] = f[i - 1]
      BY <3>1
    <3>3. g[i] = V(f, i)
      BY <1>4
    <3> HIDE DEF g
    <3> QED BY <2>2, <3>2, <3>3
  <2> QED BY <2>1, <2>2
<1>6. g = [i \in 0 .. n |-> V(g, i)]
  <2>1. g = [i \in 0 .. n |-> g[i]]
    OBVIOUS
  <2> HIDE DEF g, V
  <2> QED BY <1>5, <2>1
<1> HIDE DEF g
<1>7. Locks(g, n)
  BY <1>6 DEF Locks
<1> QED BY <1>7

\* A full streak of stop losses.
Full(k) == Replay!RunOfLosses(k) > 0 /\ Replay!RunOfLosses(k) % Limit = 0

\* The breaker's state after the first i closes: the streak the last of them
\* ends, modulo the limit, and a lock no shorter than any full streak asks for.
Locked(s, i) ==
    /\ s \in [streak : Nat, until : Int]
    /\ i = 0 => s.streak = 0
    /\ \A j \in DOMAIN closes : Replay!Place(j) = i => s.streak = Replay!RunOfLosses(j) % Limit
    /\ \A j \in DOMAIN closes : Replay!Place(j) <= i /\ Full(j) =>
          closes[j].at + Lock <= s.until

LEMMA OneCloseMore ==
    ASSUME Replay!BacktestAssumption, ClosesOK, NEW i \in Nat, NEW k \in DOMAIN closes,
           Replay!Place(k) = i + 1, NEW s, Locked(s, i),
           NEW t, t = Replay!Counted(s, closes[k])
    PROVE  Locked(t, i + 1)
<1> DEFINE r == Replay!RunOfLosses(k)
<1>1. Limit \in Nat \ {0} /\ Lock \in Nat /\ closes[k].at \in Int /\ r \in Nat
      /\ s \in [streak : Nat, until : Int]
  BY Ordered, RunIs DEF Replay!BacktestAssumption, Locked
<1>2. \A j \in DOMAIN closes : /\ Replay!Place(j) \in Int /\ (Replay!Place(j) = i + 1 => j = k)
                               /\ closes[j].at \in Int
                               /\ Replay!Place(j) <= i + 1 => closes[j].at <= closes[k].at
  <2> SUFFICES ASSUME NEW j \in DOMAIN closes
               PROVE  /\ Replay!Place(j) \in Int /\ (Replay!Place(j) = i + 1 => j = k)
                      /\ closes[j].at \in Int
                      /\ Replay!Place(j) <= i + 1 => closes[j].at <= closes[k].at
    OBVIOUS
  <2>1. Replay!Place(j) \in Int /\ closes[j].at \in Int
    BY PlaceIs, Ordered
  <2>2. ASSUME Replay!Place(j) <= i + 1 PROVE Replay!Precedes(j, k)
                  /\ closes[j].at <= closes[k].at
    <3>1. Replay!Precedes(j, k)
      BY <2>2, PlaceIs
    <3> QED BY <3>1, Ordered
  <2>3. ASSUME Replay!Place(j) = i + 1 PROVE j = k
    <3>1. Replay!Place(j) <= Replay!Place(k) /\ Replay!Place(k) <= Replay!Place(j)
      BY <2>1, <2>3
    <3>2. Replay!Precedes(j, k) /\ Replay!Precedes(k, j)
      BY <3>1, PlaceIs
    <3> QED BY <3>2, Ordered
  <2> QED BY <2>1, <2>2, <2>3
<1>3. \A j \in DOMAIN closes : Replay!Place(j) <= i /\ Full(j) => closes[j].at + Lock <= s.until
  BY DEF Locked
<1>4. \A j \in DOMAIN closes : Replay!Place(j) <= i + 1 => j = k \/ Replay!Place(j) <= i
  BY <1>2
<1>5. CASE closes[k].reason # "stop_loss"
  <2>1. t = [s EXCEPT !.streak = 0] /\ r = 0
    BY <1>5, RunBroken DEF Replay!Counted
  <2>2. 0 % Limit = 0
    <3>1. 0 = Limit * 0 + 0 /\ 0 \in 0..(Limit - 1)
      BY <1>1
    <3> QED BY <1>1, <3>1, Whole
  <2>3. t \in [streak : Nat, until : Int] /\ t.streak = 0 /\ t.until = s.until
    BY <1>1, <2>1
  <2>4. ASSUME NEW j \in DOMAIN closes, Replay!Place(j) = i + 1
        PROVE  t.streak = Replay!RunOfLosses(j) % Limit
    BY <1>2, <2>1, <2>2, <2>3, <2>4
  <2>5. ASSUME NEW j \in DOMAIN closes, Replay!Place(j) <= i + 1, Full(j)
        PROVE  closes[j].at + Lock <= t.until
    <3>1. ~Full(k)
      BY <2>1 DEF Full
    <3> QED BY <1>3, <1>4, <2>3, <2>5, <3>1
  <2> QED BY <2>3, <2>4, <2>5 DEF Locked
<1>6. CASE closes[k].reason = "stop_loss"
  <2>1. r % Limit = IF s.streak + 1 >= Limit THEN 0 ELSE s.streak + 1
    <3>1. CASE i = 0
      <4>1. r = 0 + 1 /\ s.streak = 0
        BY <1>6, <3>1, RunStarts DEF Locked
      <4>2. 0 % Limit = 0
        <5>1. 0 = Limit * 0 + 0 /\ 0 \in 0..(Limit - 1)
          BY <1>1
        <5> QED BY <1>1, <5>1, Whole
      <4>3. (0 + 1) % Limit = IF (0 % Limit) + 1 >= Limit THEN 0 ELSE (0 % Limit) + 1
        BY <1>1, OneMore
      <4> QED BY <4>1, <4>2, <4>3
    <3>2. CASE i # 0
      <4>1. i \in 1..Len(closes)
        BY <3>2, PlaceIs, Ordered
      <4>2. PICK j \in DOMAIN closes : Replay!Place(j) = i
        BY <4>1, PlaceTaken
      <4>3. r = Replay!RunOfLosses(j) + 1 /\ s.streak = Replay!RunOfLosses(j) % Limit
            /\ Replay!RunOfLosses(j) \in Nat
        BY <1>6, <4>2, RunGoesOn, RunIs DEF Locked
      <4> HIDE DEF r
      <4> QED BY <1>1, <4>3, OneMore
    <3> QED BY <3>1, <3>2
  <2>2. CASE s.streak + 1 >= Limit
    <3>1. t = [streak |-> 0, until |-> closes[k].at + Lock]
      BY <1>6, <2>2 DEF Replay!Counted
    <3>2. t \in [streak : Nat, until : Int] /\ t.streak = 0
          /\ t.until = closes[k].at + Lock
      BY <1>1, <3>1
    <3>3. ASSUME NEW j \in DOMAIN closes, Replay!Place(j) = i + 1
          PROVE  t.streak = Replay!RunOfLosses(j) % Limit
      BY <1>2, <2>1, <2>2, <3>2, <3>3
    <3>4. ASSUME NEW j \in DOMAIN closes, Replay!Place(j) <= i + 1, Full(j)
          PROVE  closes[j].at + Lock <= t.until
      BY <1>1, <1>2, <3>2, <3>4
    <3> QED BY <3>2, <3>3, <3>4 DEF Locked
  <2>3. CASE ~(s.streak + 1 >= Limit)
    <3>1. t = [s EXCEPT !.streak = @ + 1]
      BY <1>6, <2>3 DEF Replay!Counted
    <3>2. t \in [streak : Nat, until : Int] /\ t.streak = s.streak + 1
          /\ t.until = s.until
      BY <1>1, <3>1
    <3>3. ASSUME NEW j \in DOMAIN closes, Replay!Place(j) = i + 1
          PROVE  t.streak = Replay!RunOfLosses(j) % Limit
      BY <1>2, <2>1, <2>3, <3>2, <3>3
    <3>4. ASSUME NEW j \in DOMAIN closes, Replay!Place(j) <= i + 1, Full(j)
          PROVE  closes[j].at + Lock <= t.until
      <4>1. r % Limit # 0
        BY <1>1, <2>1, <2>3
      <4>2. ~Full(k)
        BY <4>1 DEF Full
      <4> QED BY <1>3, <1>4, <3>2, <3>4, <4>2
    <3> QED BY <1>1, <3>2, <3>3, <3>4 DEF Locked
  <2> QED BY <2>2, <2>3
<1> QED BY <1>5, <1>6

\* Not blocked at t: every full streak before it was long enough ago.
LEMMA PausesLast ==
    ASSUME Replay!BacktestAssumption, ClosesOK, NEW t \in Int, ~Replay!Blocked(t),
           NEW k \in DOMAIN closes, closes[k].at < t, Full(k)
    PROVE  closes[k].at + Lock <= t
<1> DEFINE n == Cardinality({j \in DOMAIN closes : closes[j].at < t})
           g == CHOOSE f : Locks(f, n)
<1>1. n \in 0..Len(closes) /\ \A j \in DOMAIN closes : closes[j].at < t <=> Replay!Place(j) <= n
  BY ClosedBefore
<1>2. Replay!LockUntil(t) = g[n].until
  BY SameCardinality DEF Replay!LockUntil, Locks, Unlocked
<1>3. Len(closes) \in Nat
  BY Ordered
<1> HIDE DEF n
<1>4. n \in Nat
  BY <1>1, <1>3
<1>5. Locks(g, n)
  BY <1>4, LocksExists
<1> HIDE DEF g
<1>6. g[0] = Unlocked /\ \A i \in 1..n : g[i] = Replay!Counted(g[i - 1], Replay!CloseAt(i))
  <2>1. \A i \in 0..n : g[i] = IF i = 0 THEN Unlocked
           ELSE Replay!Counted(g[i - 1], Replay!CloseAt(i))
    BY <1>5, Zenon DEF Locks
  <2>2. 0 \in 0..n /\ \A i \in 1..n : i \in 0..n /\ i # 0
    BY <1>4
  <2>3. g[0] = Unlocked
    BY <2>1, <2>2, Zenon
  <2>4. ASSUME NEW i \in 1..n PROVE g[i] = Replay!Counted(g[i - 1], Replay!CloseAt(i))
    BY <2>1, <2>2, Zenon
  <2> QED BY <2>3, <2>4
<1> DEFINE T == {i \in Nat : i <= n => Locked(g[i], i)}
<1>7. 0 \in T
  <2>1. \A j \in DOMAIN closes : Replay!Place(j) >= 1 /\ Replay!Place(j) \in Int
    BY <1>3, PlaceIs
  <2>2. \A j \in DOMAIN closes : ~(Replay!Place(j) <= 0) /\ Replay!Place(j) # 0
    BY <2>1
  <2>3. Unlocked \in [streak : Nat, until : Int] /\ Unlocked.streak = 0
    BY DEF Unlocked
  <2>4. Locked(g[0], 0)
    BY <1>6, <2>2, <2>3 DEF Locked
  <2> QED BY <2>4
<1>8. ASSUME NEW i \in T PROVE i + 1 \in T
  <2> SUFFICES ASSUME i + 1 <= n PROVE Locked(g[i + 1], i + 1)
    BY DEF T
  <2>1. i \in Nat /\ i <= n /\ i + 1 \in 1..n /\ (i + 1) - 1 = i /\ i + 1 \in 1..Len(closes)
    BY <1>1, <1>3, <1>4 DEF T
  <2>2. Locked(g[i], i)
    BY <2>1 DEF T
  <2>3. PICK j \in DOMAIN closes : Replay!Place(j) = i + 1
    BY <2>1, PlaceTaken
  <2>4. Replay!CloseAt(i + 1) = closes[j]
    BY <2>3, CloseAtIs
  <2>5. g[i + 1] = Replay!Counted(g[i], closes[j])
    BY <1>6, <2>1, <2>4
  <2> QED BY <2>1, <2>2, <2>3, <2>5, OneCloseMore
<1>9. Locked(g[n], n)
  <2>1. T = Nat
    <3>1. T \in SUBSET Nat
      BY DEF T
    <3> HIDE DEF T
    <3> QED BY <1>7, <1>8, <3>1, Numbers
  <2>2. n \in T
    BY <1>4, <2>1
  <2> QED BY <1>4, <2>2 DEF T
<1>10. closes[k].at + Lock <= g[n].until /\ g[n].until \in Int
  BY <1>1, <1>9 DEF Locked
<1>11. ~(t < g[n].until)
  BY <1>2 DEF Replay!Blocked
<1>12. closes[k].at \in Int /\ Lock \in Int
  BY Ordered DEF Replay!BacktestAssumption
<1> QED BY <1>10, <1>11, <1>12

-----------------------------------------------------------------------------
(* A position is opened.                                                   *)

SlotsOK == slots \in Seq([open : Int, close : Int])

LEMMA SlotFreed ==
    ASSUME SlotsOK, NEW x, NEW y \in Int
    PROVE  [slots EXCEPT ![x].close = y] \in Seq([open : Int, close : Int])
<1> DEFINE R == [open : Int, close : Int]
           c == [slots[x] EXCEPT !.close = y]
<1>1. slots \in Seq(R) /\ Len(slots) \in Nat /\ DOMAIN slots = 1..Len(slots)
      /\ slots \in [1..Len(slots) -> R]
  <2>1. slots \in Seq(R)
    BY DEF SlotsOK
  <2> HIDE DEF R
  <2> QED BY <2>1
<1>2. CASE x \notin DOMAIN slots
  <2>1. [slots EXCEPT ![x].close = y] = slots
    BY <1>1, <1>2
  <2> QED BY <1>1, <2>1
<1>3. CASE x \in DOMAIN slots
  <2>1. c \in R
    <3>1. slots[x] \in R
      <4> HIDE DEF R
      <4> QED BY <1>1, <1>3
    <3> QED BY <3>1
  <2>2. [slots EXCEPT ![x].close = y] = [slots EXCEPT ![x] = c]
    OBVIOUS
  <2> HIDE DEF R, c
  <2>3. [slots EXCEPT ![x] = c] \in [1..Len(slots) -> R]
    BY <1>1, <2>1
  <2>4. [slots EXCEPT ![x] = c] \in Seq(R)
    BY <1>1, <2>3
  <2> QED BY <2>2, <2>4 DEF R
<1> QED BY <1>2, <1>3

LEMMA SlotsStay ==
    ASSUME Replay!BacktestAssumption, Window, SlotsOK, [Replay!Next]_Replay!vars PROVE SlotsOK'
<1>1. bar \in Int /\ Replay!WindowEnd \in Int /\ Replay!Later \in Int
  BY DEF Window, Replay!BacktestAssumption, Replay!WindowEnd, Replay!Later
<1>2. CASE UNCHANGED slots
  BY <1>2 DEF SlotsOK
<1>3. CASE \E x : \E y \in Int : slots' = [slots EXCEPT ![x].close = y]
  <2>1. PICK x : \E y \in Int : slots' = [slots EXCEPT ![x].close = y]
    BY <1>3
  <2>2. PICK y \in Int : slots' = [slots EXCEPT ![x].close = y]
    BY <2>1
  <2>3. [slots EXCEPT ![x].close = y] \in Seq([open : Int, close : Int])
    BY SlotFreed
  <2> QED BY <2>2, <2>3 DEF SlotsOK
<1>4. CASE \E y \in Int : slots' = Append(slots, [open |-> bar, close |-> y])
  <2> DEFINE R == [open : Int, close : Int]
  <2>1. PICK y \in Int : slots' = Append(slots, [open |-> bar, close |-> y])
    BY <1>4
  <2>2. [open |-> bar, close |-> y] \in R /\ slots \in Seq(R)
    BY <1>1 DEF SlotsOK
  <2> HIDE DEF R
  <2>3. slots' \in Seq(R)
    BY <2>1, <2>2
  <2> QED BY <2>3 DEF SlotsOK, R
<1>5. ASSUME NEW p, Replay!FreeSlot(p)
      PROVE  \E x : \E y \in Int : slots' = [slots EXCEPT ![x].close = y]
  BY <1>1, <1>5 DEF Replay!FreeSlot
<1>6. CASE Replay!ManageTicks
  <2>1. Replay!FreeSlot(pos) \/ UNCHANGED slots
    BY <1>6 DEF Replay!ManageTicks
  <2> QED BY <1>2, <1>3, <1>5, <2>1
<1>7. CASE Replay!ManageBar
  <2>1. Replay!FreeSlot(pos) \/ UNCHANGED slots
    BY <1>7 DEF Replay!ManageBar
  <2> QED BY <1>2, <1>3, <1>5, <2>1
<1>8. CASE Replay!Review
  <2>1. Replay!FreeSlot(pos) \/ UNCHANGED slots
    BY <1>8 DEF Replay!Review
  <2> QED BY <1>2, <1>3, <1>5, <2>1
<1>9. CASE Replay!NextSymbol
  <2>1. UNCHANGED slots \/ slots' = [slots EXCEPT ![pos.slot].close = Replay!WindowEnd]
    BY <1>9 DEF Replay!NextSymbol
  <2> QED BY <1>1, <1>2, <1>3, <2>1
<1>10. CASE Replay!Enter
  <2>1. \/ slots' = Append(slots, [open |-> bar, close |-> bar])
        \/ slots' = Append(slots, [open |-> bar, close |-> Replay!Later])
    BY <1>10 DEF Replay!Enter
  <2> QED BY <1>1, <1>4, <2>1
<1>11. CASE Replay!NothingToManage \/ Replay!NoSignal \/ Replay!NextRow \/ UNCHANGED Replay!vars
  BY <1>2, <1>11 DEF Replay!NothingToManage, Replay!NoSignal, Replay!NextRow, Replay!vars
<1> QED BY <1>6, <1>7, <1>8, <1>9, <1>10, <1>11 DEF Replay!Next

LEMMA EntryTickIs ==
    ASSUME Replay!BacktestAssumption, Window
    PROVE  /\ Replay!EntryTick \in 0..Ticks
           /\ Replay!EntryTick = 0 <=> mode = "candle" \/ gap
<1> DEFINE under == {i \in 1..Ticks : path[i] <= candle[Ticks]}
<1>0. Ticks \in Nat \ {0}
  BY DEF Replay!BacktestAssumption
<1>1. under # {} => Replay!Worst(under) \in 1..Ticks
  <2>1. IsFiniteSet(1..Ticks) /\ under \subseteq 1..Ticks /\ \A x \in under : x \in Int
    BY <1>0, FS_Interval
  <2> HIDE DEF under
  <2>2. IsFiniteSet(under)
    BY <2>1, FS_Subset
  <2>3. ASSUME under # {} PROVE Replay!Worst(under) \in under
    BY <2>1, <2>2, <2>3, WorstOf
  <2> QED BY <2>1, <2>3
<1>2. Replay!EntryTick = CASE mode = "candle" \/ gap -> 0
                    [] ~(mode = "candle" \/ gap) /\ low /\ under # {} -> Replay!Worst(under)
                    [] OTHER -> Ticks
  BY DEF Replay!EntryTick
<1> HIDE DEF under
<1>3. CASE mode = "candle" \/ gap
  BY <1>0, <1>2, <1>3
<1>4. CASE ~(mode = "candle" \/ gap)
  <2>1. Replay!EntryTick = Ticks \/ (under # {} /\ Replay!EntryTick = Replay!Worst(under))
    BY <1>2, <1>4
  <2> QED BY <1>0, <1>1, <1>4, <2>1
<1> QED BY <1>3, <1>4

\* The window's prices have not been traded when the symbol's last trade was closed.
LEMMA DoneBefore ==
    ASSUME Replay!BacktestAssumption, ReplayInv, cooling <= bar, done # NoTrade
    PROVE  /\ done.exited \in Int
           /\ done.exited <= IF mode = "ticks" THEN Turn(bar) ELSE Turn(bar - 1)
<1>1. /\ done.exited \in Int
      /\ done.exited <= IF mode = "ticks" THEN Turn(cooling) ELSE Turn(cooling - 1)
  BY DEF ReplayInv, DoneOK
<1>2. cooling \in Int /\ bar \in Int /\ cooling - 1 \in Int /\ bar - 1 \in Int
      /\ cooling - 1 <= bar - 1
  BY DEF ReplayInv, ReplayTyped, Window
<1>3. /\ Turn(cooling) <= Turn(bar) /\ Turn(cooling - 1) <= Turn(bar - 1)
      /\ {Turn(cooling), Turn(bar), Turn(cooling - 1), Turn(bar - 1)} \subseteq Int
  BY <1>2, Turns
<1> QED BY <1>1, <1>3

LEMMA EnterOK ==
    ASSUME Replay!BacktestAssumption, ReplayInv, SlotsOK, Replay!Enter PROVE ReplayInv'
<1> DEFINE i == Replay!EntryTick
           price == IF i = 0 THEN candle[Ticks] ELSE path[i]
           at == IF i = 0 THEN Replay!CloseOf(bar) ELSE Replay!Moment(bar, i)
           fresh == [entry |-> price, mark |-> Replay!Fav(price), armed |-> FALSE,
                     trail |-> Trail, runner |-> FALSE, since |-> bar,
                     main |-> 0, due |-> 0,
                     slot |-> Len(slots) + 1, best |-> Replay!Fav(price),
                     at |-> at, gap |-> gap]
           w == IF i = 0 THEN [pos |-> fresh, hit |-> "none", idx |-> 0]
                ELSE Replay!Walk(fresh, path, Replay!RestFrom(i), FALSE)
<1>1. /\ phase = "signal" /\ phase' = "next" /\ cooling <= bar /\ ~Replay!Blocked(bar) /\ Rests
      /\ pos = NoTrade
  <2>1. phase = "signal" /\ bar >= cooling
    BY DEF Replay!Enter
  <2>2. cooling \in Int /\ bar \in Int
    BY DEF ReplayInv, ReplayTyped, Window
  <2> QED BY <2>1, <2>2 DEF Replay!Enter, Replay!Fixed, Rests, ReplayInv, HeldOK
<1>2. Window /\ bar \in Nat \ {0} /\ mode \in {"ticks", "candle"} /\ gap \in BOOLEAN
      /\ (mode = "candle" => ~gap) /\ ClosesOK
  BY DEF ReplayInv, ReplayTyped, Window
<1>3. /\ Ticks \in Nat \ {0} /\ Turn(bar) \in Int /\ Turn(bar + 1) = Turn(bar) + Ticks
      /\ Turn(bar - 1) = Turn(bar) - Ticks /\ Turn(bar) > 0
      /\ \A j \in Int : Replay!Moment(bar, j) = Turn(bar) + j
      /\ Replay!CloseOf(bar) = Turn(bar)
  <2>1. Ticks \in Nat \ {0} /\ bar \in Int
    BY <1>2, Turns
  <2>2. Turn(bar) > 0
    BY <1>2, Turns
  <2> QED BY <2>1, <2>2, Turns
<1>4. i \in 0..Ticks /\ i \in Int /\ (i = 0 <=> mode = "candle" \/ gap)
  BY <1>2, <1>3, EntryTickIs
<1>5. \/ /\ w.hit # "none"
         /\ Replay!CloseTrade(w.pos, w.hit, Replay!Fill(w.pos, w.hit),
               Replay!Moment(bar, w.idx))
      \/ /\ w.hit = "none" /\ pos' = w.pos /\ cooling' = bar + FireCooldown
         /\ UNCHANGED <<closes, done>>
  BY DEF Replay!Enter
<1> HIDE DEF i
<1>6. price \in Int /\ Replay!Fav(price) \in Int
  <2>1. price \in Int
    <3>1. Ticks \in 1..Ticks /\ (i # 0 => i \in 1..Ticks)
      BY <1>3, <1>4
    <3> QED BY <1>2, <3>1, PricesInt DEF Window
  <2> HIDE DEF price
  <2> QED BY <1>2, <2>1 DEF Replay!Fav, Window
<1>7. at = Turn(bar) + i /\ at \in Int /\ at > 0
  BY <1>3, <1>4
<1> HIDE DEF price, at
<1>8. /\ fresh \in Held /\ fresh.at = at /\ fresh.since = bar /\ fresh.gap = gap
      /\ fresh.mark = fresh.best /\ fresh.main = 0 /\ fresh.due = 0
  <2>1. Trail \in Int
    BY DEF Replay!BacktestAssumption
  <2>2. Len(slots) + 1 \in Int
    BY DEF SlotsOK
  <2> QED BY <1>2, <1>6, <1>7, <2>1, <2>2 DEF Held
<1> HIDE DEF fresh
<1>9. \A m \in Int : Trusted(fresh, m)
  <2>1. \A m \in Int : Replay!Earned(fresh, m) >= fresh.best /\ Replay!Earned(fresh, m) \in Int
    BY <1>2, <1>8, EarnedInt
  <2>2. fresh.best \in Int
    BY <1>8 DEF Held
  <2> QED BY <1>8, <2>1, <2>2 DEF Trusted
<1>10. ~gap /\ done # NoTrade => at > done.exited
  <2> SUFFICES ASSUME ~gap, done # NoTrade PROVE at > done.exited
    OBVIOUS
  <2>1. /\ done.exited \in Int
        /\ done.exited <= IF mode = "ticks" THEN Turn(bar) ELSE Turn(bar - 1)
    BY <1>1, DoneBefore
  <2>2. CASE mode = "ticks"
    BY <1>3, <1>4, <1>7, <2>1, <2>2
  <2>3. CASE mode = "candle"
    BY <1>3, <1>4, <1>7, <2>1, <2>3
  <2> QED BY <1>2, <2>2, <2>3
<1>11. /\ w \in Faces /\ Kept(w.pos, fresh)
       /\ w.hit = "none" => Trusted(w.pos, IF mode = "ticks" THEN Turn(bar + 1) ELSE Turn(bar))
       /\ w.hit # "none" => /\ mode = "ticks" /\ ~gap
                            /\ Replay!Moment(bar, w.idx) \in Int
                            /\ Replay!Moment(bar, w.idx) > at
                            /\ Replay!Moment(bar, w.idx) <= Turn(bar + 1)
                            /\ Trusted(w.pos, Replay!Moment(bar, w.idx))
  <2>1. CASE i = 0
    <3>1. w = [pos |-> fresh, hit |-> "none", idx |-> 0]
      BY <2>1
    <3>2. Turn(bar + 1) \in Int
      BY <1>3
    <3> HIDE DEF w
    <3> QED BY <1>3, <1>8, <1>9, <3>1, <3>2 DEF Faces, Kept
  <2>2. CASE i # 0
    <3>1. w = Replay!Walk(fresh, path, i + 1, FALSE) /\ i + 1 \in 1..(Ticks + 1)
             /\ (i + 1) - 1 = i
      BY <1>3, <1>4, <2>2 DEF Replay!RestFrom
    <3>2. fresh.at <= Replay!Moment(bar, i) /\ Replay!Moment(bar, i) \in Int
             /\ Replay!Moment(bar, i) = at
      BY <1>3, <1>4, <1>7, <1>8
    <3>3. Trusted(fresh, Replay!Moment(bar, i))
      BY <1>9, <3>2
    <3> HIDE DEF w
    <3>4. /\ w \in Faces /\ Kept(w.pos, fresh)
          /\ w.hit = "none" => Trusted(w.pos, Replay!Moment(bar, Ticks))
          /\ w.hit # "none" =>
                w.idx \in (i + 1)..Ticks /\ Trusted(w.pos, Replay!Moment(bar, w.idx))
      BY <1>2, <1>8, <3>1, <3>2, <3>3, Walked
    <3>5. mode = "ticks" /\ ~gap
      BY <1>2, <1>4, <2>2
    <3>6. Replay!Moment(bar, Ticks) = Turn(bar + 1)
      BY <1>3
    <3>7. ASSUME NEW x \in (i + 1)..Ticks
          PROVE  Replay!Moment(bar, x) \in Int /\ Replay!Moment(bar, x) > at
                    /\ Replay!Moment(bar, x) <= Turn(bar + 1)
      BY <1>3, <1>4, <1>7
    <3> QED BY <3>4, <3>5, <3>6, <3>7
  <2> QED BY <2>1, <2>2
<1> HIDE DEF w
<1>12. w.pos \in Held /\ w.pos.at = at /\ w.pos.since = bar /\ w.pos.gap = gap
  BY <1>8, <1>11 DEF Kept
<1>13. CASE /\ w.hit # "none"
            /\ Replay!CloseTrade(w.pos, w.hit, Replay!Fill(w.pos, w.hit),
                  Replay!Moment(bar, w.idx))
  <2> DEFINE m == Replay!Moment(bar, w.idx)
             made == Replay!Fill(w.pos, w.hit)
  <2>1. /\ m \in Int /\ m > at /\ m <= Turn(bar + 1) /\ mode = "ticks"
        /\ Trusted(w.pos, m) /\ w.hit \in Replay!LevelExits
    BY <1>11, <1>13 DEF Faces
  <2>2. made \in Int /\ (w.hit = "trailing_stop" => made = w.pos.mark - w.pos.trail)
    BY <1>2, <1>12, <2>1, FillInt
  <2>3. ~w.pos.gap => w.pos.mark <= Replay!Earned(w.pos, m)
    BY <2>1 DEF Trusted
  <2>4. Replay!Earned(w.pos, m) \in Int /\ w.pos.mark \in Int /\ w.pos.trail \in Int
    BY <1>2, <1>12, EarnedInt DEF Held
  <2>5. Replay!CloseTrade(w.pos, w.hit, made, m) /\ UNCHANGED <<mode, bar>>
           /\ w.hit \in Replay!Reasons
    BY <1>1, <1>13, <2>1 DEF Rests, Replay!LevelExits, Replay!Reasons
  <2>6. w.pos.since \in 1..bar
    BY <1>2, <1>12
  <2> HIDE DEF m, made
  <2>7. pos' = NoTrade /\ cooling' \in Int /\ DoneOK' /\ ClosesOK' /\ Replay!PauseKept'
    BY <1>7, <1>10, <1>12, <2>1, <2>2, <2>3, <2>4, <2>5, <2>6, Closing
  <2>8. ReplayTyped' /\ HeldOK'
    BY <1>1, <2>7, TypedStays DEF ReplayInv, HeldOK
  <2> QED BY <2>7, <2>8 DEF ReplayInv
<1>14. CASE /\ w.hit = "none" /\ pos' = w.pos /\ cooling' = bar + FireCooldown
            /\ UNCHANGED <<closes, done>>
  <2>1. cooling' \in Int /\ bar <= cooling' /\ bar - 1 <= cooling' - 1
    <3>1. cooling' = bar + FireCooldown /\ FireCooldown \in Nat
      BY <1>14 DEF Replay!BacktestAssumption
    <3> QED BY <1>2, <3>1
  <2>2. ReplayTyped' /\ ClosesOK'
    BY <1>1, <1>2, <1>14, <2>1, TypedStays DEF ReplayInv, ClosesOK
  <2>3. DoneOK'
    <3>1. ASSUME done # NoTrade
          PROVE  done.exited <= IF mode = "ticks" THEN Turn(cooling') ELSE Turn(cooling' - 1)
      <4>1. /\ done.exited \in Int
            /\ done.exited <= IF mode = "ticks" THEN Turn(bar) ELSE Turn(bar - 1)
        BY <1>1, <3>1, DoneBefore
      <4>2. /\ Turn(bar) <= Turn(cooling') /\ Turn(bar - 1) <= Turn(cooling' - 1)
            /\ {Turn(bar), Turn(bar - 1), Turn(cooling'), Turn(cooling' - 1)} \subseteq Int
        <5>1. bar \in Int /\ bar - 1 \in Int
          BY <1>2
        <5>2. cooling' - 1 \in Int
          BY <2>1
        <5> QED BY <2>1, <5>1, <5>2, Turns
      <4> QED BY <4>1, <4>2
    <3> QED BY <1>1, <1>14, <3>1 DEF ReplayInv, DoneOK, Rests
  <2>4. HeldOK'
    <3>1. FacedTo' = (IF mode = "ticks" THEN Turn(bar + 1) ELSE Turn(bar))
             /\ OpenedBy' = FacedTo'
      BY <1>1 DEF FacedTo, OpenedBy, Rests
    <3>2. TrustedBy(pos', FacedTo', side', bar', candle', path')
      BY <1>1, <1>11, <1>14, <3>1, TrustedIs DEF Rests
    <3>3. at <= FacedTo'
      <4>1. CASE mode = "ticks"
        BY <1>3, <1>4, <1>7, <3>1, <4>1
      <4>2. CASE mode # "ticks"
        BY <1>2, <1>3, <1>4, <1>7, <3>1, <4>2
      <4> QED BY <4>1, <4>2
    <3>4. /\ pos' \in Held /\ pos'.at = at /\ pos'.since = bar /\ pos'.gap = gap
          /\ bar' = bar /\ gap' = gap /\ done' = done /\ bar \in 1..bar
      BY <1>1, <1>2, <1>12, <1>14 DEF Rests
    <3> QED BY <1>1, <1>7, <1>10, <3>1, <3>2, <3>3, <3>4 DEF HeldOK
  <2>5. Replay!PauseKept'
    <3>1. \A k : Replay!RunOfLosses(k)' = Replay!RunOfLosses(k)
      BY <1>14 DEF Replay!RunOfLosses, Replay!Precedes
    <3>2. ASSUME NEW k \in DOMAIN closes',
                 closes'[k].at < pos'.since, pos'.since < closes'[k].at + Lock,
                 Replay!RunOfLosses(k)' > 0, Replay!RunOfLosses(k)' % Limit = 0
          PROVE  FALSE
      <4>1. k \in DOMAIN closes /\ closes[k].at < bar /\ bar < closes[k].at + Lock /\ Full(k)
        BY <1>12, <1>14, <3>1, <3>2 DEF Full
      <4>2. bar \in Int /\ Lock \in Int /\ closes[k].at \in Int
        BY <1>2, <4>1, Ordered DEF Replay!BacktestAssumption
      <4>3. closes[k].at + Lock <= bar
        BY <1>1, <1>2, <4>1, <4>2, PausesLast
      <4> QED BY <4>1, <4>2, <4>3
    <3> QED BY <3>2 DEF Replay!PauseKept
  <2> QED BY <2>2, <2>3, <2>4, <2>5 DEF ReplayInv
<1> QED BY <1>5, <1>13, <1>14

LEMMA ReplaySteps ==
    ASSUME Replay!BacktestAssumption, ReplayInv, SlotsOK,
              [Replay!Next]_Replay!vars PROVE ReplayInv' /\ SlotsOK'
<1>10. SlotsOK'
  BY SlotsStay DEF ReplayInv, ReplayTyped
<1> SUFFICES ReplayInv'
  BY <1>10
<1>1. CASE Replay!ManageTicks
  BY <1>1, ManageTicksOK
<1>2. CASE Replay!ManageBar
  BY <1>2, ManageBarOK
<1>3. CASE Replay!NothingToManage
  BY <1>3, NothingToManageOK
<1>4. CASE Replay!Review
  BY <1>4, ReviewOK
<1>5. CASE Replay!NoSignal
  BY <1>5, NoSignalOK
<1>6. CASE Replay!Enter
  BY <1>6, EnterOK
<1>7. CASE Replay!NextRow
  BY <1>7, NextRowOK
<1>8. CASE Replay!NextSymbol
  BY <1>8, NextSymbolOK
<1>9. CASE UNCHANGED Replay!vars
  BY <1>9, ReplayRestsOK
<1> QED BY <1>1, <1>2, <1>3, <1>4, <1>5, <1>6, <1>7, <1>8, <1>9 DEF Replay!Next

\* No trailing stop of the backtest is placed by a price the position was not
\* held at, its trades follow each other in time, and it opens none within the
\* pause after a full streak of stop losses, whatever the profile's settings.
THEOREM ReplaySoundAlways == ASSUME Replay!BacktestAssumption PROVE EverySpec => []ReplaySound
<1> DEFINE IInv == part = "replay" => ReplayInv /\ SlotsOK
<1>1. EveryInit => IInv
  BY ReplayStarts DEF EveryInit, SlotsOK
<1>2. IInv /\ [EveryNext]_allVars => IInv'
  BY PartsApart, ReplaySteps
<1>3. IInv => ReplaySound
  BY ReplayJudged DEF ReplaySound
<1> QED
  BY <1>1, <1>2, <1>3, PTL DEF EverySpec
=============================================================================
