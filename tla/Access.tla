-------------------------------- MODULE Access --------------------------------
(***************************************************************************)
(* The sessions of the dashboard: the users and the trading profiles they  *)
(* may see, kept in the database and edited by administrators, and the two *)
(* tokens a browser holds.  The access token carries the role and the      *)
(* profiles as they were when it was made, and a request is judged by the  *)
(* token alone; the refresh token carries only the user, and the user is   *)
(* read again when it is exchanged.  The handlers never await, so each is  *)
(* one step; a handler that fails after a commit leaves what it committed. *)
(* Passwords are left out: a login is the attempt of somebody who knows    *)
(* the password.                                                           *)
(***************************************************************************)
EXTENDS Naturals

CONSTANTS
    Nothing,       \* no token, no user
    Users,         \* user names that may be taken
    Founder,       \* the administrator of the first start
    Profiles,      \* trading profiles
    AccessTtl,     \* JWT_ACCESS_EXPIRE_MIN
    RefreshTtl,    \* JWT_REFRESH_EXPIRE_HR
    MaxNow,        \* bound: the last moment
    MaxEdits       \* bound: edits of the users

AccessAssumption ==
    /\ Founder \in Users /\ AccessTtl \in Nat /\ RefreshTtl \in Nat
    /\ Nothing \notin [role : {"admin", "viewer"}, active : BOOLEAN]

VARIABLES
    users,         \* app_user: the role and whether active, or Nothing
    mappings,      \* app_user_mappings: "none", "on" or "off"
    browser,       \* the two cookies of each user's browser
    now,           \* the clock
    edits,         \* number of edits used up
    held           \* history: when each user last could see each profile

vars == <<users, mappings, browser, now, edits, held>>

Roles == {"admin", "viewer"}
Account(role) == [role |-> role, active |-> TRUE]
MappingRows == {"none", "on", "off"}
NoCookies == [access |-> Nothing, refresh |-> Nothing]

\* get_user_profiles
get_user_profiles(u) == {p \in Profiles : mappings[u][p] = "on"}

Active(u) == users[u] # Nothing /\ users[u].active

\* What the database lets a user see; nothing when the account is off.
Seen(us, ms) ==
    [u \in Users |-> IF us[u] # Nothing /\ us[u].active
                     THEN {p \in Profiles : ms[u][p] = "on"} ELSE {}]

Init ==
    /\ users = [u \in Users |-> IF u = Founder THEN Account("admin") ELSE Nothing]
    /\ mappings = [u \in Users |-> [p \in Profiles |-> IF u = Founder THEN "on" ELSE "none"]]
    /\ browser = [u \in Users |-> NoCookies]
    /\ now = 0
    /\ edits = 0
    /\ held = [u \in Users |-> [p \in Profiles |-> 0]]

-----------------------------------------------------------------------------
\* _verify_jwt: an expired token is refused.
Live(token) == token # Nothing /\ token.exp >= now

MakeAccess(u) ==
    [role |-> users[u].role, profiles |-> get_user_profiles(u), exp |-> now + AccessTtl]

\* authenticate_user: an account that is off is told the same as a wrong password.
authenticate_user(u) == Active(u)

\* login
Login(u) ==
    /\ authenticate_user(u)
    /\ browser' = [browser EXCEPT ![u] = [access |-> MakeAccess(u),
                                          refresh |-> [exp |-> now + RefreshTtl]]]
    /\ UNCHANGED <<users, mappings, now, edits, held>>

\* refresh_token: the user and the profiles are read again.
MayRefreshForever(u) == Live(browser[u].refresh)  \* mutant: the account is not looked at
MayRefresh(u) == Live(browser[u].refresh) /\ Active(u)

RefreshToken(u) ==
    /\ MayRefresh(u)
    /\ browser' = [browser EXCEPT ![u].access = MakeAccess(u)]
    /\ UNCHANGED <<users, mappings, now, edits, held>>

Logout(u) ==
    /\ browser' = [browser EXCEPT ![u] = NoCookies]
    /\ UNCHANGED <<users, mappings, now, edits, held>>

-----------------------------------------------------------------------------
\* get_dashboard_user and require_admin: the token decides, not the database.
IsAdmin(u) == Live(browser[u].access) /\ browser[u].access.role = "admin"

\* require_profile_access
Admitted(u, p) ==
    /\ Live(browser[u].access)
    /\ p \in browser[u].access.profiles \/ browser[u].access.role = "admin"

\* The clock of held follows every edit: what was in force until now.
Edit ==
    /\ edits < MaxEdits
    /\ edits' = edits + 1
    /\ held' = [u \in Users |-> [p \in Profiles |->
                   IF p \in Seen(users, mappings)[u] \/ p \in Seen(users', mappings')[u]
                   THEN now ELSE held[u][p]]]
    /\ UNCHANGED <<browser, now>>

\* assign_profile: one row per user and profile, switched on again when it is off.
Assigned(row, ps) == [p \in Profiles |-> IF p \in ps THEN "on" ELSE row[p]]

\* create_dashboard_user: the user is committed before the profiles, and each
\* profile by itself; done are those committed when a failure stops the handler.
CreateUser(by, u, role, ps) ==
    /\ IsAdmin(by) /\ users[u] = Nothing
    /\ users' = [users EXCEPT ![u] = Account(role)]
    /\ \E done \in SUBSET ps : mappings' = [mappings EXCEPT ![u] = Assigned(@, done)]
    /\ Edit

\* set_user_profiles: those listed are switched on, every other one off.
Replaced(row, ps) ==
    [p \in Profiles |-> IF p \in ps THEN "on" ELSE IF row[p] = "none" THEN "none" ELSE "off"]

UpdateProfiles(by, u, ps) ==
    /\ IsAdmin(by) /\ users[u] # Nothing
    /\ mappings' = [mappings EXCEPT ![u] = Replaced(@, ps)]
    /\ UNCHANGED users
    /\ Edit

\* deactivate_dashboard_user: nobody deactivates their own account.
DeactivateUser(by, u) ==
    /\ IsAdmin(by) /\ by # u /\ users[u] # Nothing
    /\ users' = [users EXCEPT ![u].active = FALSE]
    /\ UNCHANGED mappings
    /\ Edit

\* The functions no endpoint calls, used from a shell on the server.
ReactivateUser(u) ==
    /\ users[u] # Nothing
    /\ users' = [users EXCEPT ![u].active = TRUE]
    /\ UNCHANGED mappings
    /\ Edit

AssignProfile(u, p) ==
    /\ users[u] # Nothing
    /\ mappings' = [mappings EXCEPT ![u] = Assigned(@, {p})]
    /\ UNCHANGED users
    /\ Edit

RemoveProfile(u, p) ==
    /\ mappings[u][p] # "none"
    /\ mappings' = [mappings EXCEPT ![u][p] = "off"]
    /\ UNCHANGED users
    /\ Edit

\* A moment passes; the browser drops a cookie when its max_age is over.
Tick ==
    /\ now < MaxNow
    /\ now' = now + 1
    /\ held' = [u \in Users |-> [p \in Profiles |->
                   IF p \in Seen(users, mappings)[u] THEN now' ELSE held[u][p]]]
    /\ browser' = [u \in Users |->
           [access |-> IF browser[u].access # Nothing /\ browser[u].access.exp >= now'
                       THEN browser[u].access ELSE Nothing,
            refresh |-> IF browser[u].refresh # Nothing /\ browser[u].refresh.exp >= now'
                        THEN browser[u].refresh ELSE Nothing]]
    /\ UNCHANGED <<users, mappings, edits>>

Next ==
    \/ \E u \in Users : Login(u) \/ RefreshToken(u) \/ Logout(u) \/ ReactivateUser(u)
    \/ \E by, u \in Users, role \in Roles, ps \in SUBSET Profiles : CreateUser(by, u, role, ps)
    \/ \E by, u \in Users, ps \in SUBSET Profiles : UpdateProfiles(by, u, ps)
    \/ \E by, u \in Users : DeactivateUser(by, u)
    \/ \E u \in Users, p \in Profiles : AssignProfile(u, p) \/ RemoveProfile(u, p)
    \/ Tick

Spec == Init /\ [][Next]_vars

-----------------------------------------------------------------------------
\* The tables and the cookies have their form.
TypeOK ==
    /\ users \in [Users -> [role : Roles, active : BOOLEAN] \cup {Nothing}]
    /\ mappings \in [Users -> [Profiles -> MappingRows]]
    /\ browser \in [Users ->
           [access : [role : Roles, profiles : SUBSET Profiles, exp : 0..(MaxNow + AccessTtl)]
                       \cup {Nothing},
            refresh : [exp : 0..(MaxNow + RefreshTtl)] \cup {Nothing}]]
    /\ now \in 0..MaxNow /\ edits \in 0..MaxEdits
    /\ held \in [Users -> [Profiles -> 0..MaxNow]]

\* A profile taken from a user, or all of them when the account is switched
\* off, is gone from the user's requests one life of an access token later,
\* however often the browser refreshes its session: no viewer is admitted to a
\* profile the database has not let that user see for longer than that.
AccessEnds ==
    \A u \in Users, p \in Profiles :
        Admitted(u, p) /\ users[u].role = "viewer" => held[u][p] + AccessTtl >= now

\* "Cannot deactivate yourself": there is an administrator who can log in.
AdminRemains == \E u \in Users : Active(u) /\ users[u].role = "admin"
=============================================================================
