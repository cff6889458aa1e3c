------------------------------ MODULE Access ------------------------------
(***************************************************************************)
(* Who may use the dashboard: Google logins (api/auth.py, user_service),   *)
(* the admin check with its role cache (api/_helpers.py) and the admin's   *)
(* deactivation of a user (api/admin.py).  Requests interleave at every    *)
(* await: before and after a database query.                               *)
(***************************************************************************)
EXTENDS Integers, FiniteSets

CONSTANTS
    Person,      \* Google identities
    AdminEmail,  \* those whose address is in ADMIN_EMAILS
    Invited,     \* those the registration policy lets in besides
    Request,     \* requests that may be under way at the same time
    NoAccount,
    NoEntry,
    RoleTtl,     \* _ROLE_TTL_SECONDS: 60 in the code
    LastTime     \* bound on the time looked at

ASSUME AccessAssumption ==
    /\ Person # {} /\ AdminEmail \subseteq Person /\ Invited \subseteq Person
    /\ RoleTtl \in Nat \ {0} /\ LastTime \in Nat
    /\ NoAccount \notin [role : {"admin", "user"}, active : BOOLEAN]
    /\ NoEntry \notin [role : {"admin", "user", "guest"}, expires : Int]

VARIABLES
    time,     \* time.monotonic(), in seconds
    account,   \* account[p]: the row of users with p's google_sub and email
    cookie,    \* those whose browser holds a session
    cache,     \* cache[p]: _ROLE_CACHE[user_id], with its expiry
    request,   \* request[r]: a handler between two awaits
    lastAdmin  \* lastAdmin[p]: the last time p was an active admin, or -RoleTtl

accessVars == <<time, account, cookie, cache, request, lastAdmin>>

Row     == [role : {"admin", "user"}, active : BOOLEAN]
Entry   == [role : {"admin", "user", "guest"}, expires : Int]
Account == Row \cup {NoAccount}

\* A handler: who called it, when it looked at the clock, what it read, and
\* whom it works on.
RequestState ==
    [pc : {"idle", "login", "miss", "read", "admin", "delete"}, who : Person, target : Person,
     start : Int, seen : Account]

NoRequest == [pc |-> "idle", who |-> CHOOSE p \in Person : TRUE, start |-> 0,
         target |-> CHOOSE p \in Person : TRUE, seen |-> NoAccount]

AccessInit ==
    /\ time = 0
    /\ account = [p \in Person |-> NoAccount]
    /\ cookie = {}
    /\ cache = [p \in Person |-> NoEntry]
    /\ request = [r \in Request |-> NoRequest]
    /\ lastAdmin = [p \in Person |-> - RoleTtl]

HasAccount(row)   == row # NoAccount
Active(row)  == HasAccount(row) /\ row.active
IsAdmin(row) == Active(row) /\ row.role = "admin"

At(r, pc)        == request[r].pc = pc
Becomes(r, st)   == request' = [request EXCEPT ![r] = st]
Finish(r)        == Becomes(r, NoRequest)

-----------------------------------------------------------------------------
(* Login.                                                                  *)

\* google_callback finds the row by google_sub or email.
LoginRead(r, p) ==
    /\ At(r, "idle")
    /\ Becomes(r, [NoRequest EXCEPT !.pc = "login", !.who = p, !.seen = account[p]])
    /\ UNCHANGED <<time, account, cookie, cache, lastAdmin>>

\* UserAccessDenied: the account is inactive or registration is closed.
Denied(p, row) == IF HasAccount(row) THEN ~row.active ELSE p \notin AdminEmail \cup Invited

LoginDenied(r) ==
    LET p == request[r].who IN
    /\ At(r, "login") /\ Denied(p, request[r].seen)
    /\ cookie' = cookie \ {p}
    /\ Finish(r)
    /\ UNCHANGED <<time, account, cache, lastAdmin>>

NewRow(p) == [role |-> IF p \in AdminEmail THEN "admin" ELSE "user", active |-> TRUE]

\* Mutant of LoginWrites: the whole row is written back.
LoginWritesRow(p, seen) == IF HasAccount(seen) THEN seen ELSE NewRow(p)

\* A new row, or name and picture of the known one: nothing modelled here.
LoginWrites(p, seen) == IF HasAccount(seen) THEN account[p] ELSE NewRow(p)

\* The insert or update is committed and the session cookie set.  If another
\* login inserted the same identity the unique index fails this one.
LoginCommit(r) ==
    LET p == request[r].who  seen == request[r].seen IN
    /\ At(r, "login") /\ ~Denied(p, seen)
    /\ Finish(r)
    /\ IF ~HasAccount(seen) /\ HasAccount(account[p])
         THEN UNCHANGED <<account, cookie>>
         ELSE /\ account' = [account EXCEPT ![p] = LoginWrites(p, seen)]
              /\ cookie' = cookie \cup {p}
    /\ UNCHANGED <<time, cache, lastAdmin>>

Logout(p) ==
    /\ p \in cookie
    /\ cookie' = cookie \ {p}
    /\ UNCHANGED <<time, account, cache, request, lastAdmin>>

\* get_session_user: a cookie of a deactivated account is cleared.
UserRequest(p) ==
    /\ p \in cookie
    /\ IF Active(account[p])
         THEN UNCHANGED <<cookie, cache>>
         ELSE cookie' = cookie \ {p} /\ cache' = [cache EXCEPT ![p] = NoEntry]
    /\ UNCHANGED <<time, account, request, lastAdmin>>

-----------------------------------------------------------------------------
(* Admin requests.                                                         *)

Fresh(p) == cache[p] # NoEntry /\ cache[p].expires > time

\* require_admin_async: a role that is cached decides at once.
AdminCheck(r, p) ==
    /\ At(r, "idle") /\ p \in cookie
    /\ \/ /\ Fresh(p) /\ cache[p].role = "admin"
          /\ Becomes(r, [NoRequest EXCEPT !.pc = "admin", !.who = p, !.start = time])
       \/ /\ Fresh(p) /\ cache[p].role # "admin"
          /\ UNCHANGED request
       \/ /\ ~Fresh(p)
          /\ Becomes(r, [NoRequest EXCEPT !.pc = "miss", !.who = p, !.start = time])
    /\ UNCHANGED <<time, account, cookie, cache, lastAdmin>>

RoleRead(r) ==
    /\ At(r, "miss")
    /\ Becomes(r, [request[r] EXCEPT !.pc = "read", !.seen = account[request[r].who]])
    /\ UNCHANGED <<time, account, cookie, cache, lastAdmin>>

Role(row) == IF Active(row) THEN row.role ELSE "guest"

\* Mutant of RoleExpiry: the time to live starts when the answer is stored.
ExpiryFromNow(r) == time + RoleTtl

\* It starts before the query.
RoleExpiry(r) == request[r].start + RoleTtl

RoleStore(r) ==
    LET p == request[r].who  role == Role(request[r].seen) IN
    /\ At(r, "read")
    /\ cache' = [cache EXCEPT ![p] = [role |-> role, expires |-> RoleExpiry(r)]]
    /\ IF role = "admin"
         THEN Becomes(r, [request[r] EXCEPT !.pc = "admin", !.seen = NoAccount])
         ELSE Finish(r)
    /\ UNCHANGED <<time, account, cookie, lastAdmin>>

\* admin_delete_user loads the target; other admin endpoints only read.
DeleteRead(r, p) ==
    /\ At(r, "admin")
    /\ IF p = request[r].who \/ ~HasAccount(account[p]) \/ account[p].role = "admin"
         THEN Finish(r)
         ELSE Becomes(r, [NoRequest EXCEPT !.pc = "delete", !.target = p])
    /\ UNCHANGED <<time, account, cookie, cache, lastAdmin>>

DeleteCommit(r) ==
    LET p == request[r].target IN
    /\ At(r, "delete")
    /\ account' = [account EXCEPT ![p].active = FALSE]
    /\ cache' = [cache EXCEPT ![p] = NoEntry]
    /\ Finish(r)
    /\ UNCHANGED <<time, cookie, lastAdmin>>

-----------------------------------------------------------------------------
(* The role is taken away in the database, which no code of the program    *)
(* does, and the process restarts: a login survives it, the cache does not.*)

Demote(p) ==
    /\ IsAdmin(account[p])
    /\ account' = [account EXCEPT ![p].role = "user"]
    /\ lastAdmin' = [lastAdmin EXCEPT ![p] = time]
    /\ UNCHANGED <<time, cookie, cache, request>>

RestartServer ==
    /\ cache' = [p \in Person |-> NoEntry]
    /\ request' = [r \in Request |-> NoRequest]
    /\ UNCHANGED <<time, account, cookie, lastAdmin>>

AccessTick ==
    /\ time < LastTime
    /\ time' = time + 1
    /\ UNCHANGED <<account, cookie, cache, request, lastAdmin>>

AccessNext ==
    \/ \E r \in Request : LoginDenied(r) \/ LoginCommit(r) \/ RoleRead(r) \/ RoleStore(r)
                          \/ DeleteCommit(r)
    \/ \E r \in Request, p \in Person : LoginRead(r, p) \/ AdminCheck(r, p) \/ DeleteRead(r, p)
    \/ \E p \in Person : Logout(p) \/ UserRequest(p) \/ Demote(p)
    \/ RestartServer \/ AccessTick

AccessSpec == AccessInit /\ [][AccessNext]_accessVars

-----------------------------------------------------------------------------
(* Properties.                                                             *)

AccessTypeOK ==
    /\ time \in 0 .. LastTime
    /\ account \in [Person -> Account]
    /\ cookie \subseteq Person
    /\ cache \in [Person -> Entry \cup {NoEntry}]
    /\ request \in [Request -> RequestState]
    /\ lastAdmin \in [Person -> Int]

\* An admin request is granted only to somebody who is an active admin or was
\* one less than RoleTtl before the request began, although roles are read
\* and cached while they change (require_admin_async, _resolve_role_from_db).
RevokedWithinTtl ==
    \A r \in Request : At(r, "admin") =>
        \/ IsAdmin(account[request[r].who])
        \/ request[r].start < lastAdmin[request[r].who] + RoleTtl

\* A deactivated account stays deactivated: no login that read the row before
\* the admin's commit brings it back (get_or_create_google_user).
DeactivationLasts ==
    [][\A p \in Person : HasAccount(account[p]) /\ ~account[p].active =>
           HasAccount(account'[p]) /\ ~account'[p].active]_accessVars
=============================================================================
