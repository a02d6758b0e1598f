------------------------------ MODULE Accounts ------------------------------
(* Accounts, sessions and the login throttle: routes/auth.js, lib/auth.js    *)
(* and create-admin.js.  A handler runs to its end without interruption      *)
(* except where it awaits: a login waits for its delay and for scrypt, a     *)
(* change of password waits for scrypt.  Such a request is an attempt, with  *)
(* what it had read before the await.                                        *)
(*                                                                           *)
(* Roles are told apart by what this module's handlers ask of them: "admin"  *)
(* stands for pm and sr_manager, "manager" for ops_manager.  A password is   *)
(* absent, temporary (must_change_password = 1) or the owner's own.          *)
EXTENDS Naturals, FiniteSets

CONSTANTS Accounts,     \* the rows users may have
          Root,         \* the admin the installation starts with
          Tokens,       \* session tokens
          Keys,         \* throttle keys: an address and a name typed in it
          Attempts,     \* requests that may be suspended at the same time
          MaxFails,     \* LOGIN_MAX_FAILS
          DelayAfter,   \* LOGIN_DELAY_AFTER
          MaxEpoch,     \* bound on the revocations of one account
          NoUser        \* no account

ASSUME RootAssumption == Root \in Accounts /\ NoUser \notin Accounts
ASSUME ThrottleAssumption == MaxFails \in Nat \ {0} /\ DelayAfter \in Nat
ASSUME EpochAssumption == MaxEpoch \in Nat
ASSUME AttemptsAssumption == IsFiniteSet(Attempts)

VARIABLES users,     \* the table users; an absent row has status "absent"
          sessions,  \* the table sessions, by token
          throttle,  \* _loginFails
          attempts   \* the suspended requests

vars == <<users, sessions, throttle, attempts>>

Roles == {"technician", "manager", "admin"}
Statuses == {"active", "unset", "disabled"}     \* PATCH writes '' as NULL

User == [role: Roles, status: Statuses \cup {"absent"},
         password: {"none", "temporary", "own"}, epoch: 0..MaxEpoch]
Session == [user: Accounts, epoch: 0..MaxEpoch, expired: BOOLEAN]
NoSession == [user |-> NoUser]
Fails == [fails: Nat, locked: BOOLEAN, stale: BOOLEAN]
NoFails == [fails |-> 0, locked |-> FALSE, stale |-> FALSE]
Attempt == [phase: {"delayed"}, key: Keys]
           \cup [phase: {"verifying"}, key: Keys, user: Accounts]
           \cup [phase: {"changing"}, user: Accounts]
Idle == [phase |-> "idle"]

-----------------------------------------------------------------------------
Present(u) == users[u].status # "absent"
Disabled(u) == users[u].status = "disabled"

\* getSessionUser: the row is there, its account is not disabled, and it has
\* not expired.
SignedIn(u) == \E t \in Tokens : /\ sessions[t] # NoSession
                                 /\ sessions[t].user = u
                                 /\ ~sessions[t].expired
                                 /\ ~Disabled(u)

Admin(u) == users[u].role = "admin"
SignedInAdmin(u) == SignedIn(u) /\ Admin(u)

\* Other accounts that the last-admin check counts: status must be 'active'.
OtherAdmins(u) == {v \in Accounts \ {u} : Admin(v) /\ users[v].status = "active"}

WithoutSessionsOf(u) ==
    [t \in Tokens |-> IF sessions[t] # NoSession /\ sessions[t].user = u
                      THEN NoSession ELSE sessions[t]]

-----------------------------------------------------------------------------
(* The throttle.  A record is stale once its window has passed; a lock ends  *)
(* at the earliest when the window it was set in has passed.                 *)

\* Fault: a failure after the window has passed is added to the old count.
RecordFailForever(r) ==
    LET n == r.fails + 1
    IN [fails |-> n, locked |-> r.locked \/ n >= MaxFails, stale |-> FALSE]

RecordFail(r) ==
    LET n == IF r.stale THEN 1 ELSE r.fails + 1
    IN [fails |-> n, locked |-> n >= MaxFails, stale |-> FALSE]

Slow(k) == throttle[k].fails \in DelayAfter..(MaxFails - 1)

\* Fault: a missing password is not told apart from a wrong one.
LookUpPasswordless(a, k) ==
    \E u \in Accounts :
        /\ Present(u)
        /\ attempts' = [attempts EXCEPT ![a] =
              IF Disabled(u) THEN Idle ELSE [phase |-> "verifying", key |-> k, user |-> u]]
        /\ UNCHANGED throttle

\* The SELECT of the account and the early returns that follow it.
LookUp(a, k) ==
    \/ /\ attempts' = [attempts EXCEPT ![a] = Idle]
       /\ throttle' = [throttle EXCEPT ![k] = RecordFail(@)]
    \/ \E u \in Accounts :
          /\ Present(u)
          /\ attempts' = [attempts EXCEPT ![a] =
                IF Disabled(u) \/ users[u].password = "none"
                THEN Idle ELSE [phase |-> "verifying", key |-> k, user |-> u]]
          /\ UNCHANGED throttle

Login(a, k) ==
    /\ attempts[a] = Idle
    /\ ~throttle[k].locked
    /\ IF Slow(k)
       THEN /\ attempts' = [attempts EXCEPT ![a] = [phase |-> "delayed", key |-> k]]
            /\ UNCHANGED throttle
       ELSE LookUp(a, k)
    /\ UNCHANGED <<users, sessions>>

LoginWakes(a) ==
    /\ attempts[a].phase = "delayed"
    /\ LookUp(a, attempts[a].key)
    /\ UNCHANGED <<users, sessions>>

LoginRefused(a) ==
    /\ attempts[a].phase = "verifying"
    /\ throttle' = [throttle EXCEPT ![attempts[a].key] = RecordFail(@)]
    /\ attempts' = [attempts EXCEPT ![a] = Idle]
    /\ UNCHANGED <<users, sessions>>

\* The account is not read again after scrypt.
LoginAccepted(a, t) ==
    LET u == attempts[a].user
    IN /\ attempts[a].phase = "verifying"
       /\ sessions[t] = NoSession
       /\ throttle' = [throttle EXCEPT ![attempts[a].key] = NoFails]
       /\ sessions' = [sessions EXCEPT ![t] =
                          [user |-> u, epoch |-> users[u].epoch, expired |-> FALSE]]
       /\ attempts' = [attempts EXCEPT ![a] = Idle]
       /\ UNCHANGED users

Logout(t) ==
    /\ sessions[t] # NoSession
    /\ sessions' = [sessions EXCEPT ![t] = NoSession]
    /\ UNCHANGED <<users, throttle, attempts>>

\* POST /me/password: a temporary password is replaced at once, the owner's own
\* only after the current one was verified.
ChangePassword(a, u) ==
    /\ attempts[a] = Idle
    /\ SignedIn(u)
    /\ CASE users[u].password = "temporary" ->
              /\ users' = [users EXCEPT ![u].password = "own"]
              /\ UNCHANGED attempts
         [] users[u].password = "own" ->
              /\ attempts' = [attempts EXCEPT ![a] = [phase |-> "changing", user |-> u]]
              /\ UNCHANGED users
         [] OTHER -> UNCHANGED <<users, attempts>>
    /\ UNCHANGED <<sessions, throttle>>

ChangeVerified(a, right) ==
    /\ attempts[a].phase = "changing"
    /\ users' = IF right
                THEN [users EXCEPT ![attempts[a].user].password = "own"]
                ELSE users
    /\ attempts' = [attempts EXCEPT ![a] = Idle]
    /\ UNCHANGED <<sessions, throttle>>

-----------------------------------------------------------------------------
(* Administration.                                                           *)

Insert(u, role, password) ==
    /\ users[u].status = "absent"
    /\ users' = [users EXCEPT ![u].role = role, ![u].status = "active",
                              ![u].password = password]
    /\ UNCHANGED <<sessions, throttle, attempts>>

CreateTechnician(me, u) ==
    /\ SignedIn(me) /\ users[me].role \in {"manager", "admin"}
    /\ Insert(u, "technician", "none")

CreateUser(me, u, role) ==
    /\ SignedInAdmin(me)
    /\ Insert(u, role, "temporary")

\* PATCH /admin/users/:id.  The epoch counts the times an account's sessions
\* were revoked; the code keeps no such number.
PatchUser(me, u, role, status) ==
    LET disables == status = "disabled"
        demotes == role # users[u].role /\ role # "admin"
    IN /\ SignedInAdmin(me) /\ Present(u)
       /\ disables \/ demotes => u # me
       /\ (disables \/ demotes) /\ Admin(u) => OtherAdmins(u) # {}
       /\ disables => users[u].epoch < MaxEpoch
       /\ users' = [users EXCEPT ![u].role = role, ![u].status = status,
                                 ![u].epoch = IF disables THEN @ + 1 ELSE @]
       /\ sessions' = IF disables THEN WithoutSessionsOf(u) ELSE sessions
       /\ UNCHANGED <<throttle, attempts>>

ResetPassword(me, u) ==
    /\ SignedInAdmin(me) /\ Present(u)
    /\ users[u].epoch < MaxEpoch
    /\ users' = [users EXCEPT ![u].password = "temporary", ![u].epoch = @ + 1]
    /\ sessions' = WithoutSessionsOf(u)
    /\ UNCHANGED <<throttle, attempts>>

\* Fault: the sessions of a disabled account are left in the table.
DisableUserKeepsSessions(me, u) ==
    /\ SignedInAdmin(me) /\ Present(u) /\ u # me
    /\ Admin(u) => OtherAdmins(u) # {}
    /\ users[u].epoch < MaxEpoch
    /\ users' = [users EXCEPT ![u].status = "disabled", ![u].epoch = @ + 1]
    /\ UNCHANGED <<sessions, throttle, attempts>>

DisableUser(me, u) ==
    /\ SignedInAdmin(me) /\ Present(u) /\ u # me
    /\ Admin(u) => OtherAdmins(u) # {}
    /\ users[u].epoch < MaxEpoch
    /\ users' = [users EXCEPT ![u].status = "disabled", ![u].epoch = @ + 1]
    /\ sessions' = WithoutSessionsOf(u)
    /\ UNCHANGED <<throttle, attempts>>

\* create-admin.js without WIPE, run beside the server: an existing account
\* becomes an active pm with a new password, and keeps must_change_password and
\* its sessions.
CreateAdmin(u) ==
    /\ users' = [users EXCEPT ![u].role = "admin", ![u].status = "active",
                              ![u].password = IF @ = "temporary" THEN @ ELSE "own"]
    /\ UNCHANGED <<sessions, throttle, attempts>>

\* create-admin.js with WIPE=1: every table is emptied, the sequence of ids
\* starts again, and the first row is the new admin.  Assumed to be run while
\* no login is suspended: an id read before it could name a new account.
Wipe ==
    /\ \A a \in Attempts : attempts[a] = Idle
    /\ users[Root].epoch < MaxEpoch
    /\ users' = [u \in Accounts |->
                   IF u = Root
                   THEN [role |-> "admin", status |-> "active", password |-> "own",
                         epoch |-> users[Root].epoch + 1]
                   ELSE [users[u] EXCEPT !.status = "absent"]]
    /\ sessions' = [t \in Tokens |-> NoSession]
    /\ UNCHANGED <<throttle, attempts>>

-----------------------------------------------------------------------------
(* Time and the process.                                                     *)

SessionExpires(t) ==
    /\ sessions[t] # NoSession /\ ~sessions[t].expired
    /\ sessions' = [sessions EXCEPT ![t].expired = TRUE]
    /\ UNCHANGED <<users, throttle, attempts>>

\* getSessionUser deletes the expired row it meets, unless its account is
\* disabled, which is tested first.
ExpiredTokenUsed(t) ==
    /\ sessions[t] # NoSession
    /\ sessions[t].expired /\ ~Disabled(sessions[t].user)
    /\ sessions' = [sessions EXCEPT ![t] = NoSession]
    /\ UNCHANGED <<users, throttle, attempts>>

WindowPasses(k) ==
    /\ throttle[k] # NoFails /\ ~throttle[k].stale
    /\ throttle' = [throttle EXCEPT ![k].stale = TRUE]
    /\ UNCHANGED <<users, sessions, attempts>>

LockPasses(k) ==
    /\ throttle[k].locked /\ throttle[k].stale
    /\ throttle' = [throttle EXCEPT ![k].locked = FALSE]
    /\ UNCHANGED <<users, sessions, attempts>>

\* A restart forgets the throttle and the suspended requests and purges the
\* expired sessions.
Restart ==
    /\ sessions' = [t \in Tokens |->
                      IF sessions[t] # NoSession /\ sessions[t].expired
                      THEN NoSession ELSE sessions[t]]
    /\ throttle' = [k \in Keys |-> NoFails]
    /\ attempts' = [a \in Attempts |-> Idle]
    /\ UNCHANGED users

-----------------------------------------------------------------------------
Init ==
    /\ users = [u \in Accounts |->
                  IF u = Root
                  THEN [role |-> "admin", status |-> "active", password |-> "own", epoch |-> 0]
                  ELSE [role |-> "technician", status |-> "absent", password |-> "none",
                        epoch |-> 0]]
    /\ sessions = [t \in Tokens |-> NoSession]
    /\ throttle = [k \in Keys |-> NoFails]
    /\ attempts = [a \in Attempts |-> Idle]

Next ==
    \/ \E a \in Attempts, k \in Keys : Login(a, k)
    \/ \E a \in Attempts : LoginWakes(a) \/ LoginRefused(a)
    \/ \E a \in Attempts, t \in Tokens : LoginAccepted(a, t)
    \/ \E a \in Attempts, u \in Accounts : ChangePassword(a, u)
    \/ \E a \in Attempts, right \in BOOLEAN : ChangeVerified(a, right)
    \/ \E me, u \in Accounts :
          \/ CreateTechnician(me, u)
          \/ \E role \in Roles : CreateUser(me, u, role)
          \/ \E role \in Roles, status \in Statuses : PatchUser(me, u, role, status)
          \/ ResetPassword(me, u)
          \/ DisableUser(me, u)
    \/ \E u \in Accounts : CreateAdmin(u)
    \/ Wipe
    \/ \E t \in Tokens : Logout(t) \/ SessionExpires(t) \/ ExpiredTokenUsed(t)
    \/ \E k \in Keys : WindowPasses(k) \/ LockPasses(k)
    \/ Restart

Spec == Init /\ [][Next]_vars

-----------------------------------------------------------------------------
(* The state has the shape the tables give it (schema.sql, users, sessions). *)
TypeOK ==
    /\ users \in [Accounts -> User]
    /\ sessions \in [Tokens -> Session \cup {NoSession}]
    /\ throttle \in [Keys -> Fails]
    /\ attempts \in [Attempts -> Attempt \cup {Idle}]

(* A session belongs to an account that can sign in: getSessionUser joins it *)
(* with a row that exists and has a password.                                *)
SessionsHaveOwners ==
    \A t \in Tokens : sessions[t] # NoSession =>
        Present(sessions[t].user) /\ users[sessions[t].user].password # "none"

(* Whatever admins do to each other, an admin who is not disabled and has a  *)
(* password remains: the guards of PATCH and DELETE /admin/users/:id, which  *)
(* must hold together with accounts that were promoted before they got one.  *)
AdminRemains ==
    \E u \in Accounts :
        Present(u) /\ Admin(u) /\ ~Disabled(u) /\ users[u].password # "none"

(* A session that outlives a request was opened after its account was last   *)
(* disabled or its password last reset: also when the account is enabled     *)
(* again, and whatever logins were suspended meanwhile.                      *)
RevokedStayDead ==
    \A t \in Tokens : sessions[t] # NoSession =>
        sessions[t].epoch = users[sessions[t].user].epoch

(* The wrong passwords counted against one key in one window stay below      *)
(* LOGIN_MAX_FAILS but for the requests that had passed the check of the     *)
(* lock when it was set.                                                     *)
ThrottleBound ==
    \A k \in Keys : throttle[k].fails <= MaxFails - 1 + Cardinality(Attempts)
=============================================================================
