------------------------------ MODULE Accounts ------------------------------
(***************************************************************************)
(* User accounts and sessions: app/auth.py, app/api/auth.py, the session   *)
(* middleware (app/middleware.py) and the account handlers of              *)
(* app/web/routes.py.                                                      *)
(*                                                                         *)
(* One process serves all requests; they interleave at every await, so a   *)
(* handler works on the user document the middleware read for it, and an   *)
(* update of the users and the deletion of their sessions are two steps.   *)
(* A session's id stands for its token: neither is ever used again.        *)
(***************************************************************************)
EXTENDS Integers, FiniteSets

CONSTANTS
    Users,        \* _ids of user documents
    NameOf,       \* the username each document is inserted with
    Passwords,    \* passwords that satisfy the length checks
    Sessions,
    Clients,      \* concurrent requests: each has at most one under way
    Nobody, NoSession, NoPassword,
    MaxRestarts   \* bound: restarts of the application

ASSUME AccountsAssumption ==
    /\ DOMAIN NameOf = Users
    /\ Nobody \notin Users /\ NoSession \notin Sessions /\ NoPassword \notin Passwords
    /\ Clients \cap Sessions = {}
    /\ IsFiniteSet(Users)
    /\ MaxRestarts \in Nat

VARIABLES
    \* db.users
    users,      \* _ids present
    born,       \* _ids ever inserted
    password,   \* what password_hash is the hash of
    \* db.sessions
    sessions,   \* those stored
    owner,      \* user_id
    expired,    \* sessions whose expires_at has passed
    \* the application
    serving,    \* lifespan has reached its yield
    seeding,    \* seed_admin has found no user and not yet inserted one
    \* requests
    pc,
    cookie,     \* the session cookie of the client's request
    actor,      \* request.state.user["_id"], or the user authenticate found
    known,      \* the password that user's copy holds
    victim,     \* the user whose sessions the request has to destroy
    \* history
    made,       \* the password each session was made with
    raced,      \* logins, and the sessions they made, that a change overtook
    severed,    \* users updated or deleted by a request that then died
    crossed,    \* two deletions were past their check at the same time
    restarts

accounts == <<users, born, password>>
store    == <<sessions, owner, expired>>
app      == <<serving, seeding>>
request  == <<pc, cookie, actor, known, victim>>
history  == <<made, raced, severed, crossed, restarts>>
vars     == <<accounts, store, app, request, history>>

(* The handlers that change something; a request waits at its handler.     *)
Pages == {"change", "create", "delete", "logout"}
At    == {"idle", "login", "user", "purge", "remove", "revoke"} \cup Pages

TypeOK ==
    /\ users \subseteq born /\ born \subseteq Users
    /\ password \in [Users -> Passwords \cup {NoPassword}]
    /\ \A u \in users : password[u] # NoPassword
    /\ sessions \subseteq Sessions
    /\ owner \in [Sessions -> Users \cup {Nobody}]
    /\ expired \subseteq Sessions
    /\ serving \in BOOLEAN /\ seeding \in BOOLEAN
    /\ pc \in [Clients -> At]
    /\ cookie \in [Clients -> Sessions \cup {NoSession}]
    /\ actor \in [Clients -> Users \cup {Nobody}]
    /\ known \in [Clients -> Passwords \cup {NoPassword}]
    /\ victim \in [Clients -> Users \cup {Nobody}]
    /\ made \in [Sessions -> Passwords \cup {NoPassword}]
    /\ raced \subseteq Clients \cup Sessions
    /\ severed \subseteq Users
    /\ crossed \in BOOLEAN
    /\ restarts \in 0..MaxRestarts

Init ==
    /\ users = {} /\ born = {}
    /\ password = [u \in Users |-> NoPassword]
    /\ sessions = {} /\ expired = {}
    /\ owner = [s \in Sessions |-> Nobody]
    /\ serving = FALSE /\ seeding = FALSE
    /\ pc = [c \in Clients |-> "idle"]
    /\ cookie = [c \in Clients |-> NoSession]
    /\ actor = [c \in Clients |-> Nobody]
    /\ known = [c \in Clients |-> NoPassword]
    /\ victim = [c \in Clients |-> Nobody]
    /\ made = [s \in Sessions |-> NoPassword]
    /\ raced = {} /\ severed = {} /\ crossed = FALSE
    /\ restarts = 0

-----------------------------------------------------------------------------
(* Startup: auth.seed_admin, called from main.lifespan before the yield.   *)

(* seed_admin: count_documents *)
SeedCheck ==
    /\ ~serving /\ ~seeding
    /\ IF users = {} THEN seeding' = TRUE /\ serving' = FALSE
                     ELSE serving' = TRUE /\ seeding' = FALSE
    /\ UNCHANGED <<accounts, store, request, history>>

Insert(u, p) ==
    /\ u \notin born
    /\ users' = users \cup {u}
    /\ born' = born \cup {u}
    /\ password' = [password EXCEPT ![u] = p]

(* Mutant: without ADMIN_PASSWORD the account is left without a password. *)
SeedPasswordBlank == {NoPassword}

(* ADMIN_PASSWORD, or a generated one. *)
SeedPassword == Passwords

(* seed_admin: insert_one *)
SeedInsert ==
    /\ seeding
    /\ \E u \in Users, p \in SeedPassword : Insert(u, p)
    /\ serving' = TRUE /\ seeding' = FALSE
    /\ UNCHANGED <<store, request, history>>

-----------------------------------------------------------------------------
(* The documents of the sessions in S are removed. *)
Drop(S) ==
    /\ sessions' = sessions \ S
    /\ expired' = expired \ S
    /\ made' = [s \in Sessions |-> IF s \in S THEN NoPassword ELSE made[s]]
    /\ raced' = raced \ S

(* A request ends. *)
End(c) ==
    /\ pc' = [pc EXCEPT ![c] = "idle"]
    /\ cookie' = [cookie EXCEPT ![c] = NoSession]
    /\ actor' = [actor EXCEPT ![c] = Nobody]
    /\ known' = [known EXCEPT ![c] = NoPassword]
    /\ victim' = [victim EXCEPT ![c] = Nobody]

Arrives(c) == serving /\ pc[c] = "idle"

(* login, authenticate: the user is found by name and the password is      *)
(* right for the copy; any other login changes nothing.                    *)
Authenticate(c) ==
    /\ Arrives(c)
    /\ \E u \in users :
         /\ actor' = [actor EXCEPT ![c] = u]
         /\ known' = [known EXCEPT ![c] = password[u]]
    /\ pc' = [pc EXCEPT ![c] = "login"]
    /\ UNCHANGED <<accounts, store, app, cookie, victim, history>>

(* create_session: a new token for whatever user authenticate has returned. *)
CreateSession(c) ==
    /\ pc[c] = "login"
    /\ \E s \in Sessions :
         /\ owner[s] = Nobody
         /\ owner' = [owner EXCEPT ![s] = actor[c]]
         /\ sessions' = sessions \cup {s}
         /\ made' = [made EXCEPT ![s] = known[c]]
         /\ raced' = IF c \in raced THEN (raced \ {c}) \cup {s} ELSE raced
    /\ End(c)
    /\ UNCHANGED <<accounts, expired, app, severed, crossed, restarts>>

(* resolve_session: find_one by the token of any cookie ever issued; an    *)
(* unknown one is refused and changes nothing.                             *)
FindSession(c) ==
    /\ Arrives(c)
    /\ \E s \in sessions :
         /\ cookie' = [cookie EXCEPT ![c] = s]
         /\ pc' = [pc EXCEPT ![c] = IF s \in expired THEN "purge" ELSE "user"]
    /\ UNCHANGED <<accounts, store, app, actor, known, victim, history>>

(* resolve_session: delete_one of an expired session. *)
Purge(c) ==
    /\ pc[c] = "purge"
    /\ Drop({cookie[c]})
    /\ End(c)
    /\ UNCHANGED <<accounts, owner, app, severed, crossed, restarts>>

(* resolve_session: the session's user, for a request to one of the pages  *)
(* whose CSRF header belongs to the session.                               *)
FindUser(c) ==
    LET u == owner[cookie[c]]
    IN  /\ pc[c] = "user" /\ u \in users
        /\ actor' = [actor EXCEPT ![c] = u]
        /\ known' = [known EXCEPT ![c] = password[u]]
        /\ \E page \in Pages : pc' = [pc EXCEPT ![c] = page]
        /\ UNCHANGED <<accounts, store, app, cookie, victim, history>>

(* Any refusal: the user is gone, the CSRF header is missing, a form does  *)
(* not validate, the current password is wrong, a username is taken, an    *)
(* account is the caller's own or the last; or a page that only reads.     *)
Refuse(c) ==
    /\ pc[c] \in Pages \cup {"user"}
    /\ End(c)
    /\ UNCHANGED <<accounts, store, app, history>>

(* Logins of u that have passed authenticate are overtaken. *)
Overtaken(u) == {c \in Clients : pc[c] = "login" /\ actor[c] = u}

(* change_password: the current password is right for the copy the         *)
(* middleware has read; update_one finds the document, or finds nothing.   *)
ChangePassword(c) ==
    LET u == actor[c]
    IN  /\ pc[c] = "change"
        /\ \E new \in Passwords :
             password' = IF u \in users THEN [password EXCEPT ![u] = new] ELSE password
        /\ raced' = raced \cup Overtaken(u)
        /\ victim' = [victim EXCEPT ![c] = u]
        /\ pc' = [pc EXCEPT ![c] = "revoke"]
        /\ UNCHANGED <<users, born, store, app, cookie, actor, known, made, severed,
                       crossed, restarts>>

(* Mutant: only the session in use is destroyed. *)
RevokedCurrent(c) == {cookie[c]}

(* destroy_user_sessions: delete_many by user_id *)
Revoked(c) == {s \in sessions : owner[s] = victim[c]}

(* change_password, delete_user: the second half. *)
Revoke(c) ==
    /\ pc[c] = "revoke"
    /\ Drop(Revoked(c))
    /\ severed' = severed \ {victim[c]}
    /\ End(c)
    /\ UNCHANGED <<accounts, owner, app, crossed, restarts>>

(* create_user: insert_one, unless the username is taken. *)
CreateUser(c) ==
    /\ pc[c] = "create"
    /\ \E u \in Users, p \in Passwords :
         /\ \A v \in users : NameOf[v] # NameOf[u]
         /\ Insert(u, p)
    /\ End(c)
    /\ UNCHANGED <<store, app, history>>

(* Mutant: off by one. *)
OthersRemainLong == Cardinality(users) >= 1

(* delete_user: count_documents *)
OthersRemain == Cardinality(users) > 1

(* delete_user: the two checks, for any id but the caller's own. *)
CheckDelete(c) ==
    /\ pc[c] = "delete"
    /\ OthersRemain
    /\ \E v \in born \ {actor[c]} : victim' = [victim EXCEPT ![c] = v]
    /\ pc' = [pc EXCEPT ![c] = "remove"]
    /\ crossed' = (crossed \/ \E d \in Clients : pc[d] = "remove")
    /\ UNCHANGED <<accounts, store, app, cookie, actor, known, made, raced, severed,
                   restarts>>

(* delete_user: delete_one *)
Remove(c) ==
    /\ pc[c] = "remove"
    /\ users' = users \ {victim[c]}
    /\ raced' = raced \cup Overtaken(victim[c])
    /\ pc' = [pc EXCEPT ![c] = "revoke"]
    /\ UNCHANGED <<born, password, store, app, cookie, actor, known, victim, made,
                   severed, crossed, restarts>>

(* logout, logout_submit: destroy_session *)
Logout(c) ==
    /\ pc[c] = "logout"
    /\ Drop({cookie[c]})
    /\ End(c)
    /\ UNCHANGED <<accounts, owner, app, severed, crossed, restarts>>

-----------------------------------------------------------------------------
(* Seven days have passed. *)
Lapse(s) ==
    /\ s \in sessions \ expired
    /\ expired' = expired \cup {s}
    /\ UNCHANGED <<accounts, sessions, owner, app, request, history>>

(* The TTL monitor (external). *)
Sweep(s) ==
    /\ s \in sessions \cap expired
    /\ Drop({s})
    /\ UNCHANGED <<accounts, owner, app, request, severed, crossed, restarts>>

(* The process dies and starts again; the requests under way are lost. *)
Restart ==
    /\ restarts < MaxRestarts
    /\ restarts' = restarts + 1
    /\ serving' = FALSE /\ seeding' = FALSE
    /\ severed' = severed \cup {victim[c] : c \in {d \in Clients : pc[d] = "revoke"}}
    /\ raced' = raced \ Clients
    /\ crossed' = FALSE
    /\ pc' = [c \in Clients |-> "idle"]
    /\ cookie' = [c \in Clients |-> NoSession]
    /\ actor' = [c \in Clients |-> Nobody]
    /\ known' = [c \in Clients |-> NoPassword]
    /\ victim' = [c \in Clients |-> Nobody]
    /\ UNCHANGED <<accounts, store, made>>

Next ==
    \/ SeedCheck \/ SeedInsert \/ Restart
    \/ \E c \in Clients :
         \/ Authenticate(c) \/ CreateSession(c)
         \/ FindSession(c) \/ Purge(c) \/ FindUser(c) \/ Refuse(c)
         \/ ChangePassword(c) \/ CreateUser(c) \/ CheckDelete(c) \/ Remove(c)
         \/ Revoke(c) \/ Logout(c)
    \/ \E s \in Sessions : Lapse(s) \/ Sweep(s)

Spec == Init /\ [][Next]_vars

-----------------------------------------------------------------------------
(* s was made with a password that is no longer its user's, or for a user  *)
(* that no longer exists.                                                  *)
Stale(s) == owner[s] \notin users \/ made[s] # password[owner[s]]

Revoking(u) == \E c \in Clients : pc[c] = "revoke" /\ victim[c] = u

(* destroy_user_sessions leaves nothing behind: a session outlives a       *)
(* password change or the deletion of its user only while that request is  *)
(* between its two steps, if it died there, or if the session was made by  *)
(* a login that had passed authenticate before the change.                 *)
StaleSessionExcused ==
    \A s \in sessions :
        Stale(s) => s \in raced \/ owner[s] \in severed \/ Revoking(owner[s])

(* delete_user cannot empty the collection and lock everybody out - not    *)
(* even when its caller has been deleted meanwhile - unless two deletions  *)
(* were past their count at the same time.                                 *)
LastUserStays == serving /\ users = {} => crossed
=============================================================================
