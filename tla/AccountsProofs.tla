--------------------------- MODULE AccountsProofs ---------------------------
(***************************************************************************)
(* Proofs about Accounts, for any users, sessions and concurrent requests. *)
(***************************************************************************)
EXTENDS Accounts, FiniteSetTheorems, TLAPS

(* What a request has once it is past its first step. *)
RequestHas ==
    \A c \in Clients :
        /\ pc[c] \in {"user", "purge", "remove", "revoke"} \cup Pages
             => cookie[c] \in Sessions
        /\ pc[c] \in {"login", "remove", "revoke"} \cup Pages => actor[c] \in Users
        /\ pc[c] \in {"remove", "revoke"} => victim[c] \in Users

TypeInv == TypeOK /\ RequestHas

LEMMA TypeInvInit == Init => TypeInv
<1> SUFFICES ASSUME Init PROVE TypeInv
  OBVIOUS
<1>1. RequestHas
  BY DEF Init, RequestHas, Pages
<1>2. restarts \in 0..MaxRestarts
  BY AccountsAssumption DEF Init
<1> QED
  BY <1>1, <1>2 DEF Init, TypeInv, TypeOK, At

LEMMA DropType ==
  ASSUME TypeInv, NEW S \in SUBSET Sessions, Drop(S)
  PROVE  /\ sessions' \subseteq Sessions /\ expired' \subseteq Sessions
         /\ made' \in [Sessions -> Passwords \cup {NoPassword}]
         /\ raced' \subseteq Clients \cup Sessions
  BY DEF TypeInv, TypeOK, Drop

LEMMA EndType ==
  ASSUME TypeInv, NEW c \in Clients, End(c)
  PROVE  /\ pc' \in [Clients -> At]
         /\ cookie' \in [Clients -> Sessions \cup {NoSession}]
         /\ actor' \in [Clients -> Users \cup {Nobody}]
         /\ known' \in [Clients -> Passwords \cup {NoPassword}]
         /\ victim' \in [Clients -> Users \cup {Nobody}]
         /\ RequestHas'
  BY DEF TypeInv, TypeOK, RequestHas, End, At, Pages

LEMMA InsertType ==
  ASSUME TypeInv, NEW u \in Users, NEW p \in Passwords, Insert(u, p)
  PROVE  /\ users' \subseteq born' /\ born' \subseteq Users
         /\ password' \in [Users -> Passwords \cup {NoPassword}]
         /\ \A v \in users' : password'[v] # NoPassword
  BY AccountsAssumption DEF TypeInv, TypeOK, Insert

LEMMA TypeInvNext == TypeInv /\ [Next]_vars => TypeInv'
<1> SUFFICES ASSUME TypeInv, [Next]_vars PROVE TypeInv'
  OBVIOUS
<1> USE DEF accounts, store, app, request, history
<1>1. CASE SeedCheck
  BY <1>1 DEF SeedCheck, TypeInv, TypeOK, RequestHas
<1>2. CASE SeedInsert
  <2>1. PICK u \in Users, p \in Passwords : Insert(u, p)
    BY <1>2 DEF SeedInsert, SeedPassword
  <2> QED
    BY <1>2, <2>1, InsertType DEF SeedInsert, TypeInv, TypeOK, RequestHas
<1>3. CASE Restart
  <2>1. severed' \subseteq Users
    BY <1>3 DEF Restart, TypeInv, TypeOK, RequestHas
  <2>2. restarts' \in 0..MaxRestarts
    BY <1>3, AccountsAssumption DEF Restart, TypeInv, TypeOK
  <2>3. RequestHas'
    BY <1>3 DEF Restart, RequestHas, Pages
  <2> QED
    BY <1>3, <2>1, <2>2, <2>3 DEF Restart, TypeInv, TypeOK, At
<1>4. ASSUME NEW c \in Clients, Authenticate(c) PROVE TypeInv'
  BY <1>4 DEF Authenticate, TypeInv, TypeOK, RequestHas, At, Pages
<1>5. ASSUME NEW c \in Clients, CreateSession(c) PROVE TypeInv'
  BY <1>5, EndType DEF CreateSession, TypeInv, TypeOK
<1>6. ASSUME NEW c \in Clients, FindSession(c) PROVE TypeInv'
  BY <1>6 DEF FindSession, TypeInv, TypeOK, RequestHas, At, Pages
<1>7. ASSUME NEW c \in Clients, Purge(c) PROVE TypeInv'
  <2>1. cookie[c] \in Sessions
    BY <1>7 DEF Purge, TypeInv, RequestHas
  <2> QED
    BY <1>7, <2>1, EndType, DropType DEF Purge, TypeInv, TypeOK
<1>8. ASSUME NEW c \in Clients, FindUser(c) PROVE TypeInv'
  <2>1. PICK page \in Pages : pc' = [pc EXCEPT ![c] = page]
    BY <1>8 DEF FindUser
  <2> QED
    BY <1>8, <2>1 DEF FindUser, TypeInv, TypeOK, RequestHas, At, Pages
<1>9. ASSUME NEW c \in Clients, Refuse(c) PROVE TypeInv'
  BY <1>9, EndType DEF Refuse, TypeInv, TypeOK
<1>10. ASSUME NEW c \in Clients, ChangePassword(c) PROVE TypeInv'
  <2>1. actor[c] \in Users /\ cookie[c] \in Sessions
    BY <1>10 DEF ChangePassword, TypeInv, RequestHas, Pages
  <2>2. /\ password' \in [Users -> Passwords \cup {NoPassword}]
        /\ \A v \in users : password'[v] # NoPassword
    BY <1>10, <2>1, AccountsAssumption DEF ChangePassword, TypeInv, TypeOK
  <2>3. raced' \subseteq Clients \cup Sessions
    BY <1>10 DEF ChangePassword, Overtaken, TypeInv, TypeOK
  <2>4. RequestHas'
    BY <1>10, <2>1 DEF ChangePassword, TypeInv, TypeOK, RequestHas, Pages
  <2> QED
    BY <1>10, <2>1, <2>2, <2>3, <2>4 DEF ChangePassword, TypeInv, TypeOK, At
<1>11. ASSUME NEW c \in Clients, CreateUser(c) PROVE TypeInv'
  <2>1. PICK u \in Users, p \in Passwords : Insert(u, p)
    BY <1>11 DEF CreateUser
  <2> QED
    BY <1>11, <2>1, InsertType, EndType DEF CreateUser, TypeInv, TypeOK
<1>12. ASSUME NEW c \in Clients, CheckDelete(c) PROVE TypeInv'
  BY <1>12 DEF CheckDelete, TypeInv, TypeOK, RequestHas, At, Pages
<1>13. ASSUME NEW c \in Clients, Remove(c) PROVE TypeInv'
  BY <1>13 DEF Remove, Overtaken, TypeInv, TypeOK, RequestHas, At, Pages
<1>14. ASSUME NEW c \in Clients, Revoke(c) PROVE TypeInv'
  <2>1. Revoked(c) \subseteq Sessions
    BY DEF Revoked, TypeInv, TypeOK
  <2> QED
    BY <1>14, <2>1, EndType, DropType DEF Revoke, TypeInv, TypeOK
<1>15. ASSUME NEW c \in Clients, Logout(c) PROVE TypeInv'
  <2>1. cookie[c] \in Sessions
    BY <1>15 DEF Logout, TypeInv, RequestHas, Pages
  <2> QED
    BY <1>15, <2>1, EndType, DropType DEF Logout, TypeInv, TypeOK
<1>16. ASSUME NEW s \in Sessions, Lapse(s) PROVE TypeInv'
  BY <1>16 DEF Lapse, TypeInv, TypeOK, RequestHas
<1>17. ASSUME NEW s \in Sessions, Sweep(s) PROVE TypeInv'
  BY <1>17, DropType DEF Sweep, TypeInv, TypeOK, RequestHas
<1>18. CASE UNCHANGED vars
  BY <1>18 DEF vars, TypeInv, TypeOK, RequestHas
<1> QED
  BY <1>1, <1>2, <1>3, <1>4, <1>5, <1>6, <1>7, <1>8, <1>9, <1>10, <1>11,
     <1>12, <1>13, <1>14, <1>15, <1>16, <1>17, <1>18 DEF Next

LEMMA TypeInvariant == Spec => []TypeInv
  BY TypeInvInit, TypeInvNext, PTL DEF Spec

(* The documents and requests of Accounts keep their types; in particular  *)
(* no stored user is ever without a password hash.                         *)
THEOREM TypeCorrect == Spec => []TypeOK
<1>1. TypeInv => TypeOK
  BY DEF TypeInv
<1> QED
  BY TypeInvariant, <1>1, PTL

-----------------------------------------------------------------------------
(* Sessions.                                                               *)

(* A login that has passed authenticate and was not overtaken holds the    *)
(* present password of a user that exists.                                 *)
LoginCurrent ==
    \A c \in Clients : pc[c] = "login" =>
        c \in raced \/ (actor[c] \in users /\ known[c] = password[actor[c]])

(* Only a session that was never stored has no owner. *)
StoredOwned == \A s \in sessions : owner[s] \in Users

SessionInv == LoginCurrent /\ StoredOwned /\ StaleSessionExcused

(* The excuses of a session, for the step to the next state. *)
Excused(s) == s \in raced \/ owner[s] \in severed \/ Revoking(owner[s])

LEMMA SessionInvInit == Init => SessionInv
  BY DEF Init, SessionInv, LoginCurrent, StoredOwned, StaleSessionExcused

(* A deletion of sessions takes nothing from the others, nor from logins.  *)
LEMMA DropOthers ==
  ASSUME TypeInv, SessionInv, NEW S \in SUBSET Sessions, Drop(S)
  PROVE  /\ \A s \in sessions' : s \in sessions /\ made'[s] = made[s] /\ s \notin S
         /\ \A s \in sessions' : s \in raced => s \in raced'
         /\ \A c \in Clients : c \in raced => c \in raced'
  BY AccountsAssumption DEF Drop, TypeInv, TypeOK

(* A new user is nobody's owner or actor among those present. *)
LEMMA InsertOthers ==
  ASSUME TypeInv, NEW u \in Users, NEW p \in Passwords, Insert(u, p)
  PROVE  \A v \in users : v \in users' /\ password'[v] = password[v]
  BY DEF Insert, TypeInv, TypeOK

(* What a request's end means for the others. *)
LEMMA EndOthers ==
  ASSUME TypeInv, NEW c \in Clients, End(c)
  PROVE  /\ pc'[c] = "idle"
         /\ \A d \in Clients \ {c} :
              pc'[d] = pc[d] /\ actor'[d] = actor[d] /\ known'[d] = known[d]
              /\ victim'[d] = victim[d]
  BY DEF End, TypeInv, TypeOK, At

(* A request that ends, other than by revoking, and leaves the users and   *)
(* every remaining session as they are.                                    *)
LEMMA QuietEnd ==
  ASSUME TypeInv, SessionInv, NEW c \in Clients, End(c), pc[c] # "revoke",
         NEW S \in SUBSET Sessions, Drop(S),
         UNCHANGED <<accounts, owner, severed>>
  PROVE  SessionInv'
<1>1. LoginCurrent'
  BY DropOthers, EndOthers DEF accounts, SessionInv, LoginCurrent
<1>2. StoredOwned'
  BY DropOthers DEF SessionInv, StoredOwned
<1>3. ASSUME NEW s \in sessions', Stale(s)' PROVE Excused(s)'
  <2>1. s \in sessions /\ Stale(s)
    BY <1>3, DropOthers DEF Stale, accounts
  <2>2. Revoking(owner[s]) => Revoking(owner[s])'
    BY EndOthers DEF Revoking
  <2> QED
    BY <2>1, <2>2, <1>3, DropOthers
    DEF Excused, SessionInv, StaleSessionExcused
<1> QED
  BY <1>1, <1>2, <1>3 DEF SessionInv, StaleSessionExcused, Excused

(* A step that only moves requests about, none of them a login or at the   *)
(* end of a revocation, or that only adds a user.                          *)
LEMMA QuietStep ==
  ASSUME TypeInv, SessionInv,
         UNCHANGED <<sessions, owner, made, raced, severed>>,
         \A v \in users : v \in users' /\ password'[v] = password[v],
         \A d \in Clients : /\ pc'[d] = "login" =>
                                 pc[d] = "login" /\ actor'[d] = actor[d] /\ known'[d] = known[d]
                            /\ pc[d] = "revoke" => pc'[d] = "revoke" /\ victim'[d] = victim[d]
  PROVE  SessionInv'
<1>1. LoginCurrent'
  BY DEF SessionInv, LoginCurrent
<1>2. StoredOwned'
  BY DEF SessionInv, StoredOwned
<1>3. ASSUME NEW s \in sessions', Stale(s)' PROVE Excused(s)'
  <2>1. s \in sessions /\ Stale(s)
    BY <1>3 DEF Stale
  <2>2. Revoking(owner[s]) => Revoking(owner[s])'
    BY DEF Revoking
  <2> QED
    BY <2>1, <2>2 DEF Excused, SessionInv, StaleSessionExcused
<1> QED
  BY <1>1, <1>2, <1>3 DEF SessionInv, StaleSessionExcused, Excused

LEMMA SessionInvNext == TypeInv /\ SessionInv /\ [Next]_vars => SessionInv'
<1> SUFFICES ASSUME TypeInv, SessionInv, [Next]_vars PROVE SessionInv'
  OBVIOUS
<1> USE DEF accounts, store, app, request, history
<1>1. CASE SeedCheck
  BY <1>1, QuietStep DEF SeedCheck
<1>2. CASE SeedInsert
  <2>1. PICK u \in Users, p \in Passwords : Insert(u, p)
    BY <1>2 DEF SeedInsert, SeedPassword
  <2> QED
    BY <1>2, <2>1, InsertOthers, QuietStep DEF SeedInsert
<1>3. CASE Restart
  <2>1. LoginCurrent' /\ StoredOwned'
    BY <1>3 DEF Restart, SessionInv, LoginCurrent, StoredOwned
  <2>2. ASSUME NEW s \in sessions', Stale(s)' PROVE Excused(s)'
    <3>1. s \in sessions /\ Stale(s) /\ s \notin Clients
      BY <1>3, <2>2, AccountsAssumption DEF Restart, Stale, TypeInv, TypeOK
    <3>2. Revoking(owner[s]) => owner[s] \in severed'
      BY <1>3 DEF Restart, Revoking
    <3> QED
      BY <1>3, <3>1, <3>2 DEF Restart, Excused, SessionInv, StaleSessionExcused
  <2> QED
    BY <2>1, <2>2 DEF SessionInv, StaleSessionExcused, Excused
<1>4. ASSUME NEW c \in Clients, Authenticate(c) PROVE SessionInv'
  <2>1. PICK u \in users : /\ actor' = [actor EXCEPT ![c] = u]
                           /\ known' = [known EXCEPT ![c] = password[u]]
    BY <1>4 DEF Authenticate
  <2>2. LoginCurrent'
    BY <1>4, <2>1 DEF Authenticate, SessionInv, LoginCurrent, TypeInv, TypeOK
  <2>3. \A u2 \in Users : Revoking(u2) => Revoking(u2)'
    BY <1>4 DEF Authenticate, Arrives, Revoking, TypeInv, TypeOK
  <2>4. StoredOwned' /\ StaleSessionExcused'
    BY <1>4, <2>3 DEF Authenticate, SessionInv, StoredOwned, StaleSessionExcused, Stale
  <2> QED
    BY <2>2, <2>4 DEF SessionInv
<1>5. ASSUME NEW c \in Clients, CreateSession(c) PROVE SessionInv'
  <2>1. PICK s \in Sessions :
          /\ owner[s] = Nobody
          /\ owner' = [owner EXCEPT ![s] = actor[c]]
          /\ sessions' = sessions \cup {s}
          /\ made' = [made EXCEPT ![s] = known[c]]
          /\ raced' = IF c \in raced THEN (raced \ {c}) \cup {s} ELSE raced
    BY <1>5 DEF CreateSession
  <2>2. End(c) /\ pc[c] = "login" /\ actor[c] \in Users
    BY <1>5 DEF CreateSession, TypeInv, RequestHas
  <2>3. s \notin sessions
    BY <2>1, AccountsAssumption DEF SessionInv, StoredOwned
  <2>4. LoginCurrent'
    BY <1>5, <2>1, <2>2, EndOthers DEF CreateSession, SessionInv, LoginCurrent
  <2>5. StoredOwned'
    BY <2>1, <2>2 DEF SessionInv, StoredOwned, TypeInv, TypeOK
  <2>6. Stale(s)' => s \in raced'
    BY <1>5, <2>1, <2>2 DEF CreateSession, Stale, SessionInv, LoginCurrent, TypeInv, TypeOK
  <2>7. ASSUME NEW t \in sessions, Stale(t)' PROVE Excused(t)'
    <3>1. t # s /\ t \in Sessions /\ t \notin Clients
      BY <2>3, AccountsAssumption DEF TypeInv, TypeOK
    <3>2. owner'[t] = owner[t] /\ Stale(t)
      BY <1>5, <2>1, <2>7, <3>1 DEF CreateSession, Stale, TypeInv, TypeOK
    <3>3. Revoking(owner[t]) => Revoking(owner[t])'
      BY <2>2, <3>2, EndOthers DEF Revoking
    <3> QED
      BY <1>5, <2>1, <3>1, <3>2, <3>3
      DEF CreateSession, Excused, SessionInv, StaleSessionExcused
  <2> QED
    BY <2>1, <2>4, <2>5, <2>6, <2>7 DEF SessionInv, StaleSessionExcused, Excused
<1>6. ASSUME NEW c \in Clients, FindSession(c) PROVE SessionInv'
  BY <1>6, QuietStep DEF FindSession, Arrives, TypeInv, TypeOK
<1>7. ASSUME NEW c \in Clients, Purge(c) PROVE SessionInv'
  <2>1. cookie[c] \in Sessions
    BY <1>7 DEF Purge, TypeInv, RequestHas
  <2> QED
    BY <1>7, <2>1, QuietEnd DEF Purge
<1>8. ASSUME NEW c \in Clients, FindUser(c) PROVE SessionInv'
  <2>1. PICK page \in Pages : pc' = [pc EXCEPT ![c] = page]
    BY <1>8 DEF FindUser
  <2> QED
    BY <1>8, <2>1, QuietStep DEF FindUser, Pages, TypeInv, TypeOK
<1>9. ASSUME NEW c \in Clients, Refuse(c) PROVE SessionInv'
  BY <1>9, EndOthers, QuietStep DEF Refuse, Pages
<1>10. ASSUME NEW c \in Clients, ChangePassword(c) PROVE SessionInv'
  <2> DEFINE u == actor[c]
  <2>1. /\ \A v \in users \ {u} : password'[v] = password[v]
        /\ users' = users
    BY <1>10 DEF ChangePassword, TypeInv, TypeOK
  <2>2. /\ pc[c] = "change" /\ u \in Users
        /\ pc'[c] = "revoke" /\ victim'[c] = u
        /\ \A d \in Clients \ {c} : pc'[d] = pc[d] /\ victim'[d] = victim[d]
    BY <1>10 DEF ChangePassword, Pages, TypeInv, TypeOK, RequestHas
  <2>3. LoginCurrent'
    BY <1>10, <2>1, <2>2 DEF ChangePassword, Overtaken, SessionInv, LoginCurrent
  <2>4. StoredOwned'
    BY <1>10 DEF ChangePassword, SessionInv, StoredOwned
  <2>5. ASSUME NEW s \in sessions', Stale(s)' PROVE Excused(s)'
    <3>1. CASE owner[s] = u
      BY <1>10, <2>2, <3>1 DEF ChangePassword, Excused, Revoking
    <3>2. CASE owner[s] # u
      <4>1. s \in sessions /\ Stale(s)
        BY <1>10, <2>1, <2>5, <3>2 DEF ChangePassword, Stale
      <4>2. Revoking(owner[s]) => Revoking(owner[s])'
        BY <1>10, <2>2 DEF ChangePassword, Revoking
      <4> QED
        BY <1>10, <4>1, <4>2
        DEF ChangePassword, Excused, SessionInv, StaleSessionExcused
    <3> QED
      BY <3>1, <3>2
  <2> QED
    BY <2>3, <2>4, <2>5 DEF SessionInv, StaleSessionExcused, Excused
<1>11. ASSUME NEW c \in Clients, CreateUser(c) PROVE SessionInv'
  <2>1. PICK u \in Users, p \in Passwords : Insert(u, p)
    BY <1>11 DEF CreateUser
  <2> QED
    BY <1>11, <2>1, InsertOthers, EndOthers, QuietStep DEF CreateUser
<1>12. ASSUME NEW c \in Clients, CheckDelete(c) PROVE SessionInv'
  BY <1>12, QuietStep DEF CheckDelete, TypeInv, TypeOK
<1>13. ASSUME NEW c \in Clients, Remove(c) PROVE SessionInv'
  <2> DEFINE u == victim[c]
  <2>1. /\ pc[c] = "remove" /\ pc'[c] = "revoke" /\ victim' = victim
        /\ \A d \in Clients \ {c} : pc'[d] = pc[d]
        /\ users' = users \ {u} /\ password' = password
    BY <1>13 DEF Remove, TypeInv, TypeOK
  <2>2. LoginCurrent'
    BY <1>13, <2>1 DEF Remove, Overtaken, SessionInv, LoginCurrent
  <2>3. StoredOwned'
    BY <1>13 DEF Remove, SessionInv, StoredOwned
  <2>4. ASSUME NEW s \in sessions', Stale(s)' PROVE Excused(s)'
    <3>1. CASE owner[s] = u
      BY <1>13, <2>1, <3>1 DEF Remove, Excused, Revoking
    <3>2. CASE owner[s] # u
      <4>1. s \in sessions /\ Stale(s)
        BY <1>13, <2>1, <2>4, <3>2 DEF Remove, Stale
      <4>2. Revoking(owner[s]) => Revoking(owner[s])'
        BY <1>13, <2>1 DEF Remove, Revoking
      <4> QED
        BY <1>13, <4>1, <4>2 DEF Remove, Excused, SessionInv, StaleSessionExcused
    <3> QED
      BY <3>1, <3>2
  <2> QED
    BY <2>2, <2>3, <2>4 DEF SessionInv, StaleSessionExcused, Excused
<1>14. ASSUME NEW c \in Clients, Revoke(c) PROVE SessionInv'
  <2>1. Revoked(c) \in SUBSET Sessions /\ Drop(Revoked(c)) /\ End(c) /\ pc[c] = "revoke"
    BY <1>14 DEF Revoke, Revoked, TypeInv, TypeOK
  <2>2. LoginCurrent'
    BY <1>14, <2>1, DropOthers, EndOthers DEF Revoke, SessionInv, LoginCurrent
  <2>3. StoredOwned'
    BY <1>14, <2>1, DropOthers DEF Revoke, SessionInv, StoredOwned
  <2>4. ASSUME NEW s \in sessions', Stale(s)' PROVE Excused(s)'
    <3>1. s \in sessions /\ Stale(s) /\ owner[s] # victim[c]
      BY <1>14, <2>1, <2>4, DropOthers DEF Revoke, Revoked, Stale
    <3>2. Revoking(owner[s]) => Revoking(owner[s])'
      BY <1>14, <2>1, <3>1, EndOthers DEF Revoke, Revoking
    <3> QED
      BY <1>14, <2>1, <2>4, <3>1, <3>2, DropOthers
      DEF Revoke, Excused, SessionInv, StaleSessionExcused
  <2> QED
    BY <2>2, <2>3, <2>4 DEF SessionInv, StaleSessionExcused, Excused
<1>15. ASSUME NEW c \in Clients, Logout(c) PROVE SessionInv'
  <2>1. cookie[c] \in Sessions
    BY <1>15 DEF Logout, TypeInv, RequestHas, Pages
  <2> QED
    BY <1>15, <2>1, QuietEnd DEF Logout
<1>16. ASSUME NEW s \in Sessions, Lapse(s) PROVE SessionInv'
  BY <1>16, QuietStep DEF Lapse
<1>17. ASSUME NEW s \in Sessions, Sweep(s) PROVE SessionInv'
  <2>1. Drop({s}) /\ {s} \in SUBSET Sessions
    BY <1>17 DEF Sweep
  <2>2. LoginCurrent' /\ StoredOwned'
    BY <1>17, <2>1, DropOthers DEF Sweep, SessionInv, LoginCurrent, StoredOwned
  <2>3. ASSUME NEW t \in sessions', Stale(t)' PROVE Excused(t)'
    <3>1. t \in sessions /\ Stale(t)
      BY <1>17, <2>1, <2>3, DropOthers DEF Sweep, Stale
    <3>2. Revoking(owner[t]) => Revoking(owner[t])'
      BY <1>17 DEF Sweep, Revoking
    <3> QED
      BY <1>17, <2>1, <2>3, <3>1, <3>2, DropOthers
      DEF Sweep, Excused, SessionInv, StaleSessionExcused
  <2> QED
    BY <2>2, <2>3 DEF SessionInv, StaleSessionExcused, Excused
<1>18. CASE UNCHANGED vars
  BY <1>18, QuietStep DEF vars
<1> QED
  BY <1>1, <1>2, <1>3, <1>4, <1>5, <1>6, <1>7, <1>8, <1>9, <1>10, <1>11,
     <1>12, <1>13, <1>14, <1>15, <1>16, <1>17, <1>18 DEF Next

(* destroy_user_sessions leaves nothing behind, for any number of users,   *)
(* sessions and overlapping requests, but what StaleSessionExcused excuses. *)
THEOREM SessionsRevoked == Spec => []StaleSessionExcused
<1>1. Init => SessionInv
  BY SessionInvInit
<1>2. TypeInv /\ SessionInv /\ [Next]_vars => SessionInv'
  BY SessionInvNext
<1>3. SessionInv => StaleSessionExcused
  BY DEF SessionInv
<1> QED
  BY TypeInvariant, <1>1, <1>2, <1>3, PTL DEF Spec

-----------------------------------------------------------------------------
(* The last user.                                                          *)

Removing(c) == pc[c] = "remove"

(* Requests run only once there is a user, and as long as no two deletions *)
(* have been past their count together, a deletion leaves somebody.        *)
UserInv ==
    /\ seeding => ~serving
    /\ ~serving => \A c \in Clients : pc[c] = "idle"
    /\ serving /\ ~crossed =>
         /\ users # {}
         /\ \A c, d \in Clients : Removing(c) /\ Removing(d) => c = d
         /\ \A c \in Clients : Removing(c) => \A u \in Users : users \ {u} # {}

LEMMA OthersLeft ==
  ASSUME users \in SUBSET Users, OthersRemain, NEW u \in Users
  PROVE  users \ {u} # {}
<1>1. SUFFICES ASSUME users \subseteq {u} PROVE FALSE
  OBVIOUS
<1>2. IsFiniteSet({u}) /\ Cardinality({u}) = 1
  BY FS_Singleton
<1>3. Cardinality(users) <= 1 /\ Cardinality(users) \in Nat
  BY <1>1, <1>2, FS_Subset, FS_CardinalityType
<1> QED
  BY <1>3 DEF OthersRemain

LEMMA UserInvNext == TypeInv /\ UserInv /\ [Next]_vars => UserInv'
<1> SUFFICES ASSUME TypeInv, UserInv, [Next]_vars PROVE UserInv'
  OBVIOUS
<1> USE DEF accounts, store, app, request, history, UserInv, Removing
<1>0. users \in SUBSET Users /\ pc \in [Clients -> At]
  BY DEF TypeInv, TypeOK
<1>1. CASE SeedCheck
  BY <1>1 DEF SeedCheck
<1>2. CASE SeedInsert
  BY <1>2 DEF SeedInsert, Insert
<1>3. CASE Restart
  BY <1>3 DEF Restart
<1>4. ASSUME NEW c \in Clients, Authenticate(c) PROVE UserInv'
  BY <1>0, <1>4 DEF Authenticate, Arrives
<1>5. ASSUME NEW c \in Clients, CreateSession(c) PROVE UserInv'
  BY <1>0, <1>5 DEF CreateSession, End
<1>6. ASSUME NEW c \in Clients, FindSession(c) PROVE UserInv'
  BY <1>0, <1>6 DEF FindSession, Arrives
<1>7. ASSUME NEW c \in Clients, Purge(c) PROVE UserInv'
  BY <1>0, <1>7 DEF Purge, End
<1>8. ASSUME NEW c \in Clients, FindUser(c) PROVE UserInv'
  BY <1>0, <1>8 DEF FindUser, Pages
<1>9. ASSUME NEW c \in Clients, Refuse(c) PROVE UserInv'
  BY <1>0, <1>9 DEF Refuse, End, Pages
<1>10. ASSUME NEW c \in Clients, ChangePassword(c) PROVE UserInv'
  BY <1>0, <1>10 DEF ChangePassword
<1>11. ASSUME NEW c \in Clients, CreateUser(c) PROVE UserInv'
  BY <1>0, <1>11 DEF CreateUser, Insert, End
<1>12. ASSUME NEW c \in Clients, CheckDelete(c) PROVE UserInv'
  <2>1. \A u \in Users : users \ {u} # {}
    BY <1>0, <1>12, OthersLeft DEF CheckDelete
  <2> QED
    BY <1>0, <1>12, <2>1 DEF CheckDelete
<1>13. ASSUME NEW c \in Clients, Remove(c) PROVE UserInv'
  <2>1. victim[c] \in Users
    BY <1>13 DEF Remove, TypeInv, RequestHas
  <2> QED
    BY <1>0, <1>13, <2>1 DEF Remove
<1>14. ASSUME NEW c \in Clients, Revoke(c) PROVE UserInv'
  BY <1>0, <1>14 DEF Revoke, End
<1>15. ASSUME NEW c \in Clients, Logout(c) PROVE UserInv'
  BY <1>0, <1>15 DEF Logout, End
<1>16. ASSUME NEW s \in Sessions, Lapse(s) PROVE UserInv'
  BY <1>16 DEF Lapse
<1>17. ASSUME NEW s \in Sessions, Sweep(s) PROVE UserInv'
  BY <1>17 DEF Sweep
<1>18. CASE UNCHANGED vars
  BY <1>18 DEF vars
<1> QED
  BY <1>1, <1>2, <1>3, <1>4, <1>5, <1>6, <1>7, <1>8, <1>9, <1>10, <1>11,
     <1>12, <1>13, <1>14, <1>15, <1>16, <1>17, <1>18 DEF Next

(* delete_user never empties the collection unless two deletions were past *)
(* their count together, for any number of users and overlapping requests. *)
THEOREM LastUserKept == Spec => []LastUserStays
<1>1. Init => UserInv
  BY DEF Init, UserInv
<1>2. TypeInv /\ UserInv /\ [Next]_vars => UserInv'
  BY UserInvNext
<1>3. UserInv => LastUserStays
  BY DEF UserInv, LastUserStays
<1> QED
  BY TypeInvariant, <1>1, <1>2, <1>3, PTL DEF Spec

-----------------------------------------------------------------------------
(* Who is who.                                                             *)

(* create_user, seed_admin: no two users have the same name, and           *)
(* seed_admin, whose check and insert are two steps, adds its              *)
(* administrator to an empty collection only.                              *)
UsersDistinct ==
    /\ \A u, v \in users : NameOf[u] = NameOf[v] => u = v
    /\ seeding => users = {}

DistinctInv == UserInv /\ UsersDistinct

LEMMA DistinctNext == TypeInv /\ DistinctInv /\ [Next]_vars => UsersDistinct'
<1> SUFFICES ASSUME TypeInv, DistinctInv, [Next]_vars PROVE UsersDistinct'
  OBVIOUS
<1> USE DEF DistinctInv, UsersDistinct, accounts, app
<1>1. CASE UNCHANGED <<accounts, app>>
  BY <1>1
<1>2. CASE SeedCheck
  BY <1>2 DEF SeedCheck
<1>3. CASE SeedInsert
  BY <1>3 DEF SeedInsert, Insert
<1>4. CASE Restart
  BY <1>4 DEF Restart
<1>5. ASSUME NEW c \in Clients, CreateUser(c) PROVE UsersDistinct'
  <2>1. PICK u \in Users : /\ \A v \in users : NameOf[v] # NameOf[u]
                           /\ users' = users \cup {u}
    BY <1>5 DEF CreateUser, Insert
  <2>2. serving /\ ~seeding /\ UNCHANGED app
    BY <1>5 DEF CreateUser, UserInv
  <2> QED
    BY <2>1, <2>2
<1>6. ASSUME NEW c \in Clients, Remove(c) PROVE UsersDistinct'
  BY <1>6 DEF Remove
<1>7. ASSUME NEW c \in Clients, ChangePassword(c) PROVE UsersDistinct'
  BY <1>7 DEF ChangePassword
<1> QED
  BY <1>1, <1>2, <1>3, <1>4, <1>5, <1>6, <1>7
     DEF Next, Authenticate, CreateSession, FindSession, Purge, FindUser, Refuse,
         CheckDelete, Revoke, Logout, Lapse, Sweep, vars

(* create_user, seed_admin: usernames stay unique and the first            *)
(* administrator alone, for any overlapping requests and restarts.         *)
THEOREM UsernamesUnique == Spec => []UsersDistinct
<1>1. Init => DistinctInv
  BY DEF Init, DistinctInv, UserInv, UsersDistinct
<1>2. TypeInv /\ DistinctInv /\ [Next]_vars => DistinctInv'
  BY UserInvNext, DistinctNext DEF DistinctInv
<1>3. DistinctInv => UsersDistinct
  BY DEF DistinctInv
<1> QED
  BY TypeInvariant, <1>1, <1>2, <1>3, PTL DEF Spec

(* AuthMiddleware, change_password, delete_user: whatever is logged in,    *)
(* out, changed and deleted meanwhile, a request acts for the user its     *)
(* session was made for, and nobody deletes the account he acts from.      *)
ActsForOwner ==
    \A c \in Clients :
        /\ pc[c] \in Pages \cup {"remove", "revoke"} => actor[c] = owner[cookie[c]]
        /\ pc[c] = "remove" => victim[c] # owner[cookie[c]]

(* The session of a request has an owner, who never changes. *)
CookieOwned ==
    \A c \in Clients :
        pc[c] \in {"user", "remove", "revoke"} \cup Pages => owner[cookie[c]] \in Users

ActorInv == ActsForOwner /\ CookieOwned

LEMMA ActorInvNext == TypeInv /\ SessionInv /\ ActorInv /\ [Next]_vars => ActorInv'
<1> SUFFICES ASSUME TypeInv, SessionInv, ActorInv, [Next]_vars PROVE ActorInv'
  OBVIOUS
<1> USE DEF ActorInv, ActsForOwner, CookieOwned, store, request
<1>0. /\ pc \in [Clients -> At] /\ cookie \in [Clients -> Sessions \cup {NoSession}]
      /\ actor \in [Clients -> Users \cup {Nobody}]
      /\ victim \in [Clients -> Users \cup {Nobody}]
      /\ owner \in [Sessions -> Users \cup {Nobody}]
      /\ Nobody \notin Users
  BY AccountsAssumption DEF TypeInv, TypeOK
<1>1. CASE UNCHANGED <<request, owner>>
  BY <1>1
<1>2. CASE Restart
  BY <1>2 DEF Restart, Pages
<1>3. ASSUME NEW c \in Clients, End(c), UNCHANGED owner PROVE ActorInv'
  BY <1>0, <1>3 DEF End, Pages
<1>4. ASSUME NEW c \in Clients, Authenticate(c) PROVE ActorInv'
  BY <1>0, <1>4 DEF Authenticate, Pages
<1>5. ASSUME NEW c \in Clients, CreateSession(c) PROVE ActorInv'
  <2>1. PICK s \in Sessions : owner[s] = Nobody /\ owner' = [owner EXCEPT ![s] = actor[c]]
    BY <1>5 DEF CreateSession
  <2>2. \A t \in Sessions : owner[t] \in Users => owner'[t] = owner[t]
    BY <1>0, <2>1
  <2>3. \A d \in Clients : pc[d] \in {"user", "remove", "revoke"} \cup Pages =>
          cookie[d] \in Sessions /\ owner[cookie[d]] \in Users
    BY DEF TypeInv, RequestHas
  <2>4. End(c)
    BY <1>5 DEF CreateSession
  <2> QED
    BY <1>0, <2>2, <2>3, <2>4 DEF End, Pages
<1>6. ASSUME NEW c \in Clients, FindSession(c) PROVE ActorInv'
  BY <1>0, <1>6 DEF FindSession, Arrives, Pages, SessionInv, StoredOwned
<1>7. ASSUME NEW c \in Clients, FindUser(c) PROVE ActorInv'
  BY <1>0, <1>7 DEF FindUser, Pages
<1>8. ASSUME NEW c \in Clients, ChangePassword(c) PROVE ActorInv'
  BY <1>0, <1>8 DEF ChangePassword, Pages
<1>9. ASSUME NEW c \in Clients, CheckDelete(c) PROVE ActorInv'
  BY <1>0, <1>9 DEF CheckDelete, Pages
<1>10. ASSUME NEW c \in Clients, Remove(c) PROVE ActorInv'
  BY <1>0, <1>10 DEF Remove, Pages
<1> QED
  BY <1>1, <1>2, <1>3, <1>4, <1>5, <1>6, <1>7, <1>8, <1>9, <1>10
     DEF Next, SeedCheck, SeedInsert, Purge, Refuse, CreateUser, Revoke, Logout,
         Lapse, Sweep, vars

(* The middleware's copy of the user cannot make a handler act for anybody *)
(* else.                                                                   *)
THEOREM ActorsAreOwners == Spec => []ActsForOwner
<1>1. Init => SessionInv /\ ActorInv
  BY SessionInvInit DEF Init, ActorInv, ActsForOwner, CookieOwned, Pages
<1>2. TypeInv /\ SessionInv /\ ActorInv /\ [Next]_vars => SessionInv' /\ ActorInv'
  BY SessionInvNext, ActorInvNext
<1>3. ActorInv => ActsForOwner
  BY DEF ActorInv
<1> QED
  BY TypeInvariant, <1>1, <1>2, <1>3, PTL DEF Spec
=============================================================================
