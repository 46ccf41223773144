---------------------------- MODULE InboxProofs ----------------------------
(***************************************************************************)
(* Proofs about Inbox, for any endpoints, webhook requests, administrators *)
(* and configurations.                                                     *)
(***************************************************************************)
EXTENDS Inbox, TLAPS

(* Changes that keep a document a document. *)
WellTyped(ch) == \A doc \in Docs : Merge(doc, ch) \in Docs

(* What a request holds once it is past its first step. *)
WebhookHas ==
    \A e \in Events : step[e] \in {"body", "insert", "stored"} =>
        seen[e] \in Docs /\ from[e] \in Endpoints /\ endpoint[from[e]] # Unborn

AdminHas ==
    /\ DOMAIN changes = Admins
    /\ \A a \in Admins :
         /\ apc[a] # "idle" =>
              /\ target[a] \in Endpoints /\ endpoint[target[a]] # Unborn
              /\ copy[a] \in Docs /\ WellTyped(changes[a])
         /\ apc[a] = "update" => Accepts(copy[a], changes[a])
         /\ apc[a] = "reapply" => "days" \in DOMAIN changes[a]

TypeInv == TypeOK /\ WebhookHas /\ AdminHas

LEMMA DaysType ==
  ASSUME TypeInv, NEW days \in Overrides \cup {NoDays}, NEW at \in Nat
  PROVE  /\ ExpiresAt(days, at) \in Nat \cup {Never}
         /\ Reapplied(days, at) \in Nat \cup {Never}
<1>1. RetentionDays(days) \in Nat \cup {NoDays}
  BY InboxAssumption DEF TypeInv, TypeOK, RetentionDays
<1> QED
  BY <1>1 DEF ExpiresAt, Reapplied, NoDays

LEMMA FormTyped == ASSUME NEW f \in Forms PROVE WellTyped(FormChanges(f))
<1> SUFFICES ASSUME NEW doc \in Docs PROVE Merge(doc, FormChanges(f)) \in Docs
  BY DEF WellTyped
<1> DEFINE ch == FormChanges(f)
           doc2 == Merge(doc, ch)
<1>1. /\ f.path \in Paths /\ f.on \in BOOLEAN /\ f.auth \in {"none", "static", "hmac"}
      /\ f.secret \in Secrets \cup {NoSecret} /\ f.days \in Overrides \cup {NoDays}
  BY DocsAssumption
<1>2. /\ ch["path"] = f.path /\ ch["on"] = f.on /\ ch["auth"] = f.auth
      /\ ch["prefix"] = FALSE /\ ch["days"] = f.days
      /\ "secret" \in DOMAIN ch => ch["secret"] = f.secret
      /\ {"path", "on", "auth", "prefix", "days"} \subseteq DOMAIN ch
  BY DEF FormChanges
<1>3. DOMAIN doc = {"path", "on", "auth", "prefix", "secret", "days"}
  BY DEF Docs
<1>4. /\ doc2 = [k \in {"path", "on", "auth", "prefix", "secret", "days"} |-> doc2[k]]
      /\ doc2["path"] = f.path /\ doc2["on"] = f.on /\ doc2["auth"] = f.auth
      /\ doc2["prefix"] = FALSE /\ doc2["days"] = f.days
      /\ doc2["secret"] \in {f.secret, doc.secret}
  BY <1>2, <1>3 DEF Merge
<1>5. doc.secret \in Secrets \cup {NoSecret}
  BY DEF Docs
<1> HIDE DEF doc2
<1>6. doc2 \in Docs
  BY <1>1, <1>4, <1>5 DEF Docs
<1> QED
  BY <1>6 DEF doc2

(* The days of well-typed changes are those of a document. *)
LEMMA ChangedDays ==
  ASSUME NEW doc \in Docs, NEW ch, WellTyped(ch), "days" \in DOMAIN ch
  PROVE  ch.days \in Overrides \cup {NoDays} /\ Merge(doc, ch).days = ch.days
<1>1. Merge(doc, ch).days = ch.days
  BY DEF Merge, Docs
<1>2. Merge(doc, ch) \in Docs
  BY DEF WellTyped
<1> QED
  BY <1>1, <1>2 DEF Docs

LEMMA TypeInvInit == Init => TypeInv
<1> SUFFICES ASSUME Init PROVE TypeInv
  OBVIOUS
<1>1. WebhookHas /\ AdminHas
  BY DEF Init, WebhookHas, AdminHas
<1>2. clock \in 0..MaxTime /\ restarts \in 0..MaxRestarts
  BY InboxAssumption DEF Init
<1> QED
  BY <1>1, <1>2 DEF Init, TypeInv, TypeOK

LEMMA OpenType ==
  ASSUME TypeInv, NEW a \in Admins, NEW p \in Endpoints, NEW ch, WellTyped(ch),
         NEW isForm \in BOOLEAN, Open(a, p, ch, isForm)
  PROVE  TypeInv'
<1>1. endpoint[p] \in Docs /\ endpoint[p] # Unborn
  BY DocsAssumption DEF Open, Present
<1>2. AdminHas'
  BY <1>1 DEF Open, TypeInv, TypeOK, AdminHas, WellTyped, Accepts, Complete, Merge
<1>3. WebhookHas'
  BY DEF Open, webhook, TypeInv, WebhookHas
<1>4. TypeOK'
  BY <1>1 DEF Open, config, webhook, history, TypeInv, TypeOK
<1> QED
  BY <1>2, <1>3, <1>4 DEF TypeInv

LEMMA DoneType ==
  ASSUME TypeInv, NEW a \in Admins, Done(a) \/ Continue(a), apc[a] # "idle",
         \A p \in Endpoints : endpoint[p] # Unborn => endpoint'[p] # Unborn
  PROVE  /\ apc' \in [Admins -> {"idle", "update", "reapply"}]
         /\ target' \in [Admins -> Endpoints \cup {Nothing}]
         /\ copy' \in [Admins -> Docs \cup {Nothing}]
         /\ form' \in [Admins -> BOOLEAN]
         /\ AdminHas'
<1>1. CASE Done(a)
  BY <1>1 DEF Done, TypeInv, TypeOK, AdminHas, WellTyped, Accepts
<1>2. CASE "days" \in DOMAIN changes[a] /\ Continue(a)
  BY <1>2 DEF Continue, TypeInv, TypeOK, AdminHas, WellTyped, Accepts
<1> QED
  BY <1>1, <1>2 DEF Continue

LEMMA TypeInvNext == TypeInv /\ [Next]_vars => TypeInv'
<1> SUFFICES ASSUME TypeInv, [Next]_vars PROVE TypeInv'
  OBVIOUS
<1> USE DEF config, webhook, admin, history
<1>1. ASSUME NEW e \in Events, Dispatch(e) PROVE TypeInv'
  <2>1. PICK p \in Endpoints, c \in Creds \cup {Nothing} :
          /\ Present(p)
          /\ from' = [from EXCEPT ![e] = p]
          /\ seen' = [seen EXCEPT ![e] = endpoint[p]]
          /\ cred' = [cred EXCEPT ![e] = c]
    BY <1>1 DEF Dispatch
  <2>2. endpoint[p] \in Docs /\ endpoint[p] # Unborn
    BY <2>1, DocsAssumption DEF Present
  <2>3. WebhookHas'
    BY <1>1, <2>1, <2>2 DEF Dispatch, TypeInv, TypeOK, WebhookHas
  <2>4. AdminHas'
    BY <1>1 DEF Dispatch, TypeInv, AdminHas, WellTyped, Accepts
  <2> QED
    BY <1>1, <2>1, <2>2, <2>3, <2>4 DEF Dispatch, TypeInv, TypeOK
<1>2. ASSUME NEW e \in Events, Refuse(e) PROVE TypeInv'
  <2>1. WebhookHas' /\ AdminHas'
    BY <1>2 DEF Refuse, Forget, TypeInv, TypeOK, WebhookHas, AdminHas, WellTyped, Accepts
  <2> QED
    BY <1>2, <2>1 DEF Refuse, Forget, TypeInv, TypeOK
<1>3. ASSUME NEW e \in Events, Receive(e) PROVE TypeInv'
  <2>1. clock \in Nat /\ seen[e].days \in Overrides \cup {NoDays}
    BY <1>3, InboxAssumption DEF Receive, TypeInv, TypeOK, WebhookHas, Docs
  <2>2. ExpiresAt(seen[e].days, clock) \in Nat \cup {Never}
    BY <2>1, DaysType
  <2>3. WebhookHas' /\ AdminHas'
    BY <1>3 DEF Receive, TypeInv, TypeOK, WebhookHas, AdminHas, WellTyped, Accepts
  <2> QED
    BY <1>3, <2>1, <2>2, <2>3 DEF Receive, TypeInv, TypeOK
<1>4. ASSUME NEW e \in Events, Store(e) PROVE TypeInv'
  <2>1. WebhookHas' /\ AdminHas'
    BY <1>4 DEF Store, TypeInv, TypeOK, WebhookHas, AdminHas, WellTyped, Accepts
  <2> QED
    BY <1>4, <2>1 DEF Store, TypeInv, TypeOK
<1>5. ASSUME NEW e \in Events, Expire(e) PROVE TypeInv'
  <2>1. WebhookHas' /\ AdminHas'
    BY <1>5 DEF Expire, Forget, TypeInv, TypeOK, WebhookHas, AdminHas, WellTyped, Accepts
  <2> QED
    BY <1>5, <2>1 DEF Expire, Forget, TypeInv, TypeOK
<1>6. ASSUME NEW p \in Endpoints, Create(p) PROVE TypeInv'
  <2>1. PICK doc \in Docs : endpoint' = [endpoint EXCEPT ![p] = doc]
    BY <1>6, DocsAssumption DEF Create
  <2>2. WebhookHas' /\ AdminHas'
    BY <1>6, <2>1, DocsAssumption
    DEF Create, TypeInv, TypeOK, WebhookHas, AdminHas, WellTyped, Accepts
  <2> QED
    BY <1>6, <2>1, <2>2 DEF Create, TypeInv, TypeOK
<1>7. ASSUME NEW p \in Endpoints, Delete(p) PROVE TypeInv'
  <2>1. WebhookHas' /\ AdminHas'
    BY <1>7, DocsAssumption
    DEF Delete, TypeInv, TypeOK, WebhookHas, AdminHas, WellTyped, Accepts
  <2> QED
    BY <1>7, <2>1 DEF Delete, TypeInv, TypeOK
<1>8. ASSUME NEW a \in Admins, OpenPatch(a) PROVE TypeInv'
  BY <1>8, OpenType, PatchesAssumption DEF OpenPatch, WellTyped
<1>9. ASSUME NEW a \in Admins, OpenForm(a) PROVE TypeInv'
  BY <1>9, OpenType, FormTyped DEF OpenForm
<1>10. ASSUME NEW a \in Admins, Update(a) PROVE TypeInv'
  <2> DEFINE p == target[a]
  <2>1. /\ p \in Endpoints /\ endpoint[p] \in Docs /\ WellTyped(changes[a])
        /\ apc[a] = "update"
    BY <1>10 DEF Update, Present, TypeInv, AdminHas
  <2>2. Merge(endpoint[p], changes[a]) \in Docs
    BY <2>1 DEF WellTyped
  <2>3. /\ endpoint' \in [Endpoints -> Docs \cup {Unborn, Deleted}]
        /\ \A q \in Endpoints : endpoint[q] # Unborn => endpoint'[q] # Unborn
    BY <1>10, <2>1, <2>2, DocsAssumption DEF Update, TypeInv, TypeOK
  <2>4. WebhookHas'
    BY <1>10, <2>3 DEF Update, TypeInv, WebhookHas
  <2>5. raced' \subseteq Endpoints /\ crossed' \subseteq Endpoints
    BY <1>10, <2>1 DEF Update, TypeInv, TypeOK
  <2> QED
    BY <1>10, <2>1, <2>3, <2>4, <2>5, DoneType DEF Update, TypeInv, TypeOK
<1>11. ASSUME NEW a \in Admins, UpdateNothing(a) PROVE TypeInv'
  <2>1. WebhookHas'
    BY <1>11 DEF UpdateNothing, TypeInv, WebhookHas
  <2> QED
    BY <1>11, <2>1, DoneType DEF UpdateNothing, TypeInv, TypeOK
<1>12. ASSUME NEW a \in Admins, Reapply(a) PROVE TypeInv'
  <2>1. WebhookHas'
    BY <1>12 DEF Reapply, TypeInv, WebhookHas
  <2>2. changes[a].days \in Overrides \cup {NoDays}
    BY <1>12, ChangedDays DEF Reapply, TypeInv, AdminHas
  <2>3. expiry' \in [Events -> Nat \cup {Never}]
    BY <1>12, <2>2, DaysType DEF Reapply, TypeInv, TypeOK
  <2>4. raced' \subseteq Endpoints
    BY <1>12 DEF Reapply, TypeInv, TypeOK
  <2> QED
    BY <1>12, <2>1, <2>3, <2>4, DoneType DEF Reapply, TypeInv, TypeOK
<1>13. CASE Restart
  <2>1. WebhookHas' /\ AdminHas'
    BY <1>13 DEF Restart, InFlight, TypeInv, TypeOK, WebhookHas, AdminHas
  <2>2. restarts' \in 0..MaxRestarts
    BY <1>13, InboxAssumption DEF Restart, TypeInv, TypeOK
  <2>3. raced' \subseteq Endpoints
    BY <1>13 DEF Restart, TypeInv, TypeOK, AdminHas
  <2> QED
    BY <1>13, <2>1, <2>2, <2>3 DEF Restart, TypeInv, TypeOK
<1>14. CASE Tick
  <2>1. WebhookHas' /\ AdminHas'
    BY <1>14 DEF Tick, TypeInv, WebhookHas, AdminHas, WellTyped, Accepts
  <2>2. clock' \in 0..MaxTime
    BY <1>14, InboxAssumption DEF Tick, TypeInv, TypeOK
  <2> QED
    BY <1>14, <2>1, <2>2 DEF Tick, TypeInv, TypeOK
<1>15. CASE UNCHANGED vars
  BY <1>15 DEF vars, TypeInv, TypeOK, WebhookHas, AdminHas, WellTyped, Accepts
<1> QED
  BY <1>1, <1>2, <1>3, <1>4, <1>5, <1>6, <1>7, <1>8, <1>9, <1>10, <1>11,
     <1>12, <1>13, <1>14, <1>15 DEF Next

LEMMA TypeInvariant == Spec => []TypeInv
  BY TypeInvInit, TypeInvNext, PTL DEF Spec

(* Whatever is submitted, endpoints, events and requests keep their types. *)
THEOREM TypeCorrect == Spec => []TypeOK
<1>1. TypeInv => TypeOK
  BY DEF TypeInv
<1> QED
  BY TypeInvariant, <1>1, PTL

-----------------------------------------------------------------------------
(* Authentication.                                                         *)

LEMMA VerifyProves ==
  ASSUME NEW doc \in Docs, NEW c, Verify(doc, c)
  PROVE  doc.auth = "none" \/ (doc.secret \in Secrets /\ c.secret = doc.secret)
  BY DEF Verify, Matches, Docs

LEMMA FailsClosedNext == TypeInv /\ FailsClosed /\ [Next]_vars => FailsClosed'
<1> SUFFICES ASSUME TypeInv, FailsClosed, [Next]_vars PROVE FailsClosed'
  OBVIOUS
<1> USE DEF config, webhook, admin, history, FailsClosed
<1>0. /\ step \in [Events -> {"waiting", "body", "insert", "stored", "refused", "deleted"}]
      /\ seen \in [Events -> Docs \cup {Nothing}]
      /\ cred \in [Events -> Creds \cup {Nothing}]
  BY DEF TypeInv, TypeOK
<1>1. ASSUME NEW e \in Events, Dispatch(e) PROVE FailsClosed'
  BY <1>0, <1>1 DEF Dispatch
<1>2. ASSUME NEW e \in Events, Refuse(e) PROVE FailsClosed'
  BY <1>0, <1>2 DEF Refuse, Forget
<1>3. ASSUME NEW e \in Events, Receive(e) PROVE FailsClosed'
  <2>1. seen[e].auth = "none" \/ (seen[e].secret \in Secrets /\ cred[e].secret = seen[e].secret)
    BY <1>3, VerifyProves DEF Receive, TypeInv, WebhookHas
  <2> QED
    BY <1>0, <1>3, <2>1 DEF Receive
<1>4. ASSUME NEW e \in Events, Store(e) PROVE FailsClosed'
  BY <1>0, <1>4 DEF Store
<1>5. ASSUME NEW e \in Events, Expire(e) PROVE FailsClosed'
  BY <1>0, <1>5 DEF Expire, Forget
<1>6. ASSUME NEW p \in Endpoints, Create(p) \/ Delete(p) PROVE FailsClosed'
  BY <1>6 DEF Create, Delete
<1>7. ASSUME NEW a \in Admins,
             OpenPatch(a) \/ OpenForm(a) \/ Update(a) \/ UpdateNothing(a) \/ Reapply(a)
      PROVE  FailsClosed'
  BY <1>7 DEF OpenPatch, OpenForm, Open, Update, UpdateNothing, Reapply
<1>8. CASE Restart
  BY <1>0, <1>8 DEF Restart, InFlight
<1>9. CASE Tick \/ UNCHANGED vars
  BY <1>9 DEF Tick, vars
<1> QED
  BY <1>1, <1>2, <1>3, <1>4, <1>5, <1>6, <1>7, <1>8, <1>9 DEF Next

(* verify: an event is stored only from an endpoint that, as the request   *)
(* read it, required no authentication or had a secret the request proved, *)
(* for any concurrent updates.                                             *)
THEOREM VerifyFailsClosed == Spec => []FailsClosed
<1>1. Init => FailsClosed
  BY DEF Init, FailsClosed
<1> QED
  BY TypeInvariant, FailsClosedNext, <1>1, PTL DEF Spec

LEMMA StrandedNext ==
  TypeInv /\ StrandedOnlyByOverlap /\ [Next]_vars => StrandedOnlyByOverlap'
<1> SUFFICES ASSUME TypeInv, StrandedOnlyByOverlap, [Next]_vars
             PROVE  StrandedOnlyByOverlap'
  OBVIOUS
<1> USE DEF config, webhook, admin, history, StrandedOnlyByOverlap, Present
<1>0. endpoint \in [Endpoints -> Docs \cup {Unborn, Deleted}]
  BY DEF TypeInv, TypeOK
<1>1. ASSUME NEW e \in Events,
             Dispatch(e) \/ Refuse(e) \/ Receive(e) \/ Store(e) \/ Expire(e)
      PROVE  StrandedOnlyByOverlap'
  BY <1>1 DEF Dispatch, Refuse, Receive, Store, Expire
<1>2. ASSUME NEW p \in Endpoints, Create(p) PROVE StrandedOnlyByOverlap'
  BY <1>0, <1>2 DEF Create
<1>3. ASSUME NEW p \in Endpoints, Delete(p) PROVE StrandedOnlyByOverlap'
  BY <1>0, <1>3, DocsAssumption DEF Delete
<1>4. ASSUME NEW a \in Admins, Update(a) PROVE StrandedOnlyByOverlap'
  <2>1. Accepts(copy[a], changes[a]) /\ target[a] \in Endpoints
    BY <1>4 DEF Update, TypeInv, AdminHas
  <2>2. CASE copy[a] = endpoint[target[a]]
    BY <1>0, <1>4, <2>1, <2>2 DEF Update, Accepts
  <2>3. CASE copy[a] # endpoint[target[a]]
    BY <1>0, <1>4, <2>1, <2>3 DEF Update
  <2> QED
    BY <2>2, <2>3
<1>5. ASSUME NEW a \in Admins,
             OpenPatch(a) \/ OpenForm(a) \/ UpdateNothing(a) \/ Reapply(a)
      PROVE  StrandedOnlyByOverlap'
  BY <1>5 DEF OpenPatch, OpenForm, Open, UpdateNothing, Reapply
<1>6. CASE Restart \/ Tick \/ UNCHANGED vars
  BY <1>6 DEF Restart, Tick, vars
<1> QED
  BY <1>1, <1>2, <1>3, <1>4, <1>5, <1>6 DEF Next

(* update_endpoint, endpoint_save: the check of the merged copy lets an    *)
(* endpoint require authentication without a secret only after two updates *)
(* of it have crossed.                                                     *)
THEOREM StrandedByOverlap == Spec => []StrandedOnlyByOverlap
<1>1. Init => StrandedOnlyByOverlap
  BY DocsAssumption DEF Init, StrandedOnlyByOverlap, Present
<1> QED
  BY TypeInvariant, StrandedNext, <1>1, PTL DEF Spec

-----------------------------------------------------------------------------
(* Retention.                                                              *)

Reapplying(a, p) == apc[a] = "reapply" /\ target[a] = p

(* What is on its way to endpoint p agrees with it.  An event in flight    *)
(* has read the retention that p has, and so has a reapply, and no second  *)
(* reapply is about to follow; without one, the stored events agree.       *)
InFlightAgree(p) ==
    \A e \in Events : InFlight(e) /\ from[e] = p =>
        /\ seen[e].days = endpoint[p].days
        /\ step[e] = "insert" => expiry[e] = ExpiresAt(endpoint[p].days, received[e])

ReapplyAgrees(p) ==
    /\ \A a \in Admins : Reapplying(a, p) => changes[a].days = endpoint[p].days
    /\ \A a, b \in Admins : Reapplying(a, p) /\ Reapplying(b, p) => a = b

StoredAgree(p) ==
    (\A a \in Admins : ~Reapplying(a, p)) =>
        \A e \in Events : step[e] = "stored" /\ from[e] = p =>
            expiry[e] \in Expected(endpoint[p].days, received[e])

Agrees(p) == Present(p) /\ p \notin raced =>
                InFlightAgree(p) /\ ReapplyAgrees(p) /\ StoredAgree(p)

ExpiryInv == \A p \in Endpoints : Agrees(p)

(* expires_at and reapply both do what is expected of them.                *)
LEMMA BothExpected ==
  ASSUME NEW days, NEW at \in Nat
  PROVE  /\ ExpiresAt(days, at) \in Expected(days, at)
         /\ Reapplied(days, at) \in Expected(days, at)
  BY DEF Reapplied, ExpiresAt, Expected, NoDays

(* A step that is not about reapplying, and leaves p's days and the        *)
(* webhooks as they are.                                                   *)
LEMMA ExpiryFrame ==
  ASSUME TypeInv, ExpiryInv, NEW p \in Endpoints, Present(p), p \notin raced,
         endpoint'[p].days = endpoint[p].days,
         UNCHANGED <<retention, webhook>>,
         \A a \in Admins : /\ Reapplying(a, p)' <=> Reapplying(a, p)
                           /\ Reapplying(a, p) => changes'[a] = changes[a]
  PROVE  Agrees(p)'
<1>1. InFlightAgree(p) /\ ReapplyAgrees(p) /\ StoredAgree(p)
  BY DEF ExpiryInv, Agrees
<1>2. InFlightAgree(p)'
  BY <1>1 DEF webhook, InFlightAgree, InFlight, ExpiresAt, RetentionDays
<1>3. ReapplyAgrees(p)'
  BY <1>1 DEF ReapplyAgrees
<1>4. StoredAgree(p)'
  BY <1>1 DEF webhook, StoredAgree, Expected, ExpiresAt, RetentionDays
<1> QED
  BY <1>2, <1>3, <1>4 DEF Agrees

(* A step of one webhook request, which leaves the endpoints alone and     *)
(* whose result is right if it comes from p.                               *)
LEMMA ExpiryWebhook ==
  ASSUME TypeInv, ExpiryInv, NEW p \in Endpoints, Present(p), p \notin raced,
         NEW e \in Events, UNCHANGED <<retention, endpoint, admin, raced>>,
         \A d \in Events \ {e} :
            /\ step'[d] = step[d] /\ from'[d] = from[d] /\ seen'[d] = seen[d]
            /\ received'[d] = received[d] /\ expiry'[d] = expiry[d],
         from'[e] = p =>
            /\ step'[e] \in {"body", "insert"} => seen'[e].days = endpoint[p].days
            /\ step'[e] = "insert" =>
                 expiry'[e] = ExpiresAt(endpoint[p].days, received'[e])
            /\ step'[e] = "stored" =>
                 expiry'[e] \in Expected(endpoint[p].days, received'[e])
  PROVE  Agrees(p)'
<1>1. InFlightAgree(p) /\ ReapplyAgrees(p) /\ StoredAgree(p)
  BY DEF ExpiryInv, Agrees
<1>2. \A days, at : ExpiresAt(days, at)' = ExpiresAt(days, at)
  BY DEF ExpiresAt, RetentionDays
<1>3. InFlightAgree(p)'
  <2> SUFFICES ASSUME NEW d \in Events, InFlight(d)', from'[d] = p
               PROVE  /\ seen'[d].days = endpoint'[p].days
                      /\ step'[d] = "insert" =>
                           expiry'[d] = ExpiresAt(endpoint[p].days, received[d])'
    BY DEF InFlightAgree
  <2>1. CASE d = e
    BY <1>2, <2>1 DEF InFlight, ExpiresAt, RetentionDays
  <2>2. CASE d # e
    BY <1>1, <1>2, <2>2 DEF InFlightAgree, InFlight, ExpiresAt, RetentionDays
  <2> QED
    BY <2>1, <2>2
<1>4. ReapplyAgrees(p)'
  BY <1>1 DEF admin, ReapplyAgrees, Reapplying
<1>5. StoredAgree(p)'
  <2> SUFFICES ASSUME NEW d \in Events, step'[d] = "stored", from'[d] = p,
                      \A a \in Admins : ~Reapplying(a, p)
               PROVE  expiry'[d] \in Expected(endpoint[p].days, received[d])'
    BY DEF StoredAgree, admin, Reapplying
  <2>1. CASE d = e
    BY <2>1 DEF Expected, ExpiresAt, RetentionDays
  <2>2. CASE d # e
    BY <1>1, <2>2 DEF StoredAgree, Expected, ExpiresAt, RetentionDays
  <2> QED
    BY <2>1, <2>2
<1> QED
  BY <1>3, <1>4, <1>5 DEF Agrees

LEMMA ExpiryUpdate ==
  ASSUME TypeInv, ExpiryInv, NEW a \in Admins, Update(a),
         NEW p \in Endpoints, Present(p)', p \notin raced'
  PROVE  Agrees(p)'
<1> DEFINE q == target[a]
           dated == "days" \in DOMAIN changes[a]
<1>1. /\ apc[a] = "update" /\ q \in Endpoints /\ endpoint[q] \in Docs
      /\ WellTyped(changes[a]) /\ DOMAIN changes = Admins
  BY DEF Update, Present, TypeInv, AdminHas
<1>2. /\ endpoint' = [endpoint EXCEPT ![q] = Merge(endpoint[q], changes[a])]
      /\ p \notin raced
      /\ UNCHANGED <<retention, webhook>>
  BY DEF Update, config
<1>3. dated => apc' = [apc EXCEPT ![a] = "reapply"] /\ UNCHANGED <<target, changes>>
  BY DEF Update, Continue
<1>4. ~dated => Done(a)
  BY DEF Update, Continue
<1>5. CASE p # q \/ ~dated
  <2>1. endpoint'[p].days = endpoint[p].days /\ Present(p)
    BY <1>1, <1>2, <1>5 DEF Present, TypeInv, TypeOK, Merge, Docs
  <2>2. \A b \in Admins : /\ Reapplying(b, p)' <=> Reapplying(b, p)
                          /\ Reapplying(b, p) => changes'[b] = changes[b]
    BY <1>1, <1>3, <1>4, <1>5 DEF Done, Reapplying, TypeInv, TypeOK
  <2> QED
    BY <1>2, <2>1, <2>2, ExpiryFrame
<1>6. CASE p = q /\ dated
  <2>1. ~Overlapped(a, p)
    BY <1>6 DEF Update
  <2>2. endpoint'[p].days = changes[a].days
    BY <1>1, <1>2, <1>6, ChangedDays DEF TypeInv, TypeOK
  <2>3. \A b \in Admins : Reapplying(b, p)' <=> b = a
    BY <1>1, <1>3, <1>6, <2>1 DEF Overlapped, Reapplying, TypeInv, TypeOK
  <2>4. ReapplyAgrees(p)' /\ StoredAgree(p)'
    BY <1>3, <1>6, <2>2, <2>3 DEF ReapplyAgrees, StoredAgree
  <2>5. InFlightAgree(p)'
    BY <1>2, <2>1 DEF webhook, Overlapped, InFlightAgree, InFlight
  <2> QED
    BY <2>4, <2>5 DEF Agrees
<1> QED
  BY <1>5, <1>6

LEMMA ExpiryReapply ==
  ASSUME TypeInv, ExpiryInv, NEW a \in Admins, Reapply(a),
         NEW p \in Endpoints, Present(p)', p \notin raced'
  PROVE  Agrees(p)'
<1> DEFINE q == target[a]
<1>1. /\ Reapplying(a, q) /\ q \in Endpoints /\ Present(p)
      /\ changes[a].days \in Overrides \cup {NoDays}
  BY ChangedDays DEF Reapply, Reapplying, Present, TypeInv, AdminHas
<1>2. /\ expiry' = [e \in Events |-> IF step[e] = "stored" /\ from[e] = q
                                     THEN Reapplied(changes[a].days, received[e])
                                     ELSE expiry[e]]
      /\ Done(a)
      /\ UNCHANGED <<retention, endpoint, step, from, seen, received>>
  BY DEF Reapply, config
<1>3. \A days, at : ExpiresAt(days, at)' = ExpiresAt(days, at)
  BY <1>2 DEF ExpiresAt, RetentionDays
<1>4. \A b \in Admins \ {a} : /\ Reapplying(b, p)' <=> Reapplying(b, p)
                              /\ changes'[b] = changes[b]
  BY <1>2 DEF Done, Reapplying, TypeInv, TypeOK, AdminHas
<1>5. ~Reapplying(a, p)'
  BY <1>2 DEF Done, Reapplying, TypeInv, TypeOK
<1>6. CASE p # q
  <2>1. p \notin raced /\ Agrees(p)
    BY <1>6 DEF Reapply, ExpiryInv
  <2>2. InFlightAgree(p)'
    BY <1>1, <1>2, <1>3, <2>1 DEF Agrees, InFlightAgree, InFlight, ExpiresAt, RetentionDays
  <2>3. ReapplyAgrees(p)'
    BY <1>1, <1>2, <1>4, <1>5, <2>1 DEF Agrees, ReapplyAgrees
  <2>4. ~Reapplying(a, p)
    BY <1>6 DEF Reapplying
  <2>5. StoredAgree(p)'
    BY <1>1, <1>2, <1>3, <1>4, <1>6, <2>1, <2>4
    DEF Agrees, StoredAgree, Expected, ExpiresAt, RetentionDays
  <2> QED
    BY <2>2, <2>3, <2>5 DEF Agrees
<1>7. CASE p = q
  <2>1. changes[a].days = endpoint[p].days
    BY <1>1, <1>7 DEF Reapply, ExpiryInv, Agrees, ReapplyAgrees
  <2>2. \A b \in Admins : ~Reapplying(b, p)'
    BY <1>1, <1>4, <1>5, <1>7
    DEF Reapply, Overlapped, Reapplying, ExpiryInv, Agrees, ReapplyAgrees
  <2>3. ReapplyAgrees(p)'
    BY <2>2 DEF ReapplyAgrees
  <2>4. StoredAgree(p)'
    <3>1. ASSUME NEW e \in Events, step'[e] = "stored", from'[e] = p
          PROVE  expiry'[e] \in Expected(endpoint[p].days, received[e])
      <4>1. received[e] \in Nat
        BY DEF TypeInv, TypeOK
      <4>2. expiry'[e] = Reapplied(endpoint[p].days, received[e])
        BY <1>2, <1>7, <2>1, <3>1
      <4> QED
        BY <4>1, <4>2, BothExpected
    <3> QED
      BY <1>2, <3>1 DEF StoredAgree, Expected, ExpiresAt, RetentionDays
  <2>5. InFlightAgree(p)'
    <3>1. CASE p \in raced
      BY <1>2, <1>7, <3>1 DEF Reapply, Overlapped, InFlightAgree, InFlight
    <3>2. CASE p \notin raced
      BY <1>1, <1>2, <3>2
      DEF ExpiryInv, Agrees, InFlightAgree, InFlight, ExpiresAt, RetentionDays
    <3> QED
      BY <3>1, <3>2
  <2> QED
    BY <2>3, <2>4, <2>5 DEF Agrees
<1> QED
  BY <1>6, <1>7

LEMMA ExpiryRestart ==
  ASSUME TypeInv, ExpiryInv, Restart, NEW p \in Endpoints, Present(p)', p \notin raced'
  PROVE  Agrees(p)'
<1>1. Present(p) /\ p \notin raced
  BY DEF Restart, Present
<1>2. \A a \in Admins : ~Reapplying(a, p)
  BY DEF Restart, Reapplying
<1>3. \A at : Expected(endpoint[p].days, at)' = Expected(endpoint[p].days, at)
  <2>1. retention'.enabled = retention.enabled
    BY <1>1 DEF Restart
  <2>2. endpoint[p].days # NoDays \/ retention' = retention
    BY <1>1 DEF Restart
  <2>3. endpoint' = endpoint
    BY DEF Restart
  <2> QED
    BY <2>1, <2>2, <2>3 DEF Expected, ExpiresAt, RetentionDays
<1>4. InFlightAgree(p)' /\ ReapplyAgrees(p)'
  BY DEF Restart, InFlightAgree, InFlight, ReapplyAgrees, Reapplying, TypeInv, TypeOK
<1>5. StoredAgree(p)'
  <2>1. \A e \in Events : step'[e] = "stored" /\ from'[e] = p =>
          /\ step[e] = "stored" /\ from[e] = p
          /\ expiry'[e] = expiry[e] /\ received'[e] = received[e]
    BY DEF Restart, InFlight
  <2> QED
    BY <1>1, <1>2, <1>3, <2>1
    DEF Restart, ExpiryInv, Agrees, StoredAgree, Expected, ExpiresAt, RetentionDays
<1> QED
  BY <1>4, <1>5 DEF Agrees

LEMMA ExpiryNext == TypeInv /\ ExpiryInv /\ [Next]_vars => ExpiryInv'
<1> SUFFICES ASSUME TypeInv, ExpiryInv, [Next]_vars,
                    NEW p \in Endpoints, Present(p)', p \notin raced'
             PROVE  Agrees(p)'
  BY DEF ExpiryInv, Agrees
<1> USE DEF config, webhook, admin, history
<1>0. /\ step \in [Events -> {"waiting", "body", "insert", "stored", "refused", "deleted"}]
      /\ from \in [Events -> Endpoints \cup {Nothing}]
      /\ seen \in [Events -> Docs \cup {Nothing}]
      /\ received \in [Events -> Nat] /\ expiry \in [Events -> Nat \cup {Never}]
  BY DEF TypeInv, TypeOK
<1>1. ASSUME NEW e \in Events, Dispatch(e) PROVE Agrees(p)'
  <2>1. Present(p) /\ p \notin raced
    BY <1>1 DEF Dispatch, Present
  <2>2. from'[e] = p => seen'[e] = endpoint[p]
    BY <1>0, <1>1 DEF Dispatch
  <2> QED
    BY <1>0, <1>1, <2>1, <2>2, ExpiryWebhook DEF Dispatch
<1>2. ASSUME NEW e \in Events, Refuse(e) PROVE Agrees(p)'
  <2>1. Present(p) /\ p \notin raced
    BY <1>2 DEF Refuse, Present
  <2> QED
    BY <1>0, <1>2, <2>1, ExpiryWebhook DEF Refuse, Forget
<1>3. ASSUME NEW e \in Events, Receive(e) PROVE Agrees(p)'
  <2>1. Present(p) /\ p \notin raced
    BY <1>3 DEF Receive, Present
  <2>2. from[e] = p => seen[e].days = endpoint[p].days
    BY <1>3, <2>1 DEF Receive, ExpiryInv, Agrees, InFlightAgree, InFlight
  <2> QED
    BY <1>0, <1>3, <2>1, <2>2, ExpiryWebhook DEF Receive
<1>4. ASSUME NEW e \in Events, Store(e) PROVE Agrees(p)'
  <2>1. Present(p) /\ p \notin raced
    BY <1>4 DEF Store, Present
  <2>2. from[e] = p => expiry[e] \in Expected(endpoint[p].days, received[e])
    BY <1>0, <1>4, <2>1, BothExpected
    DEF Store, ExpiryInv, Agrees, InFlightAgree, InFlight
  <2> QED
    BY <1>0, <1>4, <2>1, <2>2, ExpiryWebhook DEF Store
<1>5. ASSUME NEW e \in Events, Expire(e) PROVE Agrees(p)'
  <2>1. Present(p) /\ p \notin raced
    BY <1>5 DEF Expire, Present
  <2> QED
    BY <1>0, <1>5, <2>1, ExpiryWebhook DEF Expire, Forget
<1>6. ASSUME NEW q \in Endpoints, Create(q) PROVE Agrees(p)'
  <2>1. CASE p = q
    <3>1. endpoint[p] = Unborn
      BY <1>6, <2>1 DEF Create
    <3>2. \A e \in Events : step[e] \in {"body", "insert", "stored"} => from[e] # p
      BY <3>1 DEF TypeInv, WebhookHas
    <3>3. \A a \in Admins : ~Reapplying(a, p)
      BY <3>1 DEF Reapplying, TypeInv, AdminHas
    <3> QED
      BY <1>6, <3>2, <3>3
      DEF Create, Agrees, InFlightAgree, InFlight, ReapplyAgrees, StoredAgree, Reapplying
  <2>2. CASE p # q
    <3>1. Present(p) /\ p \notin raced /\ endpoint'[p].days = endpoint[p].days
      BY <1>6, <2>2 DEF Create, Present, TypeInv, TypeOK
    <3> QED
      BY <1>6, <3>1, ExpiryFrame DEF Create, Reapplying
  <2> QED
    BY <2>1, <2>2
<1>7. ASSUME NEW q \in Endpoints, Delete(q) PROVE Agrees(p)'
  <2>1. p # q
    BY <1>7, DocsAssumption DEF Delete, Present, TypeInv, TypeOK
  <2>2. Present(p) /\ p \notin raced /\ endpoint'[p].days = endpoint[p].days
    BY <1>7, <2>1 DEF Delete, Present, TypeInv, TypeOK
  <2> QED
    BY <1>7, <2>2, ExpiryFrame DEF Delete, Reapplying
<1>8. ASSUME NEW a \in Admins, OpenPatch(a) \/ OpenForm(a) PROVE Agrees(p)'
  <2>1. PICK q, ch, isForm : Open(a, q, ch, isForm)
    BY <1>8 DEF OpenPatch, OpenForm
  <2>2. Present(p) /\ p \notin raced
    BY <2>1 DEF Open, Present
  <2>3. \A b \in Admins : /\ Reapplying(b, p)' <=> Reapplying(b, p)
                          /\ Reapplying(b, p) => changes'[b] = changes[b]
    BY <2>1 DEF Open, Reapplying, TypeInv, TypeOK, AdminHas
  <2> QED
    BY <2>1, <2>2, <2>3, ExpiryFrame DEF Open
<1>9. ASSUME NEW a \in Admins, Update(a) PROVE Agrees(p)'
  BY <1>9, ExpiryUpdate
<1>10. ASSUME NEW a \in Admins, UpdateNothing(a) PROVE Agrees(p)'
  <2>1. Present(p) /\ p \notin raced
    BY <1>10 DEF UpdateNothing, Present
  <2>2. CASE Done(a)
    <3>1. \A b \in Admins : /\ Reapplying(b, p)' <=> Reapplying(b, p)
                            /\ Reapplying(b, p) => changes'[b] = changes[b]
      BY <1>10, <2>2 DEF UpdateNothing, Done, Reapplying, TypeInv, TypeOK, AdminHas
    <3> QED
      BY <1>10, <2>1, <3>1, ExpiryFrame DEF UpdateNothing
  <2>3. CASE ~Present(target[a]) /\ "days" \in DOMAIN changes[a] /\ Continue(a)
    <3>1. \A b \in Admins : /\ Reapplying(b, p)' <=> Reapplying(b, p)
                            /\ Reapplying(b, p) => changes'[b] = changes[b]
      BY <1>10, <2>1, <2>3
      DEF UpdateNothing, Continue, Reapplying, TypeInv, TypeOK, AdminHas
    <3> QED
      BY <1>10, <2>1, <3>1, ExpiryFrame DEF UpdateNothing
  <2> QED
    BY <1>10, <2>2, <2>3 DEF UpdateNothing, Continue
<1>11. ASSUME NEW a \in Admins, Reapply(a) PROVE Agrees(p)'
  BY <1>11, ExpiryReapply
<1>12. CASE Restart
  BY <1>12, ExpiryRestart
<1>13. CASE Tick \/ UNCHANGED vars
  <2>1. Present(p) /\ p \notin raced
    BY <1>13 DEF Tick, vars, Present
  <2> QED
    BY <1>13, <2>1, ExpiryFrame DEF Tick, vars, Reapplying
<1> QED
  BY <1>1, <1>2, <1>3, <1>4, <1>5, <1>6, <1>7, <1>8, <1>9, <1>10, <1>11,
     <1>12, <1>13 DEF Next

(* retention.reapply: whatever overlaps, a stored event's expiry agrees    *)
(* with its endpoint until one of the marked overlaps, a crash or another  *)
(* configuration comes between.  With zero days it may be that of ingest   *)
(* or that of reapply.                                                     *)
THEOREM ExpiryKept == Spec => []ExpiryAgrees
<1>1. Init => ExpiryInv
  BY DocsAssumption DEF Init, ExpiryInv, Agrees, Present
<1>2. TypeInv /\ ExpiryInv /\ [Next]_vars => ExpiryInv'
  BY ExpiryNext
<1>3. ExpiryInv => ExpiryAgrees
  BY DEF ExpiryInv, Agrees, StoredAgree, Reapplying, ExpiryAgrees
<1> QED
  BY TypeInvariant, <1>1, <1>2, <1>3, PTL DEF Spec
=============================================================================
