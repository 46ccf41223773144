------------------------------- MODULE Inbox -------------------------------
(***************************************************************************)
(* Endpoints, the webhooks they receive, and how long these are kept:      *)
(* app/ingest/receiver.py, app/ingest/signature.py, app/retention.py, the  *)
(* endpoint API (app/api/endpoints.py) and the endpoint form               *)
(* (app/web/routes.py).                                                    *)
(*                                                                         *)
(* Every request works on a copy of the endpoint it read before an await.  *)
(* An event is identified with the webhook request that may store it.      *)
(* The unit of time is a day.                                              *)
(***************************************************************************)
EXTENDS Integers

CONSTANTS
    Endpoints,    \* _ids of endpoint documents
    Events,       \* webhook requests, and the events they become
    Admins,       \* concurrent requests that change an endpoint
    Paths,
    Secrets, NoSecret,
    Creds,        \* what webhook requests carry: [kind, secret, prefixed]
    Overrides,    \* values of retention_days, all positive
    Defaults,     \* values of retention.default_days in the configuration
    NewDocs,      \* documents that create requests insert
    Patches,      \* bodies of PATCH requests: records of some of the fields
    Forms,        \* submitted endpoint forms
    Unborn, Deleted, Nothing,
    MaxTime,      \* bound: the clock stops here
    MaxRestarts   \* bound: restarts of the application

NoDays == -1      \* None
Never  == -1      \* the field expires_at is absent

ASSUME InboxAssumption ==
    /\ Overrides \subseteq Nat \ {0}
    /\ Defaults \subseteq Nat
    /\ NoSecret \notin Secrets
    /\ MaxTime \in Nat /\ MaxRestarts \in Nat

(* An endpoint document: `on` is enabled; `prefix` says that               *)
(* signature_prefix is "sha256=", and not missing or empty.  The header's  *)
(* name, the methods and the size limit are left out.                      *)
Docs == [path : Paths, on : BOOLEAN, auth : {"none", "static", "hmac"}, prefix : BOOLEAN,
         secret : Secrets \cup {NoSecret}, days : Overrides \cup {NoDays}]

ASSUME DocsAssumption ==
    /\ NewDocs \subseteq Docs
    /\ {Unborn, Deleted, Nothing} \cap Docs = {} /\ Unborn # Deleted
    /\ Forms \subseteq [path : Paths, on : BOOLEAN, auth : {"none", "static", "hmac"},
                       secret : Secrets \cup {NoSecret}, days : Overrides \cup {NoDays}]

VARIABLES
    clock,
    retention,  \* settings.retention: [enabled, days]
    endpoint,   \* db.endpoints
    \* webhook requests and db.events
    step,
    from,       \* the endpoint's id
    seen,       \* the endpoint as the request read it
    cred,
    received,   \* received_at
    expiry,     \* expires_at
    \* requests of administrators
    apc,
    target,     \* endpoint id
    copy,       \* the document read first
    changes,    \* what to_changes returned
    form,       \* the request is a form, and not a PATCH
    \* history
    raced,      \* endpoints whose retention change overlapped something else
    crossed,    \* endpoints updated by a request whose copy was out of date
    restarts

config  == <<clock, retention>>
webhook == <<step, from, seen, cred, received, expiry>>
admin   == <<apc, target, copy, changes, form>>
history == <<raced, crossed, restarts>>
vars    == <<config, endpoint, webhook, admin, history>>

Present(p) == endpoint[p] \in Docs
InFlight(e) == step[e] \in {"body", "insert"}

TypeOK ==
    /\ clock \in 0..MaxTime
    /\ retention \in [enabled : BOOLEAN, days : Defaults]
    /\ endpoint \in [Endpoints -> Docs \cup {Unborn, Deleted}]
    /\ step \in [Events -> {"waiting", "body", "insert", "stored", "refused", "deleted"}]
    /\ from \in [Events -> Endpoints \cup {Nothing}]
    /\ seen \in [Events -> Docs \cup {Nothing}]
    /\ cred \in [Events -> Creds \cup {Nothing}]
    /\ received \in [Events -> Nat]
    /\ expiry \in [Events -> Nat \cup {Never}]
    /\ apc \in [Admins -> {"idle", "update", "reapply"}]
    /\ target \in [Admins -> Endpoints \cup {Nothing}]
    /\ copy \in [Admins -> Docs \cup {Nothing}]
    /\ form \in [Admins -> BOOLEAN]
    /\ raced \subseteq Endpoints /\ crossed \subseteq Endpoints
    /\ restarts \in 0..MaxRestarts

Init ==
    /\ clock = 0
    /\ retention \in [enabled : BOOLEAN, days : Defaults]
    /\ endpoint = [p \in Endpoints |-> Unborn]
    /\ step = [e \in Events |-> "waiting"]
    /\ from = [e \in Events |-> Nothing]
    /\ seen = [e \in Events |-> Nothing]
    /\ cred = [e \in Events |-> Nothing]
    /\ received = [e \in Events |-> 0]
    /\ expiry = [e \in Events |-> Never]
    /\ apc = [a \in Admins |-> "idle"]
    /\ target = [a \in Admins |-> Nothing]
    /\ copy = [a \in Admins |-> Nothing]
    /\ changes = [a \in Admins |-> Nothing]
    /\ form = [a \in Admins |-> FALSE]
    /\ raced = {} /\ crossed = {} /\ restarts = 0

-----------------------------------------------------------------------------
(* retention.py                                                            *)

(* retention_days *)
RetentionDays(days) ==
    IF ~retention.enabled THEN NoDays
    ELSE IF days # NoDays THEN days ELSE retention.days

(* expires_at: no days and zero days alike leave the event without expiry. *)
ExpiresAt(days, at) ==
    IF RetentionDays(days) \in {NoDays, 0} THEN Never ELSE at + RetentionDays(days)

(* Mutant: the new expiry counts from the moment of the change. *)
ReappliedFromNow(days, at) ==
    IF RetentionDays(days) = NoDays THEN Never ELSE clock + RetentionDays(days)

(* reapply: $unset without days, $dateAdd with any number, zero included. *)
Reapplied(days, at) ==
    IF RetentionDays(days) = NoDays THEN Never ELSE at + RetentionDays(days)

-----------------------------------------------------------------------------
(* signature.py                                                            *)

(* static_secret compares the value; hmac_sha256 compares the digest once  *)
(* the configured prefix, if any, is removed.                              *)
Matches(doc, c) ==
    /\ c.kind = doc.auth
    /\ c.secret = doc.secret
    /\ doc.auth = "hmac" /\ c.prefixed => doc.prefix

(* Mutant: an endpoint without a secret has nothing to check. *)
VerifyOpen(doc, c) ==
    doc.auth = "none" \/ doc.secret = NoSecret \/ (c # Nothing /\ Matches(doc, c))

(* verify: fails closed. *)
Verify(doc, c) ==
    doc.auth = "none" \/ (doc.secret # NoSecret /\ c # Nothing /\ Matches(doc, c))

-----------------------------------------------------------------------------
(* receive: the webhook request e.                                         *)

(* The endpoint is found by its path and is enabled; the methods, like the *)
(* limits and the rate limiter before, can only refuse.                    *)
Dispatch(e) ==
    /\ step[e] = "waiting"
    /\ \E p \in Endpoints, c \in Creds \cup {Nothing} :
         /\ Present(p) /\ endpoint[p].on
         /\ from' = [from EXCEPT ![e] = p]
         /\ seen' = [seen EXCEPT ![e] = endpoint[p]]
         /\ cred' = [cred EXCEPT ![e] = c]
    /\ step' = [step EXCEPT ![e] = "body"]
    /\ UNCHANGED <<config, endpoint, received, expiry, admin, history>>

Forget(e) ==
    /\ from' = [from EXCEPT ![e] = Nothing]
    /\ seen' = [seen EXCEPT ![e] = Nothing]
    /\ cred' = [cred EXCEPT ![e] = Nothing]

(* Any early return: too large, 401, and for a request that finds no       *)
(* enabled endpoint 404, 403 or 405.                                       *)
Refuse(e) ==
    /\ step[e] \in {"waiting", "body"}
    /\ step' = [step EXCEPT ![e] = "refused"]
    /\ Forget(e)
    /\ UNCHANGED <<config, endpoint, received, expiry, admin, history>>

(* The body is complete and the signature is right: from here to           *)
(* insert_one nothing is awaited.                                          *)
Receive(e) ==
    /\ step[e] = "body"
    /\ Verify(seen[e], cred[e])
    /\ received' = [received EXCEPT ![e] = clock]
    /\ expiry' = [expiry EXCEPT ![e] = ExpiresAt(seen[e].days, clock)]
    /\ step' = [step EXCEPT ![e] = "insert"]
    /\ UNCHANGED <<config, endpoint, from, seen, cred, admin, history>>

(* insert_one has arrived. *)
Store(e) ==
    /\ step[e] = "insert"
    /\ step' = [step EXCEPT ![e] = "stored"]
    /\ UNCHANGED <<config, endpoint, from, seen, cred, received, expiry, admin, history>>

(* The TTL monitor (external) removes what is past its expires_at. *)
Expire(e) ==
    /\ step[e] = "stored"
    /\ expiry[e] # Never /\ expiry[e] <= clock
    /\ step' = [step EXCEPT ![e] = "deleted"]
    /\ Forget(e)
    /\ UNCHANGED <<config, endpoint, received, expiry, admin, history>>

-----------------------------------------------------------------------------
(* Administration: api/endpoints.py and the forms of web/routes.py.        *)

(* The unique index on path: another document has it. *)
Taken(path, p) == \E q \in Endpoints \ {p} : Present(q) /\ endpoint[q].path = path

(* require_secret_when_authenticated, and the check of merged. *)
Complete(doc) == doc.auth # "none" => doc.secret # NoSecret

(* create_endpoint, endpoint_create: 201, unless the path is taken. *)
Create(p) ==
    /\ endpoint[p] = Unborn
    /\ \E doc \in NewDocs :
         /\ Complete(doc) /\ ~Taken(doc.path, p)
         /\ endpoint' = [endpoint EXCEPT ![p] = doc]
    /\ UNCHANGED <<config, webhook, admin, history>>

(* delete_endpoint, endpoint_delete: the events stay. *)
Delete(p) ==
    /\ Present(p)
    /\ endpoint' = [endpoint EXCEPT ![p] = Deleted]
    /\ UNCHANGED <<config, webhook, admin, history>>

(* {**document, **changes}, and what $set does to a document *)
Merge(doc, ch) == [f \in DOMAIN doc |-> IF f \in DOMAIN ch THEN ch[f] ELSE doc[f]]

(* EndpointUpdate accepts only values that a document may hold. *)
ASSUME PatchesAssumption ==
    \A ch \in Patches : \A doc \in Docs : Merge(doc, ch) \in Docs

(* Mutant: only what was submitted is looked at. *)
AcceptsAny(doc, ch) == TRUE

(* update_endpoint, endpoint_save: the check of merged. *)
Accepts(doc, ch) == Complete(Merge(doc, ch))

(* Mutant: a blank number of days is zero days. *)
FormChangesZero(f) ==
    [k \in {"path", "on", "auth", "prefix", "days"} |->
        IF k = "prefix" THEN FALSE
        ELSE IF k = "days" /\ f.days = NoDays THEN 0 ELSE f[k]]

(* _parse_endpoint_form, endpoint_save: a blank secret is not a change, an *)
(* AuthConfig made from the type alone has no signature_prefix to dump.    *)
FormChanges(f) ==
    LET fields == {"path", "on", "auth", "prefix", "days"}
                    \cup IF f.secret = NoSecret THEN {} ELSE {"secret"}
    IN  [k \in fields |-> IF k = "prefix" THEN FALSE ELSE f[k]]

(* find_one, the validation, and the check of merged; a refusal (404, 422) *)
(* changes nothing.                                                        *)
Open(a, p, ch, isForm) ==
    /\ apc[a] = "idle"
    /\ Present(p) /\ Accepts(endpoint[p], ch)
    /\ apc' = [apc EXCEPT ![a] = "update"]
    /\ target' = [target EXCEPT ![a] = p]
    /\ copy' = [copy EXCEPT ![a] = endpoint[p]]
    /\ changes' = [changes EXCEPT ![a] = ch]
    /\ form' = [form EXCEPT ![a] = isForm]
    /\ UNCHANGED <<config, endpoint, webhook, history>>

OpenPatch(a) == \E p \in Endpoints, ch \in Patches : Open(a, p, ch, FALSE)
OpenForm(a)  == \E p \in Endpoints, f \in Forms : Open(a, p, FormChanges(f), TRUE)

Done(a) ==
    /\ apc' = [apc EXCEPT ![a] = "idle"]
    /\ target' = [target EXCEPT ![a] = Nothing]
    /\ copy' = [copy EXCEPT ![a] = Nothing]
    /\ changes' = [changes EXCEPT ![a] = Nothing]
    /\ form' = [form EXCEPT ![a] = FALSE]

(* if "retention_days" in changes *)
Continue(a) ==
    IF "days" \in DOMAIN changes[a]
    THEN apc' = [apc EXCEPT ![a] = "reapply"] /\ UNCHANGED <<target, copy, changes, form>>
    ELSE Done(a)

(* Another request is about to reapply a retention to p's events, or to    *)
(* insert one with the expiry of the endpoint it has read.                 *)
Overlapped(a, p) ==
    \/ \E b \in Admins \ {a} : apc[b] = "reapply" /\ target[b] = p
    \/ \E e \in Events : InFlight(e) /\ from[e] = p

(* find_one_and_update, update_one: $set of the changes on whatever the    *)
(* document holds by now.                                                  *)
Update(a) ==
    LET p == target[a]
    IN  /\ apc[a] = "update"
        /\ Present(p) /\ ~("path" \in DOMAIN changes[a] /\ Taken(changes[a].path, p))
        /\ endpoint' = [endpoint EXCEPT ![p] = Merge(endpoint[p], changes[a])]
        /\ crossed' = IF copy[a] # endpoint[p] THEN crossed \cup {p} ELSE crossed
        /\ raced' = IF "days" \in DOMAIN changes[a] /\ Overlapped(a, p)
                    THEN raced \cup {p} ELSE raced
        /\ Continue(a)
        /\ UNCHANGED <<config, webhook, restarts>>

(* The path was taken meanwhile, or the document is gone: 409 or 404; only *)
(* the form does not notice that its update_one matched nothing.           *)
UpdateNothing(a) ==
    LET p == target[a]
    IN  /\ apc[a] = "update"
        /\ ~Present(p) \/ ("path" \in DOMAIN changes[a] /\ Taken(changes[a].path, p))
        /\ IF form[a] /\ ~Present(p) THEN Continue(a) ELSE Done(a)
        /\ UNCHANGED <<config, endpoint, webhook, history>>

(* reapply: update_many on the events stored by now, with the retention    *)
(* this request has set.  Undisturbed, it also repairs what earlier        *)
(* overlaps left behind.                                                   *)
Reapply(a) ==
    LET p == target[a]
        days == changes[a].days
    IN  /\ apc[a] = "reapply"
        /\ expiry' = [e \in Events |->
                        IF step[e] = "stored" /\ from[e] = p
                        THEN Reapplied(days, received[e]) ELSE expiry[e]]
        /\ raced' = IF Present(p) /\ endpoint[p].days = days /\ ~Overlapped(a, p)
                    THEN raced \ {p} ELSE raced
        /\ Done(a)
        /\ UNCHANGED <<config, endpoint, step, from, seen, cred, received, crossed, restarts>>

-----------------------------------------------------------------------------
(* The process stops at any point, its requests are lost, and it starts    *)
(* again, perhaps with another configuration.  An update between its two   *)
(* halves is never completed.                                              *)
Restart ==
    /\ restarts < MaxRestarts
    /\ restarts' = restarts + 1
    /\ retention' \in [enabled : BOOLEAN, days : Defaults]
    /\ raced' = raced \cup {target[a] : a \in {b \in Admins : apc[b] = "reapply"}}
                      \cup {p \in Endpoints :
                              /\ Present(p)
                              /\ \/ retention'.enabled # retention.enabled
                                 \/ endpoint[p].days = NoDays /\ retention' # retention}
    /\ step' = [e \in Events |-> IF InFlight(e) THEN "refused" ELSE step[e]]
    /\ from' = [e \in Events |-> IF InFlight(e) THEN Nothing ELSE from[e]]
    /\ seen' = [e \in Events |-> IF InFlight(e) THEN Nothing ELSE seen[e]]
    /\ cred' = [e \in Events |-> IF InFlight(e) THEN Nothing ELSE cred[e]]
    /\ apc' = [a \in Admins |-> "idle"]
    /\ target' = [a \in Admins |-> Nothing]
    /\ copy' = [a \in Admins |-> Nothing]
    /\ changes' = [a \in Admins |-> Nothing]
    /\ form' = [a \in Admins |-> FALSE]
    /\ UNCHANGED <<clock, endpoint, received, expiry, crossed>>

Tick ==
    /\ clock < MaxTime
    /\ clock' = clock + 1
    /\ UNCHANGED <<retention, endpoint, webhook, admin, history>>

Next ==
    \/ \E e \in Events : \/ Dispatch(e) \/ Refuse(e) \/ Receive(e) \/ Store(e)
                         \/ Expire(e)
    \/ \E p \in Endpoints : Create(p) \/ Delete(p)
    \/ \E a \in Admins : \/ OpenPatch(a) \/ OpenForm(a)
                         \/ Update(a) \/ UpdateNothing(a) \/ Reapply(a)
    \/ Restart \/ Tick

Spec == Init /\ [][Next]_vars

-----------------------------------------------------------------------------
(* What a retention of zero days may have made of an event: expires_at     *)
(* gave it no expiry, reapply one at once.                                 *)
Expected(days, at) ==
    {ExpiresAt(days, at)} \cup IF RetentionDays(days) = 0 THEN {at} ELSE {}

(* reapply keeps its word as long as nothing gets between: every stored    *)
(* event of an endpoint expires when the endpoint's retention says, unless *)
(* a change of it overlapped an ingest or another change, was cut off by a *)
(* crash, or the configuration has changed - and then only until the next  *)
(* undisturbed change.  Only of zero days ingest and reapply think         *)
(* differently.                                                            *)
ExpiryAgrees ==
    \A e \in Events, p \in Endpoints :
        /\ step[e] = "stored" /\ from[e] = p
        /\ Present(p) /\ p \notin raced
        /\ ~\E a \in Admins : apc[a] = "reapply" /\ target[a] = p
        => expiry[e] \in Expected(endpoint[p].days, received[e])

(* verify fails closed: whatever state concurrent updates have left an     *)
(* endpoint in, an event is stored from it only if it then required no     *)
(* authentication, or had a secret that the request has proved to know.    *)
FailsClosed ==
    \A e \in Events : step[e] \in {"insert", "stored"} =>
        \/ seen[e].auth = "none"
        \/ seen[e].secret \in Secrets /\ cred[e].secret = seen[e].secret

(* The check of merged works for updates that do not overlap: an endpoint  *)
(* requires authentication without having a secret only when two updates   *)
(* of it have crossed.                                                     *)
StrandedOnlyByOverlap ==
    \A p \in Endpoints : Present(p) /\ ~Complete(endpoint[p]) => p \in crossed

-----------------------------------------------------------------------------
(* What the documentation and the tests say, checked against the code.     *)

(* docs/configuration.md on authentication.signature_prefix: "Stripped     *)
(* before comparison, e.g. `sha256=`"; a save that does not name the       *)
(* prefix leaves it alone.                                                 *)
PrefixKept ==
    [][\A p \in Endpoints :
         /\ Present(p) /\ Present(p)'
         /\ endpoint[p].auth = "hmac" /\ endpoint'[p].auth = "hmac"
         => endpoint'[p].prefix = endpoint[p].prefix]_vars
=============================================================================
