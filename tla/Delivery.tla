------------------------------ MODULE Delivery ------------------------------
(***************************************************************************)
(* One replay job's way over the network: the check when it is queued, and *)
(* for every attempt the resolution, the check, the connection to a pinned *)
(* address, the response and the redirects (app/replay/ssrf.py,            *)
(* app/replay/runner.py), with the rejections and retries that follow.     *)
(*                                                                         *)
(* DNS belongs to somebody else and changes between any two steps.  A      *)
(* host resolves to a set of addresses; which one getaddrinfo puts first   *)
(* is arbitrary.  The leases of the queue are module ReplayQueue's: here   *)
(* a job is queued, done, or at work in one worker that keeps its lease.   *)
(***************************************************************************)
EXTENDS Integers, FiniteSets

CONSTANTS
    Hosts,            \* host names with a well-formed, credential-free http(s) URL
    BadUrl,           \* a URL that validate refuses for its form
    Addresses,
    Special,          \* private, loopback, link-local, multicast, reserved, unspecified
    Mapped,           \* ipv4_mapped: the address inside, or the address itself
    AllowPrivate,     \* ReplayConfig.allow_private_networks
    AllowRedirects,   \* ReplayConfig.allow_redirects
    MaxRedirects,     \* ReplayConfig.max_redirects
    MaxResponseSize,  \* ReplayConfig.max_response_size, in chunks' units
    MaxAttempts,      \* max_retries + 1
    Statuses,         \* status codes the destinations answer with
    Destination,      \* the URL the job was queued for
    NoTarget,
    MaxClaims,        \* bound: attempts a run makes, interrupted ones included
    MaxBody           \* bound: size of a response body

ASSUME DeliveryAssumption ==
    /\ Special \subseteq Addresses
    /\ Mapped \in [Addresses -> Addresses]
    /\ AllowPrivate \in BOOLEAN /\ AllowRedirects \in BOOLEAN
    /\ MaxRedirects \in Nat /\ MaxResponseSize \in Nat /\ MaxAttempts \in Nat
    /\ MaxClaims \in Nat /\ MaxBody \in Nat
    /\ Statuses \subseteq 100..599
    /\ Destination \in Hosts \cup {BadUrl}
    /\ BadUrl \notin Hosts

VARIABLES
    dns,        \* what each host resolves to now
    pc,
    attempt,    \* attempts claimed
    url,        \* `url` of _send
    hop,        \* iterations of the redirect loop begun
    target,     \* the Destination that validate returned
    total,      \* bytes of the response read
    kept,       \* bytes of the response kept
    truncated,
    status,     \* status code of the response being read
    outcome,    \* the Attempt that execute returned
    \* history
    contact,    \* the connection in use: where it goes and what was checked
    requests,   \* requests sent in this attempt
    barred      \* an attempt was rejected by validation, and nothing has since
                \* kept the worker from recording that

vars == <<dns, pc, attempt, url, hop, target, total, kept, truncated, status,
          outcome, contact, requests, barred>>

request  == <<url, hop, target>>
response == <<total, kept, truncated, status>>

Urls == Hosts \cup {BadUrl}

(* A Destination: the URL and the address its host resolved to. *)
Targets == [host : Hosts, ip : Addresses, answer : SUBSET Addresses]

NoOutcome == [error |-> "none", code |-> 0]

Errors == {"none", "destination", "timeout", "transport"}

Outcomes == [error : Errors, code : Statuses \cup {0}]

TypeOK ==
    /\ dns \in [Hosts -> SUBSET Addresses]
    /\ pc \in {"api", "refused", "queued", "validate", "connect", "body", "redirect",
               "settle", "success", "failed"}
    /\ attempt \in 0..MaxClaims
    /\ url \in Urls
    /\ hop \in 0..(MaxRedirects + 1)
    /\ target \in Targets \cup {NoTarget}
    /\ total \in 0..MaxBody /\ kept \in 0..MaxBody /\ truncated \in BOOLEAN
    /\ status \in Statuses \cup {0}
    /\ outcome \in Outcomes
    /\ contact \in [url : Urls, to : Targets] \cup {NoTarget}
    /\ requests \in 0..(MaxRedirects + 1)
    /\ barred \in BOOLEAN

Init ==
    /\ dns \in [Hosts -> SUBSET Addresses]
    /\ pc = "api" /\ attempt = 0
    /\ url = Destination /\ hop = 0 /\ target = NoTarget
    /\ total = 0 /\ kept = 0 /\ truncated = FALSE /\ status = 0
    /\ outcome = NoOutcome
    /\ contact = NoTarget /\ requests = 0 /\ barred = FALSE

-----------------------------------------------------------------------------
(* ssrf.py                                                                 *)

(* Mutant: an IPv4-mapped address is taken at face value. *)
IsBlockedUnmapped(ip) == ip \in Special

(* is_blocked *)
IsBlocked(ip) == Mapped[ip] \in Special

(* validate: the name resolves, and every address it resolves to passes. *)
Acceptable(answer) ==
    answer # {} /\ (AllowPrivate \/ \A ip \in answer : ~IsBlocked(ip))

(* validate: a well-formed URL whose host passes, pinned to one address of *)
(* the answer that was checked.                                            *)
Validated(u) ==
    IF u \in Hosts /\ Acceptable(dns[u])
    THEN {[host |-> u, ip |-> ip, answer |-> dns[u]] : ip \in dns[u]}
    ELSE {}

-----------------------------------------------------------------------------
(* runner.py: what is sent                                                 *)

CredentialHeaders == {"authorization", "cookie", "proxy-authorization"}
HopByHop == {"host", "content-length", "connection", "transfer-encoding", "te",
             "upgrade", "expect"}
BlockedHeaders == CredentialHeaders \cup HopByHop

(* FORWARD_EXACT, and of the names that FORWARD_PREFIXES matches some that *)
(* stand for all.                                                          *)
ForwardNames == {"content-type", "accept", "user-agent", "x-hub-signature-256",
                 "x-forwarded-host", "stripe-signature"}

Forwardable(original) == (original \ BlockedHeaders) \cap ForwardNames

(* merge_headers: where each header that is sent comes from. *)
MergeHeaders(original, custom) ==
    [h \in Forwardable(original) \cup (custom \ HopByHop) |->
        IF h \in custom THEN "typed" ELSE "captured"]

-----------------------------------------------------------------------------
(* runner.py: how an answer is judged                                      *)

RetryableStatus == {429, 500, 502, 503, 504, 507, 508, 509}

Answered(code) == [error |-> "none", code |-> code]
Failed(e)      == [error |-> e, code |-> 0]

Succeeded(a) == a.error = "none" /\ a.code < 400

(* Mutant: a rejected destination counts as a failure like any other. *)
RetryableRejection(a) == a.error # "none" \/ a.code \in RetryableStatus

Retryable(a) == \/ a.error \in {"timeout", "transport"}
                \/ a.error = "none" /\ a.code \in RetryableStatus

-----------------------------------------------------------------------------
(* create_replay: validate for immediate feedback, 400 or 202.             *)
QueueCheck ==
    /\ pc = "api"
    /\ pc' = IF Validated(url) = {} THEN "refused" ELSE "queued"
    /\ UNCHANGED <<dns, attempt, request, response, outcome, contact, requests, barred>>

(* The worker claims the job: execute calls _send with the job's URL. *)
Claim ==
    /\ pc = "queued"
    /\ attempt < MaxClaims
    /\ attempt' = attempt + 1
    /\ url' = Destination /\ hop' = 0
    /\ requests' = 0
    /\ pc' = "validate"
    /\ UNCHANGED <<dns, target, response, outcome, contact, barred>>

(* _send has returned or raised: its locals are gone. *)
Return(a) ==
    /\ outcome' = a
    /\ pc' = "settle"
    /\ target' = NoTarget /\ contact' = NoTarget
    /\ total' = 0 /\ kept' = 0 /\ truncated' = FALSE /\ status' = 0
    /\ url' = Destination /\ hop' = 0

(* Mutant: one hop too many. *)
HopsLeftLong == hop <= MaxRedirects + 1

(* for _ in range(config.max_redirects + 1) *)
HopsLeft == hop < MaxRedirects + 1

(* _send: the loop is exhausted, or validate raises DestinationError. *)
Reject ==
    /\ pc = "validate"
    /\ ~HopsLeft \/ Validated(url) = {}
    /\ Return(Failed("destination"))
    /\ barred' = TRUE
    /\ UNCHANGED <<dns, attempt, requests>>

(* _send: validate returns a Destination for this hop. *)
Validate ==
    /\ pc = "validate"
    /\ HopsLeft
    /\ target' \in Validated(url)
    /\ hop' = hop + 1
    /\ pc' = "connect"
    /\ UNCHANGED <<dns, attempt, url, response, outcome, contact, requests, barred>>

(* _request: the connection goes to target.pinned. *)
Connections(t) == {t}

(* _request: the connection is made, the request is sent and the response  *)
(* headers arrive.                                                         *)
Request ==
    /\ pc = "connect"
    /\ \E t \in Connections(target), s \in Statuses :
         /\ contact' = [url |-> url, to |-> t]
         /\ status' = s
    /\ requests' = requests + 1
    /\ pc' = "body"
    /\ UNCHANGED <<dns, attempt, request, total, kept, truncated, outcome, barred>>

(* Mutant: the chunk that crosses the limit is kept. *)
KeepCrossing(n) == kept + n

(* _request: chunks.append, unless the chunk crosses the limit. *)
Keep(n) == IF total + n > MaxResponseSize THEN kept ELSE kept + n

(* _request: one chunk of the body; reading stops at the limit. *)
ReadChunk ==
    /\ pc = "body" /\ ~truncated
    /\ \E n \in 1..(MaxBody - total) :
         /\ total' = total + n
         /\ kept' = Keep(n)
         /\ truncated' = (total + n > MaxResponseSize)
    /\ UNCHANGED <<dns, pc, attempt, request, status, outcome, contact, requests, barred>>

(* The connection, the request or the response fails: execute catches      *)
(* TimeoutException and TransportError.                                    *)
NetworkError ==
    /\ pc \in {"connect", "body"}
    /\ \E e \in {"timeout", "transport"} : Return(Failed(e))
    /\ UNCHANGED <<dns, attempt, requests, barred>>

(* Any other exception (a host name getaddrinfo cannot encode, a header    *)
(* that cannot be encoded, a body that cannot be decoded, a Location that  *)
(* cannot be joined, a database error in finish) leaves run_once, or the   *)
(* process dies, before finish has written anything: what execute returned *)
(* is lost with the worker's locals, and the job waits for its lease to    *)
(* run out before it is queued again.                                      *)
Interrupted ==
    /\ pc \in {"validate", "connect", "body", "settle"}
    /\ outcome' = NoOutcome
    /\ barred' = FALSE
    /\ pc' = "queued"
    /\ target' = NoTarget /\ contact' = NoTarget
    /\ total' = 0 /\ kept' = 0 /\ truncated' = FALSE /\ status' = 0
    /\ url' = Destination /\ hop' = 0
    /\ UNCHANGED <<dns, attempt, requests>>

(* _send: redirecting, with a location, and redirects are allowed. *)
Redirects(s) == s \in 300..399 /\ AllowRedirects

(* _send: the response was read, or read up to the limit, and is the       *)
(* result.  Any status can end here: a 3xx may come without a location.    *)
Answer ==
    /\ pc = "body"
    /\ Return(Answered(status))
    /\ UNCHANGED <<dns, attempt, requests, barred>>

(* Mutant: the next hop uses the checked address of the last one. *)
AfterRedirectPinned == "connect"

AfterRedirect == "validate"

(* _send: url = str(target.url.join(location)), and the loop goes on with  *)
(* whatever URL the response named.                                        *)
Redirect ==
    /\ pc = "body" /\ Redirects(status)
    /\ url' \in Urls
    /\ pc' = AfterRedirect
    /\ contact' = NoTarget
    /\ total' = 0 /\ kept' = 0 /\ truncated' = FALSE /\ status' = 0
    /\ UNCHANGED <<dns, attempt, hop, target, outcome, requests, barred>>

(* finish: retry, or settle for good. *)
Settle ==
    /\ pc = "settle"
    /\ pc' = IF Succeeded(outcome) THEN "success"
             ELSE IF Retryable(outcome) /\ attempt < MaxAttempts THEN "queued"
             ELSE "failed"
    /\ UNCHANGED <<dns, attempt, request, response, outcome, contact, requests, barred>>

(* Somebody changes a name's records. *)
ChangeDns ==
    /\ pc \in {"queued", "validate", "connect", "body"}
    /\ \E h \in Hosts, answer \in SUBSET Addresses :
         dns' = [dns EXCEPT ![h] = answer]
    /\ UNCHANGED <<pc, attempt, request, response, outcome, contact, requests, barred>>

Next ==
    \/ QueueCheck \/ Claim \/ Reject \/ Validate \/ Request \/ ReadChunk
    \/ NetworkError \/ Interrupted \/ Answer \/ Redirect \/ Settle \/ ChangeDns

Spec == Init /\ [][Next]_vars

-----------------------------------------------------------------------------
(* A request never goes to a blocked address, whatever happens to the      *)
(* name between the check at queue time, the check of the hop and the      *)
(* connection, and whether the address is plain or IPv4-mapped             *)
(* (Destination.pinned, is_blocked).  "One public answer does not excuse a *)
(* private one": nor does it go to a name whose answer at the time of the  *)
(* check held any blocked address.                                         *)
NoBlockedConnection ==
    contact # NoTarget /\ ~AllowPrivate =>
        \A ip \in {contact.to.ip} \cup contact.to.answer : Mapped[ip] \notin Special

(* Every hop of a redirect chain is sent where its own check said: the     *)
(* address was an answer for the host of this very URL.                    *)
SentWhereChecked ==
    contact # NoTarget =>
        contact.url = contact.to.host /\ contact.to.ip \in contact.to.answer

(* max_redirects are "hops beyond the first", and none are followed when   *)
(* redirects are off: an attempt is never more requests than that.         *)
HopsBounded == requests <= IF AllowRedirects THEN MaxRedirects + 1 ELSE 1

(* "A rejected destination is a permanent failure": an attempt that was    *)
(* rejected, even on a later hop, is the last one and sends nothing more,  *)
(* unless the worker was interrupted before finish had recorded the        *)
(* rejection.  Then the job is taken back like any other and tried again.  *)
RejectionIsFinal == [][barred => requests' = requests /\ attempt' = attempt]_vars

(* The part of a response that is stored fits the limit, and is the whole  *)
(* response exactly when it is not marked as truncated.                    *)
BodyWithinLimit ==
    kept <= MaxResponseSize /\ (pc = "body" => (truncated <=> kept # total))
=============================================================================
