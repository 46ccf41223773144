---------------------------- MODULE ReplaySystem ----------------------------
(***************************************************************************)
(* The replay queue with its network: what ReplayQueue takes for one step, *)
(* Execute, is here the run of an attempt, hop by hop, as Delivery has it  *)
(* (app/replay/runner.py, app/replay/ssrf.py).  Several workers are on the *)
(* network at once, and any of them may die, raise, be overtaken by the    *)
(* clock or lose its job to another between two of its hops.               *)
(*                                                                         *)
(* What the queue does is ReplayQueue's Next, what an address or an answer *)
(* is worth is Delivery's.  Reading a body is part of Answer; a body that  *)
(* cannot be read to its end is a NetworkError.                            *)
(***************************************************************************)
EXTENDS ReplayQueue

CONSTANTS
    Hosts, BadUrl, Addresses, Special, Mapped, AllowPrivate, AllowRedirects,
    MaxRedirects, Statuses, NoTarget,   \* as in Delivery
    Answers,        \* what a name may resolve to
    DestinationOf,  \* the URL each job was queued for
    Observed,       \* any worker, and
    Followed        \* any job: AttemptIsDelivery is about these

VARIABLES
    dns,        \* what each host resolves to now
    net,        \* the locals of _send, per worker
    \* history
    requests,   \* per job, the requests sent: attempt and hop
    answered,   \* per job, the addresses whose whole answer had a code below 400
    late        \* some worker was at work after its lease had run out

(* The worker Observed, as Delivery sees it while it is at work on Followed. *)
D == INSTANCE Delivery WITH
    Destination <- DestinationOf[Followed],
    MaxResponseSize <- 0, MaxBody <- 0, MaxClaims <- 0,
    pc <- IF pc[Observed] = "execute" THEN net[Observed].at
          ELSE IF pc[Observed] = "finish" THEN "settle" ELSE "queued",
    attempt <- tries[Observed],
    url <- net[Observed].url,
    hop <- net[Observed].hop,
    target <- net[Observed].target,
    total <- 0, kept <- 0, truncated <- FALSE,
    status <- net[Observed].status,
    outcome <- net[Observed].outcome,
    contact <- IF net[Observed].at = "body"
               THEN [url |-> net[Observed].url, to |-> net[Observed].target]
               ELSE NoTarget,
    requests <- net[Observed].requests,
    barred <- net[Observed].outcome.error = "destination"

ASSUME SystemAssumption ==
    /\ Special \subseteq Addresses
    /\ Mapped \in [Addresses -> Addresses]
    /\ AllowPrivate \in BOOLEAN /\ AllowRedirects \in BOOLEAN
    /\ MaxRedirects \in Nat
    /\ Statuses \subseteq 100..599
    /\ Answers \subseteq SUBSET Addresses
    /\ BadUrl \notin Hosts
    /\ DestinationOf \in [Replays -> Hosts \cup {BadUrl}]
    /\ Observed \in Workers /\ Followed \in Replays

network    == <<dns, net, requests, answered, late>>
systemVars == <<vars, network>>

Exchange ==
    [at : {"off", "validate", "connect", "body", "done"},
     url : D!Urls,
     hop : 0..(MaxRedirects + 1),
     target : D!Targets \cup {NoTarget},
     status : Statuses \cup {0},
     requests : 0..(MaxRedirects + 1),
     outcome : D!Outcomes]

SystemTypeOK ==
    /\ TypeOK
    /\ dns \in [Hosts -> Answers]
    /\ net \in [Workers -> Exchange]
    /\ requests \in [Replays -> SUBSET (Nat \X Nat)]
    /\ answered \in [Replays -> SUBSET Addresses]
    /\ late \in BOOLEAN

(* Outside of execute there are no locals. *)
Off == [at |-> "off", url |-> BadUrl, hop |-> 0, target |-> NoTarget,
        status |-> 0, requests |-> 0, outcome |-> D!NoOutcome]

(* execute has called _send with the job's URL. *)
Fresh(r) == [Off EXCEPT !.at = "validate", !.url = DestinationOf[r]]

SystemInit ==
    /\ Init
    /\ dns \in [Hosts -> Answers]
    /\ net = [w \in Workers |-> Off]
    /\ requests = [r \in Replays |-> {}]
    /\ answered = [r \in Replays |-> {}]
    /\ late = FALSE

-----------------------------------------------------------------------------
(* The queue moves on: any step of ReplayQueue but the end of an attempt.  *)

Overdue == \E w \in Workers : Busy(w) /\ clock - now[w] > LeaseTimeout

(* create_replay: validate, for immediate feedback. *)
Admitted(r) == D!Validated(DestinationOf[r]) # {}

At(w, where) == pc[w] = "execute" /\ net[w].at = where

(* The destination may have answered with success what was sent last,      *)
(* whether or not the answer arrives whole.                                *)
MayBeAccepted(w) ==
    \/ At(w, "connect")
    \/ At(w, "body") /\ net[w].status < 400

(* A worker that leaves run_once loses its connection, and the answer. *)
QueueStep ==
    /\ Next
    /\ \A w \in Workers : pc[w] = "execute" => pc'[w] # "finish"
    /\ acks' # acks => \E w \in Workers : pc'[w] # pc[w] /\ MayBeAccepted(w)
    /\ \A r \in posted' \ posted : Admitted(r)
    /\ net' = [w \in Workers |-> IF pc'[w] = pc[w] THEN net[w]
                                 ELSE IF pc'[w] = "execute" THEN Fresh(job[w])
                                 ELSE Off]
    /\ late' = (late \/ Overdue')
    /\ UNCHANGED <<dns, requests, answered>>

(* Somebody changes a name's records, before somebody looks them up. *)
ChangeDns ==
    /\ \E w \in Workers : At(w, "validate")
    /\ \E h \in Hosts, answer \in Answers :
         dns' = [dns EXCEPT ![h] = answer]
    /\ UNCHANGED <<vars, net, requests, answered, late>>

-----------------------------------------------------------------------------
(* A worker inside execute.                                                *)

(* Mutant: one hop too many. *)
HopsRemainLong(h) == h <= MaxRedirects + 1

(* for _ in range(config.max_redirects + 1) *)
HopsRemain(h) == h < MaxRedirects + 1

Validate(w) ==
    /\ At(w, "validate")
    /\ HopsRemain(net[w].hop)
    /\ \E t \in D!Validated(net[w].url) :
         net' = [net EXCEPT ![w] = [net[w] EXCEPT !.at = "connect",
                                        !.hop = net[w].hop + 1, !.target = t]]
    /\ UNCHANGED <<vars, dns, requests, answered, late>>

(* _request, up to the headers of the response. *)
Request(w) ==
    /\ At(w, "connect")
    /\ \E s \in Statuses :
         net' = [net EXCEPT ![w] = [net[w] EXCEPT !.at = "body", !.status = s,
                                        !.requests = net[w].requests + 1]]
    /\ requests' = [requests EXCEPT ![job[w]] =
                        requests[job[w]] \cup {<<tries[w], net[w].hop>>}]
    /\ UNCHANGED <<vars, dns, answered, late>>

(* Mutant: the next hop uses the checked address of the last one. *)
RecheckedNot == "connect"

Rechecked == "validate"

Redirect(w) ==
    /\ At(w, "body")
    /\ D!Redirects(net[w].status)
    /\ \E u \in D!Urls :
         net' = [net EXCEPT ![w] = [net[w] EXCEPT !.at = Rechecked, !.url = u,
                                        !.status = 0]]
    /\ UNCHANGED <<vars, dns, requests, answered, late>>

(* Mutant: an attempt without a status code counts as below 400. *)
ResultLoose(a) == IF a.code < 400 THEN "ok"
                  ELSE IF D!Retryable(a) THEN "retry" ELSE "refused"

(* What finish makes of an Attempt: succeeded, retryable, or neither. *)
Result(a) == IF D!Succeeded(a) THEN "ok"
             ELSE IF D!Retryable(a) THEN "retry"
             ELSE IF a.error = "destination" THEN "blocked" ELSE "refused"

(* execute returns the Attempt a; was the request accepted? *)
Returns(w, a, accepted) ==
    /\ Execute(w) /\ result'[w] = Result(a)
    /\ accepted <=> acks' # acks
    /\ net' = [net EXCEPT ![w] = [Fresh(job[w]) EXCEPT !.at = "done",
                                      !.requests = net[w].requests, !.outcome = a]]
    /\ UNCHANGED <<dns, requests, late>>

(* The hops are used up, or validate raises DestinationError. *)
Reject(w) ==
    /\ At(w, "validate")
    /\ ~HopsRemain(net[w].hop) \/ D!Validated(net[w].url) = {}
    /\ Returns(w, D!Failed("destination"), FALSE)
    /\ UNCHANGED answered

(* TimeoutException or TransportError, before or after the headers. *)
NetworkError(w) ==
    /\ At(w, "connect") \/ At(w, "body")
    /\ \E e \in {"timeout", "transport"}, accepted \in BOOLEAN :
         /\ accepted => MayBeAccepted(w)
         /\ Returns(w, D!Failed(e), accepted)
    /\ UNCHANGED answered

(* The response was read. *)
Answer(w) ==
    /\ At(w, "body")
    /\ Returns(w, D!Answered(net[w].status), net[w].status < 400)
    /\ answered' = IF net[w].status < 400
                   THEN [answered EXCEPT ![job[w]] =
                            answered[job[w]] \cup {net[w].target.ip}]
                   ELSE answered

SystemNext ==
    \/ QueueStep \/ ChangeDns
    \/ \E w \in Workers : \/ Validate(w) \/ Request(w) \/ Redirect(w)
                          \/ Reject(w) \/ NetworkError(w) \/ Answer(w)

SystemSpec == SystemInit /\ [][SystemNext]_systemVars

-----------------------------------------------------------------------------
(* As long as nobody interrupts it, an attempt of any worker at any job is *)
(* a behaviour of module Delivery, whatever the queue and the other        *)
(* workers do meanwhile.                                                   *)
AttemptStep ==
    \/ D!Validate \/ D!Reject \/ D!Request \/ D!NetworkError \/ D!Answer
    \/ D!Redirect \/ D!ChangeDns

AttemptIsDelivery ==
    [][pc[Observed] = "execute" /\ job[Observed] = Followed
         /\ pc'[Observed] \in {"execute", "finish"}
       => UNCHANGED D!vars \/ AttemptStep]_systemVars

(* Until some worker outlives its lease, nothing is sent for a job that is *)
(* settled: neither by the worker that settled it nor by one that took it  *)
(* over between two hops (claim, finish, _send).                           *)
SilentOnceSettled ==
    [][~late => \A r \in Replays : state[r] \in Terminal => requests'[r] = requests[r]]_systemVars

(* The traffic one replay can cause: no hop of an attempt is requested     *)
(* twice, whoever does it and however late, an attempt has at most         *)
(* max_redirects hops beyond the first, and until a lease is overrun there *)
(* are max_attempts attempts and one more for each interrupted one.        *)
Hops == IF AllowRedirects THEN MaxRedirects + 1 ELSE 1

RequestsBounded ==
    /\ \A w \in Workers :
         At(w, "connect") => <<tries[w], net[w].hop>> \notin requests[job[w]]
    /\ \A r \in Replays : requests[r] \subseteq (1..attempt[r]) \X (1..Hops)
    /\ ~late => \A r \in Replays : attempt[r] <= MaxAttempts + lost[r]

(* A job is shown as a success only if an address answered it with one,    *)
(* and every address whose answer counted was allowed, although DNS, the   *)
(* queue's document and other workers moved between check, request and     *)
(* verdict.                                                                *)
VerdictEarned ==
    \A r \in Replays :
        /\ state[r] = "success" => answered[r] # {}
        /\ ~AllowPrivate => \A ip \in answered[r] : Mapped[ip] \notin Special
=============================================================================
