---------------------------- MODULE ReplayQueue ----------------------------
(***************************************************************************)
(* The replay queue: the `replays` collection, the API handler that fills  *)
(* it, and the workers that lease, deliver and settle its jobs             *)
(* (app/replay/store.py, app/replay/worker.py, app/api/replays.py).        *)
(*                                                                         *)
(* Every `await` on the database or on the network ends an action, so the  *)
(* steps of several workers, the API and the TTL monitor interleave at     *)
(* exactly the points where the asyncio tasks and the processes can.       *)
(* What one HTTP delivery does is the business of module Delivery; here it *)
(* is one of four outcomes.                                                *)
(*                                                                         *)
(* MongoDB (external) gives an atomic update per document.  update_many of *)
(* the reclaim step is one step here: what it does to one document does    *)
(* not depend on another.                                                  *)
(***************************************************************************)
EXTENDS Integers

CONSTANTS
    Events,         \* ids of stored events
    Replays,        \* ids of replay jobs
    Workers,        \* processes running run_forever
    EventOf,        \* the event each job replays
    NoJob,          \* a worker's `replay` before it has claimed one
    MaxRetries,     \* ReplayConfig.max_retries
    RetryDelay,     \* ReplayConfig.retry_delay_seconds
    LeaseTimeout,   \* ReplayConfig.lease_timeout
    MaxRun,         \* longest time from a worker's claim to its last write
    MaxIdle,        \* longest time an idle or dead worker stays away
    MaxStart,       \* bound: no job is requested or inserted after this time
    MaxTime,        \* bound: the clock stops here
    MaxFaults       \* bound: crashes, exceptions and shutdowns

MaxAttempts == MaxRetries + 1

(* finish: retry_delay_seconds * 2 ** (attempt - 1) *)
Backoff(a) == RetryDelay * 2^(a - 1)

ASSUME ConstantsAssumption ==
    /\ EventOf \in [Replays -> Events]
    /\ NoJob \notin Replays
    /\ MaxRetries \in Nat
    /\ LeaseTimeout \in Nat
    /\ MaxRun \in Nat
    /\ MaxIdle \in Nat
    /\ MaxStart \in Nat
    /\ MaxTime \in Nat
    /\ MaxFaults \in Nat

(* An arithmetic fact about the powers of two that a run can reach. *)
ASSUME BackoffAssumption == \A a \in 1..MaxAttempts : Backoff(a) \in Nat

VARIABLES
    clock,      \* wall-clock time in seconds
    events,     \* db.events: ids present
    \* db.replays, one function per field that the code decides on
    state,      \* ReplayState, or "unborn" before insertion, "deleted" after a reset
    attempt,
    nextAt,     \* next_attempt_at
    leasedAt,   \* leased_at
    completed,  \* completed_at is set
    report,     \* what error/response hold: the outcome recorded last
    \* the API
    posted,     \* requests past their checks whose insert is still on its way
    \* the seed script
    wiping,     \* reset has deleted the events and not yet the replays
    \* the workers' local state
    pc,
    now,        \* `now` of the current claim
    job,        \* the claimed document's _id
    tries,      \* the claimed document's attempt
    result,     \* what execute returned
    endedAt,    \* `now` of finish
    \* history, read by no action of the code
    sent,       \* attempts that execute was called for
    acks,       \* how many times the destination answered with success
    unread,     \* how many of these answers did not reach the worker whole
    lost,       \* how many of its attempts were interrupted
    faults

store   == <<state, attempt, nextAt, leasedAt, completed, report>>
locals  == <<pc, now, job, tries, result, endedAt>>
history == <<sent, acks, unread, lost, faults>>
vars    == <<clock, events, store, posted, wiping, locals, history>>

ReplayState == {"pending", "running", "success", "failed"}
Terminal    == {"success", "failed"}
Outcomes    == {"ok", "retry", "refused", "blocked"}
BusyAt      == {"lookup", "abandon", "execute", "finish"}
ClaimingAt  == {"reclaim", "take"}

Stored(r) == state[r] \in ReplayState
Busy(w)   == pc[w] \in BusyAt

TypeOK ==
    /\ clock \in Nat
    /\ events \subseteq Events
    /\ state \in [Replays -> ReplayState \cup {"unborn", "deleted"}]
    /\ attempt \in [Replays -> Nat]
    /\ nextAt \in [Replays -> Nat]
    /\ leasedAt \in [Replays -> Nat]
    /\ completed \in [Replays -> BOOLEAN]
    /\ report \in [Replays -> Outcomes \cup {"none", "gone"}]
    /\ posted \subseteq Replays
    /\ wiping \in BOOLEAN
    /\ pc \in [Workers -> BusyAt \cup ClaimingAt \cup {"idle", "down"}]
    /\ now \in [Workers -> Nat]
    /\ job \in [Workers -> Replays \cup {NoJob}]
    /\ tries \in [Workers -> Nat]
    /\ result \in [Workers -> Outcomes \cup {"none"}]
    /\ endedAt \in [Workers -> Nat]
    /\ sent \in [Replays -> SUBSET Nat]
    /\ acks \in [Replays -> Nat]
    /\ unread \in [Replays -> Nat]
    /\ lost \in [Replays -> Nat]
    /\ faults \in Nat

Init ==
    /\ clock = 0
    /\ events = Events
    /\ state = [r \in Replays |-> "unborn"]
    /\ attempt = [r \in Replays |-> 0]
    /\ nextAt = [r \in Replays |-> 0]
    /\ leasedAt = [r \in Replays |-> 0]
    /\ completed = [r \in Replays |-> FALSE]
    /\ report = [r \in Replays |-> "none"]
    /\ posted = {}
    /\ wiping = FALSE
    /\ pc = [w \in Workers |-> "idle"]
    /\ now = [w \in Workers |-> 0]
    /\ job = [w \in Workers |-> NoJob]
    /\ tries = [w \in Workers |-> 0]
    /\ result = [w \in Workers |-> "none"]
    /\ endedAt = [w \in Workers |-> 0]
    /\ sent = [r \in Replays |-> {}]
    /\ acks = [r \in Replays |-> 0]
    /\ unread = [r \in Replays |-> 0]
    /\ lost = [r \in Replays |-> 0]
    /\ faults = 0

-----------------------------------------------------------------------------
(* The API: create_replay (and the form handler replay_submit).            *)

(* The checks of create_replay: the event was found, the destination       *)
(* validated; enqueue reads its `now` with no await in between.            *)
Post(r) ==
    /\ clock <= MaxStart
    /\ state[r] = "unborn" /\ r \notin posted
    /\ EventOf[r] \in events
    /\ posted' = posted \cup {r}
    /\ nextAt' = [nextAt EXCEPT ![r] = clock]
    /\ UNCHANGED <<clock, events, state, attempt, leasedAt, completed, report,
                   wiping, locals, history>>

(* enqueue: insert_one, some time after the checks; an insert that has not *)
(* arrived by MaxStart is one the API process died over.                   *)
Enqueue(r) ==
    /\ clock <= MaxStart
    /\ r \in posted
    /\ posted' = posted \ {r}
    /\ state' = [state EXCEPT ![r] = "pending"]
    /\ UNCHANGED <<clock, events, attempt, nextAt, leasedAt, completed, report,
                   wiping, locals, history>>

-----------------------------------------------------------------------------
(* The worker: run_forever / run_once.                                     *)

(* run_once has returned or raised: its locals are gone. *)
Leave(w, where) ==
    /\ pc' = [pc EXCEPT ![w] = where]
    /\ job' = [job EXCEPT ![w] = NoJob]
    /\ tries' = [tries EXCEPT ![w] = 0]
    /\ result' = [result EXCEPT ![w] = "none"]
    /\ endedAt' = [endedAt EXCEPT ![w] = 0]

(* claim: now = datetime.now(UTC) *)
Poll(w) ==
    /\ pc[w] = "idle"
    /\ pc' = [pc EXCEPT ![w] = "reclaim"]
    /\ now' = [now EXCEPT ![w] = clock]
    /\ UNCHANGED <<clock, events, store, posted, wiping, job, tries, result, endedAt,
                   history>>

(* Mutants: leases one second too short; a filter without the state; no    *)
(* reclaim at all.                                                         *)
StaleEarly(r, t)    == state[r] = "running" /\ leasedAt[r] <= t - LeaseTimeout
StaleAnyState(r, t) == Stored(r) /\ leasedAt[r] < t - LeaseTimeout
StaleNever(r, t)    == FALSE

(* The filter of claim's update_many. *)
Stale(r, t) == state[r] = "running" /\ leasedAt[r] < t - LeaseTimeout

(* claim: update_many takes back the jobs whose lease has run out. *)
Reclaim(w) ==
    /\ pc[w] = "reclaim"
    /\ pc' = [pc EXCEPT ![w] = "take"]
    /\ state' = [r \in Replays |->
                    IF Stale(r, now[w]) THEN "pending" ELSE state[r]]
    /\ UNCHANGED <<clock, events, attempt, nextAt, leasedAt, completed, report,
                   posted, wiping, now, job, tries, result, endedAt, history>>

(* The filter of claim's find_one_and_update. *)
Due(t) == {r \in Replays : state[r] = "pending" /\ nextAt[r] <= t}

(* sort=[("next_attempt_at", 1)]: any of the earliest. *)
Earliest(S) == {r \in S : \A q \in S : nextAt[r] <= nextAt[q]}

(* Mutant: only the first claim of a job counts. *)
CountedOnce(r) == IF attempt[r] = 0 THEN 1 ELSE attempt[r]

(* "$inc": {"attempt": 1} *)
Counted(r) == attempt[r] + 1

(* claim: find_one_and_update leases one due job and returns it as updated. *)
Take(w) ==
    /\ pc[w] = "take"
    /\ \E r \in Earliest(Due(now[w])) :
         /\ state' = [state EXCEPT ![r] = "running"]
         /\ leasedAt' = [leasedAt EXCEPT ![r] = now[w]]
         /\ attempt' = [attempt EXCEPT ![r] = Counted(r)]
         /\ job' = [job EXCEPT ![w] = r]
         /\ tries' = [tries EXCEPT ![w] = attempt'[r]]
    /\ pc' = [pc EXCEPT ![w] = "lookup"]
    /\ UNCHANGED <<clock, events, nextAt, completed, report, posted, wiping, now,
                   result, endedAt, history>>

(* claim returns None: run_once reports an empty queue, run_forever waits. *)
TakeNone(w) ==
    /\ pc[w] = "take"
    /\ Due(now[w]) = {}
    /\ Leave(w, "idle")
    /\ UNCHANGED <<clock, events, store, posted, wiping, now, history>>

(* run_once: db.events.find_one *)
Lookup(w) ==
    /\ pc[w] = "lookup"
    /\ pc' = [pc EXCEPT ![w] = IF EventOf[job[w]] \in events
                               THEN "execute" ELSE "abandon"]
    /\ UNCHANGED <<clock, events, store, posted, wiping, now, job, tries, result,
                   endedAt, history>>

(* Mutant: completed_at is part of every update. *)
SetCompleted(r, s, done, rep) ==
    IF Stored(r)
    THEN /\ state' = [state EXCEPT ![r] = s]
         /\ completed' = [completed EXCEPT ![r] = TRUE]
         /\ report' = [report EXCEPT ![r] = rep]
    ELSE UNCHANGED <<state, completed, report>>

(* update_one({"_id": ...}, {"$set": ...}) with no other condition: it     *)
(* overwrites whatever the document holds, and does nothing when the       *)
(* document is gone.                                                       *)
Set(r, s, done, rep) ==
    IF Stored(r)
    THEN /\ state' = [state EXCEPT ![r] = s]
         /\ completed' = [completed EXCEPT ![r] = done \/ completed[r]]
         /\ report' = [report EXCEPT ![r] = rep]
    ELSE UNCHANGED <<state, completed, report>>

(* abandon: the event no longer exists. *)
Abandon(w) ==
    /\ pc[w] = "abandon"
    /\ Set(job[w], "failed", TRUE, "gone")
    /\ Leave(w, "idle")
    /\ UNCHANGED <<clock, events, attempt, nextAt, leasedAt, posted, wiping, now,
                   history>>

(* What execute may make of an attempt.  A destination that answers with   *)
(* success may still be retried: the answer, or the rest of its body, does *)
(* not arrive (TimeoutException, TransportError).                          *)
Results == {x \in [outcome : Outcomes, accepted : BOOLEAN] :
              /\ x.outcome = "ok" => x.accepted
              /\ x.accepted => x.outcome \in {"ok", "retry"}}

(* runner.execute: validate, connect, send, classify the answer.  finish   *)
(* reads its own `now` as soon as execute returns.                         *)
Execute(w) ==
    /\ pc[w] = "execute"
    /\ \E x \in Results :
         /\ result' = [result EXCEPT ![w] = x.outcome]
         /\ acks' = IF x.accepted THEN [acks EXCEPT ![job[w]] = @ + 1] ELSE acks
         /\ unread' = IF x.accepted /\ x.outcome = "retry"
                      THEN [unread EXCEPT ![job[w]] = @ + 1] ELSE unread
    /\ sent' = [sent EXCEPT ![job[w]] = @ \cup {tries[w]}]
    /\ endedAt' = [endedAt EXCEPT ![w] = clock]
    /\ pc' = [pc EXCEPT ![w] = "finish"]
    /\ UNCHANGED <<clock, events, store, posted, wiping, now, job, tries, lost, faults>>

(* Mutant: one attempt too few. *)
RetriesShort(o, a) == o = "retry" /\ a + 1 < MaxAttempts

(* finish: attempt.retryable and replay["attempt"] < replay["max_attempts"] *)
Retries(o, a) == o = "retry" /\ a < MaxAttempts

(* The state finish writes for outcome o of attempt number a. *)
Verdict(o, a) == IF o = "ok" THEN "success"
                 ELSE IF Retries(o, a) THEN "pending" ELSE "failed"

(* finish: the decision uses the claimed copy of the document; the write   *)
(* does not look at the stored one.                                        *)
Finish(w) ==
    /\ pc[w] = "finish"
    /\ LET r == job[w]
           v == Verdict(result[w], tries[w])
       IN /\ Set(r, v, v \in Terminal, result[w])
          /\ nextAt' = IF v = "pending" /\ Stored(r)
                       THEN [nextAt EXCEPT ![r] = endedAt[w] + Backoff(tries[w])]
                       ELSE nextAt
    /\ Leave(w, "idle")
    /\ UNCHANGED <<clock, events, attempt, leasedAt, posted, wiping, now, history>>

-----------------------------------------------------------------------------
(* What goes wrong, and the environment.                                   *)

(* The worker's current iteration ends without its last write.  Inside of  *)
(* execute the destination may have answered with success.                 *)
Interrupt(w) ==
    /\ faults < MaxFaults
    /\ faults' = faults + 1
    /\ lost' = IF Busy(w) THEN [lost EXCEPT ![job[w]] = @ + 1] ELSE lost
    /\ \/ UNCHANGED acks
       \/ pc[w] = "execute" /\ acks' = [acks EXCEPT ![job[w]] = @ + 1]
    /\ UNCHANGED <<clock, events, store, posted, wiping, sent, unread>>

(* run_forever: an exception run_once does not catch is logged; the job    *)
(* stays as it is in the collection.                                       *)
Raise(w) ==
    /\ pc[w] \in BusyAt \cup ClaimingAt
    /\ Interrupt(w)
    /\ Leave(w, "idle")
    /\ UNCHANGED now

(* The process dies at any point. *)
Crash(w) ==
    /\ pc[w] # "down"
    /\ Interrupt(w)
    /\ Leave(w, "down")
    /\ now' = [now EXCEPT ![w] = clock]

(* main.py, after the yield: the stop event is seen between two iterations, *)
(* so a graceful shutdown never abandons a job.                             *)
Shutdown(w) ==
    /\ pc[w] = "idle"
    /\ Interrupt(w)
    /\ Leave(w, "down")
    /\ now' = [now EXCEPT ![w] = clock]

(* The container is restarted and run_forever starts over. *)
Restart(w) ==
    /\ pc[w] = "down"
    /\ pc' = [pc EXCEPT ![w] = "idle"]
    /\ now' = [now EXCEPT ![w] = clock]
    /\ UNCHANGED <<clock, events, store, posted, wiping, job, tries, result, endedAt,
                   history>>

(* The TTL monitor (external) removes an event. *)
ExpireEvent(e) ==
    /\ e \in events
    /\ events' = events \ {e}
    /\ UNCHANGED <<clock, store, posted, wiping, locals, history>>

(* seed.reset: delete_many on the events, then delete_many on the replays. *)
ResetEvents ==
    /\ ~wiping /\ \E r \in Replays : Stored(r)
    /\ wiping' = TRUE
    /\ events' = {}
    /\ UNCHANGED <<clock, store, posted, locals, history>>

ResetReplays ==
    /\ wiping
    /\ wiping' = FALSE
    /\ state' = [r \in Replays |-> IF Stored(r) THEN "deleted" ELSE state[r]]
    /\ UNCHANGED <<clock, events, attempt, nextAt, leasedAt, completed, report,
                   posted, locals, history>>

(* Time passes, unless a worker would overrun its bound. *)
Tick ==
    /\ clock < MaxTime
    /\ \A w \in Workers :
         clock - now[w] < IF pc[w] \in {"idle", "down"} THEN MaxIdle ELSE MaxRun
    /\ clock' = clock + 1
    /\ UNCHANGED <<events, store, posted, wiping, locals, history>>

-----------------------------------------------------------------------------
WorkerStep(w) ==
    \/ Poll(w) \/ Reclaim(w) \/ Take(w) \/ TakeNone(w)
    \/ Lookup(w) \/ Abandon(w) \/ Execute(w) \/ Finish(w)

Next ==
    \/ \E r \in Replays : Post(r) \/ Enqueue(r)
    \/ \E w \in Workers : \/ WorkerStep(w)
                          \/ Raise(w) \/ Crash(w) \/ Shutdown(w) \/ Restart(w)
    \/ \E e \in Events : ExpireEvent(e)
    \/ ResetEvents \/ ResetReplays
    \/ Tick

Spec == Init /\ [][Next]_vars

(* A worker's event loop keeps running, a dead one is restarted by         *)
(* compose (`restart: unless-stopped`), and time does not stop.  Nobody    *)
(* has to request, interrupt, expire or reset anything.                    *)
FairSpec ==
    /\ Spec
    /\ \A w \in Workers : WF_vars(WorkerStep(w)) /\ WF_vars(Restart(w))
    /\ WF_vars(Tick)

-----------------------------------------------------------------------------
(* Properties that hold however slow the workers are.                      *)

(* The atomic claim: no two workers ever work on the same attempt of a     *)
(* job, even after a lease was taken back from a worker that is still      *)
(* alive (find_one_and_update with $inc in store.claim).                   *)
AttemptHeldOnce ==
    \A v, w \in Workers :
        v # w /\ Busy(v) /\ Busy(w) /\ job[v] = job[w] => tries[v] # tries[w]

(* An attempt is executed at most once: when run_once is about to call     *)
(* execute, nobody has executed that attempt of the job before.            *)
AttemptSentOnce ==
    \A w \in Workers : pc[w] \in {"lookup", "execute"} =>
        tries[w] \notin sent[job[w]]

(* store.finish gives up on a retryable failure only when the attempts are *)
(* used up, whoever else wrote the document in between.                    *)
RetriesUsedUp ==
    \A r \in Replays :
        state[r] = "failed" /\ report[r] = "retry" => attempt[r] >= MaxAttempts

-----------------------------------------------------------------------------
(* Properties of workers that keep their lease, i.e. MaxRun <= LeaseTimeout. *)

(* The lease: while a worker is at work on a job nobody else is, and the   *)
(* stored document still shows this worker's claim (unless a reset deleted *)
(* it).  This is what makes the unconditional update_one of finish and     *)
(* abandon safe.                                                           *)
LeaseExclusive ==
    \A w \in Workers : Busy(w) =>
        /\ \A v \in Workers \ {w} : Busy(v) => job[v] # job[w]
        /\ \/ state[job[w]] = "deleted"
           \/ state[job[w]] = "running" /\ attempt[job[w]] = tries[w]

(* completed_at is set exactly on the jobs that are over: a job put back   *)
(* in the queue is never shown with a completion time.                     *)
CompletedIffTerminal ==
    \A r \in Replays : Stored(r) => (completed[r] <=> state[r] \in Terminal)

(* max_attempts is exceeded only by attempts that were interrupted: every  *)
(* crash or uncaught exception in mid-attempt buys one more.               *)
AttemptsBounded ==
    \A r \in Replays : attempt[r] <= MaxAttempts + lost[r]

(* A destination that has answered a replay with success gets it again     *)
(* only when that answer did not reach the worker whole, or when a worker  *)
(* was interrupted between the answer and its record: each delivery beyond *)
(* the first has one of these to account for it (execute, finish).         *)
AcceptedOnce == \A r \in Replays : acks[r] <= 1 + unread[r] + lost[r]

(* A settled job stays settled: no reclaim and no late finish puts it back *)
(* in the queue or changes its verdict.                                    *)
TerminalIsFinal ==
    [][\A r \in Replays : state[r] \in Terminal => state'[r] \in {state[r], "deleted"}]_vars

-----------------------------------------------------------------------------
(* The abstract specification.                                             *)

StatusOf(s) == IF s = "unborn" THEN "none"
               ELSE IF s \in {"pending", "running"} THEN "open" ELSE s

Contract == INSTANCE ReplayContract WITH
    status   <- [r \in Replays |-> StatusOf(state[r])],
    started  <- attempt,
    accepted <- acks

(* With workers that keep their lease, the collection, the API, the        *)
(* workers, their crashes and their restarts implement the contract: a     *)
(* settled job is final, an attempt beyond max_attempts has an interrupted *)
(* attempt to account for it and a second delivery one that was            *)
(* interrupted or whose answer did not arrive whole, and success is        *)
(* recorded only for what was delivered.                                   *)
ImplementsContract == Contract!Spec

-----------------------------------------------------------------------------
(* Every job that is in the queue is eventually settled (or deleted by a   *)
(* reset): neither a crash in mid-attempt nor the backoff can strand it.   *)
EveryReplaySettles ==
    \A r \in Replays :
        state[r] = "pending" ~> state[r] \in Terminal \cup {"deleted"}
=============================================================================
