------------------------- MODULE ReplayQueueProofs -------------------------
(***************************************************************************)
(* Proofs about ReplayQueue, for every set of events, jobs and workers and *)
(* every value of the numbers.  The invariants come in layers, each one    *)
(* inductive given the ones before it:                                     *)
(*   TypeInv    types, and what a busy worker holds                        *)
(*   OnceInv    no attempt is held or executed twice       (any MaxRun)    *)
(*   LeaseInv   the lease protects its holder                              *)
(*   CountInv   attempts, interruptions and answers balance                *)
(* The last two hold until a worker is still at work after its lease, and  *)
(* are preserved by every step from a state with LeasesKept.  That is      *)
(* every state if MaxRun <= LeaseTimeout (KeptLeases): the theorems below. *)
(* ReplaySystemProofs uses them without that bound.  The refinement of     *)
(* ReplayContract rests on these two.                                      *)
(***************************************************************************)
EXTENDS ReplayQueue, TLAPS

(* A busy worker holds a job and an attempt number the job has reached. *)
HoldsAttempt ==
    \A w \in Workers : Busy(w) =>
        /\ job[w] \in Replays
        /\ tries[w] >= 1
        /\ tries[w] <= attempt[job[w]]

TypeInv == TypeOK /\ HoldsAttempt

LEMMA MaxAttemptsType == MaxAttempts \in Nat \ {0}
  BY ConstantsAssumption DEF MaxAttempts

LEMMA TypeInvInit == Init => TypeInv
<1> SUFFICES ASSUME Init PROVE TypeInv
  OBVIOUS
<1>1. TypeOK
  BY DEF Init, TypeOK, BusyAt, ClaimingAt, Outcomes, ReplayState
<1>2. HoldsAttempt
  BY DEF Init, HoldsAttempt, Busy, BusyAt
<1> QED
  BY <1>1, <1>2 DEF TypeInv

LEMMA TypeInvNext == TypeInv /\ [Next]_vars => TypeInv'
<1> SUFFICES ASSUME TypeInv, [Next]_vars PROVE TypeInv'
  OBVIOUS
<1> USE ConstantsAssumption DEF TypeInv, TypeOK, HoldsAttempt, Busy, BusyAt,
        ClaimingAt, store, locals, history
<1>1. ASSUME NEW r \in Replays, Post(r) PROVE TypeInv'
  BY <1>1 DEF Post
<1>2. ASSUME NEW r \in Replays, Enqueue(r) PROVE TypeInv'
  BY <1>2 DEF Enqueue, ReplayState
<1>3. ASSUME NEW w \in Workers, Poll(w) PROVE TypeInv'
  BY <1>3 DEF Poll
<1>4. ASSUME NEW w \in Workers, Reclaim(w) PROVE TypeInv'
  BY <1>4 DEF Reclaim, ReplayState
<1>5. ASSUME NEW w \in Workers, Take(w) PROVE TypeInv'
  <2>1. PICK r \in Earliest(Due(now[w])) :
           /\ state' = [state EXCEPT ![r] = "running"]
           /\ leasedAt' = [leasedAt EXCEPT ![r] = now[w]]
           /\ attempt' = [attempt EXCEPT ![r] = Counted(r)]
           /\ job' = [job EXCEPT ![w] = r]
           /\ tries' = [tries EXCEPT ![w] = attempt'[r]]
    BY <1>5 DEF Take
  <2>2. r \in Replays
    BY DEF Earliest, Due
  <2> QED
    BY <1>5, <2>1, <2>2 DEF Take, Counted, ReplayState
<1>6. ASSUME NEW w \in Workers, TakeNone(w) PROVE TypeInv'
  BY <1>6 DEF TakeNone, Leave
<1>7. ASSUME NEW w \in Workers, Lookup(w) PROVE TypeInv'
  BY <1>7 DEF Lookup
<1>8. ASSUME NEW w \in Workers, Abandon(w) PROVE TypeInv'
  BY <1>8 DEF Abandon, Leave, Set, ReplayState
<1>9. ASSUME NEW w \in Workers, Execute(w) PROVE TypeInv'
  BY <1>9 DEF Execute, Results, Outcomes
<1>10. ASSUME NEW w \in Workers, Finish(w) PROVE TypeInv'
  <2> DEFINE v == Verdict(result[w], tries[w])
  <2>1. v \in {"success", "pending", "failed"}
    BY DEF Verdict
  <2>2. ASSUME v = "pending" PROVE Backoff(tries[w]) \in Nat
    <3>1. tries[w] \in 1..MaxAttempts
      BY <1>10, <2>2, MaxAttemptsType DEF Verdict, Retries, Finish
    <3> QED BY <3>1, BackoffAssumption
  <2>3. nextAt' \in [Replays -> Nat]
    BY <1>10, <2>2 DEF Finish
  <2>4. /\ state' \in [Replays -> ReplayState \cup {"unborn", "deleted"}]
        /\ report' \in [Replays -> Outcomes \cup {"none", "gone"}]
    BY <1>10, <2>1 DEF Finish, Set, ReplayState, Outcomes
  <2>5. completed' \in [Replays -> BOOLEAN]
    BY <1>10 DEF Finish, Set
  <2> QED
    BY <1>10, <2>3, <2>4, <2>5 DEF Finish, Leave
<1>11. ASSUME NEW w \in Workers, Raise(w) PROVE TypeInv'
  BY <1>11 DEF Raise, Interrupt, Leave
<1>12. ASSUME NEW w \in Workers, Crash(w) PROVE TypeInv'
  BY <1>12 DEF Crash, Interrupt, Leave
<1>13. ASSUME NEW w \in Workers, Shutdown(w) PROVE TypeInv'
  BY <1>13 DEF Shutdown, Interrupt, Leave
<1>14. ASSUME NEW w \in Workers, Restart(w) PROVE TypeInv'
  BY <1>14 DEF Restart
<1>15. ASSUME NEW e \in Events, ExpireEvent(e) PROVE TypeInv'
  BY <1>15 DEF ExpireEvent
<1>16. CASE ResetEvents
  BY <1>16 DEF ResetEvents
<1>17. CASE ResetReplays
  BY <1>17 DEF ResetReplays
<1>18. CASE Tick
  BY <1>18 DEF Tick
<1>19. CASE UNCHANGED vars
  BY <1>19 DEF vars
<1> QED
  BY <1>1, <1>2, <1>3, <1>4, <1>5, <1>6, <1>7, <1>8, <1>9, <1>10, <1>11,
     <1>12, <1>13, <1>14, <1>15, <1>16, <1>17, <1>18, <1>19
     DEF Next, WorkerStep

(* The model's variables keep their types, and the backoff computed by     *)
(* finish is a natural number: an attempt number is at least 1 when        *)
(* `2 ** (attempt - 1)` is evaluated (store.finish).                       *)
THEOREM TypeCorrect == Spec => []TypeOK
<1>1. TypeInv => TypeOK
  BY DEF TypeInv
<1> QED
  BY TypeInvInit, TypeInvNext, <1>1, PTL DEF Spec

-----------------------------------------------------------------------------
(* Attempts are held and executed once, however slow the workers are.      *)

(* Nothing has been executed that was not claimed. *)
SentReached == \A r \in Replays : \A n \in sent[r] : n <= attempt[r]

OnceInv == SentReached /\ AttemptHeldOnce /\ AttemptSentOnce /\ RetriesUsedUp

LEMMA OnceInvInit == Init => OnceInv
  BY DEF Init, OnceInv, SentReached, AttemptHeldOnce, AttemptSentOnce,
         RetriesUsedUp, Busy, BusyAt

LEMMA OnceInvNext == TypeInv /\ OnceInv /\ [Next]_vars => OnceInv'
<1> SUFFICES ASSUME TypeInv, OnceInv, [Next]_vars PROVE OnceInv'
  OBVIOUS
<1> USE DEF TypeInv, TypeOK, HoldsAttempt, OnceInv, SentReached,
        AttemptHeldOnce, AttemptSentOnce, RetriesUsedUp, Busy, BusyAt,
        store, locals, history
<1>1. ASSUME NEW r \in Replays, Post(r) \/ Enqueue(r) PROVE OnceInv'
  BY <1>1 DEF Post, Enqueue
<1>2. ASSUME NEW w \in Workers, Poll(w) \/ TakeNone(w) \/ Lookup(w) \/ Restart(w)
      PROVE OnceInv'
  <2>1. UNCHANGED <<attempt, state, report, sent>>
    BY <1>2 DEF Poll, TakeNone, Lookup, Restart
  <2>2. \A v \in Workers : Busy(v)' =>
           /\ Busy(v)
           /\ job'[v] = job[v] /\ tries'[v] = tries[v]
           /\ pc'[v] = pc[v] \/ pc[v] = "lookup"
    <3>1. \A v \in Workers \ {w} : pc'[v] = pc[v] /\ job'[v] = job[v] /\ tries'[v] = tries[v]
      BY <1>2 DEF Poll, TakeNone, Lookup, Restart, Leave
    <3>2. Busy(w)' => /\ pc[w] = "lookup"
                      /\ job'[w] = job[w] /\ tries'[w] = tries[w]
      BY <1>2 DEF Poll, TakeNone, Lookup, Restart, Leave
    <3> QED
      BY <3>1, <3>2
  <2>3. AttemptHeldOnce'
    BY <2>2
  <2>4. AttemptSentOnce'
    BY <2>1, <2>2
  <2>5. SentReached' /\ RetriesUsedUp'
    BY <2>1
  <2> QED
    BY <2>3, <2>4, <2>5
<1>3. ASSUME NEW w \in Workers, Reclaim(w) PROVE OnceInv'
  BY <1>3 DEF Reclaim
<1>4. ASSUME NEW w \in Workers, Take(w) PROVE OnceInv'
  \* The new attempt number is larger than any that is held or was executed.
  <2>1. PICK r \in Earliest(Due(now[w])) :
           /\ state' = [state EXCEPT ![r] = "running"]
           /\ attempt' = [attempt EXCEPT ![r] = Counted(r)]
           /\ job' = [job EXCEPT ![w] = r]
           /\ tries' = [tries EXCEPT ![w] = attempt'[r]]
    BY <1>4 DEF Take
  <2>2. /\ r \in Replays
        /\ attempt'[r] = attempt[r] + 1
        /\ job'[w] = r
        /\ tries'[w] = attempt[r] + 1
    BY <2>1 DEF Earliest, Due, Counted
  <2>3. /\ \A v \in Workers \ {w} : /\ job'[v] = job[v]
                                   /\ tries'[v] = tries[v]
                                   /\ pc'[v] = pc[v]
        /\ \A q \in Replays : /\ attempt'[q] >= attempt[q]
                              /\ q # r => /\ attempt'[q] = attempt[q]
                                         /\ state'[q] = state[q]
        /\ sent' = sent /\ report' = report
        /\ pc'[w] = "lookup" /\ pc[w] = "take"
    BY <1>4, <2>1, <2>2 DEF Take
  <2>4. SentReached'
    BY <2>2, <2>3
  <2>5. AttemptHeldOnce'
    BY <2>2, <2>3
  <2>6. AttemptSentOnce'
    BY <2>2, <2>3
  <2>7. RetriesUsedUp'
    BY <2>1, <2>2, <2>3, MaxAttemptsType
  <2> QED
    BY <2>4, <2>5, <2>6, <2>7
<1>5. ASSUME NEW w \in Workers, Abandon(w) PROVE OnceInv'
  BY <1>5 DEF Abandon, Leave, Set
<1>6. ASSUME NEW w \in Workers, Execute(w) PROVE OnceInv'
  \* No other worker holds the attempt that is executed.
  BY <1>6 DEF Execute
<1>7. ASSUME NEW w \in Workers, Finish(w) PROVE OnceInv'
  <2>1. ASSUME Verdict(result[w], tries[w]) = "failed", result[w] = "retry"
        PROVE attempt[job[w]] >= MaxAttempts
    BY <1>7, <2>1, MaxAttemptsType DEF Verdict, Retries, Finish
  <2>2. RetriesUsedUp'
    BY <1>7, <2>1 DEF Finish, Set
  <2>3. (SentReached /\ AttemptHeldOnce /\ AttemptSentOnce)'
    BY <1>7 DEF Finish, Leave
  <2> QED
    BY <2>2, <2>3
<1>8. ASSUME NEW w \in Workers, Raise(w) \/ Crash(w) \/ Shutdown(w) PROVE OnceInv'
  <2>1. UNCHANGED <<attempt, state, report, sent>>
    BY <1>8 DEF Raise, Crash, Shutdown, Interrupt
  <2>2. \A v \in Workers : Busy(v)' =>
           /\ Busy(v)
           /\ job'[v] = job[v] /\ tries'[v] = tries[v]
           /\ pc'[v] = pc[v]
    BY <1>8 DEF Raise, Crash, Shutdown, Leave
  <2> QED
    BY <2>1, <2>2
<1>9. ASSUME NEW e \in Events, ExpireEvent(e) PROVE OnceInv'
  BY <1>9 DEF ExpireEvent
<1>10. CASE ResetEvents \/ ResetReplays
  BY <1>10 DEF ResetEvents, ResetReplays
<1>11. CASE Tick \/ UNCHANGED vars
  BY <1>11 DEF Tick, vars
<1> QED
  BY <1>1, <1>2, <1>3, <1>4, <1>5, <1>6, <1>7, <1>8, <1>9, <1>10, <1>11
     DEF Next, WorkerStep

LEMMA OnceInvariant == Spec => [](TypeInv /\ OnceInv)
  BY TypeInvInit, TypeInvNext, OnceInvInit, OnceInvNext, PTL DEF Spec

(* store.claim: no two workers ever hold the same attempt of a job, even   *)
(* when a reclaimed job's first worker is still alive.                     *)
THEOREM HeldOnce == Spec => []AttemptHeldOnce
<1>1. OnceInv => AttemptHeldOnce
  BY DEF OnceInv
<1> QED
  BY OnceInvariant, <1>1, PTL

(* worker.run_once: an attempt of a job is executed at most once.          *)
THEOREM SentOnce == Spec => []AttemptSentOnce
<1>1. OnceInv => AttemptSentOnce
  BY DEF OnceInv
<1> QED
  BY OnceInvariant, <1>1, PTL

(* store.finish: a job that failed on a retryable outcome has used up all  *)
(* of its attempts, whoever wrote the document in between.                 *)
THEOREM UsedUp == Spec => []RetriesUsedUp
<1>1. OnceInv => RetriesUsedUp
  BY DEF OnceInv
<1> QED
  BY OnceInvariant, <1>1, PTL

-----------------------------------------------------------------------------
(* What is stored, however slow the workers are.                           *)

(* A worker that is inside run_once claimed at most MaxRun ago. *)
InTime == \A w \in Workers :
    pc[w] \notin {"idle", "down"} => now[w] <= clock /\ clock - now[w] <= MaxRun

(* Delays stay within their bound, since Tick waits for every worker. *)
LEMMA InTimeInit == Init => InTime
  BY DEF Init, InTime

LEMMA InTimeNext == ASSUME TypeInv, InTime, [Next]_vars PROVE InTime'
<1> USE DEF TypeInv, TypeOK, InTime, store, locals, history
<1>1. CASE Tick
  BY <1>1, ConstantsAssumption DEF Tick
<1>2. ASSUME NEW w \in Workers, Poll(w) \/ Crash(w) \/ Shutdown(w) \/ Restart(w)
      PROVE InTime'
  BY <1>2, ConstantsAssumption DEF Poll, Crash, Shutdown, Restart, Interrupt, Leave
<1>3. ASSUME NEW w \in Workers,
             \/ Reclaim(w) \/ Take(w) \/ TakeNone(w) \/ Lookup(w)
             \/ Abandon(w) \/ Execute(w) \/ Finish(w) \/ Raise(w)
      PROVE InTime'
  <2>1. /\ UNCHANGED <<clock, now>>
        /\ \A v \in Workers : pc'[v] \in {"idle", "down"} \/ v = w \/ pc'[v] = pc[v]
        /\ pc[w] \notin {"idle", "down"}
    BY <1>3 DEF Reclaim, Take, TakeNone, Lookup, Abandon, Execute, Finish,
                Raise, Interrupt, Leave, BusyAt, ClaimingAt
  <2> QED
    BY <2>1
<1>4. CASE UNCHANGED <<clock, now, pc>>
  BY <1>4
<1> QED
  BY <1>1, <1>2, <1>3, <1>4
     DEF Next, WorkerStep, Post, Enqueue, ExpireEvent, ResetEvents, ResetReplays, vars

(* Whatever workers did and wherever they were stopped, a job that is      *)
(* queued will match the filter of claim's find_one_and_update after the   *)
(* longest backoff at most, and one that is leased the filter of its       *)
(* update_many once lease_timeout has gone by: no job is stranded.         *)
NeverStranded == \A r \in Replays :
    /\ state[r] = "pending" =>
         r \in Due(clock) \/ \E a \in 1..MaxRetries : r \in Due(clock + Backoff(a))
    /\ state[r] = "running" => Stale(r, clock + LeaseTimeout + 1)

(* What a stored job says of itself is true: "success" was acknowledged by *)
(* the destination, "failed" has a reason, and a job given up for want of  *)
(* its event has none, although every verdict is written from a copy by a  *)
(* worker that may no longer hold the job.                                 *)
RecordTruthful == \A r \in Replays :
    /\ state[r] = "success" => report[r] = "ok" /\ acks[r] > 0
    /\ state[r] = "failed" => report[r] \in {"retry", "refused", "blocked", "gone"}
    /\ report[r] = "gone" => EventOf[r] \notin events

DuePast == \A r \in Replays :
    /\ \/ nextAt[r] <= clock
       \/ \E a \in 1..MaxRetries : nextAt[r] <= clock + Backoff(a)
    /\ leasedAt[r] <= clock

(* What a worker has found out and not recorded yet. *)
Witnessed == \A w \in Workers :
    /\ pc[w] = "abandon" => EventOf[job[w]] \notin events
    /\ pc[w] = "finish" => /\ result[w] \in Outcomes /\ endedAt[w] <= clock
                           /\ result[w] = "ok" => acks[job[w]] > 0

StoreInv == InTime /\ DuePast /\ Witnessed /\ RecordTruthful

LEMMA StoreInvInit == Init => StoreInv
  BY InTimeInit DEF Init, StoreInv, DuePast, Witnessed, RecordTruthful

LEMMA StoreInvNext == ASSUME TypeInv, StoreInv, [Next]_vars PROVE StoreInv'
<1>i. InTime'
  BY InTimeNext DEF StoreInv
<1> DEFINE Inv == DuePast /\ Witnessed /\ RecordTruthful
<1> SUFFICES Inv'
  BY <1>i DEF StoreInv
<1>b. \A a \in 1..MaxRetries : Backoff(a) \in Nat
  BY BackoffAssumption, ConstantsAssumption DEF MaxAttempts
<1> USE DEF TypeInv, TypeOK, HoldsAttempt, StoreInv, DuePast, Witnessed, RecordTruthful,
            Busy, BusyAt, store, locals, history
<1>1. ASSUME NEW r \in Replays, Post(r) \/ Enqueue(r) PROVE Inv'
  BY <1>1 DEF Post, Enqueue
<1>2. ASSUME NEW w \in Workers, Poll(w) \/ TakeNone(w) \/ Lookup(w) \/ Restart(w)
      PROVE Inv'
  BY <1>2 DEF Poll, TakeNone, Lookup, Restart, Leave
<1>3. ASSUME NEW w \in Workers, Reclaim(w) PROVE Inv'
  BY <1>3 DEF Reclaim
<1>4. ASSUME NEW w \in Workers, Take(w) PROVE Inv'
  <2>1. PICK r \in Earliest(Due(now[w])) :
           /\ state' = [state EXCEPT ![r] = "running"]
           /\ leasedAt' = [leasedAt EXCEPT ![r] = now[w]]
           /\ job' = [job EXCEPT ![w] = r]
    BY <1>4 DEF Take
  <2>2. now[w] <= clock
    BY <1>4 DEF Take, InTime
  <2> QED
    BY <1>4, <2>1, <2>2 DEF Take
<1>5. ASSUME NEW w \in Workers, Abandon(w) PROVE Inv'
  BY <1>5 DEF Abandon, Leave, Set
<1>6. ASSUME NEW w \in Workers, Execute(w) PROVE Inv'
  BY <1>6 DEF Execute, Results
<1>7. ASSUME NEW w \in Workers, Finish(w) PROVE Inv'
  <2> DEFINE v == Verdict(result[w], tries[w])
  <2>1. /\ job[w] \in Replays /\ result[w] \in Outcomes /\ endedAt[w] <= clock
        /\ result[w] = "ok" => acks[job[w]] > 0
        /\ Set(job[w], v, v \in Terminal, result[w])
        /\ UNCHANGED <<clock, events, leasedAt, acks>>
    BY <1>7 DEF Finish
  <2>2. /\ v = "success" => result[w] = "ok"
        /\ v = "failed" => result[w] \in {"retry", "refused", "blocked"}
        /\ v = "pending" => tries[w] \in 1..MaxRetries
    BY <1>7, <2>1, ConstantsAssumption
       DEF Finish, Verdict, Retries, Outcomes, MaxAttempts
  <2>3. DuePast'
    BY <1>7, <1>b, <2>1, <2>2 DEF Finish
  <2>4. Witnessed'
    BY <1>7, <2>1 DEF Finish, Leave
  <2>5. RecordTruthful'
    BY <2>1, <2>2 DEF Set, Outcomes
  <2> QED
    BY <2>3, <2>4, <2>5
<1>8. ASSUME NEW w \in Workers, Raise(w) \/ Crash(w) \/ Shutdown(w) PROVE Inv'
  <2>1. /\ UNCHANGED <<clock, state, attempt, nextAt, leasedAt, report, events>>
        /\ \A r \in Replays : acks'[r] \in Nat /\ acks'[r] >= acks[r]
    BY <1>8 DEF Raise, Crash, Shutdown, Interrupt
  <2>2. DuePast'
    BY <2>1
  <2>3. Witnessed'
    <3>1. /\ ~Busy(w)'
          /\ \A v \in Workers \ {w} : /\ pc'[v] = pc[v] /\ job'[v] = job[v]
                                     /\ result'[v] = result[v] /\ endedAt'[v] = endedAt[v]
      BY <1>8 DEF Raise, Crash, Shutdown, Leave
    <3> QED
      BY <2>1, <3>1
  <2>4. RecordTruthful'
    BY <2>1
  <2> QED
    BY <2>2, <2>3, <2>4
<1>9. ASSUME NEW e \in Events, ExpireEvent(e) PROVE Inv'
  BY <1>9 DEF ExpireEvent
<1>10. CASE ResetEvents \/ ResetReplays
  BY <1>10 DEF ResetEvents, ResetReplays
<1>11. CASE Tick
  BY <1>11, <1>b DEF Tick
<1>12. CASE UNCHANGED vars
  BY <1>12 DEF vars
<1> QED
  BY <1>1, <1>2, <1>3, <1>4, <1>5, <1>6, <1>7, <1>8, <1>9, <1>10, <1>11, <1>12
     DEF Next, WorkerStep

LEMMA StoreInvariant == Spec => [](TypeInv /\ StoreInv)
<1>1. TypeInv /\ StoreInv /\ [Next]_vars => StoreInv'
  BY StoreInvNext
<1> QED
  BY TypeInvInit, TypeInvNext, StoreInvInit, <1>1, PTL DEF Spec

(* store.claim, store.finish: no crash, exception or late write leaves a   *)
(* job that claim's filters will not find again.                           *)
THEOREM JobsNotStranded == Spec => []NeverStranded
<1>1. TypeInv /\ StoreInv => NeverStranded
  BY ConstantsAssumption
     DEF TypeInv, TypeOK, StoreInv, DuePast, NeverStranded, Due, Stale
<1> QED
  BY StoreInvariant, <1>1, PTL

(* store.finish, store.abandon: the verdict and the outcome that a job     *)
(* shows agree, and are true.                                              *)
THEOREM RecordsTrue == Spec => []RecordTruthful
<1>1. StoreInv => RecordTruthful
  BY DEF StoreInv
<1> QED
  BY StoreInvariant, <1>1, PTL

-----------------------------------------------------------------------------
(* The lease.                                                              *)

(* No worker is at work after its lease; by how its delays are bounded,    *)
(* none ever is.                                                           *)
LeasesKept == \A w \in Workers : Busy(w) => clock - now[w] <= LeaseTimeout
KeptLeases == MaxRun <= LeaseTimeout

PostedUnborn == \A r \in posted : state[r] = "unborn"

InPast == \A w \in Workers : pc[w] \notin {"idle", "down"} => now[w] <= clock

(* leased_at of a job that is held is the `now` of its holder's claim. *)
LeasedNow == \A w \in Workers :
    Busy(w) /\ state[job[w]] = "running" => leasedAt[job[w]] = now[w]

UnbornUncompleted == \A r \in Replays : state[r] = "unborn" => ~completed[r]

LeaseInv == /\ PostedUnborn
            /\ InPast
            /\ LeaseExclusive
            /\ LeasedNow
            /\ UnbornUncompleted
            /\ CompletedIffTerminal

LEMMA LeaseInvInit == Init => LeaseInv
<1> SUFFICES ASSUME Init PROVE LeaseInv
  OBVIOUS
<1>1. PostedUnborn /\ InPast /\ LeaseExclusive /\ LeasedNow
  BY DEF Init, PostedUnborn, InPast, LeaseExclusive, LeasedNow, Busy, BusyAt
<1>2. UnbornUncompleted /\ CompletedIffTerminal
  BY DEF Init, UnbornUncompleted, CompletedIffTerminal, Stored, ReplayState
<1> QED
  BY <1>1, <1>2 DEF LeaseInv

(* No job whose holder is still at work is ever stale. *)
LEMMA HeldIsFresh ==
  ASSUME LeasesKept, TypeInv, LeaseInv,
         NEW w \in Workers, Busy(w), NEW v \in Workers, pc[v] = "reclaim"
  PROVE  ~Stale(job[w], now[v])
<1>1. /\ leasedAt \in [Replays -> Nat] /\ job[w] \in Replays
      /\ now[w] \in Nat /\ now[v] \in Nat /\ clock \in Nat
  BY DEF TypeInv, TypeOK, HoldsAttempt
<1>2. /\ now[v] <= clock
      /\ clock - now[w] <= LeaseTimeout
  BY DEF LeasesKept, LeaseInv, InPast
<1>3. CASE state[job[w]] = "running"
  <2>1. leasedAt[job[w]] = now[w]
    BY <1>3 DEF LeaseInv, LeasedNow
  <2> QED
    BY <1>1, <1>2, <2>1, ConstantsAssumption DEF Stale
<1>4. CASE state[job[w]] # "running"
  BY <1>4 DEF Stale
<1> QED
  BY <1>3, <1>4

(* A last write (finish or abandon) finds its own claim, or no document.   *)
LEMMA HolderFinds ==
  ASSUME TypeInv, LeaseInv, NEW w \in Workers, Busy(w)
  PROVE  /\ job[w] \in Replays
         /\ state[job[w]] \in {"running", "deleted"}
         /\ Stored(job[w]) <=> state[job[w]] = "running"
  BY DEF TypeInv, HoldsAttempt, LeaseInv, LeaseExclusive, Stored, ReplayState

LEMMA InTimeKeeps == ASSUME KeptLeases, TypeInv, InTime PROVE LeasesKept
  BY ConstantsAssumption
     DEF KeptLeases, TypeInv, TypeOK, InTime, LeasesKept, Busy, BusyAt

LEMMA LeaseInvNext == ASSUME LeasesKept, TypeInv, LeaseInv, [Next]_vars
                      PROVE  LeaseInv'
<1> USE DEF store, locals, history
<1>t. TypeInv'
  BY TypeInvNext
<1>1. PostedUnborn' /\ UnbornUncompleted' /\ CompletedIffTerminal'
  <2> USE DEF TypeInv, TypeOK, LeaseInv, PostedUnborn, UnbornUncompleted,
              CompletedIffTerminal, Stored, ReplayState, Terminal
  <2>1. ASSUME NEW r \in Replays, Post(r) \/ Enqueue(r)
        PROVE PostedUnborn' /\ UnbornUncompleted' /\ CompletedIffTerminal'
    BY <2>1 DEF Post, Enqueue
  <2>2. ASSUME NEW w \in Workers, Reclaim(w)
        PROVE PostedUnborn' /\ UnbornUncompleted' /\ CompletedIffTerminal'
    BY <2>2 DEF Reclaim, Stale
  <2>3. ASSUME NEW w \in Workers, Take(w)
        PROVE PostedUnborn' /\ UnbornUncompleted' /\ CompletedIffTerminal'
    BY <2>3 DEF Take, Earliest, Due
  <2>4. ASSUME NEW w \in Workers, Abandon(w)
        PROVE PostedUnborn' /\ UnbornUncompleted' /\ CompletedIffTerminal'
    <3>1. Busy(w) /\ Set(job[w], "failed", TRUE, "gone") /\ posted' = posted
      BY <2>4 DEF Abandon, Busy, BusyAt
    <3>2. job[w] \in Replays /\ state[job[w]] \in {"running", "deleted"}
      BY <3>1, HolderFinds
    <3>3. CASE state[job[w]] = "running"
      <4>1. /\ state' = [state EXCEPT ![job[w]] = "failed"]
            /\ completed' = [completed EXCEPT ![job[w]] = TRUE]
        BY <3>1, <3>3 DEF Set
      <4> QED
        BY <3>1, <3>2, <3>3, <4>1
    <3>4. CASE state[job[w]] = "deleted"
      BY <3>1, <3>4 DEF Set
    <3> QED
      BY <3>2, <3>3, <3>4
  <2>5. ASSUME NEW w \in Workers, Finish(w)
        PROVE PostedUnborn' /\ UnbornUncompleted' /\ CompletedIffTerminal'
    <3> DEFINE v == Verdict(result[w], tries[w])
    <3>1. Busy(w) /\ Set(job[w], v, v \in Terminal, result[w]) /\ posted' = posted
      BY <2>5 DEF Finish, Busy, BusyAt
    <3>2. v \in {"success", "pending", "failed"}
      BY DEF Verdict
    <3> HIDE DEF v
    <3>3. job[w] \in Replays /\ state[job[w]] \in {"running", "deleted"}
      BY <3>1, HolderFinds
    <3>4. CASE state[job[w]] = "running"
      <4>1. ~completed[job[w]]
        BY <3>3, <3>4
      <4>2. /\ state' = [state EXCEPT ![job[w]] = v]
            /\ completed' = [completed EXCEPT ![job[w]] = v \in Terminal]
        BY <3>1, <3>4, <4>1 DEF Set
      <4> QED
        BY <3>1, <3>2, <3>3, <3>4, <4>2
    <3>5. CASE state[job[w]] = "deleted"
      BY <3>1, <3>5 DEF Set
    <3> QED
      BY <3>3, <3>4, <3>5
  <2>6. CASE ResetReplays
    BY <2>6 DEF ResetReplays
  <2>7. CASE UNCHANGED <<posted, state, completed>>
    BY <2>7
  <2> QED
    BY <2>1, <2>2, <2>3, <2>4, <2>5, <2>6, <2>7
       DEF Next, WorkerStep, Poll, TakeNone, Lookup, Execute, Raise, Crash,
           Shutdown, Interrupt, Restart, ExpireEvent, ResetEvents, Tick, vars
<1>2. InPast'
  <2> USE DEF TypeInv, TypeOK, LeaseInv, InPast
  <2>1. CASE Tick
    BY <2>1 DEF Tick
  <2>2. ASSUME NEW w \in Workers, Poll(w) \/ Crash(w) \/ Shutdown(w) \/ Restart(w)
        PROVE InPast'
    BY <2>2 DEF Poll, Crash, Shutdown, Restart, Interrupt, Leave
  <2>3. ASSUME NEW w \in Workers,
               \/ Reclaim(w) \/ Take(w) \/ TakeNone(w) \/ Lookup(w)
               \/ Abandon(w) \/ Execute(w) \/ Finish(w) \/ Raise(w)
        PROVE InPast'
    <3>1. /\ UNCHANGED <<clock, now>>
          /\ \A v \in Workers : pc'[v] \in {"idle", "down"} \/ v = w \/ pc'[v] = pc[v]
          /\ pc[w] \notin {"idle", "down"}
      BY <2>3 DEF Reclaim, Take, TakeNone, Lookup, Abandon, Execute, Finish,
                  Raise, Interrupt, Leave, BusyAt, ClaimingAt
    <3> QED
      BY <3>1
  <2>4. CASE UNCHANGED <<clock, now, pc>>
    BY <2>4
  <2> QED
    BY <2>1, <2>2, <2>3, <2>4
       DEF Next, WorkerStep, Post, Enqueue, ExpireEvent, ResetEvents, ResetReplays, vars
<1>3. LeaseExclusive' /\ LeasedNow'
  <2> USE DEF TypeInv, TypeOK, HoldsAttempt, LeaseInv, LeaseExclusive, LeasedNow,
              Busy, BusyAt
  <2>1. ASSUME NEW r \in Replays, Post(r) \/ Enqueue(r)
        PROVE LeaseExclusive' /\ LeasedNow'
    BY <2>1 DEF Post, Enqueue, PostedUnborn
  <2>2. ASSUME NEW w \in Workers, Poll(w) \/ TakeNone(w) \/ Restart(w)
        PROVE LeaseExclusive' /\ LeasedNow'
    BY <2>2 DEF Poll, TakeNone, Restart, Leave
  <2>3. ASSUME NEW w \in Workers, Reclaim(w) PROVE LeaseExclusive' /\ LeasedNow'
    <3>1. \A v \in Workers : Busy(v)' => Busy(v) /\ state'[job[v]] = state[job[v]]
      BY <2>3, HeldIsFresh DEF Reclaim
    <3>2. UNCHANGED <<attempt, leasedAt, job, tries, now>>
      BY <2>3 DEF Reclaim
    <3> QED
      BY <3>1, <3>2
  <2>4. ASSUME NEW w \in Workers, Take(w) PROVE LeaseExclusive' /\ LeasedNow'
    \* The job was pending, so nobody holds it.
    <3>1. PICK r \in Earliest(Due(now[w])) :
             /\ state' = [state EXCEPT ![r] = "running"]
             /\ leasedAt' = [leasedAt EXCEPT ![r] = now[w]]
             /\ attempt' = [attempt EXCEPT ![r] = Counted(r)]
             /\ job' = [job EXCEPT ![w] = r]
             /\ tries' = [tries EXCEPT ![w] = attempt'[r]]
      BY <2>4 DEF Take
    <3>2. r \in Replays /\ state[r] = "pending"
      BY DEF Earliest, Due
    <3>3. \A v \in Workers : Busy(v) => job[v] # r
      BY <3>2
    <3> QED
      BY <2>4, <3>1, <3>2, <3>3 DEF Take
  <2>5. ASSUME NEW w \in Workers, Lookup(w) \/ Execute(w)
        PROVE LeaseExclusive' /\ LeasedNow'
    BY <2>5 DEF Lookup, Execute
  <2>6. ASSUME NEW w \in Workers, Abandon(w) \/ Finish(w)
        PROVE LeaseExclusive' /\ LeasedNow'
    <3>1. Busy(w) /\ Leave(w, "idle") /\ UNCHANGED <<attempt, leasedAt, now>>
      BY <2>6 DEF Abandon, Finish
    <3>2. /\ ~Busy(w)'
          /\ \A v \in Workers \ {w} : /\ job'[v] = job[v]
                                     /\ tries'[v] = tries[v]
                                     /\ pc'[v] = pc[v]
      BY <3>1 DEF Leave
    <3>3. \A r \in Replays : r # job[w] => state'[r] = state[r]
      BY <2>6 DEF Abandon, Finish, Set
    <3> QED
      BY <3>1, <3>2, <3>3
  <2>7. ASSUME NEW w \in Workers, Raise(w) \/ Crash(w) \/ Shutdown(w)
        PROVE LeaseExclusive' /\ LeasedNow'
    <3>1. /\ ~Busy(w)'
          /\ UNCHANGED <<attempt, leasedAt, state>>
          /\ \A v \in Workers \ {w} : /\ job'[v] = job[v]
                                     /\ tries'[v] = tries[v]
                                     /\ pc'[v] = pc[v]
                                     /\ now'[v] = now[v]
      BY <2>7 DEF Raise, Crash, Shutdown, Interrupt, Leave
    <3> QED
      BY <3>1
  <2>8. CASE ResetReplays
    BY <2>8 DEF ResetReplays, Stored, ReplayState
  <2>9. CASE UNCHANGED <<state, attempt, leasedAt, locals>>
    BY <2>9
  <2> QED
    BY <2>1, <2>2, <2>3, <2>4, <2>5, <2>6, <2>7, <2>8, <2>9
       DEF Next, WorkerStep, ExpireEvent, ResetEvents, Tick, vars
<1> QED
  BY <1>1, <1>2, <1>3 DEF LeaseInv

LEMMA LeaseInvariant ==
  ASSUME KeptLeases PROVE Spec => [](TypeInv /\ InTime /\ LeaseInv)
<1>1. TypeInv /\ InTime /\ [Next]_vars => InTime'
  BY InTimeNext
<1>2. TypeInv /\ InTime /\ LeaseInv /\ [Next]_vars => LeaseInv'
  BY InTimeKeeps, LeaseInvNext
<1> QED
  BY TypeInvInit, TypeInvNext, InTimeInit, LeaseInvInit, <1>1, <1>2, PTL DEF Spec

(* store.claim: as long as no worker outlives its lease, a job has at most *)
(* one worker at a time and its document shows that worker's claim, so the *)
(* unconditional writes of store.finish and store.abandon overwrite        *)
(* nobody's work.                                                          *)
THEOREM LeaseProtects == ASSUME KeptLeases PROVE Spec => []LeaseExclusive
<1>1. LeaseInv => LeaseExclusive
  BY DEF LeaseInv
<1> QED
  BY LeaseInvariant, <1>1, PTL

(* store.finish, store.abandon: completed_at is set exactly on the jobs    *)
(* that are over.                                                          *)
THEOREM CompletedWhenOver == ASSUME KeptLeases PROVE Spec => []CompletedIffTerminal
<1>1. LeaseInv => CompletedIffTerminal
  BY DEF LeaseInv
<1> QED
  BY LeaseInvariant, <1>1, PTL

LEMMA FinalStep ==
  ASSUME TypeInv, LeaseInv, [Next]_vars, NEW r \in Replays, state[r] \in Terminal
  PROVE  state'[r] \in {state[r], "deleted"}
<1> USE DEF TypeInv, TypeOK, store, locals, history, Terminal
<1>1. ASSUME NEW q \in Replays, Post(q) \/ Enqueue(q)
      PROVE state'[r] \in {state[r], "deleted"}
  BY <1>1 DEF Post, Enqueue, LeaseInv, PostedUnborn
<1>2. ASSUME NEW w \in Workers, Reclaim(w) PROVE state'[r] \in {state[r], "deleted"}
  BY <1>2 DEF Reclaim, Stale
<1>3. ASSUME NEW w \in Workers, Take(w) PROVE state'[r] \in {state[r], "deleted"}
  BY <1>3 DEF Take, Earliest, Due
<1>4. ASSUME NEW w \in Workers, Abandon(w) \/ Finish(w)
      PROVE state'[r] \in {state[r], "deleted"}
  <2>1. Busy(w)
    BY <1>4 DEF Abandon, Finish, Busy, BusyAt
  <2>2. job[w] # r
    BY <2>1, HolderFinds
  <2> QED
    BY <1>4, <2>2 DEF Abandon, Finish, Set
<1>5. CASE ResetReplays
  BY <1>5 DEF ResetReplays
<1>6. CASE UNCHANGED state
  BY <1>6
<1> QED
  BY <1>1, <1>2, <1>3, <1>4, <1>5, <1>6
     DEF Next, WorkerStep, Poll, TakeNone, Lookup, Execute, Raise, Crash,
         Shutdown, Interrupt, Restart, ExpireEvent, ResetEvents, Tick, vars

(* A settled job is never queued again and keeps its verdict.              *)
THEOREM SettledIsFinal == ASSUME KeptLeases PROVE Spec => TerminalIsFinal
<1>1. TypeInv /\ LeaseInv /\ [Next]_vars =>
        [\A r \in Replays : state[r] \in Terminal =>
            state'[r] \in {state[r], "deleted"}]_vars
  BY FinalStep
<1> QED
  BY LeaseInvariant, <1>1, PTL DEF Spec, TerminalIsFinal

-----------------------------------------------------------------------------
(* Counting: attempts, interruptions and answers balance.                  *)

Held(r) == \E w \in Workers : Busy(w) /\ job[w] = r

(* The worker has an accepting answer that is not recorded yet. *)
HasAnswer(w) == pc[w] = "finish" /\ result[w] = "ok"

(* A job that waits, or whose worker was interrupted, may be attempted     *)
(* again, and every accepting answer it had was lost or did not arrive.    *)
RestCounts == \A r \in Replays :
    state[r] \in {"pending", "running"} /\ ~Held(r) =>
        /\ attempt[r] < MaxAttempts + lost[r]
        /\ acks[r] <= unread[r] + lost[r]

(* An attempt has one accepting answer at most, when it comes to its end.  *)
HolderCounts == \A w \in Workers : Busy(w) =>
    /\ lost[job[w]] < attempt[job[w]]
    /\ pc[w] # "finish" => acks[job[w]] < attempt[job[w]]
    /\ IF HasAnswer(w) THEN acks[job[w]] > 0
       ELSE acks[job[w]] <= unread[job[w]] + lost[job[w]]

UnbornCounts == \A r \in Replays :
    state[r] = "unborn" => attempt[r] = 0 /\ acks[r] = 0

LostReached == \A r \in Replays : lost[r] <= attempt[r] /\ acks[r] <= attempt[r]

CountInv == /\ RestCounts
            /\ HolderCounts
            /\ UnbornCounts
            /\ LostReached
            /\ AttemptsBounded
            /\ AcceptedOnce

LEMMA CountInvInit == Init => CountInv
  BY MaxAttemptsType
     DEF Init, CountInv, RestCounts, HolderCounts, UnbornCounts, LostReached,
         AttemptsBounded, AcceptedOnce, Busy, BusyAt

(* Nobody but w has w's job. *)
LEMMA SoleHolder ==
  ASSUME TypeInv, LeaseInv, NEW w \in Workers, Busy(w)
  PROVE  \A v \in Workers \ {w} : Busy(v) => job[v] # job[w]
  BY DEF LeaseInv, LeaseExclusive

LEMMA CountInvNext == ASSUME TypeInv, LeaseInv, CountInv, [Next]_vars
                      PROVE  CountInv'
<1> USE MaxAttemptsType
        DEF TypeInv, TypeOK, CountInv, RestCounts, HolderCounts, UnbornCounts,
            LostReached, AttemptsBounded, AcceptedOnce, Held, HasAnswer, Busy, BusyAt,
            store, locals, history
<1>1. ASSUME NEW r \in Replays, Post(r) \/ Enqueue(r) PROVE CountInv'
  BY <1>1 DEF Post, Enqueue, LeaseInv, PostedUnborn
<1>2. ASSUME NEW w \in Workers, Poll(w) \/ TakeNone(w) \/ Lookup(w) \/ Restart(w)
      PROVE CountInv'
  <2>1. /\ UNCHANGED <<state, attempt, acks, unread, lost>>
        /\ \A v \in Workers : /\ Busy(v)' <=> Busy(v)
                              /\ Busy(v) => job'[v] = job[v]
                              /\ pc'[v] = "finish" <=> pc[v] = "finish"
                              /\ HasAnswer(v)' <=> HasAnswer(v)
    BY <1>2 DEF Poll, TakeNone, Lookup, Restart, Leave
  <2>2. \A r \in Replays : Held(r)' <=> Held(r)
    BY <2>1
  <2> HIDE DEF Busy, HasAnswer, Held
  <2> QED
    BY <2>1, <2>2
<1>3. ASSUME NEW w \in Workers, Reclaim(w) PROVE CountInv'
  <2>1. /\ UNCHANGED <<attempt, acks, unread, lost, job, result>>
        /\ \A v \in Workers : /\ Busy(v)' <=> Busy(v)
                              /\ pc'[v] = "finish" <=> pc[v] = "finish"
                              /\ HasAnswer(v)' <=> HasAnswer(v)
    BY <1>3 DEF Reclaim
  <2>2. \A r \in Replays : \/ state'[r] = state[r]
                           \/ state[r] = "running" /\ state'[r] = "pending"
    BY <1>3 DEF Reclaim, Stale
  <2>3. \A r \in Replays : Held(r)' <=> Held(r)
    BY <2>1
  <2> HIDE DEF Busy, HasAnswer, Held
  <2> QED
    BY <2>1, <2>2, <2>3
<1>4. ASSUME NEW w \in Workers, Take(w) PROVE CountInv'
  <2>1. PICK r \in Earliest(Due(now[w])) :
           /\ state' = [state EXCEPT ![r] = "running"]
           /\ attempt' = [attempt EXCEPT ![r] = Counted(r)]
           /\ job' = [job EXCEPT ![w] = r]
    BY <1>4 DEF Take
  <2>2. r \in Replays /\ state[r] = "pending"
    BY DEF Earliest, Due
  <2>3. \A v \in Workers : Busy(v) => job[v] # r
    BY <2>2, HolderFinds
  <2>4. /\ UNCHANGED <<acks, unread, lost>>
        /\ pc[w] = "take" /\ pc'[w] = "lookup" /\ job'[w] = r
        /\ attempt'[r] = attempt[r] + 1
        /\ \A v \in Workers \ {w} : job'[v] = job[v] /\ pc'[v] = pc[v] /\ result'[v] = result[v]
        /\ \A q \in Replays \ {r} : state'[q] = state[q] /\ attempt'[q] = attempt[q]
    BY <1>4, <2>1, <2>2 DEF Take, Counted
  <2>5. attempt[r] < MaxAttempts + lost[r] /\ acks[r] <= unread[r] + lost[r]
    BY <2>2, <2>3
  <2>6. HolderCounts'
    BY <2>2, <2>3, <2>4, <2>5, HolderFinds
  <2>7. Held(r)' /\ \A q \in Replays : Held(q) => Held(q)'
    BY <2>2, <2>4
  <2>8. RestCounts'
    BY <2>2, <2>4, <2>7
  <2> QED
    BY <2>1, <2>2, <2>4, <2>5, <2>6, <2>8
<1>5. ASSUME NEW w \in Workers, Abandon(w) \/ Finish(w) PROVE CountInv'
  <2>1. Busy(w) /\ Leave(w, "idle") /\ UNCHANGED <<attempt, acks, unread, lost>>
    BY <1>5 DEF Abandon, Finish
  <2>2. /\ ~Busy(w)'
        /\ \A v \in Workers \ {w} : job'[v] = job[v] /\ pc'[v] = pc[v] /\ result'[v] = result[v]
    BY <2>1 DEF Leave
  <2>3. \A r \in Replays : r # job[w] => state'[r] = state[r]
    BY <1>5 DEF Abandon, Finish, Set
  <2>4. job[w] \in Replays /\ state[job[w]] \in {"running", "deleted"}
    BY <2>1, HolderFinds
  <2>5. ASSUME state'[job[w]] \in {"pending", "running"}
        PROVE  /\ attempt[job[w]] < MaxAttempts + lost[job[w]]
               /\ acks[job[w]] <= unread[job[w]] + lost[job[w]]
    <3>1. CASE Abandon(w)
      BY <3>1, <2>4, <2>5 DEF Abandon, Set, Stored, ReplayState
    <3>2. CASE Finish(w)
      <4>1. Stored(job[w]) /\ state'[job[w]] = Verdict(result[w], tries[w])
        BY <3>2, <2>4, <2>5 DEF Finish, Set, Stored, ReplayState
      <4>2. result[w] = "retry" /\ tries[w] < MaxAttempts
        BY <4>1, <2>5 DEF Verdict, Retries
      <4>3. attempt[job[w]] = tries[w]
        BY <4>1, <2>1 DEF LeaseInv, LeaseExclusive, Stored, ReplayState
      <4> QED
        BY <4>2, <4>3, <2>1, <2>4
    <3> QED
      BY <1>5, <3>1, <3>2
  <2>6. RestCounts'
    <3> SUFFICES ASSUME NEW r \in Replays, state'[r] \in {"pending", "running"}, ~Held(r)'
                 PROVE  (/\ attempt[r] < MaxAttempts + lost[r]
                         /\ acks[r] <= unread[r] + lost[r])'
      OBVIOUS
    <3>1. CASE r = job[w]
      BY <3>1, <2>1, <2>5
    <3>2. CASE r # job[w]
      <4>1. Held(r) => Held(r)'
        BY <3>2, <2>2
      <4> QED
        BY <3>2, <4>1, <2>1, <2>3
    <3> QED
      BY <3>1, <3>2
  <2>7. HolderCounts'
    BY <2>1, <2>2
  <2>8. UnbornCounts'
    <3>1. state'[job[w]] = "unborn" => FALSE
      BY <1>5, <2>4 DEF Abandon, Finish, Set, Verdict
    <3> QED
      BY <3>1, <2>1, <2>3
  <2> QED
    BY <2>1, <2>6, <2>7, <2>8
<1>6. ASSUME NEW w \in Workers, Execute(w) PROVE CountInv'
  <2>1. PICK x \in Results :
           /\ result' = [result EXCEPT ![w] = x.outcome]
           /\ acks' = IF x.accepted THEN [acks EXCEPT ![job[w]] = @ + 1] ELSE acks
           /\ unread' = IF x.accepted /\ x.outcome = "retry"
                        THEN [unread EXCEPT ![job[w]] = @ + 1] ELSE unread
    BY <1>6 DEF Execute
  <2>2. /\ Busy(w) /\ ~HasAnswer(w) /\ pc[w] = "execute" /\ pc'[w] = "finish" /\ Busy(w)'
        /\ UNCHANGED <<state, attempt, lost, job>>
        /\ \A v \in Workers \ {w} : pc'[v] = pc[v] /\ result'[v] = result[v]
    BY <1>6, <2>1 DEF Execute
  <2>3. job[w] \in Replays /\ state[job[w]] \in {"running", "deleted"}
    BY <2>2, HolderFinds
  <2>4. \A v \in Workers \ {w} : Busy(v) => job[v] # job[w]
    BY <2>2, SoleHolder
  <2>5. /\ \A r \in Replays \ {job[w]} : acks'[r] = acks[r] /\ unread'[r] = unread[r]
        /\ acks'[job[w]] = IF x.accepted THEN acks[job[w]] + 1 ELSE acks[job[w]]
        /\ unread'[job[w]] = IF x.accepted /\ x.outcome = "retry"
                             THEN unread[job[w]] + 1 ELSE unread[job[w]]
    BY <2>1, <2>3
  <2>x. /\ x.outcome = "ok" => x.accepted
        /\ x.accepted => x.outcome \in {"ok", "retry"}
        /\ HasAnswer(w)' <=> x.outcome = "ok"
    BY <2>1, <2>2 DEF Results
  <2>y. /\ acks[job[w]] < attempt[job[w]]
        /\ acks[job[w]] <= unread[job[w]] + lost[job[w]]
    BY <2>2
  <2>6. HolderCounts'
    <3> SUFFICES ASSUME NEW v \in Workers, Busy(v)'
                 PROVE  (/\ lost[job[v]] < attempt[job[v]]
                         /\ pc[v] # "finish" => acks[job[v]] < attempt[job[v]]
                         /\ IF HasAnswer(v) THEN acks[job[v]] > 0
                            ELSE acks[job[v]] <= unread[job[v]] + lost[job[v]])'
      OBVIOUS
    <3>1. CASE v = w
      <4>1. /\ lost[job[w]] < attempt[job[w]]
            /\ job'[w] = job[w] /\ lost' = lost /\ attempt' = attempt
            /\ acks[job[w]] \in Nat /\ unread[job[w]] \in Nat /\ lost[job[w]] \in Nat
        BY <2>2, <2>3
      <4>2. x.outcome = "ok" => acks'[job[w]] > 0
        BY <4>1, <2>5, <2>x
      <4>3. x.outcome # "ok" => acks'[job[w]] <= unread'[job[w]] + lost[job[w]]
        BY <4>1, <2>5, <2>x, <2>y
      <4> HIDE DEF HasAnswer, Busy
      <4> QED
        BY <3>1, <4>1, <4>2, <4>3, <2>2, <2>x
    <3>2. CASE v # w
      <4>1. pc'[v] = pc[v] /\ result'[v] = result[v] /\ job'[v] = job[v] /\ Busy(v)
        BY <3>2, <2>2
      <4>2. job[v] \in Replays \ {job[w]}
        BY <4>1, <3>2, <2>4, HolderFinds
      <4> QED
        BY <4>1, <4>2, <2>2, <2>5
    <3> QED
      BY <3>1, <3>2
  <2>7. RestCounts'
    <3> SUFFICES ASSUME NEW r \in Replays, state[r] \in {"pending", "running"}, ~Held(r)'
                 PROVE  /\ attempt[r] < MaxAttempts + lost[r]
                        /\ acks'[r] <= unread'[r] + lost[r]
      BY <2>2
    <3>1. r # job[w]
      BY <2>2
    <3>2. ~Held(r)
      BY <3>1, <2>2
    <3> QED
      BY <3>1, <3>2, <2>5
  <2>8. UnbornCounts'
    BY <2>2, <2>3, <2>5
  <2>9. AcceptedOnce' /\ AttemptsBounded' /\ LostReached'
    <3>1. /\ acks'[job[w]] <= 1 + unread'[job[w]] + lost[job[w]]
          /\ acks'[job[w]] <= attempt[job[w]]
      BY <2>3, <2>5, <2>y
    <3> QED
      BY <3>1, <2>2, <2>5
  <2> QED
    BY <2>6, <2>7, <2>8, <2>9
<1>7. ASSUME NEW w \in Workers, Raise(w) \/ Crash(w) \/ Shutdown(w) PROVE CountInv'
  <2>1. /\ ~Busy(w)'
        /\ UNCHANGED <<attempt, unread, state>>
        /\ lost' = IF Busy(w) THEN [lost EXCEPT ![job[w]] = @ + 1] ELSE lost
        /\ \/ UNCHANGED acks
           \/ pc[w] = "execute" /\ acks' = [acks EXCEPT ![job[w]] = @ + 1]
        /\ \A v \in Workers \ {w} : job'[v] = job[v] /\ pc'[v] = pc[v] /\ result'[v] = result[v]
    BY <1>7 DEF Raise, Crash, Shutdown, Interrupt, Leave
  <2>2. CASE Busy(w)
    <3>1. job[w] \in Replays /\ state[job[w]] \in {"running", "deleted"}
      BY <2>2, HolderFinds
    <3>2. \A v \in Workers \ {w} : Busy(v) => job[v] # job[w]
      BY <2>2, SoleHolder
    <3>3. /\ \A r \in Replays \ {job[w]} : lost'[r] = lost[r] /\ acks'[r] = acks[r]
          /\ lost'[job[w]] = lost[job[w]] + 1
          /\ \/ acks'[job[w]] = acks[job[w]]
             \/ /\ acks'[job[w]] = acks[job[w]] + 1
                /\ acks[job[w]] < attempt[job[w]]
                /\ acks[job[w]] <= unread[job[w]] + lost[job[w]]
      BY <2>1, <2>2, <3>1
    <3>4. HolderCounts'
      <4> SUFFICES ASSUME NEW v \in Workers, Busy(v)'
                   PROVE  (/\ lost[job[v]] < attempt[job[v]]
                           /\ pc[v] # "finish" => acks[job[v]] < attempt[job[v]]
                           /\ IF HasAnswer(v) THEN acks[job[v]] > 0
                              ELSE acks[job[v]] <= unread[job[v]] + lost[job[v]])'
        OBVIOUS
      <4>1. v # w /\ Busy(v) /\ job'[v] = job[v] /\ pc'[v] = pc[v] /\ result'[v] = result[v]
        BY <2>1
      <4>2. job[v] \in Replays \ {job[w]}
        BY <4>1, <3>2, HolderFinds
      <4> QED
        BY <4>1, <4>2, <3>3, <2>1
    <3>5. RestCounts'
      <4> SUFFICES ASSUME NEW r \in Replays, state'[r] \in {"pending", "running"}, ~Held(r)'
                   PROVE  (/\ attempt[r] < MaxAttempts + lost[r]
                           /\ acks[r] <= unread[r] + lost[r])'
        OBVIOUS
      <4>1. CASE r = job[w]
        BY <4>1, <2>1, <2>2, <3>1, <3>3
      <4>2. CASE r # job[w]
        <5>1. Held(r) => Held(r)'
          BY <4>2, <2>1
        <5> QED
          BY <4>2, <5>1, <2>1, <3>3
      <4> QED
        BY <4>1, <4>2
    <3>6. UnbornCounts'
      BY <2>1, <3>1, <3>3
    <3>7. LostReached' /\ AttemptsBounded' /\ AcceptedOnce'
      BY <2>1, <2>2, <3>1, <3>3
    <3> QED
      BY <3>4, <3>5, <3>6, <3>7
  <2>3. CASE ~Busy(w)
    BY <2>1, <2>3
  <2> QED
    BY <2>2, <2>3
<1>8. CASE ResetReplays
  BY <1>8 DEF ResetReplays, Stored, ReplayState
<1>9. CASE UNCHANGED <<state, attempt, acks, unread, lost, pc, job, result>>
  BY <1>9
<1> QED
  BY <1>1, <1>2, <1>3, <1>4, <1>5, <1>6, <1>7, <1>8, <1>9
     DEF Next, WorkerStep, ExpireEvent, ResetEvents, Tick, vars

LEMMA CountInvariant ==
  ASSUME KeptLeases PROVE Spec => [](TypeInv /\ LeaseInv /\ CountInv)
<1>1. TypeInv /\ LeaseInv /\ CountInv /\ [Next]_vars => CountInv'
  BY CountInvNext
<1> QED
  BY LeaseInvariant, CountInvInit, <1>1, PTL DEF Spec

(* store.claim, store.finish: an attempt beyond max_attempts has an        *)
(* interrupted attempt to account for it.                                  *)
THEOREM AttemptsAccounted == ASSUME KeptLeases PROVE Spec => []AttemptsBounded
<1>1. CountInv => AttemptsBounded
  BY DEF CountInv
<1> QED
  BY CountInvariant, <1>1, PTL

(* worker.run_once, runner.execute: a replay that was answered with        *)
(* success is sent again only when its worker was interrupted before       *)
(* recording the answer, or did not receive the whole of it.               *)
THEOREM DeliveredOnce == ASSUME KeptLeases PROVE Spec => []AcceptedOnce
<1>1. CountInv => AcceptedOnce
  BY DEF CountInv
<1> QED
  BY CountInvariant, <1>1, PTL

-----------------------------------------------------------------------------
(* Refinement: every step of the queue is a step of the contract, or none. *)

Status == [r \in Replays |-> StatusOf(state[r])]

LEMMA ContractInit == Init => Contract!Init
  BY DEF Init, Contract!Init, StatusOf

(* A step that moves one job's state moves one job's status. *)
LEMMA StatusOfOne ==
  ASSUME TypeOK, NEW r \in Replays,
         \A q \in Replays \ {r} : state'[q] = state[q], TypeOK'
  PROVE  Status' = [Status EXCEPT ![r] = StatusOf(state'[r])]
  BY DEF Status, TypeOK

LEMMA StatusSame ==
  ASSUME TypeOK, TypeOK', \A q \in Replays : StatusOf(state'[q]) = StatusOf(state[q])
  PROVE  Status' = Status
  BY DEF Status

LEMMA ContractStep ==
  ASSUME TypeInv, LeaseInv, CountInv, [Next]_vars
  PROVE  [Contract!Next]_(Contract!vars)
<1> USE DEF store, locals, history
<1>t. TypeOK /\ TypeOK'
  BY TypeInvNext DEF TypeInv
<1>s. /\ Contract!vars = <<Status, attempt, acks, unread, lost>>
      /\ (Contract!vars)' = <<Status', attempt', acks', unread', lost'>>
  BY DEF Contract!vars, Status
<1>1. ASSUME NEW r \in Replays, Enqueue(r) PROVE Contract!Accept(r)
  <2>1. state[r] = "unborn" /\ state' = [state EXCEPT ![r] = "pending"]
    BY <1>1 DEF Enqueue, LeaseInv, PostedUnborn
  <2>2. Status' = [Status EXCEPT ![r] = "open"] /\ Status[r] = "none"
    BY <1>t, <2>1, StatusOfOne DEF StatusOf, TypeOK, Status
  <2> QED
    BY <1>1, <2>2 DEF Enqueue, Contract!Accept, Status
<1>2. ASSUME NEW w \in Workers, Take(w) PROVE \E r \in Replays : Contract!Start(r)
  <2>1. PICK r \in Earliest(Due(now[w])) :
           /\ state' = [state EXCEPT ![r] = "running"]
           /\ attempt' = [attempt EXCEPT ![r] = Counted(r)]
    BY <1>2 DEF Take
  <2>2. r \in Replays /\ state[r] = "pending"
    BY DEF Earliest, Due
  <2>3. attempt[r] < MaxAttempts + lost[r]
    <3>1. ~Held(r)
      BY <2>2, HolderFinds DEF Held
    <3> QED
      BY <2>2, <3>1 DEF CountInv, RestCounts
  <2>4. Status' = Status /\ Status[r] = "open"
    BY <1>t, <2>1, <2>2, StatusSame DEF StatusOf, TypeOK, Status
  <2>5. Contract!Start(r)
    BY <1>2, <2>1, <2>2, <2>3, <2>4 DEF Take, Counted, Contract!Start, Status
  <2> QED
    BY <2>2, <2>5
<1>3. ASSUME NEW w \in Workers, Execute(w)
      PROVE  Contract!Deliver(job[w]) \/ UNCHANGED Contract!vars
  <2>1. PICK x \in Results :
           /\ acks' = IF x.accepted THEN [acks EXCEPT ![job[w]] = @ + 1] ELSE acks
           /\ unread' = IF x.accepted /\ x.outcome = "retry"
                        THEN [unread EXCEPT ![job[w]] = @ + 1] ELSE unread
    BY <1>3 DEF Execute
  <2>2. Busy(w) /\ ~HasAnswer(w) /\ pc[w] = "execute"
    BY <1>3 DEF Execute, Busy, BusyAt, HasAnswer
  <2>3. /\ job[w] \in Replays
        /\ StatusOf(state[job[w]]) \in {"open", "deleted"}
    BY <2>2, HolderFinds DEF StatusOf
  <2>4. /\ acks[job[w]] <= unread[job[w]] + lost[job[w]]
        /\ acks[job[w]] < attempt[job[w]]
    BY <2>2 DEF CountInv, HolderCounts
  <2>6. UNCHANGED <<state, attempt, lost>>
    BY <1>3 DEF Execute
  <2>7. CASE x.accepted
    <3>1. Contract!Accepted(job[w])
      BY <2>1, <2>4, <2>7 DEF Contract!Accepted
    <3> QED
      BY <2>1, <2>3, <2>6, <2>7, <3>1 DEF Contract!Deliver
  <2>8. CASE ~x.accepted
    BY <1>s, <2>1, <2>6, <2>8 DEF Status
  <2> QED
    BY <2>7, <2>8
<1>4. ASSUME NEW w \in Workers, Abandon(w)
      PROVE  Contract!Fail(job[w]) \/ UNCHANGED Contract!vars
  <2>1. Busy(w) /\ Set(job[w], "failed", TRUE, "gone") /\ UNCHANGED <<attempt, acks, unread, lost>>
    BY <1>4 DEF Abandon, Busy, BusyAt
  <2>2. job[w] \in Replays /\ state[job[w]] \in {"running", "deleted"}
    BY <2>1, HolderFinds
  <2>3. attempt[job[w]] > 0
    BY <1>t, <2>1, <2>2 DEF CountInv, HolderCounts, TypeOK
  <2>4. CASE state[job[w]] = "running"
    <3>1. state' = [state EXCEPT ![job[w]] = "failed"]
      BY <2>1, <2>4 DEF Set, Stored, ReplayState
    <3>a. /\ state'[job[w]] = "failed"
          /\ \A q \in Replays \ {job[w]} : state'[q] = state[q]
      BY <1>t, <2>2, <3>1 DEF TypeOK
    <3>b. StatusOf("failed") = "failed" /\ Status[job[w]] = "open"
      BY <2>2, <2>4 DEF StatusOf, Status
    <3>2. Status' = [Status EXCEPT ![job[w]] = "failed"]
      BY <1>t, <2>2, <3>a, <3>b, StatusOfOne
    <3> QED
      BY <2>1, <2>3, <3>b, <3>2 DEF Contract!Fail, Status
  <2>5. CASE state[job[w]] = "deleted"
    <3>1. UNCHANGED state
      BY <2>1, <2>5 DEF Set, Stored, ReplayState
    <3> QED
      BY <1>s, <2>1, <3>1 DEF Status
  <2> QED
    BY <2>2, <2>4, <2>5
<1>5. ASSUME NEW w \in Workers, Finish(w)
      PROVE  Contract!Succeed(job[w]) \/ Contract!Fail(job[w]) \/ UNCHANGED Contract!vars
  <2> DEFINE v == Verdict(result[w], tries[w])
  <2>1. /\ Busy(w) /\ Set(job[w], v, v \in Terminal, result[w])
        /\ UNCHANGED <<attempt, acks, unread, lost>>
    BY <1>5 DEF Finish, Busy, BusyAt
  <2>2. job[w] \in Replays /\ state[job[w]] \in {"running", "deleted"}
    BY <2>1, HolderFinds
  <2>3. attempt[job[w]] > 0
    BY <1>t, <2>1, <2>2 DEF CountInv, HolderCounts, TypeOK
  <2>4. v = "success" => acks[job[w]] > 0
    <3>1. v = "success" => HasAnswer(w)
      BY <1>5 DEF Finish, HasAnswer, Verdict
    <3> QED
      BY <2>1, <3>1 DEF CountInv, HolderCounts
  <2>5. v \in {"success", "pending", "failed"}
    BY DEF Verdict
  <2> HIDE DEF v
  <2>6. CASE state[job[w]] = "running"
    <3>1. state' = [state EXCEPT ![job[w]] = v]
      BY <2>1, <2>6 DEF Set, Stored, ReplayState
    <3>a. /\ state'[job[w]] = v
          /\ \A q \in Replays \ {job[w]} : state'[q] = state[q]
      BY <1>t, <2>2, <3>1 DEF TypeOK
    <3>b. StatusOf(v) = StatusOf(v) /\ Status[job[w]] = "open"
      BY <2>2, <2>6 DEF StatusOf, Status
    <3>2. Status' = [Status EXCEPT ![job[w]] = StatusOf(v)]
      BY <1>t, <2>2, <3>a, <3>b, StatusOfOne
    <3>3. CASE v = "success"
      BY <2>1, <2>4, <3>b, <3>2, <3>3 DEF Contract!Succeed, Status, StatusOf
    <3>4. CASE v = "failed"
      BY <2>1, <2>3, <3>b, <3>2, <3>4 DEF Contract!Fail, Status, StatusOf
    <3>5. CASE v = "pending"
      <4>1. Status' = Status
        BY <1>t, <2>2, <2>6, <3>1, <3>5, StatusSame DEF StatusOf, TypeOK
      <4> QED
        BY <1>s, <2>1, <4>1
    <3> QED
      BY <2>5, <3>3, <3>4, <3>5
  <2>7. CASE state[job[w]] = "deleted"
    <3>1. UNCHANGED state
      BY <2>1, <2>7 DEF Set, Stored, ReplayState
    <3> QED
      BY <1>s, <2>1, <3>1 DEF Status
  <2> QED
    BY <2>2, <2>6, <2>7
<1>6. ASSUME NEW w \in Workers, Raise(w) \/ Crash(w) \/ Shutdown(w)
      PROVE  (\E r \in Replays : Contract!Lose(r)) \/ UNCHANGED Contract!vars
  <2>1. /\ UNCHANGED <<state, attempt, unread>>
        /\ lost' = IF Busy(w) THEN [lost EXCEPT ![job[w]] = @ + 1] ELSE lost
        /\ \/ UNCHANGED acks
           \/ pc[w] = "execute" /\ acks' = [acks EXCEPT ![job[w]] = @ + 1]
    BY <1>6 DEF Raise, Crash, Shutdown, Interrupt
  <2>2. CASE Busy(w)
    <3>1. /\ job[w] \in Replays
          /\ StatusOf(state[job[w]]) \in {"open", "deleted"}
      BY <2>2, HolderFinds DEF StatusOf
    <3>2. lost[job[w]] < attempt[job[w]]
      BY <2>2 DEF CountInv, HolderCounts
    <3>3. UNCHANGED acks \/ Contract!Accepted(job[w])
      <4>1. CASE pc[w] = "execute" /\ acks' = [acks EXCEPT ![job[w]] = @ + 1]
        <5>1. /\ acks[job[w]] <= unread[job[w]] + lost[job[w]]
              /\ acks[job[w]] < attempt[job[w]]
          BY <2>2, <4>1 DEF CountInv, HolderCounts, HasAnswer
        <5> QED
          BY <4>1, <5>1 DEF Contract!Accepted
      <4> QED
        BY <2>1, <4>1
    <3> QED
      BY <2>1, <2>2, <3>1, <3>2, <3>3 DEF Contract!Lose
  <2>3. CASE ~Busy(w)
    BY <1>s, <2>1, <2>3 DEF Status, Busy, BusyAt
  <2> QED
    BY <2>2, <2>3
<1>7. CASE ResetReplays
  <2>1. /\ UNCHANGED <<attempt, acks, unread, lost>>
        /\ state' = [r \in Replays |-> IF Stored(r) THEN "deleted" ELSE state[r]]
    BY <1>7 DEF ResetReplays
  <2>2. \A r \in Replays : StatusOf(state'[r]) =
           IF StatusOf(state[r]) = "none" THEN "none" ELSE "deleted"
    BY <1>t, <2>1 DEF StatusOf, Stored, ReplayState, TypeOK
  <2>3. Status' = [r \in Replays |-> IF Status[r] = "none" THEN "none" ELSE "deleted"]
    BY <2>2 DEF Status
  <2> QED
    BY <2>1, <2>3 DEF Contract!Erase, Contract!Next, Status
<1>8. ASSUME NEW w \in Workers, Reclaim(w) PROVE UNCHANGED Contract!vars
  <2>1. UNCHANGED <<attempt, acks, unread, lost>>
    BY <1>8 DEF Reclaim
  <2>2. Status' = Status
    BY <1>8, <1>t, StatusSame DEF Reclaim, Stale, StatusOf, TypeOK
  <2> QED
    BY <1>s, <2>1, <2>2
<1>9. CASE UNCHANGED <<state, attempt, acks, unread, lost>>
  BY <1>9, <1>s DEF Status
<1>10. \A w \in Workers : Abandon(w) \/ Execute(w) \/ Finish(w) => job[w] \in Replays
  BY HolderFinds DEF Abandon, Execute, Finish, Busy, BusyAt
<1> QED
  BY <1>1, <1>2, <1>3, <1>4, <1>5, <1>6, <1>7, <1>8, <1>9, <1>10
     DEF Next, WorkerStep, Post, Poll, TakeNone, Lookup, Restart, ExpireEvent,
         ResetEvents, Tick, vars, Contract!Next

(* The queue with workers that keep their leases implements ReplayContract:*)
(* a settled job is final, extra attempts come only from interrupted ones, *)
(* repeated deliveries only from these and from answers that did not       *)
(* arrive whole, and "success" is recorded only for a job the destination  *)
(* accepted.                                                               *)
THEOREM QueueImplementsContract ==
  ASSUME KeptLeases PROVE Spec => ImplementsContract
<1>1. TypeInv /\ LeaseInv /\ CountInv /\ [Next]_vars => [Contract!Next]_(Contract!vars)
  BY ContractStep
<1> QED
  BY CountInvariant, ContractInit, <1>1, PTL DEF Spec, ImplementsContract, Contract!Spec
=============================================================================
