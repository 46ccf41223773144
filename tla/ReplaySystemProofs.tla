------------------------- MODULE ReplaySystemProofs -------------------------
(***************************************************************************)
(* Proofs about ReplaySystem, for every number of jobs, workers, hosts and *)
(* addresses and every limit.  The composed system implements the queue,   *)
(* so what ReplayQueueProofs shows of the queue holds of it; the rest      *)
(* relates what is on the network to what is in the collection:            *)
(*   NetInv     what a worker inside execute holds                         *)
(*   SentInv    which attempts and hops have been requested                *)
(*   EarnedInv  a success, recorded or about to be, was answered           *)
(*   LateInv    until a worker is late, the lease protects its holder      *)
(***************************************************************************)
EXTENDS ReplaySystem, ReplayQueueProofs

LEMMA QueueMoves == ASSUME [SystemNext]_systemVars PROVE [Next]_vars
<1>1. ASSUME NEW w \in Workers, Reject(w) \/ NetworkError(w) \/ Answer(w)
      PROVE Next
  BY <1>1 DEF Reject, NetworkError, Answer, Returns, Next, WorkerStep
<1>2. ASSUME NEW w \in Workers, Validate(w) \/ Request(w) \/ Redirect(w)
      PROVE UNCHANGED vars
  BY <1>2 DEF Validate, Request, Redirect
<1> QED
  BY <1>1, <1>2 DEF SystemNext, QueueStep, ChangeDns, systemVars

(* worker.run_once with runner.execute spelled out hop by hop is a queue   *)
(* as ReplayQueue has it, so that treating a delivery there as one step    *)
(* with an arbitrary outcome leaves nothing out.                           *)
THEOREM SystemImplementsQueue == SystemSpec => Spec
<1>1. SystemInit => Init
  BY DEF SystemInit
<1>2. [SystemNext]_systemVars => [Next]_vars
  BY QueueMoves
<1> QED
  BY <1>1, <1>2, PTL DEF SystemSpec, Spec

(* The contract of the queue holds of the composed system.                 *)
THEOREM SystemImplementsContract ==
  ASSUME KeptLeases PROVE SystemSpec => ImplementsContract
  BY SystemImplementsQueue, QueueImplementsContract, PTL

-----------------------------------------------------------------------------
(* Types, and what a worker inside execute holds.                          *)

(* The target of a request has passed validate for this very URL. *)
Checked(e) ==
    /\ e.target \in D!Targets
    /\ e.target.host = e.url
    /\ e.target.ip \in e.target.answer
    /\ D!Acceptable(e.target.answer)

NetOf(w) ==
    /\ pc[w] = "execute" => /\ net[w].at \in {"validate", "connect", "body"}
                            /\ net[w].outcome = D!NoOutcome
    /\ pc[w] \notin {"execute", "finish"} => net[w].requests = 0
    /\ At(w, "validate") => /\ net[w].hop = net[w].requests
                            /\ ~AllowRedirects => net[w].hop = 0
    /\ At(w, "connect") => net[w].hop = net[w].requests + 1
    /\ At(w, "body") => net[w].hop = net[w].requests
    /\ At(w, "connect") \/ At(w, "body") => net[w].hop \in 1..Hops /\ Checked(net[w])

NetInv == SystemTypeOK /\ \A w \in Workers : NetOf(w)

LEMMA OffType == Off \in Exchange
  BY SystemAssumption
     DEF Off, Exchange, D!Urls, D!Targets, D!NoOutcome, D!Outcomes, D!Errors

LEMMA FreshType ==
  ASSUME NEW r \in Replays
  PROVE  /\ Fresh(r) \in Exchange
         /\ Fresh(r).at = "validate" /\ Fresh(r).hop = 0 /\ Fresh(r).requests = 0
         /\ Fresh(r).outcome = D!NoOutcome
         /\ Fresh(r).url = DestinationOf[r] /\ Fresh(r).status = 0
         /\ Fresh(r).target = NoTarget
<1>1. DestinationOf[r] \in D!Urls
  BY SystemAssumption DEF D!Urls
<1>2. Fresh(r) \in Exchange
  BY <1>1, OffType DEF Fresh, Exchange
<1>3. /\ Off.hop = 0 /\ Off.target = NoTarget /\ Off.status = 0
      /\ Off.requests = 0 /\ Off.outcome = D!NoOutcome
  BY DEF Off
<1>4. /\ Fresh(r).at = "validate" /\ Fresh(r).url = DestinationOf[r]
      /\ Fresh(r).hop = Off.hop /\ Fresh(r).target = Off.target
      /\ Fresh(r).status = Off.status /\ Fresh(r).requests = Off.requests
      /\ Fresh(r).outcome = Off.outcome
  BY OffType DEF Fresh, Exchange
<1> QED
  BY <1>2, <1>3, <1>4

(* ssrf.validate: a target is pinned to an address of the answer that was  *)
(* checked, and belongs to the URL's host.                                 *)
LEMMA ValidatedChecked ==
  ASSUME dns \in [Hosts -> Answers], NEW u, NEW t \in D!Validated(u)
  PROVE  /\ t \in D!Targets /\ t.host = u
         /\ t.ip \in t.answer /\ D!Acceptable(t.answer)
<1>1. u \in Hosts /\ D!Acceptable(dns[u])
  BY DEF D!Validated
<1>2. PICK ip \in dns[u] : t = [host |-> u, ip |-> ip, answer |-> dns[u]]
  BY <1>1 DEF D!Validated
<1>3. dns[u] \in SUBSET Addresses
  BY <1>1, SystemAssumption
<1>4. t \in [host : Hosts, ip : Addresses, answer : SUBSET Addresses]
  BY <1>1, <1>2, <1>3
<1> QED
  BY <1>1, <1>2, <1>4 DEF D!Targets

(* What a step of the queue leaves alone. *)
LEMMA QueueFrame ==
  ASSUME TypeInv, [Next]_vars
  PROVE  /\ \A r \in Replays : attempt'[r] >= attempt[r]
         /\ \A w \in Workers : pc'[w] \in {"execute", "finish"} /\ pc'[w] # pc[w]
               => pc[w] = IF pc'[w] = "execute" THEN "lookup" ELSE "execute"
         /\ \A w \in Workers : Busy(w)' =>
               \/ /\ Busy(w) /\ job'[w] = job[w] /\ tries'[w] = tries[w]
                  /\ \/ pc'[w] = pc[w] \/ pc[w] = "lookup"
                     \/ pc[w] = "execute" /\ pc'[w] = "finish"
               \/ /\ pc[w] = "take" /\ pc'[w] = "lookup" /\ job'[w] \in Replays
                  /\ tries'[w] = attempt[job'[w]] + 1
         /\ \A w \in Workers : pc[w] = "finish" /\ pc'[w] = "finish"
               => result'[w] = result[w]
         /\ \A r \in Replays : state'[r] = "success" =>
               \/ state[r] = "success"
               \/ \E w \in Workers : HasAnswer(w) /\ job[w] = r
<1> DEFINE Goal ==
         /\ \A r \in Replays : attempt'[r] >= attempt[r]
         /\ \A w \in Workers : pc'[w] \in {"execute", "finish"} /\ pc'[w] # pc[w]
               => pc[w] = IF pc'[w] = "execute" THEN "lookup" ELSE "execute"
         /\ \A w \in Workers : Busy(w)' =>
               \/ /\ Busy(w) /\ job'[w] = job[w] /\ tries'[w] = tries[w]
                  /\ \/ pc'[w] = pc[w] \/ pc[w] = "lookup"
                     \/ pc[w] = "execute" /\ pc'[w] = "finish"
               \/ /\ pc[w] = "take" /\ pc'[w] = "lookup" /\ job'[w] \in Replays
                  /\ tries'[w] = attempt[job'[w]] + 1
         /\ \A w \in Workers : pc[w] = "finish" /\ pc'[w] = "finish"
               => result'[w] = result[w]
         /\ \A r \in Replays : state'[r] = "success" =>
               \/ state[r] = "success"
               \/ \E w \in Workers : HasAnswer(w) /\ job[w] = r
<1> SUFFICES Goal
  OBVIOUS
<1> USE DEF TypeInv, TypeOK, HoldsAttempt, Busy, BusyAt, HasAnswer,
            store, locals, history
<1>1. ASSUME NEW r \in Replays, Post(r) \/ Enqueue(r) PROVE Goal
  BY <1>1 DEF Post, Enqueue
<1>2. ASSUME NEW w \in Workers, Poll(w) \/ TakeNone(w) \/ Lookup(w) \/ Restart(w)
      PROVE Goal
  BY <1>2 DEF Poll, TakeNone, Lookup, Restart, Leave
<1>3. ASSUME NEW w \in Workers, Reclaim(w) PROVE Goal
  BY <1>3 DEF Reclaim
<1>4. ASSUME NEW w \in Workers, Take(w) PROVE Goal
  <2>1. PICK r \in Earliest(Due(now[w])) :
           /\ state' = [state EXCEPT ![r] = "running"]
           /\ attempt' = [attempt EXCEPT ![r] = Counted(r)]
           /\ job' = [job EXCEPT ![w] = r]
           /\ tries' = [tries EXCEPT ![w] = attempt'[r]]
    BY <1>4 DEF Take
  <2>2. r \in Replays
    BY DEF Earliest, Due
  <2> QED
    BY <1>4, <2>1, <2>2 DEF Take, Counted
<1>5. ASSUME NEW w \in Workers, Abandon(w) PROVE Goal
  BY <1>5 DEF Abandon, Leave, Set
<1>6. ASSUME NEW w \in Workers, Execute(w) PROVE Goal
  BY <1>6 DEF Execute
<1>7. ASSUME NEW w \in Workers, Finish(w) PROVE Goal
  <2>1. Verdict(result[w], tries[w]) = "success" => HasAnswer(w)
    BY <1>7 DEF Finish, Verdict
  <2>2. \A r \in Replays : state'[r] = "success" =>
           state[r] = "success" \/ (HasAnswer(w) /\ job[w] = r)
    BY <1>7, <2>1 DEF Finish, Set
  <2>3. /\ pc'[w] = "idle" /\ UNCHANGED attempt
        /\ \A v \in Workers \ {w} : /\ pc'[v] = pc[v] /\ job'[v] = job[v]
                                   /\ tries'[v] = tries[v] /\ result'[v] = result[v]
    BY <1>7 DEF Finish, Leave
  <2> QED
    BY <2>2, <2>3
<1>8. ASSUME NEW w \in Workers, Raise(w) \/ Crash(w) \/ Shutdown(w) PROVE Goal
  BY <1>8 DEF Raise, Crash, Shutdown, Interrupt, Leave
<1>9. CASE (\E e \in Events : ExpireEvent(e)) \/ ResetEvents \/ ResetReplays \/ Tick
  BY <1>9 DEF ExpireEvent, ResetEvents, ResetReplays, Tick
<1>10. CASE UNCHANGED vars
  BY <1>10 DEF vars
<1> QED
  BY <1>1, <1>2, <1>3, <1>4, <1>5, <1>6, <1>7, <1>8, <1>9, <1>10
     DEF Next, WorkerStep

LEMMA NetInvInit == SystemInit => NetInv
<1> SUFFICES ASSUME SystemInit PROVE NetInv
  OBVIOUS
<1>1. TypeOK
  BY TypeInvInit DEF SystemInit, TypeInv
<1>2. \A w \in Workers : net[w] = Off /\ pc[w] = "idle"
  BY DEF SystemInit, Init
<1>3. \A w \in Workers : NetOf(w)
  BY <1>2 DEF NetOf, At, Off
<1> QED
  BY <1>1, <1>3, OffType DEF SystemInit, NetInv, SystemTypeOK

LEMMA NetInvNext ==
  ASSUME TypeInv, NetInv, [SystemNext]_systemVars PROVE NetInv'
<1>t. TypeInv' /\ TypeOK'
  BY QueueMoves, TypeInvNext DEF TypeInv
<1> USE DEF NetInv, SystemTypeOK
<1>1. CASE QueueStep
  <2>1. \A w \in Workers :
          net'[w] = IF pc'[w] = pc[w] THEN net[w]
                    ELSE IF pc'[w] = "execute" THEN Fresh(job[w]) ELSE Off
    BY <1>1 DEF QueueStep
  <2>2. \A w \in Workers : pc'[w] = "execute" /\ pc'[w] # pc[w] => job[w] \in Replays
    BY <1>1, QueueMoves, QueueFrame DEF TypeInv, HoldsAttempt, Busy, BusyAt
  <2>3. net' \in [Workers -> Exchange]
    BY <1>1, <2>1, <2>2, FreshType, OffType DEF QueueStep
  <2>4. \A w \in Workers : NetOf(w)'
    <3> SUFFICES ASSUME NEW w \in Workers PROVE NetOf(w)'
      OBVIOUS
    <3>1. CASE pc'[w] = pc[w]
      BY <2>1, <3>1 DEF NetOf, At, Checked
    <3>2. CASE pc'[w] # pc[w] /\ pc'[w] = "execute"
      BY <2>1, <2>2, <3>2, FreshType DEF NetOf, At
    <3>3. CASE pc'[w] # pc[w] /\ pc'[w] # "execute"
      BY <2>1, <3>3 DEF NetOf, At, Off
    <3> QED
      BY <3>1, <3>2, <3>3
  <2>5. late' \in BOOLEAN
    BY <1>1 DEF QueueStep, Overdue
  <2> QED
    BY <1>t, <1>1, <2>3, <2>4, <2>5 DEF QueueStep
<1>2. CASE ChangeDns
  BY <1>t, <1>2 DEF ChangeDns, vars, store, locals, history, NetOf, At, Checked, Hops
<1>3. ASSUME NEW w \in Workers, Validate(w) PROVE NetInv'
  <2>1. PICK t \in D!Validated(net[w].url) :
          net' = [net EXCEPT ![w] = [net[w] EXCEPT !.at = "connect",
                                        !.hop = net[w].hop + 1, !.target = t]]
    BY <1>3 DEF Validate
  <2>2. /\ At(w, "validate") /\ HopsRemain(net[w].hop)
        /\ UNCHANGED <<vars, dns, requests, answered, late>>
    BY <1>3 DEF Validate
  <2>3. t \in D!Targets /\ t.host = net[w].url /\ t.ip \in t.answer /\ D!Acceptable(t.answer)
    BY ValidatedChecked
  <2> DEFINE e == [net[w] EXCEPT !.at = "connect", !.hop = net[w].hop + 1, !.target = t]
  <2>4. net[w] \in Exchange /\ net[w].hop \in 0..MaxRedirects
    BY <2>2, SystemAssumption DEF HopsRemain, Exchange
  <2>a. net[w].hop + 1 \in 0..(MaxRedirects + 1)
    BY <2>4, SystemAssumption
  <2>5. /\ e \in Exchange
        /\ e.at = "connect" /\ e.hop = net[w].hop + 1 /\ e.target = t
        /\ e.url = net[w].url /\ e.requests = net[w].requests
        /\ e.outcome = net[w].outcome
    BY <2>3, <2>4, <2>a DEF Exchange
  <2>6. e.hop \in 1..Hops /\ Checked(e)
    BY <2>2, <2>3, <2>4, <2>5, SystemAssumption DEF NetOf, Hops, Checked
  <2>7. net'[w] = e /\ \A v \in Workers \ {w} : net'[v] = net[v]
    BY <2>1
  <2> HIDE DEF e
  <2>8. NetOf(w)'
    BY <2>2, <2>5, <2>6, <2>7 DEF NetOf, At, Checked, Hops, vars, locals
  <2>9. \A v \in Workers \ {w} : NetOf(v)'
    BY <2>2, <2>7 DEF NetOf, At, Checked, Hops, vars, locals
  <2> QED
    BY <1>t, <2>1, <2>2, <2>5, <2>7, <2>8, <2>9 DEF e, vars, locals, store
<1>4. ASSUME NEW w \in Workers, Request(w) PROVE NetInv'
  <2>1. PICK s \in Statuses :
          net' = [net EXCEPT ![w] = [net[w] EXCEPT !.at = "body", !.status = s,
                                        !.requests = net[w].requests + 1]]
    BY <1>4 DEF Request
  <2>2. /\ At(w, "connect")
        /\ UNCHANGED <<vars, dns, answered, late>>
    BY <1>4 DEF Request
  <2> DEFINE e == [net[w] EXCEPT !.at = "body", !.status = s,
                                 !.requests = net[w].requests + 1]
  <2>4. net[w] \in Exchange /\ net[w].hop = net[w].requests + 1
    BY <2>2 DEF NetOf
  <2>a. net[w].requests + 1 \in 0..(MaxRedirects + 1) /\ net[w].hop = net[w].requests + 1
    BY <2>4, SystemAssumption DEF Exchange
  <2>5. /\ e \in Exchange
        /\ e.at = "body" /\ e.hop = e.requests /\ e.hop = net[w].hop
        /\ e.url = net[w].url /\ e.target = net[w].target
        /\ e.outcome = net[w].outcome
    BY <2>4, <2>a DEF Exchange
  <2>6. e.hop \in 1..Hops /\ Checked(e)
    BY <2>2, <2>5 DEF NetOf, Checked
  <2>7. net'[w] = e /\ \A v \in Workers \ {w} : net'[v] = net[v]
    BY <2>1
  <2> HIDE DEF e
  <2>8. NetOf(w)'
    BY <2>2, <2>5, <2>6, <2>7 DEF NetOf, At, Checked, Hops, vars, locals
  <2>9. \A v \in Workers \ {w} : NetOf(v)'
    BY <2>2, <2>7 DEF NetOf, At, Checked, Hops, vars, locals
  <2>10. requests' \in [Replays -> SUBSET (Nat \X Nat)]
    <3>1. tries[w] \in Nat /\ net[w].hop \in Nat
      BY <2>4, SystemAssumption DEF TypeInv, TypeOK, Exchange
    <3>2. requests' = [requests EXCEPT ![job[w]] =
                          requests[job[w]] \cup {<<tries[w], net[w].hop>>}]
      BY <1>4 DEF Request
    <3>3. job[w] \in Replays
      BY <2>2 DEF TypeInv, HoldsAttempt, At, Busy, BusyAt
    <3> QED
      BY <3>1, <3>2, <3>3
  <2> QED
    BY <1>t, <2>1, <2>2, <2>5, <2>7, <2>8, <2>9, <2>10 DEF e, vars, locals, store
<1>5. ASSUME NEW w \in Workers, Redirect(w) PROVE NetInv'
  <2>1. PICK u \in D!Urls :
          net' = [net EXCEPT ![w] = [net[w] EXCEPT !.at = Rechecked, !.url = u,
                                        !.status = 0]]
    BY <1>5 DEF Redirect
  <2>2. /\ At(w, "body") /\ AllowRedirects
        /\ UNCHANGED <<vars, dns, requests, answered, late>>
    BY <1>5 DEF Redirect, D!Redirects
  <2> DEFINE e == [net[w] EXCEPT !.at = Rechecked, !.url = u, !.status = 0]
  <2>3. net[w] \in Exchange /\ net[w].hop = net[w].requests
    BY <2>2 DEF NetOf
  <2>4. /\ e \in Exchange
        /\ e.at = "validate" /\ e.hop = e.requests
        /\ e.outcome = net[w].outcome
    BY <2>3 DEF Exchange, Rechecked
  <2>5. net'[w] = e /\ \A v \in Workers \ {w} : net'[v] = net[v]
    BY <2>1
  <2> HIDE DEF e
  <2>6. NetOf(w)'
    BY <2>2, <2>4, <2>5 DEF NetOf, At, vars, locals
  <2>7. \A v \in Workers \ {w} : NetOf(v)'
    BY <2>2, <2>5 DEF NetOf, At, Checked, Hops, vars, locals
  <2> QED
    BY <1>t, <2>1, <2>2, <2>4, <2>6, <2>7 DEF e, vars, locals, store
<1>6. ASSUME NEW w \in Workers, Reject(w) \/ NetworkError(w) \/ Answer(w)
      PROVE NetInv'
  <2>1. PICK a, accepted : a \in D!Outcomes /\ Returns(w, a, accepted)
    <3>1. CASE Reject(w)
      BY <3>1 DEF Reject, D!Failed, D!Outcomes, D!Errors
    <3>2. CASE NetworkError(w)
      BY <3>2 DEF NetworkError, D!Failed, D!Outcomes, D!Errors
    <3>3. CASE Answer(w)
      <4>1. net[w].status \in Statuses \cup {0}
        BY DEF Exchange
      <4> QED
        BY <3>3, <4>1 DEF Answer, D!Answered, D!Outcomes, D!Errors
    <3> QED
      BY <1>6, <3>1, <3>2, <3>3
  <2> DEFINE e == [Fresh(job[w]) EXCEPT !.at = "done",
                       !.requests = net[w].requests, !.outcome = a]
  <2>2. net' = [net EXCEPT ![w] = e] /\ Execute(w) /\ UNCHANGED <<dns, requests, late>>
    BY <2>1 DEF Returns
  <2>3. job[w] \in Replays /\ net[w] \in Exchange
    BY <2>2 DEF Execute, TypeInv, HoldsAttempt, Busy, BusyAt
  <2>4. e \in Exchange
    <3>1. a \in D!Outcomes
      BY <2>1
    <3> QED
      BY <2>3, <3>1, FreshType DEF Exchange
  <2>5. net'[w] = e /\ \A v \in Workers \ {w} : net'[v] = net[v]
    BY <2>2
  <2> HIDE DEF e
  <2>6. pc'[w] = "finish" /\ \A v \in Workers \ {w} : pc'[v] = pc[v]
    BY <2>2 DEF Execute, TypeInv, TypeOK
  <2>7. \A v \in Workers : NetOf(v)'
    BY <2>5, <2>6 DEF NetOf, At, Checked, Hops
  <2>8. answered' \in [Replays -> SUBSET Addresses]
    <3>1. CASE Reject(w) \/ NetworkError(w)
      BY <3>1 DEF Reject, NetworkError
    <3>2. CASE Answer(w)
      <4>1. net[w].target.ip \in Addresses
        BY <3>2 DEF Answer, NetOf, Checked, D!Targets
      <4> QED
        BY <3>2, <4>1 DEF Answer
    <3> QED
      BY <1>6, <3>1, <3>2
  <2> QED
    BY <1>t, <2>2, <2>4, <2>7, <2>8
<1>7. CASE UNCHANGED systemVars
  BY <1>7 DEF systemVars, network, vars, locals, store, history, NetOf, At, Checked,
              Hops, TypeOK
<1> QED
  BY <1>1, <1>2, <1>3, <1>4, <1>5, <1>6, <1>7 DEF SystemNext

(* The composed system keeps its types: a worker's hop counter stays       *)
(* within max_redirects + 1 (runner._send).                                *)
THEOREM SystemTypeCorrect == SystemSpec => []SystemTypeOK
<1>1. SystemInit => TypeInv /\ NetInv
  BY TypeInvInit, NetInvInit DEF SystemInit
<1>2. TypeInv /\ NetInv /\ [SystemNext]_systemVars => TypeInv' /\ NetInv'
  BY QueueMoves, TypeInvNext, NetInvNext
<1>3. NetInv => SystemTypeOK
  BY DEF NetInv
<1> QED
  BY <1>1, <1>2, <1>3, PTL DEF SystemSpec

-----------------------------------------------------------------------------
(* Requests.                                                               *)

SentInv ==
    /\ \A r \in Replays : requests[r] \subseteq (1..attempt[r]) \X (1..Hops)
    /\ \A w \in Workers : Busy(w) =>
         \A n \in Nat : <<tries[w], n>> \in requests[job[w]] => n <= net[w].requests

LEMMA HopsType == Hops \in Nat \ {0}
  BY SystemAssumption DEF Hops

LEMMA SentInvInit == SystemInit => SentInv
  BY DEF SystemInit, Init, SentInv, Busy, BusyAt

LEMMA SentInvNext ==
  ASSUME TypeInv, OnceInv, NetInv, SentInv, [SystemNext]_systemVars PROVE SentInv'
<1>t. /\ attempt \in [Replays -> Nat] /\ attempt' \in [Replays -> Nat]
      /\ \A r \in Replays : attempt'[r] >= attempt[r]
  BY QueueMoves, QueueFrame, TypeInvNext DEF TypeInv, TypeOK
<1>f. \A w \in Workers : Busy(w)' =>
               \/ /\ Busy(w) /\ job'[w] = job[w] /\ tries'[w] = tries[w]
                  /\ \/ pc'[w] = pc[w] \/ pc[w] = "lookup"
                     \/ pc[w] = "execute" /\ pc'[w] = "finish"
               \/ /\ pc[w] = "take" /\ pc'[w] = "lookup" /\ job'[w] \in Replays
                  /\ tries'[w] = attempt[job'[w]] + 1
  BY QueueMoves, QueueFrame
<1>h. \A w \in Workers : Busy(w) => job[w] \in Replays
  BY DEF TypeInv, HoldsAttempt
<1>1. CASE UNCHANGED requests
  <2>1. \A r \in Replays : requests'[r] \subseteq (1..attempt'[r]) \X (1..Hops)
    BY <1>t, <1>1 DEF SentInv
  <2>2. ASSUME NEW w \in Workers, Busy(w)', NEW n \in Nat,
               <<tries'[w], n>> \in requests'[job'[w]]
        PROVE  n <= net'[w].requests
    <3>1. CASE pc[w] = "take" /\ tries'[w] = attempt[job'[w]] + 1 /\ job'[w] \in Replays
      BY <1>t, <1>1, <2>2, <3>1 DEF SentInv
    <3>2. CASE Busy(w) /\ job'[w] = job[w] /\ tries'[w] = tries[w]
      <4>1. n <= net[w].requests
        BY <1>1, <2>2, <3>2 DEF SentInv
      <4>2. net'[w].requests = net[w].requests
        <5>1. CASE QueueStep
          <6>1. pc'[w] = pc[w] \/ pc[w] = "lookup"
            BY <1>f, <2>2, <3>2, <5>1 DEF QueueStep, Busy, BusyAt
          <6>2. CASE pc'[w] = pc[w]
            BY <5>1, <6>2 DEF QueueStep
          <6>3. CASE pc'[w] # pc[w] /\ pc[w] = "lookup"
            <7>1. net[w].requests = 0
              BY <6>3 DEF NetInv, NetOf
            <7>2. net'[w] = Fresh(job[w]) \/ net'[w] = Off
              BY <5>1, <6>3 DEF QueueStep
            <7>3. Fresh(job[w]).requests = 0 /\ Off.requests = 0
              BY <1>h, <3>2, FreshType DEF Off
            <7> QED
              BY <7>1, <7>2, <7>3
          <6> QED
            BY <6>1, <6>2, <6>3
        <5>2. ASSUME NEW v \in Workers, Validate(v) PROVE net'[w].requests = net[w].requests
          BY <5>2 DEF Validate, NetInv, SystemTypeOK, Exchange
        <5>3. ASSUME NEW v \in Workers, Redirect(v) PROVE net'[w].requests = net[w].requests
          BY <5>3 DEF Redirect, NetInv, SystemTypeOK, Exchange
        <5>4. ASSUME NEW v \in Workers, Reject(v) \/ NetworkError(v) \/ Answer(v)
              PROVE  net'[w].requests = net[w].requests
          <6>1. PICK a, accepted : Returns(v, a, accepted)
            BY <5>4 DEF Reject, NetworkError, Answer
          <6>2. job[v] \in Replays
            BY <1>h, <6>1 DEF Returns, Execute, Busy, BusyAt
          <6> QED
            BY <6>1, <6>2, FreshType DEF Returns, NetInv, SystemTypeOK, Exchange
        <5>5. ASSUME NEW v \in Workers, Request(v) PROVE net'[w].requests = net[w].requests
          \* A request is new, so this is not the case.
          <6>1. /\ <<tries[v], net[v].hop>> \in requests'[job[v]] /\ job[v] \in Replays
                /\ Busy(v) /\ net[v].hop = net[v].requests + 1 /\ net[v].requests \in Nat
            BY <1>h, <5>5, SystemAssumption
               DEF Request, At, Busy, BusyAt, NetInv, NetOf, SystemTypeOK, Exchange
          <6> QED
            BY <1>1, <6>1 DEF SentInv
        <5> QED
          BY <5>1, <5>2, <5>3, <5>4, <5>5 DEF SystemNext, ChangeDns, systemVars, network
      <4> QED
        BY <4>1, <4>2
    <3> QED
      BY <1>f, <2>2, <3>1, <3>2
  <2> QED
    BY <2>1, <2>2 DEF SentInv
<1>2. ASSUME NEW w \in Workers, Request(w) PROVE SentInv'
  <2>1. /\ Busy(w) /\ job[w] \in Replays
        /\ UNCHANGED <<attempt, tries, job, pc>>
        /\ requests' = [requests EXCEPT ![job[w]] =
                           requests[job[w]] \cup {<<tries[w], net[w].hop>>}]
    BY <1>2, <1>h DEF Request, At, Busy, BusyAt, vars, store, locals
  <2>2. /\ tries[w] \in 1..attempt[job[w]] /\ net[w].hop \in 1..Hops
        /\ net[w].hop = net[w].requests + 1
    BY <1>2, <2>1 DEF Request, NetInv, NetOf, TypeInv, TypeOK, HoldsAttempt
  <2>3. /\ net'[w].requests = net[w].requests + 1
        /\ \A v \in Workers \ {w} : net'[v] = net[v]
        /\ net[w].requests \in Nat
    BY <1>2, SystemAssumption DEF Request, NetInv, SystemTypeOK, Exchange
  <2>4. \A r \in Replays : requests'[r] \subseteq (1..attempt'[r]) \X (1..Hops)
    BY <2>1, <2>2 DEF SentInv, NetInv, SystemTypeOK
  <2>5. ASSUME NEW v \in Workers, Busy(v)', NEW n \in Nat,
               <<tries'[v], n>> \in requests'[job'[v]]
        PROVE  n <= net'[v].requests
    <3>1. Busy(v)
      BY <2>1, <2>5 DEF Busy
    <3>2. requests'[job[v]] = IF job[v] = job[w]
                              THEN requests[job[v]] \cup {<<tries[w], net[w].hop>>}
                              ELSE requests[job[v]]
      BY <1>h, <2>1, <3>1 DEF NetInv, SystemTypeOK
    <3>3. CASE v = w
      <4>1. \/ n = net[w].requests + 1
            \/ <<tries[w], n>> \in requests[job[w]]
        BY <2>1, <2>2, <2>5, <3>2, <3>3
      <4>2. <<tries[w], n>> \in requests[job[w]] => n <= net[w].requests
        BY <2>1 DEF SentInv
      <4> QED
        BY <2>3, <3>3, <4>1, <4>2
    <3>4. CASE v # w
      <4>1. job[v] = job[w] => tries[v] # tries[w]
        BY <2>1, <3>1, <3>4 DEF OnceInv, AttemptHeldOnce
      <4>2. <<tries[v], n>> \in requests[job[v]]
        BY <2>1, <2>5, <3>2, <4>1
      <4> QED
        BY <2>3, <3>1, <3>4, <4>2 DEF SentInv
    <3> QED
      BY <3>3, <3>4
  <2> QED
    BY <2>4, <2>5 DEF SentInv
<1> QED
  BY <1>1, <1>2
     DEF SystemNext, QueueStep, ChangeDns, Validate, Redirect, Reject, NetworkError,
         Answer, Returns, systemVars, network

-----------------------------------------------------------------------------
(* Answers.                                                                *)

EarnedInv ==
    /\ \A w \in Workers : HasAnswer(w) => answered[job[w]] # {}
    /\ VerdictEarned

LEMMA EarnedInvInit == SystemInit => EarnedInv
  BY DEF SystemInit, Init, EarnedInv, HasAnswer, VerdictEarned

(* runner.execute: of the ways an attempt ends, only an answer below 400   *)
(* is reported as a success, and its address had passed is_blocked.        *)
LEMMA AnswerEarned ==
  ASSUME TypeInv, NetInv, NEW w \in Workers,
         Reject(w) \/ NetworkError(w) \/ Answer(w)
  PROVE  /\ \A r \in Replays : answered[r] \subseteq answered'[r]
         /\ HasAnswer(w)' => answered'[job[w]] # {}
         /\ \A r \in Replays : \A ip \in answered'[r] \ answered[r] :
              ~AllowPrivate => Mapped[ip] \notin Special
         /\ Execute(w)
<1>1. /\ job[w] \in Replays
      /\ answered \in [Replays -> SUBSET Addresses]
      /\ pc[w] = "execute"
  BY DEF NetInv, SystemTypeOK, TypeInv, HoldsAttempt, Busy, BusyAt, Reject,
         NetworkError, Answer, At
<1>2. CASE Reject(w) \/ NetworkError(w)
  <2>1. PICK e \in {"destination", "timeout", "transport"}, accepted \in BOOLEAN :
          Returns(w, D!Failed(e), accepted) /\ UNCHANGED answered
    BY <1>2 DEF Reject, NetworkError
  <2>2. Result(D!Failed(e)) # "ok"
    BY DEF Result, D!Succeeded, D!Failed, D!Retryable
  <2> QED
    BY <2>1, <2>2 DEF Returns, HasAnswer
<1>3. CASE Answer(w)
  <2>1. /\ Returns(w, D!Answered(net[w].status), net[w].status < 400)
        /\ At(w, "body")
        /\ answered' = IF net[w].status < 400
                       THEN [answered EXCEPT ![job[w]] =
                                answered[job[w]] \cup {net[w].target.ip}]
                       ELSE answered
    BY <1>3 DEF Answer
  <2>2. Result(D!Answered(net[w].status)) = "ok" => net[w].status < 400
    BY DEF Result, D!Succeeded, D!Answered
  <2>3. ~AllowPrivate => Mapped[net[w].target.ip] \notin Special
    BY <2>1 DEF NetInv, NetOf, Checked, D!Acceptable, D!IsBlocked
  <2> QED
    BY <1>1, <2>1, <2>2, <2>3 DEF Returns, HasAnswer
<1> QED
  BY <1>2, <1>3

LEMMA EarnedInvNext ==
  ASSUME TypeInv, NetInv, EarnedInv, [SystemNext]_systemVars PROVE EarnedInv'
<1> USE DEF EarnedInv, VerdictEarned
<1>f. /\ \A w \in Workers : HasAnswer(w)' =>
            pc[w] = "execute" \/ (HasAnswer(w) /\ job'[w] = job[w])
      /\ \A r \in Replays : state'[r] = "success" =>
            state[r] = "success" \/ \E w \in Workers : HasAnswer(w) /\ job[w] = r
  BY QueueMoves, QueueFrame DEF HasAnswer, Busy, BusyAt
<1>1. CASE QueueStep
  <2>1. UNCHANGED answered
        /\ \A w \in Workers : HasAnswer(w)' => HasAnswer(w) /\ job'[w] = job[w]
    BY <1>1, <1>f DEF QueueStep, HasAnswer
  <2> QED
    BY <1>f, <2>1
<1>2. ASSUME NEW w \in Workers, Reject(w) \/ NetworkError(w) \/ Answer(w)
      PROVE EarnedInv'
  <2>1. /\ \A r \in Replays : answered[r] \subseteq answered'[r]
        /\ HasAnswer(w)' => answered'[job[w]] # {}
        /\ \A r \in Replays : \A ip \in answered'[r] \ answered[r] :
             ~AllowPrivate => Mapped[ip] \notin Special
        /\ Execute(w)
    BY <1>2, AnswerEarned
  <2>2. /\ UNCHANGED <<state, job>>
        /\ \A v \in Workers \ {w} : pc'[v] = pc[v] /\ result'[v] = result[v]
    BY <2>1 DEF Execute, store, TypeInv, TypeOK
  <2>3. \A v \in Workers : Busy(v) => job[v] \in Replays
    BY DEF TypeInv, HoldsAttempt
  <2>4. \A v \in Workers : HasAnswer(v)' => answered'[job'[v]] # {}
    BY <2>1, <2>2, <2>3 DEF HasAnswer, Busy, BusyAt
  <2> QED
    BY <2>1, <2>2, <2>4
<1>3. CASE UNCHANGED <<vars, answered>>
  BY <1>3 DEF vars, store, locals, HasAnswer
<1> QED
  BY <1>1, <1>2, <1>3
     DEF SystemNext, ChangeDns, Validate, Request, Redirect, systemVars, network

-----------------------------------------------------------------------------
(* Until somebody is late.                                                 *)

LateInv == ~late => LeasesKept /\ LeaseInv /\ CountInv

LEMMA LateInvInit == SystemInit => LateInv
<1>1. SystemInit => LeasesKept
  BY DEF SystemInit, Init, LeasesKept, Busy, BusyAt
<1> QED
  BY <1>1, LeaseInvInit, CountInvInit DEF SystemInit, LateInv

LEMMA LateInvNext ==
  ASSUME TypeInv, LateInv, [SystemNext]_systemVars PROVE LateInv'
<1> SUFFICES ASSUME ~late' PROVE LeasesKept' /\ LeaseInv' /\ CountInv'
  BY DEF LateInv
<1>1. ~late
  BY DEF SystemNext, QueueStep, ChangeDns, Validate, Request, Redirect, Reject,
         NetworkError, Answer, Returns, systemVars, network
<1>2. LeaseInv' /\ CountInv'
  BY <1>1, QueueMoves, LeaseInvNext, CountInvNext DEF LateInv
<1>3. CASE QueueStep
  <2>1. ~Overdue'
    BY <1>3 DEF QueueStep
  <2>2. clock' \in Nat /\ now' \in [Workers -> Nat]
    BY QueueMoves, TypeInvNext DEF TypeInv, TypeOK
  <2>3. LeasesKept'
    BY <2>1, <2>2, ConstantsAssumption DEF Overdue, LeasesKept
  <2> QED
    BY <1>2, <2>3
<1>4. ASSUME NEW w \in Workers, Execute(w) PROVE LeasesKept'
  <2>1. UNCHANGED <<clock, now>> /\ \A v \in Workers : Busy(v)' => Busy(v)
    BY <1>4 DEF Execute, Busy, BusyAt, TypeInv, TypeOK
  <2> QED
    BY <1>1, <2>1 DEF LateInv, LeasesKept
<1>5. CASE UNCHANGED vars
  <2>1. UNCHANGED <<clock, now>> /\ \A v \in Workers : Busy(v)' => Busy(v)
    BY <1>5 DEF vars, locals, Busy, BusyAt
  <2> QED
    BY <1>1, <1>2, <2>1 DEF LateInv, LeasesKept
<1> QED
  BY <1>2, <1>3, <1>4, <1>5
     DEF SystemNext, ChangeDns, Validate, Request, Redirect, Reject, NetworkError,
         Answer, Returns, systemVars

-----------------------------------------------------------------------------
SystemInv ==
    TypeInv /\ OnceInv /\ NetInv /\ SentInv /\ EarnedInv /\ LateInv

LEMMA SystemInvariant == SystemSpec => []SystemInv
<1>1. SystemInit => SystemInv
  BY TypeInvInit, OnceInvInit, NetInvInit, SentInvInit, EarnedInvInit, LateInvInit
     DEF SystemInit, SystemInv
<1>2. SystemInv /\ [SystemNext]_systemVars => SystemInv'
  BY QueueMoves, TypeInvNext, OnceInvNext, NetInvNext, SentInvNext, EarnedInvNext,
     LateInvNext DEF SystemInv
<1> QED
  BY <1>1, <1>2, PTL DEF SystemSpec

(* runner._send, store.claim: an attempt and hop is never requested twice  *)
(* whoever does it, an attempt has at most max_redirects hops beyond the   *)
(* first, and until a lease is overrun there are at most max_attempts      *)
(* attempts and one more for each that was interrupted.                    *)
THEOREM TrafficBounded == SystemSpec => []RequestsBounded
<1>1. SystemInv => RequestsBounded
  <2> SUFFICES ASSUME SystemInv PROVE RequestsBounded
    OBVIOUS
  <2>1. ASSUME NEW w \in Workers, At(w, "connect")
        PROVE <<tries[w], net[w].hop>> \notin requests[job[w]]
    <3>1. net[w].hop = net[w].requests + 1 /\ net[w].requests \in Nat
      BY <2>1, SystemAssumption
         DEF SystemInv, NetInv, NetOf, SystemTypeOK, Exchange
    <3>2. Busy(w)
      BY <2>1 DEF At, Busy, BusyAt
    <3> QED
      BY <3>1, <3>2 DEF SystemInv, SentInv
  <2>2. \A r \in Replays : requests[r] \subseteq (1..attempt[r]) \X (1..Hops)
    BY DEF SystemInv, SentInv
  <2>3. ~late => \A r \in Replays : attempt[r] <= MaxAttempts + lost[r]
    BY DEF SystemInv, LateInv, CountInv, AttemptsBounded
  <2> QED
    BY <2>1, <2>2, <2>3 DEF RequestsBounded
<1> QED
  BY SystemInvariant, <1>1, PTL

(* store.finish, runner.execute: a job is recorded as a success only after *)
(* an address that had passed validation answered it with a code below 400.*)
THEOREM SuccessEarned == SystemSpec => []VerdictEarned
<1>1. SystemInv => VerdictEarned
  BY DEF SystemInv, EarnedInv
<1> QED
  BY SystemInvariant, <1>1, PTL

(* store.claim, store.finish: until a worker outlives its lease, no worker *)
(* sends a request for a job that is settled.                              *)
THEOREM SettledIsSilent == SystemSpec => SilentOnceSettled
<1>1. SystemInv /\ [SystemNext]_systemVars =>
        (~late => \A r \in Replays : state[r] \in Terminal => requests'[r] = requests[r])
  <2> SUFFICES ASSUME SystemInv, [SystemNext]_systemVars, ~late,
                      NEW r \in Replays, state[r] \in Terminal
               PROVE  requests'[r] = requests[r]
    OBVIOUS
  <2>1. ASSUME NEW w \in Workers, Request(w) PROVE requests'[r] = requests[r]
    <3>1. Busy(w)
      BY <2>1 DEF Request, At, Busy, BusyAt
    <3>2. job[w] # r
      BY <3>1, HolderFinds DEF SystemInv, LateInv, Terminal
    <3> QED
      BY <2>1, <3>2 DEF Request, SystemInv, NetInv, SystemTypeOK
  <2> QED
    BY <2>1 DEF SystemNext, QueueStep, ChangeDns, Validate, Redirect, Reject,
                NetworkError, Answer, Returns, systemVars, network
<1> QED
  BY SystemInvariant, <1>1, PTL DEF SystemSpec, SilentOnceSettled

(* ssrf.validate, Destination.pinned: every request of every worker goes   *)
(* to an allowed address of the answer that was checked for this very URL, *)
(* on every hop and every attempt.                                         *)
EveryRequestChecked ==
    \A w \in Workers : At(w, "body") =>
        LET t == net[w].target IN
        /\ t.host = net[w].url /\ t.ip \in t.answer
        /\ ~AllowPrivate => \A ip \in t.answer : Mapped[ip] \notin Special

(* runner._send: the composed system keeps EveryRequestChecked.            *)
THEOREM RequestsChecked == SystemSpec => []EveryRequestChecked
<1>1. SystemInv => EveryRequestChecked
  BY DEF SystemInv, NetInv, NetOf, Checked, EveryRequestChecked, D!Acceptable, D!IsBlocked
<1> QED
  BY SystemInvariant, <1>1, PTL

(* store.claim, store.finish: whatever MaxRun is, the contract of the queue*)
(* is kept by every step until the moment a worker outlives its lease.     *)
ContractUntilLate ==
    [][~late => Contract!Next \/ UNCHANGED Contract!vars]_systemVars

(* store.finish: its unconditional write can break the contract only when  *)
(* some worker is late.                                                    *)
THEOREM ContractKeptUntilLate == SystemSpec => ContractUntilLate
<1>1. SystemInv /\ [SystemNext]_systemVars =>
        (~late => Contract!Next \/ UNCHANGED Contract!vars)
  BY QueueMoves, ContractStep DEF SystemInv, LateInv
<1> QED
  BY SystemInvariant, <1>1, PTL DEF SystemSpec, ContractUntilLate

(* The two ways of saying that leases are kept agree: by the assumption of *)
(* Tick that MaxRun is within lease_timeout, no worker is ever late.       *)
LEMMA NeverLate == ASSUME KeptLeases PROVE SystemSpec => []~late
<1>1. SystemInit => InTime /\ ~late
  BY InTimeInit DEF SystemInit
<1>2. SystemInv /\ InTime /\ ~late /\ [SystemNext]_systemVars => InTime' /\ ~late'
  <2> SUFFICES ASSUME SystemInv, InTime, ~late, [SystemNext]_systemVars
               PROVE  InTime' /\ ~late'
    OBVIOUS
  <2>1. TypeInv' /\ InTime'
    BY QueueMoves, TypeInvNext, InTimeNext DEF SystemInv
  <2>2. LeasesKept'
    <3>1. clock' \in Nat /\ now' \in [Workers -> Nat]
      BY <2>1 DEF TypeInv, TypeOK
    <3>2. \A w \in Workers : Busy(w)' => clock' - now'[w] <= MaxRun
      BY <2>1 DEF InTime, Busy, BusyAt
    <3> QED
      BY <3>1, <3>2, ConstantsAssumption DEF KeptLeases, LeasesKept
  <2>3. ~Overdue'
    <3>1. clock' \in Nat /\ now' \in [Workers -> Nat]
      BY <2>1 DEF TypeInv, TypeOK
    <3> QED
      BY <2>2, <3>1, ConstantsAssumption DEF LeasesKept, Overdue
  <2>4. CASE QueueStep
    <3>1. late' = (late \/ Overdue')
      BY <2>4 DEF QueueStep
    <3> QED
      BY <2>1, <2>3, <3>1
  <2>5. CASE UNCHANGED late
    BY <2>1, <2>5
  <2> QED
    BY <2>4, <2>5
       DEF SystemNext, ChangeDns, Validate, Request, Redirect, Reject, NetworkError,
           Answer, Returns, systemVars, network
<1> QED
  BY SystemInvariant, <1>1, <1>2, PTL DEF SystemSpec

-----------------------------------------------------------------------------
(* An attempt is a behaviour of Delivery.                                  *)

(* What QueueStep leaves of the attempt that Observed is making. *)
LEMMA AttemptFrame ==
  ASSUME SystemInv, [SystemNext]_systemVars,
         pc[Observed] = "execute", pc'[Observed] \in {"execute", "finish"}
  PROVE  /\ Observed \in Workers /\ job[Observed] \in Replays
         /\ job'[Observed] = job[Observed] /\ tries'[Observed] = tries[Observed]
<1>1. Busy(Observed) /\ Busy(Observed)'
  BY DEF Busy, BusyAt
<1> QED
  BY <1>1, QueueMoves, QueueFrame, SystemAssumption
     DEF SystemInv, TypeInv, HoldsAttempt

LEMMA AttemptSteps ==
  ASSUME SystemInv, [SystemNext]_systemVars,
         pc[Observed] = "execute", job[Observed] = Followed,
         pc'[Observed] \in {"execute", "finish"}
  PROVE  UNCHANGED D!vars \/ AttemptStep
<1> DEFINE e == net[Observed]
<1>a. /\ Observed \in Workers /\ job[Observed] \in Replays
      /\ job'[Observed] = job[Observed] /\ tries'[Observed] = tries[Observed]
  BY AttemptFrame
<1>b. /\ net \in [Workers -> Exchange] /\ e \in Exchange
      /\ e.outcome = D!NoOutcome /\ e.at \in {"validate", "connect", "body"}
  BY <1>a DEF SystemInv, NetInv, NetOf, SystemTypeOK
<1>c. e.outcome.error # "destination"
  BY <1>b DEF D!NoOutcome
<1>1. ASSUME UNCHANGED dns, net'[Observed] = e, pc'[Observed] = pc[Observed]
      PROVE UNCHANGED D!vars
  BY <1>a, <1>1 DEF D!vars
<1>2. CASE QueueStep
  BY <1>a, <1>1, <1>2 DEF QueueStep
<1>3. CASE ChangeDns
  <2>1. /\ \E h \in Hosts, answer \in SUBSET Addresses :
              dns' = [dns EXCEPT ![h] = answer]
        /\ UNCHANGED <<pc, tries, net>>
    BY <1>3, SystemAssumption DEF ChangeDns, vars, locals
  <2>2. D!ChangeDns
    BY <1>b, <2>1 DEF D!ChangeDns, D!request, D!response
  <2> QED
    BY <2>2 DEF AttemptStep
<1>4. ASSUME NEW w \in Workers, Validate(w) PROVE UNCHANGED D!vars \/ D!Validate
  <2>0. PICK t \in D!Validated(net[w].url) :
          net' = [net EXCEPT ![w] = [net[w] EXCEPT !.at = "connect",
                                        !.hop = net[w].hop + 1, !.target = t]]
    BY <1>4 DEF Validate
  <2>1. /\ e.at = "validate" \/ w # Observed
        /\ HopsRemain(net[w].hop) /\ UNCHANGED <<pc, tries, dns>>
    BY <1>4 DEF Validate, At, vars, locals
  <2>2. CASE w # Observed
    BY <1>a, <1>b, <1>1, <2>0, <2>1, <2>2
  <2>3. CASE w = Observed
    <3>1. /\ net'[Observed].at = "connect" /\ net'[Observed].target = t
          /\ net'[Observed].hop = e.hop + 1 /\ net'[Observed].url = e.url
          /\ net'[Observed].status = e.status /\ net'[Observed].requests = e.requests
          /\ net'[Observed].outcome = e.outcome
      BY <1>a, <1>b, <2>0, <2>3 DEF Exchange
    <3> QED
      BY <2>0, <2>1, <2>3, <3>1 DEF D!Validate, D!HopsLeft, D!response, HopsRemain
  <2> QED
    BY <2>2, <2>3
<1>5. ASSUME NEW w \in Workers, Request(w) PROVE UNCHANGED D!vars \/ D!Request
  <2>0. PICK s \in Statuses :
          net' = [net EXCEPT ![w] = [net[w] EXCEPT !.at = "body", !.status = s,
                                        !.requests = net[w].requests + 1]]
    BY <1>5 DEF Request
  <2>1. /\ e.at = "connect" \/ w # Observed
        /\ UNCHANGED <<pc, tries, dns>>
    BY <1>5 DEF Request, At, vars, locals
  <2>2. CASE w # Observed
    BY <1>a, <1>b, <1>1, <2>0, <2>1, <2>2
  <2>3. CASE w = Observed
    <3>1. /\ net'[Observed].at = "body" /\ net'[Observed].target = e.target
          /\ net'[Observed].hop = e.hop /\ net'[Observed].url = e.url
          /\ net'[Observed].status = s /\ net'[Observed].requests = e.requests + 1
          /\ net'[Observed].outcome = e.outcome
      BY <1>a, <1>b, <2>0, <2>3 DEF Exchange
    <3> QED
      BY <2>0, <2>1, <2>3, <3>1 DEF D!Request, D!Connections, D!request
  <2> QED
    BY <2>2, <2>3
<1>6. ASSUME NEW w \in Workers, Redirect(w) PROVE UNCHANGED D!vars \/ D!Redirect
  <2>0. PICK u \in D!Urls :
          net' = [net EXCEPT ![w] = [net[w] EXCEPT !.at = "validate", !.url = u,
                                        !.status = 0]]
    BY <1>6 DEF Redirect, Rechecked
  <2>1. /\ e.at = "body" \/ w # Observed
        /\ D!Redirects(net[w].status) /\ UNCHANGED <<pc, tries, dns>>
    BY <1>6 DEF Redirect, At, vars, locals
  <2>2. CASE w # Observed
    BY <1>a, <1>b, <1>1, <2>0, <2>1, <2>2
  <2>3. CASE w = Observed
    <3>1. /\ net'[Observed].at = "validate" /\ net'[Observed].target = e.target
          /\ net'[Observed].hop = e.hop /\ net'[Observed].url = u
          /\ net'[Observed].status = 0 /\ net'[Observed].requests = e.requests
          /\ net'[Observed].outcome = e.outcome
      BY <1>a, <1>b, <2>0, <2>3 DEF Exchange
    <3> QED
      BY <2>0, <2>1, <2>3, <3>1 DEF D!Redirect, D!AfterRedirect
  <2> QED
    BY <2>2, <2>3
<1>7. ASSUME NEW w \in Workers, Reject(w) \/ NetworkError(w) \/ Answer(w)
      PROVE  UNCHANGED D!vars \/ D!Reject \/ D!NetworkError \/ D!Answer
  <2>1. ASSUME NEW a, NEW b, Returns(w, a, b), w # Observed PROVE UNCHANGED D!vars
    <3>1. net'[Observed] = e /\ pc'[Observed] = pc[Observed] /\ UNCHANGED dns
      BY <1>a, <1>b, <2>1 DEF Returns, Execute, SystemInv, TypeInv, TypeOK
    <3> QED
      BY <1>1, <3>1
  <2>2. ASSUME NEW a, NEW b, Returns(w, a, b), w = Observed
        PROVE  /\ D!Return(a)
               /\ UNCHANGED <<dns, tries[Observed], net[Observed].requests>>
               /\ net'[Observed].outcome = a
    <3>1. /\ pc'[Observed] = "finish" /\ UNCHANGED dns
          /\ net'[Observed] = [Fresh(Followed) EXCEPT !.at = "done",
                                   !.requests = e.requests, !.outcome = a]
      BY <1>a, <1>b, <2>2 DEF Returns, Execute, SystemInv, TypeInv, TypeOK
    <3>2. /\ net'[Observed].requests = e.requests /\ net'[Observed].outcome = a
          /\ net'[Observed].at = "done"
          /\ net'[Observed].url = DestinationOf[Followed] /\ net'[Observed].hop = 0
          /\ net'[Observed].target = NoTarget /\ net'[Observed].status = 0
      BY <3>1, FreshType, SystemAssumption DEF Exchange
    <3> QED
      BY <1>a, <3>1, <3>2 DEF D!Return
  <2>3. CASE Reject(w)
    <3>1. /\ Returns(w, D!Failed("destination"), FALSE)
          /\ ~HopsRemain(net[w].hop) \/ D!Validated(net[w].url) = {}
          /\ net[w].at = "validate"
      BY <2>3 DEF Reject, At
    <3>2. CASE w = Observed
      <4>1. /\ D!Return(D!Failed("destination"))
            /\ UNCHANGED <<dns, tries[Observed], net[Observed].requests>>
            /\ net'[Observed].outcome = D!Failed("destination")
        BY <2>2, <3>1, <3>2
      <4> QED
        BY <1>c, <3>1, <3>2, <4>1 DEF D!Reject, D!HopsLeft, HopsRemain, D!Failed
    <3> QED
      BY <2>1, <3>1, <3>2
  <2>4. CASE NetworkError(w)
    <3>1. PICK r \in {"timeout", "transport"}, accepted \in BOOLEAN :
            Returns(w, D!Failed(r), accepted)
      BY <2>4 DEF NetworkError
    <3>2. net[w].at \in {"connect", "body"}
      BY <2>4 DEF NetworkError, At
    <3>3. CASE w = Observed
      BY <1>c, <2>2, <3>1, <3>2, <3>3 DEF D!NetworkError, D!Failed
    <3> QED
      BY <2>1, <3>1, <3>3
  <2>5. CASE Answer(w)
    <3>1. /\ Returns(w, D!Answered(net[w].status), net[w].status < 400)
          /\ net[w].at = "body"
      BY <2>5 DEF Answer, At
    <3>2. CASE w = Observed
      BY <1>c, <2>2, <3>1, <3>2 DEF D!Answer, D!Answered
    <3> QED
      BY <2>1, <3>1, <3>2
  <2> QED
    BY <1>7, <2>3, <2>4, <2>5
<1> QED
  BY <1>1, <1>2, <1>3, <1>4, <1>5, <1>6, <1>7
     DEF SystemNext, AttemptStep, systemVars, network, vars, locals

(* runner.execute, runner._send: as long as nobody interrupts it, what any *)
(* worker does with any job on the network is a behaviour of module        *)
(* Delivery, step by step, whatever the queue, the other workers and the   *)
(* DNS do meanwhile: Observed and Followed are arbitrary constants.        *)
THEOREM SystemImplementsDelivery == SystemSpec => AttemptIsDelivery
<1>1. SystemInv /\ [SystemNext]_systemVars =>
        (pc[Observed] = "execute" /\ job[Observed] = Followed
           /\ pc'[Observed] \in {"execute", "finish"}
         => UNCHANGED D!vars \/ AttemptStep)
  BY AttemptSteps
<1> QED
  BY SystemInvariant, <1>1, PTL DEF SystemSpec, AttemptIsDelivery
=============================================================================
