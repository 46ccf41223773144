--------------------------- MODULE ReplayContract ---------------------------
(***************************************************************************)
(* What the replay queue promises for every job, without workers, leases,  *)
(* documents or time: a job is accepted, attempted, answered and settled.  *)
(* An attempt that is interrupted (its worker crashed or raised) may be    *)
(* made again beyond the number of attempts, and nothing else may.  What   *)
(* the destination accepted is delivered again only after such an attempt  *)
(* or after one whose answer did not arrive whole.  ReplayQueue implements *)
(* this specification as long as no worker outlives its lease.             *)
(***************************************************************************)
EXTENDS Integers

CONSTANTS Replays, MaxAttempts

VARIABLES
    status,     \* "none", "open", "success", "failed" or "deleted"
    started,    \* attempts begun
    accepted,   \* deliveries that were answered with success
    unread,     \* answers of these that did not arrive whole
    lost        \* attempts interrupted

vars == <<status, started, accepted, unread, lost>>

Init ==
    /\ status = [r \in Replays |-> "none"]
    /\ started = [r \in Replays |-> 0]
    /\ accepted = [r \in Replays |-> 0]
    /\ unread = [r \in Replays |-> 0]
    /\ lost = [r \in Replays |-> 0]

(* The API answers 202: the job is in the queue. *)
Accept(r) ==
    /\ status[r] = "none"
    /\ status' = [status EXCEPT ![r] = "open"]
    /\ UNCHANGED <<started, accepted, unread, lost>>

(* An attempt begins: one of max_attempts, or one that replaces a lost one. *)
Start(r) ==
    /\ status[r] = "open"
    /\ started[r] < MaxAttempts + lost[r]
    /\ started' = [started EXCEPT ![r] = @ + 1]
    /\ UNCHANGED <<status, accepted, unread, lost>>

(* The destination answers with success.  It has done so before only if    *)
(* that answer was lost, or did not arrive whole.                          *)
Accepted(r) ==
    /\ accepted[r] <= unread[r] + lost[r]
    /\ accepted[r] < started[r]
    /\ accepted' = [accepted EXCEPT ![r] = @ + 1]

Deliver(r) ==
    /\ status[r] \in {"open", "deleted"}
    /\ Accepted(r)
    /\ unread' = unread \/ unread' = [unread EXCEPT ![r] = @ + 1]
    /\ UNCHANGED <<status, started, lost>>

(* An attempt ends without a record of how it went. *)
Lose(r) ==
    /\ status[r] \in {"open", "deleted"}
    /\ lost[r] < started[r]
    /\ lost' = [lost EXCEPT ![r] = @ + 1]
    /\ UNCHANGED accepted \/ Accepted(r)
    /\ UNCHANGED <<status, started, unread>>

(* The verdict: success only for a job that was delivered, failure only    *)
(* for one that was tried.                                                 *)
Succeed(r) ==
    /\ status[r] = "open"
    /\ accepted[r] > 0
    /\ status' = [status EXCEPT ![r] = "success"]
    /\ UNCHANGED <<started, accepted, unread, lost>>

Fail(r) ==
    /\ status[r] = "open"
    /\ started[r] > 0
    /\ status' = [status EXCEPT ![r] = "failed"]
    /\ UNCHANGED <<started, accepted, unread, lost>>

(* A reset deletes every job there is. *)
Erase ==
    /\ status' = [r \in Replays |-> IF status[r] = "none" THEN "none" ELSE "deleted"]
    /\ UNCHANGED <<started, accepted, unread, lost>>

Next ==
    \/ \E r \in Replays : \/ Accept(r) \/ Start(r) \/ Deliver(r) \/ Lose(r)
                          \/ Succeed(r) \/ Fail(r)
    \/ Erase

Spec == Init /\ [][Next]_vars
=============================================================================
