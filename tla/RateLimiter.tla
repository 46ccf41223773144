----------------------------- MODULE RateLimiter -----------------------------
(***************************************************************************)
(* The rate limiter of app/ratelimit.py, as app/ingest/receiver.py uses it *)
(* for webhooks: a token bucket for every path and client address, filled  *)
(* when it is asked and dropped when it has been idle.                     *)
(*                                                                         *)
(* The code counts tokens and seconds in floating point.  Here a second is *)
(* a step of the clock and tokens are counted in units of 1/Minute, which  *)
(* makes both exact: per_minute tokens are PerMinute * Minute units, and a *)
(* second adds PerMinute of them.                                          *)
(***************************************************************************)
EXTENDS Integers, Sequences

CONSTANTS
    Clients,       \* addresses of those who send requests
    Proxy,         \* the address of a proxy in front of the application
    Paths,         \* paths asked for, those of no endpoint included
    Claims,        \* what a sender may write into X-Forwarded-For
    Proxied,       \* requests come through the proxy, which appends its peer
    Trust,         \* rate_limit.trust_forwarded_for
    PerMinute,     \* rate_limit.requests_per_minute
    Minute,        \* seconds in a minute
    PruneInterval,
    NoBucket, NoWindow, NoAnswer, NoPromise,
    MaxTime,       \* bound: the clock
    MaxRestarts    \* bound: restarts of the process

Addresses == Clients \cup {Proxy}
Keys      == Paths \X Addresses

(* trust_forwarded_for only behind a proxy of one's own, as                *)
(* docs/configuration.md asks.                                             *)
ASSUME LimiterAssumption ==
    /\ Claims \subseteq Seq(Addresses)
    /\ Trust \in BOOLEAN /\ Proxied \in BOOLEAN
    /\ Trust => Proxied
    /\ PerMinute \in Nat \ {0} /\ Minute \in Nat \ {0} /\ PruneInterval \in Nat \ {0}
    /\ NoBucket \notin [tokens : Nat, updated : Nat]
    /\ NoPromise \notin Nat
    /\ NoAnswer \notin [key : Keys, ok : BOOLEAN]
    /\ NoWindow \notin [path : Paths, client : Clients, since : Nat, granted : Nat]
    /\ MaxTime \in Nat /\ MaxRestarts \in Nat

VARIABLES
    clock,      \* time.monotonic
    enabled,    \* rate_limit.enabled with a rate above 0
    bucket,     \* _buckets
    prunedAt,   \* _pruned_at
    answer,     \* to the latest request of this second
    \* history
    window,     \* one client's grants on one path, from an arbitrary moment on
    promise,    \* when a refused key was told to come back
    askedAt,    \* when allow was last called
    restarts

limiter == <<enabled, bucket, prunedAt>>
vars    == <<clock, limiter, answer, window, promise, askedAt, restarts>>

capacity == PerMinute * Minute
Bucket   == [tokens : 0..capacity, updated : Nat]
Window   == [path : Paths, client : Clients, since : Nat, granted : Nat]

TypeOK ==
    /\ clock \in Nat /\ prunedAt \in 0..clock /\ askedAt \in 0..clock
    /\ enabled \in BOOLEAN
    /\ bucket \in [Keys -> Bucket \cup {NoBucket}]
    /\ answer \in [key : Keys, ok : BOOLEAN] \cup {NoAnswer}
    /\ window \in Window \cup {NoWindow}
    /\ promise \in [Keys -> Nat \cup {NoPromise}]
    /\ restarts \in 0..MaxRestarts

(* The process starts at any moment of the machine's uptime. *)
Init ==
    /\ clock \in 0..MaxTime
    /\ enabled \in BOOLEAN
    /\ bucket = [k \in Keys |-> NoBucket]
    /\ prunedAt = 0 /\ askedAt = clock
    /\ answer = NoAnswer
    /\ window = NoWindow
    /\ promise = [k \in Keys |-> NoPromise]
    /\ restarts = 0

-----------------------------------------------------------------------------
Least(a, b) == IF a <= b THEN a ELSE b
Largest(a, b) == IF a >= b THEN a ELSE b

(* Mutant: the first hop, which any sender can choose. *)
FirstHop(peer, forwarded) ==
    IF Trust /\ forwarded # <<>> THEN forwarded[1] ELSE peer

(* client_key: the last hop, if there is one to trust. *)
ClientKey(peer, forwarded) ==
    IF Trust /\ forwarded # <<>> THEN forwarded[Len(forwarded)] ELSE peer

(* The key of a request that client c sends with the header h: receive     *)
(* joins the path and client_key.                                          *)
BucketKey(p, c, h) ==
    <<p, IF Proxied THEN ClientKey(Proxy, Append(h, c)) ELSE ClientKey(c, h)>>

(* capacity / rate, in seconds *)
IdleLimit == Minute

PruneDue == clock - prunedAt >= PruneInterval

(* Mutant: idle for half the time it takes to fill up. *)
KeptHalf(b) == 2 * (clock - b.updated) < IdleLimit

(* Mutant: a bucket is given another minute. *)
KeptLong(b) == clock - b.updated < 2 * IdleLimit

Kept(b) == clock - b.updated < IdleLimit

(* _prune *)
Pruned ==
    IF PruneDue
    THEN [k \in Keys |-> IF bucket[k] # NoBucket /\ Kept(bucket[k]) THEN bucket[k]
                         ELSE NoBucket]
    ELSE bucket

(* Mutant: a bucket is not stopped at its capacity. *)
Overfilled(b) == b.tokens + (clock - b.updated) * PerMinute

(* allow: what the bucket holds by now *)
Refilled(b) == Least(capacity, b.tokens + (clock - b.updated) * PerMinute)

(* allow: the bucket before the request is answered *)
Asked(b) ==
    [tokens |-> IF b = NoBucket THEN capacity ELSE Refilled(b), updated |-> clock]

(* allow: at least one token, that is Minute units *)
Enough(b) == b.tokens >= Minute

(* Mutant: rounded down. *)
RetryDown(b) == Largest(1, (Minute - b.tokens) \div PerMinute)

(* retry_after, called at once for a bucket that has refused *)
RetryAfter(b) == Largest(1, (Minute - b.tokens) \div PerMinute + 1)

-----------------------------------------------------------------------------
(* The window's client has been granted a request on its path. *)
Counts(p, c) == window # NoWindow /\ window.path = p /\ window.client = c

(* allow with the limiter on, and retry_after when it refuses: all between *)
(* two awaits of the handler.                                              *)
Allow(p, c, h) ==
    LET k == BucketKey(p, c, h)
        b == Asked(Pruned[k])
    IN  /\ enabled
        /\ Enough(b)
        /\ bucket' = [Pruned EXCEPT ![k] = [b EXCEPT !.tokens = @ - Minute]]
        /\ prunedAt' = IF PruneDue THEN clock ELSE prunedAt
        /\ answer' = [key |-> k, ok |-> TRUE]
        /\ promise' = [promise EXCEPT ![k] = NoPromise]
        /\ window' = IF Counts(p, c) THEN [window EXCEPT !.granted = @ + 1] ELSE window
        /\ askedAt' = clock
        /\ UNCHANGED <<clock, enabled, restarts>>

Refuse(p, c, h) ==
    LET k == BucketKey(p, c, h)
        b == Asked(Pruned[k])
    IN  /\ enabled
        /\ ~Enough(b)
        /\ bucket' = [Pruned EXCEPT ![k] = b]
        /\ prunedAt' = IF PruneDue THEN clock ELSE prunedAt
        /\ answer' = [key |-> k, ok |-> FALSE]
        /\ promise' = [promise EXCEPT ![k] = clock + RetryAfter(b)]
        /\ askedAt' = clock
        /\ UNCHANGED <<clock, enabled, window, restarts>>

(* allow with the limiter off *)
AllowAny(p, c, h) ==
    /\ ~enabled
    /\ answer' = [key |-> BucketKey(p, c, h), ok |-> TRUE]
    /\ UNCHANGED <<clock, limiter, window, promise, askedAt, restarts>>

(* An observer starts to count, once, at any moment. *)
Observe(p, c) ==
    /\ enabled /\ window = NoWindow
    /\ window' = [path |-> p, client |-> c, since |-> clock, granted |-> 0]
    /\ UNCHANGED <<clock, limiter, answer, promise, askedAt, restarts>>

Tick ==
    /\ clock < MaxTime
    /\ clock' = clock + 1
    /\ answer' = NoAnswer
    /\ UNCHANGED <<limiter, window, promise, askedAt, restarts>>

(* The buckets are the process's own: a restart forgets them, and what was *)
(* being observed; the configuration may have changed.                     *)
Restart ==
    /\ restarts < MaxRestarts
    /\ restarts' = restarts + 1
    /\ enabled' \in BOOLEAN
    /\ bucket' = [k \in Keys |-> NoBucket]
    /\ prunedAt' = 0 /\ askedAt' = clock
    /\ answer' = NoAnswer /\ window' = NoWindow
    /\ UNCHANGED <<clock, promise>>

Next ==
    \/ \E p \in Paths, c \in Clients, h \in Claims :
         Allow(p, c, h) \/ Refuse(p, c, h) \/ AllowAny(p, c, h)
    \/ \E p \in Paths, c \in Clients : Observe(p, c)
    \/ Tick \/ Restart

Spec == Init /\ [][Next]_vars

-----------------------------------------------------------------------------
(* What a key could spend now, whether its bucket exists or not. *)
Level(k) == IF bucket[k] = NoBucket THEN capacity ELSE Refilled(bucket[k])

(* The limit limits: in any stretch of time a client is granted, on one    *)
(* path, no more than a full bucket and what has run into it since,        *)
(* whatever it writes into X-Forwarded-For and however its bucket is       *)
(* pruned and made again meanwhile.                                        *)
WindowBound ==
    window # NoWindow =>
        window.granted * Minute <= capacity + (clock - window.since) * PerMinute

(* Retry-After is honest: a client that waits as long as it was told finds *)
(* a token, provided nobody else has spent it under the same key.          *)
RetryHonest ==
    \A k \in Keys : promise[k] # NoPromise /\ clock >= promise[k] => Level(k) >= Minute

(* Memory stays bounded by recent traffic: after any call every bucket     *)
(* left belongs to a key that has asked within PRUNE_INTERVAL and the time *)
(* a bucket takes to fill, however many keys have come and gone before.    *)
BucketsRecent ==
    \A k \in Keys : bucket[k] # NoBucket =>
        askedAt - bucket[k].updated < PruneInterval + IdleLimit

(* Filling buckets only when they are asked and dropping idle ones is not  *)
(* noticed: "a bucket idle long enough to have fully refilled is identical *)
(* to a fresh one, so dropping it loses nothing" (ratelimit.py).           *)
Contract == INSTANCE LimiterContract
    WITH Capacity <- capacity, Rate <- PerMinute, Unit <- Minute,
         on <- enabled, level <- [k \in Keys |-> Level(k)]

ImplementsContract == Contract!Spec
=============================================================================
