-------------------------- MODULE RateLimiterProofs --------------------------
(***************************************************************************)
(* Proofs about RateLimiter, for every number of clients, paths and        *)
(* requests per minute.  What a key could spend (Level) is what everything *)
(* turns on: pruning does not change it, a second adds to it what it       *)
(* should, and a granted request takes one token from it.                  *)
(***************************************************************************)
EXTENDS RateLimiter, TLAPS

-----------------------------------------------------------------------------
(* Arithmetic with the two factors the provers do not multiply out.        *)

LEMMA CapacityNat == capacity \in Nat /\ capacity >= Minute
  BY LimiterAssumption, SMT DEF capacity

LEMMA OneMore == \A d, n \in Int : (d + 1) * n = d * n + n
  BY SMT

LEMMA TimesNat == \A d, n \in Nat : d * n \in Nat
  BY SMT

LEMMA FullByThen ==
    ASSUME NEW d \in Nat, d >= IdleLimit
    PROVE  d * PerMinute >= capacity
  BY LimiterAssumption, SMT DEF capacity, IdleLimit

LEMMA WaitedEnough ==
    ASSUME NEW m \in Nat
    PROVE  /\ m \div PerMinute + 1 \in Nat
           /\ (m \div PerMinute + 1) * PerMinute >= m
  BY LimiterAssumption, SMT

-----------------------------------------------------------------------------
(* Keys: which bucket a client's requests ask.                             *)

Own(p, c) == <<p, IF Proxied /\ ~Trust THEN Proxy ELSE c>>

(* What a client writes into the header does not change its key. *)
LEMMA OwnKey ==
    ASSUME NEW p \in Paths, NEW c \in Clients, NEW h \in Claims
    PROVE  BucketKey(p, c, h) = Own(p, c) /\ Own(p, c) \in Keys
<1>1. /\ h \in Seq(Addresses)
      /\ Append(h, c) # <<>>
      /\ Append(h, c)[Len(Append(h, c))] = c
  BY LimiterAssumption DEF Addresses
<1> QED
  BY <1>1, LimiterAssumption DEF BucketKey, ClientKey, Own, Keys, Addresses

-----------------------------------------------------------------------------
(* Types.                                                                  *)

LEMMA AskedType ==
    ASSUME TypeOK, NEW b \in Bucket \cup {NoBucket}, b # NoBucket => b.updated <= clock
    PROVE  Asked(b) \in Bucket
<1>1. CASE b = NoBucket
  BY <1>1, CapacityNat DEF Asked, Bucket, TypeOK
<1>2. CASE b # NoBucket
  <2>1. clock - b.updated \in Nat /\ b.tokens \in Nat
    BY <1>2, CapacityNat DEF TypeOK, Bucket
  <2>2. (clock - b.updated) * PerMinute \in Nat
    BY <2>1, TimesNat, LimiterAssumption
  <2> QED
    BY <1>2, <2>1, <2>2, CapacityNat DEF Asked, Refilled, Least, Bucket, TypeOK
<1> QED
  BY <1>1, <1>2

(* No bucket is from the future. *)
UpdatedPast == \A k \in Keys : bucket[k] # NoBucket => bucket[k].updated <= askedAt

LEMMA PrunedType ==
    ASSUME TypeOK, UpdatedPast
    PROVE  /\ Pruned \in [Keys -> Bucket \cup {NoBucket}]
           /\ \A k \in Keys : Pruned[k] # NoBucket =>
                Pruned[k] = bucket[k] /\ Pruned[k].updated <= clock
           /\ \A k \in Keys : Asked(Pruned[k]) \in Bucket
<1>1. /\ Pruned \in [Keys -> Bucket \cup {NoBucket}]
      /\ \A k \in Keys : Pruned[k] # NoBucket =>
            Pruned[k] = bucket[k] /\ Pruned[k].updated <= clock
  BY DEF Pruned, TypeOK, UpdatedPast, Bucket
<1> QED
  BY <1>1, AskedType

LEMMA RetryType ==
    ASSUME NEW b \in Bucket, ~Enough(b)
    PROVE  /\ RetryAfter(b) \in Nat
           /\ b.tokens + RetryAfter(b) * PerMinute >= Minute
<1>1. Minute - b.tokens \in Nat
  BY LimiterAssumption, CapacityNat DEF Enough, Bucket
<1> DEFINE q == (Minute - b.tokens) \div PerMinute + 1
<1>2. q \in Nat /\ q * PerMinute >= Minute - b.tokens
  BY <1>1, WaitedEnough
<1>3. q >= 1 /\ RetryAfter(b) = q
  <2>1. (Minute - b.tokens) \div PerMinute \in Nat
    BY <1>1, LimiterAssumption, SMT
  <2> QED
    BY <2>1 DEF RetryAfter, Largest
<1>4. b.tokens \in Nat /\ q * PerMinute \in Nat
  BY <1>2, TimesNat, LimiterAssumption, CapacityNat DEF Bucket
<1> HIDE DEF q
<1> QED
  BY <1>2, <1>3, <1>4, LimiterAssumption

(* A request that the limiter answers, granted or not. *)
Answers(p, c, h) == Allow(p, c, h) \/ Refuse(p, c, h)

TypeInv == TypeOK /\ UpdatedPast

LEMMA TypeInvInit == Init => TypeInv
  BY LimiterAssumption DEF Init, TypeInv, TypeOK, UpdatedPast

LEMMA TypeInvNext == TypeInv /\ [Next]_vars => TypeInv'
<1> SUFFICES ASSUME TypeInv, [Next]_vars PROVE TypeInv'
  OBVIOUS
<1> USE DEF TypeInv
<1>1. ASSUME NEW p \in Paths, NEW c \in Clients, NEW h \in Claims, Answers(p, c, h)
      PROVE  TypeInv'
  <2> DEFINE k == BucketKey(p, c, h)
             b == Asked(Pruned[k])
  <2>1. k \in Keys
    BY OwnKey
  <2>2. b \in Bucket /\ Pruned \in [Keys -> Bucket \cup {NoBucket}]
    BY <2>1, PrunedType
  <2>3. b.updated = clock
    BY DEF Asked
  <2>4. UpdatedPast'
    <3>1. askedAt' = clock
      BY <1>1 DEF Answers, Allow, Refuse
    <3>2. \A j \in Keys : bucket'[j] # NoBucket =>
             bucket'[j] = Pruned[j] \/ bucket'[j].updated = clock
      <4>1. CASE Allow(p, c, h)
        BY <2>1, <2>2, <2>3, <4>1 DEF Allow, Bucket
      <4>2. CASE Refuse(p, c, h)
        BY <2>1, <2>2, <2>3, <4>2 DEF Refuse
      <4> QED
        BY <1>1, <4>1, <4>2 DEF Answers
    <3> QED
      BY <3>1, <3>2, PrunedType, LimiterAssumption DEF UpdatedPast, TypeOK
  <2>5. CASE Allow(p, c, h)
    <3>1. [b EXCEPT !.tokens = @ - Minute] \in Bucket
      BY <2>2, <2>5, CapacityNat, LimiterAssumption DEF Bucket, Allow, Enough
    <3>2. bucket' \in [Keys -> Bucket \cup {NoBucket}]
      BY <2>1, <2>2, <2>5, <3>1 DEF Allow
    <3>3. window' \in Window \cup {NoWindow}
      BY <2>5 DEF Allow, Counts, Window, TypeOK
    <3>4. promise' \in [Keys -> Nat \cup {NoPromise}]
      BY <2>5 DEF Allow, TypeOK
    <3> QED
      BY <2>1, <2>4, <2>5, <3>2, <3>3, <3>4 DEF Allow, TypeOK, PruneDue
  <2>6. CASE Refuse(p, c, h)
    <3>1. RetryAfter(b) \in Nat
      BY <2>2, <2>6, RetryType DEF Refuse
    <3>2. bucket' \in [Keys -> Bucket \cup {NoBucket}]
      BY <2>1, <2>2, <2>6 DEF Refuse
    <3>3. promise' \in [Keys -> Nat \cup {NoPromise}]
      <4>1. clock + RetryAfter(b) \in Nat
        BY <3>1 DEF TypeOK
      <4>2. promise' = [promise EXCEPT ![k] = clock + RetryAfter(b)]
        BY <2>6 DEF Refuse
      <4> HIDE DEF k, b
      <4> QED
        BY <4>1, <4>2 DEF TypeOK
    <3> QED
      BY <2>1, <2>4, <2>6, <3>2, <3>3 DEF Refuse, TypeOK, PruneDue
  <2> QED
    BY <1>1, <2>5, <2>6 DEF Answers
<1>2. ASSUME NEW p \in Paths, NEW c \in Clients, NEW h \in Claims, AllowAny(p, c, h)
      PROVE  TypeInv'
  BY <1>2, OwnKey DEF AllowAny, limiter, TypeOK, UpdatedPast
<1>3. ASSUME NEW p \in Paths, NEW c \in Clients, Observe(p, c)
      PROVE  TypeInv'
  BY <1>3 DEF Observe, limiter, TypeOK, UpdatedPast, Window
<1>4. CASE Tick
  BY <1>4 DEF Tick, limiter, TypeOK, UpdatedPast
<1>5. CASE Restart
  BY <1>5, LimiterAssumption DEF Restart, TypeOK, UpdatedPast
<1>6. CASE UNCHANGED vars
  BY <1>6 DEF vars, limiter, TypeOK, UpdatedPast
<1> QED
  BY <1>1, <1>2, <1>3, <1>4, <1>5, <1>6 DEF Next, Answers

LEMMA TypeInvariance == Spec => []TypeInv
  BY TypeInvInit, TypeInvNext, PTL DEF Spec

(* Every variable keeps its type; in particular no bucket holds more than  *)
(* its capacity or less than nothing (allow, _prune).                      *)
THEOREM TypeCorrect == Spec => []TypeOK
  BY TypeInvariance, PTL DEF TypeInv

-----------------------------------------------------------------------------
(* Levels.                                                                 *)

LEMMA LevelType ==
    ASSUME TypeInv, NEW k \in Keys
    PROVE  Level(k) \in 0..capacity
<1>1. CASE bucket[k] = NoBucket
  BY <1>1, CapacityNat DEF Level
<1>2. CASE bucket[k] # NoBucket
  <2>1. bucket[k] \in Bucket /\ clock - bucket[k].updated \in Nat
    BY <1>2 DEF TypeInv, TypeOK, UpdatedPast, Bucket
  <2>2. (clock - bucket[k].updated) * PerMinute \in Nat
    BY <2>1, TimesNat, LimiterAssumption
  <2> QED
    BY <1>2, <2>1, <2>2, CapacityNat DEF Level, Refilled, Least, Bucket
<1> QED
  BY <1>1, <1>2

(* A bucket that has been idle long enough is identical to a fresh one, so *)
(* dropping it loses nothing.                                              *)
LEMMA PrunedLevel ==
    ASSUME TypeInv, NEW k \in Keys
    PROVE  Level(k) = IF Pruned[k] = NoBucket THEN capacity ELSE Refilled(Pruned[k])
<1>1. CASE Pruned[k] # NoBucket \/ bucket[k] = NoBucket
  BY <1>1, PrunedType DEF Level, TypeInv, Pruned
<1>2. CASE Pruned[k] = NoBucket /\ bucket[k] # NoBucket
  <2>1. /\ bucket[k] \in Bucket /\ clock - bucket[k].updated \in Nat
        /\ clock - bucket[k].updated >= IdleLimit
    BY <1>2, LimiterAssumption DEF TypeInv, TypeOK, UpdatedPast, Bucket, Pruned, Kept, IdleLimit
  <2>2. (clock - bucket[k].updated) * PerMinute >= capacity
    BY <2>1, FullByThen
  <2>3. (clock - bucket[k].updated) * PerMinute \in Nat
    BY <2>1, TimesNat, LimiterAssumption
  <2> QED
    BY <1>2, <2>1, <2>2, <2>3, CapacityNat DEF Level, Refilled, Least, Bucket
<1> QED
  BY <1>1, <1>2

LEMMA AskedLevel ==
    ASSUME TypeInv, NEW k \in Keys
    PROVE  Asked(Pruned[k]).tokens = Level(k)
  BY PrunedLevel DEF Asked

(* A bucket just asked holds what it says. *)
LEMMA JustAsked ==
    ASSUME NEW b \in Bucket, b.updated = clock, clock \in Nat
    PROVE  Refilled(b) = b.tokens
<1>1. (clock - b.updated) * PerMinute = 0
  BY LimiterAssumption
<1> QED
  BY <1>1, CapacityNat DEF Refilled, Least, Bucket

(* An answered request changes the level of its own key only, by what it   *)
(* was granted.                                                            *)
LEMMA AnswerLevel ==
    ASSUME TypeInv, TypeInv',
           NEW p \in Paths, NEW c \in Clients, NEW h \in Claims, Answers(p, c, h)
    PROVE  LET k == BucketKey(p, c, h)
           IN  /\ Allow(p, c, h) => Level(k) >= Minute /\ Level(k)' = Level(k) - Minute
               /\ Refuse(p, c, h) => Level(k) < Minute /\ Level(k)' = Level(k)
               /\ \A j \in Keys \ {k} : Level(j)' = Level(j)
<1> DEFINE k == BucketKey(p, c, h)
           b == Asked(Pruned[k])
<1>1. k \in Keys
  BY OwnKey
<1>2. /\ b \in Bucket /\ b.tokens = Level(k) /\ b.updated = clock
      /\ Pruned \in [Keys -> Bucket \cup {NoBucket}]
  BY <1>1, PrunedType, AskedLevel DEF TypeInv, Asked
<1>3. clock' = clock /\ clock \in Nat
  BY DEF Answers, Allow, Refuse, TypeInv, TypeOK
<1>4. bucket'[k] # NoBucket => bucket'[k] \in Bucket
  BY <1>1 DEF TypeInv, TypeOK, Bucket, capacity
<1>5. NoBucket \notin Bucket
  BY LimiterAssumption, CapacityNat DEF Bucket
<1>6. ASSUME NEW j \in Keys \ {k} PROVE Level(j)' = Level(j)
  <2>1. bucket'[j] = Pruned[j]
    BY <1>1, <1>2 DEF Answers, Allow, Refuse
  <2> QED
    BY <1>3, <2>1, PrunedLevel DEF Level, Refilled, capacity
<1>7. ASSUME Allow(p, c, h)
      PROVE  Level(k) >= Minute /\ Level(k)' = Level(k) - Minute
  <2>1. Level(k) >= Minute
    BY <1>2, <1>7 DEF Allow, Enough
  <2>2. /\ bucket'[k] \in Bucket /\ bucket'[k].updated = clock
        /\ bucket'[k].tokens = Level(k) - Minute
    <3>1. bucket'[k] = [b EXCEPT !.tokens = @ - Minute]
      BY <1>1, <1>2, <1>7 DEF Allow
    <3>2. [b EXCEPT !.tokens = @ - Minute] \in Bucket
      BY <1>2, <2>1, LevelType, CapacityNat, LimiterAssumption DEF Bucket
    <3> HIDE DEF b, k
    <3> QED
      BY <1>2, <3>1, <3>2 DEF Bucket
  <2>3. Refilled(bucket'[k]) = bucket'[k].tokens
    BY <1>3, <2>2, JustAsked
  <2> HIDE DEF k, b
  <2> QED
    BY <1>3, <1>5, <2>1, <2>2, <2>3 DEF Level, Refilled, capacity
<1>8. ASSUME Refuse(p, c, h)
      PROVE  Level(k) < Minute /\ Level(k)' = Level(k)
  <2>1. Level(k) < Minute
    BY <1>1, <1>2, <1>8, LevelType, CapacityNat, LimiterAssumption DEF Refuse, Enough
  <2>2. bucket'[k] = b
    BY <1>1, <1>2, <1>8 DEF Refuse
  <2>3. Refilled(b) = b.tokens
    BY <1>2, <1>3, JustAsked
  <2> HIDE DEF k, b
  <2> QED
    BY <1>2, <1>3, <1>5, <2>1, <2>2, <2>3 DEF Level, Refilled, capacity
<1> QED
  BY <1>6, <1>7, <1>8

(* A second adds PerMinute units, up to the capacity. *)
LEMMA TickLevel ==
    ASSUME TypeInv, Tick, NEW k \in Keys
    PROVE  Level(k)' = Least(capacity, Level(k) + PerMinute)
<1>1. bucket' = bucket /\ clock' = clock + 1 /\ clock \in Nat
  BY DEF Tick, limiter, TypeInv, TypeOK
<1>2. CASE bucket[k] = NoBucket
  BY <1>1, <1>2, CapacityNat, LimiterAssumption DEF Level, Least, capacity
<1>3. CASE bucket[k] # NoBucket
  <2> DEFINE d == clock - bucket[k].updated
  <2>1. bucket[k] \in Bucket /\ d \in Nat
    BY <1>3 DEF TypeInv, TypeOK, UpdatedPast, Bucket
  <2>2. clock' - bucket'[k].updated = d + 1
    BY <1>1, <2>1 DEF Bucket
  <2>3. (d + 1) * PerMinute = d * PerMinute + PerMinute /\ d * PerMinute \in Nat
    BY <2>1, OneMore, TimesNat, LimiterAssumption
  <2>4. /\ Level(k) = Least(capacity, bucket[k].tokens + d * PerMinute)
        /\ Level(k)' = Least(capacity, bucket[k].tokens + (d + 1) * PerMinute)
    BY <1>1, <1>3, <2>2 DEF Level, Refilled, capacity, Least
  <2> HIDE DEF d
  <2> QED
    BY <2>1, <2>3, <2>4, CapacityNat, LimiterAssumption DEF Least, Bucket
<1> QED
  BY <1>2, <1>3

-----------------------------------------------------------------------------
(* The limit.                                                              *)

(* What the observed client has been granted and what it could still spend *)
(* come from a full bucket and from the time that has passed.              *)
WindowInv ==
    window # NoWindow =>
        /\ enabled /\ window.since <= clock
        /\ window.granted * Minute + Level(Own(window.path, window.client))
             <= capacity + (clock - window.since) * PerMinute

LEMMA OwnKeys == \A p \in Paths, c \in Clients : Own(p, c) \in Keys
  BY DEF Own, Keys, Addresses

LEMMA WindowInvNext ==
    ASSUME TypeInv, TypeInv', WindowInv, [Next]_vars
    PROVE  WindowInv'
<1>1. ASSUME window \in Window
      PROVE  /\ window.granted * Minute \in Nat
             /\ \E o \in Keys : o = Own(window.path, window.client)
  BY <1>1, OwnKeys, TimesNat, LimiterAssumption DEF Window
<1>2. ASSUME NEW p \in Paths, NEW c \in Clients, NEW h \in Claims, Answers(p, c, h)
      PROVE  WindowInv'
  <2> DEFINE k == BucketKey(p, c, h)
  <2>1. clock' = clock /\ enabled' = enabled
    BY <1>2 DEF Answers, Allow, Refuse
  <2>2. CASE window = NoWindow
    BY <1>2, <2>2 DEF Answers, Allow, Refuse, Counts, WindowInv
  <2>3. CASE window \in Window /\ Allow(p, c, h) /\ Counts(p, c)
    <3>0. PICK o \in Keys : o = Own(window.path, window.client)
      BY <1>1, <2>3
    <3>1. o = k
      BY <2>3, <3>0, OwnKey DEF Counts
    <3>2. Level(o)' = Level(o) - Minute /\ Level(o) \in 0..capacity
      BY <1>2, <2>3, <3>1, AnswerLevel, LevelType
    <3>3. window' = [window EXCEPT !.granted = @ + 1]
      BY <2>3 DEF Allow
    <3>4. /\ window'.path = window.path /\ window'.client = window.client
          /\ window'.since = window.since /\ window'.granted = window.granted + 1
      BY <2>3, <3>3 DEF Window
    <3>5. (window.granted + 1) * Minute = window.granted * Minute + Minute
      BY <2>3, OneMore, LimiterAssumption DEF Window
    <3>6. window # NoWindow
      BY <2>3 DEF Counts
    <3>7. Own(window.path, window.client)' = o
      BY <3>0, <3>4
    <3>8. Level(Own(window.path, window.client))' = Level(o)'
      BY <3>7
    <3>9. (clock - window.since) * PerMinute \in Int
      BY <2>3, LimiterAssumption DEF Window, TypeInv, TypeOK
    <3>10. window.granted * Minute + Level(o)
             <= capacity + (clock - window.since) * PerMinute
      BY <3>0, <3>6 DEF WindowInv
    <3> HIDE DEF k
    <3>11. window'.granted * Minute + Level(o)'
             <= capacity + (clock - window.since) * PerMinute
      BY <1>1, <2>3, <3>2, <3>4, <3>5, <3>9, <3>10, CapacityNat, LimiterAssumption
         DEF capacity
    <3> QED
      BY <2>1, <3>4, <3>6, <3>8, <3>11 DEF WindowInv, capacity
  <2>4. CASE window \in Window /\ ~(Allow(p, c, h) /\ Counts(p, c))
    <3>1. window' = window
      BY <1>2, <2>4 DEF Answers, Allow, Refuse
    <3>0. PICK o \in Keys : o = Own(window.path, window.client)
      BY <1>1, <2>4
    <3>2. /\ Level(o)' = Level(o) \/ Level(o)' = Level(o) - Minute
          /\ Level(o) \in 0..capacity
      BY <1>2, AnswerLevel, LevelType DEF Answers
    <3>3. Own(window.path, window.client)' = o
      BY <3>0, <3>1
    <3>4. (clock - window.since) * PerMinute \in Int
      BY <2>4, LimiterAssumption DEF Window, TypeInv, TypeOK
    <3>5. window # NoWindow
      BY <2>4, LimiterAssumption DEF Window
    <3>6. /\ window.granted * Minute + Level(o)
               <= capacity + (clock - window.since) * PerMinute
          /\ enabled /\ window.since <= clock
      BY <3>0, <3>5 DEF WindowInv
    <3>7. Level(o)' <= Level(o) /\ Level(o)' \in Int
      BY <3>2, CapacityNat, LimiterAssumption DEF capacity
    <3>8. window.granted * Minute + Level(o)'
             <= capacity + (clock - window.since) * PerMinute
      BY <1>1, <2>4, <3>2, <3>4, <3>6, <3>7, CapacityNat
    <3> QED
      BY <2>1, <3>1, <3>3, <3>5, <3>6, <3>8 DEF WindowInv, capacity
  <2> QED
    BY <2>2, <2>3, <2>4 DEF TypeInv, TypeOK
<1>3. ASSUME NEW p \in Paths, NEW c \in Clients, NEW h \in Claims, AllowAny(p, c, h)
      PROVE  WindowInv'
  BY <1>3 DEF AllowAny, limiter, WindowInv, Level, Refilled, capacity
<1>4. ASSUME NEW p \in Paths, NEW c \in Clients, Observe(p, c)
      PROVE  WindowInv'
  <2>1. /\ window' = [path |-> p, client |-> c, since |-> clock, granted |-> 0]
        /\ clock' = clock /\ enabled' = enabled /\ bucket' = bucket /\ enabled
    BY <1>4 DEF Observe, limiter
  <2>2. Level(Own(p, c))' = Level(Own(p, c)) /\ Level(Own(p, c)) \in 0..capacity
    BY <2>1, LevelType, OwnKeys DEF Level, Refilled, capacity
  <2>3. (clock - clock) * PerMinute = 0 /\ 0 * Minute = 0 /\ clock \in Nat
    BY LimiterAssumption DEF TypeInv, TypeOK
  <2> QED
    BY <2>1, <2>2, <2>3, CapacityNat DEF WindowInv, capacity
<1>5. CASE Tick
  <2>1. clock' = clock + 1 /\ window' = window /\ enabled' = enabled /\ clock \in Nat
    BY <1>5 DEF Tick, limiter, TypeInv, TypeOK
  <2>2. CASE window = NoWindow
    BY <2>1, <2>2 DEF WindowInv
  <2>3. CASE window \in Window
    <3> DEFINE d == clock - window.since
    <3>1. window # NoWindow /\ d \in Nat /\ clock' - window.since = d + 1
      BY <2>1, <2>3, LimiterAssumption DEF Window, WindowInv
    <3>2. (d + 1) * PerMinute = d * PerMinute + PerMinute /\ d * PerMinute \in Nat
      BY <3>1, OneMore, TimesNat, LimiterAssumption
    <3>0. PICK o \in Keys : o = Own(window.path, window.client)
      BY <1>1, <2>3
    <3>3. /\ Level(o)' = Least(capacity, Level(o) + PerMinute)
          /\ Level(o) \in 0..capacity
      BY <1>5, TickLevel, LevelType
    <3>4. Own(window.path, window.client)' = o
      BY <2>1, <3>0
    <3>5. window.since \in Nat
      BY <2>3 DEF Window
    <3>6. window.granted * Minute + Level(o) <= capacity + d * PerMinute /\ enabled
      BY <3>0, <3>1 DEF WindowInv
    <3> HIDE DEF d
    <3>7. window.granted * Minute + Level(o)' <= capacity + (d + 1) * PerMinute
      BY <1>1, <2>3, <3>2, <3>3, <3>6, CapacityNat, LimiterAssumption DEF Least
    <3> QED
      BY <2>1, <3>1, <3>4, <3>5, <3>6, <3>7 DEF WindowInv, capacity, d
  <2> QED
    BY <2>2, <2>3 DEF TypeInv, TypeOK
<1>6. CASE Restart
  BY <1>6 DEF Restart, WindowInv
<1>7. CASE UNCHANGED vars
  BY <1>7 DEF vars, limiter, WindowInv, Level, Refilled, capacity
<1> QED
  BY <1>2, <1>3, <1>4, <1>5, <1>6, <1>7 DEF Next, Answers

LEMMA WindowInvBound == TypeInv /\ WindowInv => WindowBound
<1> SUFFICES ASSUME TypeInv, WindowInv, window # NoWindow
             PROVE  window.granted * Minute <= capacity + (clock - window.since) * PerMinute
  BY DEF WindowBound
<1>1. window \in Window /\ window.since <= clock
  BY DEF TypeInv, TypeOK, WindowInv
<1>2. Level(Own(window.path, window.client)) \in Nat
  BY <1>1, OwnKeys, LevelType, CapacityNat DEF Window
<1>3. window.granted * Minute \in Nat
  BY <1>1, TimesNat, LimiterAssumption DEF Window
<1>4. clock - window.since \in Nat
  BY <1>1 DEF Window, TypeInv, TypeOK
<1>5. (clock - window.since) * PerMinute \in Nat
  BY <1>4, TimesNat, LimiterAssumption
<1> QED
  BY <1>2, <1>3, <1>5, CapacityNat DEF WindowInv

(* In any stretch of time a client is granted no more than a full bucket   *)
(* and what has run into it since (allow), through prunings of its bucket  *)
(* and whatever it writes into X-Forwarded-For (client_key).               *)
THEOREM LimitHolds == Spec => []WindowBound
<1>1. Init => WindowInv
  BY DEF Init, WindowInv
<1>2. TypeInv /\ TypeInv' /\ WindowInv /\ [Next]_vars => WindowInv'
  BY WindowInvNext
<1> QED
  BY <1>1, <1>2, TypeInvariance, WindowInvBound, PTL DEF Spec

-----------------------------------------------------------------------------
(* Retry-After.                                                            *)

(* Until the promised second the level is on its way to a token. *)
RetryInv ==
    \A k \in Keys : promise[k] # NoPromise =>
        \/ Level(k) >= Minute
        \/ clock < promise[k] /\ Level(k) + (promise[k] - clock) * PerMinute >= Minute

LEMMA RetryInvNext ==
    ASSUME TypeInv, TypeInv', RetryInv, [Next]_vars
    PROVE  RetryInv'
<1>1. ASSUME NEW p \in Paths, NEW c \in Clients, NEW h \in Claims, Answers(p, c, h)
      PROVE  RetryInv'
  <2> DEFINE k == BucketKey(p, c, h)
             b == Asked(Pruned[k])
  <2>1. k \in Keys /\ clock' = clock
    BY <1>1, OwnKey DEF Answers, Allow, Refuse
  <2>2. \A j \in Keys \ {k} : Level(j)' = Level(j) /\ promise'[j] = promise[j]
    BY <1>1, <2>1, AnswerLevel DEF Answers, Allow, Refuse, TypeInv, TypeOK
  <2>3. promise'[k] # NoPromise =>
            clock' < promise'[k] /\ Level(k)' + (promise'[k] - clock') * PerMinute >= Minute
    <3>1. CASE Allow(p, c, h)
      BY <2>1, <3>1 DEF Allow, TypeInv, TypeOK
    <3>2. CASE Refuse(p, c, h)
      <4>1. b \in Bucket /\ b.tokens = Level(k) /\ ~Enough(b)
        BY <2>1, <3>2, PrunedType, AskedLevel DEF TypeInv, Refuse
      <4>2. promise'[k] = clock + RetryAfter(b)
        BY <2>1, <3>2 DEF Refuse, TypeInv, TypeOK
      <4>3. RetryAfter(b) \in Nat /\ b.tokens + RetryAfter(b) * PerMinute >= Minute
        BY <4>1, RetryType
      <4>4. RetryAfter(b) >= 1
        <5>1. Minute - b.tokens \in Nat
          BY <4>1, CapacityNat, LimiterAssumption DEF Enough, Bucket
        <5>2. (Minute - b.tokens) \div PerMinute \in Nat
          BY <5>1, LimiterAssumption
        <5> QED
          BY <5>2 DEF RetryAfter, Largest
      <4>5. Level(k)' = Level(k)
        BY <1>1, <3>2, AnswerLevel
      <4>6. clock \in Nat /\ (clock + RetryAfter(b)) - clock = RetryAfter(b)
        BY <4>3 DEF TypeInv, TypeOK
      <4> HIDE DEF k, b
      <4> QED
        BY <2>1, <4>1, <4>2, <4>3, <4>4, <4>5, <4>6
    <3> QED
      BY <1>1, <3>1, <3>2 DEF Answers
  <2> HIDE DEF k, b
  <2> QED
    BY <2>1, <2>2, <2>3 DEF RetryInv
<1>2. ASSUME NEW p \in Paths, NEW c \in Clients, NEW h \in Claims, AllowAny(p, c, h)
      PROVE  RetryInv'
  BY <1>2 DEF AllowAny, limiter, RetryInv, Level, Refilled, capacity
<1>3. ASSUME NEW p \in Paths, NEW c \in Clients, Observe(p, c)
      PROVE  RetryInv'
  BY <1>3 DEF Observe, limiter, RetryInv, Level, Refilled, capacity
<1>4. CASE Tick
  <2> SUFFICES ASSUME NEW k \in Keys, promise'[k] # NoPromise
               PROVE  \/ Level(k)' >= Minute
                      \/ /\ clock' < promise'[k]
                         /\ Level(k)' + (promise'[k] - clock') * PerMinute >= Minute
    BY DEF RetryInv
  <2>1. clock' = clock + 1 /\ promise' = promise /\ clock \in Nat /\ promise[k] \in Nat
    BY <1>4 DEF Tick, TypeInv, TypeOK
  <2>2. Level(k)' = Least(capacity, Level(k) + PerMinute) /\ Level(k) \in 0..capacity
    BY <1>4, TickLevel, LevelType
  <2>3. CASE Level(k) >= Minute
    BY <2>2, <2>3, CapacityNat, LimiterAssumption DEF Least
  <2>4. CASE clock < promise[k] /\ Level(k) + (promise[k] - clock) * PerMinute >= Minute
    <3> DEFINE d == promise[k] - clock'
    <3>1. d \in Nat /\ promise[k] - clock = d + 1
      BY <2>1, <2>4
    <3>2. (d + 1) * PerMinute = d * PerMinute + PerMinute /\ d * PerMinute \in Nat
      BY <3>1, OneMore, TimesNat, LimiterAssumption
    <3>3. d = 0 => d * PerMinute = 0
      BY LimiterAssumption
    <3>4. d # 0 => clock' < promise'[k]
      BY <2>1, <3>1
    <3>5. promise'[k] - clock' = d
      BY <2>1
    <3> HIDE DEF d
    <3> QED
      BY <2>2, <2>4, <3>1, <3>2, <3>3, <3>4, <3>5, CapacityNat, LimiterAssumption DEF Least
  <2> QED
    BY <2>1, <2>3, <2>4 DEF RetryInv
<1>5. CASE Restart
  BY <1>5, CapacityNat DEF Restart, RetryInv, Level, capacity
<1>6. CASE UNCHANGED vars
  BY <1>6 DEF vars, limiter, RetryInv, Level, Refilled, capacity
<1> QED
  BY <1>1, <1>2, <1>3, <1>4, <1>5, <1>6 DEF Next, Answers

(* A client that waits as long as Retry-After says finds a token           *)
(* (retry_after), unless somebody has been granted it under the same key.  *)
THEOREM RetryAfterHonest == Spec => []RetryHonest
<1>1. Init => RetryInv
  BY DEF Init, RetryInv
<1>2. TypeInv /\ TypeInv' /\ RetryInv /\ [Next]_vars => RetryInv'
  BY RetryInvNext
<1>3. TypeInv /\ RetryInv => RetryHonest
  <2> SUFFICES ASSUME TypeInv, RetryInv, NEW k \in Keys,
                      promise[k] # NoPromise, clock >= promise[k]
               PROVE  Level(k) >= Minute
    BY DEF RetryHonest
  <2>1. clock \in Nat /\ promise[k] \in Nat
    BY DEF TypeInv, TypeOK
  <2> QED
    BY <2>1 DEF RetryInv
<1> QED
  BY <1>1, <1>2, <1>3, TypeInvariance, PTL DEF Spec

-----------------------------------------------------------------------------
(* Memory.                                                                 *)

(* While there is a bucket, the last pruning was not long before the last  *)
(* call, and it has kept no bucket that was idle too long.                 *)
PrunedInv ==
    \A k \in Keys : bucket[k] # NoBucket =>
        askedAt - prunedAt < PruneInterval /\ prunedAt - bucket[k].updated < IdleLimit

LEMMA PrunedInvNext ==
    ASSUME TypeInv, PrunedInv, [Next]_vars
    PROVE  PrunedInv'
<1>1. ASSUME NEW p \in Paths, NEW c \in Clients, NEW h \in Claims, Answers(p, c, h)
      PROVE  PrunedInv'
  <2> DEFINE k == BucketKey(p, c, h)
             b == Asked(Pruned[k])
  <2>1. k \in Keys /\ b \in Bucket /\ b.updated = clock
    BY OwnKey, PrunedType DEF TypeInv, Asked
  <2>2. askedAt' = clock /\ prunedAt' = IF PruneDue THEN clock ELSE prunedAt
    BY <1>1 DEF Answers, Allow, Refuse
  <2>3. ASSUME NEW j \in Keys, bucket'[j] # NoBucket
        PROVE  bucket'[j].updated = clock \/ (Pruned[j] # NoBucket /\ bucket'[j] = Pruned[j])
    <3>1. Pruned \in [Keys -> Bucket \cup {NoBucket}]
      BY PrunedType DEF TypeInv
    <3>2. CASE Allow(p, c, h)
      BY <2>1, <2>3, <3>1, <3>2 DEF Allow, Bucket
    <3>3. CASE Refuse(p, c, h)
      BY <2>1, <2>3, <3>1, <3>3 DEF Refuse
    <3> QED
      BY <1>1, <3>2, <3>3 DEF Answers
  <2>4. clock \in Nat /\ prunedAt \in 0..clock
    BY DEF TypeInv, TypeOK
  <2>5. clock - prunedAt' < PruneInterval
    BY <2>2, <2>4, LimiterAssumption DEF PruneDue
  <2>6. ASSUME NEW j \in Keys, bucket'[j] # NoBucket
        PROVE  prunedAt' - bucket'[j].updated < IdleLimit
    <3>1. CASE bucket'[j].updated = clock
      BY <2>2, <2>4, <3>1, LimiterAssumption DEF IdleLimit
    <3>2. CASE Pruned[j] # NoBucket /\ bucket'[j] = Pruned[j]
      BY <2>2, <3>2, PrunedType DEF TypeInv, PrunedInv, Pruned, Kept
    <3> QED
      BY <2>3, <2>6, <3>1, <3>2
  <2> QED
    BY <2>2, <2>5, <2>6 DEF PrunedInv, IdleLimit
<1>2. ASSUME NEW p \in Paths, NEW c \in Clients, NEW h \in Claims, AllowAny(p, c, h)
      PROVE  PrunedInv'
  BY <1>2 DEF AllowAny, limiter, PrunedInv, IdleLimit
<1>3. ASSUME NEW p \in Paths, NEW c \in Clients, Observe(p, c)
      PROVE  PrunedInv'
  BY <1>3 DEF Observe, limiter, PrunedInv, IdleLimit
<1>4. CASE Tick
  BY <1>4 DEF Tick, limiter, PrunedInv, IdleLimit
<1>5. CASE Restart
  BY <1>5 DEF Restart, PrunedInv
<1>6. CASE UNCHANGED vars
  BY <1>6 DEF vars, limiter, PrunedInv, IdleLimit
<1> QED
  BY <1>1, <1>2, <1>3, <1>4, <1>5, <1>6 DEF Next, Answers

(* After any call the buckets left belong to keys that have asked not long *)
(* before (_prune): memory is bounded by recent traffic.                   *)
THEOREM MemoryBounded == Spec => []BucketsRecent
<1>1. Init => PrunedInv
  BY DEF Init, PrunedInv
<1>2. TypeInv /\ PrunedInv /\ [Next]_vars => PrunedInv'
  BY PrunedInvNext
<1>3. TypeInv /\ PrunedInv => BucketsRecent
  <2> SUFFICES ASSUME TypeInv, PrunedInv, NEW k \in Keys, bucket[k] # NoBucket
               PROVE  askedAt - bucket[k].updated < PruneInterval + IdleLimit
    BY DEF BucketsRecent
  <2>1. bucket[k] \in Bucket /\ askedAt \in Nat /\ prunedAt \in Nat
    BY DEF TypeInv, TypeOK
  <2> QED
    BY <2>1, LimiterAssumption DEF PrunedInv, Bucket, IdleLimit
<1> QED
  BY <1>1, <1>2, <1>3, TypeInvariance, PTL DEF Spec

-----------------------------------------------------------------------------
(* Refinement.                                                             *)

LEMMA ContractInit == Init => Contract!Init
  BY DEF Init, Contract!Init, Contract!Full, Level

LEMMA ContractNext ==
    ASSUME TypeInv, TypeInv', [Next]_vars
    PROVE  Contract!Next \/ UNCHANGED <<enabled, [k \in Keys |-> Level(k)], answer>>
<1> DEFINE levels == [k \in Keys |-> Level(k)]
<1>1. ASSUME NEW p \in Paths, NEW c \in Clients, NEW h \in Claims, Answers(p, c, h)
      PROVE  Contract!Next
  <2> DEFINE key == BucketKey(p, c, h)
  <2>1. key \in Keys /\ Level(key) \in 0..capacity /\ enabled /\ enabled' = enabled
    BY <1>1, OwnKey, LevelType DEF Answers, Allow, Refuse
  <2>2. \A j \in Keys \ {key} : Level(j)' = Level(j)
    BY <1>1, AnswerLevel
  <2>3. CASE Allow(p, c, h)
    <3>1. Level(key) >= Minute /\ Level(key)' = Level(key) - Minute
      BY <1>1, <2>3, AnswerLevel
    <3>2. answer' = [key |-> key, ok |-> TRUE]
      BY <2>3 DEF Allow
    <3>3. levels' = [levels EXCEPT ![key] = @ - Minute]
      BY <2>1, <2>2, <3>1
    <3> HIDE DEF key
    <3>4. Contract!Ask(key)
      BY <2>1, <3>1, <3>2, <3>3 DEF Contract!Ask
    <3> QED
      BY <2>1, <3>4 DEF Contract!Next
  <2>4. CASE Refuse(p, c, h)
    <3>1. Level(key) < Minute /\ Level(key)' = Level(key)
      BY <1>1, <2>4, AnswerLevel
    <3>2. answer' = [key |-> key, ok |-> FALSE]
      BY <2>4 DEF Refuse
    <3>3. levels' = levels
      BY <2>1, <2>2, <3>1
    <3>4. ~(Level(key) >= Minute)
      BY <2>1, <3>1, CapacityNat, LimiterAssumption
    <3> HIDE DEF key
    <3>5. Contract!Ask(key)
      BY <2>1, <3>2, <3>3, <3>4 DEF Contract!Ask
    <3> QED
      BY <2>1, <3>5 DEF Contract!Next
  <2> QED
    BY <1>1, <2>3, <2>4 DEF Answers
<1>2. ASSUME NEW p \in Paths, NEW c \in Clients, NEW h \in Claims, AllowAny(p, c, h)
      PROVE  Contract!Next
  <2> DEFINE key == BucketKey(p, c, h)
  <2>1. key \in Keys
    BY OwnKey
  <2>2. /\ ~enabled /\ enabled' = enabled /\ levels' = levels
        /\ answer' = [key |-> key, ok |-> TRUE]
    BY <1>2 DEF AllowAny, limiter, Level, Refilled, capacity
  <2>3. Contract!Ask(key)
    BY <2>1, <2>2 DEF Contract!Ask
  <2> QED
    BY <2>1, <2>3 DEF Contract!Next
<1>3. ASSUME NEW p \in Paths, NEW c \in Clients, Observe(p, c)
      PROVE  UNCHANGED <<enabled, levels, answer>>
  BY <1>3 DEF Observe, limiter, Level, Refilled, capacity
<1>4. CASE Tick
  <2>1. \A k \in Keys : Level(k)' = Least(capacity, Level(k) + PerMinute)
    BY <1>4, TickLevel
  <2>2. Contract!Second
    BY <1>4, <2>1 DEF Tick, limiter, Contract!Second, Contract!Least, Least
  <2> QED
    BY <2>2 DEF Contract!Next
<1>5. CASE Restart
  <2>1. Contract!Restart
    BY <1>5 DEF Restart, Contract!Restart, Contract!Full, Level, capacity
  <2> QED
    BY <2>1 DEF Contract!Next
<1>6. CASE UNCHANGED vars
  BY <1>6 DEF vars, limiter, Level, Refilled, capacity
<1> QED
  BY <1>1, <1>2, <1>3, <1>4, <1>5, <1>6 DEF Next, Answers

(* Lazy filling and pruning are not noticed: the limiter implements the    *)
(* contract in which every key has a level that is never forgotten.        *)
THEOREM LimiterImplements == Spec => ImplementsContract
<1>1. TypeInv /\ TypeInv' /\ [Next]_vars =>
        [Contract!Next]_<<enabled, [k \in Keys |-> Level(k)], answer>>
  BY ContractNext
<1> QED
  BY <1>1, ContractInit, TypeInvariance, PTL DEF Spec, ImplementsContract, Contract!Spec

-----------------------------------------------------------------------------
(* Who pays.                                                               *)

(* receive, client_key: a client's allowance on a path falls only when the *)
(* client itself is granted a request there, whatever other clients send,  *)
(* claim in X-Forwarded-For or cause to be pruned.                         *)
OthersDoNotSpend ==
    [][\A p \in Paths, c \in Clients :
         Level(Own(p, c))' < Level(Own(p, c)) => \E h \in Claims : Allow(p, c, h)]_vars

(* client_key: addresses are told apart, that is there is no proxy, or its *)
(* header is read.  Behind a proxy with trust_forwarded_for off all        *)
(* clients share one bucket per path, and the property fails.              *)
ClientsToldApart == Proxied => Trust

LEMMA LevelFalls ==
    ASSUME ClientsToldApart, TypeInv, TypeInv', [Next]_vars,
           NEW p \in Paths, NEW c \in Clients,
           Level(Own(p, c))' < Level(Own(p, c))
    PROVE  \E h \in Claims : Allow(p, c, h)
<1> DEFINE k == Own(p, c)
<1>1. k \in Keys /\ Level(k) \in 0..capacity
  BY OwnKeys, LevelType
<1>2. ASSUME NEW q \in Paths, NEW d \in Clients, NEW h \in Claims, Answers(q, d, h)
      PROVE  Allow(p, c, h)
  <2>1. BucketKey(q, d, h) = Own(q, d) /\ Own(q, d) \in Keys
    BY OwnKey
  <2>2. k = Own(q, d)
    BY <1>1, <1>2, <2>1, AnswerLevel
  <2>3. q = p /\ d = c
    BY <2>2 DEF Own, ClientsToldApart
  <2>4. ~Refuse(p, c, h)
    BY <1>1, <1>2, <2>1, <2>3, AnswerLevel
  <2> QED
    BY <1>2, <2>3, <2>4 DEF Answers
<1>3. ASSUME \/ \E q \in Paths, d \in Clients, h \in Claims : AllowAny(q, d, h)
             \/ \E q \in Paths, d \in Clients : Observe(q, d)
             \/ UNCHANGED vars
      PROVE  FALSE
  <2>1. Level(k)' = Level(k)
    BY <1>3 DEF AllowAny, Observe, vars, limiter, Level, Refilled, capacity
  <2> QED
    BY <1>1, <2>1
<1>4. CASE Tick
  <2>1. Level(k)' = Least(capacity, Level(k) + PerMinute)
    BY <1>1, <1>4, TickLevel
  <2>2. Least(capacity, Level(k) + PerMinute) >= Level(k)
    BY <1>1, CapacityNat, LimiterAssumption DEF Least
  <2>3. Level(k)' >= Level(k)
    BY <2>1, <2>2
  <2>4. Level(k)' \in Int
    BY <1>1, <2>1, CapacityNat, LimiterAssumption DEF Least
  <2> QED
    BY <1>1, <2>3, <2>4
<1>5. CASE Restart
  <2>1. Level(k)' = capacity
    BY <1>1, <1>5 DEF Restart, Level, capacity
  <2> QED
    BY <1>1, <2>1, CapacityNat
<1> QED
  BY <1>2, <1>3, <1>4, <1>5 DEF Next, Answers

(* Nobody is refused because of what others have sent.                     *)
THEOREM ClientsIsolated == ASSUME ClientsToldApart PROVE Spec => OthersDoNotSpend
<1>1. TypeInv /\ TypeInv' /\ [Next]_vars =>
        \A p \in Paths, c \in Clients :
          Level(Own(p, c))' < Level(Own(p, c)) => \E h \in Claims : Allow(p, c, h)
  BY LevelFalls
<1> QED
  BY <1>1, TypeInvariance, PTL DEF Spec, OthersDoNotSpend
=============================================================================
