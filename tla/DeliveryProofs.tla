--------------------------- MODULE DeliveryProofs ---------------------------
(***************************************************************************)
(* Proofs about Delivery: where requests go and how many there are, for    *)
(* every set of names and addresses, every classification of addresses and *)
(* every configuration.                                                    *)
(***************************************************************************)
EXTENDS Delivery, TLAPS

(* What validate has established about a Destination. *)
Checked(t) ==
    /\ t.host \in Hosts
    /\ t.ip \in t.answer
    /\ t.answer # {}
    /\ AllowPrivate \/ \A ip \in t.answer : ~IsBlocked(ip)

(* Between validate and the connection, target is this hop's Destination. *)
TargetChecked ==
    pc = "connect" => Checked(target) /\ target.host = url

(* The connection in use was checked as the destination of its own URL. *)
ContactChecked ==
    contact # NoTarget => Checked(contact.to) /\ contact.url = contact.to.host

(* The loop has sent one request per iteration, and there is a second      *)
(* iteration only if redirects are followed.                               *)
HopCount ==
    /\ hop \in Nat /\ requests \in Nat
    /\ hop <= MaxRedirects + 1
    /\ requests <= IF AllowRedirects THEN MaxRedirects + 1 ELSE 1
    /\ pc = "connect" => requests + 1 = hop
    /\ pc \in {"validate", "body"} => requests = hop
    /\ pc = "validate" => hop = 0 \/ AllowRedirects
    /\ pc \in {"connect", "body"} => hop = 1 \/ AllowRedirects

NetInv == TargetChecked /\ ContactChecked /\ HopCount

LEMMA NetInvInit == Init => NetInv
  BY DeliveryAssumption DEF Init, NetInv, TargetChecked, ContactChecked, HopCount

LEMMA ValidatedChecked ==
  ASSUME NEW u, NEW t \in Validated(u)
  PROVE  Checked(t) /\ t.host = u
  BY DEF Validated, Acceptable, Checked

LEMMA NetInvNext == NetInv /\ [Next]_vars => NetInv'
<1> SUFFICES ASSUME NetInv, [Next]_vars PROVE NetInv'
  OBVIOUS
<1> USE DeliveryAssumption
        DEF NetInv, TargetChecked, ContactChecked, HopCount, request, response
<1>1. CASE QueueCheck
  BY <1>1 DEF QueueCheck
<1>2. CASE Claim
  BY <1>2 DEF Claim
<1>3. CASE Reject
  BY <1>3 DEF Reject, Return
<1>4. CASE Validate
  <2>1. Checked(target') /\ target'.host = url
    BY <1>4, ValidatedChecked DEF Validate
  <2>2. TargetChecked' /\ ContactChecked'
    BY <1>4, <2>1 DEF Validate, Checked
  <2>3. HopCount'
    BY <1>4 DEF Validate, HopsLeft
  <2> QED
    BY <2>2, <2>3
<1>5. CASE Request
  <2>1. contact'.url = url /\ contact'.to = target
    BY <1>5 DEF Request, Connections
  <2>2. Checked(target) /\ target.host = url
    BY <1>5 DEF Request
  <2>3. TargetChecked' /\ ContactChecked'
    BY <1>5, <2>1, <2>2 DEF Request, Checked
  <2>4. HopCount'
    BY <1>5 DEF Request
  <2> QED
    BY <2>3, <2>4
<1>6. CASE ReadChunk
  BY <1>6 DEF ReadChunk
<1>7. CASE NetworkError
  BY <1>7 DEF NetworkError, Return
<1>8. CASE Interrupted
  BY <1>8 DEF Interrupted
<1>9. CASE Answer
  BY <1>9 DEF Answer, Return
<1>10. CASE Redirect
  BY <1>10 DEF Redirect, Redirects, AfterRedirect
<1>11. CASE Settle
  BY <1>11 DEF Settle
<1>12. CASE ChangeDns
  BY <1>12 DEF ChangeDns
<1>13. CASE UNCHANGED vars
  BY <1>13 DEF vars
<1> QED
  BY <1>1, <1>2, <1>3, <1>4, <1>5, <1>6, <1>7, <1>8, <1>9, <1>10, <1>11,
     <1>12, <1>13 DEF Next

LEMMA NetInvariant == Spec => []NetInv
  BY NetInvInit, NetInvNext, PTL DEF Spec

(* Destination.pinned, is_blocked: whatever DNS says and whenever it       *)
(* changes, no request goes to a blocked address, or on the strength of an *)
(* answer that held one.                                                   *)
THEOREM NeverConnectsInside == Spec => []NoBlockedConnection
<1>1. NetInv => NoBlockedConnection
  BY DEF NetInv, ContactChecked, Checked, NoBlockedConnection, IsBlocked
<1> QED
  BY NetInvariant, <1>1, PTL

(* _send: every hop goes to an address that was checked for its own URL.   *)
THEOREM HopsAreChecked == Spec => []SentWhereChecked
<1>1. NetInv => SentWhereChecked
  BY DEF NetInv, ContactChecked, Checked, SentWhereChecked
<1> QED
  BY NetInvariant, <1>1, PTL

(* _send: an attempt sends at most max_redirects + 1 requests, and one     *)
(* when redirects are not followed.                                        *)
THEOREM HopsAreBounded == Spec => []HopsBounded
<1>1. NetInv => HopsBounded
  BY DEF NetInv, HopCount, HopsBounded
<1> QED
  BY NetInvariant, <1>1, PTL
-----------------------------------------------------------------------------
(* Types.                                                                  *)

LEMMA ValidatedTyped ==
  ASSUME TypeOK, NEW u, NEW t \in Validated(u)
  PROVE  t \in Targets
<1>1. u \in Hosts /\ dns[u] \in SUBSET Addresses
  BY DEF Validated, TypeOK
<1>2. PICK ip \in dns[u] : t = [host |-> u, ip |-> ip, answer |-> dns[u]]
  BY DEF Validated
<1> QED
  BY <1>1, <1>2 DEF Targets

LEMMA OutcomesTyped ==
  /\ NoOutcome \in Outcomes
  /\ \A e \in {"destination", "timeout", "transport"} : Failed(e) \in Outcomes
  /\ \A code \in Statuses \cup {0} : Answered(code) \in Outcomes
  BY DEF NoOutcome, Failed, Answered, Outcomes, Errors

(* Of a response, what is kept is all that was read until the chunk that   *)
(* crosses the limit.                                                      *)
ReadInv == kept <= MaxResponseSize /\ (truncated <=> kept # total)

(* Types, with what they need: a connection is made to a Destination.      *)
TypeInv == TypeOK /\ ReadInv /\ (pc = "connect" => target \in Targets)

LEMMA TypeInit == Init => TypeInv
<1> SUFFICES ASSUME Init PROVE TypeInv
  OBVIOUS
<1>1. url \in Urls /\ hop \in 0..(MaxRedirects + 1) /\ requests \in 0..(MaxRedirects + 1)
  BY DeliveryAssumption DEF Init, Urls
<1>2. attempt \in 0..MaxClaims /\ total \in 0..MaxBody /\ kept \in 0..MaxBody
  BY DeliveryAssumption DEF Init
<1>3. outcome \in Outcomes
  BY OutcomesTyped DEF Init
<1>4. ReadInv
  BY DeliveryAssumption DEF Init, ReadInv
<1> QED
  BY <1>1, <1>2, <1>3, <1>4 DEF Init, TypeInv, TypeOK

(* What a job is after _send has returned or raised. *)
LEMMA ReturnTyped ==
  ASSUME TypeInv, NEW a \in Outcomes, Return(a), UNCHANGED <<dns, attempt, requests>>,
         barred' \in BOOLEAN
  PROVE  TypeInv'
<1> USE DeliveryAssumption DEF Return, Urls
<1>1. (dns \in [Hosts -> SUBSET Addresses])' /\ (attempt \in 0..MaxClaims)'
  BY DEF TypeInv, TypeOK
<1>2. pc' = "settle" /\ url' \in Hosts \cup {BadUrl} /\ hop' \in 0..(MaxRedirects + 1)
  OBVIOUS
<1>3. target' = NoTarget /\ contact' = NoTarget /\ outcome' \in Outcomes
  OBVIOUS
<1>4. total' \in 0..MaxBody /\ kept' \in 0..MaxBody /\ truncated' = FALSE /\ status' = 0
  OBVIOUS
<1>5. ReadInv'
  BY DEF ReadInv
<1> QED
  BY <1>1, <1>2, <1>3, <1>4, <1>5 DEF TypeInv, TypeOK

LEMMA TypeNext == TypeInv /\ NetInv /\ [Next]_vars => TypeInv'
<1> SUFFICES ASSUME TypeInv, NetInv, [Next]_vars PROVE TypeInv'
  OBVIOUS
<1> USE DeliveryAssumption DEF request, response
<1>1. CASE QueueCheck
  BY <1>1 DEF QueueCheck, TypeInv, TypeOK, ReadInv
<1>2. CASE Claim
  BY <1>2 DEF Claim, TypeInv, TypeOK, ReadInv, Urls
<1>3. CASE Reject
  BY <1>3, ReturnTyped, OutcomesTyped DEF Reject
<1>4. CASE Validate
  <2>1. target' \in Targets
    BY <1>4, ValidatedTyped DEF Validate, TypeInv
  <2> QED
    BY <1>4, <2>1 DEF Validate, HopsLeft, TypeInv, TypeOK, ReadInv
<1>5. CASE Request
  <2>1. PICK s \in Statuses : contact' = [url |-> url, to |-> target] /\ status' = s
    BY <1>5 DEF Request, Connections
  <2>2. contact' \in [url : Urls, to : Targets]
    BY <1>5, <2>1 DEF Request, TypeInv, TypeOK
  <2>3. requests' \in 0..(MaxRedirects + 1)
    BY <1>5 DEF Request, NetInv, HopCount
  <2> QED
    BY <1>5, <2>1, <2>2, <2>3 DEF Request, TypeInv, TypeOK, ReadInv
<1>6. CASE ReadChunk
  <2>1. PICK n \in 1..(MaxBody - total) :
           /\ total' = total + n /\ kept' = Keep(n)
           /\ truncated' = (total + n > MaxResponseSize)
    BY <1>6 DEF ReadChunk
  <2>2. kept = total /\ total \in 0..MaxBody
    BY <1>6 DEF ReadChunk, TypeInv, TypeOK, ReadInv
  <2>3. total' \in 0..MaxBody /\ kept' \in 0..MaxBody /\ truncated' \in BOOLEAN
    BY <2>1, <2>2 DEF Keep
  <2>4. ReadInv'
    <3>1. CASE total + n > MaxResponseSize
      <4>1. truncated'
        BY <2>1, <3>1
      <4>2. kept' = total /\ total' = total + n /\ n \in Int /\ n > 0
        BY <2>1, <2>2, <3>1 DEF Keep
      <4>3. kept' # total'
        BY <2>2, <4>2
      <4>4. kept' <= MaxResponseSize
        BY <2>2, <4>2 DEF TypeInv, ReadInv
      <4> QED
        BY <4>1, <4>3, <4>4 DEF ReadInv
    <3>2. CASE ~(total + n > MaxResponseSize)
      <4>1. ~truncated'
        BY <2>1, <3>2
      <4>2. kept' = total' /\ kept' <= MaxResponseSize
        BY <2>1, <2>2, <3>2 DEF Keep
      <4> QED
        BY <4>1, <4>2 DEF ReadInv
    <3> QED
      BY <3>1, <3>2
  <2> QED
    BY <1>6, <2>3, <2>4 DEF ReadChunk, TypeInv, TypeOK
<1>7. CASE NetworkError
  BY <1>7, ReturnTyped, OutcomesTyped DEF NetworkError, TypeInv, TypeOK
<1>8. CASE Interrupted
  <2>1. url' \in Urls /\ hop' \in 0..(MaxRedirects + 1)
    BY <1>8 DEF Interrupted, Urls
  <2>2. total' \in 0..MaxBody /\ kept' \in 0..MaxBody /\ ReadInv'
    BY <1>8 DEF Interrupted, ReadInv
  <2> QED
    BY <1>8, <2>1, <2>2, OutcomesTyped DEF Interrupted, TypeInv, TypeOK
<1>9. CASE Answer
  <2>1. status \in Statuses \cup {0} /\ barred \in BOOLEAN
    BY DEF TypeInv, TypeOK
  <2> QED
    BY <1>9, <2>1, ReturnTyped, OutcomesTyped DEF Answer
<1>10. CASE Redirect
  <2>1. total' \in 0..MaxBody /\ kept' \in 0..MaxBody /\ ReadInv'
    BY <1>10 DEF Redirect, ReadInv
  <2> QED
    BY <1>10, <2>1 DEF Redirect, AfterRedirect, TypeInv, TypeOK
<1>11. CASE Settle
  BY <1>11 DEF Settle, TypeInv, TypeOK, ReadInv
<1>12. CASE ChangeDns
  BY <1>12 DEF ChangeDns, TypeInv, TypeOK, ReadInv
<1>13. CASE UNCHANGED vars
  BY <1>13 DEF vars, TypeInv, TypeOK, ReadInv
<1> QED
  BY <1>1, <1>2, <1>3, <1>4, <1>5, <1>6, <1>7, <1>8, <1>9, <1>10, <1>11,
     <1>12, <1>13 DEF Next

LEMMA TypeInvariant == Spec => []TypeInv
  BY TypeInit, TypeNext, NetInvariant, PTL DEF Spec

(* Delivery: every attempt stays within its types; in particular hop and   *)
(* requests within max_redirects.                                          *)
THEOREM TypeCorrect == Spec => []TypeOK
<1>1. TypeInv => TypeOK
  BY DEF TypeInv
<1> QED
  BY TypeInvariant, <1>1, PTL

(* _request: the body that is stored fits max_response_size, and is marked *)
(* as truncated exactly when something of it is missing.                   *)
THEOREM BodiesFit == Spec => []BodyWithinLimit
<1>1. TypeInv => BodyWithinLimit
  BY DEF TypeInv, ReadInv, BodyWithinLimit
<1> QED
  BY TypeInvariant, <1>1, PTL

-----------------------------------------------------------------------------
(* What follows a rejection, and what is sent.                             *)

(* After a rejection that was not lost to an interruption the job is being *)
(* settled with it, or has failed.                                         *)
BarredInv ==
    barred => pc = "failed" \/ (pc = "settle" /\ outcome = Failed("destination"))

(* execute, finish: no attempt and no request follows a rejection, whether *)
(* it is recorded or still on its way to be, unless an interruption came   *)
(* between the two.                                                        *)
THEOREM RejectedForGood == Spec => RejectionIsFinal
<1>1. Init => BarredInv
  BY DEF Init, BarredInv
<1>2. BarredInv /\ [Next]_vars => BarredInv'
  <2> SUFFICES ASSUME BarredInv, [Next]_vars PROVE BarredInv'
    OBVIOUS
  <2> USE DEF BarredInv, request, response
  <2>1. CASE Reject
    BY <2>1 DEF Reject, Return
  <2>2. CASE Settle
    BY <2>2 DEF Settle, Failed, Succeeded, Retryable
  <2>3. CASE QueueCheck \/ Claim \/ Validate \/ Request \/ ReadChunk \/ Redirect
    BY <2>3 DEF QueueCheck, Claim, Validate, Request, ReadChunk, Redirect
  <2>4. CASE NetworkError \/ Interrupted \/ Answer
    BY <2>4 DEF NetworkError, Interrupted, Answer, Return
  <2>5. CASE ChangeDns \/ UNCHANGED vars
    BY <2>5 DEF ChangeDns, vars
  <2> QED
    BY <2>1, <2>2, <2>3, <2>4, <2>5 DEF Next
<1>3. BarredInv /\ [Next]_vars
        => [barred => requests' = requests /\ attempt' = attempt]_vars
  <2> SUFFICES ASSUME BarredInv, [Next]_vars, barred
               PROVE  requests' = requests /\ attempt' = attempt
    OBVIOUS
  <2>1. ~(Claim \/ Request)
    BY DEF BarredInv, Claim, Request
  <2> QED
    BY <2>1 DEF Next, QueueCheck, Reject, Validate, ReadChunk, NetworkError, Interrupted,
                Answer, Redirect, Settle, ChangeDns, vars
<1> QED
  BY <1>1, <1>2, <1>3, PTL DEF Spec, RejectionIsFinal

-----------------------------------------------------------------------------
(* merge_headers, for any header sets: what is taken over from the         *)
(* captured request is on the list of forwarded headers and never a        *)
(* credential or a hop-by-hop header.  What the user typed is sent,        *)
(* credentials included, but for hop-by-hop headers.                       *)
LEMMA HeadersFiltered ==
  ASSUME NEW original, NEW custom, NEW h \in DOMAIN MergeHeaders(original, custom)
  PROVE  LET origin == MergeHeaders(original, custom)[h]
         IN  /\ h \notin HopByHop
             /\ origin = "captured" => /\ h \in Forwardable(original) \ custom
                                       /\ h \notin CredentialHeaders
             /\ h \in CredentialHeaders => h \in custom /\ origin = "typed"
  BY DEF MergeHeaders, Forwardable, BlockedHeaders, HopByHop, CredentialHeaders,
         ForwardNames
=============================================================================
