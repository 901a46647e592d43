-------------------------- MODULE EvidencePurchaseProofs ------------------------
(***************************************************************************)
(* That claims leave the server only after their fulfillment is in the     *)
(* audit and their payment is settled, at the amount then quoted, and that *)
(* nothing is charged but what was asked at its quote, for any evidence,   *)
(* amounts, settings and number of requests of the buyer.  The invariant   *)
(* adds where each handler stands: beyond its first step it has a pack and *)
(* the amount its server quotes, a settled one was charged for that, and   *)
(* one that answers for an amount is in the audit too.                     *)
(***************************************************************************)
EXTENDS EvidencePurchase, TLAPS

Paid == {c.for : c \in charged}

(* A credential was obtained for what the server quoted. *)
Honest(credential) == credential # None => credential.for = credential.quoted

Wanted(h) == [pack |-> h.pack, amount |-> h.amount]

Sound(h, quote, paid, recorded) ==
    /\ Honest(h.credential)
    /\ h.step # "arrived" => h.pack \in Digests /\ h.amount = quote
    /\ h.step \in {"offered", "settled"} => h.amount # None
    /\ h.step = "settled" => Wanted(h) \in paid
    /\ h.step = "ready" /\ h.amount # None => Wanted(h) \in paid \cap recorded

AllSound ==
    \A r \in Requests : request[r] # None => Sound(request[r], Quoted, Paid, audited)

IInv ==
    /\ TypeOK /\ ServedIsAuditedIsPaid /\ ChargedAsQuoted
    /\ Honest(buyer.credential)
    /\ AllSound

LEMMA InitSound == Init => IInv
BY PurchaseAssumption
   DEF Init, IInv, TypeOK, AllSound, Honest, ServedIsAuditedIsPaid, ChargedAsQuoted

LEMMA HandlerType ==
    ASSUME TypeOK, NEW r \in Requests, request[r] # None
    PROVE  request[r] \in Handlers
BY DEF TypeOK

(* What the quote announces is what the endpoint's own test enforces. *)
LEMMA GatedIsQuoted == Quoted = IF Gated THEN terms.amount ELSE None
BY DEF Quoted, CommerceActive, Gated

(* An external_id names one requirement. *)
LEMMA ExternalIdIsInjective ==
    ASSUME NEW p \in Requirements, NEW q \in Requirements, ExternalId(p) = ExternalId(q)
    PROVE  p = q
BY DEF ExternalId, Requirements

(* A request that ends leaves the others sound. *)
LEMMA EndSound ==
    ASSUME TypeOK, AllSound, NEW r \in Requests, End(r),
           UNCHANGED <<terms, charged, audited>>
    PROVE  AllSound' /\ request' \in [Requests -> Handlers \cup {None}]
BY DEF TypeOK, AllSound, End, Quoted, CommerceActive, Paid

(* A handler that goes on leaves the others sound if the settings stay and *)
(* nothing leaves the two records.                                         *)
LEMMA StepSound ==
    ASSUME TypeOK, AllSound, NEW r \in Requests, NEW h \in Handlers,
           request' = [request EXCEPT ![r] = h],
           terms' = terms, charged \subseteq charged', audited \subseteq audited',
           Sound(h, Quoted', Paid', audited')
    PROVE  AllSound' /\ request' \in [Requests -> Handlers \cup {None}]
<1>1. request' \in [Requests -> Handlers \cup {None}]
  BY DEF TypeOK
<1>2. Quoted' = Quoted /\ Paid \subseteq Paid'
  BY DEF Quoted, CommerceActive, Paid
<1>3. ASSUME NEW s \in Requests, request'[s] # None
      PROVE  Sound(request'[s], Quoted', Paid', audited')
  <2>1. CASE s = r
    BY <2>1 DEF TypeOK
  <2>2. CASE s # r
    <3>1. request'[s] = request[s] /\ Sound(request[s], Quoted, Paid, audited)
      BY <1>3, <2>2 DEF TypeOK, AllSound
    <3>2. QED
      BY <1>2, <3>1 DEF Sound
  <2>3. QED
    BY <2>1, <2>2
<1>4. QED
  BY <1>1, <1>3 DEF AllSound

LEMMA NextSound == IInv /\ [Next]_vars => IInv'
<1> SUFFICES ASSUME IInv, [Next]_vars PROVE IInv'
  OBVIOUS
<1> USE PurchaseAssumption DEF IInv
<1>1. CASE UNCHANGED vars
  BY <1>1 DEF TypeOK, AllSound, Quoted, CommerceActive, Paid, Honest,
              ServedIsAuditedIsPaid, ChargedAsQuoted, vars, market
<1>2. CASE EvidenceChanges
  <2>1. current' \in Digests \cup {None} /\ changes' \in 0..MaxChanges
    BY <1>2 DEF EvidenceChanges, TypeOK
  <2>2. UNCHANGED <<terms, buyer, request, charged, audited, served>>
    BY <1>2 DEF EvidenceChanges, market
  <2>3. AllSound'
    BY <2>2 DEF AllSound, Quoted, CommerceActive, Paid
  <2>4. QED
    BY <2>1, <2>2, <2>3 DEF TypeOK, Honest, ServedIsAuditedIsPaid, ChargedAsQuoted
<1>3. CASE PollState
  <2>1. UNCHANGED <<current, terms, changes, request, charged, audited, served>>
    BY <1>3 DEF PollState, market
  <2>2. /\ buyer' \in [seen : Digests \cup {None}, credential : Credentials \cup {None},
                       kept : Digests \cup {None}]
        /\ buyer'.credential = buyer.credential
    BY <1>3 DEF PollState, TypeOK
  <2>3. AllSound'
    BY <2>1 DEF AllSound, Quoted, CommerceActive, Paid
  <2>4. QED
    BY <2>1, <2>2, <2>3 DEF TypeOK, Honest, ServedIsAuditedIsPaid, ChargedAsQuoted
<1>4. CASE Restart
  <2>1. /\ terms' \in Terms /\ changes' \in 0..MaxChanges
        /\ request' = [r \in Requests |-> None]
        /\ UNCHANGED <<current, buyer, charged, audited, served>>
    BY <1>4 DEF Restart, TypeOK, market
  <2>2. AllSound'
    BY <2>1 DEF AllSound
  <2>3. QED
    BY <2>1, <2>2 DEF TypeOK, Honest, ServedIsAuditedIsPaid, ChargedAsQuoted
<1>5. ASSUME NEW r \in Requests, FetchEvidence(r) PROVE IInv'
  <2> DEFINE h == [step |-> "arrived", pack |-> None, amount |-> None,
                   etag |-> buyer.kept, credential |-> buyer.credential, awaited |-> TRUE]
  <2>1. h \in Handlers
    BY DEF TypeOK, Handlers, Steps
  <2>2. request' = [request EXCEPT ![r] = h]
    BY <1>5 DEF FetchEvidence
  <2>3. UNCHANGED <<current, terms, changes, buyer, charged, audited, served>>
    BY <1>5 DEF FetchEvidence, market
  <2>4. Sound(h, Quoted', Paid', audited')
    BY DEF Sound
  <2>5. AllSound' /\ request' \in [Requests -> Handlers \cup {None}]
    <3> HIDE DEF h
    <3> QED
      BY <2>1, <2>2, <2>3, <2>4, StepSound
  <2>6. QED
    BY <2>3, <2>5 DEF TypeOK, Honest, ServedIsAuditedIsPaid, ChargedAsQuoted
<1>6. ASSUME NEW r \in Requests, TimeOut(r) PROVE IInv'
  <2> DEFINE h == [request[r] EXCEPT !.awaited = FALSE]
  <2>1. request[r] \in Handlers /\ Sound(request[r], Quoted, Paid, audited)
    BY <1>6, HandlerType DEF TimeOut, AllSound
  <2>2. /\ h \in Handlers /\ h.credential = request[r].credential
        /\ h.step = request[r].step /\ h.pack = request[r].pack
        /\ h.amount = request[r].amount
    BY <2>1 DEF Handlers
  <2>3. /\ request' = [request EXCEPT ![r] = h]
        /\ UNCHANGED <<current, terms, changes, buyer, charged, audited, served>>
    BY <1>6 DEF TimeOut, market
  <2>4. AllSound' /\ request' \in [Requests -> Handlers \cup {None}]
    <3> HIDE DEF h
    <3>1. Sound(h, Quoted', Paid', audited')
      BY <2>1, <2>2, <2>3 DEF Sound, Wanted, Quoted, CommerceActive, Paid
    <3>2. QED
      BY <2>2, <2>3, <3>1, StepSound
  <2>5. QED
    BY <2>3, <2>4 DEF TypeOK, Honest, ServedIsAuditedIsPaid, ChargedAsQuoted
<1>7. ASSUME NEW r \in Requests, BuildPack(r) PROVE IInv'
  <2>1. UNCHANGED <<current, terms, changes, buyer, charged, audited, served>>
    BY <1>7 DEF BuildPack, market
  <2>2. AllSound' /\ request' \in [Requests -> Handlers \cup {None}]
    <3>1. CASE current = None \/ Owned(r)
      BY <1>7, <2>1, <3>1, EndSound DEF BuildPack
    <3>2. CASE ~(current = None \/ Owned(r))
      <4> DEFINE h == [request[r] EXCEPT !.step = IF Gated THEN "offered" ELSE "ready",
                                         !.pack = current, !.amount = Quoted, !.etag = None]
      <4>1. /\ request[r] \in Handlers /\ current \in Digests
            /\ Sound(request[r], Quoted, Paid, audited)
        BY <1>7, <3>2, HandlerType DEF BuildPack, At, AllSound, TypeOK
      <4>2. /\ Quoted \in Amounts \cup {None}
            /\ Gated <=> Quoted # None
        BY GatedIsQuoted DEF TypeOK, Gated
      <4>3. /\ h \in Handlers /\ h.pack = current /\ h.amount = Quoted
            /\ h.credential = request[r].credential
            /\ h.step = IF Gated THEN "offered" ELSE "ready"
        BY <4>1, <4>2 DEF Handlers, Steps
      <4>4. request' = [request EXCEPT ![r] = h]
        BY <1>7, <3>2, <4>1, GatedIsQuoted DEF BuildPack, Handlers, TypeOK
      <4> HIDE DEF h
      <4>5. Quoted' = Quoted
        BY <2>1 DEF Quoted, CommerceActive
      <4>6. Sound(h, Quoted', Paid', audited')
        BY <4>1, <4>2, <4>3, <4>5 DEF Sound
      <4>7. QED
        BY <2>1, <4>3, <4>4, <4>6, StepSound
    <3>3. QED
      BY <3>1, <3>2
  <2>3. QED
    BY <2>1, <2>2 DEF TypeOK, Honest, ServedIsAuditedIsPaid, ChargedAsQuoted
<1>8. ASSUME NEW r \in Requests, Challenge(r) PROVE IInv'
  <2>1. /\ request[r] \in Handlers /\ request[r].pack \in Digests
        /\ request[r].amount \in Amounts /\ request[r].amount = Quoted
    BY <1>8, HandlerType DEF Challenge, At, AllSound, Sound, Handlers
  <2> DEFINE c == [for    |-> Requirement(r),
                   quoted |-> [pack |-> request[r].pack, amount |-> Quoted]]
  <2>2. c \in Credentials /\ Honest(c)
    BY <2>1 DEF Credentials, Quotes, Requirements, Requirement, Honest
  <2>3. buyer' = buyer \/ buyer' = [buyer EXCEPT !.credential = c]
    BY <1>8 DEF Challenge
  <2> HIDE DEF c
  <2>4. /\ buyer' \in [seen : Digests \cup {None}, credential : Credentials \cup {None},
                       kept : Digests \cup {None}]
        /\ Honest(buyer'.credential)
    BY <2>2, <2>3 DEF TypeOK
  <2>5. End(r) /\ UNCHANGED <<current, terms, changes, charged, audited, served>>
    BY <1>8 DEF Challenge, market
  <2>6. AllSound' /\ request' \in [Requests -> Handlers \cup {None}]
    BY <2>5, EndSound
  <2>7. QED
    BY <2>4, <2>5, <2>6 DEF TypeOK, ServedIsAuditedIsPaid, ChargedAsQuoted
<1>9. ASSUME NEW r \in Requests, GatewayFails(r) \/ FulfillmentFails(r) PROVE IInv'
  <2>1. End(r) /\ UNCHANGED <<current, terms, changes, buyer, charged, audited, served>>
    BY <1>9 DEF GatewayFails, FulfillmentFails, market
  <2>2. AllSound' /\ request' \in [Requests -> Handlers \cup {None}]
    BY <2>1, EndSound
  <2>3. QED
    BY <2>1, <2>2 DEF TypeOK, Honest, ServedIsAuditedIsPaid, ChargedAsQuoted
<1>10. ASSUME NEW r \in Requests, Settle(r) PROVE IInv'
  <2> DEFINE h == [request[r] EXCEPT !.step = "settled"]
             credential == request[r].credential
  <2>1. /\ request[r] \in Handlers /\ Sound(request[r], Quoted, Paid, audited)
        /\ request[r].step = "offered" /\ credential # None
    BY <1>10, HandlerType DEF Settle, At, AllSound, Authorizes
  <2>2. /\ credential \in Credentials /\ credential.for = credential.quoted
        /\ Requirement(r) \in Requirements
    BY <2>1 DEF Sound, Honest, Handlers, Requirement, Requirements
  <2>3. credential.for = Requirement(r)
    <3>1. credential.for \in Requirements
      BY <2>2 DEF Credentials
    <3>2. ExternalId(credential.for) = ExternalId(Requirement(r))
      BY <1>10 DEF Settle, Authorizes
    <3>3. QED
      BY <2>2, <3>1, <3>2, ExternalIdIsInjective
  <2>4. charged' = charged \cup {credential}
    <3>1. [for |-> Requirement(r), quoted |-> credential.quoted] = credential
      BY <2>2, <2>3 DEF Credentials
    <3>2. QED
      BY <1>10, <2>3, <3>1 DEF Settle
  <2>5. /\ h \in Handlers /\ h.step = "settled" /\ Wanted(h) = Requirement(r)
        /\ h.pack = request[r].pack /\ h.amount = request[r].amount
        /\ h.credential = credential
    BY <2>1 DEF Handlers, Steps, Wanted, Requirement
  <2>6. /\ request' = [request EXCEPT ![r] = h]
        /\ UNCHANGED <<current, terms, changes, buyer, audited, served>>
    BY <1>10 DEF Settle
  <2>7. Requirement(r) \in Paid' /\ Paid \subseteq Paid' /\ Quoted' = Quoted
    BY <2>3, <2>4, <2>6 DEF Paid, Quoted, CommerceActive
  <2>8. AllSound' /\ request' \in [Requests -> Handlers \cup {None}]
    <3> HIDE DEF h, credential
    <3>1. Sound(h, Quoted', Paid', audited')
      BY <2>1, <2>2, <2>5, <2>7 DEF Sound, Honest
    <3>2. QED
      BY <2>4, <2>5, <2>6, <3>1, StepSound
  <2>9. ServedIsAuditedIsPaid' /\ ChargedAsQuoted'
    BY <2>2, <2>4, <2>6 DEF ServedIsAuditedIsPaid, ChargedAsQuoted
  <2>10. QED
    BY <2>2, <2>4, <2>6, <2>8, <2>9 DEF TypeOK, Honest
<1>11. ASSUME NEW r \in Requests, RecordFulfillment(r) PROVE IInv'
  <2> DEFINE h == [request[r] EXCEPT !.step = "ready"]
  <2>1. /\ request[r] \in Handlers /\ Sound(request[r], Quoted, Paid, audited)
        /\ request[r].step = "settled"
    BY <1>11, HandlerType DEF RecordFulfillment, At, AllSound
  <2>2. Requirement(r) \in Requirements /\ Requirement(r) \in Paid
    BY <2>1 DEF Sound, Wanted, Requirement, Requirements, Handlers
  <2>3. /\ h \in Handlers /\ h.step = "ready" /\ Wanted(h) = Requirement(r)
        /\ h.pack = request[r].pack /\ h.amount = request[r].amount
        /\ h.credential = request[r].credential
    BY <2>1 DEF Handlers, Steps, Wanted, Requirement
  <2>4. /\ request' = [request EXCEPT ![r] = h]
        /\ audited' = audited \cup {Requirement(r)}
        /\ UNCHANGED <<current, terms, changes, buyer, charged, served>>
    BY <1>11 DEF RecordFulfillment
  <2>5. Paid' = Paid /\ Quoted' = Quoted
    BY <2>4 DEF Paid, Quoted, CommerceActive
  <2>6. AllSound' /\ request' \in [Requests -> Handlers \cup {None}]
    <3> HIDE DEF h
    <3>1. Sound(h, Quoted', Paid', audited')
      BY <2>1, <2>2, <2>3, <2>4, <2>5 DEF Sound
    <3>2. QED
      BY <2>3, <2>4, <3>1, StepSound
  <2>7. ServedIsAuditedIsPaid'
    BY <2>2, <2>4 DEF ServedIsAuditedIsPaid, Paid
  <2>8. QED
    BY <2>2, <2>4, <2>6, <2>7 DEF TypeOK, Honest, ChargedAsQuoted
<1>12. ASSUME NEW r \in Requests, Respond(r) PROVE IInv'
  <2> DEFINE s == [pack |-> request[r].pack, amount |-> Quoted]
  <2>1. /\ request[r] \in Handlers /\ Sound(request[r], Quoted, Paid, audited)
        /\ request[r].step = "ready"
    BY <1>12, HandlerType DEF Respond, At, AllSound
  <2>2. request[r].pack \in Digests /\ request[r].amount = Quoted
    BY <2>1 DEF Sound
  <2>3. s \in Quotes /\ (s.amount # None => s \in audited)
    BY <2>1, <2>2 DEF Sound, Wanted, Quotes, Handlers
  <2>4. /\ buyer' \in [seen : Digests \cup {None}, credential : Credentials \cup {None},
                       kept : Digests \cup {None}]
        /\ buyer'.credential = buyer.credential
    BY <1>12, <2>2 DEF Respond, Pack, TypeOK
  <2>5. /\ served' = served \cup {s}
        /\ End(r) /\ UNCHANGED <<current, terms, changes, charged, audited>>
    BY <1>12 DEF Respond, Pack
  <2> HIDE DEF s
  <2>6. AllSound' /\ request' \in [Requests -> Handlers \cup {None}]
    BY <2>5, EndSound
  <2>7. ServedIsAuditedIsPaid'
    BY <2>3, <2>5 DEF ServedIsAuditedIsPaid
  <2>8. QED
    BY <2>3, <2>4, <2>5, <2>6, <2>7 DEF TypeOK, Honest, ChargedAsQuoted
<1>13. QED
  BY <1>1, <1>2, <1>3, <1>4, <1>5, <1>6, <1>7, <1>8, <1>9, <1>10, <1>11, <1>12
     DEF Next, Serve

(* Nothing is served by a server that quotes an amount unless it is        *)
(* audited at that amount, and nothing audited that is not settled at it,  *)
(* whatever changes, times out, fails or restarts in between               *)
(* (docs/commerce-audit.md, "Fulfillment invariant").                      *)
THEOREM PaidBeforeServed == Spec => []ServedIsAuditedIsPaid
<1>1. IInv => ServedIsAuditedIsPaid
  BY DEF IInv
<1>2. QED
  BY InitSound, NextSound, <1>1, PTL DEF Spec

(* The gateway, though it may know requirements by their external_id only, *)
(* charges what was asked at the quote of the 402 and nothing else, for    *)
(* any restarts with any prices between 402, payment and retry             *)
(* (docs/agent-pricing.md, "Payment operation identity").                  *)
THEOREM ChargesAreAsQuoted == Spec => []ChargedAsQuoted
<1>1. IInv => ChargedAsQuoted
  BY DEF IInv
<1>2. QED
  BY InitSound, NextSound, <1>1, PTL DEF Spec

(* The market, the buyer and the handlers stay in their ranges: no pack    *)
(* is None once it is offered, charged, audited or served, and no amount   *)
(* once it is charged or audited.                                          *)
THEOREM PurchaseTypeCorrect == Spec => []TypeOK
<1>1. IInv => TypeOK
  BY DEF IInv
<1>2. QED
  BY InitSound, NextSound, <1>1, PTL DEF Spec
================================================================================
