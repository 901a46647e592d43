---------------------------- MODULE EvidencePurchase ----------------------------
(***************************************************************************)
(* Buying an Evidence Pack over HTTP 402: the buyer client                 *)
(* (agent/buyer.py), the evidence handler (agent_evidence in api/app.py),  *)
(* the remote payment gateway behind agent/http_payment_gateway.py, which  *)
(* is external, and the fulfillment audit (storage/commerce.py).           *)
(*                                                                         *)
(* Evidence is known by its digest; which digest is current changes at any *)
(* time, as EvidenceContext shows, and a handler may find none to sell.    *)
(* Handlers run in threads of the server.  A buyer whose request timed out *)
(* sends it again while the first one is still being served.  Buyers meet  *)
(* nowhere but in what is current, so one of them is enough.  Gateway and  *)
(* price are settings of a server process: they change with a restart,     *)
(* which may come between the quote, the 402, the payment and its retry.   *)
(*                                                                         *)
(* A definition marked "mutant" is a wrong version of the one that follows *)
(* it and is used by nothing: replacing that one by it breaks a property.  *)
(***************************************************************************)
EXTENDS Naturals

CONSTANTS
    Digests,        \* bound: the evidence there is to buy
    Amounts,        \* what it can cost, normalized: 0.0050 is 0.005
    Terms,          \* bound: the settings the server is started with
    MaxChanges,     \* bound: changes of the evidence or the settings
    Requests,       \* bound: requests of the buyer served at the same time
    None            \* no evidence, no price, no request, no credential

ASSUME PurchaseAssumption ==
    /\ None \notin Digests /\ None \notin Amounts
    /\ Terms \subseteq [gateway : BOOLEAN, amount : Amounts \cup {None}]
    /\ None \notin [for    : [pack : Digests, amount : Amounts],
                     quoted : [pack : Digests, amount : Amounts \cup {None}]]
    /\ MaxChanges \in Nat

VARIABLES
    current,        \* digest of the current evidence; None: stale or unreadable
    terms,          \* gateway and resolved price of the running server
    changes,        \* changes of either so far
    buyer,          \* what the buyer saw, can pay for and has
    request,        \* the handler of each request, or None
    charged,        \* settlements of the gateway: what for, what was agreed to
    audited,        \* requirements in the fulfillment audit
    served          \* digests whose claims left the server, and their quote

market == <<charged, audited, served>>
vars   == <<current, terms, changes, buyer, request, market>>

Init ==
    /\ current \in Digests
    /\ buyer = [seen |-> None, credential |-> None, kept |-> None]
    /\ request = [r \in Requests |-> None]
    /\ terms \in Terms
    /\ changes = 0
    /\ charged = {} /\ audited = {} /\ served = {}

(* An ingestion, or a new expected week, changes the semantic digest. *)
EvidenceChanges ==
    /\ changes < MaxChanges /\ changes' = changes + 1
    /\ current' \in (Digests \cup {None}) \ {current}
    /\ UNCHANGED <<terms, buyer, request, market>>

(* agent_quote, which the state repeats: the amount payable over 402. *)
CommerceActive == terms.gateway /\ terms.amount # None

Quoted == IF CommerceActive THEN terms.amount ELSE None

--------------------------------------------------------------------------------
(* The buyer. *)

Waiting == \E r \in Requests : request[r] # None /\ request[r].awaited

(* poll_state; a state whose evidence cannot be bought is not pursued. *)
PollState ==
    /\ ~Waiting
    /\ current # None
    /\ buyer' = [buyer EXCEPT !.seen = current]
    /\ UNCHANGED <<current, terms, changes, request, market>>

(* fetch_evidence, with the ETag of the evidence the buyer has and with a  *)
(* credential if it obtained one for an earlier challenge.                 *)
FetchEvidence(r) ==
    /\ ~Waiting
    /\ request[r] = None
    /\ buyer.seen # None
    /\ request' = [request EXCEPT ![r] =
           [step |-> "arrived", pack |-> None, amount |-> None, etag |-> buyer.kept,
            credential |-> buyer.credential, awaited |-> TRUE]]
    /\ UNCHANGED <<current, terms, changes, buyer, market>>

(* The client's timeout; the handler goes on. *)
TimeOut(r) ==
    /\ request[r] # None
    /\ request[r].awaited
    /\ request' = [request EXCEPT ![r].awaited = FALSE]
    /\ UNCHANGED <<current, terms, changes, buyer, market>>

--------------------------------------------------------------------------------
(* The evidence handler. *)

At(r, step) == request[r] # None /\ request[r].step = step

End(r) == request' = [request EXCEPT ![r] = None]

OwnedAny(r) == request[r].etag # None                                     \* mutant
Owned(r) == request[r].etag = current

(* The endpoint's own test of gateway and price, both read once. *)
Gated == terms.gateway /\ terms.amount # None

(* current_evidence_context and build_evidence_pack: 409 without evidence, *)
(* 304 for what the buyer has, whatever the price; the claims themselves   *)
(* if nothing is to be paid, or a requirement.                             *)
BuildPack(r) ==
    /\ At(r, "arrived")
    /\ IF current = None \/ Owned(r)
       THEN End(r)
       ELSE request' = [request EXCEPT
                ![r].step   = IF Gated THEN "offered" ELSE "ready",
                ![r].pack   = current,
                ![r].amount = IF Gated THEN terms.amount ELSE None,
                ![r].etag   = None]
    /\ UNCHANGED <<current, terms, changes, buyer, market>>

(* build_payment_requirement *)
Requirement(r) == [pack |-> request[r].pack, amount |-> request[r].amount]

ExternalIdOfEvidence(q) == q.pack                                         \* mutant
ExternalId(q) == <<q.amount, q.pack>>

(* The gateway may know requirements by nothing but their external_id, as  *)
(* an idempotency store does: a credential is good for the requirement     *)
(* with the external_id of the one it was obtained for                     *)
(* ("Payment operation identity", docs/agent-pricing.md).                  *)
Authorizes(r) ==
    /\ request[r].credential # None
    /\ ExternalId(request[r].credential.for) = ExternalId(Requirement(r))

(* 402, no or another credential; the buyer obtains one for the challenge, *)
(* which the client compares neither with the digest nor with the quote it *)
(* saw in the state.  What the server quotes now is kept for the           *)
(* properties only.                                                        *)
Challenge(r) ==
    /\ At(r, "offered")
    /\ ~Authorizes(r)
    /\ buyer' = IF request[r].awaited
                THEN [buyer EXCEPT !.credential =
                        [for    |-> Requirement(r),
                         quoted |-> [pack |-> request[r].pack, amount |-> Quoted]]]
                ELSE buyer
    /\ End(r)
    /\ UNCHANGED <<current, terms, changes, market>>

(* What is charged is the requirement the credential was obtained for, or  *)
(* the one it is presented for.                                            *)
Settle(r) ==
    /\ At(r, "offered")
    /\ Authorizes(r)
    /\ \E q \in {request[r].credential.for, Requirement(r)} :
          charged' = charged \cup {[for |-> q, quoted |-> request[r].credential.quoted]}
    /\ request' = [request EXCEPT ![r].step = "settled"]
    /\ UNCHANGED <<current, terms, changes, buyer, audited, served>>

(* 402 for a good credential, 503 for a gateway that is not reached or     *)
(* errs, at the challenge or before settling.                              *)
GatewayFails(r) ==
    /\ At(r, "offered")
    /\ End(r)
    /\ UNCHANGED <<current, terms, changes, buyer, market>>

(* 503 for a lost or invalid receipt, 502 for a receipt of another         *)
(* protocol or requirement and for reserved headers, 503 for the audit:    *)
(* all of them after the gateway settled.                                  *)
FulfillmentFails(r) ==
    /\ At(r, "settled")
    /\ End(r)
    /\ UNCHANGED <<current, terms, changes, buyer, market>>

RecordNothing(r) ==                                                       \* mutant
    /\ At(r, "settled")
    /\ request' = [request EXCEPT ![r].step = "ready"]
    /\ UNCHANGED <<current, terms, changes, buyer, market>>
(* record_paid_fulfillment *)
RecordFulfillment(r) ==
    /\ At(r, "settled")
    /\ audited' = audited \cup {Requirement(r)}
    /\ request' = [request EXCEPT ![r].step = "ready"]
    /\ UNCHANGED <<current, terms, changes, buyer, charged, served>>

PackReadAgain(r) == current                                               \* mutant
Pack(r) == request[r].pack

(* expected_evidence_sha256; the client raises on any other digest. *)
Accepts(r) == buyer.seen = Pack(r)

Respond(r) ==
    /\ At(r, "ready")
    /\ served' = served \cup {[pack |-> Pack(r), amount |-> Quoted]}
    /\ buyer' = IF request[r].awaited /\ Accepts(r)
                THEN [buyer EXCEPT !.kept = Pack(r)]
                ELSE buyer
    /\ End(r)
    /\ UNCHANGED <<current, terms, changes, charged, audited>>

(* The server restarts, with the same settings or others; connections      *)
(* break, the audit is in SQLite, the gateway remembers.                   *)
Restart ==
    /\ \/ UNCHANGED <<terms, changes>>
       \/ /\ changes < MaxChanges /\ changes' = changes + 1
          /\ terms' \in Terms \ {terms}
    /\ request' = [r \in Requests |-> None]
    /\ UNCHANGED <<current, buyer, market>>

Serve(r) ==
    \/ BuildPack(r) \/ Challenge(r) \/ Settle(r) \/ GatewayFails(r)
    \/ FulfillmentFails(r) \/ RecordFulfillment(r) \/ Respond(r)

Next ==
    \/ EvidenceChanges \/ PollState \/ Restart
    \/ \E r \in Requests : FetchEvidence(r) \/ TimeOut(r) \/ Serve(r)

Spec == Init /\ [][Next]_vars

(* A buyer that keeps polling and asking, and a server, a gateway and an   *)
(* audit that do not fail for ever; answers may be late but not always.    *)
Awaited(r) == request[r] # None /\ request[r].awaited

Fairness ==
    /\ SF_vars(PollState /\ buyer'.seen # buyer.seen)
    /\ SF_vars(\E r \in Requests : FetchEvidence(r))
    /\ \A r \in Requests : WF_vars(Serve(r))
    /\ SF_vars(\E r \in Requests : Awaited(r) /\ BuildPack(r))
    /\ SF_vars(\E r \in Requests : Awaited(r) /\ Challenge(r))
    /\ SF_vars(\E r \in Requests : Awaited(r) /\ Settle(r))
    /\ SF_vars(\E r \in Requests : Awaited(r) /\ RecordFulfillment(r))
    /\ SF_vars(\E r \in Requests : Awaited(r) /\ Respond(r))

FairSpec == Spec /\ Fairness

--------------------------------------------------------------------------------
(* Properties. *)

Requirements == [pack : Digests, amount : Amounts]

Quotes == [pack : Digests, amount : Amounts \cup {None}]

Credentials == [for : Requirements, quoted : Quotes]

Steps == {"arrived", "offered", "settled", "ready"}

Handlers ==
    [step : Steps, pack : Digests \cup {None}, amount : Amounts \cup {None},
     etag : Digests \cup {None}, credential : Credentials \cup {None},
     awaited : BOOLEAN]

TypeOK ==
    /\ current \in Digests \cup {None}
    /\ terms \in Terms
    /\ changes \in 0..MaxChanges
    /\ buyer \in [seen : Digests \cup {None}, credential : Credentials \cup {None},
                  kept : Digests \cup {None}]
    /\ request \in [Requests -> Handlers \cup {None}]
    /\ charged \subseteq Credentials
    /\ audited \subseteq Requirements
    /\ served \subseteq Quotes

(* What leaves a server that quotes an amount payable over 402 was audited *)
(* before at that amount, and what was audited was paid for, at the amount *)
(* in the audit, whatever changes, fails or restarts in between            *)
(* (docs/commerce-audit.md: "an append-only local audit event for every    *)
(* paid Evidence Pack that it actually serves").                           *)
ServedIsAuditedIsPaid ==
    /\ {s \in served : s.amount # None} \subseteq audited
    /\ audited \subseteq {c.for : c \in charged}

(* The buyer is charged for no evidence, and no amount, but those it got a *)
(* 402 for from a server whose quote was that amount at the time: a price  *)
(* that changes between the quote, the 402, the payment and its retry      *)
(* never turns a credential for one amount into a charge of another        *)
(* (docs/agent-pricing.md: "must not advertise one amount and verify or    *)
(* audit another").                                                        *)
ChargedAsQuoted == \A c \in charged : c.for = c.quoted

(* Once evidence and settings stop changing, a buyer that has paid for     *)
(* that evidence gets it by asking again, though answers were lost, late   *)
(* or errors and the server restarted (docs/payment-gateways.md: "so a     *)
(* buyer can safely retry the same requirement").  If the price is another *)
(* one by then it may have to pay that too; if the evidence is, nothing    *)
(* brings back what was paid for and not served.                           *)
PaidIsReceived ==
    <>[][FALSE]_<<current, terms>> =>
        []<>(current \in {c.for.pack : c \in charged} => buyer.kept = current)
================================================================================
