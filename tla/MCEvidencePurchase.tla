--------------------------- MODULE MCEvidencePurchase ---------------------------
(* Two digests that replace each other, a request and its retry, and a     *)
(* server that asks one of two amounts over 402, or has no gateway.        *)
EXTENDS EvidencePurchase

CONSTANTS d1, d2, low, high

MCTerms ==
    {[gateway |-> TRUE, amount |-> low], [gateway |-> TRUE, amount |-> high],
     [gateway |-> FALSE, amount |-> low]}

(* Digests and amounts are interchangeable, so one of each comes first. *)
MCInit == Init /\ current = d1 /\ terms = [gateway |-> TRUE, amount |-> low]

MCSpec == MCInit /\ [][Next]_vars /\ Fairness
================================================================================
