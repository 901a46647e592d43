----------------------------- MODULE MCAlertOutbox -----------------------------
(* Instances of AlertOutbox for TLC. *)
EXTENDS AlertOutbox

CONSTANTS w1, w2

(* Every process under an id of its own, as default_worker_id makes it. *)
OwnIds == [w \in Workers |-> w]
================================================================================
