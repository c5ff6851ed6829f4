----------------------------- MODULE MCIdentity -----------------------------
(* Small instances of Identity: two workers of one pod and one of another.   *)
EXTENDS Identity, TLC

CONSTANTS w1, w2, w3, podA, podB, a1, a2, d1

MCPodOf == (w1 :> podA) @@ (w2 :> podA) @@ (w3 :> podB)

(* Two accounts that meet a distinct id, in two pods, when anything may fail. *)
Rivals ==
  [workers |-> {w1, w3}, calls |-> 3, stable |-> FALSE, faults |-> TRUE,
   records |-> {<<a1, d1>>, <<a1, NoID>>, <<NoID, d1>>, <<a2, d1>>}]

(* No record carries both ids. *)
Single ==
  [workers |-> {w1, w2, w3}, calls |-> 4, stable |-> TRUE, faults |-> FALSE,
   records |-> {<<a1, NoID>>, <<NoID, d1>>}]

(* Records with the account, the distinct id, and both. *)
Mixed ==
  [workers |-> {w1, w2, w3}, calls |-> 4, stable |-> TRUE, faults |-> FALSE,
   records |-> {<<a1, d1>>, <<a1, NoID>>, <<NoID, d1>>}]

MCSetups == {Rivals, Single}
MCMixed  == {Mixed}
=============================================================================
