------------------------------ MODULE MCCfgSync ------------------------------
(* Small instances of CfgSync. *)
EXTENDS CfgSync

CONSTANTS r1, r2, p1, p2

(* Calls that race, on an empty store or on one side of a filter: the other  *)
(* side, and both, are published.                                            *)
Race(b) ==
  [backend |-> b, seeds |-> {[include |-> {r1}]},
   deltas |-> {[exclude |-> {r2}], [include |-> {r2}, exclude |-> {r1}]},
   publishers |-> {p1, p2}, calls |-> 2, tampers |-> 0, deletes |-> 0, restarts |-> 1, faults |-> 1]

(* One caller at a time, and a process that is restarted while its document  *)
(* is rewritten and deleted: only how often matters.                         *)
Upheaval(b) ==
  [backend |-> b, seeds |-> {}, deltas |-> {[include |-> {r1}]},
   publishers |-> {p1}, calls |-> 2, tampers |-> 1, deletes |-> 1, restarts |-> 1, faults |-> 2]

(* An append whose document is deleted and replaced by another of the same   *)
(* version while it is under way.                                            *)
Reborn ==
  [backend |-> "poll", seeds |-> {}, deltas |-> {[include |-> {r1}]},
   publishers |-> {p1}, calls |-> 3, tampers |-> 2, deletes |-> 1, restarts |-> 0, faults |-> 0]

MCSetups == {Reborn} \cup UNION {{Race(b), Upheaval(b)} : b \in {"poll", "changestream"}}
=============================================================================
