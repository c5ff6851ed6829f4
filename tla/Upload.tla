------------------------------- MODULE Upload -------------------------------
(***************************************************************************)
(* What an upload strategy (process.Uploader: single, batch or pipeline)    *)
(* promises about the lines of its source, whatever it does inside.  Every  *)
(* line is pending until the strategy settles it, once: it reaches a        *)
(* collection, is dropped by the filter, or is lost.  A line may be lost    *)
(* only when the run was stopped or the database fails.  A run that nobody  *)
(* stopped returns only when no line is pending.                            *)
(***************************************************************************)
CONSTANTS
  Lines,    (* the lines of the source                                       *)
  Class,    (* what each line is: "bad", "filtered", "user" or "event"       *)
  DBFaults  (* TRUE: identity lookups and bulk writes may fail               *)

VARIABLES
  fate,     (* where each line ended, "pending" while it has not             *)
  stopped,  (* the run's context was cancelled from outside                  *)
  returned  (* Run has returned                                              *)

vars == <<fate, stopped, returned>>

Fates == {"pending", "user", "event", "dead", "filtered", "lost"}

Faulty == DBFaults \/ stopped

(* A run that is stopped may lose a line of any class before it is looked at. *)
(* A record whose identity lookup fails goes to dead_letter instead.          *)
Allowed(l) ==
  (IF Class[l] = "bad" THEN {"dead"} ELSE {Class[l]})
    \cup (IF Faulty THEN {"lost"} ELSE {})
    \cup (IF Faulty /\ Class[l] # "filtered" THEN {"dead"} ELSE {})

Init ==
  /\ fate = [l \in Lines |-> "pending"]
  /\ stopped = FALSE
  /\ returned = FALSE

Settle ==
  /\ fate' \in [Lines -> Fates]
  /\ \A l \in Lines :
       fate'[l] # fate[l] => fate[l] = "pending" /\ fate'[l] \in Allowed(l)
  /\ UNCHANGED <<stopped, returned>>

Stop ==
  /\ stopped' = TRUE
  /\ UNCHANGED <<fate, returned>>

Return ==
  /\ stopped \/ \A l \in Lines : fate[l] # "pending"
  /\ returned' = TRUE
  /\ UNCHANGED <<fate, stopped>>

Next == Settle \/ Stop \/ Return

Spec == Init /\ [][Next]_vars
=============================================================================
