------------------------------- MODULE MCStore -------------------------------
(* Small instances of Store: two batches, and records of a user document or  *)
(* of an event document.                                                     *)
EXTENDS Store

CONSTANTS b1, b2

MCType ==
  [before |-> "user_set", set1 |-> "user_set", set3 |-> "user_set", unset |-> "user_unset",
   once |-> "user_setOnce", add |-> "user_add", push |-> "user_append",
   uniq |-> "user_uniq_append", del |-> "user_del",
   track |-> "track", update |-> "track_update", replace |-> "track_overwrite"]

MCTs ==
  [before |-> 1, set1 |-> 2, set3 |-> 4, unset |-> 5, once |-> 3, add |-> 3, push |-> 2,
   uniq |-> 4, del |-> 3, track |-> 2, update |-> 3, replace |-> 4]

MCData ==
  [before |-> {"a"}, set1 |-> {"a", "b"}, set3 |-> {"a"}, unset |-> {"b"}, once |-> {"c"},
   add |-> {"n"}, push |-> {"m"}, uniq |-> {"m"}, del |-> {},
   track |-> {"a", "b"}, update |-> {"a"}, replace |-> {"b"}]

(* The record "before" may be of either kind: both insert the same document. *)
MCRecords == DOMAIN MCType

MCWorkloads ==
  {[b \in {b1, b2} |-> IF b = b1 THEN {"set1", "add"} ELSE {"set3", "unset"}],
   [b \in {b1, b2} |-> IF b = b1 THEN {"set3", "push"} ELSE {"once", "uniq"}],
   [b \in {b1, b2} |-> IF b = b1 THEN {"add", "del"} ELSE {"set1", "set3"}],
   [b \in {b1, b2} |-> IF b = b1 THEN {"track", "replace"} ELSE {"update"}]}

(* Two workers with a record each. *)
MCTwoSets == {[b \in {b1, b2} |-> IF b = b1 THEN {"set1"} ELSE {"set3"}]}
=============================================================================
