----------------------------- MODULE MCPipeline -----------------------------
(* Small instances of Pipeline. *)
EXTENDS Pipeline

(* Three lines: two of one user, then one of another; one of them does not   *)
(* parse, and the filter discards the last, unless the dispatcher that found *)
(* every channel full is cancelled before a worker looks at it.              *)
MCUser == <<"u", "u", "v">>
MCAffinity == [u |-> 0, v |-> 1]
MCClass == <<"event", "bad", "filtered">>

(* One user, so that one batch and the channel of one worker fill up.        *)
MCOneUser == <<"u", "u", "u">>
MCUserClass == <<"user", "user", "user">>
=============================================================================
