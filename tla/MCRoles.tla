------------------------------- MODULE MCRoles -------------------------------
(* Small instances of Roles. *)
EXTENDS Roles, TLC

Process(r, u, c) == [role |-> r, uri |-> u, cfgsync |-> c]
Upload(p, ls)    == [proc |-> p, kind |-> "upload", lines |-> ls]
Config(p)        == [proc |-> p, kind |-> "config", lines |-> {}]

(* A gateway publishes what a daemon waits for. *)
Gated ==
  [procs |-> "d" :> Process("daemon", TRUE, TRUE) @@ "g" :> Process("gateway", TRUE, FALSE),
   jobs |-> "tail" :> Upload("d", {1}) @@ "post" :> Config("g"),
   published |-> 0, faults |-> FALSE, kills |-> FALSE, leaks |-> FALSE]

(* A daemon alone, with a document or without: everything fails. *)
Alone(n, c) ==
  [procs |-> "d" :> Process("daemon", TRUE, c), jobs |-> "tail" :> Upload("d", {1, 2}),
   published |-> n, faults |-> TRUE, kills |-> TRUE, leaks |-> TRUE]

(* Two uploads and a publication at once. *)
Served ==
  [procs |-> "g" :> Process("gateway", TRUE, TRUE),
   jobs |-> "a" :> Upload("g", {1}) @@ "b" :> Upload("g", {2, 3}) @@ "post" :> Config("g"),
   published |-> 0, faults |-> TRUE, kills |-> TRUE, leaks |-> FALSE]

(* Two processes that start at once, and one of them fails. *)
Rivals ==
  [procs |-> "c" :> Process("cli", TRUE, FALSE) @@ "d" :> Process("daemon", TRUE, FALSE),
   jobs |-> "stdin" :> Upload("c", {1}) @@ "tail" :> Upload("d", {2}),
   published |-> 0, faults |-> TRUE, kills |-> TRUE, leaks |-> FALSE]

(* No database is configured. *)
Degraded ==
  [procs |-> "c" :> Process("cli", FALSE, FALSE) @@ "d" :> Process("daemon", FALSE, TRUE)
               @@ "g" :> Process("gateway", FALSE, TRUE),
   jobs |-> "stdin" :> Upload("c", {1}) @@ "a" :> Upload("g", {2}) @@ "post" :> Config("g"),
   published |-> 0, faults |-> TRUE, kills |-> FALSE, leaks |-> TRUE]

MCSetups == {Gated, Served, Rivals, Degraded} \cup {Alone(n, c) : n \in 0 .. 1, c \in BOOLEAN}
=============================================================================
