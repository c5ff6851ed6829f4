----------------------------- MODULE ConfigStore -----------------------------
(***************************************************************************)
(* What cfgsync promises: one central document that publishers replace or   *)
(* add rules to, each write atomic and one version further, and a process   *)
(* whose live filter is a document that was stored, only ever a newer one,  *)
(* and never one that does not compile.                                     *)
(***************************************************************************)
EXTENDS Integers

CONSTANTS
  Rules,     (* filter rules                                                 *)
  Deltas,    (* the filters that are published                               *)
  Seeds,     (* filters that may already be stored at the start              *)
  Malformed, (* a stored filter that does not compile                        *)
  NoDoc      (* no document is stored                                        *)

(* filter: {include, exclude}; either side may be missing. *)
Filters == UNION {[S -> SUBSET Rules] : S \in SUBSET {"include", "exclude"}}

(* The union of the rules side by side; a missing side keeps the stored one. *)
Merged(stored, delta) ==
  [s \in DOMAIN stored \cup DOMAIN delta |->
     (IF s \in DOMAIN stored THEN stored[s] ELSE {})
       \cup (IF s \in DOMAIN delta THEN delta[s] ELSE {})]

(* The publishing calls see to it that a document has a filter; foreign: it   *)
(* also has a subtree off the allowlist (Registry).                          *)
Document(v, f, x) == [version |-> v, filter |-> f, foreign |-> x]

(* The static configuration: what a process runs on before it converges. *)
Baseline == Document(0, <<>>, FALSE)

Version(d) == IF d = NoDoc THEN 0 ELSE d.version

Foreign(d) == d # NoDoc /\ d.foreign

Compiles(d) == d # NoDoc /\ d.filter # Malformed

Valid(d) == Compiles(d) /\ ~Foreign(d)

(* A document that can be added to: none yet, or one that is valid. *)
Mergeable(d) == d = NoDoc \/ Valid(d)

VARIABLES
  doc,       (* the central document                                         *)
  published, (* every document that was ever stored                          *)
  live       (* the document the process runs on                             *)

vars == <<doc, published, live>>

Init ==
  /\ doc \in {NoDoc} \cup {Document(1, f, FALSE) : f \in Seeds}
  /\ published = {doc} \ {NoDoc}
  /\ live = Baseline

(* A write replaces the filter only: a foreign subtree stays where it is. *)
Store(f, x) ==
  /\ doc' = Document(Version(doc) + 1, f, x)
  /\ published' = published \cup {doc'}
  /\ UNCHANGED live

Set == \E f \in Deltas : Store(f, Foreign(doc))

Append ==
  /\ doc # NoDoc /\ Mergeable(doc)
  /\ \E f \in Deltas : Store(Merged(doc.filter, f), FALSE)

(* The document is also writable without cfgsync's checks. *)
Tamper ==
  \/ Store(Malformed, Foreign(doc))
  \/ doc # NoDoc /\ Store(doc.filter, TRUE)

Refresh ==
  /\ live' \in published
  /\ live'.version > live.version
  /\ Compiles(live')
  /\ UNCHANGED <<doc, published>>

Restart == live' = Baseline /\ UNCHANGED <<doc, published>>

Next == Set \/ Append \/ Tamper \/ Refresh \/ Restart

Spec == Init /\ [][Next]_vars
=============================================================================
