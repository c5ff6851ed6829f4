------------------------------- MODULE Filter -------------------------------
(***************************************************************************)
(* The reporting filter (internal/parser/filter): include and exclude       *)
(* lists of compiled expressions.  An expression is what it evaluates to on *)
(* each record: "yes", "no" or "error".                                     *)
(***************************************************************************)
EXTENDS Sequences, Naturals

(* A nil *Filter and one without rules behave alike. *)
NoRules == [include |-> <<>>, exclude |-> <<>>]

Empty(f) == f.include = <<>> /\ f.exclude = <<>>

Holds(es, r) == \E i \in DOMAIN es : es[i][r] = "yes"

(* A list is evaluated up to the first expression that holds; an error       *)
(* before it is kept for the caller, and counts as a "no".                  *)
Errs(es, r) ==
  \E i \in DOMAIN es : es[i][r] = "error" /\ \A j \in 1 .. i - 1 : es[j][r] # "yes"

Included(f, r) == f.include = <<>> \/ Holds(f.include, r)

Keep(f, r) ==
  [keep |-> Included(f, r) /\ ~Holds(f.exclude, r),
   err  |-> Errs(f.include, r) \/ (Included(f, r) /\ Errs(f.exclude, r))]
=============================================================================
