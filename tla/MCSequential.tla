---------------------------- MODULE MCSequential ----------------------------
(* Small instances of Sequential, and bounded inputs of TALog. *)
EXTENDS Sequential, TLC

S(v) == <<"string", v>>

UserLine  == "#uuid" :> S("u1") @@ "#time" :> S("t") @@ "#type" :> S("user_set")
               @@ "#account_id" :> S("a")
Track     == "#uuid" :> S("u2") @@ "#time" :> S("t") @@ "#type" :> S("track")
               @@ "#event_name" :> S("e") @@ "#distinct_id" :> S("d")
EventLine == "message" :> <<"encoded", Track>>

(* Lines of each kind; <<>> is not a payload. *)
MCLines == <<UserLine, EventLine, <<>>, UserLine>>

Drops(l) == [exclude |-> <<[r \in 1 .. 4 |-> IF r = l THEN "yes" ELSE "no"]>>, include |-> <<>>]
Takes(l) == [include |-> <<[r \in 1 .. 4 |-> IF r = 2 THEN "error" ELSE "no"],
                           [r \in 1 .. 4 |-> IF r = l THEN "yes" ELSE "no"]>>, exclude |-> <<>>]

(* The database may fail, the run may be stopped. *)
Failing(m) ==
  [mode |-> m, lines |-> MCLines, readable |-> 4, cap |-> 2, follow |-> FALSE, batchSize |-> 2,
   swaps |-> 0, filters |-> {NoRules}, first |-> NoRules, cancel |-> TRUE, faults |-> TRUE,
   panics |-> FALSE]

(* The source waits for more lines, and the filter is swapped. *)
Following(m) ==
  [Failing(m) EXCEPT !.follow = TRUE, !.faults = FALSE, !.swaps = 2, !.batchSize = 3,
                     !.filters = {NoRules, Drops(1), Takes(4)}, !.first = Drops(1)]

(* A line makes the processor panic. *)
Panicking(m) == [Failing(m) EXCEPT !.faults = FALSE, !.panics = TRUE]

(* The third line is too long for the source. *)
TooLong(m) == [Failing(m) EXCEPT !.readable = 2]

MCSetups ==
  UNION {{Failing(m), Following(m), Panicking(m), TooLong(m)} : m \in {"single", "batch"}}

(***************************************************************************)
(* The functions of TALog, on all objects with these values.                *)
(***************************************************************************)

Absent == <<"absent", "">>

(* The objects that have one of the values of vals under each of its keys. *)
Objects(vals) ==
  LET all == {o \in [DOMAIN vals -> UNION {vals[k] : k \in DOMAIN vals}] :
                \A k \in DOMAIN vals : o[k] \in vals[k]}
  IN  {[k \in {j \in DOMAIN o : o[j] # Absent} |-> o[k]] : o \in all}

Ids(v) == {Absent, S(""), S(v), <<"number", v>>}

Payloads1 ==
  {UserLine, Track, "#account_id" :> S("c"), "#type" :> S("track") @@ "#distinct_id" :> S("e")}

Envelopes == {Absent, S("text")} \cup {<<t, p>> : t \in {"encoded", "object"}, p \in Payloads1}

Direct ==
  LET required == Objects("#type" :> {S("user_set"), S("track"), S("other")}
                            @@ "#uuid" :> {Absent, S("u")} @@ "#time" :> {S("t"), <<"number", "t">>})
      others   == Objects("#account_id" :> Ids("a") @@ "#distinct_id" :> Ids("d"))
      props    == {<<>>, "#event_name" :> S("e"),
                   "properties" :> <<"object", "#uuid" :> S("v") @@ "properties" :> S("p")>>,
                   "properties" :> S("p") @@ "#event_name" :> S("e")}
  IN  {o @@ q @@ p : o \in required, q \in others, p \in props}

Enveloped ==
  Objects("msg" :> Envelopes @@ "log" :> Envelopes @@ "#account_id" :> Ids("b"))

ASSUME ParsingAssumption ==
  /\ RecordComplete(Direct) /\ RecordComplete(Enveloped)
  /\ RoutedByIdentity(Direct) /\ RoutedByIdentity(Enveloped)
=============================================================================
