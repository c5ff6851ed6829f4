-------------------------- MODULE SequentialProofs --------------------------
(***************************************************************************)
(* Theorems about Sequential, for any lines, filters, batch size and        *)
(* channel, with every cancellation, failure, panic and swap of its steps.  *)
(*                                                                          *)
(* What Run answers is only true if each step moved a line and the counters *)
(* together.  The invariant says where a line can be at each place of the   *)
(* loop (BatchInv), that a counter is the number of lines it stands for,    *)
(* written or still waiting (LedgerInv), how far the counters of a line in  *)
(* hand may lag (SumInv), what a lost line leaves behind (LossInv), and     *)
(* what the loop knew when it ended (EndInv).                               *)
(***************************************************************************)
EXTENDS Sequential, FiniteSetTheorems, TLAPS

Colls   == {"user", "event", "dead"}
InHand  == pc \in {"judge", "resolve"}
Between == {"new", "select", "judge", "resolve"}

TypeInv ==
  /\ setup \in Setups
  /\ sent \in 0 .. Len(setup.lines) /\ taken \in 0 .. sent
  /\ filter \in setup.filters /\ lived \subseteq setup.filters /\ swaps \in 0 .. setup.swaps
  /\ closed \in BOOLEAN /\ cancelled \in BOOLEAN /\ failed \in BOOLEAN
  /\ pc \in {"new", "select", "judge", "resolve", "flush", "write", "returned"}
  /\ batch \in [Colls -> SUBSET Lines]
  /\ ending \in {"no", "eof", "ctx"} /\ result \in {"none", "nil", "writeError", "cancelled"}
  /\ counters \in [CounterNames -> Nat]
  /\ fate \in [Lines -> {"pending", "user", "event", "dead", "filtered", "lost"}]

(* A line waits in one batch and its fate is open; the lines that came are in *)
(* their place, in a batch, or in hand; there is room for the one in hand.   *)
BatchInv ==
  /\ \A c \in Colls : \A l \in batch[c] :
       l <= taken /\ fate[l] = "pending" /\ \A d \in Colls : l \in batch[d] => d = c
  /\ \A l \in Lines :
       /\ l > taken => fate[l] = "pending"
       /\ fate[l] = "pending" => l > taken \/ l \in Pending \/ (InHand /\ l = taken)
  /\ InHand => taken > 0 /\ taken \notin Pending /\ fate[taken] = "pending"
  /\ Cardinality(Pending) <= Threshold
  /\ pc \in Between => Cardinality(Pending) < Threshold
  /\ pc = "write" => Unwritten # {}
  /\ setup.mode = "single" => Pending \subseteq {taken}

LossInv ==
  /\ InFate("lost") # {} => failed
  /\ failed => counters["WriteErrors"] > 0
  /\ setup.mode = "single" => Cardinality(InFate("lost")) <= counters["WriteErrors"]

(* The counter of each collection. *)
Counter == [user |-> "UserWrites", event |-> "EventWrites", dead |-> "DeadLetters"]

LedgerInv ==
  ~setup.panics =>
    /\ counters["Filtered"] = Cardinality(InFate("filtered"))
    /\ ~failed => \A c \in Colls : counters[Counter[c]] = Cardinality(InFate(c) \cup batch[c])

Ends(n) == n["Filtered"] + n["UserWrites"] + n["EventWrites"] + n["DeadLetters"]

SumInv ==
  LET lag == IF InHand THEN 1 ELSE 0
  IN  /\ counters["DeadLetters"] = counters["ParseErrors"] + counters["IdentityErrors"]
      /\ counters["TotalLines"] <= Ends(counters) + lag
      /\ ~setup.panics =>
           /\ counters["TotalLines"] = Ends(counters) + lag
           /\ counters["TotalLines"] = counters["ParsedOK"] + counters["ParseErrors"]

EndInv ==
  /\ filter \in lived
  /\ closed => cancelled \/ pc = "returned" \/ sent = setup.readable
  /\ ending # "no" => pc \in {"flush", "write", "returned"}
  /\ ending = "eof" => closed /\ taken = sent /\ (cancelled \/ sent = setup.readable)
  /\ pc = "returned" => ending # "no" /\ Pending = {}
  /\ result # "none" => pc = "returned" /\ result = Returned

IInv == TypeInv /\ BatchInv /\ LossInv /\ LedgerInv /\ SumInv /\ EndInv

-----------------------------------------------------------------------------
(***************************************************************************)
(* Lines, counts and thresholds.                                            *)
(***************************************************************************)

LEMMA Runs ==
  ASSUME TypeInv
  PROVE  /\ Len(setup.lines) \in Nat /\ Lines = 1 .. Len(setup.lines)
         /\ Threshold \in Nat \ {0} /\ (setup.mode = "single" => Threshold = 1)
         /\ setup.mode \in {"single", "batch"} /\ setup.panics \in BOOLEAN
         /\ setup.first \in setup.filters /\ setup.readable \in 0 .. Len(setup.lines)
         /\ sent \in Nat /\ taken \in Nat /\ taken <= sent /\ sent <= Len(setup.lines)
<1>1. setup \in Setups
  BY DEF TypeInv
<1>2. /\ Len(setup.lines) \in Nat /\ Lines = 1 .. Len(setup.lines)
      /\ setup.mode \in {"single", "batch"} /\ setup.panics \in BOOLEAN
      /\ setup.first \in setup.filters /\ setup.readable \in 0 .. Len(setup.lines)
      /\ setup.batchSize \in Nat \ {0}
  BY <1>1, SetupsAssumption DEF Lines
<1>3. Threshold \in Nat \ {0} /\ (setup.mode = "single" => Threshold = 1)
  BY <1>2 DEF Threshold
<1>4. sent \in 0 .. Len(setup.lines) /\ taken \in 0 .. sent
  BY DEF TypeInv
<1> QED
  BY <1>2, <1>3, <1>4

(* Sets of lines are finite, and smaller than the sets that hold them. *)
LEMMA Finite ==
  ASSUME TypeInv
  PROVE  \A S \in SUBSET Lines :
           /\ IsFiniteSet(S) /\ Cardinality(S) \in Nat
           /\ \A T \in SUBSET S : Cardinality(T) <= Cardinality(S)
           /\ \A l : l \notin S => Cardinality(S \cup {l}) = Cardinality(S) + 1
           /\ \A T \in SUBSET Lines : \A l : T \subseteq S \cup {l} => Cardinality(T) <= Cardinality(S) + 1
<1>1. IsFiniteSet(Lines)
  <2>1. Lines = 1 .. Len(setup.lines) /\ 1 \in Int /\ Len(setup.lines) \in Int
    BY Runs
  <2>2. IsFiniteSet(1 .. Len(setup.lines))
    BY <2>1, FS_Interval
  <2> QED
    BY <2>1, <2>2
<1> TAKE S \in SUBSET Lines
<1>2. IsFiniteSet(S)
  BY <1>1, FS_Subset
<1>3. Cardinality(S) \in Nat
  BY <1>2, FS_CardinalityType
<1>4. \A T \in SUBSET S : Cardinality(T) <= Cardinality(S)
  BY <1>2, FS_Subset
<1>5. \A l : l \notin S => Cardinality(S \cup {l}) = Cardinality(S) + 1
  BY <1>2, FS_AddElement
<1>6. ASSUME NEW T \in SUBSET Lines, NEW l, T \subseteq S \cup {l}
      PROVE  Cardinality(T) <= Cardinality(S) + 1
  <2>1. IsFiniteSet(S \cup {l}) /\ Cardinality(S \cup {l}) <= Cardinality(S) + 1
    BY <1>2, <1>3, FS_AddElement
  <2>2. Cardinality(T) <= Cardinality(S \cup {l})
    BY <2>1, <1>6, FS_Subset
  <2>3. Cardinality(S \cup {l}) \in Nat /\ Cardinality(T) \in Nat
    BY <2>1, <1>1, <1>6, FS_Subset, FS_CardinalityType
  <2> QED
    BY <2>1, <2>2, <2>3, <1>3
<1> QED
  BY <1>2, <1>3, <1>4, <1>5, <1>6

LEMMA Counting ==
  ASSUME TypeInv, NEW names, Count(names)
  PROVE  /\ counters' \in [CounterNames -> Nat]
         /\ \A n \in CounterNames :
              counters'[n] = IF n \in names THEN counters[n] + 1 ELSE counters[n]
<1>1. counters \in [CounterNames -> Nat]
  BY DEF TypeInv
<1>2. counters' = [n \in CounterNames |-> counters[n] + IF n \in names THEN 1 ELSE 0]
  BY <1>1 DEF Count
<1> QED
  BY <1>1, <1>2

(* What is pending waits in some batch, and a batch holds lines. *)
LEMMA Waiting ==
  ASSUME TypeInv
  PROVE  /\ Pending \subseteq Lines
         /\ \A l : l \in Pending <=> \E c \in Colls : l \in batch[c]
         /\ \A c \in Colls : batch[c] \subseteq Pending
         /\ Unwritten = {} <=> Pending = {}
         /\ Unwritten # {} => NextUnwritten \in Colls /\ batch[NextUnwritten] # {}
<1>1. batch \in [Colls -> SUBSET Lines]
  BY DEF TypeInv
<1>2. /\ Pending \subseteq Lines
      /\ \A l : l \in Pending <=> \E c \in Colls : l \in batch[c]
      /\ \A c \in Colls : batch[c] \subseteq Pending
  BY <1>1 DEF Pending, Colls
<1>3. /\ DOMAIN Collections = 1 .. 3
      /\ Collections[1] = "user" /\ Collections[2] = "event" /\ Collections[3] = "dead"
  BY DEF Collections
<1>4. Unwritten = {i \in 1 .. 3 : batch[Collections[i]] # {}}
  BY <1>3 DEF Unwritten
<1>5. Unwritten = {} <=> Pending = {}
  <2>1. Unwritten = {} <=> batch["user"] = {} /\ batch["event"] = {} /\ batch["dead"] = {}
    <3>1. \A i \in 1 .. 3 : i = 1 \/ i = 2 \/ i = 3
      OBVIOUS
    <3> QED
      BY <3>1, <1>3, <1>4
  <2> QED
    BY <2>1 DEF Pending
<1>6. ASSUME Unwritten # {}
      PROVE  NextUnwritten \in Colls /\ batch[NextUnwritten] # {}
  <2>1. \E i \in Unwritten : \A j \in Unwritten : i <= j
    <3>1. PICK i \in Unwritten : TRUE
      BY <1>6
    <3>2. \A k \in Unwritten : k = 1 \/ k = 2 \/ k = 3
      BY <1>4
    <3>3. CASE 1 \in Unwritten
      BY <3>2, <3>3
    <3>4. CASE 1 \notin Unwritten /\ 2 \in Unwritten
      BY <3>2, <3>4
    <3>5. CASE 1 \notin Unwritten /\ 2 \notin Unwritten
      BY <3>1, <3>2, <3>5
    <3> QED
      BY <3>3, <3>4, <3>5
  <2> DEFINE i == CHOOSE i \in Unwritten : \A j \in Unwritten : i <= j
  <2>2. i \in Unwritten
    BY <2>1
  <2>3. NextUnwritten = Collections[i]
    BY DEF NextUnwritten
  <2> HIDE DEF i
  <2>4. i \in 1 .. 3 /\ batch[Collections[i]] # {}
    BY <2>2, <1>4
  <2>5. i = 1 \/ i = 2 \/ i = 3
    BY <2>4
  <2> QED
    BY <2>3, <2>4, <2>5, <1>3 DEF Colls
<1> QED
  BY <1>2, <1>5, <1>6

-----------------------------------------------------------------------------
(***************************************************************************)
(* A line in hand.                                                          *)
(***************************************************************************)

(* The line that is in hand, or comes. *)
Takes(l) ==
  /\ l \in Lines /\ l = taken' /\ fate[l] = "pending" /\ l \notin Pending
  /\ \/ pc = "select" /\ l = taken + 1 /\ taken' \in 0 .. sent
     \/ InHand /\ l = taken

(* What a step on a line leaves alone. *)
Aside ==
  /\ UNCHANGED <<setup, srcVars, filter, swaps, cancelled, ending, failed, result>>
  /\ lived' \subseteq setup.filters /\ filter \in lived'

(* A step that classifies a line puts it in the batch of the collection whose *)
(* counter it adds one to: the line and its count go together.               *)
LEMMA Classifying ==
  ASSUME IInv, NEW l, NEW c \in Colls, Takes(l), Classified(l, c), Aside,
         NEW names, Count(names), SumInv',
         "WriteErrors" \notin names,
         ~setup.panics => names \cap {"Filtered", "UserWrites", "EventWrites", "DeadLetters"}
                            = {Counter[c]}
  PROVE  IInv'
<1>1. /\ TypeInv /\ BatchInv /\ LossInv /\ LedgerInv /\ EndInv
      /\ UNCHANGED <<setup, sent, closed, filter, swaps, cancelled, ending, failed, result, fate>>
      /\ Lines' = Lines /\ Threshold' = Threshold
  BY DEF IInv, Aside, srcVars, Classified, Lines, Threshold
<1>2. /\ l \in Lines /\ l \notin Pending /\ fate[l] = "pending" /\ l = taken'
      /\ taken' \in 0 .. sent /\ taken' \in Nat /\ taken \in Nat
      /\ pc \in Between /\ (taken' = taken \/ taken' = taken + 1)
      /\ InHand \/ (pc = "select" /\ l = taken + 1)
  BY <1>1, Runs DEF Takes, TypeInv, InHand, Between
<1>3. /\ batch \in [Colls -> SUBSET Lines] /\ batch' = [batch EXCEPT ![c] = @ \cup {l}]
      /\ batch'[c] = batch[c] \cup {l} /\ \A d \in Colls : d # c => batch'[d] = batch[d]
      /\ batch' \in [Colls -> SUBSET Lines]
  BY <1>1, <1>2 DEF TypeInv, Classified
<1>4. Pending' = Pending \cup {l}
  BY <1>3 DEF Pending, Colls
<1>5. /\ Cardinality(Pending) \in Nat /\ Cardinality(Pending') = Cardinality(Pending) + 1
      /\ Cardinality(Pending) < Threshold /\ Threshold \in Nat
  BY <1>1, <1>2, <1>4, Finite, Waiting, Runs DEF BatchInv
<1>6. pc' = IF Cardinality(Pending) + 1 >= Threshold THEN "flush" ELSE "select"
  BY DEF Classified
<1>7. TypeInv'
  <2>1. counters' \in [CounterNames -> Nat]
    BY <1>1, Counting
  <2> QED
    BY <1>1, <1>2, <1>3, <1>6, <2>1 DEF TypeInv, Aside
<1>8. BatchInv'
  <2>1. ASSUME NEW d \in Colls, NEW m \in batch'[d]
        PROVE  /\ m <= taken' /\ fate'[m] = "pending"
               /\ \A e \in Colls : m \in batch'[e] => e = d
    <3>1. CASE m = l
      <4>1. \A e \in Colls : l \notin batch[e]
        BY <1>1, <1>2, Waiting
      <4>2. \A e \in Colls : l \in batch'[e] => e = c
        BY <4>1, <1>3
      <4>3. l <= taken' /\ fate'[l] = "pending"
        BY <1>1, <1>2
      <4> QED
        BY <3>1, <4>2, <4>3, <2>1
    <3>2. CASE m # l
      <4>1. m \in batch[d] /\ \A e \in Colls : m \in batch'[e] => m \in batch[e]
        BY <3>2, <2>1, <1>3
      <4>2. m <= taken /\ fate[m] = "pending" /\ \A e \in Colls : m \in batch[e] => e = d
        BY <4>1, <1>1 DEF BatchInv
      <4>3. m \in Nat
        BY <4>1, <1>1, <1>3, Runs
      <4> QED
        BY <4>1, <4>2, <4>3, <1>1, <1>2
    <3> QED
      BY <3>1, <3>2
  <2>2. ASSUME NEW m \in Lines
        PROVE  /\ m > taken' => fate[m] = "pending"
               /\ fate[m] = "pending" => m > taken' \/ m \in Pending'
    <3>1. m \in Nat
      BY <1>1, Runs
    <3>2. /\ m > taken => fate[m] = "pending"
          /\ fate[m] = "pending" => m > taken \/ m \in Pending \/ (InHand /\ m = taken)
      BY <1>1 DEF BatchInv
    <3>3. m > taken' => m > taken
      BY <3>1, <1>2
    <3>4. m > taken => m > taken' \/ m = l
      BY <3>1, <1>2
    <3>5. InHand => l = taken
      BY DEF Takes, InHand
    <3> QED
      BY <3>2, <3>3, <3>4, <3>5, <1>4
  <2>3. ~InHand' /\ pc' # "write"
    BY <1>6 DEF InHand
  <2>4. Cardinality(Pending') <= Threshold' /\ (pc' \in Between => Cardinality(Pending') < Threshold')
    BY <1>1, <1>5, <1>6 DEF Between
  <2>5. setup.mode = "single" => Pending' \subseteq {taken'}
    <3> SUFFICES ASSUME setup.mode = "single"
                 PROVE  Pending = {}
      BY <1>2, <1>4
    <3>1. Cardinality(Pending) = 0
      BY <1>1, <1>5, Runs
    <3> QED
      BY <3>1, <1>1, Finite, Waiting, FS_EmptySet
  <2> QED
    BY <1>1, <2>1, <2>2, <2>3, <2>4, <2>5 DEF BatchInv
<1>9. /\ \A n \in CounterNames :
           counters'[n] = IF n \in names THEN counters[n] + 1 ELSE counters[n]
      /\ \A f : InFate(f)' = InFate(f)
  BY <1>1, Counting DEF InFate
<1>10. LossInv'
  <2>1. counters'["WriteErrors"] = counters["WriteErrors"]
    BY <1>9 DEF CounterNames
  <2> QED
    BY <2>1, <1>1, <1>9 DEF LossInv
<1>11. LedgerInv'
  <2> SUFFICES ASSUME ~setup.panics
               PROVE  /\ counters'["Filtered"] = Cardinality(InFate("filtered"))
                      /\ ~failed => \A d \in Colls :
                           counters'[Counter[d]] = Cardinality(InFate(d) \cup batch'[d])
    BY <1>1, <1>9 DEF LedgerInv
  <2>1. /\ counters["Filtered"] = Cardinality(InFate("filtered"))
        /\ ~failed => \A d \in Colls : counters[Counter[d]] = Cardinality(InFate(d) \cup batch[d])
    BY <1>1 DEF LedgerInv
  <2>2. counters'["Filtered"] = counters["Filtered"]
    BY <1>9 DEF CounterNames, Counter, Colls
  <2>3. ASSUME ~failed, NEW d \in Colls
        PROVE  counters'[Counter[d]] = Cardinality(InFate(d) \cup batch'[d])
    <3>1. CASE d = c
      <4>1. counters'[Counter[d]] = counters[Counter[d]] + 1
        BY <3>1, <1>9 DEF Counter, Colls, CounterNames
      <4>2. l \notin InFate(d) \cup batch[d]
        BY <1>1, <1>2, Waiting DEF InFate, Colls
      <4>3. InFate(d) \cup batch'[d] = (InFate(d) \cup batch[d]) \cup {l}
        BY <3>1, <1>3
      <4>4. InFate(d) \cup batch[d] \in SUBSET Lines
        BY <1>3 DEF InFate
      <4>5. Cardinality(InFate(d) \cup batch'[d]) = Cardinality(InFate(d) \cup batch[d]) + 1
        BY <4>2, <4>3, <4>4, <1>1, Finite
      <4> QED
        BY <4>1, <4>5, <2>1, <2>3
    <3>2. CASE d # c
      <4>1. counters'[Counter[d]] = counters[Counter[d]]
        BY <3>2, <1>9 DEF Counter, Colls, CounterNames
      <4> QED
        BY <4>1, <3>2, <1>3, <2>1, <2>3
    <3> QED
      BY <3>1, <3>2
  <2> QED
    BY <2>1, <2>2, <2>3
<1>12. EndInv'
  <2>1. ending = "no" /\ result = "none" /\ pc # "returned"
    BY <1>1, <1>2 DEF EndInv, Between, TypeInv
  <2>2. pc' # "returned"
    BY <1>6
  <2> QED
    BY <2>1, <2>2, <1>1 DEF EndInv, Aside
<1> QED
  BY <1>7, <1>8, <1>10, <1>11, <1>12 DEF IInv

(* A line goes on to the filter or to the resolver. *)
LEMMA Advancing ==
  ASSUME IInv, NEW l, Takes(l), pc' \in {"judge", "resolve"}, UNCHANGED <<batch, fate>>, Aside,
         NEW names, Count(names), SumInv',
         names \cap {"Filtered", "UserWrites", "EventWrites", "DeadLetters", "WriteErrors"} = {}
  PROVE  IInv'
<1>1. /\ TypeInv /\ BatchInv /\ LossInv /\ LedgerInv /\ EndInv
      /\ UNCHANGED <<setup, sent, closed, filter, swaps, cancelled, ending, failed, result, fate, batch>>
      /\ Lines' = Lines /\ Threshold' = Threshold /\ Pending' = Pending
  BY DEF IInv, Aside, srcVars, Lines, Threshold, Pending
<1>2. /\ l \in Lines /\ l \notin Pending /\ fate[l] = "pending" /\ l = taken'
      /\ taken' \in 0 .. sent /\ taken' \in Nat /\ taken \in Nat
      /\ pc \in Between /\ (taken' = taken \/ taken' = taken + 1)
  BY <1>1, Runs DEF Takes, TypeInv, InHand, Between
<1>3. /\ \A n \in CounterNames :
           counters'[n] = IF n \in names THEN counters[n] + 1 ELSE counters[n]
      /\ counters' \in [CounterNames -> Nat]
      /\ \A f : InFate(f)' = InFate(f)
  BY <1>1, Counting DEF InFate
<1>4. TypeInv'
  BY <1>1, <1>2, <1>3 DEF TypeInv, Aside
<1>5. BatchInv'
  <2>1. ASSUME NEW d \in Colls, NEW m \in batch[d]
        PROVE  /\ m <= taken' /\ fate[m] = "pending" /\ \A e \in Colls : m \in batch[e] => e = d
    <3>1. m \in Nat
      BY <1>1, Runs DEF TypeInv
    <3>2. m <= taken /\ fate[m] = "pending" /\ \A e \in Colls : m \in batch[e] => e = d
      BY <1>1 DEF BatchInv
    <3> QED
      BY <3>1, <3>2, <1>2
  <2>2. ASSUME NEW m \in Lines
        PROVE  /\ m > taken' => fate[m] = "pending"
               /\ fate[m] = "pending" => m > taken' \/ m \in Pending \/ m = taken'
    <3>1. m \in Nat
      BY <1>1, Runs
    <3>2. /\ m > taken => fate[m] = "pending"
          /\ fate[m] = "pending" => m > taken \/ m \in Pending \/ (InHand /\ m = taken)
      BY <1>1 DEF BatchInv
    <3>3. InHand => l = taken
      BY DEF Takes, InHand
    <3> QED
      BY <3>1, <3>2, <3>3, <1>2
  <2>3. taken' > 0
    BY <1>1, <1>2, Runs
  <2>4. Cardinality(Pending) <= Threshold /\ Cardinality(Pending) < Threshold
    BY <1>1, <1>2 DEF BatchInv
  <2>5. setup.mode = "single" => Pending = {}
    <3>1. setup.mode = "single" => Cardinality(Pending) = 0
      BY <1>1, <2>4, Runs, Finite, Waiting
    <3> QED
      BY <3>1, <1>1, Finite, Waiting, FS_EmptySet
  <2>6. pc' # "write" /\ InHand'
    BY DEF InHand
  <2> QED
    BY <1>1, <1>2, <2>1, <2>2, <2>3, <2>4, <2>5, <2>6 DEF BatchInv
<1>6. LossInv'
  <2>1. counters'["WriteErrors"] = counters["WriteErrors"]
    BY <1>3 DEF CounterNames
  <2> QED
    BY <2>1, <1>1, <1>3 DEF LossInv
<1>7. LedgerInv'
  <2>1. /\ counters'["Filtered"] = counters["Filtered"]
        /\ \A d \in Colls : counters'[Counter[d]] = counters[Counter[d]]
    BY <1>3 DEF CounterNames, Counter, Colls
  <2> QED
    BY <2>1, <1>1, <1>3 DEF LedgerInv
<1>8. EndInv'
  <2>1. ending = "no" /\ result = "none" /\ pc # "returned"
    BY <1>1, <1>2 DEF EndInv, Between, TypeInv
  <2> QED
    BY <2>1, <1>1 DEF EndInv, Aside
<1> QED
  BY <1>4, <1>5, <1>6, <1>7, <1>8 DEF IInv

(* The filter drops a line. *)
LEMMA Discarding ==
  ASSUME IInv, NEW l, Takes(l), InHand, Discarded(l), Aside,
         NEW names, Count(names), SumInv', "Filtered" \in names,
         names \cap {"UserWrites", "EventWrites", "DeadLetters", "WriteErrors"} = {}
  PROVE  IInv'
<1>1. /\ TypeInv /\ BatchInv /\ LossInv /\ LedgerInv /\ EndInv
      /\ UNCHANGED <<setup, sent, closed, filter, swaps, cancelled, ending, failed, result, batch>>
      /\ Lines' = Lines /\ Threshold' = Threshold /\ Pending' = Pending
      /\ pc' = "select"
  BY DEF IInv, Aside, srcVars, Lines, Threshold, Pending, Discarded
<1>2. /\ l \in Lines /\ l \notin Pending /\ fate[l] = "pending" /\ l = taken' /\ l = taken
      /\ taken' \in 0 .. sent /\ taken' = taken /\ pc \in Between
  BY <1>1 DEF Takes, InHand, Between, TypeInv
<1>3. /\ fate \in [Lines -> {"pending", "user", "event", "dead", "filtered", "lost"}]
      /\ fate' = [fate EXCEPT ![l] = "filtered"]
  BY <1>1 DEF TypeInv, Discarded
<1>4. fate'[l] = "filtered" /\ \A m \in Lines : m # l => fate'[m] = fate[m]
  BY <1>2, <1>3
<1>5. /\ \A n \in CounterNames :
           counters'[n] = IF n \in names THEN counters[n] + 1 ELSE counters[n]
      /\ counters' \in [CounterNames -> Nat]
  BY <1>1, Counting
<1>6. /\ InFate("filtered")' = InFate("filtered") \cup {l} /\ l \notin InFate("filtered")
      /\ InFate("lost")' = InFate("lost")
      /\ \A d \in Colls : InFate(d)' = InFate(d)
  BY <1>1, <1>2, <1>4 DEF InFate, Colls
<1>7. TypeInv'
  BY <1>1, <1>2, <1>3, <1>5 DEF TypeInv, Aside
<1>8. BatchInv'
  <2>1. ASSUME NEW d \in Colls, NEW m \in batch[d]
        PROVE  /\ m <= taken /\ fate'[m] = "pending" /\ \A e \in Colls : m \in batch[e] => e = d
    <3>1. m \in Pending /\ m \in Lines
      BY <1>1, Waiting
    <3>2. m <= taken /\ fate[m] = "pending" /\ \A e \in Colls : m \in batch[e] => e = d
      BY <1>1 DEF BatchInv
    <3> QED
      BY <3>1, <3>2, <1>2, <1>4
  <2>2. ASSUME NEW m \in Lines
        PROVE  /\ m > taken => fate'[m] = "pending"
               /\ fate'[m] = "pending" => m > taken \/ m \in Pending
    <3>1. m \in Nat /\ taken \in Nat
      BY <1>1, Runs
    <3>2. /\ m > taken => fate[m] = "pending"
          /\ fate[m] = "pending" => m > taken \/ m \in Pending \/ (InHand /\ m = taken)
      BY <1>1 DEF BatchInv
    <3> QED
      BY <3>1, <3>2, <1>2, <1>4
  <2>3. Cardinality(Pending) <= Threshold /\ Cardinality(Pending) < Threshold
    BY <1>1, <1>2 DEF BatchInv
  <2>4. pc' # "write" /\ ~InHand'
    BY <1>1 DEF InHand
  <2>5. setup.mode = "single" => Pending \subseteq {taken}
    BY <1>1 DEF BatchInv
  <2> QED
    BY <1>1, <1>2, <2>1, <2>2, <2>3, <2>4, <2>5 DEF BatchInv
<1>9. LossInv'
  <2>1. counters'["WriteErrors"] = counters["WriteErrors"]
    BY <1>5 DEF CounterNames
  <2> QED
    BY <2>1, <1>1, <1>6 DEF LossInv
<1>10. LedgerInv'
  <2>1. /\ counters'["Filtered"] = counters["Filtered"] + 1
        /\ \A d \in Colls : counters'[Counter[d]] = counters[Counter[d]]
    BY <1>5 DEF CounterNames, Counter, Colls
  <2>2. Cardinality(InFate("filtered") \cup {l}) = Cardinality(InFate("filtered")) + 1
    BY <1>1, <1>6, Finite DEF InFate
  <2> QED
    BY <2>1, <2>2, <1>1, <1>6 DEF LedgerInv
<1>11. EndInv'
  <2>1. ending = "no" /\ result = "none" /\ pc # "returned"
    BY <1>1, <1>2 DEF EndInv, Between, TypeInv
  <2> QED
    BY <2>1, <1>1 DEF EndInv, Aside
<1> QED
  BY <1>7, <1>8, <1>9, <1>10, <1>11 DEF IInv

LEMMA ReceiveStep ==
  ASSUME IInv, Receive
  PROVE  IInv'
<1> DEFINE l == taken + 1
<1>1. /\ TypeInv /\ BatchInv /\ SumInv /\ EndInv
      /\ pc = "select" /\ taken < sent /\ taken' = l /\ lived' = {filter}
      /\ UNCHANGED <<setup, srcVars, filter, swaps, cancelled, ending, failed, result>>
  BY DEF IInv, Receive
<1>2. l \in Lines /\ l \in 1 .. sent /\ l > taken /\ taken \in Nat
  BY <1>1, Runs
<1>3. Takes(l)
  <2>1. fate[l] = "pending"
    BY <1>1, <1>2 DEF BatchInv
  <2>2. l \notin Pending
    <3> SUFFICES ASSUME l \in Pending
                 PROVE  FALSE
      OBVIOUS
    <3>1. PICK c \in Colls : l \in batch[c]
      BY <1>1, Waiting
    <3>2. l <= taken
      BY <3>1, <1>1 DEF BatchInv
    <3> QED
      BY <3>2, <1>2
  <2> QED
    BY <1>1, <1>2, <2>1, <2>2 DEF Takes
<1>4. Aside
  BY <1>1 DEF Aside, TypeInv
<1>5. counters \in [CounterNames -> Nat] /\ setup' = setup /\ ~InHand
  BY <1>1 DEF TypeInv, InHand
<1>6. CASE Count({"TotalLines", "ParseErrors", "DeadLetters"}) /\ Classified(l, "dead")
  <2> DEFINE names == {"TotalLines", "ParseErrors", "DeadLetters"}
  <2>1. \A n \in CounterNames :
          counters'[n] = IF n \in names THEN counters[n] + 1 ELSE counters[n]
    BY <1>1, <1>6, Counting
  <2>2. pc' \in {"flush", "select"}
    BY <1>6 DEF Classified
  <2>3. SumInv'
    BY <2>1, <2>2, <1>1, <1>5 DEF SumInv, Ends, InHand, CounterNames
  <2>4. names \cap {"Filtered", "UserWrites", "EventWrites", "DeadLetters"} = {Counter["dead"]}
    BY DEF Counter
  <2>5. "WriteErrors" \notin names /\ "dead" \in Colls
    BY DEF Colls
  <2> HIDE DEF names, l
  <2> QED
    BY <2>3, <2>4, <2>5, <1>3, <1>4, <1>6, Classifying DEF names
<1>7. CASE /\ Count({"TotalLines", "ParsedOK"}) /\ UNCHANGED <<batch, fate>>
           /\ pc' = IF Empty(filter) THEN "resolve" ELSE "judge"
  <2> DEFINE names == {"TotalLines", "ParsedOK"}
  <2>1. \A n \in CounterNames :
          counters'[n] = IF n \in names THEN counters[n] + 1 ELSE counters[n]
    BY <1>1, <1>7, Counting
  <2>2. pc' \in {"judge", "resolve"}
    BY <1>7
  <2>3. SumInv'
    BY <2>1, <2>2, <1>1, <1>5 DEF SumInv, Ends, InHand, CounterNames
  <2>4. names \cap {"Filtered", "UserWrites", "EventWrites", "DeadLetters", "WriteErrors"} = {}
    OBVIOUS
  <2> HIDE DEF names, l
  <2> QED
    BY <2>2, <2>3, <2>4, <1>3, <1>4, <1>7, Advancing DEF names
<1> QED
  BY <1>6, <1>7 DEF Receive

(* The line in hand is the one taken last. *)
LEMMA Held ==
  ASSUME IInv, InHand, taken' = taken
  PROVE  Takes(taken)
<1>1. /\ taken > 0 /\ taken \notin Pending /\ fate[taken] = "pending" /\ TypeInv
  BY DEF IInv, BatchInv
<1>2. taken \in Lines
  BY <1>1, Runs
<1> QED
  BY <1>1, <1>2 DEF Takes

LEMMA JudgeStep ==
  ASSUME IInv, Judge
  PROVE  IInv'
<1>1. /\ TypeInv /\ SumInv /\ EndInv /\ InHand /\ taken' = taken
      /\ UNCHANGED <<setup, srcVars, filter, swaps, cancelled, ending, failed, result, lived>>
  BY DEF IInv, Judge, InHand
<1>2. Takes(taken) /\ Aside
  BY <1>1, Held DEF Aside, TypeInv, EndInv
<1>3. counters \in [CounterNames -> Nat] /\ setup' = setup
  BY <1>1 DEF TypeInv
<1> DEFINE failing == IF Keep(filter, taken).err THEN {"FilterErrors"} ELSE {}
<1>4. failing \subseteq {"FilterErrors"}
  OBVIOUS
<1>5. \/ pc' = "resolve" /\ Count(failing) /\ UNCHANGED <<batch, fate>>
      \/ Discarded(taken) /\ Count(failing \cup {"Filtered"})
  BY DEF Judge
<1> HIDE DEF failing
<1>6. CASE pc' = "resolve" /\ Count(failing) /\ UNCHANGED <<batch, fate>>
  <2>1. \A n \in CounterNames :
          counters'[n] = IF n \in failing THEN counters[n] + 1 ELSE counters[n]
    BY <1>1, <1>6, Counting
  <2>2. SumInv'
    BY <2>1, <1>1, <1>3, <1>4, <1>6 DEF SumInv, Ends, InHand, CounterNames
  <2>3. failing \cap {"Filtered", "UserWrites", "EventWrites", "DeadLetters", "WriteErrors"} = {}
    BY <1>4
  <2> QED
    BY <2>2, <2>3, <1>2, <1>6, Advancing
<1>7. CASE Discarded(taken) /\ Count(failing \cup {"Filtered"})
  <2> DEFINE names == failing \cup {"Filtered"}
  <2>1. \A n \in CounterNames :
          counters'[n] = IF n \in names THEN counters[n] + 1 ELSE counters[n]
    BY <1>1, <1>7, Counting
  <2>2. pc' = "select"
    BY <1>7 DEF Discarded
  <2>3. SumInv'
    BY <2>1, <2>2, <1>1, <1>3, <1>4 DEF SumInv, Ends, InHand, CounterNames
  <2>4. /\ "Filtered" \in names
        /\ names \cap {"UserWrites", "EventWrites", "DeadLetters", "WriteErrors"} = {}
    BY <1>4
  <2> HIDE DEF names
  <2> QED
    BY <2>3, <2>4, <1>1, <1>2, <1>7, Discarding DEF names
<1> QED
  BY <1>5, <1>6, <1>7

(* The counter of a record is that of its collection. *)
LEMMA Recorded ==
  \A l : Category(Record(l)) \in {"user", "event"} /\ Written(l) = Counter[Category(Record(l))]
BY DEF Category, Written, Counter

LEMMA ResolveStep ==
  ASSUME IInv, Resolve
  PROVE  IInv'
<1>1. /\ TypeInv /\ SumInv /\ EndInv /\ InHand /\ taken' = taken
      /\ UNCHANGED <<setup, srcVars, filter, swaps, cancelled, ending, failed, result, lived>>
  BY DEF IInv, Resolve, InHand
<1>2. Takes(taken) /\ Aside
  BY <1>1, Held DEF Aside, TypeInv, EndInv
<1>3. counters \in [CounterNames -> Nat] /\ setup' = setup
  BY <1>1 DEF TypeInv
<1> DEFINE c == Category(Record(taken))
<1>4. CASE Classified(taken, c) /\ Count({Written(taken)})
  <2>1. c \in {"user", "event"} /\ Written(taken) = Counter[c]
    BY Recorded
  <2> HIDE DEF c
  <2>2. \A n \in CounterNames :
          counters'[n] = IF n = Counter[c] THEN counters[n] + 1 ELSE counters[n]
    BY <1>1, <1>4, <2>1, Counting
  <2>3. ~InHand'
    BY <1>4 DEF Classified, InHand
  <2>4. SumInv'
    <3>1. CASE c = "user"
      BY <3>1, <2>2, <2>3, <1>1, <1>3 DEF SumInv, Ends, CounterNames, Counter
    <3>2. CASE c = "event"
      BY <3>2, <2>2, <2>3, <1>1, <1>3 DEF SumInv, Ends, CounterNames, Counter
    <3> QED
      BY <3>1, <3>2, <2>1
  <2>5. /\ c \in Colls /\ "WriteErrors" \notin {Counter[c]}
        /\ {Counter[c]} \cap {"Filtered", "UserWrites", "EventWrites", "DeadLetters"} = {Counter[c]}
    <3>1. Counter[c] \in {"UserWrites", "EventWrites"} /\ c \in Colls
      BY <2>1 DEF Colls, Counter
    <3> QED
      BY <3>1
  <2>6. Count({Counter[c]})
    BY <1>4, <2>1
  <2> QED
    BY <2>4, <2>5, <2>6, <1>2, <1>4, Classifying
<1>5. CASE Classified(taken, "dead") /\ Count({"IdentityErrors", "DeadLetters"})
  <2> DEFINE names == {"IdentityErrors", "DeadLetters"}
  <2>1. \A n \in CounterNames :
          counters'[n] = IF n \in names THEN counters[n] + 1 ELSE counters[n]
    BY <1>1, <1>5, Counting
  <2>2. ~InHand'
    BY <1>5 DEF Classified, InHand
  <2>3. SumInv'
    BY <2>1, <2>2, <1>1, <1>3 DEF SumInv, Ends, CounterNames
  <2>4. names \cap {"Filtered", "UserWrites", "EventWrites", "DeadLetters"} = {Counter["dead"]}
    BY DEF Counter
  <2>5. "WriteErrors" \notin names /\ "dead" \in Colls
    BY DEF Colls
  <2> HIDE DEF names
  <2> QED
    BY <2>3, <2>4, <2>5, <1>2, <1>5, Classifying DEF names
<1> QED
  BY <1>4, <1>5 DEF Resolve

(* A panic may come after the line was counted as written. *)
LEMMA PanicStep ==
  ASSUME IInv, Panic
  PROVE  IInv'
<1>1. /\ TypeInv /\ SumInv /\ EndInv /\ InHand /\ taken' = taken /\ setup.panics
      /\ UNCHANGED <<setup, srcVars, filter, swaps, cancelled, ending, failed, result, lived>>
      /\ Classified(taken, "dead")
  BY DEF IInv, Panic, InHand
<1>2. Takes(taken) /\ Aside
  BY <1>1, Held DEF Aside, TypeInv, EndInv
<1>3. counters \in [CounterNames -> Nat] /\ setup' = setup
  BY <1>1 DEF TypeInv
<1>4. PICK before \in SUBSET {"UserWrites", "EventWrites"} :
        Count(before \cup {"ParseErrors", "DeadLetters"})
  <2>1. Written(taken) \in {"UserWrites", "EventWrites"}
    BY DEF Written
  <2> QED
    BY <2>1 DEF Panic
<1> DEFINE names == before \cup {"ParseErrors", "DeadLetters"}
<1>5. \A n \in CounterNames :
        counters'[n] = IF n \in names THEN counters[n] + 1 ELSE counters[n]
  BY <1>1, <1>4, Counting
<1>6. ~InHand'
  BY <1>1 DEF Classified, InHand
<1>7. SumInv'
  BY <1>5, <1>6, <1>1, <1>3 DEF SumInv, Ends, CounterNames
<1>8. "WriteErrors" \notin names /\ "dead" \in Colls
  BY DEF Colls
<1> HIDE DEF names
<1> QED
  BY <1>7, <1>8, <1>1, <1>2, <1>4, Classifying DEF names

-----------------------------------------------------------------------------
(***************************************************************************)
(* Writing a batch.                                                         *)
(***************************************************************************)

(* A batch becomes what was stored of it; only a write that failed may lose.  *)
LEMMA Writing ==
  ASSUME IInv, NEW c \in Colls, NEW stored, NEW err \in BOOLEAN, Outcome(c, stored, err),
         batch[c] \subseteq stored \/ err, pc \in {"flush", "write"}, pc' = "flush",
         UNCHANGED <<setup, srcVars, filter, swaps, cancelled, taken, ending, result, lived>>
  PROVE  IInv'
<1>1. /\ TypeInv /\ BatchInv /\ LossInv /\ LedgerInv /\ SumInv /\ EndInv
      /\ UNCHANGED <<setup, sent, closed, filter, swaps, cancelled, taken, ending, result, lived>>
      /\ Lines' = Lines /\ Threshold' = Threshold
      /\ failed' = (failed \/ err) /\ failed \in BOOLEAN
  BY DEF IInv, TypeInv, srcVars, Lines, Threshold, Outcome
<1>2. /\ batch \in [Colls -> SUBSET Lines]
      /\ fate \in [Lines -> {"pending", "user", "event", "dead", "filtered", "lost"}]
      /\ counters \in [CounterNames -> Nat]
  BY <1>1 DEF TypeInv
<1>3. /\ batch' = [batch EXCEPT ![c] = {}] /\ batch' \in [Colls -> SUBSET Lines]
      /\ batch'[c] = {} /\ \A d \in Colls : d # c => batch'[d] = batch[d]
  BY <1>2 DEF Outcome
<1>4. /\ fate' = [l \in Lines |-> IF l \notin batch[c] THEN fate[l]
                                  ELSE IF l \in stored THEN c ELSE "lost"]
      /\ \A l \in Lines : l \notin batch[c] => fate'[l] = fate[l]
      /\ \A l \in batch[c] : /\ fate[l] = "pending" /\ l \in Lines
                             /\ fate'[l] = (IF l \in stored THEN c ELSE "lost")
  BY <1>1, <1>2 DEF Outcome, BatchInv
<1>5. Pending' \subseteq Pending /\ \A l \in Pending : l \in Pending' \/ l \in batch[c]
  <2>1. \A d \in Colls : batch'[d] \subseteq batch[d]
    BY <1>3
  <2>2. \A d \in Colls : \A l \in batch[d] : l \in batch'[d] \/ l \in batch[c]
    BY <1>3
  <2> QED
    BY <2>1, <2>2 DEF Pending, Colls
<1>6. /\ counters' \in [CounterNames -> Nat]
      /\ \A n \in CounterNames :
           counters'[n] = IF err /\ n = "WriteErrors" THEN counters[n] + 1 ELSE counters[n]
  <2>1. CASE err
    BY <2>1, <1>1, Counting DEF Outcome
  <2>2. CASE ~err
    BY <2>2, <1>2 DEF Outcome
  <2> QED
    BY <2>1, <2>2
<1>7. TypeInv'
  <2>1. fate' \in [Lines -> {"pending", "user", "event", "dead", "filtered", "lost"}]
    BY <1>2, <1>4 DEF Colls
  <2> QED
    BY <2>1, <1>1, <1>3, <1>6 DEF TypeInv
<1>8. BatchInv'
  <2>1. ASSUME NEW d \in Colls, NEW m \in batch'[d]
        PROVE  /\ m <= taken /\ fate'[m] = "pending" /\ \A e \in Colls : m \in batch'[e] => e = d
    <3>1. d # c /\ m \in batch[d] /\ m \in Lines
      BY <2>1, <1>2, <1>3
    <3>2. m <= taken /\ fate[m] = "pending" /\ \A e \in Colls : m \in batch[e] => e = d
      BY <3>1, <1>1 DEF BatchInv
    <3>3. \A e \in Colls : batch'[e] \subseteq batch[e]
      BY <1>3
    <3>4. m \notin batch[c]
      BY <3>1, <3>2
    <3> QED
      BY <3>1, <3>2, <3>3, <3>4, <1>4
  <2>2. ASSUME NEW m \in Lines
        PROVE  /\ m > taken => fate'[m] = "pending"
               /\ fate'[m] = "pending" => m > taken \/ m \in Pending'
    <3>1. m \in Nat /\ taken \in Nat
      BY <1>1, Runs
    <3>2. /\ m > taken => fate[m] = "pending"
          /\ fate[m] = "pending" => m > taken \/ m \in Pending
      BY <1>1 DEF BatchInv, InHand
    <3>3. m \in batch[c] => m <= taken /\ fate'[m] # "pending"
      BY <1>1, <1>4 DEF BatchInv, Colls
    <3> QED
      BY <3>1, <3>2, <3>3, <1>4, <1>5
  <2>3. Cardinality(Pending') <= Threshold
    <3>1. Cardinality(Pending) <= Threshold
      BY <1>1 DEF BatchInv
    <3>2. /\ Cardinality(Pending') <= Cardinality(Pending)
          /\ Cardinality(Pending) \in Nat /\ Cardinality(Pending') \in Nat
      <4>1. Pending \in SUBSET Lines /\ Pending' \in SUBSET Pending /\ Pending' \in SUBSET Lines
        BY <1>1, <1>5, Waiting
      <4> QED
        BY <4>1, <1>1, Finite
    <3> QED
      BY <3>1, <3>2, <1>1, Runs
  <2>4. pc' # "write" /\ ~InHand' /\ pc' \notin Between
    BY DEF InHand, Between
  <2>5. setup.mode = "single" => Pending' \subseteq {taken}
    BY <1>1, <1>5 DEF BatchInv
  <2> QED
    BY <1>1, <2>1, <2>2, <2>3, <2>4, <2>5 DEF BatchInv
<1>9. InFate("lost") \in SUBSET Lines /\ InFate("lost")' \in SUBSET Lines
  BY <1>1 DEF InFate
<1>10. InFate("lost")' \subseteq InFate("lost") \cup batch[c] /\ (~err => InFate("lost")' = InFate("lost"))
  BY <1>1, <1>4 DEF InFate, Colls
<1>11. LossInv'
  <2>1. counters'["WriteErrors"] = IF err THEN counters["WriteErrors"] + 1 ELSE counters["WriteErrors"]
    BY <1>6 DEF CounterNames
  <2>2. counters["WriteErrors"] \in Nat
    BY <1>2 DEF CounterNames
  <2>3. InFate("lost")' # {} => failed'
    BY <1>1, <1>10 DEF LossInv
  <2>4. failed' => counters'["WriteErrors"] > 0
    BY <1>1, <2>1, <2>2 DEF LossInv
  <2>5. ASSUME setup.mode = "single"
        PROVE  Cardinality(InFate("lost")') <= counters'["WriteErrors"]
    <3>1. Cardinality(InFate("lost")) <= counters["WriteErrors"]
      BY <1>1, <2>5 DEF LossInv
    <3>2. CASE err
      <4>1. batch[c] \subseteq {taken}
        BY <1>1, <2>5, Waiting DEF BatchInv
      <4>2. InFate("lost")' \subseteq InFate("lost") \cup {taken}
        BY <4>1, <1>10
      <4>3. Cardinality(InFate("lost")') <= Cardinality(InFate("lost")) + 1
        BY <4>2, <1>1, <1>9, Finite
      <4>4. Cardinality(InFate("lost")') \in Nat /\ Cardinality(InFate("lost")) \in Nat
        BY <1>1, <1>9, Finite
      <4> QED
        BY <4>3, <4>4, <3>1, <3>2, <2>1, <2>2
    <3>3. CASE ~err
      BY <3>1, <3>3, <2>1, <1>10
    <3> QED
      BY <3>2, <3>3
  <2> QED
    BY <2>3, <2>4, <2>5, <1>1 DEF LossInv, InFate
<1>12. LedgerInv'
  <2> SUFFICES ASSUME ~setup.panics
               PROVE  /\ counters'["Filtered"] = Cardinality(InFate("filtered")')
                      /\ ~failed' => \A d \in Colls :
                           counters'[Counter[d]] = Cardinality(InFate(d)' \cup batch'[d])
    BY <1>1 DEF LedgerInv, InFate
  <2>1. /\ counters["Filtered"] = Cardinality(InFate("filtered"))
        /\ ~failed => \A d \in Colls : counters[Counter[d]] = Cardinality(InFate(d) \cup batch[d])
    BY <1>1 DEF LedgerInv
  <2>2. InFate("filtered")' = InFate("filtered")
    BY <1>1, <1>4 DEF InFate, Colls
  <2>3. /\ counters'["Filtered"] = counters["Filtered"]
        /\ \A d \in Colls : counters'[Counter[d]] = counters[Counter[d]]
    BY <1>6 DEF CounterNames, Counter, Colls
  <2>4. ASSUME ~failed', NEW d \in Colls
        PROVE  InFate(d)' \cup batch'[d] = InFate(d) \cup batch[d]
    <3>1. ~failed /\ ~err /\ batch[c] \subseteq stored
      BY <2>4, <1>1
    <3>2. \A l \in batch[c] : fate'[l] = c /\ l \in Lines /\ fate[l] = "pending"
      BY <3>1, <1>4
    <3>3. CASE d = c
      BY <3>2, <3>3, <1>1, <1>3, <1>4 DEF InFate, Colls
    <3>4. CASE d # c
      BY <3>2, <3>4, <1>1, <1>3, <1>4 DEF InFate, Colls
    <3> QED
      BY <3>3, <3>4
  <2> QED
    BY <2>1, <2>2, <2>3, <2>4, <1>1
<1>13. SumInv'
  <2>1. ~InHand /\ ~InHand'
    BY DEF InHand
  <2>2. \A n \in CounterNames : n # "WriteErrors" => counters'[n] = counters[n]
    BY <1>6
  <2> QED
    BY <2>1, <2>2, <1>1 DEF SumInv, Ends, CounterNames
<1>14. EndInv'
  <2>1. result = "none" /\ pc # "returned"
    BY <1>1 DEF EndInv, TypeInv
  <2> QED
    BY <2>1, <1>1 DEF EndInv
<1> QED
  BY <1>7, <1>8, <1>11, <1>12, <1>13, <1>14 DEF IInv

(* A step of Run that only moves on: nothing is written, and no line taken. *)
LEMMA Moving ==
  ASSUME IInv, UNCHANGED <<setup, taken, batch, failed, counters, fate>>,
         filter' \in setup.filters, lived' \subseteq setup.filters, swaps' \in 0 .. setup.swaps,
         sent' \in taken .. Len(setup.lines),
         closed' \in BOOLEAN, cancelled' \in BOOLEAN,
         pc' \in {"new", "select", "judge", "resolve", "flush", "write", "returned"},
         ending' \in {"no", "eof", "ctx"},
         result' \in {"none", "nil", "writeError", "cancelled"},
         InHand' <=> InHand,
         pc' = "write" => Unwritten # {},
         pc' \in Between => pc \in Between \/ Pending = {},
         EndInv'
  PROVE  IInv'
<1>1. /\ TypeInv /\ BatchInv /\ LossInv /\ LedgerInv /\ SumInv
      /\ Lines' = Lines /\ Threshold' = Threshold /\ Pending' = Pending /\ Unwritten' = Unwritten
      /\ \A f : InFate(f)' = InFate(f)
  BY DEF IInv, Lines, Threshold, Pending, Unwritten, InFate
<1>2. TypeInv'
  BY <1>1, Runs DEF TypeInv
<1>3. BatchInv'
  <2>1. pc' \in Between => Cardinality(Pending) < Threshold
    <3>1. CASE Pending = {}
      <4>1. Cardinality(Pending) = 0
        BY <3>1, FS_EmptySet
      <4> QED
        BY <4>1, <1>1, Runs
    <3>2. CASE pc \in Between
      BY <3>2, <1>1 DEF BatchInv
    <3> QED
      BY <3>1, <3>2
  <2> QED
    BY <2>1, <1>1 DEF BatchInv
<1>4. LossInv'
  BY <1>1 DEF LossInv
<1>5. LedgerInv'
  BY <1>1 DEF LedgerInv
<1>6. SumInv'
  BY <1>1 DEF SumInv
<1> QED
  BY <1>2, <1>3, <1>4, <1>5, <1>6 DEF IInv

LEMMA BeginWriteStep ==
  ASSUME IInv, BeginWrite
  PROVE  IInv'
<1>1. /\ TypeInv /\ EndInv /\ pc = "flush" /\ Unwritten # {}
      /\ UNCHANGED <<setup, srcVars, filter, swaps, cancelled, taken, ending, result, lived>>
      /\ NextUnwritten \in Colls
  BY Waiting DEF IInv, BeginWrite
<1>2. CASE Outcome(NextUnwritten, {}, TRUE) /\ UNCHANGED pc
  BY <1>1, <1>2, Writing
<1>3. CASE pc' = "write" /\ UNCHANGED <<fate, batch, failed, counters>>
  <2>1. EndInv'
    <3>1. result = "none" /\ result' = "none"
      BY <1>1 DEF EndInv, TypeInv
    <3> QED
      BY <3>1, <1>1, <1>3 DEF EndInv, srcVars
  <2>2. ~InHand /\ ~InHand' /\ pc' \notin Between
    BY <1>1, <1>3 DEF InHand, Between
  <2>3. sent' \in taken .. Len(setup.lines)
    BY <1>1, Runs DEF srcVars
  <2> QED
    BY <2>1, <2>2, <2>3, <1>1, <1>3, Moving DEF TypeInv, srcVars
<1> QED
  BY <1>2, <1>3 DEF BeginWrite

LEMMA EndWriteStep ==
  ASSUME IInv, EndWrite
  PROVE  IInv'
<1>1. /\ pc = "write" /\ pc' = "flush"
      /\ UNCHANGED <<setup, srcVars, filter, swaps, cancelled, taken, ending, result, lived>>
      /\ NextUnwritten \in Colls
  BY Waiting DEF IInv, BatchInv, EndWrite
<1>2. CASE Outcome(NextUnwritten, batch[NextUnwritten], FALSE)
  BY <1>1, <1>2, Writing
<1>3. CASE \E S \in SUBSET batch[NextUnwritten] : Outcome(NextUnwritten, S, TRUE)
  BY <1>1, <1>3, Writing
<1> QED
  BY <1>2, <1>3 DEF EndWrite

LEMMA FlushedStep ==
  ASSUME IInv, Flushed
  PROVE  IInv'
<1>1. /\ TypeInv /\ EndInv /\ pc = "flush" /\ Pending = {} /\ Pending' = Pending
      /\ UNCHANGED <<setup, srcVars, filter, swaps, cancelled, taken, batch, ending, failed, counters,
                     fate, lived>>
  BY Waiting DEF IInv, Flushed, Pending
<1>2. \/ ending = "no" /\ pc' = "select" /\ result' = result
      \/ ending # "no" /\ pc' = "returned" /\ result' = Returned
  BY DEF Flushed
<1>3. Returned \in {"nil", "writeError", "cancelled"} /\ Returned' = Returned
  BY <1>1 DEF Returned
<1>4. EndInv'
  <2>1. result = "none"
    BY <1>1 DEF EndInv, TypeInv
  <2> QED
    BY <2>1, <1>1, <1>2, <1>3 DEF EndInv, srcVars
<1>5. ~InHand /\ ~InHand' /\ pc' # "write"
  BY <1>1, <1>2 DEF InHand
<1>6. sent' \in taken .. Len(setup.lines)
  BY <1>1, Runs DEF srcVars
<1> QED
  BY <1>1, <1>2, <1>3, <1>4, <1>5, <1>6, Moving DEF TypeInv, srcVars

(* Run ends because there are no more lines, or its context is done. *)
LEMMA EndingStep ==
  ASSUME IInv, EndOfLines \/ ContextDone
  PROVE  IInv'
<1>1. /\ TypeInv /\ EndInv /\ pc = "select" /\ pc' = "flush" /\ Pending' = Pending
      /\ UNCHANGED <<setup, srcVars, filter, swaps, cancelled, taken, batch, failed, result, counters,
                     fate, lived>>
  BY DEF IInv, EndOfLines, ContextDone, Pending
<1>2. \/ ending' = "eof" /\ closed /\ taken = sent
      \/ ending' = "ctx"
  BY DEF EndOfLines, ContextDone
<1>3. EndInv'
  <2>1. result = "none"
    BY <1>1 DEF EndInv, TypeInv
  <2> QED
    BY <2>1, <1>1, <1>2 DEF EndInv, srcVars
<1>4. ~InHand /\ ~InHand' /\ pc' \notin Between \cup {"write"}
  BY <1>1 DEF InHand, Between
<1>5. sent' \in taken .. Len(setup.lines)
  BY <1>1, Runs DEF srcVars
<1> QED
  BY <1>1, <1>2, <1>3, <1>4, <1>5, Moving DEF TypeInv, srcVars

LEMMA RunStep ==
  ASSUME IInv, Run
  PROVE  IInv'
<1>1. /\ TypeInv /\ EndInv /\ pc = "new" /\ pc' = "select" /\ Pending' = Pending
      /\ UNCHANGED <<setup, srcVars, filter, swaps, cancelled, taken, batch, ending, failed, result,
                     counters, fate, lived>>
  BY DEF IInv, Run, Pending
<1>2. EndInv'
  <2>1. result = "none" /\ ending = "no"
    BY <1>1 DEF EndInv, TypeInv
  <2> QED
    BY <2>1, <1>1 DEF EndInv, srcVars
<1>3. ~InHand /\ ~InHand' /\ pc \in Between
  BY <1>1 DEF InHand, Between
<1>4. sent' \in taken .. Len(setup.lines)
  BY <1>1, Runs DEF srcVars
<1> QED
  BY <1>1, <1>2, <1>3, <1>4, Moving DEF TypeInv, srcVars

(* What happens around the run: the source, the swaps, the cancellation. *)
LEMMA AroundStep ==
  ASSUME IInv, SourceSend \/ SourceClose \/ SwapFilter \/ Cancel
  PROVE  IInv'
<1>1. /\ TypeInv /\ BatchInv /\ EndInv
      /\ UNCHANGED <<setup, taken, pc, batch, ending, failed, result, counters, fate>>
      /\ Pending' = Pending /\ Returned' = Returned /\ (InHand' <=> InHand)
      /\ pc' = "write" => Unwritten # {}
      /\ Len(setup.lines) \in Nat /\ sent \in Nat /\ taken \in Nat /\ taken <= sent
      /\ sent <= Len(setup.lines) /\ setup.readable \in 0 .. Len(setup.lines)
  BY Runs
  DEF IInv, BatchInv, SourceSend, SourceClose, SwapFilter, Cancel, runVars, srcVars, Pending,
      Returned, InHand
<1>2. /\ sent' \in taken .. Len(setup.lines) /\ closed' \in BOOLEAN /\ cancelled' \in BOOLEAN
      /\ filter' \in setup.filters /\ lived' \subseteq setup.filters
      /\ swaps' \in 0 .. setup.swaps
      /\ EndInv'
  <2>1. CASE SourceSend
    BY <2>1, <1>1 DEF SourceSend, runVars, TypeInv, EndInv
  <2>2. CASE SourceClose
    BY <2>2, <1>1 DEF SourceClose, runVars, TypeInv, EndInv
  <2>3. CASE SwapFilter
    <3>1. PICK f \in setup.filters \ {filter} : filter' = f /\ lived' = lived \cup {f}
      BY <2>3 DEF SwapFilter
    <3>2. swaps \in 0 .. setup.swaps /\ setup.swaps \in Nat /\ swaps < setup.swaps /\ swaps' = swaps + 1
      BY <2>3, <1>1, SetupsAssumption DEF SwapFilter, TypeInv
    <3>3. UNCHANGED <<sent, closed, cancelled>>
      BY <2>3 DEF SwapFilter, srcVars
    <3> QED
      BY <3>1, <3>2, <3>3, <1>1 DEF TypeInv, EndInv
  <2>4. CASE Cancel
    BY <2>4, <1>1 DEF Cancel, runVars, srcVars, TypeInv, EndInv
  <2> QED
    BY <2>1, <2>2, <2>3, <2>4
<1>3. /\ pc' \in {"new", "select", "judge", "resolve", "flush", "write", "returned"}
      /\ ending' \in {"no", "eof", "ctx"}
      /\ result' \in {"none", "nil", "writeError", "cancelled"}
      /\ pc' \in Between => pc \in Between
  BY <1>1 DEF TypeInv
<1> QED
  BY <1>1, <1>2, <1>3, Moving

-----------------------------------------------------------------------------
(***************************************************************************)
(* The theorems.                                                            *)
(***************************************************************************)

LEMMA Initially ==
  ASSUME Init
  PROVE  IInv
<1>1. /\ setup \in Setups /\ sent = 0 /\ closed = FALSE /\ taken = 0
      /\ filter = setup.first /\ swaps = 0 /\ lived = {setup.first} /\ cancelled = FALSE
      /\ pc = "new" /\ ending = "no" /\ failed = FALSE /\ result = "none"
      /\ batch = [c \in Colls |-> {}]
      /\ counters = [n \in CounterNames |-> 0] /\ fate = [l \in Lines |-> "pending"]
  BY DEF Init, NoBatch, Colls
<1>2. Len(setup.lines) \in Nat /\ setup.first \in setup.filters /\ setup.swaps \in Nat
  BY <1>1, SetupsAssumption
<1>3. TypeInv
  <2>1. batch \in [Colls -> SUBSET Lines]
    BY <1>1
  <2>2. counters \in [CounterNames -> Nat]
    BY <1>1
  <2>3. fate \in [Lines -> {"pending", "user", "event", "dead", "filtered", "lost"}]
    BY <1>1
  <2>4. sent \in 0 .. Len(setup.lines) /\ taken \in 0 .. sent /\ swaps \in 0 .. setup.swaps
    BY <1>1, <1>2
  <2> QED
    BY <2>1, <2>2, <2>3, <2>4, <1>1, <1>2 DEF TypeInv
<1>4. Pending = {} /\ Cardinality(Pending) = 0
  BY <1>1, FS_EmptySet DEF Pending, Colls
<1>5. \A f \in {"user", "event", "dead", "filtered", "lost"} : InFate(f) = {} /\ Cardinality(InFate(f)) = 0
  BY <1>1, FS_EmptySet DEF InFate
<1>6. BatchInv
  <2>1. \A l \in Lines : l > taken
    BY <1>1, <1>3, Runs
  <2> QED
    BY <2>1, <1>1, <1>3, <1>4, Runs DEF BatchInv, InHand, Between
<1>7. LossInv
  BY <1>1, <1>5 DEF LossInv, CounterNames
<1>8. LedgerInv
  <2>1. \A c \in Colls : InFate(c) \cup batch[c] = {} /\ Counter[c] \in CounterNames
    BY <1>1, <1>5 DEF Colls, Counter, CounterNames
  <2>2. \A c \in Colls : Cardinality(InFate(c) \cup batch[c]) = 0
    BY <2>1, FS_EmptySet
  <2> QED
    BY <2>1, <2>2, <1>1, <1>5 DEF LedgerInv, CounterNames
<1>9. SumInv
  BY <1>1 DEF SumInv, Ends, InHand, CounterNames
<1>10. EndInv
  BY <1>1 DEF EndInv
<1> QED
  BY <1>3, <1>6, <1>7, <1>8, <1>9, <1>10 DEF IInv

LEMMA Inductive ==
  ASSUME IInv, [Next]_vars
  PROVE  IInv'
<1>1. CASE Step
  BY <1>1, ReceiveStep, JudgeStep, ResolveStep, PanicStep, BeginWriteStep, EndWriteStep,
     FlushedStep, EndingStep
  DEF Step
<1>2. CASE Run \/ SourceSend \/ SourceClose \/ SwapFilter \/ Cancel
  BY <1>2, RunStep, AroundStep
<1>3. CASE UNCHANGED vars
  <2>1. UNCHANGED <<setup, sent, closed, filter, swaps, cancelled, taken, pc, batch, ending, failed,
                    result, counters, fate, lived>>
    BY <1>3 DEF vars, srcVars, runVars
  <2>2. EndInv'
    BY <2>1 DEF IInv, EndInv, Pending, Returned
  <2>3. /\ InHand' <=> InHand
        /\ pc' = "write" => Unwritten # {}
        /\ pc' \in Between => pc \in Between
    BY <2>1 DEF IInv, BatchInv, InHand
  <2>4. TypeInv /\ sent' \in taken .. Len(setup.lines)
    BY <2>1, Runs DEF IInv
  <2> QED
    BY <2>1, <2>2, <2>3, <2>4, Moving DEF TypeInv
<1> QED
  BY <1>1, <1>2, <1>3 DEF Next

LEMMA Invariant == Spec => []IInv
<1>1. Init => IInv
  BY Initially
<1>2. IInv /\ [Next]_vars => IInv'
  BY Inductive
<1> QED
  BY <1>1, <1>2, PTL DEF Spec

(* The counters add up between any two lines, and every variable keeps its    *)
(* type, no batch outgrowing the threshold.                                  *)
THEOREM CountersSum == Spec => []CountersAddUp
<1>1. IInv => CountersAddUp
  <2> SUFFICES ASSUME IInv
               PROVE  CountersAddUp
    OBVIOUS
  <2>1. TypeInv /\ Cardinality(Pending) <= Threshold /\ SumInv
    BY DEF IInv, BatchInv
  <2>2. TypeOK
    BY <2>1 DEF TypeOK, TypeInv, Colls
  <2>3. counters \in [CounterNames -> Nat]
    BY <2>1 DEF TypeInv
  <2> QED
    BY <2>1, <2>2, <2>3 DEF CountersAddUp, SumInv, Ends, InHand, CounterNames
<1> QED
  BY <1>1, Invariant, PTL

(* A line that Run took is in its place, or its loss was counted. *)
THEOREM LossesAreCounted == Spec => []LossIsCounted
<1>1. IInv => LossIsCounted
  BY DEF IInv, BatchInv, LossInv, InHand, LossIsCounted
<1> QED
  BY <1>1, Invariant, PTL

(* An answer without an error says what is in the collections, and that the   *)
(* source was written up to a line that is too long for it.                  *)
THEOREM AnswersAreTrue == Spec => []AnswerIsTrue
<1>1. IInv => AnswerIsTrue
  <2> SUFFICES ASSUME IInv, result = "nil", setup.mode = "batch"
               PROVE  /\ ~setup.panics => \A c \in {"user", "event", "dead", "filtered"} :
                           Answer[c] = Cardinality(InFate(c))
                      /\ InFate("lost") = {}
                      /\ ~cancelled => \A l \in InFate("pending") : l > setup.readable
    BY DEF AnswerIsTrue
  <2>1. TypeInv /\ BatchInv /\ LossInv /\ LedgerInv /\ EndInv
    BY DEF IInv
  <2>2. /\ pc = "returned" /\ Pending = {} /\ ~failed /\ ending = "eof"
        /\ taken = sent /\ (cancelled \/ sent = setup.readable)
    BY <2>1 DEF EndInv, Returned, TypeInv
  <2>3. ASSUME ~setup.panics
        PROVE  \A c \in {"user", "event", "dead", "filtered"} : Answer[c] = Cardinality(InFate(c))
    <3>1. \A c \in Colls : batch[c] = {}
      BY <2>1, <2>2, Waiting
    <3>2. \A c \in Colls : counters[Counter[c]] = Cardinality(InFate(c))
      BY <3>1, <2>1, <2>2, <2>3 DEF LedgerInv
    <3>3. counters["Filtered"] = Cardinality(InFate("filtered"))
      BY <2>1, <2>3 DEF LedgerInv
    <3>4. Answer = [user |-> counters["UserWrites"], event |-> counters["EventWrites"],
                    dead |-> counters["DeadLetters"], filtered |-> counters["Filtered"]]
      BY DEF Answer
    <3> QED
      BY <3>2, <3>3, <3>4 DEF Colls, Counter
  <2>4. InFate("lost") = {}
    BY <2>1, <2>2 DEF LossInv
  <2>5. ASSUME ~cancelled
        PROVE  \A l \in InFate("pending") : l > setup.readable
    <3> SUFFICES ASSUME NEW l \in Lines, fate[l] = "pending"
                 PROVE  l > setup.readable
      BY DEF InFate
    <3>1. l > taken
      BY <2>1, <2>2 DEF BatchInv, InHand
    <3> QED
      BY <3>1, <2>1, <2>2, <2>5, Runs
  <2> QED
    BY <2>3, <2>4, <2>5
<1> QED
  BY <1>1, Invariant, PTL

(* A record is kept or dropped by a filter that was live while it was         *)
(* processed, however the swaps fall between the two looks.                  *)
THEOREM VerdictsAreLive == Spec => VerdictFromLiveFilter
<1> DEFINE A == /\ pc = "judge" /\ pc' = "resolve" => \E f \in lived : Keep(f, taken).keep
                /\ pc = "select" /\ pc' = "resolve" => \E f \in lived' : Keep(f, taken').keep
                /\ \A l \in Lines : fate[l] = "pending" /\ fate'[l] = "filtered" =>
                     \E f \in lived : ~Keep(f, l).keep
<1>1. IInv /\ [Next]_vars => [A]_vars
  <2> SUFFICES ASSUME IInv, Next
               PROVE  A
    OBVIOUS
  <2>1. TypeInv /\ filter \in lived
    BY DEF IInv, EndInv
  <2>2. fate \in [Lines -> {"pending", "user", "event", "dead", "filtered", "lost"}]
    BY <2>1 DEF TypeInv
  <2>3. CASE Receive
    <3>1. pc = "select" /\ lived' = {filter} /\ fate' = fate
      BY <2>3 DEF Receive, Classified
    <3>2. pc' = "resolve" => Empty(filter)
      BY <2>3 DEF Receive, Classified
    <3>3. ASSUME Empty(filter)
          PROVE  Keep(filter, taken').keep
      <4>1. filter.include = <<>> /\ filter.exclude = <<>>
        BY <3>3 DEF Empty
      <4>2. ~Holds(filter.exclude, taken')
        BY <4>1 DEF Holds
      <4> QED
        BY <4>1, <4>2 DEF Keep, Included
    <3> QED
      BY <3>1, <3>2, <3>3
  <2>4. CASE Judge
    <3>1. /\ pc = "judge"
          /\ \/ Keep(filter, taken).keep /\ fate' = fate
             \/ ~Keep(filter, taken).keep /\ Discarded(taken)
      BY <2>4 DEF Judge
    <3>2. CASE Keep(filter, taken).keep /\ fate' = fate
      BY <2>1, <3>1, <3>2
    <3>3. CASE ~Keep(filter, taken).keep /\ Discarded(taken)
      <4>1. pc' = "select" /\ fate' = [fate EXCEPT ![taken] = "filtered"]
        BY <3>3 DEF Discarded
      <4>2. \A l \in Lines : l # taken => fate'[l] = fate[l]
        BY <4>1, <2>2
      <4> QED
        BY <4>1, <4>2, <2>1, <3>1, <3>3
    <3> QED
      BY <3>1, <3>2, <3>3
  <2>5. CASE BeginWrite \/ EndWrite
    <3>1. pc \in {"flush", "write"}
      BY <2>5 DEF BeginWrite, EndWrite
    <3>2. fate' = fate \/ \E stored, err : Outcome(NextUnwritten, stored, err)
      BY <2>5 DEF BeginWrite, EndWrite
    <3>3. NextUnwritten \in Colls
      BY <2>5, <2>1, Waiting DEF IInv, BatchInv, BeginWrite, EndWrite
    <3>4. \A l \in Lines : fate'[l] = fate[l] \/ fate'[l] \in Colls \cup {"lost"}
      BY <3>2, <3>3 DEF Outcome
    <3> QED
      BY <3>1, <3>4 DEF Colls
  <2>6. CASE Resolve \/ Panic \/ Flushed \/ EndOfLines \/ ContextDone \/ Run
    <3>1. fate' = fate /\ pc' # "resolve"
      BY <2>6 DEF Resolve, Panic, Classified, Flushed, EndOfLines, ContextDone, Run
    <3> QED
      BY <3>1
  <2>7. CASE SourceSend \/ SourceClose \/ SwapFilter \/ Cancel
    <3>1. fate' = fate /\ pc' = pc
      BY <2>7 DEF SourceSend, SourceClose, SwapFilter, Cancel, runVars
    <3> QED
      BY <3>1
  <2> QED
    BY <2>3, <2>4, <2>5, <2>6, <2>7 DEF Next, Step
<1>2. Spec => [][A]_vars
  BY <1>1, Invariant, PTL DEF Spec
<1> QED
  BY <1>2 DEF VerdictFromLiveFilter
=============================================================================
