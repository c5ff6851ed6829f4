----------------------------- MODULE Sequential -----------------------------
(***************************************************************************)
(* The synchronous upload strategies (internal/process: single, batch) with *)
(* the line processor they share (core.Processor), in one call of           *)
(* Engine.Run: a goroutine takes lines from the source, parses, filters and *)
(* resolves each, and writes single models at once or batches of them, while*)
(* the source sends, the filter is swapped and the run may be cancelled.    *)
(***************************************************************************)
EXTENDS Integers, FiniteSets, Sequences, TALog, Filter

CONSTANT
  Setups  (* the runs to start: the mode; lines, a sequence of JSON objects; *)
          (* readable, how many come before one that is too long for the     *)
          (* source (all, if none is); cap, the size of its channel; follow, *)
          (* TRUE if it waits for more lines; batchSize; filters, the filters    *)
          (* that may be live, of which first is at the start; bounds on the *)
          (* swaps; cancel, faults, panics: TRUE if they may happen          *)

ASSUME SetupsAssumption ==
  \A s \in Setups :
    /\ s.mode \in {"single", "batch"}
    /\ Len(s.lines) \in Nat /\ DOMAIN s.lines = 1 .. Len(s.lines)
    /\ s.readable \in 0 .. Len(s.lines)
    /\ s.cap \in Nat \ {0} /\ s.batchSize \in Nat \ {0} /\ s.swaps \in Nat
    /\ s.first \in s.filters
    /\ {s.follow, s.cancel, s.faults, s.panics} \subseteq BOOLEAN

VARIABLES
  setup,     (* the run, fixed at the start                                  *)
  sent,      (* lines the source has sent                                    *)
  closed,    (* its channel is closed                                        *)
  taken,     (* lines Run has received                                       *)
  filter,    (* the live filter                                              *)
  swaps,     (* how often it was swapped                                     *)
  cancelled, (* the context of the run is done                               *)
  pc,        (* Run: "new", "select", "judge", "resolve", "flush", "write",  *)
             (* or "returned"                                                *)
  batch,     (* the lines whose models wait, per collection                  *)
  ending,    (* why the last flush is made: "eof", "ctx", or "no": it is not *)
  failed,    (* some flush of the run failed (firstErr)                      *)
  result,    (* what Run returned: "nil", "writeError" or "cancelled"        *)
  counters,  (* core.Counters                                                *)
  fate,      (* where each line ended, "pending" while it has not            *)
  lived      (* the filters that were live since the line came (history)     *)

srcVars  == <<sent, closed>>
runVars  == <<taken, pc, batch, ending, failed, result, counters, fate, lived>>
vars     == <<setup, srcVars, filter, swaps, cancelled, runVars>>

Lines       == DOMAIN setup.lines
Collections == <<"user", "event", "dead">>
Threshold   == IF setup.mode = "single" THEN 1 ELSE setup.batchSize
NoBatch     == [c \in {"user", "event", "dead"} |-> {}]
Pending     == batch["user"] \cup batch["event"] \cup batch["dead"]

Record(l) == ParseLine(setup.lines[l])

Count(names) == counters' = [n \in DOMAIN counters |-> counters[n] + IF n \in names THEN 1 ELSE 0]

(***************************************************************************)
(* The source, and what happens around the run.                             *)
(***************************************************************************)

SourceSend ==
  /\ pc # "new" /\ ~closed /\ sent < setup.readable /\ sent - taken < setup.cap
  /\ sent' = sent + 1
  /\ UNCHANGED <<setup, closed, filter, swaps, cancelled, runVars>>

(* At its end, at a line over 1 MiB, of which the log tells but no caller, or *)
(* when the context is done, it closes the channel; Run cancels the context  *)
(* when it returns.                                                          *)
SourceClose ==
  /\ pc # "new" /\ ~closed
  /\ cancelled \/ pc = "returned" \/ (sent = setup.readable /\ ~setup.follow)
  /\ closed' = TRUE
  /\ UNCHANGED <<setup, sent, filter, swaps, cancelled, runVars>>

(* Another goroutine calls SwapFilter; one that does not compile is kept out. *)
SwapFilter ==
  /\ swaps < setup.swaps
  /\ swaps' = swaps + 1
  /\ \E f \in setup.filters \ {filter} : filter' = f /\ lived' = lived \cup {f}
  /\ UNCHANGED <<setup, srcVars, cancelled, taken, pc, batch, ending, failed, result, counters, fate>>

(* The caller's context ends, or Stop is called; before Run, Stop is lost. *)
Cancel ==
  /\ setup.cancel /\ pc \notin {"new", "returned"} /\ ~cancelled
  /\ cancelled' = TRUE
  /\ UNCHANGED <<setup, srcVars, filter, swaps, runVars>>

Run ==
  /\ pc = "new"
  /\ pc' = "select"
  /\ UNCHANGED <<setup, srcVars, filter, swaps, cancelled, taken, batch, ending, failed, result,
                 counters, fate, lived>>

(***************************************************************************)
(* Processor.Process.                                                       *)
(***************************************************************************)

(* The model of the line is in hand: write it now, or once enough wait. *)
Classified(l, c) ==
  /\ batch' = [batch EXCEPT ![c] = @ \cup {l}]
  /\ pc' = IF Cardinality(Pending) + 1 >= Threshold THEN "flush" ELSE "select"
  /\ UNCHANGED fate

Discarded(l) ==
  /\ fate' = [fate EXCEPT ![l] = "filtered"]
  /\ pc' = "select"
  /\ UNCHANGED batch

(* A line comes: parse it, and ask whether the filter has any rules. *)
Receive ==
  /\ pc = "select" /\ taken < sent
  /\ taken' = taken + 1
  /\ lived' = {filter}
  /\ LET l == taken + 1
     IN  \/ /\ Record(l) = NoRecord \/ setup.panics
            /\ Count({"TotalLines", "ParseErrors", "DeadLetters"})
            /\ Classified(l, "dead")
         \/ /\ Record(l) # NoRecord
            /\ Count({"TotalLines", "ParsedOK"})
            /\ pc' = IF Empty(filter) THEN "resolve" ELSE "judge"
            /\ UNCHANGED <<batch, fate>>
  /\ UNCHANGED <<setup, srcVars, filter, swaps, cancelled, ending, failed, result>>

(* Faulty variant: the filter the run began with. *)
FaultyJudge ==
  /\ pc = "judge"
  /\ LET verdict == Keep(setup.first, taken)
         failing == IF verdict.err THEN {"FilterErrors"} ELSE {}
     IN  \/ verdict.keep /\ pc' = "resolve" /\ Count(failing) /\ UNCHANGED <<batch, fate>>
         \/ ~verdict.keep /\ Discarded(taken) /\ Count(failing \cup {"Filtered"})
  /\ UNCHANGED <<setup, srcVars, filter, swaps, cancelled, taken, ending, failed, result, lived>>

(* Keep loads the live filter again. *)
Judge ==
  /\ pc = "judge"
  /\ LET verdict == Keep(filter, taken)
         failing == IF verdict.err THEN {"FilterErrors"} ELSE {}
     IN  \/ verdict.keep /\ pc' = "resolve" /\ Count(failing) /\ UNCHANGED <<batch, fate>>
         \/ ~verdict.keep /\ Discarded(taken) /\ Count(failing \cup {"Filtered"})
  /\ UNCHANGED <<setup, srcVars, filter, swaps, cancelled, taken, ending, failed, result, lived>>

Written(l) == IF Category(Record(l)) = "user" THEN "UserWrites" ELSE "EventWrites"

(* Faulty variant: the record counts as written before it is resolved. *)
FaultyResolve ==
  /\ pc = "resolve"
  /\ \/ Classified(taken, Category(Record(taken))) /\ Count({Written(taken)})
     \/ /\ setup.faults \/ cancelled
        /\ Classified(taken, "dead")
        /\ Count({Written(taken), "IdentityErrors", "DeadLetters"})
  /\ UNCHANGED <<setup, srcVars, filter, swaps, cancelled, taken, ending, failed, result, lived>>

(* Resolve fails only with the database or the context. *)
Resolve ==
  /\ pc = "resolve"
  /\ \/ Classified(taken, Category(Record(taken))) /\ Count({Written(taken)})
     \/ /\ setup.faults \/ cancelled
        /\ Classified(taken, "dead")
        /\ Count({"IdentityErrors", "DeadLetters"})
  /\ UNCHANGED <<setup, srcVars, filter, swaps, cancelled, taken, ending, failed, result, lived>>

(* Process recovers from a panic: the line is dead, whatever was counted. *)
Panic ==
  /\ setup.panics /\ pc \in {"judge", "resolve"}
  /\ Classified(taken, "dead")
  /\ \E before \in {{}} \cup (IF pc = "resolve" THEN {{Written(taken)}} ELSE {}) :
       Count(before \cup {"ParseErrors", "DeadLetters"})
  /\ UNCHANGED <<setup, srcVars, filter, swaps, cancelled, taken, ending, failed, result, lived>>

(***************************************************************************)
(* Writing, and the end of the run.                                         *)
(***************************************************************************)

(* The collections still to be written, by their place in Collections. *)
Unwritten     == {i \in DOMAIN Collections : batch[Collections[i]] # {}}
NextUnwritten == Collections[CHOOSE i \in Unwritten : \A j \in Unwritten : i <= j]

(* Faulty variant: an error is kept only if it is the last. *)
FaultyOutcome(c, stored, err) ==
  /\ fate' = [l \in Lines |-> IF l \notin batch[c] THEN fate[l] ELSE IF l \in stored THEN c ELSE "lost"]
  /\ batch' = [batch EXCEPT ![c] = {}]
  /\ failed' = err
  /\ IF err THEN Count({"WriteErrors"}) ELSE UNCHANGED counters

(* BulkWrite of the models of a collection returned.  (A record that lost to  *)
(* another writer's is stored as far as this run can tell; see Store.lost.)  *)
Outcome(c, stored, err) ==
  /\ fate' = [l \in Lines |-> IF l \notin batch[c] THEN fate[l] ELSE IF l \in stored THEN c ELSE "lost"]
  /\ batch' = [batch EXCEPT ![c] = {}]
  /\ failed' = (failed \/ err)
  /\ IF err THEN Count({"WriteErrors"}) ELSE UNCHANGED counters

(* Faulty variant: once the context is done the rest is dropped unreported. *)
FaultyBeginWrite ==
  /\ pc = "flush" /\ Unwritten # {}
  /\ \/ cancelled /\ Outcome(NextUnwritten, {}, FALSE) /\ UNCHANGED pc
     \/ ~cancelled /\ pc' = "write" /\ UNCHANGED <<fate, batch, failed, counters>>
  /\ UNCHANGED <<setup, srcVars, filter, swaps, cancelled, taken, ending, result, lived>>

(* A write is not even tried once the context is done. *)
BeginWrite ==
  /\ pc = "flush" /\ Unwritten # {}
  /\ \/ cancelled /\ Outcome(NextUnwritten, {}, TRUE) /\ UNCHANGED pc
     \/ ~cancelled /\ pc' = "write" /\ UNCHANGED <<fate, batch, failed, counters>>
  /\ UNCHANGED <<setup, srcVars, filter, swaps, cancelled, taken, ending, result, lived>>

(* It succeeds, or it fails for good, some or all of its models applied. *)
EndWrite ==
  /\ pc = "write"
  /\ pc' = "flush"
  /\ LET c == NextUnwritten
     IN  \/ Outcome(c, batch[c], FALSE)
         \/ (setup.faults \/ cancelled) /\ \E S \in SUBSET batch[c] : Outcome(c, S, TRUE)
  /\ UNCHANGED <<setup, srcVars, filter, swaps, cancelled, taken, ending, result, lived>>

Returned ==
  IF setup.mode = "batch" /\ failed THEN "writeError" ELSE IF ending = "ctx" THEN "cancelled" ELSE "nil"

(* Everything is flushed: go on, or return. *)
Flushed ==
  /\ pc = "flush" /\ Unwritten = {}
  /\ \/ ending = "no" /\ pc' = "select" /\ UNCHANGED result
     \/ ending # "no" /\ pc' = "returned" /\ result' = Returned
  /\ UNCHANGED <<setup, srcVars, filter, swaps, cancelled, taken, batch, ending, failed, counters,
                 fate, lived>>

(* Faulty variant: the check for the end is inside `if pending > 0`. *)
FaultyEndOfLines ==
  /\ pc = "select" /\ closed /\ taken = sent /\ Pending # {}
  /\ ending' = "eof" /\ pc' = "flush"
  /\ UNCHANGED <<setup, srcVars, filter, swaps, cancelled, taken, batch, failed, result, counters,
                 fate, lived>>

(* The channel is closed and drained ... *)
EndOfLines ==
  /\ pc = "select" /\ closed /\ taken = sent
  /\ ending' = "eof" /\ pc' = "flush"
  /\ UNCHANGED <<setup, srcVars, filter, swaps, cancelled, taken, batch, failed, result, counters,
                 fate, lived>>

(* ... or the context is done; select may still prefer a line, or the end. *)
ContextDone ==
  /\ pc = "select" /\ cancelled
  /\ ending' = "ctx" /\ pc' = "flush"
  /\ UNCHANGED <<setup, srcVars, filter, swaps, cancelled, taken, batch, failed, result, counters,
                 fate, lived>>

(* What Engine.Run answers: the counts, or nothing but the error. *)
Answer ==
  IF result = "nil"
  THEN [user |-> counters["UserWrites"], event |-> counters["EventWrites"],
        dead |-> counters["DeadLetters"], filtered |-> counters["Filtered"]]
  ELSE [c \in {"user", "event", "dead", "filtered"} |-> 0]

CounterNames ==
  {"TotalLines", "ParsedOK", "ParseErrors", "IdentityErrors", "UserWrites", "EventWrites",
   "DeadLetters", "WriteErrors", "Filtered", "FilterErrors"}

Init ==
  /\ setup \in Setups
  /\ sent = 0 /\ closed = FALSE /\ taken = 0
  /\ filter = setup.first /\ swaps = 0 /\ lived = {setup.first}
  /\ cancelled = FALSE
  /\ pc = "new" /\ ending = "no" /\ failed = FALSE /\ result = "none"
  /\ batch = NoBatch
  /\ counters = [n \in CounterNames |-> 0]
  /\ fate = [l \in Lines |-> "pending"]

Step ==
  \/ Receive \/ Judge \/ Resolve \/ Panic
  \/ BeginWrite \/ EndWrite \/ Flushed
  \/ EndOfLines \/ ContextDone

Next == Run \/ Step \/ SourceSend \/ SourceClose \/ SwapFilter \/ Cancel

(* The goroutines of the run and of the source are scheduled. *)
Fairness == WF_vars(Step) /\ WF_vars(SourceSend) /\ WF_vars(SourceClose)

Spec == Init /\ [][Next]_vars /\ Fairness

-----------------------------------------------------------------------------
(***************************************************************************)
(* Properties.                                                              *)
(***************************************************************************)

InFate(c) == {l \in Lines : fate[l] = c}

(* Every variable has its type (Uploader, Counters), and no batch outgrows    *)
(* the threshold.                                                            *)
TypeOK ==
  /\ setup \in Setups
  /\ sent \in 0 .. Len(setup.lines) /\ taken \in 0 .. sent
  /\ filter \in setup.filters /\ lived \subseteq setup.filters /\ swaps \in 0 .. setup.swaps
  /\ {closed, cancelled, failed} \subseteq BOOLEAN
  /\ pc \in {"new", "select", "judge", "resolve", "flush", "write", "returned"}
  /\ batch \in [{"user", "event", "dead"} -> SUBSET Lines]
  /\ Cardinality(Pending) <= Threshold
  /\ ending \in {"no", "eof", "ctx"} /\ result \in {"none", "nil", "writeError", "cancelled"}
  /\ counters \in [CounterNames -> Nat]
  /\ fate \in [Lines -> {"pending", "user", "event", "dead", "filtered", "lost"}]

(* When Upload answers without an error in batch mode, its counts are what is *)
(* in the collections, and a source that was not stopped is written, but for  *)
(* a line that was too long and what followed it (batch.Uploader.Run,         *)
(* Engine.Run): an early failure is not forgotten.                           *)
AnswerIsTrue ==
  result = "nil" /\ setup.mode = "batch" =>
    /\ ~setup.panics => \A c \in {"user", "event", "dead", "filtered"} : Answer[c] = Cardinality(InFate(c))
    /\ InFate("lost") = {}
    /\ ~cancelled => \A l \in InFate("pending") : l > setup.readable

(* Whenever Run waits for a line, each it took is accounted for: dropped by   *)
(* the filter, waiting in a batch, in its collection, or lost, and then a     *)
(* write error was counted.  In single mode each loss has its own, which is   *)
(* all there is to see of it: Run returns nil.                               *)
LossIsCounted ==
  pc \in {"select", "flush", "write", "returned"} =>
    /\ \A l \in Lines : fate[l] = "pending" => l > taken \/ l \in Pending
    /\ setup.mode = "single" => Cardinality(InFate("lost")) <= counters["WriteErrors"]
    /\ InFate("lost") # {} => counters["WriteErrors"] > 0

(* Between two lines the counters add up: each line was counted as exactly    *)
(* one of filtered, user, event or dead letter, and each dead letter as a     *)
(* parse or an identity error (Processor.Process).  A panic late in Process   *)
(* is the exception: its line was already counted as written.                 *)
CountersAddUp ==
  /\ TypeOK
  /\ pc \in {"select", "flush", "write", "returned"} =>
       LET n == counters
           written == n["UserWrites"] + n["EventWrites"]
       IN  /\ n["DeadLetters"] = n["ParseErrors"] + n["IdentityErrors"]
           /\ n["TotalLines"] <= n["Filtered"] + written + n["DeadLetters"]
           /\ ~setup.panics =>
                /\ n["TotalLines"] = n["Filtered"] + written + n["DeadLetters"]
                /\ n["TotalLines"] = n["ParsedOK"] + n["ParseErrors"]

(* A record is kept or dropped by a filter that was live while it was         *)
(* processed, although the filter is looked at twice and may be swapped in    *)
(* between (Holder): never by a mixture, and never by one that was replaced   *)
(* before the line came.                                                     *)
VerdictFromLiveFilter ==
  [][/\ pc = "judge" /\ pc' = "resolve" => \E f \in lived : Keep(f, taken).keep
     /\ pc = "select" /\ pc' = "resolve" => \E f \in lived' : Keep(f, taken').keep
     /\ \A l \in Lines : fate[l] = "pending" /\ fate'[l] = "filtered" =>
          \E f \in lived : ~Keep(f, l).keep]_vars

(* Run returns once its context is done or its source is at its end, however  *)
(* the select chooses.                                                       *)
RunReturns == pc # "new" /\ (cancelled \/ ~setup.follow) ~> pc = "returned"
=============================================================================
