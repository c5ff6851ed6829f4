-------------------------------- MODULE Store --------------------------------
(***************************************************************************)
(* Writing records to MongoDB (internal/dao/store: writemodel.go, store.go) *)
(* as seen by one document: the user document of a #user_id or the event    *)
(* document of a #uuid.  Every worker's bulk write is an unordered batch of *)
(* models, of which the server applies one at a time; several batches run   *)
(* at once.  An upsert that matches nothing inserts, as a second step, and  *)
(* may meet the unique key; an attempt may fail after some of its models    *)
(* were applied, and bulkWrite then sends the whole batch again.            *)
(***************************************************************************)
EXTENDS Integers, FiniteSets

CONSTANTS
  Batch,       (* the bulk writes                                            *)
  Records,     (* the records of the document's key                          *)
  Type,        (* #type of each record                                       *)
  Ts,          (* _ts of each record                                         *)
  Data,        (* the fields each record carries                             *)
  Workloads,   (* the possible assignments of records to the batches         *)
  Earlier,     (* records that may have created the document before          *)
  NoDoc,       (* the document does not exist                                *)
  MaxAttempts, (* bound on the attempts of one bulk write (MaxElapsedTime)   *)
  Faults       (* TRUE: an attempt may fail at any point                     *)

Guarded  == {"user_set", "user_unset", "track_update", "track_overwrite"}
Additive == {"user_add", "user_append"}
Types    == Guarded \cup Additive \cup {"user_setOnce", "user_uniq_append", "user_del", "track"}
EventTypes == {"track", "track_update", "track_overwrite"}
Fields   == UNION {Data[r] : r \in Records}

ASSUME RecordsAssumption ==
  /\ Type \in [Records -> Types]
  /\ Ts \in [Records -> Nat \ {0}]
  /\ Workloads \subseteq [Batch -> SUBSET Records]
  /\ Earlier \subseteq {r \in Records : Type[r] # "user_del"}

(* A record is in one batch, and not in the past as well. *)
ASSUME OnceAssumption ==
  \A W \in Workloads : \A b, c \in Batch :
    W[b] \cap Earlier = {} /\ (b # c => W[b] \cap W[c] = {})

(* No field is both counted or collected and set as a whole. *)
ASSUME FieldsAssumption ==
  \A q, r \in Records :
    Type[q] \in Additive \cup {"user_uniq_append"} /\ Type[r] \notin Additive \cup {"user_uniq_append"} =>
      Data[q] \cap Data[r] = {}

(* Users and events are in collections of their own. *)
ASSUME KindAssumption ==
  \A W \in Workloads : \A b, c \in Batch : \A q \in W[b], r \in W[c] :
    Type[q] \in EventTypes <=> Type[r] \in EventTypes

ASSUME AttemptsAssumption == MaxAttempts \in Nat \ {0} /\ Faults \in BOOLEAN

VARIABLES
  models,  (* the records each batch writes                                  *)
  doc,     (* the document: its _ts; the record its other meta fields are    *)
           (* of; the record that last set or unset each field; how often    *)
           (* each counting or collecting record was applied                 *)
  st,      (* per record, its model in the current attempt: "todo", "insert" *)
           (* (matched nothing), "done" or "duplicate" (E11000)              *)
  bpc,     (* per batch: "writing", "done" or "failed"                       *)
  attempt, (* per batch, its attempts so far                                 *)
  lost,    (* records that met E11000 although no newer record had won       *)
  deleted  (* the document was deleted once                                  *)

vars == <<models, doc, st, bpc, attempt, lost, deleted>>

Newer(s, t) == IF s > t THEN s ELSE t

(***************************************************************************)
(* The write models.                                                        *)
(***************************************************************************)

(* Faulty variant: `$gte`. *)
FaultyMatches(d, r) == Type[r] \in Guarded => d.ts >= Ts[r]

(* Faulty variant: no guard. *)
FaultyMatchesAny(d, r) == d.ts > 0

(* The filter of r's model, on a document of its key. *)
Matches(d, r) == Type[r] \in Guarded => d.ts <= Ts[r]

(* The fields d has after r set or unset its own. *)
Written(d, r) == [f \in DOMAIN d.src \cup Data[r] |-> IF f \in Data[r] THEN r ELSE d.src[f]]

(* Faulty variant: an upsert that inserts leaves the operator's data out. *)
FaultyInserted(r) ==
  [ts |-> Ts[r], meta |-> r, src |-> [f \in {} |-> r], added |-> [q \in Records |-> 0]]

(* The document an upsert inserts, or a replacement leaves. *)
Inserted(r) ==
  [ts |-> Ts[r],
   meta |-> r,
   src |-> [f \in IF Type[r] \in {"user_set", "user_setOnce", "track", "track_update",
                                  "track_overwrite"} THEN Data[r] ELSE {} |-> r],
   added |-> [q \in Records |->
                IF q = r /\ Type[r] \in Additive \cup {"user_uniq_append"} THEN 1 ELSE 0]]

(* $inc and $push count every application; $addToSet has a value once. *)
Added(d, r) ==
  [q \in Records |->
     IF q = r /\ Type[r] \in Additive THEN d.added[q] + 1
     ELSE IF q = r /\ Type[r] = "user_uniq_append" THEN 1
     ELSE d.added[q]]

(* The document after r's update of d.  $setOnInsert sets nothing, and the  *)
(* unguarded user models move _ts with $max.                                *)
Updated(d, r) ==
  IF Type[r] = "track" THEN d
  ELSE IF Type[r] = "track_overwrite" THEN Inserted(r)
  ELSE [ts    |-> IF Type[r] \in Guarded THEN Ts[r] ELSE Newer(d.ts, Ts[r]),
        meta  |-> r,
        src   |-> IF Type[r] \in Guarded THEN Written(d, r) ELSE d.src,
        added |-> Added(d, r)]

(***************************************************************************)
(* The server: one model of a batch at a time, in any order.                *)
(***************************************************************************)

Pending(b) ==
  {r \in models[b] : st[r] = IF \E q \in models[b] : st[q] = "insert" THEN "insert" ELSE "todo"}

(* The filter matches: the document is updated or deleted in one step. *)
Update(b, r) ==
  /\ bpc[b] = "writing" /\ r \in Pending(b)
  /\ st[r] = "todo"
  /\ \/ /\ Type[r] = "user_del"
        /\ doc' = NoDoc
        /\ deleted' = TRUE
     \/ /\ Type[r] # "user_del"
        /\ doc # NoDoc /\ Matches(doc, r)
        /\ doc' = Updated(doc, r)
        /\ UNCHANGED deleted
  /\ st' = [st EXCEPT ![r] = "done"]
  /\ UNCHANGED <<models, bpc, attempt, lost>>

(* It matches nothing: an upsert goes on to insert. *)
NoMatch(b, r) ==
  /\ bpc[b] = "writing" /\ r \in Pending(b)
  /\ st[r] = "todo"
  /\ Type[r] # "user_del"
  /\ doc = NoDoc \/ (doc # NoDoc /\ ~Matches(doc, r))
  /\ st' = [st EXCEPT ![r] = "insert"]
  /\ UNCHANGED <<models, doc, bpc, attempt, lost, deleted>>

Insert(b, r) ==
  /\ bpc[b] = "writing" /\ r \in Pending(b)
  /\ st[r] = "insert"
  /\ doc = NoDoc
  /\ doc' = Inserted(r)
  /\ st' = [st EXCEPT ![r] = "done"]
  /\ UNCHANGED <<models, bpc, attempt, lost, deleted>>

(* The key exists.  The server may try an upsert whose filter is the key     *)
(* alone once more; otherwise the model ends with E11000.                    *)
DuplicateKey(b, r) ==
  /\ bpc[b] = "writing" /\ r \in Pending(b)
  /\ st[r] = "insert"
  /\ doc # NoDoc
  /\ \/ /\ Type[r] \notin Guarded
        /\ st' = [st EXCEPT ![r] = "todo"]
        /\ UNCHANGED lost
     \/ /\ st' = [st EXCEPT ![r] = "duplicate"]
        /\ lost' = IF Matches(doc, r) /\ Type[r] # "track" THEN lost \cup {r} ELSE lost
  /\ UNCHANGED <<models, doc, bpc, attempt, deleted>>

(***************************************************************************)
(* bulkWrite: attempts until one ends without an error that matters.        *)
(***************************************************************************)

(* Faulty variant: one attempt too many. *)
FaultyTryAgainBound(b) ==
  /\ attempt[b] <= MaxAttempts
  /\ attempt' = [attempt EXCEPT ![b] = @ + 1]
  /\ st' = [r \in Records |-> IF r \in models[b] THEN "todo" ELSE st[r]]
  /\ UNCHANGED bpc

(* backoff.Retry sends the whole batch again ... *)
TryAgain(b) ==
  /\ attempt[b] < MaxAttempts
  /\ attempt' = [attempt EXCEPT ![b] = @ + 1]
  /\ st' = [r \in Records |-> IF r \in models[b] THEN "todo" ELSE st[r]]
  /\ UNCHANGED bpc

(* ... until MaxElapsedTime has passed or the context is done. *)
GiveUp(b) ==
  /\ bpc' = [bpc EXCEPT ![b] = "failed"]
  /\ UNCHANGED <<attempt, st>>

AllApplied(b) == \A r \in models[b] : st[r] \in {"done", "duplicate"}

(* No error, or only duplicate keys. *)
Succeed(b) ==
  /\ bpc[b] = "writing" /\ AllApplied(b)
  /\ bpc' = [bpc EXCEPT ![b] = "done"]
  /\ UNCHANGED <<models, doc, st, attempt, lost, deleted>>

Fail(b) ==
  /\ Faults
  /\ bpc[b] = "writing"
  /\ TryAgain(b) \/ GiveUp(b)
  /\ UNCHANGED <<models, doc, lost, deleted>>

Init ==
  /\ models \in Workloads
  /\ doc \in {NoDoc} \cup {Inserted(r) : r \in Earlier}
  /\ st = [r \in Records |-> "todo"]
  /\ bpc = [b \in Batch |-> "writing"]
  /\ attempt = [b \in Batch |-> 1]
  /\ lost = {} /\ deleted = FALSE

Server(b) ==
  \E r \in models[b] : Update(b, r) \/ NoMatch(b, r) \/ Insert(b, r) \/ DuplicateKey(b, r)

Finished == (\A b \in Batch : bpc[b] # "writing") /\ UNCHANGED vars

Next == (\E b \in Batch : Server(b) \/ Succeed(b) \/ Fail(b)) \/ Finished

(* The server goes on with a bulk write, and an attempt that is over returns. *)
Fairness == \A b \in Batch : WF_vars(Server(b) \/ Succeed(b))

Spec == Init /\ [][Next]_vars /\ Fairness

-----------------------------------------------------------------------------
(***************************************************************************)
(* Properties.                                                              *)
(***************************************************************************)

Document ==
  [ts: Nat, meta: Records, src: UNION {[F -> Records] : F \in SUBSET Fields},
   added: [Records -> Nat]]

ASSUME NoDocAssumption == NoDoc \notin Document

(* Every variable has its type (WriteModel, bulkWrite). *)
TypeOK ==
  /\ models \in Workloads
  /\ doc \in Document \cup {NoDoc}
  /\ st \in [Records -> {"todo", "insert", "done", "duplicate"}]
  /\ bpc \in [Batch -> {"writing", "done", "failed"}]
  /\ attempt \in [Batch -> 1 .. MaxAttempts]
  /\ lost \in SUBSET Records
  /\ deleted \in BOOLEAN

(* "Older records (lower _ts) cannot overwrite fields that were already set  *)
(* by newer records" (writemodel.go:118): as long as the document is not     *)
(* deleted, neither its _ts nor the record a field is from gets older,       *)
(* whatever batches run at once and are sent again.                          *)
NoRollback ==
  [][doc # NoDoc /\ doc' # NoDoc =>
       /\ doc.ts <= doc'.ts
       /\ \A f \in DOMAIN doc.src \cap DOMAIN doc'.src : Ts[doc.src[f]] <= Ts[doc'.src[f]]]_vars

AllDone == \A b \in Batch : bpc[b] = "done"

Writes == UNION {models[b] : b \in Batch}

(* r left its mark: the fields it set are its own, or a newer record's.      *)
Stands(r) ==
  \A f \in Data[r] :
    /\ Type[r] # "user_unset" => f \in DOMAIN doc.src
    /\ f \in DOMAIN doc.src => Ts[doc.src[f]] >= Ts[r]

(* r is guarded, and nothing is newer.  A replacement with the same _ts      *)
(* would take r's fields out.                                                *)
Newest(r) ==
  /\ Type[r] \in Guarded
  /\ \A q \in Writes \cup Earlier : Ts[q] <= Ts[r]
  /\ \A q \in Writes \ {r} : Type[q] = "track_overwrite" => Ts[q] < Ts[r]

(* However the batches interleave, the newest guarded record is in the final *)
(* document, unless its upsert lost the race to create it.                   *)
NewestSticks ==
  AllDone /\ lost = {} /\ ~deleted => \A r \in Writes : Newest(r) => Stands(r)

(* A counting or collecting record is applied at most once per attempt of    *)
(* its batch, and at least once when the batch succeeds: without failures it *)
(* counts exactly once (UserWriteModel, user_add and user_append).           *)
AddedPerAttempt ==
  doc # NoDoc =>
    \A b \in Batch : \A r \in models[b] :
      Type[r] \in Additive =>
        /\ doc.added[r] <= attempt[b]
        /\ bpc[b] = "done" /\ lost = {} /\ ~deleted => doc.added[r] >= 1

(* "This whole-document guard is equivalent to the former per-field $cond    *)
(* pipelines" (writemodel.go:46): every field is the newest record's that    *)
(* carried it, in whatever order they came.                                  *)
PerFieldNewest ==
  AllDone /\ lost = {} /\ ~deleted =>
    \A r \in Writes : Type[r] \in {"user_set", "user_unset", "track_update"} => Stands(r)
=============================================================================
