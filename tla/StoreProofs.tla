----------------------------- MODULE StoreProofs -----------------------------
(***************************************************************************)
(* Theorems about Store, for every set of records, assignment to batches,   *)
(* interleaving, failure and retry: type correctness; that the document      *)
(* never rolls back, since no field is from a record newer than the          *)
(* document's _ts, so that a record the guard admits is newer than every     *)
(* field it replaces; how often a counting record is applied; and that the   *)
(* newest guarded record is in the final document.                           *)
(***************************************************************************)
EXTENDS Store, TLAPS

(* No field of d is from a record newer than d's _ts. *)
Dated(d) == \A f \in DOMAIN d.src : Ts[d.src[f]] <= d.ts

IInv == TypeOK /\ (doc # NoDoc => Dated(doc))

-----------------------------------------------------------------------------
(* The write models. *)

(* A function into Records from some fields is a possible src.               *)
LEMMA SrcType ==
  ASSUME NEW F \in SUBSET Fields, NEW s \in [F -> Records]
  PROVE  s \in UNION {[G -> Records] : G \in SUBSET Fields}
OBVIOUS

LEMMA SrcDomain ==
  ASSUME NEW s \in UNION {[G -> Records] : G \in SUBSET Fields}
  PROVE  DOMAIN s \in SUBSET Fields /\ s \in [DOMAIN s -> Records]
<1>1. PICK G \in SUBSET Fields : s \in [G -> Records]
  OBVIOUS
<1> QED BY <1>1

LEMMA DataInFields ==
  ASSUME NEW r \in Records
  PROVE  Data[r] \in SUBSET Fields
BY DEF Fields

(* What an upsert inserts is a document of r's alone.                        *)
LEMMA InsertedDocument ==
  ASSUME NEW r \in Records
  PROVE  Inserted(r) \in Document /\ Inserted(r).ts = Ts[r] /\ Dated(Inserted(r))
<1> DEFINE F == IF Type[r] \in {"user_set", "user_setOnce", "track", "track_update",
                                "track_overwrite"} THEN Data[r] ELSE {}
           src == [f \in F |-> r]
           added == [q \in Records |->
                       IF q = r /\ Type[r] \in Additive \cup {"user_uniq_append"} THEN 1 ELSE 0]
<1>1. Inserted(r) = [ts |-> Ts[r], meta |-> r, src |-> src, added |-> added]
  BY DEF Inserted
<1>2. F \in SUBSET Fields
  BY DataInFields
<1>3. src \in UNION {[G -> Records] : G \in SUBSET Fields}
  <2>1. src \in [F -> Records]
    OBVIOUS
  <2> HIDE DEF F, src
  <2> QED BY <1>2, <2>1, SrcType
<1>4. added \in [Records -> Nat]
  OBVIOUS
<1>5. Ts[r] \in Nat
  BY RecordsAssumption
<1>6. \A f \in DOMAIN src : Ts[src[f]] <= Ts[r]
  BY <1>5
<1> HIDE DEF F, src, added
<1>7. Inserted(r) \in Document
  BY <1>1, <1>3, <1>4, <1>5 DEF Document
<1>8. Inserted(r).ts = Ts[r] /\ Inserted(r).src = src
  BY <1>1
<1> QED BY <1>6, <1>7, <1>8 DEF Dated

(* The fields after r's write: each of them r's own or as before.            *)
LEMMA WrittenSrc ==
  ASSUME NEW r \in Records, NEW d \in Document
  PROVE  /\ Written(d, r) \in UNION {[G -> Records] : G \in SUBSET Fields}
         /\ \A f \in DOMAIN Written(d, r) :
              \/ Written(d, r)[f] = r
              \/ f \in DOMAIN d.src /\ Written(d, r)[f] = d.src[f]
<1>1. /\ DOMAIN d.src \in SUBSET Fields
      /\ d.src \in [DOMAIN d.src -> Records]
  BY SrcDomain DEF Document
<1>2. DOMAIN d.src \cup Data[r] \in SUBSET Fields
  BY <1>1, DataInFields
<1>3. Written(d, r) \in [DOMAIN d.src \cup Data[r] -> Records]
  BY <1>1 DEF Written
<1>4. Written(d, r) \in UNION {[G -> Records] : G \in SUBSET Fields}
  BY <1>2, <1>3, SrcType
<1> QED BY <1>4 DEF Written

(* An update the filter admits keeps the document well-formed and dated, and *)
(* moves neither its _ts nor the origin of any field back.                   *)
Forward(d, e) ==
  /\ e \in Document /\ Dated(e)
  /\ d.ts <= e.ts
  /\ \A f \in DOMAIN d.src \cap DOMAIN e.src : Ts[d.src[f]] <= Ts[e.src[f]]

LEMMA UpdatedForward ==
  ASSUME NEW r \in Records, NEW d \in Document,
         Type[r] # "user_del", Matches(d, r), Dated(d)
  PROVE  Forward(d, Updated(d, r))
<1>1. /\ d.ts \in Nat /\ Ts[r] \in Nat /\ d.meta \in Records
      /\ d.src \in UNION {[G -> Records] : G \in SUBSET Fields}
      /\ d.added \in [Records -> Nat]
  BY RecordsAssumption DEF Document
<1>2. \A f \in DOMAIN d.src : d.src[f] \in Records /\ Ts[d.src[f]] \in Nat
  BY <1>1, SrcDomain, RecordsAssumption
<1>3. Added(d, r) \in [Records -> Nat]
  BY <1>1 DEF Added
<1>4. CASE Type[r] = "track"
  <2>1. Updated(d, r) = d
    BY <1>4 DEF Updated
  <2> QED BY <1>1, <1>2, <2>1 DEF Forward
<1>5. CASE Type[r] = "track_overwrite"
  <2>1. Updated(d, r) = Inserted(r)
    BY <1>5 DEF Updated
  <2>2. d.ts <= Ts[r]
    BY <1>5 DEF Matches, Guarded
  <2>3. \A f \in DOMAIN Inserted(r).src : Inserted(r).src[f] = r
    BY DEF Inserted
  <2>4. \A f \in DOMAIN d.src : Ts[d.src[f]] <= Ts[r]
    BY <1>1, <1>2, <2>2 DEF Dated
  <2> QED BY <2>1, <2>2, <2>3, <2>4, InsertedDocument DEF Forward
<1>6. CASE Type[r] \in Guarded /\ Type[r] # "track_overwrite"
  <2> DEFINE e == [ts |-> Ts[r], meta |-> r, src |-> Written(d, r), added |-> Added(d, r)]
  <2>1. Updated(d, r) = e
    BY <1>6 DEF Updated, Guarded
  <2>2. d.ts <= Ts[r]
    BY <1>6 DEF Matches
  <2>3. e \in Document
    BY <1>1, <1>3, WrittenSrc DEF Document
  <2>4. \A f \in DOMAIN Written(d, r) : Ts[Written(d, r)[f]] <= Ts[r]
    BY <1>1, <1>2, <2>2, WrittenSrc DEF Dated
  <2>5. \A f \in DOMAIN d.src \cap DOMAIN Written(d, r) :
          Ts[d.src[f]] <= Ts[Written(d, r)[f]]
    BY <1>1, <1>2, <2>2, WrittenSrc DEF Dated
  <2> QED BY <2>1, <2>2, <2>3, <2>4, <2>5 DEF Forward, Dated
<1>7. CASE Type[r] \notin Guarded \cup {"track"}
  <2> DEFINE e == [ts |-> Newer(d.ts, Ts[r]), meta |-> r, src |-> d.src, added |-> Added(d, r)]
  <2>1. Updated(d, r) = e
    BY <1>7 DEF Updated, Guarded
  <2>2. Newer(d.ts, Ts[r]) \in Nat /\ d.ts <= Newer(d.ts, Ts[r])
    BY <1>1 DEF Newer
  <2>3. e \in Document
    BY <1>1, <1>3, <2>2 DEF Document
  <2>4. \A f \in DOMAIN d.src : Ts[d.src[f]] <= Newer(d.ts, Ts[r])
    BY <1>1, <1>2, <2>2 DEF Dated
  <2> QED BY <1>2, <2>1, <2>2, <2>3, <2>4 DEF Forward, Dated
<1> QED BY <1>4, <1>5, <1>6, <1>7

-----------------------------------------------------------------------------
(* The invariant. *)

LEMMA InitIInv == Init => IInv
<1> SUFFICES ASSUME Init PROVE IInv
  OBVIOUS
<1>1. doc \in Document \cup {NoDoc} /\ (doc # NoDoc => Dated(doc))
  BY RecordsAssumption, InsertedDocument DEF Init
<1>2. /\ st \in [Records -> {"todo", "insert", "done", "duplicate"}]
      /\ bpc \in [Batch -> {"writing", "done", "failed"}]
      /\ models \in Workloads /\ lost \in SUBSET Records /\ deleted \in BOOLEAN
  BY DEF Init
<1>3. attempt \in [Batch -> 1 .. MaxAttempts]
  BY AttemptsAssumption DEF Init
<1> QED BY <1>1, <1>2, <1>3 DEF IInv, TypeOK

(* What a step does to the document: nothing, or one of three things.        *)
LEMMA DocStep ==
  ASSUME IInv, [Next]_vars
  PROVE  \/ doc' = doc
         \/ doc' = NoDoc
         \/ doc = NoDoc /\ \E r \in Records : doc' = Inserted(r)
         \/ doc # NoDoc /\ Forward(doc, doc')
<1>1. ASSUME NEW b \in Batch, NEW r \in models[b], Update(b, r)
      PROVE  doc' = NoDoc \/ (doc # NoDoc /\ Forward(doc, doc'))
  <2>1. r \in Records
    BY RecordsAssumption DEF IInv, TypeOK
  <2>2. CASE Type[r] = "user_del"
    BY <1>1, <2>2 DEF Update
  <2>3. CASE Type[r] # "user_del"
    <3>1. doc # NoDoc /\ Matches(doc, r) /\ doc' = Updated(doc, r)
      BY <1>1, <2>3 DEF Update
    <3>2. doc \in Document /\ Dated(doc)
      BY <3>1 DEF IInv, TypeOK
    <3> QED BY <2>1, <2>3, <3>1, <3>2, UpdatedForward
  <2> QED BY <2>2, <2>3
<1>2. ASSUME NEW b \in Batch, NEW r \in models[b], Insert(b, r)
      PROVE  doc = NoDoc /\ \E q \in Records : doc' = Inserted(q)
  BY <1>2, RecordsAssumption DEF Insert, IInv, TypeOK
<1>3. ASSUME NEW b \in Batch, NEW r \in models[b], NoMatch(b, r) \/ DuplicateKey(b, r)
      PROVE  doc' = doc
  BY <1>3 DEF NoMatch, DuplicateKey
<1>4. ASSUME NEW b \in Batch, Succeed(b) \/ Fail(b)
      PROVE  doc' = doc
  BY <1>4 DEF Succeed, Fail
<1>5. CASE Finished \/ UNCHANGED vars
  BY <1>5 DEF Finished, vars
<1> QED BY <1>1, <1>2, <1>3, <1>4, <1>5 DEF Next, Server

(* The other variables. *)
LEMMA RestStep ==
  ASSUME TypeOK, [Next]_vars
  PROVE  /\ models' = models
         /\ st' \in [Records -> {"todo", "insert", "done", "duplicate"}]
         /\ bpc' \in [Batch -> {"writing", "done", "failed"}]
         /\ attempt' \in [Batch -> 1 .. MaxAttempts]
         /\ lost' \in SUBSET Records
         /\ deleted' \in BOOLEAN
<1> USE DEF TypeOK
<1>1. ASSUME NEW b \in Batch, NEW r \in models[b], Update(b, r)
      PROVE  models' = models /\ st' = [st EXCEPT ![r] = "done"] /\ deleted' \in BOOLEAN
             /\ UNCHANGED <<bpc, attempt, lost>>
  BY <1>1 DEF Update
<1>2. ASSUME NEW b \in Batch, NEW r \in models[b], NoMatch(b, r)
      PROVE  st' = [st EXCEPT ![r] = "insert"] /\ UNCHANGED <<models, bpc, attempt, lost, deleted>>
  BY <1>2 DEF NoMatch
<1>3. ASSUME NEW b \in Batch, NEW r \in models[b], Insert(b, r)
      PROVE  st' = [st EXCEPT ![r] = "done"] /\ UNCHANGED <<models, bpc, attempt, lost, deleted>>
  BY <1>3 DEF Insert
<1>4. ASSUME NEW b \in Batch, NEW r \in models[b], DuplicateKey(b, r)
      PROVE  /\ st' \in {[st EXCEPT ![r] = "todo"], [st EXCEPT ![r] = "duplicate"]}
             /\ lost' \in {lost, lost \cup {r}}
             /\ UNCHANGED <<models, bpc, attempt, deleted>>
  BY <1>4 DEF DuplicateKey
<1>5. ASSUME NEW b \in Batch, Succeed(b)
      PROVE  bpc' = [bpc EXCEPT ![b] = "done"] /\ UNCHANGED <<models, st, attempt, lost, deleted>>
  BY <1>5 DEF Succeed
<1>6. ASSUME NEW b \in Batch, Fail(b)
      PROVE  /\ st' \in [Records -> {"todo", "insert", "done", "duplicate"}]
             /\ bpc' \in [Batch -> {"writing", "done", "failed"}]
             /\ attempt' \in [Batch -> 1 .. MaxAttempts]
             /\ UNCHANGED <<models, lost, deleted>>
  <2>1. CASE TryAgain(b)
    <3>1. attempt[b] + 1 \in 1 .. MaxAttempts
      BY <2>1, AttemptsAssumption DEF TryAgain
    <3> QED BY <1>6, <2>1, <3>1 DEF Fail, TryAgain
  <2>2. CASE GiveUp(b)
    BY <1>6, <2>2 DEF Fail, GiveUp
  <2> QED BY <1>6, <2>1, <2>2 DEF Fail
<1>7. CASE Finished \/ UNCHANGED vars
  BY <1>7 DEF Finished, vars
<1>8. \A b \in Batch : models[b] \subseteq Records
  BY RecordsAssumption
<1>9. ASSUME NEW b \in Batch, NEW r \in models[b],
             Update(b, r) \/ NoMatch(b, r) \/ Insert(b, r) \/ DuplicateKey(b, r)
      PROVE  /\ models' = models
             /\ st' \in [Records -> {"todo", "insert", "done", "duplicate"}]
             /\ UNCHANGED <<bpc, attempt>>
             /\ lost' \in SUBSET Records
             /\ deleted' \in BOOLEAN
  <2>1. r \in Records
    BY <1>8
  <2> QED BY <1>1, <1>2, <1>3, <1>4, <1>9, <2>1
<1> QED BY <1>5, <1>6, <1>7, <1>9 DEF Next, Server

LEMMA NextIInv == IInv /\ [Next]_vars => IInv'
<1> SUFFICES ASSUME IInv, [Next]_vars PROVE IInv'
  OBVIOUS
<1>1. doc' \in Document \cup {NoDoc} /\ (doc' # NoDoc => Dated(doc'))
  <2>1. CASE doc' = doc
    BY <2>1 DEF IInv, TypeOK
  <2>2. CASE doc' = NoDoc
    BY <2>2
  <2>3. CASE \E r \in Records : doc' = Inserted(r)
    BY <2>3, InsertedDocument
  <2>4. CASE Forward(doc, doc')
    BY <2>4 DEF Forward
  <2> QED BY <2>1, <2>2, <2>3, <2>4, DocStep
<1>2. (doc # NoDoc => Dated(doc))'
  BY <1>1 DEF Dated
<1>3. TypeOK'
  BY <1>1, RestStep DEF IInv, TypeOK, Document
<1> QED BY <1>2, <1>3 DEF IInv

LEMMA Invariance == Spec => []IInv
BY InitIInv, NextIInv, PTL DEF Spec

-----------------------------------------------------------------------------
(* Every reachable state has its type, for any records, batches and number   *)
(* of attempts.                                                              *)
THEOREM TypeCorrect == Spec => []TypeOK
<1>1. IInv => TypeOK
  BY DEF IInv
<1> QED BY <1>1, Invariance, PTL

(* "Older records cannot overwrite fields that were already set by newer      *)
(* records" (UserWriteModel, EventWriteModel), in any order of any batches,  *)
(* with any failures and retries.                                            *)
THEOREM NeverRollsBack == Spec => NoRollback
<1>1. IInv /\ [Next]_vars =>
        [doc # NoDoc /\ doc' # NoDoc =>
           /\ doc.ts <= doc'.ts
           /\ \A f \in DOMAIN doc.src \cap DOMAIN doc'.src :
                Ts[doc.src[f]] <= Ts[doc'.src[f]]]_vars
  <2> SUFFICES ASSUME IInv, [Next]_vars, doc # NoDoc, doc' # NoDoc
               PROVE  /\ doc.ts <= doc'.ts
                      /\ \A f \in DOMAIN doc.src \cap DOMAIN doc'.src :
                           Ts[doc.src[f]] <= Ts[doc'.src[f]]
    OBVIOUS
  <2>1. CASE doc' = doc
    <3>1. doc \in Document
      BY DEF IInv, TypeOK
    <3>2. doc.ts \in Nat /\ doc.src \in UNION {[G -> Records] : G \in SUBSET Fields}
      BY <3>1 DEF Document
    <3>3. \A f \in DOMAIN doc.src : Ts[doc.src[f]] \in Nat
      BY <3>2, SrcDomain, RecordsAssumption
    <3> QED BY <2>1, <3>2, <3>3
  <2>2. CASE Forward(doc, doc')
    BY <2>2 DEF Forward
  <2> QED BY <2>1, <2>2, DocStep
<1> QED BY <1>1, Invariance, PTL DEF Spec, NoRollback


-----------------------------------------------------------------------------
(* What became of each record.  The invariant counts a record against the   *)
(* attempts of its batch, and follows the newest guarded record from its     *)
(* write to the end.                                                         *)

AppliedInv ==
  /\ \A b \in Batch : bpc[b] = "done" => AllApplied(b)
  /\ \A r \in Writes : st[r] = "done" => deleted \/ doc # NoDoc

AddInv ==
  \A b \in Batch : \A r \in models[b] :
    Type[r] \in Additive =>
      /\ st[r] = "duplicate" => r \in lost
      /\ doc # NoDoc =>
           /\ doc.added[r] <= attempt[b]
           /\ st[r] # "done" => doc.added[r] + 1 <= attempt[b]
           /\ st[r] = "done" /\ ~deleted => doc.added[r] >= 1

TsInv == doc # NoDoc => \E q \in Writes \cup Earlier : doc.ts = Ts[q]

StandsIn(d, r) ==
  \A f \in Data[r] :
    /\ Type[r] # "user_unset" => f \in DOMAIN d.src
    /\ f \in DOMAIN d.src => Ts[d.src[f]] >= Ts[r]

StickInv ==
  \A r \in Writes : Newest(r) =>
    /\ st[r] = "duplicate" => r \in lost
    /\ st[r] = "done" /\ ~deleted => doc.ts >= Ts[r] /\ StandsIn(doc, r)

FullInv == IInv /\ AppliedInv /\ AddInv /\ TsInv /\ StickInv

LEMMA WritesFacts ==
  ASSUME TypeOK
  PROVE  /\ Writes \subseteq Records /\ Earlier \subseteq Records
         /\ \A r \in Writes : r \in Records /\ \E b \in Batch : r \in models[b]
         /\ \A b \in Batch : \A r \in models[b] : r \in Writes /\ r \in Records
         /\ \A b, c \in Batch : \A r \in models[b] : r \in models[c] => b = c
         /\ \A q, r \in Writes : Type[q] \in EventTypes <=> Type[r] \in EventTypes
         /\ \A r \in Records : Ts[r] \in Nat
<1>1. models \in [Batch -> SUBSET Records] /\ Earlier \subseteq Records
  BY RecordsAssumption DEF TypeOK
<1>2. \A r : r \in Writes <=> \E b \in Batch : r \in models[b]
  BY DEF Writes
<1>3. \A b, c \in Batch : b # c => models[b] \cap models[c] = {}
  BY OnceAssumption DEF TypeOK
<1>4. \A b, c \in Batch : \A q \in models[b], r \in models[c] : Type[q] \in EventTypes <=> Type[r] \in EventTypes
  BY KindAssumption DEF TypeOK
<1>5. \A r \in Records : Ts[r] \in Nat
  BY RecordsAssumption
<1> QED
  BY <1>1, <1>2, <1>3, <1>4, <1>5

(* What an update and an insert add, stamp and set. *)
LEMMA UpdatedAdded ==
  ASSUME NEW d \in Document, NEW r \in Records, Type[r] \notin {"user_del", "track_overwrite"},
         NEW q \in Records, Type[q] \in Additive
  PROVE  Updated(d, r).added[q] = IF q = r THEN d.added[q] + 1 ELSE d.added[q]
<1>1. CASE Type[r] = "track"
  <2>1. Updated(d, r) = d /\ q # r
    BY <1>1 DEF Updated, Additive
  <2> QED
    BY <2>1
<1>2. CASE Type[r] # "track"
  <2>1. Updated(d, r).added = Added(d, r)
    BY <1>2 DEF Updated
  <2> QED
    BY <2>1 DEF Added, Additive
<1> QED
  BY <1>1, <1>2

LEMMA InsertedAdded ==
  ASSUME NEW r \in Records, NEW q \in Records, Type[q] \in Additive
  PROVE  Inserted(r).added[q] = IF q = r THEN 1 ELSE 0
  BY DEF Inserted

LEMMA UpdatedTs ==
  ASSUME NEW d \in Document, NEW r \in Records, Type[r] # "user_del"
  PROVE  /\ Updated(d, r).ts \in {d.ts, Ts[r]}
         /\ Type[r] \in Guarded => Updated(d, r).ts = Ts[r]
<1>1. Inserted(r).ts = Ts[r]
  BY InsertedDocument
<1> QED
  BY <1>1 DEF Updated, Newer, Guarded

(* A guarded record has all its fields; others leave what is there. *)
LEMMA UpdatedSrc ==
  ASSUME NEW d \in Document, NEW r \in Records, Type[r] # "user_del"
  PROVE  /\ Type[r] \in Guarded =>
              \A f \in Data[r] : f \in DOMAIN Updated(d, r).src /\ Updated(d, r).src[f] = r
         /\ Type[r] # "track_overwrite" =>
              /\ DOMAIN d.src \subseteq DOMAIN Updated(d, r).src
              /\ \A f \in DOMAIN Updated(d, r).src :
                   \/ Type[r] \in Guarded /\ Updated(d, r).src[f] = r
                   \/ f \in DOMAIN d.src /\ Updated(d, r).src[f] = d.src[f]
<1>1. CASE Type[r] = "track"
  BY <1>1 DEF Updated, Guarded
<1>2. CASE Type[r] = "track_overwrite"
  <2>1. Updated(d, r) = Inserted(r)
    BY <1>2 DEF Updated
  <2>2. Inserted(r).src = [f \in Data[r] |-> r]
    BY <1>2 DEF Inserted
  <2> QED
    BY <1>2, <2>1, <2>2
<1>3. CASE Type[r] \in Guarded /\ Type[r] # "track_overwrite"
  <2>1. Updated(d, r).src = Written(d, r)
    BY <1>3 DEF Updated, Guarded
  <2>2. /\ DOMAIN Written(d, r) = DOMAIN d.src \cup Data[r]
        /\ \A f \in DOMAIN Written(d, r) :
             Written(d, r)[f] = IF f \in Data[r] THEN r ELSE d.src[f]
    BY DEF Written
  <2> QED
    BY <1>3, <2>1, <2>2
<1>4. CASE Type[r] \notin Guarded \cup {"track"}
  <2>1. Updated(d, r).src = d.src
    BY <1>4 DEF Updated, Guarded
  <2> QED
    BY <1>4, <2>1
<1> QED
  BY <1>1, <1>2, <1>3, <1>4

LEMMA InsertedStands ==
  ASSUME NEW r \in Records
  PROVE  StandsIn(Inserted(r), r) \/ Type[r] \notin Guarded
<1> SUFFICES ASSUME Type[r] \in Guarded
             PROVE  StandsIn(Inserted(r), r)
  OBVIOUS
<1>1. Ts[r] \in Nat
  BY RecordsAssumption
<1>2. \A f \in DOMAIN Inserted(r).src : Inserted(r).src[f] = r
  BY DEF Inserted
<1>3. Type[r] # "user_unset" => DOMAIN Inserted(r).src = Data[r]
  BY DEF Inserted, Guarded
<1> QED
  BY <1>1, <1>2, <1>3 DEF StandsIn

LEMMA UpdatedStands ==
  ASSUME NEW r \in Records, NEW d \in Document, Type[r] \in Guarded
  PROVE  StandsIn(Updated(d, r), r)
<1>1. Ts[r] \in Nat /\ Type[r] # "user_del"
  BY RecordsAssumption DEF Guarded
<1> QED
  BY <1>1, UpdatedSrc DEF StandsIn

(* What stands goes on standing, when nothing newer than it is written and   *)
(* no replacement is.                                                        *)
LEMMA StandsOn ==
  ASSUME NEW d \in Document, NEW q \in Records, NEW r \in Records, StandsIn(d, q), d.ts >= Ts[q],
         Matches(d, r), Type[r] \notin {"user_del", "track_overwrite"}
  PROVE  Updated(d, r).ts >= Ts[q] /\ StandsIn(Updated(d, r), q)
<1>1. d.ts \in Nat /\ Ts[q] \in Nat /\ Ts[r] \in Nat
  BY RecordsAssumption DEF Document
<1>2. Type[r] \in Guarded => Ts[r] >= Ts[q]
  BY <1>1 DEF Matches
<1>3. Updated(d, r).ts >= Ts[q]
  <2>1. CASE Type[r] \in Guarded
    BY <1>2, <2>1, UpdatedTs
  <2>2. CASE Type[r] = "track"
    BY <2>2 DEF Updated
  <2>3. CASE Type[r] \notin Guarded \cup {"track"}
    <3>1. Updated(d, r).ts = Newer(d.ts, Ts[r])
      BY <2>3 DEF Updated, Guarded
    <3> QED
      BY <1>1, <3>1 DEF Newer
  <2> QED
    BY <2>1, <2>2, <2>3
<1>4. /\ DOMAIN d.src \subseteq DOMAIN Updated(d, r).src
      /\ \A f \in DOMAIN Updated(d, r).src :
           \/ Type[r] \in Guarded /\ Updated(d, r).src[f] = r
           \/ f \in DOMAIN d.src /\ Updated(d, r).src[f] = d.src[f]
  BY UpdatedSrc
<1>5. \A f \in Data[q] : Type[q] # "user_unset" => f \in DOMAIN Updated(d, r).src
  BY <1>4 DEF StandsIn
<1>6. \A f \in Data[q] : f \in DOMAIN Updated(d, r).src => Ts[Updated(d, r).src[f]] >= Ts[q]
  BY <1>2, <1>4 DEF StandsIn
<1> QED
  BY <1>3, <1>5, <1>6 DEF StandsIn

-----------------------------------------------------------------------------
(* The steps. *)

LEMMA FullInit == Init => FullInv
<1> SUFFICES ASSUME Init
             PROVE  FullInv
  OBVIOUS
<1>1. IInv
  BY InitIInv
<1>2. TypeOK
  BY <1>1 DEF IInv
<1>3. \A r \in Writes : st[r] = "todo"
  BY <1>2, WritesFacts DEF Init
<1>4. \A b \in Batch : bpc[b] = "writing" /\ attempt[b] = 1
  BY DEF Init
<1>5. doc = NoDoc \/ \E e \in Earlier : doc = Inserted(e)
  BY DEF Init
<1>6. AppliedInv
  BY <1>3, <1>4 DEF AppliedInv
<1>7. AddInv
  <2> SUFFICES ASSUME NEW b \in Batch, NEW r \in models[b], Type[r] \in Additive, doc # NoDoc
               PROVE  doc.added[r] = 0
    BY <1>2, <1>3, <1>4, WritesFacts DEF AddInv
  <2>1. PICK e \in Earlier : doc = Inserted(e)
    BY <1>5
  <2>2. r # e
    BY OnceAssumption DEF Init
  <2> QED
    BY <1>2, <2>1, <2>2, WritesFacts, InsertedAdded
<1>8. TsInv
  BY <1>2, <1>5, WritesFacts, InsertedDocument DEF TsInv
<1>9. StickInv
  BY <1>3 DEF StickInv
<1> QED
  BY <1>1, <1>6, <1>7, <1>8, <1>9 DEF FullInv

LEMMA UpdateKeeps ==
  ASSUME FullInv, IInv', NEW b \in Batch, NEW r \in models[b], Update(b, r)
  PROVE  FullInv'
<1>1. TypeOK /\ r \in Records /\ r \in Writes
  BY WritesFacts DEF FullInv, IInv
<1>2. /\ UNCHANGED <<models, bpc, attempt, lost>> /\ bpc[b] = "writing" /\ st[r] = "todo"
      /\ st' = [st EXCEPT ![r] = "done"]
  BY DEF Update
<1>3. Writes' = Writes /\ \A q \in Records : Newest(q)' <=> Newest(q)
  BY <1>2 DEF Writes, Newest
<1>4. /\ st'[r] = "done" /\ \A q \in Records : q # r => st'[q] = st[q]
  BY <1>1, <1>2 DEF TypeOK
<1>5. \A c \in Batch : bpc'[c] = "done" => AllApplied(c)'
  BY <1>1, <1>2, <1>4, WritesFacts DEF FullInv, AppliedInv, AllApplied
<1>6. CASE Type[r] = "user_del"
  <2>1. doc' = NoDoc /\ deleted'
    BY <1>6 DEF Update
  <2>2. AppliedInv' /\ TsInv'
    BY <1>5, <2>1 DEF AppliedInv, TsInv
  <2>3. AddInv'
    BY <1>1, <1>2, <1>4, <2>1, WritesFacts DEF FullInv, AddInv
  <2>4. StickInv'
    BY <1>1, <1>2, <1>3, <1>4, <2>1, WritesFacts DEF FullInv, StickInv
  <2> QED
    BY <2>2, <2>3, <2>4 DEF FullInv
<1>7. CASE Type[r] # "user_del"
  <2>1. doc # NoDoc /\ Matches(doc, r) /\ doc' = Updated(doc, r) /\ deleted' = deleted
    BY <1>7 DEF Update
  <2>2. doc \in Document
    BY <1>1, <2>1 DEF TypeOK
  <2>3. doc' # NoDoc
    <3>1. Forward(doc, doc')
      BY <1>1, <1>7, <2>1, <2>2, UpdatedForward DEF FullInv, IInv
    <3> QED
      BY <3>1, NoDocAssumption DEF Forward
  <2>4. AppliedInv'
    BY <1>5, <2>3 DEF AppliedInv
  <2>5. TsInv'
    BY <1>1, <1>3, <1>7, <2>1, <2>2, UpdatedTs, WritesFacts DEF FullInv, TsInv
  <2>6. AddInv'
    <3> SUFFICES ASSUME NEW c \in Batch, NEW q \in models[c], Type[q] \in Additive
                 PROVE  /\ st'[q] = "duplicate" => q \in lost
                        /\ doc'.added[q] <= attempt[c]
                        /\ st'[q] # "done" => doc'.added[q] + 1 <= attempt[c]
                        /\ st'[q] = "done" /\ ~deleted => doc'.added[q] >= 1
      BY <1>2, <2>1 DEF AddInv
    <3>1. q \in Records /\ q \in Writes /\ doc.added[q] \in Nat /\ attempt[c] \in Nat
      BY <1>1, <2>2, WritesFacts, AttemptsAssumption DEF Document, TypeOK
    <3>2. Type[r] # "track_overwrite"
      BY <1>1, <3>1, WritesFacts DEF EventTypes, Additive
    <3>3. doc'.added[q] = IF q = r THEN doc.added[q] + 1 ELSE doc.added[q]
      BY <1>1, <1>7, <2>1, <2>2, <3>1, <3>2, UpdatedAdded
    <3>4. /\ st[q] = "duplicate" => q \in lost
          /\ doc.added[q] <= attempt[c]
          /\ st[q] # "done" => doc.added[q] + 1 <= attempt[c]
          /\ st[q] = "done" /\ ~deleted => doc.added[q] >= 1
      BY <2>1 DEF FullInv, AddInv
    <3>5. CASE q = r
      BY <1>2, <1>4, <3>1, <3>3, <3>4, <3>5
    <3>6. CASE q # r
      BY <1>4, <3>1, <3>3, <3>4, <3>6
    <3> QED
      BY <3>5, <3>6
  <2>7. StickInv'
    <3> SUFFICES ASSUME NEW q \in Writes, Newest(q)
                 PROVE  /\ st'[q] = "duplicate" => q \in lost
                        /\ st'[q] = "done" /\ ~deleted => doc'.ts >= Ts[q] /\ StandsIn(doc', q)
      BY <1>1, <1>2, <1>3, <2>1, WritesFacts DEF StickInv, StandsIn
    <3>1. q \in Records /\ Type[q] \in Guarded /\ Ts[q] \in Nat
      BY <1>1, WritesFacts DEF Newest
    <3>2. CASE q = r
      <4>1. doc'.ts = Ts[q]
        BY <1>7, <2>1, <2>2, <3>1, <3>2, UpdatedTs
      <4>2. StandsIn(doc', q)
        BY <2>1, <2>2, <3>1, <3>2, UpdatedStands
      <4> QED
        BY <1>4, <3>1, <3>2, <4>1, <4>2
    <3>3. CASE q # r
      <4>1. st'[q] = st[q]
        BY <1>4, <3>1, <3>3
      <4>2. ASSUME st[q] = "done", ~deleted
            PROVE  doc'.ts >= Ts[q] /\ StandsIn(doc', q)
        <5>1. doc.ts >= Ts[q] /\ StandsIn(doc, q)
          BY <4>2 DEF FullInv, StickInv
        <5>2. Type[r] # "track_overwrite"
          <6>1. Type[r] = "track_overwrite" => Ts[r] < Ts[q] /\ doc.ts <= Ts[r]
            BY <1>1, <2>1, <3>3 DEF Newest, Matches, Guarded
          <6>2. doc.ts \in Nat /\ Ts[r] \in Nat
            BY <1>1, <2>2, WritesFacts DEF Document
          <6> QED
            BY <3>1, <5>1, <6>1, <6>2
        <5> QED
          BY <1>1, <1>7, <2>1, <2>2, <3>1, <5>1, <5>2, StandsOn
      <4> QED
        BY <4>1, <4>2 DEF FullInv, StickInv
    <3> QED
      BY <3>2, <3>3
  <2> QED
    BY <2>4, <2>5, <2>6, <2>7 DEF FullInv
<1> QED
  BY <1>6, <1>7

LEMMA InsertKeeps ==
  ASSUME FullInv, IInv', NEW b \in Batch, NEW r \in models[b], Insert(b, r)
  PROVE  FullInv'
<1>1. TypeOK /\ r \in Records /\ r \in Writes
  BY WritesFacts DEF FullInv, IInv
<1>2. /\ UNCHANGED <<models, bpc, attempt, lost, deleted>> /\ bpc[b] = "writing" /\ st[r] = "insert"
      /\ st' = [st EXCEPT ![r] = "done"] /\ doc = NoDoc /\ doc' = Inserted(r)
  BY DEF Insert
<1>3. Writes' = Writes /\ \A q \in Records : Newest(q)' <=> Newest(q)
  BY <1>2 DEF Writes, Newest
<1>4. /\ st'[r] = "done" /\ \A q \in Records : q # r => st'[q] = st[q]
  BY <1>1, <1>2 DEF TypeOK
<1>5. doc' # NoDoc /\ doc'.ts = Ts[r]
  BY <1>1, <1>2, InsertedDocument, NoDocAssumption
<1>6. \A q \in Writes : q # r /\ st[q] = "done" => deleted
  BY <1>2 DEF FullInv, AppliedInv
<1>7. AppliedInv'
  <2>1. \A c \in Batch : bpc'[c] = "done" => AllApplied(c)'
    BY <1>1, <1>2, <1>4, WritesFacts DEF FullInv, AppliedInv, AllApplied
  <2> QED
    BY <1>5, <2>1 DEF AppliedInv
<1>8. TsInv'
  BY <1>1, <1>3, <1>5 DEF TsInv
<1>9. AddInv'
  <2> SUFFICES ASSUME NEW c \in Batch, NEW q \in models[c], Type[q] \in Additive
               PROVE  /\ st'[q] = "duplicate" => q \in lost
                      /\ doc'.added[q] <= attempt[c]
                      /\ st'[q] # "done" => doc'.added[q] + 1 <= attempt[c]
                      /\ st'[q] = "done" /\ ~deleted => doc'.added[q] >= 1
    BY <1>2 DEF AddInv
  <2>1. q \in Records /\ q \in Writes /\ attempt[c] \in Nat /\ attempt[c] >= 1
    BY <1>1, WritesFacts, AttemptsAssumption DEF TypeOK
  <2>2. doc'.added[q] = IF q = r THEN 1 ELSE 0
    BY <1>1, <1>2, <2>1, InsertedAdded
  <2>3. CASE q = r
    BY <1>4, <2>1, <2>2, <2>3
  <2>4. CASE q # r
    <3>1. st'[q] = st[q] /\ (st[q] = "duplicate" => q \in lost)
      BY <1>4, <2>1, <2>4 DEF FullInv, AddInv
    <3> QED
      BY <1>6, <2>1, <2>2, <2>4, <3>1
  <2> QED
    BY <2>3, <2>4
<1>10. StickInv'
  <2> SUFFICES ASSUME NEW q \in Writes, Newest(q)
               PROVE  /\ st'[q] = "duplicate" => q \in lost
                      /\ st'[q] = "done" /\ ~deleted => doc'.ts >= Ts[q] /\ StandsIn(doc', q)
    BY <1>1, <1>2, <1>3, WritesFacts DEF StickInv, StandsIn
  <2>1. q \in Records /\ Type[q] \in Guarded /\ Ts[q] \in Nat
    BY <1>1, WritesFacts DEF Newest
  <2>2. CASE q = r
    BY <1>2, <1>4, <1>5, <2>1, <2>2, InsertedStands
  <2>3. CASE q # r
    BY <1>4, <1>6, <2>1, <2>3 DEF FullInv, StickInv
  <2> QED
    BY <2>2, <2>3
<1> QED
  BY <1>7, <1>8, <1>9, <1>10 DEF FullInv

(* A step that leaves the document alone and finishes no model. *)
LEMMA QuietKeeps ==
  ASSUME FullInv, IInv', UNCHANGED <<models, doc, deleted>>, lost \subseteq lost',
         \A q \in Records : st'[q] = "done" => st[q] = "done",
         \A q \in Writes : st'[q] = "duplicate" =>
           st[q] = "duplicate" \/ q \in lost' \/ (Type[q] \notin Additive /\ ~Newest(q)),
         \A c \in Batch : attempt'[c] = attempt[c] \/ attempt'[c] = attempt[c] + 1,
         \A c \in Batch : \A q \in models[c] :
           st[q] = "done" /\ st'[q] # "done" => attempt'[c] = attempt[c] + 1,
         \A c \in Batch : bpc'[c] = "done" => AllApplied(c)'
  PROVE  FullInv'
<1>1. TypeOK /\ Writes' = Writes /\ \A q \in Records : Newest(q)' <=> Newest(q)
  BY DEF FullInv, IInv, Writes, Newest
<1>2. AppliedInv'
  BY <1>1, WritesFacts DEF FullInv, AppliedInv
<1>3. TsInv'
  BY <1>1 DEF FullInv, TsInv
<1>4. AddInv'
  <2> SUFFICES ASSUME NEW c \in Batch, NEW q \in models[c], Type[q] \in Additive
               PROVE  /\ st'[q] = "duplicate" => q \in lost'
                      /\ doc # NoDoc => /\ doc.added[q] <= attempt'[c]
                                        /\ st'[q] # "done" => doc.added[q] + 1 <= attempt'[c]
                                        /\ st'[q] = "done" /\ ~deleted => doc.added[q] >= 1
    BY DEF AddInv
  <2>1. q \in Records /\ q \in Writes /\ attempt[c] \in Nat
    BY <1>1, WritesFacts, AttemptsAssumption DEF TypeOK
  <2>2. /\ st[q] = "duplicate" => q \in lost
        /\ doc # NoDoc => /\ doc.added[q] <= attempt[c]
                          /\ st[q] # "done" => doc.added[q] + 1 <= attempt[c]
                          /\ st[q] = "done" /\ ~deleted => doc.added[q] >= 1
    BY DEF FullInv, AddInv
  <2>3. st'[q] = "duplicate" => q \in lost'
    BY <2>1, <2>2
  <2>4. doc # NoDoc => doc.added[q] \in Nat
    BY <1>1, <2>1 DEF TypeOK, Document
  <2> QED
    BY <2>1, <2>2, <2>3, <2>4
<1>5. StickInv'
  <2> SUFFICES ASSUME NEW q \in Writes, Newest(q)
               PROVE  /\ st'[q] = "duplicate" => q \in lost'
                      /\ st'[q] = "done" /\ ~deleted => doc.ts >= Ts[q] /\ StandsIn(doc, q)
    BY <1>1, WritesFacts DEF StickInv, StandsIn
  <2> QED
    BY <1>1, WritesFacts DEF FullInv, StickInv
<1> QED
  BY <1>2, <1>3, <1>4, <1>5 DEF FullInv

LEMMA NoMatchKeeps ==
  ASSUME FullInv, IInv', NEW b \in Batch, NEW r \in models[b], NoMatch(b, r)
  PROVE  FullInv'
<1>1. TypeOK /\ r \in Records
  BY WritesFacts DEF FullInv, IInv
<1>2. /\ UNCHANGED <<models, doc, bpc, attempt, lost, deleted>> /\ bpc[b] = "writing" /\ st[r] = "todo"
      /\ st' = [st EXCEPT ![r] = "insert"]
  BY DEF NoMatch
<1>3. /\ st'[r] = "insert" /\ \A q \in Records : q # r => st'[q] = st[q]
  BY <1>1, <1>2 DEF TypeOK
<1>4. \A c \in Batch : bpc'[c] = "done" => AllApplied(c)'
  BY <1>1, <1>2, <1>3, WritesFacts DEF FullInv, AppliedInv, AllApplied
<1> QED
  BY <1>1, <1>2, <1>3, <1>4, WritesFacts, QuietKeeps

(* Only the key of the newest record can refuse it, and that loss is noted.  *)
LEMMA DuplicateKeyKeeps ==
  ASSUME FullInv, IInv', NEW b \in Batch, NEW r \in models[b], DuplicateKey(b, r)
  PROVE  FullInv'
<1>1. TypeOK /\ r \in Records /\ r \in Writes
  BY WritesFacts DEF FullInv, IInv
<1>2. /\ UNCHANGED <<models, doc, bpc, attempt, deleted>> /\ bpc[b] = "writing" /\ st[r] = "insert"
      /\ doc # NoDoc
      /\ \/ st' = [st EXCEPT ![r] = "todo"] /\ UNCHANGED lost
         \/ /\ st' = [st EXCEPT ![r] = "duplicate"]
            /\ lost' = IF Matches(doc, r) /\ Type[r] # "track" THEN lost \cup {r} ELSE lost
  BY DEF DuplicateKey
<1>3. /\ st'[r] \in {"todo", "duplicate"} /\ \A q \in Records : q # r => st'[q] = st[q]
      /\ lost \subseteq lost'
  BY <1>1, <1>2 DEF TypeOK
<1>4. \A c \in Batch : bpc'[c] = "done" => AllApplied(c)'
  BY <1>1, <1>2, <1>3, WritesFacts DEF FullInv, AppliedInv, AllApplied
<1>5. st'[r] = "duplicate" => r \in lost' \/ (Type[r] \notin Additive /\ ~Newest(r))
  <2>1. CASE Matches(doc, r) /\ Type[r] # "track"
    BY <1>1, <1>2, <2>1 DEF TypeOK
  <2>2. CASE Type[r] = "track"
    BY <2>2 DEF Additive, Newest, Guarded
  <2>3. CASE ~Matches(doc, r)
    <3>1. Type[r] \in Guarded /\ ~(doc.ts <= Ts[r])
      BY <2>3 DEF Matches
    <3>2. PICK q \in Writes \cup Earlier : doc.ts = Ts[q]
      BY <1>2 DEF FullInv, TsInv
    <3> QED
      BY <3>1, <3>2 DEF Newest, Additive, Guarded
  <2> QED
    BY <2>1, <2>2, <2>3
<1> QED
  BY <1>1, <1>2, <1>3, <1>4, <1>5, WritesFacts, QuietKeeps

LEMMA SucceedKeeps ==
  ASSUME FullInv, IInv', NEW b \in Batch, Succeed(b)
  PROVE  FullInv'
<1>1. TypeOK
  BY DEF FullInv, IInv
<1>2. /\ UNCHANGED <<models, doc, st, attempt, lost, deleted>> /\ AllApplied(b)
      /\ bpc' = [bpc EXCEPT ![b] = "done"]
  BY DEF Succeed
<1>3. \A c \in Batch : bpc'[c] = "done" => AllApplied(c)'
  BY <1>1, <1>2 DEF TypeOK, FullInv, AppliedInv, AllApplied
<1> QED
  BY <1>2, <1>3, QuietKeeps

LEMMA FailKeeps ==
  ASSUME FullInv, IInv', NEW b \in Batch, Fail(b)
  PROVE  FullInv'
<1>1. TypeOK /\ bpc[b] = "writing" /\ UNCHANGED <<models, doc, lost, deleted>>
  BY DEF FullInv, IInv, Fail
<1>2. CASE GiveUp(b)
  <2>1. bpc' = [bpc EXCEPT ![b] = "failed"] /\ UNCHANGED <<attempt, st>>
    BY <1>2 DEF GiveUp
  <2>2. \A c \in Batch : bpc'[c] = "done" => AllApplied(c)'
    BY <1>1, <2>1 DEF TypeOK, FullInv, AppliedInv, AllApplied
  <2> QED
    BY <1>1, <2>1, <2>2, QuietKeeps
<1>3. CASE TryAgain(b)
  <2>1. /\ attempt' = [attempt EXCEPT ![b] = @ + 1] /\ UNCHANGED bpc
        /\ st' = [r \in Records |-> IF r \in models[b] THEN "todo" ELSE st[r]]
    BY <1>3 DEF TryAgain
  <2>2. /\ attempt'[b] = attempt[b] + 1 /\ \A c \in Batch : c # b => attempt'[c] = attempt[c]
        /\ \A q \in Records : st'[q] = IF q \in models[b] THEN "todo" ELSE st[q]
    BY <1>1, <2>1 DEF TypeOK
  <2>3. \A c \in Batch : \A q \in models[c] : c # b => st'[q] = st[q]
    BY <1>1, <2>2, WritesFacts
  <2>4. \A c \in Batch : bpc'[c] = "done" => AllApplied(c)'
    BY <1>1, <2>1, <2>3 DEF FullInv, AppliedInv, AllApplied
  <2>5. \A c \in Batch : \A q \in models[c] : st[q] = "done" /\ st'[q] # "done" => attempt'[c] = attempt[c] + 1
    BY <2>2, <2>3
  <2>6. /\ \A q \in Records : st'[q] = "done" => st[q] = "done"
        /\ \A q \in Writes : st'[q] = "duplicate" => st[q] = "duplicate"
        /\ \A c \in Batch : attempt'[c] = attempt[c] \/ attempt'[c] = attempt[c] + 1
    BY <1>1, <2>2, WritesFacts
  <2> QED
    BY <1>1, <2>4, <2>5, <2>6, QuietKeeps
<1> QED
  BY <1>2, <1>3 DEF Fail

LEMMA FullStep == FullInv /\ [Next]_vars => FullInv'
<1> SUFFICES ASSUME FullInv, [Next]_vars
             PROVE  FullInv'
  OBVIOUS
<1>1. IInv'
  BY NextIInv DEF FullInv
<1>2. ASSUME Finished \/ UNCHANGED vars
      PROVE  FullInv'
  <2>1. UNCHANGED <<models, doc, st, bpc, attempt, lost, deleted>>
    BY <1>2 DEF Finished, vars
  <2>2. \A c \in Batch : bpc'[c] = "done" => AllApplied(c)'
    BY <2>1 DEF FullInv, AppliedInv, AllApplied
  <2> QED
    BY <1>1, <2>1, <2>2, QuietKeeps
<1> QED
  BY <1>1, <1>2, UpdateKeeps, InsertKeeps, NoMatchKeeps, DuplicateKeyKeeps, SucceedKeeps, FailKeeps
     DEF Next, Server

LEMMA FullInvariance == Spec => []FullInv
  BY FullInit, FullStep, PTL DEF Spec

-----------------------------------------------------------------------------
(* A counting or collecting record is applied at most once per attempt, and  *)
(* at least once when its batch succeeds: what a failure and the retry of    *)
(* the whole batch can double (UserWriteModel, bulkWrite).                   *)
THEOREM AppliedPerAttempt == Spec => []AddedPerAttempt
<1>1. ASSUME FullInv, doc # NoDoc, NEW b \in Batch, NEW r \in models[b], Type[r] \in Additive
      PROVE  /\ doc.added[r] <= attempt[b]
             /\ bpc[b] = "done" /\ lost = {} /\ ~deleted => doc.added[r] >= 1
  <2>1. doc.added[r] <= attempt[b]
    BY <1>1 DEF FullInv, AddInv
  <2>2. bpc[b] = "done" /\ lost = {} => st[r] = "done"
    BY <1>1 DEF FullInv, AppliedInv, AddInv, AllApplied
  <2> QED
    BY <1>1, <2>1, <2>2 DEF FullInv, AddInv
<1>2. FullInv => AddedPerAttempt
  BY <1>1 DEF AddedPerAttempt
<1> QED
  BY <1>2, FullInvariance, PTL

(* When every batch has succeeded, no upsert lost the race to create the     *)
(* document and nobody deleted it, the newest guarded record is in it,       *)
(* however the models of all batches and their retries interleaved.          *)
THEOREM NewestIsKept == Spec => []NewestSticks
<1>1. ASSUME FullInv, AllDone, lost = {}, ~deleted, NEW r \in Writes, Newest(r)
      PROVE  Stands(r)
  <2>1. st[r] = "done"
    <3>1. PICK b \in Batch : r \in models[b]
      BY DEF Writes
    <3>2. st[r] \in {"done", "duplicate"}
      BY <1>1, <3>1 DEF FullInv, AppliedInv, AllApplied, AllDone
    <3> QED
      BY <1>1, <3>2 DEF FullInv, StickInv
  <2>2. StandsIn(doc, r)
    BY <1>1, <2>1 DEF FullInv, StickInv
  <2> QED
    BY <2>2 DEF StandsIn, Stands
<1>2. FullInv => NewestSticks
  BY <1>1 DEF NewestSticks
<1> QED
  BY <1>2, FullInvariance, PTL
=============================================================================
