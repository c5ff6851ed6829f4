------------------------------ MODULE Identity ------------------------------
(***************************************************************************)
(* The identity resolver (internal/dao/store/identity*.go): workers of      *)
(* several pods map the #account_id and #distinct_id of their records to a  *)
(* #user_id.  Each pod has one pair of read-through caches; the id_mapping  *)
(* and id_counter collections are shared.  Every MongoDB call is one step,  *)
(* so any other worker's call may come between two of them.                 *)
(***************************************************************************)
EXTENDS Integers, FiniteSets

CONSTANTS
  Worker,       (* the goroutines that resolve records                       *)
  Pods,         (* the processes they belong to                              *)
  PodOf,        (* the process of each worker                                *)
  Accounts,     (* #account_id values                                        *)
  Distincts,    (* #distinct_id values                                       *)
  NoID,         (* the empty id: a record lacks it, a mapping is not bound   *)
  MaxAttempts,  (* maxAttempts of nextUserID                                 *)
  Setups        (* the workloads to start with: the workers that take part;  *)
                (* the <<account, distinct>> pairs their records carry; a    *)
                (* bound on the calls of Resolve; stable, TRUE if a lookup   *)
                (* returns the first matching document inserted, FALSE if    *)
                (* any; faults, TRUE if any MongoDB call may fail or lose    *)
                (* its reply                                                 *)

IDPairs == ((Accounts \cup {NoID}) \X (Distincts \cup {NoID})) \ {<<NoID, NoID>>}

ASSUME IDsAssumption ==
  /\ NoID \notin Accounts \cup Distincts
  /\ PodOf \in [Worker -> Pods]
  /\ MaxAttempts \in Nat /\ MaxAttempts > 1  \* 8 in the code
  /\ IsFiniteSet(Worker)

ASSUME SetupsAssumption ==
  \A s \in Setups :
    /\ s.workers \subseteq Worker
    /\ s.records \subseteq IDPairs
    /\ s.calls \in Nat
    /\ s.stable \in BOOLEAN /\ s.faults \in BOOLEAN

VARIABLES
  setup,    (* the workload, fixed at the start                              *)
  mapping,  (* id_mapping: a function from the #user_id of its documents     *)
  inserted, (* how many documents were ever inserted                         *)
  seq,      (* id_counter: the last #user_id given out, 0 before it exists   *)
  cache,    (* per pod, the two caches; 0 for an id that is not cached       *)
  pc,       (* per worker, the MongoDB call it is about to make              *)
  rec,      (* the ids it is resolving                                       *)
  am, dm,   (* the account's and the distinct id's mapping, as it read them  *)
  uid,      (* the #user_id it took from the counter                         *)
  goal,     (* what it creates: a mapping for "account", "distinct", "both"  *)
  attempt,  (* failed attempts to create the counter                         *)
  resolves, (* calls of Resolve so far                                       *)
  answers,  (* every <<account, distinct, #user_id>> that was returned       *)
  errored   (* some call returned an error                                   *)

dbVars   == <<mapping, inserted, seq>>
procVars == <<rec, am, dm, uid, goal, attempt>>
outVars  == <<resolves, answers, errored>>
vars     == <<setup, dbVars, cache, pc, procVars, outVars>>

Uids == 1 .. setup.calls

Acc(p) == rec[p][1]
Did(p) == rec[p][2]

(* A document as a worker reads it; uid 0 for no document. *)
None == [uid |-> 0, acc |-> NoID, dids |-> {}]

Read(u) == [uid |-> u, acc |-> mapping[u].acc, dids |-> mapping[u].dids]

(***************************************************************************)
(* id_mapping and its indexes: #user_id and #account_id are unique, the     *)
(* latter sparse; #distinct_ids is not unique.                              *)
(***************************************************************************)

WithAccount(a)  == {u \in DOMAIN mapping : mapping[u].acc = a}
WithDistinct(d) == {u \in DOMAIN mapping : d \in mapping[u].dids}

(* FindOne on #account_id. *)
AccountLookup(a) ==
  IF WithAccount(a) = {} THEN {None} ELSE {Read(u) : u \in WithAccount(a)}

(* FindOne on #distinct_ids, without a sort. *)
DistinctLookup(d) ==
  LET first == {u \in WithDistinct(d) :
                  \A v \in WithDistinct(d) : mapping[u].rank <= mapping[v].rank}
  IN  IF WithDistinct(d) = {} THEN {None}
      ELSE {Read(u) : u \in IF setup.stable THEN first ELSE WithDistinct(d)}

InsertDoc(u, a, D) ==
  /\ mapping' = [v \in DOMAIN mapping \cup {u} |->
                   IF v = u THEN [acc |-> a, dids |-> D, rank |-> inserted] ELSE mapping[v]]
  /\ inserted' = inserted + 1

DeleteDoc(u) == mapping' = [v \in DOMAIN mapping \ {u} |-> mapping[v]]

(***************************************************************************)
(* The caches of one pod, c = [acc |-> accountCache, did |-> distinctCache] *)
(***************************************************************************)

CacheAccount(c, a, u)  == [c EXCEPT !.acc[a] = u]
CacheDistinct(c, d, u) == [c EXCEPT !.did[d] = u]

CacheMapping(c, m) ==
  [acc |-> [a \in Accounts |-> IF a = m.acc THEN m.uid ELSE c.acc[a]],
   did |-> [d \in Distincts |-> IF d \in m.dids THEN m.uid ELSE c.did[d]]]

MyCache(p) == cache[PodOf[p]]

(* The #user_id the caches give the ids, or 0. *)
CacheHit(c, a, d) ==
  IF a # NoID /\ d # NoID THEN (IF c.did[d] # 0 THEN c.acc[a] ELSE 0)
  ELSE IF a # NoID THEN c.acc[a] ELSE c.did[d]

(* Resolve returns u and leaves the pod's caches at c, or it returns an error. *)
Answer(p, u, c) ==
  /\ pc' = [pc EXCEPT ![p] = "idle"]
  /\ cache' = [cache EXCEPT ![PodOf[p]] = c]
  /\ answers' = answers \cup {<<Acc(p), Did(p), u>>}
  /\ UNCHANGED errored

GiveUp(p) ==
  /\ pc' = [pc EXCEPT ![p] = "idle"]
  /\ errored' = TRUE
  /\ UNCHANGED <<cache, answers>>

(* The call was made and the resolver goes on to another one. *)
Goto(p, next) ==
  /\ pc' = [pc EXCEPT ![p] = next]
  /\ UNCHANGED <<cache, answers, errored>>

(* Its write was applied, but the reply may be lost. *)
LostReply(p) == setup.faults /\ GiveUp(p)

(***************************************************************************)
(* Resolve.                                                                 *)
(***************************************************************************)

Resolve(p, r) ==
  /\ pc[p] = "idle" /\ p \in setup.workers
  /\ resolves < setup.calls
  /\ resolves' = resolves + 1
  /\ rec' = [rec EXCEPT ![p] = r]
  /\ am' = [am EXCEPT ![p] = None]
  /\ dm' = [dm EXCEPT ![p] = None]
  /\ LET hit == CacheHit(MyCache(p), r[1], r[2])
     IN  IF hit # 0
         THEN /\ answers' = answers \cup {<<r[1], r[2], hit>>}
              /\ UNCHANGED <<pc, cache, errored>>
         ELSE Goto(p, IF r[1] # NoID THEN "findAccount" ELSE "findDistinct")
  /\ UNCHANGED <<dbVars, uid, goal, attempt, setup>>

(* Take a new #user_id, in order to create a mapping. *)
Create(p, what) ==
  /\ goal' = [goal EXCEPT ![p] = what]
  /\ attempt' = [attempt EXCEPT ![p] = 0]
  /\ Goto(p, "nextUserID")

FindAccount(p) ==
  /\ pc[p] = "findAccount"
  /\ \E m \in AccountLookup(Acc(p)) :
       /\ am' = [am EXCEPT ![p] = m]
       /\ \/ /\ Did(p) # NoID
             /\ Goto(p, "findDistinct")
             /\ UNCHANGED <<goal, attempt>>
          \/ /\ Did(p) = NoID /\ m # None
             /\ Answer(p, m.uid, CacheMapping(MyCache(p), m))
             /\ UNCHANGED <<goal, attempt>>
          \/ /\ Did(p) = NoID /\ m = None
             /\ Create(p, "account")
  /\ UNCHANGED <<dbVars, rec, dm, uid, resolves, setup>>

(* Both mappings are read: what to do with them. *)
WithDistinctOnly(p, m) ==
  \/ /\ m # None
     /\ Answer(p, m.uid, CacheMapping(MyCache(p), m))
     /\ UNCHANGED <<goal, attempt>>
  \/ m = None /\ Create(p, "distinct")

WithBoth(p, m) ==
  \/ am[p] = None /\ m = None /\ Create(p, "both")
  \/ am[p] # None /\ m = None /\ Goto(p, "bindDistinct") /\ UNCHANGED <<goal, attempt>>
  \/ /\ am[p] = None /\ m # None /\ m.acc = NoID
     /\ Goto(p, "bindAccount")
     /\ UNCHANGED <<goal, attempt>>
  \/ am[p] = None /\ m # None /\ m.acc # NoID /\ Create(p, "account")
  \/ /\ am[p] # None /\ m # None
     /\ Answer(p, am[p].uid, CacheMapping(CacheMapping(MyCache(p), am[p]), m))
     /\ UNCHANGED <<goal, attempt>>

FindDistinct(p) ==
  /\ pc[p] = "findDistinct"
  /\ \E m \in DistinctLookup(Did(p)) :
       /\ dm' = [dm EXCEPT ![p] = m]
       /\ IF Acc(p) = NoID THEN WithDistinctOnly(p, m) ELSE WithBoth(p, m)
  /\ UNCHANGED <<dbVars, rec, am, uid, resolves, setup>>

(***************************************************************************)
(* nextUserID.  The upsert that creates the counter document may lose to    *)
(* another worker's and is then retried.                                    *)
(***************************************************************************)

NextUserID(p) ==
  /\ pc[p] = "nextUserID"
  /\ \/ /\ seq > 0
        /\ seq' = seq + 1
        /\ uid' = [uid EXCEPT ![p] = seq + 1]
        /\ Goto(p, "insert") \/ LostReply(p)
     \/ /\ seq = 0
        /\ Goto(p, "createCounter")
        /\ UNCHANGED <<seq, uid>>
  /\ UNCHANGED <<mapping, inserted, rec, am, dm, goal, attempt, resolves, setup>>

(* Faulty variant: the retry inserts again and never looks for the counter. *)
FaultyRetryInsert(p) ==
  /\ attempt' = [attempt EXCEPT ![p] = @ + 1]
  /\ Goto(p, "createCounter")

(* Faulty variant: the same, without a limit. *)
FaultyRetryForever(p) == UNCHANGED attempt /\ Goto(p, "createCounter")

(* Faulty variant: no retry. *)
FaultyNoRetry(p) == UNCHANGED attempt /\ GiveUp(p)

RetryCounter(p) ==
  /\ attempt' = [attempt EXCEPT ![p] = @ + 1]
  /\ IF attempt[p] + 1 < MaxAttempts THEN Goto(p, "nextUserID") ELSE GiveUp(p)

CreateCounter(p) ==
  /\ pc[p] = "createCounter"
  /\ \/ /\ seq = 0
        /\ seq' = 1
        /\ uid' = [uid EXCEPT ![p] = 1]
        /\ Goto(p, "insert") \/ LostReply(p)
        /\ UNCHANGED attempt
     \/ seq # 0 /\ RetryCounter(p) /\ UNCHANGED <<seq, uid>>
  /\ UNCHANGED <<mapping, inserted, rec, am, dm, goal, resolves, setup>>

(***************************************************************************)
(* The atomicCreate and atomicBind functions.                               *)
(***************************************************************************)

(* InsertOne; a duplicate #account_id is left to the worker that won. *)
Insert(p) ==
  /\ pc[p] = "insert"
  /\ LET a == IF goal[p] = "distinct" THEN NoID ELSE Acc(p)
         D == IF goal[p] = "account" THEN {} ELSE {Did(p)}
         c == CASE goal[p] = "account" -> CacheAccount(MyCache(p), a, uid[p])
                [] goal[p] = "both" ->
                     CacheDistinct(CacheAccount(MyCache(p), a, uid[p]), Did(p), uid[p])
                [] goal[p] = "distinct" -> MyCache(p)
     IN  \/ /\ a # NoID /\ WithAccount(a) # {}
            /\ Goto(p, "findWinner")
            /\ UNCHANGED <<mapping, inserted>>
         \/ /\ a = NoID \/ WithAccount(a) = {}
            /\ InsertDoc(uid[p], a, D)
            /\ \/ goal[p] = "distinct" /\ Goto(p, "verify")
               \/ goal[p] # "distinct" /\ Answer(p, uid[p], c)
               \/ LostReply(p)
  /\ UNCHANGED <<seq, procVars, resolves, setup>>

FindWinner(p) ==
  /\ pc[p] = "findWinner"
  /\ \E m \in AccountLookup(Acc(p)) :
       /\ am' = [am EXCEPT ![p] = m]
       /\ \/ m = None /\ GiveUp(p)
          \/ /\ m # None /\ goal[p] = "account"
             /\ Answer(p, m.uid, CacheMapping(MyCache(p), m))
          \/ m # None /\ goal[p] = "both" /\ Goto(p, "bindDistinct")
  /\ UNCHANGED <<dbVars, rec, dm, uid, goal, attempt, resolves, setup>>

(* Faulty variant: no second look. *)
FaultyVerify(p) ==
  /\ pc[p] = "verify"
  /\ Answer(p, uid[p], CacheDistinct(MyCache(p), Did(p), uid[p]))
  /\ UNCHANGED <<dbVars, procVars, resolves, setup>>

(* #distinct_ids has no unique index: look again after the insert. *)
Verify(p) ==
  /\ pc[p] = "verify"
  /\ \E m \in DistinctLookup(Did(p)) :
       /\ dm' = [dm EXCEPT ![p] = m]
       /\ \/ m # None /\ m.uid # uid[p] /\ Goto(p, "deleteOrphan")
          \/ /\ m = None \/ m.uid = uid[p]
             /\ Answer(p, uid[p], CacheDistinct(MyCache(p), Did(p), uid[p]))
  /\ UNCHANGED <<dbVars, rec, am, uid, goal, attempt, resolves, setup>>

(* Another document won: delete our own and adopt that one. *)
DeleteOrphan(p) ==
  /\ pc[p] = "deleteOrphan"
  /\ DeleteDoc(uid[p])
  /\ \/ Answer(p, dm[p].uid, CacheMapping(MyCache(p), dm[p]))
     \/ LostReply(p)
  /\ UNCHANGED <<inserted, seq, procVars, resolves, setup>>

(* The documents after $addToSet of d in document u. *)
AddDistinct(u, d) ==
  [v \in DOMAIN mapping |->
     IF v = u THEN [mapping[v] EXCEPT !.dids = @ \cup {d}] ELSE mapping[v]]

(* $addToSet on the account's document, which is not checked to exist. *)
BindDistinct(p) ==
  /\ pc[p] = "bindDistinct"
  /\ LET u == am[p].uid
     IN  /\ mapping' = AddDistinct(u, Did(p))
         /\ \/ Answer(p, u, CacheDistinct(CacheMapping(MyCache(p), am[p]), Did(p), u))
            \/ LostReply(p)
  /\ UNCHANGED <<inserted, seq, procVars, resolves, setup>>

(* Faulty variant: the update is not conditional on an unbound document. *)
FaultyBindable(u, a) == u \in DOMAIN mapping /\ WithAccount(a) = {}

(* Faulty variant: the index of #account_id is not unique. *)
FaultyBindableIndex(u, a) == u \in DOMAIN mapping /\ mapping[u].acc = NoID

(* The document may still take the account: no account is bound to it, and  *)
(* the unique index admits the account.                                     *)
Bindable(u, a) == u \in DOMAIN mapping /\ mapping[u].acc = NoID /\ WithAccount(a) = {}

BindAccount(p) ==
  /\ pc[p] = "bindAccount"
  /\ LET u == dm[p].uid
     IN  \/ /\ Bindable(u, Acc(p))
            /\ mapping' = [mapping EXCEPT ![u].acc = Acc(p)]
            /\ Answer(p, u, CacheAccount(MyCache(p), Acc(p), u)) \/ LostReply(p)
            /\ UNCHANGED <<goal, attempt>>
         \/ /\ ~Bindable(u, Acc(p))
            /\ Create(p, "account")
            /\ UNCHANGED mapping
  /\ UNCHANGED <<inserted, seq, rec, am, dm, uid, resolves, setup>>

(* A call fails before it takes effect. *)
CallFails(p) ==
  /\ setup.faults
  /\ pc[p] # "idle"
  /\ GiveUp(p)
  /\ UNCHANGED <<dbVars, procVars, resolves, setup>>

Init ==
  /\ setup \in Setups
  /\ mapping = [u \in {} |-> None] /\ inserted = 0 /\ seq = 0
  /\ cache = [q \in Pods |-> [acc |-> [a \in Accounts |-> 0], did |-> [d \in Distincts |-> 0]]]
  /\ pc = [p \in Worker |-> "idle"]
  /\ rec = [p \in Worker |-> <<NoID, NoID>>]
  /\ am = [p \in Worker |-> None] /\ dm = [p \in Worker |-> None]
  /\ uid = [p \in Worker |-> 0]
  /\ goal = [p \in Worker |-> "account"]
  /\ attempt = [p \in Worker |-> 0]
  /\ resolves = 0 /\ answers = {} /\ errored = FALSE

Step(p) ==
  \/ FindAccount(p) \/ FindDistinct(p)
  \/ NextUserID(p) \/ CreateCounter(p)
  \/ Insert(p) \/ FindWinner(p) \/ Verify(p) \/ DeleteOrphan(p)
  \/ BindDistinct(p) \/ BindAccount(p)

(* No call is left to make and none is in progress. *)
Finished ==
  /\ resolves = setup.calls
  /\ \A p \in Worker : pc[p] = "idle"
  /\ UNCHANGED vars

Next ==
  \/ \E p \in Worker :
       \/ \E r \in setup.records : Resolve(p, r)
       \/ Step(p)
       \/ CallFails(p)
  \/ Finished

(* A worker inside Resolve is scheduled; nobody has to call Resolve. *)
Fairness == \A p \in Worker : WF_vars(Step(p))

Spec == Init /\ [][Next]_vars /\ Fairness

-----------------------------------------------------------------------------
(***************************************************************************)
(* Properties.                                                              *)
(***************************************************************************)

Document == [uid: Uids \cup {0}, acc: Accounts \cup {NoID}, dids: SUBSET Distincts]

(* Every variable has its type (IDMapping, IdentityResolver). *)
TypeOK ==
  /\ setup \in Setups
  /\ DOMAIN mapping \subseteq Uids
  /\ \A u \in DOMAIN mapping :
       mapping[u] \in [acc: Accounts \cup {NoID}, dids: SUBSET Distincts, rank: Nat]
  /\ inserted \in Nat
  /\ seq \in 0 .. setup.calls
  /\ cache \in [Pods -> [acc: [Accounts -> Uids \cup {0}], did: [Distincts -> Uids \cup {0}]]]
  /\ pc \in [Worker -> {"idle", "findAccount", "findDistinct", "nextUserID", "createCounter",
                        "insert", "findWinner", "verify", "deleteOrphan",
                        "bindDistinct", "bindAccount"}]
  /\ rec \in [Worker -> (Accounts \cup {NoID}) \X (Distincts \cup {NoID})]
  /\ am \in [Worker -> Document]
  /\ dm \in [Worker -> Document]
  /\ uid \in [Worker -> Uids \cup {0}]
  /\ goal \in [Worker -> {"account", "distinct", "both"}]
  /\ attempt \in [Worker -> 0 .. MaxAttempts]
  /\ resolves \in 0 .. setup.calls
  /\ answers \subseteq (Accounts \cup {NoID}) \X (Distincts \cup {NoID}) \X Uids
  /\ errored \in BOOLEAN

(* No record carries both ids. *)
OneIDRecords == \A r \in setup.records : NoID \in {r[1], r[2]}

(* Nor does a call fail, and lookups are deterministic. *)
OneIDEach == OneIDRecords /\ setup.stable /\ ~setup.faults

(* "One account maps to exactly one user" (identity.go:18): every record of  *)
(* an account gets the same #user_id, in every pod and at any time.  The     *)
(* same holds for a distinct id, which no unique index protects: the check   *)
(* after the insert repairs the race of two pods that both create its        *)
(* mapping (atomicCreateForDistinctID).                                      *)
OneUserPerID ==
  OneIDEach =>
    \A x, y \in answers :
      /\ x[1] = y[1] /\ x[1] # NoID => x[3] = y[3]
      /\ x[1] = NoID /\ y[1] = NoID /\ x[2] = y[2] => x[3] = y[3]

(* When one record carries both ids a bound document may be deleted, and the *)
(* account then gets a new one; but two documents an account was answered    *)
(* with never live at once.                                                  *)
AccountOneLiveUser ==
  \A x, y \in answers :
    x[1] = y[1] /\ x[1] # NoID /\ {x[3], y[3]} \subseteq DOMAIN mapping => x[3] = y[3]

(* "A cached value can never go stale" (identity.go:54): the caches agree    *)
(* with the collection they are read from, in every pod.                     *)
CacheNeverStale ==
  \A q \in Pods :
    /\ \A a \in Accounts : cache[q].acc[a] # 0 => cache[q].acc[a] \in WithAccount(a)
    /\ \A d \in Distincts : cache[q].did[d] # 0 => cache[q].did[d] \in WithDistinct(d)

(* "Bindings are irreversible" (identity.go:25), as far as it goes: a step    *)
(* may delete a document, the orphan of a race, but no step gives a document *)
(* another account or takes a distinct id out of it.                         *)
BindingsOnlyGrow ==
  [][\A u \in DOMAIN mapping \cap DOMAIN mapping' :
       /\ mapping[u].acc # NoID => mapping'[u].acc = mapping[u].acc
       /\ mapping[u].dids \subseteq mapping'[u].dids]_vars

(* No Resolve fails while MongoDB does not, however the first ones race to   *)
(* create the counter ("expected, not fatal", nextUserID) and the mapping of *)
(* an account.  Only when records carry both ids may the winner of the       *)
(* second race be bound to a document that is deleted as an orphan before    *)
(* the loser reads it, which is then left with the duplicate key error.      *)
NoColdStartFailure == ~setup.faults /\ OneIDRecords => ~errored

(* Every Resolve ends: no worker waits for another, and the retries stop.    *)
ResolveEnds == \A p \in Worker : pc[p] # "idle" ~> pc[p] = "idle"
=============================================================================
