--------------------------- MODULE IdentityProofs ---------------------------
(***************************************************************************)
(* Theorems about Identity, for every set of workers, pods and ids, every   *)
(* workload, and every interleaving, failure and lost reply.                *)
(***************************************************************************)
EXTENDS Identity, FiniteSetTheorems, TLAPS

-----------------------------------------------------------------------------
(* Type correctness.  What a worker is about to do fits what it has read,    *)
(* and every call of Resolve takes at most one #user_id: the workers that    *)
(* may still take one are counted.                                           *)

AccountIDs  == Accounts \cup {NoID}
DistinctIDs == Distincts \cup {NoID}

CacheType == [acc: [Accounts -> Uids \cup {0}], did: [Distincts -> Uids \cup {0}]]

DBType ==
  /\ DOMAIN mapping \subseteq Uids
  /\ \A u \in DOMAIN mapping :
       mapping[u] \in [acc: AccountIDs, dids: SUBSET Distincts, rank: Nat]
  /\ inserted \in Nat
  /\ seq \in 0 .. setup.calls

OutType ==
  /\ cache \in [Pods -> CacheType]
  /\ answers \subseteq AccountIDs \X DistinctIDs \X Uids
  /\ errored \in BOOLEAN

Calls == {"idle", "findAccount", "findDistinct", "nextUserID", "createCounter", "insert",
          "findWinner", "verify", "deleteOrphan", "bindDistinct", "bindAccount"}

ProcType ==
  /\ pc \in [Worker -> Calls]
  /\ rec \in [Worker -> AccountIDs \X DistinctIDs]
  /\ am \in [Worker -> Document]
  /\ dm \in [Worker -> Document]
  /\ uid \in [Worker -> Uids \cup {0}]
  /\ goal \in [Worker -> {"account", "distinct", "both"}]
  /\ attempt \in [Worker -> 0 .. MaxAttempts]

WorkerOK(p) ==
  /\ am[p] # None => am[p].uid # 0 /\ am[p].acc = Acc(p) /\ Acc(p) # NoID
  /\ dm[p] # None => dm[p].uid # 0 /\ Did(p) \in dm[p].dids
  /\ pc[p] \in {"findAccount", "findWinner", "bindDistinct", "bindAccount"} => Acc(p) # NoID
  /\ pc[p] \in {"findDistinct", "bindDistinct", "bindAccount", "verify", "deleteOrphan"} =>
       Did(p) # NoID
  /\ pc[p] \in {"nextUserID", "createCounter", "insert", "findWinner"} =>
       /\ goal[p] # "distinct" => Acc(p) # NoID
       /\ goal[p] # "account" => Did(p) # NoID
       /\ goal[p] = "distinct" => Acc(p) = NoID
  /\ pc[p] = "findWinner" => goal[p] # "distinct"
  /\ pc[p] \in {"verify", "deleteOrphan"} => Acc(p) = NoID
  /\ pc[p] \in {"insert", "verify", "deleteOrphan"} => uid[p] # 0
  /\ pc[p] = "deleteOrphan" => dm[p] # None /\ dm[p].uid # uid[p]
  /\ pc[p] = "bindDistinct" => am[p] # None
  /\ pc[p] = "bindAccount" => dm[p] # None
  /\ pc[p] = "createCounter" => attempt[p] = 0
  /\ pc[p] = "nextUserID" => attempt[p] = 0 \/ (attempt[p] = 1 /\ seq > 0)

Owing == {p \in Worker : pc[p] \in {"findAccount", "findDistinct", "bindAccount",
                                    "nextUserID", "createCounter"}}

CountInv ==
  /\ resolves \in 0 .. setup.calls
  /\ seq + Cardinality(Owing) <= resolves

TypeInv ==
  /\ setup \in Setups
  /\ DBType /\ OutType /\ ProcType /\ CountInv
  /\ \A p \in Worker : WorkerOK(p)

LEMMA TypeInvType == TypeInv => TypeOK
  BY DEF TypeInv, DBType, OutType, ProcType, CountInv, TypeOK, CacheType, AccountIDs, DistinctIDs, Calls

LEMMA SetupFacts ==
  ASSUME TypeInv
  PROVE  /\ setup.calls \in Nat /\ setup.workers \subseteq Worker
         /\ setup.records \subseteq IDPairs
         /\ Uids = 1 .. setup.calls /\ \A u \in Uids : u \in Nat /\ u # 0 /\ u > 0
         /\ NoID \notin Accounts /\ NoID \notin Distincts
         /\ \A p \in Worker : PodOf[p] \in Pods
  BY SetupsAssumption, IDsAssumption DEF TypeInv, Uids

LEMMA NoneFacts ==
  /\ None \in Document
  /\ None.uid = 0 /\ None.acc = NoID /\ None.dids = {}
  BY DEF None, Document

LEMMA WorkerTypes ==
  ASSUME TypeInv, NEW p \in Worker
  PROVE  /\ Acc(p) \in AccountIDs /\ Did(p) \in DistinctIDs
         /\ rec[p] = <<Acc(p), Did(p)>>
         /\ am[p] \in Document /\ dm[p] \in Document
         /\ am[p] # None => am[p].uid \in Uids
         /\ dm[p] # None => dm[p].uid \in Uids
         /\ uid[p] \in Uids \cup {0}
         /\ MyCache(p) \in CacheType
         /\ WorkerOK(p)
<1>1. /\ rec[p] \in AccountIDs \X DistinctIDs /\ am[p] \in Document /\ dm[p] \in Document
      /\ uid[p] \in Uids \cup {0} /\ WorkerOK(p)
  BY DEF TypeInv, ProcType
<1>2. am[p].uid \in Uids \cup {0} /\ dm[p].uid \in Uids \cup {0}
  BY <1>1 DEF Document
<1>3. MyCache(p) \in CacheType
  BY SetupFacts DEF MyCache, TypeInv, OutType
<1> QED
  BY <1>1, <1>2, <1>3 DEF Acc, Did, WorkerOK

(* What a lookup returns. *)
LEMMA LookupFacts ==
  ASSUME TypeInv
  PROVE  /\ \A a \in AccountIDs : \A m \in AccountLookup(a) :
              /\ m \in Document
              /\ m = None => WithAccount(a) = {}
              /\ m # None => /\ m.uid \in Uids /\ m.uid \in DOMAIN mapping
                             /\ m = Read(m.uid) /\ m.acc = a
         /\ \A d \in DistinctIDs : \A m \in DistinctLookup(d) :
              /\ m \in Document
              /\ m = None => WithDistinct(d) = {}
              /\ m # None => /\ m.uid \in Uids /\ m.uid \in DOMAIN mapping
                             /\ m = Read(m.uid) /\ d \in m.dids
<1>1. ASSUME NEW u \in DOMAIN mapping
      PROVE  /\ Read(u) \in Document /\ Read(u).uid = u /\ u \in Uids /\ Read(u) # None
             /\ Read(u).acc = mapping[u].acc /\ Read(u).dids = mapping[u].dids
  <2>1. u \in Uids /\ mapping[u] \in [acc: AccountIDs, dids: SUBSET Distincts, rank: Nat]
    BY DEF TypeInv, DBType
  <2>2. Read(u) \in Document /\ Read(u).uid = u
    BY <2>1 DEF Read, Document, AccountIDs
  <2>3. Read(u) # None
    BY <2>1, <2>2, NoneFacts, SetupFacts
  <2> QED
    BY <2>1, <2>2, <2>3 DEF Read
<1>2. ASSUME NEW a \in AccountIDs, NEW m \in AccountLookup(a)
      PROVE  /\ m \in Document
             /\ m = None => WithAccount(a) = {}
             /\ m # None => /\ m.uid \in Uids /\ m.uid \in DOMAIN mapping
                            /\ m = Read(m.uid) /\ m.acc = a
  <2>1. CASE WithAccount(a) = {}
    BY <2>1, NoneFacts DEF AccountLookup
  <2>2. CASE WithAccount(a) # {}
    <3>1. PICK u \in WithAccount(a) : m = Read(u)
      BY <2>2 DEF AccountLookup
    <3>2. u \in DOMAIN mapping /\ mapping[u].acc = a
      BY DEF WithAccount
    <3> QED
      BY <1>1, <3>1, <3>2
  <2> QED
    BY <2>1, <2>2
<1>3. ASSUME NEW d \in DistinctIDs, NEW m \in DistinctLookup(d)
      PROVE  /\ m \in Document
             /\ m = None => WithDistinct(d) = {}
             /\ m # None => /\ m.uid \in Uids /\ m.uid \in DOMAIN mapping
                            /\ m = Read(m.uid) /\ d \in m.dids
  <2>1. CASE WithDistinct(d) = {}
    BY <2>1, NoneFacts DEF DistinctLookup
  <2>2. CASE WithDistinct(d) # {}
    <3>1. PICK u \in WithDistinct(d) : m = Read(u)
      BY <2>2 DEF DistinctLookup
    <3>2. u \in DOMAIN mapping /\ d \in mapping[u].dids
      BY DEF WithDistinct
    <3> QED
      BY <1>1, <3>1, <3>2
  <2> QED
    BY <2>1, <2>2
<1> QED
  BY <1>2, <1>3

(* The caches stay caches. *)
LEMMA CacheTypes ==
  ASSUME TypeInv, NEW c \in CacheType, NEW u \in Uids
  PROVE  /\ \A a \in Accounts : CacheAccount(c, a, u) \in CacheType
         /\ \A d \in Distincts : CacheDistinct(c, d, u) \in CacheType
<1>1. ASSUME NEW a \in Accounts
      PROVE  CacheAccount(c, a, u) \in CacheType
  BY DEF CacheAccount, CacheType
<1>2. ASSUME NEW d \in Distincts
      PROVE  CacheDistinct(c, d, u) \in CacheType
  BY DEF CacheDistinct, CacheType
<1> QED
  BY <1>1, <1>2

LEMMA CacheMappingType ==
  ASSUME NEW c \in CacheType, NEW m \in Document, m.uid \in Uids
  PROVE  CacheMapping(c, m) \in CacheType
<1>1. \A a \in Accounts : (IF a = m.acc THEN m.uid ELSE c.acc[a]) \in Uids \cup {0}
  BY DEF CacheType
<1>2. \A d \in Distincts : (IF d \in m.dids THEN m.uid ELSE c.did[d]) \in Uids \cup {0}
  BY DEF CacheType
<1> QED
  BY <1>1, <1>2 DEF CacheMapping, CacheType

LEMMA TypeInit == Init => TypeInv
<1> SUFFICES ASSUME Init
             PROVE  TypeInv
  OBVIOUS
<1>1. setup \in Setups /\ setup.calls \in Nat
  BY SetupsAssumption DEF Init
<1>2. DBType
  BY <1>1 DEF Init, DBType
<1>3. OutType
  BY DEF Init, OutType, CacheType
<1>4. ProcType
  BY IDsAssumption, NoneFacts DEF Init, ProcType, Calls, AccountIDs, DistinctIDs
<1>5. CountInv
  <2>1. Owing = {}
    BY DEF Init, Owing
  <2> QED
    BY <1>1, <2>1, FS_EmptySet DEF Init, CountInv
<1>6. \A p \in Worker : WorkerOK(p)
  BY DEF Init, WorkerOK
<1> QED
  BY <1>1, <1>2, <1>3, <1>4, <1>5, <1>6 DEF TypeInv

-----------------------------------------------------------------------------
(* Steps of one worker: what it leaves alone, and how a call goes on or ends. *)

Others(p) ==
  \A q \in Worker \ {p} :
    /\ pc'[q] = pc[q] /\ rec'[q] = rec[q] /\ am'[q] = am[q] /\ dm'[q] = dm[q]
    /\ uid'[q] = uid[q] /\ goal'[q] = goal[q] /\ attempt'[q] = attempt[q]

LEMMA OthersOK ==
  ASSUME TypeInv, NEW p \in Worker, Others(p), seq' \in Nat, seq <= seq', WorkerOK(p)'
  PROVE  \A q \in Worker : WorkerOK(q)'
<1>1. ASSUME NEW q \in Worker \ {p}
      PROVE  WorkerOK(q)'
  <2>1. WorkerOK(q) /\ seq \in Nat
    BY SetupFacts DEF TypeInv, DBType
  <2>2. /\ pc'[q] = pc[q] /\ rec'[q] = rec[q] /\ am'[q] = am[q] /\ dm'[q] = dm[q]
        /\ uid'[q] = uid[q] /\ goal'[q] = goal[q] /\ attempt'[q] = attempt[q]
    BY DEF Others
  <2>3. seq > 0 => seq' > 0
    BY <2>1
  <2> QED
    BY <2>1, <2>2, <2>3 DEF WorkerOK, Acc, Did
<1> QED
  BY <1>1

OwingCalls == {"findAccount", "findDistinct", "bindAccount", "nextUserID", "createCounter"}

LEMMA OwingFacts ==
  ASSUME TypeInv
  PROVE  /\ IsFiniteSet(Owing) /\ Cardinality(Owing) \in Nat
         /\ \A p \in Worker : pc[p] \in OwingCalls => seq + 1 <= resolves /\ seq + 1 \in Uids
<1>1. IsFiniteSet(Owing) /\ Cardinality(Owing) \in Nat
  BY IDsAssumption, FS_Subset, FS_CardinalityType DEF Owing
<1>2. ASSUME NEW p \in Worker, pc[p] \in OwingCalls
      PROVE  seq + 1 <= resolves /\ seq + 1 \in Uids
  <2>1. p \in Owing
    BY <1>2 DEF Owing, OwingCalls
  <2>2. Cardinality(Owing) # 0
    BY <1>1, <2>1, FS_EmptySet
  <2>3. seq \in Nat /\ resolves \in Nat /\ resolves <= setup.calls /\ setup.calls \in Nat
    BY SetupFacts DEF TypeInv, DBType, CountInv
  <2> QED
    BY <1>1, <2>2, <2>3, SetupFacts DEF TypeInv, CountInv
<1> QED
  BY <1>1, <1>2

(* A step that takes no #user_id, and one that does. *)
LEMMA CountKept ==
  ASSUME TypeInv, NEW p \in Worker, setup' = setup, seq' = seq, resolves' = resolves, Others(p),
         pc'[p] \in OwingCalls => pc[p] \in OwingCalls
  PROVE  CountInv'
<1>1. Owing' \subseteq Owing
  BY DEF Owing, OwingCalls, Others
<1>2. Cardinality(Owing') <= Cardinality(Owing) /\ Cardinality(Owing') \in Nat
  BY <1>1, OwingFacts, FS_Subset, FS_CardinalityType
<1>3. seq \in Nat /\ resolves \in Nat /\ setup.calls \in Nat
  BY SetupFacts DEF TypeInv, DBType, CountInv
<1>4. seq + Cardinality(Owing') <= resolves
  BY <1>2, <1>3, OwingFacts DEF TypeInv, CountInv
<1> QED
  BY <1>4 DEF TypeInv, CountInv

LEMMA CountTaken ==
  ASSUME TypeInv, NEW p \in Worker, setup' = setup, seq' = seq + 1, resolves' = resolves, Others(p),
         pc[p] \in OwingCalls, pc'[p] \notin OwingCalls
  PROVE  CountInv'
<1>1. Owing' = Owing \ {p} /\ p \in Owing
  BY DEF Owing, OwingCalls, Others
<1>2. Cardinality(Owing') = Cardinality(Owing) - 1
  BY <1>1, OwingFacts, FS_RemoveElement
<1>3. seq \in Nat /\ resolves \in Nat /\ setup.calls \in Nat
  BY SetupFacts DEF TypeInv, DBType, CountInv
<1>4. seq' + Cardinality(Owing') <= resolves
  BY <1>2, <1>3, OwingFacts DEF TypeInv, CountInv
<1> QED
  BY <1>4 DEF TypeInv, CountInv

LEMMA CountCalled ==
  ASSUME TypeInv, NEW p \in Worker, setup' = setup, seq' = seq, Others(p),
         resolves < setup.calls, resolves' = resolves + 1
  PROVE  CountInv'
<1>1. Owing' \subseteq Owing \cup {p}
  BY DEF Owing, OwingCalls, Others
<1>2. /\ IsFiniteSet(Owing \cup {p}) /\ Cardinality(Owing \cup {p}) \in Nat
      /\ Cardinality(Owing \cup {p}) <= Cardinality(Owing) + 1
  <2>1. /\ IsFiniteSet(Owing \cup {p})
        /\ \/ Cardinality(Owing \cup {p}) = Cardinality(Owing)
           \/ Cardinality(Owing \cup {p}) = Cardinality(Owing) + 1
    BY OwingFacts, FS_AddElement
  <2> QED
    BY <2>1, OwingFacts
<1>3. Cardinality(Owing') <= Cardinality(Owing \cup {p}) /\ Cardinality(Owing') \in Nat
  BY <1>1, <1>2, FS_Subset, FS_CardinalityType
<1>4. seq \in Nat /\ resolves \in Nat /\ setup.calls \in Nat
  BY SetupFacts DEF TypeInv, DBType, CountInv
<1>5. seq + Cardinality(Owing') <= resolves + 1
  BY <1>2, <1>3, <1>4, OwingFacts DEF TypeInv, CountInv
<1>6. resolves' \in 0 .. setup.calls
  BY <1>4
<1> QED
  BY <1>5, <1>6 DEF CountInv

(* The three ways a call goes on or ends. *)
LEMMA AnswerType ==
  ASSUME TypeInv, setup' = setup, NEW p \in Worker, NEW u \in Uids, NEW c \in CacheType, Answer(p, u, c)
  PROVE  /\ pc' \in [Worker -> Calls] /\ pc'[p] = "idle"
         /\ \A q \in Worker \ {p} : pc'[q] = pc[q]
         /\ cache' \in [Pods -> CacheType] /\ cache'[PodOf[p]] = c
         /\ \A r \in Pods \ {PodOf[p]} : cache'[r] = cache[r]
         /\ OutType'
<1>1. pc' \in [Worker -> Calls] /\ pc'[p] = "idle" /\ \A q \in Worker \ {p} : pc'[q] = pc[q]
  BY DEF Answer, TypeInv, ProcType, Calls
<1>2. /\ cache' \in [Pods -> CacheType] /\ cache'[PodOf[p]] = c
      /\ \A r \in Pods \ {PodOf[p]} : cache'[r] = cache[r]
  BY SetupFacts DEF Answer, TypeInv, OutType
<1>3. answers' \subseteq AccountIDs \X DistinctIDs \X Uids
  <2>1. <<Acc(p), Did(p), u>> \in AccountIDs \X DistinctIDs \X Uids
    BY WorkerTypes
  <2> QED
    BY <2>1 DEF Answer, TypeInv, OutType
<1>4. errored' \in BOOLEAN
  BY DEF Answer, TypeInv, OutType
<1>5. CacheType' = CacheType /\ Uids' = Uids
  BY DEF CacheType, Uids
<1> QED
  BY <1>1, <1>2, <1>3, <1>4, <1>5 DEF OutType

LEMMA GotoType ==
  ASSUME TypeInv, setup' = setup, NEW p \in Worker, NEW next \in Calls, Goto(p, next)
  PROVE  /\ pc' \in [Worker -> Calls] /\ pc'[p] = next
         /\ \A q \in Worker \ {p} : pc'[q] = pc[q]
         /\ cache' = cache /\ answers' = answers /\ errored' = errored
         /\ OutType'
  BY DEF Goto, TypeInv, ProcType, OutType, CacheType, Uids

LEMMA GiveUpType ==
  ASSUME TypeInv, setup' = setup, NEW p \in Worker, GiveUp(p)
  PROVE  /\ pc' \in [Worker -> Calls] /\ pc'[p] = "idle"
         /\ \A q \in Worker \ {p} : pc'[q] = pc[q]
         /\ cache' = cache /\ answers' = answers /\ errored' = TRUE
         /\ OutType'
  BY DEF GiveUp, TypeInv, ProcType, OutType, CacheType, Uids, Calls

(* What a step of p has to keep, when it leaves the rest of its state alone.  *)
LEMMA TypeAssembly ==
  ASSUME TypeInv, setup' = setup, NEW p \in Worker, Others(p),
         OutType', CountInv', DBType', seq <= seq',
         pc' \in [Worker -> Calls],
         rec' \in [Worker -> AccountIDs \X DistinctIDs],
         am' \in [Worker -> Document], dm' \in [Worker -> Document],
         uid' \in [Worker -> Uids \cup {0}],
         goal' \in [Worker -> {"account", "distinct", "both"}],
         attempt' \in [Worker -> 0 .. MaxAttempts],
         WorkerOK(p)'
  PROVE  TypeInv'
<1>1. seq' \in Nat
  BY SetupFacts DEF DBType
<1>2. \A q \in Worker : WorkerOK(q)'
  BY <1>1, OthersOK
<1>3. ProcType'
  <2>1. Document' = Document /\ Uids' = Uids
    BY DEF Document, Uids
  <2> QED
    BY <2>1 DEF ProcType
<1> QED
  BY <1>2, <1>3 DEF TypeInv

LEMMA ProcTypes ==
  ASSUME TypeInv
  PROVE  /\ pc \in [Worker -> Calls]
         /\ rec \in [Worker -> AccountIDs \X DistinctIDs]
         /\ am \in [Worker -> Document] /\ dm \in [Worker -> Document]
         /\ uid \in [Worker -> Uids \cup {0}]
         /\ goal \in [Worker -> {"account", "distinct", "both"}]
         /\ attempt \in [Worker -> 0 .. MaxAttempts]
         /\ seq \in Nat /\ 0 \in 0 .. MaxAttempts /\ 1 \in 0 .. MaxAttempts
  BY IDsAssumption, SetupFacts DEF TypeInv, ProcType, DBType

LEMMA DBKept ==
  ASSUME TypeInv, setup' = setup, UNCHANGED dbVars
  PROVE  DBType' /\ seq <= seq' /\ seq' = seq
  BY SetupFacts DEF TypeInv, DBType, dbVars, Uids

LEMMA ResolveType ==
  ASSUME TypeInv, NEW p \in Worker, NEW r \in setup.records, Resolve(p, r)
  PROVE  TypeInv'
<1>1. /\ r \in IDPairs /\ r \in AccountIDs \X DistinctIDs
      /\ r[1] = NoID => r[2] # NoID
  <2>1. r \in IDPairs
    BY SetupFacts
  <2> QED
    BY <2>1 DEF IDPairs, AccountIDs, DistinctIDs
<1>2. /\ setup' = setup /\ UNCHANGED dbVars
      /\ uid' = uid /\ goal' = goal /\ attempt' = attempt
      /\ resolves < setup.calls /\ resolves' = resolves + 1 /\ pc[p] = "idle"
  BY DEF Resolve
<1>3. /\ rec' \in [Worker -> AccountIDs \X DistinctIDs] /\ rec'[p] = r
      /\ am' \in [Worker -> Document] /\ am'[p] = None
      /\ dm' \in [Worker -> Document] /\ dm'[p] = None
      /\ \A q \in Worker \ {p} : rec'[q] = rec[q] /\ am'[q] = am[q] /\ dm'[q] = dm[q]
  BY <1>1, ProcTypes, NoneFacts DEF Resolve
<1>4. /\ pc' \in [Worker -> Calls] /\ \A q \in Worker \ {p} : pc'[q] = pc[q]
      /\ \/ pc'[p] = "idle"
         \/ pc'[p] = "findAccount" /\ r[1] # NoID
         \/ pc'[p] = "findDistinct" /\ r[1] = NoID
      /\ OutType'
  <2> DEFINE hit == CacheHit(MyCache(p), r[1], r[2])
  <2>1. CASE hit # 0
    <3>1. pc' = pc /\ cache' = cache /\ errored' = errored /\ answers' = answers \cup {<<r[1], r[2], hit>>}
      BY <2>1 DEF Resolve
    <3>2. hit \in Uids
      <4>1. MyCache(p) \in CacheType
        BY WorkerTypes
      <4> QED
        BY <1>1, <2>1, <4>1 DEF CacheHit, CacheType, IDPairs
    <3>3. <<r[1], r[2], hit>> \in AccountIDs \X DistinctIDs \X Uids
      BY <1>1, <3>2
    <3> HIDE DEF hit
    <3>4. OutType'
      BY <1>2, <3>1, <3>3 DEF TypeInv, OutType, CacheType, Uids
    <3> QED
      BY <1>2, <3>1, <3>4, ProcTypes
  <2>2. CASE hit = 0
    <3>1. Goto(p, IF r[1] # NoID THEN "findAccount" ELSE "findDistinct")
      BY <2>2 DEF Resolve
    <3> HIDE DEF hit
    <3>2. CASE r[1] # NoID
      <4>1. Goto(p, "findAccount") /\ "findAccount" \in Calls
        BY <3>1, <3>2 DEF Calls
      <4> QED
        BY <1>2, <3>2, <4>1, GotoType
    <3>3. CASE r[1] = NoID
      <4>1. Goto(p, "findDistinct") /\ "findDistinct" \in Calls
        BY <3>1, <3>3 DEF Calls
      <4> QED
        BY <1>2, <3>3, <4>1, GotoType
    <3> QED
      BY <3>2, <3>3
  <2> QED
    BY <2>1, <2>2
<1>5. Others(p)
  BY <1>2, <1>3, <1>4 DEF Others
<1>6. seq' = seq
  BY <1>2 DEF dbVars
<1>7. CountInv'
  BY <1>2, <1>5, <1>6, CountCalled
<1>8. WorkerOK(p)'
  BY <1>1, <1>3, <1>4 DEF WorkerOK, Acc, Did
<1>9. /\ uid' \in [Worker -> Uids \cup {0}] /\ attempt' \in [Worker -> 0 .. MaxAttempts]
      /\ goal' \in [Worker -> {"account", "distinct", "both"}] /\ DBType' /\ seq <= seq'
  BY <1>2, ProcTypes, DBKept
<1> QED
  BY <1>2, <1>3, <1>4, <1>5, <1>7, <1>8, <1>9, TypeAssembly

(* A step that reads or gives up, and changes at most what it has read.      *)
LEMMA ReadingType ==
  ASSUME TypeInv, setup' = setup, NEW p \in Worker, UNCHANGED dbVars, resolves' = resolves,
         OutType', pc' \in [Worker -> Calls], \A q \in Worker \ {p} : pc'[q] = pc[q],
         rec' = rec, uid' = uid,
         NEW m \in Document, NEW n \in Document,
         am' = [am EXCEPT ![p] = m], dm' = [dm EXCEPT ![p] = n],
         \/ UNCHANGED <<goal, attempt>>
         \/ \E what \in {"account", "distinct", "both"} :
              goal' = [goal EXCEPT ![p] = what] /\ attempt' = [attempt EXCEPT ![p] = 0],
         pc'[p] \in OwingCalls => pc[p] \in OwingCalls,
         WorkerOK(p)'
  PROVE  TypeInv'
<1>1. /\ am' \in [Worker -> Document] /\ dm' \in [Worker -> Document]
      /\ \A q \in Worker \ {p} : am'[q] = am[q] /\ dm'[q] = dm[q]
  BY ProcTypes
<1>2. /\ goal' \in [Worker -> {"account", "distinct", "both"}]
      /\ attempt' \in [Worker -> 0 .. MaxAttempts]
      /\ \A q \in Worker \ {p} : goal'[q] = goal[q] /\ attempt'[q] = attempt[q]
  BY ProcTypes
<1>3. rec' \in [Worker -> AccountIDs \X DistinctIDs] /\ uid' \in [Worker -> Uids \cup {0}]
  BY ProcTypes
<1>4. Others(p)
  BY <1>1, <1>2 DEF Others
<1>5. CountInv'
  BY <1>4, CountKept, DBKept
<1> QED
  BY <1>1, <1>2, <1>3, <1>4, <1>5, DBKept, TypeAssembly

LEMMA CreateFacts ==
  ASSUME TypeInv, setup' = setup, NEW p \in Worker, NEW what \in {"account", "distinct", "both"},
         Create(p, what)
  PROVE  /\ pc' \in [Worker -> Calls] /\ pc'[p] = "nextUserID"
         /\ \A q \in Worker \ {p} : pc'[q] = pc[q]
         /\ cache' = cache /\ answers' = answers /\ errored' = errored /\ OutType'
         /\ goal' = [goal EXCEPT ![p] = what] /\ attempt' = [attempt EXCEPT ![p] = 0]
         /\ goal'[p] = what /\ attempt'[p] = 0
<1>1. Goto(p, "nextUserID") /\ "nextUserID" \in Calls
  BY DEF Create, Calls
<1>2. /\ goal' = [goal EXCEPT ![p] = what] /\ attempt' = [attempt EXCEPT ![p] = 0]
  BY DEF Create
<1> QED
  BY <1>1, <1>2, GotoType, ProcTypes

LEMMA FindAccountType ==
  ASSUME TypeInv, NEW p \in Worker, FindAccount(p)
  PROVE  TypeInv'
<1>1. PICK m \in AccountLookup(Acc(p)) :
        /\ am' = [am EXCEPT ![p] = m]
        /\ \/ /\ Did(p) # NoID
              /\ Goto(p, "findDistinct")
              /\ UNCHANGED <<goal, attempt>>
           \/ /\ Did(p) = NoID /\ m # None
              /\ Answer(p, m.uid, CacheMapping(MyCache(p), m))
              /\ UNCHANGED <<goal, attempt>>
           \/ /\ Did(p) = NoID /\ m = None
              /\ Create(p, "account")
  BY DEF FindAccount
<1>2. /\ setup' = setup /\ UNCHANGED dbVars /\ resolves' = resolves
      /\ rec' = rec /\ uid' = uid /\ dm' = dm /\ pc[p] = "findAccount"
  BY DEF FindAccount
<1>3. /\ m \in Document
      /\ m # None => m.uid \in Uids /\ m.acc = Acc(p) /\ m.uid # 0
      /\ WorkerOK(p) /\ MyCache(p) \in CacheType /\ Acc(p) # NoID
  BY <1>2, WorkerTypes, LookupFacts, SetupFacts DEF WorkerOK
<1>4. am'[p] = m /\ dm'[p] = dm[p] /\ dm' = [dm EXCEPT ![p] = dm[p]] /\ dm[p] \in Document
  BY <1>1, <1>2, ProcTypes
<1>5. Acc(p)' = Acc(p) /\ Did(p)' = Did(p)
  BY <1>2 DEF Acc, Did
<1>6. CASE Did(p) # NoID /\ Goto(p, "findDistinct") /\ UNCHANGED <<goal, attempt>>
  <2>1. /\ pc' \in [Worker -> Calls] /\ pc'[p] = "findDistinct"
        /\ \A q \in Worker \ {p} : pc'[q] = pc[q]
        /\ OutType'
    BY <1>2, <1>6, GotoType DEF Calls
  <2>2. WorkerOK(p)'
    BY <1>2, <1>3, <1>4, <1>5, <1>6, <2>1 DEF WorkerOK
  <2> QED
    BY <1>1, <1>2, <1>3, <1>4, <1>6, <2>1, <2>2, ReadingType DEF OwingCalls
<1>7. CASE m # None /\ Answer(p, m.uid, CacheMapping(MyCache(p), m)) /\ UNCHANGED <<goal, attempt>>
  <2>1. CacheMapping(MyCache(p), m) \in CacheType
    BY <1>3, <1>7, CacheMappingType
  <2>2. /\ pc' \in [Worker -> Calls] /\ pc'[p] = "idle"
        /\ \A q \in Worker \ {p} : pc'[q] = pc[q]
        /\ OutType'
    BY <1>2, <1>3, <1>7, <2>1, AnswerType
  <2>3. WorkerOK(p)'
    BY <1>3, <1>4, <1>5, <2>2 DEF WorkerOK
  <2> QED
    BY <1>1, <1>2, <1>3, <1>4, <1>7, <2>2, <2>3, ReadingType DEF OwingCalls
<1>8. CASE m = None /\ Create(p, "account")
  <2>1. /\ pc' \in [Worker -> Calls] /\ pc'[p] = "nextUserID"
        /\ \A q \in Worker \ {p} : pc'[q] = pc[q]
        /\ OutType'
        /\ goal' = [goal EXCEPT ![p] = "account"] /\ attempt' = [attempt EXCEPT ![p] = 0]
        /\ goal'[p] = "account" /\ attempt'[p] = 0
    BY <1>2, <1>8, CreateFacts
  <2>2. WorkerOK(p)'
    BY <1>3, <1>4, <1>5, <1>8, <2>1, NoneFacts DEF WorkerOK
  <2> QED
    BY <1>1, <1>2, <1>3, <1>4, <2>1, <2>2, ReadingType DEF OwingCalls
<1> QED
  BY <1>1, <1>6, <1>7, <1>8

LEMMA FindDistinctType ==
  ASSUME TypeInv, NEW p \in Worker, FindDistinct(p)
  PROVE  TypeInv'
<1>1. PICK m \in DistinctLookup(Did(p)) :
        /\ dm' = [dm EXCEPT ![p] = m]
        /\ IF Acc(p) = NoID THEN WithDistinctOnly(p, m) ELSE WithBoth(p, m)
  BY DEF FindDistinct
<1>2. /\ setup' = setup /\ UNCHANGED dbVars /\ resolves' = resolves
      /\ rec' = rec /\ uid' = uid /\ am' = am /\ pc[p] = "findDistinct"
  BY DEF FindDistinct
<1>3. /\ m \in Document
      /\ m # None => m.uid \in Uids /\ Did(p) \in m.dids /\ m.uid # 0
      /\ WorkerOK(p) /\ MyCache(p) \in CacheType /\ Did(p) # NoID
      /\ am[p] \in Document /\ (am[p] # None => am[p].uid \in Uids)
  BY <1>1, <1>2, WorkerTypes, LookupFacts, SetupFacts DEF WorkerOK
<1>4. dm'[p] = m /\ am'[p] = am[p] /\ am' = [am EXCEPT ![p] = am[p]]
  BY <1>1, <1>2, ProcTypes
<1>5. Acc(p)' = Acc(p) /\ Did(p)' = Did(p)
  BY <1>2 DEF Acc, Did
<1>6. ASSUME NEW u \in Uids, NEW c \in CacheType, Answer(p, u, c), UNCHANGED <<goal, attempt>>
      PROVE  TypeInv'
  <2>1. /\ pc' \in [Worker -> Calls] /\ pc'[p] = "idle"
        /\ \A q \in Worker \ {p} : pc'[q] = pc[q]
        /\ OutType'
    BY <1>2, <1>6, AnswerType
  <2>2. WorkerOK(p)'
    BY <1>3, <1>4, <1>5, <2>1 DEF WorkerOK
  <2> QED
    BY <1>1, <1>2, <1>3, <1>4, <1>6, <2>1, <2>2, ReadingType DEF OwingCalls
<1>7. ASSUME NEW what \in {"account", "distinct", "both"}, Create(p, what),
             what = "distinct" <=> Acc(p) = NoID
      PROVE  TypeInv'
  <2>1. /\ pc' \in [Worker -> Calls] /\ pc'[p] = "nextUserID"
        /\ \A q \in Worker \ {p} : pc'[q] = pc[q]
        /\ OutType'
        /\ goal' = [goal EXCEPT ![p] = what] /\ attempt' = [attempt EXCEPT ![p] = 0]
        /\ goal'[p] = what /\ attempt'[p] = 0
    BY <1>2, <1>7, CreateFacts
  <2>2. WorkerOK(p)'
    BY <1>3, <1>4, <1>5, <1>7, <2>1 DEF WorkerOK
  <2> QED
    BY <1>1, <1>2, <1>3, <1>4, <2>1, <2>2, ReadingType DEF OwingCalls
<1>8. ASSUME NEW next \in {"bindDistinct", "bindAccount"}, Goto(p, next), UNCHANGED <<goal, attempt>>,
             Acc(p) # NoID, next = "bindDistinct" => am[p] # None, next = "bindAccount" => m # None
      PROVE  TypeInv'
  <2>1. /\ pc' \in [Worker -> Calls] /\ pc'[p] = next
        /\ \A q \in Worker \ {p} : pc'[q] = pc[q]
        /\ OutType'
    BY <1>2, <1>8, GotoType DEF Calls
  <2>2. WorkerOK(p)'
    BY <1>3, <1>4, <1>5, <1>8, <2>1 DEF WorkerOK
  <2> QED
    BY <1>1, <1>2, <1>3, <1>4, <1>8, <2>1, <2>2, ReadingType DEF OwingCalls
<1>9. CASE Acc(p) = NoID
  <2>1. WithDistinctOnly(p, m)
    BY <1>1, <1>9
  <2>2. CASE m # None /\ Answer(p, m.uid, CacheMapping(MyCache(p), m)) /\ UNCHANGED <<goal, attempt>>
    BY <1>3, <1>6, <2>2, CacheMappingType
  <2>3. CASE Create(p, "distinct")
    BY <1>7, <1>9, <2>3
  <2> QED
    BY <2>1, <2>2, <2>3 DEF WithDistinctOnly
<1>10. CASE Acc(p) # NoID
  <2>1. WithBoth(p, m)
    BY <1>1, <1>10
  <2>2. CASE Create(p, "both") \/ Create(p, "account")
    BY <1>7, <1>10, <2>2
  <2>3. CASE am[p] # None /\ Goto(p, "bindDistinct") /\ UNCHANGED <<goal, attempt>>
    BY <1>8, <1>10, <2>3
  <2>4. CASE m # None /\ Goto(p, "bindAccount") /\ UNCHANGED <<goal, attempt>>
    BY <1>8, <1>10, <2>4
  <2>5. CASE /\ am[p] # None /\ m # None
             /\ Answer(p, am[p].uid, CacheMapping(CacheMapping(MyCache(p), am[p]), m))
             /\ UNCHANGED <<goal, attempt>>
    <3>1. CacheMapping(MyCache(p), am[p]) \in CacheType
      BY <1>3, <2>5, CacheMappingType
    <3>2. CacheMapping(CacheMapping(MyCache(p), am[p]), m) \in CacheType
      BY <1>3, <2>5, <3>1, CacheMappingType
    <3> QED
      BY <1>3, <1>6, <2>5, <3>2
  <2> QED
    BY <2>1, <2>2, <2>3, <2>4, <2>5 DEF WithBoth
<1> QED
  BY <1>9, <1>10

(* A worker takes a #user_id. *)
LEMMA TakenType ==
  ASSUME TypeInv, setup' = setup, NEW p \in Worker, pc[p] \in {"nextUserID", "createCounter"},
         seq' = seq + 1, uid' = [uid EXCEPT ![p] = seq + 1],
         Goto(p, "insert") \/ LostReply(p),
         UNCHANGED <<mapping, inserted, rec, am, dm, goal, attempt, resolves>>
  PROVE  TypeInv'
<1>1. /\ seq + 1 \in Uids /\ seq + 1 # 0 /\ seq \in Nat /\ seq <= seq + 1
      /\ seq + 1 <= setup.calls
  <2>1. seq + 1 \in Uids /\ seq \in Nat
    BY OwingFacts, ProcTypes DEF OwingCalls
  <2> QED
    BY <2>1, SetupFacts
<1>2. uid' \in [Worker -> Uids \cup {0}] /\ uid'[p] = seq + 1
      /\ \A q \in Worker \ {p} : uid'[q] = uid[q]
  BY <1>1, ProcTypes
<1>3. /\ pc' \in [Worker -> Calls] /\ pc'[p] \in {"insert", "idle"}
      /\ \A q \in Worker \ {p} : pc'[q] = pc[q]
      /\ OutType'
  <2>1. "insert" \in Calls
    BY DEF Calls
  <2> QED
    BY <2>1, GotoType, GiveUpType DEF LostReply
<1>4. Others(p)
  BY <1>2, <1>3 DEF Others
<1>5. CountInv'
  BY <1>3, <1>4, CountTaken DEF OwingCalls
<1>6. DBType'
  BY <1>1 DEF TypeInv, DBType, Uids
<1>7. WorkerOK(p)'
  <2>1. WorkerOK(p)
    BY WorkerTypes
  <2> QED
    BY <1>1, <1>2, <1>3, <2>1 DEF WorkerOK, Acc, Did
<1> QED
  BY <1>1, <1>2, <1>3, <1>4, <1>5, <1>6, <1>7, ProcTypes, TypeAssembly

LEMMA NextUserIDType ==
  ASSUME TypeInv, NEW p \in Worker, NextUserID(p)
  PROVE  TypeInv'
<1>1. CASE /\ seq > 0
           /\ seq' = seq + 1
           /\ uid' = [uid EXCEPT ![p] = seq + 1]
           /\ Goto(p, "insert") \/ LostReply(p)
  BY <1>1, TakenType DEF NextUserID
<1>2. CASE seq = 0 /\ Goto(p, "createCounter") /\ UNCHANGED <<seq, uid>>
  <2>1. /\ pc' \in [Worker -> Calls] /\ pc'[p] = "createCounter"
        /\ \A q \in Worker \ {p} : pc'[q] = pc[q]
        /\ OutType'
    BY <1>2, GotoType DEF NextUserID, Calls
  <2>2. /\ pc[p] = "nextUserID" /\ setup' = setup
        /\ UNCHANGED <<mapping, inserted, rec, am, dm, goal, attempt, resolves, seq, uid>>
    BY <1>2 DEF NextUserID
  <2>3. WorkerOK(p)'
    <3>1. WorkerOK(p)
      BY WorkerTypes
    <3> QED
      BY <1>2, <2>1, <2>2, <3>1 DEF WorkerOK, Acc, Did
  <2>4. am' = [am EXCEPT ![p] = am[p]] /\ dm' = [dm EXCEPT ![p] = dm[p]]
        /\ am[p] \in Document /\ dm[p] \in Document
    BY <2>2, ProcTypes
  <2> QED
    BY <2>1, <2>2, <2>3, <2>4, ReadingType DEF dbVars, OwingCalls
<1> QED
  BY <1>1, <1>2 DEF NextUserID

LEMMA CreateCounterType ==
  ASSUME TypeInv, NEW p \in Worker, CreateCounter(p)
  PROVE  TypeInv'
<1>1. /\ pc[p] = "createCounter" /\ setup' = setup
      /\ UNCHANGED <<mapping, inserted, rec, am, dm, goal, resolves>>
  BY DEF CreateCounter
<1>2. CASE /\ seq = 0 /\ seq' = 1
           /\ uid' = [uid EXCEPT ![p] = 1]
           /\ Goto(p, "insert") \/ LostReply(p)
           /\ UNCHANGED attempt
  <2>1. seq' = seq + 1 /\ uid' = [uid EXCEPT ![p] = seq + 1]
    BY <1>2
  <2> QED
    BY <1>1, <1>2, <2>1, TakenType
<1>3. CASE seq # 0 /\ RetryCounter(p) /\ UNCHANGED <<seq, uid>>
  <2>1. attempt[p] = 0 /\ seq \in Nat /\ WorkerOK(p)
    BY <1>1, WorkerTypes, ProcTypes DEF WorkerOK
  <2>2. attempt[p] + 1 < MaxAttempts /\ attempt[p] + 1 = 1
    BY <2>1, IDsAssumption
  <2>3. Goto(p, "nextUserID") /\ attempt' = [attempt EXCEPT ![p] = 1]
    BY <1>3, <2>1, <2>2 DEF RetryCounter
  <2>4. /\ attempt' \in [Worker -> 0 .. MaxAttempts] /\ attempt'[p] = 1
        /\ \A q \in Worker \ {p} : attempt'[q] = attempt[q]
    BY <2>3, ProcTypes
  <2>5. /\ pc' \in [Worker -> Calls] /\ pc'[p] = "nextUserID"
        /\ \A q \in Worker \ {p} : pc'[q] = pc[q]
        /\ OutType'
    BY <1>1, <2>3, GotoType DEF Calls
  <2>6. Others(p)
    BY <1>1, <1>3, <2>4, <2>5 DEF Others
  <2>7. CountInv'
    BY <1>1, <1>3, <2>5, <2>6, CountKept DEF OwingCalls
  <2>8. WorkerOK(p)'
    BY <1>1, <1>3, <2>1, <2>4, <2>5 DEF WorkerOK, Acc, Did
  <2>9. DBType' /\ seq <= seq'
    BY <1>1, <1>3, DBKept DEF dbVars
  <2> QED
    BY <1>1, <1>3, <2>4, <2>5, <2>6, <2>7, <2>8, <2>9, ProcTypes, TypeAssembly
<1> QED
  BY <1>2, <1>3 DEF CreateCounter

(* The documents after an insert, a delete and an update. *)
LEMMA InsertType ==
  ASSUME TypeInv, setup' = setup, NEW u \in Uids, NEW a \in AccountIDs, NEW D \in SUBSET Distincts,
         InsertDoc(u, a, D), seq' = seq
  PROVE  /\ DBType' /\ DOMAIN mapping' = DOMAIN mapping \cup {u}
         /\ mapping'[u] = [acc |-> a, dids |-> D, rank |-> inserted]
         /\ \A v \in DOMAIN mapping \ {u} : mapping'[v] = mapping[v]
<1>1. /\ DOMAIN mapping' = DOMAIN mapping \cup {u}
      /\ mapping'[u] = [acc |-> a, dids |-> D, rank |-> inserted]
      /\ \A v \in DOMAIN mapping \ {u} : mapping'[v] = mapping[v]
      /\ inserted' = inserted + 1
  BY DEF InsertDoc
<1>2. inserted \in Nat
  BY DEF TypeInv, DBType
<1>3. mapping'[u] \in [acc: AccountIDs, dids: SUBSET Distincts, rank: Nat]
  BY <1>1, <1>2
<1>4. \A v \in DOMAIN mapping' : mapping'[v] \in [acc: AccountIDs, dids: SUBSET Distincts, rank: Nat]
  BY <1>1, <1>3 DEF TypeInv, DBType
<1>5. DOMAIN mapping' \subseteq Uids' /\ inserted' \in Nat /\ seq' \in 0 .. setup'.calls
  BY <1>1, <1>2 DEF TypeInv, DBType, Uids
<1> QED
  BY <1>1, <1>4, <1>5 DEF DBType

LEMMA DeleteType ==
  ASSUME TypeInv, setup' = setup, NEW u, DeleteDoc(u), UNCHANGED <<inserted, seq>>
  PROVE  /\ DBType' /\ DOMAIN mapping' = DOMAIN mapping \ {u}
         /\ \A v \in DOMAIN mapping' : mapping'[v] = mapping[v]
  BY DEF DeleteDoc, TypeInv, DBType, Uids

LEMMA AddDistinctType ==
  ASSUME TypeInv, setup' = setup, NEW u, NEW d \in Distincts,
         mapping' = AddDistinct(u, d), UNCHANGED <<inserted, seq>>
  PROVE  /\ DBType' /\ DOMAIN mapping' = DOMAIN mapping
         /\ \A v \in DOMAIN mapping : /\ mapping'[v].acc = mapping[v].acc
                                      /\ mapping'[v].rank = mapping[v].rank
                                      /\ mapping[v].dids \subseteq mapping'[v].dids
                                      /\ v = u => d \in mapping'[v].dids
                                      /\ v # u => mapping'[v] = mapping[v]
<1>1. /\ DOMAIN mapping' = DOMAIN mapping
      /\ \A v \in DOMAIN mapping :
           mapping'[v] = IF v = u THEN [mapping[v] EXCEPT !.dids = @ \cup {d}] ELSE mapping[v]
  BY DEF AddDistinct
<1>2. ASSUME NEW v \in DOMAIN mapping
      PROVE  /\ mapping'[v] \in [acc: AccountIDs, dids: SUBSET Distincts, rank: Nat]
             /\ mapping'[v].acc = mapping[v].acc
             /\ mapping'[v].rank = mapping[v].rank
             /\ mapping[v].dids \subseteq mapping'[v].dids
             /\ v = u => d \in mapping'[v].dids
             /\ v # u => mapping'[v] = mapping[v]
  <2>1. mapping[v] \in [acc: AccountIDs, dids: SUBSET Distincts, rank: Nat]
    BY DEF TypeInv, DBType
  <2> QED
    BY <1>1, <2>1
<1>3. DBType'
  BY <1>1, <1>2 DEF TypeInv, DBType, Uids
<1> QED
  BY <1>1, <1>2, <1>3

LEMMA BindAccountDocs ==
  ASSUME TypeInv, setup' = setup, NEW u \in DOMAIN mapping, NEW a \in Accounts,
         mapping' = [mapping EXCEPT ![u].acc = a], UNCHANGED <<inserted, seq>>
  PROVE  /\ DBType' /\ DOMAIN mapping' = DOMAIN mapping
         /\ mapping'[u].acc = a /\ mapping'[u].dids = mapping[u].dids
         /\ mapping'[u].rank = mapping[u].rank
         /\ \A v \in DOMAIN mapping \ {u} : mapping'[v] = mapping[v]
<1>1. mapping[u] \in [acc: AccountIDs, dids: SUBSET Distincts, rank: Nat]
  BY DEF TypeInv, DBType
<1>2. /\ DOMAIN mapping' = DOMAIN mapping
      /\ mapping'[u] = [mapping[u] EXCEPT !.acc = a]
      /\ \A v \in DOMAIN mapping \ {u} : mapping'[v] = mapping[v]
  OBVIOUS
<1>3. /\ mapping'[u] \in [acc: AccountIDs, dids: SUBSET Distincts, rank: Nat]
      /\ mapping'[u].acc = a /\ mapping'[u].dids = mapping[u].dids
      /\ mapping'[u].rank = mapping[u].rank
  BY <1>1, <1>2 DEF AccountIDs
<1>4. DBType'
  BY <1>2, <1>3 DEF TypeInv, DBType, Uids
<1> QED
  BY <1>2, <1>3, <1>4

(* A step that writes the mapping, and keeps what the worker knows. *)
LEMMA WritingType ==
  ASSUME TypeInv, setup' = setup, NEW p \in Worker, DBType', seq' = seq, resolves' = resolves,
         UNCHANGED <<rec, am, dm, uid>>,
         OutType', pc' \in [Worker -> Calls], \A q \in Worker \ {p} : pc'[q] = pc[q],
         \/ UNCHANGED <<goal, attempt>>
         \/ \E what \in {"account", "distinct", "both"} :
              goal' = [goal EXCEPT ![p] = what] /\ attempt' = [attempt EXCEPT ![p] = 0],
         pc'[p] \in OwingCalls => pc[p] \in OwingCalls,
         WorkerOK(p)'
  PROVE  TypeInv'
<1>1. /\ goal' \in [Worker -> {"account", "distinct", "both"}]
      /\ attempt' \in [Worker -> 0 .. MaxAttempts]
      /\ \A q \in Worker \ {p} : goal'[q] = goal[q] /\ attempt'[q] = attempt[q]
  BY ProcTypes
<1>2. Others(p)
  BY <1>1 DEF Others
<1>3. CountInv'
  BY <1>2, CountKept
<1>4. seq <= seq'
  BY ProcTypes
<1> QED
  BY <1>1, <1>2, <1>3, <1>4, ProcTypes, TypeAssembly

(* What the insert writes, and what is cached once it is made. *)
InsertAcc(p) == IF goal[p] = "distinct" THEN NoID ELSE Acc(p)
InsertDids(p) == IF goal[p] = "account" THEN {} ELSE {Did(p)}
InsertCache(p) ==
  IF goal[p] = "account" THEN CacheAccount(MyCache(p), InsertAcc(p), uid[p])
  ELSE CacheDistinct(CacheAccount(MyCache(p), InsertAcc(p), uid[p]), Did(p), uid[p])

LEMMA InsertCases ==
  ASSUME TypeInv, NEW p \in Worker, Insert(p)
  PROVE  /\ pc[p] = "insert" /\ setup' = setup /\ UNCHANGED <<seq, procVars, resolves>>
         /\ \/ /\ InsertAcc(p) # NoID /\ WithAccount(InsertAcc(p)) # {}
               /\ Goto(p, "findWinner")
               /\ UNCHANGED <<mapping, inserted>>
            \/ /\ InsertAcc(p) = NoID \/ WithAccount(InsertAcc(p)) = {}
               /\ InsertDoc(uid[p], InsertAcc(p), InsertDids(p))
               /\ \/ goal[p] = "distinct" /\ Goto(p, "verify")
                  \/ goal[p] # "distinct" /\ Answer(p, uid[p], InsertCache(p))
                  \/ LostReply(p)
         /\ uid[p] \in Uids /\ InsertAcc(p) \in AccountIDs /\ InsertDids(p) \in SUBSET Distincts
         /\ goal[p] = "distinct" => Acc(p) = NoID
         /\ goal[p] # "distinct" => Acc(p) \in Accounts
         /\ goal[p] # "account" => Did(p) \in Distincts
         /\ goal[p] # "distinct" => InsertCache(p) \in CacheType
<1> DEFINE c == CASE goal[p] = "account" -> CacheAccount(MyCache(p), InsertAcc(p), uid[p])
                  [] goal[p] = "both" ->
                       CacheDistinct(CacheAccount(MyCache(p), InsertAcc(p), uid[p]), Did(p), uid[p])
                  [] goal[p] = "distinct" -> MyCache(p)
<1>1. pc[p] = "insert" /\ setup' = setup /\ UNCHANGED <<seq, procVars, resolves>>
  BY DEF Insert
<1>2. goal[p] \in {"account", "distinct", "both"}
  BY ProcTypes
<1>3. goal[p] # "distinct" => c = InsertCache(p)
  BY <1>2, Zenon DEF InsertCache
<1>4. \/ /\ InsertAcc(p) # NoID /\ WithAccount(InsertAcc(p)) # {}
         /\ Goto(p, "findWinner")
         /\ UNCHANGED <<mapping, inserted>>
      \/ /\ InsertAcc(p) = NoID \/ WithAccount(InsertAcc(p)) = {}
         /\ InsertDoc(uid[p], InsertAcc(p), InsertDids(p))
         /\ \/ goal[p] = "distinct" /\ Goto(p, "verify")
            \/ goal[p] # "distinct" /\ Answer(p, uid[p], c)
            \/ LostReply(p)
  BY Zenon DEF Insert, InsertAcc, InsertDids
<1> HIDE DEF c
<1>5. /\ WorkerOK(p) /\ uid[p] \in Uids /\ Acc(p) \in AccountIDs /\ Did(p) \in DistinctIDs
      /\ MyCache(p) \in CacheType
  BY <1>1, WorkerTypes DEF WorkerOK
<1>6. /\ goal[p] = "distinct" => Acc(p) = NoID
      /\ goal[p] # "distinct" => Acc(p) \in Accounts
      /\ goal[p] # "account" => Did(p) \in Distincts
  BY <1>1, <1>5 DEF WorkerOK, AccountIDs, DistinctIDs
<1>7. InsertAcc(p) \in AccountIDs /\ InsertDids(p) \in SUBSET Distincts
  BY <1>5, <1>6 DEF InsertAcc, InsertDids, AccountIDs
<1>8. goal[p] # "distinct" => InsertCache(p) \in CacheType
  BY <1>2, <1>5, <1>6, CacheTypes DEF InsertCache, InsertAcc
<1> QED
  BY <1>1, <1>3, <1>4, <1>5, <1>6, <1>7, <1>8

LEMMA InsertStepType ==
  ASSUME TypeInv, NEW p \in Worker, Insert(p)
  PROVE  TypeInv'
<1>1. /\ pc[p] = "insert" /\ setup' = setup /\ UNCHANGED <<seq, procVars, resolves>>
      /\ uid[p] \in Uids /\ InsertAcc(p) \in AccountIDs /\ InsertDids(p) \in SUBSET Distincts
      /\ goal[p] = "distinct" => Acc(p) = NoID
      /\ goal[p] # "distinct" => Acc(p) \in Accounts
      /\ goal[p] # "account" => Did(p) \in Distincts
      /\ goal[p] # "distinct" => InsertCache(p) \in CacheType
  BY InsertCases
<1>2. WorkerOK(p) /\ UNCHANGED <<rec, am, dm, uid, goal, attempt>> /\ goal[p] \in {"account", "distinct", "both"}
  BY <1>1, WorkerTypes, ProcTypes DEF procVars
<1>3. "verify" \in Calls /\ "findWinner" \in Calls
  BY DEF Calls
<1>4. CASE InsertAcc(p) # NoID /\ Goto(p, "findWinner") /\ UNCHANGED <<mapping, inserted>>
  <2>1. /\ pc' \in [Worker -> Calls] /\ pc'[p] = "findWinner"
        /\ \A q \in Worker \ {p} : pc'[q] = pc[q]
        /\ OutType'
    BY <1>1, <1>3, <1>4, GotoType
  <2>2. goal[p] # "distinct"
    BY <1>4 DEF InsertAcc
  <2>3. WorkerOK(p)'
    BY <1>1, <1>2, <2>1, <2>2 DEF WorkerOK, Acc, Did
  <2>4. DBType'
    BY <1>1, <1>4, DBKept DEF dbVars
  <2> QED
    BY <1>1, <1>2, <2>1, <2>3, <2>4, WritingType DEF OwingCalls
<1>5. CASE /\ InsertDoc(uid[p], InsertAcc(p), InsertDids(p))
           /\ \/ goal[p] = "distinct" /\ Goto(p, "verify")
              \/ goal[p] # "distinct" /\ Answer(p, uid[p], InsertCache(p))
              \/ LostReply(p)
  <2>1. DBType'
    BY <1>1, <1>5, InsertType
  <2>2. /\ pc' \in [Worker -> Calls]
        /\ pc'[p] = "idle" \/ (pc'[p] = "verify" /\ goal[p] = "distinct")
        /\ \A q \in Worker \ {p} : pc'[q] = pc[q]
        /\ OutType'
    BY <1>1, <1>3, <1>5, GotoType, AnswerType, GiveUpType DEF LostReply
  <2>3. WorkerOK(p)'
    <3>1. CASE pc'[p] = "idle"
      BY <1>1, <1>2, <3>1 DEF WorkerOK, Acc, Did
    <3>2. CASE pc'[p] = "verify" /\ goal[p] = "distinct"
      BY <1>1, <1>2, <3>2, SetupFacts DEF WorkerOK, Acc, Did
    <3> QED
      BY <2>2, <3>1, <3>2
  <2> QED
    BY <1>1, <1>2, <2>1, <2>2, <2>3, WritingType DEF OwingCalls
<1> QED
  BY <1>4, <1>5, InsertCases

LEMMA FindWinnerType ==
  ASSUME TypeInv, NEW p \in Worker, FindWinner(p)
  PROVE  TypeInv'
<1>1. PICK m \in AccountLookup(Acc(p)) :
        /\ am' = [am EXCEPT ![p] = m]
        /\ \/ m = None /\ GiveUp(p)
           \/ /\ m # None /\ goal[p] = "account"
              /\ Answer(p, m.uid, CacheMapping(MyCache(p), m))
           \/ m # None /\ goal[p] = "both" /\ Goto(p, "bindDistinct")
  BY DEF FindWinner
<1>2. /\ setup' = setup /\ UNCHANGED dbVars /\ resolves' = resolves
      /\ rec' = rec /\ uid' = uid /\ dm' = dm /\ UNCHANGED <<goal, attempt>> /\ pc[p] = "findWinner"
  BY DEF FindWinner
<1>3. /\ m \in Document
      /\ m # None => m.uid \in Uids /\ m.acc = Acc(p) /\ m.uid # 0
      /\ WorkerOK(p) /\ MyCache(p) \in CacheType /\ Acc(p) # NoID
  BY <1>2, WorkerTypes, LookupFacts, SetupFacts DEF WorkerOK
<1>4. am'[p] = m /\ dm'[p] = dm[p] /\ dm' = [dm EXCEPT ![p] = dm[p]] /\ dm[p] \in Document
  BY <1>1, <1>2, ProcTypes
<1>5. Acc(p)' = Acc(p) /\ Did(p)' = Did(p)
  BY <1>2 DEF Acc, Did
<1>6. /\ pc' \in [Worker -> Calls] /\ \A q \in Worker \ {p} : pc'[q] = pc[q] /\ OutType'
      /\ pc'[p] = "idle" \/ (pc'[p] = "bindDistinct" /\ m # None /\ goal[p] = "both")
  <2>1. "bindDistinct" \in Calls
    BY DEF Calls
  <2>2. m # None => CacheMapping(MyCache(p), m) \in CacheType
    BY <1>3, CacheMappingType
  <2>3. OutType'
    BY <1>1, <1>2, <1>3, <2>1, <2>2, GotoType, AnswerType, GiveUpType
  <2> QED
    BY <1>1, <1>2, <1>3, <2>1, <2>2, <2>3, GotoType, AnswerType, GiveUpType
<1>7. WorkerOK(p)'
  <2>1. CASE pc'[p] = "idle"
    BY <1>3, <1>4, <1>5, <2>1 DEF WorkerOK
  <2>2. CASE pc'[p] = "bindDistinct" /\ m # None /\ goal[p] = "both"
    BY <1>2, <1>3, <1>4, <1>5, <2>2 DEF WorkerOK
  <2> QED
    BY <1>6, <2>1, <2>2
<1>8. OutType'
  BY <1>1, <1>2, <1>3, CacheMappingType, GotoType, AnswerType, GiveUpType DEF Calls
<1> QED
  BY <1>1, <1>2, <1>3, <1>4, <1>6, <1>7, <1>8, ReadingType DEF OwingCalls

LEMMA VerifyType ==
  ASSUME TypeInv, NEW p \in Worker, Verify(p)
  PROVE  TypeInv'
<1>1. PICK m \in DistinctLookup(Did(p)) :
        /\ dm' = [dm EXCEPT ![p] = m]
        /\ \/ m # None /\ m.uid # uid[p] /\ Goto(p, "deleteOrphan")
           \/ /\ m = None \/ m.uid = uid[p]
              /\ Answer(p, uid[p], CacheDistinct(MyCache(p), Did(p), uid[p]))
  BY DEF Verify
<1>2. /\ setup' = setup /\ UNCHANGED dbVars /\ resolves' = resolves
      /\ rec' = rec /\ uid' = uid /\ am' = am /\ UNCHANGED <<goal, attempt>> /\ pc[p] = "verify"
  BY DEF Verify
<1>3. /\ WorkerOK(p) /\ MyCache(p) \in CacheType /\ Did(p) \in Distincts /\ uid[p] \in Uids
      /\ m \in Document
      /\ m # None => m.uid \in Uids /\ Did(p) \in m.dids /\ m.uid # 0
  <2>1. WorkerOK(p) /\ MyCache(p) \in CacheType /\ Did(p) \in Distincts /\ uid[p] \in Uids
    BY <1>2, WorkerTypes DEF WorkerOK, DistinctIDs
  <2> QED
    BY <2>1, LookupFacts, SetupFacts DEF DistinctIDs
<1>4. dm'[p] = m /\ am'[p] = am[p] /\ am' = [am EXCEPT ![p] = am[p]] /\ am[p] \in Document
  BY <1>1, <1>2, ProcTypes
<1>5. Acc(p)' = Acc(p) /\ Did(p)' = Did(p)
  BY <1>2 DEF Acc, Did
<1>6. CASE m # None /\ m.uid # uid[p] /\ Goto(p, "deleteOrphan")
  <2>1. /\ pc' \in [Worker -> Calls] /\ pc'[p] = "deleteOrphan"
        /\ \A q \in Worker \ {p} : pc'[q] = pc[q]
        /\ OutType'
    BY <1>2, <1>6, GotoType DEF Calls
  <2>2. WorkerOK(p)'
    BY <1>2, <1>3, <1>4, <1>5, <1>6, <2>1 DEF WorkerOK
  <2> QED
    BY <1>1, <1>2, <1>3, <1>4, <2>1, <2>2, ReadingType DEF OwingCalls
<1>7. CASE Answer(p, uid[p], CacheDistinct(MyCache(p), Did(p), uid[p]))
  <2>1. CacheDistinct(MyCache(p), Did(p), uid[p]) \in CacheType
    BY <1>3, CacheTypes
  <2>2. /\ pc' \in [Worker -> Calls] /\ pc'[p] = "idle"
        /\ \A q \in Worker \ {p} : pc'[q] = pc[q]
        /\ OutType'
    BY <1>2, <1>3, <1>7, <2>1, AnswerType
  <2>3. WorkerOK(p)'
    BY <1>3, <1>4, <1>5, <2>2 DEF WorkerOK
  <2> QED
    BY <1>1, <1>2, <1>3, <1>4, <2>2, <2>3, ReadingType DEF OwingCalls
<1> QED
  BY <1>1, <1>6, <1>7

LEMMA EndingType ==
  ASSUME TypeInv, setup' = setup, NEW p \in Worker, DBType', seq' = seq, resolves' = resolves,
         UNCHANGED <<rec, am, dm, uid, goal, attempt>>,
         GiveUp(p) \/ \E u \in Uids, c \in CacheType : Answer(p, u, c)
  PROVE  TypeInv'
<1>1. /\ pc' \in [Worker -> Calls] /\ pc'[p] = "idle"
      /\ \A q \in Worker \ {p} : pc'[q] = pc[q]
      /\ OutType'
  BY AnswerType, GiveUpType
<1>2. WorkerOK(p)'
  <2>1. WorkerOK(p)
    BY WorkerTypes
  <2> QED
    BY <1>1, <2>1 DEF WorkerOK, Acc, Did
<1> QED
  BY <1>1, <1>2, WritingType DEF OwingCalls

LEMMA DeleteOrphanType ==
  ASSUME TypeInv, NEW p \in Worker, DeleteOrphan(p)
  PROVE  TypeInv'
<1>1. /\ setup' = setup /\ UNCHANGED <<inserted, seq, procVars, resolves>>
      /\ DeleteDoc(uid[p]) /\ pc[p] = "deleteOrphan"
      /\ Answer(p, dm[p].uid, CacheMapping(MyCache(p), dm[p])) \/ LostReply(p)
  BY DEF DeleteOrphan
<1>2. /\ dm[p] \in Document /\ dm[p].uid \in Uids /\ MyCache(p) \in CacheType
  BY <1>1, WorkerTypes DEF WorkerOK
<1>3. CacheMapping(MyCache(p), dm[p]) \in CacheType
  BY <1>2, CacheMappingType
<1>4. DBType'
  BY <1>1, DeleteType
<1> QED
  BY <1>1, <1>2, <1>3, <1>4, EndingType DEF procVars, LostReply

LEMMA BindDistinctType ==
  ASSUME TypeInv, NEW p \in Worker, BindDistinct(p)
  PROVE  TypeInv'
<1> DEFINE u == am[p].uid
           c == CacheDistinct(CacheMapping(MyCache(p), am[p]), Did(p), u)
<1>1. /\ setup' = setup /\ UNCHANGED <<inserted, seq, procVars, resolves>>
      /\ mapping' = AddDistinct(u, Did(p)) /\ pc[p] = "bindDistinct"
      /\ Answer(p, u, c) \/ LostReply(p)
  BY DEF BindDistinct
<1>2. /\ am[p] \in Document /\ u \in Uids /\ MyCache(p) \in CacheType /\ Did(p) \in Distincts
  BY <1>1, WorkerTypes DEF WorkerOK, DistinctIDs
<1>3. c \in CacheType
  BY <1>2, CacheMappingType, CacheTypes
<1>4. DBType'
  BY <1>1, <1>2, AddDistinctType
<1> HIDE DEF c, u
<1> QED
  BY <1>1, <1>2, <1>3, <1>4, EndingType DEF procVars, LostReply

LEMMA BindAccountCases ==
  ASSUME TypeInv, NEW p \in Worker, BindAccount(p)
  PROVE  /\ setup' = setup /\ UNCHANGED <<inserted, seq, rec, am, dm, uid, resolves>>
         /\ pc[p] = "bindAccount" /\ dm[p].uid \in Uids /\ dm[p] # None
         /\ Acc(p) \in Accounts /\ Did(p) \in Distincts /\ WorkerOK(p)
         /\ CacheAccount(MyCache(p), Acc(p), dm[p].uid) \in CacheType
         /\ \/ /\ Bindable(dm[p].uid, Acc(p))
               /\ mapping' = [mapping EXCEPT ![dm[p].uid].acc = Acc(p)]
               /\ \/ Answer(p, dm[p].uid, CacheAccount(MyCache(p), Acc(p), dm[p].uid))
                  \/ LostReply(p)
               /\ UNCHANGED <<goal, attempt>>
            \/ Create(p, "account") /\ mapping' = mapping
<1>1. /\ setup' = setup /\ UNCHANGED <<inserted, seq, rec, am, dm, uid, resolves>>
      /\ pc[p] = "bindAccount"
      /\ \/ /\ Bindable(dm[p].uid, Acc(p))
            /\ mapping' = [mapping EXCEPT ![dm[p].uid].acc = Acc(p)]
            /\ \/ Answer(p, dm[p].uid, CacheAccount(MyCache(p), Acc(p), dm[p].uid))
               \/ LostReply(p)
            /\ UNCHANGED <<goal, attempt>>
         \/ Create(p, "account") /\ mapping' = mapping
  BY DEF BindAccount
<1>2. /\ dm[p].uid \in Uids /\ dm[p] # None /\ MyCache(p) \in CacheType /\ WorkerOK(p)
      /\ Acc(p) \in Accounts /\ Did(p) \in Distincts
  BY <1>1, WorkerTypes DEF WorkerOK, AccountIDs, DistinctIDs
<1>3. CacheAccount(MyCache(p), Acc(p), dm[p].uid) \in CacheType
  BY <1>2, CacheTypes
<1> QED
  BY <1>1, <1>2, <1>3

LEMMA BindAccountType ==
  ASSUME TypeInv, NEW p \in Worker, BindAccount(p)
  PROVE  TypeInv'
<1>1. /\ setup' = setup /\ UNCHANGED <<inserted, seq, rec, am, dm, uid, resolves>>
      /\ pc[p] = "bindAccount" /\ dm[p].uid \in Uids
      /\ Acc(p) \in Accounts /\ Did(p) \in Distincts /\ WorkerOK(p)
      /\ CacheAccount(MyCache(p), Acc(p), dm[p].uid) \in CacheType
  BY BindAccountCases
<1>2. CASE /\ Bindable(dm[p].uid, Acc(p))
           /\ mapping' = [mapping EXCEPT ![dm[p].uid].acc = Acc(p)]
           /\ \/ Answer(p, dm[p].uid, CacheAccount(MyCache(p), Acc(p), dm[p].uid))
              \/ LostReply(p)
           /\ UNCHANGED <<goal, attempt>>
  <2>1. dm[p].uid \in DOMAIN mapping
    BY <1>2 DEF Bindable
  <2>2. DBType'
    BY <1>1, <1>2, <2>1, BindAccountDocs
  <2> QED
    BY <1>1, <1>2, <2>2, EndingType DEF LostReply
<1>3. CASE Create(p, "account") /\ mapping' = mapping
  <2>1. /\ pc' \in [Worker -> Calls] /\ pc'[p] = "nextUserID"
        /\ \A q \in Worker \ {p} : pc'[q] = pc[q]
        /\ OutType'
        /\ goal' = [goal EXCEPT ![p] = "account"] /\ attempt' = [attempt EXCEPT ![p] = 0]
        /\ goal'[p] = "account" /\ attempt'[p] = 0
    BY <1>1, <1>3, CreateFacts
  <2>2. WorkerOK(p)'
    BY <1>1, <2>1, SetupFacts DEF WorkerOK, Acc, Did
  <2>3. DBType'
    BY <1>1, <1>3, DBKept DEF dbVars
  <2> QED
    BY <1>1, <2>1, <2>2, <2>3, WritingType DEF OwingCalls
<1> QED
  BY <1>2, <1>3, BindAccountCases

LEMMA CallFailsType ==
  ASSUME TypeInv, NEW p \in Worker, CallFails(p)
  PROVE  TypeInv'
  BY EndingType, DBKept DEF CallFails, procVars

LEMMA TypeKept ==
  ASSUME TypeInv, UNCHANGED vars
  PROVE  TypeInv'
<1>1. /\ UNCHANGED <<setup, mapping, inserted, seq, cache, pc, rec, am, dm, uid, goal, attempt,
                     resolves, answers, errored>>
  BY DEF vars, dbVars, procVars, outVars
<1>2. DBType'
  BY <1>1 DEF TypeInv, DBType, Uids
<1>3. OutType'
  BY <1>1 DEF TypeInv, OutType, CacheType, Uids
<1>4. ProcType' /\ CountInv'
  BY <1>1 DEF TypeInv, ProcType, CountInv, Owing, Document, Uids
<1>5. \A p \in Worker : WorkerOK(p)'
  BY <1>1 DEF TypeInv, WorkerOK, Acc, Did
<1> QED
  BY <1>1, <1>2, <1>3, <1>4, <1>5 DEF TypeInv

LEMMA TypeStep == TypeInv /\ [Next]_vars => TypeInv'
<1>1. ASSUME TypeInv, NEW p \in Worker, Step(p)
      PROVE  TypeInv'
  BY <1>1, FindAccountType, FindDistinctType, NextUserIDType, CreateCounterType, InsertStepType,
     FindWinnerType, VerifyType, DeleteOrphanType, BindDistinctType, BindAccountType DEF Step
<1>2. ASSUME TypeInv, Finished \/ UNCHANGED vars
      PROVE  TypeInv'
  BY <1>2, TypeKept DEF Finished
<1> QED
  BY <1>1, <1>2, ResolveType, CallFailsType DEF Next

LEMMA TypeInvariance == Spec => []TypeInv
  BY TypeInit, TypeStep, PTL DEF Spec

(* Every variable keeps its type; in particular a call of Resolve takes at   *)
(* most one #user_id, so the counter never passes the calls.                 *)
THEOREM TypeCorrect == Spec => []TypeOK
  BY TypeInvType, TypeInvariance, PTL

-----------------------------------------------------------------------------
(* What anybody holds a #user_id for: the caches, the answers given, and the *)
(* mappings that workers have read claim that an account or a distinct id    *)
(* has it.                                                                   *)

DocClaims(m) ==
  {<<"account", m.acc, m.uid>>} \cup {<<"distinct", d, m.uid>> : d \in m.dids}

CacheClaims(c) ==
  {<<"account", a, c.acc[a]>> : a \in Accounts} \cup {<<"distinct", d, c.did[d]>> : d \in Distincts}

AnswerClaim(x) ==
  IF x[1] # NoID THEN <<"account", x[1], x[3]>> ELSE <<"distinct", x[2], x[3]>>

Claims ==
  {AnswerClaim(x) : x \in answers}
    \cup (UNION {CacheClaims(cache[q]) : q \in Pods})
    \cup (UNION {DocClaims(am[p]) \cup DocClaims(dm[p]) : p \in Worker})

(* u is the document that a lookup of d returns, when lookups are stable. *)
Led(d, u) ==
  u \in WithDistinct(d) /\ \A v \in WithDistinct(d) : mapping[u].rank <= mapping[v].rank

(* A #user_id is used once: a document or a claim has it only after the      *)
(* worker that took it has inserted its document.                            *)
FreshInv ==
  /\ \A u \in DOMAIN mapping \cup ({c[3] : c \in Claims} \ {0}) :
       u \in 1 .. seq /\ \A p \in Worker : pc[p] = "insert" => uid[p] # u
  /\ \A p \in Worker : pc[p] \in {"insert", "verify", "deleteOrphan"} => uid[p] \in 1 .. seq
  /\ \A p, q \in Worker :
       /\ pc[p] \in {"insert", "verify", "deleteOrphan"}
       /\ pc[q] \in {"insert", "verify", "deleteOrphan"}
       /\ uid[p] = uid[q]
       => p = q

(* The document of a worker that looks for a rival is its own to delete. *)
OwnInv ==
  \A p \in Worker : pc[p] \in {"verify", "deleteOrphan"} => uid[p] \in WithDistinct(Did(p))

(* One document per account, and a document that was ever taken for an       *)
(* account's is that account's, or deleted.                                  *)
BoundInv ==
  /\ \A u, v \in DOMAIN mapping :
       mapping[u].acc = mapping[v].acc /\ mapping[u].acc # NoID => u = v
  /\ \A c \in Claims : c[1] = "account" /\ c[2] # NoID /\ c[3] \in DOMAIN mapping =>
       mapping[c[3]].acc = c[2]

(* When no record carries both ids, documents are never bound a second time, *)
(* and an account's is never deleted.                                        *)
OneIDInv ==
  OneIDRecords =>
    /\ \A p \in Worker : /\ NoID \in {Acc(p), Did(p)}
                         /\ pc[p] = "findWinner" => WithAccount(Acc(p)) # {}
                         /\ pc[p] \in {"verify", "deleteOrphan"} => mapping[uid[p]].acc = NoID
                         /\ am[p].dids = {}
    /\ \A u \in DOMAIN mapping :
         /\ mapping[u].acc # NoID => mapping[u].dids = {}
         /\ \A d, e \in mapping[u].dids : d = e
    /\ \A c \in Claims : c[1] = "account" /\ c[2] # NoID /\ c[3] # 0 => c[3] \in DOMAIN mapping
    /\ ~setup.faults => ~errored

(* When lookups are stable as well, everybody holds the first document of a  *)
(* distinct id, which is never an orphan.                                    *)
RankInv ==
  /\ \A u \in DOMAIN mapping : mapping[u].rank < inserted
  /\ \A u, v \in DOMAIN mapping : mapping[u].rank = mapping[v].rank => u = v

LedInv ==
  OneIDEach => \A c \in Claims : c[1] = "distinct" /\ c[3] # 0 => Led(c[2], c[3])

IInv == TypeInv /\ FreshInv /\ OwnInv /\ BoundInv /\ OneIDInv /\ RankInv /\ LedInv

(* What a step claims was claimed before or is so in the documents. *)
New(c) ==
  c[3] # 0 =>
    /\ c[3] \in DOMAIN mapping' \/ \E b \in Claims : b[3] = c[3]
    /\ c[1] = "account" /\ c[2] # NoID =>
         c \in Claims \/ (c[3] \in DOMAIN mapping' /\ mapping'[c[3]].acc = c[2])
    /\ c[1] = "distinct" /\ OneIDEach => c \in Claims \/ Led(c[2], c[3])'

-----------------------------------------------------------------------------
(* What a step claims. *)

LEMMA AnswerClaimFacts ==
  ASSUME NEW a, NEW d, NEW u
  PROVE  /\ AnswerClaim(<<a, d, u>>)[3] = u
         /\ a # NoID => AnswerClaim(<<a, d, u>>) = <<"account", a, u>>
         /\ a = NoID => AnswerClaim(<<a, d, u>>) = <<"distinct", d, u>>
  BY DEF AnswerClaim

(* The caches after they were written hold what they did and what was put.   *)
LEMMA CacheClaimsFacts ==
  ASSUME TypeInv, NEW k \in CacheType, NEW u \in Uids
  PROVE  /\ \A a \in Accounts :
              CacheClaims(CacheAccount(k, a, u)) \subseteq CacheClaims(k) \cup {<<"account", a, u>>}
         /\ \A d \in Distincts :
              CacheClaims(CacheDistinct(k, d, u)) \subseteq CacheClaims(k) \cup {<<"distinct", d, u>>}
<1>1. ASSUME NEW a \in Accounts
      PROVE  CacheClaims(CacheAccount(k, a, u)) \subseteq CacheClaims(k) \cup {<<"account", a, u>>}
  <2>1. /\ CacheAccount(k, a, u).did = k.did
        /\ \A b \in Accounts : CacheAccount(k, a, u).acc[b] = IF b = a THEN u ELSE k.acc[b]
    BY DEF CacheAccount, CacheType
  <2> QED
    BY <2>1 DEF CacheClaims
<1>2. ASSUME NEW d \in Distincts
      PROVE  CacheClaims(CacheDistinct(k, d, u)) \subseteq CacheClaims(k) \cup {<<"distinct", d, u>>}
  <2>1. /\ CacheDistinct(k, d, u).acc = k.acc
        /\ \A e \in Distincts : CacheDistinct(k, d, u).did[e] = IF e = d THEN u ELSE k.did[e]
    BY DEF CacheDistinct, CacheType
  <2> QED
    BY <2>1 DEF CacheClaims
<1> QED
  BY <1>1, <1>2

LEMMA CacheMappingClaims ==
  ASSUME NEW k \in CacheType, NEW m \in Document
  PROVE  CacheClaims(CacheMapping(k, m)) \subseteq CacheClaims(k) \cup DocClaims(m)
<1>1. /\ \A a \in Accounts : CacheMapping(k, m).acc[a] = IF a = m.acc THEN m.uid ELSE k.acc[a]
      /\ \A d \in Distincts : CacheMapping(k, m).did[d] = IF d \in m.dids THEN m.uid ELSE k.did[d]
  BY DEF CacheMapping
<1> QED
  BY <1>1 DEF CacheClaims, DocClaims

LEMMA ClaimsMembers ==
  /\ \A c : c \in Claims <=> \/ \E x \in answers : c = AnswerClaim(x)
                             \/ \E q \in Pods : c \in CacheClaims(cache[q])
                             \/ \E p \in Worker : c \in DocClaims(am[p]) \/ c \in DocClaims(dm[p])
  /\ \A c : c \in Claims' <=> \/ \E x \in answers' : c = AnswerClaim(x)
                              \/ \E q \in Pods : c \in CacheClaims(cache'[q])
                              \/ \E p \in Worker : c \in DocClaims(am'[p]) \/ c \in DocClaims(dm'[p])
<1> DEFINE A(Ans) == {AnswerClaim(x) : x \in Ans}
           B(Cac) == UNION {CacheClaims(Cac[q]) : q \in Pods}
           C(Am, Dm) == UNION {DocClaims(Am[p]) \cup DocClaims(Dm[p]) : p \in Worker}
<1>1. \A c, Ans : c \in A(Ans) <=> \E x \in Ans : c = AnswerClaim(x)
  OBVIOUS
<1>2. \A c, Cac : c \in B(Cac) <=> \E q \in Pods : c \in CacheClaims(Cac[q])
  OBVIOUS
<1>3. \A c, Am, Dm : c \in C(Am, Dm) <=>
                      \E p \in Worker : c \in DocClaims(Am[p]) \/ c \in DocClaims(Dm[p])
  OBVIOUS
<1>4. /\ Claims = A(answers) \cup B(cache) \cup C(am, dm)
      /\ Claims' = A(answers') \cup B(cache') \cup C(am', dm')
  <2>1. Claims = A(answers) \cup B(cache) \cup C(am, dm)
    BY DEF Claims
  <2>2. Claims' = A(answers') \cup B(cache') \cup C(am', dm')
    BY DEF Claims
  <2> QED
    BY <2>1, <2>2
<1> HIDE DEF A, B, C
<1>5. \A c : /\ c \in Claims <=> c \in A(answers) \/ c \in B(cache) \/ c \in C(am, dm)
             /\ c \in Claims' <=> c \in A(answers') \/ c \in B(cache') \/ c \in C(am', dm')
  BY <1>4
<1> QED
  BY <1>1, <1>2, <1>3, <1>5

LEMMA OldClaims ==
  ASSUME TypeInv
  PROVE  /\ \A c \in Claims : New(c)
         /\ \A p \in Worker : /\ DocClaims(am[p]) \subseteq Claims
                              /\ DocClaims(dm[p]) \subseteq Claims
                              /\ CacheClaims(MyCache(p)) \subseteq Claims
         /\ \A q \in Pods : CacheClaims(cache[q]) \subseteq Claims
         /\ \A x \in answers : AnswerClaim(x) \in Claims
<1>1. /\ \A p \in Worker : DocClaims(am[p]) \subseteq Claims /\ DocClaims(dm[p]) \subseteq Claims
      /\ \A q \in Pods : CacheClaims(cache[q]) \subseteq Claims
      /\ \A x \in answers : AnswerClaim(x) \in Claims
  BY ClaimsMembers
<1>2. \A p \in Worker : CacheClaims(MyCache(p)) \subseteq Claims
  BY <1>1, SetupFacts DEF MyCache
<1>3. \A c \in Claims : New(c)
  BY DEF New
<1> QED
  BY <1>1, <1>2, <1>3

(* All that a step of p can claim. *)
LEMMA ClaimsAssembly ==
  ASSUME TypeInv, NEW p \in Worker,
         \A q \in Worker \ {p} : am'[q] = am[q] /\ dm'[q] = dm[q],
         \A c \in DocClaims(am'[p]) : New(c),
         \A c \in DocClaims(dm'[p]) : New(c),
         \A r \in Pods : cache'[r] = cache[r] \/ \A c \in CacheClaims(cache'[r]) : New(c),
         \A x \in answers' : x \in answers \/ New(AnswerClaim(x))
  PROVE  \A c \in Claims' : New(c)
<1> SUFFICES ASSUME NEW c \in Claims'
             PROVE  New(c)
  OBVIOUS
<1>1. \/ \E x \in answers' : c = AnswerClaim(x)
      \/ \E r \in Pods : c \in CacheClaims(cache'[r])
      \/ \E q \in Worker : c \in DocClaims(am'[q]) \cup DocClaims(dm'[q])
  BY ClaimsMembers
<1>2. CASE \E x \in answers' : c = AnswerClaim(x)
  BY <1>2, OldClaims
<1>3. CASE \E r \in Pods : c \in CacheClaims(cache'[r])
  BY <1>3, OldClaims
<1>4. CASE \E q \in Worker : c \in DocClaims(am'[q]) \cup DocClaims(dm'[q])
  BY <1>4, OldClaims
<1> QED
  BY <1>1, <1>2, <1>3, <1>4

(* A step that reads nothing and answers nothing. *)
LEMMA ClaimsKept ==
  ASSUME TypeInv, UNCHANGED <<am, dm, cache, answers>>
  PROVE  \A c \in Claims' : New(c)
<1>1. Claims' = Claims
  BY DEF Claims, AnswerClaim, CacheClaims, DocClaims
<1> QED
  BY <1>1, OldClaims

(* A step that answers u and leaves the caches at k. *)
LEMMA AnswerClaims ==
  ASSUME TypeInv, setup' = setup, NEW p \in Worker, NEW u \in Uids, NEW k \in CacheType, Answer(p, u, k),
         \A q \in Worker \ {p} : am'[q] = am[q] /\ dm'[q] = dm[q],
         \A c \in DocClaims(am'[p]) : New(c),
         \A c \in DocClaims(dm'[p]) : New(c),
         \A c \in CacheClaims(k) : New(c),
         New(AnswerClaim(<<Acc(p), Did(p), u>>))
  PROVE  \A c \in Claims' : New(c)
<1>1. /\ cache'[PodOf[p]] = k
      /\ \A r \in Pods \ {PodOf[p]} : cache'[r] = cache[r]
  BY AnswerType
<1>2. \A r \in Pods : cache'[r] = cache[r] \/ \A c \in CacheClaims(cache'[r]) : New(c)
  BY <1>1
<1>3. \A x \in answers' : x \in answers \/ New(AnswerClaim(x))
  BY DEF Answer
<1> QED
  BY <1>2, <1>3, ClaimsAssembly

(* What a lookup returns stands in the documents. *)
LEMMA LookupClaims ==
  ASSUME IInv, UNCHANGED <<setup, mapping>>
  PROVE  /\ \A a \in AccountIDs \ {NoID} : \A m \in AccountLookup(a) : \A c \in DocClaims(m) : New(c)
         /\ \A d \in Distincts : \A m \in DistinctLookup(d) : \A c \in DocClaims(m) : New(c)
<1>1. TypeInv /\ OneIDInv
  BY DEF IInv
<1>2. ASSUME NEW a \in AccountIDs \ {NoID}, NEW m \in AccountLookup(a), NEW c \in DocClaims(m)
      PROVE  New(c)
  <2>1. /\ m = None => m.uid = 0 /\ m.dids = {}
        /\ m # None => m.uid \in DOMAIN mapping /\ m = Read(m.uid) /\ m.acc = a
    BY <1>1, NoneFacts, LookupFacts
  <2>2. CASE m = None
    BY <2>1, <2>2 DEF DocClaims, New
  <2>3. CASE m # None
    <3>1. c[3] = m.uid /\ m.uid \in DOMAIN mapping'
      BY <2>1, <2>3 DEF DocClaims
    <3>2. c[1] = "account" => c[2] = m.acc /\ mapping'[m.uid].acc = m.acc
      BY <2>1, <2>3 DEF DocClaims, Read
    <3>3. ASSUME OneIDEach
          PROVE  c[1] # "distinct"
      <4>1. mapping[m.uid].acc = a /\ a # NoID
        BY <2>1, <2>3 DEF Read
      <4>2. mapping[m.uid].dids = {}
        BY <1>1, <2>1, <2>3, <3>3, <4>1 DEF OneIDInv, OneIDEach
      <4>3. m.dids = {}
        BY <2>1, <2>3, <4>2 DEF Read
      <4> QED
        BY <4>3 DEF DocClaims
    <3> QED
      BY <3>1, <3>2, <3>3 DEF New
  <2> QED
    BY <2>2, <2>3
<1>3. ASSUME NEW d \in Distincts, NEW m \in DistinctLookup(d), NEW c \in DocClaims(m)
      PROVE  New(c)
  <2>1. /\ m = None => m.uid = 0 /\ m.dids = {}
        /\ m # None => m.uid \in DOMAIN mapping /\ m = Read(m.uid) /\ d \in m.dids
    BY <1>1, NoneFacts, LookupFacts DEF DistinctIDs
  <2>2. CASE m = None
    BY <2>1, <2>2 DEF DocClaims, New
  <2>3. CASE m # None
    <3>1. c[3] = m.uid /\ m.uid \in DOMAIN mapping'
      BY <2>1, <2>3 DEF DocClaims
    <3>2. c[1] = "account" => c[2] = m.acc /\ mapping'[m.uid].acc = m.acc
      BY <2>1, <2>3 DEF DocClaims, Read
    <3>3. ASSUME OneIDEach, c[1] = "distinct"
          PROVE  Led(c[2], m.uid)'
      <4>1. c[2] \in m.dids /\ mapping[m.uid].dids = m.dids
        BY <2>1, <2>3, <3>3 DEF DocClaims, Read
      <4>2. c[2] = d
        BY <1>1, <2>1, <2>3, <3>3, <4>1 DEF OneIDInv, OneIDEach
      <4>3. Led(d, m.uid)
        <5>1. setup.stable /\ WithDistinct(d) # {}
          BY <2>1, <2>3, <3>3, <4>1 DEF OneIDEach, WithDistinct
        <5>2. PICK u \in WithDistinct(d) :
                m = Read(u) /\ \A v \in WithDistinct(d) : mapping[u].rank <= mapping[v].rank
          BY <5>1 DEF DistinctLookup
        <5>3. u = m.uid
          BY <5>2 DEF Read
        <5> QED
          BY <5>2, <5>3 DEF Led
      <4> QED
        BY <4>2, <4>3 DEF Led, WithDistinct
    <3> QED
      BY <3>1, <3>2, <3>3 DEF New
  <2> QED
    BY <2>2, <2>3
<1> QED
  BY <1>2, <1>3

LEMMA NoneClaims == \A c \in DocClaims(None) : New(c)
  BY NoneFacts DEF DocClaims, New

LEMMA ResolveClaims ==
  ASSUME IInv, NEW p \in Worker, NEW r \in setup.records, Resolve(p, r)
  PROVE  \A c \in Claims' : New(c)
<1> DEFINE hit == CacheHit(MyCache(p), r[1], r[2])
<1>1. TypeInv /\ setup' = setup
  BY DEF IInv, Resolve
<1>2. /\ \A q \in Worker \ {p} : am'[q] = am[q] /\ dm'[q] = dm[q]
      /\ am'[p] = None /\ dm'[p] = None
  BY <1>1, ProcTypes DEF Resolve
<1>3. \A c \in DocClaims(am'[p]) \cup DocClaims(dm'[p]) : New(c)
  BY <1>2, NoneClaims
<1>4. cache' = cache /\ (answers' = answers \/ (hit # 0 /\ answers' = answers \cup {<<r[1], r[2], hit>>}))
  BY DEF Resolve, Goto
<1>5. ASSUME hit # 0
      PROVE  AnswerClaim(<<r[1], r[2], hit>>) \in Claims
  <2>1. r[1] \in AccountIDs /\ r[2] \in DistinctIDs /\ (r[1] = NoID => r[2] # NoID)
    <3>1. r \in IDPairs
      BY <1>1, SetupFacts
    <3> QED
      BY <3>1 DEF IDPairs, AccountIDs, DistinctIDs
  <2>2. CASE r[1] # NoID
    <3>1. hit = MyCache(p).acc[r[1]] /\ r[1] \in Accounts
      BY <1>5, <2>1, <2>2 DEF CacheHit, AccountIDs
    <3>2. AnswerClaim(<<r[1], r[2], hit>>) = <<"account", r[1], MyCache(p).acc[r[1]]>>
      BY <2>2, <3>1, AnswerClaimFacts
    <3>3. <<"account", r[1], MyCache(p).acc[r[1]]>> \in CacheClaims(MyCache(p))
      BY <3>1 DEF CacheClaims
    <3> QED
      BY <1>1, <3>2, <3>3, OldClaims
  <2>3. CASE r[1] = NoID
    <3>1. hit = MyCache(p).did[r[2]] /\ r[2] \in Distincts
      BY <1>5, <2>1, <2>3 DEF CacheHit, DistinctIDs
    <3>2. AnswerClaim(<<r[1], r[2], hit>>) = <<"distinct", r[2], MyCache(p).did[r[2]]>>
      BY <2>3, <3>1, AnswerClaimFacts
    <3>3. <<"distinct", r[2], MyCache(p).did[r[2]]>> \in CacheClaims(MyCache(p))
      BY <3>1 DEF CacheClaims
    <3> QED
      BY <1>1, <3>2, <3>3, OldClaims
  <2> QED
    BY <2>2, <2>3
<1>6. \A x \in answers' : x \in answers \/ New(AnswerClaim(x))
  BY <1>1, <1>4, <1>5, OldClaims
<1> HIDE DEF hit
<1> QED
  BY <1>1, <1>2, <1>3, <1>4, <1>6, ClaimsAssembly

LEMMA FindAccountClaims ==
  ASSUME IInv, NEW p \in Worker, FindAccount(p)
  PROVE  \A c \in Claims' : New(c)
<1>1. /\ TypeInv /\ UNCHANGED <<setup, mapping>> /\ dm' = dm /\ pc[p] = "findAccount"
      /\ WorkerOK(p) /\ MyCache(p) \in CacheType /\ Acc(p) \in AccountIDs \ {NoID}
  <2>1. TypeInv /\ UNCHANGED <<setup, mapping>> /\ dm' = dm /\ pc[p] = "findAccount"
    BY DEF IInv, FindAccount, dbVars
  <2> QED
    BY <2>1, WorkerTypes DEF WorkerOK
<1>2. PICK m \in AccountLookup(Acc(p)) :
        /\ am' = [am EXCEPT ![p] = m]
        /\ \/ m # None /\ Answer(p, m.uid, CacheMapping(MyCache(p), m))
           \/ UNCHANGED <<cache, answers>>
  BY DEF FindAccount, Goto, Create
<1>3. /\ am'[p] = m /\ \A q \in Worker \ {p} : am'[q] = am[q] /\ dm'[q] = dm[q]
      /\ m \in Document /\ (m # None => m.uid \in Uids /\ m.acc = Acc(p))
      /\ \A c \in DocClaims(m) : New(c)
  BY <1>1, <1>2, ProcTypes, LookupFacts, LookupClaims
<1>4. \A c \in DocClaims(dm'[p]) : New(c)
  BY <1>1, OldClaims
<1>5. CASE UNCHANGED <<cache, answers>>
  BY <1>1, <1>3, <1>4, <1>5, ClaimsAssembly
<1>6. CASE m # None /\ Answer(p, m.uid, CacheMapping(MyCache(p), m))
  <2>1. /\ CacheMapping(MyCache(p), m) \in CacheType
        /\ \A c \in CacheClaims(CacheMapping(MyCache(p), m)) : New(c)
    BY <1>1, <1>3, <1>6, CacheMappingType, CacheMappingClaims, OldClaims
  <2>2. New(AnswerClaim(<<Acc(p), Did(p), m.uid>>))
    <3>1. AnswerClaim(<<Acc(p), Did(p), m.uid>>) = <<"account", m.acc, m.uid>>
      BY <1>1, <1>3, <1>6, AnswerClaimFacts
    <3> QED
      BY <1>3, <3>1 DEF DocClaims
  <2> QED
    BY <1>1, <1>3, <1>4, <1>6, <2>1, <2>2, AnswerClaims
<1> QED
  BY <1>2, <1>5, <1>6

LEMMA FindDistinctClaims ==
  ASSUME IInv, NEW p \in Worker, FindDistinct(p)
  PROVE  \A c \in Claims' : New(c)
<1>1. /\ TypeInv /\ UNCHANGED <<setup, mapping>> /\ am' = am /\ pc[p] = "findDistinct"
      /\ WorkerOK(p) /\ MyCache(p) \in CacheType /\ Did(p) \in Distincts
      /\ am[p] \in Document /\ (am[p] # None => am[p].uid \in Uids)
  <2>1. TypeInv /\ UNCHANGED <<setup, mapping>> /\ am' = am /\ pc[p] = "findDistinct"
    BY DEF IInv, FindDistinct, dbVars
  <2> QED
    BY <2>1, WorkerTypes DEF WorkerOK, DistinctIDs
<1>2. PICK m \in DistinctLookup(Did(p)) :
        /\ dm' = [dm EXCEPT ![p] = m]
        /\ \/ Acc(p) = NoID /\ m # None /\ Answer(p, m.uid, CacheMapping(MyCache(p), m))
           \/ /\ Acc(p) # NoID /\ am[p] # None /\ m # None
              /\ Answer(p, am[p].uid, CacheMapping(CacheMapping(MyCache(p), am[p]), m))
           \/ UNCHANGED <<cache, answers>>
  <2>1. PICK m \in DistinctLookup(Did(p)) :
          /\ dm' = [dm EXCEPT ![p] = m]
          /\ IF Acc(p) = NoID THEN WithDistinctOnly(p, m) ELSE WithBoth(p, m)
    BY DEF FindDistinct
  <2> QED
    BY <2>1 DEF WithDistinctOnly, WithBoth, Goto, Create
<1>3. /\ dm'[p] = m /\ \A q \in Worker \ {p} : am'[q] = am[q] /\ dm'[q] = dm[q]
      /\ m \in Document /\ (m # None => m.uid \in Uids /\ Did(p) \in m.dids)
      /\ \A c \in DocClaims(m) : New(c)
  BY <1>1, <1>2, ProcTypes, LookupFacts, LookupClaims DEF DistinctIDs
<1>4. \A c \in DocClaims(am'[p]) : New(c)
  BY <1>1, OldClaims
<1>5. CASE UNCHANGED <<cache, answers>>
  BY <1>1, <1>3, <1>4, <1>5, ClaimsAssembly
<1>6. CASE Acc(p) = NoID /\ m # None /\ Answer(p, m.uid, CacheMapping(MyCache(p), m))
  <2>1. /\ CacheMapping(MyCache(p), m) \in CacheType
        /\ \A c \in CacheClaims(CacheMapping(MyCache(p), m)) : New(c)
    BY <1>1, <1>3, <1>6, CacheMappingType, CacheMappingClaims, OldClaims
  <2>2. New(AnswerClaim(<<Acc(p), Did(p), m.uid>>))
    <3>1. AnswerClaim(<<Acc(p), Did(p), m.uid>>) = <<"distinct", Did(p), m.uid>>
      BY <1>6, AnswerClaimFacts
    <3> QED
      BY <1>3, <1>6, <3>1 DEF DocClaims
  <2> QED
    BY <1>1, <1>3, <1>4, <1>6, <2>1, <2>2, AnswerClaims
<1>7. CASE /\ Acc(p) # NoID /\ am[p] # None /\ m # None
           /\ Answer(p, am[p].uid, CacheMapping(CacheMapping(MyCache(p), am[p]), m))
  <2>1. /\ CacheMapping(MyCache(p), am[p]) \in CacheType
        /\ \A c \in CacheClaims(CacheMapping(MyCache(p), am[p])) : New(c)
    BY <1>1, <1>3, <1>4, <1>7, CacheMappingType, CacheMappingClaims, OldClaims
  <2>2. /\ CacheMapping(CacheMapping(MyCache(p), am[p]), m) \in CacheType
        /\ \A c \in CacheClaims(CacheMapping(CacheMapping(MyCache(p), am[p]), m)) : New(c)
    BY <1>3, <1>7, <2>1, CacheMappingType, CacheMappingClaims
  <2>3. New(AnswerClaim(<<Acc(p), Did(p), am[p].uid>>))
    <3>1. AnswerClaim(<<Acc(p), Did(p), am[p].uid>>) = <<"account", am[p].acc, am[p].uid>>
      BY <1>1, <1>7, AnswerClaimFacts DEF WorkerOK
    <3> QED
      BY <1>1, <1>4, <3>1 DEF DocClaims
  <2> QED
    BY <1>1, <1>3, <1>4, <1>7, <2>2, <2>3, AnswerClaims
<1> QED
  BY <1>2, <1>5, <1>6, <1>7

LEMMA InsertClaims ==
  ASSUME IInv, NEW p \in Worker, Insert(p)
  PROVE  \A c \in Claims' : New(c)
<1>1. /\ TypeInv /\ setup' = setup /\ UNCHANGED <<rec, am, dm, uid>> /\ MyCache(p) \in CacheType
      /\ \A c \in DocClaims(am'[p]) \cup DocClaims(dm'[p]) : New(c)
      /\ uid[p] \in Uids /\ InsertAcc(p) \in AccountIDs /\ InsertDids(p) \in SUBSET Distincts
      /\ goal[p] # "distinct" => Acc(p) \in Accounts /\ InsertCache(p) \in CacheType
      /\ goal[p] # "account" => Did(p) \in Distincts
      /\ seq' = seq
  <2>1. TypeInv
    BY DEF IInv
  <2> QED
    BY <2>1, InsertCases, OldClaims, WorkerTypes DEF procVars
<1>2. CASE UNCHANGED <<cache, answers>>
  BY <1>1, <1>2, ClaimsKept
<1>3. CASE /\ InsertDoc(uid[p], InsertAcc(p), InsertDids(p))
           /\ goal[p] # "distinct" /\ Answer(p, uid[p], InsertCache(p))
  <2>1. /\ uid[p] \in DOMAIN mapping' /\ mapping'[uid[p]].acc = Acc(p)
        /\ Acc(p) \in Accounts /\ Acc(p) # NoID /\ InsertAcc(p) = Acc(p)
    <3>1. Acc(p) \in Accounts /\ Acc(p) # NoID /\ InsertAcc(p) = Acc(p)
      BY <1>1, <1>3, SetupFacts DEF InsertAcc
    <3>2. /\ DOMAIN mapping' = DOMAIN mapping \cup {uid[p]}
          /\ mapping'[uid[p]] = [acc |-> InsertAcc(p), dids |-> InsertDids(p), rank |-> inserted]
      BY <1>1, <1>3, InsertType
    <3> QED
      BY <3>1, <3>2
  <2>2. New(<<"account", Acc(p), uid[p]>>)
    BY <2>1 DEF New
  <2>3. New(AnswerClaim(<<Acc(p), Did(p), uid[p]>>))
    BY <2>1, <2>2, AnswerClaimFacts
  <2>4. goal[p] # "account" => New(<<"distinct", Did(p), uid[p]>>)
    <3>1. goal[p] # "account" => ~OneIDEach
      <4>1. OneIDRecords => NoID \in {Acc(p), Did(p)}
        BY DEF IInv, OneIDInv
      <4> QED
        BY <1>1, <2>1, <4>1, SetupFacts DEF OneIDEach
    <3> QED
      BY <2>1, <3>1 DEF New
  <2>5. \A c \in CacheClaims(InsertCache(p)) : New(c)
    <3>1. /\ CacheAccount(MyCache(p), Acc(p), uid[p]) \in CacheType
          /\ \A c \in CacheClaims(CacheAccount(MyCache(p), Acc(p), uid[p])) : New(c)
      <4>1. CacheClaims(CacheAccount(MyCache(p), Acc(p), uid[p]))
              \subseteq CacheClaims(MyCache(p)) \cup {<<"account", Acc(p), uid[p]>>}
        BY <1>1, <2>1, CacheClaimsFacts
      <4>2. CacheAccount(MyCache(p), Acc(p), uid[p]) \in CacheType
        BY <1>1, <2>1, CacheTypes
      <4> QED
        BY <1>1, <2>2, <4>1, <4>2, OldClaims
    <3>2. CASE goal[p] = "account"
      BY <2>1, <3>1, <3>2 DEF InsertCache
    <3>3. CASE goal[p] # "account"
      <4>1. InsertCache(p) = CacheDistinct(CacheAccount(MyCache(p), Acc(p), uid[p]), Did(p), uid[p])
        BY <2>1, <3>3 DEF InsertCache
      <4>2. CacheClaims(InsertCache(p)) \subseteq
              CacheClaims(CacheAccount(MyCache(p), Acc(p), uid[p])) \cup {<<"distinct", Did(p), uid[p]>>}
        BY <1>1, <3>1, <3>3, <4>1, CacheClaimsFacts
      <4> QED
        BY <2>4, <3>1, <3>3, <4>2
    <3> QED
      BY <3>2, <3>3
  <2> QED
    BY <1>1, <1>3, <2>3, <2>5, AnswerClaims
<1>4. \/ UNCHANGED <<cache, answers>>
      \/ /\ InsertDoc(uid[p], InsertAcc(p), InsertDids(p))
         /\ goal[p] # "distinct" /\ Answer(p, uid[p], InsertCache(p))
  BY <1>1, InsertCases DEF Goto, LostReply, GiveUp
<1> QED
  BY <1>2, <1>3, <1>4

LEMMA FindWinnerClaims ==
  ASSUME IInv, NEW p \in Worker, FindWinner(p)
  PROVE  \A c \in Claims' : New(c)
<1>1. /\ TypeInv /\ UNCHANGED <<setup, mapping>> /\ dm' = dm
      /\ WorkerOK(p) /\ MyCache(p) \in CacheType /\ Acc(p) \in AccountIDs \ {NoID}
  <2>1. TypeInv /\ UNCHANGED <<setup, mapping>> /\ dm' = dm /\ pc[p] = "findWinner"
    BY DEF IInv, FindWinner, dbVars
  <2> QED
    BY <2>1, WorkerTypes DEF WorkerOK
<1>2. PICK m \in AccountLookup(Acc(p)) :
        /\ am' = [am EXCEPT ![p] = m]
        /\ \/ m # None /\ Answer(p, m.uid, CacheMapping(MyCache(p), m))
           \/ UNCHANGED <<cache, answers>>
  BY DEF FindWinner, Goto, GiveUp
<1>3. /\ am'[p] = m /\ \A q \in Worker \ {p} : am'[q] = am[q] /\ dm'[q] = dm[q]
      /\ m \in Document /\ (m # None => m.uid \in Uids /\ m.acc = Acc(p))
      /\ \A c \in DocClaims(m) : New(c)
  BY <1>1, <1>2, ProcTypes, LookupFacts, LookupClaims
<1>4. \A c \in DocClaims(dm'[p]) : New(c)
  BY <1>1, OldClaims
<1>5. CASE UNCHANGED <<cache, answers>>
  BY <1>1, <1>3, <1>4, <1>5, ClaimsAssembly
<1>6. CASE m # None /\ Answer(p, m.uid, CacheMapping(MyCache(p), m))
  <2>1. /\ CacheMapping(MyCache(p), m) \in CacheType
        /\ \A c \in CacheClaims(CacheMapping(MyCache(p), m)) : New(c)
    BY <1>1, <1>3, <1>6, CacheMappingType, CacheMappingClaims, OldClaims
  <2>2. New(AnswerClaim(<<Acc(p), Did(p), m.uid>>))
    <3>1. AnswerClaim(<<Acc(p), Did(p), m.uid>>) = <<"account", m.acc, m.uid>>
      BY <1>1, <1>3, <1>6, AnswerClaimFacts
    <3> QED
      BY <1>3, <3>1 DEF DocClaims
  <2> QED
    BY <1>1, <1>3, <1>4, <1>6, <2>1, <2>2, AnswerClaims
<1> QED
  BY <1>2, <1>5, <1>6

(* A worker that looks for a rival finds at least its own document. *)
LEMMA VerifyCases ==
  ASSUME IInv, NEW p \in Worker, Verify(p)
  PROVE  \E m \in DistinctLookup(Did(p)) :
           /\ m # None /\ m \in Document /\ m.uid \in Uids /\ m.uid \in DOMAIN mapping
           /\ dm' = [dm EXCEPT ![p] = m]
           /\ \/ m.uid # uid[p] /\ Goto(p, "deleteOrphan")
              \/ m.uid = uid[p] /\ Answer(p, uid[p], CacheDistinct(MyCache(p), Did(p), uid[p]))
<1>1. TypeInv /\ pc[p] = "verify" /\ uid[p] \in WithDistinct(Did(p))
  BY DEF IInv, OwnInv, Verify
<1>2. PICK m \in DistinctLookup(Did(p)) :
        /\ dm' = [dm EXCEPT ![p] = m]
        /\ \/ m # None /\ m.uid # uid[p] /\ Goto(p, "deleteOrphan")
           \/ /\ m = None \/ m.uid = uid[p]
              /\ Answer(p, uid[p], CacheDistinct(MyCache(p), Did(p), uid[p]))
  BY DEF Verify
<1>3. m # None /\ m \in Document /\ m.uid \in Uids /\ m.uid \in DOMAIN mapping
  BY <1>1, WorkerTypes, LookupFacts
<1> QED
  BY <1>2, <1>3

LEMMA VerifyClaims ==
  ASSUME IInv, NEW p \in Worker, Verify(p)
  PROVE  \A c \in Claims' : New(c)
<1>1. /\ TypeInv /\ UNCHANGED <<setup, mapping>> /\ am' = am
      /\ WorkerOK(p) /\ MyCache(p) \in CacheType /\ Did(p) \in Distincts /\ Acc(p) = NoID
  <2>1. TypeInv /\ UNCHANGED <<setup, mapping>> /\ am' = am /\ pc[p] = "verify"
    BY DEF IInv, Verify, dbVars
  <2> QED
    BY <2>1, WorkerTypes DEF WorkerOK, DistinctIDs
<1>2. PICK m \in DistinctLookup(Did(p)) :
        /\ m # None /\ m \in Document /\ m.uid \in Uids
        /\ dm' = [dm EXCEPT ![p] = m]
        /\ \/ m.uid # uid[p] /\ Goto(p, "deleteOrphan")
           \/ m.uid = uid[p] /\ Answer(p, uid[p], CacheDistinct(MyCache(p), Did(p), uid[p]))
  BY VerifyCases
<1>3. /\ dm'[p] = m /\ \A q \in Worker \ {p} : am'[q] = am[q] /\ dm'[q] = dm[q]
      /\ Did(p) \in m.dids
      /\ \A c \in DocClaims(m) : New(c)
  BY <1>1, <1>2, ProcTypes, LookupFacts, LookupClaims DEF DistinctIDs
<1>4. \A c \in DocClaims(am'[p]) : New(c)
  BY <1>1, OldClaims
<1>5. CASE Goto(p, "deleteOrphan")
  BY <1>1, <1>3, <1>4, <1>5, ClaimsAssembly DEF Goto
<1>6. CASE m.uid = uid[p] /\ Answer(p, uid[p], CacheDistinct(MyCache(p), Did(p), uid[p]))
  <2>1. New(<<"distinct", Did(p), uid[p]>>)
    BY <1>3, <1>6 DEF DocClaims
  <2>2. /\ CacheDistinct(MyCache(p), Did(p), uid[p]) \in CacheType
        /\ \A c \in CacheClaims(CacheDistinct(MyCache(p), Did(p), uid[p])) : New(c)
    <3>1. CacheClaims(CacheDistinct(MyCache(p), Did(p), uid[p]))
            \subseteq CacheClaims(MyCache(p)) \cup {<<"distinct", Did(p), uid[p]>>}
      BY <1>1, <1>2, <1>6, CacheClaimsFacts
    <3>2. CacheDistinct(MyCache(p), Did(p), uid[p]) \in CacheType
      BY <1>1, <1>2, <1>6, CacheTypes
    <3> QED
      BY <1>1, <2>1, <3>1, <3>2, OldClaims
  <2>3. New(AnswerClaim(<<Acc(p), Did(p), uid[p]>>))
    BY <1>1, <2>1, AnswerClaimFacts
  <2> QED
    BY <1>1, <1>2, <1>3, <1>4, <1>6, <2>2, <2>3, AnswerClaims
<1> QED
  BY <1>2, <1>5, <1>6

LEMMA DeleteOrphanClaims ==
  ASSUME IInv, NEW p \in Worker, DeleteOrphan(p)
  PROVE  \A c \in Claims' : New(c)
<1>1. /\ TypeInv /\ setup' = setup /\ UNCHANGED <<rec, am, dm>> /\ MyCache(p) \in CacheType
      /\ Answer(p, dm[p].uid, CacheMapping(MyCache(p), dm[p])) \/ UNCHANGED <<cache, answers>>
      /\ pc[p] = "deleteOrphan"
  <2>1. TypeInv
    BY DEF IInv
  <2> QED
    BY <2>1, WorkerTypes DEF DeleteOrphan, procVars, LostReply, GiveUp
<1>2. /\ dm[p] \in Document /\ dm[p].uid \in Uids /\ Did(p) \in dm[p].dids /\ Acc(p) = NoID
      /\ \A c \in DocClaims(am'[p]) \cup DocClaims(dm'[p]) : New(c)
  BY <1>1, WorkerTypes, OldClaims DEF WorkerOK
<1>3. CASE UNCHANGED <<cache, answers>>
  BY <1>1, <1>3, ClaimsKept
<1>4. CASE Answer(p, dm[p].uid, CacheMapping(MyCache(p), dm[p]))
  <2>1. /\ CacheMapping(MyCache(p), dm[p]) \in CacheType
        /\ \A c \in CacheClaims(CacheMapping(MyCache(p), dm[p])) : New(c)
    BY <1>1, <1>2, CacheMappingType, CacheMappingClaims, OldClaims
  <2>2. New(AnswerClaim(<<Acc(p), Did(p), dm[p].uid>>))
    <3>1. AnswerClaim(<<Acc(p), Did(p), dm[p].uid>>) = <<"distinct", Did(p), dm[p].uid>>
      BY <1>2, AnswerClaimFacts
    <3>2. <<"distinct", Did(p), dm[p].uid>> \in DocClaims(dm[p])
      BY <1>2 DEF DocClaims
    <3> QED
      BY <1>1, <3>1, <3>2, OldClaims
  <2> QED
    BY <1>1, <1>2, <1>4, <2>1, <2>2, AnswerClaims
<1> QED
  BY <1>1, <1>3, <1>4

(* The binds only happen for a record that carries both ids. *)
LEMMA BindDistinctClaims ==
  ASSUME IInv, NEW p \in Worker, BindDistinct(p)
  PROVE  \A c \in Claims' : New(c)
<1> DEFINE u == am[p].uid
           k == CacheDistinct(CacheMapping(MyCache(p), am[p]), Did(p), u)
<1>1. /\ TypeInv /\ setup' = setup /\ UNCHANGED <<rec, am, dm>> /\ MyCache(p) \in CacheType
      /\ Answer(p, u, k) \/ UNCHANGED <<cache, answers>>
      /\ pc[p] = "bindDistinct"
  <2>1. TypeInv
    BY DEF IInv
  <2> QED
    BY <2>1, WorkerTypes DEF BindDistinct, procVars, LostReply, GiveUp
<1>2. /\ am[p] \in Document /\ u \in Uids /\ Acc(p) # NoID /\ am[p].acc = Acc(p)
      /\ Did(p) \in Distincts
      /\ \A c \in DocClaims(am'[p]) \cup DocClaims(dm'[p]) : New(c)
  BY <1>1, WorkerTypes, OldClaims DEF WorkerOK, DistinctIDs
<1>3. CASE UNCHANGED <<cache, answers>>
  BY <1>1, <1>3, ClaimsKept
<1>4. CASE Answer(p, u, k)
  <2>1. <<"account", Acc(p), u>> \in Claims
    <3>1. <<"account", Acc(p), u>> \in DocClaims(am[p])
      BY <1>2 DEF DocClaims
    <3> QED
      BY <1>1, <3>1, OldClaims
  <2>2. New(<<"distinct", Did(p), u>>)
    <3>1. ~OneIDEach
      <4>1. OneIDRecords => NoID \in {Acc(p), Did(p)}
        BY DEF IInv, OneIDInv
      <4> QED
        BY <1>1, <1>2, <4>1, SetupFacts DEF OneIDEach
    <3> QED
      BY <2>1, <3>1 DEF New
  <2>3. k \in CacheType /\ \A c \in CacheClaims(k) : New(c)
    <3>1. /\ CacheMapping(MyCache(p), am[p]) \in CacheType
          /\ \A c \in CacheClaims(CacheMapping(MyCache(p), am[p])) : New(c)
      BY <1>1, <1>2, CacheMappingType, CacheMappingClaims, OldClaims
    <3>2. CacheClaims(k) \subseteq
            CacheClaims(CacheMapping(MyCache(p), am[p])) \cup {<<"distinct", Did(p), u>>}
      BY <1>1, <1>2, <3>1, CacheClaimsFacts
    <3>3. k \in CacheType
      BY <1>1, <1>2, <3>1, CacheTypes
    <3> QED
      BY <2>2, <3>1, <3>2, <3>3
  <2>4. New(AnswerClaim(<<Acc(p), Did(p), u>>))
    <3>1. AnswerClaim(<<Acc(p), Did(p), u>>) = <<"account", Acc(p), u>>
      BY <1>2, AnswerClaimFacts
    <3> QED
      BY <1>1, <2>1, <3>1, OldClaims
  <2> HIDE DEF u, k
  <2> QED
    BY <1>1, <1>2, <1>4, <2>3, <2>4, AnswerClaims
<1> QED
  BY <1>1, <1>3, <1>4

LEMMA BindAccountClaims ==
  ASSUME IInv, NEW p \in Worker, BindAccount(p)
  PROVE  \A c \in Claims' : New(c)
<1> DEFINE u == dm[p].uid
           k == CacheAccount(MyCache(p), Acc(p), u)
<1>1. /\ TypeInv /\ setup' = setup /\ UNCHANGED <<rec, am, dm, inserted, seq>>
      /\ u \in Uids /\ k \in CacheType /\ Acc(p) \in Accounts
      /\ \/ /\ Bindable(u, Acc(p))
            /\ mapping' = [mapping EXCEPT ![u].acc = Acc(p)]
            /\ Answer(p, u, k)
         \/ UNCHANGED <<cache, answers>>
  <2>1. TypeInv
    BY DEF IInv
  <2> QED
    BY <2>1, BindAccountCases DEF Create, Goto, LostReply, GiveUp
<1>2. /\ \A c \in DocClaims(am'[p]) \cup DocClaims(dm'[p]) : New(c)
      /\ MyCache(p) \in CacheType /\ Acc(p) # NoID
  BY <1>1, WorkerTypes, OldClaims, SetupFacts
<1>3. CASE UNCHANGED <<cache, answers>>
  BY <1>1, <1>3, ClaimsKept
<1>4. CASE /\ Bindable(u, Acc(p))
           /\ mapping' = [mapping EXCEPT ![u].acc = Acc(p)]
           /\ Answer(p, u, k)
  <2>1. u \in DOMAIN mapping' /\ mapping'[u].acc = Acc(p)
    BY <1>1, <1>4, BindAccountDocs DEF Bindable
  <2>2. New(<<"account", Acc(p), u>>)
    BY <2>1 DEF New
  <2>3. \A c \in CacheClaims(k) : New(c)
    <3>1. CacheClaims(k) \subseteq CacheClaims(MyCache(p)) \cup {<<"account", Acc(p), u>>}
      BY <1>1, <1>2, CacheClaimsFacts
    <3> QED
      BY <1>1, <2>2, <3>1, OldClaims
  <2>4. New(AnswerClaim(<<Acc(p), Did(p), u>>))
    BY <1>2, <2>2, AnswerClaimFacts
  <2> HIDE DEF u, k
  <2> QED
    BY <1>1, <1>2, <1>4, <2>3, <2>4, AnswerClaims
<1> QED
  BY <1>1, <1>3, <1>4

(* Whatever the step, what it claims was claimed or stands in the documents. *)
LEMMA ClaimsStep ==
  ASSUME IInv, [Next]_vars
  PROVE  \A c \in Claims' : New(c)
<1>1. TypeInv
  BY DEF IInv
<1>2. ASSUME NEW p \in Worker, NextUserID(p) \/ CreateCounter(p) \/ CallFails(p)
      PROVE  \A c \in Claims' : New(c)
  <2>1. UNCHANGED <<am, dm, cache, answers>>
    BY <1>2 DEF NextUserID, CreateCounter, CallFails, RetryCounter, LostReply, GiveUp, Goto, procVars
  <2> QED
    BY <1>1, <2>1, ClaimsKept
<1>3. ASSUME Finished \/ UNCHANGED vars
      PROVE  \A c \in Claims' : New(c)
  <2>1. UNCHANGED <<am, dm, cache, answers>>
    BY <1>3 DEF Finished, vars, procVars, outVars
  <2> QED
    BY <1>1, <2>1, ClaimsKept
<1>4. ASSUME NEW p \in Worker, Step(p)
      PROVE  \A c \in Claims' : New(c)
  BY <1>2, <1>4, FindAccountClaims, FindDistinctClaims, InsertClaims, FindWinnerClaims, VerifyClaims,
     DeleteOrphanClaims, BindDistinctClaims, BindAccountClaims DEF Step
<1> QED
  BY <1>2, <1>3, <1>4, ResolveClaims DEF Next

-----------------------------------------------------------------------------
(* What one step does to the documents, the counter and the owners of the   *)
(* #user_ids taken from it.                                                  *)

Owning == {"insert", "verify", "deleteOrphan"}

Takes(p) ==
  /\ pc[p] \in {"nextUserID", "createCounter"} /\ pc'[p] \in {"insert", "idle"}
  /\ seq' = seq + 1 /\ uid'[p] = seq + 1
  /\ UNCHANGED <<mapping, inserted, rec>>

Inserts(p) ==
  /\ pc[p] = "insert"
  /\ pc'[p] = "idle" \/ (pc'[p] = "verify" /\ goal[p] = "distinct")
  /\ InsertAcc(p) = NoID \/ WithAccount(InsertAcc(p)) = {}
  /\ InsertDoc(uid[p], InsertAcc(p), InsertDids(p))
  /\ UNCHANGED <<seq, uid, rec>>

Deletes(p) ==
  /\ pc[p] = "deleteOrphan" /\ pc'[p] = "idle"
  /\ DeleteDoc(uid[p])
  /\ UNCHANGED <<inserted, seq, uid, rec>>

BindsDistinct(p) ==
  /\ pc[p] = "bindDistinct" /\ pc'[p] = "idle"
  /\ mapping' = AddDistinct(am[p].uid, Did(p))
  /\ UNCHANGED <<inserted, seq, uid, rec>>

BindsAccount(p) ==
  /\ pc[p] = "bindAccount" /\ pc'[p] = "idle"
  /\ Bindable(dm[p].uid, Acc(p))
  /\ mapping' = [mapping EXCEPT ![dm[p].uid].acc = Acc(p)]
  /\ UNCHANGED <<inserted, seq, uid, rec>>

(* Every other step; in particular only an insert refused finds a winner.    *)
Looks(p) ==
  /\ UNCHANGED <<mapping, inserted, seq, uid>>
  /\ pc'[p] \notin {"insert", "verify"}
  /\ pc'[p] = "deleteOrphan" => pc[p] = "verify" /\ rec' = rec
  /\ pc'[p] = "findWinner" => /\ pc[p] = "insert" /\ rec' = rec
                              /\ Acc(p) # NoID /\ WithAccount(Acc(p)) # {}
  /\ rec' = rec \/ \E r \in setup.records : rec'[p] = r

Effect(p) == \/ Takes(p) \/ Inserts(p) \/ Deletes(p) \/ BindsDistinct(p) \/ BindsAccount(p)
             \/ Looks(p)

LEMMA StepOthers ==
  ASSUME TypeInv, NEW p \in Worker,
         Step(p) \/ CallFails(p) \/ \E r \in setup.records : Resolve(p, r)
  PROVE  Others(p)
<1>1. \E next : pc' = [pc EXCEPT ![p] = next] \/ pc' = pc
  BY DEF Step, CallFails, Resolve, FindAccount, FindDistinct, WithDistinctOnly, WithBoth, Create,
         NextUserID, CreateCounter, RetryCounter, Insert, FindWinner, Verify, DeleteOrphan,
         BindDistinct, BindAccount, Goto, Answer, GiveUp, LostReply
<1>2. \E r : rec' = [rec EXCEPT ![p] = r] \/ rec' = rec
  BY DEF Step, CallFails, Resolve, FindAccount, FindDistinct, NextUserID, CreateCounter, Insert,
         FindWinner, Verify, DeleteOrphan, BindDistinct, BindAccount, procVars
<1>3. /\ \E m : am' = [am EXCEPT ![p] = m] \/ am' = am
      /\ \E m : dm' = [dm EXCEPT ![p] = m] \/ dm' = dm
  BY DEF Step, CallFails, Resolve, FindAccount, FindDistinct, NextUserID, CreateCounter, Insert,
         FindWinner, Verify, DeleteOrphan, BindDistinct, BindAccount, procVars
<1>4. \E u : uid' = [uid EXCEPT ![p] = u] \/ uid' = uid
  BY DEF Step, CallFails, Resolve, FindAccount, FindDistinct, NextUserID, CreateCounter, Insert,
         FindWinner, Verify, DeleteOrphan, BindDistinct, BindAccount, procVars
<1>5. /\ \E what : goal' = [goal EXCEPT ![p] = what] \/ goal' = goal
      /\ \E n : attempt' = [attempt EXCEPT ![p] = n] \/ attempt' = attempt
  BY DEF Step, CallFails, Resolve, FindAccount, FindDistinct, WithDistinctOnly, WithBoth, Create,
         NextUserID, CreateCounter, RetryCounter, Insert,
         FindWinner, Verify, DeleteOrphan, BindDistinct, BindAccount, procVars
<1> QED
  BY <1>1, <1>2, <1>3, <1>4, <1>5, ProcTypes DEF Others

LEMMA Effects ==
  ASSUME IInv, [Next]_vars
  PROVE  /\ setup' = setup
         /\ \/ UNCHANGED <<mapping, inserted, seq, uid, rec, pc, am, errored>>
            \/ \E p \in Worker : Others(p) /\ Effect(p)
<1>1. TypeInv
  BY DEF IInv
<1>2. ASSUME Finished \/ UNCHANGED vars
      PROVE  setup' = setup /\ UNCHANGED <<mapping, inserted, seq, uid, rec, pc, am, errored>>
  BY <1>2 DEF Finished, vars, dbVars, procVars, outVars
<1>3. ASSUME NEW p \in Worker, NEW r \in setup.records, Resolve(p, r)
      PROVE  setup' = setup /\ Effect(p)
  <2>1. /\ UNCHANGED <<setup, mapping, inserted, seq, uid>> /\ rec' = [rec EXCEPT ![p] = r]
        /\ pc[p] = "idle"
        /\ pc' = pc \/ Goto(p, "findAccount") \/ Goto(p, "findDistinct")
    BY <1>3 DEF Resolve, dbVars
  <2>2. rec'[p] = r /\ pc'[p] \in {"idle", "findAccount", "findDistinct"}
    BY <1>1, <2>1, ProcTypes DEF Goto
  <2> QED
    BY <2>1, <2>2 DEF Effect, Looks
<1>4. ASSUME NEW p \in Worker, CallFails(p)
      PROVE  setup' = setup /\ Effect(p)
  <2>1. UNCHANGED <<setup, mapping, inserted, seq, uid, rec>> /\ pc'[p] = "idle"
    BY <1>1, <1>4, ProcTypes DEF CallFails, GiveUp, dbVars, procVars
  <2> QED
    BY <2>1 DEF Effect, Looks
<1>5. ASSUME NEW p \in Worker, FindAccount(p) \/ FindDistinct(p) \/ FindWinner(p)
      PROVE  setup' = setup /\ Effect(p)
  <2>1. UNCHANGED <<setup, mapping, inserted, seq, uid, rec>>
    BY <1>5 DEF FindAccount, FindDistinct, FindWinner, dbVars
  <2>2. pc'[p] \in {"idle", "findDistinct", "nextUserID", "bindDistinct", "bindAccount"}
    BY <1>1, <1>5, ProcTypes DEF FindAccount, FindDistinct, FindWinner, WithDistinctOnly, WithBoth,
       Create, Goto, Answer, GiveUp
  <2> QED
    BY <2>1, <2>2 DEF Effect, Looks
<1>6. ASSUME NEW p \in Worker, Verify(p)
      PROVE  setup' = setup /\ Effect(p)
  <2>1. UNCHANGED <<setup, mapping, inserted, seq, uid, rec>> /\ pc[p] = "verify"
    BY <1>6 DEF Verify, dbVars
  <2>2. pc'[p] \in {"idle", "deleteOrphan"}
    BY <1>1, <1>6, ProcTypes DEF Verify, Goto, Answer
  <2> QED
    BY <2>1, <2>2 DEF Effect, Looks
<1>7. ASSUME NEW p \in Worker, NextUserID(p) \/ CreateCounter(p)
      PROVE  setup' = setup /\ Effect(p)
  <2>1. /\ UNCHANGED <<setup, mapping, inserted, rec>> /\ pc[p] \in {"nextUserID", "createCounter"}
    BY <1>7 DEF NextUserID, CreateCounter
  <2>2. \/ /\ seq' = seq + 1 /\ uid' = [uid EXCEPT ![p] = seq + 1]
           /\ pc' = [pc EXCEPT ![p] = "insert"] \/ pc' = [pc EXCEPT ![p] = "idle"]
        \/ /\ UNCHANGED <<seq, uid>>
           /\ \E next \in {"createCounter", "nextUserID", "idle"} : pc' = [pc EXCEPT ![p] = next]
    BY <1>1, <1>7, ProcTypes DEF NextUserID, CreateCounter, RetryCounter, LostReply, GiveUp, Goto
  <2>3. \/ Takes(p)
        \/ UNCHANGED <<seq, uid>> /\ pc'[p] \in {"createCounter", "nextUserID", "idle"}
    BY <1>1, <2>1, <2>2, ProcTypes DEF Takes
  <2> QED
    BY <2>1, <2>3 DEF Effect, Looks
<1>8. ASSUME NEW p \in Worker, Insert(p)
      PROVE  setup' = setup /\ Effect(p)
  <2>1. /\ UNCHANGED <<setup, seq, uid, rec>> /\ pc[p] = "insert"
        /\ \/ /\ InsertAcc(p) # NoID /\ WithAccount(InsertAcc(p)) # {}
              /\ Goto(p, "findWinner")
              /\ UNCHANGED <<mapping, inserted>>
           \/ /\ InsertAcc(p) = NoID \/ WithAccount(InsertAcc(p)) = {}
              /\ InsertDoc(uid[p], InsertAcc(p), InsertDids(p))
              /\ \/ goal[p] = "distinct" /\ Goto(p, "verify")
                 \/ goal[p] # "distinct" /\ Answer(p, uid[p], InsertCache(p))
                 \/ LostReply(p)
    BY <1>1, <1>8, InsertCases DEF procVars
  <2>2. CASE /\ InsertAcc(p) # NoID /\ WithAccount(InsertAcc(p)) # {}
             /\ Goto(p, "findWinner") /\ UNCHANGED <<mapping, inserted>>
    <3>1. pc'[p] = "findWinner" /\ InsertAcc(p) = Acc(p)
      BY <1>1, <2>2, ProcTypes DEF Goto, InsertAcc
    <3> QED
      BY <2>1, <2>2, <3>1 DEF Effect, Looks
  <2>3. CASE /\ InsertAcc(p) = NoID \/ WithAccount(InsertAcc(p)) = {}
             /\ InsertDoc(uid[p], InsertAcc(p), InsertDids(p))
             /\ \/ goal[p] = "distinct" /\ Goto(p, "verify")
                \/ goal[p] # "distinct" /\ Answer(p, uid[p], InsertCache(p))
                \/ LostReply(p)
    <3>1. pc'[p] = "idle" \/ (pc'[p] = "verify" /\ goal[p] = "distinct")
      BY <1>1, <2>3, ProcTypes DEF Goto, Answer, LostReply, GiveUp
    <3> QED
      BY <2>1, <2>3, <3>1 DEF Effect, Inserts
  <2> QED
    BY <2>1, <2>2, <2>3
<1>9. ASSUME NEW p \in Worker, DeleteOrphan(p)
      PROVE  setup' = setup /\ Effect(p)
  <2>1. /\ UNCHANGED <<setup, inserted, seq, uid, rec>> /\ pc[p] = "deleteOrphan"
        /\ DeleteDoc(uid[p]) /\ pc'[p] = "idle"
    BY <1>1, <1>9, ProcTypes DEF DeleteOrphan, procVars, Answer, LostReply, GiveUp
  <2> QED
    BY <2>1 DEF Effect, Deletes
<1>10. ASSUME NEW p \in Worker, BindDistinct(p)
       PROVE  setup' = setup /\ Effect(p)
  <2>1. /\ UNCHANGED <<setup, inserted, seq, uid, rec>> /\ pc[p] = "bindDistinct"
        /\ mapping' = AddDistinct(am[p].uid, Did(p)) /\ pc'[p] = "idle"
    BY <1>1, <1>10, ProcTypes DEF BindDistinct, procVars, Answer, LostReply, GiveUp
  <2> QED
    BY <2>1 DEF Effect, BindsDistinct
<1>11. ASSUME NEW p \in Worker, BindAccount(p)
       PROVE  setup' = setup /\ Effect(p)
  <2>1. /\ UNCHANGED <<setup, inserted, seq, uid, rec>> /\ pc[p] = "bindAccount"
        /\ \/ /\ Bindable(dm[p].uid, Acc(p)) /\ pc'[p] = "idle"
              /\ mapping' = [mapping EXCEPT ![dm[p].uid].acc = Acc(p)]
           \/ mapping' = mapping /\ pc'[p] = "nextUserID"
    BY <1>1, <1>11, BindAccountCases, ProcTypes DEF Create, Goto, Answer, LostReply, GiveUp
  <2> QED
    BY <2>1 DEF Effect, BindsAccount, Looks
<1>12. ASSUME NEW p \in Worker, Step(p) \/ CallFails(p) \/ \E r \in setup.records : Resolve(p, r)
       PROVE  setup' = setup /\ Others(p) /\ Effect(p)
  <2>1. Others(p)
    BY <1>1, <1>12, StepOthers
  <2> QED
    BY <1>3, <1>4, <1>5, <1>6, <1>7, <1>8, <1>9, <1>10, <1>11, <1>12, <2>1 DEF Step
<1> QED
  BY <1>2, <1>12 DEF Next

(* The documents after a step: bindings only grow, ranks and the other       *)
(* fields stay, and a document that is new is the inserting worker's.        *)
LEMMA DocsStep ==
  ASSUME IInv, [Next]_vars
  PROVE  /\ \A u \in DOMAIN mapping \cap DOMAIN mapping' :
              /\ mapping[u].acc # NoID => mapping'[u].acc = mapping[u].acc
              /\ mapping[u].dids \subseteq mapping'[u].dids
              /\ mapping'[u].rank = mapping[u].rank
              /\ OneIDRecords => mapping'[u] = mapping[u]
         /\ \A u \in DOMAIN mapping' \ DOMAIN mapping :
              \E p \in Worker : pc[p] = "insert" /\ u = uid[p] /\ Inserts(p) /\ Others(p)
         /\ \A u \in DOMAIN mapping \ DOMAIN mapping' :
              \E p \in Worker : pc[p] = "deleteOrphan" /\ u = uid[p] /\ Deletes(p) /\ Others(p)
<1>1. TypeInv /\ setup' = setup
  BY Effects DEF IInv
<1>2. CASE UNCHANGED mapping
  BY <1>2
<1>3. ASSUME NEW p \in Worker, Others(p), Effect(p), mapping' # mapping
      PROVE  /\ \A u \in DOMAIN mapping \cap DOMAIN mapping' :
                  /\ mapping[u].acc # NoID => mapping'[u].acc = mapping[u].acc
                  /\ mapping[u].dids \subseteq mapping'[u].dids
                  /\ mapping'[u].rank = mapping[u].rank
                  /\ OneIDRecords => mapping'[u] = mapping[u]
             /\ \A u \in DOMAIN mapping' \ DOMAIN mapping :
                  pc[p] = "insert" /\ u = uid[p] /\ Inserts(p)
             /\ \A u \in DOMAIN mapping \ DOMAIN mapping' :
                  pc[p] = "deleteOrphan" /\ u = uid[p] /\ Deletes(p)
  <2>1. /\ Acc(p) \in AccountIDs /\ Did(p) \in DistinctIDs /\ WorkerOK(p) /\ uid[p] \in Uids \cup {0}
        /\ OneIDRecords => NoID \in {Acc(p), Did(p)}
    BY <1>1, WorkerTypes DEF IInv, OneIDInv
  <2>2. CASE Inserts(p)
    <3>1. uid[p] \notin DOMAIN mapping /\ pc[p] = "insert"
      BY <2>2 DEF IInv, FreshInv, Inserts
    <3>2. /\ DOMAIN mapping' = DOMAIN mapping \cup {uid[p]}
          /\ \A v \in DOMAIN mapping \ {uid[p]} : mapping'[v] = mapping[v]
      BY <2>2 DEF Inserts, InsertDoc
    <3> QED
      BY <2>2, <3>1, <3>2
  <2>3. CASE Deletes(p)
    <3>1. /\ DOMAIN mapping' = DOMAIN mapping \ {uid[p]} /\ pc[p] = "deleteOrphan"
          /\ \A v \in DOMAIN mapping' : mapping'[v] = mapping[v]
      BY <2>3 DEF Deletes, DeleteDoc
    <3> QED
      BY <2>3, <3>1
  <2>4. CASE BindsDistinct(p)
    <3>1. Did(p) \in Distincts /\ Acc(p) # NoID /\ ~OneIDRecords
      BY <1>1, <2>1, <2>4, SetupFacts DEF BindsDistinct, WorkerOK, DistinctIDs
    <3>2. /\ DOMAIN mapping' = DOMAIN mapping
          /\ \A v \in DOMAIN mapping : /\ mapping'[v].acc = mapping[v].acc
                                       /\ mapping'[v].rank = mapping[v].rank
                                       /\ mapping[v].dids \subseteq mapping'[v].dids
      BY <1>1, <2>4, <3>1, AddDistinctType DEF BindsDistinct
    <3> QED
      BY <3>1, <3>2
  <2>5. CASE BindsAccount(p)
    <3>1. /\ Acc(p) \in Accounts /\ Did(p) # NoID /\ ~OneIDRecords
          /\ dm[p].uid \in DOMAIN mapping /\ mapping[dm[p].uid].acc = NoID
      BY <1>1, <2>1, <2>5, SetupFacts DEF BindsAccount, WorkerOK, AccountIDs, Bindable
    <3>2. /\ DOMAIN mapping' = DOMAIN mapping
          /\ mapping'[dm[p].uid].dids = mapping[dm[p].uid].dids
          /\ mapping'[dm[p].uid].rank = mapping[dm[p].uid].rank
          /\ \A v \in DOMAIN mapping \ {dm[p].uid} : mapping'[v] = mapping[v]
      BY <1>1, <2>5, <3>1, BindAccountDocs DEF BindsAccount
    <3> QED
      BY <3>1, <3>2
  <2> QED
    BY <1>3, <2>2, <2>3, <2>4, <2>5 DEF Effect, Takes, Looks
<1> QED
  BY <1>2, <1>3, Effects

(* The owners of the #user_ids after a step. *)
LEMMA OwnersStep ==
  ASSUME IInv, [Next]_vars
  PROVE  /\ seq \in Nat /\ seq' \in Nat /\ seq <= seq'
         /\ \/ \A q \in Worker : pc'[q] \in Owning =>
                 pc[q] \in Owning /\ uid'[q] = uid[q] /\ rec'[q] = rec[q]
                   /\ (pc'[q] = "insert" => pc[q] = "insert")
            \/ \E p \in Worker :
                 /\ Takes(p)
                 /\ \A q \in Worker \ {p} :
                      pc'[q] = pc[q] /\ uid'[q] = uid[q] /\ rec'[q] = rec[q]
<1>1. TypeInv /\ seq \in Nat
  BY ProcTypes DEF IInv
<1>2. CASE UNCHANGED <<mapping, inserted, seq, uid, rec, pc, am, errored>>
  BY <1>1, <1>2
<1>3. ASSUME NEW p \in Worker, Others(p), Effect(p)
      PROVE  /\ seq' = seq \/ seq' = seq + 1
             /\ \/ \A q \in Worker : pc'[q] \in Owning =>
                     pc[q] \in Owning /\ uid'[q] = uid[q] /\ rec'[q] = rec[q]
                       /\ (pc'[q] = "insert" => pc[q] = "insert")
                \/ \E q \in Worker :
                     /\ Takes(q)
                     /\ \A r \in Worker \ {q} :
                          pc'[r] = pc[r] /\ uid'[r] = uid[r] /\ rec'[r] = rec[r]
  <2>1. \A q \in Worker \ {p} : pc'[q] = pc[q] /\ uid'[q] = uid[q] /\ rec'[q] = rec[q]
    BY <1>3 DEF Others
  <2>2. CASE Takes(p)
    BY <2>1, <2>2 DEF Takes
  <2>3. CASE ~Takes(p)
    <3>1. /\ pc'[p] \in Owning => pc[p] \in Owning /\ uid'[p] = uid[p] /\ rec'[p] = rec[p]
          /\ pc'[p] # "insert" /\ seq' = seq
      BY <1>3, <2>3 DEF Effect, Inserts, Deletes, BindsDistinct, BindsAccount, Looks, Owning
    <3> QED
      BY <2>1, <3>1
  <2> QED
    BY <2>2, <2>3
<1> QED
  BY <1>1, <1>2, <1>3, Effects

Used == DOMAIN mapping \cup ({c[3] : c \in Claims} \ {0})

LEMMA UsedStep ==
  ASSUME IInv, [Next]_vars, NEW u \in Used'
  PROVE  \/ u \in Used
         \/ \E p \in Worker : pc[p] = "insert" /\ u = uid[p] /\ pc'[p] # "insert"
                                /\ \A q \in Worker \ {p} : pc'[q] = pc[q] /\ uid'[q] = uid[q]
<1>1. \A c \in Claims' : New(c)
  BY ClaimsStep
<1>2. u \in DOMAIN mapping' \/ \E c \in Claims' : c[3] = u /\ u # 0
  BY DEF Used
<1>3. u \in DOMAIN mapping' \/ \E c \in Claims : c[3] = u /\ u # 0
  BY <1>1, <1>2 DEF New
<1>4. CASE u \in DOMAIN mapping' \ DOMAIN mapping
  <2>1. PICK p \in Worker : pc[p] = "insert" /\ u = uid[p] /\ Inserts(p) /\ Others(p)
    BY <1>4, DocsStep
  <2> QED
    BY <2>1 DEF Inserts, Others
<1> QED
  BY <1>3, <1>4 DEF Used

LEMMA FreshStep ==
  ASSUME IInv, [Next]_vars
  PROVE  FreshInv'
<1>1. /\ seq \in Nat /\ seq' \in Nat /\ seq <= seq'
      /\ \A u \in Used : u \in 1 .. seq /\ \A p \in Worker : pc[p] = "insert" => uid[p] # u
      /\ \A p \in Worker : pc[p] \in Owning => uid[p] \in 1 .. seq
      /\ \A p, q \in Worker : pc[p] \in Owning /\ pc[q] \in Owning /\ uid[p] = uid[q] => p = q
  BY OwnersStep DEF IInv, FreshInv, Used, Owning
<1>2. ASSUME NEW u \in Used'
      PROVE  u \in 1 .. seq' /\ \A q \in Worker : pc'[q] = "insert" => uid'[q] # u
  <2>1. CASE u \in Used
    <3>1. u \in 1 .. seq /\ u < seq + 1 /\ u \in 1 .. seq'
      BY <1>1, <2>1
    <3>2. ASSUME NEW q \in Worker, pc'[q] = "insert"
          PROVE  uid'[q] # u
      <4>1. \/ pc[q] = "insert" /\ uid'[q] = uid[q]
            \/ uid'[q] = seq + 1
        BY <3>2, OwnersStep DEF Takes, Owning
      <4> QED
        BY <1>1, <2>1, <3>1, <4>1
    <3> QED
      BY <3>1, <3>2
  <2>2. CASE \E p \in Worker : pc[p] = "insert" /\ u = uid[p] /\ pc'[p] # "insert"
                                 /\ \A q \in Worker \ {p} : pc'[q] = pc[q] /\ uid'[q] = uid[q]
    <3>1. PICK p \in Worker : pc[p] = "insert" /\ u = uid[p] /\ pc'[p] # "insert"
                                /\ \A q \in Worker \ {p} : pc'[q] = pc[q] /\ uid'[q] = uid[q]
      BY <2>2
    <3>2. u \in 1 .. seq /\ u \in 1 .. seq'
      BY <1>1, <3>1 DEF Owning
    <3> QED
      BY <1>1, <3>1, <3>2 DEF Owning
  <2> QED
    BY <2>1, <2>2, UsedStep
<1>3. /\ \A p \in Worker : pc'[p] \in Owning => uid'[p] \in 1 .. seq'
      /\ \A p, q \in Worker : pc'[p] \in Owning /\ pc'[q] \in Owning /\ uid'[p] = uid'[q] => p = q
  <2>1. CASE \A q \in Worker : pc'[q] \in Owning => pc[q] \in Owning /\ uid'[q] = uid[q]
    BY <1>1, <2>1
  <2>2. ASSUME NEW p \in Worker, Takes(p),
               \A q \in Worker \ {p} : pc'[q] = pc[q] /\ uid'[q] = uid[q]
        PROVE  /\ \A q \in Worker : pc'[q] \in Owning => uid'[q] \in 1 .. seq'
               /\ \A q, r \in Worker : pc'[q] \in Owning /\ pc'[r] \in Owning /\ uid'[q] = uid'[r] => q = r
    <3>1. seq' = seq + 1 /\ uid'[p] = seq + 1
      BY <2>2 DEF Takes
    <3>2. \A q \in Worker \ {p} : pc'[q] \in Owning => uid'[q] \in 1 .. seq
      BY <1>1, <2>2
    <3>3. \A q \in Worker \ {p} : pc'[q] \in Owning => uid'[q] # uid'[p]
      BY <1>1, <3>1, <3>2
    <3>4. \A q \in Worker : pc'[q] \in Owning => uid'[q] \in 1 .. seq'
      BY <1>1, <3>1, <3>2
    <3> QED
      BY <1>1, <2>2, <3>3, <3>4
  <2> QED
    BY <2>1, <2>2, OwnersStep
<1>4. Used' = (DOMAIN mapping \cup ({c[3] : c \in Claims} \ {0}))'
  BY DEF Used
<1> QED
  BY <1>2, <1>3, <1>4 DEF FreshInv, Owning

(* The document of an owner stays while other workers step. *)
LEMMA OwnedStays ==
  ASSUME IInv, [Next]_vars, NEW q \in Worker, pc[q] \in {"verify", "deleteOrphan"},
         pc'[q] \in {"verify", "deleteOrphan"}
  PROVE  /\ uid[q] \in DOMAIN mapping /\ uid[q] \in DOMAIN mapping'
         /\ mapping[uid[q]].dids \subseteq mapping'[uid[q]].dids
         /\ OneIDRecords => mapping'[uid[q]] = mapping[uid[q]]
<1>1. uid[q] \in DOMAIN mapping
  BY DEF IInv, OwnInv, WithDistinct
<1>2. uid[q] \in DOMAIN mapping'
  <2> SUFFICES ASSUME uid[q] \notin DOMAIN mapping'
               PROVE  FALSE
    OBVIOUS
  <2>1. PICK p \in Worker : pc[p] = "deleteOrphan" /\ uid[q] = uid[p] /\ Deletes(p)
    BY <1>1, DocsStep
  <2>2. p = q
    BY <2>1 DEF IInv, FreshInv
  <2> QED
    BY <2>1, <2>2 DEF Deletes
<1> QED
  BY <1>1, <1>2, DocsStep

LEMMA OwnStep ==
  ASSUME IInv, [Next]_vars
  PROVE  OwnInv'
<1> SUFFICES ASSUME NEW q \in Worker, pc'[q] \in {"verify", "deleteOrphan"}
             PROVE  uid'[q] \in DOMAIN mapping' /\ rec'[q][2] \in mapping'[uid'[q]].dids
  BY DEF OwnInv, WithDistinct, Did
<1>1. TypeInv
  BY DEF IInv
<1>2. pc[q] \in Owning /\ uid'[q] = uid[q] /\ rec'[q] = rec[q]
  BY OwnersStep DEF Owning, Takes
<1>3. CASE pc[q] \in {"verify", "deleteOrphan"}
  BY <1>2, <1>3, OwnedStays DEF IInv, OwnInv, WithDistinct, Did
<1>4. CASE pc[q] = "insert"
  <2>1. PICK p \in Worker : Others(p) /\ Effect(p)
    BY <1>4, Effects
  <2>2. p = q
    BY <1>4, <2>1 DEF Others
  <2>3. Inserts(q) /\ goal[q] = "distinct"
    BY <1>4, <2>1, <2>2 DEF Effect, Takes, Inserts, Deletes, BindsDistinct, BindsAccount, Looks
  <2>4. /\ uid[q] \in DOMAIN mapping'
        /\ mapping'[uid[q]] = [acc |-> InsertAcc(q), dids |-> InsertDids(q), rank |-> inserted]
        /\ InsertDids(q) = {Did(q)}
    BY <2>3 DEF Inserts, InsertDoc, InsertDids
  <2> QED
    BY <1>2, <2>4 DEF Did
<1> QED
  BY <1>2, <1>3, <1>4 DEF Owning

(* An account gets its document only while no other document has it. *)
LEMMA AccountStep ==
  ASSUME IInv, [Next]_vars,
         NEW u \in DOMAIN mapping', mapping'[u].acc # NoID,
         u \in DOMAIN mapping => mapping[u].acc # mapping'[u].acc
  PROVE  /\ WithAccount(mapping'[u].acc) = {}
         /\ \A v \in DOMAIN mapping' : v # u => v \in DOMAIN mapping /\ mapping'[v] = mapping[v]
<1>1. TypeInv /\ setup' = setup
  BY Effects DEF IInv
<1>2. PICK p \in Worker : Others(p) /\ Effect(p)
  BY Effects
<1>3. CASE Inserts(p)
  <2>1. /\ DOMAIN mapping' = DOMAIN mapping \cup {uid[p]}
        /\ mapping'[uid[p]] = [acc |-> InsertAcc(p), dids |-> InsertDids(p), rank |-> inserted]
        /\ \A v \in DOMAIN mapping \ {uid[p]} : mapping'[v] = mapping[v]
    BY <1>3 DEF Inserts, InsertDoc
  <2>2. u = uid[p]
    BY <2>1
  <2> QED
    BY <1>3, <2>1, <2>2 DEF Inserts
<1>4. CASE BindsAccount(p)
  <2>1. /\ Acc(p) \in Accounts /\ dm[p].uid \in DOMAIN mapping /\ WithAccount(Acc(p)) = {}
    BY <1>1, <1>4, WorkerTypes DEF BindsAccount, WorkerOK, AccountIDs, Bindable
  <2>2. /\ DOMAIN mapping' = DOMAIN mapping
        /\ mapping'[dm[p].uid].acc = Acc(p)
        /\ \A v \in DOMAIN mapping \ {dm[p].uid} : mapping'[v] = mapping[v]
    BY <1>1, <1>4, <2>1, BindAccountDocs DEF BindsAccount
  <2>3. u = dm[p].uid
    BY <2>2
  <2> QED
    BY <2>1, <2>2, <2>3
<1>5. CASE Deletes(p)
  <2>1. /\ DOMAIN mapping' = DOMAIN mapping \ {uid[p]}
        /\ \A v \in DOMAIN mapping' : mapping'[v] = mapping[v]
    BY <1>5 DEF Deletes, DeleteDoc
  <2> QED
    BY <2>1
<1>6. CASE BindsDistinct(p)
  <2>1. Did(p) \in Distincts
    BY <1>1, <1>6, WorkerTypes DEF BindsDistinct, WorkerOK, DistinctIDs
  <2>2. DOMAIN mapping' = DOMAIN mapping /\ \A v \in DOMAIN mapping : mapping'[v].acc = mapping[v].acc
    BY <1>1, <1>6, <2>1, AddDistinctType DEF BindsDistinct
  <2> QED
    BY <2>2
<1>7. CASE mapping' = mapping
  BY <1>7
<1> QED
  BY <1>2, <1>3, <1>4, <1>5, <1>6, <1>7 DEF Effect, Takes, Looks

LEMMA BoundStep ==
  ASSUME IInv, [Next]_vars
  PROVE  BoundInv'
<1>1. BoundInv /\ FreshInv
  BY DEF IInv
<1>2. ASSUME NEW u \in DOMAIN mapping', NEW v \in DOMAIN mapping',
             mapping'[u].acc = mapping'[v].acc, mapping'[u].acc # NoID
      PROVE  u = v
  <2>1. CASE \A w \in {u, v} : w \in DOMAIN mapping /\ mapping[w].acc = mapping'[w].acc
    BY <1>1, <1>2, <2>1 DEF BoundInv
  <2>2. ASSUME NEW w \in {u, v}, w \in DOMAIN mapping => mapping[w].acc # mapping'[w].acc
        PROVE  u = v
    <3>1. /\ WithAccount(mapping'[u].acc) = {}
          /\ \A x \in DOMAIN mapping' : x # w => x \in DOMAIN mapping /\ mapping'[x] = mapping[x]
      BY <1>2, <2>2, AccountStep
    <3>2. \A x \in {u, v} : x # w => x \in WithAccount(mapping'[u].acc)
      BY <1>2, <3>1 DEF WithAccount
    <3> QED
      BY <3>1, <3>2
  <2> QED
    BY <2>1, <2>2
<1>3. ASSUME NEW c \in Claims', c[1] = "account", c[2] # NoID, c[3] \in DOMAIN mapping'
      PROVE  mapping'[c[3]].acc = c[2]
  <2>1. TypeInv' /\ c[3] # 0
    <3>1. TypeInv'
      BY TypeStep DEF IInv
    <3>2. c[3] \in Uids'
      BY <1>3, <3>1 DEF TypeInv, DBType
    <3> QED
      BY <3>1, <3>2 DEF Uids
  <2>2. \/ mapping'[c[3]].acc = c[2]
        \/ c \in Claims
    BY <1>3, <2>1, ClaimsStep DEF New
  <2>3. CASE c \in Claims
    <3>1. c[3] \in DOMAIN mapping
      <4> SUFFICES ASSUME c[3] \notin DOMAIN mapping
                   PROVE  FALSE
        OBVIOUS
      <4>1. PICK p \in Worker : pc[p] = "insert" /\ c[3] = uid[p]
        BY <1>3, DocsStep
      <4>2. c[3] \in DOMAIN mapping \cup ({b[3] : b \in Claims} \ {0})
        BY <2>1, <2>3
      <4> QED
        BY <1>1, <4>1, <4>2 DEF FreshInv
    <3>2. mapping[c[3]].acc = c[2]
      BY <1>1, <1>3, <2>3, <3>1 DEF BoundInv
    <3> QED
      BY <1>3, <3>1, <3>2, DocsStep
  <2> QED
    BY <2>2, <2>3
<1> QED
  BY <1>2, <1>3 DEF BoundInv

LEMMA RankStep ==
  ASSUME IInv, [Next]_vars
  PROVE  RankInv'
<1>1. inserted \in Nat /\ RankInv /\ (\A u \in DOMAIN mapping : mapping[u].rank \in Nat)
  BY DEF IInv, TypeInv, DBType
<1>2. CASE \E p \in Worker : Inserts(p)
  <2>1. PICK p \in Worker : Inserts(p)
    BY <1>2
  <2>2. /\ DOMAIN mapping' = DOMAIN mapping \cup {uid[p]} /\ inserted' = inserted + 1
        /\ mapping'[uid[p]] = [acc |-> InsertAcc(p), dids |-> InsertDids(p), rank |-> inserted]
        /\ \A v \in DOMAIN mapping \ {uid[p]} : mapping'[v] = mapping[v]
    BY <2>1 DEF Inserts, InsertDoc
  <2>3. /\ mapping'[uid[p]].rank = inserted
        /\ \A v \in DOMAIN mapping' \ {uid[p]} :
             v \in DOMAIN mapping /\ mapping'[v].rank = mapping[v].rank
    BY <2>2
  <2>4. \A v \in DOMAIN mapping' \ {uid[p]} : mapping'[v].rank < inserted /\ mapping'[v].rank < inserted'
    BY <1>1, <2>2, <2>3 DEF RankInv
  <2>5. \A u \in DOMAIN mapping' : mapping'[u].rank < inserted'
    BY <1>1, <2>2, <2>3, <2>4
  <2>6. \A v \in DOMAIN mapping' \ {uid[p]} : mapping'[v].rank # mapping'[uid[p]].rank
    BY <1>1, <2>3, <2>4
  <2>7. \A u, v \in DOMAIN mapping' : mapping'[u].rank = mapping'[v].rank => u = v
    BY <1>1, <2>3, <2>6 DEF RankInv
  <2> QED
    BY <2>5, <2>7 DEF RankInv
<1>3. CASE ~\E p \in Worker : Inserts(p)
  <2>1. inserted' = inserted
    BY <1>3, Effects DEF Effect, Takes, Deletes, BindsDistinct, BindsAccount, Looks
  <2>2. \A u \in DOMAIN mapping' : u \in DOMAIN mapping /\ mapping'[u].rank = mapping[u].rank
    BY <1>3, DocsStep
  <2> QED
    BY <1>1, <2>1, <2>2 DEF RankInv
<1> QED
  BY <1>2, <1>3

(* What a worker reads of an account is a document of that account; and what *)
(* makes a call fail, when MongoDB does not, is a winner that is gone.       *)
LEMMA ReadStep ==
  ASSUME IInv, [Next]_vars, NEW q \in Worker
  PROVE  \/ am'[q] \in {am[q], None}
         \/ Acc(q) # NoID /\ am'[q] \in AccountLookup(Acc(q))
<1>1. TypeInv
  BY DEF IInv
<1>2. ASSUME NEW p \in Worker, FindAccount(p) \/ FindWinner(p)
      PROVE  \/ am'[q] \in {am[q], None}
             \/ Acc(q) # NoID /\ am'[q] \in AccountLookup(Acc(q))
  <2>1. pc[p] \in {"findAccount", "findWinner"} /\ \E m \in AccountLookup(Acc(p)) : am' = [am EXCEPT ![p] = m]
    BY <1>2 DEF FindAccount, FindWinner
  <2>2. Acc(p) # NoID
    BY <1>1, <2>1, WorkerTypes DEF WorkerOK
  <2> QED
    BY <1>1, <2>1, <2>2, ProcTypes
<1>3. ASSUME NEW p \in Worker, NEW r \in setup.records, Resolve(p, r)
      PROVE  am'[q] \in {am[q], None}
  BY <1>1, <1>3, ProcTypes DEF Resolve
<1>4. ASSUME NEW p \in Worker, Step(p) \/ CallFails(p), ~FindAccount(p), ~FindWinner(p)
      PROVE  am' = am
  BY <1>4 DEF Step, FindDistinct, NextUserID, CreateCounter, Insert, Verify, DeleteOrphan,
     BindDistinct, BindAccount, CallFails, procVars
<1>5. ASSUME Finished \/ UNCHANGED vars
      PROVE  am' = am
  BY <1>5 DEF Finished, vars, procVars
<1> QED
  BY <1>2, <1>3, <1>4, <1>5 DEF Next

LEMMA ErrorStep ==
  ASSUME IInv, [Next]_vars, ~setup.faults
  PROVE  \/ errored' = errored
         \/ \E p \in Worker : pc[p] = "findWinner" /\ WithAccount(Acc(p)) = {}
<1>1. TypeInv
  BY DEF IInv
<1>2. ASSUME NEW p \in Worker, FindWinner(p)
      PROVE  errored' = errored \/ (pc[p] = "findWinner" /\ WithAccount(Acc(p)) = {})
  <2>1. PICK m \in AccountLookup(Acc(p)) : errored' = errored \/ m = None
    BY <1>2 DEF FindWinner, Goto, Answer
  <2> QED
    BY <1>1, <1>2, <2>1, LookupFacts, WorkerTypes DEF FindWinner
<1>3. ASSUME NEW p \in Worker, CreateCounter(p)
      PROVE  errored' = errored
  <2>1. CASE Goto(p, "insert") \/ LostReply(p)
    BY <2>1 DEF Goto, LostReply
  <2>2. CASE RetryCounter(p)
    <3>1. attempt[p] + 1 < MaxAttempts
      <4>1. attempt[p] = 0
        BY <1>1, <1>3, WorkerTypes DEF CreateCounter, WorkerOK
      <4> QED
        BY <4>1, IDsAssumption
    <3> QED
      BY <2>2, <3>1 DEF RetryCounter, Goto
  <2> QED
    BY <1>3, <2>1, <2>2 DEF CreateCounter
<1>4. ASSUME NEW p \in Worker, Step(p), ~FindWinner(p), ~CreateCounter(p)
      PROVE  errored' = errored
  BY <1>4 DEF Step, FindAccount, FindDistinct, WithDistinctOnly, WithBoth, Create, NextUserID, Insert,
     Verify, DeleteOrphan, BindDistinct, BindAccount, Goto, Answer, LostReply
<1>5. ASSUME NEW p \in Worker, CallFails(p) \/ \E r \in setup.records : Resolve(p, r)
      PROVE  errored' = errored
  BY <1>5 DEF CallFails, Resolve, Goto
<1>6. ASSUME Finished \/ UNCHANGED vars
      PROVE  errored' = errored
  BY <1>6 DEF Finished, vars, outVars
<1> QED
  BY <1>2, <1>3, <1>4, <1>5, <1>6 DEF Next

(* When no record carries both ids, only documents without an account go.    *)
LEMMA DocsLost ==
  ASSUME IInv, [Next]_vars, OneIDRecords, NEW u \in DOMAIN mapping, mapping[u].acc # NoID
  PROVE  u \in DOMAIN mapping' /\ mapping'[u] = mapping[u]
<1>1. u \in DOMAIN mapping'
  <2> SUFFICES ASSUME u \notin DOMAIN mapping'
               PROVE  FALSE
    OBVIOUS
  <2>1. PICK p \in Worker : pc[p] = "deleteOrphan" /\ u = uid[p]
    BY DocsStep
  <2> QED
    BY <2>1 DEF IInv, OneIDInv
<1> QED
  BY <1>1, DocsStep

LEMMA OneIDStep ==
  ASSUME IInv, [Next]_vars
  PROVE  OneIDInv'
<1>1. TypeInv /\ OneIDInv /\ setup' = setup
  BY Effects DEF IInv
<1> SUFFICES ASSUME OneIDRecords
             PROVE  /\ \A q \in Worker : /\ NoID \in {rec'[q][1], rec'[q][2]}
                                         /\ pc'[q] = "findWinner" => WithAccount(rec[q][1])' # {} /\ rec'[q] = rec[q]
                                         /\ pc'[q] \in {"verify", "deleteOrphan"} =>
                                              mapping'[uid'[q]].acc = NoID
                                         /\ am'[q].dids = {}
                    /\ \A u \in DOMAIN mapping' :
                         /\ mapping'[u].acc # NoID => mapping'[u].dids = {}
                         /\ \A d, e \in mapping'[u].dids : d = e
                    /\ \A c \in Claims' : c[1] = "account" /\ c[2] # NoID /\ c[3] # 0 =>
                         c[3] \in DOMAIN mapping'
                    /\ ~setup.faults => ~errored'
  BY <1>1 DEF OneIDInv, OneIDRecords, Acc, Did, WithAccount
<1>2. ASSUME NEW q \in Worker
      PROVE  NoID \in {rec'[q][1], rec'[q][2]}
  <2>1. rec'[q] = rec[q] \/ \E r \in setup.records : rec'[q] = r
    BY Effects DEF Effect, Takes, Inserts, Deletes, BindsDistinct, BindsAccount, Looks, Others
  <2>2. NoID \in {rec[q][1], rec[q][2]}
    BY <1>1 DEF OneIDInv, Acc, Did
  <2> QED
    BY <2>1, <2>2 DEF OneIDRecords
<1>3. ASSUME NEW q \in Worker, pc'[q] = "findWinner"
      PROVE  WithAccount(rec[q][1])' # {} /\ rec'[q] = rec[q]
  <2>1. /\ rec'[q] = rec[q]
        /\ WithAccount(Acc(q)) # {} /\ Acc(q) # NoID
    <3>1. CASE pc[q] = "findWinner" /\ rec'[q] = rec[q]
      BY <1>1, <3>1, WorkerTypes DEF OneIDInv, WorkerOK
    <3>2. CASE ~(pc[q] = "findWinner" /\ rec'[q] = rec[q])
      <4>1. PICK p \in Worker : Others(p) /\ Effect(p)
        BY <1>3, <3>2, Effects
      <4>2. p = q
        BY <1>3, <3>2, <4>1 DEF Others
      <4>3. Looks(q)
        BY <1>3, <4>1, <4>2 DEF Effect, Takes, Inserts, Deletes, BindsDistinct, BindsAccount
      <4> QED
        BY <1>3, <4>3 DEF Looks
    <3> QED
      BY <3>1, <3>2
  <2>2. PICK u \in DOMAIN mapping : mapping[u].acc = Acc(q)
    BY <2>1 DEF WithAccount
  <2>3. u \in DOMAIN mapping' /\ mapping'[u].acc = Acc(q)
    BY <2>1, <2>2, DocsLost
  <2> QED
    BY <2>1, <2>3 DEF WithAccount, Acc
<1>4. ASSUME NEW q \in Worker, pc'[q] \in {"verify", "deleteOrphan"}
      PROVE  mapping'[uid'[q]].acc = NoID
  <2>1. pc[q] \in Owning /\ uid'[q] = uid[q]
    BY <1>4, OwnersStep DEF Owning, Takes
  <2>2. CASE pc[q] \in {"verify", "deleteOrphan"}
    BY <1>1, <1>4, <2>1, <2>2, OwnedStays DEF OneIDInv
  <2>3. CASE pc[q] = "insert"
    <3>1. PICK p \in Worker : Others(p) /\ Effect(p)
      BY <1>4, <2>3, Effects
    <3>2. p = q
      BY <1>4, <2>3, <3>1 DEF Others
    <3>3. Inserts(q) /\ goal[q] = "distinct"
      BY <1>4, <2>3, <3>1, <3>2 DEF Effect, Takes, Inserts, Deletes, BindsDistinct, BindsAccount, Looks
    <3>4. mapping'[uid[q]] = [acc |-> InsertAcc(q), dids |-> InsertDids(q), rank |-> inserted]
          /\ InsertAcc(q) = NoID
      BY <3>3 DEF Inserts, InsertDoc, InsertAcc
    <3> QED
      BY <2>1, <3>4
  <2> QED
    BY <2>1, <2>2, <2>3 DEF Owning
<1>5. ASSUME NEW q \in Worker
      PROVE  am'[q].dids = {}
  <2>1. CASE am'[q] \in {am[q], None}
    BY <1>1, <2>1, NoneFacts DEF OneIDInv
  <2>2. CASE Acc(q) # NoID /\ am'[q] \in AccountLookup(Acc(q)) /\ am'[q] # None
    <3> DEFINE m == am'[q]
    <3>1. m.uid \in DOMAIN mapping /\ m = Read(m.uid) /\ m.acc = Acc(q)
      BY <1>1, <2>2, WorkerTypes, LookupFacts
    <3>2. mapping[m.uid].acc = Acc(q) /\ m.dids = mapping[m.uid].dids
      BY <3>1 DEF Read
    <3> QED
      BY <1>1, <2>2, <3>1, <3>2 DEF OneIDInv
  <2> QED
    BY <2>1, <2>2, ReadStep
<1>6. ASSUME NEW u \in DOMAIN mapping'
      PROVE  /\ mapping'[u].acc # NoID => mapping'[u].dids = {}
             /\ \A d, e \in mapping'[u].dids : d = e
  <2>1. CASE u \in DOMAIN mapping
    BY <1>1, <1>6, <2>1, DocsStep DEF OneIDInv
  <2>2. CASE u \notin DOMAIN mapping
    <3>1. PICK p \in Worker : u = uid[p] /\ Inserts(p)
      BY <1>6, <2>2, DocsStep
    <3>2. mapping'[u] = [acc |-> InsertAcc(p), dids |-> InsertDids(p), rank |-> inserted]
      BY <3>1 DEF Inserts, InsertDoc
    <3>3. /\ goal[p] # "distinct" => Acc(p) # NoID
          /\ goal[p] # "account" => Did(p) # NoID
      BY <1>1, <3>1, WorkerTypes DEF Inserts, WorkerOK
    <3>4. NoID \in {Acc(p), Did(p)}
      BY <1>1 DEF OneIDInv
    <3>5. InsertAcc(p) # NoID => InsertDids(p) = {}
      BY <3>3, <3>4 DEF InsertAcc, InsertDids
    <3>6. \A d, e \in InsertDids(p) : d = e
      BY DEF InsertDids
    <3> QED
      BY <3>2, <3>5, <3>6
  <2> QED
    BY <2>1, <2>2
<1>7. ASSUME NEW c \in Claims', c[1] = "account", c[2] # NoID, c[3] # 0
      PROVE  c[3] \in DOMAIN mapping'
  <2>1. CASE c \in Claims
    <3>1. c[3] \in DOMAIN mapping
      BY <1>1, <1>7, <2>1 DEF OneIDInv
    <3>2. mapping[c[3]].acc = c[2]
      BY <1>7, <2>1, <3>1 DEF IInv, BoundInv
    <3> QED
      BY <1>7, <3>1, <3>2, DocsLost
  <2> QED
    BY <1>7, <2>1, ClaimsStep DEF New
<1>8. ASSUME ~setup.faults
      PROVE  ~errored'
  <2>1. ~\E p \in Worker : pc[p] = "findWinner" /\ WithAccount(Acc(p)) = {}
    BY <1>1 DEF OneIDInv
  <2> QED
    BY <1>1, <1>8, <2>1, ErrorStep DEF OneIDInv
<1> QED
  BY <1>2, <1>3, <1>4, <1>5, <1>6, <1>7, <1>8

(* The first document of a distinct id stays the first: a document inserted  *)
(* ranks after it, and no worker deletes it as an orphan.                    *)
LEMMA LedStep ==
  ASSUME IInv, [Next]_vars
  PROVE  LedInv'
<1>1. TypeInv /\ LedInv /\ RankInv /\ OneIDInv /\ OwnInv /\ setup' = setup
  BY Effects DEF IInv
<1> SUFFICES ASSUME OneIDEach, NEW c \in Claims', c[1] = "distinct", c[3] # 0
             PROVE  Led(c[2], c[3])'
  BY <1>1 DEF LedInv, OneIDEach, OneIDRecords
<1> DEFINE d == c[2]
           u == c[3]
<1>2. OneIDRecords
  BY DEF OneIDEach
<1>3. CASE c \in Claims
  <2>1. u \in DOMAIN mapping /\ d \in mapping[u].dids
        /\ \A v \in WithDistinct(d) : mapping[u].rank <= mapping[v].rank
    BY <1>1, <1>3 DEF LedInv, Led, WithDistinct
  <2>2. u \in DOMAIN mapping'
    <3> SUFFICES ASSUME u \notin DOMAIN mapping'
                 PROVE  FALSE
      OBVIOUS
    <3>1. PICK p \in Worker : pc[p] = "deleteOrphan" /\ u = uid[p]
      BY <2>1, DocsStep
    <3>2. /\ dm[p] # None /\ dm[p].uid # u /\ dm[p].uid # 0 /\ Did(p) \in dm[p].dids
      BY <1>1, <3>1, WorkerTypes DEF WorkerOK
    <3>3. Did(p) \in mapping[u].dids
      BY <1>1, <3>1 DEF OwnInv, WithDistinct
    <3>4. Did(p) = d
      BY <1>1, <1>2, <2>1, <3>3 DEF OneIDInv
    <3>5. <<"distinct", d, dm[p].uid>> \in Claims
      <4>1. <<"distinct", d, dm[p].uid>> \in DocClaims(dm[p])
        BY <3>2, <3>4 DEF DocClaims
      <4> QED
        BY <1>1, <4>1, OldClaims
    <3>6. Led(d, dm[p].uid)
      BY <1>1, <3>2, <3>5 DEF LedInv
    <3>7. /\ dm[p].uid \in DOMAIN mapping
          /\ mapping[u].rank <= mapping[dm[p].uid].rank /\ mapping[dm[p].uid].rank <= mapping[u].rank
      BY <2>1, <3>6 DEF Led, WithDistinct
    <3>8. mapping[u].rank \in Nat /\ mapping[dm[p].uid].rank \in Nat
      BY <1>1, <2>1, <3>7 DEF TypeInv, DBType
    <3>9. mapping[u].rank = mapping[dm[p].uid].rank
      BY <3>7, <3>8
    <3> QED
      BY <1>1, <2>1, <3>2, <3>7, <3>9 DEF RankInv
  <2>3. mapping'[u] = mapping[u]
    BY <1>2, <2>1, <2>2, DocsStep
  <2>4. ASSUME NEW v \in DOMAIN mapping', d \in mapping'[v].dids
        PROVE  mapping'[u].rank <= mapping'[v].rank
    <3>1. CASE v \in DOMAIN mapping
      <4>1. mapping'[v] = mapping[v]
        BY <1>2, <2>4, <3>1, DocsStep
      <4> QED
        BY <2>1, <2>3, <2>4, <3>1, <4>1 DEF WithDistinct
    <3>2. CASE v \notin DOMAIN mapping
      <4>1. PICK p \in Worker : v = uid[p] /\ Inserts(p)
        BY <2>4, <3>2, DocsStep
      <4>2. mapping'[v].rank = inserted
        BY <4>1 DEF Inserts, InsertDoc
      <4>3. mapping[u].rank < inserted /\ mapping[u].rank \in Nat /\ inserted \in Nat
        BY <1>1, <2>1 DEF RankInv, TypeInv, DBType
      <4> QED
        BY <2>3, <4>2, <4>3
    <3> QED
      BY <3>1, <3>2
  <2> QED
    BY <2>1, <2>2, <2>3, <2>4 DEF Led, WithDistinct
<1>4. CASE c \notin Claims
  BY <1>4, ClaimsStep DEF New
<1> QED
  BY <1>3, <1>4

LEMMA IInvInit == Init => IInv
<1> SUFFICES ASSUME Init
             PROVE  IInv
  OBVIOUS
<1>1. TypeInv
  BY TypeInit
<1>2. DOMAIN mapping = {} /\ answers = {} /\ errored = FALSE
      /\ \A p \in Worker : /\ pc[p] = "idle" /\ am[p] = None /\ dm[p] = None
                           /\ rec[p] = <<NoID, NoID>>
  BY DEF Init
<1>3. ASSUME NEW c \in Claims
      PROVE  c[3] = 0
  <2>1. CASE \E q \in Pods : c \in CacheClaims(cache[q])
    <3>1. PICK q \in Pods : c \in CacheClaims(cache[q])
      BY <2>1
    <3>2. cache[q] = [acc |-> [a \in Accounts |-> 0], did |-> [e \in Distincts |-> 0]]
      BY DEF Init
    <3>3. /\ \A a \in Accounts : cache[q].acc[a] = 0
          /\ \A e \in Distincts : cache[q].did[e] = 0
      BY <3>2
    <3> QED
      BY <3>1, <3>3 DEF CacheClaims
  <2>2. CASE \E p \in Worker : c \in DocClaims(am[p]) \/ c \in DocClaims(dm[p])
    BY <1>2, <2>2, NoneFacts DEF DocClaims
  <2> QED
    BY <1>2, <1>3, <2>1, <2>2, ClaimsMembers
<1>4. FreshInv /\ OwnInv
  BY <1>2, <1>3 DEF FreshInv, OwnInv
<1>5. BoundInv /\ RankInv /\ LedInv
  BY <1>2, <1>3 DEF BoundInv, RankInv, LedInv
<1>6. OneIDInv
  BY <1>2, <1>3, NoneFacts DEF OneIDInv, Acc, Did
<1> QED
  BY <1>1, <1>4, <1>5, <1>6 DEF IInv

LEMMA IInvStep == IInv /\ [Next]_vars => IInv'
  BY TypeStep, FreshStep, OwnStep, BoundStep, OneIDStep, RankStep, LedStep DEF IInv

LEMMA IInvInvariance == Spec => []IInv
  BY IInvInit, IInvStep, PTL DEF Spec

-----------------------------------------------------------------------------
(* The results.                                                              *)

(* Two documents an account was answered with never live at once, whatever   *)
(* records, races and failures there were (identity.go, atomicCreate and     *)
(* atomicBind functions).                                                    *)
THEOREM AccountHasOneLiveUser == Spec => []AccountOneLiveUser
<1>1. ASSUME IInv, NEW x \in answers, NEW y \in answers, x[1] = y[1], x[1] # NoID,
             {x[3], y[3]} \subseteq DOMAIN mapping
      PROVE  x[3] = y[3]
  <2>1. <<"account", x[1], x[3]>> \in Claims /\ <<"account", x[1], y[3]>> \in Claims
    BY <1>1, OldClaims DEF IInv, AnswerClaim
  <2>2. mapping[x[3]].acc = x[1] /\ mapping[y[3]].acc = x[1]
    BY <1>1, <2>1 DEF IInv, BoundInv
  <2> QED
    BY <1>1, <2>2 DEF IInv, BoundInv
<1>2. IInv => AccountOneLiveUser
  BY <1>1 DEF AccountOneLiveUser
<1> QED
  BY <1>2, IInvInvariance, PTL

(* When no record carries both ids, lookups are stable and MongoDB does not  *)
(* fail, every record of an account or of a distinct id gets the #user_id    *)
(* that the first one got, in every pod (atomicCreateForDistinctID's second  *)
(* look after the insert).                                                   *)
THEOREM EachIDHasOneUser == Spec => []OneUserPerID
<1>1. ASSUME IInv, NEW x \in answers
      PROVE  x[3] # 0 /\ AnswerClaim(x) \in Claims
  <2>1. x \in AccountIDs \X DistinctIDs \X Uids
    BY <1>1 DEF IInv, TypeInv, OutType
  <2> QED
    BY <1>1, <2>1, OldClaims, SetupFacts DEF IInv
<1>2. ASSUME IInv, OneIDEach, NEW x \in answers, NEW y \in answers, x[1] = y[1], x[1] # NoID
      PROVE  x[3] = y[3]
  <2>1. <<"account", x[1], x[3]>> \in Claims /\ <<"account", x[1], y[3]>> \in Claims
    BY <1>1, <1>2 DEF AnswerClaim
  <2>2. x[3] \in DOMAIN mapping /\ y[3] \in DOMAIN mapping
    BY <1>1, <1>2, <2>1 DEF IInv, OneIDInv, OneIDEach
  <2>3. mapping[x[3]].acc = x[1] /\ mapping[y[3]].acc = x[1]
    BY <1>2, <2>1, <2>2 DEF IInv, BoundInv
  <2> QED
    BY <1>2, <2>2, <2>3 DEF IInv, BoundInv
<1>3. ASSUME IInv, OneIDEach, NEW x \in answers, NEW y \in answers,
             x[1] = NoID, y[1] = NoID, x[2] = y[2]
      PROVE  x[3] = y[3]
  <2>1. <<"distinct", x[2], x[3]>> \in Claims /\ <<"distinct", x[2], y[3]>> \in Claims
    BY <1>1, <1>3 DEF AnswerClaim
  <2>2. Led(x[2], x[3]) /\ Led(x[2], y[3])
    BY <1>1, <1>3, <2>1 DEF IInv, LedInv
  <2>3. /\ x[3] \in DOMAIN mapping /\ y[3] \in DOMAIN mapping
        /\ mapping[x[3]].rank <= mapping[y[3]].rank /\ mapping[y[3]].rank <= mapping[x[3]].rank
    BY <2>2 DEF Led, WithDistinct
  <2>4. mapping[x[3]].rank \in Nat /\ mapping[y[3]].rank \in Nat
    BY <1>3, <2>3 DEF IInv, TypeInv, DBType
  <2>5. mapping[x[3]].rank = mapping[y[3]].rank
    BY <2>3, <2>4
  <2> QED
    BY <1>3, <2>3, <2>5 DEF IInv, RankInv
<1>4. IInv => OneUserPerID
  BY <1>2, <1>3 DEF OneUserPerID
<1> QED
  BY <1>4, IInvInvariance, PTL

(* No step gives a document another account or takes a distinct id out of    *)
(* it: a #user_id is inserted once, and $addToSet and the conditional update *)
(* only add to it (identity_atomic.go).                                      *)
THEOREM BindingsGrow == Spec => BindingsOnlyGrow
<1>1. IInv /\ [Next]_vars =>
        [\A u \in DOMAIN mapping \cap DOMAIN mapping' :
           /\ mapping[u].acc # NoID => mapping'[u].acc = mapping[u].acc
           /\ mapping[u].dids \subseteq mapping'[u].dids]_vars
  BY DocsStep
<1> QED
  BY <1>1, IInvInvariance, PTL DEF Spec, BindingsOnlyGrow

(* While MongoDB does not fail and no record carries both ids, no Resolve    *)
(* fails: the loser of every race finds what the winner made.                *)
THEOREM ColdStartSucceeds == Spec => []NoColdStartFailure
<1>1. IInv => NoColdStartFailure
  BY DEF IInv, OneIDInv, NoColdStartFailure
<1> QED
  BY <1>1, IInvInvariance, PTL

(* The race to create the counter fails no call, whatever the records: only  *)
(* a failure of MongoDB makes a worker return from nextUserID with an error  *)
(* ("expected, not fatal"), since one lost race is enough to find the        *)
(* counter at the next attempt.                                              *)
CounterFailsNobody ==
  [][\A p \in Worker :
       pc[p] \in {"nextUserID", "createCounter"} /\ pc'[p] = "idle" => setup.faults]_vars

THEOREM CounterRaceHarmless == Spec => CounterFailsNobody
<1>1. ASSUME IInv, NEW p \in Worker, Step(p) \/ CallFails(p) \/ \E r \in setup.records : Resolve(p, r),
             ~(NextUserID(p) \/ CreateCounter(p)), NEW q \in Worker, ~setup.faults
      PROVE  ~(pc[q] \in {"nextUserID", "createCounter"} /\ pc'[q] = "idle")
  <2>1. Others(p)
    BY <1>1, StepOthers DEF IInv
  <2>2. pc[p] \notin {"nextUserID", "createCounter"}
    BY <1>1 DEF Step, CallFails, Resolve, FindAccount, FindDistinct, Insert, FindWinner, Verify,
       DeleteOrphan, BindDistinct, BindAccount
  <2> QED
    BY <2>1, <2>2 DEF Others
<1>2. ASSUME IInv, NEW p \in Worker, NextUserID(p) \/ CreateCounter(p), NEW q \in Worker, ~setup.faults
      PROVE  ~(pc[q] \in {"nextUserID", "createCounter"} /\ pc'[q] = "idle")
  <2>1. Others(p)
    BY <1>2, StepOthers DEF IInv, Step
  <2>2. attempt[p] = 0 \/ pc[p] # "createCounter"
    BY <1>2, WorkerTypes DEF IInv, WorkerOK
  <2>3. pc'[p] # "idle"
    <3>1. pc' \in {[pc EXCEPT ![p] = next] : next \in {"insert", "createCounter", "nextUserID"}}
      BY <1>2, <2>2, IDsAssumption DEF NextUserID, CreateCounter, RetryCounter, LostReply, Goto
    <3> QED
      BY <1>2, <3>1, ProcTypes DEF IInv
  <2> QED
    BY <2>1, <2>3 DEF Others
<1>3. IInv /\ [Next]_vars =>
        [\A p \in Worker :
           pc[p] \in {"nextUserID", "createCounter"} /\ pc'[p] = "idle" => setup.faults]_vars
  <2>1. ASSUME IInv, Next, NEW q \in Worker, pc[q] \in {"nextUserID", "createCounter"}, pc'[q] = "idle"
        PROVE  setup.faults
    <3>1. CASE Finished
      BY <2>1, <3>1 DEF Finished
    <3> QED
      BY <1>1, <1>2, <2>1, <3>1 DEF Next, Step
  <2> QED
    BY <2>1
<1> QED
  BY <1>3, IInvInvariance, PTL DEF Spec, CounterFailsNobody
====
