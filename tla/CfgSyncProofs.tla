---------------------------- MODULE CfgSyncProofs ----------------------------
(***************************************************************************)
(* Theorems about CfgSync, for every set of publishers, every filter, every *)
(* backend and every number of calls, faults, restarts and writes behind    *)
(* cfgsync's back.                                                          *)
(***************************************************************************)
EXTENDS CfgSync, TLAPS

-----------------------------------------------------------------------------
(* Lemmas about filters and documents. *)

LEMMA FiltersFacts ==
  /\ \A f \in Config!Filters : f \in [DOMAIN f -> SUBSET Rules]
                               /\ DOMAIN f \subseteq {"include", "exclude"}
  /\ \A S \in SUBSET {"include", "exclude"} : [S -> SUBSET Rules] \subseteq Config!Filters
<1>1. ASSUME NEW f \in Config!Filters
      PROVE  f \in [DOMAIN f -> SUBSET Rules] /\ DOMAIN f \subseteq {"include", "exclude"}
  <2>1. PICK S \in SUBSET {"include", "exclude"} : f \in [S -> SUBSET Rules]
    BY DEF Config!Filters
  <2> QED
    BY <2>1
<1>2. ASSUME NEW S \in SUBSET {"include", "exclude"}
      PROVE  [S -> SUBSET Rules] \subseteq Config!Filters
  BY DEF Config!Filters
<1> QED
  BY <1>1, <1>2

(* Merging two filters gives a filter that holds the rules of the second.    *)
LEMMA MergedFacts ==
  ASSUME NEW f \in Config!Filters, NEW g \in Config!Filters
  PROVE  /\ Config!Merged(f, g) \in Config!Filters
         /\ Config!Merged(Config!Merged(f, g), g) = Config!Merged(f, g)
         /\ Config!Merged(g, g) = g
<1> DEFINE m == Config!Merged(f, g)
           S == DOMAIN f \cup DOMAIN g
<1>1. /\ f \in [DOMAIN f -> SUBSET Rules] /\ DOMAIN f \subseteq {"include", "exclude"}
      /\ g \in [DOMAIN g -> SUBSET Rules] /\ DOMAIN g \subseteq {"include", "exclude"}
  BY FiltersFacts
<1>2. /\ DOMAIN m = S
      /\ \A s \in S : m[s] = (IF s \in DOMAIN f THEN f[s] ELSE {})
                               \cup (IF s \in DOMAIN g THEN g[s] ELSE {})
      /\ m = [s \in S |-> m[s]]
  BY DEF Config!Merged
<1>3. m \in [S -> SUBSET Rules]
  BY <1>1, <1>2 DEF Config!Merged
<1>4. m \in Config!Filters
  BY <1>1, <1>3, FiltersFacts
<1> HIDE DEF m
<1>5. Config!Merged(m, g) = m
  <2>1. DOMAIN m \cup DOMAIN g = S
    BY <1>2
  <2>2. \A s \in S : (IF s \in DOMAIN m THEN m[s] ELSE {})
                       \cup (IF s \in DOMAIN g THEN g[s] ELSE {}) = m[s]
    BY <1>2
  <2>3. Config!Merged(m, g) = [s \in S |-> m[s]]
    BY <2>1, <2>2 DEF Config!Merged
  <2> QED
    BY <1>2, <2>3
<1>6. Config!Merged(g, g) = g
  <2>1. \A s \in DOMAIN g : (IF s \in DOMAIN g THEN g[s] ELSE {})
                              \cup (IF s \in DOMAIN g THEN g[s] ELSE {}) = g[s]
    OBVIOUS
  <2>2. Config!Merged(g, g) = [s \in DOMAIN g |-> g[s]]
    BY <2>1 DEF Config!Merged
  <2> QED
    BY <1>1, <2>2
<1> QED
  BY <1>4, <1>5, <1>6 DEF m

(* A document is none of the markers, and what is valid holds a filter. *)
LEMMA DocumentFacts ==
  /\ \A d \in Documents : /\ d # NoDoc /\ d # Lookup
                          /\ d.version \in Nat /\ d.version > 0
                          /\ d.filter \in Config!Filters \cup {Malformed}
                          /\ d.foreign \in BOOLEAN
                          /\ Config!Version(d) = d.version
                          /\ d # Config!Baseline
  /\ \A d \in Documents \cup {NoDoc} : Config!Version(d) \in Nat
  /\ Config!Version(NoDoc) = 0 /\ ~Config!Compiles(NoDoc) /\ ~Config!Foreign(NoDoc)
  /\ \A d \in Documents : Config!Compiles(d) => d.filter \in Config!Filters
  /\ Config!Baseline.version = 0
  /\ \A v \in Nat \ {0}, f \in Config!Filters \cup {Malformed}, x \in BOOLEAN :
       /\ Config!Document(v, f, x) \in Documents
       /\ Config!Document(v, f, x).version = v
       /\ Config!Document(v, f, x).filter = f
       /\ Config!Document(v, f, x).foreign = x
<1>1. /\ Config!Baseline.version = 0
      /\ Config!Version(NoDoc) = 0 /\ ~Config!Compiles(NoDoc) /\ ~Config!Foreign(NoDoc)
  BY DEF Config!Baseline, Config!Document, Config!Version, Config!Compiles, Config!Foreign
<1>2. ASSUME NEW d \in Documents
      PROVE  /\ d # NoDoc /\ d # Lookup
             /\ d.version \in Nat /\ d.version > 0
             /\ d.filter \in Config!Filters \cup {Malformed}
             /\ d.foreign \in BOOLEAN
  BY MarkersAssumption DEF Documents
<1>3. ASSUME NEW d \in Documents
      PROVE  Config!Version(d) = d.version /\ (Config!Compiles(d) => d.filter \in Config!Filters)
  BY <1>2 DEF Config!Version, Config!Compiles
<1>4. ASSUME NEW v \in Nat \ {0}, NEW f \in Config!Filters \cup {Malformed}, NEW x \in BOOLEAN
      PROVE  /\ Config!Document(v, f, x) \in Documents
             /\ Config!Document(v, f, x).version = v
             /\ Config!Document(v, f, x).filter = f
             /\ Config!Document(v, f, x).foreign = x
  BY DEF Documents, Config!Document
<1>5. \A d \in Documents : d # Config!Baseline
  BY <1>1, <1>2
<1>6. \A d \in Documents \cup {NoDoc} : Config!Version(d) \in Nat
  BY <1>1, <1>2, <1>3
<1> QED
  BY <1>1, <1>2, <1>3, <1>4, <1>5, <1>6

LEMMA AppendFacts ==
  ASSUME NEW S, NEW s \in Seq(S), NEW e \in S
  PROVE  Append(s, e) \in Seq(S)
  OBVIOUS

LEMMA TailFacts ==
  ASSUME NEW S, NEW s \in Seq(S), s # <<>>
  PROVE  Head(s) \in S /\ Tail(s) \in Seq(S)
  OBVIOUS

-----------------------------------------------------------------------------
(* Type correctness. *)

(* A call under way publishes one of the filters, and one that is about to   *)
(* write has fetched a document that can be added to.                        *)
CallOK ==
  \A p \in Publisher : /\ pc[p] # "idle" => delta[p] \in Deltas
                       /\ pc[p] = "write" => Config!Mergeable(cur[p])

TypeInv == TypeOK /\ CallOK /\ deletes \in Nat

(* A write of the document, whoever makes it. *)
LEMMA StoreFacts ==
  ASSUME TypeInv, NEW f \in Config!Filters \cup {Malformed}, NEW x \in BOOLEAN, Store(f, x)
  PROVE  /\ doc' = Config!Document(Config!Version(doc) + 1, f, x) /\ doc' \in Documents
         /\ doc'.version = Config!Version(doc) + 1 /\ doc'.filter = f /\ doc'.foreign = x
         /\ published' = published \cup {doc'} /\ published' \subseteq Documents
         /\ \/ events' = events
            \/ events' = Append(events, Lookup)
            \/ events' = Append(events, doc')
         /\ events' \in Seq(Documents \cup {NoDoc, Lookup})
<1>1. Config!Version(doc) + 1 \in Nat \ {0}
  <2>1. doc \in Documents \cup {NoDoc}
    BY DEF TypeInv, TypeOK
  <2>2. Config!Version(doc) \in Nat
    BY <2>1, DocumentFacts
  <2> QED
    BY <2>2
<1>2. doc' = Config!Document(Config!Version(doc) + 1, f, x)
  BY DEF Store
<1>3. /\ doc' \in Documents
      /\ doc'.version = Config!Version(doc) + 1 /\ doc'.filter = f /\ doc'.foreign = x
  BY <1>1, <1>2, DocumentFacts
<1>4. published' = published \cup {doc'} /\ published' \subseteq Documents
  BY <1>2, <1>3 DEF Store, TypeInv, TypeOK
<1>5. \/ events' = events
      \/ events' = Append(events, Lookup)
      \/ events' = Append(events, doc')
  BY <1>2 DEF Store, Emit
<1>6. events' \in Seq(Documents \cup {NoDoc, Lookup})
  <2>1. events \in Seq(Documents \cup {NoDoc, Lookup})
    BY DEF TypeInv, TypeOK
  <2> QED
    BY <1>3, <1>5, <2>1, AppendFacts
<1> QED
  BY <1>2, <1>3, <1>4, <1>5, <1>6

(* What a publisher writes. *)
LEMMA WrittenIsFilter ==
  ASSUME TypeInv, NEW p \in Publisher
  PROVE  /\ pc[p] # "idle" => delta[p] \in Config!Filters
         /\ pc[p] = "write" =>
              (IF cur[p] = NoDoc THEN delta[p] ELSE Config!Merged(cur[p].filter, delta[p]))
                \in Config!Filters
         /\ Config!Foreign(doc) \in BOOLEAN
<1>1. delta[p] \in Config!Filters
  BY DEF TypeInv, TypeOK
<1>2. ASSUME pc[p] = "write", cur[p] # NoDoc
      PROVE  cur[p].filter \in Config!Filters
  BY <1>2, DocumentFacts DEF TypeInv, TypeOK, CallOK, Config!Mergeable, Config!Valid
<1>3. Config!Foreign(doc) \in BOOLEAN
  BY DEF Config!Foreign
<1> QED
  BY <1>1, <1>2, <1>3, MergedFacts

LEMMA TypeInit == Init => TypeInv
<1> SUFFICES ASSUME Init
             PROVE  TypeInv
  OBVIOUS
<1>1. doc \in Documents \cup {NoDoc} /\ published \subseteq Documents
  <2>1. setup.seeds \subseteq Config!Filters
    <3>1. setup \in Setups
      BY DEF Init
    <3>2. setup.seeds \subseteq Seeds
      BY <3>1 DEF Seeds
    <3>3. Seeds \subseteq Config!Filters
      BY FiltersAssumption
    <3> QED
      BY <3>2, <3>3
  <2>2. \A f \in setup.seeds : Config!Document(1, f, FALSE) \in Documents
    <3>1. ASSUME NEW f \in Config!Filters
          PROVE  Config!Document(1, f, FALSE) \in Documents
      <4>1. 1 \in Nat \ {0} /\ FALSE \in BOOLEAN /\ f \in Config!Filters \cup {Malformed}
        OBVIOUS
      <4> QED
        BY <4>1, DocumentFacts
    <3> QED
      BY <2>1, <3>1, Zenon
  <2>3. doc \in Documents \cup {NoDoc}
    BY <2>2 DEF Init
  <2> QED
    BY <2>3 DEF Init
<1>2. <<>> \in Config!Filters
  <2>1. <<>> \in [{} -> SUBSET Rules]
    OBVIOUS
  <2> QED
    BY <2>1, FiltersFacts
<1>3. /\ pc \in [Publisher -> {"idle", "set", "readBack", "fetch", "write"}]
      /\ delta \in [Publisher -> Config!Filters]
      /\ cur \in [Publisher -> Documents \cup {NoDoc}]
      /\ attempt \in [Publisher -> 0 .. Attempts]
      /\ reply \in [Publisher -> {"set", "append"} \X Nat]
  BY <1>2, SetupsAssumption DEF Init
<1>4. /\ setup \in Setups
      /\ live \in Documents \cup {Config!Baseline} /\ lastVersion \in Nat /\ ready \in BOOLEAN
      /\ run \in {"start", "read", "loop", "resubscribe", "failed"}
      /\ pump \in {"next", "hand", "ended", "dead"}
      /\ hand \in Documents \cup {NoDoc} /\ deletes \in Nat
  BY DEF Init, StartOfRun
<1>5. events \in Seq(Documents \cup {NoDoc, Lookup})
  BY DEF Init
<1>6. CallOK /\ \A p \in Publisher : pc[p] \in {"fetch", "write"} => attempt[p] < Attempts
  BY DEF Init, CallOK
<1> QED
  BY <1>1, <1>3, <1>4, <1>5, <1>6 DEF TypeInv, TypeOK

(* A reply, or a move to the next call. *)
LEMMA ReplyType ==
  ASSUME TypeInv, NEW p \in Publisher, NEW mode \in {"set", "append"}, NEW v \in Nat,
         Return(p, mode, v)
  PROVE  /\ pc' \in [Publisher -> {"idle", "set", "readBack", "fetch", "write"}]
         /\ pc'[p] = "idle" /\ \A q \in Publisher \ {p} : pc'[q] = pc[q]
         /\ reply' \in [Publisher -> {"set", "append"} \X Nat]
         /\ reply'[p] = <<mode, v>> /\ \A q \in Publisher \ {p} : reply'[q] = reply[q]
  BY DEF Return, TypeInv, TypeOK

LEMMA GotoType ==
  ASSUME TypeInv, NEW p \in Publisher,
         NEW next \in {"set", "readBack", "fetch", "write"}, Goto(p, next)
  PROVE  /\ pc' \in [Publisher -> {"idle", "set", "readBack", "fetch", "write"}]
         /\ pc'[p] = next /\ \A q \in Publisher \ {p} : pc'[q] = pc[q]
         /\ reply' = reply
  BY DEF Goto, TypeInv, TypeOK

(* The watcher's part of a step that shows it a document. *)
LEMMA ObserveType ==
  ASSUME TypeInv, NEW d \in Documents \cup {NoDoc}, Observe(d)
  PROVE  /\ live' \in Documents \cup {Config!Baseline}
         /\ lastVersion' \in Nat /\ ready' \in BOOLEAN
<1>1. Newer(d) => d \in Documents
  BY DEF Newer
<1>2. CASE Newer(d)
  BY <1>1, <1>2, DocumentFacts DEF Observe, Apply, TypeInv, TypeOK, Config!Valid, Config!Compiles
<1>3. CASE ~Newer(d)
  BY <1>3 DEF Observe, TypeInv, TypeOK
<1> QED
  BY <1>2, <1>3

(* The three parts of the state, and their frames. *)
StoreType ==
  /\ doc \in Documents \cup {NoDoc}
  /\ published \subseteq Documents
  /\ events \in Seq(Documents \cup {NoDoc, Lookup})

WatchType ==
  /\ live \in Documents \cup {Config!Baseline}
  /\ lastVersion \in Nat
  /\ ready \in BOOLEAN
  /\ run \in {"start", "read", "loop", "resubscribe", "failed"}
  /\ pump \in {"next", "hand", "ended", "dead"}
  /\ hand \in Documents \cup {NoDoc}

PublisherType ==
  /\ pc \in [Publisher -> {"idle", "set", "readBack", "fetch", "write"}]
  /\ delta \in [Publisher -> Config!Filters]
  /\ cur \in [Publisher -> Documents \cup {NoDoc}]
  /\ attempt \in [Publisher -> 0 .. Attempts]
  /\ \A p \in Publisher : pc[p] \in {"fetch", "write"} => attempt[p] < Attempts
  /\ reply \in [Publisher -> {"set", "append"} \X Nat]
  /\ CallOK

LEMMA TypeParts ==
  /\ TypeInv <=> setup \in Setups /\ StoreType /\ WatchType /\ PublisherType /\ deletes \in Nat
  /\ TypeInv' <=> setup' \in Setups /\ StoreType' /\ WatchType' /\ PublisherType' /\ deletes' \in Nat
  BY DEF TypeInv, TypeOK, StoreType, WatchType, PublisherType, CallOK

LEMMA TypeFrames ==
  ASSUME TypeInv
  PROVE  /\ UNCHANGED storeVars => StoreType'
         /\ UNCHANGED watchVars => WatchType'
         /\ UNCHANGED pubVars => PublisherType'
         /\ UNCHANGED envVars => deletes' \in Nat
<1>1. UNCHANGED storeVars => StoreType'
  BY DEF TypeInv, TypeOK, storeVars, StoreType
<1>2. UNCHANGED watchVars => WatchType'
  BY DEF TypeInv, TypeOK, watchVars, WatchType
<1>3. UNCHANGED pubVars => PublisherType'
  BY DEF TypeInv, TypeOK, pubVars, PublisherType, CallOK
<1>4. UNCHANGED envVars => deletes' \in Nat
  BY DEF TypeInv, envVars
<1> QED
  BY <1>1, <1>2, <1>3, <1>4

(* A publisher's step that ends its call or moves it on to a step that it    *)
(* may take.                                                                 *)
LEMMA CallMoves ==
  ASSUME TypeInv, NEW p \in Publisher,
         delta' \in [Publisher -> Config!Filters],
         cur' \in [Publisher -> Documents \cup {NoDoc}],
         attempt' \in [Publisher -> 0 .. Attempts],
         \A q \in Publisher \ {p} :
           delta'[q] = delta[q] /\ cur'[q] = cur[q] /\ attempt'[q] = attempt[q],
         \/ \E mode \in {"set", "append"}, v \in Nat : Return(p, mode, v)
         \/ \E next \in {"set", "readBack", "fetch", "write"} :
              /\ Goto(p, next)
              /\ delta'[p] \in Deltas
              /\ next \in {"fetch", "write"} => attempt'[p] < Attempts
              /\ next = "write" => Config!Mergeable(cur'[p])
  PROVE  PublisherType'
<1>1. \A q \in Publisher : /\ pc[q] \in {"fetch", "write"} => attempt[q] < Attempts
                           /\ pc[q] # "idle" => delta[q] \in Deltas
                           /\ pc[q] = "write" => Config!Mergeable(cur[q])
  BY DEF TypeInv, TypeOK, CallOK
<1>2. CASE \E mode \in {"set", "append"}, v \in Nat : Return(p, mode, v)
  <2>1. PICK mode \in {"set", "append"} : \E v \in Nat : Return(p, mode, v)
    BY <1>2
  <2>2. PICK v \in Nat : Return(p, mode, v)
    BY <2>1
  <2>3. /\ pc' \in [Publisher -> {"idle", "set", "readBack", "fetch", "write"}]
        /\ pc'[p] = "idle" /\ \A q \in Publisher \ {p} : pc'[q] = pc[q]
        /\ reply' \in [Publisher -> {"set", "append"} \X Nat]
    BY <2>2, ReplyType
  <2>4. \A q \in Publisher : /\ pc'[q] \in {"fetch", "write"} => attempt'[q] < Attempts
                             /\ pc'[q] # "idle" => delta'[q] \in Deltas
                             /\ pc'[q] = "write" => Config!Mergeable(cur'[q])
    BY <1>1, <2>3
  <2> QED
    BY <2>3, <2>4 DEF PublisherType, CallOK
<1>3. CASE \E next \in {"set", "readBack", "fetch", "write"} :
              /\ Goto(p, next)
              /\ delta'[p] \in Deltas
              /\ next \in {"fetch", "write"} => attempt'[p] < Attempts
              /\ next = "write" => Config!Mergeable(cur'[p])
  <2>1. PICK next \in {"set", "readBack", "fetch", "write"} :
              /\ Goto(p, next)
              /\ delta'[p] \in Deltas
              /\ next \in {"fetch", "write"} => attempt'[p] < Attempts
              /\ next = "write" => Config!Mergeable(cur'[p])
    BY <1>3
  <2>2. /\ pc' \in [Publisher -> {"idle", "set", "readBack", "fetch", "write"}]
        /\ pc'[p] = next /\ \A q \in Publisher \ {p} : pc'[q] = pc[q]
        /\ reply' = reply
    BY <2>1, GotoType
  <2>3. \A q \in Publisher : /\ pc'[q] \in {"fetch", "write"} => attempt'[q] < Attempts
                             /\ pc'[q] # "idle" => delta'[q] \in Deltas
                             /\ pc'[q] = "write" => Config!Mergeable(cur'[q])
    BY <1>1, <2>1, <2>2
  <2>4. reply' \in [Publisher -> {"set", "append"} \X Nat]
    BY <2>2 DEF TypeInv, TypeOK
  <2> QED
    BY <2>2, <2>3, <2>4 DEF PublisherType, CallOK
<1> QED
  BY <1>2, <1>3

LEMMA PublisherTypeStep ==
  ASSUME TypeInv, setup \in Setups, NEW p \in Publisher,
         \/ \E mode \in {"set", "append"}, f \in setup.deltas : Publish(p, mode, f)
         \/ PublisherStep(p)
         \/ PublishFails(p)
  PROVE  TypeInv'
<1>1. /\ pc[p] # "idle" => delta[p] \in Deltas
      /\ pc[p] = "write" => Config!Mergeable(cur[p])
      /\ pc[p] \in {"fetch", "write"} => attempt[p] < Attempts
      /\ attempt[p] \in Nat /\ cur[p] \in Documents \cup {NoDoc}
      /\ delta \in [Publisher -> Config!Filters]
      /\ cur \in [Publisher -> Documents \cup {NoDoc}]
      /\ attempt \in [Publisher -> 0 .. Attempts]
      /\ doc \in Documents \cup {NoDoc} /\ 0 \in 0 .. Attempts
  BY SetupsAssumption DEF TypeInv, TypeOK, CallOK
<1>2. ASSUME NEW mode \in {"set", "append"}, NEW f \in setup.deltas, Publish(p, mode, f)
      PROVE  TypeInv'
  <2>1. f \in Deltas
    <3>1. setup.deltas \subseteq Deltas
      BY DEF Deltas
    <3> QED
      BY <3>1
  <2>2. f \in Config!Filters
    <3>1. Deltas \subseteq Config!Filters
      BY FiltersAssumption
    <3> QED
      BY <2>1, <3>1, Zenon
  <2>3. /\ delta' \in [Publisher -> Config!Filters] /\ delta'[p] = f
        /\ \A q \in Publisher \ {p} : delta'[q] = delta[q]
    BY <1>1, <1>2, <2>2 DEF Publish
  <2>4. /\ attempt' \in [Publisher -> 0 .. Attempts] /\ attempt'[p] = 0
        /\ \A q \in Publisher \ {p} : attempt'[q] = attempt[q]
    BY <1>1, <1>2 DEF Publish
  <2>5. \E next \in {"set", "readBack", "fetch", "write"} :
          Goto(p, next) /\ next # "write"
    BY <1>2 DEF Publish
  <2>6. 0 < Attempts
    BY SetupsAssumption
  <2>7. PublisherType'
    BY <1>1, <1>2, <2>1, <2>3, <2>4, <2>5, <2>6, CallMoves DEF Publish
  <2> QED
    BY <1>2, <2>7, TypeFrames, TypeParts DEF Publish
<1>3. ASSUME SetWrite(p)
      PROVE  TypeInv'
  <2>1. \/ \E mode \in {"set", "append"}, v \in Nat : Return(p, mode, v)
        \/ \E next \in {"set", "readBack", "fetch", "write"} :
             Goto(p, next) /\ next \notin {"fetch", "write"}
    BY <1>3 DEF SetWrite
  <2>2. PublisherType'
    BY <1>1, <1>3, <2>1, CallMoves DEF SetWrite
  <2>3. StoreType'
    BY <1>3, StoreFacts, WrittenIsFilter DEF SetWrite, StoreFilter, StoreType
  <2> QED
    BY <1>3, <2>2, <2>3, TypeFrames, TypeParts DEF SetWrite
<1>4. ASSUME SetReadBack(p)
      PROVE  TypeInv'
  <2>1. \E mode \in {"set", "append"}, v \in Nat : Return(p, mode, v)
    BY <1>1, <1>4, DocumentFacts DEF SetReadBack
  <2>2. PublisherType'
    BY <1>1, <1>4, <2>1, CallMoves DEF SetReadBack
  <2> QED
    BY <1>4, <2>2, TypeFrames, TypeParts DEF SetReadBack
<1>5. ASSUME AppendFetch(p)
      PROVE  TypeInv'
  <2>1. /\ cur' \in [Publisher -> Documents \cup {NoDoc}] /\ cur'[p] = doc
        /\ \A q \in Publisher \ {p} : cur'[q] = cur[q]
    BY <1>1, <1>5 DEF AppendFetch
  <2>2. CASE Config!Mergeable(doc)
    <3>1. Goto(p, "write") /\ Config!Mergeable(cur'[p])
      BY <1>5, <2>1, <2>2 DEF AppendFetch
    <3>2. delta' = delta /\ attempt' = attempt /\ pc[p] = "fetch"
      BY <1>5 DEF AppendFetch
    <3>3. PublisherType'
      BY <1>1, <2>1, <3>1, <3>2, CallMoves
    <3> QED
      BY <1>5, <3>3, TypeFrames, TypeParts DEF AppendFetch
  <2>3. CASE ~Config!Mergeable(doc)
    <3>1. Return(p, "append", 0)
      BY <1>5, <2>3 DEF AppendFetch
    <3>2. PublisherType'
      BY <1>1, <1>5, <2>1, <3>1, CallMoves DEF AppendFetch
    <3> QED
      BY <1>5, <3>2, TypeFrames, TypeParts DEF AppendFetch
  <2> QED
    BY <2>2, <2>3
<1>6. ASSUME AppendWrite(p)
      PROVE  TypeInv'
  <2>1. \E mode \in {"set", "append"}, v \in Nat : Return(p, mode, v)
    BY <1>1, <1>6, DocumentFacts DEF AppendWrite
  <2>2. PublisherType'
    BY <1>1, <1>6, <2>1, CallMoves DEF AppendWrite
  <2>3. StoreType'
    BY <1>6, StoreFacts, WrittenIsFilter DEF AppendWrite, StoreFilter, StoreType
  <2> QED
    BY <1>6, <2>2, <2>3, TypeFrames, TypeParts DEF AppendWrite
<1>7. ASSUME AppendMiss(p)
      PROVE  TypeInv'
  <2>1. attempt[p] < Attempts /\ attempt[p] + 1 \in 0 .. Attempts
    BY <1>1, <1>7, SetupsAssumption DEF AppendMiss
  <2>2. /\ attempt' \in [Publisher -> 0 .. Attempts] /\ attempt'[p] = attempt[p] + 1
        /\ \A q \in Publisher \ {p} : attempt'[q] = attempt[q]
    BY <1>1, <1>7, <2>1 DEF AppendMiss, Retry
  <2>3. \/ attempt[p] + 1 < Attempts /\ Goto(p, "fetch")
        \/ Return(p, "append", 0)
    BY <1>7 DEF AppendMiss, Retry
  <2>4. delta' = delta /\ cur' = cur /\ pc[p] = "write"
    BY <1>7 DEF AppendMiss
  <2>5. PublisherType'
    BY <1>1, <2>2, <2>3, <2>4, CallMoves
  <2> QED
    BY <1>7, <2>5, TypeFrames, TypeParts DEF AppendMiss
<1>8. ASSUME PublishFails(p)
      PROVE  TypeInv'
  <2>1. \E mode \in {"set", "append"}, v \in Nat : Return(p, mode, v)
    BY <1>8 DEF PublishFails
  <2>2. PublisherType'
    BY <1>1, <1>8, <2>1, CallMoves DEF PublishFails
  <2> QED
    BY <1>8, <2>2, TypeFrames, TypeParts DEF PublishFails
<1> QED
  BY <1>2, <1>3, <1>4, <1>5, <1>6, <1>7, <1>8 DEF PublisherStep

LEMMA WatcherTypeStep ==
  ASSUME TypeInv,
         WatcherStep \/ Tick \/ PumpNext \/ PumpFails \/ EventLost \/ Restart \/ Tamper \/ Delete
  PROVE  TypeInv'
<1>1. /\ doc \in Documents \cup {NoDoc} /\ hand \in Documents \cup {NoDoc}
      /\ events \in Seq(Documents \cup {NoDoc, Lookup})
      /\ WatchType /\ StoreType
  BY DEF TypeInv, TypeOK, WatchType, StoreType
<1>2. ReadOnce => /\ live' \in Documents \cup {Config!Baseline}
                  /\ lastVersion' \in Nat /\ ready' \in BOOLEAN
  <2>1. CASE Observe(doc)
    BY <1>1, <2>1, ObserveType
  <2>2. CASE UNCHANGED <<lastVersion, live, ready>>
    BY <1>1, <2>2 DEF WatchType
  <2> QED
    BY <2>1, <2>2 DEF ReadOnce
<1>3. CASE Subscribe
  <2>1. WatchType'
    BY <1>1, <1>3 DEF Subscribe, WatchType
  <2> QED
    BY <1>3, <2>1, TypeFrames, TypeParts DEF Subscribe
<1>4. CASE FullRead
  <2>1. WatchType'
    BY <1>2, <1>4 DEF FullRead, WatchType
  <2> QED
    BY <1>4, <2>1, TypeFrames, TypeParts DEF FullRead
<1>5. CASE Deliver
  <2>1. WatchType'
    BY <1>1, <1>5, ObserveType DEF Deliver, WatchType
  <2> QED
    BY <1>5, <2>1, TypeFrames, TypeParts DEF Deliver
<1>6. CASE StreamBroke
  <2>1. WatchType' /\ StoreType'
    BY <1>1, <1>6 DEF StreamBroke, WatchType, StoreType
  <2> QED
    BY <1>6, <2>1, TypeFrames, TypeParts DEF StreamBroke
<1>7. CASE Resubscribe
  <2>1. WatchType'
    BY <1>1, <1>7 DEF Resubscribe, WatchType
  <2> QED
    BY <1>7, <2>1, TypeFrames, TypeParts DEF Resubscribe
<1>8. CASE Tick
  <2>1. WatchType'
    BY <1>1, <1>2, <1>8 DEF Tick, WatchType
  <2> QED
    BY <1>8, <2>1, TypeFrames, TypeParts DEF Tick
<1>9. CASE PumpNext
  <2>1. Head(events) \in Documents \cup {NoDoc, Lookup} /\ events' \in Seq(Documents \cup {NoDoc, Lookup})
    BY <1>1, <1>9, TailFacts DEF PumpNext
  <2>2. hand' \in Documents \cup {NoDoc}
    BY <1>1, <1>9, <2>1 DEF PumpNext
  <2>3. WatchType' /\ StoreType'
    BY <1>1, <1>9, <2>1, <2>2 DEF PumpNext, WatchType, StoreType
  <2> QED
    BY <1>9, <2>3, TypeFrames, TypeParts DEF PumpNext
<1>10. CASE PumpFails
  <2>1. WatchType'
    BY <1>1, <1>10 DEF PumpFails, WatchType
  <2> QED
    BY <1>10, <2>1, TypeFrames, TypeParts DEF PumpFails
<1>11. CASE EventLost
  <2>1. StoreType'
    BY <1>1, <1>11, TailFacts DEF EventLost, StoreType
  <2>2. setup' = setup /\ UNCHANGED watchVars /\ UNCHANGED pubVars /\ UNCHANGED envVars
    BY <1>11 DEF EventLost
  <2> QED
    BY <2>1, <2>2, TypeFrames, TypeParts
<1>12. CASE Restart
  <2>1. WatchType'
    BY <1>1, <1>12 DEF Restart, StartOfRun, WatchType
  <2>3. StoreType'
    BY <1>1, <1>12 DEF Restart, StoreType
  <2>2. setup' = setup /\ deletes' = deletes /\ UNCHANGED pubVars
    BY <1>12 DEF Restart
  <2> QED
    BY <2>1, <2>2, <2>3, TypeFrames, TypeParts
<1>13. CASE Tamper
  <2>1. StoreType'
    <3>1. CASE StoreFilter(Malformed)
      BY <3>1, StoreFacts DEF StoreFilter, StoreType, Config!Foreign
    <3>2. CASE doc # NoDoc /\ Store(doc.filter, TRUE)
      BY <1>1, <3>2, StoreFacts, DocumentFacts DEF StoreType
    <3> QED
      BY <1>13, <3>1, <3>2 DEF Tamper
  <2>2. setup' = setup /\ deletes' = deletes /\ UNCHANGED pubVars /\ UNCHANGED watchVars
    BY <1>13 DEF Tamper
  <2> QED
    BY <2>1, <2>2, TypeFrames, TypeParts
<1>14. CASE Delete
  <2>1. events' \in Seq(Documents \cup {NoDoc, Lookup})
    BY <1>1, <1>14, AppendFacts DEF Delete, Emit
  <2>2. StoreType' /\ deletes' \in Nat
    BY <1>1, <1>14, <2>1 DEF Delete, StoreType, TypeInv
  <2> QED
    BY <1>14, <2>2, TypeFrames, TypeParts DEF Delete
<1> QED
  BY <1>3, <1>4, <1>5, <1>6, <1>7, <1>8, <1>9, <1>10, <1>11, <1>12, <1>13, <1>14 DEF WatcherStep

LEMMA TypeStep == TypeInv /\ [Next]_vars => TypeInv'
<1>1. TypeInv /\ Next => TypeInv'
  BY PublisherTypeStep, WatcherTypeStep DEF Next, TypeInv, TypeOK
<1>2. TypeInv /\ UNCHANGED vars => TypeInv'
  BY TypeFrames, TypeParts DEF vars
<1> QED
  BY <1>1, <1>2

LEMMA TypeInvariance == Spec => []TypeInv
  BY TypeInit, TypeStep, PTL DEF Spec

(* Every variable keeps its type; an append never goes on past its attempts. *)
THEOREM TypeCorrect == Spec => []TypeOK
<1>1. TypeInv => TypeOK
  BY DEF TypeInv
<1> QED
  BY <1>1, TypeInvariance, PTL

-----------------------------------------------------------------------------
(* What a step does to the documents, whoever takes it. *)

Written ==
  /\ \E f \in Config!Filters \cup {Malformed}, x \in BOOLEAN : Store(f, x)
  /\ UNCHANGED <<watchVars, deletes, cur>>

Deleted ==
  /\ doc' = NoDoc /\ Emit(NoDoc) /\ deletes' = deletes + 1
  /\ UNCHANGED <<published, watchVars, cur>>

Fetched ==
  /\ \A p \in Publisher : cur'[p] \in {cur[p], doc}
  /\ UNCHANGED <<storeVars, watchVars, deletes>>

Shown ==
  /\ Observe(doc) \/ Observe(hand)
  /\ hand' \in {hand, NoDoc}
  /\ UNCHANGED <<storeVars, deletes, cur>>

Streamed ==
  /\ events' \in {events, <<>>} \/ (events # <<>> /\ events' = Tail(events))
  /\ \/ hand' \in {hand, doc, NoDoc}
     \/ events # <<>> /\ Head(events) # Lookup /\ hand' = Head(events)
  /\ UNCHANGED <<doc, published, live, lastVersion, ready, deletes, cur>>

Restarted ==
  /\ live' = Config!Baseline /\ lastVersion' = 0 /\ ready' = FALSE
  /\ hand' = NoDoc /\ events' = <<>>
  /\ UNCHANGED <<doc, published, deletes, cur>>

LEMMA PublisherEffects ==
  ASSUME TypeInv, NEW p \in Publisher,
         \/ \E mode \in {"set", "append"}, f \in setup.deltas : Publish(p, mode, f)
         \/ PublisherStep(p)
         \/ PublishFails(p)
  PROVE  Written \/ Fetched
<1>1. ASSUME NEW mode \in {"set", "append"}, NEW f \in setup.deltas, Publish(p, mode, f)
      PROVE  Fetched
  BY <1>1 DEF Publish, Fetched, envVars
<1>2. ASSUME SetWrite(p)
      PROVE  Written
  <2>1. Store(delta[p], Config!Foreign(doc)) /\ pc[p] = "set"
    BY <1>2 DEF SetWrite, StoreFilter
  <2>2. delta[p] \in Config!Filters /\ Config!Foreign(doc) \in BOOLEAN
    BY <2>1, WrittenIsFilter
  <2> QED
    BY <1>2, <2>1, <2>2 DEF SetWrite, Written, envVars
<1>3. ASSUME AppendWrite(p)
      PROVE  Written
  <2> DEFINE f == IF cur[p] = NoDoc THEN delta[p] ELSE Config!Merged(cur[p].filter, delta[p])
  <2>1. Store(f, Config!Foreign(doc)) /\ pc[p] = "write"
    BY <1>3 DEF AppendWrite, StoreFilter
  <2>2. f \in Config!Filters /\ Config!Foreign(doc) \in BOOLEAN
    BY <2>1, WrittenIsFilter
  <2> QED
    BY <1>3, <2>1, <2>2 DEF AppendWrite, Written, envVars
<1>4. ASSUME AppendFetch(p)
      PROVE  Fetched
  <2>1. \A q \in Publisher : cur'[q] \in {cur[q], doc}
    BY <1>4 DEF AppendFetch, TypeInv, TypeOK
  <2> QED
    BY <1>4, <2>1 DEF AppendFetch, Fetched, envVars
<1>5. ASSUME SetReadBack(p) \/ AppendMiss(p) \/ PublishFails(p)
      PROVE  Fetched
  BY <1>5 DEF SetReadBack, AppendMiss, PublishFails, Fetched, envVars
<1> QED
  BY <1>1, <1>2, <1>3, <1>4, <1>5 DEF PublisherStep

LEMMA Effects ==
  ASSUME TypeInv, Next
  PROVE  Written \/ Deleted \/ Fetched \/ Shown \/ Streamed \/ Restarted
<1>1. CASE Subscribe \/ Resubscribe \/ StreamBroke \/ PumpFails \/ EventLost
  <2>1. events' \in {events, <<>>} \/ (events # <<>> /\ events' = Tail(events))
    BY <1>1 DEF Subscribe, Resubscribe, StreamBroke, PumpFails, EventLost, storeVars
  <2>2. hand' = hand /\ UNCHANGED <<doc, published, live, lastVersion, ready, deletes, cur>>
    BY <1>1 DEF Subscribe, Resubscribe, StreamBroke, PumpFails, EventLost,
                storeVars, watchVars, pubVars, envVars
  <2> QED
    BY <2>1, <2>2 DEF Streamed
<1>2. CASE PumpNext
  BY <1>2 DEF PumpNext, Streamed, pubVars, envVars
<1>3. CASE FullRead \/ Tick
  <2>1. ReadOnce /\ hand' \in {hand, NoDoc} /\ UNCHANGED <<storeVars, deletes, cur>>
    BY <1>3 DEF FullRead, Tick, pubVars, envVars
  <2>2. CASE Observe(doc)
    BY <2>1, <2>2 DEF Shown
  <2>3. CASE UNCHANGED <<lastVersion, live, ready>>
    BY <2>1, <2>3 DEF Streamed, storeVars
  <2> QED
    BY <2>1, <2>2, <2>3 DEF ReadOnce
<1>4. CASE Deliver
  BY <1>4 DEF Deliver, Shown, pubVars, envVars
<1>5. CASE Restart
  BY <1>5 DEF Restart, Restarted, pubVars
<1>6. CASE Tamper
  <2>1. UNCHANGED <<watchVars, deletes, cur>>
    BY <1>6 DEF Tamper, pubVars
  <2>2. \E f \in Config!Filters \cup {Malformed}, x \in BOOLEAN : Store(f, x)
    <3>1. CASE StoreFilter(Malformed)
      BY <3>1 DEF StoreFilter, Config!Foreign
    <3>2. CASE doc # NoDoc /\ Store(doc.filter, TRUE)
      <4>1. doc.filter \in Config!Filters \cup {Malformed}
        BY <3>2, DocumentFacts DEF TypeInv, TypeOK
      <4> QED
        BY <3>2, <4>1
    <3> QED
      BY <1>6, <3>1, <3>2 DEF Tamper
  <2> QED
    BY <2>1, <2>2 DEF Written
<1>7. CASE Delete
  BY <1>7 DEF Delete, Deleted, pubVars
<1> QED
  BY <1>1, <1>2, <1>3, <1>4, <1>5, <1>6, <1>7, PublisherEffects DEF Next, WatcherStep

-----------------------------------------------------------------------------
(* Every document that a publisher, the pump or the stream holds was stored; *)
(* the live filter is one that compiles and no newer than the version guard; *)
(* and until a document is deleted the versions order the stored documents,  *)
(* with the central one last.                                                *)
Known ==
  /\ doc \in published \cup {NoDoc}
  /\ hand \in published \cup {NoDoc}
  /\ \A p \in Publisher : cur[p] \in published \cup {NoDoc}
  /\ events \in Seq(published \cup {NoDoc, Lookup})

LiveInv ==
  /\ live = Config!Baseline \/ (live \in published /\ Config!Compiles(live))
  /\ live.version <= lastVersion
  /\ ready => live # Config!Baseline

VersionsInv ==
  deletes = 0 =>
    \A d \in published : /\ d.version <= Config!Version(doc)
                         /\ d.version = Config!Version(doc) => d = doc

IInv == TypeInv /\ Known /\ LiveInv /\ VersionsInv

LEMMA SeqWider ==
  ASSUME NEW S, NEW T, S \subseteq T, NEW s \in Seq(S)
  PROVE  s \in Seq(T)
<1>1. Len(s) \in Nat /\ s = [i \in 1 .. Len(s) |-> s[i]] /\ \A i \in 1 .. Len(s) : s[i] \in T
  OBVIOUS
<1> QED
  BY <1>1

LEMMA InitIInv == Init => IInv
<1> SUFFICES ASSUME Init
             PROVE  IInv
  OBVIOUS
<1>1. TypeInv
  BY TypeInit
<1>2. doc \in published \cup {NoDoc} /\ published = {doc} \ {NoDoc}
  BY DEF Init
<1>3. Known
  BY <1>2 DEF Init, Known
<1>4. LiveInv
  <2>1. Config!Baseline.version = 0
    BY DocumentFacts
  <2> QED
    BY <2>1 DEF Init, LiveInv
<1>5. VersionsInv
  <2>1. \A d \in published : d = doc /\ d.version \in Nat /\ d.version = Config!Version(doc)
    BY <1>1, <1>2, DocumentFacts DEF TypeInv, TypeOK
  <2> QED
    BY <2>1 DEF VersionsInv
<1> QED
  BY <1>1, <1>3, <1>4, <1>5 DEF IInv

LEMMA KnownStep ==
  ASSUME IInv, Written \/ Deleted \/ Fetched \/ Shown \/ Streamed \/ Restarted
  PROVE  Known'
<1>1. /\ doc \in published \cup {NoDoc} /\ hand \in published \cup {NoDoc}
      /\ \A p \in Publisher : cur[p] \in published \cup {NoDoc}
      /\ events \in Seq(published \cup {NoDoc, Lookup})
      /\ published \subseteq Documents
  BY DEF IInv, Known, TypeInv, TypeOK
<1>2. CASE Written
  <2>1. PICK f \in Config!Filters \cup {Malformed} : \E x \in BOOLEAN : Store(f, x)
    BY <1>2 DEF Written
  <2>2. PICK x \in BOOLEAN : Store(f, x)
    BY <2>1
  <2>3. /\ published' = published \cup {doc'}
        /\ \/ events' = events
           \/ events' = Append(events, Lookup)
           \/ events' = Append(events, doc')
    BY <2>2, StoreFacts DEF IInv
  <2>4. events \in Seq(published' \cup {NoDoc, Lookup})
    BY <1>1, <2>3, SeqWider
  <2>5. events' \in Seq(published' \cup {NoDoc, Lookup})
    BY <2>3, <2>4, AppendFacts
  <2>6. hand' = hand /\ cur' = cur
    BY <1>2 DEF Written, watchVars
  <2> QED
    BY <1>1, <2>3, <2>5, <2>6 DEF Known
<1>3. CASE Deleted
  <2>1. events' \in Seq(published \cup {NoDoc, Lookup})
    BY <1>1, <1>3, AppendFacts DEF Deleted, Emit
  <2> QED
    BY <1>1, <1>3, <2>1 DEF Deleted, Known, watchVars
<1>4. CASE Fetched
  BY <1>1, <1>4 DEF Fetched, Known, storeVars, watchVars
<1>5. CASE Shown
  BY <1>1, <1>5 DEF Shown, Known, storeVars
<1>6. CASE Streamed
  <2>1. events # <<>> => /\ Head(events) \in published \cup {NoDoc, Lookup}
                         /\ Tail(events) \in Seq(published \cup {NoDoc, Lookup})
    BY <1>1, TailFacts
  <2>2. events' \in Seq(published \cup {NoDoc, Lookup})
    <3>1. <<>> \in Seq(published \cup {NoDoc, Lookup})
      OBVIOUS
    <3>2. \/ events' = events \/ events' = <<>>
          \/ events # <<>> /\ events' = Tail(events)
      BY <1>6 DEF Streamed
    <3> QED
      BY <1>1, <2>1, <3>1, <3>2
  <2>3. hand' \in published \cup {NoDoc}
    BY <1>1, <1>6, <2>1 DEF Streamed
  <2> QED
    BY <1>1, <1>6, <2>2, <2>3 DEF Streamed, Known
<1>7. CASE Restarted
  BY <1>1, <1>7 DEF Restarted, Known
<1> QED
  BY <1>2, <1>3, <1>4, <1>5, <1>6, <1>7

(* What the watcher is shown goes live only if it is newer and compiles. *)
LEMMA ObserveFacts ==
  ASSUME IInv, NEW d \in published \cup {NoDoc}, Observe(d)
  PROVE  /\ \/ live' = live
            \/ live' = d /\ d \in published /\ Config!Compiles(d) /\ live.version < d.version
         /\ lastVersion <= lastVersion' /\ live'.version <= lastVersion'
         /\ ready' => ready \/ (live' = d /\ d \in published)
<1>1. /\ live.version <= lastVersion /\ lastVersion \in Nat /\ live.version \in Nat
      /\ published \subseteq Documents
  <2>1. live \in Documents \cup {Config!Baseline}
    BY DEF IInv, TypeInv, TypeOK
  <2>2. live.version \in Nat
    BY <2>1, DocumentFacts
  <2> QED
    BY <2>2 DEF IInv, LiveInv, TypeInv, TypeOK
<1>2. CASE Newer(d)
  <2>1. d \in published /\ d.version \in Nat /\ d.version > lastVersion
    BY <1>1, <1>2, DocumentFacts DEF Newer
  <2>2. lastVersion' = d.version /\ Apply(d)
    BY <1>2 DEF Observe
  <2>3. CASE Config!Compiles(d)
    <3>1. live' = d
      BY <2>2, <2>3 DEF Apply
    <3>2. live.version < d.version /\ lastVersion <= d.version /\ d.version <= d.version
      BY <1>1, <2>1
    <3> QED
      BY <2>1, <2>2, <2>3, <3>1, <3>2
  <2>4. CASE ~Config!Compiles(d)
    <3>1. live' = live /\ (ready' => ready)
      BY <2>2, <2>4 DEF Apply, Config!Valid
    <3>2. lastVersion <= d.version /\ live.version <= d.version
      BY <1>1, <2>1
    <3> QED
      BY <2>2, <3>1, <3>2
  <2> QED
    BY <2>3, <2>4
<1>3. CASE ~Newer(d)
  BY <1>1, <1>3 DEF Observe
<1> QED
  BY <1>2, <1>3

LEMMA LiveStep ==
  ASSUME IInv, Written \/ Deleted \/ Fetched \/ Shown \/ Streamed \/ Restarted
  PROVE  LiveInv'
<1>1. CASE Written
  <2>1. published \subseteq published'
    BY <1>1 DEF Written, Store
  <2> QED
    BY <1>1, <2>1 DEF Written, watchVars, IInv, LiveInv, Config!Compiles, Config!Baseline
<1>2. CASE Deleted \/ Fetched \/ Streamed
  <2>1. UNCHANGED <<published, live, lastVersion, ready>>
    BY <1>2 DEF Deleted, Fetched, Streamed, storeVars, watchVars
  <2> QED
    BY <2>1 DEF IInv, LiveInv, Config!Compiles, Config!Baseline
<1>3. CASE Shown
  <2>1. PICK d \in published \cup {NoDoc} : Observe(d)
    BY <1>3 DEF Shown, IInv, Known
  <2>2. published' = published
    BY <1>3 DEF Shown, storeVars
  <2>3. /\ \/ live' = live
           \/ live' = d /\ d \in published /\ Config!Compiles(d)
        /\ live'.version <= lastVersion'
        /\ ready' => ready \/ (live' = d /\ d \in published)
    BY <2>1, ObserveFacts
  <2>4. d \in published => d # Config!Baseline
    BY DocumentFacts DEF IInv, TypeInv, TypeOK
  <2>5. live' = Config!Baseline \/ (live' \in published /\ Config!Compiles(live'))
    BY <2>3 DEF IInv, LiveInv
  <2>6. ready' => live' # Config!Baseline
    BY <2>3, <2>4 DEF IInv, LiveInv
  <2> QED
    BY <2>2, <2>3, <2>5, <2>6 DEF LiveInv, Config!Compiles, Config!Baseline
<1>4. CASE Restarted
  <2>1. live' = Config!Baseline /\ lastVersion' = 0 /\ ready' = FALSE
    BY <1>4 DEF Restarted
  <2>2. Config!Baseline.version = 0
    BY DocumentFacts
  <2>3. live'.version <= lastVersion'
    BY <2>1, <2>2
  <2> QED
    BY <2>1, <2>3 DEF LiveInv
<1> QED
  BY <1>1, <1>2, <1>3, <1>4

LEMMA VersionsStep ==
  ASSUME IInv, Written \/ Deleted \/ Fetched \/ Shown \/ Streamed \/ Restarted
  PROVE  VersionsInv'
<1>1. CASE Written
  <2>1. PICK f \in Config!Filters \cup {Malformed} : \E x \in BOOLEAN : Store(f, x)
    BY <1>1 DEF Written
  <2>2. PICK x \in BOOLEAN : Store(f, x)
    BY <2>1
  <2>3. /\ doc' \in Documents /\ doc'.version = Config!Version(doc) + 1
        /\ published' = published \cup {doc'}
    BY <2>2, StoreFacts DEF IInv
  <2>4. Config!Version(doc)' = doc'.version
    BY <2>3, DocumentFacts DEF Config!Version
  <2>5. Config!Version(doc) \in Nat
    BY DocumentFacts DEF IInv, TypeInv, TypeOK
  <2>6. deletes = 0 => \A d \in published : /\ d.version \in Nat
                                            /\ d.version <= Config!Version(doc)
    BY DocumentFacts DEF IInv, VersionsInv, TypeInv, TypeOK
  <2>7. deletes' = deletes
    BY <1>1 DEF Written
  <2>8. deletes = 0 => \A d \in published' : /\ d.version <= doc'.version
                                             /\ d.version = doc'.version => d = doc'
    BY <2>3, <2>5, <2>6
  <2> QED
    BY <2>4, <2>7, <2>8 DEF VersionsInv
<1>2. CASE Deleted
  BY <1>2 DEF Deleted, VersionsInv, IInv, TypeInv
<1>3. CASE Fetched \/ Shown \/ Streamed \/ Restarted
  <2>1. UNCHANGED <<doc, published, deletes>>
    BY <1>3 DEF Fetched, Shown, Streamed, Restarted, storeVars
  <2> QED
    BY <2>1 DEF IInv, VersionsInv, Config!Version
<1> QED
  BY <1>1, <1>2, <1>3

LEMMA NextIInv == IInv /\ [Next]_vars => IInv'
<1>1. ASSUME IInv, Next
      PROVE  IInv'
  <2>1. TypeInv'
    BY <1>1, TypeStep DEF IInv
  <2>2. Written \/ Deleted \/ Fetched \/ Shown \/ Streamed \/ Restarted
    BY <1>1, Effects DEF IInv
  <2> QED
    BY <1>1, <2>1, <2>2, KnownStep, LiveStep, VersionsStep DEF IInv
<1>2. ASSUME IInv, UNCHANGED vars
      PROVE  IInv'
  <2>1. TypeInv'
    BY <1>2, TypeStep DEF IInv
  <2>2. UNCHANGED <<doc, published, events, hand, cur, live, lastVersion, ready, deletes>>
    BY <1>2 DEF vars, storeVars, watchVars, pubVars, envVars
  <2>3. Known'
    BY <1>2, <2>2 DEF IInv, Known
  <2>4. LiveInv'
    BY <1>2, <2>2 DEF IInv, LiveInv, Config!Compiles, Config!Baseline
  <2>5. VersionsInv'
    BY <1>2, <2>2 DEF IInv, VersionsInv, Config!Version
  <2> QED
    BY <2>1, <2>3, <2>4, <2>5 DEF IInv
<1> QED
  BY <1>1, <1>2

LEMMA Invariance == Spec => []IInv
  BY InitIInv, NextIInv, PTL DEF Spec

(* Ready is announced only when a document that was stored and compiles is   *)
(* live, whatever was read, streamed, replayed or lost before.               *)
THEOREM ReadyIsApplied == Spec => []ReadyMeansApplied
<1>1. IInv => ReadyMeansApplied
  BY DEF IInv, LiveInv, ReadyMeansApplied
<1> QED
  BY <1>1, Invariance, PTL

-----------------------------------------------------------------------------
(* The reply of an append. *)

AppendInv == IInv /\ AppendReported

(* What is stored, and with which rules, by an append that is written. *)
LEMMA AppendedDocument ==
  ASSUME IInv, NEW p \in Publisher, AppendWrite(p)
  PROVE  /\ doc' \in published' /\ Config!Compiles(doc')
         /\ doc'.version = Config!Version(cur[p]) + 1
         /\ doc'.filter = Config!Merged(doc'.filter, delta[p])
         /\ doc'.filter = (IF cur[p] = NoDoc THEN delta[p]
                                             ELSE Config!Merged(cur[p].filter, delta[p]))
         /\ doc'.foreign = Config!Foreign(doc)
         /\ deletes = 0 => doc = cur[p] /\ ~Config!Foreign(doc)
<1> DEFINE f == IF cur[p] = NoDoc THEN delta[p] ELSE Config!Merged(cur[p].filter, delta[p])
<1>1. /\ Store(f, Config!Foreign(doc)) /\ pc[p] = "write"
      /\ Config!Version(doc) = Config!Version(cur[p])
  BY DEF AppendWrite, StoreFilter, Unmoved
<1>2. f \in Config!Filters /\ Config!Foreign(doc) \in BOOLEAN /\ delta[p] \in Config!Filters
  BY <1>1, WrittenIsFilter DEF IInv
<1>3. /\ doc' \in published' /\ doc' \in Documents
      /\ doc'.version = Config!Version(cur[p]) + 1
      /\ doc'.filter = f /\ doc'.foreign = Config!Foreign(doc)
  BY <1>1, <1>2, StoreFacts DEF IInv
<1>4. cur[p] \in published \cup {NoDoc} /\ Config!Mergeable(cur[p]) /\ published \subseteq Documents
  BY <1>1 DEF IInv, Known, TypeInv, TypeOK, CallOK
<1>5. Config!Merged(f, delta[p]) = f
  <2>1. CASE cur[p] = NoDoc
    BY <1>2, <2>1, MergedFacts
  <2>2. CASE cur[p] # NoDoc
    <3>1. cur[p].filter \in Config!Filters
      BY <1>4, <2>2, DocumentFacts DEF Config!Mergeable, Config!Valid
    <3> QED
      BY <1>2, <2>2, <3>1, MergedFacts
  <2> QED
    BY <2>1, <2>2
<1>6. Config!Compiles(doc')
  <2>1. f # Malformed
    BY <1>2, FiltersAssumption
  <2> QED
    BY <1>3, <2>1, DocumentFacts DEF Config!Compiles
<1>7. ASSUME deletes = 0
      PROVE  doc = cur[p]
  <2>1. CASE cur[p] = NoDoc
    <3>1. Config!Version(doc) = 0
      BY <1>1, <2>1, DocumentFacts
    <3>2. doc \in Documents \cup {NoDoc}
      BY DEF IInv, TypeInv, TypeOK
    <3>3. \A d \in Documents : Config!Version(d) # 0
      BY DocumentFacts
    <3> QED
      BY <2>1, <3>1, <3>2, <3>3
  <2>2. CASE cur[p] # NoDoc
    <3>1. cur[p] \in published /\ cur[p].version = Config!Version(doc)
      BY <1>1, <1>4, <2>2, DocumentFacts
    <3> QED
      BY <1>7, <3>1 DEF IInv, VersionsInv
  <2> QED
    BY <2>1, <2>2
<1>8. Config!Mergeable(cur[p]) => ~Config!Foreign(cur[p])
  BY DEF Config!Mergeable, Config!Valid, Config!Foreign
<1> QED
  BY <1>3, <1>4, <1>5, <1>6, <1>7, <1>8

(* A reply stays true while documents are only added. *)
LEMMA ReplyKept ==
  ASSUME AppendInv, NEW p \in Publisher, published \subseteq published',
         deletes' > 0 \/ deletes' = deletes,
         pc'[p] = pc[p], reply'[p] = reply[p], delta'[p] = delta[p]
  PROVE  pc'[p] = "idle" /\ reply'[p][1] = "append" /\ reply'[p][2] # 0 =>
           \E d \in published' :
             /\ d.version = reply'[p][2]
             /\ Config!Compiles(d)
             /\ Config!Foreign(d) => deletes' > 0
             /\ d.filter = Config!Merged(d.filter, delta'[p])
<1> SUFFICES ASSUME pc'[p] = "idle", reply'[p][1] = "append", reply'[p][2] # 0
             PROVE  \E d \in published' :
                      /\ d.version = reply'[p][2]
                      /\ Config!Compiles(d)
                      /\ Config!Foreign(d) => deletes' > 0
                      /\ d.filter = Config!Merged(d.filter, delta'[p])
  OBVIOUS
<1>1. PICK d \in published : /\ d.version = reply[p][2]
                             /\ Config!Compiles(d)
                             /\ Config!Foreign(d) => deletes > 0
                             /\ d.filter = Config!Merged(d.filter, delta[p])
  BY DEF AppendInv, AppendReported
<1> QED
  BY <1>1

LEMMA Growth ==
  ASSUME IInv, [Next]_vars
  PROVE  published \subseteq published' /\ (deletes' > 0 \/ deletes' = deletes)
<1>1. CASE Next
  <2>1. Written \/ Deleted \/ Fetched \/ Shown \/ Streamed \/ Restarted
    BY <1>1, Effects DEF IInv
  <2>2. CASE Written
    BY <2>2 DEF Written, Store
  <2>3. CASE Deleted
    BY <2>3 DEF Deleted, IInv, TypeInv
  <2>4. CASE Fetched \/ Shown \/ Streamed \/ Restarted
    BY <2>4 DEF Fetched, Shown, Streamed, Restarted, storeVars
  <2> QED
    BY <2>1, <2>2, <2>3, <2>4
<1>2. CASE UNCHANGED vars
  BY <1>2 DEF vars, storeVars, envVars
<1> QED
  BY <1>1, <1>2

LEMMA AppendStep ==
  ASSUME AppendInv, [Next]_vars
  PROVE  AppendReported'
<1> DEFINE Reported(q) ==
             pc'[q] = "idle" /\ reply'[q][1] = "append" /\ reply'[q][2] # 0 =>
               \E d \in published' :
                 /\ d.version = reply'[q][2]
                 /\ Config!Compiles(d)
                 /\ Config!Foreign(d) => deletes' > 0
                 /\ d.filter = Config!Merged(d.filter, delta'[q])
<1>1. published \subseteq published' /\ (deletes' > 0 \/ deletes' = deletes)
  BY Growth DEF AppendInv
<1>2. ASSUME NEW q \in Publisher,
             pc'[q] = pc[q], reply'[q] = reply[q], delta'[q] = delta[q]
      PROVE  Reported(q)
  BY <1>1, <1>2, ReplyKept
<1>3. /\ pc \in [Publisher -> {"idle", "set", "readBack", "fetch", "write"}]
      /\ reply \in [Publisher -> {"set", "append"} \X Nat]
      /\ delta \in [Publisher -> Config!Filters]
      /\ TypeInv /\ IInv
  BY DEF AppendInv, IInv, TypeInv, TypeOK
<1>4. ASSUME UNCHANGED pubVars
      PROVE  \A q \in Publisher : Reported(q)
  BY <1>2, <1>4 DEF pubVars
<1>5. ASSUME NEW p \in Publisher,
             \/ \E mode \in {"set", "append"}, f \in setup.deltas : Publish(p, mode, f)
             \/ PublisherStep(p)
             \/ PublishFails(p)
      PROVE  \A q \in Publisher : Reported(q)
  <2>1. \/ \E mode \in {"set", "append"}, v \in Nat : Return(p, mode, v)
        \/ \E next \in {"set", "readBack", "fetch", "write"} : Goto(p, next)
    <3>1. Config!Version(doc) \in Nat /\ Config!Version(cur[p]) + 1 \in Nat
      <4>1. doc \in Documents \cup {NoDoc} /\ cur[p] \in Documents \cup {NoDoc}
        BY <1>3 DEF TypeInv, TypeOK
      <4>2. Config!Version(doc) \in Nat /\ Config!Version(cur[p]) \in Nat
        BY <4>1, DocumentFacts
      <4> QED
        BY <4>2
    <3>2. ASSUME NEW mode \in {"set", "append"}, NEW f \in setup.deltas, Publish(p, mode, f)
          PROVE  \E next \in {"set", "readBack", "fetch", "write"} : Goto(p, next)
      BY <3>2 DEF Publish
    <3>3. CASE SetWrite(p) \/ SetReadBack(p)
      BY <3>1, <3>3 DEF SetWrite, SetReadBack
    <3>4. CASE AppendFetch(p)
      BY <3>4 DEF AppendFetch
    <3>5. CASE AppendWrite(p)
      BY <3>1, <3>5 DEF AppendWrite
    <3>6. CASE AppendMiss(p)
      BY <3>6 DEF AppendMiss, Retry
    <3>7. CASE PublishFails(p)
      BY <3>7 DEF PublishFails
    <3> QED
      BY <1>5, <3>2, <3>3, <3>4, <3>5, <3>6, <3>7 DEF PublisherStep
  <2>2. \A q \in Publisher \ {p} : pc'[q] = pc[q] /\ reply'[q] = reply[q]
    BY <1>3, <2>1 DEF Return, Goto
  <2>3. \A q \in Publisher \ {p} : delta'[q] = delta[q]
    BY <1>3, <1>5 DEF Publish, PublisherStep, SetWrite, SetReadBack, AppendFetch, AppendWrite,
                      AppendMiss, PublishFails
  <2>4. \A q \in Publisher \ {p} : Reported(q)
    BY <1>2, <2>2, <2>3
  <2>5. Reported(p)
    <3>1. CASE \E next \in {"set", "readBack", "fetch", "write"} : Goto(p, next)
      BY <1>3, <3>1 DEF Goto
    <3>2. CASE \E mode \in {"set", "append"}, v \in Nat : Return(p, mode, v) /\ (mode = "set" \/ v = 0)
      BY <1>3, <3>2 DEF Return
    <3>3. CASE AppendWrite(p) /\ Return(p, "append", Config!Version(cur[p]) + 1)
      <4>1. reply'[p] = <<"append", Config!Version(cur[p]) + 1>>
        BY <1>3, <3>3 DEF Return
      <4>2. /\ doc' \in published' /\ Config!Compiles(doc')
            /\ doc'.version = Config!Version(cur[p]) + 1
            /\ doc'.filter = Config!Merged(doc'.filter, delta[p])
            /\ doc'.foreign = Config!Foreign(doc)
            /\ deletes = 0 => ~Config!Foreign(doc)
        BY <1>3, <3>3, AppendedDocument
      <4>3. delta' = delta /\ deletes' = deletes
        BY <3>3 DEF AppendWrite, envVars
      <4>4. Config!Foreign(doc') => deletes' > 0
        <5>1. Config!Foreign(doc') => Config!Foreign(doc)
          BY <4>2 DEF Config!Foreign
        <5>2. deletes \in Nat /\ (Config!Foreign(doc) => deletes # 0)
          BY <1>3, <4>2 DEF TypeInv
        <5> QED
          BY <4>3, <5>1, <5>2
      <4> QED
        BY <4>1, <4>2, <4>3, <4>4
    <3>4. CASE \E mode \in {"set", "append"}, f \in setup.deltas : Publish(p, mode, f)
      BY <3>1, <3>4 DEF Publish
    <3>5. CASE SetWrite(p) \/ SetReadBack(p)
      <4>1. Config!Version(doc) \in Nat
        BY <1>3, DocumentFacts DEF TypeInv, TypeOK
      <4> QED
        BY <3>1, <3>2, <3>5, <4>1 DEF SetWrite, SetReadBack
    <3>6. CASE AppendFetch(p)
      BY <3>1, <3>2, <3>6 DEF AppendFetch
    <3>7. CASE AppendMiss(p)
      BY <3>1, <3>2, <3>7 DEF AppendMiss, Retry
    <3>8. CASE PublishFails(p)
      BY <3>2, <3>8 DEF PublishFails
    <3>9. CASE AppendWrite(p) /\ Return(p, "append", 0)
      BY <3>2, <3>9
    <3> QED
      BY <1>5, <3>3, <3>4, <3>5, <3>6, <3>7, <3>8, <3>9 DEF PublisherStep, AppendWrite
  <2> QED
    BY <2>4, <2>5
<1>6. CASE WatcherStep \/ Tick \/ PumpNext \/ PumpFails \/ EventLost \/ Restart \/ Tamper \/ Delete
  <2>1. UNCHANGED pubVars
    BY <1>6 DEF WatcherStep, Subscribe, FullRead, Deliver, StreamBroke, Resubscribe, Tick,
                PumpNext, PumpFails, EventLost, Restart, Tamper, Delete
  <2> QED
    BY <1>4, <2>1 DEF AppendReported
<1>7. CASE UNCHANGED vars
  BY <1>4, <1>7 DEF vars, AppendReported
<1> QED
  BY <1>5, <1>6, <1>7 DEF Next, AppendReported

(* What an append reports is true: a version it returns is one that was      *)
(* stored, that compiles, and that holds the rules it was called with, also  *)
(* when other publishers raced it and attempts were repeated.                *)
THEOREM AppendTruthful == Spec => []AppendReported
<1>1. Init => AppendReported
  BY DEF Init, AppendReported
<1>2. IInv /\ AppendReported /\ [Next]_vars => AppendReported'
  BY AppendStep DEF AppendInv
<1> QED
  BY <1>1, <1>2, Invariance, PTL DEF Spec

-----------------------------------------------------------------------------
(* The watcher and the publishers implement ConfigStore. *)

(* Every step maps to a step of ConfigStore or changes nothing of it. *)
LEMMA ConfigStep ==
  ASSUME IInv, [Next]_vars, ~(deletes' > 0)
  PROVE  [Config!Next]_<<doc, published, live>>
<1>1. deletes' = deletes /\ deletes = 0 /\ deletes' \in Nat
  <2>1. deletes' \in Nat /\ deletes \in Nat
    BY NextIInv DEF IInv, TypeInv
  <2>2. deletes' = deletes
    BY Growth
  <2> QED
    BY <2>1, <2>2
<1>2. /\ doc \in published \cup {NoDoc} /\ hand \in published \cup {NoDoc}
      /\ TypeInv /\ doc \in Documents \cup {NoDoc}
  BY DEF IInv, Known, TypeInv, TypeOK
<1>3. ASSUME UNCHANGED <<doc, published, live>>
      PROVE  [Config!Next]_<<doc, published, live>>
  BY <1>3
<1>4. ASSUME NEW d \in published \cup {NoDoc}, Observe(d), UNCHANGED <<doc, published>>
      PROVE  [Config!Next]_<<doc, published, live>>
  <2>1. \/ live' = live
        \/ live' = d /\ d \in published /\ Config!Compiles(d) /\ live.version < d.version
    BY <1>4, ObserveFacts
  <2>2. CASE live' = live
    BY <1>3, <1>4, <2>2
  <2>3. CASE live' = d /\ d \in published /\ Config!Compiles(d) /\ live.version < d.version
    <3>1. live'.version > live.version
      <4>1. live.version \in Nat /\ d.version \in Nat
        BY <2>3, DocumentFacts DEF IInv, TypeInv, TypeOK
      <4> QED
        BY <2>3, <4>1
    <3>2. Config!Refresh
      BY <1>4, <2>3, <3>1 DEF Config!Refresh
    <3> QED
      BY <3>2 DEF Config!Next
  <2> QED
    BY <2>1, <2>2, <2>3
<1>5. ASSUME NEW f, NEW x, Store(f, x), live' = live
      PROVE  Config!Store(f, x)
  BY <1>5 DEF Store, Config!Store
<1>6. ASSUME NEW p \in Publisher, SetWrite(p)
      PROVE  Config!Next
  <2>1. Store(delta[p], Config!Foreign(doc)) /\ live' = live /\ pc[p] = "set"
    BY <1>6 DEF SetWrite, StoreFilter, watchVars
  <2>2. Config!Store(delta[p], Config!Foreign(doc))
    BY <1>5, <2>1
  <2>3. delta[p] \in Deltas
    BY <1>2, <2>1 DEF TypeInv, CallOK
  <2> QED
    BY <2>2, <2>3 DEF Config!Set, Config!Next
<1>7. ASSUME NEW p \in Publisher, AppendWrite(p)
      PROVE  Config!Next
  <2>1. doc = cur[p] /\ ~Config!Foreign(doc)
    BY <1>1, <1>7, AppendedDocument
  <2>2. pc[p] = "write" /\ live' = live
    BY <1>7 DEF AppendWrite, watchVars
  <2>3. delta[p] \in Deltas /\ Config!Mergeable(cur[p])
    BY <1>2, <2>2 DEF TypeInv, CallOK
  <2>4. Store(IF cur[p] = NoDoc THEN delta[p] ELSE Config!Merged(cur[p].filter, delta[p]),
              Config!Foreign(doc))
    BY <1>7 DEF AppendWrite, StoreFilter
  <2>5. CASE doc = NoDoc
    <3>1. Store(delta[p], Config!Foreign(doc))
      BY <2>1, <2>4, <2>5
    <3>2. Config!Store(delta[p], Config!Foreign(doc))
      BY <1>5, <2>2, <3>1
    <3> QED
      BY <2>3, <3>2 DEF Config!Set, Config!Next
  <2>6. CASE doc # NoDoc
    <3>1. Config!Foreign(doc) = FALSE
      BY <2>1 DEF Config!Foreign
    <3>2. Store(Config!Merged(doc.filter, delta[p]), FALSE)
      BY <2>1, <2>4, <2>6, <3>1
    <3>3. Config!Store(Config!Merged(doc.filter, delta[p]), FALSE)
      BY <1>5, <2>2, <3>2
    <3> QED
      BY <2>1, <2>3, <2>6, <3>3 DEF Config!Append, Config!Next
  <2> QED
    BY <2>5, <2>6
<1>8. ASSUME NEW p \in Publisher,
             \/ \E mode \in {"set", "append"}, f \in setup.deltas : Publish(p, mode, f)
             \/ SetReadBack(p) \/ AppendFetch(p) \/ AppendMiss(p) \/ PublishFails(p)
      PROVE  [Config!Next]_<<doc, published, live>>
  <2>1. UNCHANGED <<doc, published, live>>
    BY <1>8 DEF Publish, SetReadBack, AppendFetch, AppendMiss, PublishFails, storeVars, watchVars
  <2> QED
    BY <1>3, <2>1
<1>9. CASE FullRead \/ Tick
  <2>1. ReadOnce /\ UNCHANGED <<doc, published>>
    BY <1>9 DEF FullRead, Tick, storeVars
  <2> QED
    BY <1>2, <1>3, <1>4, <2>1 DEF ReadOnce
<1>10. CASE Deliver
  BY <1>2, <1>4, <1>10 DEF Deliver, storeVars
<1>11. CASE Subscribe \/ StreamBroke \/ Resubscribe \/ PumpNext \/ PumpFails \/ EventLost
  <2>1. UNCHANGED <<doc, published, live>>
    BY <1>11 DEF Subscribe, StreamBroke, Resubscribe, PumpNext, PumpFails, EventLost,
                 storeVars, watchVars
  <2> QED
    BY <1>3, <2>1
<1>12. CASE Restart
  BY <1>12 DEF Restart, Config!Restart, Config!Next
<1>13. CASE Tamper
  <2>1. live' = live
    BY <1>13 DEF Tamper, watchVars
  <2>2. CASE StoreFilter(Malformed)
    <3>1. Config!Store(Malformed, Config!Foreign(doc))
      BY <1>5, <2>1, <2>2 DEF StoreFilter
    <3> QED
      BY <3>1 DEF Config!Tamper, Config!Next
  <2>3. CASE doc # NoDoc /\ Store(doc.filter, TRUE)
    <3>1. Config!Store(doc.filter, TRUE)
      BY <1>5, <2>1, <2>3
    <3> QED
      BY <2>3, <3>1 DEF Config!Tamper, Config!Next
  <2> QED
    BY <1>13, <2>2, <2>3 DEF Tamper
<1>14. ~Delete
  BY <1>1 DEF Delete
<1>15. CASE UNCHANGED vars
  BY <1>3, <1>15 DEF vars, storeVars, watchVars
<1> QED
  BY <1>6, <1>7, <1>8, <1>9, <1>10, <1>11, <1>12, <1>13, <1>14, <1>15
     DEF Next, PublisherStep, WatcherStep

(* Whatever publishers, watcher, stream and failures do, the documents and   *)
(* the live filter behave as ConfigStore promises: atomic writes one version *)
(* apart, no lost append, no rollback, until a document is deleted.          *)
THEOREM KeepsConfigPromise == Spec => ImplementsConfigStore
<1>1. Init => Config!Init
  <2>1. ASSUME Init
        PROVE  Config!Init
    <3>1. setup.seeds \subseteq Seeds
      <4>1. setup \in Setups
        BY <2>1 DEF Init
      <4> QED
        BY <4>1 DEF Seeds
    <3>2. doc \in {NoDoc} \cup {Config!Document(1, f, FALSE) : f \in setup.seeds}
      BY <2>1 DEF Init
    <3>3. doc \in {NoDoc} \cup {Config!Document(1, f, FALSE) : f \in Seeds}
      BY <3>1, <3>2
    <3> QED
      BY <2>1, <3>3 DEF Init, Config!Init
  <2> QED
    BY <2>1
<1>2. IInv /\ [Next]_vars => [deletes' > 0 \/ Config!Next]_<<doc, published, live>>
  BY ConfigStep
<1> QED
  BY <1>1, <1>2, Invariance, PTL DEF Spec, ImplementsConfigStore
=============================================================================
