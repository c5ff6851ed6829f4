------------------------------- MODULE CfgSync -------------------------------
(***************************************************************************)
(* Runtime configuration (internal/cfgsync): publishers write the central   *)
(* filter document, in set mode (one update) or append mode (read, merge,   *)
(* conditional write, retry); the Watcher of a long-running process follows *)
(* it by polling or by a change stream with a periodic full read, through   *)
(* the version guard, into the live filter.  Every database call is a step. *)
(* The update events carry the document as it is when the event is read     *)
(* (updateLookup), so an event may deliver a later version or a replay.     *)
(***************************************************************************)
EXTENDS Integers, Sequences

CONSTANTS
  Publisher,    (* concurrent calls of PublishWithMode                       *)
  Rules, Malformed, NoDoc, (* as in ConfigStore                              *)
  Lookup,       (* an update event, whose document is yet to be looked up    *)
  Attempts,     (* publishAppendAttempts                                     *)
  Setups        (* the configurations to start in: cfg.Backend; who calls;   *)
                (* the filters that are published, and that may be stored at *)
                (* the start; bounds on the publish calls, on the writes and *)
                (* the deletions past cfgsync, on the restarts of the        *)
                (* watching process and on the faults (failing calls, lost   *)
                (* replies, lost events, broken streams)                     *)

ASSUME SetupsAssumption ==
  /\ Attempts \in Nat \ {0}
  /\ \A s \in Setups :
       /\ s.backend \in {"poll", "changestream"}
       /\ s.publishers \subseteq Publisher
       /\ {s.calls, s.tampers, s.deletes, s.restarts, s.faults} \subseteq Nat

Deltas == UNION {s.deltas : s \in Setups}
Seeds  == UNION {s.seeds : s \in Setups}

VARIABLES
  setup,       (* the configuration, fixed at the start                      *)
  doc,         (* the central document                                       *)
  published,   (* every document that was ever stored (history)              *)
  live,        (* the document whose filter the process runs on              *)
  lastVersion, (* Watcher.lastVersion                                        *)
  ready,       (* Watcher.ready is closed                                    *)
  run,         (* the backend's Run: "start", "read", "loop", "resubscribe", *)
               (* or "failed" when the first subscription was refused        *)
  pump,        (* the stream's pump: "next", "hand", "ended" or "dead"       *)
  hand,        (* the document it is handing to Run                          *)
  events,      (* events of the open stream it has not read                  *)
  pc,          (* per publisher: "idle", "set", "readBack", "fetch", "write" *)
  delta,       (* the filter it publishes                                    *)
  cur,         (* the document it fetched                                    *)
  attempt,     (* its failed attempts                                        *)
  reply,       (* the last <<mode, version>> it returned, version 0: error   *)
  calls, tampers, deletes, restarts, faults (* counts, for the bounds        *)

storeVars == <<doc, published, events>>
watchVars == <<live, lastVersion, ready, run, pump, hand>>
pubVars   == <<pc, delta, cur, attempt, reply, calls>>
envVars   == <<tampers, deletes, restarts>>
vars      == <<setup, storeVars, watchVars, pubVars, envVars, faults>>

Config == INSTANCE ConfigStore

Documents ==
  [version: Nat \ {0}, filter: Config!Filters \cup {Malformed}, foreign: BOOLEAN]

(* What is published compiles; the markers are none of the values they mark  *)
(* the absence of.                                                           *)
ASSUME FiltersAssumption ==
  /\ Deltas \subseteq Config!Filters
  /\ Seeds \subseteq Config!Filters
  /\ Malformed \notin Config!Filters

ASSUME MarkersAssumption ==
  /\ NoDoc \notin Documents
  /\ Lookup \notin Documents \cup {NoDoc}

backend == setup.backend

Fault == faults < setup.faults /\ faults' = faults + 1

(***************************************************************************)
(* The collection and its change stream.                                    *)
(***************************************************************************)

Subscribed == backend = "changestream" /\ run \in {"read", "loop"}

Emit(e) == events' = IF Subscribed THEN Append(events, e) ELSE events

(* A write of the document, one version further; foreign: it has a subtree   *)
(* off the allowlist from now on.                                            *)
Store(f, foreign) ==
  LET d == Config!Document(Config!Version(doc) + 1, f, foreign)
  IN  /\ doc' = d
      /\ published' = published \cup {d}
      /\ Emit(IF doc = NoDoc THEN d ELSE Lookup)

(* $set of the filter leaves the other subtrees alone. *)
StoreFilter(f) == Store(f, Config!Foreign(doc))

(***************************************************************************)
(* Publishers.                                                              *)
(***************************************************************************)

Return(p, mode, version) ==
  /\ pc' = [pc EXCEPT ![p] = "idle"]
  /\ reply' = [reply EXCEPT ![p] = <<mode, version>>]

Goto(p, next) == pc' = [pc EXCEPT ![p] = next] /\ UNCHANGED reply

(* PublishWithMode, its document validated. *)
Publish(p, mode, f) ==
  /\ pc[p] = "idle"
  /\ p \in setup.publishers
  /\ calls < setup.calls
  /\ calls' = calls + 1
  /\ Goto(p, IF mode = "set" THEN "set" ELSE "fetch")
  /\ delta' = [delta EXCEPT ![p] = f]
  /\ attempt' = [attempt EXCEPT ![p] = 0]
  /\ UNCHANGED <<setup, cur, storeVars, watchVars, envVars, faults>>

(* $set and $inc with upsert; its reply may be lost. *)
SetWrite(p) ==
  /\ pc[p] = "set"
  /\ StoreFilter(delta[p])
  /\ \/ Goto(p, "readBack") /\ UNCHANGED faults
     \/ Return(p, "set", 0) /\ Fault
  /\ UNCHANGED <<setup, delta, cur, attempt, calls, watchVars, envVars>>

SetReadBack(p) ==
  /\ pc[p] = "readBack"
  /\ Return(p, "set", Config!Version(doc))
  /\ UNCHANGED <<setup, delta, cur, attempt, calls, storeVars, watchVars, envVars, faults>>

(* Read the stored document; one that is not valid cannot be merged. *)
AppendFetch(p) ==
  /\ pc[p] = "fetch"
  /\ cur' = [cur EXCEPT ![p] = doc]
  /\ IF Config!Mergeable(doc) THEN Goto(p, "write") ELSE Return(p, "append", 0)
  /\ UNCHANGED <<setup, delta, attempt, calls, storeVars, watchVars, envVars, faults>>

(* Faulty variant: the update is not conditional on the version. *)
FaultyUnmoved(p) == (cur[p] = NoDoc) = (doc = NoDoc)

(* The insert finds no document, or the update matches the version. *)
Unmoved(p) == Config!Version(doc) = Config!Version(cur[p])

AppendWrite(p) ==
  /\ pc[p] = "write"
  /\ Unmoved(p)
  /\ StoreFilter(IF cur[p] = NoDoc THEN delta[p] ELSE Config!Merged(cur[p].filter, delta[p]))
  /\ \/ Return(p, "append", Config!Version(cur[p]) + 1) /\ UNCHANGED faults
     \/ Return(p, "append", 0) /\ Fault
  /\ UNCHANGED <<setup, delta, cur, attempt, calls, watchVars, envVars>>

(* Faulty variant: an update that matched nothing is taken for a success. *)
FaultyRetry(p) ==
  /\ UNCHANGED attempt
  /\ Return(p, "append", Config!Version(cur[p]) + 1)

(* Faulty variant: one attempt too many. *)
FaultyRetryBound(p) ==
  /\ attempt' = [attempt EXCEPT ![p] = @ + 1]
  /\ IF attempt[p] <= Attempts THEN Goto(p, "fetch") ELSE Return(p, "append", 0)

Retry(p) ==
  /\ attempt' = [attempt EXCEPT ![p] = @ + 1]
  /\ IF attempt[p] + 1 < Attempts THEN Goto(p, "fetch") ELSE Return(p, "append", 0)

(* Duplicate key, or no document matched: another publisher was faster. *)
AppendMiss(p) ==
  /\ pc[p] = "write"
  /\ ~Unmoved(p)
  /\ Retry(p)
  /\ UNCHANGED <<setup, delta, cur, calls, storeVars, watchVars, envVars, faults>>

(* A database call of the publisher fails before it takes effect. *)
PublishFails(p) ==
  /\ pc[p] # "idle"
  /\ Fault
  /\ Return(p, IF pc[p] \in {"set", "readBack"} THEN "set" ELSE "append", 0)
  /\ UNCHANGED <<setup, delta, cur, attempt, calls, storeVars, watchVars, envVars>>

(***************************************************************************)
(* The Watcher.                                                             *)
(***************************************************************************)

Newer(d) == d # NoDoc /\ d.version > lastVersion

(* Faulty variant: ready is closed before the document is applied. *)
FaultyApply(d) ==
  /\ ready' = TRUE
  /\ live' = IF d.filter = Malformed THEN live ELSE d

(* Registry.Apply and SwapFilter: compile, then swap; ready on success. A    *)
(* subtree off the allowlist is an error, but the filter is swapped.         *)
Apply(d) ==
  /\ live'  = IF Config!Compiles(d) THEN d ELSE live
  /\ ready' = (ready \/ Config!Valid(d))

Observe(d) ==
  \/ Newer(d) /\ lastVersion' = d.version /\ Apply(d)
  \/ ~Newer(d) /\ UNCHANGED <<lastVersion, live, ready>>

(* One full read, or one that fails and is only logged. *)
ReadOnce ==
  \/ Observe(doc) /\ UNCHANGED faults
  \/ Fault /\ UNCHANGED <<lastVersion, live, ready>>

(* Subscribe first ... *)
Subscribe ==
  /\ run = "start"
  /\ \/ run' = "read" /\ UNCHANGED faults
     \/ run' = "failed" /\ Fault
  /\ UNCHANGED <<setup, storeVars, live, lastVersion, ready, pump, hand, pubVars, envVars>>

(* ... then read, then start the pump: at startup and after each break. *)
FullRead ==
  /\ run = "read"
  /\ ReadOnce
  /\ run' = "loop"
  /\ pump' = "next" /\ hand' = NoDoc
  /\ UNCHANGED <<setup, storeVars, pubVars, envVars>>

(* Faulty variant: a change stream needs no reconcile reads. *)
FaultyTick ==
  /\ run = "loop" /\ backend = "poll"
  /\ ReadOnce
  /\ UNCHANGED <<setup, storeVars, run, pump, hand, pubVars, envVars>>

(* pollInterval or reconcileInterval went by. *)
Tick ==
  /\ run = "loop"
  /\ ReadOnce
  /\ UNCHANGED <<setup, storeVars, run, pump, hand, pubVars, envVars>>

(* Run takes a document from the pump. *)
Deliver ==
  /\ run = "loop" /\ pump = "hand"
  /\ Observe(hand)
  /\ pump' = "next" /\ hand' = NoDoc
  /\ UNCHANGED <<setup, storeVars, run, pubVars, envVars, faults>>

(* The pump reported that the stream broke: it is closed. *)
StreamBroke ==
  /\ run = "loop" /\ pump = "ended"
  /\ run' = "resubscribe"
  /\ events' = <<>>
  /\ UNCHANGED <<setup, doc, published, live, lastVersion, ready, pump, hand, pubVars, envVars, faults>>

(* resubscribe tries again until it succeeds; a failed try changes nothing. *)
Resubscribe ==
  /\ run = "resubscribe"
  /\ run' = "read"
  /\ UNCHANGED <<setup, storeVars, live, lastVersion, ready, pump, hand, pubVars, envVars, faults>>

(* cs.Next and the send to Run; deletions carry no document. *)
PumpNext ==
  /\ Subscribed /\ run = "loop" /\ pump = "next"
  /\ events # <<>>
  /\ hand' = IF Head(events) = Lookup THEN doc ELSE Head(events)
  /\ pump' = IF hand' = NoDoc THEN "next" ELSE "hand"
  /\ events' = Tail(events)
  /\ UNCHANGED <<setup, doc, published, live, lastVersion, ready, run, pubVars, envVars, faults>>

(* The stream errs; or the pump panics, which is recovered and unnoticed. *)
PumpFails ==
  /\ Subscribed /\ run = "loop" /\ pump = "next"
  /\ Fault
  /\ pump' \in {"ended", "dead"}
  /\ UNCHANGED <<setup, storeVars, live, lastVersion, ready, run, hand, pubVars, envVars>>

(* The stream silently drops an event. *)
EventLost ==
  /\ events # <<>>
  /\ Fault
  /\ events' = Tail(events)
  /\ UNCHANGED <<setup, doc, published, watchVars, pubVars, envVars>>

(***************************************************************************)
(* The environment.                                                         *)
(***************************************************************************)

StartOfRun == IF backend = "poll" THEN "read" ELSE "start"

(* The watching process ends, and the orchestrator starts it again. *)
Restart ==
  /\ restarts < setup.restarts
  /\ restarts' = restarts + 1
  /\ live' = Config!Baseline /\ lastVersion' = 0 /\ ready' = FALSE
  /\ run' = StartOfRun /\ pump' = "next" /\ hand' = NoDoc
  /\ events' = <<>>
  /\ UNCHANGED <<setup, doc, published, pubVars, tampers, deletes, faults>>

(* A direct write (the ejson endpoint, a shell) of rules that do not compile, *)
(* or of a subtree that this version does not know.  (A document without a    *)
(* filter is left out: it would open Ready on the baseline.)                 *)
Tamper ==
  /\ tampers < setup.tampers
  /\ tampers' = tampers + 1
  /\ StoreFilter(Malformed) \/ (doc # NoDoc /\ Store(doc.filter, TRUE))
  /\ UNCHANGED <<setup, watchVars, pubVars, deletes, restarts, faults>>

(* A direct deletion, or the collection is dropped. *)
Delete ==
  /\ deletes < setup.deletes
  /\ doc # NoDoc
  /\ deletes' = deletes + 1
  /\ doc' = NoDoc
  /\ Emit(NoDoc)
  /\ UNCHANGED <<setup, published, watchVars, pubVars, tampers, restarts, faults>>

(* The watching process starts on an empty store or on a document.           *)
Init ==
  /\ setup \in Setups
  /\ doc \in {NoDoc} \cup {Config!Document(1, f, FALSE) : f \in setup.seeds}
  /\ published = {doc} \ {NoDoc} /\ events = <<>>
  /\ live = Config!Baseline /\ lastVersion = 0 /\ ready = FALSE
  /\ run = StartOfRun /\ pump = "next" /\ hand = NoDoc
  /\ pc = [p \in Publisher |-> "idle"]
  /\ delta = [p \in Publisher |-> <<>>]
  /\ cur = [p \in Publisher |-> NoDoc]
  /\ attempt = [p \in Publisher |-> 0]
  /\ reply = [p \in Publisher |-> <<"set", 0>>]
  /\ calls = 0 /\ tampers = 0 /\ deletes = 0 /\ restarts = 0 /\ faults = 0

PublisherStep(p) ==
  SetWrite(p) \/ SetReadBack(p) \/ AppendFetch(p) \/ AppendWrite(p) \/ AppendMiss(p)

WatcherStep == Subscribe \/ FullRead \/ Deliver \/ StreamBroke \/ Resubscribe

Next ==
  \/ \E p \in Publisher :
       \/ \E mode \in {"set", "append"}, f \in setup.deltas : Publish(p, mode, f)
       \/ PublisherStep(p)
       \/ PublishFails(p)
  \/ WatcherStep \/ Tick
  \/ PumpNext \/ PumpFails \/ EventLost
  \/ Restart \/ Tamper \/ Delete

(* Publishers, Run and the pump are scheduled and the ticker keeps ticking;   *)
(* failures come to an end (setup.faults).  Nobody has to publish or restart.   *)
Fairness ==
  /\ \A p \in Publisher : WF_vars(PublisherStep(p))
  /\ WF_vars(WatcherStep)
  /\ WF_vars(Tick)
  /\ WF_vars(PumpNext)

Spec == Init /\ [][Next]_vars /\ Fairness

-----------------------------------------------------------------------------
(***************************************************************************)
(* Properties.                                                              *)
(***************************************************************************)

(* Every variable has its type (Watcher, PublishAppend). *)
TypeOK ==
  /\ setup \in Setups
  /\ doc \in Documents \cup {NoDoc}
  /\ published \subseteq Documents
  /\ live \in Documents \cup {Config!Baseline}
  /\ lastVersion \in Nat
  /\ ready \in BOOLEAN
  /\ run \in {"start", "read", "loop", "resubscribe", "failed"}
  /\ pump \in {"next", "hand", "ended", "dead"}
  /\ hand \in Documents \cup {NoDoc}
  /\ events \in Seq(Documents \cup {NoDoc, Lookup})
  /\ pc \in [Publisher -> {"idle", "set", "readBack", "fetch", "write"}]
  /\ delta \in [Publisher -> Config!Filters]
  /\ cur \in [Publisher -> Documents \cup {NoDoc}]
  /\ attempt \in [Publisher -> 0 .. Attempts]
  /\ \A p \in Publisher : pc[p] \in {"fetch", "write"} => attempt[p] < Attempts
  /\ reply \in [Publisher -> {"set", "append"} \X Nat]

(* Publishing is atomic to the outside and the live filter only goes forward *)
(* through what was stored ("concurrent appends never lose each other's      *)
(* rules", publish.go; "no rollback", cfgsync.go), until somebody deletes    *)
(* the document behind cfgsync's back: its versions then start over, and the *)
(* version guards of an append and of the watcher may be fooled.             *)
ImplementsConfigStore ==
  Config!Init /\ [][deletes' > 0 \/ Config!Next]_<<doc, published, live>>

(* A version an append returned is a stored document that compiles and has   *)
(* the rules it was called with.  It is valid as well, unless the document   *)
(* it read was deleted behind its back and one of the same version that has  *)
(* a subtree off the allowlist took its place.                               *)
AppendReported ==
  \A p \in Publisher :
    pc[p] = "idle" /\ reply[p][1] = "append" /\ reply[p][2] # 0 =>
      \E d \in published :
        /\ d.version = reply[p][2]
        /\ Config!Compiles(d)
        /\ Config!Foreign(d) => deletes > 0
        /\ d.filter = Config!Merged(d.filter, delta[p])

(* Ready means that a stored document is live: the daemon's gate never opens *)
(* on the static filter, even when the first document does not compile.      *)
ReadyMeansApplied == ready => live \in published /\ Config!Compiles(live)

(* The process ends up on the last document, if that one compiles, whatever  *)
(* the stream lost or repeated: full reads make up for it; and it is ready   *)
(* then, unless the document has a subtree off the allowlist.  The exception *)
(* is a document that was deleted and published anew: its versions start     *)
(* over, and until they pass lastVersion they are taken for replays.         *)
Converges ==
  <>[](Config!Compiles(doc) /\ run # "failed" =>
         \/ live = doc /\ (ready \/ Config!Foreign(doc))
         \/ deletes > 0 /\ doc.version <= lastVersion)
=============================================================================
