------------------------------ MODULE Pipeline ------------------------------
(***************************************************************************)
(* The pipeline upload strategy (internal/process/pipeline): a source feeds *)
(* one bounded channel, a dispatcher routes each line to one of NWorkers    *)
(* bounded worker channels by user affinity, spilling to another worker     *)
(* when the affine one is full, and every worker classifies its lines,      *)
(* accumulates three batches and flushes them to MongoDB.  Cancellation of  *)
(* the run's context, failing flushes and failing identity lookups may      *)
(* come between any two steps.                                              *)
(***************************************************************************)
EXTENDS Integers, Sequences, FiniteSets, FlushThreshold

CONSTANTS
  NLines,        (* lines of the source; line i is the i-th line             *)
  NWorkers,      (* cfg.BatchWorkers                                         *)
  Class,         (* what each line is: "bad", "filtered", "user" or "event"  *)
  User,          (* the routing key of each line                             *)
  Affinity,      (* RouteIndex of each routing key                           *)
  SourceCap,     (* capacity of the source's line channel                    *)
  ChanCap,       (* cfg.ChannelSize()                                        *)
  MinBatch,      (* cfg.MinBatchSize()                                       *)
  BaseBatch,     (* cfg.BatchSize                                            *)
  MaxBatch,      (* cfg.MaxBatchSize()                                       *)
  DeadLetterCap, (* cfg.DeadLetterCap                                        *)
  Follow,        (* TRUE: the source is a tailer, open until it is cancelled *)
  DBFaults       (* TRUE: identity lookups and bulk writes may fail          *)

Lines  == 1 .. NLines
Worker == 0 .. NWorkers - 1
Coll   == {"user", "event", "dead"}

ASSUME SizesAssumption ==
  /\ NLines \in Nat
  /\ NWorkers \in Nat \ {0}
  /\ SourceCap \in Nat \ {0}
  /\ ChanCap \in Nat \ {0}
  /\ MinBatch \in Nat \ {0}
  /\ BaseBatch \in Nat \ {0}
  /\ MaxBatch \in Nat \ {0}
  /\ MinBatch <= BaseBatch /\ BaseBatch <= MaxBatch
  /\ DeadLetterCap \in Nat \ {0}

ASSUME LinesAssumption ==
  /\ Class \in [Lines -> {"bad", "filtered", "user", "event"}]
  /\ \A l \in Lines : Affinity[User[l]] \in Worker

ASSUME SwitchAssumption == Follow \in BOOLEAN /\ DBFaults \in BOOLEAN

VARIABLES
  next,      (* the first line the source has not sent                       *)
  lineCh,    (* the source's channel                                         *)
  srcClosed, (* the source closed it                                         *)
  dpc,       (* dispatcher: "recv", "offer", "block" or "done"               *)
  hand,      (* the line the dispatcher holds, 0 for none                    *)
  offset,    (* which worker, counted from the affine one, it is offered to  *)
  chan,      (* the worker channels                                          *)
  chClosed,  (* the dispatcher closed them                                   *)
  wpc,       (* worker: "select", the collection it is flushing, or "exited" *)
  wctx,      (* the context of the flush in progress                         *)
  batch,     (* per worker and collection, the lines accumulated             *)
  stored,    (* per collection, the lines written to MongoDB                 *)
  filtered,  (* lines the filter discarded                                   *)
  dropped,   (* lines the dispatcher gave up when its context ended          *)
  failed,    (* lines of batches reset after their bulk write failed         *)
  stamp,     (* parse order of each line (its _ts), 0 when not parsed        *)
  stopped,   (* the run's context was cancelled from outside                 *)
  returned   (* RunWorkers has returned                                      *)

srcVars  == <<next, lineCh, srcClosed>>
dispVars == <<dpc, hand, offset, chan, chClosed>>
workVars == <<wpc, wctx, batch, stored, filtered, failed, stamp>>
runVars  == <<stopped, returned>>
vars     == <<srcVars, dispVars, workVars, runVars, dropped>>

Elems(s) == {s[i] : i \in DOMAIN s}

(* Uploader.Run cancels its derived context when RunWorkers returns. *)
CtxDone == stopped \/ returned

(***************************************************************************)
(* The source.                                                              *)
(***************************************************************************)

SourceSend ==
  /\ ~srcClosed
  /\ next <= NLines
  /\ Len(lineCh) < SourceCap
  /\ lineCh' = Append(lineCh, next)
  /\ next' = next + 1
  /\ UNCHANGED <<srcClosed, dispVars, workVars, runVars, dropped>>

(* The lines are those that the source sends: of standard input, those before *)
(* one over 1 MiB.                                                           *)
SourceClose ==
  /\ ~srcClosed
  /\ CtxDone \/ (next > NLines /\ ~Follow)
  /\ srcClosed' = TRUE
  /\ UNCHANGED <<next, lineCh, dispVars, workVars, runVars, dropped>>

(***************************************************************************)
(* The dispatcher.                                                          *)
(***************************************************************************)

(* Faulty variant: lines dealt to the workers in turn. *)
FaultyAffine(l) == l % NWorkers

Affine(l) == Affinity[User[l]]

DispatchRecv ==
  /\ dpc = "recv"
  /\ lineCh # <<>>
  /\ hand' = Head(lineCh)
  /\ lineCh' = Tail(lineCh)
  /\ offset' = 0
  /\ dpc' = "offer"
  /\ UNCHANGED <<next, srcClosed, chan, chClosed, workVars, runVars, dropped>>

(* One send to a worker that has room. *)
SendTo(w) ==
  /\ Len(chan[w]) < ChanCap
  /\ chan' = [chan EXCEPT ![w] = Append(@, hand)]
  /\ hand' = 0
  /\ dpc' = "recv"

(* Faulty variant: `offset <= n` in the search for another worker. *)
FaultyNextTargetBound ==
  /\ UNCHANGED hand
  /\ IF offset + 1 <= NWorkers
     THEN offset' = offset + 1 /\ dpc' = "offer"
     ELSE offset' = 0 /\ dpc' = "block"

(* Faulty variant: no blocking send after the search. *)
FaultyNextTargetDrop ==
  IF offset + 1 < NWorkers
  THEN offset' = offset + 1 /\ dpc' = "offer" /\ UNCHANGED hand
  ELSE offset' = 0 /\ dpc' = "recv" /\ hand' = 0

(* The worker just tried is full: try the next one, or block. *)
NextTarget ==
  /\ UNCHANGED hand
  /\ IF offset + 1 < NWorkers
     THEN offset' = offset + 1 /\ dpc' = "offer"
     ELSE offset' = 0 /\ dpc' = "block"

(* The non-blocking sends: the affine worker first, the others in turn. *)
DispatchOffer ==
  /\ dpc = "offer"
  /\ LET w == (Affine(hand) + offset) % NWorkers
     IN  \/ SendTo(w) /\ UNCHANGED offset
         \/ Len(chan[w]) >= ChanCap /\ NextTarget /\ UNCHANGED chan
  /\ UNCHANGED <<chClosed, srcVars, workVars, runVars, dropped>>

(* Every worker was full: wait for the affine one ... *)
DispatchBlockedSend ==
  /\ dpc = "block"
  /\ SendTo(Affine(hand))
  /\ UNCHANGED <<offset, chClosed, srcVars, workVars, runVars, dropped>>

(* Faulty variant: a blocking send that does not watch the context. *)
FaultyDispatchCancelled == FALSE /\ UNCHANGED vars

(* ... or for the context, which drops the line and closes the channels. *)
DispatchCancelled ==
  /\ dpc = "block"
  /\ CtxDone
  /\ dropped' = dropped \cup {hand}
  /\ hand' = 0
  /\ dpc' = "done"
  /\ chClosed' = TRUE
  /\ UNCHANGED <<offset, chan, srcVars, workVars, runVars>>

DispatchEOF ==
  /\ dpc = "recv"
  /\ lineCh = <<>>
  /\ srcClosed
  /\ dpc' = "done"
  /\ chClosed' = TRUE
  /\ UNCHANGED <<hand, offset, chan, srcVars, workVars, runVars, dropped>>

(***************************************************************************)
(* The workers.  The four cases of the select, then flush.                  *)
(***************************************************************************)

BeginFlush(w, ctx) ==
  /\ wpc' = [wpc EXCEPT ![w] = "user"]
  /\ wctx' = [wctx EXCEPT ![w] = ctx]

(* What Processor.Process makes of a line.  An identity lookup goes to      *)
(* MongoDB under the run's context unless the caches answer it.             *)
Outcomes(l) ==
  CASE Class[l] = "bad"      -> {"parseError"}
    [] Class[l] = "filtered" -> {"filtered"}
    [] OTHER -> {Class[l]} \cup (IF DBFaults \/ CtxDone THEN {"identityError"} ELSE {})

(* Faulty variant: only the event batch is compared with the threshold. *)
FaultyMustFlush(b, threshold) == Cardinality(b["event"]) >= threshold

(* A batch for user or event reached the threshold. *)
MustFlush(b, threshold) == \E c \in {"user", "event"} : Cardinality(b[c]) >= threshold

(* One line received and processed.  elapsed: flushInterval went by since   *)
(* the last flush.                                                          *)
WorkerLine(w) ==
  /\ wpc[w] = "select"
  /\ chan[w] # <<>>
  /\ chan' = [chan EXCEPT ![w] = Tail(@)]
  /\ LET l == Head(chan[w])
         threshold == ComputeFlushThreshold(MinBatch, BaseBatch, MaxBatch,
                                            Len(chan[w]) - 1, ChanCap)
         Add(c) == batch' = [batch EXCEPT ![w][c] = @ \cup {l}]
         FlushIf(must) == \/ BeginFlush(w, "run")
                          \/ ~must /\ UNCHANGED <<wpc, wctx>>
     IN  /\ stamp' = [stamp EXCEPT ![l] = Cardinality({k \in Lines : stamp[k] > 0}) + 1]
         /\ \E o \in Outcomes(l) :
              \/ /\ o = "parseError"
                 /\ Add("dead")
                 /\ FlushIf(Cardinality(batch[w]["dead"] \cup {l}) >= DeadLetterCap)
                 /\ UNCHANGED filtered
              \/ /\ o = "identityError"
                 /\ Add("dead")
                 /\ UNCHANGED <<wpc, wctx, filtered>>
              \/ /\ o = "filtered"
                 /\ filtered' = filtered \cup {l}
                 /\ UNCHANGED <<wpc, wctx, batch>>
              \/ /\ o \in {"user", "event"}
                 /\ Add(o)
                 /\ FlushIf(MustFlush(batch'[w], threshold))
                 /\ UNCHANGED filtered
  /\ UNCHANGED <<stored, failed, srcVars, dpc, hand, offset, chClosed, runVars, dropped>>

WorkerTick(w) ==
  /\ wpc[w] = "select"
  /\ \E c \in Coll : batch[w][c] # {}
  /\ BeginFlush(w, "run")
  /\ UNCHANGED <<batch, stored, filtered, failed, stamp, srcVars, dispVars, runVars, dropped>>

(* The final flush, with a background context: the channel is closed and    *)
(* drained, or the context is done.                                         *)
WorkerEOF(w) ==
  /\ wpc[w] = "select"
  /\ chan[w] = <<>> /\ chClosed
  /\ BeginFlush(w, "background")
  /\ UNCHANGED <<batch, stored, filtered, failed, stamp, srcVars, dispVars, runVars, dropped>>

WorkerCancelled(w) ==
  /\ wpc[w] = "select"
  /\ CtxDone
  /\ BeginFlush(w, "background")
  /\ UNCHANGED <<batch, stored, filtered, failed, stamp, srcVars, dispVars, runVars, dropped>>

(* Faulty variant: the dead letters are not flushed. *)
FaultyAfterFlush(w, c) ==
  wpc' = [wpc EXCEPT ![w] = IF c = "user" THEN "event"
                            ELSE IF wctx[w] = "run" THEN "select" ELSE "exited"]

(* flushBatch on the three collections in turn. *)
AfterFlush(w, c) ==
  wpc' = [wpc EXCEPT ![w] =
            CASE c = "user"  -> "event"
              [] c = "event" -> "dead"
              [] c = "dead"  -> IF wctx[w] = "run" THEN "select" ELSE "exited"]

WriteMayFail(w) == DBFaults \/ (wctx[w] = "run" /\ CtxDone)

WriteMaySucceed(w) == ~(wctx[w] = "run" /\ CtxDone)

(* Faulty variant: a batch is not emptied once written. *)
FaultyResetBatch(w, c) == UNCHANGED batch

ResetBatch(w, c) == batch' = [batch EXCEPT ![w][c] = {}]

(* A bulk write succeeds, or it fails after some of its models were applied. *)
(* Either way the batch is reset.                                            *)
WorkerFlush(w) ==
  \E c \in Coll :
    /\ wpc[w] = c
    /\ \E written \in SUBSET batch[w][c] :
         /\ \/ written = batch[w][c] /\ (WriteMaySucceed(w) \/ batch[w][c] = {})
            \/ batch[w][c] # {} /\ WriteMayFail(w)
         /\ stored' = [stored EXCEPT ![c] = @ \cup written]
         /\ failed' = failed \cup (batch[w][c] \ written)
    /\ ResetBatch(w, c)
    /\ AfterFlush(w, c)
    /\ UNCHANGED <<wctx, filtered, stamp, srcVars, dispVars, runVars, dropped>>

(***************************************************************************)
(* The run.                                                                 *)
(***************************************************************************)

(* SIGTERM, the fd watchdog or Stop cancels the run's context. *)
Cancel ==
  /\ ~stopped /\ ~returned
  /\ stopped' = TRUE
  /\ UNCHANGED <<returned, srcVars, dispVars, workVars, dropped>>

(* wg.Wait: RunWorkers waits for its workers, not for the dispatcher. *)
Return ==
  /\ ~returned
  /\ \A w \in Worker : wpc[w] = "exited"
  /\ returned' = TRUE
  /\ UNCHANGED <<stopped, srcVars, dispVars, workVars, dropped>>

Init ==
  /\ next = 1 /\ lineCh = <<>> /\ srcClosed = FALSE
  /\ dpc = "recv" /\ hand = 0 /\ offset = 0
  /\ chan = [w \in Worker |-> <<>>]
  /\ chClosed = FALSE
  /\ wpc = [w \in Worker |-> "select"]
  /\ wctx = [w \in Worker |-> "run"]
  /\ batch = [w \in Worker |-> [c \in Coll |-> {}]]
  /\ stored = [c \in Coll |-> {}]
  /\ filtered = {} /\ dropped = {} /\ failed = {}
  /\ stamp = [l \in Lines |-> 0]
  /\ stopped = FALSE /\ returned = FALSE

Source == SourceSend \/ SourceClose

Dispatcher ==
  DispatchRecv \/ DispatchOffer \/ DispatchBlockedSend \/ DispatchCancelled \/ DispatchEOF

WorkerStep(w) ==
  WorkerLine(w) \/ WorkerTick(w) \/ WorkerEOF(w) \/ WorkerCancelled(w) \/ WorkerFlush(w)

(* Nothing is left to run: the only way the system stops. *)
Finished ==
  /\ returned /\ dpc = "done" /\ srcClosed
  /\ UNCHANGED vars

Next ==
  \/ Source
  \/ Dispatcher
  \/ \E w \in Worker : WorkerStep(w)
  \/ Cancel
  \/ Return
  \/ Finished

(* Goroutines are scheduled: each of them keeps taking the steps it can.    *)
(* Nobody has to cancel the run.                                            *)
Fairness ==
  /\ WF_vars(Source)
  /\ WF_vars(Dispatcher)
  /\ \A w \in Worker : WF_vars(WorkerStep(w))
  /\ WF_vars(Return)

Spec == Init /\ [][Next]_vars /\ Fairness

-----------------------------------------------------------------------------
(***************************************************************************)
(* Properties.                                                              *)
(***************************************************************************)

(* Every variable has its type (worker.go, dispatch.go, batch.go). *)
TypeOK ==
  /\ next \in 1 .. NLines + 1
  /\ lineCh \in Seq(Lines)
  /\ srcClosed \in BOOLEAN
  /\ dpc \in {"recv", "offer", "block", "done"}
  /\ hand \in Lines \cup {0}
  /\ offset \in Worker
  /\ chan \in [Worker -> Seq(Lines)]
  /\ chClosed \in BOOLEAN
  /\ wpc \in [Worker -> Coll \cup {"select", "exited"}]
  /\ wctx \in [Worker -> {"run", "background"}]
  /\ batch \in [Worker -> [Coll -> SUBSET Lines]]
  /\ stored \in [Coll -> SUBSET Lines]
  /\ filtered \in SUBSET Lines
  /\ dropped \in SUBSET Lines
  /\ failed \in SUBSET Lines
  /\ stamp \in [Lines -> Nat]
  /\ stopped \in BOOLEAN
  /\ returned \in BOOLEAN

(* The places a line can be in, and the lines in each. *)
Places ==
  {<<"unread">>, <<"lineCh">>, <<"hand">>, <<"filtered">>, <<"dropped">>, <<"failed">>}
    \cup {<<"chan", w>> : w \in Worker}
    \cup {<<"batch", w, c>> : w \in Worker, c \in Coll}
    \cup {<<"stored", c>> : c \in Coll}

LinesAt(p) ==
  CASE p[1] = "unread"   -> next .. NLines
    [] p[1] = "lineCh"   -> Elems(lineCh)
    [] p[1] = "hand"     -> {hand} \ {0}
    [] p[1] = "chan"     -> Elems(chan[p[2]])
    [] p[1] = "batch"    -> batch[p[2]][p[3]]
    [] p[1] = "stored"   -> stored[p[2]]
    [] p[1] = "filtered" -> filtered
    [] p[1] = "dropped"  -> dropped
    [] p[1] = "failed"   -> failed

(* No line vanishes: dispatch, spilling, batching and flushing always leave  *)
(* it somewhere, even when the run is cancelled between any two steps.       *)
NoLineVanishes == \A l \in Lines : \E p \in Places : l \in LinesAt(p)

(* No line is in two places, so none is queued, batched or written twice.    *)
Increasing(s) == \A i, j \in DOMAIN s : i < j => s[i] < s[j]

NoLineTwice ==
  /\ \A l \in Lines : \A p, q \in {r \in Places : l \in LinesAt(r)} : p = q
  /\ Increasing(lineCh)
  /\ \A w \in Worker : Increasing(chan[w])

(* A run that nobody stopped, on a database that does not fail, returns only *)
(* when every line is in the collection of its class (Run's comment,         *)
(* uploader.go: it blocks until src is drained and the workers flushed).     *)
Destination(l) ==
  CASE Class[l] = "bad"      -> stored["dead"]
    [] Class[l] = "filtered" -> filtered
    [] OTHER                 -> stored[Class[l]]

CompleteReturn ==
  returned /\ ~stopped /\ ~DBFaults => \A l \in Lines : l \in Destination(l)

(* A batch never outgrows the capacity it was made with: the threshold,      *)
(* whatever the backlog, stops it at MaxBatch (worker.go, dynamicbatch.go).  *)
BatchesBounded ==
  \A w \in Worker : \A c \in {"user", "event"} : Cardinality(batch[w][c]) <= MaxBatch

(* Lines of one routing key are parsed, hence stamped with _ts, in source    *)
(* order (routing.go: the same user always lands on the same worker) in      *)
(* every run in which no worker channel is ever full.                        *)
SameUserInOrder ==
  \A k, l \in Lines :
    k < l /\ User[k] = User[l] /\ stamp[l] > 0 => stamp[k] > 0 /\ stamp[k] < stamp[l]

NeverFull == \A w \in Worker : Len(chan[w]) < ChanCap

InOrderUnlessFull == []NeverFull => []SameUserInOrder

(* The run implements the promise of an upload strategy. *)
Fate(l) ==
  CASE l \in stored["user"]      -> "user"
    [] l \in stored["event"]     -> "event"
    [] l \in stored["dead"]      -> "dead"
    [] l \in filtered            -> "filtered"
    [] l \in failed \cup dropped -> "lost"
    [] OTHER                     -> "pending"

Promise == INSTANCE Upload WITH fate <- [l \in Lines |-> Fate(l)]

ImplementsUpload == Promise!Spec

(* Run returns: when a finite source (not a tailer) is drained, and when it  *)
(* is cancelled; then no worker waits for the dispatcher, and the dispatcher *)
(* never waits for a worker that is gone (RunWorkers, StartDispatcher).      *)
RunReturns ==
  /\ ~Follow => <>returned
  /\ stopped ~> (returned /\ dpc = "done" /\ srcClosed)

(* The batches in flight survive a cancellation, which is what the           *)
(* background context of the final flush is for (worker.go, arch.md 7.2.1). *)
NoBatchLost == ~DBFaults => failed = {}

(* Once two lines of one key are stored, the later one has the later _ts, so *)
(* that the older can never overwrite the newer (report.go, Run).            *)
NewestWins ==
  \A k, l \in stored["user"] :
    k < l /\ User[k] = User[l] => stamp[k] < stamp[l]
=============================================================================
