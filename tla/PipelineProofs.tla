--------------------------- MODULE PipelineProofs ---------------------------
(***************************************************************************)
(* Theorems about Pipeline, for every number of lines and workers, every    *)
(* routing and every capacity.                                              *)
(***************************************************************************)
EXTENDS Pipeline, FiniteSetTheorems, TLAPS

-----------------------------------------------------------------------------
(* Lemmas about the operators. *)

(* Appending adds one element. *)
LEMMA ElemsAppend ==
  ASSUME NEW S, NEW s \in Seq(S), NEW e \in S
  PROVE  Append(s, e) \in Seq(S) /\ Elems(Append(s, e)) = Elems(s) \cup {e}
<1>1. Append(s, e) \in Seq(S) /\ Len(Append(s, e)) = Len(s) + 1
  OBVIOUS
<1>2. DOMAIN Append(s, e) = 1 .. Len(s) + 1 /\ DOMAIN s = 1 .. Len(s)
  BY <1>1
<1>3. \A i \in 1 .. Len(s) : Append(s, e)[i] = s[i]
  OBVIOUS
<1>4. Append(s, e)[Len(s) + 1] = e
  OBVIOUS
<1>5. Elems(Append(s, e)) \subseteq Elems(s) \cup {e}
  BY <1>2, <1>3, <1>4 DEF Elems
<1>6. Elems(s) \cup {e} \subseteq Elems(Append(s, e))
  BY <1>2, <1>3, <1>4 DEF Elems
<1> QED
  BY <1>1, <1>5, <1>6

(* Taking the head leaves the others. *)
LEMMA ElemsTail ==
  ASSUME NEW S, NEW s \in Seq(S), s # <<>>
  PROVE  /\ Head(s) \in S
         /\ Tail(s) \in Seq(S)
         /\ Elems(s) = {Head(s)} \cup Elems(Tail(s))
<1>1. Len(s) \in Nat /\ Len(s) > 0 /\ DOMAIN s = 1 .. Len(s)
  OBVIOUS
<1>2. Head(s) \in S /\ Head(s) = s[1]
  BY <1>1
<1>3. Tail(s) \in Seq(S) /\ Len(Tail(s)) = Len(s) - 1
  BY <1>1
<1>4. \A i \in 1 .. Len(s) - 1 : Tail(s)[i] = s[i + 1]
  BY <1>1
<1>5. DOMAIN Tail(s) = 1 .. Len(s) - 1
  BY <1>3, <1>1
<1>6. Elems(s) \subseteq {Head(s)} \cup Elems(Tail(s))
  <2> SUFFICES ASSUME NEW i \in 1 .. Len(s)
               PROVE  s[i] \in {Head(s)} \cup Elems(Tail(s))
    BY <1>1 DEF Elems
  <2>1. CASE i = 1
    BY <2>1, <1>2
  <2>2. CASE i # 1
    <3>1. i - 1 \in 1 .. Len(s) - 1
      BY <2>2, <1>1
    <3>2. Tail(s)[i - 1] = s[i]
      BY <3>1, <1>4, <1>1
    <3> QED
      BY <3>1, <3>2, <1>5 DEF Elems
  <2> QED
    BY <2>1, <2>2
<1>7. {Head(s)} \cup Elems(Tail(s)) \subseteq Elems(s)
  BY <1>1, <1>2, <1>4, <1>5 DEF Elems
<1> QED
  BY <1>2, <1>3, <1>6, <1>7

(* The dispatcher's targets are workers. *)
LEMMA TargetIsWorker ==
  ASSUME NEW l \in Lines, NEW o \in Worker
  PROVE  /\ Affine(l) \in Worker
         /\ (Affine(l) + o) % NWorkers \in Worker
<1>1. Affine(l) \in Worker
  BY LinesAssumption DEF Affine
<1>2. Affine(l) + o \in Nat /\ NWorkers \in Nat \ {0}
  BY <1>1, SizesAssumption DEF Worker
<1> QED
  BY <1>1, <1>2 DEF Worker

-----------------------------------------------------------------------------
(* Type correctness. *)

(* The dispatcher holds a line exactly while it looks for a place for it. *)
HandOK == hand \in Lines <=> dpc \in {"offer", "block"}

TypeInv == TypeOK /\ HandOK

LEMMA LinesFacts ==
  /\ Lines \subseteq Nat \ {0} /\ IsFiniteSet(Lines)
  /\ \A S : S \subseteq Lines => Cardinality(S) \in Nat
  /\ 0 \in Worker /\ Worker \subseteq Nat
<1>1. Lines \subseteq Nat \ {0} /\ IsFiniteSet(Lines)
  BY FS_Interval, SizesAssumption DEF Lines
<1>2. ASSUME NEW S, S \subseteq Lines
      PROVE  Cardinality(S) \in Nat
  BY <1>1, <1>2, FS_Subset, FS_CardinalityType
<1> QED
  BY <1>1, <1>2, SizesAssumption DEF Worker

(* A send to a worker moves the line in hand. *)
LEMMA SendToType ==
  ASSUME TypeInv, hand \in Lines, NEW w \in Worker, SendTo(w)
  PROVE  /\ chan' \in [Worker -> Seq(Lines)]
         /\ Elems(chan'[w]) = Elems(chan[w]) \cup {hand}
         /\ \A v \in Worker : v # w => chan'[v] = chan[v]
         /\ hand' = 0 /\ dpc' = "recv"
<1>1. chan[w] \in Seq(Lines) /\ chan \in [Worker -> Seq(Lines)]
  BY DEF TypeInv, TypeOK
<1>2. /\ Append(chan[w], hand) \in Seq(Lines)
      /\ Elems(Append(chan[w], hand)) = Elems(chan[w]) \cup {hand}
  BY <1>1, ElemsAppend
<1>3. chan' = [chan EXCEPT ![w] = Append(chan[w], hand)]
  BY DEF SendTo
<1> QED
  BY <1>1, <1>2, <1>3 DEF SendTo

LEMMA TypeInit == Init => TypeInv
<1> SUFFICES ASSUME Init
             PROVE  TypeInv
  OBVIOUS
<1>1. next \in 1 .. NLines + 1 /\ offset \in Worker
  BY LinesFacts, SizesAssumption DEF Init
<1>2. lineCh \in Seq(Lines) /\ chan \in [Worker -> Seq(Lines)]
  BY DEF Init
<1>3. /\ wpc \in [Worker -> Coll \cup {"select", "exited"}]
      /\ wctx \in [Worker -> {"run", "background"}]
      /\ batch \in [Worker -> [Coll -> SUBSET Lines]]
      /\ stored \in [Coll -> SUBSET Lines]
      /\ stamp \in [Lines -> Nat]
  BY DEF Init
<1>4. HandOK
  BY LinesFacts DEF Init, HandOK
<1> QED
  BY <1>1, <1>2, <1>3, <1>4 DEF Init, TypeInv, TypeOK

LEMMA TypeStep == TypeInv /\ [Next]_vars => TypeInv'
<1> SUFFICES ASSUME TypeInv, [Next]_vars
             PROVE  TypeInv'
  OBVIOUS
<1> USE DEF TypeInv
<1>1. CASE SourceSend
  <2>1. next \in Lines /\ next' \in 1 .. NLines + 1
    BY <1>1, SizesAssumption DEF SourceSend, TypeOK, Lines
  <2>2. lineCh' \in Seq(Lines)
    BY <1>1, <2>1, ElemsAppend DEF SourceSend, TypeOK
  <2> QED
    BY <1>1, <2>1, <2>2
    DEF SourceSend, dispVars, workVars, runVars, TypeOK, HandOK
<1>2. CASE SourceClose
  BY <1>2 DEF SourceClose, dispVars, workVars, runVars, TypeOK, HandOK
<1>3. CASE DispatchRecv
  <2>1. Head(lineCh) \in Lines /\ Tail(lineCh) \in Seq(Lines)
    BY <1>3, ElemsTail DEF DispatchRecv, TypeOK
  <2> QED
    BY <1>3, <2>1, LinesFacts DEF DispatchRecv, workVars, runVars, TypeOK, HandOK
<1>4. CASE DispatchOffer
  <2>1. hand \in Lines
    BY <1>4 DEF DispatchOffer, HandOK
  <2> DEFINE w == (Affine(hand) + offset) % NWorkers
  <2>2. w \in Worker
    BY <2>1, TargetIsWorker DEF TypeOK
  <2> HIDE DEF w
  <2>3. CASE SendTo(w) /\ UNCHANGED offset
    BY <1>4, <2>1, <2>2, <2>3, SendToType, LinesFacts
    DEF DispatchOffer, srcVars, workVars, runVars, TypeOK, HandOK
  <2>4. CASE NextTarget /\ UNCHANGED chan
    <3>1. offset' \in Worker
      BY <2>4, SizesAssumption DEF NextTarget, TypeOK, Worker
    <3> QED
      BY <1>4, <2>1, <2>4, <3>1
      DEF DispatchOffer, NextTarget, srcVars, workVars, runVars, TypeOK, HandOK
  <2> QED
    BY <1>4, <2>3, <2>4 DEF DispatchOffer, w
<1>5. CASE DispatchBlockedSend
  <2>1. hand \in Lines /\ Affine(hand) \in Worker
    BY <1>5, LinesFacts, TargetIsWorker DEF DispatchBlockedSend, HandOK
  <2> QED
    BY <1>5, <2>1, SendToType, LinesFacts
    DEF DispatchBlockedSend, srcVars, workVars, runVars, TypeOK, HandOK
<1>6. CASE DispatchCancelled
  BY <1>6, LinesFacts DEF DispatchCancelled, srcVars, workVars, runVars, TypeOK, HandOK
<1>7. CASE DispatchEOF
  BY <1>7 DEF DispatchEOF, srcVars, workVars, runVars, TypeOK, HandOK
<1>8. ASSUME NEW w \in Worker, WorkerLine(w)
      PROVE  TypeInv'
  <2> DEFINE l == Head(chan[w])
  <2>1. l \in Lines /\ Tail(chan[w]) \in Seq(Lines)
    BY <1>8, ElemsTail DEF WorkerLine, TypeOK
  <2>2. chan' \in [Worker -> Seq(Lines)]
    BY <1>8, <2>1 DEF WorkerLine, TypeOK
  <2>3. stamp' \in [Lines -> Nat]
    <3>1. Cardinality({k \in Lines : stamp[k] > 0}) + 1 \in Nat
      BY LinesFacts
    <3> QED
      BY <1>8, <3>1, <2>1 DEF WorkerLine, TypeOK
  <2>4. batch' \in [Worker -> [Coll -> SUBSET Lines]]
    <3>1. ASSUME NEW c \in Coll, batch' = [batch EXCEPT ![w][c] = @ \cup {l}]
          PROVE  batch' \in [Worker -> [Coll -> SUBSET Lines]]
      BY <3>1, <2>1 DEF TypeOK
    <3> QED
      BY <1>8, <3>1 DEF WorkerLine, TypeOK, Coll
  <2>5. /\ wpc' \in [Worker -> Coll \cup {"select", "exited"}]
        /\ wctx' \in [Worker -> {"run", "background"}]
    <3>1. BeginFlush(w, "run") \/ UNCHANGED <<wpc, wctx>>
      BY <1>8 DEF WorkerLine
    <3> QED
      BY <3>1 DEF BeginFlush, TypeOK, Coll
  <2>6. filtered' \in SUBSET Lines
    BY <1>8, <2>1 DEF WorkerLine, TypeOK
  <2>7. UNCHANGED <<stored, failed, srcVars, dpc, hand, offset, chClosed, runVars, dropped>>
    BY <1>8 DEF WorkerLine
  <2> QED
    BY <2>2, <2>3, <2>4, <2>5, <2>6, <2>7 DEF srcVars, runVars, TypeOK, HandOK
<1>9. ASSUME NEW w \in Worker, WorkerTick(w) \/ WorkerEOF(w) \/ WorkerCancelled(w)
      PROVE  TypeInv'
  BY <1>9 DEF WorkerTick, WorkerEOF, WorkerCancelled, BeginFlush,
              srcVars, dispVars, runVars, TypeOK, HandOK, Coll
<1>10. ASSUME NEW w \in Worker, WorkerFlush(w)
       PROVE  TypeInv'
  <2>1. PICK c \in Coll :
          /\ \E written \in SUBSET batch[w][c] :
               /\ stored' = [stored EXCEPT ![c] = @ \cup written]
               /\ failed' = failed \cup (batch[w][c] \ written)
          /\ ResetBatch(w, c)
          /\ AfterFlush(w, c)
          /\ UNCHANGED <<wctx, filtered, stamp, srcVars, dispVars, runVars, dropped>>
    BY <1>10 DEF WorkerFlush
  <2>2. batch' \in [Worker -> [Coll -> SUBSET Lines]]
    BY <2>1 DEF ResetBatch, TypeOK
  <2>3. wpc' \in [Worker -> Coll \cup {"select", "exited"}]
    BY <2>1 DEF AfterFlush, TypeOK, Coll
  <2>4. stored' \in [Coll -> SUBSET Lines] /\ failed' \in SUBSET Lines
    BY <2>1 DEF TypeOK
  <2> QED
    BY <2>1, <2>2, <2>3, <2>4 DEF srcVars, dispVars, runVars, TypeOK, HandOK
<1>11. CASE Cancel \/ Return
  BY <1>11 DEF Cancel, Return, srcVars, dispVars, workVars, TypeOK, HandOK
<1>12. CASE UNCHANGED vars
  BY <1>12 DEF vars, srcVars, dispVars, workVars, runVars, TypeOK, HandOK
<1> QED
  BY <1>1, <1>2, <1>3, <1>4, <1>5, <1>6, <1>7, <1>8, <1>9, <1>10, <1>11, <1>12
  DEF Next, Source, Dispatcher, WorkerStep, Finished

LEMMA TypeInvariance == Spec => []TypeInv
  BY TypeInit, TypeStep, PTL DEF Spec

(* Every variable of the pipeline keeps its type, whatever the sizes, the    *)
(* routing and the failures.                                                 *)
THEOREM TypeCorrect == Spec => []TypeOK
<1>1. TypeInv => TypeOK
  BY DEF TypeInv
<1> QED
  BY <1>1, TypeInvariance, PTL

-----------------------------------------------------------------------------
(* What the two actions of a worker that move lines do with them. *)

(* Line l went from the channel of w to the place its outcome calls for. *)
Processed(w, l, o) ==
  \/ /\ o \in {"parseError", "identityError"}
     /\ batch' = [batch EXCEPT ![w]["dead"] = @ \cup {l}]
     /\ filtered' = filtered
  \/ /\ o = "filtered"
     /\ filtered' = filtered \cup {l}
     /\ batch' = batch
  \/ /\ o \in {"user", "event"}
     /\ batch' = [batch EXCEPT ![w][o] = @ \cup {l}]
     /\ filtered' = filtered

LEMMA LineProcessed ==
  ASSUME NEW w \in Worker, WorkerLine(w)
  PROVE  \E o \in Outcomes(Head(chan[w])) : Processed(w, Head(chan[w]), o)
  BY DEF WorkerLine, Processed

(* The part of batch c of w that was written is stored, the rest is lost. *)
Flushed(w, c, written) ==
  /\ stored' = [stored EXCEPT ![c] = @ \cup written]
  /\ failed' = failed \cup (batch[w][c] \ written)
  /\ batch' = [batch EXCEPT ![w][c] = {}]
  /\ AfterFlush(w, c)
  /\ UNCHANGED <<wctx, filtered, stamp, srcVars, dispVars, runVars, dropped>>

LEMMA BatchFlushed ==
  ASSUME NEW w \in Worker, WorkerFlush(w)
  PROVE  \E c \in Coll : \E written \in SUBSET batch[w][c] :
           /\ wpc[w] = c
           /\ written = batch[w][c] \/ WriteMayFail(w)
           /\ Flushed(w, c, written)
  BY DEF WorkerFlush, ResetBatch, Flushed

-----------------------------------------------------------------------------
(* No line vanishes. *)

(* NoLineVanishes for one line, place by place. *)
Somewhere(l) ==
  \/ l >= next
  \/ l \in Elems(lineCh)
  \/ l = hand
  \/ \E w \in Worker : l \in Elems(chan[w])
  \/ \E w \in Worker : \E c \in Coll : l \in batch[w][c]
  \/ \E c \in Coll : l \in stored[c]
  \/ l \in filtered \cup dropped \cup failed

Covered == \A l \in Lines : Somewhere(l)

LEMMA CoveredInit == Init => Covered
<1> SUFFICES ASSUME Init, NEW l \in Lines
             PROVE  l >= next
  BY DEF Covered, Somewhere
<1> QED
  BY SizesAssumption DEF Init, Lines

(* What a place may lose, it hands to another. *)
LEMMA CoveredStep == TypeInv /\ Covered /\ [Next]_vars => Covered'
<1> SUFFICES ASSUME TypeInv, [Next]_vars, NEW l \in Lines, Somewhere(l)
             PROVE  Somewhere(l)'
  BY DEF Covered
<1> USE DEF TypeInv
<1>1. CASE SourceSend
  <2>1. next \in Lines
    BY <1>1, SizesAssumption DEF SourceSend, TypeOK, Lines
  <2>2. Elems(lineCh') = Elems(lineCh) \cup {next} /\ next' = next + 1
    BY <1>1, <2>1, ElemsAppend DEF SourceSend, TypeOK
  <2>3. l >= next => l >= next' \/ l = next
    BY <2>1, <2>2 DEF Lines
  <2> QED
    BY <1>1, <2>2, <2>3 DEF SourceSend, dispVars, workVars, Somewhere
<1>2. CASE SourceClose
  BY <1>2 DEF SourceClose, dispVars, workVars, Somewhere
<1>3. CASE DispatchRecv
  <2>1. Elems(lineCh) = {hand'} \cup Elems(lineCh')
    BY <1>3, ElemsTail DEF DispatchRecv, TypeOK
  <2>2. l # hand
    BY <1>3 DEF DispatchRecv, HandOK
  <2> QED
    BY <1>3, <2>1, <2>2 DEF DispatchRecv, workVars, Somewhere
<1>4. ASSUME NEW w \in Worker, SendTo(w), hand \in Lines,
             UNCHANGED <<srcVars, workVars, dropped>>
      PROVE  Somewhere(l)'
  <2>1. /\ Elems(chan'[w]) = Elems(chan[w]) \cup {hand}
        /\ \A v \in Worker : v # w => chan'[v] = chan[v]
    BY <1>4, SendToType
  <2>2. \A v \in Worker : Elems(chan[v]) \subseteq Elems(chan'[v])
    <3> SUFFICES ASSUME NEW v \in Worker
                 PROVE  Elems(chan[v]) \subseteq Elems(chan'[v])
      OBVIOUS
    <3>1. CASE v = w
      BY <3>1, <2>1
    <3>2. CASE v # w
      BY <3>2, <2>1
    <3> QED
      BY <3>1, <3>2
  <2>3. l = hand => l \in Elems(chan'[w])
    BY <2>1
  <2> QED
    BY <1>4, <2>2, <2>3 DEF srcVars, workVars, Somewhere
<1>5. CASE DispatchOffer
  <2>1. hand \in Lines
    BY <1>5 DEF DispatchOffer, HandOK
  <2> DEFINE w == (Affine(hand) + offset) % NWorkers
  <2>2. w \in Worker
    BY <2>1, TargetIsWorker DEF TypeOK
  <2> HIDE DEF w
  <2>3. CASE SendTo(w)
    BY <1>4, <1>5, <2>1, <2>2, <2>3 DEF DispatchOffer
  <2>4. CASE NextTarget /\ UNCHANGED chan
    BY <1>5, <2>4 DEF DispatchOffer, NextTarget, srcVars, workVars, Somewhere
  <2> QED
    BY <1>5, <2>3, <2>4 DEF DispatchOffer, w
<1>6. CASE DispatchBlockedSend
  <2>1. hand \in Lines /\ Affine(hand) \in Worker
    BY <1>6, LinesFacts, TargetIsWorker DEF DispatchBlockedSend, HandOK
  <2> QED
    BY <1>4, <1>6, <2>1 DEF DispatchBlockedSend
<1>7. CASE DispatchCancelled
  BY <1>7 DEF DispatchCancelled, srcVars, workVars, Somewhere
<1>8. CASE DispatchEOF
  BY <1>8 DEF DispatchEOF, srcVars, workVars, Somewhere
<1>9. ASSUME NEW w \in Worker, WorkerLine(w)
      PROVE  Somewhere(l)'
  <2> DEFINE h == Head(chan[w])
  <2>1. Elems(chan[w]) = {h} \cup Elems(Tail(chan[w])) /\ h \in Lines
    BY <1>9, ElemsTail DEF WorkerLine, TypeOK
  <2>2. \A v \in Worker : chan'[v] = IF v = w THEN Tail(chan[w]) ELSE chan[v]
    BY <1>9 DEF WorkerLine, TypeOK
  <2>3. \/ \E c \in Coll : batch' = [batch EXCEPT ![w][c] = @ \cup {h}] /\ filtered' = filtered
        \/ batch' = batch /\ filtered' = filtered \cup {h}
    BY <1>9 DEF WorkerLine, Coll
  <2>4. /\ \A v \in Worker : \A c \in Coll : batch[v][c] \subseteq batch'[v][c]
        /\ filtered \subseteq filtered'
        /\ h \in filtered' \/ \E c \in Coll : h \in batch'[w][c]
    <3>1. CASE batch' = batch /\ filtered' = filtered \cup {h}
      BY <3>1
    <3>2. ASSUME NEW c \in Coll, batch' = [batch EXCEPT ![w][c] = @ \cup {h}],
                 filtered' = filtered
          PROVE  /\ \A v \in Worker : \A d \in Coll : batch[v][d] \subseteq batch'[v][d]
                 /\ filtered \subseteq filtered'
                 /\ h \in batch'[w][c]
      BY <3>2 DEF TypeOK
    <3> QED
      BY <2>3, <3>1, <3>2
  <2>5. UNCHANGED <<stored, failed, next, lineCh, hand, dropped>>
    BY <1>9 DEF WorkerLine, srcVars
  <2>6. \A v \in Worker : l \in Elems(chan[v]) => l \in Elems(chan'[v]) \/ l = h
    BY <2>1, <2>2
  <2> QED
    BY <2>4, <2>5, <2>6 DEF Somewhere
<1>10. ASSUME NEW w \in Worker, WorkerTick(w) \/ WorkerEOF(w) \/ WorkerCancelled(w)
       PROVE  Somewhere(l)'
  BY <1>10 DEF WorkerTick, WorkerEOF, WorkerCancelled, srcVars, dispVars, Somewhere
<1>11. ASSUME NEW w \in Worker, WorkerFlush(w)
       PROVE  Somewhere(l)'
  <2>0. PICK c \in Coll :
          /\ \E written \in SUBSET batch[w][c] :
               /\ stored' = [stored EXCEPT ![c] = @ \cup written]
               /\ failed' = failed \cup (batch[w][c] \ written)
          /\ batch' = [batch EXCEPT ![w][c] = {}]
          /\ UNCHANGED <<filtered, srcVars, dispVars, dropped>>
    BY <1>11 DEF WorkerFlush, ResetBatch
  <2>1. PICK written \in SUBSET batch[w][c] :
          /\ stored' = [stored EXCEPT ![c] = @ \cup written]
          /\ failed' = failed \cup (batch[w][c] \ written)
    BY <2>0
  <2>2. stored'[c] = stored[c] \cup written /\ \A d \in Coll : stored[d] \subseteq stored'[d]
    BY <2>1 DEF TypeOK
  <2>3. \A v \in Worker : \A d \in Coll :
          batch[v][d] \subseteq batch'[v][d] \cup stored'[c] \cup failed'
    <3> SUFFICES ASSUME NEW v \in Worker, NEW d \in Coll
                 PROVE  batch[v][d] \subseteq batch'[v][d] \cup stored'[c] \cup failed'
      OBVIOUS
    <3>1. CASE v = w /\ d = c
      BY <2>1, <2>2, <3>1
    <3>2. CASE v # w \/ d # c
      BY <2>0, <3>2 DEF TypeOK
    <3> QED
      BY <3>1, <3>2
  <2> QED
    BY <2>0, <2>1, <2>2, <2>3 DEF srcVars, dispVars, Somewhere
<1>12. CASE Cancel \/ Return
  BY <1>12 DEF Cancel, Return, srcVars, dispVars, workVars, Somewhere
<1>13. CASE UNCHANGED vars
  BY <1>13 DEF vars, srcVars, dispVars, workVars, Somewhere
<1> QED
  BY <1>1, <1>2, <1>3, <1>5, <1>6, <1>7, <1>8, <1>9, <1>10, <1>11, <1>12, <1>13
  DEF Next, Source, Dispatcher, WorkerStep, Finished

(* Somewhere names a place. *)
LEMMA CoveredPlaces == TypeInv /\ Covered => NoLineVanishes
<1> SUFFICES ASSUME TypeInv, NEW l \in Lines, Somewhere(l)
             PROVE  \E p \in Places : l \in LinesAt(p)
  BY DEF Covered, NoLineVanishes
<1>1. CASE l >= next
  <2>1. <<"unread">> \in Places /\ LinesAt(<<"unread">>) = next .. NLines
    BY DEF Places, LinesAt
  <2>2. l \in next .. NLines
    BY <1>1 DEF TypeInv, TypeOK, Lines
  <2> QED
    BY <2>1, <2>2
<1>2. CASE l \in Elems(lineCh)
  <2>1. <<"lineCh">> \in Places /\ LinesAt(<<"lineCh">>) = Elems(lineCh)
    BY DEF Places, LinesAt
  <2> QED
    BY <1>2, <2>1
<1>3. CASE l = hand
  <2>1. <<"hand">> \in Places /\ LinesAt(<<"hand">>) = {hand} \ {0}
    BY DEF Places, LinesAt
  <2> QED
    BY <1>3, <2>1, LinesFacts
<1>4. ASSUME NEW w \in Worker, l \in Elems(chan[w])
      PROVE  \E p \in Places : l \in LinesAt(p)
  <2>1. <<"chan", w>> \in Places /\ LinesAt(<<"chan", w>>) = Elems(chan[w])
    BY DEF Places, LinesAt
  <2> QED
    BY <1>4, <2>1
<1>5. ASSUME NEW w \in Worker, NEW c \in Coll, l \in batch[w][c]
      PROVE  \E p \in Places : l \in LinesAt(p)
  <2>1. <<"batch", w, c>> \in Places /\ LinesAt(<<"batch", w, c>>) = batch[w][c]
    BY DEF Places, LinesAt
  <2> QED
    BY <1>5, <2>1
<1>6. ASSUME NEW c \in Coll, l \in stored[c]
      PROVE  \E p \in Places : l \in LinesAt(p)
  <2>1. <<"stored", c>> \in Places /\ LinesAt(<<"stored", c>>) = stored[c]
    BY DEF Places, LinesAt
  <2> QED
    BY <1>6, <2>1
<1>7. CASE l \in filtered \cup dropped \cup failed
  <2>1. /\ <<"filtered">> \in Places /\ LinesAt(<<"filtered">>) = filtered
        /\ <<"dropped">> \in Places /\ LinesAt(<<"dropped">>) = dropped
        /\ <<"failed">> \in Places /\ LinesAt(<<"failed">>) = failed
    BY DEF Places, LinesAt
  <2> QED
    BY <1>7, <2>1
<1> QED
  BY <1>1, <1>2, <1>3, <1>4, <1>5, <1>6, <1>7 DEF Somewhere

LEMMA CoveredInvariance == Spec => []Covered
  BY TypeInvariance, CoveredInit, CoveredStep, PTL DEF Spec

(* Dispatching, spilling, batching, flushing and cancelling never lose track *)
(* of a line: it is always in a channel, a batch, a collection, or among     *)
(* those the filter, a failed write or the dispatcher's exit disposed of.    *)
THEOREM LinesAccounted == Spec => []NoLineVanishes
  BY TypeInvariance, CoveredInvariance, CoveredPlaces, PTL

-----------------------------------------------------------------------------
(* A run that nobody stopped, on a database that does not fail, is complete. *)

(* The lines that belong in a collection. *)
OfColl(c) ==
  {l \in Lines : CASE c = "user"  -> Class[l] = "user"
                   [] c = "event" -> Class[l] = "event"
                   [] c = "dead"  -> Class[l] = "bad"}

(* The end travels down the pipeline: source, dispatcher, channels, workers.  *)
EndInOrder ==
  /\ srcClosed => next > NLines
  /\ dpc = "done" => srcClosed /\ lineCh = <<>>
  /\ chClosed => dpc = "done"
  /\ returned => \A w \in Worker : wpc[w] = "exited"

(* A worker that saw its channel closed empties its batches, one by one.      *)
LastFlush(w) ==
  /\ wctx[w] = "background" => chClosed /\ chan[w] = <<>> /\ wpc[w] # "select"
  /\ wpc[w] = "exited" => wctx[w] = "background" /\ \A c \in Coll : batch[w][c] = {}
  /\ wctx[w] = "background" /\ wpc[w] \in {"event", "dead"} => batch[w]["user"] = {}
  /\ wctx[w] = "background" /\ wpc[w] = "dead" => batch[w]["event"] = {}

(* Nothing is lost or misfiled on the way. *)
InPlace ==
  /\ failed = {} /\ dropped = {}
  /\ \A w \in Worker : \A c \in Coll : batch[w][c] \subseteq OfColl(c)
  /\ \A c \in Coll : stored[c] \subseteq OfColl(c)
  /\ \A l \in filtered : Class[l] = "filtered"

Undisturbed == EndInOrder /\ \A w \in Worker : LastFlush(w)

(* A failing database may misfile and lose lines, but not change the order    *)
(* in which the parts of the pipeline end.                                    *)
QuietInv == ~stopped => Undisturbed

CleanInv == ~stopped /\ ~DBFaults => InPlace

LEMMA QuietInit == Init => QuietInv /\ CleanInv
<1> SUFFICES ASSUME Init
             PROVE  Undisturbed /\ InPlace
  BY DEF QuietInv, CleanInv
<1>1. EndInOrder
  BY DEF Init, EndInOrder
<1>2. \A w \in Worker : LastFlush(w)
  BY DEF Init, LastFlush
<1>3. InPlace
  BY DEF Init, InPlace
<1> QED
  BY <1>1, <1>2, <1>3 DEF Undisturbed

(* While a dispatcher or a worker still runs, the run has not returned. *)
LEMMA NotReturned ==
  ASSUME TypeInv, Undisturbed,
         dpc # "done" \/ ~srcClosed \/ \E w \in Worker : wpc[w] # "exited"
  PROVE  ~returned
  BY LinesFacts DEF Undisturbed, EndInOrder, LastFlush, TypeInv, TypeOK

(* A cancelled context stays cancelled. *)
LEMMA StoppedStays == [Next]_vars /\ ~stopped' => ~stopped
<1>1. Source \/ Dispatcher => UNCHANGED stopped
  BY DEF Source, SourceSend, SourceClose, Dispatcher, DispatchRecv, DispatchOffer,
         DispatchBlockedSend, DispatchCancelled, DispatchEOF, runVars
<1>2. \A w \in Worker : WorkerStep(w) => UNCHANGED stopped
  BY DEF WorkerStep, WorkerLine, WorkerTick, WorkerEOF, WorkerCancelled,
         WorkerFlush, runVars
<1>3. Return \/ UNCHANGED vars => UNCHANGED stopped
  BY DEF Return, vars, runVars
<1>4. Cancel => stopped'
  BY DEF Cancel
<1> QED
  BY <1>1, <1>2, <1>3, <1>4 DEF Next, Finished

LEMMA QuietStep == TypeInv /\ QuietInv /\ [Next]_vars => QuietInv'
<1> SUFFICES ASSUME TypeInv, Undisturbed, [Next]_vars, ~stopped, ~stopped'
             PROVE  Undisturbed'
  BY StoppedStays DEF QuietInv
<1> USE DEF TypeInv, Undisturbed
<1>1. CASE SourceSend
  <2>1. dpc # "done"
    BY <1>1 DEF SourceSend, EndInOrder
  <2>2. EndInOrder'
    BY <1>1, <2>1 DEF SourceSend, dispVars, workVars, runVars, EndInOrder
  <2>3. (\A w \in Worker : LastFlush(w))'
    BY <1>1 DEF SourceSend, dispVars, workVars, LastFlush
  <2> QED
    BY <2>2, <2>3
<1>2. CASE SourceClose
  <2>1. ~returned
    BY <1>2, NotReturned DEF SourceClose
  <2>2. EndInOrder'
    BY <1>2, <2>1 DEF SourceClose, CtxDone, dispVars, workVars, runVars, EndInOrder
  <2>3. (\A w \in Worker : LastFlush(w))'
    BY <1>2 DEF SourceClose, dispVars, workVars, LastFlush
  <2> QED
    BY <2>2, <2>3
<1>3. CASE DispatchRecv
  BY <1>3 DEF DispatchRecv, workVars, runVars, EndInOrder, LastFlush
<1>4. ASSUME NEW w \in Worker, SendTo(w), hand \in Lines,
             UNCHANGED <<chClosed, srcVars, workVars, runVars, dropped>>
      PROVE  Undisturbed'
  <2>1. dpc # "done" /\ ~chClosed /\ dpc' = "recv"
    BY <1>4 DEF SendTo, EndInOrder, HandOK
  <2>2. EndInOrder'
    BY <1>4, <2>1 DEF srcVars, workVars, runVars, EndInOrder
  <2>3. (\A v \in Worker : LastFlush(v))'
    BY <1>4, <2>1 DEF workVars, LastFlush
  <2> QED
    BY <2>2, <2>3
<1>5. CASE DispatchOffer
  <2>1. hand \in Lines
    BY <1>5 DEF DispatchOffer, HandOK
  <2> DEFINE w == (Affine(hand) + offset) % NWorkers
  <2>2. w \in Worker
    BY <2>1, TargetIsWorker DEF TypeOK
  <2> HIDE DEF w
  <2>3. CASE SendTo(w)
    BY <1>4, <1>5, <2>1, <2>2, <2>3 DEF DispatchOffer
  <2>4. CASE NextTarget /\ UNCHANGED chan
    <3>1. dpc # "done" /\ dpc' # "done" /\ ~chClosed
      BY <1>5, <2>4 DEF DispatchOffer, NextTarget, EndInOrder
    <3> QED
      BY <1>5, <2>4, <3>1
      DEF DispatchOffer, srcVars, workVars, runVars, EndInOrder, LastFlush
  <2> QED
    BY <1>5, <2>3, <2>4 DEF DispatchOffer, w
<1>6. CASE DispatchBlockedSend
  <2>1. hand \in Lines /\ Affine(hand) \in Worker
    BY <1>6, LinesFacts, TargetIsWorker DEF DispatchBlockedSend, HandOK
  <2> QED
    BY <1>4, <1>6, <2>1 DEF DispatchBlockedSend
<1>7. CASE DispatchCancelled
  <2>1. ~returned
    BY <1>7, NotReturned DEF DispatchCancelled
  <2> QED
    BY <1>7, <2>1 DEF DispatchCancelled, CtxDone
<1>8. CASE DispatchEOF
  BY <1>8 DEF DispatchEOF, srcVars, workVars, runVars, EndInOrder, LastFlush
<1>9. ASSUME NEW w \in Worker, WorkerLine(w)
      PROVE  Undisturbed'
  <2>1. ~returned /\ ~CtxDone
    BY <1>9, NotReturned DEF WorkerLine, CtxDone
  <2> DEFINE h == Head(chan[w])
  <2>3. wctx[w] # "background"
    BY <1>9 DEF WorkerLine, LastFlush
  <2>4. \/ UNCHANGED <<wpc, wctx>>
        \/ /\ wpc' = [wpc EXCEPT ![w] = "user"]
           /\ wctx' = [wctx EXCEPT ![w] = "run"]
    BY <1>9 DEF WorkerLine, BeginFlush
  <2>5. /\ chan' = [chan EXCEPT ![w] = Tail(@)]
        /\ UNCHANGED <<stored, failed, srcVars, dpc, hand, offset, chClosed, runVars, dropped>>
    BY <1>9 DEF WorkerLine
  <2>6. \/ \E c \in Coll : batch' = [batch EXCEPT ![w][c] = @ \cup {h}]
        \/ batch' = batch
    BY <1>9 DEF WorkerLine, Coll
  <2>7. EndInOrder'
    <3>1. returned' = returned
      BY <2>5 DEF runVars
    <3> QED
      BY <2>1, <2>5, <3>1 DEF srcVars, EndInOrder
  <2>8. ASSUME NEW v \in Worker
        PROVE  LastFlush(v)'
    <3>1. CASE v = w
      <4>1. wctx'[w] = "run" /\ wpc'[w] \in {"select", "user"}
        BY <1>9, <2>3, <2>4 DEF WorkerLine, TypeOK
      <4> QED
        BY <3>1, <4>1 DEF LastFlush
    <3>2. CASE v # w
      <4>1. wctx'[v] = wctx[v] /\ wpc'[v] = wpc[v] /\ chan'[v] = chan[v]
        BY <2>4, <2>5, <3>2 DEF TypeOK
      <4>2. \A c \in Coll : batch'[v][c] = batch[v][c]
        BY <2>6, <3>2 DEF TypeOK
      <4> QED
        BY <2>5, <4>1, <4>2 DEF LastFlush, Coll
    <3> QED
      BY <3>1, <3>2
  <2> QED
    BY <2>7, <2>8
<1>10. ASSUME NEW w \in Worker, WorkerTick(w) \/ WorkerEOF(w)
       PROVE  Undisturbed'
  <2>1. ~returned /\ wpc[w] = "select"
    BY <1>10, NotReturned DEF WorkerTick, WorkerEOF
  <2>2. /\ wpc' = [wpc EXCEPT ![w] = "user"]
        /\ \/ wctx' = [wctx EXCEPT ![w] = "run"]
           \/ /\ wctx' = [wctx EXCEPT ![w] = "background"]
              /\ chClosed /\ chan[w] = <<>>
    BY <1>10 DEF WorkerTick, WorkerEOF, BeginFlush
  <2>3. UNCHANGED <<batch, stored, filtered, failed, stamp, srcVars, dispVars, runVars, dropped>>
    BY <1>10 DEF WorkerTick, WorkerEOF
  <2>4. EndInOrder'
    BY <2>1, <2>3 DEF srcVars, dispVars, runVars, EndInOrder
  <2>5. ASSUME NEW v \in Worker
        PROVE  LastFlush(v)'
    <3>1. CASE v = w
      BY <2>2, <2>3, <3>1 DEF dispVars, LastFlush, TypeOK
    <3>2. CASE v # w
      BY <2>2, <2>3, <3>2 DEF dispVars, LastFlush, TypeOK
    <3> QED
      BY <3>1, <3>2
  <2> QED
    BY <2>4, <2>5
<1>11. ASSUME NEW w \in Worker, WorkerCancelled(w)
       PROVE  Undisturbed'
  <2>1. ~returned
    BY <1>11, NotReturned DEF WorkerCancelled
  <2> QED
    BY <1>11, <2>1 DEF WorkerCancelled, CtxDone
<1>12. ASSUME NEW w \in Worker, WorkerFlush(w)
       PROVE  Undisturbed'
  <2>1. PICK c \in Coll :
          /\ wpc[w] = c
          /\ \E written \in SUBSET batch[w][c] :
               /\ \/ written = batch[w][c]
                  \/ WriteMayFail(w)
               /\ stored' = [stored EXCEPT ![c] = @ \cup written]
               /\ failed' = failed \cup (batch[w][c] \ written)
          /\ batch' = [batch EXCEPT ![w][c] = {}]
          /\ AfterFlush(w, c)
          /\ UNCHANGED <<wctx, filtered, stamp, srcVars, dispVars, runVars, dropped>>
    BY <1>12 DEF WorkerFlush, ResetBatch
  <2>2. ~returned
    BY <2>1, NotReturned DEF Coll
  <2>5. EndInOrder'
    BY <2>1, <2>2 DEF srcVars, dispVars, runVars, EndInOrder
  <2>7. ASSUME NEW v \in Worker
        PROVE  LastFlush(v)'
    <3>1. CASE v = w
      <4>1. /\ wctx'[w] = wctx[w] /\ chan'[w] = chan[w] /\ chClosed' = chClosed
            /\ batch'[w] = [batch[w] EXCEPT ![c] = {}]
            /\ wpc'[w] = CASE c = "user"  -> "event"
                           [] c = "event" -> "dead"
                           [] c = "dead"  -> IF wctx[w] = "run" THEN "select" ELSE "exited"
        BY <2>1 DEF AfterFlush, dispVars, TypeOK
      <4>2. wctx[w] \in {"run", "background"} /\ DOMAIN batch[w] = Coll
        BY DEF TypeOK
      <4>3. CASE c = "user"
        BY <2>1, <3>1, <4>1, <4>2, <4>3 DEF LastFlush, Coll
      <4>4. CASE c = "event"
        BY <2>1, <3>1, <4>1, <4>2, <4>4 DEF LastFlush, Coll
      <4>5. CASE c = "dead"
        BY <2>1, <3>1, <4>1, <4>2, <4>5 DEF LastFlush, Coll
      <4> QED
        BY <4>3, <4>4, <4>5 DEF Coll
    <3>2. CASE v # w
      <4>1. /\ wctx'[v] = wctx[v] /\ wpc'[v] = wpc[v] /\ chan'[v] = chan[v]
            /\ batch'[v] = batch[v] /\ chClosed' = chClosed
        BY <2>1, <3>2 DEF AfterFlush, dispVars, TypeOK
      <4> QED
        BY <4>1 DEF LastFlush
    <3> QED
      BY <3>1, <3>2
  <2> QED
    BY <2>5, <2>7
<1>13. CASE Return
  BY <1>13 DEF Return, srcVars, dispVars, workVars, EndInOrder, LastFlush
<1>14. CASE Cancel
  BY <1>14 DEF Cancel
<1>15. CASE UNCHANGED vars
  BY <1>15 DEF vars, srcVars, dispVars, workVars, runVars, EndInOrder, LastFlush
<1> QED
  BY <1>1, <1>2, <1>3, <1>5, <1>6, <1>7, <1>8, <1>9, <1>10, <1>11, <1>12, <1>13, <1>14, <1>15
  DEF Next, Source, Dispatcher, WorkerStep, Finished

(* What ~stopped and ~DBFaults leave of each action keeps the lines in place. *)
LEMMA CleanStep == TypeInv /\ QuietInv /\ CleanInv /\ [Next]_vars => CleanInv'
<1> SUFFICES ASSUME TypeInv, Undisturbed, InPlace, [Next]_vars,
                    ~stopped, ~stopped', ~DBFaults
             PROVE  InPlace'
  BY StoppedStays DEF QuietInv, CleanInv
<1> USE DEF TypeInv
<1>1. CASE Source \/ DispatchRecv \/ DispatchOffer \/ DispatchBlockedSend \/ DispatchEOF
  BY <1>1 DEF Source, SourceSend, SourceClose, DispatchRecv, DispatchOffer,
              DispatchBlockedSend, DispatchEOF, dispVars, workVars, InPlace
<1>2. CASE DispatchCancelled
  BY <1>2, NotReturned DEF DispatchCancelled, CtxDone
<1>3. ASSUME NEW w \in Worker, WorkerLine(w)
      PROVE  InPlace'
  <2>1. ~CtxDone
    BY <1>3, NotReturned DEF WorkerLine, CtxDone
  <2> DEFINE h == Head(chan[w])
  <2>2. h \in Lines
    BY <1>3, ElemsTail DEF WorkerLine, TypeOK
  <2>3. UNCHANGED <<stored, failed, dropped>>
    BY <1>3 DEF WorkerLine
  <2>4. \/ \E c \in Coll : /\ h \in OfColl(c)
                          /\ batch' = [batch EXCEPT ![w][c] = @ \cup {h}]
                          /\ filtered' = filtered
        \/ Class[h] = "filtered" /\ batch' = batch /\ filtered' = filtered \cup {h}
    <3>1. PICK o \in Outcomes(h) : Processed(w, h, o)
      BY <1>3, LineProcessed
    <3>2. Class[h] \in {"bad", "filtered", "user", "event"}
      BY <2>2, LinesAssumption
    <3>3. /\ o # "identityError"
          /\ o = "parseError" => Class[h] = "bad"
          /\ o \in {"filtered", "user", "event"} => Class[h] = o
      BY <2>1, <3>2 DEF Outcomes
    <3> QED
      BY <2>2, <3>1, <3>3 DEF Processed, Coll, OfColl
  <2>5. ASSUME NEW v \in Worker, NEW c \in Coll
        PROVE  batch'[v][c] \subseteq OfColl(c)
    <3>1. batch[v][c] \subseteq OfColl(c)
      BY DEF InPlace
    <3>2. ASSUME NEW d \in Coll, h \in OfColl(d),
                 batch' = [batch EXCEPT ![w][d] = @ \cup {h}]
          PROVE  batch'[v][c] \subseteq OfColl(c)
      <4>1. CASE v = w /\ c = d
        BY <3>1, <3>2, <4>1 DEF TypeOK
      <4>2. CASE v # w \/ c # d
        BY <3>1, <3>2, <4>2 DEF TypeOK
      <4> QED
        BY <4>1, <4>2
    <3> QED
      BY <2>4, <3>1, <3>2
  <2>6. \A l \in filtered' : Class[l] = "filtered"
    BY <2>4 DEF InPlace
  <2> QED
    BY <2>3, <2>5, <2>6 DEF InPlace, OfColl
<1>4. ASSUME NEW w \in Worker, WorkerTick(w) \/ WorkerEOF(w) \/ WorkerCancelled(w)
      PROVE  InPlace'
  BY <1>4 DEF WorkerTick, WorkerEOF, WorkerCancelled, InPlace
<1>5. ASSUME NEW w \in Worker, WorkerFlush(w)
      PROVE  InPlace'
  <2>0. PICK c \in Coll : \E written \in SUBSET batch[w][c] :
          /\ wpc[w] = c
          /\ written = batch[w][c] \/ WriteMayFail(w)
          /\ Flushed(w, c, written)
    BY <1>5, BatchFlushed
  <2>1. PICK written \in SUBSET batch[w][c] :
          /\ wpc[w] = c
          /\ written = batch[w][c] \/ WriteMayFail(w)
          /\ Flushed(w, c, written)
    BY <2>0
  <2>2. ~WriteMayFail(w)
    BY <2>1, NotReturned DEF WriteMayFail, CtxDone, Coll
  <2>3. stored' = [stored EXCEPT ![c] = @ \cup batch[w][c]] /\ failed' = failed
    BY <2>1, <2>2 DEF Flushed
  <2>4. \A v \in Worker : \A d \in Coll : batch'[v][d] \subseteq batch[v][d]
    BY <2>1 DEF Flushed, TypeOK
  <2>5. \A d \in Coll : stored'[d] \subseteq OfColl(d)
    BY <2>3 DEF TypeOK, InPlace
  <2> QED
    BY <2>1, <2>3, <2>4, <2>5 DEF Flushed, InPlace, OfColl
<1>6. CASE Cancel \/ Return \/ UNCHANGED vars
  BY <1>6 DEF Cancel, Return, vars, srcVars, dispVars, workVars, InPlace
<1> QED
  BY <1>1, <1>2, <1>3, <1>4, <1>5, <1>6 DEF Next, Source, Dispatcher, WorkerStep, Finished

(* When the end has come to every worker, only the collections hold lines. *)
LEMMA QuietSettled ==
  ASSUME TypeInv, Undisturbed, returned, NEW l \in Lines, Somewhere(l)
  PROVE  l \in filtered \cup dropped \cup failed \/ \E c \in Coll : l \in stored[c]
<1>1. \A w \in Worker : /\ chan[w] = <<>> /\ chClosed
                        /\ \A c \in Coll : batch[w][c] = {}
  BY DEF Undisturbed, EndInOrder, LastFlush
<1>2. dpc = "done" /\ next > NLines /\ lineCh = <<>>
  BY <1>1, LinesFacts DEF Undisturbed, EndInOrder
<1>3. Elems(<<>>) = {}
  BY DEF Elems
<1>4. l # hand
  BY <1>2 DEF TypeInv, HandOK
<1>5. ~(l >= next)
  BY <1>2, SizesAssumption DEF Lines, TypeInv, TypeOK
<1> QED
  BY <1>1, <1>2, <1>3, <1>4, <1>5 DEF Somewhere

LEMMA QuietComplete == TypeInv /\ Covered /\ QuietInv /\ CleanInv => CompleteReturn
<1> SUFFICES ASSUME TypeInv, Undisturbed, InPlace, returned,
                    NEW l \in Lines, Somewhere(l)
             PROVE  l \in Destination(l)
  BY DEF Covered, QuietInv, CleanInv, CompleteReturn
<1>1. l \in filtered \/ \E c \in Coll : l \in stored[c]
  BY QuietSettled DEF InPlace
<1> QED
  BY <1>1 DEF InPlace, Coll, OfColl, Destination

LEMMA QuietInvariance == Spec => [](QuietInv /\ CleanInv)
  BY TypeInvariance, QuietInit, QuietStep, CleanStep, PTL DEF Spec

(* Whatever the number of workers, the routing and the batch sizes, a run    *)
(* that nobody stopped, on a database that does not fail, returns only when  *)
(* every line of its source is in the collection it belongs in.              *)
THEOREM ReturnIsComplete == Spec => []CompleteReturn
  BY TypeInvariance, CoveredInvariance, QuietInvariance, QuietComplete, PTL

-----------------------------------------------------------------------------
(* No batch outgrows its capacity. *)

(* The sizes the threshold works with are in order, whatever was configured. *)
LEMMA SanitizedOrdered ==
  ASSUME NEW a \in Int, NEW b \in Int, NEW c \in Int
  PROVE  /\ Sanitized(a, b, c).min \in Nat \ {0}
         /\ Sanitized(a, b, c).initial \in Nat \ {0}
         /\ Sanitized(a, b, c).max \in Nat \ {0}
         /\ Sanitized(a, b, c).min <= Sanitized(a, b, c).initial
         /\ Sanitized(a, b, c).initial <= Sanitized(a, b, c).max
         /\ 0 < a /\ a <= b /\ b <= c => Sanitized(a, b, c).max = c
  BY DEF Sanitized

LEMMA RoundQuotientType ==
  ASSUME NEW num \in Int, NEW den \in Nat \ {0}
  PROVE  RoundQuotient(num, den) \in Int
<1>1. 2 * num + den \in Int /\ 2 * den \in Nat \ {0}
  OBVIOUS
<1> QED
  BY <1>1 DEF RoundQuotient

(* Whatever the backlog, the threshold lies between the anchors. *)
LEMMA ThresholdBetween ==
  ASSUME NEW a \in Int, NEW b \in Int, NEW c \in Int,
         NEW backlog \in Int, NEW cap \in Int
  PROVE  /\ ComputeFlushThreshold(a, b, c, backlog, cap) \in Int
         /\ Sanitized(a, b, c).min <= ComputeFlushThreshold(a, b, c, backlog, cap)
         /\ ComputeFlushThreshold(a, b, c, backlog, cap) <= Sanitized(a, b, c).max
<1> DEFINE s == Sanitized(a, b, c)
           upper == RoundQuotient(s.max * cap - (s.max - s.initial) * 2 * backlog, cap)
           lower == RoundQuotient(s.initial * cap
                                  - (s.initial - s.min) * (2 * backlog - cap), cap)
           x == IF 2 * backlog <= cap THEN upper ELSE lower
           t == IF cap <= 0 \/ backlog <= 0 THEN s.max
                ELSE IF backlog >= cap THEN s.min ELSE ClampInt(x, s.min, s.max)
<1>1. t = ComputeFlushThreshold(a, b, c, backlog, cap)
  BY DEF ComputeFlushThreshold
<1> HIDE DEF s
<1>2. /\ s.min \in Nat \ {0} /\ s.initial \in Nat \ {0} /\ s.max \in Nat \ {0}
      /\ s.min <= s.initial /\ s.initial <= s.max
  BY SanitizedOrdered DEF s
<1>3. CASE cap <= 0 \/ backlog <= 0 \/ backlog >= cap
  BY <1>1, <1>2, <1>3 DEF s
<1>4. CASE cap > 0 /\ backlog > 0 /\ backlog < cap
  <2>1. cap \in Nat \ {0}
    BY <1>4
  <2>2. /\ s.max * cap - (s.max - s.initial) * 2 * backlog \in Int
        /\ s.initial * cap - (s.initial - s.min) * (2 * backlog - cap) \in Int
    BY <1>2
  <2>3. upper \in Int /\ lower \in Int
    BY <2>1, <2>2, RoundQuotientType
  <2> HIDE DEF upper, lower
  <2>4. x \in Int
    BY <2>3
  <2> HIDE DEF x
  <2>5. /\ ClampInt(x, s.min, s.max) \in Int
        /\ s.min <= ClampInt(x, s.min, s.max)
        /\ ClampInt(x, s.min, s.max) <= s.max
    BY <1>2, <2>4 DEF ClampInt
  <2>6. t = ClampInt(x, s.min, s.max)
    BY <1>4
  <2> QED
    BY <1>1, <2>5, <2>6 DEF s
<1> QED
  BY <1>3, <1>4

(* A worker never asks for a batch above MaxBatch. *)
LEMMA ThresholdBounded ==
  ASSUME NEW backlog \in Int
  PROVE  /\ ComputeFlushThreshold(MinBatch, BaseBatch, MaxBatch, backlog, ChanCap) \in Int
         /\ ComputeFlushThreshold(MinBatch, BaseBatch, MaxBatch, backlog, ChanCap) <= MaxBatch
<1>1. /\ MinBatch \in Int /\ BaseBatch \in Int /\ MaxBatch \in Int /\ ChanCap \in Int
      /\ 0 < MinBatch /\ MinBatch <= BaseBatch /\ BaseBatch <= MaxBatch
  BY SizesAssumption
<1>2. Sanitized(MinBatch, BaseBatch, MaxBatch).max = MaxBatch
  BY <1>1, SanitizedOrdered
<1> DEFINE t == ComputeFlushThreshold(MinBatch, BaseBatch, MaxBatch, backlog, ChanCap)
<1>3. t \in Int /\ t <= Sanitized(MinBatch, BaseBatch, MaxBatch).max
  BY <1>1, ThresholdBetween
<1> QED
  BY <1>2, <1>3

(* A worker that is selecting has room for one more record in each batch; the *)
(* flush empties the two batches in turn.                                     *)
BatchRoom(w) ==
  /\ \A c \in {"user", "event"} : Cardinality(batch[w][c]) <= MaxBatch
  /\ wpc[w] = "select" => \A c \in {"user", "event"} : Cardinality(batch[w][c]) < MaxBatch
  /\ wpc[w] \in {"event", "dead"} => batch[w]["user"] = {}
  /\ wpc[w] = "dead" => batch[w]["event"] = {}

RoomInv == \A w \in Worker : BatchRoom(w)

LEMMA EmptyFits == Cardinality({}) = 0 /\ 0 < MaxBatch /\ MaxBatch \in Nat
  BY FS_EmptySet, SizesAssumption

LEMMA RoomInit == Init => RoomInv
  BY EmptyFits DEF Init, RoomInv, BatchRoom, Coll

(* The batches of a worker that does not step stay as they are. *)
LEMMA RoomStep == TypeInv /\ RoomInv /\ [Next]_vars => RoomInv'
<1> SUFFICES ASSUME TypeInv, RoomInv, [Next]_vars
             PROVE  RoomInv'
  OBVIOUS
<1> USE DEF TypeInv
<1>1. CASE Source \/ Dispatcher \/ Cancel \/ Return \/ UNCHANGED vars
  <2>1. UNCHANGED <<batch, wpc>>
    BY <1>1 DEF Source, SourceSend, SourceClose, Dispatcher, DispatchRecv, DispatchOffer,
                DispatchBlockedSend, DispatchCancelled, DispatchEOF, Cancel, Return,
                vars, workVars
  <2> QED
    BY <2>1 DEF RoomInv, BatchRoom
<1>2. ASSUME NEW w \in Worker, BatchRoom(w)',
             \A v \in Worker \ {w} : batch'[v] = batch[v] /\ wpc'[v] = wpc[v]
      PROVE  RoomInv'
  BY <1>2 DEF RoomInv, BatchRoom
<1>3. ASSUME NEW w \in Worker, WorkerLine(w)
      PROVE  RoomInv'
  <2> DEFINE l == Head(chan[w])
             threshold == ComputeFlushThreshold(MinBatch, BaseBatch, MaxBatch,
                                                Len(chan[w]) - 1, ChanCap)
  <2>1. l \in Lines /\ wpc[w] = "select" /\ Len(chan[w]) - 1 \in Int
    BY <1>3, ElemsTail DEF WorkerLine, TypeOK
  <2>2. threshold \in Int /\ threshold <= MaxBatch
    BY <2>1, ThresholdBounded
  <2>3. PICK o \in Outcomes(l) :
          /\ Processed(w, l, o)
          /\ \/ wpc' = [wpc EXCEPT ![w] = "user"]
             \/ /\ wpc' = wpc
                /\ o \in {"user", "event"} => ~MustFlush(batch'[w], threshold)
    BY <1>3 DEF WorkerLine, Processed, BeginFlush
  <2> HIDE DEF l, threshold
  <2>4. \A v \in Worker \ {w} : batch'[v] = batch[v] /\ wpc'[v] = wpc[v]
    BY <2>3 DEF Processed, TypeOK
  <2>5. wpc'[w] \in {"select", "user"}
    BY <2>1, <2>3 DEF TypeOK
  <2>6. ASSUME NEW c \in {"user", "event"}
        PROVE  /\ Cardinality(batch[w][c]) \in Nat /\ Cardinality(batch'[w][c]) \in Nat
               /\ Cardinality(batch'[w][c]) <= Cardinality(batch[w][c]) + 1
               /\ o \notin {"user", "event"} => batch'[w][c] = batch[w][c]
    <3>1. batch[w][c] \subseteq Lines /\ IsFiniteSet(batch[w][c])
      BY LinesFacts, FS_Subset DEF TypeOK, Coll
    <3>2. batch'[w][c] \in {batch[w][c], batch[w][c] \cup {l}}
      BY <2>3 DEF Processed, TypeOK, Coll
    <3>3. o \notin {"user", "event"} => batch'[w][c] = batch[w][c]
      BY <2>3 DEF Processed, TypeOK, Coll
    <3>4. /\ IsFiniteSet(batch[w][c] \cup {l})
          /\ Cardinality(batch[w][c] \cup {l}) \in
               {Cardinality(batch[w][c]), Cardinality(batch[w][c]) + 1}
      BY <3>1, FS_AddElement
    <3>5. Cardinality(batch[w][c]) \in Nat
      BY <3>1, FS_CardinalityType
    <3>6. Cardinality(batch'[w][c]) \in {Cardinality(batch[w][c]), Cardinality(batch[w][c]) + 1}
      BY <3>2, <3>4
    <3> QED
      BY <3>3, <3>5, <3>6
  <2>7. \A c \in {"user", "event"} : Cardinality(batch[w][c]) < MaxBatch
    BY <2>1 DEF RoomInv, BatchRoom
  <2>8. \A c \in {"user", "event"} : Cardinality(batch'[w][c]) <= MaxBatch
    BY <2>6, <2>7, EmptyFits
  <2>9. ASSUME wpc'[w] = "select", NEW c \in {"user", "event"}
        PROVE  Cardinality(batch'[w][c]) < MaxBatch
    <3>1. o \in {"user", "event"} => ~MustFlush(batch'[w], threshold)
      BY <2>1, <2>3, <2>9 DEF TypeOK
    <3>2. CASE o \in {"user", "event"}
      <4>1. ~(Cardinality(batch'[w][c]) >= threshold)
        BY <3>1, <3>2 DEF MustFlush
      <4> QED
        BY <4>1, <2>2, <2>6, EmptyFits
    <3>3. CASE o \notin {"user", "event"}
      BY <3>3, <2>6, <2>7
    <3> QED
      BY <3>2, <3>3
  <2>10. BatchRoom(w)'
    BY <2>5, <2>8, <2>9 DEF BatchRoom
  <2> QED
    BY <1>2, <2>4, <2>10
<1>4. ASSUME NEW w \in Worker, WorkerTick(w) \/ WorkerEOF(w) \/ WorkerCancelled(w)
      PROVE  RoomInv'
  <2>1. wpc' = [wpc EXCEPT ![w] = "user"] /\ batch' = batch
    BY <1>4 DEF WorkerTick, WorkerEOF, WorkerCancelled, BeginFlush
  <2>2. \A v \in Worker \ {w} : batch'[v] = batch[v] /\ wpc'[v] = wpc[v]
    BY <2>1 DEF TypeOK
  <2>3. BatchRoom(w)'
    BY <2>1 DEF RoomInv, BatchRoom, TypeOK
  <2> QED
    BY <1>2, <2>2, <2>3
<1>5. ASSUME NEW w \in Worker, WorkerFlush(w)
      PROVE  RoomInv'
  <2>1. PICK c \in Coll : /\ wpc[w] = c
                          /\ batch' = [batch EXCEPT ![w][c] = {}]
                          /\ AfterFlush(w, c)
    BY <1>5, BatchFlushed DEF Flushed
  <2>2. \A v \in Worker \ {w} : batch'[v] = batch[v] /\ wpc'[v] = wpc[v]
    BY <2>1 DEF AfterFlush, TypeOK
  <2>3. \A d \in Coll : batch'[w][d] = IF d = c THEN {} ELSE batch[w][d]
    BY <2>1 DEF TypeOK
  <2>4. wpc'[w] = CASE c = "user"  -> "event"
                    [] c = "event" -> "dead"
                    [] c = "dead"  -> IF wctx[w] = "run" THEN "select" ELSE "exited"
    BY <2>1 DEF AfterFlush, TypeOK
  <2>5. BatchRoom(w)
    BY DEF RoomInv
  <2>6. BatchRoom(w)'
    <3>1. CASE c = "user"
      BY <2>1, <2>3, <2>4, <2>5, <3>1, EmptyFits DEF BatchRoom, Coll
    <3>2. CASE c = "event"
      BY <2>1, <2>3, <2>4, <2>5, <3>2, EmptyFits DEF BatchRoom, Coll
    <3>3. CASE c = "dead"
      BY <2>1, <2>3, <2>4, <2>5, <3>3, EmptyFits DEF BatchRoom, Coll
    <3> QED
      BY <3>1, <3>2, <3>3 DEF Coll
  <2> QED
    BY <1>2, <2>2, <2>6
<1> QED
  BY <1>1, <1>3, <1>4, <1>5 DEF Next, WorkerStep, Finished

(* Whatever the configured sizes and the backlog, no user or event batch     *)
(* outgrows the maximum it was allocated for.                                *)
THEOREM BatchesStayBounded == Spec => []BatchesBounded
<1>1. RoomInv => BatchesBounded
  BY DEF RoomInv, BatchRoom, BatchesBounded
<1> QED
  BY <1>1, TypeInvariance, RoomInit, RoomStep, PTL DEF Spec
=============================================================================
