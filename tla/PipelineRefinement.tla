------------------------- MODULE PipelineRefinement -------------------------
(***************************************************************************)
(* The pipeline implements the promise of an upload strategy (Upload), for  *)
(* every number of lines and workers, every routing and every capacity.     *)
(* The way there is that no line is ever in two places: what has settled a  *)
(* line settles it for good.  The order of the lines on their way, which    *)
(* this takes, also gives the order in which those of one user are parsed.  *)
(***************************************************************************)
EXTENDS PipelineProofs

-----------------------------------------------------------------------------
(* Lemmas about increasing sequences. *)

LEMMA IncreasingAppend ==
  ASSUME NEW s \in Seq(Lines), NEW e \in Lines, Increasing(s),
         \A x \in Elems(s) : x < e
  PROVE  Increasing(Append(s, e))
<1>1. DOMAIN Append(s, e) = 1 .. Len(s) + 1 /\ DOMAIN s = 1 .. Len(s) /\ Len(s) \in Nat
  OBVIOUS
<1>2. /\ \A i \in 1 .. Len(s) : Append(s, e)[i] = s[i] /\ s[i] < e
      /\ Append(s, e)[Len(s) + 1] = e
  BY <1>1 DEF Elems
<1> SUFFICES ASSUME NEW i \in 1 .. Len(s) + 1, NEW j \in 1 .. Len(s) + 1, i < j
             PROVE  Append(s, e)[i] < Append(s, e)[j]
  BY <1>1 DEF Increasing
<1>3. CASE j = Len(s) + 1
  BY <1>1, <1>2, <1>3
<1>4. CASE j # Len(s) + 1
  BY <1>1, <1>2, <1>4 DEF Increasing
<1> QED
  BY <1>3, <1>4

LEMMA IncreasingTail ==
  ASSUME NEW s \in Seq(Lines), s # <<>>, Increasing(s)
  PROVE  Increasing(Tail(s)) /\ \A x \in Elems(Tail(s)) : Head(s) < x
<1>1. /\ Len(s) \in Nat /\ Len(s) > 0 /\ DOMAIN s = 1 .. Len(s)
      /\ DOMAIN Tail(s) = 1 .. Len(s) - 1
      /\ Head(s) = s[1]
      /\ \A i \in 1 .. Len(s) - 1 : Tail(s)[i] = s[i + 1]
  OBVIOUS
<1>2. \A i, j \in 1 .. Len(s) - 1 : i < j => Tail(s)[i] < Tail(s)[j]
  BY <1>1 DEF Increasing
<1>3. \A i \in 1 .. Len(s) - 1 : Head(s) < Tail(s)[i]
  BY <1>1 DEF Increasing
<1> QED
  BY <1>1, <1>2, <1>3 DEF Increasing, Elems

-----------------------------------------------------------------------------
(* The lines on their way to the workers are in the order of the source. *)

InSourceOrder ==
  /\ Increasing(lineCh)
  /\ \A w \in Worker : Increasing(chan[w])
  /\ hand < next
  /\ \A l \in Elems(lineCh) : hand < l /\ l < next
  /\ \A w \in Worker : \A l \in Elems(chan[w]) :
       l < next /\ (hand # 0 => l < hand) /\ \A m \in Elems(lineCh) : l < m

LEMMA OrderInit == Init => InSourceOrder
<1>1. Elems(<<>>) = {} /\ Increasing(<<>>)
  BY DEF Elems, Increasing
<1> QED
  BY <1>1 DEF Init, InSourceOrder

LEMMA ElemsAreLines ==
  ASSUME TypeInv
  PROVE  /\ Elems(lineCh) \subseteq Lines
         /\ \A w \in Worker : Elems(chan[w]) \subseteq Lines
         /\ Lines \subseteq Nat /\ next \in Nat /\ 0 < next /\ hand \in Nat
         /\ \A l \in Lines : l \in Nat /\ 0 < l
<1>1. /\ Elems(lineCh) \subseteq Lines
      /\ \A w \in Worker : Elems(chan[w]) \subseteq Lines
  BY DEF TypeInv, TypeOK, Elems
<1>2. next \in Nat /\ 0 < next /\ Lines \subseteq Nat /\ \A l \in Lines : l \in Nat /\ 0 < l
  BY SizesAssumption DEF TypeInv, TypeOK, Lines
<1>3. hand \in Nat
  BY <1>2 DEF TypeInv, TypeOK
<1> QED
  BY <1>1, <1>2, <1>3

LEMMA OrderStep == TypeInv /\ InSourceOrder /\ [Next]_vars => InSourceOrder'
<1> SUFFICES ASSUME TypeInv, InSourceOrder, [Next]_vars
             PROVE  InSourceOrder'
  OBVIOUS
<1> USE DEF TypeInv
<1>0. /\ Elems(lineCh) \subseteq Lines
      /\ \A w \in Worker : Elems(chan[w]) \subseteq Lines
      /\ Lines \subseteq Nat /\ next \in Nat /\ 0 < next /\ hand \in Nat
      /\ \A l \in Lines : l \in Nat /\ 0 < l
  BY ElemsAreLines
<1>1. CASE SourceSend
  <2>1. next \in Lines
    BY <1>1, SizesAssumption DEF SourceSend, TypeOK, Lines
  <2>2. /\ Elems(lineCh') = Elems(lineCh) \cup {next} /\ next' = next + 1
        /\ UNCHANGED <<hand, chan>>
    BY <1>1, <2>1, ElemsAppend DEF SourceSend, dispVars, TypeOK
  <2>3. Increasing(lineCh')
    BY <1>1, <2>1, IncreasingAppend DEF SourceSend, InSourceOrder, TypeOK
  <2>4. \A l \in Nat : l < next => l < next'
    BY <1>0, <2>2
  <2>5. hand < next' /\ \A l \in Elems(lineCh) \cup {next} : hand < l /\ l < next'
    <3>1. hand < next /\ next < next' /\ \A l \in Elems(lineCh) : hand < l /\ l < next
      BY <1>0, <2>2 DEF InSourceOrder
    <3> QED
      BY <1>0, <2>4, <3>1
  <2>6. ASSUME NEW w \in Worker, NEW l \in Elems(chan[w])
        PROVE  l < next' /\ \A m \in Elems(lineCh) \cup {next} : l < m
    <3>1. l \in Nat /\ l < next /\ \A m \in Elems(lineCh) : l < m
      BY <1>0 DEF InSourceOrder
    <3> QED
      BY <2>4, <3>1
  <2> QED
    BY <2>2, <2>3, <2>5, <2>6 DEF InSourceOrder
<1>2. CASE DispatchRecv
  <2>1. /\ Elems(lineCh) = {hand'} \cup Elems(lineCh')
        /\ lineCh' = Tail(lineCh) /\ hand' = Head(lineCh)
        /\ UNCHANGED <<next, chan>>
    BY <1>2, ElemsTail DEF DispatchRecv, TypeOK
  <2>2. Increasing(Tail(lineCh)) /\ \A l \in Elems(Tail(lineCh)) : Head(lineCh) < l
    BY <1>2, IncreasingTail DEF DispatchRecv, InSourceOrder, TypeOK
  <2> QED
    BY <2>1, <2>2 DEF InSourceOrder
<1>3. ASSUME NEW w \in Worker, SendTo(w), hand \in Lines, UNCHANGED srcVars
      PROVE  InSourceOrder'
  <2>1. /\ Elems(chan'[w]) = Elems(chan[w]) \cup {hand}
        /\ \A v \in Worker : v # w => chan'[v] = chan[v]
        /\ hand' = 0
    BY <1>3, SendToType
  <2>2. hand # 0
    BY <1>3, LinesFacts
  <2>3. \A l \in Elems(chan[w]) : l < hand
    BY <2>2 DEF InSourceOrder
  <2>4. chan'[w] = Append(chan[w], hand)
    BY <1>3 DEF SendTo, TypeOK
  <2>5. chan[w] \in Seq(Lines)
    BY DEF TypeOK
  <2>6. Increasing(chan'[w])
    BY <1>3, <2>3, <2>4, <2>5, IncreasingAppend DEF InSourceOrder
  <2>7. ASSUME NEW v \in Worker
        PROVE  /\ Increasing(chan'[v])
               /\ \A l \in Elems(chan'[v]) : l < next /\ \A m \in Elems(lineCh) : l < m
    <3>1. CASE v = w
      BY <2>1, <2>6, <3>1 DEF InSourceOrder
    <3>2. CASE v # w
      BY <2>1, <3>2 DEF InSourceOrder
    <3> QED
      BY <3>1, <3>2
  <2>8. \A l \in Elems(lineCh) : 0 < l
    BY <1>0
  <2>9. 0 < next
    BY <1>0
  <2> QED
    BY <1>3, <2>1, <2>7, <2>8, <2>9 DEF srcVars, InSourceOrder
<1>4. CASE DispatchOffer
  <2>1. hand \in Lines
    BY <1>4 DEF DispatchOffer, HandOK
  <2> DEFINE w == (Affine(hand) + offset) % NWorkers
  <2>2. w \in Worker
    BY <2>1, TargetIsWorker DEF TypeOK
  <2> HIDE DEF w
  <2>3. CASE SendTo(w)
    BY <1>3, <1>4, <2>1, <2>2, <2>3 DEF DispatchOffer
  <2>4. CASE NextTarget /\ UNCHANGED chan
    BY <1>4, <2>4 DEF DispatchOffer, NextTarget, srcVars, InSourceOrder
  <2> QED
    BY <1>4, <2>3, <2>4 DEF DispatchOffer, w
<1>5. CASE DispatchBlockedSend
  <2>1. hand \in Lines /\ Affine(hand) \in Worker
    BY <1>5, LinesFacts, TargetIsWorker DEF DispatchBlockedSend, HandOK
  <2> QED
    BY <1>3, <1>5, <2>1 DEF DispatchBlockedSend
<1>6. CASE DispatchCancelled
  <2>1. hand' = 0 /\ UNCHANGED <<next, lineCh, chan>>
    BY <1>6 DEF DispatchCancelled, srcVars
  <2>2. 0 < next /\ \A l \in Elems(lineCh) : 0 < l
    BY <1>0
  <2> QED
    BY <2>1, <2>2 DEF InSourceOrder
<1>7. ASSUME NEW w \in Worker, WorkerLine(w)
      PROVE  InSourceOrder'
  <2>1. /\ chan' = [chan EXCEPT ![w] = Tail(@)]
        /\ UNCHANGED <<next, lineCh, hand>>
    BY <1>7 DEF WorkerLine, srcVars
  <2>2. chan[w] \in Seq(Lines) /\ chan[w] # <<>>
    BY <1>7 DEF WorkerLine, TypeOK
  <2>3. ASSUME NEW v \in Worker
        PROVE  Increasing(chan'[v]) /\ Elems(chan'[v]) \subseteq Elems(chan[v])
    <3>1. CASE v = w
      <4>1. chan'[w] = Tail(chan[w])
        BY <2>1 DEF TypeOK
      <4>2. Increasing(Tail(chan[w])) /\ Elems(Tail(chan[w])) \subseteq Elems(chan[w])
        BY <2>2, IncreasingTail, ElemsTail DEF InSourceOrder
      <4> QED
        BY <3>1, <4>1, <4>2
    <3>2. CASE v # w
      BY <2>1, <3>2 DEF InSourceOrder, TypeOK
    <3> QED
      BY <3>1, <3>2
  <2> QED
    BY <2>1, <2>3 DEF InSourceOrder
<1>8. CASE UNCHANGED <<next, lineCh, hand, chan>>
  BY <1>8 DEF InSourceOrder
<1>9. SourceClose \/ DispatchEOF \/ Cancel \/ Return \/ UNCHANGED vars
        => UNCHANGED <<next, lineCh, hand, chan>>
  BY DEF SourceClose, DispatchEOF, Cancel, Return, vars, srcVars, dispVars
<1>10. ASSUME NEW w \in Worker,
              WorkerTick(w) \/ WorkerEOF(w) \/ WorkerCancelled(w) \/ WorkerFlush(w)
       PROVE  UNCHANGED <<next, lineCh, hand, chan>>
  BY <1>10 DEF WorkerTick, WorkerEOF, WorkerCancelled, WorkerFlush, srcVars, dispVars
<1> QED
  BY <1>1, <1>2, <1>4, <1>5, <1>6, <1>7, <1>8, <1>9, <1>10
  DEF Next, Source, Dispatcher, WorkerStep, Finished

LEMMA OrderInvariance == Spec => []InSourceOrder
  BY TypeInvariance, OrderInit, OrderStep, PTL DEF Spec

-----------------------------------------------------------------------------
(* No line is in two places. *)

AtMostOnce ==
  \A l \in Lines : \A p, q \in Places : l \in LinesAt(p) /\ l \in LinesAt(q) => p = q

(* The places, with the lines in each before and after a step. *)
LEMMA Seats ==
  ASSUME NEW r \in Places
  PROVE  \/ r = <<"unread">> /\ LinesAt(r) = next .. NLines /\ LinesAt(r)' = next' .. NLines
         \/ r = <<"lineCh">> /\ LinesAt(r) = Elems(lineCh) /\ LinesAt(r)' = Elems(lineCh')
         \/ r = <<"hand">> /\ LinesAt(r) = {hand} \ {0} /\ LinesAt(r)' = {hand'} \ {0}
         \/ r = <<"filtered">> /\ LinesAt(r) = filtered /\ LinesAt(r)' = filtered'
         \/ r = <<"dropped">> /\ LinesAt(r) = dropped /\ LinesAt(r)' = dropped'
         \/ r = <<"failed">> /\ LinesAt(r) = failed /\ LinesAt(r)' = failed'
         \/ \E w \in Worker : /\ r = <<"chan", w>>
                              /\ LinesAt(r) = Elems(chan[w])
                              /\ LinesAt(r)' = Elems(chan'[w])
         \/ \E w \in Worker, c \in Coll : /\ r = <<"batch", w, c>>
                                          /\ LinesAt(r) = batch[w][c]
                                          /\ LinesAt(r)' = batch'[w][c]
         \/ \E c \in Coll : /\ r = <<"stored", c>>
                            /\ LinesAt(r) = stored[c]
                            /\ LinesAt(r)' = stored'[c]
<1>1. CASE r = <<"unread">>
  BY <1>1 DEF LinesAt
<1>2. CASE r = <<"lineCh">>
  BY <1>2 DEF LinesAt
<1>3. CASE r = <<"hand">>
  BY <1>3 DEF LinesAt
<1>4. CASE r = <<"filtered">>
  BY <1>4 DEF LinesAt
<1>5. CASE r = <<"dropped">>
  BY <1>5 DEF LinesAt
<1>6. CASE r = <<"failed">>
  BY <1>6 DEF LinesAt
<1>7. ASSUME NEW w \in Worker, r = <<"chan", w>>
      PROVE  LinesAt(r) = Elems(chan[w]) /\ LinesAt(r)' = Elems(chan'[w])
  BY <1>7 DEF LinesAt
<1>8. ASSUME NEW w \in Worker, NEW c \in Coll, r = <<"batch", w, c>>
      PROVE  LinesAt(r) = batch[w][c] /\ LinesAt(r)' = batch'[w][c]
  BY <1>8 DEF LinesAt
<1>9. ASSUME NEW c \in Coll, r = <<"stored", c>>
      PROVE  LinesAt(r) = stored[c] /\ LinesAt(r)' = stored'[c]
  BY <1>9 DEF LinesAt
<1> QED
  BY <1>1, <1>2, <1>3, <1>4, <1>5, <1>6, <1>7, <1>8, <1>9 DEF Places

(* The places by name. *)
LEMMA SeatsNamed ==
  /\ <<"unread">> \in Places
  /\ LinesAt(<<"unread">>) = next .. NLines /\ LinesAt(<<"unread">>)' = next' .. NLines
  /\ <<"lineCh">> \in Places
  /\ LinesAt(<<"lineCh">>) = Elems(lineCh) /\ LinesAt(<<"lineCh">>)' = Elems(lineCh')
  /\ <<"hand">> \in Places
  /\ LinesAt(<<"hand">>) = {hand} \ {0} /\ LinesAt(<<"hand">>)' = {hand'} \ {0}
  /\ <<"filtered">> \in Places
  /\ LinesAt(<<"filtered">>) = filtered /\ LinesAt(<<"filtered">>)' = filtered'
  /\ <<"dropped">> \in Places
  /\ LinesAt(<<"dropped">>) = dropped /\ LinesAt(<<"dropped">>)' = dropped'
  /\ <<"failed">> \in Places
  /\ LinesAt(<<"failed">>) = failed /\ LinesAt(<<"failed">>)' = failed'
  /\ \A w \in Worker :
       /\ <<"chan", w>> \in Places
       /\ LinesAt(<<"chan", w>>) = Elems(chan[w])
       /\ LinesAt(<<"chan", w>>)' = Elems(chan'[w])
       /\ \A c \in Coll : /\ <<"batch", w, c>> \in Places
                          /\ LinesAt(<<"batch", w, c>>) = batch[w][c]
                          /\ LinesAt(<<"batch", w, c>>)' = batch'[w][c]
  /\ \A c \in Coll : /\ <<"stored", c>> \in Places
                     /\ LinesAt(<<"stored", c>>) = stored[c]
                     /\ LinesAt(<<"stored", c>>)' = stored'[c]
<1>1. ASSUME NEW w \in Worker
      PROVE  /\ <<"chan", w>> \in Places
             /\ LinesAt(<<"chan", w>>) = Elems(chan[w])
             /\ LinesAt(<<"chan", w>>)' = Elems(chan'[w])
  BY DEF Places, LinesAt
<1>2. ASSUME NEW w \in Worker, NEW c \in Coll
      PROVE  /\ <<"batch", w, c>> \in Places
             /\ LinesAt(<<"batch", w, c>>) = batch[w][c]
             /\ LinesAt(<<"batch", w, c>>)' = batch'[w][c]
  BY DEF Places, LinesAt
<1>3. ASSUME NEW c \in Coll
      PROVE  /\ <<"stored", c>> \in Places
             /\ LinesAt(<<"stored", c>>) = stored[c]
             /\ LinesAt(<<"stored", c>>)' = stored'[c]
  BY DEF Places, LinesAt
<1> QED
  BY <1>1, <1>2, <1>3 DEF Places, LinesAt

(* Lines S leave p, each for one of two places; nothing else gains a line. *)
LEMMA MoveTwo ==
  ASSUME AtMostOnce,
         NEW p \in Places, NEW q1 \in Places, NEW q2 \in Places, NEW S1, NEW S2,
         S1 \cup S2 \subseteq LinesAt(p), S1 \cap S2 = {},
         (S1 \cup S2) \cap LinesAt(p)' = {},
         q1 # q2,
         LinesAt(q1)' \subseteq LinesAt(q1) \cup S1,
         LinesAt(q2)' \subseteq LinesAt(q2) \cup S2,
         \A r \in Places : r # q1 /\ r # q2 => LinesAt(r)' \subseteq LinesAt(r)
  PROVE  AtMostOnce'
<1> SUFFICES ASSUME NEW l \in Lines, NEW a \in Places, NEW b \in Places,
                    l \in LinesAt(a)', l \in LinesAt(b)'
             PROVE  a = b
  BY DEF AtMostOnce
<1>1. \A r \in Places : l \in LinesAt(r) /\ l \in LinesAt(p) => r = p
  BY DEF AtMostOnce
<1>2. CASE l \in S1 \cup S2
  <2>1. l \in LinesAt(p) /\ l \notin LinesAt(p)'
    BY <1>2
  <2>2. \A r \in Places : l \in LinesAt(r)' => ~(l \in LinesAt(r))
    BY <1>1, <2>1
  <2> QED
    BY <1>2, <2>2
<1>3. CASE l \notin S1 \cup S2
  <2>1. \A r \in Places : l \in LinesAt(r)' => l \in LinesAt(r)
    BY <1>3
  <2> QED
    BY <2>1 DEF AtMostOnce
<1> QED
  BY <1>2, <1>3

(* Line h leaves p for q; nothing else gains a line. *)
LEMMA MoveOne ==
  ASSUME AtMostOnce,
         NEW p \in Places, NEW q \in Places, NEW h,
         h \in LinesAt(p), h \notin LinesAt(p)',
         LinesAt(q)' \subseteq LinesAt(q) \cup {h},
         \A r \in Places : r # q => LinesAt(r)' \subseteq LinesAt(r)
  PROVE  AtMostOnce'
<1> SUFFICES ASSUME NEW l \in Lines, NEW a \in Places, NEW b \in Places,
                    l \in LinesAt(a)', l \in LinesAt(b)'
             PROVE  a = b
  BY DEF AtMostOnce
<1>1. \A r \in Places : l \in LinesAt(r)' => l \in LinesAt(r) \/ (r = q /\ l = h)
  OBVIOUS
<1>2. CASE l = h
  <2>1. \A r \in Places : h \in LinesAt(r) => r = p
    BY <1>2 DEF AtMostOnce
  <2> QED
    BY <1>1, <1>2, <2>1
<1>3. CASE l # h
  BY <1>1, <1>3 DEF AtMostOnce
<1> QED
  BY <1>2, <1>3

LEMMA OnceInit == Init => AtMostOnce
<1> SUFFICES ASSUME Init, NEW r \in Places
             PROVE  LinesAt(r) = {} \/ r = <<"unread">>
  BY DEF AtMostOnce
<1>1. Elems(<<>>) = {}
  BY DEF Elems
<1> QED
  BY <1>1, Seats DEF Init

(* Each step moves the line, or the batch, it is about. *)
LEMMA OnceStep == TypeInv /\ InSourceOrder /\ AtMostOnce /\ [Next]_vars => AtMostOnce'
<1> SUFFICES ASSUME TypeInv, InSourceOrder, AtMostOnce, [Next]_vars
             PROVE  AtMostOnce'
  OBVIOUS
<1> USE DEF TypeInv
<1>1. CASE SourceSend
  <2>1. next \in Lines
    BY <1>1, SizesAssumption DEF SourceSend, TypeOK, Lines
  <2>2. Elems(lineCh') = Elems(lineCh) \cup {next} /\ next' = next + 1
    BY <1>1, <2>1, ElemsAppend DEF SourceSend, TypeOK
  <2>3. /\ next \in next .. NLines /\ next \notin next' .. NLines
        /\ next' .. NLines \subseteq next .. NLines
    BY <2>1, <2>2, SizesAssumption DEF Lines
  <2>4. \A r \in Places : r # <<"lineCh">> => LinesAt(r)' \subseteq LinesAt(r)
    BY <1>1, <2>3, Seats DEF SourceSend, dispVars, workVars
  <2>5. /\ <<"unread">> \in Places /\ <<"lineCh">> \in Places
        /\ next \in LinesAt(<<"unread">>) /\ next \notin LinesAt(<<"unread">>)'
        /\ LinesAt(<<"lineCh">>)' \subseteq LinesAt(<<"lineCh">>) \cup {next}
    BY <2>2, <2>3, SeatsNamed
  <2> QED
    BY <2>4, <2>5, MoveOne
<1>2. CASE DispatchRecv
  <2>1. /\ hand' \in Lines /\ lineCh' = Tail(lineCh) /\ hand' = Head(lineCh)
        /\ Elems(lineCh) = {hand'} \cup Elems(Tail(lineCh))
    BY <1>2, ElemsTail DEF DispatchRecv, TypeOK
  <2>2. \A x \in Elems(Tail(lineCh)) : Head(lineCh) < x
    BY <1>2, IncreasingTail DEF DispatchRecv, InSourceOrder, TypeOK
  <2>3. hand' \notin Elems(lineCh') /\ hand' \in Elems(lineCh)
    BY <2>1, <2>2, LinesFacts
  <2>4. \A r \in Places : r # <<"hand">> => LinesAt(r)' \subseteq LinesAt(r)
    BY <1>2, <2>1, Seats DEF DispatchRecv, workVars
  <2> QED
    BY <2>3, <2>4, MoveOne, SeatsNamed
<1>3. ASSUME NEW w \in Worker, SendTo(w), hand \in Lines,
             UNCHANGED <<srcVars, workVars, dropped>>
      PROVE  AtMostOnce'
  <2>1. /\ Elems(chan'[w]) = Elems(chan[w]) \cup {hand}
        /\ \A v \in Worker : v # w => chan'[v] = chan[v]
        /\ hand' = 0
    BY <1>3, SendToType
  <2>2. hand \in {hand} \ {0} /\ hand \notin {hand'} \ {0}
    BY <1>3, <2>1, LinesFacts
  <2>3. \A r \in Places : r # <<"chan", w>> => LinesAt(r)' \subseteq LinesAt(r)
    BY <1>3, <2>1, Seats DEF srcVars, workVars
  <2> QED
    BY <2>1, <2>2, <2>3, MoveOne, SeatsNamed
<1>4. CASE UNCHANGED <<next, lineCh, hand, chan, batch, stored, filtered, dropped, failed>>
  <2>1. \A r \in Places : LinesAt(r)' = LinesAt(r)
    BY <1>4, Seats
  <2> QED
    BY <2>1 DEF AtMostOnce
<1>5. CASE DispatchOffer
  <2>1. hand \in Lines
    BY <1>5 DEF DispatchOffer, HandOK
  <2> DEFINE w == (Affine(hand) + offset) % NWorkers
  <2>2. w \in Worker
    BY <2>1, TargetIsWorker DEF TypeOK
  <2> HIDE DEF w
  <2>3. CASE SendTo(w)
    BY <1>3, <1>5, <2>1, <2>2, <2>3 DEF DispatchOffer
  <2>4. CASE NextTarget /\ UNCHANGED chan
    BY <1>4, <1>5, <2>4 DEF DispatchOffer, NextTarget, srcVars, workVars
  <2> QED
    BY <1>5, <2>3, <2>4 DEF DispatchOffer, w
<1>6. CASE DispatchBlockedSend
  <2>1. hand \in Lines /\ Affine(hand) \in Worker
    BY <1>6, LinesFacts, TargetIsWorker DEF DispatchBlockedSend, HandOK
  <2> QED
    BY <1>3, <1>6, <2>1 DEF DispatchBlockedSend
<1>7. CASE DispatchCancelled
  <2>1. hand \in {hand} \ {0} /\ hand \notin {hand'} \ {0}
    BY <1>7, LinesFacts DEF DispatchCancelled, HandOK
  <2>2. \A r \in Places : r # <<"dropped">> => LinesAt(r)' \subseteq LinesAt(r)
    BY <1>7, Seats DEF DispatchCancelled, srcVars, workVars
  <2>3. dropped' = dropped \cup {hand}
    BY <1>7 DEF DispatchCancelled
  <2> QED
    BY <2>1, <2>2, <2>3, MoveOne, SeatsNamed
<1>8. ASSUME NEW w \in Worker, WorkerLine(w)
      PROVE  AtMostOnce'
  <2> DEFINE h == Head(chan[w])
  <2>1. chan[w] \in Seq(Lines) /\ chan[w] # <<>>
    BY <1>8 DEF WorkerLine, TypeOK
  <2>2. h \in Lines /\ Elems(chan[w]) = {h} \cup Elems(Tail(chan[w]))
    BY <2>1, ElemsTail
  <2>3. h \notin Elems(Tail(chan[w]))
    <3>1. \A x \in Elems(Tail(chan[w])) : h < x
      BY <2>1, IncreasingTail DEF InSourceOrder
    <3>2. \A x \in Nat : ~(x < x)
      OBVIOUS
    <3>3. h \in Nat
      BY <2>2, LinesFacts
    <3> QED
      BY <3>1, <3>2, <3>3
  <2>4. \A v \in Worker : chan'[v] = IF v = w THEN Tail(chan[w]) ELSE chan[v]
    BY <1>8 DEF WorkerLine, TypeOK
  <2>5. h \in Elems(chan[w]) /\ h \notin Elems(chan'[w])
    BY <2>2, <2>3, <2>4
  <2>6. \A v \in Worker : Elems(chan'[v]) \subseteq Elems(chan[v])
    <3> SUFFICES ASSUME NEW v \in Worker
                 PROVE  Elems(chan'[v]) \subseteq Elems(chan[v])
      OBVIOUS
    <3> QED
      BY <2>2, <2>4
  <2>7. UNCHANGED <<stored, failed, next, lineCh, hand, dropped>>
    BY <1>8 DEF WorkerLine, srcVars
  <2>8. PICK o \in Outcomes(h) : Processed(w, h, o)
    BY <1>8, LineProcessed
  <2> HIDE DEF h
  <2>9. CASE o = "filtered"
    <3>1. filtered' = filtered \cup {h} /\ batch' = batch
      BY <2>8, <2>9 DEF Processed
    <3>2. \A r \in Places : r # <<"filtered">> => LinesAt(r)' \subseteq LinesAt(r)
      BY <2>6, <2>7, <3>1, Seats
    <3>3. /\ <<"chan", w>> \in Places /\ <<"filtered">> \in Places
          /\ h \in LinesAt(<<"chan", w>>) /\ h \notin LinesAt(<<"chan", w>>)'
          /\ LinesAt(<<"filtered">>)' \subseteq LinesAt(<<"filtered">>) \cup {h}
      BY <2>5, <3>1, SeatsNamed
    <3> QED
      BY <3>2, <3>3, MoveOne
  <2>10. CASE o # "filtered"
    <3>1. PICK c \in Coll : batch' = [batch EXCEPT ![w][c] = @ \cup {h}] /\ filtered' = filtered
      BY <2>8, <2>10 DEF Processed, Coll
    <3>2. \A v \in Worker, d \in Coll :
            batch'[v][d] = IF v = w /\ d = c THEN batch[w][c] \cup {h} ELSE batch[v][d]
      BY <3>1 DEF TypeOK
    <3>3. \A r \in Places : r # <<"batch", w, c>> => LinesAt(r)' \subseteq LinesAt(r)
      BY <2>6, <2>7, <3>1, <3>2, Seats
    <3>4. batch'[w][c] = batch[w][c] \cup {h}
      BY <3>2
    <3>5. /\ <<"chan", w>> \in Places /\ <<"batch", w, c>> \in Places
          /\ h \in LinesAt(<<"chan", w>>) /\ h \notin LinesAt(<<"chan", w>>)'
          /\ LinesAt(<<"batch", w, c>>)' \subseteq LinesAt(<<"batch", w, c>>) \cup {h}
      BY <2>5, <3>4, SeatsNamed
    <3> QED
      BY <3>3, <3>5, MoveOne
  <2> QED
    BY <2>9, <2>10
<1>9. ASSUME NEW w \in Worker, WorkerFlush(w)
      PROVE  AtMostOnce'
  <2>1. PICK c \in Coll : \E written \in SUBSET batch[w][c] : Flushed(w, c, written)
    BY <1>9, BatchFlushed
  <2>2. PICK written \in SUBSET batch[w][c] : Flushed(w, c, written)
    BY <2>1
  <2>3. /\ stored'[c] = stored[c] \cup written
        /\ \A d \in Coll : d # c => stored'[d] = stored[d]
        /\ failed' = failed \cup (batch[w][c] \ written)
        /\ batch'[w][c] = {}
        /\ \A v \in Worker, d \in Coll : batch'[v][d] \subseteq batch[v][d]
    BY <2>2 DEF Flushed, TypeOK
  <2>4. UNCHANGED <<next, lineCh, hand, chan, filtered, dropped>>
    BY <2>2 DEF Flushed, srcVars, dispVars
  <2>5. \A r \in Places : r # <<"stored", c>> /\ r # <<"failed">> =>
          LinesAt(r)' \subseteq LinesAt(r)
    BY <2>3, <2>4, Seats
  <2> DEFINE p == <<"batch", w, c>>
             q1 == <<"stored", c>>
             q2 == <<"failed">>
             lost == batch[w][c] \ written
  <2>6. /\ p \in Places /\ q1 \in Places /\ q2 \in Places /\ q1 # q2
        /\ LinesAt(p) = batch[w][c] /\ LinesAt(p)' = batch'[w][c]
        /\ LinesAt(q1) = stored[c] /\ LinesAt(q1)' = stored'[c]
        /\ LinesAt(q2) = failed /\ LinesAt(q2)' = failed'
    BY SeatsNamed
  <2>7. /\ written \cup lost \subseteq LinesAt(p) /\ written \cap lost = {}
        /\ (written \cup lost) \cap LinesAt(p)' = {}
        /\ LinesAt(q1)' \subseteq LinesAt(q1) \cup written
        /\ LinesAt(q2)' \subseteq LinesAt(q2) \cup lost
    BY <2>3, <2>6
  <2> HIDE DEF p, lost
  <2> QED
    BY <2>5, <2>6, <2>7, MoveTwo
<1>10. SourceClose \/ DispatchEOF \/ Cancel \/ Return \/ UNCHANGED vars
         => UNCHANGED <<next, lineCh, hand, chan, batch, stored, filtered, dropped, failed>>
  BY DEF SourceClose, DispatchEOF, Cancel, Return, vars, srcVars, dispVars, workVars
<1>11. ASSUME NEW w \in Worker, WorkerTick(w) \/ WorkerEOF(w) \/ WorkerCancelled(w)
       PROVE  UNCHANGED <<next, lineCh, hand, chan, batch, stored, filtered, dropped, failed>>
  BY <1>11 DEF WorkerTick, WorkerEOF, WorkerCancelled, srcVars, dispVars
<1> QED
  BY <1>1, <1>2, <1>4, <1>5, <1>6, <1>7, <1>8, <1>9, <1>10, <1>11
  DEF Next, Source, Dispatcher, WorkerStep, Finished

LEMMA OnceInvariance == Spec => []AtMostOnce
  BY TypeInvariance, OrderInvariance, OnceInit, OnceStep, PTL DEF Spec

(* However the run is routed, spilled, batched, flushed or cancelled, no     *)
(* line is in two places, and every channel holds its lines in source order: *)
(* none is queued, batched or written a second time.                         *)
THEOREM LinesHandledOnce == Spec => []NoLineTwice
<1>1. AtMostOnce /\ InSourceOrder => NoLineTwice
  BY DEF AtMostOnce, InSourceOrder, NoLineTwice
<1> QED
  BY <1>1, OnceInvariance, OrderInvariance, PTL

-----------------------------------------------------------------------------
(* The pipeline implements the promise of Upload. *)

(* What the batch for a collection, and the collection, may hold: its own    *)
(* class, and dead_letter any record whose identity could not be resolved.   *)
MayHold(c) == {l \in Lines : Class[l] = c \/ (c = "dead" /\ Class[l] # "filtered")}

ClassInv ==
  /\ \A w \in Worker : \A c \in Coll : batch[w][c] \subseteq MayHold(c)
  /\ \A c \in Coll : stored[c] \subseteq MayHold(c)
  /\ \A l \in filtered : Class[l] = "filtered"

LEMMA ClassInit == Init => ClassInv
  BY DEF Init, ClassInv

LEMMA ClassStep == TypeInv /\ ClassInv /\ [Next]_vars => ClassInv'
<1> SUFFICES ASSUME TypeInv, ClassInv, [Next]_vars
             PROVE  ClassInv'
  OBVIOUS
<1> USE DEF TypeInv
<1>1. ASSUME NEW w \in Worker, WorkerLine(w)
      PROVE  ClassInv'
  <2> DEFINE h == Head(chan[w])
  <2>1. h \in Lines
    BY <1>1, ElemsTail DEF WorkerLine, TypeOK
  <2>2. PICK o \in Outcomes(h) : Processed(w, h, o)
    BY <1>1, LineProcessed
  <2>3. UNCHANGED stored
    BY <1>1 DEF WorkerLine
  <2>4. /\ o = "parseError" => Class[h] = "bad"
        /\ o = "identityError" => Class[h] # "filtered"
        /\ o \in {"filtered", "user", "event"} => Class[h] = o
    <3>1. Class[h] \in {"bad", "filtered", "user", "event"}
      BY <2>1, LinesAssumption
    <3> QED
      BY <3>1, <2>2 DEF Outcomes
  <2> HIDE DEF h
  <2>5. CASE o = "filtered"
    BY <2>2, <2>3, <2>4, <2>5 DEF Processed, ClassInv
  <2>6. CASE o # "filtered"
    <3>1. PICK c \in Coll : /\ batch' = [batch EXCEPT ![w][c] = @ \cup {h}]
                            /\ h \in MayHold(c)
      BY <2>1, <2>2, <2>4, <2>6 DEF Processed, Coll, MayHold
    <3>2. \A v \in Worker, d \in Coll :
            batch'[v][d] = IF v = w /\ d = c THEN batch[w][c] \cup {h} ELSE batch[v][d]
      BY <3>1 DEF TypeOK
    <3>3. \A v \in Worker : \A d \in Coll : batch'[v][d] \subseteq MayHold(d)
      BY <3>1, <3>2 DEF ClassInv
    <3>4. filtered' = filtered
      BY <2>2, <2>6 DEF Processed
    <3> QED
      BY <2>3, <3>3, <3>4 DEF ClassInv, MayHold
  <2> QED
    BY <2>5, <2>6
<1>2. ASSUME NEW w \in Worker, WorkerFlush(w)
      PROVE  ClassInv'
  <2>1. PICK c \in Coll : \E written \in SUBSET batch[w][c] : Flushed(w, c, written)
    BY <1>2, BatchFlushed
  <2>2. PICK written \in SUBSET batch[w][c] : Flushed(w, c, written)
    BY <2>1
  <2>3. \A v \in Worker : \A d \in Coll : batch'[v][d] \subseteq batch[v][d]
    BY <2>2 DEF Flushed, TypeOK
  <2>4. \A d \in Coll : stored'[d] \subseteq stored[d] \cup batch[w][d]
    BY <2>2 DEF Flushed, TypeOK
  <2> QED
    BY <2>2, <2>3, <2>4 DEF Flushed, ClassInv, MayHold
<1>3. CASE UNCHANGED <<batch, stored, filtered>>
  BY <1>3 DEF ClassInv, MayHold
<1>4. Source \/ Dispatcher \/ Cancel \/ Return \/ UNCHANGED vars
        => UNCHANGED <<batch, stored, filtered>>
  BY DEF Source, SourceSend, SourceClose, Dispatcher, DispatchRecv, DispatchOffer,
         DispatchBlockedSend, DispatchCancelled, DispatchEOF, Cancel, Return,
         vars, workVars
<1>5. ASSUME NEW w \in Worker, WorkerTick(w) \/ WorkerEOF(w) \/ WorkerCancelled(w)
      PROVE  UNCHANGED <<batch, stored, filtered>>
  BY <1>5 DEF WorkerTick, WorkerEOF, WorkerCancelled
<1> QED
  BY <1>1, <1>2, <1>3, <1>4, <1>5 DEF Next, WorkerStep, Finished

(* A fate says where the line is, since it is in one place only. *)
FateReads ==
  \A l \in Lines :
    /\ Fate(l) \in Promise!Fates
    /\ \A c \in Coll : Fate(l) = c <=> l \in stored[c]
    /\ Fate(l) = "filtered" <=> l \in filtered
    /\ Fate(l) = "lost" <=> l \in failed \cup dropped

LEMMA FateReadsPlace == AtMostOnce => FateReads
<1> SUFFICES ASSUME AtMostOnce, NEW l \in Lines
             PROVE  /\ Fate(l) \in Promise!Fates
                    /\ \A c \in Coll : Fate(l) = c <=> l \in stored[c]
                    /\ Fate(l) = "filtered" <=> l \in filtered
                    /\ Fate(l) = "lost" <=> l \in failed \cup dropped
  BY DEF FateReads
<1>0. /\ \A c \in Coll : <<"stored", c>> \in Places /\ LinesAt(<<"stored", c>>) = stored[c]
      /\ <<"filtered">> \in Places /\ LinesAt(<<"filtered">>) = filtered
      /\ <<"failed">> \in Places /\ LinesAt(<<"failed">>) = failed
      /\ <<"dropped">> \in Places /\ LinesAt(<<"dropped">>) = dropped
  BY SeatsNamed
<1>1. \A c, d \in Coll : l \in stored[c] /\ l \in stored[d] => c = d
  <2> SUFFICES ASSUME NEW c \in Coll, NEW d \in Coll, l \in stored[c], l \in stored[d]
               PROVE  c = d
    OBVIOUS
  <2>1. <<"stored", c>> = <<"stored", d>>
    BY <1>0 DEF AtMostOnce
  <2> QED
    BY <2>1
<1>2. \A c \in Coll : l \in stored[c] => l \notin filtered \cup failed \cup dropped
  <2> SUFFICES ASSUME NEW c \in Coll, l \in stored[c]
               PROVE  l \notin filtered \cup failed \cup dropped
    OBVIOUS
  <2>1. l \in filtered => <<"stored", c>> = <<"filtered">>
    BY <1>0 DEF AtMostOnce
  <2>2. l \in failed => <<"stored", c>> = <<"failed">>
    BY <1>0 DEF AtMostOnce
  <2>3. l \in dropped => <<"stored", c>> = <<"dropped">>
    BY <1>0 DEF AtMostOnce
  <2> QED
    BY <2>1, <2>2, <2>3
<1>3. l \in filtered => l \notin failed \cup dropped
  <2>1. l \in filtered /\ l \in failed => <<"filtered">> = <<"failed">>
    BY <1>0 DEF AtMostOnce
  <2>2. l \in filtered /\ l \in dropped => <<"filtered">> = <<"dropped">>
    BY <1>0 DEF AtMostOnce
  <2> QED
    BY <2>1, <2>2
<1>4. CASE l \in stored["user"]
  <2>1. l \notin stored["event"] /\ l \notin stored["dead"]
    BY <1>1, <1>4 DEF Coll
  <2> QED
    BY <1>2, <1>4, <2>1 DEF Fate, Coll, Promise!Fates
<1>5. CASE l \in stored["event"]
  <2>1. l \notin stored["user"] /\ l \notin stored["dead"]
    BY <1>1, <1>5 DEF Coll
  <2> QED
    BY <1>2, <1>5, <2>1 DEF Fate, Coll, Promise!Fates
<1>6. CASE l \in stored["dead"]
  <2>1. l \notin stored["user"] /\ l \notin stored["event"]
    BY <1>1, <1>6 DEF Coll
  <2> QED
    BY <1>2, <1>6, <2>1 DEF Fate, Coll, Promise!Fates
<1>7. CASE \A c \in Coll : l \notin stored[c]
  BY <1>3, <1>7 DEF Fate, Coll, Promise!Fates
<1> QED
  BY <1>4, <1>5, <1>6, <1>7 DEF Coll

(* Every fate is one the promise allows. *)
FateAllowed == \A l \in Lines : Fate(l) # "pending" => Fate(l) \in Promise!Allowed(l)

LEMMA FatesAllowed == FateReads /\ ClassInv /\ CleanInv => FateAllowed
<1> SUFFICES ASSUME FateReads, ClassInv, CleanInv, NEW l \in Lines, Fate(l) # "pending"
             PROVE  Fate(l) \in Promise!Allowed(l)
  BY DEF FateAllowed
<1>1. Fate(l) \in {"user", "event", "dead", "filtered", "lost"}
  BY DEF FateReads, Promise!Fates
<1>2. Class[l] \in {"bad", "filtered", "user", "event"}
  BY LinesAssumption
<1>3. ASSUME NEW c \in {"user", "event"}, Fate(l) = c
      PROVE  Class[l] = c
  BY <1>3 DEF FateReads, ClassInv, MayHold, Coll
<1>4. CASE Fate(l) = "dead"
  <2>1. l \in stored["dead"] /\ Class[l] # "filtered"
    BY <1>4 DEF FateReads, ClassInv, MayHold, Coll
  <2>2. ~stopped /\ ~DBFaults => Class[l] = "bad"
    BY <2>1 DEF CleanInv, InPlace, OfColl, Coll
  <2> QED
    BY <1>4, <2>1, <2>2 DEF Promise!Allowed, Promise!Faulty
<1>5. CASE Fate(l) = "lost"
  <2>1. l \in failed \cup dropped
    BY <1>5 DEF FateReads
  <2>2. stopped \/ DBFaults
    BY <2>1 DEF CleanInv, InPlace
  <2> QED
    BY <1>5, <2>2 DEF Promise!Allowed, Promise!Faulty
<1>6. CASE Fate(l) = "filtered"
  <2>1. Class[l] = "filtered"
    BY <1>6 DEF FateReads, ClassInv
  <2> QED
    BY <1>6, <2>1 DEF Promise!Allowed
<1> QED
  BY <1>1, <1>2, <1>3, <1>4, <1>5, <1>6 DEF Promise!Allowed

(* A run that returned without being stopped settled every line. *)
SettledAtReturn == returned => stopped \/ \A l \in Lines : Fate(l) # "pending"

LEMMA ReturnSettles == TypeInv /\ Covered /\ QuietInv /\ FateReads => SettledAtReturn
<1> SUFFICES ASSUME TypeInv, Covered, QuietInv, FateReads, returned, ~stopped, NEW l \in Lines
             PROVE  Fate(l) # "pending"
  BY DEF SettledAtReturn
<1>1. l \in filtered \cup dropped \cup failed \/ \E c \in Coll : l \in stored[c]
  BY QuietSettled DEF Covered, QuietInv
<1> QED
  BY <1>1 DEF FateReads, Coll

(* What is settled stays so: the collections and the lists of the lost grow. *)
Grows ==
  /\ \A c \in Coll : stored[c] \subseteq stored'[c]
  /\ filtered \subseteq filtered' /\ failed \subseteq failed' /\ dropped \subseteq dropped'

LEMMA StepGrows ==
  ASSUME TypeInv, [Next]_vars
  PROVE  \/ Grows /\ UNCHANGED <<stopped, returned>>
         \/ Cancel
         \/ Return
<1>1. Source \/ Dispatcher \/ UNCHANGED vars => Grows /\ UNCHANGED <<stopped, returned>>
  BY DEF Source, SourceSend, SourceClose, Dispatcher, DispatchRecv, DispatchOffer,
         DispatchBlockedSend, DispatchCancelled, DispatchEOF, vars, workVars, runVars, Grows
<1>2. ASSUME NEW w \in Worker, WorkerLine(w)
      PROVE  Grows /\ UNCHANGED <<stopped, returned>>
  <2>1. filtered \subseteq filtered'
    BY <1>2, LineProcessed DEF Processed
  <2> QED
    BY <1>2, <2>1 DEF WorkerLine, runVars, Grows
<1>3. ASSUME NEW w \in Worker, WorkerTick(w) \/ WorkerEOF(w) \/ WorkerCancelled(w)
      PROVE  Grows /\ UNCHANGED <<stopped, returned>>
  BY <1>3 DEF WorkerTick, WorkerEOF, WorkerCancelled, runVars, Grows
<1>4. ASSUME NEW w \in Worker, WorkerFlush(w)
      PROVE  Grows /\ UNCHANGED <<stopped, returned>>
  <2>1. PICK c \in Coll : \E written \in SUBSET batch[w][c] : Flushed(w, c, written)
    BY <1>4, BatchFlushed
  <2>2. PICK written \in SUBSET batch[w][c] : Flushed(w, c, written)
    BY <2>1
  <2>3. \A d \in Coll : stored[d] \subseteq stored'[d]
    BY <2>2 DEF Flushed, TypeInv, TypeOK
  <2> QED
    BY <2>2, <2>3 DEF Flushed, runVars, Grows
<1> QED
  BY <1>1, <1>2, <1>3, <1>4 DEF Next, WorkerStep, Finished

fateBar == [l \in Lines |-> Fate(l)]

LEMMA PromiseInit == Init => Promise!Init
<1> SUFFICES ASSUME Init, NEW l \in Lines
             PROVE  Fate(l) = "pending"
  BY DEF Init, Promise!Init
<1> QED
  BY DEF Init, Fate, Coll

(* Every step of the pipeline is a step of Upload or leaves it as it is. *)
LEMMA PromiseStep ==
  ASSUME TypeInv, FateReads, FateReads', FateAllowed', SettledAtReturn', [Next]_vars
  PROVE  [Promise!Next]_(Promise!vars)
<1>1. CASE Grows /\ UNCHANGED <<stopped, returned>>
  <2>1. ASSUME NEW l \in Lines, Fate(l)' # Fate(l)
        PROVE  Fate(l) = "pending" /\ Fate(l)' \in Promise!Allowed(l)
    <3>1. Fate(l) = "pending"
      BY <1>1, <2>1 DEF FateReads, Grows, Promise!Fates, Coll
    <3>2. Fate(l)' \in Promise!Allowed(l)'
      BY <2>1, <3>1 DEF FateAllowed
    <3> QED
      BY <1>1, <3>1, <3>2 DEF Promise!Allowed, Promise!Faulty
  <2>2. fateBar' \in [Lines -> Promise!Fates]
    BY DEF FateReads, fateBar
  <2>3. Promise!Settle
    BY <1>1, <2>1, <2>2 DEF Promise!Settle, fateBar
  <2> QED
    BY <2>3 DEF Promise!Next
<1>2. ASSUME UNCHANGED <<stored, filtered, failed, dropped>>
      PROVE  fateBar' = fateBar
  BY <1>2 DEF fateBar, Fate
<1>3. CASE Cancel
  <2>1. fateBar' = fateBar
    BY <1>2, <1>3 DEF Cancel, workVars
  <2> QED
    BY <1>3, <2>1 DEF Cancel, fateBar, Promise!Next, Promise!Stop
<1>4. CASE Return
  <2>1. fateBar' = fateBar
    BY <1>2, <1>4 DEF Return, workVars
  <2>2. stopped \/ \A l \in Lines : Fate(l)' # "pending"
    BY <1>4 DEF Return, SettledAtReturn
  <2>3. \A l \in Lines : fateBar[l] = Fate(l) /\ fateBar'[l] = Fate(l)'
    BY DEF fateBar
  <2>4. stopped \/ \A l \in Lines : Fate(l) # "pending"
    BY <2>1, <2>2, <2>3
  <2> QED
    BY <1>4, <2>1, <2>4 DEF Return, fateBar, Promise!Next, Promise!Return
<1> QED
  BY <1>1, <1>3, <1>4, StepGrows

(* The pipeline keeps the promise of an upload strategy: every line settles  *)
(* once, where its class belongs unless the run was stopped or the database  *)
(* failed, and a run that was not stopped returns with nothing pending.      *)
THEOREM PipelineKeepsPromise == Spec => ImplementsUpload
<1>1. Spec => []ClassInv
  BY TypeInvariance, ClassInit, ClassStep, PTL DEF Spec
<1>2. Spec => [](FateReads /\ FateAllowed /\ SettledAtReturn)
  BY <1>1, TypeInvariance, CoveredInvariance, QuietInvariance, OnceInvariance,
     FateReadsPlace, FatesAllowed, ReturnSettles, PTL
<1>3. TypeInv /\ FateReads /\ FateReads' /\ FateAllowed' /\ SettledAtReturn' /\ [Next]_vars
        => [Promise!Next]_(Promise!vars)
  BY PromiseStep
<1>4. Spec => Promise!Init /\ [][Promise!Next]_(Promise!vars)
  BY <1>2, <1>3, TypeInvariance, PromiseInit, PTL DEF Spec
<1> QED
  BY <1>4 DEF ImplementsUpload, Promise!Spec

-----------------------------------------------------------------------------
(* The lines of one user are parsed in the order of the source. *)

Parsed == {l \in Lines : stamp[l] > 0}

(* A line that left the source is in its worker's hands or on the way there,  *)
(* as long as no channel was ever full: nothing is spilled, nor dropped.     *)
OnItsWay ==
  /\ dpc = "offer" => offset = 0
  /\ dpc # "block"
  /\ \A w \in Worker : \A l \in Elems(chan[w]) : Affine(l) = w
  /\ \A l \in Lines :
       l < next => l \in Elems(lineCh) \/ l = hand \/ l \in Elems(chan[Affine(l)]) \/ l \in Parsed

(* A line is parsed once, on its way out, and counts one up. *)
ParsedLast ==
  /\ \A l \in Parsed : /\ l < next /\ l \notin Elems(lineCh) /\ l # hand
                       /\ l \notin Elems(chan[Affine(l)])
  /\ \A l \in Lines : stamp[l] <= Cardinality(Parsed)

RouteInv == OnItsWay /\ ParsedLast /\ SameUserInOrder

LEMMA RouteInit == Init => RouteInv
<1> SUFFICES ASSUME Init
             PROVE  RouteInv
  OBVIOUS
<1>1. Elems(<<>>) = {} /\ Parsed = {} /\ Cardinality({}) = 0
  BY FS_EmptySet DEF Elems, Init, Parsed
<1>2. \A l \in Lines : stamp[l] = 0 /\ ~(l < 1)
  BY LinesFacts DEF Init
<1> QED
  BY <1>1, <1>2 DEF Init, RouteInv, OnItsWay, ParsedLast, SameUserInOrder

(* The head of a channel is parsed when every line of its user before it is.  *)
LEMMA HeadIsNext ==
  ASSUME TypeInv, InSourceOrder, RouteInv, NEW w \in Worker, chan[w] # <<>>,
         NEW k \in Lines, k < Head(chan[w]), User[k] = User[Head(chan[w])]
  PROVE  k \in Parsed
<1> DEFINE h == Head(chan[w])
<1>1. chan[w] \in Seq(Lines)
  BY DEF TypeInv, TypeOK
<1>2. h \in Lines /\ h \in Elems(chan[w]) /\ Elems(chan[w]) = {h} \cup Elems(Tail(chan[w]))
  BY <1>1, ElemsTail
<1>3. \A x \in Elems(chan[w]) : x = h \/ h < x
  BY <1>1, <1>2, IncreasingTail DEF InSourceOrder
<1>4. Affine(k) = w
  BY <1>2 DEF Affine, RouteInv, OnItsWay
<1>5. k \in Nat /\ h \in Nat /\ next \in Nat /\ hand \in Nat /\ k # 0
      /\ Elems(lineCh) \subseteq Nat
  BY <1>2, ElemsAreLines, LinesFacts
<1>6. h < next /\ (hand # 0 => h < hand) /\ \A m \in Elems(lineCh) : h < m
  BY <1>2 DEF InSourceOrder
<1>h. k < h
  OBVIOUS
<1> HIDE DEF h
<1>7. k < next /\ k # hand /\ k \notin Elems(lineCh) /\ k \notin Elems(chan[w])
  <2>1. k < next
    BY <1>5, <1>6, <1>h
  <2>2. k # hand
    BY <1>5, <1>6, <1>h
  <2>3. \A x \in Nat : h < x => x # k
    BY <1>5, <1>h
  <2>4. k \notin Elems(lineCh)
    BY <1>5, <1>6, <2>3
  <2>5. k \notin Elems(chan[w])
    <3>1. k # h
      BY <1>5, <1>h
    <3>2. Elems(chan[w]) \subseteq Nat
      BY ElemsAreLines
    <3> QED
      BY <1>3, <2>3, <3>1, <3>2
  <2> QED
    BY <2>1, <2>2, <2>4, <2>5
<1> QED
  BY <1>4, <1>7 DEF RouteInv, OnItsWay

LEMMA RouteStep ==
  TypeInv /\ InSourceOrder /\ NeverFull /\ RouteInv /\ [Next]_vars => RouteInv'
<1> SUFFICES ASSUME TypeInv, InSourceOrder, NeverFull, RouteInv, [Next]_vars
             PROVE  RouteInv'
  OBVIOUS
<1> USE DEF TypeInv
<1>0. /\ Lines \subseteq Nat /\ next \in Nat /\ hand \in Nat
      /\ \A l \in Lines : l \in Nat /\ l # 0 /\ Affine(l) \in Worker
  BY ElemsAreLines, LinesFacts, TargetIsWorker
<1>1. ASSUME UNCHANGED stamp
      PROVE  Parsed' = Parsed /\ (SameUserInOrder' <=> SameUserInOrder)
  BY <1>1 DEF Parsed, SameUserInOrder
<1>2. CASE SourceSend
  <2>1. next \in Lines
    BY <1>2, SizesAssumption DEF SourceSend, TypeOK, Lines
  <2>2. /\ Elems(lineCh') = Elems(lineCh) \cup {next} /\ next' = next + 1
        /\ UNCHANGED <<dpc, hand, offset, chan, stamp>>
    BY <1>2, <2>1, ElemsAppend DEF SourceSend, dispVars, workVars, TypeOK
  <2>3. \A l \in Lines : (l < next' <=> l < next \/ l = next) /\ (l < next => l # next)
    BY <1>0, <2>2
  <2>4. OnItsWay'
    BY <1>1, <2>2, <2>3 DEF RouteInv, OnItsWay
  <2>5. ParsedLast'
    BY <1>1, <2>2, <2>3 DEF RouteInv, ParsedLast, Parsed
  <2> QED
    BY <1>1, <2>2, <2>4, <2>5 DEF RouteInv
<1>3. CASE DispatchRecv
  <2>1. /\ Elems(lineCh) = {hand'} \cup Elems(lineCh')
        /\ hand = 0 /\ dpc' = "offer" /\ offset' = 0
        /\ UNCHANGED <<next, chan, stamp>>
    <3>1. hand = 0
      BY <1>3 DEF DispatchRecv, HandOK, TypeOK
    <3> QED
      BY <1>3, <3>1, ElemsTail DEF DispatchRecv, workVars, TypeOK
  <2>2. OnItsWay'
    BY <1>0, <1>1, <2>1 DEF RouteInv, OnItsWay
  <2>3. ParsedLast'
    BY <1>1, <2>1 DEF RouteInv, ParsedLast
  <2> QED
    BY <1>1, <2>1, <2>2, <2>3 DEF RouteInv
<1>4. CASE DispatchOffer
  <2>1. hand \in Lines /\ offset = 0 /\ Affine(hand) \in Worker
    BY <1>0, <1>4 DEF DispatchOffer, HandOK, RouteInv, OnItsWay
  <2>2. (Affine(hand) + offset) % NWorkers = Affine(hand)
    <3>1. Affine(hand) \in Nat /\ NWorkers \in Nat \ {0} /\ Affine(hand) < NWorkers
      BY <2>1, SizesAssumption DEF Worker
    <3>2. \A a, n \in Nat : a < n => a % n = a
      OBVIOUS
    <3>3. Affine(hand) + offset = Affine(hand)
      BY <2>1, <3>1
    <3> QED
      BY <3>1, <3>2, <3>3
  <2>3. SendTo(Affine(hand)) /\ UNCHANGED offset
    <3>1. ~(Len(chan[Affine(hand)]) >= ChanCap)
      <4>1. chan[Affine(hand)] \in Seq(Lines)
        BY <2>1 DEF TypeOK
      <4>2. Len(chan[Affine(hand)]) \in Nat /\ ChanCap \in Nat
        BY <4>1, SizesAssumption
      <4>3. Len(chan[Affine(hand)]) < ChanCap
        BY <2>1 DEF NeverFull
      <4> QED
        BY <4>2, <4>3
    <3> QED
      BY <1>4, <2>2, <3>1 DEF DispatchOffer
  <2>4. /\ Elems(chan'[Affine(hand)]) = Elems(chan[Affine(hand)]) \cup {hand}
        /\ \A v \in Worker : v # Affine(hand) => chan'[v] = chan[v]
        /\ hand' = 0 /\ dpc' = "recv"
        /\ UNCHANGED <<next, lineCh, stamp>>
    BY <1>4, <2>1, <2>3, SendToType DEF DispatchOffer, srcVars, workVars
  <2>5. \A v \in Worker : /\ Elems(chan[v]) \subseteq Elems(chan'[v])
                          /\ \A l \in Elems(chan'[v]) : l \in Elems(chan[v]) \/ (l = hand /\ v = Affine(hand))
    BY <2>4
  <2>6. OnItsWay'
    BY <1>0, <1>1, <2>1, <2>4, <2>5 DEF RouteInv, OnItsWay
  <2>7. ParsedLast'
    <3>1. \A l \in Parsed : l \in Lines /\ l # 0
      BY <1>0 DEF Parsed
    <3> QED
      BY <1>0, <1>1, <2>1, <2>4, <2>5, <3>1 DEF RouteInv, ParsedLast
  <2> QED
    BY <1>1, <2>4, <2>6, <2>7 DEF RouteInv
<1>5. ~DispatchBlockedSend /\ ~DispatchCancelled
  BY DEF DispatchBlockedSend, DispatchCancelled, RouteInv, OnItsWay
<1>6. ASSUME NEW w \in Worker, WorkerLine(w)
      PROVE  RouteInv'
  <2> DEFINE h == Head(chan[w])
  <2>1. /\ chan' = [chan EXCEPT ![w] = Tail(@)] /\ chan[w] # <<>>
        /\ stamp' = [stamp EXCEPT ![h] = Cardinality(Parsed) + 1]
        /\ UNCHANGED <<next, lineCh, dpc, hand, offset>>
    BY <1>6 DEF WorkerLine, srcVars, Parsed
  <2>2. chan[w] \in Seq(Lines) /\ chan \in [Worker -> Seq(Lines)]
    BY DEF TypeOK
  <2>3. h \in Lines /\ h \in Elems(chan[w]) /\ Elems(chan[w]) = {h} \cup Elems(Tail(chan[w]))
    BY <2>1, <2>2, ElemsTail
  <2>4. Affine(h) = w /\ h \notin Parsed
    BY <2>3 DEF RouteInv, OnItsWay, ParsedLast
  <2>5. /\ h < next /\ h \notin Elems(lineCh) /\ h # hand
        /\ h \notin Elems(Tail(chan[w]))
    <3>1. h < next /\ (hand # 0 => h < hand) /\ \A m \in Elems(lineCh) : h < m
      BY <2>3 DEF InSourceOrder
    <3>2. \A x \in Elems(Tail(chan[w])) : h < x
      BY <2>1, <2>2, IncreasingTail DEF InSourceOrder
    <3>3. h # 0 /\ ~(h < h)
      <4>1. \A x \in Nat : ~(x < x)
        OBVIOUS
      <4> QED
        BY <1>0, <2>3, <4>1
    <3> QED
      BY <3>1, <3>2, <3>3
  <2>6. \A k \in Lines : k < h /\ User[k] = User[h] => k \in Parsed
    BY <2>1, HeadIsNext
  <2>7. Cardinality(Parsed) \in Nat /\ IsFiniteSet(Parsed)
    BY LinesFacts, FS_Subset DEF Parsed
  <2>8. stamp \in [Lines -> Nat]
    BY DEF TypeOK
  <2> HIDE DEF h
  <2>9. /\ stamp'[h] = Cardinality(Parsed) + 1
        /\ \A l \in Lines : l # h => stamp'[l] = stamp[l]
    BY <2>1, <2>3, <2>8
  <2>10. Parsed' = Parsed \cup {h} /\ Cardinality(Parsed') = Cardinality(Parsed) + 1
    <3>1. stamp'[h] > 0
      BY <2>7, <2>9
    <3>2. Parsed' = Parsed \cup {h}
      BY <2>3, <2>9, <3>1 DEF Parsed
    <3> QED
      BY <2>4, <2>7, <3>2, FS_AddElement
  <2>11. \A v \in Worker : Elems(chan'[v]) = IF v = w THEN Elems(chan[v]) \ {h} ELSE Elems(chan[v])
    <3>1. chan'[w] = Tail(chan[w]) /\ \A v \in Worker : v # w => chan'[v] = chan[v]
      BY <2>1, <2>2
    <3> QED
      BY <2>3, <2>5, <3>1
  <2>12. OnItsWay'
    <3>1. ASSUME NEW v \in Worker, NEW l \in Elems(chan'[v])
          PROVE  Affine(l) = v
      BY <2>11, <3>1 DEF RouteInv, OnItsWay
    <3>2. ASSUME NEW l \in Lines, l < next
          PROVE  \/ l \in Elems(lineCh) \/ l = hand
                 \/ l \in Elems(chan'[Affine(l)]) \/ l \in Parsed'
      <4>1. l \in Elems(lineCh) \/ l = hand \/ l \in Elems(chan[Affine(l)]) \/ l \in Parsed
        BY <3>2 DEF RouteInv, OnItsWay
      <4>2. l = h \/ Elems(chan'[Affine(l)]) = Elems(chan[Affine(l)])
            \/ Elems(chan'[Affine(l)]) = Elems(chan[Affine(l)]) \ {h}
        BY <1>0, <2>11
      <4> QED
        BY <2>10, <4>1, <4>2
    <3> QED
      BY <2>1, <3>1, <3>2 DEF RouteInv, OnItsWay
  <2>13. ParsedLast'
    <3>1. \A l \in Parsed' : /\ l < next /\ l \notin Elems(lineCh) /\ l # hand
                             /\ l \notin Elems(chan'[Affine(l)])
      <4>1. \A l \in Parsed : l \in Lines
        BY DEF Parsed
      <4> QED
        BY <1>0, <2>4, <2>5, <2>10, <2>11, <4>1 DEF RouteInv, ParsedLast
    <3>2. ASSUME NEW l \in Lines
          PROVE  stamp'[l] <= Cardinality(Parsed) + 1
      <4>1. stamp[l] <= Cardinality(Parsed) /\ stamp[l] \in Nat
        BY <2>8 DEF RouteInv, ParsedLast
      <4> QED
        BY <2>7, <2>9, <4>1
    <3> QED
      BY <2>1, <2>10, <3>1, <3>2 DEF ParsedLast
  <2>14. SameUserInOrder'
    <3> SUFFICES ASSUME NEW k \in Lines, NEW l \in Lines, k < l, User[k] = User[l], stamp'[l] > 0
                 PROVE  stamp'[k] > 0 /\ stamp'[k] < stamp'[l]
      BY DEF SameUserInOrder
    <3>1. CASE l = h
      <4>1. k # h /\ k \in Parsed
        BY <1>0, <2>6, <3>1
      <4>2. stamp[k] <= Cardinality(Parsed) /\ stamp[k] \in Nat /\ stamp[k] > 0
        BY <2>8, <4>1 DEF RouteInv, ParsedLast, Parsed
      <4>3. stamp'[k] = stamp[k] /\ stamp'[l] = Cardinality(Parsed) + 1
        BY <2>9, <3>1, <4>1
      <4> QED
        BY <2>7, <4>2, <4>3
    <3>2. CASE l # h
      <4>1. stamp'[l] = stamp[l] /\ stamp[l] > 0
        BY <2>9, <3>2
      <4>2. stamp[k] > 0 /\ stamp[k] < stamp[l]
        BY <4>1 DEF RouteInv, SameUserInOrder
      <4>3. k # h
        BY <2>4, <4>2 DEF Parsed
      <4> QED
        BY <2>9, <4>1, <4>2, <4>3
    <3> QED
      BY <3>1, <3>2
  <2> QED
    BY <2>12, <2>13, <2>14 DEF RouteInv
<1>7. CASE DispatchEOF
  <2>1. dpc' = "done" /\ UNCHANGED <<next, lineCh, hand, chan, stamp>>
    BY <1>7 DEF DispatchEOF, srcVars, workVars
  <2> QED
    BY <1>1, <2>1 DEF RouteInv, OnItsWay, ParsedLast
<1>8. CASE UNCHANGED <<next, lineCh, dpc, hand, offset, chan, stamp>>
  BY <1>1, <1>8 DEF RouteInv, OnItsWay, ParsedLast
<1>9. SourceClose \/ Cancel \/ Return \/ UNCHANGED vars
        => UNCHANGED <<next, lineCh, dpc, hand, offset, chan, stamp>>
  BY DEF SourceClose, Cancel, Return, vars, srcVars, dispVars, workVars
<1>10. ASSUME NEW w \in Worker,
              WorkerTick(w) \/ WorkerEOF(w) \/ WorkerCancelled(w) \/ WorkerFlush(w)
       PROVE  UNCHANGED <<next, lineCh, dpc, hand, offset, chan, stamp>>
  BY <1>10 DEF WorkerTick, WorkerEOF, WorkerCancelled, WorkerFlush, srcVars, dispVars
<1> QED
  BY <1>2, <1>3, <1>4, <1>5, <1>6, <1>7, <1>8, <1>9, <1>10
  DEF Next, Source, Dispatcher, WorkerStep, Finished

(* As long as no worker's channel is ever full, the lines of one user are     *)
(* parsed, hence stamped with _ts, in source order, by however many workers  *)
(* and whether or not the run is cancelled on the way (routing.go).          *)
THEOREM UserKeepsOrder == Spec => InOrderUnlessFull
<1>1. RouteInv => SameUserInOrder
  BY DEF RouteInv
<1>2. Spec => ([]NeverFull => []SameUserInOrder)
  BY <1>1, TypeInvariance, OrderInvariance, RouteInit, RouteStep, PTL DEF Spec
<1> QED
  BY <1>2 DEF InOrderUnlessFull
=============================================================================
