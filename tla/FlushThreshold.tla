--------------------------- MODULE FlushThreshold ---------------------------
(***************************************************************************)
(* The adaptive batch size of a pipeline worker: a pure function of the     *)
(* three configured sizes, the lines waiting in the worker's channel and    *)
(* the capacity of that channel.  The code interpolates in float64; here    *)
(* the interpolation is exact, over the integers, with math.Round's rule    *)
(* (halves away from zero; every value rounded is positive).  A float64     *)
(* quotient that is not exact may put a value that is exactly a half on     *)
(* its other side: the threshold is then one less, still between the two    *)
(* anchors.                                                                 *)
(***************************************************************************)
EXTENDS Integers

ClampInt(x, lo, hi) == IF x < lo THEN lo ELSE IF x > hi THEN hi ELSE x

(* The sizes after "Sanitize and derive sane ordering". *)
Sanitized(sizeMin, sizeInitial, sizeMax) ==
  LET lo  == IF sizeMin <= 0 THEN 1 ELSE sizeMin
      i   == IF sizeInitial <= 0 THEN lo ELSE sizeInitial
      m   == IF sizeMax <= 0 THEN i ELSE sizeMax
      mid == IF lo > i THEN lo ELSE i
      hi  == IF mid > m THEN mid ELSE m
  IN  [min |-> lo, initial |-> mid, max |-> hi]

(* math.Round(num / den) for num >= 0 and den > 0. *)
RoundQuotient(num, den) == (2 * num + den) \div (2 * den)

ComputeFlushThreshold(sizeMin, sizeInitial, sizeMax, backlog, chCap) ==
  LET s == Sanitized(sizeMin, sizeInitial, sizeMax)
      \* from s.max (empty channel) down to s.initial (half full)
      upper == RoundQuotient(s.max * chCap - (s.max - s.initial) * 2 * backlog, chCap)
      \* from s.initial down to s.min (full channel)
      lower == RoundQuotient(s.initial * chCap
                             - (s.initial - s.min) * (2 * backlog - chCap), chCap)
  IN  IF chCap <= 0 \/ backlog <= 0 THEN s.max
      ELSE IF backlog >= chCap THEN s.min
      ELSE ClampInt(IF 2 * backlog <= chCap THEN upper ELSE lower, s.min, s.max)
=============================================================================
