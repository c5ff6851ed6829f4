---------------------------- MODULE TailerProofs ----------------------------
(***************************************************************************)
(* Theorems about Tailer, for any number of goroutines, lines and files, in *)
(* each mode, with every interleaving of the scans, the goroutines, the     *)
(* library and whoever writes, moves and truncates the file.                *)
(*                                                                          *)
(* Which lines were sent says nothing of where a reader stands.  The        *)
(* invariant ties the two: a reader's buffer and the text it has in hand    *)
(* are pieces of its file right before its position (Reading); what lies    *)
(* before them has all been sent while no line may be passed over           *)
(* (Gapless), and nothing behind them has while none may come again         *)
(* (Repeatless).  When the readers take turns, the position is handed over  *)
(* in lastSize (Standing), or is lost and the file with it (Vanished).      *)
(***************************************************************************)
EXTENDS Tailer, SequenceTheorems, WellFoundedInduction, TLAPS

TypeInv == TypeOK /\ truncs \in Nat

(* The path has one goroutine, from the scan that starts it to its exit.  A   *)
(* scan that found the file, or a goroutine, means that there was one.       *)
TailInv ==
  /\ \A g \in Tails : ~Off(g) => tailed = g
  /\ tailed # 0 => ~Off(tailed) /\ run # "closed"
  /\ tailed # 0 \/ found => files > 0

(* No line longer than maxLineSize is complete, nothing is truncated, Run is  *)
(* not told to stop and there was one file at most: no line comes twice.     *)
Calm     == Undisturbed /\ ~stopped /\ files <= 1
Steady   == truncs = 0 /\ mode # "hybrid"
Vanished == path = 0 /\ files = 1

(* Each unit is in one place, the files hold what was written, and the first  *)
(* of them all of it.                                                        *)
FileInv ==
  /\ path <= files
  /\ files = 0 => written = 0
  /\ truncs = 0 =>
       /\ \A i \in Inodes : \A k \in DOMAIN data[i] : i <= files /\ data[i][k] <= written
       /\ \A i, j \in Inodes : \A k \in DOMAIN data[i], m \in DOMAIN data[j] :
            data[i][k] = data[j][m] => i = j /\ k = m
       /\ files = 1 => Len(data[1]) = written /\ \A k \in DOMAIN data[1] : data[1][k] = k

(* Where a goroutine is, with which descriptor and which library. *)
Shape(t, l) ==
  /\ t.pc = "off" => t = NoTail
  /\ t.pc # "send" => t.text = <<>>
  /\ t.pc \in {"scan", "eof", "sleep"} => t.fd # 0
  /\ t.fd # 0 => t.pc \in {"scan", "eof", "sleep", "send"}
  /\ t.pc \in {"snapshot", "select", "stop"} \/ (t.pc = "send" /\ t.fd = 0) <=> l.pc # "off"
  /\ l.pc = "off" => l = NoLib
  /\ l.pc \in {"read", "wait", "send"} <=> l.fd # 0
  /\ l.pc # "send" => l.text = <<>>
  /\ mode = "poll" => l.pc = "off" /\ t.pc \notin {"begin", "drain"}
  /\ mode = "event" => t.fd = 0 /\ t.pc \notin {"begin", "retry", "drain"}
  /\ mode # "hybrid" => t.lastSize = 0 /\ (l.pc = "open" => l.pos = 0)
  /\ t.fd <= files /\ l.fd <= files /\ t.orig <= files

(* The text s is the one that file i has after its first a units. *)
Piece(s, i, a) == \A k \in DOMAIN s : a + k \in DOMAIN data[i] /\ s[k] = data[i][a + k]

Reading(t, l) ==
  Steady \/ Calm =>
    /\ t.fd # 0 => /\ t.off <= Size(t.fd) /\ Len(t.buf) <= t.off
                   /\ Piece(t.buf, t.fd, t.off - Len(t.buf))
    /\ l.fd # 0 => /\ l.pos <= Size(l.fd) /\ Len(l.text) <= l.pos
                   /\ Piece(l.text, l.fd, l.pos - Len(l.text))

(* The first n units of file i are sent, or in the text s. *)
Covered(i, n, s) ==
  \A k \in DOMAIN data[i] : k <= n => sent[data[i][k]] > 0 \/ data[i][k] \in Range(s)

Gapless(t, l) ==
  Steady =>
    /\ t.text # <<>> => \E i \in Inodes : \E a \in 0 .. Len(data[i]) : Piece(t.text, i, a) /\ Covered(i, a, <<>>)
    /\ t.fd # 0 => Covered(t.fd, t.off - Len(t.buf), t.text)
    /\ l.fd # 0 /\ t.pc # "stop" => Covered(l.fd, l.pos - Len(l.text), t.text)

(* None is sent twice, and those that are sent, or in s, are the first n. *)
Ahead(n, s) == \A u \in Units : sent[u] <= 1 /\ (sent[u] > 0 \/ u \in Range(s) => u <= n)

(* Unless its file is lost: it keeps its position in lastSize. *)
Standing(t, l) ==
  /\ ~t.cancelled /\ t.lastSize <= written
  /\ t.pc \in {"begin", "exit"} => Ahead(0, <<>>)
  /\ t.fd = 0 /\ (mode = "hybrid" \/ l.pc \in {"off", "open", "dead"} \/ t.pc = "stop") =>
       Ahead(t.lastSize, <<>>)
  /\ l.pc \in {"open", "dead"} => t.text = <<>> /\ (l.pc = "open" => l.pos = t.lastSize)
  /\ mode = "hybrid" =>
       /\ t.fd = 0 => Piece(t.text, 1, t.lastSize)
       /\ l.fd # 0 /\ t.pc # "stop" => l.pos - Len(l.text) = t.lastSize + Len(t.text)

Repeatless(t, l) ==
  Calm =>
    /\ t.text # <<>> => \E a \in 0 .. Len(data[1]) : Piece(t.text, 1, a) /\ Ahead(a, <<>>)
    /\ t.fd # 0 => Ahead(t.off - Len(t.buf), t.text)
    /\ l.fd # 0 /\ t.pc # "stop" => Ahead(l.pos - Len(l.text), t.text)
    /\ t.pc # "off" /\ ~Vanished => Standing(t, l)

Good(t, l) == Shape(t, l) /\ Reading(t, l) /\ Gapless(t, l) /\ Repeatless(t, l)

GoodInv == \A g \in Tails : Good(tail[g], lib[g])

SentInv ==
  /\ NoGap
  /\ Steady \/ Calm => \A u \in Units : sent[u] > 0 => u <= written
  /\ Calm =>
       /\ \A u \in Units : sent[u] <= 1
       /\ tailed = 0 => Vanished \/ Ahead(0, <<>>)
       /\ run = "reap" /\ ~found /\ tailed # 0 => Vanished

IInv == TypeInv /\ TailInv /\ FileInv /\ GoodInv /\ SentInv

LEMMA LeastOf ==
  ASSUME NEW S \in SUBSET Nat, S # {}
  PROVE  Min(S) \in S /\ \A n \in S : Min(S) <= n
<1> DEFINE R == {ss \in Nat \X Nat : ss[1] < ss[2]}
<1>1. IsWellFoundedOn(R, Nat)
  BY NatLessThanWellFounded DEF OpToRel
<1> HIDE DEF R
<1>2. S \subseteq Nat /\ S # {}
  OBVIOUS
<1>3. \E n \in S : \A m \in S : ~ (<<m, n>> \in R)
  BY <1>1, <1>2, WFMin, Zenon
<1>4. \A m, n \in S : <<m, n>> \in R \/ n <= m
  <2> SUFFICES ASSUME NEW m \in S, NEW n \in S
               PROVE  <<m, n>> \in R \/ n <= m
    OBVIOUS
  <2>1. m \in Nat /\ n \in Nat /\ (m < n => <<m, n>> \in R)
    BY <1>2 DEF R
  <2> QED
    BY <2>1
<1>5. \E n \in S : \A m \in S : n <= m
  BY <1>3, <1>4
<1> QED
  BY <1>5 DEF Min

-----------------------------------------------------------------------------
(***************************************************************************)
(* Types, and pieces of text.                                               *)
(***************************************************************************)

LEMMA Numbers ==
  /\ Units \subseteq Nat \ {0} /\ Inodes \subseteq Nat \ {0}
  /\ \A s \in Setups : 1 .. 2 * s.lines \subseteq Units /\ 1 .. s.inodes \subseteq Inodes
  /\ \A s \in Setups : s.mode \in {"poll", "event", "hybrid"} /\ s.long \in Nat
                       /\ s.lines \in Nat /\ s.inodes \in Nat
<1>1. \A s \in Setups : s.mode \in {"poll", "event", "hybrid"} /\ s.long \in Nat
                        /\ s.lines \in Nat /\ s.inodes \in Nat
  BY SetupsAssumption
<1>2. Units \subseteq Nat \ {0} /\ Inodes \subseteq Nat \ {0}
  BY <1>1 DEF Units, Inodes
<1>3. \A s \in Setups : 1 .. 2 * s.lines \subseteq Units /\ 1 .. s.inodes \subseteq Inodes
  BY DEF Units, Inodes
<1> QED
  BY <1>1, <1>2, <1>3

LEMMA Basics ==
  ASSUME TypeInv
  PROVE  /\ mode \in {"poll", "event", "hybrid"} /\ long \in Nat
         /\ setup.lines \in Nat /\ setup.inodes \in Nat
         /\ path \in Nat /\ files \in Nat /\ written \in Nat /\ truncs \in Nat
         /\ Tails \subseteq Nat \ {0} /\ 0 \notin Tails /\ 0 \notin Inodes
         /\ \A g \in Tails : tail[g] \in TailType /\ lib[g] \in LibType
         /\ \A i \in Inodes : data[i] \in Text
<1>1. setup \in Setups /\ path \in Inodes \cup {0} /\ files \in 0 .. setup.inodes
      /\ written \in 0 .. 2 * setup.lines /\ truncs \in Nat
  BY DEF TypeInv, TypeOK
<1>2. setup.mode \in {"poll", "event", "hybrid"} /\ setup.long \in Nat
      /\ setup.lines \in Nat /\ setup.inodes \in Nat
  BY <1>1, Numbers
<1>3. path \in Nat /\ files \in Nat /\ written \in Nat
  BY <1>1, <1>2, Numbers
<1>4. \A g \in Tails : tail[g] \in TailType /\ lib[g] \in LibType
  BY DEF TypeInv, TypeOK
<1>5. \A i \in Inodes : data[i] \in Text
  BY DEF TypeInv, TypeOK
<1> QED
  BY <1>1, <1>2, <1>3, <1>4, <1>5, Numbers, SetupsAssumption DEF mode, long

LEMMA Texts ==
  ASSUME NEW s \in Text
  PROVE  /\ Len(s) \in Nat /\ DOMAIN s = 1 .. Len(s)
         /\ \A k \in 1 .. Len(s) : s[k] \in Units
         /\ (s = <<>> <=> Len(s) = 0)
         /\ Range(s) = {s[k] : k \in 1 .. Len(s)}
<1>1. Len(s) \in Nat /\ DOMAIN s = 1 .. Len(s) /\ \A k \in 1 .. Len(s) : s[k] \in Units
  BY LenProperties, ElementOfSeq DEF Text
<1>2. s = <<>> <=> Len(s) = 0
  BY EmptySeq DEF Text
<1> QED
  BY <1>1, <1>2 DEF Range

LEMMA Nothing == <<>> \in Text /\ Len(<<>>) = 0 /\ Range(<<>>) = {} /\ DOMAIN <<>> = {}
  BY EmptySeq DEF Text, Range

LEMMA SubText ==
  ASSUME NEW s \in Text, NEW m \in Nat \ {0}, NEW n \in Nat, n <= Len(s)
  PROVE  /\ SubSeq(s, m, n) \in Text
         /\ Len(SubSeq(s, m, n)) = IF m <= n THEN n - m + 1 ELSE 0
         /\ \A k \in 1 .. Len(SubSeq(s, m, n)) :
              m + k - 1 \in 1 .. n /\ SubSeq(s, m, n)[k] = s[m + k - 1]
<1>1. Len(s) \in Nat /\ \A k \in 1 .. Len(s) : s[k] \in Units
  BY Texts
<1>2. \A k \in m .. n : s[k] \in Units
  BY <1>1
<1>3. /\ SubSeq(s, m, n) \in Seq(Units)
      /\ Len(SubSeq(s, m, n)) = IF m <= n THEN n - m + 1 ELSE 0
      /\ \A k \in 1 .. n - m + 1 : SubSeq(s, m, n)[k] = s[m + k - 1]
  BY <1>2, SubSeqProperties
<1>4. \A k \in 1 .. Len(SubSeq(s, m, n)) :
        k \in 1 .. n - m + 1 /\ m + k - 1 \in 1 .. n
  BY <1>3
<1> QED
  BY <1>3, <1>4 DEF Text

(* A line is cut off at the front. *)
LEMMA Cut ==
  ASSUME NEW s \in Text, LineEnds(s) # {}
  PROVE  /\ FirstLine(s) \in Text /\ Rest(s) \in Text
         /\ Len(FirstLine(s)) > 0
         /\ Len(FirstLine(s)) + Len(Rest(s)) = Len(s)
         /\ \A k \in 1 .. Len(FirstLine(s)) : FirstLine(s)[k] = s[k]
         /\ \A k \in 1 .. Len(Rest(s)) : Rest(s)[k] = s[Len(FirstLine(s)) + k]
<1> DEFINE n == Min(LineEnds(s))
<1>1. LineEnds(s) \in SUBSET Nat /\ LineEnds(s) \subseteq 1 .. Len(s) /\ Len(s) \in Nat
  BY Texts DEF LineEnds
<1>2. n \in 1 .. Len(s)
  BY <1>1, LeastOf
<1>3. FirstLine(s) = SubSeq(s, 1, n) /\ Rest(s) = SubSeq(s, n + 1, Len(s))
  BY DEF FirstLine, Rest
<1> HIDE DEF n
<1>4. n \in Nat \ {0} /\ n + 1 \in Nat \ {0} /\ n <= Len(s)
  BY <1>1, <1>2
<1>5. /\ FirstLine(s) \in Text /\ Len(FirstLine(s)) = n
      /\ \A k \in 1 .. Len(FirstLine(s)) : FirstLine(s)[k] = s[1 + k - 1]
  BY <1>3, <1>4, SubText
<1>6. /\ Rest(s) \in Text /\ Len(Rest(s)) = Len(s) - n
      /\ \A k \in 1 .. Len(Rest(s)) : Rest(s)[k] = s[n + 1 + k - 1]
  <2>1. /\ Rest(s) \in Text
        /\ Len(Rest(s)) = IF n + 1 <= Len(s) THEN Len(s) - (n + 1) + 1 ELSE 0
        /\ \A k \in 1 .. Len(Rest(s)) : Rest(s)[k] = s[n + 1 + k - 1]
    BY <1>1, <1>3, <1>4, SubText
  <2> QED
    BY <1>1, <1>4, <2>1
<1>7. \A k \in 1 .. n : 1 + k - 1 = k
  BY <1>4
<1>8. \A k \in 1 .. Len(Rest(s)) : n + 1 + k - 1 = n + k
  BY <1>4, <1>6, <1>1
<1> QED
  BY <1>1, <1>4, <1>5, <1>6, <1>7, <1>8

(* What the library sends of a text is the front of it. *)
LEMMA CutNext ==
  ASSUME NEW s \in Text, LineEnds(s) # {}
  PROVE  /\ NextText(s) \in Text /\ Len(NextText(s)) <= Len(s)
         /\ \A k \in 1 .. Len(NextText(s)) : NextText(s)[k] = s[k]
<1>1. Len(s) \in Nat /\ Len(s) > 0
  <2>1. Len(s) \in Nat /\ Len(FirstLine(s)) \in Nat /\ Len(Rest(s)) \in Nat
    BY Cut, Texts
  <2> QED
    BY <2>1, Cut
<1>2. CASE TooLong(s)
  <2>1. /\ SubSeq(s, 1, 1) \in Text /\ Len(SubSeq(s, 1, 1)) = 1
        /\ \A k \in 1 .. Len(SubSeq(s, 1, 1)) : SubSeq(s, 1, 1)[k] = s[1 + k - 1]
    BY <1>1, SubText
  <2>2. NextText(s) = SubSeq(s, 1, 1)
    BY <1>2 DEF NextText
  <2> QED
    BY <1>1, <2>1, <2>2
<1>3. CASE ~TooLong(s)
  <2>1. NextText(s) = FirstLine(s)
    BY <1>3 DEF NextText
  <2>2. Len(Rest(s)) \in Nat /\ Len(FirstLine(s)) \in Nat
    BY Cut, Texts
  <2> QED
    BY <1>1, <2>1, <2>2, Cut
<1> QED
  BY <1>2, <1>3

-----------------------------------------------------------------------------
(***************************************************************************)
(* What is in a file, what is in hand, and what is sent.                    *)
(***************************************************************************)

LEMMA FromText ==
  ASSUME TypeInv, NEW i \in Inodes, NEW o \in Nat
  PROVE  /\ Size(i) \in Nat /\ From(i, o) \in Text
         /\ o <= Size(i) => Len(From(i, o)) = Size(i) - o /\ Piece(From(i, o), i, o)
<1>1. i # 0 /\ data[i] \in Text
  BY Basics
<1>2. Size(i) = Len(data[i]) /\ From(i, o) = SubSeq(data[i], o + 1, Len(data[i]))
  BY <1>1 DEF Size, From
<1>3. Len(data[i]) \in Nat /\ DOMAIN data[i] = 1 .. Len(data[i])
  BY <1>1, Texts
<1>4. /\ From(i, o) \in Text
      /\ Len(From(i, o)) = IF o + 1 <= Len(data[i]) THEN Len(data[i]) - (o + 1) + 1 ELSE 0
      /\ \A k \in 1 .. Len(From(i, o)) :
           o + 1 + k - 1 \in 1 .. Len(data[i]) /\ From(i, o)[k] = data[i][o + 1 + k - 1]
  BY <1>1, <1>2, <1>3, SubText
<1>5. ASSUME o <= Size(i)
      PROVE  Len(From(i, o)) = Size(i) - o /\ Piece(From(i, o), i, o)
  <2>1. Len(From(i, o)) = Size(i) - o
    BY <1>2, <1>3, <1>4, <1>5
  <2>2. DOMAIN From(i, o) = 1 .. Len(From(i, o))
    BY <1>4, Texts
  <2>3. \A k \in 1 .. Len(From(i, o)) : o + 1 + k - 1 = o + k
    BY <1>4, Texts
  <2> QED
    BY <2>1, <2>2, <2>3, <1>3, <1>4 DEF Piece
<1> QED
  BY <1>2, <1>3, <1>4, <1>5

(* The front of a piece is one, and what is left is one after it. *)
LEMMA PieceFront ==
  ASSUME TypeInv, NEW s \in Text, NEW p \in Text, NEW i, NEW a \in Nat,
         Piece(s, i, a), Len(p) <= Len(s), \A k \in 1 .. Len(p) : p[k] = s[k]
  PROVE  Piece(p, i, a)
<1>1. Len(s) \in Nat /\ Len(p) \in Nat /\ DOMAIN s = 1 .. Len(s) /\ DOMAIN p = 1 .. Len(p)
  BY Texts
<1> QED
  BY <1>1 DEF Piece

LEMMA PieceRest ==
  ASSUME TypeInv, NEW s \in Text, NEW r \in Text, NEW n \in Nat, NEW i, NEW a \in Nat,
         Piece(s, i, a), n + Len(r) = Len(s), \A k \in 1 .. Len(r) : r[k] = s[n + k]
  PROVE  Piece(r, i, a + n)
<1>1. Len(s) \in Nat /\ Len(r) \in Nat /\ DOMAIN s = 1 .. Len(s) /\ DOMAIN r = 1 .. Len(r)
  BY Texts
<1>2. ASSUME NEW k \in 1 .. Len(r)
      PROVE  a + n + k \in DOMAIN data[i] /\ r[k] = data[i][a + n + k]
  <2>1. n + k \in 1 .. Len(s) /\ a + (n + k) = a + n + k
    BY <1>1
  <2>2. a + (n + k) \in DOMAIN data[i] /\ s[n + k] = data[i][a + (n + k)]
    BY <1>1, <2>1 DEF Piece
  <2> QED
    BY <2>1, <2>2
<1> QED
  BY <1>1, <1>2 DEF Piece

(* Two pieces one after the other are one. *)
LEMMA PieceJoin ==
  ASSUME TypeInv, NEW s \in Text, NEW r \in Text, NEW i, NEW a \in Nat,
         Piece(s, i, a), Piece(r, i, a + Len(s))
  PROVE  s \o r \in Text /\ Len(s \o r) = Len(s) + Len(r) /\ Piece(s \o r, i, a)
<1>1. Len(s) \in Nat /\ Len(r) \in Nat /\ DOMAIN s = 1 .. Len(s) /\ DOMAIN r = 1 .. Len(r)
  BY Texts
<1>2. /\ s \o r \in Text /\ Len(s \o r) = Len(s) + Len(r)
      /\ \A k \in 1 .. Len(s) + Len(r) :
           (s \o r)[k] = IF k <= Len(s) THEN s[k] ELSE r[k - Len(s)]
  BY ConcatProperties DEF Text
<1>3. DOMAIN (s \o r) = 1 .. Len(s) + Len(r)
  BY <1>2, Texts
<1>4. ASSUME NEW k \in 1 .. Len(s) + Len(r)
      PROVE  a + k \in DOMAIN data[i] /\ (s \o r)[k] = data[i][a + k]
  <2>1. CASE k <= Len(s)
    <3>1. k \in 1 .. Len(s) /\ (s \o r)[k] = s[k]
      BY <1>1, <1>2, <2>1
    <3> QED
      BY <1>1, <3>1 DEF Piece
  <2>2. CASE ~(k <= Len(s))
    <3>1. k - Len(s) \in 1 .. Len(r) /\ (s \o r)[k] = r[k - Len(s)]
          /\ a + Len(s) + (k - Len(s)) = a + k
      BY <1>1, <1>2, <2>2
    <3> QED
      BY <1>1, <3>1 DEF Piece
  <2> QED
    BY <2>1, <2>2
<1> QED
  BY <1>2, <1>3, <1>4 DEF Piece

(* A piece is within its file. *)
LEMMA PieceEnds ==
  ASSUME TypeInv, NEW s \in Text, NEW i \in Inodes, NEW a \in Nat, Piece(s, i, a)
  PROVE  s # <<>> => a + Len(s) <= Len(data[i])
<1>1. Len(s) \in Nat /\ DOMAIN s = 1 .. Len(s) /\ (s = <<>> <=> Len(s) = 0)
  BY Texts
<1>2. Len(data[i]) \in Nat /\ DOMAIN data[i] = 1 .. Len(data[i])
  BY Basics, Texts
<1>3. SUFFICES ASSUME s # <<>>
               PROVE  a + Len(s) <= Len(data[i])
  OBVIOUS
<1>4. Len(s) \in 1 .. Len(s)
  BY <1>1, <1>3
<1>5. a + Len(s) \in 1 .. Len(data[i])
  BY <1>1, <1>2, <1>4 DEF Piece
<1> QED
  BY <1>2, <1>5

(* What was in hand before a piece is sent, so with the piece in hand it is   *)
(* covered to the piece's end.                                               *)
LEMMA CoveredBy ==
  ASSUME TypeInv, NEW s \in Text, NEW i \in Inodes, NEW a \in Nat,
         Piece(s, i, a), Covered(i, a, <<>>)
  PROVE  Covered(i, a + Len(s), s)
<1>1. Len(s) \in Nat /\ DOMAIN s = 1 .. Len(s)
  BY Texts
<1>2. DOMAIN data[i] \subseteq Nat
  BY Basics, Texts
<1>3. ASSUME NEW k \in DOMAIN data[i], k <= a + Len(s)
      PROVE  sent[data[i][k]] > 0 \/ data[i][k] \in Range(s)
  <2>1. CASE k <= a
    BY <2>1, Nothing DEF Covered
  <2>2. CASE ~(k <= a)
    <3>1. k - a \in 1 .. Len(s) /\ a + (k - a) = k
      BY <1>1, <1>2, <1>3, <2>2
    <3>2. s[k - a] = data[i][k]
      BY <1>1, <3>1 DEF Piece
    <3> QED
      BY <1>1, <3>1, <3>2 DEF Range
  <2> QED
    BY <2>1, <2>2
<1> QED
  BY <1>3 DEF Covered

(* With no line that could come twice, unit k is the file's k-th. *)
LEMMA OneFile ==
  ASSUME TypeInv, FileInv, Calm, files # 0
  PROVE  /\ files = 1 /\ 1 \in Inodes /\ Len(data[1]) = written /\ Size(1) = written
         /\ DOMAIN data[1] = 1 .. written
         /\ \A k \in 1 .. written : data[1][k] = k
<1>1. files = 1
  BY Basics DEF Calm
<1>2. 1 \in Inodes
  <2>1. files \in 0 .. setup.inodes /\ setup \in Setups
    BY DEF TypeInv, TypeOK
  <2>2. setup.inodes \in Nat
    BY <2>1, Numbers
  <2>3. 1 \in 1 .. setup.inodes
    BY <1>1, <2>1, <2>2
  <2> QED
    BY <2>1, <2>3, Numbers
<1>3. Len(data[1]) = written /\ \A k \in DOMAIN data[1] : data[1][k] = k
  BY <1>1 DEF FileInv, Calm, Undisturbed
<1>4. DOMAIN data[1] = 1 .. written
  BY <1>2, <1>3, Basics, Texts
<1> QED
  BY <1>1, <1>2, <1>3, <1>4 DEF Size

LEMMA AheadBy ==
  ASSUME TypeInv, FileInv, Calm, files # 0, NEW s \in Text, NEW a \in Nat,
         Piece(s, 1, a), Ahead(a, <<>>)
  PROVE  Ahead(a + Len(s), s)
<1>1. Len(s) \in Nat /\ DOMAIN s = 1 .. Len(s) /\ Range(s) = {s[k] : k \in 1 .. Len(s)}
  BY Texts
<1>2. DOMAIN data[1] = 1 .. written /\ \A k \in 1 .. written : data[1][k] = k
  BY OneFile
<1>3. ASSUME NEW u \in Units
      PROVE  sent[u] <= 1 /\ (sent[u] > 0 \/ u \in Range(s) => u <= a + Len(s))
  <2>1. u \in Nat
    BY Numbers
  <2>2. sent[u] <= 1 /\ (sent[u] > 0 => u <= a)
    BY Nothing DEF Ahead
  <2>3. ASSUME u \in Range(s)
        PROVE  u <= a + Len(s)
    <3>1. PICK k \in 1 .. Len(s) : u = s[k]
      BY <1>1, <2>3
    <3>2. u = a + k
      BY <1>1, <1>2, <3>1 DEF Piece
    <3> QED
      BY <1>1, <3>2
  <2> QED
    BY <1>1, <2>1, <2>2, <2>3
<1> QED
  BY <1>3 DEF Ahead

LEMMA AheadOf ==
  ASSUME NEW a \in Int, NEW b \in Int, a <= b, NEW s, NEW r,
         Ahead(a, s), Range(r) \subseteq Range(s)
  PROVE  Ahead(b, r)
  BY Numbers DEF Ahead

LEMMA CoveredOf ==
  ASSUME TypeInv, NEW i \in Inodes, NEW a \in Int, NEW b \in Int, b <= a, Covered(i, a, <<>>), NEW s
  PROVE  Covered(i, b, s)
<1>1. DOMAIN data[i] \subseteq Nat
  BY Basics, Texts
<1> QED
  BY <1>1, Nothing DEF Covered

(* No line of a file is longer than it is allowed to be. *)
LEMMA NoneTooLong ==
  ASSUME TypeInv, FileInv, Calm, files # 0, NEW s \in Text, NEW a \in Nat, Piece(s, 1, a),
         LineEnds(s) # {}
  PROVE  ~TooLong(s)
<1>1. SUFFICES ASSUME TooLong(s)
               PROVE  FALSE
  OBVIOUS
<1>2. FirstLine(s) = <<2 * long - 1, 2 * long>>
  BY <1>1 DEF TooLong
<1>3. Len(FirstLine(s)) = 2 /\ FirstLine(s)[2] = 2 * long
  BY <1>2
<1>4. Len(s) \in Nat /\ Len(Rest(s)) \in Nat /\ DOMAIN s = 1 .. Len(s)
  BY Cut, Texts
<1>5. 2 \in 1 .. Len(s) /\ s[2] = 2 * long
  BY <1>3, <1>4, Cut
<1>6. a + 2 \in 1 .. written /\ s[2] = a + 2
  BY <1>4, <1>5, OneFile DEF Piece
<1>7. long \in Nat /\ written \in Nat
  BY Basics
<1> QED
  BY <1>5, <1>6, <1>7 DEF Calm, Undisturbed

-----------------------------------------------------------------------------
(***************************************************************************)
(* The initial states; a step that changes only one goroutine.              *)
(***************************************************************************)

LEMMA Start == Init => IInv
<1> SUFFICES ASSUME Init
             PROVE  IInv
  OBVIOUS
<1>1. setup \in Setups /\ setup.lines \in Nat /\ setup.inodes \in Nat
  BY Numbers DEF Init
<1>2. 0 \in 0 .. setup.inodes /\ 0 \in 0 .. 2 * setup.lines
  BY <1>1
<1>3. NoTail \in TailType /\ NoLib \in LibType
  BY Nothing DEF NoTail, NoLib, TailType, LibType
<1>4. TypeInv
  <2>1. /\ setup \in Setups /\ path \in Inodes \cup {0} /\ files \in 0 .. setup.inodes
        /\ data \in [Inodes -> Text] /\ written \in 0 .. 2 * setup.lines /\ truncs \in Nat
    BY <1>1, <1>2, Nothing DEF Init
  <2>2. tail \in [Tails -> TailType] /\ lib \in [Tails -> LibType]
    BY <1>3 DEF Init
  <2>3. run = "discover" /\ found = FALSE /\ tailed = 0 /\ room = TRUE /\ stopped = FALSE
    BY DEF Init
  <2>4. sent \in [Units -> 0 .. 2]
    BY DEF Init
  <2> QED
    BY <2>1, <2>2, <2>3, <2>4 DEF TypeInv, TypeOK
<1>5. TailInv
  BY DEF TailInv, Init, Off, NoTail
<1>6. FileInv
  BY Nothing DEF FileInv, Init
<1>7. \A u \in Units : sent[u] = 0
  BY DEF Init
<1>8. Ahead(0, <<>>)
  BY <1>7, Nothing DEF Ahead
<1>9. GoodInv
  <2>1. NoTail.pc = "off" /\ NoTail.text = <<>> /\ NoTail.fd = 0 /\ NoLib.pc = "off"
        /\ NoTail.orig = 0 /\ NoTail.lastSize = 0 /\ NoLib.fd = 0 /\ NoLib.text = <<>>
    BY DEF NoTail, NoLib
  <2>2. Shape(NoTail, NoLib)
    BY <2>1 DEF Shape, Init
  <2>3. Reading(NoTail, NoLib) /\ Gapless(NoTail, NoLib) /\ Repeatless(NoTail, NoLib)
    BY <2>1 DEF Reading, Gapless, Repeatless
  <2> QED
    BY <2>2, <2>3 DEF GoodInv, Good, Init
<1>10. SentInv
  BY <1>7, <1>8, Nothing DEF SentInv, NoGap, Init
<1> QED
  BY <1>4, <1>5, <1>6, <1>9, <1>10 DEF IInv

(* While one goroutine is there, nothing is left of another. *)
LEMMA Alone ==
  ASSUME TypeInv, TailInv, GoodInv, NEW g \in Tails, ~Off(g)
  PROVE  /\ tailed = g /\ files # 0 /\ run # "closed"
         /\ \A h \in Tails \ {g} : Off(h) /\ tail[h] = NoTail /\ lib[h] = NoLib
<1>1. tailed = g
  BY DEF TailInv
<1>2. g # 0
  BY Basics
<1>3. files # 0 /\ run # "closed"
  BY <1>1, <1>2, Basics DEF TailInv
<1>4. ASSUME NEW h \in Tails \ {g}
      PROVE  Off(h) /\ tail[h] = NoTail /\ lib[h] = NoLib
  <2>1. Off(h)
    BY <1>1, <1>4 DEF TailInv
  <2>2. Shape(tail[h], lib[h])
    BY <1>4 DEF GoodInv, Good
  <2> QED
    BY <2>1, <2>2 DEF Shape, Off
<1> QED
  BY <1>1, <1>3, <1>4

(* What is good stays good when nothing else changes. *)
LEMMA GoodStays ==
  ASSUME UNCHANGED <<setup, fileVars, sent, stopped>>, NEW t, NEW l, Good(t, l)
  PROVE  Good(t, l)'
<1>1. Shape(t, l)' /\ (Calm' <=> Calm) /\ (Steady' <=> Steady) /\ (Vanished' <=> Vanished)
  BY DEF Good, Shape, fileVars, Calm, Steady, Vanished, Undisturbed, mode, long
<1>2. \A i, n, s : (Piece(s, i, n)' <=> Piece(s, i, n)) /\ (Covered(i, n, s)' <=> Covered(i, n, s))
                   /\ (Ahead(n, s)' <=> Ahead(n, s))
  BY DEF Piece, Covered, Ahead, fileVars, Units
<1>3. Reading(t, l)'
  BY <1>1, <1>2 DEF Good, Reading, fileVars, Size
<1>4. Gapless(t, l)'
  BY <1>1, <1>2 DEF Good, Gapless, fileVars
<1>5. Repeatless(t, l)'
  <2>1. Standing(t, l) => Standing(t, l)'
    BY <1>2 DEF Standing, fileVars, mode
  <2> QED
    BY <1>1, <1>2, <2>1 DEF Good, Repeatless, fileVars
<1> QED
  BY <1>1, <1>3, <1>4, <1>5 DEF Good

LEMMA OneMoves ==
  ASSUME IInv, NEW g \in Tails, ~Off(g), NEW t \in TailType, NEW l \in LibType,
         t.pc # "off", Good(t, l),
         tail' = [tail EXCEPT ![g] = t], lib' = [lib EXCEPT ![g] = l],
         UNCHANGED <<setup, fileVars, runVars, sent, envVars>>
  PROVE  IInv'
<1>1. tail \in [Tails -> TailType] /\ lib \in [Tails -> LibType]
  BY DEF IInv, TypeInv, TypeOK
<1>2. /\ tail' \in [Tails -> TailType] /\ lib' \in [Tails -> LibType]
      /\ tail'[g] = t /\ lib'[g] = l
      /\ \A h \in Tails \ {g} : tail'[h] = tail[h] /\ lib'[h] = lib[h]
  BY <1>1
<1>3. /\ UNCHANGED <<setup, path, files, data, written, truncs>>
      /\ UNCHANGED <<run, found, tailed, sent, room, stopped>>
  BY DEF fileVars, runVars, envVars
<1>4. TypeInv'
  <2>1. tail' \in [Tails -> TailType] /\ lib' \in [Tails -> LibType]
    BY <1>2
  <2>2. TypeInv
    BY DEF IInv
  <2> QED
    BY <2>1, <2>2, <1>3 DEF TypeInv, TypeOK
<1>5. TailInv'
  <2>1. \A h \in Tails : Off(h)' <=> Off(h)
    BY <1>2 DEF Off
  <2>2. tailed # 0 => ~Off(tailed)'
    <3>1. tailed = g
      BY DEF IInv, TailInv
    <3> QED
      BY <3>1, <1>2, <1>3 DEF Off
  <2> QED
    BY <2>1, <2>2, <1>3 DEF IInv, TailInv, Off
<1>6. FileInv'
  BY <1>3 DEF IInv, FileInv, Inodes
<1>7. GoodInv'
  <2>1. ASSUME NEW h \in Tails
        PROVE  Good(tail[h], lib[h])'
    <3>1. CASE h = g
      <4>1. Good(t, l)'
        BY <1>3, GoodStays DEF fileVars
      <4>2. tail'[h] = t /\ lib'[h] = l
        BY <3>1, <1>2
      <4> QED
        BY <4>1, <4>2
    <3>2. CASE h # g
      <4>1. tail'[h] = tail[h] /\ lib'[h] = lib[h] /\ Good(tail[h], lib[h])
        BY <3>2, <1>2 DEF IInv, GoodInv
      <4> QED
        BY <4>1, <1>3, GoodStays DEF fileVars
    <3> QED
      BY <3>1, <3>2
  <2> QED
    BY <2>1 DEF GoodInv
<1>8. SentInv'
  BY <1>3 DEF IInv, SentInv, NoGap, Steady, Calm, Undisturbed, Vanished, Ahead, Units, Inodes, mode, long
<1> QED
  BY <1>4, <1>5, <1>6, <1>7, <1>8 DEF IInv

LEMMA TailMoves ==
  ASSUME IInv, NEW g \in Tails, ~Off(g), NEW t \in TailType, t.pc # "off", Good(t, lib[g]),
         tail' = [tail EXCEPT ![g] = t],
         UNCHANGED <<setup, fileVars, runVars, lib, sent, envVars>>
  PROVE  IInv'
<1>1. lib \in [Tails -> LibType]
  BY DEF IInv, TypeInv, TypeOK
<1>2. lib' = [lib EXCEPT ![g] = lib[g]] /\ lib[g] \in LibType
  BY <1>1
<1> QED
  BY <1>2, OneMoves

LEMMA LibMoves ==
  ASSUME IInv, NEW g \in Tails, ~Off(g), NEW l \in LibType, Good(tail[g], l),
         LibBecomes(g, l)
  PROVE  IInv'
<1>1. tail \in [Tails -> TailType]
  BY DEF IInv, TypeInv, TypeOK
<1>2. tail' = [tail EXCEPT ![g] = tail[g]] /\ tail[g] \in TailType /\ tail[g].pc # "off"
  BY <1>1 DEF LibBecomes, Off
<1> QED
  BY <1>2, OneMoves DEF LibBecomes

(* A goroutine that is there, and its library. *)
LEMMA Here ==
  ASSUME IInv, NEW g \in Tails, tail[g].pc # "off" \/ lib[g].pc # "off"
  PROVE  /\ TypeInv /\ FileInv /\ ~Off(g) /\ tail[g].pc # "off"
         /\ tail[g] \in TailType /\ lib[g] \in LibType
         /\ Shape(tail[g], lib[g]) /\ Reading(tail[g], lib[g])
         /\ Gapless(tail[g], lib[g]) /\ Repeatless(tail[g], lib[g])
         /\ tailed = g /\ files # 0
         /\ Calm => /\ files = 1 /\ path \in {0, 1} /\ (path = 0 <=> Vanished)
                    /\ 1 \in Inodes /\ Size(1) = written /\ ~stopped
<1>1. TypeInv /\ FileInv /\ TailInv /\ GoodInv
  BY DEF IInv
<1>2. Shape(tail[g], lib[g]) /\ Reading(tail[g], lib[g])
      /\ Gapless(tail[g], lib[g]) /\ Repeatless(tail[g], lib[g])
  BY <1>1 DEF GoodInv, Good
<1>3. ~Off(g) /\ tail[g].pc # "off"
  BY <1>2 DEF Shape, Off, NoTail, NoLib
<1>4. tailed = g /\ files # 0
  BY <1>1, <1>3, Alone
<1>5. tail[g] \in TailType /\ lib[g] \in LibType
  BY <1>1, Basics
<1>6. Calm => /\ files = 1 /\ path \in {0, 1} /\ (path = 0 <=> Vanished)
              /\ 1 \in Inodes /\ Size(1) = written /\ ~stopped
  <2> SUFFICES ASSUME Calm
               PROVE  /\ files = 1 /\ path \in {0, 1} /\ (path = 0 <=> Vanished)
                      /\ 1 \in Inodes /\ Size(1) = written /\ ~stopped
    OBVIOUS
  <2>1. files = 1 /\ 1 \in Inodes /\ Size(1) = written
    BY <1>1, <1>4, OneFile
  <2>2. path \in Nat /\ path <= files
    BY <1>1, Basics DEF FileInv
  <2> QED
    BY <2>1, <2>2 DEF Vanished, Calm
<1> QED
  BY <1>1, <1>2, <1>3, <1>4, <1>5, <1>6

(* With nothing open and nothing in hand only its position counts. *)
LEMMA EmptyHanded ==
  ASSUME NEW t, NEW l, t.fd = 0, t.text = <<>>, l.fd = 0,
         Calm /\ ~Vanished /\ t.pc # "off" => Standing(t, l)
  PROVE  Reading(t, l) /\ Gapless(t, l) /\ Repeatless(t, l)
BY DEF Reading, Gapless, Repeatless

(* So it does while what the library sends is thrown away. *)
LEMMA Dropping ==
  ASSUME NEW t, NEW l, NEW u, t.fd = 0, t.text = <<>>, t.pc = "stop",
         Reading(u, l), Calm /\ ~Vanished => Standing(t, l)
  PROVE  Reading(t, l) /\ Gapless(t, l) /\ Repeatless(t, l)
BY DEF Reading, Gapless, Repeatless

LEMMA StandsNowhere ==
  ASSUME TypeInv, NEW t \in TailType, NEW l, ~t.cancelled, t.lastSize <= written, t.fd = 0,
         Ahead(t.lastSize, <<>>), t.text = <<>>, t.pc \in {"begin", "exit"} => Ahead(0, <<>>),
         l.pc = "open" => l.pos = t.lastSize, l.fd = 0 \/ t.pc = "stop"
  PROVE  Standing(t, l)
BY Nothing DEF Standing, Piece

-----------------------------------------------------------------------------
(***************************************************************************)
(* The steps that the modes share.                                          *)
(***************************************************************************)

LEMMA AbandonStep ==
  ASSUME IInv, NEW g \in Tails, Abandon(g)
  PROVE  IInv'
<1> DEFINE t0 == tail[g]
           l  == lib[g]
           t  == [NoTail EXCEPT !.pc = IF lib[g].pc = "off" THEN "exit" ELSE "stop",
                                !.cancelled = tail[g].cancelled]
<1>1. t0.pc \in Waiting /\ Cancelled(g) /\ Becomes(g, t)
  BY DEF Abandon
<1>2. t0.pc # "off"
  BY <1>1 DEF Waiting
<1>3. /\ TypeInv /\ ~Off(g) /\ t0 \in TailType /\ l \in LibType /\ Shape(t0, l) /\ Reading(t0, l)
      /\ Repeatless(t0, l)
      /\ files \in Nat /\ (Calm => ~stopped)
  BY <1>2, Here, Basics
<1>4. /\ t \in TailType /\ t.pc = IF l.pc = "off" THEN "exit" ELSE "stop"
      /\ t.fd = 0 /\ t.text = <<>> /\ t.lastSize = 0 /\ t.orig = 0
  BY <1>3, Nothing DEF TailType, NoTail
<1> HIDE DEF t
<1>5. Shape(t, l)
  BY <1>1, <1>3, <1>4 DEF Shape, Waiting
<1>6. ~(Calm /\ ~Vanished)
  <2> SUFFICES ASSUME Calm, ~Vanished
               PROVE  FALSE
    OBVIOUS
  <2>1. Standing(t0, l)
    BY <1>2, <1>3 DEF Repeatless
  <2> QED
    BY <1>1, <1>3, <2>1 DEF Standing, Cancelled
<1>7. Reading(t, l) /\ Gapless(t, l) /\ Repeatless(t, l)
  <2>1. CASE l.pc = "off"
    <3>1. l.fd = 0
      BY <2>1, <1>3 DEF Shape, NoLib
    <3> QED
      BY <1>4, <1>6, <3>1, EmptyHanded
  <2>2. CASE l.pc # "off"
    BY <2>2, <1>3, <1>4, <1>6, Dropping
  <2> QED
    BY <2>1, <2>2
<1> QED
  BY <1>1, <1>3, <1>4, <1>5, <1>7, TailMoves DEF Good, Becomes

LEMMA RetryStep ==
  ASSUME IInv, NEW g \in Tails, Retry(g)
  PROVE  IInv'
<1> DEFINE t0 == tail[g]
           l  == lib[g]
           t  == [tail[g] EXCEPT !.pc = "open"]
<1>1. t0.pc = "retry" /\ Becomes(g, t)
  BY DEF Retry
<1>2. /\ TypeInv /\ ~Off(g) /\ t0 \in TailType /\ Shape(t0, l) /\ Repeatless(t0, l)
  BY <1>1, Here
<1>3. /\ t \in TailType /\ t.pc = "open" /\ t.fd = t0.fd /\ t.text = t0.text /\ t.orig = t0.orig
      /\ t.lastSize = t0.lastSize /\ t.cancelled = t0.cancelled
  BY <1>2 DEF TailType
<1> HIDE DEF t
<1>4. t0.fd = 0 /\ t0.text = <<>> /\ l.pc = "off" /\ l.fd = 0
  BY <1>1, <1>2 DEF Shape, NoLib
<1>5. Shape(t, l)
  BY <1>1, <1>2, <1>3 DEF Shape
<1>6. Calm /\ ~Vanished => Standing(t, l)
  BY <1>1, <1>2, <1>3, <1>4 DEF Repeatless, Standing
<1>7. Reading(t, l) /\ Gapless(t, l) /\ Repeatless(t, l)
  BY <1>3, <1>4, <1>6, EmptyHanded
<1> QED
  BY <1>1, <1>2, <1>3, <1>5, <1>7, TailMoves DEF Good, Becomes

(* A goroutine with no library fails, when no line may come twice only for    *)
(* want of a file.                                                           *)
LEMMA FailStep ==
  ASSUME IInv, NEW g \in Tails, tail[g].pc # "off", lib[g].pc = "off", mode # "event",
         Becomes(g, Failed(tail[g])), Calm => path = 0
  PROVE  IInv'
<1> DEFINE t0 == tail[g]
           l  == lib[g]
           t  == Failed(tail[g])
<1>1. /\ TypeInv /\ ~Off(g) /\ t0 \in TailType /\ Shape(t0, l) /\ (Calm => Vanished)
      /\ files \in Nat
  BY Here, Basics
<1>2. /\ t \in TailType /\ t.pc = "retry" /\ t.fd = 0 /\ t.text = <<>> /\ t.orig = 0
      /\ t.lastSize = t0.lastSize
  BY <1>1, Nothing DEF TailType, Failed, NoTail
<1> HIDE DEF t
<1>3. l.fd = 0 /\ Shape(t, l)
  BY <1>1, <1>2 DEF Shape, NoLib
<1>4. Reading(t, l) /\ Gapless(t, l) /\ Repeatless(t, l)
  BY <1>1, <1>2, <1>3, EmptyHanded
<1> QED
  BY <1>1, <1>2, <1>3, <1>4, TailMoves DEF Good, Becomes, t

-----------------------------------------------------------------------------
(***************************************************************************)
(* A goroutine that reads by itself.                                        *)
(***************************************************************************)

(* It opens the file at its position, which is 0 in poll mode. *)
LEMMA OpenStep ==
  ASSUME IInv, NEW g \in Tails,
         (mode = "poll" /\ tail[g].pc = "open") \/ tail[g].pc = "drain",
         OpenAt(g, tail[g].lastSize)
  PROVE  IInv'
<1> DEFINE t0 == tail[g]
           l  == lib[g]
           t  == [tail[g] EXCEPT !.pc = "scan", !.fd = path, !.off = tail[g].lastSize,
                                 !.buf = <<>>, !.eof = FALSE]
<1>1. /\ TypeInv /\ FileInv /\ ~Off(g) /\ t0 \in TailType /\ Shape(t0, l) /\ Repeatless(t0, l)
      /\ (Calm => files = 1 /\ path \in {0, 1} /\ (path = 0 <=> Vanished) /\ Size(1) = written)
  BY Here
<1>2. /\ path \in Inodes \cup {0} /\ files \in Nat /\ path <= files /\ written \in Nat
      /\ mode \in {"poll", "event", "hybrid"}
  BY <1>1, Basics DEF TypeInv, TypeOK, FileInv
<1>3. t0.pc # "off" /\ t0.fd = 0 /\ t0.text = <<>> /\ l.pc = "off" /\ l = NoLib /\ l.fd = 0 /\ mode # "event"
  BY <1>1, <1>2 DEF Shape, NoLib
<1>4. CASE path = 0
  <2>1. Becomes(g, Failed(tail[g]))
    BY <1>4 DEF OpenAt
  <2> QED
    BY <1>3, <1>4, <2>1, FailStep
<1>5. CASE path # 0
  <2>1. Becomes(g, t)
    BY <1>5 DEF OpenAt
  <2>2. /\ t \in TailType /\ t.pc = "scan" /\ t.fd = path /\ t.off = t0.lastSize /\ t.buf = <<>>
        /\ t.text = <<>> /\ t.orig = t0.orig /\ t.lastSize = t0.lastSize
        /\ t.cancelled = t0.cancelled
    BY <1>1, <1>2, <1>3, Nothing DEF TailType
  <2> HIDE DEF t
  <2>3. path \in Inodes /\ t0.lastSize \in Nat /\ Size(path) \in Nat
        /\ (mode # "hybrid" => t0.lastSize = 0)
    BY <1>1, <1>2, <1>5, FromText DEF TailType, Shape
  <2>4. Calm => ~Vanished /\ Standing(t0, l) /\ path = 1
    BY <1>1, <1>3, <1>5 DEF Repeatless
  <2>5. Shape(t, l)
    BY <1>1, <1>2, <1>3, <1>5, <2>2 DEF Shape
  <2>6. Reading(t, l)
    <3>1. Steady \/ Calm => t.off <= Size(path)
      <4>1. Steady => t.off <= Size(path)
        BY <2>2, <2>3 DEF Steady
      <4>2. Calm => t.off <= Size(path)
        BY <1>1, <2>2, <2>4 DEF Standing
      <4> QED
        BY <4>1, <4>2
    <3>2. Len(t.buf) = 0 /\ Piece(t.buf, t.fd, t.off - Len(t.buf)) /\ t.off \in Nat
      BY <2>2, <2>3, Nothing DEF Piece
    <3> QED
      BY <1>3, <2>2, <2>3, <3>1, <3>2 DEF Reading
  <2>7. Gapless(t, l)
    <3>1. Steady => Covered(t.fd, t.off - Len(t.buf), t.text)
      <4>1. Steady => t.off - Len(t.buf) = 0
        BY <2>2, <2>3, Nothing DEF Steady
      <4>2. \A k \in DOMAIN data[path] : k \in Nat /\ k > 0
        BY <1>1, <2>3, Basics, Texts
      <4>3. Covered(t.fd, 0, t.text)
        BY <2>2, <4>2 DEF Covered
      <4> QED
        BY <4>1, <4>3
    <3> QED
      BY <1>3, <2>2, <3>1 DEF Gapless
  <2>8. Repeatless(t, l)
    <3> SUFFICES ASSUME Calm
                 PROVE  /\ Ahead(t.off - Len(t.buf), t.text)
                        /\ Standing(t, l)
      BY <1>3, <2>2 DEF Repeatless
    <3>1. t.off - Len(t.buf) = t0.lastSize
      BY <2>2, <2>3, Nothing
    <3>2. Standing(t0, l)
      BY <2>4
    <3>3. Ahead(t0.lastSize, <<>>)
      BY <1>3, <3>2 DEF Standing
    <3>4. Standing(t, l)
      BY <1>3, <1>5, <2>2, <3>2 DEF Standing
    <3> QED
      BY <2>2, <3>1, <3>3, <3>4
  <2> QED
    BY <1>1, <2>1, <2>2, <2>5, <2>6, <2>7, <2>8, TailMoves DEF Good, Becomes
<1> QED
  BY <1>4, <1>5

(* What a goroutine is that reads by itself. *)
LEMMA OwnReader ==
  ASSUME IInv, NEW g \in Tails, tail[g].pc \in {"scan", "eof", "sleep"}
  PROVE  LET t == tail[g]
             l == lib[g]
         IN  /\ t.fd \in Inodes /\ t.text = <<>> /\ l = NoLib /\ l.pc = "off" /\ l.fd = 0
             /\ mode # "event" /\ Size(t.fd) \in Nat
             /\ Steady \/ Calm => /\ t.off <= Size(t.fd) /\ Len(t.buf) <= t.off
                                  /\ Piece(t.buf, t.fd, t.off - Len(t.buf))
             /\ Steady => Covered(t.fd, t.off - Len(t.buf), <<>>)
             /\ Calm => t.fd = 1 /\ Ahead(t.off - Len(t.buf), <<>>)
             /\ Calm /\ ~Vanished => Standing(t, l)
<1> DEFINE t == tail[g]
           l == lib[g]
<1>1. /\ TypeInv /\ t \in TailType /\ Shape(t, l) /\ Reading(t, l)
      /\ Gapless(t, l) /\ Repeatless(t, l) /\ (Calm => files = 1)
  BY Here
<1>2. t.pc \in {"scan", "eof", "sleep"}
  OBVIOUS
<1>3. t.fd \in Inodes \cup {0}
  BY <1>1 DEF TailType
<1> HIDE DEF t, l
<1>4. t.fd # 0 /\ t.text = <<>> /\ l.pc = "off" /\ l = NoLib
  BY <1>1, <1>2 DEF Shape
<1>5. l.fd = 0
  BY <1>4 DEF NoLib
<1>6. mode # "event"
  BY <1>1, <1>4 DEF Shape
<1>7. t.fd \in Inodes /\ t.fd \in Nat \ {0}
  BY <1>3, <1>4, Numbers
<1>8. Size(t.fd) \in Nat
  BY <1>1, <1>7, FromText
<1>9. Steady \/ Calm => /\ t.off <= Size(t.fd) /\ Len(t.buf) <= t.off
                        /\ Piece(t.buf, t.fd, t.off - Len(t.buf))
  BY <1>1, <1>4 DEF Reading
<1>10. Steady => Covered(t.fd, t.off - Len(t.buf), <<>>)
  BY <1>1, <1>4 DEF Gapless
<1>11. Calm => t.fd = 1
  BY <1>1, <1>7 DEF Shape
<1>12. Calm => Ahead(t.off - Len(t.buf), <<>>)
  BY <1>1, <1>4 DEF Repeatless
<1>13. Calm /\ ~Vanished => Standing(t, l)
  BY <1>1, <1>2 DEF Repeatless
<1> QED
  BY <1>4, <1>5, <1>6, <1>7, <1>8, <1>9, <1>10, <1>11, <1>12, <1>13 DEF t, l

(* It goes on in another place; what it has read is in its buffer. *)
LEMMA ReaderStep ==
  ASSUME IInv, NEW g \in Tails, tail[g].pc \in {"scan", "eof", "sleep"},
         NEW t \in TailType, t.pc \in {"scan", "eof", "sleep"}, Becomes(g, t),
         t.fd = tail[g].fd, t.text = <<>>, t.orig = tail[g].orig,
         t.lastSize = tail[g].lastSize, t.cancelled = tail[g].cancelled,
         Steady \/ Calm => /\ t.off <= Size(t.fd) /\ Len(t.buf) <= t.off
                           /\ Piece(t.buf, t.fd, t.off - Len(t.buf))
                           /\ t.off - Len(t.buf) = tail[g].off - Len(tail[g].buf)
  PROVE  IInv'
<1> DEFINE t0 == tail[g]
           l  == lib[g]
<1>1. TypeInv /\ ~Off(g) /\ Shape(t0, l)
  BY Here
<1>2. /\ t0.fd \in Inodes /\ t0.text = <<>> /\ l.pc = "off" /\ l.fd = 0 /\ mode # "event"
      /\ Steady => Covered(t0.fd, t0.off - Len(t0.buf), <<>>)
      /\ Calm => t0.fd = 1 /\ Ahead(t0.off - Len(t0.buf), <<>>)
      /\ Calm /\ ~Vanished => Standing(t0, l)
  BY OwnReader
<1>3. t0.pc \in {"scan", "eof", "sleep"} /\ t0.fd # 0
  BY <1>1, <1>2, Basics
<1>4. Shape(t, l)
  BY <1>1, <1>2, <1>3 DEF Shape
<1>5. Reading(t, l)
  BY <1>2 DEF Reading
<1>6. Gapless(t, l)
  BY <1>2 DEF Gapless
<1>7. Calm /\ ~Vanished => Standing(t, l)
  BY <1>2, <1>3 DEF Standing
<1>8. Repeatless(t, l)
  BY <1>2, <1>7 DEF Repeatless
<1> QED
  BY <1>1, <1>4, <1>5, <1>6, <1>8, TailMoves DEF Good, Becomes

(* A piece goes from its buffer into its hand. *)
LEMMA HandStep ==
  ASSUME IInv, NEW g \in Tails, tail[g].pc = "scan", NEW s \in Text, NEW r \in Text,
         NEW t \in TailType, t.pc = "send", t.fd = tail[g].fd, t.off = tail[g].off,
         t.buf = r, t.text = s, t.orig = tail[g].orig,
         t.lastSize = tail[g].lastSize, t.cancelled = tail[g].cancelled,
         Len(s) + Len(r) = Len(tail[g].buf),
         \A k \in 1 .. Len(s) : s[k] = tail[g].buf[k],
         \A k \in 1 .. Len(r) : r[k] = tail[g].buf[Len(s) + k],
         Becomes(g, t)
  PROVE  IInv'
<1> DEFINE t0 == tail[g]
           l  == lib[g]
           a  == t0.off - Len(t0.buf)
<1>1. TypeInv /\ FileInv /\ ~Off(g) /\ t0 \in TailType /\ Shape(t0, l) /\ files # 0
  BY Here
<1>2. /\ t0.fd \in Inodes /\ l = NoLib /\ l.pc = "off" /\ l.fd = 0 /\ mode # "event"
      /\ (Steady \/ Calm => t0.off <= Size(t0.fd) /\ Len(t0.buf) <= t0.off /\ Piece(t0.buf, t0.fd, a))
      /\ Steady => Covered(t0.fd, a, <<>>)
      /\ Calm => t0.fd = 1 /\ Ahead(a, <<>>)
      /\ Calm /\ ~Vanished => Standing(t0, l)
  BY OwnReader
<1>3. t0.fd # 0 /\ t0.pc = "scan" /\ t0.off \in Nat /\ t0.buf \in Text /\ Len(t0.buf) \in Nat
      /\ Len(s) \in Nat /\ Len(r) \in Nat
  BY <1>1, <1>2, Basics, Texts DEF TailType
<1>4. /\ t \in TailType /\ t.pc = "send" /\ t.fd = t0.fd /\ t.off = t0.off /\ t.buf = r
      /\ t.text = s /\ t.orig = t0.orig /\ t.lastSize = t0.lastSize
      /\ t.cancelled = t0.cancelled
  OBVIOUS
<1>6. Len(t0.buf) = Len(s) + Len(r)
  OBVIOUS
<1>7. a \in Int /\ t.off - Len(t.buf) = a + Len(s) /\ (Len(t0.buf) <= t0.off => a \in Nat)
  BY <1>3, <1>4, <1>6
<1>8. Steady \/ Calm => a \in Nat /\ Piece(s, t.fd, a) /\ Piece(r, t.fd, a + Len(s))
  <2> SUFFICES ASSUME Steady \/ Calm
               PROVE  a \in Nat /\ Piece(s, t0.fd, a) /\ Piece(r, t0.fd, a + Len(s))
    BY <1>4
  <2>1. a \in Nat /\ Piece(t0.buf, t0.fd, a)
    BY <1>2, <1>7
  <2> HIDE DEF a
  <2>2. Piece(s, t0.fd, a)
    <3>1. Len(s) <= Len(t0.buf)
      BY <1>3, <1>6
    <3> QED
      BY <1>1, <1>3, <2>1, <3>1, PieceFront
  <2>3. Piece(r, t0.fd, a + Len(s))
    BY <1>1, <1>3, <2>1, PieceRest
  <2> QED
    BY <2>1, <2>2, <2>3
<1>9. Shape(t, l)
  BY <1>1, <1>2, <1>3, <1>4 DEF Shape
<1>10. Reading(t, l)
  <2> SUFFICES ASSUME Steady \/ Calm
               PROVE  /\ t.off <= Size(t.fd) /\ Len(t.buf) <= t.off
                      /\ Piece(t.buf, t.fd, t.off - Len(t.buf))
    BY <1>2 DEF Reading
  <2>1. Len(t.buf) <= t.off
    BY <1>2, <1>3, <1>4, <1>6
  <2> QED
    BY <1>2, <1>4, <1>7, <1>8, <2>1
<1>11. Gapless(t, l)
  <2> SUFFICES ASSUME Steady
               PROVE  /\ s # <<>> => \E i \in Inodes : \E b \in 0 .. Len(data[i]) :
                                        Piece(s, i, b) /\ Covered(i, b, <<>>)
                      /\ Covered(t.fd, t.off - Len(t.buf), s)
    BY <1>2, <1>4 DEF Gapless
  <2>1. Piece(s, t0.fd, a) /\ Covered(t0.fd, a, <<>>) /\ a \in Nat
    BY <1>2, <1>4, <1>8
  <2>2. s # <<>> => a \in 0 .. Len(data[t0.fd])
    <3>1. s # <<>> => a + Len(s) <= Len(data[t0.fd])
      BY <1>1, <1>2, <2>1, PieceEnds
    <3>2. Len(data[t0.fd]) \in Nat
      BY <1>1, <1>2, Basics, Texts
    <3> HIDE DEF a
    <3> QED
      BY <1>3, <2>1, <3>1, <3>2
  <2>3. Covered(t0.fd, a + Len(s), s)
    BY <1>1, <1>2, <2>1, CoveredBy
  <2> HIDE DEF a
  <2> QED
    BY <1>2, <1>4, <1>7, <2>1, <2>2, <2>3
<1>12. Repeatless(t, l)
  <2> SUFFICES ASSUME Calm
               PROVE  /\ s # <<>> => \E b \in 0 .. Len(data[1]) : Piece(s, 1, b) /\ Ahead(b, <<>>)
                      /\ Ahead(t.off - Len(t.buf), s)
                      /\ ~Vanished => Standing(t, l)
    BY <1>2, <1>3, <1>4 DEF Repeatless
  <2>1. t0.fd = 1 /\ Piece(s, 1, a) /\ Ahead(a, <<>>) /\ a \in Nat
    BY <1>2, <1>4, <1>8
  <2>2. s # <<>> => a \in 0 .. Len(data[1])
    <3>1. s # <<>> => a + Len(s) <= Len(data[1])
      BY <1>1, <1>2, <2>1, PieceEnds
    <3>2. Len(data[1]) \in Nat
      BY <1>1, <1>2, <2>1, Basics, Texts
    <3> HIDE DEF a
    <3> QED
      BY <1>3, <2>1, <3>1, <3>2
  <2>3. Ahead(a + Len(s), s)
    BY <1>1, <2>1, AheadBy
  <2>4. ~Vanished => Standing(t, l)
    BY <1>2, <1>3, <1>4 DEF Standing
  <2> HIDE DEF a
  <2> QED
    BY <1>7, <2>1, <2>2, <2>3, <2>4
<1> QED
  BY <1>1, <1>4, <1>9, <1>10, <1>11, <1>12, TailMoves DEF Good, Becomes

LEMMA ScanStep ==
  ASSUME IInv, NEW g \in Tails, Scan(g)
  PROVE  IInv'
<1> DEFINE t0 == tail[g]
           l  == lib[g]
           a  == t0.off - Len(t0.buf)
<1>1. t0.pc = "scan"
  BY DEF Scan
<1>2. TypeInv /\ FileInv /\ t0 \in TailType /\ files # 0 /\ t0.pc # "off"
      /\ (Calm => (path = 0 <=> Vanished))
  BY <1>1, Here
<1>3. /\ t0.fd \in Inodes /\ t0.text = <<>> /\ l.pc = "off" /\ mode # "event" /\ Size(t0.fd) \in Nat
      /\ (Steady \/ Calm => t0.off <= Size(t0.fd) /\ Len(t0.buf) <= t0.off /\ Piece(t0.buf, t0.fd, a))
      /\ (Calm => t0.fd = 1)
  BY <1>1, OwnReader
<1>4. t0.off \in Nat /\ t0.buf \in Text /\ Len(t0.buf) \in Nat
  BY <1>2, Texts DEF TailType
<1>5. CASE LineEnds(t0.buf) = {} /\ From(t0.fd, t0.off) # <<>>
           /\ Becomes(g, [t0 EXCEPT !.buf = @ \o From(t0.fd, t0.off), !.off = Size(t0.fd)])
  <2> DEFINE t == [t0 EXCEPT !.buf = @ \o From(t0.fd, t0.off), !.off = Size(t0.fd)]
             f == From(t0.fd, t0.off)
  <2>1. /\ f \in Text
        /\ t0.off <= Size(t0.fd) => Len(f) = Size(t0.fd) - t0.off /\ Piece(f, t0.fd, t0.off)
    BY <1>2, <1>3, <1>4, FromText
  <2>2. t0.buf \o f \in Text /\ Len(t0.buf \o f) = Len(t0.buf) + Len(f)
    BY <1>4, <2>1, ConcatProperties DEF Text
  <2>3. /\ t \in TailType /\ t.pc = "scan" /\ t.fd = t0.fd /\ t.off = Size(t0.fd)
        /\ t.buf = t0.buf \o f /\ t.text = <<>> /\ t.orig = t0.orig /\ t.lastSize = t0.lastSize
        /\ t.cancelled = t0.cancelled
    BY <1>1, <1>2, <1>3, <2>2 DEF TailType
  <2>4. Becomes(g, t)
    BY <1>5
  <2> HIDE DEF t, f
  <2>5. ASSUME Steady \/ Calm
        PROVE  /\ t.off <= Size(t.fd) /\ Len(t.buf) <= t.off
               /\ Piece(t.buf, t.fd, t.off - Len(t.buf))
               /\ t.off - Len(t.buf) = t0.off - Len(t0.buf)
    <3>1. t0.off <= Size(t0.fd) /\ Len(t0.buf) <= t0.off /\ Piece(t0.buf, t0.fd, a) /\ a \in Nat
      BY <1>3, <1>4, <2>5
    <3>2. Len(f) = Size(t0.fd) - t0.off /\ Piece(f, t0.fd, t0.off)
      BY <2>1, <3>1
    <3>3. a + Len(t0.buf) = t0.off
      BY <1>4
    <3>4. Piece(t0.buf \o f, t0.fd, a)
      BY <1>2, <1>4, <2>1, <3>1, <3>2, <3>3, PieceJoin
    <3>5. Len(t.buf) = Len(t0.buf) + Size(t0.fd) - t0.off
      BY <1>3, <1>4, <2>2, <2>3, <3>2
    <3>6. t.off - Len(t.buf) = a /\ Len(t.buf) <= t.off /\ t.off <= Size(t.fd)
      BY <1>3, <1>4, <2>3, <3>1, <3>5
    <3> QED
      BY <2>3, <3>4, <3>6
  <2> QED
    BY <1>1, <1>3, <2>3, <2>4, <2>5, ReaderStep
<1>6. CASE LineEnds(t0.buf) # {} /\ TooLong(t0.buf) /\ Becomes(g, Failed(t0))
  <2>1. ASSUME Calm
        PROVE  FALSE
    <3>1. Piece(t0.buf, 1, a) /\ a \in Nat
      BY <1>3, <1>4, <2>1
    <3> HIDE DEF a
    <3> QED
      BY <1>2, <1>4, <1>6, <2>1, <3>1, NoneTooLong
  <2> QED
    BY <1>2, <1>3, <1>6, <2>1, FailStep
<1>7. CASE LineEnds(t0.buf) # {}
           /\ Becomes(g, [t0 EXCEPT !.pc = "send", !.text = FirstLine(t0.buf), !.buf = Rest(t0.buf)])
  <2>1. /\ FirstLine(t0.buf) \in Text /\ Rest(t0.buf) \in Text
        /\ Len(FirstLine(t0.buf)) + Len(Rest(t0.buf)) = Len(t0.buf)
        /\ \A k \in 1 .. Len(FirstLine(t0.buf)) : FirstLine(t0.buf)[k] = t0.buf[k]
        /\ \A k \in 1 .. Len(Rest(t0.buf)) : Rest(t0.buf)[k] = t0.buf[Len(FirstLine(t0.buf)) + k]
    BY <1>4, <1>7, Cut
  <2> DEFINE t == [t0 EXCEPT !.pc = "send", !.text = FirstLine(t0.buf), !.buf = Rest(t0.buf)]
  <2>2. /\ t \in TailType /\ t.pc = "send" /\ t.fd = t0.fd /\ t.off = t0.off
        /\ t.buf = Rest(t0.buf) /\ t.text = FirstLine(t0.buf) /\ t.orig = t0.orig
        /\ t.lastSize = t0.lastSize /\ t.cancelled = t0.cancelled
    BY <1>2, <2>1 DEF TailType
  <2>3. Becomes(g, t)
    BY <1>7
  <2> HIDE DEF t
  <2> QED
    BY <1>1, <2>1, <2>2, <2>3, HandStep
<1>8. CASE t0.buf = <<>> /\ Becomes(g, [t0 EXCEPT !.pc = "eof"])
  <2> DEFINE t == [t0 EXCEPT !.pc = "eof"]
  <2>1. /\ t \in TailType /\ t.pc = "eof" /\ t.fd = t0.fd /\ t.off = t0.off
        /\ t.buf = t0.buf /\ t.text = <<>> /\ t.orig = t0.orig /\ t.lastSize = t0.lastSize
        /\ t.cancelled = t0.cancelled
    BY <1>2, <1>3 DEF TailType
  <2>2. Becomes(g, t)
    BY <1>8
  <2> HIDE DEF t
  <2> QED
    BY <1>1, <1>3, <2>1, <2>2, ReaderStep
<1>9. CASE Becomes(g, [t0 EXCEPT !.pc = "send", !.text = t0.buf, !.buf = <<>>, !.eof = TRUE])
  <2>1. Len(t0.buf) + Len(<<>>) = Len(t0.buf) /\ <<>> \in Text
        /\ \A k \in 1 .. Len(<<>>) : FALSE
    BY <1>4, Nothing
  <2> DEFINE t == [t0 EXCEPT !.pc = "send", !.text = t0.buf, !.buf = <<>>, !.eof = TRUE]
  <2>2. /\ t \in TailType /\ t.pc = "send" /\ t.fd = t0.fd /\ t.off = t0.off
        /\ t.buf = <<>> /\ t.text = t0.buf /\ t.orig = t0.orig
        /\ t.lastSize = t0.lastSize /\ t.cancelled = t0.cancelled
    BY <1>2, <1>4, <2>1 DEF TailType
  <2>3. Becomes(g, t)
    BY <1>9
  <2> HIDE DEF t
  <2> QED
    BY <1>1, <1>4, <2>1, <2>2, <2>3, HandStep
<1> QED
  BY <1>5, <1>6, <1>7, <1>8, <1>9 DEF Scan

LEMMA PollStep ==
  ASSUME IInv, NEW g \in Tails, PollOpen(g) \/ PollEOF(g) \/ PollWake(g)
  PROVE  IInv'
<1> DEFINE t0 == tail[g]
           l  == lib[g]
<1>1. CASE PollOpen(g)
  <2>1. mode = "poll" /\ t0.pc = "open" /\ OpenAt(g, 0)
    BY <1>1 DEF PollOpen
  <2>2. Shape(t0, l)
    BY <2>1, Here
  <2>3. t0.lastSize = 0
    BY <2>1, <2>2 DEF Shape
  <2> QED
    BY <2>1, <2>3, OpenStep
<1>2. CASE PollEOF(g)
  <2>1. /\ mode = "poll" /\ t0.pc = "eof"
        /\ Becomes(g, IF path = t0.fd THEN [t0 EXCEPT !.pc = "sleep"] ELSE Failed(t0))
    BY <1>2 DEF PollEOF
  <2>2. /\ t0 \in TailType /\ t0.pc # "off" /\ (Calm => path \in {0, 1})
        /\ t0.text = <<>> /\ l.pc = "off" /\ mode # "event" /\ (Calm => t0.fd = 1)
        /\ (Steady \/ Calm => t0.off <= Size(t0.fd) /\ Len(t0.buf) <= t0.off
                              /\ Piece(t0.buf, t0.fd, t0.off - Len(t0.buf)))
    BY <2>1, Here, OwnReader
  <2>3. CASE path = t0.fd
    <3> DEFINE t == [t0 EXCEPT !.pc = "sleep"]
    <3>1. /\ t \in TailType /\ t.pc = "sleep" /\ t.fd = t0.fd /\ t.off = t0.off
          /\ t.buf = t0.buf /\ t.text = <<>> /\ t.orig = t0.orig /\ t.lastSize = t0.lastSize
          /\ t.cancelled = t0.cancelled
      BY <2>2 DEF TailType
    <3>2. Becomes(g, t)
      BY <2>1, <2>3
    <3> HIDE DEF t
    <3> QED
      BY <2>1, <2>2, <3>1, <3>2, ReaderStep
  <2>4. CASE path # t0.fd
    BY <2>1, <2>2, <2>4, FailStep
  <2> QED
    BY <2>3, <2>4
<1>3. CASE PollWake(g)
  <2> DEFINE t == [t0 EXCEPT !.pc = "scan", !.off = Resumed(t0), !.eof = FALSE]
  <2>1. t0.pc = "sleep" /\ Becomes(g, t)
    BY <1>3 DEF PollWake
  <2>2. /\ t0 \in TailType /\ t0.text = <<>> /\ Size(t0.fd) \in Nat
        /\ (Steady \/ Calm => t0.off <= Size(t0.fd) /\ Len(t0.buf) <= t0.off
                              /\ Piece(t0.buf, t0.fd, t0.off - Len(t0.buf)))
    BY <2>1, Here, OwnReader
  <2>3. t0.off \in Nat
    BY <2>2 DEF TailType
  <2>4. Resumed(t0) \in Nat /\ (t0.off <= Size(t0.fd) => Resumed(t0) = t0.off)
    BY <2>2, <2>3 DEF Resumed
  <2>5. /\ t \in TailType /\ t.pc = "scan" /\ t.fd = t0.fd /\ t.off = Resumed(t0)
        /\ t.buf = t0.buf /\ t.text = <<>> /\ t.orig = t0.orig /\ t.lastSize = t0.lastSize
        /\ t.cancelled = t0.cancelled
    BY <2>2, <2>4 DEF TailType
  <2> HIDE DEF t
  <2> QED
    BY <2>1, <2>2, <2>4, <2>5, ReaderStep
<1> QED
  BY <1>1, <1>2, <1>3

LEMMA DrainStep ==
  ASSUME IInv, NEW g \in Tails, DrainOpen(g) \/ DrainEnd(g)
  PROVE  IInv'
<1>1. CASE DrainOpen(g)
  BY <1>1, OpenStep DEF DrainOpen
<1>2. CASE DrainEnd(g)
  <2> DEFINE t0 == tail[g]
             l  == lib[g]
             t  == [Failed(t0) EXCEPT !.pc = "open", !.lastSize = t0.off]
             a  == t0.off - Len(t0.buf)
  <2>1. mode = "hybrid" /\ t0.pc = "eof" /\ Becomes(g, t)
    BY <1>2 DEF DrainEnd
  <2>2. /\ TypeInv /\ ~Off(g) /\ t0 \in TailType /\ Shape(t0, l) /\ files \in Nat
        /\ (Calm => Size(1) = written)
    BY <2>1, Here, Basics
  <2>3. /\ l.pc = "off" /\ l.fd = 0
        /\ (Steady \/ Calm => t0.off <= Size(t0.fd) /\ Len(t0.buf) <= t0.off)
        /\ (Calm => t0.fd = 1 /\ Ahead(a, <<>>))
        /\ (Calm /\ ~Vanished => Standing(t0, l))
    BY <2>1, OwnReader
  <2>4. /\ t \in TailType /\ t.pc = "open" /\ t.fd = 0 /\ t.text = <<>> /\ t.orig = 0
        /\ t.lastSize = t0.off /\ t.cancelled = t0.cancelled
        /\ t0.off \in Nat /\ Len(t0.buf) \in Nat
    BY <2>2, Nothing, Texts DEF TailType, Failed, NoTail
  <2> HIDE DEF t
  <2>5. Shape(t, l)
    BY <2>1, <2>2, <2>3, <2>4 DEF Shape
  <2>6. ASSUME Calm, ~Vanished
        PROVE  Standing(t, l)
    <3>1. Standing(t0, l) /\ t0.fd = 1 /\ Ahead(a, <<>>) /\ t0.off <= written
      BY <2>2, <2>3, <2>6
    <3>2. a \in Int /\ a <= t0.off /\ t0.off \in Int
      BY <2>4
    <3> HIDE DEF a
    <3>3. Ahead(t0.off, <<>>)
      BY <3>1, <3>2, AheadOf
    <3>4. ~t0.cancelled
      BY <3>1 DEF Standing
    <3> QED
      BY <2>2, <2>3, <2>4, <3>1, <3>3, <3>4, StandsNowhere
  <2>7. Reading(t, l) /\ Gapless(t, l) /\ Repeatless(t, l)
    BY <2>3, <2>4, <2>6, EmptyHanded
  <2> QED
    BY <2>1, <2>2, <2>4, <2>5, <2>7, TailMoves DEF Good, Becomes
<1> QED
  BY <1>1, <1>2

-----------------------------------------------------------------------------
(***************************************************************************)
(* A goroutine with a library.                                              *)
(***************************************************************************)

LEMMA HybridBeginStep ==
  ASSUME IInv, NEW g \in Tails, HybridBegin(g)
  PROVE  IInv'
<1> DEFINE t0 == tail[g]
           l  == lib[g]
           t  == [tail[g] EXCEPT !.pc = "open", !.lastSize = Size(path)]
<1>1. /\ t0.pc = "begin"
      /\ tail' = [tail EXCEPT ![g].pc = "open", ![g].lastSize = Size(path)]
      /\ UNCHANGED <<setup, fileVars, runVars, lib, sent, envVars>>
  BY DEF HybridBegin
<1>2. /\ TypeInv /\ ~Off(g) /\ t0 \in TailType /\ l \in LibType /\ Shape(t0, l)
      /\ Repeatless(t0, l) /\ mode \in {"poll", "event", "hybrid"}
      /\ (Calm => path \in {0, 1} /\ (path = 0 <=> Vanished) /\ Size(1) = written)
  BY <1>1, Here, Basics
<1>3. tail' = [tail EXCEPT ![g] = t]
  <2>1. tail \in [Tails -> TailType]
    BY <1>2 DEF TypeInv, TypeOK
  <2> QED
    BY <1>1, <2>1 DEF TailType
<1>4. Size(path) \in Nat
  <2>1. path \in Inodes \cup {0}
    BY <1>2 DEF TypeInv, TypeOK
  <2> QED
    BY <1>2, <2>1, FromText DEF Size
<1>5. /\ t \in TailType /\ t.pc = "open" /\ t.fd = t0.fd /\ t.text = t0.text /\ t.orig = t0.orig
      /\ t.lastSize = Size(path) /\ t.cancelled = t0.cancelled
  BY <1>2, <1>4 DEF TailType
<1> HIDE DEF t
<1>6. mode = "hybrid" /\ t0.fd = 0 /\ t0.text = <<>> /\ l.pc = "off" /\ l.fd = 0
  BY <1>1, <1>2 DEF Shape, NoLib
<1>7. Shape(t, l)
  BY <1>1, <1>2, <1>5, <1>6 DEF Shape
<1>8. ASSUME Calm, ~Vanished
      PROVE  Standing(t, l)
  <2>1. Standing(t0, l)
    BY <1>1, <1>2, <1>8 DEF Repeatless
  <2>2. ~t0.cancelled /\ Ahead(0, <<>>) /\ Size(path) = written
    BY <1>1, <1>2, <1>8, <2>1 DEF Standing
  <2>3. Ahead(Size(path), <<>>)
    BY <1>4, <2>2, AheadOf
  <2>4. Size(path) <= written
    BY <1>4, <2>2
  <2> QED
    BY <1>2, <1>5, <1>6, <2>2, <2>3, <2>4, StandsNowhere
<1>9. Reading(t, l) /\ Gapless(t, l) /\ Repeatless(t, l)
  BY <1>5, <1>6, <1>8, EmptyHanded
<1> QED
  BY <1>1, <1>2, <1>3, <1>5, <1>7, <1>9, TailMoves DEF Good

LEMMA LibStartStep ==
  ASSUME IInv, NEW g \in Tails, LibStart(g)
  PROVE  IInv'
<1> DEFINE t0 == tail[g]
           l0 == lib[g]
           t  == [tail[g] EXCEPT !.pc = "snapshot"]
           l  == [NoLib EXCEPT !.pc = "open", !.pos = tail[g].lastSize]
<1>1. mode # "poll" /\ t0.pc = "open" /\ BecomesWith(g, t, l)
  BY DEF LibStart
<1>2. /\ TypeInv /\ ~Off(g) /\ t0 \in TailType /\ Shape(t0, l0) /\ Repeatless(t0, l0)
      /\ mode \in {"poll", "event", "hybrid"} /\ files \in Nat
  BY <1>1, Here, Basics
<1>3. /\ t \in TailType /\ t.pc = "snapshot" /\ t.fd = t0.fd /\ t.text = t0.text
      /\ t.orig = t0.orig /\ t.lastSize = t0.lastSize /\ t.cancelled = t0.cancelled
  BY <1>2 DEF TailType
<1>4. l \in LibType /\ l.pc = "open" /\ l.fd = 0 /\ l.pos = t0.lastSize /\ l.text = <<>>
  BY <1>2, Nothing DEF TailType, LibType, NoLib
<1> HIDE DEF t, l
<1>5. t0.fd = 0 /\ t0.text = <<>> /\ l0.pc = "off"
  BY <1>1, <1>2 DEF Shape, NoLib
<1>6. Shape(t, l)
  BY <1>1, <1>2, <1>3, <1>4, <1>5 DEF Shape
<1>7. ASSUME Calm, ~Vanished
      PROVE  Standing(t, l)
  <2>1. Standing(t0, l0)
    BY <1>1, <1>2, <1>7 DEF Repeatless
  <2>2. ~t0.cancelled /\ t0.lastSize <= written /\ Ahead(t0.lastSize, <<>>)
    BY <1>5, <2>1 DEF Standing
  <2> QED
    BY <1>2, <1>3, <1>4, <1>5, <2>2, StandsNowhere
<1>8. Reading(t, l) /\ Gapless(t, l) /\ Repeatless(t, l)
  BY <1>3, <1>4, <1>5, <1>7, EmptyHanded
<1> QED
  BY <1>1, <1>2, <1>3, <1>4, <1>6, <1>8, OneMoves DEF Good, BecomesWith, t, l

LEMMA SnapshotStep ==
  ASSUME IInv, NEW g \in Tails, Snapshot(g)
  PROVE  IInv'
<1> DEFINE t0 == tail[g]
           l  == lib[g]
           t  == [tail[g] EXCEPT !.pc = "select", !.orig = path]
<1>1. t0.pc = "snapshot" /\ Becomes(g, t)
  BY DEF Snapshot
<1>2. /\ TypeInv /\ FileInv /\ ~Off(g) /\ t0 \in TailType /\ Shape(t0, l) /\ Reading(t0, l)
      /\ Gapless(t0, l) /\ Repeatless(t0, l)
  BY <1>1, Here
<1>3. path \in Inodes \cup {0} /\ path <= files
  BY <1>2 DEF TypeInv, TypeOK, FileInv
<1>4. /\ t \in TailType /\ t.pc = "select" /\ t.fd = t0.fd /\ t.off = t0.off /\ t.buf = t0.buf
      /\ t.text = t0.text /\ t.orig = path /\ t.lastSize = t0.lastSize /\ t.cancelled = t0.cancelled
  BY <1>2, <1>3 DEF TailType
<1> HIDE DEF t
<1>5. Shape(t, l)
  BY <1>1, <1>2, <1>3, <1>4 DEF Shape
<1>6. Reading(t, l) /\ Gapless(t, l)
  BY <1>1, <1>2, <1>4 DEF Reading, Gapless
<1>7. Calm /\ ~Vanished => Standing(t, l)
  BY <1>1, <1>2, <1>4 DEF Repeatless, Standing
<1>8. Repeatless(t, l)
  BY <1>1, <1>2, <1>4, <1>7 DEF Repeatless
<1> QED
  BY <1>1, <1>2, <1>4, <1>5, <1>6, <1>8, TailMoves DEF Good, Becomes

(* The goroutine stops its library: the file is another one, or the library   *)
(* is to be trusted no more.                                                 *)
LEMMA StopStep ==
  ASSUME IInv, NEW g \in Tails, LibClosed(g) \/ Ticker(g)
  PROVE  IInv'
<1> DEFINE t0 == tail[g]
           l  == lib[g]
<1>1. t0.pc = "select"
  BY DEF LibClosed, Ticker
<1>2. /\ TypeInv /\ ~Off(g) /\ t0 \in TailType /\ Shape(t0, l) /\ Reading(t0, l)
      /\ Repeatless(t0, l) /\ mode \in {"poll", "event", "hybrid"}
      /\ (Calm => files = 1 /\ path \in {0, 1} /\ (path = 0 <=> Vanished))
  BY <1>1, Here, Basics
<1>3. t0.fd = 0 /\ t0.text = <<>> /\ l.pc # "off"
  BY <1>1, <1>2 DEF Shape
<1>4. ASSUME NEW t \in TailType, Becomes(g, t), t.pc = "stop", t.fd = 0, t.text = <<>>,
             t.orig = t0.orig, t.lastSize \in {0, t0.lastSize},
             Calm /\ ~Vanished => Standing(t, l)
      PROVE  IInv'
  <2>1. Shape(t, l)
    BY <1>1, <1>2, <1>3, <1>4 DEF Shape
  <2>2. Reading(t, l) /\ Gapless(t, l) /\ Repeatless(t, l)
    BY <1>2, <1>4, Dropping
  <2> QED
    BY <1>2, <1>4, <2>1, <2>2, TailMoves DEF Good, Becomes
<1>5. CASE LibClosed(g)
  <2> DEFINE t == [tail[g] EXCEPT !.pc = "stop", !.stalled = FALSE]
  <2>1. l.pc = "dead" /\ Becomes(g, t)
    BY <1>5 DEF LibClosed
  <2>2. /\ t \in TailType /\ t.pc = "stop" /\ t.fd = 0 /\ t.text = <<>> /\ t.orig = t0.orig
        /\ t.lastSize = t0.lastSize /\ t.cancelled = t0.cancelled
    BY <1>2, <1>3 DEF TailType
  <2> HIDE DEF t
  <2>3. ASSUME Calm, ~Vanished
        PROVE  Standing(t, l)
    <3>1. Standing(t0, l)
      BY <1>1, <1>2, <2>3 DEF Repeatless
    <3>2. ~t0.cancelled /\ t0.lastSize <= written /\ Ahead(t0.lastSize, <<>>)
      BY <1>3, <2>1, <3>1 DEF Standing
    <3> QED
      BY <1>2, <2>1, <2>2, <3>2, StandsNowhere
  <2> QED
    BY <1>4, <2>1, <2>2, <2>3
<1>6. CASE Gone(g) /\ Becomes(g, [t0 EXCEPT !.pc = "stop", !.stalled = FALSE, !.lastSize = 0])
  <2> DEFINE t == [t0 EXCEPT !.pc = "stop", !.stalled = FALSE, !.lastSize = 0]
  <2>1. /\ t \in TailType /\ t.pc = "stop" /\ t.fd = 0 /\ t.text = <<>> /\ t.orig = t0.orig
        /\ t.lastSize = 0 /\ Becomes(g, t)
    BY <1>2, <1>3, <1>6 DEF TailType
  <2> HIDE DEF t
  <2>2. ~(Calm /\ ~Vanished)
    <3> SUFFICES ASSUME Calm, path # 0
                 PROVE  FALSE
      BY <1>2
    <3>1. t0.orig <= 1 /\ path = 1
      BY <1>2 DEF Shape
    <3>2. t0.orig \in Inodes \cup {0}
      BY <1>2 DEF TailType
    <3>3. t0.orig \in {0, path}
      <4>1. t0.orig = 0 \/ t0.orig \in Nat \ {0}
        BY <3>2, Numbers
      <4> QED
        BY <3>1, <4>1
    <3> QED
      BY <1>6, <3>3 DEF Gone
  <2> QED
    BY <1>4, <2>1, <2>2
<1>7. CASE mode = "hybrid" /\ Becomes(g, [t0 EXCEPT !.pc = "stop", !.stalled = TRUE])
  <2> DEFINE t == [t0 EXCEPT !.pc = "stop", !.stalled = TRUE]
  <2>1. /\ t \in TailType /\ t.pc = "stop" /\ t.fd = 0 /\ t.text = <<>> /\ t.orig = t0.orig
        /\ t.lastSize = t0.lastSize /\ t.cancelled = t0.cancelled /\ Becomes(g, t)
    BY <1>2, <1>3, <1>7 DEF TailType
  <2> HIDE DEF t
  <2>2. ASSUME Calm, ~Vanished
        PROVE  Standing(t, l)
    <3>1. Standing(t0, l)
      BY <1>1, <1>2, <2>2 DEF Repeatless
    <3>2. ~t0.cancelled /\ t0.lastSize <= written /\ Ahead(t0.lastSize, <<>>)
          /\ (l.pc = "open" => l.pos = t0.lastSize)
      BY <1>3, <1>7, <3>1 DEF Standing
    <3> QED
      BY <1>2, <2>1, <3>2, StandsNowhere
  <2> QED
    BY <1>4, <2>1, <2>2
<1> QED
  BY <1>5, <1>6, <1>7 DEF Ticker

(* What a goroutine and its library are while that one reads. *)
LEMMA LibReader ==
  ASSUME IInv, NEW g \in Tails, lib[g].pc \in {"read", "wait", "send"}
  PROVE  LET t == tail[g]
             l == lib[g]
         IN  /\ l.fd \in Inodes /\ l.fd # 0 /\ t.fd = 0 /\ mode # "poll" /\ Size(l.fd) \in Nat
             /\ t.pc \in {"snapshot", "select", "send", "stop"}
             /\ Steady \/ Calm => /\ l.pos <= Size(l.fd) /\ Len(l.text) <= l.pos
                                  /\ Piece(l.text, l.fd, l.pos - Len(l.text))
             /\ Steady /\ t.pc # "stop" => Covered(l.fd, l.pos - Len(l.text), t.text)
             /\ Calm => l.fd = 1 /\ (t.pc # "stop" => Ahead(l.pos - Len(l.text), t.text))
             /\ Calm /\ ~Vanished => Standing(t, l)
<1> DEFINE t == tail[g]
           l == lib[g]
<1>1. l.pc \in {"read", "wait", "send"}
  OBVIOUS
<1>2. /\ TypeInv /\ l \in LibType /\ Shape(t, l) /\ Reading(t, l)
      /\ Gapless(t, l) /\ Repeatless(t, l) /\ (Calm => files = 1)
      /\ mode \in {"poll", "event", "hybrid"} /\ t.pc # "off"
  BY Here, Basics
<1>3. l.fd \in Inodes \cup {0}
  BY <1>2 DEF LibType
<1> HIDE DEF t, l
<1>4. l.fd # 0 /\ l.pc # "off"
  BY <1>1, <1>2 DEF Shape
<1>5. t.fd = 0 /\ mode # "poll" /\ t.pc \in {"snapshot", "select", "send", "stop"}
  BY <1>2, <1>4 DEF Shape
<1>6. l.fd \in Inodes /\ l.fd \in Nat \ {0}
  BY <1>3, <1>4, Numbers
<1>7. Size(l.fd) \in Nat
  <2>1. 0 \in Nat
    OBVIOUS
  <2> QED
    BY <1>2, <1>6, <2>1, FromText
<1>8. Steady \/ Calm => /\ l.pos <= Size(l.fd) /\ Len(l.text) <= l.pos
                        /\ Piece(l.text, l.fd, l.pos - Len(l.text))
  BY <1>2, <1>4 DEF Reading
<1>9. Steady /\ t.pc # "stop" => Covered(l.fd, l.pos - Len(l.text), t.text)
  BY <1>2, <1>4 DEF Gapless
<1>10. Calm => l.fd = 1
  BY <1>2, <1>6 DEF Shape
<1>11. Calm /\ t.pc # "stop" => Ahead(l.pos - Len(l.text), t.text)
  BY <1>2, <1>4 DEF Repeatless
<1>12. Calm /\ ~Vanished => Standing(t, l)
  BY <1>2 DEF Repeatless
<1> QED
  BY <1>4, <1>5, <1>6, <1>7, <1>8, <1>9, <1>10, <1>11, <1>12 DEF t, l

(* The library goes on; what it has read of its file is in its hand. *)
LEMMA LibReaderStep ==
  ASSUME IInv, NEW g \in Tails, lib[g].pc \in {"read", "wait", "send"},
         NEW l \in LibType, l.pc \in {"read", "wait", "send"}, LibBecomes(g, l),
         l.fd = lib[g].fd, l.pc # "send" => l.text = <<>>,
         Steady \/ Calm => /\ l.pos <= Size(l.fd) /\ Len(l.text) <= l.pos
                           /\ Piece(l.text, l.fd, l.pos - Len(l.text))
                           /\ l.pos - Len(l.text) = lib[g].pos - Len(lib[g].text)
  PROVE  IInv'
<1> DEFINE t  == tail[g]
           l0 == lib[g]
<1>1. /\ TypeInv /\ ~Off(g) /\ Shape(t, l0) /\ Reading(t, l0) /\ Gapless(t, l0) /\ Repeatless(t, l0)
  BY Here
<1>2. /\ l0.fd # 0 /\ t.fd = 0 /\ mode # "poll"
      /\ Steady /\ t.pc # "stop" => Covered(l0.fd, l0.pos - Len(l0.text), t.text)
      /\ Calm => l0.fd = 1 /\ (t.pc # "stop" => Ahead(l0.pos - Len(l0.text), t.text))
      /\ Calm /\ ~Vanished => Standing(t, l0)
  BY LibReader
<1>3. l0.pc \in {"read", "wait", "send"}
  OBVIOUS
<1>4. Shape(t, l)
  BY <1>1, <1>2, <1>3 DEF Shape
<1>5. Reading(t, l)
  BY <1>2 DEF Reading
<1>6. Gapless(t, l)
  BY <1>1, <1>2 DEF Gapless
<1>7. Calm /\ ~Vanished => Standing(t, l)
  BY <1>2, <1>3 DEF Standing
<1>8. Repeatless(t, l)
  BY <1>1, <1>2, <1>7 DEF Repeatless
<1> QED
  BY <1>1, <1>4, <1>5, <1>6, <1>8, LibMoves DEF Good

LEMMA LibReadStep ==
  ASSUME IInv, NEW g \in Tails, LibRead(g) \/ LibModified(g)
  PROVE  IInv'
<1> DEFINE l0   == lib[g]
           text == From(l0.fd, l0.pos)
<1>1. l0.pc \in {"read", "wait"}
  BY DEF LibRead, LibModified
<1>2. TypeInv /\ l0 \in LibType /\ Shape(tail[g], l0)
  BY <1>1, Here
<1>3. /\ l0.fd \in Inodes /\ Size(l0.fd) \in Nat
      /\ (Steady \/ Calm => l0.pos <= Size(l0.fd) /\ Len(l0.text) <= l0.pos
                            /\ Piece(l0.text, l0.fd, l0.pos - Len(l0.text)))
  BY <1>1, LibReader
<1>4. l0.text = <<>> /\ l0.pos \in Nat /\ Len(l0.text) = 0
  BY <1>1, <1>2, Nothing DEF Shape, LibType
<1>5. /\ text \in Text
      /\ l0.pos <= Size(l0.fd) => Len(text) = Size(l0.fd) - l0.pos /\ Piece(text, l0.fd, l0.pos)
  BY <1>2, <1>3, <1>4, FromText
<1>6. ASSUME NEW l, l = [l0 EXCEPT !.pc = "wait"] \/ l = [l0 EXCEPT !.pc = "read"], LibBecomes(g, l)
      PROVE  IInv'
  <2>1. /\ l \in LibType /\ l.pc \in {"read", "wait"} /\ l.fd = l0.fd /\ l.pos = l0.pos
        /\ l.text = <<>>
    BY <1>2, <1>4, <1>6 DEF LibType
  <2> QED
    BY <1>1, <1>3, <1>4, <1>6, <2>1, LibReaderStep
<1>7. CASE /\ l0.pc = "read" /\ LineEnds(text) # {}
           /\ LibBecomes(g, [l0 EXCEPT !.pc = "send", !.text = NextText(text),
                                       !.pos = @ + Len(NextText(text))])
  <2> DEFINE l == [l0 EXCEPT !.pc = "send", !.text = NextText(text), !.pos = @ + Len(NextText(text))]
             s == NextText(text)
  <2> HIDE DEF text
  <2>1. s \in Text /\ Len(s) <= Len(text) /\ Len(s) \in Nat /\ Len(text) \in Nat
        /\ \A k \in 1 .. Len(s) : s[k] = text[k]
    BY <1>5, <1>7, CutNext, Texts
  <2>2. /\ l \in LibType /\ l.pc = "send" /\ l.fd = l0.fd /\ l.pos = l0.pos + Len(s) /\ l.text = s
    <3>1. l0.pos + Len(s) \in Nat
      BY <1>4, <2>1
    <3>2. s \in Text
      BY <2>1
    <3>3. l = [l0 EXCEPT !.pc = "send", !.text = s, !.pos = l0.pos + Len(s)]
      OBVIOUS
    <3> HIDE DEF s, l
    <3> QED
      BY <1>2, <3>1, <3>2, <3>3 DEF LibType
  <2>3. LibBecomes(g, l)
    BY <1>7
  <2> HIDE DEF l, s
  <2>4. ASSUME Steady \/ Calm
        PROVE  /\ l.pos <= Size(l.fd) /\ Len(l.text) <= l.pos
               /\ Piece(l.text, l.fd, l.pos - Len(l.text))
               /\ l.pos - Len(l.text) = l0.pos - Len(l0.text)
    <3>1. l0.pos <= Size(l0.fd) /\ Len(text) = Size(l0.fd) - l0.pos /\ Piece(text, l0.fd, l0.pos)
      BY <1>3, <1>5, <2>4
    <3>2. Piece(s, l0.fd, l0.pos)
      BY <1>2, <1>4, <1>5, <2>1, <3>1, PieceFront
    <3>3. l.pos - Len(l.text) = l0.pos /\ l.pos <= Size(l.fd) /\ Len(l.text) <= l.pos
      BY <1>3, <1>4, <2>1, <2>2, <3>1
    <3> QED
      BY <1>4, <2>2, <3>2, <3>3
  <2> QED
    BY <1>1, <2>2, <2>3, <2>4, LibReaderStep
<1>8. CASE LibRead(g)
  <2>1. l0.pc = "read"
    BY <1>8 DEF LibRead
  <2>2. CASE LineEnds(text) = {}
    <3>1. LibBecomes(g, [l0 EXCEPT !.pc = "wait"])
      BY <1>8, <2>2 DEF LibRead
    <3> QED
      BY <1>6, <3>1
  <2>3. CASE LineEnds(text) # {}
    <3>1. LibBecomes(g, [l0 EXCEPT !.pc = "send", !.text = NextText(text),
                                   !.pos = @ + Len(NextText(text))])
      BY <1>8, <2>3 DEF LibRead
    <3> QED
      BY <1>7, <2>1, <2>3, <3>1
  <2> QED
    BY <2>2, <2>3
<1>9. CASE LibModified(g)
  <2>1. LibBecomes(g, [l0 EXCEPT !.pc = "read"])
    BY <1>9 DEF LibModified
  <2> QED
    BY <1>6, <2>1
<1> QED
  BY <1>8, <1>9

LEMMA TakeStep ==
  ASSUME IInv, NEW g \in Tails, Take(g)
  PROVE  IInv'
<1> DEFINE t0 == tail[g]
           l0 == lib[g]
           t  == [tail[g] EXCEPT !.pc = "send", !.text = lib[g].text]
           l  == [lib[g] EXCEPT !.pc = "read", !.text = <<>>]
           s  == l0.text
           a  == l0.pos - Len(s)
<1>1. t0.pc = "select" /\ l0.pc = "send" /\ BecomesWith(g, t, l)
  BY DEF Take
<1>2. /\ TypeInv /\ FileInv /\ ~Off(g) /\ t0 \in TailType /\ l0 \in LibType /\ Shape(t0, l0)
      /\ files # 0 /\ mode \in {"poll", "event", "hybrid"}
  BY <1>1, Here, Basics
<1>3. /\ l0.fd \in Inodes /\ l0.fd # 0 /\ t0.fd = 0 /\ mode # "poll"
      /\ (Steady \/ Calm => l0.pos <= Size(l0.fd) /\ Len(s) <= l0.pos /\ Piece(s, l0.fd, a))
      /\ (Steady => Covered(l0.fd, a, t0.text))
      /\ (Calm => l0.fd = 1 /\ Ahead(a, t0.text))
      /\ (Calm /\ ~Vanished => Standing(t0, l0))
  BY <1>1, LibReader
<1>4. t0.text = <<>> /\ s \in Text /\ Len(s) \in Nat /\ l0.pos \in Nat
  BY <1>1, <1>2, Texts DEF Shape, LibType
<1>5. /\ t \in TailType /\ t.pc = "send" /\ t.fd = 0 /\ t.text = s /\ t.orig = t0.orig
      /\ t.lastSize = t0.lastSize /\ t.cancelled = t0.cancelled
  BY <1>2, <1>3, <1>4 DEF TailType
<1>6. l \in LibType /\ l.pc = "read" /\ l.fd = l0.fd /\ l.pos = l0.pos /\ l.text = <<>>
  BY <1>2, Nothing DEF LibType
<1> HIDE DEF t, l
<1>7. /\ a \in Int /\ a + Len(s) = l0.pos /\ (Steady \/ Calm => a \in Nat)
      /\ l.pos - Len(l.text) = l0.pos /\ Len(l.text) <= l.pos /\ l.pos - Len(l.text) = a + Len(s)
  BY <1>3, <1>4, <1>6, Nothing
<1>8. Shape(t, l)
  BY <1>1, <1>2, <1>3, <1>5, <1>6 DEF Shape
<1>9. Reading(t, l)
  <2>1. Piece(l.text, l.fd, l.pos - Len(l.text))
    BY <1>6, Nothing DEF Piece
  <2> QED
    BY <1>3, <1>5, <1>6, <1>7, <2>1 DEF Reading
<1>10. (Steady \/ Calm) /\ s # <<>> => a \in 0 .. Len(data[l0.fd])
  <2> SUFFICES ASSUME Steady \/ Calm, s # <<>>
               PROVE  a \in 0 .. Len(data[l0.fd])
    OBVIOUS
  <2>1. a \in Nat /\ Piece(s, l0.fd, a)
    BY <1>3, <1>7
  <2>2. a + Len(s) <= Len(data[l0.fd])
    BY <1>2, <1>3, <1>4, <2>1, PieceEnds
  <2>3. Len(data[l0.fd]) \in Nat
    BY <1>2, <1>3, Basics, Texts
  <2> HIDE DEF a
  <2> QED
    BY <1>4, <2>1, <2>2, <2>3
<1>11. Gapless(t, l)
  <2> SUFFICES ASSUME Steady
               PROVE  /\ s # <<>> => \E i \in Inodes : \E b \in 0 .. Len(data[i]) :
                                        Piece(s, i, b) /\ Covered(i, b, <<>>)
                      /\ Covered(l.fd, l.pos - Len(l.text), s)
    BY <1>5 DEF Gapless
  <2>1. Piece(s, l0.fd, a) /\ Covered(l0.fd, a, <<>>) /\ a \in Nat
    BY <1>3, <1>4, <1>7
  <2>2. Covered(l0.fd, a + Len(s), s)
    BY <1>2, <1>3, <1>4, <2>1, CoveredBy
  <2>3. s # <<>> => a \in 0 .. Len(data[l0.fd])
    BY <1>10
  <2> HIDE DEF a
  <2> QED
    BY <1>3, <1>6, <1>7, <2>1, <2>2, <2>3
<1>12. Repeatless(t, l)
  <2> SUFFICES ASSUME Calm
               PROVE  /\ s # <<>> => \E b \in 0 .. Len(data[1]) : Piece(s, 1, b) /\ Ahead(b, <<>>)
                      /\ Ahead(l.pos - Len(l.text), s)
                      /\ ~Vanished => Standing(t, l)
    BY <1>5 DEF Repeatless
  <2>1. l0.fd = 1 /\ Piece(s, 1, a) /\ Ahead(a, <<>>) /\ a \in Nat
    BY <1>3, <1>4, <1>7
  <2>2. Ahead(a + Len(s), s)
    BY <1>2, <1>4, <2>1, AheadBy
  <2>3. s # <<>> => a \in 0 .. Len(data[1])
    BY <1>10, <2>1
  <2>4. ~Vanished => Standing(t, l)
    <3> SUFFICES ASSUME ~Vanished
                 PROVE  Standing(t, l)
      OBVIOUS
    <3>1. Standing(t0, l0)
      BY <1>3
    <3>2. ASSUME mode = "hybrid"
          PROVE  Piece(s, 1, t.lastSize) /\ l.pos - Len(l.text) = t.lastSize + Len(s)
      <4>1. l0.pos - Len(l0.text) = t0.lastSize + Len(t0.text)
        BY <1>1, <1>3, <3>1, <3>2 DEF Standing
      <4>2. a = t0.lastSize
        <5>1. t0.lastSize \in Nat /\ Len(t0.text) = 0
          BY <1>2, <1>4, Nothing DEF TailType
        <5> QED
          BY <4>1, <5>1
      <4> QED
        BY <1>5, <1>7, <2>1, <4>2
    <3>3. ~t.cancelled /\ t.lastSize <= written
      BY <1>5, <3>1 DEF Standing
    <3>4. mode = "hybrid" => Ahead(t.lastSize, <<>>)
      BY <1>3, <1>5, <3>1 DEF Standing
    <3> QED
      BY <1>5, <1>6, <3>2, <3>3, <3>4 DEF Standing
  <2> HIDE DEF a
  <2> QED
    BY <1>7, <2>1, <2>2, <2>3, <2>4
<1> QED
  BY <1>1, <1>2, <1>5, <1>6, <1>8, <1>9, <1>11, <1>12, OneMoves DEF Good, BecomesWith, t, l

LEMMA StopDrainStep ==
  ASSUME IInv, NEW g \in Tails, StopDrain(g)
  PROVE  IInv'
<1> DEFINE t  == tail[g]
           l0 == lib[g]
           l  == [lib[g] EXCEPT !.pc = "read", !.text = <<>>]
<1>1. t.pc = "stop" /\ l0.pc = "send" /\ BecomesWith(g, t, l)
  BY DEF StopDrain
<1>2. /\ TypeInv /\ ~Off(g) /\ t \in TailType /\ l0 \in LibType /\ Shape(t, l0)
      /\ mode \in {"poll", "event", "hybrid"}
  BY <1>1, Here, Basics
<1>3. /\ l0.fd # 0 /\ t.fd = 0 /\ mode # "poll"
      /\ (Steady \/ Calm => l0.pos <= Size(l0.fd))
      /\ (Calm /\ ~Vanished => Standing(t, l0))
  BY <1>1, LibReader
<1>4. t.text = <<>> /\ l0.pos \in Nat
  BY <1>1, <1>2 DEF Shape, LibType
<1>5. l \in LibType /\ l.pc = "read" /\ l.fd = l0.fd /\ l.pos = l0.pos /\ l.text = <<>>
  BY <1>2, Nothing DEF LibType
<1> HIDE DEF l
<1>6. Shape(t, l)
  BY <1>1, <1>2, <1>3, <1>5 DEF Shape
<1>7. Reading(t, l)
  <2>1. Piece(l.text, l.fd, l.pos - Len(l.text)) /\ Len(l.text) <= l.pos
    BY <1>4, <1>5, Nothing DEF Piece
  <2> QED
    BY <1>3, <1>5, <2>1 DEF Reading
<1>8. Calm /\ ~Vanished => Standing(t, l)
  BY <1>1, <1>3, <1>5 DEF Standing
<1>9. Gapless(t, l) /\ Repeatless(t, l)
  BY <1>1, <1>3, <1>4, <1>7, <1>8, Dropping
<1> QED
  BY <1>1, <1>2, <1>5, <1>6, <1>7, <1>9, OneMoves DEF Good, BecomesWith, l

LEMMA StopDoneStep ==
  ASSUME IInv, NEW g \in Tails, StopDone(g)
  PROVE  IInv'
<1> DEFINE t0 == tail[g]
           l0 == lib[g]
           t  == [tail[g] EXCEPT !.pc = AfterStop(g), !.orig = 0, !.stalled = FALSE]
<1>1. t0.pc = "stop" /\ BecomesWith(g, t, NoLib)
  BY DEF StopDone
<1>2. /\ TypeInv /\ ~Off(g) /\ t0 \in TailType /\ Shape(t0, l0) /\ Repeatless(t0, l0)
      /\ mode \in {"poll", "event", "hybrid"} /\ files \in Nat /\ (Calm => ~stopped)
  BY <1>1, Here, Basics
<1>3. t0.fd = 0 /\ t0.text = <<>> /\ mode # "poll"
  BY <1>1, <1>2 DEF Shape
<1>4. /\ AfterStop(g) \in {"exit", "drain", "retry"}
      /\ mode = "event" => AfterStop(g) = "exit"
      /\ AfterStop(g) = "exit" => mode = "event" \/ Cancelled(g)
  BY DEF AfterStop
<1>5. /\ t \in TailType /\ t.pc = AfterStop(g) /\ t.fd = 0 /\ t.text = <<>> /\ t.orig = 0
      /\ t.lastSize = t0.lastSize /\ t.cancelled = t0.cancelled
  BY <1>2, <1>3, <1>4 DEF TailType
<1> HIDE DEF t
<1>6. NoLib \in LibType /\ NoLib.pc = "off" /\ NoLib.fd = 0 /\ NoLib.text = <<>>
  BY Nothing DEF NoLib, LibType
<1>7. Shape(t, NoLib)
  BY <1>1, <1>2, <1>3, <1>4, <1>5, <1>6 DEF Shape
<1>8. ASSUME Calm, ~Vanished
      PROVE  Standing(t, NoLib)
  <2>1. Standing(t0, l0)
    BY <1>1, <1>2, <1>8 DEF Repeatless
  <2>2. ~t0.cancelled /\ t0.lastSize <= written /\ Ahead(t0.lastSize, <<>>)
    BY <1>1, <1>3, <2>1 DEF Standing
  <2>3. t.pc = "exit" => Ahead(0, <<>>)
    <3>1. ~Cancelled(g)
      BY <1>2, <1>8, <2>2 DEF Cancelled
    <3>2. t.pc = "exit" => mode = "event"
      BY <1>4, <1>5, <3>1
    <3>3. mode = "event" => t0.lastSize = 0
      BY <1>2 DEF Shape
    <3> QED
      BY <2>2, <3>2, <3>3
  <2>4. t.pc # "begin"
    BY <1>4, <1>5
  <2> QED
    BY <1>2, <1>5, <1>6, <2>2, <2>3, <2>4, StandsNowhere
<1>9. Reading(t, NoLib) /\ Gapless(t, NoLib) /\ Repeatless(t, NoLib)
  BY <1>5, <1>6, <1>8, EmptyHanded
<1>10. t.pc # "off"
  BY <1>4, <1>5
<1> QED
  BY <1>1, <1>2, <1>5, <1>6, <1>7, <1>9, <1>10, OneMoves DEF Good, BecomesWith, t

LEMMA LibOpenStep ==
  ASSUME IInv, NEW g \in Tails, LibOpen(g)
  PROVE  IInv'
<1> DEFINE t  == tail[g]
           l0 == lib[g]
           l  == [lib[g] EXCEPT !.pc = "read", !.fd = path]
<1>1. l0.pc = "open" /\ path # 0 /\ LibBecomes(g, l)
  BY DEF LibOpen
<1>2. /\ TypeInv /\ FileInv /\ ~Off(g) /\ t \in TailType /\ l0 \in LibType /\ Shape(t, l0)
      /\ Gapless(t, l0) /\ Repeatless(t, l0) /\ t.pc # "off"
      /\ mode \in {"poll", "event", "hybrid"}
      /\ (Calm => path \in {0, 1} /\ (path = 0 <=> Vanished) /\ Size(1) = written)
  BY <1>1, Here, Basics
<1>3. path \in Inodes /\ path <= files
  BY <1>1, <1>2 DEF TypeInv, TypeOK, FileInv
<1>4. /\ t.fd = 0 /\ l0.text = <<>> /\ mode # "poll" /\ l0.pos \in Nat
      /\ (mode # "hybrid" => l0.pos = 0)
  BY <1>1, <1>2 DEF Shape, LibType
<1>5. l \in LibType /\ l.pc = "read" /\ l.fd = path /\ l.pos = l0.pos /\ l.text = <<>>
  BY <1>2, <1>3, <1>4 DEF LibType
<1> HIDE DEF l
<1>6. Len(l.text) = 0 /\ l.pos - Len(l.text) = l0.pos /\ Len(l.text) <= l.pos
  BY <1>4, <1>5, Nothing
<1>7. ASSUME Calm
      PROVE  /\ path = 1 /\ ~Vanished /\ Standing(t, l0) /\ t.text = <<>>
             /\ l0.pos = t.lastSize /\ l0.pos <= written /\ Ahead(t.lastSize, <<>>)
  <2>1. path = 1 /\ ~Vanished /\ Standing(t, l0)
    BY <1>1, <1>2, <1>7 DEF Repeatless
  <2> QED
    BY <1>1, <1>4, <2>1 DEF Standing
<1>8. Shape(t, l)
  BY <1>1, <1>2, <1>3, <1>5 DEF Shape
<1>9. Reading(t, l)
  <2>1. Piece(l.text, l.fd, l.pos - Len(l.text))
    BY <1>5, Nothing DEF Piece
  <2>2. Steady => l.pos <= Size(path)
    <3>1. Size(path) \in Nat
      BY <1>2, <1>3, <1>4, FromText
    <3> QED
      BY <1>4, <1>5, <3>1 DEF Steady
  <2>3. Calm => l.pos <= Size(path)
    BY <1>2, <1>5, <1>7
  <2> QED
    BY <1>4, <1>5, <1>6, <2>1, <2>2, <2>3 DEF Reading
<1>10. Gapless(t, l)
  <2>1. \A k \in DOMAIN data[path] : k \in Nat /\ k > 0
    BY <1>2, <1>3, Basics, Texts
  <2>2. Covered(path, 0, t.text)
    BY <2>1 DEF Covered
  <2>3. Steady => l.pos - Len(l.text) = 0
    BY <1>4, <1>6 DEF Steady
  <2> QED
    BY <1>2, <1>4, <1>5, <2>2, <2>3 DEF Gapless
<1>11. Calm => Standing(t, l)
  <2> SUFFICES ASSUME Calm
               PROVE  Standing(t, l)
    OBVIOUS
  <2>1. mode = "hybrid" => l.pos - Len(l.text) = t.lastSize + Len(t.text)
    <3>1. Len(t.text) = 0 /\ t.lastSize \in Nat
      BY <1>2, <1>7, Nothing DEF TailType
    <3> QED
      BY <1>6, <1>7, <3>1
  <2> QED
    BY <1>1, <1>5, <1>7, <2>1 DEF Standing
<1>12. Repeatless(t, l)
  BY <1>2, <1>4, <1>6, <1>7, <1>11 DEF Repeatless
<1> QED
  BY <1>1, <1>2, <1>5, <1>8, <1>9, <1>10, <1>12, LibMoves DEF Good, l

(* The library lets its file go: it starts over with another, or gives up. *)
LEMMA LibLeavesStep ==
  ASSUME IInv, NEW g \in Tails, LibMoved(g) \/ LibDies(g)
  PROVE  IInv'
<1> DEFINE t  == tail[g]
           l0 == lib[g]
<1>1. l0.pc \in {"wait", "open"}
  BY DEF LibMoved, LibDies
<1>2. /\ TypeInv /\ ~Off(g) /\ Shape(t, l0) /\ Gapless(t, l0) /\ Repeatless(t, l0) /\ t.pc # "off"
      /\ mode \in {"poll", "event", "hybrid"}
      /\ (Calm => path \in {0, 1} /\ (path = 0 <=> Vanished))
  BY <1>1, Here, Basics
<1>3. t.fd = 0 /\ mode # "poll" /\ files \in Nat
  BY <1>1, <1>2, Basics DEF Shape
<1>4. ASSUME NEW l \in LibType, LibBecomes(g, l), l.pc \in {"open", "dead"}, l.fd = 0, l.text = <<>>,
             l.pos = 0, Calm /\ ~Vanished => Standing(t, l)
      PROVE  IInv'
  <2>1. Shape(t, l)
    BY <1>1, <1>2, <1>3, <1>4 DEF Shape
  <2>2. Reading(t, l)
    BY <1>3, <1>4 DEF Reading
  <2>3. Gapless(t, l) /\ Repeatless(t, l)
    BY <1>2, <1>3, <1>4 DEF Gapless, Repeatless
  <2> QED
    BY <1>2, <1>4, <2>1, <2>2, <2>3, LibMoves DEF Good
<1>5. CASE LibMoved(g)
  <2> DEFINE l == [NoLib EXCEPT !.pc = "open"]
  <2>1. l0.pc = "wait" /\ (path # l0.fd \/ Size(l0.fd) < l0.pos) /\ LibBecomes(g, l)
    BY <1>5 DEF LibMoved
  <2>2. l \in LibType /\ l.pc = "open" /\ l.fd = 0 /\ l.text = <<>> /\ l.pos = 0
    BY Nothing DEF LibType, NoLib
  <2> HIDE DEF l
  <2>3. Size(l0.fd) \in Nat /\ (Calm => l0.pos <= Size(l0.fd) /\ l0.fd = 1)
    BY <2>1, LibReader
  <2>4. l0.pos \in Nat
    BY <2>1, Here DEF LibType
  <2>5. ~(Calm /\ ~Vanished)
    BY <1>2, <2>1, <2>3, <2>4
  <2> QED
    BY <1>4, <2>1, <2>2, <2>5
<1>6. CASE LibDies(g)
  <2> DEFINE l == [NoLib EXCEPT !.pc = "dead"]
  <2>1. l0.pc = "open" /\ LibBecomes(g, l)
    BY <1>6 DEF LibDies
  <2>2. l \in LibType /\ l.pc = "dead" /\ l.fd = 0 /\ l.text = <<>> /\ l.pos = 0
    BY Nothing DEF LibType, NoLib
  <2> HIDE DEF l
  <2>3. Calm /\ ~Vanished => Standing(t, l)
    BY <1>2, <2>1, <2>2 DEF Repeatless, Standing
  <2> QED
    BY <1>4, <2>1, <2>2, <2>3
<1> QED
  BY <1>5, <1>6

-----------------------------------------------------------------------------
(***************************************************************************)
(* A text is sent, a goroutine ends.                                        *)
(***************************************************************************)

LEMMA Resting ==
  ASSUME files' \in Nat
  PROVE  Good(NoTail, NoLib)'
<1>1. /\ NoTail.pc = "off" /\ NoTail.text = <<>> /\ NoTail.fd = 0 /\ NoTail.orig = 0
      /\ NoTail.lastSize = 0 /\ NoLib.pc = "off" /\ NoLib.fd = 0 /\ NoLib.text = <<>>
  BY DEF NoTail, NoLib
<1>2. Shape(NoTail, NoLib)'
  BY <1>1 DEF Shape
<1>3. Reading(NoTail, NoLib)' /\ Gapless(NoTail, NoLib)' /\ Repeatless(NoTail, NoLib)'
  BY <1>1 DEF Reading, Gapless, Repeatless
<1> QED
  BY <1>2, <1>3 DEF Good

(* What is counted when the text s is sent. *)
LEMMA Counted ==
  ASSUME TypeInv, NEW s,
         sent' = [u \in Units |-> IF u \in Range(s) THEN Count(sent[u]) ELSE sent[u]]
  PROVE  /\ sent' \in [Units -> 0 .. 2]
         /\ \A u \in Units : /\ sent[u] \in 0 .. 2 /\ sent'[u] \in 0 .. 2
                             /\ sent'[u] > 0 <=> sent[u] > 0 \/ u \in Range(s)
                             /\ sent[u] = 0 => sent'[u] <= 1
                             /\ u \notin Range(s) => sent'[u] = sent[u]
<1>1. sent \in [Units -> 0 .. 2]
  BY DEF TypeInv, TypeOK
<1>2. \A n \in 0 .. 2 : Count(n) \in 1 .. 2 /\ (n = 0 => Count(n) = 1)
  BY DEF Count
<1> HIDE DEF Count
<1>3. \A u \in Units : sent[u] \in 0 .. 2
                       /\ sent'[u] = IF u \in Range(s) THEN Count(sent[u]) ELSE sent[u]
  BY <1>1
<1>4. \A u \in Units : sent'[u] \in 0 .. 2
  BY <1>2, <1>3
<1>5. sent' \in [Units -> 0 .. 2]
  BY <1>4
<1> QED
  BY <1>2, <1>3, <1>4, <1>5

LEMMA SentCovers ==
  ASSUME TypeInv, NEW s, NEW i \in Inodes, NEW n, Covered(i, n, s), UNCHANGED data,
         sent' = [u \in Units |-> IF u \in Range(s) THEN Count(sent[u]) ELSE sent[u]]
  PROVE  Covered(i, n, <<>>)'
<1>1. \A k \in DOMAIN data[i] : data[i][k] \in Units
  BY Basics, Texts
<1>2. \A u \in Units : sent[u] > 0 \/ u \in Range(s) => sent'[u] > 0
  BY Counted
<1> QED
  BY <1>1, <1>2 DEF Covered

LEMMA SentAhead ==
  ASSUME TypeInv, NEW s, NEW n, Ahead(n, s), \A u \in Range(s) : sent[u] = 0,
         sent' = [u \in Units |-> IF u \in Range(s) THEN Count(sent[u]) ELSE sent[u]]
  PROVE  Ahead(n, <<>>)'
<1>1. \A u \in Units : sent[u] <= 1 /\ (sent[u] > 0 \/ u \in Range(s) => u <= n)
  BY DEF Ahead
<1>2. \A u \in Units : /\ (sent'[u] > 0 <=> sent[u] > 0 \/ u \in Range(s))
                       /\ (sent[u] = 0 => sent'[u] <= 1)
                       /\ (u \notin Range(s) => sent'[u] = sent[u])
  BY Counted
<1>3. \A u \in Units : sent'[u] <= 1 /\ (sent'[u] > 0 => u <= n)
  BY <1>1, <1>2
<1>4. Units' = Units /\ Range(<<>>)' = {}
  BY Nothing DEF Units
<1> QED
  BY <1>3, <1>4 DEF Ahead

(* A text in hand lies right behind what was sent of its file, so no part of  *)
(* it was, and with it there is still no gap.                                *)
LEMMA HandIsFresh ==
  ASSUME TypeInv, FileInv, Calm, files # 0, NEW s \in Text,
         s # <<>> => \E a \in 0 .. Len(data[1]) : Piece(s, 1, a) /\ Ahead(a, <<>>)
  PROVE  \A u \in Range(s) : sent[u] = 0 /\ u <= written
<1> SUFFICES ASSUME NEW u \in Range(s)
             PROVE  sent[u] = 0 /\ u <= written
  OBVIOUS
<1>1. Len(s) \in Nat /\ DOMAIN s = 1 .. Len(s) /\ (s = <<>> <=> Len(s) = 0)
      /\ Range(s) = {s[k] : k \in 1 .. Len(s)} /\ \A k \in 1 .. Len(s) : s[k] \in Units
  BY Texts
<1>2. PICK k \in 1 .. Len(s) : u = s[k]
  BY <1>1
<1>3. s # <<>> /\ u \in Units
  BY <1>1, <1>2
<1>4. PICK a \in 0 .. Len(data[1]) : Piece(s, 1, a) /\ Ahead(a, <<>>)
  BY <1>3
<1>5. DOMAIN data[1] = 1 .. written /\ Len(data[1]) = written /\ \A j \in 1 .. written : data[1][j] = j
  BY OneFile
<1>6. a \in Nat /\ written \in Nat
  BY <1>4, <1>5, Basics
<1>7. a + k \in 1 .. written /\ u = a + k
  BY <1>1, <1>2, <1>4, <1>5 DEF Piece
<1>8. sent[u] \in 0 .. 2
  BY <1>3 DEF TypeInv, TypeOK
<1>9. sent[u] > 0 => u <= a
  BY <1>3, <1>4 DEF Ahead
<1> QED
  BY <1>1, <1>2, <1>6, <1>7, <1>8, <1>9

LEMMA NoGapBySending ==
  ASSUME TypeInv, FileInv, Steady, NoGap, NEW s \in Text, UNCHANGED <<data, setup, truncs>>,
         s # <<>> => \E i \in Inodes : \E a \in 0 .. Len(data[i]) : Piece(s, i, a) /\ Covered(i, a, <<>>),
         sent' = [u \in Units |-> IF u \in Range(s) THEN Count(sent[u]) ELSE sent[u]]
  PROVE  NoGap' /\ \A u \in Range(s) : u <= written
<1>1. Len(s) \in Nat /\ DOMAIN s = 1 .. Len(s) /\ (s = <<>> <=> Len(s) = 0)
      /\ Range(s) = {s[k] : k \in 1 .. Len(s)}
  BY Texts
<1>2. \A i \in Inodes : DOMAIN data[i] \subseteq Nat /\ \A k \in DOMAIN data[i] : data[i][k] \in Units
  BY Basics, Texts
<1>3. \A u \in Units : sent'[u] > 0 <=> sent[u] > 0 \/ u \in Range(s)
  BY Counted
<1>4. ASSUME NEW u \in Range(s)
      PROVE  \E i \in Inodes, m \in Nat : /\ m \in DOMAIN data[i] /\ data[i][m] = u
                                          /\ \A j \in DOMAIN data[i] :
                                               j < m => sent[data[i][j]] > 0 \/ data[i][j] \in Range(s)
  <2>1. PICK k \in 1 .. Len(s) : u = s[k]
    BY <1>1, <1>4
  <2>2. s # <<>>
    BY <1>1, <2>1
  <2>3. PICK i \in Inodes : \E a \in 0 .. Len(data[i]) : Piece(s, i, a) /\ Covered(i, a, <<>>)
    BY <2>2
  <2>4. PICK a \in 0 .. Len(data[i]) : Piece(s, i, a) /\ Covered(i, a, <<>>)
    BY <2>3
  <2>5. a \in Nat
    BY <2>4, Basics, Texts
  <2>6. a + k \in DOMAIN data[i] /\ data[i][a + k] = u /\ a + k \in Nat
    BY <1>1, <2>1, <2>4, <2>5 DEF Piece
  <2>7. Covered(i, a + Len(s), s)
    BY <2>4, <2>5, CoveredBy
  <2>8. \A j \in DOMAIN data[i] : j < a + k => j <= a + Len(s)
    BY <1>1, <1>2, <2>1, <2>5
  <2>9. \A j \in DOMAIN data[i] : j < a + k => sent[data[i][j]] > 0 \/ data[i][j] \in Range(s)
    BY <2>7, <2>8 DEF Covered
  <2> QED
    BY <2>6, <2>9
<1>5. /\ \A i \in Inodes : \A k \in DOMAIN data[i] : data[i][k] <= written
      /\ \A i, j \in Inodes : \A k \in DOMAIN data[i], m \in DOMAIN data[j] :
           data[i][k] = data[j][m] => i = j /\ k = m
  BY DEF FileInv, Steady
<1>6. \A u \in Range(s) : u <= written
  BY <1>4, <1>5
<1>7. ASSUME NEW i \in Inodes, NEW j \in DOMAIN data[i], NEW k \in DOMAIN data[i],
             j < k, sent'[data[i][k]] > 0
      PROVE  sent'[data[i][j]] > 0
  <2>1. CASE sent[data[i][k]] > 0
    BY <1>2, <1>3, <1>7, <2>1 DEF NoGap, Steady
  <2>2. CASE data[i][k] \in Range(s)
    <3>1. PICK ii \in Inodes, m \in Nat :
            /\ m \in DOMAIN data[ii] /\ data[ii][m] = data[i][k]
            /\ \A jj \in DOMAIN data[ii] :
                 jj < m => sent[data[ii][jj]] > 0 \/ data[ii][jj] \in Range(s)
      BY <1>4, <2>2
    <3>2. ii = i /\ m = k
      BY <1>5, <3>1
    <3>3. sent[data[i][j]] > 0 \/ data[i][j] \in Range(s)
      BY <1>7, <3>1, <3>2
    <3> QED
      BY <1>2, <1>3, <3>3
  <2> QED
    BY <1>2, <1>3, <1>7, <2>1, <2>2
<1>8. NoGap'
  BY <1>7 DEF NoGap, Inodes
<1> QED
  BY <1>6, <1>8

LEMMA SendStep ==
  ASSUME IInv, NEW g \in Tails, Send(g)
  PROVE  IInv'
<1>a. PICK t0 : t0 = tail[g]
  OBVIOUS
<1>b. PICK l : l = lib[g]
  OBVIOUS
<1>c. PICK s : s = t0.text
  OBVIOUS
<1>d. PICK t : t = Forwarded(t0)
  OBVIOUS
<1>1. /\ t0.pc = "send"
      /\ sent' = [u \in Units |-> IF u \in Range(s) THEN Count(sent[u]) ELSE sent[u]]
      /\ tail' = [tail EXCEPT ![g] = t]
  BY <1>a, <1>c, <1>d DEF Send
<1>2. /\ UNCHANGED <<setup, path, files, data, written, truncs>>
      /\ UNCHANGED <<run, found, tailed, lib, room, stopped>>
  BY DEF Send, fileVars, runVars, envVars
<1>3. /\ TypeInv /\ FileInv /\ ~Off(g) /\ t0 \in TailType /\ l \in LibType /\ files # 0
      /\ Shape(t0, l) /\ Reading(t0, l) /\ Gapless(t0, l) /\ Repeatless(t0, l) /\ tailed = g
      /\ mode \in {"poll", "event", "hybrid"} /\ files \in Nat /\ written \in Nat /\ g # 0
      /\ (Calm => files = 1 /\ 1 \in Inodes /\ Size(1) = written)
  BY <1>1, <1>a, <1>b, Here, Basics
<1>4. \A h \in Tails \ {g} : tail[h] = NoTail /\ lib[h] = NoLib /\ Off(h)
  BY <1>3, Alone DEF IInv
<1>5. s \in Text /\ Len(s) \in Nat /\ (s = <<>> <=> Len(s) = 0) /\ t0.lastSize \in Nat
  BY <1>3, <1>c, Texts DEF TailType
<1>6. /\ t \in TailType /\ t.pc = IF t0.fd = 0 THEN "select" ELSE IF t0.eof THEN "eof" ELSE "scan"
      /\ t.fd = t0.fd /\ t.off = t0.off /\ t.buf = t0.buf /\ t.text = <<>> /\ t.orig = t0.orig
      /\ t.cancelled = t0.cancelled
      /\ t.lastSize = IF t0.fd = 0 /\ mode = "hybrid" THEN t0.lastSize + Len(s) ELSE t0.lastSize
  <2>1. t0.lastSize + Len(s) \in Nat
    BY <1>5
  <2>2. t = [t0 EXCEPT !.text = <<>>,
                       !.pc = IF t0.fd = 0 THEN "select" ELSE IF t0.eof THEN "eof" ELSE "scan",
                       !.lastSize = IF t0.fd = 0 /\ mode = "hybrid" THEN t0.lastSize + Len(s)
                                    ELSE t0.lastSize]
    BY <1>c, <1>d DEF Forwarded
  <2> QED
    BY <1>3, <1>5, <2>1, <2>2, Nothing DEF TailType
<1>7. t.pc \in {"select", "eof", "scan"} /\ (t.pc = "select" <=> t0.fd = 0)
  BY <1>6
<1>8. tail' \in [Tails -> TailType] /\ tail'[g] = t /\ \A h \in Tails \ {g} : tail'[h] = tail[h]
  BY <1>1, <1>3, <1>6 DEF TypeInv, TypeOK
<1>9. /\ Calm' <=> Calm
      /\ Steady' <=> Steady
      /\ Vanished' <=> Vanished
      /\ mode' = mode
      /\ Units' = Units /\ Inodes' = Inodes
      /\ \A i, n, p : Piece(p, i, n)' <=> Piece(p, i, n)
  BY <1>2 DEF Calm, Steady, Vanished, Undisturbed, mode, long, Units, Inodes, Piece
<1>10. TypeInv'
  <2>1. sent' \in [Units -> 0 .. 2]
    BY <1>1, <1>3, Counted
  <2> QED
    BY <1>2, <1>3, <1>8, <1>9, <2>1 DEF TypeInv, TypeOK, TailType, LibType, Text
<1>11. TailInv'
  <2>1. \A h \in Tails : Off(h)' <=> Off(h)
    BY <1>3, <1>4, <1>7, <1>8 DEF Off
  <2>2. TailInv
    BY DEF IInv
  <2>3. tailed' = g /\ ~Off(tailed)'
    BY <1>2, <1>3, <1>7, <1>8 DEF Off
  <2> QED
    BY <1>2, <1>3, <2>1, <2>2, <2>3 DEF TailInv
<1>12. FileInv'
  BY <1>2, <1>3 DEF FileInv, Inodes
<1>13. Shape(t, l)'
  BY <1>1, <1>2, <1>3, <1>6, <1>7, <1>9 DEF Shape
<1>14. Reading(t, l)'
  BY <1>2, <1>3, <1>6, <1>9 DEF Reading, Size
<1>15. Gapless(t, l)'
  <2> SUFFICES ASSUME Steady
               PROVE  /\ t.fd # 0 => Covered(t.fd, t.off - Len(t.buf), <<>>)'
                      /\ l.fd # 0 /\ t.pc # "stop" => Covered(l.fd, l.pos - Len(l.text), <<>>)'
    BY <1>6, <1>9 DEF Gapless
  <2>1. ASSUME t.fd # 0
        PROVE  Covered(t.fd, t.off - Len(t.buf), <<>>)'
    <3>1. t0.fd \in Inodes /\ Covered(t0.fd, t0.off - Len(t0.buf), s)
      BY <1>3, <1>6, <1>c, <2>1 DEF TailType, Gapless
    <3> QED
      BY <1>1, <1>2, <1>3, <1>6, <3>1, SentCovers
  <2>2. ASSUME l.fd # 0
        PROVE  Covered(l.fd, l.pos - Len(l.text), <<>>)'
    <3>1. l.fd \in Inodes /\ Covered(l.fd, l.pos - Len(l.text), s)
      BY <1>1, <1>3, <1>c, <2>2 DEF LibType, Gapless
    <3> QED
      BY <1>1, <1>2, <1>3, <3>1, SentCovers
  <2> QED
    BY <2>1, <2>2
<1>16. Calm => \A u \in Range(s) : sent[u] = 0 /\ u <= written
  BY <1>3, <1>5, <1>c, HandIsFresh DEF Repeatless
<1>17. ASSUME Calm, NEW n, Ahead(n, s)
       PROVE  Ahead(n, <<>>)'
  BY <1>1, <1>3, <1>16, <1>17, SentAhead
<1>18. ASSUME Calm, ~Vanished
       PROVE  Standing(t, l)'
  <2>1. Standing(t0, l)
    BY <1>1, <1>3, <1>18 DEF Repeatless
  <2>2. CASE t0.fd = 0 /\ mode = "hybrid"
    <3>1. Ahead(t0.lastSize, <<>>) /\ Piece(s, 1, t0.lastSize) /\ t0.lastSize <= written
      BY <1>c, <2>1, <2>2 DEF Standing
    <3>2. t.lastSize = t0.lastSize + Len(s)
      BY <1>6, <2>2
    <3>3. Ahead(t.lastSize, s)
      BY <1>3, <1>5, <1>18, <3>1, <3>2, AheadBy
    <3>4. Ahead(t.lastSize, <<>>)'
      BY <1>17, <1>18, <3>3
    <3>5. t.lastSize <= written
      <4>1. CASE s = <<>>
        BY <1>5, <3>1, <3>2, <4>1
      <4>2. CASE s # <<>>
        <5>1. t0.lastSize + Len(s) <= Len(data[1]) /\ Len(data[1]) = written
          BY <1>3, <1>5, <1>18, <3>1, <4>2, PieceEnds, OneFile
        <5> QED
          BY <3>2, <5>1
      <4> QED
        BY <4>1, <4>2
    <3>6. l.fd # 0 => l.pos - Len(l.text) = t.lastSize + Len(t.text)
      <4>1. l.fd # 0 => l.pos - Len(l.text) = t0.lastSize + Len(s)
        BY <1>1, <1>c, <2>1, <2>2 DEF Standing
      <4>2. Len(t.text) = 0 /\ t.lastSize + 0 = t.lastSize
        BY <1>5, <1>6, <3>2, Nothing
      <4> QED
        BY <3>2, <4>1, <4>2
    <3>7. l.pc \in {"open", "dead"} => (l.pc = "open" => l.pos = t.lastSize)
      <4>1. l.pc = "open" => Len(s) = 0 /\ l.pos = t0.lastSize
        BY <1>5, <1>c, <2>1 DEF Standing
      <4> QED
        BY <1>5, <3>2, <4>1
    <3>8. ~t.cancelled /\ t.text = <<>> /\ t.pc = "select"
      BY <1>6, <2>1, <2>2 DEF Standing
    <3>9. \A k \in DOMAIN <<>> : FALSE
      BY Nothing
    <3> QED
      BY <1>2, <3>4, <3>5, <3>6, <3>7, <3>8, <3>9 DEF Standing, Piece
  <2>3. CASE ~(t0.fd = 0 /\ mode = "hybrid")
    <3>1. t.lastSize = t0.lastSize /\ t.lastSize <= written /\ ~t.cancelled /\ t.text = <<>>
      BY <1>6, <2>1, <2>3 DEF Standing
    <3>2. ASSUME t.fd = 0, l.pc \in {"off", "open", "dead"}
          PROVE  Ahead(t.lastSize, <<>>)'
      <4>1. l.pc \in {"open", "dead"}
        BY <1>1, <1>3, <1>6, <3>2 DEF Shape
      <4>2. s = <<>> /\ Ahead(t0.lastSize, <<>>)
        BY <1>6, <1>c, <2>1, <3>2, <4>1 DEF Standing
      <4>3. Ahead(t.lastSize, s)
        BY <3>1, <4>2
      <4> QED
        BY <1>17, <1>18, <4>3
    <3>3. mode = "hybrid" => t.fd # 0 /\ l.fd = 0
      BY <1>1, <1>3, <1>6, <2>3 DEF Shape, NoLib
    <3>4. l.pc = "open" => l.pos = t.lastSize
      BY <2>1, <3>1 DEF Standing
    <3> QED
      BY <1>2, <1>7, <1>9, <3>1, <3>2, <3>3, <3>4 DEF Standing
  <2> QED
    BY <2>2, <2>3
<1>19. Repeatless(t, l)'
  <2> SUFFICES ASSUME Calm
               PROVE  /\ t.fd # 0 => Ahead(t.off - Len(t.buf), <<>>)'
                      /\ l.fd # 0 => Ahead(l.pos - Len(l.text), <<>>)'
                      /\ ~Vanished => Standing(t, l)'
    BY <1>6, <1>9 DEF Repeatless
  <2>1. ASSUME t.fd # 0
        PROVE  Ahead(t.off - Len(t.buf), <<>>)'
    <3>1. Ahead(t.off - Len(t.buf), s)
      BY <1>3, <1>6, <1>c, <2>1 DEF Repeatless
    <3> QED
      BY <1>17, <3>1
  <2>2. ASSUME l.fd # 0
        PROVE  Ahead(l.pos - Len(l.text), <<>>)'
    <3>1. Ahead(l.pos - Len(l.text), s)
      BY <1>1, <1>3, <1>c, <2>2 DEF Repeatless
    <3> QED
      BY <1>17, <3>1
  <2> QED
    BY <1>18, <2>1, <2>2
<1>20. GoodInv'
  <2>1. ASSUME NEW h \in Tails
        PROVE  Good(tail[h], lib[h])'
    <3>1. CASE h = g
      <4>1. Good(t, l)'
        BY <1>13, <1>14, <1>15, <1>19 DEF Good
      <4>2. tail'[h] = t /\ lib'[h] = l
        BY <3>1, <1>2, <1>8, <1>b
      <4> QED
        BY <3>1, <4>1, <4>2
    <3>2. CASE h # g
      <4>1. tail'[h] = NoTail /\ lib'[h] = NoLib
        BY <1>2, <1>4, <1>8, <3>2
      <4>2. files' \in Nat
        BY <1>2, <1>3
      <4> QED
        BY <4>1, <4>2, Resting
    <3> QED
      BY <3>1, <3>2
  <2> QED
    BY <2>1 DEF GoodInv
<1>21. SentInv'
  <2>1. SentInv
    BY DEF IInv
  <2>2. \A u \in Units : /\ sent'[u] > 0 <=> sent[u] > 0 \/ u \in Range(s)
                         /\ sent[u] = 0 => sent'[u] <= 1
                         /\ u \notin Range(s) => sent'[u] = sent[u]
    BY <1>1, <1>3, Counted
  <2>3. Steady => NoGap' /\ \A u \in Range(s) : u <= written
    BY <1>1, <1>2, <1>3, <1>5, <1>c, <2>1, NoGapBySending DEF SentInv, Gapless
  <2>4. NoGap'
    BY <1>9, <2>3 DEF NoGap, Steady
  <2>5. Steady \/ Calm => \A u \in Units : sent'[u] > 0 => u <= written
    BY <1>16, <2>1, <2>2, <2>3 DEF SentInv
  <2>6. Calm => \A u \in Units : sent'[u] <= 1
    BY <1>16, <2>1, <2>2 DEF SentInv
  <2> QED
    BY <1>2, <1>3, <1>9, <2>1, <2>4, <2>5, <2>6 DEF SentInv
<1> QED
  BY <1>10, <1>11, <1>12, <1>20, <1>21 DEF IInv

LEMMA ExitStep ==
  ASSUME IInv, NEW g \in Tails, Exit(g)
  PROVE  IInv'
<1>1. /\ tail[g].pc = "exit" /\ tailed' = 0 /\ tail' = [tail EXCEPT ![g] = NoTail]
      /\ UNCHANGED <<setup, path, files, data, written, truncs>>
      /\ UNCHANGED <<run, found, lib, sent, room, stopped>>
  BY DEF Exit, fileVars, envVars
<1>2. /\ TypeInv /\ FileInv /\ TailInv /\ SentInv /\ ~Off(g) /\ files \in Nat /\ files # 0
      /\ Shape(tail[g], lib[g]) /\ Repeatless(tail[g], lib[g])
  BY <1>1, Here, Basics DEF IInv
<1>3. \A h \in Tails \ {g} : tail[h] = NoTail /\ lib[h] = NoLib /\ Off(h)
  BY <1>2, Alone DEF IInv
<1>4. lib[g] = NoLib
  BY <1>1, <1>2 DEF Shape
<1>5. NoTail \in TailType /\ NoTail.pc = "off"
  BY Nothing DEF NoTail, TailType
<1>6. tail' \in [Tails -> TailType] /\ \A h \in Tails : tail'[h] = NoTail /\ lib'[h] = NoLib
  BY <1>1, <1>2, <1>3, <1>4, <1>5 DEF TypeInv, TypeOK
<1>7. TypeInv'
  BY <1>1, <1>2, <1>6 DEF TypeInv, TypeOK, TailType, LibType, Units, Inodes, Text
<1>8. TailInv'
  BY <1>1, <1>2, <1>5, <1>6 DEF TailInv, Off
<1>9. FileInv'
  BY <1>1, <1>2 DEF FileInv, Inodes
<1>10. GoodInv'
  BY <1>1, <1>2, <1>6, Resting DEF GoodInv
<1>11. SentInv'
  <2>1. Calm => Vanished \/ Ahead(0, <<>>)
    BY <1>1, <1>2 DEF Repeatless, Standing
  <2>2. /\ Calm' <=> Calm
        /\ Steady' <=> Steady
        /\ Vanished' <=> Vanished
        /\ Ahead(0, <<>>)' <=> Ahead(0, <<>>)
        /\ Units' = Units
        /\ NoGap' <=> NoGap
    BY <1>1 DEF Calm, Steady, Vanished, Undisturbed, Ahead, NoGap, mode, long, Units, Inodes
  <2> QED
    BY <1>1, <1>2, <2>1, <2>2 DEF SentInv
<1> QED
  BY <1>7, <1>8, <1>9, <1>10, <1>11 DEF IInv

-----------------------------------------------------------------------------
(***************************************************************************)
(* The file is written, moved and truncated.                                *)
(***************************************************************************)

(* Only a goroutine that is there has to be looked at. *)
LEMMA ReadersStay ==
  ASSUME IInv, UNCHANGED <<tail, lib>>, files' \in Nat,
         \A t \in TailType, l \in LibType :
           Shape(t, l) /\ t.pc # "off" /\ tailed # 0 /\ files # 0
           /\ Reading(t, l) /\ Gapless(t, l) /\ Repeatless(t, l) => Good(t, l)'
  PROVE  GoodInv'
<1>1. ASSUME NEW h \in Tails
      PROVE  Good(tail[h], lib[h])'
  <2>1. PICK t : t = tail[h]
    OBVIOUS
  <2>2. PICK l : l = lib[h]
    OBVIOUS
  <2>3. TypeInv /\ GoodInv /\ TailInv
    BY DEF IInv
  <2>4. t \in TailType /\ l \in LibType /\ Good(t, l) /\ h # 0
    BY <2>1, <2>2, <2>3, Basics DEF GoodInv
  <2>5. Good(t, l)'
    <3>1. CASE t.pc = "off"
      <4>1. t = NoTail /\ l = NoLib
        BY <2>4, <3>1 DEF Good, Shape
      <4> QED
        BY <4>1, Resting
    <3>2. CASE t.pc # "off"
      <4>1. tailed = h /\ files # 0
        BY <2>1, <2>3, <3>2, Alone DEF Off
      <4> QED
        BY <2>4, <3>2, <4>1 DEF Good
    <3> QED
      BY <3>1, <3>2
  <2> QED
    BY <2>1, <2>2, <2>5
<1> QED
  BY <1>1 DEF GoodInv

LEMMA CreateStep ==
  ASSUME IInv, Create, UNCHANGED <<setup, runVars, tail, lib, sent, envVars>>
  PROVE  IInv'
<1>1. /\ path = 0 /\ files < setup.inodes /\ files' = files + 1 /\ path' = files + 1
      /\ UNCHANGED <<setup, data, written, truncs>>
      /\ UNCHANGED <<run, found, tailed, tail, lib, sent, room, stopped>>
  BY DEF Create, runVars, envVars
<1>2. /\ TypeInv /\ TailInv /\ FileInv /\ GoodInv /\ SentInv /\ files \in Nat /\ setup.inodes \in Nat
      /\ setup \in Setups /\ written \in Nat
  BY Basics DEF IInv, TypeInv, TypeOK
<1>3. files' \in 1 .. setup.inodes /\ files' \in Nat \ {0}
  BY <1>1, <1>2
<1>4. TypeInv'
  <2>1. path' \in Inodes
    BY <1>1, <1>2, <1>3, Numbers
  <2>2. files' \in 0 .. setup.inodes
    BY <1>2, <1>3
  <2>3. Units' = Units /\ Inodes' = Inodes /\ TailType' = TailType /\ LibType' = LibType /\ Text' = Text
    BY DEF Units, Inodes, TailType, LibType, Text
  <2> QED
    BY <1>1, <1>2, <2>1, <2>2, <2>3 DEF TypeInv, TypeOK
<1>5. TailInv'
  BY <1>1, <1>2, <1>3 DEF TailInv, Off
<1>6. Calm' => Calm /\ files = 0 /\ tailed = 0
  <2>1. Calm' => files + 1 <= 1
    BY <1>1 DEF Calm
  <2> QED
    BY <1>1, <1>2, <2>1 DEF Calm, Undisturbed, long, TailInv
<1>7. Steady' <=> Steady
  BY <1>1 DEF Steady, mode
<1>8. FileInv'
  <2>1. truncs = 0 => /\ \A i \in Inodes : \A k \in DOMAIN data[i] : i <= files /\ data[i][k] <= written
                      /\ \A i, j \in Inodes : \A k \in DOMAIN data[i], m \in DOMAIN data[j] :
                           data[i][k] = data[j][m] => i = j /\ k = m
    BY <1>2 DEF FileInv
  <2>2. truncs = 0 => \A i \in Inodes : \A k \in DOMAIN data[i] : i <= files'
    BY <1>1, <1>2, <2>1, Numbers
  <2>3. ASSUME truncs = 0, files' = 1
        PROVE  Len(data[1]) = written /\ \A k \in DOMAIN data[1] : data[1][k] = k
    <3>1. files = 0 /\ 1 \in Inodes
      BY <1>1, <1>2, <1>3, <2>3, Numbers
    <3>2. \A k \in DOMAIN data[1] : FALSE
      BY <2>1, <2>3, <3>1
    <3>3. Len(data[1]) \in Nat /\ DOMAIN data[1] = 1 .. Len(data[1])
      BY <1>2, <3>1, Basics, Texts
    <3>4. Len(data[1]) = 0
      <4>1. Len(data[1]) > 0 => 1 \in 1 .. Len(data[1])
        BY <3>3
      <4> QED
        BY <3>2, <3>3, <4>1
    <3>5. written = 0
      BY <1>2, <3>1 DEF FileInv
    <3> QED
      BY <3>2, <3>4, <3>5
  <2>4. path' <= files' /\ files' # 0 /\ Inodes' = Inodes
    BY <1>1, <1>2 DEF Inodes
  <2> QED
    BY <1>1, <2>1, <2>2, <2>3, <2>4 DEF FileInv
<1>9. GoodInv'
  <2>1. ASSUME NEW t \in TailType, NEW l \in LibType, Shape(t, l), t.pc # "off", tailed # 0, files # 0,
               Reading(t, l), Gapless(t, l), Repeatless(t, l)
        PROVE  Good(t, l)'
    <3>1. t.fd <= files' /\ l.fd <= files' /\ t.orig <= files'
      <4>1. t.fd \in Nat /\ l.fd \in Nat /\ t.orig \in Nat
        <5>1. Inodes \cup {0} \subseteq Nat
          BY Numbers
        <5> QED
          BY <5>1 DEF TailType, LibType
      <4>2. t.fd <= files /\ l.fd <= files /\ t.orig <= files
        BY <2>1 DEF Shape
      <4> QED
        BY <1>1, <1>2, <4>1, <4>2
    <3>2. Shape(t, l)'
      BY <1>1, <2>1, <3>1 DEF Shape, mode
    <3>3. ~Calm'
      BY <1>6, <2>1
    <3>4. \A i, n, s : (Piece(s, i, n)' <=> Piece(s, i, n)) /\ (Covered(i, n, s)' <=> Covered(i, n, s))
      BY <1>1 DEF Piece, Covered
    <3>5. Reading(t, l)' /\ Gapless(t, l)'
      BY <1>1, <1>7, <2>1, <3>3, <3>4 DEF Reading, Gapless, Size, Inodes
    <3>6. Repeatless(t, l)'
      BY <3>3 DEF Repeatless
    <3> QED
      BY <3>2, <3>5, <3>6 DEF Good
  <2> QED
    BY <1>1, <1>3, <2>1, ReadersStay
<1>10. SentInv'
  <2>1. NoGap'
    BY <1>1, <1>2 DEF SentInv, NoGap, mode, Inodes
  <2>2. Calm' => Ahead(0, <<>>)'
    <3>1. Calm' => Ahead(0, <<>>)
      BY <1>2, <1>6 DEF SentInv, Vanished
    <3> QED
      BY <1>1, <3>1 DEF Ahead, Units
  <2> QED
    BY <1>1, <1>2, <1>6, <1>7, <2>1, <2>2 DEF SentInv, Units
<1> QED
  BY <1>4, <1>5, <1>8, <1>9, <1>10 DEF IInv

LEMMA UnlinkStep ==
  ASSUME IInv, Unlink, UNCHANGED <<setup, runVars, tail, lib, sent, envVars>>
  PROVE  IInv'
<1>1. /\ path # 0 /\ path' = 0
      /\ UNCHANGED <<setup, files, data, written, truncs>>
      /\ UNCHANGED <<run, found, tailed, tail, lib, sent, room, stopped>>
  BY DEF Unlink, runVars, envVars
<1>2. /\ TypeInv /\ TailInv /\ FileInv /\ GoodInv /\ SentInv /\ files \in Nat
  BY Basics DEF IInv
<1>3. TypeInv'
  BY <1>1, <1>2 DEF TypeInv, TypeOK, TailType, LibType, Units, Inodes, Text
<1>4. TailInv'
  BY <1>1, <1>2 DEF TailInv, Off
<1>5. FileInv'
  BY <1>1, <1>2 DEF FileInv, Inodes
<1>6. /\ Calm' <=> Calm
      /\ Steady' <=> Steady
      /\ Calm /\ files # 0 => Vanished'
      /\ Units' = Units
  BY <1>1, <1>2 DEF Calm, Steady, Vanished, Undisturbed, mode, long, Units
<1>7. GoodInv'
  <2>1. ASSUME NEW t \in TailType, NEW l \in LibType, Shape(t, l), t.pc # "off", tailed # 0, files # 0,
               Reading(t, l), Gapless(t, l), Repeatless(t, l)
        PROVE  Good(t, l)'
    <3>1. Shape(t, l)'
      BY <1>1, <2>1 DEF Shape, mode
    <3>2. \A i, n, s : (Piece(s, i, n)' <=> Piece(s, i, n)) /\ (Covered(i, n, s)' <=> Covered(i, n, s))
                       /\ (Ahead(n, s)' <=> Ahead(n, s))
      BY <1>1 DEF Piece, Covered, Ahead, Units
    <3>3. Reading(t, l)' /\ Gapless(t, l)'
      BY <1>1, <1>6, <2>1, <3>2 DEF Reading, Gapless, Size, Inodes
    <3>4. Repeatless(t, l)'
      BY <1>1, <1>6, <2>1, <3>2 DEF Repeatless
    <3> QED
      BY <3>1, <3>3, <3>4 DEF Good
  <2>2. files' \in Nat
    BY <1>1, <1>2
  <2> QED
    BY <1>1, <2>1, <2>2, ReadersStay
<1>8. SentInv'
  <2>1. NoGap'
    BY <1>1, <1>2 DEF SentInv, NoGap, mode, Inodes
  <2>2. Calm /\ tailed = 0 => Ahead(0, <<>>)'
    <3>1. Calm /\ tailed = 0 => Ahead(0, <<>>)
      BY <1>1, <1>2 DEF SentInv, Vanished
    <3> QED
      BY <1>1, <3>1 DEF Ahead, Units
  <2>3. Calm /\ tailed # 0 => Vanished'
    BY <1>2, <1>6 DEF TailInv
  <2> QED
    BY <1>1, <1>2, <1>6, <2>1, <2>2, <2>3 DEF SentInv
<1> QED
  BY <1>3, <1>4, <1>5, <1>7, <1>8 DEF IInv

LEMMA TruncateStep ==
  ASSUME IInv, Truncate, UNCHANGED <<setup, runVars, tail, lib, sent, envVars>>
  PROVE  IInv'
<1>1. /\ path # 0 /\ truncs' = truncs + 1 /\ data' = [data EXCEPT ![path] = <<>>]
      /\ UNCHANGED <<setup, path, files, written>>
      /\ UNCHANGED <<run, found, tailed, tail, lib, sent, room, stopped>>
  BY DEF Truncate, runVars, envVars
<1>2. /\ TypeInv /\ TailInv /\ FileInv /\ GoodInv /\ SentInv /\ files \in Nat /\ truncs \in Nat
  BY Basics DEF IInv
<1>3. truncs' \in Nat /\ truncs' # 0
  BY <1>1, <1>2
<1>4. TypeInv'
  <2>1. data' \in [Inodes -> Text]
    BY <1>1, <1>2, Nothing DEF TypeInv, TypeOK
  <2> QED
    BY <1>1, <1>2, <1>3, <2>1 DEF TypeInv, TypeOK, TailType, LibType, Units, Inodes, Text
<1>5. TailInv'
  BY <1>1, <1>2 DEF TailInv, Off
<1>6. FileInv'
  BY <1>1, <1>2, <1>3 DEF FileInv
<1>7. ~Calm' /\ ~Steady'
  BY <1>3 DEF Calm, Undisturbed, Steady
<1>8. GoodInv'
  <2>1. ASSUME NEW t \in TailType, NEW l \in LibType, Shape(t, l)
        PROVE  Good(t, l)'
    <3>1. Shape(t, l)'
      BY <1>1, <2>1 DEF Shape, mode
    <3> QED
      BY <1>7, <3>1 DEF Good, Reading, Gapless, Repeatless
  <2>2. files' \in Nat
    BY <1>1, <1>2
  <2> QED
    BY <1>1, <2>1, <2>2, ReadersStay
<1>9. SentInv'
  <2>1. NoGap'
    BY <1>3 DEF NoGap
  <2> QED
    BY <1>7, <2>1 DEF SentInv
<1> QED
  BY <1>4, <1>5, <1>6, <1>8, <1>9 DEF IInv

(* Whoever writes adds to the newest file; what is there stays. *)
LEMMA Written ==
  ASSUME TypeInv, FileInv, Write
  PROVE  /\ files # 0 /\ written' \in Nat /\ written' > written /\ written' <= 2 * setup.lines
         /\ data' \in [Inodes -> Text]
         /\ \A i \in Inodes :
              /\ DOMAIN data'[i] = 1 .. Len(data'[i]) /\ Len(data'[i]) \in Nat
              /\ Len(data'[i]) = IF i = files THEN Len(data[i]) + (written' - written) ELSE Len(data[i])
              /\ \A k \in 1 .. Len(data[i]) : data'[i][k] = data[i][k]
              /\ i = files => \A k \in 1 .. Len(data'[i]) :
                                k > Len(data[i]) => data'[i][k] = written + (k - Len(data[i]))
<1>1. PICK upTo \in {written + 1} \cup (IF EndsLine(written) THEN {written + 2} ELSE {}) :
        /\ written' = upTo
        /\ data' = [data EXCEPT ![files] = @ \o [k \in 1 .. upTo - written |-> written + k]]
  BY DEF Write
<1>2. /\ files # 0 /\ written < 2 * setup.lines
      /\ UNCHANGED <<path, files, truncs>>
  BY DEF Write
<1>3. /\ written \in Nat /\ files \in Nat /\ setup.lines \in Nat /\ setup.inodes \in Nat
      /\ setup \in Setups /\ files <= setup.inodes
  BY Basics DEF TypeInv, TypeOK
<1>4. upTo \in Nat /\ upTo > written /\ upTo <= 2 * setup.lines
  <2>1. CASE upTo = written + 1
    BY <1>2, <1>3, <2>1
  <2>2. CASE upTo = written + 2 /\ EndsLine(written)
    BY <1>2, <1>3, <2>2 DEF EndsLine
  <2> QED
    BY <1>1, <2>1, <2>2
<1>5. files \in Inodes
  BY <1>2, <1>3, Numbers
<1>6. PICK d : d = [k \in 1 .. upTo - written |-> written + k]
  OBVIOUS
<1>7. d \in Text /\ Len(d) = upTo - written /\ \A k \in 1 .. upTo - written : d[k] = written + k
  <2>1. upTo - written \in Nat
    BY <1>3, <1>4
  <2>2. \A k \in 1 .. upTo - written : written + k \in Units
    <3>1. \A k \in 1 .. upTo - written : written + k \in 1 .. 2 * setup.lines
      BY <1>3, <1>4
    <3> QED
      BY <1>3, <3>1, Numbers
  <2>3. d \in [1 .. upTo - written -> Units]
    BY <1>6, <2>2
  <2>4. d \in Seq(Units)
    BY <2>1, <2>3
  <2>5. DOMAIN d = 1 .. Len(d) /\ Len(d) \in Nat
    BY <2>4, LenProperties
  <2>6. Len(d) = upTo - written
    BY <2>1, <2>3, <2>5
  <2> QED
    BY <1>6, <2>4, <2>6 DEF Text
<1>8. data \in [Inodes -> Text] /\ \A i \in Inodes : data[i] \in Text
  BY DEF TypeInv, TypeOK
<1>9. /\ data[files] \o d \in Text /\ Len(data[files] \o d) = Len(data[files]) + Len(d)
      /\ \A k \in 1 .. Len(data[files]) + Len(d) :
           (data[files] \o d)[k] = IF k <= Len(data[files]) THEN data[files][k]
                                   ELSE d[k - Len(data[files])]
  BY <1>5, <1>7, <1>8, ConcatProperties DEF Text
<1>10. /\ data' = [data EXCEPT ![files] = data[files] \o d]
       /\ data' \in [Inodes -> Text]
       /\ data'[files] = data[files] \o d
       /\ \A i \in Inodes \ {files} : data'[i] = data[i]
  BY <1>1, <1>5, <1>6, <1>8, <1>9
<1>11. ASSUME NEW i \in Inodes
       PROVE  /\ DOMAIN data'[i] = 1 .. Len(data'[i]) /\ Len(data'[i]) \in Nat
              /\ Len(data'[i]) = IF i = files THEN Len(data[i]) + (written' - written) ELSE Len(data[i])
              /\ \A k \in 1 .. Len(data[i]) : data'[i][k] = data[i][k]
              /\ i = files => \A k \in 1 .. Len(data'[i]) :
                                k > Len(data[i]) => data'[i][k] = written + (k - Len(data[i]))
  <2>1. DOMAIN data'[i] = 1 .. Len(data'[i]) /\ Len(data'[i]) \in Nat /\ Len(data[i]) \in Nat
    BY <1>8, <1>10, Texts
  <2>2. CASE i # files
    BY <1>10, <2>1, <2>2
  <2>3. CASE i = files
    <3>1. Len(data'[i]) = Len(data[i]) + (upTo - written)
      BY <1>7, <1>9, <1>10, <2>3
    <3>2. ASSUME NEW k \in 1 .. Len(data[i])
          PROVE  data'[i][k] = data[i][k]
      <4>1. k \in 1 .. Len(data[i]) + Len(d) /\ k <= Len(data[i])
        BY <1>3, <1>4, <1>7, <2>1
      <4> QED
        BY <1>9, <1>10, <2>3, <4>1
    <3>3. ASSUME NEW k \in 1 .. Len(data'[i]), k > Len(data[i])
          PROVE  data'[i][k] = written + (k - Len(data[i]))
      <4>1. k \in 1 .. Len(data[i]) + Len(d) /\ ~(k <= Len(data[i]))
            /\ k - Len(data[i]) \in 1 .. upTo - written
        BY <1>3, <1>4, <1>7, <2>1, <3>1, <3>3
      <4>2. data'[i][k] = d[k - Len(data[i])]
        BY <1>9, <1>10, <2>3, <4>1
      <4> QED
        BY <1>7, <4>1, <4>2
    <3> QED
      BY <1>1, <2>1, <2>3, <3>1, <3>2, <3>3
  <2> QED
    BY <2>2, <2>3
<1> QED
  BY <1>1, <1>2, <1>4, <1>10, <1>11

LEMMA WriteStep ==
  ASSUME IInv, Write, UNCHANGED <<setup, runVars, tail, lib, sent, envVars>>
  PROVE  IInv'
<1>1. /\ UNCHANGED <<setup, path, files, truncs>>
      /\ UNCHANGED <<run, found, tailed, tail, lib, sent, room, stopped>>
  BY DEF Write, runVars, envVars
<1>2. /\ TypeInv /\ TailInv /\ FileInv /\ GoodInv /\ SentInv /\ files \in Nat /\ written \in Nat
      /\ truncs \in Nat /\ setup.lines \in Nat
  BY Basics DEF IInv
<1>w. PICK w : w = written'
  OBVIOUS
<1>d. PICK d : d = data'
  OBVIOUS
<1>3. /\ files # 0 /\ w \in Nat /\ w > written /\ w <= 2 * setup.lines
      /\ d \in [Inodes -> Text]
      /\ \A i \in Inodes :
           /\ DOMAIN d[i] = 1 .. Len(d[i]) /\ Len(d[i]) \in Nat
           /\ Len(d[i]) = IF i = files THEN Len(data[i]) + (w - written) ELSE Len(data[i])
           /\ \A k \in 1 .. Len(data[i]) : d[i][k] = data[i][k]
           /\ i = files => \A k \in 1 .. Len(d[i]) :
                             k > Len(data[i]) => d[i][k] = written + (k - Len(data[i]))
  BY <1>2, <1>w, <1>d, Written
<1>n. written \in Nat /\ w \in Nat /\ w > written /\ w - written \in Nat
  <2>1. written \in Nat /\ w \in Nat /\ w > written
    BY <1>2, <1>3
  <2> QED
    BY <2>1
<1>4. \A i \in Inodes : /\ Len(data[i]) \in Nat /\ DOMAIN data[i] = 1 .. Len(data[i])
                        /\ Len(data[i]) <= Len(d[i])
                        /\ DOMAIN data[i] \subseteq DOMAIN d[i]
                        /\ \A k \in DOMAIN data[i] : d[i][k] = data[i][k]
  <2>1. \A i \in Inodes : Len(data[i]) \in Nat /\ DOMAIN data[i] = 1 .. Len(data[i])
    BY <1>2, Basics, Texts
  <2>2. ASSUME NEW i \in Inodes
        PROVE  Len(data[i]) <= Len(d[i])
    <3>1. Len(d[i]) = Len(data[i]) + (w - written) \/ Len(d[i]) = Len(data[i])
      BY <1>3
    <3>2. Len(data[i]) \in Nat
      BY <2>1
    <3> QED
      BY <1>n, <3>1, <3>2
  <2> QED
    BY <1>3, <2>1, <2>2
<1>r. \A a, b, x : a \in Nat /\ b \in Nat /\ a > b /\ x = written + (a - b) => x > written
  BY <1>n
(* A unit is an old one in its place, or a new one in the newest file. *)
<1>5. \A i \in Inodes : \A k \in DOMAIN d[i] :
        \/ k \in DOMAIN data[i] /\ d[i][k] = data[i][k]
        \/ i = files /\ k > Len(data[i]) /\ d[i][k] = written + (k - Len(data[i]))
           /\ k - Len(data[i]) <= w - written
  <2> SUFFICES ASSUME NEW i \in Inodes, NEW k \in DOMAIN d[i]
               PROVE  \/ k \in DOMAIN data[i] /\ d[i][k] = data[i][k]
                      \/ i = files /\ k > Len(data[i]) /\ d[i][k] = written + (k - Len(data[i]))
                         /\ k - Len(data[i]) <= w - written
    OBVIOUS
  <2>1. k \in Nat \ {0} /\ k <= Len(d[i]) /\ k \in 1 .. Len(d[i])
    BY <1>3
  <2>2. Len(data[i]) \in Nat /\ DOMAIN data[i] = 1 .. Len(data[i])
    BY <1>4
  <2>3. CASE k <= Len(data[i])
    <3>1. k \in 1 .. Len(data[i])
      BY <2>1, <2>2, <2>3
    <3> QED
      BY <1>4, <2>2, <3>1
  <2>4. CASE k > Len(data[i])
    <3>1. i = files
      BY <1>3, <2>1, <2>2, <2>4
    <3>2. d[i][k] = written + (k - Len(data[i])) /\ Len(d[i]) = Len(data[i]) + (w - written)
      BY <1>3, <2>1, <2>4, <3>1
    <3>3. k - Len(data[i]) <= w - written
      BY <1>n, <2>1, <2>2, <3>2
    <3> QED
      BY <2>4, <3>1, <3>2, <3>3
  <2> QED
    BY <2>1, <2>2, <2>3, <2>4
<1>6. Inodes' = Inodes /\ Units' = Units /\ Text' = Text /\ mode' = mode
  BY <1>1 DEF Inodes, Units, Text, mode
<1>7. (Calm' => Calm) /\ (Steady' <=> Steady) /\ (Vanished' <=> Vanished)
  <2>1. Calm' => Calm
    <3>1. long \in Nat /\ long' = long
      BY <1>1, <1>2, Basics DEF long
    <3> QED
      BY <1>1, <1>2, <1>3, <1>w, <3>1 DEF Calm, Undisturbed
  <2> QED
    BY <1>1, <1>6, <2>1 DEF Steady, Vanished
<1>8. TypeInv'
  <2>1. written' \in 0 .. 2 * setup.lines
    BY <1>2, <1>3, <1>w
  <2>2. TailType' = TailType /\ LibType' = LibType
    BY DEF TailType, LibType, Inodes, Units, Text
  <2> QED
    BY <1>1, <1>2, <1>3, <1>6, <1>d, <2>1, <2>2 DEF TypeInv, TypeOK
<1>9. TailInv'
  BY <1>1, <1>2 DEF TailInv, Off
<1>10. FileInv'
  <2>1. path' <= files' /\ files' # 0
    BY <1>1, <1>2, <1>3 DEF FileInv
  <2>2. ASSUME truncs = 0
        PROVE  /\ \A i \in Inodes : \A k \in DOMAIN d[i] : i <= files /\ d[i][k] <= w
               /\ \A i, j \in Inodes : \A k \in DOMAIN d[i], m \in DOMAIN d[j] :
                    d[i][k] = d[j][m] => i = j /\ k = m
               /\ files = 1 => Len(d[1]) = w /\ \A k \in DOMAIN d[1] : d[1][k] = k
    <3>1. /\ \A i \in Inodes : \A k \in DOMAIN data[i] : i <= files /\ data[i][k] <= written
          /\ \A i, j \in Inodes : \A k \in DOMAIN data[i], m \in DOMAIN data[j] :
               data[i][k] = data[j][m] => i = j /\ k = m
          /\ files = 1 => Len(data[1]) = written /\ \A k \in DOMAIN data[1] : data[1][k] = k
      BY <1>2, <2>2 DEF FileInv
    <3>2. \A i \in Inodes : \A k \in DOMAIN data[i] : k \in Nat /\ data[i][k] \in Nat
      <4>1. \A i \in Inodes : \A k \in DOMAIN data[i] : data[i][k] \in Units
        BY <1>2, Basics, Texts
      <4>2. \A i \in Inodes : DOMAIN data[i] \subseteq Nat
        BY <1>4
      <4> QED
        BY <4>1, <4>2, Numbers
    <3>3. ASSUME NEW i \in Inodes, NEW k \in DOMAIN d[i]
          PROVE  i <= files /\ d[i][k] <= w /\ d[i][k] \in Nat
      <4>1. CASE k \in DOMAIN data[i] /\ d[i][k] = data[i][k]
        <5>1. i <= files /\ data[i][k] <= written /\ data[i][k] \in Nat
          BY <3>1, <3>2, <4>1
        <5> QED
          BY <1>n, <4>1, <5>1
      <4>2. CASE i = files /\ k > Len(data[i]) /\ d[i][k] = written + (k - Len(data[i]))
                 /\ k - Len(data[i]) <= w - written
        <5>1. k \in Nat /\ Len(data[i]) \in Nat
          BY <1>3, <1>4
        <5>2. files <= files
          BY <1>2
        <5> QED
          BY <1>n, <4>2, <5>1, <5>2
      <4> QED
        BY <1>5, <4>1, <4>2
    <3>4. ASSUME NEW i \in Inodes, NEW j \in Inodes, NEW k \in DOMAIN d[i], NEW m \in DOMAIN d[j],
                 d[i][k] = d[j][m]
          PROVE  i = j /\ k = m
      <4>1. k \in Nat /\ m \in Nat /\ Len(data[i]) \in Nat /\ Len(data[j]) \in Nat
        BY <1>3, <1>4
      <4>2. CASE k \in DOMAIN data[i] /\ d[i][k] = data[i][k]
        <5>1. data[i][k] <= written /\ data[i][k] \in Nat
          BY <3>1, <3>2, <4>2
        <5>2. CASE m \in DOMAIN data[j] /\ d[j][m] = data[j][m]
          <6>1. data[i][k] = data[j][m] /\ k \in DOMAIN data[i] /\ m \in DOMAIN data[j]
            BY <3>4, <4>2, <5>2
          <6> QED
            BY <3>1, <6>1
        <5>3. CASE m > Len(data[j]) /\ d[j][m] = written + (m - Len(data[j]))
          <6>1. d[j][m] > written
            BY <1>r, <4>1, <5>3
          <6> QED
            BY <1>n, <3>4, <4>2, <5>1, <6>1
        <5> QED
          BY <1>5, <5>2, <5>3
      <4>3. CASE i = files /\ k > Len(data[i]) /\ d[i][k] = written + (k - Len(data[i]))
        <5>1. d[i][k] > written
          BY <1>n, <4>1, <4>3
        <5>2. CASE m \in DOMAIN data[j] /\ d[j][m] = data[j][m]
          <6>1. data[j][m] <= written /\ data[j][m] \in Nat
            BY <3>1, <3>2, <5>2
          <6> QED
            BY <1>n, <3>4, <5>1, <5>2, <6>1
        <5>3. CASE j = files /\ m > Len(data[j]) /\ d[j][m] = written + (m - Len(data[j]))
          BY <1>n, <3>4, <4>1, <4>3, <5>3
        <5> QED
          BY <1>5, <5>2, <5>3
      <4> QED
        BY <1>5, <4>2, <4>3
    <3>5. ASSUME files = 1
          PROVE  Len(d[1]) = w /\ \A k \in DOMAIN d[1] : d[1][k] = k
      <4>1. 1 \in Inodes
        <5>1. files \in 0 .. setup.inodes /\ setup \in Setups
          BY <1>2 DEF TypeInv, TypeOK
        <5>2. setup.inodes \in Nat
          BY <5>1, Numbers
        <5>3. 1 \in 1 .. setup.inodes
          BY <3>5, <5>1, <5>2
        <5> QED
          BY <5>1, <5>3, Numbers
      <4>2. Len(data[1]) = written /\ \A k \in DOMAIN data[1] : data[1][k] = k
        BY <3>1, <3>5
      <4>3. Len(d[1]) = w
        <5>1. Len(d[1]) = Len(data[1]) + (w - written)
          BY <1>3, <3>5, <4>1
        <5> QED
          BY <1>n, <4>2, <5>1
      <4>4. \A k \in DOMAIN d[1] : k \in Nat
        BY <1>3, <4>1
      <4>5. \A k \in DOMAIN d[1] : k > written => written + (k - written) = k
        BY <1>n, <4>4
      <4> QED
        BY <1>5, <4>1, <4>2, <4>3, <4>5
    <3> QED
      BY <3>3, <3>4, <3>5
  <2> QED
    BY <1>1, <1>6, <1>w, <1>d, <2>1, <2>2 DEF FileInv
<1>11. GoodInv'
  <2>1. \A s, i, a : i \in Inodes /\ Piece(s, i, a) => Piece(s, i, a)'
    BY <1>4, <1>d DEF Piece
  <2>2. \A s, n : Ahead(n, s)' <=> Ahead(n, s)
    BY <1>1, <1>6 DEF Ahead
  <2>3. ASSUME NEW i \in Inodes, NEW n \in Int, NEW s, Covered(i, n, s), n <= Len(data[i])
        PROVE  Covered(i, n, s)'
    <3>1. ASSUME NEW k \in DOMAIN d[i], k <= n
          PROVE  k \in DOMAIN data[i] /\ d[i][k] = data[i][k]
      <4>1. k \in Nat /\ Len(data[i]) \in Nat
        BY <1>3, <1>4
      <4> QED
        BY <1>5, <2>3, <3>1, <4>1
    <3> QED
      BY <1>1, <1>d, <2>3, <3>1 DEF Covered
  <2>4. ASSUME NEW t \in TailType, NEW l \in LibType, Shape(t, l), t.pc # "off", tailed # 0, files # 0,
               Reading(t, l), Gapless(t, l), Repeatless(t, l)
        PROVE  Good(t, l)'
    <3>1. /\ t.fd \in Inodes \cup {0} /\ l.fd \in Inodes \cup {0} /\ 0 \notin Inodes
          /\ t.off \in Nat /\ Len(t.buf) \in Nat /\ l.pos \in Nat /\ Len(l.text) \in Nat
      BY Numbers, Texts DEF TailType, LibType
    <3>2. Shape(t, l)'
      BY <1>1, <1>6, <2>4 DEF Shape
    <3>3. \A i \in Inodes : Size(i) <= Size(i)' /\ Size(i) = Len(data[i]) /\ Size(i) \in Nat
                            /\ Size(i)' \in Nat
      BY <1>3, <1>4, <1>d, Numbers DEF Size
    <3>4. Reading(t, l)'
      <4> SUFFICES ASSUME Steady' \/ Calm'
                   PROVE  /\ t.fd # 0 => /\ t.off <= Size(t.fd)' /\ Len(t.buf) <= t.off
                                         /\ Piece(t.buf, t.fd, t.off - Len(t.buf))'
                          /\ l.fd # 0 => /\ l.pos <= Size(l.fd)' /\ Len(l.text) <= l.pos
                                         /\ Piece(l.text, l.fd, l.pos - Len(l.text))'
        BY DEF Reading
      <4>1. ASSUME t.fd # 0
            PROVE  /\ t.off <= Size(t.fd)' /\ Len(t.buf) <= t.off
                   /\ Piece(t.buf, t.fd, t.off - Len(t.buf))'
        <5>1. /\ t.off <= Size(t.fd) /\ Len(t.buf) <= t.off
              /\ Piece(t.buf, t.fd, t.off - Len(t.buf)) /\ t.fd \in Inodes
          BY <1>7, <2>4, <3>1, <4>1 DEF Reading
        <5>2. Piece(t.buf, t.fd, t.off - Len(t.buf))'
          BY <2>1, <5>1
        <5>3. Size(t.fd) <= Size(t.fd)' /\ Size(t.fd) \in Nat /\ Size(t.fd)' \in Nat
          BY <3>3, <5>1
        <5> QED
          BY <3>1, <5>1, <5>2, <5>3
      <4>2. ASSUME l.fd # 0
            PROVE  /\ l.pos <= Size(l.fd)' /\ Len(l.text) <= l.pos
                   /\ Piece(l.text, l.fd, l.pos - Len(l.text))'
        <5>1. /\ l.pos <= Size(l.fd) /\ Len(l.text) <= l.pos
              /\ Piece(l.text, l.fd, l.pos - Len(l.text)) /\ l.fd \in Inodes
          BY <1>7, <2>4, <3>1, <4>2 DEF Reading
        <5>2. Piece(l.text, l.fd, l.pos - Len(l.text))'
          BY <2>1, <5>1
        <5>3. Size(l.fd) <= Size(l.fd)' /\ Size(l.fd) \in Nat /\ Size(l.fd)' \in Nat
          BY <3>3, <5>1
        <5> QED
          BY <3>1, <5>1, <5>2, <5>3
      <4> QED
        BY <4>1, <4>2
    <3>5. Gapless(t, l)'
      <4> SUFFICES ASSUME Steady
                   PROVE  /\ t.text # <<>> => \E i \in Inodes : \E a \in 0 .. Len(d[i]) :
                                                Piece(t.text, i, a)' /\ Covered(i, a, <<>>)'
                          /\ t.fd # 0 => Covered(t.fd, t.off - Len(t.buf), t.text)'
                          /\ l.fd # 0 /\ t.pc # "stop" => Covered(l.fd, l.pos - Len(l.text), t.text)'
        BY <1>6, <1>7, <1>d DEF Gapless
      <4>1. ASSUME t.text # <<>>
            PROVE  \E i \in Inodes : \E a \in 0 .. Len(d[i]) :
                     Piece(t.text, i, a)' /\ Covered(i, a, <<>>)'
        <5>1. PICK i \in Inodes : \E a \in 0 .. Len(data[i]) : Piece(t.text, i, a) /\ Covered(i, a, <<>>)
          BY <2>4, <4>1 DEF Gapless
        <5>2. PICK a \in 0 .. Len(data[i]) : Piece(t.text, i, a) /\ Covered(i, a, <<>>)
          BY <5>1
        <5>3. a \in Int /\ a <= Len(data[i]) /\ a \in 0 .. Len(d[i])
          BY <1>3, <1>4, <5>2
        <5>4. Piece(t.text, i, a)' /\ Covered(i, a, <<>>)'
          BY <2>1, <2>3, <5>2, <5>3
        <5> QED
          BY <5>3, <5>4
      <4>2. ASSUME t.fd # 0
            PROVE  Covered(t.fd, t.off - Len(t.buf), t.text)'
        <5>1. t.fd \in Inodes /\ t.off <= Size(t.fd) /\ Covered(t.fd, t.off - Len(t.buf), t.text)
          BY <2>4, <3>1, <4>2 DEF Reading, Gapless
        <5>2. Size(t.fd) = Len(data[t.fd]) /\ Size(t.fd) \in Nat
          BY <3>3, <5>1
        <5>3. t.off - Len(t.buf) <= Len(data[t.fd]) /\ t.off - Len(t.buf) \in Int
          BY <3>1, <5>1, <5>2
        <5> QED
          BY <2>3, <5>1, <5>3
      <4>3. ASSUME l.fd # 0, t.pc # "stop"
            PROVE  Covered(l.fd, l.pos - Len(l.text), t.text)'
        <5>1. l.fd \in Inodes /\ l.pos <= Size(l.fd) /\ Covered(l.fd, l.pos - Len(l.text), t.text)
          BY <2>4, <3>1, <4>3 DEF Reading, Gapless
        <5>2. Size(l.fd) = Len(data[l.fd]) /\ Size(l.fd) \in Nat
          BY <3>3, <5>1
        <5>3. l.pos - Len(l.text) <= Len(data[l.fd]) /\ l.pos - Len(l.text) \in Int
          BY <3>1, <5>1, <5>2
        <5> QED
          BY <2>3, <5>1, <5>3
      <4> QED
        BY <4>1, <4>2, <4>3
    <3>6. Repeatless(t, l)'
      <4> SUFFICES ASSUME Calm'
                   PROVE  /\ t.text # <<>> => \E a \in 0 .. Len(d[1]) : Piece(t.text, 1, a)' /\ Ahead(a, <<>>)
                          /\ t.fd # 0 => Ahead(t.off - Len(t.buf), t.text)
                          /\ l.fd # 0 /\ t.pc # "stop" => Ahead(l.pos - Len(l.text), t.text)
                          /\ ~Vanished => Standing(t, l)'
        BY <1>7, <1>d, <2>2 DEF Repeatless
      <4>1. Calm /\ 1 \in Inodes
        BY <1>2, <1>7, <2>4, OneFile
      <4>2. ASSUME t.text # <<>>
            PROVE  \E a \in 0 .. Len(d[1]) : Piece(t.text, 1, a)' /\ Ahead(a, <<>>)
        <5>1. PICK a \in 0 .. Len(data[1]) : Piece(t.text, 1, a) /\ Ahead(a, <<>>)
          BY <2>4, <4>1, <4>2 DEF Repeatless
        <5>2. a \in 0 .. Len(d[1])
          BY <1>3, <1>4, <4>1, <5>1
        <5> QED
          BY <2>1, <4>1, <5>1, <5>2
      <4>3. ASSUME ~Vanished
            PROVE  Standing(t, l)'
        <5>1. Standing(t, l)
          BY <2>4, <4>1, <4>3 DEF Repeatless
        <5>2. t.lastSize <= w /\ t.lastSize \in Nat
          <6>1. t.lastSize \in Nat /\ t.lastSize <= written
            BY <5>1 DEF Standing, TailType
          <6> QED
            BY <1>2, <1>3, <6>1
        <5> QED
          BY <1>6, <1>w, <2>1, <2>2, <4>1, <5>1, <5>2 DEF Standing
      <4> QED
        BY <2>4, <4>1, <4>2, <4>3 DEF Repeatless
    <3> QED
      BY <3>2, <3>4, <3>5, <3>6 DEF Good
  <2>5. files' \in Nat
    BY <1>1, <1>2
  <2> QED
    BY <1>1, <2>4, <2>5, ReadersStay
<1>12. SentInv'
  <2>1. Steady \/ Calm => \A u \in Units : sent[u] > 0 => u <= written
    BY <1>2 DEF SentInv
  <2>2. NoGap'
    <3> SUFFICES ASSUME Steady, NEW i \in Inodes, NEW j \in DOMAIN d[i], NEW k \in DOMAIN d[i],
                        j < k, sent[d[i][k]] > 0
                 PROVE  sent[d[i][j]] > 0
      BY <1>1, <1>6, <1>7, <1>d DEF NoGap, Steady
    <3>1. j \in Nat /\ k \in Nat /\ Len(data[i]) \in Nat /\ DOMAIN data[i] = 1 .. Len(data[i])
          /\ j \in 1 .. Len(d[i])
      BY <1>3, <1>4
    <3>2. k \in DOMAIN data[i] /\ d[i][k] = data[i][k]
      <4> SUFFICES ASSUME k > Len(data[i]), d[i][k] = written + (k - Len(data[i]))
                   PROVE  FALSE
        BY <1>5, <3>1
      <4>1. d[i][k] > written
        BY <1>r, <3>1
      <4>2. d[i][k] \in Units /\ d[i][k] \in Nat
        BY <1>3, Texts, Numbers
      <4> QED
        BY <1>n, <2>1, <4>1, <4>2
    <3>3. j \in DOMAIN data[i] /\ d[i][j] = data[i][j]
      <4>1. j \in DOMAIN data[i]
        BY <3>1, <3>2
      <4> QED
        BY <1>4, <4>1
    <3> QED
      BY <1>2, <3>2, <3>3 DEF SentInv, NoGap, Steady
  <2>3. Steady \/ Calm => \A u \in Units : sent[u] > 0 => u <= w
    <3>1. \A u \in Units : u \in Nat
      BY Numbers
    <3> QED
      BY <1>2, <1>3, <2>1, <3>1
  <2>4. Ahead(0, <<>>)' <=> Ahead(0, <<>>)
    BY <1>1, <1>6 DEF Ahead
  <2> QED
    BY <1>1, <1>2, <1>6, <1>7, <1>w, <2>2, <2>3, <2>4 DEF SentInv
<1> QED
  BY <1>8, <1>9, <1>10, <1>11, <1>12 DEF IInv

-----------------------------------------------------------------------------
(***************************************************************************)
(* Run scans, is told to stop, and closes its channel.                      *)
(***************************************************************************)

(* Files and goroutines stay as they are. *)
LEMMA RunMoves ==
  ASSUME IInv, UNCHANGED <<setup, path, files, data, written, truncs>>,
         UNCHANGED <<tailed, tail, lib, sent, stopped>>,
         run' \in {"discover", "reap", "idle", "wait", "closed"}, found' \in BOOLEAN, room' \in BOOLEAN,
         tailed # 0 => run' # "closed", found' => files > 0,
         Calm /\ run' = "reap" /\ ~found' /\ tailed # 0 => Vanished
  PROVE  IInv'
<1>1. TypeInv /\ TailInv /\ FileInv /\ GoodInv /\ SentInv
  BY DEF IInv
<1>2. Units' = Units /\ Inodes' = Inodes /\ TailType' = TailType /\ LibType' = LibType /\ Text' = Text
  BY DEF Units, Inodes, TailType, LibType, Text
<1>3. TypeInv'
  BY <1>1, <1>2 DEF TypeInv, TypeOK
<1>4. TailInv'
  BY <1>1 DEF TailInv, Off
<1>5. FileInv'
  BY <1>1, <1>2 DEF FileInv
<1>6. GoodInv'
  <2>1. ASSUME NEW h \in Tails
        PROVE  Good(tail[h], lib[h])'
    <3>1. tail'[h] = tail[h] /\ lib'[h] = lib[h] /\ Good(tail[h], lib[h])
      BY <1>1 DEF GoodInv
    <3> QED
      BY <3>1, GoodStays DEF fileVars
  <2> QED
    BY <2>1 DEF GoodInv
<1>7. SentInv'
  <2>1. /\ Calm' <=> Calm
        /\ Steady' <=> Steady
        /\ Vanished' <=> Vanished
        /\ Ahead(0, <<>>)' <=> Ahead(0, <<>>)
        /\ NoGap' <=> NoGap
    BY DEF Calm, Steady, Vanished, Undisturbed, Ahead, NoGap, mode, long, Units, Inodes
  <2> QED
    BY <1>1, <1>2, <2>1 DEF SentInv
<1> QED
  BY <1>3, <1>4, <1>5, <1>6, <1>7 DEF IInv

LEMMA RunStep ==
  ASSUME IInv, Discover \/ Rescan \/ StopScanning \/ CloseOut \/ ConsumerStops \/ UNCHANGED vars
  PROVE  IInv'
<1>1. TypeInv /\ TailInv /\ FileInv /\ SentInv /\ files \in Nat /\ path \in Nat
  BY Basics DEF IInv
<1>2. /\ run \in {"discover", "reap", "idle", "wait", "closed"} /\ found \in BOOLEAN
      /\ room \in BOOLEAN /\ tailed \in Tails \cup {0}
  BY <1>1 DEF TypeInv, TypeOK
<1>3. CASE Discover
  <2>1. /\ run' = "reap" /\ found' = (path # 0) /\ room' = room
        /\ UNCHANGED <<setup, path, files, data, written, truncs>>
        /\ UNCHANGED <<tailed, tail, lib, sent, stopped>>
    BY <1>3 DEF Discover, Then, fileVars, envVars
  <2>2. found' => files > 0
    <3>1. path # 0 => files > 0
      BY <1>1 DEF FileInv
    <3>2. found' => path # 0
      BY <2>1
    <3> QED
      BY <3>1, <3>2
  <2>3. ASSUME Calm, path = 0, tailed # 0
        PROVE  Vanished
    <3>1. files <= 1 /\ files > 0
      BY <1>1, <2>3 DEF Calm, TailInv
    <3> QED
      BY <1>1, <2>3, <3>1 DEF Vanished
  <2> QED
    BY <1>2, <2>1, <2>2, <2>3, RunMoves
<1>4. CASE Rescan \/ StopScanning
  <2>1. /\ run' \in {"discover", "wait"} /\ found' = found /\ room' = room
        /\ UNCHANGED <<setup, path, files, data, written, truncs>>
        /\ UNCHANGED <<tailed, tail, lib, sent, stopped>>
    BY <1>4 DEF Rescan, StopScanning, Then, fileVars, envVars
  <2>2. found' => files > 0
    BY <1>1, <2>1 DEF TailInv
  <2> QED
    BY <1>2, <2>1, <2>2, RunMoves
<1>5. CASE CloseOut
  <2>1. /\ run' = "closed" /\ found' = found /\ room' = room /\ \A g \in Tails : Off(g)
        /\ UNCHANGED <<setup, path, files, data, written, truncs>>
        /\ UNCHANGED <<tailed, tail, lib, sent, stopped>>
    BY <1>5 DEF CloseOut, Then, fileVars, envVars
  <2>2. tailed = 0 /\ (found' => files > 0)
    BY <1>1, <1>2, <2>1 DEF TailInv
  <2> QED
    BY <1>2, <2>1, <2>2, RunMoves
<1>6. CASE ConsumerStops \/ UNCHANGED vars
  <2>1. /\ run' = run /\ found' = found /\ room' \in BOOLEAN
        /\ UNCHANGED <<setup, path, files, data, written, truncs>>
        /\ UNCHANGED <<tailed, tail, lib, sent, stopped>>
    BY <1>2, <1>6 DEF ConsumerStops, vars, fileVars, runVars, envVars
  <2>2. /\ tailed # 0 => run # "closed"
        /\ found => files > 0
        /\ Calm /\ run = "reap" /\ ~found /\ tailed # 0 => Vanished
    BY <1>1 DEF TailInv, SentInv
  <2> QED
    BY <1>2, <2>1, <2>2, RunMoves
<1> QED
  BY <1>3, <1>4, <1>5, <1>6

(* A scan starts the path's goroutine, or tells it to end. *)
LEMMA ScanMoves ==
  ASSUME IInv, NEW g \in Tails, tailed \in {0, g}, files > 0,
         NEW t \in TailType, t.pc # "off", Good(t, lib[g]),
         tail' = [tail EXCEPT ![g] = t], tailed' = g, run' = "idle", found' = FALSE,
         UNCHANGED <<setup, fileVars, lib, sent, envVars>>
  PROVE  IInv'
<1>1. TypeInv /\ TailInv /\ FileInv /\ GoodInv /\ SentInv /\ files \in Nat
  BY Basics DEF IInv
<1>2. /\ UNCHANGED <<setup, path, files, data, written, truncs>>
      /\ UNCHANGED <<lib, sent, room, stopped>>
  BY DEF fileVars, envVars
<1>3. tail \in [Tails -> TailType] /\ g # 0
  BY <1>1, Basics DEF TypeInv, TypeOK
<1>4. /\ tail' \in [Tails -> TailType] /\ tail'[g] = t
      /\ \A h \in Tails \ {g} : tail'[h] = tail[h]
  BY <1>3
<1>5. Units' = Units /\ Inodes' = Inodes /\ TailType' = TailType /\ LibType' = LibType /\ Text' = Text
  BY DEF Units, Inodes, TailType, LibType, Text
<1>6. TypeInv'
  BY <1>1, <1>2, <1>4, <1>5 DEF TypeInv, TypeOK
<1>7. TailInv'
  <2>1. \A h \in Tails \ {g} : Off(h)'
    <3>1. \A h \in Tails \ {g} : Off(h)
      BY <1>1, Basics DEF TailInv
    <3> QED
      BY <1>4, <3>1 DEF Off
  <2>2. ~Off(g)'
    BY <1>4 DEF Off
  <2>3. ~Off(tailed)'
    BY <1>4 DEF Off
  <2> QED
    BY <1>1, <1>2, <2>1, <2>2, <2>3 DEF TailInv
<1>8. FileInv'
  BY <1>1, <1>2, <1>5 DEF FileInv
<1>9. GoodInv'
  <2>1. ASSUME NEW h \in Tails
        PROVE  Good(tail[h], lib[h])'
    <3>1. CASE h = g
      <4>1. Good(t, lib[h])'
        <5>1. PICK l : l = lib[g]
          OBVIOUS
        <5>2. Good(t, l)'
          BY <1>2, <5>1, GoodStays DEF fileVars
        <5> QED
          BY <1>2, <3>1, <5>1, <5>2
      <4> QED
        BY <3>1, <1>4, <4>1
    <3>2. CASE h # g
      <4>1. tail'[h] = tail[h] /\ lib'[h] = lib[h] /\ Good(tail[h], lib[h])
        BY <1>1, <1>2, <1>4, <3>2 DEF GoodInv
      <4> QED
        BY <4>1, <1>2, GoodStays DEF fileVars
    <3> QED
      BY <3>1, <3>2
  <2> QED
    BY <2>1 DEF GoodInv
<1>10. SentInv'
  <2>1. /\ Calm' <=> Calm
        /\ Steady' <=> Steady
        /\ NoGap' <=> NoGap
    BY <1>2 DEF Calm, Steady, Undisturbed, NoGap, mode, long, Units, Inodes
  <2> QED
    BY <1>1, <1>2, <1>3, <1>5, <2>1 DEF SentInv
<1> QED
  BY <1>6, <1>7, <1>8, <1>9, <1>10 DEF IInv

LEMMA ReapStep ==
  ASSUME IInv, ReapAndStart
  PROVE  IInv'
<1>1. /\ run = "reap" /\ (IF found THEN StartFile ELSE Reap) /\ run' = "idle" /\ found' = FALSE
      /\ UNCHANGED <<setup, fileVars, lib, sent, envVars>>
  BY DEF ReapAndStart, Then
<1>2. /\ TypeInv /\ TailInv /\ FileInv /\ GoodInv /\ SentInv /\ files \in Nat
      /\ tailed \in Tails \cup {0} /\ room \in BOOLEAN /\ mode \in {"poll", "event", "hybrid"}
  BY Basics DEF IInv, TypeInv, TypeOK
<1>3. tail \in [Tails -> TailType]
  BY <1>2 DEF TypeInv, TypeOK
<1>4. CASE UNCHANGED <<tailed, tail>>
  <2>1. /\ UNCHANGED <<setup, path, files, data, written, truncs>>
        /\ UNCHANGED <<tailed, tail, lib, sent, room, stopped>>
    BY <1>1, <1>4 DEF fileVars, envVars
  <2> QED
    BY <1>1, <1>2, <2>1, RunMoves
<1>5. CASE found /\ tailed = 0
  <2> DEFINE g == Min({x \in Tails : Off(x)})
             t == [NoTail EXCEPT !.pc = IF mode = "hybrid" THEN "begin" ELSE "open"]
             pc == IF mode = "hybrid" THEN "begin" ELSE "open"
  <2>1. \A x \in Tails : Off(x) /\ tail[x] = NoTail /\ lib[x] = NoLib
    <3>1. \A x \in Tails : Off(x)
      BY <1>2, <1>5, Basics DEF TailInv
    <3> QED
      BY <1>2, <3>1 DEF GoodInv, Good, Shape, Off, NoTail
  <2>2. g \in Tails
    <3>1. {x \in Tails : Off(x)} = Tails
      BY <2>1
    <3>2. Tails \in SUBSET Nat /\ Tails # {}
      BY SetupsAssumption
    <3> QED
      BY <3>1, <3>2, LeastOf
  <2>3. tailed' = g /\ tail' = [tail EXCEPT ![tailed'].pc = pc]
    BY <1>1, <1>5 DEF StartFile
  <2> HIDE DEF g, pc
  <2>4. tail' = [tail EXCEPT ![g] = t]
    BY <1>3, <2>1, <2>2, <2>3 DEF pc
  <2>5. /\ t \in TailType /\ t.pc = pc /\ t.pc \in {"begin", "open"} /\ t.fd = 0 /\ t.text = <<>>
        /\ t.orig = 0 /\ t.lastSize = 0 /\ ~t.cancelled
    BY <1>2, Nothing DEF NoTail, TailType, pc
  <2> HIDE DEF t
  <2>6. lib[g] = NoLib /\ NoLib.pc = "off" /\ NoLib.fd = 0 /\ NoLib.pos = 0 /\ NoLib.text = <<>>
    BY <2>1, <2>2 DEF NoLib
  <2>7. Shape(t, lib[g])
    BY <1>2, <2>5, <2>6 DEF Shape, pc
  <2>8. ASSUME Calm, ~Vanished
        PROVE  Standing(t, lib[g])
    <3>1. Ahead(0, <<>>) /\ 0 <= written /\ 0 \in Nat
      <4>1. written \in Nat
        BY <1>2, Basics
      <4> QED
        BY <1>2, <1>5, <2>8, <4>1 DEF SentInv
    <3> QED
      BY <1>2, <2>5, <2>6, <3>1, StandsNowhere
  <2>9. Good(t, lib[g])
    <3>1. Reading(t, lib[g]) /\ Gapless(t, lib[g]) /\ Repeatless(t, lib[g])
      BY <2>5, <2>6, <2>8, EmptyHanded
    <3> QED
      BY <2>7, <3>1 DEF Good
  <2>10. files > 0
    BY <1>2, <1>5 DEF TailInv
  <2> QED
    BY <1>1, <1>5, <2>2, <2>3, <2>4, <2>5, <2>9, <2>10, ScanMoves
<1>6. CASE ~found /\ tailed # 0
  <2> DEFINE t0 == tail[tailed]
             l  == lib[tailed]
             t  == [tail[tailed] EXCEPT !.cancelled = TRUE]
  <2>1. tailed \in Tails /\ files > 0 /\ t0 \in TailType /\ t0.pc # "off" /\ Good(t0, l)
    BY <1>2, <1>6, Basics DEF TailInv, Off, GoodInv
  <2>2. tailed' = tailed /\ tail' = [tail EXCEPT ![tailed].cancelled = TRUE]
    BY <1>1, <1>6 DEF Reap
  <2>3. tail' = [tail EXCEPT ![tailed] = t]
    BY <1>3, <2>1, <2>2
  <2>4. /\ t \in TailType /\ t.pc = t0.pc /\ t.fd = t0.fd /\ t.off = t0.off /\ t.buf = t0.buf
        /\ t.text = t0.text /\ t.orig = t0.orig /\ t.lastSize = t0.lastSize
    BY <2>1 DEF TailType
  <2> HIDE DEF t
  <2>5. Calm => Vanished
    BY <1>1, <1>2, <1>6 DEF SentInv
  <2>6. Shape(t, l)
    BY <2>1, <2>4 DEF Good, Shape
  <2>7. Reading(t, l) /\ Gapless(t, l)
    BY <2>1, <2>4 DEF Good, Reading, Gapless
  <2>8. Repeatless(t, l)
    BY <2>1, <2>4, <2>5 DEF Good, Repeatless
  <2> QED
    BY <1>1, <2>1, <2>2, <2>3, <2>4, <2>6, <2>7, <2>8, ScanMoves DEF Good
<1> QED
  BY <1>1, <1>2, <1>4, <1>5, <1>6 DEF StartFile, Reap

(* Once Run is told to stop a line may come again, but none is passed over. *)
LEMMA CancelStep ==
  ASSUME IInv, Cancel
  PROVE  IInv'
<1>1. /\ stopped' = TRUE
      /\ UNCHANGED <<setup, path, files, data, written, truncs>>
      /\ UNCHANGED <<run, found, tailed, tail, lib, sent, room>>
  BY DEF Cancel, fileVars, runVars
<1>2. TypeInv /\ TailInv /\ FileInv /\ GoodInv /\ SentInv
  BY DEF IInv
<1>3. Units' = Units /\ Inodes' = Inodes /\ TailType' = TailType /\ LibType' = LibType /\ Text' = Text
  BY DEF Units, Inodes, TailType, LibType, Text
<1>4. ~Calm' /\ (Steady' <=> Steady)
  BY <1>1 DEF Calm, Steady, mode
<1>5. TypeInv'
  BY <1>1, <1>2, <1>3 DEF TypeInv, TypeOK
<1>6. TailInv'
  BY <1>1, <1>2 DEF TailInv, Off
<1>7. FileInv'
  BY <1>1, <1>2, <1>3 DEF FileInv
<1>8. GoodInv'
  <2>1. ASSUME NEW t, NEW l, Good(t, l)
        PROVE  Good(t, l)'
    <3>1. \A i, n, s : (Piece(s, i, n)' <=> Piece(s, i, n)) /\ (Covered(i, n, s)' <=> Covered(i, n, s))
      BY <1>1 DEF Piece, Covered
    <3>2. Shape(t, l)'
      BY <1>1, <2>1 DEF Good, Shape, mode
    <3>3. Reading(t, l)' /\ Gapless(t, l)'
      BY <1>1, <1>3, <1>4, <2>1, <3>1 DEF Good, Reading, Gapless, Size
    <3>4. Repeatless(t, l)'
      BY <1>4 DEF Repeatless
    <3> QED
      BY <3>2, <3>3, <3>4 DEF Good
  <2>2. ASSUME NEW h \in Tails
        PROVE  Good(tail[h], lib[h])'
    <3>1. tail'[h] = tail[h] /\ lib'[h] = lib[h] /\ Good(tail[h], lib[h])
      BY <1>1, <1>2 DEF GoodInv
    <3> QED
      BY <2>1, <3>1
  <2> QED
    BY <2>2 DEF GoodInv
<1>9. SentInv'
  <2>1. NoGap' <=> NoGap
    BY <1>1 DEF NoGap, mode, Inodes
  <2> QED
    BY <1>1, <1>2, <1>3, <1>4, <2>1 DEF SentInv
<1> QED
  BY <1>5, <1>6, <1>7, <1>8, <1>9 DEF IInv

-----------------------------------------------------------------------------
(***************************************************************************)
(* The theorems.                                                            *)
(***************************************************************************)

LEMMA Moves ==
  ASSUME IInv, [Next]_vars
  PROVE  IInv'
<1>1. CASE FileStep
  <2>1. UNCHANGED <<setup, runVars, tail, lib, sent, envVars>>
    BY <1>1 DEF FileStep
  <2> QED
    BY <1>1, <2>1, CreateStep, UnlinkStep, WriteStep, TruncateStep DEF FileStep
<1>2. CASE Scanner \/ StopScanning
  BY <1>2, RunStep, ReapStep DEF Scanner
<1>3. ASSUME NEW g \in Tails, Follow(g)
      PROVE  IInv'
  BY <1>3, SendStep, ExitStep, RetryStep, ScanStep, PollStep, HybridBeginStep, LibStartStep,
     SnapshotStep, TakeStep, StopStep, StopDrainStep, StopDoneStep, DrainStep DEF Follow
<1>4. ASSUME NEW g \in Tails,
             Abandon(g) \/ LibOpen(g) \/ LibRead(g) \/ LibModified(g) \/ LibMoved(g) \/ LibDies(g)
      PROVE  IInv'
  BY <1>4, AbandonStep, LibOpenStep, LibReadStep, LibLeavesStep
<1>5. CASE ConsumerStops \/ Cancel
  BY <1>5, RunStep, CancelStep
<1>6. CASE Finished \/ UNCHANGED vars
  BY <1>6, RunStep DEF Finished
<1> QED
  BY <1>1, <1>2, <1>3, <1>4, <1>5, <1>6 DEF Next

LEMMA Invariance == Spec => []IInv
BY Start, Moves, PTL DEF Spec

(* A path has one goroutine, and its entry in tailed is that goroutine's,     *)
(* however scans, cancellations and the goroutine's own clean-up interleave;  *)
(* none is left when the line channel is closed (startFile, reapMissing,      *)
(* Tailer.wg).                                                                *)
THEOREM OneTail == Spec => []OneTailPerPath
<1>1. IInv => OneTailPerPath
  <2> SUFFICES ASSUME IInv
               PROVE  OneTailPerPath
    OBVIOUS
  <2>1. TypeOK /\ TailInv /\ 0 \notin Tails
    BY Basics DEF IInv, TypeInv
  <2> QED
    BY <2>1 DEF OneTailPerPath, TailInv
<1> QED
  BY <1>1, Invariance, PTL

(* In poll and event mode, while nothing is truncated, what was sent of a     *)
(* file is all of it up to some point: no notification that is missed, no     *)
(* line too long for the reader and no file put in place of another makes a   *)
(* reader pass over a line (readFollowFile, tailFileEvent).                   *)
THEOREM NoGapLeft == Spec => []NoGap
<1>1. IInv => NoGap
  BY DEF IInv, SentInv
<1> QED
  BY <1>1, Invariance, PTL

(* No line of a file that is not replaced is sent twice, in any mode, though  *)
(* in hybrid mode the library and the poll reader take turns on it and hand   *)
(* over their position in lastSize (tailFileHybrid, drainByPoll).             *)
THEOREM NoLineComesAgain == Spec => []NoLineAgain
<1>1. IInv => NoLineAgain
  BY DEF IInv, SentInv, Calm, NoLineAgain
<1> QED
  BY <1>1, Invariance, PTL
=============================================================================
