------------------------------- MODULE Tailer -------------------------------
(***************************************************************************)
(* The file tailer (internal/source/tailer/tailer.go) at one path: Run      *)
(* scans for files, cancels the goroutine of a file that is gone and starts *)
(* one for a file it does not know; the goroutine follows the file in one   *)
(* of three modes, two of them on top of the hpcloud/tail library, and      *)
(* sends its lines into one bounded channel.  Meanwhile somebody writes,    *)
(* renames, deletes, re-creates and truncates the file.                     *)
(*                                                                         *)
(* A line is two units, written at once or one after the other; the second  *)
(* one ends it.  Unit k belongs to line (k + 1) \div 2, offsets count units,*)
(* and empty lines, which are skipped, are left out.                        *)
(***************************************************************************)
EXTENDS Integers, Sequences, FiniteSets, FiniteSetsExt

CONSTANTS
  Tails,  (* room for concurrent goroutines, to see that one is enough       *)
  Setups  (* the configurations and bounds to choose from: tailMode, the     *)
          (* line longer than maxLineSize (0: none, as always in hybrid mode,*)
          (* which takes each piece of it for a line with an end and loses   *)
          (* its position: not modelled), and bounds on the lines            *)
          (* written, the files created at the path, the truncations and the *)
          (* library goroutines that die                                     *)

ASSUME SetupsAssumption ==
  /\ Tails \subseteq Nat \ {0} /\ IsFiniteSet(Tails) /\ Tails # {}
  /\ Setups # {} /\ IsFiniteSet(Setups)
  /\ Setups \subseteq [mode: {"poll", "event", "hybrid"}, long: Nat, lines: Nat,
                       inodes: Nat, truncs: Nat, libFaults: Nat]
  /\ \A s \in Setups : s.mode = "hybrid" => s.long = 0

VARIABLES
  setup,     (* the chosen one                                               *)
  path,      (* the inode at the path, 0 when there is no file               *)
  files,     (* inodes created so far: 1 .. files                            *)
  data,      (* the content of each inode                                    *)
  written,   (* the last unit written                                        *)
  truncs,    (* truncations so far                                           *)
  run,       (* Run: "discover", "reap", "idle", "wait", "closed"   *)
  found,     (* discoverFiles returned the path                              *)
  tailed,    (* Tailer.tailed: whose cancel func the path has, 0 for none    *)
  tail,      (* the per-file goroutines                                      *)
  lib,       (* the library handle of each                                   *)
  libFaults, (* library goroutines that died                                 *)
  room,      (* the line channel has room: somebody receives from it         *)
  stopped,   (* the context of Run is cancelled                              *)
  sent,      (* how often each unit was sent, counted up to 2 (history)      *)
  skipped    (* units that hybrid mode found in the file (history)           *)

fileVars == <<path, files, data, written, truncs>>
runVars  == <<run, found, tailed>>
envVars  == <<room, stopped>>
vars     == <<setup, fileVars, runVars, tail, lib, libFaults, sent, envVars, skipped>>

mode   == setup.mode
long   == setup.long
Units  == UNION {1 .. 2 * s.lines : s \in Setups}
Inodes == UNION {1 .. s.inodes : s \in Setups}

EndsLine(u) == u % 2 = 0
(* The first line of a piece of text, and where a piece has line ends. *)
LineEnds(s)  == {n \in DOMAIN s : EndsLine(s[n])}
FirstLine(s) == SubSeq(s, 1, Min(LineEnds(s)))
Rest(s)      == SubSeq(s, Min(LineEnds(s)) + 1, Len(s))
TooLong(s)   == FirstLine(s) = <<2 * long - 1, 2 * long>>

Size(i)        == IF i = 0 THEN 0 ELSE Len(data[i])
From(i, offset) == IF i = 0 THEN <<>> ELSE SubSeq(data[i], offset + 1, Len(data[i]))

(***************************************************************************)
(* The file system.  The writer finishes its line before the file is moved  *)
(* or truncated, and goes on with the newest file, be it still there or not.*)
(***************************************************************************)

Create ==
  /\ path = 0 /\ files < setup.inodes
  /\ EndsLine(written)
  /\ files' = files + 1 /\ path' = files'
  /\ UNCHANGED <<data, written, truncs>>

(* Renamed or deleted: what was at the path lives on while it is open. *)
Unlink ==
  /\ path # 0
  /\ path' = 0
  /\ UNCHANGED <<files, data, written, truncs>>

(* A whole line, half a line, or the other half. *)
Write ==
  /\ files # 0
  /\ written < 2 * setup.lines
  /\ \E upTo \in {written + 1} \cup (IF EndsLine(written) THEN {written + 2} ELSE {}) :
       /\ written' = upTo
       /\ data' = [data EXCEPT ![files] = @ \o [k \in 1 .. upTo - written |-> written + k]]
  /\ UNCHANGED <<path, files, truncs>>

Truncate ==
  /\ path # 0 /\ data[path] # <<>>
  /\ truncs < setup.truncs
  /\ EndsLine(written)
  /\ truncs' = truncs + 1
  /\ data' = [data EXCEPT ![path] = <<>>]
  /\ UNCHANGED <<path, files, written>>

FileStep ==
  /\ Create \/ Unlink \/ Write \/ Truncate
  /\ UNCHANGED <<setup, runVars, tail, lib, libFaults, sent, envVars, skipped>>

(***************************************************************************)
(* Run and scanAndTail.                                                     *)
(***************************************************************************)

NoTail == [pc |-> "off", cancelled |-> FALSE, fd |-> 0, off |-> 0, buf |-> <<>>, eof |-> FALSE,
           text |-> <<>>, orig |-> 0, lastSize |-> 0, stalled |-> FALSE]

NoLib == [pc |-> "off", fd |-> 0, pos |-> 0, text |-> <<>>]

Off(g) == tail[g].pc = "off"

Then(next) ==
  /\ run' = next
  /\ UNCHANGED <<setup, fileVars, lib, libFaults, sent, envVars, skipped>>

Discover ==
  /\ run = "discover"
  /\ found' = (path # 0)
  /\ Then("reap")
  /\ UNCHANGED <<tailed, tail>>

(* Faulty variant: the entry is dropped here, not by the goroutine. *)
FaultyReap ==
  /\ tail' = IF tailed = 0 THEN tail ELSE [tail EXCEPT ![tailed].cancelled = TRUE]
  /\ tailed' = 0

(* reapMissing: the goroutine is told to end, and drops its entry itself. *)
Reap ==
  /\ tail' = IF tailed = 0 THEN tail ELSE [tail EXCEPT ![tailed].cancelled = TRUE]
  /\ UNCHANGED tailed

StartFile ==
  IF tailed = 0
  THEN /\ tailed' = Min({g \in Tails : Off(g)})
       /\ tail' = [tail EXCEPT ![tailed'].pc = IF mode = "hybrid" THEN "begin" ELSE "open"]
  ELSE UNCHANGED <<tailed, tail>>

ReapAndStart ==
  /\ run = "reap"
  /\ IF found THEN StartFile ELSE Reap
  /\ Then("idle")
  /\ found' = FALSE

(* rescanInterval went by, or the context is done. *)
Rescan ==
  /\ run = "idle"
  /\ Then("discover")
  /\ UNCHANGED <<found, tailed, tail>>

StopScanning ==
  /\ run = "idle" /\ stopped
  /\ Then("wait")
  /\ UNCHANGED <<found, tailed, tail>>

(* wg.Wait, then close(out). *)
CloseOut ==
  /\ run = "wait"
  /\ \A g \in Tails : Off(g)
  /\ Then("closed")
  /\ UNCHANGED <<found, tailed, tail>>

(***************************************************************************)
(* A tail goroutine: what the modes have in common.                         *)
(***************************************************************************)

Cancelled(g) == stopped \/ tail[g].cancelled

(* The goroutine goes on as t and changes nothing else, or also its library. *)
Becomes(g, t) ==
  /\ tail' = [tail EXCEPT ![g] = t]
  /\ UNCHANGED <<setup, fileVars, runVars, lib, libFaults, sent, envVars, skipped>>

BecomesWith(g, t, l) ==
  /\ tail' = [tail EXCEPT ![g] = t]
  /\ lib' = [lib EXCEPT ![g] = l]
  /\ UNCHANGED <<setup, fileVars, runVars, libFaults, sent, envVars, skipped>>

Count(n) == IF n < 2 THEN n + 1 ELSE n

(* Faulty variant: the position is not moved on. *)
FaultyForwarded(t) ==
  [t EXCEPT !.text = <<>>,
            !.pc = IF t.fd = 0 THEN "select" ELSE IF t.eof THEN "eof" ELSE "scan"]

(* A line from the library moves lastSize on; text that the goroutine read   *)
(* itself (fd # 0) does not.                                                 *)
Forwarded(t) ==
  [t EXCEPT !.text = <<>>,
            !.pc = IF t.fd = 0 THEN "select" ELSE IF t.eof THEN "eof" ELSE "scan",
            !.lastSize = IF t.fd = 0 /\ mode = "hybrid" THEN @ + Len(t.text) ELSE @]

Send(g) ==
  /\ tail[g].pc = "send"
  /\ room
  /\ sent' = [u \in Units |-> IF u \in Range(tail[g].text) THEN Count(sent[u]) ELSE sent[u]]
  /\ tail' = [tail EXCEPT ![g] = Forwarded(@)]
  /\ UNCHANGED <<setup, fileVars, runVars, lib, libFaults, envVars, skipped>>

(* Faulty variant: the send has no arm for ctx.Done. *)
FaultyWaiting == {"select", "sleep", "retry"}

(* Wherever it waits it has an arm for ctx.Done. *)
Waiting == {"send", "select", "sleep", "retry"}

Abandon(g) ==
  /\ tail[g].pc \in Waiting
  /\ Cancelled(g)
  /\ Becomes(g, [NoTail EXCEPT !.pc = IF lib[g].pc = "off" THEN "exit" ELSE "stop",
                               !.cancelled = tail[g].cancelled])

(* Faulty variant: a goroutine that ends leaves its entry behind. *)
FaultyExit(g) == tail[g].pc = "exit" /\ Becomes(g, NoTail)

(* The deferred clean-up: the path's entry is deleted, then wg.Done. *)
Exit(g) ==
  /\ tail[g].pc = "exit"
  /\ tailed' = 0
  /\ tail' = [tail EXCEPT ![g] = NoTail]
  /\ UNCHANGED <<setup, fileVars, run, found, lib, libFaults, sent, envVars, skipped>>

(* pollInterval went by: try again to open the file. *)
Retry(g) == tail[g].pc = "retry" /\ Becomes(g, [tail[g] EXCEPT !.pc = "open"])

(* The file cannot be opened, or reading it ends with an error. *)
Failed(t) ==
  [NoTail EXCEPT !.pc = "retry", !.cancelled = t.cancelled, !.lastSize = t.lastSize]

(***************************************************************************)
(* bufio.Scanner over the goroutine's own descriptor (readFollowFile,       *)
(* drainByPoll).                                                            *)
(***************************************************************************)

OpenAt(g, offset) ==
  Becomes(g, IF path = 0 THEN Failed(tail[g])
             ELSE [tail[g] EXCEPT !.pc = "scan", !.fd = path, !.off = offset,
                                  !.buf = <<>>, !.eof = FALSE])

(* Scan reads on when its buffer holds no whole line, and at the end of the  *)
(* file returns what is left, finished or not.                               *)
Scan(g) ==
  LET t == tail[g]
  IN  /\ t.pc = "scan"
      /\ \/ /\ LineEnds(t.buf) = {} /\ From(t.fd, t.off) # <<>>
            /\ Becomes(g, [t EXCEPT !.buf = @ \o From(t.fd, t.off), !.off = Size(t.fd)])
         \/ /\ LineEnds(t.buf) # {} /\ TooLong(t.buf)
            /\ Becomes(g, Failed(t))
         \/ /\ LineEnds(t.buf) # {} /\ ~TooLong(t.buf)
            /\ Becomes(g, [t EXCEPT !.pc = "send", !.text = FirstLine(t.buf), !.buf = Rest(t.buf)])
         \/ /\ LineEnds(t.buf) = {} /\ From(t.fd, t.off) = <<>>
            /\ Becomes(g, IF t.buf = <<>> THEN [t EXCEPT !.pc = "eof"]
                          ELSE [t EXCEPT !.pc = "send", !.text = t.buf, !.buf = <<>>, !.eof = TRUE])

(***************************************************************************)
(* Poll mode.                                                               *)
(***************************************************************************)

PollOpen(g) == mode = "poll" /\ tail[g].pc = "open" /\ OpenAt(g, 0)

(* At the end of the file: is it still the one at the path? *)
PollEOF(g) ==
  /\ mode = "poll" /\ tail[g].pc = "eof"
  /\ Becomes(g, IF path = tail[g].fd THEN [tail[g] EXCEPT !.pc = "sleep"] ELSE Failed(tail[g]))

(* Faulty variant: the next scanner starts at the end of the file. *)
FaultyResumed(t) == Size(t.fd)

(* Where the next scanner starts: at 0 if the file shrank. *)
Resumed(t) == IF Size(t.fd) < t.off THEN 0 ELSE t.off

PollWake(g) ==
  /\ tail[g].pc = "sleep"
  /\ Becomes(g, [tail[g] EXCEPT !.pc = "scan", !.off = Resumed(tail[g]), !.eof = FALSE])

(***************************************************************************)
(* The library, as it is used: it opens the file, or waits for one, reads   *)
(* whole lines, waits for a notification at the end of the file, and starts *)
(* over with the file at the path when its own was moved or truncated.  Any *)
(* notification may be missed.                                              *)
(***************************************************************************)

LibBecomes(g, l) ==
  /\ lib' = [lib EXCEPT ![g] = l]
  /\ UNCHANGED <<setup, fileVars, runVars, tail, sent, envVars, skipped>>

(* It sends a line that is too long in pieces. *)
NextText(s) == IF TooLong(s) THEN SubSeq(s, 1, 1) ELSE FirstLine(s)

LibOpen(g) ==
  /\ lib[g].pc = "open" /\ path # 0
  /\ LibBecomes(g, [lib[g] EXCEPT !.pc = "read", !.fd = path])
  /\ UNCHANGED libFaults

LibRead(g) ==
  LET l    == lib[g]
      text == From(l.fd, l.pos)
  IN  /\ l.pc = "read"
      /\ IF LineEnds(text) = {} THEN LibBecomes(g, [l EXCEPT !.pc = "wait"])
         ELSE LibBecomes(g, [l EXCEPT !.pc = "send", !.text = NextText(text),
                                      !.pos = @ + Len(NextText(text))])
      /\ UNCHANGED libFaults

LibModified(g) ==
  /\ lib[g].pc = "wait" /\ Size(lib[g].fd) > lib[g].pos
  /\ LibBecomes(g, [lib[g] EXCEPT !.pc = "read"])
  /\ UNCHANGED libFaults

LibMoved(g) ==
  /\ lib[g].pc = "wait"
  /\ path # lib[g].fd \/ Size(lib[g].fd) < lib[g].pos
  /\ LibBecomes(g, [NoLib EXCEPT !.pc = "open"])
  /\ UNCHANGED libFaults

(* It gives up and closes its channel: the file cannot be opened. *)
LibDies(g) ==
  /\ lib[g].pc = "open"
  /\ libFaults < setup.libFaults
  /\ libFaults' = libFaults + 1
  /\ LibBecomes(g, [NoLib EXCEPT !.pc = "dead"])

(***************************************************************************)
(* Event and hybrid mode.                                                   *)
(***************************************************************************)

(* Hybrid mode starts at the size the file has. *)
HybridBegin(g) ==
  /\ tail[g].pc = "begin"
  /\ tail' = [tail EXCEPT ![g].pc = "open", ![g].lastSize = Size(path)]
  /\ skipped' = skipped \cup Range(From(path, 0))
  /\ UNCHANGED <<setup, fileVars, runVars, lib, libFaults, sent, envVars>>

(* tail.TailFile at lastSize, which stays 0 in event mode ... *)
LibStart(g) ==
  /\ mode # "poll" /\ tail[g].pc = "open"
  /\ BecomesWith(g, [tail[g] EXCEPT !.pc = "snapshot"],
                    [NoLib EXCEPT !.pc = "open", !.pos = tail[g].lastSize])

(* ... and only then os.Stat, to know the file again. *)
Snapshot(g) ==
  /\ tail[g].pc = "snapshot"
  /\ Becomes(g, [tail[g] EXCEPT !.pc = "select", !.orig = path])

Take(g) ==
  /\ tail[g].pc = "select" /\ lib[g].pc = "send"
  /\ BecomesWith(g, [tail[g] EXCEPT !.pc = "send", !.text = lib[g].text],
                    [lib[g] EXCEPT !.pc = "read", !.text = <<>>])

LibClosed(g) ==
  /\ tail[g].pc = "select" /\ lib[g].pc = "dead"
  /\ Becomes(g, [tail[g] EXCEPT !.pc = "stop", !.stalled = FALSE])

Gone(g) == path = 0 \/ tail[g].orig \notin {0, path}

(* hybridPollInterval went by: the file is gone or another one, or in hybrid *)
(* mode it has grown past what was forwarded.                                *)
Ticker(g) ==
  /\ tail[g].pc = "select"
  /\ \/ /\ Gone(g)
        /\ Becomes(g, [tail[g] EXCEPT !.pc = "stop", !.stalled = FALSE, !.lastSize = 0])
     \/ /\ ~Gone(g) /\ mode = "hybrid" /\ Size(path) > tail[g].lastSize
        /\ Becomes(g, [tail[g] EXCEPT !.pc = "stop", !.stalled = TRUE])

(* Faulty variant: Stop alone, nobody receives. *)
FaultyStopDrain(g) == FALSE /\ BecomesWith(g, tail[g], lib[g])

(* stopTail: whatever the library still sends is thrown away ... *)
StopDrain(g) ==
  /\ tail[g].pc = "stop" /\ lib[g].pc = "send"
  /\ BecomesWith(g, tail[g], [lib[g] EXCEPT !.pc = "read", !.text = <<>>])

AfterStop(g) ==
  IF mode = "event" \/ Cancelled(g) THEN "exit" ELSE IF tail[g].stalled THEN "drain" ELSE "retry"

(* ... until its goroutine is not in a send, sees the kill and closes its fd. *)
StopDone(g) ==
  /\ tail[g].pc = "stop" /\ lib[g].pc # "send"
  /\ BecomesWith(g, [tail[g] EXCEPT !.pc = AfterStop(g), !.orig = 0, !.stalled = FALSE], NoLib)

(* drainByPoll: from lastSize to the end of whatever file is at the path. *)
DrainOpen(g) == tail[g].pc = "drain" /\ OpenAt(g, tail[g].lastSize)

DrainEnd(g) ==
  /\ mode = "hybrid" /\ tail[g].pc = "eof"
  /\ Becomes(g, [Failed(tail[g]) EXCEPT !.pc = "open", !.lastSize = tail[g].off])

(***************************************************************************)
(* The environment, and the specification.                                  *)
(***************************************************************************)

(* The uploader is gone, or waits for a database that does not answer, and *)
(* the channel is full for good; to be full for a while is to be slow.      *)
ConsumerStops ==
  /\ room
  /\ room' = FALSE
  /\ UNCHANGED <<setup, fileVars, runVars, tail, lib, libFaults, sent, stopped, skipped>>

Cancel ==
  /\ ~stopped
  /\ stopped' = TRUE
  /\ UNCHANGED <<setup, fileVars, runVars, tail, lib, libFaults, sent, room, skipped>>

Init ==
  /\ setup \in Setups
  /\ path = 0 /\ files = 0 /\ data = [i \in Inodes |-> <<>>] /\ written = 0 /\ truncs = 0
  /\ run = "discover" /\ found = FALSE /\ tailed = 0
  /\ tail = [g \in Tails |-> NoTail]
  /\ lib = [g \in Tails |-> NoLib] /\ libFaults = 0
  /\ sent = [u \in Units |-> 0]
  /\ room = TRUE /\ stopped = FALSE
  /\ skipped = {}

Scanner == Discover \/ ReapAndStart \/ Rescan \/ CloseOut

Follow(g) ==
  \/ Send(g) \/ Exit(g) \/ Retry(g)
  \/ Scan(g) \/ PollOpen(g) \/ PollEOF(g) \/ PollWake(g)
  \/ HybridBegin(g) \/ LibStart(g) \/ Snapshot(g)
  \/ Take(g) \/ LibClosed(g) \/ Ticker(g)
  \/ StopDrain(g) \/ StopDone(g)
  \/ DrainOpen(g) \/ DrainEnd(g)

Finished == run = "closed" /\ UNCHANGED vars

Next ==
  \/ FileStep
  \/ Scanner \/ StopScanning
  \/ \E g \in Tails :
       \/ Follow(g) \/ Abandon(g)
       \/ LibOpen(g) \/ LibRead(g) \/ LibModified(g) \/ LibMoved(g) \/ LibDies(g)
  \/ ConsumerStops \/ Cancel
  \/ Finished

(* Goroutines are scheduled and tickers keep ticking; a select with several  *)
(* arms ready takes each of them again and again (SF: ctx.Done is one of     *)
(* them), and the library reads what it has opened.  Nothing makes it notice *)
(* a change, nobody has to write, receive or cancel.                         *)
Fairness ==
  /\ WF_vars(Scanner) /\ SF_vars(StopScanning)
  /\ WF_vars(\E g \in Tails : Follow(g)) /\ SF_vars(\E g \in Tails : Abandon(g))
  /\ WF_vars(\E g \in Tails : LibOpen(g) \/ LibRead(g))
Spec == Init /\ [][Next]_vars /\ Fairness

-----------------------------------------------------------------------------
(***************************************************************************)
(* Properties.                                                              *)
(***************************************************************************)

Text == Seq(Units)

TailType ==
  [pc: {"off", "begin", "open", "snapshot", "select", "send", "scan", "eof", "sleep", "retry",
        "stop", "drain", "exit"},
   cancelled: BOOLEAN, fd: Inodes \cup {0}, off: Nat, buf: Text, eof: BOOLEAN,
   text: Text, orig: Inodes \cup {0}, lastSize: Nat, stalled: BOOLEAN]

LibType ==
  [pc: {"off", "open", "read", "wait", "send", "dead"}, fd: Inodes \cup {0}, pos: Nat, text: Text]

(* Every variable has its type (Tailer, tailFile*, tail.Tail). *)
TypeOK ==
  /\ setup \in Setups
  /\ path \in Inodes \cup {0} /\ files \in 0 .. setup.inodes
  /\ data \in [Inodes -> Text] /\ written \in 0 .. 2 * setup.lines
  /\ run \in {"discover", "reap", "idle", "wait", "closed"}
  /\ found \in BOOLEAN /\ tailed \in Tails \cup {0}
  /\ tail \in [Tails -> TailType] /\ lib \in [Tails -> LibType]
  /\ room \in BOOLEAN /\ stopped \in BOOLEAN
  /\ sent \in [Units -> 0 .. 2]

(* A path has one goroutine, and its entry in tailed is that one's, whatever *)
(* is reaped, ends and is found anew: otherwise lines come twice and a       *)
(* cancel func is lost (startFile, reapMissing).  When the line channel is   *)
(* closed none is left that could send on it (Tailer.wg).                    *)
OneTailPerPath ==
  /\ TypeOK
  /\ \A g \in Tails : ~Off(g) => tailed = g /\ run # "closed"

(* Nothing happened that lines are known to be repeated or lost after.       *)
Undisturbed == truncs = 0 /\ (long = 0 \/ written < 2 * long)

(* No line comes twice from a file that is not replaced, until Run is told   *)
(* to stop: each of the readers that take turns goes on where the other one  *)
(* stopped (lastSize).                                                       *)
NoLineAgain == Undisturbed /\ ~stopped /\ files <= 1 => \A u \in Units : sent[u] <= 1

(* Within one file nothing is passed over: what is sent of it is all of it   *)
(* up to some point, in poll and event mode and unless it is truncated.      *)
NoGap ==
  truncs = 0 /\ mode # "hybrid" =>
    \A i \in Inodes : \A j, k \in DOMAIN data[i] :
      j < k /\ sent[data[i][k]] > 0 => sent[data[i][j]] > 0

(* What is written into a file is sent while it stays at the path and is not *)
(* truncated: a line is waited for no longer than it takes to notice that    *)
(* the library missed it (tailFileHybrid), and a file that was re-created    *)
(* gets a goroutine again (startFile).  Not promised: in event mode, and in  *)
(* hybrid mode for what was in the file before or once it was replaced.      *)
Expected(u) ==
  /\ u \in Range(From(path, 0))
  /\ ~stopped /\ room /\ Undisturbed
  /\ mode = "poll" \/ (mode = "hybrid" /\ files = 1 /\ u \notin skipped)

Delivered == []<>(\A u \in Units : Expected(u) => sent[u] > 0)

(* The descriptor of a file that is gone from the path is closed ("together  *)
(* they stop the v1.5.0 fd leak", reapMissing), also when nobody receives    *)
(* lines and the goroutine waits in a send or the library in one of its own. *)
(* Two cases are left: another file is at the path and nobody receives, or   *)
(* that file came between TailFile and its os.Stat and is taken for the one  *)
(* the library has open.                                                     *)
HoldsGone(g) == \E i \in Inodes \ {path} : i \in {tail[g].fd, lib[g].fd}

Mistaken(g) == mode # "poll" /\ tail[g].orig \in {0, path}

FdReleased ==
  []<>(\A g \in Tails : HoldsGone(g) => path # 0 /\ (~room \/ Mistaken(g)))

(* After a cancellation Run closes its channel, whoever waits for whom.      *)
Shutdown == stopped ~> run = "closed"
=============================================================================
