------------------------------ MODULE MCTailer ------------------------------
(* Small instances of Tailer: in each mode one that replaces the file, and   *)
(* one that truncates it or in which the library dies.  Of Glob, patterns    *)
(* and paths of up to three segments.                                        *)
EXTENDS Tailer, Glob

Setup(m, lines, inodes) ==
  [mode |-> m, long |-> 0, lines |-> lines, inodes |-> inodes, truncs |-> 0, libFaults |-> 0]

MCWild == [s \in {"*"} |-> {"a", "b"}]

MCSetups ==
  {Setup("poll", 2, 2),
   [Setup("poll", 2, 1) EXCEPT !.long = 2],
   [Setup("poll", 1, 1) EXCEPT !.truncs = 1],
   [Setup("event", 1, 2) EXCEPT !.libFaults = 1],
   Setup("hybrid", 2, 1),
   [Setup("hybrid", 1, 1) EXCEPT !.truncs = 1],
   Setup("hybrid", 1, 2)}

(* Evaluated at the start of a run: every pattern and path of the bound. *)
ASSUME DiscoveryAssumption == DiscoveryExact
=============================================================================
