-------------------------------- MODULE Glob --------------------------------
(***************************************************************************)
(* Which files the tailer finds (internal/source/tailer/tailer.go): a glob  *)
(* pattern and a path are sequences of segments, and a segment "**" stands  *)
(* for any number of directories.  What one segment matches is              *)
(* filepath.Match's affair and given by Wild.  Paths are already in the     *)
(* forward-slash form that normalizePath makes.                             *)
(***************************************************************************)
EXTENDS Integers, Sequences, FiniteSetsExt, SequencesExt

CONSTANTS
  Literals,  (* segments without metacharacters                              *)
  Wild,      (* for each segment with one, the literals it matches           *)
  Depth      (* bound on the length of patterns and paths                    *)

ASSUME GlobAssumption ==
  /\ Depth \in Nat
  /\ "**" \notin Literals \cup DOMAIN Wild
  /\ \A seg \in DOMAIN Wild : Wild[seg] \subseteq Literals

Segment(seg, name) == IF seg \in DOMAIN Wild THEN name \in Wild[seg] ELSE seg = name

(* The segments of the pattern from i on match those of the name from j on. *)
DoGlobMatch(pattern, name) ==
  LET match[i \in 1 .. Len(pattern) + 1, j \in 1 .. Len(name) + 1] ==
        LET more == {k \in i .. Len(pattern) : pattern[k] # "**"}
        IN  IF i > Len(pattern) THEN j > Len(name)
            ELSE IF pattern[i] = "**"
            THEN more = {} \/ \E k \in j .. Len(name) + 1 : match[Min(more), k]
            ELSE j <= Len(name) /\ Segment(pattern[i], name[j]) /\ match[i + 1, j + 1]
  IN  match[1, 1]

(* globBaseDir: the directories in front of the first metacharacter; of a   *)
(* pattern without one, all but the file name.                               *)
GlobBaseDir(pattern) ==
  LET meta == {i \in DOMAIN pattern : pattern[i] \notin Literals}
  IN  SubSeq(pattern, 1, Min({Len(pattern)} \cup meta) - 1)

(* discoverFiles: each pattern's directory is walked, each file found once.  *)
DiscoverFiles(patterns, files) ==
  {f \in files : \E p \in patterns : IsPrefix(GlobBaseDir(p), f) /\ DoGlobMatch(p, f)}

-----------------------------------------------------------------------------
(* The reference: every segment of a pattern takes some of the path, "**"    *)
(* any number of segments and any other one segment that it matches.         *)
Covers(pattern, name) ==
  \E end \in [0 .. Len(pattern) -> 0 .. Len(name)] :
    /\ end[0] = 0 /\ end[Len(pattern)] = Len(name)
    /\ \A i \in DOMAIN pattern :
         IF pattern[i] = "**" THEN end[i - 1] <= end[i]
         ELSE end[i] = end[i - 1] + 1 /\ Segment(pattern[i], name[end[i]])

Patterns == SeqOf(Literals \cup DOMAIN Wild \cup {"**"}, Depth) \ {<<>>}
Paths    == SeqOf(Literals, Depth) \ {<<>>}

(* A pattern finds the files that it should, though only the directories     *)
(* below its literal prefix are walked (discoverFiles, globBaseDir).         *)
DiscoveryExact ==
  \A p \in Patterns : DiscoverFiles({p}, Paths) = {f \in Paths : Covers(p, f)}
=============================================================================
