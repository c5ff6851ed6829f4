----------------------------- MODULE RolesProofs -----------------------------
(***************************************************************************)
(* Theorems about Roles, for any number of processes, requests and lines,   *)
(* with every failure, kill and signal of its steps.                        *)
(*                                                                          *)
(* What a process may do at a place of its main goroutine depends on what   *)
(* it did on the way there, and the requests it serves outlive the place    *)
(* they came in at.  The invariant therefore has two layers: Placed says    *)
(* of a process what has happened by the time it is at its place (whether   *)
(* it has a connection, its indexes, its reporter), Serves of a request     *)
(* that is at work what its process must have done for it, and keep.        *)
(***************************************************************************)
EXTENDS Roles, TLAPS

Mains    == {"start", "idle", "connect", "build", "index", "run", "begin", "gate", "ingest",
             "report", "serve", "drain", "close", "return", "exited", "killed"}
Statuses == {"new", "running", "gone", "answered"}

Records ==
  [main : Mains, client : {"none", "open", "closed"}, told : BOOLEAN, over : BOOLEAN,
   leaking : BOOLEAN, reporter : {"none", "running", "done"},
   watcher : {"none", "running", "ended"}, live : Nat, ensured : SUBSET Indexed,
   forced : BOOLEAN]

TypeInv ==
  /\ setup \in Setups /\ indexes \subseteq Indexed /\ doc \in Nat
  /\ proc \in [Procs -> Records]
  /\ job \in [Jobs -> Statuses]
  /\ fate \in [Lines -> {"pending", "settled", "closed"}]

(* What a process with the record r has done. *)
Connected(p, r) ==
  /\ r.main \in {"start", "idle", "connect"} => r.client = "none"
  /\ r.main = "build" => r.client = (IF Role(p) = "daemon" THEN "none" ELSE "open")
  /\ r.main \in {"index", "run", "begin", "gate", "ingest", "report"} => r.client = "open"
  /\ r.main \in {"serve", "drain", "close"} => r.client # "closed"
  /\ r.main \in {"return", "exited", "killed"} => r.client # "open"

Prepared(p, r) ==
  /\ r.main \in {"start", "idle", "connect", "build"} => r.ensured = {}
  /\ r.main = "index" => r.ensured # Indexed
  /\ r.main \in {"run", "begin", "gate", "ingest", "report"} => r.ensured = Indexed
  /\ r.main \in {"serve", "drain"} =>
       Role(p) = "gateway" /\ (r.client = "none" \/ r.ensured = Indexed)
  /\ r.main = "begin" => ~(Role(p) = "daemon" /\ setup.procs[p].cfgsync)

Reporting(p, r) ==
  r.reporter = "running" =>
    Role(p) = "daemon" /\ r.main \in {"begin", "gate", "ingest", "report", "killed"}

Known(r) == r.live <= doc /\ r.ensured \subseteq indexes

Placed(p, r) == Connected(p, r) /\ Prepared(p, r) /\ Reporting(p, r) /\ Known(r)

(* What a process with the record r has done for a request it works on. *)
Serves(p, r) ==
  /\ r.client # "none" /\ r.ensured = Indexed
  /\ \/ r.main \in {"ingest", "serve", "drain", "killed"}
     \/ r.main \in {"close", "return", "exited"} /\ r.forced
  /\ Role(p) = "daemon" /\ setup.procs[p].cfgsync => r.live > 0

PlacedInv == \A p \in Procs : Placed(p, proc[p])
ServesInv == \A j \in Jobs : Active(j) => Serves(Proc(j), proc[Proc(j)])

FateInv ==
  \A l \in Lines :
    /\ fate[l] = "settled" => indexes = Indexed
    /\ fate[l] = "closed" => proc[Proc(JobOf(l))].forced

IInv == TypeInv /\ PlacedInv /\ ServesInv /\ FateInv

-----------------------------------------------------------------------------
(***************************************************************************)
(* A step of one process.                                                   *)
(***************************************************************************)

(* A system is what SetupsAssumption says, and a line knows its upload. *)
LEMMA Systems ==
  ASSUME TypeInv
  PROVE  /\ \A p \in Procs : /\ Role(p) \in {"daemon", "gateway", "cli"}
                             /\ setup.procs[p].uri \in BOOLEAN /\ setup.procs[p].cfgsync \in BOOLEAN
         /\ \A j \in Jobs : /\ Proc(j) \in Procs
                            /\ setup.jobs[j].kind = "config" => setup.jobs[j].lines = {}
         /\ \A j \in Jobs : \A l \in setup.jobs[j].lines : l \in Lines /\ JobOf(l) = j
         /\ \A l \in Lines : JobOf(l) \in Jobs /\ l \in setup.jobs[JobOf(l)].lines
         /\ setup.faults \in BOOLEAN
<1>1. setup \in Setups
  BY DEF TypeInv
<1>2. \A j \in Jobs : \A l \in setup.jobs[j].lines : l \in Lines /\ JobOf(l) = j
  <2> SUFFICES ASSUME NEW j \in Jobs, NEW l \in setup.jobs[j].lines
               PROVE  l \in Lines /\ JobOf(l) = j
    OBVIOUS
  <2>1. l \in Lines
    BY DEF Lines
  <2>2. JobOf(l) \in Jobs /\ l \in setup.jobs[JobOf(l)].lines
    BY DEF JobOf
  <2>3. JobOf(l) # j => setup.jobs[JobOf(l)].lines \cap setup.jobs[j].lines = {}
    BY <1>1, <2>2, SetupsAssumption DEF Jobs
  <2> QED
    BY <2>1, <2>2, <2>3
<1>3. \A l \in Lines : JobOf(l) \in Jobs /\ l \in setup.jobs[JobOf(l)].lines
  BY <1>2 DEF Lines
<1>4. \A p \in Procs : /\ Role(p) \in {"daemon", "gateway", "cli"}
                       /\ setup.procs[p].uri \in BOOLEAN /\ setup.procs[p].cfgsync \in BOOLEAN
  BY <1>1, SetupsAssumption DEF Procs, Role
<1>5. \A j \in Jobs : /\ Proc(j) \in Procs
                      /\ setup.jobs[j].kind = "config" => setup.jobs[j].lines = {}
  BY <1>1, SetupsAssumption DEF Procs, Jobs, Proc
<1>6. setup.faults \in BOOLEAN
  BY <1>1, SetupsAssumption
<1> QED
  BY <1>2, <1>3, <1>4, <1>5, <1>6

(* A process that becomes r keeps the invariant if r is placed as it should,  *)
(* still does what its requests at work need, and stays forced.              *)
LEMMA Becoming ==
  ASSUME IInv, NEW p \in Procs, NEW r \in Records, Become(p, r), Placed(p, r),
         \A j \in JobsOf(p) : Active(j) => Serves(p, r),
         proc[p].forced => r.forced
  PROVE  IInv'
<1>1. /\ TypeInv /\ PlacedInv /\ ServesInv /\ FateInv
      /\ proc' = [proc EXCEPT ![p] = r]
      /\ UNCHANGED <<setup, indexes, doc, job, fate>>
  BY DEF IInv, Become, jobVars
<1>2. proc \in [Procs -> Records]
  BY <1>1 DEF TypeInv
<1>3. proc'[p] = r /\ \A q \in Procs : q # p => proc'[q] = proc[q]
  BY <1>1, <1>2
<1>4. /\ \A q \in Procs : Role(q)' = Role(q)
      /\ \A j \in Jobs : Proc(j)' = Proc(j) /\ (Active(j)' <=> Active(j))
      /\ Procs' = Procs /\ Jobs' = Jobs /\ Lines' = Lines
      /\ \A l \in Lines : JobOf(l)' = JobOf(l)
  BY <1>1 DEF Role, Proc, Active, Procs, Jobs, Lines, JobOf
<1>5. TypeInv'
  BY <1>1, <1>2, <1>4 DEF TypeInv
<1>6. PlacedInv'
  <2> SUFFICES ASSUME NEW q \in Procs
               PROVE  Placed(q, proc[q])'
    BY <1>4 DEF PlacedInv
  <2>1. Placed(q, proc'[q])
    BY <1>1, <1>3 DEF PlacedInv
  <2> QED
    BY <2>1, <1>1, <1>4 DEF Placed, Connected, Prepared, Reporting, Known
<1>7. ServesInv'
  <2> SUFFICES ASSUME NEW j \in Jobs, Active(j)
               PROVE  Serves(Proc(j), proc[Proc(j)])'
    BY <1>4 DEF ServesInv
  <2>1. Proc(j) \in Procs
    BY <1>1, Systems
  <2>2. Serves(Proc(j), proc'[Proc(j)])
    BY <2>1, <1>1, <1>3 DEF ServesInv, JobsOf
  <2> QED
    BY <2>1, <2>2, <1>1, <1>4 DEF Serves
<1>8. FateInv'
  <2> SUFFICES ASSUME NEW l \in Lines
               PROVE  /\ fate[l] = "settled" => indexes = Indexed
                      /\ fate[l] = "closed" => proc'[Proc(JobOf(l))].forced
    <3>1. /\ indexes' = indexes /\ fate' = fate
          /\ \A l \in Lines : Proc(JobOf(l))' = Proc(JobOf(l))
      BY <1>1, <1>4, Systems
    <3> QED
      BY <3>1, <1>4 DEF FateInv
  <2>1. Proc(JobOf(l)) \in Procs /\ (fate[l] = "closed" => proc[Proc(JobOf(l))].forced)
    BY <1>1, Systems DEF FateInv
  <2>2. fate[l] = "settled" => indexes = Indexed
    BY <1>1 DEF FateInv
  <2> QED
    BY <2>1, <2>2, <1>3
<1> QED
  BY <1>5, <1>6, <1>7, <1>8 DEF IInv

(* Before its requests come in and after they have ended, none is at work. *)
LEMMA NoneAtWork ==
  ASSUME IInv, NEW p \in Procs,
         proc[p].main \in {"start", "idle", "connect", "build", "index", "run", "begin", "gate",
                           "report"}
  PROVE  \A j \in JobsOf(p) : ~Active(j)
BY DEF IInv, ServesInv, Serves, JobsOf

(* What a process is and did, and that a step of its own may leave alone. *)
LEMMA Standing ==
  ASSUME IInv, NEW p \in Procs
  PROVE  /\ proc[p] \in Records /\ Placed(p, proc[p])
         /\ \A j \in JobsOf(p) : Active(j) => Serves(p, proc[p])
         /\ Role(p) \in {"daemon", "gateway", "cli"}
         /\ setup.procs[p].uri \in BOOLEAN /\ setup.procs[p].cfgsync \in BOOLEAN
BY Systems DEF IInv, TypeInv, PlacedInv, ServesInv, JobsOf

(* A process goes on to another place, where no request needs it. *)
LEMMA Going ==
  ASSUME IInv, NEW p \in Procs, NEW pc \in Mains, Go(p, pc),
         Placed(p, [proc[p] EXCEPT !.main = pc]),
         \A j \in JobsOf(p) : ~Active(j)
  PROVE  IInv'
<1> DEFINE r == [proc[p] EXCEPT !.main = pc]
<1>1. proc[p] \in Records
  BY Standing
<1>2. r \in Records /\ r.forced = proc[p].forced
  BY <1>1 DEF Records
<1> QED
  BY <1>1, <1>2, Becoming DEF Go

LEMMA ConfigureStep ==
  ASSUME IInv, NEW p \in Procs, Configure(p)
  PROVE  IInv'
<1>1. /\ proc[p] \in Records /\ Placed(p, proc[p]) /\ proc[p].main = "start"
      /\ \A j \in JobsOf(p) : ~Active(j)
      /\ Role(p) \in {"daemon", "gateway", "cli"}
  BY Standing, NoneAtWork DEF Configure, At
<1> DEFINE next(pc) == [proc[p] EXCEPT !.main = pc]
<1>2. \A pc \in {"exited", "idle", "connect"} : Placed(p, next(pc))
  BY <1>1 DEF Placed, Connected, Prepared, Reporting, Known, Records
<1>3. Role(p) = "daemon" => Placed(p, next("build"))
  BY <1>1 DEF Placed, Connected, Prepared, Reporting, Known, Records
<1>4. Role(p) = "gateway" => Placed(p, next("serve"))
  BY <1>1 DEF Placed, Connected, Prepared, Reporting, Known, Records
<1>5. PICK pc \in {"exited", "idle", "connect", "build", "serve"} :
        /\ Go(p, pc)
        /\ pc = "build" => Role(p) = "daemon"
        /\ pc = "serve" => Role(p) = "gateway"
  <2>1. CASE Go(p, "exited")
    BY <2>1
  <2>2. CASE Go(p, IF Role(p) = "daemon" THEN "build" ELSE "connect")
    BY <2>2
  <2>3. CASE Go(p, CASE Role(p) = "daemon" -> "idle" [] Role(p) = "gateway" -> "serve"
                     [] OTHER -> "exited")
    <3>1. CASE Role(p) = "daemon"
      BY <2>3, <3>1
    <3>2. CASE Role(p) = "gateway"
      BY <2>3, <3>2
    <3>3. CASE Role(p) = "cli"
      BY <2>3, <3>3
    <3> QED
      BY <3>1, <3>2, <3>3, <1>1
  <2> QED
    BY <2>1, <2>2, <2>3 DEF Configure
<1>6. pc \in Mains /\ Placed(p, next(pc))
  BY <1>2, <1>3, <1>4, <1>5 DEF Mains
<1> QED
  BY <1>1, <1>5, <1>6, Going

LEMMA IdleStep ==
  ASSUME IInv, NEW p \in Procs, Idle(p)
  PROVE  IInv'
<1>1. /\ proc[p] \in Records /\ Placed(p, proc[p]) /\ proc[p].main = "idle"
      /\ \A j \in JobsOf(p) : ~Active(j)
  BY Standing, NoneAtWork DEF Idle, At
<1>2. Placed(p, [proc[p] EXCEPT !.main = "exited"])
  BY <1>1 DEF Placed, Connected, Prepared, Reporting, Known, Records
<1> QED
  BY <1>1, <1>2, Going DEF Idle, Mains

LEMMA ConnectStep ==
  ASSUME IInv, NEW p \in Procs, Connect(p)
  PROVE  IInv'
<1>1. /\ proc[p] \in Records /\ Placed(p, proc[p]) /\ proc[p].main = "connect"
      /\ \A j \in JobsOf(p) : ~Active(j)
  BY Standing, NoneAtWork DEF Connect, At
<1> DEFINE r == [proc[p] EXCEPT !.main = IF Role(p) = "daemon" THEN "index" ELSE "build",
                                !.client = "open"]
<1>2. CASE Become(p, r)
  <2>1. r \in Records /\ r.forced = proc[p].forced
    BY <1>1 DEF Records, Mains
  <2>2. Placed(p, r)
    BY <1>1 DEF Placed, Connected, Prepared, Reporting, Known, Records, Indexed
  <2> QED
    BY <1>1, <1>2, <2>1, <2>2, Becoming
<1>3. CASE Go(p, "exited")
  <2>1. Placed(p, [proc[p] EXCEPT !.main = "exited"])
    BY <1>1 DEF Placed, Connected, Prepared, Reporting, Known, Records
  <2> QED
    BY <1>1, <1>3, <2>1, Going DEF Mains
<1> QED
  BY <1>2, <1>3 DEF Connect

LEMMA BuildStep ==
  ASSUME IInv, NEW p \in Procs, Build(p)
  PROVE  IInv'
<1>1. /\ proc[p] \in Records /\ Placed(p, proc[p]) /\ proc[p].main = "build"
      /\ \A j \in JobsOf(p) : ~Active(j)
  BY Standing, NoneAtWork DEF Build, At
<1>2. PICK pc \in Mains :
        /\ Go(p, pc)
        /\ IF Role(p) = "daemon" THEN pc \in {"connect", "exited"} ELSE pc \in {"index", "close"}
  BY DEF Build, Mains
<1>3. Placed(p, [proc[p] EXCEPT !.main = pc])
  BY <1>1, <1>2 DEF Placed, Connected, Prepared, Reporting, Known, Records, Indexed
<1> QED
  BY <1>1, <1>2, <1>3, Going

(* The step that ensures an index may also find all of them there; the lines  *)
(* that other processes have written stay covered.                           *)
LEMMA EnsureIndexStep ==
  ASSUME IInv, NEW p \in Procs, EnsureIndex(p)
  PROVE  IInv'
<1>1. /\ proc[p] \in Records /\ Placed(p, proc[p]) /\ proc[p].main = "index"
      /\ \A j \in JobsOf(p) : ~Active(j)
  BY Standing, NoneAtWork DEF EnsureIndex, At
<1>2. CASE Go(p, "close")
  <2>1. Placed(p, [proc[p] EXCEPT !.main = "close"])
    BY <1>1 DEF Placed, Connected, Prepared, Reporting, Known, Records
  <2> QED
    BY <1>1, <1>2, <2>1, Going DEF Mains
<1>3. CASE /\ LET c == CHOOSE c \in Indexed \ proc[p].ensured : TRUE
              IN  Ensured(p, c) /\ indexes' = indexes \cup {c}
           /\ UNCHANGED <<setup, doc, jobVars>>
  <2>1. proc[p].ensured \subseteq Indexed /\ proc[p].ensured # Indexed
    BY <1>1 DEF Placed, Prepared, Records
  <2>2. PICK c \in Indexed : Ensured(p, c) /\ indexes' = indexes \cup {c}
    BY <1>3, <2>1
  <2> DEFINE r == [proc[p] EXCEPT !.ensured = @ \cup {c},
                     !.main = IF proc[p].ensured \cup {c} = Indexed THEN "run" ELSE "index"]
  <2>3. /\ TypeInv /\ PlacedInv /\ ServesInv /\ FateInv
        /\ UNCHANGED <<setup, doc, job, fate>>
        /\ proc \in [Procs -> Records]
    BY <1>3 DEF IInv, TypeInv, jobVars
  <2>4. proc' = [proc EXCEPT ![p] = r]
    BY <2>2, <2>3 DEF Ensured
  <2>5. r \in Records /\ r.forced = proc[p].forced
    BY <1>1 DEF Records, Mains
  <2>6. proc'[p] = r /\ \A q \in Procs : q # p => proc'[q] = proc[q]
    BY <2>3, <2>4
  <2>7. /\ \A q \in Procs : Role(q)' = Role(q)
        /\ \A j \in Jobs : Proc(j)' = Proc(j) /\ (Active(j)' <=> Active(j))
        /\ Procs' = Procs /\ Jobs' = Jobs /\ Lines' = Lines
        /\ \A l \in Lines : JobOf(l)' = JobOf(l)
    BY <2>3 DEF Role, Proc, Active, Procs, Jobs, Lines, JobOf
  <2>8. TypeInv'
    BY <2>2, <2>3, <2>4, <2>5, <2>7 DEF TypeInv
  <2>9. PlacedInv'
    <3> SUFFICES ASSUME NEW q \in Procs
                 PROVE  Placed(q, proc[q])'
      BY <2>7 DEF PlacedInv
    <3>1. Placed(p, proc[p]) /\ Placed(q, proc[q])
      BY <2>3 DEF PlacedInv
    <3>2. CASE q = p
      <4>1. /\ Connected(p, r) /\ Prepared(p, r) /\ Reporting(p, r)
            /\ r.live <= doc /\ r.ensured \subseteq indexes'
        BY <1>1, <2>2, <3>1 DEF Placed, Connected, Prepared, Reporting, Known, Records
      <4> HIDE DEF r
      <4> QED
        BY <4>1, <3>2, <2>3, <2>6, <2>7
        DEF Placed, Connected, Prepared, Reporting, Known
    <3>3. CASE q # p
      <4> QED
        BY <2>2, <2>3, <2>6, <2>7, <3>1, <3>3 DEF Placed, Connected, Prepared, Reporting, Known
    <3> QED
      BY <3>2, <3>3
  <2>10. ServesInv'
    <3> SUFFICES ASSUME NEW j \in Jobs, Active(j)
                 PROVE  Serves(Proc(j), proc[Proc(j)])'
      BY <2>7 DEF ServesInv
    <3>1. Proc(j) \in Procs /\ Proc(j) # p /\ Serves(Proc(j), proc[Proc(j)])
      BY <1>1, <2>3, Systems DEF ServesInv, JobsOf
    <3> QED
      BY <3>1, <2>3, <2>6, <2>7 DEF Serves
  <2>11. FateInv'
    <3> SUFFICES ASSUME NEW l \in Lines
                 PROVE  /\ fate[l] = "settled" => indexes' = Indexed
                        /\ fate[l] = "closed" => proc'[Proc(JobOf(l))].forced
      <4>1. fate' = fate /\ \A l \in Lines : Proc(JobOf(l))' = Proc(JobOf(l))
        BY <2>3, <2>7, Systems
      <4> QED
        BY <4>1, <2>7 DEF FateInv
    <3>1. Proc(JobOf(l)) \in Procs /\ (fate[l] = "closed" => proc[Proc(JobOf(l))].forced)
      BY <2>3, Systems DEF FateInv
    <3>2. fate[l] = "settled" => indexes = Indexed
      BY <2>3 DEF FateInv
    <3> QED
      BY <3>1, <3>2, <2>2, <2>5, <2>6
  <2> QED
    BY <2>8, <2>9, <2>10, <2>11 DEF IInv
<1> QED
  BY <1>2, <1>3 DEF EnsureIndex

LEMMA StartRunStep ==
  ASSUME IInv, NEW p \in Procs, StartRun(p)
  PROVE  IInv'
<1>1. /\ proc[p] \in Records /\ Placed(p, proc[p]) /\ proc[p].main = "run"
      /\ \A j \in JobsOf(p) : ~Active(j)
      /\ Role(p) \in {"daemon", "gateway", "cli"}
      /\ setup.procs[p].uri \in BOOLEAN /\ setup.procs[p].cfgsync \in BOOLEAN
  BY Standing, NoneAtWork DEF StartRun, At
<1> DEFINE pc == CASE Role(p) = "gateway" -> "serve"
                   [] Role(p) = "daemon" /\ setup.procs[p].cfgsync -> "gate"
                   [] OTHER -> "begin"
           r  == [proc[p] EXCEPT
                   !.main     = pc,
                   !.reporter = IF Role(p) = "daemon" THEN "running" ELSE @,
                   !.watcher  = IF Role(p) # "cli" /\ setup.procs[p].cfgsync THEN "running" ELSE @]
<1>2. Become(p, r)
  BY DEF StartRun
<1>3. \/ pc = "serve" /\ Role(p) = "gateway"
      \/ pc = "gate" /\ Role(p) = "daemon" /\ setup.procs[p].cfgsync
      \/ pc = "begin" /\ Role(p) # "gateway" /\ ~(Role(p) = "daemon" /\ setup.procs[p].cfgsync)
  <2>1. CASE Role(p) = "gateway"
    <3>1. ~(Role(p) = "daemon" /\ setup.procs[p].cfgsync)
      BY <2>1
    <3>2. pc = "serve"
      BY <2>1, <3>1, Zenon
    <3> QED
      BY <2>1, <3>2
  <2>2. CASE Role(p) = "daemon" /\ setup.procs[p].cfgsync
    <3>1. Role(p) # "gateway"
      BY <2>2
    <3>2. pc = "gate"
      BY <2>2, <3>1, Zenon
    <3> QED
      BY <2>2, <3>2
  <2>3. CASE Role(p) # "gateway" /\ ~(Role(p) = "daemon" /\ setup.procs[p].cfgsync)
    BY <2>3
  <2> QED
    BY <2>1, <2>2, <2>3
<1>4. /\ r.main = pc /\ r.forced = proc[p].forced /\ r.client = proc[p].client
      /\ r.ensured = proc[p].ensured /\ r.live = proc[p].live
      /\ r.reporter = (IF Role(p) = "daemon" THEN "running" ELSE proc[p].reporter)
  BY <1>1 DEF Records
<1>5. r \in Records
  <2>1. pc \in Mains
    BY <1>3 DEF Mains
  <2> HIDE DEF pc
  <2> QED
    BY <2>1, <1>1 DEF Records
<1> HIDE DEF pc, r
<1>6. Placed(p, r)
  <2>1. /\ proc[p].client = "open" /\ proc[p].ensured = Indexed /\ proc[p].reporter # "running"
        /\ Known(proc[p])
    BY <1>1 DEF Placed, Connected, Prepared, Reporting
  <2>2. Connected(p, r)
    BY <1>3, <1>4, <2>1 DEF Connected
  <2>3. Prepared(p, r)
    BY <1>3, <1>4, <2>1 DEF Prepared
  <2>4. Reporting(p, r)
    BY <1>3, <1>4, <2>1 DEF Reporting
  <2> QED
    BY <1>4, <2>1, <2>2, <2>3, <2>4 DEF Placed, Known
<1> QED
  BY <1>1, <1>2, <1>4, <1>5, <1>6, Becoming

(* The uploads of a process come in: it has its connection and its indexes    *)
(* and, if it waits for a configuration, one is applied.                     *)
LEMMA IngestStep ==
  ASSUME IInv, NEW p \in Procs, Ingest(p), proc[p].main \in {"begin", "gate"},
         Role(p) = "daemon" /\ setup.procs[p].cfgsync => proc[p].live > 0
  PROVE  IInv'
<1>1. /\ TypeInv /\ PlacedInv /\ ServesInv /\ FateInv
      /\ UNCHANGED <<setup, indexes, doc, fate>>
      /\ proc \in [Procs -> Records]
  BY DEF IInv, TypeInv, Ingest
<1>2. /\ proc[p] \in Records /\ Placed(p, proc[p]) /\ \A j \in JobsOf(p) : ~Active(j)
  BY Standing, NoneAtWork
<1> DEFINE r == [proc[p] EXCEPT !.main = "ingest"]
<1>3. proc' = [proc EXCEPT ![p] = r]
  BY <1>1 DEF Ingest
<1>4. /\ r.main = "ingest" /\ r.client = proc[p].client /\ r.ensured = proc[p].ensured
      /\ r.live = proc[p].live /\ r.reporter = proc[p].reporter /\ r.forced = proc[p].forced
      /\ r \in Records
  BY <1>2 DEF Records, Mains
<1>5. proc'[p] = r /\ \A q \in Procs : q # p => proc'[q] = proc[q]
  BY <1>1, <1>3
<1> HIDE DEF r
<1>6. /\ \A q \in Procs : Role(q)' = Role(q)
      /\ \A j \in Jobs : Proc(j)' = Proc(j)
      /\ Procs' = Procs /\ Jobs' = Jobs /\ Lines' = Lines
      /\ \A l \in Lines : JobOf(l)' = JobOf(l)
  BY <1>1 DEF Role, Proc, Procs, Jobs, Lines, JobOf
<1>7. job' = [j \in Jobs |-> IF Proc(j) = p THEN "running" ELSE job[j]]
  BY DEF Ingest
<1>8. TypeInv'
  <2>1. job' \in [Jobs -> Statuses]
    BY <1>1, <1>7 DEF TypeInv, Statuses
  <2>2. proc' \in [Procs -> Records]
    BY <1>1, <1>3, <1>4
  <2> QED
    BY <1>1, <1>6, <2>1, <2>2 DEF TypeInv
<1>9. PlacedInv'
  <2> SUFFICES ASSUME NEW q \in Procs
               PROVE  Placed(q, proc[q])'
    BY <1>6 DEF PlacedInv
  <2>1. Placed(q, proc'[q])
    BY <1>1, <1>2, <1>4, <1>5
    DEF PlacedInv, Placed, Connected, Prepared, Reporting, Known
  <2> QED
    BY <2>1, <1>1, <1>6 DEF Placed, Connected, Prepared, Reporting, Known
<1>10. ServesInv'
  <2> SUFFICES ASSUME NEW j \in Jobs, Active(j)'
               PROVE  Serves(Proc(j), proc[Proc(j)])'
    BY <1>6 DEF ServesInv
  <2>1. Proc(j) \in Procs
    BY <1>1, Systems
  <2>2. Serves(Proc(j), proc'[Proc(j)])
    <3>1. CASE Proc(j) = p
      BY <1>2, <1>4, <1>5, <3>1 DEF Serves, Placed, Connected, Prepared
    <3>2. CASE Proc(j) # p
      BY <1>1, <1>5, <1>7, <2>1, <3>2 DEF Active, ServesInv
    <3> QED
      BY <3>1, <3>2
  <2> QED
    BY <2>1, <2>2, <1>1, <1>6 DEF Serves
<1>11. FateInv'
  <2> SUFFICES ASSUME NEW l \in Lines
               PROVE  /\ fate[l] = "settled" => indexes = Indexed
                      /\ fate[l] = "closed" => proc'[Proc(JobOf(l))].forced
    <3>1. /\ indexes' = indexes /\ fate' = fate
          /\ \A l \in Lines : Proc(JobOf(l))' = Proc(JobOf(l))
      BY <1>1, <1>6, Systems
    <3> QED
      BY <3>1, <1>6 DEF FateInv
  <2>1. Proc(JobOf(l)) \in Procs /\ (fate[l] = "closed" => proc[Proc(JobOf(l))].forced)
    BY <1>1, Systems DEF FateInv
  <2>2. fate[l] = "settled" => indexes = Indexed
    BY <1>1 DEF FateInv
  <2> QED
    BY <2>1, <2>2, <1>4, <1>5
<1> QED
  BY <1>8, <1>9, <1>10, <1>11 DEF IInv

LEMMA BeginStep ==
  ASSUME IInv, NEW p \in Procs, Begin(p)
  PROVE  IInv'
<1>1. Ingest(p) /\ proc[p].main = "begin" /\ Placed(p, proc[p])
  BY Standing DEF Begin, At
<1> QED
  BY <1>1, IngestStep DEF Placed, Prepared

LEMMA GateStep ==
  ASSUME IInv, NEW p \in Procs, Gate(p)
  PROVE  IInv'
<1>1. /\ proc[p] \in Records /\ Placed(p, proc[p]) /\ proc[p].main = "gate"
      /\ \A j \in JobsOf(p) : ~Active(j)
  BY Standing, NoneAtWork DEF Gate, At
<1>2. CASE proc[p].live > 0 /\ Ingest(p)
  BY <1>1, <1>2, IngestStep
<1>3. CASE Go(p, "report")
  <2>1. Placed(p, [proc[p] EXCEPT !.main = "report"])
    BY <1>1 DEF Placed, Connected, Prepared, Reporting, Known, Records
  <2> QED
    BY <1>1, <1>3, <2>1, Going DEF Mains
<1> QED
  BY <1>2, <1>3 DEF Gate

LEMMA IngestedStep ==
  ASSUME IInv, NEW p \in Procs, Ingested(p)
  PROVE  IInv'
<1>1. /\ proc[p] \in Records /\ Placed(p, proc[p]) /\ proc[p].main = "ingest"
      /\ \A j \in JobsOf(p) : ~Active(j)
  BY Standing DEF Ingested, At
<1>2. CASE Role(p) = "daemon" /\ Go(p, "report")
  <2>1. Placed(p, [proc[p] EXCEPT !.main = "report"])
    BY <1>1 DEF Placed, Connected, Prepared, Reporting, Known, Records
  <2> QED
    BY <1>1, <1>2, <2>1, Going DEF Mains
<1>3. CASE Role(p) # "daemon" /\ Go(p, "close")
  <2>1. Placed(p, [proc[p] EXCEPT !.main = "close"])
    BY <1>1, <1>3 DEF Placed, Connected, Prepared, Reporting, Known, Records
  <2> QED
    BY <1>1, <1>3, <2>1, Going DEF Mains
<1> QED
  BY <1>2, <1>3 DEF Ingested

LEMMA ReportedStep ==
  ASSUME IInv, NEW p \in Procs, Reported(p)
  PROVE  IInv'
<1>1. /\ proc[p] \in Records /\ Placed(p, proc[p]) /\ proc[p].main = "report"
      /\ proc[p].reporter = "done"
      /\ \A j \in JobsOf(p) : ~Active(j)
  BY Standing, NoneAtWork DEF Reported, At
<1>2. Placed(p, [proc[p] EXCEPT !.main = "close"])
  BY <1>1 DEF Placed, Connected, Prepared, Reporting, Known, Records
<1> QED
  BY <1>1, <1>2, Going DEF Reported, Mains

(* A gateway that gave up closes its connection under its handlers. *)
LEMMA CloseStep ==
  ASSUME IInv, NEW p \in Procs, Close(p)
  PROVE  IInv'
<1>1. /\ proc[p] \in Records /\ Placed(p, proc[p]) /\ proc[p].main = "close"
      /\ \A j \in JobsOf(p) : Active(j) => Serves(p, proc[p])
  BY Standing DEF Close, At
<1> DEFINE r == [proc[p] EXCEPT !.main = "return",
                                !.client = IF @ = "open" THEN "closed" ELSE @]
<1>2. r \in Records /\ r.forced = proc[p].forced
  BY <1>1 DEF Records, Mains
<1>3. Placed(p, r)
  BY <1>1 DEF Placed, Connected, Prepared, Reporting, Known, Records
<1>4. \A j \in JobsOf(p) : Active(j) => Serves(p, r)
  BY <1>1 DEF Serves, Records
<1>5. Become(p, r)
  BY DEF Close
<1> QED
  BY <1>2, <1>3, <1>4, <1>5, Becoming

LEMMA ExitStep ==
  ASSUME IInv, NEW p \in Procs, Exit(p)
  PROVE  IInv'
<1>1. /\ proc[p] \in Records /\ Placed(p, proc[p]) /\ proc[p].main = "return"
      /\ \A j \in JobsOf(p) : Active(j) => Serves(p, proc[p])
  BY Standing DEF Exit, At
<1> DEFINE r == [proc[p] EXCEPT !.main = "exited"]
<1>2. r \in Records /\ r.forced = proc[p].forced
  BY <1>1 DEF Records, Mains
<1>3. Placed(p, r)
  BY <1>1 DEF Placed, Connected, Prepared, Reporting, Known, Records
<1>4. \A j \in JobsOf(p) : Active(j) => Serves(p, r)
  BY <1>1 DEF Serves, Records
<1>5. Become(p, r)
  BY DEF Exit, Go
<1> QED
  BY <1>2, <1>3, <1>4, <1>5, Becoming

LEMMA ShutdownStep ==
  ASSUME IInv, NEW p \in Procs, Shutdown(p)
  PROVE  IInv'
<1>1. /\ proc[p] \in Records /\ Placed(p, proc[p]) /\ proc[p].main = "serve"
      /\ \A j \in JobsOf(p) : Active(j) => Serves(p, proc[p])
  BY Standing DEF Shutdown, At
<1> DEFINE r == [proc[p] EXCEPT !.main = "drain"]
<1>2. r \in Records /\ r.forced = proc[p].forced
  BY <1>1 DEF Records, Mains
<1>3. Placed(p, r)
  BY <1>1 DEF Placed, Connected, Prepared, Reporting, Known, Records
<1>4. \A j \in JobsOf(p) : Active(j) => Serves(p, r)
  BY <1>1 DEF Serves, Records
<1>5. Become(p, r)
  BY DEF Shutdown, Go
<1> QED
  BY <1>2, <1>3, <1>4, <1>5, Becoming

LEMMA DrainedStep ==
  ASSUME IInv, NEW p \in Procs, Drained(p)
  PROVE  IInv'
<1>1. /\ proc[p] \in Records /\ Placed(p, proc[p]) /\ proc[p].main = "drain"
      /\ \A j \in JobsOf(p) : ~Active(j)
  BY Standing DEF Drained, At
<1>2. Placed(p, [proc[p] EXCEPT !.main = "close"])
  BY <1>1 DEF Placed, Connected, Prepared, Reporting, Known, Records
<1> QED
  BY <1>1, <1>2, Going DEF Drained, Mains

(* Giving up is the one step that leaves requests at work, and it says so. *)
LEMMA GiveUpStep ==
  ASSUME IInv, NEW p \in Procs, GiveUp(p)
  PROVE  IInv'
<1>1. /\ proc[p] \in Records /\ Placed(p, proc[p]) /\ proc[p].main \in {"drain", "serve"}
      /\ \A j \in JobsOf(p) : Active(j) => Serves(p, proc[p])
  BY Standing DEF GiveUp, At
<1> DEFINE r == [proc[p] EXCEPT !.main = "close", !.forced = TRUE]
<1>2. r \in Records /\ r.forced
  BY <1>1 DEF Records, Mains
<1>3. Placed(p, r)
  BY <1>1 DEF Placed, Connected, Prepared, Reporting, Known, Records
<1>4. \A j \in JobsOf(p) : Active(j) => Serves(p, r)
  BY <1>1 DEF Serves, Records
<1>5. Become(p, r)
  BY DEF GiveUp
<1> QED
  BY <1>2, <1>3, <1>4, <1>5, Becoming

LEMMA KillStep ==
  ASSUME IInv, NEW p \in Procs, Kill(p)
  PROVE  IInv'
<1>1. /\ proc[p] \in Records /\ Placed(p, proc[p])
      /\ \A j \in JobsOf(p) : Active(j) => Serves(p, proc[p])
  BY Standing
<1> DEFINE r == [proc[p] EXCEPT !.main = "killed", !.client = IF @ = "open" THEN "closed" ELSE @]
<1>2. r \in Records /\ r.forced = proc[p].forced
  BY <1>1 DEF Records, Mains
<1>3. Placed(p, r)
  BY <1>1 DEF Placed, Connected, Prepared, Reporting, Known, Records
<1>4. \A j \in JobsOf(p) : Active(j) => Serves(p, r)
  BY <1>1 DEF Serves, Records
<1>5. Become(p, r)
  BY DEF Kill
<1> QED
  BY <1>2, <1>3, <1>4, <1>5, Becoming

-----------------------------------------------------------------------------
(***************************************************************************)
(* The goroutines beside the main one, and the environment: they leave the  *)
(* process at its place.                                                    *)
(***************************************************************************)

LEMMA Beside ==
  ASSUME IInv, NEW p \in Procs, NEW r \in Records, Become(p, r),
         r.main = proc[p].main, r.client = proc[p].client, r.ensured = proc[p].ensured,
         r.forced = proc[p].forced,
         r.reporter = "running" => proc[p].reporter = "running",
         r.live \in proc[p].live .. doc
  PROVE  IInv'
<1>1. /\ proc[p] \in Records /\ Placed(p, proc[p])
      /\ \A j \in JobsOf(p) : Active(j) => Serves(p, proc[p])
  BY Standing
<1>2. proc[p].live \in Nat /\ r.live \in Nat /\ doc \in Nat
  BY <1>1 DEF Records, IInv, TypeInv
<1>3. Placed(p, r)
  BY <1>1, <1>2 DEF Placed, Connected, Prepared, Reporting, Known
<1>4. \A j \in JobsOf(p) : Active(j) => Serves(p, r)
  BY <1>1, <1>2 DEF Serves
<1> QED
  BY <1>3, <1>4, Becoming

LEMMA ReportStep ==
  ASSUME IInv, NEW p \in Procs, Report(p)
  PROVE  IInv'
<1>1. proc[p] \in Records /\ Placed(p, proc[p]) /\ doc \in Nat
  BY Standing DEF IInv, TypeInv
<1> DEFINE r == [proc[p] EXCEPT !.reporter = "done", !.over = @ \/ ~RunDone(p)]
<1>2. /\ r \in Records /\ r.main = proc[p].main /\ r.client = proc[p].client
      /\ r.ensured = proc[p].ensured /\ r.forced = proc[p].forced
      /\ r.reporter = "done" /\ r.live = proc[p].live
  BY <1>1 DEF Records, RunDone
<1>3. Become(p, r) /\ r.live \in proc[p].live .. doc
  BY <1>1, <1>2 DEF Report, Placed, Known, Records
<1> HIDE DEF r
<1> QED
  BY <1>2, <1>3, Beside

LEMMA WatchStep ==
  ASSUME IInv, NEW p \in Procs, Watch(p)
  PROVE  IInv'
<1>1. /\ proc[p] \in Records /\ Placed(p, proc[p]) /\ doc \in Nat
      /\ proc[p].live < doc
  BY Standing DEF IInv, TypeInv, Watch
<1> DEFINE r == [proc[p] EXCEPT !.live = doc]
<1>2. /\ r \in Records /\ r.main = proc[p].main /\ r.client = proc[p].client
      /\ r.ensured = proc[p].ensured /\ r.forced = proc[p].forced
      /\ r.reporter = proc[p].reporter /\ r.live = doc
  BY <1>1 DEF Records
<1>3. Become(p, r) /\ r.live \in proc[p].live .. doc
  BY <1>1, <1>2 DEF Watch, Records
<1> HIDE DEF r
<1> QED
  BY <1>2, <1>3, Beside

LEMMA WatcherEndsStep ==
  ASSUME IInv, NEW p \in Procs, WatcherEnds(p)
  PROVE  IInv'
<1>1. proc[p] \in Records /\ Placed(p, proc[p]) /\ doc \in Nat
  BY Standing DEF IInv, TypeInv
<1> DEFINE r == [proc[p] EXCEPT !.watcher = "ended"]
<1>2. /\ r \in Records /\ r.main = proc[p].main /\ r.client = proc[p].client
      /\ r.ensured = proc[p].ensured /\ r.forced = proc[p].forced
      /\ r.reporter = proc[p].reporter /\ r.live = proc[p].live
  BY <1>1 DEF Records
<1>3. Become(p, r) /\ r.live \in proc[p].live .. doc
  BY <1>1, <1>2 DEF WatcherEnds, Placed, Known, Records
<1> HIDE DEF r
<1> QED
  BY <1>2, <1>3, Beside

LEMMA SignalStep ==
  ASSUME IInv, NEW p \in Procs, Signal(p)
  PROVE  IInv'
<1>1. proc[p] \in Records /\ Placed(p, proc[p]) /\ doc \in Nat
  BY Standing DEF IInv, TypeInv
<1> DEFINE r == [proc[p] EXCEPT !.told = TRUE]
<1>2. /\ r \in Records /\ r.main = proc[p].main /\ r.client = proc[p].client
      /\ r.ensured = proc[p].ensured /\ r.forced = proc[p].forced
      /\ r.reporter = proc[p].reporter /\ r.live = proc[p].live
  BY <1>1 DEF Records
<1>3. Become(p, r) /\ r.live \in proc[p].live .. doc
  BY <1>1, <1>2 DEF Signal, Placed, Known, Records
<1> HIDE DEF r
<1> QED
  BY <1>2, <1>3, Beside

LEMMA LeakStep ==
  ASSUME IInv, NEW p \in Procs, Leak(p)
  PROVE  IInv'
<1>1. proc[p] \in Records /\ Placed(p, proc[p]) /\ doc \in Nat
  BY Standing DEF IInv, TypeInv
<1> DEFINE r == [proc[p] EXCEPT !.leaking = TRUE]
<1>2. /\ r \in Records /\ r.main = proc[p].main /\ r.client = proc[p].client
      /\ r.ensured = proc[p].ensured /\ r.forced = proc[p].forced
      /\ r.reporter = proc[p].reporter /\ r.live = proc[p].live
  BY <1>1 DEF Records
<1>3. Become(p, r) /\ r.live \in proc[p].live .. doc
  BY <1>1, <1>2 DEF Leak, Placed, Known, Records
<1> HIDE DEF r
<1> QED
  BY <1>2, <1>3, Beside

-----------------------------------------------------------------------------
(***************************************************************************)
(* The steps of a request.                                                  *)
(***************************************************************************)

(* Its process, and what it did for the request. *)
LEMMA AtWork ==
  ASSUME IInv, NEW j \in Jobs
  PROVE  /\ Proc(j) \in Procs /\ proc[Proc(j)] \in Records
         /\ Placed(Proc(j), proc[Proc(j)])
         /\ Active(j) => Serves(Proc(j), proc[Proc(j)])
<1>1. Proc(j) \in Procs
  BY Systems DEF IInv
<1> QED
  BY <1>1, Standing DEF JobsOf

(* Another state of a request, and perhaps a new document: the request is at  *)
(* work only if its process did what it must.                                *)
LEMMA Answering ==
  ASSUME IInv, NEW j \in Jobs, NEW s \in Statuses, job' = [job EXCEPT ![j] = s],
         UNCHANGED <<setup, proc, indexes, fate>>, doc' \in {doc, doc + 1},
         s \in {"running", "gone"} => Serves(Proc(j), proc[Proc(j)])
  PROVE  IInv'
<1>1. /\ TypeInv /\ PlacedInv /\ ServesInv /\ FateInv
      /\ job \in [Jobs -> Statuses] /\ doc \in Nat /\ proc \in [Procs -> Records]
  BY DEF IInv, TypeInv
<1>2. job'[j] = s /\ \A k \in Jobs : k # j => job'[k] = job[k]
  BY <1>1
<1>3. /\ \A q \in Procs : Role(q)' = Role(q)
      /\ \A k \in Jobs : Proc(k)' = Proc(k)
      /\ Procs' = Procs /\ Jobs' = Jobs /\ Lines' = Lines
      /\ \A l \in Lines : JobOf(l)' = JobOf(l)
  BY DEF Role, Proc, Procs, Jobs, Lines, JobOf
<1>4. doc' \in Nat /\ doc <= doc'
  BY <1>1
<1>5. TypeInv'
  BY <1>1, <1>3, <1>4 DEF TypeInv
<1>6. PlacedInv'
  <2> SUFFICES ASSUME NEW q \in Procs
               PROVE  Placed(q, proc[q])'
    BY <1>3 DEF PlacedInv
  <2>1. Placed(q, proc[q]) /\ proc[q].live \in Nat
    BY <1>1 DEF PlacedInv, Records
  <2>2. proc[q].live <= doc'
    BY <2>1, <1>1, <1>4 DEF Placed, Known
  <2> QED
    BY <2>1, <2>2, <1>3 DEF Placed, Connected, Prepared, Reporting, Known
<1>7. ServesInv'
  <2> SUFFICES ASSUME NEW k \in Jobs, Active(k)'
               PROVE  Serves(Proc(k), proc[Proc(k)])'
    BY <1>3 DEF ServesInv
  <2>1. Serves(Proc(k), proc[Proc(k)])
    BY <1>1, <1>2 DEF ServesInv, Active
  <2>2. Proc(k) \in Procs
    BY <1>1, Systems
  <2> QED
    BY <2>1, <2>2, <1>3 DEF Serves
<1>8. FateInv'
  <2> SUFFICES ASSUME NEW l \in Lines
               PROVE  /\ fate[l] = "settled" => indexes = Indexed
                      /\ fate[l] = "closed" => proc[Proc(JobOf(l))].forced
    <3>1. \A l \in Lines : Proc(JobOf(l))' = Proc(JobOf(l))
      BY <1>1, <1>3, Systems
    <3> QED
      BY <3>1, <1>3 DEF FateInv
  <2> QED
    BY <1>1 DEF FateInv
<1> QED
  BY <1>5, <1>6, <1>7, <1>8 DEF IInv

LEMMA AcceptStep ==
  ASSUME IInv, NEW j \in Jobs, Accept(j)
  PROVE  IInv'
<1>1. Placed(Proc(j), proc[Proc(j)]) /\ proc[Proc(j)].main = "serve"
  BY AtWork DEF Accept, At
<1> DEFINE s == IF proc[Proc(j)].client = "none" THEN "answered" ELSE "running"
<1>2. s = "running" => Serves(Proc(j), proc[Proc(j)])
  BY <1>1 DEF Placed, Connected, Prepared, Serves
<1>3. s \in {"answered", "running"} /\ s \in Statuses
  BY DEF Statuses
<1>4. job' = [job EXCEPT ![j] = s] /\ UNCHANGED <<setup, proc, indexes, doc, fate>>
  BY DEF Accept
<1> HIDE DEF s
<1> QED
  BY <1>2, <1>3, <1>4, Answering

LEMMA PublishStep ==
  ASSUME IInv, NEW j \in Jobs, Publish(j)
  PROVE  IInv'
<1>1. /\ UNCHANGED <<setup, proc, indexes, fate>> /\ doc' \in {doc, doc + 1}
      /\ job' = [job EXCEPT ![j] = "answered"]
  BY DEF Publish
<1> QED
  BY <1>1, Answering DEF Statuses

LEMMA ClientGoneStep ==
  ASSUME IInv, NEW j \in Jobs, ClientGone(j)
  PROVE  IInv'
<1>1. Serves(Proc(j), proc[Proc(j)])
  BY AtWork DEF ClientGone, Active
<1> QED
  BY <1>1, Answering DEF ClientGone, Statuses

LEMMA FinishStep ==
  ASSUME IInv, NEW j \in Jobs, Finish(j)
  PROVE  IInv'
BY Answering DEF Finish, Statuses

(* A line whose request is at work at a process that runs still has its       *)
(* connection, unless the process gave up.                                   *)
LEMMA StillConnected ==
  ASSUME IInv, NEW j \in Jobs, Active(j), ~Over(Proc(j))
  PROVE  /\ proc[Proc(j)].client = "open" \/ proc[Proc(j)].forced
         /\ indexes = Indexed
<1>1. /\ proc[Proc(j)] \in Records /\ Placed(Proc(j), proc[Proc(j)])
      /\ Serves(Proc(j), proc[Proc(j)])
  BY AtWork
<1>2. indexes = Indexed
  BY <1>1 DEF Serves, Placed, Known, IInv, TypeInv
<1> QED
  BY <1>1, <1>2 DEF Serves, Placed, Connected, Over, Records

LEMMA SettleStep ==
  ASSUME IInv, NEW j \in Jobs, NEW l \in setup.jobs[j].lines, Settle(l)
  PROVE  IInv'
<1>1. /\ TypeInv /\ PlacedInv /\ ServesInv /\ FateInv
      /\ fate \in [Lines -> {"pending", "settled", "closed"}]
  BY DEF IInv, TypeInv
<1>2. l \in Lines /\ JobOf(l) = j
  BY <1>1, Systems
<1>3. /\ UNCHANGED <<setup, proc, indexes, doc, job>>
      /\ Active(j) /\ ~Over(Proc(j)) /\ fate[l] = "pending"
  BY <1>2 DEF Settle
<1>4. PICK f \in {"settled", "closed"} :
        /\ fate' = [fate EXCEPT ![l] = f]
        /\ f = "closed" => proc[Proc(j)].client # "open"
  BY <1>2 DEF Settle
<1>5. /\ \A q \in Procs : Role(q)' = Role(q)
      /\ \A k \in Jobs : Proc(k)' = Proc(k) /\ (Active(k)' <=> Active(k))
      /\ Procs' = Procs /\ Jobs' = Jobs /\ Lines' = Lines
      /\ \A m \in Lines : JobOf(m)' = JobOf(m)
  BY <1>3 DEF Role, Proc, Active, Procs, Jobs, Lines, JobOf
<1>6. fate'[l] = f /\ \A m \in Lines : m # l => fate'[m] = fate[m]
  BY <1>1, <1>2, <1>4
<1>7. TypeInv'
  <2>1. fate' \in [Lines -> {"pending", "settled", "closed"}]
    BY <1>1, <1>4
  <2> QED
    BY <1>1, <1>3, <1>5, <2>1 DEF TypeInv
<1>8. PlacedInv'
  <2> SUFFICES ASSUME NEW q \in Procs
               PROVE  Placed(q, proc[q])'
    BY <1>5 DEF PlacedInv
  <2>1. Placed(q, proc[q])
    BY <1>1 DEF PlacedInv
  <2> QED
    BY <2>1, <1>3, <1>5 DEF Placed, Connected, Prepared, Reporting, Known
<1>9. ServesInv'
  <2> SUFFICES ASSUME NEW k \in Jobs, Active(k)
               PROVE  Serves(Proc(k), proc[Proc(k)])'
    BY <1>5 DEF ServesInv
  <2>1. Serves(Proc(k), proc[Proc(k)]) /\ Proc(k) \in Procs
    BY <1>1, Systems DEF ServesInv
  <2> QED
    BY <2>1, <1>3, <1>5 DEF Serves
<1>10. FateInv'
  <2> SUFFICES ASSUME NEW m \in Lines
               PROVE  /\ fate'[m] = "settled" => indexes = Indexed
                      /\ fate'[m] = "closed" => proc[Proc(JobOf(m))].forced
    <3>1. \A m \in Lines : Proc(JobOf(m))' = Proc(JobOf(m))
      BY <1>1, <1>5, Systems
    <3> QED
      BY <3>1, <1>3, <1>5 DEF FateInv
  <2>1. CASE m = l
    BY <2>1, <1>2, <1>3, <1>4, <1>6, StillConnected
  <2>2. CASE m # l
    BY <2>2, <1>1, <1>6 DEF FateInv
  <2> QED
    BY <2>1, <2>2
<1> QED
  BY <1>7, <1>8, <1>9, <1>10 DEF IInv

-----------------------------------------------------------------------------
(***************************************************************************)
(* The theorems.                                                            *)
(***************************************************************************)

LEMMA Initially ==
  ASSUME Init
  PROVE  IInv
<1>1. /\ setup \in Setups /\ doc = setup.published /\ indexes = {}
      /\ job = [j \in Jobs |-> "new"] /\ fate = [l \in Lines |-> "pending"]
  BY DEF Init
<1>2. doc \in Nat
  BY <1>1, SetupsAssumption
<1>3. \A p \in Procs :
        proc[p] = [main |-> "start", client |-> "none", told |-> FALSE, over |-> FALSE,
                   leaking |-> FALSE, reporter |-> "none", watcher |-> "none", live |-> 0,
                   ensured |-> {}, forced |-> FALSE]
  BY DEF Init
<1>4. proc \in [Procs -> Records]
  BY DEF Init, Records, Mains
<1>5. TypeInv
  BY <1>1, <1>2, <1>4 DEF TypeInv, Statuses
<1>6. PlacedInv
  BY <1>2, <1>3 DEF PlacedInv, Placed, Connected, Prepared, Reporting, Known
<1>7. ServesInv
  BY <1>1 DEF ServesInv, Active
<1>8. FateInv
  BY <1>1 DEF FateInv
<1> QED
  BY <1>5, <1>6, <1>7, <1>8 DEF IInv

LEMMA Inductive ==
  ASSUME IInv, [Next]_vars
  PROVE  IInv'
<1>1. ASSUME NEW p \in Procs, Main(p)
      PROVE  IInv'
  BY <1>1, ConfigureStep, IdleStep, ConnectStep, BuildStep, EnsureIndexStep, StartRunStep,
     BeginStep, GateStep, IngestedStep, ReportedStep, CloseStep, ExitStep, ShutdownStep,
     DrainedStep, GiveUpStep
  DEF Main
<1>2. ASSUME NEW p \in Procs,
             GiveUp(p) \/ Report(p) \/ Watch(p) \/ WatcherEnds(p) \/ Signal(p) \/ Kill(p) \/ Leak(p)
      PROVE  IInv'
  BY <1>2, GiveUpStep, ReportStep, WatchStep, WatcherEndsStep, SignalStep, KillStep, LeakStep
<1>3. ASSUME NEW j \in Jobs, Accept(j) \/ Work(j) \/ ClientGone(j)
      PROVE  IInv'
  BY <1>3, AcceptStep, PublishStep, FinishStep, SettleStep, ClientGoneStep DEF Work
<1>4. CASE UNCHANGED vars
  <2>1. UNCHANGED <<setup, proc, indexes, doc, job, fate>>
    BY <1>4 DEF vars, jobVars
  <2>2. TypeInv'
    BY <2>1 DEF IInv, TypeInv, Procs, Jobs, Lines
  <2>3. PlacedInv'
    BY <2>1
    DEF IInv, PlacedInv, Placed, Connected, Prepared, Reporting, Known, Procs, Role
  <2>4. ServesInv'
    BY <2>1 DEF IInv, ServesInv, Serves, Jobs, Role, Proc, Active
  <2>5. FateInv'
    BY <2>1 DEF IInv, FateInv, Lines, Jobs, Proc, JobOf
  <2> QED
    BY <2>2, <2>3, <2>4, <2>5 DEF IInv
<1> QED
  BY <1>1, <1>2, <1>3, <1>4 DEF Next

LEMMA Invariant == Spec => []IInv
<1>1. Init => IInv
  BY Initially
<1>2. IInv /\ [Next]_vars => IInv'
  BY Inductive
<1> QED
  BY <1>1, <1>2, PTL DEF Spec

(* No process, of however many that start at once and fail or are killed half *)
(* way through, writes a line before all the indexes exist; TypeOK with it.  *)
THEOREM WritesAreIndexed == Spec => []IndexedFirst
<1>1. IInv => IndexedFirst
  <2> SUFFICES ASSUME IInv
               PROVE  IndexedFirst
    OBVIOUS
  <2>1. \A p \in Procs : proc[p] \in Records /\ Known(proc[p])
    BY Standing DEF Placed
  <2>2. \A p \in Procs : proc[p].live \in 0 .. doc
    BY <2>1 DEF Records, Known, IInv, TypeInv
  <2>3. TypeOK
    BY <2>1, <2>2 DEF TypeOK, Records, Mains, Known, IInv, TypeInv, Statuses
  <2>4. \A l \in Lines : fate[l] = "settled" => indexes = Indexed
    BY DEF IInv, FateInv
  <2> QED
    BY <2>3, <2>4 DEF IndexedFirst
<1> QED
  BY <1>1, Invariant, PTL

(* No line is lost to a connection that its own process closed, unless a      *)
(* gateway gave up; a process that ended holds none, and has no reporter.    *)
THEOREM ConnectionOutlivesUploads == Spec => []ConnectionLifetime
<1>1. IInv => ConnectionLifetime
  BY DEF IInv, FateInv, PlacedInv, Placed, Connected, Reporting, ConnectionLifetime, At
<1> QED
  BY <1>1, Invariant, PTL

(* A process that ends by itself has answered all it accepted, unless it is a *)
(* gateway that gave up waiting.                                             *)
THEOREM WorkIsAnswered == Spec => []AnsweredBeforeExit
<1>1. IInv => AnsweredBeforeExit
  BY DEF IInv, ServesInv, Serves, AnsweredBeforeExit
<1> QED
  BY <1>1, Invariant, PTL

(* A daemon that waits for a central configuration handles no line before one *)
(* is applied, in whatever order it is signalled, watched and published to.  *)
THEOREM GateHolds == Spec => GatedIngest
<1> DEFINE A == \A l \in Lines : fate'[l] # fate[l] =>
                  LET p == Proc(JobOf(l))
                  IN  Role(p) = "daemon" /\ setup.procs[p].cfgsync => proc[p].live > 0
<1>1. IInv /\ [Next]_vars => [A]_vars
  <2> SUFFICES ASSUME IInv, Next, NEW l \in Lines, fate'[l] # fate[l],
                      Role(Proc(JobOf(l))) = "daemon" /\ setup.procs[Proc(JobOf(l))].cfgsync
               PROVE  proc[Proc(JobOf(l))].live > 0
    OBVIOUS
  <2>1. \E j \in Jobs : \E m \in setup.jobs[j].lines : Settle(m)
    <3>1. fate' # fate
      OBVIOUS
    <3> QED
      BY <3>1
      DEF Next, Main, Work, Become, Go, Ingest, jobVars, Configure, Idle, Connect, Build,
          EnsureIndex, StartRun, Begin, Gate, Ingested, Reported, Close, Exit, Shutdown, Drained,
          GiveUp, Report, Watch, WatcherEnds, Signal, Kill, Leak, Accept, ClientGone, Publish,
          Finish
  <2>2. PICK m \in Lines : Settle(m)
    BY <2>1, Systems DEF IInv
  <2>3. fate \in [Lines -> {"pending", "settled", "closed"}]
    BY DEF IInv, TypeInv
  <2>4. m = l
    BY <2>2, <2>3 DEF Settle
  <2>5. JobOf(l) \in Jobs /\ Active(JobOf(l))
    BY <2>2, <2>4, Systems DEF Settle, IInv
  <2> QED
    BY <2>5, AtWork DEF Serves
<1>2. Spec => [][A]_vars
  BY <1>1, Invariant, PTL DEF Spec
<1> QED
  BY <1>2 DEF GatedIngest
=============================================================================
