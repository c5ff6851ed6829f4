-------------------------------- MODULE Roles --------------------------------
(***************************************************************************)
(* The processes around the pipeline: daemon, gateway and command line      *)
(* (internal/role) over one database, from start to exit.  Each connects,   *)
(* ensures the indexes, runs uploads and closes its connection.  A gateway  *)
(* serves concurrent requests, of which one may publish the configuration   *)
(* that a daemon's gate waits for.  An upload is what Upload promises, a    *)
(* watcher what ConfigStore does: a later document replaces an earlier one. *)
(***************************************************************************)
EXTENDS Naturals, FiniteSets

CONSTANT
  Setups  (* the systems to start: procs, from the processes to their role,  *)
          (* whether uri is set and whether cfgsync is enabled; jobs, from   *)
          (* the uploads and requests to their proc, kind and the lines that *)
          (* their source sends, each line of one upload;                    *)
          (* published, the version stored at the start; faults, kills,      *)
          (* leaks: TRUE if they may happen                                  *)

ASSUME SetupsAssumption ==
  \A s \in Setups :
    /\ \A p \in DOMAIN s.procs :
         /\ s.procs[p].role \in {"daemon", "gateway", "cli"}
         /\ {s.procs[p].uri, s.procs[p].cfgsync} \subseteq BOOLEAN
    /\ \A j \in DOMAIN s.jobs :
         /\ s.jobs[j].proc \in DOMAIN s.procs
         /\ s.jobs[j].kind \in {"upload", "config"}
         /\ s.jobs[j].kind = "config" => s.jobs[j].lines = {}
    /\ \A j, k \in DOMAIN s.jobs : j # k => s.jobs[j].lines \cap s.jobs[k].lines = {}
    /\ s.published \in Nat /\ {s.faults, s.kills, s.leaks} \subseteq BOOLEAN

VARIABLES
  setup,   (* the system, fixed at the start                                 *)
  proc,    (* each process: main, what its main goroutine does next; client, *)
           (* its MongoDB client; told, its context has ended; over, the fd  *)
           (* watchdog cancelled its run; leaking, it has more files open    *)
           (* than maxOpenFDs; reporter, watcher: these goroutines; live,    *)
           (* the version of its filter, 0 for the static one; ensured, the  *)
           (* collections whose indexes it ensured; forced, it stopped       *)
           (* waiting for its handlers                                       *)
  indexes, (* collections whose indexes exist                                *)
  doc,     (* the version of the central document, 0: none                   *)
  job,     (* each upload or request: "new", "running", "gone" (the client   *)
           (* left) or "answered", with or without an error                  *)
  fate     (* each line: "pending", "settled", or "closed": lost because the *)
           (* client was closed                                              *)

jobVars == <<job, fate>>
vars    == <<setup, proc, indexes, doc, jobVars>>

Procs     == DOMAIN setup.procs
Jobs      == DOMAIN setup.jobs
Role(p)   == setup.procs[p].role
Proc(j)   == setup.jobs[j].proc
JobsOf(p) == {j \in Jobs : Proc(j) = p}
Lines     == UNION {setup.jobs[j].lines : j \in Jobs}
JobOf(l)  == CHOOSE j \in Jobs : l \in setup.jobs[j].lines
Indexed   == {"identity", "user", "event", "dead"}

At(p, pc)  == proc[p].main = pc
Over(p)    == proc[p].main \in {"exited", "killed"}
RunDone(p) == proc[p].told \/ proc[p].over
Active(j)  == job[j] \in {"running", "gone"}

(* p does one step of its own and nothing else changes. *)
Become(p, record) ==
  /\ proc' = [proc EXCEPT ![p] = record]
  /\ UNCHANGED <<setup, indexes, doc, jobVars>>

Go(p, pc) == Become(p, [proc[p] EXCEPT !.main = pc])

Ingest(p) ==
  /\ proc' = [proc EXCEPT ![p].main = "ingest"]
  /\ job' = [j \in Jobs |-> IF Proc(j) = p THEN "running" ELSE job[j]]
  /\ UNCHANGED <<setup, indexes, doc, fate>>

(***************************************************************************)
(* Starting up.  The daemon builds its parser before it connects, an engine *)
(* after.                                                                   *)
(***************************************************************************)

(* Slicing the configuration may fail; without a uri the command line does,  *)
(* the daemon idles, and the gateway serves without an engine.               *)
Configure(p) ==
  /\ At(p, "start")
  /\ \/ setup.faults /\ Go(p, "exited")
     \/ setup.procs[p].uri /\ Go(p, IF Role(p) = "daemon" THEN "build" ELSE "connect")
     \/ /\ ~setup.procs[p].uri
        /\ Go(p, CASE Role(p) = "daemon" -> "idle" [] Role(p) = "gateway" -> "serve"
                   [] OTHER -> "exited")

Idle(p) == At(p, "idle") /\ proc[p].told /\ Go(p, "exited")

(* ConnectMongo disconnects again when the Ping fails. *)
Connect(p) ==
  /\ At(p, "connect")
  /\ \/ Become(p, [proc[p] EXCEPT !.main = IF Role(p) = "daemon" THEN "index" ELSE "build",
                                  !.client = "open"])
     \/ (setup.faults \/ proc[p].told) /\ Go(p, "exited")

(* If the filter does not compile, the engine closes its connection. *)
Build(p) ==
  /\ At(p, "build")
  /\ \/ Go(p, IF Role(p) = "daemon" THEN "connect" ELSE "index")
     \/ setup.faults /\ Go(p, IF Role(p) = "daemon" THEN "exited" ELSE "close")

Ensured(p, c) ==
  proc' = [proc EXCEPT ![p].ensured = @ \cup {c},
                       ![p].main = IF proc[p].ensured \cup {c} = Indexed THEN "run" ELSE "index"]

(* Faulty variant: an error is only logged. *)
FaultyEnsureIndex(p) ==
  /\ At(p, "index")
  /\ \E c \in Indexed \ proc[p].ensured :
       /\ Ensured(p, c)
       /\ indexes' \in IF setup.faults THEN {indexes, indexes \cup {c}} ELSE {indexes \cup {c}}
  /\ UNCHANGED <<setup, doc, jobVars>>

(* EnsureIndexes, one collection after the other, ends at the first error. *)
EnsureIndex(p) ==
  /\ At(p, "index")
  /\ \/ /\ LET c == CHOOSE c \in Indexed \ proc[p].ensured : TRUE
           IN  Ensured(p, c) /\ indexes' = indexes \cup {c}
        /\ UNCHANGED <<setup, doc, jobVars>>
     \/ (setup.faults \/ proc[p].told) /\ Go(p, "close")

(* The daemon starts the reporter, and like the gateway the watcher. *)
StartRun(p) ==
  /\ At(p, "run")
  /\ Become(p, [proc[p] EXCEPT
       !.main     = CASE Role(p) = "gateway" -> "serve"
                      [] Role(p) = "daemon" /\ setup.procs[p].cfgsync -> "gate"
                      [] OTHER -> "begin",
       !.reporter = IF Role(p) = "daemon" THEN "running" ELSE @,
       !.watcher  = IF Role(p) # "cli" /\ setup.procs[p].cfgsync THEN "running" ELSE @])

(* up.Run, or Engine.Run *)
Begin(p) == At(p, "begin") /\ Ingest(p)

(* Faulty variant: the daemon goes on when its context is done, and does not  *)
(* wait for the pipeline.                                                    *)
FaultyIngested(p) ==
  /\ At(p, "ingest")
  /\ RunDone(p) \/ \A j \in JobsOf(p) : ~Active(j)
  /\ Go(p, IF Role(p) = "daemon" THEN "report" ELSE "close")

(* It returned: every worker has flushed.  (The daemon's error path, which    *)
(* does not wait for the reporter, is dead: its uploader returns no error.)  *)
Ingested(p) ==
  /\ At(p, "ingest") /\ \A j \in JobsOf(p) : ~Active(j)
  /\ Go(p, IF Role(p) = "daemon" THEN "report" ELSE "close")

(* The deferred Shutdown, or Close; until the process exits, other           *)
(* goroutines may still run.                                                 *)
Close(p) ==
  /\ At(p, "close")
  /\ Become(p, [proc[p] EXCEPT !.main = "return", !.client = IF @ = "open" THEN "closed" ELSE @])

Exit(p) == At(p, "return") /\ Go(p, "exited")

(***************************************************************************)
(* The daemon.                                                              *)
(***************************************************************************)

(* Faulty variant: the gate's periodic warning lets the daemon through. *)
FaultyGate(p) ==
  /\ At(p, "gate")
  /\ \/ Ingest(p)
     \/ RunDone(p) /\ Go(p, "report")

(* Faulty variant: the gate waits for the signal only, not for the watchdog. *)
FaultyGateSignal(p) ==
  /\ At(p, "gate")
  /\ \/ proc[p].live > 0 /\ Ingest(p)
     \/ proc[p].told /\ Go(p, "report")

(* Run waits for a central configuration to be applied (Ready), or its end. *)
Gate(p) ==
  /\ At(p, "gate")
  /\ \/ proc[p].live > 0 /\ Ingest(p)
     \/ RunDone(p) /\ Go(p, "report")

(* <-reportDone *)
Reported(p) == At(p, "report") /\ proc[p].reporter = "done" /\ Go(p, "close")

(* Every 60 s the reporter compares the open files with maxOpenFDs; it ends   *)
(* with the run, or ends the run.                                            *)
Report(p) ==
  /\ proc[p].reporter = "running" /\ ~Over(p) /\ (proc[p].leaking \/ RunDone(p))
  /\ Become(p, [proc[p] EXCEPT !.reporter = "done", !.over = @ \/ ~RunDone(p)])

(***************************************************************************)
(* The watcher of a daemon or a gateway.                                    *)
(***************************************************************************)

(* Faulty variant: only what is published from now on. *)
FaultyWatch(p) ==
  /\ proc[p].watcher = "running" /\ proc[p].client = "open" /\ ~Over(p)
  /\ proc[p].live < doc /\ doc > setup.published
  /\ Become(p, [proc[p] EXCEPT !.live = doc])

Watch(p) ==
  /\ proc[p].watcher = "running" /\ proc[p].client = "open" /\ ~Over(p) /\ proc[p].live < doc
  /\ Become(p, [proc[p] EXCEPT !.live = doc])

(* It ends with its context, or on a fatal error that is only logged. *)
WatcherEnds(p) ==
  /\ proc[p].watcher = "running" /\ ~Over(p) /\ (RunDone(p) \/ setup.faults)
  /\ Become(p, [proc[p] EXCEPT !.watcher = "ended"])

(***************************************************************************)
(* The gateway.                                                             *)
(***************************************************************************)

(* A request comes; without an engine every route answers 503. *)
Accept(j) ==
  /\ At(Proc(j), "serve") /\ job[j] = "new"
  /\ job' = [job EXCEPT ![j] = IF proc[Proc(j)].client = "none" THEN "answered" ELSE "running"]
  /\ UNCHANGED <<setup, proc, indexes, doc, fate>>

(* POST /config: the document is stored, or it is refused or the call fails. *)
Publish(j) ==
  LET client == proc[Proc(j)].client
  IN  /\ setup.jobs[j].kind = "config" /\ Active(j) /\ ~Over(Proc(j))
      /\ \/ client = "open" /\ doc' = doc + 1
         \/ (setup.faults \/ client = "closed" \/ job[j] = "gone") /\ UNCHANGED doc
      /\ job' = [job EXCEPT ![j] = "answered"]
      /\ UNCHANGED <<setup, proc, indexes, fate>>

(* The client of a request goes away, and its context ends. *)
ClientGone(j) ==
  /\ setup.faults /\ Role(Proc(j)) = "gateway" /\ job[j] = "running" /\ ~Over(Proc(j))
  /\ job' = [job EXCEPT ![j] = "gone"]
  /\ UNCHANGED <<setup, proc, indexes, doc, fate>>

(* The context ends: listen no more, and wait for the handlers. *)
Shutdown(p) == At(p, "serve") /\ proc[p].told /\ Go(p, "drain")

(* Faulty variant: Close of http.Server instead of Shutdown. *)
FaultyDrained(p) == At(p, "drain") /\ Go(p, "close")

Drained(p) == At(p, "drain") /\ (\A j \in JobsOf(p) : ~Active(j)) /\ Go(p, "close")

(* Nobody waits for the handlers any more, 10 s after the end of the context *)
(* or when the listener fails.                                               *)
GiveUp(p) ==
  /\ At(p, "drain") \/ (At(p, "serve") /\ setup.faults)
  /\ Become(p, [proc[p] EXCEPT !.main = "close", !.forced = TRUE])

(***************************************************************************)
(* An upload, as Upload promises it.                                        *)
(***************************************************************************)

(* A line reaches its end: a collection, the filter, or a failed write. *)
Settle(l) ==
  /\ Active(JobOf(l)) /\ ~Over(Proc(JobOf(l))) /\ fate[l] = "pending"
  /\ fate' = [fate EXCEPT ![l] = IF proc[Proc(JobOf(l))].client = "open" THEN "settled" ELSE "closed"]
  /\ UNCHANGED <<setup, proc, indexes, doc, job>>

(* The upload returns at the end of its source, which a daemon's has only    *)
(* with its run, or once its context is done, with lines unread perhaps.     *)
(* That may show in the answer of the single and the batch strategy, as in   *)
(* Sequential, and never in the pipeline's, which has no error.              *)
Finish(j) ==
  LET stopped == job[j] = "gone" \/ (Role(Proc(j)) = "daemon" /\ RunDone(Proc(j)))
      unread  == \E l \in setup.jobs[j].lines : fate[l] = "pending"
  IN  /\ setup.jobs[j].kind = "upload" /\ Active(j) /\ ~Over(Proc(j))
      /\ stopped \/ (~unread /\ Role(Proc(j)) # "daemon")
      /\ job' = [job EXCEPT ![j] = "answered"]
      /\ UNCHANGED <<setup, proc, indexes, doc, fate>>

(***************************************************************************)
(* The environment.                                                         *)
(***************************************************************************)

(* SIGTERM to a daemon; to a gateway, the end of the context it was given.   *)
Signal(p) ==
  /\ Role(p) # "cli" /\ ~proc[p].told /\ ~Over(p)
  /\ Become(p, [proc[p] EXCEPT !.told = TRUE])

(* A kill, which SIGTERM is for the roles that do not install a handler.     *)
Kill(p) ==
  /\ setup.kills /\ ~Over(p)
  /\ Become(p, [proc[p] EXCEPT !.main = "killed", !.client = IF @ = "open" THEN "closed" ELSE @])

Leak(p) ==
  /\ setup.leaks /\ Role(p) = "daemon" /\ ~proc[p].leaking /\ ~Over(p)
  /\ Become(p, [proc[p] EXCEPT !.leaking = TRUE])

-----------------------------------------------------------------------------
Init ==
  /\ setup \in Setups
  /\ proc = [p \in Procs |->
       [main |-> "start", client |-> "none", told |-> FALSE, over |-> FALSE, leaking |-> FALSE,
        reporter |-> "none", watcher |-> "none", live |-> 0, ensured |-> {}, forced |-> FALSE]]
  /\ indexes = {}
  /\ doc = setup.published
  /\ job = [j \in Jobs |-> "new"]
  /\ fate = [l \in Lines |-> "pending"]

(* What the main goroutine does next; the 10 s of a gateway pass. *)
Main(p) ==
  \/ Configure(p) \/ Idle(p) \/ Connect(p) \/ Build(p) \/ EnsureIndex(p) \/ StartRun(p)
  \/ Begin(p) \/ Gate(p) \/ Ingested(p) \/ Reported(p) \/ Close(p) \/ Exit(p)
  \/ Shutdown(p) \/ Drained(p)
  \/ At(p, "drain") /\ GiveUp(p)

Work(j) == Publish(j) \/ Finish(j) \/ \E l \in setup.jobs[j].lines : Settle(l)

Next ==
  \/ \E p \in Procs : Main(p) \/ GiveUp(p) \/ Report(p) \/ Watch(p) \/ WatcherEnds(p)
                        \/ Signal(p) \/ Kill(p) \/ Leak(p)
  \/ \E j \in Jobs : Accept(j) \/ Work(j) \/ ClientGone(j)

AllProcs == UNION {DOMAIN s.procs : s \in Setups}

(* Goroutines are scheduled and tickers tick. *)
Fairness ==
  /\ \A p \in AllProcs : /\ WF_vars(p \in Procs /\ Main(p))
                         /\ WF_vars(p \in Procs /\ Report(p))
                         /\ WF_vars(p \in Procs /\ Watch(p))
  /\ \A j \in UNION {DOMAIN s.jobs : s \in Setups} : WF_vars(j \in Jobs /\ Work(j))

Spec == Init /\ [][Next]_vars /\ Fairness

-----------------------------------------------------------------------------
(***************************************************************************)
(* Properties.                                                              *)
(***************************************************************************)

(* Every variable has its type (role.Role, api.Engine), a filter is a         *)
(* published one, and what a process has ensured exists.                     *)
TypeOK ==
  /\ setup \in Setups /\ indexes \subseteq Indexed /\ doc \in Nat
  /\ \A p \in Procs :
       /\ proc[p].main \in {"start", "idle", "connect", "build", "index", "run", "begin", "gate",
                            "ingest", "report", "serve", "drain", "close", "return", "exited",
                            "killed"}
       /\ proc[p].client \in {"none", "open", "closed"}
       /\ proc[p].reporter \in {"none", "running", "done"}
       /\ proc[p].watcher \in {"none", "running", "ended"}
       /\ {proc[p].told, proc[p].over, proc[p].leaking, proc[p].forced} \subseteq BOOLEAN
       /\ proc[p].live \in 0 .. doc
       /\ proc[p].ensured \subseteq indexes
  /\ job \in [Jobs -> {"new", "running", "gone", "answered"}]
  /\ fate \in [Lines -> {"pending", "settled", "closed"}]

(* No process writes a line before all the indexes exist (Role.Run): the      *)
(* identity resolver and the upserts rely on the unique ones, and a process   *)
(* may be killed, or fail, half way through their creation.                  *)
IndexedFirst ==
  /\ TypeOK
  /\ (\E l \in Lines : fate[l] = "settled") => indexes = Indexed

(* The connection lives as long as it is needed and no longer: no line is     *)
(* lost to one that its own process closed while the upload was running,     *)
(* except by a gateway that gave up waiting for its handlers, and whichever  *)
(* step of a role fails or ends, the process leaves none open, and a daemon  *)
(* no reporter behind (Role.Run, Service.Run, Server.Run).                   *)
ConnectionLifetime ==
  /\ \A l \in Lines : fate[l] = "closed" => proc[Proc(JobOf(l))].forced
  /\ \A p \in Procs : At(p, "exited") => proc[p].client # "open" /\ proc[p].reporter # "running"

(* A process that ends by itself leaves no work behind: when it closes its    *)
(* connection, and when it exits, every request it accepted is answered and  *)
(* its own upload has returned, whatever told it to end and whenever clients *)
(* went away (Server.Run, Service.Run, Engine.Run).  The exception is a      *)
(* gateway that gave up waiting for its handlers.                            *)
AnsweredBeforeExit ==
  \A j \in Jobs :
    Active(j) /\ proc[Proc(j)].main \in {"close", "return", "exited"} => proc[Proc(j)].forced

(* A daemon with cfgsync enabled handles no line before a central document is *)
(* applied (Service.Run: fail-closed), be it that none was published, that    *)
(* the watcher died, or that the daemon is stopped meanwhile.                *)
GatedIngest ==
  [][\A l \in Lines : fate'[l] # fate[l] =>
       LET p == Proc(JobOf(l))
       IN  Role(p) = "daemon" /\ setup.procs[p].cfgsync => proc[p].live > 0]_vars

(* A signal ends every process that handles it, and too many open files end   *)
(* a daemon, wherever it is: at the gate, ingesting, or shutting down         *)
(* (reportStats, Role.Run).                                                  *)
StopEnds ==
  \A p \in AllProcs :
    /\ (p \in Procs /\ proc[p].told) ~> (p \in Procs => Over(p))
    /\ (p \in Procs /\ proc[p].leaking /\ proc[p].reporter # "none") ~> (p \in Procs => Over(p))

(* Once a document is published, by a gateway or before the start, a daemon   *)
(* does not stay at its gate unless its watcher is dead (Watcher.Ready).     *)
GateOpens ==
  \A p \in AllProcs :
    (p \in Procs /\ doc > 0 /\ At(p, "gate"))
      ~> (p \in Procs => ~At(p, "gate") \/ proc[p].watcher = "ended")
=============================================================================
