--------------------------- MODULE RuntimeLifecycle ---------------------------
(***************************************************************************)
(* llm_installation/runtime_lifecycle.py, config_store.py,                 *)
(* memory_reservations.py and cleanup.py, as install.py and                *)
(* scripts/calibrate_llm_concurrency.py call them: an operator's command   *)
(* replaces, resumes, removes or calibrates the container that serves the  *)
(* language model, one Docker call or one file at a time, while another    *)
(* process activates an embedding runtime or synchronises the memory       *)
(* claims.  A command may be killed between any two of its steps.          *)
(*                                                                         *)
(* Docker's answers are cases: a container may fail to be created, to      *)
(* start, to become healthy.  Whether it is running, its restart policy,   *)
(* its image and the commands that change nothing else (pause) are left    *)
(* out, and so is a configuration older than the generations.              *)
(***************************************************************************)
EXTENDS Naturals

CONSTANTS
  MaxGens,     \* bound: generations staged
  EmbGens,     \* generations of the embedding runtime
  MaxCommands, \* bound: commands of the operator
  MaxEmbRuns,  \* bound: embedding activations and synchronisations
  MaxKills     \* bound: commands killed

ASSUME RuntimeAssumption ==
  /\ MaxGens \in Nat \ {0} /\ EmbGens \subseteq 1..MaxGens
  /\ {MaxCommands, MaxEmbRuns, MaxKills} \subseteq Nat

VARIABLES
  container,   \* the generation of the managed container, or None
  aside,       \* the generation of the container renamed to -previous, or None
  active,      \* llm_runtime.json: the active generation, or None
  embActive,   \* embedding_runtime.json
  generations, \* [count, trial, origin]: what was staged
  status,      \* runtime_status.json
  claims,      \* memory_reservations.json: the generation each workload claims for
  op,          \* the operator's command
  emb,         \* the embedding activation or the synchronisation of the claims
  runs,        \* [commands, embedding, kills] so far
  excuses      \* ghosts: what is known to have gone wrong

runtimeVars ==
  <<container, aside, active, embActive, generations, status, claims, op, emb, runs, excuses>>

None == 0
Gens == 1..MaxGens
GenOrNone == 0..MaxGens
Claims == [llm : GenOrNone, embedding : GenOrNone]
NoClaims == [llm |-> None, embedding |-> None]
Statuses == [kind : {"none", "starting", "healthy", "unavailable"}, gen : GenOrNone]
NoStatus == [kind |-> "none", gen |-> None]

(* change: --change-llm, --rebuild; restore, try, select, undo: the runtime *)
(* changes of a calibration.                                                *)
Tasks == {"none", "change", "resume", "remove", "restore", "try", "select", "undo"}
(* had: a container was set aside; was: the status before; first: the       *)
(* generation a calibration started from; seen: the claims as read.         *)
OpPhases ==
  {"idle", "rename", "launch", "wait", "commit", "clean", "mark", "claimRead",
   "claimWrite", "discard", "putBack", "report", "applied", "failed", "wipe"}
Ops == [task : Tasks, phase : OpPhases, gen : GenOrNone, had : BOOLEAN,
        was : Statuses, first : GenOrNone, seen : Claims]
NoOp == [task |-> "none", phase |-> "idle", gen |-> None, had |-> FALSE,
         was |-> NoStatus, first |-> None, seen |-> NoClaims]
Embs == [phase : {"idle", "syncRead", "syncWrite", "load", "read", "write"},
         gen : GenOrNone, seen : Claims]
NoEmb == [phase |-> "idle", gen |-> None, seen |-> NoClaims]

(* Nothing is installed yet, or both runtimes are.                          *)
RuntimeInit ==
  /\ active \in {None, 1} /\ container = active /\ aside = None /\ embActive = active
  /\ generations = [count |-> active, trial |-> {}, origin |-> [g \in Gens |-> None]]
  /\ status = IF active = None THEN NoStatus ELSE [kind |-> "healthy", gen |-> active]
  /\ claims = [llm |-> active, embedding |-> active]
  /\ op = NoOp /\ emb = NoEmb
  /\ runs = [commands |-> 0, embedding |-> 0, kills |-> 0]
  /\ excuses = [killed |-> {}, left |-> FALSE, overlapped |-> FALSE, abandoned |-> {}]

-----------------------------------------------------------------------------
(* Commands.                                                                *)

Command ==
  /\ op.phase = "idle"
  /\ runs.commands < MaxCommands
  /\ runs' = [runs EXCEPT !.commands = @ + 1]

(* apply reads the status before it touches the container.                  *)
BeginApply(task, g, first) ==
  op' = [NoOp EXCEPT !.task = task, !.phase = "rename", !.gen = g,
                     !.was = status, !.first = first]

(* A calibration clones the active generation and passes on where the       *)
(* first calibration of the chain started.                                  *)
Origin == IF generations.origin[active] # None THEN generations.origin[active] ELSE active
Stage(task, first) ==
  LET g == generations.count + 1 IN
  /\ g \in Gens
  /\ generations' =
       [count |-> g,
        trial |-> IF task = "try" THEN generations.trial \cup {g} ELSE generations.trial,
        origin |-> IF task = "change" THEN generations.origin
                   ELSE [generations.origin EXCEPT ![g] = Origin]]
  /\ BeginApply(task, g, first)

Change ==
  /\ Command
  /\ Stage("change", None)
  /\ UNCHANGED <<container, aside, active, embActive, status, claims, emb, excuses>>

Rebuild ==
  /\ Command /\ active # None
  /\ BeginApply("change", active, None)
  /\ UNCHANGED <<container, aside, active, embActive, generations, status, claims, emb, excuses>>

(* An interrupted calibration is undone first.                              *)
Calibrate ==
  /\ Command /\ active # None
  /\ IF active \in generations.trial
       THEN BeginApply("restore", generations.origin[active], None) /\ UNCHANGED generations
       ELSE Stage("try", active)
  /\ UNCHANGED <<container, aside, active, embActive, status, claims, emb, excuses>>

-----------------------------------------------------------------------------
(* apply.                                                                   *)

At(phase) == op.phase = phase
Goto(phase) == op' = [op EXCEPT !.phase = phase]

(* The container is set aside, unless an older one still has that name.     *)
SetAside ==
  /\ At("rename")
  /\ LET had == container # None /\ aside = None IN
       /\ op' = [op EXCEPT !.phase = "launch", !.had = had]
       /\ IF had THEN container' = None /\ aside' = container
                 ELSE UNCHANGED <<container, aside>>
  /\ UNCHANGED <<active, embActive, generations, status, claims, emb, runs, excuses>>

(* Wrong variant of Launch: the pointer moves before the validation.        *)
LaunchCommitted ==
  /\ At("launch")
  /\ container' = op.gen
  /\ active' = op.gen
  /\ \/ Goto("wait") /\ status' = [kind |-> "starting", gen |-> op.gen]
     \/ Goto("discard") /\ UNCHANGED status
  /\ UNCHANGED <<aside, embActive, generations, claims, emb, runs, excuses>>

(* _run_candidate removes what still has the container's name.              *)
Launch ==
  /\ At("launch")
  /\ container' = op.gen
  /\ \/ Goto("wait") /\ status' = [kind |-> "starting", gen |-> op.gen]
     \/ Goto("discard") /\ UNCHANGED status
  /\ UNCHANGED <<aside, active, embActive, generations, claims, emb, runs, excuses>>

(* Health, the endpoints and the restart policy.                            *)
Validate ==
  /\ At("wait") /\ op.task # "resume"
  /\ Goto("commit") \/ Goto("discard")
  /\ UNCHANGED <<container, aside, active, embActive, generations, status, claims, emb, runs, excuses>>

Commit ==
  /\ At("commit")
  /\ active' = op.gen
  /\ Goto("clean")
  /\ UNCHANGED <<container, aside, embActive, generations, status, claims, emb, runs, excuses>>

Clean ==
  /\ At("clean")
  /\ aside' = IF op.had THEN None ELSE aside
  /\ Goto("mark")
  /\ UNCHANGED <<container, active, embActive, generations, status, claims, emb, runs, excuses>>

Mark ==
  /\ At("mark")
  /\ status' = [kind |-> "healthy", gen |-> op.gen]
  /\ Goto("claimRead")
  /\ UNCHANGED <<container, aside, active, embActive, generations, claims, emb, runs, excuses>>

(* The claims are read and written back without a lock.                     *)
ClaimRead ==
  /\ At("claimRead")
  /\ op' = [op EXCEPT !.phase = "claimWrite", !.seen = claims]
  /\ UNCHANGED <<container, aside, active, embActive, generations, status, claims, emb, runs, excuses>>

Claimed(seen, workload, g) == [seen EXCEPT ![workload] = g]

(* How a command that came to its end leaves.                               *)
Leave ==
  op' = IF op.task \in {"change", "resume", "remove"} THEN NoOp ELSE [op EXCEPT !.phase = "applied"]

ClaimWrite ==
  /\ At("claimWrite") /\ op.task # "remove"
  /\ claims' = Claimed(op.seen, "llm", op.gen)
  /\ excuses' = [excuses EXCEPT !.killed = @ \ {"llm"}, !.overlapped = @ \/ claims # op.seen]
  /\ Leave
  /\ UNCHANGED <<container, aside, active, embActive, generations, status, emb, runs>>

Discard ==
  /\ At("discard")
  /\ container' = None
  /\ op' = IF op.task = "resume" THEN NoOp ELSE [op EXCEPT !.phase = "putBack"]
  /\ UNCHANGED <<aside, active, embActive, generations, status, claims, emb, runs, excuses>>

PutBack ==
  /\ At("putBack")
  /\ IF op.had THEN container' = aside /\ aside' = None ELSE UNCHANGED <<container, aside>>
  /\ Goto("report")
  /\ UNCHANGED <<active, embActive, generations, status, claims, emb, runs, excuses>>

(* The previous container may fail to start again.                          *)
Report ==
  /\ At("report")
  /\ \/ op.had /\ status' = op.was
     \/ status' = [kind |-> "unavailable", gen |-> op.gen]
  /\ op' = IF op.task = "change" THEN NoOp ELSE [op EXCEPT !.phase = "failed"]
  /\ UNCHANGED <<container, aside, active, embActive, generations, claims, emb, runs, excuses>>

-----------------------------------------------------------------------------
(* Calibration, between its runtime changes.                                *)

Quit == op' = NoOp /\ UNCHANGED generations
Undo == BeginApply("undo", op.first, op.first) /\ UNCHANGED generations

(* Another concurrency, the selection, or a failed measurement.             *)
NextRound ==
  /\ At("applied")
  /\ \/ op.task = "restore" /\ Stage("try", active)
     \/ op.task = "try" /\ (Stage("try", op.first) \/ Stage("select", op.first) \/ Undo)
     \/ op.task = "select" /\ (Quit \/ Undo)
     \/ op.task = "undo" /\ Quit
  /\ UNCHANGED <<container, aside, active, embActive, status, claims, emb, runs, excuses>>

(* A candidate that fails ends the rounds; what was measured is selected.   *)
RoundFails ==
  /\ At("failed")
  /\ \/ op.task = "try" /\ active # op.first /\ (Stage("select", op.first) \/ Undo)
     \/ op.task = "select" /\ Undo
     \/ op.task \in {"try", "restore", "undo"} /\ (op.task = "try" => active = op.first) /\ Quit
  /\ excuses' = IF op.task = "undo"
                  THEN [excuses EXCEPT !.abandoned = @ \cup ({active} \cap generations.trial)]
                  ELSE excuses
  /\ UNCHANGED <<container, aside, active, embActive, status, claims, emb, runs>>

-----------------------------------------------------------------------------
(* resume.                                                                  *)

Resume ==
  /\ Command /\ active # None
  /\ \/ /\ container = active
        /\ UNCHANGED <<container, status>>
     \/ /\ container = None
        /\ container' = active
        /\ status' = [kind |-> "starting", gen |-> active]
  /\ op' = [NoOp EXCEPT !.task = "resume", !.phase = "wait", !.gen = active]
  /\ UNCHANGED <<aside, active, embActive, generations, claims, emb, excuses>>

ResumeFails ==
  /\ Command /\ active # None
  /\ container \in {None, active}
  /\ container' \in {container, active}
  /\ status' = [kind |-> "unavailable", gen |-> active]
  /\ UNCHANGED <<aside, active, embActive, generations, claims, op, emb, excuses>>

(* The status is written before the container that failed is removed.       *)
Resumed ==
  /\ At("wait") /\ op.task = "resume"
  /\ \/ Goto("claimRead") /\ status' = [kind |-> "healthy", gen |-> op.gen]
     \/ Goto("discard") /\ status' = [kind |-> "unavailable", gen |-> op.gen]
  /\ UNCHANGED <<container, aside, active, embActive, generations, claims, emb, runs, excuses>>

-----------------------------------------------------------------------------
(* Shutdown and removal.                                                    *)

Shutdown ==
  /\ Command
  /\ container' = None
  /\ UNCHANGED <<aside, active, embActive, generations, status, claims, op, emb, excuses>>

RemoveRuntime ==
  /\ Command
  /\ container' = None
  /\ op' = [NoOp EXCEPT !.task = "remove", !.phase = "wipe"]
  /\ UNCHANGED <<aside, active, embActive, generations, status, claims, emb, excuses>>

(* The directory of the scope holds the embedding's files as well.          *)
Wipe ==
  /\ At("wipe")
  /\ active' = None /\ embActive' = None
  /\ status' = NoStatus /\ claims' = NoClaims
  /\ Goto("claimRead")
  /\ UNCHANGED <<container, aside, generations, emb, runs, excuses>>

Unclaim ==
  /\ At("claimWrite") /\ op.task = "remove"
  /\ IF op.seen.llm = None
       THEN UNCHANGED claims /\ excuses' = [excuses EXCEPT !.killed = @ \ {"llm"}]
       ELSE /\ claims' = Claimed(op.seen, "llm", None)
            /\ excuses' = [excuses EXCEPT !.killed = @ \ {"llm"}, !.overlapped = @ \/ claims # op.seen]
  /\ Leave
  /\ UNCHANGED <<container, aside, active, embActive, generations, status, emb, runs>>

-----------------------------------------------------------------------------
(* The embedding runtime and sync_memory_reservations.                      *)

EmbGoto(phase) == emb' = [emb EXCEPT !.phase = phase]

EmbCommand ==
  /\ emb.phase = "idle"
  /\ runs.embedding < MaxEmbRuns
  /\ runs' = [runs EXCEPT !.embedding = @ + 1]

Activate(g) ==
  /\ EmbCommand
  /\ embActive' = g
  /\ emb' = [NoEmb EXCEPT !.phase = "read", !.gen = g]
  /\ UNCHANGED <<container, aside, active, generations, status, claims, op, excuses>>

Sync ==
  /\ EmbCommand
  /\ emb' = [NoEmb EXCEPT !.phase = "syncRead", !.gen = active]
  /\ UNCHANGED <<container, aside, active, embActive, generations, status, claims, op, excuses>>

(* The claim of a generation whose files are gone is not written.           *)
EmbRead ==
  /\ \/ emb.phase = "syncRead"
        /\ emb' = IF emb.gen # None /\ active = None
                    THEN [emb EXCEPT !.phase = "load"]
                    ELSE [emb EXCEPT !.phase = "syncWrite", !.seen = claims]
     \/ emb.phase = "load"
        /\ emb' = IF embActive = None THEN NoEmb
                  ELSE [emb EXCEPT !.phase = "read", !.gen = embActive]
     \/ emb.phase = "read"
        /\ emb' = IF embActive = None THEN NoEmb
                  ELSE [emb EXCEPT !.phase = "write", !.seen = claims]
  /\ UNCHANGED <<container, aside, active, embActive, generations, status, claims, op, runs, excuses>>

SyncWrite ==
  /\ emb.phase = "syncWrite"
  /\ EmbGoto("load")
  /\ IF emb.gen = None /\ emb.seen.llm = None
       THEN UNCHANGED <<claims, excuses>>
       ELSE /\ claims' = Claimed(emb.seen, "llm", emb.gen)
            /\ excuses' = [excuses EXCEPT !.overlapped = @ \/ claims # emb.seen \/ active # emb.gen]
  /\ UNCHANGED <<container, aside, active, embActive, generations, status, op, runs>>

EmbWrite ==
  /\ emb.phase = "write"
  /\ emb' = NoEmb
  /\ claims' = Claimed(emb.seen, "embedding", emb.gen)
  /\ excuses' = [excuses EXCEPT !.killed = @ \ {"embedding"},
                                !.overlapped = @ \/ claims # emb.seen \/ embActive # emb.gen]
  /\ UNCHANGED <<container, aside, active, embActive, generations, status, op, runs>>

-----------------------------------------------------------------------------
(* A kill.                                                                  *)

Kill ==
  /\ runs.kills < MaxKills
  /\ runs' = [runs EXCEPT !.kills = @ + 1]
  /\ \/ /\ op.phase # "idle"
        /\ op' = NoOp /\ UNCHANGED emb
        /\ excuses' = [excuses EXCEPT !.killed = @ \cup {"llm"}, !.left = @ \/ aside # None,
                                      !.abandoned = @ \cup ({active} \cap generations.trial)]
     \/ /\ emb.phase # "idle"
        /\ emb' = NoEmb /\ UNCHANGED op
        /\ excuses' = [excuses EXCEPT !.killed = @ \cup {"embedding"}]
  /\ UNCHANGED <<container, aside, active, embActive, generations, status, claims>>

OperatorStep ==
  \/ Change \/ Rebuild \/ Calibrate \/ SetAside \/ Launch \/ Validate \/ Commit \/ Clean
  \/ Mark \/ ClaimRead \/ ClaimWrite \/ Discard \/ PutBack \/ Report \/ NextRound \/ RoundFails
  \/ Resume \/ ResumeFails \/ Resumed \/ Shutdown \/ RemoveRuntime \/ Wipe \/ Unclaim

EmbeddingStep ==
  \/ \E g \in EmbGens : Activate(g)
  \/ Sync \/ EmbRead \/ SyncWrite \/ EmbWrite

RuntimeNext == OperatorStep \/ EmbeddingStep \/ Kill

RuntimeSpec == RuntimeInit /\ [][RuntimeNext]_runtimeVars

-----------------------------------------------------------------------------
(* Properties.                                                              *)

RuntimeTypeOK ==
  /\ {container, aside, active, embActive} \subseteq GenOrNone
  /\ generations \in [count : GenOrNone, trial : SUBSET Gens, origin : [Gens -> GenOrNone]]
  /\ status \in Statuses
  /\ claims \in Claims
  /\ op \in Ops /\ emb \in Embs
  /\ runs \in [commands : 0..MaxCommands, embedding : 0..MaxEmbRuns, kills : 0..MaxKills]
  /\ excuses \in [killed : SUBSET {"llm", "embedding"}, left : BOOLEAN,
                  overlapped : BOOLEAN, abandoned : SUBSET Gens]

(* Between commands, and unless a kill has not been repaired since, the     *)
(* container there is and the status that says healthy are the pointer's    *)
(* generation, also when a candidate failed at any step; only a kill leaves *)
(* a container set aside; and a calibration leaves none of its candidates   *)
(* active unless it was killed or could not undo itself.                    *)
RuntimeConsistent ==
  /\ op.phase = "idle" /\ "llm" \notin excuses.killed =>
       /\ container \in {None, active}
       /\ status.kind = "healthy" => status.gen = active
  /\ aside # None => op.had \/ excuses.left
  /\ op.phase = "idle" /\ active \in generations.trial => active \in excuses.abandoned

(* At rest, the memory claimed for each workload is that of its active      *)
(* generation, unless a command was killed or two wrote the file at once.   *)
ClaimsMatch ==
  op.phase = "idle" /\ emb.phase = "idle" /\ ~excuses.overlapped =>
    /\ "llm" \in excuses.killed \/ claims.llm = active
    /\ "embedding" \in excuses.killed \/ claims.embedding = embActive

(* What one command leaves for the next: the container, the pointer, the    *)
(* status and the claims agree, whatever failed on the way.                 *)
RuntimeSettled == RuntimeConsistent /\ ClaimsMatch

=============================================================================
