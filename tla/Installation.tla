----------------------------- MODULE Installation -----------------------------
(***************************************************************************)
(* install.py with installation/ (deployment plan, external access): the   *)
(* operator's commands on one host.  A command is a list of steps, each a  *)
(* Docker call or the write of a file; a Docker call may fail, and the     *)
(* command may be killed between two steps (dotori_tray.py kills it after  *)
(* a minute).  One command runs at a time.                                 *)
(*                                                                         *)
(* The replacement of the language model's container is one step with its  *)
(* outcomes (its own steps: RuntimeLifecycle), and so is the change of the *)
(* embedding runtime in its container (EmbeddingRuntimeChange).  Compose   *)
(* starts what a service depends on: app needs embedding-executor; the     *)
(* parser executor and the orchestrator are one, "documents"; db and redis *)
(* follow app.  Images, weights and what is printed are left out.          *)
(***************************************************************************)
EXTENDS Naturals, Sequences, SequencesExt, FiniteSets

CONSTANTS
  Catalog,         \* embedding models of the catalog
  DefaultModel,    \* the one the wizard recommends
  Endpoints,       \* <<model, url>>: external endpoints that answer the probe
  MaxRuntimes,     \* bound: generations of the language model staged
  MaxInstalls,     \* bound: commands
  MaxInstallKills  \* bound: commands killed

ASSUME InstallationAssumption ==
  /\ DefaultModel \in Catalog
  /\ "none" \notin {e[2] : e \in Endpoints}
  /\ {MaxRuntimes, MaxInstalls, MaxInstallKills} \subseteq Nat /\ MaxRuntimes > 0

VARIABLES
  env,       \* .env: [file, token, mode, login, url]
  provider,  \* data/config/network_access: absent, as created, edited
  up,        \* the Compose services that run
  with,      \* what app was last started with: [external, login]
  llm,       \* the managed container of the language model: [state, gen]
  saved,     \* data/config: [active, pending, staged, emb, plan]
  docs,      \* the model the stored vectors are of, "none" or "mixed"
  command,   \* the command that runs: the steps left, and its arguments
  counts,    \* [installs, kills] so far
  probed,    \* ghost: the endpoints a change accepted
  missed     \* ghost: what was declined, failed or never ran

installationVars == <<env, provider, up, with, llm, saved, docs, command, counts, probed, missed>>
hostVars == <<env, provider, up, with, llm, saved, docs, probed>>

OperationModes == {"rag", "search", "basic"}
Models == Catalog \cup {e[1] : e \in Endpoints}
EndpointUrls == {"example"} \cup {e[2] : e \in Endpoints}
Candidates == [model : Catalog, url : {"none"}] \cup [model : Models, url : EndpointUrls]
Endpoint(c) == IF c.url = "none" THEN {} ELSE {<<c.model, c.url>>}
NoCandidate == [model |-> DefaultModel, url |-> "none"]
Absent == 0
NoRuntime == [state |-> "absent", gen |-> Absent]

(* CORE_SERVICES, ALL_WORKER_SERVICES and the plan's enabled services. *)
Workers == {"embedding", "documents"}
EnabledServices(mode) == {"app"} \cup IF mode = "basic" THEN {} ELSE Workers
DependsOn(services) ==
  services \cup IF "nginx" \in services THEN {"app", "embedding"}
                ELSE IF services # {} THEN {"embedding"} ELSE {}

(* .env, when there is one, names a mode: the template does.               *)
SavedOperationMode ==
  IF env.file # "none" THEN env.mode
  ELSE IF saved.plan # "none" THEN saved.plan ELSE "basic"

StartSteps == <<"stopNginx", "stopDisabled", "up", "llm", "plan">>
PauseSteps == <<"pause", "pauseLlm">>
(* The URL of an external endpoint is written before anything is asked.    *)
ChangeSteps(candidate) ==
  (IF candidate.url = "none" THEN <<>> ELSE <<"url">>)
    \o <<"compare", "ask", "halt", "change", "recreate">>
EnsureSteps == IF env.file = "none" THEN <<"copy", "secrets">> ELSE <<"backfill">>

AtRest ==
  [todo |-> <<>>, launch |-> FALSE, runtime |-> "resume", candidate |-> NoCandidate,
   skip |-> FALSE, ok |-> TRUE, mode |-> "basic", login |-> FALSE]

OneStep(s) == command.todo # <<>> /\ Head(command.todo) = s
Unlaunched == IF command.launch THEN {"start", "login"} ELSE {}
(* What a step that does not happen leaves undone.                         *)
PartOf(s) ==
  CASE s \in {"stopNginx", "stopExternal", "upLocal", "pause"} -> "nginx"
    [] s \in {"up", "plan"} -> "start"
    [] s = "stopDisabled" -> "workers"
    [] s = "recreate" -> "endpoint"
    [] OTHER -> s
Parts == {"nginx", "start", "workers", "llm", "secrets", "login", "endpoint", "vectors"}
Miss(parts) == missed' = missed \cup (parts \cap Parts)
Redo(parts) == missed' = missed \ parts
(* The command goes on, stops here, or goes on to start the services.      *)
Quit == command' = AtRest
Finish == IF command.launch
            THEN command' = [command EXCEPT !.todo = StartSteps, !.launch = FALSE]
            ELSE Quit
Proceed == IF Len(command.todo) = 1 THEN Finish ELSE command' = [command EXCEPT !.todo = Tail(@)]

(* A new host, or one the wizard has set up in some mode, with documents   *)
(* where there can be some and with the files of the external access.      *)
InstallationInit ==
  /\ with = [external |-> FALSE, login |-> FALSE]
  /\ command = AtRest /\ counts = [installs |-> 0, kills |-> 0] /\ probed = {} /\ missed = {}
  /\ \/ /\ env = [file |-> "none", token |-> "example", mode |-> "rag", login |-> FALSE, url |-> "example"]
        /\ provider = "none" /\ up = {} /\ llm = NoRuntime /\ docs = "none"
        /\ saved = [active |-> Absent, pending |-> Absent, staged |-> 0, emb |-> "none", plan |-> "none"]
     \/ \E mode \in OperationModes :
          LET gen == IF mode = "rag" THEN 1 ELSE Absent IN
          /\ env = [file |-> "random", token |-> "random", mode |-> mode, login |-> FALSE, url |-> "example"]
          /\ provider = "edited" /\ up = DependsOn(EnabledServices(mode))
          /\ llm = IF mode = "rag" THEN [state |-> "running", gen |-> 1] ELSE NoRuntime
          /\ docs = IF mode = "basic" THEN "none" ELSE DefaultModel
          /\ saved = [active |-> gen, pending |-> gen, staged |-> gen, plan |-> mode,
                      emb |-> IF mode = "basic" THEN "none" ELSE DefaultModel]
-----------------------------------------------------------------------------
(* Compose.  Without .env it starts nothing.  A failing "up" leaves        *)
(* everything alone (no daemon), or starts some of the services; a failing *)
(* "stop" leaves some running.                                             *)
StartUp(services, external) ==
  /\ env.file # "none"
  /\ up' = up \cup DependsOn(services)
  /\ with' = [external |-> external, login |-> env.login]

StartFails(services, external) ==
  \/ UNCHANGED <<up, with>>
  \/ \E part \in SUBSET DependsOn(services) :
       /\ env.file # "none" /\ DependsOn(part) = part
       /\ up' = (up \ DependsOn(services)) \cup part
       /\ with' = IF "app" \in part THEN [external |-> external, login |-> env.login] ELSE with

Stopped(services) == up' = up \ services /\ UNCHANGED with
StopFails(services) ==
  /\ \E left \in SUBSET services : left # {} /\ up' = (up \ services) \cup (up \cap left)
  /\ UNCHANGED with
-----------------------------------------------------------------------------
(* main() and the wizard: a command begins.                                *)
Begin(todo) == [AtRest EXCEPT !.todo = todo]

Accept(new) ==
  /\ command = AtRest /\ counts.installs < MaxInstalls
  /\ counts' = [counts EXCEPT !.installs = @ + 1]
  /\ command' = new /\ UNCHANGED hostVars

(* --run, --restart, --rebuild; --retry-llm runs in RAG mode only.         *)
Run(runtime) ==
  /\ Accept([Begin(EnsureSteps) EXCEPT !.launch = TRUE, !.runtime = runtime])
  /\ UNCHANGED missed

Restart == Accept([Begin(EnsureSteps \o PauseSteps) EXCEPT !.launch = TRUE]) /\ UNCHANGED missed

(* --login: the restart is a question, unless --yes.                       *)
Login(on, restart) ==
  /\ Accept([Begin(EnsureSteps \o <<"login">> \o IF restart THEN PauseSteps ELSE <<>>)
               EXCEPT !.login = on, !.launch = restart])
  /\ missed' = IF restart THEN missed ELSE missed \cup {"login"}

Wizard(mode, embedding, candidate, launch) ==
  /\ mode = "basic" => embedding = "asIs"
  /\ embedding # "custom" => candidate = NoCandidate
  /\ Accept([Begin(EnsureSteps \o <<"saveMode">>
                     \o CASE embedding = "default" -> <<"default">>
                          [] embedding = "custom" -> <<"offer">>
                          [] OTHER -> <<>>)
               EXCEPT !.mode = mode, !.candidate = candidate, !.launch = launch, !.runtime = "setup"])
  /\ missed' = IF launch THEN missed ELSE missed \cup {"start"}

Pause == Accept(Begin(PauseSteps)) /\ UNCHANGED missed
ShutDown == Accept(Begin(<<"stopWorkers", "removeLlm", "down">>)) /\ UNCHANGED missed
RemoveLlm == Accept(Begin(<<"wipe">>)) /\ UNCHANGED missed
ChangeLlm == Accept(Begin(<<"detect", "apply">>)) /\ UNCHANGED missed
(* change_embedding_runtime_cli refuses the basic mode; an endpoint that   *)
(* fails the probe changes nothing.                                        *)
ChangeEmbedding(candidate, skip) ==
  /\ SavedOperationMode # "basic"
  /\ Accept([Begin(ChangeSteps(candidate)) EXCEPT !.candidate = candidate, !.skip = skip])
  /\ UNCHANGED missed
(* The wizard's custom choice is the same function, and goes on after it.  *)
Offer ==
  /\ OneStep("offer")
  /\ command' = [command EXCEPT !.todo = ChangeSteps(command.candidate)]
  /\ UNCHANGED <<hostVars, counts, missed>>

Connect ==
  /\ provider = "edited" /\ env.file # "none"
  /\ Accept(Begin(<<"connect">>)) /\ UNCHANGED missed
Disconnect == Accept(Begin(<<"stopExternal", "upLocal">>)) /\ UNCHANGED missed
-----------------------------------------------------------------------------
(* create_configuration_files keeps a file that exists; the operator edits *)
(* the copy.                                                               *)
CreateConfiguration ==
  /\ command = AtRest /\ provider = "none"
  /\ provider' = "created"
  /\ UNCHANGED <<env, up, with, llm, saved, docs, probed, command, counts, missed>>

EditConfiguration ==
  /\ command = AtRest /\ provider = "created"
  /\ provider' = "edited"
  /\ UNCHANGED <<env, up, with, llm, saved, docs, probed, command, counts, missed>>

WriteEnv(s, new) ==
  /\ OneStep(s)
  /\ env' = new /\ Proceed
  /\ UNCHANGED <<provider, up, with, llm, saved, docs, counts>>

(* _ensure_env_file_exists: the template is copied, the secrets follow; on *)
(* every later run only the token between app and executor is completed.   *)
CopyTemplate == WriteEnv("copy", [env EXCEPT !.file = "example"]) /\ UNCHANGED <<probed, missed>>
FillSecrets ==
  WriteEnv("secrets", [env EXCEPT !.file = "random", !.token = "random"]) /\ UNCHANGED <<probed, missed>>
Backfill == WriteEnv("backfill", [env EXCEPT !.token = "random"]) /\ UNCHANGED <<probed, missed>>
SaveMode == WriteEnv("saveMode", [env EXCEPT !.mode = command.mode]) /\ UNCHANGED <<probed, missed>>
SaveLogin == WriteEnv("login", [env EXCEPT !.login = command.login]) /\ UNCHANGED <<probed, missed>>
SaveUrl ==
  /\ WriteEnv("url", [env EXCEPT !.url = command.candidate.url])
  /\ UNCHANGED <<probed, missed>>

(* initialize_embedding_runtime_config: the pointer moves to the default,  *)
(* and no document is asked for.                                           *)
CommitDefault ==
  /\ OneStep("default")
  /\ saved' = [saved EXCEPT !.emb = DefaultModel] /\ Proceed
  /\ missed' = IF docs \in {"none", DefaultModel} THEN missed ELSE missed \cup {"vectors"}
  /\ UNCHANGED <<env, provider, up, with, llm, docs, counts, probed>>
-----------------------------------------------------------------------------
(* run_services: nginx and the disabled workers are stopped whatever       *)
(* Docker answers; a failing "up" ends the start.                          *)
StopUnasked(s, services) ==
  /\ OneStep(s) /\ Proceed
  /\ \/ Stopped(services) /\ Redo({PartOf(s)})
     \/ StopFails(services) /\ Miss({PartOf(s)})
  /\ UNCHANGED <<env, provider, llm, saved, docs, counts, probed>>

StopNginx == StopUnasked("stopNginx", {"nginx"})
StopDisabled ==
  StopUnasked("stopDisabled", Workers \ EnabledServices(SavedOperationMode))

Up ==
  /\ OneStep("up")
  /\ \/ StartUp(EnabledServices(SavedOperationMode), FALSE) /\ Proceed /\ UNCHANGED missed
     \/ StartFails(EnabledServices(SavedOperationMode), FALSE) /\ Quit /\ Miss({"start"})
  /\ UNCHANGED <<env, provider, llm, saved, docs, counts, probed>>

(* RuntimeLifecycleManager.apply: the new container serves, the old one is *)
(* put back, or neither runs.                                              *)
Applied(gen) ==
  \/ llm' = [state |-> "running", gen |-> gen] /\ saved' = [saved EXCEPT !.active = gen]
  \/ llm.state # "absent" /\ llm' = [llm EXCEPT !.state = "running"] /\ UNCHANGED saved
  \/ llm' = NoRuntime /\ UNCHANGED saved

(* detect_llm_runtime --interactive in the container of app: it stages a   *)
(* candidate, or ends without one.  A candidate of an earlier run is still *)
(* in pending_generation.json, and is then applied.                        *)
Detected(gen, then) ==
  \/ /\ gen = saved.staged + 1 /\ gen <= MaxRuntimes
     /\ llm' = llm /\ saved' = [saved EXCEPT !.staged = gen, !.pending = gen] /\ then
  \/ gen = saved.pending /\ gen # Absent /\ UNCHANGED <<llm, saved>> /\ then

DetectRuntime ==
  /\ OneStep("detect")
  /\ \/ "app" \in up /\ \E gen \in 1..MaxRuntimes : Detected(gen, Proceed)
     \/ Quit /\ UNCHANGED <<llm, saved>>
  /\ UNCHANGED <<env, provider, up, with, docs, counts, probed, missed>>

ApplyPending ==
  /\ OneStep("apply") /\ Proceed
  /\ Applied(saved.pending)
  /\ IF SavedOperationMode = "rag" THEN UNCHANGED missed ELSE Miss({"llm"})
  /\ UNCHANGED <<env, provider, up, with, docs, counts, probed>>

(* The language model of a start: the wizard's launch sets one up in RAG   *)
(* mode and leaves the container alone otherwise.                          *)
SetUpRuntime ==
  /\ OneStep("llm") /\ command.runtime = "setup"
  /\ IF SavedOperationMode = "rag"
       THEN UNCHANGED missed /\ command' = [command EXCEPT !.todo = <<"detect", "apply", "plan">>]
       ELSE Miss({"llm"}) /\ Proceed
  /\ UNCHANGED <<hostVars, counts>>

(* Any other start resumes the active generation in RAG mode (applies it,  *)
(* to rebuild).  A container of another generation is not resumed, one     *)
(* that does not become healthy is removed.                                *)
Resumed(gen) ==
  /\ UNCHANGED saved
  /\ \/ llm.gen \in {Absent, gen} /\ llm' = [state |-> "running", gen |-> gen]
     \/ llm' \in {llm, NoRuntime}

StartRuntime ==
  /\ OneStep("llm") /\ command.runtime # "setup" /\ SavedOperationMode = "rag" /\ Proceed
  /\ IF saved.active = Absent THEN UNCHANGED <<llm, saved>>
     ELSE IF command.runtime = "rebuild" THEN Applied(saved.active) ELSE Resumed(saved.active)
  /\ UNCHANGED <<env, provider, up, with, docs, counts, probed, missed>>

(* Outside RAG mode it stops the container.                                *)
StopRuntime ==
  /\ OneStep("llm") /\ command.runtime # "setup" /\ SavedOperationMode # "rag" /\ Proceed
  /\ \/ llm.state = "running" /\ llm' = llm /\ Miss({"llm"})
     \/ /\ llm' = [llm EXCEPT !.state = IF @ = "absent" THEN @ ELSE "stopped"]
        /\ Redo({"llm"})
  /\ UNCHANGED <<env, provider, up, with, saved, docs, counts, probed>>

(* The plan is written even when the language model is not there.          *)
WritePlan ==
  /\ OneStep("plan") /\ Proceed
  /\ saved' = [saved EXCEPT !.plan = SavedOperationMode]
  /\ Redo({"start", "login"})
  /\ UNCHANGED <<env, provider, up, with, llm, docs, counts, probed>>
-----------------------------------------------------------------------------
(* handle_pause_cli: both halves run, and both must succeed; a failing     *)
(* "docker stop" of the language model is not noticed.                     *)
PauseServices ==
  /\ OneStep("pause")
  /\ \/ Stopped(up) /\ Proceed /\ Redo({"nginx"})
     \/ /\ StopFails(up) /\ Miss({"nginx"} \cup Unlaunched)
        /\ command' = [command EXCEPT !.todo = Tail(@), !.ok = FALSE]
  /\ UNCHANGED <<env, provider, llm, saved, docs, counts, probed>>

PauseLlm ==
  /\ OneStep("pauseLlm")
  /\ IF command.ok THEN Proceed ELSE Quit
  /\ \/ llm' = [llm EXCEPT !.state = IF @ = "absent" THEN @ ELSE "stopped"]
     \/ llm.state = "running" /\ llm' = llm
  /\ UNCHANGED <<env, provider, up, with, saved, docs, counts, probed, missed>>

(* handle_shutdown_cli. *)
StopWorkers == StopUnasked("stopWorkers", Workers)
RemoveContainer ==
  /\ OneStep("removeLlm") /\ Proceed
  /\ llm' \in {llm, NoRuntime}
  /\ UNCHANGED <<env, provider, up, with, saved, docs, counts, probed, missed>>
Down ==
  /\ OneStep("down") /\ Proceed
  /\ Stopped(up) \/ StopFails(up)
  /\ UNCHANGED <<env, provider, llm, saved, docs, counts, probed, missed>>

(* remove_current_llm_runtime: the directory of the scope goes, and with   *)
(* it the pointer of the embedding runtime.                                *)
WipeRuntime ==
  /\ OneStep("wipe") /\ Proceed
  /\ llm' \in {llm, NoRuntime}
  /\ saved' = [saved EXCEPT !.active = Absent, !.pending = Absent, !.emb = "none"]
  /\ Miss({"vectors"})
  /\ UNCHANGED <<env, provider, up, with, docs, counts, probed>>
-----------------------------------------------------------------------------
(* change_embedding_runtime_cli. *)
SameModel == saved.emb = command.candidate.model

(* The active model again: nothing to do, or embed everything once more.   *)
CompareModel ==
  /\ OneStep("compare")
  /\ \/ ~SameModel /\ Proceed /\ UNCHANGED probed
     \/ SameModel /\ Proceed /\ UNCHANGED probed
     \/ /\ SameModel /\ Finish
        /\ probed' = probed \cup Endpoint(command.candidate)
  /\ UNCHANGED <<env, provider, up, with, llm, saved, docs, counts, missed>>

(* The count may fail, and reads as no documents: nothing is asked, and    *)
(* --skip-reembed is forgotten.                                            *)
AskReembed ==
  /\ OneStep("ask")
  /\ \/ Proceed /\ UNCHANGED missed
     \/ /\ command' = [command EXCEPT !.todo = Tail(@), !.skip = FALSE]
        /\ UNCHANGED missed
     \/ /\ docs # "none"
        /\ \/ Finish /\ Miss({"endpoint"})
           \/ command' = [command EXCEPT !.todo = Tail(@), !.skip = TRUE] /\ UNCHANGED missed
  /\ UNCHANGED <<hostVars, counts>>

Restarted == {"app"} \cup Workers
(* What such a restart does not ask: whether nginx is connected, and which *)
(* mode runs.                                                              *)
RestartMisses ==
  (IF "nginx" \in up THEN {"nginx"} ELSE {})
    \cup IF SavedOperationMode = saved.plan THEN {} ELSE {"start"}

HaltPipeline ==
  /\ OneStep("halt")
  /\ \/ Stopped(Restarted) /\ Proceed /\ UNCHANGED missed
     \/ /\ StartUp(Restarted, FALSE) \/ StartFails(Restarted, FALSE)
        /\ Finish /\ Miss({"endpoint"} \cup RestartMisses)
  /\ UNCHANGED <<env, provider, llm, saved, docs, counts, probed>>

(* The command of the container; a failure leaves the old pointer, and of  *)
(* the vectors what was not replaced yet.                                  *)
ChangeSucceeds ==
  /\ OneStep("change") /\ Proceed
  /\ saved' = [saved EXCEPT !.emb = command.candidate.model]
  /\ docs' = IF docs = "none" \/ command.skip THEN docs ELSE command.candidate.model
  /\ probed' = probed \cup Endpoint(command.candidate)
  /\ IF docs # "none" /\ command.skip
       THEN missed' = (missed \ {"endpoint"}) \cup {"vectors"}
       ELSE Redo({"endpoint", "vectors"})
  /\ UNCHANGED <<env, provider, up, with, llm, counts>>

ChangeFails ==
  /\ OneStep("change") /\ Proceed
  /\ docs' \in {docs, IF docs = "none" THEN docs ELSE "mixed"}
  /\ Miss({"endpoint"} \cup IF docs' = docs THEN {} ELSE {"vectors"})
  /\ UNCHANGED <<env, provider, up, with, llm, saved, counts, probed>>

(* Whether or not the change succeeded the services come back, with the    *)
(* hosts of the local access; the "rollback" after a failure only explains *)
(* that there is none.                                                     *)
Recreate ==
  /\ OneStep("recreate") /\ Proceed
  /\ \/ StartUp(Restarted, FALSE)
     \/ StartFails(Restarted, FALSE)
  /\ Miss(RestartMisses)
  /\ UNCHANGED <<env, provider, llm, saved, docs, counts, probed>>
-----------------------------------------------------------------------------
(* Wrong variant of ConnectExternal: after a failure only app is started.   *)
ConnectNginxLeft ==
  /\ OneStep("connect")
  /\ \/ StartUp({"nginx"}, TRUE) /\ Proceed
     \/ /\ StartFails({"nginx"}, TRUE)
        /\ command' = [command EXCEPT !.todo = <<"upLocal">>]
  /\ UNCHANGED <<env, provider, llm, saved, docs, counts, probed, missed>>

(* network_access/compose.py: app and nginx start with the provider's      *)
(* hosts, and when they do not come up, nginx is stopped and app started   *)
(* for local access.                                                       *)
ConnectExternal ==
  /\ OneStep("connect")
  /\ \/ StartUp({"nginx"}, TRUE) /\ Proceed
     \/ /\ StartFails({"nginx"}, TRUE)
        /\ command' = [command EXCEPT !.todo = <<"stopExternal", "upLocal">>]
  /\ UNCHANGED <<env, provider, llm, saved, docs, counts, probed, missed>>

StopExternal == StopUnasked("stopExternal", {"nginx"})

UpLocal ==
  /\ OneStep("upLocal") /\ Proceed
  /\ \/ StartUp({"app"}, FALSE) /\ UNCHANGED missed
     \/ StartFails({"app"}, FALSE) /\ Miss({"nginx"})
  /\ UNCHANGED <<env, provider, llm, saved, docs, counts, probed>>
-----------------------------------------------------------------------------
(* A document is embedded with the active model while the pipeline runs.   *)
EmbedDocument ==
  /\ command = AtRest /\ Workers \cup {"app"} \subseteq up /\ saved.emb # "none"
  /\ docs' = IF docs \in {"none", saved.emb} THEN saved.emb ELSE "mixed"
  /\ UNCHANGED <<env, provider, up, with, llm, saved, probed, command, counts, missed>>

KillCommand ==
  /\ command # AtRest /\ counts.kills < MaxInstallKills
  /\ counts' = [counts EXCEPT !.kills = @ + 1]
  /\ Quit
  /\ Miss({PartOf(s) : s \in ToSet(command.todo)} \cup Unlaunched)
  /\ UNCHANGED hostVars

Commands ==
  \/ \E runtime \in {"resume", "rebuild"} : Run(runtime)
  \/ Restart \/ Pause \/ ShutDown \/ RemoveLlm \/ ChangeLlm \/ Connect \/ Disconnect
  \/ \E on, restart \in BOOLEAN : Login(on, restart)
  \/ \E mode \in OperationModes, embedding \in {"default", "custom", "asIs"},
        candidate \in Candidates, launch \in BOOLEAN :
       /\ Endpoint(candidate) \subseteq Endpoints
       /\ Wizard(mode, embedding, candidate, launch)
  \/ \E candidate \in Candidates, skip \in BOOLEAN :
       /\ Endpoint(candidate) \subseteq Endpoints
       /\ ChangeEmbedding(candidate, skip)

InstallationNext ==
  \/ Commands \/ CreateConfiguration \/ EditConfiguration \/ EmbedDocument \/ KillCommand
  \/ CopyTemplate \/ FillSecrets \/ Backfill \/ SaveMode \/ SaveLogin \/ SaveUrl
  \/ CommitDefault \/ Offer
  \/ StopNginx \/ StopDisabled \/ Up \/ SetUpRuntime \/ StartRuntime \/ StopRuntime \/ WritePlan
  \/ DetectRuntime \/ ApplyPending
  \/ PauseServices \/ PauseLlm \/ StopWorkers \/ RemoveContainer \/ Down \/ WipeRuntime
  \/ CompareModel \/ AskReembed \/ HaltPipeline \/ ChangeSucceeds \/ ChangeFails \/ Recreate
  \/ ConnectExternal \/ StopExternal \/ UpLocal

InstallationSpec == InstallationInit /\ [][InstallationNext]_installationVars
-----------------------------------------------------------------------------
Steps ==
  {"copy", "secrets", "backfill", "saveMode", "default", "offer", "login", "url", "compare", "ask",
   "halt", "change", "recreate", "stopNginx", "stopDisabled", "up", "llm", "plan", "detect", "apply",
   "pause", "pauseLlm", "stopWorkers", "removeLlm", "down", "wipe", "connect", "stopExternal", "upLocal"}

(* Every variable has its type. *)
InstallationTypeOK ==
  /\ env \in [file : {"none", "example", "random"}, token : {"example", "random"},
              mode : OperationModes, login : BOOLEAN, url : EndpointUrls]
  /\ provider \in {"none", "created", "edited"}
  /\ up \subseteq {"app", "nginx"} \cup Workers
  /\ with \in [external : BOOLEAN, login : BOOLEAN]
  /\ llm \in [state : {"absent", "stopped", "running"}, gen : 0..MaxRuntimes]
  /\ saved \in [active : 0..MaxRuntimes, pending : 0..MaxRuntimes, staged : 0..MaxRuntimes,
                emb : Models \cup {"none"}, plan : OperationModes \cup {"none"}]
  /\ docs \in Models \cup {"none", "mixed"}
  /\ command.todo \in Seq(Steps) /\ command.candidate \in Candidates
  /\ counts \in [installs : 0..MaxInstalls, kills : 0..MaxInstallKills]
  /\ probed \subseteq Endpoints
  /\ missed \subseteq Parts

(* nginx forwards to an app that accepts the provider's hosts.             *)
NginxHasItsHosts ==
  {"nginx", "app"} \subseteq up =>
    with.external \/ "nginx" \in missed

(* After a start without RAG no language model runs, and in basic mode no  *)
(* document is processed.                                                  *)
ModeIsKept ==
  saved.plan = env.mode /\ "app" \in up /\ "start" \notin missed =>
    /\ env.mode # "rag" /\ "llm" \notin missed => llm.state # "running"
    /\ env.mode = "basic" /\ "workers" \notin missed => "documents" \notin up

(* The app that runs asks for a sign-in as .env says.                      *)
LoginInForce ==
  "app" \in up /\ missed \cap {"login", "start"} = {} => with.login = env.login

(* No service runs with the secrets of the template.                       *)
SecretsReplaced ==
  up # {} /\ "secrets" \notin missed => env.file = "random" /\ env.token = "random"

(* The URL the services read is one that answered for the active model.    *)
EndpointAnswered ==
  saved.emb \notin Catalog \cup {"none"} /\ "endpoint" \notin missed =>
    <<saved.emb, env.url>> \in probed

(* Stored vectors are of the active model.                                 *)
VectorsOfActive ==
  docs # "none" /\ saved.emb # "none" /\ "vectors" \notin missed => docs = saved.emb

(* install.py: whatever Docker answered and wherever a command was cut,    *)
(* the host is left as the last commands asked for, except where a step    *)
(* they reported, declined or never reached says otherwise.                *)
LeftAsAsked ==
  command = AtRest =>
    /\ NginxHasItsHosts /\ ModeIsKept /\ LoginInForce /\ SecretsReplaced
    /\ EndpointAnswered /\ VectorsOfActive

=============================================================================
