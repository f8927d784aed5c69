---------------------------- MODULE MCApplication ----------------------------
(***************************************************************************)
(* Parts of the application that share no state are checked side by side:  *)
(* the first state chooses which of them acts, and the others stand still. *)
(***************************************************************************)
EXTENDS MCWorkspaceMembership, ModelPlanning, CliConfig, Search

(* The hosts of the planning: no GPU, Apple's, and cards of three makers.  *)
MCGpu(gpu, vram, free, tells, table) ==
  [gpu |-> gpu, vram |-> vram, free |-> free, tellsFree |-> tells, inTable |-> table, tellsBus |-> FALSE]

MCGpus ==
  {MCGpu("none", <<>>, <<>>, FALSE, FALSE), MCGpu("metal", <<0>>, <<0>>, FALSE, TRUE),
   MCGpu("nvidia", <<12>>, <<6>>, TRUE, TRUE), MCGpu("nvidia", <<12>>, <<9>>, TRUE, TRUE),
   MCGpu("nvidia", <<12, 12>>, <<12, 11>>, TRUE, TRUE), MCGpu("torch", <<12>>, <<12>>, FALSE, FALSE),
   MCGpu("rocm", <<16>>, <<16>>, FALSE, FALSE),
   [MCGpu("nvidia", <<24, 24>>, <<24, 24>>, TRUE, FALSE) EXCEPT !.tellsBus = TRUE]}

MCHosts ==
  {[gpu |-> g.gpu, vram |-> g.vram, free |-> g.free, tellsFree |-> g.tellsFree,
    inTable |-> g.inTable, tellsBus |-> g.tellsBus, cluster |-> c,
    ram |-> r, limit |-> l, disk |-> IF c THEN 18 ELSE 40, help |-> h] :
     g \in MCGpus, r \in {8, 11, 16, 30}, l \in {0, 10}, c \in BOOLEAN, h \in {"silent", "without"}}

MCEntry(format, backends, weights, kv, context, priority) ==
  [format |-> format, backends |-> backends, weights |-> weights, layers |-> 4, kv |-> kv,
   maxContext |-> context, params |-> weights, precision |-> 3, priority |-> priority,
   disk |-> weights, speed |-> 40 \div weights, active |-> TRUE, auto |-> TRUE, manual |-> TRUE]

MCLlama == {"llamacpp-cpu", "llamacpp-gpu-offload"}

MCCatalogs ==
  {<<MCEntry("gguf", MCLlama, 4, 1, 8, 1), MCEntry("gguf", MCLlama, 10, 2, 4, 2),
     MCEntry("safetensors", {"vllm-cuda"}, 8, 1, 8, 3)>>,
   <<MCEntry("gguf", {"llamacpp-cpu"}, 6, 1, 1, 1),
     [MCEntry("gguf", {"llamacpp-gpu-offload"}, 4, 2, 2, 1) EXCEPT !.auto = FALSE],
     [MCEntry("gguf", MCLlama, 2, 1, 8, 9) EXCEPT !.active = FALSE],
     MCEntry("safetensors", {"vllm-cuda"}, 16, 2, 8, 1)>>}

MCMeasures ==
  {[answers |-> {a, "completed"}, ttft |-> 10, total |-> 10, rate |-> 30] :
     a \in {"uncounted", "interrupted", "elsewhere"}}
  \cup {[answers |-> {"completed"}, ttft |-> t, total |-> l, rate |-> r] :
          t \in {10, 14}, l \in {10, 13}, r \in {20, 22, 25, 30}}

(* Two servers with an account and a token each.                           *)
MCIssued == "ta" :> [url |-> "u1", account |-> "A"] @@ "tb" :> [url |-> "u2", account |-> "B"]

(* One workspace with two files and a folder, another without any; two     *)
(* runtimes of the dimension of segments and one of another; a search and  *)
(* two steps of others.                                                    *)
MCSpaceOf == "f1" :> "p" @@ "f2" :> "p" @@ "d" :> "p"
MCLying == "f1" :> {"d"} @@ "f2" :> {}
MCDimOf == "m1" :> 1024 @@ "m2" :> 1024 @@ "m3" :> 768
MCSpare == "searches" :> 1 @@ "others" :> 2

VARIABLE acting

applicationVars == <<acting, vars, planningVars, cliVars, searchVars>>

(* A part that stands still starts in one state.                           *)
ApplicationInit ==
  /\ acting \in {"membership", "planning", "cli", "search"}
  /\ Init /\ PlanningInit /\ CliInit /\ SearchInit
  /\ acting # "planning" => catalog = CHOOSE c \in Catalogs : TRUE
  /\ acting # "cli" => files.config = NoFile /\ files.legacy = Nobody
  /\ acting # "search" => segments = {}

ApplicationNext ==
  /\ UNCHANGED acting
  /\ \/ acting = "membership" /\ Next /\ UNCHANGED <<planningVars, cliVars, searchVars>>
     \/ acting = "planning" /\ PlanningNext /\ UNCHANGED <<vars, cliVars, searchVars>>
     \/ acting = "cli" /\ CliNext /\ UNCHANGED <<vars, planningVars, searchVars>>
     \/ acting = "search" /\ SearchNext /\ UNCHANGED <<vars, planningVars, cliVars>>

ApplicationSpec == ApplicationInit /\ [][ApplicationNext]_applicationVars

(* Every variable of every part has its type. *)
ApplicationTypeOK == TypeOK /\ PlanningTypeOK /\ CliTypeOK /\ SearchTypeOK

=============================================================================
