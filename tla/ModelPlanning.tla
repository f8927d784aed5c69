---------------------------- MODULE ModelPlanning ----------------------------
(***************************************************************************)
(* The installer's choice of a model: probe the host, assess the catalog,  *)
(* let a model be selected, hand it over and plan how it is served; later  *)
(* measure how many requests it serves at once.                            *)
(*                                                                         *)
(* Memory is counted in units of 512 MB and contexts in units of 2048      *)
(* tokens; the weights and the cache of a model are given per catalog      *)
(* entry.                                                                  *)
(***************************************************************************)
EXTENDS Integers, Sequences, FiniteSetsExt

CONSTANTS
  Hosts,      \* what the probes of a host may answer
  Catalogs,   \* the catalogs, sequences of entries
  Measures,   \* what one step of the calibration may measure
  Nothing

CpuOverhead == 1
GpuOverhead == 1
CudaContext == 3
ContextCap == 8
AssessedContext == 2

(* The catalog refuses a model without parameters; one without layers or   *)
(* without a context would be no model.                                    *)
Entries ==
  [format : {"gguf", "safetensors"}, backends : SUBSET STRING,
   weights : Nat \ {0}, layers : Nat \ {0}, kv : Nat, maxContext : Nat \ {0},
   params : Nat, precision : Nat, priority : Nat, disk : Nat, speed : Nat,
   active : BOOLEAN, auto : BOOLEAN, manual : BOOLEAN]

Plans ==
  [backend : {"llamacpp-cpu", "llamacpp-gpu-offload", "vllm-cuda"}, context : Nat, parallel : Nat,
   cache : {"f16", "q8_0", "q4_0"}, status : {"FIT", "RISKY", "NOFIT"},
   place : [ram : Nat, vram : Seq(Nat), layers : Nat]]

(* Every amount the probes answer with is a number of megabytes, one for   *)
(* each GPU; a step that was measured completed with a positive rate.      *)
ASSUME PlanningAssumption ==
  /\ \A h \in Hosts :
       /\ {h.ram, h.limit, h.disk} \subseteq Nat /\ {h.tellsFree, h.cluster} \subseteq BOOLEAN
       /\ h.gpu \in {"none", "nvidia", "torch", "rocm", "metal"}
       /\ h.vram \in Seq(Nat) /\ h.free \in Seq(Nat) /\ Len(h.free) = Len(h.vram)
  /\ Catalogs \subseteq Seq(Entries)
  /\ Measures \subseteq [answers : SUBSET STRING, ttft : Nat, total : Nat, rate : Nat \ {0}]
  /\ Nothing \notin Plans

Presets == {"speed", "balanced", "quality"}
Modes == {"automatic", "manual", "headless"}

(***************************************************************************)
(* The probes.                                                             *)
(***************************************************************************)
(* What nvidia-smi says of each GPU; a free amount it does not know reads  *)
(* as none.                                                                *)
NvidiaDevices(h) ==
  [total |-> h.vram, free |-> IF h.tellsFree THEN h.free ELSE [i \in DOMAIN h.vram |-> 0]]

(* nvidia-smi, rocm-smi, torch and Metal are asked in turn; the first that *)
(* answers decides what is known.  rocm-smi tells the used amount, and     *)
(* nothing used is all free; Metal names no amounts.                       *)
GpuDevices(h) ==
  CASE h.gpu \in {"nvidia", "torch"} -> NvidiaDevices(h)
    [] h.gpu = "rocm" -> [total |-> h.vram, free |-> IF h.tellsFree THEN h.free ELSE h.vram]
    [] h.gpu = "metal" -> [total |-> <<0>>, free |-> <<0>>]
    [] h.gpu = "none" -> [total |-> <<>>, free |-> <<>>]

(* The bandwidth is looked up by name, or derived from the bus width that  *)
(* nvidia-smi may tell.                                                    *)
KnowsBandwidth(h) == h.gpu # "rocm" /\ (h.inTable \/ (h.gpu = "nvidia" /\ h.tellsBus))

(* A llama.cpp server whose help does not name the option lacks it; where  *)
(* none answers, the bundled one is assumed.                               *)
KvOffload(h) == h.help # "without"

Probe(h) ==
  [ram |-> h.ram, limit |-> h.limit, disk |-> h.disk, cluster |-> h.cluster,
   total |-> GpuDevices(h).total, free |-> GpuDevices(h).free,
   cuda |-> h.gpu \in {"nvidia", "torch"},
   bandwidth |-> KnowsBandwidth(h), kvOffload |-> KvOffload(h)]

PlanningRam(p) == IF p.limit > 0 THEN Min({p.ram, p.limit}) ELSE p.ram
Gpus(p) == Len(p.total)

(***************************************************************************)
(* What a model needs and where it is placed.                              *)
(***************************************************************************)
SelectRuntime(e, p) ==
  CASE e.format = "safetensors" ->
         IF "vllm-cuda" \in e.backends /\ p.cuda THEN "vllm-cuda" ELSE Nothing
    [] e.format = "gguf" /\ p.cluster -> Nothing
    [] e.format = "gguf" /\ ~p.cluster ->
         CASE Gpus(p) > 0 /\ "llamacpp-gpu-offload" \in e.backends -> "llamacpp-gpu-offload"
           [] ~(Gpus(p) > 0 /\ "llamacpp-gpu-offload" \in e.backends)
              /\ "llamacpp-cpu" \in e.backends -> "llamacpp-cpu"
           [] OTHER -> Nothing

(* Bytes of a cached value, in quarters of what f16 takes for both.        *)
CacheQuarters(cache) == CASE cache = "f16" -> 4 [] cache = "q8_0" -> 2 [] cache = "q4_0" -> 1

KvMemory(e, context, parallel, cache) ==
  Max({1, (e.kv * context * parallel * CacheQuarters(cache) + 2) \div 4})

PlaceCpu(e, kv, p) ==
  [ram |-> e.weights + kv + CpuOverhead, vram |-> [i \in DOMAIN p.total |-> 0], layers |-> 0]

Share(total, count, i) == total \div count + (IF i <= total % count THEN 1 ELSE 0)

PlaceVllm(e, kv, p) ==
  [ram    |-> CpuOverhead,
   vram   |-> [i \in DOMAIN p.total |-> Share(e.weights, Gpus(p), i) + Share(kv, Gpus(p), i)
                                          + GpuOverhead + CudaContext],
   layers |-> e.layers]

(* As many layers as leave a quarter of the first GPU free, at least one.  *)
PlaceOffload(e, kv, p, kvIn) ==
  LET onGpu  == IF kvIn = "vram" THEN kv ELSE 0
      fixed  == GpuOverhead + CudaContext + onGpu
      safe   == (4 * p.free[1]) \div 5
      fill   == (Max({0, safe - fixed}) * e.layers) \div e.weights
      layers == Max({1, Min({e.layers, fill})})
      moved  == IF layers = e.layers THEN e.weights
                ELSE (layers * e.weights + e.layers - 1) \div e.layers
  IN [ram    |-> (e.weights - moved) + (IF kvIn = "ram" THEN kv ELSE 0) + CpuOverhead,
      vram   |-> [i \in DOMAIN p.free |-> IF i = 1 THEN moved + fixed ELSE 0],
      layers |-> layers]

Place(e, p, backend, context, parallel, cache, kvIn) ==
  LET kv == KvMemory(e, context, parallel, cache)
  IN CASE backend = "llamacpp-cpu" -> PlaceCpu(e, kv, p)
       [] backend = "vllm-cuda" -> PlaceVllm(e, kv, p)
       [] backend = "llamacpp-gpu-offload" -> PlaceOffload(e, kv, p, kvIn)

(***************************************************************************)
(* Whether it fits: a quarter of every memory pool and 15 % of the disk    *)
(* stay free, or it is risky.                                              *)
(***************************************************************************)
PoolFit(place, p) ==
  IF place.ram > PlanningRam(p) \/ \E i \in DOMAIN place.vram : place.vram[i] > p.free[i] THEN "NOFIT"
  ELSE IF \/ 5 * place.ram > 4 * PlanningRam(p)
          \/ \E i \in DOMAIN place.vram : 5 * place.vram[i] > 4 * p.free[i] THEN "RISKY"
  ELSE "FIT"

DiskFit(e, p) ==
  IF e.disk > p.disk THEN "NOFIT" ELSE IF 115 * e.disk > 100 * p.disk THEN "RISKY" ELSE "FIT"

CombineStatus(statuses) ==
  IF "NOFIT" \in statuses THEN "NOFIT" ELSE IF "RISKY" \in statuses THEN "RISKY" ELSE "FIT"

(* One request of 4096 tokens decides how a model is listed.               *)
Assess(e, p) ==
  LET backend == SelectRuntime(e, p)
      place   == Place(e, p, backend, Min({e.maxContext, AssessedContext}), 1, "f16",
                       IF p.kvOffload THEN "vram" ELSE "ram")
  IN IF backend = Nothing THEN [backend |-> Nothing, place |-> Nothing, status |-> "NOFIT"]
     ELSE [backend |-> backend, place |-> place,
           status  |-> CombineStatus({PoolFit(place, p), DiskFit(e, p)})]

(***************************************************************************)
(* Selection.                                                              *)
(***************************************************************************)
(* What there is of what is needed in every pool, in percent.              *)
PoolRatios(e, p) ==
  LET place == Assess(e, p).place
      ratio(have, need) == (100 * have) \div need
  IN {ratio(PlanningRam(p), place.ram)}
     \cup {ratio(p.free[i], place.vram[i]) : i \in {j \in DOMAIN place.vram : place.vram[j] > 0}}
     \cup {ratio(p.disk, d) : d \in {e.disk} \ {0}}

Headroom(e, p) == Min(PoolRatios(e, p))

(* Nothing is known of the speed of a GPU without its bandwidth.           *)
Speed(e, p) ==
  IF Assess(e, p).backend = "llamacpp-cpu" \/ p.bandwidth THEN <<1, e.speed>> ELSE <<0, 0>>

RankingKey(e, p, preset) ==
  CASE preset = "speed" -> Speed(e, p) \o <<Headroom(e, p), e.priority, e.params, e.precision>>
    [] preset = "quality" ->
         <<e.params, e.precision, e.maxContext, Headroom(e, p)>> \o Speed(e, p) \o <<e.priority>>
    [] preset = "balanced" -> <<e.priority, Headroom(e, p), e.params, e.precision>> \o Speed(e, p)

Above(s, t) == \E i \in DOMAIN s : s[i] > t[i] /\ \A j \in 1..(i - 1) : s[j] = t[j]

(***************************************************************************)
(* The serving plan.                                                       *)
(***************************************************************************)
Contexts(preset) ==
  [speed |-> <<2, 1>>, balanced |-> <<4, 2, 1>>, quality |-> <<8, 4, 2>>][preset]

(* The sizes that are tried, by their place among those of the preset.     *)
ContextCandidates(e, preset) ==
  LET cap == Min({e.maxContext, ContextCap})
      low == {x \in DOMAIN Contexts(preset) : Contexts(preset)[x] <= cap}
  IN IF low = {} THEN <<Max({1, cap})>> ELSE [x \in low |-> Contexts(preset)[x]]

TargetConcurrency(preset) ==
  [speed |-> 2, balanced |-> 4, quality |-> 1][preset]

Caches(preset) == IF preset = "quality" THEN <<"f16", "q8_0">> ELSE <<"q8_0", "q4_0">>

KvPlacements(p, backend) ==
  IF backend = "llamacpp-gpu-offload" /\ p.kvOffload THEN <<"vram", "ram">> ELSE <<"ram">>

(* The settings llama.cpp is tried with, numbered in the order of the      *)
(* loops: what does not fit with one sequence is not tried with more.      *)
Tried(e, p, preset, backend) ==
  LET sizes    == ContextCandidates(e, preset)
      most     == TargetConcurrency(preset)
      settings == [cache : DOMAIN Caches(preset), size : DOMAIN sizes,
                   kv : DOMAIN KvPlacements(p, backend), parallel : 1..most]
      place(s, n) == Place(e, p, backend, sizes[s.size], n, Caches(preset)[s.cache],
                           KvPlacements(p, backend)[s.kv])
  IN {[turn     |-> ((s.cache * 4 + s.size) * 4 + s.kv) * 8 + (most - s.parallel),
       cache    |-> Caches(preset)[s.cache], context |-> sizes[s.size],
       kvIn     |-> KvPlacements(p, backend)[s.kv], parallel |-> s.parallel,
       place    |-> place(s, s.parallel),
       status   |-> CombineStatus({PoolFit(place(s, s.parallel), p), DiskFit(e, p)})] :
      s \in {s \in settings : PoolFit(place(s, 1), p) # "NOFIT"}}

First(tries) == CHOOSE t \in tries : \A u \in tries : t.turn <= u.turn

PlanOf(t, backend, status) ==
  [backend |-> backend, context |-> t.context, parallel |-> t.parallel, cache |-> t.cache,
   place |-> t.place, status |-> status]

(* Wrong variant of PlanLlamacpp: the first setting that can run at all.   *)
PlanFirstAble(e, p, preset, listed) ==
  LET able == {t \in Tried(e, p, preset, listed.backend) : t.status # "NOFIT"}
  IN IF able = {} THEN Nothing ELSE PlanOf(First(able), listed.backend, listed.status)

(* The first setting that fits; a model listed as risky takes the first    *)
(* that is risky, one listed as fitting takes none.                        *)
PlanLlamacpp(e, p, preset, listed) ==
  LET tries == Tried(e, p, preset, listed.backend)
      fit   == {t \in tries : t.status = "FIT"}
      risky == {t \in tries : t.status = "RISKY"}
  IN CASE fit # {} -> PlanOf(First(fit), listed.backend, listed.status)
       [] fit = {} /\ risky # {} /\ listed.status # "FIT" ->
            PlanOf(First(risky), listed.backend, listed.status)
       [] OTHER -> Nothing

(* vLLM has one setting, that of the preset.                               *)
PlanVllm(e, p, preset, listed) ==
  LET context  == Min({Contexts(preset)[1], e.maxContext, ContextCap})
      parallel == TargetConcurrency(preset)
      place    == Place(e, p, "vllm-cuda", context, parallel, "f16", "vram")
      status   == CombineStatus({PoolFit(place, p), DiskFit(e, p)})
  IN IF status = "NOFIT" \/ (listed.status = "FIT" /\ status # "FIT") THEN Nothing
     ELSE [backend |-> "vllm-cuda", context |-> context, parallel |-> parallel, cache |-> "f16",
           place |-> place, status |-> listed.status]

BuildServingPlan(e, p, preset, listed) ==
  IF listed.backend = "vllm-cuda" THEN PlanVllm(e, p, preset, listed)
  ELSE PlanLlamacpp(e, p, preset, listed)

-----------------------------------------------------------------------------
(***************************************************************************)
(* The wizard, the command without questions, and the calibration.         *)
(***************************************************************************)
VARIABLES
  stage,      \* where the installation is
  catalog,    \* the entries on disk
  profile,    \* what the probes told, Nothing before
  preset,     \* the priority asked for
  mode,       \* who selects: the program, the operator, or a script
  chosen,     \* the number of the selected entry
  confirmed,  \* the operator accepted a risky model
  plan,       \* the serving plan
  config,     \* the runtime configuration on disk
  steps       \* what the steps of the calibration measured so far

wizardVars == <<profile, preset, mode, chosen, confirmed, plan>>
planningVars == <<stage, catalog, wizardVars, config, steps>>

Stages == {"start", "detected", "selecting", "confirming", "selected", "planned", "checked",
           "ended", "installed", "measuring", "rejected", "settled"}

Listed(n) == Assess(catalog[n], profile)
Selectable(n) ==
  LET e == catalog[n]
  IN /\ e.active
     /\ IF mode = "manual" THEN e.manual ELSE e.auto
     /\ Listed(n).status # "NOFIT"

Eligible(status) == {n \in DOMAIN catalog : Selectable(n) /\ Listed(n).status = status}

Key(n) == RankingKey(catalog[n], profile, preset)

(* The highest key; of equal ones the first identifier.                    *)
Best(ns) ==
  CHOOSE n \in ns : \A o \in ns \ {n} : Above(Key(n), Key(o)) \/ (Key(n) = Key(o) /\ n < o)

PlanningInit ==
  /\ stage = "start"
  /\ catalog \in Catalogs
  /\ profile = Nothing /\ preset = Nothing /\ mode = Nothing /\ chosen = 0
  /\ confirmed = FALSE /\ plan = Nothing /\ config = Nothing
  /\ steps = <<>>

Detect ==
  /\ stage = "start"
  /\ \E h \in Hosts : profile' = Probe(h)
  /\ stage' = "detected"
  /\ UNCHANGED <<catalog, preset, mode, chosen, confirmed, plan, config, steps>>

Ask ==
  /\ stage = "detected"
  /\ preset' \in Presets /\ mode' \in Modes
  /\ stage' = "selecting"
  /\ UNCHANGED <<catalog, profile, chosen, confirmed, plan, config, steps>>

(* A fitting model is taken; a risky one has to be confirmed.              *)
SelectAutomatic ==
  /\ stage = "selecting" /\ mode # "manual"
  /\ LET fit   == Eligible("FIT")
         risky == Eligible("RISKY")
     IN \/ fit # {} /\ chosen' = Best(fit) /\ stage' = "selected"
        \/ fit = {} /\ risky # {} /\ chosen' = Best(risky) /\ stage' = "confirming"
  /\ UNCHANGED <<catalog, profile, preset, mode, confirmed, plan, config, steps>>

(* Nothing can be selected, or a script cannot be asked.                   *)
Refuse ==
  /\ \/ stage = "selecting" /\ mode # "manual" /\ Eligible("FIT") \cup Eligible("RISKY") = {}
     \/ stage = "confirming" /\ mode = "headless"
  /\ stage' = "ended"
  /\ UNCHANGED <<catalog, wizardVars, config, steps>>

(* What cannot be selected is asked for again.                             *)
SelectManual ==
  /\ stage = "selecting" /\ mode = "manual"
  /\ \E n \in Eligible("FIT") \cup Eligible("RISKY") :
       /\ chosen' = n
       /\ stage' = IF Listed(n).status = "RISKY" THEN "confirming" ELSE "selected"
  /\ UNCHANGED <<catalog, profile, preset, mode, confirmed, plan, config, steps>>

Confirm ==
  /\ stage = "confirming" /\ mode # "headless"
  /\ confirmed' = TRUE /\ stage' = "selected"
  /\ UNCHANGED <<catalog, profile, preset, mode, chosen, plan, config, steps>>

(* The operator quits the list or does not accept the risk.                *)
Decline ==
  /\ (stage = "confirming" /\ mode # "headless") \/ (stage = "selecting" /\ mode = "manual")
  /\ stage' = "ended"
  /\ UNCHANGED <<catalog, wizardVars, config, steps>>

(* The handoff freezes the assessment and the profile; a plan that cannot  *)
(* keep the listed status is refused.                                      *)
Handoff ==
  /\ stage = "selected"
  /\ Listed(chosen).status = "RISKY" => confirmed
  /\ LET built == BuildServingPlan(catalog[chosen], profile, preset, Listed(chosen))
     IN plan' = built /\ stage' = IF built = Nothing THEN "ended" ELSE "planned"
  /\ UNCHANGED <<catalog, profile, preset, mode, chosen, confirmed, config, steps>>

(* The endpoint answers with a list that names the model.                  *)
EndpointOk(answer) == answer = "lists the model"
(* A short question is answered at all.                                    *)
SmokeOk(answer) == answer = "answers"

(* A script may check the endpoint before it writes.                       *)
CheckEndpoint ==
  /\ stage = "planned" /\ mode = "headless"
  /\ \E list \in {"lists the model", "lists others", "lists none", "not a list", "fails", "unreachable"},
        smoke \in {"answers", "fails", "unreachable"} :
       stage' = IF EndpointOk(list) /\ SmokeOk(smoke) THEN "checked" ELSE "ended"
  /\ UNCHANGED <<catalog, wizardVars, config, steps>>

(* The plan's concurrency is the ceiling; one request at a time is served  *)
(* until it was measured.                                                  *)
Normalized(priority, p) ==
  [preset |-> priority, ceiling |-> p.parallel, serving |-> 1, measured |-> <<>>]

(* The program ends, and its variables with it.                            *)
WriteConfig ==
  /\ stage \in {"planned", "checked"}
  /\ config' = Normalized(preset, plan)
  /\ stage' = "installed"
  /\ profile' = Nothing /\ preset' = Nothing /\ mode' = Nothing /\ chosen' = 0
  /\ confirmed' = FALSE /\ plan' = Nothing
  /\ UNCHANGED <<catalog, steps>>

-----------------------------------------------------------------------------
(***************************************************************************)
(* The calibration: one more request at a time, up to the ceiling, while   *)
(* the latencies stay in their budget and the throughput still grows.      *)
(***************************************************************************)
(* Budgets in percent: first token, total, gain of throughput.             *)
Policy(p) ==
  CASE p = "speed" -> [ttft |-> 115, total |-> 120, gain |-> 10]
    [] p = "balanced" -> [ttft |-> 135, total |-> 140, gain |-> 8]
    [] p = "quality" -> [ttft |-> 125, total |-> 130, gain |-> 8]

(* A request counts when it completes on the server's own model; one that  *)
(* completes without its token counts leaves the step incomplete.          *)
RequestOk(answer) == answer \in {"completed", "uncounted"}
StepComplete(m) == \A a \in m.answers : RequestOk(a) /\ a # "uncounted"

(* Step i of the measurements may follow the steps before it.              *)
Accepted(ms, i, policy) ==
  /\ StepComplete(ms[i])
  /\ i > 1 =>
       /\ 100 * ms[i].ttft <= policy.ttft * ms[1].ttft
       /\ 100 * ms[i].total <= policy.total * ms[1].total
       /\ 100 * ms[i].rate >= (100 + policy.gain) * ms[i - 1].rate

SelectServingConcurrency(ms, policy) ==
  Max({1} \cup {i \in DOMAIN ms : \A j \in 1..i : Accepted(ms, j, policy)})

StartCalibration ==
  /\ stage = "installed"
  /\ stage' = "measuring" /\ steps' = <<>>
  /\ UNCHANGED <<catalog, wizardVars, config>>

MeasureStep ==
  /\ stage = "measuring" /\ Len(steps) < config.ceiling
  /\ \E m \in Measures :
       /\ steps' = Append(steps, m)
       /\ stage' = IF Accepted(Append(steps, m), Len(steps) + 1, Policy(config.preset))
                   THEN "measuring" ELSE "rejected"
  /\ UNCHANGED <<catalog, wizardVars, config>>

(* The candidate's runtime does not start: what was measured is used.      *)
StepFails ==
  /\ stage = "measuring" /\ Len(steps) < config.ceiling
  /\ stage' = "rejected"
  /\ UNCHANGED <<catalog, wizardVars, config, steps>>

(* At the ceiling, or at the lower one the operator named.  Without a      *)
(* valid baseline, or when the chosen runtime does not start, the          *)
(* configuration from before comes back.                                   *)
EndCalibration ==
  /\ stage = "rejected" \/ (stage = "measuring" /\ steps # <<>>)
  /\ \/ UNCHANGED config
     \/ /\ steps # <<>> /\ StepComplete(steps[1])
        /\ config' = [config EXCEPT !.serving = SelectServingConcurrency(steps, Policy(config.preset)),
                                    !.measured = steps]
  /\ stage' = "settled" /\ steps' = <<>>
  /\ UNCHANGED <<catalog, wizardVars>>

PlanningNext ==
  \/ Detect \/ Ask \/ SelectAutomatic \/ Refuse \/ SelectManual \/ Confirm \/ Decline
  \/ Handoff \/ CheckEndpoint \/ WriteConfig
  \/ StartCalibration \/ MeasureStep \/ StepFails \/ EndCalibration

PlanningSpec == PlanningInit /\ [][PlanningNext]_planningVars

-----------------------------------------------------------------------------
PlanningTypeOK ==
  /\ stage \in Stages
  /\ preset \in Presets \cup {Nothing} /\ mode \in Modes \cup {Nothing}
  /\ chosen \in 0..Len(catalog)
  /\ confirmed \in BOOLEAN
  /\ plan # Nothing => plan.parallel \in 1..4 /\ plan.context \in 1..ContextCap
  /\ config # Nothing => config.ceiling \in 1..4 /\ config.serving \in 1..4
  /\ \A i \in DOMAIN steps : steps[i] \in Measures

(* What was shown to the operator is kept: a plan has the status its model *)
(* was listed with and really fits, with the headroom where FIT was shown, *)
(* the model is used within its own context, and the plan is refused only  *)
(* for vLLM, which has no smaller setting to fall back to.                 *)
(* [build_serving_plan, _plan_llamacpp]                                    *)
PlanKeepsVerdict ==
  /\ stage \in {"planned", "checked"} =>
       /\ plan.status = Listed(chosen).status
       /\ plan.place.ram <= PlanningRam(profile)
       /\ \A i \in DOMAIN plan.place.vram : plan.place.vram[i] <= profile.free[i]
       /\ plan.context <= Max({1, catalog[chosen].maxContext})
       /\ plan.status = "FIT" =>
            /\ 5 * plan.place.ram <= 4 * PlanningRam(profile)
            /\ \A i \in DOMAIN plan.place.vram : 5 * plan.place.vram[i] <= 4 * profile.free[i]
  /\ stage = "ended" /\ chosen # 0 /\ plan = Nothing /\ ~(Listed(chosen).status = "RISKY" /\ ~confirmed) =>
       Listed(chosen).backend = "vllm-cuda"

(* A risky model is installed only after somebody said yes to it, by itself *)
(* only when nothing fits, and the program's choice is not outranked.       *)
(* [select_catalog_model]                                                  *)
SelectionSound ==
  stage \in {"selected", "planned"} =>
    /\ Selectable(chosen)
    /\ Listed(chosen).status = "RISKY" => confirmed
    /\ mode # "manual" =>
         /\ Listed(chosen).status = "RISKY" => Eligible("FIT") = {} /\ mode = "automatic"
         /\ \A n \in Eligible(Listed(chosen).status) : ~Above(Key(n), Key(chosen))

(* A calibrated runtime serves no more than the memory plan allows, at a   *)
(* concurrency that was measured, with every step on the way in the budget *)
(* of the baseline and faster than the one before it.                      *)
(* [select_serving_concurrency]                                            *)
CalibratedAsMeasured ==
  config # Nothing =>
    /\ config.serving <= config.ceiling
    /\ config.serving > 1 => config.serving <= Len(config.measured)
    /\ LET policy == Policy(config.preset)
           ms     == config.measured
       IN \A i \in 2..config.serving :
            /\ StepComplete(ms[i]) /\ 100 * ms[i].ttft <= policy.ttft * ms[1].ttft
            /\ 100 * ms[i].total <= policy.total * ms[1].total
            /\ ms[i].rate > ms[i - 1].rate

(* What is selected and planned is what the operator was shown, and what   *)
(* is served is what was measured.                                         *)
PlanningSound == PlanKeepsVerdict /\ SelectionSound /\ CalibratedAsMeasured

=============================================================================
