---------------------------- MODULE ServicesProofs ----------------------------
(***************************************************************************)
(* Proofs about the services of MCServices, each for any value of its      *)
(* constants: the model runtime, the synchronisation client and the file   *)
(* store.  At the end they are put together.                               *)
(***************************************************************************)
EXTENDS MCServices, FiniteSetTheorems, SequenceTheorems, WellFoundedInduction, TLAPS

-----------------------------------------------------------------------------
(* Types, and what a command's record becomes.                              *)

Counts == [commands : 0..MaxCommands, embedding : 0..MaxEmbRuns, kills : 0..MaxKills]
Staged == [count : GenOrNone, trial : SUBSET Gens, origin : [Gens -> GenOrNone]]
Excused == [killed : SUBSET {"llm", "embedding"}, left : BOOLEAN,
            overlapped : BOOLEAN, abandoned : SUBSET Gens]

LEMMA RuntimeTypes ==
  ASSUME RuntimeTypeOK
  PROVE  /\ container \in GenOrNone /\ aside \in GenOrNone
         /\ active \in GenOrNone /\ embActive \in GenOrNone
         /\ generations \in Staged /\ status \in Statuses /\ claims \in Claims
         /\ op \in Ops /\ emb \in Embs /\ runs \in Counts /\ excuses \in Excused
  BY DEF RuntimeTypeOK, Counts, Staged, Excused

LEMMA GenFacts ==
  /\ MaxGens \in Nat /\ Gens \subseteq GenOrNone /\ None \in GenOrNone /\ None \notin Gens
  /\ GenOrNone \subseteq Nat /\ EmbGens \subseteq GenOrNone
  /\ \A g \in GenOrNone : g # None => g \in Gens
  BY RuntimeAssumption DEF Gens, GenOrNone, None

LEMMA NoOpFacts ==
  /\ NoOp \in Ops /\ NoOp.task = "none" /\ NoOp.phase = "idle" /\ NoOp.gen = None
  /\ NoOp.had = FALSE /\ NoOp.was = NoStatus /\ NoOp.first = None /\ NoOp.seen = NoClaims
  /\ NoStatus \in Statuses /\ NoStatus.kind = "none" /\ NoStatus.gen = None
  /\ NoClaims \in Claims /\ NoClaims.llm = None /\ NoClaims.embedding = None
  /\ NoEmb \in Embs /\ NoEmb.phase = "idle" /\ NoEmb.gen = None
<1>1. NoStatus \in Statuses /\ NoClaims \in Claims /\ NoStatus.kind = "none"
      /\ NoStatus.gen = None /\ NoClaims.llm = None /\ NoClaims.embedding = None
  BY GenFacts DEF NoStatus, NoClaims, Statuses, Claims
<1> QED
  BY <1>1, GenFacts DEF NoOp, Ops, OpPhases, Tasks, NoEmb, Embs

(* Only the phase of the command moves.                                     *)
OpAs(phase) ==
  /\ op' \in Ops /\ op'.phase = phase
  /\ op'.task = op.task /\ op'.gen = op.gen /\ op'.had = op.had /\ op'.was = op.was
  /\ op'.first = op.first /\ op'.seen = op.seen

LEMMA GotoFacts ==
  ASSUME op \in Ops, NEW phase \in OpPhases, Goto(phase)
  PROVE  OpAs(phase)
  BY DEF Goto, Ops, OpAs

(* A runtime change begins.                                                 *)
OpBegins(task, g, first) ==
  /\ op' \in Ops /\ op'.phase = "rename"
  /\ op'.task = task /\ op'.gen = g /\ op'.had = FALSE /\ op'.was = status
  /\ op'.first = first

LEMMA BeginFacts ==
  ASSUME RuntimeTypeOK, NEW task \in Tasks, NEW g \in GenOrNone, NEW first \in GenOrNone,
         BeginApply(task, g, first)
  PROVE  OpBegins(task, g, first)
<1>1. op' = [task |-> task, phase |-> "rename", gen |-> g, had |-> FALSE, was |-> status,
             first |-> first, seen |-> NoClaims]
  BY DEF BeginApply, NoOp
<1> QED
  BY <1>1, NoOpFacts, RuntimeTypes DEF OpBegins, Ops, OpPhases

(* A new generation is staged for it.                                       *)
OpStages(task, first) ==
  \E g \in Gens :
    /\ g = generations.count + 1 /\ OpBegins(task, g, first)
    /\ generations' \in Staged /\ generations'.count = g
    /\ generations'.trial = IF task = "try" THEN generations.trial \cup {g}
                            ELSE generations.trial
    /\ \A h \in Gens : generations'.origin[h] =
         IF task # "change" /\ h = g THEN Origin ELSE generations.origin[h]

LEMMA StageFacts ==
  ASSUME RuntimeTypeOK, NEW task \in Tasks, NEW first \in GenOrNone, Stage(task, first),
         task # "change" => active # None
  PROVE  OpStages(task, first)
<1> DEFINE g == generations.count + 1
           tr == IF task = "try" THEN generations.trial \cup {g} ELSE generations.trial
           o == IF task = "change" THEN generations.origin
                ELSE [generations.origin EXCEPT ![g] = Origin]
<1>1. g \in Gens /\ BeginApply(task, g, first)
  BY DEF Stage
<1>2. generations' = [count |-> g, trial |-> tr, origin |-> o]
  BY DEF Stage
<1>3. generations.trial \in SUBSET Gens /\ generations.origin \in [Gens -> GenOrNone]
  BY RuntimeTypes DEF Staged
<1>4. g \in GenOrNone
  BY <1>1, GenFacts
<1>5. task # "change" => Origin \in GenOrNone
  BY <1>3, RuntimeTypes, GenFacts DEF Origin
<1>6. o \in [Gens -> GenOrNone] /\ tr \in SUBSET Gens
  BY <1>1, <1>3, <1>5
<1>7. \A h \in Gens : o[h] = IF task # "change" /\ h = g THEN Origin ELSE generations.origin[h]
  BY <1>1, <1>3
<1>8. OpBegins(task, g, first)
  BY <1>1, <1>4, BeginFacts
<1> HIDE DEF o
<1>9. generations' \in Staged
  BY <1>2, <1>4, <1>6 DEF Staged
<1> QED
  BY <1>1, <1>2, <1>7, <1>8, <1>9 DEF OpStages

LEMMA RunsFacts ==
  ASSUME RuntimeTypeOK
  PROVE  /\ Command => runs' \in Counts
         /\ EmbCommand => runs' \in Counts
         /\ runs.kills < MaxKills /\ runs' = [runs EXCEPT !.kills = @ + 1] => runs' \in Counts
<1>1. runs \in Counts
  BY RuntimeTypes
<1>2. \A n, m \in Nat : n < m /\ n \in 0..m => n + 1 \in 0..m
  OBVIOUS
<1>3. /\ MaxCommands \in Nat /\ MaxEmbRuns \in Nat /\ MaxKills \in Nat
      /\ runs.commands \in 0..MaxCommands /\ runs.embedding \in 0..MaxEmbRuns
      /\ runs.kills \in 0..MaxKills
  BY <1>1, RuntimeAssumption DEF Counts
<1>4. ASSUME Command PROVE runs' \in Counts
  <2>1. runs.commands + 1 \in 0..MaxCommands /\ runs' = [runs EXCEPT !.commands = runs.commands + 1]
    BY <1>1, <1>3, <1>4 DEF Command, Counts
  <2> QED
    BY <1>1, <2>1 DEF Counts
<1>5. ASSUME EmbCommand PROVE runs' \in Counts
  <2>1. /\ runs.embedding + 1 \in 0..MaxEmbRuns
        /\ runs' = [runs EXCEPT !.embedding = runs.embedding + 1]
    BY <1>1, <1>3, <1>5 DEF EmbCommand, Counts
  <2> QED
    BY <1>1, <2>1 DEF Counts
<1>6. ASSUME runs.kills < MaxKills, runs' = [runs EXCEPT !.kills = @ + 1]
      PROVE  runs' \in Counts
  <2>1. runs.kills + 1 \in 0..MaxKills /\ runs' = [runs EXCEPT !.kills = runs.kills + 1]
    BY <1>1, <1>3, <1>6 DEF Counts
  <2> QED
    BY <1>1, <2>1 DEF Counts
<1> QED
  BY <1>4, <1>5, <1>6

(* The excuses that change, and those that stay.                            *)
ExcusedAs(k, l, o, a) ==
  /\ excuses' \in Excused
  /\ excuses'.killed = k /\ excuses'.left = l
  /\ excuses'.overlapped = o /\ excuses'.abandoned = a

LEMMA ExcuseFacts ==
  ASSUME RuntimeTypeOK, NEW k \in SUBSET {"llm", "embedding"}, NEW l \in BOOLEAN,
         NEW o \in BOOLEAN, NEW a \in SUBSET Gens
  PROVE  /\ excuses' = [excuses EXCEPT !.killed = k, !.overlapped = o] =>
              ExcusedAs(k, excuses.left, o, excuses.abandoned)
         /\ excuses' = [excuses EXCEPT !.killed = k] =>
              ExcusedAs(k, excuses.left, excuses.overlapped, excuses.abandoned)
         /\ excuses' = [excuses EXCEPT !.overlapped = o] =>
              ExcusedAs(excuses.killed, excuses.left, o, excuses.abandoned)
         /\ excuses' = [excuses EXCEPT !.abandoned = a] =>
              ExcusedAs(excuses.killed, excuses.left, excuses.overlapped, a)
         /\ excuses' = [excuses EXCEPT !.killed = k, !.left = l, !.abandoned = a] =>
              ExcusedAs(k, l, excuses.overlapped, a)
<1>1. excuses \in Excused
  BY RuntimeTypes
<1>2. ASSUME excuses' = [excuses EXCEPT !.killed = k, !.overlapped = o]
      PROVE  ExcusedAs(k, excuses.left, o, excuses.abandoned)
  BY <1>1, <1>2 DEF Excused, ExcusedAs
<1>3. ASSUME excuses' = [excuses EXCEPT !.killed = k]
      PROVE  ExcusedAs(k, excuses.left, excuses.overlapped, excuses.abandoned)
  BY <1>1, <1>3 DEF Excused, ExcusedAs
<1>4. ASSUME excuses' = [excuses EXCEPT !.overlapped = o]
      PROVE  ExcusedAs(excuses.killed, excuses.left, o, excuses.abandoned)
  BY <1>1, <1>4 DEF Excused, ExcusedAs
<1>5. ASSUME excuses' = [excuses EXCEPT !.abandoned = a]
      PROVE  ExcusedAs(excuses.killed, excuses.left, excuses.overlapped, a)
  BY <1>1, <1>5 DEF Excused, ExcusedAs
<1>6. ASSUME excuses' = [excuses EXCEPT !.killed = k, !.left = l, !.abandoned = a]
      PROVE  ExcusedAs(k, l, excuses.overlapped, a)
  BY <1>1, <1>6 DEF Excused, ExcusedAs
<1> QED
  BY <1>2, <1>3, <1>4, <1>5, <1>6

-----------------------------------------------------------------------------
(* Each kind of step, in the terms the invariant needs: what it does to the *)
(* command, and that the types are kept.                                    *)

LEMMA StepChange ==
  ASSUME RuntimeTypeOK, Change
  PROVE  RuntimeTypeOK' /\ OpStages("change", None)
<1>1. /\ Command /\ Stage("change", None)
      /\ UNCHANGED <<container, aside, active, embActive, status, claims, emb, excuses>>
  BY DEF Change
<1>2. OpStages("change", None)
  BY <1>1, StageFacts, GenFacts DEF Tasks
<1>3. op' \in Ops /\ generations' \in Staged
  BY <1>2 DEF OpStages, OpBegins
<1> QED
  BY <1>1, <1>2, <1>3, RunsFacts DEF RuntimeTypeOK, Counts, Staged

LEMMA StepRebuild ==
  ASSUME RuntimeTypeOK, Rebuild
  PROVE  RuntimeTypeOK' /\ OpBegins("change", active, None)
<1>1. /\ Command /\ BeginApply("change", active, None)
      /\ UNCHANGED <<container, aside, active, embActive, generations, status, claims, emb, excuses>>
  BY DEF Rebuild
<1>2. OpBegins("change", active, None)
  BY <1>1, BeginFacts, GenFacts, RuntimeTypes DEF Tasks
<1>3. op' \in Ops
  BY <1>2 DEF OpBegins
<1> QED
  BY <1>1, <1>2, <1>3, RunsFacts DEF RuntimeTypeOK, Counts

LEMMA StepCalibrate ==
  ASSUME RuntimeTypeOK, Calibrate
  PROVE  /\ RuntimeTypeOK'
         /\ \/ /\ active \in generations.trial /\ generations' = generations
               /\ OpBegins("restore", generations.origin[active], None)
            \/ active \notin generations.trial /\ OpStages("try", active)
<1>1. /\ Command /\ active # None /\ active \in Gens
      /\ UNCHANGED <<container, aside, active, embActive, status, claims, emb, excuses>>
  BY RuntimeTypes, GenFacts DEF Calibrate
<1>2. CASE active \in generations.trial
  <2>1. BeginApply("restore", generations.origin[active], None) /\ generations' = generations
    BY <1>2 DEF Calibrate
  <2>2. generations.origin[active] \in GenOrNone
    BY <1>1, RuntimeTypes DEF Staged
  <2>3. OpBegins("restore", generations.origin[active], None)
    BY <2>1, <2>2, BeginFacts, GenFacts DEF Tasks
  <2>4. op' \in Ops
    BY <2>3 DEF OpBegins
  <2> QED
    BY <1>1, <1>2, <2>1, <2>3, <2>4, RunsFacts DEF RuntimeTypeOK, Counts
<1>3. CASE active \notin generations.trial
  <2>1. Stage("try", active)
    BY <1>3 DEF Calibrate
  <2>2. OpStages("try", active)
    BY <1>1, <2>1, StageFacts, RuntimeTypes DEF Tasks
  <2>3. op' \in Ops /\ generations' \in Staged
    BY <2>2 DEF OpStages, OpBegins
  <2> QED
    BY <1>1, <1>3, <2>2, <2>3, RunsFacts DEF RuntimeTypeOK, Counts, Staged
<1> QED
  BY <1>2, <1>3

LEMMA StepSetAside ==
  ASSUME RuntimeTypeOK, SetAside
  PROVE  /\ RuntimeTypeOK'
         /\ op'.phase = "launch" /\ op'.task = op.task /\ op'.gen = op.gen
         /\ op'.was = op.was /\ op'.first = op.first
         /\ op'.had = (container # None /\ aside = None)
<1> DEFINE had == container # None /\ aside = None
<1>1. /\ op' = [op EXCEPT !.phase = "launch", !.had = had]
      /\ container' \in GenOrNone /\ aside' \in GenOrNone
      /\ UNCHANGED <<active, embActive, generations, status, claims, emb, runs, excuses>>
  BY RuntimeTypes, GenFacts DEF SetAside
<1>2. op \in Ops /\ had \in BOOLEAN
  BY RuntimeTypes
<1> HIDE DEF had
<1>3. /\ op' \in Ops /\ op'.phase = "launch" /\ op'.task = op.task /\ op'.gen = op.gen
      /\ op'.was = op.was /\ op'.first = op.first /\ op'.had = had
  BY <1>1, <1>2 DEF Ops, OpPhases
<1>4. RuntimeTypeOK'
  BY <1>1, <1>3 DEF RuntimeTypeOK
<1> QED
  BY <1>3, <1>4 DEF had

LEMMA StepLaunch ==
  ASSUME RuntimeTypeOK, Launch
  PROVE  /\ RuntimeTypeOK'
         /\ \/ OpAs("wait") /\ status'.kind = "starting"
            \/ OpAs("discard") /\ status' = status
<1>1. op \in Ops /\ op.gen \in GenOrNone
  BY RuntimeTypes DEF Ops
<1>2. CASE Goto("wait") /\ status' = [kind |-> "starting", gen |-> op.gen]
  <2>1. OpAs("wait") /\ status' \in Statuses /\ status'.kind = "starting"
    BY <1>1, <1>2, GotoFacts DEF OpPhases, Statuses
  <2> QED
    BY <1>1, <2>1 DEF Launch, RuntimeTypeOK, OpAs
<1>3. CASE Goto("discard") /\ status' = status
  <2>1. OpAs("discard")
    BY <1>1, <1>3, GotoFacts DEF OpPhases
  <2> QED
    BY <1>1, <1>3, <2>1 DEF Launch, RuntimeTypeOK, OpAs
<1> QED
  BY <1>2, <1>3 DEF Launch

LEMMA StepValidate ==
  ASSUME RuntimeTypeOK, Validate
  PROVE  RuntimeTypeOK' /\ (OpAs("commit") \/ OpAs("discard"))
<1>1. OpAs("commit") \/ OpAs("discard")
  BY RuntimeTypes, GotoFacts DEF Validate, OpPhases
<1> QED
  BY <1>1 DEF Validate, RuntimeTypeOK, OpAs

LEMMA StepCommit ==
  ASSUME RuntimeTypeOK, Commit
  PROVE  RuntimeTypeOK' /\ OpAs("clean")
<1>1. OpAs("clean") /\ op.gen \in GenOrNone
  BY RuntimeTypes, GotoFacts DEF Commit, OpPhases, Ops
<1> QED
  BY <1>1 DEF Commit, RuntimeTypeOK, OpAs

LEMMA StepClean ==
  ASSUME RuntimeTypeOK, Clean
  PROVE  RuntimeTypeOK' /\ OpAs("mark")
<1>1. OpAs("mark")
  BY RuntimeTypes, GotoFacts DEF Clean, OpPhases
<1> QED
  BY <1>1, GenFacts DEF Clean, RuntimeTypeOK, OpAs

LEMMA StepMark ==
  ASSUME RuntimeTypeOK, Mark
  PROVE  /\ RuntimeTypeOK' /\ OpAs("claimRead")
         /\ status'.kind = "healthy" /\ status'.gen = op.gen
<1>1. OpAs("claimRead") /\ op.gen \in GenOrNone
  BY RuntimeTypes, GotoFacts DEF Mark, OpPhases, Ops
<1>2. status' \in Statuses /\ status'.kind = "healthy" /\ status'.gen = op.gen
  BY <1>1 DEF Mark, Statuses
<1> QED
  BY <1>1, <1>2 DEF Mark, RuntimeTypeOK, OpAs

LEMMA StepClaimRead ==
  ASSUME RuntimeTypeOK, ClaimRead
  PROVE  /\ RuntimeTypeOK'
         /\ op'.phase = "claimWrite" /\ op'.task = op.task /\ op'.gen = op.gen
         /\ op'.had = op.had /\ op'.first = op.first /\ op'.seen = claims
<1>1. op \in Ops /\ claims \in Claims /\ op' = [op EXCEPT !.phase = "claimWrite", !.seen = claims]
  BY RuntimeTypes DEF ClaimRead
<1>2. /\ op' \in Ops /\ op'.phase = "claimWrite" /\ op'.task = op.task /\ op'.gen = op.gen
      /\ op'.had = op.had /\ op'.first = op.first /\ op'.seen = claims
  BY <1>1 DEF Ops, OpPhases
<1> QED
  BY <1>2 DEF ClaimRead, RuntimeTypeOK

(* Writing one claim into what was read.                                    *)
LEMMA ClaimedFacts ==
  ASSUME NEW s \in Claims, NEW g \in GenOrNone
  PROVE  /\ Claimed(s, "llm", g) \in Claims /\ Claimed(s, "llm", g).llm = g
         /\ Claimed(s, "llm", g).embedding = s.embedding
         /\ Claimed(s, "embedding", g) \in Claims /\ Claimed(s, "embedding", g).embedding = g
         /\ Claimed(s, "embedding", g).llm = s.llm
  BY DEF Claimed, Claims

(* The command ends, or goes on to the next round of its calibration.       *)
Left ==
  \/ op.task \in {"change", "resume", "remove"} /\ op' = NoOp
  \/ op.task \notin {"change", "resume", "remove"} /\ OpAs("applied")

LEMMA LeaveFacts ==
  ASSUME op \in Ops, Leave
  PROVE  Left /\ op' \in Ops
<1>1. CASE op.task \in {"change", "resume", "remove"}
  BY <1>1, NoOpFacts DEF Leave, Left
<1>2. CASE op.task \notin {"change", "resume", "remove"}
  <2>1. Goto("applied")
    BY <1>2 DEF Leave, Goto
  <2> QED
    BY <1>2, <2>1, GotoFacts DEF Left, OpPhases, OpAs
<1> QED
  BY <1>1, <1>2

LEMMA StepClaimWrite ==
  ASSUME RuntimeTypeOK, ClaimWrite
  PROVE  /\ RuntimeTypeOK' /\ Left
         /\ claims'.llm = op.gen /\ claims'.embedding = op.seen.embedding
         /\ ExcusedAs(excuses.killed \ {"llm"}, excuses.left,
                      excuses.overlapped \/ claims # op.seen, excuses.abandoned)
<1> DEFINE k == excuses.killed \ {"llm"}
           o == excuses.overlapped \/ claims # op.seen
<1>1. op \in Ops /\ op.seen \in Claims /\ op.gen \in GenOrNone /\ excuses \in Excused
  BY RuntimeTypes DEF Ops
<1>2. k \in SUBSET {"llm", "embedding"}
  BY <1>1 DEF Excused
<1>3. o \in BOOLEAN
  BY <1>1 DEF Excused
<1>4. excuses' = [excuses EXCEPT !.killed = k, !.overlapped = o]
  BY <1>1 DEF ClaimWrite, Excused
<1> HIDE DEF k, o
<1>5. ExcusedAs(k, excuses.left, o, excuses.abandoned)
  BY <1>1, <1>2, <1>3, <1>4, ExcuseFacts DEF Excused
<1>6. claims' \in Claims /\ claims'.llm = op.gen /\ claims'.embedding = op.seen.embedding
  BY <1>1, ClaimedFacts DEF ClaimWrite
<1>7. Left /\ op' \in Ops
  BY <1>1, LeaveFacts DEF ClaimWrite
<1>8. excuses' \in Excused
  BY <1>5 DEF ExcusedAs
<1>9. RuntimeTypeOK'
  BY <1>6, <1>7, <1>8 DEF ClaimWrite, RuntimeTypeOK, Excused
<1> QED
  BY <1>5, <1>6, <1>7, <1>9 DEF k, o

LEMMA StepDiscard ==
  ASSUME RuntimeTypeOK, Discard
  PROVE  /\ RuntimeTypeOK'
         /\ \/ op.task = "resume" /\ op' = NoOp
            \/ op.task # "resume" /\ OpAs("putBack")
<1>1. CASE op.task = "resume"
  BY <1>1, NoOpFacts, GenFacts DEF Discard, RuntimeTypeOK
<1>2. CASE op.task # "resume"
  <2>1. Goto("putBack")
    BY <1>2 DEF Discard, Goto
  <2>2. OpAs("putBack")
    BY <2>1, RuntimeTypes, GotoFacts DEF OpPhases
  <2> QED
    BY <1>2, <2>2, GenFacts DEF Discard, RuntimeTypeOK, OpAs
<1> QED
  BY <1>1, <1>2

LEMMA StepPutBack ==
  ASSUME RuntimeTypeOK, PutBack
  PROVE  RuntimeTypeOK' /\ OpAs("report")
<1>1. OpAs("report")
  BY RuntimeTypes, GotoFacts DEF PutBack, OpPhases
<1> QED
  BY <1>1, GenFacts DEF PutBack, RuntimeTypeOK, OpAs

LEMMA StepReport ==
  ASSUME RuntimeTypeOK, Report
  PROVE  /\ RuntimeTypeOK'
         /\ \/ op.had /\ status' = op.was
            \/ status'.kind = "unavailable"
         /\ \/ op.task = "change" /\ op' = NoOp
            \/ op.task # "change" /\ OpAs("failed")
<1>1. op \in Ops /\ op.was \in Statuses /\ op.gen \in GenOrNone
  BY RuntimeTypes DEF Ops
<1>2. /\ status' \in Statuses
      /\ (op.had /\ status' = op.was) \/ status'.kind = "unavailable"
  BY <1>1 DEF Report, Statuses
<1>3. /\ op' \in Ops
      /\ \/ op.task = "change" /\ op' = NoOp
         \/ op.task # "change" /\ OpAs("failed")
  <2>1. CASE op.task = "change"
    BY <2>1, NoOpFacts DEF Report
  <2>2. CASE op.task # "change"
    <3>1. Goto("failed")
      BY <2>2 DEF Report, Goto
    <3> QED
      BY <1>1, <2>2, <3>1, GotoFacts DEF OpPhases, OpAs
  <2> QED
    BY <2>1, <2>2
<1> QED
  BY <1>2, <1>3 DEF Report, RuntimeTypeOK

(* What may follow a round of a calibration.                                *)
OpQuits == op' = NoOp /\ generations' = generations
OpUndoes == OpBegins("undo", op.first, op.first) /\ generations' = generations

LEMMA RoundFacts ==
  ASSUME RuntimeTypeOK, active # None
  PROVE  /\ Stage("try", active) => OpStages("try", active)
         /\ Stage("try", op.first) => OpStages("try", op.first)
         /\ Stage("select", op.first) => OpStages("select", op.first)
         /\ Undo => OpUndoes
         /\ Quit => OpQuits
         /\ \A task \in Tasks, first \in GenOrNone :
              OpStages(task, first) => op' \in Ops /\ generations' \in Staged
         /\ OpUndoes \/ OpQuits => op' \in Ops /\ generations' = generations
<1>1. op.first \in GenOrNone
  BY RuntimeTypes DEF Ops
<1>2. Undo => OpUndoes
  BY <1>1, BeginFacts DEF Undo, OpUndoes, Tasks
<1>3. Quit => OpQuits
  BY DEF Quit, OpQuits
<1>4. \A task \in Tasks, first \in GenOrNone :
        OpStages(task, first) => op' \in Ops /\ generations' \in Staged
  BY DEF OpStages, OpBegins
<1>5. OpUndoes \/ OpQuits => op' \in Ops /\ generations' = generations
  BY NoOpFacts DEF OpUndoes, OpQuits, OpBegins
<1> QED
  BY <1>1, <1>2, <1>3, <1>4, <1>5, StageFacts, RuntimeTypes DEF Tasks

LEMMA StepNextRound ==
  ASSUME RuntimeTypeOK, active # None, NextRound
  PROVE  /\ RuntimeTypeOK'
         /\ \/ op.task = "restore" /\ OpStages("try", active)
            \/ /\ op.task = "try"
               /\ OpStages("try", op.first) \/ OpStages("select", op.first) \/ OpUndoes
            \/ op.task = "select" /\ (OpQuits \/ OpUndoes)
            \/ op.task = "undo" /\ OpQuits
<1>1. \/ op.task = "restore" /\ OpStages("try", active)
      \/ /\ op.task = "try"
         /\ OpStages("try", op.first) \/ OpStages("select", op.first) \/ OpUndoes
      \/ op.task = "select" /\ (OpQuits \/ OpUndoes)
      \/ op.task = "undo" /\ OpQuits
  BY RoundFacts DEF NextRound
<1>2. op' \in Ops /\ generations' \in Staged
  BY <1>1, RoundFacts, RuntimeTypes DEF Tasks, Ops
<1> QED
  BY <1>1, <1>2 DEF NextRound, RuntimeTypeOK, Staged

LEMMA StepRoundFails ==
  ASSUME RuntimeTypeOK, active # None, RoundFails
  PROVE  /\ RuntimeTypeOK'
         /\ \/ op.task = "try" /\ (OpStages("select", op.first) \/ OpUndoes)
            \/ op.task = "select" /\ OpUndoes
            \/ /\ op.task \in {"try", "restore", "undo"} /\ OpQuits
               /\ op.task = "try" => active = op.first
         /\ op.task # "undo" => excuses' = excuses
         /\ op.task = "undo" =>
              ExcusedAs(excuses.killed, excuses.left, excuses.overlapped,
                        excuses.abandoned \cup ({active} \cap generations.trial))
<1>1. \/ op.task = "try" /\ (OpStages("select", op.first) \/ OpUndoes)
      \/ op.task = "select" /\ OpUndoes
      \/ /\ op.task \in {"try", "restore", "undo"} /\ OpQuits
         /\ op.task = "try" => active = op.first
  BY RoundFacts DEF RoundFails
<1>2. op' \in Ops /\ generations' \in Staged
  BY <1>1, RoundFacts, RuntimeTypes DEF Tasks, Ops
<1>3. excuses \in Excused /\ generations.trial \subseteq Gens
  BY RuntimeTypes DEF Staged
<1>4. op.task = "undo" =>
        ExcusedAs(excuses.killed, excuses.left, excuses.overlapped,
                  excuses.abandoned \cup ({active} \cap generations.trial))
  <2> DEFINE a == excuses.abandoned \cup ({active} \cap generations.trial)
  <2>1. a \in SUBSET Gens
    BY <1>3 DEF Excused
  <2>2. op.task = "undo" => excuses' = [excuses EXCEPT !.abandoned = a]
    BY <1>3 DEF RoundFails, Excused
  <2> HIDE DEF a
  <2>3. op.task = "undo" =>
          ExcusedAs(excuses.killed, excuses.left, excuses.overlapped, a)
    BY <1>3, <2>1, <2>2, ExcuseFacts DEF Excused
  <2> QED
    BY <2>3 DEF a
<1>5. op.task # "undo" => excuses' = excuses
  BY DEF RoundFails
<1>6. excuses' \in Excused
  BY <1>3, <1>4, <1>5 DEF ExcusedAs
<1>7. RuntimeTypeOK'
  BY <1>2, <1>6 DEF RoundFails, RuntimeTypeOK, Staged, Excused
<1> QED
  BY <1>1, <1>4, <1>5, <1>7

LEMMA StepResume ==
  ASSUME RuntimeTypeOK, Resume
  PROVE  /\ RuntimeTypeOK'
         /\ op'.phase = "wait" /\ op'.task = "resume" /\ op'.gen = active /\ ~op'.had
         /\ container' = active
<1>1. op' = [task |-> "resume", phase |-> "wait", gen |-> active, had |-> FALSE,
             was |-> NoStatus, first |-> None, seen |-> NoClaims]
  BY DEF Resume, NoOp
<1>2. active \in GenOrNone /\ container' = active
  BY RuntimeTypes DEF Resume
<1>3. op' \in Ops
  BY <1>1, <1>2, NoOpFacts, GenFacts DEF Ops, OpPhases, Tasks
<1>4. status' \in Statuses
  BY <1>2, RuntimeTypes DEF Resume, Statuses
<1>5. runs' \in Counts
  BY RunsFacts DEF Resume
<1>6. RuntimeTypeOK'
  BY <1>2, <1>3, <1>4, <1>5 DEF Resume, RuntimeTypeOK, Counts
<1> QED
  BY <1>1, <1>2, <1>6

LEMMA StepResumeFails ==
  ASSUME RuntimeTypeOK, ResumeFails
  PROVE  RuntimeTypeOK' /\ status'.kind = "unavailable"
<1>1. status' \in Statuses /\ status'.kind = "unavailable"
  BY RuntimeTypes DEF ResumeFails, Statuses
<1>2. runs' \in Counts
  BY RunsFacts DEF ResumeFails
<1> QED
  BY <1>1, <1>2 DEF ResumeFails, RuntimeTypeOK, Counts

LEMMA StepResumed ==
  ASSUME RuntimeTypeOK, Resumed
  PROVE  /\ RuntimeTypeOK'
         /\ \/ OpAs("claimRead") /\ status'.gen = op.gen
            \/ OpAs("discard") /\ status'.kind = "unavailable"
<1>1. op \in Ops /\ op.gen \in GenOrNone
  BY RuntimeTypes DEF Ops
<1>2. \/ OpAs("claimRead") /\ status'.gen = op.gen
      \/ OpAs("discard") /\ status'.kind = "unavailable"
  BY <1>1, GotoFacts DEF Resumed, OpPhases
<1>3. status' \in Statuses
  BY <1>1 DEF Resumed, Statuses
<1> QED
  BY <1>2, <1>3 DEF Resumed, RuntimeTypeOK, OpAs

LEMMA StepShutdown ==
  ASSUME RuntimeTypeOK, Shutdown
  PROVE  RuntimeTypeOK'
  BY RunsFacts, GenFacts DEF Shutdown, RuntimeTypeOK, Counts

LEMMA StepRemove ==
  ASSUME RuntimeTypeOK, RemoveRuntime
  PROVE  /\ RuntimeTypeOK'
         /\ op'.phase = "wipe" /\ op'.task = "remove" /\ op'.gen = None /\ ~op'.had
<1>1. op' = [task |-> "remove", phase |-> "wipe", gen |-> None, had |-> FALSE,
             was |-> NoStatus, first |-> None, seen |-> NoClaims]
  BY DEF RemoveRuntime, NoOp
<1>2. op' \in Ops
  BY <1>1, NoOpFacts, GenFacts DEF Ops, OpPhases, Tasks
<1>3. runs' \in Counts
  BY RunsFacts DEF RemoveRuntime
<1>4. RuntimeTypeOK'
  BY <1>2, <1>3, GenFacts DEF RemoveRuntime, RuntimeTypeOK, Counts
<1> QED
  BY <1>1, <1>4

LEMMA StepWipe ==
  ASSUME RuntimeTypeOK, Wipe
  PROVE  RuntimeTypeOK' /\ OpAs("claimRead")
<1>1. OpAs("claimRead")
  BY RuntimeTypes, GotoFacts DEF Wipe, OpPhases
<1> QED
  BY <1>1, NoOpFacts, GenFacts DEF Wipe, RuntimeTypeOK, OpAs

LEMMA StepUnclaim ==
  ASSUME RuntimeTypeOK, Unclaim
  PROVE  /\ RuntimeTypeOK' /\ op' = NoOp
         /\ \/ op.seen.llm = None /\ claims' = claims /\ excuses'.overlapped = excuses.overlapped
            \/ /\ claims'.llm = None /\ claims'.embedding = op.seen.embedding
               /\ excuses'.overlapped = (excuses.overlapped \/ claims # op.seen)
         /\ excuses'.killed = excuses.killed \ {"llm"} /\ excuses'.left = excuses.left
         /\ excuses'.abandoned = excuses.abandoned
<1> DEFINE k == excuses.killed \ {"llm"}
           o == excuses.overlapped \/ claims # op.seen
<1>1. op \in Ops /\ op.seen \in Claims /\ excuses \in Excused /\ op.task = "remove"
  BY RuntimeTypes DEF Ops, Unclaim
<1>2. k \in SUBSET {"llm", "embedding"}
  BY <1>1 DEF Excused
<1>3. o \in BOOLEAN
  BY <1>1 DEF Excused
<1>4. op' = NoOp /\ op' \in Ops
  BY <1>1, NoOpFacts DEF Unclaim, Leave
<1>5. CASE op.seen.llm = None
  <2>1. claims' = claims /\ excuses' = [excuses EXCEPT !.killed = k]
    BY <1>1, <1>5 DEF Unclaim, Excused
  <2> HIDE DEF k
  <2>2. ExcusedAs(k, excuses.left, excuses.overlapped, excuses.abandoned)
    BY <1>1, <1>2, <2>1, ExcuseFacts DEF Excused
  <2>3. RuntimeTypeOK'
    BY <1>4, <2>1, <2>2 DEF Unclaim, RuntimeTypeOK, ExcusedAs, Excused
  <2> QED
    BY <1>4, <1>5, <2>1, <2>2, <2>3 DEF ExcusedAs, k
<1>6. CASE op.seen.llm # None
  <2>1. /\ claims' = Claimed(op.seen, "llm", None)
        /\ excuses' = [excuses EXCEPT !.killed = k, !.overlapped = o]
    BY <1>1, <1>6 DEF Unclaim, Excused
  <2>2. claims' \in Claims /\ claims'.llm = None /\ claims'.embedding = op.seen.embedding
    BY <1>1, <2>1, ClaimedFacts, GenFacts
  <2> HIDE DEF k, o
  <2>3. ExcusedAs(k, excuses.left, o, excuses.abandoned)
    BY <1>1, <1>2, <1>3, <2>1, ExcuseFacts DEF Excused
  <2>4. RuntimeTypeOK'
    BY <1>4, <2>2, <2>3 DEF Unclaim, RuntimeTypeOK, ExcusedAs, Excused
  <2>5. excuses'.overlapped = o
    BY <2>3 DEF ExcusedAs
  <2> QED
    BY <1>4, <2>2, <2>3, <2>4, <2>5 DEF ExcusedAs, k, o
<1> QED
  BY <1>5, <1>6

(* The steps of the embedding runtime.                                      *)
EmbAs(phase, g, s) ==
  /\ emb' \in Embs /\ emb'.phase = phase /\ emb'.gen = g /\ emb'.seen = s

LEMMA EmbFacts ==
  ASSUME RuntimeTypeOK, NEW phase \in {"idle", "syncRead", "syncWrite", "load", "read", "write"},
         NEW g \in GenOrNone
  PROVE  /\ emb' = [NoEmb EXCEPT !.phase = phase, !.gen = g] => EmbAs(phase, g, NoClaims)
         /\ emb' = [emb EXCEPT !.phase = phase] => EmbAs(phase, emb.gen, emb.seen)
         /\ emb' = [emb EXCEPT !.phase = phase, !.seen = claims] => EmbAs(phase, emb.gen, claims)
         /\ emb' = [emb EXCEPT !.phase = phase, !.gen = g] => EmbAs(phase, g, emb.seen)
         /\ emb' = NoEmb => EmbAs("idle", None, NoClaims)
<1>1. emb \in Embs /\ claims \in Claims
  BY RuntimeTypes
<1>2. emb' = [NoEmb EXCEPT !.phase = phase, !.gen = g] => EmbAs(phase, g, NoClaims)
  <2>1. NoEmb.seen = NoClaims
    BY DEF NoEmb
  <2> QED
    BY <2>1, NoOpFacts DEF EmbAs, Embs
<1>3. emb' = [emb EXCEPT !.phase = phase] => EmbAs(phase, emb.gen, emb.seen)
  BY <1>1 DEF EmbAs, Embs
<1>4. emb' = [emb EXCEPT !.phase = phase, !.seen = claims] => EmbAs(phase, emb.gen, claims)
  BY <1>1 DEF EmbAs, Embs
<1>5. emb' = [emb EXCEPT !.phase = phase, !.gen = g] => EmbAs(phase, g, emb.seen)
  BY <1>1 DEF EmbAs, Embs
<1>6. emb' = NoEmb => EmbAs("idle", None, NoClaims)
  BY NoOpFacts DEF EmbAs, NoEmb
<1> QED
  BY <1>2, <1>3, <1>4, <1>5, <1>6

LEMMA StepActivate ==
  ASSUME RuntimeTypeOK, NEW g \in EmbGens, Activate(g)
  PROVE  RuntimeTypeOK' /\ EmbAs("read", g, NoClaims) /\ embActive' = g /\ g # None
<1>1. g \in GenOrNone /\ g # None
  BY GenFacts, RuntimeAssumption DEF Gens, None
<1>2. EmbAs("read", g, NoClaims)
  BY <1>1, EmbFacts DEF Activate
<1>3. runs' \in Counts
  BY RunsFacts DEF Activate
<1> QED
  BY <1>1, <1>2, <1>3 DEF Activate, RuntimeTypeOK, Counts, EmbAs

LEMMA StepSync ==
  ASSUME RuntimeTypeOK, Sync
  PROVE  RuntimeTypeOK' /\ EmbAs("syncRead", active, NoClaims)
<1>1. EmbAs("syncRead", active, NoClaims)
  BY RuntimeTypes, EmbFacts DEF Sync
<1>2. runs' \in Counts
  BY RunsFacts DEF Sync
<1> QED
  BY <1>1, <1>2 DEF Sync, RuntimeTypeOK, Counts, EmbAs

LEMMA StepEmbRead ==
  ASSUME RuntimeTypeOK, EmbRead
  PROVE  /\ RuntimeTypeOK'
         /\ \/ emb.phase = "syncRead" /\ emb'.phase \in {"load", "syncWrite"}
            \/ emb.phase \in {"load", "read"} /\ embActive = None /\ emb'.phase = "idle"
            \/ emb.phase = "load" /\ emb'.phase = "read" /\ emb'.gen = embActive
            \/ emb.phase = "read" /\ emb'.phase = "write" /\ emb'.gen = emb.gen
<1>1. /\ emb' \in Embs
      /\ \/ emb.phase = "syncRead" /\ emb'.phase \in {"load", "syncWrite"}
         \/ emb.phase \in {"load", "read"} /\ embActive = None /\ emb'.phase = "idle"
         \/ emb.phase = "load" /\ emb'.phase = "read" /\ emb'.gen = embActive
         \/ emb.phase = "read" /\ emb'.phase = "write" /\ emb'.gen = emb.gen
  BY RuntimeTypes, EmbFacts DEF EmbRead, EmbAs
<1> QED
  BY <1>1 DEF EmbRead, RuntimeTypeOK

LEMMA StepSyncWrite ==
  ASSUME RuntimeTypeOK, SyncWrite
  PROVE  /\ RuntimeTypeOK' /\ EmbAs("load", emb.gen, emb.seen)
         /\ \/ claims' = claims /\ excuses' = excuses
            \/ /\ claims'.llm = emb.gen /\ claims'.embedding = emb.seen.embedding
               /\ ExcusedAs(excuses.killed, excuses.left,
                            excuses.overlapped \/ claims # emb.seen \/ active # emb.gen,
                            excuses.abandoned)
<1>1. emb \in Embs /\ emb.seen \in Claims /\ emb.gen \in GenOrNone /\ excuses \in Excused
  BY RuntimeTypes DEF Embs
<1>2. EmbAs("load", emb.gen, emb.seen)
  BY <1>1, EmbFacts DEF SyncWrite, EmbGoto
<1>3. CASE emb.gen = None /\ emb.seen.llm = None
  BY <1>2, <1>3 DEF SyncWrite, RuntimeTypeOK, EmbAs
<1>4. CASE ~(emb.gen = None /\ emb.seen.llm = None)
  <2> DEFINE o == excuses.overlapped \/ claims # emb.seen \/ active # emb.gen
  <2>1. o \in BOOLEAN
    BY <1>1 DEF Excused
  <2>2. claims' = Claimed(emb.seen, "llm", emb.gen) /\ excuses' = [excuses EXCEPT !.overlapped = o]
    BY <1>1, <1>4 DEF SyncWrite, Excused
  <2>3. /\ claims' \in Claims /\ claims'.llm = emb.gen
        /\ claims'.embedding = emb.seen.embedding
    BY <1>1, <2>2, ClaimedFacts
  <2> HIDE DEF o
  <2>4. ExcusedAs(excuses.killed, excuses.left, o, excuses.abandoned)
    BY <1>1, <2>1, <2>2, ExcuseFacts DEF Excused
  <2>5. RuntimeTypeOK'
    BY <1>2, <2>3, <2>4 DEF SyncWrite, RuntimeTypeOK, EmbAs, ExcusedAs, Excused
  <2> QED
    BY <1>2, <2>3, <2>4, <2>5 DEF o
<1> QED
  BY <1>3, <1>4

LEMMA StepEmbWrite ==
  ASSUME RuntimeTypeOK, EmbWrite
  PROVE  /\ RuntimeTypeOK' /\ emb' = NoEmb
         /\ claims'.llm = emb.seen.llm /\ claims'.embedding = emb.gen
         /\ ExcusedAs(excuses.killed \ {"embedding"}, excuses.left,
                      excuses.overlapped \/ claims # emb.seen \/ embActive # emb.gen,
                      excuses.abandoned)
<1> DEFINE k == excuses.killed \ {"embedding"}
           o == excuses.overlapped \/ claims # emb.seen \/ embActive # emb.gen
<1>1. emb \in Embs /\ emb.seen \in Claims /\ emb.gen \in GenOrNone /\ excuses \in Excused
  BY RuntimeTypes DEF Embs
<1>2. k \in SUBSET {"llm", "embedding"}
  BY <1>1 DEF Excused
<1>3. o \in BOOLEAN
  BY <1>1 DEF Excused
<1>4. excuses' = [excuses EXCEPT !.killed = k, !.overlapped = o]
  BY <1>1 DEF EmbWrite, Excused
<1>5. emb' = NoEmb /\ emb' \in Embs
  BY NoOpFacts DEF EmbWrite
<1>6. claims' \in Claims /\ claims'.llm = emb.seen.llm /\ claims'.embedding = emb.gen
  BY <1>1, ClaimedFacts DEF EmbWrite
<1> HIDE DEF k, o
<1>7. ExcusedAs(k, excuses.left, o, excuses.abandoned)
  BY <1>1, <1>2, <1>3, <1>4, ExcuseFacts DEF Excused
<1>8. RuntimeTypeOK'
  BY <1>5, <1>6, <1>7 DEF EmbWrite, RuntimeTypeOK, ExcusedAs, Excused
<1> QED
  BY <1>5, <1>6, <1>7, <1>8 DEF k, o

LEMMA StepKill ==
  ASSUME RuntimeTypeOK, Kill
  PROVE  /\ RuntimeTypeOK'
         /\ \/ /\ op.phase # "idle" /\ op' = NoOp /\ emb' = emb
               /\ ExcusedAs(excuses.killed \cup {"llm"}, excuses.left \/ aside # None,
                            excuses.overlapped,
                            excuses.abandoned \cup ({active} \cap generations.trial))
            \/ /\ emb.phase # "idle" /\ emb' = NoEmb /\ op' = op
               /\ ExcusedAs(excuses.killed \cup {"embedding"}, excuses.left,
                            excuses.overlapped, excuses.abandoned)
<1>1. excuses \in Excused /\ generations.trial \subseteq Gens /\ runs' \in Counts
  BY RuntimeTypes, RunsFacts DEF Kill, Staged
<1>2. CASE /\ op.phase # "idle" /\ op' = NoOp /\ emb' = emb
           /\ excuses' = [excuses EXCEPT !.killed = @ \cup {"llm"}, !.left = @ \/ aside # None,
                                         !.abandoned = @ \cup ({active} \cap generations.trial)]
  <2> DEFINE k == excuses.killed \cup {"llm"}
             l == excuses.left \/ aside # None
             a == excuses.abandoned \cup ({active} \cap generations.trial)
  <2>1. k \in SUBSET {"llm", "embedding"} /\ a \in SUBSET Gens
    BY <1>1 DEF Excused
  <2>2. l \in BOOLEAN
    BY <1>1 DEF Excused
  <2>3. excuses' = [excuses EXCEPT !.killed = k, !.left = l, !.abandoned = a]
    BY <1>1, <1>2 DEF Excused
  <2> HIDE DEF k, l, a
  <2>4. ExcusedAs(k, l, excuses.overlapped, a)
    BY <1>1, <2>1, <2>2, <2>3, ExcuseFacts DEF Excused
  <2>5. RuntimeTypeOK'
    BY <1>1, <1>2, <2>4, NoOpFacts DEF Kill, RuntimeTypeOK, ExcusedAs, Excused, Counts
  <2> QED
    BY <1>2, <2>4, <2>5 DEF k, l, a
<1>3. CASE /\ emb.phase # "idle" /\ emb' = NoEmb /\ op' = op
           /\ excuses' = [excuses EXCEPT !.killed = @ \cup {"embedding"}]
  <2> DEFINE k == excuses.killed \cup {"embedding"}
  <2>1. k \in SUBSET {"llm", "embedding"} /\ excuses' = [excuses EXCEPT !.killed = k]
    BY <1>1, <1>3 DEF Excused
  <2> HIDE DEF k
  <2>2. ExcusedAs(k, excuses.left, excuses.overlapped, excuses.abandoned)
    BY <1>1, <2>1, ExcuseFacts DEF Excused
  <2>3. RuntimeTypeOK'
    BY <1>1, <1>3, <2>2, NoOpFacts DEF Kill, RuntimeTypeOK, ExcusedAs, Excused, Counts
  <2> QED
    BY <1>3, <2>2, <2>3 DEF k
<1> QED
  BY <1>2, <1>3 DEF Kill

-----------------------------------------------------------------------------
(* The inductive invariant.                                                 *)

Applying == {"change", "restore", "try", "select", "undo"}
Rounds == {"restore", "try", "select", "undo"}

(* Which command is at which phase.                                         *)
OpInv ==
  /\ op.phase = "idle" => op = NoOp
  /\ op.phase \in {"rename", "launch", "commit", "clean", "mark", "putBack", "report"} =>
       op.task \in Applying
  /\ op.phase \in {"wait", "discard"} => op.task \in Applying \cup {"resume"}
  /\ op.phase \in {"claimRead", "claimWrite"} => op.task \in Applying \cup {"resume", "remove"}
  /\ op.phase \in {"applied", "failed"} => op.task \in Rounds
  /\ op.phase = "wipe" => op.task = "remove"
  /\ op.had => op.task \in Applying

NotKilled == "llm" \notin excuses.killed
Fits(s) == s.kind = "healthy" => s.gen = active
UpOrDown == container \in {None, active}

(* A container set aside is put back or removed before the command ends.    *)
AsideInv ==
  aside # None =>
    \/ excuses.left
    \/ op.had /\ op.phase \in {"launch", "wait", "commit", "clean", "discard", "putBack"}

(* At which phases the container and the status are those of the pointer;   *)
(* in between, the way back leads to what they were.                        *)
ContainerInv ==
  /\ op.phase \in {"idle", "rename", "failed"} /\ NotKilled => UpOrDown /\ Fits(status)
  /\ op.phase = "rename" => op.was = status
  /\ op.phase \in {"launch", "wait", "commit", "discard", "putBack", "report"}
       /\ op.task # "resume" /\ NotKilled => Fits(op.was)
  /\ op.phase \in {"launch", "wait", "commit", "discard", "putBack"} /\ op.had /\ NotKilled =>
       aside = active
  /\ op.phase \in {"launch", "report"} /\ NotKilled => UpOrDown
  /\ op.phase \in {"wait", "commit"} => container = op.gen
  /\ op.phase = "wait" /\ op.task = "resume" => active = op.gen
  /\ op.phase = "discard" /\ op.task = "resume" => status.kind # "healthy"
  /\ op.phase \in {"clean", "mark"} => container = op.gen /\ active = op.gen
  /\ op.phase \in {"claimRead", "claimWrite", "applied"} /\ op.task # "remove" =>
       container = op.gen /\ active = op.gen /\ Fits(status)
  /\ op.phase \in {"putBack", "wipe"} => container = None
  /\ op.phase \in {"claimRead", "claimWrite"} /\ op.task = "remove" =>
       container = None /\ active = None /\ status.kind # "healthy"

(* The numbers in use were given out; a calibration knows where it began,   *)
(* which was not a candidate, and only an excused candidate is left active. *)
Abandoned(g) == g \in generations.trial => g \in excuses.abandoned
TrialInv ==
  /\ \A g \in generations.trial : g <= generations.count /\ generations.origin[g] # None
  /\ \A g \in Gens : /\ generations.origin[g] <= generations.count
                     /\ generations.origin[g] \notin generations.trial
  /\ active <= generations.count /\ op.gen <= generations.count
  /\ op.task \notin {"try", "select", "undo"} => Abandoned(active) /\ Abandoned(op.gen)
  /\ op.task \in {"restore", "select"} => op.gen \notin generations.trial
  /\ op.task = "undo" => op.gen = op.first
  /\ op.task \in {"try", "select", "undo"} =>
       /\ op.first # None /\ op.first <= generations.count
       /\ op.first \notin generations.trial
  /\ op.task \in Rounds => active # None /\ op.gen # None

(* As long as no two commands wrote the file of the claims at once.         *)
ClaimsInv ==
  ~excuses.overlapped =>
    /\ embActive = None => claims.embedding = None
    /\ \/ "embedding" \in excuses.killed \/ claims.embedding = embActive
       \/ emb.phase \in {"read", "write"} /\ emb.gen = embActive
    /\ op.task = "remove" /\ op.phase \in {"claimRead", "claimWrite"} => claims.llm = None
    /\ \/ "llm" \in excuses.killed \/ claims.llm = active
       \/ op.task \in Applying /\ op.phase \in {"clean", "mark", "claimRead", "claimWrite"}

RuntimeInv ==
  RuntimeTypeOK /\ OpInv /\ AsideInv /\ ContainerInv /\ TrialInv /\ ClaimsInv

(* A calibration between two rounds has an active generation.               *)
LEMMA RoundsHaveActive ==
  ASSUME RuntimeInv, NextRound \/ RoundFails
  PROVE  active # None
  BY DEF RuntimeInv, OpInv, TrialInv, NextRound, RoundFails, At, Rounds

(* Every step takes a command from one of its phases to the next.           *)
LEMMA OpInvKept ==
  ASSUME RuntimeInv, RuntimeNext
  PROVE  OpInv'
<1>1. RuntimeTypeOK /\ OpInv
  BY DEF RuntimeInv
<1>2. CASE Change
  BY <1>1, <1>2, StepChange, NoOpFacts
  DEF Change, At, Command, OpStages, OpBegins, OpInv, Applying, Rounds
<1>3. CASE Rebuild
  BY <1>1, <1>3, StepRebuild, NoOpFacts DEF Rebuild, At, Command, OpBegins, OpInv, Applying, Rounds
<1>4. CASE Calibrate
  BY <1>1, <1>4, StepCalibrate, NoOpFacts
  DEF Calibrate, At, Command, OpStages, OpBegins, OpInv, Applying, Rounds
<1>5. CASE SetAside
  BY <1>1, <1>5, StepSetAside DEF SetAside, At, OpInv
<1>6. CASE Launch
  BY <1>1, <1>6, StepLaunch DEF Launch, At, OpAs, OpInv
<1>7. CASE Validate
  BY <1>1, <1>7, StepValidate DEF Validate, At, OpAs, OpInv
<1>8. CASE Commit
  BY <1>1, <1>8, StepCommit DEF Commit, At, OpAs, OpInv
<1>9. CASE Clean
  BY <1>1, <1>9, StepClean DEF Clean, At, OpAs, OpInv
<1>10. CASE Mark
  BY <1>1, <1>10, StepMark DEF Mark, At, OpAs, OpInv
<1>11. CASE ClaimRead
  BY <1>1, <1>11, StepClaimRead DEF ClaimRead, At, OpInv
<1>12. CASE ClaimWrite
  BY <1>1, <1>12, StepClaimWrite, NoOpFacts
  DEF ClaimWrite, At, Left, OpAs, ExcusedAs, OpInv, Applying, Rounds
<1>13. CASE Discard
  BY <1>1, <1>13, StepDiscard, NoOpFacts DEF Discard, At, OpAs, OpInv
<1>14. CASE PutBack
  BY <1>1, <1>14, StepPutBack DEF PutBack, At, OpAs, OpInv
<1>15. CASE Report
  BY <1>1, <1>15, StepReport, NoOpFacts DEF Report, At, OpAs, OpInv, Applying, Rounds
<1>16. CASE NextRound
  BY <1>1, <1>16, StepNextRound, NoOpFacts, RoundsHaveActive
  DEF NextRound, At, OpStages, OpBegins, OpUndoes, OpQuits, OpInv, Applying, Rounds
<1>17. CASE RoundFails
  BY <1>1, <1>17, StepRoundFails, NoOpFacts, RoundsHaveActive
  DEF RoundFails, At, OpStages, OpBegins, OpUndoes, OpQuits, ExcusedAs, OpInv, Applying, Rounds
<1>18. CASE Resume
  BY <1>1, <1>18, StepResume, NoOpFacts DEF Resume, At, Command, OpInv
<1>19. CASE ResumeFails
  BY <1>1, <1>19, StepResumeFails, NoOpFacts DEF ResumeFails, At, Command, OpInv
<1>20. CASE Resumed
  BY <1>1, <1>20, StepResumed DEF Resumed, At, OpAs, OpInv
<1>21. CASE Shutdown
  BY <1>1, <1>21, StepShutdown, NoOpFacts DEF Shutdown, At, Command, OpInv
<1>22. CASE RemoveRuntime
  BY <1>1, <1>22, StepRemove, NoOpFacts DEF RemoveRuntime, At, Command, OpInv
<1>23. CASE Wipe
  BY <1>1, <1>23, StepWipe, NoOpFacts DEF Wipe, At, OpAs, OpInv
<1>24. CASE Unclaim
  BY <1>1, <1>24, StepUnclaim, NoOpFacts DEF Unclaim, At, OpInv
<1>25. CASE Kill
  BY <1>1, <1>25, StepKill, NoOpFacts DEF Kill, At, ExcusedAs, OpInv
<1>26. ASSUME NEW g \in EmbGens, Activate(g) PROVE  OpInv'
  BY <1>1, <1>26, StepActivate DEF Activate, EmbCommand, EmbAs, OpInv
<1>27. CASE Sync
  BY <1>1, <1>27, StepSync DEF Sync, EmbCommand, EmbAs, OpInv
<1>28. CASE EmbRead
  BY <1>1, <1>28, StepEmbRead DEF EmbRead, OpInv
<1>29. CASE SyncWrite
  BY <1>1, <1>29, StepSyncWrite DEF SyncWrite, EmbAs, ExcusedAs, OpInv
<1>30. CASE EmbWrite
  BY <1>1, <1>30, StepEmbWrite, NoOpFacts DEF EmbWrite, ExcusedAs, OpInv
<1> QED
  BY <1>2, <1>3, <1>4, <1>5, <1>6, <1>7, <1>8, <1>9, <1>10, <1>11, <1>12, <1>13, <1>14, <1>15,
     <1>16, <1>17, <1>18, <1>19, <1>20, <1>21, <1>22, <1>23, <1>24, <1>25, <1>26, <1>27, <1>28,
     <1>29, <1>30
  DEF RuntimeNext, OperatorStep, EmbeddingStep

(* A container is set aside by a command, and put back or removed by it.    *)
LEMMA AsideInvKept ==
  ASSUME RuntimeInv, RuntimeNext
  PROVE  AsideInv'
<1>1. RuntimeTypeOK /\ AsideInv /\ OpInv
  BY DEF RuntimeInv
<1>2. CASE Change
  BY <1>1, <1>2, StepChange, NoOpFacts DEF Change, At, Command, OpStages, OpBegins, AsideInv
<1>3. CASE Rebuild
  BY <1>1, <1>3, StepRebuild, NoOpFacts DEF Rebuild, At, Command, OpBegins, AsideInv
<1>4. CASE Calibrate
  BY <1>1, <1>4, StepCalibrate, NoOpFacts DEF Calibrate, At, Command, OpStages, OpBegins, AsideInv
<1>5. CASE SetAside
  BY <1>1, <1>5, StepSetAside DEF SetAside, At, AsideInv
<1>6. CASE Launch
  BY <1>1, <1>6, StepLaunch DEF Launch, At, OpAs, AsideInv
<1>7. CASE Validate
  BY <1>1, <1>7, StepValidate DEF Validate, At, OpAs, AsideInv
<1>8. CASE Commit
  BY <1>1, <1>8, StepCommit DEF Commit, At, OpAs, AsideInv
<1>9. CASE Clean
  BY <1>1, <1>9, StepClean DEF Clean, At, OpAs, AsideInv
<1>10. CASE Mark
  BY <1>1, <1>10, StepMark DEF Mark, At, OpAs, AsideInv
<1>11. CASE ClaimRead
  BY <1>1, <1>11, StepClaimRead DEF ClaimRead, At, AsideInv
<1>12. CASE ClaimWrite
  BY <1>1, <1>12, StepClaimWrite, NoOpFacts DEF ClaimWrite, At, Left, OpAs, ExcusedAs, AsideInv
<1>13. CASE Discard
  BY <1>1, <1>13, StepDiscard, NoOpFacts DEF Discard, At, OpAs, AsideInv, OpInv, Applying, Rounds
<1>14. CASE PutBack
  BY <1>1, <1>14, StepPutBack DEF PutBack, At, OpAs, AsideInv
<1>15. CASE Report
  BY <1>1, <1>15, StepReport, NoOpFacts DEF Report, At, OpAs, AsideInv
<1>16. CASE NextRound
  BY <1>1, <1>16, StepNextRound, NoOpFacts, RoundsHaveActive
  DEF NextRound, At, OpStages, OpBegins, OpUndoes, OpQuits, AsideInv
<1>17. CASE RoundFails
  BY <1>1, <1>17, StepRoundFails, NoOpFacts, RoundsHaveActive
  DEF RoundFails, At, OpStages, OpBegins, OpUndoes, OpQuits, ExcusedAs, AsideInv
<1>18. CASE Resume
  BY <1>1, <1>18, StepResume, NoOpFacts DEF Resume, At, Command, AsideInv
<1>19. CASE ResumeFails
  BY <1>1, <1>19, StepResumeFails, NoOpFacts DEF ResumeFails, At, Command, AsideInv
<1>20. CASE Resumed
  BY <1>1, <1>20, StepResumed DEF Resumed, At, OpAs, AsideInv, OpInv, Applying, Rounds
<1>21. CASE Shutdown
  BY <1>1, <1>21, StepShutdown, NoOpFacts DEF Shutdown, At, Command, AsideInv
<1>22. CASE RemoveRuntime
  BY <1>1, <1>22, StepRemove, NoOpFacts DEF RemoveRuntime, At, Command, AsideInv
<1>23. CASE Wipe
  BY <1>1, <1>23, StepWipe, NoOpFacts DEF Wipe, At, OpAs, AsideInv
<1>24. CASE Unclaim
  BY <1>1, <1>24, StepUnclaim, NoOpFacts DEF Unclaim, At, AsideInv
<1>25. CASE Kill
  BY <1>1, <1>25, StepKill, NoOpFacts DEF Kill, At, ExcusedAs, AsideInv
<1>26. ASSUME NEW g \in EmbGens, Activate(g) PROVE  AsideInv'
  BY <1>1, <1>26, StepActivate DEF Activate, EmbCommand, EmbAs, AsideInv
<1>27. CASE Sync
  BY <1>1, <1>27, StepSync DEF Sync, EmbCommand, EmbAs, AsideInv
<1>28. CASE EmbRead
  BY <1>1, <1>28, StepEmbRead DEF EmbRead, AsideInv
<1>29. CASE SyncWrite
  BY <1>1, <1>29, StepSyncWrite DEF SyncWrite, EmbAs, ExcusedAs, AsideInv
<1>30. CASE EmbWrite
  BY <1>1, <1>30, StepEmbWrite, NoOpFacts DEF EmbWrite, ExcusedAs, AsideInv
<1> QED
  BY <1>2, <1>3, <1>4, <1>5, <1>6, <1>7, <1>8, <1>9, <1>10, <1>11, <1>12, <1>13, <1>14, <1>15,
     <1>16, <1>17, <1>18, <1>19, <1>20, <1>21, <1>22, <1>23, <1>24, <1>25, <1>26, <1>27, <1>28,
     <1>29, <1>30
  DEF RuntimeNext, OperatorStep, EmbeddingStep

(* What the container and the status are follows from the phase: the        *)
(* pointer moves only once the new container is validated, and whatever     *)
(* fails before goes back to the one set aside.                             *)
LEMMA ContainerInvKept ==
  ASSUME RuntimeInv, RuntimeNext
  PROVE  ContainerInv'
<1>1. RuntimeTypeOK /\ ContainerInv /\ OpInv
  BY DEF RuntimeInv
<1>2. CASE Change
  BY <1>1, <1>2, StepChange, NoOpFacts
  DEF Change, At, Command, OpStages, OpBegins, ContainerInv, NotKilled, Fits, UpOrDown
<1>3. CASE Rebuild
  BY <1>1, <1>3, StepRebuild, NoOpFacts
  DEF Rebuild, At, Command, OpBegins, ContainerInv, NotKilled, Fits, UpOrDown
<1>4. CASE Calibrate
  BY <1>1, <1>4, StepCalibrate, NoOpFacts
  DEF Calibrate, At, Command, OpStages, OpBegins, ContainerInv, NotKilled, Fits, UpOrDown
<1>5. CASE SetAside
  <2>1. /\ op.phase = "rename" /\ active' = active /\ excuses' = excuses /\ status' = status
        /\ op'.phase = "launch" /\ op'.task = op.task /\ op'.was = op.was
    BY <1>1, <1>5, StepSetAside DEF SetAside, At
  <2>2. NotKilled' => NotKilled /\ UpOrDown /\ Fits(op.was)
    BY <1>1, <2>1 DEF ContainerInv, NotKilled
  <2>3. Fits(op.was) => Fits(op.was)'
    BY <2>1 DEF Fits
  <2>4. CASE container # None /\ aside = None
    <3>1. container' = None /\ aside' = container
      BY <1>5, <2>4 DEF SetAside
    <3> QED
      BY <2>1, <2>2, <2>3, <2>4, <3>1 DEF ContainerInv, UpOrDown
  <2>5. CASE ~(container # None /\ aside = None)
    <3>1. container' = container /\ ~op'.had
      BY <1>1, <1>5, <2>5, StepSetAside DEF SetAside
    <3> QED
      BY <2>1, <2>2, <2>3, <3>1 DEF ContainerInv, UpOrDown
  <2> QED
    BY <2>4, <2>5
<1>6. CASE Launch
  BY <1>1, <1>6, StepLaunch
  DEF Launch, At, OpAs, ContainerInv, OpInv, NotKilled, Fits, UpOrDown, Applying, Rounds
<1>7. CASE Validate
  BY <1>1, <1>7, StepValidate DEF Validate, At, OpAs, ContainerInv, NotKilled, Fits, UpOrDown
<1>8. CASE Commit
  BY <1>1, <1>8, StepCommit DEF Commit, At, OpAs, ContainerInv, NotKilled, Fits, UpOrDown
<1>9. CASE Clean
  BY <1>1, <1>9, StepClean DEF Clean, At, OpAs, ContainerInv, NotKilled, Fits, UpOrDown
<1>10. CASE Mark
  BY <1>1, <1>10, StepMark
  DEF Mark, At, OpAs, ContainerInv, OpInv, NotKilled, Fits, UpOrDown, Applying, Rounds
<1>11. CASE ClaimRead
  BY <1>1, <1>11, StepClaimRead DEF ClaimRead, At, ContainerInv, NotKilled, Fits, UpOrDown
<1>12. CASE ClaimWrite
  BY <1>1, <1>12, StepClaimWrite, NoOpFacts
  DEF ClaimWrite, At, Left, OpAs, ExcusedAs, ContainerInv, NotKilled, Fits, UpOrDown
<1>13. CASE Discard
  BY <1>1, <1>13, StepDiscard, NoOpFacts
  DEF Discard, At, OpAs, ContainerInv, NotKilled, Fits, UpOrDown
<1>14. CASE PutBack
  BY <1>1, <1>14, StepPutBack DEF PutBack, At, OpAs, ContainerInv, NotKilled, Fits, UpOrDown
<1>15. CASE Report
  BY <1>1, <1>15, StepReport, NoOpFacts
  DEF Report, At, OpAs, ContainerInv, OpInv, NotKilled, Fits, UpOrDown, Applying, Rounds
<1>16. CASE NextRound
  BY <1>1, <1>16, StepNextRound, NoOpFacts, RoundsHaveActive
  DEF NextRound, At, OpStages, OpBegins, OpUndoes, OpQuits, ContainerInv, NotKilled, Fits,
      UpOrDown
<1>17. CASE RoundFails
  BY <1>1, <1>17, StepRoundFails, NoOpFacts, RoundsHaveActive
  DEF RoundFails, At, OpStages, OpBegins, OpUndoes, OpQuits, ExcusedAs, ContainerInv,
      NotKilled, Fits, UpOrDown
<1>18. CASE Resume
  BY <1>1, <1>18, StepResume, NoOpFacts
  DEF Resume, At, Command, ContainerInv, NotKilled, Fits, UpOrDown
<1>19. CASE ResumeFails
  BY <1>1, <1>19, StepResumeFails, NoOpFacts
  DEF ResumeFails, At, Command, ContainerInv, NotKilled, Fits, UpOrDown
<1>20. CASE Resumed
  BY <1>1, <1>20, StepResumed DEF Resumed, At, OpAs, ContainerInv, NotKilled, Fits, UpOrDown
<1>21. CASE Shutdown
  BY <1>1, <1>21, StepShutdown, NoOpFacts
  DEF Shutdown, At, Command, ContainerInv, NotKilled, Fits, UpOrDown
<1>22. CASE RemoveRuntime
  BY <1>1, <1>22, StepRemove, NoOpFacts
  DEF RemoveRuntime, At, Command, ContainerInv, NotKilled, Fits, UpOrDown
<1>23. CASE Wipe
  BY <1>1, <1>23, StepWipe, NoOpFacts
  DEF Wipe, At, OpAs, ContainerInv, OpInv, NotKilled, Fits, UpOrDown, Applying, Rounds
<1>24. CASE Unclaim
  BY <1>1, <1>24, StepUnclaim, NoOpFacts DEF Unclaim, At, ContainerInv, NotKilled, Fits, UpOrDown
<1>25. CASE Kill
  BY <1>1, <1>25, StepKill, NoOpFacts
  DEF Kill, At, ExcusedAs, ContainerInv, NotKilled, Fits, UpOrDown
<1>26. ASSUME NEW g \in EmbGens, Activate(g) PROVE  ContainerInv'
  <2>1. UNCHANGED <<container, aside, active, status, op, excuses>>
    BY <1>26 DEF Activate
  <2> QED
    BY <1>1, <2>1 DEF ContainerInv, NotKilled, Fits, UpOrDown
<1>27. CASE Sync
  BY <1>1, <1>27, StepSync DEF Sync, EmbCommand, EmbAs, ContainerInv, NotKilled, Fits, UpOrDown
<1>28. CASE EmbRead
  BY <1>1, <1>28, StepEmbRead DEF EmbRead, ContainerInv, NotKilled, Fits, UpOrDown
<1>29. CASE SyncWrite
  BY <1>1, <1>29, StepSyncWrite
  DEF SyncWrite, EmbAs, ExcusedAs, ContainerInv, NotKilled, Fits, UpOrDown
<1>30. CASE EmbWrite
  BY <1>1, <1>30, StepEmbWrite, NoOpFacts
  DEF EmbWrite, ExcusedAs, ContainerInv, NotKilled, Fits, UpOrDown
<1> QED
  BY <1>2, <1>3, <1>4, <1>5, <1>6, <1>7, <1>8, <1>9, <1>10, <1>11, <1>12, <1>13, <1>14, <1>15,
     <1>16, <1>17, <1>18, <1>19, <1>20, <1>21, <1>22, <1>23, <1>24, <1>25, <1>26, <1>27, <1>28,
     <1>29, <1>30
  DEF RuntimeNext, OperatorStep, EmbeddingStep

(* Staging a generation keeps what is known of the calibrations: its number *)
(* is new, and it goes back to where the chain of calibrations began.       *)
LEMMA CountFacts ==
  ASSUME RuntimeTypeOK
  PROVE  /\ generations.count \in Nat /\ None <= generations.count
         /\ generations.trial \subseteq Gens /\ None \notin generations.trial
         /\ active \in Nat /\ op.gen \in Nat /\ op.first \in Nat
         /\ \A g \in Gens : generations.origin[g] \in Nat
         /\ Gens \subseteq Nat
<1>1. generations \in Staged /\ op \in Ops /\ active \in Nat /\ Gens \subseteq Nat
  BY RuntimeTypes, GenFacts
<1>2. /\ generations.count \in Nat /\ generations.trial \subseteq Gens
      /\ \A g \in Gens : generations.origin[g] \in Nat
  BY <1>1, GenFacts DEF Staged
<1>3. op.gen \in Nat /\ op.first \in Nat
  BY <1>1, GenFacts DEF Ops
<1>4. None <= generations.count
  BY <1>2 DEF None
<1> QED
  BY <1>1, <1>2, <1>3, <1>4, GenFacts

LEMMA StagedTrial ==
  ASSUME RuntimeTypeOK, TrialInv, NEW task \in {"change", "try", "select"},
         NEW first \in GenOrNone, OpStages(task, first), active' = active,
         excuses' = excuses, task = "change" => Abandoned(active),
         task # "change" => /\ active # None /\ first # None /\ first <= generations.count
                            /\ first \notin generations.trial
  PROVE  TrialInv'
<1>1. PICK g \in Gens :
        /\ g = generations.count + 1 /\ OpBegins(task, g, first)
        /\ generations' \in Staged /\ generations'.count = g
        /\ generations'.trial = IF task = "try" THEN generations.trial \cup {g}
                                ELSE generations.trial
        /\ \A h \in Gens : generations'.origin[h] =
             IF task # "change" /\ h = g THEN Origin ELSE generations.origin[h]
  BY DEF OpStages
<1>2. /\ generations.count < g /\ g # None
      /\ \A n \in Nat : n <= generations.count => n <= g /\ n # g
  BY <1>1, CountFacts, GenFacts
<1>3. g \notin generations.trial
  BY <1>2, CountFacts DEF TrialInv
<1>4. task # "change" =>
        Origin # None /\ Origin \in Nat /\ Origin <= generations.count
        /\ Origin \notin generations.trial
  <2>1. active \in Gens \/ task = "change"
    BY GenFacts, RuntimeTypes
  <2> QED
    BY <2>1, CountFacts DEF Origin, TrialInv
<1>5. /\ op'.task = task /\ op'.gen = g /\ op'.first = first
  BY <1>1 DEF OpBegins
<1>6. \A h \in generations'.trial :
        h <= generations'.count /\ generations'.origin[h] # None
  <2> SUFFICES ASSUME NEW h \in generations'.trial
               PROVE  h <= g /\ generations'.origin[h] # None
    BY <1>1
  <2>1. CASE h = g
    <3>1. task # "change" /\ g <= g
      BY <1>1, <1>3, <2>1, CountFacts
    <3> QED
      BY <1>1, <1>4, <2>1, <3>1
  <2>2. CASE h # g
    <3>1. h \in generations.trial /\ h \in Gens /\ h \in Nat
      BY <1>1, <2>2, CountFacts
    <3> QED
      BY <1>1, <1>2, <2>2, <3>1 DEF TrialInv
  <2> QED
    BY <2>1, <2>2
<1>7. \A h \in Gens : /\ generations'.origin[h] <= generations'.count
                      /\ generations'.origin[h] \notin generations'.trial
  BY <1>1, <1>2, <1>4, CountFacts DEF TrialInv
<1>8. active' <= generations'.count /\ op'.gen <= generations'.count
  BY <1>1, <1>2, <1>5, CountFacts DEF TrialInv
<1>9. active \in generations'.trial => active \in generations.trial
  BY <1>1, <1>2, CountFacts DEF TrialInv
<1>10. op'.task = "change" => Abandoned(active)' /\ Abandoned(op.gen)'
  BY <1>1, <1>3, <1>5, <1>9 DEF Abandoned
<1>11. op'.task = "select" => op'.gen \notin generations'.trial
  BY <1>1, <1>3, <1>5
<1>12. op'.task # "change" =>
         /\ op'.first # None /\ op'.first <= generations'.count
         /\ op'.first \notin generations'.trial
  <2>1. first \in Nat
    BY GenFacts
  <2> QED
    BY <1>1, <1>2, <1>5, <2>1
<1> QED
  BY <1>2, <1>5, <1>6, <1>7, <1>8, <1>10, <1>11, <1>12 DEF TrialInv, Rounds

LEMMA UndoneTrial ==
  ASSUME RuntimeTypeOK, TrialInv, OpUndoes, active' = active, active # None, excuses' = excuses,
         op.task \in {"try", "select", "undo"}
  PROVE  TrialInv'
  BY DEF OpUndoes, OpBegins, TrialInv, Rounds

LEMMA QuitTrial ==
  ASSUME RuntimeTypeOK, TrialInv, op' = NoOp, generations' = generations, active' = active,
         excuses.abandoned \subseteq excuses'.abandoned,
         active \in generations.trial => active \in excuses'.abandoned
  PROVE  TrialInv'
  BY NoOpFacts, CountFacts DEF TrialInv, Abandoned, Rounds

(* Whatever the rounds of a calibration, it ends with a generation that is  *)
(* not a candidate, or with an excuse.                                      *)
LEMMA TrialInvKept ==
  ASSUME RuntimeInv, RuntimeNext
  PROVE  TrialInv'
<1>1. RuntimeTypeOK /\ TrialInv /\ OpInv /\ ContainerInv
  BY DEF RuntimeInv
<1>2. CASE Change
  <2>1. /\ OpStages("change", None) /\ active' = active /\ excuses' = excuses
        /\ op.task = "none"
    BY <1>1, <1>2, StepChange, NoOpFacts DEF Change, Command, OpInv
  <2> QED
    BY <1>1, <2>1, StagedTrial, GenFacts DEF TrialInv
<1>3. CASE Rebuild
  BY <1>1, <1>3, StepRebuild, NoOpFacts, CountFacts
  DEF Rebuild, At, Command, OpBegins, TrialInv, OpInv, Abandoned, Applying, Rounds
<1>4. CASE Calibrate
  <2>1. /\ active' = active /\ excuses' = excuses /\ op.task = "none" /\ active # None
        /\ active \in GenOrNone
    BY <1>1, <1>4, NoOpFacts, RuntimeTypes DEF Calibrate, Command, OpInv
  <2>2. CASE active \notin generations.trial /\ OpStages("try", active)
    BY <1>1, <2>1, <2>2, StagedTrial DEF TrialInv
  <2>3. CASE /\ active \in generations.trial /\ generations' = generations
             /\ OpBegins("restore", generations.origin[active], None)
    BY <1>1, <2>1, <2>3, CountFacts DEF TrialInv, OpBegins, Abandoned, Rounds
  <2> QED
    BY <1>1, <1>4, <2>2, <2>3, StepCalibrate
<1>5. CASE SetAside
  BY <1>1, <1>5, StepSetAside DEF SetAside, At, TrialInv, Abandoned
<1>6. CASE Launch
  BY <1>1, <1>6, StepLaunch DEF Launch, At, OpAs, TrialInv, Abandoned
<1>7. CASE Validate
  BY <1>1, <1>7, StepValidate DEF Validate, At, OpAs, TrialInv, Abandoned
<1>8. CASE Commit
  BY <1>1, <1>8, StepCommit DEF Commit, At, OpAs, TrialInv, Abandoned
<1>9. CASE Clean
  BY <1>1, <1>9, StepClean DEF Clean, At, OpAs, TrialInv, Abandoned
<1>10. CASE Mark
  BY <1>1, <1>10, StepMark DEF Mark, At, OpAs, TrialInv, Abandoned
<1>11. CASE ClaimRead
  BY <1>1, <1>11, StepClaimRead DEF ClaimRead, At, TrialInv, Abandoned
<1>12. CASE ClaimWrite
  <2>1. /\ active' = active /\ generations' = generations /\ Left
        /\ excuses'.abandoned = excuses.abandoned
    BY <1>1, <1>12, StepClaimWrite DEF ClaimWrite, ExcusedAs
  <2>2. CASE op.task \in {"change", "resume", "remove"} /\ op' = NoOp
    BY <1>1, <2>1, <2>2, QuitTrial DEF TrialInv, Abandoned
  <2>3. CASE OpAs("applied")
    BY <1>1, <2>1, <2>3 DEF TrialInv, Abandoned, OpAs, Rounds
  <2> QED
    BY <2>1, <2>2, <2>3 DEF Left
<1>13. CASE Discard
  <2>1. active' = active /\ generations' = generations /\ excuses' = excuses
    BY <1>13 DEF Discard
  <2>2. CASE op.task = "resume" /\ op' = NoOp
    BY <1>1, <2>1, <2>2, QuitTrial DEF TrialInv, Abandoned
  <2>3. CASE OpAs("putBack")
    BY <1>1, <2>1, <2>3 DEF TrialInv, Abandoned, OpAs, Rounds
  <2> QED
    BY <1>1, <1>13, <2>2, <2>3, StepDiscard
<1>14. CASE PutBack
  BY <1>1, <1>14, StepPutBack DEF PutBack, At, OpAs, TrialInv, Abandoned
<1>15. CASE Report
  <2>1. active' = active /\ generations' = generations /\ excuses' = excuses
    BY <1>15 DEF Report
  <2>2. CASE op.task = "change" /\ op' = NoOp
    BY <1>1, <2>1, <2>2, QuitTrial DEF TrialInv, Abandoned
  <2>3. CASE OpAs("failed")
    BY <1>1, <2>1, <2>3 DEF TrialInv, Abandoned, OpAs, Rounds
  <2> QED
    BY <1>1, <1>15, <2>2, <2>3, StepReport
<1>16. CASE NextRound
  <2>1. /\ active' = active /\ excuses' = excuses /\ active # None
        /\ op.phase = "applied" /\ op.task \in Rounds
        /\ active \in GenOrNone /\ op.first \in GenOrNone
    BY <1>1, <1>16, RoundsHaveActive, RuntimeTypes DEF NextRound, At, OpInv, Ops
  <2>2. active = op.gen
    BY <1>1, <2>1 DEF ContainerInv, Rounds
  <2>3. CASE op.task = "restore" /\ OpStages("try", active)
    BY <1>1, <2>1, <2>2, <2>3, StagedTrial DEF TrialInv
  <2>4. CASE op.task = "try" /\ (OpStages("try", op.first) \/ OpStages("select", op.first))
    BY <1>1, <2>1, <2>4, StagedTrial DEF TrialInv
  <2>5. CASE op.task \in {"try", "select"} /\ OpUndoes
    BY <1>1, <2>1, <2>5, UndoneTrial
  <2>6. CASE op.task \in {"select", "undo"} /\ OpQuits
    <3>1. active \notin generations.trial
      BY <1>1, <2>2, <2>6 DEF TrialInv
    <3> QED
      BY <1>1, <2>1, <2>6, <3>1, QuitTrial DEF OpQuits
  <2> QED
    BY <1>1, <1>16, <2>1, <2>3, <2>4, <2>5, <2>6, StepNextRound
<1>17. CASE RoundFails
  <2>1. /\ active' = active /\ active # None
        /\ op.phase = "failed" /\ op.task \in Rounds
        /\ active \in GenOrNone /\ op.first \in GenOrNone
    BY <1>1, <1>17, RoundsHaveActive, RuntimeTypes DEF RoundFails, At, OpInv, Ops
  <2>2. CASE op.task = "try" /\ OpStages("select", op.first)
    <3>1. excuses' = excuses
      BY <1>1, <1>17, <2>1, <2>2, StepRoundFails
    <3> QED
      BY <1>1, <2>1, <2>2, <3>1, StagedTrial DEF TrialInv
  <2>3. CASE op.task \in {"try", "select"} /\ OpUndoes
    <3>1. excuses' = excuses
      BY <1>1, <1>17, <2>1, <2>3, StepRoundFails
    <3> QED
      BY <1>1, <2>1, <2>3, <3>1, UndoneTrial
  <2>4. CASE op.task = "try" /\ OpQuits /\ active = op.first
    <3>1. excuses' = excuses
      BY <1>1, <1>17, <2>1, <2>4, StepRoundFails
    <3> QED
      BY <1>1, <2>1, <2>4, <3>1, QuitTrial DEF OpQuits, TrialInv
  <2>5. CASE op.task = "restore" /\ OpQuits
    <3>1. excuses' = excuses
      BY <1>1, <1>17, <2>1, <2>5, StepRoundFails
    <3> QED
      BY <1>1, <2>1, <2>5, <3>1, QuitTrial DEF OpQuits, TrialInv, Abandoned
  <2>6. CASE op.task = "undo" /\ OpQuits
    <3>1. excuses'.abandoned = excuses.abandoned \cup ({active} \cap generations.trial)
      BY <1>1, <1>17, <2>1, <2>6, StepRoundFails DEF ExcusedAs
    <3> QED
      BY <1>1, <2>1, <2>6, <3>1, QuitTrial DEF OpQuits
  <2> QED
    BY <1>1, <1>17, <2>1, <2>2, <2>3, <2>4, <2>5, <2>6, StepRoundFails
<1>18. CASE Resume
  BY <1>1, <1>18, StepResume, NoOpFacts, CountFacts
  DEF Resume, At, Command, TrialInv, OpInv, Abandoned, Applying, Rounds
<1>19. CASE ResumeFails
  BY <1>1, <1>19, StepResumeFails, NoOpFacts, CountFacts
  DEF ResumeFails, At, Command, TrialInv, Abandoned
<1>20. CASE Resumed
  BY <1>1, <1>20, StepResumed DEF Resumed, At, OpAs, TrialInv, Abandoned
<1>21. CASE Shutdown
  BY <1>1, <1>21, StepShutdown, NoOpFacts, CountFacts
  DEF Shutdown, At, Command, TrialInv, Abandoned
<1>22. CASE RemoveRuntime
  BY <1>1, <1>22, StepRemove, NoOpFacts, CountFacts
  DEF RemoveRuntime, At, Command, TrialInv, OpInv, Abandoned, Applying, Rounds
<1>23. CASE Wipe
  <2>1. /\ active' = None /\ generations' = generations /\ excuses' = excuses
        /\ OpAs("claimRead") /\ op.task = "remove"
    BY <1>1, <1>23, StepWipe DEF Wipe, At, OpInv
  <2> QED
    BY <1>1, <2>1, CountFacts DEF TrialInv, Abandoned, OpAs, Rounds
<1>24. CASE Unclaim
  <2>1. /\ active' = active /\ generations' = generations /\ op' = NoOp
        /\ excuses'.abandoned = excuses.abandoned /\ op.task = "remove"
    BY <1>1, <1>24, StepUnclaim DEF Unclaim
  <2> QED
    BY <1>1, <2>1, QuitTrial DEF TrialInv, Abandoned
<1>25. CASE Kill
  <2>1. active' = active /\ generations' = generations
    BY <1>25 DEF Kill
  <2>2. CASE op' = NoOp /\ excuses'.abandoned = excuses.abandoned \cup ({active} \cap generations.trial)
    BY <1>1, <2>1, <2>2, QuitTrial
  <2>3. CASE op' = op /\ excuses'.abandoned = excuses.abandoned
    BY <1>1, <2>1, <2>3 DEF TrialInv, Abandoned
  <2> QED
    BY <1>1, <1>25, <2>2, <2>3, StepKill DEF ExcusedAs
<1>26. ASSUME NEW g \in EmbGens, Activate(g) PROVE  TrialInv'
  BY <1>1, <1>26, StepActivate DEF Activate, EmbCommand, EmbAs, TrialInv, Abandoned
<1>27. CASE Sync
  BY <1>1, <1>27, StepSync DEF Sync, EmbCommand, EmbAs, TrialInv, Abandoned
<1>28. CASE EmbRead
  BY <1>1, <1>28, StepEmbRead DEF EmbRead, TrialInv, Abandoned
<1>29. CASE SyncWrite
  BY <1>1, <1>29, StepSyncWrite DEF SyncWrite, EmbAs, ExcusedAs, TrialInv, Abandoned
<1>30. CASE EmbWrite
  BY <1>1, <1>30, StepEmbWrite, NoOpFacts, CountFacts DEF EmbWrite, ExcusedAs, TrialInv, Abandoned
<1> QED
  BY <1>2, <1>3, <1>4, <1>5, <1>6, <1>7, <1>8, <1>9, <1>10, <1>11, <1>12, <1>13, <1>14, <1>15,
     <1>16, <1>17, <1>18, <1>19, <1>20, <1>21, <1>22, <1>23, <1>24, <1>25, <1>26, <1>27, <1>28,
     <1>29, <1>30
  DEF RuntimeNext, OperatorStep, EmbeddingStep

(* A claim that is written is that of the pointer, or two writers met.      *)
LEMMA ClaimsInvKept ==
  ASSUME RuntimeInv, RuntimeNext
  PROVE  ClaimsInv'
<1>1. RuntimeTypeOK /\ ClaimsInv /\ OpInv /\ ContainerInv
  BY DEF RuntimeInv
<1>2. CASE Change
  BY <1>1, <1>2, StepChange, NoOpFacts DEF Change, At, Command, OpStages, OpBegins, ClaimsInv
<1>3. CASE Rebuild
  BY <1>1, <1>3, StepRebuild, NoOpFacts DEF Rebuild, At, Command, OpBegins, ClaimsInv
<1>4. CASE Calibrate
  BY <1>1, <1>4, StepCalibrate, NoOpFacts DEF Calibrate, At, Command, OpStages, OpBegins, ClaimsInv
<1>5. CASE SetAside
  BY <1>1, <1>5, StepSetAside DEF SetAside, At, ClaimsInv
<1>6. CASE Launch
  BY <1>1, <1>6, StepLaunch DEF Launch, At, OpAs, ClaimsInv
<1>7. CASE Validate
  BY <1>1, <1>7, StepValidate DEF Validate, At, OpAs, ClaimsInv
<1>8. CASE Commit
  BY <1>1, <1>8, StepCommit DEF Commit, At, OpAs, ClaimsInv, OpInv, Applying, Rounds
<1>9. CASE Clean
  BY <1>1, <1>9, StepClean DEF Clean, At, OpAs, ClaimsInv
<1>10. CASE Mark
  BY <1>1, <1>10, StepMark DEF Mark, At, OpAs, ClaimsInv, OpInv, Applying, Rounds
<1>11. CASE ClaimRead
  BY <1>1, <1>11, StepClaimRead DEF ClaimRead, At, ClaimsInv
<1>12. CASE ClaimWrite
  <2>1. ~excuses'.overlapped => ~excuses.overlapped /\ claims = op.seen
    BY <1>1, <1>12, StepClaimWrite, Zenon DEF ExcusedAs
  <2>2. op.phase = "claimWrite" /\ op.task # "remove" /\ active = op.gen
    BY <1>1, <1>12 DEF ClaimWrite, At, ContainerInv
  <2>3. /\ claims'.llm = op.gen /\ claims'.embedding = op.seen.embedding
        /\ excuses'.killed = excuses.killed \ {"llm"}
        /\ UNCHANGED <<active, embActive, emb>>
        /\ op'.task # "remove"
    BY <1>1, <1>12, <2>2, StepClaimWrite, NoOpFacts DEF ClaimWrite, Left, OpAs, ExcusedAs
  <2> QED
    BY <1>1, <2>1, <2>2, <2>3 DEF ClaimsInv
<1>13. CASE Discard
  BY <1>1, <1>13, StepDiscard, NoOpFacts DEF Discard, At, OpAs, ClaimsInv
<1>14. CASE PutBack
  BY <1>1, <1>14, StepPutBack DEF PutBack, At, OpAs, ClaimsInv
<1>15. CASE Report
  BY <1>1, <1>15, StepReport, NoOpFacts DEF Report, At, OpAs, ClaimsInv
<1>16. CASE NextRound
  BY <1>1, <1>16, StepNextRound, NoOpFacts, RoundsHaveActive
  DEF NextRound, At, OpStages, OpBegins, OpUndoes, OpQuits, ClaimsInv
<1>17. CASE RoundFails
  BY <1>1, <1>17, StepRoundFails, NoOpFacts, RoundsHaveActive
  DEF RoundFails, At, OpStages, OpBegins, OpUndoes, OpQuits, ExcusedAs, ClaimsInv
<1>18. CASE Resume
  BY <1>1, <1>18, StepResume, NoOpFacts DEF Resume, At, Command, ClaimsInv
<1>19. CASE ResumeFails
  BY <1>1, <1>19, StepResumeFails, NoOpFacts DEF ResumeFails, At, Command, ClaimsInv
<1>20. CASE Resumed
  BY <1>1, <1>20, StepResumed DEF Resumed, At, OpAs, ClaimsInv
<1>21. CASE Shutdown
  BY <1>1, <1>21, StepShutdown, NoOpFacts DEF Shutdown, At, Command, ClaimsInv
<1>22. CASE RemoveRuntime
  BY <1>1, <1>22, StepRemove, NoOpFacts DEF RemoveRuntime, At, Command, ClaimsInv
<1>23. CASE Wipe
  BY <1>1, <1>23, StepWipe, NoOpFacts DEF Wipe, At, OpAs, ClaimsInv
<1>24. CASE Unclaim
  <2>1. /\ ~excuses'.overlapped => ~excuses.overlapped
        /\ ~excuses'.overlapped => claims' = claims \/ claims = op.seen
    BY <1>1, <1>24, StepUnclaim, Zenon
  <2>2. op.phase = "claimWrite" /\ op.task = "remove" /\ active = None
    BY <1>1, <1>24 DEF Unclaim, At, ContainerInv
  <2>3. /\ \/ claims' = claims
           \/ claims'.llm = None /\ claims'.embedding = op.seen.embedding
        /\ excuses'.killed = excuses.killed \ {"llm"} /\ op' = NoOp
    BY <1>1, <1>24, StepUnclaim, Zenon
  <2>4. op'.task = "none" /\ UNCHANGED <<active, embActive, emb>>
    BY <1>24, <2>3, NoOpFacts DEF Unclaim
  <2> QED
    BY <1>1, <2>1, <2>2, <2>3, <2>4 DEF ClaimsInv
<1>25. CASE Kill
  BY <1>1, <1>25, StepKill, NoOpFacts DEF Kill, At, ExcusedAs, ClaimsInv
<1>26. ASSUME NEW g \in EmbGens, Activate(g) PROVE  ClaimsInv'
  BY <1>1, <1>26, StepActivate DEF Activate, EmbCommand, EmbAs, ClaimsInv
<1>27. CASE Sync
  BY <1>1, <1>27, StepSync DEF Sync, EmbCommand, EmbAs, ClaimsInv
<1>28. CASE EmbRead
  BY <1>1, <1>28, StepEmbRead DEF EmbRead, ClaimsInv
<1>29. CASE SyncWrite
  <2>1. /\ UNCHANGED <<active, embActive, op>>
        /\ emb.phase = "syncWrite" /\ emb'.phase = "load"
    BY <1>1, <1>29, StepSyncWrite DEF SyncWrite, EmbAs
  <2>2. CASE claims' = claims /\ excuses' = excuses
    BY <1>1, <2>1, <2>2 DEF ClaimsInv
  <2>3. CASE /\ claims'.llm = emb.gen /\ claims'.embedding = emb.seen.embedding
             /\ ExcusedAs(excuses.killed, excuses.left,
                          excuses.overlapped \/ claims # emb.seen \/ active # emb.gen,
                          excuses.abandoned)
    <3>1. ~excuses'.overlapped => ~excuses.overlapped /\ claims = emb.seen /\ active = emb.gen
      BY <2>3, Zenon DEF ExcusedAs
    <3>2. excuses'.killed = excuses.killed
      BY <2>3 DEF ExcusedAs
    <3>3. op.task = "remove" /\ op.phase \in {"claimRead", "claimWrite"} => active = None
      BY <1>1 DEF ContainerInv
    <3> QED
      BY <1>1, <2>1, <2>3, <3>1, <3>2, <3>3 DEF ClaimsInv
  <2> QED
    BY <1>1, <1>29, <2>2, <2>3, StepSyncWrite
<1>30. CASE EmbWrite
  BY <1>1, <1>30, StepEmbWrite, NoOpFacts DEF EmbWrite, ExcusedAs, ClaimsInv
<1> QED
  BY <1>2, <1>3, <1>4, <1>5, <1>6, <1>7, <1>8, <1>9, <1>10, <1>11, <1>12, <1>13, <1>14, <1>15,
     <1>16, <1>17, <1>18, <1>19, <1>20, <1>21, <1>22, <1>23, <1>24, <1>25, <1>26, <1>27, <1>28,
     <1>29, <1>30
  DEF RuntimeNext, OperatorStep, EmbeddingStep

-----------------------------------------------------------------------------
LEMMA RuntimeStart == RuntimeInit => RuntimeInv
<1> SUFFICES ASSUME RuntimeInit PROVE RuntimeInv
  OBVIOUS
<1>1. active \in GenOrNone /\ active \in {None, 1} /\ active \in Nat /\ None < 1
  BY RuntimeAssumption DEF RuntimeInit, GenOrNone, None
<1>2. /\ generations \in Staged /\ generations.count = active /\ generations.trial = {}
      /\ \A g \in Gens : generations.origin[g] = None
  BY <1>1, GenFacts DEF RuntimeInit, Staged
<1>3. status \in Statuses /\ (status.kind = "healthy" => status.gen = active)
  BY <1>1, NoOpFacts DEF RuntimeInit, Statuses
<1>4. claims \in Claims /\ claims.llm = active /\ claims.embedding = active
  BY <1>1 DEF RuntimeInit, Claims
<1>5. runs \in Counts
  <2>1. 0 \in 0..MaxCommands /\ 0 \in 0..MaxEmbRuns /\ 0 \in 0..MaxKills
    BY RuntimeAssumption
  <2> QED
    BY <2>1 DEF RuntimeInit, Counts
<1>6. excuses \in Excused /\ excuses.killed = {}
  BY DEF RuntimeInit, Excused
<1>7. RuntimeTypeOK
  BY <1>1, <1>2, <1>3, <1>4, <1>5, <1>6, NoOpFacts, GenFacts
  DEF RuntimeInit, RuntimeTypeOK, Staged, Counts, Excused
<1>8. OpInv /\ AsideInv
  BY NoOpFacts DEF RuntimeInit, OpInv, AsideInv
<1>9. ContainerInv
  BY <1>3, NoOpFacts DEF RuntimeInit, ContainerInv, UpOrDown, Fits
<1>10. TrialInv
  <2>1. None <= generations.count /\ active <= generations.count
    BY <1>1, <1>2 DEF None
  <2> QED
    BY <1>2, <2>1, NoOpFacts DEF RuntimeInit, TrialInv, Abandoned, Rounds
<1>11. ClaimsInv
  <2>1. embActive = active /\ op.task = "none"
    BY NoOpFacts DEF RuntimeInit
  <2> QED
    BY <1>4, <2>1 DEF ClaimsInv
<1> QED
  BY <1>7, <1>8, <1>9, <1>10, <1>11 DEF RuntimeInv

LEMMA RuntimeTypesKept == RuntimeInv /\ RuntimeNext => RuntimeTypeOK'
  BY RoundsHaveActive, StepChange, StepRebuild, StepCalibrate, StepSetAside, StepLaunch,
     StepValidate, StepCommit, StepClean, StepMark, StepClaimRead, StepClaimWrite,
     StepDiscard, StepPutBack, StepReport, StepNextRound, StepRoundFails, StepResume,
     StepResumeFails, StepResumed, StepShutdown, StepRemove, StepWipe, StepUnclaim,
     StepActivate, StepSync, StepEmbRead, StepSyncWrite, StepEmbWrite, StepKill
  DEF RuntimeInv, RuntimeNext, OperatorStep, EmbeddingStep

LEMMA RuntimeInvKept == RuntimeInv /\ [RuntimeNext]_runtimeVars => RuntimeInv'
<1> SUFFICES ASSUME RuntimeInv, [RuntimeNext]_runtimeVars PROVE RuntimeInv'
  OBVIOUS
<1>1. CASE RuntimeNext
  BY <1>1, RuntimeTypesKept, OpInvKept, AsideInvKept, ContainerInvKept, TrialInvKept,
     ClaimsInvKept DEF RuntimeInv
<1>2. CASE UNCHANGED runtimeVars
  BY <1>2 DEF runtimeVars, RuntimeInv, RuntimeTypeOK, OpInv, AsideInv, ContainerInv, NotKilled,
     Fits, UpOrDown, TrialInv, Abandoned, ClaimsInv
<1> QED
  BY <1>1, <1>2

(* Containers, pointers, claims and commands keep their types, in every     *)
(* behaviour of the lifecycle of a runtime.                                 *)
THEOREM RuntimeTypeCorrect == RuntimeSpec => []RuntimeTypeOK
<1>1. RuntimeInv => RuntimeTypeOK
  BY DEF RuntimeInv
<1> QED
  BY <1>1, RuntimeStart, RuntimeInvKept, PTL DEF RuntimeSpec

(* Between commands the container and a status that says healthy are those  *)
(* of the active generation, no container stays aside, no candidate of a    *)
(* calibration stays active, and each workload claims the memory of its     *)
(* active generation; only a kill that was not repaired since, an undo that *)
(* failed, or two writers of the claims at once excuse a difference.        *)
THEOREM RuntimeAlwaysSettled == RuntimeSpec => []RuntimeSettled
<1>1. RuntimeInv => RuntimeSettled
  <2> SUFFICES ASSUME RuntimeInv PROVE RuntimeSettled
    OBVIOUS
  <2>1. RuntimeConsistent
    <3>1. op.phase = "idle" => op.task = "none"
      BY NoOpFacts DEF RuntimeInv, OpInv
    <3> QED
      BY <3>1 DEF RuntimeInv, AsideInv, ContainerInv, TrialInv, Abandoned, RuntimeConsistent,
         NotKilled, Fits, UpOrDown
  <2>2. ClaimsMatch
    BY DEF RuntimeInv, ClaimsInv, ClaimsMatch
  <2> QED
    BY <2>1, <2>2 DEF RuntimeSettled
<1> QED
  BY <1>1, RuntimeStart, RuntimeInvKept, PTL DEF RuntimeSpec

-----------------------------------------------------------------------------
(* The file store: sums over a finite set.                                  *)

Sum(f, S) == MapThenSumSet(LAMBDA x : f[x], S)

(* A set of numbers has a least one.                                        *)
LEMMA LeastNatural ==
  ASSUME NEW S, S \in SUBSET Nat, S # {}
  PROVE  \E n \in S : \A m \in S : n <= m
<1> DEFINE R == OpToRel(<, Nat)
<1>1. IsWellFoundedOn(R, Nat)
  BY NatLessThanWellFounded
<1>2. \A x, y \in Nat : x < y => <<x, y>> \in R
  BY DEF OpToRel
<1> HIDE DEF R
<1>3. PICK n \in S : \A y \in S : <<y, n>> \notin R
  BY <1>1, WFMin
<1>4. ASSUME NEW m \in S PROVE n <= m
  <2>1. m \in Nat /\ n \in Nat
    OBVIOUS
  <2>2. ~(m < n)
    BY <1>2, <1>3, <2>1
  <2> QED
    BY <2>1, <2>2
<1> QED
  BY <1>4

LEMMA NatSetInduction ==
  ASSUME NEW S, 0 \in S, \A n \in Nat : n \in S => n + 1 \in S
  PROVE  \A n \in Nat : n \in S
<1> SUFFICES ASSUME Nat \ S # {} PROVE FALSE
  OBVIOUS
<1>1. PICK n \in Nat \ S : \A m \in Nat \ S : n <= m
  BY LeastNatural
<1>2. n - 1 \in Nat /\ n - 1 \notin Nat \ S
  BY <1>1
<1> QED
  BY <1>1, <1>2

(* What is true of a finite set when it is of all smaller ones is true of   *)
(* every finite set.                                                        *)
LEMMA SubsetInduction ==
  ASSUME NEW D, IsFiniteSet(D), NEW G,
         \A S \in SUBSET D : (\A T \in SUBSET S : T # S => T \in G) => S \in G
  PROVE  D \in G
<1> DEFINE N == {n \in Nat : \A S \in SUBSET D : Cardinality(S) <= n => S \in G}
<1>0. \A S \in SUBSET D : IsFiniteSet(S) /\ Cardinality(S) \in Nat
  BY FS_Subset, FS_CardinalityType
<1>1. \A S \in SUBSET D : \A T \in SUBSET S : T # S => T \in SUBSET D /\ Cardinality(T) < Cardinality(S)
  BY <1>0, FS_Subset
<1>2. 0 \in N
  <2> SUFFICES ASSUME NEW S \in SUBSET D, Cardinality(S) <= 0 PROVE S \in G
    OBVIOUS
  <2>1. \A T \in SUBSET S : T = S
    BY <1>0, <1>1
  <2> QED
    BY <2>1
<1>3. ASSUME NEW n \in Nat, n \in N PROVE n + 1 \in N
  <2> SUFFICES ASSUME NEW S \in SUBSET D, Cardinality(S) <= n + 1 PROVE S \in G
    OBVIOUS
  <2>1. ASSUME NEW T \in SUBSET S, T # S PROVE T \in G
    <3>1. T \in SUBSET D /\ Cardinality(T) < Cardinality(S)
      BY <1>1, <2>1
    <3>2. Cardinality(T) <= n
      BY <1>0, <3>1
    <3> QED
      BY <1>3, <3>1, <3>2
  <2> QED
    BY <2>1
<1>4. Cardinality(D) \in N
  <2> HIDE DEF N
  <2>1. \A n \in Nat : n \in N
    BY <1>2, <1>3, NatSetInduction
  <2> QED
    BY <1>0, <2>1
<1> QED
  BY <1>0, <1>4

-----------------------------------------------------------------------------
(* Sums.                                                                    *)

First(S) == CHOOSE x \in S : TRUE

LEMMA FirstIn == \A S : S # {} => First(S) \in S
  BY DEF First

(* g adds up f over each subset of S.                                       *)
Adds(g, f, S) == g = [T \in SUBSET S |-> IF T = {} THEN 0 ELSE f[First(T)] + g[T \ {First(T)}]]

LEMMA AddsExists ==
  ASSUME NEW S, IsFiniteSet(S), NEW f, \A x \in S : f[x] \in Int
  PROVE  \E g : Adds(g, f, S)
<1> DEFINE Small(n) == {T \in SUBSET S : Cardinality(T) <= n}
           Good(g, n) == \A T \in Small(n) :
                            g[T] = IF T = {} THEN 0 ELSE f[First(T)] + g[T \ {First(T)}]
           N == {n \in Nat : \E g : Good(g, n)}
<1>0. \A T \in SUBSET S : IsFiniteSet(T) /\ Cardinality(T) \in Nat
  BY FS_Subset, FS_CardinalityType
<1>1. \A T \in SUBSET S : T # {} => /\ T \ {First(T)} \in SUBSET S
                                   /\ Cardinality(T \ {First(T)}) = Cardinality(T) - 1
  BY <1>0, FirstIn, FS_RemoveElement
<1>2. 0 \in N
  <2>1. ASSUME NEW T \in Small(0), T # {} PROVE FALSE
    <3>1. T \in SUBSET S /\ Cardinality(T) <= 0 /\ Cardinality(T) \in Nat
      BY <1>0, <2>1
    <3>2. T \ {First(T)} \in SUBSET S /\ Cardinality(T \ {First(T)}) = Cardinality(T) - 1
      BY <1>1, <2>1, <3>1
    <3>3. Cardinality(T \ {First(T)}) \in Nat
      BY <1>0, <3>2
    <3> QED
      BY <3>1, <3>2, <3>3
  <2>2. Good([T \in SUBSET S |-> 0], 0)
    BY <2>1
  <2> QED
    BY <2>2
<1>3. ASSUME NEW n \in Nat, n \in N PROVE n + 1 \in N
  <2>1. PICK g : Good(g, n)
    BY <1>3
  <2> DEFINE h == [T \in SUBSET S |-> IF T = {} THEN 0 ELSE f[First(T)] + g[T \ {First(T)}]]
  <2>2. \A T \in Small(n) : h[T] = g[T]
    BY <2>1
  <2>3. ASSUME NEW T \in Small(n + 1), T # {} PROVE h[T] = f[First(T)] + h[T \ {First(T)}]
    <3>1. T \ {First(T)} \in Small(n)
      BY <1>0, <1>1, <2>3
    <3> QED
      BY <2>2, <2>3, <3>1
  <2>4. Good(h, n + 1)
    BY <2>3
  <2> HIDE DEF Good, h
  <2>5. n + 1 \in Nat /\ \E k : Good(k, n + 1)
    BY <2>4
  <2> QED
    BY <2>5
<1>4. \A n \in Nat : n \in N
  <2> HIDE DEF N
  <2> QED
    BY <1>2, <1>3, NatSetInduction
<1>5. Cardinality(S) \in Nat /\ \A T \in SUBSET S : Cardinality(T) <= Cardinality(S)
  BY <1>0, FS_Subset
<1>6. PICK g : Good(g, Cardinality(S))
  BY <1>4, <1>5
<1> DEFINE h == [T \in SUBSET S |-> g[T]]
<1>7. ASSUME NEW T \in SUBSET S
      PROVE  h[T] = IF T = {} THEN 0 ELSE f[First(T)] + h[T \ {First(T)}]
  <2>1. T \in Small(Cardinality(S))
    BY <1>5
  <2> QED
    BY <1>1, <1>6, <2>1
<1>8. Adds(h, f, S)
  BY <1>7 DEF Adds
<1> QED
  BY <1>8

LEMMA SumIs ==
  ASSUME NEW S, IsFiniteSet(S), NEW f, \A x \in S : f[x] \in Int
  PROVE  \E g : Adds(g, f, S) /\ Sum(f, S) = g[S]
<1> DEFINE h == CHOOSE g : Adds(g, f, S)
<1>1. Adds(h, f, S)
  BY AddsExists
<1>2. Sum(f, S) = h[S]
  BY DEF Sum, MapThenSumSet, MapThenFoldSet, Adds, First
<1> QED
  BY <1>1, <1>2

LEMMA AddsAgree ==
  ASSUME NEW S, IsFiniteSet(S), NEW f, NEW g, NEW h, NEW R, R \in SUBSET S,
         Adds(g, f, S), Adds(h, f, R)
  PROVE  g[R] = h[R] /\ \A T \in SUBSET R : g[T] = h[T]
<1> DEFINE Same == {T \in SUBSET R : g[T] = h[T]}
<1>1. ASSUME NEW T \in SUBSET R, \A U \in SUBSET T : U # T => U \in Same PROVE T \in Same
  <2>1. /\ g[T] = IF T = {} THEN 0 ELSE f[First(T)] + g[T \ {First(T)}]
        /\ h[T] = IF T = {} THEN 0 ELSE f[First(T)] + h[T \ {First(T)}]
    BY DEF Adds
  <2>2. CASE T = {}
    BY <2>1, <2>2
  <2>3. CASE T # {}
    <3>1. T \ {First(T)} \in SUBSET T /\ T \ {First(T)} # T
      BY <2>3, FirstIn
    <3>2. g[T \ {First(T)}] = h[T \ {First(T)}]
      BY <1>1, <3>1
    <3> QED
      BY <2>1, <3>2
  <2> QED
    BY <2>2, <2>3
<1>2. ASSUME NEW T \in SUBSET R PROVE T \in Same
  <2> HIDE DEF Same
  <2>1. IsFiniteSet(T)
    BY FS_Subset
  <2>2. \A V \in SUBSET T : (\A U \in SUBSET V : U # V => U \in Same) => V \in Same
    BY <1>1
  <2> QED
    BY <2>1, <2>2, SubsetInduction
<1> QED
  BY <1>2

(* A sum is its first summand and the sum of the rest.                      *)
LEMMA SumFirst ==
  ASSUME NEW S, IsFiniteSet(S), NEW f, \A x \in S : f[x] \in Int
  PROVE  /\ S = {} => Sum(f, S) = 0
         /\ S # {} => Sum(f, S) = f[First(S)] + Sum(f, S \ {First(S)})
<1>1. PICK g : Adds(g, f, S) /\ Sum(f, S) = g[S]
  BY SumIs
<1>2. g[S] = IF S = {} THEN 0 ELSE f[First(S)] + g[S \ {First(S)}]
  BY <1>1 DEF Adds
<1>3. ASSUME S # {} PROVE g[S \ {First(S)}] = Sum(f, S \ {First(S)})
  <2> DEFINE R == S \ {First(S)}
  <2>1. IsFiniteSet(R) /\ R \in SUBSET S /\ \A x \in R : f[x] \in Int
    BY FS_Subset
  <2> HIDE DEF R
  <2>2. PICK h : Adds(h, f, R) /\ Sum(f, R) = h[R]
    BY <2>1, SumIs
  <2>3. g[R] = h[R]
    BY <1>1, <2>1, <2>2, AddsAgree
  <2> QED
    BY <2>2, <2>3 DEF R
<1> QED
  BY <1>1, <1>2, <1>3

LEMMA SumType ==
  ASSUME NEW S, IsFiniteSet(S), NEW f, \A x \in S : f[x] \in Int
  PROVE  Sum(f, S) \in Int
<1> DEFINE Ok == {T \in SUBSET S : Sum(f, T) \in Int}
<1>1. ASSUME NEW T \in SUBSET S, \A U \in SUBSET T : U # T => U \in Ok PROVE T \in Ok
  <2>1. IsFiniteSet(T) /\ \A x \in T : f[x] \in Int
    BY FS_Subset
  <2>2. CASE T = {}
    BY <2>1, <2>2, SumFirst
  <2>3. CASE T # {}
    <3>1. T \ {First(T)} \in SUBSET T /\ T \ {First(T)} # T /\ First(T) \in T
      BY <2>3, FirstIn
    <3>2. Sum(f, T \ {First(T)}) \in Int
      BY <1>1, <3>1
    <3>3. Sum(f, T) = f[First(T)] + Sum(f, T \ {First(T)})
      BY <2>1, <2>3, SumFirst
    <3> QED
      BY <2>1, <3>1, <3>2, <3>3
  <2> QED
    BY <2>2, <2>3
<1>2. S \in Ok
  <2> HIDE DEF Ok
  <2> QED
    BY <1>1, SubsetInduction
<1> QED
  BY <1>2

(* Whichever summand is taken out, the rest is the sum of the others.       *)
LEMMA SumWithout ==
  ASSUME NEW S, IsFiniteSet(S), NEW f, \A x \in S : f[x] \in Int, NEW x \in S
  PROVE  Sum(f, S) = f[x] + Sum(f, S \ {x})
<1> DEFINE Ok == {T \in SUBSET S : \A y \in T : Sum(f, T) = f[y] + Sum(f, T \ {y})}
<1>0. \A T \in SUBSET S : IsFiniteSet(T) /\ Sum(f, T) \in Int /\ \A y \in T : f[y] \in Int
  BY FS_Subset, SumType
<1>1. ASSUME NEW T \in SUBSET S, \A U \in SUBSET T : U # T => U \in Ok PROVE T \in Ok
  <2> SUFFICES ASSUME NEW y \in T, y # First(T) PROVE Sum(f, T) = f[y] + Sum(f, T \ {y})
    BY <1>0, SumFirst
  <2> DEFINE c == First(T)
  <2>1. c \in T /\ y \in T \ {c} /\ c \in T \ {y}
    BY FirstIn
  <2>2. T \ {c} \in Ok /\ T \ {y} \in Ok
    <3>1. T \ {c} \in SUBSET T /\ T \ {c} # T /\ T \ {y} \in SUBSET T /\ T \ {y} # T
      BY <2>1
    <3> HIDE DEF Ok, c
    <3> QED
      BY <1>1, <3>1
  <2>3. Sum(f, T) = f[c] + Sum(f, T \ {c})
    BY <1>0, <2>1, SumFirst
  <2> HIDE DEF c
  <2>4. Sum(f, T \ {c}) = f[y] + Sum(f, (T \ {c}) \ {y})
    BY <2>1, <2>2
  <2>5. Sum(f, T \ {y}) = f[c] + Sum(f, (T \ {y}) \ {c})
    BY <2>1, <2>2
  <2>6. (T \ {c}) \ {y} = (T \ {y}) \ {c}
    OBVIOUS
  <2>7. f[c] \in Int /\ f[y] \in Int
    BY <1>0, <2>1
  <2>8. Sum(f, (T \ {c}) \ {y}) \in Int /\ Sum(f, T \ {y}) \in Int /\ Sum(f, T \ {c}) \in Int
    BY <1>0
  <2> DEFINE rest == Sum(f, (T \ {c}) \ {y})
             a == Sum(f, T \ {y})
             b == Sum(f, T \ {c})
  <2>9. Sum(f, T) = f[c] + b /\ b = f[y] + rest /\ a = f[c] + rest
    BY <2>3, <2>4, <2>5, <2>6
  <2>10. rest \in Int
    BY <2>8
  <2> HIDE DEF rest, a, b
  <2>11. Sum(f, T) = f[y] + a
    BY <2>7, <2>9, <2>10
  <2> QED
    BY <2>11 DEF a
<1>2. S \in Ok
  <2> HIDE DEF Ok
  <2> QED
    BY <1>1, SubsetInduction
<1> QED
  BY <1>2

(* Sums of what is equal are equal.                                         *)
LEMMA SumSame ==
  ASSUME NEW S, IsFiniteSet(S), NEW f, NEW g, \A x \in S : f[x] \in Int /\ g[x] = f[x]
  PROVE  Sum(f, S) = Sum(g, S)
<1> DEFINE Ok == {T \in SUBSET S : Sum(f, T) = Sum(g, T)}
<1>1. ASSUME NEW T \in SUBSET S, \A U \in SUBSET T : U # T => U \in Ok PROVE T \in Ok
  <2>1. IsFiniteSet(T) /\ (\A x \in T : f[x] \in Int) /\ (\A x \in T : g[x] \in Int)
    BY FS_Subset
  <2>2. CASE T = {}
    BY <2>1, <2>2, SumFirst
  <2>3. CASE T # {}
    <3>1. T \ {First(T)} \in SUBSET T /\ T \ {First(T)} # T /\ First(T) \in T
      BY <2>3, FirstIn
    <3>2. Sum(f, T \ {First(T)}) = Sum(g, T \ {First(T)})
      BY <1>1, <3>1
    <3>3. Sum(f, T) = f[First(T)] + Sum(f, T \ {First(T)})
      BY <2>1, <2>3, SumFirst
    <3>4. Sum(g, T) = g[First(T)] + Sum(g, T \ {First(T)})
      BY <2>1, <2>3, SumFirst
    <3> QED
      BY <3>1, <3>2, <3>3, <3>4
  <2> QED
    BY <2>2, <2>3
<1>2. S \in Ok
  <2> HIDE DEF Ok
  <2> QED
    BY <1>1, SubsetInduction
<1> QED
  BY <1>2

(* A difference, summand by summand.                                        *)
LEMMA SumDifference ==
  ASSUME NEW S, IsFiniteSet(S), NEW f, NEW g, NEW h,
         \A x \in S : f[x] \in Int /\ g[x] \in Int /\ h[x] = f[x] - g[x]
  PROVE  Sum(h, S) = Sum(f, S) - Sum(g, S)
<1> DEFINE Ok == {T \in SUBSET S : Sum(h, T) = Sum(f, T) - Sum(g, T)}
<1>1. ASSUME NEW T \in SUBSET S, \A U \in SUBSET T : U # T => U \in Ok PROVE T \in Ok
  <2>1. /\ IsFiniteSet(T) /\ (\A x \in T : f[x] \in Int) /\ (\A x \in T : g[x] \in Int)
        /\ (\A x \in T : h[x] \in Int) /\ \A x \in T : h[x] = f[x] - g[x]
    BY FS_Subset
  <2>2. CASE T = {}
    <3>1. Sum(f, T) = 0 /\ Sum(g, T) = 0 /\ Sum(h, T) = 0
      BY <2>1, <2>2, SumFirst
    <3> QED
      BY <3>1
  <2>3. CASE T # {}
    <3> DEFINE c == First(T)
               R == T \ {c}
    <3>1. R \in SUBSET T /\ R # T /\ c \in T /\ R \in SUBSET S
      BY <2>3, FirstIn
    <3>2. Sum(h, R) = Sum(f, R) - Sum(g, R)
      BY <1>1, <3>1
    <3>3. Sum(f, T) = f[c] + Sum(f, R) /\ Sum(g, T) = g[c] + Sum(g, R) /\ Sum(h, T) = h[c] + Sum(h, R)
      BY <2>1, <2>3, SumFirst
    <3>4. Sum(f, R) \in Int /\ Sum(g, R) \in Int
      BY <2>1, <3>1, SumType, FS_Subset
    <3>5. f[c] \in Int /\ g[c] \in Int /\ h[c] = f[c] - g[c]
      BY <2>1, <3>1
    <3> HIDE DEF c, R
    <3> QED
      BY <3>2, <3>3, <3>4, <3>5
  <2> QED
    BY <2>2, <2>3
<1>2. S \in Ok
  <2> HIDE DEF Ok
  <2> QED
    BY <1>1, SubsetInduction
<1> QED
  BY <1>2

LEMMA TotalIs == \A f : Total(f) = Sum(f, DOMAIN f)
BY DEF Total, Sum

-----------------------------------------------------------------------------
(* The tree: keys, rows and paths.                                          *)

LEMMA MinIn ==
  ASSUME NEW S, S \in SUBSET Nat, S # {}
  PROVE  Min(S) \in S
<1>1. PICK n \in S : \A m \in S : n <= m
  BY LeastNatural
<1> QED
  BY <1>1 DEF Min

LEMMA KeyFacts ==
  ASSUME HasKey
  PROVE  NextKey \in NodeIds /\ node[NextKey] = Unused
<1> DEFINE free == {i \in NodeIds : node[i] = Unused}
<1>1. free \in SUBSET Nat /\ free # {}
  BY NodeIdsAssumption DEF HasKey
<1>2. PICK n \in free : \A m \in free : n <= m
  BY <1>1, LeastNatural
<1> QED
  BY <1>2 DEF NextKey

LEMMA RootIsNoKey == Root \notin NodeIds /\ NodeIds \subseteq Nat /\ IsFiniteSet(NodeIds)
BY NodeIdsAssumption DEF Root

LEMMA RowFacts ==
  ASSUME NEW t \in Trees, NEW i \in NodeIds
  PROVE  /\ t[i] \in Row \cup {Unused, Gone}
         /\ IsRow(t, i) <=> t[i] \in Row
         /\ IsRow(t, i) <=> t[i] # Unused /\ t[i] # Gone
         /\ IsRow(t, i) => t[i].kind # "gone" /\ t[i].kind # "unused"
BY DEF Trees, Row, IsRow, Unused, Gone

LEMMA PathInType ==
  ASSUME NEW t \in Trees, NEW p, p = Root \/ IsRow(t, p)
  PROVE  PathIn(t, p) \in Seq(Names)
<1>1. CASE p = Root
  BY <1>1 DEF PathIn
<1>2. CASE p # Root
  <2>1. t[p] \in Row
    BY <1>2, RowFacts DEF IsRow
  <2> QED
    BY <1>2, <2>1 DEF PathIn, Row
<1> QED
  BY <1>1, <1>2

(* One piece of a replaced path, given the pieces after it.                 *)
Matches(path, old, i) ==
  i + Len(old) <= Len(path) /\ SubSeq(path, i, i + Len(old) - 1) = old

Piece(path, old, new, f, i) ==
  IF i > Len(path) THEN <<>>
  ELSE IF Matches(path, old, i)
       THEN new \o <<path[i + Len(old)]>> \o f[i + Len(old) + 1]
       ELSE <<path[i]>> \o f[i + 1]

LEMMA PieceType ==
  ASSUME NEW path \in Seq(Names), NEW old \in Seq(Names), NEW new \in Seq(Names), NEW f,
         NEW i \in Nat \ {0}, \A j \in 1..(Len(path) + 2) : j > i => f[j] \in Seq(Names)
  PROVE  Piece(path, old, new, f, i) \in Seq(Names)
<1>1. Len(path) \in Nat /\ Len(old) \in Nat
  OBVIOUS
<1>2. CASE i > Len(path)
  BY <1>2 DEF Piece
<1>3. CASE i <= Len(path) /\ Matches(path, old, i)
  <2>1. i + Len(old) \in 1..Len(path) /\ i + Len(old) + 1 \in 1..(Len(path) + 2)
    BY <1>1, <1>3 DEF Matches
  <2>2. path[i + Len(old)] \in Names /\ f[i + Len(old) + 1] \in Seq(Names)
    BY <1>1, <2>1
  <2>3. new \o <<path[i + Len(old)]>> \o f[i + Len(old) + 1] \in Seq(Names)
    BY <2>2
  <2> QED
    BY <1>1, <1>3, <2>3 DEF Piece
<1>4. CASE i <= Len(path) /\ ~Matches(path, old, i)
  <2>1. path[i] \in Names /\ f[i + 1] \in Seq(Names)
    BY <1>1, <1>4
  <2>2. <<path[i]>> \o f[i + 1] \in Seq(Names)
    BY <2>1
  <2> QED
    BY <1>1, <1>4, <2>2 DEF Piece
<1> QED
  BY <1>1, <1>2, <1>3, <1>4

(* A piece depends on those after it only.                                  *)
LEMMA PieceLooksAhead ==
  ASSUME NEW path \in Seq(Names), NEW old \in Seq(Names), NEW new \in Seq(Names), NEW f, NEW g,
         NEW i \in Nat \ {0}, \A j \in 1..(Len(path) + 2) : j > i => f[j] = g[j]
  PROVE  Piece(path, old, new, f, i) = Piece(path, old, new, g, i)
<1>1. Len(path) \in Nat /\ Len(old) \in Nat
  OBVIOUS
<1>2. i <= Len(path) => i + 1 \in 1..(Len(path) + 2) /\ i + 1 > i
  BY <1>1
<1>3. Matches(path, old, i) => i + Len(old) + 1 \in 1..(Len(path) + 2) /\ i + Len(old) + 1 > i
  BY <1>1 DEF Matches
<1>4. i <= Len(path) => f[i + 1] = g[i + 1]
  BY <1>2
<1>5. Matches(path, old, i) => f[i + Len(old) + 1] = g[i + Len(old) + 1]
  BY <1>3
<1> QED
  BY <1>1, <1>4, <1>5 DEF Piece

Pieces(path, old, new, f) ==
  f = [i \in 1..(Len(path) + 2) |-> Piece(path, old, new, f, i)]

LEMMA PiecesExist ==
  ASSUME NEW path \in Seq(Names), NEW old \in Seq(Names), NEW new \in Seq(Names)
  PROVE  \E f : Pieces(path, old, new, f)
<1> DEFINE n == Len(path) + 2
           Good(g, m) == \A i \in 1..n : i > n - m => g[i] = Piece(path, old, new, g, i)
           N == {m \in Nat : \E g : Good(g, m)}
<1>1. n \in Nat
  OBVIOUS
<1>2. 0 \in N
  <2>1. Good(<<>>, 0)
    BY <1>1
  <2> QED
    BY <2>1
<1>3. ASSUME NEW m \in Nat, m \in N PROVE m + 1 \in N
  <2>1. PICK g : Good(g, m)
    BY <1>3
  <2> DEFINE h == [i \in 1..n |-> IF i = n - m THEN Piece(path, old, new, g, i) ELSE g[i]]
  <2>2. ASSUME NEW i \in 1..n, i > n - (m + 1) PROVE h[i] = Piece(path, old, new, h, i)
    <3>0. i \in Nat \ {0} /\ n = Len(path) + 2 /\ i >= n - m
      BY <1>1, <2>2
    <3>1. \A j \in 1..n : j > i => h[j] = g[j]
      BY <1>1, <3>0
    <3>2. Piece(path, old, new, h, i) = Piece(path, old, new, g, i)
      <4> HIDE DEF h
      <4> QED
        BY <3>0, <3>1, PieceLooksAhead
    <3>3. h[i] = Piece(path, old, new, g, i)
      BY <1>1, <2>1, <3>0
    <3> QED
      BY <3>2, <3>3
  <2> HIDE DEF h
  <2>3. Good(h, m + 1)
    BY <2>2
  <2> HIDE DEF Good
  <2> QED
    BY <2>3
<1>4. \A m \in Nat : m \in N
  <2> HIDE DEF N
  <2> QED
    BY <1>2, <1>3, NatSetInduction
<1>5. PICK g : Good(g, n)
  BY <1>1, <1>4
<1> DEFINE f == [i \in 1..n |-> g[i]]
<1>6. ASSUME NEW i \in 1..n PROVE f[i] = Piece(path, old, new, f, i)
  <2>1. i \in Nat \ {0} /\ \A j \in 1..(Len(path) + 2) : j > i => f[j] = g[j]
    BY <1>1
  <2>2. f[i] = Piece(path, old, new, g, i)
    BY <1>1, <1>5
  <2> HIDE DEF f
  <2> QED
    BY <2>1, <2>2, PieceLooksAhead
<1>7. Pieces(path, old, new, f)
  BY <1>6 DEF Pieces
<1> QED
  BY <1>7

LEMMA ReplacedType ==
  ASSUME NEW path \in Seq(Names), NEW old \in Seq(Names), NEW new \in Seq(Names)
  PROVE  Replaced(path, old, new) \in Seq(Names)
<1> DEFINE f == CHOOSE g : Pieces(path, old, new, g)
           n == Len(path) + 2
<1>1. Pieces(path, old, new, f)
  BY PiecesExist
<1>2. Replaced(path, old, new) = f[1]
  BY DEF Replaced, Pieces, Piece, Matches
<1> HIDE DEF f
<1>3. n \in Nat /\ n >= 2
  OBVIOUS
<1> DEFINE N == {m \in Nat : \A i \in 1..n : i > n - m => f[i] \in Seq(Names)}
<1>4. 0 \in N
  BY <1>3
<1>5. ASSUME NEW m \in Nat, m \in N PROVE m + 1 \in N
  <2> SUFFICES ASSUME NEW i \in 1..n, i > n - (m + 1) PROVE f[i] \in Seq(Names)
    BY <1>3
  <2>1. i \in Nat \ {0} /\ \A j \in 1..(Len(path) + 2) : j > i => f[j] \in Seq(Names)
    BY <1>3, <1>5
  <2>2. f[i] = Piece(path, old, new, f, i)
    BY <1>1 DEF Pieces
  <2> QED
    BY <2>1, <2>2, PieceType
<1>6. n \in N
  <2> HIDE DEF N, n
  <2> QED
    BY <1>3, <1>4, <1>5, NatSetInduction
<1> QED
  BY <1>2, <1>3, <1>6

-----------------------------------------------------------------------------
(* Types of the files.                                                      *)

Requests == TreeRequests \cup StoreRequests
Parents == NodeIds \cup {Root}
Uploaded == [name : Names, size : Sizes, ai : BOOLEAN]

Creates == [op : {"create"}, user : Users, parent : Parents, base : Seq(Names), name : Names]
Moves == [op : {"move"}, user : Users, id : NodeIds, row : Row, parent : Parents,
          base : Seq(Names), name : Names]
OnRows == [op : {"star", "trash", "restore"}, user : Users, id : NodeIds, row : Row]
SetAIs == [op : {"ai"}, user : Users, id : NodeIds, row : Row, enabled : BOOLEAN]
Purges == [op : {"purge"}, user : Users, ids : SUBSET NodeIds]
Uploads == [op : {"upload"}, user : Users, parent : Parents, base : Seq(Names), name : Names,
            size : Sizes, ai : BOOLEAN, read : Int]
Deletes == [op : {"delete"}, user : Users, ids : SUBSET NodeIds, nodes : SUBSET NodeIds,
            blobs : [NodeIds -> Blobs]]
Walks == [op : {"walk"}, user : Users, parent : Parents, base : Seq(Names),
          dirs : Seq(Names), file : Uploaded]
         \cup [op : {"walk"}, user : Users, parent : Parents, base : Seq(Names),
               dirs : Seq(Names) \ {<<>>}, file : {NoFile}]
Syncs == [op : {"sync"}, user : Users, parent : Parents, base : Seq(Names), name : Names,
          size : Sizes, ai : BOOLEAN, id : Parents, old : Blobs, read : Int]
FileCounts == [op : {"count"}, delta : Int, read : Int]

LEMMA RequestsAre ==
  /\ Requests = {Idle} \cup Creates \cup Moves \cup OnRows \cup SetAIs \cup Purges
                  \cup Uploads \cup Deletes \cup Walks \cup Syncs \cup FileCounts
BY DEF Requests, TreeRequests, StoreRequests, Parents, Uploaded, Creates, Moves, OnRows, SetAIs,
   Purges, Uploads, Deletes, Walks, Syncs, FileCounts

LEMMA RequestByOp ==
  ASSUME NEW q \in Requests
  PROVE  /\ q.op = "create" => q \in Creates
         /\ q.op = "move" => q \in Moves
         /\ q.op \in {"star", "trash", "restore"} => q \in OnRows
         /\ q.op = "ai" => q \in SetAIs
         /\ q.op = "purge" => q \in Purges
         /\ q.op = "upload" => q \in Uploads
         /\ q.op = "delete" => q \in Deletes
         /\ q.op = "walk" => q \in Walks
         /\ q.op = "sync" => q \in Syncs
         /\ q.op = "count" => q \in FileCounts
         /\ q.op = "idle" => q = Idle
BY RequestsAre
DEF Idle, Creates, Moves, OnRows, SetAIs, Purges, Uploads, Deletes, Walks, Syncs, FileCounts

LEMMA SizeFacts ==
  /\ Sizes \subseteq Nat /\ NoBlob \in Blobs /\ NoBlob.size = 0 /\ NoBlob.file = 0
  /\ \A b \in Blobs : b.size \in Nat /\ b.file \in Nat /\ (b # NoBlob => b.size \in Sizes /\ b.file # 0)
  /\ \A s \in Sizes, k \in Nat \ {0} : /\ [size |-> s, file |-> k] \in Blobs
                                       /\ [size |-> s, file |-> k] # NoBlob
<1>1. Sizes \subseteq Nat
  BY FilesAssumption
<1>2. NoBlob \in Blobs /\ NoBlob.size = 0 /\ NoBlob.file = 0
  BY DEF Blobs, NoBlob
<1>3. ASSUME NEW b \in Blobs PROVE b.size \in Nat /\ b.file \in Nat /\ (b # NoBlob => b.size \in Sizes /\ b.file # 0)
  <2>1. CASE b = NoBlob
    BY <1>2, <2>1
  <2>2. CASE b \in [size : Sizes, file : Nat \ {0}]
    <3>1. b.size \in Sizes /\ b.file \in Nat \ {0}
      BY <2>2
    <3> QED
      BY <1>1, <3>1
  <2> QED
    BY <2>1, <2>2 DEF Blobs
<1>4. ASSUME NEW s \in Sizes, NEW k \in Nat \ {0}
      PROVE  [size |-> s, file |-> k] \in Blobs /\ [size |-> s, file |-> k] # NoBlob
  BY <1>2 DEF Blobs
<1> QED
  BY <1>1, <1>2, <1>3, <1>4

LEMMA NewRowType ==
  ASSUME NEW kind \in {"folder", "file"}, NEW u \in Users, NEW p \in Parents,
         NEW base \in Seq(Names), NEW n \in Names, NEW ai \in BOOLEAN
  PROVE  /\ NewRow(kind, u, p, base, n, ai) \in Row
         /\ NewRow(kind, u, p, base, n, ai).path = Append(base, n)
         /\ NewRow(kind, u, p, base, n, ai).parent = p
         /\ NewRow(kind, u, p, base, n, ai).name = n
         /\ NewRow(kind, u, p, base, n, ai).kind = kind
<1>1. Append(base, n) \in Seq(Names)
  OBVIOUS
<1> QED
  BY <1>1 DEF NewRow, Row, Parents, Never

LEMMA NewFolderType ==
  ASSUME NEW u \in Users, NEW p \in Parents, NEW base \in Seq(Names), NEW n \in Names
  PROVE  /\ NewRow("folder", u, p, base, n, TRUE) \in Row
         /\ NewRow("folder", u, p, base, n, TRUE).path = Append(base, n)
         /\ NewRow("folder", u, p, base, n, TRUE).parent = p
         /\ NewRow("folder", u, p, base, n, TRUE).name = n
         /\ NewRow("folder", u, p, base, n, TRUE).kind = "folder"
<1>1. Append(base, n) \in Seq(Names)
  OBVIOUS
<1> QED
  BY <1>1 DEF NewRow, Row, Parents, Never

LEMMA WrittenType ==
  ASSUME NEW t \in Trees, node \in Trees
  PROVE  Written(t) \in Trees
BY DEF Written

LEMMA PutRow ==
  ASSUME NEW t \in Trees, NEW i \in NodeIds, NEW row \in Row
  PROVE  [t EXCEPT ![i] = row] \in Trees
BY DEF Trees

LEMMA FileTypesUnchanged ==
  ASSUME FilesTypeOK, UNCHANGED fileVars
  PROVE  FilesTypeOK'
BY DEF FilesTypeOK, TreeTypeOK, fileVars, treeVars, storeVars, HasBlob

(* What the parts of the type say, under one name each.                     *)
StoreTyped ==
  /\ members \subseteq Users
  /\ blob \in [NodeIds -> Blobs]
  /\ files \in Nat /\ disk \subseteq 1..files
  /\ \A i \in NodeIds : HasBlob(i) => blob[i].file <= files
  /\ used \in Int /\ syncUsed \in Int

LEMMA FileTypes ==
  FilesTypeOK <=> /\ node \in Trees /\ day \in 0..LastDay /\ started \in 0..MaxRequests
                  /\ req \in [Slots -> Requests] /\ StoreTyped
BY DEF FilesTypeOK, TreeTypeOK, StoreTyped, Requests

LEMMA BeginTypes ==
  ASSUME FilesTypeOK, NEW r \in Slots, NEW q \in Requests, Begin(r, q), UNCHANGED storeVars
  PROVE  FilesTypeOK'
<1>1. req' \in [Slots -> Requests]
  BY FileTypes DEF Begin
<1>2. started' \in 0..MaxRequests
  BY FileTypes, GivenAssumption DEF Begin
<1>3. node' = node /\ day' = day
  BY DEF Begin
<1>4. StoreTyped'
  BY FileTypes DEF StoreTyped, storeVars, HasBlob
<1> QED
  BY <1>1, <1>2, <1>3, <1>4, FileTypes DEF FilesTypeOK, TreeTypeOK, StoreTyped, Requests

(* A step of an open request.                                               *)
LEMMA StepTypes ==
  ASSUME FilesTypeOK, NEW r \in Slots, NEW q \in Requests, req' = [req EXCEPT ![r] = q],
         node' \in Trees, StoreTyped', UNCHANGED <<day, started>>
  PROVE  FilesTypeOK'
<1>1. req' \in [Slots -> Requests]
  BY FileTypes
<1> QED
  BY <1>1, FileTypes DEF FilesTypeOK, TreeTypeOK, StoreTyped, Requests

LEMMA StoreUnchanged ==
  ASSUME FilesTypeOK, UNCHANGED storeVars
  PROVE  StoreTyped'
BY FileTypes DEF StoreTyped, storeVars, HasBlob

LEMMA IdleIsRequest == Idle \in Requests
BY RequestsAre

LEMMA RowsAreRows ==
  ASSUME FilesTypeOK, NEW i, IsRow(node, i)
  PROVE  i \in NodeIds /\ node[i] \in Row
BY FileTypes, RowFacts DEF IsRow

LEMMA FolderParent ==
  ASSUME FilesTypeOK, NEW p, p = Root \/ IsFolder(p)
  PROVE  p \in Parents /\ PathIn(node, p) \in Seq(Names) /\ (p = Root \/ IsRow(node, p))
BY FileTypes, PathInType DEF IsFolder, IsRow, Parents

(* Rows that refer to rows, and paths that are used once: what the database *)
(* enforces, whatever is written.                                           *)
FileBase == FilesTypeOK /\ Consistent(node)

LEMMA ConsistentIs ==
  ASSUME NEW t
  PROVE  Consistent(t) <=>
           /\ \A i \in NodeIds : IsRow(t, i) => t[i].parent = Root \/ IsRow(t, t[i].parent)
           /\ \A i, j \in NodeIds : IsRow(t, i) /\ IsRow(t, j) /\ t[i].path = t[j].path => i = j
BY DEF Consistent, Rows

(* The requests that start.                                                 *)
LEMMA StartCreateTypes ==
  ASSUME FileBase, NEW r \in Slots, NEW u \in Users, NEW p \in NodeIds \cup {Root}, NEW n \in GivenNames,
         StartCreate(r, u, p, n)
  PROVE  \E q \in Creates : Begin(r, q) /\ q.parent = p /\ (p = Root \/ IsFolder(p))
<1> DEFINE q == [op |-> "create", user |-> u, parent |-> p, base |-> PathIn(node, p), name |-> n]
<1>1. p \in Parents /\ PathIn(node, p) \in Seq(Names)
  BY FolderParent DEF StartCreate, FileBase
<1>2. q \in Creates /\ q.parent = p
  BY <1>1, GivenAssumption DEF Creates
<1>3. Begin(r, q) /\ (p = Root \/ IsFolder(p))
  BY DEF StartCreate
<1> HIDE DEF q
<1> QED
  BY <1>2, <1>3

LEMMA StartMoveTypes ==
  ASSUME FileBase, NEW r \in Slots, NEW u \in Users, NEW i \in Rows(node), NEW p \in NodeIds \cup {Root},
         NEW n \in GivenNames \cup {node[i].name}, StartMove(r, u, i, p, n)
  PROVE  \E q \in Moves : /\ Begin(r, q) /\ q.id = i /\ q.row = node[i] /\ q.parent = p
                          /\ IsRow(node, i) /\ (p = Root \/ IsFolder(p) \/ p = node[i].parent)
                          /\ p # i /\ ~IsStrictPrefix(q.row.path, q.base)
<1> DEFINE q == [op |-> "move", user |-> u, id |-> i, row |-> node[i], parent |-> p,
                 base |-> PathIn(node, p), name |-> n]
<1>1. i \in NodeIds /\ node[i] \in Row /\ IsRow(node, i)
  BY RowsAreRows DEF Rows, FileBase
<1>2. p \in Parents /\ n \in Names
  BY <1>1, GivenAssumption DEF Parents, Row
<1>3. PathIn(node, p) \in Seq(Names)
  <2>1. p = Root \/ IsFolder(p) => PathIn(node, p) \in Seq(Names)
    BY FolderParent DEF FileBase
  <2>2. p = node[i].parent => p = Root \/ IsRow(node, p)
    BY <1>1, ConsistentIs DEF FileBase
  <2>3. p = node[i].parent => PathIn(node, p) \in Seq(Names)
    BY <2>2, PathInType, FileTypes DEF FileBase
  <2> QED
    BY <2>1, <2>3 DEF StartMove
<1>4. q \in Moves /\ q.id = i /\ q.row = node[i] /\ q.parent = p
  BY <1>1, <1>2, <1>3 DEF Moves
<1>5. Begin(r, q) /\ (p = Root \/ IsFolder(p) \/ p = node[i].parent) /\ p # i
  BY DEF StartMove
<1>6. ~IsStrictPrefix(node[i].path, PathIn(node, p))
  BY DEF StartMove
<1>7. ~IsStrictPrefix(q.row.path, q.base)
  BY <1>6
<1> HIDE DEF q
<1> QED
  BY <1>1, <1>4, <1>5, <1>7

(* A request that loads one row.                                            *)
LEMMA StartOnRowTypes ==
  ASSUME FileBase, NEW r \in Slots, NEW u \in Users, NEW i \in NodeIds, NEW enabled \in BOOLEAN,
         \/ StartStar(r, u, i) \/ StartTrash(r, u, i) \/ StartSetAI(r, u, i, enabled)
         \/ StartRestore(r, u, i) \/ StartSyncDelete(r, u, i)
  PROVE  \E q \in OnRows \cup SetAIs : Begin(r, q) /\ q.id = i /\ q.row = node[i] /\ IsRow(node, i)
<1>1. IsRow(node, i) /\ node[i] \in Row
  BY RowsAreRows DEF StartStar, StartTrash, StartSetAI, StartRestore, StartSyncDelete, FileBase
<1>2. ASSUME NEW asked \in {"star", "trash", "restore"},
             Begin(r, [op |-> asked, user |-> u, id |-> i, row |-> node[i]])
      PROVE  \E q \in OnRows \cup SetAIs : Begin(r, q) /\ q.id = i /\ q.row = node[i] /\ IsRow(node, i)
  <2> DEFINE q == [op |-> asked, user |-> u, id |-> i, row |-> node[i]]
  <2>1. q \in OnRows /\ q.id = i /\ q.row = node[i] /\ Begin(r, q)
    BY <1>1, <1>2 DEF OnRows
  <2> HIDE DEF q
  <2> QED
    BY <1>1, <2>1
<1>3. CASE StartStar(r, u, i)
  BY <1>2, <1>3 DEF StartStar
<1>4. CASE StartTrash(r, u, i)
  BY <1>2, <1>4 DEF StartTrash
<1>5. CASE StartRestore(r, u, i)
  BY <1>2, <1>5 DEF StartRestore
<1>6. CASE StartSyncDelete(r, u, i)
  BY <1>2, <1>6 DEF StartSyncDelete
<1>7. CASE StartSetAI(r, u, i, enabled)
  <2> DEFINE q == [op |-> "ai", user |-> u, id |-> i, row |-> node[i], enabled |-> enabled]
  <2>1. q \in SetAIs /\ q.id = i /\ q.row = node[i] /\ Begin(r, q)
    BY <1>1, <1>7 DEF SetAIs, StartSetAI
  <2> HIDE DEF q
  <2> QED
    BY <1>1, <2>1
<1> QED
  BY <1>3, <1>4, <1>5, <1>6, <1>7

LEMMA StartPurgeTypes ==
  ASSUME FileBase, NEW r \in Slots, NEW u \in Users,
         \/ \E i \in NodeIds : StartPermanentDelete(r, u, i)
         \/ StartEmptyTrash(r, u) \/ StartTrashListing(r, u)
  PROVE  \E q \in Purges : Begin(r, q)
<1>1. ASSUME NEW S \in SUBSET NodeIds, Begin(r, Purge(u, S)) PROVE \E q \in Purges : Begin(r, q)
  <2>1. Purge(u, S) \in Purges
    BY DEF Purge, Purges
  <2> QED
    BY <1>1, <2>1
<1>2. Rows(node) \subseteq NodeIds
  BY DEF Rows
<1>3. \A i, row : Subtree(i, row) \in SUBSET NodeIds
  BY <1>2 DEF Subtree
<1>4. EmptiedBy(u) \in SUBSET NodeIds
  BY <1>2 DEF EmptiedBy
<1>5. {i \in Rows(node) : node[i].trashed /\ Expired(node[i].deletedAt)} \in SUBSET NodeIds
  BY <1>2
<1>6. CASE \E i \in NodeIds : StartPermanentDelete(r, u, i)
  BY <1>1, <1>3, <1>6 DEF StartPermanentDelete
<1>7. CASE StartEmptyTrash(r, u)
  BY <1>1, <1>4, <1>7 DEF StartEmptyTrash
<1>8. CASE StartTrashListing(r, u)
  BY <1>1, <1>5, <1>8 DEF StartTrashListing
<1> QED
  BY <1>6, <1>7, <1>8

LEMMA StartUploadTypes ==
  ASSUME FileBase, NEW r \in Slots, NEW u \in Users, NEW p \in NodeIds \cup {Root}, NEW n \in GivenNames,
         NEW size \in Sizes, NEW ai \in AskedAI, StartUpload(r, u, p, n, size, ai)
  PROVE  \E q \in Uploads : /\ Begin(r, q) /\ q.parent = p /\ (p = Root \/ IsFolder(p))
                            /\ q.read + q.size <= TotalSize
<1> DEFINE q == [op |-> "upload", user |-> u, parent |-> p, base |-> PathIn(node, p),
                 name |-> n, size |-> size, ai |-> ai, read |-> used]
<1>1. p \in Parents /\ PathIn(node, p) \in Seq(Names)
  BY FolderParent DEF StartUpload, FileBase
<1>2. q \in Uploads /\ q.parent = p
  BY <1>1, GivenAssumption, FilesAssumption, FileTypes DEF Uploads, StoreTyped, FileBase
<1>3. Begin(r, q) /\ (p = Root \/ IsFolder(p)) /\ q.read + q.size <= TotalSize
  BY DEF StartUpload
<1> HIDE DEF q
<1> QED
  BY <1>2, <1>3

LEMMA StartWalkTypes ==
  ASSUME FileBase, NEW r \in Slots, NEW u \in Users, NEW dirs \in Seq(Names),
         NEW file \in Uploaded \cup {NoFile}, file \in Uploaded \/ dirs # <<>>,
         StartWalk(r, u, dirs, file)
  PROVE  \E q \in Walks : /\ Begin(r, q) /\ (q.parent = Root \/ IsFolder(q.parent))
                          /\ UNCHANGED storeVars
<1>1. PICK from \in SyncRoots \cup {Root} :
         Begin(r, [op |-> "walk", user |-> u, parent |-> from, base |-> PathIn(node, from),
                   dirs |-> (IF from = Root THEN <<SyncName, RootName>> ELSE <<>>) \o dirs,
                   file |-> file])
  BY DEF StartWalk
<1>2. from = Root \/ IsFolder(from)
  BY DEF SyncRoots, Rows, IsFolder
<1>3. from \in Parents /\ PathIn(node, from) \in Seq(Names)
  BY <1>2, FolderParent DEF FileBase
<1> DEFINE start == IF from = Root THEN <<SyncName, RootName>> ELSE <<>>
<1>4. start \in Seq(Names)
  BY FilesAssumption
<1> HIDE DEF start
<1>5. start \o dirs \in Seq(Names) /\ (dirs # <<>> => start \o dirs # <<>>)
  BY <1>4
<1> DEFINE q == [op |-> "walk", user |-> u, parent |-> from, base |-> PathIn(node, from),
                 dirs |-> start \o dirs, file |-> file]
<1>6. q \in Walks /\ q.parent = from
  BY <1>3, <1>5 DEF Walks
<1>7. Begin(r, q)
  BY <1>1 DEF start
<1> HIDE DEF q
<1> QED
  BY <1>2, <1>6, <1>7 DEF StartWalk

(* All that starts.                                                         *)
LEMMA StartIs ==
  ASSUME FileBase, NEW r \in Slots, NEW u \in members, FileStart(r, u)
  PROVE  \E q \in Requests : Begin(r, q) /\ UNCHANGED storeVars
<1>0. u \in Users
  BY FileTypes DEF StoreTyped, FileBase
<1>1. CASE TreeStart(r, u) /\ UNCHANGED storeVars
  <2>1. CASE \E p \in NodeIds \cup {Root}, n \in GivenNames : StartCreate(r, u, p, n)
    BY <1>0, <1>1, <2>1, StartCreateTypes, RequestsAre
  <2>2. CASE \E i \in Rows(node), p \in NodeIds \cup {Root} :
               \E n \in GivenNames \cup {node[i].name} : StartMove(r, u, i, p, n)
    BY <1>0, <1>1, <2>2, StartMoveTypes, RequestsAre
  <2>3. CASE \E i \in NodeIds : \/ StartStar(r, u, i) \/ StartTrash(r, u, i)
                                \/ \E enabled \in BOOLEAN : StartSetAI(r, u, i, enabled)
                                \/ StartRestore(r, u, i)
    BY <1>0, <1>1, <2>3, StartOnRowTypes, RequestsAre
  <2>4. CASE \/ \E i \in NodeIds : StartPermanentDelete(r, u, i)
             \/ StartEmptyTrash(r, u) \/ StartTrashListing(r, u)
    BY <1>0, <1>1, <2>4, StartPurgeTypes, RequestsAre
  <2> QED
    BY <1>1, <2>1, <2>2, <2>3, <2>4 DEF TreeStart
<1>2. CASE \E p \in NodeIds \cup {Root}, n \in GivenNames, size \in Sizes, ai \in AskedAI :
             StartUpload(r, u, p, n, size, ai)
  BY <1>0, <1>2, StartUploadTypes, RequestsAre DEF StartUpload
<1>3. ASSUME NEW rel \in RelPaths
      PROVE  rel \in Seq(Names) /\ rel # <<>> /\ Front(rel) \in Seq(Names) /\ Last(rel) \in Names
  <2>1. rel \in Seq(Names) /\ rel # <<>>
    BY FilesAssumption
  <2> QED
    BY <2>1 DEF Front, Last
<1>4. CASE \E rel \in RelPaths, size \in Sizes, ai \in AskedAI :
             StartWalk(r, u, Front(rel), [name |-> Last(rel), size |-> size, ai |-> ai])
  <2>1. PICK rel \in RelPaths, size \in Sizes, ai \in AskedAI :
           StartWalk(r, u, Front(rel), [name |-> Last(rel), size |-> size, ai |-> ai])
    BY <1>4
  <2>2. [name |-> Last(rel), size |-> size, ai |-> ai] \in Uploaded
    BY <1>3, FilesAssumption DEF Uploaded
  <2> QED
    BY <1>0, <1>3, <2>1, <2>2, StartWalkTypes, RequestsAre
<1>5. CASE \E rel \in RelPaths : StartWalk(r, u, rel, NoFile)
  BY <1>0, <1>3, <1>5, StartWalkTypes, RequestsAre
<1>6. CASE \E i \in NodeIds : StartSyncDelete(r, u, i)
  BY <1>0, <1>6, StartOnRowTypes, RequestsAre DEF StartSyncDelete
<1> QED
  BY <1>1, <1>2, <1>4, <1>5, <1>6 DEF FileStart

-----------------------------------------------------------------------------
(* What the steps of a request write.                                       *)

(* Nothing but marks of rows: a row stays a row, where it is.               *)
SamePlace(x, y) ==
  x.kind = y.kind /\ x.parent = y.parent /\ x.name = y.name /\ x.path = y.path /\ x.owner = y.owner

Marked(t) ==
  /\ t \in Trees
  /\ \A i \in NodeIds : \/ t[i] = node[i]
                        \/ t[i] \in Row /\ node[i] \in Row /\ SamePlace(t[i], node[i])

(* A new row.                                                               *)
Inserted1(row) ==
  HasKey /\ row \in Row /\ node' = [node EXCEPT ![NextKey] = row] /\ Consistent(node')

LEMMA MarkedRows ==
  ASSUME FileBase, NEW t, Marked(t)
  PROVE  /\ \A i \in NodeIds : IsRow(t, i) <=> IsRow(node, i)
         /\ \A i \in NodeIds : IsRow(t, i) => SamePlace(t[i], node[i])
         /\ \A i \in NodeIds : (t[i] = Gone <=> node[i] = Gone) /\ (t[i] = Unused <=> node[i] = Unused)
         /\ Consistent(t)
<1>0. node \in Trees /\ t \in Trees
  BY FileTypes DEF FileBase, Marked
<1>1. ASSUME NEW i \in NodeIds
      PROVE  /\ IsRow(t, i) <=> IsRow(node, i)
             /\ IsRow(t, i) => SamePlace(t[i], node[i])
             /\ (t[i] = Gone <=> node[i] = Gone) /\ (t[i] = Unused <=> node[i] = Unused)
  BY <1>0, RowFacts DEF Marked, IsRow, SamePlace
<1>2. IsRow(t, Root) <=> IsRow(node, Root)
  BY RootIsNoKey DEF IsRow
<1>3. ASSUME NEW i \in NodeIds, IsRow(t, i) PROVE t[i].parent = Root \/ IsRow(t, t[i].parent)
  <2>1. t[i].parent = node[i].parent /\ IsRow(node, i)
    BY <1>1, <1>3 DEF SamePlace
  <2>2. node[i].parent = Root \/ IsRow(node, node[i].parent)
    BY <2>1, ConsistentIs DEF FileBase
  <2> QED
    BY <1>1, <2>1, <2>2 DEF IsRow
<1>4. ASSUME NEW i \in NodeIds, NEW j \in NodeIds, IsRow(t, i), IsRow(t, j), t[i].path = t[j].path
      PROVE  i = j
  BY <1>1, <1>4, ConsistentIs DEF FileBase, SamePlace
<1>5. Consistent(t)
  BY <1>3, <1>4, ConsistentIs
<1> QED
  BY <1>1, <1>5

LEMMA RequestOf ==
  ASSUME FileBase, NEW r \in Slots
  PROVE  req[r] \in Requests
BY FileTypes DEF FileBase

LEMMA WrittenIs ==
  ASSUME NEW t
  PROVE  Written(t) = node \/ (Written(t) = t /\ Consistent(t))
BY DEF Written

LEMMA CommitCreateIs ==
  ASSUME FileBase, NEW r \in Slots, CommitCreate(r)
  PROVE  /\ req[r] \in Creates /\ req' = [req EXCEPT ![r] = Idle]
         /\ \/ node' = node
            \/ \E row : /\ Inserted1(row) /\ row.kind = "folder" /\ row.parent = req[r].parent
                        /\ row.name = req[r].name /\ row.path = Append(req[r].base, req[r].name)
<1> DEFINE q == req[r]
           row == NewRow("folder", q.user, q.parent, q.base, q.name, TRUE)
<1>1. q \in Creates
  BY RequestOf, RequestByOp DEF CommitCreate
<1>2. q.user \in Users /\ q.parent \in Parents /\ q.base \in Seq(Names) /\ q.name \in Names
  BY <1>1 DEF Creates
<1> HIDE DEF q
<1>3. row \in Row /\ row.kind = "folder" /\ row.parent = q.parent /\ row.name = q.name
      /\ row.path = Append(q.base, q.name)
  <2>1. Append(q.base, q.name) \in Seq(Names)
    BY <1>2
  <2> QED
    BY <1>2, <2>1 DEF NewRow, Row, Parents, Never
<1>4. HasKey /\ node' = Written([node EXCEPT ![NextKey] = row]) /\ req' = [req EXCEPT ![r] = Idle]
  BY DEF CommitCreate, Finish, q
<1> HIDE DEF row
<1>5. node' = node \/ Inserted1(row)
  BY <1>3, <1>4, WrittenIs DEF Inserted1
<1> QED
  BY <1>1, <1>3, <1>4, <1>5 DEF q

(* The tree that a move writes.                                             *)
Relocates(q, j) ==
  /\ q.row.kind = "folder" /\ q.row.path # Append(q.base, q.name)
  /\ IsRow(node, j) /\ IsStrictPrefix(q.row.path, node[j].path)

Relocated(q) ==
  [j \in NodeIds |->
     IF Relocates(q, j)
     THEN [node[j] EXCEPT !.path = Replaced(@, q.row.path, Append(q.base, q.name))]
     ELSE node[j]]

MovedRow(q) ==
  [q.row EXCEPT !.parent = q.parent, !.name = q.name, !.path = Append(q.base, q.name)]

MovedTree(q) == [Relocated(q) EXCEPT ![q.id] = MovedRow(q)]

LEMMA MovedRowFacts ==
  ASSUME NEW q \in Moves
  PROVE  /\ MovedRow(q) \in Row /\ MovedRow(q).parent = q.parent /\ MovedRow(q).name = q.name
         /\ MovedRow(q).path = Append(q.base, q.name) /\ MovedRow(q).kind = q.row.kind
<1>1. Append(q.base, q.name) \in Seq(Names) /\ q.row \in Row /\ q.parent \in Parents /\ q.name \in Names
  BY DEF Moves
<1> QED
  BY <1>1 DEF MovedRow, Row, Parents

LEMMA RelocatedFacts ==
  ASSUME FileBase, NEW q \in Moves, NEW j \in NodeIds
  PROVE  /\ ~Relocates(q, j) => Relocated(q)[j] = node[j]
         /\ Relocates(q, j) =>
              /\ node[j] \in Row /\ Relocated(q)[j] \in Row
              /\ Relocated(q)[j].path = Replaced(node[j].path, q.row.path, Append(q.base, q.name))
              /\ Relocated(q)[j].kind = node[j].kind /\ Relocated(q)[j].parent = node[j].parent
              /\ Relocated(q)[j].name = node[j].name
<1>1. Append(q.base, q.name) \in Seq(Names) /\ q.row \in Row /\ q.row.path \in Seq(Names)
  BY DEF Moves, Row
<1>2. CASE ~Relocates(q, j)
  BY <1>2 DEF Relocated
<1>3. CASE Relocates(q, j)
  <2> DEFINE path == Replaced(node[j].path, q.row.path, Append(q.base, q.name))
  <2>1. node[j] \in Row
    BY <1>3, RowsAreRows DEF Relocates, FileBase
  <2>2. path \in Seq(Names)
    BY <1>1, <2>1, ReplacedType DEF Row
  <2>3. Relocated(q)[j] = [node[j] EXCEPT !.path = path]
    BY <1>3 DEF Relocated
  <2> HIDE DEF path
  <2>4. /\ Relocated(q)[j] \in Row /\ Relocated(q)[j].path = path
        /\ Relocated(q)[j].kind = node[j].kind /\ Relocated(q)[j].parent = node[j].parent
        /\ Relocated(q)[j].name = node[j].name
    BY <2>1, <2>2, <2>3 DEF Row
  <2> QED
    BY <1>3, <2>1, <2>4 DEF path
<1> QED
  BY <1>2, <1>3

LEMMA MovedTreeType ==
  ASSUME FileBase, NEW q \in Moves
  PROVE  MovedTree(q) \in Trees
<1>1. \A j \in NodeIds : Relocated(q)[j] \in Row \cup {Unused, Gone}
  <2> SUFFICES ASSUME NEW j \in NodeIds PROVE Relocated(q)[j] \in Row \cup {Unused, Gone}
    OBVIOUS
  <2>1. node[j] \in Row \cup {Unused, Gone}
    BY FileTypes, RowFacts DEF FileBase
  <2> QED
    BY <2>1, RelocatedFacts
<1>2. Relocated(q) \in Trees
  BY <1>1 DEF Relocated, Trees
<1> QED
  BY <1>2, MovedRowFacts, PutRow DEF MovedTree, Moves

LEMMA CommitMoveIs ==
  ASSUME FileBase, NEW r \in Slots, CommitMove(r)
  PROVE  /\ req[r] \in Moves /\ req' = [req EXCEPT ![r] = Idle]
         /\ \/ node' = node
            \/ node' = MovedTree(req[r]) /\ Consistent(node')
<1>1. req[r] \in Moves
  BY RequestOf, RequestByOp DEF CommitMove
<1>2. node' = Written(MovedTree(req[r])) /\ req' = [req EXCEPT ![r] = Idle]
  BY DEF CommitMove, Finish, MovedTree, MovedRow, Relocated, Relocates
<1> QED
  BY <1>1, <1>2, WrittenIs

(* The row that a star writes.                                              *)
SavedRow(q) ==
  [q.row EXCEPT !.starred = ~@, !.path = Append(PathIn(node, q.row.parent), q.row.name)]

LEMMA CommitStarIs ==
  ASSUME FileBase, NEW r \in Slots, CommitStar(r)
  PROVE  /\ req[r] \in OnRows /\ req' = [req EXCEPT ![r] = Idle]
         /\ \/ node' = node
            \/ /\ node' = [node EXCEPT ![req[r].id] = SavedRow(req[r])] /\ Consistent(node')
               /\ SavedRow(req[r]) \in Row /\ SavedRow(req[r]).kind = req[r].row.kind
               /\ SavedRow(req[r]).parent = req[r].row.parent
               /\ SavedRow(req[r]).name = req[r].row.name
               /\ SavedRow(req[r]).path = Append(PathIn(node, req[r].row.parent), req[r].row.name)
<1> DEFINE q == req[r]
           p == q.row.parent
<1>1. q \in OnRows
  BY RequestOf, RequestByOp DEF CommitStar
<1>2. q.row \in Row /\ q.row.name \in Names /\ q.row.starred \in BOOLEAN
  BY <1>1 DEF OnRows, Row
<1> HIDE DEF q
<1>3. req' = [req EXCEPT ![r] = Idle]
      /\ node' = IF p = Root \/ IsRow(node, p) THEN Written([node EXCEPT ![q.id] = SavedRow(q)]) ELSE node
  BY DEF CommitStar, Finish, SavedRow, q
<1>4. ASSUME p = Root \/ IsRow(node, p)
      PROVE  /\ SavedRow(q) \in Row /\ SavedRow(q).kind = q.row.kind /\ SavedRow(q).parent = p
             /\ SavedRow(q).name = q.row.name /\ SavedRow(q).path = Append(PathIn(node, p), q.row.name)
  <2> DEFINE path == Append(PathIn(node, p), q.row.name)
  <2>1. PathIn(node, p) \in Seq(Names)
    BY <1>4, PathInType, FileTypes DEF FileBase
  <2>2. path \in Seq(Names)
    BY <1>2, <2>1
  <2>3. SavedRow(q) = [q.row EXCEPT !.starred = ~@, !.path = path]
    BY DEF SavedRow
  <2> HIDE DEF path
  <2>4. SavedRow(q) \in Row /\ SavedRow(q).kind = q.row.kind /\ SavedRow(q).parent = q.row.parent
        /\ SavedRow(q).name = q.row.name /\ SavedRow(q).path = path
    BY <1>2, <2>2, <2>3 DEF Row
  <2> QED
    BY <2>4 DEF path
<1>5. CASE p = Root \/ IsRow(node, p)
  BY <1>1, <1>3, <1>4, <1>5, WrittenIs DEF q
<1>6. CASE ~(p = Root \/ IsRow(node, p))
  BY <1>1, <1>3, <1>6 DEF q
<1> QED
  BY <1>5, <1>6

(* Trash, restore and the AI switch only mark rows.                         *)
LEMMA RowMarks ==
  ASSUME NEW x \in Row, NEW t \in BOOLEAN, NEW d \in {Never} \cup 0..LastDay, NEW a \in BOOLEAN
  PROVE  /\ [x EXCEPT !.trashed = TRUE, !.ai = FALSE, !.deletedAt = d] \in Row
         /\ SamePlace([x EXCEPT !.trashed = TRUE, !.ai = FALSE, !.deletedAt = d], x)
         /\ [x EXCEPT !.ai = a] \in Row /\ SamePlace([x EXCEPT !.ai = a], x)
         /\ [x EXCEPT !.trashed = FALSE, !.deletedAt = Never] \in Row
         /\ SamePlace([x EXCEPT !.trashed = FALSE, !.deletedAt = Never], x)
         /\ [x EXCEPT !.trashed = FALSE, !.deletedAt = Never, !.ai = a] \in Row
         /\ SamePlace([x EXCEPT !.trashed = FALSE, !.deletedAt = Never, !.ai = a], x)
         /\ [x EXCEPT !.trashed = FALSE, !.ai = a, !.deletedAt = Never] \in Row
         /\ SamePlace([x EXCEPT !.trashed = FALSE, !.ai = a, !.deletedAt = Never], x)
BY DEF Row, SamePlace

LEMMA CommitMarksIs ==
  ASSUME FileBase, NEW r \in Slots, CommitTrash(r) \/ CommitSetAI(r) \/ CommitRestore(r)
  PROVE  /\ req' = [req EXCEPT ![r] = Idle] /\ Marked(node')
         /\ req[r] \in OnRows \cup SetAIs
<1> DEFINE q == req[r]
           S == Subtree(q.id, q.row)
<1>0. req' = [req EXCEPT ![r] = Idle]
  BY DEF CommitTrash, CommitSetAI, CommitRestore, Finish
<1>1. \A j \in S : j \in NodeIds /\ node[j] \in Row
  BY RowsAreRows DEF Subtree, Rows, FileBase
<1>2. node \in Trees /\ day \in {Never} \cup 0..LastDay
  BY FileTypes DEF FileBase
<1>q. q \in Requests
  BY RequestOf
<1> HIDE DEF S, q
<1>3. ASSUME NEW t, \E F : /\ t = [j \in NodeIds |-> IF j \in S THEN F[j] ELSE node[j]]
                           /\ \A j \in S : F[j] \in Row /\ SamePlace(F[j], node[j])
      PROVE  Marked(t)
  <2>1. PICK F : /\ t = [j \in NodeIds |-> IF j \in S THEN F[j] ELSE node[j]]
                 /\ \A j \in S : F[j] \in Row /\ SamePlace(F[j], node[j])
    BY <1>3
  <2>2. t \in Trees
    BY <1>1, <1>2, <2>1 DEF Trees
  <2> QED
    BY <1>1, <2>1, <2>2 DEF Marked
<1>4. CASE CommitTrash(r)
  <2> DEFINE F == [j \in S |-> [node[j] EXCEPT !.trashed = TRUE, !.ai = FALSE, !.deletedAt = day]]
  <2>1. \A j \in S : F[j] \in Row /\ SamePlace(F[j], node[j])
    BY <1>1, <1>2, RowMarks
  <2>2. node' = [j \in NodeIds |-> IF j \in S THEN F[j] ELSE node[j]]
    BY <1>4 DEF CommitTrash, S, q
  <2> HIDE DEF F
  <2>3. Marked(node')
    BY <1>3, <2>1, <2>2
  <2>4. q \in OnRows
    BY <1>4, <1>q, RequestByOp DEF CommitTrash, q
  <2> QED
    BY <1>0, <2>3, <2>4 DEF q
<1>5. CASE CommitSetAI(r)
  <2>0. q \in SetAIs /\ q.enabled \in BOOLEAN
    BY <1>5, <1>q, RequestByOp DEF CommitSetAI, q, SetAIs
  <2> DEFINE F == [j \in S |-> [node[j] EXCEPT !.ai = q.enabled]]
  <2>1. \A j \in S : F[j] \in Row /\ SamePlace(F[j], node[j])
    BY <1>1, <1>2, <2>0, RowMarks
  <2>2. node' = [j \in NodeIds |-> IF j \in S THEN F[j] ELSE node[j]]
    BY <1>5 DEF CommitSetAI, S, q
  <2> HIDE DEF F
  <2>3. Marked(node')
    BY <1>3, <2>1, <2>2
  <2> QED
    BY <1>0, <2>0, <2>3 DEF q
<1>6. CASE CommitRestore(r)
  <2> DEFINE F == [j \in S |-> [node[j] EXCEPT !.trashed = FALSE, !.deletedAt = Never]]
  <2>1. \A j \in S : F[j] \in Row /\ SamePlace(F[j], node[j])
    BY <1>1, <1>2, RowMarks
  <2>2. node' = [j \in NodeIds |-> IF j \in S THEN F[j] ELSE node[j]]
    BY <1>6 DEF CommitRestore, S, q
  <2> HIDE DEF F
  <2>3. Marked(node')
    BY <1>3, <2>1, <2>2
  <2>4. q \in OnRows
    BY <1>6, <1>q, RequestByOp DEF CommitRestore, q
  <2> QED
    BY <1>0, <2>3, <2>4 DEF q
<1> QED
  BY <1>4, <1>5, <1>6

LEMMA NoRowWritten ==
  ASSUME FileBase, NEW r \in Slots, RestoreExpired(r) \/ Crash(r)
  PROVE  /\ node' = node /\ \E q \in {Idle} \cup Purges : req' = [req EXCEPT ![r] = q]
         /\ req[r] # Idle
<1>1. CASE Crash(r)
  BY <1>1 DEF Crash, Finish
<1>2. CASE RestoreExpired(r)
  <2>1. req[r] \in OnRows
    BY <1>2, RequestOf, RequestByOp DEF RestoreExpired
  <2>2. Purge(req[r].user, Subtree(req[r].id, req[r].row)) \in Purges
    BY <2>1 DEF Purge, Purges, Subtree, Rows, OnRows
  <2>3. req[r] # Idle
    BY <1>2 DEF RestoreExpired, Idle
  <2>4. node' = node /\ req' = [req EXCEPT ![r] = Purge(req[r].user, Subtree(req[r].id, req[r].row))]
    BY <1>2 DEF RestoreExpired
  <2> QED
    BY <2>2, <2>3, <2>4
<1> QED
  BY <1>1, <1>2

(* What a saved file does to the row, the blob and the counter.             *)
Saves(q, row) ==
  /\ Inserted1(row) /\ row.kind = "file" /\ row.parent = q.parent
  /\ row.path = Append(q.base, row.name)
  /\ blob' = [blob EXCEPT ![NextKey] = [size |-> q.size, file |-> files + 1]]
  /\ used' = used + q.size

LEMMA SaveFileIs ==
  ASSUME FileBase, NEW q \in Uploads \cup Syncs, SaveFile(q)
  PROVE  /\ files' = files + 1 /\ disk' = disk \cup {files + 1}
         /\ \/ UNCHANGED <<node, blob, used>>
            \/ \E row : Saves(q, row)
<1>1. q.user \in Users /\ q.parent \in Parents /\ q.base \in Seq(Names) /\ q.name \in Names
      /\ q.ai \in BOOLEAN /\ q.size \in Sizes
  BY DEF Uploads, Syncs
<1> DEFINE tried == Candidates[q.name]
           fits == {k \in 1..Len(tried) : Consistent(Inserted(q, tried[k]))}
           row == NewRow("file", q.user, q.parent, q.base, tried[Min(fits)], q.ai)
<1>2. tried \in Seq(Names)
  BY <1>1, FilesAssumption
<1>3. CASE fits = {}
  BY <1>3 DEF SaveFile
<1>4. CASE fits # {}
  <2>1. fits \in SUBSET Nat /\ fits # {}
    BY <1>4
  <2>2. Min(fits) \in fits
    BY <2>1, MinIn
  <2>3. Min(fits) \in 1..Len(tried) /\ Consistent(Inserted(q, tried[Min(fits)]))
    BY <2>2
  <2>4. tried[Min(fits)] \in Names
    <3>1. \A names \in Seq(Names) : \A k \in 1..Len(names) : names[k] \in Names
      OBVIOUS
    <3> HIDE DEF tried, fits
    <3> QED
      BY <1>2, <2>3, <3>1
  <2>5. /\ HasKey /\ node' = Inserted(q, tried[Min(fits)])
        /\ blob' = [blob EXCEPT ![NextKey] = [size |-> q.size, file |-> files + 1]]
        /\ used' = used + q.size /\ files' = files + 1 /\ disk' = disk \cup {files + 1}
    BY <1>4 DEF SaveFile
  <2> DEFINE n == tried[Min(fits)]
  <2> HIDE DEF n
  <2>6. node' = [node EXCEPT ![NextKey] = NewRow("file", q.user, q.parent, q.base, n, q.ai)]
    BY <2>5 DEF Inserted, n
  <2>7. NewRow("file", q.user, q.parent, q.base, n, q.ai) \in Row
        /\ NewRow("file", q.user, q.parent, q.base, n, q.ai).kind = "file"
        /\ NewRow("file", q.user, q.parent, q.base, n, q.ai).parent = q.parent
        /\ NewRow("file", q.user, q.parent, q.base, n, q.ai).name = n
        /\ NewRow("file", q.user, q.parent, q.base, n, q.ai).path = Append(q.base, n)
    <3>1. n \in Names /\ Append(q.base, n) \in Seq(Names)
      BY <1>1, <2>4 DEF n
    <3> QED
      BY <1>1, <3>1 DEF NewRow, Row, Parents, Never
  <2>8. Consistent(node')
    BY <2>3, <2>5
  <2> HIDE DEF fits
  <2>9. Saves(q, NewRow("file", q.user, q.parent, q.base, n, q.ai))
    BY <2>5, <2>6, <2>7, <2>8 DEF Saves, Inserted1
  <2> QED
    BY <2>5, <2>9
<1> QED
  BY <1>3, <1>4

LEMMA StoredTypes ==
  ASSUME FileBase, NEW q, q.size \in Sizes,
         files' = files + 1, disk' = disk \cup {files + 1}, UNCHANGED <<members, syncUsed>>,
         \/ UNCHANGED <<blob, used>>
         \/ /\ \E i \in NodeIds : blob' = [blob EXCEPT ![i] = [size |-> q.size, file |-> files + 1]]
            /\ used' \in Int
  PROVE  StoreTyped'
<1> DEFINE new == [size |-> q.size, file |-> files + 1]
<1>0. StoreTyped
  BY FileTypes DEF FileBase
<1>1. files' \in Nat /\ disk' \subseteq 1..files' /\ files + 1 \in Nat \ {0}
  BY <1>0 DEF StoreTyped
<1>2. new \in Blobs /\ new.file = files'
  BY <1>1, SizeFacts
<1>3. blob' = blob \/ \E i \in NodeIds : blob' = [blob EXCEPT ![i] = new]
  OBVIOUS
<1> HIDE DEF new
<1>4. blob' \in [NodeIds -> Blobs]
  BY <1>0, <1>2, <1>3 DEF StoreTyped
<1>5. \A j \in NodeIds : HasBlob(j)' => blob'[j].file <= files'
  <2> SUFFICES ASSUME NEW j \in NodeIds, blob'[j] # NoBlob PROVE blob'[j].file <= files'
    BY DEF HasBlob
  <2>1. CASE blob'[j] = blob[j]
    <3>1. blob[j].file <= files /\ blob[j].file \in Nat /\ files \in Nat
      BY <1>0, <2>1, SizeFacts DEF StoreTyped, HasBlob
    <3> QED
      BY <2>1, <3>1
  <2>2. CASE blob'[j] # blob[j]
    <3>1. blob'[j] = new
      BY <1>0, <1>3, <2>2 DEF StoreTyped
    <3> QED
      BY <1>1, <1>2, <3>1
  <2> QED
    BY <2>1, <2>2
<1>6. used' \in Int
  BY <1>0 DEF StoreTyped
<1> QED
  BY <1>0, <1>1, <1>4, <1>5, <1>6 DEF StoreTyped

(* The transaction of a replacement: the old blob is gone or is deleted.    *)
Replaces(q) ==
  /\ q.id \in NodeIds /\ IsRow(node, q.id) /\ (blob[q.id] = q.old \/ blob[q.id] = NoBlob)
  /\ Marked(node')
  /\ blob' = [blob EXCEPT ![q.id] = [size |-> q.size, file |-> files + 1]]
  /\ used' = used - q.old.size + q.size

LEMMA ReplacementIs ==
  ASSUME FileBase, NEW q \in Syncs, Replacement(q)
  PROVE  /\ files' = files + 1 /\ disk' = disk \cup {files + 1}
         /\ UNCHANGED <<node, blob, used>> \/ Replaces(q)
<1> DEFINE ok == IsRow(node, q.id) /\ (IF blob[q.id] = q.old THEN NoBlob ELSE blob[q.id]) = NoBlob
<1>1. CASE ~ok
  BY <1>1 DEF Replacement
<1>2. CASE ok
  <2>1. q.id \in NodeIds /\ node[q.id] \in Row /\ q.ai \in BOOLEAN
    BY <1>2, RowsAreRows DEF FileBase, Syncs
  <2>2. /\ files' = files + 1 /\ disk' = disk \cup {files + 1}
        /\ node' = [node EXCEPT ![q.id].trashed = FALSE, ![q.id].deletedAt = Never, ![q.id].ai = q.ai]
        /\ blob' = [blob EXCEPT ![q.id] = [size |-> q.size, file |-> files + 1]]
        /\ used' = used - q.old.size + q.size
    BY <1>2 DEF Replacement
  <2>3. node \in Trees
    BY FileTypes DEF FileBase
  <2> DEFINE x == [node[q.id] EXCEPT !.trashed = FALSE, !.deletedAt = Never, !.ai = q.ai]
  <2>4. x \in Row /\ SamePlace(x, node[q.id])
    BY <2>1, RowMarks
  <2>5. node' = [node EXCEPT ![q.id] = x]
    BY <2>1, <2>2, <2>3 DEF Trees
  <2> HIDE DEF x
  <2>6. Marked(node')
    BY <2>1, <2>3, <2>4, <2>5 DEF Marked, Trees
  <2> QED
    BY <1>2, <2>1, <2>2, <2>6 DEF Replaces
<1> QED
  BY <1>1, <1>2

(* What a transaction of a permanent deletion does.                         *)
Erased(q) ==
  /\ node' = [i \in NodeIds |-> IF i \in q.nodes /\ IsRow(node, i) THEN Gone ELSE node[i]]
  /\ blob' = [i \in NodeIds |-> IF q.blobs[i] = blob[i] THEN NoBlob ELSE blob[i]]
  /\ used' = used - Total([i \in NodeIds |-> q.blobs[i].size])
  /\ \A i \in NodeIds : q.blobs[i] # NoBlob => IsRow(node, i)
  /\ \A i \in q.nodes : blob'[i] = NoBlob
  /\ Consistent(node')

LEMMA PurgeRowsIs ==
  ASSUME FileBase, NEW r \in Slots, PurgeRows(r)
  PROVE  /\ req[r] \in Deletes /\ req' = [req EXCEPT ![r] = Idle]
         /\ UNCHANGED <<node, blob, used>> \/ Erased(req[r])
<1>1. req[r] \in Deletes
  BY RequestOf, RequestByOp DEF PurgeRows
<1> QED
  BY <1>1 DEF PurgeRows, Finish, Erased

LEMMA SizesSum ==
  ASSUME NEW f \in [NodeIds -> Blobs]
  PROVE  Total([i \in NodeIds |-> f[i].size]) \in Int
<1> DEFINE g == [i \in NodeIds |-> f[i].size]
<1>1. DOMAIN g = NodeIds /\ \A i \in NodeIds : g[i] \in Int
  BY SizeFacts
<1> HIDE DEF g
<1>2. Sum(g, NodeIds) \in Int
  BY <1>1, RootIsNoKey, SumType
<1> QED
  BY <1>1, <1>2, TotalIs DEF g

LEMMA ErasedTypes ==
  ASSUME FileBase, NEW q \in Deletes, Erased(q), UNCHANGED <<members, disk, files, syncUsed>>
  PROVE  node' \in Trees /\ StoreTyped'
<1>0. StoreTyped /\ node \in Trees
  BY FileTypes DEF FileBase
<1>1. node' \in Trees
  BY <1>0 DEF Erased, Trees
<1>2. blob' \in [NodeIds -> Blobs]
  BY <1>0, SizeFacts DEF Erased, StoreTyped
<1>3. used' \in Int
  <2>1. Total([i \in NodeIds |-> q.blobs[i].size]) \in Int
    BY SizesSum DEF Deletes
  <2> QED
    BY <1>0, <2>1 DEF Erased, StoreTyped
<1>4. \A i \in NodeIds : HasBlob(i)' => blob'[i].file <= files'
  BY <1>0 DEF Erased, HasBlob, StoreTyped
<1> QED
  BY <1>0, <1>1, <1>2, <1>3, <1>4 DEF StoreTyped

LEMMA PurgeFilesIs ==
  ASSUME FileBase, NEW r \in Slots, PurgeFiles(r)
  PROVE  \E q \in Deletes :
           /\ req' = [req EXCEPT ![r] = q] /\ req[r] \in Purges
           /\ \A i \in NodeIds : q.blobs[i] = blob[i] \/ q.blobs[i] = NoBlob
           /\ \A i \in NodeIds : q.blobs[i] # NoBlob => i \in q.nodes /\ IsRow(node, i)
<1> DEFINE nodes == Below(req[r].ids)
           q == [op |-> "delete", user |-> req[r].user, ids |-> req[r].ids, nodes |-> nodes,
                 blobs |-> [i \in NodeIds |-> IF i \in nodes THEN blob[i] ELSE NoBlob]]
<1>1. req[r] \in Purges
  BY RequestOf, RequestByOp DEF PurgeFiles
<1>2. \A i \in nodes : i \in NodeIds /\ IsRow(node, i)
  BY DEF Below, Rows
<1>3. req' = [req EXCEPT ![r] = q]
  BY DEF PurgeFiles
<1> HIDE DEF nodes
<1>4. [i \in NodeIds |-> IF i \in nodes THEN blob[i] ELSE NoBlob] \in [NodeIds -> Blobs]
  BY FileTypes, SizeFacts DEF FileBase, StoreTyped
<1>5. q \in Deletes
  BY <1>1, <1>2, <1>4 DEF Purges, Deletes
<1>6. \A i \in NodeIds : q.blobs[i] = IF i \in nodes THEN blob[i] ELSE NoBlob
  OBVIOUS
<1>7. q.nodes = nodes
  OBVIOUS
<1> HIDE DEF q
<1> QED
  BY <1>1, <1>2, <1>3, <1>5, <1>6, <1>7

-----------------------------------------------------------------------------
(* The walk of a synchronisation and what it reads.                         *)

LEMMA WalkToIs ==
  ASSUME NEW r \in Slots, req[r] \in Walks, req[r].dirs # <<>>, NEW i \in NodeIds,
         NEW path \in Seq(Names), WalkTo(r, i, path)
  PROVE  \E w \in {Idle} \cup Walks : /\ req' = [req EXCEPT ![r] = w]
                                      /\ w # Idle => w.parent = i
<1> DEFINE q == req[r]
           w == [q EXCEPT !.parent = i, !.base = path, !.dirs = Tail(q.dirs)]
<1>1. q.dirs \in Seq(Names) /\ q.dirs # <<>>
  BY DEF Walks
<1>2. Tail(q.dirs) \in Seq(Names)
  BY <1>1
<1>3. Tail(q.dirs) # <<>> \/ q.file # NoFile => w \in Walks /\ w.parent = i
  BY <1>2 DEF Walks, Parents
<1>4. req' = [req EXCEPT ![r] = IF Tail(q.dirs) = <<>> /\ q.file = NoFile THEN Idle ELSE w]
  BY DEF WalkTo
<1> HIDE DEF w
<1> QED
  BY <1>3, <1>4

LEMMA WalkIntoIs ==
  ASSUME FileBase, NEW r \in Slots, WalkInto(r)
  PROVE  /\ req[r] \in Walks /\ Marked(node')
         /\ \E i \in NodeIds, w \in {Idle} \cup Walks :
              /\ IsFolder(i) /\ req' = [req EXCEPT ![r] = w] /\ (w # Idle => w.parent = i)
<1>1. req[r] \in Walks /\ req[r].dirs # <<>>
  BY RequestOf, RequestByOp DEF WalkInto, Walking
<1>2. PICK i \in WalkFound(req[r]) :
        /\ node' = IF node[i].trashed
                   THEN [node EXCEPT ![i].trashed = FALSE, ![i].ai = TRUE, ![i].deletedAt = Never]
                   ELSE node
        /\ WalkTo(r, i, node[i].path)
  BY DEF WalkInto
<1>3. i \in NodeIds /\ IsFolder(i) /\ node[i] \in Row
  BY <1>2, RowsAreRows DEF WalkFound, FoldersNamed, Rows, IsFolder, FileBase
<1>4. node[i].path \in Seq(Names)
  BY <1>3 DEF Row
<1>5. \E w \in {Idle} \cup Walks : req' = [req EXCEPT ![r] = w] /\ (w # Idle => w.parent = i)
  BY <1>1, <1>2, <1>3, <1>4, WalkToIs
<1>6. node \in Trees
  BY FileTypes DEF FileBase
<1> DEFINE x == [node[i] EXCEPT !.trashed = FALSE, !.ai = TRUE, !.deletedAt = Never]
<1>7. x \in Row /\ SamePlace(x, node[i])
  BY <1>3 DEF Row, SamePlace
<1>8. node' = node \/ node' = [node EXCEPT ![i] = x]
  BY <1>2, <1>3, <1>6 DEF Trees
<1> HIDE DEF x
<1>9. Marked(node')
  BY <1>3, <1>6, <1>7, <1>8 DEF Marked, Trees
<1> QED
  BY <1>1, <1>3, <1>5, <1>9

LEMMA WalkCreateIs ==
  ASSUME FileBase, NEW r \in Slots, WalkCreate(r)
  PROVE  /\ req[r] \in Walks
         /\ \E row : /\ Inserted1(row) /\ row.kind = "folder" /\ row.parent = req[r].parent
                     /\ row.path = Append(req[r].base, row.name)
         /\ \E w \in {Idle} \cup Walks : /\ req' = [req EXCEPT ![r] = w]
                                         /\ w # Idle => w.parent = NextKey
<1> DEFINE q == req[r]
           n == Head(q.dirs)
           row == NewRow("folder", q.user, q.parent, q.base, n, TRUE)
<1>1. q \in Walks /\ q.dirs # <<>>
  BY RequestOf, RequestByOp DEF WalkCreate, Walking
<1>2. q.user \in Users /\ q.parent \in Parents /\ q.base \in Seq(Names) /\ q.dirs \in Seq(Names)
  BY <1>1 DEF Walks
<1>3. n \in Names
  BY <1>1, <1>2
<1>4. HasKey /\ node' = [node EXCEPT ![NextKey] = row] /\ Consistent(node')
      /\ WalkTo(r, NextKey, Append(q.base, n))
  BY DEF WalkCreate
<1> HIDE DEF q, n
<1>5. Append(q.base, n) \in Seq(Names)
  BY <1>2, <1>3
<1>6. row \in Row /\ row.kind = "folder" /\ row.parent = q.parent /\ row.name = n
      /\ row.path = Append(q.base, n)
  BY <1>2, <1>3, <1>5 DEF NewRow, Row, Parents, Never
<1> HIDE DEF row
<1>7. Inserted1(row)
  BY <1>4, <1>6 DEF Inserted1
<1>8. \E w \in {Idle} \cup Walks : req' = [req EXCEPT ![r] = w] /\ (w # Idle => w.parent = NextKey)
  BY <1>1, <1>4, <1>5, KeyFacts, WalkToIs DEF q
<1> QED
  BY <1>1, <1>6, <1>7, <1>8 DEF q

LEMMA WalkFailsIs ==
  ASSUME FileBase, NEW r \in Slots, WalkFails(r)
  PROVE  req[r] \in Walks /\ req' = [req EXCEPT ![r] = Idle]
BY RequestOf, RequestByOp DEF WalkFails, Walking, Finish

(* A file to synchronise: the row it found, and the growth it was allowed.  *)
Allowed(q) ==
  /\ q.id = Root => q.old = NoBlob
  /\ q.size > q.old.size => q.read + (q.size - q.old.size) <= SyncTotal

FileNamed(q) ==
  {i \in Rows(node) : node[i].kind = "file" /\ node[i].parent = q.parent /\ node[i].name = q.file.name}

LEMMA ReadFileIs ==
  ASSUME FileBase, NEW r \in Slots, ReadFile(r)
  PROVE  /\ req[r] \in Walks
         /\ \E w \in {Idle} \cup Syncs :
              /\ req' = [req EXCEPT ![r] = w]
              /\ w # Idle => /\ Allowed(w) /\ w.parent = req[r].parent
                             /\ w.id = Root \/ (IsRow(node, w.id) /\ node[w.id].kind = "file")
<1> DEFINE q == req[r]
           found == FileNamed(q)
           id == IF found = {} THEN Root ELSE Min(found)
           old == IF found = {} THEN NoBlob ELSE blob[id]
           growth == IF q.file.size > old.size THEN q.file.size - old.size ELSE 0
           w == [op |-> "sync", user |-> q.user, parent |-> q.parent, base |-> q.base,
                 name |-> q.file.name, size |-> q.file.size, ai |-> q.file.ai,
                 id |-> id, old |-> old, read |-> syncUsed]
<1>1. q \in Walks
  BY RequestOf, RequestByOp DEF ReadFile
<1>2. req' = [req EXCEPT ![r] = IF syncUsed + growth <= SyncTotal THEN w ELSE Idle]
  BY DEF ReadFile, FileNamed
<1>3. found \in SUBSET NodeIds
  BY DEF FileNamed, Rows
<1>4. CASE syncUsed + growth <= SyncTotal /\ q.file \in Uploaded
  <2>1. found # {} => id \in found
    <3>1. found \in SUBSET Nat
      BY <1>3, RootIsNoKey
    <3> HIDE DEF found
    <3> QED
      BY <3>1, MinIn
  <2>2. id = Root \/ (id \in NodeIds /\ IsRow(node, id) /\ node[id].kind = "file")
    BY <2>1 DEF FileNamed, Rows
  <2>3. old \in Blobs /\ (id = Root => old = NoBlob)
    BY <2>1, <1>3, SizeFacts, FileTypes, RootIsNoKey DEF FileBase, StoreTyped
  <2>4. q.file.name \in Names /\ q.file.size \in Sizes /\ q.file.ai \in BOOLEAN
    BY <1>4 DEF Uploaded
  <2>5. syncUsed \in Int
    BY FileTypes DEF FileBase, StoreTyped
  <2>6. req' = [req EXCEPT ![r] = w]
    BY <1>2, <1>4
  <2>7. q.user \in Users /\ q.parent \in Parents /\ q.base \in Seq(Names)
    BY <1>1 DEF Walks
  <2>8. growth = IF q.file.size > old.size THEN q.file.size - old.size ELSE 0
    OBVIOUS
  <2> HIDE DEF q, id, old, growth
  <2>9. w \in Syncs
    BY <2>2, <2>3, <2>4, <2>5, <2>7 DEF Syncs, Parents
  <2>10. w.id = id /\ w.old = old /\ w.size = q.file.size /\ w.read = syncUsed /\ w.parent = q.parent
    OBVIOUS
  <2> HIDE DEF w
  <2>11. Allowed(w)
    BY <1>4, <2>3, <2>8, <2>10 DEF Allowed
  <2> QED
    BY <1>1, <2>2, <2>6, <2>9, <2>10, <2>11 DEF q
<1>5. CASE ~(syncUsed + growth <= SyncTotal)
  BY <1>1, <1>2, <1>5
<1>6. q.file \in Uploaded
  BY <1>1 DEF ReadFile, Walks
<1> QED
  BY <1>4, <1>5, <1>6

LEMMA CommitSyncIs ==
  ASSUME FileBase, NEW r \in Slots, CommitSync(r)
  PROVE  /\ req[r] \in Syncs /\ files' = files + 1 /\ disk' = disk \cup {files + 1}
         /\ \/ UNCHANGED <<node, blob, used>>
            \/ req[r].id = Root /\ \E row : Saves(req[r], row)
            \/ req[r].id # Root /\ Replaces(req[r])
         /\ \E w \in {Idle} \cup FileCounts :
              /\ req' = [req EXCEPT ![r] = w]
              /\ w # Idle => w.delta = req[r].size - req[r].old.size /\ w.read = req[r].read
<1> DEFINE q == req[r]
           w == [op |-> "count", delta |-> q.size - q.old.size, read |-> q.read]
<1>1. q \in Syncs
  BY RequestOf, RequestByOp DEF CommitSync
<1>2. q.size \in Nat /\ q.old.size \in Nat /\ q.read \in Int
  BY <1>1, SizeFacts DEF Syncs
<1>3. w \in FileCounts /\ w.delta = q.size - q.old.size /\ w.read = q.read
  BY <1>2 DEF FileCounts
<1>4. req' = [req EXCEPT ![r] = Idle] \/ req' = [req EXCEPT ![r] = w]
  BY DEF CommitSync
<1>5. IF q.id = Root THEN SaveFile(q) ELSE Replacement(q)
  BY DEF CommitSync
<1> HIDE DEF w, q
<1>6. /\ files' = files + 1 /\ disk' = disk \cup {files + 1}
      /\ \/ UNCHANGED <<node, blob, used>>
         \/ q.id = Root /\ \E row : Saves(q, row)
         \/ q.id # Root /\ Replaces(q)
  BY <1>1, <1>5, SaveFileIs, ReplacementIs
<1>7. \E x \in {Idle} \cup FileCounts :
        req' = [req EXCEPT ![r] = x] /\ (x # Idle => x.delta = q.size - q.old.size /\ x.read = q.read)
  BY <1>3, <1>4
<1> QED
  BY <1>1, <1>6, <1>7 DEF q

-----------------------------------------------------------------------------
(* The types are kept.                                                      *)

LEMMA StepBase ==
  ASSUME FileBase, NEW r \in Slots, NEW w \in Requests, req' = [req EXCEPT ![r] = w],
         node' \in Trees, Consistent(node'), StoreTyped', UNCHANGED <<day, started>>
  PROVE  FileBase'
<1>1. FilesTypeOK'
  BY StepTypes DEF FileBase
<1>2. Consistent(node)'
  BY ConsistentIs DEF IsRow, Consistent, Rows
<1> QED
  BY <1>1, <1>2 DEF FileBase

LEMMA TreeSame ==
  ASSUME FileBase, node' = node
  PROVE  node' \in Trees /\ Consistent(node')
BY FileTypes DEF FileBase

LEMMA MarkedBase ==
  ASSUME FileBase, Marked(node')
  PROVE  node' \in Trees /\ Consistent(node')
BY MarkedRows DEF Marked

LEMMA InsertedBase ==
  ASSUME FileBase, NEW row, Inserted1(row)
  PROVE  node' \in Trees /\ Consistent(node') /\ NextKey \in NodeIds /\ node[NextKey] = Unused
BY FileTypes, KeyFacts, PutRow DEF Inserted1, FileBase

LEMMA StoreSame ==
  ASSUME FileBase, UNCHANGED storeVars
  PROVE  StoreTyped'
BY StoreUnchanged DEF FileBase

LEMMA TreeCommitBase ==
  ASSUME FileBase, NEW r \in Slots, TreeCommit(r), UNCHANGED storeVars
  PROVE  FileBase'
<1>0. StoreTyped' /\ UNCHANGED <<day, started>> /\ Idle \in Requests /\ Purges \subseteq Requests
  BY StoreSame, RequestsAre
  DEF TreeCommit, CommitCreate, CommitMove, CommitStar, CommitTrash, CommitSetAI, CommitRestore,
      RestoreExpired, Crash
<1>1. CASE CommitCreate(r)
  BY <1>0, <1>1, CommitCreateIs, TreeSame, InsertedBase, StepBase
<1>2. CASE CommitMove(r)
  BY <1>0, <1>2, CommitMoveIs, TreeSame, MovedTreeType, StepBase
<1>3. CASE CommitStar(r)
  <2>1. node' \in Trees /\ Consistent(node')
    BY <1>3, CommitStarIs, TreeSame, PutRow, FileTypes DEF FileBase, OnRows
  <2> QED
    BY <1>0, <1>3, <2>1, CommitStarIs, StepBase
<1>4. CASE CommitTrash(r) \/ CommitSetAI(r) \/ CommitRestore(r)
  BY <1>0, <1>4, CommitMarksIs, MarkedBase, StepBase
<1>5. CASE RestoreExpired(r) \/ Crash(r)
  BY <1>0, <1>5, NoRowWritten, TreeSame, StepBase
<1> QED
  BY <1>1, <1>2, <1>3, <1>4, <1>5 DEF TreeCommit

(* A file that is saved or replaced.                                        *)
LEMMA SavedBase ==
  ASSUME FileBase, NEW q \in Uploads \cup Syncs,
         files' = files + 1, disk' = disk \cup {files + 1}, UNCHANGED <<members, syncUsed>>,
         UNCHANGED <<node, blob, used>> \/ (\E row : Saves(q, row)) \/ (q \in Syncs /\ Replaces(q))
  PROVE  node' \in Trees /\ Consistent(node') /\ StoreTyped'
<1>1. q.size \in Sizes /\ q.size \in Nat /\ (q \in Syncs => q.old.size \in Nat) /\ used \in Int
  BY SizeFacts, FileTypes DEF Uploads, Syncs, FileBase, StoreTyped
<1>2. CASE UNCHANGED <<node, blob, used>>
  BY <1>1, <1>2, TreeSame, StoredTypes
<1>3. CASE \E row : Saves(q, row)
  <2>1. PICK row : Saves(q, row)
    BY <1>3
  <2>2. Inserted1(row) /\ used' = used + q.size
        /\ blob' = [blob EXCEPT ![NextKey] = [size |-> q.size, file |-> files + 1]]
    BY <2>1 DEF Saves
  <2>3. node' \in Trees /\ Consistent(node') /\ NextKey \in NodeIds
    BY <2>2, InsertedBase
  <2>4. used' \in Int
    BY <1>1, <2>2
  <2>5. StoreTyped'
    BY <1>1, <2>2, <2>3, <2>4, StoredTypes
  <2> QED
    BY <2>3, <2>5
<1>4. CASE q \in Syncs /\ Replaces(q)
  <2>1. /\ Marked(node') /\ used' = used - q.old.size + q.size /\ q.id \in NodeIds
        /\ blob' = [blob EXCEPT ![q.id] = [size |-> q.size, file |-> files + 1]]
    BY <1>4 DEF Replaces
  <2>2. used' \in Int
    BY <1>1, <1>4, <2>1
  <2>3. StoreTyped'
    BY <1>1, <2>1, <2>2, StoredTypes
  <2> QED
    BY <2>1, <2>3, MarkedBase
<1> QED
  BY <1>2, <1>3, <1>4

LEMMA StoreStepBase ==
  ASSUME FileBase, NEW r \in Slots,
         \/ CommitUpload(r) \/ PurgeFiles(r) \/ PurgeRows(r) \/ WalkInto(r) \/ WalkCreate(r)
         \/ WalkFails(r) \/ ReadFile(r) \/ CommitSync(r) \/ CountSync(r)
  PROVE  FileBase'
<1>0. /\ UNCHANGED <<day, started>> /\ Idle \in Requests /\ Walks \subseteq Requests
      /\ Syncs \subseteq Requests /\ Deletes \subseteq Requests /\ FileCounts \subseteq Requests
  BY RequestsAre
  DEF CommitUpload, PurgeFiles, PurgeRows, WalkInto, WalkCreate, WalkFails, ReadFile, CommitSync,
      CountSync
<1>1. CASE CommitUpload(r)
  <2>1. req[r] \in Uploads
    BY <1>1, RequestOf, RequestByOp DEF CommitUpload
  <2>2. SaveFile(req[r]) /\ UNCHANGED <<members, syncUsed>> /\ req' = [req EXCEPT ![r] = Idle]
    BY <1>1 DEF CommitUpload, Finish
  <2> QED
    BY <1>0, <2>1, <2>2, SaveFileIs, SavedBase, StepBase
<1>2. CASE PurgeFiles(r)
  <2>1. StoreTyped'
    BY <1>2, FileTypes DEF FileBase, StoreTyped, PurgeFiles, HasBlob
  <2>2. node' = node
    BY <1>2 DEF PurgeFiles
  <2> QED
    BY <1>0, <1>2, <2>1, <2>2, PurgeFilesIs, TreeSame, StepBase
<1>3. CASE PurgeRows(r)
  <2>1. UNCHANGED <<members, disk, files, syncUsed>>
    BY <1>3 DEF PurgeRows
  <2>2. CASE UNCHANGED <<node, blob, used>>
    <3>1. StoreTyped'
      BY <2>1, <2>2, FileTypes DEF FileBase, StoreTyped, HasBlob
    <3> QED
      BY <1>0, <1>3, <2>2, <3>1, PurgeRowsIs, TreeSame, StepBase
  <2>3. CASE Erased(req[r])
    <3>1. Consistent(node')
      BY <2>3 DEF Erased
    <3> QED
      BY <1>0, <1>3, <2>1, <2>3, <3>1, PurgeRowsIs, ErasedTypes, StepBase
  <2> QED
    BY <1>3, <2>2, <2>3, PurgeRowsIs
<1>4. CASE WalkInto(r)
  <2>1. StoreTyped'
    BY <1>4, StoreSame DEF WalkInto
  <2> QED
    BY <1>0, <1>4, <2>1, WalkIntoIs, MarkedBase, StepBase
<1>5. CASE WalkCreate(r)
  <2>1. StoreTyped'
    BY <1>5, StoreSame DEF WalkCreate
  <2> QED
    BY <1>0, <1>5, <2>1, WalkCreateIs, InsertedBase, StepBase
<1>6. CASE WalkFails(r)
  <2>1. StoreTyped' /\ node' = node
    BY <1>6, StoreSame DEF WalkFails
  <2> QED
    BY <1>0, <1>6, <2>1, WalkFailsIs, TreeSame, StepBase
<1>7. CASE ReadFile(r)
  <2>1. StoreTyped' /\ node' = node
    BY <1>7, StoreSame DEF ReadFile
  <2> QED
    BY <1>0, <1>7, <2>1, ReadFileIs, TreeSame, StepBase
<1>8. CASE CommitSync(r)
  <2>1. UNCHANGED <<members, syncUsed>>
    BY <1>8 DEF CommitSync
  <2> QED
    BY <1>0, <1>8, <2>1, CommitSyncIs, SavedBase, StepBase
<1>9. CASE CountSync(r)
  <2>1. req[r] \in FileCounts /\ req[r].delta \in Int
    BY <1>9, RequestOf, RequestByOp DEF CountSync, FileCounts
  <2>2. StoreTyped'
    BY <1>9, <2>1, FileTypes DEF FileBase, StoreTyped, CountSync, HasBlob
  <2>3. node' = node /\ req' = [req EXCEPT ![r] = Idle]
    BY <1>9 DEF CountSync, Finish
  <2> QED
    BY <1>0, <2>2, <2>3, TreeSame, StepBase
<1> QED
  BY <1>1, <1>2, <1>3, <1>4, <1>5, <1>6, <1>7, <1>8, <1>9

LEMMA BaseNext ==
  ASSUME FileBase, FileNext
  PROVE  FileBase'
<1>1. CASE \E r \in Slots : FreeSlot(r) /\ \E u \in members : FileStart(r, u)
  <2>1. PICK r \in Slots, u \in members : FileStart(r, u)
    BY <1>1
  <2>2. PICK q \in Requests : Begin(r, q) /\ UNCHANGED storeVars
    BY <2>1, StartIs
  <2>3. FilesTypeOK'
    BY <2>2, BeginTypes DEF FileBase
  <2>4. node' = node
    BY <2>2 DEF Begin
  <2> QED
    BY <2>3, <2>4 DEF FileBase, Consistent, Rows, IsRow
<1>2. CASE \E r \in Slots : FileStep(r)
  BY <1>2, TreeCommitBase, StoreStepBase DEF FileStep
<1>3. CASE PassDay /\ UNCHANGED storeVars
  <2>1. day' \in 0..LastDay
    BY <1>3, FileTypes, GivenAssumption DEF PassDay, FileBase
  <2>2. StoreTyped' /\ node' = node /\ req' = req /\ started' = started
    BY <1>3, StoreSame DEF PassDay
  <2>3. FilesTypeOK'
    BY <2>1, <2>2, FileTypes DEF FileBase, FilesTypeOK, TreeTypeOK, StoreTyped, Requests
  <2> QED
    BY <2>2, <2>3 DEF FileBase, Consistent, Rows, IsRow
<1> QED
  BY <1>1, <1>2, <1>3 DEF FileNext

LEMMA BaseInit ==
  ASSUME FileInit
  PROVE  FileBase
<1>1. PICK w \in Workspaces :
        /\ TreeInit(w.tree) /\ members = w.members /\ blob = w.blobs /\ files = w.files
        /\ disk = {w.blobs[i].file : i \in NodeIds} \ {0}
        /\ used = Total([i \in NodeIds |-> w.blobs[i].size]) /\ syncUsed = 0
  BY DEF FileInit
<1>2. /\ w.tree \in Trees /\ Consistent(w.tree) /\ w.members \subseteq Users /\ w.files \in Nat
      /\ w.blobs \in [NodeIds -> [size : Sizes, file : 1..w.files] \cup {NoBlob}]
  BY FilesAssumption DEF IsWorkspace
<1>3. [size : Sizes, file : 1..w.files] \subseteq [size : Sizes, file : Nat \ {0}]
  BY <1>2
<1>4. w.blobs \in [NodeIds -> Blobs]
  BY <1>2, <1>3 DEF Blobs
<1>5. \A i \in NodeIds : w.blobs[i] = NoBlob \/ w.blobs[i].file \in 1..w.files
  BY <1>2
<1>6. \A i \in NodeIds : w.blobs[i].file \in 0..w.files
  <2>1. NoBlob.file \in 0..w.files
    BY <1>2, SizeFacts
  <2> QED
    BY <1>2, <1>5, <2>1
<1>7. disk \subseteq 1..files
  BY <1>1, <1>2, <1>6
<1>8. StoreTyped
  BY <1>1, <1>2, <1>4, <1>6, <1>7, SizesSum DEF StoreTyped, HasBlob
<1>9. node = w.tree /\ req \in [Slots -> Requests] /\ day \in 0..LastDay /\ started \in 0..MaxRequests
  BY <1>1, IdleIsRequest, GivenAssumption DEF TreeInit
<1> QED
  BY <1>2, <1>8, <1>9, FileTypes DEF FileBase

(* A workspace keeps rows that refer to rows and a path for each of them,   *)
(* and requests hold what they can have loaded.                             *)
THEOREM FilesTypes == FileSpec => [](FilesTypeOK /\ Consistent(node))
<1>1. FileInit => FileBase
  BY BaseInit
<1>2. FileBase /\ [FileNext]_fileVars => FileBase'
  <2>1. ASSUME FileBase, UNCHANGED fileVars PROVE FileBase'
    BY <2>1, FileTypesUnchanged DEF FileBase, fileVars, treeVars, Consistent, Rows, IsRow
  <2> QED
    BY <2>1, BaseNext
<1>3. FileBase <=> FilesTypeOK /\ Consistent(node)
  BY DEF FileBase
<1> QED
  BY <1>1, <1>2, <1>3, PTL DEF FileSpec

-----------------------------------------------------------------------------
(* What a key is.  No key is given out twice, so a row that comes back is   *)
(* of the kind it was, parents are folders and blobs are of files; requests *)
(* hold keys of the right kind.                                             *)

ParentOk(K, p) == p = Root \/ (p \in NodeIds /\ K[p] = "folder")

RowOk(K, i, row) == row.kind = K[i] /\ ParentOk(K, row.parent)

TablesOk(K) ==
  /\ \A i \in NodeIds : node[i] = Unused <=> K[i] = "unused"
  /\ \A i \in NodeIds : IsRow(node, i) => RowOk(K, i, node[i])
  /\ \A i \in NodeIds : HasBlob(i) => IsRow(node, i) /\ node[i].kind = "file"

RequestOk(K, q) ==
  /\ q.op \in {"move", "star"} => RowOk(K, q.id, q.row)
  /\ q.op \in {"create", "move", "upload", "walk", "sync"} => ParentOk(K, q.parent)
  /\ q.op = "move" => q.parent # q.id /\ ~IsStrictPrefix(q.row.path, q.base)
  /\ q.op = "sync" => Allowed(q) /\ (q.id # Root => K[q.id] = "file")
  /\ q.op = "delete" => \A i \in NodeIds : q.blobs[i] # NoBlob => i \in q.nodes /\ K[i] = "file"
  /\ q.op = "upload" => q.read + q.size <= TotalSize
  /\ q.op = "count" => (q.delta > 0 => q.read + q.delta <= SyncTotal)

Kinds == [NodeIds -> {"folder", "file", "unused"}]

FileInv == FileBase /\ \E K \in Kinds : TablesOk(K) /\ \A r \in Slots : RequestOk(K, req[r])

LEMMA FolderIsParent ==
  ASSUME FileBase, NEW K \in Kinds, TablesOk(K), NEW p, p = Root \/ IsFolder(p)
  PROVE  ParentOk(K, p)
BY RowsAreRows DEF FileBase, TablesOk, RowOk, ParentOk, IsFolder

(* What is known of the kinds stays known when a key is given out.          *)
LEMMA RequestGrows ==
  ASSUME NEW K \in Kinds, NEW L \in Kinds, \A i \in NodeIds : K[i] # "unused" => L[i] = K[i],
         NEW q \in Requests, RequestOk(K, q)
  PROVE  RequestOk(L, q)
<1>1. \A p : ParentOk(K, p) => ParentOk(L, p)
  BY DEF ParentOk
<1>2. q.op \in {"move", "star"} => q.id \in NodeIds /\ q.row.kind \in {"folder", "file"}
  BY RequestByOp DEF Moves, OnRows, Row
<1>3. q.op \in {"move", "star"} => RowOk(L, q.id, q.row)
  BY <1>1, <1>2 DEF RequestOk, RowOk
<1>4. q.op = "sync" /\ q.id # Root => L[q.id] = "file"
  BY RequestByOp DEF RequestOk, Syncs, Parents
<1>5. q.op = "delete" => \A i \in NodeIds : q.blobs[i] # NoBlob => i \in q.nodes /\ L[i] = "file"
  BY DEF RequestOk
<1>6. q.op \in {"create", "move", "upload", "walk", "sync"} => ParentOk(L, q.parent)
  BY <1>1 DEF RequestOk
<1> QED
  BY <1>3, <1>4, <1>5, <1>6 DEF RequestOk

LEMMA InvStep ==
  ASSUME FileBase, FileBase', NEW K \in Kinds, \A s \in Slots : RequestOk(K, req[s]),
         NEW L \in Kinds, \A i \in NodeIds : K[i] # "unused" => L[i] = K[i], TablesOk(L)',
         NEW r \in Slots, NEW w, RequestOk(L, w), req' = [req EXCEPT ![r] = w]
  PROVE  FileInv'
<1>1. ASSUME NEW s \in Slots PROVE RequestOk(L, req'[s])
  <2>1. CASE s = r
    BY <2>1, FileTypes DEF FileBase
  <2>2. CASE s # r
    <3>1. req'[s] = req[s]
      BY <2>2, FileTypes DEF FileBase
    <3>2. RequestOk(L, req[s])
      BY RequestGrows, RequestOf
    <3> QED
      BY <3>1, <3>2
  <2> QED
    BY <2>1, <2>2
<1>2. \A s \in Slots : RequestOk(L, req[s])'
  BY <1>1 DEF RequestOk, RowOk, ParentOk, Allowed
<1> QED
  BY <1>2 DEF FileInv

LEMMA IdleOk == \A K : RequestOk(K, Idle)
BY DEF RequestOk, Idle

(* With no new row the kinds are those there were.                          *)
LEMMA InvKept ==
  ASSUME FileBase, FileBase', NEW K \in Kinds, \A s \in Slots : RequestOk(K, req[s]), TablesOk(K)',
         NEW r \in Slots, NEW w, RequestOk(K, w), req' = [req EXCEPT ![r] = w]
  PROVE  FileInv'
BY InvStep

LEMMA TablesSame ==
  ASSUME NEW K, TablesOk(K), UNCHANGED <<node, blob>>
  PROVE  TablesOk(K)'
BY DEF TablesOk, RowOk, ParentOk, IsRow, HasBlob

LEMMA TablesMarked ==
  ASSUME FileBase, NEW K, TablesOk(K), Marked(node'), blob' = blob
  PROVE  TablesOk(K)'
<1>1. /\ \A i \in NodeIds : IsRow(node', i) <=> IsRow(node, i)
      /\ \A i \in NodeIds : IsRow(node', i) => SamePlace(node'[i], node[i])
      /\ \A i \in NodeIds : node'[i] = Unused <=> node[i] = Unused
  BY MarkedRows
<1>2. \A i \in NodeIds : node'[i] = Unused <=> K[i] = "unused"
  BY <1>1 DEF TablesOk
<1>3. \A i \in NodeIds : IsRow(node', i) => RowOk(K, i, node'[i])
  BY <1>1 DEF TablesOk, RowOk, SamePlace
<1>4. \A i \in NodeIds : HasBlob(i)' => IsRow(node', i) /\ node'[i].kind = "file"
  BY <1>1 DEF TablesOk, SamePlace, HasBlob
<1> QED
  BY <1>2, <1>3, <1>4 DEF TablesOk, RowOk, ParentOk, IsRow

(* A key is given out.                                                      *)
LEMMA TablesInserted ==
  ASSUME FileBase, NEW K \in Kinds, TablesOk(K), NEW row, Inserted1(row), ParentOk(K, row.parent),
         \/ blob' = blob
         \/ row.kind = "file" /\ \E b : blob' = [blob EXCEPT ![NextKey] = b]
  PROVE  \E L \in Kinds : TablesOk(L)' /\ (\A i \in NodeIds : K[i] # "unused" => L[i] = K[i])
                          /\ L[NextKey] = row.kind
<1>0. PICK k : k = NextKey
  OBVIOUS
<1>1. /\ k \in NodeIds /\ node[k] = Unused /\ K[k] = "unused" /\ row \in Row
      /\ row.kind \in {"folder", "file"} /\ node' = [node EXCEPT ![k] = row] /\ node \in Trees
      /\ blob \in [NodeIds -> Blobs] /\ node' \in Trees
  BY <1>0, KeyFacts, FileTypes, PutRow DEF Inserted1, TablesOk, Row, FileBase, StoreTyped
<1>2. PICK L \in Kinds : L[k] = row.kind /\ \A i \in NodeIds : i # k => L[i] = K[i]
  <2>1. [K EXCEPT ![k] = row.kind] \in Kinds
    BY <1>1 DEF Kinds
  <2> QED
    BY <1>1, <2>1 DEF Kinds
<1>3. \A p : ParentOk(K, p) => ParentOk(L, p)
  BY <1>1, <1>2 DEF ParentOk
<1>4. node'[k] = row /\ \A i \in NodeIds : i # k => node'[i] = node[i]
  BY <1>1 DEF Trees
<1>5. row # Unused
  BY <1>1 DEF Row, Unused
<1>6. \A i \in NodeIds : node'[i] = Unused <=> L[i] = "unused"
  BY <1>1, <1>2, <1>4, <1>5 DEF TablesOk
<1>7. \A i \in NodeIds : IsRow(node', i) => RowOk(L, i, node'[i])
  BY <1>1, <1>2, <1>3, <1>4 DEF TablesOk, RowOk, IsRow
<1>8. \A i \in NodeIds : i # k => blob'[i] = blob[i]
  BY <1>0, <1>1
<1>9. ASSUME NEW i \in NodeIds, blob'[i] # NoBlob PROVE IsRow(node', i) /\ node'[i].kind = "file"
  <2>1. CASE i # k
    BY <1>4, <1>8, <1>9, <2>1 DEF TablesOk, HasBlob, IsRow
  <2>2. CASE i = k
    <3>1. ~IsRow(node, k)
      BY <1>1 DEF IsRow, Unused
    <3>2. blob[k] = NoBlob
      BY <1>1, <3>1 DEF TablesOk, HasBlob
    <3>3. row.kind = "file"
      BY <1>9, <2>2, <3>2
    <3> QED
      BY <1>4, <2>2, <3>3 DEF IsRow
  <2> QED
    BY <2>1, <2>2
<1>10. TablesOk(L)'
  BY <1>6, <1>7, <1>9 DEF TablesOk, HasBlob, RowOk, ParentOk, IsRow
<1>11. \A i \in NodeIds : K[i] # "unused" => L[i] = K[i]
  BY <1>1, <1>2
<1> QED
  BY <1>0, <1>2, <1>10, <1>11

(* Rows that are written back, or anew under the keys they have.            *)
LEMMA TablesRewritten ==
  ASSUME FileBase, NEW K \in Kinds, TablesOk(K), blob' = blob, node' \in Trees,
         \A i \in NodeIds : \/ node'[i] = node[i]
                            \/ node'[i] \in Row /\ RowOk(K, i, node'[i])
  PROVE  TablesOk(K)'
<1>0. node \in Trees
  BY FileTypes DEF FileBase
<1>1. ASSUME NEW i \in NodeIds PROVE node'[i] = Unused <=> K[i] = "unused"
  <2>1. CASE node'[i] = node[i]
    BY <2>1 DEF TablesOk
  <2>2. CASE node'[i] \in Row /\ RowOk(K, i, node'[i])
    <3>1. node'[i] # Unused /\ node'[i].kind \in {"folder", "file"}
      BY <2>2 DEF Row, Unused
    <3> QED
      BY <2>2, <3>1 DEF RowOk
  <2> QED
    BY <2>1, <2>2
<1>2. \A i \in NodeIds : IsRow(node', i) => RowOk(K, i, node'[i])
  BY DEF TablesOk, IsRow
<1>3. ASSUME NEW i \in NodeIds, HasBlob(i) PROVE IsRow(node', i) /\ node'[i].kind = "file"
  <2>1. IsRow(node, i) /\ node[i].kind = "file" /\ K[i] = "file"
    BY <1>3 DEF TablesOk, RowOk
  <2> QED
    BY <2>1 DEF RowOk, IsRow
<1> QED
  BY <1>1, <1>2, <1>3 DEF TablesOk, HasBlob, RowOk, ParentOk, IsRow

LEMMA TablesErased ==
  ASSUME FileBase, NEW K \in Kinds, TablesOk(K), NEW q \in Deletes, Erased(q)
  PROVE  TablesOk(K)'
<1>1. \A i \in NodeIds : \/ node'[i] = node[i]
                         \/ node'[i] = Gone /\ IsRow(node, i) /\ i \in q.nodes
  BY DEF Erased
<1>2. \A i \in NodeIds : i \in q.nodes /\ IsRow(node, i) => node'[i] = Gone
  BY DEF Erased
<1>3. \A i \in NodeIds : node'[i] = Unused <=> K[i] = "unused"
  BY <1>1 DEF TablesOk, Gone, Unused, IsRow
<1>4. \A i \in NodeIds : IsRow(node', i) => RowOk(K, i, node'[i])
  BY <1>1 DEF TablesOk, IsRow, Gone
<1>5. ASSUME NEW i \in NodeIds, blob'[i] # NoBlob PROVE IsRow(node', i) /\ node'[i].kind = "file"
  <2>1. blob[i] # NoBlob
    BY <1>5 DEF Erased
  <2>2. i \notin q.nodes
    BY <1>5 DEF Erased
  <2> QED
    BY <1>1, <2>1, <2>2 DEF TablesOk, HasBlob, IsRow
<1> QED
  BY <1>3, <1>4, <1>5 DEF TablesOk, HasBlob, RowOk, ParentOk, IsRow

LEMMA TablesReplaced ==
  ASSUME FileBase, NEW K \in Kinds, TablesOk(K), NEW q \in Syncs, q.id # Root => K[q.id] = "file", Replaces(q)
  PROVE  TablesOk(K)'
<1>1. Marked(node') /\ q.id \in NodeIds /\ IsRow(node, q.id) /\ K[q.id] = "file"
  BY RootIsNoKey DEF Replaces
<1>2. /\ \A i \in NodeIds : IsRow(node', i) <=> IsRow(node, i)
      /\ \A i \in NodeIds : IsRow(node', i) => SamePlace(node'[i], node[i])
      /\ \A i \in NodeIds : node'[i] = Unused <=> node[i] = Unused
  BY <1>1, MarkedRows
<1>3. \A i \in NodeIds : node'[i] = Unused <=> K[i] = "unused"
  BY <1>2 DEF TablesOk
<1>4. \A i \in NodeIds : IsRow(node', i) => RowOk(K, i, node'[i])
  BY <1>2 DEF TablesOk, RowOk, SamePlace
<1>5. \A i \in NodeIds : i # q.id => blob'[i] = blob[i]
  BY FileTypes DEF Replaces, FileBase, StoreTyped
<1>6. ASSUME NEW i \in NodeIds, blob'[i] # NoBlob PROVE IsRow(node', i) /\ node'[i].kind = "file"
  <2>1. CASE i = q.id
    BY <1>1, <1>2, <1>4, <2>1 DEF RowOk
  <2>2. CASE i # q.id
    BY <1>2, <1>5, <1>6, <2>2 DEF TablesOk, HasBlob, SamePlace
  <2> QED
    BY <2>1, <2>2
<1> QED
  BY <1>3, <1>4, <1>6 DEF TablesOk, HasBlob, RowOk, ParentOk, IsRow

-----------------------------------------------------------------------------
(* The invariant is kept.                                                   *)

LEMMA RestIsFree ==
  ASSUME NEW K, NEW w, w \in {Idle} \cup Purges \cup SetAIs \/ w.op \in {"trash", "restore"}
  PROVE  RequestOk(K, w)
BY IdleOk DEF RequestOk, Purges, SetAIs

LEMMA InvBegin ==
  ASSUME FileInv, FileBase', NEW K \in Kinds, TablesOk(K), \A s \in Slots : RequestOk(K, req[s]),
         NEW r \in Slots, NEW q \in Requests, RequestOk(K, q), Begin(r, q), UNCHANGED storeVars
  PROVE  FileInv'
<1>1. UNCHANGED <<node, blob>> /\ req' = [req EXCEPT ![r] = q]
  BY DEF Begin, storeVars
<1>2. TablesOk(K)'
  BY <1>1, TablesSame
<1> QED
  BY <1>1, <1>2, InvKept DEF FileInv

LEMMA InvStart ==
  ASSUME FileInv, FileBase', NEW r \in Slots, NEW u \in members, FileStart(r, u)
  PROVE  FileInv'
<1>0. FileBase /\ u \in Users
  BY FileTypes DEF StoreTyped, FileBase, FileInv
<1>k. PICK K \in Kinds : TablesOk(K) /\ \A s \in Slots : RequestOk(K, req[s])
  BY DEF FileInv
<1>b. ASSUME NEW q \in Requests, RequestOk(K, q), Begin(r, q), UNCHANGED storeVars PROVE FileInv'
  BY <1>k, <1>b, InvBegin
<1>p. ASSUME NEW p, p = Root \/ IsFolder(p) PROVE ParentOk(K, p)
  BY <1>0, <1>k, <1>p, FolderIsParent
<1>r. ASSUME NEW i \in NodeIds, IsRow(node, i) PROVE RowOk(K, i, node[i])
  BY <1>k, <1>r DEF TablesOk
<1>1. ASSUME TreeStart(r, u), UNCHANGED storeVars PROVE FileInv'
  <2>1. ASSUME NEW p \in NodeIds \cup {Root}, NEW n \in GivenNames, StartCreate(r, u, p, n) PROVE FileInv'
    <3>1. PICK q \in Creates : Begin(r, q) /\ q.parent = p /\ (p = Root \/ IsFolder(p))
      BY <1>0, <2>1, StartCreateTypes
    <3>2. RequestOk(K, q)
      BY <1>p, <3>1 DEF RequestOk, Creates
    <3> QED
      BY <1>1, <1>b, <3>1, <3>2, RequestsAre
  <2>2. ASSUME NEW i \in Rows(node), NEW p \in NodeIds \cup {Root}, NEW n \in GivenNames \cup {node[i].name},
               StartMove(r, u, i, p, n)
        PROVE  FileInv'
    <3>1. PICK q \in Moves : /\ Begin(r, q) /\ q.id = i /\ q.row = node[i] /\ q.parent = p
                             /\ IsRow(node, i) /\ (p = Root \/ IsFolder(p) \/ p = node[i].parent)
                             /\ p # i /\ ~IsStrictPrefix(q.row.path, q.base)
      BY <1>0, <2>2, StartMoveTypes
    <3>2. RowOk(K, q.id, q.row) /\ ParentOk(K, q.parent)
      BY <1>p, <1>r, <3>1 DEF Moves, RowOk
    <3>3. RequestOk(K, q)
      BY <3>1, <3>2 DEF RequestOk, Moves
    <3> QED
      BY <1>1, <1>b, <3>1, <3>3, RequestsAre
  <2>3. ASSUME NEW i \in NodeIds, NEW enabled \in BOOLEAN,
               \/ StartStar(r, u, i) \/ StartTrash(r, u, i) \/ StartSetAI(r, u, i, enabled)
               \/ StartRestore(r, u, i)
        PROVE  FileInv'
    <3>1. PICK q \in OnRows \cup SetAIs : Begin(r, q) /\ q.id = i /\ q.row = node[i] /\ IsRow(node, i)
      BY <1>0, <2>3, StartOnRowTypes
    <3>2. RequestOk(K, q)
      BY <1>r, <3>1 DEF RequestOk, OnRows, SetAIs
    <3> QED
      BY <1>1, <1>b, <3>1, <3>2, RequestsAre
  <2>4. ASSUME \/ \E i \in NodeIds : StartPermanentDelete(r, u, i)
               \/ StartEmptyTrash(r, u) \/ StartTrashListing(r, u)
        PROVE  FileInv'
    <3>1. PICK q \in Purges : Begin(r, q)
      BY <1>0, <2>4, StartPurgeTypes
    <3> QED
      BY <1>1, <1>b, <3>1, RestIsFree, RequestsAre
  <2> QED
    BY <1>1, <2>1, <2>2, <2>3, <2>4 DEF TreeStart
<1>2. ASSUME NEW p \in NodeIds \cup {Root}, NEW n \in GivenNames, NEW size \in Sizes, NEW ai \in AskedAI,
             StartUpload(r, u, p, n, size, ai)
      PROVE  FileInv'
  <2>1. PICK q \in Uploads : /\ Begin(r, q) /\ q.parent = p /\ (p = Root \/ IsFolder(p))
                             /\ q.read + q.size <= TotalSize
    BY <1>0, <1>2, StartUploadTypes
  <2>2. RequestOk(K, q)
    BY <1>p, <2>1 DEF RequestOk, Uploads
  <2> QED
    BY <1>2, <1>b, <2>1, <2>2, RequestsAre DEF StartUpload
<1>w. ASSUME NEW dirs \in Seq(Names), NEW file \in Uploaded \cup {NoFile}, file \in Uploaded \/ dirs # <<>>,
             StartWalk(r, u, dirs, file)
      PROVE  FileInv'
  <2>1. PICK q \in Walks : Begin(r, q) /\ (q.parent = Root \/ IsFolder(q.parent)) /\ UNCHANGED storeVars
    BY <1>0, <1>w, StartWalkTypes
  <2>2. RequestOk(K, q)
    BY <1>p, <2>1 DEF RequestOk, Walks
  <2> QED
    BY <1>b, <2>1, <2>2, RequestsAre
<1>3. ASSUME NEW rel \in RelPaths
      PROVE  rel \in Seq(Names) /\ rel # <<>> /\ Front(rel) \in Seq(Names) /\ Last(rel) \in Names
  <2>1. rel \in Seq(Names) /\ rel # <<>>
    BY FilesAssumption
  <2> QED
    BY <2>1 DEF Front, Last
<1>4. ASSUME NEW rel \in RelPaths, NEW size \in Sizes, NEW ai \in AskedAI,
             StartWalk(r, u, Front(rel), [name |-> Last(rel), size |-> size, ai |-> ai])
      PROVE  FileInv'
  <2>1. [name |-> Last(rel), size |-> size, ai |-> ai] \in Uploaded
    BY <1>3, FilesAssumption DEF Uploaded
  <2> QED
    BY <1>3, <1>4, <1>w, <2>1
<1>5. ASSUME NEW rel \in RelPaths, StartWalk(r, u, rel, NoFile) PROVE FileInv'
  BY <1>3, <1>5, <1>w
<1>6. ASSUME NEW i \in NodeIds, StartSyncDelete(r, u, i) PROVE FileInv'
  <2>1. PICK q \in OnRows \cup SetAIs : Begin(r, q) /\ q.id = i /\ q.row = node[i] /\ IsRow(node, i)
    BY <1>0, <1>6, StartOnRowTypes
  <2>2. RequestOk(K, q)
    BY <1>r, <2>1 DEF RequestOk, OnRows, SetAIs
  <2> QED
    BY <1>6, <1>b, <2>1, <2>2, RequestsAre DEF StartSyncDelete
<1> QED
  BY <1>1, <1>2, <1>4, <1>5, <1>6 DEF FileStart

LEMMA InvTreeCommit ==
  ASSUME FileInv, FileBase', NEW r \in Slots, TreeCommit(r), UNCHANGED storeVars
  PROVE  FileInv'
<1>0. FileBase /\ blob' = blob
  BY DEF FileInv, storeVars
<1>k. PICK K \in Kinds : TablesOk(K) /\ \A s \in Slots : RequestOk(K, req[s])
  BY DEF FileInv
<1>s. node' = node => TablesOk(K)'
  BY <1>0, <1>k, TablesSame
<1>q. RequestOk(K, req[r])
  BY <1>k
<1>1. CASE CommitCreate(r)
  <2>1. /\ req[r] \in Creates /\ req' = [req EXCEPT ![r] = Idle]
        /\ \/ node' = node
           \/ \E row : /\ Inserted1(row) /\ row.kind = "folder" /\ row.parent = req[r].parent
                       /\ row.name = req[r].name /\ row.path = Append(req[r].base, req[r].name)
    BY <1>0, <1>1, CommitCreateIs
  <2>2. CASE node' = node
    BY <1>0, <1>k, <1>s, <2>1, <2>2, InvKept, IdleOk
  <2>3. ASSUME NEW row, Inserted1(row), row.parent = req[r].parent PROVE FileInv'
    <3>1. ParentOk(K, row.parent)
      BY <1>q, <2>1, <2>3 DEF RequestOk, Creates
    <3>2. PICK L \in Kinds : TablesOk(L)' /\ (\A i \in NodeIds : K[i] # "unused" => L[i] = K[i])
      BY <1>0, <1>k, <2>3, <3>1, TablesInserted
    <3> QED
      BY <1>0, <1>k, <2>1, <3>2, InvStep, IdleOk
  <2> QED
    BY <2>1, <2>2, <2>3
<1>2. CASE CommitMove(r)
  <2> DEFINE q == req[r]
  <2>1. q \in Moves /\ req' = [req EXCEPT ![r] = Idle] /\ (node' = node \/ node' = MovedTree(q))
    BY <1>0, <1>2, CommitMoveIs
  <2>2. RowOk(K, q.id, q.row) /\ ParentOk(K, q.parent) /\ q.id \in NodeIds
    BY <1>q, <2>1 DEF RequestOk, Moves
  <2> HIDE DEF q
  <2>3. ASSUME node' = MovedTree(q), NEW i \in NodeIds
        PROVE  node'[i] = node[i] \/ (node'[i] \in Row /\ RowOk(K, i, node'[i]))
    <3>1. i # q.id => node'[i] = Relocated(q)[i]
      BY <2>3 DEF MovedTree
    <3>2. i = q.id => node'[i] = MovedRow(q)
      BY <2>2, <2>3 DEF MovedTree, Relocated
    <3>3. CASE i = q.id
      BY <2>1, <2>2, <3>2, <3>3, MovedRowFacts DEF RowOk
    <3>4. CASE i # q.id /\ Relocates(q, i)
      <4>1. IsRow(node, i)
        BY <3>4 DEF Relocates
      <4>2. RowOk(K, i, node[i])
        BY <1>k, <4>1 DEF TablesOk
      <4> QED
        BY <1>0, <2>1, <3>1, <3>4, <4>2, RelocatedFacts DEF RowOk
    <3>5. CASE i # q.id /\ ~Relocates(q, i)
      BY <1>0, <2>1, <3>1, <3>5, RelocatedFacts
    <3> QED
      BY <3>3, <3>4, <3>5
  <2>4. TablesOk(K)'
    <3>1. CASE node' = node
      BY <1>s, <3>1
    <3>2. CASE node' = MovedTree(q)
      BY <1>0, <1>k, <2>1, <2>3, <3>2, MovedTreeType, TablesRewritten
    <3> QED
      BY <2>1, <3>1, <3>2
  <2> QED
    BY <1>0, <1>k, <2>1, <2>4, InvKept, IdleOk
<1>3. CASE CommitStar(r)
  <2> DEFINE q == req[r]
             row == SavedRow(q)
  <2>1. /\ q \in OnRows /\ req' = [req EXCEPT ![r] = Idle]
        /\ \/ node' = node
           \/ /\ node' = [node EXCEPT ![q.id] = row] /\ row \in Row /\ row.kind = q.row.kind
              /\ row.parent = q.row.parent
    BY <1>0, <1>3, CommitStarIs
  <2>2. q.op = "star"
    BY <1>3 DEF CommitStar
  <2>3. RowOk(K, q.id, q.row) /\ q.id \in NodeIds
    BY <1>q, <2>1, <2>2 DEF RequestOk, OnRows
  <2> HIDE DEF q, row
  <2>4. CASE node' = node
    BY <1>0, <1>k, <1>s, <2>1, <2>4, InvKept, IdleOk
  <2>5. CASE node' # node
    <3>1. node' = [node EXCEPT ![q.id] = row] /\ row \in Row /\ RowOk(K, q.id, row)
      BY <2>1, <2>3, <2>5 DEF RowOk
    <3>2. node \in Trees
      BY <1>0, FileTypes DEF FileBase
    <3>3. node' \in Trees
      BY <2>3, <3>1, <3>2, PutRow
    <3>4. \A i \in NodeIds : node'[i] = node[i] \/ (node'[i] \in Row /\ RowOk(K, i, node'[i]))
      BY <2>3, <3>1, <3>2 DEF Trees
    <3>5. TablesOk(K)'
      BY <1>0, <1>k, <3>3, <3>4, TablesRewritten
    <3> QED
      BY <1>0, <1>k, <2>1, <3>5, InvKept, IdleOk
  <2> QED
    BY <2>4, <2>5
<1>4. CASE CommitTrash(r) \/ CommitSetAI(r) \/ CommitRestore(r)
  <2>1. req' = [req EXCEPT ![r] = Idle] /\ Marked(node')
    BY <1>0, <1>4, CommitMarksIs
  <2>2. TablesOk(K)'
    BY <1>0, <1>k, <2>1, TablesMarked
  <2> QED
    BY <1>0, <1>k, <2>1, <2>2, InvKept, IdleOk
<1>5. CASE RestoreExpired(r) \/ Crash(r)
  <2>1. PICK w \in {Idle} \cup Purges : node' = node /\ req' = [req EXCEPT ![r] = w]
    BY <1>0, <1>5, NoRowWritten
  <2>2. RequestOk(K, w)
    BY RestIsFree
  <2> QED
    BY <1>0, <1>k, <1>s, <2>1, <2>2, InvKept
<1> QED
  BY <1>1, <1>2, <1>3, <1>4, <1>5 DEF TreeCommit

LEMMA InvSaved ==
  ASSUME FileBase, FileBase', NEW K \in Kinds, TablesOk(K), \A s \in Slots : RequestOk(K, req[s]),
         NEW q \in Uploads \cup Syncs, ParentOk(K, q.parent), \E row : Saves(q, row),
         NEW r \in Slots, NEW w, req' = [req EXCEPT ![r] = w], w \in {Idle} \cup FileCounts,
         RequestOk(K, w)
  PROVE  FileInv'
<1>1. PICK row : Saves(q, row)
  OBVIOUS
<1>2. /\ Inserted1(row) /\ ParentOk(K, row.parent) /\ row.kind = "file"
      /\ blob' = [blob EXCEPT ![NextKey] = [size |-> q.size, file |-> files + 1]]
  BY <1>1 DEF Saves
<1>3. PICK L \in Kinds : TablesOk(L)' /\ (\A i \in NodeIds : K[i] # "unused" => L[i] = K[i])
  BY <1>2, TablesInserted
<1>4. RequestOk(L, w)
  BY <1>3, RequestGrows, RequestsAre
<1> QED
  BY <1>3, <1>4, InvStep

LEMMA InvStoreStep ==
  ASSUME FileInv, FileBase', NEW r \in Slots,
         \/ CommitUpload(r) \/ PurgeFiles(r) \/ PurgeRows(r) \/ WalkInto(r) \/ WalkCreate(r)
         \/ WalkFails(r) \/ ReadFile(r) \/ CommitSync(r) \/ CountSync(r)
  PROVE  FileInv'
<1>0. FileBase
  BY DEF FileInv
<1>k. PICK K \in Kinds : TablesOk(K) /\ \A s \in Slots : RequestOk(K, req[s])
  BY DEF FileInv
<1>s. UNCHANGED <<node, blob>> => TablesOk(K)'
  BY <1>0, <1>k, TablesSame
<1>q. RequestOk(K, req[r])
  BY <1>k
<1>1. CASE CommitUpload(r)
  <2>1. req[r] \in Uploads /\ SaveFile(req[r]) /\ req' = [req EXCEPT ![r] = Idle]
    BY <1>0, <1>1, RequestOf, RequestByOp DEF CommitUpload, Finish
  <2>2. UNCHANGED <<node, blob, used>> \/ \E row : Saves(req[r], row)
    BY <1>0, <2>1, SaveFileIs
  <2>3. ParentOk(K, req[r].parent)
    BY <1>q, <2>1 DEF RequestOk, Uploads
  <2>4. CASE UNCHANGED <<node, blob, used>>
    BY <1>0, <1>k, <1>s, <2>1, <2>4, InvKept, IdleOk
  <2>5. CASE \E row : Saves(req[r], row)
    BY <1>0, <1>k, <2>1, <2>3, <2>5, InvSaved, IdleOk
  <2> QED
    BY <2>2, <2>4, <2>5
<1>2. CASE PurgeFiles(r)
  <2>1. PICK q \in Deletes :
          /\ req' = [req EXCEPT ![r] = q] /\ req[r] \in Purges
          /\ \A i \in NodeIds : q.blobs[i] = blob[i] \/ q.blobs[i] = NoBlob
          /\ \A i \in NodeIds : q.blobs[i] # NoBlob => i \in q.nodes /\ IsRow(node, i)
    BY <1>0, <1>2, PurgeFilesIs
  <2>2. ASSUME NEW i \in NodeIds, q.blobs[i] # NoBlob PROVE i \in q.nodes /\ K[i] = "file"
    <3>1. blob[i] # NoBlob
      BY <2>1, <2>2
    <3> QED
      BY <1>k, <2>1, <2>2, <3>1 DEF TablesOk, HasBlob, RowOk
  <2>3. RequestOk(K, q)
    BY <2>2 DEF RequestOk, Deletes
  <2>4. UNCHANGED <<node, blob>>
    BY <1>2 DEF PurgeFiles
  <2> QED
    BY <1>0, <1>k, <1>s, <2>1, <2>3, <2>4, InvKept
<1>3. CASE PurgeRows(r)
  <2>1. /\ req[r] \in Deletes /\ req' = [req EXCEPT ![r] = Idle]
        /\ UNCHANGED <<node, blob, used>> \/ Erased(req[r])
    BY <1>0, <1>3, PurgeRowsIs
  <2>2. TablesOk(K)'
    BY <1>0, <1>k, <1>s, <2>1, TablesErased
  <2> QED
    BY <1>0, <1>k, <2>1, <2>2, InvKept, IdleOk
<1>4. CASE WalkInto(r)
  <2>1. Marked(node') /\ blob' = blob
    BY <1>0, <1>4, WalkIntoIs DEF WalkInto, storeVars
  <2>2. PICK i \in NodeIds, w \in {Idle} \cup Walks :
          IsFolder(i) /\ req' = [req EXCEPT ![r] = w] /\ (w # Idle => w.parent = i)
    BY <1>0, <1>4, WalkIntoIs
  <2>3. ParentOk(K, i)
    BY <1>0, <1>k, <2>2, FolderIsParent
  <2>4. RequestOk(K, w)
    BY <2>2, <2>3, IdleOk DEF RequestOk, Walks
  <2>5. TablesOk(K)'
    BY <1>0, <1>k, <2>1, TablesMarked
  <2> QED
    BY <1>0, <1>k, <2>2, <2>4, <2>5, InvKept
<1>5. CASE WalkCreate(r)
  <2>0. req[r] \in Walks /\ blob' = blob
    BY <1>0, <1>5, WalkCreateIs DEF WalkCreate, storeVars
  <2>1. PICK row : /\ Inserted1(row) /\ row.kind = "folder" /\ row.parent = req[r].parent
                   /\ row.path = Append(req[r].base, row.name)
    BY <1>0, <1>5, WalkCreateIs
  <2>2. PICK w \in {Idle} \cup Walks : req' = [req EXCEPT ![r] = w] /\ (w # Idle => w.parent = NextKey)
    BY <1>0, <1>5, WalkCreateIs
  <2>3. ParentOk(K, row.parent)
    BY <1>q, <2>0, <2>1 DEF RequestOk, Walks
  <2>4. PICK L \in Kinds : /\ TablesOk(L)' /\ (\A i \in NodeIds : K[i] # "unused" => L[i] = K[i])
                           /\ L[NextKey] = row.kind
    BY <1>0, <1>k, <2>0, <2>1, <2>3, TablesInserted
  <2>5. w # Idle => ParentOk(L, w.parent)
    BY <2>1, <2>2, <2>4, KeyFacts DEF ParentOk, Inserted1
  <2>6. RequestOk(L, w)
    BY <2>2, <2>5, IdleOk DEF RequestOk, Walks
  <2> QED
    BY <1>0, <1>k, <2>2, <2>4, <2>6, InvStep
<1>6. CASE WalkFails(r)
  <2>1. req' = [req EXCEPT ![r] = Idle] /\ UNCHANGED <<node, blob>>
    BY <1>0, <1>6, WalkFailsIs DEF WalkFails, storeVars
  <2> QED
    BY <1>0, <1>k, <1>s, <2>1, InvKept, IdleOk
<1>7. CASE ReadFile(r)
  <2>1. req[r] \in Walks /\ UNCHANGED <<node, blob>>
    BY <1>0, <1>7, ReadFileIs DEF ReadFile, storeVars
  <2>2. PICK w \in {Idle} \cup Syncs :
          /\ req' = [req EXCEPT ![r] = w]
          /\ w # Idle => /\ Allowed(w) /\ w.parent = req[r].parent
                         /\ w.id = Root \/ (IsRow(node, w.id) /\ node[w.id].kind = "file")
    BY <1>0, <1>7, ReadFileIs
  <2>3. ParentOk(K, req[r].parent)
    BY <1>q, <2>1 DEF RequestOk, Walks
  <2>4. w # Idle => (w.id # Root => K[w.id] = "file")
    BY <1>k, <2>2 DEF TablesOk, RowOk, IsRow
  <2>5. RequestOk(K, w)
    BY <2>2, <2>3, <2>4, IdleOk DEF RequestOk, Syncs
  <2> QED
    BY <1>0, <1>k, <1>s, <2>1, <2>2, <2>5, InvKept
<1>8. CASE CommitSync(r)
  <2>1. /\ req[r] \in Syncs
        /\ \/ UNCHANGED <<node, blob, used>>
           \/ req[r].id = Root /\ \E row : Saves(req[r], row)
           \/ req[r].id # Root /\ Replaces(req[r])
    BY <1>0, <1>8, CommitSyncIs
  <2>2. PICK w \in {Idle} \cup FileCounts :
          /\ req' = [req EXCEPT ![r] = w]
          /\ w # Idle => w.delta = req[r].size - req[r].old.size /\ w.read = req[r].read
    BY <1>0, <1>8, CommitSyncIs
  <2>3. ParentOk(K, req[r].parent) /\ Allowed(req[r]) /\ (req[r].id # Root => K[req[r].id] = "file")
    BY <1>q, <2>1 DEF RequestOk, Syncs
  <2>4. req[r].size \in Nat /\ req[r].old.size \in Nat
    BY <2>1, SizeFacts DEF Syncs
  <2>5. w # Idle => (w.delta > 0 => w.read + w.delta <= SyncTotal)
    BY <2>2, <2>3, <2>4 DEF Allowed
  <2>6. RequestOk(K, w)
    BY <2>2, <2>5, IdleOk DEF RequestOk, FileCounts
  <2>7. CASE UNCHANGED <<node, blob, used>>
    BY <1>0, <1>k, <1>s, <2>2, <2>6, <2>7, InvKept
  <2>8. CASE req[r].id # Root /\ Replaces(req[r])
    <3>1. TablesOk(K)'
      BY <1>0, <1>k, <2>1, <2>3, <2>8, TablesReplaced
    <3> QED
      BY <1>0, <1>k, <2>2, <2>6, <3>1, InvKept
  <2>9. CASE \E row : Saves(req[r], row)
    BY <1>0, <1>k, <2>1, <2>2, <2>3, <2>6, <2>9, InvSaved
  <2> QED
    BY <2>1, <2>7, <2>8, <2>9
<1>9. CASE CountSync(r)
  <2>1. req' = [req EXCEPT ![r] = Idle] /\ UNCHANGED <<node, blob>>
    BY <1>9 DEF CountSync, Finish
  <2> QED
    BY <1>0, <1>k, <1>s, <2>1, InvKept, IdleOk
<1> QED
  BY <1>1, <1>2, <1>3, <1>4, <1>5, <1>6, <1>7, <1>8, <1>9

LEMMA InvNext ==
  ASSUME FileInv, FileNext
  PROVE  FileInv'
<1>0. FileBase /\ FileBase'
  BY BaseNext DEF FileInv
<1>1. CASE \E r \in Slots : FreeSlot(r) /\ \E u \in members : FileStart(r, u)
  BY <1>0, <1>1, InvStart
<1>2. CASE \E r \in Slots : FileStep(r)
  BY <1>0, <1>2, InvTreeCommit, InvStoreStep DEF FileStep
<1>3. CASE PassDay /\ UNCHANGED storeVars
  <2>1. UNCHANGED <<node, blob, req>>
    BY <1>3 DEF PassDay, storeVars
  <2>2. PICK K \in Kinds : TablesOk(K) /\ \A s \in Slots : RequestOk(K, req[s])
    BY DEF FileInv
  <2>3. TablesOk(K)'
    BY <2>1, <2>2, TablesSame
  <2>4. \A s \in Slots : RequestOk(K, req[s])'
    BY <2>1, <2>2 DEF RequestOk, RowOk, ParentOk, Allowed
  <2> QED
    BY <1>0, <2>3, <2>4 DEF FileInv
<1> QED
  BY <1>1, <1>2, <1>3 DEF FileNext

LEMMA InvUnchanged ==
  ASSUME FileInv, UNCHANGED fileVars
  PROVE  FileInv'
<1>1. UNCHANGED <<node, blob, req>>
  BY DEF fileVars, treeVars, storeVars
<1>2. FileBase'
  BY <1>1, FileTypesUnchanged DEF FileInv, FileBase, Consistent, Rows, IsRow
<1>3. PICK K \in Kinds : TablesOk(K) /\ \A s \in Slots : RequestOk(K, req[s])
  BY DEF FileInv
<1>4. TablesOk(K)'
  BY <1>1, <1>3, TablesSame
<1>5. \A s \in Slots : RequestOk(K, req[s])'
  BY <1>1, <1>3 DEF RequestOk, RowOk, ParentOk, Allowed
<1> QED
  BY <1>2, <1>4, <1>5 DEF FileInv

LEMMA InvInit ==
  ASSUME FileInit
  PROVE  FileInv
<1>0. FileBase
  BY BaseInit
<1>1. PICK w \in Workspaces : TreeInit(w.tree) /\ blob = w.blobs
  BY DEF FileInit
<1>2. /\ node = w.tree /\ req = [r \in Slots |-> Idle]
      /\ \A i \in Rows(w.tree) : w.tree[i].parent = Root \/ w.tree[w.tree[i].parent].kind = "folder"
      /\ \A i \in NodeIds : w.blobs[i] # NoBlob => w.tree[i].kind = "file"
  BY <1>1, FilesAssumption DEF TreeInit, IsWorkspace
<1> DEFINE kind(i) == IF node[i] = Unused THEN "unused" ELSE IF node[i].kind = "folder" THEN "folder" ELSE "file"
<1>3. PICK K \in Kinds : \A i \in NodeIds : K[i] = kind(i)
  <2>1. [i \in NodeIds |-> kind(i)] \in Kinds
    BY DEF Kinds
  <2> QED
    BY <2>1
<1>4. node \in Trees
  BY <1>0, FileTypes DEF FileBase
<1>5. \A i \in NodeIds : node[i] = Unused <=> K[i] = "unused"
  BY <1>3
<1>6. ASSUME NEW i \in NodeIds, IsRow(node, i) PROVE RowOk(K, i, node[i])
  <2>1. node[i].kind = K[i]
    BY <1>3, <1>4, <1>6, RowFacts DEF Unused, IsRow
  <2>2. node[i].parent = Root \/ (IsRow(node, node[i].parent) /\ node[node[i].parent].kind = "folder")
    BY <1>0, <1>2, <1>6, ConsistentIs DEF FileBase, Rows
  <2>3. ParentOk(K, node[i].parent)
    BY <1>3, <2>2 DEF ParentOk, IsRow, Unused
  <2> QED
    BY <2>1, <2>3 DEF RowOk
<1>7. \A i \in NodeIds : HasBlob(i) => IsRow(node, i) /\ node[i].kind = "file"
  BY <1>1, <1>2 DEF HasBlob, IsRow
<1>8. TablesOk(K)
  BY <1>5, <1>6, <1>7 DEF TablesOk
<1>9. \A s \in Slots : RequestOk(K, req[s])
  BY <1>2, IdleOk
<1> QED
  BY <1>0, <1>8, <1>9 DEF FileInv

-----------------------------------------------------------------------------
(* The counter.                                                             *)

BlobSum(b) == Total([i \in NodeIds |-> b[i].size])

LEMMA UsedIs == UsedIsSum <=> used = BlobSum(blob)
BY DEF UsedIsSum, BlobSum

LEMMA NodeSumChanged ==
  ASSUME NEW f, NEW g, NEW i \in NodeIds, \A j \in NodeIds : f[j] \in Int /\ g[j] \in Int,
         \A j \in NodeIds \ {i} : g[j] = f[j]
  PROVE  Sum(g, NodeIds) = Sum(f, NodeIds) - f[i] + g[i]
<1>1. IsFiniteSet(NodeIds) /\ IsFiniteSet(NodeIds \ {i})
  BY RootIsNoKey, FS_Subset
<1>2. (\A j \in NodeIds : f[j] \in Int) /\ (\A j \in NodeIds : g[j] \in Int)
  OBVIOUS
<1>3. Sum(f, NodeIds) = f[i] + Sum(f, NodeIds \ {i}) /\ Sum(g, NodeIds) = g[i] + Sum(g, NodeIds \ {i})
  BY <1>1, <1>2, SumWithout
<1>4. Sum(f, NodeIds \ {i}) = Sum(g, NodeIds \ {i}) /\ Sum(f, NodeIds \ {i}) \in Int
  BY <1>1, <1>2, SumSame, SumType
<1> QED
  BY <1>2, <1>3, <1>4

LEMMA NodeSumDifference ==
  ASSUME NEW f, NEW g, NEW h,
         \A j \in NodeIds : f[j] \in Int /\ g[j] \in Int /\ h[j] = f[j] - g[j]
  PROVE  Sum(h, NodeIds) = Sum(f, NodeIds) - Sum(g, NodeIds)
BY RootIsNoKey, SumDifference

LEMMA BlobSumPut ==
  ASSUME NEW b \in [NodeIds -> Blobs], NEW i \in NodeIds, NEW x \in Blobs
  PROVE  BlobSum([b EXCEPT ![i] = x]) = BlobSum(b) - b[i].size + x.size
<1> DEFINE c == [b EXCEPT ![i] = x]
           f == [j \in NodeIds |-> b[j].size]
           g == [j \in NodeIds |-> c[j].size]
<1>1. c \in [NodeIds -> Blobs] /\ c[i] = x /\ \A j \in NodeIds \ {i} : c[j] = b[j]
  OBVIOUS
<1> HIDE DEF c
<1>2. /\ DOMAIN f = NodeIds /\ DOMAIN g = NodeIds /\ f[i] = b[i].size /\ g[i] = x.size
      /\ \A j \in NodeIds \ {i} : g[j] = f[j]
  BY <1>1
<1>3. \A j \in NodeIds : f[j] \in Int /\ g[j] \in Int
  BY <1>1, SizeFacts
<1>4. BlobSum(b) = Sum(f, NodeIds) /\ BlobSum(c) = Sum(g, NodeIds)
  BY TotalIs DEF BlobSum
<1> HIDE DEF f, g
<1>5. Sum(g, NodeIds) = Sum(f, NodeIds) - f[i] + g[i]
  <2>1. IsFiniteSet(NodeIds)
    BY RootIsNoKey
  <2>2. \A y \in NodeIds \ {i} : g[y] = f[y]
    BY <1>2
  <2> QED
    BY <1>3, <2>1, <2>2, NodeSumChanged
<1> QED
  BY <1>2, <1>4, <1>5 DEF c

LEMMA BlobSumType ==
  ASSUME NEW b \in [NodeIds -> Blobs]
  PROVE  BlobSum(b) \in Int
BY SizesSum DEF BlobSum

(* What is taken away is there.                                             *)
LEMMA BlobSumErased ==
  ASSUME NEW b \in [NodeIds -> Blobs], NEW taken \in [NodeIds -> Blobs], NEW c \in [NodeIds -> Blobs],
         \A i \in NodeIds : c[i] = IF taken[i] = b[i] THEN NoBlob ELSE b[i],
         \A i \in NodeIds : taken[i] # NoBlob => taken[i] = b[i]
  PROVE  BlobSum(c) = BlobSum(b) - BlobSum(taken)
<1> DEFINE f == [j \in NodeIds |-> b[j].size]
           g == [j \in NodeIds |-> taken[j].size]
           h == [j \in NodeIds |-> c[j].size]
<1>1. DOMAIN f = NodeIds /\ DOMAIN g = NodeIds /\ DOMAIN h = NodeIds
  OBVIOUS
<1>2. ASSUME NEW j \in NodeIds PROVE f[j] \in Int /\ g[j] \in Int /\ h[j] = f[j] - g[j]
  <2>1. b[j].size \in Nat /\ taken[j].size \in Nat /\ NoBlob.size = 0
    BY SizeFacts
  <2>2. CASE taken[j] = b[j]
    BY <2>1, <2>2
  <2>3. CASE taken[j] # b[j]
    <3>1. taken[j] = NoBlob
      BY <2>3
    <3>2. c[j].size = b[j].size /\ taken[j].size = 0
      BY <2>1, <2>3, <3>1
    <3> QED
      BY <2>1, <3>2
  <2> QED
    BY <2>2, <2>3
<1>3. BlobSum(b) = Sum(f, NodeIds) /\ BlobSum(taken) = Sum(g, NodeIds) /\ BlobSum(c) = Sum(h, NodeIds)
  BY <1>1, TotalIs DEF BlobSum
<1> HIDE DEF f, g, h
<1>4. Sum(h, NodeIds) = Sum(f, NodeIds) - Sum(g, NodeIds)
  BY <1>2, NodeSumDifference
<1> QED
  BY <1>3, <1>4

(* What a step does to the rows and blobs it leaves or makes bare.          *)
CounterKept == UsedIsSum /\ ~UsedIsSum' => \E i \in NodeIds : Bare(i)

BareKept == \A i \in NodeIds : Bare(i)' => Bare(i) \/ node[i] = Gone

LEMMA CounterMoves ==
  ASSUME used = BlobSum(blob) => used' = BlobSum(blob')
  PROVE  CounterKept
BY DEF CounterKept, UsedIsSum, BlobSum

LEMMA CounterSame ==
  ASSUME UNCHANGED <<blob, used>>
  PROVE  CounterKept
BY DEF CounterKept, UsedIsSum

LEMMA SavesCounted ==
  ASSUME FileBase, NEW K \in Kinds, TablesOk(K), NEW q \in Uploads \cup Syncs, NEW row, Saves(q, row)
  PROVE  CounterKept /\ BareKept
<1>1. /\ NextKey \in NodeIds /\ node[NextKey] = Unused /\ row \in Row
      /\ node' = [node EXCEPT ![NextKey] = row] /\ node \in Trees
  BY InsertedBase, FileTypes DEF Saves, Inserted1, FileBase
<1>2. blob \in [NodeIds -> Blobs] /\ files \in Nat /\ used \in Int
  BY FileTypes DEF FileBase, StoreTyped
<1>3. q.size \in Sizes
  BY DEF Uploads, Syncs
<1> DEFINE new == [size |-> q.size, file |-> files + 1]
<1>4. new \in Blobs /\ new # NoBlob /\ new.size = q.size
  <2>1. files + 1 \in Nat \ {0}
    BY <1>2
  <2> QED
    BY <1>3, <2>1, SizeFacts
<1>5. blob' = [blob EXCEPT ![NextKey] = new] /\ used' = used + q.size
  BY DEF Saves
<1> HIDE DEF new
<1>6. blob[NextKey] = NoBlob
  BY <1>1 DEF TablesOk, HasBlob, IsRow, Unused
<1>7. BlobSum(blob') = BlobSum(blob) + q.size
  <2>1. BlobSum(blob') = BlobSum(blob) - blob[NextKey].size + new.size
    BY <1>1, <1>2, <1>4, <1>5, BlobSumPut
  <2>2. BlobSum(blob) \in Int /\ q.size \in Nat
    BY <1>2, <1>3, BlobSumType, SizeFacts
  <2> QED
    BY <1>4, <1>6, <2>1, <2>2, SizeFacts
<1>8. CounterKept
  BY <1>5, <1>7, CounterMoves
<1>9. ASSUME NEW i \in NodeIds, Bare(i)' PROVE Bare(i)
  <2>1. CASE i = NextKey
    BY <1>1, <1>2, <1>4, <1>5, <1>9, <2>1 DEF Bare, HasBlob
  <2>2. CASE i # NextKey
    <3>1. node'[i] = node[i] /\ blob'[i] = blob[i]
      BY <1>1, <1>2, <1>5, <2>2 DEF Trees
    <3> QED
      BY <1>9, <3>1 DEF Bare, HasBlob, IsRow
  <2> QED
    BY <2>1, <2>2
<1> QED
  BY <1>8, <1>9 DEF BareKept

LEMMA ReplacesCounted ==
  ASSUME FileBase, NEW K \in Kinds, TablesOk(K), NEW q \in Syncs, Replaces(q), q.id # Root => K[q.id] = "file"
  PROVE  CounterKept /\ BareKept
<1>1. /\ q.id \in NodeIds /\ IsRow(node, q.id) /\ K[q.id] = "file" /\ Marked(node')
      /\ blob[q.id] = q.old \/ blob[q.id] = NoBlob
  BY RootIsNoKey DEF Replaces
<1>2. blob \in [NodeIds -> Blobs] /\ files \in Nat /\ used \in Int
  BY FileTypes DEF FileBase, StoreTyped
<1>3. q.size \in Sizes /\ q.size \in Nat /\ q.old \in Blobs /\ q.old.size \in Nat
  BY SizeFacts DEF Syncs
<1> DEFINE new == [size |-> q.size, file |-> files + 1]
<1>4. new \in Blobs /\ new # NoBlob /\ new.size = q.size
  <2>1. files + 1 \in Nat \ {0}
    BY <1>2
  <2> QED
    BY <1>3, <2>1, SizeFacts
<1>5. blob' = [blob EXCEPT ![q.id] = new] /\ used' = used - q.old.size + q.size
  BY DEF Replaces
<1> HIDE DEF new
<1>6. ASSUME blob[q.id] = q.old PROVE CounterKept
  <2>1. BlobSum(blob') = BlobSum(blob) - q.old.size + q.size
    BY <1>1, <1>2, <1>4, <1>5, <1>6, BlobSumPut
  <2> QED
    BY <1>5, <2>1, CounterMoves
<1>7. ASSUME blob[q.id] = NoBlob PROVE CounterKept
  <2>1. node[q.id].kind = "file"
    BY <1>1 DEF TablesOk, RowOk
  <2>2. q.id \in NodeIds /\ Bare(q.id)
    BY <1>1, <1>7, <2>1 DEF Bare, HasBlob
  <2> QED
    BY <2>2 DEF CounterKept
<1>8. ASSUME NEW i \in NodeIds, Bare(i)' PROVE Bare(i)
  <2>1. i # q.id
    BY <1>2, <1>4, <1>5, <1>8 DEF Bare, HasBlob
  <2>2. blob'[i] = blob[i]
    BY <1>2, <1>5, <2>1
  <2>3. IsRow(node, i) /\ node'[i].kind = node[i].kind
    BY <1>1, <1>8, MarkedRows DEF Bare, SamePlace, IsRow
  <2> QED
    BY <1>8, <2>2, <2>3 DEF Bare, HasBlob
<1> QED
  BY <1>1, <1>6, <1>7, <1>8 DEF BareKept

LEMMA ErasedCounted ==
  ASSUME FileBase, NEW K \in Kinds, TablesOk(K), NEW q \in Deletes, Erased(q), blob' \in [NodeIds -> Blobs],
         \A i \in NodeIds : q.blobs[i] # NoBlob => i \in q.nodes /\ K[i] = "file"
  PROVE  CounterKept /\ BareKept
<1>1. blob \in [NodeIds -> Blobs] /\ q.blobs \in [NodeIds -> Blobs]
  BY FileTypes DEF FileBase, StoreTyped, Deletes
<1>2. /\ \A i \in NodeIds : blob'[i] = IF q.blobs[i] = blob[i] THEN NoBlob ELSE blob[i]
      /\ used' = used - BlobSum(q.blobs)
      /\ \A i \in NodeIds : q.blobs[i] # NoBlob => IsRow(node, i)
      /\ \A i \in q.nodes : blob'[i] = NoBlob
      /\ node' = [i \in NodeIds |-> IF i \in q.nodes /\ IsRow(node, i) THEN Gone ELSE node[i]]
  BY DEF Erased, BlobSum
<1>3. ASSUME \A i \in NodeIds : q.blobs[i] # NoBlob => q.blobs[i] = blob[i] PROVE CounterKept
  <2>1. BlobSum(blob') = BlobSum(blob) - BlobSum(q.blobs)
    BY <1>1, <1>2, <1>3, BlobSumErased
  <2> QED
    BY <1>2, <2>1, CounterMoves
<1>4. ASSUME NEW i \in NodeIds, q.blobs[i] # NoBlob, q.blobs[i] # blob[i] PROVE CounterKept
  <2>1. blob'[i] = NoBlob /\ blob'[i] = blob[i] /\ IsRow(node, i) /\ K[i] = "file"
    BY <1>2, <1>4
  <2>2. Bare(i)
    BY <2>1 DEF Bare, HasBlob, TablesOk, RowOk
  <2> QED
    BY <2>2 DEF CounterKept
<1>5. ASSUME NEW i \in NodeIds, Bare(i)' PROVE Bare(i)
  <2>1. IsRow(node', i) /\ node'[i].kind = "file" /\ blob'[i] = NoBlob
    BY <1>5 DEF Bare, HasBlob
  <2>2. node'[i] = node[i] /\ ~(i \in q.nodes /\ IsRow(node, i))
    BY <1>2, <2>1 DEF IsRow, Gone
  <2>3. IsRow(node, i) /\ i \notin q.nodes
    BY <2>1, <2>2 DEF IsRow
  <2>4. blob[i] = NoBlob
    BY <1>2, <2>1, <2>3
  <2> QED
    BY <2>1, <2>2, <2>3, <2>4 DEF Bare, HasBlob
<1> QED
  BY <1>3, <1>4, <1>5 DEF BareKept

(* Rows that are left where they are, inserted as folders or written back.  *)
LEMMA RewrittenBare ==
  ASSUME FileBase, NEW K \in Kinds, TablesOk(K), blob' = blob,
         \A i \in NodeIds : \/ node'[i] = node[i]
                            \/ node[i] \in Row \cup {Gone} /\ node'[i].kind = K[i]
                            \/ node'[i].kind = "folder"
  PROVE  BareKept
<1> SUFFICES ASSUME NEW i \in NodeIds, Bare(i)' PROVE Bare(i) \/ node[i] = Gone
  BY DEF BareKept
<1>1. IsRow(node', i) /\ node'[i].kind = "file" /\ ~HasBlob(i)
  BY DEF Bare, HasBlob
<1>2. CASE node'[i] = node[i]
  BY <1>1, <1>2 DEF Bare, IsRow
<1>3. CASE node[i] \in Row /\ node'[i].kind = K[i]
  <2>1. IsRow(node, i)
    BY <1>3 DEF IsRow, Row
  <2>2. node[i].kind = "file"
    BY <1>1, <1>3, <2>1 DEF TablesOk, RowOk
  <2> QED
    BY <1>1, <2>1, <2>2 DEF Bare
<1> QED
  BY <1>1, <1>2, <1>3

LEMMA BareSame ==
  ASSUME UNCHANGED <<node, blob>>
  PROVE  BareKept
BY DEF BareKept, Bare, HasBlob, IsRow

LEMMA NotUnused ==
  ASSUME FileBase, NEW K \in Kinds, TablesOk(K), NEW i \in NodeIds, K[i] # "unused"
  PROVE  node[i] \in Row \cup {Gone}
BY FileTypes, RowFacts DEF TablesOk, FileBase

LEMMA TreeCommitCounted ==
  ASSUME FileInv, NEW r \in Slots, TreeCommit(r), UNCHANGED storeVars
  PROVE  CounterKept /\ BareKept
<1>0. FileBase /\ blob' = blob /\ used' = used /\ node \in Trees
  BY FileTypes DEF FileInv, storeVars, FileBase
<1>k. PICK K \in Kinds : TablesOk(K) /\ \A s \in Slots : RequestOk(K, req[s])
  BY DEF FileInv
<1>s. node' = node => BareKept
  BY <1>0, BareSame
<1>c. CounterKept
  BY <1>0, CounterSame
<1>b. (\A i \in NodeIds : \/ node'[i] = node[i]
                          \/ node[i] \in Row \cup {Gone} /\ node'[i].kind = K[i]
                          \/ node'[i].kind = "folder") => BareKept
  BY <1>0, <1>k, RewrittenBare
<1>1. ASSUME CommitCreate(r) PROVE BareKept
  <2>1. ASSUME NEW row, Inserted1(row), row.kind = "folder" PROVE BareKept
    <3>1. node' = [node EXCEPT ![NextKey] = row] /\ NextKey \in NodeIds
      BY <2>1, KeyFacts DEF Inserted1
    <3>2. \A i \in NodeIds : node'[i] = node[i] \/ node'[i].kind = "folder"
      BY <1>0, <2>1, <3>1 DEF Trees
    <3> QED
      BY <1>b, <3>2
  <2> QED
    BY <1>0, <1>1, <1>s, <2>1, CommitCreateIs
<1>2. ASSUME CommitMove(r) PROVE BareKept
  <2> DEFINE q == req[r]
  <2>1. q \in Moves /\ (node' = node \/ node' = MovedTree(q))
    BY <1>0, <1>2, CommitMoveIs
  <2>2. q.row.kind = K[q.id] /\ q.id \in NodeIds /\ q.row.kind \in {"folder", "file"}
    BY <1>k, <2>1 DEF RequestOk, Moves, RowOk, Row
  <2> HIDE DEF q
  <2>3. node[q.id] \in Row \cup {Gone}
    BY <1>0, <1>k, <2>2, NotUnused
  <2>4. ASSUME node' = MovedTree(q), NEW i \in NodeIds
        PROVE  node'[i] = node[i] \/ (node[i] \in Row \cup {Gone} /\ node'[i].kind = K[i])
    <3>1. i # q.id => node'[i] = Relocated(q)[i]
      BY <2>4 DEF MovedTree
    <3>2. i = q.id => node'[i] = MovedRow(q)
      BY <2>2, <2>4 DEF MovedTree, Relocated
    <3>3. CASE i = q.id
      BY <2>1, <2>2, <2>3, <3>2, <3>3, MovedRowFacts
    <3>4. CASE i # q.id /\ Relocates(q, i)
      <4>1. IsRow(node, i) /\ node[i].kind = K[i]
        BY <1>k, <3>4 DEF Relocates, TablesOk, RowOk
      <4> QED
        BY <1>0, <2>1, <3>1, <3>4, <4>1, RelocatedFacts
    <3>5. CASE i # q.id /\ ~Relocates(q, i)
      BY <1>0, <2>1, <3>1, <3>5, RelocatedFacts
    <3> QED
      BY <3>3, <3>4, <3>5
  <2> QED
    BY <1>b, <1>s, <2>1, <2>4
<1>3. ASSUME CommitStar(r) PROVE BareKept
  <2> DEFINE q == req[r]
             row == SavedRow(q)
  <2>1. q \in OnRows /\ q.op = "star"
        /\ (node' = node \/ (node' = [node EXCEPT ![q.id] = row] /\ row.kind = q.row.kind))
    BY <1>0, <1>3, CommitStarIs DEF CommitStar
  <2>2. q.row.kind = K[q.id] /\ q.id \in NodeIds /\ q.row.kind \in {"folder", "file"}
    BY <1>k, <2>1 DEF RequestOk, OnRows, RowOk, Row
  <2> HIDE DEF q, row
  <2>3. node[q.id] \in Row \cup {Gone}
    BY <1>0, <1>k, <2>2, NotUnused
  <2>4. node' # node => \A i \in NodeIds : \/ node'[i] = node[i]
                                           \/ node[i] \in Row \cup {Gone} /\ node'[i].kind = K[i]
    BY <1>0, <2>1, <2>2, <2>3 DEF Trees
  <2> QED
    BY <1>b, <1>s, <2>4
<1>4. ASSUME CommitTrash(r) \/ CommitSetAI(r) \/ CommitRestore(r) PROVE BareKept
  <2>1. Marked(node')
    BY <1>0, <1>4, CommitMarksIs
  <2>2. \A i \in NodeIds : \/ node'[i] = node[i]
                           \/ node[i] \in Row /\ node'[i].kind = node[i].kind
    BY <2>1 DEF Marked, SamePlace
  <2>3. \A i \in NodeIds : node[i] \in Row => node[i].kind = K[i]
    BY <1>0, <1>k, RowFacts DEF TablesOk, RowOk
  <2> QED
    BY <1>b, <2>2, <2>3
<1>5. ASSUME RestoreExpired(r) \/ Crash(r) PROVE BareKept
  BY <1>0, <1>5, <1>s, NoRowWritten
<1> QED
  BY <1>c, <1>1, <1>2, <1>3, <1>4, <1>5 DEF TreeCommit

LEMMA StoreStepCounted ==
  ASSUME FileInv, FileBase', NEW r \in Slots,
         \/ CommitUpload(r) \/ PurgeFiles(r) \/ PurgeRows(r) \/ WalkInto(r) \/ WalkCreate(r)
         \/ WalkFails(r) \/ ReadFile(r) \/ CommitSync(r) \/ CountSync(r)
  PROVE  CounterKept /\ BareKept
<1>0. FileBase /\ node \in Trees /\ blob' \in [NodeIds -> Blobs]
  BY FileTypes DEF FileInv, FileBase, FilesTypeOK
<1>k. PICK K \in Kinds : TablesOk(K) /\ \A s \in Slots : RequestOk(K, req[s])
  BY DEF FileInv
<1>s. UNCHANGED <<node, blob, used>> => CounterKept /\ BareKept
  BY BareSame, CounterSame
<1>c. UNCHANGED <<blob, used>> => CounterKept
  BY CounterSame
<1>1. CASE CommitUpload(r)
  <2>1. req[r] \in Uploads /\ SaveFile(req[r])
    BY <1>0, <1>1, RequestOf, RequestByOp DEF CommitUpload
  <2> QED
    BY <1>0, <1>k, <1>s, <2>1, SaveFileIs, SavesCounted
<1>2. CASE PurgeRows(r)
  <2>1. req[r] \in Deletes /\ (UNCHANGED <<node, blob, used>> \/ Erased(req[r]))
    BY <1>0, <1>2, PurgeRowsIs
  <2>2. \A i \in NodeIds : req[r].blobs[i] # NoBlob => i \in req[r].nodes /\ K[i] = "file"
    BY <1>k, <2>1 DEF RequestOk, Deletes
  <2> QED
    BY <1>0, <1>k, <1>s, <2>1, <2>2, ErasedCounted
<1>3. CASE WalkInto(r)
  <2>1. Marked(node') /\ blob' = blob /\ used' = used
    BY <1>0, <1>3, WalkIntoIs DEF WalkInto, storeVars
  <2>2. \A i \in NodeIds : \/ node'[i] = node[i]
                           \/ node[i] \in Row /\ node'[i].kind = node[i].kind
    BY <2>1 DEF Marked, SamePlace
  <2>3. \A i \in NodeIds : node[i] \in Row => node[i].kind = K[i]
    BY <1>0, <1>k, RowFacts DEF TablesOk, RowOk
  <2>4. BareKept
    BY <1>0, <1>k, <2>1, <2>2, <2>3, RewrittenBare
  <2> QED
    BY <1>c, <2>1, <2>4
<1>4. CASE WalkCreate(r)
  <2>1. PICK row : Inserted1(row) /\ row.kind = "folder"
    BY <1>0, <1>4, WalkCreateIs
  <2>2. node' = [node EXCEPT ![NextKey] = row] /\ NextKey \in NodeIds /\ blob' = blob /\ used' = used
    BY <1>4, <2>1, KeyFacts DEF Inserted1, WalkCreate, storeVars
  <2>3. \A i \in NodeIds : node'[i] = node[i] \/ node'[i].kind = "folder"
    BY <1>0, <2>1, <2>2 DEF Trees
  <2>4. BareKept
    BY <1>0, <1>k, <2>2, <2>3, RewrittenBare
  <2> QED
    BY <1>c, <2>2, <2>4
<1>5. CASE PurgeFiles(r) \/ WalkFails(r) \/ ReadFile(r) \/ CountSync(r)
  BY <1>5, <1>s DEF PurgeFiles, WalkFails, ReadFile, CountSync, storeVars
<1>6. CASE CommitSync(r)
  <2>1. /\ req[r] \in Syncs
        /\ \/ UNCHANGED <<node, blob, used>>
           \/ req[r].id = Root /\ \E row : Saves(req[r], row)
           \/ req[r].id # Root /\ Replaces(req[r])
    BY <1>0, <1>6, CommitSyncIs
  <2>2. req[r].id # Root => K[req[r].id] = "file"
    BY <1>k, <2>1 DEF RequestOk, Syncs
  <2>3. CASE \E row : Saves(req[r], row)
    BY <1>0, <1>k, <2>1, <2>3, SavesCounted
  <2>4. CASE Replaces(req[r])
    BY <1>0, <1>k, <2>1, <2>2, <2>4, ReplacesCounted
  <2> QED
    BY <1>s, <2>1, <2>3, <2>4
<1> QED
  BY <1>1, <1>2, <1>3, <1>4, <1>5, <1>6

LEMMA CounterStep ==
  ASSUME FileInv, FileNext
  PROVE  CounterKept /\ BareKept
<1>0. FileBase'
  BY BaseNext DEF FileInv
<1>1. CASE \E r \in Slots : FreeSlot(r) /\ \E u \in members : FileStart(r, u)
  <2>1. PICK r \in Slots, u \in members : FileStart(r, u)
    BY <1>1
  <2>2. PICK q \in Requests : Begin(r, q) /\ UNCHANGED storeVars
    BY <2>1, StartIs DEF FileInv
  <2>3. UNCHANGED <<node, blob, used>>
    BY <2>2 DEF Begin, storeVars
  <2> QED
    BY <2>3, BareSame, CounterSame
<1>2. CASE \E r \in Slots : FileStep(r)
  BY <1>0, <1>2, TreeCommitCounted, StoreStepCounted DEF FileStep
<1>3. CASE PassDay /\ UNCHANGED storeVars
  <2>1. UNCHANGED <<node, blob, used>>
    BY <1>3 DEF PassDay, storeVars
  <2> QED
    BY <2>1, BareSame, CounterSame
<1> QED
  BY <1>1, <1>2, <1>3 DEF FileNext

(* The quotas.                                                              *)
QuotaKept ==
  \A r \in Slots : req'[r] # req[r] =>
    /\ req[r].op = "upload" /\ used' > used /\ used' > TotalSize => req[r].read # used
    /\ req[r].op = "count" /\ syncUsed' > syncUsed /\ syncUsed' > SyncTotal => req[r].read # syncUsed

LEMMA OtherSlots ==
  ASSUME FileBase, NEW r \in Slots, NEW w, req' = [req EXCEPT ![r] = w], NEW s \in Slots, s # r
  PROVE  req'[s] = req[s]
BY FileTypes DEF FileBase

LEMMA QuotaStep ==
  ASSUME FileInv, FileNext
  PROVE  QuotaKept
<1>0. FileBase /\ used \in Int /\ syncUsed \in Int /\ TotalSize \in Nat /\ SyncTotal \in Nat
  BY FileTypes, FilesAssumption DEF FileInv, FileBase, StoreTyped
<1>k. PICK K \in Kinds : \A s \in Slots : RequestOk(K, req[s])
  BY DEF FileInv
<1>u. UNCHANGED <<used, syncUsed>> => QuotaKept
  BY <1>0 DEF QuotaKept
<1>o. ASSUME NEW r \in Slots, NEW w, req' = [req EXCEPT ![r] = w],
             /\ req[r].op = "upload" /\ used' > used /\ used' > TotalSize => req[r].read # used
             /\ req[r].op = "count" /\ syncUsed' > syncUsed /\ syncUsed' > SyncTotal => req[r].read # syncUsed
      PROVE  QuotaKept
  BY <1>0, <1>o, OtherSlots DEF QuotaKept
<1>1. CASE \E r \in Slots : FreeSlot(r) /\ \E u \in members : FileStart(r, u)
  <2>1. PICK r \in Slots, u \in members : FileStart(r, u)
    BY <1>1
  <2>2. UNCHANGED storeVars
    BY <1>0, <2>1, StartIs
  <2> QED
    BY <1>u, <2>2 DEF storeVars
<1>2. CASE PassDay /\ UNCHANGED storeVars
  BY <1>2, <1>u DEF storeVars
<1>3. ASSUME NEW r \in Slots, FileStep(r) PROVE QuotaKept
  <2>1. CASE CommitUpload(r)
    <3>1. req[r] \in Uploads /\ SaveFile(req[r]) /\ req' = [req EXCEPT ![r] = Idle]
      BY <1>0, <2>1, RequestOf, RequestByOp DEF CommitUpload, Finish
    <3>2. used' = used \/ used' = used + req[r].size
      BY <1>0, <3>1, SaveFileIs DEF Saves
    <3>3. req[r].read + req[r].size <= TotalSize /\ req[r].op = "upload" /\ req[r].size \in Nat
      BY <1>k, <3>1, SizeFacts DEF RequestOk, Uploads
    <3>4. req[r].read = used => ~(used' > used /\ used' > TotalSize)
      BY <1>0, <3>2, <3>3
    <3> QED
      BY <1>o, <3>1, <3>3, <3>4
  <2>2. CASE CountSync(r)
    <3>1. req[r] \in FileCounts /\ req[r].op = "count" /\ req[r].delta \in Int
          /\ req' = [req EXCEPT ![r] = Idle] /\ syncUsed' = syncUsed + req[r].delta
      BY <1>0, <2>2, RequestOf, RequestByOp DEF CountSync, Finish, FileCounts
    <3>2. req[r].delta > 0 => req[r].read + req[r].delta <= SyncTotal
      BY <1>k, <3>1 DEF RequestOk
    <3>3. req[r].read = syncUsed => ~(syncUsed' > syncUsed /\ syncUsed' > SyncTotal)
      BY <1>0, <3>1, <3>2
    <3> QED
      BY <1>o, <3>1, <3>3
  <2>3. CASE PurgeRows(r)
    <3>1. req[r] \in Deletes /\ req' = [req EXCEPT ![r] = Idle]
      BY <1>0, <2>3, PurgeRowsIs
    <3> QED
      BY <1>o, <3>1 DEF Deletes
  <2>4. CASE CommitSync(r)
    <3>1. req[r] \in Syncs /\ \E w : req' = [req EXCEPT ![r] = w]
      BY <1>0, <2>4, CommitSyncIs
    <3> QED
      BY <1>o, <3>1 DEF Syncs
  <2>5. CASE TreeCommit(r) /\ UNCHANGED storeVars
    BY <1>u, <2>5 DEF storeVars
  <2>6. CASE PurgeFiles(r) \/ WalkInto(r) \/ WalkCreate(r) \/ WalkFails(r) \/ ReadFile(r)
    BY <1>u, <2>6 DEF PurgeFiles, WalkInto, WalkCreate, WalkFails, ReadFile, storeVars
  <2> QED
    BY <1>3, <2>1, <2>2, <2>3, <2>4, <2>5, <2>6 DEF FileStep
<1> QED
  BY <1>1, <1>2, <1>3 DEF FileNext

-----------------------------------------------------------------------------
(* Paths.                                                                   *)

(* A prefix, name by name.                                                  *)
LEMMA PrefixIs ==
  ASSUME NEW p \in Seq(Names), NEW q \in Seq(Names)
  PROVE  IsPrefix(p, q) <=> Len(p) <= Len(q) /\ \A k \in 1..Len(p) : p[k] = q[k]
<1>1. Len(p) \in Nat /\ Len(q) \in Nat
  OBVIOUS
<1> DEFINE a == SubSeq(p, 1, Len(p))
           b == SubSeq(q, 1, Len(p))
<1>2. a \in Seq(Names) /\ Len(a) = Len(p) /\ \A k \in 1..Len(p) : a[k] = p[k]
  BY <1>1
<1>3. ASSUME Len(p) <= Len(q)
      PROVE  b \in Seq(Names) /\ Len(b) = Len(p) /\ \A k \in 1..Len(p) : b[k] = q[k]
  BY <1>1, <1>3
<1> HIDE DEF a, b
<1>4. ASSUME Len(p) <= Len(q), \A k \in 1..Len(p) : p[k] = q[k] PROVE a = b
  BY <1>1, <1>2, <1>3, <1>4
<1> QED
  BY <1>2, <1>3, <1>4 DEF IsPrefix, a, b

LEMMA AppendFacts ==
  ASSUME NEW p \in Seq(Names), NEW n \in Names
  PROVE  /\ Append(p, n) \in Seq(Names) /\ Len(Append(p, n)) = Len(p) + 1 /\ Append(p, n)[Len(p) + 1] = n
         /\ \A k \in 1..Len(p) : Append(p, n)[k] = p[k]
OBVIOUS

(* What is above a child is its parent or above its parent.                 *)
LEMMA AboveChild ==
  ASSUME NEW old \in Seq(Names), NEW p \in Seq(Names), NEW n \in Names
  PROVE  IsStrictPrefix(old, Append(p, n)) <=> old = p \/ IsStrictPrefix(old, p)
<1>1. PICK c \in Seq(Names) : c = Append(p, n)
  BY AppendFacts
<1>2. Len(c) = Len(p) + 1 /\ \A k \in 1..Len(p) : c[k] = p[k]
  BY <1>1, AppendFacts
<1>3. Len(old) \in Nat /\ Len(p) \in Nat /\ Len(c) \in Nat
  OBVIOUS
<1>4. ASSUME IsPrefix(old, c), old # c PROVE IsPrefix(old, p)
  <2>1. Len(old) <= Len(c) /\ \A k \in 1..Len(old) : old[k] = c[k]
    BY <1>4, PrefixIs
  <2>2. Len(old) # Len(c)
    BY <1>4, <2>1
  <2>3. Len(old) <= Len(p) /\ \A k \in 1..Len(old) : old[k] = p[k]
    BY <1>2, <1>3, <2>1, <2>2
  <2> QED
    BY <2>3, PrefixIs
<1>5. ASSUME IsPrefix(old, p) PROVE IsPrefix(old, c) /\ old # c
  <2>1. Len(old) <= Len(p) /\ \A k \in 1..Len(old) : old[k] = p[k]
    BY <1>5, PrefixIs
  <2>2. Len(old) <= Len(c) /\ Len(old) # Len(c) /\ \A k \in 1..Len(old) : old[k] = c[k]
    BY <1>2, <1>3, <2>1
  <2> QED
    BY <2>2, PrefixIs
<1>6. IsPrefix(p, p)
  BY PrefixIs
<1> QED
  BY <1>1, <1>4, <1>5, <1>6 DEF IsStrictPrefix

(* A path below old, moved below new.                                       *)
Moved(p, old, new) == new \o SubSeq(p, Len(old) + 1, Len(p))

LEMMA MovedChild ==
  ASSUME NEW old \in Seq(Names), NEW new \in Seq(Names), NEW p \in Seq(Names), NEW n \in Names,
         Len(old) <= Len(p)
  PROVE  Moved(Append(p, n), old, new) = Append(Moved(p, old, new), n)
<1>1. PICK c \in Seq(Names) : c = Append(p, n)
  BY AppendFacts
<1>2. Len(c) = Len(p) + 1 /\ c[Len(p) + 1] = n /\ \A k \in 1..Len(p) : c[k] = p[k]
  BY <1>1, AppendFacts
<1>3. Len(old) \in Nat /\ Len(p) \in Nat /\ Len(new) \in Nat
  OBVIOUS
<1> DEFINE s == SubSeq(p, Len(old) + 1, Len(p))
           t == SubSeq(c, Len(old) + 1, Len(c))
<1>4. /\ s \in Seq(Names) /\ Len(s) = Len(p) - Len(old)
      /\ \A k \in 1..(Len(p) - Len(old)) : s[k] = p[Len(old) + k]
  BY <1>3
<1>5. /\ t \in Seq(Names) /\ Len(t) = Len(p) + 1 - Len(old)
      /\ \A k \in 1..(Len(p) + 1 - Len(old)) : t[k] = c[Len(old) + k]
  BY <1>2, <1>3
<1> HIDE DEF s, t
<1>6. PICK u \in Seq(Names) : /\ u = Append(s, n) /\ Len(u) = Len(s) + 1 /\ u[Len(s) + 1] = n
                              /\ \A k \in 1..Len(s) : u[k] = s[k]
  BY <1>4, AppendFacts
<1>l. Len(s) \in Nat /\ Len(t) = Len(s) + 1 /\ Len(old) + Len(s) = Len(p)
  BY <1>3, <1>4, <1>5
<1>7. \A k \in 1..Len(t) : t[k] = u[k]
  <2> SUFFICES ASSUME NEW k \in 1..Len(t) PROVE t[k] = u[k]
    OBVIOUS
  <2>1. CASE k = Len(s) + 1
    BY <1>2, <1>3, <1>4, <1>5, <1>6, <2>1
  <2>2. CASE k # Len(s) + 1
    <3>1. k \in 1..Len(s) /\ Len(old) + k \in 1..Len(p)
      BY <1>3, <1>l, <2>2
    <3>2. t[k] = p[Len(old) + k]
      BY <1>2, <1>5, <3>1
    <3> QED
      BY <1>4, <1>6, <3>1, <3>2
  <2> QED
    BY <2>1, <2>2
<1>8. t = u
  <2>1. t \in Seq(Names) /\ u \in Seq(Names) /\ Len(t) = Len(u)
    BY <1>5, <1>6, <1>l
  <2> QED
    BY <1>7, <2>1, SeqEqual
<1>9. new \o Append(s, n) = Append(new \o s, n)
  BY <1>4
<1> QED
  BY <1>1, <1>6, <1>8, <1>9 DEF Moved, s, t

LEMMA MovedSelf ==
  ASSUME NEW old \in Seq(Names), NEW new \in Seq(Names)
  PROVE  Moved(old, old, new) = new
<1>1. SubSeq(old, Len(old) + 1, Len(old)) = <<>>
  OBVIOUS
<1> QED
  BY <1>1 DEF Moved

LEMMA ShortPath ==
  ASSUME NEW p \in Seq(Names), NEW m \in Names, NEW n \in Names
  PROVE  ~IsStrictPrefix(Append(p, m), Append(<<>>, n))
<1>1. <<>> \in Seq(Names) /\ Append(p, m) \in Seq(Names) /\ Len(Append(p, m)) = Len(p) + 1 /\ Len(p) \in Nat
  BY AppendFacts
<1>2. Append(p, m) # <<>>
  BY <1>1
<1>3. ~IsStrictPrefix(Append(p, m), <<>>)
  BY <1>1 DEF IsStrictPrefix, IsPrefix
<1> QED
  BY <1>1, <1>2, <1>3, AboveChild

-----------------------------------------------------------------------------
(* The tree.                                                                *)

LEMMA TreeOKIs ==
  TreeOK <=> \A i \in NodeIds : IsRow(node, i) => WellPlaced(node, i)
BY DEF TreeOK, Rows

LEMMA TreeOKNext ==
  TreeOK' <=> \A i \in NodeIds : IsRow(node', i) => WellPlaced(node', i)
BY DEF TreeOK, Rows, WellPlaced, IsRow, PathIn

(* Rows that stay where they are, and new ones in their place.              *)
LEMMA TreeCarried ==
  ASSUME TreeOK, Consistent(node'),
         \A i \in NodeIds : IsRow(node', i) =>
           \/ /\ IsRow(node, i) /\ node'[i].parent = node[i].parent /\ node'[i].name = node[i].name
              /\ node'[i].path = node[i].path
           \/ /\ ~IsRow(node, i)
              /\ node'[i].parent = Root \/ IsRow(node, node'[i].parent)
              /\ node'[i].path = Append(PathIn(node, node'[i].parent), node'[i].name)
  PROVE  TreeOK'
<1> SUFFICES ASSUME NEW i \in NodeIds, IsRow(node', i) PROVE WellPlaced(node', i)
  BY TreeOKNext
<1> DEFINE p == node'[i].parent
<1>1. p = Root \/ IsRow(node', p)
  BY ConsistentIs
<1>2. p = Root \/ IsRow(node, p)
  BY TreeOKIs DEF WellPlaced
<1>3. node'[i].path = Append(PathIn(node, p), node'[i].name)
  BY TreeOKIs DEF WellPlaced
<1>4. PathIn(node', p) = PathIn(node, p)
  <2>1. CASE p = Root
    BY <2>1 DEF PathIn
  <2>2. CASE p # Root
    <3>1. IsRow(node', p) /\ IsRow(node, p) /\ p \in NodeIds
      BY <1>1, <1>2, <2>2 DEF IsRow
    <3>2. node'[p].path = node[p].path
      BY <3>1
    <3> QED
      BY <2>2, <3>2 DEF PathIn
  <2> QED
    BY <2>1, <2>2
<1> QED
  BY <1>1, <1>3, <1>4 DEF WellPlaced

LEMMA TreeMarked ==
  ASSUME FileBase, TreeOK, Marked(node')
  PROVE  TreeOK'
BY MarkedRows, TreeCarried DEF SamePlace

LEMMA TreeErased ==
  ASSUME FileBase, TreeOK, NEW q \in Deletes, Erased(q)
  PROVE  TreeOK'
<1>1. \A i \in NodeIds : IsRow(node', i) => IsRow(node, i) /\ node'[i] = node[i]
  BY DEF Erased, IsRow, Gone
<1> QED
  BY <1>1, TreeCarried DEF Erased

LEMMA TreeInserted ==
  ASSUME FileBase, TreeOK, NEW K \in Kinds, TablesOk(K), NEW row, Inserted1(row),
         ParentOk(K, row.parent), row.path = Append(PathIn(node, row.parent), row.name)
  PROVE  TreeOK'
<1>0. NextKey \in NodeIds /\ node[NextKey] = Unused /\ node \in Trees /\ node' = [node EXCEPT ![NextKey] = row]
      /\ Consistent(node')
  BY KeyFacts, FileTypes DEF FileBase, Inserted1
<1>1. node'[NextKey] = row /\ \A i \in NodeIds : i # NextKey => node'[i] = node[i]
  BY <1>0 DEF Trees
<1>2. K[NextKey] = "unused" /\ ~IsRow(node, NextKey)
  BY <1>0 DEF TablesOk, IsRow, Unused
<1>3. row.parent # NextKey
  BY <1>0, <1>2, RootIsNoKey DEF ParentOk
<1>4. IsRow(node', NextKey)
  BY <1>0, <1>1 DEF Inserted1, IsRow, Row
<1>5. row.parent = Root \/ IsRow(node, row.parent)
  <2>1. row.parent = Root \/ IsRow(node', row.parent)
    BY <1>0, <1>1, <1>4, ConsistentIs
  <2> QED
    BY <1>1, <1>3, <2>1 DEF IsRow
<1>6. ASSUME NEW i \in NodeIds, IsRow(node', i)
      PROVE  \/ /\ IsRow(node, i) /\ node'[i].parent = node[i].parent /\ node'[i].name = node[i].name
                /\ node'[i].path = node[i].path
             \/ /\ ~IsRow(node, i)
                /\ node'[i].parent = Root \/ IsRow(node, node'[i].parent)
                /\ node'[i].path = Append(PathIn(node, node'[i].parent), node'[i].name)
  <2>1. CASE i = NextKey
    BY <1>1, <1>2, <1>5, <2>1
  <2>2. CASE i # NextKey
    BY <1>1, <1>6, <2>2 DEF IsRow
  <2> QED
    BY <2>1, <2>2
<1> QED
  BY <1>0, <1>6, TreeCarried

(* A row that is written back as it is, but for its star.                   *)
LEMMA TreeStarred ==
  ASSUME FileBase, TreeOK, NEW r \in Slots, CommitStar(r), ~OutOfDate(req[r])
  PROVE  TreeOK'
<1> DEFINE q == req[r]
           row == SavedRow(q)
<1>0. node \in Trees
  BY FileTypes DEF FileBase
<1>1. /\ q \in OnRows /\ q.op = "star"
      /\ \/ node' = node
         \/ /\ node' = [node EXCEPT ![q.id] = row] /\ Consistent(node')
            /\ row.parent = q.row.parent /\ row.name = q.row.name
            /\ row.path = Append(PathIn(node, q.row.parent), q.row.name)
  BY CommitStarIs DEF CommitStar
<1>2. node[q.id] = q.row /\ q.id \in NodeIds /\ q.row \in Row
  BY <1>1 DEF OutOfDate, OnRows
<1> HIDE DEF q, row
<1>3. IsRow(node, q.id)
  BY <1>2 DEF IsRow, Row
<1>4. q.row.path = Append(PathIn(node, q.row.parent), q.row.name)
  BY <1>2, <1>3, TreeOKIs DEF WellPlaced
<1>5. CASE node' = node
  BY <1>5 DEF TreeOK, Rows, WellPlaced, IsRow, PathIn
<1>6. CASE node' # node
  <2>1. /\ node'[q.id] = row /\ Consistent(node') /\ row.path = q.row.path /\ row.parent = q.row.parent
        /\ row.name = q.row.name /\ \A i \in NodeIds : i # q.id => node'[i] = node[i]
    BY <1>0, <1>1, <1>2, <1>4, <1>6 DEF Trees
  <2>2. ASSUME NEW i \in NodeIds, IsRow(node', i)
        PROVE  /\ IsRow(node, i) /\ node'[i].parent = node[i].parent /\ node'[i].name = node[i].name
               /\ node'[i].path = node[i].path
    <3>1. CASE i = q.id
      BY <1>2, <1>3, <2>1, <3>1
    <3>2. CASE i # q.id
      BY <2>1, <2>2, <3>2 DEF IsRow
    <3> QED
      BY <3>1, <3>2
  <2> QED
    BY <2>1, <2>2, TreeCarried
<1> QED
  BY <1>5, <1>6

(* A folder that is moved takes what is below it along.                     *)
LEMMA TreeMoved ==
  ASSUME FileBase, TreeOK, NEW K \in Kinds, TablesOk(K), NEW q \in Moves, RequestOk(K, q),
         q.op = "move", ~OutOfDate(q), ~Recurs(q), node' = MovedTree(q), Consistent(node')
  PROVE  TreeOK'
<1> DEFINE old == q.row.path
           new == Append(q.base, q.name)
<1>0. /\ node \in Trees /\ q.id \in NodeIds /\ q.row \in Row /\ node[q.id] = q.row
      /\ q.base = PathIn(node, q.parent) /\ q.base \in Seq(Names) /\ q.name \in Names
  BY FileTypes DEF FileBase, Moves, OutOfDate
<1>1. old \in Seq(Names) /\ new \in Seq(Names) /\ IsRow(node, q.id)
  BY <1>0, AppendFacts DEF Row, IsRow
<1>2. q.parent # q.id /\ ~IsStrictPrefix(old, q.base) /\ q.row.kind = K[q.id]
  BY DEF RequestOk, RowOk
<1>3. ASSUME NEW j \in NodeIds, IsRow(node, j), IsStrictPrefix(old, node[j].path)
      PROVE  Replaced(node[j].path, old, new) = Moved(node[j].path, old, new)
  BY <1>3 DEF Recurs, Moved, Rows
<1>4. \A j \in NodeIds : IsRow(node, j) => node[j].path \in Seq(Names) /\ node[j].name \in Names
  BY <1>0, RowFacts DEF Row
<1>5. /\ node'[q.id].path = new /\ node'[q.id].parent = q.parent /\ node'[q.id].name = q.name
      /\ IsRow(node', q.id)
  <2>1. node'[q.id] = MovedRow(q)
    BY <1>0 DEF MovedTree, Relocated
  <2> QED
    BY <1>0, <2>1, MovedRowFacts DEF IsRow, Row
<1>6. ASSUME NEW j \in NodeIds, j # q.id
      PROVE  /\ IsRow(node', j) <=> IsRow(node, j)
             /\ IsRow(node, j) => /\ node'[j].parent = node[j].parent /\ node'[j].name = node[j].name
                                  /\ node'[j].path = IF Relocates(q, j) THEN Moved(node[j].path, old, new)
                                                     ELSE node[j].path
  <2>1. node'[j] = Relocated(q)[j]
    BY <1>6 DEF MovedTree
  <2>2. CASE Relocates(q, j)
    <3>1. IsRow(node, j) /\ IsStrictPrefix(old, node[j].path)
      BY <2>2 DEF Relocates
    <3>2. /\ Relocated(q)[j] \in Row /\ Relocated(q)[j].path = Replaced(node[j].path, old, new)
          /\ Relocated(q)[j].parent = node[j].parent /\ Relocated(q)[j].name = node[j].name
      BY <2>2, RelocatedFacts
    <3>3. IsRow(node', j)
      BY <2>1, <3>2 DEF IsRow, Row
    <3> QED
      BY <1>3, <2>1, <2>2, <3>1, <3>2, <3>3
  <2>3. CASE ~Relocates(q, j)
    <3>1. node'[j] = node[j]
      BY <2>1, <2>3, RelocatedFacts
    <3> QED
      BY <2>3, <3>1 DEF IsRow
  <2> QED
    BY <2>2, <2>3
<1> HIDE DEF old, new
<1>r. \A j : Relocates(q, j) <=> /\ q.row.kind = "folder" /\ old # new
                                 /\ IsRow(node, j) /\ IsStrictPrefix(old, node[j].path)
  BY DEF Relocates, old, new
<1> SUFFICES ASSUME NEW i \in NodeIds, IsRow(node', i) PROVE WellPlaced(node', i)
  BY TreeOKNext
<1>7. CASE i = q.id
  <2>1. q.parent = Root \/ IsRow(node', q.parent)
    BY <1>0, <1>5, ConsistentIs
  <2>2. PathIn(node', q.parent) = q.base
    <3>1. CASE q.parent = Root
      BY <1>0, <3>1 DEF PathIn
    <3>2. CASE q.parent # Root
      <4>1. q.parent \in NodeIds /\ IsRow(node, q.parent) /\ node[q.parent].path = q.base
        BY <1>0, <1>2, <1>6, <2>1, <3>2 DEF PathIn, IsRow
      <4>2. ~Relocates(q, q.parent)
        BY <1>2, <1>r, <4>1
      <4> QED
        BY <1>2, <1>6, <3>2, <4>1, <4>2 DEF PathIn
    <3> QED
      BY <3>1, <3>2
  <2>3. node'[i].path = Append(PathIn(node', node'[i].parent), node'[i].name)
    BY <1>5, <1>7, <2>2 DEF new
  <2> QED
    BY <1>5, <1>7, <2>1, <2>3 DEF WellPlaced
<1>8. CASE i # q.id
  <2> DEFINE p == node[i].parent
             n == node[i].name
  <2>1. IsRow(node, i) /\ node'[i].parent = p /\ node'[i].name = n
    BY <1>6, <1>8
  <2>2. p = Root \/ IsRow(node, p)
    BY <2>1, TreeOKIs DEF WellPlaced
  <2>3. node[i].path = Append(PathIn(node, p), n) /\ n \in Names
    BY <1>4, <2>1, TreeOKIs DEF WellPlaced
  <2>4. node'[i].path = IF Relocates(q, i) THEN Moved(node[i].path, old, new) ELSE node[i].path
    BY <1>6, <1>8, <2>1
  <2>5. ParentOk(K, p)
    BY <2>1 DEF TablesOk, RowOk
  <2>6. PathIn(node, p) \in Seq(Names)
    BY <1>0, <2>2, PathInType
  <2> HIDE DEF p, n
  <2>7. CASE p = Root
    <3>1. PathIn(node, p) = <<>> /\ PathIn(node', p) = <<>>
      BY <2>7 DEF PathIn
    <3>2. old = Append(PathIn(node, q.row.parent), q.row.name)
      BY <1>0, <1>1, TreeOKIs DEF WellPlaced, old
    <3>3. PathIn(node, q.row.parent) \in Seq(Names) /\ q.row.name \in Names
      <4>1. q.row.parent = Root \/ IsRow(node, q.row.parent)
        BY <1>0, <1>1, TreeOKIs DEF WellPlaced
      <4> QED
        BY <1>0, <4>1, PathInType DEF Row
    <3>4. ~IsStrictPrefix(old, node[i].path)
      BY <2>3, <3>1, <3>2, <3>3, ShortPath
    <3>5. node'[i].path = node[i].path
      BY <1>r, <2>4, <3>4
    <3> QED
      BY <2>1, <2>3, <2>7, <3>1, <3>5 DEF WellPlaced
  <2>8. CASE p = q.id
    <3>1. PathIn(node, p) = old /\ PathIn(node', p) = new /\ IsRow(node', p)
      BY <1>0, <1>5, <2>8, RootIsNoKey DEF PathIn, old
    <3>2. q.row.kind = "folder"
      BY <1>0, <1>2, <2>5, <2>8, RootIsNoKey DEF ParentOk
    <3>3. IsStrictPrefix(old, node[i].path)
      BY <1>1, <2>3, <3>1, AboveChild
    <3>4. CASE old # new
      <4>1. node'[i].path = Moved(Append(old, n), old, new)
        BY <1>r, <2>1, <2>3, <2>4, <3>1, <3>2, <3>3, <3>4
      <4>2. Moved(Append(old, n), old, new) = Append(Moved(old, old, new), n)
        BY <1>1, <2>3, MovedChild
      <4>3. node'[i].path = Append(new, n)
        BY <1>1, <4>1, <4>2, MovedSelf
      <4> QED
        BY <2>1, <3>1, <4>3 DEF WellPlaced
    <3>5. CASE old = new
      <4>1. node'[i].path = node[i].path
        BY <1>r, <2>4, <3>5
      <4> QED
        BY <2>1, <2>3, <3>1, <3>5, <4>1 DEF WellPlaced
    <3> QED
      BY <3>4, <3>5
  <2>9. CASE p # Root /\ p # q.id
    <3> DEFINE above == node[p].path
    <3>1. p \in NodeIds /\ IsRow(node, p) /\ PathIn(node, p) = above /\ above \in Seq(Names)
      BY <1>4, <2>2, <2>9 DEF PathIn, IsRow
    <3>2. IsRow(node', p)
      BY <1>6, <2>9, <3>1
    <3>3. PathIn(node', p) = IF Relocates(q, p) THEN Moved(above, old, new) ELSE above
      BY <1>6, <2>9, <3>1 DEF PathIn
    <3>4. old # above
      BY <1>0, <1>1, <2>9, <3>1, ConsistentIs DEF FileBase, old
    <3> HIDE DEF above
    <3>5. IsStrictPrefix(old, node[i].path) <=> IsStrictPrefix(old, above)
      BY <1>1, <2>3, <3>1, <3>4, AboveChild
    <3>6. Relocates(q, i) <=> Relocates(q, p)
      BY <1>r, <2>1, <3>1, <3>5 DEF above
    <3>7. CASE Relocates(q, p)
      <4>1. IsStrictPrefix(old, above)
        BY <1>r, <3>7 DEF above
      <4>2. Len(old) <= Len(above)
        BY <4>1 DEF IsStrictPrefix, IsPrefix
      <4>3. node'[i].path = Moved(Append(above, n), old, new)
        BY <2>3, <2>4, <3>1, <3>6, <3>7
      <4>4. node'[i].path = Append(Moved(above, old, new), n)
        BY <1>1, <2>3, <3>1, <4>2, <4>3, MovedChild
      <4> QED
        BY <2>1, <3>2, <3>3, <3>7, <4>4 DEF WellPlaced
    <3>8. CASE ~Relocates(q, p)
      <4>1. node'[i].path = node[i].path
        BY <2>4, <3>6, <3>8
      <4> QED
        BY <2>1, <2>3, <3>1, <3>2, <3>3, <3>8, <4>1 DEF WellPlaced
    <3> QED
      BY <3>7, <3>8
  <2> QED
    BY <2>7, <2>8, <2>9
<1> QED
  BY <1>7, <1>8

TreeKept ==
  node' # node /\ TreeOK /\ ~TreeOK' =>
    \E r \in Slots : req[r] # Idle /\ req'[r] # req[r] /\ (OutOfDate(req[r]) \/ Recurs(req[r]))

LEMMA TreeStill ==
  ASSUME TreeOK => TreeOK'
  PROVE  TreeKept
BY DEF TreeKept

(* The slot that moves answers for the tree.                                *)
LEMMA TreeAnswered ==
  ASSUME FileBase, NEW r \in Slots, NEW w, req' = [req EXCEPT ![r] = w], req[r] # Idle, w # req[r],
         TreeOK /\ node' # node /\ ~OutOfDate(req[r]) /\ ~Recurs(req[r]) => TreeOK'
  PROVE  TreeKept
<1>1. req'[r] # req[r]
  BY FileTypes DEF FileBase
<1> QED
  BY <1>1 DEF TreeKept

LEMMA TreeCommitPlaced ==
  ASSUME FileInv, NEW r \in Slots, TreeCommit(r)
  PROVE  TreeKept
<1>0. FileBase
  BY DEF FileInv
<1>k. PICK K \in Kinds : TablesOk(K) /\ \A s \in Slots : RequestOk(K, req[s])
  BY DEF FileInv
<1>s. node' = node => TreeKept
  BY DEF TreeKept
<1>1. CASE CommitCreate(r)
  <2>1. /\ req[r] \in Creates /\ req' = [req EXCEPT ![r] = Idle]
        /\ \/ node' = node
           \/ \E row : /\ Inserted1(row) /\ row.kind = "folder" /\ row.parent = req[r].parent
                       /\ row.name = req[r].name /\ row.path = Append(req[r].base, req[r].name)
    BY <1>0, <1>1, CommitCreateIs
  <2>2. req[r].op = "create" /\ req[r] # Idle /\ ParentOk(K, req[r].parent)
    BY <1>k, <2>1 DEF Creates, Idle, RequestOk
  <2>3. ASSUME TreeOK, node' # node, ~OutOfDate(req[r]) PROVE TreeOK'
    <3>1. PICK row : /\ Inserted1(row) /\ row.parent = req[r].parent
                     /\ row.name = req[r].name /\ row.path = Append(req[r].base, req[r].name)
      BY <2>1, <2>3
    <3>2. req[r].base = PathIn(node, req[r].parent)
      BY <2>2, <2>3 DEF OutOfDate
    <3> QED
      BY <1>0, <1>k, <2>2, <2>3, <3>1, <3>2, TreeInserted
  <2> QED
    BY <1>0, <2>1, <2>2, <2>3, TreeAnswered
<1>2. CASE CommitMove(r)
  <2>1. /\ req[r] \in Moves /\ req' = [req EXCEPT ![r] = Idle]
        /\ node' = node \/ (node' = MovedTree(req[r]) /\ Consistent(node'))
    BY <1>0, <1>2, CommitMoveIs
  <2>2. req[r].op = "move" /\ req[r] # Idle /\ RequestOk(K, req[r])
    BY <1>k, <2>1 DEF Moves, Idle
  <2>3. ASSUME TreeOK, node' # node, ~OutOfDate(req[r]), ~Recurs(req[r]) PROVE TreeOK'
    BY <1>0, <1>k, <2>1, <2>2, <2>3, TreeMoved
  <2> QED
    BY <1>0, <2>1, <2>2, <2>3, TreeAnswered
<1>3. CASE CommitStar(r)
  <2>1. req[r] \in OnRows /\ req' = [req EXCEPT ![r] = Idle] /\ req[r] # Idle
    BY <1>0, <1>3, CommitStarIs DEF OnRows, Idle
  <2> QED
    BY <1>0, <1>3, <2>1, TreeStarred, TreeAnswered
<1>4. CASE CommitTrash(r) \/ CommitSetAI(r) \/ CommitRestore(r)
  BY <1>0, <1>4, CommitMarksIs, TreeMarked, TreeStill
<1>5. CASE RestoreExpired(r) \/ Crash(r)
  BY <1>0, <1>5, <1>s, NoRowWritten
<1> QED
  BY <1>1, <1>2, <1>3, <1>4, <1>5 DEF TreeCommit

(* A saved file, at the place its request holds.                            *)
LEMMA TreeSaved ==
  ASSUME FileBase, TreeOK, NEW K \in Kinds, TablesOk(K), NEW q \in Uploads \cup Syncs,
         RequestOk(K, q), ~OutOfDate(q), \E row : Saves(q, row)
  PROVE  TreeOK'
<1>1. PICK row : Saves(q, row)
  OBVIOUS
<1>2. Inserted1(row) /\ row.parent = q.parent /\ row.path = Append(q.base, row.name)
  BY <1>1 DEF Saves
<1>3. q.op \in {"upload", "sync"}
  BY DEF Uploads, Syncs
<1>4. q.base = PathIn(node, q.parent) /\ ParentOk(K, q.parent)
  BY <1>3 DEF OutOfDate, RequestOk
<1> QED
  BY <1>2, <1>4, TreeInserted

LEMMA StoreStepPlaced ==
  ASSUME FileInv, NEW r \in Slots,
         \/ CommitUpload(r) \/ PurgeFiles(r) \/ PurgeRows(r) \/ WalkInto(r) \/ WalkCreate(r)
         \/ WalkFails(r) \/ ReadFile(r) \/ CommitSync(r) \/ CountSync(r)
  PROVE  TreeKept
<1>0. FileBase
  BY DEF FileInv
<1>k. PICK K \in Kinds : TablesOk(K) /\ \A s \in Slots : RequestOk(K, req[s])
  BY DEF FileInv
<1>s. node' = node => TreeKept
  BY DEF TreeKept
<1>1. CASE CommitUpload(r)
  <2>1. req[r] \in Uploads /\ SaveFile(req[r]) /\ req' = [req EXCEPT ![r] = Idle]
    BY <1>0, <1>1, RequestOf, RequestByOp DEF CommitUpload, Finish
  <2>2. req[r] # Idle /\ RequestOk(K, req[r])
    BY <1>k, <2>1 DEF Uploads, Idle
  <2>3. node' = node \/ \E row : Saves(req[r], row)
    BY <1>0, <2>1, SaveFileIs
  <2>4. ASSUME TreeOK, node' # node, ~OutOfDate(req[r]) PROVE TreeOK'
    BY <1>0, <1>k, <2>1, <2>2, <2>3, <2>4, TreeSaved
  <2> QED
    BY <1>0, <2>1, <2>2, <2>4, TreeAnswered
<1>2. CASE PurgeRows(r)
  BY <1>0, <1>2, <1>s, PurgeRowsIs, TreeErased, TreeStill
<1>3. CASE WalkInto(r)
  BY <1>0, <1>3, WalkIntoIs, TreeMarked, TreeStill
<1>4. CASE WalkCreate(r)
  <2>1. PICK row : /\ Inserted1(row) /\ row.parent = req[r].parent
                   /\ row.path = Append(req[r].base, row.name)
    BY <1>0, <1>4, WalkCreateIs
  <2>2. PICK w \in {Idle} \cup Walks : req' = [req EXCEPT ![r] = w] /\ (w # Idle => w.parent = NextKey)
    BY <1>0, <1>4, WalkCreateIs
  <2>3. req[r].op = "walk" /\ req[r] # Idle /\ ParentOk(K, req[r].parent)
    BY <1>0, <1>4, <1>k, WalkCreateIs DEF Walks, Idle, RequestOk
  <2>4. NextKey \in NodeIds /\ K[NextKey] = "unused"
    BY <1>k, <2>1, KeyFacts DEF Inserted1, TablesOk
  <2>5. w # req[r]
    BY <2>2, <2>3, <2>4, RootIsNoKey DEF ParentOk
  <2>6. ASSUME TreeOK, ~OutOfDate(req[r]) PROVE TreeOK'
    <3>1. req[r].base = PathIn(node, req[r].parent)
      BY <2>3, <2>6 DEF OutOfDate
    <3> QED
      BY <1>0, <1>k, <2>1, <2>3, <2>6, <3>1, TreeInserted
  <2> QED
    BY <1>0, <2>2, <2>3, <2>5, <2>6, TreeAnswered
<1>5. CASE PurgeFiles(r) \/ WalkFails(r) \/ ReadFile(r) \/ CountSync(r)
  BY <1>5, <1>s DEF PurgeFiles, WalkFails, ReadFile, CountSync
<1>6. CASE CommitSync(r)
  <2>1. /\ req[r] \in Syncs
        /\ \/ UNCHANGED <<node, blob, used>>
           \/ req[r].id = Root /\ \E row : Saves(req[r], row)
           \/ req[r].id # Root /\ Replaces(req[r])
    BY <1>0, <1>6, CommitSyncIs
  <2>2. PICK w \in {Idle} \cup FileCounts : req' = [req EXCEPT ![r] = w]
    BY <1>0, <1>6, CommitSyncIs
  <2>3. req[r] # Idle /\ w # req[r] /\ RequestOk(K, req[r])
    BY <1>k, <2>1 DEF Syncs, Idle, FileCounts
  <2>4. CASE \E row : Saves(req[r], row)
    <3>1. ASSUME TreeOK, ~OutOfDate(req[r]) PROVE TreeOK'
      BY <1>0, <1>k, <2>1, <2>3, <2>4, <3>1, TreeSaved
    <3> QED
      BY <1>0, <2>2, <2>3, <3>1, TreeAnswered
  <2>5. CASE Replaces(req[r])
    BY <1>0, <2>5, TreeMarked, TreeStill DEF Replaces
  <2> QED
    BY <1>s, <2>1, <2>4, <2>5
<1> QED
  BY <1>1, <1>2, <1>3, <1>4, <1>5, <1>6

LEMMA TreeStep ==
  ASSUME FileInv, FileNext
  PROVE  TreeKept
<1>s. node' = node => TreeKept
  BY DEF TreeKept
<1>1. CASE \E r \in Slots : FreeSlot(r) /\ \E u \in members : FileStart(r, u)
  BY <1>1, <1>s, StartIs DEF FileInv, Begin
<1>2. CASE \E r \in Slots : FileStep(r)
  BY <1>2, TreeCommitPlaced, StoreStepPlaced DEF FileStep
<1>3. CASE PassDay /\ UNCHANGED storeVars
  BY <1>3, <1>s DEF PassDay
<1> QED
  BY <1>1, <1>2, <1>3 DEF FileNext

-----------------------------------------------------------------------------
(* What every step of the file store does.                                  *)
FileRaces ==
  /\ CounterKept /\ BareKept
  /\ TreeKept
  /\ QuotaKept

(* However requests overlap: the counter leaves the sum of the blobs only   *)
(* where a deleted row was written back without its blob, the tree comes    *)
(* apart only by rows that changed after they were loaded or by a path that *)
(* recurs, and uploads pass a quota only when they read it too early        *)
(* (signals.py, Node.move and Node.save, validate_upload and                *)
(* _check_sync_quota).                                                      *)
THEOREM FilesBreakByRaceOnly == FileSpec => BrokenByRaceOnly
<1>1. FileInit => FileInv
  BY InvInit
<1>2. FileInv /\ [FileNext]_fileVars => FileInv'
  BY InvNext, InvUnchanged
<1>3. FileInv /\ [FileNext]_fileVars => [FileRaces]_fileVars
  BY CounterStep, TreeStep, QuotaStep DEF FileRaces
<1>4. [FileRaces]_fileVars <=>
        /\ [/\ UsedIsSum /\ ~UsedIsSum' => \E i \in NodeIds : Bare(i)
            /\ \A i \in NodeIds : Bare(i)' => Bare(i) \/ node[i] = Gone]_fileVars
        /\ [node' # node /\ TreeOK /\ ~TreeOK' =>
             \E r \in Slots : /\ req[r] # Idle /\ req'[r] # req[r]
                              /\ OutOfDate(req[r]) \/ Recurs(req[r])]_fileVars
        /\ [\A r \in Slots : req'[r] # req[r] =>
              /\ req[r].op = "upload" /\ used' > used /\ used' > TotalSize
                   => req[r].read # used
              /\ req[r].op = "count" /\ syncUsed' > syncUsed /\ syncUsed' > SyncTotal
                   => req[r].read # syncUsed]_fileVars
  BY DEF FileRaces, CounterKept, BareKept, TreeKept, QuotaKept
<1> QED
  BY <1>1, <1>2, <1>3, <1>4, PTL
  DEF FileSpec, BrokenByRaceOnly, CounterBrokenByCopyOnly, TreeBrokenByRaceOnly, QuotaPassedByRaceOnly

-----------------------------------------------------------------------------
(* The synchronisation client: paths.                                       *)

LEMMA PathFacts ==
  ASSUME NEW p \in Paths
  PROVE  /\ p \in Seq(STRING) /\ Len(p) \in Nat /\ Len(p) >= 1
         /\ Len(p) > 1 => ParentOf(p) \in Paths /\ Len(ParentOf(p)) = Len(p) - 1
<1>1. p \in Seq(STRING) /\ p # <<>>
  BY PathsAssumption
<1>2. Len(p) \in Nat /\ Len(p) >= 1
  BY <1>1
<1>3. ASSUME Len(p) > 1 PROVE ParentOf(p) \in Paths /\ Len(ParentOf(p)) = Len(p) - 1
  BY <1>1, <1>2, <1>3, PathsAssumption DEF ParentOf, Front
<1> QED
  BY <1>1, <1>2, <1>3

(* Prefixes, name by name.                                                  *)
LEMMA WithinIs ==
  ASSUME NEW p \in Paths, NEW q \in Paths
  PROVE  Within(p, q) <=> Len(p) <= Len(q) /\ \A k \in 1..Len(p) : p[k] = q[k]
<1>1. p \in Seq(STRING) /\ q \in Seq(STRING) /\ Len(p) \in Nat /\ Len(q) \in Nat
  BY PathFacts
<1> DEFINE a == SubSeq(p, 1, Len(p))
           b == SubSeq(q, 1, Len(p))
<1>2. a \in Seq(STRING) /\ Len(a) = Len(p) /\ \A k \in 1..Len(p) : a[k] = p[k]
  BY <1>1
<1>3. ASSUME Len(p) <= Len(q)
      PROVE  b \in Seq(STRING) /\ Len(b) = Len(p) /\ \A k \in 1..Len(p) : b[k] = q[k]
  BY <1>1, <1>3
<1> HIDE DEF a, b
<1>4. ASSUME Len(p) <= Len(q), \A k \in 1..Len(p) : p[k] = q[k] PROVE a = b
  BY <1>1, <1>2, <1>3, <1>4
<1> QED
  BY <1>2, <1>3, <1>4 DEF Within, IsPrefix, a, b

LEMMA ParentIs ==
  ASSUME NEW p \in Paths, Len(p) > 1
  PROVE  \A k \in 1..(Len(p) - 1) : ParentOf(p)[k] = p[k]
BY PathFacts DEF ParentOf, Front

LEMMA WithinSelf ==
  ASSUME NEW p \in Paths
  PROVE  Within(p, p)
BY WithinIs, PathFacts

LEMMA WithinTrans ==
  ASSUME NEW p \in Paths, NEW q \in Paths, NEW r \in Paths, Within(p, q), Within(q, r)
  PROVE  Within(p, r)
<1>1. Len(p) \in Nat /\ Len(q) \in Nat /\ Len(r) \in Nat
  BY PathFacts
<1> QED
  BY <1>1, WithinIs

LEMMA WithinParent ==
  ASSUME NEW p \in Paths, Len(p) > 1
  PROVE  Within(ParentOf(p), p) /\ ~Within(p, ParentOf(p)) /\ ParentOf(p) # p
BY PathFacts, ParentIs, WithinIs

(* What lies above p lies above its parent, or is it.                       *)
LEMMA AboveIsAboveParent ==
  ASSUME NEW p \in Paths, NEW q \in Paths, Within(q, p), q # p
  PROVE  Len(p) > 1 /\ Within(q, ParentOf(p))
<1>1. p \in Seq(STRING) /\ q \in Seq(STRING) /\ Len(p) \in Nat /\ Len(q) \in Nat /\ Len(q) >= 1
  BY PathFacts
<1>2. Len(q) <= Len(p) /\ \A k \in 1..Len(q) : q[k] = p[k]
  BY WithinIs
<1>3. Len(q) # Len(p)
  BY <1>1, <1>2
<1>4. Len(p) > 1
  BY <1>1, <1>2, <1>3
<1>5. \A k \in 1..Len(q) : q[k] = ParentOf(p)[k]
  BY <1>1, <1>2, <1>3, <1>4, ParentIs
<1> QED
  BY <1>1, <1>2, <1>3, <1>4, <1>5, PathFacts, WithinIs

(* Of the paths with some property one is shortest: nothing is true of a    *)
(* path that is not also true of one whose parent it is not true of.        *)
LEMMA ShortestPath ==
  ASSUME NEW S, S \in SUBSET Paths, S # {}
  PROVE  \E p \in S : Len(p) > 1 => ParentOf(p) \notin S
<1> DEFINE N == {Len(p) : p \in S}
<1>1. N \in SUBSET Nat /\ N # {}
  BY PathFacts
<1>2. PICK n \in N : \A m \in N : n <= m
  BY <1>1, LeastNatural
<1>3. PICK p \in S : Len(p) = n
  BY <1>2
<1>4. ASSUME Len(p) > 1, ParentOf(p) \in S PROVE FALSE
  <2>1. n <= Len(ParentOf(p))
    BY <1>2, <1>4
  <2> QED
    BY <1>3, <1>4, <2>1, PathFacts
<1> QED
  BY <1>4

-----------------------------------------------------------------------------
(* Types.                                                                   *)

SeenIs(f) == /\ f \in [DOMAIN f -> [entry : Entries \ {Absent}, stamp : 0..MaxEdits]]
             /\ DOMAIN f \subseteq Paths

LEMMA NothingSeen == SeenIs(<<>>) /\ DOMAIN <<>> = {}
BY DEF SeenIs

LEMMA EntryFacts ==
  /\ Absent \in Entries /\ Dir \in Entries /\ Contents \subseteq Entries
  /\ Absent # Dir /\ Absent \notin Contents
BY ContentsAssumption DEF Entries, Absent, Dir

LEMMA AppliedType ==
  ASSUME ClientTypeOK, NEW a \in todo, Turn(a), ~Stale(a)
  PROVE  Applied(a) \in [Paths -> Entries]
<1>1. a \in [verb : Verbs, path : Paths]
  BY DEF ClientTypeOK
<1>2. \A v \in Entries : WithParents(a.path, v) \in [Paths -> Entries]
  BY EntryFacts DEF ClientTypeOK, WithParents
<1>3. Put(server, a.path, Absent) \in [Paths -> Entries] /\ server \in [Paths -> Entries]
  BY EntryFacts DEF ClientTypeOK, Put
<1>4. a.verb \in {"upload", "update"} => local[a.path] \in Entries
  BY EntryFacts DEF Stale
<1> QED
  BY <1>1, <1>2, <1>3, <1>4, EntryFacts DEF Applied

LEMMA WalkOneSeen ==
  ASSUME ClientTypeOK, NEW p \in Paths, WalkOne(p)
  PROVE  /\ SeenIs(seen') /\ DOMAIN seen' = {p} \cup DOMAIN seen
         /\ seen'[p].entry = local[p] /\ \A q \in DOMAIN seen : q # p => seen'[q] = seen[q]
         /\ seen' # <<>>
<1>1. local[p] \in Entries \ {Absent} /\ stamp[p] \in 0..MaxEdits
  BY DEF WalkOne, ToWalk, ClientTypeOK
<1>2. DOMAIN seen' = {p} \cup DOMAIN seen
  BY DEF WalkOne
<1>3. seen' # <<>>
  BY <1>2, NothingSeen
<1> QED
  BY <1>1, <1>2, <1>3 DEF WalkOne, ClientTypeOK, SeenIs

LEMMA ClientTypesKept == ClientTypeOK /\ [ClientNext]_clientVars => ClientTypeOK'
<1> SUFFICES ASSUME ClientTypeOK, [ClientNext]_clientVars PROVE ClientTypeOK'
  OBVIOUS
<1> USE DEF folderVars, loopVars, passVars, clientVars
<1>1. CASE UNCHANGED clientVars
  BY <1>1 DEF ClientTypeOK
<1>2. ASSUME NEW p \in Paths, NEW v \in Entries, Edit(p, v) PROVE ClientTypeOK'
  <2>1. edits' \in 0..MaxEdits /\ edits' = edits + 1
    BY <1>2, EffortAssumption DEF ClientTypeOK, Edit
  <2>2. local' \in [Paths -> Entries]
    BY <1>2, EntryFacts DEF ClientTypeOK, Edit, Put
  <2>3. stamp' \in [Paths -> 0..MaxEdits]
    BY <1>2, <2>1 DEF ClientTypeOK, Edit
  <2> QED
    BY <1>2, <2>1, <2>2, <2>3 DEF ClientTypeOK, Edit
<1>3. CASE Watching
  BY <1>3 DEF Watching, Notify, BecomeQuiet, BecomeDue, ClientTypeOK
<1>4. ASSUME EndPass, server' = server, faults' \in 0..MaxFaults PROVE ClientTypeOK'
  BY <1>4, NothingSeen, EffortAssumption DEF EndPass, ClientTypeOK, SeenIs
<1>5. CASE Tick
  BY <1>5, NothingSeen DEF Tick, ClientTypeOK, SeenIs
<1>6. CASE EndWalk \/ Diff
  BY <1>6 DEF EndWalk, Diff, ClientTypeOK
<1>7. CASE Confirm \/ HashChanged
  BY <1>4, <1>7 DEF Confirm, HashChanged, ClientTypeOK
<1>8. ASSUME NEW p \in Paths, WalkOne(p) PROVE ClientTypeOK'
  <2>1. UNCHANGED <<local, stamp, edits, event, pending, quiet, due, pc, since, todo, server, faults>>
    BY <1>8 DEF WalkOne
  <2>2. SeenIs(seen')
    BY <1>8, WalkOneSeen
  <2> QED
    BY <2>1, <2>2 DEF ClientTypeOK, SeenIs
<1>9. ASSUME NEW a \in todo, Apply(a) PROVE ClientTypeOK'
  BY <1>9, AppliedType DEF Apply, ClientTypeOK
<1>10. ASSUME NEW a \in todo, AbortPass(a) PROVE ClientTypeOK'
  BY <1>4, <1>10 DEF AbortPass, ClientTypeOK
<1>11. ASSUME NEW a \in todo, FailCall(a) PROVE ClientTypeOK'
  <2>1. server' \in [Paths -> Entries]
    BY <1>11, AppliedType DEF FailCall, ClientTypeOK
  <2> QED
    BY <1>11, <2>1, EffortAssumption DEF FailCall, ClientTypeOK
<1>12. CASE MissEvent
  <2>1. faults' \in 0..MaxFaults
    BY <1>12, EffortAssumption DEF MissEvent, ClientTypeOK
  <2>2. {event', pending', quiet', due'} \subseteq BOOLEAN
    BY <1>12 DEF MissEvent, ClientTypeOK
  <2>3. UNCHANGED <<local, stamp, edits, pc, since, seen, todo, server>>
    BY <1>12 DEF MissEvent
  <2> QED
    BY <2>1, <2>2, <2>3 DEF ClientTypeOK
<1>13. CASE FailDiff
  BY <1>4, <1>13, EffortAssumption DEF FailDiff, ClientTypeOK
<1> QED
  BY <1>1, <1>2, <1>3, <1>5, <1>6, <1>7, <1>8, <1>9, <1>10, <1>11, <1>12, <1>13
  DEF ClientNext, Passing, Mishap

LEMMA ClientTypesFirst == ClientInit => ClientTypeOK
<1> SUFFICES ASSUME ClientInit PROVE ClientTypeOK
  OBVIOUS
<1>1. local \in [Paths -> Entries] /\ server \in [Paths -> Entries] /\ stamp \in [Paths -> 0..MaxEdits]
  BY EntryFacts, EffortAssumption DEF ClientInit
<1>2. {event, pending, quiet, due} \subseteq BOOLEAN
  BY DEF ClientInit
<1>4. faults \in 0..MaxFaults /\ edits \in 0..MaxEdits /\ since \in 0..MaxEdits
  BY EffortAssumption DEF ClientInit
<1>3. SeenIs(seen) /\ todo \subseteq [verb : Verbs, path : Paths] /\ pc = "idle"
  BY NothingSeen DEF ClientInit
<1> QED
  BY <1>1, <1>2, <1>3, <1>4 DEF ClientTypeOK, SeenIs

(* Whatever the user, the watcher and the pass do, in any order, every      *)
(* variable of the client keeps its type.                                   *)
THEOREM ClientTypes == ClientSafety => []ClientTypeOK
<1>1. ClientInit => ClientTypeOK
  BY ClientTypesFirst
<1>2. ClientTypeOK /\ [ClientNext]_clientVars => ClientTypeOK'
  BY ClientTypesKept
<1> QED
  BY <1>1, <1>2, PTL DEF ClientSafety

-----------------------------------------------------------------------------
(* What has not changed since the pass began is in the manifest.            *)

(* The folder is a tree, and an edit is stamped on everything below it.     *)
FolderIsTree ==
  \A p \in Paths : Len(p) > 1 /\ local[p] # Absent => local[ParentOf(p)] = Dir

StampsGoDown ==
  /\ since <= edits /\ \A p \in Paths : stamp[p] <= edits
  /\ \A p, q \in Paths : Within(q, p) => stamp[q] <= stamp[p]

Steady(p) == local[p] # Absent /\ stamp[p] <= since

(* What is listed and steady is as it was listed.                           *)
SeenAsIs == pc # "idle" => \A p \in DOMAIN seen : Steady(p) => seen[p].entry = local[p]

(* After the walk all that is steady is listed.                             *)
SteadyListed == pc \in {"diff", "apply"} => \A p \in Paths : Steady(p) => p \in DOMAIN seen

(* What is listed is not to be deleted.                                     *)
DeletesUnlisted ==
  /\ pc # "apply" => todo = {}
  /\ \A a \in todo : a.verb = "delete" => a.path \notin DOMAIN seen

SteadyInv ==
  ClientTypeOK /\ FolderIsTree /\ StampsGoDown /\ SeenAsIs /\ SteadyListed /\ DeletesUnlisted

LEMMA SteadyAbove ==
  ASSUME ClientTypeOK, FolderIsTree, StampsGoDown,
         NEW p \in Paths, Steady(p), NEW q \in Paths, Within(q, p)
  PROVE  Steady(q)
<1> DEFINE S == {x \in Paths : Steady(x) /\ Within(q, x) /\ ~Steady(q)}
<1>1. ASSUME NEW x \in S PROVE Len(x) > 1 /\ ParentOf(x) \in S
  <2>1. x \in Paths /\ Steady(x) /\ Within(q, x) /\ ~Steady(q) /\ x # q
    BY <1>1
  <2>2. Len(x) > 1 /\ Within(q, ParentOf(x))
    BY <2>1, AboveIsAboveParent
  <2>3. ParentOf(x) \in Paths /\ Within(ParentOf(x), x)
    BY <2>1, <2>2, PathFacts, WithinParent
  <2>4. local[ParentOf(x)] = Dir
    BY <2>1, <2>2 DEF FolderIsTree, Steady
  <2>5. stamp[ParentOf(x)] <= stamp[x]
    BY <2>1, <2>3 DEF StampsGoDown
  <2>6. Steady(ParentOf(x))
    BY <2>1, <2>3, <2>4, <2>5, EntryFacts, EffortAssumption DEF Steady, ClientTypeOK
  <2> QED
    BY <2>1, <2>2, <2>3, <2>6
<1>2. S = {}
  <2> HIDE DEF S
  <2>1. S \in SUBSET Paths
    BY DEF S
  <2> QED
    BY <1>1, <2>1, ShortestPath
<1> QED
  BY <1>2

LEMMA EditKeepsTree ==
  ASSUME SteadyInv, NEW p \in Paths, NEW v \in Entries, Edit(p, v)
  PROVE  FolderIsTree'
<1> SUFFICES ASSUME NEW x \in Paths, Len(x) > 1, local'[x] # Absent
             PROVE  local'[ParentOf(x)] = Dir
  BY DEF FolderIsTree
<1> DEFINE y == ParentOf(x)
<1>1. y \in Paths /\ Within(y, x) /\ y # x
  BY PathFacts, WithinParent
<1>2. \A q \in Paths : local'[q] = IF q = p THEN v ELSE IF Within(p, q) THEN Absent ELSE local[q]
  BY DEF Edit, Put
<1>3. CASE x = p
  <2>1. local[y] = Dir /\ ~Within(p, y) /\ y # p
    BY <1>3, WithinParent, WithinSelf DEF Edit
  <2> QED
    BY <1>1, <1>2, <2>1
<1>4. CASE x # p
  <2>1. ~Within(p, x) /\ local[x] # Absent
    BY <1>2, <1>4
  <2>2. ~Within(p, y) /\ y # p
    BY <1>1, <2>1, WithinTrans, WithinSelf
  <2> QED
    BY <1>1, <1>2, <2>1, <2>2 DEF SteadyInv, FolderIsTree
<1> QED
  BY <1>3, <1>4

LEMMA EditKeepsStamps ==
  ASSUME SteadyInv, NEW p \in Paths, NEW v \in Entries, Edit(p, v)
  PROVE  StampsGoDown'
<1>1. \A q \in Paths : stamp'[q] = IF Within(p, q) THEN edits + 1 ELSE stamp[q]
  BY DEF Edit
<1>2. edits' = edits + 1 /\ since' = since /\ edits \in Nat /\ since \in Nat
      /\ \A q \in Paths : stamp[q] \in Nat /\ stamp[q] <= edits
  BY EffortAssumption DEF Edit, SteadyInv, ClientTypeOK, StampsGoDown, passVars
<1>3. ASSUME NEW x \in Paths, NEW q \in Paths, Within(q, x) PROVE stamp'[q] <= stamp'[x]
  <2>1. Within(p, q) => Within(p, x)
    BY <1>3, WithinTrans
  <2>2. stamp[q] <= stamp[x]
    BY <1>3 DEF SteadyInv, StampsGoDown
  <2> QED
    BY <1>1, <1>2, <2>1, <2>2
<1> QED
  BY <1>1, <1>2, <1>3 DEF SteadyInv, StampsGoDown

(* What is steady after an edit was steady before it, and is as it was.     *)
LEMMA EditKeepsSteady ==
  ASSUME SteadyInv, NEW p \in Paths, NEW v \in Entries, Edit(p, v), NEW x \in Paths, Steady(x)'
  PROVE  Steady(x) /\ local'[x] = local[x]
<1>1. since' = since /\ edits \in Nat /\ since \in Nat /\ since <= edits
  BY EffortAssumption DEF Edit, SteadyInv, ClientTypeOK, StampsGoDown, passVars
<1>2. stamp'[x] = (IF Within(p, x) THEN edits + 1 ELSE stamp[x]) /\ stamp'[x] <= since'
  BY DEF Edit, Steady
<1>3. ~Within(p, x) /\ x # p
  BY <1>1, <1>2, WithinSelf
<1>4. local'[x] = local[x]
  BY <1>3 DEF Edit, Put
<1> QED
  BY <1>1, <1>2, <1>3, <1>4 DEF Steady

LEMMA WalkSeesSteady ==
  ASSUME SteadyInv, EndWalk
  PROVE  \A p \in Paths : Steady(p) => p \in DOMAIN seen
<1> DEFINE S == {p \in Paths : Steady(p) /\ p \notin DOMAIN seen}
<1>1. ASSUME NEW p \in S PROVE Len(p) > 1 /\ ParentOf(p) \in S
  <2>1. p \in Paths /\ Steady(p) /\ p \notin DOMAIN seen
    BY <1>1
  <2>2. p \notin ToWalk
    BY <2>1, EffortAssumption DEF EndWalk, Steady, SteadyInv, ClientTypeOK
  <2>3. Len(p) > 1 /\ ~(Walked(ParentOf(p)) /\ seen[ParentOf(p)].entry = Dir)
    BY <2>1, <2>2 DEF ToWalk, Walked, Steady
  <2>4. ParentOf(p) \in Paths /\ Within(ParentOf(p), p)
    BY <2>1, <2>3, PathFacts, WithinParent
  <2>5. Steady(ParentOf(p)) /\ local[ParentOf(p)] = Dir
    BY <2>1, <2>3, <2>4, SteadyAbove DEF SteadyInv, FolderIsTree, Steady
  <2>6. ParentOf(p) \notin DOMAIN seen
    BY <2>3, <2>5, NothingSeen DEF SteadyInv, SeenAsIs, EndWalk, Walked
  <2> QED
    BY <2>3, <2>4, <2>5, <2>6
<1>2. S = {}
  <2> HIDE DEF S
  <2>1. S \in SUBSET Paths
    BY DEF S
  <2> QED
    BY <1>1, <2>1, ShortestPath
<1> QED
  BY <1>2

LEMMA DiffListsNoSteady ==
  ASSUME ClientTypeOK, Diff
  PROVE  \A a \in todo' : a.verb = "delete" => a.path \notin DOMAIN seen
<1>1. ASSUME NEW p \in DOMAIN seen PROVE "delete" \notin PlanFor(p)
  BY DEF PlanFor
<1>2. \A p \in Missing : p \notin DOMAIN seen
  BY DEF Missing, Listed
<1> QED
  BY <1>1, <1>2 DEF Diff, Listed

LEMMA SteadyKept == SteadyInv /\ [ClientNext]_clientVars => SteadyInv'
<1> SUFFICES ASSUME SteadyInv, [ClientNext]_clientVars PROVE SteadyInv'
  OBVIOUS
<1>0. ClientTypeOK /\ ClientTypeOK'
  BY ClientTypesKept DEF SteadyInv
<1>1. ASSUME NEW p \in Paths, NEW v \in Entries, Edit(p, v) PROVE SteadyInv'
  <2>1. FolderIsTree' /\ StampsGoDown'
    BY <1>1, EditKeepsTree, EditKeepsStamps
  <2>2. pc' = pc /\ seen' = seen /\ todo' = todo
    BY <1>1 DEF Edit, passVars
  <2>3. \A x \in Paths : Steady(x)' => Steady(x) /\ local'[x] = local[x]
    BY <1>1, EditKeepsSteady
  <2>4. SeenAsIs' /\ SteadyListed'
    BY <1>0, <2>2, <2>3 DEF SteadyInv, SeenAsIs, SteadyListed, ClientTypeOK
  <2> QED
    BY <1>0, <2>1, <2>2, <2>4 DEF SteadyInv, DeletesUnlisted
<1>2. ASSUME UNCHANGED <<local, stamp, edits, pc, since, seen, todo>> PROVE SteadyInv'
  BY <1>0, <1>2
  DEF SteadyInv, FolderIsTree, StampsGoDown, SeenAsIs, SteadyListed, DeletesUnlisted, Steady
<1>3. ASSUME EndPass PROVE SteadyInv'
  BY <1>0, <1>3, EffortAssumption
  DEF SteadyInv, FolderIsTree, StampsGoDown, SeenAsIs, SteadyListed, DeletesUnlisted, EndPass,
      ClientTypeOK, folderVars
<1>4. CASE Tick
  BY <1>0, <1>4, NothingSeen, EffortAssumption
  DEF SteadyInv, FolderIsTree, StampsGoDown, SeenAsIs, SteadyListed, DeletesUnlisted, Tick,
      ClientTypeOK, folderVars
<1>5. CASE EndWalk
  BY <1>0, <1>5, WalkSeesSteady
  DEF SteadyInv, FolderIsTree, StampsGoDown, SeenAsIs, SteadyListed, DeletesUnlisted, EndWalk,
      Steady, folderVars
<1>6. CASE Diff
  BY <1>0, <1>6, DiffListsNoSteady
  DEF SteadyInv, FolderIsTree, StampsGoDown, SeenAsIs, SteadyListed, DeletesUnlisted, Diff,
      Steady, folderVars
<1>7. ASSUME NEW p \in Paths, WalkOne(p) PROVE SteadyInv'
  <2>1. UNCHANGED <<local, stamp, edits, pc, since, todo>> /\ pc = "manifest"
    BY <1>7 DEF WalkOne, folderVars
  <2>2. SeenAsIs'
    BY <1>0, <1>7, <2>1, WalkOneSeen DEF SteadyInv, SeenAsIs, Steady
  <2> QED
    BY <1>0, <2>1, <2>2
    DEF SteadyInv, FolderIsTree, StampsGoDown, SteadyListed, DeletesUnlisted
<1>8. ASSUME NEW a \in todo, Apply(a) \/ FailCall(a) PROVE SteadyInv'
  <2>1. UNCHANGED <<local, stamp, edits, pc, since, seen>> /\ todo' \subseteq todo /\ pc = "apply"
    BY <1>8 DEF Apply, FailCall, Turn, folderVars
  <2> QED
    BY <1>0, <2>1
    DEF SteadyInv, FolderIsTree, StampsGoDown, SeenAsIs, SteadyListed, DeletesUnlisted, Steady
<1>9. CASE Watching \/ MissEvent \/ UNCHANGED clientVars
  BY <1>2, <1>9
  DEF Watching, Notify, BecomeQuiet, BecomeDue, MissEvent, folderVars, passVars, clientVars
<1>10. CASE Confirm \/ HashChanged \/ FailDiff \/ \E a \in todo : AbortPass(a)
  BY <1>3, <1>10 DEF Confirm, HashChanged, FailDiff, AbortPass
<1> QED
  BY <1>1, <1>4, <1>5, <1>6, <1>7, <1>8, <1>9, <1>10 DEF ClientNext, Passing, Mishap

LEMMA SteadyFirst == ClientInit => SteadyInv
BY ClientTypesFirst, NothingSeen
DEF ClientInit, SteadyInv, FolderIsTree, StampsGoDown, SeenAsIs, SteadyListed, DeletesUnlisted

(* One action of a plan.                                                    *)
LEMMA AppliedKeeps ==
  ASSUME SteadyInv, NEW a \in todo, Turn(a), ~Stale(a),
         NEW p \in Paths, Steady(p), server[p] # Absent
  PROVE  Applied(a)[p] # Absent
<1>1. a.path \in Paths /\ a.verb \in Verbs /\ pc = "apply"
  BY DEF SteadyInv, ClientTypeOK, Turn
<1>2. ASSUME NEW v, v # Absent PROVE WithParents(a.path, v)[p] # Absent
  BY <1>2, EntryFacts DEF WithParents
<1>3. ASSUME a.verb \in {"upload", "update"} PROVE local[a.path] # Absent
  BY <1>3, EntryFacts DEF Stale
<1>4. ASSUME a.verb = "delete" PROVE Put(server, a.path, Absent)[p] = server[p]
  <2>1. a.path \notin DOMAIN seen
    BY <1>4 DEF SteadyInv, DeletesUnlisted
  <2>2. ~Steady(a.path)
    BY <1>1, <2>1 DEF SteadyInv, SteadyListed
  <2>3. ~Within(a.path, p) /\ p # a.path
    BY <1>1, <2>2, SteadyAbove DEF SteadyInv
  <2> QED
    BY <2>3 DEF Put
<1>5. CASE a.verb = "mkdir"
  BY <1>2, <1>5, EntryFacts DEF Applied
<1>6. CASE a.verb \in {"upload", "update"}
  BY <1>2, <1>3, <1>6 DEF Applied
<1>7. CASE a.verb \in {"conflict", "delete"}
  BY <1>4, <1>7 DEF Applied
<1> QED
  BY <1>1, <1>5, <1>6, <1>7 DEF Verbs

LEMMA SteadyStep ==
  ASSUME SteadyInv, [ClientNext]_clientVars, NEW p \in Paths, Steady(p), server[p] # Absent
  PROVE  server'[p] # Absent
<1>1. ASSUME NEW a \in todo, Apply(a) \/ FailCall(a) PROVE server'[p] # Absent
  BY <1>1, AppliedKeeps DEF Apply, FailCall
<1>2. ASSUME NEW x \in Paths, NEW v \in Entries, Edit(x, v) \/ WalkOne(x) PROVE server' = server
  BY <1>2 DEF Edit, WalkOne
<1>3. CASE Watching \/ Tick \/ EndWalk \/ Diff \/ Confirm \/ MissEvent \/ HashChanged \/ FailDiff
  BY <1>3
  DEF Watching, Notify, BecomeQuiet, BecomeDue, MissEvent, HashChanged, FailDiff, Tick, EndWalk,
      Diff, Confirm
<1>4. ASSUME NEW a \in todo, AbortPass(a) PROVE server' = server
  BY <1>4 DEF AbortPass
<1>5. CASE UNCHANGED clientVars
  BY <1>5 DEF clientVars
<1>6. ASSUME NEW x \in Paths, WalkOne(x) PROVE server' = server
  BY <1>6 DEF WalkOne
<1> QED
  BY <1>1, <1>2, <1>3, <1>4, <1>5, <1>6 DEF ClientNext, Passing, Mishap

(* A pass never deletes from the server what has been in the local folder,  *)
(* unchanged, since before it began: such a path is in the manifest, with   *)
(* all that is above it, and only what the manifest has not is deleted.     *)
THEOREM SteadyFilesKept == ClientSafety => KeepsSteadyFiles
<1>1. ClientInit => SteadyInv
  BY SteadyFirst
<1>2. SteadyInv /\ [ClientNext]_clientVars => SteadyInv'
  BY SteadyKept
<1>3. SteadyInv /\ [ClientNext]_clientVars =>
        [\A p \in Paths :
           local[p] # Absent /\ stamp[p] <= since /\ pc = "apply" =>
             (server[p] # Absent => server'[p] # Absent)]_clientVars
  BY SteadyStep DEF Steady
<1> QED
  BY <1>1, <1>2, <1>3, PTL DEF ClientSafety, KeepsSteadyFiles

-----------------------------------------------------------------------------
(* The services side by side.                                               *)

LEMMA CopiesAreFileSteps ==
  ASSUME CopiesNext
  PROVE  FileNext
<1>1. ASSUME NEW r \in Slots, NEW u \in members, CopiesStart(r, u) PROVE FileStart(r, u)
  BY <1>1 DEF CopiesStart, FileStart, TreeStart
<1>2. ASSUME NEW r \in Slots, CopiesStep(r) PROVE FileStep(r)
  BY <1>2 DEF CopiesStep, FileStep, TreeCommit
<1> QED
  BY <1>1, <1>2 DEF CopiesNext, FileNext

(* Every behaviour of the services side by side is one of each service:     *)
(* they share no state, so that whichever acts leaves the others as they    *)
(* are, and the requests of the part that overlaps three of them are some   *)
(* of those of the file store.                                              *)
THEOREM ServicesRunParts == ServicesSpec => FileSpec /\ ClientSafety /\ RuntimeSpec
<1>1. ServicesInit => FileInit /\ ClientInit /\ RuntimeInit
  BY DEF ServicesInit
<1>2. [ServicesNext]_serviceVars => [FileNext]_fileVars /\ [ClientNext]_clientVars /\ [RuntimeNext]_runtimeVars
  BY CopiesAreFileSteps DEF ServicesNext, serviceVars
<1> QED
  BY <1>1, <1>2, PTL DEF ServicesSpec, FileSpec, ClientSafety, RuntimeSpec

(* Every variable of every service keeps its type while they run side by    *)
(* side.                                                                    *)
THEOREM ServicesTypesCorrect == ServicesSpec => []ServicesTypeOK
<1>1. (FilesTypeOK /\ Consistent(node)) /\ ClientTypeOK /\ RuntimeTypeOK => ServicesTypeOK
  BY DEF ServicesTypeOK
<1> QED
  BY <1>1, ServicesRunParts, FilesTypes, ClientTypes, RuntimeTypeCorrect, PTL

===============================================================================
