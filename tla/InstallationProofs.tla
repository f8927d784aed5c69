-------------------------- MODULE InstallationProofs --------------------------
(***************************************************************************)
(* Proofs about Installation, for every catalog, every set of external     *)
(* endpoints and every number of commands, runtimes and kills: between two *)
(* commands the host is as they asked for, or they said what is not.       *)
(*                                                                         *)
(* The inductive invariant HostInv has three parts.  Carried says which    *)
(* lists of steps a command can have left, and with which arguments; Kept  *)
(* says of each part of the host what it is like unless something about it *)
(* is undone, that is missed or still to come; Done says what the steps    *)
(* already made have achieved for those that follow.                       *)
(***************************************************************************)
EXTENDS MCLedgerAndInstallation, ReceiptsProofs, SequenceTheorems, TLAPS

-----------------------------------------------------------------------------
(* What is left of a command.                                               *)

(* The steps that may follow one.                                           *)
AfterEnsure ==
  {<<>>, <<"pause", "pauseLlm">>, <<"login">> \o <<>>, <<"login">> \o <<"pause", "pauseLlm">>,
   <<"saveMode">> \o <<>>, <<"saveMode">> \o <<"default">>, <<"saveMode">> \o <<"offer">>}
Rest(s) ==
  CASE s = "copy" -> {<<"secrets">> \o r : r \in AfterEnsure}
    [] s \in {"secrets", "backfill"} -> AfterEnsure
    [] s = "login" -> {<<>>, <<"pause", "pauseLlm">>}
    [] s = "saveMode" -> {<<>>, <<"default">>, <<"offer">>}
    [] s = "url" -> {<<"compare", "ask", "halt", "change", "recreate">>}
    [] s = "compare" -> {<<"ask", "halt", "change", "recreate">>}
    [] s = "ask" -> {<<"halt", "change", "recreate">>}
    [] s = "halt" -> {<<"change", "recreate">>}
    [] s = "change" -> {<<"recreate">>}
    [] s = "stopNginx" -> {<<"stopDisabled", "up", "llm", "plan">>}
    [] s = "stopDisabled" -> {<<"up", "llm", "plan">>}
    [] s = "up" -> {<<"llm", "plan">>}
    [] s = "llm" -> {<<"plan">>}
    [] s = "detect" -> {<<"apply">>, <<"apply", "plan">>}
    [] s = "apply" -> {<<>>, <<"plan">>}
    [] s = "pause" -> {<<"pauseLlm">>}
    [] s = "stopWorkers" -> {<<"removeLlm", "down">>}
    [] s = "removeLlm" -> {<<"down">>}
    [] s = "stopExternal" -> {<<"upLocal">>}
    [] OTHER -> {<<>>}

Goes(todo) == todo = <<>> \/ (Head(todo) \in Steps /\ Tail(todo) \in Rest(Head(todo)))

Comes(s) == s \in ToSet(command.todo)
Pending == {PartOf(s) : s \in ToSet(command.todo)} \cup Unlaunched
Undone(part) == part \in missed \/ part \in Pending

ChangeParts == {"offer", "url", "compare", "ask", "halt", "change", "recreate"}
(* The steps that may come before the services are started.                 *)
BeforeStart ==
  {"copy", "secrets", "backfill", "login", "saveMode", "default", "pause", "pauseLlm"} \cup ChangeParts
Asked ==
  [todo : Seq(Steps), launch : BOOLEAN, runtime : {"resume", "rebuild", "setup"}, candidate : Candidates,
   skip : BOOLEAN, ok : BOOLEAN, mode : OperationModes, login : BOOLEAN]

(* The command as such.                                                     *)
Carried ==
  /\ command \in Asked /\ Goes(command.todo)
  /\ command.launch => command.todo # <<>> /\ Head(command.todo) \in BeforeStart
  /\ command.candidate.url # "none" => <<command.candidate.model, command.candidate.url>> \in Endpoints
  /\ Comes("url") => command.candidate.url # "none"
  /\ Comes("saveMode") /\ Comes("offer") => command.mode # "basic"
  /\ ~command.ok => command.todo = <<"pauseLlm">>

(* A host without .env has nothing that runs, and is not started.           *)
WithoutEnv ==
  {"copy", "detect", "apply", "pause", "pauseLlm", "stopWorkers", "removeLlm", "down", "wipe",
   "stopExternal", "upLocal"}
NothingWithoutEnv ==
  env.file = "none" =>
    /\ up = {} /\ saved.plan = "none"
    /\ command.launch => OneStep("copy")
    /\ command.todo = <<>> \/ Head(command.todo) \in WithoutEnv
    /\ ~Comes("plan")

(* What each part of the host is like unless something about it is undone.  *)
NginxKept == {"nginx", "app"} \subseteq up => with.external \/ Undone("nginx")
ModeKept ==
  saved.plan = env.mode /\ ~Undone("start") =>
    /\ env.mode # "rag" /\ "llm" \notin missed => llm.state # "running"
    /\ env.mode = "basic" /\ "workers" \notin missed => "documents" \notin up
LoginKept == "app" \in up => Undone("login") \/ Undone("start") \/ with.login = env.login
SecretsKept ==
  env.file = "none" \/ Undone("secrets") \/ (env.file = "random" /\ env.token = "random")
EndpointKept ==
  saved.emb \in Catalog \cup {"none"} \/ Undone("endpoint") \/ <<saved.emb, env.url>> \in probed

(* What the steps already done have achieved.                               *)
StartDone ==
  /\ OneStep("stopDisabled") \/ OneStep("up") \/ OneStep("upLocal") =>
       "nginx" \in missed \/ "nginx" \notin up
  /\ Comes("plan") /\ ~OneStep("stopNginx") /\ ~OneStep("stopDisabled") =>
       (env.mode = "basic" => "workers" \in missed \/ "documents" \notin up)
  /\ Comes("plan") /\ ~Comes("up") => ("app" \in up => with.login = env.login)
  /\ OneStep("plan") => (env.mode # "rag" => "llm" \in missed \/ llm.state # "running")
  /\ Comes("plan") /\ (OneStep("detect") \/ OneStep("apply")) => env.mode = "rag"
ChangeDone ==
  /\ OneStep("compare") \/ OneStep("ask") \/ OneStep("halt") \/ OneStep("change") =>
       command.candidate.url = "none" \/ env.url = command.candidate.url
  /\ OneStep("recreate") =>
       \/ saved.emb \in Catalog \cup {"none"} \/ "endpoint" \in missed
       \/ <<saved.emb, env.url>> \in probed
(* A change of the embedding model is not for the basic mode.               *)
ChangeAllowed ==
  ~Comes("saveMode") /\ ToSet(command.todo) \cap ChangeParts # {} =>
    env.mode # "basic" /\ env.file # "none"
(* What is saved comes into force later, or was said not to.                *)
SavesTold ==
  /\ Comes("saveMode") => command.launch \/ "start" \in missed
  /\ Comes("login") => command.launch \/ "login" \in missed
PauseDone == ~command.ok => Unlaunched \subseteq missed

Kept ==
  NothingWithoutEnv /\ NginxKept /\ ModeKept /\ LoginKept /\ SecretsKept /\ EndpointKept /\ VectorsOfActive
Done == StartDone /\ ChangeDone /\ ChangeAllowed /\ SavesTold /\ PauseDone

(* The inductive invariant.                                                 *)
HostInv == InstallationTypeOK /\ Carried /\ Kept /\ Done

-----------------------------------------------------------------------------
(* Sequences of steps.                                                      *)

LEMMA Ahead ==
  ASSUME NEW S, NEW t \in Seq(S), t # <<>>
  PROVE  /\ Head(t) \in S /\ Tail(t) \in Seq(S)
         /\ ToSet(t) = {Head(t)} \cup ToSet(Tail(t))
         /\ Len(t) = 1 <=> Tail(t) = <<>>
<1>1. Len(t) \in Nat /\ Len(t) > 0 /\ Len(<<>>) = 0
  BY EmptySeq, LenProperties
<1>2. /\ Head(t) = t[1] /\ Tail(t) \in Seq(S) /\ Len(Tail(t)) = Len(t) - 1
      /\ \A i \in 1..(Len(t) - 1) : Tail(t)[i] = t[i + 1]
  BY <1>1
<1>3. ToSet(t) = {t[i] : i \in 1..Len(t)} /\ ToSet(Tail(t)) = {Tail(t)[i] : i \in 1..(Len(t) - 1)}
  <2>1. DOMAIN t = 1..Len(t) /\ DOMAIN Tail(t) = 1..(Len(t) - 1)
    BY <1>2
  <2> QED
    BY <2>1, Zenon DEF ToSet
<1>4. \A i \in 1..Len(t) : i = 1 \/ (i - 1 \in 1..(Len(t) - 1) /\ (i - 1) + 1 = i)
  BY <1>1
<1>5. \A i \in 1..(Len(t) - 1) : i + 1 \in 1..Len(t)
  BY <1>1
<1>6. 1 \in 1..Len(t)
  BY <1>1
<1>7. ASSUME NEW x \in ToSet(t)
      PROVE  x \in {Head(t)} \cup ToSet(Tail(t))
  <2>1. PICK i \in 1..Len(t) : x = t[i]
    BY <1>3, <1>7
  <2>2. CASE i = 1
    BY <1>2, <2>1, <2>2
  <2>3. CASE i # 1
    <3>1. i - 1 \in 1..(Len(t) - 1) /\ t[i] = t[(i - 1) + 1]
      BY <1>4, <2>3
    <3>2. Tail(t)[i - 1] = x
      BY <1>2, <2>1, <3>1
    <3> QED
      BY <1>3, <3>1, <3>2
  <2> QED
    BY <2>2, <2>3
<1>8. ASSUME NEW x \in {Head(t)} \cup ToSet(Tail(t))
      PROVE  x \in ToSet(t)
  <2>1. CASE x = Head(t)
    BY <1>2, <1>3, <1>6, <2>1
  <2>2. CASE x \in ToSet(Tail(t))
    <3>1. PICK i \in 1..(Len(t) - 1) : x = Tail(t)[i]
      BY <1>3, <2>2
    <3> QED
      BY <1>2, <1>3, <1>5, <3>1
  <2> QED
    BY <1>8, <2>1, <2>2
<1>9. Len(t) = 1 <=> Tail(t) = <<>>
  <2>1. Len(t) = 1 => Len(Tail(t)) = 0
    BY <1>1, <1>2
  <2>2. Tail(t) = <<>> => Len(t) - 1 = 0
    BY <1>1, <1>2
  <2>3. Len(t) - 1 = 0 => Len(t) = 1
    BY <1>1
  <2> QED
    BY <1>2, <2>1, <2>2, <2>3, EmptySeq
<1> QED
  BY <1>1, <1>2, <1>7, <1>8, <1>9

LEMMA Before ==
  ASSUME NEW S, NEW s \in S, NEW r \in Seq(S)
  PROVE  /\ <<s>> \o r \in Seq(S) /\ <<s>> \o r # <<>>
         /\ Head(<<s>> \o r) = s /\ Tail(<<s>> \o r) = r
<1>1. <<s>> \o r \in Seq(S) /\ <<s>> \o r # <<>>
  BY HeadTailProperties, ConcatProperties
<1>2. Tail(<<s>> \o r) = r
  OBVIOUS
<1> QED
  BY <1>1, <1>2, HeadTailProperties, ConcatProperties

LEMMA TwoBefore ==
  ASSUME NEW S, NEW s \in S, NEW s2 \in S, NEW r \in Seq(S)
  PROVE  /\ <<s, s2>> \o r \in Seq(S) /\ <<s, s2>> \o r # <<>>
         /\ Head(<<s, s2>> \o r) = s /\ Tail(<<s, s2>> \o r) = <<s2>> \o r
<1> DEFINE a == <<s, s2>>
           b == <<s2>>
<1>1. a \in Seq(S) /\ b \in Seq(S) /\ Len(a) = 2 /\ Len(b) = 1 /\ a[1] = s /\ a[2] = s2 /\ b[1] = s2
  OBVIOUS
<1> HIDE DEF a, b
<1>2. Len(r) \in Nat
  BY LenProperties
<1>3. /\ a \o r \in Seq(S) /\ Len(a \o r) = 2 + Len(r)
      /\ \A i \in 1..(2 + Len(r)) : (a \o r)[i] = IF i <= 2 THEN a[i] ELSE r[i - 2]
  <2>1. /\ a \o r \in Seq(S) /\ Len(a \o r) = Len(a) + Len(r)
        /\ \A i \in 1..(Len(a) + Len(r)) : (a \o r)[i] = IF i <= Len(a) THEN a[i] ELSE r[i - Len(a)]
    BY <1>1, ConcatProperties, Zenon
  <2> QED
    BY <1>1, <2>1
<1>4. /\ b \o r \in Seq(S) /\ Len(b \o r) = 1 + Len(r)
      /\ \A i \in 1..(1 + Len(r)) : (b \o r)[i] = IF i <= 1 THEN b[i] ELSE r[i - 1]
  <2>1. /\ b \o r \in Seq(S) /\ Len(b \o r) = Len(b) + Len(r)
        /\ \A i \in 1..(Len(b) + Len(r)) : (b \o r)[i] = IF i <= Len(b) THEN b[i] ELSE r[i - Len(b)]
    BY <1>1, ConcatProperties, Zenon
  <2> QED
    BY <1>1, <2>1
<1>5. a \o r # <<>> /\ 1 \in 1..(2 + Len(r))
  BY <1>2, <1>3, EmptySeq
<1>6. /\ Tail(a \o r) \in Seq(S) /\ Len(Tail(a \o r)) = 1 + Len(r)
      /\ \A i \in 1..(1 + Len(r)) : Tail(a \o r)[i] = (a \o r)[i + 1]
  BY <1>2, <1>3, <1>5, HeadTailProperties
<1>7. ASSUME NEW i \in 1..(1 + Len(r))
      PROVE  Tail(a \o r)[i] = (b \o r)[i]
  <2>1. i + 1 \in 1..(2 + Len(r)) /\ (i + 1) - 2 = i - 1 /\ (i + 1 <= 2 <=> i = 1) /\ (i <= 1 <=> i = 1)
    BY <1>2
  <2> QED
    BY <1>1, <1>3, <1>4, <1>6, <2>1
<1>8. Tail(a \o r) = b \o r
  BY <1>4, <1>6, <1>7, SeqEqual
<1>9. Head(a \o r) = s
  BY <1>1, <1>2, <1>3, <1>5
<1> QED
  BY <1>3, <1>5, <1>8, <1>9 DEF a, b

LEMMA NothingLeft == ToSet(<<>>) = {}
  BY DEF ToSet

LEMMA PauseIsTwo ==
  /\ PauseSteps = <<"pause", "pauseLlm">> /\ PauseSteps \in Seq(Steps) /\ PauseSteps # <<>>
  /\ Head(PauseSteps) = "pause" /\ Tail(PauseSteps) = <<"pauseLlm">>
  BY DEF PauseSteps, Steps

LEMMA ShortLists ==
  /\ \A s \in Steps : /\ <<s>> \in Seq(Steps) /\ <<s>> # <<>> /\ Head(<<s>>) = s /\ Tail(<<s>>) = <<>>
                      /\ <<s>> \o <<>> = <<s>>
  /\ <<>> \in Seq(Steps)
  BY EmptySeq, ConcatEmptySeq

LEMMA AfterEnsureGoes ==
  ASSUME NEW r \in AfterEnsure
  PROVE  /\ r \in Seq(Steps) /\ Goes(r)
         /\ r = <<>> \/ Head(r) \in {"pause", "login", "saveMode"}
<1>0. {"pause", "pauseLlm", "login", "saveMode", "default", "offer"} \subseteq Steps
  BY DEF Steps
<1>1. CASE r = <<>>
  BY <1>1, ShortLists DEF Goes
<1>2. CASE r = <<"pause", "pauseLlm">>
  BY <1>0, <1>2, PauseIsTwo DEF Goes, Rest
<1>3. ASSUME NEW q \in {<<>>, <<"pause", "pauseLlm">>}, r = <<"login">> \o q
      PROVE  r \in Seq(Steps) /\ Goes(r) /\ Head(r) = "login"
  <2>1. q \in Seq(Steps)
    BY PauseIsTwo, ShortLists
  <2>2. r \in Seq(Steps) /\ Head(r) = "login" /\ Tail(r) = q
    BY <1>0, <1>3, <2>1, Before
  <2> QED
    BY <1>0, <2>2 DEF Goes, Rest
<1>4. ASSUME NEW q \in {<<>>, <<"default">>, <<"offer">>}, r = <<"saveMode">> \o q
      PROVE  r \in Seq(Steps) /\ Goes(r) /\ Head(r) = "saveMode"
  <2>1. q \in Seq(Steps)
    BY <1>0, ShortLists
  <2>2. r \in Seq(Steps) /\ Head(r) = "saveMode" /\ Tail(r) = q
    BY <1>0, <1>4, <2>1, Before
  <2> QED
    BY <1>0, <2>2 DEF Goes, Rest
<1> QED
  BY <1>1, <1>2, <1>3, <1>4, PauseIsTwo DEF AfterEnsure

(* The lists whose course is fixed.                                         *)
FixedHeads ==
  {"url", "compare", "ask", "halt", "change", "stopNginx", "stopDisabled", "up", "llm", "pause",
   "stopWorkers", "removeLlm", "stopExternal"}
After(s) ==
  CASE s = "url" -> "compare" [] s = "compare" -> "ask" [] s = "ask" -> "halt"
    [] s = "halt" -> "change" [] s = "change" -> "recreate"
    [] s = "stopNginx" -> "stopDisabled" [] s = "stopDisabled" -> "up"
    [] s = "up" -> "llm" [] s = "llm" -> "plan"
    [] s = "pause" -> "pauseLlm" [] s = "stopWorkers" -> "removeLlm"
    [] s = "removeLlm" -> "down" [] s = "stopExternal" -> "upLocal"

LEMMA FixedGoes ==
  ASSUME NEW s \in FixedHeads, NEW r \in Rest(s)
  PROVE  r \in Seq(Steps) /\ Goes(r) /\ r # <<>> /\ Head(r) = After(s)
<1>1. CASE s = "url"
  <2>1. r = <<"compare", "ask", "halt", "change", "recreate">>
    BY <1>1 DEF Rest
  <2>2. r \in Seq(Steps) /\ Head(r) = "compare" /\ r # <<>> /\ "compare" \in Steps
    BY <2>1 DEF Steps
  <2>3. Tail(r) = <<"ask", "halt", "change", "recreate">>
    BY <2>1
  <2>4. Tail(r) \in Rest("compare")
    BY <2>3 DEF Rest
  <2> QED
    BY <1>1, <2>2, <2>4 DEF Goes, After
<1>2. CASE s = "compare"
  <2>1. r = <<"ask", "halt", "change", "recreate">>
    BY <1>2 DEF Rest
  <2>2. r \in Seq(Steps) /\ Head(r) = "ask" /\ r # <<>> /\ "ask" \in Steps
    BY <2>1 DEF Steps
  <2>3. Tail(r) = <<"halt", "change", "recreate">>
    BY <2>1
  <2>4. Tail(r) \in Rest("ask")
    BY <2>3 DEF Rest
  <2> QED
    BY <1>2, <2>2, <2>4 DEF Goes, After
<1>3. CASE s = "ask"
  <2>1. r = <<"halt", "change", "recreate">>
    BY <1>3 DEF Rest
  <2>2. r \in Seq(Steps) /\ Head(r) = "halt" /\ r # <<>> /\ "halt" \in Steps
    BY <2>1 DEF Steps
  <2>3. Tail(r) = <<"change", "recreate">>
    BY <2>1
  <2>4. Tail(r) \in Rest("halt")
    BY <2>3 DEF Rest
  <2> QED
    BY <1>3, <2>2, <2>4 DEF Goes, After
<1>4. CASE s = "halt"
  <2>1. r = <<"change", "recreate">>
    BY <1>4 DEF Rest
  <2>2. r \in Seq(Steps) /\ Head(r) = "change" /\ r # <<>> /\ "change" \in Steps
    BY <2>1 DEF Steps
  <2>3. Tail(r) = <<"recreate">>
    BY <2>1
  <2>4. Tail(r) \in Rest("change")
    BY <2>3 DEF Rest
  <2> QED
    BY <1>4, <2>2, <2>4 DEF Goes, After
<1>5. CASE s = "change"
  <2>1. r = <<"recreate">>
    BY <1>5 DEF Rest
  <2>2. r \in Seq(Steps) /\ Head(r) = "recreate" /\ r # <<>> /\ "recreate" \in Steps
    BY <2>1 DEF Steps
  <2>3. Tail(r) = <<>>
    BY <2>1
  <2>4. Tail(r) \in Rest("recreate")
    BY <2>3 DEF Rest
  <2> QED
    BY <1>5, <2>2, <2>4 DEF Goes, After
<1>6. CASE s = "stopNginx"
  <2>1. r = <<"stopDisabled", "up", "llm", "plan">>
    BY <1>6 DEF Rest
  <2>2. r \in Seq(Steps) /\ Head(r) = "stopDisabled" /\ r # <<>> /\ "stopDisabled" \in Steps
    BY <2>1 DEF Steps
  <2>3. Tail(r) = <<"up", "llm", "plan">>
    BY <2>1
  <2>4. Tail(r) \in Rest("stopDisabled")
    BY <2>3 DEF Rest
  <2> QED
    BY <1>6, <2>2, <2>4 DEF Goes, After
<1>7. CASE s = "stopDisabled"
  <2>1. r = <<"up", "llm", "plan">>
    BY <1>7 DEF Rest
  <2>2. r \in Seq(Steps) /\ Head(r) = "up" /\ r # <<>> /\ "up" \in Steps
    BY <2>1 DEF Steps
  <2>3. Tail(r) = <<"llm", "plan">>
    BY <2>1
  <2>4. Tail(r) \in Rest("up")
    BY <2>3 DEF Rest
  <2> QED
    BY <1>7, <2>2, <2>4 DEF Goes, After
<1>8. CASE s = "up"
  <2>1. r = <<"llm", "plan">>
    BY <1>8 DEF Rest
  <2>2. r \in Seq(Steps) /\ Head(r) = "llm" /\ r # <<>> /\ "llm" \in Steps
    BY <2>1 DEF Steps
  <2>3. Tail(r) = <<"plan">>
    BY <2>1
  <2>4. Tail(r) \in Rest("llm")
    BY <2>3 DEF Rest
  <2> QED
    BY <1>8, <2>2, <2>4 DEF Goes, After
<1>9. CASE s = "llm"
  <2>1. r = <<"plan">>
    BY <1>9 DEF Rest
  <2>2. r \in Seq(Steps) /\ Head(r) = "plan" /\ r # <<>> /\ "plan" \in Steps
    BY <2>1 DEF Steps
  <2>3. Tail(r) = <<>>
    BY <2>1
  <2>4. Tail(r) \in Rest("plan")
    BY <2>3 DEF Rest
  <2> QED
    BY <1>9, <2>2, <2>4 DEF Goes, After
<1>10. CASE s = "pause"
  <2>1. r = <<"pauseLlm">>
    BY <1>10 DEF Rest
  <2>2. r \in Seq(Steps) /\ Head(r) = "pauseLlm" /\ r # <<>> /\ "pauseLlm" \in Steps
    BY <2>1 DEF Steps
  <2>3. Tail(r) = <<>>
    BY <2>1
  <2>4. Tail(r) \in Rest("pauseLlm")
    BY <2>3 DEF Rest
  <2> QED
    BY <1>10, <2>2, <2>4 DEF Goes, After
<1>11. CASE s = "stopWorkers"
  <2>1. r = <<"removeLlm", "down">>
    BY <1>11 DEF Rest
  <2>2. r \in Seq(Steps) /\ Head(r) = "removeLlm" /\ r # <<>> /\ "removeLlm" \in Steps
    BY <2>1 DEF Steps
  <2>3. Tail(r) = <<"down">>
    BY <2>1
  <2>4. Tail(r) \in Rest("removeLlm")
    BY <2>3 DEF Rest
  <2> QED
    BY <1>11, <2>2, <2>4 DEF Goes, After
<1>12. CASE s = "removeLlm"
  <2>1. r = <<"down">>
    BY <1>12 DEF Rest
  <2>2. r \in Seq(Steps) /\ Head(r) = "down" /\ r # <<>> /\ "down" \in Steps
    BY <2>1 DEF Steps
  <2>3. Tail(r) = <<>>
    BY <2>1
  <2>4. Tail(r) \in Rest("down")
    BY <2>3 DEF Rest
  <2> QED
    BY <1>12, <2>2, <2>4 DEF Goes, After
<1>13. CASE s = "stopExternal"
  <2>1. r = <<"upLocal">>
    BY <1>13 DEF Rest
  <2>2. r \in Seq(Steps) /\ Head(r) = "upLocal" /\ r # <<>> /\ "upLocal" \in Steps
    BY <2>1 DEF Steps
  <2>3. Tail(r) = <<>>
    BY <2>1
  <2>4. Tail(r) \in Rest("upLocal")
    BY <2>3 DEF Rest
  <2> QED
    BY <1>13, <2>2, <2>4 DEF Goes, After
<1> QED
  BY <1>1, <1>2, <1>3, <1>4, <1>5, <1>6, <1>7, <1>8, <1>9, <1>10, <1>11, <1>12, <1>13 DEF FixedHeads

LastHeads == {"default", "offer", "recreate", "plan", "pauseLlm", "down", "wipe", "connect", "upLocal"}

LEMMA Heads ==
  Steps = FixedHeads \cup LastHeads \cup {"copy", "secrets", "backfill", "login", "saveMode", "detect", "apply"}
  BY DEF Steps, FixedHeads, LastHeads

LEMMA RestGoes ==
  ASSUME NEW s \in Steps, NEW r \in Rest(s)
  PROVE  r \in Seq(Steps) /\ Goes(r)
<1>1. CASE s \in FixedHeads
  BY <1>1, FixedGoes
<1>2. CASE s \in LastHeads
  <2>1. r = <<>>
    BY <1>2 DEF Rest, LastHeads
  <2> QED
    BY <2>1, ShortLists DEF Goes
<1>3. CASE s = "copy"
  <2>1. PICK q \in AfterEnsure : r = <<"secrets">> \o q
    BY <1>3 DEF Rest
  <2>2. q \in Seq(Steps) /\ "secrets" \in Steps
    BY AfterEnsureGoes DEF Steps
  <2>3. r \in Seq(Steps) /\ Head(r) = "secrets" /\ Tail(r) = q
    BY <2>1, <2>2, Before
  <2> QED
    BY <2>2, <2>3 DEF Goes, Rest
<1>4. CASE s \in {"secrets", "backfill"}
  BY <1>4, AfterEnsureGoes DEF Rest
<1>5. CASE s \in {"login", "saveMode"}
  <2>1. r \in {<<>>, <<"pause", "pauseLlm">>, <<"default">>, <<"offer">>}
    BY <1>5 DEF Rest
  <2>2. {"pause", "default", "offer"} \subseteq Steps
    BY DEF Steps
  <2>3. CASE r = <<>>
    BY <2>3, ShortLists DEF Goes
  <2>4. CASE r = <<"pause", "pauseLlm">>
    BY <2>2, <2>4, PauseIsTwo DEF Goes, Rest
  <2>5. CASE r \in {<<"default">>, <<"offer">>}
    <3>1. PICK q \in {"default", "offer"} : r = <<q>>
      BY <2>5
    <3>2. r \in Seq(Steps) /\ Head(r) = q /\ Tail(r) = <<>> /\ q \in Steps
      BY <2>2, <3>1, ShortLists
    <3>3. <<>> \in Rest(q)
      BY DEF Rest
    <3> QED
      BY <3>2, <3>3 DEF Goes
  <2> QED
    BY <2>1, <2>3, <2>4, <2>5
<1>6. CASE s \in {"detect", "apply"}
  <2>1. r \in {<<>>, <<"apply">>, <<"plan">>, <<"apply", "plan">>}
    BY <1>6 DEF Rest
  <2>2. {"apply", "plan"} \subseteq Steps
    BY DEF Steps
  <2>3. CASE r = <<>>
    BY <2>3, ShortLists DEF Goes
  <2>4. CASE r \in {<<"apply">>, <<"plan">>}
    <3>1. PICK q \in {"apply", "plan"} : r = <<q>>
      BY <2>4
    <3>2. r \in Seq(Steps) /\ Head(r) = q /\ Tail(r) = <<>> /\ q \in Steps
      BY <2>2, <3>1, ShortLists
    <3>3. <<>> \in Rest(q)
      BY DEF Rest
    <3> QED
      BY <3>2, <3>3 DEF Goes
  <2>5. CASE r = <<"apply", "plan">>
    <3>1. r \in Seq(Steps) /\ Head(r) = "apply" /\ Tail(r) = <<"plan">>
      BY <2>2, <2>5
    <3> QED
      BY <2>2, <3>1 DEF Goes, Rest
  <2> QED
    BY <2>1, <2>3, <2>4, <2>5
<1> QED
  BY <1>1, <1>2, <1>3, <1>4, <1>5, <1>6, Heads


LEMMA GoesAhead ==
  ASSUME NEW t \in Seq(Steps), t # <<>>, Goes(t)
  PROVE  /\ Head(t) \in Steps /\ Tail(t) \in Rest(Head(t)) /\ Tail(t) \in Seq(Steps) /\ Goes(Tail(t))
         /\ ToSet(t) = {Head(t)} \cup ToSet(Tail(t))
         /\ Len(t) = 1 <=> Tail(t) = <<>>
         /\ Head(t) \in FixedHeads => Tail(t) # <<>> /\ Head(Tail(t)) = After(Head(t))
         /\ Head(t) \in LastHeads => Tail(t) = <<>>
<1>1. Head(t) \in Steps /\ Tail(t) \in Rest(Head(t))
  BY DEF Goes
<1>2. Head(t) \in LastHeads => Tail(t) = <<>>
  <2>1. \A s \in LastHeads : Rest(s) = {<<>>}
    BY DEF Rest, LastHeads
  <2> QED
    BY <1>1, <2>1
<1> QED
  BY <1>1, <1>2, Ahead, RestGoes, FixedGoes

(* What a list may still hold, and what it does.                            *)
May(h) ==
  CASE h = "llm" -> {"llm", "plan"}
    [] h = "up" -> {"up", "llm", "plan"}
    [] h = "stopDisabled" -> {"stopDisabled", "up", "llm", "plan"}
    [] h = "stopNginx" -> {"stopNginx", "stopDisabled", "up", "llm", "plan"}
    [] h = "detect" -> {"detect", "apply", "plan"}
    [] h = "apply" -> {"apply", "plan"}
    [] h = "change" -> {"change", "recreate"}
    [] h = "halt" -> {"halt", "change", "recreate"}
    [] h = "ask" -> {"ask", "halt", "change", "recreate"}
    [] h = "compare" -> {"compare", "ask", "halt", "change", "recreate"}
    [] h = "url" -> {"url", "compare", "ask", "halt", "change", "recreate"}
    [] h = "pause" -> {"pause", "pauseLlm"}
    [] h = "stopWorkers" -> {"stopWorkers", "removeLlm", "down"}
    [] h = "removeLlm" -> {"removeLlm", "down"}
    [] h = "stopExternal" -> {"stopExternal", "upLocal"}
    [] h = "login" -> {"login", "pause", "pauseLlm"}
    [] h = "saveMode" -> {"saveMode", "default", "offer"}
    [] h \in {"copy", "secrets", "backfill"} ->
         {h, "secrets", "pause", "pauseLlm", "login", "saveMode", "default", "offer"}
    [] OTHER -> {h}
Free == {"detect", "apply", "login", "saveMode", "copy", "secrets", "backfill"}
Must(h) ==
  CASE h = "detect" -> {"detect", "apply"}
    [] h = "copy" -> {"copy", "secrets"}
    [] h \in Free \ {"detect", "copy"} -> {h}
    [] h \notin Free -> May(h)

LEMMA LastHolds ==
  ASSUME NEW t \in Seq(Steps), t # <<>>, Goes(t), Head(t) \in LastHeads
  PROVE  ToSet(t) = May(Head(t)) /\ May(Head(t)) = {Head(t)}
<1>1. ToSet(t) = {Head(t)}
  BY GoesAhead, NothingLeft
<1>2. May(Head(t)) = {Head(t)}
  BY DEF May, LastHeads
<1> QED
  BY <1>1, <1>2

(* A list with a fixed course holds its first step and what the rest holds. *)
LEMMA FixedHolds ==
  ASSUME NEW t \in Seq(Steps), t # <<>>, Goes(t), Head(t) \in FixedHeads
  PROVE  ToSet(t) = May(Head(t))
<1> DEFINE Holds(h) == \A q \in Seq(Steps) : q # <<>> /\ Goes(q) /\ Head(q) = h => ToSet(q) = May(h)
<1>1. ASSUME NEW h \in FixedHeads, Holds(After(h)), {h} \cup May(After(h)) = May(h)
      PROVE  Holds(h)
  <2>1. ASSUME NEW q \in Seq(Steps), q # <<>>, Goes(q), Head(q) = h
        PROVE  ToSet(q) = May(h)
    <3>1. /\ ToSet(q) = {h} \cup ToSet(Tail(q)) /\ Tail(q) \in Seq(Steps) /\ Tail(q) # <<>>
          /\ Goes(Tail(q)) /\ Head(Tail(q)) = After(h)
      BY <1>1, <2>1, GoesAhead
    <3>2. ToSet(Tail(q)) = May(After(h))
      BY <1>1, <3>1
    <3> QED
      BY <1>1, <3>1, <3>2
  <2> QED
    BY <2>1
<1>2. \A h \in LastHeads : Holds(h)
  BY LastHolds
<1>3. /\ After("change") = "recreate" /\ After("llm") = "plan" /\ After("pause") = "pauseLlm"
      /\ After("removeLlm") = "down" /\ After("stopExternal") = "upLocal"
      /\ {"change", "llm", "pause", "removeLlm", "stopExternal"} \subseteq FixedHeads
      /\ {"recreate", "plan", "pauseLlm", "down", "upLocal"} \subseteq LastHeads
  BY DEF After, FixedHeads, LastHeads
<1>4. /\ {"change"} \cup May("recreate") = May("change") /\ {"llm"} \cup May("plan") = May("llm")
      /\ {"pause"} \cup May("pauseLlm") = May("pause") /\ {"removeLlm"} \cup May("down") = May("removeLlm")
      /\ {"stopExternal"} \cup May("upLocal") = May("stopExternal")
  BY DEF May
<1>5. /\ After("halt") = "change" /\ After("up") = "llm" /\ After("stopWorkers") = "removeLlm"
      /\ After("ask") = "halt" /\ After("stopDisabled") = "up" /\ After("compare") = "ask"
      /\ After("stopNginx") = "stopDisabled" /\ After("url") = "compare"
      /\ {"halt", "up", "stopWorkers", "ask", "stopDisabled", "compare", "stopNginx", "url"} \subseteq FixedHeads
  BY DEF After, FixedHeads
<1>6. /\ {"halt"} \cup May("change") = May("halt") /\ {"up"} \cup May("llm") = May("up")
      /\ {"stopWorkers"} \cup May("removeLlm") = May("stopWorkers")
      /\ {"ask"} \cup May("halt") = May("ask") /\ {"compare"} \cup May("ask") = May("compare")
      /\ {"url"} \cup May("compare") = May("url")
      /\ {"stopDisabled"} \cup May("up") = May("stopDisabled")
      /\ {"stopNginx"} \cup May("stopDisabled") = May("stopNginx")
  BY DEF May
<1> HIDE DEF Holds
<1>7. Holds("change") /\ Holds("llm") /\ Holds("pause") /\ Holds("removeLlm") /\ Holds("stopExternal")
  BY <1>1, <1>2, <1>3, <1>4
<1>8. Holds("halt") /\ Holds("up") /\ Holds("stopWorkers")
  BY <1>1, <1>5, <1>6, <1>7
<1>9. Holds("ask") /\ Holds("stopDisabled")
  BY <1>1, <1>5, <1>6, <1>8
<1>10. Holds("compare") /\ Holds("stopNginx")
  BY <1>1, <1>5, <1>6, <1>9
<1>11. Holds("url")
  BY <1>1, <1>5, <1>6, <1>10
<1>12. Holds(Head(t))
  BY <1>7, <1>8, <1>9, <1>10, <1>11 DEF FixedHeads
<1> QED
  BY <1>12 DEF Holds

LEMMA ShortHolds ==
  /\ \A s \in Steps : ToSet(<<s>>) = {s}
  /\ ToSet(<<"pause", "pauseLlm">>) = {"pause", "pauseLlm"}
<1>1. ASSUME NEW s \in Steps
      PROVE  ToSet(<<s>>) = {s}
  <2>1. <<s>> \in Seq(Steps) /\ <<s>> # <<>> /\ Head(<<s>>) = s /\ Tail(<<s>>) = <<>>
    BY ShortLists
  <2>2. ToSet(<<s>>) = {Head(<<s>>)} \cup ToSet(Tail(<<s>>))
    BY <2>1, Ahead
  <2> QED
    BY <2>1, <2>2, NothingLeft
<1>2. ToSet(<<"pause", "pauseLlm">>) = {"pause", "pauseLlm"}
  <2>1. ToSet(PauseSteps) = {"pause"} \cup ToSet(<<"pauseLlm">>)
    BY PauseIsTwo, Ahead
  <2>2. "pauseLlm" \in Steps
    BY DEF Steps
  <2> QED
    BY <1>1, <2>1, <2>2, PauseIsTwo
<1> QED
  BY <1>1, <1>2

LEMMA EnsureHolds ==
  ASSUME NEW r \in AfterEnsure
  PROVE  /\ ToSet(r) \subseteq {"pause", "pauseLlm", "login", "saveMode", "default", "offer"}
         /\ "offer" \in ToSet(r) => "saveMode" \in ToSet(r)
<1>0. {"pause", "pauseLlm", "login", "saveMode", "default", "offer"} \subseteq Steps
  BY DEF Steps
<1>1. CASE r = <<>>
  BY <1>1, NothingLeft
<1>2. ToSet(<<"pause", "pauseLlm">>) = {"pause", "pauseLlm"}
  BY ShortHolds
<1>3. \A s \in Steps : ToSet(<<s>>) = {s}
  BY ShortHolds
<1>4. ASSUME NEW q \in {<<>>, <<"pause", "pauseLlm">>}, r = <<"login">> \o q
      PROVE  ToSet(r) = {"login"} \cup ToSet(q)
  <2>1. q \in Seq(Steps)
    BY PauseIsTwo, ShortLists
  <2>2. r \in Seq(Steps) /\ r # <<>> /\ Head(r) = "login" /\ Tail(r) = q
    BY <1>0, <1>4, <2>1, Before
  <2> QED
    BY <2>2, Ahead
<1>5. ASSUME NEW q \in {<<>>, <<"default">>, <<"offer">>}, r = <<"saveMode">> \o q
      PROVE  ToSet(r) = {"saveMode"} \cup ToSet(q)
  <2>1. q \in Seq(Steps)
    BY <1>0, ShortLists
  <2>2. r \in Seq(Steps) /\ r # <<>> /\ Head(r) = "saveMode" /\ Tail(r) = q
    BY <1>0, <1>5, <2>1, Before
  <2> QED
    BY <2>2, Ahead
<1>6. CASE r = <<"pause", "pauseLlm">>
  BY <1>2, <1>6
<1>7. CASE \E q \in {<<>>, <<"pause", "pauseLlm">>} : r = <<"login">> \o q
  <2>1. PICK q \in {<<>>, <<"pause", "pauseLlm">>} : r = <<"login">> \o q
    BY <1>7
  <2>2. ToSet(q) \subseteq {"pause", "pauseLlm"}
    BY <1>2, NothingLeft
  <2>3. ToSet(r) = {"login"} \cup ToSet(q)
    BY <1>4, <2>1
  <2> QED
    BY <2>2, <2>3
<1>8. CASE \E q \in {<<>>, <<"default">>, <<"offer">>} : r = <<"saveMode">> \o q
  <2>1. PICK q \in {<<>>, <<"default">>, <<"offer">>} : r = <<"saveMode">> \o q
    BY <1>8
  <2>2. ToSet(q) \subseteq {"default", "offer"}
    BY <1>0, <1>3, NothingLeft
  <2> QED
    BY <1>5, <2>1, <2>2
<1> QED
  BY <1>1, <1>6, <1>7, <1>8 DEF AfterEnsure

LEMMA FreeHolds ==
  ASSUME NEW t \in Seq(Steps), t # <<>>, Goes(t), Head(t) \in Free
  PROVE  /\ Must(Head(t)) \subseteq ToSet(t) /\ ToSet(t) \subseteq May(Head(t))
         /\ Head(t) \in {"copy", "secrets", "backfill"} /\ "offer" \in ToSet(t) => "saveMode" \in ToSet(t)
         /\ Head(t) = "copy" => Tail(t) # <<>> /\ Head(Tail(t)) = "secrets"
         /\ Head(t) = "detect" => Tail(t) # <<>> /\ Head(Tail(t)) = "apply"
         /\ Head(t) = "apply" /\ Tail(t) # <<>> => Head(Tail(t)) = "plan"
         /\ Head(t) \in {"secrets", "backfill"} /\ Tail(t) # <<>> => Head(Tail(t)) \in {"pause", "login", "saveMode"}
         /\ Head(t) = "login" /\ Tail(t) # <<>> => Head(Tail(t)) = "pause"
         /\ Head(t) = "saveMode" /\ Tail(t) # <<>> => Head(Tail(t)) \in {"default", "offer"}
<1> DEFINE h == Head(t)
           r == Tail(t)
<1>1. r \in Rest(h) /\ r \in Seq(Steps) /\ Goes(r) /\ ToSet(t) = {h} \cup ToSet(r)
  BY GoesAhead
<1>0. {"pause", "pauseLlm", "default", "offer", "apply", "plan", "secrets"} \subseteq Steps
  BY DEF Steps
<1> HIDE DEF h, r
<1>2. ToSet(<<"pause", "pauseLlm">>) = {"pause", "pauseLlm"}
  BY ShortHolds
<1>3. \A s \in Steps : ToSet(<<s>>) = {s}
  BY ShortHolds
<1>4. ToSet(<<"apply", "plan">>) = {"apply", "plan"} /\ <<"apply", "plan">> # <<>> /\ Head(<<"apply", "plan">>) = "apply"
  <2> DEFINE q == <<"apply", "plan">>
  <2>1. q \in Seq(Steps) /\ q # <<>> /\ Head(q) = "apply" /\ Tail(q) = <<"plan">>
    BY <1>0
  <2> HIDE DEF q
  <2>2. ToSet(q) = {"apply", "plan"}
    <3>1. ToSet(q) = {Head(q)} \cup ToSet(Tail(q))
      BY <2>1, Ahead
    <3> QED
      BY <1>0, <1>3, <2>1, <3>1
  <2> QED
    BY <2>1, <2>2 DEF q
<1>5. CASE h = "detect"
  <2>1. r \in {<<"apply">>, <<"apply", "plan">>}
    BY <1>1, <1>5 DEF Rest
  <2>2. "apply" \in ToSet(r) /\ ToSet(r) \subseteq {"apply", "plan"} /\ r # <<>> /\ Head(r) = "apply"
    BY <1>0, <1>3, <1>4, <2>1, ShortLists
  <2>3. Must(h) = {"detect", "apply"} /\ May(h) = {"detect", "apply", "plan"}
    BY <1>5 DEF Must, May, Free
  <2> QED
    BY <1>1, <1>5, <2>2, <2>3 DEF h, r
<1>6. CASE h = "apply"
  <2>1. r \in {<<>>, <<"plan">>}
    BY <1>1, <1>6 DEF Rest
  <2>2. ToSet(r) \subseteq {"plan"} /\ (r # <<>> => Head(r) = "plan")
    BY <1>0, <1>3, <2>1, ShortLists, NothingLeft
  <2>3. Must(h) = {"apply"} /\ May(h) = {"apply", "plan"}
    BY <1>6 DEF Must, May, Free
  <2> QED
    BY <1>1, <1>6, <2>2, <2>3 DEF h, r
<1>7. CASE h = "login"
  <2>1. r \in {<<>>, <<"pause", "pauseLlm">>}
    BY <1>1, <1>7 DEF Rest
  <2>2. ToSet(r) \subseteq {"pause", "pauseLlm"} /\ (r # <<>> => Head(r) = "pause")
    BY <1>2, <2>1, PauseIsTwo, NothingLeft
  <2>3. Must(h) = {"login"} /\ May(h) = {"login", "pause", "pauseLlm"}
    BY <1>7 DEF Must, May, Free
  <2> QED
    BY <1>1, <1>7, <2>2, <2>3 DEF h, r
<1>8. CASE h = "saveMode"
  <2>1. r \in {<<>>, <<"default">>, <<"offer">>}
    BY <1>1, <1>8 DEF Rest
  <2>2. ToSet(r) \subseteq {"default", "offer"} /\ (r # <<>> => Head(r) \in {"default", "offer"})
    BY <1>0, <1>3, <2>1, ShortLists, NothingLeft
  <2>3. Must(h) = {"saveMode"} /\ May(h) = {"saveMode", "default", "offer"}
    BY <1>8 DEF Must, May, Free
  <2> QED
    BY <1>1, <1>8, <2>2, <2>3 DEF h, r
<1>9. CASE h \in {"secrets", "backfill"}
  <2>1. r \in AfterEnsure
    BY <1>1, <1>9 DEF Rest
  <2>2. Must(h) = {h} /\ May(h) = {h, "secrets", "pause", "pauseLlm", "login", "saveMode", "default", "offer"}
    BY <1>9 DEF Must, May, Free
  <2> QED
    BY <1>1, <1>9, <2>1, <2>2, EnsureHolds, AfterEnsureGoes DEF h, r
<1>10. CASE h = "copy"
  <2>1. PICK q \in AfterEnsure : r = <<"secrets">> \o q
    BY <1>1, <1>10 DEF Rest
  <2>2. q \in Seq(Steps)
    BY AfterEnsureGoes
  <2>3. r # <<>> /\ Head(r) = "secrets" /\ Tail(r) = q
    BY <1>0, <2>1, <2>2, Before
  <2>4. ToSet(r) = {"secrets"} \cup ToSet(q)
    BY <1>1, <2>3, Ahead
  <2>5. Must(h) = {h, "secrets"} /\ May(h) = {h, "secrets", "pause", "pauseLlm", "login", "saveMode", "default", "offer"}
    BY <1>10 DEF Must, May, Free
  <2> QED
    BY <1>1, <1>10, <2>3, <2>4, <2>5, EnsureHolds DEF h, r
<1> QED
  BY <1>5, <1>6, <1>7, <1>8, <1>9, <1>10 DEF Free, h

(* What a list holds, by the step at its head.                              *)
LEMMA Holds ==
  ASSUME NEW t \in Seq(Steps), t # <<>>, Goes(t)
  PROVE  /\ Must(Head(t)) \subseteq ToSet(t) /\ ToSet(t) \subseteq May(Head(t))
         /\ Head(t) \in {"copy", "secrets", "backfill"} /\ "offer" \in ToSet(t) => "saveMode" \in ToSet(t)
<1>1. Head(t) \in FixedHeads \cup LastHeads \cup Free
  BY GoesAhead, Heads DEF Free
<1>2. CASE Head(t) \in FixedHeads \cup LastHeads
  <2>1. ToSet(t) = May(Head(t))
    BY <1>2, FixedHolds, LastHolds
  <2>2. Must(Head(t)) = May(Head(t)) /\ Head(t) \notin {"copy", "secrets", "backfill"}
    BY <1>2 DEF FixedHeads, LastHeads, Must, Free
  <2> QED
    BY <2>1, <2>2
<1> QED
  BY <1>1, <1>2, FreeHolds

-----------------------------------------------------------------------------
(* How a command goes on.                                                   *)

LEMMA StartIsFive ==
  /\ StartSteps \in Seq(Steps) /\ StartSteps # <<>> /\ Goes(StartSteps)
  /\ Head(StartSteps) = "stopNginx"
  /\ ToSet(StartSteps) = {"stopNginx", "stopDisabled", "up", "llm", "plan"}
<1>1. StartSteps \in Seq(Steps) /\ StartSteps # <<>> /\ Head(StartSteps) = "stopNginx"
  BY DEF StartSteps, Steps
<1>2. Tail(StartSteps) = <<"stopDisabled", "up", "llm", "plan">>
  BY DEF StartSteps
<1>3. Goes(StartSteps)
  <2>1. Tail(StartSteps) \in Rest("stopNginx") /\ "stopNginx" \in Steps
    BY <1>2 DEF Rest, Steps
  <2> QED
    BY <1>1, <2>1 DEF Goes
<1>4. ToSet(StartSteps) = May("stopNginx") /\ May("stopNginx") = {"stopNginx", "stopDisabled", "up", "llm", "plan"}
  BY <1>1, <1>3, FixedHolds DEF FixedHeads, May
<1> QED
  BY <1>1, <1>3, <1>4

LEMMA PartsOf ==
  /\ PartOf("stopNginx") = "nginx" /\ PartOf("stopExternal") = "nginx" /\ PartOf("upLocal") = "nginx"
  /\ PartOf("pause") = "nginx" /\ PartOf("up") = "start" /\ PartOf("plan") = "start"
  /\ PartOf("stopDisabled") = "workers" /\ PartOf("recreate") = "endpoint"
  /\ \A s \in {"copy", "secrets", "backfill", "saveMode", "default", "offer", "login", "url", "compare", "ask",
               "halt", "change", "llm", "detect", "apply", "pauseLlm", "stopWorkers", "removeLlm",
               "down", "wipe", "connect"} : PartOf(s) = s
  BY DEF PartOf

LEMMA RestTypes == AtRest \in Asked /\ AtRest.candidate.url = "none" /\ NoCandidate \in Candidates
<1>1. NoCandidate \in Candidates /\ NoCandidate.url = "none"
  BY InstallationAssumption DEF NoCandidate, Candidates
<1> QED
  BY <1>1, EmptySeq DEF AtRest, Asked, OperationModes

(* Nothing is left of a command.                                            *)
LEMMA AtRestCarried ==
  ASSUME command' = AtRest
  PROVE  /\ Carried' /\ command'.todo = <<>> /\ ~command'.launch /\ command'.ok
         /\ ToSet(command'.todo) = {} /\ ChangeAllowed' /\ SavesTold' /\ PauseDone'
<1>1. /\ command'.todo = <<>> /\ ~command'.launch /\ command'.ok /\ command'.candidate.url = "none"
      /\ command' \in Asked
  BY RestTypes DEF AtRest
<1>2. ToSet(command'.todo) = {}
  BY <1>1, NothingLeft
<1>3. Carried'
  BY <1>1, <1>2 DEF Carried, Goes, Comes
<1> QED
  BY <1>1, <1>2, <1>3 DEF ChangeAllowed, SavesTold, PauseDone, Comes

(* The command c goes on with the list t.                                   *)
GoesOnWith(t, launch) ==
  /\ command' \in Asked /\ command'.todo = t /\ command'.launch = launch
  /\ command'.runtime = command.runtime /\ command'.candidate = command.candidate
  /\ command'.skip = command.skip /\ command'.ok = command.ok /\ command'.mode = command.mode
  /\ command'.login = command.login

LEMMA CommandFinished ==
  ASSUME Carried, Finish
  PROVE  \/ command.launch /\ GoesOnWith(StartSteps, FALSE)
         \/ ~command.launch /\ command' = AtRest
<1>1. CASE command.launch
  <2>1. command' = [command EXCEPT !.todo = StartSteps, !.launch = FALSE]
    BY <1>1 DEF Finish
  <2>2. command \in Asked /\ StartSteps \in Seq(Steps)
    BY StartIsFive DEF Carried
  <2>3. GoesOnWith(StartSteps, FALSE)
    BY <2>1, <2>2 DEF GoesOnWith, Asked
  <2> QED
    BY <1>1, <2>3
<1>2. CASE ~command.launch
  BY <1>2 DEF Finish, Quit
<1> QED
  BY <1>1, <1>2

LEMMA Proceeded ==
  ASSUME Carried, command.todo # <<>>, Proceed
  PROVE  \/ Tail(command.todo) # <<>> /\ GoesOnWith(Tail(command.todo), command.launch)
         \/ Tail(command.todo) = <<>> /\ command.launch /\ GoesOnWith(StartSteps, FALSE)
         \/ Tail(command.todo) = <<>> /\ ~command.launch /\ command' = AtRest
<1>1. command \in Asked /\ command.todo \in Seq(Steps)
  BY DEF Carried, Asked
<1>2. Tail(command.todo) \in Seq(Steps) /\ (Len(command.todo) = 1 <=> Tail(command.todo) = <<>>)
  BY <1>1, Ahead
<1>3. CASE Tail(command.todo) = <<>>
  <2>1. Finish
    BY <1>2, <1>3 DEF Proceed
  <2> QED
    BY <1>3, <2>1, CommandFinished
<1>4. CASE Tail(command.todo) # <<>>
  <2>1. command' = [command EXCEPT !.todo = Tail(command.todo)]
    BY <1>2, <1>4 DEF Proceed
  <2>2. GoesOnWith(Tail(command.todo), command.launch)
    BY <1>1, <1>2, <2>1 DEF GoesOnWith, Asked
  <2> QED
    BY <1>4, <2>2
<1> QED
  BY <1>3, <1>4

LEMMA StartsCarried ==
  ASSUME Carried, command.ok, GoesOnWith(StartSteps, FALSE)
  PROVE  /\ Carried' /\ command'.ok /\ ~command'.launch
         /\ ChangeAllowed' /\ SavesTold' /\ PauseDone'
<1>1. ToSet(command'.todo) = {"stopNginx", "stopDisabled", "up", "llm", "plan"}
  BY StartIsFive DEF GoesOnWith
<1>2. Carried'
  BY <1>1, StartIsFive DEF GoesOnWith, Carried, Comes
<1> QED
  BY <1>1, <1>2 DEF GoesOnWith, ChangeAllowed, SavesTold, PauseDone, Comes, ChangeParts

(* Steps after which the services can still be started by this command.     *)
LEMMA BeforeStartGoes ==
  ASSUME NEW t \in Seq(Steps), t # <<>>, Goes(t), Head(t) \in BeforeStart, Tail(t) # <<>>
  PROVE  Head(Tail(t)) \in BeforeStart
<1>1. CASE Head(t) \in FixedHeads
  <2>1. Head(Tail(t)) = After(Head(t)) /\ Head(t) \in {"url", "compare", "ask", "halt", "change", "pause"}
    BY <1>1, GoesAhead DEF FixedHeads, BeforeStart, ChangeParts
  <2> QED
    BY <2>1 DEF After, BeforeStart, ChangeParts
<1>2. CASE Head(t) \in Free
  BY <1>2, FreeHolds DEF Free, BeforeStart, ChangeParts
<1> QED
  BY <1>1, <1>2, GoesAhead, Heads DEF Free

LEMMA NextCarried ==
  ASSUME Carried, command.todo # <<>>, command.ok, Tail(command.todo) # <<>>,
         GoesOnWith(Tail(command.todo), command.launch)
  PROVE  /\ Carried' /\ command'.ok /\ ToSet(command.todo) = {Head(command.todo)} \cup ToSet(command'.todo)
<1>1. command.todo \in Seq(Steps) /\ Goes(command.todo)
  BY DEF Carried, Asked
<1>2. /\ ToSet(command.todo) = {Head(command.todo)} \cup ToSet(command'.todo)
      /\ Goes(command'.todo)
  BY <1>1, GoesAhead DEF GoesOnWith
<1>3. command'.launch => command'.todo # <<>> /\ Head(command'.todo) \in BeforeStart
  BY <1>1, BeforeStartGoes DEF GoesOnWith, Carried
<1>4. Carried'
  BY <1>2, <1>3 DEF GoesOnWith, Carried, Comes
<1> QED
  BY <1>2, <1>4 DEF GoesOnWith


LEMMA Working ==
  ASSUME Carried, NEW s, OneStep(s)
  PROVE  /\ command.todo \in Seq(Steps) /\ command.todo # <<>> /\ Goes(command.todo)
         /\ Head(command.todo) = s /\ s \in Steps /\ s \in ToSet(command.todo)
         /\ Must(s) \subseteq ToSet(command.todo) /\ ToSet(command.todo) \subseteq May(s)
         /\ s # "pauseLlm" => command.ok
         /\ command.launch => s \in BeforeStart
<1>1. /\ command.todo \in Seq(Steps) /\ command.todo # <<>> /\ Goes(command.todo)
      /\ Head(command.todo) = s
  BY DEF Carried, Asked, OneStep
<1>2. s \in Steps /\ s \in ToSet(command.todo)
  BY <1>1, GoesAhead
<1>3. s # "pauseLlm" => command.ok
  <2>1. Head(<<"pauseLlm">>) = "pauseLlm"
    OBVIOUS
  <2> QED
    BY <1>1, <2>1 DEF Carried, Asked
<1> QED
  BY <1>1, <1>2, <1>3, Holds DEF Carried

LEMMA Onward ==
  ASSUME Carried, Done, command.todo # <<>>, command.ok, Proceed \/ Finish, Head(command.todo) # "saveMode",
         env'.mode = env.mode, env.file # "none" => env'.file # "none",
         missed \cap {"start", "login"} \subseteq missed' \/ Tail(command.todo) = <<>>
  PROVE  Carried' /\ ChangeAllowed' /\ SavesTold' /\ PauseDone' /\ command'.ok
<1>1. CASE command' = AtRest
  BY <1>1, AtRestCarried
<1>2. CASE GoesOnWith(StartSteps, FALSE)
  BY <1>2, StartsCarried
<1>3. CASE Tail(command.todo) # <<>> /\ GoesOnWith(Tail(command.todo), command.launch)
  <2>1. /\ Carried' /\ command'.ok /\ ToSet(command.todo) = {Head(command.todo)} \cup ToSet(command'.todo)
        /\ command'.launch = command.launch
    BY <1>3, NextCarried DEF GoesOnWith
  <2>2. ChangeAllowed'
    BY <2>1 DEF Done, ChangeAllowed, Comes
  <2>3. SavesTold'
    BY <1>3, <2>1 DEF Done, SavesTold, Comes
  <2> QED
    BY <2>1, <2>2, <2>3 DEF PauseDone
<1> QED
  BY <1>1, <1>2, <1>3, Proceeded, CommandFinished

(* A command without .env that goes on.                                     *)
LEMMA WithoutEnvGoes ==
  ASSUME NEW t \in Seq(Steps), t # <<>>, Goes(t), Head(t) \in WithoutEnv \ {"copy"}, Tail(t) # <<>>,
         "plan" \notin ToSet(t)
  PROVE  Head(Tail(t)) \in WithoutEnv
<1>1. CASE Head(t) \in FixedHeads
  <2>1. Head(Tail(t)) = After(Head(t)) /\ Head(t) \in {"pause", "stopWorkers", "removeLlm", "stopExternal"}
    BY <1>1, GoesAhead DEF FixedHeads, WithoutEnv
  <2> QED
    BY <2>1 DEF After, WithoutEnv
<1>2. CASE Head(t) = "detect"
  BY <1>2, FreeHolds DEF Free, WithoutEnv
<1>3. CASE Head(t) = "apply"
  <2>1. Head(Tail(t)) = "plan" /\ Tail(t) \in Seq(Steps) /\ ToSet(t) = {Head(t)} \cup ToSet(Tail(t))
    BY <1>3, FreeHolds, GoesAhead DEF Free
  <2>2. ToSet(Tail(t)) = {Head(Tail(t))} \cup ToSet(Tail(Tail(t)))
    <3> DEFINE r == Tail(t)
    <3>1. r \in Seq(Steps) /\ r # <<>>
      BY <2>1
    <3> HIDE DEF r
    <3>2. ToSet(r) = {Head(r)} \cup ToSet(Tail(r))
      BY <3>1, Ahead
    <3> QED
      BY <3>2 DEF r
  <2> QED
    BY <2>1, <2>2
<1> QED
  BY <1>1, <1>2, <1>3, GoesAhead, Heads DEF WithoutEnv

LEMMA StillWithoutEnv ==
  ASSUME Carried, NothingWithoutEnv, command.todo # <<>>, Head(command.todo) # "copy",
         Proceed \/ Finish \/ Quit, env'.file = env.file,
         env.file = "none" => up' = {} /\ saved'.plan = saved.plan
  PROVE  NothingWithoutEnv'
<1> SUFFICES ASSUME env.file = "none"
             PROVE  NothingWithoutEnv'
  BY DEF NothingWithoutEnv
<1>1. ~command.launch /\ Head(command.todo) \in WithoutEnv \ {"copy"} /\ "plan" \notin ToSet(command.todo)
  BY DEF NothingWithoutEnv, OneStep, Comes
<1>2. CASE command' = AtRest
  BY <1>2, AtRestCarried DEF NothingWithoutEnv, Comes
<1>3. CASE Tail(command.todo) # <<>> /\ GoesOnWith(Tail(command.todo), command.launch)
  <2>1. command.todo \in Seq(Steps) /\ Goes(command.todo)
    BY DEF Carried, Asked
  <2>2. Head(command'.todo) \in WithoutEnv /\ ~command'.launch
    BY <1>1, <1>3, <2>1, WithoutEnvGoes DEF GoesOnWith
  <2>3. "plan" \notin ToSet(command'.todo)
    BY <1>1, <1>3, <2>1, GoesAhead DEF GoesOnWith
  <2> QED
    BY <2>2, <2>3 DEF NothingWithoutEnv, Comes
<1> QED
  BY <1>1, <1>2, <1>3, Proceeded, CommandFinished DEF Quit

(* What is undone stays so while the command goes on, up to its next step.  *)
LEMMA LaunchPending ==
  ASSUME GoesOnWith(StartSteps, FALSE)
  PROVE  Undone("nginx")' /\ Undone("start")'
<1>1. {"stopNginx", "up"} \subseteq ToSet(command'.todo)
  BY StartIsFive DEF GoesOnWith
<1> QED
  BY <1>1, PartsOf DEF Undone, Pending

LEMMA StillUndone ==
  ASSUME Carried, command.todo # <<>>, Proceed,
         missed \ {PartOf(Head(command.todo))} \subseteq missed'
  PROVE  /\ \A part \in {"nginx", "start", "secrets", "endpoint"} :
              Undone(part) /\ part # PartOf(Head(command.todo)) => Undone(part)'
         /\ PartOf(Head(command.todo)) \notin {"login", "start"} /\ (Undone("login") \/ Undone("start"))
              => Undone("login")' \/ Undone("start")'
<1> DEFINE h == Head(command.todo)
<1>1. command.todo \in Seq(Steps) /\ Goes(command.todo)
  BY DEF Carried, Asked
<1>2. ToSet(command.todo) = {h} \cup ToSet(Tail(command.todo))
  BY <1>1, GoesAhead
<1>3. CASE Tail(command.todo) # <<>> /\ GoesOnWith(Tail(command.todo), command.launch)
  <2>1. \A part : part \in Pending => part = PartOf(h) \/ part \in Pending'
    BY <1>2, <1>3 DEF Pending, Unlaunched, GoesOnWith
  <2>2. \A part : Undone(part) /\ part # PartOf(h) => Undone(part)'
    BY <2>1 DEF Undone
  <2> QED
    BY <2>2
<1>4. ASSUME Tail(command.todo) = <<>>
      PROVE  \A part : part \in Pending => part = PartOf(h) \/ part \in Unlaunched
  BY <1>2, <1>4, NothingLeft DEF Pending
<1>5. CASE Tail(command.todo) = <<>> /\ command.launch /\ GoesOnWith(StartSteps, FALSE)
  <2>1. Undone("nginx")' /\ Undone("start")'
    BY <1>5, LaunchPending
  <2>2. \A part \in {"secrets", "endpoint"} : Undone(part) /\ part # PartOf(h) => part \in missed
    BY <1>4, <1>5 DEF Undone, Unlaunched
  <2> QED
    BY <2>1, <2>2 DEF Undone
<1>6. CASE Tail(command.todo) = <<>> /\ ~command.launch /\ command' = AtRest
  <2>1. \A part : Undone(part) /\ part # PartOf(h) => part \in missed
    BY <1>4, <1>6 DEF Undone, Unlaunched
  <2> QED
    BY <2>1 DEF Undone
<1> QED
  BY <1>3, <1>5, <1>6, Proceeded

(* The command's next step, after one that went on.                         *)
LEMMA NextStep ==
  ASSUME Carried, command.ok, command.todo # <<>>, Proceed
  PROVE  /\ command'.todo # <<>> => Tail(command.todo) # <<>> \/ Head(command'.todo) = "stopNginx"
         /\ Tail(command.todo) # <<>> => /\ command'.todo = Tail(command.todo)
                                         /\ command'.candidate = command.candidate
                                         /\ command'.launch = command.launch
  BY Proceeded, StartIsFive, AtRestCarried DEF GoesOnWith

(* The steps at whose heads nothing was achieved yet.                       *)
Begun ==
  {"stopDisabled", "up", "upLocal", "llm", "plan", "detect", "apply", "compare", "ask", "halt",
   "change", "recreate"}

LEMMA NotBegun ==
  ASSUME Carried', command'.todo = <<>> \/ Head(command'.todo) \notin Begun
  PROVE  StartDone' /\ ChangeDone'
<1>1. command'.todo \in Seq(Steps) /\ Goes(command'.todo)
  BY DEF Carried, Asked
<1>2. CASE command'.todo = <<>>
  BY <1>2, NothingLeft DEF StartDone, ChangeDone, OneStep, Comes
<1>3. CASE command'.todo # <<>>
  <2> DEFINE h == Head(command'.todo)
  <2>1. h \notin Begun /\ h \in Steps
    BY <1>1, <1>3, GoesAhead
  <2>2. CASE h = "stopNginx"
    <3>1. "up" \in ToSet(command'.todo)
      <4>1. "up" \in May("stopNginx") /\ "stopNginx" \in FixedHeads
        BY DEF May, FixedHeads
      <4> QED
        BY <1>1, <1>3, <2>2, <4>1, FixedHolds
    <3> QED
      BY <1>3, <2>2, <3>1 DEF StartDone, ChangeDone, OneStep, Comes
  <2>3. CASE h # "stopNginx"
    <3>1. "plan" \notin May(h)
      BY <2>1, <2>3 DEF May, Begun, Steps
    <3>2. "plan" \notin ToSet(command'.todo)
      BY <1>1, <1>3, <3>1, Holds
    <3>3. \A s \in Begun : ~OneStep(s)'
      BY <2>1 DEF OneStep
    <3> QED
      BY <3>2, <3>3 DEF StartDone, ChangeDone, Comes, Begun
  <2> QED
    BY <2>2, <2>3
<1> QED
  BY <1>2, <1>3

-----------------------------------------------------------------------------
(* The conjuncts that most steps leave alone.                               *)

Lasting ==
  {"copy", "secrets", "backfill", "login", "saveMode", "default", "pause", "pauseLlm", "stopWorkers", "removeLlm",
   "down", "wipe", "connect", "plan", "upLocal", "recreate"}

LEMMA LastingNext ==
  ASSUME Carried, NEW s \in Lasting, OneStep(s), command.ok, Proceed, Carried'
  PROVE  StartDone' /\ ChangeDone'
<1>1. /\ command.todo \in Seq(Steps) /\ command.todo # <<>> /\ Goes(command.todo) /\ Head(command.todo) = s
  BY Working
<1>2. Tail(command.todo) # <<>> => Head(Tail(command.todo)) \notin Begun
  <2>1. CASE s \in FixedHeads
    <3>1. Head(Tail(command.todo)) = After(s) /\ s \in {"pause", "stopWorkers", "removeLlm"}
      BY <1>1, <2>1, GoesAhead DEF Lasting, FixedHeads
    <3> QED
      BY <3>1 DEF After, Begun
  <2>2. CASE s \in Free
    BY <1>1, <2>2, FreeHolds DEF Lasting, Free, Begun
  <2> QED
    BY <1>1, <2>1, <2>2, GoesAhead, Heads DEF Free
<1>3. command'.todo = <<>> \/ Head(command'.todo) \notin Begun
  BY <1>1, <1>2, NextStep DEF Begun
<1> QED
  BY <1>3, NotBegun

LEMMA CommandTypes ==
  ASSUME Carried'
  PROVE  command'.todo \in Seq(Steps) /\ command'.candidate \in Candidates
  BY DEF Carried, Asked

LEMMA StartKept ==
  ASSUME HostInv, command.todo # <<>>, Proceed, missed \ {PartOf(Head(command.todo))} \subseteq missed',
         PartOf(Head(command.todo)) \notin {"nginx", "start", "login"},
         missed \cap {"llm", "workers"} \subseteq missed',
         env'.mode = env.mode, env'.login = env.login, up' \subseteq up, with' = with,
         llm'.state = "running" => llm.state = "running", saved'.plan = saved.plan
  PROVE  NginxKept' /\ ModeKept' /\ LoginKept'
<1>1. /\ Undone("nginx") => Undone("nginx")'
      /\ Undone("start") => Undone("start")'
      /\ Undone("login") \/ Undone("start") => Undone("login")' \/ Undone("start")'
  BY StillUndone DEF HostInv
<1>2. NginxKept'
  BY <1>1 DEF NginxKept, HostInv, Kept
<1>3. ModeKept'
  BY <1>1 DEF ModeKept, HostInv, Kept
<1>4. LoginKept'
  BY <1>1 DEF LoginKept, HostInv, Kept
<1> QED
  BY <1>2, <1>3, <1>4

LEMMA RestKept ==
  ASSUME HostInv, command.todo # <<>>, Proceed, missed \ {PartOf(Head(command.todo))} \subseteq missed',
         PartOf(Head(command.todo)) \notin {"secrets", "endpoint", "vectors"},
         env'.file = env.file, env'.token = env.token, env'.url = env.url,
         saved'.emb = saved.emb, docs' = docs, probed' = probed
  PROVE  SecretsKept' /\ EndpointKept' /\ VectorsOfActive'
<1>1. /\ Undone("secrets") => Undone("secrets")'
      /\ Undone("endpoint") => Undone("endpoint")'
      /\ "vectors" \in missed => "vectors" \in missed'
  BY StillUndone DEF HostInv
<1>2. SecretsKept'
  BY <1>1 DEF SecretsKept, HostInv, Kept
<1>3. EndpointKept'
  BY <1>1 DEF EndpointKept, HostInv, Kept
<1>4. VectorsOfActive'
  BY <1>1 DEF VectorsOfActive, HostInv, Kept
<1> QED
  BY <1>2, <1>3, <1>4

-----------------------------------------------------------------------------
(* The files of the host.                                                   *)

LEMMA CopyKeeps ==
  ASSUME HostInv, CopyTemplate
  PROVE  HostInv'
<1>1. /\ OneStep("copy") /\ Proceed /\ env' = [env EXCEPT !.file = "example"]
      /\ UNCHANGED <<provider, up, with, llm, saved, docs, counts, probed, missed>>
  BY DEF CopyTemplate, WriteEnv
<1>2. /\ command.todo \in Seq(Steps) /\ command.todo # <<>> /\ Goes(command.todo)
      /\ Head(command.todo) = "copy" /\ command.ok /\ Carried /\ PartOf("copy") = "copy"
  BY <1>1, Working, PartsOf DEF HostInv
<1>3. /\ env' \in [file : {"none", "example", "random"}, token : {"example", "random"},
                   mode : OperationModes, login : BOOLEAN, url : EndpointUrls]
      /\ env'.file = "example" /\ env'.mode = env.mode /\ env'.login = env.login /\ env'.url = env.url
  BY <1>1 DEF HostInv, InstallationTypeOK
<1>4. Carried' /\ ChangeAllowed' /\ SavesTold' /\ PauseDone'
  BY <1>1, <1>2, <1>3, Onward DEF HostInv
<1>5. StartDone' /\ ChangeDone'
  BY <1>1, <1>2, <1>4, LastingNext DEF Lasting
<1>6. NginxKept' /\ ModeKept' /\ LoginKept'
  BY <1>1, <1>2, <1>3, StartKept
<1>7. Undone("secrets")'
  <2>1. Tail(command.todo) # <<>> /\ Head(Tail(command.todo)) = "secrets"
    BY <1>2, FreeHolds DEF Free
  <2>2. "secrets" \in ToSet(command'.todo)
    BY <1>1, <1>2, <1>4, <2>1, NextStep, GoesAhead DEF Carried, Asked
  <2> QED
    BY <2>2, PartsOf DEF Undone, Pending
<1>8. EndpointKept' /\ VectorsOfActive'
  <2>1. Undone("endpoint") => Undone("endpoint")'
    BY <1>1, <1>2, StillUndone
  <2> QED
    BY <1>1, <1>3, <2>1 DEF EndpointKept, VectorsOfActive, HostInv, Kept
<1>9. InstallationTypeOK'
  BY <1>1, <1>3, <1>4, CommandTypes DEF HostInv, InstallationTypeOK
<1> QED
  BY <1>3, <1>4, <1>5, <1>6, <1>7, <1>8, <1>9 DEF HostInv, Kept, Done, NothingWithoutEnv, SecretsKept

LEMMA SecretsKeeps ==
  ASSUME HostInv, FillSecrets \/ Backfill
  PROVE  HostInv'
<1>1. /\ Proceed /\ UNCHANGED <<provider, up, with, llm, saved, docs, counts, probed, missed>>
      /\ \/ OneStep("secrets") /\ env' = [env EXCEPT !.file = "random", !.token = "random"]
         \/ OneStep("backfill") /\ env' = [env EXCEPT !.token = "random"]
  BY DEF FillSecrets, Backfill, WriteEnv
<1> DEFINE s == Head(command.todo)
<1>2. /\ command.todo \in Seq(Steps) /\ command.todo # <<>> /\ Goes(command.todo) /\ OneStep(s)
      /\ s \in {"secrets", "backfill"} /\ command.ok /\ Carried /\ PartOf(s) = s
  BY <1>1, Working, PartsOf DEF HostInv, OneStep
<1>3. /\ env' \in [file : {"none", "example", "random"}, token : {"example", "random"},
                   mode : OperationModes, login : BOOLEAN, url : EndpointUrls]
      /\ env'.mode = env.mode /\ env'.login = env.login /\ env'.url = env.url /\ env'.token = "random"
      /\ s = "secrets" => env'.file = "random"
      /\ s = "backfill" => env'.file = env.file
  BY <1>1 DEF HostInv, InstallationTypeOK, OneStep
<1>0. env.file # "none" /\ env'.file # "none"
  BY <1>2, <1>3 DEF HostInv, Kept, NothingWithoutEnv, WithoutEnv
<1> HIDE DEF s
<1>4. Carried' /\ ChangeAllowed' /\ SavesTold' /\ PauseDone'
  <2>1. Head(command.todo) = s
    BY DEF s
  <2> QED
    BY <1>0, <1>1, <1>2, <1>3, <2>1, Onward DEF HostInv
<1>5. StartDone' /\ ChangeDone'
  BY <1>1, <1>2, <1>4, LastingNext DEF Lasting
<1>6. NginxKept' /\ ModeKept' /\ LoginKept'
  BY <1>1, <1>2, <1>3, StartKept DEF s
<1>7. EndpointKept' /\ VectorsOfActive'
  <2>1. Undone("endpoint") => Undone("endpoint")'
    BY <1>1, <1>2, StillUndone DEF s
  <2> QED
    BY <1>1, <1>3, <2>1 DEF EndpointKept, VectorsOfActive, HostInv, Kept
<1>8. SecretsKept'
  <2>1. CASE s = "secrets"
    BY <1>3, <2>1 DEF SecretsKept
  <2>2. CASE s = "backfill"
    <3>1. Undone("secrets") => Undone("secrets")'
      BY <1>1, <1>2, <2>2, StillUndone DEF s
    <3> QED
      BY <1>0, <1>3, <2>2, <3>1 DEF SecretsKept, HostInv, Kept
  <2> QED
    BY <1>2, <2>1, <2>2
<1>9. InstallationTypeOK'
  BY <1>1, <1>3, <1>4, CommandTypes DEF HostInv, InstallationTypeOK
<1> QED
  BY <1>0, <1>4, <1>5, <1>6, <1>7, <1>8, <1>9 DEF HostInv, Kept, Done, NothingWithoutEnv

LEMMA ModeKeeps ==
  ASSUME HostInv, SaveMode
  PROVE  HostInv'
<1>1. /\ OneStep("saveMode") /\ Proceed /\ env' = [env EXCEPT !.mode = command.mode]
      /\ UNCHANGED <<provider, up, with, llm, saved, docs, counts, probed, missed>>
  BY DEF SaveMode, WriteEnv
<1>2. /\ command.todo \in Seq(Steps) /\ command.todo # <<>> /\ Goes(command.todo)
      /\ Head(command.todo) = "saveMode" /\ command.ok /\ Carried /\ PartOf("saveMode") = "saveMode"
      /\ "saveMode" \in ToSet(command.todo) /\ ToSet(command.todo) \subseteq {"saveMode", "default", "offer"}
  BY <1>1, Working, PartsOf DEF HostInv, May
<1>3. /\ env' \in [file : {"none", "example", "random"}, token : {"example", "random"},
                   mode : OperationModes, login : BOOLEAN, url : EndpointUrls]
      /\ env'.mode = command.mode /\ env'.login = env.login /\ env'.url = env.url
      /\ env'.token = env.token /\ env'.file = env.file
  <2>1. command.mode \in OperationModes
    BY <1>2 DEF Carried, Asked
  <2> QED
    BY <1>1, <2>1 DEF HostInv, InstallationTypeOK
<1>0. env.file # "none" /\ env'.file # "none"
  BY <1>2, <1>3 DEF HostInv, Kept, NothingWithoutEnv, WithoutEnv
<1>4. Carried' /\ ChangeAllowed' /\ SavesTold' /\ PauseDone'
  <2>1. CASE command' = AtRest
    BY <2>1, AtRestCarried
  <2>2. CASE GoesOnWith(StartSteps, FALSE)
    BY <1>2, <2>2, StartsCarried
  <2>3. CASE Tail(command.todo) # <<>> /\ GoesOnWith(Tail(command.todo), command.launch)
    <3>1. /\ Carried' /\ command'.ok /\ ToSet(command.todo) = {"saveMode"} \cup ToSet(command'.todo)
      BY <1>2, <2>3, NextCarried
    <3>2. Head(command'.todo) \in {"default", "offer"} /\ command'.todo # <<>>
      BY <1>2, <2>3, FreeHolds DEF Free, GoesOnWith
    <3>3. ToSet(command'.todo) = {Head(command'.todo)}
      BY <3>1, <3>2, LastHolds DEF LastHeads, Carried, Asked
    <3>4. ChangeAllowed'
      BY <1>0, <1>2, <1>3, <3>1, <3>2, <3>3 DEF ChangeAllowed, Carried, Comes, ChangeParts
    <3> QED
      BY <3>1, <3>2, <3>3, <3>4 DEF SavesTold, PauseDone, Comes
  <2> QED
    BY <1>1, <1>2, <2>1, <2>2, <2>3, Proceeded
<1>5. StartDone' /\ ChangeDone'
  BY <1>1, <1>2, <1>4, LastingNext DEF Lasting
<1>6. Undone("start")'
  <2>1. command.launch \/ "start" \in missed
    BY <1>2 DEF HostInv, Done, SavesTold, Comes
  <2>2. Undone("start")
    BY <2>1 DEF Undone, Pending, Unlaunched
  <2> QED
    BY <1>1, <1>2, <2>2, StillUndone
<1>7. NginxKept' /\ ModeKept' /\ LoginKept'
  <2>1. Undone("nginx") => Undone("nginx")'
    BY <1>1, <1>2, StillUndone
  <2> QED
    BY <1>1, <1>3, <1>6, <2>1 DEF NginxKept, ModeKept, LoginKept, HostInv, Kept
<1>8. SecretsKept' /\ EndpointKept' /\ VectorsOfActive'
  BY <1>1, <1>2, <1>3, RestKept
<1>9. InstallationTypeOK'
  BY <1>1, <1>3, <1>4, CommandTypes DEF HostInv, InstallationTypeOK
<1> QED
  BY <1>0, <1>4, <1>5, <1>7, <1>8, <1>9 DEF HostInv, Kept, Done, NothingWithoutEnv


(* The step after one with a fixed course.                                  *)
LEMMA FixedNext ==
  ASSUME Carried, NEW s \in FixedHeads, OneStep(s), command.ok, Proceed
  PROVE  /\ command'.todo # <<>> /\ Head(command'.todo) = After(s) /\ command'.todo = Tail(command.todo)
         /\ ToSet(command'.todo) = May(After(s))
         /\ GoesOnWith(Tail(command.todo), command.launch)
<1>1. /\ command.todo \in Seq(Steps) /\ command.todo # <<>> /\ Goes(command.todo) /\ Head(command.todo) = s
  BY Working
<1>2. /\ Tail(command.todo) # <<>> /\ Head(Tail(command.todo)) = After(s) /\ After(s) \in Steps
      /\ Tail(command.todo) \in Seq(Steps) /\ Goes(Tail(command.todo))
  <2>1. /\ Tail(command.todo) # <<>> /\ Head(Tail(command.todo)) = After(s)
        /\ Tail(command.todo) \in Seq(Steps) /\ Goes(Tail(command.todo))
    BY <1>1, GoesAhead
  <2> QED
    BY <2>1, GoesAhead
<1>3. After(s) \in FixedHeads \cup LastHeads
  BY DEF After, FixedHeads, LastHeads
<1>4. ToSet(Tail(command.todo)) = May(After(s))
  BY <1>2, <1>3, FixedHolds, LastHolds
<1>5. GoesOnWith(Tail(command.todo), command.launch)
  BY <1>1, <1>2, Proceeded
<1> QED
  BY <1>2, <1>4, <1>5 DEF GoesOnWith

LEMMA NotStarting ==
  ASSUME Carried', command'.todo # <<>>,
         Head(command'.todo) \in {"url", "compare", "ask", "halt", "change", "recreate"}
  PROVE  StartDone'
<1>1. command'.todo \in Seq(Steps) /\ Goes(command'.todo)
  BY DEF Carried, Asked
<1>2. "plan" \notin ToSet(command'.todo)
  BY <1>1, Holds DEF May
<1> QED
  BY <1>2 DEF StartDone, OneStep, Comes

LEMMA NotChanging ==
  ASSUME command'.todo = <<>> \/ Head(command'.todo) \notin {"compare", "ask", "halt", "change", "recreate"}
  PROVE  ChangeDone'
  BY DEF ChangeDone, OneStep

LEMMA LoginKeeps ==
  ASSUME HostInv, SaveLogin
  PROVE  HostInv'
<1>1. /\ OneStep("login") /\ Proceed /\ env' = [env EXCEPT !.login = command.login]
      /\ UNCHANGED <<provider, up, with, llm, saved, docs, counts, probed, missed>>
  BY DEF SaveLogin, WriteEnv
<1>2. /\ command.todo \in Seq(Steps) /\ command.todo # <<>> /\ Goes(command.todo)
      /\ Head(command.todo) = "login" /\ command.ok /\ Carried /\ PartOf("login") = "login"
      /\ "login" \in ToSet(command.todo)
  BY <1>1, Working, PartsOf DEF HostInv
<1>3. /\ env' \in [file : {"none", "example", "random"}, token : {"example", "random"},
                   mode : OperationModes, login : BOOLEAN, url : EndpointUrls]
      /\ env'.mode = env.mode /\ env'.url = env.url
      /\ env'.token = env.token /\ env'.file = env.file
  <2>1. command.login \in BOOLEAN
    BY <1>2 DEF Carried, Asked
  <2> QED
    BY <1>1, <2>1 DEF HostInv, InstallationTypeOK
<1>4. Carried' /\ ChangeAllowed' /\ SavesTold' /\ PauseDone'
  BY <1>1, <1>2, <1>3, Onward DEF HostInv
<1>5. StartDone' /\ ChangeDone'
  BY <1>1, <1>2, <1>4, LastingNext DEF Lasting
<1>6. Undone("login")' \/ Undone("start")'
  <2>1. CASE "login" \in missed
    BY <1>1, <2>1 DEF Undone
  <2>2. CASE command.launch
    <3>1. CASE Tail(command.todo) # <<>>
      <4>1. command'.launch
        BY <1>1, <1>2, <2>2, <3>1, NextStep
      <4> QED
        BY <4>1 DEF Undone, Pending, Unlaunched
    <3>2. CASE Tail(command.todo) = <<>>
      BY <1>1, <1>2, <2>2, <3>2, Proceeded, LaunchPending
    <3> QED
      BY <3>1, <3>2
  <2> QED
    BY <1>2, <2>1, <2>2 DEF HostInv, Done, SavesTold, Comes
<1>7. NginxKept' /\ ModeKept' /\ LoginKept'
  <2>1. (Undone("nginx") => Undone("nginx")') /\ (Undone("start") => Undone("start")')
    BY <1>1, <1>2, StillUndone
  <2> QED
    BY <1>1, <1>3, <1>6, <2>1 DEF NginxKept, ModeKept, LoginKept, HostInv, Kept
<1>8. SecretsKept' /\ EndpointKept' /\ VectorsOfActive'
  BY <1>1, <1>2, <1>3, RestKept
<1>9. InstallationTypeOK'
  BY <1>1, <1>3, <1>4, CommandTypes DEF HostInv, InstallationTypeOK
<1>10. NothingWithoutEnv'
  BY <1>1, <1>2, <1>3, StillWithoutEnv DEF HostInv, Kept, NothingWithoutEnv
<1> QED
  BY <1>4, <1>5, <1>7, <1>8, <1>9, <1>10 DEF HostInv, Kept, Done

LEMMA UrlKeeps ==
  ASSUME HostInv, SaveUrl
  PROVE  HostInv'
<1>1. /\ OneStep("url") /\ Proceed /\ env' = [env EXCEPT !.url = command.candidate.url]
      /\ UNCHANGED <<provider, up, with, llm, saved, docs, counts, probed, missed>>
  BY DEF SaveUrl, WriteEnv
<1>2. /\ command.todo \in Seq(Steps) /\ command.todo # <<>> /\ Goes(command.todo)
      /\ Head(command.todo) = "url" /\ command.ok /\ Carried /\ PartOf("url") = "url"
      /\ "url" \in ToSet(command.todo)
  BY <1>1, Working, PartsOf DEF HostInv
<1>3. /\ env' \in [file : {"none", "example", "random"}, token : {"example", "random"},
                   mode : OperationModes, login : BOOLEAN, url : EndpointUrls]
      /\ env'.mode = env.mode /\ env'.login = env.login /\ env'.url = command.candidate.url
      /\ env'.token = env.token /\ env'.file = env.file
  <2>1. command.candidate.url \in EndpointUrls
    BY <1>2 DEF Carried, Asked, Comes, Candidates
  <2> QED
    BY <1>1, <2>1 DEF HostInv, InstallationTypeOK
<1>4. Carried' /\ ChangeAllowed' /\ SavesTold' /\ PauseDone'
  BY <1>1, <1>2, <1>3, Onward DEF HostInv
<1>5. /\ command'.todo # <<>> /\ Head(command'.todo) = "compare" /\ "recreate" \in ToSet(command'.todo)
      /\ command'.candidate = command.candidate
  BY <1>1, <1>2, FixedNext DEF FixedHeads, After, May, GoesOnWith
<1>6. StartDone'
  BY <1>4, <1>5, NotStarting
<1>7. ChangeDone'
  BY <1>3, <1>5 DEF ChangeDone, OneStep
<1>8. NginxKept' /\ ModeKept' /\ LoginKept'
  BY <1>1, <1>2, <1>3, StartKept
<1>9. SecretsKept' /\ EndpointKept' /\ VectorsOfActive'
  <2>1. Undone("secrets") => Undone("secrets")'
    BY <1>1, <1>2, StillUndone
  <2>2. Undone("endpoint")'
    BY <1>5, PartsOf DEF Undone, Pending
  <2> QED
    BY <1>1, <1>3, <2>1, <2>2 DEF SecretsKept, EndpointKept, VectorsOfActive, HostInv, Kept
<1>10. InstallationTypeOK'
  BY <1>1, <1>3, <1>4, CommandTypes DEF HostInv, InstallationTypeOK
<1>11. NothingWithoutEnv'
  BY <1>1, <1>2, <1>3, StillWithoutEnv DEF HostInv, Kept, NothingWithoutEnv
<1> QED
  BY <1>4, <1>6, <1>7, <1>8, <1>9, <1>10, <1>11 DEF HostInv, Kept, Done

LEMMA DefaultKeeps ==
  ASSUME HostInv, CommitDefault
  PROVE  HostInv'
<1>1. /\ OneStep("default") /\ Proceed /\ saved' = [saved EXCEPT !.emb = DefaultModel]
      /\ missed' = IF docs \in {"none", DefaultModel} THEN missed ELSE missed \cup {"vectors"}
      /\ UNCHANGED <<env, provider, up, with, llm, docs, counts, probed>>
  BY DEF CommitDefault
<1>2. /\ command.todo # <<>> /\ Head(command.todo) = "default" /\ command.ok /\ Carried
      /\ PartOf("default") = "default" /\ missed \subseteq missed'
  BY <1>1, Working, PartsOf DEF HostInv
<1>3. /\ saved' \in [active : 0..MaxRuntimes, pending : 0..MaxRuntimes, staged : 0..MaxRuntimes,
                     emb : Models \cup {"none"}, plan : OperationModes \cup {"none"}]
      /\ saved'.plan = saved.plan /\ saved'.emb = DefaultModel
  BY <1>1, InstallationAssumption DEF HostInv, InstallationTypeOK, Models
<1>4. Carried' /\ ChangeAllowed' /\ SavesTold' /\ PauseDone'
  BY <1>1, <1>2, Onward DEF HostInv
<1>5. StartDone' /\ ChangeDone'
  BY <1>1, <1>2, <1>4, LastingNext DEF Lasting
<1>6. NginxKept' /\ ModeKept' /\ LoginKept'
  BY <1>1, <1>2, <1>3, StartKept
<1>7. SecretsKept' /\ EndpointKept' /\ VectorsOfActive'
  <2>1. Undone("secrets") => Undone("secrets")'
    BY <1>1, <1>2, StillUndone
  <2> QED
    BY <1>1, <1>3, <2>1, InstallationAssumption DEF SecretsKept, EndpointKept, VectorsOfActive, HostInv, Kept
<1>8. InstallationTypeOK'
  <2>1. missed' \subseteq Parts
    BY <1>1 DEF HostInv, InstallationTypeOK, Parts
  <2> QED
    BY <1>1, <1>3, <1>4, <2>1, CommandTypes DEF HostInv, InstallationTypeOK
<1>9. NothingWithoutEnv'
  BY <1>1, <1>2, <1>3, StillWithoutEnv DEF HostInv, Kept, NothingWithoutEnv
<1> QED
  BY <1>4, <1>5, <1>6, <1>7, <1>8, <1>9 DEF HostInv, Kept, Done

LEMMA ChangeStepsGo ==
  ASSUME NEW c \in Candidates
  PROVE  /\ ChangeSteps(c) \in Seq(Steps) /\ ChangeSteps(c) # <<>> /\ Goes(ChangeSteps(c))
         /\ Head(ChangeSteps(c)) = (IF c.url = "none" THEN "compare" ELSE "url")
         /\ ToSet(ChangeSteps(c)) = {"compare", "ask", "halt", "change", "recreate"}
                                      \cup IF c.url = "none" THEN {} ELSE {"url"}
<1> DEFINE q == <<"compare", "ask", "halt", "change", "recreate">>
<1>1. q \in Seq(Steps) /\ Goes(q) /\ q # <<>> /\ Head(q) = "compare" /\ q \in Rest("url")
  <2>1. q \in Rest("url") /\ "url" \in FixedHeads /\ After("url") = "compare"
    BY DEF Rest, FixedHeads, After
  <2> QED
    BY <2>1, FixedGoes
<1>2. ToSet(q) = {"compare", "ask", "halt", "change", "recreate"}
  BY <1>1, FixedHolds DEF FixedHeads, May
<1>3. ChangeSteps(c) = (IF c.url = "none" THEN <<>> ELSE <<"url">>) \o q
  BY DEF ChangeSteps
<1> HIDE DEF q
<1>4. CASE c.url = "none"
  <2>1. ChangeSteps(c) = q
    BY <1>1, <1>3, <1>4, ConcatEmptySeq
  <2> QED
    BY <1>1, <1>2, <1>4, <2>1
<1>5. CASE c.url # "none"
  <2>1. "url" \in Steps
    BY DEF Steps
  <2>2. ChangeSteps(c) = <<"url">> \o q
    BY <1>3, <1>5
  <2>3. /\ ChangeSteps(c) \in Seq(Steps) /\ ChangeSteps(c) # <<>> /\ Head(ChangeSteps(c)) = "url"
        /\ Tail(ChangeSteps(c)) = q
    BY <1>1, <2>1, <2>2, Before
  <2>4. ToSet(ChangeSteps(c)) = {"url"} \cup ToSet(q)
    BY <2>3, Ahead
  <2>5. Goes(ChangeSteps(c))
    BY <1>1, <2>1, <2>3 DEF Goes
  <2> QED
    BY <1>2, <1>5, <2>3, <2>4, <2>5
<1> QED
  BY <1>4, <1>5

LEMMA OfferKeeps ==
  ASSUME HostInv, Offer
  PROVE  HostInv'
<1>1. /\ OneStep("offer") /\ command' = [command EXCEPT !.todo = ChangeSteps(command.candidate)]
      /\ UNCHANGED <<hostVars, counts, missed>>
  BY DEF Offer
<1>2. /\ command.todo \in Seq(Steps) /\ command.todo # <<>> /\ Goes(command.todo) /\ Head(command.todo) = "offer"
      /\ command.ok /\ command \in Asked /\ command.candidate \in Candidates /\ PartOf("offer") = "offer"
      /\ ToSet(command.todo) = {"offer"}
  BY <1>1, Working, PartsOf, LastHolds DEF HostInv, Carried, Asked, LastHeads
<1> DEFINE t == ChangeSteps(command.candidate)
<1>3. /\ t \in Seq(Steps) /\ t # <<>> /\ Goes(t)
      /\ Head(t) = (IF command.candidate.url = "none" THEN "compare" ELSE "url")
      /\ ToSet(t) = {"compare", "ask", "halt", "change", "recreate"}
                      \cup IF command.candidate.url = "none" THEN {} ELSE {"url"}
  BY <1>2, ChangeStepsGo
<1> HIDE DEF t
<1>4. GoesOnWith(t, command.launch)
  BY <1>1, <1>2, <1>3 DEF GoesOnWith, Asked, t
<1>5. Carried'
  BY <1>2, <1>3, <1>4 DEF GoesOnWith, Carried, Comes, HostInv, BeforeStart, ChangeParts
<1>6. StartDone' /\ ChangeDone'
  <2>1. StartDone'
    BY <1>3, <1>4, <1>5, NotStarting DEF GoesOnWith
  <2> QED
    BY <1>3, <1>4, <2>1 DEF GoesOnWith, ChangeDone, OneStep
<1>7. env.mode # "basic" /\ env.file # "none"
  BY <1>2 DEF HostInv, Done, ChangeAllowed, Comes, ChangeParts
<1>8. ChangeAllowed' /\ SavesTold' /\ PauseDone'
  BY <1>1, <1>2, <1>3, <1>4, <1>7 DEF ChangeAllowed, SavesTold, PauseDone, GoesOnWith, Comes, hostVars
<1>9. \A part \in Parts : Undone(part) => Undone(part)'
  <2>1. \A part \in Parts : part \in Pending => part \in Unlaunched
    BY <1>2 DEF Pending, Parts
  <2>2. Unlaunched' = Unlaunched /\ missed' = missed
    BY <1>1, <1>4 DEF Unlaunched, GoesOnWith
  <2> QED
    BY <2>1, <2>2 DEF Undone, Pending
<1>10. Kept'
  BY <1>1, <1>7, <1>9 DEF HostInv, Kept, NothingWithoutEnv, NginxKept, ModeKept, LoginKept, SecretsKept, EndpointKept,
       VectorsOfActive, hostVars, Parts
<1>11. InstallationTypeOK'
  BY <1>1, <1>5, CommandTypes DEF HostInv, InstallationTypeOK, hostVars
<1> QED
  BY <1>5, <1>6, <1>8, <1>10, <1>11 DEF HostInv, Done

-----------------------------------------------------------------------------
(* The commands.                                                            *)

LEMMA AcceptKeeps ==
  ASSUME HostInv, command = AtRest, UNCHANGED hostVars, command'.ok, Carried',
         counts' \in [installs : 0..MaxInstalls, kills : 0..MaxInstallKills],
         missed \subseteq missed', missed' \subseteq Parts, StartDone', ChangeDone', ChangeAllowed', SavesTold',
         env.file = "none" => /\ command'.launch => OneStep("copy")'
                              /\ command'.todo # <<>> /\ Head(command'.todo) \in WithoutEnv
                              /\ "plan" \notin ToSet(command'.todo)
  PROVE  HostInv'
<1>1. \A part : Undone(part) => Undone(part)'
  <2>1. command.todo = <<>> /\ ~command.launch
    BY DEF AtRest
  <2>2. Pending = {}
    BY <2>1, NothingLeft DEF Pending, Unlaunched
  <2> QED
    BY <2>2 DEF Undone
<1>2. Kept'
  BY <1>1 DEF HostInv, Kept, NothingWithoutEnv, NginxKept, ModeKept, LoginKept, SecretsKept, EndpointKept,
       VectorsOfActive, hostVars, Comes
<1>3. InstallationTypeOK'
  BY CommandTypes DEF HostInv, InstallationTypeOK, hostVars
<1> QED
  BY <1>2, <1>3 DEF HostInv, Done, PauseDone

(* The record of a command that begins.                                     *)
LEMMA BeginTypes ==
  ASSUME NEW t \in Seq(Steps)
  PROVE  /\ Begin(t) \in Asked
         /\ Begin(t).todo = t /\ Begin(t).launch = FALSE /\ Begin(t).candidate = NoCandidate
         /\ Begin(t).candidate.url = "none" /\ Begin(t).ok = TRUE
<1>1. Begin(t) = [AtRest EXCEPT !.todo = t]
  BY DEF Begin
<1>2. AtRest \in Asked /\ AtRest.launch = FALSE /\ AtRest.candidate = NoCandidate /\ AtRest.ok = TRUE
  BY RestTypes DEF AtRest
<1> QED
  BY <1>1, <1>2, RestTypes DEF Asked, NoCandidate

LEMMA CountsTyped ==
  ASSUME HostInv, counts.installs < MaxInstalls, counts' = [counts EXCEPT !.installs = @ + 1]
  PROVE  counts' \in [installs : 0..MaxInstalls, kills : 0..MaxInstallKills]
<1>1. counts \in [installs : 0..MaxInstalls, kills : 0..MaxInstallKills] /\ MaxInstalls \in Nat
  BY InstallationAssumption DEF HostInv, InstallationTypeOK
<1>2. counts.installs + 1 \in 0..MaxInstalls
  BY <1>1
<1> QED
  BY <1>1, <1>2

(* The preparation of .env comes first.                                     *)
LEMMA EnsureGoes ==
  ASSUME NEW r \in AfterEnsure
  PROVE  LET t == EnsureSteps \o r IN
         /\ t \in Seq(Steps) /\ t # <<>> /\ Goes(t)
         /\ Head(t) = IF env.file = "none" THEN "copy" ELSE "backfill"
         /\ ToSet(t) = (IF env.file = "none" THEN {"copy", "secrets"} ELSE {"backfill"}) \cup ToSet(r)
<1> DEFINE t == EnsureSteps \o r
<1>1. r \in Seq(Steps) /\ {"copy", "secrets", "backfill"} \subseteq Steps
  BY AfterEnsureGoes DEF Steps
<1>2. CASE env.file = "none"
  <2>1. t = <<"copy", "secrets">> \o r
    BY <1>2 DEF EnsureSteps
  <2>2. /\ t \in Seq(Steps) /\ t # <<>> /\ Head(t) = "copy" /\ Tail(t) = <<"secrets">> \o r
    BY <1>1, <2>1, TwoBefore
  <2>3. Tail(t) \in Rest("copy")
    BY <2>2 DEF Rest
  <2>4. Goes(t)
    BY <1>1, <2>2, <2>3 DEF Goes
  <2>5. ToSet(t) = {"copy"} \cup ToSet(<<"secrets">> \o r)
    BY <2>2, Ahead
  <2>6. ToSet(<<"secrets">> \o r) = {"secrets"} \cup ToSet(r)
    <3> DEFINE q == <<"secrets">> \o r
    <3>1. q \in Seq(Steps) /\ q # <<>> /\ Head(q) = "secrets" /\ Tail(q) = r
      BY <1>1, Before
    <3> HIDE DEF q
    <3>2. ToSet(q) = {"secrets"} \cup ToSet(r)
      BY <3>1, Ahead
    <3> QED
      BY <3>2 DEF q
  <2> QED
    BY <1>2, <2>2, <2>4, <2>5, <2>6
<1>3. CASE env.file # "none"
  <2>1. t = <<"backfill">> \o r
    BY <1>3 DEF EnsureSteps
  <2>2. t \in Seq(Steps) /\ t # <<>> /\ Head(t) = "backfill" /\ Tail(t) = r
    BY <1>1, <2>1, Before
  <2>3. Tail(t) \in Rest("backfill")
    BY <2>2 DEF Rest
  <2>4. Goes(t)
    BY <1>1, <2>2, <2>3 DEF Goes
  <2>5. ToSet(t) = {"backfill"} \cup ToSet(r)
    BY <2>2, Ahead
  <2> QED
    BY <1>3, <2>2, <2>4, <2>5
<1> QED
  BY <1>2, <1>3

(* A command that prepares .env and goes on with r.                         *)
LEMMA EnsureKeeps ==
  ASSUME HostInv, NEW r \in AfterEnsure, Accept(command'),
         command' \in Asked, command'.todo = EnsureSteps \o r, command'.ok,
         command'.candidate.url # "none" =>
            <<command'.candidate.model, command'.candidate.url>> \in Endpoints,
         "offer" \in ToSet(r) => command'.mode # "basic",
         missed \subseteq missed', missed' \subseteq Parts,
         "saveMode" \in ToSet(r) => command'.launch \/ "start" \in missed',
         "login" \in ToSet(r) => command'.launch \/ "login" \in missed'
  PROVE  HostInv'
<1> DEFINE t == EnsureSteps \o r
<1>1. /\ command = AtRest /\ UNCHANGED hostVars
      /\ counts' \in [installs : 0..MaxInstalls, kills : 0..MaxInstallKills]
  BY CountsTyped DEF Accept
<1>2. /\ t \in Seq(Steps) /\ t # <<>> /\ Goes(t)
      /\ Head(t) = (IF env.file = "none" THEN "copy" ELSE "backfill")
      /\ ToSet(t) = (IF env.file = "none" THEN {"copy", "secrets"} ELSE {"backfill"}) \cup ToSet(r)
  BY EnsureGoes
<1>3. /\ ToSet(r) \subseteq {"pause", "pauseLlm", "login", "saveMode", "default", "offer"}
      /\ "offer" \in ToSet(r) => "saveMode" \in ToSet(r)
  BY EnsureHolds
<1>4. command'.todo = t
  OBVIOUS
<1> HIDE DEF t
<1>5. Carried'
  BY <1>2, <1>3, <1>4 DEF Carried, Comes, BeforeStart
<1>6. StartDone' /\ ChangeDone'
  BY <1>2, <1>4, <1>5, NotBegun DEF Begun
<1>7. ChangeAllowed' /\ SavesTold'
  BY <1>2, <1>3, <1>4 DEF ChangeAllowed, SavesTold, Comes, ChangeParts
<1>8. env.file = "none" => /\ command'.launch => OneStep("copy")'
                           /\ command'.todo # <<>> /\ Head(command'.todo) \in WithoutEnv
                           /\ "plan" \notin ToSet(command'.todo)
  BY <1>2, <1>3, <1>4 DEF OneStep, WithoutEnv
<1> QED
  BY <1>1, <1>5, <1>6, <1>7, <1>8, AcceptKeeps

LEMMA EnsureAlone == EnsureSteps \o <<>> = EnsureSteps /\ EnsureSteps \in Seq(Steps)
<1>1. EnsureSteps \in Seq(Steps)
  <2>1. <<"copy", "secrets">> \in Seq(Steps) /\ <<"backfill">> \in Seq(Steps)
    BY DEF Steps
  <2> QED
    BY <2>1 DEF EnsureSteps
<1> QED
  BY <1>1, ConcatEmptySeq

LEMMA PartsKept ==
  ASSUME HostInv, missed' = missed \/ missed' = missed \cup {"login"} \/ missed' = missed \cup {"start"}
  PROVE  missed \subseteq missed' /\ missed' \subseteq Parts
  BY DEF HostInv, InstallationTypeOK, Parts

LEMMA RunKeeps ==
  ASSUME HostInv, NEW way \in {"resume", "rebuild"}, Run(way)
  PROVE  HostInv'
<1>1. /\ Accept([Begin(EnsureSteps) EXCEPT !.launch = TRUE, !.runtime = way]) /\ missed' = missed
  BY DEF Run
<1>2. /\ command' = [Begin(EnsureSteps) EXCEPT !.launch = TRUE, !.runtime = way]
      /\ Accept(command')
  BY <1>1 DEF Accept
<1>3. /\ command' \in Asked /\ command'.todo = EnsureSteps /\ command'.ok /\ command'.candidate.url = "none"
  <2> DEFINE b == Begin(EnsureSteps)
  <2>1. b \in Asked /\ b.todo = EnsureSteps /\ b.ok /\ b.candidate.url = "none"
    BY EnsureAlone, BeginTypes
  <2>2. command' = [b EXCEPT !.launch = TRUE, !.runtime = way]
    BY <1>2
  <2> HIDE DEF b
  <2> QED
    BY <2>1, <2>2 DEF Asked
<1> QED
  BY <1>1, <1>2, <1>3, EnsureAlone, EnsureKeeps, PartsKept, NothingLeft DEF AfterEnsure

LEMMA RestartKeeps ==
  ASSUME HostInv, Restart
  PROVE  HostInv'
<1> DEFINE t == EnsureSteps \o <<"pause", "pauseLlm">>
<1>1. Accept([Begin(t) EXCEPT !.launch = TRUE]) /\ missed' = missed
  BY DEF Restart, PauseSteps
<1>2. <<"pause", "pauseLlm">> \in AfterEnsure
  BY DEF AfterEnsure
<1>3. t \in Seq(Steps)
  BY <1>2, EnsureGoes
<1> HIDE DEF t
<1>4. command' = [Begin(t) EXCEPT !.launch = TRUE] /\ Accept(command')
  BY <1>1 DEF Accept
<1>5. command' \in Asked /\ command'.todo = t /\ command'.ok /\ command'.candidate.url = "none"
  <2> DEFINE b == Begin(t)
  <2>1. b \in Asked /\ b.todo = t /\ b.ok /\ b.candidate.url = "none"
    BY <1>3, BeginTypes
  <2>2. command' = [b EXCEPT !.launch = TRUE]
    BY <1>4
  <2> HIDE DEF b
  <2> QED
    BY <2>1, <2>2 DEF Asked
<1> QED
  BY <1>1, <1>2, <1>4, <1>5, EnsureKeeps, PartsKept, ShortHolds DEF t

LEMMA LoginBegins ==
  ASSUME HostInv, NEW on \in BOOLEAN, NEW restart \in BOOLEAN, Login(on, restart)
  PROVE  HostInv'
<1> DEFINE p == IF restart THEN PauseSteps ELSE <<>>
           r == <<"login">> \o p
           t == EnsureSteps \o r
<1>1. /\ Accept([Begin(EnsureSteps \o <<"login">> \o p) EXCEPT !.login = on, !.launch = restart])
      /\ missed' = IF restart THEN missed ELSE missed \cup {"login"}
  BY DEF Login
<1>2. p \in Seq(Steps) /\ <<"login">> \in Seq(Steps) /\ "login" \in Steps /\ EnsureSteps \in Seq(Steps)
  <2>1. "login" \in Steps
    BY DEF Steps
  <2> QED
    BY <2>1, PauseIsTwo, ShortLists, EnsureAlone
<1>3. EnsureSteps \o <<"login">> \o p = t
  <2> HIDE DEF p
  <2> QED
    BY <1>2, ConcatAssociative
<1>4. r \in AfterEnsure
  BY PauseIsTwo DEF AfterEnsure
<1>5. ToSet(r) \subseteq {"login", "pause", "pauseLlm"}
  <2>1. ToSet(p) \subseteq {"pause", "pauseLlm"}
    BY ShortHolds, PauseIsTwo, NothingLeft
  <2> HIDE DEF p
  <2>2. r \in Seq(Steps) /\ r # <<>> /\ Head(r) = "login" /\ Tail(r) = p
    BY <1>2, Before
  <2> HIDE DEF r
  <2>3. ToSet(r) = {"login"} \cup ToSet(p)
    BY <2>2, Ahead
  <2> QED
    BY <2>1, <2>3
<1> HIDE DEF p, r
<1>6. t \in Seq(Steps)
  BY <1>4, EnsureGoes
<1> HIDE DEF t
<1>7. command' = [Begin(t) EXCEPT !.login = on, !.launch = restart] /\ Accept(command')
  BY <1>1, <1>3 DEF Accept
<1>8. /\ command' \in Asked /\ command'.todo = t /\ command'.ok /\ command'.candidate.url = "none"
      /\ command'.launch = restart
  <2> DEFINE b == Begin(t)
  <2>1. b \in Asked /\ b.todo = t /\ b.ok /\ b.candidate.url = "none"
    BY <1>6, BeginTypes
  <2>2. command' = [b EXCEPT !.login = on, !.launch = restart]
    BY <1>7
  <2> HIDE DEF b
  <2> QED
    BY <2>1, <2>2 DEF Asked
<1>9. command'.todo = EnsureSteps \o r
  BY <1>8 DEF t
<1>10. (command'.launch \/ "login" \in missed') /\ missed \subseteq missed' /\ missed' \subseteq Parts
  BY <1>1, <1>8, PartsKept
<1> QED
  BY <1>4, <1>5, <1>7, <1>8, <1>9, <1>10, EnsureKeeps

LEMMA WizardKeeps ==
  ASSUME HostInv, NEW mode \in OperationModes, NEW embedding \in {"default", "custom", "asIs"},
         NEW candidate \in Candidates, NEW launch \in BOOLEAN, Endpoint(candidate) \subseteq Endpoints,
         Wizard(mode, embedding, candidate, launch)
  PROVE  HostInv'
<1> DEFINE p == CASE embedding = "default" -> <<"default">>
                  [] embedding = "custom" -> <<"offer">>
                  [] OTHER -> <<>>
           r == <<"saveMode">> \o p
           t == EnsureSteps \o r
<1>1. /\ mode = "basic" => embedding = "asIs"
      /\ Accept([Begin(EnsureSteps \o <<"saveMode">> \o p) EXCEPT
                   !.mode = mode, !.candidate = candidate, !.launch = launch, !.runtime = "setup"])
      /\ missed' = IF launch THEN missed ELSE missed \cup {"start"}
  BY DEF Wizard
<1>0. {"saveMode", "default", "offer"} \subseteq Steps
  BY DEF Steps
<1>2. /\ p \in {<<>>, <<"default">>, <<"offer">>} /\ p \in Seq(Steps)
      /\ ToSet(p) \subseteq {"default", "offer"} /\ (embedding = "asIs" => ToSet(p) = {})
  <2>1. p \in {<<>>, <<"default">>, <<"offer">>} /\ (embedding = "asIs" => p = <<>>)
    OBVIOUS
  <2> HIDE DEF p
  <2> QED
    BY <1>0, <2>1, ShortLists, ShortHolds, NothingLeft
<1>3. <<"saveMode">> \in Seq(Steps) /\ EnsureSteps \in Seq(Steps)
  BY <1>0, ShortLists, EnsureAlone
<1>4. EnsureSteps \o <<"saveMode">> \o p = t
  <2> HIDE DEF p
  <2> QED
    BY <1>2, <1>3, ConcatAssociative
<1> HIDE DEF p
<1>5. r \in AfterEnsure
  BY <1>2 DEF AfterEnsure
<1>6. ToSet(r) = {"saveMode"} \cup ToSet(p)
  <2>1. r \in Seq(Steps) /\ r # <<>> /\ Head(r) = "saveMode" /\ Tail(r) = p
    BY <1>0, <1>2, Before
  <2> HIDE DEF r
  <2> QED
    BY <2>1, Ahead
<1> HIDE DEF r
<1>7. t \in Seq(Steps)
  BY <1>5, EnsureGoes
<1> HIDE DEF t
<1>8. /\ command' = [Begin(t) EXCEPT !.mode = mode, !.candidate = candidate, !.launch = launch, !.runtime = "setup"]
      /\ Accept(command')
  BY <1>1, <1>4 DEF Accept
<1>9. /\ command' \in Asked /\ command'.todo = t /\ command'.ok /\ command'.candidate = candidate
      /\ command'.launch = launch /\ command'.mode = mode
  <2> DEFINE b == Begin(t)
  <2>1. b \in Asked /\ b.todo = t /\ b.ok /\ b.candidate.url = "none"
    BY <1>7, BeginTypes
  <2>2. command' = [b EXCEPT !.mode = mode, !.candidate = candidate, !.launch = launch, !.runtime = "setup"]
    BY <1>8
  <2> HIDE DEF b
  <2> QED
    BY <2>1, <2>2 DEF Asked
<1>10. command'.todo = EnsureSteps \o r
  BY <1>9 DEF t
<1>11. candidate.url # "none" => <<candidate.model, candidate.url>> \in Endpoints
  BY DEF Endpoint
<1>12. (command'.launch \/ "start" \in missed') /\ missed \subseteq missed' /\ missed' \subseteq Parts
  BY <1>1, <1>9, PartsKept
<1>13. "offer" \in ToSet(r) => command'.mode # "basic"
  BY <1>1, <1>2, <1>6, <1>9
<1>14. "login" \notin ToSet(r)
  BY <1>2, <1>6
<1> QED
  BY <1>5, <1>8, <1>9, <1>10, <1>11, <1>12, <1>13, <1>14, EnsureKeeps


(* A command of fixed steps.                                                *)
LEMMA PlainKeeps ==
  ASSUME HostInv, NEW t \in Seq(Steps), t # <<>>, Goes(t), Accept(Begin(t)), missed' = missed,
         ToSet(t) \cap (ChangeParts \cup {"saveMode", "login", "plan", "up"}) = {},
         Head(t) \notin Begun \ {"detect"},
         env.file = "none" => Head(t) \in WithoutEnv
  PROVE  HostInv'
<1>1. /\ command = AtRest /\ UNCHANGED hostVars /\ command' = Begin(t)
      /\ counts' \in [installs : 0..MaxInstalls, kills : 0..MaxInstallKills]
  BY CountsTyped DEF Accept
<1>2. /\ command' \in Asked /\ command'.todo = t /\ ~command'.launch /\ command'.candidate.url = "none"
      /\ command'.ok
  BY <1>1, BeginTypes
<1>3. Carried'
  BY <1>2 DEF Carried, Comes, ChangeParts
<1>4. StartDone'
  BY <1>2 DEF StartDone, OneStep, Comes, Begun
<1>5. ChangeDone'
  BY <1>2, NotChanging DEF Begun
<1>6. ChangeAllowed' /\ SavesTold'
  BY <1>2 DEF ChangeAllowed, SavesTold, Comes
<1>7. missed \subseteq missed' /\ missed' \subseteq Parts
  BY DEF HostInv, InstallationTypeOK
<1> QED
  BY <1>1, <1>2, <1>3, <1>4, <1>5, <1>6, <1>7, AcceptKeeps

LEMMA PlainLists ==
  /\ <<"stopWorkers", "removeLlm", "down">> \in Seq(Steps) /\ Goes(<<"stopWorkers", "removeLlm", "down">>)
  /\ <<"detect", "apply">> \in Seq(Steps) /\ Goes(<<"detect", "apply">>)
  /\ ToSet(<<"detect", "apply">>) = {"detect", "apply"}
  /\ <<"stopExternal", "upLocal">> \in Seq(Steps) /\ Goes(<<"stopExternal", "upLocal">>)
  /\ \A s \in {"wipe", "connect"} : <<s>> \in Seq(Steps) /\ <<s>> # <<>> /\ Head(<<s>>) = s
                                     /\ Goes(<<s>>) /\ ToSet(<<s>>) = {s}
  /\ Goes(PauseSteps) /\ ToSet(PauseSteps) = {"pause", "pauseLlm"}
<1>0. {"stopWorkers", "removeLlm", "down", "detect", "apply", "stopExternal", "upLocal", "wipe", "connect", "pause"}
        \subseteq Steps
  BY DEF Steps
<1>1. <<"stopWorkers", "removeLlm", "down">> \in Seq(Steps) /\ Goes(<<"stopWorkers", "removeLlm", "down">>)
  <2> DEFINE q == <<"stopWorkers", "removeLlm", "down">>
  <2>1. q \in Seq(Steps) /\ Head(q) = "stopWorkers" /\ Tail(q) = <<"removeLlm", "down">>
    BY <1>0
  <2>2. Tail(q) \in Rest("stopWorkers")
    BY <2>1 DEF Rest
  <2> QED
    BY <1>0, <2>1, <2>2 DEF Goes
<1>2. /\ <<"detect", "apply">> \in Seq(Steps) /\ Goes(<<"detect", "apply">>)
      /\ ToSet(<<"detect", "apply">>) = {"detect", "apply"}
  <2> DEFINE q == <<"detect", "apply">>
  <2>1. q \in Seq(Steps) /\ q # <<>> /\ Head(q) = "detect" /\ Tail(q) = <<"apply">>
    BY <1>0
  <2>2. <<"apply">> \in Rest("detect")
    BY DEF Rest
  <2> HIDE DEF q
  <2>3. ToSet(q) = {"detect"} \cup ToSet(<<"apply">>) /\ Goes(q)
    BY <1>0, <2>1, <2>2, Ahead DEF Goes
  <2> QED
    BY <1>0, <2>1, <2>3, ShortHolds DEF q
<1>3. <<"stopExternal", "upLocal">> \in Seq(Steps) /\ Goes(<<"stopExternal", "upLocal">>)
  <2> DEFINE q == <<"stopExternal", "upLocal">>
  <2>1. q \in Seq(Steps) /\ Head(q) = "stopExternal" /\ Tail(q) = <<"upLocal">>
    BY <1>0
  <2>2. <<"upLocal">> \in Rest("stopExternal")
    BY DEF Rest
  <2> QED
    BY <1>0, <2>1, <2>2 DEF Goes
<1>4. ASSUME NEW s \in {"wipe", "connect"}
      PROVE  <<s>> \in Seq(Steps) /\ <<s>> # <<>> /\ Head(<<s>>) = s /\ Goes(<<s>>) /\ ToSet(<<s>>) = {s}
  <2>1. s \in Steps
    BY <1>0
  <2>2. <<s>> \in Seq(Steps) /\ <<s>> # <<>> /\ Head(<<s>>) = s /\ Tail(<<s>>) = <<>>
    BY <2>1, ShortLists
  <2>3. <<>> \in Rest(s)
    BY DEF Rest
  <2> QED
    BY <2>1, <2>2, <2>3, ShortHolds DEF Goes
<1>5. Goes(PauseSteps) /\ ToSet(PauseSteps) = {"pause", "pauseLlm"}
  BY <1>0, PauseIsTwo, ShortHolds DEF Goes, Rest
<1> QED
  BY <1>1, <1>2, <1>3, <1>4, <1>5

LEMMA PlainCommandsKeep ==
  ASSUME HostInv, Pause \/ ShutDown \/ RemoveLlm \/ ChangeLlm \/ Connect \/ Disconnect
  PROVE  HostInv'
<1>1. CASE Pause
  <2> DEFINE t == PauseSteps
  <2>1. Accept(Begin(t)) /\ missed' = missed
    BY <1>1 DEF Pause
  <2>2. t \in Seq(Steps) /\ t # <<>> /\ Goes(t) /\ Head(t) = "pause" /\ ToSet(t) = {"pause", "pauseLlm"}
    BY PauseIsTwo, PlainLists
  <2> HIDE DEF t
  <2> QED
    BY <2>1, <2>2, PlainKeeps DEF Begun, WithoutEnv, ChangeParts
<1>2. CASE ShutDown
  <2> DEFINE t == <<"stopWorkers", "removeLlm", "down">>
  <2>1. Accept(Begin(t)) /\ missed' = missed
    BY <1>2 DEF ShutDown
  <2>2. t \in Seq(Steps) /\ t # <<>> /\ Goes(t) /\ Head(t) = "stopWorkers"
    BY PlainLists
  <2> HIDE DEF t
  <2>3. ToSet(t) = {"stopWorkers", "removeLlm", "down"}
    BY <2>2, FixedHolds DEF FixedHeads, May
  <2> QED
    BY <2>1, <2>2, <2>3, PlainKeeps DEF Begun, WithoutEnv, ChangeParts
<1>3. CASE RemoveLlm
  <2> DEFINE t == <<"wipe">>
  <2>1. Accept(Begin(t)) /\ missed' = missed
    BY <1>3 DEF RemoveLlm
  <2>2. t \in Seq(Steps) /\ t # <<>> /\ Goes(t) /\ Head(t) = "wipe" /\ ToSet(t) = {"wipe"}
    BY PlainLists
  <2> HIDE DEF t
  <2> QED
    BY <2>1, <2>2, PlainKeeps DEF Begun, WithoutEnv, ChangeParts
<1>4. CASE ChangeLlm
  <2> DEFINE t == <<"detect", "apply">>
  <2>1. Accept(Begin(t)) /\ missed' = missed
    BY <1>4 DEF ChangeLlm
  <2>2. t \in Seq(Steps) /\ t # <<>> /\ Goes(t) /\ Head(t) = "detect" /\ ToSet(t) = {"detect", "apply"}
    BY PlainLists
  <2> HIDE DEF t
  <2> QED
    BY <2>1, <2>2, PlainKeeps DEF Begun, WithoutEnv, ChangeParts
<1>5. CASE Connect
  <2> DEFINE t == <<"connect">>
  <2>1. Accept(Begin(t)) /\ missed' = missed /\ env.file # "none"
    BY <1>5 DEF Connect
  <2>2. t \in Seq(Steps) /\ t # <<>> /\ Goes(t) /\ Head(t) = "connect" /\ ToSet(t) = {"connect"}
    BY PlainLists
  <2> HIDE DEF t
  <2> QED
    BY <2>1, <2>2, PlainKeeps DEF Begun, ChangeParts
<1>6. CASE Disconnect
  <2> DEFINE t == <<"stopExternal", "upLocal">>
  <2>1. Accept(Begin(t)) /\ missed' = missed
    BY <1>6 DEF Disconnect
  <2>2. t \in Seq(Steps) /\ t # <<>> /\ Goes(t) /\ Head(t) = "stopExternal"
    BY PlainLists
  <2> HIDE DEF t
  <2>3. ToSet(t) = {"stopExternal", "upLocal"}
    BY <2>2, FixedHolds DEF FixedHeads, May
  <2> QED
    BY <2>1, <2>2, <2>3, PlainKeeps DEF Begun, WithoutEnv, ChangeParts
<1> QED
  BY <1>1, <1>2, <1>3, <1>4, <1>5, <1>6

LEMMA SavedMode ==
  ASSUME HostInv
  PROVE  /\ SavedOperationMode \in OperationModes
         /\ env.file # "none" => SavedOperationMode = env.mode
         /\ env.file = "none" => SavedOperationMode = "basic"
  BY DEF HostInv, Kept, NothingWithoutEnv, InstallationTypeOK, SavedOperationMode, OperationModes

LEMMA ChangeBegins ==
  ASSUME HostInv, NEW candidate \in Candidates, NEW skip \in BOOLEAN, Endpoint(candidate) \subseteq Endpoints,
         ChangeEmbedding(candidate, skip)
  PROVE  HostInv'
<1> DEFINE t == ChangeSteps(candidate)
<1>1. /\ SavedOperationMode # "basic" /\ missed' = missed
      /\ Accept([Begin(t) EXCEPT !.candidate = candidate, !.skip = skip])
  BY DEF ChangeEmbedding
<1>2. /\ t \in Seq(Steps) /\ t # <<>> /\ Goes(t) /\ Head(t) = (IF candidate.url = "none" THEN "compare" ELSE "url")
      /\ ToSet(t) = {"compare", "ask", "halt", "change", "recreate"}
                      \cup IF candidate.url = "none" THEN {} ELSE {"url"}
  BY ChangeStepsGo
<1> HIDE DEF t
<1>3. /\ command' \in Asked /\ command'.todo = t /\ ~command'.launch /\ command'.ok
      /\ command'.candidate = candidate
  <2> DEFINE b == Begin(t)
  <2>1. b \in Asked /\ b.todo = t /\ b.ok /\ ~b.launch
    BY <1>2, BeginTypes
  <2>2. command' = [b EXCEPT !.candidate = candidate, !.skip = skip]
    BY <1>1 DEF Accept
  <2> HIDE DEF b
  <2> QED
    BY <2>1, <2>2 DEF Asked
<1>4. /\ command = AtRest /\ UNCHANGED hostVars
      /\ counts' \in [installs : 0..MaxInstalls, kills : 0..MaxInstallKills]
  BY <1>1, CountsTyped DEF Accept
<1>5. env.file # "none" /\ env.mode # "basic"
  BY <1>1, SavedMode
<1>6. candidate.url # "none" => <<candidate.model, candidate.url>> \in Endpoints
  BY DEF Endpoint
<1>7. Carried'
  BY <1>2, <1>3, <1>6 DEF Carried, Comes
<1>8. StartDone'
  BY <1>2, <1>3, <1>7, NotStarting
<1>9. ChangeDone'
  BY <1>2, <1>3 DEF ChangeDone, OneStep
<1>10. ChangeAllowed' /\ SavesTold'
  BY <1>2, <1>3, <1>4, <1>5 DEF ChangeAllowed, SavesTold, Comes, hostVars
<1>11. missed \subseteq missed' /\ missed' \subseteq Parts
  BY <1>1 DEF HostInv, InstallationTypeOK
<1> QED
  BY <1>3, <1>4, <1>5, <1>7, <1>8, <1>9, <1>10, <1>11, AcceptKeeps

LEMMA CommandsBegin ==
  ASSUME HostInv, Commands
  PROVE  HostInv'
<1>1. CASE \E way \in {"resume", "rebuild"} : Run(way)
  BY <1>1, RunKeeps
<1>2. CASE Restart
  BY <1>2, RestartKeeps
<1>3. CASE Pause \/ ShutDown \/ RemoveLlm \/ ChangeLlm \/ Connect \/ Disconnect
  BY <1>3, PlainCommandsKeep
<1>4. CASE \E on, restart \in BOOLEAN : Login(on, restart)
  BY <1>4, LoginBegins
<1>5. CASE \E mode \in OperationModes, embedding \in {"default", "custom", "asIs"},
              candidate \in Candidates, launch \in BOOLEAN :
             Endpoint(candidate) \subseteq Endpoints /\ Wizard(mode, embedding, candidate, launch)
  BY <1>5, WizardKeeps
<1>6. CASE \E candidate \in Candidates, skip \in BOOLEAN :
             Endpoint(candidate) \subseteq Endpoints /\ ChangeEmbedding(candidate, skip)
  BY <1>6, ChangeBegins
<1> QED
  BY <1>1, <1>2, <1>3, <1>4, <1>5, <1>6 DEF Commands

-----------------------------------------------------------------------------
(* Between commands, and when one is killed.                                *)

LEMMA IdleKeeps ==
  ASSUME HostInv, UNCHANGED <<env, up, with, llm, saved, command, probed, missed>>,
         docs' \in Models \cup {"none", "mixed"}, VectorsOfActive',
         provider' \in {"none", "created", "edited"},
         counts' \in [installs : 0..MaxInstalls, kills : 0..MaxInstallKills]
  PROVE  HostInv'
<1>1. UNCHANGED <<Pending, Unlaunched>>
  BY DEF Pending, Unlaunched
<1>2. Kept'
  BY <1>1 DEF HostInv, Kept, NothingWithoutEnv, NginxKept, ModeKept, LoginKept, SecretsKept, EndpointKept,
       Undone, OneStep, Comes
<1>3. Done'
  BY <1>1 DEF HostInv, Done, StartDone, ChangeDone, ChangeAllowed, SavesTold, PauseDone, OneStep, Comes
<1>4. InstallationTypeOK'
  BY DEF HostInv, InstallationTypeOK
<1>5. Carried'
  BY DEF HostInv, Carried, Comes
<1> QED
  BY <1>2, <1>3, <1>4, <1>5 DEF HostInv

LEMMA BetweenKeeps ==
  ASSUME HostInv, CreateConfiguration \/ EditConfiguration \/ EmbedDocument \/ UNCHANGED installationVars
  PROVE  HostInv'
<1>1. CASE CreateConfiguration \/ EditConfiguration \/ UNCHANGED installationVars
  <2>1. /\ UNCHANGED <<env, up, with, llm, saved, docs, command, probed, missed, counts>>
        /\ provider' \in {"none", "created", "edited"}
    BY <1>1 DEF CreateConfiguration, EditConfiguration, installationVars, HostInv, InstallationTypeOK
  <2>2. VectorsOfActive' /\ docs' \in Models \cup {"none", "mixed"}
    BY <2>1 DEF HostInv, Kept, VectorsOfActive, InstallationTypeOK
  <2>3. counts' \in [installs : 0..MaxInstalls, kills : 0..MaxInstallKills]
    BY <2>1 DEF HostInv, InstallationTypeOK
  <2> QED
    BY <2>1, <2>2, <2>3, IdleKeeps
<1>2. CASE EmbedDocument
  <2>1. /\ UNCHANGED <<env, provider, up, with, llm, saved, command, probed, missed, counts>>
        /\ saved.emb # "none" /\ docs' = IF docs \in {"none", saved.emb} THEN saved.emb ELSE "mixed"
    BY <1>2 DEF EmbedDocument
  <2>2. VectorsOfActive'
    BY <2>1 DEF HostInv, Kept, VectorsOfActive
  <2>3. docs' \in Models \cup {"none", "mixed"} /\ provider' \in {"none", "created", "edited"}
    BY <2>1 DEF HostInv, InstallationTypeOK
  <2>4. counts' \in [installs : 0..MaxInstalls, kills : 0..MaxInstallKills]
    BY <2>1 DEF HostInv, InstallationTypeOK
  <2> QED
    BY <2>1, <2>2, <2>3, <2>4, IdleKeeps
<1> QED
  BY <1>1, <1>2

(* A command that ends here, all that was undone being missed.              *)
LEMMA EndKeeps ==
  ASSUME HostInv, command' = AtRest, missed \subseteq missed', missed' \subseteq Parts, UNCHANGED hostVars,
         counts' \in [installs : 0..MaxInstalls, kills : 0..MaxInstallKills],
         Pending \cap Parts \subseteq missed'
  PROVE  HostInv'
<1>1. /\ Carried' /\ command'.todo = <<>> /\ ~command'.launch /\ ToSet(command'.todo) = {}
      /\ ChangeAllowed' /\ SavesTold' /\ PauseDone'
  BY AtRestCarried
<1>2. StartDone' /\ ChangeDone'
  BY <1>1, NotBegun
<1>3. \A part \in Parts : Undone(part) => Undone(part)'
  BY DEF Undone
<1>4. Kept'
  BY <1>1, <1>3 DEF HostInv, Kept, NothingWithoutEnv, NginxKept, ModeKept, LoginKept, SecretsKept, EndpointKept,
       VectorsOfActive, hostVars, Comes, Parts
<1>5. InstallationTypeOK'
  BY <1>1, CommandTypes DEF HostInv, InstallationTypeOK, hostVars
<1> QED
  BY <1>1, <1>2, <1>4, <1>5 DEF HostInv, Done

LEMMA KillKeeps ==
  ASSUME HostInv, KillCommand
  PROVE  HostInv'
<1>1. /\ command' = AtRest /\ counts.kills < MaxInstallKills
      /\ counts' = [counts EXCEPT !.kills = @ + 1] /\ UNCHANGED hostVars
      /\ missed' = missed \cup (({PartOf(s) : s \in ToSet(command.todo)} \cup Unlaunched) \cap Parts)
  BY DEF KillCommand, Quit, Miss
<1>2. counts' \in [installs : 0..MaxInstalls, kills : 0..MaxInstallKills]
  <2>1. counts \in [installs : 0..MaxInstalls, kills : 0..MaxInstallKills] /\ MaxInstallKills \in Nat
    BY InstallationAssumption DEF HostInv, InstallationTypeOK
  <2>2. counts.kills + 1 \in 0..MaxInstallKills
    BY <1>1, <2>1
  <2> QED
    BY <1>1, <2>1, <2>2
<1>3. missed' \subseteq Parts /\ missed \subseteq missed' /\ Pending \cap Parts \subseteq missed'
  BY <1>1 DEF HostInv, InstallationTypeOK, Pending
<1> QED
  BY <1>1, <1>2, <1>3, EndKeeps

-----------------------------------------------------------------------------
(* Stopping services and the language model's container.                    *)

LlmTyped == llm \in [state : {"absent", "stopped", "running"}, gen : 0..MaxRuntimes]

LEMMA NoRuntimeTyped == NoRuntime \in [state : {"absent", "stopped", "running"}, gen : 0..MaxRuntimes]
  BY InstallationAssumption DEF NoRuntime, Absent

LEMMA StopTypes ==
  ASSUME NEW services, Stopped(services) \/ StopFails(services)
  PROVE  up' \subseteq up /\ with' = with
  BY DEF Stopped, StopFails

(* A step that takes something down and changes nothing else.               *)
LEMMA QuietKeeps ==
  ASSUME HostInv, NEW s \in {"stopWorkers", "removeLlm", "down", "pauseLlm"}, OneStep(s), command.ok, Proceed,
         UNCHANGED <<env, provider, with, saved, docs, counts, probed>>, up' \subseteq up, missed' = missed,
         LlmTyped', llm'.state = "running" => llm.state = "running"
  PROVE  HostInv'
<1>1. /\ command.todo # <<>> /\ Head(command.todo) = s /\ Carried /\ PartOf(s) = s
  BY Working, PartsOf DEF HostInv
<1>2. Carried' /\ ChangeAllowed' /\ SavesTold' /\ PauseDone'
  BY <1>1, Onward DEF HostInv
<1>3. StartDone' /\ ChangeDone'
  BY <1>1, <1>2, LastingNext DEF Lasting
<1>4. NginxKept' /\ ModeKept' /\ LoginKept'
  BY <1>1, StartKept
<1>5. SecretsKept' /\ EndpointKept' /\ VectorsOfActive'
  BY <1>1, RestKept
<1>6. NothingWithoutEnv'
  BY <1>1, StillWithoutEnv DEF HostInv, Kept, NothingWithoutEnv
<1>7. InstallationTypeOK'
  BY <1>2, CommandTypes DEF HostInv, InstallationTypeOK, LlmTyped
<1> QED
  BY <1>2, <1>3, <1>4, <1>5, <1>6, <1>7 DEF HostInv, Kept, Done

LEMMA RemoveKeeps ==
  ASSUME HostInv, RemoveContainer \/ Down
  PROVE  HostInv'
<1>1. CASE RemoveContainer
  <2>1. /\ OneStep("removeLlm") /\ Proceed /\ llm' \in {llm, NoRuntime}
        /\ UNCHANGED <<env, provider, up, with, saved, docs, counts, probed, missed>>
    BY <1>1 DEF RemoveContainer
  <2>2. command.ok
    BY <2>1, Working DEF HostInv
  <2>3. LlmTyped' /\ (llm'.state = "running" => llm.state = "running")
    BY <2>1, NoRuntimeTyped DEF HostInv, InstallationTypeOK, LlmTyped, NoRuntime
  <2> QED
    BY <2>1, <2>2, <2>3, QuietKeeps
<1>2. CASE Down
  <2>1. /\ OneStep("down") /\ Proceed /\ (Stopped(up) \/ StopFails(up))
        /\ UNCHANGED <<env, provider, llm, saved, docs, counts, probed, missed>>
    BY <1>2 DEF Down
  <2>2. command.ok
    BY <2>1, Working DEF HostInv
  <2>3. LlmTyped'
    BY <2>1 DEF HostInv, InstallationTypeOK, LlmTyped
  <2> QED
    BY <2>1, <2>2, <2>3, QuietKeeps, StopTypes
<1> QED
  BY <1>1, <1>2

LEMMA WipeKeeps ==
  ASSUME HostInv, WipeRuntime
  PROVE  HostInv'
<1>1. /\ OneStep("wipe") /\ Proceed /\ llm' \in {llm, NoRuntime}
      /\ saved' = [saved EXCEPT !.active = Absent, !.pending = Absent, !.emb = "none"]
      /\ missed' = missed \cup ({"vectors"} \cap Parts)
      /\ UNCHANGED <<env, provider, up, with, docs, counts, probed>>
  BY DEF WipeRuntime, Miss
<1>2. /\ command.todo # <<>> /\ Head(command.todo) = "wipe" /\ Carried /\ PartOf("wipe") = "wipe" /\ command.ok
      /\ missed \subseteq missed' /\ missed' \subseteq Parts
  BY <1>1, Working, PartsOf DEF HostInv, InstallationTypeOK
<1>3. LlmTyped' /\ (llm'.state = "running" => llm.state = "running")
  BY <1>1, NoRuntimeTyped DEF HostInv, InstallationTypeOK, LlmTyped, NoRuntime
<1>4. /\ saved' \in [active : 0..MaxRuntimes, pending : 0..MaxRuntimes, staged : 0..MaxRuntimes,
                     emb : Models \cup {"none"}, plan : OperationModes \cup {"none"}]
      /\ saved'.plan = saved.plan /\ saved'.emb = "none"
  <2>1. Absent \in 0..MaxRuntimes
    BY InstallationAssumption DEF Absent
  <2> QED
    BY <1>1, <2>1 DEF HostInv, InstallationTypeOK
<1>5. Carried' /\ ChangeAllowed' /\ SavesTold' /\ PauseDone'
  BY <1>1, <1>2, Onward DEF HostInv
<1>6. StartDone' /\ ChangeDone'
  BY <1>1, <1>2, <1>5, LastingNext DEF Lasting
<1>7. NginxKept' /\ ModeKept' /\ LoginKept'
  BY <1>1, <1>2, <1>3, <1>4, StartKept
<1>8. SecretsKept' /\ EndpointKept' /\ VectorsOfActive'
  <2>1. Undone("secrets") => Undone("secrets")'
    BY <1>1, <1>2, StillUndone
  <2> QED
    BY <1>1, <1>4, <2>1 DEF SecretsKept, EndpointKept, VectorsOfActive, HostInv, Kept
<1>9. NothingWithoutEnv'
  BY <1>1, <1>2, <1>4, StillWithoutEnv DEF HostInv, Kept, NothingWithoutEnv
<1>10. InstallationTypeOK'
  BY <1>1, <1>2, <1>3, <1>4, <1>5, CommandTypes DEF HostInv, InstallationTypeOK, LlmTyped
<1> QED
  BY <1>5, <1>6, <1>7, <1>8, <1>9, <1>10 DEF HostInv, Kept, Done

LEMMA StopUnaskedFacts ==
  ASSUME HostInv, NEW s \in {"stopNginx", "stopDisabled", "stopExternal", "stopWorkers"}, NEW services,
         StopUnasked(s, services)
  PROVE  /\ OneStep(s) /\ Proceed /\ UNCHANGED <<env, provider, llm, saved, docs, counts, probed>>
         /\ up' \subseteq up /\ with' = with
         /\ \/ up' \cap services = {} /\ missed' = missed \ {PartOf(s)}
            \/ missed' = missed \cup ({PartOf(s)} \cap Parts)
  BY DEF StopUnasked, Stopped, StopFails, Redo, Miss

LEMMA StopNginxKeeps ==
  ASSUME HostInv, StopNginx \/ StopExternal
  PROVE  HostInv'
<1>1. PICK s \in {"stopNginx", "stopExternal"} : StopUnasked(s, {"nginx"})
  BY DEF StopNginx, StopExternal
<1>2. /\ OneStep(s) /\ Proceed /\ UNCHANGED <<env, provider, llm, saved, docs, counts, probed>>
      /\ up' \subseteq up /\ with' = with
      /\ \/ up' \cap {"nginx"} = {} /\ missed' = missed \ {PartOf(s)}
         \/ missed' = missed \cup ({PartOf(s)} \cap Parts)
  BY <1>1, StopUnaskedFacts
<1>3. /\ command.todo # <<>> /\ Head(command.todo) = s /\ Carried /\ PartOf(s) = "nginx" /\ command.ok
  BY <1>2, Working, PartsOf DEF HostInv
<1>4. /\ "nginx" \notin up' \/ "nginx" \in missed'
      /\ missed \ {"nginx"} \subseteq missed' /\ missed' \subseteq Parts
  BY <1>2, <1>3 DEF Parts, HostInv, InstallationTypeOK
<1>5. Carried' /\ ChangeAllowed' /\ SavesTold' /\ PauseDone'
  BY <1>2, <1>3, <1>4, Onward DEF HostInv
<1>6. /\ command'.todo # <<>> /\ Head(command'.todo) = After(s) /\ ToSet(command'.todo) = May(After(s))
      /\ After(s) = IF s = "stopNginx" THEN "stopDisabled" ELSE "upLocal"
  BY <1>2, <1>3, FixedNext DEF FixedHeads, After
<1>7. StartDone'
  BY <1>4, <1>6 DEF StartDone, OneStep, Comes, May
<1>8. ChangeDone'
  BY <1>6, NotChanging
<1>9. NginxKept'
  BY <1>4 DEF NginxKept, Undone
<1>10. ModeKept' /\ LoginKept'
  <2>1. /\ Undone("start") => Undone("start")'
        /\ Undone("login") \/ Undone("start") => Undone("login")' \/ Undone("start")'
    BY <1>2, <1>3, <1>4, StillUndone
  <2> QED
    BY <1>2, <1>4, <2>1 DEF ModeKept, LoginKept, HostInv, Kept
<1>11. SecretsKept' /\ EndpointKept' /\ VectorsOfActive'
  BY <1>2, <1>3, <1>4, RestKept
<1>12. NothingWithoutEnv'
  BY <1>2, <1>3, StillWithoutEnv DEF HostInv, Kept, NothingWithoutEnv
<1>13. InstallationTypeOK'
  BY <1>2, <1>4, <1>5, CommandTypes DEF HostInv, InstallationTypeOK
<1> QED
  BY <1>5, <1>7, <1>8, <1>9, <1>10, <1>11, <1>12, <1>13 DEF HostInv, Kept, Done

LEMMA StopWorkersKeeps ==
  ASSUME HostInv, StopWorkers
  PROVE  HostInv'
<1>1. StopUnasked("stopWorkers", Workers)
  BY DEF StopWorkers
<1>2. /\ OneStep("stopWorkers") /\ Proceed /\ UNCHANGED <<env, provider, llm, saved, docs, counts, probed>>
      /\ up' \subseteq up /\ with' = with
      /\ \/ missed' = missed \ {PartOf("stopWorkers")}
         \/ missed' = missed \cup ({PartOf("stopWorkers")} \cap Parts)
  BY <1>1, StopUnaskedFacts
<1>3. command.ok
  BY <1>2, Working DEF HostInv
<1>4. missed' = missed
  <2>1. PartOf("stopWorkers") = "stopWorkers" /\ "stopWorkers" \notin Parts /\ missed \subseteq Parts
    BY PartsOf DEF HostInv, InstallationTypeOK, Parts
  <2>2. missed \ {"stopWorkers"} = missed /\ missed \cup ({"stopWorkers"} \cap Parts) = missed
    BY <2>1
  <2> QED
    BY <1>2, <2>1, <2>2
<1>5. LlmTyped'
  BY <1>2 DEF HostInv, InstallationTypeOK, LlmTyped
<1> QED
  BY <1>2, <1>3, <1>4, <1>5, QuietKeeps

LEMMA StopDisabledKeeps ==
  ASSUME HostInv, StopDisabled
  PROVE  HostInv'
<1> DEFINE services == Workers \ EnabledServices(SavedOperationMode)
<1>1. StopUnasked("stopDisabled", services)
  BY DEF StopDisabled
<1>2. /\ OneStep("stopDisabled") /\ Proceed /\ UNCHANGED <<env, provider, llm, saved, docs, counts, probed>>
      /\ up' \subseteq up /\ with' = with
      /\ \/ up' \cap services = {} /\ missed' = missed \ {PartOf("stopDisabled")}
         \/ missed' = missed \cup ({PartOf("stopDisabled")} \cap Parts)
  <2> HIDE DEF services
  <2> QED
    BY <1>1, StopUnaskedFacts
<1>3. /\ command.todo # <<>> /\ Head(command.todo) = "stopDisabled" /\ Carried
      /\ PartOf("stopDisabled") = "workers" /\ command.ok
  BY <1>2, Working, PartsOf DEF HostInv
<1>4. env.file # "none"
  BY <1>3 DEF HostInv, Kept, NothingWithoutEnv, WithoutEnv
<1>5. env.mode = "basic" => "documents" \in services
  BY <1>4, SavedMode DEF Workers, EnabledServices
<1> HIDE DEF services
<1>6. /\ env.mode = "basic" => "documents" \notin up' \/ "workers" \in missed'
      /\ missed \ {"workers"} \subseteq missed' /\ missed' \subseteq Parts
  BY <1>2, <1>3, <1>5 DEF Parts, HostInv, InstallationTypeOK
<1>7. Carried' /\ ChangeAllowed' /\ SavesTold' /\ PauseDone'
  BY <1>2, <1>3, <1>6, Onward DEF HostInv
<1>8. /\ command'.todo # <<>> /\ Head(command'.todo) = "up" /\ ToSet(command'.todo) = {"up", "llm", "plan"}
  BY <1>2, <1>3, FixedNext DEF FixedHeads, After, May
<1>9. StartDone'
  <2>1. "nginx" \notin up' \/ "nginx" \in missed'
    BY <1>2, <1>6 DEF HostInv, Done, StartDone
  <2> QED
    BY <1>2, <1>6, <1>8, <2>1 DEF StartDone, OneStep, Comes
<1>10. ChangeDone'
  BY <1>8, NotChanging
<1>11. NginxKept' /\ ModeKept' /\ LoginKept'
  <2>1. /\ Undone("nginx") => Undone("nginx")'
        /\ Undone("start") => Undone("start")'
        /\ Undone("login") \/ Undone("start") => Undone("login")' \/ Undone("start")'
    BY <1>2, <1>3, <1>6, StillUndone
  <2> QED
    BY <1>2, <1>6, <2>1 DEF NginxKept, ModeKept, LoginKept, HostInv, Kept
<1>12. SecretsKept' /\ EndpointKept' /\ VectorsOfActive'
  BY <1>2, <1>3, <1>6, RestKept
<1>13. NothingWithoutEnv'
  BY <1>2, <1>3, StillWithoutEnv DEF HostInv, Kept, NothingWithoutEnv
<1>14. InstallationTypeOK'
  BY <1>2, <1>6, <1>7, CommandTypes DEF HostInv, InstallationTypeOK
<1> QED
  BY <1>7, <1>9, <1>10, <1>11, <1>12, <1>13, <1>14 DEF HostInv, Kept, Done

LEMMA PauseKeeps ==
  ASSUME HostInv, PauseServices
  PROVE  HostInv'
<1>1. /\ OneStep("pause") /\ UNCHANGED <<env, provider, llm, saved, docs, counts, probed>>
      /\ \/ Stopped(up) /\ Proceed /\ missed' = missed \ {"nginx"}
         \/ /\ StopFails(up) /\ missed' = missed \cup (({"nginx"} \cup Unlaunched) \cap Parts)
            /\ command' = [command EXCEPT !.todo = Tail(command.todo), !.ok = FALSE]
  BY DEF PauseServices, Miss, Redo
<1>2. /\ command.todo \in Seq(Steps) /\ command.todo # <<>> /\ Goes(command.todo) /\ Head(command.todo) = "pause"
      /\ Carried /\ PartOf("pause") = "nginx" /\ command.ok
  BY <1>1, Working, PartsOf DEF HostInv
<1>3. up' \subseteq up /\ with' = with
  BY <1>1, StopTypes
<1>4. CASE Stopped(up) /\ Proceed /\ missed' = missed \ {"nginx"}
  <2>1. up' = {}
    BY <1>4 DEF Stopped
  <2>2. Carried' /\ ChangeAllowed' /\ SavesTold' /\ PauseDone'
    BY <1>1, <1>2, <1>4, Onward DEF HostInv
  <2>3. StartDone' /\ ChangeDone'
    BY <1>1, <1>2, <1>4, <2>2, LastingNext DEF Lasting
  <2>4. NginxKept' /\ LoginKept'
    BY <2>1 DEF NginxKept, LoginKept
  <2>5. ModeKept'
    <3>1. Undone("start") => Undone("start")'
      BY <1>2, <1>4, StillUndone
    <3> QED
      BY <1>1, <1>4, <2>1, <3>1 DEF ModeKept, HostInv, Kept
  <2>6. SecretsKept' /\ EndpointKept' /\ VectorsOfActive'
    BY <1>1, <1>2, <1>4, RestKept
  <2>7. NothingWithoutEnv'
    BY <1>1, <1>2, <1>4, <2>1, StillWithoutEnv DEF HostInv, Kept, NothingWithoutEnv
  <2>8. InstallationTypeOK'
    BY <1>1, <1>3, <1>4, <2>2, CommandTypes DEF HostInv, InstallationTypeOK
  <2> QED
    BY <2>2, <2>3, <2>4, <2>5, <2>6, <2>7, <2>8 DEF HostInv, Kept, Done
<1>5. CASE /\ StopFails(up) /\ missed' = missed \cup (({"nginx"} \cup Unlaunched) \cap Parts)
           /\ command' = [command EXCEPT !.todo = Tail(command.todo), !.ok = FALSE]
  <2>1. /\ Tail(command.todo) = <<"pauseLlm">> /\ Tail(command.todo) \in Seq(Steps) /\ Goes(Tail(command.todo))
        /\ ToSet(command.todo) = {"pause"} \cup ToSet(Tail(command.todo)) /\ "pauseLlm" \in Steps
    BY <1>2, GoesAhead DEF Rest, Steps
  <2>2. /\ command' \in Asked /\ command'.todo = <<"pauseLlm">> /\ command'.launch = command.launch
        /\ command'.candidate = command.candidate
    BY <1>2, <1>5, <2>1 DEF Carried, Asked
  <2>3. ToSet(command'.todo) = {"pauseLlm"} /\ Head(command'.todo) = "pauseLlm" /\ command'.todo # <<>>
    BY <2>1, <2>2, ShortHolds, ShortLists
  <2>4. Carried'
    BY <1>2, <2>1, <2>2, <2>3 DEF Carried, Comes, BeforeStart
  <2>5. StartDone' /\ ChangeDone'
    BY <2>3, <2>4, NotBegun DEF Begun
  <2>6. ChangeAllowed' /\ SavesTold' /\ PauseDone'
    BY <1>5, <2>2, <2>3 DEF ChangeAllowed, SavesTold, PauseDone, Comes, ChangeParts, Unlaunched, Parts
  <2>7. /\ \A part \in Parts : Undone(part) => Undone(part)'
        /\ missed' \subseteq Parts /\ missed \subseteq missed'
    <3>1. \A part : part \in Pending => part = "nginx" \/ part \in Pending'
      BY <1>2, <2>1, <2>2 DEF Pending, Unlaunched
    <3>2. missed' \subseteq Parts /\ missed \subseteq missed' /\ "nginx" \in missed'
      BY <1>5 DEF HostInv, InstallationTypeOK, Parts
    <3> QED
      BY <3>1, <3>2 DEF Undone
  <2>8. Kept'
    <3>1. NothingWithoutEnv'
      BY <1>1, <1>2, <1>3, <2>2, <2>3 DEF HostInv, Kept, NothingWithoutEnv, OneStep, Comes, WithoutEnv
    <3>2. NginxKept' /\ ModeKept' /\ LoginKept'
      BY <1>1, <1>3, <2>7 DEF HostInv, Kept, NginxKept, ModeKept, LoginKept, Parts
    <3>3. SecretsKept' /\ EndpointKept' /\ VectorsOfActive'
      BY <1>1, <2>7 DEF HostInv, Kept, SecretsKept, EndpointKept, VectorsOfActive, Parts
    <3> QED
      BY <3>1, <3>2, <3>3 DEF Kept
  <2>9. InstallationTypeOK'
    BY <1>1, <1>3, <2>4, <2>7, CommandTypes DEF HostInv, InstallationTypeOK
  <2> QED
    BY <2>4, <2>5, <2>6, <2>8, <2>9 DEF HostInv, Done
<1> QED
  BY <1>1, <1>4, <1>5

LEMMA PauseLlmKeeps ==
  ASSUME HostInv, PauseLlm
  PROVE  HostInv'
<1>1. /\ OneStep("pauseLlm") /\ IF command.ok THEN Proceed ELSE Quit
      /\ \/ llm' = [llm EXCEPT !.state = IF llm.state = "absent" THEN llm.state ELSE "stopped"]
         \/ llm' = llm
      /\ UNCHANGED <<env, provider, up, with, saved, docs, counts, probed, missed>>
  BY DEF PauseLlm
<1>2. LlmTyped' /\ (llm'.state = "running" => llm.state = "running")
  BY <1>1 DEF HostInv, InstallationTypeOK, LlmTyped
<1>3. CASE command.ok
  BY <1>1, <1>2, <1>3, QuietKeeps
<1>4. CASE ~command.ok
  <2>1. command' = AtRest
    BY <1>1, <1>4 DEF Quit
  <2>2. ToSet(command.todo) = {"pauseLlm"}
    BY <1>1, Working, LastHolds DEF HostInv, LastHeads
  <2>3. \A part \in Parts : Undone(part) => part \in missed'
    <3>1. Pending = {"pauseLlm"} \cup Unlaunched
      BY <2>2, PartsOf DEF Pending
    <3>2. Unlaunched \subseteq missed
      BY <1>4 DEF HostInv, Done, PauseDone
    <3> QED
      BY <1>1, <3>1, <3>2 DEF Undone, Parts
  <2>4. /\ Carried' /\ command'.todo = <<>> /\ ~command'.launch /\ ToSet(command'.todo) = {}
        /\ ChangeAllowed' /\ SavesTold' /\ PauseDone'
    BY <2>1, AtRestCarried
  <2>5. StartDone' /\ ChangeDone'
    BY <2>4, NotBegun
  <2>6. NothingWithoutEnv' /\ NginxKept' /\ ModeKept' /\ LoginKept'
    BY <1>1, <1>2, <2>3, <2>4 DEF HostInv, Kept, NothingWithoutEnv, NginxKept, ModeKept, LoginKept, Undone, Comes, Parts
  <2>7. SecretsKept' /\ EndpointKept' /\ VectorsOfActive'
    BY <1>1, <2>3 DEF HostInv, Kept, SecretsKept, EndpointKept, VectorsOfActive, Undone, Parts
  <2>8. InstallationTypeOK'
    BY <1>1, <1>2, <2>4, CommandTypes DEF HostInv, InstallationTypeOK, LlmTyped
  <2> QED
    BY <2>4, <2>5, <2>6, <2>7, <2>8 DEF HostInv, Kept, Done
<1> QED
  BY <1>3, <1>4

-----------------------------------------------------------------------------
(* Starting the services.                                                   *)

SavedTyped ==
  saved \in [active : 0..MaxRuntimes, pending : 0..MaxRuntimes, staged : 0..MaxRuntimes,
             emb : Models \cup {"none"}, plan : OperationModes \cup {"none"}]

LEMMA EnabledTypes ==
  ASSUME NEW mode
  PROVE  /\ "app" \in EnabledServices(mode) /\ "nginx" \notin EnabledServices(mode)
         /\ DependsOn(EnabledServices(mode)) = EnabledServices(mode) \cup {"embedding"}
         /\ DependsOn(EnabledServices(mode)) \subseteq {"app"} \cup Workers
         /\ "nginx" \notin DependsOn(EnabledServices(mode))
         /\ mode = "basic" => "documents" \notin DependsOn(EnabledServices(mode))
<1>1. "app" \in EnabledServices(mode) /\ "nginx" \notin EnabledServices(mode)
  BY DEF EnabledServices, Workers
<1>2. DependsOn(EnabledServices(mode)) = EnabledServices(mode) \cup {"embedding"}
  BY <1>1 DEF DependsOn
<1> QED
  BY <1>1, <1>2 DEF EnabledServices, Workers

LEMMA UpFailedKeeps ==
  ASSUME HostInv, OneStep("up"), env.file # "none",
         NEW services, services = DependsOn(EnabledServices(env.mode)),
         StartFails(EnabledServices(SavedOperationMode), FALSE), SavedOperationMode = env.mode,
         command' = AtRest, missed' = missed \cup ({"start"} \cap Parts),
         UNCHANGED <<env, provider, llm, saved, docs, counts, probed>>
  PROVE  HostInv'
<1>1. /\ "nginx" \notin services /\ services \subseteq {"app"} \cup Workers
  BY EnabledTypes
<1>2. \/ UNCHANGED <<up, with>>
      \/ \E part \in SUBSET services :
           /\ up' = (up \ services) \cup part
           /\ with' = IF "app" \in part THEN [external |-> FALSE, login |-> env.login] ELSE with
  BY DEF StartFails
<1>3. /\ ToSet(command.todo) = {"up", "llm", "plan"} /\ ~command.launch
  BY Working, FixedHolds DEF HostInv, FixedHeads, May, BeforeStart, ChangeParts
<1>4. "start" \in missed' /\ missed \subseteq missed' /\ missed' \subseteq Parts
  BY DEF HostInv, InstallationTypeOK, Parts
<1>5. \A part \in {"secrets", "endpoint"} : Undone(part) => part \in missed'
  <2>1. Pending = {"start", "llm"}
    BY <1>3, PartsOf DEF Pending, Unlaunched
  <2> QED
    BY <1>4, <2>1 DEF Undone
<1>6. "nginx" \notin up \/ "nginx" \in missed
  BY DEF HostInv, Done, StartDone
<1>7. /\ Carried' /\ command'.todo = <<>> /\ ~command'.launch /\ ToSet(command'.todo) = {}
      /\ ChangeAllowed' /\ SavesTold' /\ PauseDone'
  BY AtRestCarried
<1>8. StartDone' /\ ChangeDone'
  BY <1>7, NotBegun
<1>9. "nginx" \in up' => "nginx" \in up
  BY <1>1, <1>2
<1>10. NothingWithoutEnv' /\ NginxKept' /\ ModeKept' /\ LoginKept'
  BY <1>4, <1>6, <1>9 DEF NothingWithoutEnv, NginxKept, ModeKept, LoginKept, Undone
<1>11. SecretsKept' /\ EndpointKept' /\ VectorsOfActive'
  BY <1>4, <1>5 DEF HostInv, Kept, SecretsKept, EndpointKept, VectorsOfActive, Undone
<1>12. InstallationTypeOK'
  <2>1. up \subseteq {"app", "nginx"} \cup Workers /\ with \in [external : BOOLEAN, login : BOOLEAN]
        /\ env.login \in BOOLEAN
    BY DEF HostInv, InstallationTypeOK
  <2>2. up' \subseteq {"app", "nginx"} \cup Workers
    BY <1>1, <1>2, <2>1
  <2>3. with' \in [external : BOOLEAN, login : BOOLEAN]
    <3>1. with' = with \/ with' = [external |-> FALSE, login |-> env.login]
      BY <1>2
    <3>2. [external |-> FALSE, login |-> env.login] \in [external : BOOLEAN, login : BOOLEAN]
      BY <2>1
    <3> QED
      BY <2>1, <3>1, <3>2
  <2> QED
    BY <1>4, <1>7, <2>2, <2>3, CommandTypes DEF HostInv, InstallationTypeOK
<1> QED
  BY <1>7, <1>8, <1>10, <1>11, <1>12 DEF HostInv, Kept, Done

LEMMA UpKeeps ==
  ASSUME HostInv, Up
  PROVE  HostInv'
<1> DEFINE services == DependsOn(EnabledServices(env.mode))
<1>1. OneStep("up") /\ UNCHANGED <<env, provider, llm, saved, docs, counts, probed>>
  BY DEF Up
<1>2. /\ command.todo # <<>> /\ Head(command.todo) = "up" /\ Carried /\ PartOf("up") = "start" /\ command.ok
  BY <1>1, Working, PartsOf DEF HostInv
<1>3. env.file # "none" /\ SavedOperationMode = env.mode
  <2>1. env.file # "none"
    BY <1>2 DEF HostInv, Kept, NothingWithoutEnv, WithoutEnv
  <2> QED
    BY <2>1, SavedMode
<1>4. CASE StartFails(EnabledServices(SavedOperationMode), FALSE) /\ Quit /\ Miss({"start"})
  BY <1>1, <1>3, <1>4, UpFailedKeeps DEF Quit, Miss
<1>5. CASE StartUp(EnabledServices(SavedOperationMode), FALSE) /\ Proceed /\ UNCHANGED missed
  <2>1. up' = up \cup services /\ with' = [external |-> FALSE, login |-> env.login] /\ missed' = missed
    BY <1>3, <1>5 DEF StartUp
  <2>2. /\ "nginx" \notin services /\ services \subseteq {"app"} \cup Workers
        /\ env.mode = "basic" => "documents" \notin services
    BY EnabledTypes
  <2> HIDE DEF services
  <2>3. Carried' /\ ChangeAllowed' /\ SavesTold' /\ PauseDone'
    BY <1>1, <1>2, <1>5, Onward DEF HostInv
  <2>4. command'.todo # <<>> /\ Head(command'.todo) = "llm" /\ ToSet(command'.todo) = {"llm", "plan"}
    BY <1>1, <1>2, <1>5, FixedNext DEF FixedHeads, After, May
  <2>5. "nginx" \notin up' \/ "nginx" \in missed'
    BY <1>1, <2>1, <2>2 DEF HostInv, Done, StartDone
  <2>6. env.mode = "basic" => "documents" \notin up' \/ "workers" \in missed'
    <3>1. Comes("plan") /\ ~OneStep("stopNginx") /\ ~OneStep("stopDisabled")
      BY <1>1, <1>2, Working DEF Comes, OneStep, Must, May, Free
    <3> QED
      BY <2>1, <2>2, <3>1 DEF HostInv, Done, StartDone
  <2>7. StartDone'
    BY <1>1, <2>1, <2>4, <2>6 DEF StartDone, OneStep, Comes
  <2>8. ChangeDone'
    BY <2>4, NotChanging
  <2>9. Undone("start")'
    BY <2>4, PartsOf DEF Undone, Pending
  <2>10. NothingWithoutEnv' /\ NginxKept' /\ ModeKept' /\ LoginKept'
    BY <1>1, <1>3, <2>5, <2>9 DEF NothingWithoutEnv, NginxKept, ModeKept, LoginKept, Undone
  <2>11. SecretsKept' /\ EndpointKept' /\ VectorsOfActive'
    BY <1>1, <1>2, <1>5, <2>1, RestKept
  <2>12. InstallationTypeOK'
    <3>1. up' \subseteq {"app", "nginx"} \cup Workers /\ with' \in [external : BOOLEAN, login : BOOLEAN]
      BY <2>1, <2>2 DEF HostInv, InstallationTypeOK
    <3> QED
      BY <1>1, <2>1, <2>3, <3>1, CommandTypes DEF HostInv, InstallationTypeOK
  <2> QED
    BY <2>3, <2>7, <2>8, <2>10, <2>11, <2>12 DEF HostInv, Kept, Done
<1> QED
  BY <1>4, <1>5 DEF Up

(* What the start has achieved when it comes to the language model.         *)
LEMMA AtLlm ==
  ASSUME HostInv, NEW s \in {"llm", "detect", "apply", "plan"}, OneStep(s)
  PROVE  /\ command.todo \in Seq(Steps) /\ command.todo # <<>> /\ Goes(command.todo) /\ Head(command.todo) = s
         /\ command.ok /\ Carried /\ ~command.launch
         /\ ToSet(command.todo) \subseteq {"llm", "detect", "apply", "plan"}
         /\ s \in {"llm", "plan"} => env.file # "none" /\ "plan" \in ToSet(command.todo)
         /\ "plan" \in ToSet(command.todo) =>
              /\ env.file # "none" /\ SavedOperationMode = env.mode
              /\ env.mode = "basic" => "workers" \in missed \/ "documents" \notin up
              /\ "app" \in up => with.login = env.login
              /\ s \in {"detect", "apply"} => env.mode = "rag"
<1>1. /\ command.todo \in Seq(Steps) /\ command.todo # <<>> /\ Goes(command.todo) /\ Head(command.todo) = s
      /\ command.ok /\ Carried /\ ~command.launch
      /\ Must(s) \subseteq ToSet(command.todo) /\ ToSet(command.todo) \subseteq May(s)
  BY Working DEF HostInv, BeforeStart, ChangeParts
<1>2. /\ ToSet(command.todo) \subseteq {"llm", "detect", "apply", "plan"}
      /\ s \in {"llm", "plan"} => "plan" \in ToSet(command.todo)
  BY <1>1 DEF Must, May, Free
<1>3. "plan" \in ToSet(command.todo) => env.file # "none"
  BY DEF HostInv, Kept, NothingWithoutEnv, Comes
<1>4. "plan" \in ToSet(command.todo) =>
              /\ env.mode = "basic" => "workers" \in missed \/ "documents" \notin up
              /\ "app" \in up => with.login = env.login
              /\ s \in {"detect", "apply"} => env.mode = "rag"
  BY <1>1, <1>2 DEF HostInv, Done, StartDone, Comes, OneStep
<1> QED
  BY <1>1, <1>2, <1>3, <1>4, SavedMode

(* A step about the language model that goes on.                            *)
LEMMA LlmKeeps ==
  ASSUME HostInv, NEW s \in {"llm", "detect", "apply"}, OneStep(s), Proceed,
         UNCHANGED <<env, provider, up, with, docs, counts, probed>>,
         missed \ {s} \subseteq missed', missed' \subseteq Parts, LlmTyped', SavedTyped',
         saved'.plan = saved.plan, saved'.emb = saved.emb,
         \/ env.file # "none" /\ env.mode = "rag"
         \/ "llm" \in missed' \/ llm'.state # "running"
         \/ s = "detect" /\ llm' = llm
  PROVE  HostInv'
<1>1. /\ command.todo \in Seq(Steps) /\ command.todo # <<>> /\ Goes(command.todo) /\ Head(command.todo) = s
      /\ command.ok /\ Carried /\ ~command.launch
      /\ ToSet(command.todo) \subseteq {"llm", "detect", "apply", "plan"}
      /\ s = "llm" => env.file # "none" /\ "plan" \in ToSet(command.todo)
      /\ "plan" \in ToSet(command.todo) =>
              /\ env.file # "none" /\ SavedOperationMode = env.mode
              /\ env.mode = "basic" => "workers" \in missed \/ "documents" \notin up
              /\ "app" \in up => with.login = env.login
              /\ s \in {"detect", "apply"} => env.mode = "rag"
  BY AtLlm
<1>2. PartOf(s) = s
  BY PartsOf
<1>3. Carried' /\ ChangeAllowed' /\ SavesTold' /\ PauseDone'
  BY <1>1, Onward DEF HostInv
<1>4. /\ command'.todo # <<>> => Head(command'.todo) \in {"plan", "apply"}
      /\ ToSet(command'.todo) \subseteq ToSet(command.todo)
  <2>1. CASE Tail(command.todo) = <<>>
    <3>1. command' = AtRest
      BY <1>1, <2>1, Proceeded
    <3> QED
      BY <3>1, AtRestCarried
  <2>2. CASE Tail(command.todo) # <<>>
    <3>1. command'.todo = Tail(command.todo)
      BY <1>1, <2>2, NextStep
    <3>2. ToSet(command'.todo) \subseteq ToSet(command.todo)
      BY <1>1, <3>1, GoesAhead
    <3>3. Head(Tail(command.todo)) \in {"plan", "apply"}
      <4>1. CASE s = "llm"
        BY <1>1, <4>1, GoesAhead DEF FixedHeads, After
      <4>2. CASE s \in {"detect", "apply"}
        BY <1>1, <2>2, <4>2, FreeHolds DEF Free
      <4> QED
        BY <4>1, <4>2
    <3> QED
      BY <3>1, <3>2, <3>3
  <2> QED
    BY <2>1, <2>2
<1>5. "workers" \in missed => "workers" \in missed'
  OBVIOUS
<1>6. ChangeDone'
  BY <1>4, NotChanging
<1>7. StartDone'
  <2>1. OneStep("plan")' \/ Comes("plan")' => "plan" \in ToSet(command.todo)
    <3>1. OneStep("plan")' => "plan" \in ToSet(command'.todo)
      <4>1. command'.todo \in Seq(Steps) /\ Goes(command'.todo)
        BY <1>3 DEF Carried, Asked
      <4> QED
        BY <4>1, GoesAhead DEF OneStep
    <3> QED
      BY <1>4, <3>1 DEF Comes
  <2>2. OneStep("plan")' => env.mode = "rag" \/ "llm" \in missed' \/ llm'.state # "running"
    <3>1. s = "detect" => ~OneStep("plan")'
      BY <1>1, <1>3, FreeHolds, NextStep DEF Free, OneStep
    <3> QED
      BY <3>1
  <2>3. Comes("plan")' /\ (OneStep("detect")' \/ OneStep("apply")') => env.mode = "rag"
    <3>1. CASE s = "llm"
      BY <1>1, <3>1, FixedNext DEF OneStep, FixedHeads, After
    <3> QED
      BY <1>1, <2>1, <3>1
  <2>4. ~OneStep("stopDisabled")' /\ ~OneStep("up")' /\ ~OneStep("upLocal")'
    BY <1>4 DEF OneStep
  <2> QED
    BY <1>1, <1>5, <2>1, <2>2, <2>3, <2>4 DEF StartDone
<1>8. /\ Undone("nginx") => Undone("nginx")'
      /\ Undone("start") => Undone("start")'
      /\ Undone("login") \/ Undone("start") => Undone("login")' \/ Undone("start")'
      /\ Undone("secrets") => Undone("secrets")'
      /\ Undone("endpoint") => Undone("endpoint")'
  BY <1>1, <1>2, StillUndone
<1>9. NginxKept' /\ LoginKept'
  BY <1>8 DEF NginxKept, LoginKept, HostInv, Kept
<1>10. ModeKept'
  <2>1. saved.plan = env.mode => env.file # "none"
    BY DEF HostInv, Kept, NothingWithoutEnv, InstallationTypeOK, OperationModes
  <2>2. saved.plan = env.mode /\ ~Undone("start") =>
          /\ env.mode # "rag" /\ "llm" \notin missed => llm.state # "running"
          /\ env.mode = "basic" /\ "workers" \notin missed => "documents" \notin up
    BY DEF HostInv, Kept, ModeKept
  <2>3. s = "detect" => ("llm" \in missed => "llm" \in missed')
    OBVIOUS
  <2> QED
    BY <1>5, <1>8, <2>1, <2>2, <2>3 DEF ModeKept
<1>11. SecretsKept' /\ EndpointKept' /\ VectorsOfActive'
  <2>1. "vectors" \in missed => "vectors" \in missed'
    OBVIOUS
  <2> QED
    BY <1>8, <2>1 DEF SecretsKept, EndpointKept, VectorsOfActive, HostInv, Kept
<1>12. NothingWithoutEnv'
  BY <1>1, StillWithoutEnv DEF HostInv, Kept, NothingWithoutEnv
<1>13. InstallationTypeOK'
  BY <1>3, CommandTypes DEF HostInv, InstallationTypeOK, LlmTyped, SavedTyped
<1> QED
  BY <1>3, <1>6, <1>7, <1>9, <1>10, <1>11, <1>12, <1>13 DEF HostInv, Kept, Done


LEMMA AppliedTypes ==
  ASSUME HostInv, NEW gen \in 0..MaxRuntimes, Applied(gen)
  PROVE  LlmTyped' /\ SavedTyped' /\ saved'.plan = saved.plan /\ saved'.emb = saved.emb
<1>1. LlmTyped /\ SavedTyped
  BY DEF HostInv, InstallationTypeOK, LlmTyped, SavedTyped
<1>2. CASE llm' = [state |-> "running", gen |-> gen] /\ saved' = [saved EXCEPT !.active = gen]
  BY <1>1, <1>2 DEF LlmTyped, SavedTyped
<1>3. CASE llm.state # "absent" /\ llm' = [llm EXCEPT !.state = "running"] /\ UNCHANGED saved
  BY <1>1, <1>3 DEF LlmTyped, SavedTyped
<1>4. CASE llm' = NoRuntime /\ UNCHANGED saved
  BY <1>1, <1>4, NoRuntimeTyped DEF LlmTyped, SavedTyped
<1> QED
  BY <1>2, <1>3, <1>4 DEF Applied

LEMMA MissedLlm ==
  ASSUME HostInv, missed' = missed \/ missed' = missed \cup ({"llm"} \cap Parts) \/ missed' = missed \ {"llm"}
  PROVE  missed' \subseteq Parts /\ missed \ {"llm"} \subseteq missed'
  BY DEF HostInv, InstallationTypeOK

LEMMA SetUpKeeps ==
  ASSUME HostInv, SetUpRuntime
  PROVE  HostInv'
<1>1. OneStep("llm") /\ UNCHANGED <<env, provider, up, with, llm, saved, docs, probed, counts>>
  BY DEF SetUpRuntime, hostVars
<1>2. /\ command.todo \in Seq(Steps) /\ command.todo # <<>> /\ Goes(command.todo) /\ Head(command.todo) = "llm"
      /\ command.ok /\ Carried /\ ~command.launch /\ env.file # "none" /\ SavedOperationMode = env.mode
      /\ env.mode = "basic" => "workers" \in missed \/ "documents" \notin up
      /\ "app" \in up => with.login = env.login
  BY <1>1, AtLlm
<1>3. LlmTyped' /\ SavedTyped'
  BY <1>1 DEF HostInv, InstallationTypeOK, LlmTyped, SavedTyped
<1>4. CASE SavedOperationMode # "rag" /\ Miss({"llm"}) /\ Proceed
  <2>1. missed' = missed \cup ({"llm"} \cap Parts) /\ "llm" \in missed'
    BY <1>4 DEF Miss, Parts
  <2> QED
    BY <1>1, <1>3, <1>4, <2>1, MissedLlm, LlmKeeps
<1>5. CASE /\ SavedOperationMode = "rag" /\ UNCHANGED missed
           /\ command' = [command EXCEPT !.todo = <<"detect", "apply", "plan">>]
  <2> DEFINE t == <<"detect", "apply", "plan">>
  <2>1. t \in Seq(Steps) /\ t # <<>> /\ Head(t) = "detect" /\ Goes(t)
    <3>1. {"detect", "apply", "plan"} \subseteq Steps
      BY DEF Steps
    <3>2. t \in Seq(Steps) /\ t # <<>> /\ Head(t) = "detect" /\ Tail(t) = <<"apply", "plan">>
      BY <3>1
    <3>3. Tail(t) \in Rest("detect")
      BY <3>2 DEF Rest
    <3> QED
      BY <3>1, <3>2, <3>3 DEF Goes
  <2>2. Tail(t) = <<"apply", "plan">>
    OBVIOUS
  <2>3. ToSet(t) = {"detect", "apply", "plan"}
    <3>1. ToSet(t) = {"detect"} \cup ToSet(<<"apply", "plan">>)
      <4> HIDE DEF t
      <4> QED
        BY <2>1, <2>2, Ahead
    <3>2. ToSet(<<"apply", "plan">>) = {"apply"} \cup ToSet(<<"plan">>)
      <4> DEFINE q == <<"apply", "plan">>
      <4>1. {"apply", "plan"} \subseteq Steps
        BY DEF Steps
      <4>2. q \in Seq(Steps) /\ q # <<>> /\ Head(q) = "apply" /\ Tail(q) = <<"plan">>
        BY <4>1
      <4> HIDE DEF q
      <4>3. ToSet(q) = {"apply"} \cup ToSet(<<"plan">>)
        BY <4>2, Ahead
      <4> QED
        BY <4>3 DEF q
    <3>3. ToSet(<<"plan">>) = {"plan"}
      BY ShortHolds DEF Steps
    <3> QED
      BY <3>1, <3>2, <3>3
  <2>4. command' = [command EXCEPT !.todo = t]
    BY <1>5
  <2> HIDE DEF t
  <2>5. GoesOnWith(t, FALSE)
    BY <1>2, <2>1, <2>4 DEF GoesOnWith, Carried, Asked
  <2>6. Carried'
    BY <1>2, <2>1, <2>3, <2>5 DEF GoesOnWith, Carried, Comes
  <2>7. StartDone'
    BY <1>1, <1>2, <1>5, <2>1, <2>3, <2>5 DEF StartDone, GoesOnWith, OneStep, Comes
  <2>8. ChangeDone'
    BY <2>1, <2>5, NotChanging DEF GoesOnWith
  <2>9. ChangeAllowed' /\ SavesTold' /\ PauseDone'
    BY <1>2, <2>3, <2>5 DEF ChangeAllowed, SavesTold, PauseDone, GoesOnWith, Comes, ChangeParts
  <2>10. /\ \A part \in Parts \ {"llm"} : Undone(part) => Undone(part)'
         /\ "llm" \in missed => "llm" \in missed'
    <3>1. ToSet(command.todo) = {"llm", "plan"}
      BY <1>2, FixedHolds DEF FixedHeads, May
    <3>2. \A part : part \in Pending => part = "llm" \/ part = "start"
      BY <1>2, <3>1, PartsOf DEF Pending, Unlaunched
    <3>3. "start" \in Pending'
      BY <2>3, <2>5, PartsOf DEF Pending, GoesOnWith
    <3> QED
      BY <1>5, <3>2, <3>3 DEF Undone
  <2>11. Kept'
    BY <1>1, <1>2, <1>5, <2>10 DEF HostInv, Kept, NothingWithoutEnv, NginxKept, ModeKept, LoginKept, SecretsKept,
         EndpointKept, VectorsOfActive, Parts
  <2>12. InstallationTypeOK'
    BY <1>1, <1>5, <2>6, CommandTypes DEF HostInv, InstallationTypeOK
  <2> QED
    BY <2>6, <2>7, <2>8, <2>9, <2>11, <2>12 DEF HostInv, Done
<1> QED
  BY <1>4, <1>5 DEF SetUpRuntime

LEMMA RuntimeKeeps ==
  ASSUME HostInv, StartRuntime \/ StopRuntime
  PROVE  HostInv'
<1>1. OneStep("llm") /\ Proceed /\ UNCHANGED <<env, provider, up, with, docs, counts, probed>>
  BY DEF StartRuntime, StopRuntime
<1>2. env.file # "none" /\ SavedOperationMode = env.mode
  BY <1>1, AtLlm
<1>3. LlmTyped /\ SavedTyped
  BY DEF HostInv, InstallationTypeOK, LlmTyped, SavedTyped
<1>4. CASE StartRuntime
  <2>1. /\ SavedOperationMode = "rag" /\ missed' = missed
        /\ IF saved.active = Absent THEN UNCHANGED <<llm, saved>>
           ELSE IF command.runtime = "rebuild" THEN Applied(saved.active) ELSE Resumed(saved.active)
    BY <1>4 DEF StartRuntime
  <2>2. saved.active \in 0..MaxRuntimes
    BY <1>3 DEF SavedTyped
  <2>3. LlmTyped' /\ SavedTyped' /\ saved'.plan = saved.plan /\ saved'.emb = saved.emb
    <3>1. CASE UNCHANGED <<llm, saved>>
      BY <1>3, <3>1 DEF LlmTyped, SavedTyped
    <3>2. CASE Applied(saved.active)
      BY <2>2, <3>2, AppliedTypes
    <3>3. CASE Resumed(saved.active)
      <4>1. saved' = saved
        BY <3>3 DEF Resumed
      <4>2. llm' = [state |-> "running", gen |-> saved.active] \/ llm' = llm \/ llm' = NoRuntime
        BY <3>3 DEF Resumed
      <4>3. LlmTyped'
        BY <1>3, <2>2, <4>2, NoRuntimeTyped DEF LlmTyped
      <4> QED
        BY <1>3, <4>1, <4>3 DEF SavedTyped
    <3> QED
      BY <2>1, <3>1, <3>2, <3>3
  <2> QED
    BY <1>1, <1>2, <2>1, <2>3, LlmKeeps, MissedLlm
<1>5. CASE StopRuntime
  <2>1. /\ saved' = saved
        /\ \/ llm.state = "running" /\ llm' = llm /\ missed' = missed \cup ({"llm"} \cap Parts)
           \/ /\ llm' = [llm EXCEPT !.state = IF llm.state = "absent" THEN llm.state ELSE "stopped"]
              /\ missed' = missed \ {"llm"}
    BY <1>5 DEF StopRuntime, Miss, Redo
  <2>2. LlmTyped' /\ SavedTyped'
    BY <1>3, <2>1 DEF LlmTyped, SavedTyped
  <2>3. "llm" \in missed' \/ llm'.state # "running"
    <3>1. "llm" \in Parts
      BY DEF Parts
    <3> QED
      BY <1>3, <2>1, <3>1 DEF LlmTyped
  <2> QED
    BY <1>1, <2>1, <2>2, <2>3, LlmKeeps, MissedLlm
<1> QED
  BY <1>4, <1>5

LEMMA ApplyKeeps ==
  ASSUME HostInv, ApplyPending
  PROVE  HostInv'
<1>1. /\ OneStep("apply") /\ Proceed /\ Applied(saved.pending)
      /\ IF SavedOperationMode = "rag" THEN missed' = missed ELSE missed' = missed \cup ({"llm"} \cap Parts)
      /\ UNCHANGED <<env, provider, up, with, docs, counts, probed>>
  BY DEF ApplyPending, Miss
<1>2. saved.pending \in 0..MaxRuntimes
  BY DEF HostInv, InstallationTypeOK
<1>3. \/ env.file # "none" /\ env.mode = "rag"
      \/ "llm" \in missed'
  <2>1. "llm" \in Parts
    BY DEF Parts
  <2> QED
    BY <1>1, <2>1, SavedMode
<1>4. LlmTyped' /\ SavedTyped' /\ saved'.plan = saved.plan /\ saved'.emb = saved.emb
  BY <1>1, <1>2, AppliedTypes
<1>5. missed' \subseteq Parts /\ missed \ {"apply"} \subseteq missed'
  BY <1>1 DEF HostInv, InstallationTypeOK
<1> QED
  BY <1>1, <1>3, <1>4, <1>5, LlmKeeps

LEMMA DetectKeeps ==
  ASSUME HostInv, DetectRuntime
  PROVE  HostInv'
<1>1. OneStep("detect") /\ UNCHANGED <<env, provider, up, with, docs, counts, probed, missed>>
  BY DEF DetectRuntime
<1>2. LlmTyped /\ SavedTyped
  BY DEF HostInv, InstallationTypeOK, LlmTyped, SavedTyped
<1>3. ASSUME NEW gen \in 1..MaxRuntimes, Detected(gen, Proceed)
      PROVE  HostInv'
  <2>1. /\ Proceed /\ llm' = llm
        /\ saved' = saved \/ saved' = [saved EXCEPT !.staged = gen, !.pending = gen]
    BY <1>3 DEF Detected
  <2>2. gen \in 0..MaxRuntimes
    BY InstallationAssumption
  <2>3. LlmTyped' /\ SavedTyped' /\ saved'.plan = saved.plan /\ saved'.emb = saved.emb
    BY <1>2, <2>1, <2>2 DEF LlmTyped, SavedTyped
  <2>4. missed' \subseteq Parts /\ missed \ {"detect"} \subseteq missed'
    BY <1>1 DEF HostInv, InstallationTypeOK
  <2> QED
    BY <1>1, <2>1, <2>3, <2>4, LlmKeeps
<1>4. CASE Quit /\ UNCHANGED <<llm, saved>>
  <2>1. /\ command.todo \in Seq(Steps) /\ command.todo # <<>> /\ Goes(command.todo) /\ Head(command.todo) = "detect"
        /\ Carried /\ ~command.launch /\ ToSet(command.todo) \subseteq {"llm", "detect", "apply", "plan"}
        /\ "plan" \in ToSet(command.todo) =>
             /\ env.file # "none" /\ ("app" \in up => with.login = env.login) /\ env.mode = "rag"
    BY <1>1, AtLlm
  <2>2. /\ Carried' /\ command'.todo = <<>> /\ ~command'.launch /\ ToSet(command'.todo) = {}
        /\ ChangeAllowed' /\ SavesTold' /\ PauseDone'
    BY <1>4, AtRestCarried DEF Quit
  <2>3. StartDone' /\ ChangeDone'
    BY <2>2, NotBegun
  <2>4. /\ \A part \in {"nginx", "secrets", "endpoint", "login"} : Undone(part) => part \in missed'
        /\ "plan" \notin ToSet(command.todo) => (Undone("start") => "start" \in missed')
    <3>1. \A part : part \in Pending =>
             part \in {"llm", "detect", "apply"} \/ (part = "start" /\ "plan" \in ToSet(command.todo))
      BY <2>1, PartsOf DEF Pending, Unlaunched
    <3> QED
      BY <1>1, <3>1 DEF Undone
  <2>5. NothingWithoutEnv'
    BY <1>1, <1>4, <2>2 DEF HostInv, Kept, NothingWithoutEnv, Comes
  <2>6. NginxKept' /\ SecretsKept' /\ EndpointKept' /\ VectorsOfActive'
    BY <1>1, <1>4, <2>4 DEF HostInv, Kept, NginxKept, SecretsKept, EndpointKept, VectorsOfActive, Undone
  <2>7. ModeKept' /\ LoginKept'
    <3>1. CASE "plan" \in ToSet(command.todo)
      BY <1>1, <2>1, <3>1 DEF ModeKept, LoginKept
    <3>2. CASE "plan" \notin ToSet(command.todo)
      BY <1>1, <1>4, <2>4, <3>2 DEF HostInv, Kept, ModeKept, LoginKept, Undone
    <3> QED
      BY <3>1, <3>2
  <2>8. InstallationTypeOK'
    BY <1>1, <1>4, <2>2, CommandTypes DEF HostInv, InstallationTypeOK
  <2> QED
    BY <2>2, <2>3, <2>5, <2>6, <2>7, <2>8 DEF HostInv, Kept, Done
<1> QED
  BY <1>3, <1>4 DEF DetectRuntime

LEMMA PlanKeeps ==
  ASSUME HostInv, WritePlan
  PROVE  HostInv'
<1>1. /\ OneStep("plan") /\ Proceed /\ saved' = [saved EXCEPT !.plan = SavedOperationMode]
      /\ missed' = missed \ {"start", "login"}
      /\ UNCHANGED <<env, provider, up, with, llm, docs, counts, probed>>
  BY DEF WritePlan, Redo
<1>2. /\ command.todo \in Seq(Steps) /\ command.todo # <<>> /\ Goes(command.todo) /\ Head(command.todo) = "plan"
      /\ Carried /\ ~command.launch /\ env.file # "none" /\ SavedOperationMode = env.mode
      /\ env.mode = "basic" => "workers" \in missed \/ "documents" \notin up
      /\ "app" \in up => with.login = env.login
  BY <1>1, AtLlm
<1>3. Tail(command.todo) = <<>> /\ ToSet(command.todo) = {"plan"}
  BY <1>2, GoesAhead, LastHolds DEF LastHeads
<1>4. command' = AtRest
  BY <1>1, <1>2, <1>3, Proceeded
<1>5. /\ Carried' /\ command'.todo = <<>> /\ ~command'.launch /\ ToSet(command'.todo) = {}
      /\ ChangeAllowed' /\ SavesTold' /\ PauseDone'
  BY <1>4, AtRestCarried
<1>6. StartDone' /\ ChangeDone'
  BY <1>5, NotBegun
<1>7. /\ SavedTyped' /\ saved'.emb = saved.emb
  BY <1>1, SavedMode DEF HostInv, InstallationTypeOK, SavedTyped
<1>8. \A part \in {"nginx", "secrets", "endpoint"} : Undone(part) => part \in missed'
  <2>1. Pending = {"start"}
    BY <1>2, <1>3, PartsOf DEF Pending, Unlaunched
  <2> QED
    BY <1>1, <2>1 DEF Undone
<1>9. env.mode # "rag" => "llm" \in missed \/ llm.state # "running"
  BY <1>1 DEF HostInv, Done, StartDone
<1>10. NothingWithoutEnv' /\ ModeKept' /\ LoginKept'
  BY <1>1, <1>2, <1>9 DEF NothingWithoutEnv, ModeKept, LoginKept
<1>11. NginxKept' /\ SecretsKept' /\ EndpointKept' /\ VectorsOfActive'
  BY <1>1, <1>7, <1>8 DEF HostInv, Kept, NginxKept, SecretsKept, EndpointKept, VectorsOfActive, Undone
<1>12. InstallationTypeOK'
  BY <1>1, <1>5, <1>7, CommandTypes DEF HostInv, InstallationTypeOK, SavedTyped
<1> QED
  BY <1>5, <1>6, <1>10, <1>11, <1>12 DEF HostInv, Kept, Done

-----------------------------------------------------------------------------
(* The change of the embedding model.                                       *)

LEMMA AtChange ==
  ASSUME HostInv, NEW s \in {"compare", "ask", "halt", "change", "recreate"}, OneStep(s)
  PROVE  /\ command.todo \in Seq(Steps) /\ command.todo # <<>> /\ Goes(command.todo) /\ Head(command.todo) = s
         /\ command.ok /\ Carried /\ ToSet(command.todo) = May(s)
         /\ ToSet(command.todo) \subseteq {"compare", "ask", "halt", "change", "recreate"}
         /\ env.file # "none" /\ env.mode # "basic" /\ SavedOperationMode = env.mode
         /\ command.candidate.model \in Models
         /\ command.candidate.url = "none" => command.candidate.model \in Catalog
         /\ s # "recreate" => command.candidate.url = "none" \/ env.url = command.candidate.url
         /\ s # "recreate" => Tail(command.todo) # <<>>
         /\ Endpoint(command.candidate) \subseteq Endpoints
<1>1. /\ command.todo \in Seq(Steps) /\ command.todo # <<>> /\ Goes(command.todo) /\ Head(command.todo) = s
      /\ command.ok /\ Carried /\ s \in ToSet(command.todo)
  BY Working DEF HostInv
<1>2. ToSet(command.todo) = May(s)
  BY <1>1, FixedHolds, LastHolds DEF FixedHeads, LastHeads
<1>3. May(s) \subseteq {"compare", "ask", "halt", "change", "recreate"}
  BY DEF May
<1>4. env.file # "none" /\ env.mode # "basic"
  BY <1>1, <1>2, <1>3 DEF HostInv, Done, ChangeAllowed, Comes, ChangeParts
<1>5. command.candidate \in Candidates
  BY <1>1 DEF Carried, Asked
<1>6. /\ command.candidate.model \in Models
      /\ command.candidate.url = "none" => command.candidate.model \in Catalog
  BY <1>5, InstallationAssumption DEF Candidates, Models, EndpointUrls
<1>7. s # "recreate" => command.candidate.url = "none" \/ env.url = command.candidate.url
  BY DEF HostInv, Done, ChangeDone
<1>8. s # "recreate" => Tail(command.todo) # <<>>
  BY <1>1, GoesAhead DEF FixedHeads
<1>9. Endpoint(command.candidate) \subseteq Endpoints
  BY <1>1 DEF Endpoint, Carried
<1> QED
  BY <1>1, <1>2, <1>3, <1>4, <1>6, <1>7, <1>8, <1>9, SavedMode

(* The change ends here: of what was undone only the recreation is dropped. *)
LEMMA ChangeEnds ==
  ASSUME HostInv, NEW s \in {"compare", "ask", "halt"}, OneStep(s), Finish, missed \subseteq missed'
  PROVE  /\ env' = env => Carried' /\ ChangeAllowed' /\ SavesTold' /\ PauseDone'
         /\ env' = env => StartDone' /\ ChangeDone'
         /\ \A part \in {"nginx", "start", "secrets"} : Undone(part) => Undone(part)'
         /\ Undone("login") \/ Undone("start") => Undone("login")' \/ Undone("start")'
<1>1. /\ command.todo # <<>> /\ Head(command.todo) = s /\ command.ok /\ Carried
      /\ ToSet(command.todo) \subseteq {"compare", "ask", "halt", "change", "recreate"}
  BY AtChange
<1>2. env' = env => Carried' /\ ChangeAllowed' /\ SavesTold' /\ PauseDone'
  BY <1>1, Onward DEF HostInv
<1>3. command'.todo = <<>> \/ Head(command'.todo) = "stopNginx"
  BY <1>1, CommandFinished, AtRestCarried, StartIsFive DEF GoesOnWith
<1>4. \A part : part \in Pending => part \in {"compare", "ask", "halt", "change", "endpoint"} \/ part \in Unlaunched
  BY <1>1, PartsOf DEF Pending
<1>5. command.launch => Undone("nginx")' /\ Undone("start")'
  BY <1>1, CommandFinished, LaunchPending
<1>6. env' = env => StartDone' /\ ChangeDone'
  BY <1>2, <1>3, NotBegun DEF Begun
<1>7. \A part \in {"nginx", "start", "secrets", "login"} : Undone(part) => part \in missed \/ (command.launch /\ part \in Unlaunched)
  BY <1>4 DEF Undone, Unlaunched
<1>8. \A part \in {"nginx", "start", "secrets"} : Undone(part) => Undone(part)'
  BY <1>5, <1>7 DEF Undone, Unlaunched
<1>9. Undone("login") \/ Undone("start") => Undone("login")' \/ Undone("start")'
  BY <1>5, <1>7 DEF Undone
<1> QED
  BY <1>2, <1>6, <1>8, <1>9

LEMMA CompareKeeps ==
  ASSUME HostInv, CompareModel
  PROVE  HostInv'
<1>1. /\ OneStep("compare") /\ UNCHANGED <<env, provider, up, with, llm, saved, docs, counts, missed>>
      /\ \/ Proceed /\ probed' = probed
         \/ SameModel /\ Finish /\ probed' = probed \cup Endpoint(command.candidate)
  BY DEF CompareModel
<1>2. /\ command.todo \in Seq(Steps) /\ command.todo # <<>> /\ Goes(command.todo) /\ Head(command.todo) = "compare"
      /\ command.ok /\ Carried /\ env.file # "none"
      /\ command.candidate.url = "none" => command.candidate.model \in Catalog
      /\ command.candidate.url = "none" \/ env.url = command.candidate.url
      /\ Endpoint(command.candidate) \subseteq Endpoints /\ PartOf("compare") = "compare"
  BY <1>1, AtChange, PartsOf
<1>3. CASE Proceed /\ probed' = probed
  <2>1. Carried' /\ ChangeAllowed' /\ SavesTold' /\ PauseDone'
    BY <1>1, <1>2, <1>3, Onward DEF HostInv
  <2>2. command'.todo # <<>> /\ Head(command'.todo) = "ask" /\ command'.candidate = command.candidate
    BY <1>1, <1>2, <1>3, FixedNext DEF FixedHeads, After, GoesOnWith
  <2>3. StartDone'
    BY <2>1, <2>2, NotStarting
  <2>4. ChangeDone'
    BY <1>1, <1>2, <2>2 DEF ChangeDone, OneStep
  <2>5. NginxKept' /\ ModeKept' /\ LoginKept'
    BY <1>1, <1>2, <1>3, StartKept
  <2>6. SecretsKept' /\ EndpointKept' /\ VectorsOfActive'
    BY <1>1, <1>2, <1>3, RestKept
  <2>7. InstallationTypeOK'
    BY <1>1, <1>3, <2>1, CommandTypes DEF HostInv, InstallationTypeOK
  <2>8. NothingWithoutEnv'
    BY <1>1, <1>2 DEF NothingWithoutEnv
  <2> QED
    BY <2>1, <2>3, <2>4, <2>5, <2>6, <2>7, <2>8 DEF HostInv, Kept, Done
<1>4. CASE SameModel /\ Finish /\ probed' = probed \cup Endpoint(command.candidate)
  <2>1. /\ Carried' /\ ChangeAllowed' /\ SavesTold' /\ PauseDone' /\ StartDone' /\ ChangeDone'
        /\ \A part \in {"nginx", "start", "secrets"} : Undone(part) => Undone(part)'
        /\ Undone("login") \/ Undone("start") => Undone("login")' \/ Undone("start")'
    BY <1>1, <1>4, ChangeEnds
  <2>2. EndpointKept'
    <3>1. saved.emb = command.candidate.model
      BY <1>4 DEF SameModel
    <3>2. command.candidate.url # "none" => <<saved.emb, env.url>> \in probed'
      BY <1>2, <1>4, <3>1 DEF Endpoint
    <3> QED
      BY <1>1, <1>2, <3>1, <3>2 DEF EndpointKept
  <2>3. NginxKept' /\ ModeKept' /\ LoginKept' /\ SecretsKept' /\ VectorsOfActive'
    BY <1>1, <2>1 DEF HostInv, Kept, NginxKept, ModeKept, LoginKept, SecretsKept, VectorsOfActive
  <2>4. InstallationTypeOK'
    BY <1>1, <1>2, <1>4, <2>1, CommandTypes DEF HostInv, InstallationTypeOK
  <2>5. NothingWithoutEnv'
    BY <1>1, <1>2 DEF NothingWithoutEnv
  <2> QED
    BY <2>1, <2>2, <2>3, <2>4, <2>5 DEF HostInv, Kept, Done
<1> QED
  BY <1>1, <1>3, <1>4

LEMMA AskKeeps ==
  ASSUME HostInv, AskReembed
  PROVE  HostInv'
<1>1. /\ OneStep("ask") /\ UNCHANGED <<env, provider, up, with, llm, saved, docs, probed, counts>>
      /\ \/ Proceed /\ missed' = missed
         \/ \E skip \in BOOLEAN :
              command' = [command EXCEPT !.todo = Tail(command.todo), !.skip = skip] /\ missed' = missed
         \/ Finish /\ missed' = missed \cup ({"endpoint"} \cap Parts)
  BY DEF AskReembed, hostVars, Miss
<1>2. /\ command.todo \in Seq(Steps) /\ command.todo # <<>> /\ Goes(command.todo) /\ Head(command.todo) = "ask"
      /\ command.ok /\ Carried /\ env.file # "none" /\ Tail(command.todo) # <<>>
      /\ command.candidate.url = "none" \/ env.url = command.candidate.url
      /\ PartOf("ask") = "ask" /\ env.mode # "basic"
      /\ ToSet(command.todo) \subseteq {"compare", "ask", "halt", "change", "recreate"}
  BY <1>1, AtChange, PartsOf
<1>3. NothingWithoutEnv'
  BY <1>1, <1>2 DEF NothingWithoutEnv
<1>4. ASSUME missed' = missed, Carried', ChangeAllowed', SavesTold', PauseDone',
             command'.todo = Tail(command.todo), command'.candidate = command.candidate,
             command'.launch = command.launch
      PROVE  HostInv'
  <2>1. /\ command'.todo # <<>> /\ Head(command'.todo) = "halt"
        /\ ToSet(command.todo) = {"ask"} \cup ToSet(command'.todo)
    BY <1>2, <1>4, GoesAhead DEF FixedHeads, After
  <2>2. StartDone'
    BY <1>4, <2>1, NotStarting
  <2>3. ChangeDone'
    BY <1>1, <1>2, <1>4, <2>1 DEF ChangeDone, OneStep
  <2>4. \A part \in Parts : Undone(part) => Undone(part)'
    <3>1. \A part : part \in Pending => part = "ask" \/ part \in Pending'
      BY <1>2, <1>4, <2>1 DEF Pending, Unlaunched
    <3> QED
      BY <1>4, <3>1 DEF Undone, Parts
  <2>5. NginxKept' /\ ModeKept' /\ LoginKept' /\ SecretsKept' /\ EndpointKept' /\ VectorsOfActive'
    BY <1>1, <1>4, <2>4, ZenonT(60) DEF HostInv, Kept, NginxKept, ModeKept, LoginKept, SecretsKept, EndpointKept,
         VectorsOfActive, Parts
  <2>6. InstallationTypeOK'
    BY <1>1, <1>4, CommandTypes, ZenonT(60) DEF HostInv, InstallationTypeOK
  <2> QED
    BY <1>3, <1>4, <2>2, <2>3, <2>5, <2>6 DEF HostInv, Kept, Done
<1>5. CASE Proceed /\ missed' = missed
  <2>1. Carried' /\ ChangeAllowed' /\ SavesTold' /\ PauseDone'
    BY <1>1, <1>2, <1>5, Onward DEF HostInv
  <2> QED
    BY <1>2, <1>4, <1>5, <2>1, NextStep
<1>6. CASE \E skip \in BOOLEAN :
             command' = [command EXCEPT !.todo = Tail(command.todo), !.skip = skip] /\ missed' = missed
  <2>1. /\ Tail(command.todo) \in Seq(Steps) /\ Goes(Tail(command.todo))
        /\ ToSet(command.todo) = {"ask"} \cup ToSet(Tail(command.todo)) /\ Head(Tail(command.todo)) = "halt"
    BY <1>2, GoesAhead DEF FixedHeads, After
  <2>2. /\ command' \in Asked /\ command'.todo = Tail(command.todo) /\ command'.candidate = command.candidate
        /\ command'.launch = command.launch /\ command'.ok = command.ok
    BY <1>2, <1>6, <2>1 DEF Carried, Asked
  <2>3. Carried'
    BY <1>2, <2>1, <2>2 DEF Carried, Comes, BeforeStart, ChangeParts
  <2>4. ToSet(command'.todo) \subseteq {"compare", "ask", "halt", "change", "recreate"}
    BY <1>2, <2>1, <2>2
  <2>5. ChangeAllowed'
    BY <1>1, <1>2 DEF ChangeAllowed
  <2>6. SavesTold'
    BY <2>4 DEF SavesTold, Comes
  <2>7. PauseDone'
    BY <1>2, <2>2 DEF PauseDone
  <2> QED
    BY <1>4, <1>6, <2>2, <2>3, <2>5, <2>6, <2>7
<1>7. CASE Finish /\ missed' = missed \cup ({"endpoint"} \cap Parts)
  <2>1. missed \subseteq missed' /\ missed' \subseteq Parts /\ "endpoint" \in missed'
    BY <1>7 DEF HostInv, InstallationTypeOK, Parts
  <2>2. /\ Carried' /\ ChangeAllowed' /\ SavesTold' /\ PauseDone' /\ StartDone' /\ ChangeDone'
        /\ \A part \in {"nginx", "start", "secrets"} : Undone(part) => Undone(part)'
        /\ Undone("login") \/ Undone("start") => Undone("login")' \/ Undone("start")'
    BY <1>1, <1>7, <2>1, ChangeEnds
  <2>3. NginxKept' /\ ModeKept' /\ LoginKept' /\ SecretsKept' /\ VectorsOfActive'
    BY <1>1, <2>1, <2>2 DEF HostInv, Kept, NginxKept, ModeKept, LoginKept, SecretsKept, VectorsOfActive
  <2>4. EndpointKept'
    BY <2>1 DEF EndpointKept, Undone
  <2>5. InstallationTypeOK'
    BY <1>1, <2>1, <2>2, CommandTypes, ZenonT(60) DEF HostInv, InstallationTypeOK
  <2> QED
    BY <1>3, <2>2, <2>3, <2>4, <2>5 DEF HostInv, Kept, Done
<1> QED
  BY <1>1, <1>5, <1>6, <1>7

-----------------------------------------------------------------------------
(* Compose starts app, and what it needs.                                   *)

(* Whether or not the start succeeds: who runs, and which sign-in app has.  *)
LEMMA StartedUp ==
  ASSUME InstallationTypeOK, NEW services, NEW external \in BOOLEAN, "app" \in DependsOn(services),
         DependsOn(services) \subseteq {"app", "nginx"} \cup Workers,
         StartUp(services, external) \/ StartFails(services, external)
  PROVE  /\ up' \subseteq {"app", "nginx"} \cup Workers /\ with' \in [external : BOOLEAN, login : BOOLEAN]
         /\ up' \subseteq up \cup DependsOn(services)
         /\ env.file = "none" => up' = up /\ with' = with
         /\ "app" \in up' => with'.login = env.login \/ ("app" \in up /\ with' = with)
<1> DEFINE new == [external |-> external, login |-> env.login]
<1>1. new \in [external : BOOLEAN, login : BOOLEAN] /\ new.login = env.login
  BY DEF InstallationTypeOK
<1>2. up \subseteq {"app", "nginx"} \cup Workers /\ with \in [external : BOOLEAN, login : BOOLEAN]
  BY DEF InstallationTypeOK
<1>3. CASE StartUp(services, external)
  <2>1. env.file # "none" /\ up' = up \cup DependsOn(services) /\ with' = new
    BY <1>3 DEF StartUp
  <2> HIDE DEF new
  <2> QED
    BY <1>1, <1>2, <2>1
<1>4. CASE UNCHANGED <<up, with>>
  BY <1>2, <1>4
<1>5. CASE \E part \in SUBSET DependsOn(services) :
             /\ env.file # "none" /\ up' = (up \ DependsOn(services)) \cup part
             /\ with' = IF "app" \in part THEN new ELSE with
  <2> HIDE DEF new
  <2> QED
    BY <1>1, <1>2, <1>5
<1>6. StartFails(services, external) =>
        \/ UNCHANGED <<up, with>>
        \/ \E part \in SUBSET DependsOn(services) :
             /\ env.file # "none" /\ up' = (up \ DependsOn(services)) \cup part
             /\ with' = IF "app" \in part THEN new ELSE with
  BY DEF StartFails
<1> QED
  BY <1>3, <1>4, <1>5, <1>6

LEMMA WhoIsStarted ==
  /\ DependsOn(Restarted) = {"app"} \cup Workers
  /\ DependsOn({"app"}) = {"app", "embedding"}
  /\ DependsOn({"nginx"}) = {"nginx", "app", "embedding"}
<1>1. "nginx" \notin Restarted /\ Restarted # {} /\ Restarted \cup {"embedding"} = {"app"} \cup Workers
  BY DEF Restarted, Workers
<1>2. DependsOn(Restarted) = {"app"} \cup Workers
  BY <1>1 DEF DependsOn
<1> QED
  BY <1>2 DEF DependsOn

(* The restart that goes with a change of the embedding model.              *)
LEMMA RestartedKeeps ==
  ASSUME HostInv, StartUp(Restarted, FALSE) \/ StartFails(Restarted, FALSE), env.mode # "basic",
         UNCHANGED <<env, llm, saved>>, missed \cup (RestartMisses \cap Parts) \subseteq missed',
         Undone("start") => Undone("start")',
         Undone("login") \/ Undone("start") => Undone("login")' \/ Undone("start")'
  PROVE  /\ NginxKept' /\ ModeKept' /\ LoginKept'
         /\ up' \subseteq {"app", "nginx"} \cup Workers /\ with' \in [external : BOOLEAN, login : BOOLEAN]
<1>1. /\ up' \subseteq {"app", "nginx"} \cup Workers /\ with' \in [external : BOOLEAN, login : BOOLEAN]
      /\ up' \subseteq up \cup ({"app"} \cup Workers)
      /\ "app" \in up' => with'.login = env.login \/ ("app" \in up /\ with' = with)
  <2>1. "app" \in DependsOn(Restarted) /\ DependsOn(Restarted) \subseteq {"app", "nginx"} \cup Workers
    BY WhoIsStarted
  <2> QED
    BY <2>1, StartedUp, WhoIsStarted DEF HostInv
<1>2. NginxKept'
  <2>1. "nginx" \in up' => "nginx" \in up
    BY <1>1 DEF Workers
  <2>2. "nginx" \in up => "nginx" \in missed'
    BY DEF RestartMisses, Parts
  <2> QED
    BY <2>1, <2>2 DEF NginxKept, Undone
<1>3. ModeKept'
  BY DEF HostInv, Kept, ModeKept
<1>4. LoginKept'
  BY <1>1 DEF HostInv, Kept, LoginKept
<1> QED
  BY <1>1, <1>2, <1>3, <1>4

LEMMA HaltKeeps ==
  ASSUME HostInv, HaltPipeline
  PROVE  HostInv'
<1>1. /\ OneStep("halt") /\ UNCHANGED <<env, provider, llm, saved, docs, counts, probed>>
      /\ \/ Stopped(Restarted) /\ Proceed /\ missed' = missed
         \/ /\ StartUp(Restarted, FALSE) \/ StartFails(Restarted, FALSE)
            /\ Finish /\ missed' = missed \cup (({"endpoint"} \cup RestartMisses) \cap Parts)
  BY DEF HaltPipeline, Miss
<1>2. /\ command.todo \in Seq(Steps) /\ command.todo # <<>> /\ Goes(command.todo) /\ Head(command.todo) = "halt"
      /\ command.ok /\ Carried /\ env.file # "none" /\ env.mode # "basic"
      /\ command.candidate.url = "none" \/ env.url = command.candidate.url
      /\ PartOf("halt") = "halt"
  BY <1>1, AtChange, PartsOf
<1>3. NothingWithoutEnv'
  BY <1>1, <1>2 DEF NothingWithoutEnv
<1>4. CASE Stopped(Restarted) /\ Proceed /\ missed' = missed
  <2>1. Carried' /\ ChangeAllowed' /\ SavesTold' /\ PauseDone'
    BY <1>1, <1>2, <1>4, Onward DEF HostInv
  <2>2. command'.todo # <<>> /\ Head(command'.todo) = "change" /\ command'.candidate = command.candidate
    BY <1>1, <1>2, <1>4, FixedNext DEF FixedHeads, After, GoesOnWith
  <2>3. StartDone'
    BY <2>1, <2>2, NotStarting
  <2>4. ChangeDone'
    BY <1>1, <1>2, <2>2 DEF ChangeDone, OneStep
  <2>5. up' \subseteq up /\ with' = with
    BY <1>4 DEF Stopped
  <2>6. NginxKept' /\ ModeKept' /\ LoginKept'
    BY <1>1, <1>2, <1>4, <2>5, StartKept
  <2>7. SecretsKept' /\ EndpointKept' /\ VectorsOfActive'
    BY <1>1, <1>2, <1>4, RestKept
  <2>8. InstallationTypeOK'
    BY <1>1, <1>4, <2>1, <2>5, CommandTypes DEF HostInv, InstallationTypeOK
  <2> QED
    BY <1>3, <2>1, <2>3, <2>4, <2>6, <2>7, <2>8 DEF HostInv, Kept, Done
<1>5. CASE /\ StartUp(Restarted, FALSE) \/ StartFails(Restarted, FALSE)
           /\ Finish /\ missed' = missed \cup (({"endpoint"} \cup RestartMisses) \cap Parts)
  <2>1. /\ missed \subseteq missed' /\ missed' \subseteq Parts /\ "endpoint" \in missed'
        /\ missed \cup (RestartMisses \cap Parts) \subseteq missed'
    BY <1>5 DEF HostInv, InstallationTypeOK, Parts
  <2>2. /\ Carried' /\ ChangeAllowed' /\ SavesTold' /\ PauseDone' /\ StartDone' /\ ChangeDone'
        /\ \A part \in {"nginx", "start", "secrets"} : Undone(part) => Undone(part)'
        /\ Undone("login") \/ Undone("start") => Undone("login")' \/ Undone("start")'
    BY <1>1, <1>5, <2>1, ChangeEnds
  <2>3. /\ NginxKept' /\ ModeKept' /\ LoginKept'
        /\ up' \subseteq {"app", "nginx"} \cup Workers /\ with' \in [external : BOOLEAN, login : BOOLEAN]
    BY <1>1, <1>2, <1>5, <2>1, <2>2, RestartedKeeps
  <2>4. SecretsKept' /\ VectorsOfActive'
    BY <1>1, <2>1, <2>2 DEF HostInv, Kept, SecretsKept, VectorsOfActive
  <2>5. EndpointKept'
    BY <2>1 DEF EndpointKept, Undone
  <2>6. InstallationTypeOK'
    BY <1>1, <2>1, <2>2, <2>3, CommandTypes DEF HostInv, InstallationTypeOK
  <2> QED
    BY <1>3, <2>2, <2>3, <2>4, <2>5, <2>6 DEF HostInv, Kept, Done
<1> QED
  BY <1>1, <1>4, <1>5

(* After the change itself: the restart is still to come.                   *)
LEMMA ChangeMade ==
  ASSUME HostInv, OneStep("change"), Proceed, UNCHANGED <<env, up, with, llm>>, saved'.plan = saved.plan,
         missed \ {"endpoint", "vectors"} \subseteq missed'
  PROVE  /\ Carried' /\ ChangeAllowed' /\ SavesTold' /\ PauseDone' /\ StartDone'
         /\ NothingWithoutEnv' /\ NginxKept' /\ ModeKept' /\ LoginKept' /\ SecretsKept' /\ EndpointKept'
<1>1. /\ command.todo \in Seq(Steps) /\ command.todo # <<>> /\ Goes(command.todo) /\ Head(command.todo) = "change"
      /\ command.ok /\ Carried /\ env.file # "none" /\ Tail(command.todo) # <<>>
      /\ PartOf("change") = "change" /\ PartOf("recreate") = "endpoint"
  BY AtChange, PartsOf
<1>2. Carried' /\ ChangeAllowed' /\ SavesTold' /\ PauseDone'
  BY <1>1, Onward DEF HostInv
<1>3. /\ command'.todo # <<>> /\ Head(command'.todo) = "recreate" /\ command'.todo = Tail(command.todo)
      /\ command'.launch = command.launch /\ ToSet(command'.todo) = {"recreate"}
  <2>1. May("recreate") = {"recreate"}
    BY DEF May
  <2> QED
    BY <1>1, <2>1, FixedNext DEF FixedHeads, After, GoesOnWith
<1>4. ToSet(command.todo) = {"change"} \cup ToSet(command'.todo)
  BY <1>1, <1>3, GoesAhead
<1>5. StartDone'
  BY <1>2, <1>3, NotStarting
<1>6. \A part : part \in Pending => part = "change" \/ part \in Pending'
  BY <1>1, <1>3, <1>4 DEF Pending, Unlaunched
<1>7. \A part \in {"nginx", "start", "secrets", "login"} : Undone(part) => Undone(part)'
  BY <1>6 DEF Undone
<1>8. \A part \in {"llm", "workers"} : part \in missed => part \in missed'
  OBVIOUS
<1>9. NginxKept' /\ ModeKept' /\ LoginKept' /\ SecretsKept'
  BY <1>7, <1>8 DEF HostInv, Kept, NginxKept, ModeKept, LoginKept, SecretsKept
<1>10. EndpointKept'
  BY <1>1, <1>3 DEF EndpointKept, Undone, Pending
<1> QED
  BY <1>1, <1>2, <1>5, <1>9, <1>10 DEF NothingWithoutEnv

LEMMA SucceedsKeeps ==
  ASSUME HostInv, ChangeSucceeds
  PROVE  HostInv'
<1>1. /\ OneStep("change") /\ Proceed /\ UNCHANGED <<env, provider, up, with, llm, counts>>
      /\ saved' = [saved EXCEPT !.emb = command.candidate.model]
      /\ docs' = IF docs = "none" \/ command.skip THEN docs ELSE command.candidate.model
      /\ probed' = probed \cup Endpoint(command.candidate)
      /\ missed' = IF docs # "none" /\ command.skip THEN (missed \ {"endpoint"}) \cup {"vectors"}
                   ELSE missed \ {"endpoint", "vectors"}
  BY DEF ChangeSucceeds, Redo
<1>2. /\ command.candidate.model \in Models
      /\ command.candidate.url = "none" => command.candidate.model \in Catalog
      /\ command.candidate.url = "none" \/ env.url = command.candidate.url
      /\ Endpoint(command.candidate) \subseteq Endpoints
  BY <1>1, AtChange
<1>3. /\ saved' \in [active : 0..MaxRuntimes, pending : 0..MaxRuntimes, staged : 0..MaxRuntimes,
                      emb : Models \cup {"none"}, plan : OperationModes \cup {"none"}]
      /\ saved'.emb = command.candidate.model /\ saved'.plan = saved.plan
  BY <1>1, <1>2 DEF HostInv, InstallationTypeOK
<1>4. missed \ {"endpoint", "vectors"} \subseteq missed' /\ missed' \subseteq Parts
  BY <1>1 DEF HostInv, InstallationTypeOK, Parts
<1>5. /\ Carried' /\ ChangeAllowed' /\ SavesTold' /\ PauseDone' /\ StartDone'
      /\ NothingWithoutEnv' /\ NginxKept' /\ ModeKept' /\ LoginKept' /\ SecretsKept' /\ EndpointKept'
  BY <1>1, <1>3, <1>4, ChangeMade
<1>6. command.candidate.url # "none" => <<saved'.emb, env'.url>> \in probed'
  BY <1>1, <1>2, <1>3 DEF Endpoint
<1>7. ChangeDone'
  <2>1. saved'.emb \in Catalog \/ <<saved'.emb, env'.url>> \in probed'
    BY <1>2, <1>3, <1>6
  <2>2. command'.todo = <<>> \/ Head(command'.todo) \notin {"compare", "ask", "halt", "change"}
    <3>1. command'.todo # <<>> /\ Head(command'.todo) = "recreate"
      BY <1>1, AtChange, FixedNext DEF FixedHeads, After
    <3> QED
      BY <3>1
  <2> QED
    BY <2>1, <2>2 DEF ChangeDone, OneStep
<1>8. VectorsOfActive'
  BY <1>1, <1>3 DEF VectorsOfActive
<1>9. InstallationTypeOK'
  <2>1. docs' \in Models \cup {"none", "mixed"} /\ probed' \subseteq Endpoints
    BY <1>1, <1>2 DEF HostInv, InstallationTypeOK
  <2> QED
    BY <1>1, <1>3, <1>4, <1>5, <2>1, CommandTypes DEF HostInv, InstallationTypeOK
<1> QED
  BY <1>5, <1>7, <1>8, <1>9 DEF HostInv, Kept, Done

LEMMA FailsKeeps ==
  ASSUME HostInv, ChangeFails
  PROVE  HostInv'
<1>1. /\ OneStep("change") /\ Proceed /\ UNCHANGED <<env, provider, up, with, llm, saved, counts, probed>>
      /\ docs' \in {docs, IF docs = "none" THEN docs ELSE "mixed"}
      /\ missed' = missed \cup (({"endpoint"} \cup IF docs' = docs THEN {} ELSE {"vectors"}) \cap Parts)
  BY DEF ChangeFails, Miss
<1>2. /\ missed \subseteq missed' /\ missed' \subseteq Parts /\ "endpoint" \in missed'
      /\ docs' # docs => "vectors" \in missed'
  BY <1>1 DEF HostInv, InstallationTypeOK, Parts
<1>3. /\ Carried' /\ ChangeAllowed' /\ SavesTold' /\ PauseDone' /\ StartDone'
      /\ NothingWithoutEnv' /\ NginxKept' /\ ModeKept' /\ LoginKept' /\ SecretsKept' /\ EndpointKept'
  BY <1>1, <1>2, ChangeMade
<1>4. ChangeDone'
  <2>1. command'.todo # <<>> /\ Head(command'.todo) = "recreate"
    BY <1>1, AtChange, FixedNext DEF FixedHeads, After
  <2> QED
    BY <1>2, <2>1 DEF ChangeDone, OneStep
<1>5. VectorsOfActive'
  BY <1>1, <1>2 DEF HostInv, Kept, VectorsOfActive
<1>6. InstallationTypeOK'
  BY <1>1, <1>2, <1>3, CommandTypes DEF HostInv, InstallationTypeOK
<1> QED
  BY <1>3, <1>4, <1>5, <1>6 DEF HostInv, Kept, Done

LEMMA RecreateKeeps ==
  ASSUME HostInv, Recreate
  PROVE  HostInv'
<1>1. /\ OneStep("recreate") /\ Proceed /\ UNCHANGED <<env, provider, llm, saved, docs, counts, probed>>
      /\ StartUp(Restarted, FALSE) \/ StartFails(Restarted, FALSE)
      /\ missed' = missed \cup (RestartMisses \cap Parts)
  BY DEF Recreate, Miss
<1>2. /\ command.todo \in Seq(Steps) /\ command.todo # <<>> /\ Goes(command.todo)
      /\ Head(command.todo) = "recreate" /\ command.ok /\ Carried /\ env.file # "none" /\ env.mode # "basic"
      /\ PartOf("recreate") = "endpoint"
  BY <1>1, AtChange, PartsOf
<1>3. missed \subseteq missed' /\ missed' \subseteq Parts /\ missed \cup (RestartMisses \cap Parts) \subseteq missed'
  BY <1>1 DEF HostInv, InstallationTypeOK
<1>4. Carried' /\ ChangeAllowed' /\ SavesTold' /\ PauseDone'
  BY <1>1, <1>2, <1>3, Onward DEF HostInv
<1>5. StartDone' /\ ChangeDone'
  <2>1. Tail(command.todo) = <<>>
    BY <1>2, GoesAhead DEF LastHeads
  <2>2. command'.todo = <<>> \/ Head(command'.todo) = "stopNginx"
    BY <1>1, <1>2, <2>1, NextStep
  <2> QED
    BY <1>4, <2>2, NotBegun DEF Begun
<1>6. /\ \A part \in {"nginx", "start", "secrets"} : Undone(part) => Undone(part)'
      /\ Undone("login") \/ Undone("start") => Undone("login")' \/ Undone("start")'
  BY <1>1, <1>2, <1>3, StillUndone
<1>7. /\ NginxKept' /\ ModeKept' /\ LoginKept'
      /\ up' \subseteq {"app", "nginx"} \cup Workers /\ with' \in [external : BOOLEAN, login : BOOLEAN]
  BY <1>1, <1>2, <1>3, <1>6, RestartedKeeps
<1>8. SecretsKept' /\ VectorsOfActive'
  BY <1>1, <1>3, <1>6 DEF HostInv, Kept, SecretsKept, VectorsOfActive
<1>9. EndpointKept'
  BY <1>1, <1>3 DEF HostInv, Done, ChangeDone, EndpointKept, Undone
<1>10. InstallationTypeOK'
  BY <1>1, <1>3, <1>4, <1>7, CommandTypes DEF HostInv, InstallationTypeOK
<1>11. NothingWithoutEnv'
  BY <1>1, <1>2 DEF NothingWithoutEnv
<1> QED
  BY <1>4, <1>5, <1>7, <1>8, <1>9, <1>10, <1>11 DEF HostInv, Kept, Done

-----------------------------------------------------------------------------
(* The external access.                                                     *)

(* What only the external access is about, at its own steps.                *)
LEMMA AtAccess ==
  ASSUME HostInv, NEW s \in {"connect", "upLocal"}, OneStep(s)
  PROVE  /\ command.todo \in Seq(Steps) /\ command.todo # <<>> /\ Goes(command.todo) /\ Head(command.todo) = s
         /\ command.ok /\ Carried /\ ~command.launch /\ Tail(command.todo) = <<>>
         /\ \A part : Undone(part) => part \in missed \/ part \in {"connect", "nginx"}
<1>1. /\ command.todo \in Seq(Steps) /\ command.todo # <<>> /\ Goes(command.todo) /\ Head(command.todo) = s
      /\ command.ok /\ Carried /\ ~command.launch
  BY Working DEF HostInv, BeforeStart, ChangeParts
<1>2. Tail(command.todo) = <<>> /\ ToSet(command.todo) = {s}
  BY <1>1, GoesAhead, LastHolds DEF LastHeads
<1>3. \A part \in Pending : part \in {"connect", "nginx"}
  BY <1>1, <1>2, PartsOf DEF Pending, Unlaunched
<1> QED
  BY <1>1, <1>2, <1>3 DEF Undone

LEMMA ConnectKeeps ==
  ASSUME HostInv, ConnectExternal
  PROVE  HostInv'
<1>1. /\ OneStep("connect") /\ UNCHANGED <<env, provider, llm, saved, docs, counts, probed, missed>>
      /\ \/ StartUp({"nginx"}, TRUE) /\ Proceed
         \/ /\ StartFails({"nginx"}, TRUE)
            /\ command' = [command EXCEPT !.todo = <<"stopExternal", "upLocal">>]
  BY DEF ConnectExternal
<1>2. /\ command.todo # <<>> /\ Head(command.todo) = "connect" /\ command.ok /\ Carried /\ ~command.launch
      /\ Tail(command.todo) = <<>>
      /\ \A part : Undone(part) => part \in missed \/ part \in {"connect", "nginx"}
  BY <1>1, AtAccess
<1>3. env.file # "none"
  BY <1>2 DEF HostInv, Kept, NothingWithoutEnv, WithoutEnv
<1>4. /\ up' \subseteq {"app", "nginx"} \cup Workers /\ with' \in [external : BOOLEAN, login : BOOLEAN]
      /\ up' \subseteq up \cup {"nginx", "app", "embedding"}
      /\ "app" \in up' => with'.login = env.login \/ ("app" \in up /\ with' = with)
  <2>1. "app" \in DependsOn({"nginx"}) /\ DependsOn({"nginx"}) \subseteq {"app", "nginx"} \cup Workers
    BY WhoIsStarted DEF Workers
  <2> QED
    BY <1>1, <2>1, StartedUp, WhoIsStarted DEF HostInv
<1>5. "documents" \in up' => "documents" \in up
  BY <1>4
<1>6. Carried' /\ ChangeAllowed' /\ SavesTold' /\ PauseDone' /\ StartDone' /\ ChangeDone'
      /\ (Undone("nginx")' \/ with'.external)
  <2>1. CASE StartUp({"nginx"}, TRUE) /\ Proceed
    <3>1. command' = AtRest
      BY <1>2, <2>1, Proceeded
    <3>2. command'.todo = <<>> /\ Carried' /\ ChangeAllowed' /\ SavesTold' /\ PauseDone'
      BY <3>1, AtRestCarried
    <3>3. with'.external
      BY <2>1 DEF StartUp
    <3> QED
      BY <3>2, <3>3, NotBegun
  <2>2. CASE command' = [command EXCEPT !.todo = <<"stopExternal", "upLocal">>]
    <3> DEFINE t == <<"stopExternal", "upLocal">>
    <3>1. /\ t \in Seq(Steps) /\ t # <<>> /\ Head(t) = "stopExternal" /\ Tail(t) = <<"upLocal">>
          /\ ToSet(t) = {"stopExternal", "upLocal"}
      <4>1. t \in Seq(Steps) /\ t # <<>> /\ Head(t) = "stopExternal" /\ Tail(t) = <<"upLocal">>
        BY DEF Steps
      <4>2. <<"upLocal">> \in Rest("stopExternal") /\ "stopExternal" \in Steps
        BY DEF Rest, Steps
      <4>3. Goes(t)
        BY <4>1, <4>2 DEF Goes
      <4>4. ToSet(t) = May("stopExternal") /\ May("stopExternal") = {"stopExternal", "upLocal"}
        BY <4>1, <4>3, FixedHolds DEF FixedHeads, May
      <4> QED
        BY <4>1, <4>4
    <3>2. Goes(t)
      BY <3>1 DEF Goes, Rest, Steps
    <3> HIDE DEF t
    <3>3. /\ command' \in Asked /\ command'.todo = t /\ command'.ok /\ ~command'.launch
          /\ command'.candidate = command.candidate
      BY <1>2, <2>2, <3>1 DEF Carried, Asked, t
    <3>4. Carried'
      BY <1>2, <3>1, <3>2, <3>3 DEF Carried, Comes
    <3>5. ChangeAllowed' /\ SavesTold' /\ PauseDone'
      BY <3>1, <3>3 DEF ChangeAllowed, SavesTold, PauseDone, Comes, ChangeParts
    <3>6. StartDone' /\ ChangeDone'
      BY <3>1, <3>3, <3>4, NotBegun DEF Begun
    <3>7. Undone("nginx")'
      BY <3>1, <3>3, PartsOf DEF Undone, Pending
    <3> QED
      BY <3>4, <3>5, <3>6, <3>7
  <2> QED
    BY <1>1, <2>1, <2>2
<1>7. NginxKept' /\ ModeKept' /\ LoginKept'
  <2>1. NginxKept'
    BY <1>6 DEF NginxKept
  <2>2. ModeKept'
    BY <1>1, <1>2, <1>5 DEF HostInv, Kept, ModeKept, Undone
  <2>3. LoginKept'
    BY <1>1, <1>2, <1>4 DEF HostInv, Kept, LoginKept, Undone
  <2> QED
    BY <2>1, <2>2, <2>3
<1>8. SecretsKept' /\ EndpointKept' /\ VectorsOfActive'
  BY <1>1, <1>2 DEF HostInv, Kept, SecretsKept, EndpointKept, VectorsOfActive, Undone
<1>9. InstallationTypeOK'
  BY <1>1, <1>4, <1>6, CommandTypes DEF HostInv, InstallationTypeOK
<1>10. NothingWithoutEnv'
  BY <1>1, <1>3 DEF NothingWithoutEnv
<1> QED
  BY <1>6, <1>7, <1>8, <1>9, <1>10 DEF HostInv, Kept, Done

LEMMA UpLocalKeeps ==
  ASSUME HostInv, UpLocal
  PROVE  HostInv'
<1>1. /\ OneStep("upLocal") /\ Proceed /\ UNCHANGED <<env, provider, llm, saved, docs, counts, probed>>
      /\ \/ StartUp({"app"}, FALSE) /\ missed' = missed
         \/ StartFails({"app"}, FALSE) /\ missed' = missed \cup ({"nginx"} \cap Parts)
  BY DEF UpLocal, Miss
<1>2. /\ command.todo # <<>> /\ Head(command.todo) = "upLocal" /\ command.ok /\ Carried /\ ~command.launch
      /\ Tail(command.todo) = <<>>
      /\ \A part : Undone(part) => part \in missed \/ part \in {"connect", "nginx"}
  BY <1>1, AtAccess
<1>3. /\ missed \subseteq missed' /\ missed' \subseteq Parts
      /\ missed' = missed \/ "nginx" \in missed'
  BY <1>1 DEF HostInv, InstallationTypeOK, Parts
<1>4. /\ up' \subseteq {"app", "nginx"} \cup Workers /\ with' \in [external : BOOLEAN, login : BOOLEAN]
      /\ up' \subseteq up \cup {"app", "embedding"}
      /\ env.file = "none" => up' = up
      /\ "app" \in up' => with'.login = env.login \/ ("app" \in up /\ with' = with)
  <2>1. "app" \in DependsOn({"app"}) /\ DependsOn({"app"}) \subseteq {"app", "nginx"} \cup Workers
    BY WhoIsStarted DEF Workers
  <2> QED
    BY <1>1, <2>1, StartedUp, WhoIsStarted DEF HostInv
<1>5. command' = AtRest
  BY <1>1, <1>2, Proceeded
<1>6. command'.todo = <<>> /\ Carried' /\ ChangeAllowed' /\ SavesTold' /\ PauseDone'
  BY <1>5, AtRestCarried
<1>7. StartDone' /\ ChangeDone'
  BY <1>6, NotBegun
<1>8. NginxKept'
  <2>1. "nginx" \in missed' \/ "nginx" \notin up
    BY <1>1, <1>3 DEF HostInv, Done, StartDone
  <2> QED
    BY <1>4, <2>1 DEF NginxKept, Undone
<1>9. ModeKept' /\ LoginKept'
  <2>1. "documents" \in up' => "documents" \in up
    BY <1>4
  <2>2. ModeKept'
    BY <1>1, <1>2, <1>3, <2>1 DEF HostInv, Kept, ModeKept, Undone
  <2>3. LoginKept'
    BY <1>1, <1>2, <1>3, <1>4 DEF HostInv, Kept, LoginKept, Undone
  <2> QED
    BY <2>2, <2>3
<1>10. SecretsKept' /\ EndpointKept' /\ VectorsOfActive'
  BY <1>1, <1>2, <1>3 DEF HostInv, Kept, SecretsKept, EndpointKept, VectorsOfActive, Undone
<1>11. InstallationTypeOK'
  BY <1>1, <1>3, <1>4, <1>6, CommandTypes DEF HostInv, InstallationTypeOK
<1>12. NothingWithoutEnv'
  <2>1. env.file = "none" => up = {} /\ saved.plan = "none"
    BY DEF HostInv, Kept, NothingWithoutEnv
  <2> QED
    BY <1>1, <1>4, <1>5, <2>1, AtRestCarried DEF NothingWithoutEnv, Comes
<1> QED
  BY <1>6, <1>7, <1>8, <1>9, <1>10, <1>11, <1>12 DEF HostInv, Kept, Done

-----------------------------------------------------------------------------
(* The theorems.                                                            *)

LEMMA HostInvInit ==
  ASSUME InstallationInit
  PROVE  HostInv
<1>1. /\ with = [external |-> FALSE, login |-> FALSE] /\ command = AtRest
      /\ counts = [installs |-> 0, kills |-> 0] /\ probed = {} /\ missed = {}
  BY DEF InstallationInit
<1>2. /\ command \in Asked /\ command.todo = <<>> /\ ~command.launch /\ command.ok
      /\ command.candidate.url = "none" /\ ToSet(command.todo) = {}
  BY <1>1, RestTypes, NothingLeft DEF AtRest
<1>3. Carried /\ Done
  BY <1>2 DEF Carried, Goes, Comes, Done, StartDone, ChangeDone, ChangeAllowed, SavesTold, PauseDone, OneStep
<1>4. /\ with \in [external : BOOLEAN, login : BOOLEAN] /\ with.login = FALSE
      /\ counts \in [installs : 0..MaxInstalls, kills : 0..MaxInstallKills]
      /\ 0 \in 0..MaxRuntimes /\ 1 \in 0..MaxRuntimes
  BY <1>1, InstallationAssumption
<1>5. CASE /\ env = [file |-> "none", token |-> "example", mode |-> "rag", login |-> FALSE, url |-> "example"]
           /\ provider = "none" /\ up = {} /\ llm = NoRuntime /\ docs = "none"
           /\ saved = [active |-> Absent, pending |-> Absent, staged |-> 0, emb |-> "none", plan |-> "none"]
  <2>1. InstallationTypeOK
    BY <1>1, <1>2, <1>4, <1>5 DEF InstallationTypeOK, Asked, OperationModes, EndpointUrls, NoRuntime, Absent
  <2>2. Kept
    BY <1>1, <1>2, <1>5 DEF Kept, NothingWithoutEnv, NginxKept, ModeKept, LoginKept, SecretsKept, EndpointKept,
         VectorsOfActive, Comes
  <2> QED
    BY <1>3, <2>1, <2>2 DEF HostInv
<1>6. ASSUME NEW mode \in OperationModes, NEW gen, gen = IF mode = "rag" THEN 1 ELSE Absent,
             env = [file |-> "random", token |-> "random", mode |-> mode, login |-> FALSE, url |-> "example"],
             provider = "edited", up = DependsOn(EnabledServices(mode)),
             llm = IF mode = "rag" THEN [state |-> "running", gen |-> 1] ELSE NoRuntime,
             docs = IF mode = "basic" THEN "none" ELSE DefaultModel,
             saved = [active |-> gen, pending |-> gen, staged |-> gen, plan |-> mode,
                      emb |-> IF mode = "basic" THEN "none" ELSE DefaultModel]
      PROVE  HostInv
  <2>1. DefaultModel \in Models /\ DefaultModel \in Catalog /\ gen \in 0..MaxRuntimes
    BY <1>4, <1>6, InstallationAssumption DEF Models, Absent
  <2>2. /\ up \subseteq {"app", "nginx"} \cup Workers /\ "nginx" \notin up
        /\ mode = "basic" => "documents" \notin up
    BY <1>6, EnabledTypes
  <2>3. llm \in [state : {"absent", "stopped", "running"}, gen : 0..MaxRuntimes]
    <3>1. NoRuntime \in [state : {"absent", "stopped", "running"}, gen : 0..MaxRuntimes]
      BY <1>4 DEF NoRuntime, Absent
    <3>2. [state |-> "running", gen |-> 1] \in [state : {"absent", "stopped", "running"}, gen : 0..MaxRuntimes]
      BY <1>4
    <3> QED
      BY <1>6, <3>1, <3>2
  <2>4. mode # "rag" => llm.state # "running"
    BY <1>6 DEF NoRuntime
  <2>5. /\ saved \in [active : 0..MaxRuntimes, pending : 0..MaxRuntimes, staged : 0..MaxRuntimes,
                      emb : Models \cup {"none"}, plan : OperationModes \cup {"none"}]
        /\ docs \in Models \cup {"none", "mixed"}
    BY <1>6, <2>1
  <2>6. InstallationTypeOK
    <3>1. env \in [file : {"none", "example", "random"}, token : {"example", "random"},
                   mode : OperationModes, login : BOOLEAN, url : EndpointUrls]
      BY <1>6 DEF EndpointUrls
    <3> QED
      BY <1>1, <1>2, <1>4, <1>6, <2>2, <2>3, <2>5, <3>1 DEF InstallationTypeOK, Asked
  <2>7. NothingWithoutEnv /\ NginxKept /\ ModeKept /\ LoginKept
    BY <1>4, <1>6, <2>2, <2>4 DEF NothingWithoutEnv, NginxKept, ModeKept, LoginKept
  <2>8. SecretsKept /\ EndpointKept /\ VectorsOfActive
    BY <1>6, <2>1 DEF SecretsKept, EndpointKept, VectorsOfActive
  <2> QED
    BY <1>3, <2>6, <2>7, <2>8 DEF HostInv, Kept
<1> QED
  BY <1>5, <1>6 DEF InstallationInit

(* No step of a command, completed, failed or cut, breaks the invariant.    *)
LEMMA HostInvStep ==
  ASSUME HostInv, [InstallationNext]_installationVars
  PROVE  HostInv'
<1>1. CASE Commands
  BY <1>1, CommandsBegin
<1>2. CASE CreateConfiguration \/ EditConfiguration \/ EmbedDocument \/ UNCHANGED installationVars
  BY <1>2, BetweenKeeps
<1>3. CASE KillCommand
  BY <1>3, KillKeeps
<1>4. CASE CopyTemplate
  BY <1>4, CopyKeeps
<1>5. CASE FillSecrets \/ Backfill
  BY <1>5, SecretsKeeps
<1>6. CASE SaveMode
  BY <1>6, ModeKeeps
<1>7. CASE SaveLogin
  BY <1>7, LoginKeeps
<1>8. CASE SaveUrl
  BY <1>8, UrlKeeps
<1>9. CASE CommitDefault
  BY <1>9, DefaultKeeps
<1>10. CASE Offer
  BY <1>10, OfferKeeps
<1>11. CASE StopNginx \/ StopExternal
  BY <1>11, StopNginxKeeps
<1>12. CASE StopDisabled
  BY <1>12, StopDisabledKeeps
<1>13. CASE StopWorkers
  BY <1>13, StopWorkersKeeps
<1>14. CASE Up
  BY <1>14, UpKeeps
<1>15. CASE SetUpRuntime
  BY <1>15, SetUpKeeps
<1>16. CASE StartRuntime \/ StopRuntime
  BY <1>16, RuntimeKeeps
<1>17. CASE WritePlan
  BY <1>17, PlanKeeps
<1>18. CASE DetectRuntime
  BY <1>18, DetectKeeps
<1>19. CASE ApplyPending
  BY <1>19, ApplyKeeps
<1>20. CASE PauseServices
  BY <1>20, PauseKeeps
<1>21. CASE PauseLlm
  BY <1>21, PauseLlmKeeps
<1>22. CASE RemoveContainer \/ Down
  BY <1>22, RemoveKeeps
<1>23. CASE WipeRuntime
  BY <1>23, WipeKeeps
<1>24. CASE CompareModel
  BY <1>24, CompareKeeps
<1>25. CASE AskReembed
  BY <1>25, AskKeeps
<1>26. CASE HaltPipeline
  BY <1>26, HaltKeeps
<1>27. CASE ChangeSucceeds
  BY <1>27, SucceedsKeeps
<1>28. CASE ChangeFails
  BY <1>28, FailsKeeps
<1>29. CASE Recreate
  BY <1>29, RecreateKeeps
<1>30. CASE ConnectExternal
  BY <1>30, ConnectKeeps
<1>31. CASE UpLocal
  BY <1>31, UpLocalKeeps
<1> QED
  BY <1>1, <1>2, <1>3, <1>4, <1>5, <1>6, <1>7, <1>8, <1>9, <1>10, <1>11, <1>12, <1>13, <1>14, <1>15, <1>16,
     <1>17, <1>18, <1>19, <1>20, <1>21, <1>22, <1>23, <1>24, <1>25, <1>26, <1>27, <1>28, <1>29, <1>30, <1>31
     DEF InstallationNext

(* Between two commands nothing is pending: what is undone was told.        *)
LEMMA AtRestAsAsked ==
  ASSUME HostInv
  PROVE  LeftAsAsked
<1> SUFFICES ASSUME command = AtRest
             PROVE  /\ NginxHasItsHosts /\ ModeIsKept /\ LoginInForce /\ SecretsReplaced
                    /\ EndpointAnswered /\ VectorsOfActive
  BY DEF LeftAsAsked
<1>1. \A part : Undone(part) => part \in missed
  <2>1. command.todo = <<>> /\ ~command.launch
    BY DEF AtRest
  <2>2. ToSet(command.todo) = {}
    BY <2>1, NothingLeft
  <2> QED
    BY <2>1, <2>2 DEF Undone, Pending, Unlaunched
<1>2. NginxHasItsHosts
  BY <1>1 DEF HostInv, Kept, NginxKept, NginxHasItsHosts
<1>3. ModeIsKept
  BY <1>1 DEF HostInv, Kept, ModeKept, ModeIsKept
<1>4. LoginInForce
  BY <1>1 DEF HostInv, Kept, LoginKept, LoginInForce
<1>5. SecretsReplaced
  BY <1>1 DEF HostInv, Kept, SecretsKept, NothingWithoutEnv, SecretsReplaced
<1>6. EndpointAnswered
  BY <1>1 DEF HostInv, Kept, EndpointKept, EndpointAnswered
<1> QED
  BY <1>2, <1>3, <1>4, <1>5, <1>6 DEF HostInv, Kept

(* Every variable of the installation has its type, for any catalog, any    *)
(* endpoints and any number of commands.                                    *)
THEOREM InstallationTypesCorrect == InstallationSpec => []InstallationTypeOK
<1>1. HostInv => InstallationTypeOK
  BY DEF HostInv
<1> QED
  BY <1>1, HostInvInit, HostInvStep, PTL DEF InstallationSpec

(* Whatever Docker answered and wherever a command was cut, the host is     *)
(* left as the last commands asked for, except where a step they reported,  *)
(* declined or never reached says otherwise.                                *)
THEOREM HostLeftAsAsked == InstallationSpec => []LeftAsAsked
  BY HostInvInit, HostInvStep, AtRestAsAsked, PTL DEF InstallationSpec


-----------------------------------------------------------------------------
(* The receipts and the host side by side.                                  *)

(* Every behaviour of the two side by side is one of each: they share no    *)
(* state, so that whichever acts leaves the other as it is.                 *)
THEOREM LedgerRunsParts == LedgerSpec => Spec /\ InstallationSpec
<1>1. LedgerInit => Init /\ InstallationInit
  BY DEF LedgerInit
<1>2. [LedgerNext]_ledgerVars => [Next]_vars /\ [InstallationNext]_installationVars
  BY DEF LedgerNext, ledgerVars
<1> QED
  BY <1>1, <1>2, PTL DEF LedgerSpec, Spec, InstallationSpec

(* Every variable of the receipts and of the host keeps its type while the  *)
(* two run side by side.                                                    *)
THEOREM LedgerTypesCorrect == LedgerSpec => []LedgerTypeOK
<1>1. TypeOK /\ InstallationTypeOK => LedgerTypeOK
  BY DEF LedgerTypeOK
<1> QED
  BY <1>1, LedgerRunsParts, TypeCorrect, InstallationTypesCorrect, PTL

=============================================================================
