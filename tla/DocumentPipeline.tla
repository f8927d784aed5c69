-------------------------- MODULE DocumentPipeline --------------------------
(***************************************************************************)
(* A document from upload to searchable: the rows parse_result, chunk and  *)
(* chunk_embedding, the jobs that write them, the retry a user asks for    *)
(* and the repair scan (processing/parsing.py, embedding/executor.py,      *)
(* processing/recovery.py, signals.py, files/api_v1/file_views.py).        *)
(*                                                                         *)
(* How jobs are delivered and claimed is the subject of ExecutorReceipts   *)
(* and ExecutorDispatch.  Here a claim is one step, jobs over one document *)
(* exclude each other, and a job may be given up within the budget of      *)
(* faults.  EmbeddingRuntimeChange adds the change of the runtime.         *)
(***************************************************************************)
EXTENDS Integers, FiniteSets, Bags

CONSTANTS
  Docs,         \* file nodes
  ChunksPer,    \* chunks a parse produces
  MaxTries,     \* DOCUMENT_AI_MAX_RECOVERY_ATTEMPTS
  LastGen,      \* bound: the last generation of the runtime
  Budgets       \* bounds: how often each kind of event may happen, by case

ASSUME PipelineAssumption ==
  {ChunksPer, MaxTries} \subseteq Nat \ {0} /\ LastGen \in Nat

VARIABLES
  file,    \* file[d]: committed version, AI flag, upload under way
  parse,   \* parse[d]: the DocumentParseResult and the version it came from
  chunk,   \* chunk[d][i]: the DocumentChunk and its ChunkEmbedding
  queue,   \* published jobs, a bag
  run,     \* run[d]: the running receipt over the document, or Free
  scan,    \* the repair scan
  locks,   \* Redis keys recovery:<kind>:<node>
  active,  \* generation in embedding_runtime.json
  loaded,  \* generation cached by the app and by the embedding executor
  left,    \* what is left of the budget
  missed   \* documents whose parse job came to nothing, or of which the scan
           \* took back a stored chunk

rowVars == <<file, parse, chunk>>
jobVars == <<queue, run>>
scanVars == <<scan, locks>>
pipeVars == <<rowVars, jobVars, scanVars, active, loaded, left, missed>>

Index == 1..ChunksPer
Generations == 0..LastGen
Blank == -1        \* no generation marker; no vector
Statuses == {"NONE", "PENDING", "PROCESSING", "COMPLETED", "FAILED"}

NoChunk == [status |-> "NONE", vec |-> Blank, tries |-> 0]
Free == [kind |-> "none"]
NoScan == [at |-> "idle", todo |-> {}, now |-> {}, sent |-> {}]

Job(kind, d, gen, is) == [kind |-> kind, doc |-> d, gen |-> gen, is |-> is]
ParseJob(d) == Job("parse", d, 0, {})
PlanJob(d) == Job("plan", d, 0, {})
BatchJob(d, is) == Job("batch", d, parse[d].gen, is)

PipeTypeOK ==
  /\ \A d \in Docs :
       /\ file[d].ver \in Nat /\ file[d].open \in BOOLEAN /\ file[d].ai \in BOOLEAN
       /\ parse[d].status \in Statuses /\ parse[d].marker \in Generations \cup {Blank}
       /\ parse[d].ver \in 0..file[d].ver /\ parse[d].tries \in 0..MaxTries
       /\ \A i \in Index : /\ chunk[d][i].status \in Statuses
                           /\ chunk[d][i].vec \in Generations \cup {Blank}
                           /\ chunk[d][i].tries \in 0..MaxTries
       /\ run[d].kind \in {"none", "parse", "batch", "orphan"}
  /\ IsABag(queue)
  /\ active \in Generations /\ loaded \in [{"app", "executor"} -> Generations]
  /\ missed \subseteq Docs

-----------------------------------------------------------------------------
(* Budgets and publication. *)

Spend(what) == left[what] > 0 /\ left' = [left EXCEPT ![what] = @ - 1]

Publish(jobs) == queue' = queue (+) SetToBag(jobs)

Queued(j) == BagIn(j, queue)

Present(d) == {i \in Index : chunk[d][i].status # "NONE"}
InStatus(d, s) == {i \in Present(d) : chunk[d][i].status = s}
HasStored(d, i) == chunk[d][i].vec # Blank  \* a COMPLETED ChunkEmbedding

WithStatus(t, d, is, s) ==
  [t EXCEPT ![d] = [i \in Index |-> IF i \in is THEN [@[i] EXCEPT !.status = s] ELSE @[i]]]

-----------------------------------------------------------------------------
(* Uploads and the AI switch. *)

(* save_file and the replacement of the sync upload: inside the transaction *)
(* the signal publishes the parse job, before anybody else sees the file.   *)
StartUpload(d) ==
  /\ ~file[d].open
  /\ Spend("uploads")
  /\ file' = [file EXCEPT ![d].open = TRUE]
  /\ Publish({ParseJob(d)})
  /\ UNCHANGED <<parse, chunk, run, scanVars, active, loaded, missed>>

CommitUpload(d) ==
  /\ file[d].open
  /\ file' = [file EXCEPT ![d] = [ver |-> file[d].ver + 1, open |-> FALSE, ai |-> TRUE]]
  /\ UNCHANGED <<parse, chunk, jobVars, scanVars, active, loaded, left, missed>>

(* set_ai_processing changes the flag and starts nothing.                   *)
SetAI(d) ==
  /\ file[d].ver # 0
  /\ Spend("toggles")
  /\ file' = [file EXCEPT ![d].ai = ~@]
  /\ UNCHANGED <<parse, chunk, jobVars, scanVars, active, loaded, missed>>

-----------------------------------------------------------------------------
(* Jobs. *)

Ready(j) == Queued(j) /\ run[j.doc] = Free

Taken(j) == queue (-) SetToBag({j})

Settle(d) == run' = [run EXCEPT ![d] = Free]

(* The receipt keeps the blob and the installed runtime as they are now.    *)
Hold(j, is) ==
  run' = [run EXCEPT ![j.doc] = [kind |-> j.kind, gen |-> parse[j.doc].gen, is |-> is,
                                 ver |-> file[j.doc].ver, rt |-> active]]

(* validate_execution. *)
Fresh(d) == run[d].ver = file[d].ver /\ run[d].rt = active

Missing(d, yes) == missed' = IF yes THEN missed \cup {d} ELSE missed

(* execute_parse_node: no such node, no blob, or AI processing is off.  The *)
(* job is over for good.                                                    *)
RefuseParse(d) ==
  /\ Ready(ParseJob(d))
  /\ file[d].ver = 0 \/ ~file[d].ai
  /\ queue' = Taken(ParseJob(d))
  /\ Missing(d, TRUE)
  /\ UNCHANGED <<rowVars, run, scanVars, active, loaded, left>>

BeginParse(d) ==
  /\ Ready(ParseJob(d))
  /\ file[d].ver # 0 /\ file[d].ai
  /\ queue' = Taken(ParseJob(d))
  /\ Hold(ParseJob(d), {})
  /\ Missing(d, file[d].open)
  /\ UNCHANGED <<rowVars, scanVars, active, loaded, left>>

(* save_parse_result and the end of the receipt, in one transaction: new    *)
(* chunks for the old ones, whose embeddings go with them.  The marker and  *)
(* the recovery count of the document stay.                                 *)
PersistParse(d) ==
  /\ run[d].kind = "parse" /\ file[d].ai /\ Fresh(d)
  /\ parse' = [parse EXCEPT ![d].status = "COMPLETED", ![d].ver = run[d].ver, ![d].gen = @ + 1]
  /\ chunk' = [chunk EXCEPT ![d] = [i \in Index |-> [NoChunk EXCEPT !.status = "PENDING"]]]
  /\ Publish({PlanJob(d)})
  /\ Settle(d)
  /\ missed' = IF file[d].open THEN missed ELSE missed \ {d}
  /\ UNCHANGED <<file, scanVars, active, loaded, left>>

(* The parser reports a failure without raising: nothing is left of the     *)
(* chunks, and the plan is published all the same.                          *)
PersistFailure(d) ==
  /\ run[d].kind = "parse" /\ file[d].ai /\ Fresh(d)
  /\ Spend("faults")
  /\ parse' = [parse EXCEPT ![d].status = "FAILED", ![d].ver = run[d].ver, ![d].gen = @ + 1]
  /\ chunk' = [chunk EXCEPT ![d] = [i \in Index |-> NoChunk]]
  /\ Publish({PlanJob(d)})
  /\ Settle(d)
  /\ UNCHANGED <<file, scanVars, active, loaded, missed>>

(* The result is thrown away: AI processing went off, or the input or the   *)
(* runtime is no longer the one the job began with.                         *)
DiscardParse(d) ==
  /\ run[d].kind = "parse"
  /\ ~file[d].ai \/ ~Fresh(d)
  /\ Settle(d)
  /\ Missing(d, ~file[d].ai \/ run[d].rt # active)
  /\ UNCHANGED <<rowVars, queue, scanVars, active, loaded, left>>

(* The parser raises: the document fails and keeps its chunks; the job is   *)
(* retried or given up.                                                     *)
FailParse(d) ==
  /\ run[d].kind = "parse"
  /\ Spend("faults")
  /\ parse' = [parse EXCEPT ![d].status = "FAILED"]
  /\ Settle(d)
  /\ Publish({ParseJob(d)}) \/ UNCHANGED queue
  /\ UNCHANGED <<file, chunk, scanVars, active, loaded, missed>>

(* enqueue_embedding_tasks_sync: the PENDING chunks are claimed for batches *)
(* that a count and a token budget split.  The batches are followups of the *)
(* receipt and committed with it.                                           *)
Plan(d) ==
  LET pending == IF file[d].ai THEN InStatus(d, "PENDING") ELSE {}
  IN
  /\ Ready(PlanJob(d))
  /\ \E batches \in {{pending}, {{i} : i \in pending}} :
       queue' = Taken(PlanJob(d)) (+) SetToBag({BatchJob(d, is) : is \in batches \ {{}}})
  /\ chunk' = WithStatus(chunk, d, pending, "PROCESSING")
  /\ UNCHANGED <<file, parse, run, scanVars, active, loaded, left, missed>>

(* embed_document_chunks_batch_sync passes over chunks that are gone or in  *)
(* another state.                                                           *)
Claimed(j) == IF j.gen = parse[j.doc].gen THEN j.is \cap InStatus(j.doc, "PROCESSING") ELSE {}

BeginBatch(j) ==
  /\ j.kind = "batch" /\ Ready(j)
  /\ file[j.doc].ai /\ Claimed(j) # {}
  /\ queue' = Taken(j)
  /\ Hold(j, Claimed(j))
  /\ UNCHANGED <<rowVars, scanVars, active, loaded, left, missed>>

(* With AI processing off the chunks go back to PENDING.                    *)
SkipBatch(j) ==
  /\ j.kind = "batch" /\ Ready(j)
  /\ ~file[j.doc].ai \/ Claimed(j) = {}
  /\ queue' = Taken(j)
  /\ chunk' = WithStatus(chunk, j.doc, Claimed(j), "PENDING")
  /\ UNCHANGED <<file, parse, run, scanVars, active, loaded, left, missed>>

(* The chunk rows after the vectors of the executor's model are in.         *)
Embedded(d) ==
  [chunk EXCEPT ![d] =
     [i \in Index |-> IF i \in run[d].is
                      THEN [@[i] EXCEPT !.status = "COMPLETED", !.vec = loaded.executor]
                      ELSE @[i]]]

BatchValid(d) == run[d].kind = "batch" /\ Fresh(d) /\ run[d].gen = parse[d].gen

(* Wrong variant of CommitBatch: whether the document is ready is looked up *)
(* before the batch is stored.                                              *)
CommitBatchEarlyLook(d) ==
  /\ BatchValid(d)
  /\ chunk' = Embedded(d)
  /\ parse' = IF InStatus(d, "COMPLETED") = Present(d)
              THEN [parse EXCEPT ![d].marker = loaded.executor] ELSE parse
  /\ Settle(d)
  /\ UNCHANGED <<file, queue, scanVars, active, loaded, left, missed>>

(* _log_if_document_ready marks the document when no chunk is outstanding.  *)
CommitBatch(d) ==
  /\ BatchValid(d)
  /\ chunk' = Embedded(d)
  /\ parse' = IF \A i \in Present(d) : Embedded(d)[d][i].status = "COMPLETED"
              THEN [parse EXCEPT ![d].marker = loaded.executor] ELSE parse
  /\ Settle(d)
  /\ UNCHANGED <<file, queue, scanVars, active, loaded, left, missed>>

(* The input, the chunks or the runtime have changed: nothing is written.   *)
StaleBatch(d) ==
  /\ run[d].kind = "batch" /\ ~BatchValid(d)
  /\ Settle(d)
  /\ UNCHANGED <<rowVars, queue, scanVars, active, loaded, left, missed>>

(* A failing batch is retried or given up; its chunks stay PROCESSING.      *)
FailBatch(d) ==
  /\ run[d].kind = "batch"
  /\ Spend("faults")
  /\ Settle(d)
  /\ \/ Publish({Job("batch", d, run[d].gen, run[d].is)})
     \/ UNCHANGED queue
  /\ UNCHANGED <<rowVars, scanVars, active, loaded, missed>>

(* A chunk without text is failed at once and the rest goes on.             *)
FailChunk(d, i) ==
  /\ run[d].kind = "batch" /\ i \in run[d].is /\ run[d].gen = parse[d].gen
  /\ Spend("faults")
  /\ chunk' = [chunk EXCEPT ![d][i].status = "FAILED", ![d][i].vec = Blank]
  /\ run' = IF run[d].is = {i} THEN [run EXCEPT ![d] = Free]
            ELSE [run EXCEPT ![d].is = @ \ {i}]
  /\ UNCHANGED <<file, parse, queue, scanVars, active, loaded, missed>>

(* A job is dropped: its retries are used up or its deadline has passed.    *)
LoseJob(j) ==
  /\ Queued(j)
  /\ Spend("faults")
  /\ queue' = Taken(j)
  /\ Missing(j.doc, j.kind = "parse")
  /\ UNCHANGED <<rowVars, run, scanVars, active, loaded>>

(* An executor dies and leaves a running receipt, which an operator         *)
(* releases in the end; the embedding executor comes back with the runtime  *)
(* that is installed.                                                       *)
CrashExecutor(d) ==
  /\ run[d].kind \in {"parse", "batch"}
  /\ Spend("faults")
  /\ run' = [run EXCEPT ![d] = [kind |-> "orphan"]]
  /\ loaded' = IF run[d].kind = "batch" THEN [loaded EXCEPT !.executor = active] ELSE loaded
  /\ Missing(d, run[d].kind = "parse")
  /\ UNCHANGED <<rowVars, queue, scanVars, active>>

Release(d) ==
  /\ run[d].kind = "orphan"
  /\ Settle(d)
  /\ UNCHANGED <<rowVars, queue, scanVars, active, loaded, left, missed>>

-----------------------------------------------------------------------------
(* Node.get_ai_status, for a file that has a parse result, and the retry.   *)

EmbeddingStatus(d) ==
  LET current == parse[d].marker = loaded.app
      done == InStatus(d, "COMPLETED")
      failed == InStatus(d, "FAILED")
      waiting == InStatus(d, "PENDING") \cup InStatus(d, "PROCESSING")
  IN CASE parse[d].status = "FAILED" -> [is |-> "FAILED", contract |-> "missing"]
       [] parse[d].status \in {"NONE", "PENDING"} \/ Present(d) = {}
            -> [is |-> "PENDING", contract |-> "missing"]
       [] parse[d].status = "COMPLETED" /\ waiting # {}
            -> [is |-> "PROCESSING", contract |-> "reembedding"]
       [] parse[d].status = "COMPLETED" /\ waiting = {} /\ current /\ failed = {}
            -> [is |-> "COMPLETED", contract |-> "current"]
       [] parse[d].status = "COMPLETED" /\ waiting = {} /\ ~current /\ parse[d].marker # Blank
            -> [is |-> "FAILED", contract |-> "stale_contract"]
       [] parse[d].status = "COMPLETED" /\ waiting = {} /\ failed # {}
          /\ (current \/ parse[d].marker = Blank) -> [is |-> "FAILED", contract |-> "failed"]
       [] OTHER -> [is |-> "PENDING", contract |-> "missing"]

(* retry_ai_processing turns AI processing on, whatever it answers then.    *)
RetryParse(d) ==
  /\ file[d].ver # 0 /\ parse[d].status = "FAILED"
  /\ Spend("retries")
  /\ file' = [file EXCEPT ![d].ai = TRUE]
  /\ parse' = [parse EXCEPT ![d].status = "PENDING"]
  /\ Publish({ParseJob(d)})
  /\ UNCHANGED <<chunk, run, scanVars, active, loaded, missed>>

RetryEmbedding(d) ==
  LET st == EmbeddingStatus(d) IN
  /\ file[d].ver # 0 /\ parse[d].status = "COMPLETED" /\ st.is = "FAILED"
  /\ Spend("retries")
  /\ file' = [file EXCEPT ![d].ai = TRUE]
  /\ chunk' = WithStatus(chunk, d,
                {i \in Present(d) : st.contract = "stale_contract" \/ chunk[d][i].status # "COMPLETED"},
                "PENDING")
  /\ parse' = [parse EXCEPT ![d].marker = Blank]
  /\ Publish({PlanJob(d)})
  /\ UNCHANGED <<run, scanVars, active, loaded, missed>>

RetryRefused(d) ==
  /\ file[d].ver # 0 /\ ~file[d].ai
  /\ \/ parse[d].status \in {"NONE", "PENDING"}
     \/ parse[d].status = "COMPLETED" /\ EmbeddingStatus(d).is # "FAILED"
  /\ Spend("retries")
  /\ file' = [file EXCEPT ![d].ai = TRUE]
  /\ UNCHANGED <<parse, chunk, jobVars, scanVars, active, loaded, missed>>

-----------------------------------------------------------------------------
(* The repair scan, run by the command repair_document_pipeline.            *)

(* Wrong variant of ParseCandidate: one attempt too many. *)
ParseCandidateOnceMore(d) ==
  /\ file[d].ver # 0 /\ file[d].ai
  /\ \/ parse[d].status = "NONE"
     \/ parse[d].status \in {"FAILED", "PENDING"} /\ parse[d].tries <= MaxTries

ParseCandidate(d) ==
  /\ file[d].ver # 0 /\ file[d].ai
  /\ \/ parse[d].status = "NONE"
     \/ parse[d].status \in {"FAILED", "PENDING"} /\ parse[d].tries < MaxTries

ChunkCandidates(d) ==
  {i \in Present(d) : /\ file[d].ai /\ parse[d].status = "COMPLETED"
                      /\ chunk[d][i].status # "COMPLETED" /\ ~HasStored(d, i)
                      /\ chunk[d][i].tries < MaxTries}

Target(d, is) == [doc |-> d, gen |-> parse[d].gen, is |-> is]
Key(at, d) == [kind |-> at, doc |-> d]

(* Which rows are older than the cutoff, which keys have expired by now and *)
(* what the batch limit lets in is left open.                               *)
StartScan ==
  /\ scan = NoScan
  /\ Spend("scans")
  /\ \E S \in SUBSET {d \in Docs : ParseCandidate(d)} :
       scan' = [NoScan EXCEPT !.at = "parse", !.todo = {Target(d, {}) : d \in S}]
  /\ locks' \in SUBSET locks
  /\ UNCHANGED <<rowVars, jobVars, active, loaded, missed>>

StillThere(t) == IF t.gen = parse[t.doc].gen THEN t.is ELSE {}

(* node_has_active_execution and the key of the document.                   *)
ScanSkip(t) ==
  /\ scan.now = {} /\ t \in scan.todo
  /\ run[t.doc] # Free \/ Key(scan.at, t.doc) \in locks
  /\ scan' = [scan EXCEPT !.todo = @ \ {t}]
  /\ UNCHANGED <<rowVars, jobVars, locks, active, loaded, left, missed>>

(* Nothing holds the document from here to the publication.                 *)
ScanCheck(t) ==
  /\ scan.now = {} /\ t \in scan.todo
  /\ run[t.doc] = Free /\ Key(scan.at, t.doc) \notin locks
  /\ locks' = locks \cup {Key(scan.at, t.doc)}
  /\ scan' = [scan EXCEPT !.todo = @ \ {t}, !.now = {t}]
  /\ UNCHANGED <<rowVars, jobVars, active, loaded, left, missed>>

(* reset_chunks_to_pending writes every chunk that was listed and is not    *)
(* PENDING, one that has been completed meanwhile too.                      *)
ScanPublish(t) ==
  /\ t \in scan.now
  /\ chunk' = WithStatus(chunk, t.doc, StillThere(t), "PENDING")
  /\ Publish({IF scan.at = "parse" THEN ParseJob(t.doc) ELSE PlanJob(t.doc)})
  /\ scan' = [scan EXCEPT !.now = {}, !.sent = @ \cup {t}]
  /\ Missing(t.doc, \E i \in StillThere(t) : HasStored(t.doc, i))
  /\ UNCHANGED <<file, parse, run, locks, active, loaded, left>>

(* The broker refuses: the key is given back, the chunks stay PENDING.      *)
ScanPublishFails(t) ==
  /\ t \in scan.now
  /\ Spend("faults")
  /\ chunk' = WithStatus(chunk, t.doc, StillThere(t), "PENDING")
  /\ locks' = locks \ {Key(scan.at, t.doc)}
  /\ scan' = [scan EXCEPT !.now = {}]
  /\ Missing(t.doc, \E i \in StillThere(t) : HasStored(t.doc, i))
  /\ UNCHANGED <<file, parse, jobVars, active, loaded>>

(* Attempts are counted when all parse jobs are out; then the chunks are    *)
(* listed.                                                                  *)
CountParses ==
  /\ scan.at = "parse" /\ scan.todo = {} /\ scan.now = {}
  /\ parse' = [d \in Docs |->
                 IF parse[d].status # "NONE" /\ \E t \in scan.sent : t.doc = d
                 THEN [parse[d] EXCEPT !.tries = @ + 1] ELSE parse[d]]
  /\ \E S \in SUBSET {d \in Docs : ChunkCandidates(d) # {}} :
       scan' = [NoScan EXCEPT !.at = "embed", !.todo = {Target(d, ChunkCandidates(d)) : d \in S}]
  /\ UNCHANGED <<file, chunk, jobVars, locks, active, loaded, left, missed>>

CountChunks ==
  /\ scan.at = "embed" /\ scan.todo = {} /\ scan.now = {}
  /\ chunk' = [d \in Docs |-> [i \in Index |->
                 IF \E t \in scan.sent : t.doc = d /\ i \in StillThere(t)
                 THEN [chunk[d][i] EXCEPT !.tries = @ + 1] ELSE chunk[d][i]]]
  /\ scan' = NoScan
  /\ UNCHANGED <<file, parse, jobVars, locks, active, loaded, left, missed>>

(* The command dies; what it has published stays and is not counted.        *)
CrashScan ==
  /\ scan # NoScan
  /\ Spend("faults")
  /\ scan' = NoScan
  /\ UNCHANGED <<rowVars, jobVars, locks, active, loaded, missed>>

-----------------------------------------------------------------------------
PipeInit ==
  /\ file = [d \in Docs |-> [ver |-> 0, open |-> FALSE, ai |-> FALSE]]
  /\ parse = [d \in Docs |-> [status |-> "NONE", ver |-> 0, gen |-> 0, marker |-> Blank, tries |-> 0]]
  /\ chunk = [d \in Docs |-> [i \in Index |-> NoChunk]]
  /\ queue = EmptyBag /\ run = [d \in Docs |-> Free]
  /\ scan = NoScan /\ locks = {}
  /\ active = 0 /\ loaded = [app |-> 0, executor |-> 0]
  /\ left \in Budgets /\ missed = {}

UserStep(d) ==
  \/ StartUpload(d) \/ CommitUpload(d) \/ SetAI(d)
  \/ RetryParse(d) \/ RetryEmbedding(d) \/ RetryRefused(d)

JobStep(d) ==
  \/ RefuseParse(d) \/ BeginParse(d) \/ PersistParse(d) \/ DiscardParse(d)
  \/ Plan(d) \/ CommitBatch(d) \/ StaleBatch(d)
  \/ \E j \in BagToSet(queue) : j.doc = d /\ (BeginBatch(j) \/ SkipBatch(j))

JobFault(d) ==
  \/ PersistFailure(d) \/ FailParse(d) \/ FailBatch(d) \/ CrashExecutor(d) \/ Release(d)
  \/ \E i \in Index : FailChunk(d, i)
  \/ \E j \in BagToSet(queue) : j.doc = d /\ LoseJob(j)

ScanStep ==
  \/ StartScan \/ CountParses \/ CountChunks \/ CrashScan
  \/ \E t \in scan.todo : ScanSkip(t) \/ ScanCheck(t)
  \/ \E t \in scan.now : ScanPublish(t) \/ ScanPublishFails(t)

PipeNext == (\E d \in Docs : UserStep(d) \/ JobStep(d) \/ JobFault(d)) \/ ScanStep

-----------------------------------------------------------------------------
(* Whether a job over d is queued, running or about to be published.        *)
InFlight(d) ==
  \/ run[d] # Free \/ file[d].open
  \/ \E j \in BagToSet(queue) : j.doc = d
  \/ \E t \in scan.now : t.doc = d

(* What search uses: a completed chunk with a vector, of a document that     *)
(* carries the marker of the loaded generation.                             *)
Searched(d, i) ==
  chunk[d][i].status = "COMPLETED" /\ HasStored(d, i) /\ parse[d].marker = loaded.app

(* The document is searchable with its newest content.                      *)
Finished(d) ==
  /\ parse[d].status = "COMPLETED" /\ parse[d].ver = file[d].ver
  /\ parse[d].marker = active
  /\ InStatus(d, "COMPLETED") = Present(d)

OutOfTries(d) ==
  \/ parse[d].status # "COMPLETED" /\ parse[d].tries = MaxTries
  \/ \E i \in Present(d) : chunk[d][i].tries = MaxTries

Unattended(d) ==
  file[d].ver # 0 /\ file[d].ai /\ ~Finished(d) /\ ~InFlight(d) /\ scan = NoScan

(* The scan will pick it up, unless its attempts are used up.               *)
Repairable(d) == ParseCandidate(d) \/ ChunkCandidates(d) # {} \/ OutOfTries(d)

=============================================================================
