-------------------------- MODULE ExecutorReceipts --------------------------
(***************************************************************************)
(* The durable job receipts of the parser and embedding executors and the  *)
(* executor processes that claim, execute and finish them.                 *)
(*                                                                         *)
(* services/executor_jobs.py keeps one receipt per job_id; executor_views  *)
(* serves one job at a time per process; services/executor_snapshot.py     *)
(* compares what the job read with what the database holds now.  A request *)
(* for a job may arrive at any time and any number of times: who sends it  *)
(* (ExecutorDispatch) and what it does to a document are separate modules. *)
(***************************************************************************)
EXTENDS Naturals, FiniteSets

CONSTANTS
  Jobs,         \* job identities: root jobs and the ones derived from them
  Nodes,        \* documents (file nodes)
  Runs,         \* retrieval evaluation runs
  Chunks,       \* primary keys of document chunks, never reused
  Executors,    \* executor processes
  Role,         \* [Executors -> {"parser", "embedding"}]
  Kind,         \* [Jobs -> Kinds], the job's work_kind
  Subject,      \* [Jobs -> Nodes \cup Runs], payload.node_id or run_uid
  Batch,        \* [Jobs -> SUBSET Chunks], payload.chunk_ids
  ChunkNode,    \* [Chunks -> Nodes], the document of a chunk
  Children,     \* [Jobs -> SUBSET Jobs], the identities derive_job_id gives
  MaxAttempts,  \* executions one job may have (4 in the code)
  MaxBlob,      \* bound: versions of one document's file
  MaxRuntime    \* bound: embedding runtimes installed one after another

Kinds == {"parse", "plan", "batch", "evaluate"}

RoleKinds(role) ==
  IF role = "parser" THEN {"parse"} ELSE {"plan", "batch", "evaluate"}

ASSUME StaticAssumption ==
  /\ Jobs # {}
  /\ Role \in [Executors -> {"parser", "embedding"}]
  /\ Kind \in [Jobs -> Kinds]
  /\ Batch \in [Jobs -> SUBSET Chunks]
  /\ ChunkNode \in [Chunks -> Nodes]
  /\ Children \in [Jobs -> SUBSET Jobs]
  /\ MaxAttempts \in Nat \ {0}
  /\ MaxBlob \in Nat /\ MaxRuntime \in Nat
  /\ \A j \in Jobs : Subject[j] \in (IF Kind[j] = "evaluate" THEN Runs ELSE Nodes)

VARIABLES
  receipts,  \* [Jobs -> Receipts], the ExecutorJobReceipt table
  exec,      \* [Executors -> Execs], the request in each process's job slot
  blob,      \* [Nodes -> Nat], version of the file blob, 0 when there is none
  live,      \* the chunks in the database
  born,      \* the chunks ever created
  runtime,   \* the installed embedding runtime (its fingerprint)
  commits    \* [Jobs -> Nat], history: domain transactions a job committed

domainVars == <<blob, live, born, runtime>>
vars == <<receipts, exec, blob, live, born, runtime, commits>>

-----------------------------------------------------------------------------
(* Snapshots: identities of the inputs of a job, never their contents.      *)

Snapshots == [nodes : SUBSET Nodes, blobs : [Nodes -> Nat], runtime : Nat]

(* A batch names chunks, and only chunks that still exist have a document.  *)
SourceNodes(j) ==
  CASE Kind[j] = "batch" -> {ChunkNode[c] : c \in Batch[j] \cap live}
    [] Kind[j] = "evaluate" -> {}
    [] OTHER -> {Subject[j]}

Snapshot(j) ==
  [nodes |-> SourceNodes(j),
   blobs |-> [n \in Nodes |-> IF n \in SourceNodes(j) THEN blob[n] ELSE 0],
   runtime |-> runtime]

NoSnapshot == [nodes |-> {}, blobs |-> [n \in Nodes |-> 0], runtime |-> 0]

-----------------------------------------------------------------------------
(* Receipts.                                                                *)

Receipts ==
  [status : {"absent", "running", "succeeded", "failed"},
   retryable : BOOLEAN,
   attempt : 0..MaxAttempts,
   snapshot : Snapshots,
   followups : SUBSET Jobs]

NoReceipt ==
  [status |-> "absent", retryable |-> FALSE, attempt |-> 0,
   snapshot |-> NoSnapshot, followups |-> {}]

Running(j) == receipts[j].status = "running"

(* A succeeded or a non-retryable failed receipt answers every later        *)
(* request for its job; nothing executes it again.                          *)
Final(r) == \/ r.status = "succeeded"
            \/ r.status = "failed" /\ ~r.retryable

SameTarget(j, k) ==
  /\ Kind[j] = Kind[k]
  /\ IF Kind[j] = "batch" THEN Batch[j] = Batch[k] ELSE Subject[j] = Subject[k]

(* Wrong variant of Blocks: overlapping documents are not looked for.       *)
BlocksSameWorkOnly(k, j, snapshot) ==
  k # j /\ Running(k) /\ (SameTarget(j, k) \/ Batch[j] \cap Batch[k] # {})

(* Another running receipt that a claim of j with this snapshot runs into.  *)
Blocks(k, j, snapshot) ==
  /\ k # j
  /\ Running(k)
  /\ \/ SameTarget(j, k)
     \/ snapshot.nodes \cap receipts[k].snapshot.nodes # {}
     \/ Batch[j] \cap Batch[k] # {}

(* A retry keeps the snapshot of the first attempt.                         *)
Started(r, snapshot) ==
  [r EXCEPT !.status = "running", !.retryable = FALSE, !.attempt = @ + 1,
            !.snapshot = IF r.status = "absent" THEN snapshot ELSE @]

Finished(r, followups) ==
  [r EXCEPT !.status = "succeeded", !.retryable = FALSE, !.followups = followups]

(* Wrong variant of Failed: a failure hands the attempts back.              *)
FailedAttemptsReset(r, retryable) ==
  [r EXCEPT !.status = "failed", !.retryable = retryable, !.attempt = 0]

Failed(r, retryable) ==
  [r EXCEPT !.status = "failed", !.retryable = retryable]

-----------------------------------------------------------------------------
(* The HTTP answer: ok with the children to publish, or an error that the   *)
(* sender may retry.                                                        *)

Answers == [ok : BOOLEAN, retryable : BOOLEAN, followups : SUBSET Jobs]
Accepted(followups) == [ok |-> TRUE, retryable |-> FALSE, followups |-> followups]
Refused(retryable) == [ok |-> FALSE, retryable |-> retryable, followups |-> {}]

(* Phases of the request in a job slot:                                     *)
(*   captured    snapshot read, receipt not claimed yet                     *)
(*   claimed     receipt running, input not validated yet                   *)
(*   working     parsing, planning, encoding or evaluating                  *)
(*   persisting  rows written and validated, transaction not committed yet  *)
(*   persisted   parse committed together with its succeeded receipt        *)
(*   validating  work done, receipt still running                           *)
(*   answering   receipt written, answer not sent yet                       *)
Phases == {"idle", "captured", "claimed", "working", "persisting",
           "persisted", "validating", "answering"}
Owning == {"claimed", "working", "persisting", "validating"}

Execs ==
  [phase : Phases, job : Jobs, snapshot : Snapshots, late : BOOLEAN, answer : Answers]

At(e, phase) == exec[e].phase = phase

Step(e, phase) == exec' = [exec EXCEPT ![e].phase = phase]

Answer(e, answer) ==
  exec' = [exec EXCEPT ![e].phase = "answering", ![e].answer = answer]

(* validate_execution: the deadline has not passed and the inputs of the    *)
(* job are still the ones captured before the claim.                        *)
Valid(e) == ~exec[e].late /\ Snapshot(exec[e].job) = exec[e].snapshot

IdleExec ==
  [phase |-> "idle", job |-> CHOOSE j \in Jobs : TRUE, snapshot |-> NoSnapshot,
   late |-> FALSE, answer |-> Refused(FALSE)]

Init ==
  /\ receipts = [j \in Jobs |-> NoReceipt]
  /\ exec = [e \in Executors |-> IdleExec]
  /\ blob = [n \in Nodes |-> 1]
  /\ live = {} /\ born = {}
  /\ runtime = 1
  /\ commits = [j \in Jobs |-> 0]

-----------------------------------------------------------------------------
(* A request takes the process's only job slot and captures its snapshot    *)
(* before any lock is held.                                                 *)
ReceiveJob(e, j) ==
  /\ At(e, "idle")
  /\ Kind[j] \in RoleKinds(Role[e])
  /\ Batch[j] \subseteq born
  /\ exec' = [exec EXCEPT ![e] = [IdleExec EXCEPT !.phase = "captured", !.job = j,
                                                 !.snapshot = Snapshot(j)]]
  /\ UNCHANGED <<receipts, domainVars, commits>>

(* claim_execution, under the advisory lock: the cases in the code's order. *)
(* Wrong variants: a retry is let through with other inputs than the first  *)
(* attempt; the attempts are not counted.                                   *)
RetryingAnyInput(e) ==
  LET r == receipts[exec[e].job] IN r.status = "failed" /\ r.retryable

ClaimableUnbounded(e) ==
  LET r == receipts[exec[e].job]
  IN \/ r.status = "absent"
     \/ r.status = "failed" /\ r.retryable /\ r.snapshot = exec[e].snapshot

Retrying(e) ==
  LET r == receipts[exec[e].job]
  IN r.status = "failed" /\ r.retryable /\ r.snapshot = exec[e].snapshot

Claimable(e) ==
  \/ receipts[exec[e].job].status = "absent"
  \/ Retrying(e) /\ receipts[exec[e].job].attempt < MaxAttempts

(* The job already runs or has its final outcome: answer with the receipt.  *)
ClaimAnswered(e) ==
  LET r == receipts[exec[e].job]
  IN /\ At(e, "captured")
     /\ \/ r.status = "running" /\ Answer(e, Refused(TRUE))
        \/ r.status = "succeeded" /\ Answer(e, Accepted(r.followups))
        \/ r.status = "failed" /\ ~r.retryable /\ Answer(e, Refused(FALSE))
     /\ UNCHANGED <<receipts, domainVars, commits>>

(* A retry whose inputs differ from those of the first attempt.             *)
ClaimConflict(e) ==
  LET r == receipts[exec[e].job]
  IN /\ At(e, "captured")
     /\ r.status = "failed" /\ r.retryable
     /\ r.snapshot # exec[e].snapshot
     /\ Answer(e, Refused(FALSE))
     /\ UNCHANGED <<receipts, domainVars, commits>>

ClaimExhausted(e) ==
  /\ At(e, "captured")
  /\ Retrying(e)
  /\ receipts[exec[e].job].attempt >= MaxAttempts
  /\ receipts' = [receipts EXCEPT ![exec[e].job] = Failed(@, FALSE)]
  /\ Answer(e, Refused(FALSE))
  /\ UNCHANGED <<domainVars, commits>>

(* Another job runs on the same target, document or chunk: come back later. *)
ClaimDeferred(e) ==
  /\ At(e, "captured")
  /\ Claimable(e)
  /\ \E k \in Jobs : Blocks(k, exec[e].job, exec[e].snapshot)
  /\ Answer(e, Refused(TRUE))
  /\ UNCHANGED <<receipts, domainVars, commits>>

ClaimExecution(e) ==
  /\ At(e, "captured")
  /\ Claimable(e)
  /\ ~ \E k \in Jobs : Blocks(k, exec[e].job, exec[e].snapshot)
  /\ receipts' = [receipts EXCEPT ![exec[e].job] = Started(@, exec[e].snapshot)]
  /\ Step(e, "claimed")
  /\ UNCHANGED <<domainVars, commits>>

-----------------------------------------------------------------------------
(* Execution.  FailWith writes a failed receipt and answers 503 or, for a   *)
(* result that reports failure, 200 with ok = false.                        *)

FailWith(e, retryable) ==
  /\ receipts' = [receipts EXCEPT ![exec[e].job] = Failed(@, retryable)]
  /\ Answer(e, Refused(retryable))
  /\ UNCHANGED <<domainVars, commits>>

StartWork(e) ==
  /\ At(e, "claimed")
  /\ Valid(e)
  /\ Step(e, "working")
  /\ UNCHANGED <<receipts, domainVars, commits>>

(* Deadline passed or inputs changed before the work: not retryable.        *)
RefuseStart(e) ==
  /\ At(e, "claimed")
  /\ ~Valid(e)
  /\ FailWith(e, FALSE)

(* An exception.  Planning turns every exception into a retryable one; an   *)
(* exception of the commit itself is a database error, hence retryable.     *)
WorkFails(e, retryable) ==
  /\ \/ At(e, "working") /\ (Kind[exec[e].job] = "plan" => retryable)
     \/ At(e, "persisting") /\ retryable
  /\ FailWith(e, retryable)

(* Planning commits its chunk claims and the children in one transaction,   *)
(* without validating again; the batches share no chunk.                    *)
CommitPlan(e) ==
  LET j == exec[e].job
  IN /\ At(e, "working") /\ Kind[j] = "plan"
     /\ \E batches \in SUBSET Children[j] :
          /\ \A b, c \in batches : b # c => Batch[b] \cap Batch[c] = {}
          /\ \A b \in batches : Batch[b] \subseteq live
          /\ receipts' = [receipts EXCEPT ![j] = Finished(@, batches)]
          /\ Answer(e, Accepted(batches))
     /\ commits' = [commits EXCEPT ![j] = @ + 1]
     /\ UNCHANGED domainVars

(* Parse and batch rows are written, then validated, in one transaction.    *)
Persist(e) ==
  /\ At(e, "working")
  /\ Kind[exec[e].job] \in {"parse", "batch"}
  /\ Valid(e)
  /\ Step(e, "persisting")
  /\ UNCHANGED <<receipts, domainVars, commits>>

PersistStale(e) ==
  /\ At(e, "working")
  /\ Kind[exec[e].job] \in {"parse", "batch"}
  /\ ~Valid(e)
  /\ FailWith(e, FALSE)

(* Wrong variant of CommitParse: the receipt is left to a later transaction.*)
CommitParseAlone(e) ==
  LET j == exec[e].job
  IN /\ At(e, "persisting") /\ Kind[j] = "parse"
     /\ commits' = [commits EXCEPT ![j] = @ + 1]
     /\ Step(e, "persisted")
     /\ UNCHANGED <<receipts, domainVars>>

(* The parse transaction replaces the document's chunks and finishes the    *)
(* receipt, with the planning job as its child.                             *)
CommitParse(e) ==
  LET j == exec[e].job
      old == {c \in live : ChunkNode[c] = Subject[j]}
  IN /\ At(e, "persisting") /\ Kind[j] = "parse"
     /\ \E new \in SUBSET {c \in Chunks \ born : ChunkNode[c] = Subject[j]} :
          /\ live' = (live \ old) \cup new
          /\ born' = born \cup new
     /\ receipts' = [receipts EXCEPT ![j] = Finished(@, Children[j])]
     /\ commits' = [commits EXCEPT ![j] = @ + 1]
     /\ Step(e, "persisted")
     /\ UNCHANGED <<blob, runtime>>

(* The batch transaction holds the embeddings only; its receipt is finished *)
(* by a later transaction.                                                  *)
CommitBatch(e) ==
  /\ At(e, "persisting") /\ Kind[exec[e].job] = "batch"
  /\ commits' = [commits EXCEPT ![exec[e].job] = @ + 1]
  /\ Step(e, "validating")
  /\ UNCHANGED <<receipts, domainVars>>

(* Work that has nothing to persist: a skipped parse or batch, an           *)
(* evaluation (whose run row is not part of this module).                   *)
NothingToPersist(e) ==
  /\ At(e, "working")
  /\ Kind[exec[e].job] # "plan"
  /\ Step(e, "validating")
  /\ UNCHANGED <<receipts, domainVars, commits>>

(* validate_execution once more, then finish_execution: again for a parse,  *)
(* for the first time for the others.                                       *)
FinishExecution(e) ==
  LET j == exec[e].job
      followups == IF At(e, "persisted") THEN Children[j] ELSE {}
  IN /\ At(e, "persisted") \/ At(e, "validating")
     /\ Valid(e)
     /\ receipts' = [receipts EXCEPT ![j] = Finished(@, followups)]
     /\ Answer(e, Accepted(followups))
     /\ UNCHANGED <<domainVars, commits>>

(* Wrong variant of LateStale: the late failure may be retried.             *)
LateStaleRetryable(e) ==
  (At(e, "persisted") \/ At(e, "validating")) /\ ~Valid(e) /\ FailWith(e, TRUE)

(* The late validation fails: fail_execution overwrites whatever the        *)
(* receipt says, the parse's own success included.                          *)
LateStale(e) ==
  /\ At(e, "persisted") \/ At(e, "validating")
  /\ ~Valid(e)
  /\ FailWith(e, FALSE)

(* The work's result reports failure: the document is gone, or the          *)
(* evaluation failed.                                                       *)
DomainFailure(e) ==
  /\ At(e, "validating")
  /\ Kind[exec[e].job] \in {"parse", "evaluate"}
  /\ Valid(e)
  /\ FailWith(e, FALSE)

(* The answer is sent and the slot released.                                *)
SendAnswer(e) ==
  /\ At(e, "answering")
  /\ exec' = [exec EXCEPT ![e] = IdleExec]
  /\ UNCHANGED <<receipts, domainVars, commits>>

-----------------------------------------------------------------------------
(* Time, faults, the operator and the rest of the system.                   *)

(* The deadline the request carries passes.                                 *)
Expire(e) ==
  /\ exec[e].phase \notin {"idle", "answering"}
  /\ ~exec[e].late
  /\ exec' = [exec EXCEPT ![e].late = TRUE]
  /\ UNCHANGED <<receipts, domainVars, commits>>

(* The process dies, or an exception escapes while the receipt is written:  *)
(* an open transaction rolls back and the receipt stays as it was.          *)
Crash(e) ==
  /\ ~At(e, "idle")
  /\ exec' = [exec EXCEPT ![e] = IdleExec]
  /\ UNCHANGED <<receipts, domainVars, commits>>

(* The operator releases a stranded receipt.  The command only asks for a   *)
(* flag; that the owning executor really was stopped is the operator's      *)
(* promise, modelled as a guard.                                            *)
OwnerStopped(j) == \A e \in Executors : exec[e].phase \in Owning => exec[e].job # j

ReleaseJob(j) ==
  /\ Running(j)
  /\ OwnerStopped(j)
  /\ receipts' = [receipts EXCEPT ![j] = Failed(@, TRUE)]
  /\ UNCHANGED <<exec, domainVars, commits>>

(* A new upload replaces the document's file.                               *)
ReplaceBlob(n) ==
  /\ blob[n] \in 1..(MaxBlob - 1)
  /\ blob' = [blob EXCEPT ![n] = @ + 1]
  /\ UNCHANGED <<receipts, exec, live, born, runtime, commits>>

(* The document is deleted; its blob and its chunks go with it.             *)
DeleteNode(n) ==
  /\ blob[n] # 0
  /\ blob' = [blob EXCEPT ![n] = 0]
  /\ live' = {c \in live : ChunkNode[c] # n}
  /\ UNCHANGED <<receipts, exec, born, runtime, commits>>

(* A runtime with another fingerprint is installed.                         *)
InstallRuntime ==
  /\ runtime < MaxRuntime
  /\ runtime' = runtime + 1
  /\ UNCHANGED <<receipts, exec, blob, live, born, commits>>

Claim(e) ==
  \/ ClaimAnswered(e) \/ ClaimConflict(e) \/ ClaimExhausted(e)
  \/ ClaimDeferred(e) \/ ClaimExecution(e)

Work(e) ==
  \/ StartWork(e) \/ RefuseStart(e)
  \/ \E retryable \in BOOLEAN : WorkFails(e, retryable)
  \/ CommitPlan(e) \/ Persist(e) \/ PersistStale(e)
  \/ CommitParse(e) \/ CommitBatch(e) \/ NothingToPersist(e)
  \/ FinishExecution(e) \/ LateStale(e) \/ DomainFailure(e)

Environment ==
  \/ \E e \in Executors : Expire(e) \/ Crash(e)
  \/ \E j \in Jobs : ReleaseJob(j)
  \/ \E n \in Nodes : ReplaceBlob(n) \/ DeleteNode(n)
  \/ InstallRuntime

Next ==
  \/ \E e \in Executors : \/ \E j \in Jobs : ReceiveJob(e, j)
                          \/ Claim(e) \/ Work(e) \/ SendAnswer(e)
  \/ Environment

Spec == Init /\ [][Next]_vars

-----------------------------------------------------------------------------
(* Properties.                                                              *)

(* Every variable has its type.                                             *)
TypeOK ==
  /\ receipts \in [Jobs -> Receipts]
  /\ exec \in [Executors -> Execs]
  /\ blob \in [Nodes -> Nat]
  /\ live \subseteq Chunks /\ born \subseteq Chunks
  /\ runtime \in Nat
  /\ commits \in [Jobs -> Nat]

(* Two running receipts never share a target, a document or a chunk, over   *)
(* any sequence of claims, retries, crashes and releases: claim_execution   *)
(* scans the running receipts under its lock, and a retry is only let       *)
(* through with the snapshot its receipt already has.                       *)
RunningDisjoint ==
  \A j, k \in Jobs : Running(j) => ~Blocks(k, j, receipts[j].snapshot)

(* An executor that may still write works under a running receipt holding   *)
(* the snapshot it validates against; no one else released, finished or     *)
(* reclaimed it meanwhile.                                                  *)
OwnerHoldsReceipt ==
  \A e \in Executors : exec[e].phase \in Owning =>
    /\ Running(exec[e].job)
    /\ receipts[exec[e].job].snapshot = exec[e].snapshot

(* Two executor processes never work on the same document at once, so no    *)
(* two of them interleave their writes to its parse result and chunks.      *)
WritersDisjoint ==
  \A e, f \in Executors :
    e # f /\ exec[e].phase \in Owning /\ exec[f].phase \in Owning =>
      /\ exec[e].job # exec[f].job
      /\ exec[e].snapshot.nodes \cap exec[f].snapshot.nodes = {}

(* Both, for whoever may still write.                                       *)
WritersHoldReceipts == OwnerHoldsReceipt /\ WritersDisjoint

(* A parse or a plan changes the document at most once however often its    *)
(* message is delivered, retried or released; a batch at most once per      *)
(* claimed attempt.                                                         *)
CommittedOnce ==
  \A j \in Jobs :
    /\ Kind[j] \in {"parse", "plan"} => commits[j] <= 1
    /\ commits[j] <= receipts[j].attempt

(* A parse that replaced the chunks recorded its planning job, and children *)
(* are recorded only by a job that committed: neither is durable alone.     *)
ChildrenWithCommit ==
  \A j \in Jobs :
    /\ receipts[j].followups # {} => commits[j] > 0
    /\ Kind[j] = "parse" /\ commits[j] > 0 => receipts[j].followups = Children[j]

(* What a job did to its document and what its receipt lists agree.         *)
CommittedWithChildren == CommittedOnce /\ ChildrenWithCommit

(* Once a receipt is final no later step starts the job again or makes it   *)
(* retryable, and the children it recorded stay the same set.               *)
FinalStaysFinal ==
  [][\A j \in Jobs : Final(receipts[j]) =>
       /\ Final(receipts'[j])
       /\ receipts'[j].followups = receipts[j].followups]_vars

(* A receipt that succeeded keeps answering success, as                     *)
(* test_executor_receipts.py expects of a replay of a finished job.         *)
SuccessIsTerminal ==
  [][\A j \in Jobs : receipts[j].status = "succeeded" =>
       receipts'[j].status = "succeeded"]_vars

(* What a running job holds in the abstract ledger.                         *)
Held(j) ==
  IF Running(j)
  THEN {<<"document", n>> : n \in receipts[j].snapshot.nodes}
         \cup {<<"chunk", c>> : c \in Batch[j]}
         \cup {<<Kind[j], IF Kind[j] = "batch" THEN Batch[j] ELSE Subject[j]>>}
  ELSE {}

Resources ==
  ({"document"} \X Nodes) \cup ({"chunk"} \X Chunks)
    \cup ({"parse", "plan"} \X Nodes) \cup ({"batch"} \X SUBSET Chunks)
    \cup ({"evaluate"} \X Runs)

Ledger == INSTANCE JobLedger WITH
  Budget <- MaxAttempts,
  held <- [j \in Jobs |-> Held(j)],
  grants <- [j \in Jobs |-> receipts[j].attempt],
  closed <- {j \in Jobs : Final(receipts[j])}

(* The receipts implement the abstract ledger: exclusive resources, at most *)
(* MaxAttempts starts, and no start after the final outcome.                *)
ImplementsLedger == Ledger!LedgerSpec

=============================================================================
