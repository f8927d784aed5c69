---------------------------- MODULE ExecutorProofs ----------------------------
(***************************************************************************)
(* Proofs about ExecutorDispatch, for every family of jobs, number of      *)
(* messages, retry limit and number of faults, with one executor process   *)
(* for each role.  They rest on those about the receipts: under the        *)
(* dispatch the executors run as ExecutorReceipts says.                    *)
(***************************************************************************)
EXTENDS ExecutorDispatch, ReceiptsProofs, WellFoundedInduction

-----------------------------------------------------------------------------
(* The age of a snapshot.  Versions of a file count up until it is deleted, *)
(* chunks disappear for good and runtimes follow one another: the inputs of *)
(* a job never return to what they once were.                               *)

Older(s, t) ==
  /\ t.nodes \subseteq s.nodes /\ s.runtime <= t.runtime
  /\ \A n \in Nodes : t.blobs[n] = 0 \/ (s.blobs[n] # 0 /\ s.blobs[n] <= t.blobs[n])

LEMMA OlderItself == ASSUME NEW s \in Snapshots PROVE Older(s, s)
  BY DEF Older, Snapshots

LEMMA OlderStill ==
  ASSUME NEW r \in Snapshots, NEW s \in Snapshots, NEW t \in Snapshots,
         Older(r, s), Older(s, t)
  PROVE  Older(r, t)
<1>1. ASSUME NEW n \in Nodes
      PROVE  t.blobs[n] = 0 \/ (r.blobs[n] # 0 /\ r.blobs[n] <= t.blobs[n])
  <2>1. r.blobs[n] \in Nat /\ s.blobs[n] \in Nat /\ t.blobs[n] \in Nat
    BY DEF Snapshots
  <2> QED
    BY <2>1 DEF Older
<1>2. r.runtime <= t.runtime
  BY DEF Older, Snapshots
<1> QED
  BY <1>1, <1>2 DEF Older

LEMMA OlderBothWays ==
  ASSUME NEW s \in Snapshots, NEW t \in Snapshots, Older(s, t), Older(t, s)
  PROVE  s = t
<1>1. s.nodes = t.nodes
  BY DEF Older
<1>2. s.runtime = t.runtime
  BY DEF Older, Snapshots
<1>3. s.blobs = t.blobs
  <2>1. s.blobs \in [Nodes -> Nat] /\ t.blobs \in [Nodes -> Nat]
    BY DEF Snapshots
  <2>2. ASSUME NEW n \in Nodes PROVE s.blobs[n] = t.blobs[n]
    <3>1. s.blobs[n] \in Nat /\ t.blobs[n] \in Nat
      BY <2>1
    <3> QED
      BY <3>1 DEF Older
  <2> QED
    BY <2>1, <2>2
<1> QED
  BY <1>1, <1>2, <1>3 DEF Snapshots

(* What was older and different stays different.                            *)
LEMMA OlderDiffers ==
  ASSUME NEW r \in Snapshots, NEW s \in Snapshots, NEW t \in Snapshots,
         Older(r, s), r # s, Older(s, t)
  PROVE  r # t
  BY OlderBothWays

-----------------------------------------------------------------------------
(* What a step of the executors does to the inputs and the requests.        *)

(* Only the domain variables decide a job's inputs.                         *)
LEMMA DomainMoves ==
  ASSUME TypeOK, Next
  PROVE  /\ born \subseteq born' /\ runtime <= runtime'
         /\ \A c \in live' : c \in live \/ c \notin born
         /\ \A n \in Nodes : blob'[n] = 0 \/ (blob[n] # 0 /\ blob[n] <= blob'[n])
<1>0. /\ blob \in [Nodes -> Nat] /\ runtime \in Nat /\ \A n \in Nodes : blob[n] \in Nat
  BY DEF TypeOK
<1>1. CASE UNCHANGED domainVars
  BY <1>0, <1>1 DEF domainVars
<1>2. ASSUME NEW e \in Executors, CommitParse(e)
      PROVE  /\ born \subseteq born' /\ UNCHANGED <<runtime, blob>>
             /\ \A c \in live' : c \in live \/ c \notin born
  BY <1>2 DEF CommitParse
<1>3. ASSUME NEW n \in Nodes, ReplaceBlob(n)
      PROVE  /\ UNCHANGED <<born, live, runtime>>
             /\ \A i \in Nodes : blob'[i] = 0 \/ (blob[i] # 0 /\ blob[i] <= blob'[i])
  BY <1>0, <1>3, StaticAssumption DEF ReplaceBlob
<1>4. ASSUME NEW n \in Nodes, DeleteNode(n)
      PROVE  /\ UNCHANGED <<born, runtime>> /\ live' \subseteq live
             /\ \A i \in Nodes : blob'[i] = 0 \/ (blob[i] # 0 /\ blob[i] <= blob'[i])
  BY <1>0, <1>4 DEF DeleteNode
<1>5. CASE InstallRuntime
  BY <1>0, <1>5 DEF InstallRuntime
<1>6. ASSUME NEW e \in Executors,
             \/ \E j \in Jobs : ReceiveJob(e, j)
             \/ Claim(e) \/ SendAnswer(e) \/ Expire(e) \/ Crash(e)
      PROVE  UNCHANGED domainVars
  BY <1>6
  DEF ReceiveJob, Claim, ClaimAnswered, ClaimConflict, ClaimExhausted, ClaimDeferred,
      ClaimExecution, SendAnswer, Expire, Crash
<1>7. ASSUME NEW e \in Executors, Work(e) PROVE CommitParse(e) \/ UNCHANGED domainVars
  BY <1>7
  DEF Work, StartWork, RefuseStart, WorkFails, CommitPlan, Persist, PersistStale,
      CommitBatch, NothingToPersist, FinishExecution, LateStale, DomainFailure, FailWith
<1>8. ASSUME NEW j \in Jobs, ReleaseJob(j) PROVE UNCHANGED domainVars
  BY <1>8 DEF ReleaseJob
<1> QED
  BY <1>0, <1>1, <1>2, <1>3, <1>4, <1>5, <1>6, <1>7, <1>8 DEF Next, Environment

LEMMA SnapshotAges ==
  ASSUME TypeOK, TypeOK', Next, NEW j \in Jobs, Batch[j] \subseteq born
  PROVE  Batch[j] \subseteq born' /\ Older(Snapshot(j), Snapshot(j)')
<1>1. /\ born \subseteq born' /\ runtime <= runtime'
      /\ \A c \in live' : c \in live \/ c \notin born
      /\ \A n \in Nodes : blob'[n] = 0 \/ (blob[n] # 0 /\ blob[n] <= blob'[n])
  BY DomainMoves
<1>2. SourceNodes(j)' \subseteq SourceNodes(j)
  BY <1>1 DEF SourceNodes
<1>3. ASSUME NEW n \in Nodes
      PROVE  LET old == IF n \in SourceNodes(j) THEN blob[n] ELSE 0
                 new == IF n \in SourceNodes(j)' THEN blob'[n] ELSE 0
             IN new = 0 \/ (old # 0 /\ old <= new)
  BY <1>1, <1>2
<1> QED
  BY <1>1, <1>2, <1>3 DEF Snapshot, Older

(* The step of one executor leaves the others alone.                        *)
Acts(f) ==
  \/ \E j \in Jobs : ReceiveJob(f, j)
  \/ Claim(f) \/ Work(f) \/ SendAnswer(f) \/ Expire(f) \/ Crash(f)

LEMMA OthersStay ==
  ASSUME TypeOK, NEW e \in Executors, NEW f \in Executors, f # e, Acts(f)
  PROVE  exec'[e] = exec[e]
<1>0. exec \in [Executors -> Execs]
  BY DEF TypeOK
<1>1. CASE Claim(f)
  BY <1>0, <1>1
  DEF Claim, ClaimAnswered, ClaimConflict, ClaimExhausted, ClaimDeferred, ClaimExecution,
      Answer, Step
<1>2. CASE Work(f)
  BY <1>0, <1>2
  DEF Work, StartWork, RefuseStart, WorkFails, CommitPlan, Persist, PersistStale, CommitParse,
      CommitBatch, NothingToPersist, FinishExecution, LateStale, DomainFailure, FailWith,
      Answer, Step
<1> QED
  BY <1>0, <1>1, <1>2 DEF Acts, ReceiveJob, SendAnswer, Expire, Crash

(* A request in a job slot keeps its job and snapshot until it is gone.     *)
Stays(e) ==
  /\ exec'[e].job = exec[e].job /\ exec'[e].snapshot = exec[e].snapshot
  /\ exec[e].phase # "idle" /\ exec'[e].phase # "idle"
  /\ exec'[e].phase = "captured" => exec[e].phase = "captured"

LEMMA WorkStays ==
  ASSUME TypeOK, NEW e \in Executors, Claim(e) \/ Work(e) \/ Expire(e) PROVE Stays(e)
<1>0. exec \in [Executors -> Execs] /\ exec[e] \in Execs
  BY DEF TypeOK
<1>1. ASSUME NEW phase \in Phases \ {"captured", "idle"}, Step(e, phase), ~At(e, "idle")
      PROVE  Stays(e)
  BY <1>0, <1>1 DEF Step, At, Execs, Stays
<1>2. ASSUME NEW a, Answer(e, a), ~At(e, "idle") PROVE Stays(e)
  BY <1>0, <1>2 DEF Answer, At, Execs, Stays
<1>3. CASE Claim(e)
  BY <1>1, <1>2, <1>3
  DEF Claim, ClaimAnswered, ClaimConflict, ClaimExhausted, ClaimDeferred, ClaimExecution, At, Phases
<1>4. CASE Work(e)
  BY <1>1, <1>2, <1>4
  DEF Work, StartWork, RefuseStart, WorkFails, CommitPlan, Persist, PersistStale, CommitParse,
      CommitBatch, NothingToPersist, FinishExecution, LateStale, DomainFailure, FailWith, At, Phases
<1>5. CASE Expire(e)
  BY <1>0, <1>5 DEF Expire, Execs, Stays
<1> QED
  BY <1>3, <1>4, <1>5

LEMMA RequestStays ==
  ASSUME TypeOK, Next, NEW e \in Executors
  PROVE  \/ exec'[e].phase = "idle"
         \/ \E j \in Jobs : ReceiveJob(e, j)
         \/ Stays(e)
<1>0. exec \in [Executors -> Execs] /\ exec[e] \in Execs
  BY DEF TypeOK
<1> DEFINE Outside == \/ \E j \in Jobs : ReleaseJob(j)
                      \/ \E n \in Nodes : ReplaceBlob(n) \/ DeleteNode(n)
                      \/ InstallRuntime
           Goal == exec'[e].phase = "idle" \/ Stays(e) \/ \E j \in Jobs : ReceiveJob(e, j)
<1>1. exec'[e] = exec[e] => Goal
  BY DEF Stays
<1>2. SendAnswer(e) \/ Crash(e) => Goal
  BY <1>0, IdlePhase DEF SendAnswer, Crash
<1>3. Acts(e) => Goal
  BY <1>2, WorkStays DEF Acts
<1>4. ASSUME NEW f \in Executors, Acts(f), f # e PROVE Goal
  BY <1>1, <1>4, OthersStay
<1>5. Outside => Goal
  BY <1>1 DEF ReleaseJob, ReplaceBlob, DeleteNode, InstallRuntime
<1>6. (\E f \in Executors : Acts(f)) \/ Outside
  BY DEF Next, Environment, Acts
<1> HIDE DEF Outside, Goal
<1>7. Goal
  BY <1>3, <1>4, <1>5, <1>6
<1> QED
  BY <1>7 DEF Goal

-----------------------------------------------------------------------------
(* The inputs and the answers.  With one process for each role, nobody else *)
(* touches the receipt of the job in a slot, except to release it.          *)

Recorded ==
  \A j \in Jobs :
    /\ receipts[j].followups \subseteq Children[j]
    /\ ~Final(receipts[j]) => receipts[j].followups = {}

JobFitsRole ==
  \A e \in Executors : ~At(e, "idle") => Kind[exec[e].job] \in RoleKinds(Role[e])

Aged(j, s) == Batch[j] \subseteq born /\ Older(s, Snapshot(j))

InputsAge ==
  /\ \A e \in Executors : ~At(e, "idle") => Aged(exec[e].job, exec[e].snapshot)
  /\ \A j \in Jobs : receipts[j].status # "absent" => Aged(j, receipts[j].snapshot)
  /\ \A e \in Executors :
       At(e, "captured") /\ receipts[exec[e].job].status # "absent" =>
         Older(receipts[exec[e].job].snapshot, exec[e].snapshot)

(* Nothing is left to do for the message of a job.                          *)
Over(j) ==
  \/ Final(receipts[j])
  \/ receipts[j].status = "failed" /\ receipts[j].snapshot # Snapshot(j)

AnswerTrueOf(e) ==
  /\ exec[e].answer.ok =>
       /\ Final(receipts[exec[e].job])
       /\ exec[e].answer.followups \subseteq receipts[exec[e].job].followups
  /\ ~exec[e].answer.ok /\ ~exec[e].answer.retryable => Over(exec[e].job)

AnswerTrue == \A e \in Executors : At(e, "answering") => AnswerTrueOf(e)

InputInv == Recorded /\ JobFitsRole /\ InputsAge /\ AnswerTrue

LEMMA InputInvStart == Init => InputInv
<1> SUFFICES ASSUME Init PROVE InputInv
  OBVIOUS
<1>1. \A e \in Executors : At(e, "idle")
  BY IdlePhase DEF Init, At
<1>2. \A j \in Jobs : receipts[j].status = "absent" /\ receipts[j].followups = {}
  BY DEF Init, NoReceipt
<1>3. \A e \in Executors : ~At(e, "captured") /\ ~At(e, "answering")
  BY <1>1 DEF At
<1>4. Recorded
  BY <1>2 DEF Recorded
<1>5. JobFitsRole /\ AnswerTrue
  BY <1>1, <1>3 DEF JobFitsRole, AnswerTrue
<1>6. InputsAge
  BY <1>1, <1>2, <1>3 DEF InputsAge
<1> QED
  BY <1>4, <1>5, <1>6 DEF InputInv

LEMMA OneExecutorEachJob ==
  ASSUME TypeOK, JobFitsRole, NEW e \in Executors, NEW f \in Executors,
         ~At(e, "idle"), ~At(f, "idle"), exec[e].job = exec[f].job
  PROVE  e = f
<1>1. Role[e] \in {"parser", "embedding"} /\ Role[f] \in {"parser", "embedding"}
  BY StaticAssumption
<1>2. Kind[exec[e].job] \in RoleKinds(Role[e]) /\ Kind[exec[e].job] \in RoleKinds(Role[f])
  BY DEF JobFitsRole
<1>3. Role[e] = Role[f]
  BY <1>1, <1>2 DEF RoleKinds
<1> QED
  BY <1>3, OneProcessPerRole

(* Final receipts stay as they are (a step of FinalNeverReopens).           *)
LEMMA FinalKept ==
  ASSUME CommitInv, Next, NEW j \in Jobs, Final(receipts[j])
  PROVE  Final(receipts'[j]) /\ receipts'[j].followups = receipts[j].followups
<1>1. Claimed(j) \/ Exhausted(j) \/ Settled(j) => ~Final(receipts[j])
  BY DEF Claimed, Exhausted, Settled, ClaimExecution, ClaimExhausted, Claimable, Retrying,
         Running, Final
<1>2. CASE UNCHANGED receipts
  BY <1>2
<1>3. ASSUME NEW k \in Jobs, \A i \in Jobs \ {k} : receipts'[i] = receipts[i],
             Claimed(k) \/ Exhausted(k) \/ Settled(k) \/ Rewritten(k)
      PROVE  Final(receipts'[j]) /\ receipts'[j].followups = receipts[j].followups
  BY <1>1, <1>3 DEF Rewritten
<1> QED
  BY <1>2, <1>3, OneReceiptMoves

(* What a claim or a retry that is refused for good writes.                 *)
LEMMA ClaimedReceipt ==
  ASSUME CommitInv, NEW j \in Jobs, NEW e \in Executors, exec[e].job = j, ClaimExecution(e)
  PROVE  /\ receipts'[j].status = "running"
         /\ receipts'[j].followups = receipts[j].followups
         /\ ~Final(receipts[j]) /\ At(e, "captured") /\ ~At(e, "captured")'
         /\ receipts'[j].snapshot = IF receipts[j].status = "absent" THEN exec[e].snapshot
                                    ELSE receipts[j].snapshot
<1>0. receipts \in [Jobs -> Receipts] /\ receipts[j] \in Receipts /\ exec \in [Executors -> Execs]
  BY DEF CommitInv, ExclInv, TypeInv, TypeOK
<1>1. receipts'[j] = Started(receipts[j], exec[e].snapshot)
  BY <1>0 DEF ClaimExecution
<1>2. ~Final(receipts[j])
  BY DEF ClaimExecution, Claimable, Retrying, Final
<1>3. At(e, "captured") /\ ~At(e, "captured")'
  BY <1>0 DEF ClaimExecution, Step, At, Execs
<1>4. /\ Started(receipts[j], exec[e].snapshot).status = "running"
      /\ Started(receipts[j], exec[e].snapshot).followups = receipts[j].followups
      /\ Started(receipts[j], exec[e].snapshot).snapshot =
           IF receipts[j].status = "absent" THEN exec[e].snapshot ELSE receipts[j].snapshot
  BY <1>0 DEF Started, Receipts
<1> QED
  BY <1>1, <1>2, <1>3, <1>4

LEMMA ExhaustedReceipt ==
  ASSUME CommitInv, NEW j \in Jobs, NEW e \in Executors, exec[e].job = j, ClaimExhausted(e)
  PROVE  /\ Final(receipts'[j]) /\ receipts[j].status = "failed"
         /\ receipts'[j].snapshot = receipts[j].snapshot
         /\ receipts'[j].followups = receipts[j].followups
<1>0. receipts \in [Jobs -> Receipts] /\ receipts[j] \in Receipts
  BY DEF CommitInv, ExclInv, TypeInv, TypeOK
<1>1. receipts'[j] = Failed(receipts[j], FALSE)
  BY <1>0 DEF ClaimExhausted
<1>2. receipts[j].status = "failed"
  BY DEF ClaimExhausted, Retrying
<1>3. /\ Failed(receipts[j], FALSE).status = "failed" /\ ~Failed(receipts[j], FALSE).retryable
      /\ Failed(receipts[j], FALSE).snapshot = receipts[j].snapshot
      /\ Failed(receipts[j], FALSE).followups = receipts[j].followups
  BY <1>0 DEF Failed, Receipts
<1> QED
  BY <1>1, <1>2, <1>3 DEF Final

(* All that the invariants below have to know of a receipt in a step.       *)
LEMMA ReceiptMoves ==
  ASSUME CommitInv, Next, NEW j \in Jobs
  PROVE  \/ receipts'[j] = receipts[j]
         \/ /\ \/ receipts'[j].followups = receipts[j].followups
               \/ Final(receipts'[j]) /\ receipts'[j].followups \subseteq Children[j]
            /\ Final(receipts'[j]) \/ ~Final(receipts[j])
            /\ \/ /\ receipts[j].status # "absent"
                  /\ receipts'[j].snapshot = receipts[j].snapshot
                  /\ Final(receipts'[j]) \/ Running(j)
               \/ \E e \in Executors :
                    /\ At(e, "captured") /\ ~At(e, "captured")' /\ exec[e].job = j
                    /\ receipts'[j].snapshot = IF receipts[j].status = "absent"
                                               THEN exec[e].snapshot ELSE receipts[j].snapshot
<1>1. CASE UNCHANGED receipts
  BY <1>1
<1>2. ASSUME NEW k \in Jobs, \A i \in Jobs \ {k} : receipts'[i] = receipts[i], k # j
      PROVE  receipts'[j] = receipts[j]
  BY <1>2
<1>3. CASE Claimed(j)
  BY <1>3, ClaimedReceipt DEF Claimed
<1>4. CASE Exhausted(j)
  BY <1>4, ExhaustedReceipt DEF Exhausted
<1>5. CASE Settled(j)
  BY <1>5 DEF Settled, Running, Final
<1>6. CASE Rewritten(j)
  BY <1>6 DEF Rewritten, Final
<1> QED
  BY <1>1, <1>2, <1>3, <1>4, <1>5, <1>6, OneReceiptMoves

LEMMA RecordedKept ==
  ASSUME CommitInv, Recorded, Next PROVE Recorded'
<1> SUFFICES ASSUME NEW j \in Jobs
             PROVE  /\ receipts'[j].followups \subseteq Children[j]
                    /\ ~Final(receipts'[j]) => receipts'[j].followups = {}
  BY DEF Recorded
<1>1. /\ receipts'[j].followups = receipts[j].followups \/ receipts'[j].followups \subseteq Children[j]
      /\ ~Final(receipts'[j]) => /\ receipts'[j].followups = receipts[j].followups
                                 /\ ~Final(receipts[j])
  BY ReceiptMoves
<1> QED
  BY <1>1 DEF Recorded

LEMMA Received ==
  ASSUME TypeOK, NEW e \in Executors, NEW j \in Jobs, ReceiveJob(e, j)
  PROVE  /\ At(e, "idle") /\ exec'[e].phase = "captured" /\ exec'[e].job = j
         /\ exec'[e].snapshot = Snapshot(j) /\ Snapshot(j)' = Snapshot(j)
         /\ UNCHANGED <<receipts, domainVars>>
         /\ Batch[j] \subseteq born /\ Kind[j] \in RoleKinds(Role[e])
<1>1. /\ [IdleExec EXCEPT !.phase = "captured", !.job = j, !.snapshot = Snapshot(j)].phase = "captured"
      /\ [IdleExec EXCEPT !.phase = "captured", !.job = j, !.snapshot = Snapshot(j)].job = j
      /\ [IdleExec EXCEPT !.phase = "captured", !.job = j, !.snapshot = Snapshot(j)].snapshot = Snapshot(j)
  BY DEF IdleExec
<1>2. exec'[e] = [IdleExec EXCEPT !.phase = "captured", !.job = j, !.snapshot = Snapshot(j)]
  BY DEF ReceiveJob, TypeOK
<1>3. Snapshot(j)' = Snapshot(j)
  BY DEF ReceiveJob, domainVars, Snapshot, SourceNodes
<1> QED
  BY <1>1, <1>2, <1>3 DEF ReceiveJob

LEMMA JobFitsRoleKept ==
  ASSUME TypeOK, JobFitsRole, Next PROVE JobFitsRole'
<1> SUFFICES ASSUME NEW e \in Executors, exec'[e].phase # "idle"
             PROVE  Kind[exec'[e].job] \in RoleKinds(Role[e])
  BY DEF JobFitsRole, At
<1>1. CASE \E j \in Jobs : ReceiveJob(e, j)
  BY <1>1, Received
<1>2. CASE exec'[e].job = exec[e].job /\ exec[e].phase # "idle"
  BY <1>2 DEF JobFitsRole, At
<1> QED
  BY <1>1, <1>2, RequestStays DEF Stays

LEMMA NextSnapshotType ==
  ASSUME TypeOK', NEW j \in Jobs
  PROVE  Snapshot(j)' \in Snapshots
<1>1. SourceNodes(j)' \in SUBSET Nodes
  BY StaticAssumption DEF SourceNodes, TypeOK
<1>2. [n \in Nodes |-> IF n \in SourceNodes(j)' THEN blob'[n] ELSE 0] \in [Nodes -> Nat]
  BY DEF TypeOK
<1> QED
  BY <1>1, <1>2 DEF Snapshot, Snapshots, TypeOK

LEMMA AgedStill ==
  ASSUME TypeOK, TypeOK', Next, NEW j \in Jobs, NEW s \in Snapshots, Aged(j, s)
  PROVE  Batch[j] \subseteq born' /\ Older(s, Snapshot(j)')
<1>1. Batch[j] \subseteq born' /\ Older(Snapshot(j), Snapshot(j)')
  BY SnapshotAges DEF Aged
<1>2. Snapshot(j) \in Snapshots /\ Snapshot(j)' \in Snapshots
  BY SnapshotType, NextSnapshotType
<1> QED
  BY <1>1, <1>2, OlderStill DEF Aged

LEMMA InputsAgeKept ==
  ASSUME CommitInv, CommitInv', JobFitsRole, InputsAge, Next PROVE InputsAge'
<1>0. /\ TypeOK /\ TypeOK'
      /\ \A e \in Executors : exec[e].job \in Jobs /\ exec[e].snapshot \in Snapshots
      /\ \A e \in Executors : exec'[e].job \in Jobs /\ exec'[e].snapshot \in Snapshots
      /\ \A j \in Jobs : receipts[j].snapshot \in Snapshots /\ receipts'[j].snapshot \in Snapshots
  BY DEF CommitInv, ExclInv, TypeInv, TypeOK, Execs, Receipts
<1>1. ASSUME NEW e \in Executors, exec'[e].phase # "idle"
      PROVE  Aged(exec[e].job, exec[e].snapshot)'
  <2>1. ASSUME NEW j \in Jobs, ReceiveJob(e, j) PROVE Aged(exec[e].job, exec[e].snapshot)'
    <3>1. /\ exec'[e].job = j /\ exec'[e].snapshot = Snapshot(j) /\ Batch[j] \subseteq born'
          /\ Snapshot(j)' = Snapshot(j)
      BY <1>0, <2>1, Received DEF domainVars
    <3>2. Older(Snapshot(j), Snapshot(j))
      BY <1>0, SnapshotType, OlderItself
    <3> QED
      BY <3>1, <3>2 DEF Aged
  <2>2. CASE exec'[e].job = exec[e].job /\ exec'[e].snapshot = exec[e].snapshot /\ exec[e].phase # "idle"
    <3>1. Aged(exec[e].job, exec[e].snapshot)
      BY <2>2 DEF InputsAge, At
    <3>2. /\ Batch[exec[e].job] \subseteq born'
          /\ \A j \in Jobs : j = exec[e].job => Older(exec[e].snapshot, Snapshot(j)')
      BY <1>0, <3>1, AgedStill
    <3> QED
      BY <1>0, <2>2, <3>2 DEF Aged
  <2> QED
    BY <1>0, <1>1, <2>1, <2>2, RequestStays DEF Stays
<1>2. ASSUME NEW j \in Jobs, receipts'[j].status # "absent"
      PROVE  Batch[j] \subseteq born' /\ Older(receipts'[j].snapshot, Snapshot(j)')
  <2>1. \E s \in Snapshots : receipts'[j].snapshot = s /\ Aged(j, s)
    <3>1. CASE receipts[j].status # "absent" /\ receipts'[j].snapshot = receipts[j].snapshot
      BY <1>0, <3>1 DEF InputsAge
    <3>2. CASE \E e \in Executors : At(e, "captured") /\ exec[e].job = j
                                    /\ receipts'[j].snapshot = exec[e].snapshot
      BY <1>0, <3>2 DEF InputsAge, At
    <3> QED
      BY <1>2, <3>1, <3>2, ReceiptMoves
  <2> QED
    BY <1>0, <2>1, AgedStill
<1>3. ASSUME NEW e \in Executors, exec'[e].phase = "captured",
             receipts'[exec'[e].job].status # "absent"
      PROVE  Older(receipts'[exec'[e].job].snapshot, exec'[e].snapshot)
  <2>1. ASSUME NEW j \in Jobs, ReceiveJob(e, j)
        PROVE  Older(receipts'[exec'[e].job].snapshot, exec'[e].snapshot)
    BY <1>0, <1>2, <1>3, <2>1, Received
  <2>2. CASE /\ exec'[e].job = exec[e].job /\ exec'[e].snapshot = exec[e].snapshot
             /\ exec[e].phase = "captured"
    <3> DEFINE j == exec[e].job
    <3>1. j \in Jobs /\ receipts'[j].status # "absent"
      BY <1>0, <1>3, <2>2
    <3>2. ASSUME NEW f \in Executors, At(f, "captured"), ~At(f, "captured")', exec[f].job = j
          PROVE  FALSE
      <4>1. f = e
        BY <1>0, <2>2, <3>2, OneExecutorEachJob DEF At
      <4> QED
        BY <1>3, <3>2, <4>1 DEF At
    <3>3. receipts[j].status # "absent" /\ receipts'[j].snapshot = receipts[j].snapshot
      BY <3>1, <3>2, ReceiptMoves
    <3> QED
      BY <2>2, <3>3 DEF InputsAge, At
  <2> QED
    BY <1>0, <1>3, <2>1, <2>2, RequestStays DEF Stays
<1> QED
  BY <1>1, <1>2, <1>3 DEF InputsAge, Aged, At

(* What is over for the job in a slot stays so while its answer waits.      *)
LEMMA OverStays ==
  ASSUME CommitInv, CommitInv', JobFitsRole, InputsAge, Next,
         NEW e \in Executors, At(e, "answering"), Over(exec[e].job)
  PROVE  \A j \in Jobs : j = exec[e].job => Over(j)'
<1> DEFINE j == exec[e].job
<1>0. /\ TypeOK /\ TypeOK' /\ j \in Jobs /\ receipts[j].snapshot \in Snapshots
      /\ Snapshot(j) \in Snapshots /\ (\A i \in Jobs : Snapshot(i)' \in Snapshots)
  BY SnapshotType, NextSnapshotType DEF CommitInv, ExclInv, TypeInv, TypeOK, Execs, Receipts
<1> SUFFICES ASSUME NEW i \in Jobs, i = j PROVE Over(i)'
  OBVIOUS
<1>1. CASE Final(receipts[i])
  BY <1>1, FinalKept DEF Over
<1>2. CASE ~Final(receipts[i])
  <2>1. receipts[i].status = "failed" /\ receipts[i].snapshot # Snapshot(i)
    BY <1>2 DEF Over
  <2>2. ASSUME NEW f \in Executors, At(f, "captured"), exec[f].job = i PROVE FALSE
    BY <1>0, <2>2, OneExecutorEachJob DEF At
  <2>3. CASE receipts'[i] = receipts[i]
    <3>1. Aged(i, receipts[i].snapshot)
      BY <2>1 DEF InputsAge
    <3>2. Older(receipts[i].snapshot, Snapshot(i)) /\ Older(Snapshot(i), Snapshot(i)')
      BY <1>0, <3>1, SnapshotAges DEF Aged
    <3>3. receipts[i].snapshot # Snapshot(i)'
      BY <1>0, <2>1, <3>2, OlderDiffers
    <3> QED
      BY <2>1, <2>3, <3>3 DEF Over
  <2>4. CASE Final(receipts'[i])
    BY <2>4 DEF Over
  <2> QED
    BY <2>1, <2>2, <2>3, <2>4, ReceiptMoves DEF Running
<1> QED
  BY <1>1, <1>2

LEMMA AnswerMoves ==
  ASSUME TypeOK, Next, NEW e \in Executors, exec'[e].phase = "answering"
  PROVE  \/ exec'[e] = exec[e] /\ At(e, "answering")
         \/ Claim(e) \/ Work(e)
<1>0. exec \in [Executors -> Execs] /\ exec[e] \in Execs
  BY DEF TypeOK
<1>1. ASSUME NEW f \in Executors, f # e, Acts(f) PROVE exec'[e] = exec[e]
  BY <1>1, OthersStay
<1>2. ASSUME \/ \E j \in Jobs : ReceiveJob(e, j)
             \/ SendAnswer(e) \/ Expire(e) \/ Crash(e)
      PROVE  FALSE
  <2>1. CASE \E j \in Jobs : ReceiveJob(e, j)
    BY <2>1, Received
  <2>2. CASE Expire(e)
    BY <1>0, <2>2 DEF Expire, Execs
  <2>3. CASE SendAnswer(e) \/ Crash(e)
    BY <1>0, <2>3, IdlePhase DEF SendAnswer, Crash
  <2> QED
    BY <1>2, <2>1, <2>2, <2>3
<1>3. CASE \/ \E j \in Jobs : ReleaseJob(j)
           \/ \E n \in Nodes : ReplaceBlob(n) \/ DeleteNode(n)
           \/ InstallRuntime
  BY <1>3 DEF ReleaseJob, ReplaceBlob, DeleteNode, InstallRuntime, At
<1>4. ASSUME NEW f \in Executors, Acts(f)
      PROVE  exec'[e] = exec[e] \/ Claim(e) \/ Work(e)
  <2>1. CASE f = e
    <3>1. Acts(e)
      BY <1>4, <2>1
    <3> QED
      BY <1>2, <3>1 DEF Acts
  <2> QED
    BY <1>1, <1>4, <2>1
<1>5. (\E f \in Executors : Acts(f)) \/ (\E j \in Jobs : ReleaseJob(j))
        \/ (\E n \in Nodes : ReplaceBlob(n) \/ DeleteNode(n)) \/ InstallRuntime
  BY DEF Next, Environment, Acts
<1> QED
  BY <1>3, <1>4, <1>5 DEF At

(* What an executor that turns to answering answers is true.                *)
LEMMA NewAnswer ==
  ASSUME CommitInv, CommitInv', JobFitsRole, InputsAge, NEW e \in Executors,
         Claim(e) \/ Work(e), exec'[e].phase = "answering"
  PROVE  AnswerTrueOf(e)'
<1> DEFINE j == exec[e].job
<1>0. /\ exec \in [Executors -> Execs] /\ exec[e] \in Execs
      /\ receipts \in [Jobs -> Receipts] /\ j \in Jobs /\ receipts[j] \in Receipts
      /\ receipts[j].followups \in SUBSET Jobs /\ Children[j] \in SUBSET Jobs
      /\ receipts[j].snapshot \in Snapshots /\ exec[e].snapshot \in Snapshots
  BY StaticAssumption DEF CommitInv, ExclInv, TypeInv, TypeOK, Execs, Receipts
<1>1. ASSUME NEW a, Answer(e, a) PROVE exec'[e].answer = a /\ exec'[e].job = j
  BY <1>0, <1>1 DEF Answer, Execs
<1>2. /\ \A b \in BOOLEAN : ~Refused(b).ok /\ Refused(b).retryable = b
      /\ \A S \in SUBSET Jobs : Accepted(S).ok /\ Accepted(S).followups = S
  BY DEF Refused, Accepted
<1>3. ASSUME Answer(e, Refused(TRUE)) PROVE AnswerTrueOf(e)'
  BY <1>1, <1>2, <1>3 DEF AnswerTrueOf
<1>4. ASSUME Answer(e, Refused(FALSE)), Final(receipts'[j]) PROVE AnswerTrueOf(e)'
  BY <1>1, <1>2, <1>4 DEF AnswerTrueOf, Over
<1>5. ASSUME NEW S \in SUBSET Jobs, Answer(e, Accepted(S)), Final(receipts'[j]),
             receipts'[j].followups = S
      PROVE  AnswerTrueOf(e)'
  BY <1>1, <1>2, <1>5 DEF AnswerTrueOf
<1>6. ASSUME NEW b \in BOOLEAN, FailWith(e, b) PROVE AnswerTrueOf(e)'
  <2>1. receipts'[j] = Failed(receipts[j], b)
    BY <1>0, <1>6 DEF FailWith
  <2>2. Failed(receipts[j], b).status = "failed" /\ Failed(receipts[j], b).retryable = b
    BY <1>0, OutcomeRecords
  <2> QED
    BY <1>3, <1>4, <1>6, <2>1, <2>2 DEF FailWith, Final
<1>7. ASSUME NEW S \in SUBSET Jobs, receipts' = [receipts EXCEPT ![j] = Finished(@, S)],
             Answer(e, Accepted(S))
      PROVE  AnswerTrueOf(e)'
  <2>1. receipts'[j] = Finished(receipts[j], S)
    BY <1>0, <1>7
  <2>2. Finished(receipts[j], S).status = "succeeded" /\ Finished(receipts[j], S).followups = S
    BY <1>0, OutcomeRecords
  <2> QED
    BY <1>5, <1>7, <2>1, <2>2 DEF Final
<1>8. ASSUME NEW phase, Step(e, phase) PROVE phase = "answering"
  BY <1>0, <1>8 DEF Step, Execs
<1>9. CASE ClaimAnswered(e)
  <2>1. UNCHANGED receipts
    BY <1>9 DEF ClaimAnswered
  <2>2. CASE receipts[j].status = "running"
    BY <1>3, <1>9, <2>2 DEF ClaimAnswered
  <2>3. CASE receipts[j].status = "succeeded"
    BY <1>0, <1>5, <1>9, <2>1, <2>3 DEF ClaimAnswered, Final
  <2>4. CASE receipts[j].status = "failed" /\ ~receipts[j].retryable
    BY <1>4, <1>9, <2>1, <2>4 DEF ClaimAnswered, Final
  <2> QED
    BY <1>9, <2>2, <2>3, <2>4 DEF ClaimAnswered
<1>10. CASE ClaimConflict(e)
  <2>0. UNCHANGED domainVars
    BY <1>10 DEF ClaimConflict
  <2>1. /\ UNCHANGED receipts /\ At(e, "captured")
        /\ receipts[j].status = "failed" /\ receipts[j].snapshot # exec[e].snapshot
        /\ Answer(e, Refused(FALSE))
    BY <1>10 DEF ClaimConflict
  <2>2. Older(receipts[j].snapshot, exec[e].snapshot) /\ Older(exec[e].snapshot, Snapshot(j))
    BY <2>1 DEF InputsAge, At, Aged
  <2>3. Snapshot(j) \in Snapshots
    BY <1>0, SnapshotType DEF CommitInv, ExclInv, TypeInv
  <2>4. receipts[j].snapshot # Snapshot(j)
    BY <1>0, <2>1, <2>2, <2>3, OlderDiffers
  <2>5. ASSUME NEW i \in Jobs, i = j PROVE Over(i)'
    BY <2>0, <2>1, <2>4, <2>5 DEF Over, Snapshot, SourceNodes, domainVars
  <2> QED
    BY <1>0, <1>1, <1>2, <2>1, <2>5, ZenonT(60) DEF AnswerTrueOf
<1>11. CASE ClaimExhausted(e)
  BY <1>0, <1>4, <1>11, ExhaustedReceipt DEF ClaimExhausted
<1>12. CASE ClaimDeferred(e)
  BY <1>3, <1>12 DEF ClaimDeferred
<1>13. CASE CommitPlan(e)
  <2>1. PICK S \in SUBSET Children[j] :
          /\ receipts' = [receipts EXCEPT ![j] = Finished(@, S)]
          /\ Answer(e, Accepted(S))
    BY <1>13 DEF CommitPlan
  <2> QED
    BY <1>0, <1>7, <2>1
<1>14. CASE FinishExecution(e)
  <2> DEFINE S == IF At(e, "persisted") THEN Children[j] ELSE {}
  <2>1. /\ S \in SUBSET Jobs
        /\ receipts' = [receipts EXCEPT ![j] = Finished(@, S)] /\ Answer(e, Accepted(S))
    BY <1>0, <1>14 DEF FinishExecution
  <2> HIDE DEF S
  <2> QED
    BY <1>7, <2>1
<1>15. CASE \E b \in BOOLEAN : WorkFails(e, b)
  BY <1>6, <1>15 DEF WorkFails
<1>16. CASE RefuseStart(e) \/ PersistStale(e) \/ LateStale(e) \/ DomainFailure(e)
  BY <1>6, <1>16 DEF RefuseStart, PersistStale, LateStale, DomainFailure
<1>17. CASE \/ ClaimExecution(e) \/ StartWork(e) \/ Persist(e) \/ CommitParse(e)
            \/ CommitBatch(e) \/ NothingToPersist(e)
  BY <1>8, <1>17
  DEF ClaimExecution, StartWork, Persist, CommitParse, CommitBatch, NothingToPersist
<1> QED
  BY <1>9, <1>10, <1>11, <1>12, <1>13, <1>14, <1>15, <1>16, <1>17 DEF Claim, Work

LEMMA AnswerTrueKept ==
  ASSUME CommitInv, CommitInv', InputInv, Next PROVE AnswerTrue'
<1> SUFFICES ASSUME NEW e \in Executors, exec'[e].phase = "answering"
             PROVE  AnswerTrueOf(e)'
  BY DEF AnswerTrue, At
<1>0. TypeOK /\ exec[e].job \in Jobs
  BY DEF CommitInv, ExclInv, TypeInv, TypeOK, Execs
<1>1. CASE Claim(e) \/ Work(e)
  BY <1>1, NewAnswer DEF InputInv
<1>2. CASE exec'[e] = exec[e] /\ At(e, "answering")
  <2>1. AnswerTrueOf(e)
    BY <1>2 DEF InputInv, AnswerTrue
  <2>2. Final(receipts[exec[e].job]) =>
          /\ Final(receipts'[exec[e].job])
          /\ receipts'[exec[e].job].followups = receipts[exec[e].job].followups
    BY <1>0, FinalKept
  <2>3. Over(exec[e].job) => \A j \in Jobs : j = exec[e].job => Over(j)'
    BY <1>2, OverStays DEF InputInv
  <2>4. ~exec'[e].answer.ok /\ ~exec'[e].answer.retryable => Over(exec[e].job)'
    BY <1>0, <1>2, <2>1, <2>3 DEF AnswerTrueOf
  <2> QED
    BY <1>2, <2>1, <2>2, <2>4 DEF AnswerTrueOf
<1> QED
  BY <1>0, <1>1, <1>2, AnswerMoves

LEMMA InputInvStep ==
  CommitInv /\ InputInv /\ [Next]_vars => InputInv'
<1> SUFFICES ASSUME CommitInv, InputInv, [Next]_vars PROVE InputInv'
  OBVIOUS
<1>0. CommitInv' /\ TypeOK
  BY CommitInvStep DEF CommitInv, ExclInv, TypeInv
<1>1. CASE UNCHANGED vars
  BY <1>1
  DEF vars, domainVars, InputInv, Recorded, JobFitsRole, InputsAge, AnswerTrue, AnswerTrueOf, Over,
      Aged, At, Snapshot, SourceNodes
<1>2. CASE Next
  BY <1>0, <1>2, RecordedKept, JobFitsRoleKept, InputsAgeKept, AnswerTrueKept DEF InputInv
<1> QED
  BY <1>1, <1>2

-----------------------------------------------------------------------------
(* The messages of a job are numbered; apply_async takes the first free one.*)

LEMMA LeastOf ==
  ASSUME NEW S \in SUBSET Nat, S # {}
  PROVE  \E n \in S : \A m \in S : n <= m
<1> DEFINE R == OpToRel(<, Nat)
<1>1. IsWellFoundedOn(R, Nat)
  BY NatLessThanWellFounded
<1>2. \A x, y \in Nat : y < x => <<y, x>> \in R
  BY DEF OpToRel
<1> HIDE DEF R
<1>3. PICK n \in S : \A y \in S : <<y, n>> \notin R
  BY <1>1, WFMin
<1>4. ASSUME NEW m \in S PROVE n <= m
  <2>1. m \in Nat /\ n \in Nat
    OBVIOUS
  <2>2. ~(m < n)
    BY <1>2, <1>3, <2>1
  <2> QED
    BY <2>1, <2>2
<1> QED
  BY <1>4

LEMMA EnqueuedAdds ==
  ASSUME NEW messages \in [Messages -> MessageStates], NEW j \in Jobs,
         \E i \in 1..MaxCopies : messages[<<j, i>>].state = "none"
  PROVE  \E k \in 1..MaxCopies :
           /\ messages[<<j, k>>].state = "none"
           /\ Enqueued(messages, j) = [messages EXCEPT ![<<j, k>>].state = "queued"]
<1> DEFINE Free == {i \in 1..MaxCopies : messages[<<j, i>>].state = "none"}
           First(i) == /\ messages[<<j, i>>].state = "none"
                       /\ \A h \in 1..(i - 1) : messages[<<j, h>>].state # "none"
<1>1. Free \in SUBSET Nat /\ Free # {}
  OBVIOUS
<1>2. PICK n \in Free : \A i \in Free : n <= i
  BY <1>1, LeastOf
<1>3. n \in 1..MaxCopies /\ First(n)
  <2>1. n \in 1..MaxCopies /\ MaxCopies \in Nat
    BY DispatchAssumption
  <2>2. ASSUME NEW h \in 1..(n - 1), messages[<<j, h>>].state = "none" PROVE FALSE
    <3>1. h \in 1..MaxCopies /\ h < n
      BY <2>1, <2>2
    <3>2. h \in Free
      BY <2>2, <3>1
    <3> QED
      BY <1>2, <2>1, <3>1, <3>2
  <2> QED
    BY <2>1, <2>2
<1> DEFINE k == CHOOSE i \in 1..MaxCopies : First(i)
<1>4. k \in 1..MaxCopies /\ First(k)
  BY <1>3
<1>5. Enqueued(messages, j) = [messages EXCEPT ![<<j, k>>].state = "queued"]
  BY DEF Enqueued
<1> QED
  BY <1>4, <1>5

-----------------------------------------------------------------------------
(* What carries the jobs: messages, transport slots and senders.            *)

SlotsMatch == \A q \in Queues : ~In(q, "free") => Queue(slot[q].message) = q

SenderIsOne ==
  \A e, f \in Executors : sender[e] # NoMessage /\ sender[e] = sender[f] => e = f

CarrierInv == DispatchTypeOK /\ SlotsMatch /\ AnswerReachesSender /\ SenderIsOne

(* A dispatch publishes the children of a job that has its final outcome.   *)
Todo ==
  \A q \in Queues : In(q, "publish") =>
    Final(receipts[JobIn(q)]) /\ slot[q].todo \subseteq receipts[JobIn(q)].followups

LEMMA NoMessageIsNone == NoMessage \notin Messages
  BY DEF NoMessage, Messages

LEMMA SlotFacts ==
  ASSUME DispatchTypeOK, NEW q \in Queues
  PROVE  /\ slot[q] \in Slots
         /\ (In(q, "free") <=> slot[q] = FreeSlot)
         /\ (In(q, "free") <=> slot[q].message = NoMessage)
         /\ ~In(q, "free") => /\ slot[q].message \in Messages /\ JobIn(q) \in Jobs
                              /\ msg[slot[q].message].state = "held"
<1>1. slot[q] \in Slots
  BY DEF DispatchTypeOK
<1>2. CASE slot[q] = FreeSlot
  BY <1>1, <1>2 DEF FreeSlot, In
<1>3. CASE slot[q] # FreeSlot
  <2>1. /\ slot[q].phase \in {"lookup", "post", "wait", "publish"} /\ slot[q].message \in Messages
    BY <1>1, <1>3 DEF Slots
  <2>2. slot[q].message # NoMessage /\ JobIn(q) \in Jobs
    BY <2>1, NoMessageIsNone DEF JobIn, Messages
  <2>3. msg[slot[q].message].state = "held"
    BY <2>1 DEF DispatchTypeOK
  <2> QED
    BY <1>1, <1>3, <2>1, <2>2, <2>3 DEF In
<1> QED
  BY <1>2, <1>3

(* The kinds of steps.  Message m changes outside the slots:                *)
MessageMoves(m) ==
  /\ \A i \in Messages \ {m} : msg'[i] = msg[i]
  /\ msg' \in [Messages -> MessageStates]

Around(m) ==
  /\ MessageMoves(m)
  /\ UNCHANGED <<slot, sender>>
  /\ \/ msg'[m].state = msg[m].state
     \/ /\ msg[m].state # "held" /\ msg'[m].state # "held"
        /\ msg'[m].state # "none"
        /\ msg[m].state = "none" => m[1] \in Roots
        /\ Queued(m) /\ msg'[m].state = "done" => Late(m) \/ Paused(m)

(* a slot takes it;                                                         *)
TakenUp(m) ==
  /\ Queued(m) /\ In(Queue(m), "free")
  /\ MessageMoves(m)
  /\ msg'[m].state = "held"
  /\ \E s \in Slots : /\ s.message = m /\ s.phase \in {"lookup", "post"}
                      /\ slot' = [slot EXCEPT ![Queue(m)] = s]
  /\ UNCHANGED sender

(* the slot goes on with it;                                                *)
ToPost(q) ==
  /\ In(q, "lookup")
  /\ slot' = [slot EXCEPT ![q].phase = "post"]
  /\ UNCHANGED <<msg, sender>>

Posted(q, e) ==
  /\ In(q, "post")
  /\ ReceiveJob(e, JobIn(q))
  /\ sender' = [sender EXCEPT ![e] = slot[q].message]
  /\ slot' = [slot EXCEPT ![q].phase = "wait"]
  /\ UNCHANGED msg

ToPublish(q) ==
  /\ ~In(q, "free")
  /\ Final(receipts[JobIn(q)])
  /\ \E S \in SUBSET receipts[JobIn(q)].followups : Publishing(q, S)

ChildSent(q, c) ==
  /\ In(q, "publish") /\ c \in slot[q].todo
  /\ \E k \in 1..MaxCopies : /\ msg[<<c, k>>].state = "none"
                             /\ msg' = [msg EXCEPT ![<<c, k>>].state = "queued"]
  /\ slot' = [slot EXCEPT ![q].todo = @ \ {c}]
  /\ UNCHANGED sender

(* and lets it go, for good only when nothing is left to do for its job.    *)
LetGo(q) ==
  /\ ~In(q, "free")
  /\ MessageMoves(slot[q].message)
  /\ \/ msg'[slot[q].message].state = "queued"
     \/ msg'[slot[q].message].state = "done" /\ Over(JobIn(q))
  /\ Release(q)
  /\ Forget(slot[q].message)

CarriersMove ==
  \/ UNCHANGED <<msg, slot, sender>>
  \/ \E m \in Messages : Around(m) \/ TakenUp(m)
  \/ \E q \in Queues : \/ ToPost(q) \/ ToPublish(q) \/ LetGo(q)
                       \/ \E e \in Executors : Posted(q, e)
                       \/ \E c \in Jobs : ChildSent(q, c)

LEMMA MessageRecords ==
  ASSUME NEW r \in MessageStates
  PROVE  /\ \A s \in {"none", "queued", "held", "done"} :
              /\ [r EXCEPT !.state = s] \in MessageStates
              /\ [r EXCEPT !.state = s].state = s
              /\ [r EXCEPT !.state = s].deadline = r.deadline
         /\ \A d \in {"unset", "set", "passed"} :
              /\ [r EXCEPT !.deadline = d] \in MessageStates
              /\ [r EXCEPT !.deadline = d].state = r.state
         /\ [r EXCEPT !.state = "queued", !.retries = More(@)] \in MessageStates
         /\ [r EXCEPT !.state = "queued", !.retries = More(@)].state = "queued"
<1>1. r.retries \in 0..RetryCap /\ More(r.retries) \in 0..RetryCap
  BY DispatchAssumption DEF MessageStates, More, RetryCap
<1> QED
  BY <1>1 DEF MessageStates

LEMMA RetryLetsGo ==
  ASSUME CarrierInv, NEW q \in Queues, ~In(q, "free"), Retry(q) PROVE LetGo(q)
<1>1. slot[q].message \in Messages /\ msg \in [Messages -> MessageStates]
  BY SlotFacts DEF CarrierInv, DispatchTypeOK
<1>2. Requeued(slot[q].message) \in MessageStates /\ Requeued(slot[q].message).state = "queued"
  BY <1>1, MessageRecords DEF Requeued
<1> QED
  BY <1>1, <1>2 DEF Retry, LetGo, MessageMoves

LEMMA SettleLetsGo ==
  ASSUME CarrierInv, NEW q \in Queues, ~In(q, "free"), Settle(q), Over(JobIn(q)) PROVE LetGo(q)
<1>1. slot[q].message \in Messages /\ msg \in [Messages -> MessageStates]
  BY SlotFacts DEF CarrierInv, DispatchTypeOK
<1>2. Acknowledged(slot[q].message) \in MessageStates /\ Acknowledged(slot[q].message).state = "done"
  BY <1>1, MessageRecords DEF Acknowledged
<1> QED
  BY <1>1, <1>2 DEF Settle, LetGo, MessageMoves

(* A dispatch reacts to an answer that is true of its job.                  *)
LEMMA ReactMoves ==
  ASSUME CarrierInv, NEW q \in Queues, ~In(q, "free"), NEW answer \in Answers, React(q, answer),
         answer.ok => /\ Final(receipts[JobIn(q)])
                      /\ answer.followups \subseteq receipts[JobIn(q)].followups,
         ~answer.ok /\ ~answer.retryable => Over(JobIn(q))
  PROVE  ToPublish(q) \/ LetGo(q)
  BY RetryLetsGo, SettleLetsGo DEF React, ToPublish

(* Every step of the dispatch is of one of these kinds.                     *)
LEMMA RootMoves ==
  ASSUME CarrierInv, NEW j \in Jobs, PublishRoot(j) PROVE CarriersMove
<1>1. msg \in [Messages -> MessageStates] /\ MaxCopies \in Nat \ {0}
  BY DispatchAssumption DEF CarrierInv, DispatchTypeOK
<1>2. \E i \in 1..MaxCopies : msg[<<j, i>>].state = "none"
  <2>1. 1 \in 1..MaxCopies
    BY <1>1
  <2> QED
    BY <2>1 DEF PublishRoot
<1>3. PICK k \in 1..MaxCopies :
        /\ msg[<<j, k>>].state = "none"
        /\ Enqueued(msg, j) = [msg EXCEPT ![<<j, k>>].state = "queued"]
  BY <1>1, <1>2, EnqueuedAdds
<1> DEFINE m == <<j, k>>
<1>4. m \in Messages /\ m[1] = j
  BY DEF Messages
<1>5. msg[m] \in MessageStates
  BY <1>1, <1>4
<1>6. /\ [msg[m] EXCEPT !.state = "queued"] \in MessageStates
      /\ [msg[m] EXCEPT !.state = "queued"].state = "queued"
  BY <1>5, MessageRecords
<1>7. msg' = [msg EXCEPT ![m] = [msg[m] EXCEPT !.state = "queued"]] /\ j \in Roots
  BY <1>3 DEF PublishRoot
<1>8. MessageMoves(m) /\ msg'[m].state = "queued" /\ msg[m].state = "none"
  BY <1>1, <1>3, <1>4, <1>6, <1>7 DEF MessageMoves
<1>9. UNCHANGED <<slot, sender>>
  BY DEF PublishRoot
<1>10. Around(m)
  BY <1>4, <1>7, <1>8, <1>9 DEF Around, Queued
<1> QED
  BY <1>4, <1>10 DEF CarriersMove

LEMMA DeliverMoves ==
  ASSUME CarrierInv, NEW m \in Messages, Deliver(m) \/ DeadlinePasses(m) PROVE CarriersMove
<1>0. /\ msg \in [Messages -> MessageStates] /\ msg[m] \in MessageStates
      /\ slot \in [Queues -> Slots] /\ Queue(m) \in Queues
  BY DEF CarrierInv, DispatchTypeOK, Queue, Queues
<1>1. ASSUME NEW r \in MessageStates, msg' = [msg EXCEPT ![m] = r]
      PROVE  MessageMoves(m) /\ msg'[m] = r
  BY <1>0, <1>1 DEF MessageMoves
<1>2. /\ Requeued(m) \in MessageStates /\ Requeued(m).state = "queued"
      /\ Acknowledged(m) \in MessageStates /\ Acknowledged(m).state = "done"
      /\ [Requeued(m) EXCEPT !.deadline = "set"] \in MessageStates
      /\ [Requeued(m) EXCEPT !.deadline = "set"].state = "queued"
  <2>1. /\ Requeued(m) \in MessageStates /\ Requeued(m).state = "queued"
        /\ Acknowledged(m) \in MessageStates /\ Acknowledged(m).state = "done"
    BY <1>0, MessageRecords DEF Requeued, Acknowledged
  <2> QED
    BY <2>1, MessageRecords
<1>3. CASE PauseParse(m) \/ PauseExhausted(m)
  BY <1>1, <1>2, <1>3 DEF PauseParse, PauseExhausted, CarriersMove, Around, Paused, Queued
<1>4. CASE DropLate(m) \/ SlotBusy(m)
  BY <1>1, <1>2, <1>4 DEF DropLate, SlotBusy, CarriersMove, Around, Queued
<1>5. CASE Take(m)
  <2> DEFINE r == [[msg[m] EXCEPT !.state = "held"] EXCEPT !.deadline = "set"]
             t == [phase |-> IF msg[m].retries > 0 THEN "lookup" ELSE "post",
                   message |-> m, todo |-> {}, fresh |-> msg[m].deadline = "unset"]
  <2>1. r \in MessageStates /\ r.state = "held"
    <3> DEFINE h == [msg[m] EXCEPT !.state = "held"]
    <3>1. h \in MessageStates /\ h.state = "held"
      BY <1>0, MessageRecords
    <3> HIDE DEF h
    <3>2. [h EXCEPT !.deadline = "set"] \in MessageStates
          /\ [h EXCEPT !.deadline = "set"].state = h.state
      BY <3>1, MessageRecords
    <3> QED
      BY <3>1, <3>2 DEF h
  <2>2. msg' = [msg EXCEPT ![m] = r]
    BY <1>0, <1>5 DEF Take, MessageStates
  <2> HIDE DEF r
  <2>3. MessageMoves(m) /\ msg'[m].state = "held"
    BY <1>1, <2>1, <2>2
  <2>4. t \in Slots /\ t.message = m /\ t.phase \in {"lookup", "post"}
    BY DEF Slots
  <2>5. slot' = [slot EXCEPT ![Queue(m)] = t]
    BY <1>5 DEF Take
  <2> HIDE DEF t
  <2>6. TakenUp(m)
    BY <1>5, <2>3, <2>4, <2>5 DEF TakenUp, Take
  <2> QED
    BY <2>6 DEF CarriersMove
<1>6. CASE DeadlinePasses(m)
  <2>1. /\ [msg[m] EXCEPT !.deadline = "passed"] \in MessageStates
        /\ [msg[m] EXCEPT !.deadline = "passed"].state = msg[m].state
    BY <1>0, MessageRecords
  <2> QED
    BY <1>1, <1>6, <2>1 DEF DeadlinePasses, CarriersMove, Around
<1> QED
  BY <1>3, <1>4, <1>5, <1>6 DEF Deliver

LEMMA DispatchMoves ==
  ASSUME TypeOK, CarrierInv, Todo, NEW q \in Queues, Dispatch(q) PROVE CarriersMove
<1>0. msg \in [Messages -> MessageStates]
  BY DEF CarrierInv, DispatchTypeOK
<1>1. ASSUME In(q, "lookup") \/ In(q, "post") \/ In(q, "wait") \/ In(q, "publish")
      PROVE  ~In(q, "free") /\ JobIn(q) \in Jobs
  BY <1>1, SlotFacts DEF CarrierInv, In
<1>2. CASE Lookup(q)
  <2> DEFINE r == receipts[JobIn(q)]
  <2>1. ~In(q, "free") /\ JobIn(q) \in Jobs /\ r.followups \in SUBSET Jobs
    BY <1>1, <1>2 DEF Lookup, TypeOK, Receipts
  <2>2. /\ Refused(TRUE) \in Answers /\ ~Refused(TRUE).ok /\ Refused(TRUE).retryable
        /\ Refused(FALSE) \in Answers /\ ~Refused(FALSE).ok
        /\ Accepted(r.followups) \in Answers /\ Accepted(r.followups).ok
        /\ Accepted(r.followups).followups = r.followups
    BY <2>1, AnswerTypes DEF Accepted, Refused
  <2>3. CASE r.status = "running" /\ React(q, Refused(TRUE))
    BY <2>1, <2>2, <2>3, ReactMoves DEF CarriersMove
  <2>4. CASE r.status = "succeeded" /\ React(q, Accepted(r.followups))
    BY <2>1, <2>2, <2>4, ReactMoves DEF CarriersMove, Final
  <2>5. CASE r.status = "failed" /\ ~r.retryable /\ React(q, Refused(FALSE))
    BY <2>1, <2>2, <2>5, ReactMoves DEF CarriersMove, Over, Final
  <2>6. CASE slot' = [slot EXCEPT ![q].phase = "post"] /\ UNCHANGED <<msg, sender>>
    BY <1>2, <2>6 DEF Lookup, ToPost, CarriersMove
  <2> QED
    BY <1>2, <2>3, <2>4, <2>5, <2>6 DEF Lookup
<1>3. ASSUME NEW e \in Executors, Post(q, e) PROVE CarriersMove
  BY <1>3 DEF Post, Posted, CarriersMove
<1>4. ASSUME NEW e \in Executors, ExecutorBusy(q, e) PROVE CarriersMove
  BY <1>1, <1>4, RetryLetsGo DEF ExecutorBusy, CarriersMove
<1>5. CASE AnswerTimeout(q)
  BY <1>1, <1>5, RetryLetsGo DEF AnswerTimeout, CarriersMove
<1>6. ASSUME NEW c \in Jobs, PublishChild(q, c) PROVE CarriersMove
  <2>1. \E k \in 1..MaxCopies : /\ msg[<<c, k>>].state = "none"
                                /\ msg' = [msg EXCEPT ![<<c, k>>].state = "queued"]
    BY <1>0, <1>6, EnqueuedAdds DEF PublishChild, HasRoom
  <2>2. ChildSent(q, c)
    BY <1>6, <2>1 DEF PublishChild, ChildSent
  <2> QED
    BY <2>2 DEF CarriersMove
<1>7. CASE Complete(q)
  BY <1>1, <1>7, SettleLetsGo DEF Complete, Todo, Over, CarriersMove
<1> QED
  BY <1>2, <1>3, <1>4, <1>5, <1>6, <1>7 DEF Dispatch

LEMMA FaultMoves ==
  ASSUME CarrierInv, NEW q \in Queues, CallFails(q) \/ WorkerLost(q) PROVE CarriersMove
<1>1. CASE CallFails(q)
  BY <1>1, RetryLetsGo DEF CallFails, CarriersMove
<1>2. CASE WorkerLost(q)
  <2> DEFINE m == slot[q].message
             r == [msg[m] EXCEPT !.state = "queued"]
             d == IF slot[q].fresh THEN "unset" ELSE msg[m].deadline
  <2>1. /\ ~In(q, "free") /\ m \in Messages /\ msg \in [Messages -> MessageStates]
        /\ msg[m] \in MessageStates
    BY <1>2, SlotFacts DEF WorkerLost, CarrierInv, DispatchTypeOK
  <2>2. r \in MessageStates /\ r.state = "queued" /\ d \in {"unset", "set", "passed"}
    BY <2>1, MessageRecords DEF MessageStates
  <2>3. msg' = [msg EXCEPT ![m] = [r EXCEPT !.deadline = d]]
    BY <1>2, <2>1 DEF WorkerLost, MessageStates
  <2>4. Release(q) /\ Forget(m)
    BY <1>2 DEF WorkerLost
  <2> HIDE DEF r, d
  <2>5. [r EXCEPT !.deadline = d] \in MessageStates /\ [r EXCEPT !.deadline = d].state = "queued"
    BY <2>2, MessageRecords
  <2>6. LetGo(q)
    BY <2>1, <2>3, <2>4, <2>5 DEF LetGo, MessageMoves
  <2> QED
    BY <2>6 DEF CarriersMove
<1> QED
  BY <1>1, <1>2

LEMMA AnsweredMoves ==
  ASSUME TypeOK, InputInv, CarrierInv, NEW e \in Executors, Answered(e) \/ ExecutorCrash(e)
  PROVE  CarriersMove
<1>1. ASSUME NEW q \in Queues, In(q, "wait"), slot[q].message = sender[e]
      PROVE  ~In(q, "free") /\ sender[e] # NoMessage /\ exec[e].job = JobIn(q)
  <2>1. ~In(q, "free") /\ sender[e] # NoMessage
    BY <1>1, SlotFacts DEF CarrierInv, In
  <2> QED
    BY <1>1, <2>1 DEF CarrierInv, AnswerReachesSender, JobIn
<1>2. CASE Answered(e)
  <2>1. CASE UNCHANGED <<msg, slot, sender>>
    BY <2>1 DEF CarriersMove
  <2>2. ASSUME NEW q \in Queues, In(q, "wait"), slot[q].message = sender[e],
               React(q, exec[e].answer)
        PROVE  CarriersMove
    <3>1. ~In(q, "free") /\ exec[e].job = JobIn(q)
      BY <1>1, <2>2
    <3>2. exec[e].answer \in Answers
      BY DEF TypeOK, Execs
    <3>3. AnswerTrueOf(e)
      BY <1>2 DEF Answered, SendAnswer, InputInv, AnswerTrue
    <3> QED
      BY <2>2, <3>1, <3>2, <3>3, ReactMoves DEF AnswerTrueOf, CarriersMove
  <2> QED
    BY <1>2, <2>1, <2>2 DEF Answered
<1>3. CASE ExecutorCrash(e)
  BY <1>1, <1>3, RetryLetsGo DEF ExecutorCrash, CarriersMove
<1> QED
  BY <1>2, <1>3

LEMMA StepKinds ==
  ASSUME TypeOK, InputInv, CarrierInv, Todo, [DispatchNext]_allVars PROVE CarriersMove
<1>1. CASE UNCHANGED allVars
  BY <1>1 DEF allVars, dispatchVars, CarriersMove
<1>2. CASE Rest \/ Surroundings \/ \E e \in Executors : Execute(e) \/ ExpireAlone(e)
  BY <1>2 DEF Rest, Surroundings, Execute, ExpireAlone, allVars, dispatchVars, CarriersMove
<1> QED
  BY <1>1, <1>2, RootMoves, DeliverMoves, DispatchMoves, FaultMoves, AnsweredMoves
  DEF DispatchNext

-----------------------------------------------------------------------------
(* The executors under the dispatch: their steps are those of               *)
(* ExecutorReceipts, and a request whose dispatch waits stays in its slot.  *)

LEMMA OneExpires ==
  ASSUME TypeOK, CarrierInv, NEW m \in Messages, DeadlinePasses(m) PROVE [Next]_vars
<1>0. exec \in [Executors -> Execs] /\ m # NoMessage
  BY NoMessageIsNone DEF TypeOK
<1> DEFINE Served(e) == sender[e] = m /\ exec[e].phase # "answering" /\ ~exec[e].late
<1>1. UNCHANGED <<receipts, domainVars, commits>>
  BY DEF DeadlinePasses
<1>2. \A e \in Executors : exec'[e] = IF sender[e] = m /\ exec[e].phase # "answering"
                                      THEN [exec[e] EXCEPT !.late = TRUE] ELSE exec[e]
  BY DEF DeadlinePasses
<1>3. ASSUME NEW e \in Executors, ~Served(e) PROVE exec'[e] = exec[e]
  <2>1. exec[e] \in Execs
    BY <1>0
  <2>2. exec[e].late => [exec[e] EXCEPT !.late = TRUE] = exec[e]
    BY <2>1 DEF Execs
  <2> QED
    BY <1>2, <1>3, <2>1, <2>2 DEF Execs
<1>4. DOMAIN exec' = Executors /\ exec' = [e \in Executors |-> exec'[e]]
  BY DEF DeadlinePasses
<1>5. CASE \A e \in Executors : ~Served(e)
  <2>1. exec' = exec
    BY <1>0, <1>3, <1>4, <1>5
  <2> QED
    BY <1>1, <2>1 DEF vars, domainVars
<1>6. ASSUME NEW e \in Executors, Served(e) PROVE Expire(e)
  <2>1. ~At(e, "idle")
    BY <1>0, <1>6 DEF CarrierInv, AnswerReachesSender
  <2>2. ASSUME NEW f \in Executors, f # e PROVE exec'[f] = exec[f]
    <3>1. ~Served(f)
      BY <1>0, <1>6, <2>2 DEF CarrierInv, SenderIsOne
    <3> QED
      BY <1>3, <3>1
  <2>3. exec'[e] = [exec[e] EXCEPT !.late = TRUE]
    BY <1>2, <1>6
  <2>4. exec' = [exec EXCEPT ![e].late = TRUE]
    BY <1>0, <1>4, <2>2, <2>3
  <2> QED
    BY <1>1, <1>6, <2>1, <2>4 DEF Expire, At
<1> QED
  BY <1>5, <1>6 DEF Next, Environment

LEMMA ExecutorsRun ==
  ASSUME TypeOK, CarrierInv, [DispatchNext]_allVars PROVE [Next]_vars
<1>1. CASE UNCHANGED vars
  BY <1>1
<1>2. CASE Rest \/ UNCHANGED allVars
  BY <1>2 DEF Rest, allVars
<1>3. ASSUME NEW j \in Jobs, PublishRoot(j) PROVE UNCHANGED vars
  BY <1>3 DEF PublishRoot
<1>4. ASSUME NEW m \in Messages, Deliver(m) PROVE UNCHANGED vars
  BY <1>4 DEF Deliver, PauseParse, PauseExhausted, DropLate, SlotBusy, Take
<1>5. ASSUME NEW q \in Queues, CallFails(q) \/ WorkerLost(q) PROVE UNCHANGED vars
  BY <1>5 DEF CallFails, WorkerLost
<1>6. ASSUME NEW q \in Queues, Dispatch(q) PROVE [Next]_vars
  <2>1. ASSUME NEW e \in Executors, Post(q, e) PROVE Next
    <3>1. JobIn(q) \in Jobs
      BY <2>1, SlotFacts DEF Post, CarrierInv, In
    <3> QED
      BY <2>1, <3>1 DEF Post, Next
  <2> QED
    BY <1>6, <2>1
    DEF Dispatch, Lookup, ExecutorBusy, AnswerTimeout, PublishChild, Complete
<1>7. ASSUME NEW e \in Executors, Execute(e) \/ Answered(e) \/ ExecutorCrash(e) \/ ExpireAlone(e)
      PROVE  Next
  <2>1. Claim(e) \/ Work(e) \/ SendAnswer(e) \/ Crash(e) \/ Expire(e)
    BY <1>7 DEF Execute, Answered, ExecutorCrash, ExpireAlone
  <2>2. Crash(e) \/ Expire(e) => Environment
    BY DEF Environment
  <2> QED
    BY <2>1, <2>2 DEF Next
<1>8. CASE Surroundings
  BY <1>8 DEF Surroundings, Next, Environment
<1> QED
  BY <1>1, <1>2, <1>3, <1>4, <1>5, <1>6, <1>7, <1>8, OneExpires DEF DispatchNext

(* What a step does to the request in a job slot: it stays, it is answered  *)
(* or lost and its dispatch told, or a dispatch puts a new one there.       *)
ServeOn ==
  \A e \in Executors :
    \/ /\ exec'[e].job = exec[e].job
       /\ exec'[e].phase = "idle" <=> exec[e].phase = "idle"
    \/ exec'[e].phase = "idle" /\ sender'[e] = NoMessage
    \/ /\ exec[e].phase = "idle"
       /\ \E q \in Queues : In(q, "post") /\ exec'[e].job = JobIn(q)

LEMMA ServiceLasts ==
  ASSUME TypeOK, CarrierInv, [DispatchNext]_allVars PROVE ServeOn
<1>0. exec \in [Executors -> Execs]
  BY DEF TypeOK
<1>1. CASE UNCHANGED exec
  BY <1>1 DEF ServeOn
<1>2. CASE UNCHANGED allVars \/ Rest \/ Surroundings
  BY <1>1, <1>2
  DEF allVars, vars, Rest, Surroundings, ReleaseJob, ReplaceBlob, DeleteNode, InstallRuntime
<1>3. ASSUME NEW j \in Jobs, PublishRoot(j) PROVE ServeOn
  BY <1>1, <1>3 DEF PublishRoot, vars
<1>4. ASSUME NEW m \in Messages, Deliver(m) PROVE ServeOn
  BY <1>1, <1>4 DEF Deliver, PauseParse, PauseExhausted, DropLate, SlotBusy, Take, vars
<1>5. ASSUME NEW m \in Messages, DeadlinePasses(m) PROVE ServeOn
  <2>1. ASSUME NEW e \in Executors
        PROVE  exec'[e].job = exec[e].job /\ exec'[e].phase = exec[e].phase
    BY <1>0, <1>5 DEF DeadlinePasses, Execs
  <2> QED
    BY <2>1 DEF ServeOn
<1>6. ASSUME NEW q \in Queues, CallFails(q) \/ WorkerLost(q) PROVE ServeOn
  BY <1>1, <1>6 DEF CallFails, WorkerLost, vars
<1>7. ASSUME NEW q \in Queues, Dispatch(q) PROVE ServeOn
  <2>1. ASSUME NEW e \in Executors, Post(q, e) PROVE ServeOn
    <3>1. \A f \in Executors \ {e} : exec'[f] = exec[f]
      BY <1>0, <2>1 DEF Post, ReceiveJob
    <3>2. JobIn(q) \in Jobs
      BY <2>1, SlotFacts DEF Post, CarrierInv, In
    <3>3. In(q, "post") /\ exec'[e].job = JobIn(q) /\ exec[e].phase = "idle"
      BY <2>1, <3>2, Received DEF Post, At
    <3> QED
      BY <3>1, <3>3 DEF ServeOn
  <2>2. CASE \/ Lookup(q) \/ AnswerTimeout(q) \/ Complete(q)
             \/ \E e \in Executors : ExecutorBusy(q, e)
             \/ \E c \in Jobs : PublishChild(q, c)
    BY <1>1, <2>2 DEF Lookup, ExecutorBusy, AnswerTimeout, PublishChild, Complete, vars
  <2> QED
    BY <1>7, <2>1, <2>2 DEF Dispatch
<1>8. ASSUME NEW e \in Executors, Execute(e) \/ ExpireAlone(e) PROVE ServeOn
  <2>1. Claim(e) \/ Work(e) \/ Expire(e)
    BY <1>8 DEF Execute, ExpireAlone
  <2>2. Acts(e) /\ Stays(e)
    BY <2>1, WorkStays DEF Acts
  <2>3. ASSUME NEW f \in Executors, f # e PROVE exec'[f] = exec[f]
    BY <2>2, <2>3, OthersStay
  <2> QED
    BY <2>2, <2>3 DEF ServeOn, Stays
<1>9. ASSUME NEW e \in Executors, Answered(e) \/ ExecutorCrash(e) PROVE ServeOn
  <2>1. SendAnswer(e) \/ Crash(e)
    BY <1>9 DEF Answered, ExecutorCrash
  <2>2. ASSUME NEW f \in Executors, f # e PROVE exec'[f] = exec[f]
    BY <2>1, <2>2, OthersStay DEF Acts
  <2>3. sender'[e] = NoMessage
    <3>1. CASE sender[e] = NoMessage /\ UNCHANGED sender
      BY <3>1
    <3>2. ASSUME NEW q \in Queues, slot[q].message = sender[e], Forget(slot[q].message)
          PROVE  sender'[e] = NoMessage
      BY <3>2 DEF Forget
    <3> QED
      BY <1>9, <3>1, <3>2
      DEF Answered, ExecutorCrash, React, Retry, Settle, Publishing
  <2>4. exec'[e].phase = "idle"
    BY <1>0, <2>1, IdlePhase DEF SendAnswer, Crash
  <2> QED
    BY <2>2, <2>3, <2>4 DEF ServeOn
<1> QED
  BY <1>2, <1>3, <1>4, <1>5, <1>6, <1>7, <1>8, <1>9 DEF DispatchNext

LEMMA FaultsCounted ==
  ASSUME DispatchTypeOK, [DispatchNext]_allVars PROVE faults' \in 0..MaxFaults
<1>0. faults \in 0..MaxFaults /\ MaxFaults \in Nat
  BY DispatchAssumption DEF DispatchTypeOK
<1>1. Fault => faults' \in 0..MaxFaults
  BY <1>0 DEF Fault
<1>2. UNCHANGED faults \/ Fault
  <2>1. ASSUME NEW j \in Jobs, PublishRoot(j) PROVE UNCHANGED faults
    BY <2>1 DEF PublishRoot
  <2>2. ASSUME NEW m \in Messages, Deliver(m) \/ DeadlinePasses(m) PROVE UNCHANGED faults
    BY <2>2 DEF Deliver, PauseParse, PauseExhausted, DropLate, SlotBusy, Take, DeadlinePasses
  <2>3. ASSUME NEW q \in Queues, Dispatch(q) \/ CallFails(q) \/ WorkerLost(q)
        PROVE  UNCHANGED faults \/ Fault
    BY <2>3
    DEF Dispatch, Lookup, Post, ExecutorBusy, AnswerTimeout, PublishChild, Complete, CallFails,
        WorkerLost
  <2>4. ASSUME NEW e \in Executors, Execute(e) \/ Answered(e) \/ ExecutorCrash(e) \/ ExpireAlone(e)
        PROVE  UNCHANGED faults \/ Fault
    BY <2>4 DEF Execute, Answered, ExecutorCrash, ExpireAlone, dispatchVars
  <2>5. CASE UNCHANGED allVars \/ Rest \/ Surroundings
    BY <2>5 DEF allVars, dispatchVars, Rest, Surroundings
  <2> QED
    BY <2>1, <2>2, <2>3, <2>4, <2>5 DEF DispatchNext
<1> QED
  BY <1>0, <1>1, <1>2

-----------------------------------------------------------------------------
(* Messages and slots keep fitting together.                                *)

HeldBySlot == \A m \in Messages : msg[m].state = "held" <=> \E q \in Queues : slot[q].message = m

Fitting ==
  /\ msg \in [Messages -> MessageStates]
  /\ slot \in [Queues -> Slots]
  /\ HeldBySlot
  /\ SlotsMatch

(* A dispatch still recorded as an executor's sender goes on waiting.       *)
Listening ==
  \A e \in Executors : sender'[e] # NoMessage =>
    /\ sender'[e] = sender[e]
    /\ \E q \in Queues : slot'[q].phase = "wait" /\ slot'[q].message = sender[e]

LEMMA CarrierFits == CarrierInv => Fitting
  BY DEF CarrierInv, DispatchTypeOK, Fitting, HeldBySlot

LEMMA AroundKeeps ==
  ASSUME CarrierInv, NEW m \in Messages, Around(m)
  PROVE  Fitting' /\ Listening /\ sender' \in [Executors -> Messages \cup {NoMessage}]
<1>1. /\ \A i \in Messages : msg'[i].state = "held" <=> msg[i].state = "held"
      /\ msg' \in [Messages -> MessageStates] /\ UNCHANGED <<slot, sender>>
  BY DEF Around, MessageMoves
<1>2. Fitting'
  BY <1>1, CarrierFits DEF Fitting, HeldBySlot, SlotsMatch, In
<1> QED
  BY <1>1, <1>2 DEF CarrierInv, DispatchTypeOK, AnswerReachesSender, Listening, In

LEMMA TakenKeeps ==
  ASSUME CarrierInv, NEW m \in Messages, TakenUp(m)
  PROVE  Fitting' /\ Listening /\ sender' \in [Executors -> Messages \cup {NoMessage}]
<1> DEFINE p == Queue(m)
<1>0. /\ Fitting /\ p \in Queues /\ m # NoMessage /\ msg[m].state = "queued"
      /\ slot[p].message = NoMessage /\ slot[p].phase = "free"
      /\ msg' \in [Messages -> MessageStates] /\ \A i \in Messages \ {m} : msg'[i] = msg[i]
      /\ msg'[m].state = "held" /\ UNCHANGED sender
  BY CarrierFits, NoMessageIsNone, SlotFacts
  DEF TakenUp, MessageMoves, Queue, Queues, CarrierInv, Queued, In
<1>1. PICK s \in Slots : /\ s.message = m /\ s.phase \in {"lookup", "post"}
                         /\ slot' = [slot EXCEPT ![p] = s]
  BY DEF TakenUp
<1> HIDE DEF p
<1>2. slot' \in [Queues -> Slots] /\ slot'[p] = s /\ \A q \in Queues \ {p} : slot'[q] = slot[q]
  BY <1>0, <1>1 DEF Fitting
<1>3. HeldBySlot'
  <2>1. ASSUME NEW i \in Messages
        PROVE  msg'[i].state = "held" <=> \E q \in Queues : slot'[q].message = i
    <3>1. CASE i = m
      BY <1>0, <1>1, <1>2, <3>1
    <3>2. CASE i # m
      BY <1>0, <1>1, <1>2, <3>2, NoMessageIsNone DEF Fitting, HeldBySlot
    <3> QED
      BY <3>1, <3>2
  <2> QED
    BY <2>1 DEF HeldBySlot
<1>4. SlotsMatch'
  <2>1. ASSUME NEW q \in Queues, slot'[q].phase # "free" PROVE Queue(slot'[q].message) = q
    BY <1>0, <1>1, <1>2, <2>1 DEF Fitting, SlotsMatch, In, p
  <2> QED
    BY <2>1 DEF SlotsMatch, In
<1>5. Listening
  <2> SUFFICES ASSUME NEW e \in Executors, sender'[e] # NoMessage
               PROVE  /\ sender'[e] = sender[e]
                      /\ \E q \in Queues : slot'[q].phase = "wait" /\ slot'[q].message = sender[e]
    BY DEF Listening
  <2>1. PICK q \in Queues : slot[q].phase = "wait" /\ slot[q].message = sender[e]
    BY <1>0 DEF CarrierInv, AnswerReachesSender, In
  <2>2. q # p
    BY <1>0, <2>1
  <2> QED
    BY <1>0, <1>2, <2>1, <2>2
<1> QED
  BY <1>0, <1>2, <1>3, <1>4, <1>5 DEF Fitting, CarrierInv, DispatchTypeOK

(* A slot goes on with the message it has.                                  *)
LEMMA SlotGoesOn ==
  ASSUME CarrierInv, NEW q \in Queues, ~In(q, "free"), NEW s \in Slots,
         s.message = slot[q].message, slot' = [slot EXCEPT ![q] = s],
         msg' \in [Messages -> MessageStates],
         \A m \in Messages : msg'[m].state = "held" <=> msg[m].state = "held"
  PROVE  /\ Fitting' /\ slot'[q] = s
         /\ \A p \in Queues \ {q} : slot'[p] = slot[p]
<1>0. Fitting
  BY CarrierFits
<1>1. slot' \in [Queues -> Slots] /\ slot'[q] = s /\ \A p \in Queues \ {q} : slot'[p] = slot[p]
  BY <1>0 DEF Fitting
<1>2. \A p \in Queues : slot'[p].message = slot[p].message
  BY <1>1
<1>3. HeldBySlot'
  BY <1>0, <1>2 DEF HeldBySlot, Fitting
<1>4. SlotsMatch'
  BY <1>0, <1>1, <1>2 DEF SlotsMatch, Fitting, In
<1> QED
  BY <1>1, <1>3, <1>4 DEF Fitting

LEMMA SlotRecords ==
  ASSUME DispatchTypeOK, NEW q \in Queues, ~In(q, "free")
  PROVE  /\ \A p \in {"lookup", "post", "wait", "publish"} :
              /\ [slot[q] EXCEPT !.phase = p] \in Slots
              /\ [slot[q] EXCEPT !.phase = p].phase = p
              /\ [slot[q] EXCEPT !.phase = p].message = slot[q].message
         /\ \A S \in SUBSET Jobs :
              /\ [slot[q] EXCEPT !.todo = S] \in Slots
              /\ [slot[q] EXCEPT !.todo = S].phase = slot[q].phase
              /\ [slot[q] EXCEPT !.todo = S].message = slot[q].message
              /\ [slot[q] EXCEPT !.todo = S].todo = S
              /\ [slot[q] EXCEPT !.phase = "publish", !.todo = S] \in Slots
              /\ [slot[q] EXCEPT !.phase = "publish", !.todo = S].phase = "publish"
              /\ [slot[q] EXCEPT !.phase = "publish", !.todo = S].message = slot[q].message
              /\ [slot[q] EXCEPT !.phase = "publish", !.todo = S].todo = S
<1>1. /\ slot[q] \in [phase : {"lookup", "post", "wait", "publish"}, message : Messages,
                      todo : SUBSET Jobs, fresh : BOOLEAN]
  BY SlotFacts DEF Slots
<1>2. \A t \in [phase : {"lookup", "post", "wait", "publish"}, message : Messages,
                todo : SUBSET Jobs, fresh : BOOLEAN] : t \in Slots
  BY DEF Slots
<1> QED
  BY <1>1, <1>2

(* The messages stay, one slot other than a waiting one goes on.            *)
LEMMA ListensOn ==
  ASSUME CarrierInv, NEW q \in Queues, \A p \in Queues \ {q} : slot'[p] = slot[p],
         \A e \in Executors : sender'[e] # NoMessage =>
           sender'[e] = sender[e] /\ (~In(q, "wait") \/ sender[e] # slot[q].message)
  PROVE  Listening
<1> SUFFICES ASSUME NEW e \in Executors, sender'[e] # NoMessage
             PROVE  /\ sender'[e] = sender[e]
                    /\ \E p \in Queues : slot'[p].phase = "wait" /\ slot'[p].message = sender[e]
  BY DEF Listening
<1>1. PICK p \in Queues : In(p, "wait") /\ slot[p].message = sender[e]
  BY DEF CarrierInv, AnswerReachesSender
<1>2. p # q
  BY <1>1
<1> QED
  BY <1>1, <1>2 DEF In

LEMMA ToPostKeeps ==
  ASSUME CarrierInv, NEW q \in Queues, ToPost(q)
  PROVE  Fitting' /\ Listening /\ sender' \in [Executors -> Messages \cup {NoMessage}]
<1>1. /\ ~In(q, "free") /\ ~In(q, "wait") /\ UNCHANGED <<msg, sender>> /\ DispatchTypeOK
      /\ slot' = [slot EXCEPT ![q] = [slot[q] EXCEPT !.phase = "post"]]
  BY DEF ToPost, In, CarrierInv
<1>2. /\ [slot[q] EXCEPT !.phase = "post"] \in Slots
      /\ [slot[q] EXCEPT !.phase = "post"].message = slot[q].message
  BY <1>1, SlotRecords
<1>3. Fitting' /\ \A p \in Queues \ {q} : slot'[p] = slot[p]
  BY <1>1, <1>2, SlotGoesOn DEF DispatchTypeOK
<1> QED
  BY <1>1, <1>3, ListensOn DEF DispatchTypeOK

LEMMA ToPublishKeeps ==
  ASSUME TypeOK, CarrierInv, NEW q \in Queues, ToPublish(q)
  PROVE  Fitting' /\ Listening /\ sender' \in [Executors -> Messages \cup {NoMessage}]
<1>1. PICK S \in SUBSET receipts[JobIn(q)].followups : Publishing(q, S)
  BY DEF ToPublish
<1>2. /\ ~In(q, "free") /\ DispatchTypeOK /\ S \in SUBSET Jobs
  BY SlotFacts DEF ToPublish, CarrierInv, TypeOK, Receipts
<1>3. /\ UNCHANGED msg /\ Forget(slot[q].message)
      /\ slot' = [slot EXCEPT ![q] = [slot[q] EXCEPT !.phase = "publish", !.todo = S]]
  BY <1>1, <1>2 DEF Publishing, DispatchTypeOK
<1>4. /\ [slot[q] EXCEPT !.phase = "publish", !.todo = S] \in Slots
      /\ [slot[q] EXCEPT !.phase = "publish", !.todo = S].message = slot[q].message
  BY <1>2, SlotRecords, ZenonT(60)
<1>5. Fitting' /\ \A p \in Queues \ {q} : slot'[p] = slot[p]
  BY <1>2, <1>3, <1>4, SlotGoesOn DEF DispatchTypeOK
<1> QED
  BY <1>2, <1>3, <1>5, ListensOn DEF DispatchTypeOK, Forget

LEMMA ChildSentKeeps ==
  ASSUME CarrierInv, NEW q \in Queues, NEW c \in Jobs, ChildSent(q, c)
  PROVE  Fitting' /\ Listening /\ sender' \in [Executors -> Messages \cup {NoMessage}]
<1>1. /\ ~In(q, "free") /\ ~In(q, "wait") /\ UNCHANGED sender /\ DispatchTypeOK
      /\ slot' = [slot EXCEPT ![q] = [slot[q] EXCEPT !.todo = slot[q].todo \ {c}]]
  BY DEF ChildSent, In, CarrierInv
<1>2. slot[q].todo \ {c} \in SUBSET Jobs
  BY <1>1, SlotFacts DEF Slots, FreeSlot
<1>3. /\ [slot[q] EXCEPT !.todo = slot[q].todo \ {c}] \in Slots
      /\ [slot[q] EXCEPT !.todo = slot[q].todo \ {c}].message = slot[q].message
  BY <1>1, <1>2, SlotRecords
<1>4. PICK k \in 1..MaxCopies : /\ msg[<<c, k>>].state = "none"
                                /\ msg' = [msg EXCEPT ![<<c, k>>].state = "queued"]
  BY DEF ChildSent
<1>5. <<c, k>> \in Messages /\ msg \in [Messages -> MessageStates]
  BY <1>1 DEF Messages, DispatchTypeOK
<1>6. /\ [msg[<<c, k>>] EXCEPT !.state = "queued"] \in MessageStates
      /\ [msg[<<c, k>>] EXCEPT !.state = "queued"].state = "queued"
  BY <1>5, MessageRecords
<1>7. /\ msg' \in [Messages -> MessageStates]
      /\ \A m \in Messages : msg'[m].state = "held" <=> msg[m].state = "held"
  BY <1>4, <1>5, <1>6
<1>8. Fitting' /\ \A p \in Queues \ {q} : slot'[p] = slot[p]
  BY <1>1, <1>3, <1>7, SlotGoesOn
<1> QED
  BY <1>1, <1>8, ListensOn DEF DispatchTypeOK

LEMMA LetGoKeeps ==
  ASSUME CarrierInv, NEW q \in Queues, LetGo(q)
  PROVE  Fitting' /\ Listening /\ sender' \in [Executors -> Messages \cup {NoMessage}]
<1> DEFINE m == slot[q].message
<1>0. /\ DispatchTypeOK /\ Fitting /\ ~In(q, "free") /\ m \in Messages /\ m # NoMessage
  BY CarrierFits, SlotFacts, NoMessageIsNone DEF LetGo, CarrierInv
<1>1. /\ slot' = [slot EXCEPT ![q] = FreeSlot] /\ FreeSlot.message = NoMessage
      /\ FreeSlot.phase = "free" /\ FreeSlot \in Slots
      /\ msg' \in [Messages -> MessageStates] /\ \A i \in Messages \ {m} : msg'[i] = msg[i]
      /\ msg'[m].state # "held" /\ Forget(m)
  BY DEF LetGo, Release, FreeSlot, Slots, MessageMoves
<1>2. /\ slot' \in [Queues -> Slots] /\ slot'[q] = FreeSlot
      /\ \A p \in Queues \ {q} : slot'[p] = slot[p]
  BY <1>0, <1>1 DEF Fitting
<1>3. ASSUME NEW p \in Queues, p # q, slot[p].message = m PROVE FALSE
  BY <1>0, <1>3, SlotFacts DEF Fitting, SlotsMatch
<1>4. HeldBySlot'
  <2>1. ASSUME NEW i \in Messages
        PROVE  msg'[i].state = "held" <=> \E p \in Queues : slot'[p].message = i
    <3>1. CASE i = m
      BY <1>1, <1>2, <1>3, <3>1, NoMessageIsNone
    <3>2. CASE i # m
      BY <1>0, <1>1, <1>2, <3>2, NoMessageIsNone DEF Fitting, HeldBySlot
    <3> QED
      BY <3>1, <3>2
  <2> QED
    BY <2>1 DEF HeldBySlot
<1>5. SlotsMatch'
  BY <1>0, <1>1, <1>2 DEF Fitting, SlotsMatch, In
<1> QED
  BY <1>0, <1>1, <1>2, <1>4, <1>5, ListensOn DEF DispatchTypeOK, Forget, Fitting

LEMMA PostedKeeps ==
  ASSUME TypeOK, CarrierInv, NEW q \in Queues, NEW e \in Executors, Posted(q, e)
  PROVE  /\ Fitting' /\ sender' \in [Executors -> Messages \cup {NoMessage}]
         /\ sender'[e] = slot[q].message /\ exec'[e].job = sender'[e][1] /\ exec'[e].phase # "idle"
         /\ slot'[q].phase = "wait" /\ slot'[q].message = slot[q].message
         /\ \A p \in Queues \ {q} : slot'[p] = slot[p]
         /\ \A f \in Executors \ {e} : sender'[f] = sender[f]
<1>1. /\ ~In(q, "free") /\ UNCHANGED msg /\ DispatchTypeOK
      /\ slot' = [slot EXCEPT ![q] = [slot[q] EXCEPT !.phase = "wait"]]
      /\ sender' = [sender EXCEPT ![e] = slot[q].message]
  BY DEF Posted, In, CarrierInv
<1>2. /\ [slot[q] EXCEPT !.phase = "wait"] \in Slots
      /\ [slot[q] EXCEPT !.phase = "wait"].phase = "wait"
      /\ [slot[q] EXCEPT !.phase = "wait"].message = slot[q].message
  BY <1>1, SlotRecords
<1>3. /\ Fitting' /\ slot'[q] = [slot[q] EXCEPT !.phase = "wait"]
      /\ \A p \in Queues \ {q} : slot'[p] = slot[p]
  BY <1>1, <1>2, SlotGoesOn DEF DispatchTypeOK
<1>4. slot[q].message \in Messages /\ JobIn(q) \in Jobs /\ ReceiveJob(e, JobIn(q))
  BY <1>1, SlotFacts DEF Posted
<1>5. exec'[e].job = JobIn(q) /\ exec'[e].phase # "idle"
  BY <1>4, Received
<1> QED
  BY <1>1, <1>2, <1>3, <1>4, <1>5 DEF DispatchTypeOK, JobIn

LEMMA CarrierStep ==
  ASSUME TypeOK, CarrierInv, CarriersMove, ServeOn, faults' \in 0..MaxFaults
  PROVE  CarrierInv'
<1>1. ASSUME Fitting', sender' \in [Executors -> Messages \cup {NoMessage}]
      PROVE  DispatchTypeOK' /\ SlotsMatch'
  BY <1>1 DEF Fitting, HeldBySlot, DispatchTypeOK
<1>2. ASSUME Fitting', Listening, sender' \in [Executors -> Messages \cup {NoMessage}]
      PROVE  CarrierInv'
  <2>1. ASSUME NEW e \in Executors, sender'[e] # NoMessage
        PROVE  /\ sender'[e] = sender[e]
               /\ exec'[e].job = sender'[e][1] /\ exec'[e].phase # "idle"
               /\ \E q \in Queues : slot'[q].phase = "wait" /\ slot'[q].message = sender'[e]
    <3>1. sender'[e] = sender[e] /\ exec[e].job = sender[e][1] /\ exec[e].phase # "idle"
      BY <1>2, <2>1 DEF Listening, CarrierInv, AnswerReachesSender, At
    <3> QED
      BY <1>2, <2>1, <3>1 DEF Listening, ServeOn
  <2>2. AnswerReachesSender'
    BY <2>1 DEF AnswerReachesSender, At, In
  <2>3. SenderIsOne'
    BY <2>1 DEF SenderIsOne, CarrierInv
  <2> QED
    BY <1>1, <1>2, <2>2, <2>3 DEF CarrierInv
<1>3. CASE UNCHANGED <<msg, slot, sender>>
  <2>1. Fitting'
    BY <1>3, CarrierFits DEF Fitting, HeldBySlot, SlotsMatch, In
  <2>2. Listening
    BY <1>3 DEF Listening, CarrierInv, AnswerReachesSender, In
  <2> QED
    BY <1>2, <1>3, <2>1, <2>2 DEF CarrierInv, DispatchTypeOK
<1>4. ASSUME NEW q \in Queues, NEW e \in Executors, Posted(q, e) PROVE CarrierInv'
  <2>0. /\ Fitting' /\ sender' \in [Executors -> Messages \cup {NoMessage}]
        /\ sender'[e] = slot[q].message /\ exec'[e].job = sender'[e][1] /\ exec'[e].phase # "idle"
        /\ slot'[q].phase = "wait" /\ slot'[q].message = slot[q].message
        /\ \A p \in Queues \ {q} : slot'[p] = slot[p]
        /\ \A f \in Executors \ {e} : sender'[f] = sender[f]
    BY <1>4, PostedKeeps
  <2>1. ASSUME NEW f \in Executors, f # e, sender'[f] # NoMessage
        PROVE  /\ exec'[f].job = sender'[f][1] /\ exec'[f].phase # "idle"
               /\ \E p \in Queues \ {q} : slot[p].phase = "wait" /\ slot[p].message = sender'[f]
    <3>1. /\ sender'[f] = sender[f] /\ exec[f].job = sender[f][1] /\ exec[f].phase # "idle"
          /\ \E p \in Queues : slot[p].phase = "wait" /\ slot[p].message = sender[f]
      BY <2>0, <2>1 DEF CarrierInv, AnswerReachesSender, In, At
    <3>2. slot[q].phase # "wait"
      BY <1>4 DEF Posted, In
    <3> QED
      BY <2>1, <3>1, <3>2 DEF ServeOn
  <2>2. AnswerReachesSender'
    <3>1. ASSUME NEW f \in Executors, sender'[f] # NoMessage
          PROVE  /\ exec'[f].job = sender'[f][1] /\ exec'[f].phase # "idle"
                 /\ \E p \in Queues : slot'[p].phase = "wait" /\ slot'[p].message = sender'[f]
      BY <2>0, <2>1, <3>1
    <3> QED
      BY <3>1 DEF AnswerReachesSender, At, In
  <2>3. ASSUME NEW f \in Executors, f # e, sender'[f] = slot[q].message PROVE FALSE
    <3>1. /\ ~In(q, "free") /\ slot[q].message # NoMessage
      BY <1>4, SlotFacts DEF Posted, In, CarrierInv
    <3>2. PICK p \in Queues \ {q} : slot[p].phase = "wait" /\ slot[p].message = slot[q].message
      BY <2>1, <2>3, <3>1
    <3> QED
      BY <3>1, <3>2 DEF CarrierInv, SlotsMatch, In
  <2>4. SenderIsOne'
    <3>1. ASSUME NEW f \in Executors, NEW g \in Executors, sender'[f] # NoMessage,
                 sender'[f] = sender'[g]
          PROVE  f = g
      BY <2>0, <2>3, <3>1 DEF CarrierInv, SenderIsOne
    <3> QED
      BY <3>1 DEF SenderIsOne
  <2> QED
    BY <1>1, <2>0, <2>2, <2>4 DEF CarrierInv
<1> QED
  BY <1>2, <1>3, <1>4, AroundKeeps, TakenKeeps, ToPostKeeps, ToPublishKeeps, ChildSentKeeps,
     LetGoKeeps
  DEF CarriersMove

-----------------------------------------------------------------------------
(* What becomes of each message.                                            *)

Sent(j) == \E q \in Queues : In(q, "publish") /\ j \in slot[q].todo

MessageFate(m) ==
  /\ msg[m].state # "none" => msg'[m].state # "none"
  /\ msg[m].state = "none" /\ msg'[m].state # "none" => m[1] \in Roots \/ Sent(m[1])
  /\ Alive(m) /\ msg'[m].state = "done" => Late(m) \/ Paused(m) \/ Over(m[1])

LEMMA SameFate == \A m \in Messages : msg'[m] = msg[m] => MessageFate(m)
  BY DEF MessageFate, Alive

LEMMA MessageFates ==
  ASSUME CarrierInv, CarriersMove PROVE \A m \in Messages : MessageFate(m)
<1>0. msg \in [Messages -> MessageStates]
  BY DEF CarrierInv, DispatchTypeOK
<1>1. CASE UNCHANGED <<msg, slot, sender>>
  BY <1>1, SameFate
<1>2. ASSUME NEW m \in Messages, Around(m) PROVE \A i \in Messages : MessageFate(i)
  <2>1. MessageFate(m)
    BY <1>2 DEF Around, MessageFate, Alive, Queued
  <2> QED
    BY <1>2, <2>1, SameFate DEF Around, MessageMoves
<1>3. ASSUME NEW m \in Messages, TakenUp(m) PROVE \A i \in Messages : MessageFate(i)
  <2>1. MessageFate(m)
    BY <1>3 DEF TakenUp, MessageFate, Alive, Queued
  <2> QED
    BY <1>3, <2>1, SameFate DEF TakenUp, MessageMoves
<1>4. ASSUME NEW q \in Queues, ToPost(q) \/ ToPublish(q) \/ \E e \in Executors : Posted(q, e)
      PROVE  \A i \in Messages : MessageFate(i)
  BY <1>4, SameFate DEF ToPost, ToPublish, Posted, Publishing
<1>5. ASSUME NEW q \in Queues, LetGo(q) PROVE \A i \in Messages : MessageFate(i)
  <2>1. /\ slot[q].message \in Messages /\ msg[slot[q].message].state = "held"
        /\ JobIn(q) = slot[q].message[1]
    BY <1>5, SlotFacts DEF LetGo, CarrierInv, JobIn
  <2>2. MessageFate(slot[q].message)
    BY <1>5, <2>1 DEF LetGo, MessageFate, Alive
  <2> QED
    BY <1>5, <2>2, SameFate DEF LetGo, MessageMoves
<1>6. ASSUME NEW q \in Queues, NEW c \in Jobs, ChildSent(q, c)
      PROVE  \A i \in Messages : MessageFate(i)
  <2>1. PICK k \in 1..MaxCopies : /\ msg[<<c, k>>].state = "none"
                                  /\ msg' = [msg EXCEPT ![<<c, k>>].state = "queued"]
    BY <1>6 DEF ChildSent
  <2>2. <<c, k>> \in Messages /\ <<c, k>>[1] = c /\ Sent(c)
    BY <1>6 DEF Messages, ChildSent, Sent
  <2>3. msg'[<<c, k>>].state = "queued"
    BY <1>0, <2>1, <2>2 DEF MessageStates
  <2>4. MessageFate(<<c, k>>)
    BY <2>1, <2>2, <2>3 DEF MessageFate, Alive
  <2> QED
    BY <1>0, <2>1, <2>2, <2>4, SameFate
<1> QED
  BY <1>1, <1>2, <1>3, <1>4, <1>5, <1>6 DEF CarriersMove

LEMMA PublishedMoves ==
  ASSUME CarrierInv, CarriersMove, NEW j \in Jobs
  PROVE  /\ Published(j) => Published(j)'
         /\ Published(j)' => Published(j) \/ j \in Roots \/ Sent(j)
<1>1. \A i \in 1..MaxCopies : <<j, i>> \in Messages /\ <<j, i>>[1] = j
  BY DEF Messages
<1>2. \A i \in 1..MaxCopies : MessageFate(<<j, i>>)
  BY <1>1, MessageFates
<1> QED
  BY <1>1, <1>2 DEF Published, MessageFate

-----------------------------------------------------------------------------
(* Parents before children.                                                 *)

(* What an executor or a receipt knows of went through the broker.          *)
Known ==
  /\ \A e \in Executors : ~At(e, "idle") => Published(exec[e].job)
  /\ \A j \in Jobs : receipts[j].status # "absent" => Published(j)

OutcomeInv == Todo /\ Known /\ ParentFirst

DispatchInv == CommitInv /\ InputInv /\ CarrierInv /\ OutcomeInv

LEMMA FinalStill ==
  ASSUME CommitInv, [Next]_vars, NEW j \in Jobs, Final(receipts[j])
  PROVE  Final(receipts'[j]) /\ receipts'[j].followups = receipts[j].followups
  BY FinalKept DEF vars

LEMMA TodoKept ==
  ASSUME DispatchInv, CarriersMove, [Next]_vars PROVE Todo'
<1> SUFFICES ASSUME NEW q \in Queues, slot'[q].phase = "publish"
             PROVE  /\ Final(receipts'[slot'[q].message[1]])
                    /\ slot'[q].todo \subseteq receipts'[slot'[q].message[1]].followups
  BY DEF Todo, In, JobIn
<1>0. CommitInv /\ CarrierInv /\ DispatchTypeOK /\ Todo /\ slot \in [Queues -> Slots]
  BY DEF DispatchInv, CarrierInv, OutcomeInv, DispatchTypeOK
<1> DEFINE j == JobIn(q)
<1>1. ASSUME ~In(q, "free"), Final(receipts[j]), slot'[q].message = slot[q].message,
             slot'[q].todo \subseteq receipts[j].followups
      PROVE  /\ Final(receipts'[slot'[q].message[1]])
             /\ slot'[q].todo \subseteq receipts'[slot'[q].message[1]].followups
  <2>1. j \in Jobs /\ slot'[q].message[1] = j
    BY <1>0, <1>1, SlotFacts DEF JobIn
  <2> QED
    BY <1>0, <1>1, <2>1, FinalStill
<1>2. CASE slot'[q] = slot[q]
  <2>1. In(q, "publish") /\ ~In(q, "free")
    BY <1>2 DEF In
  <2>2. Final(receipts[j]) /\ slot[q].todo \subseteq receipts[j].followups
    BY <1>0, <2>1 DEF Todo
  <2> QED
    BY <1>1, <1>2, <2>1, <2>2
<1>3. CASE ToPublish(q)
  <2>1. PICK S \in SUBSET receipts[j].followups : Publishing(q, S)
    BY <1>3 DEF ToPublish
  <2>2. ~In(q, "free") /\ Final(receipts[j]) /\ S \in SUBSET Jobs
    BY <1>0, <1>3, SlotFacts
    DEF ToPublish, CommitInv, ExclInv, TypeInv, TypeOK, Receipts
  <2>3. slot'[q] = [slot[q] EXCEPT !.phase = "publish", !.todo = S]
    BY <1>0, <2>1 DEF Publishing
  <2>4. slot'[q].message = slot[q].message /\ slot'[q].todo = S
    <3>1. /\ [slot[q] EXCEPT !.phase = "publish", !.todo = S].message = slot[q].message
          /\ [slot[q] EXCEPT !.phase = "publish", !.todo = S].todo = S
      BY <1>0, <2>2, SlotRecords, ZenonT(60)
    <3> QED
      BY <2>3, <3>1
  <2> QED
    BY <1>1, <2>2, <2>4
<1>4. ASSUME NEW c \in Jobs, ChildSent(q, c) PROVE
             /\ Final(receipts'[slot'[q].message[1]])
             /\ slot'[q].todo \subseteq receipts'[slot'[q].message[1]].followups
  <2>1. In(q, "publish") /\ ~In(q, "free") /\ slot[q].todo \in SUBSET Jobs
    BY <1>0, <1>4, SlotFacts DEF ChildSent, In, Slots, FreeSlot
  <2>2. slot'[q] = [slot[q] EXCEPT !.todo = slot[q].todo \ {c}]
    BY <1>0, <1>4 DEF ChildSent
  <2>3. slot'[q].message = slot[q].message /\ slot'[q].todo = slot[q].todo \ {c}
    <3> DEFINE S == slot[q].todo \ {c}
    <3>1. S \in SUBSET Jobs
      BY <2>1
    <3> HIDE DEF S
    <3>2. /\ [slot[q] EXCEPT !.todo = S].message = slot[q].message
          /\ [slot[q] EXCEPT !.todo = S].todo = S
      BY <1>0, <2>1, <3>1, SlotRecords, ZenonT(60)
    <3> QED
      BY <2>2, <3>2 DEF S
  <2> QED
    BY <1>0, <1>1, <2>1, <2>3 DEF Todo
<1>5. CASE ToPost(q) \/ LetGo(q) \/ \E e \in Executors : Posted(q, e)
  <2>1. slot'[q].phase \in {"free", "post", "wait"}
    <3>1. CASE ToPost(q)
      <4>1. ~In(q, "free") /\ slot'[q] = [slot[q] EXCEPT !.phase = "post"]
        BY <1>0, <3>1 DEF ToPost, In
      <4> QED
        BY <1>0, <4>1, SlotRecords
    <3>2. CASE \E e \in Executors : Posted(q, e)
      <4>1. ~In(q, "free") /\ slot'[q] = [slot[q] EXCEPT !.phase = "wait"]
        BY <1>0, <3>2 DEF Posted, In
      <4> QED
        BY <1>0, <4>1, SlotRecords
    <3>3. CASE LetGo(q)
      BY <1>0, <3>3 DEF LetGo, Release, FreeSlot
    <3> QED
      BY <1>5, <3>1, <3>2, <3>3
  <2> QED
    BY <2>1
<1>6. ASSUME NEW m \in Messages, Around(m) \/ TakenUp(m)
      PROVE  slot'[q] = slot[q]
  BY <1>0, <1>6 DEF Around, TakenUp
<1>7. ASSUME NEW p \in Queues, p # q,
             \/ ToPost(p) \/ ToPublish(p) \/ LetGo(p)
             \/ \E e \in Executors : Posted(p, e)
             \/ \E c \in Jobs : ChildSent(p, c)
      PROVE  slot'[q] = slot[q]
  BY <1>0, <1>7 DEF ToPost, ToPublish, Publishing, LetGo, Release, Posted, ChildSent
<1> QED
  BY <1>2, <1>3, <1>4, <1>5, <1>6, <1>7 DEF CarriersMove

LEMMA KnownKept ==
  ASSUME DispatchInv, CarriersMove, [Next]_vars, ServeOn PROVE Known'
<1>0. /\ CommitInv /\ CarrierInv /\ DispatchTypeOK /\ Known
      /\ \A e \in Executors : exec[e].job \in Jobs
  BY DEF DispatchInv, OutcomeInv, CarrierInv, CommitInv, ExclInv, TypeInv, TypeOK, Execs
<1>1. \A j \in Jobs : Published(j) => Published(j)'
  BY <1>0, PublishedMoves
<1>2. ASSUME NEW e \in Executors, exec'[e].phase # "idle"
      PROVE  \E j \in Jobs : exec'[e].job = j /\ Published(j)
  <2>1. CASE exec'[e].job = exec[e].job /\ exec[e].phase # "idle"
    BY <1>0, <2>1 DEF Known, At
  <2>2. ASSUME NEW q \in Queues, In(q, "post"), exec'[e].job = JobIn(q)
        PROVE  JobIn(q) \in Jobs /\ Published(JobIn(q))
    <3>1. /\ slot[q].message \in Messages /\ JobIn(q) \in Jobs
          /\ msg[slot[q].message].state = "held"
      BY <1>0, <2>2, SlotFacts DEF In
    <3>2. PICK i \in 1..MaxCopies : slot[q].message = <<JobIn(q), i>>
      BY <3>1 DEF Messages, JobIn
    <3> QED
      BY <3>1, <3>2 DEF Published
  <2> QED
    BY <1>2, <2>1, <2>2 DEF ServeOn
<1>3. ASSUME NEW j \in Jobs, receipts'[j].status # "absent" PROVE Published(j)
  <2>1. CASE receipts[j].status # "absent"
    BY <1>0, <2>1 DEF Known
  <2>2. CASE receipts[j].status = "absent"
    <3>1. receipts'[j] # receipts[j] /\ Next
      BY <1>3, <2>2 DEF vars
    <3>2. Final(receipts[j]) \/ Running(j) => FALSE
      BY <2>2 DEF Final, Running
    <3>3. \E e \in Executors : At(e, "captured") /\ exec[e].job = j
      BY <1>0, <2>2, <3>1, <3>2, ReceiptMoves
    <3> QED
      BY <1>0, <3>3 DEF Known, At
  <2> QED
    BY <2>1, <2>2
<1>4. ASSUME NEW e \in Executors, exec'[e].phase # "idle" PROVE Published(exec[e].job)'
  <2>1. PICK j \in Jobs : exec'[e].job = j /\ Published(j)
    BY <1>2, <1>4
  <2>2. Published(j)'
    BY <1>1, <2>1
  <2> QED
    BY <2>1, <2>2 DEF Published
<1> QED
  BY <1>1, <1>3, <1>4 DEF Known, At

LEMMA ParentFirstKept ==
  ASSUME DispatchInv, CarriersMove, [Next]_vars, Known' PROVE ParentFirst'
<1> SUFFICES ASSUME NEW j \in Jobs, NEW c \in Children[j],
                    Published(c)' \/ receipts'[c].status # "absent"
             PROVE  c \in receipts'[j].followups
  BY DEF ParentFirst
<1>0. /\ c \in Jobs /\ c \notin Roots /\ CommitInv /\ CarrierInv /\ Recorded /\ Todo /\ ParentFirst
      /\ \A k \in Jobs \ {j} : c \notin Children[k]
  BY StaticAssumption, DerivedIdentities DEF DispatchInv, OutcomeInv, InputInv
<1>1. Published(c)'
  BY <1>0 DEF Known
<1>2. c \in receipts[j].followups
  <2>1. CASE Published(c)
    BY <1>0, <2>1 DEF ParentFirst
  <2>2. ASSUME NEW q \in Queues, In(q, "publish"), c \in slot[q].todo
        PROVE  c \in receipts[j].followups
    <3>1. JobIn(q) \in Jobs /\ c \in receipts[JobIn(q)].followups
      BY <1>0, <2>2, SlotFacts DEF CarrierInv, Todo, In
    <3> QED
      BY <1>0, <3>1 DEF Recorded
  <2> QED
    BY <1>0, <1>1, <2>1, <2>2, PublishedMoves DEF Sent
<1>3. Final(receipts[j])
  BY <1>0, <1>2 DEF Recorded
<1> QED
  BY <1>0, <1>2, <1>3, FinalStill

-----------------------------------------------------------------------------
(* The theorems.                                                            *)

LEMMA DispatchInvStart == DispatchInit => DispatchInv
<1> SUFFICES ASSUME DispatchInit PROVE DispatchInv
  OBVIOUS
<1>1. CommitInv /\ InputInv
  BY CommitInit, InputInvStart DEF DispatchInit
<1>2. /\ \A m \in Messages : msg[m].state = "none"
      /\ \A q \in Queues : slot[q] = FreeSlot
      /\ \A e \in Executors : sender[e] = NoMessage
  BY DEF DispatchInit
<1>3. FreeSlot.phase = "free" /\ FreeSlot.message = NoMessage /\ FreeSlot \in Slots
  BY DEF FreeSlot, Slots
<1>4. DispatchTypeOK
  <2>1. [state |-> "none", retries |-> 0, deadline |-> "unset"] \in MessageStates
    BY DispatchAssumption DEF MessageStates, RetryCap
  <2>2. \A m \in Messages : ~(\E q \in Queues : slot[q].message = m)
    BY <1>2, <1>3, NoMessageIsNone
  <2> QED
    BY <1>2, <1>3, <2>1, <2>2, DispatchAssumption DEF DispatchInit, DispatchTypeOK
<1>5. SlotsMatch /\ AnswerReachesSender /\ SenderIsOne /\ Todo
  BY <1>2, <1>3 DEF SlotsMatch, AnswerReachesSender, SenderIsOne, Todo, In
<1>6. \A j \in Jobs : ~Published(j)
  BY <1>2 DEF Published, Messages
<1>7. /\ \A e \in Executors : At(e, "idle")
      /\ \A j \in Jobs : receipts[j].status = "absent"
  BY IdlePhase DEF DispatchInit, Init, At, NoReceipt
<1>8. Known /\ ParentFirst
  BY <1>6, <1>7, StaticAssumption DEF Known, ParentFirst
<1> QED
  BY <1>1, <1>4, <1>5, <1>8 DEF DispatchInv, CarrierInv, OutcomeInv

LEMMA DispatchInvStep ==
  DispatchInv /\ [DispatchNext]_allVars => DispatchInv' /\ [Next]_vars /\ CarriersMove
<1> SUFFICES ASSUME DispatchInv, [DispatchNext]_allVars
             PROVE  DispatchInv' /\ [Next]_vars /\ CarriersMove
  OBVIOUS
<1>1. TypeOK /\ CommitInv /\ InputInv /\ CarrierInv /\ Todo /\ DispatchTypeOK
  BY DEF DispatchInv, OutcomeInv, CarrierInv, CommitInv, ExclInv, TypeInv
<1>2. [Next]_vars /\ CarriersMove /\ ServeOn /\ faults' \in 0..MaxFaults
  BY <1>1, ExecutorsRun, StepKinds, ServiceLasts, FaultsCounted
<1>3. CommitInv' /\ InputInv' /\ CarrierInv'
  BY <1>1, <1>2, CommitInvStep, InputInvStep, CarrierStep
<1>4. Todo' /\ Known'
  BY <1>2, TodoKept, KnownKept
<1>5. ParentFirst'
  BY <1>2, <1>4, ParentFirstKept
<1> QED
  BY <1>2, <1>3, <1>4, <1>5 DEF DispatchInv, OutcomeInv

LEMMA DispatchInvariant == DispatchSpec => []DispatchInv
  BY DispatchInvStart, DispatchInvStep, PTL DEF DispatchSpec

(* Every variable of the orchestrator keeps its type, and a message is held *)
(* by exactly the transport slot that names it.                             *)
THEOREM DispatchTypeCorrect == DispatchSpec => []DispatchTypeOK
<1>1. DispatchInv => DispatchTypeOK
  BY DEF DispatchInv, CarrierInv
<1> QED
  BY <1>1, DispatchInvariant, PTL

(* A derived job reaches the broker or an executor only after its parent's  *)
(* receipt durably lists it, and an executor's answer goes to the dispatch  *)
(* that asked for it (tasks.py _publish_executor_followups,                 *)
(* executor_transport.py).                                                  *)
THEOREM MessagesAlwaysInStep == DispatchSpec => []MessagesInStep
<1>1. DispatchInv => MessagesInStep
  BY DEF DispatchInv, CarrierInv, OutcomeInv, MessagesInStep
<1> QED
  BY <1>1, DispatchInvariant, PTL

(* Whatever the orchestrator delivers, repeats, loses or gives up, the      *)
(* executors do nothing that ExecutorReceipts does not let them do: all     *)
(* that is proved of the receipts holds under the dispatch.                 *)
THEOREM DispatchRunsReceipts == DispatchSpec => Spec
<1>1. DispatchInit => Init
  BY DEF DispatchInit
<1> QED
  BY <1>1, DispatchInvariant, DispatchInvStep, PTL DEF DispatchSpec, Spec

(* A task's message is acknowledged only when nothing is left to do for its *)
(* job: a final receipt, a deadline that passed, inputs that changed since  *)
(* the failed attempt, or backpressure's limit (_dispatch_or_retry).        *)
THEOREM SettledBeforeAcked == DispatchSpec => SettledBeforeAck
<1>1. ASSUME DispatchInv, [DispatchNext]_allVars
      PROVE  [\A m \in Messages : Alive(m) /\ msg'[m].state = "done" =>
                \/ Late(m)
                \/ Paused(m)
                \/ Final(receipts[m[1]])
                \/ /\ receipts[m[1]].status = "failed"
                   /\ receipts[m[1]].snapshot # Snapshot(m[1])]_allVars
  <2>1. \A m \in Messages : MessageFate(m)
    BY <1>1, DispatchInvStep, MessageFates DEF DispatchInv
  <2> QED
    BY <2>1 DEF MessageFate, Over
<1> QED
  BY <1>1, DispatchInvariant, PTL DEF DispatchSpec, SettledBeforeAck

=============================================================================
