---------------------------- MODULE ReceiptsProofs ----------------------------
(***************************************************************************)
(* Proofs about ExecutorReceipts, for every set of jobs, documents, chunks *)
(* and executor processes and every attempt budget: the types, who may     *)
(* hold what, that what is final stays so, and that the receipts implement *)
(* JobLedger.                                                              *)
(***************************************************************************)
EXTENDS ExecutorReceipts, TLAPS

-----------------------------------------------------------------------------
(* Typing of the building blocks.                                           *)

(* A snapshot taken in a well-typed state is well typed.                    *)
LEMMA SnapshotType ==
  ASSUME TypeOK, NEW j \in Jobs
  PROVE  Snapshot(j) \in Snapshots
<1>1. SourceNodes(j) \in SUBSET Nodes
  BY StaticAssumption DEF SourceNodes, TypeOK
<1>2. [n \in Nodes |-> IF n \in SourceNodes(j) THEN blob[n] ELSE 0] \in [Nodes -> Nat]
  BY DEF TypeOK
<1> QED
  BY <1>1, <1>2 DEF Snapshot, Snapshots, TypeOK

LEMMA NoSnapshotType == NoSnapshot \in Snapshots
  BY DEF NoSnapshot, Snapshots

LEMMA AnswerTypes ==
  /\ \A S \in SUBSET Jobs : Accepted(S) \in Answers
  /\ \A b \in BOOLEAN : Refused(b) \in Answers
  BY DEF Accepted, Refused, Answers

LEMMA IdleType == IdleExec \in Execs
<1>1. (CHOOSE j \in Jobs : TRUE) \in Jobs
  BY StaticAssumption
<1> QED
  BY <1>1, NoSnapshotType, AnswerTypes DEF IdleExec, Execs, Phases

(* Finishing or failing a receipt keeps its type.                           *)
LEMMA OutcomeTypes ==
  ASSUME NEW r \in Receipts
  PROVE  /\ \A S \in SUBSET Jobs : Finished(r, S) \in Receipts
         /\ \A b \in BOOLEAN : Failed(r, b) \in Receipts
  BY DEF Finished, Failed, Receipts

-----------------------------------------------------------------------------
(* An absent receipt was never claimed, so a first claim is its attempt 1.  *)
Untouched ==
  \A j \in Jobs : receipts[j].status = "absent" => receipts[j].attempt = 0

LEMMA StartedType ==
  ASSUME TypeOK, Untouched, NEW e \in Executors, Claimable(e)
  PROVE  Started(receipts[exec[e].job], exec[e].snapshot) \in Receipts
<1> DEFINE r == receipts[exec[e].job]
<1>1. /\ exec[e].job \in Jobs /\ exec[e].snapshot \in Snapshots
      /\ r \in Receipts
  BY DEF TypeOK, Execs
<1>2. r.attempt + 1 \in 0..MaxAttempts
  BY <1>1, StaticAssumption DEF Untouched, Claimable, Retrying, Receipts
<1> QED
  BY <1>1, <1>2 DEF Started, Receipts

TypeInv == TypeOK /\ Untouched

LEMMA TypeInit == Init => TypeInv
<1> SUFFICES ASSUME Init PROVE TypeInv
  OBVIOUS
<1>1. NoReceipt \in Receipts
  BY NoSnapshotType, StaticAssumption DEF NoReceipt, Receipts
<1> QED
  BY <1>1, IdleType DEF Init, TypeInv, TypeOK, Untouched, NoReceipt

(* Every step keeps the types.                                              *)
LEMMA TypeStep == TypeInv /\ [Next]_vars => TypeInv'
<1> SUFFICES ASSUME TypeInv, [Next]_vars PROVE TypeInv'
  OBVIOUS
<1> USE DEF TypeInv
<1>0. CASE UNCHANGED vars
  BY <1>0 DEF vars, TypeOK, Untouched
<1>1. ASSUME NEW e \in Executors, NEW j \in Jobs, ReceiveJob(e, j) PROVE TypeInv'
  <2>1. [IdleExec EXCEPT !.phase = "captured", !.job = j, !.snapshot = Snapshot(j)] \in Execs
    BY IdleType, SnapshotType DEF Execs, Phases
  <2> QED
    BY <1>1, <2>1 DEF ReceiveJob, TypeOK, Untouched, domainVars
<1>2. ASSUME NEW e \in Executors, Claim(e) PROVE TypeInv'
  <2>1. /\ exec[e] \in Execs /\ exec[e].job \in Jobs
        /\ receipts[exec[e].job] \in Receipts
    BY DEF TypeOK, Execs
  <2>2. CASE ClaimAnswered(e)
    <3>1. receipts[exec[e].job].followups \in SUBSET Jobs
      BY <2>1 DEF Receipts
    <3>2. PICK a \in Answers : Answer(e, a)
      BY <2>2, <3>1, AnswerTypes DEF ClaimAnswered
    <3> QED
      BY <2>1, <2>2, <3>2 DEF ClaimAnswered, Answer, TypeOK, Untouched, Execs, Phases, domainVars
  <2>3. CASE ClaimConflict(e)
    BY <2>1, <2>3, AnswerTypes DEF ClaimConflict, Answer, TypeOK, Untouched, Execs, Phases, domainVars
  <2>4. CASE ClaimExhausted(e)
    <3>1. Failed(receipts[exec[e].job], FALSE) \in Receipts
      BY <2>1, OutcomeTypes
    <3>2. Failed(receipts[exec[e].job], FALSE).status = "failed"
      BY <2>1 DEF Failed, Receipts
    <3> QED
      BY <2>1, <2>4, <3>1, <3>2, AnswerTypes
      DEF ClaimExhausted, Answer, TypeOK, Untouched, Execs, Phases, domainVars
  <2>5. CASE ClaimDeferred(e)
    BY <2>1, <2>5, AnswerTypes DEF ClaimDeferred, Answer, TypeOK, Untouched, Execs, Phases, domainVars
  <2>6. CASE ClaimExecution(e)
    <3>1. Started(receipts[exec[e].job], exec[e].snapshot) \in Receipts
      BY <2>6, StartedType DEF ClaimExecution
    <3>2. Started(receipts[exec[e].job], exec[e].snapshot).status = "running"
      BY <2>1 DEF Started, Receipts
    <3> QED
      BY <2>1, <2>6, <3>1, <3>2
      DEF ClaimExecution, Step, TypeOK, Untouched, Execs, Phases, domainVars
  <2> QED
    BY <1>2, <2>2, <2>3, <2>4, <2>5, <2>6 DEF Claim
<1>3. ASSUME NEW e \in Executors, Work(e) PROVE TypeInv'
  <2>1. /\ exec[e] \in Execs /\ exec[e].job \in Jobs
        /\ receipts[exec[e].job] \in Receipts
        /\ Children[exec[e].job] \in SUBSET Jobs
    BY StaticAssumption DEF TypeOK, Execs
  <2>2. ASSUME NEW b \in BOOLEAN, FailWith(e, b) PROVE TypeInv'
    <3>1. /\ Failed(receipts[exec[e].job], b) \in Receipts
          /\ Failed(receipts[exec[e].job], b).status = "failed"
      BY <2>1, OutcomeTypes DEF Failed, Receipts
    <3> QED
      BY <2>1, <2>2, <3>1, AnswerTypes
      DEF FailWith, Answer, TypeOK, Untouched, Execs, Phases, domainVars
  <2>3. ASSUME NEW p \in Phases, Step(e, p), UNCHANGED <<receipts, domainVars>>,
               commits' \in [Jobs -> Nat]
        PROVE  TypeInv'
    BY <2>1, <2>3 DEF Step, TypeOK, Untouched, Execs, domainVars
  <2>4. ASSUME NEW S \in SUBSET Jobs,
               receipts' = [receipts EXCEPT ![exec[e].job] = Finished(@, S)]
        PROVE  receipts' \in [Jobs -> Receipts] /\ Untouched'
    <3>1. /\ Finished(receipts[exec[e].job], S) \in Receipts
          /\ Finished(receipts[exec[e].job], S).status = "succeeded"
      BY <2>1, OutcomeTypes DEF Finished, Receipts
    <3> QED
      BY <2>1, <2>4, <3>1 DEF TypeOK, Untouched
  <2>5. [commits EXCEPT ![exec[e].job] = @ + 1] \in [Jobs -> Nat]
    BY <2>1 DEF TypeOK
  <2>6. CASE StartWork(e) \/ Persist(e) \/ NothingToPersist(e)
    BY <2>3, <2>6 DEF StartWork, Persist, NothingToPersist, Phases, TypeOK
  <2>7. CASE RefuseStart(e) \/ PersistStale(e) \/ LateStale(e) \/ DomainFailure(e)
    BY <2>2, <2>7 DEF RefuseStart, PersistStale, LateStale, DomainFailure
  <2>8. CASE \E b \in BOOLEAN : WorkFails(e, b)
    BY <2>2, <2>8 DEF WorkFails
  <2>9. CASE CommitPlan(e)
    <3>1. PICK S \in SUBSET Children[exec[e].job] :
            /\ receipts' = [receipts EXCEPT ![exec[e].job] = Finished(@, S)]
            /\ Answer(e, Accepted(S))
      BY <2>9 DEF CommitPlan
    <3>2. S \in SUBSET Jobs
      BY <2>1
    <3>3. Accepted(S) \in Answers
      BY <3>2, AnswerTypes
    <3>4. receipts' \in [Jobs -> Receipts] /\ Untouched'
      BY <2>4, <3>1, <3>2
    <3>5. exec' \in [Executors -> Execs]
      BY <2>1, <3>1, <3>3 DEF Answer, TypeOK, Execs, Phases
    <3> QED
      BY <2>5, <2>9, <3>4, <3>5 DEF CommitPlan, TypeOK, domainVars
  <2>10. CASE CommitParse(e)
    <3>1. receipts' \in [Jobs -> Receipts] /\ Untouched'
      BY <2>1, <2>4, <2>10 DEF CommitParse
    <3>2. exec' \in [Executors -> Execs]
      BY <2>1, <2>10 DEF CommitParse, Step, TypeOK, Execs, Phases
    <3>3. live' \subseteq Chunks /\ born' \subseteq Chunks
      BY <2>10 DEF CommitParse, TypeOK
    <3> QED
      BY <2>5, <2>10, <3>1, <3>2, <3>3 DEF CommitParse, TypeOK
  <2>11. CASE CommitBatch(e)
    BY <2>3, <2>5, <2>11 DEF CommitBatch, Phases
  <2>12. CASE FinishExecution(e)
    <3> DEFINE S == IF At(e, "persisted") THEN Children[exec[e].job] ELSE {}
    <3>1. S \in SUBSET Jobs /\ Accepted(S) \in Answers
      BY <2>1, AnswerTypes
    <3>2. /\ receipts' = [receipts EXCEPT ![exec[e].job] = Finished(@, S)]
          /\ Answer(e, Accepted(S)) /\ UNCHANGED <<domainVars, commits>>
      BY <2>12 DEF FinishExecution
    <3> HIDE DEF S
    <3>3. receipts' \in [Jobs -> Receipts] /\ Untouched'
      BY <2>4, <3>1, <3>2
    <3>4. exec' \in [Executors -> Execs]
      BY <2>1, <3>1, <3>2 DEF Answer, TypeOK, Execs, Phases
    <3> QED
      BY <3>2, <3>3, <3>4 DEF TypeOK, domainVars
  <2> QED
    BY <1>3, <2>6, <2>7, <2>8, <2>9, <2>10, <2>11, <2>12 DEF Work
<1>4. ASSUME NEW e \in Executors, SendAnswer(e) \/ Crash(e) PROVE TypeInv'
  BY <1>4, IdleType DEF SendAnswer, Crash, TypeOK, Untouched, domainVars
<1>5. ASSUME NEW e \in Executors, Expire(e) PROVE TypeInv'
  BY <1>5 DEF Expire, TypeOK, Untouched, Execs, domainVars
<1>6. ASSUME NEW j \in Jobs, ReleaseJob(j) PROVE TypeInv'
  <2>1. /\ Failed(receipts[j], TRUE) \in Receipts
        /\ Failed(receipts[j], TRUE).status = "failed"
    BY OutcomeTypes, ZenonT(60) DEF TypeOK, Failed, Receipts
  <2> QED
    BY <1>6, <2>1 DEF ReleaseJob, TypeOK, Untouched, domainVars
<1>7. ASSUME NEW n \in Nodes, ReplaceBlob(n) \/ DeleteNode(n) PROVE TypeInv'
  BY <1>7, StaticAssumption DEF ReplaceBlob, DeleteNode, TypeOK, Untouched
<1>8. CASE InstallRuntime
  BY <1>8 DEF InstallRuntime, TypeOK, Untouched
<1> QED
  BY <1>0, <1>1, <1>2, <1>3, <1>4, <1>5, <1>6, <1>7, <1>8 DEF Next, Environment

(* The receipts, the job slots and the snapshots always have their types;   *)
(* in particular no job is ever claimed more than MaxAttempts times.        *)
THEOREM TypeCorrect == Spec => []TypeOK
<1>1. TypeInv => TypeOK
  BY DEF TypeInv
<1> QED
  BY <1>1, TypeInit, TypeStep, PTL DEF Spec

-----------------------------------------------------------------------------
(* Exclusion.  RunningDisjoint is preserved because a claim scans all       *)
(* running receipts; that the writers respect it needs, in addition, that   *)
(* an owning executor's receipt runs with its snapshot, that no two         *)
(* executors own the same job, and that a committed parse, which is allowed *)
(* to write its receipt again, can only meet a final receipt.               *)

OwnersDistinct ==
  \A e, f \in Executors :
    e # f /\ exec[e].phase \in Owning /\ exec[f].phase \in Owning =>
      exec[e].job # exec[f].job

PersistedFinal ==
  \A e \in Executors : At(e, "persisted") => Final(receipts[exec[e].job])

ExclInv ==
  /\ TypeInv
  /\ RunningDisjoint
  /\ OwnerHoldsReceipt
  /\ OwnersDistinct
  /\ PersistedFinal

LEMMA IdlePhase == IdleExec.phase = "idle"
  BY DEF IdleExec

LEMMA ExclInit == Init => ExclInv
<1> SUFFICES ASSUME Init PROVE ExclInv
  OBVIOUS
<1>1. \A j \in Jobs : ~Running(j)
  BY DEF Init, NoReceipt, Running
<1>2. \A e \in Executors : exec[e].phase = "idle"
  BY IdlePhase DEF Init
<1>3. RunningDisjoint
  BY <1>1 DEF RunningDisjoint
<1>4. OwnerHoldsReceipt /\ OwnersDistinct /\ PersistedFinal
  BY <1>2 DEF OwnerHoldsReceipt, OwnersDistinct, PersistedFinal, Owning, At
<1> QED
  BY <1>3, <1>4, TypeInit DEF ExclInv

(* A step that leaves the receipts alone and gives no executor a new job.   *)
LEMMA QuietStep ==
  ASSUME ExclInv, TypeInv', UNCHANGED receipts,
         \A f \in Executors :
           /\ exec'[f].phase \in Owning =>
                /\ exec[f].phase \in Owning
                /\ exec'[f].job = exec[f].job /\ exec'[f].snapshot = exec[f].snapshot
           /\ exec'[f].phase = "persisted" =>
                exec[f].phase = "persisted" /\ exec'[f].job = exec[f].job
  PROVE  ExclInv'
<1>1. RunningDisjoint'
  BY DEF ExclInv, RunningDisjoint, Running, Blocks, SameTarget
<1>2. OwnerHoldsReceipt'
  BY DEF ExclInv, OwnerHoldsReceipt, Running
<1>3. OwnersDistinct'
  BY DEF ExclInv, OwnersDistinct
<1>4. PersistedFinal'
  BY DEF ExclInv, PersistedFinal, At, Final
<1> QED
  BY <1>1, <1>2, <1>3, <1>4 DEF ExclInv

(* A step by which e writes an outcome for the job it owns, or writes a     *)
(* final outcome again after its parse committed.                           *)
LEMMA OutcomeStep ==
  ASSUME ExclInv, TypeInv', NEW e \in Executors, NEW r,
         \/ exec[e].phase \in Owning
         \/ At(e, "persisted") /\ Final(r),
         r.status # "running",
         receipts' = [receipts EXCEPT ![exec[e].job] = r],
         \A f \in Executors \ {e} : exec'[f] = exec[f],
         exec'[e].phase \notin Owning,
         exec'[e].phase = "persisted" => Final(r) /\ exec'[e].job = exec[e].job
  PROVE  ExclInv'
<1> DEFINE j == exec[e].job
<1>0. j \in Jobs /\ receipts \in [Jobs -> Receipts]
  BY DEF ExclInv, TypeInv, TypeOK, Execs
<1>1. RunningDisjoint'
  BY <1>0 DEF ExclInv, RunningDisjoint, Running, Blocks, SameTarget
<1>2. ASSUME NEW f \in Executors, exec'[f].phase \in Owning
      PROVE  f # e /\ exec'[f] = exec[f] /\ exec[f].job # j
  BY <1>2 DEF ExclInv, OwnersDistinct, OwnerHoldsReceipt, PersistedFinal, Running, Final, At
<1>3. OwnerHoldsReceipt'
  BY <1>0, <1>2 DEF ExclInv, OwnerHoldsReceipt, Running
<1>4. OwnersDistinct'
  BY <1>2 DEF ExclInv, OwnersDistinct
<1>5. PersistedFinal'
  <2> SUFFICES ASSUME NEW f \in Executors, exec'[f].phase = "persisted"
               PROVE  Final(receipts'[exec'[f].job])
    BY DEF PersistedFinal, At
  <2>1. CASE f = e
    BY <1>0, <2>1 DEF Final
  <2>2. CASE f # e
    <3>1. exec'[f] = exec[f] /\ Final(receipts[exec[f].job])
      BY <2>2 DEF ExclInv, PersistedFinal, At
    <3>2. exec[f].job = j => Final(r)
      BY <3>1 DEF ExclInv, OwnerHoldsReceipt, Running, Final
    <3>3. exec[f].job \in Jobs
      BY DEF ExclInv, TypeInv, TypeOK, Execs
    <3> QED
      BY <1>0, <3>1, <3>2, <3>3 DEF Final
  <2> QED
    BY <2>1, <2>2
<1> QED
  BY <1>1, <1>3, <1>4, <1>5 DEF ExclInv

(* A claim: the new receipt runs with the snapshot the scan was made with.  *)
LEMMA ClaimStep ==
  ASSUME ExclInv, TypeInv', NEW e \in Executors, ClaimExecution(e)
  PROVE  ExclInv'
<1> DEFINE j == exec[e].job
           r == Started(receipts[j], exec[e].snapshot)
<1>0. /\ j \in Jobs /\ receipts \in [Jobs -> Receipts] /\ receipts[j] \in Receipts
      /\ exec[e] \in Execs /\ exec \in [Executors -> Execs]
  BY DEF ExclInv, TypeInv, TypeOK, Execs
<1>1. /\ receipts' = [receipts EXCEPT ![j] = r]
      /\ exec' = [exec EXCEPT ![e].phase = "claimed"]
      /\ ~ \E k \in Jobs : Blocks(k, j, exec[e].snapshot)
      /\ Claimable(e)
      /\ exec[e].phase = "captured"
  BY DEF ClaimExecution, Step, At
<1>2. r.status = "running" /\ r.snapshot = exec[e].snapshot
  BY <1>0, <1>1 DEF Started, Claimable, Retrying, Receipts
<1>3. ~Running(j) /\ ~Final(receipts[j])
  BY <1>1 DEF Claimable, Retrying, Running, Final
<1>4. /\ exec'[e].phase = "claimed" /\ exec'[e].job = j
      /\ exec'[e].snapshot = exec[e].snapshot
      /\ \A f \in Executors \ {e} : exec'[f] = exec[f]
  BY <1>0, <1>1 DEF Execs
<1>5. receipts'[j] = r /\ \A k \in Jobs \ {j} : receipts'[k] = receipts[k]
  BY <1>0, <1>1
<1> HIDE DEF r
<1>6. RunningDisjoint'
  <2> SUFFICES ASSUME NEW a \in Jobs, NEW b \in Jobs, a # b,
                      receipts'[a].status = "running", receipts'[b].status = "running",
                      \/ SameTarget(a, b)
                      \/ receipts'[a].snapshot.nodes \cap receipts'[b].snapshot.nodes # {}
                      \/ Batch[a] \cap Batch[b] # {}
               PROVE  FALSE
    BY DEF RunningDisjoint, Running, Blocks, SameTarget
  <2>1. CASE a # j /\ b # j
    BY <1>5, <2>1 DEF ExclInv, RunningDisjoint, Running, Blocks
  <2>2. CASE a = j
    BY <1>1, <1>2, <1>5, <2>2 DEF Running, Blocks
  <2>3. CASE b = j
    BY <1>1, <1>2, <1>5, <2>3 DEF Running, Blocks, SameTarget
  <2> QED
    BY <2>1, <2>2, <2>3
<1>7. ASSUME NEW f \in Executors, f # e, exec'[f].phase \in Owning
      PROVE  exec'[f] = exec[f] /\ exec[f].job # j
  BY <1>3, <1>4, <1>7 DEF ExclInv, OwnerHoldsReceipt
<1>8. OwnerHoldsReceipt'
  <2> SUFFICES ASSUME NEW f \in Executors, exec'[f].phase \in Owning
               PROVE  /\ receipts'[exec'[f].job].status = "running"
                      /\ receipts'[exec'[f].job].snapshot = exec'[f].snapshot
    BY DEF OwnerHoldsReceipt, Running
  <2>1. CASE f = e
    BY <1>2, <1>4, <1>5, <2>1
  <2>2. CASE f # e
    BY <1>0, <1>5, <1>7, <2>2 DEF ExclInv, OwnerHoldsReceipt, Running, Execs
  <2> QED
    BY <2>1, <2>2
<1>9. OwnersDistinct'
  BY <1>4, <1>7 DEF ExclInv, OwnersDistinct
<1>10. PersistedFinal'
  <2> SUFFICES ASSUME NEW f \in Executors, exec'[f].phase = "persisted"
               PROVE  Final(receipts'[exec'[f].job])
    BY DEF PersistedFinal, At
  <2>1. exec'[f] = exec[f] /\ Final(receipts[exec[f].job]) /\ exec[f].job \in Jobs
    BY <1>0, <1>4 DEF ExclInv, PersistedFinal, At, Execs
  <2> QED
    BY <1>3, <1>5, <2>1
<1> QED
  BY <1>6, <1>8, <1>9, <1>10 DEF ExclInv

LEMMA ExclStep == ExclInv /\ [Next]_vars => ExclInv'
<1> SUFFICES ASSUME ExclInv, [Next]_vars PROVE ExclInv'
  OBVIOUS
<1>0. TypeInv' /\ exec \in [Executors -> Execs] /\ receipts \in [Jobs -> Receipts]
  BY TypeStep DEF ExclInv, TypeInv, TypeOK
<1>1. CASE UNCHANGED vars
  BY <1>0, <1>1, QuietStep DEF vars
<1>2. ASSUME NEW e \in Executors, NEW j \in Jobs, ReceiveJob(e, j) PROVE ExclInv'
  BY <1>0, <1>2, QuietStep DEF ReceiveJob, IdleExec, Owning
<1>3. ASSUME NEW e \in Executors, Claim(e) PROVE ExclInv'
  <2>1. CASE ClaimAnswered(e) \/ ClaimConflict(e) \/ ClaimDeferred(e)
    <3>1. UNCHANGED receipts /\ \E a : Answer(e, a)
      BY <2>1 DEF ClaimAnswered, ClaimConflict, ClaimDeferred
    <3> QED
      BY <1>0, <3>1, QuietStep DEF Answer, Owning, Execs
  <2>2. CASE ClaimExhausted(e)
    <3> DEFINE j == exec[e].job
    <3>1. /\ j \in Jobs /\ receipts[j].status = "failed" /\ receipts[j].retryable
          /\ receipts' = [receipts EXCEPT ![j] = Failed(@, FALSE)]
          /\ Failed(receipts[j], FALSE).status = "failed"
          /\ ~Failed(receipts[j], FALSE).retryable
          /\ exec'[e].phase = "answering" /\ \A f \in Executors \ {e} : exec'[f] = exec[f]
      BY <1>0, <2>2 DEF ClaimExhausted, Retrying, Answer, Execs, Failed, Receipts
    <3>2. RunningDisjoint'
      BY <1>0, <3>1 DEF ExclInv, RunningDisjoint, Running, Blocks, SameTarget
    <3>3. \A f \in Executors : exec'[f].phase \in Owning =>
             exec'[f] = exec[f] /\ exec[f].job # j
      BY <3>1 DEF ExclInv, OwnerHoldsReceipt, Running, Owning
    <3>4. OwnerHoldsReceipt'
      <4> SUFFICES ASSUME NEW f \in Executors, exec'[f].phase \in Owning
                   PROVE  /\ receipts'[exec'[f].job].status = "running"
                          /\ receipts'[exec'[f].job].snapshot = exec'[f].snapshot
        BY DEF OwnerHoldsReceipt, Running
      <4>1. exec'[f] = exec[f] /\ exec[f].job \in Jobs \ {j}
        BY <1>0, <3>3 DEF Execs
      <4>2. receipts'[exec[f].job] = receipts[exec[f].job]
        BY <1>0, <3>1, <4>1
      <4> QED
        BY <4>1, <4>2 DEF ExclInv, OwnerHoldsReceipt, Running
    <3>5. OwnersDistinct'
      BY <3>3 DEF ExclInv, OwnersDistinct
    <3>6. PersistedFinal'
      BY <1>0, <3>1 DEF ExclInv, PersistedFinal, At, Final, Execs
    <3> QED
      BY <1>0, <3>2, <3>4, <3>5, <3>6 DEF ExclInv
  <2>3. CASE ClaimExecution(e)
    BY <1>0, <2>3, ClaimStep
  <2> QED
    BY <1>3, <2>1, <2>2, <2>3 DEF Claim
<1>4. ASSUME NEW e \in Executors, Work(e) PROVE ExclInv'
  <2> DEFINE j == exec[e].job
  <2>0. j \in Jobs /\ receipts[j] \in Receipts /\ exec[e] \in Execs
    BY <1>0 DEF Execs
  <2>1. ASSUME NEW b \in BOOLEAN, FailWith(e, b), exec[e].phase \in Owning \/ (At(e, "persisted") /\ ~b)
        PROVE  ExclInv'
    <3>1. Failed(receipts[j], b).status = "failed" /\ Failed(receipts[j], b).retryable = b
      BY <2>0 DEF Failed, Receipts
    <3>2. /\ receipts' = [receipts EXCEPT ![j] = Failed(receipts[j], b)]
          /\ exec'[e].phase = "answering" /\ \A f \in Executors \ {e} : exec'[f] = exec[f]
      BY <1>0, <2>0, <2>1 DEF FailWith, Answer, Execs
    <3> QED
      BY <1>0, <2>1, <3>1, <3>2, OutcomeStep DEF Final, Owning
  <2>2. ASSUME NEW S \in SUBSET Jobs, exec[e].phase \in Owning \/ At(e, "persisted"),
               receipts' = [receipts EXCEPT ![j] = Finished(@, S)],
               exec'[e].phase \notin Owning, exec'[e].job = j,
               \A f \in Executors \ {e} : exec'[f] = exec[f]
        PROVE  ExclInv'
    <3>1. Finished(receipts[j], S).status = "succeeded"
      BY <2>0 DEF Finished, Receipts
    <3>2. receipts' = [receipts EXCEPT ![j] = Finished(receipts[j], S)]
      BY <2>2
    <3> QED
      BY <1>0, <2>2, <3>1, <3>2, OutcomeStep DEF Final
  <2>3. CASE StartWork(e) \/ Persist(e) \/ NothingToPersist(e) \/ CommitBatch(e)
    <3>1. /\ UNCHANGED receipts /\ exec[e].phase \in Owning
          /\ \E p \in Owning : Step(e, p)
      BY <2>3 DEF StartWork, Persist, NothingToPersist, CommitBatch, At, Owning
    <3> QED
      BY <1>0, <2>0, <3>1, QuietStep DEF Step, Owning, Execs
  <2>4. CASE RefuseStart(e) \/ PersistStale(e) \/ LateStale(e) \/ DomainFailure(e)
    BY <2>1, <2>4 DEF RefuseStart, PersistStale, LateStale, DomainFailure, At, Owning
  <2>5. CASE \E b \in BOOLEAN : WorkFails(e, b)
    BY <2>1, <2>5 DEF WorkFails, At, Owning
  <2>6. CASE CommitPlan(e)
    <3>1. PICK S \in SUBSET Children[j] :
            /\ receipts' = [receipts EXCEPT ![j] = Finished(@, S)]
            /\ Answer(e, Accepted(S))
      BY <2>6 DEF CommitPlan
    <3>2. S \in SUBSET Jobs
      BY <2>0, StaticAssumption
    <3>3. /\ exec'[e].phase = "answering" /\ exec'[e].job = j
          /\ \A f \in Executors \ {e} : exec'[f] = exec[f]
      BY <1>0, <2>0, <3>1 DEF Answer, Execs
    <3>4. exec[e].phase \in Owning /\ exec'[e].phase \notin Owning
      BY <2>6, <3>3 DEF CommitPlan, At, Owning
    <3> QED
      BY <2>2, <3>1, <3>2, <3>3, <3>4
  <2>7. CASE CommitParse(e)
    <3>1. /\ exec'[e].phase = "persisted" /\ exec'[e].job = j
          /\ \A f \in Executors \ {e} : exec'[f] = exec[f]
      BY <1>0, <2>0, <2>7 DEF CommitParse, Step, Execs
    <3>2. exec[e].phase \in Owning /\ exec'[e].phase \notin Owning
      BY <2>7, <3>1 DEF CommitParse, At, Owning
    <3>3. /\ receipts' = [receipts EXCEPT ![j] = Finished(@, Children[j])]
          /\ Children[j] \in SUBSET Jobs
      BY <2>0, <2>7, StaticAssumption DEF CommitParse
    <3> QED
      BY <2>2, <3>1, <3>2, <3>3
  <2>8. CASE FinishExecution(e)
    <3> DEFINE S == IF At(e, "persisted") THEN Children[j] ELSE {}
    <3>1. S \in SUBSET Jobs
      BY <2>0, StaticAssumption
    <3>2. /\ receipts' = [receipts EXCEPT ![j] = Finished(@, S)]
          /\ Answer(e, Accepted(S))
          /\ exec[e].phase \in Owning \/ At(e, "persisted")
      BY <2>8 DEF FinishExecution, At, Owning
    <3> HIDE DEF S
    <3>3. /\ exec'[e].phase \notin Owning /\ exec'[e].job = j
          /\ \A f \in Executors \ {e} : exec'[f] = exec[f]
      BY <1>0, <2>0, <3>2 DEF Answer, Execs, Owning
    <3> QED
      BY <2>2, <3>1, <3>2, <3>3
  <2> QED
    BY <1>4, <2>3, <2>4, <2>5, <2>6, <2>7, <2>8 DEF Work
<1>5. ASSUME NEW e \in Executors, SendAnswer(e) \/ Crash(e) PROVE ExclInv'
  <2>1. UNCHANGED receipts /\ exec' = [exec EXCEPT ![e] = IdleExec]
    BY <1>5 DEF SendAnswer, Crash
  <2>2. exec'[e].phase = "idle" /\ \A f \in Executors \ {e} : exec'[f] = exec[f]
    BY <1>0, <2>1, IdlePhase
  <2> QED
    BY <1>0, <2>1, <2>2, QuietStep DEF Owning
<1>6. ASSUME NEW e \in Executors, Expire(e) PROVE ExclInv'
  BY <1>0, <1>6, QuietStep DEF Expire, Execs
<1>7. ASSUME NEW j \in Jobs, ReleaseJob(j) PROVE ExclInv'
  <2>1. /\ receipts' = [receipts EXCEPT ![j] = Failed(receipts[j], TRUE)]
        /\ Failed(receipts[j], TRUE).status = "failed"
        /\ UNCHANGED exec /\ OwnerStopped(j) /\ Running(j)
    BY <1>0, <1>7 DEF ReleaseJob, Failed, Receipts
  <2>2. RunningDisjoint'
    BY <1>0, <2>1 DEF ExclInv, RunningDisjoint, Running, Blocks, SameTarget
  <2>3. OwnerHoldsReceipt' /\ OwnersDistinct'
    BY <1>0, <2>1
    DEF ExclInv, OwnerHoldsReceipt, OwnersDistinct, OwnerStopped, Running, Execs
  <2>4. PersistedFinal'
    BY <1>0, <2>1 DEF ExclInv, PersistedFinal, Running, Final, At, Execs
  <2> QED
    BY <1>0, <2>2, <2>3, <2>4 DEF ExclInv
<1>8. ASSUME NEW n \in Nodes, ReplaceBlob(n) \/ DeleteNode(n) PROVE ExclInv'
  BY <1>0, <1>8, QuietStep DEF ReplaceBlob, DeleteNode
<1>9. CASE InstallRuntime
  BY <1>0, <1>9, QuietStep DEF InstallRuntime
<1> QED
  BY <1>1, <1>2, <1>3, <1>4, <1>5, <1>6, <1>7, <1>8, <1>9 DEF Next, Environment

LEMMA ExclInvariant == Spec => []ExclInv
  BY ExclInit, ExclStep, PTL DEF Spec

(* At any time the running receipts are disjoint in targets, documents and  *)
(* chunks (claim_execution, executor_jobs.py).                              *)
THEOREM Exclusion == Spec => []RunningDisjoint
<1>1. ExclInv => RunningDisjoint
  BY DEF ExclInv
<1> QED
  BY <1>1, ExclInvariant, PTL

(* The executors that may still write own distinct running receipts, and    *)
(* therefore never work on a common document.                               *)
THEOREM WriterExclusion == Spec => []WritersHoldReceipts
<1>1. ExclInv => OwnerHoldsReceipt
  BY DEF ExclInv
<1>2. ExclInv => WritersDisjoint
  <2> SUFFICES ASSUME ExclInv, NEW e \in Executors, NEW f \in Executors, e # f,
                      exec[e].phase \in Owning, exec[f].phase \in Owning
               PROVE  /\ exec[e].job # exec[f].job
                      /\ exec[e].snapshot.nodes \cap exec[f].snapshot.nodes = {}
    BY DEF WritersDisjoint
  <2>1. exec[e].job # exec[f].job /\ exec[e].job \in Jobs /\ exec[f].job \in Jobs
    BY DEF ExclInv, OwnersDistinct, TypeInv, TypeOK, Execs
  <2>2. /\ Running(exec[e].job) /\ receipts[exec[e].job].snapshot = exec[e].snapshot
        /\ Running(exec[f].job) /\ receipts[exec[f].job].snapshot = exec[f].snapshot
    BY DEF ExclInv, OwnerHoldsReceipt
  <2> QED
    BY <2>1, <2>2 DEF ExclInv, RunningDisjoint, Blocks
<1>3. ExclInv => WritersHoldReceipts
  BY <1>1, <1>2 DEF WritersHoldReceipts
<1> QED
  BY <1>3, ExclInvariant, PTL

-----------------------------------------------------------------------------
(* Commits and children.  The count of commits is bounded by the attempts   *)
(* because whoever may still commit was given an attempt for it             *)
(* (FreshAttempt); a parse or plan that committed is final, so that no      *)
(* claim starts it again (CommittedFinal); and what a committed parse still *)
(* has to write are the children it already recorded (PersistedCommitted).  *)

FreshAttempt ==
  \A e \in Executors : exec[e].phase \in {"claimed", "working", "persisting"} =>
    commits[exec[e].job] < receipts[exec[e].job].attempt

CommittedFinal ==
  \A j \in Jobs : Kind[j] \in {"parse", "plan"} /\ commits[j] > 0 => Final(receipts[j])

PersistedCommitted ==
  \A e \in Executors : At(e, "persisted") =>
    Kind[exec[e].job] = "parse" /\ commits[exec[e].job] > 0

CommitInv ==
  /\ ExclInv
  /\ CommittedWithChildren
  /\ FreshAttempt
  /\ CommittedFinal
  /\ PersistedCommitted

LEMMA CommitInit == Init => CommitInv
<1> SUFFICES ASSUME Init PROVE CommitInv
  OBVIOUS
<1>1. CommittedWithChildren
  BY DEF Init, CommittedWithChildren, CommittedOnce, ChildrenWithCommit, NoReceipt
<1>2. FreshAttempt /\ CommittedFinal /\ PersistedCommitted
  BY IdlePhase DEF Init, FreshAttempt, CommittedFinal, PersistedCommitted, At
<1> QED
  BY <1>1, <1>2, ExclInit DEF CommitInv

(* The types the arithmetic of the following lemmas needs.                  *)
LEMMA CommitTypes ==
  ASSUME TypeInv
  PROVE  /\ receipts \in [Jobs -> Receipts] /\ commits \in [Jobs -> Nat]
         /\ exec \in [Executors -> Execs]
         /\ \A j \in Jobs : receipts[j].attempt \in Nat /\ commits[j] \in Nat
         /\ \A e \in Executors : exec[e] \in Execs /\ exec[e].job \in Jobs
  BY StaticAssumption DEF TypeInv, TypeOK, Receipts, Execs

(* A step that leaves receipts and commits alone and lets nobody go on to   *)
(* another job.                                                             *)
LEMMA QuietCommits ==
  ASSUME CommitInv, ExclInv', UNCHANGED <<receipts, commits>>,
         \A f \in Executors :
           /\ exec'[f].phase \in {"claimed", "working", "persisting"} =>
                /\ exec[f].phase \in {"claimed", "working", "persisting"}
                /\ exec'[f].job = exec[f].job
           /\ exec'[f].phase = "persisted" =>
                exec[f].phase = "persisted" /\ exec'[f].job = exec[f].job
  PROVE  CommitInv'
<1>1. CommittedWithChildren'
  BY DEF CommitInv, CommittedWithChildren, CommittedOnce, ChildrenWithCommit
<1>2. FreshAttempt'
  BY DEF CommitInv, FreshAttempt
<1>3. CommittedFinal'
  BY DEF CommitInv, CommittedFinal, Final
<1>4. PersistedCommitted'
  BY DEF CommitInv, PersistedCommitted, At
<1> QED
  BY <1>1, <1>2, <1>3, <1>4 DEF CommitInv

(* A step that writes an outcome without committing: it keeps attempts and  *)
(* children, or writes the children of a committed parse again, or records  *)
(* none for a job that never committed as a parse.                          *)
LEMMA OutcomeCommits ==
  ASSUME CommitInv, ExclInv', NEW e \in Executors, NEW r,
         receipts' = [receipts EXCEPT ![exec[e].job] = r], UNCHANGED commits,
         \A f \in Executors \ {e} : exec'[f] = exec[f],
         exec'[e].phase = "answering",
         r.attempt = receipts[exec[e].job].attempt,
         Final(receipts[exec[e].job]) => Final(r),
         \/ r.followups = receipts[exec[e].job].followups
         \/ At(e, "persisted") /\ r.followups = Children[exec[e].job]
         \/ ~Final(receipts[exec[e].job]) /\ r.followups = {}
  PROVE  CommitInv'
<1> DEFINE j == exec[e].job
<1>0. /\ j \in Jobs /\ receipts \in [Jobs -> Receipts] /\ commits \in [Jobs -> Nat]
      /\ \A f \in Executors : exec[f].job \in Jobs
      /\ \A k \in Jobs : receipts'[k] = IF k = j THEN r ELSE receipts[k]
  BY CommitTypes DEF CommitInv, ExclInv
<1>1. CommittedOnce'
  BY <1>0 DEF CommitInv, CommittedWithChildren, CommittedOnce
<1>2. ChildrenWithCommit'
  <2>1. Kind[j] = "parse" /\ commits[j] > 0 => r.followups = Children[j]
    BY <1>0 DEF CommitInv, CommittedWithChildren, ChildrenWithCommit, CommittedFinal
  <2>2. r.followups # {} => commits[j] > 0
    BY <1>0 DEF CommitInv, CommittedWithChildren, ChildrenWithCommit, PersistedCommitted
  <2> QED
    BY <1>0, <2>1, <2>2 DEF CommitInv, CommittedWithChildren, ChildrenWithCommit
<1>3. FreshAttempt'
  BY <1>0 DEF CommitInv, FreshAttempt
<1>4. CommittedFinal'
  BY <1>0 DEF CommitInv, CommittedFinal, Final
<1>5. PersistedCommitted'
  BY <1>0 DEF CommitInv, PersistedCommitted, At
<1> QED
  BY <1>1, <1>2, <1>3, <1>4, <1>5 DEF CommitInv, CommittedWithChildren

CommitCounted(j) == commits' = [commits EXCEPT ![j] = @ + 1]

(* A transaction commits: its executor owns the receipt and was given an    *)
(* attempt, so a parse or plan had not committed before.                    *)
LEMMA CommitStep ==
  ASSUME CommitInv, ExclInv', NEW e \in Executors,
         exec[e].phase \in {"working", "persisting"},
         \A k \in Jobs \ {exec[e].job} : receipts'[k] = receipts[k],
         CommitCounted(exec[e].job),
         \A f \in Executors \ {e} : exec'[f] = exec[f],
         exec'[e].phase \in {"answering", "persisted", "validating"},
         exec'[e].job = exec[e].job,
         exec'[e].phase = "persisted" => Kind[exec[e].job] = "parse",
         receipts'[exec[e].job].attempt = receipts[exec[e].job].attempt,
         Kind[exec[e].job] \in {"parse", "plan"} => Final(receipts'[exec[e].job]),
         Kind[exec[e].job] = "parse" =>
           receipts'[exec[e].job].followups = Children[exec[e].job]
  PROVE  CommitInv'
<1> DEFINE j == exec[e].job
<1>0. /\ j \in Jobs /\ receipts \in [Jobs -> Receipts] /\ commits \in [Jobs -> Nat]
      /\ commits[j] \in Nat /\ receipts[j].attempt \in Nat
      /\ \A f \in Executors : exec[f].job \in Jobs
      /\ \A k \in Jobs \ {j} : receipts'[k] = receipts[k]
      /\ \A k \in Jobs : commits'[k] = IF k = j THEN commits[j] + 1 ELSE commits[k]
  BY CommitTypes DEF CommitInv, ExclInv, CommitCounted
<1>1. commits[j] < receipts[j].attempt
  BY DEF CommitInv, FreshAttempt
<1>2. Kind[j] \in {"parse", "plan"} => commits[j] = 0
  <2>1. Running(j)
    BY DEF CommitInv, ExclInv, OwnerHoldsReceipt, Owning
  <2> QED
    BY <1>0, <2>1 DEF CommitInv, CommittedFinal, Final, Running
<1>3. CommittedOnce'
  BY <1>0, <1>1, <1>2 DEF CommitInv, CommittedWithChildren, CommittedOnce
<1>4. ChildrenWithCommit'
  BY <1>0 DEF CommitInv, CommittedWithChildren, ChildrenWithCommit
<1>5. FreshAttempt'
  <2> SUFFICES ASSUME NEW f \in Executors,
                      exec'[f].phase \in {"claimed", "working", "persisting"}
               PROVE  commits'[exec'[f].job] < receipts'[exec'[f].job].attempt
    BY DEF FreshAttempt
  <2>1. f # e /\ exec'[f] = exec[f]
    OBVIOUS
  <2>2. exec[f].job # j
    BY <2>1 DEF CommitInv, ExclInv, OwnersDistinct, Owning
  <2> QED
    BY <1>0, <2>1, <2>2 DEF CommitInv, FreshAttempt
<1>6. CommittedFinal'
  BY <1>0 DEF CommitInv, CommittedFinal, Final
<1>7. PersistedCommitted'
  <2> SUFFICES ASSUME NEW f \in Executors, exec'[f].phase = "persisted"
               PROVE  Kind[exec'[f].job] = "parse" /\ commits'[exec'[f].job] > 0
    BY DEF PersistedCommitted, At
  <2>1. CASE f = e
    BY <1>0, <2>1
  <2>2. CASE f # e
    BY <1>0, <2>2 DEF CommitInv, PersistedCommitted, At
  <2> QED
    BY <2>1, <2>2
<1> QED
  BY <1>3, <1>4, <1>5, <1>6, <1>7 DEF CommitInv, CommittedWithChildren

(* A claim adds the attempt that its executor may commit in.                *)
LEMMA ClaimCommits ==
  ASSUME CommitInv, ExclInv', NEW e \in Executors, ClaimExecution(e)
  PROVE  CommitInv'
<1> DEFINE j == exec[e].job
           r == Started(receipts[j], exec[e].snapshot)
<1>0. /\ j \in Jobs /\ receipts \in [Jobs -> Receipts] /\ commits \in [Jobs -> Nat]
      /\ exec[e] \in Execs /\ receipts[j] \in Receipts
      /\ commits[j] \in Nat /\ receipts[j].attempt \in Nat
      /\ \A f \in Executors : exec[f].job \in Jobs
      /\ exec \in [Executors -> Execs]
  BY CommitTypes DEF CommitInv, ExclInv
<1>1. /\ receipts' = [receipts EXCEPT ![j] = r] /\ commits' = commits /\ Claimable(e)
      /\ exec' = [exec EXCEPT ![e].phase = "claimed"] /\ exec[e].phase = "captured"
  BY DEF ClaimExecution, Step, At
<1>2. /\ r.attempt = receipts[j].attempt + 1
      /\ r.followups = receipts[j].followups
  BY <1>0 DEF Started, Receipts
<1>3. ~Final(receipts[j])
  BY <1>1 DEF Claimable, Retrying, Final
<1>4. /\ exec'[e].phase = "claimed" /\ exec'[e].job = j
      /\ \A f \in Executors \ {e} : exec'[f] = exec[f]
  BY <1>0, <1>1 DEF Execs
<1>5. \A k \in Jobs : receipts'[k] = IF k = j THEN r ELSE receipts[k]
  BY <1>0, <1>1
<1> HIDE DEF r
<1>6. CommittedOnce'
  BY <1>0, <1>1, <1>2, <1>5 DEF CommitInv, CommittedWithChildren, CommittedOnce
<1>7. ChildrenWithCommit'
  BY <1>0, <1>1, <1>2, <1>5 DEF CommitInv, CommittedWithChildren, ChildrenWithCommit
<1>8. FreshAttempt'
  <2> SUFFICES ASSUME NEW f \in Executors,
                      exec'[f].phase \in {"claimed", "working", "persisting"}
               PROVE  commits'[exec'[f].job] < receipts'[exec'[f].job].attempt
    BY DEF FreshAttempt
  <2>1. CASE f = e
    BY <1>0, <1>1, <1>2, <1>4, <1>5, <2>1
    DEF CommitInv, CommittedWithChildren, CommittedOnce
  <2>2. CASE f # e
    <3>1. exec'[f] = exec[f] /\ exec[f].job # j
      BY <1>3, <1>4, <1>1, <2>2
      DEF CommitInv, ExclInv, OwnerHoldsReceipt, Owning, Claimable, Retrying, Running
    <3> QED
      BY <1>0, <1>1, <1>5, <3>1 DEF CommitInv, FreshAttempt
  <2> QED
    BY <2>1, <2>2
<1>9. CommittedFinal'
  BY <1>0, <1>1, <1>3, <1>5 DEF CommitInv, CommittedFinal, Final
<1>10. PersistedCommitted'
  BY <1>1, <1>4 DEF CommitInv, PersistedCommitted, At
<1> QED
  BY <1>6, <1>7, <1>8, <1>9, <1>10 DEF CommitInv, CommittedWithChildren

(* What FailWith and a finish write, as the lemmas above take it.           *)
LEMMA OutcomeRecords ==
  ASSUME NEW r \in Receipts
  PROVE  /\ \A b \in BOOLEAN :
              /\ Failed(r, b).status = "failed" /\ Failed(r, b).retryable = b
              /\ Failed(r, b).attempt = r.attempt /\ Failed(r, b).followups = r.followups
              /\ Failed(r, b).snapshot = r.snapshot
         /\ \A S \in SUBSET Jobs :
              /\ Finished(r, S).status = "succeeded" /\ Finished(r, S).attempt = r.attempt
              /\ Finished(r, S).followups = S
              /\ Finished(r, S).snapshot = r.snapshot
  BY DEF Failed, Finished, Receipts

LEMMA CommitInvStep == CommitInv /\ [Next]_vars => CommitInv'
<1> SUFFICES ASSUME CommitInv, [Next]_vars PROVE CommitInv'
  OBVIOUS
<1>0. /\ ExclInv' /\ exec \in [Executors -> Execs] /\ receipts \in [Jobs -> Receipts]
      /\ \A e \in Executors : exec[e] \in Execs /\ exec[e].job \in Jobs
      /\ commits \in [Jobs -> Nat]
  BY ExclStep, CommitTypes DEF CommitInv, ExclInv
<1>1. CASE UNCHANGED vars
  BY <1>0, <1>1, QuietCommits DEF vars
<1>2. ASSUME NEW e \in Executors, NEW j \in Jobs, ReceiveJob(e, j) PROVE CommitInv'
  BY <1>0, <1>2, QuietCommits DEF ReceiveJob, IdleExec
<1>3. ASSUME NEW e \in Executors, Claim(e) PROVE CommitInv'
  <2>1. CASE ClaimAnswered(e) \/ ClaimConflict(e) \/ ClaimDeferred(e)
    <3>1. UNCHANGED <<receipts, commits>> /\ \E a : Answer(e, a)
      BY <2>1 DEF ClaimAnswered, ClaimConflict, ClaimDeferred
    <3> QED
      BY <1>0, <3>1, QuietCommits DEF Answer, Execs
  <2>2. CASE ClaimExhausted(e)
    <3> DEFINE r == Failed(receipts[exec[e].job], FALSE)
    <3>1. /\ receipts' = [receipts EXCEPT ![exec[e].job] = r] /\ UNCHANGED commits
          /\ exec'[e].phase = "answering" /\ \A f \in Executors \ {e} : exec'[f] = exec[f]
      BY <1>0, <2>2 DEF ClaimExhausted, Answer, Execs
    <3>2. /\ r.attempt = receipts[exec[e].job].attempt
          /\ r.followups = receipts[exec[e].job].followups /\ Final(r)
      BY <1>0, OutcomeRecords DEF Final
    <3> HIDE DEF r
    <3> QED
      BY <1>0, <3>1, <3>2, OutcomeCommits
  <2>3. CASE ClaimExecution(e)
    BY <1>0, <2>3, ClaimCommits
  <2> QED
    BY <1>3, <2>1, <2>2, <2>3 DEF Claim
<1>4. ASSUME NEW e \in Executors, Work(e) PROVE CommitInv'
  <2> DEFINE j == exec[e].job
  <2>0. /\ j \in Jobs /\ receipts[j] \in Receipts /\ exec[e] \in Execs
        /\ exec[e].phase \in Owning => ~Final(receipts[j])
        /\ At(e, "persisted") => exec[e].phase \notin Owning
    BY <1>0 DEF CommitInv, ExclInv, OwnerHoldsReceipt, Running, Final, At, Owning
  <2>1. ASSUME NEW b \in BOOLEAN, FailWith(e, b),
               exec[e].phase \in Owning \/ (At(e, "persisted") /\ ~b)
        PROVE  CommitInv'
    <3> DEFINE r == Failed(receipts[j], b)
    <3>1. /\ receipts' = [receipts EXCEPT ![j] = r] /\ UNCHANGED commits
          /\ exec'[e].phase = "answering" /\ \A f \in Executors \ {e} : exec'[f] = exec[f]
      BY <1>0, <2>0, <2>1 DEF FailWith, Answer, Execs
    <3>2. /\ r.attempt = receipts[j].attempt /\ r.followups = receipts[j].followups
          /\ Final(receipts[j]) => Final(r)
      BY <2>0, <2>1, OutcomeRecords DEF Final
    <3> HIDE DEF r
    <3> QED
      BY <1>0, <3>1, <3>2, OutcomeCommits
  <2>2. CASE StartWork(e) \/ Persist(e) \/ NothingToPersist(e)
    <3>1. /\ UNCHANGED <<receipts, commits>>
          /\ exec[e].phase \in {"claimed", "working"}
          /\ \E p \in Owning : Step(e, p)
      BY <2>2 DEF StartWork, Persist, NothingToPersist, At, Owning
    <3> QED
      BY <1>0, <2>0, <3>1, QuietCommits DEF Step, Owning, Execs
  <2>3. CASE RefuseStart(e) \/ PersistStale(e) \/ LateStale(e) \/ DomainFailure(e)
    BY <2>1, <2>3 DEF RefuseStart, PersistStale, LateStale, DomainFailure, At, Owning
  <2>4. CASE \E b \in BOOLEAN : WorkFails(e, b)
    BY <2>1, <2>4 DEF WorkFails, At, Owning
  <2>5. CASE CommitPlan(e)
    <3>1. PICK S \in SUBSET Children[j] :
            /\ receipts' = [receipts EXCEPT ![j] = Finished(@, S)]
            /\ Answer(e, Accepted(S))
      BY <2>5 DEF CommitPlan
    <3>2. S \in SUBSET Jobs
      BY <2>0, StaticAssumption
    <3>3. /\ receipts'[j] = Finished(receipts[j], S)
          /\ \A k \in Jobs \ {j} : receipts'[k] = receipts[k]
          /\ CommitCounted(j)
          /\ exec'[e].phase = "answering" /\ exec'[e].job = exec[e].job
          /\ \A f \in Executors \ {e} : exec'[f] = exec[f]
          /\ exec[e].phase = "working" /\ Kind[j] = "plan"
      BY <1>0, <2>0, <2>5, <3>1 DEF CommitPlan, Answer, Execs, At, CommitCounted
    <3>4. receipts'[j].attempt = receipts[j].attempt /\ Final(receipts'[j])
      BY <2>0, <3>2, <3>3, OutcomeRecords DEF Final
    <3> QED
      BY <1>0, <3>3, <3>4, CommitStep
  <2>6. CASE CommitParse(e)
    <3>1. /\ receipts'[j] = Finished(receipts[j], Children[j])
          /\ \A k \in Jobs \ {j} : receipts'[k] = receipts[k]
          /\ CommitCounted(j)
          /\ exec'[e].phase = "persisted" /\ exec'[e].job = j
          /\ \A f \in Executors \ {e} : exec'[f] = exec[f]
          /\ exec[e].phase \in {"working", "persisting"} /\ Kind[j] = "parse"
          /\ exec'[e].phase \in {"answering", "persisted", "validating"}
      BY <1>0, <2>0, <2>6 DEF CommitParse, Step, Execs, At, CommitCounted
    <3>2. Children[j] \in SUBSET Jobs
      BY <2>0, StaticAssumption
    <3>3. /\ receipts'[j].attempt = receipts[j].attempt
          /\ Final(receipts'[j]) /\ receipts'[j].followups = Children[j]
      BY <2>0, <3>1, <3>2, OutcomeRecords DEF Final
    <3> QED
      BY <1>0, <3>1, <3>3, CommitStep
  <2>7. CASE CommitBatch(e)
    <3>1. /\ UNCHANGED receipts
          /\ CommitCounted(j)
          /\ exec'[e].phase \in {"answering", "persisted", "validating"}
          /\ exec'[e].phase # "persisted" /\ exec'[e].job = j
          /\ \A f \in Executors \ {e} : exec'[f] = exec[f]
          /\ exec[e].phase \in {"working", "persisting"}
          /\ Kind[j] \notin {"parse", "plan"}
      BY <1>0, <2>0, <2>7 DEF CommitBatch, Step, Execs, At, CommitCounted
    <3> QED
      BY <1>0, <3>1, CommitStep
  <2>8. CASE FinishExecution(e)
    <3> DEFINE S == IF At(e, "persisted") THEN Children[j] ELSE {}
               r == Finished(receipts[j], S)
    <3>1. S \in SUBSET Jobs
      BY <2>0, StaticAssumption
    <3>2. /\ receipts' = [receipts EXCEPT ![j] = r] /\ UNCHANGED commits
          /\ Answer(e, Accepted(S))
          /\ At(e, "persisted") \/ exec[e].phase \in Owning
      BY <2>8 DEF FinishExecution, At, Owning
    <3>3. /\ r.attempt = receipts[j].attempt /\ Final(r) /\ r.followups = S
      BY <2>0, <3>1, OutcomeRecords DEF Final
    <3>4. \/ At(e, "persisted") /\ r.followups = Children[j]
          \/ ~Final(receipts[j]) /\ r.followups = {}
      BY <2>0, <3>2, <3>3
    <3> HIDE DEF S, r
    <3>5. exec'[e].phase = "answering" /\ \A f \in Executors \ {e} : exec'[f] = exec[f]
      BY <1>0, <2>0, <3>2 DEF Answer, Execs
    <3> QED
      BY <1>0, <3>2, <3>3, <3>4, <3>5, OutcomeCommits
  <2> QED
    BY <1>4, <2>2, <2>3, <2>4, <2>5, <2>6, <2>7, <2>8 DEF Work
<1>5. ASSUME NEW e \in Executors, SendAnswer(e) \/ Crash(e) PROVE CommitInv'
  <2>1. UNCHANGED <<receipts, commits>> /\ exec' = [exec EXCEPT ![e] = IdleExec]
    BY <1>5 DEF SendAnswer, Crash
  <2>2. exec'[e].phase = "idle" /\ \A f \in Executors \ {e} : exec'[f] = exec[f]
    BY <1>0, <2>1, IdlePhase
  <2> QED
    BY <1>0, <2>1, <2>2, QuietCommits
<1>6. ASSUME NEW e \in Executors, Expire(e) PROVE CommitInv'
  BY <1>0, <1>6, QuietCommits DEF Expire, Execs
<1>7. ASSUME NEW j \in Jobs, ReleaseJob(j) PROVE CommitInv'
  <2>1. /\ receipts' = [receipts EXCEPT ![j] = Failed(receipts[j], TRUE)]
        /\ UNCHANGED <<exec, commits>> /\ Running(j)
        /\ receipts[j] \in Receipts
    BY <1>0, <1>7 DEF ReleaseJob
  <2>2. \A k \in Jobs : /\ receipts'[k].attempt = receipts[k].attempt
                        /\ receipts'[k].followups = receipts[k].followups
    BY <1>0, <2>1 DEF Failed, Receipts
  <2>3. \A k \in Jobs : Final(receipts[k]) => receipts'[k] = receipts[k]
    BY <1>0, <2>1 DEF Running, Final
  <2>4. CommittedWithChildren'
    BY <2>1, <2>2 DEF CommitInv, CommittedWithChildren, CommittedOnce, ChildrenWithCommit
  <2>5. FreshAttempt' /\ PersistedCommitted'
    BY <1>0, <2>1, <2>2 DEF CommitInv, FreshAttempt, PersistedCommitted, At
  <2>6. CommittedFinal'
    BY <2>1, <2>3 DEF CommitInv, CommittedFinal
  <2> QED
    BY <1>0, <2>4, <2>5, <2>6 DEF CommitInv
<1>8. ASSUME NEW n \in Nodes, ReplaceBlob(n) \/ DeleteNode(n) PROVE CommitInv'
  BY <1>0, <1>8, QuietCommits DEF ReplaceBlob, DeleteNode
<1>9. CASE InstallRuntime
  BY <1>0, <1>9, QuietCommits DEF InstallRuntime
<1> QED
  BY <1>1, <1>2, <1>3, <1>4, <1>5, <1>6, <1>7, <1>8, <1>9 DEF Next, Environment

LEMMA CommitInvariant == Spec => []CommitInv
  BY CommitInit, CommitInvStep, PTL DEF Spec

(* A parse or plan changes its document at most once and no job commits     *)
(* more often than it was started, however its messages are delivered,      *)
(* retried and released; a parse that committed recorded its planning job,  *)
(* and children are only recorded by a job that committed.                  *)
THEOREM CommitsAndChildren == Spec => []CommittedWithChildren
<1>1. CommitInv => CommittedWithChildren
  BY DEF CommitInv
<1> QED
  BY <1>1, CommitInvariant, PTL

-----------------------------------------------------------------------------
(* What one step does to a receipt.                                         *)

Claimed(j) ==
  \E e \in Executors : exec[e].job = j /\ ClaimExecution(e)

Exhausted(j) ==
  \E e \in Executors : exec[e].job = j /\ ClaimExhausted(e)

(* A running receipt gets an outcome.                                       *)
Settled(j) ==
  /\ Running(j) /\ receipts'[j].status \in {"succeeded", "failed"}
  /\ receipts'[j].attempt = receipts[j].attempt
  /\ receipts'[j].snapshot = receipts[j].snapshot
  /\ \/ receipts'[j].followups = receipts[j].followups
     \/ Final(receipts'[j]) /\ receipts'[j].followups \subseteq Children[j]

(* A committed parse writes its final outcome again.                        *)
Rewritten(j) ==
  /\ Final(receipts[j]) /\ Final(receipts'[j])
  /\ receipts'[j].attempt = receipts[j].attempt
  /\ receipts'[j].snapshot = receipts[j].snapshot
  /\ receipts'[j].followups = receipts[j].followups

LEMMA OneReceiptMoves ==
  ASSUME CommitInv, Next
  PROVE  \/ UNCHANGED receipts
         \/ \E j \in Jobs : /\ \A k \in Jobs \ {j} : receipts'[k] = receipts[k]
                            /\ receipts' \in [Jobs -> Receipts]
                            /\ \/ Claimed(j) \/ Exhausted(j) \/ Settled(j) \/ Rewritten(j)
<1>0. /\ receipts \in [Jobs -> Receipts] /\ receipts' \in [Jobs -> Receipts]
      /\ \A e \in Executors : exec[e].job \in Jobs
  <2>1. TypeInv' /\ TypeInv
    BY TypeStep DEF CommitInv, ExclInv
  <2> QED
    BY <2>1, CommitTypes DEF TypeInv, TypeOK
<1> DEFINE Moves(j) ==
             /\ \A k \in Jobs \ {j} : receipts'[k] = receipts[k]
             /\ Claimed(j) \/ Exhausted(j) \/ Settled(j) \/ Rewritten(j)
<1>1. ASSUME NEW e \in Executors, Claim(e) PROVE UNCHANGED receipts \/ Moves(exec[e].job)
  <2>1. CASE ClaimAnswered(e) \/ ClaimConflict(e) \/ ClaimDeferred(e)
    BY <2>1 DEF ClaimAnswered, ClaimConflict, ClaimDeferred
  <2>2. CASE ClaimExhausted(e) \/ ClaimExecution(e)
    BY <1>0, <2>2 DEF ClaimExhausted, ClaimExecution, Claimed, Exhausted
  <2> QED
    BY <1>1, <2>1, <2>2 DEF Claim
<1>2. ASSUME NEW e \in Executors, Work(e) PROVE UNCHANGED receipts \/ Moves(exec[e].job)
  <2> DEFINE j == exec[e].job
  <2>0. /\ j \in Jobs /\ receipts[j] \in Receipts
        /\ exec[e].phase \in Owning => Running(j)
        /\ At(e, "persisted") => Final(receipts[j]) /\ receipts[j].followups = Children[j]
    BY <1>0
    DEF CommitInv, ExclInv, OwnerHoldsReceipt, PersistedFinal, PersistedCommitted,
        CommittedWithChildren, ChildrenWithCommit
  <2>1. ASSUME NEW b \in BOOLEAN, receipts' = [receipts EXCEPT ![j] = Failed(@, b)],
               exec[e].phase \in Owning \/ (At(e, "persisted") /\ ~b)
        PROVE  Moves(j)
    <3>1. receipts'[j] = Failed(receipts[j], b)
      BY <1>0, <2>0, <2>1
    <3>2. \A k \in Jobs \ {j} : receipts'[k] = receipts[k]
      BY <1>0, <2>1
    <3>3. /\ receipts'[j].status = "failed" /\ receipts'[j].retryable = b
          /\ receipts'[j].attempt = receipts[j].attempt
          /\ receipts'[j].snapshot = receipts[j].snapshot
          /\ receipts'[j].followups = receipts[j].followups
      BY <2>0, <3>1, OutcomeRecords
    <3> QED
      BY <2>0, <2>1, <3>2, <3>3 DEF Settled, Rewritten, Running, Final
  <2>2. ASSUME NEW S \in SUBSET Jobs, S \subseteq Children[j],
               receipts' = [receipts EXCEPT ![j] = Finished(@, S)],
               exec[e].phase \in Owning \/ (At(e, "persisted") /\ S = Children[j])
        PROVE  Moves(j)
    <3>1. receipts'[j] = Finished(receipts[j], S)
      BY <1>0, <2>0, <2>2
    <3>2. \A k \in Jobs \ {j} : receipts'[k] = receipts[k]
      BY <1>0, <2>2
    <3>3. /\ receipts'[j].status = "succeeded" /\ receipts'[j].followups = S
          /\ receipts'[j].attempt = receipts[j].attempt
          /\ receipts'[j].snapshot = receipts[j].snapshot
      BY <2>0, <3>1, OutcomeRecords
    <3> QED
      BY <2>0, <2>2, <3>2, <3>3 DEF Settled, Rewritten, Running, Final
  <2>3. CASE StartWork(e) \/ Persist(e) \/ NothingToPersist(e) \/ CommitBatch(e)
    BY <2>3 DEF StartWork, Persist, NothingToPersist, CommitBatch
  <2>4. CASE RefuseStart(e) \/ PersistStale(e) \/ LateStale(e) \/ DomainFailure(e)
    BY <2>1, <2>4
    DEF RefuseStart, PersistStale, LateStale, DomainFailure, FailWith, At, Owning
  <2>5. CASE \E b \in BOOLEAN : WorkFails(e, b)
    BY <2>1, <2>5 DEF WorkFails, FailWith, At, Owning
  <2>6. CASE CommitPlan(e)
    <3>1. PICK S \in SUBSET Children[j] : receipts' = [receipts EXCEPT ![j] = Finished(@, S)]
      BY <2>6 DEF CommitPlan
    <3>2. S \in SUBSET Jobs /\ exec[e].phase \in Owning
      BY <2>0, <2>6, StaticAssumption DEF CommitPlan, At, Owning
    <3> QED
      BY <2>2, <3>1, <3>2
  <2>7. CASE CommitParse(e)
    <3>1. Children[j] \in SUBSET Jobs
      BY <2>0, StaticAssumption
    <3> QED
      BY <2>2, <2>7, <3>1 DEF CommitParse, At, Owning
  <2>8. CASE FinishExecution(e)
    <3> DEFINE S == IF At(e, "persisted") THEN Children[j] ELSE {}
    <3>1. S \in SUBSET Jobs /\ S \subseteq Children[j]
      BY <2>0, StaticAssumption
    <3>2. /\ receipts' = [receipts EXCEPT ![j] = Finished(@, S)]
          /\ exec[e].phase \in Owning \/ (At(e, "persisted") /\ S = Children[j])
      BY <2>8 DEF FinishExecution, At, Owning
    <3> HIDE DEF S
    <3> QED
      BY <2>2, <3>1, <3>2
  <2> QED
    BY <1>2, <2>3, <2>4, <2>5, <2>6, <2>7, <2>8 DEF Work
<1>3. ASSUME NEW j \in Jobs, ReleaseJob(j) PROVE Moves(j)
  <2>1. /\ receipts[j] \in Receipts /\ receipts'[j] = Failed(receipts[j], TRUE) /\ Running(j)
        /\ \A k \in Jobs \ {j} : receipts'[k] = receipts[k]
    BY <1>0, <1>3 DEF ReleaseJob
  <2>2. /\ receipts'[j].status = "failed" /\ receipts'[j].attempt = receipts[j].attempt
        /\ receipts'[j].snapshot = receipts[j].snapshot
        /\ receipts'[j].followups = receipts[j].followups
    BY <2>1 DEF Failed, Receipts
  <2> QED
    BY <2>1, <2>2 DEF Settled, Running
<1>4. ASSUME \/ \E e \in Executors : \/ \E j \in Jobs : ReceiveJob(e, j)
                                     \/ SendAnswer(e) \/ Expire(e) \/ Crash(e)
             \/ \E n \in Nodes : ReplaceBlob(n) \/ DeleteNode(n)
             \/ InstallRuntime
      PROVE  UNCHANGED receipts
  BY <1>4 DEF ReceiveJob, SendAnswer, Expire, Crash, ReplaceBlob, DeleteNode, InstallRuntime
<1> HIDE DEF Moves
<1>5. UNCHANGED receipts \/ \E j \in Jobs : Moves(j)
  BY <1>0, <1>1, <1>2, <1>3, <1>4 DEF Next, Environment
<1> QED
  BY <1>0, <1>5 DEF Moves

(* No claim starts a job again whose receipt is final, nothing makes the    *)
(* receipt retryable, and its recorded children stay what they are, also    *)
(* when a late validation overwrites a parse that had succeeded.            *)
THEOREM FinalNeverReopens == Spec => FinalStaysFinal
<1>1. ASSUME CommitInv, [Next]_vars
      PROVE  [\A j \in Jobs : Final(receipts[j]) =>
                /\ Final(receipts'[j])
                /\ receipts'[j].followups = receipts[j].followups]_vars
  <2>1. CASE UNCHANGED receipts
    BY <2>1
  <2>2. ASSUME NEW j \in Jobs, \A k \in Jobs \ {j} : receipts'[k] = receipts[k],
               Claimed(j) \/ Exhausted(j) \/ Settled(j) \/ Rewritten(j)
        PROVE  \A k \in Jobs : Final(receipts[k]) =>
                 /\ Final(receipts'[k])
                 /\ receipts'[k].followups = receipts[k].followups
    <3>1. Claimed(j) \/ Exhausted(j) \/ Settled(j) => ~Final(receipts[j])
      BY DEF Claimed, Exhausted, Settled, ClaimExecution, ClaimExhausted, Claimable, Retrying,
             Running, Final
    <3> QED
      BY <2>2, <3>1 DEF Rewritten
  <2> QED
    BY <1>1, <2>1, <2>2, OneReceiptMoves
<1> QED
  BY <1>1, CommitInvariant, PTL DEF Spec, FinalStaysFinal

-----------------------------------------------------------------------------
(* The receipts implement JobLedger.                                        *)

Target(j) == <<Kind[j], IF Kind[j] = "batch" THEN Batch[j] ELSE Subject[j]>>

(* What a claim of j with a snapshot of these documents takes.              *)
TakenBy(j, nodes) ==
  {<<"document", n>> : n \in nodes} \cup {<<"chunk", c>> : c \in Batch[j]} \cup {Target(j)}

LEMMA HeldIsTaken ==
  ASSUME NEW j
  PROVE  /\ Running(j) => Held(j) = TakenBy(j, receipts[j].snapshot.nodes)
         /\ ~Running(j) => Held(j) = {}
  BY DEF Held, TakenBy, Target

LEMMA HeldWhileRunning ==
  ASSUME NEW j
  PROVE  Held(j) # {} <=> Running(j)
  BY HeldIsTaken DEF TakenBy

LEMMA TakenResources ==
  ASSUME NEW j \in Jobs, NEW nodes \in SUBSET Nodes
  PROVE  TakenBy(j, nodes) \in (SUBSET Resources) \ {{}}
<1>1. Kind[j] \in Kinds /\ Batch[j] \subseteq Chunks
  BY StaticAssumption
<1>2. Target(j) \in ({"parse", "plan"} \X Nodes) \cup ({"batch"} \X SUBSET Chunks)
                     \cup ({"evaluate"} \X Runs)
  <2>1. CASE Kind[j] \in {"parse", "plan"}
    <3>1. Subject[j] \in Nodes /\ Target(j) = <<Kind[j], Subject[j]>>
      BY <2>1, StaticAssumption DEF Target
    <3> QED
      BY <2>1, <3>1
  <2>2. CASE Kind[j] = "batch"
    <3>1. Target(j) = <<"batch", Batch[j]>>
      BY <2>2 DEF Target
    <3> QED
      BY <1>1, <3>1
  <2>3. CASE Kind[j] = "evaluate"
    <3>1. Subject[j] \in Runs /\ Target(j) = <<"evaluate", Subject[j]>>
      BY <2>3, StaticAssumption DEF Target
    <3> QED
      BY <3>1
  <2> QED
    BY <1>1, <2>1, <2>2, <2>3 DEF Kinds
<1>3. {<<"document", n>> : n \in nodes} \subseteq {"document"} \X Nodes
  OBVIOUS
<1>4. {<<"chunk", c>> : c \in Batch[j]} \subseteq {"chunk"} \X Chunks
  BY <1>1
<1> QED
  BY <1>2, <1>3, <1>4 DEF TakenBy, Resources

(* What claim_execution compares is all two jobs could have in common.      *)
LEMMA TakenDisjoint ==
  ASSUME NEW j \in Jobs, NEW k \in Jobs, NEW M, NEW N,
         ~SameTarget(j, k), Batch[j] \cap Batch[k] = {}, M \cap N = {}
  PROVE  TakenBy(j, M) \cap TakenBy(k, N) = {}
<1>1. Kind[j] \in {"parse", "plan", "batch", "evaluate"}
      /\ Kind[k] \in {"parse", "plan", "batch", "evaluate"}
  BY StaticAssumption DEF Kinds
<1>2. Target(j) # Target(k)
  BY DEF Target, SameTarget
<1>3. /\ \A x : Target(j) # <<"document", x>> /\ Target(j) # <<"chunk", x>>
      /\ \A x : Target(k) # <<"document", x>> /\ Target(k) # <<"chunk", x>>
  BY <1>1 DEF Target
<1> QED
  BY <1>2, <1>3 DEF TakenBy

LEMMA LedgerStarts == Init => Ledger!LedgerInit
<1> SUFFICES ASSUME Init PROVE Ledger!LedgerInit
  OBVIOUS
<1>1. \A j \in Jobs : /\ Held(j) = {} /\ receipts[j].attempt = 0 /\ ~Final(receipts[j])
  BY DEF Init, NoReceipt, Held, Running, Final
<1> QED
  BY <1>1 DEF Ledger!LedgerInit

(* The ledger's view of a receipt that does not change.                     *)
LEMMA SameReceipt ==
  ASSUME NEW k, receipts'[k] = receipts[k]
  PROVE  /\ Held(k)' = Held(k)
         /\ receipts'[k].attempt = receipts[k].attempt
         /\ (Final(receipts'[k]) <=> Final(receipts[k]))
  BY DEF Held, Running

(* A claim is a grant: the scan found no running receipt in the way.        *)
LEMMA ClaimGrants ==
  ASSUME CommitInv, receipts' \in [Jobs -> Receipts], NEW j \in Jobs, Claimed(j),
         \A k \in Jobs \ {j} : receipts'[k] = receipts[k]
  PROVE  Ledger!Grant(j)
<1>1. PICK e \in Executors : exec[e].job = j /\ ClaimExecution(e)
  BY DEF Claimed
<1>0. /\ receipts \in [Jobs -> Receipts] /\ receipts[j] \in Receipts
      /\ receipts[j].attempt \in Nat /\ exec[e].snapshot.nodes \in SUBSET Nodes
  BY CommitTypes DEF CommitInv, ExclInv, Execs, Snapshots
<1>2. /\ Claimable(e) /\ ~ \E k \in Jobs : Blocks(k, j, exec[e].snapshot)
      /\ receipts'[j] = Started(receipts[j], exec[e].snapshot)
  BY <1>0, <1>1 DEF ClaimExecution
<1>3. /\ receipts'[j].status = "running" /\ receipts'[j].snapshot = exec[e].snapshot
      /\ receipts'[j].attempt = receipts[j].attempt + 1
      /\ ~Final(receipts'[j])
  BY <1>0, <1>1, <1>2 DEF Started, Claimable, Retrying, Receipts, Final
<1>4. ~Running(j) /\ ~Final(receipts[j]) /\ receipts[j].attempt < MaxAttempts
  BY <1>0, <1>1, <1>2, StaticAssumption
  DEF Claimable, Retrying, Running, Final, CommitInv, ExclInv, TypeInv, Untouched
<1> DEFINE S == TakenBy(j, exec[e].snapshot.nodes)
<1>5. S \in (SUBSET Resources) \ {{}}
  BY <1>0, TakenResources
<1>6. Held(j) = {} /\ Held(j)' = S
  BY <1>3, <1>4 DEF Held, Running, TakenBy, Target
<1>7. ASSUME NEW k \in Jobs PROVE Held(k) \cap S = {}
  <2>1. CASE ~Running(k)
    BY <2>1, HeldIsTaken
  <2>2. CASE Running(k)
    <3>1. k # j /\ ~Blocks(k, j, exec[e].snapshot)
      BY <1>2, <1>4, <2>2
    <3>2. /\ ~SameTarget(j, k) /\ Batch[j] \cap Batch[k] = {}
          /\ exec[e].snapshot.nodes \cap receipts[k].snapshot.nodes = {}
      BY <2>2, <3>1 DEF Blocks
    <3>3. S \cap TakenBy(k, receipts[k].snapshot.nodes) = {}
      BY <3>2, TakenDisjoint
    <3> QED
      BY <2>2, <3>3, HeldIsTaken
  <2> QED
    BY <2>1, <2>2
<1>8. \A k \in Jobs \ {j} : /\ Held(k)' = Held(k)
                           /\ receipts'[k].attempt = receipts[k].attempt
                           /\ (Final(receipts'[k]) <=> Final(receipts[k]))
  BY SameReceipt
<1> HIDE DEF S
<1>9. [k \in Jobs |-> Held(k)'] = [[k \in Jobs |-> Held(k)] EXCEPT ![j] = S]
  BY <1>6, <1>8
<1>10. [k \in Jobs |-> receipts'[k].attempt] =
         [[k \in Jobs |-> receipts[k].attempt] EXCEPT ![j] = @ + 1]
  BY <1>3, <1>8
<1>11. {k \in Jobs : Final(receipts'[k])} = {k \in Jobs : Final(receipts[k])}
  BY <1>3, <1>4, <1>8
<1> QED
  BY <1>4, <1>5, <1>6, <1>7, <1>9, <1>10, <1>11 DEF Ledger!Grant

(* Every other outcome returns what the job held, closes a job that used up *)
(* its attempts, or changes nothing the ledger sees.                        *)
LEMMA OutcomeReturns ==
  ASSUME NEW j \in Jobs, Settled(j),
         \A k \in Jobs \ {j} : receipts'[k] = receipts[k]
  PROVE  Ledger!Return(j)
<1>1. Held(j) # {} /\ Held(j)' = {} /\ ~Final(receipts[j])
  BY HeldWhileRunning DEF Settled, Held, Running, Final
<1>2. \A k \in Jobs \ {j} : Held(k)' = Held(k) /\ (Final(receipts'[k]) <=> Final(receipts[k]))
  BY SameReceipt
<1>3. [k \in Jobs |-> Held(k)'] = [[k \in Jobs |-> Held(k)] EXCEPT ![j] = {}]
  BY <1>1, <1>2
<1>4. [k \in Jobs |-> receipts'[k].attempt] = [k \in Jobs |-> receipts[k].attempt]
  BY DEF Settled
<1>5. {k \in Jobs : Final(receipts'[k])} \in
        {{k \in Jobs : Final(receipts[k])}, {k \in Jobs : Final(receipts[k])} \cup {j}}
  <2>1. CASE Final(receipts'[j])
    <3>1. {k \in Jobs : Final(receipts'[k])} = {k \in Jobs : Final(receipts[k])} \cup {j}
      BY <1>2, <2>1
    <3> QED
      BY <3>1
  <2>2. CASE ~Final(receipts'[j])
    <3>1. {k \in Jobs : Final(receipts'[k])} = {k \in Jobs : Final(receipts[k])}
      BY <1>1, <1>2, <2>2
    <3> QED
      BY <3>1
  <2> QED
    BY <2>1, <2>2
<1> QED
  BY <1>1, <1>3, <1>4, <1>5 DEF Ledger!Return

LEMMA ExhaustedGivesUp ==
  ASSUME CommitInv, NEW j \in Jobs, Exhausted(j),
         \A k \in Jobs \ {j} : receipts'[k] = receipts[k]
  PROVE  Ledger!GiveUp(j)
<1>1. PICK e \in Executors : exec[e].job = j /\ ClaimExhausted(e)
  BY DEF Exhausted
<1>2. receipts \in [Jobs -> Receipts] /\ receipts[j] \in Receipts
  BY CommitTypes DEF CommitInv, ExclInv
<1>3. /\ receipts[j].status = "failed" /\ receipts[j].attempt >= MaxAttempts
      /\ receipts'[j] = Failed(receipts[j], FALSE)
  BY <1>1, <1>2 DEF ClaimExhausted, Retrying
<1>10. receipts[j].attempt = MaxAttempts
  <2>1. receipts[j].attempt \in 0..MaxAttempts
    BY <1>2 DEF Receipts
  <2> QED
    BY <1>3, <2>1, StaticAssumption
<1>4. /\ receipts'[j].status = "failed" /\ receipts'[j].attempt = receipts[j].attempt
      /\ Final(receipts'[j])
  BY <1>2, <1>3 DEF Failed, Receipts, Final
<1>5. Held(j) = {} /\ Held(j)' = {}
  BY <1>3, <1>4 DEF Held, Running
<1>6. \A k \in Jobs \ {j} : Held(k)' = Held(k) /\ (Final(receipts'[k]) <=> Final(receipts[k]))
  BY SameReceipt
<1>7. [k \in Jobs |-> Held(k)'] = [k \in Jobs |-> Held(k)]
  BY <1>5, <1>6
<1>8. [k \in Jobs |-> receipts'[k].attempt] = [k \in Jobs |-> receipts[k].attempt]
  BY <1>4
<1>9. {k \in Jobs : Final(receipts'[k])} = {k \in Jobs : Final(receipts[k])} \cup {j}
  BY <1>4, <1>6
<1> QED
  BY <1>5, <1>7, <1>8, <1>9, <1>10 DEF Ledger!GiveUp

LEMMA LedgerStutters ==
  ASSUME \A k \in Jobs : /\ Held(k)' = Held(k)
                        /\ receipts'[k].attempt = receipts[k].attempt
                        /\ (Final(receipts'[k]) <=> Final(receipts[k]))
  PROVE  UNCHANGED Ledger!ledgerVars
<1>1. [k \in Jobs |-> Held(k)'] = [k \in Jobs |-> Held(k)]
  OBVIOUS
<1>2. [k \in Jobs |-> receipts'[k].attempt] = [k \in Jobs |-> receipts[k].attempt]
  OBVIOUS
<1>3. {k \in Jobs : Final(receipts'[k])} = {k \in Jobs : Final(receipts[k])}
  OBVIOUS
<1> QED
  BY <1>1, <1>2, <1>3 DEF Ledger!ledgerVars

LEMMA LedgerStep == CommitInv /\ [Next]_vars => [Ledger!LedgerNext]_(Ledger!ledgerVars)
<1> SUFFICES ASSUME CommitInv, [Next]_vars PROVE [Ledger!LedgerNext]_(Ledger!ledgerVars)
  OBVIOUS
<1>1. CASE UNCHANGED receipts
  BY <1>1, SameReceipt, LedgerStutters
<1>2. ASSUME NEW j \in Jobs, receipts' \in [Jobs -> Receipts],
             \A k \in Jobs \ {j} : receipts'[k] = receipts[k],
             Claimed(j) \/ Exhausted(j) \/ Settled(j) \/ Rewritten(j)
      PROVE  [Ledger!LedgerNext]_(Ledger!ledgerVars)
  <2>1. CASE Claimed(j)
    BY <1>2, <2>1, ClaimGrants DEF Ledger!LedgerNext
  <2>2. CASE Settled(j)
    BY <1>2, <2>2, OutcomeReturns DEF Ledger!LedgerNext
  <2>3. CASE Exhausted(j)
    BY <1>2, <2>3, ExhaustedGivesUp DEF Ledger!LedgerNext
  <2>4. CASE Rewritten(j)
    <3>1. ~Running(j) /\ receipts'[j].status # "running"
      BY <2>4 DEF Rewritten, Final, Running
    <3>2. Held(j)' = Held(j)
      BY <3>1 DEF Held, Running
    <3> QED
      BY <1>2, <2>4, <3>2, SameReceipt, LedgerStutters DEF Rewritten
  <2> QED
    BY <1>2, <2>1, <2>2, <2>3, <2>4
<1> QED
  BY <1>1, <1>2, OneReceiptMoves DEF vars

(* The receipts, with all their claims, late failures, crashes, releases    *)
(* and replays, implement the ledger of JobLedger: a job is granted         *)
(* documents, chunks and a target nobody holds, at most MaxAttempts times,  *)
(* and never again once it is closed.                                       *)
THEOREM ReceiptsImplementLedger == Spec => ImplementsLedger
  BY LedgerStarts, LedgerStep, CommitInvariant, PTL
  DEF Spec, ImplementsLedger, Ledger!LedgerSpec

===============================================================================
