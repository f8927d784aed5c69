-------------------------- MODULE ExecutorDispatch --------------------------
(***************************************************************************)
(* The orchestrator that carries jobs from the broker to the executors:    *)
(* tasks.py (_dispatch_or_retry, _publish_executor_followups, the parse     *)
(* task's backpressure) and services/executor_transport.py, composed with   *)
(* ExecutorReceipts.  Messages are delivered at least once, answers may be  *)
(* lost, a worker may die between any two steps, and the deadline travels   *)
(* with the message from its first delivery on.                             *)
(***************************************************************************)
EXTENDS ExecutorReceipts

CONSTANTS
  Roots,         \* jobs published by uploads and by the recovery scan
  MaxCopies,     \* bound: messages published for one job_id
  ParseRetries,  \* max_retries of the parse task (2 in the code)
  EmbedLimit,    \* DOCUMENT_AI_EMBED_QUEUE_BACKPRESSURE_LIMIT
  MaxFaults      \* bound: lost answers, failed calls, crashes

ASSUME DispatchAssumption ==
  /\ Roots \subseteq Jobs
  /\ MaxCopies \in Nat \ {0}
  /\ ParseRetries \in Nat /\ EmbedLimit \in Nat /\ MaxFaults \in Nat

(* derive_job_id: a derived identity is no root's and fixes its parent.     *)
ASSUME DerivedIdentities ==
  /\ \A j \in Jobs : Children[j] \cap Roots = {}
  /\ \A j, k \in Jobs : j # k => Children[j] \cap Children[k] = {}

(* docker-compose.yml: one container with one worker for each role.         *)
ASSUME OneProcessPerRole ==
  \A e, f \in Executors : Role[e] = Role[f] => e = f

Messages == Jobs \X (1..MaxCopies)
Queues == {"parse", "embed"}

(* get_task_route: parse jobs have a queue and a transport slot of their own *)
Queue(m) == IF Kind[m[1]] = "parse" THEN "parse" ELSE "embed"

VARIABLES
  msg,     \* [Messages -> state, retries and deadline header of a task message]
  slot,    \* [Queues -> the dispatch in each transport slot]
  sender,  \* [Executors -> the message whose dispatch still waits, or none]
  faults   \* faults so far

dispatchVars == <<msg, slot, sender, faults>>
allVars == <<vars, dispatchVars>>

(* Retries are counted only as far as the code tells them apart.            *)
RetryCap == ParseRetries + 1
More(n) == IF n < RetryCap THEN n + 1 ELSE n

MessageStates ==
  [state : {"none", "queued", "held", "done"},
   retries : 0..RetryCap,
   deadline : {"unset", "set", "passed"}]

(* The phases of _dispatch_or_retry; fresh: this delivery set the deadline,  *)
(* which is not stored with the message until the task is retried.           *)
NoMessage == << >>
FreeSlot == [phase |-> "free", message |-> NoMessage, todo |-> {}, fresh |-> FALSE]
Slots ==
  [phase : {"lookup", "post", "wait", "publish"}, message : Messages,
   todo : SUBSET Jobs, fresh : BOOLEAN] \cup {FreeSlot}

Queued(m) == msg[m].state = "queued"
Alive(m) == msg[m].state \in {"queued", "held"}
Late(m) == msg[m].deadline = "passed"
In(q, phase) == slot[q].phase = phase
JobIn(q) == slot[q].message[1]

DispatchInit ==
  /\ Init
  /\ msg = [m \in Messages |-> [state |-> "none", retries |-> 0, deadline |-> "unset"]]
  /\ slot = [q \in Queues |-> FreeSlot]
  /\ sender = [e \in Executors |-> NoMessage]
  /\ faults = 0

Fault == faults < MaxFaults /\ faults' = faults + 1

-----------------------------------------------------------------------------
(* Pieces of the steps below.                                               *)

(* apply_async puts one more message for the job on its queue.              *)
Enqueued(messages, j) ==
  LET k == CHOOSE i \in 1..MaxCopies :
             /\ messages[<<j, i>>].state = "none"
             /\ \A h \in 1..(i - 1) : messages[<<j, h>>].state # "none"
  IN [messages EXCEPT ![<<j, k>>].state = "queued"]

HasRoom(j) == \E i \in 1..MaxCopies : msg[<<j, i>>].state = "none"

(* Wrong variant of Requeued: every retry starts with a deadline of its own.*)
RequeuedAfresh(m) ==
  [msg[m] EXCEPT !.state = "queued", !.retries = More(@), !.deadline = "unset"]

(* task.retry republishes the message, with its deadline header.            *)
Requeued(m) == [msg[m] EXCEPT !.state = "queued", !.retries = More(@)]
Acknowledged(m) == [msg[m] EXCEPT !.state = "done"]

Release(q) == slot' = [slot EXCEPT ![q] = FreeSlot]
Forget(m) == sender' = [e \in Executors |-> IF sender[e] = m THEN NoMessage ELSE sender[e]]

(* Wrong variants of Retry: the answer to come is still expected; the       *)
(* transport slot is kept.                                                  *)
RetryStillListening(q) ==
  /\ msg' = [msg EXCEPT ![slot[q].message] = Requeued(slot[q].message)]
  /\ Release(q)
  /\ UNCHANGED sender

RetryKeepsSlot(q) ==
  /\ msg' = [msg EXCEPT ![slot[q].message] = Requeued(slot[q].message)]
  /\ Forget(slot[q].message)
  /\ UNCHANGED slot

Retry(q) ==
  /\ msg' = [msg EXCEPT ![slot[q].message] = Requeued(slot[q].message)]
  /\ Release(q)
  /\ Forget(slot[q].message)

Settle(q) ==
  /\ msg' = [msg EXCEPT ![slot[q].message] = Acknowledged(slot[q].message)]
  /\ Release(q)
  /\ Forget(slot[q].message)

Publishing(q, followups) ==
  /\ slot' = [slot EXCEPT ![q].phase = "publish", ![q].todo = followups]
  /\ Forget(slot[q].message)
  /\ UNCHANGED msg

(* Wrong variant of React: a success is acknowledged without its children.  *)
ReactWithoutChildren(q, answer) ==
  IF ~answer.ok /\ answer.retryable THEN Retry(q) ELSE Settle(q)

(* What a dispatch does with an answer or with the receipt it looked up.    *)
React(q, answer) ==
  \/ answer.ok /\ Publishing(q, answer.followups)
  \/ ~answer.ok /\ answer.retryable /\ Retry(q)
  \/ ~answer.ok /\ ~answer.retryable /\ Settle(q)

-----------------------------------------------------------------------------
(* Publishing and delivery.                                                 *)

(* An upload's signal or the recovery scan publishes a job of its own.      *)
PublishRoot(j) ==
  /\ j \in Roots
  /\ \A i \in 1..MaxCopies : msg[<<j, i>>].state = "none"
  /\ msg' = Enqueued(msg, j)
  /\ UNCHANGED <<vars, slot, sender, faults>>

EmbedDepth == Cardinality({m \in Messages : Queued(m) /\ Queue(m) = "embed"})

Paused(m) == Queued(m) /\ Queue(m) = "parse" /\ EmbedDepth >= EmbedLimit

(* Backpressure: the parse task retries itself with max_retries=None, which *)
(* Celery reads as the task's own limit.                                    *)
PauseParse(m) ==
  /\ Paused(m)
  /\ msg[m].retries < ParseRetries
  /\ msg' = [msg EXCEPT ![m] = Requeued(m)]
  /\ UNCHANGED <<vars, slot, sender, faults>>

(* Over that limit retry() raises the given error and the message is gone.  *)
PauseExhausted(m) ==
  /\ Paused(m)
  /\ msg[m].retries >= ParseRetries
  /\ msg' = [msg EXCEPT ![m] = Acknowledged(m)]
  /\ UNCHANGED <<vars, slot, sender, faults>>

DropLate(m) ==
  /\ Queued(m) /\ Late(m)
  /\ msg' = [msg EXCEPT ![m] = Acknowledged(m)]
  /\ UNCHANGED <<vars, slot, sender, faults>>

SlotBusy(m) ==
  /\ Queued(m) /\ ~Late(m)
  /\ ~In(Queue(m), "free")
  /\ msg' = [msg EXCEPT ![m] = [Requeued(m) EXCEPT !.deadline = "set"]]
  /\ UNCHANGED <<vars, slot, sender, faults>>

(* A second or later delivery first looks the receipt up.                   *)
Take(m) ==
  /\ Queued(m) /\ ~Late(m)
  /\ In(Queue(m), "free")
  /\ msg' = [msg EXCEPT ![m].state = "held", ![m].deadline = "set"]
  /\ slot' = [slot EXCEPT ![Queue(m)] =
       [phase |-> IF msg[m].retries > 0 THEN "lookup" ELSE "post",
        message |-> m, todo |-> {}, fresh |-> msg[m].deadline = "unset"]]
  /\ UNCHANGED <<vars, sender, faults>>

-----------------------------------------------------------------------------
(* dispatch_executor_job.                                                   *)

(* Wrong variant of Lookup: a job that runs elsewhere counts as done.       *)
LookupRunningIsDone(q) ==
  LET r == receipts[JobIn(q)]
  IN /\ In(q, "lookup")
     /\ \/ (Running(JobIn(q)) \/ Final(r)) /\ React(q, Accepted(r.followups))
        \/ /\ ~Running(JobIn(q)) /\ ~Final(r)
           /\ slot' = [slot EXCEPT ![q].phase = "post"]
           /\ UNCHANGED <<msg, sender>>
     /\ UNCHANGED <<vars, faults>>

Lookup(q) ==
  LET r == receipts[JobIn(q)]
  IN /\ In(q, "lookup")
     /\ \/ r.status = "running" /\ React(q, Refused(TRUE))
        \/ r.status = "succeeded" /\ React(q, Accepted(r.followups))
        \/ r.status = "failed" /\ ~r.retryable /\ React(q, Refused(FALSE))
        \/ /\ ~Running(JobIn(q)) /\ ~Final(r)
           /\ slot' = [slot EXCEPT ![q].phase = "post"]
           /\ UNCHANGED <<msg, sender>>
     /\ UNCHANGED <<vars, faults>>

Post(q, e) ==
  /\ In(q, "post")
  /\ ReceiveJob(e, JobIn(q))
  /\ sender' = [sender EXCEPT ![e] = slot[q].message]
  /\ slot' = [slot EXCEPT ![q].phase = "wait"]
  /\ UNCHANGED <<msg, faults>>

ExecutorBusy(q, e) ==
  /\ In(q, "post")
  /\ Kind[JobIn(q)] \in RoleKinds(Role[e])
  /\ ~At(e, "idle")
  /\ Retry(q)
  /\ UNCHANGED <<vars, faults>>

(* The receipt lookup, the connection or a publication fails; the executor  *)
(* may well go on.                                                          *)
CallFails(q) ==
  /\ ~In(q, "free")
  /\ Retry(q)
  /\ Fault
  /\ UNCHANGED vars

(* The POST timeout ends shortly after the deadline.                        *)
AnswerTimeout(q) ==
  /\ In(q, "wait")
  /\ Late(slot[q].message)
  /\ Retry(q)
  /\ UNCHANGED <<vars, faults>>

Answered(e) ==
  /\ SendAnswer(e)
  /\ \/ /\ sender[e] = NoMessage
        /\ UNCHANGED <<msg, slot, sender>>
     \/ \E q \in Queues : /\ In(q, "wait") /\ slot[q].message = sender[e]
                          /\ React(q, exec[e].answer)
  /\ UNCHANGED faults

ExecutorCrash(e) ==
  /\ Crash(e)
  /\ \/ /\ sender[e] = NoMessage
        /\ UNCHANGED <<msg, slot, sender>>
     \/ \E q \in Queues : In(q, "wait") /\ slot[q].message = sender[e] /\ Retry(q)
  /\ Fault

-----------------------------------------------------------------------------
(* _publish_executor_followups, then the acknowledgement.                   *)

PublishChild(q, c) ==
  /\ In(q, "publish")
  /\ c \in slot[q].todo
  /\ HasRoom(c)
  /\ msg' = Enqueued(msg, c)
  /\ slot' = [slot EXCEPT ![q].todo = @ \ {c}]
  /\ UNCHANGED <<vars, sender, faults>>

Complete(q) ==
  /\ In(q, "publish")
  /\ slot[q].todo = {}
  /\ Settle(q)
  /\ UNCHANGED <<vars, faults>>

(* The worker dies: acks_late and reject_on_worker_lost redeliver the       *)
(* message as it was stored, without a deadline this delivery had set.      *)
WorkerLost(q) ==
  LET m == slot[q].message
  IN /\ ~In(q, "free")
     /\ msg' = [msg EXCEPT ![m].state = "queued",
                           ![m].deadline = IF slot[q].fresh THEN "unset" ELSE @]
     /\ Release(q)
     /\ Forget(m)
     /\ Fault
     /\ UNCHANGED vars

(* The deadline passes for the message and for the executor serving it.     *)
DeadlinePasses(m) ==
  /\ Alive(m) /\ msg[m].deadline = "set"
  /\ msg' = [msg EXCEPT ![m].deadline = "passed"]
  /\ exec' = [e \in Executors |->
       IF sender[e] = m /\ exec[e].phase # "answering"
       THEN [exec[e] EXCEPT !.late = TRUE] ELSE exec[e]]
  /\ UNCHANGED <<receipts, domainVars, commits, slot, sender, faults>>

(* An executor whose sender is gone reaches the deadline on its own.        *)
ExpireAlone(e) ==
  /\ sender[e] = NoMessage
  /\ Expire(e)
  /\ UNCHANGED dispatchVars

-----------------------------------------------------------------------------
Deliver(m) ==
  PauseParse(m) \/ PauseExhausted(m) \/ DropLate(m) \/ SlotBusy(m) \/ Take(m)

Dispatch(q) ==
  \/ Lookup(q)
  \/ \E e \in Executors : Post(q, e) \/ ExecutorBusy(q, e)
  \/ AnswerTimeout(q)
  \/ \E c \in Jobs : PublishChild(q, c)
  \/ Complete(q)

Execute(e) == (Claim(e) \/ Work(e)) /\ UNCHANGED dispatchVars

Surroundings ==
  /\ \/ \E j \in Jobs : ReleaseJob(j)
     \/ \E n \in Nodes : ReplaceBlob(n) \/ DeleteNode(n)
     \/ InstallRuntime
  /\ UNCHANGED dispatchVars

(* Nothing queued, held or executing: the system may rest, so that TLC's    *)
(* deadlock check reports only states where work is left and nothing moves. *)
Rest ==
  /\ \A m \in Messages : ~Alive(m)
  /\ \A e \in Executors : At(e, "idle")
  /\ UNCHANGED allVars

DispatchNext ==
  \/ Rest
  \/ \E j \in Jobs : PublishRoot(j)
  \/ \E m \in Messages : Deliver(m) \/ DeadlinePasses(m)
  \/ \E q \in Queues : Dispatch(q) \/ CallFails(q) \/ WorkerLost(q)
  \/ \E e \in Executors : Execute(e) \/ Answered(e) \/ ExecutorCrash(e) \/ ExpireAlone(e)
  \/ Surroundings

(* Workers and executors go on with what they hold; the broker hands queued *)
(* messages over again and again, so that a slot which keeps getting free   *)
(* is eventually taken for every job that has one, by any of its messages.  *)
(* Faults, uploads and operators owe nothing.                               *)
Progress ==
  /\ \A j \in Jobs : SF_allVars(\E i \in 1..MaxCopies : Take(<<j, i>>))
  /\ WF_allVars(\E m \in Messages : DropLate(m))
  /\ \A q \in Queues : WF_allVars(Dispatch(q))
  /\ \A e \in Executors : WF_allVars(Execute(e) \/ Answered(e))

(* Wall clocks go on.                                                       *)
Clock == WF_allVars(\E m \in Messages : DeadlinePasses(m))

DispatchSpec == DispatchInit /\ [][DispatchNext]_allVars
ProgressSpec == DispatchSpec /\ Progress

-----------------------------------------------------------------------------
(* Properties.                                                              *)

Published(j) == \E i \in 1..MaxCopies : msg[<<j, i>>].state # "none"

(* Every variable of the orchestrator has its type; a held message is held  *)
(* by exactly the slot that names it.                                       *)
DispatchTypeOK ==
  /\ msg \in [Messages -> MessageStates]
  /\ slot \in [Queues -> Slots]
  /\ sender \in [Executors -> Messages \cup {NoMessage}]
  /\ faults \in 0..MaxFaults
  /\ \A m \in Messages :
       msg[m].state = "held" <=> \E q \in Queues : slot[q].message = m

(* A derived job reaches the broker or an executor only after its parent's  *)
(* receipt durably lists it, whatever was lost or redelivered in between.   *)
ParentFirst ==
  \A j \in Jobs : \A c \in Children[j] :
    Published(c) \/ receipts[c].status # "absent" => c \in receipts[j].followups

(* The answer an executor sends goes to the dispatch that asked for it: a   *)
(* recorded sender is the one waiting, for the very job in the slot.        *)
AnswerReachesSender ==
  \A e \in Executors : sender[e] # NoMessage =>
    /\ exec[e].job = sender[e][1] /\ ~At(e, "idle")
    /\ \E q \in Queues : In(q, "wait") /\ slot[q].message = sender[e]

(* Messages and answers stay in step with the receipts.                     *)
MessagesInStep == ParentFirst /\ AnswerReachesSender

(* A job's message is acknowledged only when there is nothing left to do    *)
(* for it: its receipt is final, its deadline passed, or its inputs changed *)
(* since the attempt that failed.  Until then it is redelivered.  What      *)
(* backpressure does to a parse is the subject of BackpressureOnlyDefers.   *)
SettledBeforeAck ==
  [][\A m \in Messages : Alive(m) /\ msg'[m].state = "done" =>
       \/ Late(m)
       \/ Paused(m)
       \/ Final(receipts[m[1]])
       \/ /\ receipts[m[1]].status = "failed"
          /\ receipts[m[1]].snapshot # Snapshot(m[1])]_allVars

(* Backpressure only defers a parse: no queued message disappears before    *)
(* its deadline.  test_parse_backpressure_retries_without_consuming_failure_*)
(* budget says that a paused parse does not use up its failure budget.      *)
BackpressureOnlyDefers ==
  [][\A m \in Messages : Queued(m) /\ ~Late(m) => msg'[m].state # "done"]_allVars

(* Children that a succeeded parent recorded reach the broker, through lost *)
(* answers, failed publications and dead workers, unless the parent's       *)
(* deadline passes or its receipt is failed by the late validation.         *)
ChildrenGetPublished ==
  \A j \in Jobs : \A c \in Children[j] :
    (/\ receipts[j].status = "succeeded" /\ c \in receipts[j].followups
     /\ \E i \in 1..MaxCopies : Alive(<<j, i>>))
    ~> \/ Published(c)
       \/ receipts[j].status = "failed"
       \/ \E i \in 1..MaxCopies : Late(<<j, i>>)

(* No message is retried forever, although task.retry may be called 100000  *)
(* times: if clocks go on, the deadline set at the first delivery ends      *)
(* every retry loop, and the queues of one upload run empty.                *)
QueueDrains ==
  Clock => ((\E m \in Messages : Alive(m)) ~> (\A m \in Messages : ~Alive(m)))

=============================================================================
