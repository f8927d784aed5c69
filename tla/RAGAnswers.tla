----------------------------- MODULE RAGAnswers -----------------------------
(***************************************************************************)
(* search/views.py (RAGStreamView), rag/streaming.py,                      *)
(* rag/async_generation.py, services/rag_admission.py and                  *)
(* services/rag_conversation_service.py: a question asked in a             *)
(* conversation takes a slot of a Redis semaphore, writes the user's       *)
(* message, searches, creates the job and streams the answer.  The client  *)
(* may disconnect at any await or while a part is sent, slots go stale,    *)
(* and the conversation may be deleted meanwhile.                          *)
(***************************************************************************)
EXTENDS Naturals, FiniteSets, Sequences

CONSTANTS
  Streams,     \* POST requests, each with its response stream
  RequestIds,  \* client_request_id values; a retry sends one again
  IdOf,        \* [Streams -> RequestIds]
  SlotIds,     \* the tokens of the semaphore, as many as the limit
  MaxCrashes   \* bound: restarts of the web server

ASSUME RAGAssumption ==
  /\ IdOf \in [Streams -> RequestIds]
  /\ IsFiniteSet(Streams) /\ IsFiniteSet(SlotIds)
  /\ MaxCrashes \in Nat

VARIABLES
  slot,      \* [SlotIds -> SlotStates], the semaphore in Redis
  stream,    \* [Streams -> StreamStates]
  answerJob, \* [Streams -> JobStates], the RAGJob a stream created
  messages,  \* the conversation: a sequence of Messages
  removal,   \* the deletion of the conversation
  outlived,  \* ghost: streams whose slot was taken back as stale
  leaked,    \* ghost: slots nobody will release
  restarts   \* restarts so far

ragVars == <<slot, stream, answerJob, messages, removal, outlived, leaked, restarts>>

(* grabbed: taken; stale: taken longer ago than RAG_REQUEST_TIMEOUT + 60 s. *)
SlotStates == {"free", "grabbed", "stale"}
JobStates == {"none", "PENDING", "PROCESSING", "COMPLETED", "FAILED", "CANCELED"}
Messages == [role : {"user", "assistant"}, stream : Streams]

(* idle -> admitted -> found -> asked -> opening -> generating ->           *)
(* completing -> closing -> ended; detached: the search goes on in its      *)
(* thread after its request was canceled.                                   *)
Phases ==
  {"idle", "admitted", "found", "asked", "detached", "opening", "generating",
   "completing", "closing", "ended"}
StreamStates ==
  [phase : Phases, held : SUBSET SlotIds, told : {"nothing", "completed", "error"}]

(* deleting: found idle, not yet written; raced: streams on their way when  *)
(* it was written; busy: the answers that ran at the check.                 *)
Removals ==
  [phase : {"live", "deleting", "deleted"}, busy : SUBSET Streams, raced : SUBSET Streams]

In(s, phase) == stream[s].phase = phase
Asked(id) == \E i \in DOMAIN messages :
  messages[i].role = "user" /\ IdOf[messages[i].stream] = id
Active(s) == answerJob[s] \in {"PENDING", "PROCESSING"}
Holders == {s \in Streams : stream[s].held # {}}

To(s, phase) == stream' = [stream EXCEPT ![s].phase = phase]
Write(s, role) == messages' = Append(messages, [role |-> role, stream |-> s])

(* release: the slot goes back if it is still grabbed, by whomever.         *)
Freed(K) == [k \in SlotIds |-> IF k \in K THEN "free" ELSE slot[k]]
End(s, told) ==
  /\ stream' = [stream EXCEPT ![s] = [phase |-> "ended", held |-> {}, told |-> told]]
  /\ slot' = Freed(stream[s].held)
  /\ UNCHANGED <<outlived, leaked, restarts>>

RAGInit ==
  /\ slot = [k \in SlotIds |-> "free"]
  /\ stream = [s \in Streams |-> [phase |-> "idle", held |-> {}, told |-> "nothing"]]
  /\ answerJob = [s \in Streams |-> "none"]
  /\ messages = <<>>
  /\ removal = [phase |-> "live", busy |-> {}, raced |-> {}]
  /\ outlived = {} /\ leaked = {}
  /\ restarts = 0

-----------------------------------------------------------------------------
(* Admission.                                                               *)

GrowOld(k) ==
  /\ slot[k] = "grabbed"
  /\ slot' = [slot EXCEPT ![k] = "stale"]
  /\ UNCHANGED <<stream, answerJob, messages, removal, outlived, leaked, restarts>>

(* acquire first takes back every stale slot, then pops a free one.         *)
Grab(k) ==
  /\ slot[k] # "grabbed"
  /\ slot' = [i \in SlotIds |->
                IF i = k THEN "grabbed" ELSE IF slot[i] = "stale" THEN "free" ELSE slot[i]]
  /\ outlived' = outlived \cup {s \in Streams : \E i \in stream[s].held : slot[i] = "stale"}

Admit(s, k) ==
  /\ In(s, "idle")
  /\ Grab(k)
  /\ stream' = [stream EXCEPT ![s].phase = "admitted", ![s].held = {k}]
  /\ leaked' = leaked \ ({i \in SlotIds : slot[i] = "stale"} \cup {k})
  /\ UNCHANGED <<answerJob, messages, removal, restarts>>

(* Canceled during the acquisition: the thread still takes the slot, and    *)
(* its token is lost.                                                       *)
AdmitCut(s, k) ==
  /\ In(s, "idle")
  /\ Grab(k)
  /\ To(s, "ended")
  /\ leaked' = (leaked \ {i \in SlotIds : slot[i] = "stale"}) \cup {k}
  /\ UNCHANGED <<answerJob, messages, removal, restarts>>

(* 503 RAG_CAPACITY_EXCEEDED.                                               *)
Refuse(s) ==
  /\ In(s, "idle")
  /\ \A k \in SlotIds : slot[k] = "grabbed"
  /\ To(s, "ended")
  /\ UNCHANGED <<slot, answerJob, messages, removal, outlived, leaked, restarts>>

-----------------------------------------------------------------------------
(* The user's message.                                                      *)

Found(s) ==
  /\ In(s, "admitted") /\ removal.phase # "deleted"
  /\ To(s, "found")
  /\ UNCHANGED <<slot, answerJob, messages, removal, outlived, leaked, restarts>>

NotFound(s) ==
  /\ In(s, "admitted") /\ removal.phase = "deleted"
  /\ End(s, "nothing")
  /\ UNCHANGED <<answerJob, messages, removal>>

(* Under the lock of the conversation's row, which does not look at         *)
(* deleted_at again.                                                        *)
Ask(s) ==
  /\ In(s, "found") /\ ~Asked(IdOf[s])
  /\ Write(s, "user")
  /\ To(s, "asked")
  /\ UNCHANGED <<slot, answerJob, removal, outlived, leaked, restarts>>

(* Wrong variant of Replay: a question without an answer is asked again.    *)
ReplayUnanswered(s) ==
  /\ In(s, "found") /\ Asked(IdOf[s])
  /\ IF \E u \in Streams : IdOf[u] = IdOf[s] /\ answerJob[u] # "none"
       THEN End(s, "nothing") /\ UNCHANGED <<answerJob, messages, removal>>
       ELSE /\ To(s, "asked")
            /\ UNCHANGED <<slot, answerJob, messages, removal, outlived, leaked, restarts>>

(* 409 IDEMPOTENCY_REPLAY, also when the first request failed to answer.    *)
Replay(s) ==
  /\ In(s, "found") /\ Asked(IdOf[s])
  /\ End(s, "nothing")
  /\ UNCHANGED <<answerJob, messages, removal>>

(* Canceled before the stream owns the slot: the view releases it.          *)
CutBefore(s) ==
  /\ stream[s].phase \in {"admitted", "found", "asked"}
  /\ End(s, "nothing")
  /\ UNCHANGED <<answerJob, messages, removal>>

-----------------------------------------------------------------------------
(* The search, which ends with the job and the empty answer in one          *)
(* transaction.                                                             *)

SearchFails(s) ==
  /\ In(s, "asked")
  /\ End(s, "nothing")
  /\ UNCHANGED <<answerJob, messages, removal>>

CreateJob(s) ==
  /\ answerJob' = [answerJob EXCEPT ![s] = "PENDING"]
  /\ Write(s, "assistant")
  /\ UNCHANGED removal

Open(s) ==
  /\ In(s, "asked")
  /\ CreateJob(s)
  /\ To(s, "opening")
  /\ UNCHANGED <<slot, outlived, leaked, restarts>>

(* Canceled during the search: the slot is released at once, the thread     *)
(* goes on and creates a job that nobody will run.                          *)
SearchCut(s) ==
  /\ In(s, "asked")
  /\ stream' = [stream EXCEPT ![s].phase = "detached", ![s].held = {}]
  /\ slot' = Freed(stream[s].held)
  /\ UNCHANGED <<answerJob, messages, removal, outlived, leaked, restarts>>

DetachedEnds(s) ==
  /\ In(s, "detached")
  /\ To(s, "ended")
  /\ \/ CreateJob(s)
     \/ UNCHANGED <<answerJob, messages, removal>>
  /\ UNCHANGED <<slot, outlived, leaked, restarts>>

-----------------------------------------------------------------------------
(* The stream.                                                              *)

SetJob(s, status) ==
  /\ answerJob' = [answerJob EXCEPT ![s] = status]
  /\ UNCHANGED <<messages, removal>>

Step(s, phase, status) ==
  /\ To(s, phase)
  /\ SetJob(s, status)
  /\ UNCHANGED <<slot, outlived, leaked, restarts>>

(* Too little evidence is an answer without a model call.                   *)
Prepare(s) ==
  /\ In(s, "opening")
  /\ Step(s, "generating", "PROCESSING") \/ Step(s, "closing", "COMPLETED")

(* The job is PROCESSING when its endpoint turns out not to be usable, or   *)
(* when the request is canceled: both leave the iterator before its try.    *)
PrepareBreaks(s) ==
  /\ In(s, "opening")
  /\ End(s, "nothing")
  /\ SetJob(s, "PROCESSING") \/ SetJob(s, "COMPLETED")

(* Only its own stream cancels a job: the key that asks for a cancellation  *)
(* is set by the thread-per-request path, which no request takes any more.  *)
Complete(s) ==
  /\ In(s, "generating")
  /\ Step(s, "completing", "COMPLETED")

GenerationFails(s) ==
  /\ In(s, "generating")
  /\ Step(s, "closing", "FAILED")

(* Canceled at an await of the iterator: recorded, even over a completion.  *)
CutWhileWaiting(s) ==
  /\ stream[s].phase \in {"generating", "completing"}
  /\ End(s, "nothing")
  /\ SetJob(s, "CANCELED")

Completed(s) ==
  /\ In(s, "completing")
  /\ Step(s, "closing", answerJob[s])

(* Closed before the iterator is entered, while a part is sent, or while    *)
(* the final state is read: the slot is released and nothing is recorded.   *)
CutWhileSending(s) ==
  /\ stream[s].phase \in {"opening", "generating", "closing"}
  /\ End(s, "nothing")
  /\ UNCHANGED <<answerJob, messages, removal>>

Outcome(s) == IF answerJob[s] = "COMPLETED" THEN "completed" ELSE "error"

Tell(s) ==
  /\ In(s, "closing")
  /\ End(s, Outcome(s))
  /\ UNCHANGED <<answerJob, messages, removal>>

-----------------------------------------------------------------------------
(* Deletion of the conversation: checked, then written, without a lock.     *)

StartDelete ==
  /\ removal.phase = "live"
  /\ \A s \in Streams : ~Active(s)
  /\ removal' = [removal EXCEPT !.phase = "deleting", !.busy = {s \in Streams : Active(s)}]
  /\ UNCHANGED <<slot, stream, answerJob, messages, outlived, leaked, restarts>>

CommitDelete ==
  /\ removal.phase = "deleting"
  /\ removal' =
       [phase |-> "deleted", busy |-> removal.busy,
        raced |-> {s \in Streams : stream[s].phase \in {"found", "asked", "detached"}}
                    \cup {s \in Streams : Active(s) /\ s \notin removal.busy}]
  /\ UNCHANGED <<slot, stream, answerJob, messages, outlived, leaked, restarts>>

(* The web server restarts: no stream ends properly, the slots stay taken   *)
(* until they are stale, and nothing looks after the jobs.                  *)
RestartWeb ==
  /\ restarts < MaxCrashes
  /\ restarts' = restarts + 1
  /\ stream' = [s \in Streams |->
                  IF In(s, "idle") THEN stream[s]
                  ELSE [stream[s] EXCEPT !.phase = "ended", !.held = {}]]
  /\ leaked' = leaked \cup UNION {{k \in stream[s].held : slot[k] # "free"} : s \in Streams}
  /\ removal' = IF removal.phase = "deleting" THEN [removal EXCEPT !.phase = "live"] ELSE removal
  /\ UNCHANGED <<slot, answerJob, messages, outlived>>

AskStep(s) ==
  \/ \E k \in SlotIds : Admit(s, k) \/ AdmitCut(s, k)
  \/ Refuse(s) \/ Found(s) \/ NotFound(s) \/ Ask(s) \/ Replay(s) \/ CutBefore(s)
  \/ SearchFails(s) \/ Open(s) \/ SearchCut(s) \/ DetachedEnds(s)

AnswerStep(s) ==
  \/ Prepare(s) \/ PrepareBreaks(s) \/ Complete(s) \/ GenerationFails(s)
  \/ CutWhileWaiting(s) \/ Completed(s) \/ CutWhileSending(s) \/ Tell(s)

RAGNext ==
  \/ \E s \in Streams : AskStep(s) \/ AnswerStep(s)
  \/ \E k \in SlotIds : GrowOld(k)
  \/ StartDelete \/ CommitDelete \/ RestartWeb

RAGSpec == RAGInit /\ [][RAGNext]_ragVars

-----------------------------------------------------------------------------
(* Properties.                                                              *)

RAGTypeOK ==
  /\ slot \in [SlotIds -> SlotStates]
  /\ stream \in [Streams -> StreamStates]
  /\ answerJob \in [Streams -> JobStates]
  /\ messages \in Seq(Messages)
  /\ removal \in Removals
  /\ outlived \subseteq Streams /\ leaked \subseteq SlotIds
  /\ restarts \in 0..MaxCrashes

(* The limit on answers generated at once: only a stream that outlived its  *)
(* slot raises it, each by one, and however a request ends, its slot comes  *)
(* back, except when it was cut off while acquiring or by a restart.        *)
SlotsKept ==
  /\ Cardinality(Holders) <= Cardinality(SlotIds) + Cardinality(outlived)
  /\ outlived = {} =>
       Cardinality({k \in SlotIds : slot[k] # "free"} \ leaked) = Cardinality(Holders)

(* However often a question is sent, it has one message and one answer,     *)
(* which follows it, and what the client was told of the answer is what the *)
(* conversation shows afterwards.                                           *)
AnsweredOnce ==
  /\ \A i, j \in DOMAIN messages :
       IdOf[messages[i].stream] = IdOf[messages[j].stream] =>
         /\ messages[i].role = messages[j].role => i = j
         /\ messages[i].role = "user" /\ messages[j].role = "assistant" => i < j
  /\ \A s \in Streams :
       stream[s].told # "nothing" =>
         answerJob[s] = (IF stream[s].told = "completed" THEN "COMPLETED" ELSE "FAILED")

(* A deleted conversation has an answer under way only from a request that  *)
(* was already on its way past the check when the deletion was written.     *)
DeletedBusyByRaceOnly ==
  removal.phase = "deleted" => {s \in Streams : Active(s)} \subseteq removal.raced

(* Slots, answers and the deletion of one conversation together.            *)
AnswersAccounted == SlotsKept /\ AnsweredOnce /\ DeletedBusyByRaceOnly

=============================================================================
