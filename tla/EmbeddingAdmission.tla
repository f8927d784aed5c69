------------------------- MODULE EmbeddingAdmission -------------------------
(***************************************************************************)
(* embedding/admission.py: the bounded priority queue in front of the      *)
(* embedding model, shared by the threads of the embedding executor.       *)
(* Every action is one critical section of the condition's lock: a thread   *)
(* either leaves it with a lease, leaves it refused, or ends in             *)
(* condition.wait and runs again once notify_all or its timeout woke it and *)
(* the lock is free, in whatever order the threads get the lock.            *)
(***************************************************************************)
EXTENDS Naturals, FiniteSets

CONSTANTS
  Threads,        \* request threads of the process
  Concurrency,    \* EMBEDDING_MODEL_CONCURRENCY
  QueueCapacity,  \* EMBEDDING_REQUEST_QUEUE_CAPACITY
  QueryReserve,   \* EMBEDDING_QUERY_QUEUE_RESERVE
  MaxRequests     \* bound: requests that ever queue

ASSUME AdmissionAssumption ==
  /\ IsFiniteSet(Threads)
  /\ Concurrency \in Nat \ {0}
  /\ QueueCapacity \in Nat /\ QueryReserve \in 0..QueueCapacity
  /\ MaxRequests \in Nat

VARIABLES
  active,    \* leases handed out
  waiters,   \* the threads with an entry in the heap
  sequence,  \* the next arrival number
  request    \* [Threads -> Requests], what each thread is doing

vars == <<active, waiters, sequence, request>>

Types == {"query", "document", "probe"}
Priority(type) == IF type = "query" THEN 0 ELSE 10

(*   outside  not in the admission     asleep   in condition.wait           *)
(*   awake    woken, lock not yet got  working  holds a lease               *)
Requests ==
  [state : {"outside", "asleep", "awake", "working"}, type : Types,
   sequence : Nat, late : BOOLEAN]

Outside == [state |-> "outside", type |-> "query", sequence |-> 0, late |-> FALSE]
Entry(state, type) ==
  [state |-> state, type |-> type, sequence |-> sequence, late |-> FALSE]

Is(t, state) == request[t].state = state

(* The order of the heap.                                                   *)
Before(t, u) ==
  LET p == Priority(request[t].type)
      q == Priority(request[u].type)
  IN p < q \/ (p = q /\ request[t].sequence < request[u].sequence)

IsHead(t) == t \in waiters /\ \A u \in waiters \ {t} : Before(t, u)

Free == active < Concurrency

(* notify_all, after t changed its own entry to e.                          *)
NotifiedAfter(t, e) ==
  [u \in Threads |->
     IF u = t THEN e
     ELSE IF Is(u, "asleep") THEN [request[u] EXCEPT !.state = "awake"]
     ELSE request[u]]

Init ==
  /\ active = 0
  /\ waiters = {}
  /\ sequence = 0
  /\ request = [t \in Threads |-> Outside]

-----------------------------------------------------------------------------
(* Wrong variant of Enter: a free slot is taken past the queue.             *)
EnterPastQueue(t, type) ==
  /\ Is(t, "outside") /\ Free
  /\ active' = active + 1
  /\ request' = [request EXCEPT ![t] = Entry("working", type)]
  /\ UNCHANGED <<waiters, sequence>>

(* A slot is free and nobody waits; the readiness probe's try_acquire goes  *)
(* the same way, one probe at a time.                                       *)
Enter(t, type) ==
  /\ Is(t, "outside")
  /\ Free /\ waiters = {}
  /\ type = "probe" => \A u \in Threads : Is(u, "working") => request[u].type # "probe"
  /\ active' = active + 1
  /\ request' = [request EXCEPT ![t] = Entry("working", type)]
  /\ UNCHANGED <<waiters, sequence>>

(* Wrong variant of CanEnqueue: the reserve also counts waiting queries.    *)
CanEnqueueUnreserved(type) == Cardinality(waiters) < QueueCapacity

(* Document requests leave QueryReserve places of the queue to queries.     *)
CanEnqueue(type) ==
  /\ Cardinality(waiters) < QueueCapacity
  /\ type = "document" =>
       Cardinality({u \in waiters : request[u].type = "document"})
         < QueueCapacity - QueryReserve

(* A request that may neither enter nor queue is refused, changing nothing. *)
Queueing(t, type) ==
  /\ Is(t, "outside")
  /\ ~(Free /\ waiters = {})
  /\ CanEnqueue(type)
  /\ sequence < MaxRequests
  /\ sequence' = sequence + 1

(* The newest arrival is the head only if its type outranks all that wait.  *)
Outranks(type) == \A u \in waiters : Priority(type) < Priority(request[u].type)

JoinAndTake(t, type) ==
  /\ Queueing(t, type)
  /\ Free /\ Outranks(type)
  /\ active' = active + 1
  /\ request' = [request EXCEPT ![t] = Entry("working", type)]
  /\ UNCHANGED waiters

JoinAndSleep(t, type) ==
  /\ Queueing(t, type)
  /\ ~(Free /\ Outranks(type))
  /\ waiters' = waiters \cup {t}
  /\ request' = [request EXCEPT ![t] = Entry("asleep", type)]
  /\ UNCHANGED active

(* The deadline passed while the thread waited for the lock.                *)
JoinTooLate(t, type) ==
  /\ Queueing(t, type)
  /\ ~(Free /\ Outranks(type))
  /\ request' = NotifiedAfter(t, Outside)
  /\ UNCHANGED <<active, waiters>>

-----------------------------------------------------------------------------
(* Back from condition.wait with the lock.                                  *)

Take(t) ==
  /\ Is(t, "awake")
  /\ Free /\ IsHead(t)
  /\ waiters' = waiters \ {t}
  /\ active' = active + 1
  /\ request' = [request EXCEPT ![t].state = "working"]
  /\ UNCHANGED sequence

SleepAgain(t) ==
  /\ Is(t, "awake") /\ ~request[t].late
  /\ ~(Free /\ IsHead(t))
  /\ request' = [request EXCEPT ![t].state = "asleep"]
  /\ UNCHANGED <<active, waiters, sequence>>

(* Wrong variant of GiveUp: the entry stays in the heap.                    *)
GiveUpKeepsEntry(t) ==
  /\ Is(t, "awake") /\ request[t].late
  /\ ~(Free /\ IsHead(t))
  /\ request' = NotifiedAfter(t, Outside)
  /\ UNCHANGED <<active, waiters, sequence>>

GiveUp(t) ==
  /\ Is(t, "awake") /\ request[t].late
  /\ ~(Free /\ IsHead(t))
  /\ waiters' = waiters \ {t}
  /\ request' = NotifiedAfter(t, Outside)
  /\ UNCHANGED <<active, sequence>>

TimeOut(t) ==
  /\ Is(t, "asleep") \/ Is(t, "awake")
  /\ ~request[t].late
  /\ request' = [request EXCEPT ![t].late = TRUE, ![t].state = "awake"]
  /\ UNCHANGED <<active, waiters, sequence>>

(* Wrong variants of Finish: nobody is notified; the lease is released      *)
(* twice; the slot is not returned.                                         *)
FinishSilently(t) ==
  /\ Is(t, "working")
  /\ active' = active - 1
  /\ request' = [request EXCEPT ![t] = Outside]
  /\ UNCHANGED <<waiters, sequence>>

FinishTwice(t) ==
  /\ Is(t, "working")
  /\ active' = active - 2
  /\ request' = NotifiedAfter(t, Outside)
  /\ UNCHANGED <<waiters, sequence>>

(* The model call ends, with a result or an exception: the lease is given   *)
(* back and every waiter is notified.                                       *)
Finish(t) ==
  /\ Is(t, "working")
  /\ active' = active - 1
  /\ request' = NotifiedAfter(t, Outside)
  /\ UNCHANGED <<waiters, sequence>>

Recheck(t) == Take(t) \/ SleepAgain(t) \/ GiveUp(t)

Arrive(t) ==
  \/ \E type \in Types : Enter(t, type)
  \/ \E type \in {"query", "document"} :
       JoinAndTake(t, type) \/ JoinAndSleep(t, type) \/ JoinTooLate(t, type)

Next == \E t \in Threads : Arrive(t) \/ Recheck(t) \/ TimeOut(t) \/ Finish(t)

Spec == Init /\ [][Next]_vars

(* A woken thread gets the lock at last, and a model call ends.  Nobody has *)
(* to arrive, and no timeout is needed.                                     *)
FairSpec ==
  Spec /\ \A t \in Threads : WF_vars(Recheck(t)) /\ WF_vars(Finish(t))

-----------------------------------------------------------------------------
(* Properties.                                                              *)

(* Every variable has its type.                                             *)
TypeOK ==
  /\ active \in Nat
  /\ waiters \subseteq Threads
  /\ sequence \in Nat
  /\ request \in [Threads -> Requests]

(* The counter of leases agrees with the threads that hold one, on every    *)
(* path through a refusal, a timeout or an exception, and stays within the  *)
(* configured concurrency.                                                  *)
LeaseAccounting ==
  /\ active = Cardinality({t \in Threads : Is(t, "working")})
  /\ active <= Concurrency

(* The heap holds exactly the threads that still wait: a request that timed *)
(* out leaves no entry behind that would block the queue as its head.       *)
NoGhostWaiter == waiters = {t \in Threads : Is(t, "asleep") \/ Is(t, "awake")}

(* The leases and the heap account for every thread.                        *)
QueueAccounting == LeaseAccounting /\ NoGhostWaiter

(* Waiting documents never use up the places reserved for queries, and the  *)
(* queue never exceeds its capacity.                                        *)
ReserveKept ==
  /\ Cardinality(waiters) <= QueueCapacity
  /\ Cardinality({t \in waiters : request[t].type = "document"})
       <= QueueCapacity - QueryReserve

(* While the model is idle the first waiter never sleeps: no release or     *)
(* timeout leaves the queue waiting for a notification nobody will send.    *)
IdleModelWakesHead ==
  active = 0 => \A t \in waiters : IsHead(t) => Is(t, "awake")

(* Whoever gets a slot, by entering directly, by joining or after waiting,  *)
(* outranks everybody it leaves waiting: queries before documents, first    *)
(* come first served within a type.                                         *)
AdmissionOrder ==
  [][\A t \in Threads : ~Is(t, "working") /\ Is(t, "working")' =>
       \A u \in waiters' : Before(t, u)']_vars

(* A waiting query is served, or times out, without waiting for its timeout *)
(* to be reached: model calls that end are enough.                          *)
QueryServed ==
  \A t \in Threads :
    (t \in waiters /\ request[t].type = "query") ~> (Is(t, "working") \/ Is(t, "outside"))

(* The class comment: priority is applied when the next model slot becomes  *)
(* available.  While a slot is free, the first waiter is on its way to it.  *)
FreeSlotIsTaken ==
  Free => \A t \in waiters : IsHead(t) => Is(t, "awake")

=============================================================================
