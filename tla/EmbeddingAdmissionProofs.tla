---------------------- MODULE EmbeddingAdmissionProofs ----------------------
(***************************************************************************)
(* Proofs about EmbeddingAdmission, for every number of threads, every     *)
(* concurrency, capacity and reserve.                                      *)
(***************************************************************************)
EXTENDS EmbeddingAdmission, FiniteSetTheorems, TLAPS

-----------------------------------------------------------------------------
(* Typing of the building blocks.                                           *)

LEMMA EntryTypes ==
  ASSUME TypeOK
  PROVE  /\ Outside \in Requests
         /\ \A state \in {"asleep", "working"}, type \in Types :
              Entry(state, type) \in Requests
         /\ \A t \in Threads, e \in Requests :
              NotifiedAfter(t, e) \in [Threads -> Requests]
<1>1. Outside \in Requests
  BY DEF Outside, Requests, Types
<1>2. \A state \in {"asleep", "working"}, type \in Types : Entry(state, type) \in Requests
  BY DEF Entry, Requests, TypeOK
<1>3. \A t \in Threads, e \in Requests : NotifiedAfter(t, e) \in [Threads -> Requests]
  BY DEF NotifiedAfter, Requests, TypeOK
<1> QED
  BY <1>1, <1>2, <1>3

-----------------------------------------------------------------------------
(* The leases.                                                              *)

Holders == {t \in Threads : Is(t, "working")}

LEMMA HoldersFinite ==
  IsFiniteSet(Holders) /\ Cardinality(Holders) \in Nat
<1>1. Holders \subseteq Threads
  BY DEF Holders
<1> QED
  BY <1>1, FS_Subset, FS_CardinalityType, AdmissionAssumption

(* A thread gets the lease it counts in active.                             *)
LEMMA LeaseGranted ==
  ASSUME LeaseAccounting, Free, active \in Nat, NEW t \in Threads, ~Is(t, "working"),
         active' = active + 1, Holders' = Holders \cup {t}
  PROVE  LeaseAccounting'
<1>1. Cardinality(Holders') = Cardinality(Holders) + 1
  BY HoldersFinite, FS_AddElement DEF Holders
<1> QED
  BY <1>1, HoldersFinite, AdmissionAssumption DEF LeaseAccounting, Free, Holders

LEMMA LeaseReturned ==
  ASSUME LeaseAccounting, active \in Nat, NEW t \in Threads, Is(t, "working"),
         active' = active - 1, Holders' = Holders \ {t}
  PROVE  LeaseAccounting' /\ active' \in Nat
<1>1. Cardinality(Holders') = Cardinality(Holders) - 1
  BY HoldersFinite, FS_RemoveElement DEF Holders
<1>2. Cardinality(Holders) # 0
  BY HoldersFinite, FS_EmptySet DEF Holders
<1> QED
  BY <1>1, <1>2, HoldersFinite, AdmissionAssumption DEF LeaseAccounting, Holders

LEMMA LeasesKept ==
  ASSUME LeaseAccounting, UNCHANGED active, Holders' = Holders
  PROVE  LeaseAccounting'
  BY DEF LeaseAccounting, Holders

-----------------------------------------------------------------------------
(* The invariant: the first waiter is found awake because everybody else    *)
(* arrived later or ranks lower, which needs the arrival numbers in it.     *)

ArrivedBefore == \A t \in waiters : request[t].sequence < sequence

AdmissionInv ==
  /\ TypeOK
  /\ LeaseAccounting
  /\ NoGhostWaiter
  /\ ArrivedBefore
  /\ IdleModelWakesHead

LEMMA InvInit == Init => AdmissionInv
<1> SUFFICES ASSUME Init PROVE AdmissionInv
  OBVIOUS
<1>1. TypeOK
  BY DEF Init, TypeOK, Outside, Requests, Types
<1>2. Holders = {}
  BY DEF Holders, Is, Init, Outside
<1>3. LeaseAccounting
  BY <1>2, FS_EmptySet, AdmissionAssumption DEF LeaseAccounting, Holders, Init
<1>4. NoGhostWaiter /\ ArrivedBefore /\ IdleModelWakesHead
  BY DEF NoGhostWaiter, ArrivedBefore, IdleModelWakesHead, Init, Is, Outside
<1> QED
  BY <1>1, <1>3, <1>4 DEF AdmissionInv

(* A thread that does not wait starts to work at once.                      *)
LEMMA DirectStep ==
  ASSUME AdmissionInv, NEW t \in Threads, NEW type \in Types, Is(t, "outside"), Free,
         active' = active + 1, sequence' \in {sequence, sequence + 1},
         UNCHANGED waiters,
         request' = [request EXCEPT ![t] = Entry("working", type)]
  PROVE  AdmissionInv'
<1>0. /\ active \in Nat /\ sequence \in Nat /\ request \in [Threads -> Requests]
      /\ t \notin waiters /\ waiters \subseteq Threads
  BY DEF AdmissionInv, TypeOK, NoGhostWaiter, Is
<1>1. TypeOK'
  BY EntryTypes, <1>0 DEF AdmissionInv, TypeOK
<1>2. /\ request'[t].state = "working"
      /\ \A u \in Threads \ {t} : request'[u] = request[u]
  BY <1>0 DEF Entry
<1>3. LeaseAccounting'
  <2>1. Holders' = Holders \cup {t} /\ ~Is(t, "working")
    BY <1>2 DEF Holders, Is
  <2> QED
    BY <1>0, <2>1, LeaseGranted DEF AdmissionInv
<1>4. NoGhostWaiter'
  BY <1>0, <1>2 DEF AdmissionInv, NoGhostWaiter, Is
<1>5. ArrivedBefore'
  <2>1. \A u \in waiters : request[u].sequence \in Nat
    BY <1>0 DEF Requests
  <2> QED
    BY <1>0, <1>2, <2>1 DEF AdmissionInv, ArrivedBefore
<1>6. IdleModelWakesHead'
  BY <1>0 DEF IdleModelWakesHead
<1> QED
  BY <1>1, <1>3, <1>4, <1>5, <1>6 DEF AdmissionInv

(* A step of t that ends with notify_all and t outside.                     *)
LEMMA NotifyStep ==
  ASSUME AdmissionInv, NEW t \in Threads,
         request' = NotifiedAfter(t, Outside),
         waiters' = waiters \ {t},
         sequence' \in {sequence, sequence + 1},
         \/ Is(t, "working") /\ active' = active - 1
         \/ ~Is(t, "working") /\ UNCHANGED active
  PROVE  AdmissionInv'
<1>0. /\ active \in Nat /\ sequence \in Nat /\ request \in [Threads -> Requests]
      /\ waiters \subseteq Threads
  BY DEF AdmissionInv, TypeOK
<1>1. /\ request'[t] = Outside
      /\ \A u \in Threads \ {t} :
           /\ request'[u].sequence = request[u].sequence
           /\ Is(u, "asleep") \/ Is(u, "awake") => request'[u].state = "awake"
           /\ ~Is(u, "asleep") => request'[u] = request[u]
  BY <1>0 DEF NotifiedAfter, Requests, Is
<1>2. Outside.state = "outside"
  BY DEF Outside
<1>3. Holders' = Holders \ {t}
  BY <1>1, <1>2 DEF Holders, Is
<1>4. LeaseAccounting' /\ active' \in Nat
  <2>1. CASE Is(t, "working") /\ active' = active - 1
    BY <1>0, <1>3, <2>1, LeaseReturned DEF AdmissionInv
  <2>2. CASE ~Is(t, "working") /\ UNCHANGED active
    <3>1. Holders' = Holders
      BY <1>3, <2>2 DEF Holders
    <3> QED
      BY <1>0, <2>2, <3>1, LeasesKept DEF AdmissionInv
  <2> QED
    BY <2>1, <2>2
<1>5. TypeOK'
  BY <1>0, <1>4, EntryTypes DEF AdmissionInv, TypeOK
<1>6. NoGhostWaiter'
  BY <1>0, <1>1, <1>2 DEF AdmissionInv, NoGhostWaiter, Is
<1>7. ArrivedBefore'
  <2>1. \A u \in waiters : request[u].sequence \in Nat
    BY <1>0 DEF Requests
  <2> QED
    BY <1>0, <1>1, <2>1 DEF AdmissionInv, ArrivedBefore
<1>8. IdleModelWakesHead'
  BY <1>1 DEF AdmissionInv, NoGhostWaiter, IdleModelWakesHead, Is
<1> QED
  BY <1>4, <1>5, <1>6, <1>7, <1>8 DEF AdmissionInv

(* A newcomer goes to sleep: somebody it does not outrank waits, so it is   *)
(* not the head.                                                            *)
LEMMA SleepStep ==
  ASSUME AdmissionInv, NEW t \in Threads, NEW type \in {"query", "document"},
         JoinAndSleep(t, type)
  PROVE  AdmissionInv'
<1>0. /\ active \in Nat /\ sequence \in Nat /\ request \in [Threads -> Requests]
      /\ waiters \subseteq Threads /\ t \notin waiters
      /\ sequence' = sequence + 1 /\ active' = active
      /\ waiters' = waiters \cup {t}
      /\ request' = [request EXCEPT ![t] = Entry("asleep", type)]
      /\ ~(Free /\ Outranks(type)) /\ Is(t, "outside")
  BY DEF AdmissionInv, TypeOK, NoGhostWaiter, Is, JoinAndSleep, Queueing
<1>1. TypeOK'
  BY <1>0, EntryTypes DEF AdmissionInv, TypeOK, Types
<1>2. /\ request'[t].state = "asleep" /\ request'[t].type = type
      /\ request'[t].sequence = sequence
      /\ \A u \in Threads \ {t} : request'[u] = request[u]
  BY <1>0 DEF Entry
<1>3. LeaseAccounting'
  <2>1. Holders' = Holders
    BY <1>0, <1>2 DEF Holders, Is
  <2> QED
    BY <1>0, <2>1, LeasesKept DEF AdmissionInv
<1>4. NoGhostWaiter'
  BY <1>0, <1>2 DEF AdmissionInv, NoGhostWaiter, Is
<1>5. ArrivedBefore'
  <2>1. \A u \in waiters : request[u].sequence \in Nat
    BY <1>0 DEF Requests
  <2> QED
    BY <1>0, <1>2, <2>1 DEF AdmissionInv, ArrivedBefore
<1>6. IdleModelWakesHead'
  <2> SUFFICES ASSUME active = 0, NEW u \in waiters', IsHead(u)' PROVE Is(u, "awake")'
    BY <1>0 DEF IdleModelWakesHead
  <2>1. PICK v \in waiters : ~(Priority(type) < Priority(request[v].type))
    BY <1>0, AdmissionAssumption DEF Free, Outranks
  <2>2. /\ request'[v] = request[v] /\ v # t /\ v \in waiters'
        /\ request[v].sequence < sequence /\ request[v].sequence \in Nat
    BY <1>0, <1>2 DEF AdmissionInv, ArrivedBefore, Requests
  <2>3. u # t
    <3> SUFFICES ASSUME u = t PROVE FALSE
      OBVIOUS
    <3>1. Before(t, v)'
      BY <2>2 DEF IsHead
    <3>2. Priority(type) \in Nat /\ Priority(request[v].type) \in Nat
      BY DEF Priority
    <3> QED
      BY <1>0, <1>2, <2>1, <2>2, <3>1, <3>2 DEF Before, Priority
  <2>4. u \in waiters /\ request'[u] = request[u]
    BY <1>0, <1>2, <2>3
  <2>5. IsHead(u)
    <3>1. \A w \in waiters \ {u} : Before(u, w)' /\ request'[w] = request[w]
      BY <1>0, <1>2 DEF IsHead
    <3> QED
      BY <2>4, <3>1 DEF IsHead, Before
  <2> QED
    BY <2>4, <2>5 DEF AdmissionInv, IdleModelWakesHead, Is
<1> QED
  BY <1>1, <1>3, <1>4, <1>5, <1>6 DEF AdmissionInv

LEMMA TakeStep ==
  ASSUME AdmissionInv, NEW t \in Threads, Take(t)
  PROVE  AdmissionInv'
<1>0. /\ active \in Nat /\ sequence \in Nat /\ request \in [Threads -> Requests]
      /\ waiters \subseteq Threads
      /\ UNCHANGED sequence /\ active' = active + 1 /\ Free
      /\ waiters' = waiters \ {t} /\ Is(t, "awake")
      /\ request' = [request EXCEPT ![t].state = "working"]
  BY DEF AdmissionInv, TypeOK, Take
<1>1. /\ request'[t].state = "working"
      /\ \A u \in Threads \ {t} : request'[u] = request[u]
  BY <1>0 DEF Requests
<1>2. TypeOK'
  BY <1>0 DEF TypeOK, Requests
<1>3. LeaseAccounting'
  <2>1. Holders' = Holders \cup {t} /\ ~Is(t, "working")
    BY <1>0, <1>1 DEF Holders, Is
  <2> QED
    BY <1>0, <2>1, LeaseGranted DEF AdmissionInv
<1>4. NoGhostWaiter'
  BY <1>0, <1>1 DEF AdmissionInv, NoGhostWaiter, Is
<1>5. ArrivedBefore'
  BY <1>0, <1>1 DEF AdmissionInv, ArrivedBefore
<1>6. IdleModelWakesHead'
  BY <1>0 DEF IdleModelWakesHead
<1> QED
  BY <1>2, <1>3, <1>4, <1>5, <1>6 DEF AdmissionInv

(* A waiter sleeps again, not being the head of a free slot, or its wait    *)
(* times out.                                                               *)
LEMMA WaitStep ==
  ASSUME AdmissionInv, NEW t \in Threads, SleepAgain(t) \/ TimeOut(t)
  PROVE  AdmissionInv'
<1>0. /\ active \in Nat /\ sequence \in Nat /\ request \in [Threads -> Requests]
      /\ waiters \subseteq Threads /\ t \in waiters
      /\ UNCHANGED <<active, waiters, sequence>>
  BY DEF AdmissionInv, TypeOK, NoGhostWaiter, SleepAgain, TimeOut
<1>1. /\ request'[t].state \in {"asleep", "awake"}
      /\ request'[t].type = request[t].type /\ request'[t].sequence = request[t].sequence
      /\ \A u \in Threads \ {t} : request'[u] = request[u]
      /\ request[t].state \in {"asleep", "awake"}
  BY <1>0 DEF Requests, SleepAgain, TimeOut, Is
<1>2. TypeOK'
  BY <1>0, ZenonT(60) DEF TypeOK, Requests, SleepAgain, TimeOut
<1>3. LeaseAccounting'
  <2>1. Holders' = Holders
    BY <1>0, <1>1 DEF Holders, Is
  <2> QED
    BY <1>0, <2>1, LeasesKept DEF AdmissionInv
<1>4. NoGhostWaiter'
  BY <1>0, <1>1 DEF AdmissionInv, NoGhostWaiter, Is
<1>5. ArrivedBefore'
  BY <1>0, <1>1 DEF AdmissionInv, ArrivedBefore
<1>6. IdleModelWakesHead'
  <2> SUFFICES ASSUME active = 0, NEW u \in waiters, IsHead(u)' PROVE Is(u, "awake")'
    BY <1>0 DEF IdleModelWakesHead
  <2>1. \A v, w \in waiters : Before(v, w)' <=> Before(v, w)
    BY <1>0, <1>1 DEF Before
  <2>2. IsHead(u)
    BY <1>0, <2>1 DEF IsHead
  <2>3. Is(u, "awake")
    BY <2>2 DEF AdmissionInv, IdleModelWakesHead
  <2>4. CASE u # t
    BY <1>0, <1>1, <2>3, <2>4 DEF Is
  <2>5. CASE u = t /\ TimeOut(t)
    BY <1>0, <2>5 DEF TimeOut, Is, Requests
  <2>6. CASE u = t /\ SleepAgain(t)
    BY <2>2, <2>6, AdmissionAssumption DEF SleepAgain, Free
  <2> QED
    BY <2>4, <2>5, <2>6
<1> QED
  BY <1>2, <1>3, <1>4, <1>5, <1>6 DEF AdmissionInv

LEMMA InvStep == AdmissionInv /\ [Next]_vars => AdmissionInv'
<1> SUFFICES ASSUME AdmissionInv, [Next]_vars PROVE AdmissionInv'
  OBVIOUS
<1>0. /\ sequence \in Nat
      /\ \A t \in Threads : Is(t, "outside") \/ Is(t, "working") => t \notin waiters
  BY DEF AdmissionInv, TypeOK, NoGhostWaiter, Is
<1>1. CASE UNCHANGED vars
  BY <1>1 DEF vars, AdmissionInv, TypeOK, LeaseAccounting, NoGhostWaiter, ArrivedBefore,
              IdleModelWakesHead, IsHead, Before, Is
<1>2. ASSUME NEW t \in Threads, Arrive(t) PROVE AdmissionInv'
  <2>1. ASSUME NEW type \in Types, Enter(t, type) PROVE AdmissionInv'
    BY <2>1, DirectStep DEF Enter
  <2>2. ASSUME NEW type \in {"query", "document"}, JoinAndTake(t, type) PROVE AdmissionInv'
    BY <2>2, DirectStep DEF JoinAndTake, Queueing, Types
  <2>3. ASSUME NEW type \in {"query", "document"}, JoinAndSleep(t, type) PROVE AdmissionInv'
    BY <2>3, SleepStep
  <2>4. ASSUME NEW type \in {"query", "document"}, JoinTooLate(t, type) PROVE AdmissionInv'
    <3>1. waiters' = waiters \ {t} /\ ~Is(t, "working")
      BY <1>0, <2>4 DEF JoinTooLate, Queueing, Is
    <3> QED
      BY <2>4, <3>1, NotifyStep DEF JoinTooLate, Queueing
  <2> QED
    BY <1>2, <2>1, <2>2, <2>3, <2>4 DEF Arrive
<1>3. ASSUME NEW t \in Threads, Recheck(t) PROVE AdmissionInv'
  <2>1. CASE Take(t)
    BY <2>1, TakeStep
  <2>2. CASE SleepAgain(t)
    BY <2>2, WaitStep
  <2>3. CASE GiveUp(t)
    BY <2>3, NotifyStep DEF GiveUp, Is
  <2> QED
    BY <1>3, <2>1, <2>2, <2>3 DEF Recheck
<1>4. ASSUME NEW t \in Threads, TimeOut(t) PROVE AdmissionInv'
  BY <1>4, WaitStep
<1>5. ASSUME NEW t \in Threads, Finish(t) PROVE AdmissionInv'
  <2>1. waiters' = waiters \ {t}
    BY <1>0, <1>5 DEF Finish
  <2> QED
    BY <1>5, <2>1, NotifyStep DEF Finish
<1> QED
  BY <1>1, <1>2, <1>3, <1>4, <1>5 DEF Next

LEMMA AdmissionInvariant == Spec => []AdmissionInv
  BY InvInit, InvStep, PTL DEF Spec

(* The variables of the admission keep their types.                         *)
THEOREM AdmissionTypes == Spec => []TypeOK
<1>1. AdmissionInv => TypeOK
  BY DEF AdmissionInv
<1> QED
  BY <1>1, AdmissionInvariant, PTL

(* However requests arrive, time out, fail and finish, the lease counter    *)
(* counts the threads at the model, at most Concurrency of them, and no     *)
(* request leaves its heap entry behind.                                    *)
THEOREM QueueAccounted == Spec => []QueueAccounting
<1>1. AdmissionInv => QueueAccounting
  BY DEF AdmissionInv, QueueAccounting
<1> QED
  BY <1>1, AdmissionInvariant, PTL

(* The queue never sleeps in front of an idle model, although a thread that *)
(* takes its slot notifies nobody.                                          *)
THEOREM NeverAllAsleep == Spec => []IdleModelWakesHead
<1>1. AdmissionInv => IdleModelWakesHead
  BY DEF AdmissionInv
<1> QED
  BY <1>1, AdmissionInvariant, PTL

-----------------------------------------------------------------------------
(* The places of the queue.                                                 *)

Documents == {t \in waiters : request[t].type = "document"}

LEMMA WaitersFinite ==
  ASSUME TypeOK
  PROVE  /\ IsFiniteSet(waiters) /\ Cardinality(waiters) \in Nat
         /\ IsFiniteSet(Documents) /\ Cardinality(Documents) \in Nat
<1>1. waiters \subseteq Threads /\ Documents \subseteq waiters
  BY DEF TypeOK, Documents
<1> QED
  BY <1>1, FS_Subset, FS_CardinalityType, AdmissionAssumption

(* A step after which only threads wait that waited before, with the        *)
(* request they had.                                                        *)
LEMMA NobodyJoins ==
  ASSUME TypeOK, ReserveKept, waiters' \subseteq waiters,
         \A u \in waiters' : request'[u].type = request[u].type
  PROVE  ReserveKept'
<1>1. Documents' \subseteq Documents
  BY DEF Documents
<1>2. /\ Cardinality(waiters') \in Nat /\ Cardinality(waiters') <= Cardinality(waiters)
      /\ Cardinality(Documents') \in Nat /\ Cardinality(Documents') <= Cardinality(Documents)
  BY <1>1, WaitersFinite, FS_Subset, FS_CardinalityType
<1> QED
  BY <1>2, WaitersFinite, AdmissionAssumption DEF ReserveKept, Documents

(* The newcomer passed CanEnqueue in the same critical section.             *)
LEMMA NewcomerFits ==
  ASSUME TypeOK, ReserveKept, NEW t \in Threads, NEW type \in {"query", "document"},
         t \notin waiters, JoinAndSleep(t, type)
  PROVE  ReserveKept'
<1>0. /\ CanEnqueue(type) /\ request \in [Threads -> Requests] /\ waiters \subseteq Threads
      /\ waiters' = waiters \cup {t}
      /\ request' = [request EXCEPT ![t] = Entry("asleep", type)]
  BY DEF JoinAndSleep, Queueing, TypeOK
<1>1. /\ request'[t].type = type
      /\ \A u \in waiters : request'[u] = request[u]
  BY <1>0 DEF Entry
<1>2. Cardinality(waiters') = Cardinality(waiters) + 1
  BY <1>0, WaitersFinite, FS_AddElement
<1>3. CASE type = "document"
  <2>1. Documents' = Documents \cup {t} /\ t \notin Documents
    BY <1>0, <1>1, <1>3 DEF Documents
  <2>2. Cardinality(Documents') = Cardinality(Documents) + 1
    BY <2>1, WaitersFinite, FS_AddElement
  <2> QED
    BY <1>0, <1>2, <1>3, <2>2, WaitersFinite, AdmissionAssumption
    DEF ReserveKept, CanEnqueue, Documents
<1>4. CASE type # "document"
  <2>1. Documents' = Documents
    BY <1>0, <1>1, <1>4 DEF Documents
  <2>2. Cardinality(Documents') <= QueueCapacity - QueryReserve
    BY <2>1 DEF ReserveKept, Documents
  <2>3. Cardinality(waiters') <= QueueCapacity
    BY <1>0, <1>2, WaitersFinite, AdmissionAssumption DEF CanEnqueue
  <2> QED
    BY <2>2, <2>3 DEF ReserveKept, Documents
<1> QED
  BY <1>3, <1>4

LEMMA ReserveStep == AdmissionInv /\ ReserveKept /\ [Next]_vars => ReserveKept'
<1> SUFFICES ASSUME AdmissionInv, ReserveKept, [Next]_vars PROVE ReserveKept'
  OBVIOUS
<1>0. /\ TypeOK /\ request \in [Threads -> Requests] /\ waiters \subseteq Threads
      /\ \A t \in Threads : Is(t, "outside") \/ Is(t, "working") => t \notin waiters
  BY DEF AdmissionInv, TypeOK, NoGhostWaiter, Is
<1>1. CASE UNCHANGED vars
  BY <1>0, <1>1, NobodyJoins DEF vars
<1>2. ASSUME NEW t \in Threads,
             \/ \E type \in Types : Enter(t, type)
             \/ \E type \in {"query", "document"} :
                  JoinAndTake(t, type) \/ JoinTooLate(t, type)
             \/ Finish(t)
      PROVE  ReserveKept'
  <2>1. waiters' = waiters /\ t \notin waiters
    BY <1>0, <1>2 DEF Enter, JoinAndTake, JoinTooLate, Queueing, Finish, Is
  <2>2. \A u \in waiters : request'[u].type = request[u].type
    BY <1>0, <1>2, <2>1
    DEF Enter, JoinAndTake, JoinTooLate, Queueing, Finish, NotifiedAfter, Requests
  <2> QED
    BY <1>0, <2>1, <2>2, NobodyJoins
<1>3. ASSUME NEW t \in Threads, NEW type \in {"query", "document"}, JoinAndSleep(t, type)
      PROVE  ReserveKept'
  BY <1>0, <1>3, NewcomerFits DEF JoinAndSleep, Queueing, Is
<1>4. ASSUME NEW t \in Threads, Recheck(t) \/ TimeOut(t) PROVE ReserveKept'
  <2>1. waiters' \subseteq waiters
    BY <1>4 DEF Recheck, Take, SleepAgain, GiveUp, TimeOut
  <2>2. \A u \in waiters' : request'[u].type = request[u].type
    BY <1>0, <1>4 DEF Recheck, Take, SleepAgain, GiveUp, TimeOut, NotifiedAfter, Requests
  <2> QED
    BY <1>0, <2>1, <2>2, NobodyJoins
<1> QED
  BY <1>1, <1>2, <1>3, <1>4 DEF Next, Arrive

(* Waiting documents never take the places reserved for queries, and the    *)
(* heap of the admission never outgrows its capacity: what CanEnqueue       *)
(* counted is still true when the request is in the heap, and no later      *)
(* step adds to it.                                                         *)
THEOREM ReserveAlwaysKept == Spec => []ReserveKept
<1>1. Init => ReserveKept
  <2> SUFFICES ASSUME Init PROVE ReserveKept
    OBVIOUS
  <2>1. waiters = {} /\ {t \in waiters : request[t].type = "document"} = {}
    BY DEF Init
  <2> QED
    BY <2>1, FS_EmptySet, AdmissionAssumption DEF ReserveKept
<1> QED
  BY <1>1, ReserveStep, AdmissionInvariant, PTL DEF Spec

-----------------------------------------------------------------------------
(* The order of the queue.                                                  *)

(* A thread gets a slot past an empty queue, by a type that outranks all    *)
(* that wait, or as the head.                                               *)
LEMMA SlotGoesToFirst ==
  ASSUME AdmissionInv, Next, NEW t \in Threads, ~Is(t, "working"), Is(t, "working")'
  PROVE  \A u \in waiters' : Before(t, u)'
<1> SUFFICES ASSUME NEW u \in waiters' PROVE Before(t, u)'
  OBVIOUS
<1>0. /\ request \in [Threads -> Requests] /\ waiters \subseteq Threads
      /\ \A v \in Threads : Is(v, "outside") \/ Is(v, "working") => v \notin waiters
  BY DEF AdmissionInv, TypeOK, NoGhostWaiter, Is
<1>1. PICK s \in Threads : Arrive(s) \/ Recheck(s) \/ TimeOut(s) \/ Finish(s)
  BY DEF Next
<1>2. CASE \E type \in Types : Enter(s, type)
  BY <1>2 DEF Enter
<1>3. ASSUME NEW type \in {"query", "document"}, JoinAndTake(s, type) PROVE Before(t, u)'
  <2>1. s = t
    BY <1>0, <1>3 DEF JoinAndTake, Is
  <2>2. u \in waiters /\ u # s /\ request'[u] = request[u] /\ request'[s].type = type
    BY <1>0, <1>3 DEF JoinAndTake, Queueing, Is, Entry
  <2> QED
    BY <1>3, <2>1, <2>2 DEF JoinAndTake, Outranks, Before
<1>4. CASE Take(s)
  <2>1. s = t
    BY <1>0, <1>4 DEF Take, Is
  <2>2. u \in waiters \ {s} /\ request'[u] = request[u]
    BY <1>0, <1>4 DEF Take
  <2>3. request'[s].type = request[s].type /\ request'[s].sequence = request[s].sequence
    BY <1>0, <1>4 DEF Take, Requests
  <2>4. Before(s, u)
    BY <1>4, <2>2 DEF Take, IsHead
  <2> QED
    BY <2>1, <2>2, <2>3, <2>4 DEF Before
<1>5. ASSUME \/ \E type \in {"query", "document"} :
                  JoinAndSleep(s, type) \/ JoinTooLate(s, type)
             \/ SleepAgain(s) \/ GiveUp(s) \/ TimeOut(s) \/ Finish(s)
      PROVE  FALSE
  BY <1>0, <1>5
  DEF JoinAndSleep, JoinTooLate, SleepAgain, GiveUp, TimeOut, Finish, NotifiedAfter,
      Outside, Entry, Is, Requests
<1> QED
  BY <1>1, <1>2, <1>3, <1>4, <1>5 DEF Arrive, Recheck

(* Nobody is overtaken: whoever gets a model slot, however it came to it,   *)
(* outranks every request it leaves waiting, queries before documents and   *)
(* then in the order of arrival.                                            *)
THEOREM NobodyOvertaken == Spec => AdmissionOrder
<1>1. AdmissionInv /\ [Next]_vars =>
        [\A t \in Threads : ~Is(t, "working") /\ Is(t, "working")' =>
           \A u \in waiters' : Before(t, u)']_vars
  BY SlotGoesToFirst
<1> QED
  BY <1>1, AdmissionInvariant, PTL DEF Spec, AdmissionOrder

=============================================================================
