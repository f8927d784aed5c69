----------------------------- MODULE JobLedger -----------------------------
(***************************************************************************)
(* What the executor receipts promise the rest of the system, without the  *)
(* executors, the HTTP requests or the database: a job that runs holds a   *)
(* set of resources nobody else holds, it is granted them at most Budget   *)
(* times, and once it is closed it never runs again.                       *)
(***************************************************************************)
EXTENDS Naturals

CONSTANTS
  Jobs,       \* job identities, one per queued piece of work
  Resources,  \* what a running job holds: documents, chunks, targets
  Budget      \* how many times one job may be granted its resources

VARIABLES
  held,    \* [Jobs -> SUBSET Resources]; {} when the job is not running
  grants,  \* [Jobs -> 0..Budget]; how often each job was started
  closed   \* the jobs with a final outcome

ledgerVars == <<held, grants, closed>>

LedgerInit ==
  /\ held = [j \in Jobs |-> {}]
  /\ grants = [j \in Jobs |-> 0]
  /\ closed = {}

(* A job starts with resources that no running job holds.                  *)
Grant(j) ==
  /\ j \notin closed
  /\ held[j] = {}
  /\ grants[j] < Budget
  /\ grants' = [grants EXCEPT ![j] = @ + 1]
  /\ \E S \in (SUBSET Resources) \ {{}} :
       /\ \A k \in Jobs : held[k] \cap S = {}
       /\ held' = [held EXCEPT ![j] = S]
  /\ UNCHANGED closed

(* A running job returns everything; its outcome is final or retryable.    *)
Return(j) ==
  /\ held[j] # {}
  /\ held' = [held EXCEPT ![j] = {}]
  /\ closed' \in {closed, closed \cup {j}}
  /\ UNCHANGED grants

(* A job that used up its grants is closed without running again.          *)
GiveUp(j) ==
  /\ held[j] = {}
  /\ grants[j] = Budget
  /\ closed' = closed \cup {j}
  /\ UNCHANGED <<held, grants>>

LedgerNext ==
  \E j \in Jobs :
    Grant(j) \/ Return(j) \/ GiveUp(j)

LedgerSpec == LedgerInit /\ [][LedgerNext]_ledgerVars

=============================================================================
