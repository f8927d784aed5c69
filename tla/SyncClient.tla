----------------------------- MODULE SyncClient -----------------------------
(***************************************************************************)
(* The synchronisation client: the watch loop of dotori-sync, which        *)
(* decides when a pass is due, and the pass of dotori-cli, which compares  *)
(* a manifest of the local folder with the server and applies the          *)
(* difference one call at a time (clients/dotori-sync, dotori-cli/sync.py).*)
(* The server is what sync_api/views.py makes of these calls: diff is a    *)
(* function of the manifest and the server's nodes.                        *)
(***************************************************************************)
EXTENDS Integers, Sequences, SequencesExt, FiniteSets

CONSTANTS
  Paths,       \* relative paths, sequences of names
  Contents,    \* contents of files
  AllowDelete, \* the --delete option
  MaxEdits,    \* bound: changes of the local folder
  MaxFaults    \* bound: failed calls and missed events

ASSUME PathsAssumption ==
  \A p \in Paths : p \in Seq(STRING) /\ p # <<>> /\ (Len(p) > 1 => Front(p) \in Paths)

Absent == "absent"
Dir == "dir"

ASSUME ContentsAssumption == Absent \notin Contents /\ Dir \notin Contents
ASSUME EffortAssumption == MaxEdits \in Nat /\ MaxFaults \in Nat

Entries == Contents \cup {Dir, Absent}
Verbs == {"mkdir", "upload", "update", "conflict", "delete"}

VARIABLES
  local,     \* local[p]: what is at p in the local folder
  stamp,     \* stamp[p]: the edit that last touched p (size and mtime)
  edits,     \* edits so far
  event,     \* the watcher has seen a change it has not reported yet
  pending,   \* DebouncedTrigger._pending
  quiet,     \* quiet_seconds have passed since the last activity
  due,       \* fallback_interval_seconds have passed since the last pass
  pc,        \* "idle", "manifest", "diff" or "apply"
  since,     \* edits when this pass began
  seen,      \* the manifest so far: [entry, stamp] of the paths walked
  todo,      \* actions of the plan still to be applied
  server,    \* server[p]: the live node at p below the sync root
  faults     \* faults so far

folderVars == <<local, stamp, edits>>
loopVars == <<event, pending, quiet, due>>
passVars == <<pc, since, seen, todo>>
clientVars == <<folderVars, loopVars, passVars, server, faults>>

ClientTypeOK ==
  /\ local \in [Paths -> Entries] /\ server \in [Paths -> Entries]
  /\ stamp \in [Paths -> 0..MaxEdits] /\ edits \in 0..MaxEdits /\ since \in 0..MaxEdits
  /\ {event, pending, quiet, due} \subseteq BOOLEAN
  /\ pc \in {"idle", "manifest", "diff", "apply"}
  /\ seen \in [DOMAIN seen -> [entry : Entries \ {Absent}, stamp : 0..MaxEdits]]
  /\ DOMAIN seen \subseteq Paths
  /\ todo \subseteq [verb : Verbs, path : Paths]
  /\ faults \in 0..MaxFaults

-----------------------------------------------------------------------------
ParentOf(p) == Front(p)
(* q is p or below p. *)
Within(p, q) == IsPrefix(p, q)

(* A change of p: what was below a directory goes with it. *)
Put(t, p, v) ==
  [q \in Paths |-> IF q = p THEN v ELSE IF Within(p, q) THEN Absent ELSE t[q]]

(* The user changes the folder at any time, also while a pass runs. *)
Edit(p, v) ==
  /\ edits < MaxEdits
  /\ v # local[p]
  /\ Len(p) > 1 => local[ParentOf(p)] = Dir
  /\ edits' = edits + 1
  /\ local' = Put(local, p, v)
  /\ stamp' = [q \in Paths |-> IF Within(p, q) THEN edits + 1 ELSE stamp[q]]
  /\ event' = TRUE
  /\ UNCHANGED <<pending, quiet, due, passVars, server, faults>>

(* The observer thread reports activity: WatchLoop.notify marks the trigger.*)
Notify ==
  /\ event
  /\ event' = FALSE
  /\ pending' = TRUE
  /\ quiet' = FALSE
  /\ UNCHANGED <<folderVars, due, passVars, server, faults>>

(* The operating system loses the event. *)
MissEvent ==
  /\ event /\ faults < MaxFaults
  /\ event' = FALSE
  /\ faults' = faults + 1
  /\ UNCHANGED <<folderVars, pending, quiet, due, passVars, server>>

(* Time passes between two polls. *)
BecomeQuiet ==
  /\ pending /\ ~quiet
  /\ quiet' = TRUE
  /\ UNCHANGED <<folderVars, event, pending, due, passVars, server, faults>>

BecomeDue ==
  /\ pc = "idle"
  /\ due' = TRUE
  /\ UNCHANGED <<folderVars, event, pending, quiet, passVars, server, faults>>

-----------------------------------------------------------------------------
(* A pass. *)

(* Wrong variant: only activity starts a pass. *)
TickOnActivity ==
  /\ pc = "idle"
  /\ pending /\ quiet
  /\ pending' = FALSE /\ due' = FALSE
  /\ pc' = "manifest" /\ since' = edits /\ seen' = <<>> /\ todo' = {}
  /\ UNCHANGED <<folderVars, event, quiet, server, faults>>

(* WatchLoop.tick: the trigger is consumed before the pass begins, so that  *)
(* activity during the pass arms it again.                                  *)
Tick ==
  /\ pc = "idle"
  /\ (pending /\ quiet) \/ due
  /\ pending' = FALSE /\ due' = FALSE
  /\ pc' = "manifest" /\ since' = edits /\ seen' = <<>> /\ todo' = {}
  /\ UNCHANGED <<folderVars, event, quiet, server, faults>>

(* SyncRunner.run_once: whatever is raised ends the pass and is logged. *)
EndPass ==
  /\ pc' = "idle" /\ since' = 0 /\ seen' = <<>> /\ todo' = {}
  /\ UNCHANGED <<folderVars, loopVars>>

(* build_manifest walks the folder top down, a path at a time.  A file that *)
(* changes while it is hashed ends the pass.                                *)
Walked(p) == seen # <<>> /\ p \in DOMAIN seen

ToWalk == {p \in Paths : /\ local[p] # Absent /\ ~Walked(p)
                         /\ Len(p) > 1 => Walked(ParentOf(p)) /\ seen[ParentOf(p)].entry = Dir}

WalkOne(p) ==
  /\ pc = "manifest"
  /\ p \in ToWalk
  /\ seen' = [q \in {p} \cup DOMAIN seen |->
                IF q = p THEN [entry |-> local[p], stamp |-> stamp[p]] ELSE seen[q]]
  /\ UNCHANGED <<folderVars, loopVars, pc, since, todo, server, faults>>

HashChanged ==
  /\ pc = "manifest" /\ edits > since
  /\ \E p \in Paths : stamp[p] > since /\ local[p] \in Contents
  /\ EndPass
  /\ UNCHANGED <<server, faults>>

(* Entries that vanish before they are reached are simply not listed; those *)
(* that appear where the walk has been may be missed.                       *)
EndWalk ==
  /\ pc = "manifest"
  /\ \A p \in ToWalk : stamp[p] > since
  /\ pc' = "diff"
  /\ UNCHANGED <<folderVars, loopVars, since, seen, todo, server, faults>>

(* views.diff, for one entry of the manifest and for the rest. *)
Listed(p) == p \in DOMAIN seen

IsDirEntry(e) == e = Dir

PlanFor(p) ==
  LET mine == seen[p].entry
      theirs == server[p]
  IN CASE theirs = Absent -> IF IsDirEntry(mine) THEN {"mkdir"} ELSE {"upload"}
       [] theirs # Absent /\ IsDirEntry(mine) # IsDirEntry(theirs) -> {"conflict"}
       [] theirs # mine /\ ~IsDirEntry(mine) /\ ~IsDirEntry(theirs) -> {"update"}
       [] OTHER -> {}

(* Wrong variant: a path is missing when its file is not listed with the    *)
(* content.                                                                 *)
MissingOrOther ==
  LET missing == {p \in Paths : server[p] # Absent
                                /\ ~(Listed(p) /\ seen[p].entry = server[p])}
  IN {p \in missing : \A q \in missing \ {p} : ~Within(q, p)}

(* What the server has and the manifest has not, the topmost paths only.    *)
Missing ==
  LET missing == {p \in Paths : server[p] # Absent /\ ~Listed(p)}
  IN {p \in missing : \A q \in missing \ {p} : ~Within(q, p)}

Diff ==
  /\ pc = "diff"
  /\ pc' = "apply"
  /\ todo' = {a \in [verb : Verbs, path : Paths] :
                 \/ Listed(a.path) /\ a.verb \in PlanFor(a.path)
                 \/ a.verb = "delete" /\ a.path \in Missing}
  /\ UNCHANGED <<folderVars, loopVars, since, seen, server, faults>>

(* run_sync applies directories first, then files, conflicts and deletions, *)
(* each from the top down; deletions and conflicts may change nothing.      *)
Rank(a) == CASE a.verb = "mkdir" -> 0 [] a.verb \in {"upload", "update"} -> 1
             [] a.verb = "conflict" -> 2 [] OTHER -> 3

Turn(a) == /\ pc = "apply" /\ a \in todo
           /\ \A b \in todo : \/ Rank(b) > Rank(a)
                              \/ Rank(b) = Rank(a) /\ Len(b.path) >= Len(a.path)

(* The server makes the directories above p; a file in the way is an error. *)
Accepts(p) == \A q \in Paths : Within(q, p) /\ q # p => server[q] \in {Dir, Absent}

WithParents(p, v) ==
  [q \in Paths |-> IF q = p THEN v ELSE IF Within(q, p) THEN Dir ELSE server[q]]

(* _verify_file_unchanged raises out of the loop: the pass is over.         *)
Stale(a) ==
  /\ a.verb \in {"upload", "update"}
  /\ local[a.path] \notin Contents \/ stamp[a.path] # seen[a.path].stamp

Applied(a) ==
  CASE a.verb = "mkdir" /\ Accepts(a.path) /\ server[a.path] \in {Dir, Absent}
         -> WithParents(a.path, Dir)
    [] a.verb \in {"upload", "update"} /\ Accepts(a.path) /\ server[a.path] # Dir
         -> WithParents(a.path, local[a.path])
    [] a.verb = "delete" /\ AllowDelete -> Put(server, a.path, Absent)
    [] OTHER -> server

Apply(a) ==
  /\ Turn(a)
  /\ ~Stale(a)
  /\ server' = Applied(a)
  /\ todo' = todo \ {a}
  /\ UNCHANGED <<folderVars, loopVars, pc, since, seen, faults>>

AbortPass(a) ==
  /\ Turn(a) /\ Stale(a)
  /\ EndPass
  /\ UNCHANGED <<server, faults>>

(* A call that fails, before or after the server has done it: the loop goes *)
(* on to the next action.                                                   *)
FailCall(a) ==
  /\ Turn(a) /\ ~Stale(a)
  /\ faults < MaxFaults
  /\ faults' = faults + 1
  /\ server' \in {server, Applied(a)}
  /\ todo' = todo \ {a}
  /\ UNCHANGED <<folderVars, loopVars, pc, since, seen>>

FailDiff ==
  /\ pc = "diff" /\ faults < MaxFaults
  /\ faults' = faults + 1
  /\ EndPass
  /\ UNCHANGED server

(* The confirmation only logs. *)
Confirm ==
  /\ pc = "apply" /\ todo = {}
  /\ EndPass
  /\ UNCHANGED <<server, faults>>

-----------------------------------------------------------------------------
ClientInit ==
  /\ local = [p \in Paths |-> Absent] /\ server = local
  /\ stamp = [p \in Paths |-> 0] /\ edits = 0
  /\ event = FALSE /\ pending = FALSE /\ quiet = FALSE /\ due = TRUE
  /\ pc = "idle" /\ since = 0 /\ seen = <<>> /\ todo = {}
  /\ faults = 0

Watching == Notify \/ BecomeQuiet \/ BecomeDue

Passing ==
  \/ Tick \/ EndWalk \/ Diff \/ Confirm
  \/ \E p \in Paths : WalkOne(p)
  \/ \E a \in todo : Apply(a) \/ AbortPass(a)

Mishap == MissEvent \/ HashChanged \/ FailDiff \/ \E a \in todo : FailCall(a)

ClientNext ==
  \/ \E p \in Paths, v \in Entries : Edit(p, v)
  \/ Watching \/ Passing \/ Mishap

(* The loop polls for ever and the clock goes on. *)
ClientFairness == WF_clientVars(Passing) /\ WF_clientVars(BecomeDue) /\ WF_clientVars(Notify)

ClientSafety == ClientInit /\ [][ClientNext]_clientVars

ClientSpec == ClientSafety /\ ClientFairness

-----------------------------------------------------------------------------
(* Properties. *)

(* A file where the server has a directory or the reverse, here or above:   *)
(* the client reports a conflict and leaves it alone.                       *)
Conflicting(p) ==
  \E q \in Paths : /\ Within(q, p)
                   /\ local[q] # Absent /\ server[q] # Absent
                   /\ IsDirEntry(local[q]) # IsDirEntry(server[q])

(* Changes that the watcher missed, that were made during a pass or that a  *)
(* failed call left behind all reach the server in the end.                 *)
Converges ==
  <>[](\A p \in Paths : local[p] = server[p] \/ Conflicting(p))

(* A file that has been in the local folder since before the pass began is  *)
(* never deleted from the server by it, in conflict or not.                 *)
KeepsSteadyFiles ==
  [][\A p \in Paths :
       local[p] # Absent /\ stamp[p] <= since /\ pc = "apply" =>
         (server[p] # Absent => server'[p] # Absent)]_clientVars

=============================================================================
