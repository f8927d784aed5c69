----------------------- MODULE EmbeddingRuntimeChange -----------------------
(***************************************************************************)
(* The command change_embedding_runtime, beside the jobs of                *)
(* DocumentPipeline that go on meanwhile: it prepares a generation, embeds *)
(* every chunk again or skips that, replaces embedding_runtime.json and    *)
(* marks the documents.  File and database are written one after the       *)
(* other, and every process keeps the runtime it has loaded until it is    *)
(* restarted.  An advisory lock admits one change at a time.               *)
(***************************************************************************)
EXTENDS DocumentPipeline

VARIABLES
  change,    \* the running command
  genStatus, \* EmbeddingGeneration.status, by generation
  disturbed  \* documents a change may have left with vectors of two models

changeVars == <<change, genStatus, disturbed>>
docVars == <<pipeVars, changeVars>>

NoChange == [at |-> "none"]
GenStatuses == {"NONE", "PREPARING", "VALIDATED", "EMBEDDING", "READY", "ACTIVE",
                "MAINTENANCE", "RETIRED", "FAILED"}

DocsTypeOK ==
  /\ PipeTypeOK
  /\ genStatus \in [Generations -> GenStatuses]
  /\ change.at \in {"none", "prepared", "embedding", "claimed", "stored", "ready", "installed"}
  /\ disturbed \subseteq Docs

(* Parsed documents with AI processing on, as the command filters them.     *)
Targets == {d \in Docs : parse[d].status = "COMPLETED" /\ file[d].ai /\ Present(d) # {}}

Rows(D) == UNION {{[doc |-> d, gen |-> parse[d].gen, i |-> i] : i \in Present(d)} : d \in D}

Exists(c) == c.gen = parse[c.doc].gen /\ c.i \in Present(c.doc)

Marked(D, g) == [d \in Docs |-> IF d \in D THEN [parse[d] EXCEPT !.marker = g] ELSE parse[d]]

IsNextGen(g) ==
  genStatus[g] = "NONE" /\ \A h \in Generations : genStatus[h] = "NONE" => g <= h

SetGen(s) == genStatus' = [genStatus EXCEPT ![change.gen] = s]

EndChange == change' = NoChange

(* What the change leaves undone may surface later.                         *)
DisturbAll(D) == disturbed' = disturbed \cup {d \in D : Present(d) # {}}

-----------------------------------------------------------------------------
(* The contract of the new generation is written, its row created, and the  *)
(* chunks are counted.                                                      *)
PrepareGeneration ==
  /\ change = NoChange
  /\ Spend("changes")
  /\ \E g \in Generations :
       /\ IsNextGen(g)
       /\ change' = [at |-> "prepared", gen |-> g, before |-> active,
                     expected |-> Cardinality(Rows(Targets)), done |-> 0, failed |-> 0,
                     todo |-> {}, now |-> {}, skip |-> FALSE]
       /\ genStatus' = [genStatus EXCEPT ![g] = "PREPARING"]
  /\ UNCHANGED <<rowVars, jobVars, scanVars, active, loaded, missed, disturbed>>

(* Without --activate the provider is only tried.                           *)
ValidateOnly ==
  /\ change.at = "prepared"
  /\ SetGen("VALIDATED")
  /\ EndChange
  /\ UNCHANGED <<pipeVars, disturbed>>

ProbeFails ==
  /\ change.at = "prepared"
  /\ Spend("faults")
  /\ SetGen("FAILED")
  /\ EndChange
  /\ UNCHANGED <<rowVars, jobVars, scanVars, active, loaded, missed, disturbed>>

(* The documents lose their marker, and the chunks there are now are        *)
(* embedded one after the other.                                            *)
StartReembedding ==
  /\ change.at = "prepared"
  /\ parse' = Marked(Targets, Blank)
  /\ genStatus' = [g \in Generations |->
                     CASE g = change.gen -> "EMBEDDING"
                       [] g = change.before /\ genStatus[g] = "ACTIVE" -> "MAINTENANCE"
                       [] OTHER -> genStatus[g]]
  /\ change' = [change EXCEPT !.at = "embedding", !.todo = Rows(Targets)]
  /\ UNCHANGED <<file, chunk, jobVars, scanVars, active, loaded, left, missed, disturbed>>

(* Each chunk takes three statements, each a transaction of its own:        *)
(* PROCESSING, the vector, COMPLETED.                                       *)
ClaimChunk(c) ==
  /\ change.at = "embedding" /\ c \in change.todo
  /\ chunk' = IF Exists(c) THEN WithStatus(chunk, c.doc, {c.i}, "PROCESSING") ELSE chunk
  /\ change' = [change EXCEPT !.at = "claimed", !.todo = @ \ {c}, !.now = {c}]
  /\ UNCHANGED <<file, parse, jobVars, scanVars, active, loaded, left, missed,
                 genStatus, disturbed>>

(* Wrong variant of StoreChunk: the vector is made by the runtime the       *)
(* process has cached.                                                      *)
StoreChunkOfCached ==
  /\ change.at = "claimed"
  /\ \A c \in change.now : Exists(c) /\ chunk' = [chunk EXCEPT ![c.doc][c.i].vec = loaded.app]
  /\ change' = [change EXCEPT !.at = "stored"]
  /\ UNCHANGED <<file, parse, jobVars, scanVars, active, loaded, left, missed,
                 genStatus, disturbed>>

StoreChunk ==
  /\ change.at = "claimed"
  /\ \A c \in change.now : Exists(c) /\ chunk' = [chunk EXCEPT ![c.doc][c.i].vec = change.gen]
  /\ change' = [change EXCEPT !.at = "stored"]
  /\ UNCHANGED <<file, parse, jobVars, scanVars, active, loaded, left, missed,
                 genStatus, disturbed>>

CompleteChunk ==
  /\ change.at = "stored"
  /\ \A c \in change.now :
       chunk' = IF Exists(c) THEN WithStatus(chunk, c.doc, {c.i}, "COMPLETED") ELSE chunk
  /\ change' = [change EXCEPT !.at = "embedding", !.now = {}, !.done = @ + 1]
  /\ UNCHANGED <<file, parse, jobVars, scanVars, active, loaded, left, missed,
                 genStatus, disturbed>>

(* The model fails on a chunk: it is marked and the loop goes on.           *)
ChunkFails ==
  /\ change.at = "claimed"
  /\ Spend("faults")
  /\ \A c \in change.now :
       Exists(c) /\ chunk' = [chunk EXCEPT ![c.doc][c.i].status = "FAILED", ![c.doc][c.i].vec = Blank]
  /\ change' = [change EXCEPT !.at = "embedding", !.now = {}, !.failed = @ + 1]
  /\ UNCHANGED <<file, parse, jobVars, scanVars, active, loaded, missed, genStatus, disturbed>>

(* The command dies: a crash, or a chunk that has been deleted, to which    *)
(* neither a vector nor a failure can be attached.                          *)
ChangeDies ==
  /\ change # NoChange
  /\ \/ Spend("faults")
     \/ change.at = "claimed" /\ (\E c \in change.now : ~Exists(c)) /\ UNCHANGED left
  /\ EndChange
  /\ DisturbAll(Docs)
  /\ UNCHANGED <<rowVars, jobVars, scanVars, active, loaded, missed, genStatus>>

(* Wrong variant of Covered: failures are reported and nothing more.        *)
CoveredOrNot ==
  /\ change.at = "embedding" /\ change.todo = {}
  /\ SetGen("READY")
  /\ change' = [change EXCEPT !.at = "ready"]
  /\ UNCHANGED <<pipeVars, disturbed>>

Covered ==
  /\ change.at = "embedding" /\ change.todo = {}
  /\ change.failed = 0 /\ change.done = change.expected
  /\ SetGen("READY")
  /\ change' = [change EXCEPT !.at = "ready"]
  /\ UNCHANGED <<pipeVars, disturbed>>

NotCovered ==
  /\ change.at = "embedding" /\ change.todo = {}
  /\ change.failed # 0 \/ change.done # change.expected
  /\ SetGen("FAILED")
  /\ EndChange
  /\ DisturbAll(Docs)
  /\ UNCHANGED pipeVars

(* commit_active_embedding_runtime replaces the file; with --skip-reembed   *)
(* it comes right after the probe.                                          *)
InstallRuntime ==
  /\ change.at \in {"prepared", "ready"}
  /\ active' = change.gen
  /\ change' = [change EXCEPT !.at = "installed", !.skip = change.at = "prepared"]
  /\ UNCHANGED <<rowVars, jobVars, scanVars, loaded, left, missed, genStatus, disturbed>>

(* The transaction after it: documents that are targets by now get the      *)
(* marker of the new generation, or none if nothing was embedded.           *)
Activate ==
  /\ change.at = "installed"
  /\ parse' = Marked(Targets, IF change.skip THEN Blank ELSE change.gen)
  /\ genStatus' = [g \in Generations |->
                     CASE g = change.gen -> "ACTIVE"
                       [] genStatus[g] = "NONE" -> "NONE"
                       [] OTHER -> "RETIRED"]
  /\ DisturbAll(Docs \ IF change.skip THEN {} ELSE Targets)
  /\ EndChange
  /\ UNCHANGED <<file, chunk, jobVars, scanVars, active, loaded, left, missed>>

(* The operator restarts a container, as the command asks for; a batch that *)
(* runs in it is lost like in a crash.                                      *)
Restart(p) ==
  /\ loaded[p] # active
  /\ loaded' = [loaded EXCEPT ![p] = active]
  /\ run' = [d \in Docs |-> IF p = "executor" /\ run[d].kind = "batch"
                            THEN [kind |-> "orphan"] ELSE run[d]]
  /\ UNCHANGED <<rowVars, queue, scanVars, active, left, missed, changeVars>>

-----------------------------------------------------------------------------
DocInit ==
  /\ PipeInit
  /\ change = NoChange
  /\ genStatus = [g \in Generations |-> IF g = 0 THEN "ACTIVE" ELSE "NONE"]
  /\ disturbed = {}

(* No change is under way and every process runs the installed model.       *)
Settled == change = NoChange /\ \A p \in DOMAIN loaded : loaded[p] = active

(* A document is disturbed by what is written while a change is under way   *)
(* or a process still runs the old model, and no longer when all its        *)
(* chunks are new.                                                          *)
Disturb ==
  disturbed' =
    {d \in Docs :
       \/ d \in disturbed /\ ~(Settled /\ parse'[d].gen # parse[d].gen)
       \/ /\ ~Settled
          /\ \/ run[d] # Free \/ file'[d] # file[d]
             \/ chunk'[d] # chunk[d] \/ parse'[d] # parse[d]}

ChangeStep ==
  \/ ValidateOnly \/ ProbeFails \/ StartReembedding
  \/ (\E c \in change.todo : ClaimChunk(c))
  \/ StoreChunk \/ CompleteChunk \/ ChunkFails \/ ChangeDies \/ Covered \/ NotCovered
  \/ InstallRuntime \/ Activate

DocNext ==
  \/ PipeNext /\ Disturb /\ UNCHANGED <<change, genStatus>>
  \/ change # NoChange /\ ChangeStep
  \/ PrepareGeneration
  \/ \E p \in DOMAIN loaded : Restart(p)

DocSpec == DocInit /\ [][DocNext]_docVars

-----------------------------------------------------------------------------
(* Properties. *)

(* What the repair scan cannot see is a new version whose parse job came to *)
(* nothing and a stored chunk that the scan itself took back to PENDING;    *)
(* without a change of the runtime nothing else is left behind, whatever    *)
(* fails, crashes or is retried in whatever order.                          *)
LeftBehindOnlyIfMissed ==
  (\A g \in Generations \ {0} : genStatus[g] = "NONE") =>
    \A d \in Docs \ missed : Unattended(d) => Repairable(d)

(* Once a change is over and every process has been restarted, search       *)
(* compares the query with vectors of its own model only; the marker of a   *)
(* document says so.  It says so wrongly only if the pipeline worked on the *)
(* document while the change was under way or before the restart, if the    *)
(* document was not among those the change embeds (AI processing off, the   *)
(* last parse failed), or if a change was broken off or skipped embedding.  *)
MixedOnlyIfDisturbed ==
  Settled =>
    \A d \in Docs \ disturbed : \A i \in Present(d) :
      Searched(d, i) => chunk[d][i].vec = active

(* "Re-embed in place and activate after complete corpus coverage"          *)
(* (change_embedding_runtime.py:69): every document that gets the marker of *)
(* the generation has been embedded by it, all of it, but for documents the *)
(* pipeline worked on during the change.                                    *)
ActivationCovers ==
  [][\A d \in Docs \ disturbed :
       change.at = "installed" /\ change' = NoChange /\ genStatus' # genStatus
         /\ parse'[d].marker # Blank /\ d \in Targets =>
       \A i \in Present(d) : /\ chunk[d][i].status = "COMPLETED"
                             /\ chunk[d][i].vec = parse'[d].marker]_docVars

=============================================================================
