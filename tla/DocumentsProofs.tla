--------------------------- MODULE DocumentsProofs ---------------------------
(***************************************************************************)
(* What is proved of the documents and of the change of their runtime: the *)
(* types; that a document is left behind only where the repair scan cannot *)
(* see it; that search compares vectors of one model, and that a change    *)
(* which is activated covers the corpus, but for disturbed documents.      *)
(*                                                                         *)
(* Two stories meet in the invariant.  As long as no generation has been   *)
(* prepared (OneRuntime), every document is finished, or its work is       *)
(* queued, running or visible to the scan (PipelineInv).  Where a change   *)
(* comes in between, an undisturbed document has vectors of the active     *)
(* generation only, or is being covered by the change (ChangeInv).         *)
(***************************************************************************)
EXTENDS MCDocuments, FiniteSetTheorems, SequenceTheorems, TLAPS

-----------------------------------------------------------------------------
(* The shape of the state, which the types of the runs say in part.         *)

Marks == Generations \cup {Blank}

FileRows == [ver : Nat, open : BOOLEAN, ai : BOOLEAN]
ParseRows == [status : Statuses \ {"PROCESSING"}, ver : Nat, gen : Nat, marker : Marks,
              tries : 0..MaxTries]
ChunkRows == [status : Statuses, vec : Marks, tries : 0..MaxTries]
Orphan == [kind |-> "orphan"]
RunRows == [kind : {"parse", "batch"}, gen : Nat, is : SUBSET Index, ver : Nat, rt : Generations]
        \cup {Free, Orphan}
DocJobs == [kind : {"parse", "plan", "batch"}, doc : Docs, gen : Nat, is : SUBSET Index]
Listed == [doc : Docs, gen : Nat, is : SUBSET Index]
Scans == [at : {"idle", "parse", "embed"}, todo : SUBSET Listed, now : SUBSET Listed,
          sent : SUBSET Listed]
RowIds == [doc : Docs, gen : Nat, i : Index]

Shape ==
  /\ file \in [Docs -> FileRows] /\ parse \in [Docs -> ParseRows]
  /\ chunk \in [Docs -> [Index -> ChunkRows]]
  /\ run \in [Docs -> RunRows]
  /\ IsABag(queue) /\ DOMAIN queue \subseteq DocJobs
  /\ scan \in Scans
  /\ active \in Generations /\ loaded \in [{"app", "executor"} -> Generations]
  /\ missed \subseteq Docs

(* A receipt and a parse are of a version that has been committed.          *)
VersionsKnown ==
  \A d \in Docs :
    /\ parse[d].ver <= file[d].ver
    /\ run[d].kind \in {"parse", "batch"} => run[d].ver <= file[d].ver

InScan == scan.todo \cup scan.now \cup scan.sent

(* What the scan is going to count has an attempt left.                     *)
TriesLeft ==
  /\ \A d \in Docs : parse[d].status = "NONE" => parse[d].tries = 0
  /\ \A t \in InScan :
       /\ scan.at = "parse" => parse[t.doc].tries < MaxTries
       /\ scan.at = "embed" =>
            /\ t.gen <= parse[t.doc].gen
            /\ t.gen = parse[t.doc].gen => \A i \in t.is : chunk[t.doc][i].tries < MaxTries

ChangeShape ==
  /\ genStatus \in [Generations -> GenStatuses] /\ genStatus[0] # "NONE"
  /\ disturbed \subseteq Docs
  /\ \/ change = NoChange
     \/ /\ change = [at |-> change.at, gen |-> change.gen, before |-> change.before,
                     expected |-> change.expected, done |-> change.done,
                     failed |-> change.failed, todo |-> change.todo, now |-> change.now,
                     skip |-> change.skip]
        /\ change.at \in {"prepared", "embedding", "claimed", "stored", "ready", "installed"}
        /\ change.gen \in Generations /\ genStatus[change.gen] # "NONE" /\ change.gen # 0
        /\ change.failed \in Nat /\ change.skip \in BOOLEAN
        /\ change.todo \subseteq RowIds /\ change.now \subseteq RowIds
        /\ change.at \in {"claimed", "stored"} => \E c \in RowIds : change.now = {c}

TypeInv == Shape /\ VersionsKnown /\ TriesLeft /\ ChangeShape

-----------------------------------------------------------------------------
(* As long as there is one runtime.                                         *)

OneRuntime == \A g \in Generations \ {0} : genStatus[g] = "NONE"

(* A document that lacks a row of a chunk has no vector in it either.       *)
Unwritten == \A d \in Docs, i \in Index : chunk[d][i].status = "NONE" => chunk[d][i].vec = Blank

Parsed == \A d \in Docs : parse[d].status = "COMPLETED" => Present(d) = Index

(* The newest version is parsed, about to be, or missed.                    *)
ParseDue ==
  \A d \in Docs \ missed :
    /\ file[d].open => ParseJob(d) \in DOMAIN queue
    /\ parse[d].status = "COMPLETED" /\ parse[d].ver # file[d].ver =>
         \/ ParseJob(d) \in DOMAIN queue
         \/ run[d].kind = "parse" /\ run[d].ver = file[d].ver

(* The first generation is everywhere, a document whose chunks are all      *)
(* there is marked, and a chunk with a vector is COMPLETED.                 *)
FirstOnly ==
  /\ active = 0 /\ loaded.app = 0 /\ loaded.executor = 0 /\ change = NoChange
  /\ \A d \in Docs :
       /\ parse[d].marker \in {Blank, 0}
       /\ Present(d) # {} /\ Present(d) = InStatus(d, "COMPLETED") => parse[d].marker = 0
       /\ d \notin missed =>
            \A i \in Index : chunk[d][i].vec # Blank => chunk[d][i].status = "COMPLETED"

PipelineInv == Unwritten /\ Parsed /\ ParseDue /\ (OneRuntime => FirstOnly)

-----------------------------------------------------------------------------
(* With a change under way or behind.                                       *)

Row(d, i) == [doc |-> d, gen |-> parse[d].gen, i |-> i]

(* Before a change embeds anything the vectors are those of the active      *)
(* generation.                                                              *)
OneModel ==
  change.at \in {"none", "prepared"} =>
    \A d \in Docs \ disturbed, i \in Index : chunk[d][i].vec \in {Blank, active}

(* While it does, what it has not done is still before it, or has failed.   *)
Done(d, i) == chunk[d][i].status = "COMPLETED" /\ chunk[d][i].vec = change.gen

Embedding ==
  \/ change.at \in {"embedding", "claimed", "stored", "ready"}
  \/ change.at = "installed" /\ ~change.skip

CoveredSoFar ==
  change.failed = 0 =>
    \A d \in Targets \ disturbed : \A i \in Present(d) :
      Row(d, i) \in change.todo \cup change.now \/ Done(d, i)

StoredNow ==
  change.at = "stored" =>
    \A c \in change.now : c.doc \notin disturbed /\ Exists(c) =>
      chunk[c.doc][c.i].vec = change.gen

Covering ==
  /\ change.at \in {"prepared", "embedding", "claimed", "stored", "ready"} => ~change.skip
  /\ change.at \in {"prepared", "embedding", "ready", "installed"} => change.now = {}
  /\ change.at = "installed" => active = change.gen
  /\ Embedding =>
       /\ change.at \in {"ready", "installed"} => change.failed = 0 /\ change.todo = {}
       /\ CoveredSoFar /\ StoredNow

ChangeInv == OneModel /\ Covering

DocInv == TypeInv /\ PipelineInv /\ ChangeInv


-----------------------------------------------------------------------------
(* Bags of jobs. *)

(* What is published is in the bag beside what was there.                   *)
LEMMA Published ==
  ASSUME NEW B, IsABag(B), NEW S
  PROVE  IsABag(B (+) SetToBag(S)) /\ DOMAIN (B (+) SetToBag(S)) = DOMAIN B \cup S
BY DEF IsABag, \oplus, SetToBag

(* One message taken may leave another of the same job, and leaves all      *)
(* other jobs.                                                              *)
LEMMA TakenFromBag ==
  ASSUME NEW B, IsABag(B), NEW j
  PROVE  /\ IsABag(B (-) SetToBag({j})) /\ DOMAIN (B (-) SetToBag({j})) \subseteq DOMAIN B
         /\ \A k \in DOMAIN B : k # j => k \in DOMAIN (B (-) SetToBag({j}))
BY DEF IsABag, \ominus, SetToBag

LEMMA NothingQueued == IsABag(EmptyBag) /\ DOMAIN EmptyBag = {}
BY DEF IsABag, EmptyBag, SetToBag

LEMMA JobsDiffer ==
  /\ \A d, e : ParseJob(d) = ParseJob(e) => d = e
  /\ \A d, e : ParseJob(d) # PlanJob(e)
  /\ \A j, d : j.kind # "parse" => j # ParseJob(d)
BY DEF ParseJob, PlanJob, Job

-----------------------------------------------------------------------------
(* What the steps of the pipeline do to the rows of parses and chunks.      *)

RowsKept == parse' = parse /\ chunk' = chunk /\ missed \subseteq missed'

(* A parse that ends stores its chunks, or none.                            *)
Renewed(d) ==
  \E s \in {"COMPLETED", "FAILED"} :
    /\ run[d].kind = "parse" /\ run[d].ver = file[d].ver
    /\ parse' = [parse EXCEPT ![d].status = s, ![d].ver = run[d].ver, ![d].gen = @ + 1]
    /\ chunk' = [chunk EXCEPT ![d] =
                   [i \in Index |->
                      [NoChunk EXCEPT !.status = IF s = "COMPLETED" THEN "PENDING" ELSE "NONE"]]]
    /\ missed \ {d} \subseteq missed'

ParseSet(d) ==
  \E s \in {"FAILED", "PENDING"} :
    /\ parse' = [parse EXCEPT ![d].status = s]
    /\ chunk' = chunk /\ missed' = missed

(* Chunks wait or are claimed again; a stored one among them is missed.     *)
Requeued(d) ==
  \E is \in SUBSET Index, s \in {"PENDING", "PROCESSING"} :
    /\ chunk' = WithStatus(chunk, d, is, s) /\ parse' = parse
    /\ missed \subseteq missed'
    /\ \A i \in is : chunk[d][i].status = "COMPLETED" /\ chunk[d][i].vec # Blank => d \in missed'

RowsMove ==
  \/ RowsKept \/ CountParses \/ CountChunks
  \/ \E d \in Docs : \/ Renewed(d) \/ ParseSet(d) \/ Requeued(d) \/ RetryEmbedding(d)
                     \/ CommitBatch(d) \/ \E i \in Index : FailChunk(d, i)

LEMMA StatusSet ==
  ASSUME Shape, NEW d \in Docs, NEW is, NEW s \in Statuses
  PROVE  /\ WithStatus(chunk, d, is, s) \in [Docs -> [Index -> ChunkRows]]
         /\ \A e \in Docs \ {d} : WithStatus(chunk, d, is, s)[e] = chunk[e]
         /\ \A i \in Index :
              /\ WithStatus(chunk, d, is, s)[d][i].vec = chunk[d][i].vec
              /\ WithStatus(chunk, d, is, s)[d][i].tries = chunk[d][i].tries
              /\ WithStatus(chunk, d, is, s)[d][i].status = IF i \in is THEN s ELSE chunk[d][i].status
              /\ i \notin is => WithStatus(chunk, d, is, s)[d][i] = chunk[d][i]
<1>1. \A i \in Index : chunk[d][i] \in ChunkRows
  BY DEF Shape
<1>2. ASSUME NEW r \in ChunkRows
      PROVE  /\ [r EXCEPT !.status = s] \in ChunkRows /\ [r EXCEPT !.status = s].status = s
             /\ [r EXCEPT !.status = s].vec = r.vec /\ [r EXCEPT !.status = s].tries = r.tries
  BY DEF ChunkRows
<1>3. WithStatus(chunk, d, is, s) =
        [chunk EXCEPT ![d] = [i \in Index |-> IF i \in is THEN [chunk[d][i] EXCEPT !.status = s]
                                              ELSE chunk[d][i]]]
  BY DEF WithStatus
<1>4. chunk \in [Docs -> [Index -> ChunkRows]]
  BY DEF Shape
<1> QED
  BY <1>1, <1>2, <1>3, <1>4

LEMMA ParseRenewed ==
  ASSUME Shape, NEW d \in Docs, Renewed(d)
  PROVE  /\ parse' \in [Docs -> ParseRows] /\ chunk' \in [Docs -> [Index -> ChunkRows]]
         /\ \A e \in Docs \ {d} : parse'[e] = parse[e] /\ chunk'[e] = chunk[e]
         /\ parse'[d].gen = parse[d].gen + 1 /\ parse'[d].ver = file[d].ver
         /\ parse'[d].status \in {"COMPLETED", "FAILED"}
         /\ parse'[d].marker = parse[d].marker /\ parse'[d].tries = parse[d].tries
         /\ \A i \in Index :
              /\ chunk'[d][i].vec = Blank /\ chunk'[d][i].tries = 0
              /\ chunk'[d][i].status = IF parse'[d].status = "COMPLETED" THEN "PENDING" ELSE "NONE"
         /\ missed \ {d} \subseteq missed'
<1>1. PICK s \in {"COMPLETED", "FAILED"} :
        /\ run[d].kind = "parse" /\ run[d].ver = file[d].ver
        /\ parse' = [parse EXCEPT ![d].status = s, ![d].ver = run[d].ver, ![d].gen = @ + 1]
        /\ chunk' = [chunk EXCEPT ![d] =
                       [i \in Index |->
                          [NoChunk EXCEPT !.status = IF s = "COMPLETED" THEN "PENDING" ELSE "NONE"]]]
        /\ missed \ {d} \subseteq missed'
  BY DEF Renewed
<1>2. parse[d] \in ParseRows /\ parse \in [Docs -> ParseRows] /\ file[d].ver \in Nat
  BY DEF Shape, FileRows
<1>3. LET p == [parse[d] EXCEPT !.status = s, !.ver = file[d].ver, !.gen = @ + 1] IN
      /\ p \in ParseRows /\ p.gen = parse[d].gen + 1 /\ p.ver = file[d].ver /\ p.status = s
      /\ p.marker = parse[d].marker /\ p.tries = parse[d].tries
      /\ parse'[d] = p /\ parse' = [parse EXCEPT ![d] = p]
  BY <1>1, <1>2 DEF ParseRows, Statuses
<1>4. LET k == [NoChunk EXCEPT !.status = IF s = "COMPLETED" THEN "PENDING" ELSE "NONE"] IN
      /\ k \in ChunkRows /\ k.vec = Blank /\ k.tries = 0
      /\ k.status = IF s = "COMPLETED" THEN "PENDING" ELSE "NONE"
      /\ chunk' = [chunk EXCEPT ![d] = [i \in Index |-> k]]
  BY <1>1, PipelineAssumption DEF ChunkRows, NoChunk, Statuses, Marks
<1>5. chunk \in [Docs -> [Index -> ChunkRows]]
  BY DEF Shape
<1> QED
  BY <1>1, <1>2, <1>3, <1>4, <1>5

LEMMA ParseStatusSet ==
  ASSUME Shape, NEW d \in Docs, ParseSet(d)
  PROVE  /\ parse' \in [Docs -> ParseRows]
         /\ \A e \in Docs \ {d} : parse'[e] = parse[e]
         /\ parse'[d].status \in {"FAILED", "PENDING"}
         /\ parse'[d].gen = parse[d].gen /\ parse'[d].ver = parse[d].ver
         /\ parse'[d].marker = parse[d].marker /\ parse'[d].tries = parse[d].tries
         /\ chunk' = chunk /\ missed' = missed
<1>1. parse[d] \in ParseRows /\ parse \in [Docs -> ParseRows]
  BY DEF Shape
<1> QED
  BY <1>1 DEF ParseSet, ParseRows, Statuses

LEMMA BatchStored ==
  ASSUME Shape, NEW d \in Docs, CommitBatch(d)
  PROVE  /\ parse' \in [Docs -> ParseRows] /\ chunk' \in [Docs -> [Index -> ChunkRows]]
         /\ \A e \in Docs \ {d} : parse'[e] = parse[e] /\ chunk'[e] = chunk[e]
         /\ parse'[d].status = parse[d].status /\ parse'[d].gen = parse[d].gen
         /\ parse'[d].ver = parse[d].ver /\ parse'[d].tries = parse[d].tries
         /\ parse'[d].marker = IF \A i \in Present(d) : chunk'[d][i].status = "COMPLETED"
                               THEN loaded.executor ELSE parse[d].marker
         /\ \A i \in Index :
              /\ chunk'[d][i].tries = chunk[d][i].tries
              /\ \/ chunk'[d][i] = chunk[d][i]
                 \/ chunk'[d][i].status = "COMPLETED" /\ chunk'[d][i].vec = loaded.executor
         /\ missed' = missed
<1>1. /\ \A i \in Index : chunk[d][i] \in ChunkRows
      /\ chunk \in [Docs -> [Index -> ChunkRows]] /\ parse \in [Docs -> ParseRows]
      /\ loaded.executor \in Marks
  BY DEF Shape, Marks
<1>2. ASSUME NEW r \in ChunkRows
      PROVE  LET k == [r EXCEPT !.status = "COMPLETED", !.vec = loaded.executor] IN
             /\ k \in ChunkRows /\ k.status = "COMPLETED" /\ k.vec = loaded.executor
             /\ k.tries = r.tries
  BY <1>1 DEF ChunkRows, Statuses
<1>3. chunk' = [chunk EXCEPT ![d] =
                  [i \in Index |->
                     IF i \in run[d].is
                     THEN [chunk[d][i] EXCEPT !.status = "COMPLETED", !.vec = loaded.executor]
                     ELSE chunk[d][i]]]
  BY DEF CommitBatch, Embedded
<1>4. /\ chunk' \in [Docs -> [Index -> ChunkRows]]
      /\ \A e \in Docs \ {d} : chunk'[e] = chunk[e]
      /\ \A i \in Index :
           /\ chunk'[d][i].tries = chunk[d][i].tries
           /\ \/ chunk'[d][i] = chunk[d][i]
              \/ chunk'[d][i].status = "COMPLETED" /\ chunk'[d][i].vec = loaded.executor
  BY <1>1, <1>2, <1>3
<1>5. LET p == [parse[d] EXCEPT !.marker = loaded.executor] IN
      /\ p \in ParseRows /\ p.marker = loaded.executor
      /\ p.status = parse[d].status /\ p.gen = parse[d].gen
      /\ p.ver = parse[d].ver /\ p.tries = parse[d].tries
  BY <1>1 DEF ParseRows
<1>6. /\ missed' = missed
      /\ parse' = IF \A i \in Present(d) : chunk'[d][i].status = "COMPLETED"
                  THEN [parse EXCEPT ![d] = [parse[d] EXCEPT !.marker = loaded.executor]]
                  ELSE parse
  BY DEF CommitBatch
<1>7. CASE \A i \in Present(d) : chunk'[d][i].status = "COMPLETED"
  BY <1>1, <1>4, <1>5, <1>6, <1>7
<1>8. CASE ~(\A i \in Present(d) : chunk'[d][i].status = "COMPLETED")
  BY <1>1, <1>4, <1>6, <1>8
<1> QED
  BY <1>7, <1>8

LEMMA ChunkFailed ==
  ASSUME Shape, NEW d \in Docs, NEW i \in Index, FailChunk(d, i)
  PROVE  /\ chunk' \in [Docs -> [Index -> ChunkRows]] /\ parse' = parse /\ missed' = missed
         /\ \A e \in Docs \ {d} : chunk'[e] = chunk[e]
         /\ \A j \in Index \ {i} : chunk'[d][j] = chunk[d][j]
         /\ chunk'[d][i].status = "FAILED" /\ chunk'[d][i].vec = Blank
         /\ chunk'[d][i].tries = chunk[d][i].tries
<1>1. chunk[d][i] \in ChunkRows /\ chunk \in [Docs -> [Index -> ChunkRows]]
  BY DEF Shape
<1>2. LET k == [chunk[d][i] EXCEPT !.status = "FAILED", !.vec = Blank] IN
      /\ k \in ChunkRows /\ k.status = "FAILED" /\ k.vec = Blank /\ k.tries = chunk[d][i].tries
      /\ chunk' = [chunk EXCEPT ![d] = [chunk[d] EXCEPT ![i] = k]]
  BY <1>1 DEF FailChunk, ChunkRows, Statuses, Marks
<1> QED
  BY <1>1, <1>2, SMTT(30) DEF FailChunk

LEMMA ParsesCounted ==
  ASSUME Shape, TriesLeft, CountParses
  PROVE  /\ parse' \in [Docs -> ParseRows] /\ chunk' = chunk /\ missed' = missed
         /\ \A e \in Docs :
              /\ parse'[e].status = parse[e].status /\ parse'[e].gen = parse[e].gen
              /\ parse'[e].ver = parse[e].ver /\ parse'[e].marker = parse[e].marker
              /\ parse[e].status = "NONE" => parse'[e].tries = parse[e].tries
<1>1. scan.at = "parse" /\ parse \in [Docs -> ParseRows] /\ chunk' = chunk /\ missed' = missed
  BY DEF CountParses, Shape
<1>2. \A e \in Docs : (\E t \in scan.sent : t.doc = e) => parse[e].tries < MaxTries
  BY <1>1 DEF TriesLeft, InScan
<1>3. ASSUME NEW r \in ParseRows, r.tries < MaxTries
      PROVE  LET p == [r EXCEPT !.tries = @ + 1] IN
             /\ p \in ParseRows /\ p.status = r.status /\ p.gen = r.gen
             /\ p.ver = r.ver /\ p.marker = r.marker
  BY <1>3, PipelineAssumption DEF ParseRows
<1>4. parse' = [d \in Docs |->
                  IF parse[d].status # "NONE" /\ \E t \in scan.sent : t.doc = d
                  THEN [parse[d] EXCEPT !.tries = @ + 1] ELSE parse[d]]
  BY DEF CountParses
<1> QED
  BY <1>1, <1>2, <1>3, <1>4

LEMMA ChunksCounted ==
  ASSUME Shape, TriesLeft, CountChunks
  PROVE  /\ chunk' \in [Docs -> [Index -> ChunkRows]] /\ parse' = parse /\ missed' = missed
         /\ \A e \in Docs, i \in Index :
              chunk'[e][i].status = chunk[e][i].status /\ chunk'[e][i].vec = chunk[e][i].vec
<1>1. /\ scan.at = "embed" /\ chunk \in [Docs -> [Index -> ChunkRows]]
      /\ parse' = parse /\ missed' = missed
  BY DEF CountChunks, Shape
<1>2. \A e \in Docs, i \in Index :
        (\E t \in scan.sent : t.doc = e /\ i \in StillThere(t)) => chunk[e][i].tries < MaxTries
  BY <1>1 DEF TriesLeft, InScan, StillThere
<1>3. ASSUME NEW r \in ChunkRows, r.tries < MaxTries
      PROVE  LET k == [r EXCEPT !.tries = @ + 1] IN
             k \in ChunkRows /\ k.status = r.status /\ k.vec = r.vec
  BY <1>3, PipelineAssumption DEF ChunkRows
<1>4. chunk' = [d \in Docs |-> [i \in Index |->
                  IF \E t \in scan.sent : t.doc = d /\ i \in StillThere(t)
                  THEN [chunk[d][i] EXCEPT !.tries = @ + 1] ELSE chunk[d][i]]]
  BY DEF CountChunks
<1>5. \A e \in Docs, i \in Index : chunk[e][i] \in ChunkRows
  BY <1>1
<1>6. ASSUME NEW e \in Docs, NEW i \in Index
      PROVE  /\ chunk'[e][i] \in ChunkRows /\ chunk'[e][i].status = chunk[e][i].status
             /\ chunk'[e][i].vec = chunk[e][i].vec
  <2>1. CASE \E t \in scan.sent : t.doc = e /\ i \in StillThere(t)
    BY <1>2, <1>3, <1>4, <1>5, <2>1
  <2>2. CASE ~(\E t \in scan.sent : t.doc = e /\ i \in StillThere(t))
    BY <1>4, <1>5, <2>2
  <2> QED
    BY <2>1, <2>2
<1>7. chunk' \in [Docs -> [Index -> ChunkRows]]
  BY <1>4, <1>6
<1> QED
  BY <1>1, <1>6, <1>7

(* The retry of a document that failed clears its mark.  Unless its vectors *)
(* are of another generation it takes back no chunk that is COMPLETED, and  *)
(* there is one that is not.                                                *)
LEMMA EmbeddingRetried ==
  ASSUME Shape, NEW d \in Docs, RetryEmbedding(d)
  PROVE  /\ parse' \in [Docs -> ParseRows] /\ chunk' \in [Docs -> [Index -> ChunkRows]]
         /\ \A e \in Docs \ {d} : parse'[e] = parse[e] /\ chunk'[e] = chunk[e]
         /\ parse'[d].status = "COMPLETED" /\ parse[d].status = "COMPLETED"
         /\ parse'[d].gen = parse[d].gen /\ parse'[d].ver = parse[d].ver
         /\ parse'[d].marker = Blank /\ parse'[d].tries = parse[d].tries
         /\ \A i \in Index :
              /\ chunk'[d][i].vec = chunk[d][i].vec /\ chunk'[d][i].tries = chunk[d][i].tries
              /\ chunk'[d][i].status \in {chunk[d][i].status, "PENDING"}
         /\ parse[d].marker \in {Blank, loaded.app} =>
              /\ \A i \in Index :
                   chunk[d][i].status = "COMPLETED" => chunk'[d][i].status = "COMPLETED"
              /\ \E i \in Index : chunk'[d][i].status = "PENDING"
         /\ missed' = missed
<1> DEFINE is == {i \in Present(d) : EmbeddingStatus(d).contract = "stale_contract"
                                     \/ chunk[d][i].status # "COMPLETED"}
<1>1. /\ chunk' = WithStatus(chunk, d, is, "PENDING")
      /\ parse' = [parse EXCEPT ![d].marker = Blank]
      /\ parse[d].status = "COMPLETED" /\ EmbeddingStatus(d).is = "FAILED" /\ missed' = missed
  BY DEF RetryEmbedding
<1>2. parse \in [Docs -> ParseRows] /\ chunk \in [Docs -> [Index -> ChunkRows]]
  BY DEF Shape
<1>3. LET p == [parse[d] EXCEPT !.marker = Blank] IN
      /\ p \in ParseRows /\ p.marker = Blank /\ p.status = parse[d].status
      /\ p.gen = parse[d].gen /\ p.ver = parse[d].ver /\ p.tries = parse[d].tries
  BY <1>2 DEF ParseRows, Marks
<1>4. /\ chunk' \in [Docs -> [Index -> ChunkRows]]
      /\ \A e \in Docs \ {d} : chunk'[e] = chunk[e]
      /\ \A i \in Index :
           /\ chunk'[d][i].vec = chunk[d][i].vec /\ chunk'[d][i].tries = chunk[d][i].tries
           /\ chunk'[d][i].status = IF i \in is THEN "PENDING" ELSE chunk[d][i].status
  <2>1. "PENDING" \in Statuses
    BY DEF Statuses
  <2> HIDE DEF is
  <2> QED
    BY <1>1, <2>1, StatusSet
<1>5. ASSUME parse[d].marker \in {Blank, loaded.app}
      PROVE  /\ \A i \in Index :
                   chunk[d][i].status = "COMPLETED" => chunk'[d][i].status = "COMPLETED"
             /\ \E i \in Index : chunk'[d][i].status = "PENDING"
  <2>1. /\ EmbeddingStatus(d).contract # "stale_contract"
        /\ InStatus(d, "FAILED") # {}
    BY <1>1, <1>5 DEF EmbeddingStatus
  <2>2. PICK i \in Present(d) : chunk[d][i].status = "FAILED"
    BY <2>1 DEF InStatus
  <2>3. i \in Index /\ i \in is
    BY <2>2 DEF Present
  <2> QED
    BY <1>4, <2>1, <2>3
<1> QED
  BY <1>1, <1>2, <1>3, <1>4, <1>5

LEMMA KeepsRows ==
  ASSUME Shape, NEW d \in Docs,
         \/ StartUpload(d) \/ CommitUpload(d) \/ SetAI(d) \/ RetryRefused(d)
         \/ RefuseParse(d) \/ BeginParse(d) \/ DiscardParse(d) \/ StaleBatch(d) \/ FailBatch(d)
         \/ CrashExecutor(d) \/ Release(d)
         \/ \E j \in BagToSet(queue) : BeginBatch(j) \/ LoseJob(j)
         \/ StartScan \/ CrashScan \/ \E t \in scan.todo : ScanSkip(t) \/ ScanCheck(t)
  PROVE  RowsKept
BY DEF StartUpload, CommitUpload, SetAI, RetryRefused, RefuseParse, BeginParse, DiscardParse,
       StaleBatch, FailBatch, CrashExecutor, Release, BeginBatch, LoseJob, StartScan, CrashScan,
       ScanSkip, ScanCheck, Missing, rowVars, RowsKept

LEMMA Requeues ==
  ASSUME Shape, NEW d \in Docs, Plan(d) \/ \E j \in BagToSet(queue) : j.doc = d /\ SkipBatch(j)
  PROVE  Requeued(d)
<1>1. CASE Plan(d)
  <2> DEFINE pending == IF file[d].ai THEN InStatus(d, "PENDING") ELSE {}
  <2>1. /\ chunk' = WithStatus(chunk, d, pending, "PROCESSING")
        /\ parse' = parse /\ missed' = missed
    BY <1>1 DEF Plan
  <2>2. pending \subseteq Index /\ \A i \in pending : chunk[d][i].status = "PENDING"
    BY DEF InStatus, Present
  <2> HIDE DEF pending
  <2> QED
    BY <2>1, <2>2 DEF Requeued
<1>2. ASSUME NEW j \in BagToSet(queue), j.doc = d, SkipBatch(j) PROVE Requeued(d)
  <2>1. /\ chunk' = WithStatus(chunk, d, Claimed(j), "PENDING")
        /\ parse' = parse /\ missed' = missed
    BY <1>2 DEF SkipBatch
  <2>2. Claimed(j) \subseteq Index /\ \A i \in Claimed(j) : chunk[d][i].status = "PROCESSING"
    BY <1>2 DEF Claimed, InStatus, Present
  <2> QED
    BY <2>1, <2>2 DEF Requeued
<1> QED
  BY <1>1, <1>2

LEMMA ScanRequeues ==
  ASSUME Shape, NEW t \in scan.now, ScanPublish(t) \/ ScanPublishFails(t)
  PROVE  t \in Listed /\ Requeued(t.doc)
<1>1. t \in Listed /\ t.doc \in Docs /\ StillThere(t) \subseteq Index
  BY DEF Shape, Scans, Listed, StillThere
<1>2. /\ chunk' = WithStatus(chunk, t.doc, StillThere(t), "PENDING") /\ parse' = parse
      /\ Missing(t.doc, \E i \in StillThere(t) : HasStored(t.doc, i))
  BY DEF ScanPublish, ScanPublishFails
<1>3. missed \subseteq missed'
  BY <1>2 DEF Missing
<1>4. \A i \in StillThere(t) : chunk[t.doc][i].vec # Blank => t.doc \in missed'
  BY <1>2 DEF Missing, HasStored
<1> QED
  BY <1>1, <1>2, <1>3, <1>4 DEF Requeued

LEMMA ParseRenews ==
  ASSUME Shape, NEW d \in Docs, PersistParse(d) \/ PersistFailure(d)
  PROVE  Renewed(d)
<1>1. CASE PersistParse(d)
  BY <1>1 DEF PersistParse, Fresh, Renewed, Index
<1>2. CASE PersistFailure(d)
  <2>1. NoChunk = [NoChunk EXCEPT !.status = "NONE"]
    BY DEF NoChunk
  <2> QED
    BY <1>2, <2>1 DEF PersistFailure, Fresh, Renewed
<1> QED
  BY <1>1, <1>2

LEMMA ParseSets ==
  ASSUME Shape, NEW d \in Docs, FailParse(d) \/ RetryParse(d)
  PROVE  ParseSet(d)
BY DEF FailParse, RetryParse, ParseSet

LEMMA PipeMovesRows == ASSUME Shape, PipeNext PROVE RowsMove
<1>1. ASSUME NEW d \in Docs, UserStep(d) PROVE RowsMove
  BY <1>1, KeepsRows, ParseSets DEF UserStep, RowsMove
<1>2. ASSUME NEW d \in Docs, JobStep(d) PROVE RowsMove
  BY <1>2, KeepsRows, ParseRenews, Requeues DEF JobStep, RowsMove
<1>3. ASSUME NEW d \in Docs, JobFault(d) PROVE RowsMove
  BY <1>3, KeepsRows, ParseRenews, ParseSets DEF JobFault, RowsMove
<1>4. CASE ScanStep
  <2>1. ASSUME NEW t \in scan.now, ScanPublish(t) \/ ScanPublishFails(t) PROVE RowsMove
    BY <2>1, ScanRequeues DEF RowsMove, Listed
  <2>2. CASE StartScan \/ CrashScan \/ \E t \in scan.todo : ScanSkip(t) \/ ScanCheck(t)
    BY <2>2 DEF RowsMove, RowsKept, StartScan, CrashScan, ScanSkip, ScanCheck, rowVars
  <2> QED
    BY <1>4, <2>1, <2>2 DEF ScanStep, RowsMove
<1> QED
  BY <1>1, <1>2, <1>3, <1>4 DEF PipeNext

-----------------------------------------------------------------------------
(* The types. *)

LEMMA RowsTyped ==
  ASSUME Shape, TriesLeft, RowsMove
  PROVE  parse' \in [Docs -> ParseRows] /\ chunk' \in [Docs -> [Index -> ChunkRows]]
<1>1. parse \in [Docs -> ParseRows] /\ chunk \in [Docs -> [Index -> ChunkRows]]
  BY DEF Shape
<1>2. CASE RowsKept
  BY <1>1, <1>2 DEF RowsKept
<1>3. CASE CountParses
  BY <1>1, <1>3, ParsesCounted
<1>4. CASE CountChunks
  BY <1>1, <1>4, ChunksCounted
<1>5. ASSUME NEW d \in Docs, Renewed(d)
      PROVE  parse' \in [Docs -> ParseRows] /\ chunk' \in [Docs -> [Index -> ChunkRows]]
  BY <1>5, ParseRenewed
<1>6. ASSUME NEW d \in Docs, ParseSet(d)
      PROVE  parse' \in [Docs -> ParseRows] /\ chunk' \in [Docs -> [Index -> ChunkRows]]
  BY <1>1, <1>6, ParseStatusSet
<1>7. ASSUME NEW d \in Docs, Requeued(d)
      PROVE  parse' \in [Docs -> ParseRows] /\ chunk' \in [Docs -> [Index -> ChunkRows]]
  BY <1>1, <1>7, StatusSet, {"PENDING", "PROCESSING"} \subseteq Statuses DEF Requeued, Statuses
<1>8. ASSUME NEW d \in Docs, RetryEmbedding(d)
      PROVE  parse' \in [Docs -> ParseRows] /\ chunk' \in [Docs -> [Index -> ChunkRows]]
  BY <1>8, EmbeddingRetried
<1>9. ASSUME NEW d \in Docs, CommitBatch(d)
      PROVE  parse' \in [Docs -> ParseRows] /\ chunk' \in [Docs -> [Index -> ChunkRows]]
  BY <1>9, BatchStored
<1>10. ASSUME NEW d \in Docs, NEW i \in Index, FailChunk(d, i)
       PROVE  parse' \in [Docs -> ParseRows] /\ chunk' \in [Docs -> [Index -> ChunkRows]]
  BY <1>1, <1>10, ChunkFailed
<1> QED
  BY <1>2, <1>3, <1>4, <1>5, <1>6, <1>7, <1>8, <1>9, <1>10 DEF RowsMove

LEMMA FilesMove ==
  ASSUME Shape, PipeNext
  PROVE  \/ file' = file
         \/ \E d \in Docs : CommitUpload(d)
         \/ \E d \in Docs, r \in FileRows :
              /\ file' = [file EXCEPT ![d] = r] /\ r.ver = file[d].ver
              /\ r.open = file[d].open \/ StartUpload(d)
<1>1. ASSUME NEW d \in Docs
      PROVE  /\ [file[d] EXCEPT !.open = TRUE] \in FileRows
             /\ [file[d] EXCEPT !.open = TRUE].ver = file[d].ver
             /\ \A b \in BOOLEAN : /\ [file[d] EXCEPT !.ai = b] \in FileRows
                                   /\ [file[d] EXCEPT !.ai = b].ver = file[d].ver
                                   /\ [file[d] EXCEPT !.ai = b].open = file[d].open
  BY DEF Shape, FileRows
<1>2. ASSUME NEW d \in Docs, StartUpload(d)
      PROVE  \E r \in FileRows : /\ file' = [file EXCEPT ![d] = r] /\ r.ver = file[d].ver
                                 /\ r.open = file[d].open \/ StartUpload(d)
  BY <1>1, <1>2 DEF StartUpload
<1>3. ASSUME NEW d \in Docs, SetAI(d) \/ RetryParse(d) \/ RetryEmbedding(d) \/ RetryRefused(d)
      PROVE  \E r \in FileRows : /\ file' = [file EXCEPT ![d] = r] /\ r.ver = file[d].ver
                                 /\ r.open = file[d].open
  <2>1. (~file[d].ai) \in BOOLEAN /\ TRUE \in BOOLEAN
    OBVIOUS
  <2> QED
    BY <1>1, <1>3, <2>1 DEF SetAI, RetryParse, RetryEmbedding, RetryRefused
<1>4. ASSUME NEW d \in Docs, JobStep(d) \/ JobFault(d) PROVE file' = file
  BY <1>4 DEF JobStep, RefuseParse, BeginParse, PersistParse, DiscardParse, Plan, CommitBatch,
       StaleBatch, BeginBatch, SkipBatch, JobFault, PersistFailure, FailParse, FailBatch,
       CrashExecutor, Release, FailChunk, LoseJob, rowVars
<1>5. ASSUME ScanStep PROVE file' = file
  BY <1>5 DEF ScanStep, StartScan, CountParses, CountChunks, CrashScan, ScanSkip, ScanCheck,
       ScanPublish, ScanPublishFails, rowVars
<1> QED
  BY <1>2, <1>3, <1>4, <1>5 DEF PipeNext, UserStep

(* The receipt of a document is begun, kept or ended.                       *)
Begun(d) ==
  \E r \in RunRows : /\ run' = [run EXCEPT ![d] = r] /\ file' = file
                  /\ r.ver = file[d].ver /\ r.kind \in {"parse", "batch"}

Narrowed(d) ==
  \E r \in RunRows : /\ run' = [run EXCEPT ![d] = r] /\ file' = file
                  /\ r.kind = "batch" /\ run[d].kind = "batch" /\ r.ver = run[d].ver

Ended(d) == run' = [run EXCEPT ![d] = Free] \/ run' = [run EXCEPT ![d] = Orphan]

LEMMA RunsMove ==
  ASSUME Shape, PipeNext
  PROVE  run' = run \/ \E d \in Docs : Begun(d) \/ Narrowed(d) \/ Ended(d)
<1>1. ASSUME NEW d \in Docs, UserStep(d) PROVE run' = run
  BY <1>1 DEF UserStep, StartUpload, CommitUpload, SetAI, RetryParse, RetryEmbedding,
       RetryRefused, jobVars
<1>2. ASSUME NEW j, j.doc \in Docs, NEW is \in SUBSET Index, j.kind \in {"parse", "batch"},
             Hold(j, is), file' = file
      PROVE  Begun(j.doc)
  <2> DEFINE r == [kind |-> j.kind, gen |-> parse[j.doc].gen, is |-> is,
                   ver |-> file[j.doc].ver, rt |-> active]
  <2>1. r \in RunRows /\ r.ver = file[j.doc].ver /\ r.kind \in {"parse", "batch"}
    BY <1>2 DEF Shape, RunRows, FileRows, ParseRows
  <2> QED
    BY <1>2, <2>1 DEF Hold, Begun
<1>3. ASSUME NEW d \in Docs, JobStep(d) PROVE run' = run \/ Begun(d) \/ Ended(d)
  <2>1. CASE BeginParse(d)
    <3>1. Hold(ParseJob(d), {}) /\ ParseJob(d).doc = d /\ ParseJob(d).kind = "parse" /\ file' = file
      BY <2>1 DEF BeginParse, ParseJob, Job, rowVars
    <3> QED
      BY <1>2, <3>1
  <2>2. ASSUME NEW j, j.doc = d, BeginBatch(j) PROVE Begun(d)
    <3>1. Hold(j, Claimed(j)) /\ j.kind = "batch" /\ file' = file /\ Claimed(j) \subseteq Index
      BY <2>2 DEF BeginBatch, rowVars, Claimed, InStatus, Present
    <3> QED
      BY <1>2, <2>2, <3>1
  <2>3. CASE PersistParse(d) \/ DiscardParse(d) \/ CommitBatch(d) \/ StaleBatch(d)
    BY <2>3 DEF PersistParse, DiscardParse, CommitBatch, StaleBatch, Settle, Ended
  <2>4. CASE RefuseParse(d) \/ Plan(d) \/ \E j \in BagToSet(queue) : SkipBatch(j)
    BY <2>4 DEF RefuseParse, Plan, SkipBatch
  <2> QED
    BY <1>3, <2>1, <2>2, <2>3, <2>4 DEF JobStep
<1>4. ASSUME NEW d \in Docs, JobFault(d) PROVE run' = run \/ Narrowed(d) \/ Ended(d)
  <2>1. ASSUME NEW i \in Index, FailChunk(d, i) PROVE Narrowed(d) \/ Ended(d)
    <3>1. CASE run[d].is = {i}
      BY <2>1, <3>1 DEF FailChunk, Ended
    <3>2. CASE run[d].is # {i}
      <4> DEFINE r == [run[d] EXCEPT !.is = @ \ {i}]
      <4>1. run[d] \in RunRows /\ run[d].kind = "batch"
        BY <2>1 DEF FailChunk, Shape
      <4>2. run[d] \in [kind : {"parse", "batch"}, gen : Nat, is : SUBSET Index, ver : Nat,
                        rt : Generations]
        BY <4>1 DEF RunRows, Free, Orphan
      <4>3. r \in RunRows /\ r.kind = "batch" /\ r.ver = run[d].ver
        BY <4>1, <4>2 DEF RunRows
      <4>4. run' = [run EXCEPT ![d] = r] /\ file' = file
        BY <2>1, <3>2 DEF FailChunk
      <4> QED
        BY <4>1, <4>3, <4>4 DEF Narrowed
    <3> QED
      BY <3>1, <3>2
  <2>2. CASE PersistFailure(d) \/ FailParse(d) \/ FailBatch(d) \/ CrashExecutor(d) \/ Release(d)
    BY <2>2 DEF PersistFailure, FailParse, FailBatch, CrashExecutor, Release, Settle, Ended, Orphan
  <2>3. ASSUME NEW j \in BagToSet(queue), LoseJob(j) PROVE run' = run
    BY <2>3 DEF LoseJob
  <2> QED
    BY <1>4, <2>1, <2>2, <2>3 DEF JobFault
<1>5. ASSUME ScanStep PROVE run' = run
  BY <1>5 DEF ScanStep, StartScan, CountParses, CountChunks, CrashScan, ScanSkip, ScanCheck,
       ScanPublish, ScanPublishFails, jobVars
<1> QED
  BY <1>1, <1>3, <1>4, <1>5 DEF PipeNext

(* A published parse leaves the queue in three ways only.                   *)
ParseTaken(d) == RefuseParse(d) \/ BeginParse(d) \/ LoseJob(ParseJob(d))

Keeps(jobs) == \A d \in Docs : ParseJob(d) \in jobs => ParseJob(d) \in DOMAIN queue' \/ ParseTaken(d)

QueueTyped == IsABag(queue') /\ DOMAIN queue' \subseteq DocJobs

LEMMA Publishes ==
  ASSUME Shape, NEW jobs \in SUBSET DocJobs, Publish(jobs)
  PROVE  /\ QueueTyped /\ Keeps(DOMAIN queue)
         /\ DOMAIN queue' = DOMAIN queue \cup jobs
<1>1. IsABag(queue) /\ DOMAIN queue \subseteq DocJobs /\ queue' = queue (+) SetToBag(jobs)
  BY DEF Publish, Shape
<1>2. IsABag(queue') /\ DOMAIN queue' = DOMAIN queue \cup jobs
  BY <1>1, Published
<1> QED
  BY <1>1, <1>2 DEF QueueTyped, Keeps

LEMMA Takes ==
  ASSUME Shape, NEW j, queue' = Taken(j),
         j.kind = "parse" => \E d \in Docs : j = ParseJob(d) /\ ParseTaken(d)
  PROVE  QueueTyped /\ Keeps(DOMAIN queue)
<1>1. /\ IsABag(queue') /\ DOMAIN queue' \subseteq DOMAIN queue
      /\ \A k \in DOMAIN queue : k # j => k \in DOMAIN queue'
  BY TakenFromBag DEF Taken, Shape
<1>2. \A d \in Docs : ParseJob(d) = j => ParseTaken(d)
  BY JobsDiffer
<1> QED
  BY <1>1, <1>2 DEF QueueTyped, Keeps, Shape

LEMMA QueuesMove == ASSUME Shape, PipeNext PROVE QueueTyped /\ Keeps(DOMAIN queue)
<1>1. \A d \in Docs : /\ {ParseJob(d)} \in SUBSET DocJobs /\ {PlanJob(d)} \in SUBSET DocJobs
                      /\ ParseJob(d).kind = "parse" /\ PlanJob(d).kind = "plan"
  BY DEF ParseJob, PlanJob, Job, DocJobs
<1>2. queue' = queue => QueueTyped /\ Keeps(DOMAIN queue)
  BY DEF QueueTyped, Keeps, Shape
<1>3. ASSUME NEW d \in Docs, UserStep(d) PROVE QueueTyped /\ Keeps(DOMAIN queue)
  <2>1. CASE StartUpload(d) \/ RetryParse(d) \/ RetryEmbedding(d)
    BY <1>1, <2>1, Publishes DEF StartUpload, RetryParse, RetryEmbedding
  <2>2. CASE CommitUpload(d) \/ SetAI(d) \/ RetryRefused(d)
    BY <1>2, <2>2 DEF CommitUpload, SetAI, RetryRefused, jobVars
  <2> QED
    BY <1>3, <2>1, <2>2 DEF UserStep
<1>4. ASSUME NEW d \in Docs, JobStep(d) PROVE QueueTyped /\ Keeps(DOMAIN queue)
  <2>1. CASE RefuseParse(d) \/ BeginParse(d)
    BY <1>1, <2>1, Takes DEF RefuseParse, BeginParse, ParseTaken
  <2>2. CASE PersistParse(d)
    BY <1>1, <2>2, Publishes DEF PersistParse
  <2>3. CASE DiscardParse(d) \/ CommitBatch(d) \/ StaleBatch(d)
    BY <1>2, <2>3 DEF DiscardParse, CommitBatch, StaleBatch
  <2>4. CASE Plan(d)
    <3> DEFINE pending == IF file[d].ai THEN InStatus(d, "PENDING") ELSE {}
               sent(batches) == {BatchJob(d, is) : is \in batches \ {{}}}
    <3>1. PICK batches \in {{pending}, {{i} : i \in pending}} :
            queue' = Taken(PlanJob(d)) (+) SetToBag(sent(batches))
      BY <2>4 DEF Plan
    <3>2. sent(batches) \subseteq DocJobs
      <4>1. parse[d].gen \in Nat /\ pending \subseteq Index
        BY DEF Shape, ParseRows, InStatus, Present
      <4>2. \A is \in batches : is \in SUBSET Index
        BY <4>1
      <4> QED
        BY <4>1, <4>2 DEF BatchJob, Job, DocJobs
    <3>3. /\ IsABag(Taken(PlanJob(d))) /\ DOMAIN Taken(PlanJob(d)) \subseteq DOMAIN queue
          /\ \A k \in DOMAIN queue : k # PlanJob(d) => k \in DOMAIN Taken(PlanJob(d))
      BY TakenFromBag DEF Taken, Shape
    <3> HIDE DEF pending, sent
    <3>4. IsABag(queue') /\ DOMAIN queue' = DOMAIN Taken(PlanJob(d)) \cup sent(batches)
      BY <3>1, <3>3, Published
    <3> QED
      BY <3>2, <3>3, <3>4, JobsDiffer DEF QueueTyped, Keeps, Shape
  <2>5. ASSUME NEW j \in BagToSet(queue), BeginBatch(j) \/ SkipBatch(j)
        PROVE  QueueTyped /\ Keeps(DOMAIN queue)
    BY <2>5, Takes DEF BeginBatch, SkipBatch
  <2> QED
    BY <1>4, <2>1, <2>2, <2>3, <2>4, <2>5 DEF JobStep
<1>5. ASSUME NEW d \in Docs, JobFault(d) PROVE QueueTyped /\ Keeps(DOMAIN queue)
  <2>1. CASE PersistFailure(d) \/ FailParse(d)
    BY <1>1, <1>2, <2>1, Publishes DEF PersistFailure, FailParse
  <2>2. CASE FailBatch(d)
    <3> DEFINE j == Job("batch", d, run[d].gen, run[d].is)
    <3>1. j \in DocJobs
      BY <2>2 DEF FailBatch, Shape, RunRows, Free, Orphan, DocJobs, Job
    <3>2. queue' = queue \/ queue' = queue (+) SetToBag({j})
      BY <2>2 DEF FailBatch, Publish
    <3>3. IsABag(queue) /\ DOMAIN queue \subseteq DocJobs
      BY DEF Shape
    <3> HIDE DEF j
    <3>4. IsABag(queue') /\ (DOMAIN queue' = DOMAIN queue \/ DOMAIN queue' = DOMAIN queue \cup {j})
      BY <3>2, <3>3, Published
    <3> QED
      BY <3>1, <3>3, <3>4 DEF QueueTyped, Keeps
  <2>3. CASE CrashExecutor(d) \/ Release(d) \/ \E i \in Index : FailChunk(d, i)
    BY <1>2, <2>3 DEF CrashExecutor, Release, FailChunk
  <2>4. ASSUME NEW j \in BagToSet(queue), LoseJob(j) PROVE QueueTyped /\ Keeps(DOMAIN queue)
    <3>1. j \in DOMAIN queue /\ queue' = Taken(j)
      BY <2>4 DEF LoseJob, BagToSet
    <3>2. CASE \E e \in Docs : j = ParseJob(e)
      BY <2>4, <3>1, <3>2, Takes DEF ParseTaken
    <3>3. CASE ~(\E e \in Docs : j = ParseJob(e))
      <4>1. /\ IsABag(queue') /\ DOMAIN queue' \subseteq DOMAIN queue
            /\ \A k \in DOMAIN queue : k # j => k \in DOMAIN queue'
        BY <3>1, TakenFromBag DEF Taken, Shape
      <4> QED
        BY <3>3, <4>1 DEF QueueTyped, Keeps, Shape
    <3> QED
      BY <3>2, <3>3
  <2> QED
    BY <1>5, <2>1, <2>2, <2>3, <2>4 DEF JobFault
<1>6. ASSUME ScanStep PROVE QueueTyped /\ Keeps(DOMAIN queue)
  <2>1. ASSUME NEW t \in scan.now, ScanPublish(t) PROVE QueueTyped /\ Keeps(DOMAIN queue)
    <3>1. t.doc \in Docs
      BY DEF Shape, Scans, Listed
    <3> QED
      BY <1>1, <2>1, <3>1, Publishes DEF ScanPublish
  <2> QED
    BY <1>2, <1>6, <2>1 DEF ScanStep, StartScan, CountParses, CountChunks, CrashScan, ScanSkip,
         ScanCheck, ScanPublishFails, jobVars
<1> QED
  BY <1>3, <1>4, <1>5, <1>6 DEF PipeNext

LEMMA ScansMove ==
  ASSUME Shape, PipeNext
  PROVE  /\ scan' \in Scans
         /\ \/ scan'.at = scan.at /\ InScan' \subseteq InScan
            \/ scan' = NoScan \/ StartScan \/ CountParses
<1>1. NoScan \in Scans
  BY DEF NoScan, Scans
<1>2. scan' = scan => scan' \in Scans /\ scan'.at = scan.at /\ InScan' \subseteq InScan
  BY DEF Shape, InScan
<1>3. ASSUME NEW d \in Docs, UserStep(d) \/ JobStep(d) \/ JobFault(d) PROVE scan' = scan
  BY <1>3 DEF UserStep, StartUpload, CommitUpload, SetAI, RetryParse, RetryEmbedding, RetryRefused,
       JobStep, RefuseParse, BeginParse, PersistParse, DiscardParse, Plan, CommitBatch,
       StaleBatch, BeginBatch, SkipBatch, JobFault, PersistFailure, FailParse, FailBatch,
       CrashExecutor, Release, FailChunk, LoseJob, scanVars
<1>4. \A d \in Docs, is \in SUBSET Index : Target(d, is) \in Listed
  BY DEF Target, Listed, Shape, ParseRows
<1>5. CASE StartScan
  <2>1. PICK S \in SUBSET {d \in Docs : ParseCandidate(d)} :
          scan' = [NoScan EXCEPT !.at = "parse", !.todo = {Target(d, {}) : d \in S}]
    BY <1>5 DEF StartScan
  <2>2. {Target(d, {}) : d \in S} \subseteq Listed
    BY <1>4
  <2> HIDE DEF Target
  <2>3. scan' \in Scans
    BY <2>1, <2>2 DEF Scans, NoScan
  <2> QED
    BY <1>5, <2>3
<1>6. CASE CountParses
  <2>1. PICK S \in SUBSET {d \in Docs : ChunkCandidates(d) # {}} :
          scan' = [NoScan EXCEPT !.at = "embed", !.todo = {Target(d, ChunkCandidates(d)) : d \in S}]
    BY <1>6 DEF CountParses
  <2>2. {Target(d, ChunkCandidates(d)) : d \in S} \subseteq Listed
    <3>1. \A d \in S : d \in Docs /\ ChunkCandidates(d) \in SUBSET Index
      BY DEF ChunkCandidates, Present
    <3> QED
      BY <1>4, <3>1
  <2> QED
    BY <1>6, <2>1, <2>2 DEF Scans, NoScan
<1>7. CASE CountChunks \/ CrashScan
  BY <1>1, <1>7 DEF CountChunks, CrashScan
<1>8. /\ scan \in [at : {"idle", "parse", "embed"}, todo : SUBSET Listed, now : SUBSET Listed,
                   sent : SUBSET Listed]
      /\ scan.todo \subseteq Listed /\ scan.now \subseteq Listed /\ scan.sent \subseteq Listed
  BY DEF Shape, Scans
<1>9. ASSUME NEW T \in SUBSET scan.todo, NEW N \in SUBSET (scan.todo \cup scan.now),
             NEW U \in SUBSET (scan.sent \cup scan.now),
             scan' = [scan EXCEPT !.todo = T, !.now = N, !.sent = U]
      PROVE  scan' \in Scans /\ scan'.at = scan.at /\ InScan' \subseteq InScan
  BY <1>8, <1>9 DEF Scans, InScan
<1>10. ASSUME NEW t \in scan.todo, ScanSkip(t) \/ ScanCheck(t)
       PROVE  scan' \in Scans /\ scan'.at = scan.at /\ InScan' \subseteq InScan
  <2>1. \/ scan' = [scan EXCEPT !.todo = @ \ {t}]
        \/ scan' = [scan EXCEPT !.todo = @ \ {t}, !.now = {t}]
    BY <1>10 DEF ScanSkip, ScanCheck
  <2>2. \E N \in SUBSET (scan.todo \cup scan.now) :
          scan' = [scan EXCEPT !.todo = scan.todo \ {t}, !.now = N, !.sent = scan.sent]
    <3>1. CASE scan' = [scan EXCEPT !.todo = @ \ {t}]
      BY <1>8, <3>1
    <3>2. CASE scan' = [scan EXCEPT !.todo = @ \ {t}, !.now = {t}]
      BY <1>8, <3>2
    <3> QED
      BY <2>1, <3>1, <3>2
  <2> QED
    BY <1>9, <2>2, scan.todo \ {t} \subseteq scan.todo
<1>11. ASSUME NEW t \in scan.now, ScanPublish(t) \/ ScanPublishFails(t)
       PROVE  scan' \in Scans /\ scan'.at = scan.at /\ InScan' \subseteq InScan
  <2>1. \/ scan' = [scan EXCEPT !.now = {}, !.sent = @ \cup {t}]
        \/ scan' = [scan EXCEPT !.now = {}]
    BY <1>11 DEF ScanPublish, ScanPublishFails
  <2>2. \E U \in SUBSET (scan.sent \cup scan.now) :
          scan' = [scan EXCEPT !.todo = scan.todo, !.now = {}, !.sent = U]
    <3>1. CASE scan' = [scan EXCEPT !.now = {}, !.sent = @ \cup {t}]
      BY <1>8, <3>1
    <3>2. CASE scan' = [scan EXCEPT !.now = {}]
      BY <1>8, <3>2
    <3> QED
      BY <2>1, <3>1, <3>2
  <2> QED
    BY <1>9, <2>2
<1> QED
  BY <1>2, <1>3, <1>5, <1>6, <1>7, <1>10, <1>11 DEF PipeNext, ScanStep

LEMMA TriesMove ==
  ASSUME Shape, TriesLeft, RowsMove, NEW e \in Docs
  PROVE  /\ parse'[e].status = "NONE" =>
              parse[e].status = "NONE" /\ parse'[e].tries = parse[e].tries
         /\ CountParses \/ parse'[e].tries = parse[e].tries
         /\ parse[e].gen \in Nat /\ parse[e].gen <= parse'[e].gen
         /\ CountChunks \/ \A i \in Index :
              parse'[e].gen = parse[e].gen => chunk'[e][i].tries = chunk[e][i].tries
<1> DEFINE Moves ==
      /\ parse'[e].status = "NONE" =>
           parse[e].status = "NONE" /\ parse'[e].tries = parse[e].tries
      /\ CountParses \/ parse'[e].tries = parse[e].tries
      /\ parse[e].gen <= parse'[e].gen
      /\ CountChunks \/ \A i \in Index :
           parse'[e].gen = parse[e].gen => chunk'[e][i].tries = chunk[e][i].tries
<1>1. parse[e].gen \in Nat
  BY DEF Shape, ParseRows
<1>2. CASE RowsKept
  BY <1>1, <1>2 DEF RowsKept
<1>3. CASE CountParses
  BY <1>1, <1>3, ParsesCounted
<1>4. CASE CountChunks
  BY <1>1, <1>4, ChunksCounted
<1>5. ASSUME NEW d \in Docs, Renewed(d) PROVE Moves
  BY <1>1, <1>5, ParseRenewed
<1>6. ASSUME NEW d \in Docs, ParseSet(d) PROVE Moves
  BY <1>1, <1>6, ParseStatusSet
<1>7. ASSUME NEW d \in Docs, Requeued(d) PROVE Moves
  <2>1. PICK is \in SUBSET Index, s \in {"PENDING", "PROCESSING"} :
          chunk' = WithStatus(chunk, d, is, s) /\ parse' = parse
    BY <1>7 DEF Requeued
  <2>2. s \in Statuses
    BY DEF Statuses
  <2> QED
    BY <1>1, <2>1, <2>2, StatusSet
<1>8. ASSUME NEW d \in Docs, RetryEmbedding(d) PROVE Moves
  BY <1>1, <1>8, EmbeddingRetried
<1>9. ASSUME NEW d \in Docs, CommitBatch(d) PROVE Moves
  BY <1>1, <1>9, BatchStored
<1>10. ASSUME NEW d \in Docs, NEW i \in Index, FailChunk(d, i) PROVE Moves
  BY <1>1, <1>10, ChunkFailed
<1> QED
  BY <1>1, <1>2, <1>3, <1>4, <1>5, <1>6, <1>7, <1>8, <1>9, <1>10 DEF RowsMove

LEMMA TriesKept == ASSUME Shape, TriesLeft, PipeNext PROVE TriesLeft'
<1>1. RowsMove
  BY PipeMovesRows
<1>2. ASSUME NEW e \in Docs, parse'[e].status = "NONE" PROVE parse'[e].tries = 0
  BY <1>1, <1>2, TriesMove DEF TriesLeft
<1>3. /\ InScan' \subseteq Listed
      /\ scan' = NoScan => scan'.at = "idle"
      /\ StartScan => scan'.at = "parse"
      /\ CountParses => scan'.at = "embed"
      /\ CountChunks => scan'.at = "idle"
  <2>1. InScan' \subseteq Listed
    BY ScansMove DEF Scans, InScan
  <2>2. NoScan.at = "idle" /\ \A a, T : [NoScan EXCEPT !.at = a, !.todo = T].at = a
    BY DEF NoScan
  <2>3. StartScan => scan'.at = "parse"
    BY <2>2 DEF StartScan
  <2>4. CountParses => scan'.at = "embed"
    BY <2>2 DEF CountParses
  <2>5. CountChunks => scan'.at = "idle"
    BY <2>2 DEF CountChunks
  <2> QED
    BY <2>1, <2>2, <2>3, <2>4, <2>5
<1>4. ASSUME NEW t \in InScan', scan'.at = "parse" PROVE parse'[t.doc].tries < MaxTries
  <2>1. t.doc \in Docs
    BY <1>3 DEF Listed
  <2>2. CASE StartScan
    <3>1. PICK d \in Docs : ParseCandidate(d) /\ t = Target(d, {})
      BY <2>2 DEF StartScan, InScan, NoScan
    <3>2. parse[d].tries < MaxTries /\ parse' = parse /\ t.doc = d
      BY <2>2, <3>1, PipelineAssumption DEF ParseCandidate, TriesLeft, StartScan, Target, rowVars
    <3> QED
      BY <3>2
  <2>3. CASE scan'.at = scan.at /\ InScan' \subseteq InScan /\ ~CountParses
    BY <1>1, <1>4, <2>1, <2>3, TriesMove DEF TriesLeft
  <2> QED
    BY <1>3, <1>4, <2>2, <2>3, ScansMove
<1>5. ASSUME NEW t \in InScan', scan'.at = "embed"
      PROVE  /\ t.gen <= parse'[t.doc].gen
             /\ t.gen = parse'[t.doc].gen => \A i \in t.is : chunk'[t.doc][i].tries < MaxTries
  <2>1. t.doc \in Docs /\ t.is \subseteq Index /\ t.gen \in Nat
    BY <1>3 DEF Listed
  <2>2. CASE CountParses
    <3>1. PICK d \in Docs : t = Target(d, ChunkCandidates(d))
      BY <2>2 DEF CountParses, InScan, NoScan
    <3>2. /\ t.doc = d /\ t.gen = parse[d].gen
          /\ \A i \in t.is : chunk[d][i].tries < MaxTries
      BY <3>1 DEF Target, ChunkCandidates
    <3> QED
      BY <2>1, <2>2, <3>2, ParsesCounted
  <2>3. CASE scan'.at = scan.at /\ InScan' \subseteq InScan /\ ~CountChunks
    <3>1. /\ t.gen <= parse[t.doc].gen
          /\ t.gen = parse[t.doc].gen => \A i \in t.is : chunk[t.doc][i].tries < MaxTries
      BY <1>5, <2>3 DEF TriesLeft
    <3>2. /\ parse[t.doc].gen \in Nat /\ parse[t.doc].gen <= parse'[t.doc].gen
          /\ parse'[t.doc].gen \in Nat
          /\ \A i \in Index :
               parse'[t.doc].gen = parse[t.doc].gen => chunk'[t.doc][i].tries = chunk[t.doc][i].tries
      BY <1>1, <2>1, <2>3, TriesMove, RowsTyped DEF ParseRows
    <3> QED
      BY <2>1, <3>1, <3>2
  <2> QED
    BY <1>3, <1>5, <2>2, <2>3, ScansMove
<1> QED
  BY <1>2, <1>4, <1>5 DEF TriesLeft

LEMMA VersionsMove == ASSUME Shape, VersionsKnown, PipeNext PROVE VersionsKnown'
<1>1. ASSUME NEW e \in Docs
      PROVE  /\ file[e].ver \in Nat /\ parse[e].ver \in Nat /\ file'[e].ver \in Nat
             /\ file[e].ver <= file'[e].ver
  <2>1. file \in [Docs -> FileRows] /\ file[e].ver \in Nat /\ parse[e].ver \in Nat
    BY DEF Shape, FileRows, ParseRows
  <2>2. ASSUME NEW d \in Docs, CommitUpload(d) PROVE file'[e].ver \in {file[e].ver, file[e].ver + 1}
    BY <2>1, <2>2 DEF CommitUpload
  <2> QED
    BY <2>1, <2>2, FilesMove
<1>2. ASSUME NEW e \in Docs
      PROVE  parse'[e].ver = parse[e].ver \/ parse'[e].ver = file[e].ver
  <2>1. RowsMove
    BY PipeMovesRows
  <2>2. CASE CountParses
    <3>1. \A d \in Docs : parse'[d] \in {parse[d], [parse[d] EXCEPT !.tries = @ + 1]}
      BY <2>2 DEF CountParses
    <3> QED
      BY <3>1 DEF Shape, ParseRows
  <2>3. ASSUME NEW d \in Docs, \/ Renewed(d) \/ ParseSet(d) \/ RetryEmbedding(d) \/ CommitBatch(d)
        PROVE  parse'[e].ver = parse[e].ver \/ parse'[e].ver = file[e].ver
    BY <2>3, ParseRenewed, ParseStatusSet, EmbeddingRetried, BatchStored
  <2> QED
    BY <2>1, <2>2, <2>3 DEF RowsMove, RowsKept, CountChunks, Requeued, FailChunk
<1>3. ASSUME NEW e \in Docs, run'[e].kind \in {"parse", "batch"}
      PROVE  \/ run[e].kind \in {"parse", "batch"} /\ run'[e].ver = run[e].ver
             \/ run'[e].ver = file[e].ver
  BY <1>3, RunsMove DEF Begun, Narrowed, Ended, Free, Orphan, Shape
<1>4. ASSUME NEW e \in Docs, run[e].kind \in {"parse", "batch"}
      PROVE  run[e].ver \in Nat
  BY <1>4 DEF Shape, RunRows, Free, Orphan
<1>5. ASSUME NEW e \in Docs PROVE parse'[e].ver <= file'[e].ver
  BY <1>1, <1>2 DEF VersionsKnown
<1>6. ASSUME NEW e \in Docs, run'[e].kind \in {"parse", "batch"}
      PROVE  run'[e].ver <= file'[e].ver
  BY <1>1, <1>3, <1>4, <1>6 DEF VersionsKnown
<1> QED
  BY <1>5, <1>6 DEF VersionsKnown

LEMMA ShapeKept == ASSUME Shape, TriesLeft, PipeNext PROVE Shape'
<1>1. parse' \in [Docs -> ParseRows] /\ chunk' \in [Docs -> [Index -> ChunkRows]]
  BY PipeMovesRows, RowsTyped
<1>2. file' \in [Docs -> FileRows]
  <2>1. file \in [Docs -> FileRows]
    BY DEF Shape
  <2>2. ASSUME NEW d \in Docs, CommitUpload(d) PROVE file' \in [Docs -> FileRows]
    BY <2>1, <2>2 DEF CommitUpload, FileRows
  <2> QED
    BY <2>1, <2>2, FilesMove
<1>3. run' \in [Docs -> RunRows]
  BY RunsMove DEF Shape, Begun, Narrowed, Ended, RunRows
<1>4. IsABag(queue') /\ DOMAIN queue' \subseteq DocJobs
  BY QueuesMove DEF QueueTyped
<1>5. scan' \in Scans
  BY ScansMove
<1>6. /\ active' = active
      /\ \/ loaded' = loaded
         \/ loaded' = [loaded EXCEPT !.executor = active]
  BY ZenonT(60) DEF PipeNext, UserStep, StartUpload, CommitUpload, SetAI, RetryParse, RetryEmbedding,
         RetryRefused, JobStep, RefuseParse, BeginParse, PersistParse, DiscardParse, Plan,
         CommitBatch, StaleBatch, BeginBatch, SkipBatch, JobFault, PersistFailure, FailParse,
         FailBatch, CrashExecutor, Release, FailChunk, LoseJob, ScanStep, StartScan, CountParses,
         CountChunks, CrashScan, ScanSkip, ScanCheck, ScanPublish, ScanPublishFails
<1>7. missed' \subseteq Docs
  <2>1. missed \subseteq Docs
    BY DEF Shape
  <2>2. ASSUME NEW d \in Docs, UserStep(d) \/ JobStep(d) \/ JobFault(d)
        PROVE  missed' \subseteq missed \cup Docs
    <3>1. \A j \in DOMAIN queue : j.doc \in Docs
      BY DEF Shape, DocJobs
    <3> QED
      BY <2>1, <2>2, <3>1 DEF UserStep, StartUpload, CommitUpload, SetAI, RetryParse,
         RetryEmbedding, RetryRefused, JobStep, RefuseParse, BeginParse, PersistParse,
         DiscardParse, Plan, CommitBatch, StaleBatch, BeginBatch, SkipBatch, JobFault,
         PersistFailure, FailParse, FailBatch, CrashExecutor, Release, FailChunk, LoseJob, Missing,
         BagToSet
  <2>3. ASSUME ScanStep PROVE missed' \subseteq missed \cup Docs
    <3>1. \A t \in scan.now : t.doc \in Docs
      BY DEF Shape, Scans, Listed
    <3> QED
      BY <2>3, <3>1 DEF ScanStep, StartScan, CountParses, CountChunks, CrashScan, ScanSkip,
         ScanCheck, ScanPublish, ScanPublishFails, Missing
  <2> QED
    BY <2>1, <2>2, <2>3 DEF PipeNext
<1> QED
  BY <1>1, <1>2, <1>3, <1>4, <1>5, <1>6, <1>7 DEF Shape

-----------------------------------------------------------------------------
(* The steps of a change.                                                   *)

(* A change goes on from one stage to the next.                             *)
ChangeAs(at, todo, now, failed, skip) ==
  /\ change'.at = at /\ change'.gen = change.gen /\ change'.failed = failed
  /\ change'.todo = todo /\ change'.now = now /\ change'.skip = skip
  /\ change' = [at |-> change'.at, gen |-> change'.gen, before |-> change'.before,
                expected |-> change'.expected, done |-> change'.done,
                failed |-> change'.failed, todo |-> change'.todo, now |-> change'.now,
                skip |-> change'.skip]

LEMMA ChangeGoesOn ==
  ASSUME ChangeShape, change # NoChange
  PROVE  /\ StartReembedding =>
              ChangeAs("embedding", Rows(Targets), change.now, change.failed, change.skip)
         /\ \A c : ClaimChunk(c) =>
              ChangeAs("claimed", change.todo \ {c}, {c}, change.failed, change.skip)
         /\ StoreChunk =>
              ChangeAs("stored", change.todo, change.now, change.failed, change.skip)
         /\ CompleteChunk =>
              ChangeAs("embedding", change.todo, {}, change.failed, change.skip)
         /\ ChunkFails =>
              ChangeAs("embedding", change.todo, {}, change.failed + 1, change.skip)
         /\ Covered =>
              ChangeAs("ready", change.todo, change.now, change.failed, change.skip)
         /\ InstallRuntime =>
              ChangeAs("installed", change.todo, change.now, change.failed,
                       change.at = "prepared")
<1> DEFINE fields == [at |-> change.at, gen |-> change.gen, before |-> change.before,
                      expected |-> change.expected, done |-> change.done,
                      failed |-> change.failed, todo |-> change.todo, now |-> change.now,
                      skip |-> change.skip]
<1>1. change = fields
  BY DEF ChangeShape
<1>2. StartReembedding =>
        ChangeAs("embedding", Rows(Targets), change.now, change.failed, change.skip)
  BY <1>1 DEF StartReembedding, ChangeAs
<1>3. ASSUME NEW c, ClaimChunk(c)
      PROVE  ChangeAs("claimed", change.todo \ {c}, {c}, change.failed, change.skip)
  BY <1>1, <1>3 DEF ClaimChunk, ChangeAs
<1>4. StoreChunk => ChangeAs("stored", change.todo, change.now, change.failed, change.skip)
  BY <1>1 DEF StoreChunk, ChangeAs
<1>5. CompleteChunk => ChangeAs("embedding", change.todo, {}, change.failed, change.skip)
  BY <1>1 DEF CompleteChunk, ChangeAs
<1>6. ChunkFails => ChangeAs("embedding", change.todo, {}, change.failed + 1, change.skip)
  BY <1>1 DEF ChunkFails, ChangeAs
<1>7. Covered => ChangeAs("ready", change.todo, change.now, change.failed, change.skip)
  BY <1>1 DEF Covered, ChangeAs
<1>8. InstallRuntime => ChangeAs("installed", change.todo, change.now, change.failed,
                                 change.at = "prepared")
  BY <1>1 DEF InstallRuntime, ChangeAs
<1> QED
  BY <1>2, <1>3, <1>4, <1>5, <1>6, <1>7, <1>8

LEMMA ChangeIsTyped ==
  ASSUME ChangeShape, change # NoChange, genStatus' = genStatus,
         NEW at \in {"prepared", "embedding", "claimed", "stored", "ready", "installed"},
         NEW todo \in SUBSET RowIds, NEW now \in SUBSET RowIds, NEW failed \in Nat,
         NEW skip \in BOOLEAN, ChangeAs(at, todo, now, failed, skip), disturbed' \subseteq Docs,
         at \in {"claimed", "stored"} => \E c \in RowIds : now = {c}
  PROVE  ChangeShape'
<1>1. change.gen \in Generations /\ genStatus[change.gen] # "NONE" /\ change.gen # 0
  BY DEF ChangeShape
<1> QED
  BY <1>1 DEF ChangeShape, ChangeAs

LEMMA RowsAreIds ==
  ASSUME Shape
  PROVE  /\ Rows(Targets) \subseteq RowIds
         /\ \A d \in Targets : \A i \in Present(d) : Row(d, i) \in Rows(Targets)
<1>1. \A d \in Docs : parse[d].gen \in Nat
  BY DEF Shape, ParseRows
<1>2. \A d \in Docs : \A i \in Present(d) : Row(d, i) \in RowIds
  BY <1>1 DEF Row, RowIds, Present
<1>3. Rows(Targets) = UNION {{Row(d, i) : i \in Present(d)} : d \in Targets}
  BY DEF Rows, Row
<1>4. Targets \subseteq Docs
  BY DEF Targets
<1> QED
  BY <1>2, <1>3, <1>4

LEMMA ChangeShapeKept ==
  ASSUME TypeInv, DocNext
  PROVE  ChangeShape'
<1>1. Shape /\ ChangeShape /\ disturbed \subseteq Docs
  BY DEF TypeInv, ChangeShape
<1>2. CASE change' = change /\ genStatus' = genStatus /\ disturbed' \subseteq Docs
  BY <1>1, <1>2 DEF ChangeShape
<1>3. CASE PrepareGeneration
  <2>1. PICK g \in Generations :
          /\ IsNextGen(g)
          /\ change' = [at |-> "prepared", gen |-> g, before |-> active,
                        expected |-> Cardinality(Rows(Targets)), done |-> 0, failed |-> 0,
                        todo |-> {}, now |-> {}, skip |-> FALSE]
          /\ genStatus' = [genStatus EXCEPT ![g] = "PREPARING"]
    BY <1>3 DEF PrepareGeneration
  <2>2. disturbed' = disturbed /\ g # 0
    BY <1>1, <1>3, <2>1 DEF PrepareGeneration, IsNextGen, ChangeShape
  <2>3. genStatus' \in [Generations -> GenStatuses] /\ genStatus'[0] # "NONE" /\ genStatus'[g] # "NONE"
    BY <1>1, <2>1, <2>2 DEF ChangeShape, GenStatuses
  <2> QED
    BY <1>1, <2>1, <2>2, <2>3 DEF ChangeShape
<1>4. ASSUME change # NoChange, EndChange, disturbed' \subseteq Docs,
             \A g \in Generations : genStatus[g] # "NONE" => genStatus'[g] # "NONE",
             genStatus' \in [Generations -> GenStatuses]
      PROVE  ChangeShape'
  BY <1>1, <1>4, PipelineAssumption DEF EndChange, ChangeShape, Generations
<1>5. ASSUME NEW D, DisturbAll(Docs \ D) PROVE disturbed' \subseteq Docs
  BY <1>1, <1>5 DEF DisturbAll
<1>6. ASSUME change # NoChange, NEW s \in GenStatuses \ {"NONE"}, SetGen(s)
      PROVE  /\ \A g \in Generations : genStatus[g] # "NONE" => genStatus'[g] # "NONE"
             /\ genStatus' \in [Generations -> GenStatuses]
  BY <1>1, <1>6 DEF SetGen, ChangeShape
<1>7. CASE change # NoChange /\ (ValidateOnly \/ ProbeFails \/ NotCovered)
  <2>1. /\ EndChange /\ (SetGen("VALIDATED") \/ SetGen("FAILED"))
        /\ disturbed' \subseteq Docs
    BY <1>1, <1>7 DEF ValidateOnly, ProbeFails, NotCovered, DisturbAll
  <2> QED
    BY <1>4, <1>6, <1>7, <2>1 DEF GenStatuses
<1>8. CASE change # NoChange /\ (ChangeDies \/ Activate)
  <2>1. EndChange /\ disturbed' \subseteq Docs
    BY <1>1, <1>8 DEF ChangeDies, Activate, DisturbAll
  <2>2. /\ \A g \in Generations : genStatus[g] # "NONE" => genStatus'[g] # "NONE"
        /\ genStatus' \in [Generations -> GenStatuses]
    <3>1. CASE ChangeDies
      BY <1>1, <3>1 DEF ChangeDies, ChangeShape
    <3>2. CASE Activate
      BY <1>1, <3>2 DEF Activate, ChangeShape, GenStatuses
    <3> QED
      BY <1>8, <3>1, <3>2
  <2> QED
    BY <1>4, <1>8, <2>1, <2>2
<1>9. CASE change # NoChange /\ (StartReembedding \/ Covered)
  <2>1. /\ disturbed' = disturbed
        /\ \/ ChangeAs("embedding", Rows(Targets), change.now, change.failed, change.skip)
           \/ ChangeAs("ready", change.todo, change.now, change.failed, change.skip)
    BY <1>1, <1>9, ChangeGoesOn DEF StartReembedding, Covered
  <2>2. /\ genStatus' \in [Generations -> GenStatuses]
        /\ \A g \in Generations : genStatus[g] # "NONE" => genStatus'[g] # "NONE"
    <3>1. CASE StartReembedding
      BY <1>1, <3>1 DEF StartReembedding, ChangeShape, GenStatuses
    <3>2. CASE Covered
      BY <1>1, <1>6, <1>9, <3>2 DEF Covered, GenStatuses
    <3> QED
      BY <1>9, <3>1, <3>2
  <2>3. /\ change.gen \in Generations /\ genStatus[change.gen] # "NONE" /\ change.gen # 0
        /\ change.failed \in Nat /\ change.skip \in BOOLEAN
        /\ change.todo \subseteq RowIds /\ change.now \subseteq RowIds
        /\ Rows(Targets) \subseteq RowIds /\ 0 \in Generations /\ genStatus[0] # "NONE"
    BY <1>1, <1>9, RowsAreIds, PipelineAssumption DEF ChangeShape, Generations
  <2> QED
    BY <1>1, <2>1, <2>2, <2>3 DEF ChangeShape, ChangeAs
<1>10. ASSUME change # NoChange, NEW c \in change.todo, ClaimChunk(c) PROVE ChangeShape'
  <2>1. /\ genStatus' = genStatus /\ disturbed' \subseteq Docs /\ change.failed \in Nat
        /\ change.skip \in BOOLEAN
        /\ change.todo \ {c} \in SUBSET RowIds /\ {c} \in SUBSET RowIds
        /\ \E b \in RowIds : {c} = {b}
    BY <1>1, <1>10 DEF ClaimChunk, ChangeShape
  <2>2. ChangeAs("claimed", change.todo \ {c}, {c}, change.failed, change.skip)
    BY <1>1, <1>10, ChangeGoesOn
  <2> QED
    BY <1>1, <1>10, <2>1, <2>2, ChangeIsTyped
<1>11. CASE change # NoChange /\ (StoreChunk \/ CompleteChunk \/ ChunkFails \/ InstallRuntime)
  <2>1. /\ genStatus' = genStatus /\ disturbed' \subseteq Docs
    BY <1>1, <1>11 DEF StoreChunk, CompleteChunk, ChunkFails, InstallRuntime
  <2>2. /\ change.failed \in Nat /\ change.failed + 1 \in Nat
        /\ change.skip \in BOOLEAN /\ (change.at = "prepared") \in BOOLEAN
        /\ change.todo \in SUBSET RowIds /\ change.now \in SUBSET RowIds /\ {} \in SUBSET RowIds
    BY <1>1, <1>11 DEF ChangeShape
  <2>3. CASE StoreChunk
    <3>1. \E c \in RowIds : change.now = {c}
      BY <1>1, <1>11, <2>3 DEF ChangeShape, StoreChunk
    <3> QED
      BY <1>1, <1>11, <2>1, <2>2, <2>3, <3>1, ChangeGoesOn, ChangeIsTyped
  <2>4. CASE CompleteChunk
    BY <1>1, <1>11, <2>1, <2>2, <2>4, ChangeGoesOn, ChangeIsTyped
  <2>5. CASE ChunkFails
    BY <1>1, <1>11, <2>1, <2>2, <2>5, ChangeGoesOn, ChangeIsTyped
  <2>6. CASE InstallRuntime
    BY <1>1, <1>11, <2>1, <2>2, <2>6, ChangeGoesOn, ChangeIsTyped
  <2> QED
    BY <1>11, <2>3, <2>4, <2>5, <2>6
<1>12. CASE PipeNext /\ Disturb /\ UNCHANGED <<change, genStatus>>
  BY <1>2, <1>12 DEF Disturb
<1>13. ASSUME NEW p \in DOMAIN loaded, Restart(p) PROVE ChangeShape'
  BY <1>1, <1>2, <1>13 DEF Restart, changeVars
<1> QED
  BY <1>3, <1>7, <1>8, <1>9, <1>10, <1>11, <1>12, <1>13 DEF DocNext, ChangeStep

(* A change leaves the work of the pipeline alone; it marks documents and   *)
(* embeds chunks that are there.                                            *)
OnlyMarks ==
  /\ file' = file /\ queue' = queue /\ scan' = scan /\ missed' = missed
  /\ run' \in [Docs -> RunRows]
  /\ \A d \in Docs : run'[d] = run[d] \/ (run[d].kind = "batch" /\ run'[d] = Orphan)
  /\ active' \in Generations /\ loaded' \in [{"app", "executor"} -> Generations]
  /\ parse' \in [Docs -> ParseRows] /\ chunk' \in [Docs -> [Index -> ChunkRows]]
  /\ \A d \in Docs :
       /\ parse'[d].status = parse[d].status /\ parse'[d].ver = parse[d].ver
       /\ parse'[d].gen = parse[d].gen /\ parse'[d].tries = parse[d].tries
       /\ \A i \in Index :
            /\ chunk'[d][i].tries = chunk[d][i].tries
            /\ chunk[d][i].status = "NONE" => chunk'[d][i] = chunk[d][i]
            /\ chunk'[d][i].status = "NONE" => chunk[d][i].status = "NONE"

LEMMA DocumentsMarked ==
  ASSUME Shape, NEW D, NEW g \in Marks
  PROVE  /\ Marked(D, g) \in [Docs -> ParseRows]
         /\ \A d \in Docs :
              /\ Marked(D, g)[d].status = parse[d].status /\ Marked(D, g)[d].ver = parse[d].ver
              /\ Marked(D, g)[d].gen = parse[d].gen /\ Marked(D, g)[d].tries = parse[d].tries
              /\ Marked(D, g)[d].marker = IF d \in D THEN g ELSE parse[d].marker
              /\ d \notin D => Marked(D, g)[d] = parse[d]
<1>1. \A d \in Docs : parse[d] \in ParseRows
  BY DEF Shape
<1>2. ASSUME NEW r \in ParseRows
      PROVE  LET p == [r EXCEPT !.marker = g] IN
             /\ p \in ParseRows /\ p.status = r.status /\ p.ver = r.ver /\ p.gen = r.gen
             /\ p.tries = r.tries /\ p.marker = g
  BY DEF ParseRows
<1> QED
  BY <1>1, <1>2 DEF Marked

(* One chunk is written.                                                    *)
LEMMA ChunkWritten ==
  ASSUME Shape, NEW c \in RowIds, NEW r \in ChunkRows
  PROVE  /\ [chunk EXCEPT ![c.doc][c.i] = r] \in [Docs -> [Index -> ChunkRows]]
         /\ [chunk EXCEPT ![c.doc][c.i] = r][c.doc][c.i] = r
         /\ \A d \in Docs, i \in Index :
              d # c.doc \/ i # c.i => [chunk EXCEPT ![c.doc][c.i] = r][d][i] = chunk[d][i]
         /\ \A d \in Docs : d # c.doc => [chunk EXCEPT ![c.doc][c.i] = r][d] = chunk[d]
BY DEF Shape, RowIds

(* What the three statements over a chunk write.                            *)
Over(c, r) == chunk' = [chunk EXCEPT ![c.doc][c.i] = r]

LEMMA ChunkEmbedded ==
  ASSUME Shape, ChangeShape, change # NoChange,
         NEW c \in RowIds, Exists(c)
  PROVE  /\ chunk' = WithStatus(chunk, c.doc, {c.i}, "PROCESSING") =>
              \E r \in ChunkRows :
                Over(c, r) /\ r.status = "PROCESSING" /\ r.vec = chunk[c.doc][c.i].vec
                           /\ r.tries = chunk[c.doc][c.i].tries
         /\ chunk' = [chunk EXCEPT ![c.doc][c.i].vec = change.gen] =>
              \E r \in ChunkRows :
                Over(c, r) /\ r.status = chunk[c.doc][c.i].status /\ r.vec = change.gen
                           /\ r.tries = chunk[c.doc][c.i].tries
         /\ chunk' = WithStatus(chunk, c.doc, {c.i}, "COMPLETED") =>
              \E r \in ChunkRows :
                Over(c, r) /\ r.status = "COMPLETED" /\ r.vec = chunk[c.doc][c.i].vec
                           /\ r.tries = chunk[c.doc][c.i].tries
         /\ chunk' = [chunk EXCEPT ![c.doc][c.i].status = "FAILED", ![c.doc][c.i].vec = Blank] =>
              \E r \in ChunkRows :
                Over(c, r) /\ r.status = "FAILED" /\ r.vec = Blank
                           /\ r.tries = chunk[c.doc][c.i].tries
<1> DEFINE k == chunk[c.doc][c.i]
<1>1. /\ c.doc \in Docs /\ c.i \in Index /\ k \in ChunkRows
      /\ chunk \in [Docs -> [Index -> ChunkRows]] /\ chunk[c.doc] \in [Index -> ChunkRows]
      /\ change.gen \in Marks
  BY DEF Shape, RowIds, ChangeShape, Marks
<1>2. ASSUME NEW s \in Statuses, chunk' = WithStatus(chunk, c.doc, {c.i}, s)
      PROVE  \E r \in ChunkRows : Over(c, r) /\ r.status = s /\ r.vec = k.vec /\ r.tries = k.tries
  <2> DEFINE r == [k EXCEPT !.status = s]
  <2>1. r \in ChunkRows /\ r.status = s /\ r.vec = k.vec /\ r.tries = k.tries
    BY <1>1 DEF ChunkRows
  <2>2. chunk' = [chunk EXCEPT ![c.doc] =
                    [i \in Index |-> IF i \in {c.i} THEN [chunk[c.doc][i] EXCEPT !.status = s]
                                     ELSE chunk[c.doc][i]]]
    BY <1>2 DEF WithStatus
  <2>3. [i \in Index |-> IF i \in {c.i} THEN [chunk[c.doc][i] EXCEPT !.status = s]
                         ELSE chunk[c.doc][i]] = [chunk[c.doc] EXCEPT ![c.i] = r]
    BY <1>1
  <2> QED
    BY <2>1, <2>2, <2>3 DEF Over
<1>3. ASSUME chunk' = [chunk EXCEPT ![c.doc][c.i].vec = change.gen]
      PROVE  \E r \in ChunkRows :
               Over(c, r) /\ r.status = k.status /\ r.vec = change.gen /\ r.tries = k.tries
  <2> DEFINE r == [k EXCEPT !.vec = change.gen]
  <2>1. r \in ChunkRows /\ r.status = k.status /\ r.vec = change.gen /\ r.tries = k.tries
    BY <1>1 DEF ChunkRows
  <2> QED
    BY <1>3, <2>1 DEF Over
<1>4. ASSUME chunk' = [chunk EXCEPT ![c.doc][c.i].status = "FAILED", ![c.doc][c.i].vec = Blank]
      PROVE  \E r \in ChunkRows :
               Over(c, r) /\ r.status = "FAILED" /\ r.vec = Blank /\ r.tries = k.tries
  <2> DEFINE r == [k EXCEPT !.status = "FAILED", !.vec = Blank]
  <2>1. r \in ChunkRows /\ r.status = "FAILED" /\ r.vec = Blank /\ r.tries = k.tries
    BY <1>1 DEF ChunkRows, Statuses, Marks
  <2>2. chunk' = [chunk EXCEPT ![c.doc][c.i] = r]
    BY <1>1, <1>4
  <2> QED
    BY <2>1, <2>2 DEF Over
<1> QED
  BY <1>2, <1>3, <1>4 DEF Statuses

(* The chunk a change works on.                                             *)
ChunkStep(c) ==
  \/ chunk' = chunk
  \/ /\ Exists(c)
     /\ \/ chunk' = WithStatus(chunk, c.doc, {c.i}, "PROCESSING")
        \/ chunk' = [chunk EXCEPT ![c.doc][c.i].vec = change.gen]
        \/ chunk' = WithStatus(chunk, c.doc, {c.i}, "COMPLETED")
        \/ chunk' = [chunk EXCEPT ![c.doc][c.i].status = "FAILED", ![c.doc][c.i].vec = Blank]

LEMMA ChangeMoves ==
  ASSUME Shape, ChangeShape,
         \/ change # NoChange /\ ChangeStep
         \/ PrepareGeneration
         \/ \E p \in DOMAIN loaded : Restart(p)
  PROVE  OnlyMarks
<1>1. /\ run \in [Docs -> RunRows] /\ parse \in [Docs -> ParseRows]
      /\ chunk \in [Docs -> [Index -> ChunkRows]]
      /\ active \in Generations /\ loaded \in [{"app", "executor"} -> Generations]
  BY DEF Shape
<1>2. ASSUME UNCHANGED <<file, queue, scan, missed, run, active, loaded, chunk, parse>>
      PROVE  OnlyMarks
  BY <1>1, <1>2 DEF OnlyMarks
<1>3. CASE PrepareGeneration
  BY <1>2, <1>3 DEF PrepareGeneration, rowVars, jobVars, scanVars
<1>4. ASSUME NEW p \in DOMAIN loaded, Restart(p) PROVE OnlyMarks
  BY <1>1, <1>4 DEF Restart, OnlyMarks, rowVars, scanVars, RunRows, Orphan
<1>5. ASSUME change # NoChange, NEW D, NEW g \in Marks, parse' = Marked(D, g),
             UNCHANGED <<file, queue, scan, missed, run, active, loaded, chunk>>
      PROVE  OnlyMarks
  BY <1>1, <1>5, DocumentsMarked DEF OnlyMarks
<1>6. ASSUME change # NoChange, NEW c \in RowIds, ChunkStep(c),
             UNCHANGED <<file, queue, scan, missed, run, active, loaded, parse>>
      PROVE  OnlyMarks
  <2>1. CASE chunk' = chunk
    BY <1>2, <1>6, <2>1
  <2>2. CASE chunk' # chunk
    <3>1. Exists(c) /\ c.doc \in Docs /\ c.i \in Index /\ chunk[c.doc][c.i].status # "NONE"
      BY <1>6, <2>2 DEF ChunkStep, Exists, Present, RowIds
    <3>2. PICK r \in ChunkRows : /\ Over(c, r) /\ r.tries = chunk[c.doc][c.i].tries
                                 /\ r.status # "NONE"
      BY <1>6, <2>2, <3>1, ChunkEmbedded DEF ChunkStep
    <3>3. /\ chunk' \in [Docs -> [Index -> ChunkRows]] /\ chunk'[c.doc][c.i] = r
          /\ \A d \in Docs, i \in Index : d # c.doc \/ i # c.i => chunk'[d][i] = chunk[d][i]
      BY <3>2, ChunkWritten DEF Over
    <3>4. ASSUME NEW d \in Docs, NEW i \in Index
          PROVE  /\ chunk'[d][i].tries = chunk[d][i].tries
                 /\ chunk[d][i].status = "NONE" => chunk'[d][i] = chunk[d][i]
                 /\ chunk'[d][i].status = "NONE" => chunk[d][i].status = "NONE"
      BY <3>1, <3>2, <3>3
    <3> QED
      BY <1>1, <1>6, <3>3, <3>4 DEF OnlyMarks
  <2> QED
    BY <2>1, <2>2
<1>7. CASE change # NoChange /\ (ValidateOnly \/ ProbeFails \/ ChangeDies \/ Covered \/ NotCovered)
  BY <1>2, <1>7 DEF ValidateOnly, ProbeFails, ChangeDies, Covered, NotCovered, pipeVars, rowVars,
       jobVars, scanVars
<1>8. CASE change # NoChange /\ StartReembedding
  BY <1>5, <1>8 DEF StartReembedding, jobVars, scanVars, Marks
<1>9. CASE change # NoChange /\ Activate
  <2>1. change.gen \in Marks /\ Blank \in Marks
    BY <1>9 DEF ChangeShape, Marks
  <2> QED
    BY <1>5, <1>9, <2>1 DEF Activate, jobVars, scanVars
<1>10. CASE change # NoChange /\ InstallRuntime
  <2>1. change.gen \in Generations
    BY <1>10 DEF ChangeShape
  <2> QED
    BY <1>1, <1>10, <2>1 DEF InstallRuntime, rowVars, jobVars, scanVars, OnlyMarks
<1>11. ASSUME change # NoChange, NEW c \in change.todo, ClaimChunk(c) PROVE OnlyMarks
  <2>1. c \in RowIds
    BY <1>11 DEF ChangeShape
  <2> QED
    BY <1>6, <1>11, <2>1 DEF ClaimChunk, ChunkStep, jobVars, scanVars
<1>12. CASE change # NoChange /\ (StoreChunk \/ CompleteChunk \/ ChunkFails)
  <2>1. PICK c \in RowIds : change.now = {c}
    BY <1>12 DEF ChangeShape, StoreChunk, CompleteChunk, ChunkFails
  <2>2. ChunkStep(c)
    BY <1>12, <2>1 DEF StoreChunk, CompleteChunk, ChunkFails, ChunkStep
  <2> QED
    BY <1>6, <1>12, <2>1, <2>2 DEF StoreChunk, CompleteChunk, ChunkFails, jobVars, scanVars
<1> QED
  BY <1>3, <1>4, <1>7, <1>8, <1>9, <1>10, <1>11, <1>12 DEF ChangeStep

LEMMA TypeKept == TypeInv /\ DocNext => TypeInv'
<1> SUFFICES ASSUME TypeInv, DocNext PROVE TypeInv'
  OBVIOUS
<1>1. Shape /\ VersionsKnown /\ TriesLeft /\ ChangeShape
  BY DEF TypeInv
<1>2. ChangeShape'
  BY ChangeShapeKept
<1>3. CASE PipeNext
  BY <1>1, <1>2, <1>3, ShapeKept, VersionsMove, TriesKept DEF TypeInv
<1>4. CASE OnlyMarks
  <2>1. Shape'
    BY <1>1, <1>4 DEF Shape, OnlyMarks
  <2>2. VersionsKnown'
    BY <1>1, <1>4 DEF VersionsKnown, OnlyMarks, Orphan
  <2>3. TriesLeft'
    <3>1. /\ InScan' = InScan /\ scan' = scan
          /\ \A t \in InScan : t.doc \in Docs /\ t.is \subseteq Index
      BY <1>1, <1>4 DEF OnlyMarks, InScan, Shape, Scans, Listed
    <3>2. \A d \in Docs : /\ parse'[d].status = parse[d].status /\ parse'[d].gen = parse[d].gen
                          /\ parse'[d].tries = parse[d].tries
                          /\ \A i \in Index : chunk'[d][i].tries = chunk[d][i].tries
      BY <1>4 DEF OnlyMarks
    <3> QED
      BY <1>1, <3>1, <3>2 DEF TriesLeft
  <2> QED
    BY <1>2, <2>1, <2>2, <2>3 DEF TypeInv
<1> QED
  BY <1>1, <1>3, <1>4, ChangeMoves DEF DocNext

-----------------------------------------------------------------------------
(* No document is forgotten. *)

(* A chunk that is there stays, but for a parse that ends.                  *)
LEMMA RowsStay ==
  ASSUME Shape, TriesLeft, Unwritten, RowsMove, NEW e \in Docs
  PROVE  /\ \A i \in Index : chunk'[e][i].status = "NONE" => chunk'[e][i].vec = Blank
         /\ parse'[e].status = "COMPLETED" =>
              \/ /\ parse[e].status = "COMPLETED" /\ parse'[e].ver = parse[e].ver
                 /\ \A i \in Index : chunk'[e][i].status = "NONE" => chunk[e][i].status = "NONE"
              \/ /\ Renewed(e) /\ parse'[e].ver = file[e].ver
                 /\ \A i \in Index : chunk'[e][i].status # "NONE"
<1> DEFINE Stays ==
      /\ \A i \in Index : chunk'[e][i].status = "NONE" => chunk'[e][i].vec = Blank
      /\ parse'[e].status = "COMPLETED" =>
           \/ /\ parse[e].status = "COMPLETED" /\ parse'[e].ver = parse[e].ver
              /\ \A i \in Index : chunk'[e][i].status = "NONE" => chunk[e][i].status = "NONE"
           \/ /\ Renewed(e) /\ parse'[e].ver = file[e].ver
              /\ \A i \in Index : chunk'[e][i].status # "NONE"
<1>1. \A i \in Index : chunk[e][i].status = "NONE" => chunk[e][i].vec = Blank
  BY DEF Unwritten
<1>2. CASE RowsKept
  BY <1>1, <1>2 DEF RowsKept
<1>3. CASE CountParses
  BY <1>1, <1>3, ParsesCounted
<1>4. CASE CountChunks
  BY <1>1, <1>4, ChunksCounted
<1>5. ASSUME NEW d \in Docs, Renewed(d) PROVE Stays
  BY <1>1, <1>5, ParseRenewed
<1>6. ASSUME NEW d \in Docs, ParseSet(d) PROVE Stays
  BY <1>1, <1>6, ParseStatusSet
<1>7. ASSUME NEW d \in Docs, Requeued(d) PROVE Stays
  <2>1. PICK is \in SUBSET Index, s \in {"PENDING", "PROCESSING"} :
          chunk' = WithStatus(chunk, d, is, s) /\ parse' = parse
    BY <1>7 DEF Requeued
  <2>2. s \in Statuses
    BY DEF Statuses
  <2> QED
    BY <1>1, <2>1, <2>2, StatusSet
<1>8. ASSUME NEW d \in Docs, RetryEmbedding(d) PROVE Stays
  BY <1>1, <1>8, EmbeddingRetried
<1>9. ASSUME NEW d \in Docs, CommitBatch(d) PROVE Stays
  BY <1>1, <1>9, BatchStored
<1>10. ASSUME NEW d \in Docs, NEW i \in Index, FailChunk(d, i) PROVE Stays
  BY <1>1, <1>10, ChunkFailed
<1> QED
  BY <1>2, <1>3, <1>4, <1>5, <1>6, <1>7, <1>8, <1>9, <1>10 DEF RowsMove

(* Only a parse of what is committed makes a document found again.          *)
LEMMA FoundAgain ==
  ASSUME Shape, PipeNext, NEW e \in missed \ missed'
  PROVE  PersistParse(e) /\ ~file[e].open
BY ZenonT(60) DEF PipeNext, UserStep, StartUpload, CommitUpload, SetAI, RetryParse, RetryEmbedding,
       RetryRefused, JobStep, RefuseParse, BeginParse, PersistParse, DiscardParse, Plan,
       CommitBatch, StaleBatch, BeginBatch, SkipBatch, JobFault, PersistFailure, FailParse,
       FailBatch, CrashExecutor, Release, FailChunk, LoseJob, ScanStep, StartScan, CountParses,
       CountChunks, CrashScan, ScanSkip, ScanCheck, ScanPublish, ScanPublishFails, Missing

(* A running parse ends in the ways the executor has.                       *)
LEMMA ParseEnds ==
  ASSUME Shape, PipeNext, NEW e \in Docs, run[e].kind = "parse", run'[e] # run[e]
  PROVE  \/ PersistParse(e) \/ PersistFailure(e) \/ DiscardParse(e) \/ FailParse(e)
         \/ CrashExecutor(e)
<1>1. run \in [Docs -> RunRows] /\ run[e] # Free
  BY DEF Shape, Free
<1>2. ASSUME NEW d \in Docs, UserStep(d) PROVE FALSE
  BY <1>2 DEF UserStep, StartUpload, CommitUpload, SetAI, RetryParse, RetryEmbedding,
       RetryRefused, jobVars
<1>3. ASSUME NEW d \in Docs, JobStep(d) PROVE PersistParse(e) \/ DiscardParse(e)
  <2>1. CASE BeginParse(d)
    <3>1. run[d] = Free /\ run' = [run EXCEPT ![d] = run'[d]]
      BY <1>1, <2>1 DEF BeginParse, Ready, Hold, ParseJob, Job
    <3> QED
      BY <1>1, <3>1
  <2>2. ASSUME NEW j, j.doc = d, BeginBatch(j) PROVE FALSE
    <3>1. run[d] = Free /\ run' = [run EXCEPT ![d] = run'[d]]
      BY <1>1, <2>2 DEF BeginBatch, Ready, Hold
    <3> QED
      BY <1>1, <3>1
  <2>3. CASE CommitBatch(d) \/ StaleBatch(d)
    BY <1>1, <2>3 DEF CommitBatch, BatchValid, StaleBatch, Settle
  <2>4. CASE PersistParse(d) \/ DiscardParse(d)
    <3>1. run' = [run EXCEPT ![d] = Free]
      BY <2>4 DEF PersistParse, DiscardParse, Settle
    <3>2. d = e
      BY <1>1, <3>1
    <3> QED
      BY <2>4, <3>2
  <2>5. CASE RefuseParse(d) \/ Plan(d) \/ \E j \in BagToSet(queue) : SkipBatch(j)
    BY <2>5 DEF RefuseParse, Plan, SkipBatch
  <2> QED
    BY <1>3, <2>1, <2>2, <2>3, <2>4, <2>5 DEF JobStep
<1>4. ASSUME NEW d \in Docs, JobFault(d)
      PROVE  PersistFailure(e) \/ FailParse(e) \/ CrashExecutor(e)
  <2>1. CASE PersistFailure(d) \/ FailParse(d) \/ CrashExecutor(d)
    <3>1. run' = [run EXCEPT ![d] = Free] \/ run' = [run EXCEPT ![d] = [kind |-> "orphan"]]
      BY <2>1 DEF PersistFailure, FailParse, CrashExecutor, Settle
    <3>2. d = e
      BY <1>1, <3>1
    <3> QED
      BY <2>1, <3>2
  <2>2. CASE FailBatch(d) \/ Release(d)
    BY <1>1, <2>2 DEF FailBatch, Release, Settle
  <2>3. ASSUME NEW i \in Index, FailChunk(d, i) PROVE FALSE
    BY <1>1, <2>3 DEF FailChunk
  <2>4. ASSUME NEW j \in BagToSet(queue), LoseJob(j) PROVE FALSE
    BY <2>4 DEF LoseJob
  <2> QED
    BY <1>4, <2>1, <2>2, <2>3, <2>4 DEF JobFault
<1>5. ASSUME ScanStep PROVE FALSE
  BY <1>5 DEF ScanStep, StartScan, CountParses, CountChunks, CrashScan, ScanSkip, ScanCheck,
       ScanPublish, ScanPublishFails, jobVars
<1> QED
  BY <1>2, <1>3, <1>4, <1>5 DEF PipeNext

LEMMA ParseDueKept ==
  ASSUME Shape, TriesLeft, Unwritten, ParseDue, PipeNext PROVE ParseDue'
<1> SUFFICES ASSUME NEW e \in Docs, e \notin missed'
             PROVE  /\ file'[e].open => ParseJob(e) \in DOMAIN queue'
                    /\ parse'[e].status = "COMPLETED" /\ parse'[e].ver # file'[e].ver =>
                         \/ ParseJob(e) \in DOMAIN queue'
                         \/ run'[e].kind = "parse" /\ run'[e].ver = file'[e].ver
  BY DEF ParseDue, ParseJob, Job
<1>1. RowsMove /\ QueueTyped /\ Keeps(DOMAIN queue)
  BY PipeMovesRows, QueuesMove
<1>2. /\ file \in [Docs -> FileRows] /\ run \in [Docs -> RunRows] /\ parse \in [Docs -> ParseRows]
  BY DEF Shape
<1>3. CASE e \in missed
  <2>1. PersistParse(e) /\ ~file[e].open
    BY <1>3, FoundAgain
  <2>2. file' = file /\ parse'[e].ver = file[e].ver
    BY <1>2, <2>1, ParseRenews, ParseRenewed DEF PersistParse
  <2> QED
    BY <2>1, <2>2
<1>4. CASE e \notin missed
  <2>1. /\ file[e].open => ParseJob(e) \in DOMAIN queue
        /\ parse[e].status = "COMPLETED" /\ parse[e].ver # file[e].ver =>
             \/ ParseJob(e) \in DOMAIN queue
             \/ run[e].kind = "parse" /\ run[e].ver = file[e].ver
    BY <1>4 DEF ParseDue
  <2>2. CASE ParseTaken(e)
    <3>1. ~RefuseParse(e) /\ ~LoseJob(ParseJob(e))
      BY DEF RefuseParse, LoseJob, Missing, ParseJob, Job
    <3>2. BeginParse(e)
      BY <2>2, <3>1 DEF ParseTaken
    <3>3. ~file[e].open /\ file' = file
      BY <3>2 DEF BeginParse, Missing, rowVars
    <3>4. run'[e].kind = "parse" /\ run'[e].ver = file[e].ver
      BY <1>2, <3>2 DEF BeginParse, Hold, ParseJob, Job
    <3> QED
      BY <3>3, <3>4
  <2>3. CASE CommitUpload(e)
    <3>1. ParseJob(e) \in DOMAIN queue'
      BY <2>1, <2>3 DEF CommitUpload, jobVars
    <3> QED
      BY <3>1
  <2>4. CASE StartUpload(e)
    <3>1. ParseJob(e) \in DocJobs
      BY DEF ParseJob, Job, DocJobs
    <3>2. ParseJob(e) \in DOMAIN queue'
      BY <2>4, <3>1, Publishes DEF StartUpload
    <3> QED
      BY <3>2
  <2>5. CASE ~ParseTaken(e) /\ ~CommitUpload(e) /\ ~StartUpload(e)
    <3>1. file'[e].open = file[e].open /\ file'[e].ver = file[e].ver
      <4>1. ASSUME NEW d \in Docs, CommitUpload(d)
            PROVE  file'[e].open = file[e].open /\ file'[e].ver = file[e].ver
        BY <1>2, <2>5, <4>1 DEF CommitUpload
      <4>2. ASSUME NEW d \in Docs, NEW r \in FileRows, file' = [file EXCEPT ![d] = r],
                   r.ver = file[d].ver, r.open = file[d].open \/ StartUpload(d)
            PROVE  file'[e].open = file[e].open /\ file'[e].ver = file[e].ver
        BY <1>2, <2>5, <4>2
      <4> QED
        BY <4>1, <4>2, FilesMove
    <3>2. ParseJob(e) \in DOMAIN queue => ParseJob(e) \in DOMAIN queue'
      BY <1>1, <2>5 DEF Keeps
    <3>3. ASSUME parse'[e].status = "COMPLETED", parse'[e].ver # file'[e].ver,
                 ParseJob(e) \notin DOMAIN queue'
          PROVE  run'[e].kind = "parse" /\ run'[e].ver = file'[e].ver
      <4>1. parse[e].status = "COMPLETED" /\ parse'[e].ver = parse[e].ver
        BY <1>1, <3>1, <3>3, RowsStay
      <4>2. run[e].kind = "parse" /\ run[e].ver = file[e].ver
        BY <2>1, <3>1, <3>2, <3>3, <4>1
      <4>3. ~PersistParse(e) /\ ~PersistFailure(e)
        BY <3>1, <3>3, ParseRenews, ParseRenewed
      <4>4. ~FailParse(e)
        BY <3>3, ParseSets, ParseStatusSet
      <4>5. ~CrashExecutor(e)
        BY <4>2 DEF CrashExecutor, Missing
      <4>6. ~DiscardParse(e)
        BY <4>2 DEF DiscardParse, Fresh, Missing
      <4>7. run'[e] = run[e]
        BY <4>2, <4>3, <4>4, <4>5, <4>6, ParseEnds
      <4> QED
        BY <3>1, <4>2, <4>7
    <3> QED
      BY <2>1, <3>1, <3>2, <3>3
  <2> QED
    BY <2>2, <2>3, <2>4, <2>5
<1> QED
  BY <1>3, <1>4

(* What FirstOnly says of the rows of a document.                           *)
FirstRows(d) ==
  /\ parse[d].marker \in {Blank, 0}
  /\ Present(d) # {} /\ Present(d) = InStatus(d, "COMPLETED") => parse[d].marker = 0
  /\ d \notin missed => \A i \in Index : chunk[d][i].vec # Blank => chunk[d][i].status = "COMPLETED"

AllEmbedded(d) ==
  /\ \E i \in Index : chunk[d][i].status # "NONE"
  /\ \A i \in Index : chunk[d][i].status \in {"NONE", "COMPLETED"}

LEMMA CompleteIs == \A d : AllEmbedded(d) <=> Present(d) # {} /\ Present(d) = InStatus(d, "COMPLETED")
BY DEF AllEmbedded, Present, InStatus

LEMMA FirstRowsKept ==
  ASSUME Shape, TriesLeft, FirstOnly, RowsMove, NEW e \in Docs
  PROVE  FirstRows(e)'
<1> DEFINE First ==
      /\ parse'[e].marker \in {Blank, 0}
      /\ AllEmbedded(e)' => parse'[e].marker = 0
      /\ e \notin missed' =>
           \A i \in Index : chunk'[e][i].vec # Blank => chunk'[e][i].status = "COMPLETED"
<1>1. /\ loaded.executor = 0 /\ loaded.app = 0
      /\ \A d \in Docs :
           /\ parse[d].marker \in {Blank, 0}
           /\ AllEmbedded(d) => parse[d].marker = 0
           /\ d \notin missed =>
                \A i \in Index : chunk[d][i].vec # Blank => chunk[d][i].status = "COMPLETED"
  BY CompleteIs DEF FirstOnly
<1>0. ASSUME parse'[e].marker = parse[e].marker, missed \subseteq missed',
             \A i \in Index : /\ chunk'[e][i].status = chunk[e][i].status
                              /\ chunk'[e][i].vec = chunk[e][i].vec
      PROVE  First
  <2>1. AllEmbedded(e)' => AllEmbedded(e)
    BY <1>0 DEF AllEmbedded
  <2> QED
    BY <1>0, <1>1, <2>1
<1>2. ASSUME RowsKept PROVE First
  BY <1>0, <1>2 DEF RowsKept
<1>3. ASSUME CountParses PROVE First
  BY <1>0, <1>3, ParsesCounted
<1>4. ASSUME CountChunks PROVE First
  BY <1>0, <1>4, ChunksCounted
<1>5. ASSUME NEW d \in Docs, Renewed(d) PROVE First
  BY <1>1, <1>5, ParseRenewed DEF AllEmbedded
<1>6. ASSUME NEW d \in Docs, ParseSet(d) PROVE First
  BY <1>1, <1>6, ParseStatusSet DEF AllEmbedded
<1>7. ASSUME NEW d \in Docs, Requeued(d) PROVE First
  <2>1. PICK is \in SUBSET Index, s \in {"PENDING", "PROCESSING"} :
          /\ chunk' = WithStatus(chunk, d, is, s) /\ parse' = parse
          /\ missed \subseteq missed'
          /\ \A i \in is :
               chunk[d][i].status = "COMPLETED" /\ chunk[d][i].vec # Blank => d \in missed'
    BY <1>7 DEF Requeued
  <2>2. s \in Statuses
    BY DEF Statuses
  <2>3. /\ \A b \in Docs \ {d} : chunk'[b] = chunk[b]
        /\ \A i \in Index :
             /\ chunk'[d][i].vec = chunk[d][i].vec
             /\ chunk'[d][i].status = IF i \in is THEN s ELSE chunk[d][i].status
    BY <2>1, <2>2, StatusSet
  <2>4. CASE is = {}
    BY <1>1, <2>1, <2>3, <2>4 DEF AllEmbedded
  <2>5. CASE is # {}
    <3>1. PICK k \in is : k \in Index
      BY <2>5
    <3>2. chunk'[d][k].status \notin {"NONE", "COMPLETED"}
      BY <2>3, <3>1
    <3>3. e = d => ~AllEmbedded(e)'
      BY <3>1, <3>2 DEF AllEmbedded
    <3>4. e # d => AllEmbedded(e)' = AllEmbedded(e)
      BY <2>3 DEF AllEmbedded
    <3>5. e \notin missed' =>
            \A i \in Index : chunk'[e][i].vec # Blank => chunk'[e][i].status = "COMPLETED"
      BY <1>1, <2>1, <2>3
    <3> QED
      BY <1>1, <2>1, <3>3, <3>4, <3>5
  <2> QED
    BY <2>4, <2>5
<1>8. ASSUME NEW d \in Docs, RetryEmbedding(d) PROVE First
  <2>1. /\ \A i \in Index : chunk[d][i].status = "COMPLETED" => chunk'[d][i].status = "COMPLETED"
        /\ \E i \in Index : chunk'[d][i].status = "PENDING"
    BY <1>1, <1>8, EmbeddingRetried
  <2>2. ~AllEmbedded(d)'
    BY <2>1 DEF AllEmbedded
  <2>3. CASE e = d
    BY <1>1, <1>8, <2>1, <2>2, <2>3, EmbeddingRetried
  <2>4. CASE e # d
    BY <1>0, <1>8, <2>4, EmbeddingRetried
  <2> QED
    BY <2>3, <2>4
<1>9. ASSUME NEW d \in Docs, CommitBatch(d) PROVE First
  <2>1. /\ \A b \in Docs \ {d} : parse'[b] = parse[b] /\ chunk'[b] = chunk[b]
        /\ parse'[d].marker = IF \A i \in Present(d) : chunk'[d][i].status = "COMPLETED"
                              THEN 0 ELSE parse[d].marker
        /\ \A i \in Index : \/ chunk'[d][i] = chunk[d][i]
                            \/ chunk'[d][i].status = "COMPLETED"
        /\ missed' = missed
    BY <1>1, <1>9, BatchStored
  <2>2. AllEmbedded(d)' => \A i \in Present(d) : chunk'[d][i].status = "COMPLETED"
    <3>1. ASSUME NEW i \in Present(d), AllEmbedded(d)' PROVE chunk'[d][i].status = "COMPLETED"
      BY <2>1, <3>1 DEF AllEmbedded, Present
    <3> QED
      BY <3>1
  <2> QED
    BY <1>1, <2>1, <2>2 DEF AllEmbedded
<1>10. ASSUME NEW d \in Docs, NEW i \in Index, FailChunk(d, i) PROVE First
  BY <1>1, <1>10, ChunkFailed DEF AllEmbedded
<1> HIDE DEF First
<1>11. First
  BY <1>2, <1>3, <1>4, <1>5, <1>6, <1>7, <1>8, <1>9, <1>10 DEF RowsMove
<1>12. AllEmbedded(e)' <=> (Present(e) # {} /\ Present(e) = InStatus(e, "COMPLETED"))'
  BY DEF AllEmbedded, Present, InStatus
<1> QED
  BY <1>11, <1>12 DEF FirstRows, First

(* A generation that has been prepared is known for good.                   *)
LEMMA RuntimeStays ==
  ASSUME TypeInv, DocNext, OneRuntime'
  PROVE  \/ OneRuntime /\ PipeNext /\ change' = change
         \/ OneRuntime /\ \E p \in DOMAIN loaded : Restart(p)
<1>1. ChangeShape /\ 0 \in Generations
  BY PipelineAssumption DEF TypeInv, Generations
<1>2. CASE PrepareGeneration
  <2>1. PICK g \in Generations :
          IsNextGen(g) /\ genStatus' = [genStatus EXCEPT ![g] = "PREPARING"]
    BY <1>2 DEF PrepareGeneration
  <2>2. g # 0 /\ genStatus'[g] = "PREPARING"
    BY <1>1, <2>1 DEF IsNextGen, ChangeShape
  <2> QED
    BY <2>1, <2>2 DEF OneRuntime
<1>3. CASE change # NoChange /\ ChangeStep
  <2>1. /\ change.gen \in Generations \ {0} /\ genStatus[change.gen] # "NONE"
        /\ genStatus \in [Generations -> GenStatuses]
    BY <1>1, <1>3 DEF ChangeShape
  <2>2. \/ UNCHANGED genStatus
        \/ \E s \in {"VALIDATED", "FAILED", "READY"} : SetGen(s)
        \/ StartReembedding \/ Activate
    BY <1>3 DEF ChangeStep, ValidateOnly, ProbeFails, ClaimChunk, StoreChunk, CompleteChunk,
         ChunkFails, ChangeDies, Covered, NotCovered, InstallRuntime
  <2>3. genStatus'[change.gen] # "NONE"
    BY <2>1, <2>2 DEF SetGen, StartReembedding, Activate
  <2> QED
    BY <2>1, <2>3 DEF OneRuntime
<1>4. CASE PipeNext /\ Disturb /\ UNCHANGED <<change, genStatus>>
  BY <1>4 DEF OneRuntime
<1>5. ASSUME NEW p \in DOMAIN loaded, Restart(p) PROVE OneRuntime
  BY <1>5 DEF OneRuntime, Restart, changeVars
<1> QED
  BY <1>2, <1>3, <1>4, <1>5 DEF DocNext

LEMMA FirstOnlyKept == ASSUME TypeInv, PipelineInv, DocNext, OneRuntime' PROVE FirstOnly'
<1>1. /\ Shape /\ TriesLeft /\ OneRuntime /\ FirstOnly
      /\ active = 0 /\ loaded.app = 0 /\ loaded.executor = 0 /\ change = NoChange
      /\ loaded \in [{"app", "executor"} -> Generations]
  BY RuntimeStays DEF TypeInv, PipelineInv, FirstOnly, Shape
<1>2. PipeNext /\ change' = change
  <2>1. ASSUME NEW p \in DOMAIN loaded, Restart(p) PROVE FALSE
    BY <1>1, <2>1 DEF Restart
  <2> QED
    BY <2>1, RuntimeStays
<1>3. /\ active' = active
      /\ \/ loaded' = loaded
         \/ loaded' = [loaded EXCEPT !.executor = active]
  BY <1>2, ZenonT(60) DEF PipeNext, UserStep, StartUpload, CommitUpload, SetAI, RetryParse, RetryEmbedding,
         RetryRefused, JobStep, RefuseParse, BeginParse, PersistParse, DiscardParse, Plan,
         CommitBatch, StaleBatch, BeginBatch, SkipBatch, JobFault, PersistFailure, FailParse,
         FailBatch, CrashExecutor, Release, FailChunk, LoseJob, ScanStep, StartScan, CountParses,
         CountChunks, CrashScan, ScanSkip, ScanCheck, ScanPublish, ScanPublishFails
<1>4. \A d \in Docs : FirstRows(d)'
  BY <1>1, <1>2, PipeMovesRows, FirstRowsKept
<1>5. active' = 0 /\ loaded'.app = 0 /\ loaded'.executor = 0 /\ change' = NoChange
  BY <1>1, <1>2, <1>3 DEF NoChange
<1> QED
  BY <1>4, <1>5 DEF FirstOnly, FirstRows, NoChange

LEMMA PipelineKept == TypeInv /\ PipelineInv /\ DocNext => PipelineInv'
<1> SUFFICES ASSUME TypeInv, PipelineInv, DocNext PROVE PipelineInv'
  OBVIOUS
<1>1. Shape /\ TriesLeft /\ ChangeShape /\ Unwritten /\ Parsed /\ ParseDue
  BY DEF TypeInv, PipelineInv
<1>2. OneRuntime' => FirstOnly'
  BY FirstOnlyKept
<1>3. CASE PipeNext
  <2>1. Unwritten'
    BY <1>1, <1>3, PipeMovesRows, RowsStay DEF Unwritten
  <2>2. Parsed'
    <3>1. ASSUME NEW d \in Docs, parse'[d].status = "COMPLETED", NEW i \in Index
          PROVE  chunk'[d][i].status # "NONE"
      BY <1>1, <1>3, <3>1, PipeMovesRows, RowsStay DEF Parsed, Present
    <3> QED
      BY <3>1 DEF Parsed, Present
  <2>3. ParseDue'
    BY <1>1, <1>3, ParseDueKept
  <2> QED
    BY <1>2, <2>1, <2>2, <2>3 DEF PipelineInv
<1>4. CASE OnlyMarks
  <2>1. Unwritten'
    BY <1>1, <1>4 DEF Unwritten, OnlyMarks
  <2>2. Parsed'
    BY <1>1, <1>4 DEF Parsed, Present, OnlyMarks
  <2>3. ParseDue'
    <3>1. /\ file' = file /\ queue' = queue /\ missed' = missed
          /\ \A d \in Docs : /\ parse'[d].status = parse[d].status /\ parse'[d].ver = parse[d].ver
                             /\ run[d].kind = "parse" => run'[d] = run[d]
          /\ \A d : ParseJob(d)' = ParseJob(d)
      BY <1>4 DEF OnlyMarks, ParseJob, Job
    <3> QED
      BY <1>1, <3>1 DEF ParseDue
  <2> QED
    BY <1>2, <2>1, <2>2, <2>3 DEF PipelineInv
<1> QED
  BY <1>1, <1>3, <1>4, ChangeMoves DEF DocNext

-----------------------------------------------------------------------------
(* Which vectors a document has. *)

LEMMA VectorsMove ==
  ASSUME Shape, TriesLeft, RowsMove, NEW e \in Docs, NEW i \in Index
  PROVE  /\ chunk'[e][i].vec \in {chunk[e][i].vec, Blank, loaded.executor}
         /\ parse'[e].gen # parse[e].gen => chunk'[e][i].vec = Blank
<1> DEFINE Moves == /\ chunk'[e][i].vec \in {chunk[e][i].vec, Blank, loaded.executor}
                    /\ parse'[e].gen # parse[e].gen => chunk'[e][i].vec = Blank
<1>2. ASSUME RowsKept PROVE Moves
  BY <1>2 DEF RowsKept
<1>3. ASSUME CountParses PROVE Moves
  BY <1>3, ParsesCounted
<1>4. ASSUME CountChunks PROVE Moves
  BY <1>4, ChunksCounted
<1>5. ASSUME NEW d \in Docs, Renewed(d) PROVE Moves
  BY <1>5, ParseRenewed
<1>6. ASSUME NEW d \in Docs, ParseSet(d) PROVE Moves
  BY <1>6, ParseStatusSet
<1>7. ASSUME NEW d \in Docs, Requeued(d) PROVE Moves
  <2>1. PICK is \in SUBSET Index, s \in {"PENDING", "PROCESSING"} :
          chunk' = WithStatus(chunk, d, is, s) /\ parse' = parse
    BY <1>7 DEF Requeued
  <2>2. s \in Statuses
    BY DEF Statuses
  <2> QED
    BY <2>1, <2>2, StatusSet
<1>8. ASSUME NEW d \in Docs, RetryEmbedding(d) PROVE Moves
  BY <1>8, EmbeddingRetried
<1>9. ASSUME NEW d \in Docs, CommitBatch(d) PROVE Moves
  BY <1>9, BatchStored
<1>10. ASSUME NEW d \in Docs, NEW j \in Index, FailChunk(d, j) PROVE Moves
  BY <1>10, ChunkFailed
<1> QED
  BY <1>2, <1>3, <1>4, <1>5, <1>6, <1>7, <1>8, <1>9, <1>10 DEF RowsMove

(* What the pipeline does to a document that stays undisturbed.             *)
LEMMA UndisturbedMove ==
  ASSUME Shape, TriesLeft, PipeNext, Disturb, NEW d \in Docs \ disturbed'
  PROVE  /\ ~Settled => /\ d \notin disturbed
                        /\ file'[d] = file[d] /\ chunk'[d] = chunk[d] /\ parse'[d] = parse[d]
         /\ Settled => \/ d \notin disturbed /\ \A i \in Index :
                            chunk'[d][i].vec \in {chunk[d][i].vec, Blank, active}
                       \/ \A i \in Index : chunk'[d][i].vec = Blank
<1>1. ASSUME ~Settled
      PROVE  /\ d \notin disturbed
             /\ file'[d] = file[d] /\ chunk'[d] = chunk[d] /\ parse'[d] = parse[d]
  BY <1>1 DEF Disturb
<1>2. ASSUME Settled
      PROVE  \/ d \notin disturbed /\ \A i \in Index :
                  chunk'[d][i].vec \in {chunk[d][i].vec, Blank, active}
             \/ \A i \in Index : chunk'[d][i].vec = Blank
  <2>1. loaded.executor = active
    BY <1>2 DEF Settled, Shape
  <2>2. d \notin disturbed \/ parse'[d].gen # parse[d].gen
    BY DEF Disturb
  <2> QED
    BY <2>1, <2>2, PipeMovesRows, VectorsMove
<1> QED
  BY <1>1, <1>2

(* The shape of the corpus that a change sees stays under its own steps.    *)
LEMMA CorpusStays ==
  ASSUME Shape, OnlyMarks
  PROVE  /\ Targets' = Targets
         /\ \A d \in Docs : Present(d)' = Present(d)
         /\ \A d \in Docs, i \in Index : Row(d, i)' = Row(d, i)
         /\ \A c \in RowIds : Exists(c)' = Exists(c)
<1>1. \A d \in Docs : Present(d)' = Present(d)
  BY DEF OnlyMarks, Present
<1>2. /\ file' = file
      /\ \A d \in Docs : parse'[d].status = parse[d].status /\ parse'[d].gen = parse[d].gen
  BY DEF OnlyMarks
<1> QED
  BY <1>1, <1>2 DEF Targets, Row, Exists, RowIds

LEMMA OneModelKept == ASSUME DocInv, DocNext PROVE OneModel'
<1>1. /\ Shape /\ TriesLeft /\ ChangeShape /\ Unwritten /\ OneModel /\ Covering
      /\ NoChange.at = "none"
  BY DEF DocInv, TypeInv, PipelineInv, ChangeInv, NoChange
<1> SUFFICES ASSUME change'.at \in {"none", "prepared"},
                    NEW d \in Docs \ disturbed', NEW i \in Index
             PROVE  chunk'[d][i].vec \in {Blank, active'}
  BY DEF OneModel
<1>2. CASE PipeNext /\ Disturb /\ UNCHANGED <<change, genStatus>>
  <2>1. active' = active
    BY <1>2, ZenonT(60) DEF PipeNext, UserStep, StartUpload, CommitUpload, SetAI, RetryParse, RetryEmbedding,
         RetryRefused, JobStep, RefuseParse, BeginParse, PersistParse, DiscardParse, Plan,
         CommitBatch, StaleBatch, BeginBatch, SkipBatch, JobFault, PersistFailure, FailParse,
         FailBatch, CrashExecutor, Release, FailChunk, LoseJob, ScanStep, StartScan, CountParses,
         CountChunks, CrashScan, ScanSkip, ScanCheck, ScanPublish, ScanPublishFails
  <2>2. d \notin disturbed => chunk[d][i].vec \in {Blank, active}
    BY <1>1, <1>2 DEF OneModel
  <2> QED
    BY <1>1, <1>2, <2>1, <2>2, UndisturbedMove
<1>3. CASE PrepareGeneration
  BY <1>1, <1>3 DEF PrepareGeneration, OneModel, rowVars
<1>4. ASSUME NEW p \in DOMAIN loaded, Restart(p) PROVE chunk'[d][i].vec \in {Blank, active'}
  BY <1>1, <1>4 DEF Restart, OneModel, rowVars, changeVars
<1>5. CASE change # NoChange /\ ChangeStep
  <2>1. Present(d) = {} => chunk[d][i].vec = Blank
    BY <1>1 DEF Present, Unwritten
  <2>2. CASE ValidateOnly \/ ProbeFails
    BY <1>1, <2>2 DEF ValidateOnly, ProbeFails, OneModel, pipeVars, rowVars
  <2>3. CASE ChangeDies \/ NotCovered
    <3>1. chunk' = chunk /\ DisturbAll(Docs)
      BY <2>3 DEF ChangeDies, NotCovered, pipeVars, rowVars
    <3>2. Present(d) = {}
      BY <3>1 DEF DisturbAll
    <3> QED
      BY <2>1, <3>1, <3>2
  <2>4. CASE Activate
    <3>1. /\ chunk' = chunk /\ active' = active /\ change.at = "installed"
          /\ DisturbAll(Docs \ IF change.skip THEN {} ELSE Targets)
      BY <2>4 DEF Activate
    <3>2. CASE Present(d) = {}
      BY <2>1, <3>1, <3>2
    <3>3. CASE Present(d) # {}
      <4>1. ~change.skip /\ d \in Targets \ disturbed
        BY <3>1, <3>3 DEF DisturbAll
      <4>2. \A j \in Present(d) : chunk[d][j].vec = active
        BY <1>1, <3>1, <4>1 DEF Covering, Embedding, CoveredSoFar, Done
      <4>3. i \notin Present(d) => chunk[d][i].vec = Blank
        BY <1>1 DEF Present, Unwritten
      <4> QED
        BY <3>1, <4>2, <4>3
    <3> QED
      BY <3>2, <3>3
  <2>5. CASE \/ StartReembedding \/ (\E c \in change.todo : ClaimChunk(c)) \/ StoreChunk
             \/ CompleteChunk \/ ChunkFails \/ Covered \/ InstallRuntime
    BY <1>1, <1>5, <2>5, ChangeGoesOn DEF ChangeAs
  <2> QED
    BY <1>5, <2>2, <2>3, <2>4, <2>5 DEF ChangeStep
<1> QED
  BY <1>2, <1>3, <1>4, <1>5 DEF DocNext

(* What is covered and stored stays so where the rows, the list and the     *)
(* stage of the change stay.                                                *)
LEMMA CoverageCarries ==
  ASSUME CoveredSoFar, change'.gen = change.gen,
         change.failed = 0 \/ change'.failed # 0,
         change.todo \subseteq change'.todo, change.now \subseteq change'.now,
         \A d \in Docs \ disturbed' :
           /\ d \notin disturbed
           /\ d \in Targets' => d \in Targets
           /\ \A i \in Index : Row(d, i)' = Row(d, i) /\ chunk'[d][i] = chunk[d][i]
  PROVE  CoveredSoFar'
<1> SUFFICES ASSUME change'.failed = 0, NEW d \in Targets' \ disturbed', NEW i \in Present(d)'
             PROVE  Row(d, i)' \in change'.todo \cup change'.now \/ Done(d, i)'
  BY DEF CoveredSoFar
<1>1. d \in Docs /\ i \in Index /\ d \in Targets \ disturbed
  BY DEF Targets, Present
<1>2. i \in Present(d)
  BY <1>1 DEF Present
<1>3. Row(d, i) \in change.todo \cup change.now \/ Done(d, i)
  BY <1>1, <1>2 DEF CoveredSoFar
<1> QED
  BY <1>1, <1>3 DEF Done

LEMMA CoveringKept == ASSUME DocInv, DocNext PROVE Covering'
<1>1. /\ Shape /\ TriesLeft /\ ChangeShape /\ Covering /\ NoChange.at = "none"
  BY DEF DocInv, TypeInv, ChangeInv, NoChange
<1>2. ASSUME change'.at = "none" PROVE Covering'
  BY <1>2 DEF Covering, Embedding
<1>3. CASE PipeNext /\ Disturb /\ UNCHANGED <<change, genStatus>>
  <2>1. active' = active
    BY <1>3, ZenonT(60) DEF PipeNext, UserStep, StartUpload, CommitUpload, SetAI, RetryParse, RetryEmbedding,
         RetryRefused, JobStep, RefuseParse, BeginParse, PersistParse, DiscardParse, Plan,
         CommitBatch, StaleBatch, BeginBatch, SkipBatch, JobFault, PersistFailure, FailParse,
         FailBatch, CrashExecutor, Release, FailChunk, LoseJob, ScanStep, StartScan, CountParses,
         CountChunks, CrashScan, ScanSkip, ScanCheck, ScanPublish, ScanPublishFails
  <2>2. CASE Embedding
    <3>1. ~Settled
      BY <1>1, <2>2 DEF Embedding, Settled
    <3>2. \A d \in Docs \ disturbed' :
            /\ d \notin disturbed
            /\ file'[d] = file[d] /\ chunk'[d] = chunk[d] /\ parse'[d] = parse[d]
      BY <1>1, <1>3, <3>1, UndisturbedMove
    <3>3. \A d \in Docs \ disturbed' :
            /\ d \notin disturbed /\ d \in Targets' => d \in Targets
            /\ \A i \in Index : Row(d, i)' = Row(d, i) /\ chunk'[d][i] = chunk[d][i]
      BY <3>2 DEF Targets, Present, Row
    <3>4. CoveredSoFar'
      <4>1. \A d \in Docs \ disturbed' :
              /\ d \notin disturbed
              /\ d \in Targets' => d \in Targets
              /\ \A i \in Index : Row(d, i)' = Row(d, i) /\ chunk'[d][i] = chunk[d][i]
        BY <3>2, <3>3
      <4> QED
        BY <1>1, <1>3, <2>2, <4>1, CoverageCarries DEF Covering
    <3>5. StoredNow'
      <4>1. ASSUME NEW c \in change.now, change.at = "stored", c.doc \notin disturbed', Exists(c)'
            PROVE  chunk'[c.doc][c.i].vec = change.gen
        <5>1. c.doc \in Docs
          BY <1>1, <2>2, <4>1 DEF ChangeShape, RowIds, NoChange
        <5>2. c.doc \notin disturbed /\ chunk'[c.doc] = chunk[c.doc] /\ parse'[c.doc] = parse[c.doc]
          BY <3>2, <4>1, <5>1
        <5>3. Exists(c)
          BY <4>1, <5>2 DEF Exists, Present
        <5> QED
          BY <1>1, <2>2, <4>1, <5>2, <5>3 DEF Covering, StoredNow
      <4> QED
        BY <1>3, <4>1 DEF StoredNow
    <3> QED
      BY <1>1, <1>3, <2>1, <2>2, <3>4, <3>5 DEF Covering, Embedding
  <2>3. CASE ~Embedding
    BY <1>1, <1>3, <2>1, <2>3 DEF Covering, Embedding
  <2> QED
    BY <2>2, <2>3
<1>4. CASE PrepareGeneration
  BY <1>4 DEF PrepareGeneration, Covering, Embedding
<1>5. ASSUME NEW p \in DOMAIN loaded, Restart(p) PROVE Covering'
  <2>1. UNCHANGED <<file, parse, chunk, active, change, disturbed>>
    BY <1>5 DEF Restart, rowVars, changeVars
  <2>2. CoveredSoFar' = CoveredSoFar /\ StoredNow' = StoredNow
    BY <2>1 DEF CoveredSoFar, StoredNow, Targets, Present, Row, Done, Exists
  <2> QED
    BY <1>1, <2>1, <2>2 DEF Covering, Embedding
<1>6. CASE change # NoChange /\ ChangeStep
  <2>1. OnlyMarks
    BY <1>1, <1>6, ChangeMoves
  <2>2. /\ Targets' = Targets
        /\ \A d \in Docs : Present(d)' = Present(d)
        /\ \A d \in Docs, i \in Index : Row(d, i)' = Row(d, i)
        /\ \A c \in RowIds : Exists(c)' = Exists(c)
    BY <1>1, <2>1, CorpusStays
  <2>3. /\ change.todo \subseteq RowIds /\ change.now \subseteq RowIds
        /\ change.failed \in Nat /\ change.gen \in Generations
    BY <1>1, <1>6 DEF ChangeShape
  <2>4. CASE ValidateOnly \/ ProbeFails \/ ChangeDies \/ NotCovered \/ Activate
    BY <1>1, <1>2, <2>4 DEF ValidateOnly, ProbeFails, ChangeDies, NotCovered, Activate, EndChange
  <2>5. CASE StartReembedding
    <3>1. /\ ChangeAs("embedding", Rows(Targets), change.now, change.failed, change.skip)
          /\ change.at = "prepared"
      BY <1>1, <1>6, <2>5, ChangeGoesOn DEF StartReembedding
    <3>2. \A d \in Targets : \A i \in Present(d) : Row(d, i) \in change'.todo
      BY <1>1, <3>1, RowsAreIds DEF ChangeAs
    <3>3. CoveredSoFar'
      <4>1. \A d \in Targets : d \in Docs /\ Present(d) \subseteq Index
        BY DEF Targets, Present
      <4> QED
        BY <2>2, <3>2, <4>1 DEF CoveredSoFar
    <3> QED
      BY <1>1, <3>1, <3>3 DEF Covering, ChangeAs, StoredNow, Embedding
  <2>6. ASSUME NEW c \in change.todo, ClaimChunk(c) PROVE Covering'
    <3>1. /\ ChangeAs("claimed", change.todo \ {c}, {c}, change.failed, change.skip)
          /\ change.at = "embedding" /\ disturbed' = disturbed /\ c \in RowIds
      BY <1>1, <1>6, <2>3, <2>6, ChangeGoesOn DEF ClaimChunk
    <3>2. \A d \in Docs, i \in Index : chunk'[d][i] = chunk[d][i] \/ Row(d, i) = c
      <4>1. CASE Exists(c)
        <5>1. PICK r \in ChunkRows : Over(c, r)
          BY <1>1, <1>6, <2>6, <3>1, <4>1, ChunkEmbedded DEF ClaimChunk
        <5>2. \A d \in Docs, i \in Index :
                chunk'[d][i] = chunk[d][i] \/ (d = c.doc /\ i = c.i)
          BY <1>1, <3>1, <5>1, ChunkWritten DEF Over
        <5>3. Row(c.doc, c.i) = c
          BY <3>1, <4>1 DEF Exists, Row, RowIds
        <5> QED
          BY <5>2, <5>3
      <4>2. CASE ~Exists(c)
        BY <2>6, <4>2 DEF ClaimChunk
      <4> QED
        BY <4>1, <4>2
    <3>3. CoveredSoFar'
      <4> SUFFICES ASSUME change'.failed = 0, NEW d \in Targets \ disturbed, NEW i \in Present(d)
                   PROVE  Row(d, i) \in change'.todo \cup change'.now \/ Done(d, i)'
        BY <2>2, <3>1 DEF CoveredSoFar, Targets, Present
      <4>1. d \in Docs /\ i \in Index
        BY DEF Targets, Present
      <4>2. Row(d, i) \in change.todo \cup change.now \/ Done(d, i)
        BY <1>1, <3>1 DEF Covering, Embedding, CoveredSoFar, ChangeAs
      <4>3. change.now = {}
        BY <1>1, <3>1 DEF Covering
      <4> QED
        BY <3>1, <3>2, <4>1, <4>2, <4>3 DEF ChangeAs, Done
    <3> QED
      BY <1>1, <3>1, <3>3 DEF Covering, ChangeAs, StoredNow, Embedding
  <2>7. CASE StoreChunk \/ CompleteChunk \/ ChunkFails
    <3>1. PICK c \in RowIds : change.now = {c}
      BY <1>1, <1>6, <2>7 DEF ChangeShape, StoreChunk, CompleteChunk, ChunkFails
    <3>2. disturbed' = disturbed
      BY <2>7 DEF StoreChunk, CompleteChunk, ChunkFails
    <3>3. CASE ChunkFails
      <4>1. /\ ChangeAs("embedding", change.todo, {}, change.failed + 1, change.skip)
            /\ change.at = "claimed"
        BY <1>1, <1>6, <3>3, ChangeGoesOn DEF ChunkFails
      <4>2. change'.failed # 0
        BY <2>3, <4>1 DEF ChangeAs
      <4> QED
        BY <1>1, <4>1, <4>2 DEF Covering, ChangeAs, CoveredSoFar, StoredNow, Embedding
    <3>4. CASE StoreChunk
      <4>1. /\ ChangeAs("stored", change.todo, change.now, change.failed, change.skip)
            /\ change.at = "claimed" /\ Exists(c)
            /\ chunk' = [chunk EXCEPT ![c.doc][c.i].vec = change.gen]
        BY <1>1, <1>6, <3>1, <3>4, ChangeGoesOn DEF StoreChunk
      <4>2. PICK r \in ChunkRows :
              Over(c, r) /\ r.status = chunk[c.doc][c.i].status /\ r.vec = change.gen
        BY <1>1, <1>6, <4>1, ChunkEmbedded
      <4>3. /\ chunk'[c.doc][c.i] = r
            /\ \A d \in Docs, i \in Index : chunk'[d][i] = chunk[d][i] \/ (d = c.doc /\ i = c.i)
        BY <1>1, <4>2, ChunkWritten DEF Over
      <4>4. \A d \in Docs, i \in Index : Done(d, i) => Done(d, i)'
        BY <4>1, <4>2, <4>3 DEF Done, ChangeAs
      <4>5. CoveredSoFar'
        <5> SUFFICES ASSUME change'.failed = 0, NEW d \in Targets \ disturbed, NEW i \in Present(d)
                     PROVE  Row(d, i) \in change'.todo \cup change'.now \/ Done(d, i)'
          BY <2>2, <3>2 DEF CoveredSoFar, Targets, Present
        <5>1. d \in Docs /\ i \in Index
          BY DEF Targets, Present
        <5>2. Row(d, i) \in change.todo \cup change.now \/ Done(d, i)
          BY <1>1, <4>1 DEF Covering, Embedding, CoveredSoFar, ChangeAs
        <5> QED
          BY <4>1, <4>4, <5>1, <5>2 DEF ChangeAs
      <4>6. StoredNow'
        BY <3>1, <4>1, <4>2, <4>3 DEF StoredNow, ChangeAs
      <4> QED
        BY <1>1, <4>1, <4>5, <4>6 DEF Covering, ChangeAs, Embedding
    <3>5. CASE CompleteChunk
      <4>1. /\ ChangeAs("embedding", change.todo, {}, change.failed, change.skip)
            /\ change.at = "stored"
        BY <1>1, <1>6, <3>5, ChangeGoesOn DEF CompleteChunk
      <4>2. CoveredSoFar'
        <5> SUFFICES ASSUME change'.failed = 0, NEW d \in Targets \ disturbed, NEW i \in Present(d)
                     PROVE  Row(d, i) \in change'.todo \cup change'.now \/ Done(d, i)'
          BY <2>2, <3>2 DEF CoveredSoFar, Targets, Present
        <5>1. d \in Docs /\ i \in Index
          BY DEF Targets, Present
        <5>2. Row(d, i) \in change.todo \cup change.now \/ Done(d, i)
          BY <1>1, <4>1 DEF Covering, Embedding, CoveredSoFar, ChangeAs
        <5>3. CASE Exists(c)
          <6>1. chunk' = WithStatus(chunk, c.doc, {c.i}, "COMPLETED")
            BY <3>1, <3>5, <5>3 DEF CompleteChunk
          <6>2. PICK r \in ChunkRows :
                  Over(c, r) /\ r.status = "COMPLETED" /\ r.vec = chunk[c.doc][c.i].vec
            BY <1>1, <1>6, <5>3, <6>1, ChunkEmbedded
          <6>3. /\ chunk'[c.doc][c.i] = r
                /\ \A e \in Docs, j \in Index :
                     chunk'[e][j] = chunk[e][j] \/ (e = c.doc /\ j = c.i)
            BY <1>1, <6>2, ChunkWritten DEF Over
          <6>4. Done(d, i) => Done(d, i)'
            BY <4>1, <5>1, <6>2, <6>3 DEF Done, ChangeAs
          <6>5. Row(d, i) = c => Done(d, i)'
            <7>1. ASSUME Row(d, i) = c PROVE d = c.doc /\ i = c.i
              BY <7>1 DEF Row
            <7>2. ASSUME Row(d, i) = c PROVE chunk[d][i].vec = change.gen
              BY <1>1, <3>1, <4>1, <5>3, <7>1, <7>2 DEF Covering, Embedding, StoredNow
            <7> QED
              BY <4>1, <6>2, <6>3, <7>1, <7>2 DEF Done, ChangeAs
          <6> QED
            BY <3>1, <4>1, <5>2, <6>4, <6>5 DEF ChangeAs
        <5>4. CASE ~Exists(c)
          <6>1. chunk' = chunk
            BY <3>1, <3>5, <5>4 DEF CompleteChunk
          <6>2. Row(d, i) # c
            BY <5>4 DEF Row, Exists
          <6> QED
            BY <3>1, <4>1, <5>2, <6>1, <6>2 DEF ChangeAs, Done
        <5> QED
          BY <5>3, <5>4
      <4> QED
        BY <1>1, <4>1, <4>2 DEF Covering, ChangeAs, StoredNow, Embedding
    <3> QED
      BY <2>7, <3>3, <3>4, <3>5
  <2>8. CASE Covered \/ InstallRuntime
    <3>1. /\ UNCHANGED <<file, parse, chunk, disturbed>>
          /\ \/ /\ Covered /\ active' = active
                /\ ChangeAs("ready", change.todo, change.now, change.failed, change.skip)
                /\ change.at = "embedding" /\ change.todo = {} /\ change.failed = 0
             \/ /\ InstallRuntime /\ active' = change.gen
                /\ change.at \in {"prepared", "ready"}
                /\ ChangeAs("installed", change.todo, change.now, change.failed,
                            change.at = "prepared")
      BY <1>1, <1>6, <2>8, ChangeGoesOn DEF Covered, InstallRuntime, pipeVars, rowVars
    <3>2. Embedding => CoveredSoFar'
      <4>1. ASSUME Embedding
            PROVE  /\ CoveredSoFar
                   /\ change'.todo = change.todo /\ change'.now = change.now
                   /\ change'.failed = change.failed /\ change'.gen = change.gen
        BY <1>1, <3>1, <4>1 DEF Covering, ChangeAs
      <4>2. Targets' = Targets /\ \A d : \A i : Row(d, i)' = Row(d, i)
        BY <3>1 DEF Targets, Present, Row
      <4> QED
        BY <3>1, <4>1, <4>2, CoverageCarries
    <3> QED
      BY <1>1, <3>1, <3>2 DEF Covering, ChangeAs, StoredNow, Embedding
  <2> QED
    BY <1>6, <2>4, <2>5, <2>6, <2>7, <2>8 DEF ChangeStep
<1> QED
  BY <1>3, <1>4, <1>5, <1>6 DEF DocNext

-----------------------------------------------------------------------------
(* The invariant and what follows from it. *)

LEMMA InvInit == DocInit => DocInv
<1> SUFFICES ASSUME DocInit PROVE DocInv
  OBVIOUS
<1>1. 0 \in Generations /\ 0 \in Marks /\ Blank \in Marks /\ 0 \in 0..MaxTries /\ MaxTries \in Nat
  BY PipelineAssumption DEF Generations, Marks
<1>2. /\ \A d \in Docs : /\ file[d] = [ver |-> 0, open |-> FALSE, ai |-> FALSE]
                         /\ parse[d] = [status |-> "NONE", ver |-> 0, gen |-> 0, marker |-> Blank,
                                        tries |-> 0]
                         /\ run[d] = Free
                         /\ \A i \in Index : chunk[d][i] = NoChunk
      /\ active = 0 /\ loaded = [app |-> 0, executor |-> 0] /\ scan = NoScan
      /\ change = NoChange /\ disturbed = {} /\ missed = {} /\ queue = EmptyBag
      /\ genStatus = [g \in Generations |-> IF g = 0 THEN "ACTIVE" ELSE "NONE"]
  BY DEF DocInit, PipeInit
<1>3. Shape
  <2>1. file \in [Docs -> FileRows]
    BY <1>2 DEF DocInit, PipeInit, FileRows
  <2>2. parse \in [Docs -> ParseRows]
    BY <1>1, <1>2 DEF DocInit, PipeInit, ParseRows, Statuses
  <2>3. chunk \in [Docs -> [Index -> ChunkRows]]
    BY <1>1, <1>2 DEF DocInit, PipeInit, ChunkRows, NoChunk, Statuses
  <2>4. run \in [Docs -> RunRows] /\ scan \in Scans
    BY <1>2 DEF DocInit, PipeInit, RunRows, NoScan, Scans
  <2>5. loaded \in [{"app", "executor"} -> Generations]
    BY <1>1, <1>2
  <2> QED
    BY <1>1, <1>2, <2>1, <2>2, <2>3, <2>4, <2>5, NothingQueued DEF Shape
<1>4. VersionsKnown
  BY <1>2 DEF VersionsKnown, Free
<1>5. TriesLeft
  BY <1>2 DEF TriesLeft, InScan, NoScan
<1>6. ChangeShape
  BY <1>1, <1>2 DEF ChangeShape, GenStatuses
<1>7. PipelineInv
  <2>1. \A d \in Docs : Present(d) = {}
    BY <1>2 DEF Present, NoChunk
  <2> QED
    BY <1>1, <1>2, <2>1 DEF PipelineInv, Unwritten, Parsed, ParseDue, FirstOnly, NoChunk
<1>8. ChangeInv
  BY <1>2 DEF ChangeInv, OneModel, Covering, Embedding, NoChange, NoChunk
<1> QED
  BY <1>3, <1>4, <1>5, <1>6, <1>7, <1>8 DEF DocInv, TypeInv

LEMMA InvKept == DocInv /\ [DocNext]_docVars => DocInv'
<1> SUFFICES ASSUME DocInv, [DocNext]_docVars PROVE DocInv'
  OBVIOUS
<1>1. CASE DocNext
  BY <1>1, TypeKept, PipelineKept, OneModelKept, CoveringKept DEF DocInv, ChangeInv
<1>2. CASE UNCHANGED docVars
  <2>1. TypeInv'
    BY <1>2 DEF DocInv, TypeInv, Shape, VersionsKnown, TriesLeft, InScan, ChangeShape, docVars,
         pipeVars, rowVars, jobVars, scanVars, changeVars
  <2>2. PipelineInv'
    BY <1>2 DEF DocInv, PipelineInv, Unwritten, Parsed, ParseDue, ParseJob, Job, OneRuntime,
         FirstOnly, Present, InStatus, docVars, pipeVars, rowVars, jobVars, scanVars, changeVars
  <2>3. ChangeInv'
    BY <1>2 DEF DocInv, ChangeInv, OneModel, Covering, CoveredSoFar, StoredNow, Embedding, Row,
         Done, Exists, Targets, Present, docVars, pipeVars, rowVars, jobVars, scanVars, changeVars
  <2> QED
    BY <2>1, <2>2, <2>3 DEF DocInv
<1> QED
  BY <1>1, <1>2

(* The inductive invariant of parsing, embedding, recovery and the change.  *)
THEOREM DocInvariant == DocSpec => []DocInv
BY InvInit, InvKept, PTL DEF DocSpec

(* Every variable of the pipeline and of the change keeps its type; among   *)
(* it, no parse is of a version that is not there and no attempt of the     *)
(* repair scan goes over the limit, whatever the scan has listed meanwhile  *)
(* changes before it is counted.                                            *)
THEOREM DocumentsTypeCorrect == DocSpec => []DocsTypeOK
<1>1. DocInv => DocsTypeOK
  <2> SUFFICES ASSUME DocInv PROVE DocsTypeOK
    OBVIOUS
  <2>1. Shape /\ VersionsKnown /\ ChangeShape
    BY DEF DocInv, TypeInv
  <2>2. ASSUME NEW d \in Docs
        PROVE  /\ file[d].ver \in Nat /\ file[d].open \in BOOLEAN /\ file[d].ai \in BOOLEAN
               /\ parse[d].status \in Statuses /\ parse[d].marker \in Generations \cup {Blank}
               /\ parse[d].ver \in 0..file[d].ver /\ parse[d].tries \in 0..MaxTries
               /\ \A i \in Index : /\ chunk[d][i].status \in Statuses
                                   /\ chunk[d][i].vec \in Generations \cup {Blank}
                                   /\ chunk[d][i].tries \in 0..MaxTries
               /\ run[d].kind \in {"none", "parse", "batch", "orphan"}
    <3>1. file[d] \in FileRows /\ parse[d] \in ParseRows /\ run[d] \in RunRows
          /\ \A i \in Index : chunk[d][i] \in ChunkRows
      BY <2>1 DEF Shape
    <3>2. parse[d].ver \in 0..file[d].ver
      BY <2>1, <3>1 DEF VersionsKnown, FileRows, ParseRows
    <3>3. run[d].kind \in {"none", "parse", "batch", "orphan"}
      BY <3>1 DEF RunRows, Free, Orphan
    <3> QED
      BY <3>1, <3>2, <3>3 DEF FileRows, ParseRows, ChunkRows, Marks
  <2>3. change.at \in {"none", "prepared", "embedding", "claimed", "stored", "ready", "installed"}
    BY <2>1 DEF ChangeShape, NoChange
  <2> QED
    BY <2>1, <2>2, <2>3 DEF DocsTypeOK, PipeTypeOK, Shape, ChangeShape
<1> QED
  BY <1>1, DocInvariant, PTL

(* Without a change of the runtime a document that is committed, wanted and *)
(* not finished is in work or visible to the repair scan, unless its parse  *)
(* job came to nothing or the scan took back what was stored: of any number *)
(* of documents and chunks, with any number of faults, retries and scans.   *)
THEOREM NothingLeftBehind == DocSpec => []LeftBehindOnlyIfMissed
<1>1. DocInv => LeftBehindOnlyIfMissed
  <2> SUFFICES ASSUME DocInv, OneRuntime, NEW d \in Docs \ missed, Unattended(d)
               PROVE  Repairable(d)
    BY DEF LeftBehindOnlyIfMissed, OneRuntime
  <2>1. Shape /\ Unwritten /\ Parsed /\ ParseDue /\ FirstOnly
    BY DEF DocInv, TypeInv, PipelineInv
  <2>2. /\ file[d].ver # 0 /\ file[d].ai /\ ~Finished(d) /\ ~InFlight(d)
        /\ parse[d].status \in Statuses \ {"PROCESSING"} /\ parse[d].tries \in 0..MaxTries
        /\ MaxTries \in Nat /\ ChunksPer \in Nat \ {0}
        /\ \A i \in Index : chunk[d][i].tries \in 0..MaxTries
    BY <2>1, PipelineAssumption DEF Unattended, Shape, ParseRows, ChunkRows
  <2>3. CASE parse[d].status # "COMPLETED"
    <3>1. parse[d].tries < MaxTries \/ parse[d].tries = MaxTries
      BY <2>2
    <3> QED
      BY <2>2, <2>3, <3>1 DEF Repairable, ParseCandidate, OutOfTries, Statuses
  <2>4. CASE parse[d].status = "COMPLETED"
    <3>1. run[d] = Free /\ ParseJob(d) \notin DOMAIN queue
      BY <2>2 DEF InFlight, BagToSet, ParseJob, Job
    <3>2. parse[d].ver = file[d].ver
      BY <2>1, <2>4, <3>1 DEF ParseDue, Free
    <3>3. Present(d) = Index /\ Index # {}
      BY <2>1, <2>2, <2>4 DEF Parsed, Index
    <3>4. InStatus(d, "COMPLETED") # Present(d)
      BY <2>1, <2>2, <2>4, <3>2, <3>3 DEF Finished, FirstOnly
    <3>5. PICK i \in Index : chunk[d][i].status # "COMPLETED"
      BY <3>3, <3>4 DEF InStatus
    <3>6. i \in Present(d) /\ chunk[d][i].vec = Blank
      BY <2>1, <3>3, <3>5 DEF FirstOnly
    <3>7. CASE chunk[d][i].tries = MaxTries
      BY <3>6, <3>7 DEF Repairable, OutOfTries
    <3>8. CASE chunk[d][i].tries # MaxTries
      <4>1. chunk[d][i].tries < MaxTries
        BY <2>2, <3>8
      <4>2. i \in ChunkCandidates(d)
        BY <2>2, <2>4, <3>5, <3>6, <4>1 DEF ChunkCandidates, HasStored
      <4> QED
        BY <4>2 DEF Repairable
    <3> QED
      BY <3>7, <3>8
  <2> QED
    BY <2>3, <2>4
<1> QED
  BY <1>1, DocInvariant, PTL

(* Once a change is over and every process runs the model it installed,     *)
(* search compares the query with vectors of that model only, but for       *)
(* documents the pipeline or an ended change disturbed.                     *)
THEOREM SearchIsOfOneModel == DocSpec => []MixedOnlyIfDisturbed
<1>1. DocInv => MixedOnlyIfDisturbed
  <2> SUFFICES ASSUME DocInv, Settled, NEW d \in Docs \ disturbed, NEW i \in Present(d),
                      Searched(d, i)
               PROVE  chunk[d][i].vec = active
    BY DEF MixedOnlyIfDisturbed
  <2>1. change.at = "none" /\ i \in Index /\ OneModel
    BY DEF Settled, NoChange, Present, DocInv, ChangeInv
  <2>2. chunk[d][i].vec # Blank
    BY DEF Searched, HasStored
  <2> QED
    BY <2>1, <2>2 DEF OneModel
<1> QED
  BY <1>1, DocInvariant, PTL

(* Every undisturbed document that an activation marks has been embedded by *)
(* the new generation, all of it.                                           *)
THEOREM ActivationCoversAll == DocSpec => ActivationCovers
<1> DEFINE Covers ==
      \A d \in Docs \ disturbed :
        change.at = "installed" /\ change' = NoChange /\ genStatus' # genStatus
          /\ parse'[d].marker # Blank /\ d \in Targets =>
        \A i \in Present(d) : /\ chunk[d][i].status = "COMPLETED"
                              /\ chunk[d][i].vec = parse'[d].marker
<1>1. DocInv /\ [DocNext]_docVars => [Covers]_docVars
  <2> SUFFICES ASSUME DocInv, DocNext, NEW d \in Docs \ disturbed,
                      change.at = "installed", change' = NoChange, genStatus' # genStatus,
                      parse'[d].marker # Blank, d \in Targets, NEW i \in Present(d)
               PROVE  chunk[d][i].status = "COMPLETED" /\ chunk[d][i].vec = parse'[d].marker
    OBVIOUS
  <2>1. Shape /\ ChangeShape /\ Covering /\ change # NoChange
    BY DEF DocInv, TypeInv, ChangeInv, NoChange
  <2>2. Activate
    BY <2>1 DEF DocNext, ChangeStep, PrepareGeneration, Restart, changeVars, ValidateOnly,
         ProbeFails, StartReembedding, ClaimChunk, StoreChunk, CompleteChunk, ChunkFails,
         ChangeDies, Covered, NotCovered, InstallRuntime
  <2>3. change.gen \in Marks /\ Blank \in Marks
    BY <2>1 DEF ChangeShape, Marks
  <2>4. parse'[d].marker = IF change.skip THEN Blank ELSE change.gen
    BY <2>1, <2>2, <2>3, DocumentsMarked DEF Activate
  <2>5. ~change.skip /\ parse'[d].marker = change.gen
    BY <2>4
  <2>6. Done(d, i)
    BY <2>1, <2>5 DEF Covering, Embedding, CoveredSoFar
  <2> QED
    BY <2>5, <2>6 DEF Done
<1>2. DocSpec => [][Covers]_docVars
  BY <1>1, DocInvariant, PTL DEF DocSpec
<1> QED
  BY <1>2 DEF ActivationCovers


-----------------------------------------------------------------------------
(* What the helpers of the actions do to a stream.                          *)

LEMMA StreamType ==
  ASSUME RAGTypeOK, NEW s \in Streams
  PROVE  /\ stream[s] \in StreamStates
         /\ stream[s].phase \in Phases /\ stream[s].held \in SUBSET SlotIds
         /\ stream[s].told \in {"nothing", "completed", "error"}
         /\ answerJob[s] \in JobStates
  BY DEF RAGTypeOK, StreamStates

LEMMA ToMoves ==
  ASSUME RAGTypeOK, NEW s \in Streams, NEW phase \in Phases, To(s, phase)
  PROVE  /\ stream' \in [Streams -> StreamStates]
         /\ stream'[s].phase = phase
         /\ stream'[s].held = stream[s].held /\ stream'[s].told = stream[s].told
         /\ \A u \in Streams \ {s} : stream'[u] = stream[u]
  BY StreamType DEF To, RAGTypeOK, StreamStates

LEMMA FreedSlots ==
  ASSUME RAGTypeOK, NEW K
  PROVE  /\ Freed(K) \in [SlotIds -> SlotStates]
         /\ \A k \in SlotIds : Freed(K)[k] = IF k \in K THEN "free" ELSE slot[k]
  BY DEF Freed, RAGTypeOK, SlotStates

LEMMA EndMoves ==
  ASSUME RAGTypeOK, NEW s \in Streams,
         NEW told \in {"nothing", "completed", "error"}, End(s, told)
  PROVE  /\ stream' \in [Streams -> StreamStates]
         /\ stream'[s].phase = "ended" /\ stream'[s].held = {} /\ stream'[s].told = told
         /\ \A u \in Streams \ {s} : stream'[u] = stream[u]
         /\ slot' = Freed(stream[s].held) /\ slot' \in [SlotIds -> SlotStates]
         /\ UNCHANGED <<outlived, leaked, restarts>>
  BY FreedSlots DEF End, RAGTypeOK, StreamStates, Phases

-----------------------------------------------------------------------------
(* Types.                                                                   *)

LEMMA TypeStart == RAGInit => RAGTypeOK
  BY RAGAssumption
  DEF RAGInit, RAGTypeOK, SlotStates, StreamStates, Phases, JobStates, Removals

LEMMA AskStepTypes ==
  ASSUME RAGTypeOK, NEW s \in Streams, AskStep(s)
  PROVE  RAGTypeOK'
<1> DEFINE Rest == /\ answerJob \in [Streams -> JobStates] /\ messages \in Seq(Messages)
                   /\ removal \in Removals /\ restarts \in 0..MaxCrashes
<1>0. /\ stream \in [Streams -> StreamStates] /\ slot \in [SlotIds -> SlotStates]
      /\ Rest /\ outlived \subseteq Streams /\ leaked \subseteq SlotIds
  BY DEF RAGTypeOK
<1>1. ASSUME NEW k \in SlotIds, Admit(s, k) \/ AdmitCut(s, k) PROVE RAGTypeOK'
  <2>1. slot' \in [SlotIds -> SlotStates] /\ outlived' \subseteq Streams
    BY <1>0, <1>1 DEF Admit, AdmitCut, Grab, SlotStates
  <2>2. leaked' \subseteq SlotIds
    BY <1>0, <1>1 DEF Admit, AdmitCut
  <2>3. stream' \in [Streams -> StreamStates]
    <3>1. CASE Admit(s, k)
      BY <1>0, <3>1, ZenonT(60) DEF Admit, StreamStates, Phases
    <3>2. CASE AdmitCut(s, k)
      BY <3>2, ToMoves DEF AdmitCut, Phases
    <3> QED
      BY <1>1, <3>1, <3>2
  <2>4. Rest'
    BY <1>0, <1>1 DEF Admit, AdmitCut
  <2> QED
    BY <2>1, <2>2, <2>3, <2>4 DEF RAGTypeOK
<1>2. ASSUME NEW phase \in Phases, To(s, phase),
             UNCHANGED <<slot, removal, outlived, leaked, restarts>>,
             answerJob' \in [Streams -> JobStates], messages' \in Seq(Messages)
      PROVE  RAGTypeOK'
  BY <1>0, <1>2, ToMoves DEF RAGTypeOK
<1>3. CASE Refuse(s) \/ Found(s)
  BY <1>0, <1>2, <1>3 DEF Refuse, Found, Phases
<1>4. CASE Ask(s)
  <2>1. messages' \in Seq(Messages)
    BY <1>0, <1>4 DEF Ask, Write, Messages
  <2> QED
    BY <1>0, <1>2, <1>4, <2>1 DEF Ask, Phases
<1>5. CASE NotFound(s) \/ Replay(s) \/ CutBefore(s) \/ SearchFails(s)
  <2>1. End(s, "nothing") /\ UNCHANGED <<answerJob, messages, removal>>
    BY <1>5 DEF NotFound, Replay, CutBefore, SearchFails
  <2> QED
    BY <1>0, <2>1, EndMoves DEF RAGTypeOK
<1>6. CreateJob(s) => answerJob' \in [Streams -> JobStates] /\ messages' \in Seq(Messages)
                      /\ UNCHANGED removal
  BY <1>0 DEF CreateJob, Write, Messages, JobStates
<1>7. CASE Open(s) \/ DetachedEnds(s)
  BY <1>0, <1>2, <1>6, <1>7 DEF Open, DetachedEnds, Phases
<1>8. CASE SearchCut(s)
  <2>1. stream' \in [Streams -> StreamStates]
    BY <1>0, <1>8, ZenonT(60) DEF SearchCut, StreamStates, Phases
  <2> QED
    BY <1>0, <1>8, <2>1, FreedSlots DEF SearchCut, RAGTypeOK
<1> QED
  BY <1>1, <1>3, <1>4, <1>5, <1>7, <1>8 DEF AskStep

LEMMA AnswerStepTypes ==
  ASSUME RAGTypeOK, NEW s \in Streams, AnswerStep(s)
  PROVE  RAGTypeOK'
<1>0. answerJob \in [Streams -> JobStates]
  BY DEF RAGTypeOK
<1>1. \A status \in JobStates : SetJob(s, status) =>
        answerJob' \in [Streams -> JobStates] /\ UNCHANGED <<messages, removal>>
  BY <1>0 DEF SetJob
<1>2. ASSUME NEW phase \in Phases, NEW status \in JobStates, Step(s, phase, status)
      PROVE  RAGTypeOK'
  BY <1>1, <1>2, ToMoves DEF Step, RAGTypeOK
<1>3. ASSUME NEW told \in {"nothing", "completed", "error"}, End(s, told),
             answerJob' \in [Streams -> JobStates], UNCHANGED <<messages, removal>>
      PROVE  RAGTypeOK'
  BY <1>3, EndMoves DEF RAGTypeOK
<1>4. CASE Prepare(s) \/ Complete(s) \/ GenerationFails(s) \/ Completed(s)
  BY <1>2, <1>4, StreamType
  DEF Prepare, Complete, GenerationFails, Completed, Phases, JobStates
<1>5. CASE PrepareBreaks(s) \/ CutWhileWaiting(s) \/ CutWhileSending(s) \/ Tell(s)
  BY <1>0, <1>1, <1>3, <1>5
  DEF PrepareBreaks, CutWhileWaiting, CutWhileSending, Tell, Outcome, JobStates
<1> QED
  BY <1>4, <1>5 DEF AnswerStep

LEMMA RAGTypeKept == RAGTypeOK /\ [RAGNext]_ragVars => RAGTypeOK'
<1> SUFFICES ASSUME RAGTypeOK, [RAGNext]_ragVars PROVE RAGTypeOK'
  OBVIOUS
<1>1. CASE UNCHANGED ragVars
  BY <1>1 DEF ragVars, RAGTypeOK
<1>2. ASSUME NEW k \in SlotIds, GrowOld(k) PROVE RAGTypeOK'
  BY <1>2 DEF GrowOld, RAGTypeOK, SlotStates
<1>3. CASE StartDelete \/ CommitDelete
  <2>1. removal.busy \subseteq Streams /\ removal \in Removals
    BY DEF RAGTypeOK, Removals
  <2>2. removal' \in Removals
    <3>1. {s \in Streams : Active(s)} \subseteq Streams
      OBVIOUS
    <3>2. CASE StartDelete
      BY <2>1, <3>1, <3>2 DEF StartDelete, Removals
    <3>3. CASE CommitDelete
      BY <2>1, <3>3 DEF CommitDelete, Removals
    <3> QED
      BY <1>3, <3>2, <3>3
  <2> QED
    BY <1>3, <2>2 DEF StartDelete, CommitDelete, RAGTypeOK
<1>4. CASE RestartWeb
  <2>1. stream' \in [Streams -> StreamStates]
    BY <1>4, StreamType DEF RestartWeb, RAGTypeOK, StreamStates, Phases
  <2>2. leaked' \subseteq SlotIds
    BY <1>4, StreamType DEF RestartWeb, RAGTypeOK
  <2>3. restarts' \in 0..MaxCrashes
    <3>1. restarts \in 0..MaxCrashes /\ restarts < MaxCrashes /\ restarts' = restarts + 1
      BY <1>4 DEF RestartWeb, RAGTypeOK
    <3> QED
      BY <3>1, RAGAssumption
  <2>4. removal' \in Removals
    BY <1>4 DEF RestartWeb, RAGTypeOK, Removals
  <2> QED
    BY <1>4, <2>1, <2>2, <2>3, <2>4 DEF RestartWeb, RAGTypeOK
<1> QED
  BY <1>1, <1>2, <1>3, <1>4, AskStepTypes, AnswerStepTypes DEF RAGNext

(* Slots, streams, jobs and messages keep their types; the web server       *)
(* restarts at most MaxCrashes times.                                       *)
THEOREM RAGTypeCorrect == RAGSpec => []RAGTypeOK
  BY TypeStart, RAGTypeKept, PTL DEF RAGSpec

-----------------------------------------------------------------------------
(* The slots.  A stream that outlived its slot may give back the slot of    *)
(* another one, whose holder is then displaced without having outlived      *)
(* anything.  Each such release is the last of its stream, so the holders   *)
(* that did not outlive their slot are at most the slots they still hold    *)
(* and the streams that outlived theirs and ended (Displaced).              *)

Kept == {s \in Holders : s \notin outlived}
ClaimedSlots == {k \in SlotIds : slot[k] # "free" /\ \E s \in Kept : k \in stream[s].held}
Gone == {s \in outlived : stream[s].held = {}}
InUse == {k \in SlotIds : slot[k] # "free"} \ leaked

OneSlotEach ==
  \A s \in Streams : stream[s].held # {} => \E k \in SlotIds : stream[s].held = {k}

HeldOnWay ==
  \A s \in Streams :
    /\ stream[s].held # {} => stream[s].phase \notin {"idle", "detached", "ended"}
    /\ s \in outlived => stream[s].phase # "idle"

Displaced == Cardinality(Kept) <= Cardinality(ClaimedSlots) + Cardinality(Gone)

(* While nobody outlived a slot, each slot in use has its one holder.       *)
Exact ==
  outlived = {} =>
    /\ \A s \in Streams : stream[s].held \subseteq InUse
    /\ \A k \in InUse : \E s \in Streams : k \in stream[s].held
    /\ \A s, u \in Streams : s # u => stream[s].held \cap stream[u].held = {}
    /\ Cardinality(InUse) = Cardinality(Holders)

SlotInv == RAGTypeOK /\ OneSlotEach /\ HeldOnWay /\ Displaced /\ Exact

LEMMA SlotSets ==
  ASSUME RAGTypeOK
  PROVE  /\ IsFiniteSet(Holders) /\ Cardinality(Holders) \in Nat
         /\ IsFiniteSet(Kept) /\ Cardinality(Kept) \in Nat
         /\ IsFiniteSet(ClaimedSlots) /\ Cardinality(ClaimedSlots) \in Nat
         /\ IsFiniteSet(Gone) /\ Cardinality(Gone) \in Nat
         /\ IsFiniteSet(InUse) /\ Cardinality(InUse) \in Nat
         /\ IsFiniteSet(outlived) /\ Cardinality(outlived) \in Nat
         /\ Cardinality(ClaimedSlots) <= Cardinality(SlotIds) /\ Cardinality(SlotIds) \in Nat
<1>1. /\ Holders \subseteq Streams /\ Kept \subseteq Streams /\ outlived \subseteq Streams
      /\ Gone \subseteq Streams /\ ClaimedSlots \subseteq SlotIds /\ InUse \subseteq SlotIds
  BY DEF RAGTypeOK, Holders, Kept, Gone, ClaimedSlots, InUse
<1> QED
  BY <1>1, RAGAssumption, FS_Subset, FS_CardinalityType

LEMMA SlotSetsNext ==
  ASSUME RAGTypeOK'
  PROVE  /\ IsFiniteSet(Holders') /\ Cardinality(Holders') \in Nat
         /\ IsFiniteSet(Kept') /\ Cardinality(Kept') \in Nat
         /\ IsFiniteSet(ClaimedSlots') /\ Cardinality(ClaimedSlots') \in Nat
         /\ IsFiniteSet(Gone') /\ Cardinality(Gone') \in Nat
<1>1. /\ Holders' \subseteq Streams /\ Kept' \subseteq Streams
      /\ Gone' \subseteq Streams /\ ClaimedSlots' \subseteq SlotIds
  BY DEF RAGTypeOK, Holders, Kept, Gone, ClaimedSlots
<1> QED
  BY <1>1, RAGAssumption, FS_Subset, FS_CardinalityType

LEMMA SlotInvStart == RAGInit => SlotInv
<1> SUFFICES ASSUME RAGInit PROVE SlotInv
  OBVIOUS
<1>1. \A s \in Streams : stream[s].held = {}
  BY DEF RAGInit
<1>2. Kept = {} /\ Holders = {} /\ ClaimedSlots = {} /\ Gone = {} /\ InUse = {}
  BY <1>1 DEF RAGInit, Kept, Holders, ClaimedSlots, Gone, InUse
<1>3. Displaced
  BY <1>2, FS_EmptySet DEF Displaced
<1>4. Exact
  BY <1>1, <1>2 DEF Exact
<1>5. OneSlotEach /\ HeldOnWay
  BY <1>1 DEF RAGInit, OneSlotEach, HeldOnWay
<1> QED
  BY <1>3, <1>4, <1>5, TypeStart DEF SlotInv

(* A step that takes and returns nothing.                                   *)
LEMMA QuietSlots ==
  ASSUME SlotInv, RAGTypeOK', HeldOnWay', UNCHANGED <<outlived, leaked>>,
         \A s \in Streams : stream'[s].held = stream[s].held,
         \A k \in SlotIds : slot'[k] = "free" <=> slot[k] = "free"
  PROVE  SlotInv'
<1>1. Holders' = Holders
  BY DEF Holders
<1>2. Kept' = Kept
  BY <1>1 DEF Kept
<1>3. ClaimedSlots' = ClaimedSlots
  <2>1. Kept \subseteq Streams
    BY DEF Kept, Holders
  <2> QED
    BY <1>2, <2>1 DEF ClaimedSlots
<1>4. Gone' = Gone
  BY DEF Gone, SlotInv, RAGTypeOK
<1>5. InUse' = InUse
  BY DEF InUse
<1>6. OneSlotEach'
  BY DEF SlotInv, OneSlotEach
<1>7. Displaced'
  BY <1>2, <1>3, <1>4 DEF SlotInv, Displaced
<1>8. Exact'
  BY <1>1, <1>5 DEF SlotInv, Exact
<1> QED
  BY <1>6, <1>7, <1>8 DEF SlotInv

(* A stream gives back what it holds, perhaps the slot of somebody else.    *)
LEMMA ReturnStep ==
  ASSUME SlotInv, RAGTypeOK', HeldOnWay', NEW s \in Streams,
         UNCHANGED <<outlived, leaked>>,
         stream'[s].held = {}, \A u \in Streams \ {s} : stream'[u].held = stream[u].held,
         slot' = Freed(stream[s].held)
  PROVE  SlotInv'
<1>0. RAGTypeOK /\ OneSlotEach
  BY DEF SlotInv
<1>1. CASE stream[s].held = {}
  <2>1. \A k \in SlotIds : slot'[k] = slot[k]
    BY <1>0, <1>1, FreedSlots
  <2> QED
    BY <1>1, <2>1, QuietSlots
<1>2. CASE stream[s].held # {}
  <2>1. PICK k \in SlotIds : stream[s].held = {k}
    BY <1>0, <1>2 DEF OneSlotEach
  <2>2. slot'[k] = "free" /\ \A i \in SlotIds \ {k} : slot'[i] = slot[i]
    BY <1>0, <2>1, FreedSlots
  <2>3. OneSlotEach'
    BY <1>0 DEF OneSlotEach
  <2>4. Holders' = Holders \ {s} /\ s \in Holders
    BY <1>2 DEF Holders
  <2>5. InUse' = InUse \ {k}
    BY <2>2 DEF InUse
  <2>6. ClaimedSlots \ {k} \subseteq ClaimedSlots'
    <3> SUFFICES ASSUME NEW i \in ClaimedSlots, i # k PROVE i \in ClaimedSlots'
      OBVIOUS
    <3>1. PICK u \in Kept : i \in stream[u].held
      BY DEF ClaimedSlots
    <3>2. u # s /\ u \in Streams
      BY <2>1, <3>1 DEF Kept, Holders
    <3>3. u \in Kept' /\ i \in stream'[u].held
      BY <2>4, <3>1, <3>2 DEF Kept
    <3> QED
      BY <2>2, <3>3 DEF ClaimedSlots
  <2>7. /\ Cardinality(ClaimedSlots) - 1 <= Cardinality(ClaimedSlots') /\ Cardinality(ClaimedSlots') \in Nat
        /\ Cardinality(Kept') \in Nat /\ Cardinality(Gone') \in Nat
        /\ IsFiniteSet(ClaimedSlots')
    <3>1. /\ IsFiniteSet(ClaimedSlots') /\ Cardinality(ClaimedSlots') \in Nat
          /\ Cardinality(Kept') \in Nat /\ Cardinality(Gone') \in Nat
      BY SlotSetsNext
    <3>2. Cardinality(ClaimedSlots \ {k}) \in {Cardinality(ClaimedSlots), Cardinality(ClaimedSlots) - 1}
      BY <1>0, SlotSets, FS_RemoveElement
    <3>3. Cardinality(ClaimedSlots \ {k}) <= Cardinality(ClaimedSlots') /\ Cardinality(ClaimedSlots \ {k}) \in Nat
      BY <2>6, <3>1, FS_Subset, FS_CardinalityType
    <3> QED
      BY <1>0, <3>1, <3>2, <3>3, SlotSets
  <2>8. Displaced'
    <3>1. CASE s \in outlived
      <4>1. Kept' = Kept
        BY <2>4, <3>1 DEF Kept
      <4>2. Gone' = Gone \cup {s} /\ s \notin Gone
        BY <1>2, <3>1, <1>0 DEF Gone, RAGTypeOK
      <4>3. Cardinality(Gone') = Cardinality(Gone) + 1
        BY <1>0, <4>2, SlotSets, FS_AddElement
      <4> QED
        BY <1>0, <2>7, <4>1, <4>3, SlotSets DEF SlotInv, Displaced
    <3>2. CASE s \notin outlived
      <4>1. Kept' = Kept \ {s} /\ s \in Kept
        BY <2>4, <3>2 DEF Kept
      <4>2. Gone' = Gone
        BY <1>0, <3>2 DEF Gone, RAGTypeOK
      <4>3. Cardinality(Kept') = Cardinality(Kept) - 1
        BY <1>0, <4>1, SlotSets, FS_RemoveElement
      <4> QED
        BY <1>0, <2>7, <4>2, <4>3, SlotSets DEF SlotInv, Displaced
    <3> QED
      BY <3>1, <3>2
  <2>9. Exact'
    <3> SUFFICES ASSUME outlived = {} PROVE Exact'
      BY DEF Exact
    <3>1. /\ \A u \in Streams : stream[u].held \subseteq InUse
          /\ \A i \in InUse : \E u \in Streams : i \in stream[u].held
          /\ \A t, u \in Streams : t # u => stream[t].held \cap stream[u].held = {}
          /\ Cardinality(InUse) = Cardinality(Holders)
      BY DEF SlotInv, Exact
    <3>2. \A u \in Streams : stream'[u].held \subseteq InUse'
      BY <2>1, <2>5, <3>1
    <3>3. \A i \in InUse' : \E u \in Streams : i \in stream'[u].held
      BY <2>1, <2>5, <3>1
    <3>4. \A t, u \in Streams : t # u => stream'[t].held \cap stream'[u].held = {}
      BY <3>1
    <3>5. Cardinality(InUse') = Cardinality(InUse) - 1
      BY <1>0, <2>1, <2>5, <3>1, SlotSets, FS_RemoveElement
    <3>6. Cardinality(Holders') = Cardinality(Holders) - 1
      BY <1>0, <2>4, SlotSets, FS_RemoveElement
    <3> QED
      BY <3>1, <3>2, <3>3, <3>4, <3>5, <3>6 DEF Exact
  <2> QED
    BY <2>3, <2>8, <2>9 DEF SlotInv
<1> QED
  BY <1>1, <1>2

(* acquire takes back every stale slot and pops k: each claimed slot that   *)
(* was stale makes at least one stream more that outlived its slot.         *)
Stale == {i \in SlotIds : slot[i] = "stale"}

LEMMA GrabStep ==
  ASSUME SlotInv, NEW k \in SlotIds, Grab(k)
  PROVE  /\ outlived \subseteq outlived'
         /\ Cardinality({u \in Kept : u \notin outlived'})
              <= Cardinality(ClaimedSlots \ Stale) + Cardinality(Gone)
         /\ outlived' = {} => \A s \in Streams : stream[s].held \cap Stale = {}
<1>0. RAGTypeOK /\ OneSlotEach /\ Kept \subseteq Streams
  BY DEF SlotInv, Kept, Holders
<1>1. outlived' = outlived \cup {s \in Streams : \E i \in stream[s].held : slot[i] = "stale"}
  BY DEF Grab
<1> DEFINE Late == {u \in Kept : stream[u].held \cap Stale # {}}
           Owned(u) == CHOOSE i \in SlotIds : stream[u].held = {i}
<1>2. {u \in Kept : u \notin outlived'} = Kept \ Late
  BY <1>0, <1>1, StreamType DEF Kept, Stale
<1>3. \A u \in Kept : Owned(u) \in SlotIds /\ stream[u].held = {Owned(u)}
  BY <1>0 DEF OneSlotEach, Kept, Holders
<1>4. Cardinality(ClaimedSlots \cap Stale) <= Cardinality(Late)
  <2> DEFINE f == [u \in Late |-> Owned(u)]
  <2>1. \A u \in Late : Owned(u) \in ClaimedSlots \cap Stale
    BY <1>3 DEF ClaimedSlots, Stale
  <2>2. \A i \in ClaimedSlots \cap Stale : \E u \in Late : Owned(u) = i
    <3> SUFFICES ASSUME NEW i \in ClaimedSlots \cap Stale PROVE \E u \in Late : Owned(u) = i
      OBVIOUS
    <3>1. PICK u \in Kept : i \in stream[u].held
      BY DEF ClaimedSlots
    <3> QED
      BY <1>3, <3>1
  <2>3. f \in Surjection(Late, ClaimedSlots \cap Stale)
    <3> HIDE DEF Owned, Late
    <3> QED
      BY <2>1, <2>2 DEF Surjection
  <2>4. IsFiniteSet(Late)
    BY <1>0, SlotSets, FS_Subset
  <2> HIDE DEF f, Late
  <2> QED
    BY <2>3, <2>4, FS_Surjection
<1>5. Cardinality(Kept \ Late) = Cardinality(Kept) - Cardinality(Late)
  <2>1. Kept \cap Late = Late
    OBVIOUS
  <2> HIDE DEF Late
  <2> QED
    BY <1>0, <2>1, SlotSets, FS_Difference
<1>6. Cardinality(ClaimedSlots \ Stale) = Cardinality(ClaimedSlots) - Cardinality(ClaimedSlots \cap Stale)
  BY <1>0, SlotSets, FS_Difference
<1>7. Cardinality(Late) \in Nat /\ Cardinality(ClaimedSlots \cap Stale) \in Nat
  BY <1>0, SlotSets, FS_Subset, FS_CardinalityType
<1>8. outlived' = {} => \A s \in Streams : stream[s].held \cap Stale = {}
  BY <1>1 DEF Stale
<1> HIDE DEF Late
<1>9. Cardinality(Kept \ Late) <= Cardinality(ClaimedSlots \ Stale) + Cardinality(Gone)
  BY <1>0, <1>4, <1>5, <1>6, <1>7, SlotSets DEF SlotInv, Displaced
<1> QED
  BY <1>1, <1>2, <1>8, <1>9

(* The streams other than s, as the acquisition leaves them.                *)
LEMMA GrabSets ==
  ASSUME SlotInv, NEW k \in SlotIds, Grab(k), NEW s \in Streams, In(s, "idle"),
         \A u \in Streams \ {s} : stream'[u].held = stream[u].held
  PROVE  /\ stream[s].held = {} /\ s \notin Kept /\ s \notin outlived'
         /\ slot'[k] = "grabbed" /\ slot[k] # "grabbed"
         /\ \A i \in SlotIds \ {k} :
              slot'[i] = IF slot[i] = "stale" THEN "free" ELSE slot[i]
         /\ \A i \in ClaimedSlots \ Stale : slot'[i] # "free" /\ i # k /\
              \E u \in Kept : u \notin outlived' /\ i \in stream'[u].held
<1>0. RAGTypeOK /\ OneSlotEach /\ slot \in [SlotIds -> SlotStates]
  BY DEF SlotInv, RAGTypeOK
<1>1. stream[s].held = {} /\ s \notin outlived'
  BY DEF SlotInv, HeldOnWay, In, Grab
<1>2. /\ slot'[k] = "grabbed" /\ slot[k] # "grabbed"
      /\ \A i \in SlotIds \ {k} :
           slot'[i] = IF slot[i] = "stale" THEN "free" ELSE slot[i]
  BY DEF Grab
<1>3. ASSUME NEW i \in ClaimedSlots \ Stale
      PROVE  slot'[i] # "free" /\ i # k /\
             \E u \in Kept : u \notin outlived' /\ i \in stream'[u].held
  <2>1. PICK u \in Kept : i \in stream[u].held
    BY DEF ClaimedSlots
  <2>2. u \in Streams \ {s} /\ stream[u].held = {i}
    BY <1>0, <1>1, <2>1 DEF OneSlotEach, Kept, Holders
  <2>3. u \notin outlived'
    BY <2>1, <2>2 DEF Grab, Kept, ClaimedSlots, Stale
  <2>4. slot[i] \notin {"free", "stale"} /\ slot[i] \in SlotStates /\ i \in SlotIds
    BY <1>0 DEF ClaimedSlots, Stale
  <2>5. slot[i] = "grabbed"
    BY <2>4 DEF SlotStates
  <2> QED
    BY <1>2, <2>1, <2>2, <2>3, <2>4, <2>5
<1>4. s \notin Kept
  BY <1>1 DEF Kept, Holders
<1> QED
  BY <1>1, <1>2, <1>3, <1>4

(* A slot that nobody in use holds is stale because it leaked.              *)
LEMMA StaleLeaked ==
  ASSUME SlotInv, outlived = {}, \A s \in Streams : stream[s].held \cap Stale = {}
  PROVE  Stale \cap InUse = {}
  BY DEF SlotInv, Exact, Stale

(* Whoever kept its slot through the acquisition still claims it.           *)
LEMMA ClaimedKept ==
  ASSUME SlotInv, NEW k \in SlotIds, Grab(k), NEW s \in Streams, In(s, "idle"),
         \A u \in Streams \ {s} : stream'[u].held = stream[u].held
  PROVE  ClaimedSlots \ Stale \subseteq ClaimedSlots'
<1> SUFFICES ASSUME NEW i \in ClaimedSlots \ Stale PROVE i \in ClaimedSlots'
  OBVIOUS
<1>1. slot'[i] # "free" /\ i \in SlotIds
  BY GrabSets DEF ClaimedSlots
<1>2. PICK u \in Kept : u \notin outlived' /\ i \in stream'[u].held
  BY GrabSets
<1>3. u \in Kept'
  BY <1>2 DEF Kept, Holders
<1> QED
  BY <1>1, <1>2, <1>3 DEF ClaimedSlots

LEMMA AdmitStep ==
  ASSUME SlotInv, RAGTypeOK', HeldOnWay', NEW s \in Streams, NEW k \in SlotIds, Admit(s, k)
  PROVE  SlotInv'
<1>0. /\ RAGTypeOK /\ OneSlotEach /\ Grab(k) /\ In(s, "idle")
      /\ stream'[s].held = {k} /\ \A u \in Streams \ {s} : stream'[u].held = stream[u].held
      /\ leaked' = leaked \ (Stale \cup {k})
  BY DEF SlotInv, Admit, RAGTypeOK, StreamStates, Stale
<1>1. /\ stream[s].held = {} /\ s \notin Kept /\ s \notin outlived'
      /\ slot'[k] = "grabbed" /\ slot[k] # "grabbed"
      /\ \A i \in SlotIds \ {k} : slot'[i] = IF slot[i] = "stale" THEN "free" ELSE slot[i]
      /\ \A i \in ClaimedSlots \ Stale : i # k
  BY <1>0, GrabSets
<1>2. OneSlotEach'
  BY <1>0 DEF OneSlotEach, SlotInv
<1>3. Holders' = Holders \cup {s} /\ s \notin Holders
  BY <1>0, <1>1 DEF Holders
<1> DEFINE Still == {u \in Kept : u \notin outlived'}
<1>4. Kept' = Still \cup {s} /\ s \notin Still
  BY <1>0, <1>1, <1>3, GrabStep DEF Kept
<1>5. Displaced'
  <2>1. /\ IsFiniteSet(Still) /\ Cardinality(Still) \in Nat
        /\ IsFiniteSet(ClaimedSlots \ Stale) /\ Cardinality(ClaimedSlots \ Stale) \in Nat
    BY <1>0, SlotSets, FS_Subset, FS_CardinalityType
  <2>2. Cardinality(Kept') = Cardinality(Still) + 1
    <3> HIDE DEF Still
    <3> QED
      BY <1>4, <2>1, FS_AddElement
  <2>3. (ClaimedSlots \ Stale) \cup {k} \subseteq ClaimedSlots'
    <3>1. k \in ClaimedSlots'
      BY <1>0, <1>1, <1>4 DEF ClaimedSlots
    <3> QED
      BY <1>0, <3>1, ClaimedKept
  <2>4. Cardinality((ClaimedSlots \ Stale) \cup {k}) = Cardinality(ClaimedSlots \ Stale) + 1
    BY <1>1, <2>1, FS_AddElement
  <2>5. Cardinality((ClaimedSlots \ Stale) \cup {k}) <= Cardinality(ClaimedSlots')
    BY <2>3, SlotSetsNext, FS_Subset
  <2>6. Cardinality(Gone) <= Cardinality(Gone')
    <3>1. Gone \subseteq Gone'
      BY <1>0, <1>1, GrabStep DEF Gone, RAGTypeOK
    <3> QED
      BY <3>1, SlotSetsNext, FS_Subset
  <2>7. Cardinality(Still) <= Cardinality(ClaimedSlots \ Stale) + Cardinality(Gone)
    BY <1>0, GrabStep
  <2> HIDE DEF Still
  <2> QED
    BY <1>0, <2>1, <2>2, <2>4, <2>5, <2>6, <2>7, SlotSets, SlotSetsNext DEF Displaced
<1>6. Exact'
  <2> SUFFICES ASSUME outlived' = {} PROVE Exact'
    BY DEF Exact
  <2>0. /\ outlived = {} /\ \A u \in Streams : stream[u].held \cap Stale = {}
        /\ Stale \cap InUse = {}
    BY <1>0, GrabStep, StaleLeaked
  <2>1. /\ \A u \in Streams : stream[u].held \subseteq InUse
        /\ \A i \in InUse : \E u \in Streams : i \in stream[u].held
        /\ \A t, u \in Streams : t # u => stream[t].held \cap stream[u].held = {}
        /\ Cardinality(InUse) = Cardinality(Holders)
    BY <2>0 DEF SlotInv, Exact
  <2>2. k \notin InUse
    BY <1>0, <1>1, <2>0 DEF InUse, Stale, RAGTypeOK, SlotStates
  <2>3. InUse' = InUse \cup {k}
    <3>1. k \in InUse'
      BY <1>0, <1>1 DEF InUse
    <3>2. \A i \in SlotIds \ {k} : i \in InUse' <=> i \in InUse
      BY <1>0, <1>1, <2>0 DEF InUse, Stale
    <3> QED
      BY <3>1, <3>2 DEF InUse
  <2>4. /\ \A u \in Streams : stream'[u].held \subseteq InUse'
        /\ \A i \in InUse' : \E u \in Streams : i \in stream'[u].held
        /\ \A t, u \in Streams : t # u => stream'[t].held \cap stream'[u].held = {}
    <3>1. \A u \in Streams \ {s} : stream'[u].held \subseteq InUse
      BY <1>0, <2>1
    <3>2. \A i \in InUse : \E u \in Streams \ {s} : i \in stream'[u].held
      BY <1>0, <1>1, <2>1
    <3> QED
      BY <1>0, <2>1, <2>2, <2>3, <3>1, <3>2
  <2>5. Cardinality(InUse') = Cardinality(InUse) + 1
    BY <1>0, <2>2, <2>3, SlotSets, FS_AddElement
  <2>6. Cardinality(Holders') = Cardinality(Holders) + 1
    BY <1>0, <1>3, SlotSets, FS_AddElement
  <2> QED
    BY <2>1, <2>4, <2>5, <2>6 DEF Exact
<1> QED
  BY <1>2, <1>5, <1>6 DEF SlotInv

(* The canceled acquisition: a slot is taken that nobody will give back.    *)
LEMMA AdmitCutStep ==
  ASSUME SlotInv, RAGTypeOK', HeldOnWay', NEW s \in Streams, NEW k \in SlotIds,
         AdmitCut(s, k)
  PROVE  SlotInv'
<1>0. /\ RAGTypeOK /\ OneSlotEach /\ Grab(k) /\ In(s, "idle")
      /\ \A u \in Streams : stream'[u].held = stream[u].held
      /\ leaked' = (leaked \ Stale) \cup {k}
  BY ToMoves DEF SlotInv, AdmitCut, Stale, Phases
<1>1. /\ slot'[k] = "grabbed" /\ slot[k] # "grabbed"
      /\ \A i \in SlotIds \ {k} : slot'[i] = IF slot[i] = "stale" THEN "free" ELSE slot[i]
  BY <1>0 DEF Grab
<1>2. OneSlotEach'
  BY <1>0 DEF OneSlotEach, SlotInv
<1>3. Holders' = Holders
  BY <1>0 DEF Holders
<1> DEFINE Still == {u \in Kept : u \notin outlived'}
<1>4. Kept' = Still
  BY <1>0, <1>3, GrabStep DEF Kept
<1>5. Displaced'
  <2>1. Cardinality(ClaimedSlots \ Stale) <= Cardinality(ClaimedSlots')
    <3>1. ClaimedSlots \ Stale \subseteq ClaimedSlots'
      BY <1>0, ClaimedKept
    <3> QED
      BY <3>1, SlotSetsNext, FS_Subset
  <2>2. Cardinality(Gone) <= Cardinality(Gone')
    <3>1. Gone \subseteq Gone'
      BY <1>0, GrabStep DEF Gone, RAGTypeOK
    <3> QED
      BY <3>1, SlotSetsNext, FS_Subset
  <2>3. Cardinality(Still) <= Cardinality(ClaimedSlots \ Stale) + Cardinality(Gone)
    BY <1>0, GrabStep
  <2>4. Cardinality(ClaimedSlots \ Stale) \in Nat
    BY <1>0, SlotSets, FS_Subset, FS_CardinalityType
  <2> HIDE DEF Still
  <2> QED
    BY <1>0, <1>4, <2>1, <2>2, <2>3, <2>4, SlotSets, SlotSetsNext DEF Displaced
<1>6. Exact'
  <2> SUFFICES ASSUME outlived' = {} PROVE Exact'
    BY DEF Exact
  <2>0. outlived = {} /\ Stale \cap InUse = {}
    BY <1>0, GrabStep, StaleLeaked
  <2>1. k \notin InUse
    BY <1>0, <1>1, <2>0 DEF InUse, Stale, RAGTypeOK, SlotStates
  <2>2. InUse' = InUse
    BY <1>0, <1>1, <2>0, <2>1 DEF InUse, Stale
  <2> QED
    BY <1>0, <1>3, <2>0, <2>2 DEF SlotInv, Exact
<1> QED
  BY <1>2, <1>5, <1>6 DEF SlotInv

(* A restart ends all streams; what they held leaks.                        *)
LEMMA RestartStep ==
  ASSUME SlotInv, RAGTypeOK', HeldOnWay', RestartWeb
  PROVE  SlotInv'
<1>1. ASSUME NEW s \in Streams PROVE stream'[s].held = {}
  <2>1. stream'[s] = IF In(s, "idle") THEN stream[s]
                     ELSE [stream[s] EXCEPT !.phase = "ended", !.held = {}]
    BY DEF RestartWeb
  <2>2. CASE In(s, "idle")
    BY <2>1, <2>2 DEF SlotInv, HeldOnWay, In
  <2>3. CASE ~In(s, "idle")
    BY <2>1, <2>3, StreamType DEF SlotInv, StreamStates
  <2> QED
    BY <2>2, <2>3
<1>2. Holders' = {} /\ Kept' = {}
  BY <1>1 DEF Holders, Kept
<1>3. Displaced'
  BY <1>2, FS_EmptySet, SlotSetsNext DEF Displaced
<1>4. Exact'
  <2> SUFFICES ASSUME outlived = {} PROVE Exact'
    BY DEF Exact, RestartWeb
  <2>1. InUse' = {}
    <3> SUFFICES ASSUME NEW k \in SlotIds, slot[k] # "free", k \notin leaked' PROVE FALSE
      BY DEF InUse, RestartWeb
    <3>1. k \in InUse
      BY DEF InUse, RestartWeb
    <3>2. PICK s \in Streams : k \in stream[s].held
      BY <3>1 DEF SlotInv, Exact
    <3>3. k \in {i \in stream[s].held : slot[i] # "free"}
      BY <3>2
    <3> QED
      BY <3>3 DEF RestartWeb
  <2> QED
    BY <1>1, <1>2, <2>1, FS_EmptySet DEF Exact
<1> QED
  BY <1>1, <1>3, <1>4 DEF SlotInv, OneSlotEach

(* The bound of SlotsKept follows by counting the streams that outlived     *)
(* their slot, ended or not, apart.                                         *)
LEMMA SlotsCounted == SlotInv => SlotsKept
<1> SUFFICES ASSUME SlotInv PROVE SlotsKept
  OBVIOUS
<1>0. RAGTypeOK
  BY DEF SlotInv
<1>1. Kept = Holders \ outlived /\ Gone = outlived \ Holders
  BY <1>0 DEF Kept, Gone, Holders, RAGTypeOK
<1>2. /\ Cardinality(Kept) = Cardinality(Holders) - Cardinality(Holders \cap outlived)
      /\ Cardinality(Gone) = Cardinality(outlived) - Cardinality(outlived \cap Holders)
  BY <1>0, <1>1, SlotSets, FS_Difference
<1>3. Holders \cap outlived = outlived \cap Holders /\ Cardinality(Holders \cap outlived) \in Nat
  BY <1>0, SlotSets, FS_Subset, FS_CardinalityType
<1>4. Cardinality(Kept) <= Cardinality(ClaimedSlots) + Cardinality(Gone)
  BY DEF SlotInv, Displaced
<1>5. /\ Cardinality(ClaimedSlots) <= Cardinality(SlotIds) /\ Cardinality(ClaimedSlots) \in Nat
      /\ Cardinality(SlotIds) \in Nat /\ Cardinality(Kept) \in Nat
      /\ Cardinality(Gone) \in Nat /\ Cardinality(Holders) \in Nat
      /\ Cardinality(outlived) \in Nat
  BY <1>0, SlotSets
<1>6. /\ Cardinality(Holders \cap outlived) = Cardinality(outlived \cap Holders)
      /\ Cardinality(Holders \cap outlived) \in Nat
  BY <1>3
<1>7. Cardinality(Holders) <= Cardinality(SlotIds) + Cardinality(outlived)
  BY <1>2, <1>4, <1>5, <1>6
<1> QED
  BY <1>7 DEF SlotInv, Exact, SlotsKept, InUse

-----------------------------------------------------------------------------
(* The jobs and the messages.                                               *)

(* A job is as far as the phase of its stream, and what the client is told  *)
(* closes the stream.                                                       *)
PhaseJobOf(s) ==
  /\ stream[s].phase \in {"idle", "admitted", "found", "asked", "detached"} =>
       answerJob[s] = "none"
  /\ In(s, "opening") => answerJob[s] = "PENDING"
  /\ In(s, "generating") => answerJob[s] = "PROCESSING"
  /\ In(s, "completing") => answerJob[s] = "COMPLETED"
  /\ In(s, "closing") => answerJob[s] \in {"COMPLETED", "FAILED"}
  /\ stream[s].told # "nothing" =>
       /\ In(s, "ended")
       /\ answerJob[s] = (IF stream[s].told = "completed" THEN "COMPLETED" ELSE "FAILED")

PhaseJob == \A s \in Streams : PhaseJobOf(s)

(* An answered or unanswered question was written by a stream past the      *)
(* check for a replay, its answer by one past the search.                   *)
Wrote(s, role) == \E i \in DOMAIN messages : messages[i] = [role |-> role, stream |-> s]

Written ==
  /\ \A s \in Streams :
       /\ Wrote(s, "user") => stream[s].phase \notin {"idle", "admitted", "found"}
       /\ Wrote(s, "assistant") =>
            stream[s].phase \notin {"idle", "admitted", "found", "asked", "detached"}
       /\ stream[s].phase \in {"asked", "detached"} => Wrote(s, "user")
  /\ \A i \in DOMAIN messages : messages[i].role = "assistant" =>
       \E j \in DOMAIN messages :
         j < i /\ messages[j] = [role |-> "user", stream |-> messages[i].stream]
  /\ \A i, j \in DOMAIN messages :
       /\ messages[i].role = "user" /\ messages[j].role = "user"
       /\ IdOf[messages[i].stream] = IdOf[messages[j].stream]
       => i = j
  /\ \A i, j \in DOMAIN messages :
       /\ messages[i].role = "assistant" /\ messages[j].role = "assistant"
       /\ messages[i].stream = messages[j].stream
       => i = j

(* Whoever may still give a deleted conversation a running job was counted  *)
(* when the deletion was written.                                           *)
Deletion ==
  /\ removal.busy = {}
  /\ removal.phase = "deleted" =>
       \A s \in Streams :
         Active(s) \/ stream[s].phase \in {"found", "asked", "detached"} => s \in removal.raced

(* A step of a request moves no other stream and no other job.              *)
LEMMA OthersKept ==
  ASSUME RAGTypeOK, NEW s \in Streams, AskStep(s) \/ AnswerStep(s)
  PROVE  \A u \in Streams \ {s} : stream'[u] = stream[u] /\ answerJob'[u] = answerJob[u]
<1>0. /\ stream \in [Streams -> StreamStates] /\ answerJob \in [Streams -> JobStates]
      /\ Phases # {}
  BY DEF RAGTypeOK, Phases
<1>1. \A phase : To(s, phase) => \A u \in Streams \ {s} : stream'[u] = stream[u]
  BY <1>0 DEF To
<1>2. \A told : End(s, told) => \A u \in Streams \ {s} : stream'[u] = stream[u]
  BY <1>0 DEF End
<1>3. \A status : SetJob(s, status) => \A u \in Streams \ {s} : answerJob'[u] = answerJob[u]
  BY <1>0 DEF SetJob
<1>4. CreateJob(s) => \A u \in Streams \ {s} : answerJob'[u] = answerJob[u]
  BY <1>0 DEF CreateJob
<1>5. CASE AskStep(s)
  <2>1. ASSUME NEW k \in SlotIds, Admit(s, k) \/ AdmitCut(s, k)
        PROVE  \A u \in Streams \ {s} : stream'[u] = stream[u] /\ answerJob'[u] = answerJob[u]
    BY <1>0, <1>1, <2>1 DEF Admit, AdmitCut
  <2>2. CASE Refuse(s) \/ Found(s) \/ NotFound(s) \/ Ask(s) \/ Replay(s) \/ CutBefore(s)
             \/ SearchFails(s)
    BY <1>1, <1>2, <2>2 DEF Refuse, Found, NotFound, Ask, Replay, CutBefore, SearchFails
  <2>3. CASE Open(s) \/ SearchCut(s) \/ DetachedEnds(s)
    BY <1>0, <1>1, <1>4, <2>3 DEF Open, SearchCut, DetachedEnds
  <2> QED
    BY <1>5, <2>1, <2>2, <2>3 DEF AskStep
<1>6. CASE AnswerStep(s)
  BY <1>1, <1>2, <1>3, <1>6
  DEF AnswerStep, Prepare, PrepareBreaks, Complete, GenerationFails, CutWhileWaiting,
      Completed, CutWhileSending, Tell, Step
<1> QED
  BY <1>5, <1>6

(* What a step of a request does with its slot.                             *)
Returns(s) ==
  /\ stream'[s].held = {} /\ stream'[s].phase \in {"ended", "detached"}
  /\ slot' = Freed(stream[s].held) /\ UNCHANGED <<outlived, leaked>>
Holds(s) ==
  /\ stream'[s].held = stream[s].held
  /\ stream'[s].phase = "ended" => stream[s].phase \in {"idle", "detached"}
  /\ stream'[s].phase \notin {"idle", "detached"}
  /\ UNCHANGED <<slot, outlived, leaked>>

LEMMA SlotKinds ==
  ASSUME RAGTypeOK, NEW s \in Streams, AskStep(s) \/ AnswerStep(s)
  PROVE  \/ \E k \in SlotIds : Admit(s, k) \/ AdmitCut(s, k)
         \/ Returns(s) \/ Holds(s)
<1>1. \A told \in {"nothing", "completed", "error"} : End(s, told) => Returns(s)
  BY EndMoves DEF Returns
<1>2. ASSUME NEW phase \in Phases \ {"idle", "detached"}, To(s, phase),
             phase = "ended" => stream[s].phase \in {"idle", "detached"},
             UNCHANGED <<slot, outlived, leaked>>
      PROVE  Holds(s)
  BY <1>2, ToMoves DEF Holds
<1>3. CASE SearchCut(s)
  BY <1>3 DEF SearchCut, Returns, RAGTypeOK
<1>4. CASE NotFound(s) \/ Replay(s) \/ CutBefore(s) \/ SearchFails(s)
           \/ PrepareBreaks(s) \/ CutWhileWaiting(s) \/ CutWhileSending(s) \/ Tell(s)
  BY <1>1, <1>4
  DEF NotFound, Replay, CutBefore, SearchFails, PrepareBreaks, CutWhileWaiting,
      CutWhileSending, Tell, Outcome
<1>5. CASE Refuse(s) \/ Found(s) \/ Ask(s) \/ Open(s) \/ DetachedEnds(s)
  BY <1>2, <1>5 DEF Refuse, Found, Ask, Open, DetachedEnds, In, Phases
<1>6. CASE Prepare(s) \/ Complete(s) \/ GenerationFails(s) \/ Completed(s)
  BY <1>2, <1>6 DEF Prepare, Complete, GenerationFails, Completed, Step, Phases
<1> QED
  BY <1>3, <1>4, <1>5, <1>6 DEF AskStep, AnswerStep

LEMMA SlotInvKept == SlotInv /\ [RAGNext]_ragVars => SlotInv'
<1> SUFFICES ASSUME SlotInv, [RAGNext]_ragVars PROVE SlotInv'
  OBVIOUS
<1>0. RAGTypeOK /\ RAGTypeOK' /\ HeldOnWay
  BY RAGTypeKept DEF SlotInv
<1>1. ASSUME UNCHANGED <<stream, outlived, leaked>>,
             \A k \in SlotIds : slot'[k] = "free" <=> slot[k] = "free"
      PROVE  SlotInv'
  <2>1. HeldOnWay'
    BY <1>0, <1>1 DEF HeldOnWay
  <2> QED
    BY <1>0, <1>1, <2>1, QuietSlots
<1>2. CASE UNCHANGED ragVars \/ StartDelete \/ CommitDelete
  BY <1>1, <1>2 DEF ragVars, StartDelete, CommitDelete
<1>3. ASSUME NEW k \in SlotIds, GrowOld(k) PROVE SlotInv'
  BY <1>0, <1>1, <1>3 DEF GrowOld, RAGTypeOK
<1>4. CASE RestartWeb
  <2>1. ASSUME NEW s \in Streams
        PROVE  /\ stream'[s].held = {}
               /\ stream'[s].phase = "idle" => stream[s].phase = "idle"
    <3>1. stream'[s] = IF In(s, "idle") THEN stream[s]
                       ELSE [stream[s] EXCEPT !.phase = "ended", !.held = {}]
      BY <1>4 DEF RestartWeb
    <3>2. CASE In(s, "idle")
      BY <1>0, <3>1, <3>2 DEF HeldOnWay, In
    <3>3. CASE ~In(s, "idle")
      BY <1>0, <3>1, <3>3, StreamType DEF StreamStates
    <3> QED
      BY <3>2, <3>3
  <2>2. HeldOnWay'
    BY <1>0, <1>4, <2>1 DEF HeldOnWay, RestartWeb
  <2> QED
    BY <1>0, <1>4, <2>2, RestartStep
<1>5. ASSUME NEW s \in Streams, AskStep(s) \/ AnswerStep(s) PROVE SlotInv'
  <2>0. \A u \in Streams \ {s} : stream'[u] = stream[u]
    BY <1>0, <1>5, OthersKept
  <2>1. ASSUME NEW k \in SlotIds, Admit(s, k) PROVE SlotInv'
    <3>1. stream'[s].phase = "admitted"
      BY <1>0, <2>1 DEF Admit, RAGTypeOK
    <3>2. \A u \in outlived' \ {s} : u \in Streams /\ stream[u].phase # "idle"
      BY <1>0, <2>1 DEF Admit, Grab, HeldOnWay, RAGTypeOK
    <3>3. HeldOnWay'
      BY <1>0, <2>0, <3>1, <3>2 DEF HeldOnWay
    <3> QED
      BY <1>0, <2>1, <3>3, AdmitStep
  <2>2. ASSUME NEW k \in SlotIds, AdmitCut(s, k) PROVE SlotInv'
    <3>1. stream'[s].phase = "ended" /\ stream'[s].held = stream[s].held
      BY <1>0, <2>2, ToMoves DEF AdmitCut, Phases
    <3>2. \A u \in outlived' \ {s} : u \in Streams /\ stream[u].phase # "idle"
      BY <1>0, <2>2 DEF AdmitCut, Grab, HeldOnWay, RAGTypeOK
    <3>3. stream[s].held = {}
      BY <1>0, <2>2 DEF AdmitCut, HeldOnWay, In
    <3>4. HeldOnWay'
      BY <1>0, <2>0, <3>1, <3>2, <3>3 DEF HeldOnWay
    <3> QED
      BY <1>0, <2>2, <3>4, AdmitCutStep
  <2>3. CASE Returns(s)
    <3>1. HeldOnWay'
      BY <1>0, <2>0, <2>3 DEF HeldOnWay, Returns
    <3> QED
      BY <1>0, <2>0, <2>3, <3>1, ReturnStep DEF Returns
  <2>4. CASE Holds(s)
    <3>1. HeldOnWay'
      BY <1>0, <2>0, <2>4 DEF HeldOnWay, Holds
    <3>2. /\ UNCHANGED <<slot, outlived, leaked>>
          /\ \A u \in Streams : stream'[u].held = stream[u].held
      BY <2>0, <2>4 DEF Holds
    <3> QED
      BY <1>0, <3>1, <3>2, QuietSlots
  <2> QED
    BY <1>0, <1>5, <2>1, <2>2, <2>3, <2>4, SlotKinds
<1> QED
  BY <1>2, <1>3, <1>4, <1>5 DEF RAGNext

-----------------------------------------------------------------------------
(* The jobs.                                                                *)

LEMMA PhaseJobKept ==
  ASSUME RAGTypeOK, HeldOnWay, PhaseJob, [RAGNext]_ragVars
  PROVE  PhaseJob'
<1>0. /\ answerJob \in [Streams -> JobStates]
      /\ \A s \in Streams : PhaseJobOf(s)
  BY DEF RAGTypeOK, PhaseJob
<1>1. CASE UNCHANGED ragVars \/ StartDelete \/ CommitDelete \/ \E k \in SlotIds : GrowOld(k)
  <2>1. UNCHANGED <<stream, answerJob>>
    BY <1>1 DEF ragVars, StartDelete, CommitDelete, GrowOld
  <2> QED
    BY <1>0, <2>1 DEF PhaseJob, PhaseJobOf, In
<1>2. CASE RestartWeb
  <2> SUFFICES ASSUME NEW s \in Streams PROVE PhaseJobOf(s)'
    BY DEF PhaseJob
  <2>1. /\ answerJob' = answerJob
        /\ stream'[s] = IF In(s, "idle") THEN stream[s]
                        ELSE [stream[s] EXCEPT !.phase = "ended", !.held = {}]
    BY <1>2 DEF RestartWeb
  <2>2. CASE In(s, "idle")
    BY <1>0, <2>1, <2>2 DEF PhaseJobOf, In
  <2>3. CASE ~In(s, "idle")
    <3>1. stream'[s].phase = "ended" /\ stream'[s].told = stream[s].told
      BY <2>1, <2>3, StreamType DEF StreamStates
    <3> QED
      BY <1>0, <2>1, <3>1 DEF PhaseJobOf, In
  <2> QED
    BY <2>2, <2>3
<1>3. ASSUME NEW s \in Streams, AskStep(s) \/ AnswerStep(s) PROVE PhaseJob'
  <2>1. PhaseJobOf(s)
    BY <1>0
  <2>2. SUFFICES PhaseJobOf(s)'
    BY <1>0, <1>3, OthersKept DEF PhaseJob, PhaseJobOf, In
  <2>3. ASSUME NEW told \in {"nothing", "completed", "error"}, End(s, told),
               told = "nothing" \/ answerJob'[s] = IF told = "completed" THEN "COMPLETED" ELSE "FAILED"
        PROVE  PhaseJobOf(s)'
    BY <2>3, EndMoves DEF PhaseJobOf, In
  <2>4. ASSUME NEW phase \in Phases, To(s, phase), ~In(s, "ended"),
               phase \in {"idle", "admitted", "found", "asked", "detached"} => answerJob'[s] = "none",
               phase = "opening" => answerJob'[s] = "PENDING",
               phase = "generating" => answerJob'[s] = "PROCESSING",
               phase = "completing" => answerJob'[s] = "COMPLETED",
               phase = "closing" => answerJob'[s] \in {"COMPLETED", "FAILED"}
        PROVE  PhaseJobOf(s)'
    BY <2>1, <2>4, ToMoves DEF PhaseJobOf, In
  <2>5. \A status : SetJob(s, status) => answerJob'[s] = status
    BY <1>0 DEF SetJob
  <2>6. CreateJob(s) => answerJob'[s] = "PENDING"
    BY <1>0 DEF CreateJob
  <2>7. ASSUME NEW k \in SlotIds, Admit(s, k) PROVE PhaseJobOf(s)'
    <3>1. /\ stream'[s].phase = "admitted" /\ stream'[s].told = stream[s].told
          /\ answerJob' = answerJob /\ stream[s].phase = "idle"
      BY <2>7, StreamType DEF Admit, RAGTypeOK, In, StreamStates
    <3> QED
      BY <2>1, <3>1 DEF PhaseJobOf, In
  <2>8. CASE Refuse(s) \/ Found(s) \/ Ask(s) \/ \E k \in SlotIds : AdmitCut(s, k)
    BY <2>1, <2>4, <2>8 DEF Refuse, Found, Ask, AdmitCut, PhaseJobOf, In, Phases
  <2>9. CASE Open(s) \/ DetachedEnds(s)
    BY <2>4, <2>6, <2>9 DEF Open, DetachedEnds, In, Phases
  <2>10. CASE SearchCut(s)
    <3>1. /\ stream'[s].phase = "detached" /\ stream'[s].told = stream[s].told
          /\ answerJob' = answerJob /\ stream[s].phase = "asked"
      BY <2>10, StreamType DEF SearchCut, RAGTypeOK, In, StreamStates
    <3> QED
      BY <2>1, <3>1 DEF PhaseJobOf, In
  <2>11. CASE NotFound(s) \/ Replay(s) \/ CutBefore(s) \/ SearchFails(s)
              \/ PrepareBreaks(s) \/ CutWhileWaiting(s) \/ CutWhileSending(s)
    BY <2>3, <2>11
    DEF NotFound, Replay, CutBefore, SearchFails, PrepareBreaks, CutWhileWaiting, CutWhileSending
  <2>12. CASE Tell(s)
    BY <2>1, <2>3, <2>12 DEF Tell, Outcome, PhaseJobOf
  <2>13. CASE Prepare(s) \/ Complete(s) \/ GenerationFails(s)
    BY <2>4, <2>5, <2>13 DEF Prepare, Complete, GenerationFails, Step, In, Phases
  <2>14. CASE Completed(s)
    BY <2>1, <2>4, <2>5, <2>14 DEF Completed, Step, In, Phases, PhaseJobOf
  <2> QED
    BY <1>3, <2>7, <2>8, <2>9, <2>10, <2>11, <2>12, <2>13, <2>14 DEF AskStep, AnswerStep
<1> QED
  BY <1>1, <1>2, <1>3 DEF RAGNext

(* What a request is answered by: only a stream past the search has a job.  *)
LEMMA DeletionKept ==
  ASSUME RAGTypeOK, PhaseJob, Deletion, [RAGNext]_ragVars
  PROVE  Deletion'
<1> DEFINE Coming(u) == Active(u) \/ stream[u].phase \in {"found", "asked", "detached"}
<1>0. /\ answerJob \in [Streams -> JobStates] /\ removal \in Removals
      /\ \A s \in Streams : PhaseJobOf(s)
  BY DEF RAGTypeOK, PhaseJob
<1>1. ASSUME UNCHANGED removal,
             \A u \in Streams :
               answerJob'[u] \in {"PENDING", "PROCESSING"}
               \/ stream'[u].phase \in {"found", "asked", "detached"} => Coming(u)
      PROVE  Deletion'
  BY <1>1 DEF Deletion, Active
<1>2. CASE UNCHANGED ragVars \/ \E k \in SlotIds : GrowOld(k)
  <2>1. UNCHANGED <<stream, answerJob, removal>>
    BY <1>2 DEF ragVars, GrowOld
  <2> QED
    BY <1>1, <2>1 DEF Active
<1>3. CASE StartDelete
  <2>1. {s \in Streams : Active(s)} = {}
    BY <1>3 DEF StartDelete
  <2>2. removal'.busy = {} /\ removal'.phase = "deleting"
    BY <1>0, <1>3, <2>1 DEF StartDelete, Removals
  <2> QED
    BY <2>2 DEF Deletion
<1>4. CASE CommitDelete
  <2>1. /\ removal'.busy = removal.busy /\ removal.busy = {}
        /\ \A s \in Streams : Coming(s) => s \in removal'.raced
    BY <1>4 DEF CommitDelete, Deletion
  <2>2. UNCHANGED <<stream, answerJob>>
    BY <1>4 DEF CommitDelete
  <2> QED
    BY <2>1, <2>2 DEF Deletion, Active
<1>5. CASE RestartWeb
  <2>1. ASSUME NEW s \in Streams
        PROVE  stream'[s].phase \notin {"found", "asked", "detached"}
    <3>1. stream'[s] = IF In(s, "idle") THEN stream[s]
                       ELSE [stream[s] EXCEPT !.phase = "ended", !.held = {}]
      BY <1>5 DEF RestartWeb
    <3>2. CASE In(s, "idle")
      BY <3>1, <3>2 DEF In
    <3>3. CASE ~In(s, "idle")
      BY <3>1, <3>3, StreamType DEF StreamStates
    <3> QED
      BY <3>2, <3>3
  <2>2. /\ answerJob' = answerJob /\ removal'.busy = removal.busy
        /\ removal'.phase = "deleted" => removal' = removal
    BY <1>0, <1>5 DEF RestartWeb, Removals
  <2> QED
    BY <2>1, <2>2 DEF Deletion, Active
<1>6. ASSUME NEW s \in Streams, AskStep(s) \/ AnswerStep(s) PROVE Deletion'
  <2>1. \A u \in Streams \ {s} : stream'[u] = stream[u] /\ answerJob'[u] = answerJob[u]
    BY <1>6, OthersKept
  <2>2. ASSUME UNCHANGED removal,
               answerJob'[s] \in {"PENDING", "PROCESSING"}
               \/ stream'[s].phase \in {"found", "asked", "detached"} => Coming(s)
        PROVE  Deletion'
    BY <1>1, <2>1, <2>2 DEF Active
  <2>3. PhaseJobOf(s)
    BY <1>0
  <2>4. CASE Found(s)
    BY <2>4 DEF Found, Deletion
  <2>5. \A phase \in Phases : To(s, phase) => stream'[s].phase = phase
    BY ToMoves
  <2>6. \A told \in {"nothing", "completed", "error"} : End(s, told) => stream'[s].phase = "ended"
    BY EndMoves
  <2>7. \A status : SetJob(s, status) => answerJob'[s] = status /\ UNCHANGED removal
    BY <1>0 DEF SetJob
  <2>8. CASE Refuse(s) \/ \E k \in SlotIds : Admit(s, k) \/ AdmitCut(s, k)
    <3>1. stream'[s].phase \in {"admitted", "ended"}
      <4>1. ASSUME NEW k \in SlotIds, Admit(s, k) PROVE stream'[s].phase = "admitted"
        BY <4>1, StreamType DEF Admit, RAGTypeOK, StreamStates
      <4> QED
        BY <2>5, <2>8, <4>1 DEF Refuse, AdmitCut, Phases
    <3>2. UNCHANGED <<answerJob, removal>>
      BY <2>8 DEF Refuse, Admit, AdmitCut
    <3> QED
      BY <2>2, <3>1, <3>2 DEF Active
  <2>9. CASE NotFound(s) \/ Replay(s) \/ CutBefore(s) \/ SearchFails(s) \/ CutWhileSending(s)
             \/ Tell(s)
    <3>1. stream'[s].phase = "ended" /\ UNCHANGED <<answerJob, removal>>
      BY <2>6, <2>9
      DEF NotFound, Replay, CutBefore, SearchFails, CutWhileSending, Tell, Outcome
    <3> QED
      BY <2>2, <3>1 DEF Active
  <2>10. CASE Ask(s) \/ Open(s) \/ SearchCut(s) \/ DetachedEnds(s)
    <3>1. Coming(s) /\ UNCHANGED removal
      BY <2>10 DEF Ask, Open, SearchCut, DetachedEnds, CreateJob, In
    <3> QED
      BY <2>2, <3>1
  <2>11. CASE Prepare(s) \/ PrepareBreaks(s) \/ Complete(s) \/ GenerationFails(s)
    <3>1. Active(s)
      BY <2>3, <2>11 DEF Prepare, PrepareBreaks, Complete, GenerationFails, PhaseJobOf, Active, In
    <3>2. UNCHANGED removal
      BY <2>7, <2>11 DEF Prepare, PrepareBreaks, Complete, GenerationFails, Step
    <3> QED
      BY <2>2, <3>1, <3>2
  <2>12. CASE CutWhileWaiting(s)
    BY <2>2, <2>6, <2>7, <2>12 DEF CutWhileWaiting
  <2>13. CASE Completed(s)
    BY <2>2, <2>5, <2>7, <2>13 DEF Completed, Step, Phases, Active
  <2> QED
    BY <1>6, <2>4, <2>8, <2>9, <2>10, <2>11, <2>12, <2>13 DEF AskStep, AnswerStep
<1> QED
  BY <1>2, <1>3, <1>4, <1>5, <1>6 DEF RAGNext

-----------------------------------------------------------------------------
(* The messages.                                                            *)

Early == {"idle", "admitted", "found"}
Waiting == {"asked", "detached"}

LEMMA WrittenQuiet ==
  ASSUME Written, UNCHANGED messages,
         \A u \in Streams :
           /\ stream'[u].phase \in Early => stream[u].phase \in Early
           /\ stream'[u].phase \in Waiting => stream[u].phase \in Waiting
  PROVE  Written'
<1>1. \A u \in Streams : \A role : Wrote(u, role)' <=> Wrote(u, role)
  BY DEF Wrote
<1>2. ASSUME NEW u \in Streams
      PROVE  /\ Wrote(u, "user")' => stream'[u].phase \notin Early
             /\ Wrote(u, "assistant")' => stream'[u].phase \notin Early \cup Waiting
             /\ stream'[u].phase \in Waiting => Wrote(u, "user")'
  BY <1>1 DEF Written, Early, Waiting
<1> QED
  BY <1>2 DEF Written, Early, Waiting

(* A message more at the end: what was written stays where it was.          *)
LEMMA WriteAdds ==
  ASSUME RAGTypeOK, NEW s \in Streams, NEW role \in {"user", "assistant"}, Write(s, role)
  PROVE  /\ Len(messages) \in Nat /\ DOMAIN messages = 1..Len(messages)
         /\ DOMAIN messages' = DOMAIN messages \cup {Len(messages) + 1}
         /\ \A i \in DOMAIN messages : messages'[i] = messages[i] /\ i < Len(messages) + 1
         /\ messages'[Len(messages) + 1] = [role |-> role, stream |-> s]
         /\ \A u \in Streams : \A r : Wrote(u, r)' <=>
              Wrote(u, r) \/ (r = role /\ u = s)
<1>0. messages \in Seq(Messages) /\ [role |-> role, stream |-> s] \in Messages
  BY DEF RAGTypeOK, Messages
<1>1. Len(messages) \in Nat /\ DOMAIN messages = 1..Len(messages)
  BY <1>0
<1>2. messages' = Append(messages, [role |-> role, stream |-> s])
  BY DEF Write
<1>3. /\ DOMAIN messages' = 1..(Len(messages) + 1)
      /\ \A i \in 1..Len(messages) : messages'[i] = messages[i]
      /\ messages'[Len(messages) + 1] = [role |-> role, stream |-> s]
  BY <1>0, <1>2
<1>4. DOMAIN messages' = DOMAIN messages \cup {Len(messages) + 1}
  BY <1>1, <1>3
<1>5. \A i \in DOMAIN messages : i < Len(messages) + 1
  BY <1>1
<1>6. ASSUME NEW u \in Streams, NEW r
      PROVE  Wrote(u, r)' <=> Wrote(u, r) \/ (r = role /\ u = s)
  <2>1. [role |-> r, stream |-> u] = [role |-> role, stream |-> s] <=> r = role /\ u = s
    <3>1. /\ [role |-> r, stream |-> u].role = r /\ [role |-> r, stream |-> u].stream = u
          /\ [role |-> role, stream |-> s].role = role
          /\ [role |-> role, stream |-> s].stream = s
      OBVIOUS
    <3> QED
      BY <3>1
  <2> QED
    BY <1>1, <1>3, <1>4, <2>1 DEF Wrote
<1> QED
  BY <1>1, <1>3, <1>4, <1>5, <1>6

LEMMA AskWrites ==
  ASSUME RAGTypeOK, RAGTypeOK', Written, NEW s \in Streams, Ask(s)
  PROVE  Written'
<1>0. /\ stream[s].phase = "found" /\ ~Asked(IdOf[s]) /\ Write(s, "user")
      /\ stream'[s].phase = "asked" /\ \A u \in Streams \ {s} : stream'[u] = stream[u]
  BY ToMoves DEF Ask, In, Phases
<1> DEFINE n == Len(messages) + 1
<1>1. /\ n \in Nat /\ DOMAIN messages \subseteq Nat
      /\ DOMAIN messages' = DOMAIN messages \cup {n}
      /\ \A i \in DOMAIN messages : messages'[i] = messages[i] /\ i < n
      /\ messages'[n] = [role |-> "user", stream |-> s]
      /\ \A u \in Streams : \A r : Wrote(u, r)' <=> Wrote(u, r) \/ (r = "user" /\ u = s)
  <2>1. /\ Len(messages) \in Nat /\ DOMAIN messages = 1..Len(messages)
        /\ DOMAIN messages' = DOMAIN messages \cup {Len(messages) + 1}
        /\ \A i \in DOMAIN messages : messages'[i] = messages[i] /\ i < Len(messages) + 1
        /\ messages'[Len(messages) + 1] = [role |-> "user", stream |-> s]
    BY <1>0, WriteAdds
  <2>2. \A u \in Streams : \A r : Wrote(u, r)' <=> Wrote(u, r) \/ (r = "user" /\ u = s)
    BY <1>0, WriteAdds
  <2>3. n \in Nat /\ DOMAIN messages \subseteq Nat
    BY <2>1
  <2> QED
    BY <2>1, <2>2, <2>3
<1> HIDE DEF n
<1>2. ASSUME NEW u \in Streams
      PROVE  /\ Wrote(u, "user")' => stream'[u].phase \notin {"idle", "admitted", "found"}
             /\ Wrote(u, "assistant")' =>
                  stream'[u].phase \notin {"idle", "admitted", "found", "asked", "detached"}
             /\ stream'[u].phase \in {"asked", "detached"} => Wrote(u, "user")'
  <2>1. /\ Wrote(u, "user")' <=> Wrote(u, "user") \/ u = s
        /\ Wrote(u, "assistant")' <=> Wrote(u, "assistant")
    BY <1>1
  <2>2. CASE u = s
    BY <1>0, <2>1, <2>2 DEF Written
  <2>3. CASE u # s
    BY <1>0, <2>1, <2>3 DEF Written
  <2> QED
    BY <2>2, <2>3
<1>3. ASSUME NEW i \in DOMAIN messages', messages'[i].role = "assistant"
      PROVE  \E j \in DOMAIN messages' :
               j < i /\ messages'[j] = [role |-> "user", stream |-> messages'[i].stream]
  <2>1. i \in DOMAIN messages
    BY <1>1, <1>3
  <2>2. PICK j \in DOMAIN messages :
          j < i /\ messages[j] = [role |-> "user", stream |-> messages[i].stream]
    BY <1>1, <1>3, <2>1 DEF Written
  <2> QED
    BY <1>1, <2>1, <2>2
<1>4. ASSUME NEW i \in DOMAIN messages', NEW j \in DOMAIN messages',
             messages'[i].role = "user", messages'[j].role = "user",
             IdOf[messages'[i].stream] = IdOf[messages'[j].stream]
      PROVE  i = j
  <2>1. ASSUME NEW l \in DOMAIN messages, messages[l].role = "user"
        PROVE  IdOf[messages[l].stream] # IdOf[s]
    BY <1>0, <2>1 DEF Asked
  <2>2. CASE i = n \/ j = n
    BY <1>1, <1>4, <2>1, <2>2
  <2>3. CASE i # n /\ j # n
    BY <1>1, <1>4, <2>3 DEF Written
  <2> QED
    BY <2>2, <2>3
<1>5. ASSUME NEW i \in DOMAIN messages', NEW j \in DOMAIN messages',
             messages'[i].role = "assistant", messages'[j].role = "assistant",
             messages'[i].stream = messages'[j].stream
      PROVE  i = j
  <2>1. i \in DOMAIN messages /\ j \in DOMAIN messages
    BY <1>1, <1>5
  <2> QED
    BY <1>1, <1>5, <2>1 DEF Written
<1> QED
  BY <1>2, <1>3, <1>4, <1>5 DEF Written

(* The answer follows its question, and is the only one of its stream.      *)
LEMMA AnswerWrites ==
  ASSUME RAGTypeOK, RAGTypeOK', Written, NEW s \in Streams, Open(s) \/ DetachedEnds(s),
         Write(s, "assistant")
  PROVE  Written'
<1>0. /\ stream[s].phase \in {"asked", "detached"}
      /\ stream'[s].phase \in {"opening", "ended"}
      /\ \A u \in Streams \ {s} : stream'[u] = stream[u]
  BY ToMoves DEF Open, DetachedEnds, In, Phases
<1> DEFINE n == Len(messages) + 1
<1>1. /\ n \in Nat /\ DOMAIN messages \subseteq Nat
      /\ DOMAIN messages' = DOMAIN messages \cup {n}
      /\ \A i \in DOMAIN messages : messages'[i] = messages[i] /\ i < n
      /\ messages'[n] = [role |-> "assistant", stream |-> s]
      /\ \A u \in Streams : \A r : Wrote(u, r)' <=> Wrote(u, r) \/ (r = "assistant" /\ u = s)
  <2>1. /\ Len(messages) \in Nat /\ DOMAIN messages = 1..Len(messages)
        /\ DOMAIN messages' = DOMAIN messages \cup {Len(messages) + 1}
        /\ \A i \in DOMAIN messages : messages'[i] = messages[i] /\ i < Len(messages) + 1
        /\ messages'[Len(messages) + 1] = [role |-> "assistant", stream |-> s]
    BY WriteAdds
  <2>2. \A u \in Streams : \A r : Wrote(u, r)' <=> Wrote(u, r) \/ (r = "assistant" /\ u = s)
    BY WriteAdds
  <2>3. n \in Nat /\ DOMAIN messages \subseteq Nat
    BY <2>1
  <2> QED
    BY <2>1, <2>2, <2>3
<1> HIDE DEF n
<1>2. ASSUME NEW u \in Streams
      PROVE  /\ Wrote(u, "user")' => stream'[u].phase \notin {"idle", "admitted", "found"}
             /\ Wrote(u, "assistant")' =>
                  stream'[u].phase \notin {"idle", "admitted", "found", "asked", "detached"}
             /\ stream'[u].phase \in {"asked", "detached"} => Wrote(u, "user")'
  <2>1. /\ Wrote(u, "user")' <=> Wrote(u, "user")
        /\ Wrote(u, "assistant")' <=> Wrote(u, "assistant") \/ u = s
    BY <1>1
  <2>2. CASE u = s
    BY <1>0, <2>1, <2>2 DEF Written
  <2>3. CASE u # s
    BY <1>0, <2>1, <2>3 DEF Written
  <2> QED
    BY <2>2, <2>3
<1>3. ASSUME NEW i \in DOMAIN messages', messages'[i].role = "assistant"
      PROVE  \E j \in DOMAIN messages' :
               j < i /\ messages'[j] = [role |-> "user", stream |-> messages'[i].stream]
  <2>1. CASE i \in DOMAIN messages
    <3>1. PICK j \in DOMAIN messages :
            j < i /\ messages[j] = [role |-> "user", stream |-> messages[i].stream]
      BY <1>1, <1>3, <2>1 DEF Written
    <3> QED
      BY <1>1, <2>1, <3>1
  <2>2. CASE i = n
    <3>1. PICK j \in DOMAIN messages : messages[j] = [role |-> "user", stream |-> s]
      BY <1>0 DEF Written, Wrote
    <3>2. messages'[i].stream = s /\ j \in DOMAIN messages' /\ j < i
          /\ messages'[j] = [role |-> "user", stream |-> s]
      BY <1>1, <2>2, <3>1
    <3> QED
      BY <3>2
  <2> QED
    BY <1>1, <2>1, <2>2
<1>4. ASSUME NEW i \in DOMAIN messages', NEW j \in DOMAIN messages',
             messages'[i].role = "user", messages'[j].role = "user",
             IdOf[messages'[i].stream] = IdOf[messages'[j].stream]
      PROVE  i = j
  <2>1. i \in DOMAIN messages /\ j \in DOMAIN messages
    BY <1>1, <1>4
  <2> QED
    BY <1>1, <1>4, <2>1 DEF Written
<1>5. ASSUME NEW i \in DOMAIN messages', NEW j \in DOMAIN messages',
             messages'[i].role = "assistant", messages'[j].role = "assistant",
             messages'[i].stream = messages'[j].stream
      PROVE  i = j
  <2>1. ASSUME NEW l \in DOMAIN messages, messages[l].role = "assistant"
        PROVE  messages[l].stream # s
    <3>1. messages[l] \in Messages
      BY <2>1 DEF RAGTypeOK
    <3>2. messages[l].stream = s => Wrote(s, "assistant")
      BY <2>1, <3>1 DEF Wrote, Messages
    <3> QED
      BY <1>0, <3>2 DEF Written
  <2>2. CASE i = n \/ j = n
    BY <1>1, <1>5, <2>1, <2>2
  <2>3. CASE i # n /\ j # n
    BY <1>1, <1>5, <2>3 DEF Written
  <2> QED
    BY <2>2, <2>3
<1> QED
  BY <1>2, <1>3, <1>4, <1>5 DEF Written

LEMMA WrittenKept ==
  ASSUME RAGTypeOK, RAGTypeOK', Written, [RAGNext]_ragVars
  PROVE  Written'
<1>1. CASE UNCHANGED ragVars \/ StartDelete \/ CommitDelete \/ \E k \in SlotIds : GrowOld(k)
  <2>1. UNCHANGED <<stream, messages>>
    BY <1>1 DEF ragVars, StartDelete, CommitDelete, GrowOld
  <2> QED
    BY <2>1, WrittenQuiet
<1>2. CASE RestartWeb
  <2>1. ASSUME NEW s \in Streams
        PROVE  stream'[s] = stream[s] \/ stream'[s].phase = "ended"
    <3>1. stream'[s] = IF In(s, "idle") THEN stream[s]
                       ELSE [stream[s] EXCEPT !.phase = "ended", !.held = {}]
      BY <1>2 DEF RestartWeb
    <3> QED
      BY <3>1, StreamType DEF StreamStates
  <2>2. UNCHANGED messages
    BY <1>2 DEF RestartWeb
  <2> QED
    BY <2>1, <2>2, WrittenQuiet DEF Early, Waiting
<1>3. ASSUME NEW s \in Streams, AskStep(s) \/ AnswerStep(s) PROVE Written'
  <2>1. \A u \in Streams \ {s} : stream'[u] = stream[u]
    BY <1>3, OthersKept
  <2>2. ASSUME UNCHANGED messages,
               stream'[s].phase \in Early => stream[s].phase \in Early,
               stream'[s].phase \in Waiting => stream[s].phase \in Waiting
        PROVE  Written'
    BY <2>1, <2>2, WrittenQuiet
  <2>3. ASSUME NEW phase \in Phases \ (Early \cup Waiting), To(s, phase), UNCHANGED messages
        PROVE  Written'
    BY <2>2, <2>3, ToMoves
  <2>4. ASSUME NEW told \in {"nothing", "completed", "error"}, End(s, told), UNCHANGED messages
        PROVE  Written'
    <3>1. stream'[s].phase = "ended"
      BY <2>4, EndMoves
    <3> QED
      BY <2>2, <2>4, <3>1 DEF Early, Waiting
  <2>5. \A status : SetJob(s, status) => UNCHANGED messages
    BY DEF SetJob
  <2>6. ASSUME NEW k \in SlotIds, Admit(s, k) PROVE Written'
    <3>1. stream'[s].phase = "admitted" /\ stream[s].phase = "idle" /\ UNCHANGED messages
      BY <2>6, StreamType DEF Admit, RAGTypeOK, StreamStates, In
    <3> QED
      BY <2>2, <3>1 DEF Early, Waiting
  <2>7. CASE Refuse(s) \/ \E k \in SlotIds : AdmitCut(s, k)
    BY <2>3, <2>7 DEF Refuse, AdmitCut, Phases, Early, Waiting
  <2>8. CASE Found(s)
    <3>1. stream'[s].phase = "found" /\ stream[s].phase = "admitted" /\ UNCHANGED messages
      BY <2>8, ToMoves DEF Found, In, Phases
    <3> QED
      BY <2>2, <3>1 DEF Early, Waiting
  <2>9. CASE SearchCut(s)
    <3>1. stream'[s].phase = "detached" /\ stream[s].phase = "asked" /\ UNCHANGED messages
      BY <2>9, StreamType DEF SearchCut, RAGTypeOK, StreamStates, In
    <3> QED
      BY <2>2, <3>1 DEF Early, Waiting
  <2>10. CASE NotFound(s) \/ Replay(s) \/ CutBefore(s) \/ SearchFails(s) \/ CutWhileSending(s)
              \/ PrepareBreaks(s) \/ CutWhileWaiting(s) \/ Tell(s)
    BY <2>4, <2>5, <2>10
    DEF NotFound, Replay, CutBefore, SearchFails, CutWhileSending, PrepareBreaks,
        CutWhileWaiting, Tell, Outcome
  <2>11. CASE Prepare(s) \/ Complete(s) \/ GenerationFails(s) \/ Completed(s)
    BY <2>3, <2>5, <2>11
    DEF Prepare, Complete, GenerationFails, Completed, Step, Phases, Early, Waiting
  <2>12. CASE Open(s) \/ DetachedEnds(s)
    <3>1. CASE Write(s, "assistant")
      BY <2>12, <3>1, AnswerWrites
    <3>2. CASE ~Write(s, "assistant")
      BY <2>3, <2>12, <3>2 DEF Open, DetachedEnds, CreateJob, Phases, Early, Waiting
    <3> QED
      BY <3>1, <3>2
  <2> QED
    BY <1>3, <2>6, <2>7, <2>8, <2>9, <2>10, <2>11, <2>12, AskWrites DEF AskStep, AnswerStep
<1> QED
  BY <1>1, <1>2, <1>3 DEF RAGNext

-----------------------------------------------------------------------------
(* The accounts.                                                            *)

AnswerInv == SlotInv /\ PhaseJob /\ Written /\ Deletion

LEMMA AnswerInvStart == RAGInit => AnswerInv
<1> SUFFICES ASSUME RAGInit PROVE AnswerInv
  OBVIOUS
<1>1. \A s \in Streams :
        stream[s].phase = "idle" /\ stream[s].told = "nothing" /\ answerJob[s] = "none"
  BY DEF RAGInit
<1>2. PhaseJob
  BY <1>1 DEF PhaseJob, PhaseJobOf, In
<1>3. Written
  <2>1. DOMAIN messages = {}
    BY DEF RAGInit
  <2> QED
    BY <1>1, <2>1 DEF Written, Wrote
<1>4. Deletion
  BY DEF RAGInit, Deletion
<1> QED
  BY <1>2, <1>3, <1>4, SlotInvStart DEF AnswerInv

LEMMA AnswerInvKept == AnswerInv /\ [RAGNext]_ragVars => AnswerInv'
<1> SUFFICES ASSUME AnswerInv, [RAGNext]_ragVars PROVE AnswerInv'
  OBVIOUS
<1>1. SlotInv /\ SlotInv' /\ RAGTypeOK /\ RAGTypeOK' /\ HeldOnWay
  BY SlotInvKept DEF AnswerInv, SlotInv
<1> QED
  BY <1>1, PhaseJobKept, WrittenKept, DeletionKept DEF AnswerInv

LEMMA AnsweredByInv == AnswerInv => AnsweredOnce
<1> SUFFICES ASSUME AnswerInv PROVE AnsweredOnce
  OBVIOUS
<1>0. Written /\ PhaseJob /\ messages \in Seq(Messages)
  BY DEF AnswerInv, SlotInv, RAGTypeOK
<1>1. DOMAIN messages \subseteq Nat
  BY <1>0
<1>2. ASSUME NEW j \in DOMAIN messages, messages[j].role = "assistant"
      PROVE  \E k \in DOMAIN messages :
               k < j /\ messages[k].role = "user" /\ messages[k].stream = messages[j].stream
  BY <1>0, <1>2 DEF Written
<1>3. ASSUME NEW i \in DOMAIN messages, NEW j \in DOMAIN messages,
             IdOf[messages[i].stream] = IdOf[messages[j].stream]
      PROVE  /\ messages[i].role = messages[j].role => i = j
             /\ messages[i].role = "user" /\ messages[j].role = "assistant" => i < j
  <2>1. messages[i].role \in {"user", "assistant"}
    <3>1. messages[i] \in Messages
      BY <1>0
    <3> QED
      BY <3>1 DEF Messages
  <2>2. CASE messages[i].role = "user" /\ messages[j].role = "user"
    BY <1>0, <1>3, <2>2 DEF Written
  <2>3. CASE messages[i].role = "user" /\ messages[j].role = "assistant"
    <3>1. PICK k \in DOMAIN messages :
            k < j /\ messages[k].role = "user" /\ messages[k].stream = messages[j].stream
      BY <1>2, <2>3
    <3>2. k = i
      BY <1>0, <1>3, <2>3, <3>1 DEF Written
    <3> QED
      BY <2>3, <3>1, <3>2
  <2>4. CASE messages[i].role = "assistant" /\ messages[j].role = "assistant"
    <3>1. PICK k \in DOMAIN messages :
            messages[k].role = "user" /\ messages[k].stream = messages[i].stream
      BY <1>2, <2>4
    <3>2. PICK l \in DOMAIN messages :
            messages[l].role = "user" /\ messages[l].stream = messages[j].stream
      BY <1>2, <2>4
    <3>3. k = l
      BY <1>0, <1>3, <3>1, <3>2 DEF Written
    <3> QED
      BY <1>0, <2>4, <3>1, <3>2, <3>3 DEF Written
  <2> QED
    BY <2>1, <2>2, <2>3, <2>4
<1>4. ASSUME NEW s \in Streams, stream[s].told # "nothing"
      PROVE  answerJob[s] = (IF stream[s].told = "completed" THEN "COMPLETED" ELSE "FAILED")
  BY <1>0, <1>4 DEF PhaseJob, PhaseJobOf
<1> QED
  BY <1>3, <1>4 DEF AnsweredOnce

(* The limit on answers generated at once, one answer to each question,     *)
(* told as the conversation shows it, and no answer left running in a       *)
(* deleted conversation but by the known race.                              *)
THEOREM AnswersAlwaysAccounted == RAGSpec => []AnswersAccounted
<1>1. AnswerInv => AnswersAccounted
  <2> SUFFICES ASSUME AnswerInv PROVE AnswersAccounted
    OBVIOUS
  <2>1. SlotsKept
    BY SlotsCounted DEF AnswerInv
  <2>2. DeletedBusyByRaceOnly
    BY DEF AnswerInv, Deletion, DeletedBusyByRaceOnly
  <2> QED
    BY <2>1, <2>2, AnsweredByInv DEF AnswersAccounted
<1> QED
  BY <1>1, AnswerInvStart, AnswerInvKept, PTL DEF RAGSpec

-----------------------------------------------------------------------------
(* The quality profile. *)

(* Drafts are numbered in the order they are begun; what somebody saw of    *)
(* the present draft is an earlier revision of it or its present content.   *)
SeenOK ==
  /\ draft.id <= drafts /\ (draft = NoDraft \/ draft.id > 0)
  /\ \A u \in Editors :
       /\ viewed[u].id <= drafts
       /\ draft.id > 0 /\ viewed[u].id = draft.id =>
            /\ viewed[u].revision <= draft.revision
            /\ viewed[u].revision = draft.revision => viewed[u].content = draft.content

(* A run that names the present revision of the present draft has its       *)
(* settings; a run is at its mark only after it has succeeded.              *)
RunsOK ==
  \A r \in RunIds :
    /\ evaluation[r].draft <= drafts
    /\ draft.id > 0 /\ evaluation[r].draft = draft.id =>
         /\ evaluation[r].revision <= draft.revision
         /\ evaluation[r].revision = draft.revision => Measured(draft, evaluation[r].config)
    /\ evaluation[r].step = "measure" => evaluation[r].status = "running"
    /\ evaluation[r].step = "mark" => evaluation[r].status = "succeeded"

(* The mark of a draft names a run of its present revision.                 *)
MarkOK ==
  draft.verified =>
    /\ draft.id > 0
    /\ \E r \in RunIds : /\ evaluation[r].status = "succeeded"
                         /\ evaluation[r].draft = draft.id
                         /\ evaluation[r].revision = draft.revision

(* What was put in force once stays as it was.                              *)
InForceOK ==
  /\ inForce.verified => Measured(inForce.draft, inForce.tested) /\ "other" \notin inForce.draft.axes
  /\ inForce.seen.id = inForce.draft.id => inForce.seen.content = inForce.draft.content

ProfileInv == ProfileTypeOK /\ SeenOK /\ RunsOK /\ MarkOK /\ InForceOK

-----------------------------------------------------------------------------
(* Typing.                                                                  *)

LEMMA NoDraftTypes == NoDraft \in Drafts /\ Defaults \in Settings
<1>1. 0 \in 0..MaxDrafts /\ 0 \in 0..MaxRevisions
  BY ProfileAssumption
<1>2. Defaults \in Settings
  BY DEF Defaults, Settings
<1> QED
  BY <1>1, <1>2 DEF NoDraft, Drafts

LEMMA ProfileInitTypes == ProfileInit => ProfileTypeOK
<1> SUFFICES ASSUME ProfileInit PROVE ProfileTypeOK
  OBVIOUS
<1>1. inForce \in InForce
  BY NoDraftTypes DEF ProfileInit, InForce, Settings, Defaults
<1>2. NoRun \in Runs
  BY ProfileAssumption DEF NoRun, Runs, Defaults
<1>3. evaluation \in [RunIds -> Runs] /\ viewed \in [Editors -> Drafts]
  BY <1>2, NoDraftTypes DEF ProfileInit
<1>4. draft \in Drafts /\ drafts \in 0..MaxDrafts
  BY NoDraftTypes, ProfileAssumption DEF ProfileInit
<1> QED
  BY <1>1, <1>3, <1>4 DEF ProfileTypeOK

LEMMA SaveTypes ==
  ASSUME ProfileTypeOK, NEW u \in Editors, NEW c \in Settings, Save(u, c)
  PROVE  ProfileTypeOK'
<1>1. draft.id \in 0..MaxDrafts /\ draft.revision \in 0..MaxRevisions /\ drafts \in 0..MaxDrafts
  BY DEF ProfileTypeOK, Drafts
<1>2. ChangedAxes(c) \subseteq Axes
  BY DEF ChangedAxes
<1>3. draft'.id \in 0..MaxDrafts /\ draft.revision + 1 \in 0..MaxRevisions
  BY <1>1, ProfileAssumption DEF Save
<1>4. draft' \in Drafts
  BY <1>2, <1>3 DEF Save, Drafts
<1>5. drafts' \in 0..MaxDrafts
  BY <1>1, ProfileAssumption DEF Save
<1>6. viewed' \in [Editors -> Drafts]
  BY <1>4 DEF Save, ProfileTypeOK
<1> QED
  BY <1>4, <1>5, <1>6 DEF Save, ProfileTypeOK

LEMMA EvaluateTypes ==
  ASSUME ProfileTypeOK, NEW u \in Editors, NEW r \in RunIds, Evaluate(u, r)
  PROVE  ProfileTypeOK'
<1>1. Snapshot \in [Fields -> {0, 1}]
  BY DEF Snapshot, ProfileTypeOK, Drafts, InForce, Settings
<1>2. [status |-> "pending", step |-> "rest", draft |-> draft.id,
       revision |-> draft.revision, config |-> Snapshot] \in Runs
  BY <1>1 DEF ProfileTypeOK, Drafts, Runs
<1>3. evaluation' \in [RunIds -> Runs]
  BY <1>2 DEF Evaluate, ProfileTypeOK
<1> QED
  BY <1>3 DEF Evaluate, ProfileTypeOK

LEMMA PutInForceTypes ==
  ASSUME ProfileTypeOK, NEW u \in Editors, NEW v \in BOOLEAN, NEW t \in [Fields -> {0, 1}],
         PutInForce(u, v, t)
  PROVE  ProfileTypeOK'
<1>1. inForce' \in InForce
  BY DEF PutInForce, ProfileTypeOK, InForce
<1> QED
  BY <1>1, NoDraftTypes DEF PutInForce, ProfileTypeOK

LEMMA ProfileStepTypes == ProfileTypeOK /\ [ProfileNext]_profileVars => ProfileTypeOK'
<1> SUFFICES ASSUME ProfileTypeOK, [ProfileNext]_profileVars PROVE ProfileTypeOK'
  OBVIOUS
<1>1. ASSUME NEW u \in Editors, View(u) PROVE ProfileTypeOK'
  BY <1>1 DEF View, ProfileTypeOK
<1>2. ASSUME NEW u \in Editors, DiscardDraft(u) PROVE ProfileTypeOK'
  <2>1. \A d \in 0..MaxDrafts, e \in Runs : [e EXCEPT !.draft = d] \in Runs
    BY DEF Runs
  <2>2. \A r \in RunIds :
           (IF evaluation[r].draft = draft.id THEN 0 ELSE evaluation[r].draft) \in 0..MaxDrafts
    BY ProfileAssumption DEF ProfileTypeOK, Runs
  <2>3. evaluation' \in [RunIds -> Runs]
    BY <1>2, <2>1, <2>2 DEF DiscardDraft, ProfileTypeOK
  <2> QED
    BY <1>2, <2>3, NoDraftTypes DEF DiscardDraft, ProfileTypeOK
<1>3. ASSUME NEW u \in Editors, ApplyUnverified(u) PROVE ProfileTypeOK'
  BY <1>3, PutInForceTypes, NoDraftTypes DEF ApplyUnverified, Settings
<1>4. ASSUME NEW u \in Editors, NEW c \in Settings, Save(u, c) PROVE ProfileTypeOK'
  BY <1>4, SaveTypes
<1>5. ASSUME NEW u \in Editors, NEW r \in RunIds, Evaluate(u, r) PROVE ProfileTypeOK'
  BY <1>5, EvaluateTypes
<1>6. ASSUME NEW u \in Editors, NEW r \in RunIds, ApplyVerified(u, r) PROVE ProfileTypeOK'
  <2>1. evaluation[r].config \in [Fields -> {0, 1}]
    BY DEF ProfileTypeOK, Runs
  <2>2. (draft.axes = {"retrieval"}) \in BOOLEAN
    OBVIOUS
  <2> QED
    BY <1>6, <2>1, <2>2, PutInForceTypes DEF ApplyVerified
<1>7. ASSUME NEW r \in RunIds, StartRun(r) PROVE ProfileTypeOK'
  BY <1>7 DEF StartRun, ProfileTypeOK, Runs
<1>8. ASSUME NEW r \in RunIds, EndRun(r) PROVE ProfileTypeOK'
  BY <1>8 DEF EndRun, ProfileTypeOK, Runs
<1>9. ASSUME NEW r \in RunIds, MarkDraft(r) PROVE ProfileTypeOK'
  <2>1. draft' \in Drafts
    BY <1>9 DEF MarkDraft, ProfileTypeOK, Drafts
  <2> QED
    BY <1>9, <2>1 DEF MarkDraft, ProfileTypeOK, Runs
<1>10. ASSUME NEW r \in RunIds, CutRun(r) PROVE ProfileTypeOK'
  BY <1>10 DEF CutRun, ProfileTypeOK, Runs
<1>11. CASE UNCHANGED profileVars
  BY <1>11 DEF profileVars, ProfileTypeOK
<1> QED
  BY <1>1, <1>2, <1>3, <1>4, <1>5, <1>6, <1>7, <1>8, <1>9, <1>10, <1>11 DEF ProfileNext

-----------------------------------------------------------------------------
(* The invariant.                                                           *)

LEMMA ProfileInitInv == ProfileInit => ProfileInv
<1> SUFFICES ASSUME ProfileInit PROVE ProfileInv
  OBVIOUS
<1>1. ProfileTypeOK
  BY ProfileInitTypes
<1>2. SeenOK /\ RunsOK /\ MarkOK
  BY DEF ProfileInit, SeenOK, RunsOK, MarkOK, NoDraft, NoRun
<1>3. InForceOK
  BY DEF ProfileInit, InForceOK, NoDraft, Defaults, Measured
<1> QED
  BY <1>1, <1>2, <1>3 DEF ProfileInv

LEMMA ViewKeeps ==
  ASSUME ProfileInv, NEW u \in Editors, View(u)
  PROVE  (SeenOK /\ RunsOK /\ MarkOK /\ InForceOK)'
<1>1. draft.id \in Nat /\ draft.revision \in Nat /\ drafts \in Nat
  BY DEF ProfileInv, ProfileTypeOK, Drafts
<1>2. \A v \in Editors : viewed'[v] = IF v = u THEN draft ELSE viewed[v]
  BY DEF View, ProfileInv, ProfileTypeOK
<1>3. SeenOK'
  BY <1>1, <1>2 DEF View, ProfileInv, SeenOK
<1> QED
  BY <1>3 DEF View, ProfileInv, RunsOK, MarkOK, InForceOK, Measured

LEMMA SaveKeeps ==
  ASSUME ProfileInv, NEW u \in Editors, NEW c \in Settings, Save(u, c)
  PROVE  (SeenOK /\ RunsOK /\ MarkOK /\ InForceOK)'
<1>1. /\ draft.id \in Nat /\ draft.revision \in Nat /\ drafts \in Nat
      /\ draft.id <= drafts
      /\ \A v \in Editors : viewed[v].id \in Nat /\ viewed[v].revision \in Nat
      /\ \A r \in RunIds : evaluation[r].draft \in Nat /\ evaluation[r].revision \in Nat
  BY DEF ProfileInv, ProfileTypeOK, Drafts, Runs, SeenOK
<1>2. \A v \in Editors : viewed'[v] = IF v = u THEN draft' ELSE viewed[v]
  BY DEF Save, ProfileInv, ProfileTypeOK
<1>3. ~draft'.verified /\ draft'.content = c /\ draft'.revision = draft.revision + 1
  BY DEF Save
<1>4. CASE draft = NoDraft
  <2>1. drafts' = drafts + 1 /\ draft'.id = drafts + 1
    BY <1>4 DEF Save
  <2>2. SeenOK'
    BY <1>1, <1>2, <1>3, <2>1 DEF ProfileInv, SeenOK
  <2>3. RunsOK'
    BY <1>1, <2>1 DEF Save, ProfileInv, RunsOK
  <2> QED
    BY <1>3, <2>2, <2>3 DEF Save, ProfileInv, MarkOK, InForceOK, Measured
<1>5. CASE draft # NoDraft
  <2>1. drafts' = drafts /\ draft'.id = draft.id /\ draft.id > 0
    BY <1>5 DEF Save, ProfileInv, SeenOK
  <2>2. SeenOK'
    BY <1>1, <1>2, <1>3, <2>1 DEF ProfileInv, SeenOK
  <2>3. RunsOK'
    BY <1>1, <1>3, <2>1 DEF Save, ProfileInv, RunsOK
  <2> QED
    BY <1>3, <2>2, <2>3 DEF Save, ProfileInv, MarkOK, InForceOK, Measured
<1> QED
  BY <1>4, <1>5

LEMMA DiscardKeeps ==
  ASSUME ProfileInv, NEW u \in Editors, DiscardDraft(u)
  PROVE  (SeenOK /\ RunsOK /\ MarkOK /\ InForceOK)'
<1>1. /\ draft'.id = 0 /\ ~draft'.verified /\ draft' = NoDraft
      /\ drafts' = drafts /\ drafts \in Nat
  BY DEF DiscardDraft, NoDraft, ProfileInv, ProfileTypeOK
<1>2. \A v \in Editors : viewed'[v] = IF v = u THEN NoDraft ELSE viewed[v]
  BY DEF DiscardDraft, ProfileInv, ProfileTypeOK
<1>3. SeenOK'
  BY <1>1, <1>2 DEF ProfileInv, SeenOK, NoDraft
<1>4. \A r \in RunIds : /\ evaluation'[r].draft <= drafts
                        /\ evaluation'[r].step = evaluation[r].step
                        /\ evaluation'[r].status = evaluation[r].status
  <2> TAKE r \in RunIds
  <2>1. evaluation[r] \in Runs /\ evaluation[r].draft <= drafts
    BY DEF ProfileInv, ProfileTypeOK, RunsOK
  <2>2. evaluation'[r] =
          [evaluation[r] EXCEPT !.draft = IF evaluation[r].draft = draft.id
                                            THEN 0 ELSE evaluation[r].draft]
    BY DEF DiscardDraft
  <2>3. /\ evaluation'[r].draft = IF evaluation[r].draft = draft.id
                                     THEN 0 ELSE evaluation[r].draft
        /\ evaluation'[r].step = evaluation[r].step
        /\ evaluation'[r].status = evaluation[r].status
    BY <2>1, <2>2 DEF Runs
  <2> QED
    BY <1>1, <2>1, <2>3
<1>5. RunsOK'
  BY <1>1, <1>4 DEF ProfileInv, RunsOK
<1> QED
  BY <1>1, <1>3, <1>5 DEF DiscardDraft, ProfileInv, MarkOK, InForceOK, Measured

LEMMA EvaluateKeeps ==
  ASSUME ProfileInv, NEW u \in Editors, NEW r \in RunIds, Evaluate(u, r)
  PROVE  (SeenOK /\ RunsOK /\ MarkOK /\ InForceOK)'
<1>1. draft.id \in Nat /\ draft.revision \in Nat /\ drafts \in Nat /\ draft.id <= drafts
  BY DEF ProfileInv, ProfileTypeOK, Drafts, SeenOK
<1>2. \A q \in RunIds : q # r => evaluation'[q] = evaluation[q]
  BY DEF Evaluate, ProfileInv, ProfileTypeOK
<1>3. /\ evaluation[r].status = "none"
      /\ evaluation'[r].status = "pending" /\ evaluation'[r].step = "rest"
      /\ evaluation'[r].draft = draft.id /\ evaluation'[r].revision = draft.revision
      /\ evaluation'[r].config = Snapshot
  BY DEF Evaluate, ProfileInv, ProfileTypeOK, NoRun
<1>4. Measured(draft, Snapshot)
  BY DEF Measured, Snapshot
<1>5. draft' = draft /\ drafts' = drafts
  BY DEF Evaluate
<1>6. RunsOK'
  <2> SUFFICES ASSUME NEW q \in RunIds
               PROVE  /\ evaluation'[q].draft <= drafts
                      /\ draft.id > 0 /\ evaluation'[q].draft = draft.id =>
                           /\ evaluation'[q].revision <= draft.revision
                           /\ evaluation'[q].revision = draft.revision =>
                                Measured(draft, evaluation'[q].config)
                      /\ evaluation'[q].step = "measure" => evaluation'[q].status = "running"
                      /\ evaluation'[q].step = "mark" => evaluation'[q].status = "succeeded"
    BY <1>5 DEF RunsOK, Measured
  <2>1. CASE q = r
    BY <1>1, <1>3, <1>4, <2>1
  <2>2. CASE q # r
    BY <1>2, <2>2 DEF ProfileInv, RunsOK
  <2> QED
    BY <2>1, <2>2
<1>7. MarkOK'
  BY <1>2, <1>3, <1>5 DEF ProfileInv, MarkOK
<1> QED
  BY <1>6, <1>7 DEF Evaluate, ProfileInv, SeenOK, InForceOK, Measured

(* What an admin puts in force has the revision the admin has seen, and the *)
(* revision determines the content.                                         *)
LEMMA PutInForceKeeps ==
  ASSUME ProfileInv, NEW u \in Editors, NEW v \in BOOLEAN, NEW t \in [Fields -> {0, 1}],
         draft # NoDraft, UpToDate(u), PutInForce(u, v, t),
         v => Measured(draft, t) /\ "other" \notin draft.axes
  PROVE  (SeenOK /\ RunsOK /\ MarkOK /\ InForceOK)'
<1>1. draft'.id = 0 /\ ~draft'.verified /\ draft' = NoDraft /\ drafts \in Nat
  BY DEF PutInForce, NoDraft, ProfileInv, ProfileTypeOK
<1>2. \A e \in Editors : viewed'[e] = IF e = u THEN NoDraft ELSE viewed[e]
  BY DEF PutInForce, ProfileInv, ProfileTypeOK
<1>3. SeenOK'
  BY <1>1, <1>2 DEF PutInForce, ProfileInv, SeenOK, NoDraft
<1>4. RunsOK' /\ MarkOK'
  BY <1>1 DEF PutInForce, ProfileInv, RunsOK, MarkOK
<1>5. draft.id > 0 /\ (viewed[u].id = draft.id => viewed[u].content = draft.content)
  BY DEF ProfileInv, SeenOK, UpToDate
<1>6. InForceOK'
  BY <1>5 DEF PutInForce, InForceOK, Measured
<1> QED
  BY <1>3, <1>4, <1>6

(* The steps of a run change its status and step only.                      *)
LEMMA RunStepKeeps ==
  ASSUME ProfileInv, NEW r \in RunIds, StartRun(r) \/ EndRun(r) \/ CutRun(r)
  PROVE  (SeenOK /\ RunsOK /\ MarkOK /\ InForceOK)'
<1>1. evaluation[r] \in Runs /\ evaluation \in [RunIds -> Runs]
  BY DEF ProfileInv, ProfileTypeOK
<1>2. \A q \in RunIds : q # r => evaluation'[q] = evaluation[q]
  BY <1>1 DEF StartRun, EndRun, CutRun
<1>3. /\ evaluation'[r].draft = evaluation[r].draft
      /\ evaluation'[r].revision = evaluation[r].revision
      /\ evaluation'[r].config = evaluation[r].config
  BY <1>1 DEF StartRun, EndRun, CutRun, Runs
<1>4. /\ evaluation'[r].step = "measure" => evaluation'[r].status = "running"
      /\ evaluation'[r].step = "mark" => evaluation'[r].status = "succeeded"
      /\ evaluation[r].status = "succeeded" => evaluation'[r].status = "succeeded"
  BY <1>1 DEF StartRun, EndRun, CutRun, Runs, ProfileInv, RunsOK
<1>5. UNCHANGED <<inForce, draft, drafts, viewed>>
  BY DEF StartRun, EndRun, CutRun
<1>6. RunsOK'
  BY <1>2, <1>3, <1>4, <1>5 DEF ProfileInv, RunsOK, Measured
<1>7. MarkOK'
  BY <1>2, <1>3, <1>4, <1>5 DEF ProfileInv, MarkOK
<1> QED
  BY <1>5, <1>6, <1>7 DEF ProfileInv, SeenOK, InForceOK, Measured

LEMMA MarkDraftKeeps ==
  ASSUME ProfileInv, NEW r \in RunIds, MarkDraft(r)
  PROVE  (SeenOK /\ RunsOK /\ MarkOK /\ InForceOK)'
<1>1. evaluation[r] \in Runs /\ evaluation \in [RunIds -> Runs] /\ draft \in Drafts
  BY DEF ProfileInv, ProfileTypeOK
<1>2. \A q \in RunIds : q # r => evaluation'[q] = evaluation[q]
  BY <1>1 DEF MarkDraft
<1>3. /\ evaluation'[r].draft = evaluation[r].draft
      /\ evaluation'[r].revision = evaluation[r].revision
      /\ evaluation'[r].config = evaluation[r].config
      /\ evaluation'[r].status = evaluation[r].status
      /\ evaluation'[r].step = "rest"
  BY <1>1 DEF MarkDraft, Runs
<1>4. evaluation[r].status = "succeeded"
  BY DEF MarkDraft, ProfileInv, RunsOK
<1>5. /\ draft'.id = draft.id /\ draft'.revision = draft.revision
      /\ draft'.content = draft.content
      /\ draft' # draft => /\ draft # NoDraft /\ evaluation[r].draft = draft.id
                           /\ evaluation[r].revision = draft.revision
  BY <1>1 DEF MarkDraft, Drafts
<1>6. UNCHANGED <<inForce, drafts, viewed>>
  BY DEF MarkDraft
<1>7. SeenOK'
  BY <1>5, <1>6 DEF ProfileInv, SeenOK
<1>8. RunsOK'
  BY <1>2, <1>3, <1>5, <1>6 DEF ProfileInv, RunsOK, Measured
<1>9. MarkOK'
  <2>1. CASE draft' = draft
    BY <1>2, <1>3, <2>1 DEF ProfileInv, MarkOK
  <2>2. CASE draft' # draft
    BY <1>3, <1>4, <1>5, <2>2 DEF ProfileInv, SeenOK, MarkOK
  <2> QED
    BY <2>1, <2>2
<1> QED
  BY <1>6, <1>7, <1>8, <1>9 DEF ProfileInv, InForceOK, Measured

LEMMA ProfileStepKeeps == ProfileInv /\ [ProfileNext]_profileVars => ProfileInv'
<1> SUFFICES ASSUME ProfileInv, [ProfileNext]_profileVars
             PROVE  (SeenOK /\ RunsOK /\ MarkOK /\ InForceOK)'
  BY ProfileStepTypes DEF ProfileInv
<1>1. ASSUME NEW u \in Editors, View(u) PROVE (SeenOK /\ RunsOK /\ MarkOK /\ InForceOK)'
  BY <1>1, ViewKeeps
<1>2. ASSUME NEW u \in Editors, DiscardDraft(u)
      PROVE  (SeenOK /\ RunsOK /\ MarkOK /\ InForceOK)'
  BY <1>2, DiscardKeeps
<1>3. ASSUME NEW u \in Editors, ApplyUnverified(u)
      PROVE  (SeenOK /\ RunsOK /\ MarkOK /\ InForceOK)'
  BY <1>3, PutInForceKeeps, NoDraftTypes DEF ApplyUnverified, Settings
<1>4. ASSUME NEW u \in Editors, NEW c \in Settings, Save(u, c)
      PROVE  (SeenOK /\ RunsOK /\ MarkOK /\ InForceOK)'
  BY <1>4, SaveKeeps
<1>5. ASSUME NEW u \in Editors, NEW r \in RunIds, Evaluate(u, r)
      PROVE  (SeenOK /\ RunsOK /\ MarkOK /\ InForceOK)'
  BY <1>5, EvaluateKeeps
<1>6. ASSUME NEW u \in Editors, NEW r \in RunIds, ApplyVerified(u, r)
      PROVE  (SeenOK /\ RunsOK /\ MarkOK /\ InForceOK)'
  <2>1. evaluation[r].config \in [Fields -> {0, 1}]
    BY DEF ProfileInv, ProfileTypeOK, Runs
  <2>2. Measured(draft, evaluation[r].config)
    BY <1>6 DEF ApplyVerified, Matches, ProfileInv, SeenOK, RunsOK
  <2>3. (draft.axes = {"retrieval"}) \in BOOLEAN
    OBVIOUS
  <2>4. draft.axes = {"retrieval"} => "other" \notin draft.axes
    OBVIOUS
  <2>5. /\ draft # NoDraft /\ UpToDate(u)
        /\ PutInForce(u, draft.axes = {"retrieval"}, evaluation[r].config)
    BY <1>6 DEF ApplyVerified
  <2> QED
    BY <2>1, <2>2, <2>3, <2>4, <2>5, PutInForceKeeps
<1>7. ASSUME NEW r \in RunIds, StartRun(r) \/ EndRun(r) \/ CutRun(r)
      PROVE  (SeenOK /\ RunsOK /\ MarkOK /\ InForceOK)'
  BY <1>7, RunStepKeeps
<1>8. ASSUME NEW r \in RunIds, MarkDraft(r) PROVE (SeenOK /\ RunsOK /\ MarkOK /\ InForceOK)'
  BY <1>8, MarkDraftKeeps
<1>9. CASE UNCHANGED profileVars
  BY <1>9 DEF profileVars, ProfileInv, SeenOK, RunsOK, MarkOK, InForceOK, Measured
<1> QED
  BY <1>1, <1>2, <1>3, <1>4, <1>5, <1>6, <1>7, <1>8, <1>9 DEF ProfileNext

(* The bookkeeping of drafts and evaluations is well typed in every state.  *)
THEOREM ProfileTypeCorrect == ProfileSpec => []ProfileTypeOK
<1> QED
  BY ProfileInitTypes, ProfileStepTypes, PTL DEF ProfileSpec

(* Whatever admins, edits, evaluations, crashes and replays there are:      *)
(* settings called verified were measured as they are, and an admin puts in *)
(* force what that admin has seen.                                          *)
THEOREM InForceAsSeenAlways == ProfileSpec => []InForceAsSeen
<1>1. ProfileInv => InForceAsSeen
  <2> SUFFICES ASSUME ProfileInv PROVE InForceAsSeen
    OBVIOUS
  <2>1. ASSUME draft.verified
        PROVE  \E r \in RunIds : /\ evaluation[r].status = "succeeded"
                                 /\ evaluation[r].draft = draft.id
                                 /\ Measured(draft, evaluation[r].config)
    BY <2>1 DEF ProfileInv, MarkOK, RunsOK
  <2> QED
    BY <2>1 DEF ProfileInv, InForceOK, InForceAsSeen
<1> QED
  BY <1>1, ProfileInitInv, ProfileStepKeeps, PTL DEF ProfileSpec

-----------------------------------------------------------------------------
(* The parts side by side.                                                  *)

(* Every behaviour of the parts side by side is one of each part: the       *)
(* pipeline, the answers and the profile share no row, so that whatever     *)
(* acts leaves the others as they are.                                      *)
THEOREM DocumentsRunParts == DocumentsSpec => DocSpec /\ RAGSpec /\ ProfileSpec
<1>1. DocumentsInit => DocInit /\ RAGInit /\ ProfileInit
  BY DEF DocumentsInit
<1>2. [DocumentsNext]_documentsVars => [DocNext]_docVars /\ [RAGNext]_ragVars /\ [ProfileNext]_profileVars
  BY DEF DocumentsNext, documentsVars
<1> QED
  BY <1>1, <1>2, PTL DEF DocumentsSpec, DocSpec, RAGSpec, ProfileSpec

(* Every variable of every part keeps its type while the parts run side by  *)
(* side.                                                                    *)
THEOREM PartsTypeCorrect == DocumentsSpec => []DocumentsTypeOK
<1>1. DocsTypeOK /\ RAGTypeOK /\ ProfileTypeOK => DocumentsTypeOK
  BY DEF DocumentsTypeOK
<1> QED
  BY <1>1, DocumentsRunParts, DocumentsTypeCorrect, RAGTypeCorrect, ProfileTypeCorrect, PTL

=============================================================================
