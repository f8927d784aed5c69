-------------------------------- MODULE Search --------------------------------
(***************************************************************************)
(* document_ai/search: a search (views.py, execution.py, retriever.py and  *)
(* compression.py), step by step as it reads the database and asks the     *)
(* embedding executor, beside everything that changes what it reads: files *)
(* are moved and trashed, parsed and embedded again, the runtime is        *)
(* changed, processes restart and load the runtime that is active then.    *)
(*                                                                         *)
(* A row is a chunk of one parse of a file, told by the version of the     *)
(* parse and its index.  Distances and scores are left open: the index of  *)
(* vectors is approximate, a threshold drops rows, and any row or file may *)
(* score best.  Segments (ChunkSegmentEmbedding) are made of a chunk all   *)
(* at once and never of two models.  What the pipeline, the change and the *)
(* node tree do to the rows is described by other modules in full.         *)
(***************************************************************************)
EXTENDS Naturals, FiniteSets

CONSTANTS
  Files, Folders, Spaces, SpaceOf,  \* nodes; SpaceOf[n]: the workspace of n
  Indices, Window,           \* chunk indices; evidence_context_window
  Models, DimOf, SegmentDim, \* runtimes; their dimension; the dimension of segments
  FirstModel, NoModel,       \* the first runtime; no marker, no vector yet
  Workers, Executor,         \* processes: those of the application, embedding-executor
  EmptyScope,                \* the uid of no node
  Lying,                     \* Lying[f]: the folders f lies in at first
  Searches, Origins,         \* searches, and which of Sources they come from
  Sizes, Multiplier,         \* values of top_k, candidate_multiplier
  PerFile, EvidenceSize,     \* per_node_candidate_cap (0: none), evidence_top_k
  Spare                      \* bound: searches, and steps of others

Nodes == Files \cup Folders
Processes == Workers \cup {Executor}
Kinds == {"searches", "others"}
(* The search page, the sandbox and the answers, which keep a SearchJob.    *)
Sources == {"page", "sandbox", "answer"}

ASSUME SearchAssumption ==
  /\ SpaceOf \in [Nodes -> Spaces] /\ DimOf \in [Models -> Nat]
  /\ Lying \in [Files -> SUBSET Folders] /\ Origins \subseteq Sources
  /\ Workers # {} /\ Spaces # {} /\ Executor \notin Workers
  /\ Indices \subseteq Nat /\ Sizes \subseteq Nat
  /\ {Window, SegmentDim, Multiplier, PerFile, EvidenceSize} \subseteq Nat
  /\ FirstModel \in Models /\ NoModel \notin Models /\ EmptyScope \notin Nodes /\ Spare \in [Kinds -> Nat]

VARIABLES
  above,     \* above[f]: the folders f lies in
  trash,     \* trashed nodes
  index,     \* index[f]: version of the parse, its marker, chunks and embedded chunks
  segments,  \* the stored segments of the chunks there are; late is a ghost
  active,    \* the runtime of embedding_runtime.json
  loaded,    \* the runtime each process has cached
  change,    \* [at, to]: the running change_embedding_runtime
  search,    \* search[s]: the last search of s; allowed and calm are ghosts
  spare      \* what is left of the bounds

shelfVars == <<above, trash>>
runtimeVars == <<active, loaded, change>>
searchVars == <<shelfVars, index, segments, runtimeVars, search, spare>>

Afford(kind) == spare[kind] > 0 /\ spare' = [spare EXCEPT ![kind] = @ - 1]

ChunkRows == [file : Files, version : Nat, at : Indices]
Segments == [file : Files, at : Indices, model : Models, late : BOOLEAN]
Scores == [row : ChunkRows, model : Models, late : BOOLEAN]

Over == {"none", "answered", "busy", "failed", "lost"}
Underway == {"asked", "looking", "embedded", "read", "framed"}
JobStatuses == {"none", "PENDING", "PROCESSING", "COMPLETED", "FAILED"}

NoSearch(w, p) ==
  [at |-> "none", on |-> w, job |-> "none", space |-> p, scope |-> {}, allowed |-> {}, size |-> 0,
   model |-> NoModel, query |-> NoModel, rows |-> {}, context |-> {}, todo |-> {}, scored |-> {},
   answer |-> {}, calm |-> FALSE]

SearchStates ==
  [at : Over \cup Underway, on : Workers, job : JobStatuses, space : Spaces,
   scope : SUBSET Files, allowed : SUBSET Files, size : Nat,
   model : Models \cup {NoModel}, query : Models \cup {NoModel},
   rows : SUBSET ChunkRows, context : SUBSET (ChunkRows \X ChunkRows), todo : SUBSET ChunkRows,
   scored : SUBSET Scores, answer : SUBSET Files, calm : BOOLEAN]

IndexStates ==
  [version : Nat, marker : Models \cup {NoModel}, chunks : SUBSET Indices, embedded : SUBSET Indices]

SearchTypeOK ==
  /\ above \in [Files -> SUBSET Folders] /\ trash \subseteq Nodes
  /\ index \in [Files -> IndexStates] /\ segments \subseteq Segments
  /\ active \in Models /\ loaded \in [Processes -> Models]
  /\ change \in [at : {"none", "blanked", "embedding", "installed", "kept"}, to : Models]
  /\ search \in [Searches -> SearchStates] /\ spare \in [Kinds -> Nat]

(* Every file has been parsed and embedded, and has been searched or not.   *)
SearchInit ==
  /\ above = Lying /\ trash = {} /\ active = FirstModel
  /\ segments \in {{}, [file : Files, at : Indices, model : {FirstModel}, late : {FALSE}]}
  /\ index = [f \in Files |-> [version |-> 1, marker |-> active, chunks |-> Indices, embedded |-> Indices]]
  /\ loaded = [p \in Processes |-> active]
  /\ change = [at |-> "none", to |-> active]
  /\ search = [s \in Searches |-> NoSearch(CHOOSE w \in Workers : TRUE, CHOOSE p \in Spaces : TRUE)]
  /\ spare = Spare

-----------------------------------------------------------------------------
(* What a search reads.                                                     *)

Row(f, i) == [file |-> f, version |-> index[f].version, at |-> i]
RowsOf(f) == {Row(f, i) : i \in index[f].chunks}
Stored(r) == r.version = index[r.file].version /\ r.at \in index[r.file].chunks

Around(i) == {j \in Indices : j <= i + Window /\ i <= j + Window}

(* The rows base_queryset and the filters leave.                            *)
Findable(q) ==
  UNION {{Row(f, i) : i \in index[f].embedded} :
           f \in {f \in q.scope \ trash : SpaceOf[f] = q.space /\ index[f].marker = q.model}}

(* Wrong variant of Expanded: an empty expansion is passed on.              *)
ExpandedOrEmpty(N, p) ==
  LET found == {n \in N \ trash : SpaceOf[n] = p}
  IN (found \cap Files) \cup {f \in Files \ trash : SpaceOf[f] = p /\ above[f] \cap found # {}}

(* Files asked for by name, or lying in a folder asked for.  A request that *)
(* comes to nothing must not become one without a scope, an empty list,     *)
(* which means every file.                                                  *)
Expanded(N, p) ==
  LET found == {n \in N \ trash : SpaceOf[n] = p}
      named == (found \cap Files)
               \cup {f \in Files \ trash : SpaceOf[f] = p /\ above[f] \cap found # {}}
  IN IF N = {} THEN {} ELSE IF named = {} THEN {EmptyScope} ELSE named

ScopeOf(uids) == IF uids = {} THEN Files ELSE Files \cap uids

(* The best n of S, or all of S.                                            *)
FirstOf(A, S, n) == A \subseteq S /\ Cardinality(A) <= n /\ (Cardinality(A) < n => A = S)

OfFile(R, f) == {r \in R : r.file = f}
FilesOf(R) == {r.file : r \in R}

EvidenceLimit == IF PerFile = 0 \/ PerFile > EvidenceSize THEN EvidenceSize ELSE PerFile

(* The candidates a query may return, and the evidence kept of them.        *)
Candidates(K, size) ==
  size = 0 \/ Cardinality(K) <= size * Multiplier \/ Cardinality(K) <= size
Evidence(E, K) ==
  E \subseteq K /\ \A f \in Files : FirstOf(OfFile(E, f), OfFile(K, f), EvidenceLimit)

(* The rows one query reads for all the windows, and what becomes of them:  *)
(* each text is joined of the rows around its own, or stands alone.         *)
WindowRows(E) ==
  IF Window = 0 THEN {}
  ELSE UNION {{x \in RowsOf(f) : \E r \in OfFile(E, f) : x.at \in Around(r.at)} : f \in FilesOf(E)}
TextOf(r, read) == {x \in read : x.file = r.file /\ x.at \in Around(r.at)}
Framed(E, read) ==
  UNION {{r} \X (IF TextOf(r, read) = {} THEN {r} ELSE TextOf(r, read)) : r \in E}

-----------------------------------------------------------------------------
(* A search.                                                                *)

Now(s, q) == search' = [search EXCEPT ![s] = q]
JobNow(job, status) == IF job = "none" THEN "none" ELSE status
(* What is left of a search that came to nothing.                           *)
Left(q, at, status) == [NoSearch(q.on, q.space) EXCEPT !.at = at, !.job = JobNow(q.job, status)]
Ends(s, at) == Now(s, Left(search[s], at, "FAILED"))

Calm(w) == loaded[w] = active /\ loaded[Executor] = active /\ change.at = "none"

(* A member of workspace p asks for the nodes N.  Only the sandbox, which   *)
(* takes no nodes, can ask for all files there are.                         *)
AskSearch(s) ==
  /\ search[s].at \in Over /\ Afford("searches")
  /\ \E w \in Workers, p \in Spaces, o \in Origins, N \in SUBSET Nodes, k \in Sizes :
       /\ o = "sandbox" => N = {}
       /\ k = 0 => o = "sandbox"
       /\ Now(s, [NoSearch(w, p) EXCEPT
                    !.at = "asked", !.job = IF o = "answer" THEN "PENDING" ELSE "none", !.size = k,
                    !.scope = ScopeOf(Expanded(N, p)),
                    !.allowed = IF N = {} THEN Files
                                ELSE Files \cap (N \cup {f \in Files : above[f] \cap N # {}})])
  /\ UNCHANGED <<shelfVars, index, segments, runtimeVars>>

(* The retriever takes the runtime its process has cached and asks whether  *)
(* there is anything to find.                                               *)
StartSearch(s) ==
  LET q == [search[s] EXCEPT !.model = loaded[search[s].on], !.calm = Calm(search[s].on),
                             !.job = JobNow(search[s].job, "PROCESSING")]
  IN /\ search[s].at = "asked"
     /\ Now(s, [q EXCEPT !.at = IF Findable(q) = {} THEN "framed" ELSE "looking"])
     /\ UNCHANGED <<shelfVars, index, segments, runtimeVars, spare>>

(* The executor is sent the text alone: it embeds with the model it has.    *)
EmbedQuery(s) ==
  /\ search[s].at = "looking"
  /\ Now(s, [search[s] EXCEPT !.at = "embedded", !.query = loaded[Executor]])
  /\ UNCHANGED <<shelfVars, index, segments, runtimeVars, spare>>

(* It may be busy (503 and Retry-After) or fail.                            *)
QueryNotEmbedded(s) ==
  /\ search[s].at = "looking"
  /\ Ends(s, "busy") \/ Ends(s, "failed")
  /\ UNCHANGED <<shelfVars, index, segments, runtimeVars, spare>>

(* Rows are read once, and the search goes on with what it read.            *)
ReadRows(s) ==
  /\ search[s].at = "embedded"
  /\ DimOf[search[s].query] = DimOf[search[s].model]
  /\ \E K \in SUBSET Findable(search[s]) : \E E \in SUBSET K :
       /\ Candidates(K, search[s].size) /\ Evidence(E, K)
       /\ Now(s, [search[s] EXCEPT !.at = "read", !.rows = E])
  /\ UNCHANGED <<shelfVars, index, segments, runtimeVars, spare>>

(* The database compares vectors of one dimension only.                     *)
RowsUnreadable(s) ==
  /\ search[s].at = "embedded"
  /\ DimOf[search[s].query] # DimOf[search[s].model]
  /\ Ends(s, "failed")
  /\ UNCHANGED <<shelfVars, index, segments, runtimeVars, spare>>

(* The texts around the evidence, and, if a profile or the server wants it  *)
(* and the dimension allows it, the evidence to compress.                   *)
LoadContexts(s) ==
  /\ search[s].at = "read"
  /\ \E todo \in {{}, search[s].rows} :
       /\ todo = {} \/ DimOf[search[s].model] = SegmentDim
       /\ Now(s, [search[s] EXCEPT !.at = "framed", !.todo = todo,
                    !.context = Framed(search[s].rows, WindowRows(search[s].rows))])
  /\ UNCHANGED <<shelfVars, index, segments, runtimeVars, spare>>

Scored(s, r, model, lateness) ==
  Now(s, [search[s] EXCEPT !.todo = @ \ {r},
                           !.scored = @ \cup {[row |-> r, model |-> model, late |-> lateness]}])

(* The segments of a chunk are there and are scored as they are.            *)
ReuseSegments(s) ==
  /\ search[s].at = "framed"
  /\ \E r \in search[s].todo, g \in segments :
       /\ Stored(r) /\ g.file = r.file /\ g.at = r.at
       /\ Scored(s, r, g.model, g.late)
  /\ UNCHANGED <<shelfVars, index, segments, runtimeVars, spare>>

(* They are not, and are made and stored in one transaction.  Only a search *)
(* that is not calm leaves segments that may come too late.                 *)
EmbedSegments(s) ==
  /\ search[s].at = "framed" /\ DimOf[loaded[Executor]] = SegmentDim
  /\ \E r \in search[s].todo :
       /\ Stored(r) /\ \A g \in segments : ~ (g.file = r.file /\ g.at = r.at)
       /\ segments' = segments \cup {[file |-> r.file, at |-> r.at, model |-> loaded[Executor],
                                      late |-> ~search[s].calm]}
       /\ Scored(s, r, loaded[Executor], ~search[s].calm)
  /\ UNCHANGED <<shelfVars, index, runtimeVars, spare>>

(* No text to split, the executor or the transaction fails: the evidence is *)
(* shown as it is.                                                          *)
LeaveWhole(s) ==
  /\ search[s].at = "framed"
  /\ \E r \in search[s].todo : Now(s, [search[s] EXCEPT !.todo = @ \ {r}])
  /\ UNCHANGED <<shelfVars, index, segments, runtimeVars, spare>>

(* The best files, every file if top_k is 0.                                *)
AnswerSearch(s) ==
  /\ search[s].at = "framed" /\ search[s].todo = {}
  /\ \E A \in SUBSET FilesOf(search[s].rows) :
       /\ IF search[s].size = 0 THEN A = FilesOf(search[s].rows)
          ELSE FirstOf(A, FilesOf(search[s].rows), search[s].size)
       /\ Now(s, [search[s] EXCEPT !.at = "answered", !.answer = A,
                                   !.job = JobNow(search[s].job, "COMPLETED")])
  /\ UNCHANGED <<shelfVars, index, segments, runtimeVars, spare>>

-----------------------------------------------------------------------------
(* What goes on meanwhile.                                                  *)

Disturbed == [s \in Searches |-> [search[s] EXCEPT !.calm = FALSE]]

MoveFile(f) ==
  /\ Afford("others")
  /\ \E A \in SUBSET {d \in Folders : SpaceOf[d] = SpaceOf[f]} : above' = [above EXCEPT ![f] = A]
  /\ UNCHANGED <<trash, index, segments, runtimeVars, search>>

(* A folder takes what lies in it along; here it goes node by node.         *)
TrashOrRestore(n) ==
  /\ Afford("others")
  /\ trash' = IF n \in trash THEN trash \ {n} ELSE trash \cup {n}
  /\ UNCHANGED <<above, index, segments, runtimeVars, search>>

(* The chunks of a parse replace those of the last one; the segments go     *)
(* with their chunks.  A deleted file is one in the trash without chunks.   *)
Reparse(f) ==
  /\ Afford("others")
  /\ \E C \in SUBSET Indices :
       index' = [index EXCEPT ![f].version = @ + 1, ![f].chunks = C, ![f].embedded = {}]
  /\ segments' = {g \in segments : g.file # f}
  /\ UNCHANGED <<shelfVars, runtimeVars, search>>

(* Embedding jobs store vectors, and mark the file when it has them all.    *)
StoreVectors(f) ==
  /\ Afford("others")
  /\ \E I \in SUBSET (index[f].chunks \ index[f].embedded) \ {{}} :
       index' = [index EXCEPT ![f].embedded = @ \cup I,
                              ![f].marker = IF index[f].chunks \subseteq index[f].embedded \cup I
                                            THEN loaded[Executor] ELSE @]
  /\ UNCHANGED <<shelfVars, segments, runtimeVars, search>>

(* A retry takes the marker, and all vectors if they are of another model.  *)
ForgetVectors(f) ==
  /\ Afford("others")
  /\ \E I \in {{}, index[f].embedded} :
       index' = [index EXCEPT ![f].embedded = I, ![f].marker = NoModel]
  /\ UNCHANGED <<shelfVars, segments, runtimeVars, search>>

PurgeSegments ==
  /\ Afford("others")
  /\ segments' = {}
  /\ UNCHANGED <<shelfVars, index, runtimeVars, search>>

(* Processes end and start again, with the searches they ran lost.          *)
Restart(P) ==
  /\ Afford("others")
  /\ loaded' = [p \in Processes |-> IF p \in P THEN active ELSE loaded[p]]
  /\ search' = [s \in Searches |->
                  IF search[s].on \in P /\ search[s].at \in Underway
                  THEN Left(search[s], "lost", search[s].job) ELSE Disturbed[s]]
  /\ UNCHANGED <<shelfVars, index, segments, active, change>>

MarkedAs(T, m) == index' = [f \in Files |-> IF f \in T THEN [index[f] EXCEPT !.marker = m] ELSE index[f]]
Embedded(T) ==
  index' = [f \in Files |-> IF f \in T THEN [index[f] EXCEPT !.embedded = index[f].chunks] ELSE index[f]]

(* A change to runtime m: the markers of the files it finds go, then all    *)
(* segments; the vectors are made again; the new runtime is installed, and  *)
(* the files are marked with it.                                            *)
BlankMarkers(m) ==
  /\ change.at = "none" /\ m # active /\ Afford("others")
  /\ \E T \in SUBSET (Files \ trash) : MarkedAs(T, NoModel)
  /\ change' = [at |-> "blanked", to |-> m]
  /\ search' = Disturbed
  /\ UNCHANGED <<shelfVars, segments, active, loaded>>

DropSegments ==
  /\ change.at = "blanked"
  /\ segments' = {}
  /\ change' = [change EXCEPT !.at = "embedding"]
  /\ UNCHANGED <<shelfVars, index, active, loaded, search, spare>>

InstallRuntime ==
  /\ change.at = "embedding"
  /\ \E T \in SUBSET (Files \ trash) : Embedded(T)
  /\ active' = change.to
  /\ change' = [change EXCEPT !.at = "installed"]
  /\ UNCHANGED <<shelfVars, segments, loaded, search, spare>>

MarkFiles ==
  /\ change.at = "installed"
  /\ \E T \in SUBSET (Files \ trash) : MarkedAs(T, change.to)
  /\ change' = [change EXCEPT !.at = "none"]
  /\ UNCHANGED <<shelfVars, segments, active, loaded, search, spare>>

(* --skip-reembed: the runtime is installed at once, and segments stay.     *)
InstallAlone(m) ==
  /\ change.at = "none" /\ m # active /\ Afford("others")
  /\ active' = m
  /\ change' = [at |-> "kept", to |-> m]
  /\ segments' = {[g EXCEPT !.late = TRUE] : g \in segments}
  /\ search' = Disturbed
  /\ UNCHANGED <<shelfVars, index, loaded>>

ForgetMarkers ==
  /\ change.at = "kept"
  /\ \E T \in SUBSET (Files \ trash) : MarkedAs(T, NoModel)
  /\ change' = [change EXCEPT !.at = "none"]
  /\ UNCHANGED <<shelfVars, segments, active, loaded, search, spare>>

StopChange ==
  /\ change.at # "none"
  /\ change' = [change EXCEPT !.at = "none"]
  /\ UNCHANGED <<shelfVars, index, segments, active, loaded, search, spare>>

-----------------------------------------------------------------------------
Searching(s) ==
  \/ AskSearch(s) \/ StartSearch(s) \/ EmbedQuery(s) \/ QueryNotEmbedded(s)
  \/ ReadRows(s) \/ RowsUnreadable(s) \/ LoadContexts(s)
  \/ ReuseSegments(s) \/ EmbedSegments(s) \/ LeaveWhole(s) \/ AnswerSearch(s)

Changing ==
  \/ \E m \in Models : BlankMarkers(m) \/ InstallAlone(m)
  \/ DropSegments \/ InstallRuntime \/ MarkFiles \/ ForgetMarkers \/ StopChange

SearchNext ==
  \/ \E s \in Searches : Searching(s)
  \/ \E f \in Files : MoveFile(f) \/ Reparse(f) \/ StoreVectors(f) \/ ForgetVectors(f)
  \/ \E n \in Nodes : TrashOrRestore(n)
  \/ \E P \in SUBSET Processes : Restart(P)
  \/ PurgeSegments \/ Changing

SearchSpec == SearchInit /\ [][SearchNext]_searchVars

-----------------------------------------------------------------------------
(* A request that names nodes is answered from these nodes and what lay in  *)
(* them when it was made, and any request from the workspace it was made    *)
(* in: a scope that comes to nothing does not become no scope at all.       *)
WithinRequest(q) == q.answer \subseteq q.allowed /\ \A f \in q.answer : SpaceOf[f] = q.space

(* As long as a file has not been parsed again, each of its evidences comes *)
(* with the texts around it in that file, all of them and no others, though *)
(* one query reads the windows of all evidences together.                   *)
ContextsInPlace(q) ==
  \A r \in q.rows :
    r.version = index[r.file].version =>
      {p[2] : p \in {c \in q.context : c[1] = r}} = {Row(r.file, j) : j \in Around(r.at) \cap index[r.file].chunks}

(* Segments do not say which model made them.  A search during which every  *)
(* process had the active runtime and no change ran scores them with a      *)
(* query of their model, whatever changes there were before; but for        *)
(* segments that a search stored while this was not so, and for those that  *)
(* a change with --skip-reembed leaves.                                     *)
OneModelScored(q) == q.calm => \A x \in q.scored : x.late \/ x.model = q.query

(* What a search that is answered was answered with.                        *)
SearchSound ==
  \A s \in Searches :
    search[s].at = "answered" =>
      WithinRequest(search[s]) /\ ContextsInPlace(search[s]) /\ OneModelScored(search[s])

=============================================================================
