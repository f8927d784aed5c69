------------------------------ MODULE FileStore ------------------------------
(***************************************************************************)
(* Blobs, the files on disk and the two quota counters, composed with the  *)
(* tree of NodeTree: uploads, permanent deletion and the sync API          *)
(* (files/services/storage.py, files/signals.py, file_service.py and       *)
(* files/sync_api/views.py).  The sync API serves personal workspaces      *)
(* only, which have one member; its requests compete with those the same   *)
(* user sends from the browser or from another device.                     *)
(***************************************************************************)
EXTENDS NodeTree, FiniteSetsExt

CONSTANTS
  Sizes,        \* sizes of uploaded files
  AskedAI,      \* what uploads say about AI processing
  Candidates,   \* Candidates[n]: the names save_file tries for n, in order
  TotalSize,    \* UserStorage.total_size
  SyncTotal,    \* SyncQuota.total_size
  SyncName,     \* name of the folder all sync roots are in
  RootName,     \* name of the sync root
  RelPaths,     \* paths below the sync root the client sends
  Workspaces    \* the workspaces to begin with: [tree, members, blobs, files]

VARIABLES
  members,   \* the active members; one in a personal workspace
  blob,      \* blob[i]: the blob row of node i, or NoBlob
  disk,      \* files in storage
  files,     \* files ever written
  used,      \* UserStorage.used_size
  syncUsed   \* SyncQuota.used_size of the owner of a personal workspace

storeVars == <<members, blob, disk, files, used, syncUsed>>
fileVars == <<treeVars, storeVars>>

NoBlob == [size |-> 0, file |-> 0]
HasBlob(i) == blob[i] # NoBlob
NoFile == [name |-> "none"]

Blobs == [size : Sizes, file : Nat \ {0}] \cup {NoBlob}

(* What the requests of this module hold.                                   *)
StoreRequests ==
  [op : {"upload"}, user : Users, parent : NodeIds \cup {Root}, base : Seq(Names), name : Names,
   size : Sizes, ai : BOOLEAN, read : Int]
  \cup [op : {"delete"}, user : Users, ids : SUBSET NodeIds, nodes : SUBSET NodeIds,
        blobs : [NodeIds -> Blobs]]
  \cup [op : {"walk"}, user : Users, parent : NodeIds \cup {Root}, base : Seq(Names),
        dirs : Seq(Names), file : [name : Names, size : Sizes, ai : BOOLEAN]]
  \cup [op : {"walk"}, user : Users, parent : NodeIds \cup {Root}, base : Seq(Names),
        dirs : Seq(Names) \ {<<>>}, file : {NoFile}]
  \cup [op : {"sync"}, user : Users, parent : NodeIds \cup {Root}, base : Seq(Names), name : Names,
        size : Sizes, ai : BOOLEAN, id : NodeIds \cup {Root}, old : Blobs, read : Int]
  \cup [op : {"count"}, delta : Int, read : Int]

FilesTypeOK ==
  /\ TreeTypeOK
  /\ req \in [Slots -> TreeRequests \cup StoreRequests]
  /\ members \subseteq Users
  /\ blob \in [NodeIds -> Blobs]
  /\ files \in Nat /\ disk \subseteq 1..files
  /\ \A i \in NodeIds : HasBlob(i) => blob[i].file <= files
  /\ used \in Int /\ syncUsed \in Int

(* The sum of the numbers f[x].                                             *)
Total(f) == MapThenSumSet(LAMBDA x : f[x], DOMAIN f)

(* A workspace to begin with: parents are folders, blobs are of files.      *)
IsWorkspace(w) ==
  /\ w.tree \in Trees /\ Consistent(w.tree)
  /\ \A i \in Rows(w.tree) : w.tree[i].parent = Root \/ w.tree[w.tree[i].parent].kind = "folder"
  /\ w.members \subseteq Users
  /\ w.files \in Nat
  /\ w.blobs \in [NodeIds -> [size : Sizes, file : 1..w.files] \cup {NoBlob}]
  /\ \A i \in NodeIds : w.blobs[i] # NoBlob => w.tree[i].kind = "file"

ASSUME FilesAssumption ==
  /\ Sizes \subseteq Nat /\ AskedAI \subseteq BOOLEAN
  /\ {SyncName, RootName} \subseteq Names
  /\ \A n \in Names : Candidates[n] \in Seq(Names)
  /\ \A rel \in RelPaths : rel \in Seq(Names) /\ rel # <<>>
  /\ {TotalSize, SyncTotal} \subseteq Nat
  /\ \A w \in Workspaces : IsWorkspace(w)

Personal == Cardinality(members) = 1

-----------------------------------------------------------------------------
(* Web uploads. *)

(* upload_file: the parent may be in the trash; validate_upload reads the   *)
(* counter and nothing reserves the space.                                  *)
StartUpload(r, u, p, n, size, ai) ==
  /\ p = Root \/ IsFolder(p)
  /\ HasKey
  /\ used + size <= TotalSize
  /\ Begin(r, [op |-> "upload", user |-> u, parent |-> p, base |-> PathIn(node, p),
               name |-> n, size |-> size, ai |-> ai, read |-> used])
  /\ UNCHANGED storeVars

(* save_file: the first candidate name whose row the database accepts.  The *)
(* row, the blob and, by the signal, the counter are one transaction; the   *)
(* file is on disk before it commits and stays there if it does not.        *)
Inserted(q, n) ==
  [node EXCEPT ![NextKey] = NewRow("file", q.user, q.parent, q.base, n, q.ai)]

SaveFile(q) ==
  LET tried == Candidates[q.name]
      fits == {k \in 1..Len(tried) : Consistent(Inserted(q, tried[k]))}
  IN
  /\ HasKey
  /\ files' = files + 1
  /\ disk' = disk \cup {files + 1}
  /\ IF fits = {}
     THEN UNCHANGED <<node, blob, used>>
     ELSE /\ node' = Inserted(q, tried[Min(fits)])
          /\ blob' = [blob EXCEPT ![NextKey] = [size |-> q.size, file |-> files + 1]]
          /\ used' = used + q.size

CommitUpload(r) ==
  /\ req[r].op = "upload"
  /\ SaveFile(req[r])
  /\ Finish(r)
  /\ UNCHANGED <<day, started, members, syncUsed>>

-----------------------------------------------------------------------------
(* Permanent deletion: _delete_nodes_with_blobs. *)

(* The files of the listed nodes go first, outside any transaction; then    *)
(* the cascade is collected, with the blobs of all its nodes.               *)
PurgeFiles(r) ==
  LET q == req[r]
      nodes == Below(q.ids)
  IN
  /\ q.op = "purge"
  /\ disk' = disk \ {blob[i].file : i \in q.ids}
  /\ req' = [req EXCEPT ![r] =
               [op |-> "delete", user |-> q.user, ids |-> q.ids, nodes |-> nodes,
                blobs |-> [i \in NodeIds |-> IF i \in nodes THEN blob[i] ELSE NoBlob]]]
  /\ UNCHANGED <<node, day, started, members, blob, files, used, syncUsed>>

(* One transaction deletes what was collected.  The signal of each blob     *)
(* reads its node, which another deletion may have removed, and takes the   *)
(* size off the counter whether its row was still there or not.  A row that *)
(* refers to a deleted one makes the commit fail.                           *)
PurgeRows(r) ==
  LET q == req[r]
      rest == [i \in NodeIds |-> IF i \in q.nodes /\ IsRow(node, i) THEN Gone ELSE node[i]]
      kept == [i \in NodeIds |-> IF q.blobs[i] = blob[i] THEN NoBlob ELSE blob[i]]
      ok == /\ \A i \in NodeIds : q.blobs[i] # NoBlob => IsRow(node, i)
            /\ Consistent(rest)
            /\ \A i \in q.nodes : kept[i] = NoBlob
  IN
  /\ q.op = "delete"
  /\ IF ok
     THEN /\ node' = rest
          /\ blob' = kept
          /\ used' = used - Total([i \in NodeIds |-> q.blobs[i].size])
     ELSE UNCHANGED <<node, blob, used>>
  /\ Finish(r)
  /\ UNCHANGED <<day, started, members, disk, files, syncUsed>>

-----------------------------------------------------------------------------
(* The sync API. *)

FoldersNamed(t, p, n) ==
  {i \in Rows(t) : t[i].kind = "folder" /\ t[i].parent = p /\ t[i].name = n}

(* _resolve_sync_folder without create, or by the key the client knows.     *)
SyncRoots ==
  {i \in Rows(node) :
     /\ node[i].kind = "folder" /\ ~node[i].trashed
     /\ \E s \in FoldersNamed(node, Root, SyncName) :
           node[i].parent = s /\ ~node[s].trashed}

(* A request walks down the folders dirs, from the top by the name of the   *)
(* sync root or from the root whose key the client knows.                   *)
StartWalk(r, u, dirs, file) ==
  /\ Personal
  /\ \E from \in SyncRoots \cup {Root} :
       Begin(r, [op |-> "walk", user |-> u, parent |-> from, base |-> PathIn(node, from),
                 dirs |-> (IF from = Root THEN <<SyncName, RootName>> ELSE <<>>) \o dirs,
                 file |-> file])
  /\ UNCHANGED storeVars

(* get_or_create and _restore_folder_if_needed on the next folder.  Every   *)
(* step commits by itself, so what it has changed stays when a later one    *)
(* fails.  A folder is created with the path its parent had when it was     *)
(* loaded.                                                                  *)
Walking(q) ==
  /\ q.op = "walk" /\ q.dirs # <<>>

WalkFound(q) == FoldersNamed(node, q.parent, Head(q.dirs))

(* A mkdir is answered at its last folder.                                  *)
WalkTo(r, i, path) ==
  LET q == req[r] IN
  req' = [req EXCEPT ![r] = IF Tail(q.dirs) = <<>> /\ q.file = NoFile THEN Idle
                            ELSE [q EXCEPT !.parent = i, !.base = path, !.dirs = Tail(q.dirs)]]

WalkInto(r) ==
  LET q == req[r] IN
  /\ Walking(q)
  /\ \E i \in WalkFound(q) :
       /\ WalkFound(q) = {i}
       /\ node' = IF node[i].trashed
                  THEN [node EXCEPT ![i].trashed = FALSE, ![i].ai = TRUE, ![i].deletedAt = Never]
                  ELSE node
       /\ WalkTo(r, i, node[i].path)
  /\ UNCHANGED <<day, started, storeVars>>

WalkCreate(r) ==
  LET q == req[r]
      n == Head(q.dirs)
      added == [node EXCEPT ![NextKey] = NewRow("folder", q.user, q.parent, q.base, n, TRUE)]
  IN
  /\ Walking(q)
  /\ WalkFound(q) = {} /\ HasKey /\ Consistent(added)
  /\ node' = added
  /\ WalkTo(r, NextKey, Append(q.base, n))
  /\ UNCHANGED <<day, started, storeVars>>

(* A name that cannot be inserted or that two folders have.                 *)
WalkFails(r) ==
  LET q == req[r] IN
  /\ Walking(q)
  /\ \/ Cardinality(WalkFound(q)) > 1
     \/ /\ WalkFound(q) = {} /\ HasKey
        /\ ~Consistent([node EXCEPT ![NextKey] =
                          NewRow("folder", q.user, q.parent, q.base, Head(q.dirs), TRUE)])
  /\ Finish(r)
  /\ UNCHANGED <<node, day, started, storeVars>>

(* upload: when the folders are there, the row of the file, trashed or not, *)
(* and its blob are read and the quota is checked against the growth.       *)
ReadFile(r) ==
  LET q == req[r]
      found == {i \in Rows(node) : node[i].kind = "file" /\ node[i].parent = q.parent
                                   /\ node[i].name = q.file.name}
      id == IF found = {} THEN Root ELSE Min(found)
      old == IF found = {} THEN NoBlob ELSE blob[id]
      growth == IF q.file.size > old.size THEN q.file.size - old.size ELSE 0
  IN
  /\ q.op = "walk" /\ q.dirs = <<>>
  /\ req' = [req EXCEPT ![r] =
                IF syncUsed + growth <= SyncTotal
                THEN [op |-> "sync", user |-> q.user, parent |-> q.parent, base |-> q.base,
                      name |-> q.file.name, size |-> q.file.size, ai |-> q.file.ai,
                      id |-> id, old |-> old, read |-> syncUsed]
                ELSE Idle]
  /\ UNCHANGED <<node, day, started, storeVars>>

(* The blob that was read is deleted and a new one made, in a transaction:  *)
(* the old size leaves the counter even if another request has deleted that *)
(* blob, and a blob that request made keeps this one from being inserted.   *)
(* The old file stays on disk.                                              *)
Replacement(q) ==
  LET i == q.id
      deleted == IF blob[i] = q.old THEN NoBlob ELSE blob[i]
      ok == IsRow(node, i) /\ deleted = NoBlob
      new == [size |-> q.size, file |-> files + 1]
  IN
  /\ files' = files + 1
  /\ disk' = disk \cup {files + 1}
  /\ IF ok
     THEN /\ node' = [node EXCEPT ![i].trashed = FALSE, ![i].deletedAt = Never, ![i].ai = q.ai]
          /\ blob' = [blob EXCEPT ![i] = new]
          /\ used' = used - q.old.size + q.size
     ELSE UNCHANGED <<node, blob, used>>

(* The sync counter moves after the transaction, in a statement of its own. *)
CommitSync(r) ==
  LET q == req[r] IN
  /\ q.op = "sync"
  /\ IF q.id = Root THEN SaveFile(q) ELSE Replacement(q)
  /\ req' = [req EXCEPT ![r] = IF blob' = blob THEN Idle
                               ELSE [op |-> "count", delta |-> q.size - q.old.size,
                                     read |-> q.read]]
  /\ UNCHANGED <<day, started, members, syncUsed>>

CountSync(r) ==
  LET q == req[r] IN
  /\ q.op = "count"
  /\ syncUsed' = syncUsed + q.delta
  /\ Finish(r)
  /\ UNCHANGED <<node, day, started, members, blob, disk, files, used>>

(* delete: a node inside a sync root, by its path, goes to the trash as in  *)
(* CommitTrash; nobody's ownership is asked for and no quota is returned.   *)
StartSyncDelete(r, u, i) ==
  /\ Personal
  /\ IsRow(node, i) /\ ~node[i].trashed
  /\ \E s \in SyncRoots : IsStrictPrefix(node[s].path, node[i].path)
  /\ Begin(r, [op |-> "trash", user |-> u, id |-> i, row |-> node[i]])
  /\ UNCHANGED storeVars

-----------------------------------------------------------------------------
FileInit ==
  \E w \in Workspaces :
    /\ TreeInit(w.tree)
    /\ members = w.members
    /\ blob = w.blobs
    /\ files = w.files
    /\ disk = {w.blobs[i].file : i \in NodeIds} \ {0}
    /\ used = Total([i \in NodeIds |-> w.blobs[i].size])
    /\ syncUsed = 0

(* Slots are alike: a request takes the first free one. *)
FreeSlot(r) == \A s \in Slots : s < r => req[s] # Idle

FileStart(r, u) ==
  \/ TreeStart(r, u) /\ UNCHANGED storeVars
  \/ \E p \in NodeIds \cup {Root}, n \in GivenNames, size \in Sizes, ai \in AskedAI :
       StartUpload(r, u, p, n, size, ai)
  \/ \E rel \in RelPaths, size \in Sizes, ai \in AskedAI :
       StartWalk(r, u, Front(rel), [name |-> Last(rel), size |-> size, ai |-> ai])
  \/ \E rel \in RelPaths : StartWalk(r, u, rel, NoFile)
  \/ \E i \in NodeIds : StartSyncDelete(r, u, i)

FileStep(r) ==
  \/ TreeCommit(r) /\ UNCHANGED storeVars
  \/ CommitUpload(r) \/ PurgeFiles(r) \/ PurgeRows(r)
  \/ WalkInto(r) \/ WalkCreate(r) \/ WalkFails(r) \/ ReadFile(r) \/ CommitSync(r) \/ CountSync(r)

FileNext ==
  \/ \E r \in Slots : FreeSlot(r) /\ \E u \in members : FileStart(r, u)
  \/ \E r \in Slots : FileStep(r)
  \/ PassDay /\ UNCHANGED storeVars

FileSpec == FileInit /\ [][FileNext]_fileVars

-----------------------------------------------------------------------------
(* Properties. *)

(* The counter a workspace is charged by is the sum of its blobs.           *)
UsedIsSum == used = Total([i \in NodeIds |-> blob[i].size])

(* The row of a file without its blob.                                      *)
Bare(i) == IsRow(node, i) /\ node[i].kind = "file" /\ ~HasBlob(i)

(* However uploads, replacements and deletions of one blob overlap, the     *)
(* counter stays the sum of the blobs, though signals.py adds and subtracts *)
(* without looking: a row that is gone makes the second deletion fail.  The *)
(* exception is a request that writes back its copy of a row which has been *)
(* deleted (Node.save inserts it); the row is then bare, and who collected  *)
(* the blob before subtracts it again.                                      *)
CounterBrokenByCopyOnly ==
  [][/\ UsedIsSum /\ ~UsedIsSum' => \E i \in NodeIds : Bare(i)
     /\ \A i \in NodeIds : Bare(i)' => Bare(i) \/ node[i] = Gone]_fileVars

(* Uploads pass a quota only because the counter was read before another    *)
(* request moved it: validate_upload and _check_sync_quota reserve nothing. *)
QuotaPassedByRaceOnly ==
  [][\A r \in Slots : req'[r] # req[r] =>
       /\ req[r].op = "upload" /\ used' > used /\ used' > TotalSize
            => req[r].read # used
       /\ req[r].op = "count" /\ syncUsed' > syncUsed /\ syncUsed' > SyncTotal
            => req[r].read # syncUsed]_fileVars

(* A row whose path is its parent's path and its own name.                  *)
WellPlaced(t, i) ==
  /\ t[i].parent = Root \/ IsRow(t, t[i].parent)
  /\ t[i].path = Append(PathIn(t, t[i].parent), t[i].name)

TreeOK == \A i \in Rows(node) : WellPlaced(node, i)

(* What a request loaded is no longer in the table.                         *)
OutOfDate(q) ==
  \/ q.op \in {"move", "star"} /\ node[q.id] # q.row
  \/ q.op \in {"create", "move", "upload", "walk", "sync"} /\ q.base # PathIn(node, q.parent)

(* The old path occurs a second time below the moved folder.                *)
Recurs(q) ==
  /\ q.op = "move"
  /\ \E j \in Rows(node) :
       /\ IsStrictPrefix(q.row.path, node[j].path)
       /\ Replaced(node[j].path, q.row.path, Append(q.base, q.name))
            # Append(q.base, q.name) \o SubSeq(node[j].path, Len(q.row.path) + 1, Len(node[j].path))

(* The tree comes apart (a path that is not the parent's path and the name, *)
(* a folder below itself) only when a request commits rows that have        *)
(* changed since it loaded them, or when Node.move's text replacement meets *)
(* the old path again further down.                                         *)
TreeBrokenByRaceOnly ==
  [][node' # node /\ TreeOK /\ ~TreeOK' =>
       \E r \in Slots : /\ req[r] # Idle /\ req'[r] # req[r]
                        /\ OutOfDate(req[r]) \/ Recurs(req[r])]_fileVars

(* The counter, the tree and the quotas give way only to requests that read *)
(* too early.                                                               *)
BrokenByRaceOnly == CounterBrokenByCopyOnly /\ TreeBrokenByRaceOnly /\ QuotaPassedByRaceOnly

(* "Non-admins only purge their own trashed items" (file_views.py:858).     *)
PurgeOwnOnly ==
  [][\A r \in Slots :
       req[r].op = "delete" /\ req[r].user \notin Admins =>
         \A i \in Rows(node) : node'[i] = Gone => node[i].owner = req[r].user]_fileVars

=============================================================================
