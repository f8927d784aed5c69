------------------------------ MODULE NodeTree ------------------------------
(***************************************************************************)
(* The rows of files_node of one workspace and the requests that change    *)
(* them (files/models.py, files/services/, files/api_v1/file_views.py).    *)
(* PostgreSQL runs at READ COMMITTED and nothing here locks a row before   *)
(* it reads it: a handler loads the rows it needs, and its transaction     *)
(* later writes what it computed from them.  Each request therefore has a  *)
(* step that loads and a step that commits.                                *)
(*                                                                         *)
(* A path is the sequence of its names; the text prefix old + "/" is a     *)
(* strict prefix of such sequences.  FileStore adds blobs and files.    *)
(***************************************************************************)
EXTENDS Integers, Sequences, SequencesExt, FiniteSets

CONSTANTS
  NodeIds,       \* primary keys of nodes
  Names,         \* names of folders and files
  GivenNames,    \* those that requests ask for
  Users,         \* members that send requests
  Admins,        \* the members with the admin role
  Slots,         \* requests that may be open at once
  MaxRequests,   \* bound: requests that ever start
  LastDay        \* bound: retention periods that pass

ASSUME NodeIdsAssumption == NodeIds \subseteq Nat \ {0} /\ IsFiniteSet(NodeIds)
ASSUME AdminsAssumption == Admins \subseteq Users
ASSUME GivenAssumption ==
  GivenNames \subseteq Names /\ Slots \subseteq Nat /\ {MaxRequests, LastDay} \subseteq Nat

Root == 0            \* parent of a node at the top level
Never == -1          \* deleted_at IS NULL

Unused == [kind |-> "unused"]  \* a key the sequence has not given out
Gone == [kind |-> "gone"]      \* the row has been deleted
Idle == [op |-> "idle"]

VARIABLES
  node,    \* node[i]: the row with key i, Unused or Gone
  req,     \* req[r]: the open request in slot r, or Idle
  day,     \* retention periods passed so far
  started  \* requests started so far

treeVars == <<node, req, day, started>>

Row ==
  [kind : {"folder", "file"}, parent : NodeIds \cup {Root}, name : Names,
   path : Seq(Names), owner : Users, trashed : BOOLEAN,
   deletedAt : {Never} \cup 0..LastDay, starred : BOOLEAN, ai : BOOLEAN]

Trees == [NodeIds -> Row \cup {Unused, Gone}]

(* What the requests of this module hold while they are open.               *)
TreeRequests ==
  {Idle}
  \cup [op : {"create"}, user : Users, parent : NodeIds \cup {Root}, base : Seq(Names),
        name : Names]
  \cup [op : {"move"}, user : Users, id : NodeIds, row : Row, parent : NodeIds \cup {Root},
        base : Seq(Names), name : Names]
  \cup [op : {"star", "trash", "restore"}, user : Users, id : NodeIds, row : Row]
  \cup [op : {"ai"}, user : Users, id : NodeIds, row : Row, enabled : BOOLEAN]
  \cup [op : {"purge"}, user : Users, ids : SUBSET NodeIds]

TreeTypeOK ==
  /\ node \in Trees
  /\ day \in 0..LastDay
  /\ started \in 0..MaxRequests

-----------------------------------------------------------------------------
(* Reading the table. *)

IsRow(t, i) == i \in NodeIds /\ t[i].kind \in {"folder", "file"}

Rows(t) == {i \in NodeIds : IsRow(t, i)}

IsFolder(i) == IsRow(node, i) /\ node[i].kind = "folder"

PathIn(t, p) == IF p = Root THEN <<>> ELSE t[p].path

Expired(deletedAt) == deletedAt # Never /\ deletedAt < day

(* _subtree_queryset: the key of the loaded row, and by its path all below. *)
Subtree(i, row) ==
  {j \in Rows(node) :
     \/ j = i
     \/ row.kind = "folder" /\ IsStrictPrefix(row.path, node[j].path)}

(* can_modify_node, can_modify_subtree. *)
CanModify(u, row) == u \in Admins \/ row.owner = u

CanModifySubtree(u, row) ==
  /\ CanModify(u, row)
  /\ \/ u \in Admins \/ row.kind # "folder"
     \/ \A j \in Rows(node) :
           IsStrictPrefix(row.path, node[j].path) => node[j].owner = u

-----------------------------------------------------------------------------
(* Writing the table. *)

(* What the database enforces: the parent exists, a path is used once.      *)
Consistent(t) ==
  /\ \A i \in Rows(t) : t[i].parent = Root \/ IsRow(t, t[i].parent)
  /\ \A i, j \in Rows(t) : t[i].path = t[j].path => i = j

(* A transaction that would break a constraint is rolled back.              *)
Written(t) == IF Consistent(t) THEN t ELSE node

NextKey == CHOOSE i \in NodeIds :
             node[i] = Unused /\ \A j \in NodeIds : node[j] = Unused => i <= j

HasKey == \E i \in NodeIds : node[i] = Unused

NewRow(kind, u, p, base, n, ai) ==
  [kind |-> kind, parent |-> p, name |-> n, path |-> Append(base, n), owner |-> u,
   trashed |-> FALSE, deletedAt |-> Never, starred |-> FALSE, ai |-> ai]

(* SQL REPLACE(path, old || '/', new || '/'): every occurrence, from the    *)
(* left; a match uses up the slash after it, so the name that follows it    *)
(* cannot begin another one.                                                *)
Replaced(path, old, new) ==
  LET k == Len(old)
      match(i) == i + k <= Len(path) /\ SubSeq(path, i, i + k - 1) = old
      from[i \in 1..(Len(path) + 2)] ==
        IF i > Len(path) THEN <<>>
        ELSE IF match(i) THEN new \o <<path[i + k]>> \o from[i + k + 1]
        ELSE <<path[i]>> \o from[i + 1]
  IN from[1]

(* All children by foreign key, their children and so on: what Django's     *)
(* cascade collects from the keys S.                                        *)
Below(S) ==
  LET closed(T) == /\ S \cap Rows(node) \subseteq T
                   /\ \A i \in Rows(node) : node[i].parent \in T => i \in T
  IN {i \in Rows(node) : \A T \in SUBSET Rows(node) : closed(T) => i \in T}

-----------------------------------------------------------------------------
(* Requests. *)

Begin(r, q) ==
  /\ req[r] = Idle
  /\ started < MaxRequests
  /\ req' = [req EXCEPT ![r] = q]
  /\ started' = started + 1
  /\ UNCHANGED <<node, day>>

Finish(r) == req' = [req EXCEPT ![r] = Idle]

(* create_folder: the parent, trashed or not, is loaded with its path.      *)
StartCreate(r, u, p, n) ==
  /\ p = Root \/ IsFolder(p)
  /\ HasKey
  /\ Begin(r, [op |-> "create", user |-> u, parent |-> p,
               base |-> PathIn(node, p), name |-> n])

CommitCreate(r) ==
  LET q == req[r] IN
  /\ q.op = "create" /\ HasKey
  /\ node' = Written([node EXCEPT ![NextKey] =
                        NewRow("folder", q.user, q.parent, q.base, q.name, TRUE)])
  /\ Finish(r)
  /\ UNCHANGED <<day, started>>

(* rename_file, move_file and one iteration of bulk_move: the row and the   *)
(* new parent are loaded, and the checks compare what was loaded.  A rename *)
(* keeps the parent and a move keeps the name.                              *)
StartMove(r, u, i, p, n) ==
  LET row == node[i]
      base == PathIn(node, p)
  IN
  /\ IsRow(node, i)
  /\ p = Root \/ IsFolder(p) \/ p = row.parent
  /\ (p = row.parent) # (n = row.name)
  /\ CanModifySubtree(u, row)
  /\ p # i
  /\ ~IsStrictPrefix(row.path, base)
  /\ Begin(r, [op |-> "move", user |-> u, id |-> i, row |-> row,
               parent |-> p, base |-> base, name |-> n])

(* Wrong variant: the paths below the moved folder are forgotten. *)
CommitMoveAlone(r) ==
  LET q == req[r] IN
  /\ q.op = "move"
  /\ node' = Written([node EXCEPT ![q.id] =
                [q.row EXCEPT !.parent = q.parent, !.name = q.name,
                              !.path = Append(q.base, q.name)]])
  /\ Finish(r)
  /\ UNCHANGED <<day, started>>

(* Node.move: the descendants by the path that was loaded, then the whole   *)
(* row as it was loaded.  A row deleted meanwhile is inserted again.        *)
CommitMove(r) ==
  LET q == req[r]
      old == q.row.path
      new == Append(q.base, q.name)
      moved == [j \in NodeIds |->
                  IF /\ q.row.kind = "folder" /\ old # new
                     /\ IsRow(node, j) /\ IsStrictPrefix(old, node[j].path)
                  THEN [node[j] EXCEPT !.path = Replaced(@, old, new)]
                  ELSE node[j]]
  IN
  /\ q.op = "move"
  /\ node' = Written([moved EXCEPT ![q.id] =
                [q.row EXCEPT !.parent = q.parent, !.name = q.name, !.path = new]])
  /\ Finish(r)
  /\ UNCHANGED <<day, started>>

(* toggle_star: saves the whole row; save() builds the path from the parent *)
(* it loads now.                                                            *)
StartStar(r, u, i) ==
  /\ IsRow(node, i)
  /\ CanModify(u, node[i])
  /\ Begin(r, [op |-> "star", user |-> u, id |-> i, row |-> node[i]])

CommitStar(r) ==
  LET q == req[r]
      p == q.row.parent
      saved == [q.row EXCEPT !.starred = ~@, !.path = Append(PathIn(node, p), q.row.name)]
  IN
  /\ q.op = "star"
  /\ node' = IF p = Root \/ IsRow(node, p)
             THEN Written([node EXCEPT ![q.id] = saved])
             ELSE node
  /\ Finish(r)
  /\ UNCHANGED <<day, started>>

(* file_delete, bulk_delete and the sync delete: the subtree goes to the    *)
(* trash by the path that was loaded, and its AI processing is turned off.  *)
StartTrash(r, u, i) ==
  /\ IsRow(node, i)
  /\ CanModifySubtree(u, node[i])
  /\ Begin(r, [op |-> "trash", user |-> u, id |-> i, row |-> node[i]])

(* Wrong variant: the day the period ends is stored for the day it began. *)
CommitTrashUntil(r) ==
  LET q == req[r] IN
  /\ q.op = "trash"
  /\ node' = [j \in NodeIds |->
                IF j \in Subtree(q.id, q.row)
                THEN [node[j] EXCEPT !.trashed = TRUE, !.ai = FALSE, !.deletedAt = day + 1]
                ELSE node[j]]
  /\ Finish(r)
  /\ UNCHANGED <<day, started>>

CommitTrash(r) ==
  LET q == req[r] IN
  /\ q.op = "trash"
  /\ node' = [j \in NodeIds |->
                IF j \in Subtree(q.id, q.row)
                THEN [node[j] EXCEPT !.trashed = TRUE, !.ai = FALSE, !.deletedAt = day]
                ELSE node[j]]
  /\ Finish(r)
  /\ UNCHANGED <<day, started>>

(* set_ai_processing: for a node outside the trash and all below it.        *)
StartSetAI(r, u, i, enabled) ==
  /\ IsRow(node, i) /\ ~node[i].trashed
  /\ CanModifySubtree(u, node[i])
  /\ Begin(r, [op |-> "ai", user |-> u, id |-> i, row |-> node[i], enabled |-> enabled])

CommitSetAI(r) ==
  LET q == req[r] IN
  /\ q.op = "ai"
  /\ node' = [j \in NodeIds |->
                IF j \in Subtree(q.id, q.row)
                THEN [node[j] EXCEPT !.ai = q.enabled] ELSE node[j]]
  /\ Finish(r)
  /\ UNCHANGED <<day, started>>

(* restore_file, bulk_restore.                                              *)
StartRestore(r, u, i) ==
  /\ IsRow(node, i) /\ node[i].trashed
  /\ CanModifySubtree(u, node[i])
  /\ Begin(r, [op |-> "restore", user |-> u, id |-> i, row |-> node[i]])

(* Within the retention period the subtree comes back with AI processing    *)
(* off; after it, the request turns into a permanent deletion.              *)
CommitRestore(r) ==
  LET q == req[r] IN
  /\ q.op = "restore"
  /\ ~Expired(q.row.deletedAt)
  /\ node' = [j \in NodeIds |->
                IF j \in Subtree(q.id, q.row)
                THEN [node[j] EXCEPT !.trashed = FALSE, !.deletedAt = Never]
                ELSE node[j]]
  /\ Finish(r)
  /\ UNCHANGED <<day, started>>

Purge(u, ids) == [op |-> "purge", user |-> u, ids |-> ids]

RestoreExpired(r) ==
  LET q == req[r] IN
  /\ q.op = "restore"
  /\ Expired(q.row.deletedAt)
  /\ req' = [req EXCEPT ![r] = Purge(q.user, Subtree(q.id, q.row))]
  /\ UNCHANGED <<node, day, started>>

(* permanent_delete, empty_trash and the listing of the trash, which purges *)
(* what has expired: each lists the keys to delete first.                   *)
StartPermanentDelete(r, u, i) ==
  /\ IsRow(node, i) /\ node[i].trashed
  /\ CanModifySubtree(u, node[i])
  /\ Begin(r, Purge(u, Subtree(i, node[i])))

EmptiedBy(u) ==
  {i \in Rows(node) : node[i].trashed /\ (u \in Admins \/ node[i].owner = u)}

StartEmptyTrash(r, u) == EmptiedBy(u) # {} /\ Begin(r, Purge(u, EmptiedBy(u)))

StartTrashListing(r, u) ==
  LET expired == {i \in Rows(node) : node[i].trashed /\ Expired(node[i].deletedAt)}
  IN expired # {} /\ Begin(r, Purge(u, expired))

(* The retention period of whatever is in the trash passes.                 *)
PassDay ==
  /\ day < LastDay
  /\ day' = day + 1
  /\ UNCHANGED <<node, req, started>>

(* A web worker dies and its request with it.                               *)
Crash(r) ==
  /\ req[r] # Idle
  /\ Finish(r)
  /\ UNCHANGED <<node, day, started>>

-----------------------------------------------------------------------------
(* There may be any tree to begin with.                                     *)
TreeInit(tree) ==
  /\ node = tree
  /\ req = [r \in Slots |-> Idle]
  /\ day = 0
  /\ started = 0

(* The steps that leave the blobs alone; FileStore deletes the rows.     *)
TreeStart(r, u) ==
  \/ \E p \in NodeIds \cup {Root}, n \in GivenNames : StartCreate(r, u, p, n)
  \/ \E i \in Rows(node), p \in NodeIds \cup {Root} :
       \E n \in GivenNames \cup {node[i].name} : StartMove(r, u, i, p, n)
  \/ \E i \in NodeIds : \/ StartStar(r, u, i)
                        \/ StartTrash(r, u, i)
                        \/ \E enabled \in BOOLEAN : StartSetAI(r, u, i, enabled)
                        \/ StartRestore(r, u, i)
                        \/ StartPermanentDelete(r, u, i)
  \/ StartEmptyTrash(r, u)
  \/ StartTrashListing(r, u)

TreeCommit(r) ==
  \/ CommitCreate(r) \/ CommitMove(r) \/ CommitStar(r) \/ CommitTrash(r)
  \/ CommitSetAI(r) \/ CommitRestore(r) \/ RestoreExpired(r) \/ Crash(r)

=============================================================================
