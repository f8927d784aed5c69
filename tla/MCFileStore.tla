----------------------------- MODULE MCFileStore -----------------------------
(***************************************************************************)
(* Three small workspaces: a team with a folder of a member that holds a   *)
(* file of the admin, live or in the trash, and a personal workspace with  *)
(* a synchronised folder.                                                  *)
(***************************************************************************)
EXTENDS FileStore

CONSTANTS adm, usr

MCCandidates == [n \in Names |-> IF n = "f" THEN <<"f", "f1">> ELSE <<n>>]
MCRelPaths == {<<"f">>, <<"d", "f">>}

MCFolder(u, p, path) ==
  [NewRow("folder", u, p, Front(path), Last(path), TRUE) EXCEPT !.path = path]
MCFile(u, p, path) == [MCFolder(u, p, path) EXCEPT !.kind = "file"]
MCTrashed(row) == [row EXCEPT !.trashed = TRUE, !.ai = FALSE, !.deletedAt = 0]

MCTeam == <<MCFolder(usr, Root, <<"d">>), MCFile(adm, 1, <<"d", "f">>),
            MCFolder(usr, Root, <<"r">>), Unused, Gone>>
MCTrash == [MCTeam EXCEPT ![1] = MCTrashed(@), ![2] = MCTrashed(@)]
MCPersonal == <<MCFolder(adm, Root, <<"sync">>), MCFolder(adm, 1, <<"sync", "r">>),
                MCFile(adm, 2, <<"sync", "r", "f">>), Unused, Unused>>

MCBlobs(i) == [j \in NodeIds |-> IF j = i THEN [size |-> 1, file |-> 1] ELSE NoBlob]

MCWorkspaces ==
  {[tree |-> MCTeam, members |-> {adm, usr}, blobs |-> MCBlobs(2), files |-> 1],
   [tree |-> MCTrash, members |-> {adm, usr}, blobs |-> MCBlobs(2), files |-> 1],
   [tree |-> MCPersonal, members |-> {adm}, blobs |-> MCBlobs(3), files |-> 1]}

(* Requests that write back their copy of a row, and those that delete it.  *)
CopiesStart(r, u) ==
  /\ \/ \E i \in NodeIds : StartStar(r, u, i) \/ StartPermanentDelete(r, u, i)
     \/ StartEmptyTrash(r, u)
  /\ UNCHANGED storeVars

CopiesStep(r) ==
  \/ (CommitStar(r) \/ Crash(r)) /\ UNCHANGED storeVars
  \/ PurgeFiles(r) \/ PurgeRows(r)

CopiesNext ==
  \/ \E r \in Slots : FreeSlot(r) /\ \E u \in members : CopiesStart(r, u)
  \/ \E r \in Slots : CopiesStep(r)

=============================================================================
