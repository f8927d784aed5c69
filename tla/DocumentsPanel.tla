---------------------------- MODULE DocumentsPanel ----------------------------
(***************************************************************************)
(* The documents of the web client in one browser tab: the place that is   *)
(* listed, its list as requests bring it, the drawer with one document,    *)
(* the selection and the changes made from all of them.  No request is     *)
(* tied to what is on the screen when its answer comes, except the folder  *)
(* names and the document another tab asked for.                           *)
(***************************************************************************)
EXTENDS Integers, Sequences, FiniteSets

CONSTANTS
  Docs,          \* the documents that are opened
  Folder,        \* a folder
  Places,        \* the places that are visited: view, folder, page and filter
  MaxListRequests,   \* requests in flight
  MaxChanges,    \* changes on the server
  NoDoc

Views == {"files", "trash"}
(* What is changed: a selection or the document of the drawer as a batch,  *)
(* a row, the document of the drawer, that document again, or something    *)
(* added.                                                                  *)
ChangeKinds == {"batch", "row", "edit", "retry", "add"}

FirstPlace == [view |-> "files", folder |-> NoDoc, page |-> 1, filter |-> ""]

ASSUME PlacesAssumption ==
  /\ NoDoc \notin Docs /\ FirstPlace \in Places
  /\ Places \subseteq [view : Views, folder : {NoDoc, Folder}, page : Nat, filter : STRING]

VARIABLES
  mounted,       \* the documents are the current tab
  place,         \* view, folderUid, page and filter
  searchMode,          \* how the search field searches
  timer,         \* the list of the place is due to be loaded
  lists,         \* loads of lists in flight, in the order they were sent
  listed,        \* the place of the list on the screen, if any, and the changes it shows
  listState,
  folderName,    \* the folder whose path is shown
  naming,        \* the path of the current folder is being loaded
  selection,     \* the views the selected documents were listed in
  detail,        \* detailDocument
  text,          \* whose parsedText is shown; none when it is empty
  opens,         \* documents whose detail and text are being loaded
  pendingOpen,       \* pendingOpenUid
  finding,       \* the loads of the pendingOpen document, "live" or "stale"
  work,          \* changes in flight
  left,          \* changes in flight of a panel that is gone
  changes,       \* changes the server made
  want,          \* the document the user asked for last
  amiss        \* why the screen may not agree

listVars == <<timer, lists, listed, listState>>
drawerVars == <<detail, text, opens, want>>
findVars == <<pendingOpen, finding>>
documentsVars == <<mounted, place, searchMode, listVars, folderName, naming, selection, drawerVars,
                   findVars, work, left, changes, amiss>>

Nowhere == [key |-> [view |-> NoDoc, folder |-> NoDoc, page |-> 0, filter |-> NoDoc], saw |-> 0]

DocumentsInit ==
  /\ mounted = TRUE /\ searchMode = "normal" /\ timer = TRUE
  /\ place = FirstPlace
  /\ lists = <<>> /\ listed = Nowhere /\ listState = "loading"
  /\ folderName = NoDoc /\ naming = FALSE /\ selection = {}
  /\ detail = NoDoc /\ text = NoDoc /\ opens = {} /\ want = NoDoc
  /\ pendingOpen = NoDoc /\ finding = {}
  /\ work = {} /\ left = 0 /\ changes = 0
  /\ amiss = {}

Gated == {w \in work : w.kind # "add"}
Mutating == Gated # {}

(* Requests in flight: a change that was made waits for a list.            *)
Room ==
  Len(lists) + Cardinality(opens) + Cardinality(finding) + left
    + Cardinality({w \in work : w.step = "sent"}) < MaxListRequests

-----------------------------------------------------------------------------
(* Wrong variant of TimerFor: a list does not depend on its page.          *)
TimerPageless(p, m) ==
  IF m = "ai" THEN FALSE
  ELSE IF [p EXCEPT !.page = place.page] # place \/ m # searchMode THEN TRUE ELSE timer

(* The effects of a place and a search mode: the list is due 150 ms after  *)
(* the last change, not at all in the AI mode; the path of another folder  *)
(* is loaded, the one before no longer counts.                             *)
TimerFor(p, m) == IF m = "ai" THEN FALSE ELSE IF p # place \/ m # searchMode THEN TRUE ELSE timer

GoTo(p, m) ==
  /\ p \in Places
  /\ place' = p /\ searchMode' = m
  /\ timer' = TimerFor(p, m)
  /\ naming' = IF p.folder = place.folder THEN naming ELSE p.folder # NoDoc
  /\ folderName' = IF p.folder = NoDoc THEN NoDoc ELSE folderName

(* The drawer covers the list, whose rows are there when it has come.      *)
Uncovered == mounted /\ detail = NoDoc
Rows == Uncovered /\ (searchMode = "ai" \/ listState = "ready")

SelectView(v) ==
  /\ Uncovered
  /\ GoTo([place EXCEPT !.view = v, !.folder = NoDoc, !.page = 1], "normal")
  /\ selection' = {} /\ amiss' = amiss \ {"selection"}
  /\ UNCHANGED <<mounted, lists, listed, listState, drawerVars, findVars, work, left, changes>>

OpenFolder ==
  /\ Rows
  /\ GoTo([view |-> "files", folder |-> Folder, page |-> 1, filter |-> ""], "normal")
  /\ selection' = {} /\ amiss' = amiss \ {"selection"}
  /\ UNCHANGED <<mounted, lists, listed, listState, drawerVars, findVars, work, left, changes>>

(* The path above the list, the pages, the search field and going back     *)
(* leave the selection as it is.                                           *)
GoToFolder(f) ==
  /\ Uncovered /\ f \in {NoDoc, IF place.view = "files" THEN folderName ELSE NoDoc}
  /\ GoTo([place EXCEPT !.folder = f, !.page = 1], "normal")
  /\ UNCHANGED <<mounted, lists, listed, listState, selection, drawerVars, findVars, work, left,
                 changes, amiss>>

TurnPage(n) ==
  /\ Uncovered /\ searchMode = "normal" /\ n \in {place.page - 1, place.page + 1}
  /\ GoTo([place EXCEPT !.page = n], searchMode)
  /\ UNCHANGED <<mounted, lists, listed, listState, selection, drawerVars, findVars, work, left,
                 changes, amiss>>

Type(f) ==
  /\ Uncovered
  /\ GoTo([place EXCEPT !.filter = f, !.page = 1], searchMode)
  /\ UNCHANGED <<mounted, lists, listed, listState, selection, drawerVars, findVars, work, left,
                 changes, amiss>>

ChangeSearchMode(m) ==
  /\ Uncovered /\ (m = "ai" => place.view = "files")
  /\ GoTo(place, m)
  /\ selection' = {} /\ amiss' = amiss \ {"selection"}
  /\ UNCHANGED <<mounted, lists, listed, listState, drawerVars, findVars, work, left, changes>>

(* The address is read again; the search field is not part of it.          *)
GoBack(p) ==
  /\ mounted /\ p.filter = place.filter
  /\ GoTo(p, searchMode)
  /\ amiss' = IF p.view = place.view \/ selection = {} THEN amiss ELSE amiss \cup {"selection"}
  /\ UNCHANGED <<mounted, lists, listed, listState, selection, drawerVars, findVars, work, left, changes>>

(* A row is selected or no longer selected, from the list on the screen,   *)
(* which may still be that of another place; AI results are files.         *)
ToggleSelected ==
  /\ Rows
  /\ LET from == IF searchMode = "ai" THEN "files" ELSE listed.key.view
     IN \/ /\ selection' = selection \cup {from}
           /\ amiss' = IF from = place.view THEN amiss ELSE amiss \cup {"selection"}
        \/ selection' = selection \ {from} /\ UNCHANGED amiss
        \/ selection' = {} /\ amiss' = amiss \ {"selection"}
  /\ UNCHANGED <<mounted, place, searchMode, listVars, folderName, naming, drawerVars, findVars, work,
                 left, changes>>

-----------------------------------------------------------------------------
(* A list is asked for; which changes it will show at least is known then. *)
Send(key, by) ==
  /\ lists' = Append(lists, [key |-> key, saw |-> changes', by |-> by,
                             behind |-> FALSE, strayed |-> key # place])
  /\ listState' = "loading" /\ listed' = Nowhere

TimerFires ==
  /\ mounted /\ timer /\ Room
  /\ timer' = FALSE
  /\ UNCHANGED changes /\ Send(place, "timer")
  /\ UNCHANGED <<mounted, place, searchMode, folderName, naming, selection, drawerVars, findVars,
                 work, left, amiss>>

RetryList ==
  /\ Uncovered /\ searchMode = "normal" /\ listState = "error" /\ Room
  /\ UNCHANGED changes /\ Send(place, "timer")
  /\ UNCHANGED <<mounted, place, searchMode, timer, folderName, naming, selection, drawerVars,
                 findVars, work, left, amiss>>

(* A list that comes is shown, for whichever place and in whichever order; *)
(* with it ends the change it was asked for by.                            *)
ListLands(i) ==
  /\ LET l == lists[i]
     IN /\ lists' = [j \in 1..(Len(lists) - 1) |->
                       IF j < i THEN [lists[j] EXCEPT !.behind = TRUE] ELSE lists[j + 1]]
        /\ \/ /\ listed' = [key |-> l.key, saw |-> l.saw] /\ listState' = "ready"
              /\ amiss' = (amiss \ ({"list"} \cup (IF l.saw = changes THEN {"lost"} ELSE {})))
                            \cup (IF l.behind \/ l.strayed THEN {"list"} ELSE {})
           \/ listState' = "error" /\ listed' = Nowhere /\ amiss' = amiss \ {"list"}
        /\ work' = {w \in work : ~(w.step = "listing" /\ w.kind = l.by)}
  /\ UNCHANGED <<mounted, place, searchMode, timer, folderName, naming, selection, drawerVars, findVars,
                 left, changes>>

NamesLand ==
  /\ naming
  /\ naming' = FALSE /\ folderName' = place.folder
  /\ UNCHANGED <<mounted, place, searchMode, listVars, selection, drawerVars, findVars, work, left,
                 changes, amiss>>

-----------------------------------------------------------------------------
(* The drawer.                                                             *)
Show(d) ==
  /\ detail' = d /\ text' = NoDoc /\ want' = d
  /\ opens' = opens \cup {d}
  /\ amiss' = amiss \ {"drawer"}

OpenDocument(d) ==
  /\ Rows /\ Room
  /\ Show(d)
  /\ UNCHANGED <<mounted, place, searchMode, listVars, folderName, naming, selection, findVars, work,
                 left, changes>>

CloseDocument ==
  /\ mounted /\ detail # NoDoc
  /\ detail' = NoDoc /\ text' = NoDoc /\ want' = NoDoc
  /\ amiss' = amiss \ {"drawer"}
  /\ UNCHANGED <<mounted, place, searchMode, listVars, folderName, naming, selection, opens, findVars,
                 work, left, changes>>

Late(d) == IF want = d THEN {} ELSE {"drawer"}

(* The detail and the text come together, each of them or not; a text that *)
(* did not come is an empty one.                                           *)
DocumentLands(d) ==
  /\ opens' = opens \ {d}
  /\ detail' \in {d, detail} /\ text' \in {d, NoDoc}
  /\ amiss' = amiss \cup Late(d)
  /\ UNCHANGED <<mounted, place, searchMode, listVars, folderName, naming, selection, want, findVars,
                 work, left, changes>>

(* The document another tab asked for is looked up by the panel that is    *)
(* there; however that ends, nothing is asked for any more.                *)
Found(f) ==
  /\ f \in finding
  /\ \/ f = "live" /\ Show(pendingOpen)
     \/ UNCHANGED <<drawerVars, amiss>>
  /\ pendingOpen' = NoDoc /\ finding' = {g \in finding \ {f} : g = "stale"} \cup
                                    (IF f = "stale" /\ "live" \in finding THEN {"stale"} ELSE {})
  /\ UNCHANGED <<mounted, place, searchMode, listVars, folderName, naming, selection, work, left, changes>>

-----------------------------------------------------------------------------
(* A change from the selection, a row or the drawer; one at a time, besides *)
(* something that is added.  It keeps the place it was made at.            *)
StartChange(k, d) ==
  /\ mounted /\ Room
  /\ k = "add" => Uncovered /\ \A w \in work : w.kind # "add"
  /\ k # "add" => ~Mutating
  /\ k = "row" => Rows /\ d = NoDoc
  /\ k \in {"edit", "retry"} => detail # NoDoc /\ d = detail
  /\ k = "batch" => d = NoDoc /\ (Rows \/ selection # {} \/ detail # NoDoc)
  /\ k = "add" => d = NoDoc
  /\ work' = work \cup {[kind |-> k, doc |-> d, key |-> place, step |-> "sent"]}
  /\ UNCHANGED <<mounted, place, searchMode, listVars, folderName, naming, selection, drawerVars,
                 findVars, left, changes, amiss>>

(* The server made it: a batch clears the selection and closes the drawer, *)
(* a document that was edited or retried is shown, and the list of the     *)
(* place it was made at is loaded again.                                   *)
ChangeDone(w) ==
  /\ w \in work /\ w.step = "sent" /\ changes < MaxChanges
  /\ changes' = changes + 1
  /\ work' = (work \ {w}) \cup {[w EXCEPT !.step = "listing"]}
  /\ Send(w.key, w.kind)
  /\ \/ /\ w.kind = "batch"
        /\ selection' = {} /\ detail' = NoDoc /\ text' = NoDoc /\ want' = NoDoc
        /\ amiss' = amiss \ {"selection", "drawer"}
     \/ /\ w.kind \in {"edit", "retry"}
        /\ detail' = w.doc /\ amiss' = amiss \cup Late(w.doc)
        /\ UNCHANGED <<selection, text, want>>
     \/ w.kind \in {"row", "add"} /\ UNCHANGED <<selection, detail, text, want, amiss>>
  /\ UNCHANGED <<mounted, place, searchMode, timer, folderName, naming, opens, findVars, left>>

(* An error is told, though the server may have made the change: its       *)
(* answer is lost, or the retry is followed by a look that fails.          *)
ChangeFails(w) ==
  /\ w \in work /\ w.step = "sent"
  /\ work' = work \ {w}
  /\ \/ UNCHANGED <<changes, amiss>>
     \/ changes < MaxChanges /\ changes' = changes + 1 /\ amiss' = amiss \cup {"lost"}
  /\ UNCHANGED <<mounted, place, searchMode, listVars, folderName, naming, selection, drawerVars,
                 findVars, left>>

-----------------------------------------------------------------------------
(* Another tab, which may ask for a document to be shown.                  *)
LeaveDocuments ==
  /\ mounted
  /\ mounted' = FALSE
  /\ timer' = FALSE /\ lists' = <<>> /\ listed' = Nowhere /\ listState' = "loading"
  /\ folderName' = NoDoc /\ naming' = FALSE /\ selection' = {}
  /\ detail' = NoDoc /\ text' = NoDoc /\ opens' = {} /\ want' = NoDoc
  /\ searchMode' = "normal"
  /\ finding' = IF finding = {} THEN {} ELSE {"stale"}
  /\ left' = left + (IF \E w \in work : w.step = "sent" THEN 1 ELSE 0)
  /\ work' = {} /\ amiss' = {}
  /\ UNCHANGED <<place, pendingOpen, changes>>

MountDocuments(p, d) ==
  /\ ~mounted /\ p.filter = "" /\ Room
  /\ mounted' = TRUE /\ place' = p /\ timer' = TRUE
  /\ naming' = (p.folder # NoDoc)
  /\ pendingOpen' = IF d = NoDoc THEN pendingOpen ELSE d
  /\ finding' = finding \cup (IF pendingOpen' = NoDoc THEN {} ELSE {"live"})
  /\ UNCHANGED <<searchMode, lists, listed, listState, folderName, selection, drawerVars, work, left,
                 changes, amiss>>

(* The server makes the change of a panel that is gone.                    *)
LeftDone ==
  /\ left > 0
  /\ left' = left - 1
  /\ \/ UNCHANGED <<changes, amiss>>
     \/ changes < MaxChanges /\ changes' = changes + 1 /\ amiss' = amiss \cup {"lost"}
  /\ UNCHANGED <<mounted, place, searchMode, listVars, folderName, naming, selection, drawerVars,
                 findVars, work>>

DocumentsNext ==
  \/ \E v \in Views : SelectView(v)
  \/ OpenFolder
  \/ \E f \in {NoDoc, Folder} : GoToFolder(f)
  \/ \E n \in {p.page : p \in Places} : TurnPage(n)
  \/ \E f \in {p.filter : p \in Places} : Type(f)
  \/ \E m \in {"normal", "ai"} : ChangeSearchMode(m)
  \/ \E p \in Places : GoBack(p)
  \/ ToggleSelected \/ TimerFires \/ RetryList
  \/ \E i \in DOMAIN lists : ListLands(i)
  \/ NamesLand
  \/ \E d \in Docs : OpenDocument(d)
  \/ CloseDocument
  \/ \E d \in opens : DocumentLands(d)
  \/ \E f \in {"live", "stale"} : Found(f)
  \/ \E k \in ChangeKinds, d \in Docs \cup {NoDoc} : StartChange(k, d)
  \/ \E w \in work : ChangeDone(w) \/ ChangeFails(w)
  \/ LeaveDocuments
  \/ \E p \in Places, d \in Docs \cup {NoDoc} : MountDocuments(p, d)
  \/ LeftDone

DocumentsSpec == DocumentsInit /\ [][DocumentsNext]_documentsVars

-----------------------------------------------------------------------------
DocumentsTypeOK ==
  /\ place \in Places
  /\ \A i \in DOMAIN lists : lists[i].key \in Places /\ lists[i].saw \in 0..changes
  /\ listed = Nowhere \/ listed.key \in Places
  /\ listState \in {"loading", "ready", "error"}
  /\ selection \subseteq Views
  /\ detail \in Docs \cup {NoDoc} /\ text \in Docs \cup {NoDoc}
  /\ opens \subseteq Docs /\ finding \subseteq {"live", "stale"}
  /\ amiss \subseteq {"list", "lost", "selection", "drawer"}

(* When nothing is on its way, the list is the one of the place on the     *)
(* screen with every change made here, unless an older list came after a   *)
(* newer one, a change listed the place it was made at after the user went *)
(* on, or the answer to a change was lost.                                 *)
(* [loadDocuments, its effect, refreshAfterMutation]                       *)
ListSettles ==
  /\ mounted /\ searchMode = "normal" /\ ~timer /\ lists = <<>> /\ work = {} /\ listState = "ready" =>
       \/ listed = [key |-> place, saw |-> changes]
       \/ amiss \cap {"list", "lost"} # {}
  /\ mounted /\ ~naming => folderName = place.folder

(* A batch is made of documents listed in the current view, and the drawer *)
(* shows the document asked for last with its own text, unless the user    *)
(* went back, selected from a list that was about to go, or an answer came *)
(* after another document was opened or the drawer was closed.             *)
(* [selectView, toggleSelected, openDocument, closeDocument]               *)
ScreenAgrees ==
  /\ selection \subseteq {place.view} \/ "selection" \in amiss
  /\ \/ detail = want /\ text \in {NoDoc, want}
     \/ "drawer" \in amiss

(* The list, the selection and the drawer together.                        *)
PanelAgrees == ListSettles /\ ScreenAgrees

=============================================================================
