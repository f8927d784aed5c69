------------------------- MODULE MCReceiptsAndPanels -------------------------
(***************************************************************************)
(* The family of jobs of one document, the panels of the web client, and    *)
(* the accounts its sessions are of.  They share no state and are checked  *)
(* side by side: the first state                                           *)
(* chooses which of them acts, and the others stand still.                 *)
(***************************************************************************)
EXTENDS MCExecutorReceipts, ChatPanel, DocumentsPanel, AccountAccess

CONSTANTS d1, d2

(* The places of the document panel: two pages, a folder and the trash.    *)
MCPlaces ==
  {[view |-> "files", folder |-> f, page |-> 1, filter |-> ""] : f \in {NoDoc, Folder}}
  \cup {[view |-> "files", folder |-> NoDoc, page |-> 2, filter |-> ""],
        [view |-> "trash", folder |-> NoDoc, page |-> 1, filter |-> ""]}

VARIABLE acting

sideBySideVars == <<acting, vars, chatVars, documentsVars, accessVars>>

(* Where the accounts stand still, there are none.                         *)
FamilyInit ==
  /\ acting \in {"receipts", "chat", "list", "drawer", "accounts"}
  /\ Init /\ ChatInit /\ DocumentsInit /\ AccessInit
  /\ acting # "accounts" => loginRequired /\ tally.accounts = 0

(* The document panel has two bounded parts: moving between places without *)
(* a drawer, and the drawer at any one place.                              *)
ListOnly == detail' = NoDoc /\ pendingOpen' = NoDoc
DrawerOnly == UNCHANGED <<place, searchMode>>

(* Browsers without a session and a request are alike: the first of them   *)
(* is the one that begins something.                                       *)
Fresh(b) == sessions[b] = Gone /\ requests[b] = Gone
FirstUnused ==
  \A b \in Browsers : Fresh(b) /\ ~Fresh(b)' => \A c \in 1..(b - 1) : ~Fresh(c)

(* The users may also leave their accounts alone.                          *)
FamilyNext ==
  /\ UNCHANGED acting
  /\ \/ acting = "receipts" /\ Next /\ UNCHANGED <<chatVars, documentsVars, accessVars>>
     \/ acting = "chat" /\ ChatNext /\ UNCHANGED <<vars, documentsVars, accessVars>>
     \/ acting = "list" /\ DocumentsNext /\ ListOnly /\ UNCHANGED <<vars, chatVars, accessVars>>
     \/ acting = "drawer" /\ DocumentsNext /\ DrawerOnly /\ UNCHANGED <<vars, chatVars, accessVars>>
     \/ acting = "accounts" /\ AccessNext /\ FirstUnused /\ UNCHANGED <<vars, chatVars, documentsVars>>
     \/ acting = "accounts" /\ UNCHANGED <<vars, chatVars, documentsVars, accessVars>>

FamilySpec == FamilyInit /\ [][FamilyNext]_sideBySideVars

(* Every variable of the receipts, the panels and the accounts has its     *)
(* type.                                                                   *)
FamilyTypeOK == TypeOK /\ ChatTypeOK /\ DocumentsTypeOK /\ AccessTypeOK

=============================================================================
