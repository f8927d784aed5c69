----------------------- MODULE MCLedgerAndInstallation -----------------------
(***************************************************************************)
(* The receipts as the ledger sees them, and the installation of the host. *)
(* They share no state and are checked side by side: the first state       *)
(* chooses which of them acts, and the other stands still.                 *)
(***************************************************************************)
EXTENDS MCExecutorReceipts, Installation

(* Two addresses of one external model.                                    *)
MCEndpoints == {<<"e1", "u1">>, <<"e1", "u2">>}

VARIABLE acting

ledgerVars == <<acting, vars, installationVars>>

(* A host that stands still has nothing installed.                         *)
LedgerInit ==
  /\ acting \in {"receipts", "installation"}
  /\ Init /\ InstallationInit
  /\ acting = "receipts" => env.file = "none"

(* Bound: no command while the files of the external access are as they    *)
(* were created; to every command they are like no files.                  *)
FilesEdited == provider = "created" => UNCHANGED counts

(* Bound: one thing at a time is left undone, until a command is killed.   *)
MaxUndone == 1
UndoneBound == counts'.kills > 0 \/ Cardinality(missed') <= MaxUndone

(* The operator may also leave the host alone.                             *)
LedgerNext ==
  /\ UNCHANGED acting
  /\ \/ acting = "receipts" /\ Next /\ UNCHANGED installationVars
     \/ /\ acting = "installation" /\ InstallationNext /\ FilesEdited /\ UndoneBound
        /\ UNCHANGED vars
     \/ acting = "installation" /\ UNCHANGED <<vars, installationVars>>

LedgerSpec == LedgerInit /\ [][LedgerNext]_ledgerVars

(* Every variable of the receipts and of the host has its type.            *)
LedgerTypeOK == TypeOK /\ InstallationTypeOK

=============================================================================
