------------------------------ MODULE MCServices ------------------------------
(***************************************************************************)
(* The services that share no state are checked side by side: the first    *)
(* state chooses which of them acts, and the others stand still.           *)
(***************************************************************************)
EXTENDS MCFileStore, SyncClient, RuntimeLifecycle

MCPaths == {<<"d">>, <<"d", "f">>, <<"g">>}

RequestsOfAllKinds == 2  \* bound: when requests of every kind start

VARIABLE acting

ServicesInit ==
  /\ acting \in {"files", "copies", "client", "runtime"}
  /\ FileInit /\ ClientInit /\ RuntimeInit
  /\ acting = "copies" => node = MCTrash
  /\ acting \in {"client", "runtime"} => node = MCTeam
  /\ acting # "runtime" => active = None

(* Files act twice: two requests of every kind, and three of those that     *)
(* write back or delete rows.                                               *)
ServicesNext ==
  /\ UNCHANGED acting
  /\ \/ /\ acting = "files" /\ FileNext /\ started' <= RequestsOfAllKinds
        /\ UNCHANGED <<clientVars, runtimeVars>>
     \/ acting = "copies" /\ CopiesNext /\ UNCHANGED <<clientVars, runtimeVars>>
     \/ acting = "client" /\ ClientNext /\ UNCHANGED <<fileVars, runtimeVars>>
     \/ acting = "runtime" /\ RuntimeNext /\ UNCHANGED <<fileVars, clientVars>>

serviceVars == <<acting, fileVars, clientVars, runtimeVars>>

(* ClientFairness, where the client acts. *)
ServicesFairness ==
  /\ WF_clientVars(acting = "client" /\ Passing /\ UNCHANGED <<acting, fileVars, runtimeVars>>)
  /\ WF_clientVars(acting = "client" /\ BecomeDue /\ UNCHANGED <<acting, fileVars, runtimeVars>>)
  /\ WF_clientVars(acting = "client" /\ Notify /\ UNCHANGED <<acting, fileVars, runtimeVars>>)

ServicesSpec == ServicesInit /\ [][ServicesNext]_serviceVars /\ ServicesFairness

(* Every variable of every service has its type. *)
ServicesTypeOK == FilesTypeOK /\ ClientTypeOK /\ RuntimeTypeOK

=============================================================================
