----------------------------- MODULE MCDocuments -----------------------------
(***************************************************************************)
(* The pipeline of one document of two chunks, the answers of one          *)
(* conversation and the quality profile of one workspace.  They share no   *)
(* state: the first state chooses which of them acts, and the others stand *)
(* still.  Each behaviour of the pipeline has one of the budgets below:    *)
(* what may go wrong is split into cases that interact.                    *)
(***************************************************************************)
EXTENDS EmbeddingRuntimeChange, RAGAnswers, QualityProfiles

MCEvents(uploads, toggles, faults, retries, scans, changes) ==
  [uploads |-> uploads, toggles |-> toggles, faults |-> faults,
   retries |-> retries, scans |-> scans, changes |-> changes]

MCBudgets ==
  {MCEvents(2, 1, 1, 1, 0, 0),
   MCEvents(2, 0, 0, 0, 1, 0),
   MCEvents(1, 1, 1, 0, 1, 0),
   MCEvents(1, 0, 1, 1, 1, 0),
   MCEvents(1, 0, 1, 0, 2, 0),
   MCEvents(1, 1, 1, 1, 0, 1),
   MCEvents(2, 0, 1, 0, 0, 1),
   MCEvents(1, 0, 0, 0, 1, 1)}

MCIdOf == <<"q1", "q1", "q2">>

VARIABLE acting

DocumentsInit ==
  /\ acting \in {"pipeline", "answers", "profile"}
  /\ DocInit /\ RAGInit /\ ProfileInit
  /\ acting # "pipeline" => left = MCEvents(2, 0, 0, 0, 1, 0)

DocumentsNext ==
  /\ UNCHANGED acting
  /\ \/ acting = "pipeline" /\ DocNext /\ UNCHANGED <<ragVars, profileVars>>
     \/ acting = "answers" /\ RAGNext /\ UNCHANGED <<docVars, profileVars>>
     \/ acting = "profile" /\ ProfileNext /\ UNCHANGED <<docVars, ragVars>>

documentsVars == <<acting, docVars, ragVars, profileVars>>

DocumentsSpec == DocumentsInit /\ [][DocumentsNext]_documentsVars

(* Every variable has its type. *)
DocumentsTypeOK == DocsTypeOK /\ RAGTypeOK /\ ProfileTypeOK

=============================================================================
