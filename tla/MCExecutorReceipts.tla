------------------------- MODULE MCExecutorReceipts -------------------------
(***************************************************************************)
(* Small instances of ExecutorReceipts: one document with two chunks, its  *)
(* parse, plan and batch jobs, and a second parse of the same document.    *)
(***************************************************************************)
EXTENDS ExecutorReceipts

CONSTANTS n1, c1, c2, parser, embedder, run1

MCRole == [e \in Executors |-> IF e = parser THEN "parser" ELSE "embedding"]

(* parse1 and parse2: two uploads; plan1 and the batches derive from parse1. *)
MCKind ==
  [j \in Jobs |->
     CASE j \in {"parse1", "parse2"} -> "parse"
       [] j = "plan1" -> "plan"
       [] j = "evaluate1" -> "evaluate"
       [] OTHER -> "batch"]

MCSubject == [j \in Jobs |-> IF j = "evaluate1" THEN run1 ELSE n1]

MCBatch ==
  [j \in Jobs |->
     CASE j = "batch1" -> {c1}
       [] j = "batch12" -> {c1, c2}
       [] OTHER -> {}]

MCChunkNode == [c \in Chunks |-> n1]

MCChildren ==
  [j \in Jobs |->
     CASE j = "parse1" -> Jobs \cap {"plan1"}
       [] j = "plan1" -> Jobs \cap {"batch1", "batch12"}
       [] OTHER -> {}]

=============================================================================
