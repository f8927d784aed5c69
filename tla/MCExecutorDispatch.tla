------------------------- MODULE MCExecutorDispatch -------------------------
(***************************************************************************)
(* Small instances of ExecutorDispatch, over the family of jobs of          *)
(* MCExecutorReceipts: the messages of one document's parse and of the jobs *)
(* derived from it.                                                         *)
(***************************************************************************)
EXTENDS ExecutorDispatch, MCExecutorReceipts

=============================================================================
