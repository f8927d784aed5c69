----------------------- MODULE MCEmbeddingAdmission -----------------------
(***************************************************************************)
(* Small instances of EmbeddingAdmission: four threads compete for two     *)
(* model slots and for a queue with a place reserved for queries.          *)
(***************************************************************************)
EXTENDS EmbeddingAdmission, TLC

CONSTANTS t1, t2, t3, t4

ThreadSymmetry == Permutations(Threads)

=============================================================================
