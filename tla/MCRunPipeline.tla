--------------------------- MODULE MCRunPipeline ---------------------------
(* Instances of RunPipeline for TLC. *)
EXTENDS RunPipeline, TLC

CONSTANTS f1, f2, u1, u2, old

FilesSymmetry == Permutations({f1, f2})
UsersSymmetry == Permutations({u1, u2})
=============================================================================
