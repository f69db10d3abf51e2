--------------------------- MODULE MCJobExecution ---------------------------
EXTENDS JobExecution, TLC

AttemptSymmetry == Permutations(Attempt)
=============================================================================
