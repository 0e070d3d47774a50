--------------------------- MODULE MCFileUploads ---------------------------
(* One upload of two chunks for TLC. *)
EXTENDS FileUploads, TLC

CONSTANTS t1, t2, f1, Chunks

MCTotal == [f \in Files |-> Chunks]
MCOwner == [f \in Files |-> t1]
\* One index below, the valid ones, one above.
MCIndexInputs == -1 .. Chunks
OnlyValid == 0 .. (Chunks - 1)

ClientSymmetry == Permutations(Chunkers) \cup Permutations(Completers)
                  \cup Permutations(Sweepers)

\* Where a behaviour of FileUploads comes before the first upload: the failures
\* are used up, or a completion or the removal has been refused.  Each request is
\* there with all others, and all but one with a failure.
SafetyInit ==
    /\ Empty
    /\ \/ faults = MaxFaults /\ pc = [p \in Procs |-> "idle"]
       \/ /\ faults = 0
          /\ \E q \in Completers \cup Removers :
                pc = [p \in Procs |-> IF p = q THEN "refused" ELSE "idle"]

SafetySpec == SafetyInit /\ [][Next]_vars
=============================================================================
