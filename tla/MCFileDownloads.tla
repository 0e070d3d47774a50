--------------------------- MODULE MCFileDownloads ---------------------------
(* A file of a few bytes for TLC, and every range that starts or ends at one  *)
(* of them or just behind.                                                    *)
EXTENDS FileDownloads, TLC

CONSTANTS MaxPosition

MCHeaders == [start : 0 .. MaxPosition, end : (0 .. MaxPosition) \cup {Open}]
                \cup {Malformed, Whole}

CompletionSymmetry == Permutations(Completers)
=============================================================================
