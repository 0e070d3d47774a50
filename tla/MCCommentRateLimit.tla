------------------------- MODULE MCCommentRateLimit -------------------------
(* A handful of comments on one document for TLC. *)
EXTENDS CommentRateLimit, TLC

RequestSymmetry == Permutations(Requests)
=============================================================================
