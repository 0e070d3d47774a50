----------------------------- MODULE MCServices -----------------------------
(***************************************************************************)
(* The rate limit of comments, the paged lists, the calls that download a   *)
(* file and the requests with tokens and signatures share no state.  TLC    *)
(* explores them side by side: a behaviour stays in the part it begins      *)
(* with, so that their states add up and do not multiply.                   *)
(***************************************************************************)
EXTENDS CommentRateLimit, MCFileDownloads, Lists

VARIABLE part

\* The names of the rows do not matter: a list begins with them in one order.
NamedInOrder(s) == s = SubSeq(SetToSeq(Rows), 1, Len(s))

\* All that the requests with tokens and signatures see of the file is whether
\* its row is there.
RowGoes == \E x \in Removers : Unlink(x) \/ DeleteRow(x)

ServicesInit ==
    /\ part \in {"comments", "lists", "calls", "http"}
    /\ Init
    /\ DownloadsInit
    /\ IF part = "lists" THEN ListsInit /\ NamedInOrder(list)
       ELSE /\ kind = "files" /\ list = <<>> /\ walk = "done" /\ page = 1
            /\ seen = {} /\ kept = {} /\ shifts = 0 /\ changes = 0
    /\ part # "calls" => size = uploaded /\ size = MaxPosition

ServicesNext ==
    /\ part' = part
    /\ \/ part = "comments" /\ Next /\ UNCHANGED <<downloadVars, listVars>>
       \/ part = "lists" /\ ListsNext /\ UNCHANGED <<vars, downloadVars>>
       \/ part = "calls" /\ (FileNext \/ CallNext) /\ UNCHANGED <<vars, listVars>>
       \/ part = "http" /\ (RowGoes \/ HttpNext) /\ UNCHANGED <<vars, listVars>>

ServicesSpec == ServicesInit /\ [][ServicesNext]_<<part, vars, downloadVars, listVars>>
=============================================================================
