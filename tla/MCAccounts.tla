----------------------------- MODULE MCAccounts -----------------------------
(* Few accounts and tenants for TLC. *)
EXTENDS Accounts, TLC

AccountSymmetry == Permutations(Emails) \cup Permutations(Upserters)
=============================================================================
