----------------------------- MODULE MCAccounts -----------------------------
(* Values for model checking Accounts: the users that the seed does not     *)
(* make, and the sessions, are interchangeable.                            *)
EXTENDS Accounts, TLC

IdSymmetry ==
    Permutations(Users \ {Root, DefaultAdmin}) \cup Permutations(Sessions)

FewRoles == {{"super_admin"}, {"admin"}, {"owner"}, {"finance"}}

FewGrants == {{"tenant.manage"}, {"user.manage", "period.reopen"}}
=============================================================================
