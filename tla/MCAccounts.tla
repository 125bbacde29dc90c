----------------------------- MODULE MCAccounts -----------------------------
(***************************************************************************)
(* Accounts for TLC.  An UpdateUser disables an account or enables it:     *)
(* disabling revokes, like a new password or a new role, enabling does not.*)
(***************************************************************************)
EXTENDS Accounts, TLC

Nothing == [pw |-> Keep, role |-> Keep, disabled |-> Keep]
SomeAsks == {[Nothing EXCEPT !.disabled = d] : d \in BOOLEAN}

Symmetry == Permutations(Tokens) \cup Permutations(Clients) \cup Permutations(Users)
=============================================================================
