------------------------------ MODULE MCLoans ------------------------------
(* Small instances of Loans for TLC. *)
EXTENDS Loans, TLC

\* Keys and loan ids are random strings the code never orders.
\* With one human and one machine the two roles are interchangeable.
KeyRoleSymmetry == Permutations(Keys) \cup Permutations(Subjects)
KeyLoanRoleSymmetry == KeyRoleSymmetry \cup Permutations(LoanIds)

\* A debt-accounting instance needs no losing games, a wallet instance does.
NoGames == {}
Games == {-3, 2}
=============================================================================
