--------------------------- MODULE MCProvisionedVM ---------------------------
(* ProvisionedVM for TLC.                                                  *)
EXTENDS ProvisionedVM, TLC

CONSTANTS a1, a2, a3

OneAccount == {a1}
TwoAccounts == {a1, a2}
ThreeAccounts == {a1, a2, a3}
AccountSymmetry == Permutations(Accounts)
=============================================================================
