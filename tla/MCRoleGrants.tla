----------------------------- MODULE MCRoleGrants -----------------------------
EXTENDS RoleGrants, TLC

CONSTANTS m1, f1

\* One menu with one function.
MCMenuOf == [f \in Func |-> m1]

MCPicks == SUBSET Func

\* A function opens the API or is not there: a function that opens nothing is not
\* told apart from one whose API is disabled.
MCOpens == {Api}

MCSymmetry == Permutations(Admin)
=============================================================================
