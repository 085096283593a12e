----------------------------- MODULE MCRolePolicy -----------------------------
EXTENDS RolePolicy

CONSTANTS p1, c1, c2, x1, x2

\* Every administrative call is served by p1, whatever processes there are.
MCHome == [c \in Change |-> p1]

\* Nothing, a rule, and all of them: rebuilds that overlap create a rule twice.
MCYields == {{}, {x1}, {x1, x2}}
=============================================================================
