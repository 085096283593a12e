------------------------------ MODULE MCCatalog ------------------------------
EXTENDS Catalog, TLC

CONSTANTS i1, i2, r1, m1, m2, f1, f2, x1, x2, v1, v2

Instances == Permutations({i1, i2})

\* A menu with a function each.
MCMenuOf == [f \in Func |-> IF f = f1 THEN m1 ELSE m2]

Opened(a, b) == [f \in Func |-> IF f = f1 THEN a ELSE b]
Given(a) == [r \in Role |-> IF r = r1 THEN a ELSE {}]

\* The second version adds a menu, which the tenant is not granted, and a
\* binding, and has an API checked that was not.
MCProduct ==
  LET first == [roles |-> {r1}, menus |-> {m1}, funcs |-> {f1}, apis |-> {x1},
                opens |-> Opened({x1}, {}), checked |-> {}, grants |-> Given({f1}),
                bounds |-> {f1}, abac |-> {r1}, default |-> r1]
      second == [roles |-> {r1}, menus |-> Menu, funcs |-> Func, apis |-> Api,
                 opens |-> Opened(Api, {x2}), checked |-> Api, grants |-> Given(Func),
                 bounds |-> {f1}, abac |-> {r1}, default |-> r1]
  IN  [v \in Version |-> IF v = v1 THEN first ELSE second]
=============================================================================
