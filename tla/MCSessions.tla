----------------------------- MODULE MCSessions -----------------------------
(* One browser, two calls outstanding, two branches, three sign-ins.         *)
EXTENDS Sessions, TLC

AnyBranch(u) == CHOOSE b \in Branches : TRUE
=============================================================================
