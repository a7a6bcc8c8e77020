--------------------------- MODULE MCTenantRecords ----------------------------
(* A small instance of TenantRecords for TLC. *)
EXTENDS TenantRecords
CONSTANTS h1, h2

\* Two names that differ in case, and a system role's.
NamesUpper == ("ops" :> "OPS") @@ ("OPS" :> "OPS") @@ ("ADMIN" :> "ADMIN")
Changes == {"low" :> 1, "high" :> 0, ("low" :> 1) @@ ("high" :> 1)}
HandlerSymmetry == Permutations(Handlers)
===============================================================================
