---------------------------- MODULE ModelLifecycle ----------------------------
(***************************************************************************)
(* The lifecycle of a model version: its stages and the legal transitions  *)
(* (ai-engine model_operations/domain.py).  There is no state here.        *)
(***************************************************************************)
EXTENDS Naturals, Sequences, FiniteSets

CONSTANTS
  Models,         \* model versions
  IdentityOf      \* the identity each is a version of

\* A version that is not in the registry is "created".
LifecycleStage ==
  {"created", "registered", "validated", "staging", "challenger", "champion",
   "production", "archived", "rejected", "retired"}

LIFECYCLE_TRANSITIONS ==
  {<<"created", "registered">>,    <<"created", "rejected">>,
   <<"registered", "validated">>,  <<"registered", "rejected">>,
   <<"registered", "archived">>,
   <<"validated", "staging">>,     <<"validated", "rejected">>,
   <<"validated", "archived">>,
   <<"staging", "challenger">>,    <<"staging", "archived">>,
   <<"staging", "rejected">>,
   <<"challenger", "champion">>,   <<"challenger", "staging">>,
   <<"challenger", "archived">>,
   <<"champion", "production">>,   <<"champion", "challenger">>,
   <<"champion", "archived">>,
   <<"production", "champion">>,   <<"production", "retired">>,
   <<"production", "archived">>}

\* The versions of m's identity that the stages st have in production.
InProduction(st, m) ==
  {i \in Models : IdentityOf[i] = IdentityOf[m] /\ st[i] = "production"}
===============================================================================
