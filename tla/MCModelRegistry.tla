--------------------------- MODULE MCModelRegistry ----------------------------
(***************************************************************************)
(* Small instances of ModelRegistry for TLC.                               *)
(***************************************************************************)
EXTENDS ModelRegistry, TLC

CONSTANTS
  m1, m2, m3, c1, c2,
  Newcomers       \* versions that are not in the registry yet

OneIdentity == [m \in Models |-> "scorer"]

\* Two threads of one process.
Threads == [c \in Callers |-> "serving"]

\* m2 may take production from m1, but not from m3.
Regression == {<<m2, m3>>}

-----------------------------------------------------------------------------
(***************************************************************************)
(* Behaviours that start where one caller has led: every version but the   *)
(* newcomers was taken to champion, and m1 was then promoted.              *)
(***************************************************************************)
Path ==
  <<"created", "registered", "validated", "staging", "challenger", "champion">>

ChampionHistory(m) ==
  IF m \in Newcomers THEN <<>>
  ELSE [i \in 1..5 |->
          Audited(IF i = 1 THEN "model_registered" ELSE "lifecycle_transition",
                  m, Path[i], Path[i + 1], NoModel)]

GovernedInit ==
  /\ document =
       [stage |-> [m \in Models |->
                     IF m = m1 THEN "production"
                     ELSE IF m \in Newcomers THEN "created" ELSE "champion"],
        audit |-> ChampionHistory(m1) \o ChampionHistory(m2)
                    \o ChampionHistory(m3)
                    \o <<Audited("model_promoted", m1, "champion", "production",
                                 NoModel)>>]
  /\ call = [c \in Callers |-> Idle]
  /\ calls = 0

GovernedSpec == GovernedInit /\ [][Next]_vars

CallerSymmetry == Permutations(Callers)
===============================================================================
