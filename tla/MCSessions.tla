------------------------------ MODULE MCSessions ------------------------------
(* A small instance of Sessions for TLC. *)
EXTENDS Sessions
CONSTANTS u1, u2, h1, h2, t1

\* The first user has a second factor and may be signed in already.
OneEnrolled == {u \in Users : users[u].enabled} = {u1}
SignedIn ==
    /\ users = [u \in Users |->
                  [status |-> "active", secret |-> IF u = u1 THEN 1 ELSE 0,
                   enabled |-> u = u1, step |-> 0]]
    /\ tokens = <<[user |-> u1, revoked |-> FALSE, family |-> 1, late |-> FALSE]>>
    /\ cookie = 1 /\ accepted = <<>>
    /\ request = [h \in Handlers |-> Idle]
    /\ tab = [t \in Tabs |-> [promise |-> FALSE, waiting |-> 0, access |-> TRUE,
                             challenge |-> None]]
    /\ now = 1 /\ asked = 0 /\ minted = 1

MCInit == (Init /\ OneEnrolled) \/ SignedIn
MCSpec == MCInit /\ [][Next]_vars /\ Fairness
===============================================================================
