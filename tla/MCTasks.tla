------------------------------- MODULE MCTasks ------------------------------
(* Handles and tokens checked with few tasks, clients and tokens. *)
EXTENDS Tasks, TLC

CONSTANTS h1, h2, c1, c2, k1

OneTask == {h1}
TwoTasks == {h1, h2}
TwoClients == {c1, c2}
OneToken == {k1}
NoTokens == {}

AllUses == JoinModes \cup {"cancel"}
CancelOnly == {"cancel"}
=============================================================================
