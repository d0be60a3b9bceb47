--------------------------- MODULE MCConsoleEvents ---------------------------
(***************************************************************************)
(* ConsoleEvents on small instances.                                       *)
(***************************************************************************)
EXTENDS ConsoleEvents

CONSTANTS tab1, tab2, agent1

TwoTabs   == {tab1, tab2}
OneAgent  == {agent1}
NoAgent   == {}

=============================================================================
