------------------------------- MODULE MCList -------------------------------
(***************************************************************************)
(* Instantiates List for TLC with two data pointers and a pool of four    *)
(* node_t cells: enough for three live nodes and a freed one.             *)
(***************************************************************************)
EXTENDS List

MCMaxNodes == 4

=============================================================================
