--------------------------- MODULE MCEvmListeners ---------------------------
(* EvmListeners instantiated for TLC: pools of two definitions and two     *)
(* listeners, two types, two clients and one worker.  Client symmetry is   *)
(* used by the safety-only violation runs.                                 *)
EXTENDS EvmListeners, TLC

MCDefs      == 1..2
MCListeners == 1..2

ClientSymmetry == Permutations(Clients)

=============================================================================
