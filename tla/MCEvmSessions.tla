--------------------------- MODULE MCEvmSessions ---------------------------
(* EvmSessions instantiated for TLC: two sessions, four events, worker     *)
(* symmetry.                                                               *)
EXTENDS EvmSessions, TLC

MCSessions == 1..2
MCEvents   == 1..5

WorkerSymmetry == Permutations(Workers)

=============================================================================
