--------------------------- MODULE MCPairingState ---------------------------
(***************************************************************************)
(* Small instances of PairingState for TLC.                                *)
(***************************************************************************)
EXTENDS PairingState, TLC

\* Clients are interchangeable, and no liveness is checked.
ClientSymmetry == Permutations(Clients)
=============================================================================
