---------------------------- MODULE MCGuardrails ----------------------------
(***************************************************************************)
(* Small instances of Guardrails for TLC.                                  *)
(***************************************************************************)
EXTENDS Guardrails, TLC

\* Sources are interchangeable.
SourceSymmetry == Permutations(Sources)
=============================================================================
