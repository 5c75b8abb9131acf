---------------------------- MODULE MCAesEngine -----------------------------
(***************************************************************************)
(* AesEngine for TLC.  The random values are interchangeable: no           *)
(* definition names one of them, and every property is a safety property.  *)
(***************************************************************************)
EXTENDS AesEngine, TLC

Symmetry == Permutations(Randoms)
=============================================================================
