--------------------------- MODULE MCVerifyScript ---------------------------
(***************************************************************************)
(* The instances of VerifyScript that TLC checks.                          *)
(***************************************************************************)
EXTENDS VerifyScript, TLC

Interchangeable == Permutations(Users) \cup Permutations(Sessions)
=============================================================================
