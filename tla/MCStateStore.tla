---------------------------- MODULE MCStateStore ----------------------------
(***************************************************************************)
(* Constants of the model-checked instance of StateStore.                  *)
(***************************************************************************)
EXTENDS StateStore

FewTimes == {0, 1, 2}
=============================================================================
