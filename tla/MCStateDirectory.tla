-------------------------- MODULE MCStateDirectory --------------------------
(* A small instance of StateDirectory for TLC.                             *)
EXTENDS StateDirectory

CONSTANTS p1, d1, d2

(* Two servers of one data directory, two of one runtime directory, and one *)
(* that keeps both in the same place.                                      *)
SharedLayouts == {<<d1, d1>>, <<d1, d2>>, <<d2, d2>>}
=============================================================================
