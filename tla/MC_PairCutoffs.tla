---------------------------- MODULE MC_PairCutoffs ----------------------------
(* Two type names, the system starting with one of them, two potentials of  *)
(* different default r_cut and two neighbour lists: enough for a pair that   *)
(* appears after a type is added, a cutoff that is lowered again, and two    *)
(* lists whose subscribers must not mix.                                     *)
EXTENDS PairCutoffs, TLC

CONSTANTS lj, gauss, gl, cell

MCInitTypes == <<"A">>
MCSnapshotTypes == {<<"A", "B">>, <<"A">>}
MCSnapshotTypesOne == {<<"A">>}
MCDefault == (lj :> 2) @@ (gauss :> 1)
=============================================================================
