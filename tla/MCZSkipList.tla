---------------------------- MODULE MCZSkipList ----------------------------
(* Members are numbers that stand for strings in their order.  The passing   *)
(* instance adds finite increments only; the other one adds infinities too,  *)
(* of which two opposite ones make NaN.                                      *)
EXTENDS ZSkipList

MCLexLess(a, b) == a < b

Up == {1}
Extremes == {-Inf, 1, Inf}
FromMinusOne == -1 .. 1
ZeroOne == 0 .. 1
TwoMembers == {1, 2}
FourMembers == {1, 2, 4, 5}
AnyValue == {1, 3, 4}

WithoutHistory == list
=============================================================================
