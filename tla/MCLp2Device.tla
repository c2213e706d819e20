---------------------------- MODULE MCLp2Device ----------------------------
(* A small instance of Lp2Device for TLC: a list of two variables and a      *)
(* single one, of two bits each.                                             *)
EXTENDS Lp2Device

MCTasks     == {"list", "single"}
MCVariables == [list |-> <<"cv1", "cv29">>, single |-> <<"cv29">>]
MCDecoders  == {[cv1 |-> {0}, cv29 |-> {1}]}
=============================================================================
