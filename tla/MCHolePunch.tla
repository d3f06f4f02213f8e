---------------------------- MODULE MCHolePunch -----------------------------
(* Instances of HolePunch for TLC: two restricted NATs, which need a bubble   *)
(* in each direction, and a cone NAT that meets a symmetric one, whose        *)
(* mapping is not the one in the address.  The application of "a" talks and   *)
(* that of "b" answers.                                                       *)
EXTENDS HolePunch
MCNats == {[a |-> "restricted", b |-> "restricted"], [a |-> "cone", b |-> "symmetric"]}
=============================================================================
