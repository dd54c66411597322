---------------------------- MODULE MCLearnerHash ----------------------------
(* Instances of LearnerHash for TLC.                                        *)
EXTENDS LearnerHash

(* Tokens that collide at every table size: 7 and 15 share a home in tables *)
(* of 2, 4 and 8 slots, 3 and 7 in tables of 2 and 4, and the last slot's    *)
(* probes wrap round to the first.                                          *)
Colliding == {1, 3, 7, 9, 15}
WithZero == {0, 3, 7, 15}

OddOrders == [t \in Colliding |-> IF t = 9 THEN 2 ELSE 1]
ZeroOrders == [t \in WithZero |-> IF t = 7 THEN 2 ELSE 1]
=============================================================================
