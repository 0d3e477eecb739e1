------------------------------ MODULE MCWorker ------------------------------
(* Small instances of Worker for TLC. *)
EXTENDS Worker

CONSTANTS a, b, e1, e2, x1, bad

MCPartitions == {a, b}
MCOnePartition == {a}
MCCommerce == {e1}
MCTwoCommerce == {e1, e2}
MCOther == {x1}
MCPoison == {bad}
=============================================================================
