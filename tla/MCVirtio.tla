------------------------------ MODULE MCVirtio ------------------------------
(* Virtio with room for two requests and three processes that make them.   *)
EXTENDS Virtio

CONSTANTS p1, p2, p3
=============================================================================
