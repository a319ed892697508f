--------------------------- MODULE MCProxyForward ---------------------------
(* Three clients, two of which share a slot, and fewer descriptors than the    *)
(* openings they can ask for, so that slots are taken over and descriptors     *)
(* reused.                                                                     *)
EXTENDS ProxyForward

CONSTANTS c1, c2, c3, f1, f2

MCSlot(c) == IF c = c3 THEN 1 ELSE 0
=============================================================================
