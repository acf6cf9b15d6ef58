--------------------------- MODULE MCRingLifecycle ---------------------------
(* RingLifecycle for TLC: the daemon processes are model values.             *)
EXTENDS RingLifecycle
=============================================================================
