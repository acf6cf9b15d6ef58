--------------------------- MODULE MCHalProperties ---------------------------
(* HalProperties for TLC: every object, selector and scope, buffers of each    *)
(* size the driver names and one byte less, a reference count that wraps at 3. *)
EXTENDS HalProperties
=============================================================================
