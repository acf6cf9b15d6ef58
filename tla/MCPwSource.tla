----------------------------- MODULE MCPwSource -----------------------------
(* PwSource for TLC: bytes of two values, so that a sample has three bits and *)
(* the packet counter wraps at four; a ring of one packet and a half, so that *)
(* packets wrap in it.                                                        *)
EXTENDS PwSource
=============================================================================
