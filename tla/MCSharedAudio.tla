---------------------------- MODULE MCSharedAudio ----------------------------
(***************************************************************************)
(* SharedAudio for TLC: the constants are numbers and sets of numbers, the *)
(* bounds MaxWritten, MaxRestarts and CounterMod make the state space      *)
(* finite.  No symmetry: channels and positions are told apart.            *)
(***************************************************************************)
EXTENDS SharedAudio
=============================================================================
