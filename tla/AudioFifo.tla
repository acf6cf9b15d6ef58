------------------------------ MODULE AudioFifo ------------------------------
(***************************************************************************)
(* What a single-writer/single-reader audio ring promises its users, with  *)
(* every operation atomic: a bounded queue of the stream's frames in which *)
(* the writer appends whole blocks and the reader removes frames from the  *)
(* front, to deliver or to discard them.  Frame number p of the stream is  *)
(* the number p itself, so that the content of the queue says which frames *)
(* of the stream it holds and in which order.                              *)
(***************************************************************************)
EXTENDS Integers

CONSTANTS
  Capacity,   \* frames the queue can hold
  Channels    \* samples per frame

VARIABLES
  head,       \* stream number of the oldest frame still queued
  tail,       \* number of frames accepted so far
  buffer      \* the queued frames, by stream number

fifoVars == <<head, tail, buffer>>

\* Frame p of the stream: one sample per channel.
Frame(p) == [ch \in 0 .. Channels - 1 |-> p]

Init ==
  /\ head = 0
  /\ tail = 0
  /\ buffer = [p \in {} |-> Frame(p)]

\* A block of n frames is accepted whole, and only if it fits.
Accept(n) ==
  /\ tail + n - head <= Capacity
  /\ tail' = tail + n
  /\ head' = head
  /\ buffer' = [p \in head .. tail + n - 1 |->
                  IF p < tail THEN buffer[p] ELSE Frame(p)]

\* The n oldest frames leave the queue.
Remove(n) ==
  /\ head + n <= tail
  /\ head' = head + n
  /\ tail' = tail
  /\ buffer' = [p \in head + n .. tail - 1 |-> buffer[p]]

Next == \E n \in 1 .. Capacity : Accept(n) \/ Remove(n)

Spec == Init /\ [][Next]_fifoVars
=============================================================================
