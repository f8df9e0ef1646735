---------------------------- MODULE MCTtsStream ----------------------------
(* A request of up to two frames and a shorter one share a batch of two;   *)
(* queues hold one frame, so that a slow client overflows.                 *)
EXTENDS TtsStream

CONSTANTS r1, r2

MCMaxFrames == [r \in Streams |-> IF r = r1 THEN 2 ELSE 1]
=============================================================================
