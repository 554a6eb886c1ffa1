--------------------------- MODULE MCVideoEncoder ---------------------------
(* Two capture buffers, one output buffer, a counter of three bits.            *)
EXTENDS VideoEncoder
MCRequested == [output |-> 1, capture |-> 2]
=============================================================================
