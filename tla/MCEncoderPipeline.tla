------------------------- MODULE MCEncoderPipeline -------------------------
(* Instances of EncoderPipeline for TLC.                                       *)
EXTENDS EncoderPipeline
=============================================================================
