---------------------------- MODULE MCRtspServer ----------------------------
(* Instances of RtspServer for TLC; clients are interchangeable.              *)
EXTENDS RtspServer, TLC

Symmetry == Permutations(Clients)
=============================================================================
