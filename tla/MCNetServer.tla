---------------------------- MODULE MCNetServer ----------------------------
(* An instance of NetServer for TLC; the numbers are in the cfg.              *)
EXTENDS NetServer
=============================================================================
