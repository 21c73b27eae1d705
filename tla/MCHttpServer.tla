---------------------------- MODULE MCHttpServer ----------------------------
(***************************************************************************)
(* The instance of HttpServer for TLC: its constants are in the cfg.  The  *)
(* run checks liveness, so it declares no symmetry.                        *)
(***************************************************************************)
EXTENDS HttpServer
=============================================================================
