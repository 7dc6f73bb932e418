---------------------------- MODULE MC_TcpServer ----------------------------
EXTENDS TcpServer

(* The base loop and one sub-loop: both connections share it. *)
MCLoops == 0..1
=============================================================================
