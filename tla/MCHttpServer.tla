---------------------------- MODULE MCHttpServer ----------------------------
(***************************************************************************)
(* Two connections that compete for one pooled connection, with a request  *)
(* that reads and one that writes, one that writes twice, and a stream.    *)
(***************************************************************************)
EXTENDS HttpServer
=============================================================================
