---------------------------- MODULE MCHttpServer ----------------------------
(* HttpServer on a small instance.                                          *)
EXTENDS HttpServer, TLC
=============================================================================
