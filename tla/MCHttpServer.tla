---------------------------- MODULE MCHttpServer -----------------------------
(* Two connections, two workers, and a pool that keeps one request waiting. *)
EXTENDS HttpServer

CONSTANTS w1, w2
=============================================================================
