----------------------------- MODULE MCHttpClient -----------------------------
(* Two calls of one command, retried and redirected in every way; the      *)
(* audit callback may fail at the end of the second.                       *)
EXTENDS HttpClient
=============================================================================
