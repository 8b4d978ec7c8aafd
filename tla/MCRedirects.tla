----------------------------- MODULE MCRedirects -----------------------------
(* Redirects of every kind, with a game that dials twice. *)
EXTENDS Redirects, TLC
=============================================================================
