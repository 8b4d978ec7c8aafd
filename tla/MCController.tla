---------------------------- MODULE MCController ----------------------------
(* The launcher's window with two starts, of one kind or of each. *)
EXTENDS Controller
=============================================================================
