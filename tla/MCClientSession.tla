---------------------------- MODULE MCClientSession ----------------------------
(* Two instances and two clients: what each writes is told from what the   *)
(* other does.  The list has room for both; that a longer one is cut is    *)
(* proved, for any length, and not checked here.                           *)
EXTENDS ClientSession
=============================================================================
