---------------------------- MODULE MCApplication ----------------------------
(***************************************************************************)
(* An instance of Application for TLC: one browser session, since sessions *)
(* share nothing but the backend and superseded runs keep that busy with   *)
(* several requests at once; three questions, of which two are remembered. *)
(***************************************************************************)
EXTENDS Application
=============================================================================
