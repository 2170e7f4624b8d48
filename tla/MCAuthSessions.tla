--------------------------- MODULE MCAuthSessions ---------------------------
(* Instances of AuthSessions for TLC: see the .cfg files and README.md. *)
EXTENDS AuthSessions
=============================================================================
