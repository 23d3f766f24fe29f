---------------------------- MODULE MCRemoteServer ----------------------------
(* Instances of RemoteServer for TLC: two attempts with a build, and one without. *)
EXTENDS RemoteServer

CONSTANTS a1, a2, a3
MCAll == {a1, a2, a3}
MCTwo == {a1, a2}

=============================================================================
