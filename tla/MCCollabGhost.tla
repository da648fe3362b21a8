---------------------------- MODULE MCCollabGhost ---------------------------
(* Two sockets and one room are enough for a ghost.                        *)
EXTENDS Collab

Allowed == Socket \X Building
=============================================================================
