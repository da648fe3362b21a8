---------------------------- MODULE MCSseStreams ----------------------------
(* SseStreams on four connections from two addresses to two buildings,     *)
(* with caps small enough that both of them bind.                          *)
EXTENDS SseStreams, TLC

(* Connections are interchangeable, and so are buildings and addresses.    *)
Symmetric == Permutations(Stream) \cup Permutations(Building)
               \cup Permutations(Ip)
=============================================================================
