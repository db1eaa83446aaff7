------------------------------ MODULE MCWsmAuth ------------------------------
(***************************************************************************)
(* WsmAuth for TLC: a camera and a helper that play by the protocol, and   *)
(* ones that do anything.                                                  *)
(***************************************************************************)
EXTENDS WsmAuth

Good == [variant |-> {"helper", "python"}, challenges |-> {"whole"},
         confirms |-> {"good"}, prompt |-> TRUE, rejects |-> FALSE]
Rough == [variant |-> {"helper", "python"}, challenges |-> {"whole", "short", "long"},
          confirms |-> {"good", "padded", "short", "wrong"},
          prompt |-> FALSE, rejects |-> TRUE]

\* Nothing goes wrong but that the library rejects the challenge.
Rejected == [Good EXCEPT !.rejects = TRUE, !.variant = {"helper"}]

MCWorlds == {Good, Rough}
MCRejected == {Rejected}
=============================================================================
