--------------------------- MODULE MCSerialization ---------------------------
(* Instance of Serialization for TLC. *)
EXTENDS Serialization

\* Two vdevs; the first and the second command are the same one requested
\* twice, and the third goes ahead of what waits.
Vdevs == [c \in Cmd |-> IF c = 4 THEN "v2" ELSE "v1"]
Keys == [c \in Cmd |-> IF c = 2 THEN 1 ELSE c]
=============================================================================
