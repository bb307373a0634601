--------------------------- MODULE MCClipsClient ---------------------------
(* Instances of ClipsClient for TLC. *)
EXTENDS ClipsClient

CONSTANTS c1, c2

OneCaller  == {c1}
TwoCallers == {c1, c2}
=============================================================================
