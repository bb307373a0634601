--------------------------- MODULE MCClipsServer ---------------------------
(* Instances of ClipsServer for TLC. *)
EXTENDS ClipsServer

CONSTANTS c1, c2

TwoClients == {c1, c2}

OneEach  == c1 :> 1 @@ c2 :> 1
TwoOne   == c1 :> 2 @@ c2 :> 1

RawOnly  == c1 :> {"raw"} @@ c2 :> {"raw"}
AllKinds == c1 :> {"watch", "raw"} @@ c2 :> {"path", "fact"}
=============================================================================
