------------------------ MODULE MCContainerTracking ------------------------
(* Two containers besides the agent's own; one has two labels that tell    *)
(* what made it.                                                           *)
EXTENDS ContainerTracking

CONSTANTS c1, c2

TwoIds == {c1, c2}
Labels2 == c1 :> {"manager=distrobox", "toolbox"} @@ c2 :> {"other"}
=============================================================================
