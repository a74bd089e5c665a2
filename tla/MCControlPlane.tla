--------------------------- MODULE MCControlPlane ----------------------------
(* Two customers and two pages; the rest comes from the configurations.    *)
EXTENDS ControlPlane
=============================================================================
