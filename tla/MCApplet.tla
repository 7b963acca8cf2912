------------------------------ MODULE MCApplet -------------------------------
(* Instances of Applet for TLC: two objects of two applications, of which    *)
(* one also uses the basic channel, on a card with two logical channels, so  *)
(* that channels run out as soon as one is leaked and both are in use, and a *)
(* number one object gave back is opened for the other.                      *)
EXTENDS Applet, TLC

CONSTANTS a1, a2, rot, other

MCApplets == {a1, a2}
MCAids == {rot, other}
MCAidOf == (a1 :> rot) @@ (a2 :> other)
OneBasic == {a1}
==============================================================================
