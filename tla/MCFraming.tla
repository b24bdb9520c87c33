----------------------------- MODULE MCFraming -----------------------------
(* Instances of Framing: frames of every size around both limits.          *)
EXTENDS Framing

MCSize == {0, 1, 3, 5, 6}
=============================================================================
