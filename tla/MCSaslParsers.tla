--------------------------- MODULE MCSaslParsers ---------------------------
(***************************************************************************)
(* The forms that TLC spells out.  The SCRAM messages are spelled freely   *)
(* behind several beginnings, so that every clause of the grammar is both  *)
(* met and missed within the length.                                       *)
(***************************************************************************)
EXTENDS SaslParsers

F(k, s, cs, n) == [kind |-> k, start |-> s, chars |-> cs, max |-> n]

Gs2 == {"n", "y", ",", "x"}
Bare == {"n", "m", "=", ",", "x"}
Name == {"=", "2", "C", "3", "D", "x", ","}
Nonce == {"r", "=", "x", ","}

MCForm ==
    {F("PLAIN", << >>, {"0", "x", "y"}, 7),
     F("user", << >>, {"x", ",", "=", "2", "C"}, 5),
     F("SCRAM", << >>, Gs2, 4),
     F("SCRAM", <<"n", ",">>, Bare, 6),
     F("SCRAM", <<"n", ",", "x", ",", "m", "=">>, Bare, 6),
     F("SCRAM", <<"n", ",", ",", "n", "=">>, Name, 6),
     F("SCRAM", <<"n", ",", ",", "n", "=", "x", ",">>, Nonce, 4),
     F("SCRAM", <<"y", ",", ",", "n", "=">>, Name, 3)}

\* A name and what may follow it.
MCNonce == {F("SCRAM", <<"n", ",", ",", "n", "=">>, Nonce, 6)}
=============================================================================
