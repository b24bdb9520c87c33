----------------------------- MODULE MCHeaders -----------------------------
(***************************************************************************)
(* Instances of Headers: every version that the proxy advertises and one   *)
(* key it does not know; client ids that are null, empty and not; no, one  *)
(* and two tagged fields, one of them long enough for a two-byte length.   *)
(* Integers have nine bits, so that MaxInt is 255 and two bytes hold them. *)
(***************************************************************************)
EXTENDS Headers

MCUnlisted == {<<"OffsetForLeaderEpoch", v>> : v \in {3, 4}}
\* DescribeConfigs 4 is left out: isFlexibleRequest has it wrong.
MCRequest == (Advertised \ {<<"DescribeConfigs", 4>>}) \cup MCUnlisted
MCClientID == {-1, 0, 2}
\* The last one is past the longest frame, and its end is still an int.
MCTags == {<< >>, <<1>>, <<0, 130>>, <<200>>}

\* The lengths around the limits of int and uint64.
MCWideRequest == {<<"Metadata", 9>>}
MCWideTags == {<<n>> : n \in {MaxInt, MaxInt + 1, Word - 1}}
=============================================================================
