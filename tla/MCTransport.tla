---------------------------- MODULE MCTransport ----------------------------
(***************************************************************************)
(* Transport for TLC: three byte values, so that a byte of the magic can   *)
(* also be a length, a version or a payload, a header that ends with the   *)
(* version, and lengths 0 and 1 possible, 2 impossible.  The sender emits  *)
(* any six bytes, or three pieces chosen to lie badly next to each other,  *)
(* which fill rx_fifo when the supervisor does not read in between.        *)
(***************************************************************************)
EXTENDS Transport

\* A frame without a payload, one of another version, one with a magic across
\* its header and payload; a header with an impossible length that ends in
\* half a magic; and either half of a magic as noise.
Pieces == {<<1, 2, 0, 1>>, <<1, 2, 0, 0>>, <<1, 2, 1, 1, 2>>, <<1, 2, 2, 1>>, <<1>>, <<2>>}

MCStreams == [1..6 -> Byte] \cup {p \o q \o r : p, q, r \in Pieces}
=============================================================================
