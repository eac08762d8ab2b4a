------------------------------ MODULE MCCodec -------------------------------
(* Codec for TLC: four words, two of them the beginning of another. *)
EXTENDS Codec

Words == << <<97>>, <<97, 97>>, <<97, 103>>, <<103>> >>

=============================================================================
