---------------------------- MODULE MCHTTPSender ----------------------------
(* Instances of HTTPSender for TLC. *)
EXTENDS HTTPSender, SequencesExt

CONSTANT MaxBytes    \* bound: bytes of a body

(* Whatever a supplier can send, and what is valid UTF-8 as it was sent. *)
AnyBody == BoundedSeq(Byte, MaxBytes)
ValidBody == {body \in AnyBody : ValidUTF8(body)}
=============================================================================
