----------------------------- MODULE MCFraming -----------------------------
(* An instance of Framing: the lengths of the messages of a stream, with    *)
(* one at the limit of its configuration and then one above it, and the     *)
(* offsets that follow from them.                                           *)

EXTENDS Framing

MCHelloLength == 4
MCFrameLengths == <<3, 1, 6, 7, 2>>

(* The hello line, and a CR LF inside the third message. *)
MCLineEnds == {4, 23}

MCOffset ==
  LET offset[k \in 1 .. 6] ==
        IF k = 1 THEN MCHelloLength
        ELSE offset[k - 1] + SIZE_FMT_SIZE + MCFrameLengths[k - 1]
  IN offset
=============================================================================
