---------------------------- MODULE Diagnostics ----------------------------
(***************************************************************************)
(* From the body of an answer to last_error_message: io.LimitReader cuts   *)
(* the body after limit bytes, sanitize replaces control characters and    *)
(* invalid bytes and cuts again, and PostgreSQL takes only valid UTF-8. A  *)
(* byte is represented by its role in the encoding.                        *)
(***************************************************************************)
EXTENDS Integers, Sequences

CONSTANTS
    Limit,    \* SenderConfig.MaxDiagnosticBytes (1024 in the code)
    Body      \* what a supplier may answer with

(* One byte of ASCII and of a control character, the first of two and of   *)
(* three bytes, and a byte after the first.                                *)
Byte == {"ascii", "control", "lead2", "lead3", "rest"}

ASSUME LimitAssumption == Limit \in Nat \ {0}
ASSUME BodyAssumption == Body \subseteq Seq(Byte)

Ascii == <<"ascii">>
Replacement == <<"lead3", "rest", "rest">>     \* U+FFFD

(* The length of the character that starts at byte i, or 0 if none does. *)
WidthAt(s, i) ==
    CASE s[i] \in {"ascii", "control"} -> 1
      [] s[i] = "lead2" /\ i + 1 <= Len(s) /\ s[i + 1] = "rest" -> 2
      [] s[i] = "lead3" /\ i + 2 <= Len(s) /\ s[i + 1] = "rest" /\ s[i + 2] = "rest" -> 3
      [] OTHER -> 0

(* Decoding goes on behind a character, or behind a byte that is in none. *)
Behind(s, i) == i + (IF WidthAt(s, i) = 0 THEN 1 ELSE WidthAt(s, i))

ValidUTF8(s) ==
    LET valid[i \in 1 .. Len(s) + 1] ==
            i > Len(s) \/ (WidthAt(s, i) > 0 /\ valid[Behind(s, i)])
    IN  valid[1]

(* The function given to strings.Map, with what decoding makes of a byte   *)
(* that is in no character: a control character becomes a space and such a *)
(* byte U+FFFD.                                                            *)
MapRune(s, i) ==
    CASE WidthAt(s, i) = 0 -> Replacement
      [] s[i] = "control" -> Ascii
      [] OTHER -> SubSeq(s, i, i + WidthAt(s, i) - 1)

Mapped(s) ==
    LET mapped[i \in 1 .. Len(s) + 1] ==
            IF i > Len(s) THEN <<>> ELSE MapRune(s, i) \o mapped[Behind(s, i)]
    IN  mapped[1]

Cut(s) == IF Len(s) > Limit THEN SubSeq(s, 1, Limit) ELSE s

(* Mutant: cut before the characters are replaced. *)
SanitizeAfterCut(value) == Mapped(Cut(value))

Sanitize(value) == Cut(Mapped(value))
=============================================================================
