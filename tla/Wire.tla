-------------------------------- MODULE Wire --------------------------------
(***************************************************************************)
(* How an amount travels to a gateway and back: the packages               *)
(* internal/gateway (out) and internal/notify (in).                        *)
(*                                                                         *)
(* An amount in yuan is the sequence of its characters, a digit being its  *)
(* value.  int64 is replaced by integers of Width bits.                    *)
(***************************************************************************)
EXTENDS Integers, SequencesExt

CONSTANT Width  \* bits of an amount

ASSUME WireAssumption == Width \in Nat \ {0}

MaxInt == 2^(Width - 1) - 1

Wrap(n) == ((n + MaxInt + 1) % 2^Width) - MaxInt - 1

Point == 10
Digit == 0..9
Character == Digit \cup {Point}

\* The digits of n, most significant first.
Decimal[n \in Nat] ==
    IF n \in Digit THEN <<n>> ELSE Append(Decimal[n \div 10], n % 10)

\* The fen are printed without a leading zero.
FormatAmount_NoPadding(fen) ==
    Decimal[fen \div 100] \o <<Point>> \o Decimal[fen % 100]

\* "%d.%02d"; handleCreatePayment lets only positive amounts through.
FormatAmount(fen) ==
    Decimal[fen \div 100] \o <<Point, (fen % 100) \div 10, fen % 10>>

(***************************************************************************)
(* parseYuanToFen reads one character after the other.  Digits after the   *)
(* second decimal are skipped, and missing ones are zero.                  *)
(***************************************************************************)
ReadYuan(s, c) ==
    IF c = Point
    THEN [s EXCEPT !.invalid = s.invalid \/ s.inDecimal, !.inDecimal = TRUE]
    ELSE IF ~s.inDecimal
    THEN [s EXCEPT !.result = Wrap(10 * s.result + c), !.hasDigit = TRUE]
    ELSE IF s.places < 2
    THEN [s EXCEPT !.decimal = 10 * s.decimal + c, !.places = s.places + 1, !.hasDigit = TRUE]
    ELSE [s EXCEPT !.hasDigit = TRUE]

Unread == [result |-> 0, decimal |-> 0, places |-> 0, inDecimal |-> FALSE,
           hasDigit |-> FALSE, invalid |-> FALSE]

\* The loop over the characters of a text, up to its end.
Read[yuan \in Seq(Character)] ==
    IF yuan = <<>> THEN Unread ELSE ReadYuan(Read[Front(yuan)], Last(yuan))

Invalid == "invalid"

\* Only what stands before the point counts.
ParseYuanToFen_Truncates(yuan) ==
    LET s == Read[yuan]
    IN  IF s.invalid \/ ~s.hasDigit THEN Invalid ELSE Wrap(100 * s.result)

ParseYuanToFen(yuan) ==
    LET s == Read[yuan]
    IN  IF s.invalid \/ ~s.hasDigit
        THEN Invalid
        ELSE Wrap(100 * s.result + s.decimal * 10^(2 - s.places))

(***************************************************************************)
(* The ways to write an amount that mean exactly it: zeros at the end of   *)
(* the decimals, and then the point, may be left out.                      *)
(***************************************************************************)
Notations(fen) ==
    LET full == Decimal[fen \div 100] \o <<Point, (fen % 100) \div 10, fen % 10>>
    IN  {full}
          \cup (IF fen % 10 = 0 THEN {Front(full)} ELSE {})
          \cup (IF fen % 100 = 0 THEN {Decimal[fen \div 100]} ELSE {})

\* Every amount that can be asked for is written so that it means itself, and
\* every way to write it is read as it, up to the largest integer.
RoundTrips ==
    \A fen \in 1..MaxInt :
        /\ FormatAmount(fen) \in Notations(fen)
        /\ \A yuan \in Notations(fen) : ParseYuanToFen(yuan) = fen

=============================================================================
