------------------------------ MODULE JsonBodies ------------------------------
(***************************************************************************)
(* How the API reads an untrusted JSON body: the scan for repeated         *)
(* top-level keys, which runs over the characters before any parser does,  *)
(* and the exact reading of an amount from the digits that were sent.       *)
(*                                                                         *)
(* A text is a sequence of characters.  A number token is [negative,       *)
(* integer, fraction, exponent], its digits as sequences and its exponent a *)
(* number, 0 when there is none.                                            *)
(***************************************************************************)
EXTENDS Integers, Sequences

CONSTANTS
    MaxAmount,    \* Number.MAX_SAFE_INTEGER
    MaxExponent   \* the largest exponent that is read, of six digits

-----------------------------------------------------------------------------
\* assertNoDuplicateTopLevelKeys: inKey stands for a keyStart, and key for the
\* text from there on as JSON.parse reads it, an escaped character as itself.
ScanStart == [depth |-> 0, escaped |-> FALSE, expectingKey |-> FALSE, inString |-> FALSE,
              inKey |-> FALSE, key |-> <<>>, keys |-> {}, repeated |-> FALSE]

InString(s, c) ==
    IF s.escaped THEN [s EXCEPT !.escaped = FALSE, !.key = Append(@, c)]
    ELSE IF c = "\\" THEN [s EXCEPT !.escaped = TRUE]
    ELSE IF c # "\"" THEN [s EXCEPT !.key = Append(@, c)]
    ELSE IF ~s.inKey THEN [s EXCEPT !.inString = FALSE]
    ELSE [s EXCEPT !.inString = FALSE, !.inKey = FALSE, !.expectingKey = FALSE,
                   !.repeated = @ \/ s.key \in s.keys, !.keys = @ \cup {s.key}]

OutsideString(s, c) ==
    CASE c = "\"" ->
            [s EXCEPT !.inString = TRUE, !.inKey = s.depth = 1 /\ s.expectingKey, !.key = <<>>]
      [] c \in {"{", "["} ->
            [s EXCEPT !.depth = @ + 1, !.expectingKey = @ \/ (s.depth = 0 /\ c = "{")]
      [] c \in {"}", "]"} -> [s EXCEPT !.depth = @ - 1]
      [] c = "," -> [s EXCEPT !.expectingKey = @ \/ s.depth = 1]
      [] OTHER -> s

Scan(s, c) == IF s.inString THEN InString(s, c) ELSE OutsideString(s, c)

RepeatsAKey(text) ==
    LET scanned[i \in 0..Len(text)] ==
            IF i = 0 THEN ScanStart ELSE Scan(scanned[i - 1], text[i])
    IN  scanned[Len(text)].repeated

-----------------------------------------------------------------------------
\* exactSafeIntegerFromToken: the amount, or 0 for a token that is refused.
AllZero(digits) == \A i \in DOMAIN digits : digits[i] = 0

WithoutLeadingZeros(digits) ==
    IF AllZero(digits) THEN <<>>
    ELSE SubSeq(digits, CHOOSE i \in DOMAIN digits :
                            digits[i] # 0 /\ AllZero(SubSeq(digits, 1, i - 1)), Len(digits))

ValueOf(digits) ==
    LET value[i \in 0..Len(digits)] == IF i = 0 THEN 0 ELSE 10 * value[i - 1] + digits[i]
    IN  value[Len(digits)]

MaxDigits == CHOOSE n \in 1..16 : 10^(n - 1) <= MaxAmount /\ MaxAmount < 10^n

Zeros(n) == [i \in 1..n |-> 0]

\* The digits before the decimal point once it is moved, or none.
IntegerDigits(token) ==
    LET combined == token.integer \o token.fraction
        position == Len(token.integer) + token.exponent
        significant == WithoutLeadingZeros(combined)
        zeroCount == position - Len(combined)
    IN  IF position <= 0 THEN <<>>
        ELSE IF zeroCount < 0
          THEN IF AllZero(SubSeq(combined, position + 1, Len(combined)))
                 THEN SubSeq(combined, 1, position) ELSE <<>>
        ELSE IF Len(significant) + zeroCount > MaxDigits THEN <<>>
        ELSE significant \o Zeros(zeroCount)

exactSafeIntegerFromToken(token) ==
    LET canonical == WithoutLeadingZeros(IntegerDigits(token))
    IN  IF \/ token.negative
           \/ AllZero(token.integer \o token.fraction)
           \/ token.exponent \notin -MaxExponent..MaxExponent
           \/ Len(canonical) \notin 1..MaxDigits
        THEN 0
        ELSE IF ValueOf(canonical) <= MaxAmount THEN ValueOf(canonical) ELSE 0
=============================================================================
