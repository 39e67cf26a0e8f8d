------------------------------ MODULE JsonText ------------------------------
(***************************************************************************)
(* How the JSON writer spells numbers and strings and how Json::Reader     *)
(* spells them back.  A name is a sequence of code points, which stands    *)
(* for its UTF-8 bytes; a number in the text is a sign and digits.  C's    *)
(* shifts and masks are products, quotients and remainders of powers of 2, *)
(* and the widths of Int, LargestInt and double are parameters.            *)
(***************************************************************************)
EXTENDS Integers, Sequences

CONSTANTS MaxInt,           \* of Int, half the range of UInt: 2^31 - 1 in the build
          MaxLargestInt,    \* of LargestInt: 2^63 - 1
          Precision,        \* of a double, whose significand has 53 bits: 2^53
          MaxDouble         \* the largest double: 2^1024 - 2^971

ASSUME WidthAssumption ==
    /\ MaxInt \in Nat \ {0} /\ MaxLargestInt \in Nat /\ MaxInt <= MaxLargestInt
    /\ MaxLargestInt >= 10
    /\ Precision \in Nat /\ Precision % 2 = 0
    /\ MaxInt + 1 < Precision /\ Precision <= MaxLargestInt + 1
    /\ MaxDouble \in Nat

MinInt == -MaxInt - 1
MinLargestInt == -MaxLargestInt - 1
MaxLargestUInt == 2 * MaxLargestInt + 1
ToLargestUInt(n) == n % (MaxLargestUInt + 1)

MaxCodePoint == 1114111                     \* 0x10FFFF
CodePoint == 0..MaxCodePoint
Name == Seq(CodePoint)
Number == [negative : BOOLEAN, digits : Seq(0..9)]

-----------------------------------------------------------------------------
(* Numbers.                                                                *)

\* The digits of a natural number, as uintToString writes them.
Digits[n \in Nat] == IF n < 10 THEN <<n>> ELSE Append(Digits[n \div 10], n % 10)

\* valueToString(LargestInt), as characters.
NumberName(n) ==
    (IF n < 0 THEN <<45>> ELSE <<>>)
        \o [i \in 1..Len(Digits[IF n < 0 THEN -n ELSE n]) |->
               48 + Digits[IF n < 0 THEN -n ELSE n][i]]

\* Sums(digits)[i]: what the first i digits denote.
Sums(digits) ==
    LET sum[i \in 0..Len(digits)] ==
            IF i = 0 THEN 0 ELSE 10 * sum[i - 1] + digits[i]
    IN  sum

\* What the text denotes, whatever its size.
Denotes(number) ==
    LET n == Sums(number.digits)[Len(number.digits)]
    IN  IF number.negative THEN -n ELSE n

\* Powers(n)[k] is 2^k.
Powers(n) == LET p[k \in 0..n] == IF k = 0 THEN 1 ELSE 2 * p[k - 1]  IN  p

\* The distance of the doubles around a natural number: the least power of 2
\* times which the significand reaches it.
Spacing(n) ==
    LET p == Powers(n \div Precision)
    IN  p[CHOOSE k \in 0..(n \div Precision) :
             n < Precision * p[k] /\ (k > 0 => n >= Precision * p[k - 1])]

\* The double next to a natural number, and the even one of two.
Rounded(n) ==
    LET s == Spacing(n)
        q == n \div s
        r == n % s
        up == 2 * r > s \/ (2 * r = s /\ q % 2 = 1)
    IN  s * (IF up THEN q + 1 ELSE q)

ToDouble(n) == IF n < 0 THEN -Rounded(-n) ELSE Rounded(n)

\* The number of values of LargestInt is a power of 2.
ASSUME PowerAssumption ==
    MaxLargestInt + 1 = (Precision \div 2) * Spacing(MaxLargestInt + 1)

\* Mutant: the last digit is not compared with the rounding of the threshold.
TooLargeUnrounded(value, threshold, last, digit, max) ==
    value >= threshold /\ (value > threshold \/ ~last)

\* Whether value * 10 + digit is left to the double: it may not fit.
TooLarge(value, threshold, last, digit, max) ==
    value >= threshold /\ (value > threshold \/ ~last \/ digit > max % 10)

\* Values(digits, max)[i]: the value after i digits, or -1 once the double has
\* been chosen.  The product wraps as LargestUInt does.
Values(digits, max) ==
    LET value[i \in 0..Len(digits)] ==
            IF i = 0 THEN 0
            ELSE IF value[i - 1] = -1
                    \/ TooLarge(value[i - 1], max \div 10, i = Len(digits),
                                digits[i], max)
                 THEN -1 ELSE ToLargestUInt(value[i - 1] * 10 + digits[i])
    IN  value

\* Reader::decodeNumber: an integer if it fits, else a double.
DecodeNumber(number) ==
    LET max == IF number.negative THEN MaxLargestInt + 1 ELSE MaxLargestUInt
        v == Values(number.digits, max)[Len(number.digits)]
    IN  IF v = -1 THEN [type |-> "real", whole |-> ToDouble(Denotes(number))]
        ELSE IF number.negative THEN [type |-> "int", int |-> -v]
        ELSE IF v <= MaxInt THEN [type |-> "int", int |-> v]
        ELSE [type |-> "uint", int |-> v]

\* decodeDouble: the stream refuses what no double holds.
Decodable(number) ==
    LET v == DecodeNumber(number)
    IN  v.type = "real" => -MaxDouble <= v.whole /\ v.whole <= MaxDouble

-----------------------------------------------------------------------------
(* Strings.                                                                *)

Replacement == 65533                        \* 0xFFFD

\* A continuation byte of six bits, and what one carries.
Continuation(n) == 128 + (n % 64)
Payload(byte) == byte % 64

\* codePointToUTF8
CodePointToUTF8(cp) ==
    CASE cp <= 127 -> <<cp>>
      [] 127 < cp /\ cp <= 2047 -> <<192 + (cp \div 64), Continuation(cp)>>
      [] 2047 < cp /\ cp <= 65535 ->
            <<224 + (cp \div 4096), Continuation(cp \div 64), Continuation(cp)>>
      [] 65535 < cp /\ cp <= 1114111 ->
            <<240 + (cp \div 262144), Continuation(cp \div 4096),
              Continuation(cp \div 64), Continuation(cp)>>
      [] 1114111 < cp -> <<>>

\* Mutant: four bits of the lead byte are kept.
TwoBytesMasked(s) == 64 * (s[1] % 16) + Payload(s[2])

TwoBytes(s) ==
    LET calculated == 64 * (s[1] % 32) + Payload(s[2])
    IN  IF calculated < 128 THEN Replacement ELSE calculated

\* Any code point from 0xDFFF up is taken for a surrogate.
ThreeBytes(s) ==
    LET calculated == 4096 * (s[1] % 16) + 64 * Payload(s[2]) + Payload(s[3])
    IN  IF (calculated >= 55296 /\ calculated >= 57343) \/ calculated < 2048
        THEN Replacement ELSE calculated

\* The lead byte is shifted by 24.
FourBytes(s) ==
    LET calculated == 16777216 * (s[1] % 8) + 4096 * Payload(s[2])
                          + 64 * Payload(s[3]) + Payload(s[4])
    IN  IF calculated < 65536 THEN Replacement ELSE calculated

\* utf8ToCodepoint, of the bytes of one character.
Utf8ToCodepoint(s) ==
    CASE s[1] < 128 -> s[1]
      [] 128 <= s[1] /\ s[1] < 224 -> TwoBytes(s)
      [] 224 <= s[1] /\ s[1] < 240 -> ThreeBytes(s)
      [] 240 <= s[1] -> FourBytes(s)

\* valueToQuotedStringN: the 16-bit units the code point is written as, with
\* toHex16Bit keeping 16 bits of each; below 128 the character or a short
\* escape that stands for it.  Every name comes here: isAnyCharRequiredQuoting is
\* true of each byte below 128, and of the others where char is signed.
Escape(cp) ==
    IF cp < 65536 THEN <<cp>>
    ELSE <<(55296 + ((cp - 65536) \div 1024)) % 65536,
           56320 + ((cp - 65536) % 1024)>>

IsHigh(unit) == 55296 <= unit /\ unit <= 56319

\* The units that are written as \u and four digits, not as they are nor with
\* a short escape.
Escaped(unit) == unit >= 128 \/ (unit < 32 /\ unit \notin {8, 9, 10, 12, 13})

\* The code point of a high surrogate and what follows it.
Paired(high, unit) == 65536 + 1024 * (high % 1024) + (unit % 1024)

\* decodeUnicodeCodePoint: after a high surrogate six more characters are
\* expected, an escape of which any unit completes the pair, and nothing else.
Decode(read, unit) ==
    IF read.half # 0
    THEN IF Escaped(unit)
         THEN [read EXCEPT !.name = Append(@, Paired(read.half, unit)),
                           !.half = 0]
         ELSE [read EXCEPT !.ok = FALSE]
    ELSE IF IsHigh(unit) THEN [read EXCEPT !.half = unit]
    ELSE [read EXCEPT !.name = Append(@, unit)]

DecodeUnits(read, units) ==
    IF Len(units) = 1 THEN Decode(read, units[1])
    ELSE Decode(Decode(read, units[1]), units[2])

\* What a name has become when it was written and read, after each of its
\* characters: the name so far, and a high surrogate that waits for its pair.
RereadParts(name) ==
    LET read[i \in 0..Len(name)] ==
            IF i = 0 THEN [name |-> <<>>, half |-> 0, ok |-> TRUE]
            ELSE DecodeUnits(read[i - 1],
                     Escape(Utf8ToCodepoint(CodePointToUTF8(name[i]))))
    IN  read

\* decodeString: whether what was written can be read, and the name it is then.
Readable(name) ==
    LET last == RereadParts(name)[Len(name)]  IN  last.ok /\ last.half = 0
RereadName(name) == RereadParts(name)[Len(name)].name
=============================================================================
