---------------------------- MODULE PlaySkipText ----------------------------
(***************************************************************************)
(* Timecodes, skip ranges and the [PlaySkip] section of a .pbf file         *)
(* (core.cpp), as operators on texts.  A text is a sequence of tokens: a    *)
(* numeral with its value and its number of digits, or a sign.  A parser    *)
(* returns the set of what it may return: one value, or none for a          *)
(* ParseError.  Numbers wrap at the width of their C++ type, as they do in  *)
(* the builds of this code.  Cutting at white space and line ends is left   *)
(* out: operands come trimmed and a section comes as its lines.             *)
(***************************************************************************)
EXTENDS Integers, Sequences, FiniteSetsExt

CONSTANTS Base,      \* 10: of the numerals
          Digits,    \* bound: digits of a numeral, as many as a long long may have
          Sixty,     \* 60: seconds in a minute, minutes in an hour
          LongLimit, \* 2^63: std::int64_t and long long
          IntLimit   \* 2^31: int

Thousand == Base * Base * Base
LongMax == LongLimit - 1
Narrow(n, limit) == ((n + limit) % (2 * limit)) - limit
Long(n) == Narrow(n, LongLimit)

\* The numerals of up to so many digits are those of the numbers below it.
Power == LET power[w \in 0..Digits] == IF w = 0 THEN 1 ELSE Base * power[w - 1]
         IN  power

ASSUME TextAssumption == /\ Base \in Nat \ {0, 1} /\ Sixty \in 1..Base * Base
                         /\ LongLimit \in Nat \ {0, 1} /\ IntLimit \in 1..LongLimit
                         /\ Digits \in Nat /\ Digits >= 3 /\ LongMax < Power[Digits]

FileSpecificType == 1  \* kFileSpecificType

Numeral(v, digits) == [is |-> "digits", value |-> v, width |-> digits]
Sign(c) == [is |-> c, value |-> 0, width |-> 1]
Header == <<Sign("[PlaySkip]")>>

\* std::to_string and "%0*lld": no digit is ever cut off.
Padded(v, width) == Numeral(v, Max({width, Min({w \in 1..Digits : v < Power[w]})}))
ToString(v) == Padded(v, 1)

-----------------------------------------------------------------------------
\* string_view::find from a position on, 0 for npos; a field is what is between.
Find(text, c, from) ==
    LET hits == {i \in from..Len(text) : text[i].is = c}
    IN  IF hits = {} THEN 0 ELSE Min(hits)
Before(text, from, end) == SubSeq(text, from, end - 1)
After(text, pos) == SubSeq(text, pos + 1, Len(text))
Size(field) == IF Len(field) = 1 THEN field[1].width ELSE Len(field)
ParseDigitsField(field) ==
    IF Len(field) = 1 /\ field[1].is = "digits" /\ field[1].value <= LongMax
    THEN {field[1].value} ELSE {}

Duration(h, m, s, ms) == Long(Long(Long(Long(h * Sixty) + m) * Sixty + s) * Thousand + ms)

FormatTimecode(ms) ==
    LET seconds == ms \div Thousand
    IN  <<Padded(seconds \div (Sixty * Sixty), 2), Sign(":"),
          Padded((seconds % (Sixty * Sixty)) \div Sixty, 2), Sign(":"),
          Padded(seconds % Sixty, 2), Sign("."), Padded(ms % Thousand, 3)>>

\* Mutant: the milliseconds need not be three digits.
ParseTimecodeAnyFraction(text) ==
    LET c1 == Find(text, ":", 1)
        c2 == Find(text, ":", c1 + 1)
        dot == Find(text, ".", c2 + 1)
    IN  {Duration(h, m, s, ms) :
            h \in ParseDigitsField(Before(text, 1, c1)), ms \in ParseDigitsField(After(text, dot)),
            m \in {x \in ParseDigitsField(Before(text, c1 + 1, c2)) : x < Sixty},
            s \in {x \in ParseDigitsField(Before(text, c2 + 1, dot)) : x < Sixty}}

ParseTimecode(text) ==
    LET c1 == Find(text, ":", 1)
        c2 == Find(text, ":", c1 + 1)
        dot == Find(text, ".", c2 + 1)
        minutes == Before(text, c1 + 1, c2)
        seconds == Before(text, c2 + 1, dot)
        millis == After(text, dot)
    IN  IF 0 \in {c1, c2, dot} \/ <<Size(minutes), Size(seconds), Size(millis)>> # <<2, 2, 3>> THEN {}
        ELSE {Duration(h, m, s, ms) :
                h \in ParseDigitsField(Before(text, 1, c1)), ms \in ParseDigitsField(millis),
                m \in {x \in ParseDigitsField(minutes) : x < Sixty},
                s \in {x \in ParseDigitsField(seconds) : x < Sixty}}

-----------------------------------------------------------------------------
\* Mutant: a range may be empty.
CreateEmpty(start, end) == IF start < 0 \/ end < start THEN {} ELSE {[start |-> start, end |-> end]}

\* SkipRange::Create.
Create(start, end) == IF start < 0 \/ end <= start THEN {} ELSE {[start |-> start, end |-> end]}

\* Mutant: the end is written where the length belongs.
SerializeEnd(index, type, range) ==
    <<ToString(index), Sign("="), ToString(type), Sign("*"),
      ToString(range.start), Sign("*"), ToString(range.end)>>

SerializePbfLine(index, type, range) ==
    <<ToString(index), Sign("="), ToString(type), Sign("*"),
      ToString(range.start), Sign("*"), ToString(range.end - range.start)>>

\* The second field of the line is the length: the end is the sum, which wraps.
ParsePbfLine(line) ==
    LET eq == Find(line, "=", 1)
        star1 == Find(line, "*", eq + 1)
        star2 == Find(line, "*", star1 + 1)
    IN  IF 0 \in {eq, star1, star2} THEN {}
        ELSE {[index |-> Narrow(i, IntLimit), type |-> Narrow(t, IntLimit), range |-> r] :
                i \in ParseDigitsField(Before(line, 1, eq)),
                t \in ParseDigitsField(Before(line, eq + 1, star1)),
                r \in UNION {Create(start, Long(start + length)) :
                        start \in ParseDigitsField(Before(line, star1 + 1, star2)),
                        length \in ParseDigitsField(After(line, star2))}}

BuildPlaySkipSection(list) ==
    <<Header>> \o [i \in DOMAIN list |-> SerializePbfLine(i - 1, FileSpecificType, list[i])]
               \o << <<ToString(Len(list)), Sign("=")>> >>

\* Empty lines, the header and terminators, wherever they are, say nothing; any
\* other line that does not parse refuses the whole section.
IsTerminator(line) == LET eq == Find(line, "=", 1) IN eq # 0 /\ eq = Len(line)
IsEntry(line) == line \notin {<<>>, Header} /\ ~IsTerminator(line)
Entries(section) ==
    LET kept[n \in 0..Len(section)] ==
            IF n = 0 THEN <<>>
            ELSE IF IsEntry(section[n]) THEN Append(kept[n - 1], section[n]) ELSE kept[n - 1]
    IN  kept[Len(section)]

ParsePlaySkipSection(section) ==
    LET lines == Entries(section)
    IN  IF \E i \in DOMAIN lines : ParsePbfLine(lines[i]) = {} THEN {}
        ELSE {[i \in DOMAIN lines |-> (CHOOSE e \in ParsePbfLine(lines[i]) : TRUE).range]}

-----------------------------------------------------------------------------
\* "SS", "MM:SS" or "HH:MM:SS", the last with up to three digits of a fraction;
\* the seconds of the first form have no bound.
Fraction(text, dot) ==
    IF dot = 0 THEN {0}
    ELSE LET digits == After(text, dot)
         IN  IF Size(digits) > 3 THEN {}
             ELSE {f * Power[3 - Size(digits)] : f \in ParseDigitsField(digits)}
ParseHumanTimecode(text) ==
    LET dot == Find(text, ".", 1)
        whole == IF dot = 0 THEN text ELSE Before(text, 1, dot)
        c1 == Find(whole, ":", 1)
        c2 == IF c1 = 0 THEN 0 ELSE Find(whole, ":", c1 + 1)
        hours == IF c2 = 0 THEN {0} ELSE ParseDigitsField(Before(whole, 1, c1))
        minutes == IF c1 = 0 THEN {0} ELSE ParseDigitsField(Before(whole, IF c2 = 0 THEN 1 ELSE c1 + 1,
                                                                   IF c2 = 0 THEN c1 ELSE c2))
        seconds == ParseDigitsField(After(whole, Max({c1, c2})))
    IN  {Duration(h, m, s, f) : h \in hours, f \in Fraction(text, dot),
            m \in {x \in minutes : x < Sixty}, s \in {x \in seconds : c1 = 0 \/ x < Sixty}}

\* The separators in the order they are tried; the first one found decides.
ParseHumanRange(text) ==
    LET at(c) == Find(text, c, 1)
        pos == IF at("->") # 0 THEN at("->") ELSE IF at("~") # 0 THEN at("~") ELSE at("-")
    IN  IF pos = 0 THEN {}
        ELSE UNION {Create(a, b) : a \in ParseHumanTimecode(Before(text, 1, pos)),
                                   b \in ParseHumanTimecode(After(text, pos))}
=============================================================================
