--------------------------- MODULE PlaySkip_proof ---------------------------
(***************************************************************************)
(* A skip list survives its ways through text, whatever is typed and        *)
(* whatever is changed in a file or a field: for every base and length of    *)
(* the numerals, every width of the integers and every time that fits it.   *)
(*                                                                         *)
(* Nothing about the texts is left to a bound.  Entries is defined line by   *)
(* line and is followed line by line, by induction over a set of numbers.   *)
(* A numeral is written with the digits its value takes, and every time is  *)
(* its hours, minutes, seconds and milliseconds by the uniqueness of the     *)
(* quotient and the remainder, so that no product or sum on the way back     *)
(* wraps.  IInv then says what each of the list, the file and the field      *)
(* still has to do with the others once a text was changed.                 *)
(***************************************************************************)
EXTENDS PlaySkip, SequenceTheorems, WellFoundedInduction, TLAPS

-----------------------------------------------------------------------------
(***************************************************************************)
(* Numbers: the library's induction theorems take a predicate, which the    *)
(* provers can use for a set only; so induction is stated for one.          *)
(***************************************************************************)
LEMMA NatMinimum ==
    ASSUME NEW S, S \subseteq Nat, S # {} PROVE \E least \in S : \A n \in S : least <= n
<1> DEFINE Less == {ss \in Nat \X Nat : ss[1] < ss[2]}
<1>1. IsWellFoundedOn(Less, Nat)
    BY NatLessThanWellFounded DEF OpToRel
<1>2. PICK least \in S : \A n \in S : <<n, least>> \notin Less
    <2> HIDE DEF Less
    <2> QED
        BY <1>1, WFMin
<1>3. ASSUME NEW n \in S PROVE least <= n
    <2>1. n \in Nat /\ least \in Nat /\ ~(n < least)
        BY <1>2
    <2> QED
        BY <2>1
<1> QED
    BY <1>3

\* What holds of 0 and of a number's successor is a set that has every number.
LEMMA InductiveSet ==
    ASSUME NEW S, 0 \in S, \A n \in Nat : n \in S => n + 1 \in S PROVE Nat \subseteq S
<1> DEFINE Rest == Nat \ S
<1> SUFFICES ASSUME Rest # {} PROVE FALSE
    OBVIOUS
<1>1. PICK least \in Rest : \A n \in Rest : least <= n
    BY NatMinimum
<1>2. least - 1 \in Rest
    OBVIOUS
<1> QED
    BY <1>1, <1>2

\* The least number of a set is one of it, and none is less.
LEMMA MinIs ==
    ASSUME NEW S, S \subseteq Nat, S # {} PROVE Min(S) \in S /\ \A n \in S : Min(S) <= n
BY NatMinimum DEF Min

\* The greater of two numbers, without the choice Max is defined by.
LEMMA MaxOfTwo == ASSUME NEW a \in Int, NEW b \in Int PROVE Max({a, b}) = IF a <= b THEN b ELSE a
<1>1. \A x \in {a, b} : (\A y \in {a, b} : x >= y) <=> x = IF a <= b THEN b ELSE a
    OBVIOUS
<1>2. (IF a <= b THEN b ELSE a) \in {a, b}
    OBVIOUS
<1> QED
    BY <1>1, <1>2 DEF Max

Powers(f, m) == f = [w \in 0..m |-> IF w = 0 THEN 1 ELSE Base * f[w - 1]]

\* The recursion of Power has a solution.
LEMMA PowerFollows == \A w \in 0..Digits : Power[w] = IF w = 0 THEN 1 ELSE Base * Power[w - 1]
<1> DEFINE S == {m \in Nat : \E f : Powers(f, m)}
<1>1. 0 \in S
    <2>1. Powers([w \in 0..0 |-> 1], 0)
        BY DEF Powers
    <2> QED
        BY <2>1
<1>2. ASSUME NEW n \in Nat, n \in S PROVE n + 1 \in S
    <2>1. PICK f : Powers(f, n)
        BY <1>2
    <2> DEFINE g == [w \in 0..n + 1 |-> IF w = n + 1 THEN Base * f[n] ELSE f[w]]
    <2>2. \A w \in 0..n + 1 : g[w] = IF w = 0 THEN 1 ELSE Base * g[w - 1]
        BY <2>1 DEF Powers
    <2>3. Powers(g, n + 1)
        BY <2>2 DEF Powers
    <2> QED
        BY <2>3
<1> HIDE DEF S
<1>3. Digits \in S
    BY <1>1, <1>2, InductiveSet, TextAssumption
<1>4. Power = CHOOSE f : Powers(f, Digits)
    BY DEF Power, Powers
<1>5. Powers(Power, Digits)
    BY <1>3, <1>4 DEF S
<1>6. PICK f : f = Power
    OBVIOUS
<1>7. \A w \in 0..Digits : f[w] = IF w = 0 THEN 1 ELSE Base * f[w - 1]
    BY <1>5, <1>6 DEF Powers
<1> QED
    BY <1>6, <1>7

\* The powers of the base that the widths of numerals come from.
LEMMA PowerIs == /\ Power[1] = Base /\ Power[2] = Base * Base /\ Power[3] = Thousand
                 /\ Power[0] = 1 /\ 0 < Base /\ Base <= Base * Base /\ Base * Base <= Thousand
                 /\ \A w \in 0..Digits : Power[w] \in Nat
<1> DEFINE S == {w \in Nat : w <= Digits => Power[w] \in Nat}
<1>1. Base \in Nat /\ 0 < Base
    BY TextAssumption
<1>2. 0 \in S
    BY PowerFollows, TextAssumption
<1>3. ASSUME NEW n \in Nat, n \in S PROVE n + 1 \in S
    <2> SUFFICES ASSUME n + 1 <= Digits PROVE Power[n + 1] \in Nat
        OBVIOUS
    <2>1. n + 1 \in 0..Digits /\ n <= Digits
        BY TextAssumption
    <2>2. Power[n + 1] = Base * Power[n]
        BY <2>1, PowerFollows
    <2> QED
        BY <1>1, <1>3, <2>1, <2>2
<1> HIDE DEF S
<1>4. Nat \subseteq S
    BY <1>2, <1>3, InductiveSet
<1>5. \A w \in 0..Digits : Power[w] \in Nat
    BY <1>4, TextAssumption DEF S
<1>6. \A w \in 0..3 : w \in 0..Digits
    BY TextAssumption
<1>7. Power[0] = 1 /\ Power[1] = Base * Power[0] /\ Power[2] = Base * Power[1]
      /\ Power[3] = Base * Power[2]
    BY <1>6, PowerFollows
<1>8. Base * (Base * Base) = Base * Base * Base
    BY <1>1
<1>9. Base <= Base * Base
    BY <1>1
<1>10. Base * Base <= Base * Base * Base
    BY <1>1, <1>8, <1>9
<1> QED
    BY <1>1, <1>5, <1>7, <1>8, <1>9, <1>10 DEF Thousand

\* What the bounds say of the units of time and of the greatest 64-bit number.
LEMMA NumbersAre == /\ Sixty \in Nat /\ 0 < Sixty /\ Sixty <= Base * Base
                    /\ Thousand \in Nat /\ 0 < Thousand /\ LongMax \in Nat /\ 1 <= LongMax
                    /\ LongLimit \in Nat /\ LongMax = LongLimit - 1 /\ Base \in Nat
<1>1. Base * Base \in Nat
    BY TextAssumption
<1>2. Sixty \in Nat /\ 0 < Sixty /\ Sixty <= Base * Base
    BY <1>1, TextAssumption
<1>3. Thousand \in Nat
    BY <1>1, TextAssumption DEF Thousand
<1>4. 0 < Thousand
    BY <1>1, <1>2, <1>3, PowerIs, TextAssumption
<1> QED
    BY <1>2, <1>3, <1>4, TextAssumption DEF LongMax

\* A long long is below its limit, and a number it has room for stays as it is.
LEMMA LongIs ==
    ASSUME NEW n \in Int
    PROVE  Long(n) \in Int /\ Long(n) <= LongMax /\ (0 <= n /\ n <= LongMax => Long(n) = n)
<1> DEFINE L == 2 * LongLimit
           m == n + LongLimit
<1>1. L \in Int /\ 0 < L /\ m \in Int
    BY NumbersAre
<1>2. Long(n) = (m % L) - LongLimit
    BY DEF Long, Narrow
<1> HIDE DEF L, m
<1>3. m % L \in Int /\ 0 <= m % L /\ m % L < L
    BY <1>1
<1>4. 0 <= m /\ m < L => m % L = m
    BY <1>1
<1> QED
    BY <1>2, <1>3, <1>4, NumbersAre DEF L, m

\* A number written with as many digits as asked for, or more if it needs them.
LEMMA PaddedIs ==
    ASSUME NEW v \in 0..LongMax, NEW width \in {1, 2, 3}
    PROVE  \E d \in 1..Digits : /\ Padded(v, width) = Numeral(v, d) /\ v < Power[d]
                                /\ v < Power[width] => d = width
<1> DEFINE S == {w \in 1..Digits : v < Power[w]}
<1>1. S \subseteq Nat /\ S # {}
    <2>1. Power[Digits] \in Nat /\ Digits \in 1..Digits
        BY PowerIs, TextAssumption
    <2>2. v < Power[Digits]
        BY <2>1, NumbersAre, TextAssumption
    <2> QED
        BY <2>1, <2>2
<1>2. Min(S) \in S /\ \A w \in S : Min(S) <= w
    BY <1>1, MinIs
<1>3. PICK d : d = Max({width, Min(S)})
    OBVIOUS
<1>4. d = IF width <= Min(S) THEN Min(S) ELSE width
    BY <1>2, <1>3, MaxOfTwo
<1>5. Padded(v, width) = Numeral(v, d)
    BY <1>3 DEF Padded
<1>6. Min(S) \in 1..Digits /\ v < Power[Min(S)]
    BY <1>2
<1>7. v < Power[width] => Min(S) <= width
    BY <1>2, TextAssumption
<1> HIDE DEF S
<1>8. d \in 1..Digits /\ (v < Power[width] => d = width)
    BY <1>4, <1>6, <1>7, TextAssumption
<1>9. v < Power[d]
    <2>1. CASE width <= Min(S)
        BY <1>4, <1>6, <2>1
    <2>2. CASE Min(S) < width
        <3>1. v < Power[Min(S)] /\ Min(S) \in {1, 2} /\ d = width
            BY <1>4, <1>6, <2>2
        <3>2. Power[Min(S)] <= Power[width] /\ Power[Min(S)] \in Nat /\ Power[width] \in Nat
            BY <1>6, <2>2, PowerIs, NumbersAre
        <3> QED
            BY <3>1, <3>2
    <2> QED
        BY <1>6, <2>1, <2>2
<1> QED
    BY <1>5, <1>8, <1>9

-----------------------------------------------------------------------------
(***************************************************************************)
(* Texts: where a separator is found, and what is between two of them.       *)
(***************************************************************************)
Text == Seq(Tokens)

\* A token is its three fields, and a sign nothing but its name.
LEMMA TokenIs ==
    ASSUME NEW t \in Tokens
    PROVE  /\ t = [is |-> t.is, value |-> t.value, width |-> t.width]
           /\ t.value \in Nat /\ t.width \in Nat
           /\ t.is = "digits" => t.value < Power[t.width]
           /\ t.is # "digits" => t = Sign(t.is)
BY DEF Tokens

\* The place of the separator after which nothing was looked at, or 0.
LEMMA FindIs ==
    ASSUME NEW text \in Text, NEW c, NEW from \in Nat \ {0}
    PROVE  LET pos == Find(text, c, from)
           IN  /\ pos # 0 => pos \in from..Len(text) /\ text[pos].is = c
               /\ pos \in Nat
               /\ \A i \in from..Len(text) : text[i].is = c => pos # 0 /\ pos <= i
<1> DEFINE hits == {i \in from..Len(text) : text[i].is = c}
           pos == Find(text, c, from)
<1>1. pos = IF hits = {} THEN 0 ELSE Min(hits)
    BY DEF Find
<1>2. hits \subseteq Nat /\ Len(text) \in Nat
    BY DEF Text
<1>3. hits # {} => Min(hits) \in hits /\ \A i \in hits : Min(hits) <= i
    BY <1>2, MinIs
<1>4. \A i \in hits : i \in from..Len(text) /\ text[i].is = c
    OBVIOUS
<1> HIDE DEF hits, pos
<1>5. pos \in Nat /\ (pos # 0 => pos \in hits)
    BY <1>1, <1>2, <1>3
<1>6. \A i \in hits : pos # 0 /\ pos <= i
    BY <1>1, <1>2, <1>3, <1>4
<1> QED
    BY <1>4, <1>5, <1>6 DEF hits, pos

\* A known first place of the separator is the one found.
LEMMA FoundAt ==
    ASSUME NEW text, Len(text) \in Nat, NEW c, NEW from \in Nat \ {0}, NEW pos \in from..Len(text),
           text[pos].is = c, \A i \in from..pos - 1 : text[i].is # c
    PROVE  Find(text, c, from) = pos
<1> DEFINE hits == {i \in from..Len(text) : text[i].is = c}
<1>1. pos \in hits /\ hits \subseteq Nat
    OBVIOUS
<1>2. Min(hits) \in hits /\ Min(hits) <= pos
    BY <1>1, MinIs
<1>3. Min(hits) = pos
    BY <1>2
<1> QED
    BY <1>1, <1>3 DEF Find

\* A separator that is nowhere is not found.
LEMMA NotFound ==
    ASSUME NEW text, NEW c, NEW from, \A i \in from..Len(text) : text[i].is # c
    PROVE  Find(text, c, from) = 0
BY DEF Find

\* A part of a text is a text, token by token.
LEMMA BeforeIs ==
    ASSUME NEW text \in Text, NEW from \in Nat \ {0}, NEW end \in Nat, end <= Len(text) + 1
    PROVE  /\ Before(text, from, end) \in Text
           /\ from <= end => Len(Before(text, from, end)) = end - from
           /\ from < end => Before(text, from, end)[1] = text[from]
<1>1. Len(text) \in Nat /\ end - 1 \in Int /\ \A i \in 1..Len(text) : text[i] \in Tokens
    BY DEF Text
<1>2. \A i \in from..end - 1 : text[i] \in Tokens
    BY <1>1
<1> QED
    BY <1>1, <1>2, SubSeqProperties DEF Before, Text

\* What is after a place is a text too.
LEMMA AfterIs ==
    ASSUME NEW text \in Text, NEW pos \in Nat, pos <= Len(text)
    PROVE  /\ After(text, pos) \in Text
           /\ Len(After(text, pos)) = Len(text) - pos
           /\ pos < Len(text) => After(text, pos)[1] = text[pos + 1]
<1>1. Len(text) \in Nat /\ \A i \in 1..Len(text) : text[i] \in Tokens
    BY DEF Text
<1>2. \A i \in pos + 1..Len(text) : text[i] \in Tokens
    BY <1>1
<1> QED
    BY <1>1, <1>2, SubSeqProperties DEF After, Text

\* A field of one token: between separators next to it, or after the last one.
LEMMA FieldAt ==
    ASSUME NEW text \in Text, NEW i \in 1..Len(text), NEW j, j = i + 1
    PROVE  Len(Before(text, i, j)) = 1 /\ Before(text, i, j)[1] = text[i]
<1>1. /\ Len(text) \in Nat /\ i \in Nat \ {0} /\ j \in Nat /\ i < j /\ i <= j
      /\ j <= Len(text) + 1 /\ j - i = 1
    BY DEF Text
<1>2. Len(Before(text, i, j)) = j - i /\ Before(text, i, j)[1] = text[i]
    BY <1>1, BeforeIs, Zenon
<1> QED
    BY <1>1, <1>2

\* After the last separator but one token there is that token.
LEMMA LastField ==
    ASSUME NEW text \in Text, NEW pos \in Nat, NEW last, last = pos + 1, Len(text) = last
    PROVE  Len(After(text, pos)) = 1 /\ After(text, pos)[1] = text[last]
<1>1. pos <= Len(text) /\ pos < Len(text) /\ Len(text) - pos = 1
    OBVIOUS
<1>2. Len(After(text, pos)) = Len(text) - pos /\ After(text, pos)[1] = text[pos + 1]
    BY <1>1, AfterIs, Zenon
<1> QED
    BY <1>1, <1>2

\* A field of digits is one numeral, of a number that fits.
LEMMA FieldIs ==
    ASSUME NEW part \in Text, NEW v \in ParseDigitsField(part)
    PROVE  /\ v \in 0..LongMax /\ Len(part) = 1 /\ part[1].is = "digits" /\ part[1].value = v
           /\ part[1] \in Tokens /\ Size(part) = part[1].width
<1>1. Len(part) = 1 /\ part[1].is = "digits" /\ part[1].value = v /\ v <= LongMax
    BY DEF ParseDigitsField
<1>2. part[1] \in Tokens
    BY <1>1 DEF Text
<1> QED
    BY <1>1, <1>2, TokenIs, NumbersAre DEF Size

-----------------------------------------------------------------------------
(***************************************************************************)
(* Ranges: whatever text they are read from, they lie forward.               *)
(***************************************************************************)
Ranges == {r \in [start : Nat, end : Nat] : r.start < r.end /\ r.end <= LongMax}

\* SkipRange::Create makes no range but a forward one.
LEMMA CreateIsForward ==
    ASSUME NEW start \in Int, NEW end \in Int, end <= LongMax, NEW r \in Create(start, end)
    PROVE  r \in Ranges
BY NumbersAre DEF Create, Ranges

\* A duration may be any 64-bit number, below 0 when it wraps, and none beyond.
LEMMA DurationIs ==
    ASSUME NEW h \in Int, NEW m \in Int, NEW s \in Int, NEW ms \in Int
    PROVE  Duration(h, m, s, ms) \in Int /\ Duration(h, m, s, ms) <= LongMax
<1>1. h * Sixty \in Int
    BY NumbersAre
<1>2. Long(h * Sixty) + m \in Int
    BY <1>1, LongIs
<1>3. Long(Long(h * Sixty) + m) * Sixty + s \in Int
    BY <1>2, LongIs, NumbersAre
<1>4. Long(Long(Long(h * Sixty) + m) * Sixty + s) * Thousand + ms \in Int
    BY <1>3, LongIs, NumbersAre
<1> QED
    BY <1>4, LongIs DEF Duration

\* A fraction of a second is a number of milliseconds.
LEMMA FractionIs ==
    ASSUME NEW text \in Text, NEW dot \in 0..Len(text), NEW f \in Fraction(text, dot) PROVE f \in Int
<1>1. CASE dot = 0
    BY <1>1 DEF Fraction
<1>2. CASE dot # 0
    <2> DEFINE digits == After(text, dot)
    <2>1. digits \in Text
        BY AfterIs
    <2> HIDE DEF digits
    <2>2. PICK v \in ParseDigitsField(digits) : Size(digits) <= 3 /\ f = v * Power[3 - Size(digits)]
        <3>1. Size(digits) \in Int
            BY <2>1, FieldIs, TokenIs, <1>2 DEF Fraction, digits, Size, Text
        <3> QED
            BY <1>2, <3>1 DEF Fraction, digits
    <2>3. v \in Int /\ Size(digits) \in Nat
        BY <2>1, FieldIs, TokenIs
    <2>4. 3 - Size(digits) \in 0..Digits
        BY <2>2, <2>3, TextAssumption
    <2>5. Power[3 - Size(digits)] \in Nat
        BY <2>4, PowerIs
    <2> QED
        BY <2>2, <2>3, <2>5
<1> QED
    BY <1>1, <1>2

\* A typed time is a 64-bit number, whatever is typed.
LEMMA HumanTimecodeIs ==
    ASSUME NEW text \in Text, NEW t \in ParseHumanTimecode(text) PROVE t \in Int /\ t <= LongMax
<1> DEFINE dot == Find(text, ".", 1)
           whole == IF dot = 0 THEN text ELSE Before(text, 1, dot)
           c1 == Find(whole, ":", 1)
           c2 == IF c1 = 0 THEN 0 ELSE Find(whole, ":", c1 + 1)
           hours == IF c2 = 0 THEN {0} ELSE ParseDigitsField(Before(whole, 1, c1))
           minutes == IF c1 = 0 THEN {0} ELSE ParseDigitsField(Before(whole, IF c2 = 0 THEN 1 ELSE c1 + 1,
                                                                      IF c2 = 0 THEN c1 ELSE c2))
           seconds == ParseDigitsField(After(whole, Max({c1, c2})))
<1>1. PICK h \in hours, f \in Fraction(text, dot), m \in minutes, s \in seconds :
          t = Duration(h, m, s, f)
    BY DEF ParseHumanTimecode
<1>2. dot \in 0..Len(text)
    BY FindIs DEF Text
<1>3. whole \in Text
    BY <1>2, BeforeIs DEF Text
<1> HIDE DEF whole
<1>4. c1 \in 0..Len(whole)
    BY <1>3, FindIs DEF Text
<1>5. c2 \in 0..Len(whole) /\ (c2 = 0 \/ c1 < c2)
    BY <1>3, <1>4, FindIs DEF Text
<1> HIDE DEF dot, c1, c2
<1>6. Max({c1, c2}) \in 0..Len(whole)
    BY <1>4, <1>5, MaxOfTwo
<1>7. h \in Int
    BY <1>3, <1>4, <1>5, BeforeIs, FieldIs DEF Text
<1>8. m \in Int
    <2>1. CASE c1 = 0
        BY <2>1
    <2>2. CASE c1 # 0 /\ c2 = 0
        BY <1>3, <1>4, <2>2, BeforeIs, FieldIs DEF Text
    <2>3. CASE c1 # 0 /\ c2 # 0
        BY <1>3, <1>4, <1>5, <2>3, BeforeIs, FieldIs DEF Text
    <2> QED
        BY <2>1, <2>2, <2>3
<1>9. s \in Int
    BY <1>3, <1>6, AfterIs, FieldIs DEF Text
<1>10. f \in Int
    BY <1>2, FractionIs
<1> QED
    BY <1>1, <1>7, <1>8, <1>9, <1>10, DurationIs

\* A typed range lies forward, whatever is typed.
LEMMA HumanRangeIs ==
    ASSUME NEW text \in Text, NEW r \in ParseHumanRange(text) PROVE r \in Ranges
<1> DEFINE at(c) == Find(text, c, 1)
           pos == IF at("->") # 0 THEN at("->") ELSE IF at("~") # 0 THEN at("~") ELSE at("-")
<1>1. pos \in 0..Len(text)
    BY FindIs DEF Text
<1>2. pos # 0 /\ \E a \in ParseHumanTimecode(Before(text, 1, pos)),
                    b \in ParseHumanTimecode(After(text, pos)) : r \in Create(a, b)
    BY DEF ParseHumanRange
<1> HIDE DEF pos
<1>3. Before(text, 1, pos) \in Text /\ After(text, pos) \in Text
    BY <1>1, BeforeIs, AfterIs DEF Text
<1> QED
    BY <1>2, <1>3, HumanTimecodeIs, CreateIsForward

\* A line that parses has three separators, so three tokens, and gives a range.
LEMMA PbfLineIs ==
    ASSUME NEW line \in Text, NEW e \in ParsePbfLine(line) PROVE e.range \in Ranges /\ Len(line) >= 3
<1> DEFINE eq == Find(line, "=", 1)
           star1 == Find(line, "*", eq + 1)
           star2 == Find(line, "*", star1 + 1)
<1>1. eq # 0 /\ star1 # 0 /\ star2 # 0
    BY DEF ParsePbfLine
<1>2. PICK start \in ParseDigitsField(Before(line, star1 + 1, star2)),
           length \in ParseDigitsField(After(line, star2)) :
              e.range \in Create(start, Long(start + length))
    BY <1>1 DEF ParsePbfLine
<1>3. eq \in 1..Len(line)
    BY <1>1, FindIs
<1>4. star1 \in eq + 1..Len(line)
    BY <1>1, <1>3, FindIs
<1>5. star2 \in star1 + 1..Len(line)
    BY <1>1, <1>3, <1>4, FindIs
<1> HIDE DEF eq, star1, star2
<1>6. Len(line) \in Nat
    BY DEF Text
<1>7. Before(line, star1 + 1, star2) \in Text /\ After(line, star2) \in Text
    BY <1>3, <1>4, <1>5, <1>6, BeforeIs, AfterIs
<1>8. start \in Int /\ length \in Int
    BY <1>2, <1>7, FieldIs
<1>9. Long(start + length) \in Int /\ Long(start + length) <= LongMax
    BY <1>8, LongIs
<1> QED
    BY <1>2, <1>3, <1>4, <1>5, <1>6, <1>8, <1>9, CreateIsForward

-----------------------------------------------------------------------------
(***************************************************************************)
(* Sections: the lines that are entries, found one line at a time.           *)
(***************************************************************************)
Keeps(f, content, m) ==
    f = [n \in 0..m |-> IF n = 0 THEN <<>>
                        ELSE IF IsEntry(content[n]) THEN Append(f[n - 1], content[n]) ELSE f[n - 1]]

\* There is a function that keeps the entries line by line.
LEMMA KeepsExists ==
    ASSUME NEW content, NEW m \in Nat PROVE \E f : Keeps(f, content, m)
<1> DEFINE S == {n \in Nat : \E f : Keeps(f, content, n)}
<1>1. 0 \in S
    <2>1. Keeps([n \in 0..0 |-> <<>>], content, 0)
        BY DEF Keeps
    <2> QED
        BY <2>1
<1>2. ASSUME NEW n \in Nat, n \in S PROVE n + 1 \in S
    <2>1. PICK f : Keeps(f, content, n)
        BY <1>2
    <2> DEFINE line == content[n + 1]
               g == [i \in 0..n + 1 |->
                        IF i = n + 1 THEN IF IsEntry(line) THEN Append(f[n], line) ELSE f[n] ELSE f[i]]
    <2>2. \A i \in 0..n + 1 :
             g[i] = IF i = 0 THEN <<>>
                    ELSE IF IsEntry(content[i]) THEN Append(g[i - 1], content[i]) ELSE g[i - 1]
        <3> DEFINE next(i) == IF i = 0 THEN <<>>
                              ELSE IF IsEntry(content[i]) THEN Append(f[i - 1], content[i]) ELSE f[i - 1]
        <3>0. f = [i \in 0..n |-> next(i)]
            BY <2>1 DEF Keeps
        <3>1. \A i \in 0..n : g[i] = f[i] /\ f[i] = next(i)
            <4>1. \A i \in 0..n : g[i] = f[i]
                OBVIOUS
            <4> HIDE DEF g, next
            <4> QED
                BY <3>0, <4>1
        <3>2. \A i \in 1..n : g[i - 1] = f[i - 1]
            OBVIOUS
        <3>3. g[n + 1] = IF IsEntry(line) THEN Append(g[n], line) ELSE g[n]
            OBVIOUS
        <3> HIDE DEF g
        <3>4. \A i \in 0..n + 1 : i = 0 \/ i \in 1..n \/ i = n + 1
            OBVIOUS
        <3>5. 0 \in 0..n /\ n + 1 - 1 = n /\ \A i \in 1..n : i \in 0..n /\ i # 0
            OBVIOUS
        <3> QED
            BY <3>1, <3>2, <3>3, <3>4, <3>5
    <2>3. Keeps(g, content, n + 1)
        BY <2>2 DEF Keeps
    <2> QED
        BY <2>3
<1> HIDE DEF S
<1>3. Nat \subseteq S
    BY <1>1, <1>2, InductiveSet
<1> QED
    BY <1>3 DEF S

\* What is kept of the first n lines of a section, and what of all of them.
Kept(kept, content) ==
    /\ Entries(content) = kept[Len(content)] /\ kept[0] = <<>>
    /\ \A n \in 1..Len(content) :
          kept[n] = IF IsEntry(content[n]) THEN Append(kept[n - 1], content[n]) ELSE kept[n - 1]

\* Entries is that function at the last line.
LEMMA EntriesFollow ==
    ASSUME NEW content, Len(content) \in Nat PROVE \E kept : Kept(kept, content)
<1> DEFINE f == CHOOSE f : Keeps(f, content, Len(content))
<1>1. Entries(content) = f[Len(content)]
    BY DEF Entries, Keeps
<1>2. Keeps(f, content, Len(content))
    BY KeepsExists
<1> HIDE DEF f
<1>3. \A n \in 0..Len(content) :
          f[n] = IF n = 0 THEN <<>>
                 ELSE IF IsEntry(content[n]) THEN Append(f[n - 1], content[n]) ELSE f[n - 1]
    BY <1>2 DEF Keeps
<1>4. Kept(f, content)
    BY <1>1, <1>3 DEF Kept
<1> QED
    BY <1>4

\* The entries are lines of the section, and every line that is one is there.
LEMMA EntriesAre ==
    ASSUME NEW content \in Seq(Text)
    PROVE  /\ Entries(content) \in Seq(Text)
           /\ \A j \in 1..Len(content) : IsEntry(content[j]) =>
                 \E i \in 1..Len(Entries(content)) : Entries(content)[i] = content[j]
<1> DEFINE has(t, j) == \E i \in 1..Len(t) : t[i] = content[j]
           good(t, n) == t \in Seq(Text) /\ \A j \in 1..n : IsEntry(content[j]) => has(t, j)
<1>1. PICK kept : Kept(kept, content)
    BY EntriesFollow
<1> DEFINE S == {n \in Nat : n <= Len(content) => good(kept[n], n)}
<1>2. 0 \in S
    <2>1. kept[0] = <<>>
        BY <1>1 DEF Kept
    <2>2. good(<<>>, 0)
        OBVIOUS
    <2> HIDE DEF good
    <2> QED
        BY <2>1, <2>2
<1>3. ASSUME NEW n \in Nat, n \in S PROVE n + 1 \in S
    <2> SUFFICES ASSUME n + 1 <= Len(content) PROVE good(kept[n + 1], n + 1)
        OBVIOUS
    <2> DEFINE old == kept[n]
               line == content[n + 1]
    <2>1. n + 1 \in 1..Len(content) /\ n <= Len(content) /\ n + 1 - 1 = n /\ line \in Text
        OBVIOUS
    <2>2. kept[n + 1] = IF IsEntry(line) THEN Append(old, line) ELSE old
        BY <1>1, <2>1 DEF Kept
    <2>3. good(old, n)
        BY <1>3, <2>1
    <2>4. \A j \in 1..n + 1 : j \in 1..n \/ j = n + 1
        OBVIOUS
    <2> HIDE DEF old
    <2>5. CASE IsEntry(line)
        <3>1. /\ Append(old, line) \in Seq(Text) /\ Len(Append(old, line)) = Len(old) + 1
              /\ Append(old, line)[Len(old) + 1] = line
              /\ \A i \in 1..Len(old) : Append(old, line)[i] = old[i]
            BY <2>1, <2>3
        <3>2. \A j \in 1..n : has(old, j) => has(Append(old, line), j)
            BY <2>3, <3>1
        <3>3. has(Append(old, line), n + 1)
            BY <2>3, <3>1
        <3> QED
            BY <2>2, <2>3, <2>4, <2>5, <3>1, <3>2, <3>3
    <2>6. CASE ~IsEntry(line)
        BY <2>2, <2>3, <2>4, <2>6
    <2> QED
        BY <2>5, <2>6
<1> HIDE DEF S
<1>4. Nat \subseteq S
    BY <1>2, <1>3, InductiveSet
<1>5. good(kept[Len(content)], Len(content))
    BY <1>4 DEF S
<1> QED
    BY <1>1, <1>5 DEF Kept

\* Lines that are no entries do not count.
Below(n, a) == IF a <= n THEN 1 ELSE 0
\* Two lines that are no entries leave as many fewer entries.
LEMMA OthersAreFewer ==
    ASSUME NEW content \in Seq(Text), NEW a \in Nat \ {0}, NEW b \in Nat \ {0}, a # b,
           \A i \in {a, b} : i <= Len(content) => ~IsEntry(content[i])
    PROVE  Len(Entries(content)) <= Len(content) - Below(Len(content), a) - Below(Len(content), b)
<1>1. PICK kept : Kept(kept, content)
    BY EntriesFollow
<1> DEFINE good(t, n) == t \in Seq(Text) /\ Len(t) <= n - Below(n, a) - Below(n, b)
           S == {n \in Nat : n <= Len(content) => good(kept[n], n)}
<1>2. 0 \in S
    <2>1. kept[0] = <<>>
        BY <1>1 DEF Kept
    <2>2. good(<<>>, 0)
        BY DEF Below
    <2> HIDE DEF good
    <2> QED
        BY <2>1, <2>2
<1>3. ASSUME NEW n \in Nat, n \in S PROVE n + 1 \in S
    <2> SUFFICES ASSUME n + 1 <= Len(content) PROVE good(kept[n + 1], n + 1)
        OBVIOUS
    <2> DEFINE old == kept[n]
               line == content[n + 1]
    <2>1. n + 1 \in 1..Len(content) /\ n <= Len(content) /\ n + 1 - 1 = n /\ line \in Text
        OBVIOUS
    <2>2. kept[n + 1] = IF IsEntry(line) THEN Append(old, line) ELSE old
        BY <1>1, <2>1 DEF Kept
    <2>3. good(old, n)
        BY <1>3, <2>1
    <2> HIDE DEF old
    <2>4. CASE n + 1 \in {a, b}
        <3>1. ~IsEntry(line)
            BY <2>1, <2>4
        <3>2. Below(n + 1, a) + Below(n + 1, b) = Below(n, a) + Below(n, b) + 1
            BY <2>4 DEF Below
        <3>3. /\ Below(n, a) \in Int /\ Below(n + 1, a) \in Int
              /\ Below(n, b) \in Int /\ Below(n + 1, b) \in Int
            BY DEF Below
        <3>4. kept[n + 1] = old /\ Len(old) \in Int
            BY <2>2, <2>3, <3>1
        <3>5. old \in Seq(Text) /\ Len(old) <= n - Below(n, a) - Below(n, b)
            BY <2>3
        <3>6. PICK p, q, pp, qq : /\ p = Below(n, a) /\ q = Below(n, b)
                                  /\ pp = Below(n + 1, a) /\ qq = Below(n + 1, b)
            OBVIOUS
        <3>7. p \in Int /\ q \in Int /\ pp \in Int /\ qq \in Int /\ pp + qq = p + q + 1
            BY <3>2, <3>3, <3>6
        <3>8. Len(old) \in Int /\ Len(old) <= n - p - q
            BY <3>4, <3>5, <3>6
        <3>9. Len(old) <= (n + 1) - pp - qq
            BY <3>7, <3>8
        <3>10. Len(old) <= (n + 1) - Below(n + 1, a) - Below(n + 1, b)
            BY <3>6, <3>9, Zenon
        <3>11. good(old, n + 1)
            BY <3>5, <3>10, Zenon
        <3> QED
            BY <3>4, <3>11, Zenon
    <2>5. CASE n + 1 \notin {a, b}
        <3>1. Below(n + 1, a) = Below(n, a) /\ Below(n + 1, b) = Below(n, b)
            BY <2>5 DEF Below
        <3>2. Below(n, a) \in Int /\ Below(n, b) \in Int
            BY DEF Below
        <3>3. Append(old, line) \in Seq(Text) /\ Len(Append(old, line)) = Len(old) + 1
              /\ Len(old) \in Int
            BY <2>1, <2>3
        <3> QED
            BY <2>2, <2>3, <3>1, <3>2, <3>3
    <2> QED
        BY <2>4, <2>5
<1> HIDE DEF S
<1>4. Nat \subseteq S
    BY <1>2, <1>3, InductiveSet
<1>5. good(kept[Len(content)], Len(content))
    BY <1>4 DEF S
<1> QED
    BY <1>1, <1>5 DEF Kept

\* What a section is read as: a range for each entry, all of them forward.
LEMMA SectionIs ==
    ASSUME NEW content \in Seq(Text), NEW list \in ParsePlaySkipSection(content)
    PROVE  /\ list \in Seq(Ranges) /\ Len(list) = Len(Entries(content))
           /\ \A j \in 1..Len(content) : IsEntry(content[j]) => Len(content[j]) >= 3
<1> DEFINE lines == Entries(content)
           range(i) == (CHOOSE e \in ParsePbfLine(lines[i]) : TRUE).range
<1>1. lines \in Seq(Text)
    BY EntriesAre
<1>2. /\ \A i \in DOMAIN lines : ParsePbfLine(lines[i]) # {}
      /\ list = [i \in DOMAIN lines |-> range(i)]
    BY DEF ParsePlaySkipSection
<1>3. \A j \in 1..Len(content) : IsEntry(content[j]) => \E i \in 1..Len(lines) : lines[i] = content[j]
    BY EntriesAre
<1> HIDE DEF lines
<1>4. DOMAIN lines = 1..Len(lines) /\ Len(lines) \in Nat /\ \A i \in 1..Len(lines) : lines[i] \in Text
    BY <1>1
<1>5. ASSUME NEW i \in 1..Len(lines) PROVE range(i) \in Ranges /\ Len(lines[i]) >= 3
    <2>1. (CHOOSE e \in ParsePbfLine(lines[i]) : TRUE) \in ParsePbfLine(lines[i])
        BY <1>2, <1>4
    <2> QED
        BY <1>4, <2>1, PbfLineIs
<1>6. list \in [1..Len(lines) -> Ranges]
    BY <1>2, <1>4, <1>5
<1>7. list \in Seq(Ranges) /\ Len(list) = Len(lines)
    BY <1>4, <1>6
<1> QED
    BY <1>3, <1>5, <1>7 DEF lines

-----------------------------------------------------------------------------
(***************************************************************************)
(* Back from a section that was built.                                       *)
(***************************************************************************)
LEMMA SignIs == ASSUME NEW c \in Signs PROVE Sign(c) \in Tokens /\ Sign(c).is = c
BY DEF Tokens, Sign, Signs

\* A 64-bit number is written as one numeral with its value.
LEMMA ToStringIs ==
    ASSUME NEW v \in 0..LongMax
    PROVE  ToString(v) \in Tokens /\ ToString(v).is = "digits" /\ ToString(v).value = v
<1>1. PICK d \in 1..Digits : Padded(v, 1) = Numeral(v, d) /\ v < Power[d]
    BY PaddedIs
<1>2. v \in Nat /\ d \in Nat
    BY NumbersAre, TextAssumption
<1> QED
    BY <1>1, <1>2 DEF ToString, Numeral, Tokens

\* A field of one numeral is read as its value.
LEMMA OneDigits ==
    ASSUME NEW part, Len(part) = 1, part[1].is = "digits", part[1].value <= LongMax
    PROVE  ParseDigitsField(part) = {part[1].value}
BY DEF ParseDigitsField

\* The line of a range is an entry, and reads back as the range.
LEMMA EntryReadsBack ==
    ASSUME NEW index \in 0..LongMax, NEW r \in Ranges
    PROVE  LET line == SerializePbfLine(index, FileSpecificType, r)
           IN  /\ line \in Text /\ IsEntry(line)
               /\ ParsePbfLine(line) # {} /\ \A e \in ParsePbfLine(line) : e.range = r
<1> DEFINE line == SerializePbfLine(index, FileSpecificType, r)
           length == r.end - r.start
<1>1. /\ r = [start |-> r.start, end |-> r.end]
      /\ r.start \in 0..LongMax /\ r.end \in 0..LongMax /\ length \in 0..LongMax
      /\ r.start + length = r.end /\ r.start < r.end
    BY NumbersAre DEF Ranges
<1>2. FileSpecificType \in 0..LongMax
    BY NumbersAre DEF FileSpecificType
<1> HIDE DEF length
<1>3. PICK i, t, s, l : /\ i = ToString(index) /\ t = ToString(FileSpecificType)
                        /\ s = ToString(r.start) /\ l = ToString(length)
    OBVIOUS
<1>4. line = <<i, Sign("="), t, Sign("*"), s, Sign("*"), l>>
    BY <1>3 DEF SerializePbfLine, length
<1>5. /\ i \in Tokens /\ i.is = "digits" /\ i.value = index
      /\ t \in Tokens /\ t.is = "digits" /\ t.value = FileSpecificType
      /\ s \in Tokens /\ s.is = "digits" /\ s.value = r.start
      /\ l \in Tokens /\ l.is = "digits" /\ l.value = length
    BY <1>1, <1>2, <1>3, ToStringIs
<1>6. /\ Sign("=") \in Tokens /\ Sign("=").is = "=" /\ Sign("*") \in Tokens /\ Sign("*").is = "*"
    BY SignIs DEF Signs
<1> HIDE DEF line
<1>7. line \in Text /\ Len(line) = 7
    BY <1>4, <1>5, <1>6 DEF Text
<1>8. /\ line[1] = i /\ line[2] = Sign("=") /\ line[3] = t /\ line[4] = Sign("*")
      /\ line[5] = s /\ line[6] = Sign("*") /\ line[7] = l
    BY <1>4
<1>9. Find(line, "=", 1) = 2 /\ Find(line, "*", 2 + 1) = 4 /\ Find(line, "*", 4 + 1) = 6
    <2>1. Find(line, "=", 1) = 2
        <3>1. \A n \in 1..2 - 1 : line[n].is # "="
            BY <1>5, <1>8
        <3> QED
            BY <1>6, <1>7, <1>8, <3>1, FoundAt
    <2>2. Find(line, "*", 3) = 4
        <3>1. \A n \in 3..4 - 1 : line[n].is # "*"
            BY <1>5, <1>8
        <3> QED
            BY <1>6, <1>7, <1>8, <3>1, FoundAt
    <2>3. Find(line, "*", 5) = 6
        <3>1. \A n \in 5..6 - 1 : line[n].is # "*"
            BY <1>5, <1>8
        <3> QED
            BY <1>6, <1>7, <1>8, <3>1, FoundAt
    <2> QED
        BY <2>1, <2>2, <2>3
<1>10. /\ Len(Before(line, 1, 2)) = 1 /\ Before(line, 1, 2)[1] = i
       /\ Len(Before(line, 3, 4)) = 1 /\ Before(line, 3, 4)[1] = t
       /\ Len(Before(line, 5, 6)) = 1 /\ Before(line, 5, 6)[1] = s
       /\ Len(After(line, 6)) = 1 /\ After(line, 6)[1] = l
    <2>1. /\ 3 \in 1..Len(line) /\ 4 = 3 + 1
          /\ 5 \in 1..Len(line) /\ 6 = 5 + 1 /\ 6 \in Nat /\ 7 = 6 + 1
        BY <1>7
    <2>2. Len(Before(line, 1, 2)) = 1 /\ Before(line, 1, 2)[1] = line[1]
        BY <1>7, FieldAt
    <2>3. Len(Before(line, 3, 4)) = 1 /\ Before(line, 3, 4)[1] = line[3]
        BY <1>7, <2>1, FieldAt, Zenon
    <2>4. Len(Before(line, 5, 6)) = 1 /\ Before(line, 5, 6)[1] = line[5]
        BY <1>7, <2>1, FieldAt, Zenon
    <2>5. Len(After(line, 6)) = 1 /\ After(line, 6)[1] = line[7]
        BY <1>7, <2>1, LastField, Zenon
    <2> QED
        BY <1>8, <2>2, <2>3, <2>4, <2>5
<1>11. /\ ParseDigitsField(Before(line, 1, 2)) = {index}
       /\ ParseDigitsField(Before(line, 2 + 1, 4)) = {FileSpecificType}
       /\ ParseDigitsField(Before(line, 4 + 1, 6)) = {r.start}
       /\ ParseDigitsField(After(line, 6)) = {length}
    BY <1>1, <1>2, <1>5, <1>10, OneDigits
<1>12. Create(r.start, Long(r.start + length)) = {r}
    <2>1. Long(r.end) = r.end
        BY <1>1, LongIs, NumbersAre
    <2> QED
        BY <1>1, <2>1, NumbersAre DEF Create
<1>13. ParsePbfLine(line) =
          {[index |-> Narrow(n, IntLimit), type |-> Narrow(m, IntLimit), range |-> x] :
              n \in {index}, m \in {FileSpecificType},
              x \in UNION {Create(start, Long(start + len)) : start \in {r.start}, len \in {length}}}
    BY <1>9, <1>11 DEF ParsePbfLine
<1>14. UNION {Create(start, Long(start + len)) : start \in {r.start}, len \in {length}} = {r}
    BY <1>12
<1>15. ParsePbfLine(line) =
          {[index |-> Narrow(index, IntLimit), type |-> Narrow(FileSpecificType, IntLimit), range |-> r]}
    BY <1>13, <1>14
<1>16. IsEntry(line)
    BY <1>7, <1>9 DEF IsEntry, IsTerminator, Header
<1> QED
    BY <1>7, <1>15, <1>16 DEF line

\* The lines of a built section.
LEMMA BuiltIs ==
    ASSUME NEW list \in Seq(Ranges), Len(list) <= LongMax
    PROVE  LET content == BuildPlaySkipSection(list)
           IN  /\ content \in Seq(Text) /\ Len(content) = Len(list) + 2
               /\ content[1] = Header /\ Len(content[Len(list) + 2]) = 2
               /\ ~IsEntry(content[1]) /\ ~IsEntry(content[Len(list) + 2])
               /\ \A i \in 1..Len(list) :
                     content[i + 1] = SerializePbfLine(i - 1, FileSpecificType, list[i])
<1> DEFINE content == BuildPlaySkipSection(list)
           line(i) == SerializePbfLine(i - 1, FileSpecificType, list[i])
           lines == [i \in DOMAIN list |-> line(i)]
           end == <<ToString(Len(list)), Sign("=")>>
<1>1. Len(list) \in 0..LongMax /\ \A i \in 1..Len(list) : i - 1 \in 0..LongMax /\ list[i] \in Ranges
    BY NumbersAre
<1>2. \A i \in 1..Len(list) : line(i) \in Text
    BY <1>1, EntryReadsBack
<1> HIDE DEF line
<1>3. lines \in Seq(Text) /\ Len(lines) = Len(list) /\ \A i \in 1..Len(list) : lines[i] = line(i)
    BY <1>2
<1>4. end \in Text /\ Len(end) = 2 /\ end[1].is = "digits" /\ end[2].is = "="
    BY <1>1, ToStringIs, SignIs DEF Text, Signs
<1>5. Header \in Text
    BY SignIs DEF Header, Text, Signs
<1> HIDE DEF lines, end
<1>6. content = <<Header>> \o lines \o <<end>>
    BY DEF BuildPlaySkipSection, lines, end, line
<1>7. /\ content \in Seq(Text) /\ Len(content) = Len(list) + 2
      /\ content[1] = Header /\ content[Len(list) + 2] = end
      /\ \A i \in 1..Len(list) : content[i + 1] = line(i)
    BY <1>1, <1>3, <1>4, <1>5, <1>6
<1>8. ~IsEntry(end)
    <2>1. Find(end, "=", 1) = 2
        <3>1. \A n \in 1..2 - 1 : end[n].is # "="
            BY <1>4
        <3> QED
            BY <1>4, <3>1, FoundAt
    <2> QED
        BY <1>4, <2>1 DEF IsEntry, IsTerminator
<1>9. ~IsEntry(Header)
    BY DEF IsEntry
<1> HIDE DEF content
<1> QED
    BY <1>4, <1>7, <1>8, <1>9 DEF content, line

\* A section reads back as the list it was built from.
LEMMA SectionRoundTrip ==
    ASSUME NEW list \in Seq(Ranges), Len(list) <= LongMax
    PROVE  ParsePlaySkipSection(BuildPlaySkipSection(list)) = {list}
<1>1. PICK content : content = BuildPlaySkipSection(list)
    OBVIOUS
<1>2. /\ content \in Seq(Text) /\ Len(content) = Len(list) + 2 /\ Len(list) \in Nat
      /\ ~IsEntry(content[1]) /\ ~IsEntry(content[Len(list) + 2])
      /\ \A i \in 1..Len(list) : content[i + 1] = SerializePbfLine(i - 1, FileSpecificType, list[i])
    BY <1>1, BuiltIs
<1>3. ASSUME NEW i \in 1..Len(list)
      PROVE  /\ content[i + 1] \in Text /\ IsEntry(content[i + 1]) /\ ParsePbfLine(content[i + 1]) # {}
             /\ \A e \in ParsePbfLine(content[i + 1]) : e.range = list[i]
    <2>1. i - 1 \in 0..LongMax /\ list[i] \in Ranges
        BY NumbersAre
    <2> QED
        BY <1>2, <2>1, EntryReadsBack
<1>4. PICK kept : Kept(kept, content)
    BY <1>2, EntriesFollow
<1> DEFINE good(t, n) == /\ t \in Seq(Text) /\ Len(t) = n
                         /\ \A i \in 1..n : t[i] = content[i + 1]
           S == {n \in Nat : n <= Len(list) => good(kept[n + 1], n)}
<1>5. 0 \in S
    <2>1. kept[0] = <<>> /\ kept[1] = kept[0]
        BY <1>2, <1>4 DEF Kept
    <2>2. good(<<>>, 0)
        OBVIOUS
    <2> HIDE DEF good
    <2> QED
        BY <2>1, <2>2
<1>6. ASSUME NEW n \in Nat, n \in S PROVE n + 1 \in S
    <2> SUFFICES ASSUME n + 1 <= Len(list) PROVE good(kept[n + 1 + 1], n + 1)
        OBVIOUS
    <2> DEFINE old == kept[n + 1]
               line == content[n + 1 + 1]
    <2>1. n + 1 \in 1..Len(list) /\ n + 2 \in 1..Len(content) /\ n <= Len(list)
        BY <1>2
    <2>2. IsEntry(line) /\ line \in Text
        BY <1>3, <2>1
    <2>3. kept[n + 1 + 1] = Append(old, line)
        <3>1. PICK m : m = n + 2
            OBVIOUS
        <3>2. n + 1 + 1 = m /\ m - 1 = n + 1 /\ m \in 1..Len(content)
            BY <2>1, <3>1
        <3>3. kept[m] = IF IsEntry(content[m]) THEN Append(kept[m - 1], content[m]) ELSE kept[m - 1]
            BY <1>4, <3>2 DEF Kept
        <3> QED
            BY <2>2, <3>2, <3>3 DEF old, line
    <2>4. good(old, n)
        BY <1>6, <2>1
    <2> HIDE DEF old, line
    <2>5. /\ Append(old, line) \in Seq(Text) /\ Len(Append(old, line)) = n + 1
          /\ Append(old, line)[n + 1] = line
          /\ \A i \in 1..n : Append(old, line)[i] = old[i]
        BY <2>2, <2>4
    <2>6. \A i \in 1..n + 1 : i \in 1..n \/ i = n + 1
        OBVIOUS
    <2> QED
        BY <2>3, <2>4, <2>5, <2>6 DEF line
<1> HIDE DEF S
<1>7. Nat \subseteq S
    BY <1>5, <1>6, InductiveSet
<1>8. good(kept[Len(list) + 1], Len(list))
    BY <1>2, <1>7 DEF S
<1>9. kept[Len(list) + 2] = kept[Len(list) + 1]
    BY <1>2, <1>4 DEF Kept
<1>10. PICK lines : lines = Entries(content)
    OBVIOUS
<1>11. good(lines, Len(list)) /\ DOMAIN lines = 1..Len(list)
    BY <1>2, <1>4, <1>8, <1>9, <1>10 DEF Kept
<1> DEFINE range(i) == (CHOOSE e \in ParsePbfLine(lines[i]) : TRUE).range
<1>12. \A i \in 1..Len(list) : ParsePbfLine(lines[i]) # {} /\ range(i) = list[i]
    BY <1>3, <1>11
<1>13. ParsePlaySkipSection(content) = {[i \in 1..Len(list) |-> range(i)]}
    <2>1. ~(\E i \in DOMAIN lines : ParsePbfLine(lines[i]) = {})
        BY <1>11, <1>12
    <2>2. ParsePlaySkipSection(content) = {[i \in DOMAIN lines |-> range(i)]}
        BY <1>10, <2>1 DEF ParsePlaySkipSection
    <2> HIDE DEF range
    <2> QED
        BY <1>11, <2>2
<1> HIDE DEF range
<1>14. list = [i \in 1..Len(list) |-> range(i)]
    BY <1>12
<1> QED
    BY <1>1, <1>13, <1>14

-----------------------------------------------------------------------------
(***************************************************************************)
(* A changed section.  A line keeps its number of tokens or goes, so the     *)
(* header and the terminator never become entries that parse: a changed     *)
(* section has no more ranges than the list it was built from.               *)
(***************************************************************************)
Framed(content) ==
    /\ content \in Seq(Text)
    /\ \E a, b \in Nat \ {0} :
          /\ a # b /\ \A i \in {a, b} : i <= Len(content) => Len(content[i]) <= 2
          /\ Len(content) <= MaxRanges + Below(Len(content), a) + Below(Len(content), b)

\* A framed section that is read gives no more ranges than may be typed.
LEMMA FramedIsShort ==
    ASSUME NEW content, Framed(content), NEW list \in ParsePlaySkipSection(content)
    PROVE  list \in Seq(Ranges) /\ Len(list) <= MaxRanges
<1>1. content \in Seq(Text) /\ Len(content) \in Nat
    BY DEF Framed
<1>2. PICK a, b \in Nat \ {0} :
          /\ a # b /\ \A i \in {a, b} : i <= Len(content) => Len(content[i]) <= 2
          /\ Len(content) <= MaxRanges + Below(Len(content), a) + Below(Len(content), b)
    BY DEF Framed
<1>3. /\ list \in Seq(Ranges) /\ Len(list) = Len(Entries(content))
      /\ \A j \in 1..Len(content) : IsEntry(content[j]) => Len(content[j]) >= 3
    BY <1>1, SectionIs
<1>4. \A i \in {a, b} : i <= Len(content) => ~IsEntry(content[i])
    <2> SUFFICES ASSUME NEW i \in {a, b}, i <= Len(content), IsEntry(content[i]) PROVE FALSE
        OBVIOUS
    <2>1. i \in 1..Len(content) /\ Len(content[i]) \in Nat
        BY <1>1, <1>2 DEF Text
    <2> QED
        BY <1>2, <1>3, <2>1
<1>5. Len(Entries(content)) <= Len(content) - Below(Len(content), a) - Below(Len(content), b)
    BY <1>1, <1>2, <1>4, OthersAreFewer
<1>6. Below(Len(content), a) \in Int /\ Below(Len(content), b) \in Int /\ MaxRanges \in Int
      /\ Len(list) \in Int
    BY <1>3, ListAssumption DEF Below
<1> QED
    BY <1>1, <1>2, <1>3, <1>5, <1>6

\* A list that may be typed is numbered without overflow.
LEMMA ShortListFits ==
    ASSUME NEW n \in Nat, n <= MaxRanges PROVE n <= LongMax
BY ListAssumption, TextAssumption, NumbersAre

\* A built section is framed, by its header and its terminator.
LEMMA BuiltIsFramed ==
    ASSUME NEW list \in Seq(Ranges), Len(list) <= MaxRanges PROVE Framed(BuildPlaySkipSection(list))
<1>1. PICK content : content = BuildPlaySkipSection(list)
    OBVIOUS
<1>2. /\ content \in Seq(Text) /\ Len(content) = Len(list) + 2 /\ Len(list) \in Nat
      /\ content[1] = Header /\ Len(content[Len(list) + 2]) = 2
    BY <1>1, ShortListFits, BuiltIs
<1>3. Len(content[1]) <= 2
    BY <1>2 DEF Header
<1>4. Len(content) <= MaxRanges + Below(Len(content), 1) + Below(Len(content), Len(list) + 2)
    BY <1>2, ListAssumption DEF Below
<1> DEFINE last == Len(list) + 2
<1>5. 1 \in Nat \ {0} /\ last \in Nat \ {0} /\ 1 # last
    BY <1>2
<1>6. \A i \in {1, last} : i <= Len(content) => Len(content[i]) <= 2
    <2>1. Len(content[last]) <= 2
        BY <1>2
    <2> HIDE DEF last
    <2> QED
        BY <1>3, <2>1
<1> HIDE DEF last
<1>7. Len(content) <= MaxRanges + Below(Len(content), 1) + Below(Len(content), last)
    BY <1>4 DEF last
<1> QED
    BY <1>1, <1>2, <1>5, <1>6, <1>7 DEF Framed

\* One token of a section becomes another.
LEMMA TokenChanged ==
    ASSUME NEW content, Framed(content), NEW i \in 1..Len(content), NEW j \in 1..Len(content[i]),
           NEW o \in Tokens
    PROVE  Framed([content EXCEPT ![i][j] = o])
<1> DEFINE line == [content[i] EXCEPT ![j] = o]
           new == [content EXCEPT ![i] = line]
<1>1. content \in Seq(Text) /\ content[i] \in Text
    BY DEF Framed
<1>2. line \in Text /\ Len(line) = Len(content[i])
    BY <1>1 DEF Text
<1> HIDE DEF line
<1>3. new \in Seq(Text) /\ Len(new) = Len(content)
      /\ \A k \in 1..Len(content) : new[k] = IF k = i THEN line ELSE content[k]
    BY <1>1, <1>2
<1>4. [content EXCEPT ![i][j] = o] = new
    BY DEF line
<1> HIDE DEF new
<1>5. PICK a, b \in Nat \ {0} :
          /\ a # b /\ \A k \in {a, b} : k <= Len(content) => Len(content[k]) <= 2
          /\ Len(content) <= MaxRanges + Below(Len(content), a) + Below(Len(content), b)
    BY DEF Framed
<1>6. \A k \in {a, b} : k <= Len(new) => Len(new[k]) <= 2
    BY <1>1, <1>2, <1>3, <1>5
<1> QED
    BY <1>3, <1>4, <1>5, <1>6 DEF Framed

\* One line of a built section goes: the header, the terminator or an entry.
LEMMA LineRemoved ==
    ASSUME NEW list \in Seq(Ranges), Len(list) <= MaxRanges, NEW content,
           content = BuildPlaySkipSection(list), NEW i \in 1..Len(content)
    PROVE  Framed(SubSeq(content, 1, i - 1) \o SubSeq(content, i + 1, Len(content)))
<1> DEFINE above == SubSeq(content, 1, i - 1)
           below == SubSeq(content, i + 1, Len(content))
           new == above \o below
           last == Len(list) + 2
<1>1. /\ content \in Seq(Text) /\ Len(content) = last /\ Len(list) \in Nat
      /\ content[1] = Header /\ Len(content[last]) = 2
    BY ShortListFits, BuiltIs
<1>2. Len(content[1]) <= 2
    BY <1>1 DEF Header
<1>3. i \in Nat /\ 1 <= i /\ i <= last /\ last \in Nat
    BY <1>1
<1>4. /\ above \in Seq(Text) /\ Len(above) = i - 1
      /\ \A k \in 1..i - 1 : above[k] = content[k]
    BY <1>1, <1>3, SubSeqProperties
<1>5. /\ below \in Seq(Text) /\ Len(below) = last - i
      /\ \A k \in 1..last - i : below[k] = content[i + k]
    <2>1. \A k \in i + 1..Len(content) : content[k] \in Text
        BY <1>1, <1>3
    <2>2. below \in Seq(Text) /\ Len(below) = last - i
        BY <1>1, <1>3, <2>1, SubSeqProperties
    <2>3. \A k \in 1..last - i : below[k] = content[i + 1 + k - 1]
        BY <1>1, <1>3, <2>1, <2>2, SubSeqProperties
    <2> QED
        BY <1>3, <2>2, <2>3
<1> HIDE DEF above, below
<1>6. /\ new \in Seq(Text) /\ Len(new) = last - 1
      /\ \A k \in 1..last - 1 : new[k] = IF k < i THEN content[k] ELSE content[k + 1]
    <2>1. Len(above) + Len(below) = last - 1
        BY <1>3, <1>4, <1>5
    <2>2. /\ new \in Seq(Text) /\ Len(new) = last - 1
          /\ \A k \in 1..last - 1 :
                new[k] = IF k <= i - 1 THEN above[k] ELSE below[k - (i - 1)]
        <3>1. above \in Seq(Text) /\ below \in Seq(Text)
            BY <1>4, <1>5
        <3>2. /\ new \in Seq(Text) /\ Len(new) = Len(above) + Len(below)
              /\ \A k \in 1..Len(above) + Len(below) :
                    new[k] = IF k <= Len(above) THEN above[k] ELSE below[k - Len(above)]
            BY <3>1, ConcatProperties, Zenon
        <3>3. Len(above) = i - 1
            BY <1>4
        <3> HIDE DEF new, last
        <3> QED
            BY <2>1, <3>2, <3>3
    <2> HIDE DEF new, last
    <2>3. ASSUME NEW k \in 1..last - 1 PROVE new[k] = IF k < i THEN content[k] ELSE content[k + 1]
        <3>1. CASE k < i
            <4>1. k \in 1..i - 1 /\ k <= i - 1
                BY <1>3, <3>1
            <4> QED
                BY <1>4, <2>2, <3>1, <4>1
        <3>2. CASE ~(k < i)
            <4>1. /\ k - (i - 1) \in 1..last - i /\ ~(k <= i - 1) /\ i + (k - (i - 1)) = k + 1
                BY <1>3, <3>2
            <4> QED
                BY <1>5, <2>2, <3>2, <4>1
        <3> QED
            BY <3>1, <3>2
    <2> QED
        BY <2>2, <2>3
<1> HIDE DEF new
<1>7. ASSUME NEW a \in Nat \ {0}, NEW b \in Nat \ {0}, a # b,
             \A k \in {a, b} : k <= last - 1 => Len(new[k]) <= 2,
             a <= last - 1
      PROVE  Framed(new)
    <2>1. last - 1 <= MaxRanges + Below(last - 1, a) + Below(last - 1, b)
        BY <1>1, <1>7, ListAssumption DEF Below
    <2> QED
        BY <1>6, <1>7, <2>1 DEF Framed
<1>8. \A k \in 1..last - 1 : k >= i => new[k] = content[k + 1]
    BY <1>3, <1>6
<1>9. 1 < i => Len(new[1]) <= 2
    BY <1>2, <1>3, <1>6
<1>10. last >= 2
    BY <1>1
<1> HIDE DEF last
<1>11. i < last => Len(new[last - 1]) <= 2
    <2> SUFFICES ASSUME i < last PROVE Len(new[last - 1]) <= 2
        OBVIOUS
    <2>1. last - 1 \in 1..last - 1 /\ last - 1 >= i /\ last - 1 + 1 = last
        BY <1>3
    <2>2. new[last - 1] = content[last]
        BY <1>8, <2>1
    <2>3. Len(content[last]) = 2
        BY <1>1
    <2>4. Len(new[last - 1]) = 2
        BY <2>2, <2>3
    <2> QED
        BY <2>4
<1>12. ASSUME i = 1 PROVE Framed(new)
    <2>1. \A k \in {last - 1, last} : k <= last - 1 => Len(new[k]) <= 2
        BY <1>3, <1>10, <1>11, <1>12
    <2>2. last - 1 \in Nat \ {0} /\ last \in Nat \ {0} /\ last - 1 # last /\ last - 1 <= last - 1
        BY <1>3, <1>10
    <2> QED
        BY <1>7, <2>1, <2>2
<1>13. ASSUME i = last PROVE Framed(new)
    <2>1. \A k \in {1, last} : k <= last - 1 => Len(new[k]) <= 2
        BY <1>3, <1>9, <1>10, <1>13
    <2>2. last \in Nat \ {0} /\ 1 # last /\ 1 <= last - 1
        BY <1>3, <1>10
    <2> QED
        BY <1>7, <2>1, <2>2
<1>14. ASSUME i # 1, i # last PROVE Framed(new)
    <2>1. \A k \in {1, last - 1} : k <= last - 1 => Len(new[k]) <= 2
        BY <1>3, <1>9, <1>11, <1>14
    <2>2. last - 1 \in Nat \ {0} /\ 1 # last - 1 /\ 1 <= last - 1
        BY <1>3, <1>14
    <2> QED
        BY <1>7, <2>1, <2>2
<1> QED
    BY <1>12, <1>13, <1>14 DEF new, above, below

-----------------------------------------------------------------------------
(***************************************************************************)
(* Timecodes: hours, minutes, seconds and milliseconds are the digits of a   *)
(* time, so that they and the time say the same.                             *)
(***************************************************************************)
Hours(ms) == (ms \div Thousand) \div (Sixty * Sixty)
Minutes(ms) == ((ms \div Thousand) % (Sixty * Sixty)) \div Sixty
Seconds(ms) == (ms \div Thousand) % Sixty
Millis(ms) == ms % Thousand
Total(h, m, s, f) == ((h * Sixty + m) * Sixty + s) * Thousand + f

\* Division and remainder make up the number.
LEMMA Divided ==
    ASSUME NEW n \in Int, NEW d \in Int, 0 < d
    PROVE  /\ n \div d \in Int /\ n % d \in 0..d - 1
           /\ (n \div d) * d + (n % d) = n
<1>1. n % d \in Int /\ 0 <= n % d /\ n % d < d /\ n \div d \in Int
    OBVIOUS
<1>2. n = d * (n \div d) + (n % d)
    OBVIOUS
<1> QED
    BY <1>1, <1>2

\* A quotient and a remainder are those of the number they make up.
LEMMA Composed ==
    ASSUME NEW q \in Int, NEW d \in Int, NEW r \in Int, 0 <= r, r < d
    PROVE  (q * d + r) \div d = q /\ (q * d + r) % d = r
<1>1. (q * d + r) \div d = q
    OBVIOUS
<1>2. (q * d + r) % d = r
    OBVIOUS
<1> QED
    BY <1>1, <1>2

\* The quotient of a number that is not below 0 is not either.
LEMMA NotBelowZero ==
    ASSUME NEW q \in Int, NEW d \in Int, NEW r \in Int, 0 <= r, r < d, 0 <= q * d + r PROVE 0 <= q
OBVIOUS

\* The parts of a time make it up.
LEMMA PartsOf ==
    ASSUME NEW ms \in Nat
    PROVE  /\ Hours(ms) \in Nat /\ Minutes(ms) \in 0..Sixty - 1 /\ Seconds(ms) \in 0..Sixty - 1
           /\ Millis(ms) \in 0..Thousand - 1
           /\ Total(Hours(ms), Minutes(ms), Seconds(ms), Millis(ms)) = ms
<1>1. PICK S \in Nat, T \in Nat : S = Sixty /\ T = Thousand /\ 0 < S /\ 0 < T
    BY NumbersAre
<1>2. S * S \in Int /\ 0 < S * S
    BY <1>1
<1>3. PICK sec, h, x, m : /\ sec = ms \div T /\ h = sec \div (S * S) /\ x = sec % (S * S)
                          /\ m = x \div S
    OBVIOUS
<1>4. sec \in Int /\ ms % T \in 0..T - 1 /\ sec * T + (ms % T) = ms
    BY <1>1, <1>3, Divided
<1>5. h \in Int /\ x \in 0..S * S - 1 /\ h * (S * S) + x = sec
    BY <1>2, <1>3, <1>4, Divided
<1>6. m \in Int /\ x % S \in 0..S - 1 /\ m * S + (x % S) = x
    BY <1>1, <1>2, <1>3, <1>5, Divided
<1>7. PICK r : r = x % S
    OBVIOUS
<1>8. r \in Int /\ 0 <= r /\ r < S /\ m * S + r = x /\ 0 <= x /\ x < S * S
    BY <1>1, <1>2, <1>5, <1>6, <1>7
<1>9. h * S + m \in Int
    BY <1>1, <1>5, <1>6
<1>10. (h * S + m) * S + r = sec
    <2>1. h * (S * S) = h * S * S
        BY <1>1, <1>5
    <2>2. (h * S + m) * S = h * S * S + m * S
        BY <1>1, <1>5, <1>6
    <2> QED
        BY <1>1, <1>2, <1>5, <1>6, <1>8, <2>1, <2>2
<1>11. sec % S = r
    <2>1. PICK q \in Int : q = h * S + m
        BY <1>9
    <2>2. S \in Int /\ r \in Int /\ 0 <= r /\ r < S
        BY <1>1, <1>8
    <2>3. (q * S + r) % S = r
        BY <2>1, <2>2, Composed, Zenon
    <2> QED
        BY <1>10, <2>1, <2>3
<1>12. 0 <= sec
    BY <1>1, <1>4, NotBelowZero
<1>13. 0 <= h
    BY <1>2, <1>5, <1>12, NotBelowZero
<1>14. 0 <= m
    BY <1>1, <1>6, <1>8, NotBelowZero
<1>15. m < S
    <2> SUFFICES ASSUME m >= S PROVE FALSE
        BY <1>1, <1>6
    <2>1. m * S >= S * S
        BY <1>1, <1>6
    <2> QED
        BY <1>1, <1>2, <1>6, <1>8, <2>1
<1>16. /\ Hours(ms) = h /\ Minutes(ms) = m /\ Seconds(ms) = r /\ Millis(ms) = ms % T
    BY <1>1, <1>3, <1>11 DEF Hours, Minutes, Seconds, Millis
<1> QED
    BY <1>1, <1>4, <1>5, <1>6, <1>8, <1>10, <1>13, <1>14, <1>15, <1>16 DEF Total

\* A time made up of parts has these parts.
LEMMA PartsAre ==
    ASSUME NEW h \in Nat, NEW m \in 0..Sixty - 1, NEW s \in 0..Sixty - 1, NEW f \in 0..Thousand - 1
    PROVE  LET ms == Total(h, m, s, f)
           IN  /\ ms \in Nat
               /\ Hours(ms) = h /\ Minutes(ms) = m /\ Seconds(ms) = s /\ Millis(ms) = f
<1>1. PICK S \in Nat, T \in Nat : S = Sixty /\ T = Thousand /\ 0 < S /\ 0 < T
    BY NumbersAre
<1>2. /\ m \in Int /\ 0 <= m /\ m < S /\ s \in Int /\ 0 <= s /\ s < S
      /\ f \in Int /\ 0 <= f /\ f < T /\ h \in Int /\ 0 <= h
    BY <1>1
<1>3. PICK sec : sec = (h * S + m) * S + s
    OBVIOUS
<1>4. PICK x : x = m * S + s
    OBVIOUS
<1>5. S * S \in Int /\ 0 < S * S /\ h * S + m \in Int /\ 0 <= h * S + m
    BY <1>1, <1>2
<1>6. sec \in Int /\ 0 <= sec
    BY <1>1, <1>2, <1>3, <1>5
<1>7. x \in Int /\ 0 <= x /\ x < S * S
    <2>1. m * S <= (S - 1) * S
        BY <1>1, <1>2
    <2>2. (S - 1) * S = S * S - S
        BY <1>1
    <2>3. m * S \in Int /\ 0 <= m * S
        BY <1>1, <1>2
    <2> QED
        BY <1>1, <1>2, <1>4, <1>5, <2>1, <2>2, <2>3
<1>8. sec = h * (S * S) + x
    <2>1. h * (S * S) = h * S * S
        BY <1>1, <1>2
    <2>2. (h * S + m) * S = h * S * S + m * S
        BY <1>1, <1>2
    <2> QED
        BY <1>1, <1>2, <1>3, <1>4, <1>5, <2>1, <2>2
<1>9. Total(h, m, s, f) = sec * T + f
    BY <1>1, <1>3 DEF Total
<1>10. (sec * T + f) \div T = sec /\ (sec * T + f) % T = f
    BY <1>1, <1>2, <1>6, Composed
<1>11. sec \div (S * S) = h /\ sec % (S * S) = x
    BY <1>2, <1>5, <1>7, <1>8, Composed
<1>12. x \div S = m
    BY <1>1, <1>2, <1>4, Composed
<1>13. sec % S = s
    BY <1>1, <1>2, <1>3, <1>5, Composed
<1>14. sec * T + f \in Nat
    BY <1>1, <1>2, <1>6
<1> QED
    BY <1>1, <1>9, <1>10, <1>11, <1>12, <1>13, <1>14 DEF Hours, Minutes, Seconds, Millis

\* A time that fits is computed from its parts without wrapping.
LEMMA NothingWraps ==
    ASSUME NEW h \in Nat, NEW m \in 0..Sixty - 1, NEW s \in 0..Sixty - 1, NEW f \in 0..Thousand - 1,
           Total(h, m, s, f) <= LongMax
    PROVE  Duration(h, m, s, f) = Total(h, m, s, f)
<1>1. PICK S \in Nat, T \in Nat : S = Sixty /\ T = Thousand /\ 1 <= S /\ 1 <= T
    BY NumbersAre
<1>2. /\ m \in Nat /\ s \in Nat /\ f \in Nat
    BY <1>1
<1>3. PICK a, b, c : a = h * S /\ b = (a + m) * S + s /\ c = b * T + f
    OBVIOUS
<1>4. a \in Nat
    BY <1>1, <1>3
<1>5. b \in Nat /\ a + m <= b
    <2>1. (a + m) * S \in Nat /\ a + m <= (a + m) * S
        BY <1>1, <1>2, <1>4
    <2> QED
        BY <1>2, <1>3, <2>1
<1>6. c \in Nat /\ b <= c
    <2>1. b * T \in Nat /\ b <= b * T
        BY <1>1, <1>5
    <2> QED
        BY <1>2, <1>3, <2>1
<1>7. Total(h, m, s, f) = c
    BY <1>1, <1>3 DEF Total
<1>8. LongMax \in Nat /\ c <= LongMax
    BY <1>7, NumbersAre
<1>9. Long(a) = a
    BY <1>2, <1>4, <1>5, <1>6, <1>8, LongIs
<1>10. Long(a + m) = a + m
    BY <1>2, <1>4, <1>5, <1>6, <1>8, LongIs
<1>11. Long(b) = b
    BY <1>5, <1>6, <1>8, LongIs
<1>12. Long(c) = c
    BY <1>6, <1>8, LongIs
<1> QED
    BY <1>1, <1>3, <1>7, <1>9, <1>10, <1>11, <1>12 DEF Duration

\* No part of a time is greater than the time.
LEMMA PartsFit ==
    ASSUME NEW ms \in 0..LongMax
    PROVE  /\ Hours(ms) \in 0..LongMax /\ Minutes(ms) \in 0..LongMax
           /\ Seconds(ms) \in 0..LongMax /\ Millis(ms) \in 0..LongMax
<1>1. PICK S \in Nat, T \in Nat : S = Sixty /\ T = Thousand /\ 1 <= S /\ 1 <= T
    BY NumbersAre
<1>2. PICK h, m, s, f : h = Hours(ms) /\ m = Minutes(ms) /\ s = Seconds(ms) /\ f = Millis(ms)
    OBVIOUS
<1>3. ms \in Nat /\ ms <= LongMax /\ LongMax \in Nat
    BY NumbersAre
<1>4. /\ h \in Nat /\ m \in Nat /\ s \in Nat /\ f \in Nat /\ Total(h, m, s, f) = ms
    BY <1>1, <1>2, <1>3, PartsOf
<1>5. PICK a, b : a = h * S + m /\ b = a * S + s
    OBVIOUS
<1>6. a \in Nat /\ h <= a /\ m <= a
    <2>1. h * S \in Nat /\ h <= h * S
        BY <1>1, <1>4
    <2> QED
        BY <1>4, <1>5, <2>1
<1>7. b \in Nat /\ a <= b /\ s <= b
    <2>1. a * S \in Nat /\ a <= a * S
        BY <1>1, <1>6
    <2> QED
        BY <1>4, <1>5, <1>6, <2>1
<1>8. b <= ms /\ f <= ms
    <2>1. b * T \in Nat /\ b <= b * T
        BY <1>1, <1>7
    <2>2. ms = b * T + f
        BY <1>1, <1>4, <1>5 DEF Total
    <2> QED
        BY <1>4, <1>7, <2>1, <2>2
<1> QED
    BY <1>2, <1>3, <1>4, <1>6, <1>7, <1>8

\* The tokens of a timecode, and what a text with such tokens is read as.
Shaped(text) == /\ Len(text) = 7
                /\ text[1].is = "digits" /\ text[2].is = ":" /\ text[3].is = "digits"
                /\ text[4].is = ":" /\ text[5].is = "digits" /\ text[6].is = "."
                /\ text[7].is = "digits"
                /\ text[3].width = 2 /\ text[5].width = 2 /\ text[7].width = 3
                /\ text[1].value <= LongMax /\ text[3].value < Sixty /\ text[5].value < Sixty
                /\ text[3].value <= LongMax /\ text[5].value <= LongMax /\ text[7].value <= LongMax
Time(text) == Duration(text[1].value, text[3].value, text[5].value, text[7].value)

\* A text that ParseTimecode reads has the tokens of a timecode.
LEMMA TimecodeIs ==
    ASSUME NEW text \in Text, NEW ms \in ParseTimecode(text)
    PROVE  Shaped(text) /\ ms = Time(text)
<1>1. PICK c1, c2, dot : /\ c1 = Find(text, ":", 1) /\ c2 = Find(text, ":", c1 + 1)
                         /\ dot = Find(text, ".", c2 + 1)
    OBVIOUS
<1>2. PICK hours, minutes, seconds, millis :
          /\ hours = Before(text, 1, c1) /\ minutes = Before(text, c1 + 1, c2)
          /\ seconds = Before(text, c2 + 1, dot) /\ millis = After(text, dot)
    OBVIOUS
<1>3. ParseTimecode(text) =
          IF 0 \in {c1, c2, dot} \/ <<Size(minutes), Size(seconds), Size(millis)>> # <<2, 2, 3>> THEN {}
          ELSE {Duration(h, m, s, f) :
                  h \in ParseDigitsField(hours), f \in ParseDigitsField(millis),
                  m \in {x \in ParseDigitsField(minutes) : x < Sixty},
                  s \in {x \in ParseDigitsField(seconds) : x < Sixty}}
    BY <1>1, <1>2 DEF ParseTimecode
<1>4. c1 # 0 /\ c2 # 0 /\ dot # 0 /\ Size(minutes) = 2 /\ Size(seconds) = 2 /\ Size(millis) = 3
    BY <1>3
<1>5. PICK h \in ParseDigitsField(hours), f \in ParseDigitsField(millis),
           m \in ParseDigitsField(minutes), s \in ParseDigitsField(seconds) :
              m < Sixty /\ s < Sixty /\ ms = Duration(h, m, s, f)
    BY <1>3
<1>6. Len(text) \in Nat
    BY DEF Text
<1>7. c1 \in Nat /\ 1 <= c1 /\ c1 <= Len(text) /\ text[c1].is = ":"
    BY <1>1, <1>4, <1>6, FindIs
<1>8. c2 \in Nat /\ c1 + 1 <= c2 /\ c2 <= Len(text) /\ text[c2].is = ":"
    BY <1>1, <1>4, <1>6, <1>7, FindIs
<1>9. dot \in Nat /\ c2 + 1 <= dot /\ dot <= Len(text) /\ text[dot].is = "."
    BY <1>1, <1>4, <1>6, <1>7, <1>8, FindIs
<1>10. /\ 1 \in Nat \ {0} /\ c1 + 1 \in Nat \ {0} /\ c2 + 1 \in Nat \ {0}
       /\ c1 <= Len(text) + 1 /\ c2 <= Len(text) + 1 /\ dot <= Len(text) + 1
    BY <1>6, <1>7, <1>8, <1>9
<1>11. /\ hours \in Text /\ Len(hours) = c1 - 1
       /\ 1 < c1 => hours[1] = text[1]
    BY <1>2, <1>7, <1>10, BeforeIs, Zenon
<1>12. /\ minutes \in Text /\ Len(minutes) = c2 - (c1 + 1)
       /\ c1 + 1 < c2 => minutes[1] = text[c1 + 1]
    BY <1>2, <1>8, <1>10, BeforeIs, Zenon
<1>13. /\ seconds \in Text /\ Len(seconds) = dot - (c2 + 1)
       /\ c2 + 1 < dot => seconds[1] = text[c2 + 1]
    BY <1>2, <1>9, <1>10, BeforeIs, Zenon
<1>14. /\ millis \in Text /\ Len(millis) = Len(text) - dot
       /\ dot < Len(text) => millis[1] = text[dot + 1]
    BY <1>2, <1>9, AfterIs, Zenon
<1>15. /\ h \in 0..LongMax /\ Len(hours) = 1 /\ hours[1].is = "digits" /\ hours[1].value = h
    BY <1>5, <1>11, FieldIs
<1>16. /\ m \in 0..LongMax /\ Len(minutes) = 1 /\ minutes[1].is = "digits" /\ minutes[1].value = m
       /\ minutes[1].width = 2
    BY <1>4, <1>5, <1>12, FieldIs
<1>17. /\ s \in 0..LongMax /\ Len(seconds) = 1 /\ seconds[1].is = "digits" /\ seconds[1].value = s
       /\ seconds[1].width = 2
    BY <1>4, <1>5, <1>13, FieldIs
<1>18. /\ f \in 0..LongMax /\ Len(millis) = 1 /\ millis[1].is = "digits" /\ millis[1].value = f
       /\ millis[1].width = 3
    BY <1>4, <1>5, <1>14, FieldIs
<1>19. c1 = 2 /\ c2 = 4 /\ dot = 6 /\ Len(text) = 7
    <2>1. c1 - 1 = 1 /\ c2 - (c1 + 1) = 1 /\ dot - (c2 + 1) = 1 /\ Len(text) - dot = 1
        BY <1>11, <1>12, <1>13, <1>14, <1>15, <1>16, <1>17, <1>18, Zenon
    <2>2. c1 \in Nat /\ c2 \in Nat /\ dot \in Nat
        BY <1>7, <1>8, <1>9, Zenon
    <2> QED
        BY <1>6, <2>1, <2>2
<1>20. hours[1] = text[1] /\ minutes[1] = text[3] /\ seconds[1] = text[5] /\ millis[1] = text[7]
    BY <1>11, <1>12, <1>13, <1>14, <1>19
<1>21. ms = Time(text)
    BY <1>5, <1>15, <1>16, <1>17, <1>18, <1>20 DEF Time
<1>22. h <= LongMax /\ m <= LongMax /\ s <= LongMax /\ f <= LongMax
    BY <1>15, <1>16, <1>17, <1>18, NumbersAre
<1> QED
    BY <1>5, <1>7, <1>8, <1>9, <1>15, <1>16, <1>17, <1>18, <1>19, <1>20, <1>21, <1>22 DEF Shaped

\* A text with the tokens of a timecode is read as one time.
LEMMA ShapedIsRead ==
    ASSUME NEW text \in Text, Shaped(text) PROVE ParseTimecode(text) = {Time(text)}
<1>1. Len(text) = 7
    BY DEF Shaped
<1>2. Find(text, ":", 1) = 2
    <2>1. \A n \in 1..2 - 1 : text[n].is # ":"
        BY DEF Shaped
    <2> QED
        BY <1>1, <2>1, FoundAt DEF Shaped
<1>3. Find(text, ":", 3) = 4
    <2>1. \A n \in 3..4 - 1 : text[n].is # ":"
        BY DEF Shaped
    <2> QED
        BY <1>1, <2>1, FoundAt DEF Shaped
<1>4. Find(text, ".", 5) = 6
    <2>1. \A n \in 5..6 - 1 : text[n].is # "."
        BY DEF Shaped
    <2> QED
        BY <1>1, <2>1, FoundAt DEF Shaped
<1>5. PICK hours, minutes, seconds, millis :
          /\ hours = Before(text, 1, 2) /\ minutes = Before(text, 3, 4)
          /\ seconds = Before(text, 5, 6) /\ millis = After(text, 6)
    OBVIOUS
<1>6. /\ 3 \in 1..Len(text) /\ 4 = 3 + 1 /\ 5 \in 1..Len(text) /\ 6 = 5 + 1
      /\ 6 \in Nat /\ 7 = 6 + 1
    BY <1>1
<1>7. Len(hours) = 1 /\ hours[1] = text[1]
    BY <1>1, <1>5, FieldAt
<1>8. Len(minutes) = 1 /\ minutes[1] = text[3]
    BY <1>5, <1>6, FieldAt, Zenon
<1>9. Len(seconds) = 1 /\ seconds[1] = text[5]
    BY <1>5, <1>6, FieldAt, Zenon
<1>10. Len(millis) = 1 /\ millis[1] = text[7]
    BY <1>1, <1>5, <1>6, LastField, Zenon
<1>11. PICK h, m, s, f : /\ h = text[1].value /\ m = text[3].value /\ s = text[5].value
                         /\ f = text[7].value
    OBVIOUS
<1>12. /\ ParseDigitsField(hours) = {h} /\ ParseDigitsField(minutes) = {m}
       /\ ParseDigitsField(seconds) = {s} /\ ParseDigitsField(millis) = {f}
       /\ Size(minutes) = 2 /\ Size(seconds) = 2 /\ Size(millis) = 3 /\ m < Sixty /\ s < Sixty
    BY <1>7, <1>8, <1>9, <1>10, <1>11, OneDigits DEF Shaped, Size
<1>13. ParseTimecode(text) =
          IF 0 \in {2, 4, 6} \/ <<Size(minutes), Size(seconds), Size(millis)>> # <<2, 2, 3>> THEN {}
          ELSE {Duration(hh, mm, ss, ff) :
                  hh \in ParseDigitsField(hours), ff \in ParseDigitsField(millis),
                  mm \in {x \in ParseDigitsField(minutes) : x < Sixty},
                  ss \in {x \in ParseDigitsField(seconds) : x < Sixty}}
    <2>1. PICK c1, c2, dot : /\ c1 = Find(text, ":", 1) /\ c2 = Find(text, ":", c1 + 1)
                             /\ dot = Find(text, ".", c2 + 1)
        OBVIOUS
    <2>2. c1 = 2 /\ c1 + 1 = 3
        BY <1>2, <2>1
    <2>3. c2 = 4 /\ c2 + 1 = 5
        BY <1>3, <2>1, <2>2
    <2>4. dot = 6
        BY <1>4, <2>1, <2>3
    <2>5. /\ Before(text, 1, c1) = hours /\ Before(text, c1 + 1, c2) = minutes
          /\ Before(text, c2 + 1, dot) = seconds /\ After(text, dot) = millis
        BY <1>5, <2>2, <2>3, <2>4
    <2>6. ParseTimecode(text) =
              IF 0 \in {c1, c2, dot} \/ <<Size(minutes), Size(seconds), Size(millis)>> # <<2, 2, 3>> THEN {}
              ELSE {Duration(hh, mm, ss, ff) :
                      hh \in ParseDigitsField(hours), ff \in ParseDigitsField(millis),
                      mm \in {x \in ParseDigitsField(minutes) : x < Sixty},
                      ss \in {x \in ParseDigitsField(seconds) : x < Sixty}}
        BY <2>1, <2>5 DEF ParseTimecode
    <2> QED
        BY <2>2, <2>3, <2>4, <2>6
<1>14. ParseTimecode(text) =
          {Duration(hh, mm, ss, ff) : hh \in {h}, ff \in {f}, mm \in {m}, ss \in {s}}
    <2>1. {x \in {m} : x < Sixty} = {m} /\ {x \in {s} : x < Sixty} = {s}
        BY <1>12
    <2> QED
        BY <1>12, <1>13, <2>1
<1> QED
    BY <1>11, <1>14 DEF Time

\* The text of a time, token by token.
LEMMA FormatIs ==
    ASSUME NEW ms \in 0..LongMax
    PROVE  LET text == FormatTimecode(ms)
           IN  /\ text \in Text /\ Shaped(text)
               /\ text[1].value = Hours(ms) /\ text[2] = Sign(":")
               /\ text[3] = Numeral(Minutes(ms), 2) /\ text[4] = Sign(":")
               /\ text[5] = Numeral(Seconds(ms), 2) /\ text[6] = Sign(".")
               /\ text[7] = Numeral(Millis(ms), 3)
               /\ text[1] = Numeral(Hours(ms), text[1].width)
<1>1. PICK text : text = FormatTimecode(ms)
    OBVIOUS
<1>2. PICK t1, t3, t5, t7 : /\ t1 = Padded(Hours(ms), 2) /\ t3 = Padded(Minutes(ms), 2)
                            /\ t5 = Padded(Seconds(ms), 2) /\ t7 = Padded(Millis(ms), 3)
    OBVIOUS
<1>3. text = <<t1, Sign(":"), t3, Sign(":"), t5, Sign("."), t7>>
    BY <1>1, <1>2 DEF FormatTimecode, Hours, Minutes, Seconds, Millis
<1>4. /\ Hours(ms) \in 0..LongMax /\ Minutes(ms) \in 0..LongMax
      /\ Seconds(ms) \in 0..LongMax /\ Millis(ms) \in 0..LongMax
    BY PartsFit
<1>5. /\ Minutes(ms) \in 0..Sixty - 1 /\ Seconds(ms) \in 0..Sixty - 1
      /\ Millis(ms) \in 0..Thousand - 1 /\ 2 \in 1..Digits /\ 3 \in 1..Digits
    BY NumbersAre, PartsOf, TextAssumption
<1>6. /\ Minutes(ms) < Power[2] /\ Seconds(ms) < Power[2] /\ Millis(ms) < Power[3]
    <2>1. Power[2] \in Nat /\ Power[3] \in Nat /\ Sixty <= Power[2] /\ Power[3] = Thousand
        BY <1>5, PowerIs, NumbersAre
    <2> QED
        BY <1>5, <2>1, NumbersAre
<1>7. PICK d \in 1..Digits : t1 = Numeral(Hours(ms), d) /\ Hours(ms) < Power[d]
    BY <1>2, <1>4, PaddedIs
<1>8. t3 = Numeral(Minutes(ms), 2) /\ t5 = Numeral(Seconds(ms), 2) /\ t7 = Numeral(Millis(ms), 3)
    BY <1>2, <1>4, <1>6, PaddedIs
<1>9. ASSUME NEW v \in 0..LongMax, NEW w \in 1..Digits, v < Power[w]
      PROVE  /\ Numeral(v, w) \in Tokens /\ Numeral(v, w).is = "digits"
             /\ Numeral(v, w).value = v /\ Numeral(v, w).width = w
    <2>1. v \in Nat /\ w \in Nat
        BY NumbersAre, TextAssumption
    <2> QED
        BY <1>9, <2>1 DEF Tokens, Numeral
<1>10. /\ t1 \in Tokens /\ t1.is = "digits" /\ t1.value = Hours(ms) /\ t1.width = d
       /\ t3 \in Tokens /\ t3.is = "digits" /\ t3.value = Minutes(ms) /\ t3.width = 2
       /\ t5 \in Tokens /\ t5.is = "digits" /\ t5.value = Seconds(ms) /\ t5.width = 2
       /\ t7 \in Tokens /\ t7.is = "digits" /\ t7.value = Millis(ms) /\ t7.width = 3
    BY <1>4, <1>5, <1>6, <1>7, <1>8, <1>9
<1>11. Sign(":") \in Tokens /\ Sign(":").is = ":" /\ Sign(".") \in Tokens /\ Sign(".").is = "."
    BY SignIs DEF Signs
<1>12. text \in Text
    BY <1>3, <1>10, <1>11 DEF Text
<1>13. /\ Len(text) = 7 /\ text[1] = t1 /\ text[2] = Sign(":") /\ text[3] = t3
       /\ text[4] = Sign(":") /\ text[5] = t5 /\ text[6] = Sign(".") /\ text[7] = t7
    BY <1>3
<1>14. Shaped(text)
    BY <1>4, <1>5, <1>10, <1>11, <1>13, NumbersAre DEF Shaped
<1> QED
    BY <1>1, <1>7, <1>8, <1>10, <1>12, <1>13, <1>14

\* A time reads back exactly from its text.
LEMMA TimecodeReadsBack ==
    ASSUME NEW ms \in 0..LongMax
    PROVE  FormatTimecode(ms) \in Text /\ ParseTimecode(FormatTimecode(ms)) = {ms}
<1>1. PICK text : text = FormatTimecode(ms)
    OBVIOUS
<1>2. /\ text \in Text /\ Shaped(text)
      /\ text[1].value = Hours(ms) /\ text[3] = Numeral(Minutes(ms), 2)
      /\ text[5] = Numeral(Seconds(ms), 2) /\ text[7] = Numeral(Millis(ms), 3)
    BY <1>1, FormatIs
<1>3. Time(text) = Duration(Hours(ms), Minutes(ms), Seconds(ms), Millis(ms))
    BY <1>2 DEF Time, Numeral
<1>4. /\ ms \in Nat /\ ms <= LongMax
    BY NumbersAre
<1>5. Time(text) = ms
    <2>1. PICK h, m, s, f : h = Hours(ms) /\ m = Minutes(ms) /\ s = Seconds(ms) /\ f = Millis(ms)
        OBVIOUS
    <2>2. /\ h \in Nat /\ m \in 0..Sixty - 1 /\ s \in 0..Sixty - 1 /\ f \in 0..Thousand - 1
          /\ Total(h, m, s, f) = ms
        BY <1>4, <2>1, PartsOf, Zenon
    <2>3. Total(h, m, s, f) <= LongMax
        BY <1>4, <2>2
    <2>4. Duration(h, m, s, f) = Total(h, m, s, f)
        BY <2>2, <2>3, NothingWraps, Zenon
    <2> QED
        BY <1>3, <2>1, <2>2, <2>4, Zenon
<1>6. ParseTimecode(text) = {Time(text)}
    <2>1. text \in Text /\ Shaped(text)
        BY <1>2
    <2> QED
        BY <2>1, ShapedIsRead
<1> QED
    BY <1>1, <1>2, <1>5, <1>6, Zenon

\* From any other text a time is read only if that is how the time is written.
LEMMA TimecodeIsRight ==
    ASSUME NEW text \in Text, NEW ms \in ParseTimecode(text), HoursFit(text)
    PROVE  \A j \in DOMAIN text : LET token == FormatTimecode(ms)[j]
              IN  token = [text[j] EXCEPT !.width = IF j = 1 THEN token.width ELSE @]
<1>1. Shaped(text) /\ ms = Time(text)
    BY TimecodeIs
<1>2. PICK h, m, s, f : /\ h = text[1].value /\ m = text[3].value /\ s = text[5].value
                        /\ f = text[7].value
    OBVIOUS
<1>3. Len(text) = 7 /\ DOMAIN text = 1..7 /\ \A j \in 1..7 : text[j] \in Tokens
    <2>1. Len(text) = 7
        BY <1>1 DEF Shaped
    <2>2. DOMAIN text = 1..Len(text) /\ \A j \in 1..Len(text) : text[j] \in Tokens
        BY DEF Text
    <2> QED
        BY <2>1, <2>2
<1>4. /\ text[1] = [is |-> "digits", value |-> h, width |-> text[1].width]
      /\ text[2] = Sign(":") /\ text[4] = Sign(":") /\ text[6] = Sign(".")
      /\ text[3] = Numeral(m, 2) /\ text[5] = Numeral(s, 2) /\ text[7] = Numeral(f, 3)
    <2>1. text[1] \in Tokens /\ text[2] \in Tokens /\ text[3] \in Tokens /\ text[4] \in Tokens
          /\ text[5] \in Tokens /\ text[6] \in Tokens /\ text[7] \in Tokens
        BY <1>3
    <2> QED
        BY <1>1, <1>2, <2>1, TokenIs DEF Shaped, Numeral
<1>5. h \in Nat /\ m \in 0..Sixty - 1 /\ s \in 0..Sixty - 1 /\ f \in 0..Thousand - 1
    <2>1. h \in Nat /\ m \in Nat /\ s \in Nat /\ f \in Nat /\ m < Sixty /\ s < Sixty
        <3>1. text[1] \in Tokens /\ text[3] \in Tokens /\ text[5] \in Tokens /\ text[7] \in Tokens
            BY <1>3
        <3> QED
            BY <1>1, <1>2, <3>1, TokenIs DEF Shaped
    <2>2. f < Thousand
        <3>1. text[7] \in Tokens /\ text[7].is = "digits" /\ text[7].width = 3
            BY <1>1, <1>3 DEF Shaped
        <3> QED
            BY <1>2, <3>1, TokenIs, PowerIs
    <2> QED
        BY <2>1, <2>2, NumbersAre
<1>6. Total(h, m, s, f) <= LongMax
    <2>1. PICK S \in Nat, T \in Nat : S = Sixty /\ T = Thousand /\ 1 <= S /\ 1 <= T
        BY NumbersAre
    <2>2. h * S * S * T < LongMax - S * S * T
        BY <1>2, <2>1 DEF HoursFit
    <2>3. /\ h \in Nat /\ m \in Nat /\ s \in Nat /\ f \in Nat /\ LongMax \in Nat
          /\ m <= S - 1 /\ s <= S - 1 /\ f <= T - 1
        BY <1>5, <2>1, NumbersAre
    <2>4. PICK a, b : a = h * S + m /\ b = a * S + s
        OBVIOUS
    <2>5. a \in Nat /\ a <= (h + 1) * S - 1
        BY <2>1, <2>3, <2>4
    <2>6. b \in Nat /\ b <= (h + 1) * S * S - 1
        <3>1. a * S <= ((h + 1) * S - 1) * S
            BY <2>1, <2>3, <2>5
        <3>2. ((h + 1) * S - 1) * S = (h + 1) * S * S - S
            BY <2>1, <2>3
        <3>3. a * S \in Nat /\ (h + 1) * S * S \in Nat
            BY <2>1, <2>3, <2>5
        <3> QED
            BY <2>1, <2>3, <2>4, <3>1, <3>2, <3>3
    <2>7. b * T + f <= (h + 1) * S * S * T
        <3>1. b * T <= ((h + 1) * S * S - 1) * T
            BY <2>1, <2>3, <2>6
        <3>2. ((h + 1) * S * S - 1) * T = (h + 1) * S * S * T - T
            BY <2>1, <2>3
        <3>3. b * T \in Nat /\ (h + 1) * S * S * T \in Nat
            BY <2>1, <2>3, <2>6
        <3> QED
            BY <2>1, <2>3, <3>1, <3>2, <3>3
    <2>8. (h + 1) * S * S * T = h * S * S * T + S * S * T
        BY <2>1, <2>3
    <2>9. h * S * S * T \in Nat /\ S * S * T \in Nat /\ b * T + f \in Nat
        BY <2>1, <2>3, <2>6
    <2>10. Total(h, m, s, f) = b * T + f
        BY <2>1, <2>4 DEF Total
    <2> QED
        BY <2>2, <2>3, <2>7, <2>8, <2>9, <2>10
<1>7. ms = Total(h, m, s, f)
    BY <1>1, <1>2, <1>5, <1>6, NothingWraps DEF Time
<1>8. ms \in 0..LongMax /\ Hours(ms) = h /\ Minutes(ms) = m /\ Seconds(ms) = s /\ Millis(ms) = f
    BY <1>5, <1>6, <1>7, PartsAre, NumbersAre
<1>9. PICK again : again = FormatTimecode(ms)
    OBVIOUS
<1>10. /\ again[1] = Numeral(h, again[1].width) /\ again[2] = Sign(":")
       /\ again[3] = Numeral(m, 2) /\ again[4] = Sign(":")
       /\ again[5] = Numeral(s, 2) /\ again[6] = Sign(".") /\ again[7] = Numeral(f, 3)
    BY <1>8, <1>9, FormatIs
<1>11. again[1] = [text[1] EXCEPT !.width = again[1].width]
    BY <1>4, <1>10 DEF Numeral
<1>12. \A j \in 2..7 : again[j] = text[j]
    BY <1>4, <1>10
<1>13. ASSUME NEW j \in 2..7 PROVE text[j] = [text[j] EXCEPT !.width = @]
    BY <1>3, TokenIs
<1> QED
    BY <1>3, <1>9, <1>11, <1>12, <1>13

-----------------------------------------------------------------------------
(***************************************************************************)
(* The steps.  The list holds forward ranges and is short; a file is what    *)
(* was built from such a list, or, once changed, has at most as many lines   *)
(* to read; a field is the text of the time it was filled with, or, once     *)
(* changed, some text.                                                      *)
(***************************************************************************)
Short(list) == list \in Seq(Ranges) /\ Len(list) <= MaxRanges
Listed == Short(ranges)
Filed == Framed(section) /\ \A list \in written : Short(list) /\ section = BuildPlaySkipSection(list)
Fielded == field \in Text /\ \A ms \in shown : ms \in 0..LongMax /\ field = FormatTimecode(ms)
IInv == Listed /\ Filed /\ Fielded

\* The invariant holds before anything is typed.
LEMMA InitIInv == Init => IInv
<1> SUFFICES ASSUME Init PROVE IInv
    OBVIOUS
<1>1. Short(<<>>)
    BY ListAssumption DEF Short
<1>2. Listed
    BY <1>1 DEF Init, Listed
<1>3. Filed
    BY <1>1, BuiltIsFramed DEF Init, Filed, Short
<1>4. Fielded
    BY DEF Init, Fielded, Text
<1> QED
    BY <1>2, <1>3, <1>4 DEF IInv

\* Only a range that was read is typed.
LEMMA EnterIInv == IInv /\ Enter => IInv'
<1> SUFFICES ASSUME IInv, Enter PROVE IInv'
    OBVIOUS
<1> PICK text \in HumanTexts : \E r \in ParseHumanRange(text) : ranges' = Append(ranges, r)
    BY DEF Enter
<1>1. PICK r \in ParseHumanRange(text) : ranges' = Append(ranges, r)
    OBVIOUS
<1>2. r \in Ranges
    BY HumanRangeIs, ListAssumption DEF Text
<1>3. Listed'
    <2>1. ranges \in Seq(Ranges) /\ Len(ranges) < MaxRanges /\ MaxRanges \in Nat
        BY ListAssumption DEF IInv, Listed, Short, Enter
    <2> QED
        BY <1>1, <1>2, <2>1 DEF Listed, Short
<1>4. Filed' /\ Fielded'
    BY DEF Enter, IInv, Filed, Fielded, file, dialog
<1> QED
    BY <1>3, <1>4 DEF IInv

\* A file is built from the list there is.
LEMMA SaveIInv == IInv /\ Save => IInv'
<1> SUFFICES ASSUME IInv, Save PROVE IInv'
    OBVIOUS
<1>1. Short(ranges) /\ Framed(BuildPlaySkipSection(ranges))
    BY BuiltIsFramed DEF IInv, Listed, Short
<1>2. Filed'
    BY <1>1 DEF Save, Filed
<1>3. Listed' /\ Fielded'
    BY DEF Save, IInv, Listed, Fielded, dialog
<1> QED
    BY <1>2, <1>3 DEF IInv

\* A changed file has no more entries than it had.
LEMMA DamageIInv == IInv /\ Damage => IInv'
<1> SUFFICES ASSUME IInv, Damage PROVE IInv'
    OBVIOUS
<1>1. PICK list \in written : Short(list) /\ section = BuildPlaySkipSection(list)
    BY DEF Damage, IInv, Filed
<1>2. Framed(section) /\ DOMAIN section = 1..Len(section)
      /\ \A i \in 1..Len(section) : DOMAIN section[i] = 1..Len(section[i])
    BY DEF IInv, Filed, Framed, Text
<1>3. Framed(section')
    <2>1. PICK i \in DOMAIN section :
              \/ section' = SubSeq(section, 1, i - 1) \o SubSeq(section, i + 1, Len(section))
              \/ \E j \in DOMAIN section[i], o \in Oddities : section' = [section EXCEPT ![i][j] = o]
        BY DEF Damage
    <2>2. CASE section' = SubSeq(section, 1, i - 1) \o SubSeq(section, i + 1, Len(section))
        BY <1>1, <1>2, <2>2, LineRemoved DEF Short
    <2>3. CASE \E j \in DOMAIN section[i], o \in Oddities : section' = [section EXCEPT ![i][j] = o]
        <3>1. PICK j \in DOMAIN section[i], o \in Oddities : section' = [section EXCEPT ![i][j] = o]
            BY <2>3
        <3>2. i \in 1..Len(section) /\ j \in 1..Len(section[i]) /\ o \in Tokens
            BY <1>2, ListAssumption
        <3> QED
            BY <1>2, <3>1, <3>2, TokenChanged
    <2> QED
        BY <2>1, <2>2, <2>3
<1>4. Filed'
    BY <1>3 DEF Damage, Filed
<1>5. Listed' /\ Fielded'
    BY DEF Damage, IInv, Listed, Fielded, dialog
<1> QED
    BY <1>4, <1>5 DEF IInv

\* Any section that is read at all gives forward ranges, and not too many.
LEMMA LoadIInv == IInv /\ Load => IInv'
<1> SUFFICES ASSUME IInv, Load PROVE IInv'
    OBVIOUS
<1>1. Listed'
    BY FramedIsShort DEF IInv, Load, Filed, Listed, Short
<1>2. Filed' /\ Fielded'
    BY DEF Load, IInv, Filed, Fielded, file, dialog
<1> QED
    BY <1>1, <1>2 DEF IInv

\* A field is filled with the text of a time in the list.
LEMMA FillIInv == IInv /\ Fill => IInv'
<1> SUFFICES ASSUME IInv, Fill PROVE IInv'
    OBVIOUS
<1> PICK i \in DOMAIN ranges : \E ms \in {ranges[i].start, ranges[i].end} :
              field' = FormatTimecode(ms) /\ shown' = {ms}
    BY DEF Fill
<1>1. PICK ms \in {ranges[i].start, ranges[i].end} : field' = FormatTimecode(ms) /\ shown' = {ms}
    OBVIOUS
<1>2. ranges[i] \in Ranges
    BY DEF IInv, Listed, Short
<1>3. ms \in 0..LongMax
    BY <1>1, <1>2, NumbersAre DEF Ranges
<1>4. Fielded'
    BY <1>1, <1>3, TimecodeReadsBack DEF Fielded
<1>5. Listed' /\ Filed'
    BY DEF Fill, IInv, Listed, Filed, file
<1> QED
    BY <1>4, <1>5 DEF IInv

\* A changed field is a text, but no longer known to be that of a time.
LEMMA DistortIInv == IInv /\ Distort => IInv'
<1> SUFFICES ASSUME IInv, Distort PROVE IInv'
    OBVIOUS
<1>1. PICK j \in DOMAIN field, o \in Oddities : field' = [field EXCEPT ![j] = o]
    BY DEF Distort
<1>2. o \in Tokens
    BY ListAssumption
<1>3. Fielded'
    BY <1>1, <1>2 DEF Distort, IInv, Fielded, Text
<1>4. Listed' /\ Filed'
    BY DEF Distort, IInv, Listed, Filed, file
<1> QED
    BY <1>3, <1>4 DEF IInv

\* Each step keeps the invariant.
LEMMA NextIInv == IInv /\ [Next]_vars => IInv'
<1> SUFFICES ASSUME IInv, [Next]_vars PROVE IInv'
    OBVIOUS
<1>1. CASE Close
    BY <1>1 DEF Close, IInv, Listed, Filed, Fielded, Text, file
<1>2. CASE UNCHANGED vars
    BY <1>2 DEF vars, file, dialog, IInv, Listed, Filed, Fielded
<1> QED
    BY <1>1, <1>2, EnterIInv, SaveIInv, DamageIInv, LoadIInv, FillIInv, DistortIInv DEF Next

\* IInv is inductive.
LEMMA Inductive == Spec => []IInv
BY InitIInv, NextIInv, PTL DEF Spec

-----------------------------------------------------------------------------
\* No text that is typed or read makes a range that is empty, lies backward,
\* starts below 0 or ends beyond 64 bits, however its sums and products wrap
\* (core.hpp:45-49).
THEOREM NoRangeBackward == Spec => []RangesForward
<1>1. IInv => RangesForward
    <2> SUFFICES ASSUME IInv, NEW i \in DOMAIN ranges
                 PROVE  /\ 0 <= ranges[i].start /\ ranges[i].start < ranges[i].end
                        /\ ranges[i].end <= LongMax
        BY DEF RangesForward
    <2>1. ranges[i] \in Ranges
        BY DEF IInv, Listed, Short
    <2> QED
        BY <2>1 DEF Ranges
<1> QED
    BY Inductive, <1>1, PTL

\* A section reads back as the very list it was built from, however long the
\* list and its numbers are; a changed one as a range per entry or not at all
\* (core.hpp:86-101).
THEOREM ListReadsBack == Spec => []SectionReadsBack
<1>1. IInv => SectionReadsBack
    <2> SUFFICES ASSUME IInv PROVE SectionReadsBack
        OBVIOUS
    <2>1. ASSUME NEW list \in written PROVE list \in ParsePlaySkipSection(section)
        <3>1. list \in Seq(Ranges) /\ Len(list) \in Nat /\ section = BuildPlaySkipSection(list)
              /\ Len(list) <= LongMax
            BY ShortListFits DEF IInv, Filed, Short
        <3> QED
            BY <3>1, SectionRoundTrip
    <2>2. ASSUME NEW list \in ParsePlaySkipSection(section) PROVE Len(list) = Len(Entries(section))
        BY SectionIs DEF IInv, Filed, Framed
    <2> QED
        BY <2>1, <2>2 DEF SectionReadsBack
<1> QED
    BY Inductive, <1>1, PTL

\* A time of up to 64 bits reads back exactly from its field, and from another
\* text no time is read that would be written otherwise (core.hpp:27-34).
THEOREM TimesReadBack == Spec => []TimecodeExact
<1>1. IInv => TimecodeExact
    <2> SUFFICES ASSUME IInv PROVE TimecodeExact
        OBVIOUS
    <2>1. ASSUME NEW ms \in shown PROVE ms \in ParseTimecode(field)
        BY TimecodeReadsBack DEF IInv, Fielded
    <2>2. ASSUME NEW ms \in ParseTimecode(field), HoursFit(field)
          PROVE  \A j \in DOMAIN field : LET token == FormatTimecode(ms)[j]
                    IN  token = [field[j] EXCEPT !.width = IF j = 1 THEN token.width ELSE @]
        BY <2>2, TimecodeIsRight DEF IInv, Fielded
    <2> QED
        BY <2>1, <2>2 DEF TimecodeExact
<1> QED
    BY Inductive, <1>1, PTL
=============================================================================
