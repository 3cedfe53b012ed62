------------------------------ MODULE PlaySkip ------------------------------
(***************************************************************************)
(* A skip list on its ways through text: typed by hand, written to a        *)
(* [PlaySkip] section that other programs may change before it is read      *)
(* back, and shown as timecodes in the fields of PotPlayer's dialog, of     *)
(* which PotPlayer may make another text before it is read again.  The      *)
(* texts are PlaySkipText's.                                                *)
(***************************************************************************)
EXTENDS PlaySkipText

CONSTANTS HumanTexts, \* ranges a user types
          Oddities,   \* tokens a damaged text may hold
          MaxRanges   \* bound: ranges that are typed

\* A numeral has the digits its value takes, at least; of the signs all those
\* that no parser looks for are one.
Signs == {"[PlaySkip]", ":", ".", "=", "*", "->", "~", "-", "other"}
Tokens == {t \in [is : {"digits"} \cup Signs, value : Nat, width : Nat] :
             IF t.is = "digits" THEN t.width \in 1..Digits /\ t.value < Power[t.width]
                                ELSE t = Sign(t.is)}
ASSUME ListAssumption == /\ MaxRanges \in Nat /\ MaxRanges < IntLimit
                         /\ HumanTexts \subseteq Seq(Tokens) /\ Oddities \subseteq Tokens

VARIABLES
  ranges,  \* the skip list
  section, \* the lines of a [PlaySkip] section
  field,   \* the text of a time field of Skip Interval Setup, empty while that is closed
  written, \* history: the list the section was built from, none once it was changed
  shown    \* history: the time the field was filled with, none once it was changed

file == <<section, written>>
dialog == <<field, shown>>
vars == <<ranges, file, dialog>>

Closed == field = <<>>
Init == /\ ranges = <<>> /\ section = BuildPlaySkipSection(<<>>) /\ written = {<<>>}
        /\ field = <<>> /\ shown = {}

\* A text that does not parse throws, and leaves the list alone.
Enter == /\ Closed /\ Len(ranges) < MaxRanges
         /\ \E text \in HumanTexts : \E r \in ParseHumanRange(text) : ranges' = Append(ranges, r)
         /\ UNCHANGED <<file, dialog>>

Save == /\ Closed /\ section' = BuildPlaySkipSection(ranges) /\ written' = {ranges}
        /\ UNCHANGED <<ranges, dialog>>

\* Bound: one change to a file.  A line goes, or a token becomes another.
Damage == /\ Closed /\ written # {} /\ written' = {}
          /\ \E i \in DOMAIN section :
                \/ section' = SubSeq(section, 1, i - 1) \o SubSeq(section, i + 1, Len(section))
                \/ \E j \in DOMAIN section[i], o \in Oddities : section' = [section EXCEPT ![i][j] = o]
          /\ UNCHANGED <<ranges, dialog>>

Load == /\ Closed /\ ranges' \in ParsePlaySkipSection(section)
        /\ UNCHANGED <<file, dialog>>

\* Bound: only while the file is as it was built.
Fill == /\ Closed /\ written # {}
        /\ \E i \in DOMAIN ranges : \E ms \in {ranges[i].start, ranges[i].end} :
              field' = FormatTimecode(ms) /\ shown' = {ms}
        /\ UNCHANGED <<ranges, file>>

\* Bound: one change to a field.  PotPlayer makes another text of it.
Distort == /\ shown # {} /\ shown' = {}
           /\ \E j \in DOMAIN field, o \in Oddities : field' = [field EXCEPT ![j] = o]
           /\ UNCHANGED <<ranges, file>>

Close == /\ ~Closed /\ field' = <<>> /\ shown' = {} /\ UNCHANGED <<ranges, file>>

Next == Enter \/ Save \/ Damage \/ Load \/ Fill \/ Distort \/ Close
Spec == Init /\ [][Next]_vars

-----------------------------------------------------------------------------
\* Every range there is lies forward and does not start below 0 (core.hpp:45-49),
\* though the sums and products it is read from may wrap.
RangesForward ==
    \A i \in DOMAIN ranges : /\ 0 <= ranges[i].start /\ ranges[i].start < ranges[i].end
                             /\ ranges[i].end <= LongMax

\* A section reads back as the list it was built from (core.hpp:86-101), and one
\* that was changed as one range for every line that is an entry, or not at all:
\* no line is skipped over.
SectionReadsBack ==
    LET read == ParsePlaySkipSection(section)
    IN  /\ written \subseteq read
        /\ \A list \in read : Len(list) = Len(Entries(section))

\* A time reads back exactly from the field it was written to (core.hpp:27-34);
\* from any other text it is read only if that is how the time is written, but
\* for the zeros before the hours, and for hours too many for 64 bits.
HoursFit(text) == text[1].value * Sixty * Sixty * Thousand < LongMax - Sixty * Sixty * Thousand
TimecodeExact ==
    LET read == ParseTimecode(field)
    IN  /\ shown \subseteq read
        /\ \A ms \in read : HoursFit(field) =>
             \A j \in DOMAIN field : LET token == FormatTimecode(ms)[j]
                IN  token = [field[j] EXCEPT !.width = IF j = 1 THEN token.width ELSE @]
=============================================================================
