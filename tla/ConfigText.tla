----------------------------- MODULE ConfigText -----------------------------
(***************************************************************************)
(* core/src/config.cpp: config.ini as text and as settings.                 *)
(*                                                                         *)
(* A file is a sequence of lines.  A line is cut, trimmed and lower-cased:  *)
(* a comment, a section header, a key with a value, or neither of these.    *)
(* A value is the sequence of its '+'-separated tokens, and a key of the    *)
(* keyboard is one token whatever its case.  A parser returns the set of    *)
(* what it read: empty where the code throws or returns nullopt.            *)
(***************************************************************************)
EXTENDS Integers, Sequences, SequencesExt

CONSTANTS KeyTokens,  \* the keys a hotkey may have: A-Z, 0-9, [ and ]
          Numerals,   \* numeral -> its value, for the numbers that fit in 64 bits
          Numeral    \* number -> its numeral, which has no leading zero

ASSUME TextAssumption ==
    /\ {"a", "[", "]"} \subseteq KeyTokens
    /\ \A t \in DOMAIN Numerals : Numerals[t] \in Nat
    /\ 1800 \in DOMAIN Numeral
    /\ \A t \in DOMAIN Numerals : Numerals[t] \in DOMAIN Numeral
    /\ \A n \in DOMAIN Numeral : Numeral[n] \in DOMAIN Numerals /\ Numerals[Numeral[n]] = n

-----------------------------------------------------------------------------
\* Control and Meta are other names of Ctrl and Win.
Modifier == [t \in {"ctrl", "alt", "shift", "win", "control", "meta"} |->
                CASE t = "control" -> "ctrl" [] t = "meta" -> "win" [] OTHER -> t]
Modifiers == {"ctrl", "alt", "shift", "win"}

\* Modifiers in any order, none twice, then a key.
ParseHotkeySpec(text) ==
    LET given == 1..Len(text) - 1
    IN  IF /\ text # <<>> /\ Last(text) \in KeyTokens
           /\ \A i \in given : text[i] \in DOMAIN Modifier
           /\ \A i, j \in given : Modifier[text[i]] = Modifier[text[j]] => i = j
        THEN {[modifiers |-> {Modifier[text[i]] : i \in given}, virtualKey |-> Last(text)]}
        ELSE {}

Shown(m, spec) == IF m \in spec.modifiers THEN <<m>> ELSE <<>>

\* Mutant: forgets one modifier.
FormatHotkeyUnshifted(spec) ==
    Shown("ctrl", spec) \o Shown("alt", spec) \o Shown("win", spec) \o <<spec.virtualKey>>

FormatHotkeySpec(spec) ==
    Shown("ctrl", spec) \o Shown("alt", spec) \o Shown("shift", spec) \o Shown("win", spec)
        \o <<spec.virtualKey>>

ParseBoolValue(text) ==
    CASE text = <<"true">> -> {TRUE} [] text = <<"false">> -> {FALSE} [] OTHER -> {}

\* Mutant: a sign is accepted.
ParseSignedMs(text) ==
    IF Len(text) # 1 THEN {}
    ELSE IF text[1] \in DOMAIN Numerals THEN {Numerals[text[1]]}
    ELSE IF text[1] = "-5" THEN {-5} ELSE {}

\* Digits only, and no more of them than a 64-bit number has.
ParseNonNegativeMs(text) ==
    IF Len(text) = 1 /\ text[1] \in DOMAIN Numerals THEN {Numerals[text[1]]} ELSE {}

Severity == {"info", "warn", "error"}
ParseSeverityName(text) ==
    CASE text = <<"warning">> -> {"warn"}
      [] \E s \in Severity : text = <<s>> -> {text[1]}
      [] OTHER -> {}

-----------------------------------------------------------------------------
HotkeyNames == {"newmark", "markstart", "markend"}
SwitchNames == {"global", "autoenable", "enabled"}
SectionOf == [newmark |-> "hotkeys", markstart |-> "hotkeys", markend |-> "hotkeys",
              global |-> "hotkeys", autoenable |-> "skip", enabled |-> "osd",
              durationms |-> "osd", verbosity |-> "log"]
Names == DOMAIN SectionOf
Sections == {SectionOf[k] : k \in Names}

ParseValue(k, text) == CASE k \in HotkeyNames -> ParseHotkeySpec(text)
                         [] k \in SwitchNames -> ParseBoolValue(text)
                         [] k = "durationms"  -> ParseNonNegativeMs(text)
                         [] k = "verbosity"   -> ParseSeverityName(text)
FormatValue(k, v) == CASE k \in HotkeyNames -> FormatHotkeySpec(v)
                       [] k \in SwitchNames -> IF v THEN <<"true">> ELSE <<"false">>
                       [] k = "durationms"  -> <<Numeral[v]>>
                       [] k = "verbosity"   -> <<v>>

Alt(key) == [modifiers |-> {"alt"}, virtualKey |-> key]
DefaultConfig == [newmark |-> Alt("a"), markstart |-> Alt("["), markend |-> Alt("]"),
                  global |-> FALSE, autoenable |-> TRUE, enabled |-> TRUE,
                  durationms |-> 1800, verbosity |-> "info"]

-----------------------------------------------------------------------------
Line(kind, name, value) == [kind |-> kind, name |-> name, value |-> value]
Comment == Line("comment", "", <<>>)
Junk == Line("junk", "", <<>>)
Header(s) == Line("header", s, <<>>)
Entry(k, text) == Line("entry", k, text)

Warn(st) == [st EXCEPT !.warnings = @ + 1]

\* Mutant: a header that is not understood leaves the section as it was.
ParseLineLeniently(st, l) ==
    CASE l.kind = "comment" -> st
      [] l.kind = "junk" -> Warn(st)
      [] l.kind = "header" -> IF l.name \in Sections THEN [st EXCEPT !.section = l.name]
                                                     ELSE Warn(st)
      [] l.kind = "entry" ->
            IF st.section = "unknown" THEN st
            ELSE IF l.name \notin Names THEN Warn(st)
            ELSE IF SectionOf[l.name] # st.section THEN Warn(st)
            ELSE IF ParseValue(l.name, l.value) = {} THEN Warn(st)
            ELSE [st EXCEPT !.config[l.name] = CHOOSE v \in ParseValue(l.name, l.value) : TRUE]

\* A header that is malformed or of no section of ours hides the keys below it.
ParseLine(st, l) ==
    CASE l.kind = "comment" -> st
      [] l.kind = "junk" -> Warn(st)
      [] l.kind = "header" -> IF l.name \in Sections THEN [st EXCEPT !.section = l.name]
                                                     ELSE Warn([st EXCEPT !.section = "unknown"])
      [] l.kind = "entry" ->
            IF st.section = "unknown" THEN st
            ELSE IF l.name \notin Names THEN Warn(st)
            ELSE IF SectionOf[l.name] # st.section THEN Warn(st)
            ELSE IF ParseValue(l.name, l.value) = {} THEN Warn(st)
            ELSE [st EXCEPT !.config[l.name] = CHOOSE v \in ParseValue(l.name, l.value) : TRUE]

\* What is known after each line.
Progress(lines) ==
    LET after[n \in 0..Len(lines)] ==
            IF n = 0 THEN [section |-> "none", config |-> DefaultConfig, warnings |-> 0]
                     ELSE ParseLine(after[n - 1], lines[n])
    IN  after
ParseConfig(lines) == LET end == Progress(lines)[Len(lines)]
                      IN  [config |-> end.config, warnings |-> end.warnings]

SerializeConfig(config) ==
    LET Put(k) == Entry(k, FormatValue(k, config[k]))
    IN  <<Comment, Header("hotkeys"), Put("newmark"), Put("markstart"), Put("markend"), Put("global"),
          Header("skip"), Put("autoenable"), Header("osd"), Put("enabled"), Put("durationms"),
          Header("log"), Put("verbosity")>>

-----------------------------------------------------------------------------
\* What a file means: a key has the value of the last line that gives it one,
\* below a header of its section, and its default if that value is malformed
\* (README.md:75-76, core/config.hpp:97-98) or there is no such line.
SectionAt(lines, i) ==
    LET above == {h \in 1..i - 1 : lines[h].kind = "header"}
    IN  IF above = {} THEN "none"
        ELSE lines[CHOOSE h \in above : \A g \in above : g <= h].name
Given(lines, k) == {i \in 1..Len(lines) : /\ lines[i].kind = "entry" /\ lines[i].name = k
                                          /\ SectionAt(lines, i) = SectionOf[k]}
LastGiven(lines, k) == CHOOSE i \in Given(lines, k) : \A j \in Given(lines, k) : j <= i
ValueAt(lines, i, k) == ParseValue(k, lines[i].value)
Meaning(lines) ==
    [k \in Names |->
        IF Given(lines, k) = {} \/ ValueAt(lines, LastGiven(lines, k), k) = {} THEN DefaultConfig[k]
        ELSE CHOOSE v \in ValueAt(lines, LastGiven(lines, k), k) : TRUE]

\* The key is malformed on its last line but not on all of them.
ValidThenMalformed(lines, k) == /\ \E i \in Given(lines, k) : ValueAt(lines, i, k) # {}
                                /\ ValueAt(lines, LastGiven(lines, k), k) = {}
=============================================================================
