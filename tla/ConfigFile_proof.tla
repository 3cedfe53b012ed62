------------------------- MODULE ConfigFile_proof -------------------------
(***************************************************************************)
(* What a configuration file holds is what is read from it.                 *)
(*                                                                         *)
(* It is never read while another program writes it: the sharing modes make *)
(* a writer exclusive and keep writers out while anyone reads; so the file  *)
(* a reader has open, and the file nobody writes, are at rest, and what     *)
(* GetFileSizeEx said is still so when the contents are read.               *)
(*                                                                         *)
(* What the parser then makes of the lines is what they mean, whatever the  *)
(* file, and what the serializer writes is read back as the configuration   *)
(* it was given.  Both are by induction over the lines.                     *)
(***************************************************************************)
EXTENDS ConfigFile, SequenceTheorems, WellFoundedInduction, TLAPS

-----------------------------------------------------------------------------
(***************************************************************************)
(* What the parser makes of a file, line by line.  The library's induction   *)
(* theorems take a predicate; the provers can only use them for a set, so   *)
(* induction is stated for one: what holds of 0 and of a number's successor *)
(* is a set that has every number.                                          *)
(***************************************************************************)
LEMMA InductiveSet ==
    ASSUME NEW S, 0 \in S, \A n \in Nat : n \in S => n + 1 \in S PROVE Nat \subseteq S
<1> DEFINE Less == {ss \in Nat \X Nat : ss[1] < ss[2]}
           Rest == Nat \ S
<1> SUFFICES ASSUME Rest # {} PROVE FALSE
    OBVIOUS
<1>1. IsWellFoundedOn(Less, Nat)
    BY NatLessThanWellFounded DEF OpToRel
<1>2. Rest \subseteq Nat
    OBVIOUS
<1>3. PICK least \in Rest : \A n \in Rest : <<n, least>> \notin Less
    <2> HIDE DEF Less, Rest
    <2> QED
        BY <1>1, <1>2, WFMin
<1>4. least - 1 \in Rest /\ least - 1 < least
    OBVIOUS
<1>5. <<least - 1, least>> \in Less
    BY <1>4
<1> QED
    BY <1>3, <1>4, <1>5

\* Before the first line: the defaults, and no section.
Beginning == [section |-> "none", config |-> DefaultConfig, warnings |-> 0]

\* f is what the parser knows after each of the first m lines.
Follows(f, lines, m) ==
    f = [n \in 0..m |-> IF n = 0 THEN Beginning ELSE ParseLine(f[n - 1], lines[n])]

\* The recursion of Progress has a solution, one line at a time.
LEMMA ProgressExists ==
    ASSUME NEW lines, NEW m \in Nat PROVE \E f : Follows(f, lines, m)
<1> DEFINE S == {n \in Nat : \E f : Follows(f, lines, n)}
<1>1. 0 \in S
    <2>1. Follows([n \in 0..0 |-> Beginning], lines, 0)
        BY DEF Follows
    <2> QED
        BY <2>1
<1>2. ASSUME NEW n \in Nat, n \in S PROVE n + 1 \in S
    <2>1. PICK f : Follows(f, lines, n)
        BY <1>2
    <2> DEFINE g == [i \in 0..n + 1 |-> IF i = n + 1 THEN ParseLine(f[n], lines[n + 1]) ELSE f[i]]
    <2>2. \A i \in 0..n + 1 :
             g[i] = IF i = 0 THEN Beginning ELSE ParseLine(g[i - 1], lines[i])
        BY <2>1 DEF Follows
    <2>3. Follows(g, lines, n + 1)
        BY <2>2 DEF Follows
    <2> QED
        BY <2>3
<1> HIDE DEF S
<1>3. Nat \subseteq S
    BY <1>1, <1>2, InductiveSet
<1> QED
    BY <1>3 DEF S

\* Progress is that solution: each line is parsed in what the lines above it left.
LEMMA ProgressIs ==
    ASSUME NEW lines, Len(lines) \in Nat
    PROVE  /\ Progress(lines)[0] = Beginning
           /\ \A n \in 1..Len(lines) :
                 Progress(lines)[n] = ParseLine(Progress(lines)[n - 1], lines[n])
<1>1. Progress(lines) = CHOOSE f : Follows(f, lines, Len(lines))
    BY DEF Progress, Follows, Beginning
<1>2. Follows(Progress(lines), lines, Len(lines))
    BY <1>1, ProgressExists
<1>3. PICK f : f = Progress(lines)
    OBVIOUS
<1>4. \A n \in 0..Len(lines) :
          f[n] = IF n = 0 THEN Beginning ELSE ParseLine(f[n - 1], lines[n])
    BY <1>2, <1>3 DEF Follows
<1> QED
    BY <1>3, <1>4

-----------------------------------------------------------------------------
(***************************************************************************)
(* Settings as they come from a file: what a key may have for a value, and   *)
(* what a number in them can be written as.                                  *)
(***************************************************************************)
Good(k, v) == /\ k \in HotkeyNames => v \in Specs
              /\ k \in SwitchNames => v \in BOOLEAN
              /\ k = "durationms" => v \in DOMAIN Numeral
              /\ k = "verbosity" => v \in Severity
Storable(c) == c = [k \in Names |-> c[k]] /\ \A k \in Names : Good(k, c[k])

\* The keys of the configuration and their sections.
LEMMA NamesAre ==
    /\ Names = {"newmark", "markstart", "markend", "global", "autoenable", "enabled",
                "durationms", "verbosity"}
    /\ HotkeyNames \subseteq Names /\ SwitchNames \subseteq Names
    /\ Sections = {"hotkeys", "skip", "osd", "log"}
    /\ \A k \in Names : SectionOf[k] \in Sections
<1>1. Names = {"newmark", "markstart", "markend", "global", "autoenable", "enabled",
               "durationms", "verbosity"}
    BY DEF Names, SectionOf
<1>2. Sections = {"hotkeys", "skip", "osd", "log"}
    BY <1>1 DEF Sections, SectionOf
<1> QED
    BY <1>1, <1>2 DEF Sections, HotkeyNames, SwitchNames

\* Such settings are of the types the plugin's configuration has.
LEMMA StorableIsValid == ASSUME NEW c, Storable(c) PROVE Valid(c)
<1>1. DOMAIN Numeral \subseteq Nat
    BY TextAssumption
<1> QED
    BY <1>1, NamesAre DEF Storable, Good, Valid

\* The defaults are such settings.
LEMMA DefaultIsStorable == Storable(DefaultConfig)
<1>1. DefaultConfig = [k \in Names |-> DefaultConfig[k]]
    BY NamesAre DEF DefaultConfig
<1>2. \A k \in {"a", "[", "]"} : Alt(k) \in Specs
    BY TextAssumption DEF Alt, Specs, Modifiers
<1>3. \A k \in HotkeyNames : DefaultConfig[k] \in {Alt(t) : t \in {"a", "[", "]"}}
    BY DEF DefaultConfig, HotkeyNames
<1>4. \A k \in SwitchNames : DefaultConfig[k] \in BOOLEAN
    <2>1. DefaultConfig.global = FALSE /\ DefaultConfig.autoenable = TRUE /\ DefaultConfig.enabled = TRUE
        BY DEF DefaultConfig
    <2> QED
        BY <2>1 DEF SwitchNames
<1>5. DefaultConfig["durationms"] = 1800 /\ DefaultConfig["verbosity"] = "info"
    BY DEF DefaultConfig
<1>6. 1800 \in DOMAIN Numeral
    BY TextAssumption
<1>7. \A k \in Names : Good(k, DefaultConfig[k])
    BY <1>2, <1>3, <1>4, <1>5, <1>6 DEF Good, Severity
<1> QED
    BY <1>1, <1>7 DEF Storable

\* Whatever a value's text is, what is read from it is good.
LEMMA ReadIsGood ==
    ASSUME NEW k \in Names, NEW given, NEW v \in ParseValue(k, given) PROVE Good(k, v)
<1>1. CASE k \in HotkeyNames
    <2>1. v \in ParseHotkeySpec(given)
        BY <1>1 DEF ParseValue, HotkeyNames, SwitchNames
    <2>2. \A m \in DOMAIN Modifier : Modifier[m] \in Modifiers
        BY DEF Modifier, Modifiers
    <2>3. v \in Specs
        BY <2>1, <2>2 DEF ParseHotkeySpec, Specs
    <2> QED
        BY <1>1, <2>3 DEF Good, HotkeyNames, SwitchNames
<1>2. CASE k \in SwitchNames
    BY <1>2 DEF ParseValue, ParseBoolValue, Good, HotkeyNames, SwitchNames
<1>3. CASE k = "durationms"
    BY <1>3, TextAssumption DEF ParseValue, ParseNonNegativeMs, Good, HotkeyNames, SwitchNames
<1>4. CASE k = "verbosity"
    BY <1>4 DEF ParseValue, ParseSeverityName, Good, HotkeyNames, SwitchNames, Severity
<1> QED
    BY <1>1, <1>2, <1>3, <1>4, NamesAre DEF HotkeyNames, SwitchNames

-----------------------------------------------------------------------------
LineKinds == {"comment", "junk", "header", "entry"}
\* A state of the parser.
State(st) == /\ st = [section |-> st.section, config |-> st.config, warnings |-> st.warnings]
             /\ Storable(st.config)
\* The line gives the key a value: it is the key's, in its section, and valid.
Gives(st, l, k) == /\ l.kind = "entry" /\ l.name = k /\ st.section = SectionOf[k]
                   /\ ParseValue(k, l.value) # {}

\* What one line does: a header moves to its section or to none of ours, an
\* entry may set its own key, and nothing else changes a section or a setting.
LEMMA LineDoes ==
    ASSUME NEW st, NEW l, State(st), l.kind \in LineKinds
    PROVE  /\ State(ParseLine(st, l))
           /\ ParseLine(st, l).section =
                  IF l.kind # "header" THEN st.section
                  ELSE IF l.name \in Sections THEN l.name ELSE "unknown"
           /\ \A k \in Names : ParseLine(st, l).config[k] =
                  IF Gives(st, l, k) THEN CHOOSE v \in ParseValue(k, l.value) : TRUE
                                     ELSE st.config[k]
<1> DEFINE new == ParseLine(st, l)
           Kept(s) == s = [section |-> s.section, config |-> st.config, warnings |-> s.warnings]
<1>1. \A k \in Names : SectionOf[k] # "unknown"
    BY NamesAre
<1>2. ASSUME Kept(new), \A k \in Names : ~Gives(st, l, k),
             new.section = IF l.kind # "header" THEN st.section
                           ELSE IF l.name \in Sections THEN l.name ELSE "unknown"
      PROVE  /\ State(new)
             /\ new.section = IF l.kind # "header" THEN st.section
                              ELSE IF l.name \in Sections THEN l.name ELSE "unknown"
             /\ \A k \in Names : new.config[k] =
                    IF Gives(st, l, k) THEN CHOOSE v \in ParseValue(k, l.value) : TRUE
                                       ELSE st.config[k]
    <2>1. new.config = st.config
        BY <1>2
    <2> HIDE DEF new
    <2> QED
        BY <1>2, <2>1 DEF State
<1>3. /\ Kept(st) /\ Kept(Warn(st)) /\ Warn(st).section = st.section
    BY DEF Warn, State
<1>4. ASSUME NEW s PROVE LET moved == [st EXCEPT !.section = s]
                         IN  Kept(moved) /\ moved.section = s /\ Kept(Warn(moved)) /\ Warn(moved).section = s
    <2> DEFINE moved == [st EXCEPT !.section = s]
    <2>1. moved = [section |-> s, config |-> st.config, warnings |-> st.warnings]
        BY DEF State
    <2> HIDE DEF moved
    <2>2. Warn(moved) = [section |-> s, config |-> st.config, warnings |-> st.warnings + 1]
        BY <2>1 DEF Warn
    <2> QED
        BY <2>1, <2>2 DEF moved
<1>5. CASE l.kind = "comment"
    <2>1. new = st
        BY <1>5 DEF ParseLine
    <2> QED
        BY <1>2, <1>3, <1>5, <2>1 DEF Gives
<1>6. CASE l.kind = "junk"
    <2>1. new = Warn(st)
        BY <1>6 DEF ParseLine
    <2> QED
        BY <1>2, <1>3, <1>6, <2>1 DEF Gives
<1>7. CASE l.kind = "header"
    <2>1. new = IF l.name \in Sections THEN [st EXCEPT !.section = l.name]
                                       ELSE Warn([st EXCEPT !.section = "unknown"])
        BY <1>7 DEF ParseLine
    <2> QED
        BY <1>2, <1>4, <1>7, <2>1 DEF Gives
<1>8. CASE l.kind = "entry" /\ \A k \in Names : ~Gives(st, l, k)
    <2>1. new = st \/ new = Warn(st)
        BY <1>8 DEF ParseLine, Gives
    <2> QED
        BY <1>2, <1>3, <1>8, <2>1
<1>9. ASSUME NEW name \in Names, Gives(st, l, name)
      PROVE  /\ State(new) /\ new.section = st.section
             /\ \A k \in Names : new.config[k] =
                    IF Gives(st, l, k) THEN CHOOSE v \in ParseValue(k, l.value) : TRUE
                                       ELSE st.config[k]
    <2> DEFINE v == CHOOSE v \in ParseValue(name, l.value) : TRUE
    <2>1. l.kind = "entry" /\ l.name = name /\ st.section = SectionOf[name]
          /\ ParseValue(name, l.value) # {}
        BY <1>9 DEF Gives
    <2>2. new = [st EXCEPT !.config[name] = v]
        BY <1>1, <2>1 DEF ParseLine
    <2>3. v \in ParseValue(name, l.value)
        BY <2>1
    <2>4. Good(name, v)
        BY <2>3, ReadIsGood
    <2>5. \A k \in Names : Gives(st, l, k) <=> k = name
        BY <1>9, <2>1 DEF Gives
    <2> HIDE DEF v, new
    <2>6. /\ new.config = [st.config EXCEPT ![name] = v]
          /\ new = [section |-> new.section, config |-> new.config, warnings |-> new.warnings]
          /\ new.section = st.section
        BY <2>2 DEF State
    <2>7. st.config = [k \in Names |-> st.config[k]]
        BY DEF State, Storable
    <2>8. \A k \in Names : new.config[k] = IF k = name THEN v ELSE st.config[k]
        BY <2>6, <2>7
    <2>9. new.config = [k \in Names |-> new.config[k]]
        BY <2>6, <2>7
    <2>10. Storable(new.config)
        BY <2>4, <2>8, <2>9 DEF State, Storable
    <2> QED
        BY <2>5, <2>6, <2>8, <2>10 DEF State, v
<1> HIDE DEF new
<1>10. CASE l.kind = "entry"
    BY <1>8, <1>9, <1>10 DEF new
<1>11. CASE l.kind # "entry"
    <2>1. l.kind \in {"comment", "junk", "header"}
        BY <1>11 DEF LineKinds
    <2> QED
        BY <1>5, <1>6, <1>7, <2>1 DEF new
<1> QED
    BY <1>10, <1>11 DEF new

-----------------------------------------------------------------------------
(***************************************************************************)
(* Line by line and file as a whole: after n lines a key has what the last   *)
(* of them that gives it a value gives it.                                   *)
(***************************************************************************)
\* The lines among the first n that give the key a value, and what they mean.
Sets(lines, i, k) == /\ lines[i].kind = "entry" /\ lines[i].name = k
                     /\ SectionAt(lines, i) = SectionOf[k]
                     /\ ParseValue(k, lines[i].value) # {}
Setting(lines, n, k) == {i \in 1..n : Sets(lines, i, k)}
LastOf(S) == CHOOSE i \in S : \A j \in S : j <= i
Meant(lines, n, k) ==
    IF Setting(lines, n, k) = {} THEN DefaultConfig[k]
    ELSE CHOOSE v \in ParseValue(k, lines[LastOf(Setting(lines, n, k))].value) : TRUE
AsMeant(st, lines, n) == /\ State(st)
                         /\ \A s \in Sections : st.section = s <=> SectionAt(lines, n + 1) = s
                         /\ \A k \in Names : st.config[k] = Meant(lines, n, k)

\* Some numbers up to n, if there are any, have a last one.
LEMMA LastExists ==
    ASSUME NEW n \in Nat, NEW T, T \subseteq 1..n, T # {}
    PROVE  LastOf(T) \in T /\ \A j \in T : j <= LastOf(T)
<1> DEFINE HasLast(U) == \E i \in U : \A j \in U : j <= i
           S == {m \in Nat : \A U \in SUBSET (1..m) : U # {} => HasLast(U)}
<1>1. 0 \in S
    <2>1. 1..0 = {}
        OBVIOUS
    <2> QED
        BY <2>1
<1>2. ASSUME NEW m \in Nat, m \in S PROVE m + 1 \in S
    <2> SUFFICES ASSUME NEW U \in SUBSET (1..(m + 1)), U # {} PROVE HasLast(U)
        BY <1>2
    <2>1. CASE m + 1 \in U
        <3>1. \A j \in U : j <= m + 1
            OBVIOUS
        <3> QED
            BY <2>1, <3>1
    <2>2. CASE m + 1 \notin U
        <3>1. U \in SUBSET (1..m)
            BY <2>2
        <3> QED
            BY <1>2, <3>1
    <2> QED
        BY <2>1, <2>2
<1> HIDE DEF S
<1>3. Nat \subseteq S
    BY <1>1, <1>2, InductiveSet
<1>4. HasLast(T)
    BY <1>3 DEF S
<1> QED
    BY <1>4 DEF LastOf

\* Up to the whole file, the last valid value is what the file means, but for a
\* key that was valid and is malformed on its last line.
LEMMA MeantIsMeaning ==
    ASSUME NEW lines, Len(lines) \in Nat, NEW k \in Names, ~ValidThenMalformed(lines, k)
    PROVE  Meant(lines, Len(lines), k) = Meaning(lines)[k]
<1> DEFINE S == Setting(lines, Len(lines), k)
           G == Given(lines, k)
           last == LastGiven(lines, k)
<1>1. S = {i \in G : ValueAt(lines, i, k) # {}} /\ G \subseteq 1..Len(lines)
    BY DEF Setting, Sets, Given, ValueAt
<1>2. last = LastOf(G)
    BY DEF LastGiven, LastOf
<1>3. Meant(lines, Len(lines), k) = IF S = {} THEN DefaultConfig[k]
                                    ELSE CHOOSE v \in ValueAt(lines, LastOf(S), k) : TRUE
    BY DEF Meant, ValueAt
<1>4. Meaning(lines)[k] = IF G = {} \/ ValueAt(lines, last, k) = {} THEN DefaultConfig[k]
                          ELSE CHOOSE v \in ValueAt(lines, last, k) : TRUE
    BY DEF Meaning
<1>5. (\E i \in G : ValueAt(lines, i, k) # {}) => ValueAt(lines, last, k) # {}
    BY DEF ValidThenMalformed
<1> HIDE DEF S, G, last
<1>6. CASE G = {}
    BY <1>1, <1>3, <1>4, <1>6
<1>7. CASE G # {}
    <2>1. last \in G /\ \A j \in G : j <= last
        BY <1>1, <1>2, <1>7, LastExists
    <2>2. CASE S = {}
        <3>1. ValueAt(lines, last, k) = {}
            BY <1>1, <2>1, <2>2
        <3> QED
            BY <1>3, <1>4, <2>2, <3>1
    <2>3. CASE S # {}
        <3>1. ValueAt(lines, last, k) # {}
            BY <1>1, <1>5, <2>3
        <3>2. last \in S /\ \A j \in S : j <= last
            BY <1>1, <2>1, <3>1
        <3>3. LastOf(S) \in S /\ \A j \in S : j <= LastOf(S)
            BY <1>1, <2>3, LastExists
        <3>4. LastOf(S) = last
            <4>1. 1..Len(lines) \subseteq Int
                OBVIOUS
            <4>2. last \in Int /\ LastOf(S) \in Int
                BY <1>1, <3>2, <3>3, <4>1
            <4>3. last <= LastOf(S) /\ LastOf(S) <= last
                BY <3>2, <3>3
            <4> QED
                BY <4>2, <4>3
        <3> QED
            BY <1>3, <1>4, <1>7, <2>3, <3>1, <3>4
    <2> QED
        BY <2>2, <2>3
<1> QED
    BY <1>6, <1>7

\* A configuration gives every key what the lines say of it.
Right(c, lines) == \A k \in Names : ValidThenMalformed(lines, k) \/ c[k] = Meaning(lines)[k]

\* The last of some numbers is the one that comes after them all.
LEMMA LastIs ==
    ASSUME NEW n \in Nat, NEW S, S \subseteq 1..n PROVE LastOf(S \cup {n + 1}) = n + 1
<1>1. \A i \in S \cup {n + 1} : i \in Int /\ i <= n + 1
    OBVIOUS
<1>2. \A i \in S \cup {n + 1} : (\A j \in S \cup {n + 1} : j <= i) <=> i = n + 1
    BY <1>1
<1> QED
    BY <1>2 DEF LastOf

\* The section below one more line: a header's own, or the one above it.
LEMMA SectionMoves ==
    ASSUME NEW lines, NEW n \in Nat
    PROVE  SectionAt(lines, n + 2) = IF lines[n + 1].kind = "header" THEN lines[n + 1].name
                                     ELSE SectionAt(lines, n + 1)
<1> DEFINE Above(i) == {h \in 1..i - 1 : lines[h].kind = "header"}
<1>1. \A i : SectionAt(lines, i) = IF Above(i) = {} THEN "none"
                                   ELSE lines[CHOOSE h \in Above(i) : \A g \in Above(i) : g <= h].name
    BY DEF SectionAt
<1>2. Above(n + 2) = IF lines[n + 1].kind = "header" THEN Above(n + 1) \cup {n + 1} ELSE Above(n + 1)
    <2>1. 1..(n + 2) - 1 = (1..(n + 1) - 1) \cup {n + 1}
        OBVIOUS
    <2> QED
        BY <2>1
<1>3. Above(n + 1) \subseteq 1..n
    OBVIOUS
<1> HIDE DEF Above
<1>4. CASE lines[n + 1].kind = "header"
    <2>1. Above(n + 2) # {} /\ LastOf(Above(n + 2)) = n + 1
        BY <1>2, <1>3, <1>4, LastIs
    <2> QED
        BY <1>1, <1>4, <2>1 DEF LastOf
<1>5. CASE lines[n + 1].kind # "header"
    BY <1>1, <1>2, <1>5
<1> QED
    BY <1>4, <1>5

\* One more line keeps the parser and the file's meaning together.
LEMMA LineAsMeant ==
    ASSUME NEW lines, NEW n \in Nat, NEW st, AsMeant(st, lines, n), lines[n + 1].kind \in LineKinds
    PROVE  AsMeant(ParseLine(st, lines[n + 1]), lines, n + 1)
<1> DEFINE l == lines[n + 1]
           new == ParseLine(st, l)
<1>1. /\ State(new)
      /\ new.section = IF l.kind # "header" THEN st.section
                       ELSE IF l.name \in Sections THEN l.name ELSE "unknown"
      /\ \A k \in Names : new.config[k] =
             IF Gives(st, l, k) THEN CHOOSE v \in ParseValue(k, l.value) : TRUE ELSE st.config[k]
    <2>1. State(st) /\ l.kind \in LineKinds
        BY DEF AsMeant
    <2> HIDE DEF l
    <2> QED
        BY <2>1, LineDoes
<1>2. SectionAt(lines, n + 2) = IF l.kind = "header" THEN l.name ELSE SectionAt(lines, n + 1)
    BY SectionMoves
<1>3. \A k \in Names : Gives(st, l, k) <=> Sets(lines, n + 1, k)
    BY NamesAre DEF Gives, Sets, AsMeant
<1> HIDE DEF l, new
<1>4. \A s \in Sections : new.section = s <=> SectionAt(lines, n + 2) = s
    BY <1>1, <1>2, NamesAre DEF AsMeant
<1>5. ASSUME NEW k \in Names PROVE new.config[k] = Meant(lines, n + 1, k)
    <2>1. Setting(lines, n + 1, k) = IF Sets(lines, n + 1, k) THEN Setting(lines, n, k) \cup {n + 1}
                                     ELSE Setting(lines, n, k)
        <3>1. 1..n + 1 = (1..n) \cup {n + 1}
            OBVIOUS
        <3> QED
            BY <3>1 DEF Setting
    <2>2. Setting(lines, n, k) \subseteq 1..n
        BY DEF Setting
    <2>3. CASE Sets(lines, n + 1, k)
        <3>1. Setting(lines, n + 1, k) # {} /\ LastOf(Setting(lines, n + 1, k)) = n + 1
            BY <2>1, <2>2, <2>3, LastIs
        <3> QED
            BY <1>1, <1>3, <2>3, <3>1 DEF Meant, l
    <2>4. CASE ~Sets(lines, n + 1, k)
        BY <1>1, <1>3, <2>1, <2>4 DEF Meant, AsMeant
    <2> QED
        BY <2>3, <2>4
<1>6. n + 1 + 1 = n + 2
    OBVIOUS
<1> QED
    BY <1>1, <1>4, <1>5, <1>6 DEF AsMeant, l, new

\* Text is what a file may hold; only the kinds of its lines matter.
Readable(lines) == Len(lines) \in Nat /\ \A i \in 1..Len(lines) : lines[i].kind \in LineKinds

\* ParseConfig gives the keys what the file as a whole says of them.
LEMMA ParserIsRight ==
    ASSUME NEW lines, Readable(lines)
    PROVE  Right(ParseConfig(lines).config, lines) /\ Storable(ParseConfig(lines).config)
<1> DEFINE S == {n \in Nat : n <= Len(lines) => AsMeant(Progress(lines)[n], lines, n)}
<1>1. 0 \in S
    <2>1. SectionAt(lines, 1) = "none" /\ \A k : Setting(lines, 0, k) = {}
        BY DEF SectionAt, Setting
    <2>2. AsMeant(Beginning, lines, 0)
        BY <2>1, DefaultIsStorable, NamesAre DEF AsMeant, State, Beginning, Meant
    <2> QED
        BY <2>2, ProgressIs DEF Readable
<1>2. ASSUME NEW n \in Nat, n \in S PROVE n + 1 \in S
    <2> SUFFICES ASSUME n + 1 <= Len(lines) PROVE AsMeant(Progress(lines)[n + 1], lines, n + 1)
        BY DEF S
    <2>1. n + 1 \in 1..Len(lines) /\ n + 1 - 1 = n /\ n <= Len(lines)
        BY DEF Readable
    <2>2. Progress(lines)[n + 1] = ParseLine(Progress(lines)[n], lines[n + 1])
        BY <2>1, ProgressIs DEF Readable
    <2>3. AsMeant(Progress(lines)[n], lines, n)
        BY <1>2, <2>1
    <2> QED
        BY <2>1, <2>2, <2>3, LineAsMeant DEF Readable
<1> HIDE DEF S
<1>3. Nat \subseteq S
    BY <1>1, <1>2, InductiveSet
<1>4. AsMeant(Progress(lines)[Len(lines)], lines, Len(lines))
    BY <1>3 DEF S, Readable
<1>5. PICK end : end = Progress(lines)[Len(lines)]
    OBVIOUS
<1>6. ParseConfig(lines).config = end.config
    BY <1>5 DEF ParseConfig
<1>7. Storable(end.config) /\ \A k \in Names : end.config[k] = Meant(lines, Len(lines), k)
    BY <1>4, <1>5 DEF AsMeant, State
<1>8. Right(end.config, lines)
    BY <1>7, MeantIsMeaning DEF Right, Readable
<1> QED
    BY <1>6, <1>7, <1>8

-----------------------------------------------------------------------------
(***************************************************************************)
(* Back from text: what FormatValue writes, ParseValue reads.                *)
(***************************************************************************)
\* t is the set M, written down without repetition.
Listed(t, M) == /\ t \in Seq(Modifiers) /\ {t[i] : i \in 1..Len(t)} = M
                /\ \A i, j \in 1..Len(t) : t[i] = t[j] => i = j

\* One more modifier on a list without repetition.
LEMMA ListOneMore ==
    ASSUME NEW t, NEW M, Listed(t, M), NEW m \in Modifiers \ M, NEW spec
    PROVE  Listed(t \o Shown(m, spec), M \cup (spec.modifiers \cap {m}))
<1>1. CASE m \notin spec.modifiers
    <2>1. t \o Shown(m, spec) = t
        BY <1>1, ConcatEmptySeq DEF Shown, Listed
    <2> QED
        BY <1>1, <2>1
<1>2. CASE m \in spec.modifiers
    <2> DEFINE new == t \o <<m>>
    <2>1. /\ new \in Seq(Modifiers) /\ Len(new) = Len(t) + 1 /\ new[Len(t) + 1] = m
          /\ \A i \in 1..Len(t) : new[i] = t[i]
        BY DEF Listed
    <2>2. Len(t) \in Nat /\ \A i \in 1..Len(t) : t[i] # m
        BY DEF Listed
    <2>3. 1..Len(new) = (1..Len(t)) \cup {Len(t) + 1}
        BY <2>1, <2>2
    <2> HIDE DEF new
    <2>4. {new[i] : i \in 1..Len(new)} = M \cup {m}
        BY <2>1, <2>3 DEF Listed
    <2>5. \A i, j \in 1..Len(new) : new[i] = new[j] => i = j
        BY <2>1, <2>2, <2>3 DEF Listed
    <2>6. Listed(new, M \cup {m})
        BY <2>1, <2>4, <2>5 DEF Listed
    <2> QED
        BY <1>2, <2>6 DEF Shown, new
<1> QED
    BY <1>1, <1>2

\* A hotkey is read back from its text, whatever its modifiers and key.
LEMMA HotkeyReadsBack == ASSUME NEW spec \in Specs PROVE ParseHotkeySpec(FormatHotkeySpec(spec)) = {spec}
<1> DEFINE t == Shown("ctrl", spec) \o Shown("alt", spec) \o Shown("shift", spec) \o Shown("win", spec)
           key == spec.virtualKey
           whole == t \o <<key>>
           given == 1..Len(whole) - 1
<1>1. spec = [modifiers |-> spec.modifiers, virtualKey |-> key] /\ spec.modifiers \subseteq Modifiers
      /\ key \in KeyTokens
    BY DEF Specs
<1>2. Listed(t, spec.modifiers)
    <2>1. Listed(<<>>, {})
        BY DEF Listed
    <2>2. Shown("ctrl", spec) = <<>> \o Shown("ctrl", spec)
        BY DEF Shown
    <2>3. Listed(Shown("ctrl", spec), spec.modifiers \cap {"ctrl"})
        <3>1. {} \cup (spec.modifiers \cap {"ctrl"}) = spec.modifiers \cap {"ctrl"}
            OBVIOUS
        <3>2. Listed(<<>> \o Shown("ctrl", spec), {} \cup (spec.modifiers \cap {"ctrl"}))
            BY <2>1, ListOneMore DEF Modifiers
        <3> QED
            BY <2>2, <3>1, <3>2
    <2>4. Listed(Shown("ctrl", spec) \o Shown("alt", spec), spec.modifiers \cap {"ctrl", "alt"})
        <3>1. (spec.modifiers \cap {"ctrl"}) \cup (spec.modifiers \cap {"alt"})
                 = spec.modifiers \cap {"ctrl", "alt"}
            OBVIOUS
        <3> QED
            BY <2>3, <3>1, ListOneMore DEF Modifiers
    <2>5. Listed(Shown("ctrl", spec) \o Shown("alt", spec) \o Shown("shift", spec),
                 spec.modifiers \cap {"ctrl", "alt", "shift"})
        <3>1. (spec.modifiers \cap {"ctrl", "alt"}) \cup (spec.modifiers \cap {"shift"})
                 = spec.modifiers \cap {"ctrl", "alt", "shift"}
            OBVIOUS
        <3> QED
            BY <2>4, <3>1, ListOneMore DEF Modifiers
    <2>6. (spec.modifiers \cap {"ctrl", "alt", "shift"}) \cup (spec.modifiers \cap {"win"})
             = spec.modifiers
        BY <1>1 DEF Modifiers
    <2> QED
        BY <2>5, <2>6, ListOneMore DEF Modifiers
<1> HIDE DEF t
<1>3. /\ Len(whole) = Len(t) + 1 /\ whole[Len(t) + 1] = key /\ Len(t) \in Nat /\ whole # <<>>
      /\ \A i \in 1..Len(t) : whole[i] = t[i] /\ t[i] \in Modifiers
    <2>1. Len(t) \in Nat /\ \A i \in 1..Len(t) : t[i] \in Modifiers
        BY <1>2 DEF Listed
    <2>2. t \in Seq(Modifiers \cup {key})
        BY <1>2, SeqMonotonic DEF Listed
    <2> QED
        BY <2>1, <2>2
<1>4. FormatHotkeySpec(spec) = whole
    BY DEF FormatHotkeySpec, t
<1>5. given = 1..Len(t) /\ Last(whole) = key
    BY <1>3 DEF Last
<1> HIDE DEF whole, given
<1>6. \A m \in Modifiers : m \in DOMAIN Modifier /\ Modifier[m] = m
    BY DEF Modifier, Modifiers
<1>7. \A i \in given : whole[i] \in DOMAIN Modifier /\ Modifier[whole[i]] = t[i]
    BY <1>3, <1>5, <1>6
<1>8. {Modifier[whole[i]] : i \in given} = spec.modifiers
    BY <1>2, <1>5, <1>7 DEF Listed
<1>9. \A i, j \in given : Modifier[whole[i]] = Modifier[whole[j]] => i = j
    BY <1>2, <1>5, <1>7 DEF Listed
<1>10. ParseHotkeySpec(whole) = {[modifiers |-> {Modifier[whole[i]] : i \in given}, virtualKey |-> key]}
    BY <1>1, <1>3, <1>5, <1>7, <1>9 DEF ParseHotkeySpec, given
<1> QED
    BY <1>1, <1>4, <1>8, <1>10

\* So is the value of every key.
LEMMA ValueReadsBack ==
    ASSUME NEW k \in Names, NEW v, Good(k, v) PROVE ParseValue(k, FormatValue(k, v)) = {v}
<1>1. CASE k \in HotkeyNames
    BY <1>1, HotkeyReadsBack DEF ParseValue, FormatValue, Good, HotkeyNames, SwitchNames
<1>2. CASE k \in SwitchNames
    <2>1. v \in BOOLEAN /\ FormatValue(k, v) = (IF v THEN <<"true">> ELSE <<"false">>)
        BY <1>2 DEF FormatValue, Good, HotkeyNames, SwitchNames
    <2>2. \A given : ParseValue(k, given) = ParseBoolValue(given)
        BY <1>2 DEF ParseValue, HotkeyNames, SwitchNames
    <2>3. ParseBoolValue(<<"true">>) = {TRUE} /\ ParseBoolValue(<<"false">>) = {FALSE}
        BY DEF ParseBoolValue
    <2>4. CASE v = TRUE
        BY <2>1, <2>2, <2>3, <2>4
    <2>5. CASE v = FALSE
        BY <2>1, <2>2, <2>3, <2>5
    <2> QED
        BY <2>1, <2>4, <2>5
<1>3. CASE k = "durationms"
    <2>1. v \in DOMAIN Numeral /\ FormatValue(k, v) = <<Numeral[v]>>
        BY <1>3 DEF FormatValue, Good, HotkeyNames, SwitchNames
    <2>2. ParseValue(k, <<Numeral[v]>>) = ParseNonNegativeMs(<<Numeral[v]>>)
        BY <1>3 DEF ParseValue, HotkeyNames, SwitchNames
    <2>3. Numeral[v] \in DOMAIN Numerals /\ Numerals[Numeral[v]] = v
        BY <2>1, TextAssumption
    <2> QED
        BY <2>1, <2>2, <2>3 DEF ParseNonNegativeMs
<1>4. CASE k = "verbosity"
    <2>1. v \in Severity /\ FormatValue(k, v) = <<v>>
        BY <1>4 DEF FormatValue, Good, HotkeyNames, SwitchNames
    <2>2. ParseValue(k, <<v>>) = ParseSeverityName(<<v>>)
        BY <1>4 DEF ParseValue, HotkeyNames, SwitchNames
    <2> QED
        BY <2>1, <2>2 DEF ParseSeverityName, Severity
<1> QED
    BY <1>1, <1>2, <1>3, <1>4, NamesAre DEF HotkeyNames, SwitchNames

\* The parser has read the settings K of c without a warning.
Restored(st, section, c, K) == /\ State(st) /\ st.section = section /\ st.warnings = 0
                               /\ \A k \in K : st.config[k] = c[k]

\* A header of the written file moves the parser to its section.
LEMMA RestoreHeader ==
    ASSUME NEW st, NEW above, NEW c, NEW K, Restored(st, above, c, K), NEW s \in Sections
    PROVE  Restored(ParseLine(st, Header(s)), s, c, K)
<1>1. ParseLine(st, Header(s)) = [st EXCEPT !.section = s]
    BY DEF ParseLine, Header, Line
<1>2. [st EXCEPT !.section = s] = [section |-> s, config |-> st.config, warnings |-> 0]
    BY DEF Restored, State
<1> QED
    BY <1>1, <1>2 DEF Restored, State

\* An entry of the written file, below its header, restores its key.
LEMMA RestoreEntry ==
    ASSUME NEW st, NEW c, Storable(c), NEW K, K \subseteq Names, NEW k \in Names,
           Restored(st, SectionOf[k], c, K)
    PROVE  Restored(ParseLine(st, Entry(k, FormatValue(k, c[k]))), SectionOf[k], c, K \cup {k})
<1> DEFINE l == Entry(k, FormatValue(k, c[k]))
           new == ParseLine(st, l)
<1>1. l.kind = "entry" /\ l.name = k /\ l.value = FormatValue(k, c[k])
    BY DEF Entry, Line
<1>2. ParseValue(k, l.value) = {c[k]}
    BY <1>1, ValueReadsBack DEF Storable
<1>3. (CHOOSE v \in ParseValue(k, l.value) : TRUE) = c[k]
    BY <1>2
<1> HIDE DEF l
<1>4. SectionOf[k] # "unknown"
    BY NamesAre
<1>5. new = [st EXCEPT !.config[k] = c[k]]
    BY <1>1, <1>2, <1>3, <1>4 DEF ParseLine, Restored
<1> HIDE DEF new
<1>6. /\ new.config = [st.config EXCEPT ![k] = c[k]]
      /\ new = [section |-> new.section, config |-> new.config, warnings |-> new.warnings]
      /\ new.section = SectionOf[k] /\ new.warnings = 0
    BY <1>5 DEF Restored, State
<1>7. st.config = [n \in Names |-> st.config[n]]
    BY DEF Restored, State, Storable
<1>8. /\ new.config = [n \in Names |-> new.config[n]]
      /\ \A n \in Names : new.config[n] = IF n = k THEN c[k] ELSE st.config[n]
    BY <1>6, <1>7
<1>9. Storable(new.config)
    BY <1>8 DEF Restored, State, Storable
<1> QED
    BY <1>6, <1>8, <1>9 DEF Restored, State, new, l

\* The whole of what SerializeConfig writes, ParseConfig reads back unwarned.
LEMMA ReadsBack ==
    ASSUME NEW c, Storable(c) PROVE ParseConfig(SerializeConfig(c)) = [config |-> c, warnings |-> 0]
<1> DEFINE Put(k) == Entry(k, FormatValue(k, c[k]))
<1>1. PICK lines : lines = SerializeConfig(c)
    OBVIOUS
<1>2. /\ Len(lines) = 13 /\ lines[1] = Comment /\ lines[2] = Header("hotkeys")
      /\ lines[3] = Put("newmark") /\ lines[4] = Put("markstart")
      /\ lines[5] = Put("markend") /\ lines[6] = Put("global")
      /\ lines[7] = Header("skip") /\ lines[8] = Put("autoenable")
      /\ lines[9] = Header("osd") /\ lines[10] = Put("enabled") /\ lines[11] = Put("durationms")
      /\ lines[12] = Header("log") /\ lines[13] = Put("verbosity")
    BY <1>1 DEF SerializeConfig
<1>3. PICK p : p = Progress(lines)
    OBVIOUS
<1>4. p[0] = Beginning /\ \A n \in 1..13 : p[n] = ParseLine(p[n - 1], lines[n])
    <2>1. Len(lines) = 13 /\ Len(lines) \in Nat
        BY <1>2
    <2>2. /\ Progress(lines)[0] = Beginning
          /\ \A n \in 1..Len(lines) :
                Progress(lines)[n] = ParseLine(Progress(lines)[n - 1], lines[n])
        BY <2>1, ProgressIs
    <2>3. \A n \in 1..13 : Progress(lines)[n] = ParseLine(Progress(lines)[n - 1], lines[n])
        BY <2>1, <2>2
    <2> QED
        BY <1>3, <2>2, <2>3
<1>5. \A n \in 0..12 : p[n + 1] = ParseLine(p[n], lines[n + 1])
    BY <1>4
<1>6. /\ p[1] = ParseLine(p[0], lines[1]) /\ p[2] = ParseLine(p[1], lines[2])
      /\ p[3] = ParseLine(p[2], lines[3]) /\ p[4] = ParseLine(p[3], lines[4])
      /\ p[5] = ParseLine(p[4], lines[5]) /\ p[6] = ParseLine(p[5], lines[6])
      /\ p[7] = ParseLine(p[6], lines[7]) /\ p[8] = ParseLine(p[7], lines[8])
      /\ p[9] = ParseLine(p[8], lines[9]) /\ p[10] = ParseLine(p[9], lines[10])
      /\ p[11] = ParseLine(p[10], lines[11]) /\ p[12] = ParseLine(p[11], lines[12])
      /\ p[13] = ParseLine(p[12], lines[13])
    BY <1>5
<1>7. Restored(Beginning, "none", c, {})
    BY DefaultIsStorable DEF Restored, State, Beginning
<1>8. Restored(p[1], "none", c, {})
    <2>1. ParseLine(Beginning, Comment) = Beginning
        BY DEF ParseLine, Comment, Line
    <2>2. p[1] = Beginning
        BY <2>1, <1>2, <1>4, <1>6
    <2> QED
        BY <2>2, <1>7
<1>9. /\ \A k \in {"newmark", "markstart", "markend", "global"} :
             k \in Names /\ SectionOf[k] = "hotkeys"
      /\ "autoenable" \in Names /\ SectionOf["autoenable"] = "skip"
      /\ \A k \in {"enabled", "durationms"} : k \in Names /\ SectionOf[k] = "osd"
      /\ "verbosity" \in Names /\ SectionOf["verbosity"] = "log"
    BY DEF Names, SectionOf
<1>10. \A s \in {"hotkeys", "skip", "osd", "log"} : s \in Sections
    BY NamesAre
<1> HIDE DEF Put
<1>11. ASSUME NEW st, NEW s, NEW k, k \in Names, SectionOf[k] = s, NEW K, K \subseteq Names,
              Restored(st, s, c, K)
       PROVE  Restored(ParseLine(st, Put(k)), s, c, K \cup {k})
    BY <1>11, RestoreEntry DEF Put
<1>12. Restored(p[2], "hotkeys", c, {})
    BY <1>2, <1>6, <1>8, <1>10, RestoreHeader
<1>13. Restored(p[3], "hotkeys", c, {} \cup {"newmark"})
    BY <1>2, <1>6, <1>9, <1>11, <1>12
<1>14. Restored(p[4], "hotkeys", c, ({} \cup {"newmark"}) \cup {"markstart"})
    BY <1>2, <1>6, <1>9, <1>11, <1>13
<1>15. Restored(p[4], "hotkeys", c, {"newmark", "markstart"})
    BY <1>14 DEF Restored
<1>16. Restored(p[5], "hotkeys", c, {"newmark", "markstart"} \cup {"markend"})
    BY <1>2, <1>6, <1>9, <1>11, <1>15
<1>17. Restored(p[5], "hotkeys", c, {"newmark", "markstart", "markend"})
    BY <1>16 DEF Restored
<1>18. Restored(p[6], "hotkeys", c, {"newmark", "markstart", "markend"} \cup {"global"})
    BY <1>2, <1>6, <1>9, <1>11, <1>17
<1>19. Restored(p[7], "skip", c, {"newmark", "markstart", "markend", "global"})
    <2>1. Restored(p[6], "hotkeys", c, {"newmark", "markstart", "markend", "global"})
        BY <1>18 DEF Restored
    <2> QED
        BY <2>1, <1>2, <1>6, <1>10, RestoreHeader
<1>20. Restored(p[8], "skip", c, {"newmark", "markstart", "markend", "global"} \cup {"autoenable"})
    BY <1>2, <1>6, <1>9, <1>11, <1>19
<1>21. Restored(p[9], "osd", c, {"newmark", "markstart", "markend", "global", "autoenable"})
    <2>1. Restored(p[8], "skip", c, {"newmark", "markstart", "markend", "global", "autoenable"})
        BY <1>20 DEF Restored
    <2> QED
        BY <2>1, <1>2, <1>6, <1>10, RestoreHeader
<1>22. Restored(p[10], "osd", c, {"newmark", "markstart", "markend", "global", "autoenable"}
                                     \cup {"enabled"})
    BY <1>2, <1>6, <1>9, <1>11, <1>21
<1>23. Restored(p[10], "osd", c, {"newmark", "markstart", "markend", "global", "autoenable", "enabled"})
    BY <1>22 DEF Restored
<1>24. Restored(p[11], "osd", c, {"newmark", "markstart", "markend", "global", "autoenable", "enabled"}
                                     \cup {"durationms"})
    BY <1>2, <1>6, <1>9, <1>11, <1>23
<1>25. Restored(p[12], "log", c, Names \ {"verbosity"})
    <2>1. Restored(p[11], "osd", c, Names \ {"verbosity"})
        BY <1>24, NamesAre DEF Restored
    <2> QED
        BY <2>1, <1>2, <1>6, <1>10, RestoreHeader
<1>26. Restored(p[13], "log", c, (Names \ {"verbosity"}) \cup {"verbosity"})
    BY <1>2, <1>6, <1>9, <1>11, <1>25
<1>27. p[13].config = c /\ p[13].warnings = 0
    BY <1>26 DEF Restored, State, Storable
<1> QED
    BY <1>1, <1>2, <1>3, <1>27 DEF ParseConfig

-----------------------------------------------------------------------------
(***************************************************************************)
(* The file and those who have it open.                                     *)
(***************************************************************************)
Users == Players \cup {Editor}
Quiet == \A u \in Users : handle[u].access # "write"

\* A line of a file that a user or LoadConfig wrote.
DefaultLines == {Comment} \cup {Header(s) : s \in Sections}
                    \cup {Entry(k, FormatValue(k, DefaultConfig[k])) : k \in Names}
AnyLine == Lines \cup DefaultLines

\* One writer at most, and no reader beside it.
Handles == /\ handle \in [Users -> {Closed, Reading, Writing, Saving}]
           /\ \A u, v \in Users : u # v /\ handle[u].access = "write" => handle[v] = Closed

\* A PotPlayer holds the handle of the line it is at; the editor saves or is away.
Held == /\ pc \in [Players -> {"ended", "open", "size", "read", "create", "write", "loaded"}]
        /\ \A p \in Players :
              handle[p] = IF pc[p] \in {"size", "read"} THEN Reading
                          ELSE IF pc[p] = "write" THEN Writing ELSE Closed
        /\ handle[Editor] \in {Closed, Saving}

\* The file is a text; with no writer at it, one it had at rest.
AtRest == /\ file \in Seq(AnyLine)
          /\ present /\ Quiet => file \in atRest
          /\ \A p \in Players : pc[p] \in {"size", "read"} => present

\* What a reader knows of the size is the size.
Sized == /\ size = [p \in Players |-> size[p]]
         /\ \A p \in Players : pc[p] = "read" => size[p] = Len(file)

Read == text = [p \in Players |-> text[p]] /\ ReadsAtRest

IInv == Handles /\ Held /\ AtRest /\ Sized /\ Read

-----------------------------------------------------------------------------
\* The default file is a text.
LEMMA DefaultIsText == DefaultText \in Seq(AnyLine)
<1> DEFINE Put(k) == Entry(k, FormatValue(k, DefaultConfig[k]))
<1>1. DefaultText =
        <<Comment, Header("hotkeys"), Put("newmark"), Put("markstart"), Put("markend"), Put("global"),
          Header("skip"), Put("autoenable"), Header("osd"), Put("enabled"), Put("durationms"),
          Header("log"), Put("verbosity")>>
    BY DEF DefaultText, SerializeConfig
<1>2. /\ Comment \in AnyLine
      /\ \A s \in {"hotkeys", "skip", "osd", "log"} : Header(s) \in AnyLine
    BY NamesAre DEF AnyLine, DefaultLines
<1>3. \A k \in {"newmark", "markstart", "markend", "global", "autoenable", "enabled",
                "durationms", "verbosity"} : Put(k) \in AnyLine
    BY NamesAre DEF AnyLine, DefaultLines
<1> HIDE DEF Put
<1> QED
    BY <1>1, <1>2, <1>3

\* Who may open the file for what.
LEMMA WhoMayOpen ==
    ASSUME Handles, NEW how, CanOpen(how)
    PROVE  /\ how = Reading => Quiet
           /\ how \in {Writing, Saving} => \A u \in Users : handle[u] = Closed
<1>1. \A u \in Users : handle[u] # Closed =>
          how.access \in handle[u].share /\ handle[u].access \in how.share
    BY DEF CanOpen, Handles
<1>2. \A u \in Users : handle[u] \in {Closed, Reading, Writing, Saving}
    BY DEF Handles
<1> QED
    BY <1>1, <1>2 DEF Quiet, Closed, Reading, Writing, Saving

\* At first nobody has the file open.
THEOREM InitIInv == Init => IInv
<1> SUFFICES ASSUME Init PROVE IInv
    OBVIOUS
<1>1. Handles
    BY DEF Init, Handles, Users, Closed
<1>2. Held
    BY FileAssumption DEF Init, Held
<1>3. file \in Seq(AnyLine)
    <2>1. file = <<>> \/ file \in Seq(Lines)
        BY FileAssumption DEF Init
    <2> QED
        BY <2>1, SeqMonotonic, EmptySeq DEF AnyLine
<1>4. AtRest
    BY <1>3 DEF Init, AtRest
<1>5. Sized /\ Read
    BY DEF Init, Sized, Read, ReadsAtRest, NotRead
<1> QED
    BY <1>1, <1>2, <1>4, <1>5 DEF IInv

\* Start leaves the file and its handles alone.
LEMMA StartKeepsIInv ==
    ASSUME IInv, NEW p \in Players, Start(p)
    PROVE  IInv'
<1>1. /\ pc' \in [Players -> {"ended", "open", "size", "read", "create", "write", "loaded"}]
      /\ pc[p] = "ended" /\ pc'[p] \in {"open", "loaded"}
      /\ \A q \in Players \ {p} : pc'[q] = pc[q]
    BY DEF IInv, Held, Start, Goto, ReturnDefaults
<1>2. UNCHANGED <<present, file, handle, size, history>>
    BY DEF Start
<1>3. text' = text \/ text' = [text EXCEPT ![p] = NotRead]
    BY DEF Start, ReturnDefaults
<1>4. Handles' /\ Held'
    BY <1>1, <1>2 DEF IInv, Handles, Held, Closed, Reading, Writing, Saving
<1>5. AtRest' /\ Sized'
    BY <1>1, <1>2 DEF IInv, AtRest, Sized, Quiet, history
<1>6. Read'
    BY <1>2, <1>3 DEF IInv, Read, ReadsAtRest, history
<1> QED
    BY <1>4, <1>5, <1>6 DEF IInv

\* OpenToRead succeeds only while nobody writes.
LEMMA OpenToReadKeepsIInv ==
    ASSUME IInv, NEW p \in Players, OpenToRead(p)
    PROVE  IInv'
<1>1. pc[p] = "open" /\ handle[p] = Closed /\ UNCHANGED <<present, file, size, text, history>>
    BY DEF IInv, Held, OpenToRead
<1>2. CASE present /\ Open(p, Reading) /\ Goto(p, "size")
    <2>1. Quiet
        BY <1>2, WhoMayOpen DEF Open, IInv
    <2>2. Handles'
        BY <1>2, <2>1 DEF IInv, Handles, Open, Users, Quiet, Closed, Reading, Writing, Saving
    <2>3. Held'
        BY <1>2, FileAssumption DEF IInv, Handles, Held, Open, Goto, Users
    <2>4. Quiet'
        BY <1>2, <2>1 DEF IInv, Handles, Open, Users, Quiet, Reading
    <2>5. AtRest' /\ Sized' /\ Read'
        BY <1>1, <1>2, <2>1, <2>4 DEF IInv, Held, AtRest, Sized, Read, ReadsAtRest, Goto, history
    <2> QED
        BY <2>2, <2>3, <2>5 DEF IInv
<1>3. CASE Goto(p, "create") /\ UNCHANGED handle
    <2>1. Handles' /\ Held'
        BY <1>1, <1>3 DEF IInv, Handles, Held, Goto, Closed, Reading, Writing, Saving
    <2>2. AtRest' /\ Sized' /\ Read'
        BY <1>1, <1>3 DEF IInv, Held, AtRest, Quiet, Sized, Read, ReadsAtRest, Goto, history
    <2> QED
        BY <2>1, <2>2 DEF IInv
<1> QED
    BY <1>2, <1>3 DEF OpenToRead

\* While a PotPlayer has the file open to read, it is at rest.
LEMMA ReaderIsQuiet ==
    ASSUME IInv, NEW p \in Players, pc[p] \in {"size", "read"}
    PROVE  present /\ Quiet /\ file \in atRest
<1>1. handle[p] = Reading /\ p \in Users
    BY DEF IInv, Held, Users
<1>2. Quiet
    BY <1>1 DEF IInv, Handles, Quiet, Closed, Reading
<1> QED
    BY <1>2 DEF IInv, AtRest

\* Whoever closes the file leaves the other handles what they were.
LEMMA CloseKeepsHandles ==
    ASSUME IInv, NEW u \in Users, Close(u)
    PROVE  /\ Handles'
           /\ handle' \in [Users -> {Closed, Reading, Writing, Saving}]
           /\ handle'[u] = Closed /\ \A v \in Users \ {u} : handle'[v] = handle[v]
           /\ handle[u].access # "write" /\ Quiet' => Quiet
<1>1. /\ handle' \in [Users -> {Closed, Reading, Writing, Saving}]
      /\ handle'[u] = Closed /\ \A v \in Users \ {u} : handle'[v] = handle[v]
    BY DEF IInv, Handles, Close
<1>2. Handles'
    BY <1>1 DEF IInv, Handles, Closed
<1>3. handle[u].access # "write" /\ Quiet' => Quiet
    BY <1>1 DEF Quiet
<1> QED
    BY <1>1, <1>2, <1>3

\* GetSize sees the size of a file at rest.
LEMMA GetSizeKeepsIInv ==
    ASSUME IInv, NEW p \in Players, GetSize(p)
    PROVE  IInv'
<1>1. /\ pc[p] = "size" /\ handle[p] = Reading /\ p \in Users
      /\ UNCHANGED <<present, file, text, history>>
    BY DEF IInv, Held, GetSize, Users
<1>2. CASE size' = [size EXCEPT ![p] = Len(file)] /\ Goto(p, "read") /\ UNCHANGED handle
    <2>1. Handles' /\ Held'
        BY <1>1, <1>2 DEF IInv, Handles, Held, Goto, Closed, Reading, Writing, Saving
    <2>2. AtRest' /\ Read'
        BY <1>1, <1>2 DEF IInv, Held, AtRest, Quiet, Read, ReadsAtRest, Goto, history
    <2>3. Sized'
        BY <1>1, <1>2 DEF IInv, Held, Sized, Goto
    <2> QED
        BY <2>1, <2>2, <2>3 DEF IInv
<1>3. CASE Close(p) /\ Goto(p, "create") /\ UNCHANGED size
    <2>1. Handles'
        BY <1>1, <1>3, CloseKeepsHandles
    <2>2. Held'
        BY <1>1, <1>3, CloseKeepsHandles, FileAssumption DEF IInv, Held, Goto, Users
    <2>3. AtRest' /\ Sized' /\ Read'
        BY <1>1, <1>3, ReaderIsQuiet DEF IInv, Held, AtRest, Sized, Read, ReadsAtRest, Goto, history
    <2> QED
        BY <2>1, <2>2, <2>3 DEF IInv
<1> QED
    BY <1>2, <1>3 DEF GetSize

\* ReadContents reads as much as there is, of a file at rest.
LEMMA ReadContentsKeepsIInv ==
    ASSUME IInv, NEW p \in Players, ReadContents(p)
    PROVE  IInv'
<1>1. /\ pc[p] = "read" /\ handle[p] = Reading /\ p \in Users /\ Close(p)
      /\ UNCHANGED <<present, file, history>> /\ size' = [size EXCEPT ![p] = 0]
    BY DEF IInv, Held, ReadContents, Users
<1>2. pc' \in {[pc EXCEPT ![p] = "loaded"], [pc EXCEPT ![p] = "create"]}
    BY DEF ReadContents, Goto
<1>3. Handles'
    BY <1>1, CloseKeepsHandles
<1>4. Held'
    BY <1>1, <1>2, CloseKeepsHandles, FileAssumption DEF IInv, Held, Users
<1>5. present /\ file \in atRest
    BY <1>1, ReaderIsQuiet
<1>6. AtRest' /\ Sized'
    BY <1>1, <1>2, <1>5 DEF IInv, Held, AtRest, Sized, history
<1>7. text' = text \/ text' = [text EXCEPT ![p] = file]
    <2>1. SubSeq(file, 1, size[p]) = file
        BY <1>1, SubSeqFull DEF IInv, AtRest, Sized
    <2> QED
        BY <2>1 DEF ReadContents
<1>8. Read'
    BY <1>1, <1>5, <1>7 DEF IInv, Read, ReadsAtRest, history
<1> QED
    BY <1>3, <1>4, <1>6, <1>8 DEF IInv

\* With every handle closed, only u opens: what u may do to the file is its own.
LEMMA OnlyWriter ==
    ASSUME IInv, NEW u \in Users, NEW how \in {Writing, Saving}, Open(u, how)
    PROVE  /\ Handles' /\ ~Quiet' /\ handle'[u] = how
           /\ \A v \in Users \ {u} : handle'[v] = Closed
           /\ \A p \in Players : pc[p] \notin {"size", "read", "write"}
<1>1. \A v \in Users : handle[v] = Closed
    BY WhoMayOpen DEF Open, IInv
<1>2. /\ handle' \in [Users -> {Closed, Reading, Writing, Saving}]
      /\ handle'[u] = how /\ \A v \in Users \ {u} : handle'[v] = Closed
    BY <1>1 DEF IInv, Handles, Open
<1>3. Handles' /\ ~Quiet'
    BY <1>2 DEF Handles, Quiet, Closed, Writing, Saving
<1>4. \A p \in Players : pc[p] \notin {"size", "read", "write"}
    BY <1>1 DEF IInv, Held, Users, Closed, Reading, Writing
<1> QED
    BY <1>2, <1>3, <1>4

\* OpenToWrite empties the file only while nobody else has it open.
LEMMA OpenToWriteKeepsIInv ==
    ASSUME IInv, NEW p \in Players, OpenToWrite(p)
    PROVE  IInv'
<1>1. /\ pc[p] = "create" /\ handle[p] = Closed /\ p \in Users /\ UNCHANGED <<size, history>>
    BY DEF IInv, Held, OpenToWrite, Users
<1>2. CASE /\ Open(p, Writing) /\ present' = TRUE /\ file' = <<>>
           /\ Goto(p, "write") /\ UNCHANGED <<config, text>>
    <2>1. /\ Handles' /\ ~Quiet' /\ handle'[p] = Writing
          /\ \A v \in Users \ {p} : handle'[v] = Closed
          /\ \A q \in Players : pc[q] \notin {"size", "read", "write"}
        BY <1>1, <1>2, OnlyWriter
    <2>2. Held'
        BY <1>1, <1>2, <2>1, FileAssumption DEF IInv, Held, Goto, Users
    <2>3. file' \in Seq(AnyLine)
        BY <1>2, EmptySeq
    <2>4. AtRest' /\ Sized' /\ Read'
        BY <1>1, <1>2, <2>1, <2>3 DEF IInv, Held, AtRest, Sized, Read, ReadsAtRest, Goto, history
    <2> QED
        BY <2>1, <2>2, <2>4 DEF IInv
<1>3. CASE ReturnDefaults(p) /\ UNCHANGED <<present, file, handle>>
    <2>1. Handles' /\ Held'
        BY <1>1, <1>3 DEF IInv, Handles, Held, ReturnDefaults, Goto, Closed, Reading, Writing, Saving
    <2>2. AtRest' /\ Sized' /\ Read'
        BY <1>1, <1>3 DEF IInv, Held, AtRest, Quiet, Sized, Read, ReadsAtRest, ReturnDefaults,
                          Goto, history
    <2> QED
        BY <2>1, <2>2 DEF IInv
<1> QED
    BY <1>2, <1>3 DEF OpenToWrite

\* A writer is alone: nobody reads.
LEMMA WriterIsAlone ==
    ASSUME IInv, NEW u \in Users, handle[u].access = "write"
    PROVE  \A p \in Players : p # u => pc[p] \notin {"size", "read", "write"}
<1> SUFFICES ASSUME NEW p \in Players, p # u PROVE pc[p] \notin {"size", "read", "write"}
    OBVIOUS
<1>1. p \in Users /\ handle[p] = Closed
    BY DEF IInv, Handles, Users
<1> QED
    BY <1>1 DEF IInv, Held, Closed, Reading, Writing

\* WriteDefaults writes with nobody reading, and leaves a file at rest.
LEMMA WriteDefaultsKeepsIInv ==
    ASSUME IInv, NEW p \in Players, WriteDefaults(p)
    PROVE  IInv'
<1>1. /\ pc[p] = "write" /\ handle[p] = Writing /\ p \in Users /\ Close(p) /\ Goto(p, "loaded")
      /\ text' = [text EXCEPT ![p] = NotRead] /\ atRest' = atRest \cup {file'}
      /\ UNCHANGED <<present, size>>
    BY DEF IInv, Held, WriteDefaults, ReturnDefaults, Users
<1>2. \A q \in Players \ {p} : pc[q] \notin {"size", "read", "write"}
    BY <1>1, WriterIsAlone DEF Writing
<1>3. file' \in Seq(AnyLine)
    <2>1. PICK n \in Room : file' = SubSeq(DefaultText, 1, n)
        BY DEF WriteDefaults
    <2>2. n \in Int /\ Len(DefaultText) \in Nat /\ \A i \in 1..n : i \in 1..Len(DefaultText)
        BY FileAssumption, DefaultIsText, LenProperties
    <2>3. \A i \in 1..n : DefaultText[i] \in AnyLine
        BY <2>2, DefaultIsText, ElementOfSeq
    <2> QED
        BY <2>1, <2>2, <2>3, SubSeqProperties
<1>4. Handles'
    BY <1>1, CloseKeepsHandles
<1>5. Held'
    BY <1>1, CloseKeepsHandles, FileAssumption DEF IInv, Held, Goto, Users
<1>6. AtRest' /\ Sized' /\ Read'
    BY <1>1, <1>2, <1>3 DEF IInv, Held, AtRest, Sized, Read, ReadsAtRest, Goto
<1> QED
    BY <1>4, <1>5, <1>6 DEF IInv

\* End leaves what was written so far at rest.
LEMMA EndKeepsIInv ==
    ASSUME IInv, NEW p \in Players, End(p)
    PROVE  IInv'
<1>1. /\ Goto(p, "ended") /\ p \in Users /\ Close(p)
      /\ text' = [text EXCEPT ![p] = NotRead] /\ size' = [size EXCEPT ![p] = 0]
      /\ UNCHANGED <<present, file>>
      /\ atRest' = IF pc[p] = "write" THEN atRest \cup {file} ELSE atRest
    BY DEF End, Users
<1>2. Handles'
    BY <1>1, CloseKeepsHandles
<1>3. Held'
    BY <1>1, CloseKeepsHandles, FileAssumption DEF IInv, Held, Goto, Users
<1>4. AtRest'
    <2>1. pc[p] # "write" /\ Quiet' => Quiet
        BY <1>1, CloseKeepsHandles DEF IInv, Held, Closed, Reading
    <2> QED
        BY <1>1, <2>1 DEF IInv, Held, AtRest, Goto
<1>5. Sized' /\ Read'
    BY <1>1 DEF IInv, Held, Sized, Read, ReadsAtRest, Goto
<1> QED
    BY <1>2, <1>3, <1>4, <1>5 DEF IInv

\* The editor begins to save only while nobody reads.
LEMMA BeginSaveKeepsIInv ==
    ASSUME IInv, BeginSave
    PROVE  IInv'
<1>1. /\ Open(Editor, Saving) /\ present' = TRUE /\ file' = <<>>
      /\ UNCHANGED <<pc, size, text, atRest>> /\ Editor \in Users
    BY DEF BeginSave, loading, Users
<1>2. /\ Handles' /\ ~Quiet' /\ handle'[Editor] = Saving
      /\ \A v \in Users \ {Editor} : handle'[v] = Closed
      /\ \A q \in Players : pc[q] \notin {"size", "read", "write"}
    BY <1>1, OnlyWriter
<1>3. Held'
    BY <1>1, <1>2, FileAssumption DEF IInv, Held, Users
<1>4. AtRest' /\ Sized' /\ Read'
    BY <1>1, <1>2, EmptySeq DEF IInv, AtRest, Sized, Read, ReadsAtRest
<1> QED
    BY <1>2, <1>3, <1>4 DEF IInv

\* The editor's file is at rest once it is closed.
LEMMA FinishSaveKeepsIInv ==
    ASSUME IInv, FinishSave
    PROVE  IInv'
<1>1. /\ handle[Editor] = Saving /\ Close(Editor) /\ Editor \in Users
      /\ atRest' = atRest \cup {file'} /\ UNCHANGED <<present, pc, size, text>>
      /\ file' \in Edits \/ file' = file
    BY DEF FinishSave, loading, Users
<1>2. \A q \in Players : pc[q] \notin {"size", "read", "write"}
    BY <1>1, WriterIsAlone, FileAssumption DEF Saving
<1>3. file' \in Seq(AnyLine)
    BY <1>1, FileAssumption, SeqMonotonic DEF IInv, AtRest, AnyLine
<1>4. Handles'
    BY <1>1, CloseKeepsHandles
<1>5. Held'
    BY <1>1, CloseKeepsHandles, FileAssumption DEF IInv, Held, Users
<1>6. AtRest' /\ Sized' /\ Read'
    BY <1>1, <1>2, <1>3 DEF IInv, AtRest, Sized, Read, ReadsAtRest
<1> QED
    BY <1>4, <1>5, <1>6 DEF IInv

\* IInv is inductive.
THEOREM NextIInv == IInv /\ [Next]_vars => IInv'
<1> SUFFICES ASSUME IInv, [Next]_vars PROVE IInv'
    OBVIOUS
<1>1. CASE \E p \in Players : Load(p) \/ End(p)
    BY <1>1, StartKeepsIInv, OpenToReadKeepsIInv, GetSizeKeepsIInv, ReadContentsKeepsIInv,
       OpenToWriteKeepsIInv, WriteDefaultsKeepsIInv, EndKeepsIInv DEF Load
<1>2. CASE BeginSave \/ FinishSave
    BY <1>2, BeginSaveKeepsIInv, FinishSaveKeepsIInv
<1>3. CASE UNCHANGED vars
    <2>1. UNCHANGED <<present, file, handle, pc, size, text, atRest>>
        BY <1>3 DEF vars, loading, history
    <2>2. Handles' /\ Held'
        BY <2>1 DEF IInv, Handles, Held
    <2>3. AtRest' /\ Sized' /\ Read'
        BY <2>1 DEF IInv, AtRest, Quiet, Sized, Read, ReadsAtRest
    <2> QED
        BY <2>2, <2>3 DEF IInv
<1> QED
    BY <1>1, <1>2, <1>3 DEF Next

\* LoadConfig parses a file as it was between two writes, never one that is
\* half written, whatever other PotPlayers and the editor do meanwhile.
THEOREM NeverHalfWritten == Spec => []ReadsAtRest
<1>1. IInv => ReadsAtRest
    BY DEF IInv, Read
<1> QED
    BY <1>1, InitIInv, NextIInv, PTL DEF Spec

-----------------------------------------------------------------------------
(***************************************************************************)
(* What a load returns.  The lines read are lines of a text, so what the     *)
(* parser makes of them is what they mean, and can be written and read back. *)
(***************************************************************************)
Loaded == /\ config = [p \in Players |-> config[p]]
          /\ \A p \in Players : Storable(config[p]) /\ (pc[p] = "loaded" => Right(config[p], text[p]))
Counted == present \in BOOLEAN /\ edits \in 0..MaxEdits /\ size \in [Players -> Nat]
LInv == IInv /\ Loaded /\ Counted

\* Whatever lines a file has, the parser can tell their kinds.
LEMMA TextIsReadable == ASSUME NEW lines \in Seq(AnyLine) PROVE Readable(lines)
<1>1. \A l \in AnyLine : l.kind \in LineKinds
    <2>1. Comment.kind = "comment" /\ \A s : Header(s).kind = "header"
        BY DEF Comment, Header, Line
    <2>2. \A k, given : Entry(k, given).kind = "entry"
        BY DEF Entry, Line
    <2> QED
        BY <2>1, <2>2, FileAssumption DEF AnyLine, DefaultLines, LineKinds
<1>2. Len(lines) \in Nat /\ \A i \in 1..Len(lines) : lines[i] \in AnyLine
    OBVIOUS
<1> QED
    BY <1>1, <1>2 DEF Readable

\* A file that was not read leaves every default in place.
LEMMA NotReadMeans == Right(DefaultConfig, NotRead)
<1>1. Len(NotRead) = 1 /\ NotRead[1].kind = "unread"
    BY DEF NotRead, Line
<1>2. \A k : Given(NotRead, k) = {}
    BY <1>1 DEF Given
<1>3. \A k \in Names : Meaning(NotRead)[k] = DefaultConfig[k]
    BY <1>2 DEF Meaning
<1> QED
    BY <1>3 DEF Right

LEMMA InitLInv == Init => LInv
<1> SUFFICES ASSUME Init PROVE LInv
    OBVIOUS
<1>1. Loaded
    BY DefaultIsStorable DEF Init, Loaded
<1>2. Counted
    BY FileAssumption DEF Init, Counted
<1> QED
    BY <1>1, <1>2, InitIInv DEF LInv

\* A load that returns the defaults returns what an unread file means.
LEMMA DefaultsAreLoaded ==
    ASSUME LInv, NEW p \in Players, ReturnDefaults(p) PROVE Loaded'
<1>1. /\ config' = [config EXCEPT ![p] = DefaultConfig] /\ text' = [text EXCEPT ![p] = NotRead]
      /\ pc' = [pc EXCEPT ![p] = "loaded"]
    BY DEF ReturnDefaults, Goto
<1>2. \A q \in Players : /\ config'[q] = IF q = p THEN DefaultConfig ELSE config[q]
                         /\ text'[q] = IF q = p THEN NotRead ELSE text[q]
                         /\ q # p => pc'[q] = pc[q]
    BY <1>1 DEF LInv, IInv, Loaded, Read, Held
<1>3. config' = [q \in Players |-> config'[q]]
    BY <1>1 DEF LInv, Loaded
<1> QED
    BY <1>2, <1>3, NotReadMeans, DefaultIsStorable DEF LInv, Loaded

\* A step that leaves the configurations alone, and loads none, keeps them.
LEMMA OthersAreLoaded ==
    ASSUME LInv, UNCHANGED <<config, text>>, \A p \in Players : pc'[p] = "loaded" => pc[p] = "loaded"
    PROVE  Loaded'
BY DEF LInv, Loaded

\* ReadContents parses the whole file.
LEMMA ContentsAreLoaded ==
    ASSUME LInv, NEW p \in Players, ReadContents(p) PROVE Loaded'
<1>1. CASE size[p] > 0 /\ Goto(p, "create") /\ UNCHANGED <<config, text>>
    <2>1. \A q \in Players : pc'[q] = "loaded" => pc[q] = "loaded"
        BY <1>1 DEF Goto, LInv, IInv, Held
    <2> QED
        BY <1>1, <2>1, OthersAreLoaded
<1>2. CASE /\ text' = [text EXCEPT ![p] = SubSeq(file, 1, size[p])]
           /\ config' = [config EXCEPT ![p] = ParseConfig(text'[p]).config]
           /\ Goto(p, "loaded")
    <2>1. pc[p] = "read" /\ file \in Seq(AnyLine) /\ size[p] = Len(file)
        BY DEF ReadContents, LInv, IInv, AtRest, Sized
    <2>2. SubSeq(file, 1, size[p]) = file
        BY <2>1, SubSeqFull
    <2>3. text'[p] = file /\ \A q \in Players \ {p} : text'[q] = text[q]
        BY <1>2, <2>2 DEF LInv, IInv, Read
    <2>4. Right(ParseConfig(file).config, file) /\ Storable(ParseConfig(file).config)
        BY <2>1, TextIsReadable, ParserIsRight
    <2>5. /\ config' = [config EXCEPT ![p] = ParseConfig(file).config]
          /\ config = [q \in Players |-> config[q]]
        BY <1>2, <2>3 DEF LInv, Loaded
    <2>6. \A q \in Players : config'[q] = IF q = p THEN ParseConfig(file).config ELSE config[q]
        BY <2>5
    <2>7. config' = [q \in Players |-> config'[q]]
        BY <2>5
    <2>8. \A q \in Players \ {p} : pc'[q] = pc[q]
        BY <1>2 DEF Goto, LInv, IInv, Held
    <2> QED
        BY <2>3, <2>4, <2>6, <2>7, <2>8 DEF LInv, Loaded
<1> QED
    BY <1>1, <1>2 DEF ReadContents

\* A PotPlayer that ends has no configuration any more.
LEMMA EndedIsNotLoaded ==
    ASSUME LInv, NEW p \in Players, End(p) PROVE Loaded'
<1>1. /\ config' = [config EXCEPT ![p] = DefaultConfig] /\ text' = [text EXCEPT ![p] = NotRead]
      /\ pc' = [pc EXCEPT ![p] = "ended"]
    BY DEF End, Goto
<1>2. \A q \in Players : /\ config'[q] = IF q = p THEN DefaultConfig ELSE config[q]
                         /\ q # p => pc'[q] = pc[q] /\ text'[q] = text[q]
                         /\ q = p => pc'[q] = "ended"
    BY <1>1 DEF LInv, IInv, Loaded, Read, Held
<1>3. config' = [q \in Players |-> config'[q]]
    BY <1>1 DEF LInv, Loaded
<1> QED
    BY <1>2, <1>3, DefaultIsStorable DEF LInv, Loaded

\* Every step of a load keeps what the loads return.
LEMMA LoadKeepsLoaded ==
    ASSUME LInv, NEW p \in Players, Load(p) PROVE Loaded'
<1>1. CASE ReturnDefaults(p)
    BY <1>1, DefaultsAreLoaded
<1>2. CASE ReadContents(p)
    BY <1>2, ContentsAreLoaded
<1>3. ASSUME UNCHANGED <<config, text>>, NEW l \in {"open", "size", "read", "create", "write"}, Goto(p, l)
      PROVE  Loaded'
    <2>1. \A q \in Players : pc'[q] = "loaded" => pc[q] = "loaded"
        BY <1>3 DEF Goto, LInv, IInv, Held
    <2> QED
        BY <1>3, <2>1, OthersAreLoaded
<1> QED
    BY <1>1, <1>2, <1>3 DEF Load, Start, OpenToRead, GetSize, OpenToWrite, WriteDefaults

\* No step takes the file, the sizes or the saves out of their types.
LEMMA NextKeepsCounted == ASSUME LInv, Next PROVE Counted'
<1>1. file \in Seq(AnyLine) /\ Len(file) \in Nat
    BY DEF LInv, IInv, AtRest
<1>2. ASSUME NEW p \in Players, Load(p) \/ End(p) PROVE Counted'
    <2>1. present' \in BOOLEAN /\ edits' = edits
        BY <1>2 DEF LInv, Counted, Load, Start, OpenToRead, GetSize, ReadContents, OpenToWrite,
                    WriteDefaults, End, history
    <2>2. size' = size \/ \E n \in Nat : size' = [size EXCEPT ![p] = n]
        BY <1>1, <1>2 DEF Load, Start, OpenToRead, GetSize, ReadContents, OpenToWrite,
                    WriteDefaults, End
    <2> QED
        BY <2>1, <2>2 DEF LInv, Counted
<1>3. CASE BeginSave
    BY <1>3, FileAssumption DEF LInv, Counted, BeginSave, loading
<1>4. CASE FinishSave
    BY <1>4 DEF LInv, Counted, FinishSave, loading
<1> QED
    BY <1>2, <1>3, <1>4 DEF Next

\* LInv is inductive.
THEOREM NextLInv == LInv /\ [Next]_vars => LInv'
<1> SUFFICES ASSUME LInv, [Next]_vars PROVE LInv'
    OBVIOUS
<1>1. IInv'
    BY NextIInv DEF LInv
<1>2. CASE Next
    <2>1. Counted'
        BY <1>2, NextKeepsCounted
    <2>2. ASSUME BeginSave \/ FinishSave PROVE Loaded'
        BY <2>2, OthersAreLoaded DEF BeginSave, FinishSave, loading
    <2>3. Loaded'
        BY <1>2, <2>2, LoadKeepsLoaded, EndedIsNotLoaded DEF Next
    <2> QED
        BY <1>1, <2>1, <2>3 DEF LInv
<1>3. CASE UNCHANGED vars
    BY <1>1, <1>3 DEF vars, loading, history, LInv, Loaded, Counted
<1> QED
    BY <1>2, <1>3

\* Every reachable state is of the type TypeOK says: a load, whatever the file
\* holds, returns settings of the kinds the plugin uses.
THEOREM TypeCorrect == Spec => []TypeOK
<1>1. LInv => TypeOK
    <2> SUFFICES ASSUME LInv PROVE TypeOK
        OBVIOUS
    <2>1. {Closed, Reading, Writing, Saving} \subseteq
              [access : {"none", "read", "write"}, share : SUBSET {"read", "write"}]
        BY DEF Closed, Reading, Writing, Saving
    <2>2. handle \in [Players \cup {Editor} -> [access : {"none", "read", "write"},
                                               share : SUBSET {"read", "write"}]]
        BY <2>1 DEF LInv, IInv, Handles, Users
    <2>3. \A p \in Players : Valid(config[p])
        BY StorableIsValid DEF LInv, Loaded
    <2> QED
        BY <2>2, <2>3 DEF TypeOK, LInv, Counted, IInv, Held
<1> QED
    BY <1>1, InitLInv, NextLInv, PTL DEF Spec

\* ParseConfig, which reads the file line by line, returns what the file as a
\* whole says: for each key the value on its last line in its own section, or its
\* default, unless only the last of several lines is malformed.
THEOREM ParsedRight == Spec => []ParsedAsMeant
<1>1. LInv => ParsedAsMeant
    BY DEF LInv, Loaded, Right, ParsedAsMeant
<1> QED
    BY <1>1, InitLInv, NextLInv, PTL DEF Spec

\* SerializeConfig of whatever a load returned is parsed back to the same
\* configuration without a warning.
THEOREM WrittenReadsBack == Spec => []RoundTrip
<1>1. LInv => RoundTrip
    BY ReadsBack DEF LInv, Loaded, RoundTrip
<1> QED
    BY <1>1, InitLInv, NextLInv, PTL DEF Spec
=============================================================================
