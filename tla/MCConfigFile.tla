---------------------------- MODULE MCConfigFile ----------------------------
EXTENDS ConfigFile, TLC
MCKeys == {"a", "b", "[", "]"}
MCNumerals == [t \in {"0", "250", "0250", "1800"} |->
                  CASE t = "0" -> 0 [] t \in {"250", "0250"} -> 250 [] OTHER -> 1800]
MCNumeral == [n \in {0, 250, 1800} |-> CASE n = 0 -> "0" [] n = 250 -> "250" [] OTHER -> "1800"]
MCLines == {Header("hotkeys"), Header("osd"), Header("nonsense"),
            Entry("newmark", <<"shift", "control", "b">>), Entry("newmark", <<"alt", "alt", "b">>),
            Entry("durationms", <<"0250">>), Entry("durationms", <<"-5">>)}
MCShort == BoundedSeq(MCLines, 2)
MCTexts == MCShort \cup {<<Header("hotkeys")>> \o t : t \in MCShort}
                   \cup {<<Header("osd")>> \o t : t \in MCShort}
MCEdits == {<<Header("hotkeys"), Entry("newmark", <<"b">>)>>,
            <<Junk, Comment, Header("log"), Entry("verbosity", <<"warning">>)>>}
MCAllLines == MCLines \cup UNION {Range(e) : e \in MCEdits}
PlayerSymmetry == Permutations(Players)
=============================================================================
