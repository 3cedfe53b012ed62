----------------------------- MODULE MCPlaySkip -----------------------------
(* Bounds for PlaySkip: numerals in base 2 with three units to the next one,
   so that an hour is 72 of 512 milliseconds and every overflow is near. *)
EXTENDS PlaySkip
Starts == {<<Numeral(0, 1)>>, <<Numeral(3, 2), Sign("."), Numeral(1, 2)>>}
Ends == {<<Numeral(1, 1), Sign(":"), Numeral(2, 2)>>, <<Numeral(1, 1), Sign(":"), Numeral(3, 2)>>,
         <<Numeral(6, 3), Sign(":"), Numeral(2, 2), Sign(":"), Numeral(1, 1), Sign("."), Numeral(7, 3)>>,
         <<Numeral(15, 4), Sign(":"), Numeral(0, 2), Sign(":"), Numeral(0, 2)>>,
         <<Numeral(70, 7)>>, <<Numeral(512, 10)>>}
MCHumanTexts == {a \o <<Sign("->")>> \o b : a \in Starts, b \in Starts \cup Ends}
                \cup {b \o <<Sign("-")>> \o a : a \in Starts, b \in Starts \cup Ends}
MCOddities == {Sign(c) : c \in {":", "=", "*"}}
              \cup {Numeral(2, 2), Numeral(3, 2), Numeral(1, 1), Numeral(1, 3), Numeral(511, 9), Numeral(512, 10)}
===========================================================================
