------------------------- MODULE SkipListEdit_proof -------------------------
(***************************************************************************)
(* The safety of SkipListEdit, for lists of any length and any number of    *)
(* calls.  DeletesAddUp counts: what is selected is as good as gone, and    *)
(* Credit says how far that may run ahead of the Deletes PotPlayer has      *)
(* handled.  AnswerIsTrue follows a call from the list it found (Timely),   *)
(* as long as no Delete of an earlier one is left in the queue.             *)
(***************************************************************************)
EXTENDS SkipListEdit, FiniteSetTheorems, TLAPS

\* The type invariant, its Boolean part apart.
Flags == open \in BOOLEAN /\ answer \in BOOLEAN /\ late \in BOOLEAN
Typed == /\ rows \in SUBSET (1..MaxRows) /\ selected \in SUBSET rows /\ queue \in Nat
         /\ step \in {"idle", "initial", "count", "deselect", "select", "post", "await", "recount"}
         /\ job \in {"delete", "clear"} /\ index \in -1..MaxRows
         /\ before \in 0..MaxRows /\ rounds \in 0..MaxRows
         /\ calls \in Nat /\ initially \in 0..MaxRows
         /\ atCall \in SUBSET (1..MaxRows) /\ posted \in Nat /\ done \in Nat

\* A clear-all in a Delete has a round left for it.
Rounds == /\ job = "clear" /\ step \notin {"idle", "initial"} => rounds > 0
          /\ step = "initial" \/ step = "recount" => job = "clear"

\* The rows that went, and those that go with the next Delete.
Gone == initially - Cardinality(rows)
Doomed == Gone + Cardinality(selected)
Handled == posted - queue
Credit == /\ Gone <= Handled
          /\ queue > 0 \/ step = "post" => Doomed <= Handled + 1
          /\ step = "select" => Doomed <= Handled
Earned == /\ done <= Gone
          /\ step \in {"deselect", "select", "post", "await"} => done <= initially - before

\* While no Delete missed its deadline: what the call knows is so.
Timely ==
    /\ step # "await" => queue = 0
    /\ step \in {"deselect", "select", "post"} => before = Cardinality(rows)
    /\ step = "select" => selected = {}
    /\ step = "post" => selected = RowAt(rows, index)
    /\ job = "delete" /\ step \in {"count", "deselect", "select", "post"} => rows = atCall
    /\ step = "await" /\ queue > 0 => /\ queue = 1 /\ before = Cardinality(rows)
                                      /\ selected = RowAt(rows, index)
                                      /\ job = "delete" => rows = atCall
    /\ step = "await" /\ queue = 0 /\ job = "delete" => /\ rows = atCall \ RowAt(atCall, index)
                                                        /\ before = Cardinality(atCall)

Safe == Typed /\ Rounds /\ (open => Credit /\ Earned /\ AnswerIsTrue /\ (~late => Timely))
IInv == Flags /\ Safe

LEMMA TypeParts == Flags /\ Typed => TypeOK
BY DEF Flags, Typed, TypeOK

-----------------------------------------------------------------------------
\* Lists are finite, and no longer than the longest.
LEMMA Lengths ==
    ASSUME NEW list \in SUBSET (1..MaxRows)
    PROVE  IsFiniteSet(list) /\ Cardinality(list) \in 0..MaxRows
<1>1. IsFiniteSet(1..MaxRows) /\ Cardinality(1..MaxRows) = MaxRows
  BY FS_Interval, EditAssumption
<1>2. IsFiniteSet(list) /\ Cardinality(list) <= MaxRows BY <1>1, FS_Subset
<1> QED BY <1>2, FS_CardinalityType, EditAssumption

\* What is left of a list.
LEMMA Removed ==
    ASSUME NEW list \in SUBSET (1..MaxRows), NEW part \in SUBSET list
    PROVE  /\ part \in SUBSET (1..MaxRows) /\ list \ part \in SUBSET (1..MaxRows)
           /\ Cardinality(list \ part) = Cardinality(list) - Cardinality(part)
<1>1. list \cap part = part OBVIOUS
<1> QED BY <1>1, Lengths, FS_Difference

\* There is one row at most at an index: of two, the later has more before it.
LEMMA OneRow ==
    ASSUME NEW list \in SUBSET (1..MaxRows), NEW i \in Int
    PROVE  RowAt(list, i) \in SUBSET list /\ Cardinality(RowAt(list, i)) <= 1
<1> DEFINE Below(r) == {s \in list : s < r}
<1>1. ASSUME NEW r \in list, NEW q \in list, r < q PROVE Cardinality(Below(r)) # Cardinality(Below(q))
  <2>1. Below(r) \in SUBSET Below(q) /\ r \in Below(q) /\ r \notin Below(r)
    <3>1. list \subseteq Int OBVIOUS
    <3>2. \A s \in list : s < r => s < q BY <1>1, <3>1
    <3>3. r < q /\ ~(r < r) BY <1>1, <3>1
    <3> QED BY <3>2, <3>3
  <2>2. IsFiniteSet(Below(q)) BY Lengths
  <2> HIDE DEF Below
  <2> QED BY <2>1, <2>2, FS_Subset
<1>2. ASSUME NEW r \in RowAt(list, i), NEW q \in RowAt(list, i) PROVE r = q
  <2>1. r \in list /\ q \in list /\ Cardinality(Below(r)) = Cardinality(Below(q))
    BY <1>2 DEF RowAt
  <2>2. r \in Int /\ q \in Int BY <2>1
  <2> HIDE DEF Below
  <2> QED BY <1>1, <2>1, <2>2
<1>3. RowAt(list, i) \in SUBSET list BY DEF RowAt
<1>4. RowAt(list, i) = {} => Cardinality(RowAt(list, i)) = 0 BY FS_EmptySet
<1>5. ASSUME NEW r \in RowAt(list, i) PROVE Cardinality(RowAt(list, i)) = 1
  <2>1. RowAt(list, i) = {r} BY <1>2, <1>5
  <2> QED BY <2>1, FS_Singleton
<1>6. CASE RowAt(list, i) = {}
  <2>1. Cardinality(RowAt(list, i)) = 0 BY <1>4, <1>6
  <2> QED BY <1>3, <2>1
<1>7. CASE RowAt(list, i) # {}
  <2>1. Cardinality(RowAt(list, i)) = 1 BY <1>5, <1>7
  <2> QED BY <1>3, <2>1
<1> QED BY <1>6, <1>7

\* Selecting one more row.
LEMMA Joined ==
    ASSUME NEW list \in SUBSET (1..MaxRows), NEW part \in SUBSET list, NEW one \in SUBSET list,
           Cardinality(one) <= 1
    PROVE  Cardinality(part \cup one) <= Cardinality(part) + 1
<1>1. /\ IsFiniteSet(part) /\ IsFiniteSet(one) /\ IsFiniteSet(part \cap one)
      /\ Cardinality(part) \in Nat /\ Cardinality(one) \in Nat /\ Cardinality(part \cap one) \in Nat
  BY Lengths
<1>2. Cardinality(part \cup one) = Cardinality(part) + Cardinality(one) - Cardinality(part \cap one)
  BY <1>1, FS_Union
<1> QED BY <1>1, <1>2

-----------------------------------------------------------------------------
LEMMA InitInv == Init => IInv
<1> SUFFICES ASSUME Init PROVE IInv
  OBVIOUS
<1> USE DEF Init
<1>1. Flags BY DEF Flags
<1>2. PICK n \in 0..MaxRows : rows = 1..n /\ selected \in SUBSET (1..n) /\ initially = n
  OBVIOUS
<1>3. rows \in SUBSET (1..MaxRows) BY <1>2, EditAssumption
<1>4. Cardinality(rows) = initially BY <1>2, FS_Interval, EditAssumption
<1>5. Typed BY <1>2, <1>3, EditAssumption DEF Typed
<1>6. Rounds BY DEF Rounds
<1>7. Credit /\ Earned BY <1>4, <1>5 DEF Credit, Earned, Gone, Doomed, Handled, Typed
<1>8. AnswerIsTrue /\ Timely BY DEF AnswerIsTrue, Timely
<1> QED BY <1>1, <1>5, <1>6, <1>7, <1>8 DEF IInv, Safe

LEMMA FlagsInv == Flags /\ Typed /\ [Next]_vars => Flags'
<1> SUFFICES ASSUME Flags, [Next]_vars PROVE Flags'
  OBVIOUS
<1> USE DEF Flags
<1>1. CASE UiDelete \/ UiClose BY <1>1 DEF UiDelete, UiClose, driver, history
<1>2. ASSUME NEW i \in -1..MaxRows, CallDelete(i) \/ CallClear PROVE Flags'
  BY <1>2 DEF CallDelete, CallClear, dialog
<1>3. CASE ReadInitialCount BY <1>3 DEF ReadInitialCount, Return, dialog, history
<1>4. CASE ReadCount BY <1>4 DEF ReadCount, DeleteReturns, Return, dialog, history
<1>5. CASE Deselect \/ Select BY <1>5 DEF Deselect, Select, history
<1>6. CASE PostDelete BY <1>6 DEF PostDelete, DeleteReturns, Return
<1>7. CASE AwaitDrop BY <1>7 DEF AwaitDrop, DeleteReturns, Return, dialog
<1>8. CASE Recount BY <1>8 DEF Recount, Return, dialog, history
<1>9. CASE CallClear BY <1>9 DEF CallClear, dialog
<1>10. CASE UNCHANGED vars BY <1>10 DEF vars, dialog, driver, history
<1> QED BY <1>1, <1>2, <1>3, <1>4, <1>5, <1>6, <1>7, <1>8, <1>9, <1>10 DEF Next, Edit

\* How long the list and the selection are.
LEMMA Sizes ==
    ASSUME Typed
    PROVE  Cardinality(rows) \in 0..MaxRows /\ Cardinality(selected) \in 0..MaxRows
<1>1. rows \in SUBSET (1..MaxRows) /\ selected \in SUBSET (1..MaxRows) BY DEF Typed
<1> QED BY <1>1, Lengths

LEMMA UiDeleteSafe == ASSUME Safe, UiDelete PROVE Safe'
<1> USE DEF UiDelete, Safe
<1>1. UNCHANGED <<open, step, job, index, before, rounds, answer, calls, late, initially, atCall, posted, done>>
  BY DEF driver, history
<1>2. Cardinality(rows') = Cardinality(rows) - Cardinality(selected) /\ rows' \in SUBSET (1..MaxRows)
  BY Removed DEF Typed
<1>3. Cardinality(selected') \in {0, 1} BY FS_EmptySet, FS_Singleton
<1>4. queue \in Nat /\ queue' \in Nat /\ queue' = queue - 1 BY DEF Typed
<1>5. Typed' BY <1>1, <1>2, <1>4 DEF Typed
<1>6. Rounds' BY <1>1 DEF Rounds
<1>7. Credit' /\ Earned'
  <2>1. Gone' = Doomed /\ Handled' = Handled + 1 /\ Doomed' = Gone' + Cardinality(selected')
    BY <1>1, <1>2, <1>4, Sizes DEF Gone, Doomed, Handled, Typed
  <2>2. Gone \in Int /\ Doomed \in Int /\ Handled \in Int /\ Gone <= Doomed
    BY Sizes DEF Gone, Doomed, Handled, Typed
  <2>3. Gone <= Handled /\ Doomed <= Handled + 1 /\ (step = "select" => Doomed <= Handled) BY DEF Credit
  <2>4. Credit' BY <1>1, <1>3, <2>1, <2>2, <2>3 DEF Credit
  <2>5. Earned' BY <1>1, <2>1, <2>2 DEF Earned, Typed
  <2> QED BY <2>4, <2>5
<1>8. AnswerIsTrue' BY <1>1 DEF AnswerIsTrue, Timely
<1>9. ~late => Timely' BY <1>1, <1>4 DEF Timely
<1> QED BY <1>1, <1>5, <1>6, <1>7, <1>8, <1>9

LEMMA UiCloseSafe == ASSUME Safe, UiClose PROVE Safe'
<1> USE DEF UiClose, Safe
<1>1. Typed' /\ Rounds' BY DEF Typed, Rounds, driver, history
<1> QED BY <1>1

\* A call begins: the list is as it is then.
LEMMA CallSafe == ASSUME Safe, NEW i \in -1..MaxRows, CallDelete(i) \/ CallClear PROVE Safe'
<1> USE DEF CallDelete, CallClear, Safe
<1>1. UNCHANGED <<open, rows, selected, queue, posted, done, initially, late>> BY DEF dialog
<1>2. step' \in {"count", "initial"} /\ step = "idle" OBVIOUS
<1>3. Typed'
  <2>1. job' \in {"delete", "clear"} /\ atCall' = rows /\ UNCHANGED <<before, rounds>> OBVIOUS
  <2>2. calls' \in Nat /\ index' \in -1..MaxRows BY EditAssumption DEF Typed
  <2> QED BY <1>1, <1>2, <2>1, <2>2 DEF Typed
<1>4. Rounds' BY <1>2 DEF Rounds, Typed
<1>5. Credit => Credit' BY <1>1, <1>2 DEF Credit, Gone, Doomed, Handled
<1>6. Earned => Earned' BY <1>1, <1>2 DEF Earned, Gone
<1>7. AnswerIsTrue' BY <1>2 DEF AnswerIsTrue
<1>8. Timely => Timely' BY <1>1, <1>2 DEF Timely
<1> QED BY <1>1, <1>3, <1>4, <1>5, <1>6, <1>7, <1>8

LEMMA ReadInitialCountSafe == ASSUME Safe, ReadInitialCount PROVE Safe'
<1> USE DEF ReadInitialCount, Return, Safe
<1>1. UNCHANGED <<dialog, job, index, before, history>> /\ step = "initial" /\ step' \in {"idle", "count"} OBVIOUS
<1>2. Count \in 0..MaxRows BY Sizes, EditAssumption DEF Count
<1>3. Typed' BY <1>1, <1>2 DEF Typed, dialog, history
<1>4. Rounds' BY <1>1, <1>2 DEF Rounds, Typed
<1>5. Credit => Credit' BY <1>1 DEF Credit, Gone, Doomed, Handled, dialog, history
<1>6. Earned => Earned' BY <1>1 DEF Earned, Gone, dialog, history
<1>7. open => AnswerIsTrue'
  <2>1. job = "clear" BY <1>1 DEF Rounds
  <2>2. open /\ Cardinality(rows) = 0 => rows = {} BY Lengths, FS_EmptySet DEF Typed
  <2> QED BY <1>1, <2>1, <2>2 DEF AnswerIsTrue, Count, dialog
<1>8. Timely => Timely'
  <2>1. job = "clear" BY <1>1 DEF Rounds
  <2> QED BY <1>1, <2>1 DEF Timely, dialog
<1> QED BY <1>1, <1>3, <1>4, <1>5, <1>6, <1>7, <1>8 DEF dialog, history

LEMMA ReadCountSafe == ASSUME Safe, ReadCount PROVE Safe'
<1> USE DEF ReadCount, Safe
<1>1. UNCHANGED <<dialog, job, index, rounds, history>> /\ step = "count" /\ before' = Count OBVIOUS
<1>2. \/ step' = "deselect" /\ answer' = answer
      \/ step' = "idle" /\ answer' = FALSE
  BY DEF DeleteReturns, Return
<1>3. Count \in 0..MaxRows BY Sizes, EditAssumption DEF Count
<1>4. Typed' BY <1>1, <1>2, <1>3 DEF Typed, dialog, history
<1>5. Rounds' BY <1>1, <1>2 DEF Rounds
<1>6. Credit => Credit' BY <1>1, <1>2 DEF Credit, Gone, Doomed, Handled, dialog, history
<1>7. open /\ Earned => Earned'
  <2>1. open => before' = Cardinality(rows) BY <1>1 DEF Count
  <2>2. Cardinality(rows) \in Int /\ initially \in Int /\ done \in Int BY Sizes DEF Typed
  <2> QED BY <1>1, <1>2, <2>1, <2>2 DEF Earned, Gone, dialog, history
<1>8. open /\ Timely => Timely' BY <1>1, <1>2 DEF Timely, Count, dialog, history
<1>9. open => AnswerIsTrue' BY <1>1, <1>2 DEF AnswerIsTrue, Timely, dialog, history
<1> QED BY <1>1, <1>4, <1>5, <1>6, <1>7, <1>8, <1>9 DEF dialog, history

LEMMA DeselectSafe == ASSUME Safe, Deselect PROVE Safe'
<1> USE DEF Deselect, Safe
<1>1. /\ UNCHANGED <<open, rows, queue, job, index, before, rounds, answer, history>>
      /\ step = "deselect" /\ step' = "select"
  OBVIOUS
<1>2. Typed' BY <1>1 DEF Typed, history
<1>3. Rounds' BY <1>1 DEF Rounds
<1>4. open /\ Credit => Credit'
  <2>1. open => Cardinality(selected') = 0 BY FS_EmptySet
  <2>2. Cardinality(rows) \in Int /\ initially \in Int /\ posted \in Int /\ queue \in Int BY Sizes DEF Typed
  <2> QED BY <1>1, <2>1, <2>2 DEF Credit, Gone, Doomed, Handled, history
<1>5. Earned => Earned' BY <1>1 DEF Earned, Gone, history
<1>6. AnswerIsTrue' BY <1>1 DEF AnswerIsTrue
<1>7. open /\ Timely => Timely' BY <1>1 DEF Timely, history
<1> QED BY <1>1, <1>2, <1>3, <1>4, <1>5, <1>6, <1>7 DEF history

LEMMA SelectSafe == ASSUME Safe, Select PROVE Safe'
<1> USE DEF Select, Safe
<1>1. /\ UNCHANGED <<open, rows, queue, job, index, before, rounds, answer, history>>
      /\ step = "select" /\ step' = "post"
  OBVIOUS
<1>2. RowAt(rows, index) \in SUBSET rows /\ Cardinality(RowAt(rows, index)) <= 1
  <2>1. rows \in SUBSET (1..MaxRows) /\ index \in Int BY EditAssumption DEF Typed
  <2> QED BY <2>1, OneRow
<1>3. Typed' BY <1>1, <1>2 DEF Typed, history
<1>4. Rounds' BY <1>1 DEF Rounds
<1>5. open /\ Credit => Credit'
  <2>1. open => Cardinality(selected') <= Cardinality(selected) + 1 BY <1>2, Joined DEF Typed
  <2>2. Cardinality(selected') \in Int
    <3>1. Typed' BY <1>3
    <3>2. selected' \in SUBSET (1..MaxRows) BY <3>1 DEF Typed
    <3> QED BY <3>2, Lengths
  <2>3. /\ Cardinality(rows) \in Int /\ Cardinality(selected) \in Int /\ initially \in Int
        /\ posted \in Int /\ queue \in Int
    BY Sizes DEF Typed
  <2>4. open => Doomed' <= Doomed + 1 BY <1>1, <2>1, <2>2, <2>3 DEF Doomed, Gone, history
  <2>5. Doomed \in Int /\ Doomed' \in Int /\ Handled \in Int /\ Gone' = Gone /\ Handled' = Handled
    BY <1>1, <2>2, <2>3 DEF Doomed, Gone, Handled, history
  <2> QED BY <1>1, <2>4, <2>5 DEF Credit
<1>6. Earned => Earned' BY <1>1 DEF Earned, Gone, history
<1>7. AnswerIsTrue' BY <1>1 DEF AnswerIsTrue
<1>8. open /\ Timely => Timely'
  <2>1. open /\ Timely => selected' = RowAt(rows, index) BY <1>1 DEF Timely
  <2> QED BY <1>1, <2>1 DEF Timely, history
<1> QED BY <1>1, <1>3, <1>4, <1>5, <1>6, <1>7, <1>8 DEF history

LEMMA PostDeleteSafe == ASSUME Safe, PostDelete PROVE Safe'
<1> USE DEF PostDelete, Safe
<1>1. /\ UNCHANGED <<open, rows, selected, job, index, before, rounds, calls, late, initially, atCall, done>>
      /\ step = "post"
  OBVIOUS
<1>2. \/ open /\ queue' = queue + 1 /\ posted' = posted + 1 /\ step' = "await" /\ answer' = answer
      \/ step' = "idle" /\ answer' = FALSE /\ queue' = queue /\ posted' = posted
  BY DEF DeleteReturns, Return
<1>3. queue \in Nat /\ posted \in Nat BY DEF Typed
<1>4. Typed' BY <1>1, <1>2, <1>3 DEF Typed
<1>5. Rounds' BY <1>1, <1>2 DEF Rounds
<1>6. Credit => Credit'
  <2>1. Handled' = Handled /\ Gone' = Gone /\ Doomed' = Doomed BY <1>1, <1>2, <1>3 DEF Handled, Gone, Doomed
  <2>2. Credit => Doomed <= Handled + 1 BY <1>1 DEF Credit
  <2>3. step' \in {"await", "idle"} BY <1>2
  <2> QED BY <2>1, <2>2, <2>3 DEF Credit
<1>7. Earned => Earned' BY <1>1, <1>2 DEF Earned, Gone
<1>8. AnswerIsTrue' BY <1>1, <1>2 DEF AnswerIsTrue, Timely
<1>9. Timely => Timely' BY <1>1, <1>2, <1>3 DEF Timely
<1> QED BY <1>1, <1>4, <1>5, <1>6, <1>7, <1>8, <1>9

\* The list is shorter by one row, or the deadline has passed.
LEMMA AwaitDropSafe == ASSUME Safe, AwaitDrop PROVE Safe'
<1> USE DEF Safe
<1>1. /\ UNCHANGED <<open, rows, selected, queue, job, index, before, rounds, calls, initially, atCall, posted>>
      /\ step = "await"
  BY DEF AwaitDrop, dialog
<1>2. \/ /\ Count = before - 1 /\ done' = done + 1 /\ late' = late
         /\ \/ job = "clear" /\ step' = "recount" /\ answer' = answer
            \/ job # "clear" /\ step' = "idle" /\ answer' = TRUE
      \/ /\ Count # before - 1 /\ done' = done /\ late' = (late \/ queue > 0)
         /\ step' = "idle" /\ answer' = FALSE
  BY DEF AwaitDrop, DeleteReturns, Return
<1>3. Typed' BY <1>1, <1>2 DEF Typed
<1>4. Rounds' BY <1>1, <1>2 DEF Rounds
<1>5. Credit => Credit' BY <1>1, <1>2 DEF Credit, Gone, Doomed, Handled
<1>6. /\ Cardinality(rows) \in Int /\ before \in Int /\ initially \in Int /\ done \in Int
      /\ queue \in Nat
  BY Sizes DEF Typed
<1>7. open /\ Earned => Earned' BY <1>1, <1>2, <1>6 DEF Earned, Gone, Count
<1>8. ~late' => ~late /\ (Count = before - 1 \/ ~(queue > 0)) BY <1>2, Zenon
<1>9. open /\ ~late' /\ Timely => queue = 0 BY <1>1, <1>6, <1>8 DEF Timely, Count
<1>10. open /\ ~late' /\ Timely => Timely' BY <1>1, <1>2, <1>9 DEF Timely
<1>11. open /\ (~late => Timely) => AnswerIsTrue'
  <2> SUFFICES ASSUME open, ~late' /\ job = "delete" /\ step' = "idle", ~late => Timely
               PROVE  IF answer' THEN rows = atCall \ RowAt(atCall, index) /\ rows # atCall ELSE rows = atCall
    BY <1>1, <1>2 DEF AnswerIsTrue
  <2>1. ~late /\ Timely BY <1>8
  <2>2. queue = 0 BY <1>9, <2>1
  <2>3. rows = atCall \ RowAt(atCall, index) /\ before = Cardinality(atCall) BY <1>1, <2>1, <2>2 DEF Timely
  <2>4. atCall \in SUBSET (1..MaxRows) /\ index \in Int BY EditAssumption DEF Typed
  <2>5. RowAt(atCall, index) \in SUBSET atCall /\ Cardinality(RowAt(atCall, index)) <= 1 BY <2>4, OneRow
  <2>6. IsFiniteSet(RowAt(atCall, index)) /\ Cardinality(RowAt(atCall, index)) \in Nat
    <3>1. RowAt(atCall, index) \in SUBSET (1..MaxRows) BY <2>4, <2>5
    <3> QED BY <3>1, Lengths
  <2>7. Cardinality(rows) = Cardinality(atCall) - Cardinality(RowAt(atCall, index)) BY <2>3, <2>4, <2>5, Removed
  <2>8. CASE Count = before - 1 BY <1>2, <1>6, <2>3, <2>8 DEF Count
  <2>9. CASE Count # before - 1
    <3>1. Cardinality(RowAt(atCall, index)) = 0 BY <1>6, <2>3, <2>5, <2>6, <2>7, <2>9 DEF Count
    <3>2. RowAt(atCall, index) = {} BY <2>6, <3>1, FS_EmptySet
    <3> QED BY <1>2, <2>3, <2>9, <3>2
  <2> QED BY <2>8, <2>9
<1> QED BY <1>1, <1>3, <1>4, <1>5, <1>7, <1>8, <1>10, <1>11

LEMMA RecountSafe == ASSUME Safe, Recount PROVE Safe'
<1> USE DEF Safe
<1>1. /\ UNCHANGED <<open, rows, selected, queue, job, index, before, calls, late, initially, atCall, posted, done>>
      /\ step = "recount" /\ job = "clear" /\ rounds' = rounds - 1 /\ rounds > 0
  BY DEF Recount, dialog, history, Rounds
<1>2. \/ step' = "idle" /\ answer' = (Count = 0)
      \/ step' = "count" /\ answer' = answer /\ rounds # 1
  BY DEF Recount, Return
<1>3. Typed' BY <1>1, <1>2, EditAssumption DEF Typed
<1>4. Rounds' BY <1>1, <1>2 DEF Rounds, Typed
<1>5. Credit => Credit' BY <1>1, <1>2 DEF Credit, Gone, Doomed, Handled
<1>6. Earned => Earned' BY <1>1, <1>2 DEF Earned, Gone
<1>7. Timely => Timely' BY <1>1, <1>2 DEF Timely
<1>8. open => AnswerIsTrue'
  <2>1. open /\ Count = 0 => rows = {} BY Lengths, FS_EmptySet DEF Typed, Count
  <2> QED BY <1>1, <1>2, <2>1 DEF AnswerIsTrue
<1> QED BY <1>1, <1>3, <1>4, <1>5, <1>6, <1>7, <1>8

LEMMA SafeInv == Safe /\ [Next]_vars => Safe'
<1> SUFFICES ASSUME Safe, [Next]_vars PROVE Safe'
  OBVIOUS
<1>1. CASE UiDelete BY <1>1, UiDeleteSafe
<1>2. CASE UiClose BY <1>2, UiCloseSafe
<1>3. CASE Edit
  BY <1>3, ReadInitialCountSafe, ReadCountSafe, DeselectSafe, SelectSafe, PostDeleteSafe, AwaitDropSafe, RecountSafe
  DEF Edit
<1>4. ASSUME NEW i \in -1..MaxRows, CallDelete(i) \/ CallClear PROVE Safe' BY <1>4, CallSafe
<1>5. CASE CallClear
  <2>1. 0 \in -1..MaxRows BY EditAssumption
  <2> QED BY <1>4, <1>5, <2>1
<1>6. CASE UNCHANGED vars
  BY <1>6 DEF vars, dialog, driver, history, Safe, Typed, Rounds, Credit, Earned, Gone, Doomed, Handled,
     AnswerIsTrue, Timely
<1> QED BY <1>1, <1>2, <1>3, <1>4, <1>5, <1>6 DEF Next

LEMMA Invariance == Spec => []IInv
<1>1. IInv /\ [Next]_vars => IInv' BY FlagsInv, SafeInv DEF IInv, Safe
<1> QED BY <1>1, InitInv, PTL DEF Spec

-----------------------------------------------------------------------------
\* The dialog's list and the call that edits it are well typed, and what is
\* selected is in the list.
THEOREM TypeCorrect == Spec => []TypeOK
<1>1. IInv => TypeOK BY TypeParts DEF IInv, Safe
<1> QED BY <1>1, Invariance, PTL

\* What DeleteSkipRange and ClearAllSkipRanges answer is so, but for a Delete
\* that PotPlayer handled after its deadline (skip_setup.cpp:549-614).
THEOREM AnswersAreTrue == Spec => []AnswerIsTrue
<1>1. IInv => AnswerIsTrue BY DEF IInv, Safe, AnswerIsTrue
<1> QED BY <1>1, Invariance, PTL

\* However late a Delete is handled, none takes a second row, and none is
\* counted as a success twice (skip_setup.cpp:561-585).
THEOREM RowsGoOneByOne == Spec => []DeletesAddUp
<1>1. IInv => DeletesAddUp BY DEF IInv, Safe, DeletesAddUp, Credit, Earned, Gone, Handled
<1> QED BY <1>1, Invariance, PTL
=============================================================================
