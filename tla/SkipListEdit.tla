---------------------------- MODULE SkipListEdit ----------------------------
(***************************************************************************)
(* Removing rows from an open Skip Setup: DeleteSkipRange, RunClearAllLoop  *)
(* and ClearAllSkipRanges (skip_setup.cpp).  A row is removed by selecting  *)
(* it and posting Delete, which PotPlayer handles when its UI thread gets   *)
(* there: on what is selected by then, and perhaps after the wait for the   *)
(* row count has given up.  A question sent with SendMessage is answered    *)
(* between two posted messages, and with 0 once the dialog is gone.         *)
(***************************************************************************)
EXTENDS Integers, FiniteSets

CONSTANTS MaxRows,  \* bound: rows the list starts with
          MaxCalls  \* bound: calls in one behaviour

ASSUME EditAssumption == MaxRows \in Nat /\ MaxCalls \in Nat

VARIABLES
  open,           \* the dialog is alive
  rows, selected, \* its list, rows named by where they started (their order is
                  \* that of their names), and the selection
  queue,          \* Delete commands posted and not yet handled
  step,           \* where the call is
  job, index,     \* a delete of row index or a clear-all, whose index is 0
  before,         \* countBefore
  rounds,         \* what is left of RunClearAllLoop's initialCount
  answer,         \* what the last call returned
  calls, late,    \* history: calls made; some Delete missed its deadline
  initially,      \* history: rows there were
  atCall,         \* history: the list when the last call began
  posted, done    \* history: Deletes posted; DeleteSkipRange's true answers

dialog == <<open, rows, selected, queue>>
driver == <<step, job, index, before, rounds, answer>>
history == <<calls, late, initially, atCall, posted, done>>
vars == <<dialog, driver, history>>

Init == \E n \in 0..MaxRows :
    /\ open = TRUE /\ rows = 1..n /\ selected \in SUBSET (1..n) /\ queue = 0
    /\ step = "idle" /\ job = "delete" /\ index = 0 /\ before = 0 /\ rounds = 0 /\ answer = FALSE
    /\ calls = 0 /\ late = FALSE /\ initially = n /\ atCall = rows /\ posted = 0 /\ done = 0

Count == IF open THEN Cardinality(rows) ELSE 0
\* The row at an index counted from 0, if there is one.
RowAt(list, i) == {r \in list : Cardinality({s \in list : s < r}) = i}

-----------------------------------------------------------------------------
\* PotPlayer removes what is selected, and may select a row that is left.
UiDelete ==
    /\ open /\ queue > 0 /\ queue' = queue - 1
    /\ rows' = rows \ selected
    /\ selected' \in {{}} \cup {{r} : r \in rows'}
    /\ UNCHANGED <<open, driver, history>>

\* Esc, or PotPlayer exiting: what was posted is gone with the window.
UiClose == /\ open /\ open' = FALSE /\ queue' = 0
           /\ UNCHANGED <<rows, selected, driver, history>>

-----------------------------------------------------------------------------
CallDelete(i) ==
    /\ step = "idle" /\ calls < MaxCalls /\ calls' = calls + 1
    /\ job' = "delete" /\ index' = i /\ step' = "count" /\ atCall' = rows
    /\ UNCHANGED <<dialog, before, rounds, answer, late, initially, posted, done>>

CallClear ==
    /\ step = "idle" /\ calls < MaxCalls /\ calls' = calls + 1
    /\ job' = "clear" /\ index' = 0 /\ step' = "initial" /\ atCall' = rows
    /\ UNCHANGED <<dialog, before, rounds, answer, late, initially, posted, done>>

Return(ok) == step' = "idle" /\ answer' = ok

\* ClearAllSkipRanges: an empty list needs nothing done.
ReadInitialCount ==
    /\ step = "initial" /\ rounds' = Count
    /\ IF Count = 0 THEN Return(TRUE) ELSE step' = "count" /\ UNCHANGED answer
    /\ UNCHANGED <<dialog, job, index, before, history>>

\* How DeleteSkipRange's answer is taken by its caller, the clear-all or the user of it.
DeleteReturns(ok) ==
    IF job = "clear" /\ ok THEN step' = "recount" /\ UNCHANGED answer ELSE Return(ok)

\* countBefore, and ResolveSkipRangeIndexToDelete on it.
ReadCount ==
    /\ step = "count" /\ before' = Count
    /\ IF index \in 0..(Count - 1) THEN step' = "deselect" /\ UNCHANGED answer ELSE DeleteReturns(FALSE)
    /\ UNCHANGED <<dialog, job, index, rounds, history>>

\* Mutant: what was selected stays selected.
KeepSelection ==
    /\ step = "deselect" /\ step' = "select"
    /\ UNCHANGED <<dialog, job, index, before, rounds, answer, history>>

Deselect ==
    /\ step = "deselect" /\ step' = "select"
    /\ selected' = IF open THEN {} ELSE selected
    /\ UNCHANGED <<open, rows, queue, job, index, before, rounds, answer, history>>

\* Selecting a row that is not there does nothing.
Select ==
    /\ step = "select" /\ step' = "post"
    /\ selected' = IF open THEN selected \cup RowAt(rows, index) ELSE selected
    /\ UNCHANGED <<open, rows, queue, job, index, before, rounds, answer, history>>

\* PostMessage fails once the dialog is gone, or when its queue is full.
PostDelete ==
    /\ step = "post"
    /\ \/ /\ open /\ queue' = queue + 1 /\ posted' = posted + 1
          /\ step' = "await" /\ UNCHANGED answer
       \/ DeleteReturns(FALSE) /\ UNCHANGED <<queue, posted>>
    /\ UNCHANGED <<open, rows, selected, job, index, before, rounds, calls, late, initially, atCall, done>>

\* Mutants: a posted Delete is taken for a done one; the wait has no deadline.
AwaitNothing ==
    /\ step = "await" /\ done' = done + 1 /\ DeleteReturns(TRUE)
    /\ UNCHANGED <<dialog, job, index, before, rounds, calls, late, initially, atCall, posted>>
AwaitDropForever ==
    /\ step = "await" /\ Count = before - 1
    /\ done' = done + 1 /\ DeleteReturns(TRUE)
    /\ UNCHANGED <<dialog, job, index, before, rounds, calls, late, initially, atCall, posted>>

\* WaitForItemCount: the count is looked at once more before giving up.
AwaitDrop ==
    /\ step = "await"
    /\ IF Count = before - 1 THEN done' = done + 1 /\ DeleteReturns(TRUE) /\ UNCHANGED late
                             ELSE late' = (late \/ queue > 0) /\ DeleteReturns(FALSE) /\ UNCHANGED done
    /\ UNCHANGED <<dialog, job, index, before, rounds, calls, initially, atCall, posted>>

\* RunClearAllLoop, from deleteFirst's return on.
Recount ==
    /\ step = "recount" /\ rounds' = rounds - 1
    /\ IF Count = 0 \/ rounds = 1 THEN Return(Count = 0) ELSE step' = "count" /\ UNCHANGED answer
    /\ UNCHANGED <<dialog, job, index, before, history>>

Edit == \/ ReadInitialCount \/ ReadCount \/ Deselect \/ Select \/ PostDelete \/ AwaitDrop \/ Recount
Next == \/ UiDelete \/ UiClose \/ Edit
        \/ CallClear \/ \E i \in -1..MaxRows : CallDelete(i)
Spec == Init /\ [][Next]_vars

\* The caller's thread runs, and PotPlayer's UI thread answers what it is sent.
FairSpec == Spec /\ WF_vars(Edit)

-----------------------------------------------------------------------------
TypeOK == /\ open \in BOOLEAN /\ rows \in SUBSET (1..MaxRows) /\ selected \in SUBSET rows /\ queue \in Nat
          /\ step \in {"idle", "initial", "count", "deselect", "select", "post", "await", "recount"}
          /\ job \in {"delete", "clear"} /\ index \in -1..MaxRows
          /\ before \in 0..MaxRows /\ rounds \in 0..MaxRows /\ answer \in BOOLEAN
          /\ calls \in Nat /\ late \in BOOLEAN /\ initially \in 0..MaxRows
          /\ atCall \in SUBSET (1..MaxRows) /\ posted \in Nat /\ done \in Nat

\* What a call says is so, as long as the dialog stays: DeleteSkipRange removed
\* exactly the row it was asked to, or none when it failed (skip_setup.hpp:202-210),
\* unless some Delete missed its deadline; and a clear-all that succeeded left an
\* empty list (skip_setup.hpp:224-226), late Deletes of earlier calls included.
AnswerIsTrue ==
    open /\ step = "idle" =>
        /\ ~late /\ job = "delete" =>
              IF answer THEN rows = atCall \ RowAt(atCall, index) /\ rows # atCall ELSE rows = atCall
        /\ job = "clear" /\ answer => rows = {}

\* Whatever came late: a row goes only by a Delete posted for a row, each
\* Delete takes one at most, and each success stands for a row that went.
DeletesAddUp ==
    open => LET gone == initially - Cardinality(rows)
            IN  done <= gone /\ gone <= posted - queue

\* Every call returns, a clear-all of any list included (skip_setup.hpp:213-219).
EditReturns == step # "idle" ~> step = "idle"
=============================================================================
