-------------------------- MODULE SkipMarking_proof --------------------------
(***************************************************************************)
(* The safety of SkipMarking, for any positions, presses and commits, over  *)
(* any behaviour CommitContract allows commitRange.  LedgerMatches speaks   *)
(* of the moments between two presses; Exact says what holds of the list    *)
(* while a commit is under way, and Asked that the range it was called for  *)
(* is still the mark when it returns.                                       *)
(***************************************************************************)
EXTENDS SkipMarking, SequenceTheorems, TLAPS

\* The type invariant, its Boolean part apart.
Flags == /\ fileOpen \in BOOLEAN /\ foreground \in BOOLEAN /\ fresh \in BOOLEAN /\ stop \in BOOLEAN
         /\ pending \in BOOLEAN /\ answer \in BOOLEAN /\ timely \in BOOLEAN /\ late \in BOOLEAN
Typed == /\ position \in Positions /\ registered \in SUBSET Keys /\ inbox \in Seq(Keys)
         /\ pump \in {"starting", "waiting", "draining", "stopping", "stopped"}
         /\ step \in {"none", "version", "file", "mark", "range", "commit"} /\ key \in Keys
         /\ mark \in [start : Positions \cup {Unset}, end : Positions \cup {Unset}]
         /\ verdict \in {"unknown", "supported", "unsupported"}
         /\ saved \in Seq(Spans \cup {Existing}) /\ before \in Seq(Spans \cup {Existing})
         /\ asked \in Seq(Spans) /\ announced \in Seq(Spans)
         /\ presses \in Nat /\ owed \in Int

\* A handler's later steps are for its own key, and a commit is for the mark.
Last == asked[Len(asked)]
Asked == /\ step = "mark" => key # "A"
         /\ step \in {"range", "commit"} => key = "A"
         /\ step = "commit" => asked # <<>> /\ Last = <<mark.start, mark.end>>
         /\ pending => step = "commit"

\* Until a press found the build supported, no handler got past that question.
Inert == verdict # "supported" => mark = NoMark /\ asked = <<>> /\ step \in {"none", "version"}

\* While no deadline was missed: the list between two commits and within one.
Told(list) == \E first \in {<<>>, <<Existing>>} : list = first \o announced
Exact == ~late => /\ timely
                  /\ step # "commit" => Told(saved)
                  /\ step = "commit" => /\ Told(before)
                                        /\ saved \in {before, Append(before, Last)}
                                        /\ ~pending => Commit!AsContracted(answer)

Safe == Asked /\ Inert /\ OneLinePerPress /\ Exact
IInv == Flags /\ Typed /\ Safe

LEMMA TypeParts == Flags /\ Typed => TypeOK
BY DEF Flags, Typed, TypeOK

\* The lists a file may start with are sequences.
LEMMA ShortSeq == ASSUME NEW S, NEW e \in S, NEW list \in {<<>>, <<e>>} PROVE list \in Seq(S)
<1>1. <<>> \in Seq(S) /\ <<e>> \in Seq(S) OBVIOUS
<1> QED BY <1>1

LEMMA InitInv == Init => IInv
<1> SUFFICES ASSUME Init PROVE IInv
  OBVIOUS
<1> USE DEF Init, Commit!ContractInit
<1>1. Flags BY DEF Flags
<1>2. Typed
  <2>1. saved \in Seq(Spans \cup {Existing}) /\ before = saved BY ShortSeq
  <2>2. 0 \in Positions BY MarkingAssumption DEF Positions
  <2> QED BY <2>1, <2>2 DEF Typed, Keys, NoMark
<1>3. Asked /\ Inert /\ OneLinePerPress BY DEF Asked, Inert, OneLinePerPress, NoMark
<1>4. Exact
  <2>1. saved \in {<<>>, <<Existing>>} /\ announced = <<>> OBVIOUS
  <2>2. saved \in Seq({Existing}) BY <2>1, ShortSeq
  <2>3. saved = saved \o announced BY <2>1, <2>2, ConcatEmptySeq
  <2>4. Told(saved) BY <2>1, <2>3 DEF Told
  <2> QED BY <2>4 DEF Exact
<1> QED BY <1>1, <1>2, <1>3, <1>4 DEF IInv, Safe

USE DEF vars, player, pumpVars, handler, commitVars, history

\* No step leaves a flag with a value that is not Boolean.
LEMMA FlagsInv == Flags /\ [Next]_vars => Flags'
<1> USE DEF Flags
<1> SUFFICES ASSUME Flags, [Next]_vars PROVE Flags'
  OBVIOUS
<1>1. CASE Player BY <1>1 DEF Player, Play, OpenOrClose, SwitchWindow
<1>2. CASE SignalStop \/ (\E k \in Keys : Press(k)) BY <1>2 DEF SignalStop, Press
<1>3. CASE Pump \/ WaitFails
  BY <1>3 DEF Pump, RegisterHotkeys, Wait, TakePress, Drained, UnregisterHotkeys, WaitFails
<1>4. CASE Handle
  <2>1. CASE CallCommitRange BY <2>1 DEF CallCommitRange, Commit!Ask
  <2>2. CASE ~CallCommitRange
    BY <1>4, <2>2 DEF Handle, CheckVersionSupport, CheckFileOpen, SetMark, RefuseRange, CommitReturns
  <2> QED BY <2>1, <2>2
<1>5. CASE DuringCommit
  BY <1>5 DEF DuringCommit, Commit!Store, Commit!Delay, Commit!Answer
<1>6. CASE UNCHANGED vars BY <1>6
<1> QED BY <1>1, <1>2, <1>3, <1>4, <1>5, <1>6 DEF Next

-----------------------------------------------------------------------------
LEMMA PlayerTyped == ASSUME Typed, Player PROVE Typed'
BY MarkingAssumption DEF Typed, Player, Play, OpenOrClose, SwitchWindow, Positions

LEMMA PumpTyped == ASSUME Typed, Pump \/ WaitFails \/ SignalStop \/ \E k \in Keys : Press(k) PROVE Typed'
<1>1. CASE TakePress
  <2>1. Head(inbox) \in Keys /\ Tail(inbox) \in Seq(Keys)
    BY <1>1, HeadTailProperties DEF TakePress, Typed
  <2> QED BY <1>1, <2>1 DEF TakePress, Typed
<1>2. CASE \E k \in Keys : Press(k) BY <1>2 DEF Press, Typed
<1>3. CASE RegisterHotkeys BY <1>3 DEF RegisterHotkeys, Typed
<1>4. CASE Wait \/ Drained \/ UnregisterHotkeys \/ WaitFails \/ SignalStop
  BY <1>4 DEF Wait, Drained, UnregisterHotkeys, WaitFails, SignalStop, Typed
<1> QED BY <1>1, <1>2, <1>3, <1>4 DEF Pump

\* A mark that is complete and lies forward is a span.
LEMMA MarkIsSpan ==
    ASSUME Typed, Complete, mark.start < mark.end PROVE <<mark.start, mark.end>> \in Spans
BY MarkingAssumption DEF Typed, Complete, Spans, Unset, Positions

\* What was asked for last is a span.
LEMMA LastIsSpan == ASSUME Typed, asked # <<>> PROVE Last \in Spans
<1>1. asked \in Seq(Spans) /\ Len(asked) \in 1..Len(asked)
  BY EmptySeq DEF Typed
<1> QED BY <1>1, ElementOfSeq DEF Last

LEMMA HandleTyped == ASSUME Typed, Asked, Handle PROVE Typed'
<1>1. CASE CheckVersionSupport \/ CheckFileOpen \/ RefuseRange
  BY <1>1 DEF CheckVersionSupport, CheckFileOpen, RefuseRange, Refuse, ShowOsd, Typed
<1>2. CASE SetMark
  <2>1. mark' \in [start : Positions \cup {Unset}, end : Positions \cup {Unset}]
    BY <1>2 DEF SetMark, Typed
  <2> QED BY <1>2, <2>1 DEF SetMark, ShowOsd, Typed
<1>3. CASE CallCommitRange
  <2>1. <<mark.start, mark.end>> \in Spans BY <1>3, MarkIsSpan DEF CallCommitRange
  <2> QED BY <1>3, <2>1 DEF CallCommitRange, Commit!Ask, Typed
<1>4. CASE CommitReturns
  <2>1. <<mark.start, mark.end>> \in Spans BY <1>4, LastIsSpan DEF CommitReturns, Asked
  <2>2. mark' \in [start : Positions \cup {Unset}, end : Positions \cup {Unset}]
    BY <1>4 DEF CommitReturns, Typed, NoMark
  <2>3. announced' \in Seq(Spans)
    <3> DEFINE span == <<mark.start, mark.end>>
    <3>1. announced' = announced \/ announced' = Append(announced, span)
      BY <1>4 DEF CommitReturns
    <3> HIDE DEF span
    <3>2. announced \in Seq(Spans) BY DEF Typed
    <3>3. Append(announced, span) \in Seq(Spans) BY <2>1, <3>2 DEF span
    <3> QED BY <3>1, <3>2, <3>3
  <2> QED BY <1>4, <2>2, <2>3 DEF CommitReturns, ShowOsd, Typed
<1> QED BY <1>1, <1>2, <1>3, <1>4 DEF Handle

LEMMA CommitTyped == ASSUME Typed, DuringCommit PROVE Typed'
<1>1. CASE Commit!Store
  <2>1. PICK n \in 1..Len(asked) : \E new \in [1..n -> Spans] : saved' = saved \o new
    BY <1>1 DEF Commit!Store
  <2>2. PICK new \in [1..n -> Spans] : saved' = saved \o new
    BY <2>1
  <2>3. new \in Seq(Spans \cup {Existing})
    BY <2>2, SeqDef DEF Typed
  <2>4. saved' \in Seq(Spans \cup {Existing})
    BY <2>2, <2>3, ConcatProperties DEF Typed
  <2> QED BY <1>1, <2>4 DEF DuringCommit, Commit!Store, Typed
<1>2. CASE Commit!Delay BY <1>2 DEF DuringCommit, Commit!Delay, Typed
<1>3. CASE \E b \in BOOLEAN : Commit!Answer(b) BY <1>3 DEF DuringCommit, Commit!Answer, Typed
<1> QED BY <1>1, <1>2, <1>3 DEF DuringCommit

LEMMA TypedInv == Typed /\ Asked /\ [Next]_vars => Typed'
<1>1. ASSUME Typed, UNCHANGED vars PROVE Typed' BY <1>1 DEF Typed
<1> QED BY <1>1, PlayerTyped, PumpTyped, HandleTyped, CommitTyped DEF Next

-----------------------------------------------------------------------------
\* The player, the user and the pump between two handlers change nothing of this.
LEMMA QuietSafe ==
    ASSUME Safe, UNCHANGED <<handler, commitVars, owed, announced, late>> PROVE Safe'
BY DEF Safe, Asked, Last, Inert, OneLinePerPress, Exact, Told, Commit!AsContracted

LEMMA TakePressSafe == ASSUME Safe, TakePress PROVE Safe'
BY DEF Safe, TakePress, Asked, Last, Inert, OneLinePerPress, Exact, Told, Commit!AsContracted

\* The handlers' steps before and beside a commit.
LEMMA HandleSafe ==
    ASSUME Typed, Safe, CheckVersionSupport \/ CheckFileOpen \/ SetMark \/ RefuseRange PROVE Safe'
<1> USE DEF CheckVersionSupport, CheckFileOpen, SetMark, RefuseRange, Refuse, ShowOsd, Safe
<1>1. Asked' BY DEF Typed, Keys, Asked, Last
<1>2. Inert' BY DEF Typed, Inert
<1>3. OneLinePerPress' BY DEF Typed, OneLinePerPress
<1>4. Exact' BY DEF Exact, Told, Last, Commit!AsContracted
<1> QED BY <1>1, <1>2, <1>3, <1>4

LEMMA CallCommitRangeSafe == ASSUME Flags, Typed, Safe, CallCommitRange PROVE Safe'
<1> USE DEF CallCommitRange, Commit!Ask, Safe
<1>1. asked' # <<>> /\ Last' = <<mark.start, mark.end>>
  <2>1. <<mark.start, mark.end>> \in Spans /\ asked \in Seq(Spans) BY MarkIsSpan DEF Typed
  <2> QED BY <2>1 DEF Last
<1>2. Asked' /\ Inert' /\ OneLinePerPress' BY <1>1 DEF Asked, Inert, OneLinePerPress
<1>3. Exact' BY DEF Flags, Exact, Told
<1> QED BY <1>2, <1>3

\* A range at the end of the list is a range at the end of what was announced.
LEMMA AppendedLast ==
    \A a, b \in Seq(Spans \cup {Existing}) : \A r \in Spans \cup {Existing} : Append(a \o b, r) = a \o Append(b, r)
OBVIOUS

\* What a commit appends to the list is what its line appends to the announced.
LEMMA AppendTold ==
    ASSUME Typed, NEW list \in Seq(Spans \cup {Existing}), Told(list), NEW r \in Spans
    PROVE  \E first \in {<<>>, <<Existing>>} : Append(list, r) = first \o Append(announced, r)
<1>1. PICK first \in {<<>>, <<Existing>>} : list = first \o announced
  BY DEF Told
<1>2. announced \in Seq(Spans \cup {Existing}) /\ r \in Spans \cup {Existing} BY SeqMonotonic DEF Typed
<1>3. first \in Seq(Spans \cup {Existing}) BY ShortSeq
<1>4. Append(first \o announced, r) = first \o Append(announced, r) BY <1>2, <1>3, AppendedLast, Zenon
<1> QED BY <1>1, <1>4

LEMMA CommitReturnsSafe == ASSUME Typed, Safe, CommitReturns PROVE Safe'
<1> USE DEF CommitReturns, ShowOsd, Safe
<1>1. Asked' /\ OneLinePerPress' BY DEF Asked, OneLinePerPress
<1>2. Inert' BY DEF Inert
<1>3. Exact'
  <2> SUFFICES ASSUME ~late PROVE Told(saved)'
    BY DEF Exact
  <2>1. Told(before) /\ Commit!AsContracted(answer) /\ Last = <<mark.start, mark.end>> /\ asked # <<>>
    BY DEF Exact, Asked
  <2>2. CASE ~answer BY <2>1, <2>2 DEF Told, Commit!AsContracted
  <2>3. CASE answer
    <3>1. Last \in Spans BY <2>1, LastIsSpan
    <3>2. saved = Append(before, Last) BY <2>1, <2>3 DEF Commit!AsContracted, Last
    <3>3. \E first \in {<<>>, <<Existing>>} : saved = first \o Append(announced, Last)
      BY <2>1, <3>1, <3>2, AppendTold DEF Typed
    <3> QED BY <2>1, <2>3, <3>3 DEF Told
  <2> QED BY <2>2, <2>3
<1> QED BY <1>1, <1>2, <1>3

LEMMA DuringCommitSafe == ASSUME Flags, Typed, Safe, DuringCommit PROVE Safe'
<1> USE DEF DuringCommit, Safe
<1>1. asked' = asked /\ before' = before /\ (pending' => pending)
  BY DEF Commit!Store, Commit!Delay, Commit!Answer, Flags
<1>2. Asked' /\ Inert' /\ OneLinePerPress'
  BY <1>1 DEF Asked, Last, Inert, OneLinePerPress
<1>3. Exact'
  <2> SUFFICES ASSUME ~late' PROVE Exact'
    BY DEF Exact
  <2>1. ~late /\ timely /\ timely' BY DEF Exact, Flags
  <2>2. CASE Commit!Store
    <3>1. pending /\ saved = before BY <2>1, <2>2 DEF Commit!Store
    <3>2. saved' = saved \o <<Last>> BY <2>1, <2>2 DEF Commit!Store, Last
    <3>3. saved' = Append(before, Last) BY <3>1, <3>2 DEF Typed
    <3>4. step = "commit" /\ step' = "commit" /\ pending' BY <2>2, <3>1 DEF Asked, Commit!Store
    <3> QED BY <1>1, <2>1, <3>3, <3>4 DEF Exact, Told, Last
  <2>3. CASE Commit!Delay BY <2>1, <2>3 DEF Commit!Delay
  <2>4. CASE \E b \in BOOLEAN : Commit!Answer(b)
    <3>1. Commit!AsContracted(answer)' /\ saved' = saved
      BY <2>1, <2>4 DEF Commit!Answer, Commit!AsContracted
    <3> QED BY <1>1, <2>1, <3>1 DEF Exact, Told, Last
  <2> QED BY <2>2, <2>3, <2>4
<1> QED BY <1>2, <1>3

LEMMA SafeInv == Flags /\ Typed /\ Safe /\ [Next]_vars => Safe'
<1> SUFFICES ASSUME Flags, Typed, Safe, [Next]_vars PROVE Safe'
  OBVIOUS
<1>1. CASE Player \/ SignalStop \/ (\E k \in Keys : Press(k)) \/ WaitFails \/ UNCHANGED vars
  BY <1>1, QuietSafe DEF Player, SignalStop, Press, WaitFails
<1>2. CASE RegisterHotkeys \/ Wait \/ Drained \/ UnregisterHotkeys
  BY <1>2, QuietSafe DEF RegisterHotkeys, Wait, Drained, UnregisterHotkeys
<1>3. CASE TakePress BY <1>3, TakePressSafe
<1>4. CASE Handle BY <1>4, HandleSafe, CallCommitRangeSafe, CommitReturnsSafe DEF Handle
<1>5. CASE DuringCommit BY <1>5, DuringCommitSafe
<1> QED BY <1>1, <1>2, <1>3, <1>4, <1>5 DEF Next, Pump

LEMMA Invariance == Spec => []IInv
<1>1. IInv /\ [Next]_vars => IInv' BY FlagsInv, TypedInv, SafeInv DEF IInv, Safe
<1> QED BY <1>1, InitInv, PTL DEF Spec

-----------------------------------------------------------------------------
\* Every variable has its type, for any number of positions, presses and commits.
THEOREM TypeCorrect == Spec => []TypeOK
<1>1. IInv => TypeOK BY TypeParts DEF IInv
<1> QED BY <1>1, Invariance, PTL

\* Whichever way a handler ends, its press gets one line (skip_marking.cpp:52-120).
THEOREM EveryPressAnswered == Spec => []OneLinePerPress
<1>1. IInv => OneLinePerPress BY DEF IInv, Safe
<1> QED BY <1>1, Invariance, PTL

\* A build the self-check refused is never marked on or committed to.
THEOREM RefusedIsInert == Spec => []UnsupportedIsInert
<1>1. IInv => UnsupportedIsInert BY DEF IInv, Safe, Inert, UnsupportedIsInert
<1> QED BY <1>1, Invariance, PTL

\* Over any commitRange that keeps its contract, the list is what the user was
\* told, whatever the player, the user and the retries do (skip_marking.cpp:88-120).
THEOREM ListIsAsTold == Spec => []LedgerMatches
<1>1. IInv => LedgerMatches
  BY DEF IInv, Safe, Exact, Told, LedgerMatches
<1> QED BY <1>1, Invariance, PTL

\* No step but its own key's changes a mark, and none but a successful commit of
\* it clears it (skip_marking.cpp:64-120).
THEOREM MarkNeverLost == Spec => MarkKeptUntilSaved
<1>1. IInv /\ [Next]_vars => [MarkKept]_vars
  <2> SUFFICES ASSUME IInv, Next, mark' # mark PROVE MarkKept
    BY DEF MarkKept
  <2>1. SetMark \/ CommitReturns
    BY DEF Next, Player, Press, SignalStop, Pump, RegisterHotkeys, Wait, TakePress, Drained,
       UnregisterHotkeys, WaitFails, Handle, CheckVersionSupport, CheckFileOpen, RefuseRange,
       CallCommitRange, DuringCommit
  <2>2. CASE SetMark
    BY <2>2 DEF SetMark, MarkKept, IInv, Safe, Asked, Typed, Keys
  <2>3. CASE CommitReturns
    BY <2>3 DEF CommitReturns, MarkKept, IInv, Safe, Asked, Last
  <2> QED BY <2>1, <2>2, <2>3
<1> QED BY <1>1, Invariance, PTL DEF Spec, MarkKeptUntilSaved
=============================================================================
