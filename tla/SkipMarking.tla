----------------------------- MODULE SkipMarking -----------------------------
(***************************************************************************)
(* The plugin's worker thread: RunHotkeyPump (hotkey_pump.cpp) dispatching  *)
(* presses one at a time into SkipMarkingStateMachine (skip_marking.cpp),   *)
(* which marks a start and an end and commits them through commitRange.     *)
(*                                                                         *)
(* A handler is one step per question it asks of the player: the user and   *)
(* the player go on between two of them.  commitRange is CommitContract,    *)
(* which SkipSetup implements.                                              *)
(***************************************************************************)
EXTENDS Integers, Sequences

CONSTANTS MaxPos,        \* bound: playback positions are 0..MaxPos
          Existing,      \* a row the file's list may hold from the start
          GlobalHotkeys, \* config.globalHotkeys
          Contested,     \* hotkeys another program may hold
          MaxPresses,    \* bound: hotkey presses in one behaviour
          MaxCalls       \* bound: commits in one behaviour

Positions == 0..MaxPos
Spans == {s \in Positions \X Positions : s[1] < s[2]}
Unset == -1
Keys == {"[", "]", "A"}

ASSUME MarkingAssumption == /\ MaxPos \in Nat /\ GlobalHotkeys \in BOOLEAN
                            /\ Contested \subseteq Keys
                            /\ MaxPresses \in Nat /\ MaxCalls \in Nat

NoMark == [start |-> Unset, end |-> Unset]

VARIABLES
  fileOpen, position,  \* the player: duration > 0, and where playback is
  foreground,          \* the foreground window is one of PotPlayer's
  registered,          \* the hotkeys RegisterHotKey granted
  inbox,               \* WM_HOTKEY messages waiting for the worker thread
  fresh,               \* the queue got a message since it was last looked at
  stop,                \* the stop event is signaled
  pump,                \* where RunHotkeyPump is
  step, key,           \* where the handler of the current press is, and its key
  mark,                \* pending_
  verdict,             \* EnsureSelfCheckPassed's cached outcome
  saved, asked, pending, answer, before, timely,  \* commitRange, as contracted
  presses,             \* history: presses so far
  owed,                \* history: presses handled minus OSD lines shown
  announced,           \* history: the ranges an OSD line called saved
  late                 \* history: some commit's PotPlayer missed a deadline

Commit == INSTANCE CommitContract WITH Ranges <- Spans

player == <<fileOpen, position, foreground>>
commitVars == <<saved, asked, pending, answer, before, timely>>
pumpVars == <<registered, fresh, stop, pump>>
handler == <<step, key, mark, verdict>>
history == <<presses, owed, announced, late>>
vars == <<player, inbox, pumpVars, handler, commitVars, history>>

Init == /\ fileOpen \in BOOLEAN /\ position = 0 /\ foreground = TRUE
        /\ registered = {} /\ inbox = <<>> /\ fresh = FALSE /\ stop = FALSE /\ pump = "starting"
        /\ step = "none" /\ key = "A" /\ mark = NoMark /\ verdict = "unknown"
        /\ Commit!ContractInit
        /\ presses = 0 /\ owed = 0 /\ announced = <<>> /\ late = FALSE

-----------------------------------------------------------------------------
\* Playback (which may seek), the user and the loader.
Play == /\ fileOpen /\ position' \in Positions \ {position}
        /\ UNCHANGED <<fileOpen, foreground>>
OpenOrClose == fileOpen' = ~fileOpen /\ position' = 0 /\ UNCHANGED foreground
SwitchWindow == foreground' = ~foreground /\ UNCHANGED <<fileOpen, position>>
Player == /\ Play \/ OpenOrClose \/ SwitchWindow
          /\ UNCHANGED <<inbox, pumpVars, handler, commitVars, history>>

\* The system posts WM_HOTKEY for a granted hotkey whatever has the focus.
Press(k) == /\ k \in registered /\ presses < MaxPresses
            /\ presses' = presses + 1 /\ inbox' = Append(inbox, k) /\ fresh' = TRUE
            /\ UNCHANGED <<player, registered, stop, pump, handler, commitVars, owed, announced, late>>

SignalStop == /\ ~stop /\ stop' = TRUE
              /\ UNCHANGED <<player, inbox, registered, fresh, pump, handler, commitVars, history>>

-----------------------------------------------------------------------------
\* A hotkey another program holds is skipped: the others still work.
RegisterHotkeys ==
    /\ pump = "starting" /\ pump' = "waiting"
    /\ registered' \in {Keys \ held : held \in SUBSET Contested}
    /\ UNCHANGED <<player, inbox, fresh, stop, handler, commitVars, history>>

\* MsgWaitForMultipleObjects: the stop event goes before the message queue, and
\* only messages that came since the queue was last looked at end the wait.
Wait == /\ pump = "waiting"
        /\ \/ stop /\ pump' = "stopping"
           \/ ~stop /\ fresh /\ pump' = "draining"
        /\ UNCHANGED <<player, inbox, registered, fresh, stop, handler, commitVars, history>>

\* The wait itself fails: the pump stops rather than spin.
WaitFails == /\ pump = "waiting" /\ pump' = "stopping"
             /\ UNCHANGED <<player, inbox, registered, fresh, stop, handler, commitVars, history>>

\* Mutant: one message per wake-up.
TakeOnePress ==
    /\ pump = "draining" /\ step = "none" /\ inbox # <<>>
    /\ inbox' = Tail(inbox) /\ fresh' = FALSE /\ pump' = "waiting"
    /\ UNCHANGED <<player, registered, stop, handler, commitVars, history>>

\* DrainMessageQueue: the focus is asked for when a press is taken, not when
\* it was made, and the stop event is not looked at until the queue is empty.
TakePress ==
    /\ pump = "draining" /\ step = "none" /\ inbox # <<>>
    /\ inbox' = Tail(inbox) /\ fresh' = FALSE
    /\ IF GlobalHotkeys \/ foreground
       THEN key' = Head(inbox) /\ step' = "version" /\ owed' = owed + 1
       ELSE UNCHANGED <<key, step, owed>>
    /\ UNCHANGED <<player, registered, stop, pump, mark, verdict, commitVars, presses, announced, late>>

Drained == /\ pump = "draining" /\ step = "none" /\ inbox = <<>> /\ pump' = "waiting"
           /\ fresh' = FALSE
           /\ UNCHANGED <<player, inbox, registered, stop, handler, commitVars, history>>

\* Mutant: leaves the hotkeys registered.
LeaveHotkeysRegistered ==
    /\ pump = "stopping" /\ pump' = "stopped"
    /\ UNCHANGED <<player, inbox, registered, fresh, stop, handler, commitVars, history>>

UnregisterHotkeys ==
    /\ pump = "stopping" /\ pump' = "stopped" /\ registered' = {}
    /\ UNCHANGED <<player, inbox, fresh, stop, handler, commitVars, history>>

-----------------------------------------------------------------------------
\* The handlers.  A refusal shows its line and leaves the mark alone.
ShowOsd == owed' = owed - 1
Refuse == step' = "none" /\ ShowOsd

\* Mutant: only the press that ran the self-check obeys it.
CheckVersionOnce ==
    /\ step = "version"
    /\ IF verdict = "unknown" THEN verdict' \in {"supported", "unsupported"}
                              ELSE UNCHANGED verdict
    /\ IF verdict # verdict' /\ verdict' = "unsupported"
       THEN Refuse ELSE step' = "file" /\ UNCHANGED owed
    /\ UNCHANGED <<player, inbox, pumpVars, key, mark, commitVars, presses, announced, late>>

\* The first press of the process runs the self-check; every press obeys it.
CheckVersionSupport ==
    /\ step = "version"
    /\ IF verdict = "unknown" THEN verdict' \in {"supported", "unsupported"}
                              ELSE UNCHANGED verdict
    /\ IF verdict' = "unsupported" THEN Refuse ELSE step' = "file" /\ UNCHANGED owed
    /\ UNCHANGED <<player, inbox, pumpVars, key, mark, commitVars, presses, announced, late>>

CheckFileOpen ==
    /\ step = "file"
    /\ IF ~fileOpen THEN Refuse
       ELSE step' = (IF key = "A" THEN "range" ELSE "mark") /\ UNCHANGED owed
    /\ UNCHANGED <<player, inbox, pumpVars, key, mark, verdict, commitVars, presses, announced, late>>

\* OnAltOpenBracket and OnAltCloseBracket, from getPositionMs on.
SetMark ==
    /\ step = "mark"
    /\ mark' = IF key = "[" THEN [mark EXCEPT !.start = position] ELSE [mark EXCEPT !.end = position]
    /\ step' = "none" /\ ShowOsd
    /\ UNCHANGED <<player, inbox, pumpVars, key, verdict, commitVars, presses, announced, late>>

\* Mutant: an incomplete mark is refused without a word.
RefuseRangeSilently ==
    /\ step = "range" /\ ~(mark.start # Unset /\ mark.end # Unset /\ mark.start < mark.end)
    /\ step' = "none"
    /\ UNCHANGED <<player, inbox, pumpVars, key, mark, verdict, commitVars, history>>

\* OnAltA: the mark must be complete and end after it starts.
Complete == mark.start # Unset /\ mark.end # Unset
RefuseRange ==
    /\ step = "range" /\ ~(Complete /\ mark.start < mark.end)
    /\ Refuse
    /\ UNCHANGED <<player, inbox, pumpVars, key, mark, verdict, commitVars, presses, announced, late>>

CallCommitRange ==
    /\ step = "range" /\ Complete /\ mark.start < mark.end
    /\ Commit!Ask(<<mark.start, mark.end>>)
    /\ step' = "commit" /\ late' = (late \/ ~timely')
    /\ UNCHANGED <<player, inbox, pumpVars, key, mark, verdict, presses, owed, announced>>

\* Mutants: the result of commitRange is not looked at, for the line shown or
\* for the mark.
AnnounceAnyway ==
    /\ step = "commit" /\ ~pending
    /\ mark' = (IF answer THEN NoMark ELSE mark)
    /\ announced' = Append(announced, <<mark.start, mark.end>>)
    /\ step' = "none" /\ ShowOsd
    /\ UNCHANGED <<player, inbox, pumpVars, key, verdict, commitVars, presses, late>>
ClearAnyway ==
    /\ step = "commit" /\ ~pending /\ mark' = NoMark
    /\ announced' = IF answer THEN Append(announced, <<mark.start, mark.end>>) ELSE announced
    /\ step' = "none" /\ ShowOsd
    /\ UNCHANGED <<player, inbox, pumpVars, key, verdict, commitVars, presses, late>>

\* Success clears the mark; failure keeps it, for the same Alt+A to be retried.
CommitReturns ==
    /\ step = "commit" /\ ~pending
    /\ IF answer THEN mark' = NoMark /\ announced' = Append(announced, <<mark.start, mark.end>>)
                 ELSE UNCHANGED <<mark, announced>>
    /\ step' = "none" /\ ShowOsd
    /\ UNCHANGED <<player, inbox, pumpVars, key, verdict, commitVars, presses, late>>

DuringCommit == /\ \/ Commit!Store \/ Commit!Delay
                   \/ \E b \in BOOLEAN : Commit!Answer(b)
                /\ late' = (late \/ ~timely')
                /\ UNCHANGED <<player, inbox, pumpVars, handler, presses, owed, announced>>

Handle == \/ CheckVersionSupport \/ CheckFileOpen \/ SetMark
          \/ RefuseRange \/ CallCommitRange \/ CommitReturns
Pump == RegisterHotkeys \/ Wait \/ TakePress \/ Drained \/ UnregisterHotkeys

Next == \/ Player \/ SignalStop \/ (\E k \in Keys : Press(k))
        \/ Pump \/ WaitFails \/ Handle \/ DuringCommit
Spec == Init /\ [][Next]_vars

\* The worker thread runs, and commitRange returns (SkipSetup!CallReturns).
FairSpec == Spec /\ WF_vars(Pump) /\ WF_vars(Handle)
                 /\ WF_vars(DuringCommit /\ pending /\ ~pending')

-----------------------------------------------------------------------------
TypeOK == /\ fileOpen \in BOOLEAN /\ position \in Positions /\ foreground \in BOOLEAN
          /\ registered \in SUBSET Keys /\ inbox \in Seq(Keys) /\ fresh \in BOOLEAN /\ stop \in BOOLEAN
          /\ pump \in {"starting", "waiting", "draining", "stopping", "stopped"}
          /\ step \in {"none", "version", "file", "mark", "range", "commit"} /\ key \in Keys
          /\ mark \in [start : Positions \cup {Unset}, end : Positions \cup {Unset}]
          /\ verdict \in {"unknown", "supported", "unsupported"}
          /\ saved \in Seq(Spans \cup {Existing}) /\ before \in Seq(Spans \cup {Existing})
          /\ asked \in Seq(Spans) /\ announced \in Seq(Spans)
          /\ pending \in BOOLEAN /\ answer \in BOOLEAN /\ timely \in BOOLEAN /\ late \in BOOLEAN
          /\ presses \in Nat /\ owed \in Int

\* While PotPlayer met every deadline, the file's list is what it was plus the
\* ranges the user was told were saved, in that order: no press of Alt+A, none
\* of its retries, loses, duplicates or reorders one.
LedgerMatches ==
    ~late /\ step = "none" =>
        \E first \in {<<>>, <<Existing>>} : saved = first \o announced

\* Every press that is acted on is answered by exactly one OSD line
\* (skip_marking.hpp:44-47), whichever of a handler's exits it takes.
OneLinePerPress == owed = IF step = "none" THEN 0 ELSE 1

\* A build the self-check refused is never marked on or written to
\* (skip_marking.hpp:27-32).
UnsupportedIsInert == verdict = "unsupported" => mark = NoMark /\ asked = <<>>

\* A mark changes only by its own key, and disappears only once a commit of
\* exactly that mark returned true: a refusal or a failure never loses it.
MarkKept ==
    mark' # mark =>
        \/ key = "[" /\ mark' = [mark EXCEPT !.start = position]
        \/ key = "]" /\ mark' = [mark EXCEPT !.end = position]
        \/ /\ key = "A" /\ mark' = NoMark /\ answer
           /\ asked[Len(asked)] = <<mark.start, mark.end>>
MarkKeptUntilSaved == [][MarkKept]_vars

\* Rapid presses are not silently dropped (hotkey_pump.cpp:104-107): each one
\* is taken from the queue, unless the pump stops first.
PressesTaken == inbox # <<>> ~> (inbox = <<>> \/ pump = "stopped")

\* Once the stop event is signaled the hotkeys are given back, after whatever
\* handler was running.
StopReleasesHotkeys == stop ~> (pump = "stopped" /\ registered = {})
=============================================================================
