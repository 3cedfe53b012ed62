------------------------------ MODULE SkipSetup ------------------------------
(***************************************************************************)
(* The pump thread driving PotPlayer's own dialogs: CommitRangeLive         *)
(* (skip_marking.cpp), RunLiveSelfCheck (self_check.cpp) and the primitives *)
(* of skip_setup.cpp they are made of.  pc names the next thing the pump    *)
(* thread does; between two of its steps the UI thread of PotPlayerUi may   *)
(* take any number of its own.  Every wait of the code is bounded: it ends  *)
(* with what it waits for or by its timeout, whichever comes first.         *)
(***************************************************************************)
EXTENDS PotPlayerUi, FiniteSets

CONSTANTS AutoEnable,   \* config.autoEnableSkip
          MaxCalls      \* bound: calls of commitRange in one behaviour

ASSUME CallAssumption == AutoEnable \in BOOLEAN /\ MaxCalls \in Nat

VARIABLES
  build,        \* which dialogs of this PotPlayer build have every control
  pc,           \* the pump thread's next step
  job,          \* what it is doing: a self-check or a commit
  range,        \* the range of the current commit
  dialog,       \* the Skip Setup handle OpenSkipSetup found
  interval,     \* the Skip Interval Setup handle found
  countBefore,  \* the row count read before Add...
  ok,           \* the verdict so far
  verdict,      \* EnsureSelfCheckPassed's cached outcome
  armed, hooked, captured,  \* g_hookArmed, g_hook, g_capturedDialog
  asked,        \* history: the ranges commits were started for, in order
  before,       \* history: the saved list when this call started
  timely        \* history: this call started with no dialog open and nothing
                \* posted, and since then PotPlayer kept every deadline

hookVars == <<armed, hooked, captured>>
callVars == <<build, verdict, job, range, asked, before>>   \* fixed within a call
foundVars == <<dialog, interval, countBefore>>
progress == <<pc, ok, timely>>
vars == <<uiVars, hookVars, callVars, foundVars, progress>>

Labels == {"idle", "open", "post", "capture", "fallback", "unhook", "resolve", "enable",
           "count", "add", "awaitInterval", "resolveInterval", "fill", "verify",
           "intervalOk", "intervalOkWait", "intervalCancel", "intervalCancelWait",
           "recount", "ok", "okWait", "cancel", "cancelWait", "return"}

Goto(l) == pc' = l
\* A step goes on, fails on what it read, or fails because PotPlayer did not
\* take a message or did not do in time what was asked.
GoOn(l) == Goto(l) /\ UNCHANGED <<ok, timely>>
Fail(l) == Goto(l) /\ ok' = FALSE /\ UNCHANGED timely
Late(l) == Goto(l) /\ ok' = FALSE /\ timely' = FALSE

Init == /\ UiInit
        /\ build \in [{"setup", "interval"} -> BOOLEAN]
        /\ pc = "idle" /\ job = "check" /\ range \in Ranges
        /\ dialog = Main /\ interval = Main /\ countBefore = 0 /\ ok = FALSE
        /\ verdict = "unknown"
        /\ armed = FALSE /\ hooked = FALSE /\ captured = Main
        /\ asked = <<>> /\ before = saved /\ timely = TRUE

-----------------------------------------------------------------------------
\* The WH_CBT hook runs on the UI thread whenever a dialog is activated, which
\* is when it becomes the innermost one; while armed it keeps a Skip Setup.
Activated(h) == ~IsInnermost(h) /\ IsInnermost(h)' /\ IsKind(h, "setup")'
CbtHookProc ==
    \/ \E h \in Windows : armed /\ hooked /\ Activated(h) /\ captured' = h
    \/ /\ (armed /\ hooked) => "hookMiss" \in Faults \/ \A h \in Windows : ~Activated(h)
       /\ UNCHANGED captured

Ui == /\ UiNext
      /\ CbtHookProc
      /\ UNCHANGED <<callVars, foundVars, progress, armed, hooked>>

-----------------------------------------------------------------------------
Quiet == queue = <<>> /\ \A h \in Windows : ~IsWindow(h)

Begin == /\ Goto("open") /\ ok' = TRUE
         /\ before' = saved /\ timely' = Quiet
         /\ UNCHANGED <<uiVars, hookVars, foundVars, build, verdict>>

\* EnsureSelfCheckPassed runs the check once; its verdict never changes after.
StartSelfCheck ==
    /\ pc = "idle" /\ verdict = "unknown"
    /\ job' = "check" /\ Begin
    /\ UNCHANGED <<range, asked>>

StartCommit(r) ==
    /\ pc = "idle" /\ verdict = "supported" /\ Len(asked) < MaxCalls
    /\ job' = "commit" /\ range' = r /\ asked' = Append(asked, r) /\ Begin

\* OpenSkipSetup and OpenViaHook up to the hook: the main window must be known.
ArmHook ==
    /\ pc = "open"
    /\ \/ "noMain" \in Faults /\ Fail("return") /\ UNCHANGED hookVars
       \/ captured' = Main /\ armed' = TRUE /\ hooked' = TRUE /\ GoOn("post")
       \/ /\ "hook" \in Faults
          /\ captured' = Main /\ armed' = FALSE /\ hooked' = FALSE /\ Fail("return")
    /\ dialog' = Main /\ interval' = Main
    /\ UNCHANGED <<uiVars, callVars, countBefore>>

\* Mutant: the failure path forgets the hook.
PostOpenKeepsHook ==
    /\ pc = "post" /\ UNCHANGED <<hookVars, callVars, foundVars>>
    /\ \/ PostMessage(Main, "open") /\ GoOn("capture")
       \/ PostMessageFails(Main) /\ Late("return")

PostOpen ==
    /\ pc = "post"
    /\ \/ PostMessage(Main, "open") /\ GoOn("capture") /\ UNCHANGED hookVars
       \/ /\ PostMessageFails(Main)
          /\ armed' = FALSE /\ hooked' = FALSE /\ Late("return") /\ UNCHANGED captured
    /\ UNCHANGED <<callVars, foundVars>>

\* A polling loop ends when it sees what it waits for, or with a last look
\* that did not see it: the step is that look.
AwaitCapture ==
    /\ pc = "capture"
    /\ IF captured # Main
       THEN dialog' = captured /\ GoOn("unhook")
       ELSE GoOn("fallback") /\ UNCHANGED dialog
    /\ UNCHANGED <<uiVars, hookVars, callVars, interval, countBefore>>

FindAndParkFallback ==
    /\ pc = "fallback" /\ ~busy
    /\ \/ \E h \in Windows : IsKind(h, "setup") /\ dialog' = h
       \/ (\A h \in Windows : ~IsKind(h, "setup")) /\ UNCHANGED dialog
    /\ GoOn("unhook")
    /\ UNCHANGED <<uiVars, hookVars, callVars, interval, countBefore>>

Unhook ==
    /\ pc = "unhook"
    /\ armed' = FALSE /\ hooked' = FALSE
    /\ IF dialog = Main THEN Late("return") ELSE GoOn("resolve")
    /\ UNCHANGED <<uiVars, callVars, foundVars, captured>>

\* A missing control gives the dialog up: nothing is returned to close it with.
ResolveSkipSetupControls ==
    /\ pc = "resolve"
    /\ IF IsWindow(dialog) /\ build["setup"]
       THEN GoOn(IF job = "check" THEN "add" ELSE IF AutoEnable THEN "enable" ELSE "count")
       ELSE Fail("return")
    /\ UNCHANGED <<uiVars, hookVars, callVars, foundVars>>

-----------------------------------------------------------------------------
\* Mutant: clicks the checkbox without looking at it first.
ToggleSkipEnabled ==
    /\ pc = "enable" /\ ~busy /\ IsWindow(dialog)
    /\ win' = [win EXCEPT ![dialog].checked = ~@]
    /\ GoOn("count")
    /\ UNCHANGED <<busy, queue, born, saved, enabled, hookVars, callVars, foundVars>>

\* Look, click, look again, in one step: only the user could change the box
\* meanwhile, and a dialog that goes in between fails the second look too.
EnsureSkipEnabled ==
    /\ pc = "enable" /\ ~busy
    /\ \/ /\ IsWindow(dialog)
          /\ win' = [win EXCEPT ![dialog].checked = TRUE]
          /\ GoOn("count")
       \/ /\ ~IsWindow(dialog) \/ ("checkbox" \in Faults /\ ~win[dialog].checked)
          /\ Fail("cancel") /\ UNCHANGED win
    /\ UNCHANGED <<busy, queue, born, saved, enabled, hookVars, callVars, foundVars>>

ReadItemCount ==
    /\ pc = "count" /\ ~busy
    /\ countBefore' = ItemCount(dialog) /\ GoOn("add")
    /\ UNCHANGED <<uiVars, hookVars, callVars, dialog, interval>>

ClickAdd ==
    /\ pc = "add"
    /\ \/ PostMessage(dialog, "add") /\ GoOn("awaitInterval")
       \/ PostMessageFails(dialog) /\ Late("cancel")
    /\ UNCHANGED <<hookVars, callVars, foundVars>>

\* By title: any interval dialog of the process will do.
WaitForSkipIntervalSetup ==
    /\ pc = "awaitInterval" /\ ~busy
    /\ \/ \E h \in Windows : IsKind(h, "interval") /\ interval' = h /\ GoOn("resolveInterval")
       \/ (\A h \in Windows : ~IsKind(h, "interval")) /\ Late("cancel") /\ UNCHANGED interval
    /\ UNCHANGED <<uiVars, hookVars, callVars, dialog, countBefore>>

\* Mutants: a missing control is not reported; the self-check fills and commits.
IgnoreMissingControl ==
    /\ pc = "resolveInterval"
    /\ GoOn(IF job = "check" THEN "intervalCancel" ELSE "fill")
    /\ UNCHANGED <<uiVars, hookVars, callVars, foundVars>>
ProbeByCommitting ==
    /\ pc = "resolveInterval"
    /\ GoOn("fill")
    /\ UNCHANGED <<uiVars, hookVars, callVars, foundVars>>

ResolveSkipIntervalControls ==
    /\ pc = "resolveInterval"
    /\ IF IsWindow(interval) /\ build["interval"]
       THEN GoOn(IF job = "check" THEN "intervalCancel" ELSE "fill")
       ELSE Fail("intervalCancel")
    /\ UNCHANGED <<uiVars, hookVars, callVars, foundVars>>

\* The times, field by field, in one step: what a dialog holds that goes or
\* rejects them halfway is one kind of Mangled.
FillInterval ==
    /\ pc = "fill" /\ ~busy
    /\ IF IsWindow(interval)
       THEN \E e \in {range} \cup (IF "readback" \in Faults THEN {Mangled} ELSE {}) :
              win' = [win EXCEPT ![interval].field = e]
       ELSE UNCHANGED win
    /\ GoOn("verify")
    /\ UNCHANGED <<busy, queue, born, saved, enabled, hookVars, callVars, foundVars>>

\* Mutant: no read-back before the commit.
SkipReadback == /\ pc = "verify" /\ ~busy /\ GoOn("intervalOk")
                /\ UNCHANGED <<uiVars, hookVars, callVars, foundVars>>

VerifySkipIntervalReadback ==
    /\ pc = "verify" /\ ~busy
    /\ IF IsWindow(interval) /\ win[interval].field = range
       THEN GoOn("intervalOk")
       ELSE Fail("intervalCancel")
    /\ UNCHANGED <<uiVars, hookVars, callVars, foundVars>>

\* PostIntervalButtonAndWaitClosed, for OK and for Cancel.  The result of a
\* Cancel is ignored: ok already tells what the caller returns.
ClickIntervalOk ==
    /\ pc = "intervalOk"
    /\ \/ PostMessage(interval, "ok") /\ GoOn("intervalOkWait")
       \/ PostMessageFails(interval) /\ Late("cancel")
    /\ UNCHANGED <<hookVars, callVars, foundVars>>

AwaitIntervalOk ==
    /\ pc = "intervalOkWait"
    /\ IF IsWindow(interval) THEN Late("cancel") ELSE GoOn("recount")
    /\ UNCHANGED <<uiVars, hookVars, callVars, foundVars>>

ClickIntervalCancel ==
    /\ pc = "intervalCancel"
    /\ \/ PostMessage(interval, "cancel") /\ GoOn("intervalCancelWait")
       \/ PostMessageFails(interval) /\ Goto("cancel") /\ timely' = FALSE /\ UNCHANGED ok
    /\ UNCHANGED <<hookVars, callVars, foundVars>>

AwaitIntervalCancel ==
    /\ pc = "intervalCancelWait"
    /\ Goto("cancel") /\ UNCHANGED ok
    /\ timely' = (timely /\ ~IsWindow(interval))
    /\ UNCHANGED <<uiVars, hookVars, callVars, foundVars>>

\* The row count must have gone up by exactly one.
VerifyItemCount ==
    /\ pc = "recount" /\ ~busy
    /\ IF ItemCount(dialog) = countBefore + 1 THEN GoOn("ok") ELSE Fail("cancel")
    /\ UNCHANGED <<uiVars, hookVars, callVars, foundVars>>

-----------------------------------------------------------------------------
\* Mutant: posts OK and does not wait for the dialog to go.
ClickOkAndLeave ==
    /\ pc = "ok"
    /\ \/ PostMessage(dialog, "ok") /\ GoOn("return")
       \/ PostMessageFails(dialog) /\ Late("return")
    /\ UNCHANGED <<hookVars, callVars, foundVars>>

\* ClickAndWaitClosed, for OK (its result is the commit's) and for Cancel
\* (its result is ignored).  Only the window's disappearance is observed.
ClickOk ==
    /\ pc = "ok"
    /\ \/ PostMessage(dialog, "ok") /\ GoOn("okWait")
       \/ PostMessageFails(dialog) /\ Late("return")
    /\ UNCHANGED <<hookVars, callVars, foundVars>>

AwaitOk ==
    /\ pc = "okWait"
    /\ IF IsWindow(dialog) THEN Late("return") ELSE GoOn("return")
    /\ UNCHANGED <<uiVars, hookVars, callVars, foundVars>>

ClickCancel ==
    /\ pc = "cancel"
    /\ \/ PostMessage(dialog, "cancel") /\ GoOn("cancelWait")
       \/ PostMessageFails(dialog) /\ Goto("return") /\ timely' = FALSE /\ UNCHANGED ok
    /\ UNCHANGED <<hookVars, callVars, foundVars>>

\* Mutant: waits for the dialog to go, without a deadline.
AwaitCancelForever ==
    /\ pc = "cancelWait" /\ ~IsWindow(dialog) /\ GoOn("return")
    /\ UNCHANGED <<uiVars, hookVars, callVars, foundVars>>

AwaitCancel ==
    /\ pc = "cancelWait"
    /\ Goto("return") /\ UNCHANGED ok
    /\ timely' = (timely /\ ~IsWindow(dialog))
    /\ UNCHANGED <<uiVars, hookVars, callVars, foundVars>>

Return ==
    /\ pc = "return" /\ Goto("idle")
    /\ verdict' = (IF job = "commit" THEN verdict ELSE IF ok THEN "supported" ELSE "unsupported")
    /\ UNCHANGED <<uiVars, hookVars, foundVars, build, job, range, asked, before, ok, timely>>

OpenDialog == \/ ArmHook \/ PostOpen \/ AwaitCapture \/ FindAndParkFallback \/ Unhook
              \/ ResolveSkipSetupControls
AddRange == \/ EnsureSkipEnabled \/ ReadItemCount \/ ClickAdd \/ WaitForSkipIntervalSetup
            \/ ResolveSkipIntervalControls \/ FillInterval \/ VerifySkipIntervalReadback
            \/ ClickIntervalOk \/ AwaitIntervalOk \/ ClickIntervalCancel
            \/ AwaitIntervalCancel \/ VerifyItemCount
CloseDialog == ClickOk \/ AwaitOk \/ ClickCancel \/ AwaitCancel
Pump == OpenDialog \/ AddRange \/ CloseDialog \/ Return

Next == \/ Ui \/ Pump \/ StartSelfCheck
        \/ \E r \in Ranges : StartCommit(r)

Spec == Init /\ [][Next]_vars
\* The pump thread is scheduled, also between two stalls of the UI thread (a
\* sent message is answered before any posted one), and no stall lasts forever.
FairSpec == Spec /\ SF_vars(Pump) /\ WF_vars(UiResume /\ Ui)

-----------------------------------------------------------------------------
TypeOK == /\ UiTypeOK
          /\ build \in [{"setup", "interval"} -> BOOLEAN]
          /\ pc \in Labels /\ ok \in BOOLEAN /\ timely \in BOOLEAN
          /\ job \in {"check", "commit"} /\ range \in Ranges
          /\ dialog \in Handles /\ interval \in Handles /\ captured \in Handles
          /\ countBefore \in Nat
          /\ verdict \in {"unknown", "supported", "unsupported"}
          /\ armed \in BOOLEAN /\ hooked \in BOOLEAN
          /\ asked \in Seq(Ranges) /\ before \in Seq(Entry)

\* To its caller all of this is one call of commitRange: the dialogs, the hook
\* and the waits implement CommitContract.
Contract == INSTANCE CommitContract WITH
                pending <- job = "commit" /\ pc # "idle",
                answer <- asked # <<>> /\ pc = "idle" /\ ok
ImplementsContract == Contract!ContractSpec

\* The hook never outlives a single open attempt (skip_setup.cpp:146-150), on
\* whichever of its exits OpenViaHook leaves.
HookOnlyWhileOpening == armed \/ hooked => pc \in {"post", "capture", "fallback", "unhook"}

\* AddFileSpecificSkipRange is purely additive (skip_setup.hpp:190): whatever
\* fails, and however late, no row of the file's list is lost, replaced or
\* moved, and the skip feature is never switched off.
IsPrefixOf(s, t) == Len(s) <= Len(t) /\ \A i \in 1..Len(s) : t[i] = s[i]
OnlyGrows == IsPrefixOf(saved, saved') /\ (enabled => enabled')
PurelyAdditive == [][OnlyGrows]_vars

\* The self-check never commits a probe range (self_check.hpp:48-51): until a
\* commit is asked for, nothing the plugin posted can change the file's list
\* or the setting, whatever becomes of the self-check's dialogs.
WritesNothing == asked = <<>> => UNCHANGED <<saved, enabled>>
SelfCheckWritesNothing == [][WritesNothing]_vars

\* A build is called supported only if every control of both dialogs is there.
VerdictSound == verdict = "supported" => build["setup"] /\ build["interval"]

\* Never committing an unverified value (skip_setup.hpp:184): neither the
\* interval dialog's own default nor a mangled input ever reaches the list,
\* through dialogs found by title that an earlier call left behind included.
OnlyVerifiedSaved == \A i \in 1..Len(saved) : saved[i] \in Ranges \cup {Existing}

\* A call that starts with no dialog about, and for which PotPlayer meets every
\* deadline, is atomic: it returns true having appended exactly its range (and
\* enabled skipping), or false having changed nothing; no dialog stays behind
\* unless the build lacks a control of Skip Setup.
TimelyCallIsExact ==
    pc = "return" /\ timely =>
        /\ saved = IF ok /\ job = "commit" THEN Append(before, range) ELSE before
        /\ ok /\ job = "commit" /\ AutoEnable => enabled
        /\ build["setup"] => Quiet

\* Every call returns: all waits of the code are bounded (skip_setup.cpp:26-35).
CallReturns == pc # "idle" ~> pc = "idle"

\* A failed commitRange leaves "nothing to undo", so the same Alt+A can be
\* retried (skip_marking.hpp:73-76).
FailedCommitSavesNothing == pc = "idle" /\ job = "commit" /\ ~ok => saved = before
=============================================================================
