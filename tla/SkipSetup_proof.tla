--------------------------- MODULE SkipSetup_proof ---------------------------
(***************************************************************************)
(* What holds of the dialog driver for any ranges, any number of calls and  *)
(* windows, and any of the external failures of PotPlayerUi.                *)
(***************************************************************************)
EXTENDS SkipSetup, FiniteSetTheorems, TLAPS

\* The type invariant in the parts that different steps disturb.
Control == /\ pc \in Labels /\ job \in {"check", "commit"}
           /\ verdict \in {"unknown", "supported", "unsupported"}
Flags == busy \in BOOLEAN /\ enabled \in BOOLEAN
Bits == ok \in BOOLEAN /\ timely \in BOOLEAN /\ armed \in BOOLEAN /\ hooked \in BOOLEAN
Found == /\ born \in Handles /\ dialog \in Handles /\ interval \in Handles
         /\ captured \in Handles /\ countBefore \in Nat /\ range \in Ranges
Data == /\ queue \in Seq(Message) /\ win \in [Windows -> Window]
        /\ saved \in Seq(Entry) /\ before \in Seq(Entry) /\ asked \in Seq(Ranges)
        /\ build \in [{"setup", "interval"} -> BOOLEAN]

LEMMA TypeParts == Control /\ Flags /\ Bits /\ Found /\ Data => TypeOK
BY DEF Control, Flags, Bits, Found, Data, TypeOK, UiTypeOK

LEMMA InitType == Init => Control /\ Flags /\ Bits /\ Found /\ Data
<1> SUFFICES ASSUME Init PROVE Control /\ Flags /\ Bits /\ Found /\ Data
  OBVIOUS
<1> USE DEF Init, UiInit
<1>1. Control BY DEF Control, Labels
<1>2. Flags BY DEF Flags
<1>3. Bits BY DEF Bits
<1>4. Found BY UiAssumption DEF Found, Handles, Main
<1>5. Data
  <2>1. queue \in Seq(Message) /\ asked \in Seq(Ranges) /\ build \in [{"setup", "interval"} -> BOOLEAN]
    OBVIOUS
  <2>2. saved \in Seq(Entry) /\ before \in Seq(Entry)
    <3>1. Existing \in Entry BY DEF Entry
    <3>2. <<>> \in Seq(Entry) /\ <<Existing>> \in Seq(Entry) BY <3>1
    <3> QED BY <3>2
  <2>3. win \in [Windows -> Window] BY UiAssumption DEF Window, Entry, Handles, Main, Windows
  <2> QED BY <2>1, <2>2, <2>3 DEF Data
<1> QED BY <1>1, <1>2, <1>3, <1>4, <1>5

\* A live window has a handle that was given out.
LEMMA LiveHandle == ASSUME born \in Handles, NEW h, IsWindow(h) PROVE h \in Windows
BY UiAssumption DEF Handles, Windows, IsWindow

\* A window record, field by field.
LEMMA WindowParts ==
    ASSUME NEW k \in {"setup", "interval"}, NEW l \in {"open", "ended", "gone"},
           NEW o \in Handles, NEW r \in Seq(Entry), NEW c \in BOOLEAN, NEW f \in Entry
    PROVE  [kind |-> k, life |-> l, owner |-> o, rows |-> r, checked |-> c, field |-> f] \in Window
BY DEF Window

\* Taking the first message keeps the queue a queue of messages.
LEMMA DispatchType ==
    ASSUME Data, Flags, NEW c, Dispatch(c)
    PROVE  /\ queue' \in Seq(Message) /\ busy' \in BOOLEAN
           /\ Head(queue) \in Message /\ Head(queue).to \in Handles /\ Head(queue).cmd = c
           /\ queue # <<>> /\ queue' = Tail(queue) /\ busy' = busy
<1> USE DEF Data, Flags, Dispatch
<1>1. queue \in Seq(Message) /\ queue # <<>> OBVIOUS
<1>2. Head(queue) \in Message /\ Tail(queue) \in Seq(Message) BY <1>1
<1> QED BY <1>1, <1>2 DEF Message

\* Ending a dialog, appending a row and creating a window keep the table typed.
LEMMA EndType ==
    ASSUME win \in [Windows -> Window], NEW h
    PROVE  EndDialog(h) \in [Windows -> Window]
BY DEF EndDialog, Window

LEMMA RowType ==
    ASSUME NEW w \in [Windows -> Window], NEW h, NEW e \in Entry
    PROVE  [w EXCEPT ![h].rows = Append(@, e)] \in [Windows -> Window]
<1>1. CASE h \in Windows
  <2>1. w[h] \in Window /\ w[h].rows \in Seq(Entry) BY <1>1 DEF Window
  <2>2. Append(w[h].rows, e) \in Seq(Entry) BY <2>1
  <2> QED BY <1>1, <2>1, <2>2 DEF Window
<1>2. CASE h \notin Windows BY <1>2
<1> QED BY <1>1, <1>2

LEMMA CreateType ==
    ASSUME win \in [Windows -> Window], born \in Handles, NEW d \in Window, Create(d)
    PROVE  win' \in [Windows -> Window] /\ born' \in Handles /\ born' \in Windows
BY UiAssumption DEF Create, Handles, Windows

\* What the UI thread's steps do to the queue, the dialogs and the file.
LEMMA UiType == Found /\ Data /\ Flags /\ UiNext => /\ queue' \in Seq(Message)
                                                    /\ win' \in [Windows -> Window]
                                                    /\ saved' \in Seq(Entry)
                                                    /\ born' \in Handles /\ Flags'
<1> SUFFICES ASSUME Found, Data, Flags, UiNext
             PROVE  /\ queue' \in Seq(Message) /\ win' \in [Windows -> Window]
                    /\ saved' \in Seq(Entry) /\ born' \in Handles /\ Flags'
  OBVIOUS
<1>0. /\ queue \in Seq(Message) /\ win \in [Windows -> Window] /\ saved \in Seq(Entry)
      /\ born \in Handles /\ busy \in BOOLEAN /\ enabled \in BOOLEAN
      /\ Main \in Handles /\ Windows \subseteq Handles
  BY UiAssumption DEF Found, Data, Flags, Main, Handles, Windows
<1>1. CASE UiOpenSkipSetup
  <2>1. queue' \in Seq(Message) /\ busy' = busy BY <1>1, DispatchType DEF UiOpenSkipSetup
  <2>2. saved' = saved /\ enabled' = enabled BY <1>1 DEF UiOpenSkipSetup
  <2>3. CASE UNCHANGED <<born, win>> BY <1>0, <2>1, <2>2, <2>3 DEF Flags
  <2>4. CASE ~UNCHANGED <<born, win>>
    <3>1. Probe \in Entry BY DEF Entry
    <3>2. [kind |-> "setup", life |-> "open", owner |-> Main, rows |-> saved,
           checked |-> enabled, field |-> Probe] \in Window
      BY <1>0, <3>1, WindowParts
    <3>3. win' \in [Windows -> Window] /\ born' \in Handles
      BY <1>0, <1>1, <2>4, <3>2, CreateType DEF UiOpenSkipSetup
    <3> QED BY <1>0, <2>1, <2>2, <3>3 DEF Flags
  <2> QED BY <2>3, <2>4
<1>2. CASE UiAdd
  <2>1. queue' \in Seq(Message) /\ busy' = busy /\ Head(queue).to \in Handles
    BY <1>2, DispatchType DEF UiAdd
  <2>2. saved' = saved /\ enabled' = enabled BY <1>2 DEF UiAdd
  <2>3. CASE UNCHANGED <<born, win>> BY <1>0, <2>1, <2>2, <2>3 DEF Flags
  <2>4. CASE ~UNCHANGED <<born, win>>
    <3>1. Probe \in Entry /\ <<>> \in Seq(Entry) BY DEF Entry
    <3>2. [kind |-> "interval", life |-> "open", owner |-> Head(queue).to, rows |-> <<>>,
           checked |-> FALSE, field |-> Probe] \in Window
      BY <2>1, <3>1, WindowParts
    <3>3. win' \in [Windows -> Window] /\ born' \in Handles
      BY <1>0, <1>2, <2>4, <3>2, CreateType DEF UiAdd
    <3> QED BY <1>0, <2>1, <2>2, <3>3 DEF Flags
  <2> QED BY <2>3, <2>4
<1>3. CASE UiIntervalOk
  <2> DEFINE i == Head(queue).to
  <2>1. queue' \in Seq(Message) /\ busy' = busy /\ i \in Handles
    BY <1>3, DispatchType DEF UiIntervalOk
  <2>2. i \in Windows /\ win[i].field \in Entry
    <3>1. i \in Windows BY <1>0, <1>3, LiveHandle DEF UiIntervalOk, IsKind
    <3> QED BY <1>0, <3>1 DEF Window
  <2>3. win' = [EndDialog(i) EXCEPT ![win[i].owner].rows = Append(@, win[i].field)]
    BY <1>3 DEF UiIntervalOk
  <2>4. win' \in [Windows -> Window] BY <1>0, <2>2, <2>3, EndType, RowType
  <2> QED BY <1>0, <1>3, <2>1, <2>4 DEF UiIntervalOk, Flags
<1>4. CASE UiSetupOk
  <2>1. queue' \in Seq(Message) /\ busy' = busy /\ Head(queue).to \in Handles
    BY <1>4, DispatchType DEF UiSetupOk
  <2>2. Head(queue).to \in Windows
    BY <1>0, <1>4, LiveHandle DEF UiSetupOk, IsKind
  <2>3. saved' \in Seq(Entry) /\ enabled' \in BOOLEAN
    BY <1>0, <1>4, <2>2 DEF UiSetupOk, Window
  <2>4. win' \in [Windows -> Window] BY <1>0, <1>4, EndType DEF UiSetupOk
  <2> QED BY <1>0, <1>4, <2>1, <2>3, <2>4 DEF UiSetupOk, Flags
<1>5. CASE UiCancel
  <2>1. queue' \in Seq(Message) /\ busy' = busy BY <1>5, DispatchType DEF UiCancel
  <2>2. win' \in [Windows -> Window] BY <1>0, <1>5, EndType DEF UiCancel
  <2> QED BY <1>0, <1>5, <2>1, <2>2 DEF UiCancel, Flags
<1>6. CASE UiDrop
  <2>1. queue' \in Seq(Message) /\ busy' = busy BY <1>6, DispatchType DEF UiDrop
  <2> QED BY <1>0, <1>6, <2>1 DEF UiDrop, Flags
<1>7. CASE UiDestroy
  <2>1. PICK h \in Windows : win' = [win EXCEPT ![h].life = "gone"] BY <1>7 DEF UiDestroy
  <2>2. win' \in [Windows -> Window] BY <1>0, <2>1 DEF Window
  <2> QED BY <1>0, <1>7, <2>2 DEF UiDestroy, Flags
<1>8. CASE UserEsc
  <2>1. win' \in [Windows -> Window] BY <1>0, <1>8, EndType DEF UserEsc
  <2> QED BY <1>0, <1>8, <2>1 DEF UserEsc, Flags
<1>9. CASE UiStall \/ UiResume BY <1>0, <1>9 DEF UiStall, UiResume, Flags
<1> QED BY <1>1, <1>2, <1>3, <1>4, <1>5, <1>6, <1>7, <1>8, <1>9 DEF UiNext

\* Where a step of the pump thread goes.
LEMMA ControlInv == Control /\ [Next]_vars => Control'
<1> USE DEF Control, callVars, Goto, GoOn, Fail, Late, Labels, Begin
<1> SUFFICES ASSUME Control, [Next]_vars PROVE Control'
  OBVIOUS
<1>1. CASE Ui BY <1>1 DEF Ui, progress
<1>2. CASE OpenDialog
  BY <1>2 DEF OpenDialog, ArmHook, PostOpen, AwaitCapture, FindAndParkFallback, Unhook,
     ResolveSkipSetupControls
<1>3. CASE AddRange
  BY <1>3 DEF AddRange, EnsureSkipEnabled, ReadItemCount, ClickAdd, WaitForSkipIntervalSetup,
     ResolveSkipIntervalControls, FillInterval, VerifySkipIntervalReadback, ClickIntervalOk,
     AwaitIntervalOk, ClickIntervalCancel, AwaitIntervalCancel, VerifyItemCount
<1>4. CASE CloseDialog BY <1>4 DEF CloseDialog, ClickOk, AwaitOk, ClickCancel, AwaitCancel
<1>5. CASE Return BY <1>5 DEF Return
<1>6. CASE StartSelfCheck BY <1>6 DEF StartSelfCheck
<1>7. ASSUME NEW r \in Ranges, StartCommit(r) PROVE Control' BY <1>7 DEF StartCommit
<1>8. CASE UNCHANGED vars BY <1>8 DEF vars, progress
<1> QED BY <1>1, <1>2, <1>3, <1>4, <1>5, <1>6, <1>7, <1>8 DEF Next, Pump

\* The verdict so far and the hook's two flags stay Boolean.
LEMMA BitsInv == Bits /\ [Next]_vars => Bits'
<1> USE DEF Bits, hookVars, Goto, GoOn, Fail, Late, Begin
<1> SUFFICES ASSUME Bits, [Next]_vars PROVE Bits'
  OBVIOUS
<1>1. CASE Ui BY <1>1 DEF Ui, progress
<1>2. CASE OpenDialog
  BY <1>2 DEF OpenDialog, ArmHook, PostOpen, AwaitCapture, FindAndParkFallback, Unhook,
     ResolveSkipSetupControls
<1>3. CASE AddRange
  <2>1. CASE AwaitIntervalCancel BY <2>1 DEF AwaitIntervalCancel
  <2>2. CASE ~AwaitIntervalCancel
    BY <1>3, <2>2 DEF AddRange, EnsureSkipEnabled, ReadItemCount, ClickAdd,
       WaitForSkipIntervalSetup, ResolveSkipIntervalControls, FillInterval,
       VerifySkipIntervalReadback, ClickIntervalOk, AwaitIntervalOk, ClickIntervalCancel,
       VerifyItemCount
  <2> QED BY <2>1, <2>2
<1>4. CASE CloseDialog BY <1>4 DEF CloseDialog, ClickOk, AwaitOk, ClickCancel, AwaitCancel
<1>5. CASE Return BY <1>5 DEF Return
<1>6. CASE StartSelfCheck BY <1>6 DEF StartSelfCheck, Quiet
<1>7. ASSUME NEW r \in Ranges, StartCommit(r) PROVE Bits' BY <1>7 DEF StartCommit, Quiet
<1>8. CASE UNCHANGED vars BY <1>8 DEF vars, progress
<1> QED BY <1>1, <1>2, <1>3, <1>4, <1>5, <1>6, <1>7, <1>8 DEF Next, Pump

\* Steps of the pump thread other than the two that write into a dialog only
\* post messages.
LEMMA PostType ==
    ASSUME Data, Found, Flags, NEW h \in Handles, NEW c \in Commands,
           PostMessage(h, c) \/ PostMessageFails(h)
    PROVE  /\ queue' \in Seq(Message) /\ UNCHANGED <<busy, born, win, saved, enabled>>
<1>1. queue \in Seq(Message) /\ [to |-> h, cmd |-> c] \in Message BY DEF Data, Message
<1>2. Append(queue, [to |-> h, cmd |-> c]) \in Seq(Message) BY <1>1
<1> QED BY <1>1, <1>2 DEF PostMessage, PostMessageFails, uiVars

\* A row count is a natural number, also of a window that is gone.
LEMMA CountType == ASSUME Data, Found, NEW h PROVE ItemCount(h) \in Nat
<1>1. CASE IsWindow(h)
  <2>1. h \in Windows BY <1>1, LiveHandle DEF Found
  <2>2. win[h].rows \in Seq(Entry) BY <2>1 DEF Data, Window
  <2> QED BY <1>1, <2>2 DEF ItemCount
<1>2. CASE ~IsWindow(h) BY <1>2 DEF ItemCount
<1> QED BY <1>1, <1>2

UiPart == /\ queue \in Seq(Message) /\ win \in [Windows -> Window] /\ saved \in Seq(Entry)
          /\ born \in Handles /\ Flags

\* PotPlayer's part of the state stays typed under the pump thread's steps.
LEMMA PumpUiType == Data /\ Found /\ Flags /\ Pump => UiPart'
<1> SUFFICES ASSUME Data, Found, Flags, Pump PROVE UiPart'
  OBVIOUS
<1>0. /\ Main \in Handles /\ dialog \in Handles /\ interval \in Handles
      /\ {"open", "add", "ok", "cancel"} \subseteq Commands
  BY UiAssumption DEF Found, Main, Handles, Commands
<1>1. CASE UNCHANGED uiVars BY <1>1 DEF UiPart, Data, Found, Flags, uiVars
<1>2. ASSUME NEW h \in Handles, NEW c \in Commands, PostMessage(h, c) \/ PostMessageFails(h)
      PROVE  UiPart'
  BY <1>2, PostType DEF UiPart, Data, Found, Flags
<1>3. CASE PostOpen \/ ClickAdd \/ ClickIntervalOk \/ ClickIntervalCancel \/ ClickOk \/ ClickCancel
  BY <1>0, <1>2, <1>3
  DEF PostOpen, ClickAdd, ClickIntervalOk, ClickIntervalCancel, ClickOk, ClickCancel
<1>4. CASE EnsureSkipEnabled
  <2>1. [win EXCEPT ![dialog].checked = TRUE] \in [Windows -> Window] BY DEF Data, Window
  <2>2. win' \in [Windows -> Window] BY <1>4, <2>1 DEF EnsureSkipEnabled, Data
  <2> QED BY <1>4, <2>2 DEF EnsureSkipEnabled, UiPart, Data, Found, Flags
<1>5. CASE FillInterval
  <2>1. range \in Entry /\ Mangled \in Entry BY DEF Found, Entry
  <2>2. ASSUME NEW e \in Entry PROVE [win EXCEPT ![interval].field = e] \in [Windows -> Window]
    BY DEF Data, Window
  <2>3. CASE UNCHANGED win BY <1>5, <2>3 DEF FillInterval, UiPart, Data, Found, Flags
  <2>4. CASE ~UNCHANGED win
    <3>1. PICK e \in {range, Mangled} : win' = [win EXCEPT ![interval].field = e]
      BY <1>5, <2>4 DEF FillInterval
    <3>2. win' \in [Windows -> Window] BY <2>1, <2>2, <3>1
    <3> QED BY <1>5, <3>2 DEF FillInterval, UiPart, Data, Found, Flags
  <2> QED BY <2>3, <2>4
<1>6. CASE OpenDialog /\ ~PostOpen
  <2>1. UNCHANGED uiVars
    BY <1>6 DEF OpenDialog, ArmHook, AwaitCapture, FindAndParkFallback, Unhook,
       ResolveSkipSetupControls
  <2> QED BY <1>1, <2>1
<1>7. CASE AddRange /\ ~(EnsureSkipEnabled \/ FillInterval \/ ClickAdd \/ ClickIntervalOk \/ ClickIntervalCancel)
  BY <1>1, <1>7 DEF AddRange, ReadItemCount, WaitForSkipIntervalSetup,
     ResolveSkipIntervalControls, VerifySkipIntervalReadback, AwaitIntervalOk,
     AwaitIntervalCancel, VerifyItemCount
<1>8. CASE AwaitOk \/ AwaitCancel \/ Return BY <1>1, <1>8 DEF AwaitOk, AwaitCancel, Return
<1> QED BY <1>3, <1>4, <1>5, <1>6, <1>7, <1>8 DEF Pump, CloseDialog, AddRange, OpenDialog

\* The handles and counts of the current call.
LEMMA FoundInv == Data /\ Found /\ Flags /\ [Next]_vars => Found'
<1> SUFFICES ASSUME Data, Found, Flags, [Next]_vars PROVE Found'
  OBVIOUS
<1> USE DEF Found, foundVars, callVars, hookVars, GoOn, Fail, Late, Goto, Begin
<1>0. /\ Main \in Handles /\ Windows \subseteq Handles
  BY UiAssumption DEF Main, Handles, Windows
<1>1. CASE Ui
  <2>1. born' \in Handles BY <1>1, UiType DEF Ui
  <2>2. captured' \in Handles BY <1>0, <1>1 DEF Ui, CbtHookProc
  <2> QED BY <1>1, <2>1, <2>2 DEF Ui
<1>2. CASE Pump
  <2>1. born' \in Handles BY <1>2, PumpUiType DEF UiPart
  <2>2. CASE OpenDialog
    BY <1>0, <2>1, <2>2 DEF OpenDialog, ArmHook, PostOpen, AwaitCapture, FindAndParkFallback,
       Unhook, ResolveSkipSetupControls
  <2>3. CASE AddRange
    <3>1. ItemCount(dialog) \in Nat BY CountType
    <3> QED BY <1>0, <2>1, <2>3, <3>1
      DEF AddRange, EnsureSkipEnabled, ReadItemCount, ClickAdd, WaitForSkipIntervalSetup,
       ResolveSkipIntervalControls, FillInterval, VerifySkipIntervalReadback, ClickIntervalOk,
       AwaitIntervalOk, ClickIntervalCancel, AwaitIntervalCancel, VerifyItemCount
  <2>4. CASE CloseDialog
    BY <2>1, <2>4 DEF CloseDialog, ClickOk, AwaitOk, ClickCancel, AwaitCancel
  <2>5. CASE Return BY <2>1, <2>5 DEF Return
  <2> QED BY <1>2, <2>2, <2>3, <2>4, <2>5 DEF Pump
<1>3. CASE StartSelfCheck BY <1>3 DEF StartSelfCheck, uiVars
<1>4. ASSUME NEW r \in Ranges, StartCommit(r) PROVE Found' BY <1>4 DEF StartCommit, uiVars
<1>5. CASE UNCHANGED vars BY <1>5 DEF vars, uiVars
<1> QED BY <1>1, <1>2, <1>3, <1>4, <1>5 DEF Next

\* The queue, the dialogs, the file and the histories.
LEMMA DataInv == Data /\ Found /\ Flags /\ Control /\ [Next]_vars => Data' /\ Flags'
<1> SUFFICES ASSUME Data, Found, Flags, Control, [Next]_vars PROVE Data' /\ Flags'
  OBVIOUS
<1>1. CASE Ui
  <2>1. UiPart' BY <1>1, UiType DEF Ui, UiPart
  <2>2. UNCHANGED <<before, asked, build>> BY <1>1 DEF Ui, callVars
  <2> QED BY <2>1, <2>2 DEF UiPart, Data
<1>2. CASE Pump
  <2>1. UiPart' BY <1>2, PumpUiType
  <2>2. CASE OpenDialog
    <3>1. UNCHANGED <<before, asked, build>>
      BY <2>2 DEF callVars, OpenDialog, ArmHook, PostOpen, AwaitCapture, FindAndParkFallback,
         Unhook, ResolveSkipSetupControls
    <3> QED BY <2>1, <3>1 DEF UiPart, Data
  <2>3. CASE AddRange
    <3>1. UNCHANGED <<before, asked, build>>
      BY <2>3 DEF callVars, AddRange, EnsureSkipEnabled, ReadItemCount, ClickAdd,
         WaitForSkipIntervalSetup, ResolveSkipIntervalControls, FillInterval,
         VerifySkipIntervalReadback, ClickIntervalOk, AwaitIntervalOk, ClickIntervalCancel,
         AwaitIntervalCancel, VerifyItemCount
    <3> QED BY <2>1, <3>1 DEF UiPart, Data
  <2>4. CASE CloseDialog \/ Return
    <3>1. UNCHANGED <<before, asked, build>>
      BY <2>4 DEF callVars, CloseDialog, ClickOk, AwaitOk, ClickCancel, AwaitCancel, Return
    <3> QED BY <2>1, <3>1 DEF UiPart, Data
  <2> QED BY <1>2, <2>2, <2>3, <2>4 DEF Pump
<1>3. CASE StartSelfCheck
  <2>1. UNCHANGED <<uiVars, asked, build>> /\ before' = saved
    BY <1>3 DEF StartSelfCheck, Begin
  <2> QED BY <2>1 DEF uiVars, Data, Flags
<1>4. ASSUME NEW r \in Ranges, StartCommit(r) PROVE Data' /\ Flags'
  <2>1. UNCHANGED <<uiVars, build>> /\ before' = saved /\ asked' = Append(asked, r)
    BY <1>4 DEF StartCommit, Begin
  <2>2. asked' \in Seq(Ranges) BY <2>1 DEF Data
  <2> QED BY <2>1, <2>2 DEF uiVars, Data, Flags
<1>5. CASE UNCHANGED vars BY <1>5 DEF vars, uiVars, callVars, Data, Flags
<1> QED BY <1>1, <1>2, <1>3, <1>4, <1>5 DEF Next

\* The type invariant is inductive, one part at a time.
TypeInv == Control /\ Flags /\ Bits /\ Found /\ Data

LEMMA TypeInductive == Spec => []TypeInv
<1>1. Init => TypeInv BY InitType DEF TypeInv
<1>2. TypeInv /\ [Next]_vars => TypeInv'
  BY ControlInv, BitsInv, FoundInv, DataInv DEF TypeInv
<1> QED BY <1>1, <1>2, PTL DEF Spec

\* Every behaviour of the driver is well typed: the handles it keeps are ones
\* PotPlayer could have given it and the queue holds nothing but its commands.
THEOREM TypeCorrect == Spec => []TypeOK
BY TypeInductive, TypeParts, PTL DEF TypeInv

-----------------------------------------------------------------------------
\* OpenViaHook takes its hook off on each of its exits: the hook never outlives
\* a single open attempt (skip_setup.cpp:146-150).
THEOREM HookRemoved == Spec => []HookOnlyWhileOpening
<1> USE DEF HookOnlyWhileOpening
<1>1. Init => HookOnlyWhileOpening BY DEF Init
<1>2. HookOnlyWhileOpening /\ [Next]_vars => HookOnlyWhileOpening'
  <2> SUFFICES ASSUME HookOnlyWhileOpening, [Next]_vars PROVE HookOnlyWhileOpening'
    OBVIOUS
  <2> USE DEF hookVars, GoOn, Fail, Late, Goto, Begin
  <2>1. CASE Ui BY <2>1 DEF Ui, progress
  <2>2. CASE OpenDialog
    BY <2>2 DEF OpenDialog, ArmHook, PostOpen, AwaitCapture, FindAndParkFallback, Unhook,
       ResolveSkipSetupControls
  <2>3. CASE AddRange
    BY <2>3 DEF AddRange, EnsureSkipEnabled, ReadItemCount, ClickAdd, WaitForSkipIntervalSetup,
       ResolveSkipIntervalControls, FillInterval, VerifySkipIntervalReadback, ClickIntervalOk,
       AwaitIntervalOk, ClickIntervalCancel, AwaitIntervalCancel, VerifyItemCount
  <2>4. CASE CloseDialog BY <2>4 DEF CloseDialog, ClickOk, AwaitOk, ClickCancel, AwaitCancel
  <2>5. CASE Return BY <2>5 DEF Return
  <2>6. CASE StartSelfCheck BY <2>6 DEF StartSelfCheck
  <2>7. ASSUME NEW r \in Ranges, StartCommit(r) PROVE HookOnlyWhileOpening'
    BY <2>7 DEF StartCommit
  <2>8. CASE UNCHANGED vars BY <2>8 DEF vars, progress
  <2> QED BY <2>1, <2>2, <2>3, <2>4, <2>5, <2>6, <2>7, <2>8 DEF Next, Pump
<1> QED BY <1>1, <1>2, PTL DEF Spec

-----------------------------------------------------------------------------
\* The path of a self-check.  Only a commit reaches the steps that write; while
\* the self-check's answer is still "yes", the controls it went past are there.
Committing == {"enable", "count", "fill", "verify", "intervalOk", "intervalOkWait",
               "recount", "ok", "okWait"}
Closing == {"intervalCancel", "intervalCancelWait", "cancel", "cancelWait", "return"}
CheckPath == /\ pc \in Committing => job = "commit"
             /\ job = "check" /\ ok /\ pc \in {"add", "awaitInterval", "resolveInterval"}
                  => build["setup"]
             /\ job = "check" /\ ok /\ pc \in Closing => build["setup"] /\ build["interval"]

LEMMA CheckPathInv == Control /\ CheckPath /\ [Next]_vars => CheckPath'
<1> SUFFICES ASSUME Control, CheckPath, [Next]_vars PROVE CheckPath'
  OBVIOUS
<1> USE DEF CheckPath, Committing, Closing, Control, callVars, GoOn, Fail, Late, Goto, Begin
<1>1. CASE Ui BY <1>1 DEF Ui, progress
<1>2. CASE OpenDialog
  BY <1>2 DEF OpenDialog, ArmHook, PostOpen, AwaitCapture, FindAndParkFallback, Unhook,
       ResolveSkipSetupControls
<1>3. CASE AddRange
  BY <1>3 DEF AddRange, EnsureSkipEnabled, ReadItemCount, ClickAdd, WaitForSkipIntervalSetup,
       ResolveSkipIntervalControls, FillInterval, VerifySkipIntervalReadback, ClickIntervalOk,
       AwaitIntervalOk, ClickIntervalCancel, AwaitIntervalCancel, VerifyItemCount
<1>4. CASE CloseDialog BY <1>4 DEF CloseDialog, ClickOk, AwaitOk, ClickCancel, AwaitCancel
<1>5. CASE Return BY <1>5 DEF Return
<1>6. CASE StartSelfCheck BY <1>6 DEF StartSelfCheck
<1>7. ASSUME NEW r \in Ranges, StartCommit(r) PROVE CheckPath' BY <1>7 DEF StartCommit
<1>8. CASE UNCHANGED vars BY <1>8 DEF vars, progress
<1> QED BY <1>1, <1>2, <1>3, <1>4, <1>5, <1>6, <1>7, <1>8 DEF Next, Pump

\* Marking a build supported means that every control of both dialogs is there:
\* RunSelfCheckSequence (self_check.cpp:14-28) reports no success past a missing one.
THEOREM SupportedIsSound == Spec => []VerdictSound
<1>1. Init => CheckPath /\ VerdictSound BY DEF Init, CheckPath, VerdictSound, Committing, Closing
<1>2. Control /\ CheckPath /\ VerdictSound /\ [Next]_vars => VerdictSound'
  <2> SUFFICES ASSUME Control, CheckPath, VerdictSound, [Next]_vars PROVE VerdictSound'
    OBVIOUS
  <2>1. CASE Return
    BY <2>1 DEF Return, VerdictSound, CheckPath, Closing, Control
  <2> USE DEF VerdictSound, callVars, Begin
  <2>2. CASE OpenDialog
    BY <2>2 DEF OpenDialog, ArmHook, PostOpen, AwaitCapture, FindAndParkFallback, Unhook,
       ResolveSkipSetupControls
  <2>3. CASE AddRange
    BY <2>3 DEF AddRange, EnsureSkipEnabled, ReadItemCount, ClickAdd, WaitForSkipIntervalSetup,
       ResolveSkipIntervalControls, FillInterval, VerifySkipIntervalReadback, ClickIntervalOk,
       AwaitIntervalOk, ClickIntervalCancel, AwaitIntervalCancel, VerifyItemCount
  <2>4. CASE CloseDialog BY <2>4 DEF CloseDialog, ClickOk, AwaitOk, ClickCancel, AwaitCancel
  <2>5. CASE Ui BY <2>5 DEF Ui
  <2>6. CASE StartSelfCheck BY <2>6 DEF StartSelfCheck
  <2>7. ASSUME NEW r \in Ranges, StartCommit(r) PROVE VerdictSound' BY <2>7 DEF StartCommit
  <2>8. CASE UNCHANGED vars BY <2>8 DEF vars
  <2> QED BY <2>1, <2>2, <2>3, <2>4, <2>5, <2>6, <2>7, <2>8 DEF Next, Pump
<1>3. TypeInv => Control BY DEF TypeInv
<1> QED BY <1>1, <1>2, <1>3, CheckPathInv, TypeInductive, PTL DEF Spec

-----------------------------------------------------------------------------
\* Before the first commit nothing that would save a dialog is ever posted.
NoOkPosted == asked = <<>> => /\ job = "check"
                              /\ \A i \in 1..Len(queue) : queue[i].cmd # "ok"

\* What appending to the queue and taking from it do to that.
LEMMA PostKeeps ==
    ASSUME queue \in Seq(Message), NEW h \in Handles, NEW c \in Commands \ {"ok"},
           PostMessage(h, c) \/ PostMessageFails(h), UNCHANGED <<asked, job>>, NoOkPosted
    PROVE  NoOkPosted'
<1> DEFINE m == [to |-> h, cmd |-> c]
<1>1. m \in Message /\ m.cmd # "ok" BY DEF Message
<1>2. CASE UNCHANGED queue BY <1>2 DEF NoOkPosted
<1>3. CASE queue' = Append(queue, m)
  <2>1. \A i \in 1..Len(queue') : queue'[i] = m \/ (i \in 1..Len(queue) /\ queue'[i] = queue[i])
    BY <1>1, <1>3
  <2> QED BY <1>1, <2>1 DEF NoOkPosted
<1> QED BY <1>2, <1>3 DEF PostMessage, PostMessageFails, uiVars

LEMMA TakeKeeps ==
    ASSUME queue \in Seq(Message), queue # <<>>, queue' = Tail(queue), UNCHANGED <<asked, job>>,
           NoOkPosted
    PROVE  NoOkPosted'
<1>1. Len(queue') = Len(queue) - 1 /\ \A i \in 1..Len(queue') : queue'[i] = queue[i + 1]
  OBVIOUS
<1>2. \A i \in 1..Len(queue') : i + 1 \in 1..Len(queue) BY <1>1
<1> QED BY <1>1, <1>2 DEF NoOkPosted

LEMMA NoOkInv == TypeInv /\ CheckPath /\ NoOkPosted /\ [Next]_vars => NoOkPosted'
<1> SUFFICES ASSUME TypeInv, CheckPath, NoOkPosted, [Next]_vars PROVE NoOkPosted'
  OBVIOUS
<1>0. /\ Main \in Handles /\ dialog \in Handles /\ interval \in Handles
      /\ {"open", "add", "cancel"} \subseteq Commands \ {"ok"} /\ queue \in Seq(Message)
  BY UiAssumption DEF TypeInv, Found, Data, Main, Handles, Commands
<1>1. CASE UNCHANGED <<queue, asked, job>> BY <1>1 DEF NoOkPosted
<1>2. CASE Ui
  <2>1. UNCHANGED <<asked, job>> BY <1>2 DEF Ui, callVars
  <2>2. ASSUME NEW c, Dispatch(c) PROVE NoOkPosted' BY <1>0, <2>1, <2>2, TakeKeeps DEF Dispatch
  <2>3. CASE UiDestroy \/ UserEsc \/ UiStall \/ UiResume
    BY <1>1, <2>1, <2>3 DEF UiDestroy, UserEsc, UiStall, UiResume
  <2> QED BY <1>2, <2>2, <2>3
    DEF Ui, UiNext, UiOpenSkipSetup, UiAdd, UiIntervalOk, UiSetupOk, UiCancel, UiDrop
<1>3. CASE PostOpen \/ ClickAdd \/ ClickIntervalCancel \/ ClickCancel
  <2>1. UNCHANGED <<asked, job>>
    BY <1>3 DEF PostOpen, ClickAdd, ClickIntervalCancel, ClickCancel, callVars
  <2> QED BY <1>0, <1>3, <2>1, PostKeeps
    DEF PostOpen, ClickAdd, ClickIntervalCancel, ClickCancel
<1>4. CASE ClickIntervalOk \/ ClickOk
  <2>1. job' = "commit" /\ job = "commit" /\ asked' = asked
    BY <1>4 DEF ClickIntervalOk, ClickOk, callVars, CheckPath, Committing
  <2> QED BY <2>1 DEF NoOkPosted
<1>5. CASE OpenDialog /\ ~PostOpen
  <2>1. UNCHANGED <<queue, asked, job>>
    BY <1>5 DEF OpenDialog, ArmHook, AwaitCapture, FindAndParkFallback, Unhook,
       ResolveSkipSetupControls, uiVars, callVars
  <2> QED BY <1>1, <2>1
<1>6. CASE AddRange /\ ~(ClickAdd \/ ClickIntervalOk \/ ClickIntervalCancel)
  <2>1. UNCHANGED <<queue, asked, job>>
    BY <1>6 DEF AddRange, EnsureSkipEnabled, FillInterval, ReadItemCount,
       WaitForSkipIntervalSetup, ResolveSkipIntervalControls, VerifySkipIntervalReadback,
       AwaitIntervalOk, AwaitIntervalCancel, VerifyItemCount, uiVars, callVars
  <2> QED BY <1>1, <2>1
<1>7. CASE AwaitOk \/ AwaitCancel \/ Return
  BY <1>1, <1>7 DEF AwaitOk, AwaitCancel, Return, uiVars, callVars
<1>8. CASE StartSelfCheck
  <2>1. UNCHANGED <<queue, asked>> /\ job' = "check"
    BY <1>8 DEF StartSelfCheck, Begin, uiVars
  <2> QED BY <2>1 DEF NoOkPosted
<1>9. ASSUME NEW r \in Ranges, StartCommit(r) PROVE NoOkPosted'
  <2>1. asked \in Seq(Ranges) /\ asked' = Append(asked, r)
    BY <1>9 DEF StartCommit, TypeInv, Data
  <2>2. asked' # <<>> BY <2>1
  <2> QED BY <2>2 DEF NoOkPosted
<1>10. CASE UNCHANGED vars BY <1>1, <1>10 DEF vars, uiVars, callVars
<1> QED BY <1>2, <1>3, <1>4, <1>5, <1>6, <1>7, <1>8, <1>9, <1>10
  DEF Next, Pump, CloseDialog, AddRange, OpenDialog

\* Only the OK of a Skip Setup dialog writes the file's list or the setting.
LEMMA OnlyOkWrites ==
    TypeInv /\ NoOkPosted /\ [Next]_vars => [WritesNothing]_vars
<1> SUFFICES ASSUME TypeInv, NoOkPosted, asked = <<>>, Next PROVE UNCHANGED <<saved, enabled>>
  BY DEF WritesNothing, vars
<1>1. CASE Ui
  <2>1. ~UiSetupOk
    <3>1. SUFFICES ASSUME UiSetupOk PROVE FALSE
      OBVIOUS
    <3>2. queue \in Seq(Message) /\ queue # <<>> /\ queue[1].cmd = "ok"
      BY <3>1 DEF UiSetupOk, Dispatch, TypeInv, Data
    <3>3. 1 \in 1..Len(queue) BY <3>2
    <3> QED BY <3>2, <3>3 DEF NoOkPosted
  <2> QED BY <1>1, <2>1 DEF Ui, UiNext, UiOpenSkipSetup, UiAdd, UiIntervalOk, UiCancel, UiDrop,
     UiDestroy, UserEsc, UiStall, UiResume
<1>2. CASE OpenDialog
  BY <1>2 DEF OpenDialog, ArmHook, PostOpen, AwaitCapture, FindAndParkFallback, Unhook,
     ResolveSkipSetupControls, uiVars, PostMessage, PostMessageFails
<1>3. CASE AddRange
  BY <1>3 DEF AddRange, EnsureSkipEnabled, ReadItemCount, ClickAdd, WaitForSkipIntervalSetup,
     ResolveSkipIntervalControls, FillInterval, VerifySkipIntervalReadback, ClickIntervalOk,
     AwaitIntervalOk, ClickIntervalCancel, AwaitIntervalCancel, VerifyItemCount, uiVars,
     PostMessage, PostMessageFails
<1>4. CASE CloseDialog
  BY <1>4 DEF CloseDialog, ClickOk, AwaitOk, ClickCancel, AwaitCancel, uiVars, PostMessage,
     PostMessageFails
<1>5. CASE Return BY <1>5 DEF Return, uiVars
<1>6. CASE StartSelfCheck BY <1>6 DEF StartSelfCheck, Begin, uiVars
<1>7. ASSUME NEW r \in Ranges, StartCommit(r) PROVE UNCHANGED <<saved, enabled>>
  BY <1>7 DEF StartCommit, Begin, uiVars
<1> QED BY <1>1, <1>2, <1>3, <1>4, <1>5, <1>6, <1>7 DEF Next, Pump

\* The self-check commits nothing (self_check.hpp:48-51): whatever PotPlayer
\* does and whichever step fails, no step before the first commit is asked for
\* changes the file's skip list or the skip setting.
THEOREM SelfCheckIsHarmless == Spec => SelfCheckWritesNothing
<1>1. Init => CheckPath /\ NoOkPosted
  BY DEF Init, UiInit, CheckPath, NoOkPosted, Committing, Closing
<1>2. TypeInv => Control BY DEF TypeInv
<1> QED BY <1>1, <1>2, CheckPathInv, NoOkInv, OnlyOkWrites, TypeInductive, PTL
  DEF Spec, SelfCheckWritesNothing

-----------------------------------------------------------------------------
(***************************************************************************)
(* The dialogs, window by window: what each step that touches one leaves of *)
(* it.  Only its life, its rows, its checkbox or its field changes, and no  *)
(* other window does.                                                       *)
(***************************************************************************)
Others(h) == \A g \in Windows \ {h} : win'[g] = win[g]
\* A window keeps what it was created with.
SameKind(h) == win'[h].kind = win[h].kind /\ win'[h].owner = win[h].owner
SameData(h) == /\ win'[h].rows = win[h].rows /\ win'[h].checked = win[h].checked
               /\ win'[h].field = win[h].field

LEMMA EndFacts ==
    ASSUME win \in [Windows -> Window], NEW h \in Windows, win' = EndDialog(h)
    PROVE  Others(h) /\ SameKind(h) /\ SameData(h) /\ win'[h].life = "ended"
BY DEF EndDialog, Others, SameKind, SameData, Window

LEMMA DestroyFacts ==
    ASSUME win \in [Windows -> Window], NEW h \in Windows, win' = [win EXCEPT ![h].life = "gone"]
    PROVE  Others(h) /\ SameKind(h) /\ SameData(h) /\ win'[h].life = "gone"
BY DEF Others, SameKind, SameData, Window

LEMMA CheckFacts ==
    ASSUME win \in [Windows -> Window], NEW h \in Windows, win' = [win EXCEPT ![h].checked = TRUE]
    PROVE  /\ Others(h) /\ SameKind(h) /\ win'[h].checked
           /\ win'[h].life = win[h].life /\ win'[h].rows = win[h].rows /\ win'[h].field = win[h].field
BY DEF Others, SameKind, Window

LEMMA FieldFacts ==
    ASSUME win \in [Windows -> Window], NEW h \in Windows, NEW e \in Entry,
           win' = [win EXCEPT ![h].field = e]
    PROVE  /\ Others(h) /\ SameKind(h) /\ win'[h].field = e /\ win'[h].life = win[h].life
           /\ win'[h].rows = win[h].rows /\ win'[h].checked = win[h].checked
BY DEF Others, SameKind, Window

LEMMA RowFacts ==
    ASSUME win \in [Windows -> Window], NEW i \in Windows, NEW g \in Windows,
           win' = [EndDialog(i) EXCEPT ![win[i].owner].rows = Append(@, win[i].field)]
    PROVE  /\ SameKind(g) /\ win'[g].checked = win[g].checked /\ win'[g].field = win[g].field
           /\ win'[g].life = IF g = i THEN "ended" ELSE win[g].life
           /\ win'[g].rows = IF g = win[i].owner THEN Append(win[g].rows, win[i].field)
                             ELSE win[g].rows
           /\ g \notin {i, win[i].owner} => win'[g] = win[g]
BY DEF EndDialog, SameKind, Window

LEMMA CreateFacts ==
    ASSUME win \in [Windows -> Window], born \in Handles, NEW d \in Window, Create(d)
    PROVE  born' = born + 1 /\ born' \in Windows /\ win'[born'] = d /\ Others(born')
BY UiAssumption DEF Create, Others, Handles, Windows

-----------------------------------------------------------------------------
\* As long as PotPlayer shows one Skip Setup at a time, that dialog's copy of
\* the list starts with the list as it is kept, and its checkbox is ticked if
\* the setting is on.
NoSecondDialog == "nest" \notin Faults
OneSetup == \A g, h \in Windows : IsKind(g, "setup") /\ IsKind(h, "setup") => g = h
CopyAhead == \A h \in Windows : IsKind(h, "setup") =>
                 IsPrefixOf(saved, win[h].rows) /\ (enabled => win[h].checked)
Additive == OneSetup /\ CopyAhead

LEMMA PrefixOfSelf == ASSUME NEW s \in Seq(Entry) PROVE IsPrefixOf(s, s)
BY DEF IsPrefixOf
LEMMA PrefixOfAppend ==
    ASSUME NEW s \in Seq(Entry), NEW t \in Seq(Entry), NEW e \in Entry, IsPrefixOf(s, t)
    PROVE  IsPrefixOf(s, Append(t, e))
BY DEF IsPrefixOf

\* A step that shows no new dialog, saves nothing and takes no row or tick away.
Gentle == /\ UNCHANGED <<born, saved, enabled>>
          /\ \A g \in Windows :
                /\ win'[g].kind = win[g].kind
                /\ win[g].life = "gone" => win'[g].life = "gone"
                /\ win'[g].rows = win[g].rows \/ \E e \in Entry : win'[g].rows = Append(win[g].rows, e)
                /\ win[g].checked => win'[g].checked

LEMMA GentleKeeps == TypeInv /\ Additive /\ Gentle => Additive'
<1> SUFFICES ASSUME TypeInv, Additive, Gentle PROVE Additive'
  OBVIOUS
<1>1. \A g \in Windows : IsKind(g, "setup")' => IsKind(g, "setup")
  BY DEF Gentle, IsKind, IsWindow
<1>2. OneSetup' BY <1>1 DEF Additive, OneSetup
<1>3. ASSUME NEW h \in Windows, IsKind(h, "setup")'
      PROVE  IsPrefixOf(saved', win'[h].rows) /\ (enabled' => win'[h].checked)
  <2>1. IsKind(h, "setup") BY <1>1, <1>3
  <2>2. IsPrefixOf(saved, win[h].rows) /\ (enabled => win[h].checked)
    BY <2>1 DEF Additive, CopyAhead
  <2>3. saved \in Seq(Entry) /\ win[h].rows \in Seq(Entry) BY DEF TypeInv, Data, Window
  <2> QED BY <2>2, <2>3, PrefixOfAppend DEF Gentle
<1> QED BY <1>2, <1>3 DEF Additive, CopyAhead

\* Saving a copy that starts with the list only lengthens the list.
LEMMA AdditiveUi ==
    ASSUME NoSecondDialog, TypeInv, Additive, UiNext
    PROVE  Additive' /\ OnlyGrows
<1>0. /\ win \in [Windows -> Window] /\ born \in Handles /\ saved \in Seq(Entry)
      /\ Windows \subseteq Handles /\ queue \in Seq(Message) /\ Data /\ Flags /\ Main \in Handles
  BY UiAssumption DEF TypeInv, Data, Found, Handles, Windows, Main
<1>1. CASE Gentle
  BY <1>0, <1>1, GentleKeeps, PrefixOfSelf DEF Gentle, OnlyGrows
<1>2. CASE UiOpenSkipSetup
  <2>1. CASE UNCHANGED <<born, win>>
    BY <1>0, <1>1, <1>2, <2>1 DEF UiOpenSkipSetup, Gentle
  <2>2. CASE ~UNCHANGED <<born, win>>
    <3> DEFINE w == [kind |-> "setup", life |-> "open", owner |-> Main,
                     rows |-> saved, checked |-> enabled, field |-> Probe]
    <3>1. /\ \A g \in Windows : ~IsKind(g, "setup")
          /\ Create(w) /\ saved' = saved /\ enabled' = enabled
      BY <1>2, <2>2 DEF UiOpenSkipSetup, MayOpen, NoSecondDialog
    <3>2. w \in Window
      <4>1. Probe \in Entry /\ enabled \in BOOLEAN BY <1>0 DEF Entry, Flags
      <4> QED BY <1>0, <4>1, WindowParts
    <3>3. born' = born + 1 /\ born' \in Windows /\ win'[born'] = w /\ Others(born')
      BY <1>0, <3>1, <3>2, CreateFacts
    <3>4. \A g \in Windows : IsKind(g, "setup")' => g = born'
      BY <1>0, <3>1, <3>3 DEF IsKind, IsWindow, Others, Handles, Windows
    <3>5. IsPrefixOf(saved', win'[born'].rows) /\ (enabled' => win'[born'].checked)
      BY <1>0, <3>1, <3>3, PrefixOfSelf
    <3> QED BY <1>0, <3>1, <3>4, <3>5, PrefixOfSelf
      DEF Additive, OneSetup, CopyAhead, OnlyGrows
  <2> QED BY <2>1, <2>2
<1>3. CASE UiAdd
  <2>1. CASE UNCHANGED <<born, win>> BY <1>0, <1>1, <1>3, <2>1 DEF UiAdd, Gentle
  <2>2. CASE ~UNCHANGED <<born, win>>
    <3> DEFINE w == [kind |-> "interval", life |-> "open", owner |-> Head(queue).to,
                     rows |-> <<>>, checked |-> FALSE, field |-> Probe]
    <3>1. Create(w) /\ saved' = saved /\ enabled' = enabled BY <1>3, <2>2 DEF UiAdd
    <3>2. w \in Window
      <4>1. Probe \in Entry /\ <<>> \in Seq(Entry) BY DEF Entry
      <4>2. Head(queue).to \in Handles BY <1>0, <1>3, DispatchType DEF UiAdd
      <4> QED BY <4>1, <4>2, WindowParts
    <3>3. born' = born + 1 /\ born' \in Windows /\ win'[born'] = w /\ Others(born')
      BY <1>0, <3>1, <3>2, CreateFacts
    <3>4. \A g \in Windows : IsKind(g, "setup")' => IsKind(g, "setup") /\ win'[g] = win[g]
      BY <1>0, <3>3 DEF IsKind, IsWindow, Others, Handles, Windows
    <3> QED BY <1>0, <3>1, <3>4, PrefixOfSelf DEF Additive, OneSetup, CopyAhead, OnlyGrows
  <2> QED BY <2>1, <2>2
<1>4. CASE UiIntervalOk
  <2> DEFINE i == Head(queue).to
  <2>1. i \in Windows /\ UNCHANGED <<born, saved, enabled>>
    BY <1>0, <1>4, LiveHandle DEF UiIntervalOk, IsKind
  <2>2. win' = [EndDialog(i) EXCEPT ![win[i].owner].rows = Append(@, win[i].field)]
    BY <1>4 DEF UiIntervalOk
  <2>3. win[i].field \in Entry /\ win[i].life # "gone"
    BY <1>0, <1>4, <2>1 DEF Window, UiIntervalOk, IsKind, IsWindow
  <2> HIDE DEF i
  <2>4. Gentle
    <3>1. SUFFICES ASSUME NEW g \in Windows
          PROVE /\ win'[g].kind = win[g].kind
                /\ win[g].life = "gone" => win'[g].life = "gone"
                /\ win'[g].rows = win[g].rows \/ \E e \in Entry : win'[g].rows = Append(win[g].rows, e)
                /\ win[g].checked => win'[g].checked
      BY <2>1 DEF Gentle
    <3>2. /\ SameKind(g) /\ win'[g].checked = win[g].checked
          /\ win'[g].life = IF g = i THEN "ended" ELSE win[g].life
          /\ win'[g].rows = IF g = win[i].owner THEN Append(win[g].rows, win[i].field)
                            ELSE win[g].rows
      BY <1>0, <2>1, <2>2, RowFacts
    <3> QED BY <2>3, <3>2 DEF SameKind
  <2> QED BY <1>1, <2>4
<1>5. CASE UiSetupOk
  <2> DEFINE d == Head(queue).to
  <2>1. /\ IsKind(d, "setup") /\ d \in Windows /\ win' = EndDialog(d) /\ born' = born
        /\ saved' = win[d].rows /\ enabled' = win[d].checked
    BY <1>0, <1>5, LiveHandle DEF UiSetupOk, IsKind
  <2>2. Others(d) /\ SameKind(d) /\ SameData(d) BY <1>0, <2>1, EndFacts
  <2>3. win[d].rows \in Seq(Entry) BY <1>0, <2>1 DEF Window
  <2>4. \A g \in Windows : IsKind(g, "setup")' => g = d
    BY <2>1, <2>2 DEF Additive, OneSetup, IsKind, IsWindow, Others
  <2>5. IsPrefixOf(saved', win'[d].rows) /\ (enabled' => win'[d].checked)
    BY <2>1, <2>2, <2>3, PrefixOfSelf DEF SameData
  <2>6. OnlyGrows BY <2>1 DEF OnlyGrows, Additive, CopyAhead
  <2> QED BY <2>4, <2>5, <2>6 DEF Additive, OneSetup, CopyAhead
<1>6. CASE UiCancel
  <2> DEFINE d == Head(queue).to
  <2>1. d \in Windows /\ win' = EndDialog(d) /\ win[d].life # "gone"
        /\ UNCHANGED <<born, saved, enabled>>
    BY <1>0, <1>6, LiveHandle DEF UiCancel, IsWindow
  <2>2. Others(d) /\ SameKind(d) /\ SameData(d) BY <1>0, <2>1, EndFacts
  <2>3. Gentle BY <2>1, <2>2 DEF Gentle, Others, SameKind, SameData
  <2> QED BY <1>1, <2>3
<1>7. CASE UiDestroy
  <2>1. PICK h \in Windows : win' = [win EXCEPT ![h].life = "gone"] BY <1>7 DEF UiDestroy
  <2>2. Others(h) /\ SameKind(h) /\ SameData(h) /\ win'[h].life = "gone"
    BY <1>0, <2>1, DestroyFacts
  <2>3. Gentle BY <1>7, <2>2 DEF UiDestroy, Gentle, Others, SameKind, SameData
  <2> QED BY <1>1, <2>3
<1>8. CASE UserEsc
  <2>1. PICK h \in Windows : win[h].life = "open" /\ win' = EndDialog(h) BY <1>8 DEF UserEsc
  <2>2. Others(h) /\ SameKind(h) /\ SameData(h) BY <1>0, <2>1, EndFacts
  <2>3. Gentle BY <1>8, <2>1, <2>2 DEF UserEsc, Gentle, Others, SameKind, SameData
  <2> QED BY <1>1, <2>3
<1>9. CASE UiDrop \/ UiStall \/ UiResume
  BY <1>1, <1>9 DEF UiDrop, UiStall, UiResume, Gentle
<1> QED BY <1>2, <1>3, <1>4, <1>5, <1>6, <1>7, <1>8, <1>9 DEF UiNext

LEMMA AdditivePump == TypeInv /\ Pump => Gentle
<1> SUFFICES ASSUME TypeInv, Pump PROVE Gentle
  OBVIOUS
<1>0. win \in [Windows -> Window] /\ Found BY DEF TypeInv, Data
<1>1. CASE UNCHANGED uiVars BY <1>1 DEF Gentle, uiVars
<1>2. CASE UNCHANGED <<born, win, saved, enabled>> BY <1>2 DEF Gentle
<1>3. CASE PostOpen \/ ClickAdd \/ ClickIntervalOk \/ ClickIntervalCancel \/ ClickOk \/ ClickCancel
  BY <1>1, <1>2, <1>3 DEF PostOpen, ClickAdd, ClickIntervalOk, ClickIntervalCancel, ClickOk,
     ClickCancel, PostMessage, PostMessageFails
<1>4. CASE EnsureSkipEnabled
  <2>1. CASE UNCHANGED win BY <1>2, <1>4, <2>1 DEF EnsureSkipEnabled
  <2>2. CASE ~UNCHANGED win
    <3>1. dialog \in Windows /\ win' = [win EXCEPT ![dialog].checked = TRUE]
      BY <1>0, <1>4, <2>2, LiveHandle DEF EnsureSkipEnabled, Found
    <3> QED BY <1>0, <1>4, <3>1, CheckFacts DEF EnsureSkipEnabled, Gentle, Others, SameKind
  <2> QED BY <2>1, <2>2
<1>5. CASE FillInterval
  <2>1. CASE UNCHANGED win BY <1>2, <1>5, <2>1 DEF FillInterval
  <2>2. CASE ~UNCHANGED win
    <3>1. interval \in Windows BY <1>0, <1>5, <2>2, LiveHandle DEF FillInterval, Found
    <3>2. PICK e \in {range, Mangled} : win' = [win EXCEPT ![interval].field = e]
      BY <1>5, <2>2 DEF FillInterval
    <3>3. e \in Entry BY <1>0, <3>2 DEF Found, Entry
    <3> QED BY <1>0, <1>5, <3>1, <3>2, <3>3, FieldFacts DEF FillInterval, Gentle, Others, SameKind
  <2> QED BY <2>1, <2>2
<1>6. CASE OpenDialog /\ ~PostOpen
  BY <1>1, <1>6 DEF OpenDialog, ArmHook, AwaitCapture, FindAndParkFallback, Unhook,
     ResolveSkipSetupControls
<1>7. CASE AddRange /\ ~(EnsureSkipEnabled \/ FillInterval \/ ClickAdd \/ ClickIntervalOk \/ ClickIntervalCancel)
  BY <1>1, <1>7 DEF AddRange, ReadItemCount, WaitForSkipIntervalSetup,
     ResolveSkipIntervalControls, VerifySkipIntervalReadback, AwaitIntervalOk,
     AwaitIntervalCancel, VerifyItemCount
<1>8. CASE AwaitOk \/ AwaitCancel \/ Return BY <1>1, <1>8 DEF AwaitOk, AwaitCancel, Return
<1> QED BY <1>3, <1>4, <1>5, <1>6, <1>7, <1>8 DEF Pump, CloseDialog, AddRange, OpenDialog

LEMMA AdditiveStep ==
    ASSUME NoSecondDialog PROVE TypeInv /\ Additive /\ [Next]_vars => Additive' /\ [OnlyGrows]_vars
<1> SUFFICES ASSUME TypeInv, Additive, [Next]_vars PROVE Additive' /\ [OnlyGrows]_vars
  OBVIOUS
<1>1. CASE Ui BY <1>1, AdditiveUi DEF Ui
<1>2. Gentle => Additive' /\ OnlyGrows
  BY GentleKeeps, PrefixOfSelf DEF TypeInv, Data, Gentle, OnlyGrows
<1>3. CASE Pump BY <1>2, <1>3, AdditivePump
<1>4. CASE UNCHANGED uiVars
  <2>1. Gentle BY <1>4 DEF uiVars, Gentle
  <2> QED BY <1>2, <2>1
<1>5. CASE StartSelfCheck BY <1>4, <1>5 DEF StartSelfCheck, Begin
<1>6. ASSUME NEW r \in Ranges, StartCommit(r) PROVE Additive' /\ [OnlyGrows]_vars
  <2>1. UNCHANGED uiVars BY <1>6 DEF StartCommit, Begin
  <2> QED BY <1>4, <2>1
<1>7. CASE UNCHANGED vars BY <1>4, <1>7 DEF vars
<1> QED BY <1>1, <1>3, <1>5, <1>6, <1>7 DEF Next

\* AddFileSpecificSkipRange is purely additive (skip_setup.hpp:190), with every
\* other fault that may happen, as long as PotPlayer shows one Skip Setup at a
\* time: with two, the last OK would win.
THEOREM ListOnlyGrows == ASSUME NoSecondDialog PROVE Spec => PurelyAdditive
<1>1. Init => Additive
  BY DEF Init, UiInit, Additive, OneSetup, CopyAhead, IsKind, IsWindow
<1> QED BY <1>1, AdditiveStep, TypeInductive, PTL DEF Spec, PurelyAdditive

-----------------------------------------------------------------------------
(***************************************************************************)
(* A call that starts quietly and meets no missed deadline is alone with    *)
(* PotPlayer.  Timely says, for each step of the pump thread, which of the   *)
(* few scenes the UI thread can be in: no dialog, Skip Setup alone, or Skip  *)
(* Setup with the one Skip Interval Setup it opened, and at most one         *)
(* message on its way.  Only Esc, which no deadline notices, breaks it.      *)
(***************************************************************************)
Msg(h, c) == [to |-> h, cmd |-> c]
NoWindow == \A h \in Windows : ~IsWindow(h)
Lone(d) == /\ IsKind(d, "setup") /\ \A h \in Windows : IsWindow(h) => h = d
Pair(d, i) == /\ IsKind(d, "setup") /\ IsKind(i, "interval") /\ win[i].owner = d
              /\ win[d].life = "open"
              /\ \A h \in Windows : IsWindow(h) => h \in {d, i}

\* Skip Setup open, with nothing on its way to it and a copy r of the list.
Ready(d, r) == queue = <<>> /\ Lone(d) /\ win[d].life = "open" /\ win[d].rows = r
\* Skip Setup with a message on its way, and after it was dispatched.
Told(d, c) == queue = <<Msg(d, c)>> /\ Lone(d) /\ win[d].life = "open"
Ended(d) == queue = <<>> /\ Lone(d) /\ win[d].life = "ended"
\* The same with Skip Interval Setup in front of it.
Filling(d, i) == queue = <<>> /\ Pair(d, i) /\ win[i].life = "open" /\ win[d].rows = before
ToldInner(d, i, c) == queue = <<Msg(i, c)>> /\ Pair(d, i) /\ win[i].life = "open" /\ win[d].rows = before
EndedInner(d, i, r) == queue = <<>> /\ Pair(d, i) /\ win[i].life = "ended" /\ win[d].rows = r

Longer == Append(before, range)
Ticked == job = "commit" /\ AutoEnable => win[dialog].checked
Counted == job = "commit" => countBefore = Len(before)

Opening ==
    /\ pc \in {"open", "post"} => Quiet /\ (pc = "post" => captured = Main /\ dialog = Main)
    /\ pc \in {"capture", "fallback", "unhook"} =>
         \/ /\ queue = <<Msg(Main, "open")>> /\ NoWindow
            /\ dialog = Main /\ captured = Main
         \/ \E d \in Windows : Ready(d, before) /\ dialog \in {Main, d} /\ captured \in {Main, d}
    /\ pc \in {"resolve", "enable", "count", "add"} => Ready(dialog, before)
Adding ==
    /\ pc = "awaitInterval" => \/ Told(dialog, "add") /\ win[dialog].rows = before
                               \/ \E i \in Windows : Filling(dialog, i)
    /\ pc \in {"resolveInterval", "fill", "verify", "intervalOk", "intervalCancel"} =>
         Filling(dialog, interval)
    /\ pc = "intervalOk" => win[interval].field = range
    /\ pc = "intervalOkWait" => \/ ToldInner(dialog, interval, "ok") /\ win[interval].field = range
                                \/ EndedInner(dialog, interval, Longer)
                                \/ Ready(dialog, Longer)
    /\ pc = "intervalCancelWait" => \/ ToldInner(dialog, interval, "cancel")
                                    \/ EndedInner(dialog, interval, before)
                                    \/ Ready(dialog, before)
    /\ pc \in {"recount", "ok"} => Ready(dialog, Longer)
Saving ==
    /\ pc = "okWait" => \/ Told(dialog, "ok") /\ win[dialog].rows = Longer /\ saved = before
                        \/ /\ Ended(dialog) \/ Quiet
                           /\ saved = Longer /\ (AutoEnable => enabled)
    /\ pc = "cancel" => Ready(dialog, before)
    /\ pc = "cancelWait" => Told(dialog, "cancel") \/ Ended(dialog) \/ Quiet
    /\ pc = "return" => /\ queue = <<>> /\ (build["setup"] => Quiet)
                        /\ saved = IF ok /\ job = "commit" THEN Longer ELSE before
                        /\ ok /\ job = "commit" /\ AutoEnable => enabled
    /\ pc = "idle" => queue = <<>>
Kept ==
    /\ pc \notin {"idle", "okWait", "return"} => saved = before
    /\ pc \notin {"idle", "open", "post", "capture", "fallback", "unhook", "resolve", "return"} =>
         build["setup"]
    /\ pc \in {"count", "add", "awaitInterval", "resolveInterval", "fill", "verify", "intervalOk",
               "intervalOkWait", "recount", "ok"} => Ticked
    /\ pc = "okWait" /\ queue # <<>> => Ticked
    /\ pc \in {"add", "awaitInterval", "resolveInterval", "fill", "verify", "intervalOk",
               "intervalOkWait", "recount"} => Counted
Timely == timely => Opening /\ Adding /\ Saving /\ Kept

\* Before an answer is in sight the verdict is still "yes"; on its way out through
\* a Cancel a commit has failed.
OnTheWay == /\ pc \notin Closing \cup {"idle"} => ok
            /\ pc \in Closing \ {"return"} /\ job = "commit" => ~ok

NoEsc == "esc" \notin Faults
Still == UNCHANGED <<queue, born, win, saved, enabled>>
Typing == /\ win \in [Windows -> Window] /\ born \in Handles /\ queue \in Seq(Message)
          /\ saved \in Seq(Entry) /\ enabled \in BOOLEAN
          /\ Main \notin Windows /\ Main \in Handles /\ Windows \subseteq Handles

LEMMA TypingFacts == TypeInv => Typing
BY UiAssumption DEF TypeInv, Data, Found, Flags, Typing, Main, Windows, Handles

\* With nothing posted and no dialog about to go, PotPlayer does nothing.
LEMMA NothingToDo ==
    ASSUME NoEsc, Typing, queue = <<>>, UiNext,
           \A h \in Windows : IsWindow(h) => win[h].life = "open"
    PROVE  Still
<1>1. \A h \in Windows : IsInnermost(h) => win[h].life = "open" BY DEF IsInnermost, Typing
<1>2. CASE UiDestroy BY <1>1, <1>2 DEF UiDestroy
<1>3. CASE UiStall \/ UiResume BY <1>3 DEF UiStall, UiResume, Still
<1> QED BY <1>2, <1>3 DEF UiNext, NoEsc, UserEsc, Dispatch, UiOpenSkipSetup, UiAdd, UiIntervalOk,
   UiSetupOk, UiCancel, UiDrop

\* With nothing posted and one dialog ended, that dialog is destroyed or nothing is done.
LEMMA OnlyDestroy ==
    ASSUME NoEsc, Typing, queue = <<>>, UiNext, NEW h \in Windows,
           \A g \in Windows : IsWindow(g) /\ win[g].life = "ended" => g = h
    PROVE  \/ Still
           \/ win' = [win EXCEPT ![h].life = "gone"] /\ UNCHANGED <<queue, born, saved, enabled>>
<1>2. CASE UiDestroy
  <2>1. PICK g \in Windows : /\ IsInnermost(g) /\ win[g].life = "ended"
                             /\ win' = [win EXCEPT ![g].life = "gone"]
    BY <1>2 DEF UiDestroy
  <2>2. g = h BY <2>1 DEF IsInnermost, Typing
  <2> QED BY <1>2, <2>1, <2>2 DEF UiDestroy
<1>3. CASE UiStall \/ UiResume BY <1>3 DEF UiStall, UiResume, Still
<1> QED BY <1>2, <1>3 DEF UiNext, NoEsc, UserEsc, Dispatch, UiOpenSkipSetup, UiAdd, UiIntervalOk,
   UiSetupOk, UiCancel, UiDrop

\* With one message posted and every dialog open, it is dispatched or nothing is done.
LEMMA OneMessage ==
    ASSUME NoEsc, Typing, NEW h, NEW c, queue = <<Msg(h, c)>>, UiNext,
           \A g \in Windows : IsWindow(g) => win[g].life = "open"
    PROVE  \/ Still
           \/ /\ queue' = <<>> /\ Head(queue).to = h /\ Head(queue).cmd = c
              /\ \/ c = "open" /\ UiOpenSkipSetup
                 \/ c = "add" /\ (UiAdd \/ UiDrop)
                 \/ c = "ok" /\ (UiIntervalOk \/ UiSetupOk \/ UiDrop)
                 \/ c = "cancel" /\ (UiCancel \/ UiDrop)
<1>1. \A g \in Windows : IsInnermost(g) => win[g].life = "open" BY DEF IsInnermost, Typing
<1>2. Head(queue) = Msg(h, c) /\ Tail(queue) = <<>> BY DEF Typing
<1>3. Head(queue).to = h /\ Head(queue).cmd = c BY <1>2 DEF Msg
<1>4. CASE UiDestroy BY <1>1, <1>4 DEF UiDestroy
<1>5. CASE UiStall \/ UiResume BY <1>5 DEF UiStall, UiResume, Still
<1>6. CASE UiOpenSkipSetup BY <1>2, <1>3, <1>6 DEF UiOpenSkipSetup, Dispatch
<1>7. CASE UiAdd BY <1>2, <1>3, <1>7 DEF UiAdd, Dispatch
<1>8. CASE UiIntervalOk BY <1>2, <1>3, <1>8 DEF UiIntervalOk, Dispatch
<1>9. CASE UiSetupOk BY <1>2, <1>3, <1>9 DEF UiSetupOk, Dispatch
<1>10. CASE UiCancel BY <1>2, <1>3, <1>10 DEF UiCancel, Dispatch
<1>11. CASE UiDrop
  <2>1. queue' = <<>> /\ c \in {"add", "ok", "cancel"} BY <1>2, <1>3, <1>11 DEF UiDrop, Dispatch
  <2> QED BY <1>3, <1>11, <2>1
<1> QED BY <1>4, <1>5, <1>6, <1>7, <1>8, <1>9, <1>10, <1>11 DEF UiNext, NoEsc, UserEsc

\* The scenes, one after the other.
LEMMA QuietUi == ASSUME NoEsc, Typing, Quiet, UiNext PROVE Still
BY NothingToDo DEF Quiet

LEMMA ReadyUi == ASSUME NoEsc, Typing, NEW d \in Windows, NEW r, Ready(d, r), UiNext PROVE Still
BY NothingToDo DEF Ready, Lone

LEMMA FillingUi ==
    ASSUME NoEsc, Typing, NEW d \in Windows, NEW i \in Windows, Filling(d, i), UiNext
    PROVE  Still
BY NothingToDo DEF Filling, Pair

\* A dialog that is created is the innermost window and open.
LEMMA Appears ==
    ASSUME Typing, NEW w \in Window, w.life = "open", Create(w)
    PROVE  \E d \in Windows :
              /\ d = born + 1 /\ win'[d] = w /\ Others(d) /\ IsWindow(d)'
              /\ \A h \in Windows \ {d} : IsWindow(h)' <=> IsWindow(h)
<1>1. born' = born + 1 /\ born' \in Windows /\ win'[born'] = w /\ Others(born')
  BY CreateFacts DEF Typing
<1>2. PICK d \in Windows : d = born' BY <1>1
<1>3. \A h \in Windows \ {d} : IsWindow(h)' <=> IsWindow(h)
  BY <1>1, <1>2 DEF IsWindow, Others, Typing, Handles, Windows
<1>4. IsWindow(d)' BY <1>1, <1>2 DEF IsWindow, Typing, Handles, Windows
<1> QED BY <1>1, <1>2, <1>3, <1>4

LEMMA OpeningUi ==
    ASSUME NoEsc, Typing, queue = <<Msg(Main, "open")>>, NoWindow, saved = before,
           UNCHANGED before, UiNext
    PROVE  Still \/ \E d \in Windows : Ready(d, before)' /\ saved' = saved
<1> SUFFICES ASSUME ~Still PROVE \E d \in Windows : Ready(d, before)' /\ saved' = saved
  OBVIOUS
<1>1. UiOpenSkipSetup /\ queue' = <<>>
  BY OneMessage DEF NoWindow
<1> DEFINE w == [kind |-> "setup", life |-> "open", owner |-> Main,
                 rows |-> saved, checked |-> enabled, field |-> Probe]
<1>2. ~MayIgnore("setup") BY DEF MayIgnore, NoWindow, IsKind
<1>3. Create(w) /\ saved' = saved BY <1>1, <1>2 DEF UiOpenSkipSetup
<1>4. w \in Window
  <2>1. Probe \in Entry BY DEF Entry
  <2> QED BY <2>1, WindowParts DEF Typing
<1>5. PICK d \in Windows : /\ win'[d] = w /\ IsWindow(d)'
                           /\ \A h \in Windows \ {d} : IsWindow(h)' <=> IsWindow(h)
  BY <1>3, <1>4, Appears
<1> QED BY <1>1, <1>3, <1>5 DEF Ready, Lone, IsKind, NoWindow

LEMMA AddingUi ==
    ASSUME NoEsc, Typing, NEW d \in Windows, Told(d, "add"), win[d].rows = before,
           UNCHANGED before, UiNext
    PROVE  \/ Still
           \/ /\ \E i \in Windows : Filling(d, i)'
              /\ UNCHANGED <<saved, enabled>> /\ win'[d] = win[d]
<1> SUFFICES ASSUME ~Still
             PROVE  /\ \E i \in Windows : Filling(d, i)'
                    /\ UNCHANGED <<saved, enabled>> /\ win'[d] = win[d]
  OBVIOUS
<1> USE DEF Told, Lone
<1>1. Head(queue).to = d /\ IsWindow(d) /\ queue' = <<>> /\ (UiAdd \/ UiDrop)
  BY OneMessage DEF IsKind
<1>2. UiAdd BY <1>1 DEF UiDrop
<1> DEFINE w == [kind |-> "interval", life |-> "open", owner |-> d,
                 rows |-> <<>>, checked |-> FALSE, field |-> Probe]
<1>3. ~MayIgnore("interval") BY DEF MayIgnore, IsKind
<1>4. Create(w) /\ UNCHANGED <<saved, enabled>> BY <1>1, <1>2, <1>3 DEF UiAdd
<1>5. w \in Window
  <2>1. Probe \in Entry /\ <<>> \in Seq(Entry) BY DEF Entry
  <2> QED BY <2>1, WindowParts DEF Typing
<1>6. PICK i \in Windows : /\ i = born + 1 /\ win'[i] = w /\ Others(i) /\ IsWindow(i)'
                           /\ \A h \in Windows \ {i} : IsWindow(h)' <=> IsWindow(h)
  BY <1>4, <1>5, Appears
<1>7. d # i BY <1>1, <1>6 DEF IsWindow, Typing, Handles
<1>8. win'[d] = win[d] /\ IsKind(d, "setup")' BY <1>6, <1>7 DEF Others, IsKind
<1>9. IsKind(i, "interval")' /\ (win[i].owner = d)' /\ (win[i].life = "open")'
  BY <1>6 DEF IsKind
<1> QED BY <1>1, <1>4, <1>6, <1>8, <1>9 DEF Filling, Pair

LEMMA InnerOkUi ==
    ASSUME NoEsc, Typing, NEW d \in Windows, NEW i \in Windows, ToldInner(d, i, "ok"),
           UNCHANGED before, UiNext
    PROVE  \/ Still
           \/ /\ EndedInner(d, i, Append(before, win[i].field))' /\ win'[i].field = win[i].field
              /\ UNCHANGED <<saved, enabled>> /\ win'[d].checked = win[d].checked
<1> SUFFICES ASSUME ~Still
             PROVE  /\ EndedInner(d, i, Append(before, win[i].field))' /\ win'[i].field = win[i].field
                    /\ UNCHANGED <<saved, enabled>> /\ win'[d].checked = win[d].checked
  OBVIOUS
<1> USE DEF ToldInner, Pair
<1>1. Head(queue).to = i /\ queue' = <<>> /\ (UiIntervalOk \/ UiSetupOk \/ UiDrop)
  BY OneMessage
<1>2. UiIntervalOk BY <1>1 DEF UiSetupOk, UiDrop, IsKind
<1>3. /\ UNCHANGED <<born, saved, enabled>>
      /\ win' = [EndDialog(i) EXCEPT ![win[i].owner].rows = Append(@, win[i].field)]
  BY <1>1, <1>2 DEF UiIntervalOk
<1>4. ASSUME NEW g \in Windows
      PROVE  /\ SameKind(g) /\ win'[g].checked = win[g].checked /\ win'[g].field = win[g].field
             /\ win'[g].life = IF g = i THEN "ended" ELSE win[g].life
             /\ win'[g].rows = IF g = d THEN Append(win[g].rows, win[i].field) ELSE win[g].rows
  <2> HIDE DEF ToldInner, Pair
  <2>1. win \in [Windows -> Window] BY DEF Typing
  <2>2. /\ SameKind(g) /\ win'[g].checked = win[g].checked /\ win'[g].field = win[g].field
        /\ win'[g].life = IF g = i THEN "ended" ELSE win[g].life
        /\ win'[g].rows = IF g = win[i].owner THEN Append(win[g].rows, win[i].field)
                          ELSE win[g].rows
    BY <1>3, <2>1, RowFacts
  <2>3. win[i].owner = d BY DEF ToldInner, Pair
  <2> QED BY <2>2, <2>3
<1>5. d # i BY DEF IsKind
<1>6. \A h \in Windows : IsWindow(h)' <=> IsWindow(h) BY <1>3, <1>4 DEF IsWindow, IsKind
<1>7. Pair(d, i)' /\ win'[i].life = "ended" /\ win'[d].rows = Append(before, win[i].field)
      /\ win'[i].field = win[i].field
  BY <1>4, <1>5, <1>6 DEF IsKind, SameKind
<1> QED BY <1>1, <1>3, <1>4, <1>7 DEF EndedInner

LEMMA InnerCancelUi ==
    ASSUME NoEsc, Typing, NEW d \in Windows, NEW i \in Windows, ToldInner(d, i, "cancel"),
           UNCHANGED before, UiNext
    PROVE  Still \/ (EndedInner(d, i, before)' /\ UNCHANGED <<saved, enabled>>)
<1> SUFFICES ASSUME ~Still PROVE EndedInner(d, i, before)' /\ UNCHANGED <<saved, enabled>>
  OBVIOUS
<1> USE DEF ToldInner, Pair
<1>1. Head(queue).to = i /\ queue' = <<>> /\ (UiCancel \/ UiDrop)
  BY OneMessage
<1>2. UNCHANGED <<born, saved, enabled>> /\ win' = EndDialog(i)
  BY <1>1 DEF UiCancel, UiDrop, IsKind
<1>3. Others(i) /\ SameKind(i) /\ SameData(i) /\ win'[i].life = "ended"
  BY <1>2, EndFacts DEF Typing
<1>4. d # i BY DEF IsKind
<1>5. \A h \in Windows : IsWindow(h)' <=> IsWindow(h)
  BY <1>2, <1>3 DEF IsWindow, IsKind, Others
<1>6. Pair(d, i)' /\ win'[d].rows = before
  BY <1>3, <1>4, <1>5 DEF IsKind, SameKind, Others
<1> QED BY <1>1, <1>2, <1>3, <1>6 DEF EndedInner

LEMMA EndedInnerUi ==
    ASSUME NoEsc, Typing, NEW d \in Windows, NEW i \in Windows, NEW r, EndedInner(d, i, r), UiNext
    PROVE  \/ Still
           \/ /\ queue' = <<>> /\ Lone(d)' /\ win'[d] = win[d] /\ UNCHANGED <<saved, enabled>>
<1> USE DEF EndedInner, Pair
<1> SUFFICES ASSUME ~Still
             PROVE queue' = <<>> /\ Lone(d)' /\ win'[d] = win[d] /\ UNCHANGED <<saved, enabled>>
  OBVIOUS
<1>1. win' = [win EXCEPT ![i].life = "gone"] /\ UNCHANGED <<queue, born, saved, enabled>>
  BY OnlyDestroy DEF IsKind
<1>2. Others(i) /\ win'[i].life = "gone" BY <1>1, DestroyFacts DEF Typing
<1>3. d # i BY DEF IsKind
<1> QED BY <1>1, <1>2, <1>3 DEF Lone, IsKind, IsWindow, Others

LEMMA OkUi ==
    ASSUME NoEsc, Typing, NEW d \in Windows, Told(d, "ok"), UiNext
    PROVE  Still \/ (Ended(d)' /\ saved' = win[d].rows /\ enabled' = win[d].checked)
<1> USE DEF Told, Lone
<1> SUFFICES ASSUME ~Still PROVE Ended(d)' /\ saved' = win[d].rows /\ enabled' = win[d].checked
  OBVIOUS
<1>1. Head(queue).to = d /\ queue' = <<>> /\ (UiIntervalOk \/ UiSetupOk \/ UiDrop)
  BY OneMessage
<1>2. UiSetupOk BY <1>1 DEF UiIntervalOk, UiDrop, IsKind
<1>3. /\ win' = EndDialog(d) /\ saved' = win[d].rows /\ enabled' = win[d].checked
      /\ born' = born
  BY <1>1, <1>2 DEF UiSetupOk
<1>4. Others(d) /\ SameKind(d) /\ win'[d].life = "ended" BY <1>3, EndFacts DEF Typing
<1> QED BY <1>1, <1>3, <1>4 DEF Ended, IsKind, IsWindow, Others, SameKind

LEMMA CancelUi ==
    ASSUME NoEsc, Typing, NEW d \in Windows, Told(d, "cancel"), UiNext
    PROVE  Still \/ (Ended(d)' /\ UNCHANGED <<saved, enabled>>)
<1> USE DEF Told, Lone
<1> SUFFICES ASSUME ~Still PROVE Ended(d)' /\ UNCHANGED <<saved, enabled>>
  OBVIOUS
<1>1. Head(queue).to = d /\ queue' = <<>> /\ (UiCancel \/ UiDrop)
  BY OneMessage
<1>2. UNCHANGED <<born, saved, enabled>> /\ win' = EndDialog(d)
  BY <1>1 DEF UiCancel, UiDrop, IsKind
<1>3. Others(d) /\ SameKind(d) /\ win'[d].life = "ended" BY <1>2, EndFacts DEF Typing
<1> QED BY <1>1, <1>2, <1>3 DEF Ended, IsKind, IsWindow, Others, SameKind

LEMMA EndedUi ==
    ASSUME NoEsc, Typing, NEW d \in Windows, Ended(d), UiNext
    PROVE  Still \/ (Quiet' /\ UNCHANGED <<saved, enabled>>)
<1> USE DEF Ended, Lone
<1> SUFFICES ASSUME ~Still PROVE Quiet' /\ UNCHANGED <<saved, enabled>>
  OBVIOUS
<1>1. win' = [win EXCEPT ![d].life = "gone"] /\ UNCHANGED <<queue, born, saved, enabled>>
  BY OnlyDestroy
<1>2. Others(d) /\ win'[d].life = "gone" BY <1>1, DestroyFacts DEF Typing
<1> QED BY <1>1, <1>2 DEF Quiet, IsWindow, Others

\* If PotPlayer does nothing, the hook is not called.
LEMMA StillCaptures == ASSUME Still, CbtHookProc PROVE captured' = captured
BY DEF Still, CbtHookProc, Activated, IsInnermost, IsWindow

LEMMA StillTimely ==
    ASSUME Timely, Still, CbtHookProc, UNCHANGED <<callVars, foundVars, progress>>
    PROVE  Timely'
<1>1. UNCHANGED <<queue, born, win, saved, enabled, captured, build, job, range, before, dialog,
                  interval, countBefore, pc, ok, timely>>
  BY StillCaptures DEF Still, callVars, foundVars, progress
<1> QED BY <1>1 DEF Timely, Opening, Adding, Saving, Kept, Quiet, NoWindow, Ready, Told, Ended,
   Filling, ToldInner, EndedInner, Lone, Pair, IsKind, IsWindow, Ticked, Counted, Longer, Msg

\* With nothing posted nothing is saved.
LEMMA NothingSaved == ASSUME queue = <<>>, UiNext PROVE UNCHANGED <<queue, saved, enabled>>
BY DEF UiNext, Dispatch, UiOpenSkipSetup, UiAdd, UiIntervalOk, UiSetupOk, UiCancel, UiDrop,
   UiDestroy, UserEsc, UiStall, UiResume

\* The UI thread takes a timely call from one scene to the next.
LEMMA TimelyUi ==
    ASSUME NoEsc, TypeInv, CheckPath, Timely, Ui
    PROVE  Timely'
<1> SUFFICES ASSUME timely, ~Still PROVE Timely'
  BY StillTimely DEF Ui, Timely, progress
<1>0. /\ UiNext /\ CbtHookProc
      /\ UNCHANGED <<build, job, range, before, dialog, interval, countBefore, pc, ok, timely>>
  BY DEF Ui, callVars, foundVars, progress
<1>1. Typing BY TypingFacts
<1>2. Opening /\ Adding /\ Saving /\ Kept BY DEF Timely
<1>3. ASSUME NEW h, IsWindow(h) PROVE h \in Windows
  BY <1>3, LiveHandle DEF TypeInv, Found
<1>4. pc \in Labels BY DEF TypeInv, Control
<1> USE DEF Timely, Longer
<1>5. CASE pc \in {"open", "post"}
  <2>1. Quiet BY <1>2, <1>5 DEF Opening
  <2> QED BY <1>0, <1>1, <2>1, QuietUi
<1>6. CASE pc \in {"capture", "fallback", "unhook"}
  <2>1. ASSUME NEW d \in Windows, Ready(d, before) PROVE FALSE
    BY <1>0, <1>1, <2>1, ReadyUi
  <2>2. queue = <<Msg(Main, "open")>> /\ NoWindow /\ dialog = Main /\ captured = Main /\ saved = before
    BY <1>2, <1>6, <2>1 DEF Opening, Kept
  <2>3. PICK d \in Windows : Ready(d, before)' /\ saved' = saved
    BY <1>0, <1>1, <2>2, OpeningUi
  <2>4. captured' \in {Main, d} BY <1>0, <2>2, <2>3 DEF CbtHookProc, Activated, Ready, Lone, IsKind
  <2> QED BY <1>0, <1>6, <2>2, <2>3, <2>4 DEF Opening, Adding, Saving, Kept
<1>7. CASE pc \in {"resolve", "enable", "count", "add", "cancel", "recount", "ok"}
  <2>1. Ready(dialog, before) \/ Ready(dialog, Longer)
    BY <1>2, <1>7 DEF Opening, Adding, Saving
  <2>2. dialog \in Windows BY <1>3, <2>1 DEF Ready, Lone, IsKind
  <2> QED BY <1>0, <1>1, <2>1, <2>2, ReadyUi
<1>8. CASE pc = "awaitInterval"
  <2>1. dialog \in Windows
    BY <1>2, <1>3, <1>8 DEF Adding, Told, Lone, Filling, Pair, IsKind
  <2>2. ASSUME NEW i \in Windows, Filling(dialog, i) PROVE FALSE
    BY <1>0, <1>1, <2>1, <2>2, FillingUi
  <2>3. Told(dialog, "add") /\ win[dialog].rows = before BY <1>2, <1>8, <2>2 DEF Adding
  <2>4. /\ \E i \in Windows : Filling(dialog, i)'
        /\ UNCHANGED <<saved, enabled>> /\ win'[dialog] = win[dialog]
    <3>1. PICK d \in Windows : d = dialog BY <2>1
    <3>2. /\ \E i \in Windows : Filling(d, i)'
          /\ UNCHANGED <<saved, enabled>> /\ win'[d] = win[d]
      BY <1>0, <1>1, <2>3, <3>1, AddingUi
    <3> QED BY <1>0, <3>1, <3>2 DEF Filling, Pair, IsKind, IsWindow
  <2> QED BY <1>0, <1>2, <1>8, <2>4 DEF Opening, Adding, Saving, Kept, Ticked, Counted
<1>9. CASE pc \in {"resolveInterval", "fill", "verify", "intervalOk", "intervalCancel"}
  <2>1. Filling(dialog, interval) BY <1>2, <1>9 DEF Adding
  <2>2. dialog \in Windows /\ interval \in Windows BY <1>3, <2>1 DEF Filling, Pair, IsKind
  <2> QED BY <1>0, <1>1, <2>1, <2>2, FillingUi
<1>10. CASE pc = "intervalOkWait"
  <2>1. PICK d, i : d \in Windows /\ d = dialog /\ i = interval
    BY <1>2, <1>3, <1>10 DEF Adding, ToldInner, EndedInner, Pair, Ready, Lone, IsKind
  <2> USE DEF Adding
  <2>2. ~Ready(dialog, Longer) BY <1>0, <1>1, <2>1, ReadyUi
  <2>3. i \in Windows BY <1>2, <1>3, <1>10, <2>1, <2>2 DEF ToldInner, EndedInner, Pair, IsKind
  <2>4. CASE ToldInner(dialog, interval, "ok") /\ win[interval].field = range
    <3>1. /\ EndedInner(d, i, Append(before, win[i].field))' /\ win'[i].field = win[i].field
          /\ UNCHANGED <<saved, enabled>> /\ win'[d].checked = win[d].checked
      BY <1>0, <1>1, <2>1, <2>3, <2>4, InnerOkUi
    <3>2. EndedInner(dialog, interval, Longer)'
      BY <1>0, <2>1, <2>4, <3>1 DEF EndedInner, Pair, IsKind, IsWindow
    <3> QED BY <1>0, <1>2, <1>10, <2>1, <3>1, <3>2 DEF Opening, Saving, Kept, Ticked, Counted
  <2>5. CASE EndedInner(dialog, interval, Longer)
    <3>1. /\ queue' = <<>> /\ Lone(d)' /\ win'[d] = win[d] /\ UNCHANGED <<saved, enabled>>
      BY <1>0, <1>1, <2>1, <2>3, <2>5, EndedInnerUi
    <3>2. Ready(dialog, Longer)'
      BY <1>0, <2>1, <2>5, <3>1 DEF Ready, Lone, EndedInner, Pair, IsKind, IsWindow
    <3> QED BY <1>0, <1>2, <1>10, <2>1, <3>1, <3>2 DEF Opening, Saving, Kept, Ticked, Counted
  <2> QED BY <1>2, <1>10, <2>2, <2>4, <2>5
<1>11. CASE pc = "intervalCancelWait"
  <2>1. PICK d, i : d \in Windows /\ d = dialog /\ i = interval
    BY <1>2, <1>3, <1>11 DEF Adding, ToldInner, EndedInner, Pair, Ready, Lone, IsKind
  <2> USE DEF Adding
  <2>2. ~Ready(dialog, before) BY <1>0, <1>1, <2>1, ReadyUi
  <2>3. i \in Windows BY <1>2, <1>3, <1>11, <2>1, <2>2 DEF ToldInner, EndedInner, Pair, IsKind
  <2>4. CASE ToldInner(dialog, interval, "cancel")
    <3>1. EndedInner(d, i, before)' /\ UNCHANGED <<saved, enabled>>
      BY <1>0, <1>1, <2>1, <2>3, <2>4, InnerCancelUi
    <3>2. EndedInner(dialog, interval, before)'
      BY <1>0, <2>1, <3>1 DEF EndedInner, Pair, IsKind, IsWindow
    <3> QED BY <1>0, <1>2, <1>11, <2>1, <3>1, <3>2 DEF Opening, Saving, Kept
  <2>5. CASE EndedInner(dialog, interval, before)
    <3>1. /\ queue' = <<>> /\ Lone(d)' /\ win'[d] = win[d] /\ UNCHANGED <<saved, enabled>>
      BY <1>0, <1>1, <2>1, <2>3, <2>5, EndedInnerUi
    <3>2. Ready(dialog, before)'
      BY <1>0, <2>1, <2>5, <3>1 DEF Ready, Lone, EndedInner, Pair, IsKind, IsWindow
    <3> QED BY <1>0, <1>2, <1>11, <2>1, <3>1, <3>2 DEF Opening, Saving, Kept
  <2> QED BY <1>2, <1>11, <2>2, <2>4, <2>5
<1>12. CASE pc = "okWait"
  <2> USE DEF Saving
  <2>1. ~Quiet BY <1>0, <1>1, QuietUi
  <2>2. PICK d \in Windows : d = dialog
    BY <1>2, <1>3, <1>12, <2>1 DEF Told, Ended, Lone, IsKind
  <2>3. CASE Told(dialog, "ok") /\ win[dialog].rows = Longer /\ saved = before
    <3>1. Ended(d)' /\ saved' = win[d].rows /\ enabled' = win[d].checked
      BY <1>0, <1>1, <2>2, <2>3, OkUi
    <3>2. job = "commit" /\ queue # <<>>
      BY <1>12, <2>3 DEF CheckPath, Committing, Told
    <3>3. AutoEnable => win[dialog].checked BY <1>2, <1>12, <3>2 DEF Kept, Ticked
    <3>4. Ended(dialog)' /\ saved' = Longer /\ (AutoEnable => enabled') /\ queue' = <<>>
      BY <1>0, <2>2, <2>3, <3>1, <3>3 DEF Ended, Lone, IsKind, IsWindow
    <3> QED BY <1>0, <1>2, <1>12, <3>4 DEF Opening, Adding, Kept
  <2>4. CASE Ended(dialog) /\ saved = Longer /\ (AutoEnable => enabled)
    <3>1. Quiet' /\ UNCHANGED <<saved, enabled>> BY <1>0, <1>1, <2>2, <2>4, EndedUi
    <3>2. queue' = <<>> BY <3>1 DEF Quiet
    <3> QED BY <1>0, <1>2, <1>12, <2>4, <3>1, <3>2 DEF Opening, Adding, Kept
  <2> QED BY <1>2, <1>12, <2>1, <2>3, <2>4
<1>13. CASE pc = "cancelWait"
  <2> USE DEF Saving
  <2>1. ~Quiet BY <1>0, <1>1, QuietUi
  <2>2. PICK d \in Windows : d = dialog
    BY <1>2, <1>3, <1>13, <2>1 DEF Told, Ended, Lone, IsKind
  <2>3. CASE Told(dialog, "cancel")
    <3>1. Ended(d)' /\ UNCHANGED <<saved, enabled>> BY <1>0, <1>1, <2>2, <2>3, CancelUi
    <3>2. Ended(dialog)' BY <1>0, <2>2, <3>1 DEF Ended, Lone, IsKind, IsWindow
    <3> QED BY <1>0, <1>2, <1>13, <3>1, <3>2 DEF Opening, Adding, Kept
  <2>4. CASE Ended(dialog)
    <3>1. Quiet' /\ UNCHANGED <<saved, enabled>> BY <1>0, <1>1, <2>2, <2>4, EndedUi
    <3> QED BY <1>0, <1>2, <1>13, <3>1 DEF Opening, Adding, Kept
  <2> QED BY <1>2, <1>13, <2>1, <2>3, <2>4
<1>14. CASE pc \in {"return", "idle"}
  <2>1. queue = <<>> BY <1>2, <1>14 DEF Saving
  <2>2. UNCHANGED <<queue, saved, enabled>> BY <1>0, <2>1, NothingSaved
  <2>3. ~Quiet BY <1>0, <1>1, QuietUi
  <2> QED BY <1>0, <1>2, <1>14, <2>1, <2>2, <2>3 DEF Opening, Adding, Saving, Kept
<1> QED BY <1>4, <1>5, <1>6, <1>7, <1>8, <1>9, <1>10, <1>11, <1>12, <1>13, <1>14 DEF Labels

LEMMA OnTheWayInv == Control /\ CheckPath /\ OnTheWay /\ [Next]_vars => OnTheWay'
<1> SUFFICES ASSUME Control, CheckPath, OnTheWay, [Next]_vars PROVE OnTheWay'
  OBVIOUS
<1> USE DEF OnTheWay, CheckPath, Committing, Closing, Control, callVars, GoOn, Fail, Late, Goto, Begin
<1>1. CASE Ui BY <1>1 DEF Ui, progress
<1>2. CASE OpenDialog
  BY <1>2 DEF OpenDialog, ArmHook, PostOpen, AwaitCapture, FindAndParkFallback, Unhook,
       ResolveSkipSetupControls
<1>3. CASE AddRange
  BY <1>3 DEF AddRange, EnsureSkipEnabled, ReadItemCount, ClickAdd, WaitForSkipIntervalSetup,
       ResolveSkipIntervalControls, FillInterval, VerifySkipIntervalReadback, ClickIntervalOk,
       AwaitIntervalOk, ClickIntervalCancel, AwaitIntervalCancel, VerifyItemCount
<1>4. CASE CloseDialog BY <1>4 DEF CloseDialog, ClickOk, AwaitOk, ClickCancel, AwaitCancel
<1>5. CASE Return BY <1>5 DEF Return
<1>6. CASE StartSelfCheck BY <1>6 DEF StartSelfCheck
<1>7. ASSUME NEW r \in Ranges, StartCommit(r) PROVE OnTheWay' BY <1>7 DEF StartCommit
<1>8. CASE UNCHANGED vars BY <1>8 DEF vars, progress
<1> QED BY <1>1, <1>2, <1>3, <1>4, <1>5, <1>6, <1>7, <1>8 DEF Next, Pump

\* The pump thread's own steps: what it looks at is what the scene says.
LEMMA TimelyOpen ==
    ASSUME TypeInv, CheckPath, OnTheWay, Timely, OpenDialog, timely, timely'
    PROVE  Timely'
<1>0. Typing BY TypingFacts
<1>1. Opening /\ Adding /\ Saving /\ Kept BY DEF Timely
<1> USE DEF Goto, GoOn, Fail, Late, callVars, foundVars, hookVars, uiVars, Timely, Opening, Adding,
        Saving, Kept
<1>2. CASE ArmHook
  <2>1. Quiet /\ saved = before BY <1>1, <1>2 DEF ArmHook
  <2>2. UNCHANGED uiVars /\ dialog' = Main /\ UNCHANGED <<before, build, job, range>>
    BY <1>2 DEF ArmHook
  <2>3. Quiet' BY <2>1, <2>2 DEF Quiet, IsWindow
  <2>4. CASE pc' = "post" /\ captured' = Main BY <2>1, <2>2, <2>3, <2>4
  <2>5. CASE pc' = "return" /\ ~ok' BY <2>1, <2>2, <2>3, <2>5 DEF Quiet
  <2> QED BY <1>2, <2>4, <2>5 DEF ArmHook
<1>3. CASE PostOpen
  <2>1. PostMessage(Main, "open") /\ pc' = "capture" /\ UNCHANGED <<captured, dialog, before>>
    BY <1>3 DEF PostOpen
  <2>2. Quiet /\ saved = before /\ captured = Main /\ dialog = Main BY <1>1, <1>3 DEF PostOpen
  <2>3. queue' = <<Msg(Main, "open")>> /\ NoWindow' /\ saved' = saved
    BY <2>1, <2>2 DEF PostMessage, Quiet, Msg, NoWindow, IsWindow
  <2> QED BY <2>1, <2>2, <2>3
<1>4. CASE AwaitCapture \/ FindAndParkFallback
  <2>1. /\ UNCHANGED uiVars /\ UNCHANGED <<before, captured, build>>
        /\ pc \in {"capture", "fallback"} /\ pc' \in {"fallback", "unhook"}
    BY <1>4 DEF AwaitCapture, FindAndParkFallback
  <2>2. CASE queue = <<Msg(Main, "open")>> /\ NoWindow /\ dialog = Main /\ captured = Main
    <3>1. dialog' = Main BY <1>4, <2>2 DEF AwaitCapture, FindAndParkFallback, NoWindow, IsKind
    <3>2. NoWindow' BY <2>1, <2>2 DEF NoWindow, IsWindow
    <3> QED BY <1>1, <2>1, <2>2, <3>1, <3>2 DEF Msg
  <2>3. ASSUME NEW d \in Windows, Ready(d, before), dialog \in {Main, d}, captured \in {Main, d}
        PROVE  Timely'
    <3>1. dialog' \in {Main, d}
      BY <1>4, <2>3 DEF AwaitCapture, FindAndParkFallback, Ready, Lone, IsKind
    <3>2. Ready(d, before)' BY <2>1, <2>3 DEF Ready, Lone, IsKind, IsWindow
    <3> QED BY <1>1, <2>1, <2>3, <3>1, <3>2
  <2> QED BY <1>1, <2>1, <2>2, <2>3
<1>5. CASE Unhook
  <2>1. /\ UNCHANGED uiVars /\ UNCHANGED <<before, build, dialog>> /\ dialog # Main
        /\ pc = "unhook" /\ pc' = "resolve"
    BY <1>5 DEF Unhook
  <2>2. Ready(dialog, before) /\ saved = before BY <1>1, <2>1
  <2>3. Ready(dialog, before)' BY <2>1, <2>2 DEF Ready, Lone, IsKind, IsWindow
  <2> QED BY <2>1, <2>2, <2>3
<1>6. CASE ResolveSkipSetupControls
  <2>1. /\ UNCHANGED uiVars /\ UNCHANGED <<before, build, dialog, job>> /\ pc = "resolve"
    BY <1>6 DEF ResolveSkipSetupControls
  <2>2. Ready(dialog, before) /\ saved = before BY <1>1, <2>1
  <2>3. Ready(dialog, before)' BY <2>1, <2>2 DEF Ready, Lone, IsKind, IsWindow
  <2>4. CASE build["setup"]
    <3>1. pc' = IF job = "check" THEN "add" ELSE IF AutoEnable THEN "enable" ELSE "count"
      BY <1>6, <2>2, <2>4 DEF ResolveSkipSetupControls, Ready, Lone, IsKind
    <3> QED BY <2>1, <2>2, <2>3, <2>4, <3>1 DEF Ticked, Counted
  <2>5. CASE ~build["setup"]
    <3>1. pc' = "return" /\ ok' = FALSE BY <1>6, <2>5 DEF ResolveSkipSetupControls
    <3> QED BY <2>1, <2>2, <2>5, <3>1 DEF Ready
  <2> QED BY <2>4, <2>5
<1> QED BY <1>2, <1>3, <1>4, <1>5, <1>6 DEF OpenDialog

LEMMA TimelyAdd ==
    ASSUME TypeInv, CheckPath, OnTheWay, Timely, AddRange, timely, timely'
    PROVE  Timely'
<1>0. Typing /\ ok \in BOOLEAN BY TypingFacts DEF TypeInv, Bits
<1>1. Opening /\ Adding /\ Saving /\ Kept BY DEF Timely
<1>2. ASSUME NEW h, IsWindow(h) PROVE h \in Windows
  BY <1>2, LiveHandle DEF TypeInv, Found
<1>3. /\ UNCHANGED <<build, before, job, range, dialog, born, saved>>
      /\ pc # "awaitInterval" => interval' = interval
      /\ pc # "count" => countBefore' = countBefore
  BY DEF AddRange, EnsureSkipEnabled, ReadItemCount, ClickAdd, WaitForSkipIntervalSetup,
       ResolveSkipIntervalControls, FillInterval, VerifySkipIntervalReadback, ClickIntervalOk,
       AwaitIntervalOk, ClickIntervalCancel, AwaitIntervalCancel, VerifyItemCount, callVars,
       foundVars, uiVars, PostMessage, PostMessageFails
<1> USE DEF Goto, GoOn, Fail, Late, callVars, foundVars, hookVars, uiVars, Timely, Opening, Adding,
        Saving, Kept
<1>4. CASE EnsureSkipEnabled
  <2>1. pc = "enable" /\ Ready(dialog, before) /\ saved = before /\ build["setup"]
    BY <1>1, <1>4 DEF EnsureSkipEnabled
  <2>2. dialog \in Windows /\ IsWindow(dialog) BY <1>2, <2>1 DEF Ready, Lone, IsKind
  <2>3. CASE win' = [win EXCEPT ![dialog].checked = TRUE] /\ pc' = "count"
    <3>1. /\ Others(dialog) /\ SameKind(dialog) /\ win'[dialog].checked
          /\ win'[dialog].life = win[dialog].life /\ win'[dialog].rows = win[dialog].rows
      BY <1>0, <2>2, <2>3, CheckFacts DEF Typing
    <3>2. queue' = queue BY <1>4 DEF EnsureSkipEnabled
    <3>3. Ready(dialog, before)'
      BY <1>3, <2>1, <2>2, <3>1, <3>2 DEF Ready, Lone, IsKind, IsWindow, Others, SameKind
    <3> QED BY <1>3, <2>1, <2>3, <3>1, <3>3 DEF Ticked, Counted
  <2>4. CASE UNCHANGED win /\ pc' = "cancel"
    <3>1. Ready(dialog, before)'
      BY <1>3, <1>4, <2>1, <2>4 DEF EnsureSkipEnabled, Ready, Lone, IsKind, IsWindow
    <3> QED BY <1>3, <2>1, <2>4, <3>1
  <2> QED BY <1>4, <2>2, <2>3, <2>4 DEF EnsureSkipEnabled
<1>5. CASE ReadItemCount
  <2>1. /\ pc = "count" /\ pc' = "add" /\ UNCHANGED uiVars /\ countBefore' = ItemCount(dialog)
        /\ Ready(dialog, before) /\ saved = before /\ build["setup"] /\ Ticked
    BY <1>1, <1>5 DEF ReadItemCount
  <2>2. countBefore' = Len(before) BY <2>1 DEF Ready, Lone, IsKind, ItemCount
  <2>3. Ready(dialog, before)' BY <1>3, <2>1 DEF Ready, Lone, IsKind, IsWindow
  <2> QED BY <1>3, <2>1, <2>2, <2>3 DEF Ticked, Counted
<1>6. CASE ClickAdd
  <2>1. /\ pc = "add" /\ pc' = "awaitInterval" /\ PostMessage(dialog, "add")
        /\ Ready(dialog, before) /\ saved = before /\ build["setup"] /\ Ticked /\ Counted
    BY <1>1, <1>6 DEF ClickAdd
  <2>2. Told(dialog, "add")' /\ win' = win
    BY <1>3, <2>1 DEF PostMessage, Ready, Told, Lone, IsKind, IsWindow, Msg
  <2>3. win'[dialog'].rows = before' BY <1>3, <2>1, <2>2 DEF Ready
  <2> QED BY <1>3, <2>1, <2>2, <2>3 DEF Ticked, Counted
<1>7. CASE WaitForSkipIntervalSetup
  <2>1. /\ pc = "awaitInterval" /\ pc' = "resolveInterval" /\ UNCHANGED uiVars
        /\ saved = before /\ build["setup"] /\ Ticked /\ Counted
    BY <1>1, <1>7 DEF WaitForSkipIntervalSetup
  <2>2. PICK h \in Windows : IsKind(h, "interval") /\ interval' = h
    BY <1>7 DEF WaitForSkipIntervalSetup
  <2>3. ~Told(dialog, "add") BY <2>2 DEF Told, Lone, IsKind
  <2>4. PICK i \in Windows : Filling(dialog, i) BY <1>1, <2>1, <2>3
  <2>5. h = i BY <2>2, <2>4 DEF Filling, Pair, IsKind
  <2>6. Filling(dialog, interval)'
    BY <1>3, <2>1, <2>2, <2>4, <2>5 DEF Filling, Pair, IsKind, IsWindow
  <2> QED BY <1>3, <2>1, <2>6 DEF Ticked, Counted
<1>8. CASE ResolveSkipIntervalControls
  <2>1. /\ pc = "resolveInterval" /\ pc' \in {"intervalCancel", "fill"} /\ UNCHANGED uiVars
        /\ saved = before /\ build["setup"] /\ Ticked /\ Counted /\ Filling(dialog, interval)
        /\ interval' = interval
    BY <1>1, <1>8 DEF ResolveSkipIntervalControls
  <2>2. Filling(dialog, interval)' BY <1>3, <2>1 DEF Filling, Pair, IsKind, IsWindow
  <2> QED BY <1>3, <2>1, <2>2 DEF Ticked, Counted
<1>9. CASE FillInterval
  <2>1. /\ pc = "fill" /\ pc' = "verify" /\ saved = before /\ build["setup"] /\ Ticked /\ Counted
        /\ Filling(dialog, interval) /\ queue' = queue
    BY <1>1, <1>9 DEF FillInterval
  <2>2. interval \in Windows /\ IsWindow(interval) /\ interval # dialog
    BY <1>2, <2>1 DEF Filling, Pair, IsKind
  <2>3. PICK e \in {range, Mangled} : win' = [win EXCEPT ![interval].field = e]
    BY <1>9, <2>2 DEF FillInterval
  <2>4. e \in Entry BY <2>3 DEF TypeInv, Found, Entry
  <2>5. /\ Others(interval) /\ SameKind(interval) /\ win'[interval].life = win[interval].life
    BY <1>0, <2>2, <2>3, <2>4, FieldFacts DEF Typing
  <2>6. dialog \in Windows BY <1>2, <2>1 DEF Filling, Pair, IsKind
  <2>7. win'[dialog] = win[dialog] BY <2>2, <2>5, <2>6 DEF Others
  <2>8. Filling(dialog, interval)'
    BY <1>3, <2>1, <2>2, <2>5, <2>6, <2>7 DEF Filling, Pair, IsKind, IsWindow, Others, SameKind
  <2> QED BY <1>3, <2>1, <2>7, <2>8 DEF Ticked, Counted
<1>10. CASE VerifySkipIntervalReadback
  <2>1. /\ pc = "verify" /\ UNCHANGED uiVars /\ interval' = interval
        /\ saved = before /\ build["setup"] /\ Ticked /\ Counted /\ Filling(dialog, interval)
        /\ pc' = "intervalCancel" \/ (pc' = "intervalOk" /\ win[interval].field = range)
    BY <1>1, <1>10 DEF VerifySkipIntervalReadback
  <2>2. Filling(dialog, interval)' BY <1>3, <2>1 DEF Filling, Pair, IsKind, IsWindow
  <2> QED BY <1>3, <2>1, <2>2 DEF Ticked, Counted
<1>11. CASE ClickIntervalOk
  <2>1. /\ pc = "intervalOk" /\ pc' = "intervalOkWait" /\ PostMessage(interval, "ok")
        /\ saved = before /\ build["setup"] /\ Ticked /\ Counted /\ Filling(dialog, interval)
        /\ win[interval].field = range /\ interval' = interval
    BY <1>1, <1>11 DEF ClickIntervalOk
  <2>2. ToldInner(dialog, interval, "ok")' /\ win' = win
    BY <1>3, <2>1 DEF PostMessage, Filling, ToldInner, Pair, IsKind, IsWindow, Msg
  <2> QED BY <1>3, <2>1, <2>2 DEF Ticked, Counted
<1>12. CASE AwaitIntervalOk
  <2>1. /\ pc = "intervalOkWait" /\ pc' = "recount" /\ ~IsWindow(interval) /\ UNCHANGED uiVars
        /\ saved = before /\ build["setup"] /\ Ticked /\ Counted
    BY <1>1, <1>12 DEF AwaitIntervalOk
  <2>2. Ready(dialog, Longer)
    BY <1>1, <2>1 DEF ToldInner, EndedInner, Pair, IsKind
  <2>3. Ready(dialog, Longer)' BY <1>3, <2>1, <2>2 DEF Ready, Lone, IsKind, IsWindow, Longer
  <2> QED BY <1>3, <2>1, <2>3 DEF Ticked, Counted
<1>13. CASE ClickIntervalCancel
  <2>1. /\ pc = "intervalCancel" /\ pc' = "intervalCancelWait" /\ PostMessage(interval, "cancel")
        /\ saved = before /\ build["setup"] /\ Filling(dialog, interval) /\ interval' = interval
    BY <1>1, <1>13 DEF ClickIntervalCancel
  <2>2. ToldInner(dialog, interval, "cancel")' /\ win' = win
    BY <1>3, <2>1 DEF PostMessage, Filling, ToldInner, Pair, IsKind, IsWindow, Msg
  <2> QED BY <1>3, <2>1, <2>2
<1>14. CASE AwaitIntervalCancel
  <2>1. /\ pc = "intervalCancelWait" /\ pc' = "cancel" /\ ~IsWindow(interval) /\ UNCHANGED uiVars
        /\ saved = before /\ build["setup"]
    BY <1>1, <1>14 DEF AwaitIntervalCancel
  <2>2. Ready(dialog, before)
    BY <1>1, <2>1 DEF ToldInner, EndedInner, Pair, IsKind
  <2>3. Ready(dialog, before)' BY <1>3, <2>1, <2>2 DEF Ready, Lone, IsKind, IsWindow
  <2> QED BY <1>3, <2>1, <2>3
<1>15. CASE VerifyItemCount
  <2>1. /\ pc = "recount" /\ UNCHANGED uiVars /\ Ready(dialog, Longer)
        /\ saved = before /\ build["setup"] /\ Ticked /\ Counted /\ job = "commit"
    BY <1>1, <1>15 DEF VerifyItemCount, CheckPath, Committing
  <2>2. before \in Seq(Entry) /\ range \in Entry BY DEF TypeInv, Data, Found, Entry
  <2>3. ItemCount(dialog) = countBefore + 1
    BY <2>1, <2>2 DEF Ready, Lone, IsKind, ItemCount, Longer, Counted
  <2>4. pc' = "ok" BY <1>15, <2>3 DEF VerifyItemCount
  <2>5. Ready(dialog, Longer)' BY <1>3, <2>1 DEF Ready, Lone, IsKind, IsWindow, Longer
  <2> QED BY <1>3, <2>1, <2>4, <2>5 DEF Ticked
<1> QED BY <1>4, <1>5, <1>6, <1>7, <1>8, <1>9, <1>10, <1>11, <1>12, <1>13, <1>14, <1>15 DEF AddRange

LEMMA TimelyClose ==
    ASSUME TypeInv, CheckPath, OnTheWay, Timely, CloseDialog \/ Return, timely, timely'
    PROVE  Timely'
<1>1. Opening /\ Adding /\ Saving /\ Kept BY DEF Timely
<1>3. UNCHANGED <<build, before, job, range, dialog, born, saved, win, enabled>>
  BY DEF CloseDialog, ClickOk, AwaitOk, ClickCancel, AwaitCancel, Return, callVars, foundVars,
     uiVars, PostMessage, PostMessageFails
<1> USE DEF Goto, GoOn, Fail, Late, callVars, foundVars, hookVars, uiVars, Timely, Opening, Adding,
        Saving, Kept
<1>4. CASE ClickOk
  <2>1. /\ pc = "ok" /\ pc' = "okWait" /\ PostMessage(dialog, "ok") /\ Ready(dialog, Longer)
        /\ saved = before /\ build["setup"] /\ Ticked
    BY <1>1, <1>4 DEF ClickOk
  <2>2. Told(dialog, "ok")'
    BY <1>3, <2>1 DEF PostMessage, Ready, Told, Lone, IsKind, IsWindow, Msg
  <2>3. (win[dialog].rows = Longer)' BY <1>3, <2>1 DEF Ready, Longer
  <2> QED BY <1>3, <2>1, <2>2, <2>3 DEF Ticked
<1>5. CASE AwaitOk
  <2>1. /\ pc = "okWait" /\ pc' = "return" /\ ~IsWindow(dialog) /\ UNCHANGED uiVars /\ ok' = ok
        /\ job = "commit" /\ ok
    BY <1>5 DEF AwaitOk, CheckPath, Committing, OnTheWay, Closing
  <2>2. Quiet /\ saved = Longer /\ (AutoEnable => enabled)
    BY <1>1, <2>1 DEF Told, Ended, Lone, IsKind
  <2>3. Quiet' /\ queue' = <<>> BY <2>1, <2>2 DEF Quiet, IsWindow
  <2> QED BY <1>3, <2>1, <2>2, <2>3 DEF Longer
<1>6. CASE ClickCancel
  <2>1. /\ pc = "cancel" /\ pc' = "cancelWait" /\ PostMessage(dialog, "cancel")
        /\ Ready(dialog, before) /\ saved = before /\ build["setup"]
    BY <1>1, <1>6 DEF ClickCancel
  <2>2. Told(dialog, "cancel")'
    BY <1>3, <2>1 DEF PostMessage, Ready, Told, Lone, IsKind, IsWindow, Msg
  <2> QED BY <1>3, <2>1, <2>2
<1>7. CASE AwaitCancel
  <2>1. /\ pc = "cancelWait" /\ pc' = "return" /\ ~IsWindow(dialog) /\ UNCHANGED uiVars
        /\ ~(job = "commit" /\ ok) /\ ok' = ok /\ saved = before
    BY <1>1, <1>7 DEF AwaitCancel, OnTheWay, Closing
  <2>2. Quiet BY <1>1, <2>1 DEF Told, Ended, Lone, IsKind
  <2>3. Quiet' /\ queue' = <<>> BY <2>1, <2>2 DEF Quiet, IsWindow
  <2> QED BY <1>3, <2>1, <2>3
<1>8. CASE Return
  <2>1. pc = "return" /\ pc' = "idle" /\ queue' = queue BY <1>8 DEF Return
  <2> QED BY <1>1, <2>1
<1> QED BY <1>4, <1>5, <1>6, <1>7, <1>8 DEF CloseDialog

LEMMA TimelyInv ==
    ASSUME NoEsc
    PROVE  TypeInv /\ CheckPath /\ OnTheWay /\ Timely /\ [Next]_vars => Timely'
<1> SUFFICES ASSUME TypeInv, CheckPath, OnTheWay, Timely, [Next]_vars PROVE Timely'
  OBVIOUS
<1>1. CASE Ui BY <1>1, TimelyUi
<1>2. CASE Pump
  <2>1. timely' => timely
    BY <1>2 DEF Pump, OpenDialog, ArmHook, PostOpen, AwaitCapture, FindAndParkFallback, Unhook,
       ResolveSkipSetupControls, AddRange, EnsureSkipEnabled, ReadItemCount, ClickAdd,
       WaitForSkipIntervalSetup, ResolveSkipIntervalControls, FillInterval,
       VerifySkipIntervalReadback, ClickIntervalOk, AwaitIntervalOk, ClickIntervalCancel,
       AwaitIntervalCancel, VerifyItemCount, CloseDialog, ClickOk, AwaitOk, ClickCancel,
       AwaitCancel, Return, GoOn, Fail, Late
  <2>2. CASE ~timely' BY <2>2 DEF Timely
  <2> QED BY <1>2, <2>1, <2>2, TimelyOpen, TimelyAdd, TimelyClose DEF Pump
<1>3. ASSUME Begin, UNCHANGED build PROVE Timely'
  <2>1. pc' = "open" /\ UNCHANGED uiVars /\ before' = saved /\ timely' = Quiet
    BY <1>3 DEF Begin, Goto
  <2>2. Quiet => Quiet' BY <2>1 DEF Quiet, IsWindow, uiVars
  <2>3. saved' = saved BY <2>1 DEF uiVars
  <2> QED BY <2>1, <2>2, <2>3 DEF Timely, Opening, Adding, Saving, Kept
<1>4. CASE StartSelfCheck BY <1>3, <1>4 DEF StartSelfCheck, Begin
<1>5. ASSUME NEW r \in Ranges, StartCommit(r) PROVE Timely'
  BY <1>3, <1>5 DEF StartCommit, Begin
<1>6. CASE UNCHANGED vars
  BY <1>6 DEF vars, uiVars, hookVars, callVars, foundVars, progress, Timely, Opening, Adding,
   Saving, Kept, Quiet, NoWindow, Ready, Told, Ended,
   Filling, ToldInner, EndedInner, Lone, Pair, IsKind, IsWindow, Ticked, Counted, Longer, Msg
<1> QED BY <1>1, <1>2, <1>4, <1>5, <1>6 DEF Next

\* A call that starts with no dialog about, and for which PotPlayer meets every
\* deadline, is atomic whatever else fails: only the user's own Esc, which
\* closes a dialog the way a deadline met does, is excluded.
THEOREM TimelyCallsAreAtomic == ASSUME NoEsc PROVE Spec => []TimelyCallIsExact
<1>1. Init => CheckPath /\ OnTheWay /\ Timely
  BY DEF Init, UiInit, CheckPath, OnTheWay, Timely, Opening, Adding, Saving, Kept, Committing, Closing
<1>2. TypeInv => Control BY DEF TypeInv
<1>3. Timely => TimelyCallIsExact BY DEF Timely, Saving, TimelyCallIsExact, Longer
<1> QED BY <1>1, <1>2, <1>3, CheckPathInv, OnTheWayInv, TimelyInv, TypeInductive, PTL DEF Spec

-----------------------------------------------------------------------------
(***************************************************************************)
(* What the messages on their way will do to a dialog.  Only the ones before *)
(* the first that closes it count.  These hold of the whole queue and, one    *)
(* message shorter or longer, of what is left of it or what it becomes.       *)
(***************************************************************************)
Closes(m, d) == m.to = d /\ m.cmd \in {"ok", "cancel"}
Reaches(q, m, d, k) == q[k] = m /\ \A j \in 1..(k - 1) : ~Closes(q[j], d)
UnclosedIn(q, d) == \A k \in 1..Len(q) : ~Closes(q[k], d)
SavesIn(q, d) == \E k \in 1..Len(q) : Reaches(q, Msg(d, "ok"), d, k)
AddsIn(q, d) == \E k \in 1..Len(q) : Reaches(q, Msg(d, "add"), d, k)
AddsOnceIn(q, d) == \A j, k \in 1..Len(q) :
    Reaches(q, Msg(d, "add"), d, j) /\ Reaches(q, Msg(d, "add"), d, k) => j = k
OksIn(q, d) == \E k \in 1..Len(q) : q[k] = Msg(d, "ok")

LEMMA PostedIn ==
    ASSUME NEW q \in Seq(Message), NEW m \in Message, NEW p, p = Append(q, m), NEW d
    PROVE  /\ UnclosedIn(p, d) <=> UnclosedIn(q, d) /\ ~Closes(m, d)
           /\ SavesIn(p, d) <=> SavesIn(q, d) \/ (UnclosedIn(q, d) /\ m = Msg(d, "ok"))
           /\ AddsIn(p, d) <=> AddsIn(q, d) \/ (UnclosedIn(q, d) /\ m = Msg(d, "add"))
           /\ AddsOnceIn(q, d) /\ ~(AddsIn(q, d) /\ UnclosedIn(q, d) /\ m = Msg(d, "add")) => AddsOnceIn(p, d)
           /\ OksIn(p, d) <=> OksIn(q, d) \/ m = Msg(d, "ok")
<1> DEFINE n == Len(q)
<1>1. /\ n \in Nat /\ Len(p) = n + 1 /\ p[n + 1] = m
      /\ \A k \in 1..n : p[k] = q[k]
  OBVIOUS
<1>2. \A k \in 1..(n + 1) : k \in 1..n \/ k = n + 1 BY <1>1
<1>3. 1..n \subseteq 1..(n + 1) /\ n + 1 \in 1..(n + 1) /\ n + 1 \notin 1..n BY <1>1
<1>4. \A k \in 1..n : 1..(k - 1) \subseteq 1..n BY <1>1
<1>5. 1..((n + 1) - 1) = 1..n BY <1>1
<1>6. ASSUME NEW x, NEW k \in 1..n PROVE Reaches(p, x, d, k) <=> Reaches(q, x, d, k)
  BY <1>1, <1>4 DEF Reaches
<1>7. ASSUME NEW x PROVE Reaches(p, x, d, n + 1) <=> x = m /\ UnclosedIn(q, d)
  <2>1. \A j \in 1..n : Closes(p[j], d) <=> Closes(q[j], d) BY <1>1
  <2> QED BY <1>1, <1>5, <2>1 DEF Reaches, UnclosedIn
<1> HIDE DEF n
<1>8. Len(q) = n BY DEF n
<1>9. UnclosedIn(p, d) <=> UnclosedIn(q, d) /\ ~Closes(m, d) BY <1>1, <1>2, <1>3, <1>8 DEF UnclosedIn
<1>0. ASSUME NEW x
      PROVE (\E k \in 1..(n + 1) : Reaches(p, x, d, k))
            <=> (\E k \in 1..n : Reaches(q, x, d, k)) \/ (UnclosedIn(q, d) /\ x = m)
  <2>1. ASSUME NEW k \in 1..(n + 1), Reaches(p, x, d, k)
        PROVE (\E j \in 1..n : Reaches(q, x, d, j)) \/ (UnclosedIn(q, d) /\ x = m)
    <3>1. CASE k \in 1..n BY <1>6, <2>1, <3>1
    <3>2. CASE k = n + 1 BY <1>7, <2>1, <3>2
    <3> QED BY <1>2, <3>1, <3>2
  <2>2. ASSUME NEW k \in 1..n, Reaches(q, x, d, k) PROVE \E j \in 1..(n + 1) : Reaches(p, x, d, j)
    <3>1. Reaches(p, x, d, k) BY <1>6, <2>2
    <3> QED BY <1>3, <3>1
  <2>3. ASSUME UnclosedIn(q, d), x = m PROVE \E j \in 1..(n + 1) : Reaches(p, x, d, j)
    <3>1. Reaches(p, x, d, n + 1) BY <1>7, <2>3
    <3> QED BY <1>3, <3>1
  <2> QED BY <2>1, <2>2, <2>3
<1>10. SavesIn(p, d) <=> SavesIn(q, d) \/ (UnclosedIn(q, d) /\ m = Msg(d, "ok"))
  <2>1. SavesIn(p, d) <=> \E k \in 1..(n + 1) : Reaches(p, Msg(d, "ok"), d, k) BY <1>1 DEF SavesIn
  <2> QED BY <1>0, <1>8, <2>1 DEF SavesIn
<1>11. AddsIn(p, d) <=> AddsIn(q, d) \/ (UnclosedIn(q, d) /\ m = Msg(d, "add"))
  <2>1. AddsIn(p, d) <=> \E k \in 1..(n + 1) : Reaches(p, Msg(d, "add"), d, k) BY <1>1 DEF AddsIn
  <2> QED BY <1>0, <1>8, <2>1 DEF AddsIn
<1>12. ASSUME AddsOnceIn(q, d), ~(AddsIn(q, d) /\ UnclosedIn(q, d) /\ m = Msg(d, "add")) PROVE AddsOnceIn(p, d)
  <2> SUFFICES ASSUME NEW j \in 1..(n + 1), NEW k \in 1..(n + 1),
                      Reaches(p, Msg(d, "add"), d, j), Reaches(p, Msg(d, "add"), d, k)
               PROVE  j = k
    BY <1>1 DEF AddsOnceIn
  <2>1. CASE j \in 1..n /\ k \in 1..n
    <3>1. Reaches(q, Msg(d, "add"), d, j) /\ Reaches(q, Msg(d, "add"), d, k) BY <1>6, <2>1
    <3> QED BY <1>8, <1>12, <2>1, <3>1 DEF AddsOnceIn
  <2>2. ASSUME NEW i \in 1..n, Reaches(p, Msg(d, "add"), d, i), Reaches(p, Msg(d, "add"), d, n + 1)
        PROVE FALSE
    <3>1. AddsIn(q, d) BY <1>6, <1>8, <2>2 DEF AddsIn
    <3>2. UnclosedIn(q, d) /\ m = Msg(d, "add") BY <1>7, <2>2
    <3> QED BY <1>12, <3>1, <3>2
  <2> QED BY <1>2, <2>1, <2>2
<1>13. OksIn(p, d) <=> OksIn(q, d) \/ m = Msg(d, "ok") BY <1>1, <1>2, <1>3, <1>8 DEF OksIn
<1> QED BY <1>9, <1>10, <1>11, <1>12, <1>13

LEMMA TakenIn ==
    ASSUME NEW q \in Seq(Message), q # <<>>, NEW p, p = Tail(q), NEW d
    PROVE  LET m == Head(q) IN
           /\ UnclosedIn(q, d) <=> UnclosedIn(p, d) /\ ~Closes(m, d)
           /\ SavesIn(q, d) <=> m = Msg(d, "ok") \/ (~Closes(m, d) /\ SavesIn(p, d))
           /\ AddsIn(q, d) <=> m = Msg(d, "add") \/ (~Closes(m, d) /\ AddsIn(p, d))
           /\ AddsOnceIn(q, d) => ~(m = Msg(d, "add") /\ AddsIn(p, d))
           /\ AddsOnceIn(q, d) /\ ~Closes(m, d) => AddsOnceIn(p, d)
           /\ OksIn(q, d) <=> m = Msg(d, "ok") \/ OksIn(p, d)
<1> DEFINE n == Len(p)
           m == Head(q)
<1>1. /\ n \in Nat /\ Len(q) = n + 1 /\ q[1] = m
      /\ \A k \in 1..n : p[k] = q[k + 1]
  OBVIOUS
<1>2. \A k \in 1..(n + 1) : k = 1 \/ (k - 1 \in 1..n /\ k = (k - 1) + 1) BY <1>1
<1>3. \A k \in 1..n : k + 1 \in 1..(n + 1) /\ k + 1 # 1 BY <1>1
<1>4. 1 \in 1..(n + 1) BY <1>1
<1>6. ASSUME NEW x, NEW k \in 1..n
      PROVE Reaches(q, x, d, k + 1) <=> ~Closes(m, d) /\ Reaches(p, x, d, k)
  <2>1. (k + 1) - 1 = k BY <1>1
  <2>2. \A j \in 1..k : j = 1 \/ (j - 1 \in 1..(k - 1) /\ j = (j - 1) + 1) BY <1>1
  <2>3. \A j \in 1..(k - 1) : j \in 1..n /\ j + 1 \in 1..k BY <1>1
  <2>4. 1 \in 1..k BY <1>1
  <2>5. (\A j \in 1..k : ~Closes(q[j], d))
        <=> ~Closes(m, d) /\ \A j \in 1..(k - 1) : ~Closes(p[j], d)
    <3> HIDE DEF n, m
    <3>1. ASSUME \A j \in 1..k : ~Closes(q[j], d)
          PROVE ~Closes(m, d) /\ \A j \in 1..(k - 1) : ~Closes(p[j], d)
      BY <1>1, <2>3, <2>4, <3>1
    <3>2. ASSUME ~Closes(m, d), \A j \in 1..(k - 1) : ~Closes(p[j], d), NEW j \in 1..k
          PROVE ~Closes(q[j], d)
      <4>1. CASE j = 1 BY <1>1, <3>2, <4>1
      <4>2. CASE j # 1
        <5>1. PICK i \in 1..(k - 1) : j = i + 1 BY <2>2, <4>2
        <5>2. p[i] = q[j] BY <1>1, <2>3, <5>1
        <5> QED BY <3>2, <5>2
      <4> QED BY <4>1, <4>2
    <3> QED BY <3>1, <3>2
  <2> HIDE DEF n, m
  <2> QED BY <1>1, <2>1, <2>5 DEF Reaches
<1>7. ASSUME NEW x PROVE Reaches(q, x, d, 1) <=> x = m
  BY <1>1 DEF Reaches
<1> HIDE DEF n, m
<1>8. Len(p) = n BY DEF n
<1>9. UnclosedIn(q, d) <=> UnclosedIn(p, d) /\ ~Closes(m, d)
  <2>1. ASSUME UnclosedIn(q, d) PROVE UnclosedIn(p, d) /\ ~Closes(m, d)
    BY <1>1, <1>3, <1>4, <1>8, <2>1 DEF UnclosedIn
  <2>2. ASSUME UnclosedIn(p, d), ~Closes(m, d) PROVE UnclosedIn(q, d)
    <3>1. ASSUME NEW k \in 1..(n + 1) PROVE ~Closes(q[k], d)
      <4>1. CASE k = 1 BY <1>1, <2>2, <4>1
      <4>2. CASE k # 1
        <5>1. PICK j \in 1..n : k = j + 1 BY <1>2, <4>2
        <5>2. p[j] = q[k] BY <1>1, <5>1
        <5> QED BY <1>8, <2>2, <5>2 DEF UnclosedIn
      <4> QED BY <4>1, <4>2
    <3> QED BY <1>1, <3>1 DEF UnclosedIn
  <2> QED BY <2>1, <2>2
<1>10. ASSUME NEW x
       PROVE (\E k \in 1..(n + 1) : Reaches(q, x, d, k))
             <=> x = m \/ (~Closes(m, d) /\ \E k \in 1..n : Reaches(p, x, d, k))
  <2>1. ASSUME NEW k \in 1..(n + 1), Reaches(q, x, d, k), x # m
        PROVE ~Closes(m, d) /\ \E j \in 1..n : Reaches(p, x, d, j)
    <3>1. PICK j \in 1..n : k = j + 1 BY <1>2, <1>7, <2>1
    <3> QED BY <1>6, <2>1, <3>1
  <2>2. ASSUME NEW k \in 1..n, Reaches(p, x, d, k), ~Closes(m, d)
        PROVE \E j \in 1..(n + 1) : Reaches(q, x, d, j)
    BY <1>3, <1>6, <2>2
  <2>3. x = m => \E j \in 1..(n + 1) : Reaches(q, x, d, j) BY <1>4, <1>7
  <2> QED BY <2>1, <2>2, <2>3
<1>11. SavesIn(q, d) <=> m = Msg(d, "ok") \/ (~Closes(m, d) /\ SavesIn(p, d))
  BY <1>1, <1>8, <1>10 DEF SavesIn
<1>12. AddsIn(q, d) <=> m = Msg(d, "add") \/ (~Closes(m, d) /\ AddsIn(p, d))
  BY <1>1, <1>8, <1>10 DEF AddsIn
<1>13. ASSUME AddsOnceIn(q, d) PROVE ~(m = Msg(d, "add") /\ AddsIn(p, d))
  <2> SUFFICES ASSUME m = Msg(d, "add"), AddsIn(p, d) PROVE FALSE
    OBVIOUS
  <2>1. PICK k \in 1..n : Reaches(p, Msg(d, "add"), d, k) BY <1>8 DEF AddsIn
  <2>2. ~Closes(m, d) BY DEF Closes, Msg
  <2>3. Reaches(q, Msg(d, "add"), d, k + 1) /\ Reaches(q, Msg(d, "add"), d, 1)
    BY <1>6, <1>7, <2>1, <2>2
  <2> QED BY <1>1, <1>3, <1>4, <1>13, <2>3 DEF AddsOnceIn
<1>14. ASSUME AddsOnceIn(q, d), ~Closes(m, d) PROVE AddsOnceIn(p, d)
  <2> SUFFICES ASSUME NEW j \in 1..n, NEW k \in 1..n,
                      Reaches(p, Msg(d, "add"), d, j), Reaches(p, Msg(d, "add"), d, k)
               PROVE  j = k
    BY <1>8 DEF AddsOnceIn
  <2>1. Reaches(q, Msg(d, "add"), d, j + 1) /\ Reaches(q, Msg(d, "add"), d, k + 1)
    BY <1>6, <1>14
  <2>2. j + 1 = k + 1 BY <1>1, <1>3, <1>14, <2>1 DEF AddsOnceIn
  <2> QED BY <2>2
<1>15. OksIn(q, d) <=> m = Msg(d, "ok") \/ OksIn(p, d)
  <2>1. ASSUME NEW k \in 1..(n + 1), q[k] = Msg(d, "ok"), m # Msg(d, "ok") PROVE OksIn(p, d)
    <3>1. PICK j \in 1..n : k = j + 1 BY <1>1, <1>2, <2>1
    <3> QED BY <1>1, <1>8, <2>1, <3>1 DEF OksIn
  <2>2. ASSUME OksIn(p, d) PROVE OksIn(q, d) BY <1>1, <1>3, <1>8, <2>2 DEF OksIn
  <2>3. m = Msg(d, "ok") => OksIn(q, d) BY <1>1, <1>4 DEF OksIn
  <2> QED BY <1>1, <2>1, <2>2, <2>3 DEF OksIn
<1> QED BY <1>9, <1>11, <1>12, <1>13, <1>14, <1>15 DEF m

-----------------------------------------------------------------------------
(***************************************************************************)
(* What dialogs left behind by late calls can still do.  A Skip Setup is     *)
(* free while it is open and nothing that would close it is on its way.  A   *)
(* call that has asked a free dialog for an interval dialog never returns    *)
(* before it posted the dialog's OK or Cancel, so what is not free and was   *)
(* not cancelled holds the list and one verified row.                        *)
(***************************************************************************)
NoLostPost == "post" \notin Faults

Unclosed(d) == UnclosedIn(queue, d)
Saves(d) == SavesIn(queue, d)
Adds(d) == AddsIn(queue, d)
AddsOnce(d) == AddsOnceIn(queue, d)
Oks(d) == OksIn(queue, d)

LEMMA Posted ==
    ASSUME queue \in Seq(Message), NEW m \in Message, queue' = Append(queue, m), NEW d
    PROVE  /\ Unclosed(d)' <=> Unclosed(d) /\ ~Closes(m, d)
           /\ Saves(d)' <=> Saves(d) \/ (Unclosed(d) /\ m = Msg(d, "ok"))
           /\ Adds(d)' <=> Adds(d) \/ (Unclosed(d) /\ m = Msg(d, "add"))
           /\ AddsOnce(d) /\ ~(Adds(d) /\ Unclosed(d) /\ m = Msg(d, "add")) => AddsOnce(d)'
           /\ Oks(d)' <=> Oks(d) \/ m = Msg(d, "ok")
<1>1. PICK p : p = queue' OBVIOUS
<1> QED BY <1>1, PostedIn DEF Unclosed, Saves, Adds, AddsOnce, Oks

LEMMA Taken ==
    ASSUME queue \in Seq(Message), queue # <<>>, queue' = Tail(queue), NEW d
    PROVE  /\ Unclosed(d) <=> Unclosed(d)' /\ ~Closes(Head(queue), d)
           /\ Saves(d) <=> Head(queue) = Msg(d, "ok") \/ (~Closes(Head(queue), d) /\ Saves(d)')
           /\ Adds(d) <=> Head(queue) = Msg(d, "add") \/ (~Closes(Head(queue), d) /\ Adds(d)')
           /\ AddsOnce(d) => ~(Head(queue) = Msg(d, "add") /\ Adds(d)')
           /\ AddsOnce(d) /\ ~Closes(Head(queue), d) => AddsOnce(d)'
           /\ Oks(d) <=> Head(queue) = Msg(d, "ok") \/ Oks(d)'
<1>1. PICK p : p = queue' OBVIOUS
<1>2. PICK m : m = Head(queue) OBVIOUS
<1> QED BY <1>1, <1>2, TakenIn DEF Unclosed, Saves, Adds, AddsOnce, Oks

\* Where the pump thread is with a dialog: it found the interval dialog, it may
\* have asked for it, it has the dialog.
WithInterval == {"resolveInterval", "fill", "verify", "intervalOk", "intervalOkWait", "recount",
                 "ok", "intervalCancel", "intervalCancelWait"}
Mid == WithInterval \cup {"awaitInterval", "cancel"}
WithDialog == Mid \cup {"resolve", "enable", "count", "add", "okWait", "cancelWait"}

\* d is open and nothing that closes it is on its way.
Free(d) == win[d].life = "open" /\ Unclosed(d)
Driven(d) == dialog = d /\ pc \in Mid
\* i is an interval dialog that d opened; it may be gone.
Inner(i, d) == win[i].kind = "interval" /\ win[i].owner = d
Had(d) == \E i \in Windows : Inner(i, d)
Has(d) == \E i \in Windows : Inner(i, d) /\ IsWindow(i)

\* Which handle is what.
Given(h, k) == h = Main \/ (h \in 1..born /\ win[h].kind = k)
\* A message is for a dialog that was there when it was posted.
Addressed(m) == /\ m.to <= born
                /\ m.to = Main <=> m.cmd = "open"
                /\ m.cmd = "add" => win[m.to].kind = "setup"
AllAddressed == \A k \in 1..Len(queue) : Addressed(queue[k])
OneInner == /\ \A i, o \in Windows : IsKind(i, "interval") /\ win[i].owner = o => IsKind(o, "setup")
            /\ \A i, j \in Windows : IsKind(i, "interval") /\ IsKind(j, "interval") => i = j

\* A Skip Setup opens one interval dialog at most before it is closed.
Once(d) == /\ \A i, j \in Windows : Inner(i, d) /\ Inner(j, d) => i = j
           /\ win[d].life = "open" => AddsOnce(d) /\ ~(Had(d) /\ Adds(d))
\* A free dialog nobody drives was never asked for anything.
Settled(d) == Free(d) /\ ~Driven(d) => ~Adds(d) /\ ~Had(d) /\ win[d].rows = saved
\* An OK comes last: no interval dialog stands or is to come.
OkLast(d) == Oks(d) => ~Has(d) /\ ~(win[d].life = "open" /\ Adds(d))
\* While a dialog is driven its rows grow by the verified range only.
Growing(d) ==
    /\ pc \in {"awaitInterval", "resolveInterval", "fill", "verify", "intervalOk",
               "intervalCancel", "intervalCancelWait"} => win[d].rows = saved
    /\ pc \in {"intervalOkWait", "recount"} => win[d].rows \in {saved, Append(saved, range)}
    /\ pc = "ok" => win[d].rows = Append(saved, range)
\* Only a verified field is on its way into the rows.
Checked(d) == \A i \in Windows : Inner(i, d) /\ IsWindow(i) =>
    /\ pc \in {"intervalOk", "intervalOkWait"} => win[i].field = range
    /\ Oks(i) /\ win[i].life = "open" =>
         /\ pc \in {"intervalOkWait", "cancel"}
         /\ pc = "intervalOkWait" => win[d].rows = saved
Verified(d) == Free(d) /\ Driven(d) => Growing(d) /\ Checked(d)
Numbered(d) == /\ Free(d) /\ dialog = d /\ job = "commit"
               /\ pc \in {"add", "awaitInterval", "resolveInterval", "fill", "verify", "intervalOk",
                          "intervalOkWait", "recount"}
               => countBefore = Len(saved)
Promised(d) == win[d].life = "open" /\ Saves(d) => \E r \in Ranges : win[d].rows = Append(saved, r)
Clean(d) == /\ Once(d) /\ Settled(d) /\ OkLast(d) /\ Verified(d) /\ Numbered(d) /\ Promised(d)
Linked == /\ pc \in WithInterval /\ IsKind(dialog, "setup") => win[interval].owner = dialog
          /\ pc \in {"recount", "ok"} => ~IsWindow(interval)

-----------------------------------------------------------------------------
(***************************************************************************)
(* The shape first: which window is whose.  It needs nothing but one Skip    *)
(* Setup at a time.                                                          *)
(***************************************************************************)
\* The kinds and owners of the windows there are never change.
Kinds == /\ born' >= born
         /\ \A h \in Windows : h <= born => SameKind(h)
\* No window comes back, and none comes without a handle of its own.
NoneAppears == UNCHANGED born /\ \A h \in Windows : SameKind(h) /\ (IsWindow(h)' => IsWindow(h))

LEMMA AlterFacts ==
    ASSUME Typing, UNCHANGED born,
           \A h \in Windows : SameKind(h) /\ (win[h].life = "gone" => win'[h].life = "gone")
    PROVE  NoneAppears
BY DEF NoneAppears, IsWindow

\* What a UI step does to the windows: it shows one of the two dialogs, or it
\* changes what a window holds, or it ends one, or destroys an ended one.
Shows(w) == /\ Create(w) /\ w \in Window /\ w.life = "open"
            /\ born' = born + 1 /\ born' \in Windows /\ win'[born'] = w /\ Others(born')
ShowsSetup == \E w : Shows(w) /\ w.kind = "setup" /\ w.rows = saved
                     /\ \A g \in Windows : ~IsKind(g, "setup")
ShowsInterval(d) == \E w : Shows(w) /\ w.kind = "interval" /\ w.owner = d
                           /\ \A g \in Windows : ~IsKind(g, "interval")

LEMMA OpensSetup ==
    ASSUME NoSecondDialog, TypeInv, UiOpenSkipSetup
    PROVE  (ShowsSetup \/ UNCHANGED <<born, win>>) /\ UNCHANGED <<saved, enabled>>
<1>1. UNCHANGED <<saved, enabled>> BY DEF UiOpenSkipSetup
<1>2. CASE UNCHANGED <<born, win>> BY <1>1, <1>2
<1>3. CASE ~UNCHANGED <<born, win>>
  <2>1. PICK w : w = [kind |-> "setup", life |-> "open", owner |-> Main,
                      rows |-> saved, checked |-> enabled, field |-> Probe]
    OBVIOUS
  <2>2. Create(w) /\ \A g \in Windows : ~IsKind(g, "setup")
    BY <1>3, <2>1 DEF UiOpenSkipSetup, MayOpen, NoSecondDialog
  <2>3. w \in Window
    <3>1. Probe \in Entry /\ Main \in Handles /\ saved \in Seq(Entry) /\ enabled \in BOOLEAN
      BY TypingFacts DEF Typing, Entry
    <3> QED BY <2>1, <3>1, WindowParts
  <2>4. born' = born + 1 /\ born' \in Windows /\ win'[born'] = w /\ Others(born')
    BY <2>2, <2>3, TypingFacts, CreateFacts DEF Typing
  <2>5. w.kind = "setup" /\ w.rows = saved /\ w.life = "open" BY <2>1
  <2> QED BY <1>1, <2>2, <2>3, <2>4, <2>5 DEF Shows, ShowsSetup
<1> QED BY <1>2, <1>3

LEMMA OpensInterval ==
    ASSUME NoSecondDialog, TypeInv, UiAdd
    PROVE  /\ IsWindow(Head(queue).to) /\ UNCHANGED <<saved, enabled>>
           /\ \/ ShowsInterval(Head(queue).to)
              \/ UNCHANGED <<born, win>> /\ \E g \in Windows : IsKind(g, "interval")
<1>1. IsWindow(Head(queue).to) /\ UNCHANGED <<saved, enabled>> BY DEF UiAdd
<1>2. CASE UNCHANGED <<born, win>> /\ \E g \in Windows : IsKind(g, "interval") BY <1>1, <1>2
<1>3. CASE ~(UNCHANGED <<born, win>> /\ \E g \in Windows : IsKind(g, "interval"))
  <2>1. PICK w : w = [kind |-> "interval", life |-> "open", owner |-> Head(queue).to,
                      rows |-> <<>>, checked |-> FALSE, field |-> Probe]
    OBVIOUS
  <2>2. Create(w) /\ \A g \in Windows : ~IsKind(g, "interval")
    BY <1>3, <2>1 DEF UiAdd, MayOpen, MayIgnore, NoSecondDialog
  <2>3. w \in Window
    <3>1. Probe \in Entry /\ <<>> \in Seq(Entry) BY DEF Entry
    <3>2. Head(queue).to \in Handles
      BY <1>1, TypingFacts, LiveHandle DEF Typing
    <3> QED BY <2>1, <3>1, <3>2, WindowParts
  <2>4. born' = born + 1 /\ born' \in Windows /\ win'[born'] = w /\ Others(born')
    BY <2>2, <2>3, TypingFacts, CreateFacts DEF Typing
  <2>5. w.kind = "interval" /\ w.owner = Head(queue).to /\ w.life = "open" BY <2>1
  <2> QED BY <1>1, <2>2, <2>3, <2>4, <2>5 DEF Shows, ShowsInterval
<1> QED BY <1>2, <1>3

\* What any other step does.
LEMMA NoneAppearsUi ==
    ASSUME TypeInv, UiNext, ~UiOpenSkipSetup, ~UiAdd PROVE NoneAppears
<1>0. Typing BY TypingFacts
<1>1. CASE UiIntervalOk
  <2>1. PICK i : i = Head(queue).to OBVIOUS
  <2>2. /\ IsWindow(i) /\ i \in Windows /\ born' = born
        /\ win' = [EndDialog(i) EXCEPT ![win[i].owner].rows = Append(@, win[i].field)]
    BY <1>0, <1>1, <2>1, LiveHandle DEF UiIntervalOk, IsKind, Typing
  <2>3. ASSUME NEW g \in Windows
        PROVE SameKind(g) /\ (win[g].life = "gone" => win'[g].life = "gone")
    <3>1. SameKind(g) /\ win'[g].life = IF g = i THEN "ended" ELSE win[g].life
      BY <1>0, <2>2, RowFacts DEF Typing
    <3> QED BY <2>2, <3>1 DEF IsWindow
  <2> QED BY <1>0, <2>2, <2>3, AlterFacts
<1>2. CASE UiSetupOk \/ UiCancel
  <2>1. PICK i \in Windows : IsWindow(i) /\ win' = EndDialog(i) /\ born' = born
    BY <1>0, <1>2, LiveHandle DEF UiSetupOk, UiCancel, IsKind, Typing
  <2>2. Others(i) /\ SameKind(i) BY <1>0, <2>1, EndFacts DEF Typing
  <2> QED BY <1>0, <2>1, <2>2, AlterFacts DEF Others, SameKind, IsWindow
<1>3. CASE UserEsc
  <2>1. PICK i \in Windows : IsInnermost(i) /\ win[i].life = "open" /\ win' = EndDialog(i) /\ born' = born
    BY <1>3 DEF UserEsc
  <2>2. Others(i) /\ SameKind(i) BY <1>0, <2>1, EndFacts DEF Typing
  <2> QED BY <1>0, <2>1, <2>2, AlterFacts DEF Others, SameKind
<1>4. CASE UiDestroy
  <2>1. PICK i \in Windows : win' = [win EXCEPT ![i].life = "gone"] /\ born' = born
    BY <1>4 DEF UiDestroy
  <2>2. Others(i) /\ SameKind(i) /\ win'[i].life = "gone" BY <1>0, <2>1, DestroyFacts DEF Typing
  <2> QED BY <1>0, <2>1, <2>2, AlterFacts DEF Others, SameKind
<1>5. CASE UiDrop \/ UiStall \/ UiResume
  <2>1. UNCHANGED <<born, win>> BY <1>5 DEF UiDrop, UiStall, UiResume
  <2> QED BY <1>0, <2>1, AlterFacts DEF SameKind
<1> QED BY <1>1, <1>2, <1>3, <1>4, <1>5 DEF UiNext

LEMMA NoneAppearsPump == ASSUME TypeInv, Pump PROVE NoneAppears
<1>0. Typing /\ Gentle BY TypingFacts, AdditivePump
<1>1. \A h \in Windows : SameKind(h)
  <2>1. CASE win' = win BY <2>1 DEF SameKind
  <2>2. CASE EnsureSkipEnabled /\ win' # win
    <3>1. dialog \in Windows /\ win' = [win EXCEPT ![dialog].checked = TRUE]
      BY <1>0, <2>2, LiveHandle DEF EnsureSkipEnabled, Typing
    <3>2. SameKind(dialog) /\ Others(dialog) BY <1>0, <3>1, CheckFacts DEF Typing
    <3> QED BY <3>1, <3>2 DEF Others, SameKind
  <2>3. CASE FillInterval /\ win' # win
    <3>1. PICK e : interval \in Windows /\ win' = [win EXCEPT ![interval].field = e] /\ e \in {range, Mangled}
      BY <1>0, <2>3, LiveHandle DEF FillInterval, Typing
    <3>2. e \in Entry BY <3>1 DEF TypeInv, Found, Entry
    <3>3. SameKind(interval) /\ Others(interval) BY <1>0, <3>1, <3>2, FieldFacts DEF Typing
    <3> QED BY <3>1, <3>3 DEF Others, SameKind
  <2>4. (EnsureSkipEnabled \/ FillInterval) \/ win' = win
    BY DEF Pump, OpenDialog, AddRange, CloseDialog, ArmHook, PostOpen, AwaitCapture,
       FindAndParkFallback, Unhook, ResolveSkipSetupControls, ReadItemCount, ClickAdd,
       WaitForSkipIntervalSetup, ResolveSkipIntervalControls, VerifySkipIntervalReadback,
       ClickIntervalOk, AwaitIntervalOk, ClickIntervalCancel, AwaitIntervalCancel, VerifyItemCount,
       ClickOk, AwaitOk, ClickCancel, AwaitCancel, Return, PostMessage, PostMessageFails, uiVars
  <2> QED BY <2>1, <2>2, <2>3, <2>4
<1> QED BY <1>0, <1>1, AlterFacts DEF Gentle

\* Only the innermost dialog ever goes.
OnlyInnermostGoes == \A h \in Windows : IsWindow(h) /\ ~IsWindow(h)' => IsInnermost(h)

LEMMA GoesUi ==
    ASSUME TypeInv, UiNext, ~UiOpenSkipSetup, ~UiAdd PROVE OnlyInnermostGoes
<1>0. Typing BY TypingFacts
<1>1. CASE UiIntervalOk
  <2>1. PICK i : i = Head(queue).to OBVIOUS
  <2>2. /\ i \in Windows /\ born' = born
        /\ win' = [EndDialog(i) EXCEPT ![win[i].owner].rows = Append(@, win[i].field)]
    BY <1>0, <1>1, <2>1, LiveHandle DEF UiIntervalOk, IsKind, Typing
  <2>3. ASSUME NEW g \in Windows PROVE win'[g].life = IF g = i THEN "ended" ELSE win[g].life
    BY <1>0, <2>2, RowFacts DEF Typing
  <2> QED BY <2>2, <2>3 DEF IsWindow, OnlyInnermostGoes
<1>2. CASE UiSetupOk \/ UiCancel
  <2>1. PICK i \in Windows : win' = EndDialog(i) /\ born' = born
    BY <1>0, <1>2, LiveHandle DEF UiSetupOk, UiCancel, IsKind, Typing
  <2>2. Others(i) /\ win'[i].life = "ended" BY <1>0, <2>1, EndFacts DEF Typing
  <2> QED BY <2>1, <2>2 DEF Others, IsWindow, OnlyInnermostGoes
<1>3. CASE UserEsc
  <2>1. PICK i \in Windows : win' = EndDialog(i) /\ born' = born BY <1>3 DEF UserEsc
  <2>2. Others(i) /\ win'[i].life = "ended" BY <1>0, <2>1, EndFacts DEF Typing
  <2> QED BY <2>1, <2>2 DEF Others, IsWindow, OnlyInnermostGoes
<1>4. CASE UiDestroy
  <2>1. PICK i \in Windows : IsInnermost(i) /\ win' = [win EXCEPT ![i].life = "gone"] /\ born' = born
    BY <1>4 DEF UiDestroy
  <2>2. Others(i) BY <1>0, <2>1, DestroyFacts DEF Typing
  <2> QED BY <2>1, <2>2 DEF Others, IsWindow, OnlyInnermostGoes
<1>5. CASE UiDrop \/ UiStall \/ UiResume
  BY <1>5 DEF UiDrop, UiStall, UiResume, IsWindow, OnlyInnermostGoes
<1> QED BY <1>1, <1>2, <1>3, <1>4, <1>5 DEF UiNext

LEMMA GoesPump == ASSUME TypeInv, Pump PROVE \A h \in Windows : IsWindow(h) => IsWindow(h)'
<1>0. Typing BY TypingFacts
<1>1. CASE win' = win /\ born' = born BY <1>1 DEF IsWindow
<1>2. CASE EnsureSkipEnabled /\ win' # win
  <2>1. dialog \in Windows /\ win' = [win EXCEPT ![dialog].checked = TRUE] /\ born' = born
    BY <1>0, <1>2, LiveHandle DEF EnsureSkipEnabled, Typing
  <2>2. Others(dialog) /\ win'[dialog].life = win[dialog].life
    BY <1>0, <2>1, CheckFacts DEF Typing
  <2> QED BY <2>1, <2>2 DEF Others, IsWindow
<1>3. CASE FillInterval /\ win' # win
  <2>1. PICK e : /\ interval \in Windows /\ win' = [win EXCEPT ![interval].field = e]
                 /\ e \in {range, Mangled} /\ born' = born
    BY <1>0, <1>3, LiveHandle DEF FillInterval, Typing
  <2>2. e \in Entry BY <2>1 DEF TypeInv, Found, Entry
  <2>3. Others(interval) /\ win'[interval].life = win[interval].life
    BY <1>0, <2>1, <2>2, FieldFacts DEF Typing
  <2> QED BY <2>1, <2>3 DEF Others, IsWindow
<1>4. born' = born /\ (EnsureSkipEnabled \/ FillInterval \/ win' = win)
  BY DEF Pump, OpenDialog, AddRange, CloseDialog, ArmHook, PostOpen, AwaitCapture,
     FindAndParkFallback, Unhook, ResolveSkipSetupControls, ReadItemCount, ClickAdd,
     WaitForSkipIntervalSetup, ResolveSkipIntervalControls, VerifySkipIntervalReadback,
     ClickIntervalOk, AwaitIntervalOk, ClickIntervalCancel, AwaitIntervalCancel, VerifyItemCount,
     ClickOk, AwaitOk, ClickCancel, AwaitCancel, Return, PostMessage, PostMessageFails, uiVars,
     EnsureSkipEnabled, FillInterval
<1> QED BY <1>1, <1>2, <1>3, <1>4

\* The owners of interval dialogs, and the handles the pump thread holds.
Owners == \A i \in Windows : win[i].kind = "interval" =>
              /\ i <= born /\ win[i].owner \in Windows /\ win[i].owner < i
              /\ win[win[i].owner].kind = "setup"
Holding == /\ Given(captured, "setup") /\ Given(dialog, "setup") /\ Given(interval, "interval")
           /\ pc \in WithDialog => dialog # Main
           /\ pc \in WithInterval => interval # Main

LEMMA NoneAppearsKeeps ==
    ASSUME Typing, NoneAppears PROVE Kinds /\ (Owners => Owners')
<1>1. Kinds BY DEF Typing, NoneAppears, Kinds, Handles
<1>2. ASSUME Owners PROVE Owners' BY <1>2 DEF Owners, NoneAppears, SameKind
<1> QED BY <1>1, <1>2

LEMMA ShowsKeeps ==
    ASSUME Typing, NEW w, Shows(w), Owners,
           w.kind = "interval" => IsKind(w.owner, "setup"), w.kind \in {"setup", "interval"}
    PROVE  /\ Kinds /\ Owners'
           /\ \E b \in Windows : /\ b = born + 1 /\ born' = b /\ win'[b] = w /\ IsWindow(b)'
                                 /\ \A h \in Windows \ {b} : /\ win'[h] = win[h]
                                                             /\ IsWindow(h)' <=> IsWindow(h)
<1>1. PICK b \in Windows : b = born + 1 /\ born' = b /\ win'[b] = w /\ Others(b)
  BY DEF Shows
<1>2. w \in Window /\ w.life = "open" /\ born \in Nat BY DEF Shows, Typing, Handles
<1>3. \A h \in Windows : h <= born => h # b BY <1>1, <1>2 DEF Windows
<1>4. Kinds
  <2>1. b >= born BY <1>1, <1>2
  <2> QED BY <1>1, <1>3, <2>1 DEF Kinds, Others, SameKind
<1>5. \A h \in Windows \ {b} : win'[h] = win[h] /\ (IsWindow(h)' <=> IsWindow(h))
  <2> SUFFICES ASSUME NEW h \in Windows \ {b}
               PROVE win'[h] = win[h] /\ (IsWindow(h)' <=> IsWindow(h))
    OBVIOUS
  <2>1. h \in 1..b <=> h \in 1..born BY <1>1, <1>2 DEF Windows
  <2>2. win'[h] = win[h] BY <1>1 DEF Others
  <2> QED BY <1>1, <2>1, <2>2 DEF IsWindow
<1>6. IsWindow(b)'
  <2>1. b \in 1..b BY DEF Windows
  <2> QED BY <1>1, <1>2, <2>1 DEF IsWindow
<1>7. Owners'
  <2> SUFFICES ASSUME NEW i \in Windows, win'[i].kind = "interval"
               PROVE  /\ i <= b /\ win'[i].owner \in Windows /\ win'[i].owner < i
                      /\ win'[win'[i].owner].kind = "setup"
    BY <1>1 DEF Owners
  <2>1. CASE i = b
    <3>1. w.owner \in Windows /\ w.owner <= born /\ win[w.owner].kind = "setup"
      BY <1>1, <2>1, LiveHandle DEF IsKind, IsWindow, Typing
    <3>2. w.owner \in Windows \ {b} BY <1>3, <3>1
    <3>3. win'[w.owner] = win[w.owner] BY <1>5, <3>2
    <3> QED BY <1>1, <1>2, <2>1, <3>1, <3>3 DEF Windows
  <2>2. CASE i # b
    <3>1. win'[i] = win[i] BY <1>5, <2>2
    <3>2. /\ i <= born /\ win[i].owner \in Windows /\ win[i].owner < i
          /\ win[win[i].owner].kind = "setup"
      BY <3>1 DEF Owners
    <3>3. win[i].owner <= born BY <1>2, <3>2 DEF Windows
    <3>4. win[i].owner \in Windows \ {b} BY <1>3, <3>2, <3>3
    <3>5. win'[win[i].owner] = win[win[i].owner] BY <1>5, <3>4
    <3>6. i <= b BY <1>1, <1>2, <3>2 DEF Windows
    <3> QED BY <3>1, <3>2, <3>5, <3>6
  <2> QED BY <2>1, <2>2
<1> QED BY <1>1, <1>4, <1>5, <1>6, <1>7

\* A message stays addressed to a window of its kind.
LEMMA AddressedStays ==
    ASSUME Typing, Kinds, born' \in Nat, NEW m \in Message, Addressed(m) PROVE Addressed(m)'
<1>1. m.to \in Handles /\ born \in Nat BY DEF Message, Typing, Handles
<1>2. CASE m.cmd = "add"
  <2>1. m.to \in Windows /\ m.to <= born BY <1>1, <1>2 DEF Addressed, Main, Handles, Windows
  <2> QED BY <1>1, <2>1 DEF Addressed, Kinds, SameKind, Handles
<1>3. CASE m.cmd # "add" BY <1>1, <1>3 DEF Addressed, Kinds, Handles
<1> QED BY <1>2, <1>3

LEMMA AddressedTake ==
    ASSUME Typing, Kinds, born' \in Nat, AllAddressed,
           queue' = queue \/ (queue # <<>> /\ queue' = Tail(queue))
    PROVE  AllAddressed'
<1> SUFFICES ASSUME NEW k \in 1..Len(queue'), NEW m, m = queue'[k] PROVE Addressed(m)'
  BY DEF AllAddressed
<1>1. m \in Message /\ \E j \in 1..Len(queue) : m = queue[j]
  <2>1. CASE queue' = queue BY <2>1 DEF Typing
  <2>2. CASE queue # <<>> /\ queue' = Tail(queue)
    <3>1. queue'[k] = queue[k + 1] /\ k + 1 \in 1..Len(queue) BY <2>2 DEF Typing
    <3> QED BY <3>1 DEF Typing
  <2> QED BY <2>1, <2>2
<1>2. Addressed(m) BY <1>1 DEF AllAddressed
<1> QED BY <1>1, <1>2, AddressedStays

LEMMA AddressedPost ==
    ASSUME Typing, Kinds, born' \in Nat, AllAddressed, NEW n \in Message, Addressed(n),
           queue' = Append(queue, n)
    PROVE  AllAddressed'
<1> SUFFICES ASSUME NEW k \in 1..Len(queue'), NEW m, m = queue'[k] PROVE Addressed(m)'
  BY DEF AllAddressed
<1>1. m \in Message /\ (m = n \/ \E j \in 1..Len(queue) : m = queue[j])
  BY DEF Typing
<1>2. Addressed(m) BY <1>1 DEF AllAddressed
<1> QED BY <1>1, <1>2, AddressedStays

LEMMA HeadAddressed ==
    ASSUME Typing, AllAddressed, queue # <<>> PROVE Addressed(Head(queue)) /\ Head(queue) \in Message
<1>1. Head(queue) = queue[1] /\ 1 \in 1..Len(queue) BY DEF Typing
<1> QED BY <1>1 DEF AllAddressed, Typing

LEMMA QueueUi == UiNext => queue' = queue \/ (queue # <<>> /\ queue' = Tail(queue))
BY DEF UiNext, UiOpenSkipSetup, UiAdd, UiIntervalOk, UiSetupOk, UiCancel, UiDrop, UiDestroy, UserEsc,
   UiStall, UiResume, Dispatch

\* The three things a UI step can do to who is there.
LEMMA UiCases ==
    ASSUME NoSecondDialog, TypeInv, UiNext
    PROVE  \/ NoneAppears /\ OnlyInnermostGoes
           \/ UiOpenSkipSetup /\ ShowsSetup
           \/ UiAdd /\ IsWindow(Head(queue).to) /\ ShowsInterval(Head(queue).to)
<1>0. Typing BY TypingFacts
<1>1. CASE UNCHANGED <<born, win>>
  <2>1. NoneAppears BY <1>0, <1>1, AlterFacts DEF SameKind
  <2>2. OnlyInnermostGoes BY <1>1 DEF OnlyInnermostGoes, IsWindow
  <2> QED BY <2>1, <2>2
<1>2. CASE UiOpenSkipSetup BY <1>1, <1>2, OpensSetup
<1>3. CASE UiAdd BY <1>1, <1>3, OpensInterval
<1>4. CASE ~UiOpenSkipSetup /\ ~UiAdd BY <1>4, NoneAppearsUi, GoesUi
<1> QED BY <1>2, <1>3, <1>4

LEMMA AddIsForSetup ==
    ASSUME Typing, AllAddressed, UiAdd, IsWindow(Head(queue).to)
    PROVE  IsKind(Head(queue).to, "setup") /\ Head(queue).cmd = "add"
<1>1. Head(queue).cmd = "add" /\ queue # <<>> BY DEF UiAdd, Dispatch
<1> QED BY <1>1, HeadAddressed DEF Addressed, IsKind

\* An interval dialog stands in front of the Skip Setup that opened it.
LEMMA OneInnerStays ==
    ASSUME Typing, Owners, OneInner, NoneAppears, OnlyInnermostGoes PROVE OneInner'
<1>1. ASSUME NEW i \in Windows, IsKind(i, "interval")'
      PROVE  IsKind(i, "interval") /\ win'[i].owner = win[i].owner
  BY <1>1 DEF NoneAppears, IsKind, SameKind
<1>2. ASSUME NEW i \in Windows, NEW o \in Windows, IsKind(i, "interval")', win'[i].owner = o
      PROVE  IsKind(o, "setup")'
  <2>1. IsKind(i, "interval") /\ win[i].owner = o /\ o < i /\ IsKind(o, "setup")
    BY <1>1, <1>2 DEF Owners, OneInner, IsKind
  <2>2. ~IsInnermost(o) BY <2>1 DEF IsInnermost, IsKind, Windows
  <2>3. IsWindow(o)' /\ SameKind(o) BY <2>1, <2>2 DEF OnlyInnermostGoes, IsKind, NoneAppears
  <2> QED BY <2>1, <2>3 DEF IsKind, SameKind
<1>3. \A i, j \in Windows : IsKind(i, "interval")' /\ IsKind(j, "interval")' => i = j
  BY <1>1 DEF OneInner
<1> QED BY <1>2, <1>3 DEF OneInner

LEMMA GivenStays ==
    ASSUME Typing, Kinds, born' \in Nat, NEW h, NEW k, Given(h, k) PROVE Given(h, k)'
<1>1. CASE h = Main BY <1>1 DEF Given
<1>2. CASE h # Main
  <2>1. h \in 1..born /\ born \in 0..MaxWindows /\ born' >= born
    BY <1>2 DEF Given, Typing, Handles, Kinds
  <2>2. h \in Windows /\ h <= born /\ h \in 1..born' BY <2>1, UiAssumption DEF Windows
  <2> QED BY <1>2, <2>2 DEF Given, Kinds, SameKind
<1> QED BY <1>1, <1>2

Placed == Owners /\ AllAddressed /\ OneInner

LEMMA PlacedUi ==
    ASSUME NoSecondDialog, TypeInv, Placed, UiNext
    PROVE  Placed' /\ Kinds /\ born' \in Nat
<1>0. Typing BY TypingFacts
<1>1. Owners /\ AllAddressed /\ OneInner BY DEF Placed
<1>2. born' \in Nat BY UiType DEF TypeInv, Handles
<1>3. SUFFICES Owners' /\ OneInner' /\ Kinds
  <2>1. AllAddressed' BY <1>0, <1>1, <1>2, <1>3, QueueUi, AddressedTake
  <2> QED BY <1>2, <1>3, <2>1 DEF Placed
<1>4. CASE NoneAppears /\ OnlyInnermostGoes
  BY <1>0, <1>1, <1>4, NoneAppearsKeeps, OneInnerStays
<1>5. CASE ShowsSetup
  <2>1. PICK w : Shows(w) /\ w.kind = "setup" /\ \A g \in Windows : ~IsKind(g, "setup")
    BY <1>5 DEF ShowsSetup
  <2>2. PICK b \in Windows : /\ win'[b] = w
                             /\ \A h \in Windows \ {b} : /\ win'[h] = win[h]
                                                         /\ IsWindow(h)' <=> IsWindow(h)
    BY <1>0, <1>1, <2>1, ShowsKeeps
  <2>3. Owners' /\ Kinds BY <1>0, <1>1, <2>1, ShowsKeeps
  <2>4. ASSUME NEW i \in Windows, IsKind(i, "interval")' PROVE FALSE
    <3>1. i # b BY <2>1, <2>2, <2>4 DEF IsKind
    <3>2. IsKind(i, "interval") BY <2>2, <2>4, <3>1 DEF IsKind
    <3>3. PICK o \in Windows : o = win[i].owner BY <1>1, <3>2 DEF Owners, IsKind
    <3> QED BY <1>1, <2>1, <3>2, <3>3 DEF OneInner
  <2> QED BY <2>3, <2>4 DEF OneInner
<1>6. CASE UiAdd /\ IsWindow(Head(queue).to) /\ ShowsInterval(Head(queue).to)
  <2>1. PICK d : d = Head(queue).to OBVIOUS
  <2>2. IsKind(d, "setup") /\ d \in Windows
    BY <1>0, <1>1, <1>6, <2>1, AddIsForSetup, LiveHandle DEF Typing, IsKind
  <2>3. PICK w : Shows(w) /\ w.kind = "interval" /\ w.owner = d
                 /\ \A g \in Windows : ~IsKind(g, "interval")
    BY <1>6, <2>1 DEF ShowsInterval
  <2>4. PICK b \in Windows : /\ b = born + 1 /\ win'[b] = w
                             /\ \A h \in Windows \ {b} : /\ win'[h] = win[h]
                                                         /\ IsWindow(h)' <=> IsWindow(h)
    BY <1>0, <1>1, <2>2, <2>3, ShowsKeeps
  <2>5. Owners' /\ Kinds BY <1>0, <1>1, <2>2, <2>3, ShowsKeeps
  <2>6. IsKind(d, "setup")'
    <3>1. d # b BY <1>0, <2>2, <2>4 DEF IsKind, IsWindow, Typing, Handles
    <3> QED BY <2>2, <2>4, <3>1 DEF IsKind
  <2>7. \A i \in Windows : IsKind(i, "interval")' => i = b BY <2>3, <2>4 DEF IsKind
  <2> QED BY <2>3, <2>4, <2>5, <2>6, <2>7 DEF OneInner
<1> QED BY <1>4, <1>5, <1>6, UiCases

\* What the pump thread posts, and from where.
Posting(h, c) ==
    \/ pc = "post" /\ h = Main /\ c = "open"
    \/ pc = "add" /\ h = dialog /\ c = "add"
    \/ pc = "intervalOk" /\ h = interval /\ c = "ok"
    \/ pc = "intervalCancel" /\ h = interval /\ c = "cancel"
    \/ pc = "ok" /\ h = dialog /\ c = "ok"
    \/ pc = "cancel" /\ h = dialog /\ c = "cancel"

LEMMA PumpPosts ==
    ASSUME Pump
    PROVE  queue' = queue \/ \E h, c : Posting(h, c) /\ PostMessage(h, c)
<1>1. CASE PostOpen
  <2>1. CASE PostMessage(Main, "open") BY <1>1, <2>1 DEF PostOpen, Posting
  <2>2. CASE PostMessageFails(Main) BY <2>2 DEF PostMessageFails, uiVars
  <2> QED BY <1>1, <2>1, <2>2 DEF PostOpen
<1>2. CASE ClickAdd
  <2>1. CASE PostMessage(dialog, "add") BY <1>2, <2>1 DEF ClickAdd, Posting
  <2>2. CASE PostMessageFails(dialog) BY <2>2 DEF PostMessageFails, uiVars
  <2> QED BY <1>2, <2>1, <2>2 DEF ClickAdd
<1>3. CASE ClickIntervalOk
  <2>1. CASE PostMessage(interval, "ok") BY <1>3, <2>1 DEF ClickIntervalOk, Posting
  <2>2. CASE PostMessageFails(interval) BY <2>2 DEF PostMessageFails, uiVars
  <2> QED BY <1>3, <2>1, <2>2 DEF ClickIntervalOk
<1>4. CASE ClickIntervalCancel
  <2>1. CASE PostMessage(interval, "cancel") BY <1>4, <2>1 DEF ClickIntervalCancel, Posting
  <2>2. CASE PostMessageFails(interval) BY <2>2 DEF PostMessageFails, uiVars
  <2> QED BY <1>4, <2>1, <2>2 DEF ClickIntervalCancel
<1>5. CASE ClickOk
  <2>1. CASE PostMessage(dialog, "ok") BY <1>5, <2>1 DEF ClickOk, Posting
  <2>2. CASE PostMessageFails(dialog) BY <2>2 DEF PostMessageFails, uiVars
  <2> QED BY <1>5, <2>1, <2>2 DEF ClickOk
<1>6. CASE ClickCancel
  <2>1. CASE PostMessage(dialog, "cancel") BY <1>6, <2>1 DEF ClickCancel, Posting
  <2>2. CASE PostMessageFails(dialog) BY <2>2 DEF PostMessageFails, uiVars
  <2> QED BY <1>6, <2>1, <2>2 DEF ClickCancel
<1>7. CASE OpenDialog /\ ~PostOpen
  BY <1>7 DEF OpenDialog, ArmHook, AwaitCapture, FindAndParkFallback, Unhook,
     ResolveSkipSetupControls, uiVars
<1>8. CASE AddRange /\ ~(ClickAdd \/ ClickIntervalOk \/ ClickIntervalCancel)
  BY <1>8 DEF AddRange, EnsureSkipEnabled, FillInterval, ReadItemCount, WaitForSkipIntervalSetup,
     ResolveSkipIntervalControls, VerifySkipIntervalReadback, AwaitIntervalOk,
     AwaitIntervalCancel, VerifyItemCount, uiVars
<1>9. CASE AwaitOk \/ AwaitCancel \/ Return BY <1>9 DEF AwaitOk, AwaitCancel, Return, uiVars
<1> QED BY <1>1, <1>2, <1>3, <1>4, <1>5, <1>6, <1>7, <1>8, <1>9 DEF Pump, CloseDialog

LEMMA PostsAddressed ==
    ASSUME Typing, Holding, NEW h, NEW c, Posting(h, c)
    PROVE  Addressed(Msg(h, c)) /\ (h \in Handles => Msg(h, c) \in Message)
<1>1. born \in Nat BY DEF Typing, Handles
<1>2. dialog # Main => dialog \in 1..born /\ win[dialog].kind = "setup" BY DEF Holding, Given
<1>3. interval # Main => interval \in 1..born BY DEF Holding, Given
<1>4. pc \in WithDialog => dialog # Main BY DEF Holding
<1>5. pc \in WithInterval => interval # Main BY DEF Holding
<1>6. c \in Commands BY DEF Posting, Commands
<1>7. CASE pc = "post" BY <1>1, <1>7 DEF Posting, Addressed, Msg, Main, Message, Commands
<1>8. CASE pc \in {"add", "ok", "cancel"}
  <2>1. dialog \in 1..born /\ dialog # Main /\ win[dialog].kind = "setup"
    BY <1>2, <1>4, <1>8 DEF WithDialog, Mid, WithInterval
  <2> QED BY <1>1, <1>6, <1>8, <2>1 DEF Posting, Addressed, Msg, Main, Message
<1>9. CASE pc \in {"intervalOk", "intervalCancel"}
  <2>1. interval \in 1..born /\ interval # Main BY <1>3, <1>5, <1>9 DEF WithInterval
  <2> QED BY <1>1, <1>6, <1>9, <2>1 DEF Posting, Addressed, Msg, Main, Message
<1> QED BY <1>7, <1>8, <1>9 DEF Posting

LEMMA PlacedPump ==
    ASSUME TypeInv, Placed, Holding, Pump PROVE Placed' /\ Kinds /\ NoneAppears /\ born' \in Nat
<1>0. Typing /\ NoneAppears BY TypingFacts, NoneAppearsPump
<1>1. Owners /\ AllAddressed /\ OneInner BY DEF Placed
<1>2. OnlyInnermostGoes BY GoesPump DEF OnlyInnermostGoes
<1>3. Owners' /\ Kinds /\ OneInner' BY <1>0, <1>1, <1>2, NoneAppearsKeeps, OneInnerStays
<1>4. born' \in Nat BY <1>0 DEF NoneAppears, Typing, Handles
<1>5. AllAddressed'
  <2>1. CASE queue' = queue BY <1>0, <1>1, <1>3, <1>4, <2>1, AddressedTake
  <2>2. CASE \E h, c : Posting(h, c) /\ PostMessage(h, c)
    <3>1. PICK h, c : Posting(h, c) /\ PostMessage(h, c) BY <2>2
    <3>2. queue' = Append(queue, Msg(h, c)) BY <3>1 DEF PostMessage, Msg
    <3>3. h \in Handles BY <1>0, <3>1, LiveHandle DEF PostMessage, Typing
    <3>4. PICK n \in Message : n = Msg(h, c) /\ Addressed(n)
      BY <1>0, <3>1, <3>3, PostsAddressed
    <3> QED BY <1>0, <1>1, <1>3, <1>4, <3>2, <3>4, AddressedPost
  <2> QED BY <2>1, <2>2, PumpPosts
<1> QED BY <1>0, <1>3, <1>4, <1>5 DEF Placed

\* The handles held, step by step.
LEMMA HoldingPump ==
    ASSUME TypeInv, Holding, Pump, Kinds, born' \in Nat PROVE Holding'
<1>0. Typing BY TypingFacts
<1>1. Given(captured, "setup")' /\ (dialog' \in {Main, dialog, captured} => Given(dialog, "setup")')
  <2>1. captured' \in {Main, captured}
    BY DEF Pump, OpenDialog, ArmHook, PostOpen, AwaitCapture, FindAndParkFallback, Unhook,
       ResolveSkipSetupControls, AddRange, EnsureSkipEnabled, ReadItemCount, ClickAdd,
       WaitForSkipIntervalSetup, ResolveSkipIntervalControls, FillInterval,
       VerifySkipIntervalReadback, ClickIntervalOk, AwaitIntervalOk, ClickIntervalCancel,
       AwaitIntervalCancel, VerifyItemCount, CloseDialog, ClickOk, AwaitOk, ClickCancel,
       AwaitCancel, Return, hookVars
  <2>2. PICK c, d : c = captured /\ d = dialog /\ Given(c, "setup")' /\ Given(d, "setup")'
    BY <1>0, GivenStays DEF Holding
  <2>3. captured' \in {Main, c} BY <2>1, <2>2
  <2> QED BY <2>2, <2>3 DEF Given
<1>2. ASSUME NEW h \in Windows, NEW k, IsKind(h, k) PROVE Given(h, k)'
  <2>1. Given(h, k) BY <1>2 DEF IsKind, IsWindow, Given
  <2> QED BY <1>0, <2>1, GivenStays
<1>3. Given(dialog, "setup")'
  <2>1. CASE FindAndParkFallback
    <3>1. dialog' = dialog \/ \E h \in Windows : IsKind(h, "setup") /\ dialog' = h
      BY <2>1 DEF FindAndParkFallback
    <3>2. CASE dialog' = dialog BY <1>1, <3>2
    <3>3. CASE \E h \in Windows : IsKind(h, "setup") /\ dialog' = h
      <4>1. PICK h \in Windows : IsKind(h, "setup") /\ dialog' = h BY <3>3
      <4> QED BY <1>2, <4>1 DEF Given
    <3> QED BY <3>1, <3>2, <3>3
  <2>2. CASE ~FindAndParkFallback
    <3>1. dialog' \in {Main, dialog, captured}
      BY <2>2 DEF Pump, OpenDialog, ArmHook, PostOpen, AwaitCapture, FindAndParkFallback, Unhook,
       ResolveSkipSetupControls, AddRange, EnsureSkipEnabled, ReadItemCount, ClickAdd,
       WaitForSkipIntervalSetup, ResolveSkipIntervalControls, FillInterval,
       VerifySkipIntervalReadback, ClickIntervalOk, AwaitIntervalOk, ClickIntervalCancel,
       AwaitIntervalCancel, VerifyItemCount, CloseDialog, ClickOk, AwaitOk, ClickCancel,
       AwaitCancel, Return, foundVars
    <3> QED BY <1>1, <3>1
  <2> QED BY <2>1, <2>2
<1>4. Given(interval, "interval")'
  <2>0. PICK i : i = interval /\ Given(i, "interval")' BY <1>0, GivenStays DEF Holding
  <2>1. CASE WaitForSkipIntervalSetup
    <3>1. interval' = interval \/ \E h \in Windows : IsKind(h, "interval") /\ interval' = h
      BY <2>1 DEF WaitForSkipIntervalSetup
    <3>2. CASE interval' = interval BY <2>0, <3>2 DEF Given
    <3>3. CASE \E h \in Windows : IsKind(h, "interval") /\ interval' = h
      <4>1. PICK h \in Windows : IsKind(h, "interval") /\ interval' = h BY <3>3
      <4> QED BY <1>2, <4>1 DEF Given
    <3> QED BY <3>1, <3>2, <3>3
  <2>2. CASE ~WaitForSkipIntervalSetup
    <3>1. interval' \in {Main, interval}
      BY <2>2 DEF Pump, OpenDialog, ArmHook, PostOpen, AwaitCapture, FindAndParkFallback, Unhook,
       ResolveSkipSetupControls, AddRange, EnsureSkipEnabled, ReadItemCount, ClickAdd,
       WaitForSkipIntervalSetup, ResolveSkipIntervalControls, FillInterval,
       VerifySkipIntervalReadback, ClickIntervalOk, AwaitIntervalOk, ClickIntervalCancel,
       AwaitIntervalCancel, VerifyItemCount, CloseDialog, ClickOk, AwaitOk, ClickCancel,
       AwaitCancel, Return, foundVars
    <3>2. interval' \in {Main, i} BY <2>0, <3>1
    <3> QED BY <2>0, <3>2 DEF Given
  <2> QED BY <2>1, <2>2
<1>5. (pc' \in WithDialog => dialog' # Main) /\ (pc' \in WithInterval => interval' # Main)
  <2> USE DEF Holding, WithDialog, Mid, WithInterval, Goto, GoOn, Fail, Late
  <2>1. CASE OpenDialog
    BY <2>1 DEF OpenDialog, ArmHook, PostOpen, AwaitCapture, FindAndParkFallback, Unhook,
       ResolveSkipSetupControls, foundVars
  <2>2. CASE WaitForSkipIntervalSetup
    BY <1>0, <2>2 DEF WaitForSkipIntervalSetup, Typing
  <2>3. CASE AddRange /\ ~WaitForSkipIntervalSetup
    <3>1. dialog' = dialog /\ interval' = interval
      BY <2>3 DEF AddRange, EnsureSkipEnabled, ReadItemCount, ClickAdd,
       ResolveSkipIntervalControls, FillInterval, VerifySkipIntervalReadback, ClickIntervalOk,
       AwaitIntervalOk, ClickIntervalCancel, AwaitIntervalCancel, VerifyItemCount, foundVars
    <3>2. pc \in WithDialog /\ (pc' \in WithInterval => pc \in WithInterval)
      BY <2>3 DEF AddRange, EnsureSkipEnabled, ReadItemCount, ClickAdd,
       ResolveSkipIntervalControls, FillInterval, VerifySkipIntervalReadback, ClickIntervalOk,
       AwaitIntervalOk, ClickIntervalCancel, AwaitIntervalCancel, VerifyItemCount
    <3> QED BY <3>1, <3>2
  <2>4. CASE CloseDialog \/ Return
    BY <2>4 DEF CloseDialog, ClickOk, AwaitOk, ClickCancel, AwaitCancel, Return, foundVars
  <2> QED BY <2>1, <2>2, <2>3, <2>4 DEF Pump
<1> QED BY <1>1, <1>3, <1>4, <1>5 DEF Holding

LEMMA ShapeInv ==
    ASSUME NoSecondDialog
    PROVE  TypeInv /\ Placed /\ Holding /\ [Next]_vars => Placed' /\ Holding'
<1> SUFFICES ASSUME TypeInv, Placed, Holding, [Next]_vars PROVE Placed' /\ Holding'
  OBVIOUS
<1>0. Typing BY TypingFacts
<1>1. CASE Ui
  <2>1. Placed' /\ Kinds /\ born' \in Nat BY <1>1, PlacedUi DEF Ui
  <2>2. PICK c, d, i : /\ c = captured /\ d = dialog /\ i = interval
                       /\ Given(c, "setup")' /\ Given(d, "setup")' /\ Given(i, "interval")'
    BY <1>0, <2>1, GivenStays DEF Holding
  <2>3. dialog' = d /\ interval' = i /\ pc' = pc BY <1>1, <2>2 DEF Ui, foundVars, progress
  <2>4. Given(captured, "setup")'
    <3>1. CASE captured' = captured
      <4>1. captured' = c BY <2>2, <3>1
      <4> QED BY <2>2, <4>1 DEF Given
    <3>2. CASE \E h \in Windows : Activated(h) /\ captured' = h
      BY <3>2 DEF Activated, IsKind, IsWindow, Given
    <3> QED BY <1>1, <3>1, <3>2 DEF Ui, CbtHookProc
  <2>5. Given(dialog, "setup")' /\ Given(interval, "interval")' BY <2>2, <2>3 DEF Given
  <2> QED BY <2>1, <2>2, <2>3, <2>4, <2>5 DEF Holding
<1>2. CASE Pump BY <1>2, PlacedPump, HoldingPump
<1>3. ASSUME UNCHANGED uiVars, UNCHANGED <<captured, dialog, interval>>,
             pc' = pc \/ pc' \notin WithDialog
      PROVE  Placed' /\ Holding'
  <2>1. Placed' BY <1>3 DEF Placed, Owners, AllAddressed, Addressed, OneInner, IsKind, IsWindow, uiVars
  <2>2. Holding' BY <1>3 DEF Holding, Given, uiVars, WithDialog, Mid
  <2> QED BY <2>1, <2>2
<1>4. ASSUME Begin PROVE UNCHANGED uiVars /\ UNCHANGED <<captured, dialog, interval>> /\ pc' \notin WithDialog
  BY <1>4 DEF Begin, Goto, hookVars, foundVars, WithDialog, Mid, WithInterval
<1>5. CASE StartSelfCheck BY <1>3, <1>4, <1>5 DEF StartSelfCheck
<1>6. ASSUME NEW r \in Ranges, StartCommit(r) PROVE Placed' /\ Holding'
  BY <1>3, <1>4, <1>6 DEF StartCommit
<1>7. CASE UNCHANGED vars
  BY <1>3, <1>7 DEF vars, hookVars, foundVars, progress
<1> QED BY <1>1, <1>2, <1>5, <1>6, <1>7 DEF Next

-----------------------------------------------------------------------------
(***************************************************************************)
(* What a UI step leaves of the dialog that is there.                        *)
(***************************************************************************)
Waiting == UNCHANGED <<callVars, foundVars, progress>>

\* Nothing was ever posted to a handle not given out.
LEMMA Fresh ==
    ASSUME Typing, AllAddressed, NEW h \in Windows, h > born
    PROVE  Unclosed(h) /\ ~Saves(h) /\ ~Adds(h) /\ AddsOnce(h) /\ ~Oks(h)
<1>1. \A k \in 1..Len(queue) : queue[k].to # h
  <2>1. \A k \in 1..Len(queue) : queue[k].to <= born BY DEF AllAddressed, Addressed
  <2>4. \A k \in 1..Len(queue) : queue[k] \in Message BY DEF Typing
  <2>2. \A k \in 1..Len(queue) : queue[k].to \in Nat BY <2>4 DEF Message, Handles
  <2>3. born \in Nat /\ h \in Nat BY DEF Typing, Handles, Windows
  <2> QED BY <2>1, <2>2, <2>3
<1>2. \A c : Msg(h, c).to = h BY DEF Msg
<1>3. Unclosed(h) BY <1>1 DEF Unclosed, UnclosedIn, Closes
<1>4. ~Saves(h) /\ ~Adds(h) BY <1>1, <1>2 DEF Saves, SavesIn, Adds, AddsIn, Reaches
<1>5. AddsOnce(h) BY <1>1, <1>2 DEF AddsOnce, AddsOnceIn, Reaches
<1>6. ~Oks(h) BY <1>1, <1>2 DEF Oks, OksIn
<1> QED BY <1>3, <1>4, <1>5, <1>6

LEMMA SavesIsOk == \A d : (Saves(d) => Oks(d)) /\ (Saves(d)' => Oks(d)')
BY DEF Saves, SavesIn, Oks, OksIn, Reaches

LEMMA Innermost ==
    ASSUME Typing, OneSetup, Owners, OneInner
    PROVE  /\ \A i \in Windows : IsKind(i, "interval") => IsInnermost(i)
           /\ \A d \in Windows : IsKind(d, "setup") /\ (\A i \in Windows : ~IsKind(i, "interval"))
                                   => IsInnermost(d)
<1>1. \A h \in Windows : IsWindow(h) => IsKind(h, "setup") \/ IsKind(h, "interval")
  BY DEF Typing, Window, IsKind
<1>2. ASSUME NEW i \in Windows, IsKind(i, "interval") PROVE IsInnermost(i)
  <2>1. PICK o \in Windows : o = win[i].owner /\ o < i /\ IsKind(o, "setup")
    BY <1>2 DEF Owners, OneInner, IsKind
  <2>2. ASSUME NEW g \in Windows, IsWindow(g) PROVE g <= i
    <3>1. g = o \/ g = i BY <1>1, <1>2, <2>1, <2>2 DEF OneSetup, OneInner
    <3> QED BY <2>1, <3>1 DEF Windows
  <2> QED BY <1>2, <2>2 DEF IsInnermost, IsKind
<1>3. ASSUME NEW d \in Windows, IsKind(d, "setup"), \A i \in Windows : ~IsKind(i, "interval")
      PROVE  IsInnermost(d)
  <2>1. \A g \in Windows : IsWindow(g) => g = d BY <1>1, <1>3 DEF OneSetup
  <2>2. \A g \in Windows : IsWindow(g) => g <= d BY <2>1 DEF Windows
  <2> QED BY <1>3, <2>2 DEF IsInnermost, IsKind
<1> QED BY <1>2, <1>3

\* A step that only takes things away from a dialog, and leaves its rows and the
\* fields alone, leaves it clean.
LEMMA Carry ==
    ASSUME NEW d \in Windows, Clean(d), Waiting, saved' = saved,
           win'[d].rows = win[d].rows, win'[d].life = "open" => win[d].life = "open",
           \A i \in Windows : /\ SameKind(i) /\ win'[i].field = win[i].field
                              /\ IsWindow(i)' => IsWindow(i)
                              /\ win'[i].life = "open" => win[i].life = "open"
                              /\ Oks(i)' => Oks(i),
           win'[d].life = "open" => /\ Unclosed(d)' => Unclosed(d)
                                    /\ Saves(d)' => Saves(d)
                                    /\ Adds(d)' => Adds(d)
                                    /\ AddsOnce(d) => AddsOnce(d)'
    PROVE  Clean(d)'
<1>1. \A i \in Windows : Inner(i, d)' <=> Inner(i, d) BY DEF Inner, SameKind
<1>2. (Had(d)' <=> Had(d)) /\ (Has(d)' => Has(d)) BY <1>1 DEF Had, Has
<1>3. (Driven(d)' <=> Driven(d)) /\ (Free(d)' => Free(d))
  BY DEF Driven, Free, Waiting, foundVars, progress
<1>4. Once(d)' BY <1>1, <1>2 DEF Once, Clean
<1>5. Settled(d)' BY <1>2, <1>3 DEF Settled, Clean, Free
<1>6. OkLast(d)' BY <1>2 DEF OkLast, Clean
<1>7. UNCHANGED <<pc, range, dialog, job, countBefore>>
  BY DEF Waiting, foundVars, progress, callVars
<1>8. Verified(d)'
  <2> SUFFICES ASSUME Free(d)', Driven(d)' PROVE Growing(d)' /\ Checked(d)'
    BY DEF Verified
  <2>1. Growing(d) /\ Checked(d) BY <1>3 DEF Verified, Clean
  <2>2. Growing(d)' BY <1>7, <2>1 DEF Growing
  <2>3. Checked(d)' BY <1>1, <1>7, <2>1 DEF Checked
  <2> QED BY <2>2, <2>3
<1>9. Numbered(d)' BY <1>3, <1>7 DEF Numbered, Clean
<1>10. Promised(d)' BY DEF Promised, Clean
<1> QED BY <1>4, <1>5, <1>6, <1>8, <1>9, <1>10 DEF Clean

LEMMA LinkedUi ==
    ASSUME Typing, Linked, Holding, Waiting, NoneAppears PROVE Linked'
<1>1. UNCHANGED <<pc, dialog, interval>> BY DEF Waiting, foundVars, progress
<1>2. interval = Main \/ interval \in Windows BY UiAssumption DEF Holding, Given, Typing, Handles, Windows
<1>3. dialog = Main \/ dialog \in Windows BY UiAssumption DEF Holding, Given, Typing, Handles, Windows
<1>4. ~IsWindow(Main) /\ ~IsWindow(Main)' BY DEF IsWindow, Main
<1>5. IsWindow(interval)' => IsWindow(interval) BY <1>1, <1>2, <1>4 DEF NoneAppears
<1>6. IsKind(dialog, "setup")' => IsKind(dialog, "setup")
  BY <1>1, <1>3, <1>4 DEF NoneAppears, IsKind, SameKind
<1>7. pc \in WithInterval => win'[interval].owner = win[interval].owner
  BY <1>2 DEF Holding, NoneAppears, SameKind
<1> QED BY <1>1, <1>5, <1>6, <1>7 DEF Linked

AllClean == \A d \in Windows : IsKind(d, "setup") => Clean(d)
World == Typing /\ OneSetup /\ Placed /\ Holding /\ Linked /\ AllClean

LEMMA CleanOpenSetup ==
    ASSUME World, Waiting, UiOpenSkipSetup, ShowsSetup, saved' = saved PROVE AllClean'
<1>0. Typing /\ Owners /\ AllAddressed BY DEF World, Placed
<1>1. PICK w : Shows(w) /\ w.kind = "setup" /\ w.rows = saved /\ \A g \in Windows : ~IsKind(g, "setup")
  BY DEF ShowsSetup
<1>2. PICK b \in Windows : /\ b = born + 1 /\ born' = b /\ win'[b] = w
                           /\ \A h \in Windows \ {b} : /\ win'[h] = win[h]
                                                       /\ IsWindow(h)' <=> IsWindow(h)
  BY <1>0, <1>1, ShowsKeeps
<1>3. born \in Nat /\ b > born BY <1>0, <1>2 DEF Typing, Handles
<1>4. Unclosed(b) /\ ~Saves(b) /\ ~Adds(b) /\ AddsOnce(b) /\ ~Oks(b) BY <1>0, <1>3, Fresh
<1>5. queue \in Seq(Message) /\ queue # <<>> /\ queue' = Tail(queue)
  BY <1>0 DEF UiOpenSkipSetup, Dispatch, Typing
<1>6. ~Saves(b)' /\ ~Adds(b)' /\ ~Oks(b)'
  <2>1. Head(queue) = queue[1] /\ 1 \in 1..Len(queue) BY <1>5
  <2>2. ~Closes(Head(queue), b) BY <1>4, <2>1 DEF Unclosed, UnclosedIn
  <2> QED BY <1>4, <1>5, <2>2, Taken
<1>7. AddsOnce(b)' BY <1>6 DEF AddsOnce, AddsOnceIn, Adds, AddsIn
<1>8. \A i \in Windows : ~Inner(i, b)'
  <2> SUFFICES ASSUME NEW i \in Windows, win'[i].kind = "interval", win'[i].owner = b PROVE FALSE
    BY DEF Inner
  <2>1. i # b BY <1>1, <1>2
  <2>2. win[i].kind = "interval" /\ win[i].owner = b BY <1>2, <2>1
  <2>3. i <= born /\ b < i BY <2>2, <1>0 DEF Owners
  <2> QED BY <1>3, <2>3 DEF Windows
<1>9. dialog' # b
  <2>1. dialog' = dialog /\ (dialog = Main \/ dialog \in 1..born)
    BY DEF Waiting, foundVars, World, Holding, Given
  <2> QED BY <1>3, <2>1 DEF Main
<1>10. Clean(b)'
  <2>1. Once(b)' BY <1>6, <1>7, <1>8 DEF Once
  <2>2. Settled(b)' BY <1>1, <1>2, <1>6, <1>8 DEF Settled, Had
  <2>3. OkLast(b)' BY <1>6 DEF OkLast
  <2>4. Verified(b)' /\ Numbered(b)' BY <1>9 DEF Verified, Numbered, Driven
  <2>5. Promised(b)' BY <1>6 DEF Promised
  <2> QED BY <2>1, <2>2, <2>3, <2>4, <2>5 DEF Clean
<1>11. ASSUME NEW d \in Windows, IsKind(d, "setup")' PROVE d = b
  BY <1>1, <1>2, <1>11 DEF IsKind
<1> QED BY <1>10, <1>11 DEF AllClean

LEMMA CleanOpenInterval ==
    ASSUME World, Waiting, UiAdd, IsWindow(Head(queue).to), ShowsInterval(Head(queue).to),
           saved' = saved
    PROVE  AllClean'
<1>0. /\ Typing /\ Owners /\ AllAddressed /\ OneSetup /\ OneInner /\ AllClean /\ Holding /\ Linked
  BY DEF World, Placed
<1>1. PICK d : d = Head(queue).to OBVIOUS
<1>2. IsKind(d, "setup") /\ d \in Windows /\ Head(queue).cmd = "add"
  BY <1>0, <1>1, AddIsForSetup, LiveHandle DEF Typing, IsKind
<1>3. Head(queue) = Msg(d, "add")
  BY <1>0, <1>1, <1>2, HeadAddressed DEF Msg, Message, UiAdd, Dispatch
<1>4. PICK w : Shows(w) /\ w.kind = "interval" /\ w.owner = d /\ \A g \in Windows : ~IsKind(g, "interval")
  BY <1>1 DEF ShowsInterval
<1>5. PICK b \in Windows : /\ b = born + 1 /\ born' = b /\ win'[b] = w
                           /\ \A h \in Windows \ {b} : /\ win'[h] = win[h]
                                                       /\ IsWindow(h)' <=> IsWindow(h)
  BY <1>0, <1>2, <1>4, ShowsKeeps
<1>6. born \in Nat /\ b > born BY <1>0, <1>5 DEF Typing, Handles
<1>7. queue \in Seq(Message) /\ queue # <<>> /\ queue' = Tail(queue)
  BY <1>0 DEF UiAdd, Dispatch, Typing
<1>8. ~Oks(b)'
  <2>1. ~Oks(b) BY <1>0, <1>6, Fresh
  <2> QED BY <1>7, <2>1, Taken
<1>9. win[d].life = "open"
  <2>1. IsInnermost(d) BY <1>0, <1>2, <1>4, Innermost
  <2> QED BY <1>2, <2>1 DEF UiAdd, Dispatch
<1>10. Clean(d) BY <1>0, <1>2 DEF AllClean
<1>11. Adds(d) /\ AddsOnce(d) /\ ~Had(d) /\ ~Oks(d)
  <2>1. Adds(d) BY <1>3, <1>7, Taken
  <2> QED BY <1>9, <1>10, <2>1 DEF Clean, Once, OkLast
<1>12. /\ ~Closes(Head(queue), d) /\ (Unclosed(d)' <=> Unclosed(d)) /\ AddsOnce(d)' /\ ~Adds(d)'
       /\ ~Oks(d)'
  <2>1. ~Closes(Head(queue), d) BY <1>2 DEF Closes
  <2> QED BY <1>3, <1>7, <1>11, <2>1, Taken
<1>13. ~Saves(d)' BY <1>12, SavesIsOk
<1>14. d # b BY <1>0, <1>2, <1>6 DEF IsKind, IsWindow, Typing, Handles
<1>15. win'[d] = win[d] BY <1>2, <1>5, <1>14
<1>16. \A i \in Windows : Inner(i, d)' => i = b
  BY <1>5, <1>11 DEF Inner, Had
<1>17. UNCHANGED <<pc, dialog, interval, range, job, countBefore>>
  BY DEF Waiting, foundVars, progress, callVars
<1>18. dialog = d => pc \notin WithInterval
  <2> SUFFICES ASSUME dialog = d, pc \in WithInterval PROVE FALSE
    OBVIOUS
  <2>1. interval \in Windows /\ win[interval].kind = "interval"
    BY <1>0, UiAssumption DEF Holding, Given, Typing, Handles, Windows
  <2>2. win[interval].owner = d BY <1>0, <1>2 DEF Linked
  <2> QED BY <1>11, <2>1, <2>2 DEF Had, Inner
<1>19. Clean(d)'
  <2>1. Once(d)' BY <1>12, <1>16 DEF Once
  <2>2. Free(d)' => Free(d) /\ Driven(d)'
    BY <1>10, <1>11, <1>12, <1>15, <1>17 DEF Free, Driven, Clean, Settled
  <2>3. Settled(d)' BY <2>2 DEF Settled
  <2>4. OkLast(d)' BY <1>12 DEF OkLast
  <2>5. Verified(d)'
    <3> SUFFICES ASSUME Free(d)', Driven(d)' PROVE Growing(d)' /\ Checked(d)'
      BY DEF Verified
    <3>1. Free(d) /\ Driven(d) BY <1>17, <2>2 DEF Driven
    <3>2. Growing(d) BY <1>10, <3>1 DEF Clean, Verified
    <3>3. Growing(d)' BY <1>15, <1>17, <3>2 DEF Growing
    <3>4. pc' \notin {"intervalOk", "intervalOkWait"}
      BY <1>17, <1>18, <3>1 DEF Driven, WithInterval
    <3>5. Checked(d)' BY <1>8, <1>16, <3>4 DEF Checked
    <3> QED BY <3>3, <3>5
  <2>6. Numbered(d)' BY <1>10, <1>17, <2>2 DEF Numbered, Clean
  <2>7. Promised(d)' BY <1>13 DEF Promised
  <2> QED BY <2>1, <2>3, <2>4, <2>5, <2>6, <2>7 DEF Clean
<1>20. ASSUME NEW e \in Windows, IsKind(e, "setup")' PROVE e = d
  <2>1. e # b BY <1>4, <1>5, <1>20 DEF IsKind
  <2>2. IsKind(e, "setup") BY <1>5, <1>20, <2>1 DEF IsKind
  <2> QED BY <1>0, <1>2, <2>2 DEF OneSetup
<1> QED BY <1>19, <1>20 DEF AllClean

\* The OK of an interval dialog appends a verified field, or a field to a
\* dialog that is going to be cancelled.
LEMMA CleanIntervalOk ==
    ASSUME World, Waiting, UiIntervalOk PROVE AllClean'
<1>0. /\ Typing /\ Owners /\ AllAddressed /\ OneSetup /\ OneInner /\ AllClean
  BY DEF World, Placed
<1>1. PICK i : i = Head(queue).to OBVIOUS
<1>2. /\ IsKind(i, "interval") /\ i \in Windows /\ born' = born /\ saved' = saved
      /\ win' = [EndDialog(i) EXCEPT ![win[i].owner].rows = Append(@, win[i].field)]
      /\ Head(queue).cmd = "ok" /\ queue # <<>> /\ queue' = Tail(queue) /\ queue \in Seq(Message)
  BY <1>0, <1>1, LiveHandle DEF UiIntervalOk, IsKind, Typing, Dispatch
<1>3. Head(queue) = Msg(i, "ok") BY <1>0, <1>1, <1>2, HeadAddressed DEF Msg, Message
<1>4. PICK d \in Windows : d = win[i].owner /\ IsKind(d, "setup") /\ d # i
  BY <1>0, <1>2 DEF Owners, OneInner, IsKind
<1>5. \A g \in Windows : /\ SameKind(g) /\ win'[g].field = win[g].field
                         /\ win'[g].life = IF g = i THEN "ended" ELSE win[g].life
                         /\ win'[g].rows = IF g = d THEN Append(win[g].rows, win[i].field)
                                           ELSE win[g].rows
  <2> SUFFICES ASSUME NEW g \in Windows
               PROVE  /\ SameKind(g) /\ win'[g].field = win[g].field
                      /\ win'[g].life = IF g = i THEN "ended" ELSE win[g].life
                      /\ win'[g].rows = IF g = d THEN Append(win[g].rows, win[i].field)
                                        ELSE win[g].rows
    OBVIOUS
  <2>1. /\ SameKind(g) /\ win'[g].field = win[g].field
        /\ win'[g].life = IF g = i THEN "ended" ELSE win[g].life
        /\ win'[g].rows = IF g = win[i].owner THEN Append(win[g].rows, win[i].field)
                          ELSE win[g].rows
    BY <1>0, <1>2, RowFacts DEF Typing
  <2> QED BY <1>4, <2>1
<1>6. win[i].life = "open"
  <2>1. IsInnermost(i) BY <1>0, <1>2, Innermost
  <2> QED BY <1>2, <2>1 DEF UiIntervalOk, Dispatch
<1>7. Clean(d) /\ Inner(i, d) /\ Had(d) /\ Has(d) /\ ~Oks(d) /\ ~Saves(d)
  <2>1. Clean(d) /\ Inner(i, d) /\ IsWindow(i) BY <1>0, <1>2, <1>4 DEF AllClean, Inner, IsKind
  <2>2. Had(d) /\ Has(d) BY <1>2, <2>1 DEF Had, Has
  <2> QED BY <2>1, <2>2, SavesIsOk DEF Clean, OkLast
<1>8. ~Closes(Head(queue), d) BY <1>1, <1>4 DEF Closes
<1>9. /\ Unclosed(d)' <=> Unclosed(d)
      /\ Adds(d)' => Adds(d)
      /\ AddsOnce(d) => AddsOnce(d)'
      /\ ~Oks(d)' /\ ~Saves(d)'
  <2>1. Unclosed(d)' <=> Unclosed(d) BY <1>2, <1>8, Taken
  <2>2. Adds(d)' => Adds(d) BY <1>2, <1>8, Taken
  <2>3. AddsOnce(d) => AddsOnce(d)' BY <1>2, <1>8, Taken
  <2>4. ~Oks(d)' BY <1>2, <1>7, Taken
  <2> QED BY <2>1, <2>2, <2>3, <2>4, SavesIsOk
<1>10. Oks(i) BY <1>2, <1>3, Taken
<1>11. \A j \in Windows : Inner(j, d)' <=> Inner(j, d) BY <1>5 DEF Inner, SameKind
<1>12. Had(d)' BY <1>7, <1>11 DEF Had
<1>13. UNCHANGED <<pc, dialog, interval, range, job, countBefore>>
  BY DEF Waiting, foundVars, progress, callVars
<1>14. (Free(d)' <=> Free(d)) /\ (Driven(d)' <=> Driven(d))
  BY <1>4, <1>5, <1>9, <1>13 DEF Free, Driven
<1>15. Free(d) => Driven(d) /\ Growing(d) /\ Checked(d)
  BY <1>7 DEF Clean, Settled, Verified
<1>16. Clean(d)'
  <2>1. Once(d)'
    <3>1. (AddsOnce(d)' /\ ~Adds(d)') \/ win[d].life # "open"
      BY <1>7, <1>9 DEF Clean, Once
    <3>2. \A j, k \in Windows : Inner(j, d)' /\ Inner(k, d)' => j = k
      BY <1>7, <1>11 DEF Clean, Once
    <3> QED BY <1>4, <1>5, <3>1, <3>2 DEF Once
  <2>2. Settled(d)' BY <1>14, <1>15 DEF Settled
  <2>3. OkLast(d)' BY <1>9 DEF OkLast
  <2>4. Verified(d)'
    <3> SUFFICES ASSUME Free(d) PROVE Growing(d)' /\ Checked(d)'
      BY <1>14 DEF Verified
    <3>1. Driven(d) /\ Growing(d) /\ Checked(d) BY <1>15
    <3>2. /\ pc \in {"intervalOkWait", "cancel"}
          /\ pc = "intervalOkWait" => win[d].rows = saved /\ win[i].field = range
      BY <1>2, <1>6, <1>7, <1>10, <3>1 DEF Checked, IsKind
    <3>3. Growing(d)' BY <1>2, <1>5, <1>13, <3>2 DEF Growing
    <3>4. Checked(d)'
      <4> SUFFICES ASSUME NEW j \in Windows, Inner(j, d)', IsWindow(j)'
                   PROVE  /\ pc' \in {"intervalOk", "intervalOkWait"} => win'[j].field = range'
                          /\ Oks(j)' /\ win'[j].life = "open" =>
                               /\ pc' \in {"intervalOkWait", "cancel"}
                               /\ pc' = "intervalOkWait" => win'[d].rows = saved'
        BY DEF Checked
      <4>1. j = i BY <1>2, <1>7, <1>11 DEF Clean, Once
      <4> QED BY <1>2, <1>5, <1>13, <3>2, <4>1
    <3> QED BY <3>3, <3>4
  <2>5. Numbered(d)' BY <1>2, <1>7, <1>13, <1>14 DEF Numbered, Clean
  <2>6. Promised(d)' BY <1>9 DEF Promised
  <2> QED BY <2>1, <2>2, <2>3, <2>4, <2>5, <2>6 DEF Clean
<1>17. ASSUME NEW e \in Windows, IsKind(e, "setup")' PROVE e = d
  <2>1. IsKind(e, "setup")
    BY <1>2, <1>5, <1>17 DEF IsKind, IsWindow, SameKind
  <2> QED BY <1>0, <1>4, <2>1 DEF OneSetup
<1> QED BY <1>16, <1>17 DEF AllClean

\* The OK of a Skip Setup appends one range to the list.
\* A Skip Setup whose OK is dispatched is open and alone, and saves what it promised.
LEMMA OkSaves ==
    ASSUME World, UiSetupOk
    PROVE  \E d \in Windows : /\ IsKind(d, "setup") /\ win[d].life = "open" /\ Saves(d) /\ ~Has(d)
                              /\ saved' = win[d].rows /\ born' = born
                              /\ Others(d) /\ SameKind(d) /\ win'[d].life = "ended"
                              /\ \A e \in Windows : IsKind(e, "setup")' => e = d
<1>0. /\ Typing /\ Owners /\ AllAddressed /\ OneSetup /\ OneInner /\ AllClean
  BY DEF World, Placed
<1>1. PICK d : d = Head(queue).to OBVIOUS
<1>2. /\ IsKind(d, "setup") /\ d \in Windows /\ born' = born /\ saved' = win[d].rows
      /\ win' = EndDialog(d)
      /\ Head(queue).cmd = "ok" /\ queue # <<>> /\ queue' = Tail(queue) /\ queue \in Seq(Message)
  BY <1>0, <1>1, LiveHandle DEF UiSetupOk, IsKind, Typing, Dispatch
<1>3. Head(queue) = Msg(d, "ok") BY <1>0, <1>1, <1>2, HeadAddressed DEF Msg, Message
<1>4. Others(d) /\ SameKind(d) /\ win'[d].life = "ended" BY <1>0, <1>2, EndFacts DEF Typing
<1>5. Oks(d) /\ Saves(d) BY <1>2, <1>3, Taken
<1>6. ~Has(d) BY <1>0, <1>2, <1>5 DEF AllClean, Clean, OkLast
<1>7. ASSUME NEW i \in Windows, IsKind(i, "interval") PROVE FALSE
  <2>1. PICK o \in Windows : o = win[i].owner /\ IsKind(o, "setup")
    BY <1>0, <1>7 DEF Owners, OneInner, IsKind
  <2>2. o = d BY <1>0, <1>2, <2>1 DEF OneSetup
  <2> QED BY <1>6, <1>7, <2>1, <2>2 DEF Has, Inner, IsKind
<1>8. win[d].life = "open"
  <2>1. IsInnermost(d) BY <1>0, <1>2, <1>7, Innermost
  <2> QED BY <1>2, <2>1 DEF UiSetupOk, Dispatch
<1>9. ASSUME NEW e \in Windows, IsKind(e, "setup")' PROVE e = d
  <2>1. e = d \/ IsKind(e, "setup") BY <1>2, <1>4, <1>9 DEF IsKind, IsWindow, Others
  <2> QED BY <1>0, <1>2, <2>1 DEF OneSetup
<1> QED BY <1>2, <1>4, <1>5, <1>6, <1>8, <1>9

LEMMA CleanSetupOk ==
    ASSUME World, UiSetupOk
    PROVE  AllClean' /\ \E r \in Ranges : saved' = Append(saved, r)
<1>1. PICK d \in Windows : /\ IsKind(d, "setup") /\ win[d].life = "open" /\ Saves(d) /\ ~Has(d)
                           /\ saved' = win[d].rows /\ born' = born
                           /\ Others(d) /\ SameKind(d) /\ win'[d].life = "ended"
                           /\ \A e \in Windows : IsKind(e, "setup")' => e = d
  BY OkSaves
<1>2. Clean(d) BY <1>1 DEF World, AllClean
<1>3. \E r \in Ranges : saved' = Append(saved, r) BY <1>1, <1>2 DEF Clean, Promised
<1>4. \A i \in Windows : /\ Inner(i, d)' <=> Inner(i, d)
                         /\ IsWindow(i)' => IsWindow(i)
  <2> SUFFICES ASSUME NEW i \in Windows
               PROVE (Inner(i, d)' <=> Inner(i, d)) /\ (IsWindow(i)' => IsWindow(i))
    OBVIOUS
  <2>1. CASE i = d BY <1>1, <2>1 DEF Inner, SameKind, IsKind
  <2>2. CASE i # d BY <1>1, <2>2 DEF Inner, Others, IsWindow
  <2> QED BY <2>1, <2>2
<1>5. ~Has(d)' BY <1>1, <1>4 DEF Has
<1>6. ~Free(d)' BY <1>1 DEF Free
<1>7. Clean(d)'
  BY <1>1, <1>2, <1>4, <1>5, <1>6 DEF Clean, Once, Settled, OkLast, Verified, Numbered, Promised
<1> QED BY <1>1, <1>3, <1>7 DEF AllClean

\* A step that takes the first message or none, and ends or destroys one dialog
\* or none.
LEMMA CleanOther ==
    ASSUME World, Waiting, saved' = saved, born' = born, NEW h \in Handles,
           h \in Windows => /\ SameKind(h) /\ SameData(h)
                            /\ win'[h].life \in {"ended", "gone"}
                            /\ win'[h].life = "ended" => win[h].life # "gone",
           Others(h),
           \/ queue' = queue
           \/ queue # <<>> /\ queue' = Tail(queue)
              /\ \A d \in Windows \ {h} : IsKind(d, "setup") => ~Closes(Head(queue), d)
    PROVE  AllClean'
<1> SUFFICES ASSUME NEW d \in Windows, IsKind(d, "setup")' PROVE Clean(d)'
  BY DEF AllClean
<1>0. queue \in Seq(Message) BY DEF World, Typing
<1>1. ASSUME NEW i \in Windows
      PROVE  /\ SameKind(i) /\ win'[i].field = win[i].field
             /\ win'[i].rows = win[i].rows
             /\ IsWindow(i)' => IsWindow(i)
             /\ win'[i].life = "open" => win[i].life = "open" /\ i # h
             /\ Oks(i)' => Oks(i)
  <2>1. Oks(i)' => Oks(i)
    <3>1. CASE queue' = queue BY <3>1 DEF Oks
    <3>2. CASE queue # <<>> /\ queue' = Tail(queue) BY <1>0, <3>2, Taken
    <3> QED BY <3>1, <3>2
  <2>2. CASE i = h BY <2>1, <2>2 DEF SameData, IsWindow
  <2>3. CASE i # h BY <2>1, <2>3 DEF Others, SameKind, IsWindow
  <2> QED BY <2>2, <2>3
<1>2. IsKind(d, "setup") BY <1>1 DEF IsKind, SameKind
<1>3. Clean(d) BY <1>2 DEF World, AllClean
<1>4. ASSUME win'[d].life = "open"
      PROVE  /\ Unclosed(d)' => Unclosed(d)
             /\ Saves(d)' => Saves(d)
             /\ Adds(d)' => Adds(d)
             /\ AddsOnce(d) => AddsOnce(d)'
  <2>1. CASE queue' = queue BY <2>1 DEF Unclosed, Saves, Adds, AddsOnce
  <2>2. CASE queue # <<>> /\ queue' = Tail(queue)
             /\ \A e \in Windows \ {h} : IsKind(e, "setup") => ~Closes(Head(queue), e)
    <3>1. ~Closes(Head(queue), d) BY <1>1, <1>2, <1>4, <2>2
    <3>2. Unclosed(d)' => Unclosed(d) BY <1>0, <2>2, <3>1, Taken
    <3>3. Saves(d)' => Saves(d) BY <1>0, <2>2, <3>1, Taken
    <3>4. Adds(d)' => Adds(d) BY <1>0, <2>2, <3>1, Taken
    <3>5. AddsOnce(d) => AddsOnce(d)' BY <1>0, <2>2, <3>1, Taken
    <3> QED BY <3>2, <3>3, <3>4, <3>5
  <2> QED BY <2>1, <2>2
<1> QED BY <1>1, <1>3, <1>4, Carry

\* Whatever PotPlayer does next, the dialog that is there stays clean, and what
\* is saved is the list or the list and one range.
LEMMA CleanUi ==
    ASSUME NoSecondDialog, TypeInv, World, Waiting, UiNext
    PROVE  AllClean' /\ (saved' = saved \/ \E r \in Ranges : saved' = Append(saved, r))
<1>0. Typing /\ AllAddressed /\ born \in Handles /\ Main \in Handles /\ Main \notin Windows
  BY DEF World, Placed, Typing
<1>1. CASE UiOpenSkipSetup
  <2>1. CASE ShowsSetup BY <1>1, <2>1, OpensSetup, CleanOpenSetup
  <2>2. CASE UNCHANGED <<born, win>>
    <3>1. saved' = saved /\ queue # <<>> /\ queue' = Tail(queue) /\ Head(queue).cmd = "open"
      BY <1>1 DEF UiOpenSkipSetup, Dispatch
    <3>2. \A d : ~Closes(Head(queue), d) BY <3>1 DEF Closes
    <3>3. Others(Main) BY <2>2 DEF Others
    <3> QED BY <1>0, <2>2, <3>1, <3>2, <3>3, CleanOther
  <2> QED BY <1>1, <2>1, <2>2, OpensSetup
<1>2. CASE UiAdd
  <2>0. saved' = saved /\ queue # <<>> /\ queue' = Tail(queue) /\ Head(queue).cmd = "add"
        /\ IsWindow(Head(queue).to)
    BY <1>2 DEF UiAdd, Dispatch
  <2>1. CASE ShowsInterval(Head(queue).to) BY <1>2, <2>0, <2>1, CleanOpenInterval
  <2>2. CASE UNCHANGED <<born, win>>
    <3>2. \A d : ~Closes(Head(queue), d) BY <2>0 DEF Closes
    <3>3. Others(Main) BY <2>2 DEF Others
    <3> QED BY <1>0, <2>0, <2>2, <3>2, <3>3, CleanOther
  <2> QED BY <1>2, <2>1, <2>2, OpensInterval
<1>3. CASE UiIntervalOk
  <2>1. saved' = saved BY <1>3 DEF UiIntervalOk
  <2> QED BY <1>3, <2>1, CleanIntervalOk
<1>4. CASE UiSetupOk BY <1>4, CleanSetupOk
<1>5. CASE UiCancel
  <2>1. PICK h : h = Head(queue).to OBVIOUS
  <2>2. /\ h \in Windows /\ win[h].life # "gone" /\ win' = EndDialog(h) /\ born' = born /\ saved' = saved
        /\ queue # <<>> /\ queue' = Tail(queue)
    BY <1>0, <1>5, <2>1, LiveHandle DEF UiCancel, IsWindow, Dispatch
  <2>3. Others(h) /\ SameKind(h) /\ SameData(h) /\ win'[h].life = "ended"
    BY <1>0, <2>2, EndFacts DEF Typing
  <2>4. \A d \in Windows \ {h} : ~Closes(Head(queue), d) BY <2>1 DEF Closes
  <2>5. h \in Handles BY <1>0, <2>2 DEF Typing
  <2> QED BY <2>2, <2>3, <2>4, <2>5, CleanOther
<1>6. CASE UiDrop
  <2>1. /\ UNCHANGED <<born, win, saved>> /\ queue # <<>> /\ queue' = Tail(queue)
        /\ ~IsWindow(Head(queue).to)
    BY <1>6 DEF UiDrop, Dispatch
  <2>2. \A d : IsKind(d, "setup") => ~Closes(Head(queue), d) BY <2>1 DEF Closes, IsKind
  <2>3. Others(Main) BY <2>1 DEF Others
  <2> QED BY <1>0, <2>1, <2>2, <2>3, CleanOther
<1>7. CASE UiDestroy
  <2>1. PICK h \in Windows : win' = [win EXCEPT ![h].life = "gone"] BY <1>7 DEF UiDestroy
  <2>2. UNCHANGED <<queue, born, saved>> BY <1>7 DEF UiDestroy
  <2>3. Others(h) /\ SameKind(h) /\ SameData(h) /\ win'[h].life = "gone"
    BY <1>0, <2>1, DestroyFacts DEF Typing
  <2>4. h \in Handles BY <1>0 DEF Typing
  <2> QED BY <2>2, <2>3, <2>4, CleanOther
<1>8. CASE UserEsc
  <2>1. PICK h \in Windows : win[h].life = "open" /\ win' = EndDialog(h) BY <1>8 DEF UserEsc
  <2>2. UNCHANGED <<queue, born, saved>> BY <1>8 DEF UserEsc
  <2>3. Others(h) /\ SameKind(h) /\ SameData(h) /\ win'[h].life = "ended"
    BY <1>0, <2>1, EndFacts DEF Typing
  <2>4. h \in Handles BY <1>0 DEF Typing
  <2> QED BY <2>1, <2>2, <2>3, <2>4, CleanOther
<1>9. CASE UiStall \/ UiResume
  <2>1. UNCHANGED <<queue, born, saved, win>> BY <1>9 DEF UiStall, UiResume
  <2>2. Others(Main) BY <2>1 DEF Others
  <2> QED BY <1>0, <2>1, <2>2, CleanOther
<1> QED BY <1>1, <1>2, <1>3, <1>4, <1>5, <1>6, <1>7, <1>8, <1>9 DEF UiNext

-----------------------------------------------------------------------------
(***************************************************************************)
(* What the pump thread leaves of the dialog that is there.  It never ends   *)
(* a dialog and never touches its rows; only the field it fills, the         *)
(* checkbox and the queue change.                                            *)
(***************************************************************************)
Alike == /\ born' = born /\ saved' = saved
         /\ \A i \in Windows : SameKind(i) /\ win'[i].rows = win[i].rows /\ win'[i].life = win[i].life

LEMMA AlikePump == ASSUME TypeInv, Pump PROVE Alike
<1>0. Typing BY TypingFacts
<1>1. CASE UNCHANGED <<born, saved, win>> BY <1>1 DEF Alike, SameKind
<1>2. CASE EnsureSkipEnabled /\ win' # win
  <2>1. dialog \in Windows /\ win' = [win EXCEPT ![dialog].checked = TRUE] /\ UNCHANGED <<born, saved>>
    BY <1>0, <1>2, LiveHandle DEF EnsureSkipEnabled, Typing
  <2>2. /\ Others(dialog) /\ SameKind(dialog) /\ win'[dialog].life = win[dialog].life
        /\ win'[dialog].rows = win[dialog].rows
    BY <1>0, <2>1, CheckFacts DEF Typing
  <2> QED BY <2>1, <2>2 DEF Others, SameKind, Alike
<1>3. CASE FillInterval /\ win' # win
  <2>1. PICK e : /\ interval \in Windows /\ win' = [win EXCEPT ![interval].field = e]
                 /\ e \in {range, Mangled} /\ UNCHANGED <<born, saved>>
    BY <1>0, <1>3, LiveHandle DEF FillInterval, Typing
  <2>2. e \in Entry BY <2>1 DEF TypeInv, Found, Entry
  <2>3. /\ Others(interval) /\ SameKind(interval) /\ win'[interval].life = win[interval].life
        /\ win'[interval].rows = win[interval].rows
    BY <1>0, <2>1, <2>2, FieldFacts DEF Typing
  <2> QED BY <2>1, <2>3 DEF Others, SameKind, Alike
<1>4. born' = born /\ saved' = saved /\ (EnsureSkipEnabled \/ FillInterval \/ win' = win)
  BY DEF Pump, OpenDialog, AddRange, CloseDialog, ArmHook, PostOpen, AwaitCapture,
     FindAndParkFallback, Unhook, ResolveSkipSetupControls, ReadItemCount, ClickAdd,
     WaitForSkipIntervalSetup, ResolveSkipIntervalControls, VerifySkipIntervalReadback,
     ClickIntervalOk, AwaitIntervalOk, ClickIntervalCancel, AwaitIntervalCancel, VerifyItemCount,
     ClickOk, AwaitOk, ClickCancel, AwaitCancel, Return, PostMessage, PostMessageFails, uiVars,
     EnsureSkipEnabled, FillInterval
<1> QED BY <1>1, <1>2, <1>3, <1>4

LEMMA AlikeFacts ==
    ASSUME Alike
    PROVE  /\ \A i, d \in Windows : Inner(i, d)' <=> Inner(i, d)
           /\ \A i \in Windows : IsWindow(i)' <=> IsWindow(i)
           /\ \A d \in Windows : /\ IsKind(d, "setup")' <=> IsKind(d, "setup")
                                 /\ Had(d)' <=> Had(d)
                                 /\ Has(d)' <=> Has(d)
<1>1. \A i, d \in Windows : Inner(i, d)' <=> Inner(i, d) BY DEF Alike, Inner, SameKind
<1>2. \A i \in Windows : IsWindow(i)' <=> IsWindow(i) BY DEF Alike, IsWindow
<1>3. \A d \in Windows : IsKind(d, "setup")' <=> IsKind(d, "setup")
  BY <1>2 DEF Alike, IsKind, SameKind
<1>4. \A d \in Windows : Had(d)' <=> Had(d) BY <1>1 DEF Had
<1>5. \A d \in Windows : Has(d)' <=> Has(d) BY <1>1, <1>2 DEF Has
<1> QED BY <1>1, <1>2, <1>3, <1>4, <1>5

\* d's own messages are as they were.
Untouched(d) == /\ Unclosed(d)' <=> Unclosed(d)
                /\ Saves(d)' <=> Saves(d)
                /\ Adds(d)' <=> Adds(d)
                /\ AddsOnce(d) => AddsOnce(d)'
                /\ Oks(d)' <=> Oks(d)
LEMMA UntouchedSame == ASSUME queue' = queue PROVE \A d : Untouched(d)
BY DEF Untouched, Unclosed, Saves, Adds, AddsOnce, Oks
LEMMA UntouchedPost ==
    ASSUME queue \in Seq(Message), NEW h, NEW c, Msg(h, c) \in Message,
           queue' = Append(queue, Msg(h, c)), NEW d, d # h
    PROVE  Untouched(d)
<1>1. Msg(h, c).to = h /\ \A x : Msg(d, x).to = d BY DEF Msg
<1>2. ~Closes(Msg(h, c), d) /\ \A x : Msg(h, c) # Msg(d, x) BY <1>1 DEF Closes
<1>3. PICK m \in Message : m = Msg(h, c) OBVIOUS
<1>4. ~Closes(m, d) /\ m # Msg(d, "ok") /\ m # Msg(d, "add") /\ queue' = Append(queue, m)
  BY <1>2, <1>3
<1> QED BY <1>4, Posted DEF Untouched

LEMMA UnclosedNoOk == \A d : Unclosed(d) => ~Oks(d)
BY DEF Unclosed, UnclosedIn, Oks, OksIn, Closes, Msg

\* What does not depend on the pump thread.
LEMMA FixedKeeps ==
    ASSUME NEW d \in Windows, Alike, Untouched(d), Clean(d)
    PROVE  /\ Once(d)' /\ OkLast(d)' /\ Promised(d)'
           /\ Free(d)' <=> Free(d)
<1>1. /\ \A i \in Windows : Inner(i, d)' <=> Inner(i, d)
      /\ (Had(d)' <=> Had(d)) /\ (Has(d)' <=> Has(d))
  BY AlikeFacts
<1>2. win'[d].rows = win[d].rows /\ win'[d].life = win[d].life /\ saved' = saved BY DEF Alike
<1>3. Once(d)' BY <1>1, <1>2 DEF Once, Clean, Untouched
<1>4. OkLast(d)' BY <1>1, <1>2 DEF OkLast, Clean, Untouched
<1>5. Promised(d)' BY <1>2 DEF Promised, Clean, Untouched
<1>6. Free(d)' <=> Free(d) BY <1>2 DEF Free, Untouched
<1> QED BY <1>3, <1>4, <1>5, <1>6

CountedAt == {"add", "awaitInterval", "resolveInterval", "fill", "verify", "intervalOk",
              "intervalOkWait", "recount"}

\* A dialog that is not the call's own.
LEMMA ElseKeeps ==
    ASSUME NEW d \in Windows, Alike, Untouched(d), Clean(d), dialog # d, dialog' # d
    PROVE  Clean(d)'
<1>1. /\ Once(d)' /\ OkLast(d)' /\ Promised(d)' /\ (Free(d)' <=> Free(d))
  BY FixedKeeps
<1>2. (Had(d)' <=> Had(d)) /\ win'[d].rows = win[d].rows /\ saved' = saved BY AlikeFacts DEF Alike
<1>3. Settled(d)' BY <1>1, <1>2 DEF Settled, Driven, Clean, Untouched
<1>4. Verified(d)' /\ Numbered(d)' BY DEF Verified, Numbered, Driven
<1> QED BY <1>1, <1>3, <1>4 DEF Clean

\* Before the dialog is driven, and after.
LEMMA OutKeeps ==
    ASSUME NEW d \in Windows, Alike, Untouched(d), Clean(d), pc \notin Mid,
           pc' \in Mid => pc' = "cancel",
           Free(d) /\ dialog' = d /\ job' = "commit" /\ pc' \in CountedAt
             => countBefore' = Len(win[d].rows)
    PROVE  Clean(d)'
<1>1. /\ Once(d)' /\ OkLast(d)' /\ Promised(d)' /\ (Free(d)' <=> Free(d))
  BY FixedKeeps
<1>2. (Had(d)' <=> Had(d)) /\ win'[d].rows = win[d].rows /\ saved' = saved BY AlikeFacts DEF Alike
<1>3. Free(d) => ~Adds(d)' /\ ~Had(d)' /\ win[d].rows = saved
  BY <1>2 DEF Settled, Driven, Clean, Untouched
<1>4. Settled(d)' BY <1>1, <1>2, <1>3 DEF Settled
<1>5. Free(d)' /\ Driven(d)' => Growing(d)' /\ Checked(d)'
  BY <1>1, <1>3 DEF Growing, Checked, Driven, Had
<1>6. Verified(d)' BY <1>5 DEF Verified
<1>7. Numbered(d)' BY <1>1, <1>2, <1>3 DEF Numbered, CountedAt
<1> QED BY <1>1, <1>4, <1>6, <1>7 DEF Clean

\* While it is driven.
LEMMA MidKeeps ==
    ASSUME NEW d \in Windows, Alike, Untouched(d), Clean(d), pc \in Mid, pc' \in Mid,
           UNCHANGED <<dialog, range, job, countBefore>>,
           pc' \in CountedAt => pc \in CountedAt,
           Free(d) /\ Driven(d) /\ Growing(d) /\ Checked(d) => Growing(d)' /\ Checked(d)'
    PROVE  Clean(d)'
<1>1. /\ Once(d)' /\ OkLast(d)' /\ Promised(d)' /\ (Free(d)' <=> Free(d))
  BY FixedKeeps
<1>2. (Had(d)' <=> Had(d)) /\ win'[d].rows = win[d].rows /\ saved' = saved BY AlikeFacts DEF Alike
<1>3. Driven(d)' <=> Driven(d) BY DEF Driven
<1>4. Settled(d)' BY <1>1, <1>2, <1>3 DEF Settled, Clean, Untouched
<1>5. Verified(d)' BY <1>1, <1>3 DEF Verified, Clean
<1>6. Numbered(d)' BY <1>1, <1>2 DEF Numbered, CountedAt, Clean
<1> QED BY <1>1, <1>4, <1>5, <1>6 DEF Clean

\* The handles the pump thread works with, as windows.
LEMMA HeldWindows ==
    ASSUME World
    PROVE  /\ dialog # Main => dialog \in Windows /\ (IsWindow(dialog) <=> IsKind(dialog, "setup"))
           /\ pc \in WithInterval => interval \in Windows /\ win[interval].kind = "interval"
           /\ ~IsWindow(Main)
<1>1. Typing /\ Holding BY DEF World
<1>2. 1..born \subseteq Windows BY <1>1, UiAssumption DEF Typing, Handles, Windows
<1>3. dialog # Main => dialog \in 1..born /\ win[dialog].kind = "setup" BY <1>1 DEF Holding, Given
<1>4. interval # Main => interval \in 1..born /\ win[interval].kind = "interval"
  BY <1>1 DEF Holding, Given
<1>5. pc \in WithInterval => interval # Main BY <1>1 DEF Holding
<1> QED BY <1>2, <1>3, <1>4, <1>5 DEF IsKind, IsWindow, Main

\* While the dialog is driven with an interval dialog found, that one is its own
\* and its only one.
LEMMA OwnInterval ==
    ASSUME World, NEW d \in Windows, IsKind(d, "setup"), Clean(d), dialog = d, pc \in WithInterval
    PROVE  /\ interval \in Windows /\ Inner(interval, d) /\ Had(d)
           /\ \A i \in Windows : Inner(i, d) => i = interval
           /\ \A i \in Windows : Inner(i, d)' /\ Alike => i = interval
<1>1. interval \in Windows /\ win[interval].kind = "interval" BY HeldWindows
<1>2. win[interval].owner = d BY DEF World, Linked
<1>3. Inner(interval, d) /\ Had(d) BY <1>1, <1>2 DEF Inner, Had
<1>4. \A i \in Windows : Inner(i, d) => i = interval BY <1>1, <1>3 DEF Clean, Once
<1>5. \A i \in Windows : Inner(i, d)' /\ Alike => Inner(i, d) BY AlikeFacts
<1> QED BY <1>1, <1>3, <1>4, <1>5

LEMMA CleanCalm ==
    ASSUME TypeInv, World, CheckPath, Pump, queue' = queue,
           NEW d \in Windows, IsKind(d, "setup"), Clean(d),
           ~(ClickAdd \/ ClickIntervalOk \/ ClickIntervalCancel \/ ClickOk \/ ClickCancel)
    PROVE  Clean(d)'
<1>0. Alike /\ Untouched(d) BY AlikePump, UntouchedSame
<1>1. \A i \in Windows : /\ Inner(i, d)' => Inner(i, d)
                         /\ IsWindow(i)' => IsWindow(i)
                         /\ win'[i].life = win[i].life /\ (Oks(i)' <=> Oks(i))
  <2>1. \A i : Oks(i)' <=> Oks(i) BY UntouchedSame DEF Untouched
  <2> QED BY <1>0, <2>1, AlikeFacts DEF Alike
<1>2. win'[d].rows = win[d].rows /\ saved' = saved BY <1>0 DEF Alike
<1> USE DEF Goto, GoOn, Fail, Late, Mid, WithInterval, CountedAt
<1>3. CASE OpenDialog
  <2>1. pc \notin Mid /\ (pc' \in Mid => pc' = "cancel")
        /\ (pc' \in CountedAt => job' = "check")
    BY <1>3 DEF OpenDialog, ArmHook, PostOpen, AwaitCapture, FindAndParkFallback, Unhook,
       ResolveSkipSetupControls, callVars
  <2> QED BY <1>0, <2>1, OutKeeps
<1>4. CASE EnsureSkipEnabled
  <2>1. pc \notin Mid /\ (pc' \in Mid => pc' = "cancel") /\ pc' \notin CountedAt
    BY <1>4 DEF EnsureSkipEnabled
  <2> QED BY <1>0, <2>1, OutKeeps
<1>5. CASE ReadItemCount
  <2>1. pc \notin Mid /\ pc' = "add" /\ countBefore' = ItemCount(dialog) /\ dialog' = dialog
    BY <1>5 DEF ReadItemCount
  <2>2. dialog' = d => countBefore' = Len(win[d].rows) BY <2>1 DEF ItemCount, IsKind
  <2> QED BY <1>0, <2>1, <2>2, OutKeeps
<1>6. CASE AwaitOk \/ AwaitCancel \/ Return
  <2>1. pc \notin Mid /\ pc' \notin Mid /\ pc' \notin CountedAt
    BY <1>6 DEF AwaitOk, AwaitCancel, Return
  <2> QED BY <1>0, <2>1, OutKeeps
<1>7. CASE WaitForSkipIntervalSetup
  <2>1. /\ pc = "awaitInterval" /\ pc' \in {"resolveInterval", "cancel"}
        /\ UNCHANGED <<dialog, range, job, countBefore>>
    BY <1>7 DEF WaitForSkipIntervalSetup, callVars
  <2>2. Growing(d) /\ Checked(d) => Growing(d)' /\ Checked(d)'
    BY <1>1, <1>2, <2>1 DEF Growing, Checked
  <2> QED BY <1>0, <2>1, <2>2, MidKeeps
<1>8. CASE ResolveSkipIntervalControls
  <2>1. /\ pc = "resolveInterval" /\ pc' \in {"intervalCancel", "fill"}
        /\ UNCHANGED <<dialog, range, job, countBefore>>
    BY <1>8 DEF ResolveSkipIntervalControls, callVars, foundVars
  <2>2. Growing(d) /\ Checked(d) => Growing(d)' /\ Checked(d)'
    BY <1>1, <1>2, <2>1 DEF Growing, Checked
  <2> QED BY <1>0, <2>1, <2>2, MidKeeps
<1>9. CASE FillInterval
  <2>1. /\ pc = "fill" /\ pc' = "verify"
        /\ UNCHANGED <<dialog, range, job, countBefore>>
    BY <1>9 DEF FillInterval, callVars, foundVars
  <2>2. Growing(d) /\ Checked(d) => Growing(d)' /\ Checked(d)'
    BY <1>1, <1>2, <2>1 DEF Growing, Checked
  <2> QED BY <1>0, <2>1, <2>2, MidKeeps
<1>10. CASE VerifySkipIntervalReadback
  <2>1. /\ pc = "verify" /\ pc' \in {"intervalOk", "intervalCancel"}
        /\ pc' = "intervalOk" => win[interval].field = range
        /\ UNCHANGED <<dialog, range, job, countBefore>> /\ win' = win
    BY <1>10 DEF VerifySkipIntervalReadback, callVars, foundVars, uiVars
  <2>2. Driven(d) => \A i \in Windows : Inner(i, d) => i = interval
    BY <2>1, OwnInterval DEF Driven
  <2>3. Driven(d) /\ Growing(d) /\ Checked(d) => Growing(d)' /\ Checked(d)'
    BY <1>1, <1>2, <2>1, <2>2 DEF Growing, Checked
  <2> QED BY <1>0, <2>1, <2>3, MidKeeps
<1>11. CASE AwaitIntervalOk
  <2>1. /\ pc = "intervalOkWait" /\ pc' \in {"cancel", "recount"}
        /\ pc' = "recount" => ~IsWindow(interval)
        /\ UNCHANGED <<dialog, range, job, countBefore>>
    BY <1>11 DEF AwaitIntervalOk, callVars, foundVars
  <2>2. Driven(d) => \A i \in Windows : Inner(i, d) => i = interval
    BY <2>1, OwnInterval DEF Driven
  <2>3. Driven(d) /\ Growing(d) /\ Checked(d) => Growing(d)' /\ Checked(d)'
    BY <1>1, <1>2, <2>1, <2>2 DEF Growing, Checked
  <2> QED BY <1>0, <2>1, <2>3, MidKeeps
<1>12. CASE AwaitIntervalCancel
  <2>1. /\ pc = "intervalCancelWait" /\ pc' = "cancel"
        /\ UNCHANGED <<dialog, range, job, countBefore>>
    BY <1>12 DEF AwaitIntervalCancel, callVars, foundVars
  <2>2. Growing(d) /\ Checked(d) => Growing(d)' /\ Checked(d)'
    BY <1>1, <1>2, <2>1 DEF Growing, Checked
  <2> QED BY <1>0, <2>1, <2>2, MidKeeps
<1>13. CASE VerifyItemCount
  <2>1. /\ pc = "recount" /\ pc' \in {"cancel", "ok"}
        /\ pc' = "ok" => ItemCount(dialog) = countBefore + 1
        /\ UNCHANGED <<dialog, range, job, countBefore>>
    BY <1>13 DEF VerifyItemCount, callVars, foundVars
  <2>2. job = "commit" BY <2>1 DEF CheckPath, Committing
  <2>3. Driven(d) => ~Has(d)
    <3> SUFFICES ASSUME Driven(d), NEW i \in Windows, Inner(i, d), IsWindow(i) PROVE FALSE
      BY DEF Has
    <3>1. i = interval BY <2>1, OwnInterval DEF Driven
    <3> QED BY <2>1, <3>1 DEF World, Linked
  <2>4. Free(d) /\ Driven(d) => countBefore = Len(saved)
    BY <2>1, <2>2 DEF Clean, Numbered, Driven
  <2>5. Free(d) /\ Driven(d) /\ Growing(d) => Growing(d)'
    <3> SUFFICES ASSUME Free(d), Driven(d), Growing(d), pc' = "ok"
                 PROVE  win[d].rows = Append(saved, range)
      BY <1>2, <2>1 DEF Growing
    <3>1. Len(win[d].rows) = Len(saved) + 1 BY <2>1, <2>4 DEF Driven, ItemCount, IsKind
    <3>2. win[d].rows \in {saved, Append(saved, range)} BY <2>1 DEF Growing
    <3>3. saved \in Seq(Entry) BY DEF World, Typing
    <3>4. Len(saved) # Len(saved) + 1 BY <3>3
    <3> QED BY <3>1, <3>2, <3>4
  <2>6. Driven(d) => Checked(d)' BY <1>1, <2>3 DEF Checked, Has
  <2> QED BY <1>0, <2>1, <2>5, <2>6, MidKeeps
<1> QED BY <1>3, <1>4, <1>5, <1>6, <1>7, <1>8, <1>9, <1>10, <1>11, <1>12, <1>13
    DEF Pump, AddRange, CloseDialog

\* A post that is refused, without losing one, is refused by a destroyed window.
LEMMA Refused ==
    ASSUME NoLostPost, NEW h, PostMessageFails(h) PROVE ~IsWindow(h) /\ UNCHANGED uiVars
BY DEF PostMessageFails, NoLostPost

LEMMA PostFacts ==
    ASSUME World, NEW h, NEW c, Posting(h, c), PostMessage(h, c)
    PROVE  /\ queue \in Seq(Message) /\ Msg(h, c) \in Message /\ queue' = Append(queue, Msg(h, c))
           /\ win' = win /\ born' = born /\ saved' = saved /\ h \in Handles
           /\ h # Main => IsWindow(h)
<1>1. Typing /\ Holding BY DEF World
<1>2. h \in Handles BY <1>1, LiveHandle DEF PostMessage, Typing
<1>3. Msg(h, c) \in Message BY <1>1, <1>2, PostsAddressed
<1> QED BY <1>1, <1>2, <1>3 DEF PostMessage, Msg, Typing

LEMMA CleanAdd ==
    ASSUME NoLostPost, TypeInv, World, ClickAdd, NEW d \in Windows, IsKind(d, "setup"), Clean(d)
    PROVE  Clean(d)'
<1>0. Alike BY AlikePump DEF Pump, AddRange
<1>1. /\ pc = "add" /\ pc' \in {"awaitInterval", "cancel"} /\ pc \notin Mid
      /\ UNCHANGED <<dialog, interval, range, job, countBefore>>
  BY DEF ClickAdd, GoOn, Late, Goto, callVars, foundVars, Mid, WithInterval
<1>2. dialog \in Windows /\ (IsWindow(dialog) <=> IsKind(dialog, "setup"))
  <2>1. dialog # Main BY <1>1 DEF World, Holding, WithDialog
  <2> QED BY <2>1, HeldWindows
<1>3. CASE PostMessageFails(dialog) /\ Late("cancel")
  <2>1. dialog # d BY <1>3, Refused DEF IsKind
  <2>2. queue' = queue BY <1>3 DEF PostMessageFails, uiVars
  <2> QED BY <1>0, <1>1, <2>1, <2>2, UntouchedSame, ElseKeeps
<1>4. CASE PostMessage(dialog, "add") /\ GoOn("awaitInterval")
  <2>1. dialog = d
    <3>1. IsWindow(dialog) BY <1>2, <1>4 DEF PostMessage, Main, Windows
    <3> QED BY <1>2, <3>1 DEF World, OneSetup
  <2>2. /\ queue \in Seq(Message) /\ Msg(d, "add") \in Message
        /\ queue' = Append(queue, Msg(d, "add")) /\ win' = win /\ saved' = saved
    BY <1>1, <1>4, <2>1, PostFacts DEF Posting
  <2>3. PICK m \in Message : m = Msg(d, "add") BY <2>2
  <2>4. ~Closes(m, d) /\ m # Msg(d, "ok") BY <2>3 DEF Closes, Msg
  <2>5. queue' = Append(queue, m) BY <2>2, <2>3
  <2>6. /\ Unclosed(d)' <=> Unclosed(d)
        /\ Saves(d)' <=> Saves(d)
        /\ Adds(d)' <=> Adds(d) \/ Unclosed(d)
        /\ AddsOnce(d) /\ ~(Adds(d) /\ Unclosed(d)) => AddsOnce(d)'
        /\ Oks(d)' <=> Oks(d)
    BY <2>2, <2>3, <2>4, <2>5, Posted
  <2>7. /\ Free(d)' <=> Free(d)
        /\ Free(d) => ~Adds(d) /\ ~Had(d) /\ win[d].rows = saved
    BY <1>1, <2>2, <2>6 DEF Free, Driven, Clean, Settled
  <2>8. /\ \A i \in Windows : Inner(i, d)' <=> Inner(i, d)
        /\ (Had(d)' <=> Had(d)) /\ (Has(d)' <=> Has(d))
    BY <1>0, AlikeFacts
  <2>9. win[d].life = "open" /\ Unclosed(d) => Free(d) BY DEF Free
  <2>10. Once(d)' BY <2>2, <2>6, <2>7, <2>8, <2>9 DEF Once, Clean
  <2>11. Driven(d)' BY <1>1, <1>4, <2>1 DEF Driven, Mid, GoOn, Goto
  <2>12. Settled(d)' BY <2>11 DEF Settled
  <2>13. OkLast(d)' BY <2>2, <2>6, <2>8, UnclosedNoOk DEF OkLast, Clean
  <2>14. pc' = "awaitInterval" BY <1>4 DEF GoOn, Goto
  <2>15. Free(d)' => Growing(d)' /\ Checked(d)'
    BY <2>2, <2>7, <2>8, <2>14 DEF Growing, Checked, Had
  <2>16. Verified(d)' BY <2>15 DEF Verified
  <2>17. Numbered(d)' BY <1>1, <2>2, <2>7 DEF Numbered, Clean
  <2>18. Promised(d)' BY <2>2, <2>6 DEF Promised, Clean
  <2> QED BY <2>10, <2>12, <2>13, <2>16, <2>17, <2>18 DEF Clean
<1> QED BY <1>3, <1>4 DEF ClickAdd

\* A message for the interval dialog.
LEMMA CleanInterval ==
    ASSUME NoLostPost, TypeInv, World, ClickIntervalOk \/ ClickIntervalCancel,
           NEW d \in Windows, IsKind(d, "setup"), Clean(d)
    PROVE  Clean(d)'
<1>0. Alike BY AlikePump DEF Pump, AddRange
<1>1. /\ pc \in {"intervalOk", "intervalCancel"}
      /\ pc' \in {"intervalOkWait", "intervalCancelWait", "cancel"}
      /\ pc' = "intervalOkWait" => pc = "intervalOk"
      /\ UNCHANGED <<dialog, interval, range, job, countBefore>>
  BY DEF ClickIntervalOk, ClickIntervalCancel, GoOn, Late, Goto, callVars, foundVars
<1>2. interval \in Windows /\ interval # d
  <2>1. interval \in Windows /\ win[interval].kind = "interval"
    BY <1>1, HeldWindows DEF WithInterval
  <2> QED BY <2>1 DEF IsKind
<1>3. PICK c \in {"ok", "cancel"} :
         /\ c = "ok" => pc = "intervalOk"
         /\ c = "cancel" => pc = "intervalCancel"
         /\ \/ /\ PostMessage(interval, c)
               /\ pc' = IF c = "ok" THEN "intervalOkWait" ELSE "intervalCancelWait"
            \/ PostMessageFails(interval) /\ pc' = "cancel"
  BY DEF ClickIntervalOk, ClickIntervalCancel, GoOn, Late, Goto
<1>4. CASE PostMessageFails(interval) /\ pc' = "cancel"
  <2>1. queue' = queue /\ win' = win BY <1>4 DEF PostMessageFails, uiVars
  <2>2. Untouched(d) /\ \A i : Oks(i)' <=> Oks(i) BY <2>1, UntouchedSame DEF Untouched
  <2>3. Driven(d) /\ Checked(d) => Growing(d)' /\ Checked(d)'
    BY <1>0, <1>1, <1>4, <2>1, <2>2, AlikeFacts DEF Growing, Checked, Alike
  <2> QED BY <1>0, <1>1, <1>4, <2>2, <2>3, MidKeeps DEF Mid, WithInterval, CountedAt
<1>5. CASE /\ PostMessage(interval, c)
          /\ pc' = IF c = "ok" THEN "intervalOkWait" ELSE "intervalCancelWait"
  <2>1. /\ queue \in Seq(Message) /\ Msg(interval, c) \in Message
        /\ queue' = Append(queue, Msg(interval, c)) /\ win' = win /\ saved' = saved
    BY <1>1, <1>3, <1>5, PostFacts DEF Posting
  <2>2. PICK i : i = interval OBVIOUS
  <2>3. ASSUME NEW j \in Windows, j # i PROVE Untouched(j)
    BY <2>1, <2>2, <2>3, UntouchedPost
  <2>4. Untouched(d) BY <1>2, <2>2, <2>3
  <2>5. c = "cancel" => (Oks(i)' <=> Oks(i))
    <3>1. PICK m \in Message : m = Msg(i, c) BY <2>1, <2>2
    <3>2. c = "cancel" => m # Msg(i, "ok") BY <3>1 DEF Msg
    <3>3. queue' = Append(queue, m) BY <2>1, <2>2, <3>1
    <3> QED BY <2>1, <3>2, <3>3, Posted
  <2>6. \A j \in Windows : j # i => (Oks(j)' <=> Oks(j)) BY <2>3 DEF Untouched
  <2>7. Driven(d) => \A j \in Windows : Inner(j, d) => j = i
    BY <1>1, <2>2, OwnInterval DEF Driven, WithInterval
  <2>8. Driven(d) /\ Growing(d) /\ Checked(d) => Growing(d)' /\ Checked(d)'
    <3> SUFFICES ASSUME Driven(d), Growing(d), Checked(d) PROVE Growing(d)' /\ Checked(d)'
      OBVIOUS
    <3>1. Growing(d)' BY <1>1, <1>5, <2>1 DEF Growing
    <3>2. CASE c = "ok"
      BY <1>1, <1>3, <1>5, <2>1, <2>7, <3>1, <3>2, AlikeFacts, <1>0 DEF Growing, Checked
    <3>3. CASE c = "cancel"
      BY <1>1, <1>3, <1>5, <2>1, <2>5, <2>6, <3>1, <3>3, AlikeFacts, <1>0 DEF Growing, Checked
    <3> QED BY <3>2, <3>3
  <2> QED BY <1>0, <1>1, <1>5, <2>4, <2>8, MidKeeps DEF Mid, WithInterval, CountedAt
<1> QED BY <1>3, <1>4, <1>5

\* The message that closes the dialog: from then on it is not free.
LEMMA CleanClose ==
    ASSUME NoLostPost, TypeInv, World, ClickOk \/ ClickCancel,
           NEW d \in Windows, IsKind(d, "setup"), Clean(d)
    PROVE  Clean(d)'
<1>0. Alike BY AlikePump DEF Pump, CloseDialog
<1>1. pc \in {"ok", "cancel"} /\ UNCHANGED <<dialog, interval, range, job, countBefore>>
  BY DEF ClickOk, ClickCancel, callVars, foundVars
<1>2. dialog \in Windows /\ (IsWindow(dialog) <=> IsKind(dialog, "setup"))
  <2>1. dialog # Main BY <1>1 DEF World, Holding, WithDialog, Mid, WithInterval
  <2> QED BY <2>1, HeldWindows
<1>3. PICK c \in {"ok", "cancel"} :
         /\ c = "ok" => pc = "ok"
         /\ c = "cancel" => pc = "cancel"
         /\ PostMessage(dialog, c) \/ PostMessageFails(dialog)
  BY DEF ClickOk, ClickCancel
<1>4. CASE PostMessageFails(dialog)
  <2>1. dialog # d BY <1>4, Refused DEF IsKind
  <2>2. queue' = queue BY <1>4 DEF PostMessageFails, uiVars
  <2> QED BY <1>0, <1>1, <2>1, <2>2, UntouchedSame, ElseKeeps
<1>5. CASE PostMessage(dialog, c)
  <2>1. dialog = d
    <3>1. IsWindow(dialog) BY <1>2, <1>5 DEF PostMessage, Main, Windows
    <3> QED BY <1>2, <3>1 DEF World, OneSetup
  <2>2. /\ queue \in Seq(Message) /\ Msg(d, c) \in Message
        /\ queue' = Append(queue, Msg(d, c)) /\ win' = win /\ saved' = saved
    BY <1>1, <1>3, <1>5, <2>1, PostFacts DEF Posting
  <2>3. PICK m \in Message : m = Msg(d, c) BY <2>2
  <2>4. Closes(m, d) /\ m # Msg(d, "add") /\ (m = Msg(d, "ok") => c = "ok")
    BY <2>3 DEF Closes, Msg
  <2>5. queue' = Append(queue, m) BY <2>2, <2>3
  <2>6. /\ ~Unclosed(d)'
        /\ Saves(d)' => Saves(d) \/ (Unclosed(d) /\ c = "ok")
        /\ Adds(d)' <=> Adds(d)
        /\ AddsOnce(d) => AddsOnce(d)'
        /\ Oks(d)' => Oks(d) \/ c = "ok"
    BY <2>2, <2>4, <2>5, Posted
  <2>7. ~Free(d)' BY <2>6 DEF Free
  <2>8. /\ \A i \in Windows : Inner(i, d)' <=> Inner(i, d)
        /\ (Had(d)' <=> Had(d)) /\ (Has(d)' <=> Has(d))
    BY <1>0, AlikeFacts
  <2>9. c = "ok" => Had(d) /\ ~Has(d)
    <3> SUFFICES ASSUME c = "ok" PROVE Had(d) /\ ~Has(d)
      OBVIOUS
    <3>1. pc = "ok" /\ pc \in WithInterval BY <1>3 DEF WithInterval
    <3>2. Had(d) /\ \A i \in Windows : Inner(i, d) => i = interval BY <2>1, <3>1, OwnInterval
    <3>3. ~IsWindow(interval) BY <3>1 DEF World, Linked
    <3> QED BY <3>2, <3>3 DEF Has
  <2>10. Once(d)' BY <2>2, <2>6, <2>8 DEF Once, Clean
  <2>11. OkLast(d)' BY <2>2, <2>6, <2>8, <2>9 DEF OkLast, Once, Clean
  <2>12. Promised(d)'
    <3> SUFFICES ASSUME win[d].life = "open", Unclosed(d), c = "ok"
                 PROVE  \E r \in Ranges : win[d].rows = Append(saved, r)
      BY <2>2, <2>6 DEF Promised, Clean
    <3>1. Free(d) /\ Driven(d) /\ pc = "ok" BY <1>3, <2>1 DEF Free, Driven, Mid, WithInterval
    <3>2. win[d].rows = Append(saved, range) BY <3>1 DEF Clean, Verified, Growing
    <3> QED BY <3>2 DEF TypeInv, Found
  <2>13. Settled(d)' /\ Verified(d)' /\ Numbered(d)' BY <2>7 DEF Settled, Verified, Numbered
  <2> QED BY <2>10, <2>11, <2>12, <2>13 DEF Clean
<1> QED BY <1>3, <1>4, <1>5

\* The command that opens the dialog.
LEMMA CleanOpen ==
    ASSUME TypeInv, World, PostOpen, NEW d \in Windows, IsKind(d, "setup"), Clean(d)
    PROVE  Clean(d)'
<1>0. Alike BY AlikePump DEF Pump, OpenDialog
<1>1. /\ pc = "post" /\ pc' \in {"capture", "return"}
      /\ UNCHANGED <<dialog, job, countBefore>>
  BY DEF PostOpen, GoOn, Late, Goto, callVars, foundVars
<1>2. pc \notin Mid /\ pc' \notin Mid /\ pc' \notin CountedAt
  BY <1>1 DEF Mid, WithInterval, CountedAt
<1>3. Untouched(d)
  <2>1. CASE PostMessageFails(Main)
    BY <2>1, UntouchedSame DEF PostMessageFails, uiVars
  <2>2. CASE PostMessage(Main, "open")
    <3>1. /\ queue \in Seq(Message) /\ Msg(Main, "open") \in Message
          /\ queue' = Append(queue, Msg(Main, "open"))
      BY <1>1, <2>2, PostFacts DEF Posting
    <3>2. d # Main BY DEF Main, Windows
    <3> QED BY <3>1, <3>2, UntouchedPost
  <2> QED BY <2>1, <2>2 DEF PostOpen
<1> QED BY <1>0, <1>2, <1>3, OutKeeps

LEMMA CleanPump ==
    ASSUME NoLostPost, TypeInv, World, CheckPath, Pump PROVE AllClean'
<1> SUFFICES ASSUME NEW d \in Windows, IsKind(d, "setup")' PROVE Clean(d)'
  BY DEF AllClean
<1>1. IsKind(d, "setup") BY AlikePump, AlikeFacts
<1>2. Clean(d) BY <1>1 DEF World, AllClean
<1>3. CASE ClickAdd BY <1>1, <1>2, <1>3, CleanAdd
<1>4. CASE ClickIntervalOk \/ ClickIntervalCancel BY <1>1, <1>2, <1>4, CleanInterval
<1>5. CASE ClickOk \/ ClickCancel BY <1>1, <1>2, <1>5, CleanClose
<1>6. CASE PostOpen BY <1>1, <1>2, <1>6, CleanOpen
<1>7. CASE ~(ClickAdd \/ ClickIntervalOk \/ ClickIntervalCancel \/ ClickOk \/ ClickCancel \/ PostOpen)
  <2>1. queue' = queue
    BY <1>7 DEF Pump, OpenDialog, ArmHook, AwaitCapture, FindAndParkFallback, Unhook,
       ResolveSkipSetupControls, AddRange, EnsureSkipEnabled, ReadItemCount,
       WaitForSkipIntervalSetup, ResolveSkipIntervalControls, FillInterval,
       VerifySkipIntervalReadback, AwaitIntervalOk, AwaitIntervalCancel, VerifyItemCount,
       CloseDialog, AwaitOk, AwaitCancel, Return, uiVars
  <2> QED BY <1>1, <1>2, <1>7, <2>1, CleanCalm
<1> QED BY <1>3, <1>4, <1>5, <1>6, <1>7

\* The dialogs found stay each other's when a new one is shown, and the pump
\* thread finds the interval dialog of the Skip Setup it drives, if that is there.
LEMMA LinkedShows ==
    ASSUME Typing, Owners, Linked, Holding, Waiting, NEW w, Shows(w),
           w.kind = "interval" => IsKind(w.owner, "setup"), w.kind \in {"setup", "interval"}
    PROVE  Linked'
<1>1. PICK b \in Windows : /\ b = born + 1 /\ born' = b /\ win'[b] = w
                           /\ \A h \in Windows \ {b} : /\ win'[h] = win[h]
                                                       /\ IsWindow(h)' <=> IsWindow(h)
  BY ShowsKeeps
<1>2. UNCHANGED <<pc, dialog, interval>> BY DEF Waiting, foundVars, progress
<1>3. born \in Nat /\ b \notin 1..born BY <1>1 DEF Typing, Handles
<1>4. interval = Main \/ interval \in Windows \ {b}
  BY <1>3, UiAssumption DEF Holding, Given, Typing, Handles, Windows
<1>5. dialog = Main \/ dialog \in Windows \ {b}
  BY <1>3, UiAssumption DEF Holding, Given, Typing, Handles, Windows
<1>6. ~IsWindow(Main) /\ ~IsWindow(Main)' BY DEF IsWindow, Main
<1>7. IsWindow(interval)' => IsWindow(interval) BY <1>1, <1>2, <1>4, <1>6
<1>8. IsKind(dialog, "setup")' => IsKind(dialog, "setup") BY <1>1, <1>2, <1>5, <1>6 DEF IsKind
<1>9. pc \in WithInterval => win'[interval].owner = win[interval].owner
  BY <1>1, <1>4 DEF Holding
<1> QED BY <1>2, <1>7, <1>8, <1>9 DEF Linked

LEMMA LinkedPump == ASSUME TypeInv, World, Pump PROVE Linked'
<1>0. Typing /\ Owners /\ OneInner /\ OneSetup /\ Holding /\ Linked /\ Alike
  BY AlikePump DEF World, Placed
<1>1. interval = Main \/ interval \in Windows
  BY <1>0, UiAssumption DEF Holding, Given, Typing, Handles, Windows
<1>2. dialog = Main \/ dialog \in Windows
  BY <1>0, UiAssumption DEF Holding, Given, Typing, Handles, Windows
<1>3. ~IsWindow(Main) /\ ~IsWindow(Main)' BY DEF IsWindow, Main
<1> USE DEF GoOn, Fail, Late, Goto, WithInterval
<1>4. CASE WaitForSkipIntervalSetup
  <2>1. CASE pc' = "resolveInterval"
    <3>1. PICK i \in Windows : IsKind(i, "interval") /\ interval' = i
      BY <1>4, <2>1 DEF WaitForSkipIntervalSetup
    <3>2. dialog' = dialog BY <1>4 DEF WaitForSkipIntervalSetup
    <3>3. ASSUME IsKind(dialog, "setup")' PROVE win'[i].owner = dialog
      <4>1. dialog \in Windows /\ IsKind(dialog, "setup")
        BY <1>0, <1>2, <1>3, <3>2, <3>3, AlikeFacts DEF IsKind
      <4>2. win[i].owner \in Windows BY <1>0, <3>1 DEF Owners, IsKind
      <4>3. IsKind(win[i].owner, "setup") BY <1>0, <3>1, <4>2 DEF OneInner
      <4> QED BY <1>0, <4>1, <4>2, <4>3 DEF OneSetup, Alike, SameKind
    <3> QED BY <2>1, <3>1, <3>2, <3>3 DEF Linked
  <2>2. CASE pc' = "cancel" BY <2>2 DEF Linked
  <2> QED BY <1>4, <2>1, <2>2 DEF WaitForSkipIntervalSetup
<1>5. CASE pc' \notin WithInterval BY <1>5 DEF Linked
<1>6. CASE pc' \in WithInterval /\ ~WaitForSkipIntervalSetup
  <2>1. /\ UNCHANGED <<dialog, interval>> /\ pc \in WithInterval
        /\ pc' = "recount" => ~IsWindow(interval)
        /\ pc' = "ok" => pc = "recount"
    BY <1>6 DEF Pump, OpenDialog, ArmHook, PostOpen, AwaitCapture, FindAndParkFallback, Unhook,
       ResolveSkipSetupControls, AddRange, EnsureSkipEnabled, ReadItemCount, ClickAdd,
       ResolveSkipIntervalControls, FillInterval, VerifySkipIntervalReadback, ClickIntervalOk,
       AwaitIntervalOk, ClickIntervalCancel, AwaitIntervalCancel, VerifyItemCount, CloseDialog,
       ClickOk, AwaitOk, ClickCancel, AwaitCancel, Return, foundVars
  <2>2. interval \in Windows BY <1>0, <1>1, <2>1 DEF Holding
  <2>3. (IsWindow(interval)' <=> IsWindow(interval)) /\ win'[interval].owner = win[interval].owner
    BY <1>0, <2>1, <2>2, AlikeFacts DEF Alike, SameKind, IsWindow
  <2>4. IsKind(dialog, "setup")' => IsKind(dialog, "setup")
    BY <1>0, <1>2, <1>3, <2>1, AlikeFacts DEF Alike, SameKind, IsKind, IsWindow
  <2> QED BY <1>0, <2>1, <2>3, <2>4 DEF Linked
<1> QED BY <1>4, <1>5, <1>6

\* A call that starts, and nothing at all.
LEMMA CleanBegin ==
    ASSUME World, UNCHANGED uiVars, UNCHANGED foundVars,
           \/ pc = "idle" /\ pc' = "open"
           \/ UNCHANGED <<pc, job, range>>
    PROVE  Linked' /\ AllClean'
<1>0. Linked /\ AllClean BY DEF World
<1>1. Alike /\ queue' = queue BY DEF Alike, SameKind, uiVars
<1>2. Linked'
  BY <1>0 DEF Linked, WithInterval, uiVars, foundVars, IsKind, IsWindow
<1>3. ASSUME NEW d \in Windows, IsKind(d, "setup")' PROVE Clean(d)'
  <2>1. Untouched(d) BY <1>1, UntouchedSame
  <2>2. IsKind(d, "setup") BY <1>1, <1>3, AlikeFacts
  <2>3. Clean(d) BY <1>0, <2>2 DEF AllClean
  <2>4. CASE pc = "idle" /\ pc' = "open"
    <3>1. pc \notin Mid /\ pc' \notin Mid /\ pc' \notin CountedAt
      BY <2>4 DEF Mid, WithInterval, CountedAt
    <3> QED BY <1>1, <2>1, <2>3, <3>1, OutKeeps
  <2>5. CASE UNCHANGED <<pc, job, range>>
    <3>1. UNCHANGED <<busy, queue, born, win, saved, enabled, dialog, interval, countBefore, pc, job, range>>
      BY <2>5 DEF uiVars, foundVars
    <3>2. /\ \A i : (Oks(i)' <=> Oks(i)) /\ (Inner(i, d)' <=> Inner(i, d)) /\ (IsWindow(i)' <=> IsWindow(i))
          /\ (Had(d)' <=> Had(d)) /\ (Has(d)' <=> Has(d)) /\ (Free(d)' <=> Free(d)) /\ (Driven(d)' <=> Driven(d))
      BY <3>1, UntouchedSame DEF Untouched, Inner, IsWindow, Had, Has, Free, Driven
    <3>3. Once(d)' /\ Settled(d)' /\ OkLast(d)' /\ Promised(d)'
      BY <2>1, <2>3, <3>1, <3>2 DEF Clean, Once, Settled, OkLast, Promised, Untouched
    <3>4. Growing(d)' <=> Growing(d) BY <3>1 DEF Growing
    <3>5. Checked(d) => Checked(d)' BY <3>1, <3>2 DEF Checked
    <3>6. Verified(d)' /\ Numbered(d)' BY <2>3, <3>1, <3>2, <3>4, <3>5 DEF Clean, Verified, Numbered
    <3> QED BY <3>3, <3>6 DEF Clean
  <2> QED BY <2>4, <2>5
<1> QED BY <1>2, <1>3 DEF AllClean

-----------------------------------------------------------------------------
(***************************************************************************)
(* The inductive invariant of the dialogs.  OnlyVerifiedSaved alone says     *)
(* nothing of the rows an open Skip Setup holds, of the OK on its way to it  *)
(* or of the field of the interval dialog in front of it.                    *)
(***************************************************************************)
DialogsInv == TypeInv /\ CheckPath /\ Additive /\ Placed /\ Holding /\ Linked /\ AllClean

\* Every step keeps it, and saves at most one row more, of a caller's range.
LEMMA DialogsStep ==
    ASSUME NoSecondDialog, NoLostPost
    PROVE  DialogsInv /\ [Next]_vars => /\ Linked' /\ AllClean'
                                        /\ saved' = saved \/ \E r \in Ranges : saved' = Append(saved, r)
<1> SUFFICES ASSUME DialogsInv, [Next]_vars
             PROVE  /\ Linked' /\ AllClean'
                    /\ saved' = saved \/ \E r \in Ranges : saved' = Append(saved, r)
  OBVIOUS
<1>0. TypeInv /\ CheckPath /\ World /\ Typing
  BY TypingFacts DEF DialogsInv, Additive, World
<1>1. CASE Ui
  <2>1. UiNext /\ Waiting BY <1>1 DEF Ui, Waiting
  <2>2. AllClean' /\ (saved' = saved \/ \E r \in Ranges : saved' = Append(saved, r))
    BY <1>0, <2>1, CleanUi
  <2>3. CASE NoneAppears BY <1>0, <2>1, <2>2, <2>3, LinkedUi DEF World
  <2>4. CASE ShowsSetup
    <3>1. PICK w : Shows(w) /\ w.kind = "setup" BY <2>4 DEF ShowsSetup
    <3> QED BY <1>0, <2>1, <2>2, <3>1, LinkedShows DEF World, Placed
  <2>5. CASE UiAdd /\ IsWindow(Head(queue).to) /\ ShowsInterval(Head(queue).to)
    <3>1. PICK w : Shows(w) /\ w.kind = "interval" /\ w.owner = Head(queue).to
      BY <2>5 DEF ShowsInterval
    <3>2. IsKind(w.owner, "setup") BY <1>0, <2>5, <3>1, AddIsForSetup DEF World, Placed
    <3> QED BY <1>0, <2>1, <2>2, <3>1, <3>2, LinkedShows DEF World, Placed
  <2> QED BY <1>0, <2>1, <2>3, <2>4, <2>5, UiCases
<1>2. CASE Pump
  <2>1. saved' = saved BY <1>0, <1>2, AlikePump DEF Alike
  <2> QED BY <1>0, <1>2, <2>1, LinkedPump, CleanPump
<1>3. CASE StartSelfCheck \/ \E r \in Ranges : StartCommit(r)
  <2>1. UNCHANGED uiVars /\ UNCHANGED foundVars /\ pc = "idle" /\ pc' = "open"
    BY <1>3 DEF StartSelfCheck, StartCommit, Begin, Goto
  <2>2. saved' = saved BY <2>1 DEF uiVars
  <2> QED BY <1>0, <2>1, <2>2, CleanBegin
<1>4. CASE UNCHANGED vars
  <2>1. UNCHANGED uiVars /\ UNCHANGED foundVars /\ UNCHANGED <<pc, job, range>> /\ saved' = saved
    BY <1>4 DEF vars, uiVars, callVars, progress
  <2> QED BY <1>0, <2>1, CleanBegin
<1> QED BY <1>1, <1>2, <1>3, <1>4 DEF Next

LEMMA DialogsInductive ==
    ASSUME NoSecondDialog, NoLostPost
    PROVE  Spec => []DialogsInv
<1>1. Init => CheckPath /\ Additive /\ Placed /\ Holding /\ Linked /\ AllClean
  <2> SUFFICES ASSUME Init PROVE CheckPath /\ Additive /\ Placed /\ Holding /\ Linked /\ AllClean
    OBVIOUS
  <2>1. \A h : ~IsWindow(h) BY DEF Init, UiInit, IsWindow
  <2>2. CheckPath BY DEF Init, CheckPath, Committing, Closing
  <2>3. Additive BY <2>1 DEF Additive, OneSetup, CopyAhead, IsKind
  <2>4. Placed
    <3>1. Len(queue) = 0 /\ \A h \in Windows : win[h].kind = "setup" BY DEF Init, UiInit
    <3> QED BY <2>1, <3>1 DEF Placed, Owners, AllAddressed, OneInner, IsKind
  <2>5. Holding BY DEF Init, Holding, Given, WithDialog, WithInterval, Mid
  <2>6. Linked BY DEF Init, Linked, WithInterval
  <2>7. AllClean BY <2>1 DEF AllClean, IsKind
  <2> QED BY <2>2, <2>3, <2>4, <2>5, <2>6, <2>7
<1>2. DialogsInv /\ [Next]_vars => Linked' /\ AllClean' BY DialogsStep
<1>3. TypeInv /\ Placed /\ Holding /\ [Next]_vars => Placed' /\ Holding' BY ShapeInv
<1>4. TypeInv /\ Additive /\ [Next]_vars => Additive' BY AdditiveStep
<1>5. TypeInv => Control BY DEF TypeInv
<1>6. DialogsInv <=> TypeInv /\ CheckPath /\ Additive /\ Placed /\ Holding /\ Linked /\ AllClean
  BY DEF DialogsInv
<1> HIDE DEF DialogsInv, TypeInv, CheckPath, Additive, Placed, Holding, Linked, AllClean
<1> QED BY <1>1, <1>2, <1>3, <1>4, <1>5, <1>6, CheckPathInv, TypeInductive, PTL DEF Spec

\* Only rows that a caller asked for and that were read back before the commit
\* reach the file's list, through dialogs an earlier, late call left behind too.
THEOREM OnlyVerifiedIsSaved ==
    ASSUME NoSecondDialog, NoLostPost PROVE Spec => []OnlyVerifiedSaved
<1>1. Init => OnlyVerifiedSaved BY DEF Init, UiInit, OnlyVerifiedSaved
<1>2. DialogsInv /\ OnlyVerifiedSaved /\ [Next]_vars => OnlyVerifiedSaved'
  <2> SUFFICES ASSUME DialogsInv, OnlyVerifiedSaved, [Next]_vars PROVE OnlyVerifiedSaved'
    OBVIOUS
  <2>1. saved \in Seq(Entry) BY DEF DialogsInv, TypeInv, Data
  <2>2. CASE saved' = saved BY <2>2 DEF OnlyVerifiedSaved
  <2>3. CASE \E r \in Ranges : saved' = Append(saved, r)
    <3>1. PICK r \in Ranges : saved' = Append(saved, r) BY <2>3
    <3>2. \A i \in 1..Len(saved') : saved'[i] = r \/ (i \in 1..Len(saved) /\ saved'[i] = saved[i])
      BY <2>1, <3>1
    <3> QED BY <3>2 DEF OnlyVerifiedSaved
  <2> QED BY <2>2, <2>3, DialogsStep
<1> QED BY <1>1, <1>2, DialogsInductive, PTL DEF Spec

-----------------------------------------------------------------------------
(***************************************************************************)
(* The dialogs implement CommitContract.  What each range may still add to   *)
(* the list is bounded by how often it was asked for: a row of it that an    *)
(* open dialog is to save, and the OK the running call has not posted yet,   *)
(* count as if they were saved.                                              *)
(***************************************************************************)
Unit(b) == IF b THEN 1 ELSE 0
Copies(s, r) == Cardinality({i \in 1..Len(s) : s[i] = r})

LEMMA CopiesType == ASSUME NEW S, NEW s \in Seq(S), NEW r PROVE Copies(s, r) \in Nat
<1>1. IsFiniteSet(1..Len(s)) BY FS_Interval
<1>2. {i \in 1..Len(s) : s[i] = r} \in SUBSET (1..Len(s)) OBVIOUS
<1>3. IsFiniteSet({i \in 1..Len(s) : s[i] = r}) BY <1>1, <1>2, FS_Subset
<1> QED BY <1>3, FS_CardinalityType DEF Copies

LEMMA CopiesNone ==
    ASSUME NEW S, NEW s \in Seq(S), NEW r, \A i \in 1..Len(s) : s[i] # r PROVE Copies(s, r) = 0
<1>1. {i \in 1..Len(s) : s[i] = r} = {} OBVIOUS
<1> QED BY <1>1, FS_EmptySet DEF Copies

LEMMA CopiesAppend ==
    ASSUME NEW S, NEW s \in Seq(S), NEW e \in S, NEW r
    PROVE  Copies(Append(s, e), r) = Copies(s, r) + Unit(e = r)
<1> DEFINE n == Len(s)
           t == Append(s, e)
           A == {i \in 1..n : s[i] = r}
           B == {i \in 1..(n + 1) : t[i] = r}
<1>1. /\ n \in Nat /\ Len(t) = n + 1 /\ t[n + 1] = e
      /\ \A i \in 1..n : t[i] = s[i]
  OBVIOUS
<1>2. IsFiniteSet(A)
  <2>1. IsFiniteSet(1..n) BY <1>1, FS_Interval
  <2>2. A \in SUBSET (1..n) OBVIOUS
  <2> HIDE DEF A
  <2> QED BY <2>1, <2>2, FS_Subset
<1>3. n + 1 \notin A BY <1>1
<1>4. B = IF e = r THEN A \cup {n + 1} ELSE A
  <2>1. 1..(n + 1) = (1..n) \cup {n + 1} BY <1>1
  <2> HIDE DEF t, n
  <2>2. B = A \cup {i \in {n + 1} : t[i] = r} BY <1>1, <2>1
  <2> QED BY <1>1, <2>2
<1>5. Copies(s, r) = Cardinality(A) /\ Copies(t, r) = Cardinality(B) BY <1>1 DEF Copies
<1> HIDE DEF A, B, t, n
<1>6. CASE e = r
  <2>1. Cardinality(A \cup {n + 1}) = Cardinality(A) + 1 BY <1>2, <1>3, FS_AddElement
  <2> QED BY <1>4, <1>5, <1>6, <2>1 DEF Unit, t
<1>7. CASE e # r
  <2>1. Cardinality(A) \in Nat BY <1>2, FS_CardinalityType
  <2> QED BY <1>4, <1>5, <1>7, <2>1 DEF Unit, t
<1> QED BY <1>6, <1>7

\* Before the pump thread has posted the OK of this call.
Unposted == {"open", "post", "capture", "fallback", "unhook", "resolve", "enable", "count", "add",
             "awaitInterval", "resolveInterval", "fill", "verify", "intervalOk", "intervalOkWait",
             "recount", "ok"}
Owed(r) == job = "commit" /\ range = r /\ pc \in Unposted
Promise(r) == \E d \in Windows : /\ IsKind(d, "setup") /\ win[d].life = "open" /\ Saves(d)
                                 /\ win[d].rows = Append(saved, r)
WithinBudget(r) == Copies(saved, r) + Unit(Promise(r)) + Unit(Owed(r)) <= Copies(asked, r)
Budget == \A r \in Ranges : WithinBudget(r)

LEMMA BudgetTypes ==
    ASSUME TypeInv, NEW r \in Ranges
    PROVE  /\ saved \in Seq(Entry) /\ asked \in Seq(Ranges) /\ r \in Entry
           /\ Copies(saved, r) \in Nat /\ Copies(asked, r) \in Nat
<1>1. saved \in Seq(Entry) /\ asked \in Seq(Ranges) BY DEF TypeInv, Data
<1> QED BY <1>1, CopiesType DEF Entry

\* Only fewer promises and fewer calls that owe: the budget stands.
LEMMA BudgetLess ==
    ASSUME TypeInv, NEW r \in Ranges, WithinBudget(r), saved' = saved, asked' = asked,
           Unit(Promise(r)') + Unit(Owed(r)') <= Unit(Promise(r)) + Unit(Owed(r))
    PROVE  WithinBudget(r)'
<1>1. Copies(saved, r) \in Nat /\ Copies(asked, r) \in Nat BY BudgetTypes
<1>2. Copies(saved', r) = Copies(saved, r) /\ Copies(asked', r) = Copies(asked, r) OBVIOUS
<1>3. Unit(Promise(r)) \in Nat /\ Unit(Owed(r)) \in Nat
      /\ Unit(Promise(r)') \in Nat /\ Unit(Owed(r)') \in Nat BY DEF Unit
<1>4. WithinBudget(r)' <=> Copies(saved', r) + Unit(Promise(r)') + Unit(Owed(r)') <= Copies(asked', r)
  BY DEF WithinBudget
<1> QED BY <1>1, <1>2, <1>3, <1>4 DEF WithinBudget

\* A promise is kept by one dialog: the Skip Setup that is there.
LEMMA SavesIsPromise ==
    ASSUME DialogsInv, NEW d \in Windows, IsKind(d, "setup"), win[d].life = "open", Saves(d), NEW r
    PROVE  Promise(r) <=> win[d].rows = Append(saved, r)
BY DEF Promise, DialogsInv, Additive, OneSetup

LEMMA BudgetSave ==
    ASSUME NoSecondDialog, NoLostPost, DialogsInv, Budget, Waiting, UiSetupOk PROVE Budget'
<1>0. TypeInv /\ World /\ saved \in Seq(Entry) /\ UNCHANGED <<asked, job, range, pc>>
  BY TypingFacts DEF DialogsInv, Additive, World, TypeInv, Data, Waiting, callVars, progress
<1>1. PICK d \in Windows : /\ IsKind(d, "setup") /\ win[d].life = "open" /\ Saves(d)
                           /\ saved' = win[d].rows /\ win'[d].life = "ended"
                           /\ \A e \in Windows : IsKind(e, "setup")' => e = d
  BY <1>0, OkSaves
<1>2. PICK x \in Ranges : win[d].rows = Append(saved, x) BY <1>0, <1>1 DEF World, AllClean, Clean, Promised
<1>3. SUFFICES ASSUME NEW r \in Ranges PROVE WithinBudget(r)'
  BY DEF Budget
<1>4. Promise(r) <=> x = r
  <2>1. Promise(r) <=> win[d].rows = Append(saved, r) BY <1>1, SavesIsPromise
  <2> QED BY <1>0, <1>2, <2>1
<1>5. ~Promise(r)' BY <1>1 DEF Promise
<1>6. Owed(r)' <=> Owed(r) BY <1>0 DEF Owed
<1>7. x \in Entry BY DEF Entry
<1>8. Copies(saved', r) = Copies(saved, r) + Unit(x = r) BY <1>0, <1>1, <1>2, <1>7, CopiesAppend
<1>9. Copies(saved, r) + Unit(Promise(r)) + Unit(Owed(r)) <= Copies(asked, r)
  BY DEF Budget, WithinBudget
<1>10. Copies(saved, r) \in Nat /\ Copies(asked, r) \in Nat BY <1>0, BudgetTypes
<1>11. /\ Unit(Promise(r)) = Unit(x = r) /\ Unit(Promise(r)') = 0 /\ Unit(Owed(r)') = Unit(Owed(r))
       /\ Unit(x = r) \in Nat /\ Unit(Owed(r)) \in Nat
  BY <1>4, <1>5, <1>6 DEF Unit
<1>12. asked' = asked BY <1>0
<1>13. Copies(saved', r) + Unit(Promise(r)') + Unit(Owed(r)') <= Copies(asked', r)
  BY <1>8, <1>9, <1>10, <1>11, <1>12
<1> QED BY <1>13 DEF WithinBudget

\* What a dialog promises after a step that took the first message, or none, and
\* left its rows alone it promised before.
LEMMA PromisedBefore ==
    ASSUME Typing, NEW d \in Windows, IsKind(d, "setup"), win[d].life = "open",
           win'[d].rows = win[d].rows, saved' = saved, Saves(d)',
           queue' = queue \/ (queue # <<>> /\ queue' = Tail(queue) /\ Head(queue) # Msg(d, "cancel")),
           NEW r, win'[d].rows = Append(saved', r)
    PROVE  Promise(r)
<1>1. Saves(d)
  <2>1. CASE queue' = queue BY <2>1 DEF Saves
  <2>2. CASE queue # <<>> /\ queue' = Tail(queue) /\ Head(queue) # Msg(d, "cancel")
    <3>1. queue \in Seq(Message) BY DEF Typing
    <3>2. Head(queue) \in Message BY <2>2, <3>1
    <3>3. Closes(Head(queue), d) => Head(queue) = Msg(d, "ok")
      BY <2>2, <3>2 DEF Closes, Msg, Message
    <3> QED BY <2>2, <3>1, <3>3, Taken
  <2> QED BY <2>1, <2>2
<1> QED BY <1>1 DEF Promise

LEMMA PromiseUi ==
    ASSUME NoSecondDialog, TypeInv, World, Waiting, UiNext, ~UiSetupOk, NEW r, Promise(r)'
    PROVE  Promise(r)
<1>0. Typing /\ Owners /\ AllAddressed /\ OneInner /\ OneSetup /\ AllClean BY DEF World, Placed
<1>1. PICK d \in Windows : /\ IsKind(d, "setup")' /\ win'[d].life = "open" /\ Saves(d)'
                           /\ win'[d].rows = Append(saved', r)
  BY DEF Promise
<1>2. queue' = queue \/ (queue # <<>> /\ queue' = Tail(queue)) BY QueueUi
<1>3. saved' = saved
  BY DEF UiNext, UiOpenSkipSetup, UiAdd, UiIntervalOk, UiCancel, UiDrop, UiDestroy, UserEsc, UiStall, UiResume
<1>4. CASE ShowsSetup \/ (UiAdd /\ IsWindow(Head(queue).to) /\ ShowsInterval(Head(queue).to))
  <2>1. PICK w : /\ Shows(w) /\ w.kind \in {"setup", "interval"}
                 /\ w.kind = "interval" => IsKind(w.owner, "setup")
    BY <1>0, <1>4, AddIsForSetup DEF ShowsSetup, ShowsInterval
  <2>2. PICK b \in Windows : /\ b = born + 1 /\ born' = b /\ win'[b] = w
                             /\ \A h \in Windows \ {b} : /\ win'[h] = win[h]
                                                         /\ IsWindow(h)' <=> IsWindow(h)
    BY <1>0, <2>1, ShowsKeeps
  <2>3. /\ queue \in Seq(Message) /\ queue # <<>> /\ queue' = Tail(queue)
        /\ Head(queue).cmd \in {"open", "add"}
    <3>1. UiOpenSkipSetup \/ UiAdd
      <4>1. born' # born BY <2>2, <1>0 DEF Typing, Handles
      <4> QED BY <4>1 DEF UiNext, UiIntervalOk, UiCancel, UiDrop, UiDestroy, UserEsc, UiStall, UiResume
    <3> QED BY <1>0, <3>1 DEF UiOpenSkipSetup, UiAdd, Dispatch, Typing
  <2>4. \A h : ~Closes(Head(queue), h) /\ Head(queue) # Msg(h, "ok") /\ Head(queue) # Msg(h, "cancel")
    BY <2>3 DEF Closes, Msg
  <2>5. d # b
    <3>1. b > born BY <1>0, <2>2 DEF Typing, Handles
    <3>2. ~Saves(b) BY <1>0, <3>1, Fresh
    <3>3. ~Saves(b)' BY <2>3, <2>4, <3>2, Taken
    <3> QED BY <1>1, <3>3
  <2>6. IsKind(d, "setup") /\ win[d].life = "open" /\ win'[d].rows = win[d].rows
    BY <1>1, <2>2, <2>5 DEF IsKind
  <2> QED BY <1>0, <1>1, <1>3, <2>3, <2>4, <2>6, PromisedBefore
<1>5. CASE NoneAppears
  <2>1. IsKind(d, "setup") /\ SameKind(d) BY <1>1, <1>5 DEF NoneAppears, IsKind, SameKind
  <2>2. CASE UNCHANGED win /\ ~UiCancel
    <3>0. Msg(d, "cancel").to = d /\ Msg(d, "cancel").cmd = "cancel" BY DEF Msg
    <3>1. queue' = queue \/ Head(queue) # Msg(d, "cancel")
      <4>1. CASE UiDrop
        <5>1. Head(queue).to # d BY <2>1, <4>1 DEF UiDrop, IsKind
        <5> QED BY <3>0, <5>1
      <4>2. CASE UiOpenSkipSetup \/ UiAdd \/ UiIntervalOk
        <5>1. Head(queue).cmd # "cancel" BY <4>2 DEF UiOpenSkipSetup, UiAdd, UiIntervalOk, Dispatch
        <5> QED BY <3>0, <5>1
      <4>3. CASE UiDestroy \/ UserEsc \/ UiStall \/ UiResume
        BY <4>3 DEF UiDestroy, UserEsc, UiStall, UiResume
      <4> QED BY <1>2, <2>2, <4>1, <4>2, <4>3 DEF UiNext
    <3> QED BY <1>0, <1>1, <1>2, <1>3, <2>1, <2>2, <3>1, PromisedBefore
  <2>3. CASE UiCancel
    <3>1. PICK h : h = Head(queue).to OBVIOUS
    <3>2. h \in Windows /\ win' = EndDialog(h) BY <1>0, <2>3, <3>1, LiveHandle DEF UiCancel, Typing
    <3>3. Others(h) /\ win'[h].life = "ended" BY <1>0, <3>2, EndFacts DEF Typing
    <3>4. d # h /\ win'[d] = win[d] BY <1>1, <3>3 DEF Others
    <3>5. Head(queue) # Msg(d, "cancel") BY <3>1, <3>4 DEF Msg
    <3> QED BY <1>0, <1>1, <1>2, <1>3, <2>1, <3>4, <3>5, PromisedBefore
  <2>4. CASE UserEsc \/ UiDestroy
    <3>1. queue' = queue BY <2>4 DEF UserEsc, UiDestroy
    <3>2. PICK h \in Windows : win' = EndDialog(h) \/ win' = [win EXCEPT ![h].life = "gone"]
      BY <2>4 DEF UserEsc, UiDestroy
    <3>3. Others(h) /\ win'[h].life \in {"ended", "gone"} BY <1>0, <3>2, EndFacts, DestroyFacts DEF Typing
    <3>4. d # h /\ win'[d] = win[d] BY <1>1, <3>3 DEF Others
    <3> QED BY <1>0, <1>1, <1>3, <2>1, <3>1, <3>4, PromisedBefore
  <2>5. CASE UiIntervalOk
    <3>1. PICK i : i = Head(queue).to OBVIOUS
    <3>2. /\ IsKind(i, "interval") /\ i \in Windows /\ queue \in Seq(Message)
          /\ win' = [EndDialog(i) EXCEPT ![win[i].owner].rows = Append(@, win[i].field)]
          /\ Head(queue).cmd = "ok" /\ queue # <<>> /\ queue' = Tail(queue)
      BY <1>0, <2>5, <3>1, LiveHandle DEF UiIntervalOk, IsKind, Typing, Dispatch
    <3>3. i # d BY <2>1, <3>2 DEF IsKind
    <3>4. /\ win'[d].life = win[d].life
          /\ win'[d].rows = IF d = win[i].owner THEN Append(win[d].rows, win[i].field) ELSE win[d].rows
      <4>1. win \in [Windows -> Window] BY <1>0 DEF Typing
      <4>2. /\ win'[d].life = IF d = i THEN "ended" ELSE win[d].life
            /\ win'[d].rows = IF d = win[i].owner THEN Append(win[d].rows, win[i].field) ELSE win[d].rows
        BY <3>2, <4>1, RowFacts
      <4> QED BY <3>3, <4>2
    <3>5. ~Closes(Head(queue), d) /\ Head(queue) # Msg(d, "cancel") BY <3>1, <3>3 DEF Closes, Msg
    <3>6. Saves(d) BY <1>1, <3>2, <3>5, Taken
    <3>7. Oks(d) BY <3>6, SavesIsOk
    <3>8. ~Has(d) BY <1>0, <2>1, <3>7 DEF AllClean, Clean, OkLast
    <3>9. d # win[i].owner BY <3>2, <3>8 DEF Has, Inner, IsKind
    <3> QED BY <1>0, <1>1, <1>3, <2>1, <3>2, <3>4, <3>5, <3>9, PromisedBefore
  <2>6. \/ UiCancel \/ UserEsc \/ UiDestroy \/ UiIntervalOk
        \/ UNCHANGED win
    <3>1. CASE UiOpenSkipSetup \/ UiAdd
      <4>1. UNCHANGED <<born, win>> \/ born' # born
        BY <1>0, <3>1 DEF UiOpenSkipSetup, UiAdd, Create, Typing, Handles
      <4> QED BY <1>5, <4>1 DEF NoneAppears
    <3>2. CASE UiDrop \/ UiStall \/ UiResume BY <3>2 DEF UiDrop, UiStall, UiResume
    <3> QED BY <3>1, <3>2 DEF UiNext
  <2> QED BY <2>2, <2>3, <2>4, <2>5, <2>6
<1> QED BY <1>4, <1>5, UiCases

LEMMA BudgetUi ==
    ASSUME NoSecondDialog, NoLostPost, DialogsInv, Budget, Waiting, UiNext PROVE Budget'
<1>0. TypeInv /\ World /\ UNCHANGED <<asked, job, range, pc>>
  BY TypingFacts DEF DialogsInv, Additive, World, Waiting, callVars, progress
<1>1. CASE UiSetupOk BY <1>1, BudgetSave
<1>2. CASE ~UiSetupOk
  <2>1. saved' = saved
    BY <1>2 DEF UiNext, UiOpenSkipSetup, UiAdd, UiIntervalOk, UiCancel, UiDrop, UiDestroy, UserEsc,
       UiStall, UiResume
  <2>2. ASSUME NEW r \in Ranges PROVE WithinBudget(r)'
    <3>1. Promise(r)' => Promise(r) BY <1>0, <1>2, PromiseUi
    <3>2. Owed(r)' <=> Owed(r) BY <1>0 DEF Owed
    <3>3. Unit(Promise(r)') + Unit(Owed(r)') <= Unit(Promise(r)) + Unit(Owed(r))
      BY <3>1, <3>2 DEF Unit
    <3>4. WithinBudget(r) BY DEF Budget
    <3> QED BY <1>0, <2>1, <3>3, <3>4, BudgetLess
  <2> QED BY <2>2 DEF Budget
<1> QED BY <1>1, <1>2

\* The pump thread promises a row only with its own OK, and then owes it no more.
LEMMA PromisePump ==
    ASSUME TypeInv, World, CheckPath, Pump, NEW r, Promise(r)'
    PROVE  Promise(r) \/ (Owed(r) /\ pc' = "okWait")
<1>0. Typing /\ Holding /\ AllClean /\ Alike /\ queue \in Seq(Message)
  BY AlikePump DEF World, Typing
<1>1. PICK d \in Windows : /\ IsKind(d, "setup")' /\ win'[d].life = "open" /\ Saves(d)'
                           /\ win'[d].rows = Append(saved', r)
  BY DEF Promise
<1>2. IsKind(d, "setup") /\ win[d].life = "open" /\ win[d].rows = Append(saved, r)
  BY <1>0, <1>1, AlikeFacts DEF Alike
<1>3. SUFFICES ASSUME ~Saves(d) PROVE Owed(r) /\ pc' = "okWait"
  BY <1>2 DEF Promise
<1>4. PICK h, c : Posting(h, c) /\ PostMessage(h, c)
  <2>1. queue' # queue BY <1>1, <1>3 DEF Saves
  <2> QED BY <2>1, PumpPosts
<1>5. h \in Handles BY <1>0, <1>4, LiveHandle DEF PostMessage, Typing
<1>6. Msg(h, c) \in Message /\ queue' = Append(queue, Msg(h, c))
  BY <1>0, <1>4, <1>5, PostsAddressed DEF PostMessage, Msg
<1>7. Unclosed(d) /\ Msg(h, c) = Msg(d, "ok") BY <1>0, <1>1, <1>3, <1>6, Posted
<1>8. h = d /\ c = "ok" BY <1>7 DEF Msg
<1>9. pc = "ok" /\ dialog = d
  <2>1. CASE pc = "intervalOk" /\ d = interval
    <3>1. win[interval].kind = "interval" BY <2>1, HeldWindows DEF WithInterval
    <3> QED BY <1>2, <2>1, <3>1 DEF IsKind
  <2> QED BY <1>4, <1>8, <2>1 DEF Posting
<1>10. Free(d) /\ Driven(d) /\ Clean(d)
  BY <1>0, <1>2, <1>7, <1>9 DEF Free, Driven, Mid, WithInterval, AllClean
<1>11. win[d].rows = Append(saved, range) BY <1>9, <1>10 DEF Clean, Verified, Growing
<1>12. range = r
  <2>1. saved \in Seq(Entry) /\ Append(saved, range) = Append(saved, r) BY <1>0, <1>2, <1>11 DEF Typing
  <2>2. Append(saved, range)[Len(saved) + 1] = range /\ Append(saved, r)[Len(saved) + 1] = r BY <2>1
  <2> QED BY <2>1, <2>2
<1>13. job = "commit" BY <1>9 DEF CheckPath, Committing
<1>14. pc' = "okWait"
  <2>1. ClickOk
    BY <1>9 DEF Pump, OpenDialog, ArmHook, PostOpen, AwaitCapture, FindAndParkFallback, Unhook,
       ResolveSkipSetupControls, AddRange, EnsureSkipEnabled, ReadItemCount, ClickAdd,
       WaitForSkipIntervalSetup, ResolveSkipIntervalControls, FillInterval,
       VerifySkipIntervalReadback, ClickIntervalOk, AwaitIntervalOk, ClickIntervalCancel,
       AwaitIntervalCancel, VerifyItemCount, CloseDialog, AwaitOk, ClickCancel, AwaitCancel, Return
  <2>2. queue' # queue BY <1>1, <1>3 DEF Saves
  <2>3. ~PostMessageFails(dialog) BY <2>2 DEF PostMessageFails, uiVars
  <2> QED BY <2>1, <2>3 DEF ClickOk, GoOn, Goto
<1> QED BY <1>9, <1>12, <1>13, <1>14 DEF Owed, Unposted

LEMMA OwedPump ==
    ASSUME Pump
    PROVE  /\ UNCHANGED <<asked, job, range, before>>
           /\ pc' \in Unposted => pc \in Unposted
           /\ timely' => timely
           /\ pc # "idle" /\ (pc' = "idle" => Return)
<1> USE DEF GoOn, Fail, Late, Goto, callVars, Unposted
<1>1. CASE OpenDialog
  BY <1>1 DEF OpenDialog, ArmHook, PostOpen, AwaitCapture, FindAndParkFallback, Unhook,
     ResolveSkipSetupControls
<1>2. CASE EnsureSkipEnabled \/ ReadItemCount \/ ClickAdd \/ WaitForSkipIntervalSetup
  BY <1>2 DEF EnsureSkipEnabled, ReadItemCount, ClickAdd, WaitForSkipIntervalSetup
<1>3. CASE ResolveSkipIntervalControls \/ FillInterval \/ VerifySkipIntervalReadback
  BY <1>3 DEF ResolveSkipIntervalControls, FillInterval, VerifySkipIntervalReadback
<1>4. CASE ClickIntervalOk \/ AwaitIntervalOk \/ ClickIntervalCancel \/ AwaitIntervalCancel \/ VerifyItemCount
  BY <1>4 DEF ClickIntervalOk, AwaitIntervalOk, ClickIntervalCancel, AwaitIntervalCancel, VerifyItemCount
<1>5. CASE CloseDialog BY <1>5 DEF CloseDialog, ClickOk, AwaitOk, ClickCancel, AwaitCancel
<1>6. CASE Return BY <1>6 DEF Return
<1> QED BY <1>1, <1>2, <1>3, <1>4, <1>5, <1>6 DEF Pump, AddRange

LEMMA BudgetPump == ASSUME DialogsInv, Budget, Pump PROVE Budget'
<1>0. TypeInv /\ World /\ CheckPath BY TypingFacts DEF DialogsInv, Additive, World
<1>1. saved' = saved BY <1>0, AlikePump DEF Alike
<1>2. /\ asked' = asked /\ UNCHANGED <<job, range>> /\ (pc' \in Unposted => pc \in Unposted)
  BY OwedPump
<1>3. ASSUME NEW r \in Ranges PROVE WithinBudget(r)'
  <2>1. Owed(r)' => Owed(r) BY <1>2 DEF Owed
  <2>2. Promise(r)' => Promise(r) \/ (Owed(r) /\ ~Owed(r)')
    BY <1>0, PromisePump DEF Owed, Unposted
  <2>3. Unit(Promise(r)') + Unit(Owed(r)') <= Unit(Promise(r)) + Unit(Owed(r))
    BY <2>1, <2>2 DEF Unit
  <2>4. WithinBudget(r) BY DEF Budget
  <2> QED BY <1>0, <1>1, <1>2, <2>3, <2>4, BudgetLess
<1> QED BY <1>3 DEF Budget

LEMMA BudgetInit == Init => Budget
<1> SUFFICES ASSUME Init, NEW r \in Ranges PROVE WithinBudget(r)
  BY DEF Budget
<1>1. Existing # r /\ Existing \in Entry BY UiAssumption DEF Entry
<1>2. saved \in Seq(Entry) /\ \A i \in 1..Len(saved) : saved[i] # r
  <2>1. CASE saved = <<>> BY <2>1
  <2>2. CASE saved = <<Existing>> BY <1>1, <2>2
  <2> QED BY <2>1, <2>2 DEF Init, UiInit
<1>3. Copies(saved, r) = 0 BY <1>2, CopiesNone
<1>4. asked \in Seq(Ranges) /\ \A i \in 1..Len(asked) : asked[i] # r BY DEF Init
<1>5. Copies(asked, r) = 0 BY <1>4, CopiesNone
<1>6. ~Promise(r) BY DEF Init, UiInit, Promise, IsKind, IsWindow
<1>7. ~Owed(r) BY DEF Init, Owed
<1> QED BY <1>3, <1>5, <1>6, <1>7 DEF WithinBudget, Unit

LEMMA BudgetInv ==
    ASSUME NoSecondDialog, NoLostPost
    PROVE  DialogsInv /\ Budget /\ [Next]_vars => Budget'
<1> SUFFICES ASSUME DialogsInv, Budget, [Next]_vars PROVE Budget'
  OBVIOUS
<1>0. TypeInv /\ saved \in Seq(Entry) /\ asked \in Seq(Ranges) BY DEF DialogsInv, TypeInv, Data
<1>1. CASE Ui BY <1>1, BudgetUi DEF Ui, Waiting
<1>2. CASE Pump BY <1>2, BudgetPump
<1>3. ASSUME UNCHANGED uiVars, NEW r PROVE Promise(r)' <=> Promise(r)
  BY <1>3 DEF uiVars, Promise, IsKind, IsWindow, Saves
<1>4. ASSUME UNCHANGED uiVars, asked' = asked, NEW r \in Ranges, Owed(r)' => Owed(r) PROVE WithinBudget(r)'
  <2>1. Promise(r)' <=> Promise(r) BY <1>3, <1>4
  <2>2. Unit(Promise(r)') + Unit(Owed(r)') <= Unit(Promise(r)) + Unit(Owed(r))
    BY <1>4, <2>1 DEF Unit
  <2>3. WithinBudget(r) /\ saved' = saved BY <1>4 DEF Budget, uiVars
  <2> QED BY <1>0, <1>4, <2>2, <2>3, BudgetLess
<1>5. CASE StartSelfCheck
  <2>1. UNCHANGED uiVars /\ asked' = asked /\ \A r : ~Owed(r)'
    BY <1>5 DEF StartSelfCheck, Begin, Owed
  <2> QED BY <1>4, <2>1 DEF Budget
<1>6. CASE UNCHANGED vars
  <2>1. UNCHANGED uiVars /\ asked' = asked /\ \A r : Owed(r)' <=> Owed(r)
    BY <1>6 DEF vars, callVars, progress, Owed
  <2> QED BY <1>4, <2>1 DEF Budget
<1>7. ASSUME NEW x \in Ranges, StartCommit(x), NEW r \in Ranges PROVE WithinBudget(r)'
  <2>1. /\ UNCHANGED uiVars /\ saved' = saved /\ asked' = Append(asked, x)
        /\ pc = "idle" /\ job' = "commit" /\ range' = x /\ pc' = "open"
    BY <1>7 DEF StartCommit, Begin, uiVars, Goto
  <2>2. Unit(Promise(r)') = Unit(Promise(r)) /\ Unit(Promise(r)) \in Nat
    BY <1>3, <2>1 DEF Unit
  <2>3. Unit(Owed(r)') = Unit(x = r) /\ Unit(Owed(r)) = 0 /\ Unit(x = r) \in Nat
    BY <2>1 DEF Owed, Unposted, Unit
  <2>4. Copies(asked', r) = Copies(asked, r) + Unit(x = r) BY <1>0, <2>1, CopiesAppend
  <2>5. Copies(saved, r) + Unit(Promise(r)) + Unit(Owed(r)) <= Copies(asked, r)
    BY DEF Budget, WithinBudget
  <2>6. Copies(saved, r) \in Nat /\ Copies(asked, r) \in Nat BY <1>0, BudgetTypes
  <2>7. Copies(saved', r) = Copies(saved, r) BY <2>1
  <2>8. Copies(saved', r) + Unit(Promise(r)') + Unit(Owed(r)') <= Copies(asked', r)
    BY <2>2, <2>3, <2>4, <2>5, <2>6, <2>7
  <2> QED BY <2>8 DEF WithinBudget
<1>8. CASE \E x \in Ranges : StartCommit(x) BY <1>7, <1>8 DEF Budget
<1> QED BY <1>1, <1>2, <1>5, <1>6, <1>8 DEF Next

\* What the history variables tell: the running call is for the range asked for
\* last; the self-check comes first, with no dialog about; until a commit is
\* asked for, nothing is saved.
History == /\ job = "commit" => asked # <<>> /\ range = asked[Len(asked)]
           /\ asked # <<>> => job = "commit" /\ verdict # "unknown"
           /\ asked = <<>> => saved = before
           /\ verdict = "unknown" /\ pc = "idle" => Quiet /\ timely

LEMMA HistoryInv ==
    ASSUME NoEsc
    PROVE  TypeInv /\ NoOkPosted /\ History /\ [Next]_vars => History'
<1> SUFFICES ASSUME TypeInv, NoOkPosted, History, [Next]_vars PROVE History'
  OBVIOUS
<1>0. Typing /\ asked \in Seq(Ranges) BY TypingFacts DEF TypeInv, Data
<1>1. asked = <<>> => saved' = saved
  BY OnlyOkWrites DEF WritesNothing, vars, uiVars
<1>2. CASE Ui
  <2>1. UNCHANGED <<asked, job, range, before, verdict, pc, timely>> /\ UiNext
    BY <1>2 DEF Ui, callVars, progress
  <2>2. Quiet => Quiet' BY <1>0, <2>1, QuietUi DEF Still, Quiet, IsWindow
  <2> QED BY <1>1, <2>1, <2>2 DEF History
<1>3. CASE Pump
  <2>1. UNCHANGED <<asked, job, range, before>> /\ (pc' = "idle" => Return) BY <1>3, OwedPump
  <2>2. CASE Return
    <3>1. verdict' # "unknown" /\ saved' = saved
      <4>1. job = "commit" => verdict # "unknown" BY DEF History
      <4> QED BY <2>2, <4>1 DEF Return, uiVars
    <3> QED BY <1>1, <2>1, <3>1 DEF History
  <2>3. CASE ~Return
    <3>1. verdict' = verdict
      BY <1>3, <2>3 DEF Pump, OpenDialog, ArmHook, PostOpen, AwaitCapture, FindAndParkFallback, Unhook,
         ResolveSkipSetupControls, AddRange, EnsureSkipEnabled, ReadItemCount, ClickAdd,
         WaitForSkipIntervalSetup, ResolveSkipIntervalControls, FillInterval,
         VerifySkipIntervalReadback, ClickIntervalOk, AwaitIntervalOk, ClickIntervalCancel,
         AwaitIntervalCancel, VerifyItemCount, CloseDialog, ClickOk, AwaitOk, ClickCancel,
         AwaitCancel, callVars
    <3> QED BY <1>1, <2>1, <2>3, <3>1 DEF History
  <2> QED BY <2>2, <2>3
<1>4. CASE StartSelfCheck
  <2>1. /\ job' = "check" /\ asked' = asked /\ before' = saved /\ saved' = saved /\ pc' = "open"
        /\ verdict = "unknown"
    BY <1>4 DEF StartSelfCheck, Begin, uiVars, Goto
  <2>2. asked = <<>> BY <2>1 DEF History
  <2> QED BY <2>1, <2>2 DEF History
<1>5. ASSUME NEW r \in Ranges, StartCommit(r) PROVE History'
  <2>1. /\ job' = "commit" /\ range' = r /\ asked' = Append(asked, r) /\ pc' = "open"
        /\ verdict' = verdict /\ verdict = "supported"
    BY <1>5 DEF StartCommit, Begin, Goto
  <2>2. asked' # <<>> /\ asked'[Len(asked')] = r BY <1>0, <2>1
  <2> QED BY <2>1, <2>2 DEF History
<1>6. CASE UNCHANGED vars
  BY <1>6 DEF vars, uiVars, callVars, progress, History, Quiet, IsWindow
<1> QED BY <1>2, <1>3, <1>4, <1>5, <1>6 DEF Next

\* What PotPlayer saves while the call is timely is the call's own row.
LEMMA StoresTimely ==
    ASSUME NoEsc, TypeInv, CheckPath, Timely, Ui, timely, saved' # saved
    PROVE  pc = "okWait" /\ saved = before /\ saved' = Append(before, range)
<1>1. UNCHANGED <<pc, ok, timely, before, range, job>> /\ UiNext BY DEF Ui, callVars, progress
<1>2. Timely' BY TimelyUi
<1>3. Saving /\ Kept /\ Saving' /\ Kept' BY <1>1, <1>2 DEF Timely
<1>4. queue # <<>> BY <1>1, NothingSaved
<1>5. pc \notin {"idle", "return"} BY <1>3, <1>4 DEF Saving
<1>6. pc = "okWait" BY <1>1, <1>3, <1>5 DEF Kept
<1>7. saved = before BY <1>3, <1>4, <1>6 DEF Saving, Ended, Quiet
<1>8. saved' = before \/ saved' = Longer BY <1>1, <1>3, <1>6 DEF Saving, Longer
<1> QED BY <1>6, <1>7, <1>8 DEF Longer

RefineInv == DialogsInv /\ NoOkPosted /\ OnTheWay /\ Timely /\ History /\ Budget

\* The contract's count and its one more row, as this module has them.
LEMMA CopiesAgree == ASSUME NEW s, NEW r PROVE Contract!Copies(s, r) = Copies(s, r)
BY DEF Contract!Copies, Copies, Contract!Cardinality, Cardinality
LEMMA OneMore ==
    ASSUME NEW S, NEW s \in Seq(S), NEW T, NEW r \in T
    PROVE  <<r>> \in [1..1 -> T] /\ Append(s, r) = s \o <<r>>
<1>1. <<r>> \in [1..1 -> T] OBVIOUS
<1>2. Append(s, r) = s \o <<r>> OBVIOUS
<1> QED BY <1>1, <1>2

\* Each step is one of the contract's, or none.
LEMMA ContractUi ==
    ASSUME NoSecondDialog, NoLostPost, NoEsc, RefineInv, Budget', Ui
    PROVE  [Contract!ContractNext]_(Contract!contractVars)
<1>0. /\ TypeInv /\ CheckPath /\ NoOkPosted /\ Timely /\ History /\ DialogsInv
      /\ saved \in Seq(Entry) /\ asked \in Seq(Ranges)
  BY DEF RefineInv, DialogsInv, TypeInv, Data
<1>1. UNCHANGED <<pc, ok, timely, before, asked, range, job>> BY DEF Ui, callVars, progress
<1>2. CASE saved' = saved BY <1>1, <1>2 DEF Contract!contractVars
<1>3. CASE saved' # saved
  <2>1. PICK r \in Ranges : saved' = Append(saved, r)
    <3>1. [Next]_vars BY DEF Next
    <3> QED BY <1>0, <1>3, <3>1, DialogsStep
  <2>2. asked # <<>>
    <3>1. [Next]_vars BY DEF Next
    <3> QED BY <1>0, <1>3, <3>1, OnlyOkWrites DEF WritesNothing, vars, uiVars
  <2>3. 1 \in 1..Len(asked) BY <1>0, <2>2
  <2>4. <<r>> \in [1..1 -> Ranges] /\ saved' = saved \o <<r>> BY <1>0, <2>1, OneMore
  <2>5. timely => /\ job = "commit" /\ pc # "idle" /\ <<r>> = <<asked[Len(asked)]>> /\ saved = before
    <3> SUFFICES ASSUME timely
                 PROVE  job = "commit" /\ pc # "idle" /\ r = asked[Len(asked)] /\ saved = before
      OBVIOUS
    <3>1. pc = "okWait" /\ saved = before /\ saved' = Append(before, range)
      BY <1>0, <1>3, StoresTimely
    <3>2. job = "commit" BY <1>0, <3>1 DEF CheckPath, Committing
    <3>3. range = asked[Len(asked)] BY <1>0, <3>2 DEF History
    <3>4. Append(saved, r) = Append(saved, range) BY <2>1, <3>1
    <3>5. Append(saved, r)[Len(saved) + 1] = r /\ Append(saved, range)[Len(saved) + 1] = range BY <1>0
    <3> QED BY <3>1, <3>2, <3>3, <3>4, <3>5
  <2>6. ASSUME NEW x \in Ranges PROVE Contract!Copies(saved', x) <= Contract!Copies(asked, x)
    <3>1. WithinBudget(x)' BY DEF Budget
    <3>2. Copies(saved', x) + Unit(Promise(x)') + Unit(Owed(x)') <= Copies(asked, x)
      BY <1>1, <3>1 DEF WithinBudget
    <3>3. saved' \in Seq(Entry) /\ x \in Entry /\ r \in Entry BY <1>0, <2>1 DEF Entry
    <3>4. Copies(saved', x) \in Nat /\ Copies(asked, x) \in Nat BY <1>0, <3>3, CopiesType
    <3>5. Unit(Promise(x)') \in Nat /\ Unit(Owed(x)') \in Nat BY DEF Unit
    <3>6. Copies(saved', x) <= Copies(asked, x) BY <3>2, <3>4, <3>5
    <3>7. Contract!Copies(saved', x) = Copies(saved', x) /\ Contract!Copies(asked, x) = Copies(asked, x)
      BY CopiesAgree
    <3> QED BY <3>6, <3>7
  <2>7. Contract!Store
    BY <1>1, <2>3, <2>4, <2>5, <2>6 DEF Contract!Store
  <2> QED BY <2>7 DEF Contract!ContractNext
<1> QED BY <1>2, <1>3

LEMMA ContractPump ==
    ASSUME NoSecondDialog, NoLostPost, NoEsc, RefineInv, Pump
    PROVE  [Contract!ContractNext]_(Contract!contractVars)
<1>0. TypeInv /\ Timely /\ History /\ timely \in BOOLEAN /\ ok \in BOOLEAN
  BY DEF RefineInv, DialogsInv, TypeInv, Bits
<1>1. /\ UNCHANGED <<asked, job, range, before>> /\ (timely' => timely)
      /\ pc # "idle" /\ (pc' = "idle" => Return) /\ timely' \in BOOLEAN
  <2>1. timely' \in BOOLEAN
    <3>1. [Next]_vars BY DEF Next
    <3> QED BY <1>0, <3>1, BitsInv DEF TypeInv, Bits
  <2> QED BY <2>1, OwedPump
<1>2. saved' = saved BY <1>0, AlikePump DEF Alike
<1>3. CASE ~Return
  <2>1. pc' # "idle" BY <1>1, <1>3
  <2>2. CASE timely' = timely BY <1>1, <1>2, <2>1, <2>2 DEF Contract!contractVars
  <2>3. CASE timely /\ timely' = FALSE
    BY <1>1, <1>2, <2>1, <2>3 DEF Contract!Delay, Contract!ContractNext
  <2> QED BY <1>0, <1>1, <2>2, <2>3
<1>4. CASE Return
  <2>1. pc = "return" /\ pc' = "idle" /\ UNCHANGED <<ok, timely>> BY <1>4 DEF Return, Goto
  <2>2. CASE job = "commit"
    <3>1. asked # <<>> /\ range = asked[Len(asked)] BY <1>0, <2>2 DEF History
    <3>2. timely => saved = IF ok THEN Append(before, range) ELSE before
      BY <1>0, <2>1, <2>2 DEF Timely, Saving, Longer
    <3>3. timely => Contract!AsContracted(ok) BY <3>1, <3>2 DEF Contract!AsContracted
    <3>4. Contract!Answer(ok)
      BY <1>0, <1>1, <1>2, <2>1, <2>2, <3>1, <3>3 DEF Contract!Answer
    <3> QED BY <1>0, <3>4 DEF Contract!ContractNext
  <2>3. CASE job # "commit"
    <3>1. asked = <<>> BY <1>0, <2>3 DEF History
    <3> QED BY <1>1, <1>2, <2>1, <2>3, <3>1 DEF Contract!contractVars
  <2> QED BY <2>2, <2>3
<1> QED BY <1>3, <1>4

LEMMA ContractStart ==
    ASSUME RefineInv, StartSelfCheck \/ \E r \in Ranges : StartCommit(r)
    PROVE  [Contract!ContractNext]_(Contract!contractVars)
<1>0. TypeInv /\ History /\ timely \in BOOLEAN BY DEF RefineInv, DialogsInv, TypeInv, Bits
<1>1. /\ pc = "idle" /\ pc' = "open" /\ saved' = saved /\ before' = saved /\ timely' = Quiet
  BY DEF StartSelfCheck, StartCommit, Begin, Goto, uiVars
<1>2. CASE StartSelfCheck
  <2>1. verdict = "unknown" /\ job' = "check" /\ asked' = asked BY <1>2 DEF StartSelfCheck
  <2>2. asked = <<>> /\ saved = before /\ Quiet /\ timely BY <1>0, <1>1, <2>1 DEF History
  <2> QED BY <1>1, <2>1, <2>2 DEF Contract!contractVars
<1>3. ASSUME NEW r \in Ranges, StartCommit(r) PROVE Contract!Ask(r)
  <2>1. Len(asked) < MaxCalls /\ job' = "commit" /\ asked' = Append(asked, r)
    BY <1>3 DEF StartCommit
  <2>2. timely' \in BOOLEAN BY <1>1 DEF Quiet
  <2> QED BY <1>1, <2>1, <2>2 DEF Contract!Ask
<1> QED BY <1>2, <1>3 DEF Contract!ContractNext

\* To its caller the whole of it, dialogs, hook, waits and late messages, is one
\* call of commitRange as CommitContract has it: exact if PotPlayer was timely,
\* and no range ever saved more often than it was asked for.
THEOREM CallsKeepTheContract ==
    ASSUME NoSecondDialog, NoLostPost, NoEsc PROVE Spec => ImplementsContract
<1>1. Init => Contract!ContractInit
  BY DEF Init, UiInit, Contract!ContractInit
<1>2. Init => NoOkPosted /\ OnTheWay /\ Timely /\ History /\ Budget
  <2> SUFFICES ASSUME Init PROVE NoOkPosted /\ OnTheWay /\ Timely /\ History /\ Budget
    OBVIOUS
  <2>1. NoOkPosted BY DEF Init, UiInit, NoOkPosted
  <2>2. OnTheWay BY DEF Init, OnTheWay, Closing
  <2>3. Timely BY DEF Init, UiInit, Timely, Opening, Adding, Saving, Kept
  <2>4. History BY DEF Init, UiInit, History, Quiet, IsWindow
  <2> QED BY <2>1, <2>2, <2>3, <2>4, BudgetInit
<1>3. DialogsInv => TypeInv /\ CheckPath /\ Control BY DEF DialogsInv, TypeInv
<1>4. RefineInv <=> DialogsInv /\ NoOkPosted /\ OnTheWay /\ Timely /\ History /\ Budget
  BY DEF RefineInv
<1>5. RefineInv /\ Budget' /\ [Next]_vars => [Contract!ContractNext]_(Contract!contractVars)
  <2> SUFFICES ASSUME RefineInv, Budget', [Next]_vars
               PROVE  [Contract!ContractNext]_(Contract!contractVars)
    OBVIOUS
  <2>1. CASE UNCHANGED vars
    BY <2>1 DEF vars, uiVars, callVars, progress, Contract!contractVars
  <2> QED BY <2>1, ContractUi, ContractPump, ContractStart DEF Next
<1>6. TypeInv /\ CheckPath /\ NoOkPosted /\ [Next]_vars => NoOkPosted' BY NoOkInv
<1>7. Control /\ CheckPath /\ OnTheWay /\ [Next]_vars => OnTheWay' BY OnTheWayInv
<1>8. TypeInv /\ CheckPath /\ OnTheWay /\ Timely /\ [Next]_vars => Timely' BY TimelyInv
<1>9. TypeInv /\ NoOkPosted /\ History /\ [Next]_vars => History' BY HistoryInv
<1>10. DialogsInv /\ Budget /\ [Next]_vars => Budget' BY BudgetInv
<1>11. ImplementsContract <=> Contract!ContractSpec BY DEF ImplementsContract
<1> HIDE DEF RefineInv, DialogsInv, TypeInv, CheckPath, Control, NoOkPosted, OnTheWay, Timely, History, Budget
<1>12. Spec => []DialogsInv BY DialogsInductive
<1>13. Spec => []RefineInv
  BY <1>2, <1>3, <1>4, <1>6, <1>7, <1>8, <1>9, <1>10, <1>12, PTL DEF Spec
<1>14. Spec => Contract!ContractSpec
  BY <1>1, <1>4, <1>5, <1>13, PTL DEF Spec, Contract!ContractSpec
<1> QED BY <1>11, <1>14
=============================================================================
