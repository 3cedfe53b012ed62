----------------------------- MODULE PotPlayerUi -----------------------------
(***************************************************************************)
(* PotPlayer's UI thread, as the plugin sees it.  PotPlayer is not part of  *)
(* the repository: this module states what the plugin's source and          *)
(* docs/FINDINGS.md rely on.                                                *)
(*                                                                         *)
(*  - One thread dispatches posted messages in FIFO order.  It may be busy  *)
(*    for any time; while it is, a message sent to it has no answer.        *)
(*  - Skip Setup and Skip Interval Setup are modal: each runs a nested      *)
(*    message loop, which goes on dispatching messages for every window.    *)
(*    A dialog whose handler called EndDialog is destroyed only when its    *)
(*    own loop is the innermost one.  Handles grow, so the innermost dialog *)
(*    is the one with the greatest handle.                                  *)
(*  - Skip Setup edits a copy of the skip list; OK writes the copy back,    *)
(*    Cancel drops it.  Skip Interval Setup's OK appends one row.           *)
(***************************************************************************)
EXTENDS Naturals, Sequences

CONSTANTS Ranges,       \* skip ranges a caller may commit
          Existing,     \* a row the file's skip list holds from the start
          Probe,        \* what Skip Interval Setup shows before it is filled
          Mangled,      \* what the dialog turned an input into that it rejected
          Faults,       \* the external failures that may happen
          MaxWindows    \* bound: dialogs created in one behaviour

Entry == Ranges \cup {Existing, Probe, Mangled}
FaultKinds == {"noMain", "hook", "hookMiss", "post", "readback", "checkbox", "nest", "esc"}

ASSUME UiAssumption ==
    /\ MaxWindows \in Nat
    /\ Faults \subseteq FaultKinds
    /\ Existing \notin Ranges /\ Probe \notin Ranges /\ Mangled \notin Ranges
    /\ Existing # Probe /\ Existing # Mangled

VARIABLES busy,     \* the UI thread is inside a handler, off its message loop
          queue,    \* messages posted to the UI thread
          born,     \* how many dialogs were ever created: handles 1..born
          win,      \* handle -> dialog
          saved,    \* the file's skip list, as kept in memory and in its .pbf
          enabled   \* the "Enable skip feature" setting

uiVars == <<busy, queue, born, win, saved, enabled>>

Main == 0
Windows == 1..MaxWindows
Handles == 0..MaxWindows
Commands == {"open", "add", "ok", "cancel"}
Message == [to : Handles, cmd : Commands]
Window == [kind : {"setup", "interval"}, life : {"open", "ended", "gone"},
           owner : Handles, rows : Seq(Entry), checked : BOOLEAN, field : Entry]

IsWindow(h) == h \in 1..born /\ win[h].life # "gone"
IsKind(h, k) == IsWindow(h) /\ win[h].kind = k

\* The dialog whose loop is the innermost one; Main when no dialog is open.
IsInnermost(h) == /\ h = Main \/ IsWindow(h)
                  /\ \A g \in Windows : IsWindow(g) => g <= h

\* PostMessage: queued for a live window, refused for a destroyed one.
PostMessage(h, c) == /\ h = Main \/ IsWindow(h)
                     /\ queue' = Append(queue, [to |-> h, cmd |-> c])
                     /\ UNCHANGED <<busy, born, win, saved, enabled>>
PostMessageFails(h) == /\ "post" \in Faults \/ ~(h = Main \/ IsWindow(h))
                       /\ UNCHANGED uiVars

\* SendMessage(LVM_GETITEMCOUNT): a destroyed window answers 0.
ItemCount(h) == IF IsWindow(h) THEN Len(win[h].rows) ELSE 0

EndDialog(h) == [win EXCEPT ![h].life = "ended"]

Create(d) == /\ born < MaxWindows
             /\ born' = born + 1
             /\ win' = [win EXCEPT ![born + 1] = d]

UiInit == /\ busy = FALSE
          /\ queue = <<>>
          /\ born = 0
          /\ win = [h \in Windows |->
                      [kind |-> "setup", life |-> "gone", owner |-> Main,
                       rows |-> <<>>, checked |-> FALSE, field |-> Probe]]
          /\ saved \in {<<>>, <<Existing>>}
          /\ enabled \in BOOLEAN

\* The innermost loop takes the next message unless its own dialog has ended.
Dispatch(c) == /\ ~busy /\ queue # <<>> /\ Head(queue).cmd = c
               /\ \A h \in Windows : IsInnermost(h) => win[h].life = "open"
               /\ queue' = Tail(queue)
               /\ UNCHANGED busy

\* A command that opens a modal dialog while one of its kind is already open
\* is ignored, or opens a second one: the sources do not say which.
MayOpen(k) == "nest" \in Faults \/ \A g \in Windows : ~IsKind(g, k)
MayIgnore(k) == \E g \in Windows : IsKind(g, k)

UiOpenSkipSetup ==
    /\ Dispatch("open")
    /\ \/ /\ MayOpen("setup")
          /\ Create([kind |-> "setup", life |-> "open", owner |-> Main,
                     rows |-> saved, checked |-> enabled, field |-> Probe])
       \/ MayIgnore("setup") /\ UNCHANGED <<born, win>>
    /\ UNCHANGED <<saved, enabled>>

UiAdd ==
    /\ Dispatch("add")
    /\ LET d == Head(queue).to IN
       /\ IsWindow(d)
       /\ \/ /\ MayOpen("interval")
             /\ Create([kind |-> "interval", life |-> "open", owner |-> d,
                        rows |-> <<>>, checked |-> FALSE, field |-> Probe])
          \/ MayIgnore("interval") /\ UNCHANGED <<born, win>>
    /\ UNCHANGED <<saved, enabled>>

UiIntervalOk ==
    /\ Dispatch("ok")
    /\ LET i == Head(queue).to
           d == win[i].owner IN
       /\ IsKind(i, "interval")
       /\ win' = [EndDialog(i) EXCEPT ![d].rows = Append(@, win[i].field)]
    /\ UNCHANGED <<born, saved, enabled>>

UiSetupOk ==
    /\ Dispatch("ok")
    /\ LET d == Head(queue).to IN
       /\ IsKind(d, "setup")
       /\ win' = EndDialog(d)
       /\ saved' = win[d].rows
       /\ enabled' = win[d].checked
    /\ UNCHANGED born

UiCancel ==
    /\ Dispatch("cancel")
    /\ IsWindow(Head(queue).to)
    /\ win' = EndDialog(Head(queue).to)
    /\ UNCHANGED <<born, saved, enabled>>

\* A message for a window destroyed since it was posted goes nowhere.
UiDrop ==
    /\ \E c \in {"add", "ok", "cancel"} : Dispatch(c)
    /\ ~IsWindow(Head(queue).to)
    /\ UNCHANGED <<born, win, saved, enabled>>

\* The innermost modal loop returns and its dialog is destroyed.
UiDestroy ==
    /\ ~busy
    /\ \E h \in Windows : /\ IsInnermost(h) /\ win[h].life = "ended"
                          /\ win' = [win EXCEPT ![h].life = "gone"]
    /\ UNCHANGED <<busy, queue, born, saved, enabled>>

\* The user presses Esc: the innermost dialog has the keyboard, parked or not.
UserEsc ==
    /\ "esc" \in Faults /\ ~busy
    /\ \E h \in Windows : /\ IsInnermost(h) /\ win[h].life = "open"
                          /\ win' = EndDialog(h)
    /\ UNCHANGED <<busy, queue, born, saved, enabled>>

\* A slow disk, a network share, a repaint: off the loop for any time.
UiStall == ~busy /\ busy' = TRUE /\ UNCHANGED <<queue, born, win, saved, enabled>>
UiResume == busy /\ busy' = FALSE /\ UNCHANGED <<queue, born, win, saved, enabled>>

UiNext == \/ UiOpenSkipSetup \/ UiAdd \/ UiIntervalOk \/ UiSetupOk \/ UiCancel
          \/ UiDrop \/ UiDestroy \/ UserEsc \/ UiStall \/ UiResume

UiTypeOK == /\ busy \in BOOLEAN
            /\ queue \in Seq(Message)
            /\ born \in Handles
            /\ win \in [Windows -> Window]
            /\ saved \in Seq(Entry)
            /\ enabled \in BOOLEAN
=============================================================================
