--------------------------------- MODULE Osd ---------------------------------
(***************************************************************************)
(* ShowOsdLive and OsdWndProc (osd.cpp): one toast at a time, made over the *)
(* main window PlayerWindow finds, replaced by the next line or dismissed   *)
(* by its timer.  A timer message is delivered only while the pump thread   *)
(* waits for messages, never during a call.                                 *)
(***************************************************************************)
EXTENDS PlayerWindow

VARIABLES
  osdEnabled,  \* g_osdEnabled
  activeToast, \* g_activeToast
  timers,      \* the toasts whose dismiss timer runs
  texts,       \* history: strings allocated for toasts and not yet freed
  running      \* the pump thread has not ended

osd == <<osdEnabled, activeToast, timers, texts, running>>
vars == <<pwVars, osd>>

Toasts == {h \in Handles : win[h] = "toast"}

Init == /\ PwInit /\ osdEnabled \in BOOLEAN
        /\ activeToast = Nil /\ timers = {} /\ texts = 0 /\ running = TRUE

\* DestroyWindow, by the window's own thread: WM_NCDESTROY frees the text.
DestroyToast(h) == /\ win' = [win EXCEPT ![h] = "none"] /\ timers' = timers \ {h}
                   /\ texts' = texts - 1

-----------------------------------------------------------------------------
\* ShowOsdLive: nothing without a main window.
GiveUp == /\ step = "use" /\ want = "toast" /\ target = Nil /\ step' = "idle"
          /\ UNCHANGED <<windows, cache, want, listed, found, target, calls, pwHistory, osd>>

\* Mutant: a toast whose timer already runs is left to it.
StackToast ==
    /\ step = "use" /\ want = "toast" /\ target # Nil /\ step' = "create"
    /\ activeToast' = Nil
    /\ IF IsWindow(activeToast) /\ activeToast \notin timers
       THEN DestroyToast(activeToast) ELSE UNCHANGED <<win, timers, texts>>
    /\ UNCHANGED <<changes, cache, want, listed, found, target, calls, pwHistory, osdEnabled, running>>

\* The previous toast goes first.  Its handle may by now be another thread's
\* window: KillTimer and DestroyWindow fail on that one.
ReplaceToast ==
    /\ step = "use" /\ want = "toast" /\ target # Nil /\ step' = "create"
    /\ activeToast' = Nil
    /\ IF IsWindow(activeToast) /\ activeToast \in Toasts
       THEN DestroyToast(activeToast) ELSE UNCHANGED <<win, timers, texts>>
    /\ UNCHANGED <<changes, cache, want, listed, found, target, calls, pwHistory, osdEnabled, running>>

\* Mutant: the timer is not started.
CreateToastUntimed ==
    /\ step = "create" /\ step' = "idle"
    /\ \E h \in Handles : /\ win[h] = "none" /\ win' = [win EXCEPT ![h] = "toast"]
                          /\ texts' = texts + 1 /\ activeToast' = h /\ Recycle(h) /\ UNCHANGED timers
    /\ UNCHANGED <<changes, cache, want, listed, found, target, calls, steady, died, osdEnabled, running>>

CreateToast ==
    /\ step = "create" /\ step' = "idle"
    /\ \E h \in Handles : /\ win[h] = "none" /\ win' = [win EXCEPT ![h] = "toast"]
                          /\ texts' = texts + 1 /\ timers' = timers \cup {h}
                          /\ activeToast' = h /\ Recycle(h)
    /\ UNCHANGED <<changes, cache, want, listed, found, target, calls, steady, died, osdEnabled, running>>

CreateFails == /\ step = "create" /\ step' = "idle"
               /\ UNCHANGED <<windows, cache, want, listed, found, target, calls, pwHistory, osd>>

\* WM_TIMER, dispatched by the pump: g_activeToast keeps the dead handle.
Dismiss(h) ==
    /\ running /\ step = "idle" /\ h \in timers /\ DestroyToast(h)
    /\ UNCHANGED <<changes, lookup, pwHistory, osdEnabled, activeToast, running>>

\* The pump returns and its thread ends: its windows go with it, no message
\* reaching OsdWndProc any more.
EndThread ==
    /\ running /\ step = "idle" /\ running' = FALSE
    /\ win' = [h \in Handles |-> IF h \in Toasts THEN "none" ELSE win[h]] /\ timers' = {}
    /\ UNCHANGED <<changes, lookup, pwHistory, osdEnabled, activeToast, texts>>

ShowOsdLive == osdEnabled /\ Call("toast")
Showing == GiveUp \/ ReplaceToast \/ CreateToast \/ CreateFails
Next == \/ Host /\ UNCHANGED osd
        \/ running /\ (Call("query") \/ ShowOsdLive \/ Resolving) /\ UNCHANGED osd
        \/ Showing \/ (\E h \in Handles : Dismiss(h)) \/ EndThread
Spec == Init /\ [][Next]_vars

\* The pump thread runs, and the system delivers its timers.
FairSpec == /\ Spec /\ WF_vars(Resolving /\ UNCHANGED osd) /\ WF_vars(Showing)
            /\ \A h \in Handles : WF_vars(Dismiss(h))

-----------------------------------------------------------------------------
TypeOK == /\ win \in [Handles -> {"none", "shown", "hidden", "other", "toast"}]
          /\ cache \in Handles \cup {Nil} /\ target \in Handles \cup {Nil} /\ activeToast \in Handles \cup {Nil}
          /\ step \in {"idle", "resolve", "list", "select", "use", "create"} /\ want \in {"query", "toast"}
          /\ listed \in SUBSET Handles /\ candidates \in SUBSET Handles /\ visible \in SUBSET Handles
          /\ osdEnabled \in BOOLEAN /\ running \in BOOLEAN /\ timers \in SUBSET Handles
          /\ texts \in Int /\ calls \in Nat /\ changes \in Nat
          /\ steady \in SUBSET Handles /\ died \in SUBSET Handles /\ recycled \in SUBSET Handles

\* A new line replaces the one on screen (osd.cpp:176-178): there is never a
\* second toast, none that the next line would not find or that has no timer,
\* and each has the one string that is allocated, even when g_activeToast is a
\* dead or recycled handle.
OneToast == running => /\ Toasts \subseteq {activeToast} /\ Toasts = timers
                       /\ texts = Cardinality(Toasts)

\* A toast goes away with no further action of the caller (osd.hpp:43-45).
ToastGoes == \A h \in Handles : win[h] = "toast" ~> win[h] # "toast"
=============================================================================
