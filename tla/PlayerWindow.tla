---------------------------- MODULE PlayerWindow ----------------------------
(***************************************************************************)
(* How the pump thread reaches PotPlayer's main window (player_window.cpp,  *)
(* window.cpp, window_enum.cpp): a handle cached in g_mainWindow, checked   *)
(* with IsWindow on every use and looked up again by class once it is dead. *)
(* The windows belong to PotPlayer's UI thread, which creates, hides and    *)
(* destroys them at any moment; the system gives a dead window's handle to  *)
(* a later one.                                                             *)
(***************************************************************************)
EXTENDS Integers, FiniteSets

CONSTANTS Handles,    \* window handles the system may give out
          Nil,        \* the null handle
          MaxChanges, \* bound: changes of PotPlayer's windows in one behaviour
          MaxCalls    \* bound: calls of the pump thread in one behaviour

ASSUME WindowAssumption == /\ Nil \notin Handles /\ IsFiniteSet(Handles)
                           /\ MaxChanges \in Nat /\ MaxCalls \in Nat

VARIABLES
  win,     \* what window each handle stands for: none, one of class PotPlayer64
           \* that is shown or hidden, another one of PotPlayer's, or a toast
  cache,   \* g_mainWindow
  step,    \* where the pump thread is
  want,    \* what it resolves the window for: a query or a toast
  listed,  \* the handles EnumWindows has yet to ask about
  candidates, visible, \* those of the class, and of these those that were shown
  target,  \* what ResolveMainWindow returned
  calls, changes,  \* history: how many so far
  steady,  \* history: main windows that lived since the call began
  died,    \* history: windows that died since then
  recycled \* history: handles given to a new window while in use for a dead one

windows == <<win, changes>>
found == <<candidates, visible>>
lookup == <<cache, step, want, listed, found, target, calls>>
pwHistory == <<steady, died, recycled>>
pwVars == <<windows, lookup, pwHistory>>

MainKinds == {"shown", "hidden"}
Mains == {h \in Handles : win[h] \in MainKinds}
IsWindow(h) == h # Nil /\ win[h] # "none"

PwInit == /\ win \in [Handles -> {"none", "shown", "hidden"}] /\ cache = Nil
          /\ step = "idle" /\ want = "query" /\ listed = {} /\ target = Nil
          /\ candidates = {} /\ visible = {}
          /\ calls = 0 /\ changes = 0 /\ steady = {} /\ died = {} /\ recycled = {}

-----------------------------------------------------------------------------
\* A handle in use for a dead window that a new one gets.
Recycle(h) == recycled' = IF h \in candidates \cup {cache, target} THEN recycled \cup {h} ELSE recycled

HostCreates(h, kind) ==
    /\ win[h] = "none" /\ changes < MaxChanges /\ changes' = changes + 1
    /\ win' = [win EXCEPT ![h] = kind] /\ Recycle(h)
    /\ UNCHANGED <<lookup, steady, died>>
HostShows(h, kind) ==
    /\ win[h] \in MainKinds \ {kind} /\ changes < MaxChanges /\ changes' = changes + 1
    /\ win' = [win EXCEPT ![h] = kind]
    /\ UNCHANGED <<lookup, pwHistory>>
HostDestroys(h) ==
    /\ win[h] \in MainKinds \cup {"other"} /\ changes < MaxChanges /\ changes' = changes + 1
    /\ win' = [win EXCEPT ![h] = "none"]
    /\ steady' = steady \ {h} /\ died' = died \cup {h}
    /\ UNCHANGED <<lookup, recycled>>
Host == \E h \in Handles :
    \/ \E kind \in MainKinds \cup {"other"} : HostCreates(h, kind)
    \/ \E kind \in MainKinds : HostShows(h, kind)
    \/ HostDestroys(h)

-----------------------------------------------------------------------------
Call(what) ==
    /\ step = "idle" /\ calls < MaxCalls /\ calls' = calls + 1
    /\ want' = what /\ step' = "resolve" /\ steady' = Mains /\ died' = {}
    /\ UNCHANGED <<windows, cache, listed, found, target, recycled>>

\* Mutant: the handle found once is used for good.
TrustCache ==
    /\ step = "resolve"
    /\ IF cache # Nil THEN target' = cache /\ step' = "use" ELSE step' = "list" /\ UNCHANGED target
    /\ UNCHANGED <<windows, cache, want, listed, found, calls, pwHistory>>

ResolveMainWindow ==
    /\ step = "resolve"
    /\ IF IsWindow(cache) THEN target' = cache /\ step' = "use" ELSE step' = "list" /\ UNCHANGED target
    /\ UNCHANGED <<windows, cache, want, listed, found, calls, pwHistory>>

\* EnumWindows lists the handles there are, then asks about one after the other.
EnumerateOwnProcessWindows ==
    /\ step = "list" /\ listed' = {h \in Handles : IsWindow(h)} /\ step' = "select"
    /\ UNCHANGED <<windows, cache, want, found, target, calls, pwHistory>>

\* The class and the visibility of one; the order is the system's.
EnumWindowsCallback ==
    /\ step = "select"
    /\ \E h \in listed :
          /\ listed' = listed \ {h}
          /\ candidates' = IF h \in Mains THEN candidates \cup {h} ELSE candidates
          /\ visible' = IF win[h] = "shown" THEN visible \cup {h} ELSE visible
    /\ UNCHANGED <<windows, cache, step, want, target, calls, pwHistory>>

\* A window that was visible, else any of the class.
SelectWindow == IF visible # {} THEN visible ELSE candidates

FindMainWindow ==
    /\ step = "select" /\ listed = {} /\ step' = "use"
    /\ IF SelectWindow = {} THEN target' = Nil ELSE target' \in SelectWindow
    /\ cache' = target' /\ candidates' = {} /\ visible' = {}
    /\ UNCHANGED <<windows, want, listed, calls, pwHistory>>

\* SendMessage to the handle, whatever window it stands for by now; 0 from none.
Query ==
    /\ step = "use" /\ want = "query" /\ step' = "idle"
    /\ UNCHANGED <<windows, cache, want, listed, found, target, calls, pwHistory>>

Resolving == \/ ResolveMainWindow \/ EnumerateOwnProcessWindows
             \/ EnumWindowsCallback \/ FindMainWindow \/ Query

-----------------------------------------------------------------------------
\* A main window that was there throughout the call is never reported missing,
\* and a window that was dead before it is never used again, so a recreated one
\* is found (player_window.cpp:43-44); and a window used that is not a main one
\* was given a dead one's handle while that was in use -- the exception that
\* player_window.cpp:26-28 rules out.
MainWindowReached ==
    step = "use" =>
        /\ target = Nil => steady = {}
        /\ target # Nil /\ ~IsWindow(target) => target \in died
        /\ IsWindow(target) /\ target \notin Mains => target \in recycled
=============================================================================
