------------------------------ MODULE Osd_proof ------------------------------
(***************************************************************************)
(* The safety of PlayerWindow and Osd, for any number of handles, windows   *)
(* and calls.  MainWindowReached speaks only of a window in use; it follows *)
(* from what is known on the way there: the windows that lived since the    *)
(* call began are still listed or candidates already, and a handle kept for *)
(* a dead window is only ever alive again as a recycled one.  OneToast needs to know that between *)
(* the old toast's end and the new one's creation there is none.            *)
(***************************************************************************)
EXTENDS Osd, FiniteSetTheorems, TLAPS

\* The type invariant, its Boolean part and the bounds' counters apart.
Flags == osdEnabled \in BOOLEAN /\ running \in BOOLEAN
Counters == calls \in Nat /\ changes \in Nat
Typed == /\ win \in [Handles -> {"none", "shown", "hidden", "other", "toast"}]
         /\ cache \in Handles \cup {Nil} /\ target \in Handles \cup {Nil} /\ activeToast \in Handles \cup {Nil}
         /\ step \in {"idle", "resolve", "list", "select", "use", "create"} /\ want \in {"query", "toast"}
         /\ listed \in SUBSET Handles /\ candidates \in SUBSET Handles /\ visible \in SUBSET Handles /\ timers \in SUBSET Handles /\ texts \in Int
         /\ steady \in SUBSET Handles /\ died \in SUBSET Handles /\ recycled \in SUBSET Handles

\* What is known of a handle kept for a main window.
Kept(h) == IsWindow(h) /\ h \notin Mains => h \in recycled
\* Of a candidate, too: if it is dead it died during the call.
Asked(h) == Kept(h) /\ (~IsWindow(h) => h \in died)
Found == /\ steady \subseteq Mains /\ (step = "select" => steady \subseteq listed \cup candidates)
         /\ Kept(cache) /\ Kept(target)
         /\ visible \subseteq candidates /\ \A h \in candidates : Asked(h)
         /\ step # "select" => candidates = {}
         /\ step = "use" => /\ target = Nil => steady = {}
                            /\ target # Nil /\ ~IsWindow(target) => target \in died

\* The one toast, and its string.
Single == /\ step # "idle" => running
          /\ running => /\ Toasts \subseteq {activeToast} /\ Toasts = timers
                        /\ texts = IF Toasts = {} THEN 0 ELSE 1
          /\ step = "create" => Toasts = {}

Safe == Typed /\ Found /\ Single
IInv == Flags /\ Counters /\ Safe

LEMMA TypeParts == Flags /\ Counters /\ Typed => TypeOK
BY DEF Flags, Counters, Typed, TypeOK

\* The invariant holds when the pump starts, whatever windows PotPlayer has.
LEMMA InitInv == Init => IInv
<1> SUFFICES ASSUME Init PROVE IInv
  OBVIOUS
<1> USE DEF Init, PwInit
<1>1. Flags BY DEF Flags
<1>2. Counters BY DEF Counters
<1>3. Typed BY DEF Typed
<1>4. Found BY WindowAssumption DEF Found, Asked, Kept, IsWindow
<1>5. Single BY DEF Single, Toasts
<1> QED BY <1>1, <1>2, <1>3, <1>4, <1>5 DEF IInv, Safe

\* What no step but ShowOsdLive's calls, EndThread and the bounds changes.
LEMMA FlagsInv == Flags /\ [Next]_vars => Flags'
BY DEF Flags, Next, Host, Call, Resolving, ResolveMainWindow, EnumerateOwnProcessWindows, FindMainWindow,
   EnumWindowsCallback, Query, ShowOsdLive, Showing, GiveUp, ReplaceToast, CreateToast, CreateFails, Dismiss, EndThread,
   DestroyToast, vars, osd

LEMMA CountersInv == Counters /\ [Next]_vars => Counters'
BY DEF Counters, Next, Host, HostCreates, HostShows, HostDestroys, Call, Resolving, ResolveMainWindow,
   EnumerateOwnProcessWindows, EnumWindowsCallback, FindMainWindow, Query, ShowOsdLive, Showing, GiveUp, ReplaceToast,
   CreateToast, CreateFails, Dismiss, EndThread, vars, pwVars, windows, lookup

\* PotPlayer's own changes: a window that was in use is missed only once it has
\* died, and its handle met again only as recycled.
LEMMA HostSafe == ASSUME Safe, Host, UNCHANGED osd PROVE Safe'
<1> USE DEF osd, lookup, found, pwHistory, MainKinds
<1>1. PICK h \in Handles : \/ \E kind \in MainKinds \cup {"other"} : HostCreates(h, kind)
                           \/ \E kind \in MainKinds : HostShows(h, kind)
                           \/ HostDestroys(h)
  BY DEF Host
<1>2. Typed' BY <1>1 DEF Safe, Typed, HostCreates, HostShows, HostDestroys, Recycle
<1>3. Found'
  <2>1. CASE \E kind \in MainKinds \cup {"other"} : HostCreates(h, kind)
    BY <1>1, <2>1, WindowAssumption DEF Safe, Typed, Found, HostCreates, Recycle, Asked, Kept, IsWindow, Mains
  <2>2. CASE \E kind \in MainKinds : HostShows(h, kind)
    BY <1>1, <2>2, WindowAssumption DEF Safe, Typed, Found, HostShows, Asked, Kept, IsWindow, Mains
  <2>3. CASE HostDestroys(h)
    BY <1>1, <2>3, WindowAssumption DEF Safe, Typed, Found, HostDestroys, Asked, Kept, IsWindow, Mains
  <2> QED BY <1>1, <2>1, <2>2, <2>3
<1>4. Toasts' = Toasts
  BY <1>1 DEF Safe, Typed, Toasts, HostCreates, HostShows, HostDestroys
<1>5. Single' BY <1>1, <1>4 DEF Safe, Single, HostCreates, HostShows, HostDestroys
<1> QED BY <1>2, <1>3, <1>5 DEF Safe

\* A call begins, and the window it is for is looked up and used.
LEMMA CallSafe == ASSUME Safe, running, NEW what \in {"query", "toast"}, Call(what), UNCHANGED osd PROVE Safe'
<1> USE DEF Safe, Call, osd, windows, found
<1>1. Typed' BY DEF Typed, Mains
<1>2. Found' BY DEF Typed, Found, Asked, Kept, IsWindow, Mains
<1>3. Single' BY DEF Single, Toasts
<1> QED BY <1>1, <1>2, <1>3

LEMMA ResolvingSafe == ASSUME Safe, running, Resolving, UNCHANGED osd PROVE Safe'
<1> USE DEF Safe, osd, windows, found, pwHistory, MainKinds
<1>1. CASE ResolveMainWindow
  BY <1>1 DEF ResolveMainWindow, Typed, Found, Asked, Kept, IsWindow, Mains, Single, Toasts
<1>2. CASE EnumerateOwnProcessWindows
  <2>1. Mains \subseteq listed'
    BY <1>2, WindowAssumption DEF EnumerateOwnProcessWindows, IsWindow, Mains
  <2> QED BY <1>2, <2>1 DEF EnumerateOwnProcessWindows, Typed, Found, Asked, Kept, IsWindow, Mains, Single, Toasts
<1>3. CASE EnumWindowsCallback
  <2>1. PICK h \in listed :
          /\ listed' = listed \ {h}
          /\ candidates' = IF h \in Mains THEN candidates \cup {h} ELSE candidates
          /\ visible' = IF win[h] = "shown" THEN visible \cup {h} ELSE visible
    BY <1>3 DEF EnumWindowsCallback
  <2>2. /\ step = "select" /\ UNCHANGED <<win, step, cache, target, want, steady, died, recycled, osd>>
        /\ UNCHANGED <<calls, changes>>
    BY <1>3 DEF EnumWindowsCallback
  <2>3. h \in Handles /\ h # Nil BY WindowAssumption DEF Typed
  <2>4. Typed' BY <2>1, <2>2, <2>3 DEF Typed
  <2>5. Mains' = Mains /\ \A x : IsWindow(x)' = IsWindow(x) BY <2>2 DEF Mains, IsWindow
  <2>6. \A x \in candidates' : Asked(x)'
    <3>1. h \in Mains => IsWindow(h) BY <2>3 DEF Mains, IsWindow
    <3> QED BY <2>1, <2>2, <2>5, <3>1 DEF Found, Asked, Kept
  <2>7. visible' \subseteq candidates' BY <2>1, <2>3 DEF Found, Mains
  <2>8. steady' \subseteq Mains' /\ steady' \subseteq listed' \cup candidates'
    BY <2>1, <2>2, <2>5 DEF Found
  <2>9. Found' BY <2>2, <2>5, <2>6, <2>7, <2>8 DEF Found, Kept
  <2>10. Single' BY <2>2 DEF Single, Toasts
  <2> QED BY <2>4, <2>9, <2>10
<1>4. CASE FindMainWindow
  <2>1. IF SelectWindow = {} THEN target' = Nil ELSE target' \in SelectWindow
    BY <1>4 DEF FindMainWindow
  <2>2. SelectWindow \subseteq candidates /\ (SelectWindow = {} => candidates = {})
    BY DEF SelectWindow, Found
  <2>3. /\ UNCHANGED <<win, steady, died, recycled>> /\ step = "select" /\ listed = {} /\ step' = "use"
        /\ cache' = target' /\ candidates' = {} /\ visible' = {} /\ UNCHANGED <<listed, want, changes, calls>>
    BY <1>4 DEF FindMainWindow
  <2>4. Typed' BY <2>1, <2>2, <2>3 DEF Typed
  <2>5. target' = Nil => steady = {} BY <2>1, <2>2, <2>3, WindowAssumption DEF Typed, Found
  <2>6. target' # Nil => Asked(target') BY <2>1, <2>2 DEF Found
  <2>7. Found' BY <2>3, <2>5, <2>6 DEF Found, Asked, Kept, IsWindow, Mains
  <2>8. Single' BY <2>3 DEF Single, Toasts
  <2> QED BY <2>4, <2>7, <2>8
<1>5. CASE Query
  BY <1>5 DEF Query, Typed, Found, Asked, Kept, IsWindow, Mains, Single, Toasts
<1> QED BY <1>1, <1>2, <1>3, <1>4, <1>5 DEF Resolving

\* A toast that is destroyed was the only one.
LEMMA DestroySafe ==
    ASSUME Safe, running, NEW h \in Handles, h \in Toasts, DestroyToast(h)
    PROVE  Toasts' = {} /\ timers' = {} /\ texts' = 0 /\ Mains' = Mains
<1>1. Toasts = {h} BY DEF Safe, Single
<1>2. Toasts' = {} /\ Mains' = Mains
  BY <1>1 DEF Safe, Typed, DestroyToast, Toasts, Mains, MainKinds
<1> QED BY <1>1, <1>2 DEF Safe, Single, DestroyToast

LEMMA ShowingSafe == ASSUME Safe, Showing PROVE Safe'
<1> USE DEF Safe, osd, windows, found, pwHistory, MainKinds
<1>0. running
  BY DEF Showing, GiveUp, ReplaceToast, CreateToast, CreateFails, Single
<1>1. CASE GiveUp
  BY <1>1 DEF GiveUp, Typed, Found, Asked, Kept, IsWindow, Mains, Single, Toasts
<1>2. CASE ReplaceToast
  <2>1. Toasts' = {} /\ (running => Toasts' = timers' /\ texts' = 0) /\ Mains' = Mains
    <3>1. CASE IsWindow(activeToast) /\ activeToast \in Toasts
      BY <1>0, <1>2, <3>1, DestroySafe DEF ReplaceToast, Toasts
    <3>2. CASE ~(IsWindow(activeToast) /\ activeToast \in Toasts)
      <4>1. Toasts = {}
        BY <1>0, <3>2, WindowAssumption DEF Single, IsWindow, Toasts
      <4> QED BY <1>0, <1>2, <3>2, <4>1 DEF ReplaceToast, Toasts, Mains, Single
    <3> QED BY <3>1, <3>2
  <2>2. Typed' BY <1>2 DEF ReplaceToast, DestroyToast, Typed
  <2>3. Found' BY <1>2, <2>1, <2>2 DEF ReplaceToast, DestroyToast, Typed, Found, Asked, Kept, IsWindow
  <2>4. Single' BY <1>0, <1>2, <2>1 DEF ReplaceToast, Single
  <2> QED BY <2>2, <2>3, <2>4
<1>3. CASE CreateToast
  <2>1. PICK h \in Handles : /\ win[h] = "none" /\ win' = [win EXCEPT ![h] = "toast"]
                             /\ texts' = texts + 1 /\ timers' = timers \cup {h}
                             /\ activeToast' = h /\ Recycle(h)
    BY <1>3 DEF CreateToast
  <2>2. Toasts' = {h} /\ Mains' = Mains
    BY <1>3, <2>1 DEF CreateToast, Typed, Single, Toasts, Mains
  <2>3. Typed' BY <1>3, <2>1 DEF CreateToast, Recycle, Typed
  <2>4. Found' BY <1>3, <2>1, <2>2, <2>3 DEF CreateToast, Recycle, Typed, Found, Asked, Kept, IsWindow
  <2>5. Single' BY <1>0, <1>3, <2>1, <2>2 DEF CreateToast, Single
  <2> QED BY <2>3, <2>4, <2>5
<1>4. CASE CreateFails
  BY <1>4 DEF CreateFails, Typed, Found, Asked, Kept, IsWindow, Mains, Single, Toasts
<1> QED BY <1>1, <1>2, <1>3, <1>4 DEF Showing

LEMMA DismissSafe == ASSUME Safe, NEW h \in Handles, Dismiss(h) PROVE Safe'
<1> USE DEF Safe, Dismiss, lookup, found, pwHistory
<1>1. h \in Toasts BY DEF Single
<1>2. Toasts' = {} /\ timers' = {} /\ texts' = 0 /\ Mains' = Mains
  BY <1>1, DestroySafe
<1>3. Typed' BY DEF DestroyToast, Typed
<1>4. Found' BY <1>2, <1>3 DEF DestroyToast, Typed, Found, Asked, Kept, IsWindow
<1>5. Single' BY <1>2 DEF Single
<1> QED BY <1>3, <1>4, <1>5

LEMMA EndThreadSafe == ASSUME Safe, EndThread PROVE Safe'
<1> USE DEF Safe, EndThread, lookup, found, pwHistory, MainKinds
<1>1. Mains' = Mains BY DEF Typed, Mains, Toasts
<1>2. Typed' BY DEF Typed, Toasts
<1>3. Found' BY <1>1, <1>2 DEF Typed, Found, Asked, Kept, IsWindow, Toasts
<1>4. Single' BY DEF Single
<1> QED BY <1>2, <1>3, <1>4

LEMMA SafeInv == Safe /\ [Next]_vars => Safe'
<1> SUFFICES ASSUME Safe, [Next]_vars PROVE Safe'
  OBVIOUS
<1>1. CASE Host /\ UNCHANGED osd BY <1>1, HostSafe
<1>2. CASE running /\ (Call("query") \/ ShowOsdLive) /\ UNCHANGED osd
  BY <1>2, CallSafe DEF ShowOsdLive
<1>3. CASE running /\ Resolving /\ UNCHANGED osd BY <1>3, ResolvingSafe
<1>4. CASE Showing BY <1>4, ShowingSafe
<1>5. CASE \E h \in Handles : Dismiss(h) BY <1>5, DismissSafe
<1>6. CASE EndThread BY <1>6, EndThreadSafe
<1>7. CASE UNCHANGED vars
  BY <1>7 DEF vars, pwVars, windows, lookup, found, pwHistory, osd, Safe, Typed, Found, Asked, Kept, IsWindow, Mains,
     Single, Toasts
<1> QED BY <1>1, <1>2, <1>3, <1>4, <1>5, <1>6, <1>7 DEF Next

LEMMA Invariance == Spec => []IInv
<1>1. IInv /\ [Next]_vars => IInv' BY FlagsInv, CountersInv, SafeInv DEF IInv
<1> QED BY <1>1, InitInv, PTL DEF Spec

-----------------------------------------------------------------------------
\* Every variable has its type, for any handles and bounds.
THEOREM TypeCorrect == Spec => []TypeOK
<1>1. IInv => TypeOK BY TypeParts DEF IInv, Safe
<1> QED BY <1>1, Invariance, PTL

\* However PotPlayer's windows change during a call (player_window.cpp:45-57), a
\* main window that stays is found, and what is used in its place is a window
\* that died or took its handle meanwhile.
THEOREM MainWindowIsReached == Spec => []MainWindowReached
<1>1. IInv => MainWindowReached BY DEF IInv, Safe, Found, Kept, MainWindowReached
<1> QED BY <1>1, Invariance, PTL

\* Never a second toast, nor one the next line does not find, nor a string that
\* leaks, whatever became of the handle in g_activeToast (osd.cpp:176-183).
THEOREM NeverTwoToasts == Spec => []OneToast
<1>1. IInv => OneToast
  <2> SUFFICES ASSUME IInv, running PROVE OneToast
    BY DEF OneToast
  <2>1. /\ Toasts \subseteq {activeToast} /\ Toasts = timers
        /\ texts = IF Toasts = {} THEN 0 ELSE 1
    BY DEF IInv, Safe, Single
  <2>2. Toasts = {} \/ Toasts = {activeToast} BY <2>1
  <2>3. texts = Cardinality(Toasts) BY <2>1, <2>2, FS_EmptySet, FS_Singleton
  <2> QED BY <2>1, <2>3 DEF OneToast
<1> QED BY <1>1, Invariance, PTL
=============================================================================
