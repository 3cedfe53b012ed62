---------------------------- MODULE Proxy_proof ----------------------------
(***************************************************************************)
(* Install, Uninstall and Repair never lose PotPlayer's real module, for    *)
(* any number of releases, whatever fails and wherever they are killed.     *)
(*                                                                         *)
(* RealModuleKept is not inductive: it does not say which file holds the    *)
(* module.  Core does: MediaDB64.dll itself when that is a real module, and *)
(* the backup otherwise.  Committed adds what an operation has found out    *)
(* about the directory and must still rely on when it takes its next step.  *)
(*                                                                         *)
(* The second half is the life of the DLL that Install puts in place, once   *)
(* a host has loaded it: ProxyLifecycle, whose names start with Dll where    *)
(* ProxyInstall has the same.                                               *)
(***************************************************************************)
EXTENDS ProxyInstall, ProxyLifecycle, TLAPS

Core == IF dir["live"] \in Versions
        THEN dir["live"] = released
        ELSE dir["orig"] = released /\ released \in matches

Committed ==
    /\ step \in {"clearNew", "copy", "setAside", "dropStale"} =>
           dir["live"] \in Versions /\ dir["live"] \in matches
    /\ step = "dropBackup" => dir["live"] \in Versions
    /\ step \in {"clearAside", "takeOut"} => dir["live"] = Proxy

\* The type invariant apart from the flag that never changes.
Typed == /\ dir \in Layout /\ before \in Layout
         /\ released \in Versions /\ matches \in SUBSET Versions
         /\ op \in {"install", "uninstall", "repair"}
         /\ step \in {"idle", "install", "uninstall", "repair", "clearNew", "copy", "setAside",
                      "place", "undoPlace", "dropBackup", "clearAside", "takeOut", "restore",
                      "undoTakeOut", "discard", "dropStale"}
         /\ outcome \in {"returned", "threw", "killed"} /\ failures \in Nat
IInv == Typed /\ Core /\ Committed

\* The contents of a file are told apart.
LEMMA Contents ==
    /\ Versions \subseteq Nat /\ Nothing \notin Versions
    /\ Proxy \notin Versions /\ Truncated \notin Versions
    /\ Proxy # Nothing /\ Truncated # Nothing /\ Proxy # Truncated
    /\ 1 \in Versions
BY InstallAssumption DEF Versions, Nothing, Proxy, Truncated

\* What each file operation does, file by file.
Files == dir \in [Names -> Content]

LEMMA RenameFacts ==
    ASSUME Files, NEW f \in Names, NEW g \in Names, f # g, Rename(f, g)
    PROVE  /\ Files' /\ dir[f] # Nothing /\ dir[g] = Nothing /\ failures' = failures
           /\ dir'[f] = Nothing /\ dir'[g] = dir[f]
           /\ \A h \in Names \ {f, g} : dir'[h] = dir[h]
BY DEF Files, Rename, CanRename, Exists, Content

LEMMA RemoveFacts ==
    ASSUME Files, NEW f \in Names, Remove(f)
    PROVE  /\ Files' /\ dir'[f] = Nothing /\ failures' = failures
           /\ \A h \in Names \ {f} : dir'[h] = dir[h]
BY DEF Files, Remove, Content

LEMMA FailFacts ==
    ASSUME failures \in Nat, Fails
    PROVE  failures' \in Nat /\ dir' = dir
BY DEF Fails

LEMMA LayoutFacts ==
    ASSUME NEW d
    PROVE  d \in Layout <=> /\ d \in [Names -> Content]
                            /\ d["orig"] \in Versions \cup {Nothing}
                            /\ d["new"] \in {Nothing, Proxy, Truncated}
                            /\ d["aside"] \in {Nothing, Proxy}
BY DEF Layout

\* The directory is pristine before the first operation.
LEMMA InitInv == Init => IInv
<1> SUFFICES ASSUME Init PROVE IInv
  OBVIOUS
<1>1. dir["live"] = 1 /\ dir["orig"] = Nothing /\ dir \in Layout
  BY Contents DEF Init, Layout, Names, Content
<1>2. Typed BY <1>1, Contents DEF Init, Typed
<1>3. Core BY <1>1, Contents DEF Init, Core
<1>4. Committed BY DEF Init, Committed
<1> QED BY <1>2, <1>3, <1>4 DEF IInv

\* A step's files first, one by one; where the step goes then decides.
USE DEF IInv, Core, Committed, Keep, call, Goto, End

\* Install: the real module is set aside before anything takes its place.
LEMMA InstallInv == IInv /\ Install => IInv'
<1> SUFFICES ASSUME IInv, Install PROVE IInv'
  OBVIOUS
<1> USE DEF Typed
<1>0. /\ Files /\ {"live", "orig", "new", "aside"} \subseteq Names
      /\ dir["orig"] \in Versions \cup {Nothing} /\ dir["new"] \in {Nothing, Proxy, Truncated}
      /\ dir["aside"] \in {Nothing, Proxy}
  BY LayoutFacts DEF Names, Files
<1>1. CASE CheckInstall BY <1>1, Contents DEF CheckInstall, NotReady, State, Exists
<1>2. CASE ClearNew
  <2>1. CASE Remove("new") /\ Goto("copy")
    <3>1. Files' /\ dir'["live"] = dir["live"] /\ dir'["orig"] = dir["orig"]
          /\ dir'["new"] = Nothing /\ dir'["aside"] = dir["aside"] /\ failures' = failures
      BY <1>0, <2>1, RemoveFacts DEF Names
    <3>2. dir' \in Layout BY <1>0, <1>2, <2>1, <3>1, LayoutFacts, Contents DEF ClearNew, Files
    <3> QED BY <1>2, <2>1, <3>1, <3>2, Contents DEF ClearNew
  <2>2. CASE OrStop("copy") BY <1>2, <2>2 DEF ClearNew, OrStop, Fails
  <2> QED BY <1>2, <2>1, <2>2 DEF ClearNew
<1>3. CASE CopyProxy
  <2>1. CASE dir' = [dir EXCEPT !["new"] = Proxy] /\ Goto("setAside") /\ UNCHANGED failures
    <3>1. Files' /\ dir'["live"] = dir["live"] /\ dir'["orig"] = dir["orig"]
          /\ dir'["new"] = Proxy /\ dir'["aside"] = dir["aside"]
      BY <1>0, <2>1 DEF Files, Names, Content
    <3>2. dir' \in Layout BY <1>0, <3>1, LayoutFacts DEF Files
    <3> QED BY <1>3, <2>1, <3>1, <3>2 DEF CopyProxy
  <2>2. CASE OrStop("setAside") BY <1>3, <2>2 DEF CopyProxy, OrStop, Fails
  <2> QED BY <1>3, <2>1, <2>2 DEF CopyProxy
<1>4. CASE SetOriginalAside
  <2>1. CASE Rename("live", "orig") /\ Goto("place")
    <3>1. Files' /\ dir'["live"] = Nothing /\ dir'["orig"] = dir["live"]
          /\ dir'["new"] = dir["new"] /\ dir'["aside"] = dir["aside"] /\ failures' = failures
          /\ dir["live"] # Nothing /\ dir["orig"] = Nothing
      BY <1>0, <2>1, RenameFacts DEF Names
    <3>2. dir' \in Layout BY <1>0, <1>4, <2>1, <3>1, LayoutFacts, Contents DEF SetOriginalAside, Files
    <3> QED BY <1>4, <2>1, <3>1, <3>2, Contents DEF SetOriginalAside
  <2>2. CASE OrStop("place") BY <1>4, <2>2 DEF SetOriginalAside, OrStop, Fails
  <2> QED BY <1>4, <2>1, <2>2 DEF SetOriginalAside
<1>5. CASE PlaceProxy
  <2>1. CASE Rename("new", "live") /\ End("returned")
    <3>1. Files' /\ dir'["live"] = dir["new"] /\ dir'["orig"] = dir["orig"]
          /\ dir'["new"] = Nothing /\ dir'["aside"] = dir["aside"] /\ failures' = failures
          /\ dir["new"] # Nothing /\ dir["live"] = Nothing
      BY <1>0, <2>1, RenameFacts DEF Names
    <3>2. dir' \in Layout BY <1>0, <1>5, <2>1, <3>1, LayoutFacts, Contents DEF PlaceProxy, Files
    <3> QED BY <1>0, <1>5, <2>1, <3>1, <3>2, Contents DEF PlaceProxy
  <2>2. CASE Fails BY <1>5, <2>2 DEF PlaceProxy, Fails
  <2> QED BY <1>5, <2>1, <2>2 DEF PlaceProxy
<1>6. CASE UndoPlace
  <2>1. CASE Rename("orig", "live") /\ End("threw")
    <3>1. Files' /\ dir'["live"] = dir["orig"] /\ dir'["orig"] = Nothing
          /\ dir'["new"] = dir["new"] /\ dir'["aside"] = dir["aside"] /\ failures' = failures
          /\ dir["orig"] # Nothing /\ dir["live"] = Nothing
      BY <1>0, <2>1, RenameFacts DEF Names
    <3>2. dir' \in Layout BY <1>0, <1>6, <2>1, <3>1, LayoutFacts, Contents DEF UndoPlace, Files
    <3> QED BY <1>6, <2>1, <3>1, <3>2, Contents DEF UndoPlace
  <2>2. CASE Fails BY <1>6, <2>2 DEF UndoPlace, Fails
  <2> QED BY <1>6, <2>1, <2>2 DEF UndoPlace
<1> QED BY <1>1, <1>2, <1>3, <1>4, <1>5, <1>6 DEF Install

\* Uninstall: what is taken out is the proxy, and the backup comes back.
LEMMA UninstallInv == IInv /\ Uninstall => IInv'
<1> SUFFICES ASSUME IInv, Uninstall PROVE IInv'
  OBVIOUS
<1> USE DEF Typed
<1>0. /\ Files /\ {"live", "orig", "new", "aside"} \subseteq Names
      /\ dir["orig"] \in Versions \cup {Nothing} /\ dir["new"] \in {Nothing, Proxy, Truncated}
      /\ dir["aside"] \in {Nothing, Proxy}
  BY LayoutFacts DEF Names, Files
<1>1. CASE CheckUninstall BY <1>1, Contents DEF CheckUninstall, NotReady, State, Exists
<1>2. CASE DropBackup
  <2>1. CASE Remove("orig") /\ End("returned")
    <3>1. Files' /\ dir'["live"] = dir["live"] /\ dir'["orig"] = Nothing
          /\ dir'["new"] = dir["new"] /\ dir'["aside"] = dir["aside"] /\ failures' = failures
      BY <1>0, <2>1, RemoveFacts DEF Names
    <3>2. dir' \in Layout BY <1>0, <1>2, <2>1, <3>1, LayoutFacts, Contents DEF DropBackup, Files
    <3> QED BY <1>2, <2>1, <3>1, <3>2, Contents DEF DropBackup
  <2>2. CASE Fails BY <1>2, <2>2 DEF DropBackup, Fails
  <2> QED BY <1>2, <2>1, <2>2 DEF DropBackup
<1>3. CASE ClearAside
  <2>1. CASE Remove("aside") /\ Goto("takeOut")
    <3>1. Files' /\ dir'["live"] = dir["live"] /\ dir'["orig"] = dir["orig"]
          /\ dir'["new"] = dir["new"] /\ dir'["aside"] = Nothing /\ failures' = failures
      BY <1>0, <2>1, RemoveFacts DEF Names
    <3>2. dir' \in Layout BY <1>0, <1>3, <2>1, <3>1, LayoutFacts, Contents DEF ClearAside, Files
    <3> QED BY <1>3, <2>1, <3>1, <3>2, Contents DEF ClearAside
  <2>2. CASE OrStop("takeOut") BY <1>3, <2>2 DEF ClearAside, OrStop, Fails
  <2> QED BY <1>3, <2>1, <2>2 DEF ClearAside
<1>4. CASE TakeProxyOut
  <2>1. CASE Rename("live", "aside") /\ Goto("restore")
    <3>1. Files' /\ dir'["live"] = Nothing /\ dir'["orig"] = dir["orig"]
          /\ dir'["new"] = dir["new"] /\ dir'["aside"] = dir["live"] /\ failures' = failures
          /\ dir["live"] # Nothing /\ dir["aside"] = Nothing
      BY <1>0, <2>1, RenameFacts DEF Names
    <3>2. dir' \in Layout BY <1>0, <1>4, <2>1, <3>1, LayoutFacts, Contents DEF TakeProxyOut, Files
    <3> QED BY <1>4, <2>1, <3>1, <3>2, Contents DEF TakeProxyOut
  <2>2. CASE OrStop("restore") BY <1>4, <2>2 DEF TakeProxyOut, OrStop, Fails
  <2> QED BY <1>4, <2>1, <2>2 DEF TakeProxyOut
<1>5. CASE RestoreOriginal
  <2>1. CASE Rename("orig", "live") /\ Goto("discard")
    <3>1. Files' /\ dir'["live"] = dir["orig"] /\ dir'["orig"] = Nothing
          /\ dir'["new"] = dir["new"] /\ dir'["aside"] = dir["aside"] /\ failures' = failures
          /\ dir["orig"] # Nothing /\ dir["live"] = Nothing
      BY <1>0, <2>1, RenameFacts DEF Names
    <3>2. dir' \in Layout BY <1>0, <1>5, <2>1, <3>1, LayoutFacts, Contents DEF RestoreOriginal, Files
    <3> QED BY <1>5, <2>1, <3>1, <3>2, Contents DEF RestoreOriginal
  <2>2. CASE Fails BY <1>5, <2>2 DEF RestoreOriginal, Fails
  <2> QED BY <1>5, <2>1, <2>2 DEF RestoreOriginal
<1>6. CASE UndoTakeOut
  <2>1. CASE Rename("aside", "live") /\ End("threw")
    <3>1. Files' /\ dir'["live"] = dir["aside"] /\ dir'["orig"] = dir["orig"]
          /\ dir'["new"] = dir["new"] /\ dir'["aside"] = Nothing /\ failures' = failures
          /\ dir["aside"] # Nothing /\ dir["live"] = Nothing
      BY <1>0, <2>1, RenameFacts DEF Names
    <3>2. dir' \in Layout BY <1>0, <1>6, <2>1, <3>1, LayoutFacts, Contents DEF UndoTakeOut, Files
    <3> QED BY <1>0, <1>6, <2>1, <3>1, <3>2, Contents DEF UndoTakeOut
  <2>2. CASE Fails BY <1>6, <2>2 DEF UndoTakeOut, Fails
  <2> QED BY <1>6, <2>1, <2>2 DEF UndoTakeOut
<1>7. CASE DiscardProxy
  <2>1. CASE Remove("aside") /\ End("returned")
    <3>1. Files' /\ dir'["live"] = dir["live"] /\ dir'["orig"] = dir["orig"]
          /\ dir'["new"] = dir["new"] /\ dir'["aside"] = Nothing /\ failures' = failures
      BY <1>0, <2>1, RemoveFacts DEF Names
    <3>2. dir' \in Layout BY <1>0, <1>7, <2>1, <3>1, LayoutFacts, Contents DEF DiscardProxy, Files
    <3> QED BY <1>7, <2>1, <3>1, <3>2, Contents DEF DiscardProxy
  <2>2. CASE Fails BY <1>7, <2>2 DEF DiscardProxy, Fails
  <2> QED BY <1>7, <2>1, <2>2 DEF DiscardProxy
<1> QED BY <1>1, <1>2, <1>3, <1>4, <1>5, <1>6, <1>7 DEF Uninstall

\* Repair, the kill of a process and PotPlayer's own installer.
Other == Repair \/ Kill \/ Update \/ \E a \in {"install", "uninstall", "repair"} : Start(a)
LEMMA OtherInv == IInv /\ Other => IInv'
<1> SUFFICES ASSUME IInv, Other PROVE IInv'
  OBVIOUS
<1> USE DEF Typed
<1>0. /\ Files /\ {"live", "orig", "new", "aside"} \subseteq Names
      /\ dir["orig"] \in Versions \cup {Nothing} /\ dir["new"] \in {Nothing, Proxy, Truncated}
      /\ dir["aside"] \in {Nothing, Proxy}
  BY LayoutFacts DEF Names, Files
<1>1. CASE CheckRepair BY <1>1, Contents DEF CheckRepair, NotReady, State, Exists
<1>2. CASE DropStaleBackup
  <2>1. CASE Remove("orig") /\ Goto("install")
    <3>1. Files' /\ dir'["live"] = dir["live"] /\ dir'["orig"] = Nothing
          /\ dir'["new"] = dir["new"] /\ dir'["aside"] = dir["aside"] /\ failures' = failures
      BY <1>0, <2>1, RemoveFacts DEF Names
    <3>2. dir' \in Layout BY <1>0, <1>2, <2>1, <3>1, LayoutFacts, Contents DEF DropStaleBackup, Files
    <3> QED BY <1>2, <2>1, <3>1, <3>2, Contents DEF DropStaleBackup
  <2>2. CASE OrStop("install") BY <1>2, <2>2 DEF DropStaleBackup, OrStop, Fails
  <2> QED BY <1>2, <2>1, <2>2 DEF DropStaleBackup
<1>3. CASE Kill
  <2>1. CASE UNCHANGED dir BY <1>3, <2>1 DEF Kill
  <2>2. CASE dir' = [dir EXCEPT !["new"] = Truncated]
    <3>1. Files' /\ dir'["live"] = dir["live"] /\ dir'["orig"] = dir["orig"]
          /\ dir'["new"] = Truncated /\ dir'["aside"] = dir["aside"]
      BY <1>0, <2>2 DEF Files, Names, Content
    <3>2. dir' \in Layout BY <1>0, <3>1, LayoutFacts DEF Files
    <3> QED BY <1>3, <2>2, <3>1, <3>2 DEF Kill
  <2> QED BY <1>3, <2>1, <2>2 DEF Kill
<1>4. CASE Update
  <2>1. released' \in Versions /\ Files' /\ dir'["live"] = released' /\ dir'["orig"] = dir["orig"]
        /\ dir'["new"] = dir["new"] /\ dir'["aside"] = dir["aside"]
    BY <1>0, <1>4 DEF Update, Files, Names, Content
  <2>2. dir' \in Layout BY <1>0, <2>1, LayoutFacts DEF Files
  <2> QED BY <1>4, <2>1, <2>2 DEF Update
<1>5. ASSUME NEW a \in {"install", "uninstall", "repair"}, Start(a) PROVE IInv'
  BY <1>5 DEF Start
<1> QED BY <1>1, <1>2, <1>3, <1>4, <1>5 DEF Other, Repair

\* IInv is inductive.
LEMMA Inductive == Spec => []IInv
<1>1. IInv /\ [Next]_vars => IInv'
  <2>1. IInv /\ UNCHANGED vars => IInv' BY DEF Typed, vars
  <2> QED BY <2>1, InstallInv, UninstallInv, OtherInv DEF Next, Other
<1> QED BY InitInv, <1>1, PTL DEF Spec

-----------------------------------------------------------------------------
\* A backup is always a real module, and what an operation leaves behind in
\* its temporary files never is one.
THEOREM TypeCorrect == Spec => []TypeOK
<1>1. Init => stops \in BOOLEAN BY InstallAssumption DEF Init
<1>2. stops \in BOOLEAN /\ [Next]_vars => (stops \in BOOLEAN)'
  BY DEF Next, vars, Start, Install, Uninstall, Repair, Kill, Update, CheckInstall, ClearNew,
     CopyProxy, SetOriginalAside, PlaceProxy, UndoPlace, CheckUninstall, DropBackup, ClearAside,
     TakeProxyOut, RestoreOriginal, UndoTakeOut, DiscardProxy, CheckRepair, DropStaleBackup
<1>3. IInv /\ stops \in BOOLEAN => TypeOK BY DEF Typed, TypeOK
<1> QED BY Inductive, <1>1, <1>2, <1>3, PTL DEF Spec

\* "Never destroys the real DLL" (tools/install/README.md:48), whatever fails
\* and wherever an operation is killed.
THEOREM RealModuleNeverLost == Spec => []RealModuleKept
<1>1. IInv => RealModuleKept BY DEF Typed, RealModuleKept, Layout, Names
<1> QED BY Inductive, <1>1, PTL

\* "Verifies exports before swapping" (tools/install/README.md:57) is kept up by
\* every later operation and update.
THEOREM WrappedMatches == Spec => []OnlyMatchingWrapped
<1>1. IInv => OnlyMatchingWrapped BY Contents DEF OnlyMatchingWrapped
<1> QED BY Inductive, <1>1, PTL

-----------------------------------------------------------------------------
(***************************************************************************)
(* The promises of a single call.  With failures as exceptions, an operation *)
(* knows at each of its lines how many of its file operations have failed   *)
(* and where both modules are, compared to where it found them.             *)
(***************************************************************************)
\* The lines of each operation: a repair goes on as an install.
Asked ==
    /\ step \in {"install", "clearNew", "copy", "setAside", "place", "undoPlace"} =>
           op \in {"install", "repair"}
    /\ step \in {"uninstall", "dropBackup", "clearAside", "takeOut", "restore", "undoTakeOut",
                 "discard"} => op = "uninstall"
    /\ step \in {"repair", "dropStale"} => op = "repair"

\* An install before its swap: nothing moved, or a repair's stale backup gone.
Wrapping == /\ op = "install" => Same
            /\ op = "repair" => dir["live"] \in Versions /\ dir["orig"] = Nothing

\* An install in its swap: the real module is in the backup and nowhere else.
Swapping == /\ dir["live"] = Nothing /\ dir["new"] = Proxy /\ dir["orig"] \in Versions
            /\ op = "install" => before["live"] = dir["orig"] /\ before["orig"] = Nothing

\* An uninstall in its swap: the proxy is aside, the real module in the backup.
Swapped == /\ dir["live"] = Nothing /\ dir["aside"] = Proxy /\ dir["orig"] \in Versions
           /\ before["live"] = Proxy /\ before["orig"] = dir["orig"]

Stage ==
    /\ step # "idle" => failures = IF step \in {"undoPlace", "undoTakeOut"} THEN 1 ELSE 0
    /\ step \in {"install", "clearNew", "copy", "setAside"} => Wrapping
    /\ step \in {"clearNew", "copy", "setAside"} => dir["orig"] = Nothing
    /\ step = "setAside" => dir["new"] = Proxy
    /\ step \in {"place", "undoPlace"} => Swapping
    /\ step \in {"uninstall", "repair", "dropBackup", "clearAside", "takeOut", "dropStale"} =>
           Same
    /\ step \in {"clearAside", "takeOut"} => dir["orig"] \in Versions
    /\ step \in {"restore", "undoTakeOut"} => Swapped
    /\ step = "discard" => dir["live"] \in Versions /\ dir["orig"] = Nothing

SInv == Asked /\ (stops => Stage)

\* The two action properties, a step at a time.
Ends == step # "idle" /\ step' = "idle" /\ stops
DoneStep == Ends /\ outcome' = "returned" => Done(op)'
AllStep == Ends /\ outcome' # "killed" /\ failures' <= 1 =>
              \/ Same' \/ Done(op)'
              \/ op = "repair" /\ State' = "NotInstalled"
StepInv == SInv' /\ DoneStep /\ AllStep

\* What the classification says of a directory, one state at a time.
LEMMA StateFacts ==
    /\ State = "NotInstalled" <=> dir["live"] \in Versions /\ dir["orig"] = Nothing
    /\ State = "Installed" <=> dir["live"] = Proxy /\ dir["orig"] # Nothing
    /\ State = "UpdateDetected" <=> dir["live"] \in Versions /\ dir["orig"] # Nothing
BY Contents DEF State, Exists

USE DEF SInv, Asked, Stage, Wrapping, Swapping, Swapped, Same, StepInv, Ends, DoneStep, AllStep, Done

\* Where nothing fails and nothing moves, only the line and the outcome count.
LEMMA InstallKeeps == IInv /\ SInv /\ Install => StepInv
<1> SUFFICES ASSUME IInv, SInv, Install PROVE StepInv
  OBVIOUS
<1> USE DEF Typed
<1>0. /\ Files /\ dir["orig"] \in Versions \cup {Nothing}
      /\ dir["new"] \in {Nothing, Proxy, Truncated} /\ stops' = stops /\ op' = op /\ before' = before
  BY LayoutFacts DEF Files, Install, CheckInstall, ClearNew, CopyProxy, SetOriginalAside,
     PlaceProxy, UndoPlace
<1>1. CASE CheckInstall
  <2>1. State' = State /\ dir' = dir BY <1>1 DEF CheckInstall, State, Exists
  <2> QED BY <1>0, <1>1, <2>1, Contents, StateFacts DEF CheckInstall, NotReady
<1>2. CASE ClearNew
  <2>1. CASE Remove("new") /\ Goto("copy")
    <3>1. dir'["live"] = dir["live"] /\ dir'["orig"] = dir["orig"] /\ failures' = failures
      BY <1>0, <2>1, RemoveFacts DEF Names
    <3> QED BY <1>0, <1>2, <2>1, <3>1 DEF ClearNew
  <2>2. CASE OrStop("copy")
    <3>1. State' = State /\ dir' = dir BY <2>2 DEF OrStop, Fails, State, Exists
    <3> QED BY <1>0, <1>2, <2>2, <3>1, StateFacts DEF ClearNew, OrStop, Fails
  <2> QED BY <1>2, <2>1, <2>2 DEF ClearNew
<1>3. CASE CopyProxy
  <2>1. CASE dir' = [dir EXCEPT !["new"] = Proxy] /\ Goto("setAside") /\ UNCHANGED failures
    <3>1. dir'["live"] = dir["live"] /\ dir'["orig"] = dir["orig"] /\ dir'["new"] = Proxy
      BY <1>0, <2>1 DEF Files, Names
    <3> QED BY <1>0, <1>3, <2>1, <3>1 DEF CopyProxy
  <2>2. CASE OrStop("setAside")
    <3>1. State' = State /\ dir' = dir BY <2>2 DEF OrStop, Fails, State, Exists
    <3> QED BY <1>0, <1>3, <2>2, <3>1, StateFacts DEF CopyProxy, OrStop, Fails
  <2> QED BY <1>3, <2>1, <2>2 DEF CopyProxy
<1>4. CASE SetOriginalAside
  <2>1. CASE Rename("live", "orig") /\ Goto("place")
    <3>1. dir'["live"] = Nothing /\ dir'["orig"] = dir["live"] /\ dir["orig"] = Nothing
          /\ dir'["new"] = dir["new"] /\ failures' = failures
      BY <1>0, <2>1, RenameFacts DEF Names
    <3> QED BY <1>0, <1>4, <2>1, <3>1 DEF SetOriginalAside
  <2>2. CASE OrStop("place")
    <3>1. State' = State /\ dir' = dir BY <2>2 DEF OrStop, Fails, State, Exists
    <3> QED BY <1>0, <1>4, <2>2, <3>1, StateFacts DEF SetOriginalAside, OrStop, Fails
  <2> QED BY <1>4, <2>1, <2>2 DEF SetOriginalAside
<1>5. CASE PlaceProxy
  <2>1. CASE Rename("new", "live") /\ End("returned")
    <3>1. dir'["live"] = dir["new"] /\ dir'["orig"] = dir["orig"] /\ failures' = failures
      BY <1>0, <2>1, RenameFacts DEF Names
    <3>2. stops => State' = "Installed"
      BY <1>0, <1>5, <3>1, Contents, StateFacts DEF PlaceProxy, State, Exists
    <3> QED BY <1>0, <1>5, <2>1, <3>2 DEF PlaceProxy
  <2>2. CASE Fails /\ IF stops THEN Goto("undoPlace") ELSE End("returned")
    BY <1>0, <1>5, <2>2 DEF PlaceProxy, Fails
  <2> QED BY <1>5, <2>1, <2>2 DEF PlaceProxy
<1>6. CASE UndoPlace
  <2>1. CASE Rename("orig", "live")
    <3>1. dir'["live"] = dir["orig"] /\ dir'["orig"] = Nothing /\ failures' = failures
      BY <1>0, <2>1, RenameFacts DEF Names
    <3>2. stops => State' = "NotInstalled"
      BY <1>0, <1>6, <3>1, Contents DEF UndoPlace, State, Exists
    <3> QED BY <1>0, <1>6, <3>1, <3>2 DEF UndoPlace
  <2>2. CASE Fails BY <1>0, <1>6, <2>2 DEF UndoPlace, Fails
  <2> QED BY <1>6, <2>1, <2>2 DEF UndoPlace
<1> QED BY <1>1, <1>2, <1>3, <1>4, <1>5, <1>6 DEF Install

LEMMA UninstallKeeps == IInv /\ SInv /\ Uninstall => StepInv
<1> SUFFICES ASSUME IInv, SInv, Uninstall PROVE StepInv
  OBVIOUS
<1> USE DEF Typed
<1>0. /\ Files /\ dir["orig"] \in Versions \cup {Nothing}
      /\ dir["aside"] \in {Nothing, Proxy} /\ stops' = stops /\ op' = op /\ before' = before
  BY LayoutFacts DEF Files, Uninstall, CheckUninstall, DropBackup, ClearAside, TakeProxyOut,
     RestoreOriginal, UndoTakeOut, DiscardProxy
<1>1. CASE CheckUninstall
  <2>1. State' = State /\ dir' = dir BY <1>1 DEF CheckUninstall, State, Exists
  <2> QED BY <1>0, <1>1, <2>1, Contents, StateFacts DEF CheckUninstall, NotReady
<1>2. CASE DropBackup
  <2>1. CASE Remove("orig") /\ End("returned")
    <3>1. dir'["live"] = dir["live"] /\ dir'["orig"] = Nothing
      BY <1>0, <2>1, RemoveFacts DEF Names
    <3>2. State' = "NotInstalled" BY <1>0, <1>2, <3>1, Contents DEF DropBackup, State, Exists
    <3> QED BY <1>0, <1>2, <2>1, <3>2 DEF DropBackup
  <2>2. CASE Fails /\ End(IF stops THEN "threw" ELSE "returned")
    BY <1>0, <1>2, <2>2 DEF DropBackup, Fails
  <2> QED BY <1>2, <2>1, <2>2 DEF DropBackup
<1>3. CASE ClearAside
  <2>1. CASE Remove("aside") /\ Goto("takeOut")
    <3>1. dir'["live"] = dir["live"] /\ dir'["orig"] = dir["orig"] /\ failures' = failures
      BY <1>0, <2>1, RemoveFacts DEF Names
    <3> QED BY <1>0, <1>3, <2>1, <3>1 DEF ClearAside
  <2>2. CASE OrStop("takeOut") BY <1>0, <1>3, <2>2 DEF ClearAside, OrStop, Fails
  <2> QED BY <1>3, <2>1, <2>2 DEF ClearAside
<1>4. CASE TakeProxyOut
  <2>1. CASE Rename("live", "aside") /\ Goto("restore")
    <3>1. dir'["live"] = Nothing /\ dir'["orig"] = dir["orig"]
          /\ dir'["aside"] = dir["live"] /\ failures' = failures
      BY <1>0, <2>1, RenameFacts DEF Names
    <3> QED BY <1>0, <1>4, <2>1, <3>1 DEF TakeProxyOut
  <2>2. CASE OrStop("restore") BY <1>0, <1>4, <2>2 DEF TakeProxyOut, OrStop, Fails
  <2> QED BY <1>4, <2>1, <2>2 DEF TakeProxyOut
<1>5. CASE RestoreOriginal
  <2>1. CASE Rename("orig", "live") /\ Goto("discard")
    <3>1. dir'["live"] = dir["orig"] /\ dir'["orig"] = Nothing /\ failures' = failures
      BY <1>0, <2>1, RenameFacts DEF Names
    <3> QED BY <1>0, <1>5, <2>1, <3>1 DEF RestoreOriginal
  <2>2. CASE Fails /\ Goto(IF stops THEN "undoTakeOut" ELSE "discard")
    BY <1>0, <1>5, <2>2 DEF RestoreOriginal, Fails
  <2> QED BY <1>5, <2>1, <2>2 DEF RestoreOriginal
<1>6. CASE UndoTakeOut
  <2>1. CASE Rename("aside", "live")
    <3>1. dir'["live"] = dir["aside"] /\ dir'["orig"] = dir["orig"] /\ failures' = failures
      BY <1>0, <2>1, RenameFacts DEF Names
    <3> QED BY <1>0, <1>6, <3>1 DEF UndoTakeOut
  <2>2. CASE Fails BY <1>0, <1>6, <2>2 DEF UndoTakeOut, Fails
  <2> QED BY <1>6, <2>1, <2>2 DEF UndoTakeOut
<1>7. CASE DiscardProxy
  <2>1. dir'["live"] = dir["live"] /\ dir'["orig"] = dir["orig"]
    BY <1>0, <1>7, RemoveFacts DEF DiscardProxy, Fails, Names
  <2>2. stops => State' = "NotInstalled" BY <1>0, <1>7, <2>1, Contents DEF DiscardProxy, State, Exists
  <2> QED BY <1>0, <1>7, <2>2 DEF DiscardProxy
<1> QED BY <1>1, <1>2, <1>3, <1>4, <1>5, <1>6, <1>7 DEF Uninstall

LEMMA OtherKeeps == IInv /\ SInv /\ Other => StepInv
<1> SUFFICES ASSUME IInv, SInv, Other PROVE StepInv
  OBVIOUS
<1> USE DEF Typed
<1>0. Files BY LayoutFacts DEF Files
<1>1. CASE CheckRepair
  <2>1. State' = State /\ dir' = dir BY <1>1 DEF CheckRepair, State, Exists
  <2> QED BY <1>0, <1>1, <2>1, StateFacts DEF CheckRepair, NotReady
<1>2. CASE DropStaleBackup
  <2>1. CASE Remove("orig") /\ Goto("install")
    <3>1. dir'["live"] = dir["live"] /\ dir'["orig"] = Nothing /\ failures' = failures
      BY <1>0, <2>1, RemoveFacts DEF Names
    <3> QED BY <1>2, <2>1, <3>1 DEF DropStaleBackup
  <2>2. CASE OrStop("install") BY <1>2, <2>2 DEF DropStaleBackup, OrStop, Fails
  <2> QED BY <1>2, <2>1, <2>2 DEF DropStaleBackup
<1>3. CASE Kill BY <1>3 DEF Kill
<1>4. CASE Update BY <1>4 DEF Update
<1>5. ASSUME NEW a \in {"install", "uninstall", "repair"}, Start(a) PROVE StepInv
  BY <1>5 DEF Start
<1> QED BY <1>1, <1>2, <1>3, <1>4, <1>5 DEF Other, Repair

\* SInv is inductive beside IInv.
LEMMA KeepsInductive == Spec => [](IInv /\ SInv)
<1>1. Init => SInv BY DEF Init
<1>2. IInv /\ SInv /\ [Next]_vars => SInv'
  <2>1. SInv /\ UNCHANGED vars => SInv' BY DEF vars
  <2> QED BY <2>1, InstallKeeps, UninstallKeeps, OtherKeeps DEF Next, Other
<1> HIDE DEF IInv, SInv
<1> QED BY Inductive, <1>1, <1>2, PTL DEF Spec

\* With failures as exceptions, what returns has done what it was asked for,
\* whatever an earlier failure, a kill or an update left behind.
THEOREM ReturnedIsDone == Spec => ReturnMeansDone
<1>1. IInv /\ SInv /\ [Next]_vars =>
        [outcome' = "returned" /\ step # "idle" /\ step' = "idle" /\ stops => Done(op)']_vars
  BY InstallKeeps, UninstallKeeps, OtherKeeps DEF Next, Other
<1> HIDE DEF IInv, SInv
<1> QED BY KeepsInductive, <1>1, PTL DEF Spec, ReturnMeansDone

\* "A partial failure mid-operation rolls back" (tools/install/README.md:50-51),
\* for one failure in one operation, whichever file operation it is.
THEOREM OneFailureRollsBack == Spec => AllOrNothing
<1>1. IInv /\ SInv /\ [Next]_vars =>
        [step # "idle" /\ step' = "idle" /\ stops /\ outcome' # "killed" /\ failures' <= 1 =>
             \/ Same' \/ Done(op)'
             \/ op = "repair" /\ State' = "NotInstalled"]_vars
  BY InstallKeeps, UninstallKeeps, OtherKeeps DEF Next, Other
<1> HIDE DEF IInv, SInv
<1> QED BY KeepsInductive, <1>1, PTL DEF Spec, AllOrNothing

-----------------------------------------------------------------------------
(***************************************************************************)
(* The safety of ProxyLifecycle, for any number of references the host may  *)
(* hold.  The four invariants the runs check are not inductive: a worker    *)
(* past its pump keeps the module mapped because of the one reference that   *)
(* DllMain took and nobody else has dropped.  Refs says who holds which      *)
(* reference at every location; the rest follows from it.                   *)
(***************************************************************************)

\* The reference DllMain takes is there while DllMain has yet to start the
\* worker, and then while the worker lives.
OwnRef == host \in {"createEvent", "createThread"} \/ WorkerAlive
Refs == worker # "killed" => refs = hostRefs + (IF OwnRef THEN 1 ELSE 0)

\* Only a mapped module runs DllMain or a worker, and a referenced module is mapped.
Mapped == /\ refs > 0 => mapped
          /\ host # "own" \/ worker = "unloading" => mapped

\* Who holds the loader lock, and what DllMain may meet while it runs.
Locks == /\ (lock = "host") <=> (host # "own")
         /\ (lock = "worker") <=> (worker \in {"notifying", "unloading"})
         /\ host \in {"addRef", "createEvent", "createThread"} => worker = "none" /\ hostRefs > 0
         /\ host = "detach" => ~WorkerAlive /\ refs = 0
         /\ host # "own" => process = "running"
         /\ worker = "killed" => process = "gone"

\* The stop event and its global, by location.
Event ==
    /\ host = "addRef" => ~g_selfModule /\ ~g_stopEvent /\ event = "none"
    /\ host = "createEvent" => ~g_stopEvent /\ event = "none"
    /\ host = "createThread" => g_stopEvent /\ event = "unsignaled"
    /\ worker \in {"starting", "notifying", "pumping", "closing"} =>
           g_stopEvent /\ event \in {"unsignaled", "signaled"}
    /\ worker \in {"leaving", "unloading", "exited"} => ~g_stopEvent

Unowned == host \in {"own", "detach"} /\ worker = "none" =>
               ~g_selfModule /\ ~g_stopEvent /\ event \in {"none", "closed"}

\* The type invariant, its Boolean part apart from the rest.
Flags == mapped \in BOOLEAN /\ g_selfModule \in BOOLEAN /\ g_stopEvent \in BOOLEAN
Counts == /\ refs \in Nat /\ hostRefs \in Nat
          /\ process \in {"running", "gone"} /\ lock \in {"free", "host", "worker"}
          /\ host \in {"own", "addRef", "createEvent", "createThread", "detach"}
          /\ worker \in {"none", "starting", "notifying", "pumping", "closing", "forgetting",
                         "leaving", "unloading", "exited", "killed"}
          /\ event \in {"none", "unsignaled", "signaled", "closed"}

Safe == Counts /\ Refs /\ Mapped /\ Locks /\ Event /\ Unowned
DllInv == Flags /\ Safe

LEMMA TypeParts == Flags /\ Counts => DllTypeOK
BY DEF Flags, Counts, DllTypeOK

USE DEF OwnRef, WorkerAlive

\* The invariant holds when the host starts, before the proxy is ever loaded.
LEMMA DllInitInv == DllInit => DllInv
<1>1. DllInit => Flags BY DEF DllInit, Flags
<1>2. DllInit => Safe BY DEF DllInit, Safe, Counts, Refs, Mapped, Locks, Event, Unowned
<1> QED BY <1>1, <1>2 DEF DllInv

\* No step leaves a flag with a value that is not Boolean.
LEMMA FlagsInv == Flags /\ [DllNext]_dllVars => Flags'
<1> USE DEF Flags, dllVars, globals, loader, Leave
<1> SUFFICES ASSUME Flags, [DllNext]_dllVars PROVE Flags'
  OBVIOUS
<1>1. CASE LoadLibrary BY <1>1 DEF LoadLibrary
<1>2. CASE FreeLibrary BY <1>2 DEF FreeLibrary
<1>3. CASE ExitProcess BY <1>3 DEF ExitProcess
<1>4. CASE DllMain
  BY <1>4 DEF DllMain, AddSelfRef, CreateStopEvent, CreateWorker,
     DropSelfRef, Detach, Signal
<1>5. CASE Worker
  <2>1. CASE ExitThread BY <2>1 DEF ExitThread
  <2>2. CASE ~ExitThread
    BY <1>5, <2>2 DEF Worker, StartWorker, EnterWorker, PumpReturns,
       CloseStopEvent, ForgetStopEvent, FreeLibraryAndExitThread
  <2> QED BY <2>1, <2>2
<1> QED BY <1>1, <1>2, <1>3, <1>4, <1>5 DEF DllNext

\* The host's own steps: loading, freeing and ending the process.
LEMMA HostInv == DllInv /\ (LoadLibrary \/ FreeLibrary \/ ExitProcess) => Safe'
<1> USE DEF DllInv, Safe, Flags, Counts, Refs, Mapped, Locks, Event, Unowned, HostRuns,
           globals
<1> SUFFICES ASSUME DllInv, LoadLibrary \/ FreeLibrary \/ ExitProcess PROVE Safe'
  OBVIOUS
<1>1. CASE LoadLibrary
  <2>1. CASE mapped BY <1>1, <2>1 DEF LoadLibrary
  <2>2. CASE ~mapped
    \* The first reference after an unload: nothing of an earlier life is left.
    <3>1. refs = 0 /\ hostRefs = 0 /\ ~WorkerAlive BY <1>1, <2>2 DEF LoadLibrary
    <3> QED BY <1>1, <2>2, <3>1 DEF LoadLibrary
  <2> QED BY <2>1, <2>2
<1>2. CASE FreeLibrary BY <1>2 DEF FreeLibrary
<1>3. CASE ExitProcess BY <1>3 DEF ExitProcess
<1> QED BY <1>1, <1>2, <1>3

\* DllMain: attach, with each of its failures, and detach.
LEMMA DllMainInv == DllInv /\ DllMain => Safe'
<1> USE DEF DllInv, Safe, Flags, Counts, Refs, Mapped, Locks, Event, Unowned, globals,
           loader, Leave
<1> SUFFICES ASSUME DllInv, DllMain PROVE Safe'
  OBVIOUS
<1>1. CASE AddSelfRef BY <1>1 DEF AddSelfRef
<1>2. CASE CreateStopEvent BY <1>2 DEF CreateStopEvent, DropSelfRef
<1>3. CASE CreateWorker
  <2>1. CASE worker' = "starting" /\ UNCHANGED <<refs, globals>> BY <1>3, <2>1 DEF CreateWorker
  <2>2. CASE DropSelfRef /\ event' = "closed" /\ g_stopEvent' = FALSE /\ UNCHANGED worker
    BY <1>3, <2>2 DEF CreateWorker, DropSelfRef
  <2> QED BY <1>3, <2>1, <2>2 DEF CreateWorker
<1>4. CASE Detach BY <1>4 DEF Detach, Signal
<1> QED BY <1>1, <1>2, <1>3, <1>4 DEF DllMain

\* The worker thread, from its start under the loader lock to its exit there.
LEMMA WorkerInv == DllInv /\ Worker => Safe'
<1> USE DEF DllInv, Safe, Flags, Counts, Refs, Mapped, Locks, Event, Unowned, globals,
           loader
<1> SUFFICES ASSUME DllInv, Worker PROVE Safe'
  OBVIOUS
<1>1. CASE StartWorker BY <1>1 DEF StartWorker
<1>2. CASE EnterWorker BY <1>2 DEF EnterWorker
<1>3. CASE PumpReturns BY <1>3 DEF PumpReturns
<1>4. CASE CloseStopEvent BY <1>4 DEF CloseStopEvent
<1>5. CASE ForgetStopEvent BY <1>5 DEF ForgetStopEvent
<1>6. CASE FreeLibraryAndExitThread BY <1>6 DEF FreeLibraryAndExitThread
<1>7. CASE ExitThread BY <1>7 DEF ExitThread
<1> QED BY <1>1, <1>2, <1>3, <1>4, <1>5, <1>6, <1>7 DEF Worker

\* DllInv is inductive.
LEMMA DllInductive == DllSpec => []DllInv
<1>1. DllInv /\ [DllNext]_dllVars => DllInv'
  <2>1. DllInv /\ UNCHANGED dllVars => Safe'
    BY DEF DllInv, Safe, Counts, Refs, Mapped, Locks, Event, Unowned, dllVars,
           globals, loader
  <2>2. DllInv /\ [DllNext]_dllVars => Safe'
    BY <2>1, HostInv, DllMainInv, WorkerInv DEF DllNext
  <2> QED BY <2>2, FlagsInv DEF DllInv
<1> QED BY DllInitInv, <1>1, PTL DEF DllSpec

-----------------------------------------------------------------------------
\* Every variable keeps its type; in particular the reference count is never
\* driven below zero by the proxy's own releases.
THEOREM DllTypeCorrect == DllSpec => []DllTypeOK
<1>1. DllInv => DllTypeOK BY TypeParts DEF DllInv, Safe
<1> QED BY DllInductive, <1>1, PTL

\* No code of the module runs after it is unmapped, on any schedule of the
\* host's loads and frees against the worker's exit (dllmain.cpp:38-41).
THEOREM NeverUnmappedUnderWorker == DllSpec => []NoCodeAfterUnmap
<1>1. DllInv => NoCodeAfterUnmap
  BY DEF DllInv, Safe, Counts, Refs, Mapped, NoCodeAfterUnmap
<1> QED BY DllInductive, <1>1, PTL

\* An attach that failed at any of its three calls holds nothing
\* (dllmain.cpp:67-89).
THEOREM FailedAttachClean == DllSpec => []FailedAttachLeavesNothing
<1>1. DllInv => FailedAttachLeavesNothing
  BY DEF DllInv, Safe, Counts, Refs, Unowned, FailedAttachLeavesNothing
<1> QED BY DllInductive, <1>1, PTL

\* The worker's wait and the detach's signal are never on a closed event.
THEOREM EventNeverUsedClosed == DllSpec => []StopEventUsable
<1>1. DllInv => StopEventUsable
  BY DEF DllInv, Safe, Counts, Refs, Locks, Event, Unowned, StopEventUsable
<1> QED BY DllInductive, <1>1, PTL
=============================================================================
