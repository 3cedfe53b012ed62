---------------------------- MODULE ProxyInstall ----------------------------
(***************************************************************************)
(* tools/install/PotPlayerProxy.psm1: Install, Uninstall and Repair as the  *)
(* file operations they are made of, against PotPlayer's updater (external) *)
(* and a process that may be killed between any two of them.               *)
(*                                                                         *)
(* A file operation may always fail.  Whether a failure ends the operation  *)
(* depends on $ErrorActionPreference, which the CLI sets and the module     *)
(* does not: "stops" when the CLI runs with powershell -File, as documented; *)
(* not when the CLI or the module is started from another script or prompt. *)
(***************************************************************************)
EXTENDS Naturals

CONSTANTS MaxVersion,   \* bound: versions of PotPlayer released
          StopModes     \* values of "stops" to consider

ASSUME InstallAssumption == /\ MaxVersion \in Nat \ {0}
                            /\ StopModes \subseteq BOOLEAN /\ StopModes # {}

Versions == 1..MaxVersion
Names == {"live", "orig", "new", "aside"}
\* A real MediaDB64.dll is the version that shipped it.
Nothing == 0
Proxy == MaxVersion + 1
Truncated == MaxVersion + 2
Content == Versions \cup {Nothing, Proxy, Truncated}

VARIABLES
  dir,        \* what MediaDB64.dll, _orig.dll, .tmp_install, .tmp_remove hold
  released,   \* the version of PotPlayer installed last
  matches,    \* versions whose exports cover the proxy's forwarders
  stops,      \* a failed file operation ends the operation with an exception
  op,         \* what was asked for: Repair goes on as an Install of its own
  step,       \* the operation's next line
  outcome,    \* how the last operation ended
  before,     \* history: dir when the operation started
  failures    \* history: file operations that failed in it
vars == <<dir, released, matches, stops, op, step, outcome, before, failures>>
call == <<matches, stops, op, before>>

Init == /\ dir = [f \in Names |-> IF f = "live" THEN 1 ELSE Nothing] /\ released = 1
        /\ matches \in SUBSET Versions /\ stops \in StopModes
        /\ op = "install" /\ step = "idle" /\ outcome = "returned"
        /\ before = dir /\ failures = 0

-----------------------------------------------------------------------------
Exists(f) == dir[f] # Nothing
\* Get-ProxyInstallState: a forwarding module is taken for the proxy, and a
\* file that is no PE module for nothing it knows.
State == CASE ~Exists("live") /\ ~Exists("orig") -> "Missing"
           [] dir["live"] = Proxy /\ Exists("orig") -> "Installed"
           [] dir["live"] \in Versions /\ ~Exists("orig") -> "NotInstalled"
           [] dir["live"] \in Versions /\ Exists("orig") -> "UpdateDetected"
           [] OTHER -> "Unknown"

End(how) == step' = "idle" /\ outcome' = how
Goto(l) == step' = l /\ UNCHANGED outcome

\* Rename-Item never overwrites.
CanRename(f, g) == Exists(f) /\ ~Exists(g)
Rename(f, g) == /\ CanRename(f, g)
                /\ dir' = [dir EXCEPT ![f] = Nothing, ![g] = dir[f]]
                /\ UNCHANGED failures
Remove(f) == dir' = [dir EXCEPT ![f] = Nothing] /\ UNCHANGED failures
Fails == failures' = failures + 1 /\ UNCHANGED dir
\* What follows a failed file operation that nothing catches.
OrStop(l) == Fails /\ IF stops THEN End("threw") ELSE Goto(l)
Keep == UNCHANGED <<call, released>>

Start(a) == /\ step = "idle" /\ op' = a /\ step' = a
            /\ before' = dir /\ failures' = 0
            /\ UNCHANGED <<dir, released, matches, stops, outcome>>

\* No such directory or proxy, no write access, or PotPlayer is running.
NotReady == End("threw")

-----------------------------------------------------------------------------
\* Mutant: the exports of the module to be wrapped are not looked at.
InstallAnything ==
    /\ step = "install"
    /\ IF State = "NotInstalled" THEN Goto("clearNew") ELSE End("threw")
    /\ UNCHANGED <<dir, failures>> /\ Keep

\* Install-PotPlayerProxy up to its first change.
CheckInstall ==
    /\ step = "install"
    /\ \/ NotReady
       \/ IF State = "NotInstalled" /\ dir["live"] \in matches
          THEN Goto("clearNew") ELSE End("threw")
    /\ UNCHANGED <<dir, failures>> /\ Keep

ClearNew ==
    /\ step = "clearNew"
    /\ \/ Remove("new") /\ Goto("copy")
       \/ Exists("new") /\ OrStop("copy")
    /\ Keep

CopyProxy ==
    /\ step = "copy"
    /\ \/ dir' = [dir EXCEPT !["new"] = Proxy] /\ Goto("setAside") /\ UNCHANGED failures
       \/ OrStop("setAside")
    /\ Keep

SetOriginalAside ==
    /\ step = "setAside"
    /\ \/ Rename("live", "orig") /\ Goto("place")
       \/ OrStop("place")
    /\ Keep

\* Mutant: no rollback.
PlaceOrGiveUp ==
    /\ step = "place"
    /\ \/ Rename("new", "live") /\ End("returned")
       \/ Fails /\ End(IF stops THEN "threw" ELSE "returned")
    /\ Keep

\* A failure is caught only where it is an exception.
PlaceProxy ==
    /\ step = "place"
    /\ \/ Rename("new", "live") /\ End("returned")
       \/ Fails /\ IF stops THEN Goto("undoPlace") ELSE End("returned")
    /\ Keep

\* The rollback itself may fail, without a word.
UndoPlace ==
    /\ step = "undoPlace" /\ End("threw")
    /\ Rename("orig", "live") \/ Fails
    /\ Keep

-----------------------------------------------------------------------------
\* Mutants: a module an update brought is taken out like the proxy; an update
\* is left alone.
CheckUninstallBlindly ==
    /\ step = "uninstall"
    /\ CASE State = "NotInstalled" -> End("returned")
         [] State \in {"Installed", "UpdateDetected"} -> Goto("clearAside")
         [] OTHER -> End("threw")
    /\ UNCHANGED <<dir, failures>> /\ Keep
CheckUninstallLazily ==
    /\ step = "uninstall"
    /\ CASE State \in {"NotInstalled", "UpdateDetected"} -> End("returned")
         [] State = "Installed" -> Goto("clearAside")
         [] OTHER -> End("threw")
    /\ UNCHANGED <<dir, failures>> /\ Keep

\* Uninstall-PotPlayerProxy.
CheckUninstall ==
    /\ step = "uninstall"
    /\ \/ NotReady
       \/ CASE State = "NotInstalled" -> End("returned")
            [] State = "UpdateDetected" -> Goto("dropBackup")
            [] State = "Installed" -> Goto("clearAside")
            [] OTHER -> End("threw")
    /\ UNCHANGED <<dir, failures>> /\ Keep

DropBackup ==
    /\ step = "dropBackup"
    /\ \/ Remove("orig") /\ End("returned")
       \/ Fails /\ End(IF stops THEN "threw" ELSE "returned")
    /\ Keep

ClearAside ==
    /\ step = "clearAside"
    /\ \/ Remove("aside") /\ Goto("takeOut")
       \/ Exists("aside") /\ OrStop("takeOut")
    /\ Keep

TakeProxyOut ==
    /\ step = "takeOut"
    /\ \/ Rename("live", "aside") /\ Goto("restore")
       \/ OrStop("restore")
    /\ Keep

RestoreOriginal ==
    /\ step = "restore"
    /\ \/ Rename("orig", "live") /\ Goto("discard")
       \/ Fails /\ Goto(IF stops THEN "undoTakeOut" ELSE "discard")
    /\ Keep

UndoTakeOut ==
    /\ step = "undoTakeOut" /\ End("threw")
    /\ Rename("aside", "live") \/ Fails
    /\ Keep

\* A failure to remove the proxy's leftover is ignored.
DiscardProxy ==
    /\ step = "discard" /\ End("returned")
    /\ Remove("aside") \/ Fails
    /\ Keep

-----------------------------------------------------------------------------
\* Repair-PotPlayerProxy, which ends as an Install-PotPlayerProxy.
CheckRepair ==
    /\ step = "repair"
    /\ \/ NotReady
       \/ CASE State = "Installed" -> End("returned")
            [] State = "UpdateDetected" /\ dir["live"] \in matches -> Goto("dropStale")
            [] OTHER -> End("threw")
    /\ UNCHANGED <<dir, failures>> /\ Keep

DropStaleBackup ==
    /\ step = "dropStale"
    /\ \/ Remove("orig") /\ Goto("install")
       \/ OrStop("install")
    /\ Keep

-----------------------------------------------------------------------------
\* The process is killed, or the machine goes down: a copy may be half done.
Kill == /\ step # "idle" /\ End("killed")
        /\ \/ UNCHANGED dir
           \/ step = "copy" /\ dir' = [dir EXCEPT !["new"] = Truncated]
        /\ UNCHANGED failures /\ Keep

\* PotPlayer is updated, or installed again: its installer writes MediaDB64.dll
\* and knows nothing of the other files.
Update == /\ step = "idle"
          /\ released' \in {released, released + 1} \cap Versions
          /\ dir' = [dir EXCEPT !["live"] = released']
          /\ UNCHANGED <<call, step, outcome, failures>>

Install == CheckInstall \/ ClearNew \/ CopyProxy \/ SetOriginalAside \/ PlaceProxy \/ UndoPlace
Uninstall == \/ CheckUninstall \/ DropBackup \/ ClearAside \/ TakeProxyOut
             \/ RestoreOriginal \/ UndoTakeOut \/ DiscardProxy
Repair == CheckRepair \/ DropStaleBackup
Next == \/ \E a \in {"install", "uninstall", "repair"} : Start(a)
        \/ Install \/ Uninstall \/ Repair \/ Kill \/ Update
Spec == Init /\ [][Next]_vars

-----------------------------------------------------------------------------
\* Which file may hold what: a backup is always a real module, a leftover of a
\* copy or of an uninstall never one.
Layout == {d \in [Names -> Content] : /\ d["orig"] \in Versions \cup {Nothing}
                                      /\ d["new"] \in {Nothing, Proxy, Truncated}
                                      /\ d["aside"] \in {Nothing, Proxy}}
TypeOK == /\ dir \in Layout /\ before \in Layout
          /\ released \in Versions /\ matches \in SUBSET Versions /\ stops \in BOOLEAN
          /\ op \in {"install", "uninstall", "repair"}
          /\ step \in {"idle", "install", "uninstall", "repair", "clearNew", "copy", "setAside",
                       "place", "undoPlace", "dropBackup", "clearAside", "takeOut", "restore",
                       "undoTakeOut", "discard", "dropStale"}
          /\ outcome \in {"returned", "threw", "killed"} /\ failures \in Nat

\* "Never destroys the real DLL" (tools/install/README.md:48): whatever fails,
\* wherever the process is killed, and however often PotPlayer is updated in
\* between, the module of the PotPlayer that is installed is in some file.
RealModuleKept == \E f \in Names : dir[f] = released

\* "Verifies exports before swapping" (README.md:57): no sequence of operations,
\* failures and updates wraps a module whose exports the proxy does not match.
OnlyMatchingWrapped == dir["live"] = Proxy /\ dir["orig"] \in Versions => dir["orig"] \in matches

Same == dir["live"] = before["live"] /\ dir["orig"] = before["orig"]
Done(a) == IF a = "uninstall" THEN State = "NotInstalled" ELSE State = "Installed"

\* With failures as exceptions, an operation that returns has done what it was
\* asked for, whatever state it found.
ReturnMeansDone ==
    [][outcome' = "returned" /\ step # "idle" /\ step' = "idle" /\ stops => Done(op)']_vars

\* "A partial failure mid-operation rolls back" (README.md:50-51): one failed
\* file operation leaves both modules as they were, or the operation done; a
\* repair may stop halfway, without its stale backup.
AllOrNothing ==
    [][step # "idle" /\ step' = "idle" /\ stops /\ outcome' # "killed" /\ failures' <= 1 =>
         \/ Same' \/ Done(op)'
         \/ op = "repair" /\ State' = "NotInstalled"]_vars
=============================================================================
