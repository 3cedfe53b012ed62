--------------------------- MODULE ProxyLifecycle ---------------------------
(***************************************************************************)
(* proxy/src/dllmain.cpp: DllMain under the loader lock, the worker thread  *)
(* it starts, and the module reference and stop event they share, against   *)
(* the Windows loader (external) and a host that loads and frees the proxy. *)
(*                                                                         *)
(* Loader: one lock; DllMain runs while its caller holds it; a new thread   *)
(* needs it before it runs its first line; the module is mapped while its   *)
(* reference count is positive.                                             *)
(* Names start with Dll where ProxyInstall has the same, so that a module   *)
(* can extend both.                                                         *)
(***************************************************************************)
EXTENDS Naturals

CONSTANT MaxHostRefs   \* bound: references the host holds at once
ASSUME HostAssumption == MaxHostRefs \in Nat

VARIABLES
  process,   \* "running", or "gone" after process exit
  mapped,    \* the module is in memory
  refs,      \* the loader's reference count
  hostRefs,  \* history: how many of them the host holds
  lock,      \* who holds the loader lock
  host,      \* what the host's thread runs: its own code, or a line of DllMain
  worker,    \* where the worker thread is
  g_selfModule, g_stopEvent,   \* whether each global is non-null
  event      \* the stop event object

loader == <<process, mapped, refs, hostRefs, lock>>
globals == <<g_selfModule, g_stopEvent, event>>
dllVars == <<loader, host, worker, globals>>

DllInit == /\ process = "running" /\ mapped = FALSE /\ refs = 0 /\ hostRefs = 0
           /\ lock = "free" /\ host = "own" /\ worker = "none"
           /\ g_selfModule = FALSE /\ g_stopEvent = FALSE /\ event = "none"

\* The host's own code runs only outside the loader.
HostRuns == process = "running" /\ host = "own" /\ lock = "free"

-----------------------------------------------------------------------------
\* LoadLibrary: the first reference maps the module, with fresh globals, and
\* runs DLL_PROCESS_ATTACH under the lock.
LoadLibrary ==
    /\ HostRuns /\ hostRefs < MaxHostRefs
    /\ refs' = refs + 1 /\ hostRefs' = hostRefs + 1
    /\ IF mapped
       THEN UNCHANGED <<mapped, lock, host, globals, worker>>
       ELSE /\ mapped' = TRUE /\ lock' = "host" /\ host' = "addRef" /\ worker' = "none"
            /\ g_selfModule' = FALSE /\ g_stopEvent' = FALSE /\ event' = "none"
    /\ UNCHANGED process

\* FreeLibrary: only the last reference runs DLL_PROCESS_DETACH.
FreeLibrary ==
    /\ HostRuns /\ hostRefs > 0
    /\ refs' = refs - 1 /\ hostRefs' = hostRefs - 1
    /\ IF refs' = 0 THEN lock' = "host" /\ host' = "detach" ELSE UNCHANGED <<lock, host>>
    /\ UNCHANGED <<process, mapped, worker, globals>>

\* Process exit ends every other thread, then runs DLL_PROCESS_DETACH with
\* reserved set, which only logs.
ExitProcess ==
    /\ HostRuns /\ process' = "gone"
    /\ worker' = (IF worker = "none" THEN "none" ELSE "killed")
    /\ UNCHANGED <<mapped, refs, hostRefs, lock, host, globals>>

-----------------------------------------------------------------------------
\* DLL_PROCESS_ATTACH: each of its three calls may fail, and undoes the others.
Leave == host' = "own" /\ lock' = "free"

\* Mutant: a reference that does not count.
AddUncountedRef ==
    /\ host = "addRef" /\ g_selfModule' = TRUE /\ host' = "createEvent"
    /\ UNCHANGED <<loader, worker, g_stopEvent, event>>

AddSelfRef ==
    /\ host = "addRef"
    /\ \/ refs' = refs + 1 /\ g_selfModule' = TRUE /\ host' = "createEvent" /\ UNCHANGED lock
       \/ Leave /\ UNCHANGED <<refs, g_selfModule>>
    /\ UNCHANGED <<process, mapped, hostRefs, worker, g_stopEvent, event>>

DropSelfRef == refs' = refs - 1 /\ g_selfModule' = FALSE

CreateStopEvent ==
    /\ host = "createEvent"
    /\ \/ /\ event' = "unsignaled" /\ g_stopEvent' = TRUE /\ host' = "createThread"
          /\ UNCHANGED <<refs, lock, g_selfModule>>
       \/ DropSelfRef /\ Leave /\ UNCHANGED <<event, g_stopEvent>>
    /\ UNCHANGED <<process, mapped, hostRefs, worker>>

\* Mutants: a failed attach keeps the reference; the wrong handle is closed;
\* attach waits for the worker to run.
CreateWorkerLeaks ==
    /\ host = "createThread" /\ Leave
    /\ \/ worker' = "starting" /\ UNCHANGED <<g_stopEvent, event>>
       \/ event' = "closed" /\ g_stopEvent' = FALSE /\ UNCHANGED worker
    /\ UNCHANGED <<process, mapped, refs, hostRefs, g_selfModule>>
CreateWorkerClosesEvent ==
    /\ host = "createThread" /\ Leave
    /\ worker' = "starting" /\ event' = "closed"
    /\ UNCHANGED <<process, mapped, refs, hostRefs, g_selfModule, g_stopEvent>>
CreateWorkerAndWait ==
    /\ host = "createThread"
    /\ \/ worker = "none" /\ worker' = "starting" /\ UNCHANGED <<host, lock>>
       \/ worker = "pumping" /\ Leave /\ UNCHANGED worker
    /\ UNCHANGED <<process, mapped, refs, hostRefs, globals>>

CreateWorker ==
    /\ host = "createThread" /\ Leave
    /\ \/ worker' = "starting" /\ UNCHANGED <<refs, globals>>
       \/ /\ event' = "closed" /\ g_stopEvent' = FALSE /\ DropSelfRef
          /\ UNCHANGED worker
    /\ UNCHANGED <<process, mapped, hostRefs>>

\* DLL_PROCESS_DETACH with reserved null, after which the loader unmaps the
\* module: signal the worker if there is a stop event, never wait for it.  A
\* worker that runs keeps its own reference, so that detach never finds one.
Signal == event' = IF g_stopEvent /\ event = "unsignaled" THEN "signaled" ELSE event
Detach ==
    /\ host = "detach" /\ Leave
    /\ Signal /\ mapped' = FALSE
    /\ UNCHANGED <<process, refs, hostRefs, worker, g_selfModule, g_stopEvent>>

-----------------------------------------------------------------------------
\* WorkerThreadProc.  A new thread notifies the other modules under the loader
\* lock before it runs its first line.
StartWorker == /\ process = "running" /\ worker = "starting" /\ lock = "free"
               /\ worker' = "notifying" /\ lock' = "worker"
               /\ UNCHANGED <<process, mapped, refs, hostRefs, host, globals>>

EnterWorker == /\ process = "running" /\ worker = "notifying"
               /\ worker' = "pumping" /\ lock' = "free"
               /\ UNCHANGED <<process, mapped, refs, hostRefs, host, globals>>

\* RunHotkeyPump returns when the stop event is signaled, or when its wait fails.
PumpReturns ==
    /\ process = "running" /\ worker = "pumping" /\ event \in {"unsignaled", "signaled"}
    /\ worker' = "closing" /\ UNCHANGED <<loader, host, globals>>

CloseStopEvent ==
    /\ process = "running" /\ worker = "closing"
    /\ event' = "closed" /\ worker' = "forgetting"
    /\ UNCHANGED <<loader, host, g_selfModule, g_stopEvent>>

ForgetStopEvent ==
    /\ process = "running" /\ worker = "forgetting"
    /\ g_stopEvent' = FALSE /\ worker' = "leaving"
    /\ UNCHANGED <<loader, host, g_selfModule, event>>

\* FreeLibraryAndExitThread, under the loader lock.  The last reference runs
\* DLL_PROCESS_DETACH on this thread: g_stopEvent is null by now, so it only
\* logs.  The thread does not return to the module.
FreeLibraryAndExitThread ==
    /\ process = "running" /\ worker = "leaving" /\ lock = "free"
    /\ refs' = refs - 1 /\ lock' = "worker" /\ worker' = "unloading"
    /\ UNCHANGED <<process, mapped, hostRefs, host, globals>>

ExitThread ==
    /\ process = "running" /\ worker = "unloading"
    /\ mapped' = (refs > 0) /\ lock' = "free" /\ worker' = "exited"
    /\ UNCHANGED <<process, refs, hostRefs, host, globals>>

DllMain == AddSelfRef \/ CreateStopEvent \/ CreateWorker \/ Detach
Worker == \/ StartWorker \/ EnterWorker \/ PumpReturns \/ CloseStopEvent \/ ForgetStopEvent
          \/ FreeLibraryAndExitThread \/ ExitThread
DllNext == LoadLibrary \/ FreeLibrary \/ ExitProcess \/ DllMain \/ Worker
DllSpec == DllInit /\ [][DllNext]_dllVars
\* Threads inside the loader or the proxy run, and get the loader lock in the
\* end; the pump need not fail by itself, and the host need not load or free.
DllFairSpec == /\ DllSpec /\ WF_dllVars(DllMain)
               /\ SF_dllVars(Worker /\ (PumpReturns => event = "signaled"))

-----------------------------------------------------------------------------
DllTypeOK == /\ process \in {"running", "gone"} /\ mapped \in BOOLEAN
             /\ refs \in Nat /\ hostRefs \in Nat /\ lock \in {"free", "host", "worker"}
             /\ host \in {"own", "addRef", "createEvent", "createThread", "detach"}
             /\ worker \in {"none", "starting", "notifying", "pumping", "closing", "forgetting",
                            "leaving", "unloading", "exited", "killed"}
             /\ g_selfModule \in BOOLEAN /\ g_stopEvent \in BOOLEAN
             /\ event \in {"none", "unsignaled", "signaled", "closed"}

WorkerAlive == worker \in {"starting", "notifying", "pumping", "closing", "forgetting", "leaving"}

\* No code of the module ever runs after it is unmapped (dllmain.cpp:38-41),
\* on whatever schedule host and worker drop their references.
NoCodeAfterUnmap == WorkerAlive => mapped /\ refs > hostRefs

\* A failed attach undoes what it did (dllmain.cpp:73-89): without a worker the
\* proxy holds no reference, no event, and the host's last free unmaps it.
FailedAttachLeavesNothing ==
    host = "own" /\ worker = "none" =>
        refs = hostRefs /\ ~g_selfModule /\ ~g_stopEvent /\ event \in {"none", "closed"}

\* The worker never waits on a closed event, and nobody signals a closed one.
StopEventUsable == /\ worker \in {"starting", "notifying", "pumping"} => event \in {"unsignaled", "signaled"}
                   /\ host = "detach" /\ g_stopEvent => event # "closed"

\* Loader-lock discipline: whoever holds the loader lock gives it back
\* (dllmain.cpp:41-46), whatever the worker does.
LoaderLockReleased == lock # "free" ~> lock = "free"
=============================================================================
