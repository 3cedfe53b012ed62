--------------------------- MODULE DiagnosticsLog ---------------------------
(***************************************************************************)
(* LogRaw and the plugin.log it appends to (log.cpp), called in every        *)
(* PotPlayer the user runs: by the loader's thread when DllMain attaches,   *)
(* by the worker that DllMain then creates, and by the loader's thread once *)
(* more when the process exits.  In a process g_lock orders the lines;      *)
(* between processes only the sharing mode of CreateFileW does.             *)
(***************************************************************************)
EXTENDS Integers, Sequences, FiniteSets

CONSTANTS Procs,     \* PotPlayer processes
          MaxBytes,  \* kMaxLogBytes, in lines
          MaxCalls   \* bound: calls of LogRaw in one behaviour
ASSUME LogAssumption == MaxBytes \in Nat /\ MaxCalls \in Nat

Threads == {"loader", "worker"}
Nobody == "nobody"

VARIABLES
  content,     \* the file: by which process each line is; "past" from before
  viewer,      \* a program has the file open to read and lets nobody write
  life,        \* of each process: off, running, exiting
  worker,      \* DllMain has created the worker thread
  triedOpen, opened, \* g_triedOpen; g_file is a valid handle
  lock,        \* the owner of g_lock
  step,        \* where each thread's LogRaw is
  calls,       \* history: calls begun
  unsized,     \* history: GetFileSizeEx failed for a file over the cap
  atOpen, wrote \* history: the file as the process opened it; its lines since

log == <<triedOpen, opened>>
alive == <<life, worker>>
history == <<calls, unsized, atOpen, wrote>>
vars == <<content, viewer, alive, log, lock, step, history>>

Init == /\ content \in {[i \in 1..n |-> "past"] : n \in 0..(MaxBytes + 1)} /\ viewer = FALSE
        /\ life = [p \in Procs |-> "off"] /\ worker = [p \in Procs |-> FALSE]
        /\ triedOpen = [p \in Procs |-> FALSE] /\ opened = [p \in Procs |-> FALSE]
        /\ lock = [p \in Procs |-> Nobody] /\ step = [p \in Procs |-> [t \in Threads |-> "idle"]]
        /\ calls = 0 /\ unsized = [p \in Procs |-> FALSE]
        /\ atOpen = [p \in Procs |-> <<>>] /\ wrote = [p \in Procs |-> <<>>]

\* Mutant: FILE_SHARE_WRITE as well.
MayOpenShared == ~viewer
\* FILE_APPEND_DATA sharing only FILE_SHARE_READ: nobody else may write, nor
\* have the file open without letting others write.
MayOpen == ~viewer /\ \A q \in Procs : ~opened[q]

-----------------------------------------------------------------------------
\* Another program looks at the file, closing what it shares with nobody.
View == /\ viewer' = ~viewer /\ (viewer' => MayOpen)
        /\ UNCHANGED <<content, alive, log, lock, step, history>>

Start(p) == /\ life[p] = "off" /\ life' = [life EXCEPT ![p] = "running"]
            /\ UNCHANGED <<content, viewer, worker, log, lock, step, history>>

\* CreateThread in DllMain, which has logged that it is attached by then and
\* logs nothing more afterwards.
StartWorker(p) ==
    /\ life[p] = "running" /\ ~worker[p] /\ triedOpen[p] /\ step[p]["loader"] = "idle"
    /\ worker' = [worker EXCEPT ![p] = TRUE]
    /\ UNCHANGED <<content, viewer, life, log, lock, step, history>>

\* ExitProcess ends every thread but the one that called it, wherever it is.
Exit(p) ==
    /\ life[p] = "running" /\ step[p]["loader"] = "idle"
    /\ life' = [life EXCEPT ![p] = "exiting"]
    /\ UNCHANGED <<content, viewer, worker, log, lock, step, history>>

\* The process is gone, with its globals, its threads and its handles.
Gone(p) ==
    /\ life' = [life EXCEPT ![p] = "off"] /\ worker' = [worker EXCEPT ![p] = FALSE]
    /\ triedOpen' = [triedOpen EXCEPT ![p] = FALSE] /\ opened' = [opened EXCEPT ![p] = FALSE]
    /\ lock' = [lock EXCEPT ![p] = Nobody] /\ step' = [step EXCEPT ![p] = [t \in Threads |-> "idle"]]
    /\ unsized' = [unsized EXCEPT ![p] = FALSE]
    /\ atOpen' = [atOpen EXCEPT ![p] = <<>>] /\ wrote' = [wrote EXCEPT ![p] = <<>>]
    /\ UNCHANGED <<content, viewer, calls>>

\* Waiting for a lock whose owner the exit has ended also ends the process.
End(p) == /\ life[p] = "exiting" /\ Gone(p)
          /\ \/ step[p]["loader"] = "idle"
             \/ step[p]["loader"] = "lock" /\ lock[p] = "worker"

\* It crashes or is ended from outside, anywhere.
Kill(p) == life[p] # "off" /\ Gone(p)

-----------------------------------------------------------------------------
Runs(p, t) == \/ t = "loader" /\ (life[p] = "exiting" \/ (life[p] = "running" /\ ~worker[p]))
              \/ t = "worker" /\ life[p] = "running" /\ worker[p]
At(p, t, s) == Runs(p, t) /\ step[p][t] = s
Go(p, t, s) == step' = [step EXCEPT ![p][t] = s]

\* A LOG_* macro whose severity is enabled.
LogRaw(p, t) ==
    /\ At(p, t, "idle") /\ calls < MaxCalls
    /\ calls' = calls + 1 /\ Go(p, t, "lock")
    /\ UNCHANGED <<content, viewer, alive, log, lock, unsized, atOpen, wrote>>

Acquire(p, t) ==
    /\ At(p, t, "lock") /\ lock[p] = Nobody
    /\ lock' = [lock EXCEPT ![p] = t] /\ Go(p, t, "ensure")
    /\ UNCHANGED <<content, viewer, alive, log, history>>

\* EnsureFileOpenLocked, once per process: OPEN_ALWAYS, then a file that is
\* too long is closed and made anew with CREATE_ALWAYS.
Ensure(p, t) ==
    /\ At(p, t, "ensure") /\ triedOpen' = [triedOpen EXCEPT ![p] = TRUE]
    /\ Go(p, t, IF triedOpen[p] THEN "write" ELSE "create")
    /\ UNCHANGED <<content, viewer, alive, opened, lock, history>>

\* No folder to put the file in and any other error are a failure too.
OpenAlways(p, t) ==
    /\ At(p, t, "create")
    /\ \/ /\ MayOpen /\ opened' = [opened EXCEPT ![p] = TRUE]
          /\ atOpen' = [atOpen EXCEPT ![p] = content] /\ Go(p, t, "size")
       \/ UNCHANGED <<opened, atOpen>> /\ Go(p, t, "write")
    /\ UNCHANGED <<content, viewer, alive, triedOpen, lock, calls, unsized, wrote>>

\* Mutant: a file at the cap is emptied too.
CheckSizeEarly(p, t) ==
    /\ At(p, t, "size")
    /\ \/ /\ Len(content) >= MaxBytes /\ opened' = [opened EXCEPT ![p] = FALSE]
          /\ Go(p, t, "recreate") /\ UNCHANGED unsized
       \/ /\ unsized' = [unsized EXCEPT ![p] = Len(content) > MaxBytes]
          /\ Go(p, t, "write") /\ UNCHANGED opened
    /\ UNCHANGED <<content, viewer, alive, triedOpen, lock, calls, atOpen, wrote>>

\* A size that cannot be had counts as within the cap.
CheckSize(p, t) ==
    /\ At(p, t, "size")
    /\ \/ /\ Len(content) > MaxBytes /\ opened' = [opened EXCEPT ![p] = FALSE]
          /\ Go(p, t, "recreate") /\ UNCHANGED unsized
       \/ /\ unsized' = [unsized EXCEPT ![p] = Len(content) > MaxBytes]
          /\ Go(p, t, "write") /\ UNCHANGED opened
    /\ UNCHANGED <<content, viewer, alive, triedOpen, lock, calls, atOpen, wrote>>

CreateAlways(p, t) ==
    /\ At(p, t, "recreate") /\ Go(p, t, "write")
    /\ \/ /\ MayOpen /\ opened' = [opened EXCEPT ![p] = TRUE] /\ content' = <<>>
          /\ atOpen' = [atOpen EXCEPT ![p] = <<>>]
       \/ UNCHANGED <<opened, content, atOpen>>
    /\ UNCHANGED <<viewer, alive, triedOpen, lock, calls, unsized, wrote>>

\* WriteFile on an append handle: the line, or what a full disk takes of it, at
\* the end.  What WriteFile returns is ignored: a line that fails is lost.
Write(p, t) ==
    /\ At(p, t, "write") /\ Go(p, t, "unlock")
    /\ \/ /\ opened[p] /\ content' = Append(content, p)
          /\ wrote' = [wrote EXCEPT ![p] = Append(@, p)]
       \/ UNCHANGED <<content, wrote>>
    /\ UNCHANGED <<viewer, alive, log, lock, calls, unsized, atOpen>>

\* Mutant: the lock is kept when there is no file to write to.
ReleaseIfOpened(p, t) ==
    /\ At(p, t, "unlock") /\ Go(p, t, "idle")
    /\ lock' = [lock EXCEPT ![p] = IF opened[p] THEN Nobody ELSE @]
    /\ UNCHANGED <<content, viewer, alive, log, history>>

Release(p, t) ==
    /\ At(p, t, "unlock") /\ Go(p, t, "idle") /\ lock' = [lock EXCEPT ![p] = Nobody]
    /\ UNCHANGED <<content, viewer, alive, log, history>>

Log(p, t) == \/ Acquire(p, t) \/ Ensure(p, t) \/ OpenAlways(p, t) \/ CheckSize(p, t)
             \/ CreateAlways(p, t) \/ Write(p, t) \/ Release(p, t)
Process(p) == \/ Start(p) \/ StartWorker(p) \/ Exit(p) \/ End(p) \/ Kill(p)
              \/ \E t \in Threads : Log(p, t) \/ LogRaw(p, t)
Next == View \/ \E p \in Procs : Process(p)
Spec == Init /\ [][Next]_vars

\* A thread that runs makes progress, and a process that exits does end.
FairSpec == /\ Spec
            /\ \A p \in Procs : WF_vars(End(p)) /\ \A t \in Threads : WF_vars(Log(p, t))

-----------------------------------------------------------------------------
TypeOK == /\ content \in Seq(Procs \cup {"past"}) /\ viewer \in BOOLEAN
          /\ life \in [Procs -> {"off", "running", "exiting"}] /\ worker \in [Procs -> BOOLEAN]
          /\ triedOpen \in [Procs -> BOOLEAN] /\ opened \in [Procs -> BOOLEAN]
          /\ lock \in [Procs -> Threads \cup {Nobody}]
          /\ step \in [Procs -> [Threads -> {"idle", "lock", "ensure", "create", "size", "recreate", "write", "unlock"}]]
          /\ calls \in Nat /\ unsized \in [Procs -> BOOLEAN]
          /\ atOpen \in [Procs -> Seq(Procs \cup {"past"})] /\ wrote \in [Procs -> Seq(Procs)]

\* What a process logs stays, in order and uninterrupted, for as long as it has
\* the file: no other PotPlayer truncates the file or writes in between.  What
\* the process found was within the cap (log.cpp:12-14), if it could ask.
SessionIntact ==
    \A p \in Procs : opened[p] /\ (\A t \in Threads : step[p][t] # "size") =>
        content = atOpen[p] \o wrote[p] /\ (unsized[p] \/ Len(atOpen[p]) <= MaxBytes)

\* The file is "truncated ... once exceeded" (log.cpp:12), and only then: earlier
\* sessions' lines stay, but for a PotPlayer that found more of them than the cap
\* allows.  By the time it empties the file, others may have done so before it.
Grows == Len(content) <= Len(content') /\ \A i \in 1..Len(content) : content'[i] = content[i]
EmptiedBy(p) == opened'[p] /\ ~opened[p] /\ content' = <<>> /\ Len(atOpen[p]) > MaxBytes
EmptiedOnlyOverCap == [][Grows \/ \E p \in Procs : EmptiedBy(p)]_vars

\* LogRaw comes back, in DllMain at the process's exit too, where the worker may
\* have been ended inside it (log.cpp:121); or the process is gone.
LogReturns == \A p \in Procs : \A t \in Threads :
    step[p][t] # "idle" ~> step[p][t] = "idle" \/ life[p] = "off"
=============================================================================
