------------------------ MODULE DiagnosticsLog_proof ------------------------
(***************************************************************************)
(* The safety of DiagnosticsLog, for any number of processes, any size cap  *)
(* and any number of calls.  It follows from who is inside the lock         *)
(* (Locked), from one process at most having the file (Alone), and from no  *)
(* line being written before the one attempt to open it is over (Fresh);    *)
(* Sound says what the file is to the process that has it.                  *)
(***************************************************************************)
EXTENDS DiagnosticsLog, SequenceTheorems, TLAPS

Lines == Procs \cup {"past"}
Opening == {"create", "size", "recreate"}
Inside == Opening \cup {"ensure", "write", "unlock"}

\* The type invariant, its Boolean part apart.
Flags == /\ viewer \in BOOLEAN /\ worker \in [Procs -> BOOLEAN] /\ unsized \in [Procs -> BOOLEAN]
         /\ triedOpen \in [Procs -> BOOLEAN] /\ opened \in [Procs -> BOOLEAN]
Typed == /\ content \in Seq(Lines)
         /\ life \in [Procs -> {"off", "running", "exiting"}]
         /\ lock \in [Procs -> Threads \cup {Nobody}]
         /\ step \in [Procs -> [Threads -> Inside \cup {"idle", "lock"}]]
         /\ calls \in Nat
         /\ atOpen \in [Procs -> Seq(Lines)] /\ wrote \in [Procs -> Seq(Procs)]

\* A thread inside owns the lock, so there is one at most.
Locked == \A p \in Procs : \A t \in Threads : step[p][t] \in Inside => lock[p] = t

\* The file is one process's, which has tried to open it.
Alone == \A p \in Procs : /\ opened[p] => triedOpen[p] /\ \A q \in Procs : opened[q] => q = p
                          /\ \A t \in Threads : step[p][t] \in Inside \ {"ensure"} => triedOpen[p]

\* Nothing is written until the attempt is over.
Trying(p) == ~triedOpen[p] \/ \E t \in Threads : step[p][t] \in Opening
Fresh == \A p \in Procs : Trying(p) => wrote[p] = <<>>

Holds == \A p \in Procs : opened[p] => content = atOpen[p] \o wrote[p]
Capped == \A p \in Procs :
    opened[p] /\ (\A t \in Threads : step[p][t] # "size") => unsized[p] \/ Len(atOpen[p]) <= MaxBytes
Over == \A p \in Procs : \A t \in Threads : /\ step[p][t] = "size" => opened[p]
                                            /\ step[p][t] = "recreate" => Len(atOpen[p]) > MaxBytes
Sound == Holds /\ Capped /\ Over

Safe == Typed /\ Locked /\ Alone /\ Fresh /\ Sound
IInv == Flags /\ Safe

LEMMA TypeParts == Flags /\ Typed => TypeOK
BY DEF Flags, Typed, TypeOK, Lines, Inside, Opening

LEMMA InitInv == Init => IInv
<1> SUFFICES ASSUME Init PROVE IInv
  OBVIOUS
<1> USE DEF Init
<1>1. Flags BY DEF Flags
<1>2. Typed
  <2>1. PICK n \in 0..(MaxBytes + 1) : content = [i \in 1..n |-> "past"] OBVIOUS
  <2>2. n \in Nat BY LogAssumption
  <2>3. content \in [1..n -> Lines] BY <2>1 DEF Lines
  <2>4. content \in Seq(Lines) BY <2>2, <2>3, SeqDef
  <2> QED BY <2>4 DEF Typed, Inside, Opening
<1>3. Locked /\ Alone /\ Fresh /\ Sound
  BY DEF Locked, Alone, Fresh, Sound, Holds, Capped, Over, Inside, Opening
<1> QED BY <1>1, <1>2, <1>3 DEF IInv, Safe

USE DEF vars, alive, log, history, At

\* One thread takes one step.
States == Inside \cup {"idle", "lock"}
Moved(p, t, s) == /\ step' \in [Procs -> [Threads -> States]] /\ step'[p][t] = s
                  /\ \A q \in Procs : \A u \in Threads : q # p \/ u # t => step'[q][u] = step[q][u]
LEMMA GoMoves ==
    ASSUME Typed, NEW p \in Procs, NEW t \in Threads, NEW s \in States, Go(p, t, s)
    PROVE  Moved(p, t, s)
<1>1. step \in [Procs -> [Threads -> States]] BY DEF Typed, States
<1>2. [step[p] EXCEPT ![t] = s] \in [Threads -> States] BY <1>1
<1>3. step' = [step EXCEPT ![p] = [step[p] EXCEPT ![t] = s]] BY DEF Go
<1> QED BY <1>1, <1>2, <1>3 DEF Moved

LEMMA NobodyElse == Nobody \notin Threads
BY DEF Nobody, Threads

\* A step that is not into or out of "size" or "recreate" and leaves the file.
LEMMA SameSound ==
    ASSUME Sound, UNCHANGED <<content, opened, unsized, atOpen, wrote>>,
           \A q \in Procs : \A u \in Threads : (step'[q][u] = "size") <=> (step[q][u] = "size"),
           \A q \in Procs : \A u \in Threads : step'[q][u] = "recreate" => step[q][u] = "recreate"
    PROVE  Sound'
<1>1. Holds' BY DEF Sound, Holds
<1>2. Capped' BY DEF Sound, Capped
<1>3. Over' BY DEF Sound, Over
<1> QED BY <1>1, <1>2, <1>3 DEF Sound

LEMMA FlagsInv == Flags /\ [Next]_vars => Flags'
<1> SUFFICES ASSUME Flags, [Next]_vars PROVE Flags'
  OBVIOUS
<1> USE DEF Flags
<1>1. CASE View BY <1>1 DEF View
<1>2. ASSUME NEW p \in Procs, Start(p) \/ StartWorker(p) \/ Exit(p) \/ End(p) \/ Kill(p) PROVE Flags'
  BY <1>2 DEF Start, StartWorker, Exit, End, Kill, Gone
<1>3. ASSUME NEW p \in Procs, NEW t \in Threads, Log(p, t) \/ LogRaw(p, t) PROVE Flags'
  <2>1. UNCHANGED <<viewer, worker>> /\ (UNCHANGED triedOpen \/ triedOpen' = [triedOpen EXCEPT ![p] = TRUE])
    BY <1>3 DEF Log, LogRaw, Acquire, Ensure, OpenAlways, CheckSize, CreateAlways, Write, Release
  <2>2. \/ UNCHANGED opened
        \/ opened' = [opened EXCEPT ![p] = TRUE] \/ opened' = [opened EXCEPT ![p] = FALSE]
    BY <1>3 DEF Log, LogRaw, Acquire, Ensure, OpenAlways, CheckSize, CreateAlways, Write, Release
  <2>3. UNCHANGED unsized \/ unsized' = [unsized EXCEPT ![p] = Len(content) > MaxBytes]
    BY <1>3 DEF Log, LogRaw, Acquire, Ensure, OpenAlways, CheckSize, CreateAlways, Write, Release
  <2>4. (Len(content) > MaxBytes) \in BOOLEAN OBVIOUS
  <2>5. triedOpen' \in [Procs -> BOOLEAN] BY <2>1
  <2>6. opened' \in [Procs -> BOOLEAN] BY <2>2
  <2>7. unsized' \in [Procs -> BOOLEAN] BY <2>3, <2>4
  <2> QED BY <2>1, <2>5, <2>6, <2>7
<1>4. CASE UNCHANGED vars BY <1>4
<1> QED BY <1>1, <1>2, <1>3, <1>4 DEF Next, Process

\* What is left of the invariant when only who runs, or who looks, changes.
LEMMA ProcessSafe ==
    ASSUME Flags, Safe, NEW p \in Procs, View \/ Start(p) \/ StartWorker(p) \/ Exit(p) PROVE Safe'
<1> USE DEF View, Start, StartWorker, Exit, Safe
<1>1. Typed' BY DEF Typed
<1>2. UNCHANGED <<content, triedOpen, opened, lock, step, unsized, atOpen, wrote>> OBVIOUS
<1>3. Locked' BY <1>2 DEF Locked
<1>4. Alone' BY <1>2 DEF Alone
<1>5. Fresh' BY <1>2 DEF Fresh, Trying
<1>6. Sound' BY <1>2, SameSound
<1> QED BY <1>1, <1>3, <1>4, <1>5, <1>6

\* A process that is gone has nothing of the log any more.
LEMMA GoneSafe == ASSUME Flags, Safe, NEW p \in Procs, Gone(p) PROVE Safe'
<1> USE DEF Gone
<1>1. step \in [Procs -> [Threads -> Inside \cup {"idle", "lock"}]] BY DEF Safe, Typed
<1>2. Typed'
  <2>1. [t \in Threads |-> "idle"] \in [Threads -> Inside \cup {"idle", "lock"}] OBVIOUS
  <2>2. step' \in [Procs -> [Threads -> Inside \cup {"idle", "lock"}]] BY <1>1, <2>1
  <2>3. atOpen' \in [Procs -> Seq(Lines)] /\ wrote' \in [Procs -> Seq(Procs)] BY DEF Safe, Typed
  <2> QED BY <2>2, <2>3 DEF Safe, Typed
<1>3. /\ ~opened'[p] /\ wrote'[p] = <<>> /\ \A t \in Threads : step'[p][t] = "idle"
      /\ \A q \in Procs : q # p => /\ step'[q] = step[q] /\ lock'[q] = lock[q] /\ unsized'[q] = unsized[q]
                                   /\ triedOpen'[q] = triedOpen[q] /\ opened'[q] = opened[q]
                                   /\ atOpen'[q] = atOpen[q] /\ wrote'[q] = wrote[q]
  BY DEF Flags, Safe, Typed
<1>4. Locked' BY <1>3 DEF Safe, Locked, Inside, Opening
<1>5. Alone' BY <1>3 DEF Safe, Alone, Inside, Opening
<1>6. Fresh' BY <1>3 DEF Safe, Fresh, Trying
<1>7. Holds'
  <2>1. UNCHANGED content /\ Holds BY DEF Safe, Sound
  <2> QED BY ONLY <1>3, <2>1 DEF Holds
<1>8. Capped' BY <1>3 DEF Safe, Sound, Capped
<1>9. Over' BY <1>3 DEF Safe, Sound, Over
<1> QED BY <1>2, <1>4, <1>5, <1>6, <1>7, <1>8, <1>9 DEF Safe, Sound

\* What a thread inside knows: the other threads of its process are not.
LEMMA OneInside ==
    ASSUME Typed, Locked, NEW p \in Procs, NEW t \in Threads, step[p][t] \in Inside, NEW u \in Threads, u # t
    PROVE  step[p][u] \notin Inside
BY DEF Typed, Locked

LEMMA LogRawSafe == ASSUME Flags, Safe, NEW p \in Procs, NEW t \in Threads, LogRaw(p, t) PROVE Safe'
<1> USE DEF LogRaw, Safe, States, Inside, Opening
<1>1. Moved(p, t, "lock") /\ step[p][t] = "idle" BY GoMoves
<1>2. Typed' BY <1>1 DEF Typed, Moved
<1>3. Locked' /\ Alone' BY <1>1 DEF Locked, Alone, Moved
<1>4. Fresh' BY <1>1 DEF Fresh, Trying, Moved
<1>5. Sound' BY <1>1, SameSound DEF Moved
<1> QED BY <1>2, <1>3, <1>4, <1>5

LEMMA AcquireSafe == ASSUME Flags, Safe, NEW p \in Procs, NEW t \in Threads, Acquire(p, t) PROVE Safe'
<1> USE DEF Acquire, Safe, States, Inside, Opening
<1>1. Moved(p, t, "ensure") /\ step[p][t] = "lock" BY GoMoves
<1>2. Typed' BY <1>1 DEF Typed, Moved
<1>3. lock'[p] = t /\ \A q \in Procs : q # p => lock'[q] = lock[q] BY DEF Typed
<1>4. \A u \in Threads : step[p][u] \notin Inside BY NobodyElse DEF Locked
<1>5. Locked' BY <1>1, <1>3, <1>4 DEF Locked, Moved
<1>6. Alone' BY <1>1 DEF Alone, Moved
<1>7. Fresh' BY <1>1 DEF Fresh, Trying, Moved
<1>8. Sound' BY <1>1, SameSound DEF Moved
<1> QED BY <1>2, <1>5, <1>6, <1>7, <1>8

LEMMA EnsureSafe == ASSUME Flags, Safe, NEW p \in Procs, NEW t \in Threads, Ensure(p, t) PROVE Safe'
<1> USE DEF Ensure, Safe, States, Inside, Opening
<1>1. Moved(p, t, IF triedOpen[p] THEN "write" ELSE "create") /\ step[p][t] = "ensure" BY GoMoves
<1>2. Typed' BY <1>1 DEF Typed, Moved
<1>3. triedOpen'[p] /\ \A q \in Procs : q # p => triedOpen'[q] = triedOpen[q] BY DEF Flags
<1>4. Locked' BY <1>1 DEF Locked, Moved
<1>5. Alone' BY <1>1, <1>3 DEF Alone, Moved
<1>6. Fresh' BY <1>1, <1>3 DEF Fresh, Trying, Moved
<1>7. Sound' BY <1>1, SameSound DEF Moved
<1> QED BY <1>2, <1>4, <1>5, <1>6, <1>7

\* The file is opened: by nobody else, and before anything was written.
LEMMA OpenedSound ==
    ASSUME Flags, Safe, NEW p \in Procs, NEW t \in Threads, step[p][t] \in {"create", "recreate"}, MayOpen,
           opened' = [opened EXCEPT ![p] = TRUE], UNCHANGED <<triedOpen, unsized, wrote>>,
           \A q \in Procs : q # p => atOpen'[q] = atOpen[q],
           NEW s \in {"size", "write"}, Moved(p, t, s), content' \in Seq(Lines), atOpen'[p] = content',
           s = "size" \/ Len(content') <= MaxBytes
    PROVE  Alone' /\ Sound'
<1> USE DEF Inside, Opening
<1>1. opened'[p] /\ \A q \in Procs : opened'[q] => q = p BY DEF Flags, MayOpen
<1>2. triedOpen[p] /\ wrote[p] = <<>> BY DEF Safe, Alone, Fresh, Trying
<1>3. Alone' BY <1>1, <1>2 DEF Alone, Safe, Moved
<1>4. content' \o <<>> = content' BY ConcatEmptySeq
<1>5. Holds' BY <1>1, <1>2, <1>4 DEF Holds
<1>6. Capped' BY <1>1 DEF Capped, Moved
<1>7. Over'
  <2>1. \A u \in Threads : u # t => step[p][u] \notin Inside BY OneInside DEF Safe
  <2>2. \A u \in Threads : step'[p][u] # "recreate" BY <2>1 DEF Moved
  <2>3. Over /\ Moved(p, t, s) BY DEF Safe, Sound
  <2>4. SUFFICES ASSUME NEW q \in Procs, NEW u \in Threads
                 PROVE  /\ step'[q][u] = "size" => opened'[q]
                        /\ step'[q][u] = "recreate" => Len(atOpen'[q]) > MaxBytes
    BY DEF Over
  <2>5. CASE q = p BY <1>1, <2>2, <2>5
  <2>6. CASE q # p
    <3>1. step'[q][u] = step[q][u] /\ atOpen'[q] = atOpen[q] BY <2>3, <2>6 DEF Moved
    <3>2. opened'[q] = opened[q] BY <2>6 DEF Flags
    <3> QED BY <2>3, <3>1, <3>2 DEF Over
  <2> QED BY <2>5, <2>6
<1> QED BY <1>3, <1>5, <1>6, <1>7 DEF Sound

LEMMA OpenAlwaysSafe == ASSUME Flags, Safe, NEW p \in Procs, NEW t \in Threads, OpenAlways(p, t) PROVE Safe'
<1> USE DEF OpenAlways, States, Inside, Opening
<1>1. PICK s \in {"size", "write"} :
        /\ step[p][t] = "create" /\ Go(p, t, s) /\ UNCHANGED <<content, life, triedOpen, lock, calls, unsized, wrote>>
        /\ \/ /\ MayOpen /\ opened' = [opened EXCEPT ![p] = TRUE]
              /\ atOpen' = [atOpen EXCEPT ![p] = content] /\ s = "size"
           \/ UNCHANGED <<opened, atOpen>> /\ s = "write"
  OBVIOUS
<1>2. Moved(p, t, s) BY <1>1, GoMoves DEF Safe
<1>3. content \in Seq(Lines) /\ atOpen \in [Procs -> Seq(Lines)] BY DEF Safe, Typed
<1>4. atOpen' \in [Procs -> Seq(Lines)] BY <1>1, <1>3
<1>5. Typed' BY <1>1, <1>2, <1>4 DEF Safe, Typed, Moved
<1>6. Locked' BY <1>1, <1>2 DEF Safe, Locked, Moved
<1>7. Fresh' BY <1>1, <1>2 DEF Safe, Fresh, Trying, Moved
<1>8. CASE UNCHANGED <<opened, atOpen>>
  <2>1. Alone' BY <1>1, <1>2, <1>8 DEF Safe, Alone, Moved
  <2>2. ~opened[p] => opened' # [opened EXCEPT ![p] = TRUE] BY <1>8 DEF Flags
  <2>3. s = "write" BY <1>1, <2>2 DEF MayOpen
  <2>4. Sound' BY <1>1, <1>2, <1>8, <2>3, SameSound DEF Safe, Moved
  <2> QED BY <1>5, <1>6, <1>7, <2>1, <2>4 DEF Safe
<1>9. CASE ~UNCHANGED <<opened, atOpen>>
  <2>1. atOpen'[p] = content' /\ \A q \in Procs : q # p => atOpen'[q] = atOpen[q] BY <1>1, <1>3, <1>9
  <2>2. Alone' /\ Sound' BY <1>1, <1>2, <1>3, <1>9, <2>1, OpenedSound
  <2> QED BY <1>5, <1>6, <1>7, <2>2 DEF Safe
<1> QED BY <1>8, <1>9

LEMMA CheckSizeSafe == ASSUME Flags, Safe, NEW p \in Procs, NEW t \in Threads, CheckSize(p, t) PROVE Safe'
<1> USE DEF CheckSize, States, Inside, Opening
<1>1. PICK s \in {"recreate", "write"} :
        /\ step[p][t] = "size" /\ Go(p, t, s)
        /\ UNCHANGED <<content, life, triedOpen, lock, calls, atOpen, wrote>>
        /\ \/ /\ s = "recreate" /\ Len(content) > MaxBytes
              /\ opened' = [opened EXCEPT ![p] = FALSE] /\ UNCHANGED unsized
           \/ /\ s = "write" /\ UNCHANGED opened
              /\ unsized' = [unsized EXCEPT ![p] = Len(content) > MaxBytes]
  OBVIOUS
<1>2. Moved(p, t, s) BY <1>1, GoMoves DEF Safe
<1>3. Typed' BY <1>1, <1>2 DEF Safe, Typed, Moved
<1>4. Locked' BY <1>1, <1>2 DEF Safe, Locked, Moved
<1>5. \A q \in Procs : opened'[q] => opened[q] BY <1>1 DEF Flags
<1>6. Alone' BY <1>1, <1>2, <1>5 DEF Safe, Alone, Moved
<1>7. Fresh' BY <1>1, <1>2 DEF Safe, Fresh, Trying, Moved
<1>8. Holds' BY <1>1, <1>5 DEF Safe, Sound, Holds
<1>9. opened[p] => atOpen[p] = content
  <2>1. wrote[p] = <<>> BY <1>1 DEF Safe, Fresh, Trying
  <2>2. atOpen[p] \o <<>> = atOpen[p] BY ConcatEmptySeq DEF Safe, Typed
  <2> QED BY <2>1, <2>2 DEF Safe, Sound, Holds
<1>10. Len(content) \in Nat /\ MaxBytes \in Nat BY LogAssumption DEF Safe, Typed
<1>11. opened'[p] => unsized'[p] \/ Len(atOpen[p]) <= MaxBytes
  <2>1. CASE s = "recreate" BY <1>1, <2>1 DEF Flags
  <2>2. CASE s = "write"
    <3>1. unsized'[p] = (Len(content) > MaxBytes) BY <1>1, <2>2 DEF Flags
    <3>2. opened'[p] => Len(atOpen[p]) = Len(content) BY <1>5, <1>9
    <3>3. CASE Len(content) > MaxBytes
      <4>1. unsized'[p] BY ONLY <3>1, <3>3, Zenon
      <4> QED BY <4>1
    <3>4. CASE ~(Len(content) > MaxBytes)
      <4>1. Len(content) <= MaxBytes BY <1>10, <3>4
      <4> QED BY <3>2, <4>1
    <3> QED BY <3>3, <3>4
  <2> QED BY <2>1, <2>2
<1>12. \A q \in Procs : q # p => unsized'[q] = unsized[q] BY <1>1 DEF Flags
<1>13. Capped' BY <1>1, <1>2, <1>5, <1>11, <1>12 DEF Safe, Sound, Capped, Moved
<1>14. \A u \in Threads : u # t => step[p][u] \notin Inside BY <1>1, OneInside DEF Safe
<1>15. \A q \in Procs : q # p => opened'[q] = opened[q] BY <1>1 DEF Flags
<1>16. \A u \in Threads : step'[p][u] # "size" BY <1>2, <1>14 DEF Moved
<1>17. \A u \in Threads : step'[p][u] = "recreate" => Len(atOpen[p]) > MaxBytes
  BY <1>1, <1>2, <1>9, <1>14 DEF Safe, Sound, Over, Moved
<1>18. Over' BY <1>1, <1>2, <1>15, <1>16, <1>17 DEF Safe, Sound, Over, Moved
<1> QED BY <1>3, <1>4, <1>6, <1>7, <1>8, <1>13, <1>18 DEF Safe, Sound

LEMMA CreateAlwaysSafe == ASSUME Flags, Safe, NEW p \in Procs, NEW t \in Threads, CreateAlways(p, t) PROVE Safe'
<1> USE DEF CreateAlways, States, Inside, Opening
<1>1. Moved(p, t, "write") /\ step[p][t] = "recreate" BY GoMoves DEF Safe
<1>2. UNCHANGED <<life, triedOpen, lock, calls, unsized, wrote>> OBVIOUS
<1>3. content \in Seq(Lines) /\ atOpen \in [Procs -> Seq(Lines)] /\ <<>> \in Seq(Lines) BY DEF Safe, Typed
<1>4. content' \in Seq(Lines) /\ atOpen' \in [Procs -> Seq(Lines)] BY <1>3
<1>5. Typed' BY <1>1, <1>2, <1>4 DEF Safe, Typed, Moved
<1>6. Locked' BY <1>1, <1>2 DEF Safe, Locked, Moved
<1>7. Fresh' BY <1>1, <1>2 DEF Safe, Fresh, Trying, Moved
<1>8. CASE UNCHANGED <<opened, content, atOpen>>
  <2>1. Alone' BY <1>1, <1>2, <1>8 DEF Safe, Alone, Moved
  <2>2. Sound' BY <1>1, <1>2, <1>8, SameSound DEF Safe, Moved
  <2> QED BY <1>5, <1>6, <1>7, <2>1, <2>2 DEF Safe
<1>9. CASE ~UNCHANGED <<opened, content, atOpen>>
  <2>1. /\ MayOpen /\ opened' = [opened EXCEPT ![p] = TRUE] /\ content' = <<>>
        /\ atOpen' = [atOpen EXCEPT ![p] = <<>>]
    BY <1>9
  <2>2. /\ atOpen'[p] = content' /\ Len(content') <= MaxBytes
        /\ \A q \in Procs : q # p => atOpen'[q] = atOpen[q]
    BY <1>3, <2>1, LogAssumption
  <2>3. Alone' /\ Sound' BY <1>1, <1>2, <1>4, <2>1, <2>2, OpenedSound
  <2> QED BY <1>5, <1>6, <1>7, <2>3 DEF Safe
<1> QED BY <1>8, <1>9

\* A line at the end of the file is a line at the end of what the process wrote.
LEMMA AppendedLast == \A a, b \in Seq(Lines) : \A x \in Lines : Append(a \o b, x) = a \o Append(b, x)
OBVIOUS

LEMMA WriteSafe == ASSUME Flags, Safe, NEW p \in Procs, NEW t \in Threads, Write(p, t) PROVE Safe'
<1> USE DEF Write, States, Inside, Opening
<1>1. Moved(p, t, "unlock") /\ step[p][t] = "write" BY GoMoves DEF Safe
<1>2. UNCHANGED <<life, triedOpen, opened, lock, calls, unsized, atOpen>> OBVIOUS
<1>3. content \in Seq(Lines) /\ wrote \in [Procs -> Seq(Procs)] /\ p \in Lines BY DEF Safe, Typed, Lines
<1>4. content' \in Seq(Lines) /\ wrote' \in [Procs -> Seq(Procs)]
  <2>1. Append(content, p) \in Seq(Lines) /\ Append(wrote[p], p) \in Seq(Procs) BY <1>3
  <2> QED BY <1>3, <2>1
<1>5. Typed' BY <1>1, <1>2, <1>4 DEF Safe, Typed, Moved
<1>6. \A u \in Threads : u # t => step[p][u] \notin Inside BY <1>1, OneInside DEF Safe
<1>7. Locked' BY <1>1, <1>2 DEF Safe, Locked, Moved
<1>8. Alone' BY <1>1, <1>2 DEF Safe, Alone, Moved
<1>9. \A q \in Procs : q # p => wrote'[q] = wrote[q] BY <1>3
<1>10. ~Trying(p)' BY <1>1, <1>2, <1>6 DEF Safe, Alone, Trying, Moved
<1>11. Fresh' BY <1>1, <1>2, <1>9, <1>10 DEF Safe, Fresh, Trying, Moved
<1>12. Capped' BY <1>1, <1>2 DEF Safe, Sound, Capped, Moved
<1>13. Over' BY <1>1, <1>2 DEF Safe, Sound, Over, Moved
<1>14. CASE UNCHANGED <<content, wrote>>
  <2>1. Holds' BY <1>2, <1>14 DEF Safe, Sound, Holds
  <2> QED BY <1>5, <1>7, <1>8, <1>11, <1>12, <1>13, <2>1 DEF Safe, Sound
<1>15. CASE ~UNCHANGED <<content, wrote>>
  <2>1. opened[p] /\ content' = Append(content, p) /\ wrote'[p] = Append(wrote[p], p) BY <1>3, <1>15
  <2>2. \A q \in Procs : opened'[q] => q = p BY <1>2, <2>1 DEF Safe, Alone
  <2>3. content' = atOpen[p] \o wrote'[p]
    <3>1. atOpen[p] \in Seq(Lines) BY DEF Safe, Typed
    <3>2. wrote[p] \in Seq(Lines) BY <1>3, SeqMonotonic DEF Lines
    <3>3. content = atOpen[p] \o wrote[p] BY <2>1 DEF Safe, Sound, Holds
    <3> DEFINE found == atOpen[p]
               since == wrote[p]
    <3>4. found \in Seq(Lines) /\ since \in Seq(Lines) /\ p \in Lines BY <1>3, <3>1, <3>2
    <3> HIDE DEF found, since
    <3>5. Append(found \o since, p) = found \o Append(since, p) BY ONLY <3>4, AppendedLast, Zenon
    <3> QED BY <2>1, <3>3, <3>5 DEF found, since
  <2>4. Holds' BY <1>2, <2>2, <2>3 DEF Holds
  <2> QED BY <1>5, <1>7, <1>8, <1>11, <1>12, <1>13, <2>4 DEF Safe, Sound
<1> QED BY <1>14, <1>15

LEMMA ReleaseSafe == ASSUME Flags, Safe, NEW p \in Procs, NEW t \in Threads, Release(p, t) PROVE Safe'
<1> USE DEF Release, Safe, States, Inside, Opening
<1>1. Moved(p, t, "idle") /\ step[p][t] = "unlock" BY GoMoves
<1>2. UNCHANGED <<content, life, triedOpen, opened, calls, unsized, atOpen, wrote>> OBVIOUS
<1>3. lock \in [Procs -> Threads \cup {Nobody}] BY DEF Typed
<1>4. \A q \in Procs : q # p => lock'[q] = lock[q] BY <1>3
<1>5. Typed' BY <1>1, <1>2, <1>3 DEF Typed, Moved
<1>6. \A u \in Threads : u # t => step[p][u] \notin Inside BY <1>1, OneInside
<1>7. Locked' BY <1>1, <1>4, <1>6 DEF Locked, Moved
<1>8. Alone' BY <1>1, <1>2 DEF Alone, Moved
<1>9. Fresh' BY <1>1, <1>2 DEF Fresh, Trying, Moved
<1>10. Sound' BY <1>1, <1>2, SameSound DEF Moved
<1> QED BY <1>5, <1>7, <1>8, <1>9, <1>10

LEMMA SafeInv == Flags /\ Safe /\ [Next]_vars => Safe'
<1> SUFFICES ASSUME Flags, Safe, [Next]_vars PROVE Safe'
  OBVIOUS
<1>1. CASE View /\ Procs # {} BY <1>1, ProcessSafe
<1>2. CASE View /\ Procs = {}
  BY <1>2 DEF View, Safe, Typed, Locked, Alone, Fresh, Sound, Holds, Capped, Over
<1>3. ASSUME NEW p \in Procs, Process(p) PROVE Safe'
  BY <1>3, ProcessSafe, GoneSafe, LogRawSafe, AcquireSafe, EnsureSafe, OpenAlwaysSafe, CheckSizeSafe, CreateAlwaysSafe, WriteSafe,
     ReleaseSafe DEF Process, End, Kill, Log
<1>4. CASE UNCHANGED vars
  BY <1>4 DEF Safe, Typed, Locked, Alone, Fresh, Trying, Sound, Holds, Capped, Over
<1> QED BY <1>1, <1>2, <1>3, <1>4 DEF Next

LEMMA Invariance == Spec => []IInv
<1>1. IInv /\ [Next]_vars => IInv' BY FlagsInv, SafeInv DEF IInv
<1> QED BY <1>1, InitInv, PTL DEF Spec

-----------------------------------------------------------------------------
\* Every variable has its type, for any processes and any cap.
THEOREM TypeCorrect == Spec => []TypeOK
<1>1. IInv => TypeOK BY TypeParts DEF IInv, Safe
<1> QED BY <1>1, Invariance, PTL

\* However many PotPlayers start and end, the one that has the file finds its
\* lines there, whole and in order (log.cpp:42-74).
THEOREM LogIsOnesOwn == Spec => []SessionIntact
<1>1. IInv => SessionIntact BY DEF IInv, Safe, Sound, Holds, Capped, SessionIntact
<1> QED BY <1>1, Invariance, PTL

\* What earlier sessions logged goes only if a PotPlayer found more of it than
\* the cap allows (log.cpp:59-64): every other step leaves the lines or adds one.
THEOREM EarlierLinesStay == Spec => EmptiedOnlyOverCap
<1> DEFINE Fine == Grows \/ \E p \in Procs : EmptiedBy(p)
<1>1. ASSUME IInv, [Next]_vars PROVE [Fine]_vars
  <2>1. content \in Seq(Lines) BY <1>1 DEF IInv, Safe, Typed
  <2>2. ASSUME UNCHANGED content PROVE Fine BY <2>1, <2>2 DEF Grows
  <2>3. ASSUME NEW p \in Procs, NEW t \in Threads, Write(p, t) PROVE Fine
    <3>1. UNCHANGED content \/ content' = Append(content, p) BY <2>3 DEF Write
    <3>2. p \in Lines BY DEF Lines
    <3>3. CASE content' = Append(content, p) BY <2>1, <3>2, <3>3 DEF Grows
    <3> QED BY <2>2, <3>1, <3>3
  <2>4. ASSUME NEW p \in Procs, NEW t \in Threads, CreateAlways(p, t) PROVE Fine
    <3>1. CASE UNCHANGED content BY <2>2, <3>1
    <3>2. CASE ~UNCHANGED content
      <4>1. /\ MayOpen /\ opened' = [opened EXCEPT ![p] = TRUE] /\ content' = <<>>
            /\ step[p][t] = "recreate"
        BY <2>4, <3>2 DEF CreateAlways, At
      <4>2. opened \in [Procs -> BOOLEAN] BY <1>1 DEF IInv, Flags
      <4>3. opened'[p] /\ ~opened[p] BY <4>1, <4>2 DEF MayOpen
      <4>4. Safe /\ Over BY <1>1 DEF IInv, Safe, Sound
      <4>5. Len(atOpen[p]) > MaxBytes BY <4>1, <4>4 DEF Over
      <4> QED BY <4>1, <4>3, <4>5 DEF EmptiedBy
    <3> QED BY <3>1, <3>2
  <2> HIDE DEF Fine
  <2>5. ASSUME NEW p \in Procs, Process(p) PROVE Fine
    <3>1. CASE Start(p) \/ StartWorker(p) \/ Exit(p) \/ End(p) \/ Kill(p)
      <4>1. UNCHANGED content BY <3>1 DEF Start, StartWorker, Exit, End, Kill, Gone
      <4> QED BY <2>2, <4>1
    <3>2. ASSUME NEW t \in Threads, Log(p, t) \/ LogRaw(p, t) PROVE Fine
      <4>1. CASE Write(p, t) BY <2>3, <4>1
      <4>2. CASE CreateAlways(p, t) BY <2>4, <4>2
      <4>3. CASE ~Write(p, t) /\ ~CreateAlways(p, t)
        <5>1. UNCHANGED content
          BY <3>2, <4>3 DEF Log, LogRaw, Acquire, Ensure, OpenAlways, CheckSize, Release
        <5> QED BY <2>2, <5>1
      <4> QED BY <4>1, <4>2, <4>3
    <3> QED BY <2>5, <3>1, <3>2 DEF Process
  <2>6. ASSUME View PROVE Fine
    <3>1. UNCHANGED content BY <2>6 DEF View
    <3> QED BY <2>2, <3>1
  <2>7. CASE UNCHANGED vars BY <2>7 DEF Fine
  <2> QED BY <2>5, <2>6, <2>7, <1>1 DEF Next
<1> QED BY <1>1, Invariance, PTL DEF Spec, EmptiedOnlyOverCap
=============================================================================
