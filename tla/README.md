# A TLA+ verification of the PotPlayer time-skip plugin

PotPlayer can skip time ranges of a file, which a user edits in its modal "Skip
Setup" dialog. This plugin lives inside PotPlayer as a proxy of `MediaDB64.dll`
and adds three hotkeys: Alt+[ marks a start, Alt+] an end, Alt+A saves the
range, by opening that dialog off-screen, driving it with window messages and
closing it. Paths below are relative to `src/`.

## 1. The system

    hotkey press
        |                          PotPlayer's UI thread
    hotkey pump (worker thread)    (modal loops, the skip list)
        | one press at a time              ^   | CBT hook
    skip-marking state machine             |   v
        | commitRange(range)          posted / sent messages
        +--> Skip Setup driver  ---------->+

    loader --DllMain--> worker thread --> hotkey pump
    installer (PowerShell) --> MediaDB64.dll, MediaDB64_orig.dll  <-- PotPlayer's updater

| Component | State | Operations | Correct when |
|---|---|---|---|
| Skip Setup driver, `plugin/src/skip_setup.cpp` | `g_hookArmed`, `g_hook`, `g_capturedDialog`; handles of the dialogs in use | open (CBT hook, fallback by title), add a range, ensure "enabled", close by OK or Cancel, delete a row, clear all | a commit appends exactly its verified row or changes nothing; no other row is lost; the hook does not outlive an open; every call ends |
| Self-check, `plugin/src/self_check.cpp` | the cached verdict; a status file | find PotPlayer, probe both dialogs, cancel them | writes nothing; "supported" means every control is there |
| Skip-marking state machine, `plugin/src/skip_marking.cpp` | `pending_` (start, end) | Alt+[, Alt+], Alt+A | a mark is lost only once it was saved; one message per press; nothing on an unsupported build |
| Hotkey pump, `plugin/src/hotkey_pump.cpp`, `hotkeys.cpp` | registered hotkeys, the thread's message queue | register, wait, drain, unregister | no press is forgotten; stop gives the hotkeys back |
| Proxy, `proxy/src/dllmain.cpp` | `g_selfModule`, `g_stopEvent`, module reference count | attach, detach, worker thread | no code runs unmapped; a failed attach leaves nothing; no loader-lock deadlock |
| Installer, `tools/install/PotPlayerProxy.psm1` and its CLI | four files in PotPlayer's module directory | install, uninstall, repair, status | the real DLL of the installed PotPlayer is never lost; only a matching module is wrapped |
| Player-window queries, `player_window.cpp`; window enumeration, `window_enum.cpp`, `core/src/window.cpp` | `g_mainWindow`, the cached main window | duration, position, file open, find windows by class or title | a dead handle is noticed; a main window that is there is found |
| On-screen display, `osd.cpp` | `g_activeToast`, the toast's text and its timer, which runs on the worker's message loop | show a line, dismiss it | a new line replaces the old one; none stays up for good |
| Config file, `plugin/src/config.cpp` | `config.ini`, shared with other PotPlayers and the user's editor | load, write defaults | what is read was once whole; the user's file is not overwritten |
| Config and hotkey text, `core/src/config.cpp` | settings | parse, serialise | parse undoes serialise; what is malformed leaves the other settings alone |
| Timecodes, ranges, `.pbf` text, `core/src/core.cpp` | none | format, parse, validate | parse undoes format; bad lines are kept out |
| Diagnostics log, `diagnostics/src/log.cpp` | `plugin.log`, `g_file`, `g_triedOpen`, `g_lock` | log a line; on the first, open the file and cut it to size | a process's lines stay together; earlier ones go only with a file over the cap; logging always returns |
| Tests, `tests/` | none | unit, harness, integration | a statement of intent only |

Interactions: the worker thread calls pump, state machine, self-check and driver
on one stack. The driver shares with PotPlayer's UI thread only the message
queue, the CBT hook's `g_capturedDialog` and what window queries return. Host
and worker share the module's reference count, the stop event, the loader
lock and the log. The toast and the hotkeys are served by one thread, so a toast
cannot go while a handler runs. Installer and PotPlayer's updater share files, without a lock.

What is hard: two threads connected by asynchronous messages, with a deadline
on one side only, so that what was given up still happens later; dialogs that
are found by title, whoever opened them; `DllMain` under the loader lock; window
handles that die and are given out again between a check and its use; and
multi-file renames that may fail or be cut off between any two. The full list,
line by line, is `hazards` in `PROJECT.json`.

## 2. Modules

| Module | Models | Correspondence |
|---|---|---|
| `PotPlayerUi` | PotPlayer's UI thread (external: its behaviour is what `skip_setup.cpp` and `docs/FINDINGS.md` rely on) | a FIFO of posted messages; nested modal loops, where only the innermost dialog can be destroyed; OK of Skip Setup writes its copy of the list back; stalls of any length |
| `SkipSetup` | `skip_setup.cpp`'s open, add and close, `EnsureSkipEnabled`, `CommitRangeLive`, `RunLiveSelfCheck`, `EnsureSelfCheckPassed` | `pc` is the pump thread's next call; one action per call that touches another thread; `armed`, `hooked`, `captured` are the hook's globals |
| `CommitContract` | what `SkipMarkingDriver::commitRange` promises | the abstract specification: exact if PotPlayer met its deadlines, otherwise nothing is promised but that rows are ones asked for |
| `SkipMarking` | `hotkey_pump.cpp` and `skip_marking.cpp` over `CommitContract` | `pump` is where `RunHotkeyPump` is, `step` the next question a handler asks, `mark` is `pending_` |
| `SkipListEdit` | `skip_setup.cpp`'s `DeleteSkipRange` and `ClearAllSkipRanges`, which no hotkey calls yet | `rows` is the open dialog's list, `queue` the Deletes posted and not handled, `step` the caller's next message |
| `PlayerWindow` | `player_window.cpp` with the selection of `window.cpp` and `window_enum.cpp` | `win` says what window each handle stands for; `cache` is `g_mainWindow`; `step` is where the pump thread is |
| `Osd` | `osd.cpp`: `ShowOsdLive`, `OsdWndProc` and the end of the thread | `activeToast` is `g_activeToast`; `timers` are those that run; `texts` counts the strings a toast owns |
| `DiagnosticsLog` | `log.cpp`: `LogRaw` by two threads in several processes, which start, exit or crash | `step` is where a thread is in `LogRaw`; `lock`, `triedOpen`, `opened` are the globals; `worker` says that `DllMain` has created the second thread; `content` is the file |
| `PlaySkipText` | `core/src/core.cpp`: timecodes, ranges and `.pbf` sections | operators; a numeral is a value with its number of digits, a line a sequence of tokens, arithmetic wraps at `LongLimit` and `IntLimit` |
| `PlaySkip` | the ways ranges take through these operators | ranges are typed in, saved as a section, damaged and read again |
| `ProxyLifecycle` | `dllmain.cpp` against the loader | `host` and `worker` are where the two threads are; `refs`, `lock` the loader's |
| `ProxyInstall` | `PotPlayerProxy.psm1` as file operations | `dir` maps the four file names to contents; `step` is the next file operation |
| `ConfigFile` | `plugin/src/config.cpp`: `LoadConfig` in several PotPlayers, beside an editor (external) | `pc` is the next Win32 call on the file; `handle` is who has it open with which sharing mode |
| `ConfigText` | `core/src/config.cpp`: the parsers and serialisers of settings and hotkeys | operators; a file is a sequence of lines, a value the sequence of its `+`-separated tokens; `Meaning` is the reference `ParseConfig` is compared with: a key's last line in its section, or the default if that is malformed |
| `MC...` | nothing | model values, symmetry and TLC's constants |
| `..._proof` | nothing | theorems about the module they are named after; `Proxy_proof` is about `ProxyInstall` and `ProxyLifecycle` |

Composition: `SkipSetup` EXTENDS `PotPlayerUi`. `SkipSetup` implements
`CommitContract` under `pending <- job = "commit" /\ pc # "idle"` and
`answer <- the verdict once idle`; `SkipMarking` instantiates the same contract,
so what it assumes of `commitRange` is what `SkipSetup` is shown to provide.
`ConfigFile` EXTENDS `ConfigText` and parses what it read with it, `PlaySkip`
EXTENDS `PlaySkipText`. `Osd` EXTENDS `PlayerWindow`: a toast is placed over the
window a query finds, and takes its handle from the same pool.

Abstractions worth knowing:
- A polling loop (`skip_setup.cpp:190`, `:217`, `:238`) is its last look: it ends
  having seen what it waits for, or having timed out. UI steps may come before
  it, so every number of polls and every timing is covered.
- A `SendMessage` step is enabled only while the UI thread is not `busy`. This
  includes searches by title: `GetWindowText` sends `WM_GETTEXT` to windows of
  the own process.
- `Faults` names what may go wrong outside: `noMain` no main window, `hook` no
  hook, `hookMiss` the hook misses its dialog, `post` PostMessage refused,
  `readback` the dialog rejects what was typed, `checkbox` the click has no
  effect, `nest` a second dialog of a kind may open, `esc` the user presses Esc.
  Timeouts are not a fault: the UI thread may always be slow.
- Ranges are model values in `SkipSetup` and pairs of positions in `SkipMarking`.
- Moving a dialog off-screen, logging and wording are left out. OSD lines are
  counted as calls of `showOsd`, which draws nothing when the OSD is disabled;
  the toast's own messages, which also wake the pump, are left out.
- Window handles are not reused within a behaviour of `SkipSetup`; in
  `PlayerWindow` and `Osd` a dead window's handle may be given to any later one.
- `PlayerWindow`'s queries are one action: which number is asked for changes
  nothing. `EnumWindows` lists the windows at one moment and asks about one after
  the other later; class and visibility of one window are one step. That
  `EnumWindows`, `SetTimer` or `RegisterClassW` fails is left out, and so are
  drawing, measuring and how long a toast stays.
- `EnsureSkipEnabled` looks at the box, clicks it and looks again in one step.
  Only the user could change it in between, whose edits in the plugin's parked
  dialog are not modelled. Likewise the fields of an interval are filled in one step.
- `SkipListEdit` starts with the dialog open, as its two functions do. A list
  that is gone has 0 rows, which is what `ListView_GetItemCount` says of a dead
  handle (`skip_setup.cpp:293`). PotPlayer may select a row that is left after each Delete.
- `DiagnosticsLog` counts the size cap in lines. A line is the process that wrote
  it; severity, its format and the debugger's copy are left out. `WriteFile`'s
  result is ignored (`log.cpp:73`), so any write may lose its line; one that a
  full disk cuts short counts as a line. A size that cannot be had counts as
  within the cap. Before the worker exists only the loader's thread logs
  (`dllmain.cpp:62-81`), and again once the process exits. The process's end, a
  crash anywhere included, closes its handles, and a thread that waits for a
  lock whose owner the exit has killed is ended too, as Windows does for SRW
  locks. `calls` bounds the lines of a behaviour; a process may start again.
- `PlaySkipText` has base-`Base` numerals and a timecode of `Sixty` seconds to the
  minute, so that overflow is a matter of a few digits: the width of `long long`
  and `int` and what does not fit them are modelled; the actual figures are
  values of the constants, which the theorems of section 4 include. C++ leaves
  signed overflow undefined (`core.cpp:106`, `:152-153`) and no flag of the build
  settles it: that it wraps is what the compiler the project is built with,
  MSVC, makes of it, and an assumption. White space, cutting into lines and `FormatTimecodeShort`, which nothing
  reads back, are left out.
- In `ProxyInstall` a DLL is the version that shipped it, the proxy, or
  unreadable. PotPlayer's updater runs between operations, not within one.
  `stops` says whether a failed file operation ends the operation: the CLI sets
  `$ErrorActionPreference`, the module does not, and the module sees the CLI's
  setting only if the script scope is the global one (`powershell -File`, the
  documented use). Elsewhere `Rename-Item` reports its error and goes on.
- In `ConfigText` a parser returns the set of what it read, empty where the code
  throws or returns `nullopt`. Cutting text into lines and tokens, trimming,
  lower-casing and byte-order marks are left out; numerals are named values, so
  that a leading zero, a sign and a number too long for 64 bits can be told
  apart. A failed write leaves as many lines of the defaults as `Room` allows.

## 3. What is checked

Passing runs:

| Run | Module, bounds | Shows |
|---|---|---|
| `skip_setup` | two ranges (symmetric), 3 commits, all faults but `nest`, `esc`, `post` | rows that reach the list are verified ones (`OnlyVerifiedSaved`); a call that starts clean and in time is atomic (`TimelyCallIsExact`); no row is ever lost or moved (`PurelyAdditive`); "supported" is sound (`VerdictSound`); the driver implements `CommitContract` (`ImplementsContract`) |
| `skip_setup_faults` | one range, 1 commit, all faults, fairness | the hook never outlives an open (`HookOnlyWhileOpening`); the self-check writes nothing (`SelfCheckWritesNothing`); every call returns (`CallReturns`) |
| `skip_marking` | positions 0..1, 4 presses, 2 commits, one hotkey that another program may hold, fairness | the list is what it was plus what the user was told (`LedgerMatches`); one message per press (`OneLinePerPress`); a refused build is left alone (`UnsupportedIsInert`); a mark is lost only when saved (`MarkKeptUntilSaved`); presses are taken (`PressesTaken`); stop gives the hotkeys back (`StopReleasesHotkeys`) |
| `skip_list_edit` | 3 rows, 3 calls, fairness | an answer is true (`AnswerIsTrue`); a Delete takes a row at most and a success stands for one (`DeletesAddUp`); every call returns (`EditReturns`) |
| `osd` | 3 handles, 3 changes of PotPlayer's windows, 3 calls, fairness | the main window is found and a dead handle not kept (`MainWindowReached`); one toast, one timer, one string (`OneToast`); a toast goes (`ToastGoes`) |
| `diagnostics_log` | 2 processes of 2 threads, a cap of 2 lines, 4 calls in all, fairness | the log is one process's own (`SessionIntact`); lines go only as a process empties a file it found over the cap (`EmptiedOnlyOverCap`); `LogRaw` returns or the process is gone, at exit too (`LogReturns`) |
| `proxy_lifecycle` | the host holds up to 8 references, fairness | no code after unmap, failed attach leaves nothing, no use of a closed event, the loader lock is always released |
| `proxy_install` | 3 PotPlayer versions, both error preferences | the installed PotPlayer's module is never lost (`RealModuleKept`), only matching modules are wrapped (`OnlyMatchingWrapped`), a return means done (`ReturnMeansDone`), one failure is all or nothing (`AllOrNothing`) |
| `config_file` | two PotPlayers (symmetric), one save, every file of at most two of seven kinds of line with or without a section header above | a configuration comes from a file nobody was writing (`ReadsAtRest`), is what the file as a whole says, a key that is valid on one line and malformed on its last excepted (`ParsedAsMeant`), and survives serialising and parsing (`RoundTrip`) |
| `play_skip` | base 2, 3 seconds to the minute, a `long long` below 512, an `int` below 8, 2 ranges | whatever is typed or read, a range ends after its start (`RangesForward`); a section is read back as written and a damaged one as one range per entry or not at all (`SectionReadsBack`); a timecode is exact (`TimecodeExact`) |

Why the bounds are enough:
- Three commits let a late dialog of the first be adopted by the second and its
  messages meet the third. Two ranges tell "this call's row" from "another's".
  Every call opens at most one Skip Setup and one Skip Interval Setup, and there
  is one self-check: `MaxWindows = 8 = 2 * (MaxCalls + 1)` never stops a dialog
  from opening (with `nest` too).
- `nest`, `esc` and `post` are only in `skip_setup_faults`. With `nest`, two Skip
  Setups hold two copies of the list and the last OK wins: `PurelyAdditive` is
  false, and PotPlayer is what makes it true by allowing one dialog. With `esc`
  the user may close an interval dialog while the plugin waits for it, so
  `TimelyCallIsExact` is false: Esc is seen as the OK having worked. With
  `post` and three calls, an interval dialog nobody could close is adopted by a
  later call and `OnlyVerifiedSaved` is false.
- Four presses cover start, end, Alt+A and a retry or a re-mark; two commits a
  retry after a failure. Two positions give a range, an empty one and one that
  runs backwards; the proofs remove this bound.
- Three rows tell the row asked for from one before it and one after; three calls
  let a Delete that came late meet a retry and a clear-all.
- Three handles are a main window, a toast and one more, which may be the next of
  either; three changes destroy a window, give its handle out again and hide it.
- Two processes are what sharing modes tell apart. A cap of two lines is met by
  what was there before, and exceeded by it, by one line and by two; four calls
  in all, wherever they fall, let a process log, end and start again while the
  other is between its two opens.
- 10 and 4 bits in base 2 overflow with the few digits the run's texts have, at
  each place the code narrows, multiplies or adds.
- References in `ProxyLifecycle` matter only as zero or more; 8 is more than any
  host here takes, and the proofs remove the bound.
- A second PotPlayer reads while the first creates the file, a save overlaps
  either; one more of them only repeats this. A header, a valid and an invalid
  value of one key are enough for every branch of the parser, and a header that
  is malformed or misplaced may stand anywhere. `Room` has one full disk.
- Three versions give two updates: install, update, repair, update again.

Runs that TLC shows violated; each quotes what the repository says:

| Run | The code | The repository |
|---|---|---|
| `late_save` | when waiting for OK times out, the commit is reported failed and PotPlayer saves it later (`skip_setup.cpp:238`) | nothing to undo, letting the same Alt+A be retried (`skip_marking.hpp:73-76`) |
| `existing_config_lost` | any failure to read `config.ini` counts as its absence, and it is then emptied and replaced by the defaults (`config.cpp:83`) | "Creates the file ... if it doesn't exist yet" (`plugin/config.hpp:15-16`) |

Divergences no run is about:
- installing twice throws (`PotPlayerProxy.psm1:343-345`, and its test asserts
  so) where `tools/install/README.md:63-65` says it is a no-op;
- the rollback's own rename fails silently (`PotPlayerProxy.psm1:381`), which
  leaves PotPlayer without a `MediaDB64.dll`, where `tools/install/README.md:49-51`
  says it does not; the backup is kept, which `RealModuleKept` checks;
- a mark does not remember the file it was made in (`skip_marking.cpp:111`), so
  a start from one file and an end from another are saved to whichever is open
  at Alt+A;
- unloading does not stop the worker: its own reference keeps the count positive,
  so detach never runs (`dllmain.cpp:102`), where `dllmain.cpp:99-101` says it
  just signals the worker to stop;
- when a control of Skip Setup is missing, the driver drops the handle and the
  dialog stays open, modal and off-screen (`skip_setup.cpp:362`), where
  `self_check.hpp:50` speaks of "cancelling both dialogs afterward";
- a Skip Setup left by an earlier call, with its Cancel still queued, is adopted
  by title and its disappearance taken for success (`skip_setup.cpp:220`), where
  `skip_marking.hpp:40-41` has "returns false ... if any step failed";
- a Delete whose wait timed out may still happen, and a list that is gone counts
  as cleared (`skip_setup.cpp:293`): `AnswerIsTrue` excepts both;
- the cached main window is trusted as long as its handle is alive, on the
  assumption that handles are not given out again in time
  (`player_window.cpp:26-28`): `MainWindowReached` excepts exactly that;
- only the first PotPlayer logs, as it shares the file with readers alone, and a
  file grows past the cap until it is next opened (`log.cpp:53-61`), where
  `log.cpp:12-13` has "a simple cap is enough to stop unbounded growth";
- a file "truncated ... once exceeded" (`log.cpp:12`) is also emptied when it is
  within the cap again: the handle is closed before the second open
  (`log.cpp:61-63`), and another PotPlayer may have emptied it, logged and ended
  by then. `EmptiedOnlyOverCap` therefore goes by what the process found;
- a timecode of very many hours overflows to another (`core.cpp:106`), where
  `core.hpp:18-21` has "bad input always surfaces": `RangesForward` holds
  nevertheless;
- `osdDurationMs` is read in 64 bits and cut to 32 (`hotkey_pump.cpp:136`);
- the status report calls the self-check "NeverRun" when "no hotkey has been
  pressed since install/update" (`PotPlayerProxy.psm1:222-224`), but the file of
  before an update is still there and is what it reports (`:231-240`), with the
  old version beside it; a status that could not be written
  (`self_check.cpp:101-105`) leaves the one before it as well;
- a key given twice, the second time malformed, keeps its first value
  (`core/src/config.cpp:244` and the like), where the warning logged there,
  `README.md:75-76` and `core/config.hpp:97-98` say it falls back to its default:
  `ParsedAsMeant` excepts exactly these keys (`ValidThenMalformed`).

Fairness:
- `SkipSetup`: strong fairness of the pump thread, weak fairness of a stall's
  end. The pump is a runnable thread, and a sent message is answered before any
  posted one, so stalls that come again and again do not starve it. A UI thread
  that never returns to its loop blocks the pump for good; that is PotPlayer
  hanging, and is assumed away.
- `SkipMarking`: weak fairness of the pump and the handlers (one runnable
  thread), and that `commitRange` returns, which is `SkipSetup`'s
  `CallReturns`. The player and the user owe nothing.
- `SkipListEdit`: weak fairness of the caller, whose messages PotPlayer answers;
  nothing posted need ever be handled, as every wait has its deadline.
- `Osd`: weak fairness of the pump thread's steps and of each toast's timer, which
  the system delivers once the thread waits for messages. Calls are bounded, so
  the thread does wait; a user who never stops pressing keys would keep a toast
  up, each line replacing the last.
- `DiagnosticsLog`: weak fairness of each thread in `LogRaw` and of an exiting
  process's end. The two threads of a process never contend for the lock while
  both run; at exit the loader's thread may wait for a lock the worker was ended
  with, and then only the process's end helps.
- `ProxyLifecycle`: weak fairness of `DllMain`, strong fairness of the worker,
  as a lock that is released again and again is eventually got. The pump
  need not fail by itself and the host need not load or free.

Deadlock checking is off where the system may stop (no more presses or calls,
process exit) and on in `proxy_install` and `config_file`.

## 4. What is proved

TLAPS checks these for every value of the constants that the modules' ASSUMEs
allow: any number of windows, calls, ranges, rows, references, versions, PotPlayers
and saves, files and lists of any length, integers of any width, and any set of faults but those the last column excludes.

| Theorem | Module | States | Without the faults |
|---|---|---|---|
| `TypeCorrect`, `DllTypeCorrect` | each of these modules but `PlaySkip_proof`, whose `IInv` says it | `[]TypeOK`, `[]DllTypeOK` |  |
| `NeverUnmappedUnderWorker` | `Proxy_proof` | `[]NoCodeAfterUnmap` |  |
| `FailedAttachClean` | `Proxy_proof` | `[]FailedAttachLeavesNothing` |  |
| `EventNeverUsedClosed` | `Proxy_proof` | `[]StopEventUsable` |  |
| `RealModuleNeverLost` | `Proxy_proof` | `[]RealModuleKept` |  |
| `WrappedMatches` | `Proxy_proof` | `[]OnlyMatchingWrapped` |  |
| `ReturnedIsDone` | `Proxy_proof` | `ReturnMeansDone` |  |
| `OneFailureRollsBack` | `Proxy_proof` | `AllOrNothing` |  |
| `HookRemoved` | `SkipSetup_proof` | `[]HookOnlyWhileOpening` |  |
| `SupportedIsSound` | `SkipSetup_proof` | `[]VerdictSound` |  |
| `SelfCheckIsHarmless` | `SkipSetup_proof` | `SelfCheckWritesNothing` |  |
| `ListOnlyGrows` | `SkipSetup_proof` | `PurelyAdditive` | `nest` |
| `TimelyCallsAreAtomic` | `SkipSetup_proof` | `[]TimelyCallIsExact` | `esc` |
| `OnlyVerifiedIsSaved` | `SkipSetup_proof` | `[]OnlyVerifiedSaved` | `nest`, `post` |
| `CallsKeepTheContract` | `SkipSetup_proof` | `ImplementsContract` | `nest`, `post`, `esc` |
| `EveryPressAnswered` | `SkipMarking_proof` | `[]OneLinePerPress` |  |
| `RefusedIsInert` | `SkipMarking_proof` | `[]UnsupportedIsInert` |  |
| `ListIsAsTold` | `SkipMarking_proof` | `[]LedgerMatches` |  |
| `MarkNeverLost` | `SkipMarking_proof` | `MarkKeptUntilSaved` |  |
| `MainWindowIsReached` | `Osd_proof` | `[]MainWindowReached` |  |
| `NeverTwoToasts` | `Osd_proof` | `[]OneToast` |  |
| `AnswersAreTrue` | `SkipListEdit_proof` | `[]AnswerIsTrue` |  |
| `RowsGoOneByOne` | `SkipListEdit_proof` | `[]DeletesAddUp` |  |
| `LogIsOnesOwn` | `DiagnosticsLog_proof` | `[]SessionIntact` |  |
| `EarlierLinesStay` | `DiagnosticsLog_proof` | `EmptiedOnlyOverCap` |  |
| `NeverHalfWritten` | `ConfigFile_proof` | `[]ReadsAtRest` |  |
| `ParsedRight` | `ConfigFile_proof` | `[]ParsedAsMeant` |  |
| `WrittenReadsBack` | `ConfigFile_proof` | `[]RoundTrip` |  |
| `NoRangeBackward` | `PlaySkip_proof` | `[]RangesForward` |  |
| `ListReadsBack` | `PlaySkip_proof` | `[]SectionReadsBack` |  |
| `TimesReadBack` | `PlaySkip_proof` | `[]TimecodeExact` |  |

The last column is a hypothesis of the theorem. It excludes no more than the run
`skip_setup` does, and for `PurelyAdditive` and `TimelyCallIsExact` less; each
exclusion is explained with that run's bounds in section 3. `nest` is PotPlayer's
to rule out (Skip Setup is modal) and `esc` the user's. A refused `PostMessage`
(`post`) means a full queue or a window that is gone; the plugin's answer to it,
a failed call with its dialog left open, is safe in itself but not for the calls
after it. What holds with all faults is `HookOnlyWhileOpening`, `VerdictSound`
and `SelfCheckWritesNothing`.

The assumptions on the constants say what the code justifies and no more:
`TextAssumption` that a minute's seconds have two digits and that a numeral may
have as many digits as a 64-bit number takes, `ListAssumption` that a numeral's
value has no more digits than the numeral and that fewer ranges are typed than
an `int` can number, `FileAssumption` that a line is a comment, a header, an
entry or none of these. `PlaySkip_proof` leaves open where typed texts and
damage put their tokens, so its theorems are about every text there is.

Along which argument:
- `Proxy_proof`, `ProxyLifecycle`: the safety invariants are not inductive because they
  do not say who holds which reference. `Refs` says it: the count is the
  host's references plus the module's own, which exists from a successful
  `AddSelfRef` to `FreeLibraryAndExitThread`. `Mapped`, `Locks`, `Event` and
  `Unowned` tie the mapping, the lock, the event's life and the globals to where
  the two threads are.
- `Proxy_proof`, `ProxyInstall`: `RealModuleKept` survives a removal only if it is known
  which file holds the module. `Core` says it: a real module in
  `MediaDB64.dll` is the installed one, and with anything else there the backup
  is, and matches. `Committed` carries what an operation's first step found to
  the steps that act on it: an install beyond its check has a matching module in
  place, a backup is dropped only beside a real module, and only the proxy is
  taken out. The two action properties speak of an operation's end, so `SInv`
  follows it from its start: `Asked` says which operation is at which of its
  lines, and `Stage`, with failures as exceptions, how many of its file
  operations have failed by then and where both modules are, compared to where
  it found them. The two properties can then be read off the step that ends it
  (`DoneStep`, `AllStep`).
- `SkipSetup_proof`: the hook invariant is inductive as it stands. The other two
  need `CheckPath` (which steps a self-check can be at, and that it still being
  ok past a resolve step means that dialog's controls were there) and
  `NoOkPosted` (before the first commit no OK is in the queue). Only dispatching
  an OK changes the list or the setting (`OnlyOkWrites`).
- `PurelyAdditive`: what an OK writes is the dialog's own copy of the list.
  `Additive` says that there is one Skip Setup at most and that its copy begins
  with the list as it is kept, so that writing it back loses nothing.
- `TimelyCallIsExact`: `Timely` follows one call that found no dialog and met
  its deadlines until now. At each step exactly one of a few scenes is on the
  screen: none, its Skip Setup alone (`Lone`), or that and its interval dialog
  (`Pair`), with nothing in the queue or the one message just posted. `Opening`,
  `Adding`, `Saving` and `Kept` say which scene and which rows belong to which step.
- `OnlyVerifiedSaved` is about calls that were late, and what their dialogs can
  still do once later calls have adopted them. `DialogsInv` describes every
  Skip Setup there is by the messages still on their way to it. It is free
  while it is open and nothing in the queue would close it. `Clean` has six
  parts: it had one interval dialog at most, and one Add asks for it (`Once`); a
  free one that no call drives was never touched (`Settled`); when its OK is
  posted the interval dialog is gone and no Add is left to act (`OkLast`);
  a free one that a call drives has grown by nothing, or by one row that the
  call verified (`Verified`), and the count the call took of it is right
  (`Numbered`); an open one whose OK is on its way holds the list and one range
  (`Promised`). `Placed`, `Holding` and `Linked` say whose dialog is
  whose, to what kind of window each message and each handle of the driver
  belongs, and that the two dialogs a call drives belong together. A call that
  asked for an interval dialog posts an OK or a Cancel before it returns: that is
  why a refused post breaks it.
- `ImplementsContract`: the mapping is that of section 2. `StartCommit` is
  `Ask`; the dispatch of a Skip Setup's OK that brings a row is `Store`; a
  deadline that passes is `Delay`; the return is `Answer`; every other step stutters.
  `History` and `OnTheWay` tie the call's variables to the contract's, and
  `Timely` gives an answer in time its exact meaning. That `Store` adds nothing
  but a range still owed needs `Budget`: for each range, the copies saved,
  plus one if an OK for it is on its way, plus one if the current call has yet
  to post its OK, are at most the times it was asked for. A retry after a late
  answer (`late_save`) may thus save a range twice, but not three times for two calls.
- `SkipMarking_proof`: `LedgerMatches` speaks of the moments between presses.
  `Exact` says what is known within a commit, by the contract alone: the list is
  what it was, or that and the range asked for, and which of the two once the
  contract has answered. `Asked` says that this range is still the mark, and
  `Inert` that no handler gets past the version question until it was answered.
- `Osd_proof`: `Found` carries from the call's beginning what
  `MainWindowReached` says at its end: the windows that lived since then are
  still listed or among the candidates, a candidate that is dead died meanwhile
  (`Asked`), and a handle kept for a dead window is alive again only as a
  recycled one. `Single` adds that between the old toast's end and the new
  one's creation there is none.
- `SkipListEdit_proof`: `Credit` counts the selected rows as gone and says how far
  that may run ahead of the Deletes PotPlayer has handled: by none while nothing
  is selected, by one row from then on, whatever is handled in between. `Earned`
  ties a call's successes to the count it started from. `Timely` follows one
  call from the list it found to its answer, as long as nothing is left in the
  queue from an earlier one. `OneRow` is the lemma that an index names at most
  one row.
- `DiagnosticsLog_proof`: `Locked` (a thread inside owns the lock), `Alone` (one
  process at most has the file, and it has tried to open it) and `Fresh`
  (nothing is written before that attempt is over) make the file what the
  process that has it found and wrote since (`Holds`), within the cap at the
  start unless it could not ask (`Capped`). `Over` says that a process about to
  empty the file found it over the cap; for `EarlierLinesStay` every other step
  leaves the content or appends to it.
- `ConfigFile_proof`: `Handles` says that a writer is alone with the file and
  `Held` that everyone holds the handle of the line he is at. So a file that is
  open to a reader, or to nobody, is at rest (`AtRest`), and the size a reader
  saw is still its size when he reads (`Sized`); a read of that many lines is
  then the whole file.

- `ParsedRight`: `ParseConfig` and its meaning are two ways of saying one thing, one
  line by line, the other of the file as a whole. `ProgressIs` shows that the
  function of what is known after each line exists and does what the loop does;
  `AsMeant` says that after `n` lines the section is that of the last header and
  each setting is the last valid value among them, and `LineAsMeant` that a
  further line keeps it so. By induction it holds of the last line. For a key
  that is not `ValidThenMalformed` the last valid value is the one on its last
  line, or there is none (`MeantIsMeaning`), so the parser is `Right`
  (`ParserIsRight`). `Loaded` then says of a PotPlayer that is done that its
  settings are right by its text.
- `WrittenReadsBack`: a load gives only settings that can be written
  (`Storable`: a modifier once each, a length not below zero). Of those each
  value is read as what it was written from (`HotkeyReadsBack`, `ValueReadsBack`),
  and the thirteen lines of a written file are followed one by one (`ReadsBack`).
  `TypeCorrect` rests on `Storable` as well.
- `PlaySkip_proof`: `IInv` says what the list, the file and the field still have to
  do with each other once a text was changed.
  - Ranges: a product or sum may wrap to any 64-bit number, below zero included
    (`DurationIs`, `LongIs`), and `Create` is what keeps a range forward.
  - Sections: `Entries` is followed line by line as the configuration's parser is.
    A line of a list is an entry and reads back as its range (`EntryReadsBack`):
    its end minus its start and the sum that undoes it both fit. Header and
    terminator are no entries, so the list comes back whole (`SectionRoundTrip`).
    `Framed` is what is left of a section that was changed: two lines of it, gone
    or not, have at most two tokens, and an entry that parses has at least three
    (`PbfLineIs`). So a damaged file gives no longer list than a whole one, and the
    typed list keeps its bound (`FramedIsShort`).
  - Timecodes: a time is its hours, minutes, seconds and milliseconds, by the
    uniqueness of quotient and remainder (`PartsOf`, `PartsAre`). Put together
    again they are the time, no intermediate result is greater than it, and so
    nothing wraps (`NothingWraps`). A text that is read has the tokens of a
    timecode (`TimecodeIs`), and if its hours fit, writing its time gives back
    each token (`TimecodeIsRight`); for hours that do not fit that is false
    (section 3), and `HoursFit` excepts no others.

Induction: the library's induction theorems take a predicate, which the provers
here cannot instantiate. Both modules therefore prove from the well-foundedness
of `<` on the numbers that a set with 0 and every successor has all of them
(`InductiveSet`), and take for that set the numbers of lines for which a claim
holds. For that, what the code computes in a loop (`ParseConfig`,
`ParsePlaySkipSection`) is defined as a function of the number of lines
done, as is `Power`.

Model-checked only: the liveness properties (`CallReturns`, `PressesTaken`,
`StopReleasesHotkeys`, `LoaderLockReleased`, `EditReturns`, `ToastGoes`,
`LogReturns`), as they need fairness, ENABLED and temporal reasoning the prover
does not do. Every other property of the passing runs is a theorem.

## 5. What is not modelled, and the plan

In the order in which it should be done:

1. The self-check's status file, written by the plugin and read by the
   installer's status command.
2. An updater that runs within an uninstall, after it classified the files.
3. The log's minimal severity, which another thread may change.

Not modelled because the plugin cannot answer for it, or the sources do not say:
a UI thread of PotPlayer that never returns; whether PotPlayer lets the user open
a second Skip Setup; which file a mark belongs to; the position at the moment of
a press rather than of its handling.

Not planned: drawing, the log's wording and `FormatTimecodeShort`, PE parsing, console interaction, the
linker's forwarder table, vendored Catch2 and the test harness.
