----------------------------- MODULE ConfigFile -----------------------------
(***************************************************************************)
(* plugin/src/config.cpp: LoadConfig in each running PotPlayer, on one      *)
(* config.ini that the others read or create at the same time and that the  *)
(* user's editor saves.  Windows' sharing modes decide who may open it; a   *)
(* PotPlayer may be ended at any point, its handle is closed then.          *)
(***************************************************************************)
EXTENDS ConfigText

CONSTANTS Players,   \* running copies of PotPlayer
          Editor,    \* the user's editor
          Lines,     \* the lines a file may have
          Texts,     \* what config.ini may hold at first
          Edits,     \* what the user may save
          Room,      \* bound: how many lines of the defaults a disk may take
          MaxEdits   \* bound: saves in one behaviour

DefaultText == SerializeConfig(DefaultConfig)
ASSUME FileAssumption == /\ Editor \notin Players /\ MaxEdits \in Nat
                         /\ Texts \cup Edits \subseteq Seq(Lines)
                         /\ \A l \in Lines : l.kind \in {"comment", "junk", "header", "entry"}
                         /\ Room \subseteq 0..Len(DefaultText) /\ Len(DefaultText) \in Room

VARIABLES
  present, file,  \* config.ini: whether it exists, and its lines
  handle,         \* who has it open, and how
  pc,             \* where each LoadConfig is
  size,           \* what GetFileSizeEx returned
  config,         \* what LoadConfig returned
  text,           \* history: the lines it was read from, if it was read
  atRest,         \* history: contents the file had with no writer at it
  edits, users    \* history: saves so far; the last lines the user saved

loading == <<pc, size, config, text>>
history == <<atRest, edits, users>>
vars == <<present, file, handle, loading, history>>

NotRead == <<Line("unread", "", <<>>)>>

\* CreateFileW: every open handle and the new one must allow each other.
Closed == [access |-> "none", share |-> {}]
Reading == [access |-> "read", share |-> {"read"}]
Writing == [access |-> "write", share |-> {}]
Saving == [access |-> "write", share |-> {"read"}]
CanOpen(how) == \A u \in DOMAIN handle : handle[u] # Closed =>
                    how.access \in handle[u].share /\ handle[u].access \in how.share
Open(u, how) == CanOpen(how) /\ handle' = [handle EXCEPT ![u] = how]
Close(u) == handle' = [handle EXCEPT ![u] = Closed]

Init == /\ present \in BOOLEAN /\ file \in (IF present THEN Texts ELSE {<<>>})
        /\ handle = [u \in Players \cup {Editor} |-> Closed]
        /\ pc = [p \in Players |-> "ended"] /\ size = [p \in Players |-> 0]
        /\ config = [p \in Players |-> DefaultConfig] /\ text = [p \in Players |-> NotRead]
        /\ atRest = (IF present THEN {file} ELSE {}) /\ edits = 0 /\ users = file

-----------------------------------------------------------------------------
Goto(p, l) == pc' = [pc EXCEPT ![p] = l]
ReturnDefaults(p) == /\ Goto(p, "loaded") /\ config' = [config EXCEPT ![p] = DefaultConfig]
                     /\ text' = [text EXCEPT ![p] = NotRead]

\* LoadConfig: without %LOCALAPPDATA% there is no path.
Start(p) ==
    /\ pc[p] = "ended"
    /\ \/ Goto(p, "open") /\ UNCHANGED <<config, text>>
       \/ ReturnDefaults(p)
    /\ UNCHANGED <<present, file, handle, size, history>>

\* Mutant: the file may be written by others while it is read.
OpenToReadShared(p) ==
    /\ pc[p] = "open"
    /\ \/ /\ present /\ Open(p, [Reading EXCEPT !.share = {"read", "write"}])
          /\ Goto(p, "size")
       \/ Goto(p, "create") /\ UNCHANGED handle
    /\ UNCHANGED <<present, file, size, config, text, history>>

\* ReadFileUtf8, each of whose calls may also fail.
OpenToRead(p) ==
    /\ pc[p] = "open"
    /\ \/ present /\ Open(p, Reading) /\ Goto(p, "size")
       \/ Goto(p, "create") /\ UNCHANGED handle
    /\ UNCHANGED <<present, file, size, config, text, history>>

GetSize(p) ==
    /\ pc[p] = "size"
    /\ \/ size' = [size EXCEPT ![p] = Len(file)] /\ Goto(p, "read") /\ UNCHANGED handle
       \/ Close(p) /\ Goto(p, "create") /\ UNCHANGED size
    /\ UNCHANGED <<present, file, config, text, history>>

\* As many bytes as the size said, or none; then ParseConfig.
ReadContents(p) ==
    /\ pc[p] = "read" /\ Close(p) /\ size' = [size EXCEPT ![p] = 0]
    /\ \/ /\ Len(file) >= size[p]
          /\ text' = [text EXCEPT ![p] = SubSeq(file, 1, size[p])]
          /\ config' = [config EXCEPT ![p] = ParseConfig(text'[p]).config]
          /\ Goto(p, "loaded")
       \/ size[p] > 0 /\ Goto(p, "create") /\ UNCHANGED <<config, text>>
    /\ UNCHANGED <<present, file, history>>

\* What cannot be read counts as missing: CREATE_ALWAYS empties the file.
OpenToWrite(p) ==
    /\ pc[p] = "create"
    /\ \/ /\ Open(p, Writing) /\ present' = TRUE /\ file' = <<>>
          /\ Goto(p, "write") /\ UNCHANGED <<config, text>>
       \/ ReturnDefaults(p) /\ UNCHANGED <<present, file, handle>>
    /\ UNCHANGED <<size, history>>

\* WriteFileUtf8: a full disk leaves a part of the text.  The defaults are
\* returned either way.
WriteDefaults(p) ==
    /\ pc[p] = "write" /\ Close(p) /\ ReturnDefaults(p)
    /\ \E n \in Room : file' = SubSeq(DefaultText, 1, n)
    /\ atRest' = atRest \cup {file'}
    /\ UNCHANGED <<present, size, edits, users>>

\* PotPlayer ends, or is ended while it loads.
End(p) ==
    /\ pc[p] # "ended" /\ Goto(p, "ended") /\ Close(p)
    /\ size' = [size EXCEPT ![p] = 0]
    /\ config' = [config EXCEPT ![p] = DefaultConfig] /\ text' = [text EXCEPT ![p] = NotRead]
    /\ atRest' = (IF pc[p] = "write" THEN atRest \cup {file} ELSE atRest)
    /\ UNCHANGED <<present, file, edits, users>>

-----------------------------------------------------------------------------
\* The editor (external) empties the file and writes it anew, or dies before.
BeginSave ==
    /\ edits < MaxEdits /\ edits' = edits + 1
    /\ Open(Editor, Saving) /\ present' = TRUE /\ file' = <<>>
    /\ UNCHANGED <<loading, atRest, users>>
FinishSave ==
    /\ handle[Editor] = Saving /\ Close(Editor)
    /\ \/ file' \in Edits /\ users' = file'
       \/ file' = file /\ users' = <<>>
    /\ atRest' = atRest \cup {file'}
    /\ UNCHANGED <<present, loading, edits>>

Load(p) == \/ Start(p) \/ OpenToRead(p) \/ GetSize(p) \/ ReadContents(p)
           \/ OpenToWrite(p) \/ WriteDefaults(p)
Next == (\E p \in Players : Load(p) \/ End(p)) \/ BeginSave \/ FinishSave
Spec == Init /\ [][Next]_vars

-----------------------------------------------------------------------------
Specs == [modifiers : SUBSET Modifiers, virtualKey : KeyTokens]
Valid(c) == /\ \A k \in HotkeyNames : c[k] \in Specs
            /\ \A k \in SwitchNames : c[k] \in BOOLEAN
            /\ c["durationms"] \in Nat /\ c["verbosity"] \in Severity
TypeOK == /\ present \in BOOLEAN
          /\ handle \in [Players \cup {Editor} -> [access : {"none", "read", "write"},
                                                   share : SUBSET {"read", "write"}]]
          /\ pc \in [Players -> {"ended", "open", "size", "read", "create", "write", "loaded"}]
          /\ size \in [Players -> Nat] /\ \A p \in Players : Valid(config[p])
          /\ edits \in 0..MaxEdits

\* However PotPlayers and the editor overlap, a configuration comes from the
\* file as it was between two writes, never from one that is half written.
ReadsAtRest == \A p \in Players : text[p] # NotRead => text[p] \in atRest

\* Parsing line by line gives each key what the file as a whole says of it: the
\* value on its last line in its own section, or its default if that is malformed
\* (README.md:74-77, core/config.hpp:97-98).  Not so for a key with a valid line
\* before the malformed one: the code, logging "using default", keeps the former.
ParsedAsMeant ==
    \A p \in Players : pc[p] = "loaded" =>
        \A k \in Names : ValidThenMalformed(text[p], k) \/ config[p][k] = Meaning(text[p])[k]

\* "SerializeConfig(c) parsed back through ParseConfig always reproduces c with
\* zero warnings" (core/config.hpp:104-105), for every configuration a load returns.
RoundTrip == \A p \in Players : pc[p] = "loaded" =>
                 ParseConfig(SerializeConfig(config[p])) = [config |-> config[p], warnings |-> 0]

\* "Creates the file ... if it doesn't exist yet" (plugin/config.hpp:15-16): what
\* the user saved is there until he saves again.
ExistingConfigKept == users # <<>> /\ handle[Editor] = Closed => file = users
=============================================================================
