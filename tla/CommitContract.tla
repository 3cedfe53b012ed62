--------------------------- MODULE CommitContract ---------------------------
(***************************************************************************)
(* What SkipMarkingDriver.commitRange promises whoever calls it, with the   *)
(* dialogs abstracted away: one call at a time, and the file's skip list,   *)
(* to which rows that were asked for are appended now or later.             *)
(*                                                                         *)
(* The answer is exact for a call during which PotPlayer met its deadlines. *)
(* For any other call it says nothing: the range may have been saved, may   *)
(* be saved after the answer, or never.  SkipSetup implements this module;  *)
(* SkipMarking is built on it.                                              *)
(***************************************************************************)
EXTENDS Naturals, Sequences, FiniteSets

CONSTANTS Ranges,   \* ranges that may be committed
          Existing, \* a row the list may hold from the start
          MaxCalls  \* bound: calls in one behaviour

VARIABLES saved,    \* the file's skip list
          asked,    \* the ranges asked for, in order
          pending,  \* a call is under way
          answer,   \* what the last call returned
          before,   \* the list as it was when the last call started
          timely    \* PotPlayer has met every deadline of the last call
contractVars == <<saved, asked, pending, answer, before, timely>>

Copies(s, r) == Cardinality({i \in 1..Len(s) : s[i] = r})
AsContracted(b) == saved = IF b THEN Append(before, asked[Len(asked)]) ELSE before

ContractInit == /\ saved \in {<<>>, <<Existing>>} /\ before = saved
                /\ asked = <<>> /\ pending = FALSE /\ answer = FALSE /\ timely = TRUE

Ask(r) == /\ ~pending /\ Len(asked) < MaxCalls
          /\ pending' = TRUE /\ asked' = Append(asked, r) /\ before' = saved
          /\ answer' = FALSE /\ timely' \in BOOLEAN
          /\ UNCHANGED saved

\* Rows asked for reach the list, each call's at most once.  Rows of an earlier
\* call, or of one already answered, may be among them only after a delay.
Store == /\ \E n \in 1..Len(asked) : \E new \in [1..n -> Ranges] :
              /\ saved' = saved \o new
              /\ timely => pending /\ new = <<asked[Len(asked)]>> /\ saved = before
         /\ \A r \in Ranges : Copies(saved', r) <= Copies(asked, r)
         /\ UNCHANGED <<asked, pending, answer, before, timely>>

Delay == /\ timely /\ timely' = FALSE
         /\ UNCHANGED <<saved, asked, pending, answer, before>>

Answer(b) == /\ pending /\ pending' = FALSE /\ answer' = b
             /\ timely => AsContracted(b)
             /\ UNCHANGED <<saved, asked, before, timely>>

ContractNext == \/ \E r \in Ranges : Ask(r)
                \/ Store \/ Delay
                \/ \E b \in BOOLEAN : Answer(b)
ContractSpec == ContractInit /\ [][ContractNext]_contractVars
=============================================================================
