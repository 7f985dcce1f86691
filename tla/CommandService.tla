--------------------------- MODULE CommandService ---------------------------
(***************************************************************************)
(* What the listener promises its reader, with no blocks and no radio in    *)
(* sight: "hands the engine a bare command, and returns the response the    *)
(* engine wrote" (dfc_emulator_listener.c:3-5).  A command is outstanding   *)
(* from the moment the reader starts sending it; the engine is handed       *)
(* exactly that command, at most once; the reader is returned exactly the   *)
(* response the engine wrote to it.  A reader that gives up, or a card that *)
(* leaves the field, aborts the command, which may then have run or not.    *)
(***************************************************************************)
EXTENDS Naturals, Sequences

CONSTANTS
  Commands,     \* what a reader may ask
  Responses,    \* what the engine may answer
  NoCommand, NoResponse

VARIABLES
  pending,      \* the outstanding command, or NoCommand
  response,     \* what the engine wrote to it, or NoResponse
  ran,          \* every command the engine was handed, in order
  results       \* every <<command, response>> the reader got, in order

vars == <<pending, response, ran, results>>

Init ==
  /\ pending = NoCommand
  /\ response = NoResponse
  /\ ran = <<>>
  /\ results = <<>>

Issue ==
  /\ pending = NoCommand
  /\ pending' \in Commands
  /\ UNCHANGED <<response, ran, results>>

Execute ==
  /\ pending # NoCommand
  /\ response = NoResponse
  /\ response' \in Responses
  /\ ran' = Append(ran, pending)
  /\ UNCHANGED <<pending, results>>

Return ==
  /\ response # NoResponse
  /\ results' = Append(results, <<pending, response>>)
  /\ pending' = NoCommand
  /\ response' = NoResponse
  /\ UNCHANGED ran

Abort ==
  /\ pending # NoCommand
  /\ pending' = NoCommand
  /\ response' = NoResponse
  /\ UNCHANGED <<ran, results>>

Next == Issue \/ Execute \/ Return \/ Abort
Spec == Init /\ [][Next]_vars
=============================================================================
