------------------------------ MODULE AbstractLog ------------------------------
(***************************************************************************)
(* What the append-only file amounts to, without its bytes: a list of the  *)
(* commands the next start will execute and a hole, the number of frames   *)
(* it would still take until the file reads as whole frames again.         *)
(*                                                                         *)
(* An append cut off in the middle opens a hole as deep as the items it    *)
(* lacks.  A later append falls into the hole: it counts as an item, and   *)
(* the command is never executed.  A file with a hole cannot be loaded.    *)
(* AppendOnlyFile.tla is shown to implement this module.                   *)
(***************************************************************************)
EXTENDS Integers, Sequences

CONSTANTS
  Commands,   \* the commands that are logged
  Items       \* Items[c]: how many items the frame of command c has

VARIABLES
  state,     \* "serving", "down" or "failed" to load
  log,       \* what the file will be replayed as
  hole,      \* how many frames will be swallowed before that can happen
  restored   \* what the running server was started from, nothing when none runs

vars == <<state, log, hole, restored>>

Init == state = "serving" /\ log = <<>> /\ hole = 0 /\ restored = <<>>

\* What is left of a hole once one more frame, whole or not, has begun in it.
Filled == IF hole = 0 THEN 0 ELSE hole - 1

\* A frame of c arrives without its last items.
Tear(c) ==
  /\ \E missing \in 1..(Items[c] - 1) : hole' = Filled + missing
  /\ UNCHANGED log

Append_(c) ==
  /\ state = "serving"
  /\ log' = IF hole = 0 THEN Append(log, c) ELSE log
  /\ hole' = Filled
  /\ UNCHANGED <<state, restored>>

AppendFails(c) ==
  /\ state = "serving"
  /\ Tear(c)
  /\ UNCHANGED <<state, restored>>

Crash ==
  /\ state # "down"
  /\ state' = "down"
  /\ \/ UNCHANGED <<log, hole>>
     \/ /\ state = "serving"
        /\ \E c \in Commands : Tear(c)
  /\ restored' = <<>>

Restart ==
  /\ state \in {"down", "failed"}
  /\ state' = IF hole = 0 THEN "serving" ELSE "failed"
  /\ restored' = IF hole = 0 THEN log ELSE <<>>
  /\ UNCHANGED <<log, hole>>

Next ==
  \/ \E c \in Commands : Append_(c) \/ AppendFails(c)
  \/ Crash \/ Restart

Spec == Init /\ [][Next]_vars

=============================================================================
