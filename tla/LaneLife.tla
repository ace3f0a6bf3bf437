------------------------------ MODULE LaneLife ------------------------------
(***************************************************************************)
(* What the caller of a lane is promised about its operations: at most one *)
(* is open, each ends exactly once, under an id that is never used again,  *)
(* and one that was asked to stop ends aborted and in no other way.        *)
(***************************************************************************)
EXTENDS Naturals

VARIABLES
  status,    \* "idle", "running" or "cancelling"
  op,        \* the open operation, 0 when idle
  result     \* the newest result: its operation and outcome

life == <<status, op, result>>

LifeInit ==
  /\ status = "idle"
  /\ op = 0
  /\ result = [op |-> 0, outcome |-> "none"]

\* The exclusive claim of start().
Open ==
  /\ status = "idle"
  /\ status' = "running"
  /\ op' \in Nat /\ op' > result.op
  /\ UNCHANGED result

\* The first abort() to commit.
Stop ==
  /\ status = "running"
  /\ status' = "cancelling"
  /\ UNCHANGED <<op, result>>

\* The terminal transaction.
End(outcome) ==
  /\ status # "idle"
  /\ (outcome = "aborted") <=> (status = "cancelling")
  /\ status' = "idle"
  /\ op' = 0
  /\ result' = [op |-> op, outcome |-> outcome]

LifeNext ==
  \/ Open
  \/ Stop
  \/ \E outcome \in {"completed", "failed", "aborted", "declined"} : End(outcome)

LifeSpec == LifeInit /\ [][LifeNext]_life
=============================================================================
