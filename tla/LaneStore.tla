----------------------------- MODULE LaneStore -----------------------------
(***************************************************************************)
(* What one lane keeps durably, as src/src/session.rs and                  *)
(* src/src/storage/mod.rs expose it: entries, the usage ledger and the     *)
(* registers the lane and its open operation own.  A conditional commit    *)
(* compares register versions; the version of a register here counts its   *)
(* writes, which agrees with the storage seq on everything a commit asks   *)
(* of it: whether the register was written since it was read.              *)
(***************************************************************************)
EXTENDS OpState, FiniteSets, Functions

VARIABLES
  fresh,       \* the next unused id
  entries,     \* entry id -> entry, write-once
  usage,       \* the ids of the rows in the usage ledger
  leaf,        \* lane.leaf
  lane,        \* lane.state: current operation id and pending_next_run
  laneSeq,     \* version of lane.state
  meta,        \* op.meta: prompts, source leaf and navigation target
  state,       \* op.state
  stateSeq,    \* version of op.state
  pending,     \* pending.entry: id -> kind of content
  toolArgs,    \* keys of op.tool_args: <<step, call index>>
  prep,        \* op.preparation: task id -> leaf it was built from
  labels,      \* fact.label keys
  lastResult   \* lane.lastResult

durable == <<fresh, entries, usage, leaf, lane, laneSeq, meta, state, stateSeq,
             pending, toolArgs, prep, labels, lastResult>>

NoMeta == [prompts |-> <<>>, source |-> NoId, target |-> NoId]
NoResult == [op |-> NoId, kind |-> "none", outcome |-> "none",
             leaf |-> NoId, final |-> NoId]

\* A lane as ensure_lane() seeds it: idle, at an empty conversation.
StoreInit ==
  /\ fresh = 1
  /\ entries = <<>>
  /\ usage = {}
  /\ leaf = NoId
  /\ lane = [op |-> NoId, nextRun |-> <<>>]
  /\ laneSeq = 1
  /\ meta = NoMeta
  /\ state = NoOperation
  /\ stateSeq = 0
  /\ pending = <<>>
  /\ toolArgs = {}
  /\ prep = <<>>
  /\ labels = {}
  /\ lastResult = NoResult

Busy == lane.op # NoId

Extend(f, g) ==
  [x \in DOMAIN f \cup DOMAIN g |-> IF x \in DOMAIN g THEN g[x] ELSE f[x]]

Without(f, keys) == [x \in DOMAIN f \ keys |-> f[x]]

(***************************************************************************)
(* The branch a leaf names, newest first, as a set of ids: the entries     *)
(* reached by following parents.                                           *)
(***************************************************************************)
Ancestors(id) ==
  LET up[n \in Nat] == IF n = 0 THEN {id}
                       ELSE {entries[x].parent : x \in up[n - 1] \ {NoId}}
  IN  (UNION {up[n] : n \in 0 .. Cardinality(DOMAIN entries)}) \ {NoId}

Branch == Ancestors(leaf)

(***************************************************************************)
(* restore(): what a lane must look like for its operation to be driven.   *)
(***************************************************************************)
Placed(id) == id \in DOMAIN entries
Waiting(id) == id \in DOMAIN pending
PlacedOrPending(id) == Placed(id) \/ Waiting(id)

ValidPhase(phase) ==
  CASE phase.p = "checkpoint" -> PlacedOrPending(phase.trigger)
    [] phase.p = "assistant" ->
         /\ PlacedOrPending(phase.trigger)
         /\ phase.gen = "pending" /\ Placed(phase.response)
              => entries[phase.response].type = "assistant"
    [] phase.p = "tools" ->
         /\ Placed(phase.assistant)
         /\ entries[phase.assistant].type = "assistant"
         /\ Len(phase.calls) = Len(entries[phase.assistant].calls)
         /\ IsInjective([i \in DOMAIN phase.calls |-> phase.calls[i].result])
         /\ \A i \in DOMAIN phase.calls :
              LET c == phase.calls[i] IN
                /\ c.status = "completed"
                     => Placed(c.result) /\ entries[c.result].type = "toolResult"
                /\ c.status = "pending" => <<phase.step, i>> \in toolArgs
    [] phase.p = "compaction" ->
         /\ Placed(phase.resume.trigger)
         /\ phase.structural.task \in DOMAIN prep
    [] phase.p = "failure" ->
         phase.provenance # NoId => Placed(phase.provenance)

\* A settled aborted response has its cancellation durable.
AbortedOnlyUnderCancel ==
  state.kind = "run" /\ state.latest # NoId /\ Placed(state.latest)
    => (entries[state.latest].stop = "aborted" => IsCancelled(state))

ValidCurrent ==
  /\ meta.source # NoId => Placed(meta.source)
  /\ \A i \in DOMAIN meta.prompts : PlacedOrPending(meta.prompts[i])
  /\ meta.target # NoId => Placed(meta.target)
  /\ state.kind = "compaction" => state.structural.task \in DOMAIN prep
  /\ state.kind = "run" =>
       /\ state.latest # NoId => Placed(state.latest)
       /\ \A id \in Range(state.steer) \cup Range(state.followUp)
                      \cup Range(state.writes) \cup Range(state.drained) : Waiting(id)
       /\ ValidPhase(state.phase)
       /\ AbortedOnlyUnderCancel

Restorable ==
  /\ leaf # NoId => Placed(leaf)
  /\ \A id \in Range(lane.nextRun) : Waiting(id)
  /\ Busy => state.kind # "none" /\ ValidCurrent

\* The snapshot a driver or a caller works from.
Current == [op |-> lane.op, state |-> state, stateSeq |-> stateSeq,
            nextRun |-> lane.nextRun, laneSeq |-> laneSeq, leaf |-> leaf]

(***************************************************************************)
(* Transactions.  A transaction record names every write but the one to    *)
(* op.state; NoWrites writes nothing more.                                 *)
(***************************************************************************)
NoWrites == [entries |-> <<>>, leaf |-> leaf, usage |-> {}, consumed |-> {},
             args |-> toolArgs, prep |-> prep, minted |-> 0]

Write(tx) ==
  /\ fresh' = fresh + tx.minted
  /\ entries' = Extend(entries, tx.entries)
  /\ usage' = usage \cup tx.usage
  /\ leaf' = tx.leaf
  /\ toolArgs' = tx.args
  /\ prep' = tx.prep

\* A transition: overwrite op.state, leave the operation open.
CommitTransition(next, tx) ==
  /\ Write(tx)
  /\ state' = next
  /\ stateSeq' = stateSeq + 1
  /\ pending' = Without(pending, tx.consumed)
  /\ UNCHANGED <<lane, laneSeq, meta, labels, lastResult>>

\* The pending payloads an operation still owns when it ends.
Owned(s) ==
  IF s.kind = "run"
  THEN Range(s.steer) \cup Range(s.followUp) \cup Range(s.writes) \cup Range(s.drained)
  ELSE {}

\* Whether the result names the newest response: not after terminating tools.
IncludesFinal(s, outcome) ==
  ~ (/\ outcome = "completed"
     /\ s.phase.p = "checkpoint"
     /\ s.phase.cont = "finish_tools")

\* The terminal transaction: every register of the operation goes.
CommitTerminal(cur, outcome, tx, label) ==
  /\ Write([tx EXCEPT !.args = {}, !.prep = <<>>])
  /\ state' = NoOperation
  /\ stateSeq' = stateSeq + 1
  /\ meta' = NoMeta
  /\ pending' = Without(pending, Owned(cur.state))
  /\ lane' = [op |-> NoId, nextRun |-> cur.nextRun]
  /\ laneSeq' = laneSeq + 1
  /\ labels' = labels \cup label
  /\ lastResult' =
       [op |-> cur.op, kind |-> cur.state.kind, outcome |-> outcome,
        leaf |-> tx.leaf,
        final |-> IF cur.state.kind = "run" /\ IncludesFinal(cur.state, outcome)
                  THEN cur.state.latest ELSE NoId]
=============================================================================
