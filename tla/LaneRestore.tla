----------------------------- MODULE LaneRestore -----------------------------
(***************************************************************************)
(* What a lane names is there: the reason why it can be restored after     *)
(* every commit, and why the results of a batch stand in their order.      *)
(* And the branch of the conversation the lane is on: the entries are a    *)
(* tree, only a navigation leaves an entry of it behind, and every call on *)
(* it is answered there or will be.                                        *)
(***************************************************************************)
EXTENDS LaneProofs, FiniteSetTheorems

\* An id that is absent or names an entry of a conversation.
Named(E, id) == id = NoId \/ id \in DOMAIN E

\* A result stands below the call before it, or below the response.
Follows(E, id) ==
  E[id].type = "toolResult" =>
    LET a == E[id].call[1]
        i == E[id].call[2]
        p == E[id].parent
    IN  IF i = 1 THEN p = a
        ELSE p \in DOMAIN E /\ E[p].type = "toolResult" /\ E[p].call = <<a, i - 1>>

Conversation(E, tip) ==
  /\ Named(E, tip)
  /\ \A id \in DOMAIN E : E[id] \in Entry /\ Follows(E, id)

\* Started calls have their arguments, finished ones their results, and the
\* first that is not finished is next to the leaf.
CallRooted(b, i, E, args, tip) ==
  /\ b.calls[i].status = "pending" => <<b.step, i>> \in args
  /\ b.calls[i].status = "completed" =>
       /\ b.calls[i].result \in DOMAIN E /\ E[b.calls[i].result].type = "toolResult"
       /\ E[b.calls[i].result].call = <<b.assistant, i>>
  /\ b.calls[i].status # "completed" /\ (i = 1 \/ b.calls[i - 1].status = "completed") =>
       tip = IF i = 1 THEN b.assistant ELSE b.calls[i - 1].result

BatchRooted(b, E, args, tip) ==
  /\ b.assistant \in DOMAIN E /\ E[b.assistant].type = "assistant"
  /\ Len(b.calls) = Len(E[b.assistant].calls)
  /\ \A i \in DOMAIN b.calls : CallRooted(b, i, E, args, tip)

\* What a phase names is there.  Only the prompt a run starts from may still
\* wait, and then it is in the inbox and nothing skips it.
RootedPhase(ph, writes, E, args, tasks, tip) ==
  /\ ph.p = "checkpoint" =>
       \/ ph.trigger \in DOMAIN E
       \/ ~ph.skip /\ Needs(ph) /\ ph.trigger \in Range(writes)
  /\ ph.p = "assistant" => ph.trigger \in DOMAIN E
  /\ ph.p = "tools" => BatchRooted(ph, E, args, tip)
  /\ ph.p = "compaction" => ph.resume.trigger \in DOMAIN E /\ ph.structural.task \in tasks
  /\ ph.p = "failure" => Named(E, ph.provenance)

RootedState(s, E, args, tasks, tip) ==
  /\ s.kind = "run" => Named(E, s.latest) /\ RootedPhase(s.phase, s.writes, E, args, tasks, tip)
  /\ s.kind = "compaction" => s.structural.task \in tasks
  /\ s.kind = "navigation" => Named(E, s.target)

Metadata ==
  /\ meta \in [prompts: Seq(Id), source: Id, target: Id]
  /\ Named(entries, meta.source) /\ Named(entries, meta.target)
  /\ \A i \in DOMAIN meta.prompts : PlacedOrPending(meta.prompts[i])

Registers ==
  /\ usage \subseteq Id /\ toolArgs \subseteq Id \X Nat
  /\ \A task \in DOMAIN prep : prep[task] \in Id
  /\ \A id \in DOMAIN pending : pending[id] \in InputKinds
  /\ lastResult.outcome \in Outcomes \cup {"none"}

Rooted ==
  /\ Conversation(entries, leaf)
  /\ RootedState(state, entries, toolArgs, DOMAIN prep, leaf)
  /\ Metadata /\ Registers

Sure == Driven /\ Guarded /\ Housed /\ Rooted

(***************************************************************************)
(* A conversation grows.                                                   *)
(***************************************************************************)
\* F has what E has, as it is there.
Keeps(E, F) == DOMAIN E \subseteq DOMAIN F /\ \A id \in DOMAIN E : F[id] = E[id]

\* A phase other than a batch stays rooted where nothing is taken away.
LEMMA PhaseKept ==
  ASSUME NEW E, NEW F, Keeps(E, F), NEW ph, ph.p # "tools", NEW writes, NEW args, NEW tasks,
         NEW tip, RootedPhase(ph, writes, E, args, tasks, tip), NEW more, tasks \subseteq more,
         NEW kept, NEW to
  PROVE  RootedPhase(ph, writes, F, kept, more, to)
BY DEF RootedPhase, Keeps, Named

\* What is written below entries keeps them.
LEMMA ExtendKeeps ==
  ASSUME NEW E, NEW added, DOMAIN added \cap DOMAIN E = {}
  PROVE  /\ Keeps(E, Extend(E, added)) /\ DOMAIN Extend(E, added) = DOMAIN E \cup DOMAIN added
         /\ \A id \in DOMAIN added : Extend(E, added)[id] = added[id]
BY DEF Keeps, Extend

\* What follows an entry still does in a longer conversation.
LEMMA FollowsKept ==
  ASSUME NEW E, NEW F, Keeps(E, F), NEW id \in DOMAIN E, Follows(E, id)
  PROVE  Follows(F, id)
BY DEF Keeps, Follows

\* New entries make a longer conversation if each is one and follows what it answers.
LEMMA ConversationExtended ==
  ASSUME NEW E, NEW tip, Conversation(E, tip), NEW added, DOMAIN added \cap DOMAIN E = {},
         NEW F, F = Extend(E, added), NEW to, Named(F, to),
         \A id \in DOMAIN added : added[id] \in Entry /\ Follows(F, id)
  PROVE  Conversation(F, to)
<1>1. Keeps(E, F) /\ DOMAIN F = DOMAIN E \cup DOMAIN added /\ \A id \in DOMAIN added : F[id] = added[id]
  BY ZenonT(60), ExtendKeeps
<1>2. ASSUME NEW id \in DOMAIN E
      PROVE  F[id] \in Entry /\ Follows(F, id)
  BY <1>1, FollowsKept DEF Conversation, Keeps
<1> QED
  BY <1>1, <1>2 DEF Conversation

\* An entry that may be written now: of a result, what is before it is there.
Belongs(E, e) ==
  e.type = "toolResult" =>
    IF e.call[2] = 1 THEN e.parent = e.call[1]
    ELSE
       /\ e.parent \in DOMAIN E /\ E[e.parent].type = "toolResult"
       /\ E[e.parent].call = <<e.call[1], e.call[2] - 1>>

\* One entry more, a result where it belongs.
LEMMA OneEntry ==
  ASSUME NEW E, NEW tip, Conversation(E, tip), NEW id, id \notin DOMAIN E, NEW added,
         DOMAIN added = {id}, NEW e \in Entry, added[id] = e,
         Belongs(E, e),
         NEW F, F = Extend(E, added)
  PROVE  Conversation(F, id) /\ Keeps(E, F) /\ F[id] = e /\ DOMAIN F = DOMAIN E \cup {id}
<1>1. DOMAIN added \cap DOMAIN E = {}
  OBVIOUS
<1>2. Keeps(E, F) /\ DOMAIN F = DOMAIN E \cup DOMAIN added /\ \A x \in DOMAIN added : F[x] = added[x]
  <2>1. /\ Keeps(E, Extend(E, added)) /\ DOMAIN Extend(E, added) = DOMAIN E \cup DOMAIN added
        /\ \A x \in DOMAIN added : Extend(E, added)[x] = added[x]
    BY ZenonT(60), <1>1, ExtendKeeps
  <2> QED
    BY <2>1
<1>3. F[id] = e /\ DOMAIN F = DOMAIN E \cup {id}
  BY <1>2
<1>4. Follows(F, id) /\ Named(F, id)
  BY <1>2, <1>3 DEF Follows, Keeps, Named, Belongs
<1>5. Conversation(F, id)
  BY <1>1, <1>4, ConversationExtended
<1> QED
  BY <1>2, <1>3, <1>5

(***************************************************************************)
(* Commits of a driver.                                                    *)
(***************************************************************************)
\* What a transaction may write.
Grows(tx) ==
  /\ DOMAIN tx.entries \cap DOMAIN entries = {} /\ tx.consumed \subseteq DOMAIN tx.entries
  /\ Conversation(Extend(entries, tx.entries), tx.leaf)
  /\ tx.usage \subseteq Id /\ tx.args \subseteq Id \X Nat /\ \A t \in DOMAIN tx.prep : tx.prep[t] \in Id

\* The state and the transaction leave what the lane names in place.
Roots(next, tx) ==
  /\ Grows(tx)
  /\ RootedState(next, Extend(entries, tx.entries), tx.args, DOMAIN tx.prep, tx.leaf)

\* A commit goes through only if the driver has seen what is durable.
LEMMA FreshSnapshot ==
  ASSUME Sure, pc \in Settled, StateFresh
  PROVE  run = state /\ cur.leaf = leaf
BY DEF Sure, Driven, Base, Coherent, Settled, StateFresh, run

\* A transition that leaves everything in place.
LEMMA TransitionRoots ==
  ASSUME Sure, NEW next, NEW tx, NEW effect, Transition(next, tx, effect),
         StateFresh => Roots(next, tx)
  PROVE  Rooted'
<1>1. CASE ~StateFresh
  BY <1>1 DEF Transition, durable, Sure, Rooted, Metadata, Registers, PlacedOrPending, Placed, Waiting
<1>2. CASE StateFresh
  <2>1. /\ state' = next /\ entries' = Extend(entries, tx.entries) /\ leaf' = tx.leaf
        /\ toolArgs' = tx.args /\ prep' = tx.prep /\ usage' = usage \cup tx.usage
        /\ pending' = Without(pending, tx.consumed) /\ meta' = meta /\ lastResult' = lastResult
    BY <1>2 DEF Transition, CommitTransition, Write
  <2>2. Roots(next, tx)
    BY <1>2
  <2>3. Conversation(entries, leaf)' /\ RootedState(state, entries, toolArgs, DOMAIN prep, leaf)'
    BY <2>1, <2>2 DEF Roots, Grows
  <2>4. Keeps(entries, entries') /\ DOMAIN entries' = DOMAIN entries \cup DOMAIN tx.entries
    BY <2>1, <2>2, ExtendKeeps DEF Roots, Grows
  <2>5. Metadata'
    <3>1. ASSUME NEW i \in DOMAIN meta.prompts
          PROVE  PlacedOrPending(meta.prompts[i])'
      BY <2>1, <2>2, <2>4 DEF Sure, Rooted, Metadata, PlacedOrPending, Placed, Waiting, Without,
         Roots, Grows
    <3> QED
      BY <2>1, <2>4, <3>1 DEF Sure, Rooted, Metadata, Named
  <2>6. Registers'
    BY <2>1, <2>2 DEF Sure, Rooted, Registers, Roots, Grows, Without
  <2> QED
    BY <2>3, <2>5, <2>6 DEF Rooted
<1> QED
  BY <1>1, <1>2

\* The end of an operation that leaves everything in place.
LEMMA TerminalRoots ==
  ASSUME Sure, NEW outcome \in Outcomes, NEW tx, Sound(tx), NEW label, Terminal(outcome, tx, label),
         StateFresh => Grows(tx)
  PROVE  Rooted'
<1>1. CASE ~(StateFresh /\ LaneFresh)
  BY <1>1 DEF Terminal, durable, Sure, Rooted, Metadata, Registers, PlacedOrPending, Placed, Waiting
<1>2. CASE StateFresh /\ LaneFresh
  <2>1. /\ state' = NoOperation /\ entries' = Extend(entries, tx.entries) /\ leaf' = tx.leaf
        /\ toolArgs' = {} /\ prep' = <<>> /\ usage' = usage \cup tx.usage
        /\ pending' = Without(pending, Owned(cur.state)) /\ meta' = NoMeta
        /\ lastResult'.outcome = outcome
    BY <1>2 DEF Terminal, CommitTerminal, Write, Sound
  <2>2. Conversation(entries, leaf)'
    BY <1>2, <2>1 DEF Grows
  <2>3. RootedState(state, entries, toolArgs, DOMAIN prep, leaf)'
    BY <2>1 DEF RootedState, NoOperation
  <2>4. Metadata'
    <3>1. <<>> \in Seq(Id)
      OBVIOUS
    <3> QED
      BY <2>1, <3>1 DEF Metadata, NoMeta, Named, Id, NoId
  <2>5. Registers'
    BY <1>2, <2>1 DEF Sure, Rooted, Registers, Grows, Without
  <2> QED
    BY <2>2, <2>3, <2>4, <2>5 DEF Rooted
<1> QED
  BY <1>1, <1>2

\* A transaction that writes no entry.
Bare(tx) ==
  /\ DOMAIN tx.entries = {} /\ tx.consumed = {} /\ tx.leaf = leaf
  /\ tx.usage \subseteq Id /\ tx.args \subseteq Id \X Nat
  /\ DOMAIN prep \subseteq DOMAIN tx.prep /\ \A t \in DOMAIN tx.prep : tx.prep[t] \in Id

\* It leaves the conversation as it is.
LEMMA BareGrows ==
  ASSUME Sure, NEW tx, DOMAIN tx.entries = {}, tx.consumed = {}, Named(entries, tx.leaf),
         tx.usage \subseteq Id, tx.args \subseteq Id \X Nat, \A t \in DOMAIN tx.prep : tx.prep[t] \in Id
  PROVE  Grows(tx) /\ Keeps(entries, Extend(entries, tx.entries))
<1> DEFINE F == Extend(entries, tx.entries)
<1>1. Keeps(entries, F)
  BY ExtendKeeps
<1>2. Named(F, tx.leaf)
  BY <1>1 DEF Named, Keeps
<1>3. Conversation(F, tx.leaf)
  <2> HIDE DEF F
  <2>1. F = Extend(entries, tx.entries) /\ DOMAIN tx.entries \cap DOMAIN entries = {}
    BY DEF F
  <2> QED
    BY <1>2, <2>1, ConversationExtended DEF Sure, Rooted
<1> QED
  BY <1>1, <1>3 DEF Grows

\* The transaction that writes nothing more.
LEMMA NoWritesBare ==
  ASSUME Sure
  PROVE  /\ Bare(NoWrites) /\ Sound(NoWrites) /\ leaf \in Id /\ fresh \in Nat /\ fresh # 0
         /\ Named(entries, leaf) /\ fresh \notin DOMAIN entries /\ fresh \in Id
<1>1. leaf \in Id /\ fresh \in Nat /\ fresh # 0
  BY DEF Sure, Driven, Base, Control
<1>2. fresh \notin DOMAIN entries
  BY <1>1 DEF Sure, Housed
<1>3. Bare(NoWrites) /\ Named(entries, leaf)
  BY DEF Sure, Rooted, Registers, Conversation, Bare, NoWrites
<1> QED
  BY <1>1, <1>2, <1>3, NoWritesSound DEF Id

\* A run takes up a phase that is no batch, and writes no entry.
LEMMA RephaseRoots ==
  ASSUME Sure, pc \in Settled, run \in Run, NEW ph \in Phase, ph.p # "tools", NEW tx, Bare(tx),
         NEW effect, Transition(WithPhase(ph), tx, effect),
         run = state /\ cur.leaf = leaf =>
           RootedPhase(ph, run.writes, entries, toolArgs, DOMAIN tx.prep, leaf)
  PROVE  Rooted'
<1>1. ASSUME StateFresh
      PROVE  Roots(WithPhase(ph), tx)
  <2>1. run = state /\ cur.leaf = leaf
    BY <1>1, FreshSnapshot
  <2>2. /\ WithPhase(ph).kind = "run" /\ WithPhase(ph).phase = ph
        /\ WithPhase(ph).latest = run.latest /\ WithPhase(ph).writes = run.writes
    BY PhaseUpdate DEF WithPhase
  <2>3. run.kind = "run"
    BY DEF Run
  <2>4. Named(entries, run.latest) /\ Named(entries, leaf)
    BY <2>1, <2>3 DEF Sure, Rooted, RootedState, Conversation
  <2> DEFINE F == Extend(entries, tx.entries)
  <2>5. Grows(tx) /\ Keeps(entries, F)
    BY <2>4, BareGrows DEF Bare
  <2> HIDE DEF F
  <2>6. RootedPhase(ph, run.writes, F, tx.args, DOMAIN tx.prep, tx.leaf)
    BY <2>1, <2>5, PhaseKept
  <2>7. Named(F, run.latest)
    BY <2>4, <2>5 DEF Named, Keeps
  <2>8. RootedState(WithPhase(ph), F, tx.args, DOMAIN tx.prep, tx.leaf)
    BY <2>2, <2>6, <2>7 DEF RootedState
  <2> QED
    BY <2>5, <2>8 DEF Roots, F
<1> QED
  BY <1>1, TransitionRoots

\* An operation ends and writes no entry.
LEMMA PlainEndRoots ==
  ASSUME Sure, NEW outcome \in Outcomes, NEW to \in Id, NEW label, StateFresh => Named(entries, to),
         Terminal(outcome, [NoWrites EXCEPT !.leaf = to], label)
  PROVE  Rooted'
<1> DEFINE tx == [NoWrites EXCEPT !.leaf = to]
<1>1. Bare(NoWrites) /\ Sound(NoWrites)
  BY NoWritesBare
<1>2. /\ tx.entries = NoWrites.entries /\ tx.consumed = NoWrites.consumed /\ tx.leaf = to
      /\ tx.usage = NoWrites.usage /\ tx.args = NoWrites.args /\ tx.prep = NoWrites.prep
      /\ Sound(tx)
  BY <1>1 DEF NoWrites, Sound
<1> HIDE DEF tx
<1>3. Named(entries, to) => Grows(tx)
  BY <1>1, <1>2, BareGrows DEF Bare
<1> QED
  BY <1>2, <1>3, TerminalRoots DEF tx

\* An operation ends where it is.
LEMMA StayingEndRoots ==
  ASSUME Sure, NEW outcome \in Outcomes, NEW label, Terminal(outcome, NoWrites, label)
  PROVE  Rooted'
<1>1. Bare(NoWrites) /\ Sound(NoWrites) /\ Named(entries, leaf)
  BY NoWritesBare
<1>2. Grows(NoWrites)
  BY <1>1, BareGrows DEF Bare
<1> QED
  BY <1>1, <1>2, TerminalRoots

(***************************************************************************)
(* Checkpoints, failed runs, navigation.                                   *)
(***************************************************************************)
\* What is queued waits, and is no entry yet.
LEMMA QueuedWaits ==
  ASSUME Sure, state.kind = "run", NEW q \in {"steer", "followUp", "writes", "drained"},
         NEW i \in DOMAIN state[q]
  PROVE  state[q][i] \in DOMAIN pending /\ state[q][i] \notin DOMAIN entries
<1>1. q \in Lines /\ Waits(state, lane.nextRun)[q] = state[q]
  BY DEF Lines, Waits
<1>2. Seats(Waits(state, lane.nextRun), DOMAIN pending) /\ DOMAIN pending \cap DOMAIN entries = {}
  BY DEF Sure, Housed
<1>3. state[q][i] \in DOMAIN pending
  BY <1>1, <1>2 DEF Seats
<1> QED
  BY <1>2, <1>3

\* What placing inputs writes: an entry for each, the last of them the leaf.
LEMMA PlacementGrows ==
  ASSUME Sure, cur.leaf \in Id, NEW ids \in Seq(Id), ids # <<>>,
         \A i \in DOMAIN ids : ids[i] \in DOMAIN pending /\ ids[i] \notin DOMAIN entries
  PROVE  LET tx == Placement(ids) IN
         /\ Grows(tx) /\ DOMAIN tx.entries = Range(ids) /\ tx.leaf = ids[Len(ids)]
         /\ tx.prep = prep /\ ids[Len(ids)] \in Range(ids)
<1> DEFINE tx == Placement(ids)
<1>1. /\ tx.consumed = Range(ids) /\ DOMAIN tx.entries = Range(ids) /\ tx.leaf = ids[Len(ids)]
      /\ tx.prep = prep /\ tx.args = toolArgs /\ tx.usage = {}
  BY DEF Placement, NoWrites
<1>2. Len(ids) \in DOMAIN ids /\ ids[Len(ids)] \in Range(ids) /\ DOMAIN ids = 1 .. Len(ids)
  BY DEF Range
<1>3. ASSUME NEW id \in Range(ids)
      PROVE  tx.entries[id] \in Entry /\ tx.entries[id].type # "toolResult"
  <2> DEFINE at == CHOOSE i \in DOMAIN ids : ids[i] = id
             up == IF at = 1 THEN cur.leaf ELSE ids[at - 1]
  <2>1. tx.entries[id] = UserEntry(pending[id], up)
    BY <1>3 DEF Placement, NoWrites
  <2>2. \E i \in DOMAIN ids : ids[i] = id
    BY <1>3 DEF Range
  <2>3. at \in DOMAIN ids
    BY <2>2
  <2> HIDE DEF at
  <2>4. at = 1 \/ at - 1 \in DOMAIN ids
    BY <1>2, <2>3
  <2>5. up \in Id
    BY <2>4
  <2>6. id \in DOMAIN pending
    BY <2>2
  <2>7. pending[id] \in InputKinds
    BY <2>6 DEF Sure, Rooted, Registers
  <2> HIDE DEF up, tx
  <2>8. UserEntry(pending[id], up) \in Entry
    BY <2>5, <2>7 DEF UserEntry, Entry
  <2> QED
    BY <2>1, <2>7, <2>8 DEF UserEntry, InputKinds
<1> HIDE DEF tx
<1>4. DOMAIN tx.entries \cap DOMAIN entries = {}
  BY <1>1 DEF Range
<1> DEFINE F == Extend(entries, tx.entries)
<1>7. /\ DOMAIN F = DOMAIN entries \cup DOMAIN tx.entries
      /\ \A id \in DOMAIN tx.entries : F[id] = tx.entries[id]
  BY <1>4, ExtendKeeps
<1>5. /\ DOMAIN F = DOMAIN entries \cup Range(ids) /\ \A id \in Range(ids) : F[id] = tx.entries[id]
  <2> HIDE DEF F
  <2> QED
    BY <1>1, <1>7
<1>6. Conversation(F, tx.leaf)
  <2>1. Named(F, tx.leaf)
    BY <1>1, <1>2, <1>5 DEF Named
  <2>2. \A id \in DOMAIN tx.entries : tx.entries[id] \in Entry /\ Follows(F, id)
    BY <1>1, <1>3, <1>5 DEF Follows
  <2>3. F = Extend(entries, tx.entries)
    OBVIOUS
  <2> HIDE DEF F
  <2> QED
    BY <1>4, <2>1, <2>2, <2>3, ConversationExtended DEF Sure, Rooted
<1> QED
  BY <1>1, <1>2, <1>4, <1>6 DEF Grows, tx, Sure, Rooted, Registers

\* Draining a queue, when nothing that the phase names is left behind.
LEMMA InboxRoots ==
  ASSUME Sure, pc \in Settled, run \in Run, run.phase.p \in {"checkpoint", "failure"}, cur.leaf \in Id,
         NEW q \in QueueNames, NEW ids \in Seq(Id), Len(ids) \in 1 .. Len(run[q]),
         \A j \in 1 .. Len(ids) : ids[j] = run[q][j], ApplyInbox(q, ids),
         run = state /\ run.phase.p = "checkpoint" =>
           run.phase.trigger \in DOMAIN entries \cup Range(ids)
  PROVE  Rooted'
<1> DEFINE rest == Remaining(run[q], ids)
           tx == Placement(ids)
<1>1. run[q] \in Seq(Id) /\ run.phase \in Phase /\ run.kind = "run"
  BY DEF Run, QueueNames
<1>2. rest \in Seq(Id)
  BY <1>1 DEF Remaining
<1>3. PICK ph : /\ Transition([run EXCEPT !.phase = ph, ![q] = rest], tx, "plan")
                /\ \/ ph = SkippingInbox(NeedAssistant(ids[Len(ids)]))
                   \/ ph = SkippingInbox(run.phase) /\ run.phase.p = "checkpoint"
                   \/ ph = run.phase /\ run.phase.p = "failure"
  BY DEF ApplyInbox
<1>8. ids[Len(ids)] \in Id
  OBVIOUS
<1>4. ph \in Phase
  BY <1>1, <1>3, <1>8, PhaseShape DEF SkippingInbox, NeedAssistant, Checkpoint, Phase, Continuations,
    Id, NoId
<1> DEFINE next == Requeued(run, ph, q, rest)
<1>5. next.kind = "run" /\ next.phase = ph /\ next.latest = run.latest
  <2> HIDE DEF rest
  <2>1. next.kind = "run" /\ next.phase = ph
    BY <1>2, <1>4, QueueUpdate
  <2>2. next.latest = run.latest
    BY DEF Requeued, Run, QueueNames
  <2> QED
    BY <2>1, <2>2
<1> HIDE DEF next, tx
<1>6. ASSUME StateFresh
      PROVE  Roots(next, tx)
  <2>1. run = state
    BY <1>6, FreshSnapshot
  <2>2. ASSUME NEW i \in DOMAIN ids
        PROVE  ids[i] \in DOMAIN pending /\ ids[i] \notin DOMAIN entries
    <3>1. i \in 1 .. Len(ids) /\ i \in DOMAIN state[q]
      BY <1>1, <2>1
    <3> QED
      BY <1>1, <2>1, <3>1, QueuedWaits DEF QueueNames
  <2>3. /\ Grows(tx) /\ DOMAIN tx.entries = Range(ids) /\ tx.leaf = ids[Len(ids)]
        /\ tx.prep = prep /\ ids[Len(ids)] \in Range(ids)
    <3>1. ids # <<>>
      BY DEF ApplyInbox
    <3> QED
      BY <2>2, <3>1, PlacementGrows DEF tx
  <2> DEFINE F == Extend(entries, tx.entries)
  <2>8. Keeps(entries, F) /\ DOMAIN F = DOMAIN entries \cup DOMAIN tx.entries
    BY <2>3, ExtendKeeps DEF Grows
  <2> HIDE DEF F
  <2>4. Keeps(entries, F) /\ DOMAIN F = DOMAIN entries \cup Range(ids)
    BY <2>3, <2>8
  <2>5. /\ Named(entries, run.latest)
        /\ RootedPhase(run.phase, run.writes, entries, toolArgs, DOMAIN prep, leaf)
    BY <1>1, <2>1 DEF Sure, Rooted, RootedState
  <2>6. RootedPhase(ph, next.writes, F, tx.args, DOMAIN tx.prep, tx.leaf)
    <3>1. CASE ph = SkippingInbox(NeedAssistant(ids[Len(ids)]))
      <4>1. ph.p = "checkpoint" /\ ph.trigger = ids[Len(ids)]
        BY <3>1 DEF SkippingInbox, NeedAssistant
      <4> QED
        BY <2>3, <2>4, <4>1 DEF RootedPhase
    <3>2. CASE ph = SkippingInbox(run.phase) /\ run.phase.p = "checkpoint"
      <4>1. ph.p = "checkpoint" /\ ph.trigger = run.phase.trigger
        BY <1>1, <3>2, PhaseShape DEF SkippingInbox, Checkpoint
      <4> QED
        BY <2>1, <2>4, <3>2, <4>1 DEF RootedPhase
    <3>3. CASE ph = run.phase /\ run.phase.p = "failure"
      <4>1. Named(F, ph.provenance)
        BY <2>4, <2>5, <3>3 DEF RootedPhase, Named
      <4> QED
        BY <3>3, <4>1 DEF RootedPhase
    <3> QED
      BY <1>3, <3>1, <3>2, <3>3
  <2>7. RootedState(next, F, tx.args, DOMAIN tx.prep, tx.leaf)
    BY <1>5, <2>4, <2>5, <2>6 DEF RootedState, Named
  <2> QED
    BY <2>3, <2>7 DEF Roots, F
<1>7. Transition(next, tx, "plan")
  BY <1>3 DEF next, tx, Requeued
<1> QED
  BY <1>6, <1>7, TransitionRoots

\* Past the inbox, the trigger of a checkpoint is an entry.
LEMMA TriggerPlaced ==
  ASSUME Sure, pc \in Settled, run \in Run, run = state, run.phase.p = "checkpoint",
         ~WritesDue
  PROVE  run.phase.trigger \in DOMAIN entries
<1>1. RootedPhase(run.phase, run.writes, entries, toolArgs, DOMAIN prep, leaf)
  BY DEF Sure, Rooted, RootedState, Run
<1>2. CASE run.phase.trigger \in Range(run.writes) /\ ~run.phase.skip
  <2>1. run.writes # <<>>
    BY <1>2 DEF Range
  <2> QED
    BY <1>2, <2>1 DEF WritesDue
<1> QED
  BY <1>1, <1>2 DEF RootedPhase

\* The steps of a checkpoint leave everything in place.
LEMMA CheckpointRoots ==
  ASSUME Sure,
         \/ CheckpointWrites \/ CheckpointAbort \/ CheckpointSteer
         \/ \E over \in BOOLEAN : CheckThreshold(over)
         \/ BeginGeneration \/ CheckpointFollowUp \/ RunEndHook \/ Complete
  PROVE  Rooted'
<1>1. Planning("checkpoint") /\ Base
  BY DEF CheckpointWrites, CheckpointAbort, CheckpointSteer, CheckThreshold, BeginGeneration,
    CheckpointFollowUp, RunEndHook, Complete, MayEnd, Sure, Driven
<1>2. /\ pc \in Settled /\ run \in Run /\ run.phase \in Checkpoint /\ run.phase.p = "checkpoint"
      /\ run.kind = "run" /\ cur.leaf \in Id /\ run.phase \in Phase
  BY <1>1, PlanningRun, PhaseShape
<1>3. run.writes \in Seq(Id) /\ run.steer \in Seq(Id) /\ run.followUp \in Seq(Id)
  BY <1>2 DEF Run
<1>4. run = state /\ ~WritesDue => run.phase.trigger \in DOMAIN entries
  BY <1>2, TriggerPlaced
<1>5. /\ Bare(NoWrites) /\ leaf \in Id /\ fresh \in Id /\ fresh \notin DOMAIN entries
  BY NoWritesBare
<1>6. CASE CheckpointWrites
  <2>1. Len(run.writes) \in 1 .. Len(run.writes) /\ ApplyInbox("writes", run.writes)
    BY <1>3, <1>6 DEF CheckpointWrites, WritesDue
  <2>2. run = state => RootedPhase(run.phase, run.writes, entries, toolArgs, DOMAIN prep, leaf)
    BY <1>2 DEF Sure, Rooted, RootedState
  <2>3. run = state => run.phase.trigger \in DOMAIN entries \cup Range(run.writes)
    BY <1>2, <2>2 DEF RootedPhase
  <2> QED
    BY <1>2, <1>3, <2>1, <2>3, InboxRoots DEF QueueNames
<1>7. CASE CheckpointSteer
  <2> DEFINE ids == Take(SteeringMode, run.steer)
  <2>1. ids # <<>> /\ ApplyInbox("steer", ids) /\ ~WritesDue
    BY <1>7 DEF CheckpointSteer, ApplyInbox
  <2>2. /\ ids \in Seq(Id) /\ Len(ids) \in 1 .. Len(run.steer)
        /\ \A j \in 1 .. Len(ids) : ids[j] = run.steer[j]
    BY <1>3, <2>1, TakesHead
  <2> HIDE DEF ids
  <2> QED
    BY <1>2, <1>4, <2>1, <2>2, InboxRoots DEF QueueNames
<1>8. CASE CheckpointFollowUp
  <2> DEFINE ids == Take(FollowUpMode, run.followUp)
  <2>1. ids # <<>> /\ ApplyInbox("followUp", ids) /\ ~WritesDue
    BY <1>8 DEF CheckpointFollowUp, ApplyInbox, MayEnd, Drained
  <2>2. /\ ids \in Seq(Id) /\ Len(ids) \in 1 .. Len(run.followUp)
        /\ \A j \in 1 .. Len(ids) : ids[j] = run.followUp[j]
    BY <1>3, <2>1, TakesHead
  <2> HIDE DEF ids
  <2> QED
    BY <1>2, <1>4, <2>1, <2>2, InboxRoots DEF QueueNames
<1>9. CASE CheckpointAbort \/ Complete
  BY <1>9, StayingEndRoots DEF CheckpointAbort, AbortFinish, Complete, Outcomes
<1>10. CASE RunEndHook
  <2> DEFINE e == UserEntry("message", cur.leaf)
             ph == SkippingInbox(NeedAssistant(fresh))
             tx == [NoWrites EXCEPT !.entries = [id \in {fresh} |-> e], !.leaf = fresh,
                                    !.minted = 1]
  <2>1. Transition(WithPhase(ph), tx, "plan")
    BY <1>10 DEF RunEndHook
  <2>2. ph \in Phase /\ ph.p = "checkpoint" /\ ph.trigger = fresh
    BY <1>5 DEF SkippingInbox, NeedAssistant, Phase, Checkpoint, Continuations, Id, NoId
  <2>3. /\ DOMAIN tx.entries = {fresh} /\ tx.entries[fresh] = e /\ tx.leaf = fresh
        /\ tx.consumed = {} /\ tx.usage = {} /\ tx.args = toolArgs /\ tx.prep = prep
    BY DEF NoWrites
  <2>4. e \in Entry /\ e.type # "toolResult"
    BY <1>2 DEF Entry, UserEntry, InputKinds
  <2> HIDE DEF ph, tx, e
  <2>5. /\ WithPhase(ph).kind = "run" /\ WithPhase(ph).phase = ph /\ WithPhase(ph).latest = run.latest
    BY <1>2, <2>2, PhaseUpdate DEF WithPhase
  <2>6. ASSUME StateFresh
        PROVE  Roots(WithPhase(ph), tx)
    <3> DEFINE F == Extend(entries, tx.entries)
    <3>1. Conversation(F, fresh) /\ Keeps(entries, F) /\ DOMAIN F = DOMAIN entries \cup {fresh}
      <4>1. Conversation(entries, leaf) /\ F = Extend(entries, tx.entries)
        BY DEF Sure, Rooted
      <4>2. Belongs(entries, e)
        BY <2>4 DEF Belongs
      <4> HIDE DEF F
      <4> QED
        BY <1>5, <2>3, <2>4, <4>1, <4>2, OneEntry
    <3> HIDE DEF F
    <3>2. Named(F, run.latest)
      <4>1. run = state
        BY <1>2, <2>6, FreshSnapshot
      <4> QED
        BY <1>2, <3>1, <4>1 DEF Sure, Rooted, RootedState, Named
    <3>3. RootedState(WithPhase(ph), F, tx.args, DOMAIN tx.prep, tx.leaf)
      BY <2>2, <2>5, <3>1, <3>2 DEF RootedState, RootedPhase
    <3>4. Grows(tx)
      BY <1>5, <2>3, <3>1 DEF Grows, Sure, Rooted, Registers, F
    <3> QED
      BY <3>3, <3>4 DEF Roots, F
  <2> QED
    BY <2>1, <2>6, TransitionRoots
<1>11. ASSUME NEW over \in BOOLEAN, CheckThreshold(over)
       PROVE  Rooted'
  <2> DEFINE checked == [run.phase EXCEPT !.checked = run.phase.trigger]
             compaction == [p |-> "compaction", reason |-> "threshold",
                            structural |-> Deciding(fresh), resume |-> checked]
             tx == [NoWrites EXCEPT !.prep = Extend(prep, [t \in {fresh} |-> cur.leaf]),
                                    !.minted = 1]
  <2>1. /\ checked \in Checkpoint /\ checked.p = "checkpoint" /\ checked.trigger = run.phase.trigger
    BY <1>2 DEF Checkpoint
  <2>2. ~WritesDue
    BY <1>11 DEF CheckThreshold, Drained
  <2>3. CASE over
    <3>1. Transition(WithPhase(compaction), tx, "plan")
      BY <1>11, <2>3 DEF CheckThreshold
    <3>2. /\ compaction \in Phase /\ compaction.p = "compaction" /\ compaction.resume = checked
          /\ compaction.structural.task = fresh
      BY <1>5, <2>1 DEF Phase, InRunCompaction, Deciding, Structural, Id, NoId
    <3>3. Bare(tx) /\ fresh \in DOMAIN tx.prep
      BY <1>2, <1>5 DEF Bare, NoWrites, Extend
    <3> HIDE DEF compaction, tx, checked
    <3>4. run = state => RootedPhase(compaction, run.writes, entries, toolArgs, DOMAIN tx.prep, leaf)
      BY <1>4, <2>1, <2>2, <3>2, <3>3 DEF RootedPhase
    <3> QED
      BY <1>2, <3>1, <3>2, <3>3, <3>4, RephaseRoots
  <2>4. CASE ~over
    <3>1. Transition(WithPhase(checked), NoWrites, "plan")
      BY <1>11, <2>4 DEF CheckThreshold
    <3> HIDE DEF checked
    <3>2. checked \in Phase
      BY <2>1 DEF Phase
    <3>3. run = state => RootedPhase(checked, run.writes, entries, toolArgs, DOMAIN NoWrites.prep, leaf)
      BY <1>4, <2>1, <2>2 DEF RootedPhase
    <3> QED
      BY <1>2, <1>5, <2>1, <3>1, <3>2, <3>3, RephaseRoots
  <2> QED
    BY <2>3, <2>4
<1>12. CASE BeginGeneration
  <2> DEFINE g == GenerationReady(fresh, run.phase)
             tx == [NoWrites EXCEPT !.minted = 1]
  <2>1. Transition(WithPhase(g), tx, "plan") /\ ~WritesDue
    BY <1>12 DEF BeginGeneration, Drained
  <2>2. g \in Phase /\ g.p = "assistant" /\ g.trigger = run.phase.trigger
    BY <1>2, <1>5 DEF GenerationReady, Phase, Generation, Checkpoint, GenStatus, Id, NoId
  <2>3. Bare(tx)
    BY <1>5 DEF Bare, NoWrites
  <2> HIDE DEF g, tx
  <2>4. run = state => RootedPhase(g, run.writes, entries, toolArgs, DOMAIN tx.prep, leaf)
    BY <1>4, <2>1, <2>2 DEF RootedPhase
  <2> QED
    BY <1>2, <2>1, <2>2, <2>3, <2>4, RephaseRoots
<1> QED
  BY <1>6, <1>7, <1>8, <1>9, <1>10, <1>11, <1>12

\* The steps of a failed run leave everything in place.
LEMMA FailureRoots ==
  ASSUME Sure, FailureInbox \/ FailureFinish
  PROVE  Rooted'
<1>1. Planning("failure") /\ Base
  BY DEF FailureInbox, FailureFinish, Sure, Driven
<1>2. pc \in Settled /\ run \in Run /\ run.phase.p = "failure" /\ cur.leaf \in Id
  BY <1>1, PlanningRun
<1>3. run.writes \in Seq(Id) /\ run.steer \in Seq(Id) /\ run.followUp \in Seq(Id)
  BY <1>2 DEF Run
<1>4. CASE FailureInbox /\ ApplyInbox("writes", run.writes)
  <2>1. Len(run.writes) \in 1 .. Len(run.writes)
    BY <1>3, <1>4 DEF ApplyInbox
  <2> QED
    BY <1>2, <1>3, <1>4, <2>1, InboxRoots DEF QueueNames
<1>5. CASE FailureInbox /\ ApplyInbox("steer", Take(SteeringMode, run.steer))
  <2> DEFINE ids == Take(SteeringMode, run.steer)
  <2>1. ids # <<>> /\ ApplyInbox("steer", ids)
    BY <1>5 DEF ApplyInbox
  <2>2. /\ ids \in Seq(Id) /\ Len(ids) \in 1 .. Len(run.steer)
        /\ \A j \in 1 .. Len(ids) : ids[j] = run.steer[j]
    BY <1>3, <2>1, TakesHead
  <2> HIDE DEF ids
  <2> QED
    BY <1>2, <2>1, <2>2, InboxRoots DEF QueueNames
<1>6. CASE FailureInbox /\ ApplyInbox("followUp", Take(FollowUpMode, run.followUp))
  <2> DEFINE ids == Take(FollowUpMode, run.followUp)
  <2>1. ids # <<>> /\ ApplyInbox("followUp", ids)
    BY <1>6 DEF ApplyInbox
  <2>2. /\ ids \in Seq(Id) /\ Len(ids) \in 1 .. Len(run.followUp)
        /\ \A j \in 1 .. Len(ids) : ids[j] = run.followUp[j]
    BY <1>3, <2>1, TakesHead
  <2> HIDE DEF ids
  <2> QED
    BY <1>2, <2>1, <2>2, InboxRoots DEF QueueNames
<1>7. CASE FailureFinish
  BY <1>7, StayingEndRoots DEF FailureFinish, AbortFinish, Outcomes
<1> QED
  BY <1>4, <1>5, <1>6, <1>7 DEF FailureInbox

\* A navigation moves to an entry.
LEMMA NavigationRoots ==
  ASSUME Sure, NavigationStep
  PROVE  Rooted'
<1>1. pc = "plan" /\ run.kind = "navigation"
  BY DEF NavigationStep
<1>2. pc \in Settled /\ run \in OperationState
  BY <1>1 DEF Sure, Driven, Base, Coherent, Snapshot, Working, Settled, run
<1>3. run.target \in Id
  BY <1>1, <1>2, StateShape DEF Navigation
<1>4. CASE IsCancelled(run)
  BY <1>4, StayingEndRoots DEF NavigationStep, AbortFinish, Outcomes
<1>5. CASE ~IsCancelled(run)
  <2>1. PICK label : Terminal("completed", [NoWrites EXCEPT !.leaf = run.target], label)
    BY <1>5 DEF NavigationStep
  <2>2. StateFresh => Named(entries, run.target)
    BY <1>1, <1>2, FreshSnapshot DEF Sure, Rooted, RootedState
  <2> QED
    BY <1>3, <2>1, <2>2, PlainEndRoots DEF Outcomes
<1> QED
  BY <1>4, <1>5

(***************************************************************************)
(* Generations.                                                            *)
(***************************************************************************)
\* A run moves to another phase, with entries that keep the rest in place.
LEMMA MovedRoots ==
  ASSUME Sure, run \in Run, NEW ph \in Phase, NEW latest \in Id, NEW tx, NEW effect,
         Transition(Moved(ph, latest), tx, effect),
         NEW F, F = Extend(entries, tx.entries),
         StateFresh => /\ Grows(tx) /\ Named(F, latest)
                       /\ RootedPhase(ph, run.writes, F, tx.args, DOMAIN tx.prep, tx.leaf)
  PROVE  Rooted'
<1>1. /\ Moved(ph, latest).kind = "run" /\ Moved(ph, latest).phase = ph
      /\ Moved(ph, latest).latest = latest /\ Moved(ph, latest).writes = run.writes
  BY DEF Moved, Run
<1>2. StateFresh => Roots(Moved(ph, latest), tx)
  BY <1>1 DEF Roots, RootedState
<1> QED
  BY <1>2, TransitionRoots

\* What a settled response names is there with it.
LEMMA SettledRooted ==
  ASSUME NEW g \in Generation, NEW resp \in Response, NEW stop, NEW cancelled \in BOOLEAN,
         NEW prepared \in BOOLEAN, fresh \in Id, NEW F, NEW parent,
         g.response \in DOMAIN F, F[g.response] = AssistantEntry(stop, resp.calls, parent),
         g.trigger \in DOMAIN F, NEW ph, ph = SettledPhase(g, resp, stop, cancelled, prepared),
         NEW tasks, ph.p = "compaction" => fresh \in tasks, NEW writes, NEW args
  PROVE  RootedPhase(ph, writes, F, args, tasks, g.response)
<1> DEFINE batched == [p |-> "tools", assistant |-> g.response, step |-> g.step,
                       calls |-> [i \in DOMAIN resp.calls |-> Planned(fresh + i - 1)]]
           overflown == [p |-> "compaction", reason |-> "overflow", structural |-> Deciding(fresh),
                         resume |-> [p |-> "checkpoint", cont |-> "need_overflowed",
                                     trigger |-> g.trigger, checked |-> g.trigger, skip |-> FALSE]]
           waits == [g EXCEPT !.gen = "wait", !.attempt = @ + 1, !.response = NoId, !.usage = NoId]
           fails == [p |-> "failure", provenance |-> g.response]
           finishes == MayFinish(g.response, TRUE)
<1>1. /\ g.response \in Id /\ g.step \in Id /\ resp.calls \in Seq(ToolNames)
  BY DEF Generation, Response
<1>2. ph \in {finishes, fails, overflown, waits, batched}
  BY DEF SettledPhase
<1>3. finishes.p = "checkpoint" /\ finishes.trigger = g.response
  BY DEF MayFinish
<1>4. fails.p = "failure" /\ fails.provenance = g.response
  OBVIOUS
<1>5. /\ overflown.p = "compaction" /\ overflown.resume.trigger = g.trigger
      /\ overflown.structural.task = fresh
  BY DEF Deciding
<1>6. waits.p = "assistant" /\ waits.trigger = g.trigger
  BY DEF Generation
<1>7. /\ batched.p = "tools" /\ batched.assistant = g.response /\ batched.calls \in Seq(ToolCall)
      /\ Len(batched.calls) = Len(resp.calls)
      /\ \A i \in DOMAIN batched.calls : batched.calls[i] = Planned(fresh + i - 1)
  BY ZenonT(60), <1>1, PlannedBatch
<1> HIDE DEF finishes, fails, overflown, waits, batched
<1>8. BatchRooted(batched, F, args, g.response)
  <2>1. /\ F[g.response].type = "assistant" /\ F[g.response].calls = resp.calls
    BY DEF AssistantEntry
  <2>5. \A id : Planned(id).status = "planned"
    BY DEF Planned
  <2>2. \A i \in DOMAIN batched.calls : batched.calls[i].status = "planned"
    BY <1>7, <2>5
  <2>3. ASSUME NEW i \in DOMAIN batched.calls
        PROVE  i = 1 \/ i - 1 \in DOMAIN batched.calls
    BY <1>7
  <2>4. ASSUME NEW i \in DOMAIN batched.calls
        PROVE  CallRooted(batched, i, F, args, g.response)
    BY <1>7, <2>2, <2>3 DEF CallRooted
  <2> QED
    BY <1>7, <2>1, <2>4 DEF BatchRooted
<1>9. CASE ph \in {finishes, fails, overflown, waits}
  BY <1>3, <1>4, <1>5, <1>6, <1>9 DEF RootedPhase, Named
<1>10. CASE ph = batched
  BY <1>7, <1>8, <1>10 DEF RootedPhase
<1> QED
  BY <1>2, <1>9, <1>10

\* settle_assistant() leaves everything in place.
LEMMA SettleRoots ==
  ASSUME Sure, pc \in Settled, run \in Run, run.phase \in Generation, run.phase.gen = "pending",
         NEW resp \in Response, NEW prepared \in BOOLEAN, Settle(resp, prepared)
  PROVE  Rooted'
<1> DEFINE g == run.phase
           cancelled == IsCancelled(run) \/ signal
           stop == IF cancelled THEN "aborted"
                   ELSE IF resp.stop = "aborted" THEN "error" ELSE resp.stop
           ph == SettledPhase(g, resp, stop, cancelled, prepared)
           e == AssistantEntry(stop, resp.calls, cur.leaf)
           tx == [NoWrites EXCEPT
                    !.entries = [id \in {g.response} |-> e],
                    !.leaf = g.response,
                    !.usage = {g.usage},
                    !.prep = IF ph.p = "compaction"
                             THEN Extend(prep, [t \in {fresh} |-> cur.leaf]) ELSE prep,
                    !.minted = Len(resp.calls) + 1]
<1>1. Transition(Moved(ph, g.response), tx, "plan")
  BY DEF Settle, Moved
<1>2. /\ run.kind = "run" /\ g.p = "assistant" /\ g.response \in Id /\ g.usage \in Id
      /\ resp.calls \in Seq(ToolNames) /\ resp.stop \in StopReasons /\ g \in Generation
  BY DEF Run, Generation, Response
<1>3. cur.leaf \in Id /\ fresh \in Id
  BY DEF Sure, Driven, Base, Control, Coherent, Settled, Snapshot, Id
<1>4. e \in Entry /\ e.type # "toolResult"
  <2>1. stop \in StopReasons
    BY <1>2 DEF StopReasons
  <2> HIDE DEF stop
  <2> QED
    BY <1>2, <1>3, <2>1 DEF AssistantEntry, Entry
<1>5. cancelled \in BOOLEAN
  BY DEF Sure, Driven, Base, Control, IsCancelled
<1>6. /\ DOMAIN tx.entries = {g.response} /\ tx.entries[g.response] = e /\ tx.leaf = g.response
      /\ tx.consumed = {} /\ tx.usage = {g.usage} /\ tx.args = toolArgs
      /\ tx.prep = IF ph.p = "compaction"
                   THEN Extend(prep, [t \in {fresh} |-> cur.leaf]) ELSE prep
  BY DEF NoWrites
<1>7. ph \in Phase
  <2> HIDE DEF stop, cancelled, g
  <2> QED
    BY <1>2, <1>3, <1>5, SettledShape DEF SettlesAs
<1> DEFINE F == Extend(entries, tx.entries)
<1> HIDE DEF tx, ph, stop, cancelled
<1>8. ASSUME StateFresh
      PROVE  /\ Grows(tx) /\ Named(F, g.response)
             /\ RootedPhase(ph, run.writes, F, tx.args, DOMAIN tx.prep, tx.leaf)
  <2>1. run = state
    BY <1>8, FreshSnapshot
  <2>2. g.response \notin DOMAIN entries
    <3>1. g.response \in Reserved(state)
      BY <1>2, <2>1 DEF Reserved
    <3> QED
      BY <3>1 DEF Sure, Housed
  <2>3. g.trigger \in DOMAIN entries
    BY <1>2, <2>1 DEF Sure, Rooted, RootedState, RootedPhase
  <2>4. /\ Conversation(F, g.response) /\ Keeps(entries, F) /\ F[g.response] = e
        /\ DOMAIN F = DOMAIN entries \cup {g.response}
    <3>1. Conversation(entries, leaf) /\ F = Extend(entries, tx.entries)
      BY DEF Sure, Rooted
    <3>2. Belongs(entries, e)
      BY <1>4 DEF Belongs
    <3> HIDE DEF F, e
    <3> QED
      BY <1>4, <1>6, <2>2, <3>1, <3>2, OneEntry
  <2>5. Grows(tx)
    <3>1. \A t \in DOMAIN tx.prep : tx.prep[t] \in Id
      BY <1>3, <1>6 DEF Extend, Sure, Rooted, Registers
    <3> QED
      BY <1>2, <1>6, <2>2, <2>4, <3>1 DEF Grows, Sure, Rooted, Registers
  <2>6. ph.p = "compaction" => fresh \in DOMAIN tx.prep
    BY <1>6 DEF Extend
  <2>7. RootedPhase(ph, run.writes, F, tx.args, DOMAIN tx.prep, g.response)
    <3>1. g.response \in DOMAIN F /\ g.trigger \in DOMAIN F
      BY <2>3, <2>4
    <3>2. ph = SettledPhase(g, resp, stop, cancelled, prepared)
      BY DEF ph
    <3> HIDE DEF F, g
    <3> QED
      BY <1>2, <1>3, <1>5, <2>4, <2>6, <3>1, <3>2, SettledRooted
  <2> QED
    BY <1>6, <2>4, <2>5, <2>7 DEF Named
<1> HIDE DEF F
<1>9. F = Extend(entries, tx.entries)
  BY DEF F
<1> QED
  BY <1>1, <1>2, <1>7, <1>8, <1>9, MovedRoots

\* The steps of a generation leave everything in place.
LEMMA AssistantRoots ==
  ASSUME Sure,
         \/ GenerationAbort \/ AssistantIntent \/ AssistantRestored \/ RetryElapsed
         \/ \E resp \in Responses, prepared \in BOOLEAN : ModelReturns(resp, prepared)
         \/ ModelInterrupted
  PROVE  Rooted'
<1>1. pc = "model" \/ Planning("assistant")
  BY DEF GenerationAbort, AssistantIntent, AssistantRestored, RetryElapsed, ModelReturns,
    ModelInterrupted, Generating
<1>2. /\ pc \in Settled /\ run \in Run /\ run.phase \in Generation /\ run.kind = "run"
      /\ run.phase.p = "assistant" /\ Base
  <2>1. CASE pc = "model"
    <3>1. run.kind = "run" /\ run.phase.p = "assistant" /\ run \in OperationState
      BY <2>1 DEF Sure, Driven, Announced, Expects, Base, Coherent, Working, Snapshot, run
    <3>2. run \in Run
      BY <3>1, StateShape
    <3> QED
      BY <2>1, <3>1, <3>2, PhaseShape DEF Run, Settled, Working, Sure, Driven
  <2>2. CASE Planning("assistant")
    BY <2>2, PlanningRun, PhaseShape DEF Sure, Driven
  <2> QED
    BY <1>1, <2>1, <2>2
<1>3. pc = "model" => run.phase.gen = "pending"
  BY DEF Sure, Driven, Announced, Expects, run
<1> DEFINE g == run.phase
<1>4. Bare(NoWrites) /\ fresh \in Id
  BY NoWritesBare
<1>5. ASSUME NEW ph \in Phase, ph.p = "assistant", ph.trigger = g.trigger, NEW tx, Bare(tx),
             NEW effect, Transition(WithPhase(ph), tx, effect)
      PROVE  Rooted'
  <2>1. run = state => g.trigger \in DOMAIN entries
    BY <1>2 DEF Sure, Rooted, RootedState, RootedPhase
  <2>2. run = state => RootedPhase(ph, run.writes, entries, toolArgs, DOMAIN tx.prep, leaf)
    BY <1>5, <2>1 DEF RootedPhase
  <2> QED
    BY <1>2, <1>5, <2>2, RephaseRoots
<1>6. CASE GenerationAbort
  BY <1>6, StayingEndRoots DEF GenerationAbort, AbortFinish, Outcomes
<1>7. CASE \E resp \in Responses, prepared \in BOOLEAN : ModelReturns(resp, prepared)
  <2>1. PICK resp \in Response, prepared \in BOOLEAN : pc = "model" /\ Settle(resp, prepared)
    BY <1>2, <1>7, Answered DEF ModelReturns
  <2> QED
    BY <1>2, <1>3, <2>1, SettleRoots
<1>8. CASE ModelInterrupted
  BY <1>2, <1>3, <1>8, Answered, SettleRoots DEF ModelInterrupted
<1>9. CASE AssistantIntent
  <2> DEFINE row == fresh + 1
             ph == [g EXCEPT !.gen = "pending", !.response = fresh, !.usage = row]
             tx == [NoWrites EXCEPT !.minted = 2]
  <2>1. Transition(WithPhase(ph), tx, "model")
    BY <1>9 DEF AssistantIntent
  <2>2. row \in Id
    BY <1>4 DEF Id
  <2> HIDE DEF row
  <2>3. ph \in Generation /\ ph.trigger = g.trigger
    BY <1>2, <1>4, <2>2 DEF Generation, GenStatus
  <2>4. ph \in Phase /\ ph.p = "assistant"
    BY <2>3 DEF Phase, Generation
  <2>5. Bare(tx)
    BY <1>4 DEF Bare, NoWrites
  <2> HIDE DEF ph, tx
  <2> QED
    BY <1>5, <2>1, <2>3, <2>4, <2>5
<1>10. CASE RetryElapsed
  <2> DEFINE ph == [g EXCEPT !.gen = "ready"]
  <2>1. Transition(WithPhase(ph), NoWrites, "plan")
    BY <1>10 DEF RetryElapsed
  <2>2. ph \in Generation /\ ph.trigger = g.trigger
    BY <1>2 DEF Generation, GenStatus
  <2>3. ph \in Phase /\ ph.p = "assistant"
    BY <2>2 DEF Phase, Generation
  <2> HIDE DEF ph
  <2> QED
    BY <1>4, <1>5, <2>1, <2>2, <2>3
<1>11. CASE AssistantRestored
  <2>1. g.gen = "pending"
    BY <1>11 DEF AssistantRestored, Generating
  <2>2. CASE IsCancelled(run)
    <3>1. Settle(Interrupted, FALSE)
      BY <1>11, <2>2 DEF AssistantRestored
    <3> QED
      BY <1>2, <2>1, <3>1, Answered, SettleRoots
  <2>3. CASE ~IsCancelled(run) /\ ~(g.attempt < MaxAttempts)
    <3>1. Settle([stop |-> "error", calls |-> <<>>, error |-> "fatal"], FALSE)
      BY <1>11, <2>3 DEF AssistantRestored
    <3>2. [stop |-> "error", calls |-> <<>>, error |-> "fatal"] \in Response
      BY DEF Response, StopReasons
    <3> QED
      BY <1>2, <2>1, <3>1, <3>2, SettleRoots
  <2>4. CASE ~IsCancelled(run) /\ g.attempt < MaxAttempts
    <3> DEFINE more == g.attempt + 1
               ph == [g EXCEPT !.gen = "ready", !.attempt = more, !.response = NoId, !.usage = NoId]
    <3>1. Transition(WithPhase(ph), NoWrites, "plan")
      BY <1>11, <2>4 DEF AssistantRestored
    <3>2. more \in Nat
      BY <1>2 DEF Generation
    <3> HIDE DEF more
    <3>3. ph \in Generation /\ ph.trigger = g.trigger
      BY <1>2, <3>2 DEF Generation, GenStatus, Id, NoId
    <3>4. ph \in Phase /\ ph.p = "assistant"
      BY <3>3 DEF Phase, Generation
    <3> HIDE DEF ph
    <3> QED
      BY <1>4, <1>5, <3>1, <3>3, <3>4
  <2> QED
    BY <2>2, <2>3, <2>4
<1> QED
  BY <1>6, <1>7, <1>8, <1>9, <1>10, <1>11

(***************************************************************************)
(* Batches.                                                                *)
(***************************************************************************)
\* The parts of a batch that one call's change leaves alone.
LEMMA CallSteps ==
  ASSUME batch \in Tools, NEW i \in DOMAIN batch.calls, NEW c \in ToolCall
  PROVE  /\ Recalled(i, c).step = batch.step /\ Recalled(i, c).calls[i] = c
         /\ \A j \in DOMAIN batch.calls : j # i => Recalled(i, c).calls[j] = batch.calls[j]
BY DEF Recalled, Tools

\* What the first call that is not finished is next to.
LEMMA NextCall ==
  ASSUME Sure, batch \in Tools, run = state, run \in Run, NEW i \in DOMAIN batch.calls,
         \A j \in Unfinished : i <= j, batch.calls[i].status # "completed"
  PROVE  /\ BatchRooted(batch, entries, toolArgs, leaf)
         /\ i \in Nat /\ DOMAIN batch.calls = 1 .. Len(batch.calls) /\ Len(batch.calls) \in Nat
         /\ \A j \in DOMAIN batch.calls : j < i => batch.calls[j].status = "completed"
         /\ \A j \in DOMAIN batch.calls : i < j => batch.calls[j].status = "planned"
         /\ batch.calls[i].result \notin DOMAIN entries
         /\ i = 1 => leaf = batch.assistant
         /\ i # 1 => /\ i - 1 \in DOMAIN batch.calls
                     /\ leaf \in DOMAIN entries /\ entries[leaf].type = "toolResult"
                     /\ entries[leaf].call = <<batch.assistant, i - 1>>
<1>1. run.kind = "run" /\ batch.p = "tools" /\ batch.calls \in Seq(ToolCall)
  BY DEF Run, Tools
<1>2. BatchRooted(batch, entries, toolArgs, leaf)
  BY <1>1 DEF Sure, Rooted, RootedState, RootedPhase, batch
<1>3. i \in Nat /\ i >= 1 /\ DOMAIN batch.calls = 1 .. Len(batch.calls) /\ Len(batch.calls) \in Nat
  BY <1>1
<1>4. \A j \in DOMAIN batch.calls : j < i => batch.calls[j].status = "completed"
  BY <1>3 DEF Unfinished
<1>5. ASSUME NEW j \in DOMAIN batch.calls, i < j
      PROVE  batch.calls[j].status = "planned"
  BY <1>1, <1>5 DEF Sure, Guarded, Ran, batch
<1>6. batch.calls[i].result \notin DOMAIN entries
  <2>1. batch.calls[i].result \in Reserved(state)
    BY <1>1 DEF Reserved, batch
  <2> QED
    BY <2>1 DEF Sure, Housed
<1>7. CallRooted(batch, i, entries, toolArgs, leaf)
  BY <1>2 DEF BatchRooted
<1>8. i = 1 => leaf = batch.assistant
  BY <1>7 DEF CallRooted
<1>9. ASSUME i # 1
      PROVE  /\ i - 1 \in DOMAIN batch.calls /\ leaf \in DOMAIN entries
             /\ entries[leaf].type = "toolResult" /\ entries[leaf].call = <<batch.assistant, i - 1>>
  <2>1. i - 1 \in DOMAIN batch.calls /\ i - 1 < i
    BY <1>3, <1>9
  <2>2. batch.calls[i - 1].status = "completed"
    BY <1>4, <2>1
  <2>3. leaf = batch.calls[i - 1].result
    BY <1>7, <1>9, <2>2 DEF CallRooted
  <2>4. CallRooted(batch, i - 1, entries, toolArgs, leaf)
    BY <1>2, <2>1 DEF BatchRooted
  <2> QED
    BY <2>1, <2>2, <2>3, <2>4 DEF CallRooted
<1> QED
  BY <1>2, <1>3, <1>4, <1>5, <1>6, <1>8, <1>9

\* The result of a call is written where the next call expects the leaf.
LEMMA BatchAdvances ==
  ASSUME Sure, batch \in Tools, run = state, run \in Run, NEW i \in DOMAIN batch.calls,
         \A j \in Unfinished : i <= j, batch.calls[i].status # "completed",
         NEW c \in ToolCall, c.status = "completed", c.result = batch.calls[i].result,
         NEW F, Keeps(entries, F), c.result \in DOMAIN F, F[c.result].type = "toolResult",
         F[c.result].call = <<batch.assistant, i>>
  PROVE  BatchRooted(Recalled(i, c), F, toolArgs, c.result)
<1> DEFINE b == Recalled(i, c)
<1>1. /\ BatchRooted(batch, entries, toolArgs, leaf)
      /\ i \in Nat /\ DOMAIN batch.calls = 1 .. Len(batch.calls) /\ Len(batch.calls) \in Nat
      /\ \A j \in DOMAIN batch.calls : j < i => batch.calls[j].status = "completed"
      /\ \A j \in DOMAIN batch.calls : i < j => batch.calls[j].status = "planned"
  BY NextCall
<1>2. /\ b.assistant = batch.assistant /\ b.calls \in Seq(ToolCall) /\ DOMAIN b.calls = DOMAIN batch.calls
      /\ b.step = batch.step /\ b.calls[i] = c
      /\ \A j \in DOMAIN batch.calls : j # i => b.calls[j] = batch.calls[j]
  BY CallUpdate, CallSteps
<1> HIDE DEF b
<1>3. Len(b.calls) = Len(batch.calls)
  BY <1>1, <1>2
<1>4. /\ b.assistant \in DOMAIN F /\ F[b.assistant].type = "assistant"
      /\ Len(b.calls) = Len(F[b.assistant].calls)
  BY <1>1, <1>2, <1>3 DEF BatchRooted, Keeps
<1>5. ASSUME NEW j \in DOMAIN b.calls
      PROVE  CallRooted(b, j, F, toolArgs, c.result)
  <2>1. j \in Nat /\ j \in DOMAIN batch.calls /\ CallRooted(batch, j, entries, toolArgs, leaf)
    BY <1>1, <1>2 DEF BatchRooted
  <2>2. CASE j = i
    BY <1>2, <2>2 DEF CallRooted
  <2>3. CASE j < i
    <3>1. b.calls[j] = batch.calls[j] /\ batch.calls[j].status = "completed"
      BY <1>1, <1>2, <2>1, <2>3
    <3> QED
      BY <1>2, <2>1, <3>1 DEF CallRooted, Keeps
  <2>4. CASE i < j
    <3>1. b.calls[j] = batch.calls[j] /\ b.calls[j].status = "planned" /\ j # 1
      BY <1>1, <1>2, <2>1, <2>4
    <3>2. j - 1 \in DOMAIN batch.calls /\ (j - 1 = i \/ i < j - 1)
      BY <1>1, <2>1, <2>4
    <3>3. j - 1 = i => b.calls[j - 1].result = c.result
      BY <1>2
    <3>4. i < j - 1 => b.calls[j - 1].status = "planned"
      BY <1>1, <1>2, <3>2
    <3> QED
      BY <3>1, <3>2, <3>3, <3>4 DEF CallRooted
  <2> QED
    BY <1>1, <2>1, <2>2, <2>3, <2>4
<1> QED
  BY <1>4, <1>5 DEF BatchRooted, b

\* commit_tool_result() leaves everything in place.
LEMMA ResultRoots ==
  ASSUME Sure, pc \in Settled, run \in Run, batch \in Tools, cur.leaf \in Id, NEW i,
         NEW status \in {"planned", "pending"}, At(i, status), NEW kind \in ResultKinds,
         NEW terminate \in BOOLEAN, CommitResult(i, kind, terminate)
  PROVE  Rooted'
<1> DEFINE result == batch.calls[i].result
           c == [Planned(result) EXCEPT !.status = "completed", !.terminate = terminate]
           e == ResultEntry(kind, <<batch.assistant, i>>, cur.leaf)
           tx == [NoWrites EXCEPT !.entries = [id \in {result} |-> e], !.leaf = result]
           ph == Recalled(i, c)
<1>1. i \in DOMAIN batch.calls /\ (\A j \in Unfinished : i <= j) /\ batch.calls[i].status # "completed"
  BY DEF At, Unfinished
<1>2. /\ batch.calls[i] \in ToolCall /\ result \in Id /\ i \in Nat /\ batch.assistant \in Id
      /\ run.latest \in Id /\ run.kind = "run"
  <2>1. batch.calls \in Seq(ToolCall) /\ batch.assistant \in Id
    BY DEF Tools
  <2>2. batch.calls[i] \in ToolCall /\ i \in Nat
    BY <1>1, <2>1
  <2> QED
    BY <2>1, <2>2 DEF ToolCall, Run
<1>3. c \in ToolCall /\ c.result = result /\ c.status = "completed"
  BY <1>2 DEF Planned, ToolCall, Replay
<1>4. /\ DOMAIN tx.entries = {result} /\ tx.entries[result] = e /\ tx.leaf = result
      /\ tx.consumed = {} /\ tx.usage = {} /\ tx.args = toolArgs /\ tx.prep = prep
  BY DEF NoWrites
<1>5. /\ e \in Entry /\ e.type = "toolResult" /\ e.call = <<batch.assistant, i>> /\ e.parent = cur.leaf
      /\ e.call[1] = batch.assistant /\ e.call[2] = i
  BY <1>2 DEF ResultEntry, Entry
<1>6. Transition([run EXCEPT !.phase.calls[i] = c], tx, "plan")
  BY DEF CommitResult
<1> HIDE DEF c, tx, e, result
<1>7. Transition(Moved(ph, run.latest), tx, "plan") /\ ph \in Phase /\ ph.p = "tools"
  BY <1>1, <1>3, <1>6, CallWritten, CallUpdate
<1> DEFINE F == Extend(entries, tx.entries)
<1> HIDE DEF ph
<1>8. ASSUME StateFresh
      PROVE  /\ Grows(tx) /\ Named(F, run.latest)
             /\ RootedPhase(ph, run.writes, F, tx.args, DOMAIN tx.prep, tx.leaf)
  <2>1. run = state /\ cur.leaf = leaf
    BY <1>8, FreshSnapshot
  <2>2. /\ result \notin DOMAIN entries
        /\ i = 1 => leaf = batch.assistant
        /\ i # 1 => /\ leaf \in DOMAIN entries /\ entries[leaf].type = "toolResult"
                    /\ entries[leaf].call = <<batch.assistant, i - 1>>
    BY <1>1, <2>1, NextCall DEF result
  <2>3. /\ Conversation(F, result) /\ Keeps(entries, F) /\ F[result] = e
        /\ DOMAIN F = DOMAIN entries \cup {result}
    <3>1. Conversation(entries, leaf) /\ F = Extend(entries, tx.entries)
      BY DEF Sure, Rooted
    <3>2. Belongs(entries, e)
      BY <1>5, <2>1, <2>2 DEF Belongs
    <3>3. e \in Entry /\ DOMAIN tx.entries = {result} /\ tx.entries[result] = e
      BY <1>4, <1>5
    <3>4. result \notin DOMAIN entries
      BY <2>2
    <3> HIDE DEF F
    <3> QED
      BY <3>1, <3>2, <3>3, <3>4, OneEntry
  <2> HIDE DEF F
  <2>4. Grows(tx)
    BY <1>4, <2>2, <2>3 DEF Grows, Sure, Rooted, Registers, F
  <2>5. Named(F, run.latest)
    BY <1>2, <2>1, <2>3 DEF Sure, Rooted, RootedState, Named
  <2>6. BatchRooted(ph, F, toolArgs, result)
    <3>1. c.result \in DOMAIN F /\ F[c.result].type = "toolResult" /\ F[c.result].call = <<batch.assistant, i>>
      BY <1>3, <1>5, <2>3
    <3>2. c.result = batch.calls[i].result
      BY <1>3 DEF result
    <3>3. BatchRooted(Recalled(i, c), F, toolArgs, c.result)
      BY <1>1, <1>3, <2>1, <2>3, <3>1, <3>2, BatchAdvances
    <3> QED
      BY <1>3, <3>3 DEF ph
  <2>7. RootedPhase(ph, run.writes, F, tx.args, DOMAIN tx.prep, tx.leaf)
    BY <1>4, <1>7, <2>6 DEF RootedPhase
  <2> QED
    BY <2>4, <2>5, <2>7
<1> HIDE DEF F
<1>9. F = Extend(entries, tx.entries)
  BY DEF F
<1> QED
  BY <1>2, <1>7, <1>8, <1>9, MovedRoots

\* The intent of a call writes its arguments.
LEMMA IntentRoots ==
  ASSUME Sure, pc \in Settled, run \in Run, batch \in Tools, NEW i, ToolIntent(i)
  PROVE  Rooted'
<1> DEFINE replay == Declares(ToolOf(i))
           c == [batch.calls[i] EXCEPT !.status = "pending", !.replay = replay]
           tx == [NoWrites EXCEPT !.args = @ \cup {<<batch.step, i>>}]
           ph == Recalled(i, c)
<1>1. /\ At(i, "planned") /\ Refusal(i) = "none"
      /\ Transition([run EXCEPT !.phase.calls[i].status = "pending",
                                !.phase.calls[i].replay = replay], tx, "tool")
  BY DEF ToolIntent
<1>2. replay \in Replay
  <2>1. replay # "none"
    BY <1>1 DEF Refusal, Stopping
  <2>2. ToolOf(i) \in DOMAIN registry /\ replay = registry[ToolOf(i)]
    BY <2>1 DEF Declares
  <2> QED
    BY <2>2, ScenariosAssumption DEF Sure, Driven, Base, Control, Registries
<1>3. /\ i \in DOMAIN batch.calls /\ (\A j \in Unfinished : i <= j)
      /\ batch.calls[i].status = "planned"
  BY <1>1 DEF At, Unfinished
<1>4. /\ batch.calls[i] \in ToolCall /\ i \in Nat /\ batch.step \in Id /\ run.latest \in Id
      /\ run.kind = "run"
  <2>1. batch.calls \in Seq(ToolCall) /\ batch.step \in Id
    BY DEF Tools
  <2> QED
    BY <1>3, <2>1 DEF Run
<1> HIDE DEF replay
<1>5. c \in ToolCall /\ c.result = batch.calls[i].result /\ c.status = "pending"
  BY <1>2, <1>4 DEF ToolCall
<1>6. Transition(Moved(ph, run.latest), tx, "tool")
  BY <1>1, <1>3, CallWritten
<1>7. /\ DOMAIN tx.entries = {} /\ tx.leaf = leaf /\ tx.consumed = {} /\ tx.usage = {}
      /\ tx.args = toolArgs \cup {<<batch.step, i>>} /\ tx.prep = prep
  BY DEF NoWrites
<1> HIDE DEF c, tx
<1>8. /\ ph \in Phase /\ ph.p = "tools" /\ ph.assistant = batch.assistant
      /\ ph.calls \in Seq(ToolCall) /\ DOMAIN ph.calls = DOMAIN batch.calls
      /\ ph.step = batch.step /\ ph.calls[i] = c
      /\ \A j \in DOMAIN batch.calls : j # i => ph.calls[j] = batch.calls[j]
  BY <1>3, <1>5, CallUpdate, CallSteps
<1> DEFINE F == Extend(entries, tx.entries)
<1> HIDE DEF ph
<1>9. ASSUME StateFresh
      PROVE  /\ Grows(tx) /\ Named(F, run.latest)
             /\ RootedPhase(ph, run.writes, F, tx.args, DOMAIN tx.prep, tx.leaf)
  <2>1. run = state
    BY <1>9, FreshSnapshot
  <2>2. Grows(tx) /\ Keeps(entries, F)
    <3>1. tx.args \subseteq Id \X Nat /\ (\A t \in DOMAIN tx.prep : tx.prep[t] \in Id)
      BY <1>4, <1>7 DEF Sure, Rooted, Registers
    <3>2. Named(entries, tx.leaf)
      BY <1>7 DEF Sure, Rooted, Conversation
    <3> QED
      BY <1>7, <3>1, <3>2, BareGrows
  <2> HIDE DEF F
  <2>3. Named(F, run.latest)
    BY <1>4, <2>1, <2>2 DEF Sure, Rooted, RootedState, Named, Keeps
  <2>4. /\ BatchRooted(batch, entries, toolArgs, leaf)
        /\ i \in Nat /\ DOMAIN batch.calls = 1 .. Len(batch.calls) /\ Len(batch.calls) \in Nat
    BY <1>3, <2>1, NextCall
  <2>5. Len(ph.calls) = Len(batch.calls)
    BY <1>8, <2>4
  <2>6. ASSUME NEW j \in DOMAIN ph.calls
        PROVE  CallRooted(ph, j, F, tx.args, leaf)
    <3>1. CallRooted(batch, j, entries, toolArgs, leaf) /\ j \in DOMAIN batch.calls
      BY <1>8, <2>4 DEF BatchRooted
    <3>2. j = 1 \/ j - 1 \in DOMAIN batch.calls
      BY <2>4, <3>1
    <3>3. /\ ph.calls[j].status = "completed" <=> batch.calls[j].status = "completed"
          /\ ph.calls[j].result = batch.calls[j].result
      BY <1>3, <1>5, <1>8, <3>1
    <3>4. j # 1 => /\ ph.calls[j - 1].status = "completed" <=> batch.calls[j - 1].status = "completed"
                   /\ ph.calls[j - 1].result = batch.calls[j - 1].result
      BY <1>3, <1>5, <1>8, <3>2
    <3>5. ph.calls[j].status = "pending" => <<ph.step, j>> \in tx.args
      <4>1. CASE j = i
        BY <1>7, <1>8, <4>1
      <4>2. CASE j # i
        BY <1>7, <1>8, <3>1, <4>2 DEF CallRooted
      <4> QED
        BY <4>1, <4>2
    <3>6. ph.calls[j].status = "completed" =>
            /\ ph.calls[j].result \in DOMAIN F /\ F[ph.calls[j].result].type = "toolResult"
            /\ F[ph.calls[j].result].call = <<ph.assistant, j>>
      BY <1>8, <2>2, <3>1, <3>3 DEF CallRooted, Keeps
    <3>7. ph.calls[j].status # "completed" /\ (j = 1 \/ ph.calls[j - 1].status = "completed") =>
            leaf = IF j = 1 THEN ph.assistant ELSE ph.calls[j - 1].result
      BY <1>8, <3>1, <3>3, <3>4 DEF CallRooted
    <3> QED
      BY <3>5, <3>6, <3>7 DEF CallRooted
  <2>7. BatchRooted(ph, F, tx.args, leaf)
    BY <1>8, <2>2, <2>4, <2>5, <2>6 DEF BatchRooted, Keeps
  <2> QED
    BY <1>7, <1>8, <2>2, <2>3, <2>7 DEF RootedPhase
<1> HIDE DEF F
<1>10. F = Extend(entries, tx.entries)
  BY DEF F
<1> QED
  BY <1>4, <1>6, <1>8, <1>9, <1>10, MovedRoots

\* The end of a batch leaves everything in place.
LEMMA BatchEndRoots ==
  ASSUME Sure, BatchComplete, pc \in Settled, run \in Run, batch \in Tools
  PROVE  Rooted'
<1> DEFINE last == batch.calls[Len(batch.calls)].result
           ended == \A i \in DOMAIN batch.calls : batch.calls[i].terminate
           ph == IF ended THEN MayFinish(last, FALSE) ELSE NeedAssistant(last)
           tx == [NoWrites EXCEPT !.args = {k \in toolArgs : k[1] # batch.step}]
<1>1. Transition(WithPhase(ph), tx, "plan") /\ Unfinished = {}
  BY DEF BatchComplete
<1>2. batch.calls # <<>> /\ batch.calls \in Seq(ToolCall) /\ run.kind = "run" /\ batch.p = "tools"
  BY DEF Sure, Driven, Base, Batched, HasCalls, Settled, run, batch, Tools, Run
<1>3. Len(batch.calls) \in DOMAIN batch.calls
  BY <1>2
<1>4. last \in Id /\ batch.calls[Len(batch.calls)].status = "completed"
  <2>1. batch.calls[Len(batch.calls)] \in ToolCall
    BY <1>2, <1>3
  <2> QED
    BY <1>1, <1>3, <2>1 DEF ToolCall, Unfinished
<1>5. run = state => last \in DOMAIN entries
  <2>1. ASSUME run = state
        PROVE  CallRooted(batch, Len(batch.calls), entries, toolArgs, leaf)
    BY <1>2, <1>3, <2>1 DEF Sure, Rooted, RootedState, RootedPhase, BatchRooted, batch
  <2> QED
    BY <1>4, <2>1 DEF CallRooted
<1>6. Bare(tx)
  <2>1. Bare(NoWrites)
    BY NoWritesBare
  <2> QED
    BY <2>1 DEF Bare, NoWrites
<1> HIDE DEF last, ended, tx
<1>7. ph \in Phase /\ ph.p = "checkpoint" /\ ph.trigger = last
  BY <1>4 DEF MayFinish, NeedAssistant, Phase, Checkpoint, Continuations, Id, NoId
<1> HIDE DEF ph
<1>8. run = state => RootedPhase(ph, run.writes, entries, toolArgs, DOMAIN tx.prep, leaf)
  BY <1>5, <1>7 DEF RootedPhase
<1> QED
  BY <1>1, <1>6, <1>7, <1>8, RephaseRoots

\* The steps of a batch leave everything in place.
LEMMA ToolsRoots ==
  ASSUME Sure,
         \/ BatchComplete
         \/ \E i \in CallIndices : ToolRefused(i) \/ ToolIntent(i) \/ ToolGivenUp(i)
         \/ \E i \in CallIndices, terminate \in BOOLEAN : ToolBlocked(i, terminate)
         \/ \E i \in CallIndices, terminate \in BOOLEAN : ToolFinishes(i, terminate)
  PROVE  Rooted'
<1>1. (pc = "tool" \/ Planning("tools")) /\ Base
  BY DEF BatchComplete, ToolRefused, ToolIntent, ToolGivenUp, ToolBlocked, ToolFinishes, Sure, Driven
<1>2. pc \in Settled /\ run \in Run /\ batch \in Tools /\ cur.leaf \in Id
  <2>1. CASE pc = "tool"
    <3>1. run.kind = "run" /\ run.phase.p = "tools" /\ run \in OperationState /\ cur.leaf \in Id
      BY <2>1 DEF Sure, Driven, Announced, Expects, Base, Coherent, Working, Snapshot, run
    <3>2. run \in Run
      BY <3>1, StateShape
    <3> QED
      BY <2>1, <3>1, <3>2, PhaseShape DEF Run, Settled, Working, batch
  <2>2. CASE Planning("tools")
    BY <1>1, <2>2, PlanningRun, PhaseShape DEF batch
  <2> QED
    BY <1>1, <2>1, <2>2
<1>3. CASE \E i \in CallIndices : ToolRefused(i)
  <2>1. PICK i : At(i, "planned") /\ Refusal(i) # "none" /\ CommitResult(i, Refusal(i), FALSE)
    BY <1>3 DEF ToolRefused
  <2>2. Refusal(i) \in ResultKinds
    BY <2>1 DEF Refusal, ResultKinds
  <2> QED
    BY <1>2, <2>1, <2>2, ResultRoots
<1>4. CASE \E i \in CallIndices : ToolGivenUp(i)
  <2> DEFINE kind == IF Stopping THEN "interrupted" ELSE "process_died"
  <2>1. PICK i : At(i, "pending") /\ CommitResult(i, kind, FALSE)
    BY <1>4 DEF ToolGivenUp
  <2>2. kind \in ResultKinds
    BY DEF ResultKinds
  <2> HIDE DEF kind
  <2> QED
    BY <1>2, <2>1, <2>2, ResultRoots
<1>5. CASE \E i \in CallIndices, terminate \in BOOLEAN : ToolBlocked(i, terminate)
  <2>1. PICK i \in CallIndices, terminate \in BOOLEAN : ToolBlocked(i, terminate)
    BY <1>5
  <2>2. At(i, "planned") /\ CommitResult(i, "blocked", terminate) /\ "blocked" \in ResultKinds
    BY <2>1 DEF ToolBlocked, ResultKinds
  <2> QED
    BY <1>2, <2>2, ResultRoots
<1>6. CASE \E i \in CallIndices, terminate \in BOOLEAN : ToolFinishes(i, terminate)
  <2>1. PICK i \in CallIndices, terminate \in BOOLEAN : ToolFinishes(i, terminate)
    BY <1>6
  <2>2. At(i, "pending") /\ CommitResult(i, "executed", terminate) /\ "executed" \in ResultKinds
    BY <2>1 DEF ToolFinishes, ResultKinds
  <2> QED
    BY <1>2, <2>2, ResultRoots
<1>7. CASE \E i \in CallIndices : ToolIntent(i)
  BY <1>2, <1>7, IntentRoots
<1>8. CASE BatchComplete
  BY <1>2, <1>8, BatchEndRoots
<1> QED
  BY <1>3, <1>4, <1>5, <1>6, <1>7, <1>8

(***************************************************************************)
(* Compactions.                                                            *)
(***************************************************************************)
\* What a compaction needs is there.
LEMMA CompactingRooted ==
  ASSUME Sure, Compacting, pc \in {"plan", "summary"}, run = state
  PROVE  /\ structural.task \in DOMAIN prep /\ prep[structural.task] \in Id
         /\ ~Standalone => /\ Named(entries, run.latest)
                           /\ run.phase.resume.trigger \in DOMAIN entries
<1>1. /\ Standalone => structural = run.structural
      /\ ~Standalone => /\ run.kind = "run" /\ run.phase.p = "compaction"
                        /\ structural = run.phase.structural
  BY CompactingShape DEF Sure, Driven
<1>2. structural.task \in DOMAIN prep
  BY <1>1 DEF Sure, Rooted, RootedState, RootedPhase, Standalone
<1>3. ~Standalone => /\ Named(entries, run.latest) /\ run.phase.resume.trigger \in DOMAIN entries
  BY <1>1 DEF Sure, Rooted, RootedState, RootedPhase
<1>4. prep[structural.task] \in Id
  BY <1>2 DEF Sure, Rooted, Registers
<1> QED
  BY <1>2, <1>3, <1>4

\* What a compaction reserves is no entry yet.
LEMMA CompactingFresh ==
  ASSUME Sure, Compacting, pc \in {"plan", "summary"}, run = state, structural.status # "deciding"
  PROVE  structural.result \notin DOMAIN entries
<1>1. Reserved(run) = StructuralIds(structural)
  BY CompactingReserves DEF Sure, Driven
<1>2. structural.result \in Reserved(state)
  BY <1>1 DEF StructuralIds
<1> QED
  BY <1>2 DEF Sure, Housed

\* A summary becomes an entry and leaves everything in place.
LEMMA PublishRoots ==
  ASSUME Sure, Compacting, pc \in {"plan", "summary"}, NEW result \in Id, NEW tx, Sound(tx), Bare(tx),
         run = state => result \notin DOMAIN entries, Publish(result, tx)
  PROVE  Rooted'
<1> DEFINE entry == CompactionEntry(prep[structural.task], cur.leaf)
           published == [tx EXCEPT !.entries = [id \in {result} |-> entry], !.leaf = result]
           F == Extend(entries, published.entries)
<1>1. /\ Standalone => Terminal("completed", published, {})
      /\ ~Standalone => Transition(WithPhase(run.phase.resume), published, "plan")
  BY DEF Publish
<1>2. /\ pc \in Settled /\ cur.leaf \in Id
      /\ ~Standalone => run \in Run /\ run.kind = "run" /\ run.phase \in InRunCompaction
  BY CompactingShape DEF Sure, Driven, Base, Coherent, Settled, Working, Snapshot
<1>3. /\ DOMAIN published.entries = {result} /\ published.entries[result] = entry
      /\ published.leaf = result /\ published.consumed = {} /\ published.usage = tx.usage
      /\ published.args = tx.args /\ published.prep = tx.prep
      /\ Sound(published)
  BY DEF Sound, Bare
<1>4. entry.type # "toolResult"
  BY DEF CompactionEntry
<1>5. prep[structural.task] \in Id => entry \in Entry
  BY <1>2 DEF CompactionEntry, Entry
<1> HIDE DEF entry, published
<1>6. ASSUME StateFresh
      PROVE  /\ Grows(published) /\ Keeps(entries, F)
             /\ ~Standalone => /\ Named(entries, run.latest)
                               /\ run.phase.resume.trigger \in DOMAIN entries
  <2>1. run = state /\ cur.leaf = leaf
    BY <1>2, <1>6, FreshSnapshot
  <2>2. /\ prep[structural.task] \in Id
        /\ ~Standalone => Named(entries, run.latest) /\ run.phase.resume.trigger \in DOMAIN entries
    BY <2>1, CompactingRooted
  <2>3. Conversation(F, result) /\ Keeps(entries, F) /\ DOMAIN F = DOMAIN entries \cup {result}
    <3>1. Conversation(entries, leaf) /\ F = Extend(entries, published.entries)
      BY DEF Sure, Rooted
    <3>2. Belongs(entries, entry) /\ entry \in Entry
      BY <1>4, <1>5, <2>2 DEF Belongs
    <3>3. result \notin DOMAIN entries
      BY <2>1
    <3> HIDE DEF F
    <3> QED
      BY SMTT(60), <1>3, <3>1, <3>2, <3>3, OneEntry
  <2>4. Grows(published)
    BY <1>3, <2>1, <2>3 DEF Grows, Bare
  <2> QED
    BY <2>2, <2>3, <2>4
<1>7. CASE Standalone
  BY <1>1, <1>3, <1>6, <1>7, TerminalRoots DEF Outcomes
<1>8. CASE ~Standalone
  <2> DEFINE ph == run.phase.resume
  <2>1. ph \in Phase /\ ph.p = "checkpoint"
    BY <1>2, <1>8 DEF InRunCompaction, Checkpoint, Phase
  <2>2. Transition(Moved(ph, run.latest), published, "plan") /\ run.latest \in Id
    BY <1>1, <1>2, <1>8 DEF WithPhase, Moved, Run
  <2>3. F = Extend(entries, published.entries)
    OBVIOUS
  <2> HIDE DEF F
  <2>4. StateFresh => /\ Grows(published) /\ Named(F, run.latest)
                      /\ RootedPhase(ph, run.writes, F, published.args, DOMAIN published.prep,
                                     published.leaf)
    BY <1>6, <1>8, <2>1 DEF RootedPhase, Named, Keeps
  <2> HIDE DEF ph
  <2> QED
    BY <1>2, <1>8, <2>1, <2>2, <2>3, <2>4, MovedRoots
<1> QED
  BY <1>7, <1>8

\* No summary, and everything stays in place.
LEMMA FailsRoots ==
  ASSUME Sure, Compacting, pc \in {"plan", "summary"}, NEW tx, Sound(tx), Bare(tx), SummaryFails(tx)
  PROVE  Rooted'
<1>1. CASE Standalone
  <2>1. Terminal("failed", tx, {})
    BY <1>1 DEF SummaryFails
  <2>2. Grows(tx)
    BY BareGrows, NoWritesBare DEF Bare
  <2> QED
    BY <2>1, <2>2, TerminalRoots DEF Outcomes
<1>2. CASE ~Standalone
  <2> DEFINE ph == [p |-> "failure", provenance |-> NoId]
  <2>1. run \in Run /\ Transition(WithPhase(ph), tx, "plan") /\ pc \in Settled
    BY <1>2, CompactingShape DEF SummaryFails, Sure, Driven
  <2>2. ph \in Phase /\ ph.p = "failure" /\ ph.provenance = NoId
    BY DEF Phase, FailureDrain, Id, NoId
  <2> HIDE DEF ph
  <2>3. RootedPhase(ph, run.writes, entries, toolArgs, DOMAIN tx.prep, leaf)
    BY <2>2 DEF RootedPhase, Named
  <2> QED
    BY <2>1, <2>2, <2>3, RephaseRoots
<1> QED
  BY <1>1, <1>2

\* The decision takes its next step with everything in place.
LEMMA DecisionRoots ==
  ASSUME Sure, Compacting, pc \in {"plan", "summary"}, NEW s \in Structural, s.task = structural.task,
         NEW next, \/ next = WithStructural(s)
                   \/ Standalone /\ next = [WithStructural(s) EXCEPT !.control = "running"],
         NEW tx, Bare(tx), NEW effect, Transition(next, tx, effect)
  PROVE  Rooted'
<1>1. /\ pc \in Settled /\ (Standalone => run \in Compaction)
      /\ ~Standalone => run \in Run /\ run.phase \in InRunCompaction /\ run.phase.p = "compaction"
  BY CompactingShape DEF Sure, Driven
<1>2. Standalone => next.kind = "compaction" /\ next.structural = s
  BY <1>1 DEF WithStructural, Compaction
<1>3. ~Standalone => /\ next.kind = "run" /\ next.phase.p = "compaction"
                     /\ next.phase.structural = s /\ next.phase.resume = run.phase.resume
                     /\ next.latest = run.latest
  BY <1>1 DEF WithStructural, Run, InRunCompaction
<1>4. ASSUME StateFresh
      PROVE  Roots(next, tx)
  <2>1. run = state
    BY <1>1, <1>4, FreshSnapshot
  <2>2. /\ structural.task \in DOMAIN prep
        /\ ~Standalone => Named(entries, run.latest) /\ run.phase.resume.trigger \in DOMAIN entries
    BY <2>1, CompactingRooted
  <2> DEFINE F == Extend(entries, tx.entries)
  <2>3. Grows(tx) /\ Keeps(entries, F)
    BY BareGrows, NoWritesBare DEF Bare
  <2> HIDE DEF F
  <2>4. s.task \in DOMAIN tx.prep
    BY <2>2 DEF Bare
  <2>5. RootedState(next, F, tx.args, DOMAIN tx.prep, tx.leaf)
    BY <1>2, <1>3, <2>2, <2>3, <2>4 DEF RootedState, RootedPhase, Named, Keeps
  <2> QED
    BY <2>3, <2>5 DEF Roots, F
<1> QED
  BY <1>4, TransitionRoots

\* The steps of a compaction leave everything in place.
LEMMA StructuralRoots ==
  ASSUME Sure,
         \/ StructuralAbort \/ StructuralDeclined \/ StructuralHookSummary \/ StructuralGenerate
         \/ SummaryIntent \/ SummaryRestored \/ SummaryRetryElapsed
         \/ \E answer \in Answers : SummaryReturns(answer)
  PROVE  Rooted'
<1> DEFINE d == structural
           minting == [NoWrites EXCEPT !.minted = 1]
           billed == [NoWrites EXCEPT !.usage = {d.usage}]
<1>1. Compacting /\ pc \in {"plan", "summary"} /\ (pc = "summary" => d.status = "pending")
  <2>1. pc = "summary" => Compacting /\ d.status = "pending"
    BY DEF Sure, Driven, Announced, Expects, Compacting, Standalone, structural, run
  <2>2. pc = "summary" \/ (pc = "plan" /\ Compacting)
    BY DEF StructuralAbort, StructuralDeclined, StructuralHookSummary, StructuralGenerate,
      SummaryIntent, SummaryRestored, SummaryRetryElapsed, SummaryReturns, Structuring
  <2> QED
    BY <2>1, <2>2
<1>2. /\ pc \in Settled /\ d \in Structural
      /\ ~Standalone => run \in Run /\ run.kind = "run" /\ run.phase \in InRunCompaction
  BY <1>1, CompactingShape DEF Sure, Driven
<1>3. d.attempt \in Nat /\ d.result \in Id /\ d.usage \in Id
  BY <1>2 DEF Structural
<1>4. /\ Bare(NoWrites) /\ Sound(NoWrites) /\ fresh \in Id /\ fresh \notin DOMAIN entries
  BY NoWritesBare
<1>5. Bare(minting) /\ Sound(minting) /\ Bare(billed) /\ Sound(billed)
  BY <1>3, <1>4 DEF Bare, NoWrites, Sound
<1> HIDE DEF minting, billed, d
<1>6. CASE StructuralAbort
  BY <1>6, StayingEndRoots DEF StructuralAbort, AbortFinish, Outcomes
<1>7. CASE StructuralDeclined
  <2>1. CASE Standalone
    BY <1>7, <2>1, StayingEndRoots DEF StructuralDeclined, Outcomes
  <2>2. CASE ~Standalone /\ run.phase.reason = "threshold"
    <3> DEFINE ph == run.phase.resume
    <3>1. Transition(WithPhase(ph), NoWrites, "plan")
      BY <1>7, <2>2 DEF StructuralDeclined
    <3>2. ph \in Phase /\ ph.p = "checkpoint"
      BY <1>2, <2>2 DEF InRunCompaction, Checkpoint, Phase
    <3>3. run = state => ph.trigger \in DOMAIN entries
      BY <1>1, <2>2, CompactingRooted
    <3> HIDE DEF ph
    <3>4. run = state => RootedPhase(ph, run.writes, entries, toolArgs, DOMAIN NoWrites.prep, leaf)
      BY <3>2, <3>3 DEF RootedPhase
    <3> QED
      BY <1>2, <1>4, <2>2, <3>1, <3>2, <3>4, RephaseRoots
  <2>3. CASE ~Standalone /\ run.phase.reason # "threshold"
    <3>1. SummaryFails(NoWrites)
      BY <1>7, <2>3 DEF StructuralDeclined
    <3> QED
      BY <1>1, <1>4, <3>1, FailsRoots
  <2> QED
    BY <2>1, <2>2, <2>3
<1>8. CASE StructuralHookSummary
  <2>1. Publish(fresh, minting)
    BY <1>8 DEF StructuralHookSummary, minting
  <2> QED
    BY <1>1, <1>4, <1>5, <2>1, PublishRoots
<1>9. CASE StructuralGenerate
  <2> DEFINE s == [d EXCEPT !.status = "ready", !.attempt = 1, !.result = fresh]
  <2>1. Transition(WithStructural(s), minting, "plan")
    BY <1>9 DEF StructuralGenerate, d, minting
  <2>2. s \in Structural /\ s.task = d.task
    BY <1>2, <1>4 DEF Structural
  <2> HIDE DEF s
  <2> QED
    BY <1>1, <1>5, <2>1, <2>2, DecisionRoots DEF d
<1>10. CASE SummaryIntent
  <2> DEFINE s == [d EXCEPT !.status = "pending", !.usage = fresh]
  <2>1. Transition(WithStructural(s), minting, "summary")
    BY <1>10 DEF SummaryIntent, d, minting
  <2>2. s \in Structural /\ s.task = d.task
    BY <1>2, <1>4 DEF Structural
  <2> HIDE DEF s
  <2> QED
    BY <1>1, <1>5, <2>1, <2>2, DecisionRoots DEF d
<1>11. CASE SummaryRestored
  <2>1. CASE d.attempt < MaxAttempts
    <3> DEFINE more == d.attempt + 1
               s == [d EXCEPT !.status = "ready", !.attempt = more, !.usage = NoId]
    <3>1. Transition(WithStructural(s), NoWrites, "plan")
      BY <1>11, <2>1 DEF SummaryRestored, d
    <3>2. more \in Nat
      BY <1>3
    <3> HIDE DEF more
    <3>3. s \in Structural /\ s.task = d.task
      BY <1>2, <3>2 DEF Structural, NoId, Id
    <3> HIDE DEF s
    <3> QED
      BY <1>1, <1>4, <3>1, <3>3, DecisionRoots DEF d
  <2>2. CASE ~(d.attempt < MaxAttempts)
    <3>1. SummaryFails(NoWrites)
      BY <1>11, <2>2 DEF SummaryRestored, d
    <3> QED
      BY <1>1, <1>4, <3>1, FailsRoots
  <2> QED
    BY <2>1, <2>2
<1>12. CASE SummaryRetryElapsed
  <2> DEFINE s == [d EXCEPT !.status = "ready"]
  <2>1. Transition(WithStructural(s), NoWrites, "plan")
    BY <1>12 DEF SummaryRetryElapsed, d
  <2>2. s \in Structural /\ s.task = d.task
    BY <1>2 DEF Structural
  <2> HIDE DEF s
  <2> QED
    BY <1>1, <1>4, <2>1, <2>2, DecisionRoots DEF d
<1>13. ASSUME NEW answer \in Answers, SummaryReturns(answer)
       PROVE  Rooted'
  <2>1. d.status = "pending" /\ pc = "summary"
    BY <1>1, <1>13 DEF SummaryReturns
  <2>2. run = state => d.result \notin DOMAIN entries
    BY <1>1, <2>1, CompactingFresh DEF d
  <2> DEFINE more == d.attempt + 1
             s == [d EXCEPT !.status = "wait", !.attempt = more, !.usage = NoId]
             next == IF Standalone THEN [WithStructural(s) EXCEPT !.control = "running"]
                     ELSE WithStructural(s)
  <2>3. \/ Publish(d.result, billed)
        \/ Transition(next, billed, "plan")
        \/ SummaryFails(billed)
    BY <1>13 DEF SummaryReturns, d, billed
  <2>4. more \in Nat
    BY <1>3
  <2> HIDE DEF more
  <2>5. s \in Structural /\ s.task = d.task
    BY <1>2, <2>4 DEF Structural, NoId, Id
  <2> HIDE DEF s
  <2>6. CASE Publish(d.result, billed)
    BY <1>1, <1>3, <1>5, <2>2, <2>6, PublishRoots DEF d
  <2>7. CASE SummaryFails(billed)
    BY <1>1, <1>5, <2>7, FailsRoots
  <2>8. CASE Transition(next, billed, "plan")
    <3>1. \/ next = WithStructural(s)
          \/ Standalone /\ next = [WithStructural(s) EXCEPT !.control = "running"]
      OBVIOUS
    <3> HIDE DEF next
    <3> QED
      BY <1>1, <1>5, <2>5, <2>8, <3>1, DecisionRoots DEF d
  <2> QED
    BY <2>3, <2>6, <2>7, <2>8
<1> QED
  BY <1>6, <1>7, <1>8, <1>9, <1>10, <1>11, <1>12, <1>13

(***************************************************************************)
(* Callers.                                                                *)
(***************************************************************************)
\* Input that is queued, and a cancellation, leave what the operation names.
LEMMA AmendRoots ==
  ASSUME Sure,
         \/ \E q \in QueueKinds : \E kind \in KindsOf(q) : Enqueue(q, kind)
         \/ NextRun \/ Abort
  PROVE  Rooted'
<1>1. UNCHANGED <<entries, usage, leaf, meta, toolArgs, prep, lastResult>>
  BY DEF Enqueue, NextRun, Abort
<1>2. \/ pending' = pending
      \/ \E kind \in InputKinds : pending' = Extend(pending, [id \in {fresh} |-> kind])
  BY DEF Enqueue, NextRun, Abort, KindsOf, InputKinds
<1>3. DOMAIN pending \subseteq DOMAIN pending' /\ \A id \in DOMAIN pending' : pending'[id] \in InputKinds
  <2>1. \A id \in DOMAIN pending : pending[id] \in InputKinds
    BY DEF Sure, Rooted, Registers
  <2> QED
    BY <1>2, <2>1 DEF Extend
<1>4. Conversation(entries, leaf)'
  BY <1>1 DEF Sure, Rooted
<1>5. Metadata'
  BY <1>1, <1>3 DEF Sure, Rooted, Metadata, PlacedOrPending, Placed, Waiting
<1>6. Registers'
  BY <1>1, <1>3 DEF Sure, Rooted, Registers
<1>7. RootedState(state, entries, toolArgs, DOMAIN prep, leaf)'
  <2>1. ASSUME NEW q \in QueueKinds, NEW kind \in KindsOf(q), Enqueue(q, kind)
        PROVE  RootedState(state, entries, toolArgs, DOMAIN prep, leaf)'
    <3>1. state.kind = "run" /\ state \in Run /\ q \in QueueNames
      BY <2>1, CallersAssumption, StateShape
         DEF Enqueue, Sure, Driven, Base, Control, OneOperation, QueueNames, NoOperation
    <3>2. /\ state'.kind = "run" /\ state'.phase = state.phase /\ state'.latest = state.latest
          /\ state'.writes = IF q = "writes" THEN Append(state.writes, fresh) ELSE state.writes
      BY <2>1, <3>1 DEF Enqueue, Run, QueueNames
    <3>3. Range(state.writes) \subseteq Range(state'.writes)
      <4>1. state.writes \in Seq(Id) /\ fresh \in Id
        BY <3>1, NoWritesBare DEF Run
      <4>2. \A i \in DOMAIN state.writes : /\ i \in DOMAIN Append(state.writes, fresh)
                                           /\ Append(state.writes, fresh)[i] = state.writes[i]
        BY <4>1
      <4> QED
        BY <3>2, <4>2 DEF Range
    <3>4. /\ Named(entries, state.latest)
          /\ RootedPhase(state.phase, state.writes, entries, toolArgs, DOMAIN prep, leaf)
      BY <3>1 DEF Sure, Rooted, RootedState
    <3>5. RootedPhase(state'.phase, state'.writes, entries', toolArgs', DOMAIN prep', leaf')
      BY <1>1, <3>2, <3>3, <3>4 DEF RootedPhase
    <3> QED
      BY <1>1, <3>2, <3>4, <3>5 DEF RootedState
  <2>2. CASE NextRun
    BY <1>1, <2>2 DEF NextRun, Sure, Rooted
  <2>3. CASE Abort
    <3>1. CASE state' = state
      BY <1>1, <3>1 DEF Sure, Rooted
    <3>2. CASE state' = Cancel(state)
      <4>1. state \in OperationState
        BY <2>3 DEF Abort, Sure, Driven, Base, Control, OneOperation
      <4>2. SameWork(state, state') /\ (state.kind = "run" => state'.writes = state.writes)
        BY <3>2, <4>1, CancelUpdate
      <4>3. RootedState(state, entries, toolArgs, DOMAIN prep, leaf)
        BY DEF Sure, Rooted
      <4> QED
        BY <1>1, <4>2, <4>3 DEF SameWork, RootedState
    <3> QED
      BY <2>3, <3>1, <3>2 DEF Abort
  <2> QED
    BY <2>1, <2>2, <2>3
<1> QED
  BY <1>4, <1>5, <1>6, <1>7 DEF Rooted

\* What a claim opens is there with the claim.
LEMMA ClaimRoots ==
  ASSUME Sure, NEW op, NEW next, NEW source \in Id, NEW target \in Id, NEW prompts \in Seq(Id),
         NEW minted, NEW payloads, NEW preparation,
         Claim(op, next, source, target, prompts, minted, payloads, preparation),
         Named(entries, source), Named(entries, target),
         \A i \in DOMAIN prompts : prompts[i] \in DOMAIN payloads,
         \A id \in DOMAIN payloads : payloads[id] \in InputKinds,
         \A t \in DOMAIN preparation : preparation[t] \in Id,
         RootedState(state', entries, toolArgs, DOMAIN prep \cup DOMAIN preparation, leaf)
  PROVE  Rooted'
<1>1. /\ UNCHANGED <<entries, usage, leaf, toolArgs, lastResult>>
      /\ meta' = [prompts |-> prompts, source |-> source, target |-> target]
      /\ pending' = Extend(pending, payloads) /\ prep' = Extend(prep, preparation)
  BY DEF Claim
<1>2. Conversation(entries, leaf)'
  BY <1>1 DEF Sure, Rooted
<1>3. /\ DOMAIN pending' = DOMAIN pending \cup DOMAIN payloads
      /\ DOMAIN prep' = DOMAIN prep \cup DOMAIN preparation
      /\ \A id \in DOMAIN pending' : pending'[id] \in InputKinds
      /\ \A t \in DOMAIN prep' : prep'[t] \in Id
  BY <1>1 DEF Extend, Sure, Rooted, Registers
<1>4. Metadata'
  BY <1>1, <1>3 DEF Metadata, PlacedOrPending, Placed, Waiting
<1>5. Registers'
  BY <1>1, <1>3 DEF Sure, Rooted, Registers
<1>6. RootedState(state, entries, toolArgs, DOMAIN prep, leaf)'
  BY <1>1, <1>3
<1> QED
  BY <1>2, <1>4, <1>5, <1>6 DEF Rooted

\* Opening an operation leaves everything in place.
LEMMA StartRoots ==
  ASSUME Sure, compacting \in Id, Claims
  PROVE  Rooted'
<1>1. fresh \in Id /\ fresh \in Nat /\ leaf \in Id /\ Named(entries, leaf) /\ lane.nextRun \in Seq(Id)
  BY NoWritesBare DEF Sure, Driven, Base, Control
<1>2. <<>> \in Seq(Id) /\ DOMAIN <<>> = {} /\ NoId \in Id /\ Named(entries, NoId)
  BY DEF Named, Id, NoId
<1>3. ASSUME NEW n \in PromptCounts, StartRun(n)
      PROVE  Rooted'
  <2> DEFINE ids == [i \in 1 .. n |-> fresh + i]
             ph == NeedAssistant(fresh + n)
             next == [kind |-> "run", control |-> "running", phase |-> ph,
                      latest |-> NoId, steer |-> <<>>, followUp |-> <<>>, writes |-> ids,
                      drained |-> <<>>]
             payloads == [id \in Range(ids) |-> "message"]
             none == <<>>
             writes == lane.nextRun \o ids
  <2>1. n \in Nat \ {0}
    BY <1>3, CallersAssumption
  <2>2. ids \in Seq(Id) /\ DOMAIN ids = 1 .. n /\ n \in 1 .. n /\ ids[n] = fresh + n /\ Len(ids) = n
    BY <1>1, <2>1 DEF Id
  <2>3. Claim(fresh, next, leaf, NoId, ids, n + 1, payloads, none)
    BY <1>3 DEF StartRun
  <2>4. /\ \A i \in DOMAIN ids : ids[i] \in DOMAIN payloads
        /\ \A id \in DOMAIN payloads : payloads[id] \in InputKinds
    BY DEF Range, InputKinds
  <2>5. ph.p = "checkpoint" /\ ph.trigger = fresh + n /\ ~ph.skip /\ Needs(ph)
    BY DEF NeedAssistant, Needs
  <2>6. fresh + n \in Range(writes)
    <3> HIDE DEF ids
    <3>1. Len(lane.nextRun) + n \in DOMAIN writes /\ writes[Len(lane.nextRun) + n] = ids[n]
      BY <1>1, <2>1, <2>2
    <3> HIDE DEF writes
    <3> QED
      BY <2>2, <3>1 DEF Range
  <2>7. state' = [next EXCEPT !.writes = writes]
    BY <2>3 DEF Claim
  <2> HIDE DEF ids, ph, payloads, writes
  <2>8. state'.kind = "run" /\ state'.phase = ph /\ state'.latest = NoId /\ state'.writes = writes
    BY <2>7
  <2> HIDE DEF next
  <2>9. RootedState(state', entries, toolArgs, DOMAIN prep \cup DOMAIN none, leaf)
    BY <1>2, <2>5, <2>6, <2>8 DEF RootedState, RootedPhase
  <2>10. \A t \in DOMAIN none : none[t] \in Id
    OBVIOUS
  <2> HIDE DEF none
  <2> QED
    BY <1>1, <1>2, <2>2, <2>3, <2>4, <2>9, <2>10, ClaimRoots
<1>4. CASE CompactClaim
  <2> DEFINE next == [kind |-> "compaction", control |-> "running", structural |-> Deciding(fresh + 1)]
             none == <<>>
             task == [t \in {fresh + 1} |-> compacting]
  <2>1. Claim(fresh, next, leaf, NoId, none, 2, none, task)
    BY <1>4 DEF CompactClaim
  <2>2. state' = next
    BY <2>1 DEF Claim
  <2>3. RootedState(state', entries, toolArgs, DOMAIN prep \cup DOMAIN task, leaf)
    BY <2>2 DEF RootedState, Deciding
  <2>4. /\ \A t \in DOMAIN task : task[t] \in Id
        /\ \A i \in DOMAIN none : none[i] \in DOMAIN none /\ none[i] \in InputKinds
    OBVIOUS
  <2> HIDE DEF next, none, task
  <2>5. none \in Seq(Id)
    BY <1>2 DEF none
  <2> QED
    BY <1>1, <1>2, <2>1, <2>3, <2>4, <2>5, ClaimRoots
<1>5. CASE NavigateSomewhere
  <2>1. PICK target \in DOMAIN entries \cup {NoId}, label \in BOOLEAN : Navigate(target, label)
    BY <1>5 DEF NavigateSomewhere
  <2> DEFINE next == [kind |-> "navigation", control |-> "running",
                      target |-> target, label |-> label]
             none == <<>>
  <2>2. Claim(fresh, next, leaf, target, none, 1, none, none)
    BY <2>1 DEF Navigate
  <2>3. target \in Id /\ Named(entries, target)
    BY DEF Sure, Driven, Base, Control, Id, NoId, Named
  <2>4. state' = next
    BY <2>2 DEF Claim
  <2>5. RootedState(state', entries, toolArgs, DOMAIN prep \cup DOMAIN none, leaf)
    BY <2>3, <2>4 DEF RootedState
  <2>6. \A i \in DOMAIN none : none[i] \in DOMAIN none /\ none[i] \in InputKinds /\ none[i] \in Id
    OBVIOUS
  <2> HIDE DEF next, none
  <2>7. none \in Seq(Id)
    BY <1>2 DEF none
  <2> QED
    BY <1>1, <2>2, <2>3, <2>5, <2>6, <2>7, ClaimRoots
<1> QED
  BY <1>3, <1>4, <1>5 DEF Claims

\* Every step leaves everything in place.
LEMMA RootedNext ==
  ASSUME Sure, compacting \in Id, [Next]_<<vars, scenario>>
  PROVE  Rooted'
<1>1. CASE UNCHANGED durable
  BY <1>1 DEF durable, Sure, Rooted, Metadata, Registers, PlacedOrPending, Placed, Waiting
<1>2. CASE PlanStep \/ ElapsedStep \/ EffectStep
  <2>1. CASE \/ CheckpointWrites \/ CheckpointAbort \/ CheckpointSteer
             \/ \E over \in BOOLEAN : CheckThreshold(over)
             \/ BeginGeneration \/ CheckpointFollowUp \/ RunEndHook \/ Complete
    BY <2>1, CheckpointRoots
  <2>2. CASE FailureInbox \/ FailureFinish
    BY <2>2, FailureRoots
  <2>3. CASE \/ GenerationAbort \/ AssistantIntent \/ AssistantRestored \/ RetryElapsed
             \/ \E resp \in Responses, prepared \in BOOLEAN : ModelReturns(resp, prepared)
             \/ ModelInterrupted
    BY <2>3, AssistantRoots
  <2>4. CASE \/ BatchComplete
             \/ \E i \in CallIndices : ToolRefused(i) \/ ToolIntent(i) \/ ToolGivenUp(i)
             \/ \E i \in CallIndices, terminate \in BOOLEAN : ToolBlocked(i, terminate)
             \/ \E i \in CallIndices, terminate \in BOOLEAN : ToolFinishes(i, terminate)
    BY <2>4, ToolsRoots
  <2>5. CASE \/ StructuralAbort \/ StructuralDeclined \/ StructuralHookSummary \/ StructuralGenerate
             \/ SummaryIntent \/ SummaryRestored \/ SummaryRetryElapsed
             \/ \E answer \in Answers : SummaryReturns(answer)
    BY <2>5, StructuralRoots
  <2>6. CASE NavigationStep
    BY <2>6, NavigationRoots
  <2>7. CASE \E i \in CallIndices : ToolReplayed(i)
    BY <1>1, <2>7 DEF ToolReplayed
  <2> QED
    BY <1>2, <2>1, <2>2, <2>3, <2>4, <2>5, <2>6, <2>7 DEF PlanStep, ElapsedStep, EffectStep
<1>3. CASE Reload \/ RetrySleep \/ Wake \/ Start
  <2>1. UNCHANGED durable
    BY <1>3 DEF Reload, RetrySleep, Wake, Start, RestoreClaim, Register, Deregister
  <2> QED
    BY <1>1, <2>1
<1>4. CASE CallerStep
  <2>1. CASE CompactPrepare \/ CompactBusy \/ AbortSignal \/ Resume \/ \E tools \in Registries : Crash(tools)
    <3>1. UNCHANGED durable
      BY <2>1 DEF CompactPrepare, CompactBusy, AbortSignal, Resume, Crash
    <3> QED
      BY <1>1, <3>1
  <2> QED
    BY <1>4, <2>1, AmendRoots, StartRoots DEF CallerStep, Claims
<1>5. CASE UNCHANGED <<vars, scenario>>
  <2>1. UNCHANGED durable
    BY <1>5 DEF vars
  <2> QED
    BY <1>1, <2>1
<1> QED
  BY <1>2, <1>3, <1>4, <1>5 DEF Next, DriverStep

(***************************************************************************)
(* The theorems.                                                           *)
(***************************************************************************)
\* What a compaction is prepared from, and who listens for a cancellation.
Aside == compacting \in Id /\ chan \in {"none", "old", "live"}

\* No step takes them out of their ranges.
LEMMA AsideNext ==
  ASSUME Driven, Aside, [Next]_<<vars, scenario>>
  PROVE  Aside'
<1>1. leaf \in Id /\ NoId \in Id
  BY DEF Driven, Base, Control, Id, NoId
<1>2. CASE CallerStep
  BY <1>1, <1>2 DEF CallerStep, StartRun, CompactPrepare, CompactClaim, CompactBusy, NavigateSomewhere,
    Navigate, Claim, NextRun, Abort, AbortSignal, Resume, Enqueue, Crash, callers, driverVars, Aside
<1>3. CASE Start \/ Reload \/ RetrySleep \/ Wake \/ \E i \in CallIndices : ToolReplayed(i)
  BY <1>3 DEF Start, RestoreClaim, Register, Deregister, Reload, RetrySleep, Wake, ToolReplayed,
    Leave, callers, Aside
<1>4. CASE Commits \/ Ends
  BY <1>4 DEF Commits, Ends, Transition, Terminal, Leave, callers, Aside
<1>5. CASE UNCHANGED <<vars, scenario>>
  BY <1>5 DEF vars, callers, driverVars, Aside
<1> QED
  BY <1>2, <1>3, <1>4, <1>5, DriverCommits DEF Next, DriverStep, Driven

\* A lane as it is seeded names nothing.
LEMMA SureInit ==
  ASSUME Init, Driven, Guarded, Housed
  PROVE  Sure /\ Aside
<1>1. /\ entries = <<>> /\ leaf = NoId /\ state = NoOperation /\ meta = NoMeta /\ usage = {}
      /\ toolArgs = {} /\ prep = <<>> /\ pending = <<>> /\ lastResult = NoResult
      /\ compacting = NoId /\ chan = "none"
  BY DEF Init, StoreInit, DriverInit
<1>2. /\ DOMAIN entries = {} /\ DOMAIN prep = {} /\ DOMAIN pending = {} /\ lastResult.outcome = "none"
      /\ NoId \in Id /\ <<>> \in Seq(Id) /\ state.kind = "none"
  BY <1>1 DEF NoResult, Id, NoId, NoOperation
<1>3. Conversation(entries, leaf)
  BY <1>1, <1>2 DEF Conversation, Named
<1>4. RootedState(state, entries, toolArgs, DOMAIN prep, leaf)
  BY <1>2 DEF RootedState
<1>5. Metadata
  BY <1>1, <1>2 DEF Metadata, NoMeta, Named
<1>6. Registers
  BY <1>1, <1>2 DEF Registers
<1> QED
  BY <1>1, <1>2, <1>3, <1>4, <1>5, <1>6 DEF Sure, Rooted, Aside

\* In every behaviour what a lane names is there.
THEOREM EverythingRooted == Spec => [](Sure /\ Aside)
<1>1. Init => Guarded /\ Housed
  BY GuardedInit
<1>2. Driven /\ Init => Sure /\ Aside
  BY <1>1, SureInit
<1>3. Driven' /\ Sure /\ Aside /\ [Next]_<<vars, scenario>> => (Sure /\ Aside)'
  <2> SUFFICES ASSUME Driven', Sure, Aside, [Next]_<<vars, scenario>>
               PROVE  (Sure /\ Aside)'
    OBVIOUS
  <2>1. Driven /\ Guarded /\ Housed /\ compacting \in Id
    BY DEF Sure, Aside
  <2>2. Guarded' /\ Housed'
    BY <2>1, GuardedNext, HousedNext
  <2> QED
    BY <2>1, <2>2, RootedNext, AsideNext DEF Sure
<1> QED
  BY <1>2, <1>3, Steering, PTL DEF Spec

\* Every variable of a lane keeps the shape the source gives it.
THEOREM LaneTypes == Spec => []TypeOK
<1>1. Sure /\ Aside => TypeOK
  <2> SUFFICES ASSUME Sure, Aside
               PROVE  TypeOK
    OBVIOUS
  <2>1. Control /\ fresh \in Id
    BY NoWritesBare DEF Sure, Driven, Base
  <2>2. ASSUME NEW id \in DOMAIN entries
        PROVE  id \in Id \ {NoId} /\ entries[id] \in Entry
    BY DEF Sure, Housed, Rooted, Conversation, Id, NoId
  <2> QED
    BY <2>1, <2>2 DEF TypeOK, Control, Sure, Rooted, Metadata, Registers, Aside
<1> QED
  BY <1>1, EverythingRooted, PTL

\* The results of a response stand in the order of its calls, directly below
\* it, whatever crashed, was cancelled or was refused in between.
THEOREM ResultsInOrder == Spec => []ResultsFollowCalls
<1>1. Sure => ResultsFollowCalls
  BY DEF Sure, Rooted, Conversation, Follows, ResultsFollowCalls, Placed
<1> QED
  BY <1>1, EverythingRooted, PTL

\* A phase whose parts are there is one that restore() accepts.
LEMMA ValidPhaseRooted ==
  ASSUME Sure, state.kind = "run", state \in Run
  PROVE  ValidPhase(state.phase)
<1> DEFINE ph == state.phase
<1>1. RootedPhase(ph, state.writes, entries, toolArgs, DOMAIN prep, leaf)
  BY DEF Sure, Rooted, RootedState
<1>2. ph \in Phase
  BY DEF Run
<1>3. /\ ph.p = "tools" => ph \in Tools
      /\ ph.p \in {"checkpoint", "assistant", "tools", "compaction", "failure"}
  BY <1>2, PhaseShape
<1>4. CASE ph.p = "checkpoint"
  <2>1. \A id \in Range(state.writes) : id \in DOMAIN pending
    BY QueuedWaits DEF Range
  <2> QED
    BY <1>1, <1>4, <2>1 DEF RootedPhase, ValidPhase, PlacedOrPending, Placed, Waiting
<1>5. CASE ph.p = "assistant"
  <2>1. ph.gen = "pending" => ph.response \notin DOMAIN entries
    <3>1. ph.gen = "pending" => ph.response \in Reserved(state)
      BY <1>5 DEF Reserved
    <3> QED
      BY <3>1 DEF Sure, Housed
  <2> QED
    BY <1>1, <1>5, <2>1 DEF RootedPhase, ValidPhase, PlacedOrPending, Placed
<1>6. CASE ph.p = "tools"
  <2>1. BatchRooted(ph, entries, toolArgs, leaf)
    BY <1>1, <1>6 DEF RootedPhase
  <2>2. IsInjective([i \in DOMAIN ph.calls |-> ph.calls[i].result])
    BY <1>6 DEF IsInjective, Sure, Guarded, Ran
  <2>3. ASSUME NEW i \in DOMAIN ph.calls
        PROVE  /\ ph.calls[i].status = "completed" =>
                    Placed(ph.calls[i].result) /\ entries[ph.calls[i].result].type = "toolResult"
               /\ ph.calls[i].status = "pending" => <<ph.step, i>> \in toolArgs
    BY <2>1 DEF BatchRooted, CallRooted, Placed
  <2>4. /\ Placed(ph.assistant) /\ entries[ph.assistant].type = "assistant"
        /\ Len(ph.calls) = Len(entries[ph.assistant].calls)
    BY <2>1 DEF BatchRooted, Placed
  <2> DEFINE results == [i \in DOMAIN ph.calls |-> ph.calls[i].result]
             injective == IsInjective(results)
             there(i) == /\ ph.calls[i].status = "completed" =>
                              /\ Placed(ph.calls[i].result)
                              /\ entries[ph.calls[i].result].type = "toolResult"
                         /\ ph.calls[i].status = "pending" => <<ph.step, i>> \in toolArgs
             all == \A i \in DOMAIN ph.calls : there(i)
  <2>5. ValidPhase(ph) = (/\ Placed(ph.assistant) /\ entries[ph.assistant].type = "assistant"
                          /\ Len(ph.calls) = Len(entries[ph.assistant].calls)
                          /\ injective /\ all)
    BY <1>6 DEF ValidPhase
  <2>6. injective /\ all
    BY <2>2, <2>3
  <2> HIDE DEF injective, all
  <2> QED
    BY <2>4, <2>5, <2>6
<1>7. CASE ph.p = "compaction"
  BY <1>1, <1>7 DEF RootedPhase, ValidPhase, Placed
<1>8. CASE ph.p = "failure"
  BY <1>1, <1>8 DEF RootedPhase, ValidPhase, Named, Placed
<1> QED
  BY <1>3, <1>4, <1>5, <1>6, <1>7, <1>8

\* A lane that names what is there can be restored, unless its newest response
\* says aborted and its operation does not.
LEMMA RootedRestores ==
  ASSUME Sure, AbortedOnlyUnderCancel
  PROVE  Restorable
<1>1. leaf # NoId => Placed(leaf)
  BY DEF Sure, Rooted, Conversation, Named, Placed
<1>2. \A id \in Range(lane.nextRun) : Waiting(id)
  <2>1. "nextRun" \in Lines /\ Waits(state, lane.nextRun)["nextRun"] = lane.nextRun
    BY DEF Lines, Waits
  <2>2. \A i \in DOMAIN lane.nextRun : lane.nextRun[i] \in DOMAIN pending
    BY <2>1 DEF Sure, Housed, Seats
  <2> QED
    BY <2>2 DEF Range, Waiting
<1>3. ASSUME Busy
      PROVE  state.kind # "none" /\ ValidCurrent
  <2>1. state \in OperationState
    BY <1>3 DEF Sure, Driven, Base, Control, OneOperation
  <2>2. state.kind # "none"
    BY <2>1, StateShape
  <2>3. /\ meta.source # NoId => Placed(meta.source)
        /\ \A i \in DOMAIN meta.prompts : PlacedOrPending(meta.prompts[i])
        /\ meta.target # NoId => Placed(meta.target)
    BY DEF Sure, Rooted, Metadata, Named, Placed
  <2>4. state.kind = "compaction" => state.structural.task \in DOMAIN prep
    BY DEF Sure, Rooted, RootedState
  <2>5. ASSUME state.kind = "run"
        PROVE  /\ state.latest # NoId => Placed(state.latest)
               /\ \A id \in Range(state.steer) \cup Range(state.followUp)
                              \cup Range(state.writes) \cup Range(state.drained) : Waiting(id)
               /\ ValidPhase(state.phase)
    <3>1. Named(entries, state.latest)
      BY <2>5 DEF Sure, Rooted, RootedState
    <3>2. \A id \in Range(state["steer"]) \cup Range(state["followUp"])
                      \cup Range(state["writes"]) \cup Range(state["drained"]) : Waiting(id)
      BY <2>5, QueuedWaits DEF Range, Waiting
    <3>3. state \in Run
      BY <2>1, <2>5, StateShape
    <3> QED
      BY <2>5, <3>1, <3>2, <3>3, ValidPhaseRooted DEF Named, Placed
  <2> QED
    BY <2>2, <2>3, <2>4, <2>5 DEF ValidCurrent
<1> QED
  BY <1>1, <1>2, <1>3 DEF Restorable

\* Nothing but a response settled as aborted while its operation was not
\* cancelled keeps a lane from being restored.
THEOREM OnlyAbortedBarsRestore == Spec => [](AbortedOnlyUnderCancel => AlwaysRestorable)
<1>1. Sure => (AbortedOnlyUnderCancel => AlwaysRestorable)
  BY RootedRestores DEF AlwaysRestorable
<1> QED
  BY <1>1, EverythingRooted, PTL

(***************************************************************************)
(* The newest response, and who it was cancelled for.                      *)
(***************************************************************************)
\* No entry is changed or taken away.
LEMMA EntriesKept ==
  ASSUME Sure, [Next]_<<vars, scenario>>
  PROVE  Keeps(entries, entries')
<1>1. ASSUME NEW tx, run = state, entries' = Extend(entries, tx.entries),
             \A id \in DOMAIN tx.entries : id \in Reserved(state) \cup DOMAIN pending \cup Minted(tx)
      PROVE  Keeps(entries, entries')
  <2>1. \A id \in DOMAIN tx.entries : id \notin DOMAIN entries
    BY <1>1 DEF Sure, Housed, Driven, Base, Control, Minted
  <2> QED
    BY <1>1, <2>1, ExtendKeeps
<1>2. entries' = entries => Keeps(entries, entries')
  BY DEF Keeps
<1>3. CASE pc \in Settled /\ Commits
  <2>1. CASE UNCHANGED durable
    BY <1>2, <2>1 DEF durable
  <2>2. ASSUME run = state, NEW tx, CommitTransition(state', tx), Legal(state', tx, then')
        PROVE  Keeps(entries, entries')
    <3>1. \A id \in tx.consumed : id \in DOMAIN pending
      <4>1. state.kind # "run" => tx.consumed = {}
        BY <2>2 DEF Legal
      <4>2. ASSUME state.kind = "run", NEW id \in tx.consumed
            PROVE  id \in DOMAIN pending
        <5>1. Drains(state', tx) /\ state \in Run
          BY <2>2, <4>2, WorkingIsBusy, <1>3, StateShape DEF Legal, Settled, Sure, Driven
        <5>6. PICK q \in QueueNames : \E n \in 1 .. Len(state[q]) :
                                       tx.consumed = {state[q][j] : j \in 1 .. n}
          <6>1. run = state /\ tx.consumed # {}
            BY <2>2, <4>2
          <6>2. \E q \in QueueNames : \E n \in 1 .. Len(run[q]) : tx.consumed = {run[q][j] : j \in 1 .. n}
            BY <5>1, <6>1 DEF Drains
          <6> QED
            BY <6>1, <6>2
        <5>2. PICK n \in 1 .. Len(state[q]) : tx.consumed = {state[q][j] : j \in 1 .. n}
          BY <5>6
        <5>3. state[q] \in Seq(Id)
          BY <5>1 DEF Run, QueueNames
        <5>4. PICK j \in 1 .. n : id = state[q][j]
          BY <4>2, <5>2
        <5>5. j \in DOMAIN state[q]
          BY <5>2, <5>3, <5>4
        <5> QED
          BY <4>2, <5>4, <5>5, QueuedWaits DEF QueueNames
      <4> QED
        BY <4>1, <4>2
    <3>2. \A id \in DOMAIN tx.entries : id \in Reserved(state) \cup tx.consumed \cup Minted(tx)
      BY <2>2 DEF Legal, Reserves
    <3> QED
      BY <1>1, <2>2, <3>1, <3>2 DEF CommitTransition, Write
  <2> QED
    BY <1>3, <2>1, <2>2, CommitFacts DEF Sure
<1>4. CASE pc \in Settled /\ Ends
  <2>1. CASE UNCHANGED durable
    BY <1>2, <2>1 DEF durable
  <2>2. ASSUME run = state, NEW outcome, NEW tx, NEW label,
               CommitTerminal(cur, outcome, tx, label), LegalEnd(outcome, tx)
        PROVE  Keeps(entries, entries')
    <3>1. \A id \in DOMAIN tx.entries : id \in Reserved(state) \cup DOMAIN pending \cup Minted(tx)
      BY <2>2 DEF LegalEnd
    <3>2. entries' = Extend(entries, tx.entries)
      BY <2>2 DEF CommitTerminal, Write, LegalEnd, Sound
    <3> QED
      BY <1>1, <2>2, <3>1, <3>2
  <2> QED
    BY <1>4, <2>1, <2>2, EndFacts DEF Sure
<1>5. CASE \/ \E q \in QueueKinds : \E kind \in KindsOf(q) : Enqueue(q, kind)
           \/ NextRun \/ Abort \/ Claims \/ Observes
  <2>1. entries' = entries
    BY <1>5, ClaimsOpen DEF Enqueue, NextRun, Abort, Observes, durable, Opens, Sure, Driven
  <2> QED
    BY <1>2, <2>1
<1> QED
  BY <1>3, <1>4, <1>5, NextCases DEF Sure

\* The newest response of a run stays as it was, or is one that just settled:
\* as aborted only if the run is cancelled or somebody signalled.
Recorded ==
  state'.kind = "run" =>
    \/ state.kind = "run" /\ state'.latest = state.latest
    \/ /\ state.kind = "run" /\ state'.latest \in DOMAIN entries'
       /\ entries'[state'.latest].stop = "aborted" => IsCancelled(state) \/ signal

\* A commit that has nothing to do with the newest response.
LEMMA KeepsLatest ==
  ASSUME Sure, pc \in Settled, run \in OperationState, NEW next, NEW tx, NEW effect,
         Transition(next, tx, effect), next.kind = "run" => run.kind = "run" /\ next.latest = run.latest
  PROVE  Recorded
<1>1. CASE StateFresh
  BY <1>1, FreshSnapshot DEF Transition, CommitTransition, Recorded
<1>2. CASE ~StateFresh
  BY <1>2 DEF Transition, durable, Recorded
<1> QED
  BY <1>1, <1>2

\* A run that takes up another phase keeps its newest response.
LEMMA RephaseRecorded ==
  ASSUME Sure, pc \in Settled, run \in Run, NEW ph, NEW tx, NEW effect, Transition(WithPhase(ph), tx, effect)
  PROVE  Recorded
<1>1. run.kind = "run" /\ WithPhase(ph).latest = run.latest /\ run \in OperationState
  BY DEF WithPhase, Run, OperationState
<1> QED
  BY <1>1, KeepsLatest

\* The end of an operation keeps none.
LEMMA EndRecorded ==
  ASSUME NEW outcome, NEW tx, NEW label, Terminal(outcome, tx, label)
  PROVE  Recorded
<1>1. state' = NoOperation \/ state' = state
  BY DEF Terminal, CommitTerminal, durable
<1> QED
  BY <1>1 DEF Recorded, NoOperation

\* settle_assistant() records why the response stopped.
LEMMA SettleRecorded ==
  ASSUME Sure, pc \in Settled, run \in Run, NEW resp, NEW prepared, Settle(resp, prepared)
  PROVE  Recorded
<1> DEFINE g == run.phase
           cancelled == IsCancelled(run) \/ signal
           stop == IF cancelled THEN "aborted"
                   ELSE IF resp.stop = "aborted" THEN "error" ELSE resp.stop
           ph == SettledPhase(g, resp, stop, cancelled, prepared)
           e == AssistantEntry(stop, resp.calls, cur.leaf)
           tx == [NoWrites EXCEPT
                    !.entries = [id \in {g.response} |-> e],
                    !.leaf = g.response,
                    !.usage = {g.usage},
                    !.prep = IF ph.p = "compaction"
                             THEN Extend(prep, [t \in {fresh} |-> cur.leaf]) ELSE prep,
                    !.minted = Len(resp.calls) + 1]
           next == Moved(ph, g.response)
<1>1. Transition(next, tx, "plan")
  BY DEF Settle, Moved
<1>2. next.kind = "run" /\ next.latest = g.response /\ run.kind = "run"
  BY DEF Moved, Run
<1>3. DOMAIN tx.entries = {g.response} /\ tx.entries[g.response] = e
  BY DEF NoWrites
<1>4. e.stop = "aborted" => cancelled
  BY DEF AssistantEntry
<1> HIDE DEF e, tx, next, cancelled, g
<1>5. CASE StateFresh
  <2>1. run = state
    BY <1>5, FreshSnapshot
  <2>2. state' = next /\ entries' = Extend(entries, tx.entries)
    BY <1>1, <1>5 DEF Transition, CommitTransition, Write
  <2>3. g.response \in DOMAIN entries' /\ entries'[g.response] = e
    BY <1>3, <2>2 DEF Extend
  <2> QED
    BY <1>2, <1>4, <2>1, <2>2, <2>3 DEF Recorded, cancelled
<1>6. CASE ~StateFresh
  BY <1>1, <1>6 DEF Transition, durable, Recorded
<1> QED
  BY <1>5, <1>6

\* The driver's steps record what they settle and keep the rest.
LEMMA DriverRecords ==
  ASSUME Sure, PlanStep \/ ElapsedStep \/ EffectStep
  PROVE  Recorded
<1> USE DEF Sure, Driven
<1>1. CASE UNCHANGED durable
  BY <1>1 DEF durable, Recorded
<1>2. ASSUME NEW p, Planning(p)
      PROVE  pc \in Settled /\ run \in Run
  BY <1>2, PlanningRun
<1>3. ASSUME pc \in {"model", "tool"}
      PROVE  pc \in Settled /\ run \in Run
  <2>1. run.kind = "run" /\ run \in OperationState
    BY <1>3 DEF Announced, Expects, Base, Coherent, Working, Snapshot, run
  <2> QED
    BY <1>3, <2>1, StateShape DEF Settled, Working
<1>4. ASSUME NEW q, NEW ids, ApplyInbox(q, ids), pc \in Settled, run \in Run, q \in QueueNames
      PROVE  Recorded
  <2>1. PICK ph : Transition([run EXCEPT !.phase = ph, ![q] = Remaining(run[q], ids)], Placement(ids), "plan")
    BY <1>4 DEF ApplyInbox
  <2> DEFINE next == [run EXCEPT !.phase = ph, ![q] = Remaining(run[q], ids)]
  <2>2. run.kind = "run" /\ next.latest = run.latest /\ run \in OperationState
    BY <1>4 DEF Run, OperationState, QueueNames
  <2> HIDE DEF next
  <2>3. Transition(next, Placement(ids), "plan")
    BY <2>1 DEF next
  <2> QED
    BY <1>4, <2>2, <2>3, KeepsLatest
<1>5. CASE \/ CheckpointWrites \/ CheckpointAbort \/ CheckpointSteer
           \/ \E over \in BOOLEAN : CheckThreshold(over)
           \/ BeginGeneration \/ CheckpointFollowUp \/ RunEndHook \/ Complete
  <2>1. Planning("checkpoint")
    BY <1>5 DEF CheckpointWrites, CheckpointAbort, CheckpointSteer, CheckThreshold, BeginGeneration,
      CheckpointFollowUp, RunEndHook, Complete, MayEnd
  <2>2. CASE CheckpointWrites \/ CheckpointSteer \/ CheckpointFollowUp
    BY <1>2, <1>4, <2>1, <2>2 DEF CheckpointWrites, CheckpointSteer, CheckpointFollowUp, QueueNames
  <2>3. CASE CheckpointAbort \/ Complete
    BY <2>3, EndRecorded DEF CheckpointAbort, AbortFinish, Complete
  <2>4. CASE BeginGeneration \/ RunEndHook \/ \E over \in BOOLEAN : CheckThreshold(over)
    BY <1>2, <2>1, <2>4, RephaseRecorded DEF BeginGeneration, RunEndHook, CheckThreshold
  <2> QED
    BY <1>5, <2>2, <2>3, <2>4
<1>6. CASE FailureInbox \/ FailureFinish
  BY <1>2, <1>4, <1>6, EndRecorded DEF FailureInbox, FailureFinish, AbortFinish, QueueNames
<1>7. CASE \/ GenerationAbort \/ AssistantIntent \/ AssistantRestored \/ RetryElapsed
           \/ \E resp \in Responses, prepared \in BOOLEAN : ModelReturns(resp, prepared)
           \/ ModelInterrupted
  <2>1. (pc \in {"model", "tool"} \/ Planning("assistant"))
    BY <1>7 DEF GenerationAbort, AssistantIntent, AssistantRestored, RetryElapsed, ModelReturns,
      ModelInterrupted, Generating
  <2>2. pc \in Settled /\ run \in Run
    BY <1>2, <1>3, <2>1
  <2>3. CASE GenerationAbort
    BY <2>3, EndRecorded DEF GenerationAbort, AbortFinish
  <2>4. CASE AssistantIntent \/ RetryElapsed
    BY <2>2, <2>4, RephaseRecorded DEF AssistantIntent, RetryElapsed
  <2>5. CASE AssistantRestored
    BY <2>2, <2>5, RephaseRecorded, SettleRecorded DEF AssistantRestored
  <2>6. CASE ModelInterrupted \/ \E resp \in Responses, prepared \in BOOLEAN : ModelReturns(resp, prepared)
    BY <2>2, <2>6, SettleRecorded DEF ModelInterrupted, ModelReturns
  <2> QED
    BY <1>7, <2>3, <2>4, <2>5, <2>6
<1>8. CASE \/ BatchComplete
           \/ \E i \in CallIndices : ToolRefused(i) \/ ToolIntent(i) \/ ToolGivenUp(i)
           \/ \E i \in CallIndices, terminate \in BOOLEAN : ToolBlocked(i, terminate)
           \/ \E i \in CallIndices, terminate \in BOOLEAN : ToolFinishes(i, terminate)
  <2>1. (pc \in {"model", "tool"} \/ Planning("tools"))
    BY <1>8 DEF BatchComplete, ToolRefused, ToolIntent, ToolGivenUp, ToolBlocked, ToolFinishes
  <2>2. pc \in Settled /\ run \in Run /\ run.kind = "run" /\ run \in OperationState
    BY <1>2, <1>3, <2>1 DEF Run, OperationState
  <2>3. ASSUME NEW i, NEW kind, NEW terminate, CommitResult(i, kind, terminate)
        PROVE  Recorded
    <3>1. PICK c, tx : Transition([run EXCEPT !.phase.calls[i] = c], tx, "plan")
      BY <2>3 DEF CommitResult
    <3>2. [run EXCEPT !.phase.calls[i] = c].latest = run.latest
      BY <2>2 DEF Run
    <3> QED
      BY <2>2, <3>1, <3>2, KeepsLatest
  <2>4. ASSUME NEW i, ToolIntent(i)
        PROVE  Recorded
    <3>1. PICK replay, tx : Transition([run EXCEPT !.phase.calls[i].status = "pending",
                                                   !.phase.calls[i].replay = replay], tx, "tool")
      BY <2>4 DEF ToolIntent
    <3>2. [run EXCEPT !.phase.calls[i].status = "pending", !.phase.calls[i].replay = replay].latest
            = run.latest
      BY <2>2 DEF Run
    <3> QED
      BY <2>2, <3>1, <3>2, KeepsLatest
  <2>5. CASE BatchComplete
    BY <2>2, <2>5, RephaseRecorded DEF BatchComplete
  <2> QED
    BY <1>8, <2>3, <2>4, <2>5 DEF ToolRefused, ToolGivenUp, ToolBlocked, ToolFinishes
<1>9. CASE \/ StructuralAbort \/ StructuralDeclined \/ StructuralHookSummary \/ StructuralGenerate
           \/ SummaryIntent \/ SummaryRestored \/ SummaryRetryElapsed
           \/ \E answer \in Answers : SummaryReturns(answer)
  <2>1. Compacting /\ pc \in {"plan", "summary"}
    <3>1. pc = "summary" => Compacting
      BY DEF Announced, Expects, Compacting, Standalone, run
    <3> QED
      BY <1>9, <3>1 DEF StructuralAbort, StructuralDeclined, StructuralHookSummary, StructuralGenerate,
        SummaryIntent, SummaryRestored, SummaryRetryElapsed, SummaryReturns, Structuring
  <2>2. /\ pc \in Settled /\ run \in OperationState /\ (Standalone => run \in Compaction)
        /\ ~Standalone => run \in Run
    BY <2>1, CompactingShape
  <2>3. ASSUME NEW tx, SummaryFails(tx)
        PROVE  Recorded
    BY <2>2, <2>3, EndRecorded, RephaseRecorded DEF SummaryFails
  <2>4. ASSUME NEW result, NEW tx, Publish(result, tx)
        PROVE  Recorded
    <3>1. PICK to : \/ Standalone /\ Terminal("completed", to, {})
                    \/ ~Standalone /\ Transition(WithPhase(run.phase.resume), to, "plan")
      BY <2>4 DEF Publish
    <3> QED
      BY <2>2, <3>1, EndRecorded, RephaseRecorded
  <2>5. ASSUME NEW s, NEW next, NEW tx, NEW effect,
               \/ next = WithStructural(s)
               \/ Standalone /\ next = [WithStructural(s) EXCEPT !.control = "running"],
               Transition(next, tx, effect)
        PROVE  Recorded
    <3>1. CASE Standalone
      <4>1. next.kind = "compaction"
        BY <2>2, <2>5, <3>1 DEF WithStructural, Compaction
      <4> QED
        BY <2>2, <2>5, <4>1, KeepsLatest
    <3>2. CASE ~Standalone
      <4>1. next = [run EXCEPT !.phase.structural = s] /\ run \in Run
        BY <2>2, <2>5, <3>2 DEF WithStructural
      <4>2. run.kind = "run" /\ next.latest = run.latest
        BY <4>1 DEF Run
      <4> QED
        BY <2>2, <2>5, <4>2, KeepsLatest
    <3> QED
      BY <3>1, <3>2
  <2>6. CASE StructuralAbort
    BY <2>6, EndRecorded DEF StructuralAbort, AbortFinish
  <2>7. CASE StructuralDeclined
    BY <2>2, <2>3, <2>7, EndRecorded, RephaseRecorded DEF StructuralDeclined
  <2>8. CASE StructuralHookSummary
    BY <2>4, <2>8 DEF StructuralHookSummary
  <2>9. CASE StructuralGenerate \/ SummaryIntent \/ SummaryRetryElapsed
    <3>1. PICK s, tx, effect : Transition(WithStructural(s), tx, effect)
      BY <2>9 DEF StructuralGenerate, SummaryIntent, SummaryRetryElapsed
    <3> QED
      BY <2>5, <3>1
  <2>10. CASE SummaryRestored
    BY <2>3, <2>5, <2>10 DEF SummaryRestored
  <2>11. ASSUME NEW answer \in Answers, SummaryReturns(answer)
         PROVE  Recorded
    <3>1. PICK s, tx, result :
             \/ Publish(result, tx) \/ SummaryFails(tx)
             \/ Transition(IF Standalone THEN [WithStructural(s) EXCEPT !.control = "running"]
                           ELSE WithStructural(s), tx, "plan")
      BY <2>11 DEF SummaryReturns
    <3> DEFINE next == IF Standalone THEN [WithStructural(s) EXCEPT !.control = "running"]
                       ELSE WithStructural(s)
    <3>2. \/ next = WithStructural(s)
          \/ Standalone /\ next = [WithStructural(s) EXCEPT !.control = "running"]
      OBVIOUS
    <3> HIDE DEF next
    <3> QED
      BY <2>3, <2>4, <2>5, <3>1, <3>2 DEF next
  <2> QED
    BY <1>9, <2>6, <2>7, <2>8, <2>9, <2>10, <2>11
<1>10. CASE NavigationStep
  BY <1>10, EndRecorded DEF NavigationStep, AbortFinish
<1>11. CASE \E i \in CallIndices : ToolReplayed(i)
  BY <1>1, <1>11 DEF ToolReplayed
<1> QED
  BY <1>5, <1>6, <1>7, <1>8, <1>9, <1>10, <1>11 DEF PlanStep, ElapsedStep, EffectStep

\* A new operation has no response yet; whatever else a lane does, the newest
\* response of a run stays as it was or is recorded with its reason.
LEMMA RecordedNext ==
  ASSUME Sure, [Next]_<<vars, scenario>>, state'.kind = "run", state'.latest # NoId
  PROVE  Recorded
<1>1. CASE PlanStep \/ ElapsedStep \/ EffectStep
  BY <1>1, DriverRecords
<1>2. CASE UNCHANGED durable
  BY <1>2 DEF durable, Recorded
<1>3. ASSUME NEW q \in QueueKinds, NEW kind \in KindsOf(q), Enqueue(q, kind)
      PROVE  Recorded
  <2>1. state \in Run /\ fresh \in Id /\ q \in QueueNames
    BY <1>3, StateShape, CallersAssumption
      DEF Enqueue, Sure, Driven, Base, Control, Id, QueueNames, NoOperation
  <2>2. SameWork(state, state')
    BY <1>3, <2>1, EnqueueUpdate DEF Enqueue
  <2> QED
    BY <1>3, <2>2 DEF SameWork, Enqueue, Recorded
<1>4. CASE NextRun
  BY <1>4 DEF NextRun, Recorded
<1>5. CASE Abort
  <2>1. state \in OperationState
    BY <1>5 DEF Abort, Restorable, Sure, Driven, Base, Control, NoOperation
  <2>2. state' = state \/ SameWork(state, state')
    BY <1>5, <2>1, CancelUpdate DEF Abort
  <2> QED
    BY <2>2 DEF SameWork, Recorded
<1>6. ASSUME NEW n \in PromptCounts, StartRun(n)
      PROVE  state'.latest = NoId
  BY <1>6 DEF StartRun, Claim
<1>7. CASE CompactClaim
  BY <1>7 DEF CompactClaim, Claim
<1>8. CASE NavigateSomewhere
  BY <1>8 DEF NavigateSomewhere, Navigate, Claim
<1>9. CASE \/ CompactPrepare \/ CompactBusy \/ AbortSignal \/ Resume \/ Start \/ Reload \/ RetrySleep \/ Wake
           \/ \E tools \in Registries : Crash(tools)
  BY <1>2, <1>9 DEF CompactPrepare, CompactBusy, AbortSignal, Resume, Crash, Start, RestoreClaim, Register,
    Deregister, Reload, RetrySleep, Wake
<1> QED
  BY <1>1, <1>2, <1>3, <1>4, <1>5, <1>6, <1>7, <1>8, <1>9 DEF Next, CallerStep, DriverStep, vars

\* Whoever is woken belongs to a run that was cancelled: no signal of an
\* earlier abort reaches a later run.
OwnSignal == state.kind = "run" /\ signal => IsCancelled(state)

\* A cancelled run that is still there is still cancelled.
StaysCancelled ==
  state.kind \in {"run", "navigation"} /\ IsCancelled(state)
    => \/ lane'.op = lane.op /\ IsCancelled(state')
       \/ lane'.op = NoId /\ lastResult'.outcome = "aborted"

\* A response is settled as aborted for its own run only.
LEMMA AbortedNext ==
  ASSUME Sure, Driven', OwnSignal, AbortedOnlyUnderCancel, [Next]_<<vars, scenario>>,
         [StaysCancelled]_vars
  PROVE  AbortedOnlyUnderCancel'
<1> SUFFICES ASSUME state'.kind = "run", state'.latest # NoId, state'.latest \in DOMAIN entries',
                    entries'[state'.latest].stop = "aborted"
             PROVE  IsCancelled(state')
  BY DEF AbortedOnlyUnderCancel, Placed
<1>1. state.kind = "run" /\ IsCancelled(state)
  <2>1. CASE state.kind = "run" /\ state'.latest = state.latest
    <3>1. state.latest \in DOMAIN entries
      BY <2>1 DEF Sure, Rooted, RootedState, Named
    <3>2. entries'[state.latest] = entries[state.latest]
      BY <3>1, EntriesKept DEF Keeps
    <3> QED
      BY <2>1, <3>1, <3>2 DEF AbortedOnlyUnderCancel, Placed
  <2>2. CASE state.kind = "run" /\ (IsCancelled(state) \/ signal)
    BY <2>2 DEF OwnSignal
  <2> QED
    BY <2>1, <2>2, RecordedNext DEF Recorded
<1>2. CASE StaysCancelled
  <2>1. lane'.op # NoId
    BY DEF Driven, Base, OneOperation, Busy, NoOperation
  <2> QED
    BY <1>1, <1>2, <2>1 DEF StaysCancelled
<1>3. CASE UNCHANGED vars
  BY <1>1, <1>3 DEF vars, durable
<1> QED
  BY <1>2, <1>3

\* A lane whose wake-ups reach only the run they were meant for can be
\* restored after every commit, whoever queues, aborts, crashes or compacts.
THEOREM OwnSignalsRestore == Spec /\ []OwnSignal => []AlwaysRestorable
<1>1. Init => AbortedOnlyUnderCancel
  BY DEF Init, StoreInit, NoOperation, AbortedOnlyUnderCancel
<1>2. ASSUME Sure, Driven', OwnSignal, AbortedOnlyUnderCancel, [Next]_<<vars, scenario>>,
             [StaysCancelled]_vars
      PROVE  AbortedOnlyUnderCancel'
  BY <1>2, AbortedNext
<1>3. CancelSticks => [][StaysCancelled]_vars
  <2>1. StaysCancelled <=>
          (state.kind \in {"run", "navigation"} /\ IsCancelled(state)
             => \/ lane'.op = lane.op /\ IsCancelled(state')
                \/ lane'.op = NoId /\ lastResult'.outcome = "aborted")
    BY DEF StaysCancelled
  <2> QED
    BY <2>1, PTL DEF CancelSticks
<1>4. Sure => Driven
  BY DEF Sure
<1> QED
  BY <1>1, <1>2, <1>3, <1>4, CancellationSticks, EverythingRooted, OnlyAbortedBarsRestore, PTL DEF Spec

(***************************************************************************)
(* Scenarios in which a wake-up cannot reach a later run: nothing is       *)
(* aborted, or there is no second operation.                               *)
(***************************************************************************)
OneToAbort ==
  \A s \in DOMAIN Scenarios :
    \/ Scenarios[s].bounds["aborts"] = 0
    \/ /\ Scenarios[s].bounds["runs"] <= 1
       /\ Scenarios[s].bounds["compacts"] = 0 /\ Scenarios[s].bounds["navigations"] = 0

\* Where something is aborted it is the one run; whoever is or will be woken
\* is woken for it.
Alone ==
  /\ signals \in Nat
  /\ Busy /\ Bounds["aborts"] # 0 => used["runs"] # 0
  /\ signals # 0 \/ signal =>
       /\ Bounds["aborts"] # 0 /\ used["runs"] # 0
       /\ state.kind = "run" => IsCancelled(state)
  /\ pc \in Working /\ IsCancelled(cur.state) =>
       /\ Bounds["aborts"] # 0
       /\ state.kind = "run" => IsCancelled(state)

\* How a step touches the cancel channel and the wake-ups on their way.
LEMMA SignalsNext ==
  ASSUME Driven, signals \in Nat, [Next]_<<vars, scenario>>
  PROVE  /\ signals' \in Nat
         /\ \/ Abort
            \/ signals # 0 /\ UNCHANGED <<durable, pc, cur, used>>
            \/ pc = "claimed" /\ signal' = IsCancelled(cur.state) /\ signals' = signals
               /\ UNCHANGED <<durable, cur, used>>
            \/ (signals' # 0 => signals # 0) /\ (signal' => signal)
<1> USE DEF Driven
<1>1. CASE CallerStep
  <2>1. CASE Abort
    BY <2>1 DEF Abort
  <2>2. CASE AbortSignal
    BY <2>2 DEF AbortSignal
  <2>3. CASE \/ (\E n \in PromptCounts : StartRun(n)) \/ CompactPrepare \/ CompactClaim \/ CompactBusy
             \/ NavigateSomewhere \/ NextRun \/ Resume
             \/ \E queue \in QueueKinds : \E kind \in KindsOf(queue) : Enqueue(queue, kind)
             \/ \E tools \in Registries : Crash(tools)
    <3>1. /\ signals' = signals \/ signals' = 0
          /\ signal' = signal \/ signal' = FALSE
      BY <2>3 DEF StartRun, Claim, CompactPrepare, CompactClaim, CompactBusy, NavigateSomewhere, Navigate,
        NextRun, Resume, Enqueue, Crash, driverVars, callers
    <3> QED
      BY <3>1
  <2> QED
    BY <1>1, <2>1, <2>2, <2>3 DEF CallerStep
<1>2. CASE Register
  BY <1>2 DEF Register, callers
<1>3. CASE RestoreClaim \/ Deregister \/ Reload \/ RetrySleep \/ Wake \/ \E i \in CallIndices : ToolReplayed(i)
  BY <1>3 DEF RestoreClaim, Deregister, Reload, Leave, RetrySleep, Wake, ToolReplayed, callers
<1>4. CASE PlanStep \/ ElapsedStep \/ EffectStep
  <2>1. CASE Commits
    BY <2>1 DEF Commits, Transition, callers
  <2>2. CASE Ends
    BY <2>2 DEF Ends, Terminal, Leave, callers
  <2> QED
    BY <1>3, <1>4, <2>1, <2>2, DriverCommits
<1>5. CASE UNCHANGED <<vars, scenario>>
  BY <1>5 DEF vars, driverVars, callers
<1> QED
  BY <1>1, <1>2, <1>3, <1>4, <1>5 DEF Next, Start, DriverStep

\* In such a scenario only the one run is ever aborted, and its wake-ups come
\* while it is open or find nobody.
LEMMA AloneNext ==
  ASSUME Driven, Driven', Allowed, Alone, OneToAbort, [Next]_<<vars, scenario>>, [StaysCancelled]_vars
  PROVE  Alone'
<1> USE DEF Driven
<1>1. /\ used' \in [Choices -> Nat] /\ Bounds' = Bounds /\ used["runs"] <= used'["runs"]
      /\ Bounds \in [Choices -> Nat] /\ used \in [Choices -> Nat]
  BY UsedCounts, BoundsShape DEF Allowed, Next, Bounds, Choices
<1>2. Bounds["aborts"] # 0 =>
        Bounds["runs"] <= 1 /\ Bounds["compacts"] = 0 /\ Bounds["navigations"] = 0
  BY DEF OneToAbort, Bounds, Base, Control
<1>3. used["runs"] # 0 => used'["runs"] # 0
  BY <1>1 DEF Choices
\* What a step makes of a cancelled run.
<1>4. state.kind = "run" /\ IsCancelled(state) /\ state'.kind = "run" => IsCancelled(state')
  <2>1. state'.kind = "run" => lane'.op # NoId
    BY DEF Base, OneOperation, Busy, NoOperation
  <2> QED
    BY <2>1 DEF StaysCancelled, vars, durable
<1>5. ASSUME NEW n \in PromptCounts, StartRun(n)
      PROVE  /\ used'["runs"] # 0 /\ pc' = "restore" /\ signals' = signals /\ signal' = signal
             /\ Bounds["aborts"] # 0 => used["runs"] = 0
  <2>1. Spend("runs") /\ pc' = "restore" /\ signals' = signals /\ signal' = signal
    BY <1>5 DEF StartRun, Claim
  <2>2. used["runs"] < Bounds["runs"] /\ used'["runs"] = used["runs"] + 1
    BY <1>1, <2>1 DEF Spend, Choices
  <2> QED
    BY <1>1, <1>2, <2>1, <2>2 DEF Choices
<1>6. CASE CompactClaim \/ NavigateSomewhere
  <2>1. Bounds["compacts"] # 0 \/ Bounds["navigations"] # 0
    BY <1>1, <1>6, Spent DEF CompactClaim, NavigateSomewhere, Navigate, Allowed, Choices
  <2>2. Bounds["aborts"] = 0
    BY <1>2, <2>1
  <2>3. pc' = "restore" /\ signals' = signals /\ signal' = signal
    BY <1>6 DEF CompactClaim, NavigateSomewhere, Navigate, Claim
  <2> QED
    BY <1>1, <2>2, <2>3 DEF Alone, Working
<1>7. ASSUME NEW n \in PromptCounts, StartRun(n)
      PROVE  Alone'
  BY <1>1, <1>5, <1>7 DEF Alone, Working
\* Everything else leaves the lane open, or frees it.
<1>8. CASE ~Claims
  <2>1. Busy' => Busy
    BY <1>8, NextCases, CommitFacts, EndFacts
      DEF Enqueue, NextRun, Abort, Observes, durable, Busy, CommitTerminal, Base, Control
  <2>2. state'.kind = "run" => state.kind = "run"
    <3>1. ASSUME pc \in Settled, Commits, state'.kind = "run"
          PROVE  state.kind = "run"
      BY <3>1, CommitFacts DEF Legal, durable
    <3>2. ASSUME pc \in Settled, Ends, state'.kind = "run"
          PROVE  state.kind = "run"
      <4>1. state' = state \/ state' = NoOperation
        BY <3>2, EndFacts DEF CommitTerminal, durable
      <4> QED
        BY <3>2, <4>1 DEF NoOperation
    <3>3. ASSUME Abort, state'.kind = "run"
          PROVE  state.kind = "run"
      <4>1. state \in OperationState
        BY <3>3 DEF Abort, Restorable, Base, Control, NoOperation
      <4>2. SameWork(state, Cancel(state))
        BY <4>1, CancelUpdate
      <4>3. state' = state \/ state' = Cancel(state)
        BY <3>3 DEF Abort
      <4> QED
        BY <3>3, <4>2, <4>3 DEF SameWork
    <3> QED
      BY <1>8, <3>1, <3>2, <3>3, NextCases DEF Enqueue, NextRun, Observes, durable
  <2>3. Busy' /\ Bounds'["aborts"] # 0 => used'["runs"] # 0
    BY <1>1, <1>3, <2>1 DEF Alone
  <2>4. signals' \in Nat
    BY SignalsNext DEF Alone
  <2>5. ASSUME signals' # 0 \/ signal'
        PROVE  /\ Bounds'["aborts"] # 0 /\ used'["runs"] # 0
               /\ state'.kind = "run" => IsCancelled(state')
    <3>1. CASE Abort
      <4>1. Bounds["aborts"] # 0 /\ Busy /\ Restorable
        BY <3>1, Spent DEF Abort, Allowed, Choices
      <4>2. state \in OperationState
        BY <4>1 DEF Restorable, Base, Control, NoOperation
      <4>3. IsCancelled(state')
        BY <3>1, <4>2, CancelUpdate DEF Abort, IsCancelled
      <4> QED
        BY <1>1, <1>3, <4>1, <4>3 DEF Alone
    <3>2. CASE signals # 0 \/ signal
      BY <1>1, <1>3, <1>4, <2>2, <3>2 DEF Alone
    <3>3. CASE /\ pc = "claimed" /\ signal' = IsCancelled(cur.state) /\ signals' = signals
               /\ UNCHANGED <<durable, cur, used>> /\ ~(signals # 0 \/ signal)
      <4>1. IsCancelled(cur.state) /\ pc \in Working /\ Busy
        BY <2>5, <3>3, WorkingIsBusy DEF Working
      <4>2. Bounds["aborts"] # 0 /\ used["runs"] # 0
        BY <4>1 DEF Alone
      <4>3. state'.kind = "run" => IsCancelled(state')
        BY <1>4, <2>2, <4>1 DEF Alone
      <4> QED
        BY <1>1, <1>3, <4>2, <4>3
    <3> QED
      BY <2>5, <3>1, <3>2, <3>3, SignalsNext DEF Alone
  <2>6. ASSUME pc' \in Working, IsCancelled(cur'.state)
        PROVE  /\ Bounds'["aborts"] # 0
               /\ state'.kind = "run" => IsCancelled(state')
    <3>1. CASE cur' = cur /\ pc \in Working
      BY <1>1, <1>4, <2>2, <2>6, <3>1 DEF Alone
    <3>2. CASE cur' = Current /\ UNCHANGED durable
      <4>1. cur'.state = state /\ state' = state
        BY <3>2 DEF Current, durable
      <4>2. state # NoOperation
        <5>1. Coherent' /\ OneOperation'
          BY DEF Base
        <5>2. Busy'
          BY <2>6, <5>1 DEF Coherent, OneOperation, Busy, Snapshot, Working
        <5> QED
          BY <4>1, <5>1, <5>2 DEF OneOperation
      <4> QED
        BY <1>1, <2>6, <4>1, <4>2 DEF Allowed
    <3>3. (cur' = cur /\ pc \in Working) \/ (cur' = Current /\ UNCHANGED durable)
      <4>1. ASSUME pc \in Settled, Commits
            PROVE  cur' = cur /\ pc \in Working
        BY <4>1, CommitFacts DEF Settled
      <4>2. ASSUME pc \in Settled, Ends
            PROVE  cur' = cur /\ pc \in Working
        BY <2>6, <4>2, EndFacts DEF Settled, Working
      <4>3. CASE Observes
        <5>1. UNCHANGED durable
          BY <4>3 DEF Observes
        <5> QED
          BY <2>6, <4>3, <5>1 DEF Observes
      <4>4. ASSUME UNCHANGED driverVars
            PROVE  cur' = cur /\ pc \in Working
        BY <2>6, <4>4 DEF driverVars
      <4>5. CASE NextRun
        BY <4>4, <4>5 DEF NextRun
      <4>6. CASE Abort
        BY <4>4, <4>6 DEF Abort
      <4>7. ASSUME NEW q \in QueueKinds, NEW kind \in KindsOf(q), Enqueue(q, kind)
            PROVE  cur' = cur /\ pc \in Working
        BY <4>4, <4>7 DEF Enqueue
      <4>8. CASE Claims
        BY <1>8, <4>8
      <4> QED
        BY <4>1, <4>2, <4>3, <4>5, <4>6, <4>7, <4>8, NextCases
    <3> QED
      BY <3>1, <3>2, <3>3
  <2> QED
    BY <2>3, <2>4, <2>5, <2>6 DEF Alone
<1> QED
  BY <1>6, <1>7, <1>8 DEF Claims

\* A lane that is never aborted, or has one run to abort, can be restored after
\* every commit: with any input, any tools, crashes and races with the abort.
THEOREM OneAbortRestores == OneToAbort => (Spec => []AlwaysRestorable)
<1> SUFFICES ASSUME OneToAbort
             PROVE  Spec => []AlwaysRestorable
  OBVIOUS
<1>1. Init => Allowed /\ Alone /\ scenario \in DOMAIN Scenarios
  BY ScenariosAssumption
    DEF Init, StoreInit, DriverInit, Allowed, Alone, Busy, Working, Choices, NoId, NoOperation
<1>2. NoCompactionToAbort
  BY DEF OneToAbort, NoCompactionToAbort
<1>3. ASSUME Driven, Driven', Allowed, Alone, [Next]_<<vars, scenario>>, [StaysCancelled]_vars
      PROVE  Allowed' /\ Alone'
  BY <1>2, <1>3, AllowedNext, AloneNext
<1>4. Alone => OwnSignal
  BY DEF Alone, OwnSignal
<1>5. CancelSticks => [][StaysCancelled]_vars
  <2>1. StaysCancelled <=>
          (state.kind \in {"run", "navigation"} /\ IsCancelled(state)
             => \/ lane'.op = lane.op /\ IsCancelled(state')
                \/ lane'.op = NoId /\ lastResult'.outcome = "aborted")
    BY DEF StaysCancelled
  <2> QED
    BY <2>1, PTL DEF CancelSticks
<1> QED
  BY <1>1, <1>3, <1>4, <1>5, Steering, CancellationSticks, OwnSignalsRestore, PTL DEF Spec

(***************************************************************************)
(* The branch below an id.                                                 *)
(***************************************************************************)
\* The parents of a set of entries: LeftFold climbs once per element of a sequence.
Parents(ids, E) == {E[x].parent : x \in ids \ {NoId}}

Climb == INSTANCE LeftFold WITH Op <- Parents

\* The recursion of Ancestors: what is n parents above id.
Above(E, id) ==
  LET up[n \in Nat] == IF n = 0 THEN {id} ELSE {E[x].parent : x \in up[n - 1] \ {NoId}}
  IN  up

AncestorsIn(E, id) == (UNION {Above(E, id)[n] : n \in 0 .. Cardinality(DOMAIN E)}) \ {NoId}

\* Ancestors() of the properties is AncestorsIn() of the lane's entries ...
LEMMA AncestorsNow ==
  ASSUME NEW id
  PROVE  Ancestors(id) = AncestorsIn(entries, id)
BY DEF Ancestors, AncestorsIn, Above

\* ... and so is the branch after a step.
LEMMA BranchNext == Branch' = AncestorsIn(entries', leaf')
BY DEF Branch, Ancestors, AncestorsIn, Above

\* The recursion has a solution: climbing n times.
LEMMA AboveSteps ==
  ASSUME NEW E, NEW id
  PROVE  /\ Above(E, id)[0] = {id}
         /\ \A n \in Nat : Above(E, id)[n + 1] = Parents(Above(E, id)[n], E)
<1> DEFINE times(n) == [i \in 1 .. n |-> E]
           f == [n \in Nat |-> Climb!Folded({id}, times(n))]
           Solves(g) == g = [n \in Nat |-> IF n = 0 THEN {id} ELSE Parents(g[n - 1], E)]
<1>1. f[0] = {id}
  <2>1. times(0) = <<>>
    OBVIOUS
  <2> QED
    BY <2>1, Climb!FoldEmpty
<1>2. ASSUME NEW n \in Nat
      PROVE  f[n + 1] = Parents(f[n], E)
  <2>1. times(n) \in Seq({E}) /\ <<E>> \in Seq({E}) /\ times(n + 1) = times(n) \o <<E>>
    OBVIOUS
  <2>2. f[n] = Climb!Folded({id}, times(n)) /\ f[n + 1] = Climb!Folded({id}, times(n + 1))
    OBVIOUS
  <2> HIDE DEF f, times
  <2>3. Climb!Folded({id}, times(n) \o <<E>>) = Climb!Folded(Climb!Folded({id}, times(n)), <<E>>)
    BY <2>1, Climb!FoldConcat
  <2>4. Climb!Folded(f[n], <<E>>) = Parents(f[n], E)
    BY Climb!FoldOne
  <2> QED
    BY <2>1, <2>2, <2>3, <2>4
<1>3. Solves(f)
  <2>1. ASSUME NEW n \in Nat, n # 0
        PROVE  f[n] = Parents(f[n - 1], E)
    <3>1. n - 1 \in Nat /\ (n - 1) + 1 = n
      BY <2>1
    <3> QED
      BY <1>2, <3>1
  <2>2. DOMAIN f = Nat /\ f = [n \in Nat |-> f[n]]
    OBVIOUS
  <2> HIDE DEF f
  <2> QED
    BY <1>1, <2>1, <2>2
<1> HIDE DEF f
<1>4. Above(E, id) = CHOOSE g : Solves(g)
  BY DEF Above, Parents
<1>5. Solves(Above(E, id))
  BY <1>3, <1>4
<1>6. Above(E, id)[0] = {id}
  BY <1>5
<1>7. ASSUME NEW n \in Nat
      PROVE  Above(E, id)[n + 1] = Parents(Above(E, id)[n], E)
  <2>1. n + 1 \in Nat /\ n + 1 # 0 /\ (n + 1) - 1 = n
    OBVIOUS
  <2> DEFINE u == Above(E, id)
  <2>2. u = [m \in Nat |-> IF m = 0 THEN {id} ELSE Parents(u[m - 1], E)]
    BY <1>5
  <2> HIDE DEF u
  <2>3. u[n + 1] = Parents(u[n], E)
    BY <2>1, <2>2
  <2> QED
    BY <2>3 DEF u
<1> QED
  BY <1>6, <1>7

\* Above an entry is its parent, and what is above that.
LEMMA AboveParent ==
  ASSUME NEW E, NEW id, id # NoId
  PROVE  \A n \in Nat : Above(E, id)[n + 1] = Above(E, E[id].parent)[n]
<1> DEFINE p == E[id].parent
           S == {n \in Nat : Above(E, id)[n + 1] = Above(E, p)[n]}
<1>1. 0 \in S
  <2>1. Above(E, id)[0 + 1] = Parents({id}, E)
    <3>1. Above(E, id)[0] = {id} /\ 0 \in Nat
      BY AboveSteps
    <3>2. \A n \in Nat : Above(E, id)[n + 1] = Parents(Above(E, id)[n], E)
      BY AboveSteps
    <3>3. Above(E, id)[0 + 1] = Parents(Above(E, id)[0], E)
      BY <3>1, <3>2
    <3> QED
      BY <3>1, <3>3
  <2>2. Parents({id}, E) = {p}
    BY DEF Parents
  <2> QED
    BY <2>1, <2>2, AboveSteps
<1>2. ASSUME NEW n \in Nat, n \in S
      PROVE  n + 1 \in S
  <2>1. Above(E, id)[(n + 1) + 1] = Parents(Above(E, id)[n + 1], E)
    BY AboveSteps
  <2> QED
    BY <1>2, <2>1, AboveSteps
<1> HIDE DEF S
<1>3. Nat \subseteq S
  BY <1>1, <1>2, Climb!NatInduct
<1> QED
  BY <1>3 DEF S

\* A conversation in which every entry has a height: one more than its parent, and
\* not more than there are entries.
Heights(E, h) ==
  \A id \in DOMAIN E :
    /\ h[id] \in 1 .. Cardinality(DOMAIN E)
    /\ IF E[id].parent = NoId THEN h[id] = 1
       ELSE E[id].parent \in DOMAIN E /\ h[E[id].parent] = h[id] - 1

Tree(E) == IsFiniteSet(DOMAIN E) /\ NoId \notin DOMAIN E /\ \E h : Heights(E, h)

\* n parents above an entry of height h is one of height h - n, or the root is passed.
LEMMA AboveHeight ==
  ASSUME NEW E, Tree(E), NEW h, Heights(E, h), NEW id \in DOMAIN E
  PROVE  \A n \in Nat : \A x \in Above(E, id)[n] :
           x = NoId \/ (x \in DOMAIN E /\ h[x] = h[id] - n /\ n < Cardinality(DOMAIN E))
<1> DEFINE S == {n \in Nat : \A x \in Above(E, id)[n] : x = NoId \/ (x \in DOMAIN E /\ h[x] = h[id] - n)}
<1>0. Cardinality(DOMAIN E) \in Nat
  BY FS_CardinalityType DEF Tree
<1>1. 0 \in S
  <2>1. h[id] \in Int
    BY <1>0 DEF Heights
  <2> QED
    BY <2>1, AboveSteps
<1>2. ASSUME NEW n \in Nat, n \in S
      PROVE  n + 1 \in S
  <2>1. ASSUME NEW x \in Above(E, id)[n + 1], x # NoId
        PROVE  x \in DOMAIN E /\ h[x] = h[id] - (n + 1)
    <3>1. PICK y \in Above(E, id)[n] \ {NoId} : x = E[y].parent
      BY <2>1, AboveSteps DEF Parents
    <3>2. y \in DOMAIN E /\ h[y] = h[id] - n
      BY <1>2, <3>1
    <3>3. x \in DOMAIN E /\ h[x] = h[y] - 1 /\ h[id] \in Int
      BY <1>0, <2>1, <3>1, <3>2 DEF Heights
    <3> QED
      BY <3>2, <3>3
  <2> QED
    BY <2>1
<1> HIDE DEF S
<1>3. Nat \subseteq S
  BY <1>1, <1>2, Climb!NatInduct
<1>4. ASSUME NEW n \in Nat, NEW x \in Above(E, id)[n], x # NoId
      PROVE  x \in DOMAIN E /\ h[x] = h[id] - n /\ n < Cardinality(DOMAIN E)
  <2>1. x \in DOMAIN E /\ h[x] = h[id] - n
    BY <1>3, <1>4 DEF S
  <2>2. h[x] \in 1 .. Cardinality(DOMAIN E) /\ h[id] \in 1 .. Cardinality(DOMAIN E)
    BY <2>1 DEF Heights
  <2> QED
    BY <1>0, <2>1, <2>2
<1> QED
  BY <1>4

\* Nothing is above the root.
LEMMA AboveRoot ==
  ASSUME NEW E
  PROVE  \A n \in Nat : Above(E, NoId)[n] \subseteq {NoId}
<1> DEFINE S == {n \in Nat : Above(E, NoId)[n] \subseteq {NoId}}
<1>1. 0 \in S
  BY AboveSteps
<1>2. ASSUME NEW n \in Nat, n \in S
      PROVE  n + 1 \in S
  <2>1. Parents(Above(E, NoId)[n], E) = {}
    BY <1>2 DEF Parents
  <2> QED
    BY <2>1, AboveSteps
<1> HIDE DEF S
<1>3. Nat \subseteq S
  BY <1>1, <1>2, Climb!NatInduct
<1> QED
  BY <1>3 DEF S

\* In a tree the branch below an id is all that is above it, however far.
LEMMA AncestorsAbove ==
  ASSUME NEW E, Tree(E), NEW id, Named(E, id)
  PROVE  /\ \A x : x \in AncestorsIn(E, id) <=> x # NoId /\ \E n \in Nat : x \in Above(E, id)[n]
         /\ AncestorsIn(E, id) \subseteq DOMAIN E
<1>1. PICK h : Heights(E, h)
  BY DEF Tree
<1>2. Cardinality(DOMAIN E) \in Nat
  BY FS_CardinalityType DEF Tree
<1>3. ASSUME NEW n \in Nat, NEW x \in Above(E, id)[n], x # NoId
      PROVE  x \in DOMAIN E /\ n < Cardinality(DOMAIN E)
  BY <1>1, <1>3, AboveHeight, AboveRoot DEF Named
<1>4. ASSUME NEW n \in Nat, NEW x \in Above(E, id)[n], x # NoId
      PROVE  x \in AncestorsIn(E, id)
  <2>1. n \in 0 .. Cardinality(DOMAIN E)
    BY <1>2, <1>3, <1>4
  <2> QED
    BY <1>4, <2>1 DEF AncestorsIn
<1>5. ASSUME NEW x \in AncestorsIn(E, id)
      PROVE  x # NoId /\ \E n \in Nat : x \in Above(E, id)[n]
  BY <1>2 DEF AncestorsIn
<1> QED
  BY <1>3, <1>4, <1>5

\* The branch of an entry is the entry and the branch of its parent.
LEMMA AncestorsStep ==
  ASSUME NEW E, Tree(E), NEW id \in DOMAIN E
  PROVE  AncestorsIn(E, id) = {id} \cup AncestorsIn(E, E[id].parent)
<1>1. id # NoId /\ Named(E, id) /\ Named(E, E[id].parent)
  BY DEF Tree, Heights, Named
<1>2. ASSUME NEW x \in AncestorsIn(E, id), x # id
      PROVE  x \in AncestorsIn(E, E[id].parent)
  <2>1. PICK n \in Nat : x \in Above(E, id)[n]
    BY <1>1, <1>2, AncestorsAbove
  <2>2. n # 0
    BY <1>2, <2>1, AboveSteps
  <2>3. n - 1 \in Nat /\ n = (n - 1) + 1
    BY <2>2
  <2>4. x \in Above(E, E[id].parent)[n - 1]
    BY <1>1, <2>1, <2>3, AboveParent
  <2> QED
    BY <1>1, <1>2, <2>3, <2>4, AncestorsAbove
<1>3. ASSUME NEW x \in AncestorsIn(E, E[id].parent)
      PROVE  x \in AncestorsIn(E, id)
  <2>1. PICK n \in Nat : x \in Above(E, E[id].parent)[n]
    BY <1>1, <1>3, AncestorsAbove
  <2>2. x \in Above(E, id)[n + 1] /\ n + 1 \in Nat /\ x # NoId
    BY <1>1, <1>3, <2>1, AboveParent, AncestorsAbove
  <2> QED
    BY <1>1, <2>2, AncestorsAbove
<1>4. id \in AncestorsIn(E, id)
  <2>1. id \in Above(E, id)[0]
    BY AboveSteps
  <2> QED
    BY <1>1, <2>1, AncestorsAbove
<1> QED
  BY <1>2, <1>3, <1>4

\* A longer conversation does not change the branch of what was there.
LEMMA AncestorsKept ==
  ASSUME NEW E, Tree(E), NEW F, Tree(F), Keeps(E, F), NEW id, Named(E, id)
  PROVE  AncestorsIn(F, id) = AncestorsIn(E, id)
<1> DEFINE S == {n \in Nat : Above(F, id)[n] = Above(E, id)[n]}
<1>1. 0 \in S
  BY AboveSteps
<1>2. ASSUME NEW n \in Nat, n \in S
      PROVE  n + 1 \in S
  <2>1. \A x \in Above(E, id)[n] \ {NoId} : F[x] = E[x]
    BY AncestorsAbove DEF Keeps
  <2>2. Parents(Above(F, id)[n], F) = Parents(Above(E, id)[n], E)
    BY <1>2, <2>1 DEF Parents
  <2> QED
    BY <2>2, AboveSteps
<1>3. Nat \subseteq S
  <2> HIDE DEF S
  <2> QED
    BY <1>1, <1>2, Climb!NatInduct
<1>4. \A n \in Nat : Above(F, id)[n] = Above(E, id)[n]
  BY <1>3
<1>5. Named(F, id)
  BY DEF Named, Keeps
<1> QED
  BY <1>4, <1>5, AncestorsAbove

\* One conversation grows to another, by the entries of its branch alone.
Grown(E, tip, F, to) ==
  /\ Keeps(E, F) /\ Tree(F) /\ Named(F, to)
  /\ AncestorsIn(F, to) = AncestorsIn(E, tip) \cup (DOMAIN F \ DOMAIN E)

\* A conversation that stays as it is.
LEMMA GrownStill ==
  ASSUME NEW E, Tree(E), NEW tip, Named(E, tip)
  PROVE  Grown(E, tip, E, tip)
BY DEF Grown, Keeps

\* An entry below the tip makes a tree of one more.
LEMMA TreeGrows ==
  ASSUME NEW E, Tree(E), NEW tip, Named(E, tip), NEW id, id \notin DOMAIN E, id # NoId,
         NEW F, Keeps(E, F), DOMAIN F = DOMAIN E \cup {id}, F[id].parent = tip
  PROVE  Tree(F)
<1>1. PICK h : Heights(E, h)
  BY DEF Tree
<1> DEFINE g == [x \in DOMAIN F |-> IF x # id THEN h[x] ELSE IF tip = NoId THEN 1 ELSE h[tip] + 1]
<1>2. /\ IsFiniteSet(DOMAIN F) /\ Cardinality(DOMAIN F) = Cardinality(DOMAIN E) + 1
      /\ Cardinality(DOMAIN E) \in Nat
  BY FS_AddElement, FS_CardinalityType DEF Tree
<1>3. ASSUME NEW x \in DOMAIN F
      PROVE  /\ g[x] \in 1 .. Cardinality(DOMAIN F)
             /\ IF F[x].parent = NoId THEN g[x] = 1
                ELSE F[x].parent \in DOMAIN F /\ g[F[x].parent] = g[x] - 1
  <2>1. CASE x = id
    <3>1. tip # NoId => tip \in DOMAIN E /\ tip # id /\ g[tip] = h[tip] /\ h[tip] \in 1 .. Cardinality(DOMAIN E)
      BY <1>1 DEF Heights, Named
    <3>2. g[id] = IF tip = NoId THEN 1 ELSE h[tip] + 1
      OBVIOUS
    <3> HIDE DEF g
    <3> QED
      BY <1>2, <2>1, <3>1, <3>2
  <2>2. CASE x # id
    <3>1. x \in DOMAIN E /\ F[x] = E[x] /\ g[x] = h[x]
      BY <2>2 DEF Keeps
    <3>2. /\ h[x] \in 1 .. Cardinality(DOMAIN E)
          /\ IF E[x].parent = NoId THEN h[x] = 1
             ELSE E[x].parent \in DOMAIN E /\ h[E[x].parent] = h[x] - 1
      BY <1>1, <3>1 DEF Heights
    <3>3. E[x].parent \in DOMAIN E => g[E[x].parent] = h[E[x].parent] /\ E[x].parent \in DOMAIN F
      OBVIOUS
    <3> HIDE DEF g
    <3> QED
      BY <1>2, <3>1, <3>2, <3>3
  <2> QED
    BY <2>1, <2>2
<1> HIDE DEF g
<1>4. Heights(F, g)
  BY <1>3 DEF Heights
<1> QED
  BY <1>2, <1>4 DEF Tree

\* An entry below the tip is the new tip.
LEMMA GrownByOne ==
  ASSUME NEW E, Tree(E), NEW tip, Named(E, tip), NEW id, id \notin DOMAIN E, id # NoId,
         NEW F, Keeps(E, F), DOMAIN F = DOMAIN E \cup {id}, F[id].parent = tip
  PROVE  Grown(E, tip, F, id)
<1>1. Tree(F)
  BY TreeGrows
<1>2. AncestorsIn(F, id) = {id} \cup AncestorsIn(F, tip)
  BY <1>1, AncestorsStep
<1>3. AncestorsIn(F, tip) = AncestorsIn(E, tip)
  BY <1>1, AncestorsKept
<1> QED
  BY <1>1, <1>2, <1>3 DEF Grown, Named

\* Growth in two steps.
LEMMA GrownTwice ==
  ASSUME NEW E, NEW tip, NEW F, NEW mid, NEW G, NEW to, Grown(E, tip, F, mid), Grown(F, mid, G, to)
  PROVE  Grown(E, tip, G, to)
BY DEF Grown, Keeps

\* The same entries are the same conversation.
LEMMA GrownSame ==
  ASSUME NEW E, Tree(E), NEW tip, Named(E, tip), NEW F, Keeps(E, F), DOMAIN F = DOMAIN E
  PROVE  Grown(E, tip, F, tip)
<1>1. PICK h : Heights(E, h)
  BY DEF Tree
<1>2. Heights(F, h)
  BY <1>1 DEF Heights, Keeps
<1>3. Tree(F)
  BY <1>2 DEF Tree
<1>4. AncestorsIn(F, tip) = AncestorsIn(E, tip)
  BY <1>3, AncestorsKept
<1> QED
  BY <1>3, <1>4 DEF Grown, Named

\* A chain of entries below the tip; its end is the new tip.
LEMMA GrownByChain ==
  ASSUME NEW E, Tree(E), NEW tip, Named(E, tip), NEW ids, NEW n \in Nat,
         \A i \in 1 .. n : ids[i] \notin DOMAIN E /\ ids[i] # NoId,
         \A i, j \in 1 .. n : ids[i] = ids[j] => i = j,
         NEW F, Keeps(E, F), DOMAIN F = DOMAIN E \cup {ids[i] : i \in 1 .. n},
         \A i \in 1 .. n : F[ids[i]].parent = IF i = 1 THEN tip ELSE ids[i - 1]
  PROVE  Grown(E, tip, F, IF n = 0 THEN tip ELSE ids[n])
<1> DEFINE G(i) == [x \in DOMAIN E \cup {ids[j] : j \in 1 .. i} |-> F[x]]
           To(i) == IF i = 0 THEN tip ELSE ids[i]
           S == {i \in 0 .. n : Grown(E, tip, G(i), To(i))}
<1>1. 0 \in S
  <2>1. DOMAIN G(0) = DOMAIN E /\ Keeps(E, G(0))
    BY DEF Keeps
  <2>2. Grown(E, tip, G(0), tip)
    <3> HIDE DEF G
    <3> QED
      BY <2>1, GrownSame
  <2> QED
    BY <2>2
<1>2. ASSUME NEW i \in 0 .. n, i \in S, i < n
      PROVE  i + 1 \in S
  <2>1. i + 1 \in 1 .. n /\ i + 1 \in 0 .. n /\ i + 1 # 0 /\ 1 .. (i + 1) = (1 .. i) \cup {i + 1}
    BY <1>2
  <2>2. DOMAIN G(i + 1) = DOMAIN G(i) \cup {ids[i + 1]}
    BY <2>1
  <2>3. Keeps(G(i), G(i + 1)) /\ G(i + 1)[ids[i + 1]] = F[ids[i + 1]]
    BY <2>1 DEF Keeps
  <2>4. ids[i + 1] \notin DOMAIN G(i) /\ ids[i + 1] # NoId
    <3>1. \A j \in 1 .. i : j \in 1 .. n /\ j # i + 1
      BY <2>1
    <3> QED
      BY <2>1, <3>1
  <2>5. F[ids[i + 1]].parent = To(i)
    <3>1. i + 1 = 1 <=> i = 0
      BY <1>2
    <3>2. (i + 1) - 1 = i
      BY <1>2
    <3> QED
      BY <2>1, <3>1, <3>2
  <2>6. Grown(E, tip, G(i), To(i))
    BY <1>2
  <2>7. To(i + 1) = ids[i + 1]
    BY <2>1
  <2> HIDE DEF G, To
  <2>8. Grown(G(i), To(i), G(i + 1), ids[i + 1])
    BY <2>2, <2>3, <2>4, <2>5, <2>6, GrownByOne DEF Grown
  <2>9. Grown(E, tip, G(i + 1), To(i + 1))
    BY <2>6, <2>7, <2>8, GrownTwice
  <2> QED
    BY <2>1, <2>9
<1>3. n \in S
  <2> HIDE DEF S
  <2>1. \A i \in 0 .. n : i \in S /\ i < n => i + 1 \in S
    BY <1>2
  <2>2. 0 .. n \subseteq S
    BY <1>1, <2>1, Climb!UpTo
  <2>3. n \in 0 .. n
    OBVIOUS
  <2> QED
    BY <2>2, <2>3
<1>4. Grown(E, tip, G(n), To(n))
  BY <1>3
<1>5. Keeps(G(n), F) /\ DOMAIN F = DOMAIN G(n)
  BY DEF Keeps
<1> HIDE DEF G
<1>6. Grown(G(n), To(n), F, To(n))
  BY <1>4, <1>5, GrownSame DEF Grown
<1> QED
  BY <1>4, <1>6, GrownTwice

(***************************************************************************)
(* What a step does to the branch, and to the calls that wait for results. *)
(***************************************************************************)
\* A response that asks for results.
Asks(E, id) ==
  E[id].type = "assistant" /\ E[id].stop \notin {"error", "aborted"} /\ E[id].calls # <<>>

\* An operation that has yet to write every result of it.
Plans(s, id) ==
  /\ s.kind = "run" /\ s.phase.p = "tools" /\ s.phase.assistant = id
  /\ \A i \in DOMAIN s.phase.calls : s.phase.calls[i].status # "completed"

InBatch(s) == s.kind = "run" /\ s.phase.p = "tools"

\* A batch is left only when it is complete; until then its results keep their ids.
Continues(s, t) ==
  InBatch(s) =>
    \/ \A i \in DOMAIN s.phase.calls : s.phase.calls[i].status = "completed"
    \/ /\ InBatch(t) /\ t.phase.assistant = s.phase.assistant
       /\ \A i \in DOMAIN s.phase.calls : t.phase.calls[i].result = s.phase.calls[i].result

Linked ==
  /\ Grown(entries, leaf, entries', leaf')
  /\ Continues(state, state')
  /\ \A id \in DOMAIN entries' \ DOMAIN entries : Asks(entries', id) => Plans(state', id)

\* A navigation moves the leaf, and writes nothing.
Wanders ==
  /\ state.kind = "navigation" /\ state' = NoOperation /\ leaf' = state.target
  /\ Keeps(entries, entries') /\ DOMAIN entries' = DOMAIN entries

\* The leaf of a lane is absent or an entry.
LEMMA LeafNamed ==
  ASSUME Sure
  PROVE  Named(entries, leaf)
BY DEF Sure, Rooted, Conversation

\* What leaves the conversation alone and the batch where it was.
LEMMA StillLinked ==
  ASSUME Sure, Tree(entries), entries' = entries, leaf' = leaf, Continues(state, state')
  PROVE  Linked
BY LeafNamed, GrownStill DEF Linked

\* What a transaction may add, if the state becomes next with it.
Links(next, tx) ==
  /\ Grown(entries, leaf, Extend(entries, tx.entries), tx.leaf)
  /\ Continues(state, next)
  /\ \A id \in DOMAIN tx.entries : Asks(tx.entries, id) => Plans(next, id)

\* What a transaction adds that goes through.
LEMMA WriteLinks ==
  ASSUME NEW tx, entries' = Extend(entries, tx.entries), leaf' = tx.leaf, Links(state', tx)
  PROVE  Linked
<1>1. ASSUME NEW id \in DOMAIN entries' \ DOMAIN entries
      PROVE  id \in DOMAIN tx.entries /\ entries'[id] = tx.entries[id]
  BY DEF Extend
<1> QED
  BY <1>1 DEF Linked, Links, Asks

\* A transition.
LEMMA TransitionLinks ==
  ASSUME Sure, Tree(entries), pc \in Settled, NEW next, NEW tx, NEW effect,
         Transition(next, tx, effect),
         run = state /\ cur.leaf = leaf => Links(next, tx)
  PROVE  Linked
<1>1. CASE StateFresh
  <2>1. state' = next /\ entries' = Extend(entries, tx.entries) /\ leaf' = tx.leaf
    BY <1>1 DEF Transition, CommitTransition, Write
  <2>2. Links(next, tx)
    BY <1>1, FreshSnapshot
  <2> QED
    BY <2>1, <2>2, WriteLinks
<1>2. CASE ~StateFresh
  <2>1. entries' = entries /\ leaf' = leaf /\ state' = state
    BY <1>2 DEF Transition, durable
  <2>2. Continues(state, state')
    BY <2>1 DEF Continues
  <2> QED
    BY <2>1, <2>2, StillLinked
<1> QED
  BY <1>1, <1>2

\* The end of an operation.
LEMMA TerminalLinks ==
  ASSUME Sure, Tree(entries), pc \in Settled, NEW outcome, NEW tx, Sound(tx), NEW label,
         Terminal(outcome, tx, label),
         run = state /\ cur.leaf = leaf => Links(NoOperation, tx)
  PROVE  Linked
<1>1. CASE StateFresh /\ LaneFresh
  <2>1. state' = NoOperation /\ entries' = Extend(entries, tx.entries) /\ leaf' = tx.leaf
    BY <1>1 DEF Terminal, CommitTerminal, Write, Sound
  <2>2. Links(NoOperation, tx)
    BY <1>1, FreshSnapshot
  <2> QED
    BY <2>1, <2>2, WriteLinks
<1>2. CASE ~(StateFresh /\ LaneFresh)
  <2>1. entries' = entries /\ leaf' = leaf /\ state' = state
    BY <1>2 DEF Terminal, durable
  <2>2. Continues(state, state')
    BY <2>1 DEF Continues
  <2> QED
    BY <2>1, <2>2, StillLinked
<1> QED
  BY <1>1, <1>2

\* A transaction without an entry.
LEMMA BareLinks ==
  ASSUME Sure, Tree(entries), NEW tx, DOMAIN tx.entries = {}, tx.leaf = leaf, NEW next,
         Continues(state, next)
  PROVE  Links(next, tx)
<1>1. Keeps(entries, Extend(entries, tx.entries)) /\ DOMAIN Extend(entries, tx.entries) = DOMAIN entries
  <2>1. DOMAIN tx.entries \cap DOMAIN entries = {}
    OBVIOUS
  <2>2. /\ Keeps(entries, Extend(entries, tx.entries))
        /\ DOMAIN Extend(entries, tx.entries) = DOMAIN entries \cup DOMAIN tx.entries
    BY ZenonT(60), <2>1, ExtendKeeps
  <2> QED
    BY <2>2
<1>2. Grown(entries, leaf, Extend(entries, tx.entries), leaf)
  BY <1>1, LeafNamed, GrownSame
<1> QED
  BY <1>2 DEF Links

\* A transaction with one entry, below the leaf.
LEMMA EntryLinks ==
  ASSUME Sure, Tree(entries), NEW tx, NEW id, DOMAIN tx.entries = {id}, tx.leaf = id,
         id \notin DOMAIN entries, id # NoId, tx.entries[id].parent = leaf, NEW next,
         Continues(state, next), Asks(tx.entries, id) => Plans(next, id)
  PROVE  Links(next, tx)
<1>1. /\ Keeps(entries, Extend(entries, tx.entries))
      /\ DOMAIN Extend(entries, tx.entries) = DOMAIN entries \cup {id}
      /\ Extend(entries, tx.entries)[id] = tx.entries[id]
  <2>1. DOMAIN tx.entries \cap DOMAIN entries = {}
    OBVIOUS
  <2>2. /\ Keeps(entries, Extend(entries, tx.entries))
        /\ DOMAIN Extend(entries, tx.entries) = DOMAIN entries \cup DOMAIN tx.entries
        /\ \A x \in DOMAIN tx.entries : Extend(entries, tx.entries)[x] = tx.entries[x]
    BY ZenonT(60), <2>1, ExtendKeeps
  <2> QED
    BY <2>2
<1>2. Grown(entries, leaf, Extend(entries, tx.entries), id)
  <2> DEFINE F == Extend(entries, tx.entries)
  <2> HIDE DEF F
  <2>1. Keeps(entries, F) /\ DOMAIN F = DOMAIN entries \cup {id} /\ F[id].parent = leaf
    BY <1>1 DEF F
  <2>2. Grown(entries, leaf, F, id)
    BY <2>1, LeafNamed, GrownByOne
  <2> QED
    BY <2>2 DEF F
<1> QED
  BY <1>2 DEF Links

\* An id that is promised, or new, is none of an entry.
LEMMA PromisedIsNew ==
  ASSUME Sure, NEW id, id \in Reserved(state) \/ id = fresh
  PROVE  id \notin DOMAIN entries /\ id # NoId
<1>1. CASE id \in Reserved(state)
  BY <1>1 DEF Sure, Housed, NoId
<1>2. CASE id = fresh
  BY <1>2, NoWritesBare DEF NoId
<1> QED
  BY <1>1, <1>2

\* An operation in no batch ends where it is.
LEMMA EndLinks ==
  ASSUME Sure, Tree(entries), pc \in Settled, ~InBatch(run), NEW outcome, NEW label,
         Terminal(outcome, NoWrites, label)
  PROVE  Linked
<1>1. Bare(NoWrites) /\ Sound(NoWrites)
  BY NoWritesBare
<1>2. run = state => Links(NoOperation, NoWrites)
  BY <1>1, BareLinks DEF Bare, Continues
<1> QED
  BY <1>1, <1>2, TerminalLinks

\* A step that writes no entry, of an operation in no batch.
LEMMA IdleLinks ==
  ASSUME Sure, Tree(entries), pc \in Settled, ~InBatch(run), NEW next, NEW tx, NEW effect,
         DOMAIN tx.entries = {}, tx.leaf = leaf, Transition(next, tx, effect)
  PROVE  Linked
<1>1. run = state => Links(next, tx)
  BY BareLinks DEF Continues
<1> QED
  BY <1>1, TransitionLinks

\* Draining a queue chains its inputs below the leaf.
LEMMA InboxLinks ==
  ASSUME Sure, Tree(entries), pc \in Settled, run \in Run, ~InBatch(run), cur.leaf \in Id,
         NEW q \in QueueNames, NEW ids \in Seq(Id), Len(ids) \in 1 .. Len(run[q]),
         \A j \in 1 .. Len(ids) : ids[j] = run[q][j], ApplyInbox(q, ids)
  PROVE  Linked
<1> DEFINE tx == Placement(ids)
           n == Len(ids)
<1>1. PICK next : Transition(next, tx, "plan")
  BY DEF ApplyInbox
<1>2. /\ DOMAIN tx.entries = Range(ids) /\ tx.leaf = ids[n] /\ n \in Nat /\ n # 0
      /\ DOMAIN ids = 1 .. n
  BY DEF Placement, NoWrites
<1>3. Range(ids) = {ids[i] : i \in 1 .. n}
  BY <1>2 DEF Range
<1>4. ASSUME run = state, cur.leaf = leaf
      PROVE  Links(next, tx)
  <2>1. ASSUME NEW i \in 1 .. n
        PROVE  /\ i \in DOMAIN state[q] /\ ids[i] = state[q][i]
               /\ ids[i] \in DOMAIN pending /\ ids[i] \notin DOMAIN entries /\ ids[i] # NoId
    <3>1. state[q] \in Seq(Id) /\ state.kind = "run" /\ q \in {"steer", "followUp", "writes", "drained"}
      BY <1>4 DEF Run, QueueNames
    <3>2. i \in DOMAIN state[q] /\ ids[i] = state[q][i]
      BY <1>2, <1>4, <3>1
    <3>3. ids[i] \in DOMAIN pending /\ ids[i] \notin DOMAIN entries
      BY <3>1, <3>2, QueuedWaits
    <3>4. 0 < ids[i]
      BY <3>3 DEF Sure, Housed
    <3> QED
      BY <3>2, <3>3, <3>4 DEF NoId
  <2>2. ASSUME NEW i \in 1 .. n, NEW j \in 1 .. n, ids[i] = ids[j]
        PROVE  i = j
    <3>1. q \in Lines /\ Waits(state, lane.nextRun)[q] = state[q]
      BY <1>4 DEF Run, QueueNames, Lines, Waits
    <3>2. Seats(Waits(state, lane.nextRun), DOMAIN pending)
      BY DEF Sure, Housed
    <3> QED
      BY <2>1, <2>2, <3>1, <3>2 DEF Seats
  <2>3. ASSUME NEW i \in 1 .. n
        PROVE  /\ tx.entries[ids[i]].parent = IF i = 1 THEN leaf ELSE ids[i - 1]
               /\ tx.entries[ids[i]].type # "assistant"
    <3>1. (CHOOSE k \in DOMAIN ids : ids[k] = ids[i]) = i
      <4>1. i \in DOMAIN ids /\ \A k \in DOMAIN ids : ids[k] = ids[i] => k = i
        BY <1>2, <2>2
      <4> QED
        BY <4>1
    <3>2. tx.entries[ids[i]] = UserEntry(pending[ids[i]], IF i = 1 THEN cur.leaf ELSE ids[i - 1])
      <4> DEFINE at(id) == CHOOSE k \in DOMAIN ids : ids[k] = id
      <4>1. ids[i] \in Range(ids) /\ at(ids[i]) = i
        BY <1>3, <3>1
      <4>2. tx.entries = [id \in Range(ids) |->
                           UserEntry(pending[id], IF at(id) = 1 THEN cur.leaf ELSE ids[at(id) - 1])]
        BY DEF Placement, NoWrites
      <4> HIDE DEF at, tx
      <4> QED
        BY <4>1, <4>2
    <3>3. pending[ids[i]] \in InputKinds
      BY <2>1 DEF Sure, Rooted, Registers
    <3> HIDE DEF tx
    <3> QED
      BY <1>4, <3>2, <3>3 DEF UserEntry, InputKinds
  <2> HIDE DEF tx, n
  <2>4. DOMAIN tx.entries \cap DOMAIN entries = {}
    BY <1>2, <1>3, <2>1
  <2> DEFINE F == Extend(entries, tx.entries)
  <2>5. /\ Keeps(entries, F) /\ DOMAIN F = DOMAIN entries \cup DOMAIN tx.entries
        /\ \A id \in DOMAIN tx.entries : F[id] = tx.entries[id]
    BY ZenonT(60), <2>4, ExtendKeeps
  <2> HIDE DEF F
  <2>6. Grown(entries, leaf, F, ids[n])
    <3>1. DOMAIN F = DOMAIN entries \cup {ids[i] : i \in 1 .. n}
      BY <1>2, <1>3, <2>5
    <3>2. \A i \in 1 .. n : F[ids[i]].parent = IF i = 1 THEN leaf ELSE ids[i - 1]
      BY <1>2, <1>3, <2>3, <2>5
    <3>3. Grown(entries, leaf, F, IF n = 0 THEN leaf ELSE ids[n])
      BY <1>2, <2>1, <2>2, <2>5, <3>1, <3>2, LeafNamed, GrownByChain
    <3> QED
      BY <1>2, <3>3
  <2>7. \A id \in DOMAIN tx.entries : tx.entries[id].type # "assistant"
    BY <1>2, <1>3, <2>3
  <2> QED
    BY <1>2, <1>4, <2>6, <2>7 DEF Links, F, Asks, Continues
<1> HIDE DEF tx
<1> QED
  BY <1>1, <1>4, TransitionLinks

\* settle_assistant() writes the response, and plans the calls it asks for.
LEMMA SettleLinks ==
  ASSUME Sure, Tree(entries), pc \in Settled, run \in Run, run.phase \in Generation,
         run.phase.gen = "pending", NEW resp \in Response, NEW prepared \in BOOLEAN,
         Settle(resp, prepared)
  PROVE  Linked
<1> DEFINE g == run.phase
           cancelled == IsCancelled(run) \/ signal
           stop == IF cancelled THEN "aborted"
                   ELSE IF resp.stop = "aborted" THEN "error" ELSE resp.stop
           ph == SettledPhase(g, resp, stop, cancelled, prepared)
           e == AssistantEntry(stop, resp.calls, cur.leaf)
           tx == [NoWrites EXCEPT
                    !.entries = [id \in {g.response} |-> e],
                    !.leaf = g.response,
                    !.usage = {g.usage},
                    !.prep = IF ph.p = "compaction"
                             THEN Extend(prep, [t \in {fresh} |-> cur.leaf]) ELSE prep,
                    !.minted = Len(resp.calls) + 1]
           next == Moved(ph, g.response)
<1>1. Transition(next, tx, "plan")
  BY DEF Settle, Moved
<1>2. next.kind = "run" /\ next.phase = ph /\ run.kind = "run" /\ g.p = "assistant"
  BY DEF Moved, Run, Generation
<1>3. DOMAIN tx.entries = {g.response} /\ tx.entries[g.response] = e /\ tx.leaf = g.response
  BY DEF NoWrites
<1>4. /\ e.parent = cur.leaf /\ e.stop = stop /\ e.calls = resp.calls
  BY DEF AssistantEntry
<1>5. cancelled => stop = "aborted"
  OBVIOUS
<1>6. ASSUME stop \notin {"error", "aborted"}, resp.calls # <<>>
      PROVE  Plans(next, g.response)
  <2> DEFINE calls == [i \in DOMAIN resp.calls |-> Planned(fresh + i - 1)]
  <2>1. ph = [p |-> "tools", assistant |-> g.response, step |-> g.step, calls |-> calls]
    <3> HIDE DEF stop, cancelled, g
    <3> QED
      BY <1>5, <1>6 DEF SettledPhase
  <2>2. \A i \in DOMAIN calls : calls[i].status = "planned"
    BY DEF Planned
  <2> HIDE DEF calls, ph, next
  <2> QED
    BY <1>2, <2>1, <2>2 DEF Plans
<1> HIDE DEF tx, ph, stop, cancelled, e, next
<1>7. ASSUME run = state, cur.leaf = leaf
      PROVE  Links(next, tx)
  <2>1. g.response \in Reserved(state)
    BY <1>2, <1>7 DEF Reserved
  <2>2. Continues(state, next)
    BY <1>2, <1>7 DEF Continues, InBatch
  <2>3. Asks(tx.entries, g.response) => Plans(next, g.response)
    BY <1>3, <1>4, <1>6 DEF Asks
  <2> QED
    BY <1>3, <1>4, <1>7, <2>1, <2>2, <2>3, PromisedIsNew, EntryLinks
<1> QED
  BY <1>1, <1>7, TransitionLinks

\* commit_tool_result() writes the result of a call, and the batch goes on.
LEMMA ResultLinks ==
  ASSUME Sure, Tree(entries), pc \in Settled, run \in Run, batch \in Tools, NEW i,
         NEW status \in {"planned", "pending"}, At(i, status), NEW kind,
         NEW terminate \in BOOLEAN, CommitResult(i, kind, terminate)
  PROVE  Linked
<1> DEFINE result == batch.calls[i].result
           c == [Planned(result) EXCEPT !.status = "completed", !.terminate = terminate]
           e == ResultEntry(kind, <<batch.assistant, i>>, cur.leaf)
           tx == [NoWrites EXCEPT !.entries = [id \in {result} |-> e], !.leaf = result]
           next == [run EXCEPT !.phase.calls[i] = c]
<1>1. i \in DOMAIN batch.calls /\ batch.calls[i].status # "completed"
  BY DEF At, Unfinished
<1>2. Transition(next, tx, "plan")
  BY DEF CommitResult
<1>3. DOMAIN tx.entries = {result} /\ tx.entries[result] = e /\ tx.leaf = result
  BY DEF NoWrites
<1>4. e.parent = cur.leaf /\ e.type = "toolResult"
  BY DEF ResultEntry
<1>5. batch.calls[i] \in ToolCall /\ batch.calls \in Seq(ToolCall)
  BY <1>1 DEF Tools
<1>6. c \in ToolCall /\ c.result = result
  BY <1>5 DEF Planned, ToolCall, Replay
<1> HIDE DEF c, tx, e
<1>7. next.kind = "run" /\ next.phase = Recalled(i, c) /\ run.kind = "run" /\ run.phase = batch
  BY DEF Run, Recalled, batch
<1> HIDE DEF next
<1>8. /\ next.phase.p = "tools" /\ next.phase.assistant = batch.assistant
      /\ \A j \in DOMAIN batch.calls : next.phase.calls[j].result = batch.calls[j].result
  <2>1. next.phase.p = "tools" /\ next.phase.assistant = batch.assistant
    <3>1. Recalled(i, c).p = "tools" /\ Recalled(i, c).assistant = batch.assistant
      BY <1>1, <1>6, CallUpdate
    <3> QED
      BY <1>7, <3>1
  <2>2. ASSUME NEW j \in DOMAIN batch.calls
        PROVE  next.phase.calls[j].result = batch.calls[j].result
    BY <1>1, <1>6, <1>7, CallSteps
  <2> QED
    BY <2>1, <2>2
<1>9. ASSUME run = state, cur.leaf = leaf
      PROVE  Links(next, tx)
  <2>1. batch.p = "tools"
    BY DEF Tools
  <2>2. result \in Reserved(state)
    BY <1>1, <1>7, <1>9, <2>1 DEF Reserved
  <2>3. Continues(state, next)
    BY <1>7, <1>8, <1>9, <2>1 DEF Continues, InBatch
  <2>4. ~Asks(tx.entries, result)
    BY <1>3, <1>4 DEF Asks
  <2> HIDE DEF result
  <2> QED
    BY <1>3, <1>4, <1>9, <2>2, <2>3, <2>4, PromisedIsNew, EntryLinks
<1> QED
  BY <1>2, <1>9, TransitionLinks

\* The steps of a checkpoint.
LEMMA CheckpointLinks ==
  ASSUME Sure, Tree(entries),
         \/ CheckpointWrites \/ CheckpointAbort \/ CheckpointSteer
         \/ \E over \in BOOLEAN : CheckThreshold(over)
         \/ BeginGeneration \/ CheckpointFollowUp \/ RunEndHook \/ Complete
  PROVE  Linked
<1>1. Planning("checkpoint") /\ Base
  BY DEF CheckpointWrites, CheckpointAbort, CheckpointSteer, CheckThreshold, BeginGeneration,
    CheckpointFollowUp, RunEndHook, Complete, MayEnd, Sure, Driven
<1>2. pc \in Settled /\ run \in Run /\ run.phase.p = "checkpoint" /\ cur.leaf \in Id
  BY <1>1, PlanningRun
<1>3. ~InBatch(run)
  BY <1>2 DEF InBatch
<1>4. run.writes \in Seq(Id) /\ run.steer \in Seq(Id) /\ run.followUp \in Seq(Id)
  BY <1>2 DEF Run
<1>5. CASE CheckpointWrites
  <2>1. Len(run.writes) \in 1 .. Len(run.writes) /\ ApplyInbox("writes", run.writes)
    BY <1>4, <1>5 DEF CheckpointWrites, WritesDue
  <2> QED
    BY <1>2, <1>3, <1>4, <2>1, InboxLinks DEF QueueNames
<1>6. CASE CheckpointSteer
  <2> DEFINE ids == Take(SteeringMode, run.steer)
  <2>1. ids # <<>> /\ ApplyInbox("steer", ids)
    BY <1>6 DEF CheckpointSteer, ApplyInbox
  <2>2. /\ ids \in Seq(Id) /\ Len(ids) \in 1 .. Len(run.steer)
        /\ \A j \in 1 .. Len(ids) : ids[j] = run.steer[j]
    BY <1>4, <2>1, TakesHead
  <2> HIDE DEF ids
  <2> QED
    BY <1>2, <1>3, <2>1, <2>2, InboxLinks DEF QueueNames
<1>7. CASE CheckpointFollowUp
  <2> DEFINE ids == Take(FollowUpMode, run.followUp)
  <2>1. ids # <<>> /\ ApplyInbox("followUp", ids)
    BY <1>7 DEF CheckpointFollowUp, ApplyInbox
  <2>2. /\ ids \in Seq(Id) /\ Len(ids) \in 1 .. Len(run.followUp)
        /\ \A j \in 1 .. Len(ids) : ids[j] = run.followUp[j]
    BY <1>4, <2>1, TakesHead
  <2> HIDE DEF ids
  <2> QED
    BY <1>2, <1>3, <2>1, <2>2, InboxLinks DEF QueueNames
<1>8. CASE CheckpointAbort \/ Complete
  BY <1>2, <1>3, <1>8, EndLinks DEF CheckpointAbort, AbortFinish, Complete
<1>9. CASE RunEndHook
  <2> DEFINE e == UserEntry("message", cur.leaf)
             next == WithPhase(SkippingInbox(NeedAssistant(fresh)))
             tx == [NoWrites EXCEPT !.entries = [id \in {fresh} |-> e], !.leaf = fresh,
                                    !.minted = 1]
  <2>1. Transition(next, tx, "plan")
    BY <1>9 DEF RunEndHook
  <2>2. DOMAIN tx.entries = {fresh} /\ tx.entries[fresh] = e /\ tx.leaf = fresh
    BY DEF NoWrites
  <2>3. e.parent = cur.leaf /\ e.type # "assistant"
    BY DEF UserEntry
  <2> HIDE DEF e, tx, next
  <2>4. ASSUME run = state, cur.leaf = leaf
        PROVE  Links(next, tx)
    <3>1. Continues(state, next) /\ ~Asks(tx.entries, fresh)
      BY <1>3, <2>2, <2>3, <2>4 DEF Continues, Asks
    <3> QED
      BY <2>2, <2>3, <2>4, <3>1, PromisedIsNew, EntryLinks
  <2> QED
    BY <1>2, <2>1, <2>4, TransitionLinks
<1>10. ASSUME NEW over \in BOOLEAN, CheckThreshold(over)
       PROVE  Linked
  <2> DEFINE prepared == [NoWrites EXCEPT !.prep = Extend(prep, [t \in {fresh} |-> cur.leaf]),
                                          !.minted = 1]
  <2>1. \E next : Transition(next, prepared, "plan") \/ Transition(next, NoWrites, "plan")
    BY <1>10 DEF CheckThreshold
  <2>2. /\ DOMAIN prepared.entries = {} /\ prepared.leaf = leaf
        /\ DOMAIN NoWrites.entries = {} /\ NoWrites.leaf = leaf
    BY DEF NoWrites
  <2> HIDE DEF prepared
  <2> QED
    BY <1>2, <1>3, <2>1, <2>2, IdleLinks
<1>11. CASE BeginGeneration
  <2> DEFINE tx == [NoWrites EXCEPT !.minted = 1]
  <2>1. \E next : Transition(next, tx, "plan")
    BY <1>11 DEF BeginGeneration
  <2>2. DOMAIN tx.entries = {} /\ tx.leaf = leaf
    BY DEF NoWrites
  <2> HIDE DEF tx
  <2> QED
    BY <1>2, <1>3, <2>1, <2>2, IdleLinks
<1> QED
  BY <1>5, <1>6, <1>7, <1>8, <1>9, <1>10, <1>11

\* The steps of a failed run.
LEMMA FailureLinks ==
  ASSUME Sure, Tree(entries), FailureInbox \/ FailureFinish
  PROVE  Linked
<1>1. Planning("failure") /\ Base
  BY DEF FailureInbox, FailureFinish, Sure, Driven
<1>2. pc \in Settled /\ run \in Run /\ run.phase.p = "failure" /\ cur.leaf \in Id
  BY <1>1, PlanningRun
<1>3. ~InBatch(run)
  BY <1>2 DEF InBatch
<1>4. run.writes \in Seq(Id) /\ run.steer \in Seq(Id) /\ run.followUp \in Seq(Id)
  BY <1>2 DEF Run
<1>5. CASE FailureInbox /\ ApplyInbox("writes", run.writes)
  <2>1. Len(run.writes) \in 1 .. Len(run.writes)
    BY <1>4, <1>5 DEF ApplyInbox
  <2> QED
    BY <1>2, <1>3, <1>4, <1>5, <2>1, InboxLinks DEF QueueNames
<1>6. CASE FailureInbox /\ ApplyInbox("steer", Take(SteeringMode, run.steer))
  <2> DEFINE ids == Take(SteeringMode, run.steer)
  <2>1. ids # <<>> /\ ApplyInbox("steer", ids)
    BY <1>6 DEF ApplyInbox
  <2>2. /\ ids \in Seq(Id) /\ Len(ids) \in 1 .. Len(run.steer)
        /\ \A j \in 1 .. Len(ids) : ids[j] = run.steer[j]
    BY <1>4, <2>1, TakesHead
  <2> HIDE DEF ids
  <2> QED
    BY <1>2, <1>3, <2>1, <2>2, InboxLinks DEF QueueNames
<1>7. CASE FailureInbox /\ ApplyInbox("followUp", Take(FollowUpMode, run.followUp))
  <2> DEFINE ids == Take(FollowUpMode, run.followUp)
  <2>1. ids # <<>> /\ ApplyInbox("followUp", ids)
    BY <1>7 DEF ApplyInbox
  <2>2. /\ ids \in Seq(Id) /\ Len(ids) \in 1 .. Len(run.followUp)
        /\ \A j \in 1 .. Len(ids) : ids[j] = run.followUp[j]
    BY <1>4, <2>1, TakesHead
  <2> HIDE DEF ids
  <2> QED
    BY <1>2, <1>3, <2>1, <2>2, InboxLinks DEF QueueNames
<1>8. CASE FailureFinish
  BY <1>2, <1>3, <1>8, EndLinks DEF FailureFinish, AbortFinish
<1> QED
  BY <1>5, <1>6, <1>7, <1>8 DEF FailureInbox

\* The steps of a generation.
LEMMA AssistantLinks ==
  ASSUME Sure, Tree(entries),
         \/ GenerationAbort \/ AssistantIntent \/ AssistantRestored \/ RetryElapsed
         \/ \E resp \in Responses, prepared \in BOOLEAN : ModelReturns(resp, prepared)
         \/ ModelInterrupted
  PROVE  Linked
<1>1. pc = "model" \/ Planning("assistant")
  BY DEF GenerationAbort, AssistantIntent, AssistantRestored, RetryElapsed, ModelReturns,
    ModelInterrupted, Generating
<1>2. /\ pc \in Settled /\ run \in Run /\ run.phase \in Generation
      /\ run.phase.p = "assistant" /\ Base
  <2>1. CASE pc = "model"
    <3>1. run.kind = "run" /\ run.phase.p = "assistant" /\ run \in OperationState
      BY <2>1 DEF Sure, Driven, Announced, Expects, Base, Coherent, Working, Snapshot, run
    <3>2. run \in Run
      BY <3>1, StateShape
    <3> QED
      BY <2>1, <3>1, <3>2, PhaseShape DEF Run, Settled, Working, Sure, Driven
  <2>2. CASE Planning("assistant")
    BY <2>2, PlanningRun, PhaseShape DEF Sure, Driven
  <2> QED
    BY <1>1, <2>1, <2>2
<1>3. pc = "model" => run.phase.gen = "pending"
  BY DEF Sure, Driven, Announced, Expects, run
<1>4. ~InBatch(run)
  BY <1>2 DEF InBatch
<1>5. DOMAIN NoWrites.entries = {} /\ NoWrites.leaf = leaf
  BY DEF NoWrites
<1>6. CASE GenerationAbort
  BY <1>2, <1>4, <1>6, EndLinks DEF GenerationAbort, AbortFinish
<1>7. CASE \E resp \in Responses, prepared \in BOOLEAN : ModelReturns(resp, prepared)
  <2>1. PICK resp \in Response, prepared \in BOOLEAN : pc = "model" /\ Settle(resp, prepared)
    BY <1>2, <1>7, Answered DEF ModelReturns
  <2> QED
    BY <1>2, <1>3, <2>1, SettleLinks
<1>8. CASE ModelInterrupted
  BY <1>2, <1>3, <1>8, Answered, SettleLinks DEF ModelInterrupted
<1>9. CASE AssistantIntent
  <2> DEFINE tx == [NoWrites EXCEPT !.minted = 2]
  <2>1. \E next : Transition(next, tx, "model")
    BY <1>9 DEF AssistantIntent
  <2>2. DOMAIN tx.entries = {} /\ tx.leaf = leaf
    BY DEF NoWrites
  <2> HIDE DEF tx
  <2> QED
    BY <1>2, <1>4, <2>1, <2>2, IdleLinks
<1>10. CASE RetryElapsed
  <2>1. \E next : Transition(next, NoWrites, "plan")
    BY <1>10 DEF RetryElapsed
  <2> QED
    BY <1>2, <1>4, <1>5, <2>1, IdleLinks
<1>11. CASE AssistantRestored
  <2> DEFINE failed == [stop |-> "error", calls |-> <<>>, error |-> "fatal"]
  <2>1. run.phase.gen = "pending"
    BY <1>11 DEF AssistantRestored, Generating
  <2>2. failed \in Response
    BY DEF Response, StopReasons
  <2>3. CASE Settle(Interrupted, FALSE) \/ Settle(failed, FALSE)
    <3> HIDE DEF failed
    <3> QED
      BY <1>2, <2>1, <2>2, <2>3, Answered, SettleLinks
  <2>4. CASE \E next : Transition(next, NoWrites, "plan")
    BY <1>2, <1>4, <1>5, <2>4, IdleLinks
  <2> QED
    BY <1>11, <2>3, <2>4 DEF AssistantRestored
<1> QED
  BY <1>6, <1>7, <1>8, <1>9, <1>10, <1>11

\* tool_intent: a call is started; the rest of the batch stays.
LEMMA IntentLinks ==
  ASSUME Sure, Tree(entries), pc \in Settled, run \in Run, batch \in Tools, NEW i, ToolIntent(i)
  PROVE  Linked
<1> DEFINE replay == Declares(ToolOf(i))
           c == [batch.calls[i] EXCEPT !.status = "pending", !.replay = replay]
           tx == [NoWrites EXCEPT !.args = @ \cup {<<batch.step, i>>}]
           next == Moved(Recalled(i, c), run.latest)
<1>1. /\ i \in DOMAIN batch.calls
      /\ Transition([run EXCEPT !.phase.calls[i].status = "pending",
                                !.phase.calls[i].replay = replay], tx, "tool")
  BY DEF ToolIntent, At, Unfinished
<1>2. DOMAIN tx.entries = {} /\ tx.leaf = leaf
  BY DEF NoWrites
<1>3. batch.calls[i] \in ToolCall /\ run.kind = "run" /\ batch.p = "tools"
  BY <1>1 DEF Run, Tools
<1> HIDE DEF replay
<1>4. c.result = batch.calls[i].result
  BY <1>3 DEF ToolCall
<1>5. Transition(next, tx, "tool")
  BY <1>1, CallWritten
<1> HIDE DEF c, tx
<1>6. /\ Recalled(i, c).p = "tools" /\ Recalled(i, c).assistant = batch.assistant
      /\ \A j \in DOMAIN batch.calls : Recalled(i, c).calls[j].result = batch.calls[j].result
  BY <1>1, <1>4 DEF Recalled, Tools
<1>7. next.kind = "run" /\ next.phase = Recalled(i, c)
  BY <1>3 DEF Moved, Run
<1> HIDE DEF next
<1>8. run = state => Links(next, tx)
  <2>1. run = state => Continues(state, next)
    BY <1>3, <1>6, <1>7 DEF Continues, InBatch, batch
  <2> QED
    BY <1>2, <2>1, BareLinks
<1> QED
  BY <1>5, <1>8, TransitionLinks

\* The steps of a batch.
LEMMA ToolsLinks ==
  ASSUME Sure, Tree(entries),
         \/ BatchComplete
         \/ \E i \in CallIndices : ToolRefused(i) \/ ToolIntent(i) \/ ToolGivenUp(i)
         \/ \E i \in CallIndices, terminate \in BOOLEAN : ToolBlocked(i, terminate)
         \/ \E i \in CallIndices, terminate \in BOOLEAN : ToolFinishes(i, terminate)
  PROVE  Linked
<1>1. (pc = "tool" \/ Planning("tools")) /\ Base
  BY DEF BatchComplete, ToolRefused, ToolIntent, ToolGivenUp, ToolBlocked, ToolFinishes, Sure, Driven
<1>2. pc \in Settled /\ run \in Run /\ batch \in Tools
  <2>1. CASE pc = "tool"
    <3>1. run.kind = "run" /\ run.phase.p = "tools" /\ run \in OperationState
      BY <2>1 DEF Sure, Driven, Announced, Expects, Base, Coherent, Working, Snapshot, run
    <3>2. run \in Run
      BY <3>1, StateShape
    <3> QED
      BY <2>1, <3>1, <3>2, PhaseShape DEF Run, Settled, Working, batch
  <2>2. CASE Planning("tools")
    BY <1>1, <2>2, PlanningRun, PhaseShape DEF batch
  <2> QED
    BY <1>1, <2>1, <2>2
<1>3. CASE \E i \in CallIndices : ToolRefused(i)
  <2>1. PICK i : At(i, "planned") /\ CommitResult(i, Refusal(i), FALSE)
    BY <1>3 DEF ToolRefused
  <2> QED
    BY <1>2, <2>1, ResultLinks
<1>4. CASE \E i \in CallIndices : ToolGivenUp(i)
  <2>1. PICK i, kind : At(i, "pending") /\ CommitResult(i, kind, FALSE)
    BY <1>4 DEF ToolGivenUp
  <2> QED
    BY <1>2, <2>1, ResultLinks
<1>5. CASE \E i \in CallIndices, terminate \in BOOLEAN : ToolBlocked(i, terminate)
  <2>1. PICK i \in CallIndices, terminate \in BOOLEAN : ToolBlocked(i, terminate)
    BY <1>5
  <2>2. At(i, "planned") /\ CommitResult(i, "blocked", terminate)
    BY <2>1 DEF ToolBlocked
  <2> QED
    BY <1>2, <2>2, ResultLinks
<1>6. CASE \E i \in CallIndices, terminate \in BOOLEAN : ToolFinishes(i, terminate)
  <2>1. PICK i \in CallIndices, terminate \in BOOLEAN : ToolFinishes(i, terminate)
    BY <1>6
  <2>2. At(i, "pending") /\ CommitResult(i, "executed", terminate)
    BY <2>1 DEF ToolFinishes
  <2> QED
    BY <1>2, <2>2, ResultLinks
<1>7. CASE \E i \in CallIndices : ToolIntent(i)
  BY <1>2, <1>7, IntentLinks
<1>8. CASE BatchComplete
  <2> DEFINE tx == [NoWrites EXCEPT !.args = {k \in toolArgs : k[1] # batch.step}]
  <2>1. PICK next : Transition(next, tx, "plan")
    BY <1>8 DEF BatchComplete
  <2>2. DOMAIN tx.entries = {} /\ tx.leaf = leaf
    BY DEF NoWrites
  <2>3. \A i \in DOMAIN run.phase.calls : run.phase.calls[i].status = "completed"
    BY <1>8 DEF BatchComplete, Unfinished, batch
  <2> HIDE DEF tx
  <2>4. run = state => Links(next, tx)
    <3>1. run = state => Continues(state, next)
      BY <2>3 DEF Continues
    <3> QED
      BY <2>2, <3>1, BareLinks
  <2> QED
    BY <1>2, <2>1, <2>4, TransitionLinks
<1> QED
  BY <1>3, <1>4, <1>5, <1>6, <1>7, <1>8

\* The summary of a compaction is an entry below the leaf.
LEMMA PublishLinks ==
  ASSUME Sure, Tree(entries), pc \in Settled, ~InBatch(run), NEW result \in Id, NEW tx, Sound(tx),
         run = state => result \in Reserved(state) \/ result = fresh,
         Publish(result, tx)
  PROVE  Linked
<1> DEFINE entry == CompactionEntry(prep[structural.task], cur.leaf)
           published == [tx EXCEPT !.entries = [id \in {result} |-> entry], !.leaf = result]
<1>1. /\ Standalone => Terminal("completed", published, {})
      /\ ~Standalone => Transition(WithPhase(run.phase.resume), published, "plan")
  BY DEF Publish
<1>2. /\ DOMAIN published.entries = {result} /\ published.entries[result] = entry
      /\ published.leaf = result /\ Sound(published)
  BY DEF Sound
<1>3. entry.type # "assistant" /\ entry.parent = cur.leaf
  BY DEF CompactionEntry
<1> HIDE DEF entry, published
<1>4. ASSUME run = state, cur.leaf = leaf, NEW next
      PROVE  Links(next, published)
  <2>1. Continues(state, next) /\ ~Asks(published.entries, result)
    BY <1>2, <1>3, <1>4 DEF Continues, Asks
  <2> QED
    BY <1>2, <1>3, <1>4, <2>1, PromisedIsNew, EntryLinks
<1> QED
  BY <1>1, <1>2, <1>4, TransitionLinks, TerminalLinks

\* A compaction that has no summary writes no entry.
LEMMA FailsLinks ==
  ASSUME Sure, Tree(entries), pc \in Settled, ~InBatch(run), NEW tx, Sound(tx), Bare(tx),
         SummaryFails(tx)
  PROVE  Linked
<1>1. DOMAIN tx.entries = {} /\ tx.leaf = leaf
  BY DEF Bare
<1>2. ASSUME run = state, NEW next
      PROVE  Links(next, tx)
  BY <1>1, <1>2, BareLinks DEF Continues
<1> QED
  BY <1>2, TransitionLinks, TerminalLinks DEF SummaryFails

\* The steps of a compaction.
LEMMA StructuralLinks ==
  ASSUME Sure, Tree(entries),
         \/ StructuralAbort \/ StructuralDeclined \/ StructuralHookSummary \/ StructuralGenerate
         \/ SummaryIntent \/ SummaryRestored \/ SummaryRetryElapsed
         \/ \E answer \in Answers : SummaryReturns(answer)
  PROVE  Linked
<1> DEFINE d == structural
           minting == [NoWrites EXCEPT !.minted = 1]
           billed == [NoWrites EXCEPT !.usage = {d.usage}]
<1>1. Compacting /\ pc \in {"plan", "summary"} /\ (pc = "summary" => d.status = "pending")
  <2>1. pc = "summary" => Compacting /\ d.status = "pending"
    BY DEF Sure, Driven, Announced, Expects, Compacting, Standalone, structural, run
  <2>2. pc = "summary" \/ (pc = "plan" /\ Compacting)
    BY DEF StructuralAbort, StructuralDeclined, StructuralHookSummary, StructuralGenerate,
      SummaryIntent, SummaryRestored, SummaryRetryElapsed, SummaryReturns, Structuring
  <2> QED
    BY <2>1, <2>2
<1>2. pc \in Settled /\ d \in Structural
  BY <1>1, CompactingShape DEF Sure, Driven
<1>3. ~InBatch(run)
  BY <1>1 DEF InBatch, Compacting, Standalone
<1>4. d.result \in Id /\ d.usage \in Id /\ fresh \in Id
  BY <1>2, NoWritesBare DEF Structural
<1>5. /\ Bare(NoWrites) /\ Sound(NoWrites)
  BY NoWritesBare
<1>6. Bare(minting) /\ Sound(minting) /\ Bare(billed) /\ Sound(billed)
  BY <1>4, <1>5 DEF Bare, NoWrites, Sound
<1>7. d.status = "pending" => (run = state => d.result \in Reserved(state))
  BY <1>1, CompactingReserves DEF Sure, Driven, StructuralIds
<1> HIDE DEF minting, billed, d
<1>8. ASSUME NEW next, NEW effect, NEW tx, Bare(tx), Transition(next, tx, effect)
      PROVE  Linked
  BY <1>2, <1>3, <1>8, IdleLinks DEF Bare
<1>9. CASE StructuralAbort
  BY <1>2, <1>3, <1>9, EndLinks DEF StructuralAbort, AbortFinish
<1>10. CASE StructuralDeclined
  BY <1>2, <1>3, <1>5, <1>8, <1>10, EndLinks, FailsLinks DEF StructuralDeclined
<1>11. CASE StructuralHookSummary
  <2>1. Publish(fresh, minting)
    BY <1>11 DEF StructuralHookSummary, minting
  <2> QED
    BY <1>2, <1>3, <1>4, <1>6, <2>1, PublishLinks
<1>12. CASE StructuralGenerate \/ SummaryIntent
  <2>1. \E next, effect : Transition(next, minting, effect)
    BY <1>12 DEF StructuralGenerate, SummaryIntent, minting
  <2> QED
    BY <1>6, <1>8, <2>1
<1>13. CASE SummaryRestored
  BY <1>2, <1>3, <1>5, <1>8, <1>13, FailsLinks DEF SummaryRestored
<1>14. CASE SummaryRetryElapsed
  BY <1>5, <1>8, <1>14 DEF SummaryRetryElapsed
<1>15. ASSUME NEW answer \in Answers, SummaryReturns(answer)
       PROVE  Linked
  <2>1. d.status = "pending"
    BY <1>1, <1>15 DEF SummaryReturns
  <2>2. \/ Publish(d.result, billed) \/ SummaryFails(billed)
        \/ \E next : Transition(next, billed, "plan")
    BY <1>15 DEF SummaryReturns, d, billed
  <2>3. CASE Publish(d.result, billed)
    BY <1>2, <1>3, <1>4, <1>6, <1>7, <2>1, <2>3, PublishLinks
  <2> QED
    BY <1>2, <1>3, <1>6, <1>8, <2>2, <2>3, FailsLinks
<1> QED
  BY <1>9, <1>10, <1>11, <1>12, <1>13, <1>14, <1>15

\* A navigation ends where it is, or goes to its target.
LEMMA NavigationLinks ==
  ASSUME Sure, Tree(entries), NavigationStep
  PROVE  Linked \/ Wanders
<1>1. pc \in Settled /\ run.kind = "navigation" /\ ~InBatch(run)
  BY DEF NavigationStep, Settled, Working, InBatch
<1>2. CASE IsCancelled(run)
  BY <1>1, <1>2, EndLinks DEF NavigationStep, AbortFinish
<1>3. CASE ~IsCancelled(run)
  <2> DEFINE tx == [NoWrites EXCEPT !.leaf = run.target]
  <2>1. PICK label : Terminal("completed", tx, label)
    BY <1>3 DEF NavigationStep
  <2>2. DOMAIN tx.entries = {} /\ tx.leaf = run.target
    BY DEF NoWrites
  <2> HIDE DEF tx
  <2>3. CASE StateFresh /\ LaneFresh
    <3>1. run = state
      BY <1>1, <2>3, FreshSnapshot
    <3>2. state' = NoOperation /\ entries' = Extend(entries, tx.entries) /\ leaf' = tx.leaf
      BY <2>1, <2>3 DEF Terminal, CommitTerminal, Write
    <3>3. Keeps(entries, entries') /\ DOMAIN entries' = DOMAIN entries
      BY <2>2, <3>2 DEF Keeps, Extend
    <3> QED
      BY <1>1, <2>2, <3>1, <3>2, <3>3 DEF Wanders
  <2>4. CASE ~(StateFresh /\ LaneFresh)
    <3>1. entries' = entries /\ leaf' = leaf /\ state' = state
      BY <2>1, <2>4 DEF Terminal, durable
    <3> QED
      BY <3>1, StillLinked DEF Continues
  <2> QED
    BY <2>3, <2>4
<1> QED
  BY <1>2, <1>3

\* A step of the driver.
LEMMA DriverLinks ==
  ASSUME Sure, Tree(entries), PlanStep \/ ElapsedStep \/ EffectStep
  PROVE  Linked \/ Wanders
<1>1. CASE \E i \in CallIndices : ToolReplayed(i)
  <2>1. entries' = entries /\ leaf' = leaf /\ state' = state
    BY <1>1 DEF ToolReplayed, durable
  <2> QED
    BY <2>1, StillLinked DEF Continues
<1> QED
  BY <1>1, CheckpointLinks, FailureLinks, AssistantLinks, ToolsLinks, StructuralLinks, NavigationLinks
    DEF PlanStep, ElapsedStep, EffectStep

\* A step of the lane, whoever takes it.
LEMMA LinkedNext ==
  ASSUME Sure, Tree(entries), [Next]_<<vars, scenario>>
  PROVE  Linked \/ Wanders
<1>1. CASE PlanStep \/ ElapsedStep \/ EffectStep
  BY <1>1, DriverLinks
<1>2. ASSUME entries' = entries, leaf' = leaf, state' = state \/ SameWork(state, state')
      PROVE  Linked
  BY <1>2, StillLinked DEF Continues, InBatch, SameWork
<1>3. CASE UNCHANGED durable
  BY <1>2, <1>3 DEF durable
<1>4. ASSUME NEW q \in QueueKinds, NEW kind \in KindsOf(q), Enqueue(q, kind)
      PROVE  Linked
  <2>1. state \in Run /\ fresh \in Id /\ q \in QueueNames
    BY <1>4, StateShape, CallersAssumption
      DEF Enqueue, Sure, Driven, Base, Control, Id, QueueNames, NoOperation
  <2>2. SameWork(state, state')
    BY <1>4, <2>1, EnqueueUpdate DEF Enqueue
  <2> QED
    BY <1>2, <1>4, <2>2 DEF Enqueue
<1>5. CASE NextRun
  BY <1>2, <1>5 DEF NextRun
<1>6. CASE Abort
  <2>1. state \in OperationState
    BY <1>6 DEF Abort, Restorable, Sure, Driven, Base, Control, NoOperation
  <2>2. state' = state \/ SameWork(state, state')
    BY <1>6, <2>1, CancelUpdate DEF Abort
  <2> QED
    BY <1>2, <1>6, <2>2 DEF Abort
<1>7. CASE Claims
  <2>1. Opens
    BY <1>7, ClaimsOpen DEF Sure, Driven
  <2>2. state = NoOperation /\ entries' = entries /\ leaf' = leaf
    BY <2>1 DEF Opens, Sure, Driven, Base, OneOperation
  <2> QED
    BY <2>2, StillLinked DEF Continues, InBatch, NoOperation
<1>8. CASE \/ CompactPrepare \/ CompactBusy \/ AbortSignal \/ Resume \/ Start \/ Reload \/ RetrySleep \/ Wake
           \/ \E tools \in Registries : Crash(tools)
  BY <1>3, <1>8 DEF CompactPrepare, CompactBusy, AbortSignal, Resume, Crash, Start, RestoreClaim, Register,
    Deregister, Reload, RetrySleep, Wake
<1> QED
  BY <1>1, <1>3, <1>4, <1>5, <1>6, <1>7, <1>8 DEF Next, CallerStep, DriverStep, Claims, vars

(***************************************************************************)
(* What is asked for is answered.                                          *)
(***************************************************************************)
\* The conversation is a tree; a driver plans from the leaf it is at, and a
\* navigation goes where its caller asked.
OnTree ==
  /\ Tree(entries)
  /\ pc \in Settled => cur.leaf = leaf
  /\ state.kind = "navigation" => meta.target = state.target

\* A navigation is driven by one step only.
LEMMA NavigatesOnly ==
  ASSUME Driven, run.kind = "navigation", PlanStep \/ ElapsedStep \/ EffectStep
  PROVE  NavigationStep
<1>1. pc \notin {"model", "tool", "summary"}
  BY DEF Driven, Announced, Expects, run
<1>2. ~Compacting /\ \A ph : ~Planning(ph)
  BY DEF Compacting, Standalone, Planning
<1>3. ~EffectStep
  BY <1>1 DEF EffectStep, ModelReturns, ModelInterrupted, ToolFinishes, SummaryReturns
<1>4. ~ElapsedStep
  BY <1>2 DEF ElapsedStep, RetryElapsed, SummaryRetryElapsed, Generating, Structuring
<1>5. ~(\/ CheckpointWrites \/ CheckpointAbort \/ CheckpointSteer
        \/ (\E over \in BOOLEAN : CheckThreshold(over))
        \/ BeginGeneration \/ CheckpointFollowUp \/ RunEndHook \/ Complete
        \/ FailureInbox \/ FailureFinish
        \/ GenerationAbort \/ AssistantIntent \/ AssistantRestored \/ BatchComplete)
  BY <1>2 DEF CheckpointWrites, CheckpointAbort, CheckpointSteer, CheckThreshold, BeginGeneration,
    CheckpointFollowUp, RunEndHook, Complete, MayEnd, FailureInbox, FailureFinish, GenerationAbort,
    AssistantIntent, AssistantRestored, Generating, BatchComplete
<1>6. ~(\/ \E i \in CallIndices : ToolRefused(i) \/ ToolIntent(i) \/ ToolReplayed(i) \/ ToolGivenUp(i)
        \/ \E i \in CallIndices, terminate \in BOOLEAN : ToolBlocked(i, terminate))
  BY <1>2 DEF ToolRefused, ToolIntent, ToolReplayed, ToolGivenUp, ToolBlocked
<1>7. ~(\/ StructuralAbort \/ StructuralDeclined \/ StructuralHookSummary \/ StructuralGenerate
        \/ SummaryIntent \/ SummaryRestored)
  BY <1>2 DEF StructuralAbort, StructuralDeclined, StructuralHookSummary, StructuralGenerate,
    SummaryIntent, SummaryRestored, Structuring
<1> QED
  BY <1>3, <1>4, <1>5, <1>6, <1>7 DEF PlanStep

\* The target of a navigation stays what its caller asked for.
LEMMA AimNext ==
  ASSUME Driven, state.kind = "navigation" => meta.target = state.target, [Next]_<<vars, scenario>>,
         state'.kind = "navigation"
  PROVE  meta'.target = state'.target
<1>1. CASE UNCHANGED durable
  BY <1>1 DEF durable
<1>2. ASSUME meta' = meta, SameWork(state, state')
      PROVE  meta'.target = state'.target
  BY <1>2 DEF SameWork
<1>3. CASE PlanStep \/ ElapsedStep \/ EffectStep
  <2>1. CASE \E i \in CallIndices : ToolReplayed(i)
    BY <1>1, <2>1 DEF ToolReplayed
  <2>2. CASE pc \in Settled /\ Ends
    <3>1. state' # NoOperation
      BY DEF NoOperation
    <3> QED
      BY <1>1, <2>2, <3>1, EndFacts DEF CommitTerminal, durable
  <2>3. CASE pc \in Settled /\ Commits
    <3>1. CASE run = state /\ \E tx : Legal(state', tx, then')
      <4>1. NavigationStep
        BY <1>3, <3>1, NavigatesOnly DEF Legal
      <4>2. UNCHANGED durable \/ state' = NoOperation
        BY <4>1 DEF NavigationStep, AbortFinish, Terminal, CommitTerminal, durable
      <4> QED
        BY <1>1, <4>2 DEF NoOperation
    <3> QED
      BY <1>1, <2>3, <3>1, CommitFacts
  <2> QED
    BY <1>3, <2>1, <2>2, <2>3, DriverCommits DEF Driven
<1>4. ASSUME NEW q \in QueueKinds, NEW kind \in KindsOf(q), Enqueue(q, kind)
      PROVE  meta'.target = state'.target
  <2>1. state \in Run /\ fresh \in Id /\ q \in QueueNames
    BY <1>4, StateShape, CallersAssumption
      DEF Enqueue, Driven, Base, Control, Id, QueueNames, NoOperation
  <2>2. SameWork(state, state')
    BY <1>4, <2>1, EnqueueUpdate DEF Enqueue
  <2> QED
    BY <1>2, <1>4, <2>2 DEF Enqueue
<1>5. CASE NextRun
  BY <1>5 DEF NextRun
<1>6. CASE Abort
  <2>1. state \in OperationState
    BY <1>6 DEF Abort, Restorable, Driven, Base, Control, NoOperation
  <2>2. state' = state \/ SameWork(state, state')
    BY <1>6, <2>1, CancelUpdate DEF Abort
  <2> QED
    BY <1>2, <1>6, <2>2 DEF Abort
<1>7. ASSUME NEW n \in PromptCounts, StartRun(n)
      PROVE  FALSE
  BY <1>7 DEF StartRun, Claim
<1>8. CASE CompactClaim
  BY <1>8 DEF CompactClaim, Claim
<1>9. CASE NavigateSomewhere
  BY <1>9 DEF NavigateSomewhere, Navigate, Claim
<1>10. CASE \/ CompactPrepare \/ CompactBusy \/ AbortSignal \/ Resume \/ Start \/ Reload \/ RetrySleep \/ Wake
            \/ \E tools \in Registries : Crash(tools)
  BY <1>1, <1>10 DEF CompactPrepare, CompactBusy, AbortSignal, Resume, Crash, Start, RestoreClaim, Register,
    Deregister, Reload, RetrySleep, Wake
<1> QED
  BY <1>1, <1>3, <1>4, <1>5, <1>6, <1>7, <1>8, <1>9, <1>10 DEF Next, CallerStep, DriverStep, vars

\* A driver plans from the leaf it is at: nobody else moves it.
LEMMA LeafNext ==
  ASSUME Driven, pc \in Settled => cur.leaf = leaf, [Next]_<<vars, scenario>>, pc' \in Settled
  PROVE  cur'.leaf = leaf'
<1>1. ASSUME leaf' = leaf, cur' = cur, pc' = pc \/ pc \in Settled
      PROVE  cur'.leaf = leaf'
  BY <1>1
<1>2. ASSUME leaf' = leaf, cur' = Current
      PROVE  cur'.leaf = leaf'
  BY <1>2 DEF Current
<1>3. CASE Reload \/ RestoreClaim \/ Resume
  BY <1>1, <1>2, <1>3 DEF Reload, RestoreClaim, Resume, Leave, durable, Settled, Working
<1>4. CASE Register \/ Deregister \/ RetrySleep \/ Wake
  BY <1>1, <1>4 DEF Register, Deregister, RetrySleep, Wake, Structuring, Generating, Planning, durable,
    Settled, Working
<1>5. CASE PlanStep \/ ElapsedStep \/ EffectStep
  <2>1. CASE \E i \in CallIndices : ToolReplayed(i)
    BY <1>1, <2>1 DEF ToolReplayed, Planning, durable, Settled, Working
  <2>2. CASE pc \in Settled /\ Ends
    BY <2>2, EndFacts DEF Settled, Working
  <2>3. CASE pc \in Settled /\ Commits
    BY <2>3, CommitFacts DEF Settled, Working
  <2> QED
    BY <1>5, <2>1, <2>2, <2>3, DriverCommits DEF Driven
<1>6. CASE CompactPrepare \/ CompactBusy \/ AbortSignal \/ Abort \/ NextRun
           \/ \E q \in QueueKinds : \E kind \in KindsOf(q) : Enqueue(q, kind)
  BY <1>1, <1>6 DEF CompactPrepare, CompactBusy, AbortSignal, Abort, NextRun, Enqueue, durable, driverVars
<1>7. CASE Claims \/ \E tools \in Registries : Crash(tools)
  <2>1. pc' \in {"restore", "none"}
    BY <1>7 DEF Claims, StartRun, CompactClaim, NavigateSomewhere, Navigate, Claim, Crash
  <2> QED
    BY <2>1 DEF Settled, Working
<1>8. CASE UNCHANGED <<vars, scenario>>
  BY <1>1, <1>8 DEF vars, durable, driverVars
<1> QED
  BY <1>3, <1>4, <1>5, <1>6, <1>7, <1>8 DEF Next, CallerStep, DriverStep, Start, Claims

\* No step takes the conversation apart.
LEMMA OnTreeNext ==
  ASSUME Sure, OnTree, [Next]_<<vars, scenario>>
  PROVE  OnTree'
<1>1. Tree(entries)'
  <2>1. CASE Linked
    BY <2>1 DEF Linked, Grown
  <2>2. CASE Wanders
    BY <2>2, LeafNamed, GrownSame DEF Wanders, Grown, OnTree
  <2> QED
    BY <2>1, <2>2, LinkedNext DEF OnTree
<1>2. pc' \in Settled => cur'.leaf = leaf'
  BY LeafNext DEF OnTree, Sure
<1>3. state'.kind = "navigation" => meta'.target = state'.target
  BY AimNext DEF OnTree, Sure
<1> QED
  BY <1>1, <1>2, <1>3 DEF OnTree

\* An empty conversation is a tree.
LEMMA OnTreeInit ==
  ASSUME Init
  PROVE  OnTree
<1>1. DOMAIN entries = {} /\ pc = "none" /\ state.kind = "none"
  BY DEF Init, StoreInit, DriverInit, NoOperation
<1>2. IsFiniteSet(DOMAIN entries)
  BY <1>1, FS_EmptySet
<1>3. Tree(entries)
  BY <1>1, <1>2 DEF Tree, Heights
<1> QED
  BY <1>1, <1>3 DEF OnTree, Settled, Working

\* In every behaviour the conversation is a tree.
THEOREM ConversationIsTree == Spec => []OnTree
<1>1. Sure /\ Aside => Sure
  OBVIOUS
<1> QED
  BY <1>1, OnTreeInit, OnTreeNext, EverythingRooted, PTL DEF Spec

\* A step keeps every entry, and leaves the leaf on the branch below the new one.
LEMMA GrowsNext ==
  ASSUME Sure, OnTree, [Next]_<<vars, scenario>>
  PROVE  /\ \A id \in DOMAIN entries : id \in DOMAIN entries' /\ entries'[id] = entries[id]
         /\ \/ leaf' = leaf
            \/ state.kind = "navigation" /\ leaf' = meta.target
            \/ leaf = NoId \/ leaf \in Branch'
<1>1. CASE Linked
  <2>1. Grown(entries, leaf, entries', leaf')
    BY <1>1 DEF Linked
  <2>2. leaf # NoId => leaf \in AncestorsIn(entries, leaf)
    BY LeafNamed, AncestorsStep DEF Named, OnTree
  <2> QED
    BY <2>1, <2>2, BranchNext DEF Grown, Keeps
<1>2. CASE Wanders
  BY <1>2 DEF Wanders, OnTree, Keeps
<1> QED
  BY <1>1, <1>2, LinkedNext DEF OnTree

\* A conversation only grows, at its leaf, or a navigation moves the leaf.
THEOREM BranchesGrow == Spec => ConversationGrows
<1>1. Sure /\ Aside => Sure
  OBVIOUS
<1>2. ASSUME Sure, OnTree, [Next]_<<vars, scenario>>
      PROVE  [/\ \A id \in DOMAIN entries : id \in DOMAIN entries' /\ entries'[id] = entries[id]
              /\ \/ leaf' = leaf
                 \/ state.kind = "navigation" /\ leaf' = meta.target
                 \/ leaf = NoId \/ leaf \in Branch']_vars
  BY <1>2, GrowsNext
<1> QED
  BY <1>1, <1>2, ConversationIsTree, EverythingRooted, PTL DEF Spec, ConversationGrows

\* A call that the open batch has yet to write the result of.
Due(s, a, i) ==
  /\ InBatch(s) /\ s.phase.assistant = a
  /\ i \in DOMAIN s.phase.calls /\ s.phase.calls[i].status # "completed"

\* A call that has its result among ids.
Replied(E, ids, a, i) == \E r \in ids : E[r].type = "toolResult" /\ E[r].call = <<a, i>>

\* Every call on a branch is answered there.
Settles(E, ids) ==
  \A a \in ids : Asks(E, a) => \A i \in DOMAIN E[a].calls : Replied(E, ids, a, i)

\* Every call on the branch is answered there, or is one the open batch is at.
Owed ==
  \A a \in Branch : Asks(entries, a) =>
    \A i \in DOMAIN entries[a].calls : Due(state, a, i) \/ Replied(entries, Branch, a, i)

\* The target of a navigation is not in the middle of a batch.
TargetsSettled == state.kind = "navigation" => Settles(entries, Ancestors(state.target))

\* A batch has a step for every call of its response.
LEMMA BatchLength ==
  ASSUME NEW s \in OperationState \cup {NoOperation}, NEW E, NEW args, NEW tasks, NEW tip,
         NEW to, Conversation(E, to), RootedState(s, E, args, tasks, tip), InBatch(s)
  PROVE  /\ s.phase.assistant \in DOMAIN E
         /\ DOMAIN s.phase.calls = DOMAIN E[s.phase.assistant].calls
         /\ \A i \in DOMAIN s.phase.calls : CallRooted(s.phase, i, E, args, tip)
<1> DEFINE a == s.phase.assistant
<1>1. s \in Run /\ s.phase.p = "tools"
  BY StateShape DEF InBatch, NoOperation
<1>2. s.phase \in Tools
  BY <1>1, PhaseShape DEF Run
<1>3. BatchRooted(s.phase, E, args, tip)
  BY <1>1 DEF RootedState, RootedPhase, InBatch
<1>4. a \in DOMAIN E /\ E[a] \in Entry /\ E[a].type = "assistant"
  BY <1>3 DEF BatchRooted, Conversation
<1>5. E[a].calls \in Seq(ToolNames)
  BY <1>4 DEF Entry, InputKinds
<1>6. s.phase.calls \in Seq(ToolCall)
  BY <1>2 DEF Tools
<1>7. Len(s.phase.calls) = Len(E[a].calls)
  BY <1>3 DEF BatchRooted
<1>8. DOMAIN s.phase.calls = DOMAIN E[a].calls
  BY <1>5, <1>6, <1>7
<1> QED
  BY <1>3, <1>8 DEF BatchRooted

\* A growing branch answers what it asks for, when the batch is over at the latest.
LEMMA OwedGrows ==
  ASSUME Sure, Sure', Tree(entries), Owed, Linked
  PROVE  Owed'
<1>1. /\ Keeps(entries, entries')
      /\ Branch' = Branch \cup (DOMAIN entries' \ DOMAIN entries)
  BY BranchNext, AncestorsNow DEF Linked, Grown, Branch
<1>2. Branch \subseteq DOMAIN entries
  BY LeafNamed, AncestorsNow, AncestorsAbove DEF Branch
<1>3. InBatch(state) =>
        /\ state.phase.assistant \in DOMAIN entries
        /\ DOMAIN state.phase.calls = DOMAIN entries[state.phase.assistant].calls
  BY BatchLength DEF Sure, Driven, Base, Control, Rooted
<1>4. InBatch(state') =>
        /\ state'.phase.assistant \in DOMAIN entries'
        /\ DOMAIN state'.phase.calls = DOMAIN entries'[state'.phase.assistant].calls
        /\ \A i \in DOMAIN state'.phase.calls :
             CallRooted(state'.phase, i, entries', toolArgs', leaf')
  <2>1. /\ state' \in OperationState \cup {NoOperation}
        /\ Conversation(entries', leaf')
        /\ RootedState(state', entries', toolArgs', DOMAIN prep', leaf')
    BY DEF Sure, Driven, Base, Control, Rooted
  <2> QED
    BY <2>1, BatchLength
<1>5. ASSUME NEW a \in Branch', Asks(entries', a), NEW i \in DOMAIN entries'[a].calls
      PROVE  Due(state', a, i) \/ Replied(entries', Branch', a, i)
  <2>1. CASE a \notin DOMAIN entries
    <3>1. a \in DOMAIN entries' \ DOMAIN entries
      BY <1>1, <1>2, <2>1
    <3>2. Plans(state', a)
      BY <1>5, <3>1 DEF Linked
    <3> QED
      BY <1>4, <1>5, <3>2 DEF Plans, InBatch, Due
  <2>2. CASE a \in DOMAIN entries
    <3>1. a \in Branch /\ entries'[a] = entries[a]
      BY <1>1, <1>5, <2>2 DEF Keeps
    <3>2. Asks(entries, a) /\ i \in DOMAIN entries[a].calls
      BY <1>5, <3>1 DEF Asks
    <3>3. CASE Replied(entries, Branch, a, i)
      <4>1. PICK r \in Branch : entries[r].type = "toolResult" /\ entries[r].call = <<a, i>>
        BY <3>3 DEF Replied
      <4>2. r \in Branch' /\ entries'[r] = entries[r]
        BY <1>1, <1>2 DEF Keeps
      <4> QED
        BY <4>1, <4>2 DEF Replied
    <3>4. CASE Due(state, a, i)
      <4>1. /\ InBatch(state) /\ state.phase.assistant = a /\ i \in DOMAIN state.phase.calls
            /\ state.phase.calls[i].status # "completed"
        BY <3>4 DEF Due
      <4>2. /\ InBatch(state') /\ state'.phase.assistant = a
            /\ state'.phase.calls[i].result = state.phase.calls[i].result
        BY <4>1 DEF Linked, Continues
      <4>3. i \in DOMAIN state'.phase.calls
        BY <1>4, <1>5, <4>2
      <4>4. CASE state'.phase.calls[i].status = "completed"
        <5> DEFINE r == state'.phase.calls[i].result
        <5>1. r \in DOMAIN entries' /\ entries'[r].type = "toolResult" /\ entries'[r].call = <<a, i>>
          BY <1>4, <4>2, <4>3, <4>4 DEF CallRooted
        <5>2. r \in Reserved(state)
          BY <4>1, <4>2 DEF Reserved, InBatch
        <5>3. r \notin DOMAIN entries
          BY <5>2 DEF Sure, Housed
        <5> QED
          BY <1>1, <5>1, <5>3 DEF Replied
      <4> QED
        BY <4>2, <4>3, <4>4 DEF Due
    <3> QED
      BY <3>1, <3>2, <3>3, <3>4 DEF Owed
  <2> QED
    BY <2>1, <2>2
<1> QED
  BY <1>5 DEF Owed

\* A navigation to where nothing is owed leaves nothing owed.
LEMMA OwedWanders ==
  ASSUME Sure, Tree(entries), TargetsSettled, Wanders
  PROVE  Owed'
<1>1. Named(entries, state.target)
  BY DEF Wanders, Sure, Rooted, RootedState
<1>2. Tree(entries')
  BY <1>1, GrownSame DEF Wanders, Grown
<1> DEFINE B == AncestorsIn(entries, state.target)
<1>3. Branch' = B
  BY <1>1, <1>2, BranchNext, AncestorsKept DEF Wanders
<1>4. B \subseteq DOMAIN entries /\ B = Ancestors(state.target)
  BY <1>1, AncestorsNow, AncestorsAbove
<1>5. Settles(entries, B)
  BY <1>4 DEF TargetsSettled, Wanders
<1>6. \A x \in B : entries'[x] = entries[x]
  BY <1>4 DEF Wanders, Keeps
<1> HIDE DEF B
<1>7. ASSUME NEW a \in Branch', Asks(entries', a), NEW i \in DOMAIN entries'[a].calls
      PROVE  Replied(entries', Branch', a, i)
  <2>1. a \in B /\ Asks(entries, a) /\ i \in DOMAIN entries[a].calls
    BY <1>3, <1>6, <1>7 DEF Asks
  <2> QED
    BY <1>3, <1>5, <1>6, <2>1 DEF Settles, Replied
<1> QED
  BY <1>7 DEF Owed

\* Nothing is owed by an idle lane, or when a request is made.
LEMMA OwedPairs ==
  ASSUME Sure, OnTree, Owed
  PROVE  CallsPaired
<1>1. ASSUME ~InBatch(state), NEW a \in Branch, entries[a].type = "assistant",
             entries[a].stop \notin {"error", "aborted"}, NEW i \in DOMAIN entries[a].calls
      PROVE  \E r \in Branch : entries[r].type = "toolResult" /\ entries[r].call = <<a, i>>
  <2>1. Asks(entries, a)
    BY <1>1 DEF Asks
  <2> QED
    BY <1>1, <2>1 DEF Owed, Due, Replied
<1>2. CallsAnswered
  <2>1. ~Busy => ~InBatch(state)
    BY DEF Sure, Driven, Base, OneOperation, InBatch, NoOperation
  <2> QED
    BY <1>1, <2>1 DEF CallsAnswered
<1>3. RequestsPaired
  <2>1. ASSUME pc = "model"
        PROVE  ~InBatch(state) /\ cur.leaf = leaf
    <3>1. cur.state.kind = "run" /\ cur.state.phase.p = "assistant" /\ SameWork(cur.state, state)
      BY <2>1 DEF Sure, Driven, Announced, Expects, Base, Coherent, Settled, Working
    <3>2. cur.leaf = leaf
      BY <2>1 DEF OnTree, Settled, Working
    <3> QED
      BY <3>1, <3>2 DEF SameWork, InBatch
  <2>2. pc = "model" => Ancestors(cur.leaf) = Branch
    BY <2>1 DEF Branch
  <2> QED
    BY <1>1, <2>1, <2>2 DEF RequestsPaired
<1> QED
  BY <1>2, <1>3 DEF CallsPaired

\* Nothing is asked for in an empty conversation.
LEMMA OwedInit ==
  ASSUME Init
  PROVE  Owed
<1>1. DOMAIN entries = {} /\ leaf = NoId
  BY DEF Init, StoreInit
<1>2. Tree(entries) /\ Named(entries, leaf)
  BY <1>1, OnTreeInit DEF OnTree, Named
<1>3. Branch \subseteq DOMAIN entries
  BY <1>2, AncestorsNow, AncestorsAbove DEF Branch
<1> QED
  BY <1>1, <1>3 DEF Owed

\* As long as no navigation goes into the middle of a batch, whoever queues,
\* aborts, compacts, navigates elsewhere or crashes: an idle lane has the result of
\* every call on its branch, and so has every conversation a request is made with.
THEOREM AnsweredTargetsPair == Spec /\ []TargetsSettled => []CallsPaired
<1>1. Sure /\ Aside => Sure
  OBVIOUS
<1>2. ASSUME Sure, Sure', OnTree, TargetsSettled, Owed, [Next]_<<vars, scenario>>
      PROVE  Owed'
  BY <1>2, LinkedNext, OwedGrows, OwedWanders DEF OnTree
<1> QED
  BY <1>1, <1>2, OwedInit, OwedPairs, ConversationIsTree, EverythingRooted, PTL DEF Spec

\* A scenario without navigations.
NobodyNavigates == \A s \in DOMAIN Scenarios : Scenarios[s].bounds["navigations"] = 0

\* What is not allowed does not happen.
Stays == used \in [Choices -> Nat] /\ state.kind # "navigation"

\* No operation becomes a navigation.
LEMMA StaysNext ==
  ASSUME Driven, Stays, NobodyNavigates, [Next]_<<vars, scenario>>
  PROVE  Stays'
<1> USE DEF Driven
<1>1. used' \in [Choices -> Nat]
  BY UsedCounts DEF Stays
<1>2. Bounds["navigations"] = 0
  BY DEF NobodyNavigates, Bounds, Base, Control
<1>3. ~NavigateSomewhere
  BY <1>2, Spent DEF NavigateSomewhere, Navigate, Stays, Choices
<1>4. state'.kind # "navigation"
  <2>1. CASE pc \in Settled /\ Commits
    <3>1. run = state /\ (\E tx : Legal(state', tx, then')) => state'.kind = state.kind
      BY DEF Legal
    <3> QED
      BY <2>1, <3>1, CommitFacts DEF Stays, durable
  <2>2. CASE pc \in Settled /\ Ends
    <3>1. state' = state \/ state' = NoOperation
      BY <2>2, EndFacts DEF CommitTerminal, durable
    <3> QED
      BY <3>1 DEF NoOperation, Stays
  <2>3. ASSUME NEW q \in QueueKinds, NEW kind \in KindsOf(q), Enqueue(q, kind)
        PROVE  state'.kind = state.kind
    <3>1. state \in Run /\ fresh \in Id /\ q \in QueueNames
      BY <2>3, StateShape, CallersAssumption DEF Enqueue, Base, Control, Id, QueueNames, NoOperation
    <3>2. SameWork(state, state')
      BY <2>3, <3>1, EnqueueUpdate DEF Enqueue
    <3> QED
      BY <3>2 DEF SameWork
  <2>4. CASE NextRun \/ Observes
    BY <2>4 DEF NextRun, Observes, durable, Stays
  <2>5. CASE Abort
    <3>1. state \in OperationState
      BY <2>5 DEF Abort, Restorable, Base, Control, NoOperation
    <3> QED
      BY <2>5, <3>1, CancelUpdate DEF Abort, SameWork, Stays
  <2>6. ASSUME NEW n \in PromptCounts, StartRun(n)
        PROVE  state'.kind = "run"
    BY <2>6 DEF StartRun, Claim
  <2>7. CASE CompactClaim
    BY <2>7 DEF CompactClaim, Claim
  <2> QED
    BY <1>3, <2>1, <2>2, <2>3, <2>4, <2>5, <2>6, <2>7, NextCases DEF Claims, Stays
<1> QED
  BY <1>1, <1>4 DEF Stays

\* A lane nobody navigates sends every call with its result, and leaves it so.
THEOREM UnmovedPairs == NobodyNavigates => (Spec => []CallsPaired)
<1> SUFFICES ASSUME NobodyNavigates
             PROVE  Spec => []CallsPaired
  OBVIOUS
<1>1. Init => Stays
  BY ScenariosAssumption DEF Init, StoreInit, DriverInit, Stays, Choices, NoOperation
<1>2. ASSUME Driven, Stays, [Next]_<<vars, scenario>>
      PROVE  Stays'
  BY <1>2, StaysNext
<1>3. Stays => TargetsSettled
  BY DEF Stays, TargetsSettled
<1> QED
  BY <1>1, <1>2, <1>3, Steering, AnsweredTargetsPair, PTL DEF Spec
===============================================================================
