----------------------------- MODULE TurnProofs -----------------------------
(***************************************************************************)
(* The calls of a turn for any texts, tools, handlers and number of lanes, *)
(* and the posts of its request.                                           *)
(***************************************************************************)
EXTENDS Turn, TLAPS

\* The folds of the model, for the theorems of LeftFold: a gate asks its handlers,
\* and Lua tools take their place among the schemas.
Judged(at, handler) == Ask(at, Says(handler, at.args))
Gate == INSTANCE LeftFold WITH Op <- Judged
Offers == INSTANCE LeftFold WITH Op <- Offer

(***************************************************************************)
(* What is found in a sequence.                                            *)
(***************************************************************************)

\* A set of indices has a least one.
LEMMA MinOf ==
  ASSUME NEW n \in Nat, NEW S \in SUBSET (1 .. n), S # {}
  PROVE  Min(S) \in S /\ \A x \in S : Min(S) <= x
<1> DEFINE T == {n + 1 - x : x \in S}
<1>1. T \in SUBSET (1 .. n) /\ T # {}
  <2>1. \A x \in S : n + 1 - x \in 1 .. n
    OBVIOUS
  <2> QED
    BY <2>1
<1>2. PICK m \in T : \A x \in T : x <= m
  BY <1>1, Offers!MaxOf
<1>3. PICK x \in S : m = n + 1 - x
  BY <1>2
<1>4. \A y \in S : x <= y
  <2>1. \A y \in S : n + 1 - y \in T /\ y \in Int /\ x \in Int
    OBVIOUS
  <2> QED
    BY <1>2, <1>3, <2>1
<1> QED
  BY <1>3, <1>4 DEF Min

\* find() gives the first of a name, or nothing if there is none.
LEMMA NamedFirst ==
  ASSUME NEW D, NEW definitions \in Seq(D), NEW name
  PROVE  \/ /\ Named(definitions, name) = <<>>
            /\ \A i \in DOMAIN definitions : definitions[i].name # name
         \/ \E i \in DOMAIN definitions :
              /\ Named(definitions, name) = <<definitions[i]>> /\ definitions[i].name = name
              /\ \A j \in 1 .. i - 1 : definitions[j].name # name
<1> DEFINE I == {i \in 1 .. Len(definitions) : definitions[i].name = name}
           at == SelectInSeq(definitions, LAMBDA d : d.name = name)
<1>1. at = IF I # {} THEN Min(I) ELSE 0
  BY DEF SelectInSeq
<1>2. DOMAIN definitions = 1 .. Len(definitions) /\ Len(definitions) \in Nat
  OBVIOUS
<1>3. CASE I = {}
  BY <1>1, <1>2, <1>3 DEF Named
<1>4. CASE I # {}
  <2>1. Min(I) \in I /\ \A x \in I : Min(I) <= x
    BY <1>2, <1>4, MinOf
  <2>2. at = Min(I) /\ at # 0
    BY <1>1, <1>2, <1>4, <2>1
  <2>3. Named(definitions, name) = <<definitions[at]>>
    BY <2>2 DEF Named
  <2>4. Min(I) \in DOMAIN definitions /\ definitions[Min(I)].name = name
    BY <1>2, <2>1
  <2>5. \A j \in 1 .. Min(I) - 1 : definitions[j].name # name
    BY <1>2, <2>1
  <2> QED
    BY <2>2, <2>3, <2>4, <2>5
<1> QED
  BY <1>3, <1>4

(***************************************************************************)
(* The gate.                                                               *)
(***************************************************************************)
Entered(args) == [args |-> args, changed |-> FALSE, block |-> None]
Stripped(args) == [args EXCEPT !["raw"] = FALSE]
Handlers == {"watch", "strip", "guard", "broken"}

\* before_tool is a fold of Judged.
LEMMA GateFolded ==
  ASSUME NEW handlers, NEW args
  PROVE  BeforeTool(handlers, args, Says) = Gate!Folded(Entered(args), handlers)
BY DEF BeforeTool, Judged, Entered, Gate!Folded, FoldLeft, Gate!FoldLeft, Gate!MapThenFoldSet,
  MapThenFoldSet, Gate!Max, Max

GateStates(written) ==
  [args: {written, Stripped(written)}, changed: BOOLEAN, block: {None, "raw", "hook failed"}]

\* What n handlers that block nothing leave of the arguments.
Passed(handlers, written, n, at) ==
  at.block = None =>
    /\ at.args = IF at.changed THEN Stripped(written) ELSE written
    /\ at.changed => Raw(written)
    /\ \A i \in 1 .. n : handlers[i] # "broken"
    /\ \A i \in 1 .. n : handlers[i] = "guard" /\ Raw(written) =>
          \E j \in 1 .. i - 1 : handlers[j] = "strip"
    /\ Raw(written) => (at.changed <=> \E i \in 1 .. n : handlers[i] = "strip")

\* Stripped arguments are not raw.
LEMMA StrippedNotRaw ==
  ASSUME NEW args
  PROVE  ~Raw(Stripped(args))
BY DEF Raw, Stripped

\* The three changes a handler may make.
Blocks(at, why) == [at EXCEPT !.block = why]
Changes(at, args) == [at EXCEPT !.args = args, !.changed = TRUE]
Fails(at) == [at EXCEPT !.block = "hook failed", !.changed = FALSE]

\* What a handler answers that has a result.
LEMMA JudgedResult ==
  ASSUME NEW at, at.block = None, NEW handler, NEW block, NEW args,
         Says(handler, at.args) = [kind |-> "result", block |-> block, args |-> args]
  PROVE  /\ block # None => Judged(at, handler) = Blocks(at, block)
         /\ block = None /\ args # None =>
              Judged(at, handler) = Changes(at, args)
         /\ block = None /\ args = None => Judged(at, handler) = at
<1> DEFINE answer == [kind |-> "result", block |-> block, args |-> args]
<1>1. answer.kind = "result" /\ answer.block = block /\ answer.args = args
  OBVIOUS
<1>2. Silent.kind = "silent" /\ Failed.kind = "failed"
  BY DEF Silent, Failed
<1>3. Judged(at, handler) = Ask(at, answer)
  BY DEF Judged
<1> HIDE DEF answer
<1> QED
  BY <1>1, <1>2, <1>3 DEF Ask, Blocks, Changes

\* What each handler makes of a state that is not blocked.
LEMMA JudgedBy ==
  ASSUME NEW written, Raw(written) => Stripped(written) # None, NEW handler \in Handlers,
         NEW at \in GateStates(written), at.block = None,
         at.args = IF at.changed THEN Stripped(written) ELSE written
  PROVE  /\ handler = "watch" => Judged(at, handler) = at
         /\ handler = "strip" =>
              Judged(at, handler) = IF Raw(at.args) THEN Changes(at, Stripped(written))
                                   ELSE at
         /\ handler = "guard" =>
              Judged(at, handler) = IF Raw(at.args) THEN Blocks(at, "raw") ELSE at
         /\ handler = "broken" =>
              Judged(at, handler) = Fails(at)
<1>1. None # "raw"
  BY TurnAssumption
<1>2. ASSUME Says(handler, at.args) = Silent
      PROVE  Judged(at, handler) = at
  <2>1. Silent.kind = "silent" /\ Failed.kind = "failed"
    BY DEF Silent, Failed
  <2>2. Judged(at, handler) = Ask(at, Silent)
    BY <1>2 DEF Judged
  <2> QED
    BY <2>1, <2>2 DEF Ask
<1>3. CASE handler = "watch"
  <2>1. Says(handler, at.args) = Silent
    BY <1>3 DEF Says
  <2> QED
    BY <1>2, <1>3, <2>1
<1>4. CASE handler = "strip"
  <2>1. CASE Raw(at.args)
    <3>1. at.args = written /\ Raw(written)
      BY <2>1, StrippedNotRaw
    <3>2. Says(handler, at.args) = [kind |-> "result", block |-> None, args |-> Stripped(written)]
      BY <1>4, <2>1, <3>1 DEF Says, Stripped
    <3>3. Judged(at, handler) = Changes(at, Stripped(written))
      BY <3>1, <3>2, JudgedResult
    <3> QED
      BY <1>4, <2>1, <3>3
  <2>2. CASE ~Raw(at.args)
    <3>1. Says(handler, at.args) = [kind |-> "result", block |-> None, args |-> None]
      BY <1>4, <2>2 DEF Says
    <3>2. Judged(at, handler) = at
      BY <3>1, JudgedResult
    <3> QED
      BY <1>4, <2>2, <3>2
  <2> QED
    BY <2>1, <2>2
<1>5. CASE handler = "guard"
  <2>1. CASE Raw(at.args)
    <3>1. Says(handler, at.args) = [kind |-> "result", block |-> "raw", args |-> None]
      BY <1>5, <2>1 DEF Says
    <3>2. Judged(at, handler) = Blocks(at, "raw")
      BY <1>1, <3>1, JudgedResult
    <3> QED
      BY <1>5, <2>1, <3>2
  <2>2. CASE ~Raw(at.args)
    <3>1. Says(handler, at.args) = Silent
      BY <1>5, <2>2 DEF Says
    <3> QED
      BY <1>2, <1>5, <2>2, <3>1
  <2> QED
    BY <2>1, <2>2
<1>6. CASE handler = "broken"
  <2>1. Says(handler, at.args) = Failed
    BY <1>6 DEF Says
  <2>2. Silent.kind = "silent" /\ Failed.kind = "failed"
    BY DEF Silent, Failed
  <2>3. Judged(at, handler) = Ask(at, Failed)
    BY <2>1 DEF Judged
  <2>4. Ask(at, Failed) = Fails(at)
    BY <2>2 DEF Ask, Fails
  <2> QED
    BY <1>6, <2>3, <2>4
<1> QED
  BY <1>3, <1>4, <1>5, <1>6 DEF Handlers

\* One handler.
LEMMA GatePasses ==
  ASSUME NEW handlers \in Seq(Handlers), NEW written, Raw(written) => Stripped(written) # None,
         NEW n \in 1 .. Len(handlers), NEW at \in GateStates(written),
         Passed(handlers, written, n - 1, at)
  PROVE  /\ Judged(at, handlers[n]) \in GateStates(written)
         /\ Passed(handlers, written, n, Judged(at, handlers[n]))
<1> DEFINE handler == handlers[n]
           next == Judged(at, handler)
<1>1. handler \in Handlers /\ n \in Nat /\ n - 1 \in Nat /\ Len(handlers) \in Nat
  OBVIOUS
<1>0. SUFFICES next \in GateStates(written) /\ Passed(handlers, written, n, next)
  OBVIOUS
<1>2. CASE at.block # None
  BY <1>2 DEF Judged, Ask, Passed
<1>3. CASE at.block = None
  <2>1. /\ at.args = IF at.changed THEN Stripped(written) ELSE written
        /\ at.changed => Raw(written)
        /\ \A i \in 1 .. n - 1 : handlers[i] # "broken"
        /\ \A i \in 1 .. n - 1 : handlers[i] = "guard" /\ Raw(written) =>
             \E j \in 1 .. i - 1 : handlers[j] = "strip"
        /\ Raw(written) => (at.changed <=> \E i \in 1 .. n - 1 : handlers[i] = "strip")
    BY <1>3 DEF Passed
  <2>2. Raw(at.args) <=> Raw(written) /\ ~at.changed
    BY <2>1, StrippedNotRaw
  <2>3. \A i \in 1 .. n : i = n \/ i \in 1 .. n - 1
    BY <1>1
  <2>9. /\ handler = "watch" => next = at
        /\ handler = "strip" =>
             next = IF Raw(at.args) THEN Changes(at, Stripped(written)) ELSE at
        /\ handler = "guard" => next = IF Raw(at.args) THEN Blocks(at, "raw") ELSE at
        /\ handler = "broken" => next = Fails(at)
    <3>1. handler \in Handlers /\ at.args = IF at.changed THEN Stripped(written) ELSE written
      BY <1>1, <2>1
    <3> HIDE DEF handler
    <3> QED
      BY <1>3, <3>1, JudgedBy
  <2>10. DOMAIN at = {"args", "changed", "block"} /\ at.changed \in BOOLEAN
    BY DEF GateStates
  <2> HIDE DEF next
  <2>4. CASE handler = "watch"
    <3>1. next = at
      BY <2>4, <2>9
    <3> QED
      BY <2>1, <2>3, <2>4, <3>1 DEF Passed
  <2>5. CASE handler = "strip"
    <3>1. next = IF Raw(at.args) THEN Changes(at, Stripped(written)) ELSE at
      BY <2>5, <2>9
    <3>2. next.block = at.block /\ next.changed = (at.changed \/ Raw(at.args))
      BY <2>10, <3>1 DEF GateStates, Changes
    <3>3. next \in GateStates(written)
      BY <3>1 DEF GateStates, Changes, Fails
    <3>4. next.args = IF next.changed THEN Stripped(written) ELSE written
      BY <2>1, <2>2, <2>10, <3>1 DEF GateStates, Changes
    <3>5. \E i \in 1 .. n : handlers[i] = "strip"
      BY <1>1, <2>5
    <3>6. Raw(written) => next.changed
      BY <2>2, <3>2
    <3> QED
      BY <1>1, <2>1, <2>2, <2>3, <2>5, <3>2, <3>3, <3>4, <3>5, <3>6 DEF Passed
  <2>6. CASE handler = "guard"
    <3>1. next = IF Raw(at.args) THEN Blocks(at, "raw") ELSE at
      BY <2>6, <2>9
    <3>2. CASE Raw(at.args)
      <4>1. next = Blocks(at, "raw")
        BY <3>1, <3>2
      <4>2. next.block = "raw" /\ next \in GateStates(written)
        BY <4>1 DEF GateStates, Blocks
      <4> QED
        BY <4>2, TurnAssumption DEF Passed
    <3>3. CASE ~Raw(at.args)
      <4>1. Raw(written) => \E j \in 1 .. n - 1 : handlers[j] = "strip"
        BY <2>1, <2>2, <3>3
      <4>2. next = at
        BY <3>1, <3>3
      <4> QED
        BY <1>1, <2>1, <2>3, <2>6, <4>1, <4>2 DEF Passed
    <3> QED
      BY <3>2, <3>3
  <2>7. CASE handler = "broken"
    <3>1. next = Fails(at)
      BY <2>7, <2>9
    <3>2. next.block = "hook failed" /\ next \in GateStates(written)
      BY <3>1 DEF GateStates, Changes, Fails
    <3> QED
      BY <3>2, NoneAssumption DEF Passed
  <2> QED
    BY <1>1, <2>4, <2>5, <2>6, <2>7 DEF Handlers
<1> QED
  BY <1>2, <1>3

\* The whole chain.
LEMMA GateOpens ==
  ASSUME NEW handlers \in Seq(Handlers), NEW written, Raw(written) => Stripped(written) # None
  PROVE  /\ BeforeTool(handlers, written, Says) \in GateStates(written)
         /\ Passed(handlers, written, Len(handlers), BeforeTool(handlers, written, Says))
<1> DEFINE T == {p \in Nat \X GateStates(written) : Passed(handlers, written, p[1], p[2])}
           base == Entered(written)
<1>1. <<0, base>> \in T
  <2>1. base \in GateStates(written)
    BY DEF Entered, GateStates
  <2>2. base.args = written /\ base.changed = FALSE
    BY DEF Entered
  <2>3. Passed(handlers, written, 0, base)
    <3> HIDE DEF base
    <3> QED
      BY <2>2 DEF Passed
  <2> QED
    BY <2>1, <2>3
<1>2. ASSUME NEW i \in 1 .. Len(handlers), NEW at, <<i - 1, at>> \in T
      PROVE  <<i, Judged(at, handlers[i])>> \in T
  <2>1. at \in GateStates(written) /\ Passed(handlers, written, i - 1, at)
    BY <1>2
  <2>2. i \in Nat
    OBVIOUS
  <2> QED
    BY <2>1, <2>2, GatePasses
<1> HIDE DEF T, base
<1>3. <<Len(handlers), Gate!Folded(base, handlers)>> \in T
  BY <1>1, <1>2, Gate!FoldSteps
<1>4. BeforeTool(handlers, written, Says) = Gate!Folded(base, handlers)
  BY GateFolded DEF base
<1> QED
  BY <1>3, <1>4 DEF T

\* Written arguments are of their types, and are there when stripped.
LEMMA WrittenArgs ==
  ASSUME NEW call
  PROVE  IsArgs(Written(call)) /\ (Raw(Written(call)) => Stripped(Written(call)) # None)
<1>1. IsArgs(NoArgs)
  BY DEF IsArgs, NoArgs, Raw
<1>2. Written(call) = NoArgs \/ \E tool \in DOMAIN ModelArgs : Written(call) = ModelArgs[tool]
  BY DEF Written
<1>3. IsArgs(Written(call))
  BY <1>1, <1>2, TurnAssumption
<1> QED
  BY <1>3 DEF IsArgs, Stripped

\* A step of a tool: one lane gets on with its call, and no call starts.
LEMMA ToolMoves ==
  ASSUME ToolStep
  PROVE  /\ UNCHANGED runtime
         /\ \/ UNCHANGED task
            \/ \E l \in Lanes : \E t : task' = [task EXCEPT ![l] = t] /\ t.pc # "run"
<1>1. ASSUME NEW l, NEW t, t.pc # "run", Becomes(l, t)
      PROVE  \E u : task' = [task EXCEPT ![l] = u] /\ u.pc # "run"
  BY <1>1 DEF Becomes
<1>2. ASSUME NEW t, NEW text, NEW next, NEW why
      PROVE  Presenting(t, text, next).pc = "present" /\ Refused(t, why).pc = "done"
  BY DEF Presenting, Refused, Answered
<1>3. ASSUME NEW l \in Lanes, Prints(l)
      PROVE  UNCHANGED runtime /\ \E t : task' = [task EXCEPT ![l] = t] /\ t.pc # "run"
  BY <1>1, <1>2, <1>3 DEF Prints
<1>4. ASSUME NEW l \in Lanes, RunRefused(l) \/ RunRead(l) \/ RunWrite(l)
      PROVE  UNCHANGED runtime /\ \E t : task' = [task EXCEPT ![l] = t] /\ t.pc # "run"
  BY <1>1, <1>2, <1>4 DEF RunRefused, RunRead, RunWrite
<1>5. ASSUME NEW l \in Lanes, RunEdit(l) \/ WriteEdit(l)
      PROVE  UNCHANGED runtime /\ \E t : task' = [task EXCEPT ![l] = t] /\ t.pc # "run"
  BY <1>1, <1>2, <1>5 DEF RunEdit, WriteEdit
<1>6. ASSUME NEW l \in Lanes, Present(l) \/ Spill(l)
      PROVE  UNCHANGED runtime /\ \E t : task' = [task EXCEPT ![l] = t] /\ t.pc # "run"
  BY <1>1, <1>6 DEF Present, Spill, Answered
<1> QED
  BY <1>3, <1>4, <1>5, <1>6 DEF ToolStep, RunLua, RunBash, RunShell, Tick

Gated == DOMAIN task = Lanes /\ chain \in Seq(Handlers) /\ GateClosed

\* A call that starts got through the gate.
LEMMA StartsGated ==
  ASSUME Gated, StartTool
  PROVE  Gated'
<1> DEFINE call == Head(calls)
           written == Written(call)
           before == BeforeTool(chain, written, Says)
<1>1. CASE UNCHANGED task
  <2>1. task'[Main].pc = "idle"
    BY <1>1 DEF StartTool, Idle
  <2> QED
    BY <1>1, <2>1 DEF Gated, GateClosed, StartTool
<1>2. CASE ~UNCHANGED task
  <2>1. /\ before.block = None /\ UNCHANGED <<calls, chain>>
        /\ Becomes(Main, Invoked(call.tool, IF before.changed THEN before.args ELSE written, NotReading))
    BY <1>2 DEF StartTool
  <2>2. before \in GateStates(written) /\ Passed(chain, written, Len(chain), before)
    BY WrittenArgs, GateOpens DEF Gated
  <2> HIDE DEF before, written
  <2>3. DOMAIN task' = Lanes /\ task'[Main].args = before.args
    BY <2>1, <2>2, TurnAssumption DEF Gated, Becomes, Invoked, Passed
  <2>4. DOMAIN chain = 1 .. Len(chain)
    BY DEF Gated
  <2>5. "broken" \notin Range(chain)
    BY <2>1, <2>2, <2>4 DEF Passed, Range
  <2>6. \A i \in DOMAIN chain : chain[i] = "guard" /\ Raw(written) =>
          \E j \in {k \in DOMAIN chain : chain[k] = "strip"} : j < i
    <3>1. ASSUME NEW i \in DOMAIN chain, chain[i] = "guard", Raw(written)
          PROVE  \E j \in {k \in DOMAIN chain : chain[k] = "strip"} : j < i
      <4>1. PICK j \in 1 .. i - 1 : chain[j] = "strip"
        BY <2>1, <2>2, <2>4, <3>1 DEF Passed
      <4>2. j \in DOMAIN chain /\ j < i
        BY <2>4
      <4> QED
        BY <4>1, <4>2
    <3> QED
      BY <3>1
  <2>7. Raw(before.args) <=> Raw(written) /\ {k \in DOMAIN chain : chain[k] = "strip"} = {}
    BY <2>1, <2>2, <2>4, StrippedNotRaw DEF Passed
  <2>8. Raw(task[Main].args)' <=> Raw(before.args)
    BY <2>3 DEF Raw
  <2>9. Written(Head(calls))' = written
    BY <2>1 DEF Written, written
  <2>10. GateClosed'
    BY <2>1, <2>5, <2>6, <2>7, <2>8, <2>9 DEF GateClosed
  <2> QED
    BY <2>1, <2>3, <2>10 DEF Gated
<1> QED
  BY <1>1, <1>2

\* No other step starts a call in the tools phase of the turn.
LEMMA GatedNext ==
  ASSUME Gated, [Next]_vars
  PROVE  Gated'
<1>1. CASE Compose
  <2>1. phase' # "tools" /\ UNCHANGED <<task, chain>>
    BY <1>1 DEF Compose, Prompt, Settled, ToolResult, Custom, FollowUp, Compact, Send, Adds, toolVars
  <2> QED
    BY <2>1 DEF Gated, GateClosed
<1>2. CASE Http \/ Ended \/ UNCHANGED vars
  BY <1>2 DEF Http, Ended, vars, turnVars, toolVars, Gated, GateClosed, Written
<1>3. CASE NoTools \/ Over
  <2>1. phase' # "tools" /\ UNCHANGED <<task, chain>>
    BY <1>3 DEF NoTools, Over, toolVars
  <2> QED
    BY <2>1 DEF Gated, GateClosed
<1>4. CASE PlanTools
  <2>1. DOMAIN task' = Lanes /\ task'[Main].pc = "idle" /\ chain' \in Seq(Handlers)
    BY <1>4, TurnAssumption DEF PlanTools, Idle, Handlers
  <2> QED
    BY <2>1 DEF Gated, GateClosed
<1>5. CASE StartTool
  BY <1>5, StartsGated
<1>6. CASE Tools
  <2>1. UNCHANGED <<calls, chain>> /\ ToolStep
    BY <1>6 DEF Tools, turnVars
  <2>2. DOMAIN task' = Lanes /\ (task'[Main] = task[Main] \/ task'[Main].pc # "run")
    BY <2>1, ToolMoves, TurnAssumption DEF Gated
  <2>3. phase = "tools"
    BY <1>6 DEF Tools
  <2> QED
    BY <2>1, <2>2, <2>3 DEF Gated, GateClosed, Written
<1>7. CASE FinishTool \/ ReadOn
  <2>1. /\ UNCHANGED chain /\ DOMAIN task' = Lanes
        /\ task'[Main].pc # "run" \/ task'[Main].reading # NotReading
    BY <1>7, TurnAssumption DEF FinishTool, ReadOn, Becomes, Idle, Invoked, Gated, NotReading
  <2> QED
    BY <2>1 DEF Gated, GateClosed
<1> QED
  BY <1>1, <1>2, <1>3, <1>4, <1>5, <1>6, <1>7 DEF Next

\* The before_tool gate fails closed, for any chain of such handlers: a failure or a
\* refusal anywhere in it keeps the call from starting, and what starts has the
\* arguments that the chain left.
THEOREM GateFailsClosed == Spec => []GateClosed
<1>1. Init => Gated
  BY DEF Init, Gated, GateClosed
<1>2. Gated => GateClosed
  BY DEF Gated
<1> QED
  BY <1>1, <1>2, GatedNext, PTL DEF Spec

(***************************************************************************)
(* The registry.                                                           *)
(***************************************************************************)
\* schemas() is a fold of Offer.
LEMMA SchemasFolded == Schemas = Offers!Folded(Range(Builtins), runtime)
BY DEF Schemas, Offers!Folded, FoldLeft, Offers!FoldLeft, Offers!MapThenFoldSet, MapThenFoldSet,
  Offers!Max, Max

\* The built-in tools have a name each.
LEMMA BuiltinNames ==
  /\ DOMAIN Builtins = 1 .. 7 /\ Builtins \in Seq(Range(Builtins))
  /\ \A i, j \in DOMAIN Builtins : Builtins[i].name = Builtins[j].name => i = j
<1>1. /\ Builtins[1].name = "bash" /\ Builtins[2].name = "read" /\ Builtins[3].name = "write"
      /\ Builtins[4].name = "edit" /\ Builtins[5].name = "ls" /\ Builtins[6].name = "glob"
      /\ Builtins[7].name = "grep"
  BY DEF Builtins, Definition
<1>2. Len(Builtins) = 7
  BY DEF Builtins
<1>3. Builtins \in Seq(Range(Builtins)) /\ DOMAIN Builtins = 1 .. 7
  BY DEF Builtins, Range
<1> QED
  BY <1>1, <1>3

\* No two Lua tools of a directory have one name.
DeclaredOnce ==
  \A dir \in Dirs : \A i, j \in DOMAIN LoadTools(dir) :
    LoadTools(dir)[i].name = LoadTools(dir)[j].name => i = j

Registered ==
  /\ runtime \in Seq(LuaDefinition)
  /\ \A i, j \in DOMAIN runtime : runtime[i].name = runtime[j].name => i = j

\* What is offered behind the first n Lua tools.
Offered(n) ==
  {runtime[j] : j \in 1 .. n}
    \cup {b \in Range(Builtins) : \A j \in 1 .. n : runtime[j].name # b.name}

\* One more Lua tool.
LEMMA OfferedNext ==
  ASSUME Registered, NEW n \in 1 .. Len(runtime)
  PROVE  Offered(n) = Offer(Offered(n - 1), runtime[n])
<1>1. n \in Nat /\ n - 1 \in Nat /\ n \in DOMAIN runtime
  BY DEF Registered
<1>2. \A j \in 1 .. n - 1 : j \in 1 .. n /\ j \in DOMAIN runtime /\ runtime[j].name # runtime[n].name
  <2>1. ASSUME NEW j \in 1 .. n - 1
        PROVE  j \in 1 .. n /\ j \in DOMAIN runtime /\ j # n
    BY <1>1 DEF Registered
  <2> QED
    BY <1>1, <2>1 DEF Registered
<1>3. \A j \in 1 .. n : j = n \/ j \in 1 .. n - 1
  BY <1>1
<1>4. ASSUME NEW s \in Offered(n)
      PROVE  s \in Offer(Offered(n - 1), runtime[n])
  <2>1. CASE \E j \in 1 .. n : s = runtime[j]
    BY <1>2, <1>3, <2>1 DEF Offer, Offered
  <2>2. CASE s \in Range(Builtins) /\ \A j \in 1 .. n : runtime[j].name # s.name
    BY <1>1, <1>2, <2>2 DEF Offer, Offered
  <2> QED
    BY <1>4, <2>1, <2>2 DEF Offered
<1>5. ASSUME NEW s \in Offer(Offered(n - 1), runtime[n])
      PROVE  s \in Offered(n)
  <2>1. CASE s = runtime[n]
    BY <1>1, <2>1 DEF Offered
  <2>2. CASE s \in Offered(n - 1) /\ s.name # runtime[n].name
    BY <1>2, <1>3, <2>2 DEF Offered
  <2> QED
    BY <1>5, <2>1, <2>2 DEF Offer
<1> QED
  BY <1>4, <1>5

\* The schemas are the Lua tools, and the built-in tools that none of them replaces.
LEMMA SchemasOffered ==
  ASSUME Registered
  PROVE  Schemas = Offered(Len(runtime))
<1> DEFINE T == {<<n, Offered(n)>> : n \in Nat}
           base == Range(Builtins)
<1>1. <<0, base>> \in T
  <2>1. Offered(0) = base
    BY DEF Offered
  <2> QED
    BY <2>1
<1>2. ASSUME NEW i \in 1 .. Len(runtime), NEW m, <<i - 1, m>> \in T
      PROVE  <<i, Offer(m, runtime[i])>> \in T
  <2>1. m = Offered(i - 1) /\ i \in Nat
    BY <1>2
  <2>2. Offer(m, runtime[i]) = Offered(i)
    BY <2>1, OfferedNext
  <2> QED
    BY <2>1, <2>2
<1> HIDE DEF T, base
<1>3. runtime \in Seq(LuaDefinition)
  BY DEF Registered
<1>4. <<Len(runtime), Offers!Folded(base, runtime)>> \in T
  BY <1>1, <1>2, <1>3, Offers!FoldSteps
<1>5. Schemas = Offers!Folded(base, runtime)
  BY SchemasFolded DEF base
<1> QED
  BY <1>4, <1>5 DEF T

\* A name finds the one definition that has it.
LEMMA NamedOnly ==
  ASSUME NEW D, NEW definitions \in Seq(D), NEW i \in DOMAIN definitions,
         \A j \in DOMAIN definitions : definitions[j].name = definitions[i].name => j = i
  PROVE  Named(definitions, definitions[i].name) = <<definitions[i]>>
BY NamedFirst

\* What is offered under a name is what the name stands for.
LEMMA SchemaDispatched ==
  ASSUME Registered, NEW schema \in Schemas
  PROVE  Dispatched(schema.name) = <<schema>> /\ ReplayOf(schema.name) = schema.replay
<1>1. CASE \E j \in 1 .. Len(runtime) : schema = runtime[j]
  <2>1. PICK j \in DOMAIN runtime : schema = runtime[j]
    BY <1>1 DEF Registered
  <2>2. LuaTool(schema.name) = <<schema>>
    BY <2>1, NamedOnly DEF LuaTool, Registered
  <2>3. <<schema>> # <<>> /\ <<schema>>[1] = schema
    OBVIOUS
  <2> QED
    BY <2>2, <2>3 DEF Dispatched, ReplayOf
<1>2. CASE schema \in Range(Builtins) /\ \A j \in 1 .. Len(runtime) : runtime[j].name # schema.name
  <2>1. PICK i \in DOMAIN Builtins : schema = Builtins[i]
    BY <1>2 DEF Range
  <2>2. Named(Builtins, schema.name) = <<schema>>
    BY <2>1, BuiltinNames, NamedOnly
  <2>3. LuaTool(schema.name) = <<>>
    BY <1>2, NamedFirst DEF LuaTool, Registered
  <2>4. <<schema>> # <<>> /\ <<schema>>[1] = schema
    OBVIOUS
  <2> QED
    BY <2>2, <2>3, <2>4 DEF Dispatched, ReplayOf
<1> QED
  BY <1>1, <1>2, SchemasOffered DEF Offered

\* What a name stands for is offered.
LEMMA DispatchedOffered ==
  ASSUME Registered, NEW name, Dispatched(name) # <<>>
  PROVE  Dispatched(name)[1] \in Schemas /\ Dispatched(name)[1].name = name
<1>1. CASE LuaTool(name) # <<>>
  <2>1. PICK j \in DOMAIN runtime : LuaTool(name) = <<runtime[j]>> /\ runtime[j].name = name
    BY <1>1, NamedFirst DEF LuaTool, Registered
  <2>2. j \in 1 .. Len(runtime)
    BY DEF Registered
  <2> QED
    BY <1>1, <2>1, <2>2, SchemasOffered DEF Dispatched, Offered
<1>2. CASE LuaTool(name) = <<>>
  <2>1. \A j \in DOMAIN runtime : runtime[j].name # name
    <3>1. ASSUME NEW j \in DOMAIN runtime
          PROVE  <<runtime[j]>> # <<>>
      OBVIOUS
    <3> QED
      BY <1>2, <3>1, NamedFirst DEF LuaTool, Registered
  <2>2. PICK i \in DOMAIN Builtins : Named(Builtins, name) = <<Builtins[i]>> /\ Builtins[i].name = name
    BY <1>2, BuiltinNames, NamedFirst DEF Dispatched
  <2>3. Builtins[i] \in Range(Builtins) /\ DOMAIN runtime = 1 .. Len(runtime)
    BY DEF Range, Registered
  <2> QED
    BY <1>2, <2>1, <2>2, <2>3, SchemasOffered DEF Dispatched, Offered
<1> QED
  BY <1>1, <1>2
\* What a call lacks that was refused for its arguments.
Lacks(t) ==
  /\ Dispatched(t.name) # <<>>
  /\ \E i \in DOMAIN Dispatched(t.name)[1].params :
       /\ Dispatched(t.name)[1].params[i].required
       /\ Dispatched(t.name)[1].params[i].name \notin DOMAIN t.args

IsRefused(t) == t.pc = "done" /\ t.isError /\ t.content = <<"missing">>

\* What is given stays given.
LEMMA GivenPrepared ==
  ASSUME NEW params, NEW args
  PROVE  DOMAIN args \subseteq DOMAIN Prepared(params, args)
BY DEF Prepared

\* A call is refused for its arguments only if it lacks one.
LEMMA RefusedLacks ==
  ASSUME NEW l, RunRefused(l)
  PROVE  \E t : Becomes(l, t) /\ (IsRefused(t) => Lacks(t))
<1> DEFINE found == Dispatched(task[l].name)
           why == IF found = <<>> THEN "unknown" ELSE "missing"
           t == Refused(task[l], why)
<1>1. Becomes(l, t) /\ (found = <<>> \/ Missing(found[1].params, task[l].args))
  BY DEF RunRefused
<1>2. t.content = <<why>> /\ t.name = task[l].name /\ t.args = task[l].args
  BY DEF Refused, Answered
<1>3. IsRefused(t) => found # <<>>
  <2>1. IsRefused(t) => <<why>> = <<"missing">>
    BY <1>2 DEF IsRefused
  <2>2. <<why>> = <<"missing">> => why = "missing"
    OBVIOUS
  <2> QED
    BY <2>1, <2>2
<1>4. ASSUME Missing(found[1].params, task[l].args), found # <<>>
      PROVE  Lacks(t)
  <2>1. DOMAIN task[l].args \subseteq DOMAIN Prepared(found[1].params, task[l].args)
    BY GivenPrepared
  <2>2. Dispatched(t.name) = found
    BY <1>2
  <2> HIDE DEF found, t
  <2> QED
    BY <1>2, <1>4, <2>1, <2>2 DEF Missing, Lacks
<1> QED
  BY <1>1, <1>3, <1>4

\* Nor does any other step of a tool refuse one.
LEMMA OthersRefuseNone ==
  ASSUME NEW l, \/ RunLua(l) \/ RunBash(l) \/ RunShell(l) \/ RunRead(l) \/ RunWrite(l)
                \/ RunEdit(l) \/ WriteEdit(l) \/ Present(l) \/ Spill(l)
  PROVE  \E t : Becomes(l, t) /\ ~IsRefused(t)
<1>1. \A t, text, next : ~IsRefused(Presenting(t, text, next))
  BY DEF IsRefused, Presenting
<1>2. \A t : ~IsRefused(Refused(t, "failed"))
  <2>1. <<"failed">> # <<"missing">>
    OBVIOUS
  <2> QED
    BY <2>1 DEF IsRefused, Refused, Answered
<1>3. \A t, content, whole, path, next : ~IsRefused(Answered(t, content, FALSE, whole, path, next))
  BY DEF IsRefused, Answered
<1>4. Prints(l) => \E t : Becomes(l, t) /\ ~IsRefused(t)
  BY <1>1, <1>2 DEF Prints
<1>5. CASE RunRead(l) \/ RunWrite(l)
  BY <1>1, <1>2, <1>5 DEF RunRead, RunWrite
<1>6. CASE RunEdit(l)
  <2>1. \A name, args, reading, text, from :
          ~IsRefused([pc |-> "edit", name |-> name, args |-> args, reading |-> reading,
                      text |-> text, from |-> from])
    BY DEF IsRefused
  <2> QED
    BY <1>2, <1>6, <2>1 DEF RunEdit
<1>7. CASE WriteEdit(l)
  BY <1>1, <1>2, <1>7 DEF WriteEdit
<1>8. CASE Present(l)
  <2>1. \A name, args, reading, text, path :
          ~IsRefused([pc |-> "spill", name |-> name, args |-> args, reading |-> reading,
                      text |-> text, path |-> path])
    BY DEF IsRefused
  <2> QED
    BY <1>3, <1>8, <2>1 DEF Present
<1>9. CASE Spill(l)
  BY <1>3, <1>9 DEF Spill
<1> QED
  BY <1>4, <1>5, <1>6, <1>7, <1>8, <1>9 DEF RunLua, RunBash, RunShell

\* The steps that matter to the tasks.
LEMMA TaskSteps ==
  ASSUME [Next]_vars
  PROVE  \/ UNCHANGED <<runtime, files, spilled, task>>
         \/ PlanTools \/ StartTool \/ FinishTool \/ ReadOn
         \/ \E l \in Lanes : RunRefused(l) \/ RunLua(l) \/ RunBash(l) \/ RunShell(l) \/ RunRead(l)
                              \/ RunWrite(l) \/ RunEdit(l) \/ WriteEdit(l) \/ Present(l) \/ Spill(l)
<1>1. CASE Compose
  BY <1>1 DEF Compose, Prompt, Settled, ToolResult, Custom, FollowUp, Compact, Send, Adds, toolVars
<1>2. CASE Http \/ Ended \/ NoTools \/ Over \/ UNCHANGED vars
  BY <1>2 DEF Http, Ended, NoTools, Over, vars, toolVars
<1>3. CASE Tools
  BY <1>3 DEF Tools, ToolStep, Tick
<1> QED
  BY <1>1, <1>2, <1>3 DEF Next

Answering ==
  /\ Registered /\ DOMAIN task = Lanes
  /\ \A l \in Lanes : IsRefused(task[l]) => Lacks(task[l])

\* Every step refuses only what lacks something.
LEMMA AnsweringNext ==
  ASSUME DeclaredOnce, Answering, [Next]_vars
  PROVE  Answering'
<1>1. CASE UNCHANGED <<runtime, files, spilled, task>>
  BY <1>1 DEF Answering, Registered, Lacks, Dispatched, LuaTool
<1>2. CASE PlanTools
  <2>1. PICK dir \in Dirs : runtime' = LoadTools(dir)
    BY <1>2 DEF PlanTools
  <2>2. Registered'
    BY <2>1, TurnAssumption DEF DeclaredOnce, Registered
  <2>3. DOMAIN task' = Lanes /\ \A l \in Lanes : ~IsRefused(task'[l])
    BY <1>2 DEF PlanTools, IsRefused, Idle, Invoked
  <2> QED
    BY <2>2, <2>3 DEF Answering
<1>3. ASSUME UNCHANGED runtime, NEW l \in Lanes, NEW t, Becomes(l, t), IsRefused(t) => Lacks(t)
      PROVE  Answering'
  <2>1. Registered'
    BY <1>3 DEF Answering, Registered
  <2>2. \A u : Lacks(u) => Lacks(u)'
    BY <1>3 DEF Lacks, Dispatched, LuaTool
  <2>3. DOMAIN task' = Lanes
    BY <1>3 DEF Answering, Becomes
  <2>4. ASSUME NEW m \in Lanes, IsRefused(task'[m])
        PROVE  Lacks(task[m])'
    <3>1. task'[m] = IF m = l THEN t ELSE task[m]
      BY <1>3 DEF Answering, Becomes
    <3>2. IsRefused(task[m]) => Lacks(task[m])
      BY DEF Answering
    <3> QED
      BY <1>3, <2>4, <3>1, <3>2 DEF Lacks, Dispatched, LuaTool
  <2> QED
    BY <2>1, <2>3, <2>4 DEF Answering, IsRefused
<1>4. CASE StartTool \/ FinishTool \/ ReadOn
  <2>1. UNCHANGED runtime /\ (UNCHANGED task \/ \E t : Becomes(Main, t) /\ t.pc # "done")
    <3>1. Idle.pc # "done" /\ \A name, args, reading : Invoked(name, args, reading).pc # "done"
      BY DEF Idle, Invoked
    <3>2. UNCHANGED runtime
      BY <1>4 DEF StartTool, FinishTool, ReadOn
    <3>3. CASE StartTool
      BY <3>1, <3>3 DEF StartTool
    <3>4. CASE FinishTool
      BY <3>1, <3>4 DEF FinishTool
    <3>5. CASE ReadOn
      BY <3>1, <3>5 DEF ReadOn
    <3> QED
      BY <1>4, <3>2, <3>3, <3>4, <3>5
  <2>2. CASE UNCHANGED task
    BY <2>1, <2>2 DEF Answering, Registered, Lacks, Dispatched, LuaTool
  <2> QED
    BY <1>3, <2>1, <2>2, TurnAssumption DEF IsRefused
<1>5. ASSUME NEW l \in Lanes,
             RunRefused(l) \/ RunLua(l) \/ RunBash(l) \/ RunShell(l) \/ RunRead(l)
               \/ RunWrite(l) \/ RunEdit(l) \/ WriteEdit(l) \/ Present(l) \/ Spill(l)
      PROVE  Answering'
  <2>1. UNCHANGED runtime
    BY <1>5 DEF RunRefused, RunLua, RunBash, RunShell, RunRead, RunWrite, RunEdit, WriteEdit,
      Present, Spill, Prints
  <2>2. \E t : Becomes(l, t) /\ (IsRefused(t) => Lacks(t))
    BY <1>5, RefusedLacks, OthersRefuseNone
  <2> QED
    BY <1>3, <2>1, <2>2
<1> QED
  BY <1>1, <1>2, <1>4, <1>5, TaskSteps

\* What the model is offered is what runs, whatever tools a directory holds, if no
\* two of them have one name.
THEOREM OffersRun ==
  ASSUME DeclaredOnce
  PROVE  Spec => []OfferedRuns
<1>1. Init => Answering
  BY DEF Init, Answering, Registered, IsRefused, Idle
<1>2. Answering => OfferedRuns
  <2> SUFFICES ASSUME Answering
               PROVE  OfferedRuns
    OBVIOUS
  <2>1. ASSUME NEW l \in Lanes, IsRefused(task[l])
        PROVE  \E schema \in Schemas :
                 /\ schema.name = task[l].name
                 /\ \E i \in DOMAIN schema.params :
                      schema.params[i].required /\ schema.params[i].name \notin DOMAIN task[l].args
    <3> DEFINE schema == Dispatched(task[l].name)[1]
    <3>1. Lacks(task[l])
      BY <2>1 DEF Answering
    <3>2. schema \in Schemas /\ schema.name = task[l].name
      BY <3>1, DispatchedOffered DEF Answering, Lacks
    <3> QED
      BY <3>1, <3>2 DEF Lacks
  <2> QED
    BY <2>1, SchemaDispatched DEF Answering, OfferedRuns, IsRefused
<1>3. Answering /\ [Next]_vars => Answering'
  BY AnsweringNext, DeclaredOnce
<1> QED
  BY <1>1, <1>2, <1>3, PTL DEF Spec
(***************************************************************************)
(* The output of a tool.                                                   *)
(***************************************************************************)
\* Nobody writes under the name of a saved output; what a lane reads of one at a
\* time is no longer than what is shown; and no Lua tool stands in for read.
Spares(name, args) ==
  name \in {"write", "edit"} /\ "path" \in DOMAIN args => args["path"].dir # "tmp"
OutputsSpared ==
  /\ \A tool \in DOMAIN ModelArgs : Spares(tool, ModelArgs[tool])
  /\ \A other \in OtherCalls : Spares(other.tool, other.args)
PagesShown == Limits \subseteq 0 .. MaxOutput
ReadBuiltIn == \A dir \in Dirs : \A i \in DOMAIN LoadTools(dir) : LoadTools(dir)[i].name # "read"

\* The lines of texts, those of the tools included.
TextLine == STRING \cup {"wrote", "edited"}

\* A saved output is there, whole, under a name that was given out.
Kept(f, n, path, whole) ==
  /\ path.dir = "tmp" /\ path.sequence \in 0 .. n - 1
  /\ path \in DOMAIN f /\ f[path] = whole /\ whole \in Seq(TextLine)

\* What was seen of a text, and where to read on.
Shown(seen, whole, next) ==
  IF next = None THEN seen = whole
  ELSE next \in 1 .. Len(whole) /\ seen = SubSeq(whole, 1, next - 1)

\* A lane asks for the next page.
Paging(t) ==
  /\ {"path", "limit"} \subseteq DOMAIN t.args /\ t.args["path"] = t.reading.path
  /\ t.args["limit"] \in 0 .. MaxOutput
  /\ IF "offset" \in DOMAIN t.args THEN Shown(t.reading.seen, t.reading.whole, t.args["offset"])
     ELSE t.reading.seen = <<>>

IsReading(t) == t.reading.path # None

\* A call among the files f, when n names of outputs are given out.
Called(f, n, t) ==
  /\ IsArgs(t.args) /\ Spares(t.name, t.args) /\ DOMAIN t.reading = {"path", "whole", "seen"}
  /\ ~IsReading(t) => t.reading = NotReading
  /\ IsReading(t) =>
       t.name = "read" /\ Kept(f, n, t.reading.path, t.reading.whole)

Fine(f, n, t) ==
  \/ t.pc = "idle"
  \/ t.pc = "run" /\ Called(f, n, t) /\ (IsReading(t) => Paging(t))
  \/ /\ t.pc = "edit" /\ Called(f, n, t) /\ t.text \in Seq(TextLine)
     /\ t.name = "edit" /\ "path" \in DOMAIN t.args
  \/ /\ t.pc = "present" /\ Called(f, n, t) /\ t.text \in Seq(TextLine)
     /\ IsReading(t) =>
          Len(t.text) <= MaxOutput /\ Shown(t.reading.seen \o t.text, t.reading.whole, t.next)
  \/ /\ t.pc = "spill" /\ Called(f, n, t) /\ t.text \in Seq(TextLine) /\ ~IsReading(t)
     /\ t.path.dir = "tmp" /\ t.path.sequence \in 0 .. n - 1
  \/ /\ t.pc = "done" /\ Called(f, n, t)
     /\ t.path # None => Kept(f, n, t.path, t.whole)
     /\ IsReading(t) /\ ~t.isError => Shown(t.reading.seen, t.reading.whole, t.next)

\* The saved outputs that a call names.
Names(t, path) ==
  /\ path # None
  /\ \/ t.pc \in {"spill", "done"} /\ t.path = path
     \/ t.pc # "idle" /\ t.reading.path = path

\* What a lane is about to save goes under a name that no other lane has.
Apart(t, u) == t.pc = "spill" => ~Names(u, t.path)

Reachable ==
  /\ runtime \in Seq(LuaDefinition) /\ \A i \in DOMAIN runtime : runtime[i].name # "read"
  /\ spilled \in Nat /\ \A path \in DOMAIN files : files[path] \in Seq(TextLine)
  /\ DOMAIN task = Lanes /\ \A l \in Lanes : Fine(files, spilled, task[l])
  /\ \A l, m \in Lanes : l # m => Apart(task[l], task[m])
\* The lesser of two numbers.
LEMMA MinTwo ==
  ASSUME NEW a \in Nat, NEW b \in Nat
  PROVE  Min({a, b}) = IF a <= b THEN a ELSE b
<1>1. \E x \in {a, b} : \A y \in {a, b} : x <= y
  OBVIOUS
<1> QED
  BY <1>1 DEF Min

\* A number is something.
LEMMA SomeNumber == \A i \in Nat : i # None
BY NoneAssumption

\* Where a range of a text starts and ends.
Ranges(text, offset, limit, start, end) ==
  /\ start < Len(text) /\ start <= end /\ end <= Len(text)
  /\ start = IF offset = None \/ offset = 0 THEN 0 ELSE offset - 1
  /\ limit # None => end <= start + limit
  /\ ReadRange(text, offset, limit).lines = SubSeq(text, start + 1, end)
  /\ ReadRange(text, offset, limit).next =
       IF limit # None /\ end < Len(text) THEN end + 1 ELSE None
  /\ limit = None => end = Len(text)

\* read_range() gives a piece of the text: from where it starts to where it ends.
LEMMA RangeCut ==
  ASSUME NEW D, NEW text \in Seq(D), NEW offset \in Nat \cup {None}, NEW limit \in Nat \cup {None},
         ReadRange(text, offset, limit).ok
  PROVE  \E start \in Nat, end \in Nat : Ranges(text, offset, limit, start, end)
<1> DEFINE start == IF offset = None THEN 0 ELSE IF offset > 0 THEN offset - 1 ELSE 0
           end == IF limit = None THEN Len(text) ELSE Min({start + limit, Len(text)})
           range == ReadRange(text, offset, limit)
           found == [ok |-> TRUE, lines |-> SubSeq(text, start + 1, end),
                   next |-> IF limit # None /\ end < Len(text) THEN end + 1 ELSE None]
<1>1. range = IF start >= Len(text) THEN [ok |-> FALSE] ELSE found
  BY DEF ReadRange
<1>2. start \in Nat /\ start = IF offset = None \/ offset = 0 THEN 0 ELSE offset - 1
  <2>1. CASE offset = None
    BY <2>1
  <2>2. CASE offset \in Nat /\ offset # None
    BY <2>2
  <2> QED
    BY <2>1, <2>2
<1>3. Len(text) \in Nat
  OBVIOUS
<1> HIDE DEF start
<1>4. ~(start >= Len(text))
  BY <1>1
<1>5. start < Len(text)
  BY <1>2, <1>3, <1>4
<1>6. range = found
  BY <1>1, <1>4
<1>7. /\ end \in Nat /\ start <= end /\ end <= Len(text)
      /\ (limit # None => end <= start + limit) /\ (limit = None => end = Len(text))
  <2>1. CASE limit = None
    BY <1>2, <1>3, <1>5, <2>1
  <2>2. CASE limit # None
    <3>1. limit \in Nat /\ start + limit \in Nat
      BY <1>2, <2>2
    <3>2. end = IF start + limit <= Len(text) THEN start + limit ELSE Len(text)
      BY <1>3, <2>2, <3>1, MinTwo
    <3> HIDE DEF end
    <3> QED
      BY <1>2, <1>3, <1>5, <2>2, <3>1, <3>2
  <2> QED
    BY <2>1, <2>2
<1> HIDE DEF end, range
<1>8. /\ range.lines = SubSeq(text, start + 1, end)
      /\ range.next = IF limit # None /\ end < Len(text) THEN end + 1 ELSE None
  <2> DEFINE piece == SubSeq(text, start + 1, end)
             hint == IF limit # None /\ end < Len(text) THEN end + 1 ELSE None
  <2>1. range = [ok |-> TRUE, lines |-> piece, next |-> hint]
    BY <1>6
  <2> HIDE DEF piece, hint
  <2>2. range.lines = piece /\ range.next = hint
    BY <2>1
  <2> QED
    BY <2>2 DEF piece, hint
<1> HIDE DEF found
<1>9. Ranges(text, offset, limit, start, end)
  BY <1>2, <1>5, <1>7, <1>8 DEF Ranges, range
<1> QED
  BY <1>2, <1>7, <1>9

\* What is read is a text.
LEMMA RangeText ==
  ASSUME NEW D, NEW text \in Seq(D), NEW offset \in Nat \cup {None}, NEW limit \in Nat \cup {None},
         ReadRange(text, offset, limit).ok
  PROVE  ReadRange(text, offset, limit).lines \in Seq(D)
<1>1. PICK start \in Nat, end \in Nat : Ranges(text, offset, limit, start, end)
  BY RangeCut
<1>2. end <= Len(text) /\ ReadRange(text, offset, limit).lines = SubSeq(text, start + 1, end)
  BY <1>1 DEF Ranges
<1>3. SubSeq(text, start + 1, end) \in Seq(D)
  BY <1>2
<1> QED
  BY <1>2, <1>3

\* The first piece and the next one are one piece.
LEMMA PiecesJoin ==
  ASSUME NEW D, NEW text \in Seq(D), NEW i \in Nat, NEW j \in Nat, i <= j, j <= Len(text)
  PROVE  SubSeq(text, 1, i) \o SubSeq(text, i + 1, j) = SubSeq(text, 1, j)
<1> DEFINE a == SubSeq(text, 1, i)
           b == SubSeq(text, i + 1, j)
           c == SubSeq(text, 1, j)
<1>1. a \in Seq(D) /\ b \in Seq(D) /\ c \in Seq(D)
  OBVIOUS
<1>2. Len(a) = i /\ Len(b) = j - i /\ Len(c) = j
  OBVIOUS
<1>3. /\ \A k \in 1 .. i : a[k] = text[k]
      /\ \A k \in 1 .. j - i : b[k] = text[i + k]
      /\ \A k \in 1 .. j : c[k] = text[k]
  OBVIOUS
<1> HIDE DEF a, b, c
<1>4. (a \o b) \in Seq(D) /\ Len(a \o b) = j
  BY <1>1, <1>2
<1>5. \A k \in 1 .. j : (a \o b)[k] = c[k]
  <2>1. ASSUME NEW k \in 1 .. j
        PROVE  (a \o b)[k] = c[k]
    <3>1. CASE k <= i
      BY <1>1, <1>2, <1>3, <3>1
    <3>2. CASE k > i
      <4>1. k - i \in 1 .. j - i
        BY <3>2
      <4>2. (a \o b)[k] = b[k - i]
        BY <1>1, <1>2, <3>2
      <4> QED
        BY <1>3, <4>1, <4>2
    <3>3. k <= i \/ k > i
      OBVIOUS
    <3> QED
      BY <3>1, <3>2, <3>3
  <2> QED
    BY <2>1
<1>6. a \o b = c
  BY <1>1, <1>2, <1>4, <1>5
<1> QED
  BY <1>6 DEF a, b, c

\* The next page.
LEMMA PageShown ==
  ASSUME NEW whole \in Seq(TextLine), NEW seen, NEW offset \in Nat \cup {None},
         NEW limit \in 0 .. MaxOutput,
         IF offset = None THEN seen = <<>> ELSE Shown(seen, whole, offset),
         ReadRange(whole, offset, limit).ok
  PROVE  LET range == ReadRange(whole, offset, limit) IN
         Len(range.lines) <= MaxOutput /\ Shown(seen \o range.lines, whole, range.next)
<1> DEFINE range == ReadRange(whole, offset, limit)
<1>1. limit \in Nat /\ limit # None /\ MaxOutput \in Nat
  BY ToolboxAssumption, SomeNumber
<1>9. PICK start \in Nat, end \in Nat : Ranges(whole, offset, limit, start, end)
  BY <1>1, RangeCut
<1>2.
        /\ start < Len(whole) /\ start <= end /\ end <= Len(whole)
        /\ start = IF offset = None \/ offset = 0 THEN 0 ELSE offset - 1
        /\ end <= start + limit
        /\ range.lines = SubSeq(whole, start + 1, end)
        /\ range.next = IF end < Len(whole) THEN end + 1 ELSE None
  BY <1>1, <1>9 DEF Ranges
<1> HIDE DEF range
<1>3. seen = SubSeq(whole, 1, start)
  <2>1. CASE offset = None
    <3>1. SubSeq(whole, 1, 0) = <<>>
      OBVIOUS
    <3> QED
      BY <1>2, <2>1, <3>1
  <2>2. CASE offset # None
    BY <1>2, <2>2 DEF Shown
  <2> QED
    BY <2>1, <2>2
<1>4. Len(range.lines) = end - start
  BY <1>2
<1>5. seen \o range.lines = SubSeq(whole, 1, end)
  <2>1. SubSeq(whole, 1, start) \o SubSeq(whole, start + 1, end) = SubSeq(whole, 1, end)
    <3>1. start <= end /\ end <= Len(whole)
      BY <1>2
    <3> QED
      BY <3>1, PiecesJoin
  <2> QED
    BY <1>2, <1>3, <2>1
<1>6. Len(range.lines) <= MaxOutput
  BY <1>1, <1>2, <1>4
<1>7. CASE end < Len(whole)
  <2>1. range.next = end + 1 /\ end + 1 # None /\ end + 1 \in 1 .. Len(whole)
    BY <1>2, <1>7, SomeNumber
  <2>2. end + 1 - 1 = end
    OBVIOUS
  <2>3. Shown(seen \o range.lines, whole, range.next)
    BY <1>5, <2>1, <2>2 DEF Shown
  <2> QED
    BY <1>6, <2>3 DEF range
<1>8. CASE end = Len(whole)
  <2>1. range.next = None /\ SubSeq(whole, 1, Len(whole)) = whole
    BY <1>2, <1>8
  <2>2. Shown(seen \o range.lines, whole, range.next)
    BY <1>5, <1>8, <2>1 DEF Shown
  <2> QED
    BY <1>6, <2>2 DEF range
<1> QED
  BY <1>2, <1>7, <1>8

\* What an edit makes of a text is a text.
LEMMA ReplacedText ==
  ASSUME NEW D, NEW content \in Seq(D), NEW old \in Seq(D), NEW new \in Seq(D),
         ReplaceOnce(content, old, new).ok
  PROVE  ReplaceOnce(content, old, new).text \in Seq(D)
<1> DEFINE found == Occurrences(content, old)
           at == Min(found)
<1>1. /\ found # {}
      /\ ReplaceOnce(content, old, new).text =
           SubSeq(content, 1, at - 1) \o new \o SubSeq(content, at + Len(old), Len(content))
  BY DEF ReplaceOnce
<1>2. found \in SUBSET (1 .. Len(content)) /\ Len(content) \in Nat
  BY DEF Occurrences
<1>3. at \in found
  BY <1>1, <1>2, MinOf
<1>4. at \in 1 .. Len(content) /\ Len(old) \in Nat
  BY <1>2, <1>3
<1> HIDE DEF at, found
<1>5. SubSeq(content, 1, at - 1) \in Seq(D)
  BY <1>4
<1>6. SubSeq(content, at + Len(old), Len(content)) \in Seq(D)
  BY <1>4
<1> QED
  BY <1>1, <1>5, <1>6

\* A text of the model is one of its lines.
LEMMA TextLines == Text \subseteq Seq(TextLine) /\ <<"wrote">> \in Seq(TextLine) /\ <<"edited">> \in Seq(TextLine)
BY DEF Text, TextLine
\* What a built-in tool needs is given when it runs.
LEMMA NeedsGiven ==
  ASSUME NEW names, NEW args, ~Missing(Needs(names), args)
  PROVE  \A i \in DOMAIN names : names[i] \in DOMAIN args
<1> DEFINE params == Needs(names)
<1>1. /\ DOMAIN params = DOMAIN names
      /\ \A i \in DOMAIN names :
           params[i].name = names[i] /\ params[i].required /\ params[i].default = None
  BY DEF Needs, Param
<1> HIDE DEF params
<1>2. DOMAIN Defaults(params) = {}
  BY <1>1 DEF Defaults
<1>3. DOMAIN Prepared(params, args) = DOMAIN args
  BY <1>2 DEF Prepared
<1> QED
  BY <1>1, <1>3 DEF Missing, params

\* What read, write and edit need.
LEMMA RunningGiven ==
  ASSUME NEW l, NEW name \in {"read", "write", "edit"}, Running(l, name)
  PROVE  /\ "path" \in DOMAIN task[l].args
         /\ name = "write" => "content" \in DOMAIN task[l].args
         /\ name = "edit" => {"old", "new"} \subseteq DOMAIN task[l].args
<1>1. /\ Builtins[2].name = "read" /\ Builtins[3].name = "write" /\ Builtins[4].name = "edit"
      /\ Builtins[2].params = Needs(<<"path">>) /\ Builtins[3].params = Needs(<<"path", "content">>)
      /\ Builtins[4].params = Needs(<<"path", "old", "new">>)
  BY DEF Builtins, Definition
<1>2. Dispatched(name) = Named(Builtins, name) /\ ~Missing(Dispatched(name)[1].params, task[l].args)
  BY DEF Running, Dispatched
<1>3. \A i \in DOMAIN Builtins : Named(Builtins, Builtins[i].name) = <<Builtins[i]>>
  BY BuiltinNames, NamedOnly
<1>4. {2, 3, 4} \subseteq DOMAIN Builtins
  BY BuiltinNames
<1>5. CASE name = "read"
  <2>1. ~Missing(Needs(<<"path">>), task[l].args)
    BY <1>1, <1>2, <1>3, <1>4, <1>5
  <2> QED
    BY <1>5, <2>1, NeedsGiven
<1>6. CASE name = "write"
  <2>1. ~Missing(Needs(<<"path", "content">>), task[l].args)
    BY <1>1, <1>2, <1>3, <1>4, <1>6
  <2>2. \A i \in {1, 2} : <<"path", "content">>[i] \in DOMAIN task[l].args
    BY <2>1, NeedsGiven
  <2> QED
    BY <1>6, <2>2
<1>7. CASE name = "edit"
  <2>1. ~Missing(Needs(<<"path", "old", "new">>), task[l].args)
    BY <1>1, <1>2, <1>3, <1>4, <1>7
  <2>2. \A i \in {1, 2, 3} : <<"path", "old", "new">>[i] \in DOMAIN task[l].args
    BY <2>1, NeedsGiven
  <2> QED
    BY <1>7, <2>2
<1> QED
  BY <1>5, <1>6, <1>7

\* What is kept is kept when more names are given out.
LEMMA KeptLonger ==
  ASSUME NEW f, NEW n \in Nat, NEW k \in Nat, n <= k, NEW path, NEW whole, Kept(f, n, path, whole)
  PROVE  Kept(f, k, path, whole)
BY DEF Kept

\* A call is fine as long as what it names is kept.
LEMMA FineKept ==
  ASSUME NEW f, NEW g, NEW n \in Nat, NEW k \in Nat, n <= k, NEW t, Fine(f, n, t),
         \A path, whole : Names(t, path) /\ Kept(f, n, path, whole) => Kept(g, k, path, whole)
  PROVE  Fine(g, k, t)
<1>1. ASSUME t.pc # "idle", Called(f, n, t)
      PROVE  Called(g, k, t)
  BY <1>1 DEF Called, Names, IsReading
<1>2. CASE t.pc = "done"
  <2>1. t.path # None => Kept(g, k, t.path, t.whole)
    BY <1>2 DEF Fine, Names
  <2> QED
    BY <1>1, <1>2, <2>1 DEF Fine
<1>3. CASE t.pc = "spill"
  <2>1. t.path.sequence \in 0 .. n - 1 => t.path.sequence \in 0 .. k - 1
    OBVIOUS
  <2> QED
    BY <1>1, <1>3, <2>1 DEF Fine
<1>4. CASE t.pc \notin {"done", "spill"}
  BY <1>1, <1>4 DEF Fine
<1> QED
  BY <1>2, <1>3, <1>4

\* What a call names was given out.
LEMMA NamesGiven ==
  ASSUME NEW f, NEW n, NEW t, Fine(f, n, t), NEW path, Names(t, path)
  PROVE  path.sequence \in 0 .. n - 1
BY DEF Fine, Called, Names, Kept, IsReading

\* One lane gets on with its call: what it newly names is the name given out.
LEMMA OneMoves ==
  ASSUME Reachable, NEW l \in Lanes, NEW t, Becomes(l, t), UNCHANGED runtime,
         spilled' \in Nat, spilled' >= spilled,
         \A path \in DOMAIN files' : files'[path] \in Seq(TextLine),
         Fine(files', spilled', t),
         \A m \in Lanes : m # l => Fine(files', spilled', task[m]),
         \A path : Names(t, path) => Names(task[l], path) \/ path.sequence = spilled,
         t.pc = "spill" => t.path.sequence = spilled
  PROVE  Reachable'
<1>1. DOMAIN task' = Lanes /\ task'[l] = t /\ \A m \in Lanes : m # l => task'[m] = task[m]
  BY DEF Reachable, Becomes
<1>2. \A m \in Lanes : Fine(files', spilled', task'[m])
  BY <1>1
<1>3. spilled \in Nat /\ spilled \notin 0 .. spilled - 1
  BY DEF Reachable
<1>4. ASSUME NEW m \in Lanes, m # l
      PROVE  Apart(t, task[m]) /\ Apart(task[m], t)
  <2>1. Fine(files, spilled, task[m]) /\ Apart(task[l], task[m]) /\ Apart(task[m], task[l])
    BY <1>4 DEF Reachable
  <2>2. Apart(t, task[m])
    BY <1>3, <2>1, NamesGiven DEF Apart
  <2>3. task[m].pc = "spill" => task[m].path.sequence \in 0 .. spilled - 1
    BY <2>1 DEF Fine
  <2>4. Apart(task[m], t)
    BY <1>3, <2>1, <2>3 DEF Apart
  <2> QED
    BY <2>2, <2>4
<1>5. \A i, m \in Lanes : i # m => Apart(task'[i], task'[m])
  BY <1>1, <1>4 DEF Reachable
<1> QED
  BY <1>1, <1>2, <1>5 DEF Reachable

\* The same when nothing is written and no name is given out.
LEMMA OneCalls ==
  ASSUME Reachable, NEW l \in Lanes, NEW t, Becomes(l, t), UNCHANGED <<runtime, files, spilled>>,
         Fine(files, spilled, t), t.pc # "spill",
         \A path : Names(t, path) => Names(task[l], path)
  PROVE  Reachable'
<1>1. spilled \in Nat /\ spilled' = spilled /\ spilled' >= spilled /\ files' = files
  BY DEF Reachable
<1>2. Fine(files', spilled', t) /\ \A m \in Lanes : Fine(files', spilled', task[m])
  BY <1>1 DEF Reachable
<1> QED
  BY <1>1, <1>2, OneMoves DEF Reachable

\* The same when a file is written under a name that is nobody's.
LEMMA OneWrites ==
  ASSUME Reachable, NEW l \in Lanes, NEW t, Becomes(l, t), UNCHANGED <<runtime, spilled>>,
         NEW file, file.dir # "tmp", \A path \in DOMAIN files' : files'[path] \in Seq(TextLine),
         DOMAIN files \subseteq DOMAIN files',
         \A path \in DOMAIN files : path # file => files'[path] = files[path],
         Fine(files, spilled, t), t.pc # "spill",
         \A path : Names(t, path) => Names(task[l], path)
  PROVE  Reachable'
<1>1. spilled \in Nat /\ spilled' = spilled /\ spilled' >= spilled
  BY DEF Reachable
<1>2. \A path, whole : Kept(files, spilled, path, whole) => Kept(files', spilled', path, whole)
  BY <1>1 DEF Kept
<1>3. \A u : Fine(files, spilled, u) => Fine(files', spilled', u)
  BY <1>1, <1>2, FineKept
<1>4. \A m \in Lanes : Fine(files', spilled', task[m])
  BY <1>3 DEF Reachable
<1>5. Fine(files', spilled', t)
  BY <1>3
<1> QED
  BY <1>1, <1>4, <1>5, OneMoves
\* What a call names besides its own output.
Reads(t, path) == path # None /\ path = t.reading.path

\* An answer.
LEMMA AnsweredFine ==
  ASSUME NEW f, NEW n, NEW t, Called(f, n, t), NEW content, NEW isError, NEW whole, NEW path, NEW next,
         path # None => Kept(f, n, path, whole),
         IsReading(t) /\ ~isError => Shown(t.reading.seen \o content, t.reading.whole, next)
  PROVE  /\ Fine(f, n, Answered(t, content, isError, whole, path, next))
         /\ Answered(t, content, isError, whole, path, next).pc = "done"
         /\ \A q : Names(Answered(t, content, isError, whole, path, next), q) =>
              Reads(t, q) \/ (q = path /\ q # None)
<1> DEFINE reading == [t.reading EXCEPT !.seen = IF t.reading.path # None THEN @ \o content ELSE @]
           r == Answered(t, content, isError, whole, path, next)
<1>1. /\ DOMAIN reading = {"path", "whole", "seen"}
      /\ reading.path = t.reading.path /\ reading.whole = t.reading.whole
      /\ t.reading.path # None => reading.seen = t.reading.seen \o content
      /\ t.reading.path = None => reading = t.reading
  <2>1. CASE IsReading(t)
    BY <2>1 DEF Called, IsReading
  <2>2. CASE t.reading = NotReading
    <3>1. [NotReading EXCEPT !.seen = IF NotReading.path # None THEN @ \o content ELSE @] = NotReading
      BY DEF NotReading
    <3>2. DOMAIN NotReading = {"path", "whole", "seen"} /\ NotReading.path = None
      BY DEF NotReading
    <3> QED
      BY <2>2, <3>1, <3>2
  <2> QED
    BY <2>1, <2>2 DEF Called
<1>2. r = [pc |-> "done", name |-> t.name, args |-> t.args, content |-> content,
           isError |-> isError, whole |-> whole, path |-> path, next |-> next, reading |-> reading]
  BY DEF Answered
<1> HIDE DEF reading, r
<1>3. /\ r.pc = "done" /\ r.name = t.name /\ r.args = t.args /\ r.isError = isError
      /\ r.whole = whole /\ r.path = path /\ r.next = next /\ r.reading = reading
  BY <1>2
<1>4. Called(f, n, r)
  BY <1>1, <1>3 DEF Called, IsReading
<1>5. IsReading(r) /\ ~r.isError => Shown(r.reading.seen, r.reading.whole, r.next)
  BY <1>1, <1>3 DEF IsReading
<1>6. Fine(f, n, r)
  BY <1>3, <1>4, <1>5 DEF Fine
<1>7. \A q : Names(r, q) => Reads(t, q) \/ (q = path /\ q # None)
  BY <1>1, <1>3 DEF Names, Reads
<1> QED
  BY <1>3, <1>6, <1>7 DEF r

\* A refusal names nothing new.
LEMMA RefusedFine ==
  ASSUME NEW f, NEW n, NEW t, Called(f, n, t), NEW why
  PROVE  /\ Fine(f, n, Refused(t, why)) /\ Refused(t, why).pc = "done"
         /\ \A q : Names(Refused(t, why), q) => Reads(t, q)
<1>1. Refused(t, why) = Answered(t, <<why>>, TRUE, <<why>>, None, None)
  BY DEF Refused
<1>2. ASSUME NEW isError, isError = TRUE
      PROVE  LET r == Answered(t, <<why>>, isError, <<why>>, None, None) IN
             Fine(f, n, r) /\ r.pc = "done" /\ \A q : Names(r, q) => Reads(t, q)
  <2>1. ~(IsReading(t) /\ ~isError) /\ ~(None # None)
    BY <1>2
  <2> QED
    BY <2>1, AnsweredFine
<1> QED
  BY <1>1, <1>2

\* Nor does a text that is to be shown.
LEMMA PresentingFine ==
  ASSUME NEW f, NEW n, NEW t, Called(f, n, t), NEW text \in Seq(TextLine), NEW next,
         IsReading(t) => Len(text) <= MaxOutput /\ Shown(t.reading.seen \o text, t.reading.whole, next)
  PROVE  /\ Fine(f, n, Presenting(t, text, next)) /\ Presenting(t, text, next).pc = "present"
         /\ \A q : Names(Presenting(t, text, next), q) => Reads(t, q)
<1> DEFINE r == Presenting(t, text, next)
<1>1. /\ r.pc = "present" /\ r.name = t.name /\ r.args = t.args /\ r.reading = t.reading
      /\ r.text = text /\ r.next = next
  BY DEF Presenting
<1> HIDE DEF r
<1>2. Called(f, n, r)
  BY <1>1 DEF Called, IsReading
<1>3. Fine(f, n, r)
  BY <1>1, <1>2 DEF Fine, IsReading
<1>4. \A q : Names(r, q) => Reads(t, q)
  BY <1>1 DEF Names, Reads
<1> QED
  BY <1>1, <1>3, <1>4 DEF r

\* A call that is under way names what it reads.
LEMMA UnderWay ==
  ASSUME Reachable, NEW l \in Lanes, task[l].pc # "idle"
  PROVE  /\ Called(files, spilled, task[l])
         /\ \A q : Reads(task[l], q) => Names(task[l], q)
BY DEF Reachable, Fine, Reads, Names

\* A refusal.
LEMMA RefusesReachable ==
  ASSUME Reachable, NEW l \in Lanes, task[l].pc # "idle", NEW why, Becomes(l, Refused(task[l], why)),
         UNCHANGED <<runtime, files, spilled>>
  PROVE  Reachable'
<1>1. Called(files, spilled, task[l]) /\ \A q : Reads(task[l], q) => Names(task[l], q)
  BY UnderWay
<1>2. /\ Fine(files, spilled, Refused(task[l], why)) /\ Refused(task[l], why).pc = "done"
      /\ \A q : Names(Refused(task[l], why), q) => Reads(task[l], q)
  BY <1>1, RefusedFine
<1> QED
  BY <1>1, <1>2, OneCalls

\* A tool that does not read prints something.
LEMMA PrintsReachable ==
  ASSUME Reachable, NEW l \in Lanes, task[l].pc # "idle", task[l].name # "read", Prints(l)
  PROVE  Reachable'
<1>1. Called(files, spilled, task[l]) /\ \A q : Reads(task[l], q) => Names(task[l], q)
  BY UnderWay
<1>2. ASSUME NEW text \in Outputs, Becomes(l, Presenting(task[l], text, None)),
             UNCHANGED <<runtime, files, spilled>>
      PROVE  Reachable'
  <2>1. text \in Seq(TextLine)
    BY ToolboxAssumption, TextLines
  <2>2. ~IsReading(task[l])
    BY <1>1 DEF Called
  <2>3. /\ Fine(files, spilled, Presenting(task[l], text, None))
        /\ Presenting(task[l], text, None).pc = "present"
        /\ \A q : Names(Presenting(task[l], text, None), q) => Reads(task[l], q)
    BY <1>1, <2>1, <2>2, PresentingFine
  <2> QED
    BY <1>1, <1>2, <2>3, OneCalls
<1> QED
  BY <1>2, RefusesReachable DEF Prints

\* No Lua tool and no command of the machine reads pages.
LEMMA LuaReachable ==
  ASSUME Reachable, NEW l \in Lanes, RunLua(l) \/ RunBash(l) \/ RunShell(l)
  PROVE  Reachable'
<1>1. CASE RunLua(l)
  <2>1. \E i \in DOMAIN runtime : runtime[i].name = task[l].name
    BY <1>1, NamedFirst DEF RunLua, LuaTool, Reachable
  <2> QED
    BY <1>1, <2>1, PrintsReachable DEF RunLua, Reachable
<1>2. CASE RunBash(l) \/ RunShell(l)
  BY <1>2, PrintsReachable DEF RunBash, RunShell, Running
<1> QED
  BY <1>1, <1>2

\* A page of a saved output is the next one.
LEMMA ReadReachable ==
  ASSUME Reachable, NEW l \in Lanes, RunRead(l)
  PROVE  Reachable'
<1> DEFINE t == task[l]
           text == files[t.args["path"]]
           offset == Given(t.args, "offset")
           limit == Given(t.args, "limit")
           range == ReadRange(text, offset, limit)
<1>1. /\ t.pc = "run" /\ t.name = "read" /\ "path" \in DOMAIN t.args
      /\ UNCHANGED <<runtime, files, spilled>>
  BY RunningGiven DEF RunRead, Running
<1>2. Called(files, spilled, t) /\ (\A q : Reads(t, q) => Names(t, q)) /\ (IsReading(t) => Paging(t))
  BY <1>1, UnderWay DEF Reachable, Fine
<1>3. CASE ~(t.args["path"] \in DOMAIN files /\ range.ok)
  <2>1. Becomes(l, Refused(t, "failed"))
    BY <1>3 DEF RunRead
  <2> QED
    BY <1>1, <2>1, RefusesReachable
<1>4. CASE t.args["path"] \in DOMAIN files /\ range.ok
  <2>1. Becomes(l, Presenting(t, range.lines, range.next))
    BY <1>4 DEF RunRead
  <2>2. text \in Seq(TextLine)
    BY <1>4 DEF Reachable
  <2>3. offset \in Nat \cup {None} /\ limit \in Nat \cup {None}
    BY <1>2 DEF Called, IsArgs, Given
  <2>4. range.lines \in Seq(TextLine)
    BY <1>4, <2>2, <2>3, RangeText
  <2>5. ASSUME IsReading(t)
        PROVE  Len(range.lines) <= MaxOutput /\ Shown(t.reading.seen \o range.lines, t.reading.whole, range.next)
    <3>1. Paging(t) /\ Kept(files, spilled, t.reading.path, t.reading.whole)
      BY <1>2, <2>5 DEF Called
    <3>2. text = t.reading.whole /\ limit \in 0 .. MaxOutput
      BY <3>1 DEF Paging, Kept, Given
    <3>3. IF offset = None THEN t.reading.seen = <<>> ELSE Shown(t.reading.seen, t.reading.whole, offset)
      <4>1. CASE "offset" \in DOMAIN t.args
        <5>1. offset = t.args["offset"] /\ offset \in Nat
          BY <1>2, <4>1 DEF Given, Called, IsArgs
        <5> QED
          BY <3>1, <4>1, <5>1, SomeNumber DEF Paging
      <4>2. CASE "offset" \notin DOMAIN t.args
        BY <3>1, <4>2 DEF Paging, Given
      <4> QED
        BY <4>1, <4>2
    <3> HIDE DEF text, offset, limit, t
    <3> QED
      BY <1>4, <2>2, <2>3, <3>2, <3>3, PageShown
  <2> HIDE DEF range
  <2>6. /\ Fine(files, spilled, Presenting(t, range.lines, range.next))
        /\ Presenting(t, range.lines, range.next).pc = "present"
        /\ \A q : Names(Presenting(t, range.lines, range.next), q) => Reads(t, q)
    BY <1>2, <2>4, <2>5, PresentingFine
  <2> QED
    BY <1>1, <1>2, <2>1, <2>6, OneCalls
<1> QED
  BY <1>3, <1>4
Succeeds(t, content, whole, path, next) == Answered(t, content, FALSE, whole, path, next)

\* An answer that is no error.
LEMMA ShownFine ==
  ASSUME NEW f, NEW n, NEW t, Called(f, n, t), NEW content, NEW whole, NEW path, NEW next,
         path # None => Kept(f, n, path, whole),
         IsReading(t) => Shown(t.reading.seen \o content, t.reading.whole, next)
  PROVE  /\ Fine(f, n, Succeeds(t, content, whole, path, next))
         /\ Succeeds(t, content, whole, path, next).pc = "done"
         /\ \A q : Names(Succeeds(t, content, whole, path, next), q) =>
              Reads(t, q) \/ (q = path /\ q # None)
<1>1. ASSUME NEW isError, isError = FALSE
      PROVE  LET r == Answered(t, content, isError, whole, path, next) IN
             Fine(f, n, r) /\ r.pc = "done" /\ \A q : Names(r, q) => Reads(t, q) \/ (q = path /\ q # None)
  BY AnsweredFine
<1> QED
  BY <1>1 DEF Succeeds

\* write writes where nothing is saved.
LEMMA WriteReachable ==
  ASSUME Reachable, NEW l \in Lanes, RunWrite(l)
  PROVE  Reachable'
<1> DEFINE t == task[l]
           file == t.args["path"]
           r == Presenting(t, <<"wrote">>, None)
<1>1. /\ t.pc = "run" /\ t.name = "write" /\ {"path", "content"} \subseteq DOMAIN t.args
      /\ UNCHANGED <<runtime, spilled>>
  BY RunningGiven DEF RunWrite, Running
<1>2. Called(files, spilled, t) /\ \A q : Reads(t, q) => Names(t, q)
  BY <1>1, UnderWay
<1>3. CASE Becomes(l, Refused(t, "failed")) /\ UNCHANGED files
  BY <1>1, <1>3, RefusesReachable
<1>4. CASE files' = Stored(file, t.args["content"]) /\ Becomes(l, r)
  <2>1. t.args["content"] \in Seq(TextLine) /\ file.dir # "tmp"
    BY <1>1, <1>2, TextLines DEF Called, IsArgs, Spares
  <2>2. ~IsReading(t)
    BY <1>1, <1>2 DEF Called
  <2>3. Fine(files, spilled, r) /\ r.pc = "present" /\ \A q : Names(r, q) => Reads(t, q)
    BY <1>2, <2>2, TextLines, PresentingFine
  <2>4. /\ DOMAIN files \subseteq DOMAIN files'
        /\ \A path \in DOMAIN files : path # file => files'[path] = files[path]
        /\ \A path \in DOMAIN files' : files'[path] \in Seq(TextLine)
    BY <1>4, <2>1 DEF Stored, Reachable
  <2> HIDE DEF r, file
  <2> QED
    BY <1>1, <1>2, <1>4, <2>1, <2>3, <2>4, OneWrites
<1> QED
  BY <1>3, <1>4 DEF RunWrite

\* edit reads a file, and later writes it where nothing is saved.
LEMMA EditReachable ==
  ASSUME Reachable, NEW l \in Lanes, RunEdit(l)
  PROVE  Reachable'
<1> DEFINE t == task[l]
           content == files[t.args["path"]]
           replaced == ReplaceOnce(content, t.args["old"], t.args["new"])
           r == [pc |-> "edit", name |-> t.name, args |-> t.args, reading |-> t.reading,
                 text |-> replaced.text, from |-> content]
<1>1. /\ t.pc = "run" /\ t.name = "edit" /\ {"path", "old", "new"} \subseteq DOMAIN t.args
      /\ UNCHANGED <<runtime, files, spilled>>
  BY RunningGiven DEF RunEdit, Running
<1>2. Called(files, spilled, t) /\ \A q : Reads(t, q) => Names(t, q)
  BY <1>1, UnderWay
<1>3. CASE Becomes(l, Refused(t, "failed"))
  BY <1>1, <1>3, RefusesReachable
<1>4. CASE t.args["path"] \in DOMAIN files /\ replaced.ok /\ Becomes(l, r)
  <2>1. content \in Seq(TextLine) /\ t.args["old"] \in Seq(TextLine) /\ t.args["new"] \in Seq(TextLine)
    BY <1>1, <1>2, <1>4, TextLines DEF Called, IsArgs, Reachable
  <2> HIDE DEF content
  <2>2. replaced.text \in Seq(TextLine)
    BY <1>4, <2>1, ReplacedText
  <2> HIDE DEF replaced
  <2>3. /\ r.pc = "edit" /\ r.name = t.name /\ r.args = t.args /\ r.reading = t.reading
        /\ r.text = replaced.text
    OBVIOUS
  <2> HIDE DEF r
  <2>4. Called(files, spilled, r)
    BY <1>2, <2>3 DEF Called, IsReading
  <2>5. Fine(files, spilled, r)
    BY <1>1, <2>2, <2>3, <2>4 DEF Fine
  <2>6. \A q : Names(r, q) => Names(t, q)
    BY <1>1, <2>3 DEF Names
  <2> QED
    BY <1>1, <1>4, <2>3, <2>5, <2>6, OneCalls
<1> QED
  BY <1>3, <1>4 DEF RunEdit

\* What edit writes back.
LEMMA WriteEditReachable ==
  ASSUME Reachable, NEW l \in Lanes, WriteEdit(l)
  PROVE  Reachable'
<1> DEFINE t == task[l]
           file == t.args["path"]
           r == Presenting(t, <<"edited">>, None)
<1>1. t.pc = "edit" /\ UNCHANGED <<runtime, spilled>>
  BY DEF WriteEdit
<1>2. Called(files, spilled, t) /\ \A q : Reads(t, q) => Names(t, q)
  BY <1>1, UnderWay
<1>3. CASE Becomes(l, Refused(t, "failed")) /\ UNCHANGED files
  BY <1>1, <1>3, RefusesReachable
<1>4. CASE files' = [files EXCEPT ![file] = t.text] /\ Becomes(l, r)
  <2>1. t.name = "edit" /\ "path" \in DOMAIN t.args /\ t.text \in Seq(TextLine)
    BY <1>1 DEF Fine, Reachable
  <2>2. file.dir # "tmp" /\ ~IsReading(t)
    BY <1>2, <2>1 DEF Called, Spares
  <2>3. Fine(files, spilled, r) /\ r.pc = "present" /\ \A q : Names(r, q) => Reads(t, q)
    BY <1>2, <2>2, TextLines, PresentingFine
  <2>4. /\ DOMAIN files \subseteq DOMAIN files'
        /\ \A path \in DOMAIN files : path # file => files'[path] = files[path]
        /\ \A path \in DOMAIN files' : files'[path] \in Seq(TextLine)
    BY <1>4, <2>1 DEF Reachable
  <2> HIDE DEF r, file
  <2> QED
    BY <1>1, <1>2, <1>4, <2>2, <2>3, <2>4, OneWrites
<1> QED
  BY <1>3, <1>4 DEF WriteEdit

\* A long text is given a name that no lane has.
LEMMA PresentReachable ==
  ASSUME Reachable, NEW l \in Lanes, Present(l)
  PROVE  Reachable'
<1> DEFINE t == task[l]
           r == Succeeds(t, t.text, t.text, None, t.next)
           path == SpillPath(clock, spilled)
           s == [pc |-> "spill", name |-> t.name, args |-> t.args, reading |-> t.reading,
                 text |-> t.text, path |-> path]
<1>1. t.pc = "present" /\ UNCHANGED <<runtime, files>>
  BY DEF Present
<1>2. /\ Called(files, spilled, t) /\ \A q : Reads(t, q) => Names(t, q)
      /\ t.text \in Seq(TextLine)
      /\ IsReading(t) =>
           Len(t.text) <= MaxOutput /\ Shown(t.reading.seen \o t.text, t.reading.whole, t.next)
  BY <1>1, UnderWay DEF Fine, Reachable
<1>3. CASE Becomes(l, r) /\ UNCHANGED spilled
  <2>1. Fine(files, spilled, r) /\ r.pc = "done" /\ \A q : Names(r, q) => Reads(t, q)
    BY <1>2, ShownFine
  <2> HIDE DEF r
  <2> QED
    BY <1>1, <1>2, <1>3, <2>1, OneCalls
<1>4. CASE ~(Len(t.text) <= MaxOutput) /\ spilled' = spilled + 1 /\ Becomes(l, s)
  <2>1. path.dir = "tmp" /\ path.sequence = spilled
    BY DEF SpillPath
  <2> HIDE DEF path
  <2>2. /\ s.pc = "spill" /\ s.name = t.name /\ s.args = t.args /\ s.reading = t.reading
        /\ s.text = t.text /\ s.path = path
    OBVIOUS
  <2> HIDE DEF s
  <2>3. spilled \in Nat /\ spilled + 1 \in Nat /\ spilled <= spilled + 1
    BY DEF Reachable
  <2>4. \A q, whole : Kept(files, spilled, q, whole) => Kept(files, spilled + 1, q, whole)
    BY <2>3, KeptLonger
  <2>5. \A m \in Lanes : Fine(files, spilled + 1, task[m])
    BY <2>3, <2>4, FineKept DEF Reachable
  <2>6. ~IsReading(t)
    BY <1>2, <1>4
  <2>7. Called(files, spilled + 1, s)
    BY <1>2, <2>2, <2>6 DEF Called, IsReading
  <2>8. path.sequence \in 0 .. spilled + 1 - 1
    BY <2>1, <2>3
  <2>9. Fine(files, spilled + 1, s)
    BY <1>2, <2>1, <2>2, <2>6, <2>7, <2>8 DEF Fine, IsReading
  <2>10. \A q : Names(s, q) => Names(t, q) \/ q.sequence = spilled
    BY <1>1, <2>1, <2>2 DEF Names
  <2>11. files' = files /\ spilled' = spilled + 1 /\ spilled' \in Nat /\ spilled' >= spilled
    BY <1>1, <1>4, <2>3
  <2>12. Fine(files', spilled', s) /\ \A m \in Lanes : Fine(files', spilled', task[m])
    BY <2>5, <2>9, <2>11
  <2>13. \A q \in DOMAIN files' : files'[q] \in Seq(TextLine)
    BY <2>11 DEF Reachable
  <2> QED
    BY <1>1, <1>4, <2>1, <2>2, <2>10, <2>11, <2>12, <2>13, OneMoves
<1> QED
  BY <1>3, <1>4 DEF Present, Succeeds

\* What is saved is saved where nothing is that a lane needs.
LEMMA SpillReachable ==
  ASSUME Reachable, NEW l \in Lanes, Spill(l)
  PROVE  Reachable'
<1> DEFINE t == task[l]
<1>1. t.pc = "spill" /\ UNCHANGED <<runtime, spilled>>
  BY DEF Spill
<1>2. /\ Called(files, spilled, t) /\ \A q : Reads(t, q) => Names(t, q)
      /\ t.text \in Seq(TextLine) /\ ~IsReading(t)
      /\ t.path.dir = "tmp" /\ t.path.sequence \in 0 .. spilled - 1
  BY <1>1, UnderWay DEF Fine, Reachable
<1>3. CASE Becomes(l, Answered(t, Truncate(t.text), FALSE, t.text, None, None)) /\ UNCHANGED files
  <2> DEFINE r == Succeeds(t, Truncate(t.text), t.text, None, None)
  <2>1. Fine(files, spilled, r) /\ r.pc = "done" /\ \A q : Names(r, q) => Reads(t, q)
    BY <1>2, ShownFine
  <2> HIDE DEF r
  <2>2. Becomes(l, r)
    BY <1>3 DEF r, Succeeds
  <2> QED
    BY <1>1, <1>2, <1>3, <2>1, <2>2, OneCalls
<1>4. CASE files' = Stored(t.path, t.text)
            /\ Becomes(l, Answered(t, Truncate(t.text), FALSE, t.text, t.path, None))
  <2> DEFINE r == Succeeds(t, Truncate(t.text), t.text, t.path, None)
  <2>1. /\ DOMAIN files' = DOMAIN files \cup {t.path} /\ files'[t.path] = t.text
        /\ \A q \in DOMAIN files : q # t.path => files'[q] = files[q]
    BY <1>4 DEF Stored
  <2>2. \A q \in DOMAIN files' : files'[q] \in Seq(TextLine)
    BY <1>2, <2>1 DEF Reachable
  <2>3. \A q, whole : q # t.path /\ Kept(files, spilled, q, whole) => Kept(files', spilled, q, whole)
    BY <2>1 DEF Kept
  <2>4. spilled \in Nat /\ spilled' = spilled /\ spilled' >= spilled
    BY <1>1 DEF Reachable
  <2>5. ASSUME NEW m \in Lanes, m # l
        PROVE  Fine(files', spilled, task[m])
    <3>1. ~Names(task[m], t.path) /\ Fine(files, spilled, task[m])
      BY <1>1, <2>5 DEF Reachable, Apart
    <3>2. \A q, whole : Names(task[m], q) /\ Kept(files, spilled, q, whole) => Kept(files', spilled, q, whole)
      BY <2>3, <3>1
    <3> QED
      BY <2>4, <3>1, <3>2, FineKept
  <2>6. Kept(files', spilled, t.path, t.text) /\ Called(files', spilled, t)
    BY <1>2, <2>1 DEF Kept, Called
  <2>7. /\ Fine(files', spilled, r) /\ r.pc = "done"
        /\ \A q : Names(r, q) => Reads(t, q) \/ (q = t.path /\ q # None)
    BY <1>2, <2>6, ShownFine
  <2> HIDE DEF r
  <2>8. \A q : Names(r, q) => Names(t, q)
    BY <1>1, <1>2, <2>7 DEF Names
  <2>9. Becomes(l, r)
    BY <1>4 DEF r, Succeeds
  <2>10. Fine(files', spilled', r) /\ \A m \in Lanes : m # l => Fine(files', spilled', task[m])
    BY <2>4, <2>5, <2>7
  <2> QED
    BY <1>1, <2>2, <2>4, <2>7, <2>8, <2>9, <2>10, OneMoves
<1> QED
  BY <1>3, <1>4 DEF Spill
\* Stripped arguments are of the same types, and name the same file.
LEMMA StrippedArgs ==
  ASSUME NEW args, IsArgs(args), NEW name, Spares(name, args)
  PROVE  IsArgs(Stripped(args)) /\ Spares(name, Stripped(args))
<1>1. /\ DOMAIN Stripped(args) = DOMAIN args
      /\ \A p \in {"content", "old", "new", "offset", "limit", "path"} \cap DOMAIN args :
           Stripped(args)[p] = args[p]
  BY DEF Stripped
<1>2. ~Raw(Stripped(args))
  BY StrippedNotRaw
<1> HIDE DEF Stripped
<1> QED
  BY <1>1, <1>2 DEF IsArgs, Spares

\* A call that starts is fine: it reads nothing that was saved, or its first page.
LEMMA InvokedFine ==
  ASSUME NEW f, NEW n, NEW name, NEW args, IsArgs(args), Spares(name, args)
  PROVE  /\ Fine(f, n, Invoked(name, args, NotReading)) /\ Invoked(name, args, NotReading).pc = "run"
         /\ \A q : ~Names(Invoked(name, args, NotReading), q)
<1> DEFINE r == Invoked(name, args, NotReading)
<1>1. r.pc = "run" /\ r.name = name /\ r.args = args /\ r.reading = NotReading
  BY DEF Invoked
<1>2. DOMAIN NotReading = {"path", "whole", "seen"} /\ NotReading.path = None
  BY DEF NotReading
<1> HIDE DEF r
<1>3. Called(f, n, r) /\ ~IsReading(r)
  BY <1>1, <1>2 DEF Called, IsReading
<1>4. Fine(f, n, r)
  BY <1>1, <1>3 DEF Fine
<1>5. \A q : ~Names(r, q)
  BY <1>1, <1>2 DEF Names
<1> QED
  BY <1>1, <1>4, <1>5 DEF r

\* A lane without a call is fine, and names nothing.
LEMMA IdleFine == \A f, n : Fine(f, n, Idle) /\ Idle.pc = "idle" /\ \A q : ~Names(Idle, q)
<1>1. Idle.pc = "idle"
  BY DEF Idle
<1> QED
  BY <1>1 DEF Fine, Names

\* The call is through.
LEMMA IdlesReachable ==
  ASSUME Reachable, Becomes(Main, Idle), UNCHANGED <<runtime, files, spilled>>
  PROVE  Reachable'
BY IdleFine, OneCalls, TurnAssumption

\* The other lanes are in calls of their own.
LEMMA PlanReachable ==
  ASSUME OutputsSpared, ReadBuiltIn, Reachable, PlanTools
  PROVE  Reachable'
<1>1. PICK dir \in Dirs : runtime' = LoadTools(dir)
  BY DEF PlanTools
<1>2. runtime' \in Seq(LuaDefinition) /\ \A i \in DOMAIN runtime' : runtime'[i].name # "read"
  BY <1>1, TurnAssumption DEF ReadBuiltIn
<1>3. PICK other \in OtherCalls :
        task' = [l \in Lanes |-> IF l = Main THEN Idle ELSE Invoked(other.tool, other.args, NotReading)]
  BY DEF PlanTools
<1>4. IsArgs(other.args) /\ Spares(other.tool, other.args)
  BY TurnAssumption DEF OutputsSpared
<1>5. UNCHANGED <<files, spilled>>
  BY DEF PlanTools
<1>6. DOMAIN task' = Lanes
  BY <1>3
<1>7. ASSUME NEW l \in Lanes
      PROVE  Fine(files', spilled', task'[l]) /\ task'[l].pc # "spill"
  <2>1. task'[l] = Idle \/ task'[l] = Invoked(other.tool, other.args, NotReading)
    BY <1>3
  <2>2. /\ Fine(files', spilled', Invoked(other.tool, other.args, NotReading))
        /\ Invoked(other.tool, other.args, NotReading).pc = "run"
    BY <1>4, InvokedFine
  <2> QED
    BY <2>1, <2>2, IdleFine
<1> QED
  BY <1>2, <1>5, <1>6, <1>7 DEF Reachable, Apart

\* A call starts with what its handlers left of its arguments.
LEMMA StartReachable ==
  ASSUME OutputsSpared, Gated, Reachable, StartTool
  PROVE  Reachable'
<1> DEFINE call == Head(calls)
           written == Written(call)
           before == BeforeTool(chain, written, Says)
           args == IF before.changed THEN before.args ELSE written
<1>1. UNCHANGED <<runtime, files, spilled>>
  BY DEF StartTool
<1>2. CASE UNCHANGED task
  BY <1>1, <1>2 DEF Reachable
<1>3. CASE Becomes(Main, Invoked(call.tool, args, NotReading))
  <2>1. IsArgs(written) /\ (Raw(written) => Stripped(written) # None)
    BY WrittenArgs
  <2>2. Spares(call.tool, written)
    BY DEF Written, OutputsSpared, Spares, NoArgs
  <2>3. before \in GateStates(written)
    <3> HIDE DEF written
    <3> QED
      BY <2>1, GateOpens DEF Gated
  <2>4. args \in {written, Stripped(written)}
    BY <2>3 DEF GateStates
  <2> HIDE DEF args, written, before, call
  <2>5. IsArgs(args) /\ Spares(call.tool, args)
    BY <2>1, <2>2, <2>4, StrippedArgs
  <2>6. /\ Fine(files, spilled, Invoked(call.tool, args, NotReading))
        /\ Invoked(call.tool, args, NotReading).pc = "run"
        /\ \A q : ~Names(Invoked(call.tool, args, NotReading), q)
    BY <2>5, InvokedFine
  <2> QED
    BY <1>1, <1>3, <2>6, OneCalls, TurnAssumption
<1> QED
  BY <1>2, <1>3 DEF StartTool

\* The next page is asked for.
LEMMA PagesReachable ==
  ASSUME Reachable, task[Main].pc = "done", UNCHANGED <<runtime, files, spilled>>,
         NEW args, NEW reading, DOMAIN reading = {"path", "whole", "seen"}, IsArgs(args),
         reading.path # None, Kept(files, spilled, reading.path, reading.whole),
         Names(task[Main], reading.path), Paging(Invoked("read", args, reading)),
         Becomes(Main, Invoked("read", args, reading))
  PROVE  Reachable'
<1> DEFINE r == Invoked("read", args, reading)
<1>1. r.pc = "run" /\ r.name = "read" /\ r.args = args /\ r.reading = reading
  BY DEF Invoked
<1> HIDE DEF r
<1>2. Called(files, spilled, r)
  BY <1>1 DEF Called, IsReading, Spares
<1>3. Fine(files, spilled, r)
  BY <1>1, <1>2 DEF Fine, IsReading, r
<1>4. \A q : Names(r, q) => Names(task[Main], q)
  BY <1>1 DEF Names
<1>5. Becomes(Main, r)
  BY DEF r
<1> QED
  BY <1>1, <1>3, <1>4, <1>5, OneCalls, TurnAssumption

\* A cut result is read on from its file.
LEMMA FinishReachable ==
  ASSUME PagesShown, Reachable, FinishTool
  PROVE  Reachable'
<1> DEFINE t == task[Main]
<1>1. t.pc = "done" /\ UNCHANGED <<runtime, files, spilled>>
  BY DEF FinishTool
<1>2. CASE Becomes(Main, Idle)
  BY <1>1, <1>2, IdlesReachable
<1>3. ASSUME t.path # None, NEW limit \in Limits,
             Becomes(Main, Invoked("read", [path |-> t.path, limit |-> limit],
                                   [path |-> t.path, whole |-> t.whole, seen |-> <<>>]))
      PROVE  Reachable'
  <2> DEFINE args == [path |-> t.path, limit |-> limit]
             reading == [path |-> t.path, whole |-> t.whole, seen |-> <<>>]
  <2>1. Kept(files, spilled, t.path, t.whole)
    BY <1>1, <1>3, TurnAssumption DEF Reachable, Fine
  <2>2. /\ DOMAIN reading = {"path", "whole", "seen"}
        /\ reading.path = t.path /\ reading.whole = t.whole /\ reading.seen = <<>>
    OBVIOUS
  <2>3. DOMAIN args = {"path", "limit"} /\ args["path"] = t.path /\ args["limit"] = limit
    OBVIOUS
  <2>4. limit \in 0 .. MaxOutput /\ limit \in Nat
    BY TurnAssumption DEF PagesShown
  <2>5. Becomes(Main, Invoked("read", args, reading))
    BY <1>3
  <2> HIDE DEF args, reading
  <2>6. IsArgs(args)
    BY <2>3, <2>4 DEF IsArgs, Raw
  <2>7. Names(t, reading.path)
    BY <1>1, <1>3, <2>2 DEF Names
  <2>8. Paging(Invoked("read", args, reading))
    BY <2>2, <2>3, <2>4 DEF Paging, Invoked
  <2> QED
    BY <1>1, <1>3, <2>1, <2>2, <2>5, <2>6, <2>7, <2>8, PagesReachable
<1> QED
  BY <1>2, <1>3 DEF FinishTool

\* And page after page.
LEMMA ReadOnReachable ==
  ASSUME PagesShown, Reachable, ReadOn
  PROVE  Reachable'
<1> DEFINE t == task[Main]
<1>1. t.pc = "done" /\ UNCHANGED <<runtime, files, spilled>>
  BY DEF ReadOn
<1>2. CASE Becomes(Main, Idle)
  BY <1>1, <1>2, IdlesReachable
<1>3. ASSUME t.reading # NotReading, ~t.isError, t.next # None, NEW limit \in Limits,
             Becomes(Main, Invoked("read", [path |-> t.reading.path, offset |-> t.next, limit |-> limit],
                                   t.reading))
      PROVE  Reachable'
  <2> DEFINE args == [path |-> t.reading.path, offset |-> t.next, limit |-> limit]
             reading == t.reading
  <2>1. Fine(files, spilled, t)
    BY TurnAssumption DEF Reachable
  <2>2. /\ Called(files, spilled, t) /\ IsReading(t)
        /\ Shown(reading.seen, reading.whole, t.next)
    BY <1>1, <1>3, <2>1 DEF Fine, Called
  <2>3. /\ DOMAIN args = {"path", "offset", "limit"} /\ args["path"] = reading.path
        /\ args["limit"] = limit /\ args["offset"] = t.next
    OBVIOUS
  <2>4. limit \in 0 .. MaxOutput /\ limit \in Nat
    BY TurnAssumption DEF PagesShown
  <2>5. Becomes(Main, Invoked("read", args, reading))
    BY <1>3
  <2>6. /\ DOMAIN reading = {"path", "whole", "seen"} /\ reading.path # None
        /\ Kept(files, spilled, reading.path, reading.whole)
    BY <2>2 DEF Called, IsReading
  <2>7. Names(t, reading.path)
    BY <1>1, <2>6 DEF Names
  <2>8. t.next \in Nat
    BY <1>3, <2>2 DEF Shown
  <2> HIDE DEF args, reading
  <2>9. IsArgs(args)
    BY <2>3, <2>4, <2>8 DEF IsArgs, Raw
  <2>10. Paging(Invoked("read", args, reading))
    BY <2>2, <2>3, <2>4 DEF Paging, Invoked
  <2> QED
    BY <1>1, <2>5, <2>6, <2>7, <2>9, <2>10, PagesReachable
<1> QED
  BY <1>2, <1>3 DEF ReadOn

\* Every step keeps the outputs reachable.
LEMMA ReachableNext ==
  ASSUME OutputsSpared, PagesShown, ReadBuiltIn, Gated, Reachable, [Next]_vars
  PROVE  Reachable'
<1>1. CASE UNCHANGED <<runtime, files, spilled, task>>
  BY <1>1 DEF Reachable
<1>2. CASE PlanTools \/ StartTool \/ FinishTool \/ ReadOn
  BY <1>2, PlanReachable, StartReachable, FinishReachable, ReadOnReachable
<1>3. ASSUME NEW l \in Lanes, RunRefused(l)
      PROVE  Reachable'
  BY <1>3, RefusesReachable DEF RunRefused
<1>4. ASSUME NEW l \in Lanes,
             RunLua(l) \/ RunBash(l) \/ RunShell(l) \/ RunRead(l) \/ RunWrite(l) \/ RunEdit(l)
               \/ WriteEdit(l) \/ Present(l) \/ Spill(l)
      PROVE  Reachable'
  BY <1>4, LuaReachable, ReadReachable, WriteReachable, EditReachable, WriteEditReachable,
    PresentReachable, SpillReachable
<1> QED
  BY <1>1, <1>2, <1>3, <1>4, TaskSteps

\* What a result does not show can be read, for any texts, tools, number of lanes and
\* order of their calls: the file that a cut result names holds the whole text, and the
\* offsets lead through it once.
THEOREM OutputsReachable ==
  ASSUME OutputsSpared, PagesShown, ReadBuiltIn
  PROVE  Spec => []OutputReachable
<1>1. Init => Gated /\ Reachable
  <2> SUFFICES ASSUME Init
               PROVE  Gated /\ Reachable
    OBVIOUS
  <2>1. Gated
    BY DEF Init, Gated, GateClosed
  <2>2. \A path \in DOMAIN files : files[path] \in Seq(TextLine)
    BY TurnAssumption, TextLines DEF Init
  <2>3. \A l \in Lanes : task[l] = Idle
    BY DEF Init
  <2>4. (\A l \in Lanes : Fine(files, spilled, task[l])) /\ \A l, m \in Lanes : Apart(task[l], task[m])
    BY <2>3, IdleFine DEF Apart
  <2> QED
    BY <2>1, <2>2, <2>4 DEF Init, Reachable
<1>2. Reachable => OutputReachable
  <2> SUFFICES ASSUME Reachable, NEW l \in Lanes, task[l].pc = "done", ~task[l].isError
               PROVE  /\ task[l].path # None => files[task[l].path] = task[l].whole
                      /\ task[l].reading.path # None =>
                           IF task[l].next = None THEN task[l].reading.seen = task[l].reading.whole
                           ELSE task[l].reading.seen = SubSeq(task[l].reading.whole, 1, task[l].next - 1)
    BY DEF OutputReachable
  <2>1. Fine(files, spilled, task[l])
    BY DEF Reachable
  <2> QED
    BY <2>1 DEF Fine, Kept, Shown, IsReading
<1>3. Gated /\ Reachable /\ [Next]_vars => Gated' /\ Reachable'
  BY GatedNext, ReachableNext
<1> QED
  BY <1>1, <1>2, <1>3, PTL DEF Spec
(***************************************************************************)
(* The posts.                                                              *)
(***************************************************************************)
Replies == {"ok", "transient", "refused", "lost"}
MetOnly(met, n) == \A i \in 1 .. n : met[i] \in {"transient", "lost"}

Posting ==
  /\ replies \in Seq(Replies) /\ stage \in {"idle", "post", "stream", "returned"}
  /\ phase = "compose" => stage = "idle"
  /\ stage = "idle" => replies = <<>>
  /\ stage # "returned" => outcome = Pending
  /\ stage = "post" => Len(replies) < MaxPosts /\ MetOnly(replies, Len(replies))
  /\ stage = "stream" => /\ Len(replies) \in 1 .. MaxPosts /\ MetOnly(replies, Len(replies) - 1)
                         /\ replies[Len(replies)] = "ok"
  /\ PostsJustified

\* One more reply.
LEMMA PostPosts ==
  ASSUME Posting, Post, UNCHANGED phase
  PROVE  Posting'
<1> DEFINE n == Len(replies)
<1>1. stage = "post" /\ n \in Nat /\ n < MaxPosts /\ MetOnly(replies, n) /\ replies \in Seq(Replies)
  BY DEF Posting, Post
<1>2. PICK reply \in Replies :
        /\ replies' = Append(replies, reply)
        /\ CASE reply = "ok" ->
                  stage' = "stream" /\ UNCHANGED outcome
             [] reply # "ok" /\ IsRetryable(reply) /\ n + 1 < MaxPosts ->
                  UNCHANGED <<stage, outcome>>
             [] reply # "ok" /\ ~(IsRetryable(reply) /\ n + 1 < MaxPosts) ->
                  Returns([kind |-> IF IsRetryable(reply) THEN "retryable" ELSE "terminal"])
  BY DEF Post, Replies
<1>3. /\ replies' \in Seq(Replies) /\ Len(replies)' = n + 1 /\ replies'[n + 1] = reply
      /\ \A i \in 1 .. n : replies'[i] = replies[i]
  BY <1>1, <1>2
<1>4. MetOnly(replies', n)
  BY <1>1, <1>3 DEF MetOnly
<1>5. phase # "compose" /\ n + 1 <= MaxPosts /\ MaxPosts = 3 /\ outcome = Pending
  BY <1>1 DEF Posting, MaxPosts
<1>6. Pending.kind = "pending"
  BY DEF Pending
<1>7. Posting'
  <2>1. CASE reply = "ok"
    <3>1. stage' = "stream" /\ outcome' = Pending
      BY <1>2, <1>5, <2>1
    <3>2. PostsJustified'
      BY <1>1, <1>3, <1>4, <1>5, <1>6, <3>1 DEF PostsJustified, MetOnly
    <3> QED
      BY <1>1, <1>3, <1>4, <1>5, <2>1, <3>1, <3>2 DEF Posting, MetOnly
  <2>2. CASE reply # "ok" /\ IsRetryable(reply) /\ n + 1 < MaxPosts
    <3>1. stage' = "post" /\ outcome' = Pending /\ reply \in {"transient", "lost"}
      BY <1>1, <1>2, <1>5, <2>2 DEF IsRetryable
    <3>2. MetOnly(replies', n + 1)
      BY <1>1, <1>3, <1>4, <3>1 DEF MetOnly
    <3>3. PostsJustified'
      BY <1>1, <1>3, <1>4, <1>5, <1>6, <3>1 DEF PostsJustified, MetOnly
    <3> QED
      BY <1>1, <1>3, <1>5, <2>2, <3>1, <3>2, <3>3 DEF Posting, MetOnly
  <2>3. CASE reply # "ok" /\ ~(IsRetryable(reply) /\ n + 1 < MaxPosts)
    <3>1. stage' = "returned" /\ outcome' = [kind |-> IF IsRetryable(reply) THEN "retryable" ELSE "terminal"]
      BY <1>2, <2>3 DEF Returns
    <3>2. outcome'.kind = "retryable" => reply \in {"transient", "lost"} /\ n + 1 = MaxPosts
      <4>1. outcome'.kind = IF IsRetryable(reply) THEN "retryable" ELSE "terminal"
        BY <3>1
      <4> QED
        BY <1>1, <1>5, <2>3, <4>1 DEF IsRetryable
    <3>3. PostsJustified'
      <4>1. outcome'.kind = "retryable" => \A i \in DOMAIN replies' : replies'[i] # "refused"
        <5>1. DOMAIN replies' = 1 .. n + 1
          BY <1>3
        <5> QED
          BY <1>1, <1>3, <1>4, <3>2, <5>1 DEF MetOnly
      <4> QED
        BY <1>1, <1>3, <1>4, <1>5, <3>2, <4>1 DEF PostsJustified, MetOnly
    <3> QED
      BY <1>3, <1>5, <3>1, <3>3 DEF Posting
  <2> QED
    BY <2>1, <2>2, <2>3
<1> QED
  BY <1>7
\* The stream ends, in order or not.
LEMMA StreamPosts ==
  ASSUME Posting, Eof \/ Break, UNCHANGED phase
  PROVE  Posting'
<1>1. /\ stage = "stream" /\ stage' = "returned" /\ UNCHANGED replies
      /\ replies \in Seq(Replies) /\ Len(replies) \in 1 .. MaxPosts
      /\ MetOnly(replies, Len(replies) - 1) /\ replies[Len(replies)] = "ok"
  BY DEF Posting, Eof, Break, Returns
<1>2. \A i \in DOMAIN replies : replies[i] # "refused"
  <2>1. DOMAIN replies = 1 .. Len(replies)
    BY <1>1
  <2>2. \A i \in 1 .. Len(replies) : i = Len(replies) \/ i \in 1 .. Len(replies) - 1
    BY <1>1
  <2> QED
    BY <1>1, <2>1, <2>2 DEF MetOnly
<1>3. Last(replies) = "ok"
  BY <1>1 DEF Last
<1>4. PostsJustified'
  BY <1>1, <1>2, <1>3 DEF PostsJustified, MetOnly, MaxPosts
<1>5. phase' = phase /\ phase # "compose"
  BY <1>1 DEF Posting
<1> QED
  BY <1>1, <1>4, <1>5 DEF Posting

\* Nothing else posts, and a turn forgets what it has used.
LEMMA PostingNext ==
  ASSUME Posting, [Next]_vars
  PROVE  Posting'
<1>1. CASE UNCHANGED <<phase, stage, replies, outcome>>
  BY <1>1 DEF Posting, PostsJustified
<1>2. CASE Prompt \/ Settled \/ ToolResult \/ Custom \/ FollowUp \/ Compact
  <2>1. UNCHANGED <<phase, stage, replies, outcome>>
    BY <1>2 DEF Prompt, Settled, ToolResult, Custom, FollowUp, Compact, Adds, httpVars
  <2> QED
    BY <1>1, <2>1
<1>3. CASE Send
  <2>1. /\ phase = "compose" /\ phase' = "respond" /\ stage' = "post"
        /\ UNCHANGED <<replies, outcome>>
    BY <1>3 DEF Send
  <2>2. replies = <<>> /\ outcome = Pending
    BY <2>1 DEF Posting
  <2> QED
    BY <2>1, <2>2 DEF Posting, PostsJustified, MetOnly, MaxPosts
<1>4. CASE Http
  <2>1. HttpStep /\ UNCHANGED phase
    BY <1>4 DEF Http, turnVars
  <2>2. CASE Post
    BY <2>1, <2>2, PostPosts
  <2>3. CASE Eof \/ Break
    BY <2>1, <2>3, StreamPosts
  <2>4. CASE SayText \/ End \/ FailMidway \/ Noise
    <3>1. UNCHANGED <<stage, replies, outcome>>
      BY <2>4 DEF SayText, End, FailMidway, Noise, Speaks
    <3> QED
      BY <1>1, <2>1, <3>1
  <2>5. CASE \E c \in Calls : OpenCall(c) \/ SayPiece(c) \/ CloseCall(c)
    <3>1. UNCHANGED <<stage, replies, outcome>>
      BY <2>5 DEF OpenCall, SayPiece, CloseCall, Speaks
    <3> QED
      BY <1>1, <2>1, <3>1
  <2>6. CASE \E n \in 1 .. Len(wire) : Receive(n)
    <3>1. UNCHANGED <<stage, replies, outcome>>
      BY <2>6 DEF Receive
    <3> QED
      BY <1>1, <2>1, <3>1
  <2> QED
    BY <2>1, <2>2, <2>3, <2>4, <2>5, <2>6 DEF HttpStep
<1>5. CASE NoTools \/ PlanTools
  <2>1. stage' = "idle" /\ replies' = <<>> /\ outcome' = Pending /\ phase' # "compose"
    BY <1>5 DEF NoTools, PlanTools, Forgets
  <2>2. Pending.kind = "pending"
    BY DEF Pending
  <2> QED
    BY <2>1, <2>2 DEF Posting, PostsJustified, MaxPosts
<1>6. CASE StartTool \/ Tools \/ FinishTool \/ ReadOn
  <2>1. UNCHANGED <<phase, stage, replies, outcome>>
    BY <1>6 DEF StartTool, Tools, FinishTool, ReadOn, turnVars, httpVars
  <2> QED
    BY <1>1, <2>1
<1>7. CASE Over
  <2>1. UNCHANGED <<stage, replies, outcome>> /\ phase' = "over"
    BY <1>7 DEF Over, httpVars
  <2> QED
    BY <2>1 DEF Posting, PostsJustified
<1>8. CASE Ended \/ UNCHANGED vars
  <2>1. UNCHANGED <<phase, stage, replies, outcome>>
    BY <1>8 DEF Ended, vars, turnVars, httpVars
  <2> QED
    BY <1>1, <2>1
<1> QED
  BY <1>2, <1>3, <1>4, <1>5, <1>6, <1>7, <1>8 DEF Next, Compose

\* However the endpoint answers, a request is posted again only after failures that
\* pass, at most twice, and nothing is called worth another try that was refused.
THEOREM PostsAreJustified == Spec => []PostsJustified
<1>1. Init => Posting
  <2>1. Pending.kind = "pending"
    BY DEF Pending
  <2> QED
    BY <2>1 DEF Init, Posting, PostsJustified, MaxPosts
<1>2. Posting => PostsJustified
  BY DEF Posting
<1> QED
  BY <1>1, <1>2, PostingNext, PTL DEF Spec
=============================================================================
