-------------------------------- MODULE Turn --------------------------------
(***************************************************************************)
(* One turn of a lane, end to end: the conversation and its compaction, the*)
(* request made from it, the response (Respond), and the calls of that     *)
(* response through the before_tool gate into the toolbox (Toolbox), which *)
(* another lane uses at the same time.                                     *)
(*                                                                         *)
(* How the lane makes each step durable is the business of LaneDriver; here*)
(* are the data that its steps pass on.  Settings that never change are    *)
(* drawn where they are first read: the provider with the request, the Lua *)
(* tools and the hook chain with the first call.                           *)
(***************************************************************************)
EXTENDS Respond, Toolbox, Compaction

CONSTANTS
  MaxBranch,     \* entries of the conversation
  ResultSizes,   \* how long the texts of tool results are
  Settings,      \* compaction settings
  FreshIds,      \* does every call of the conversation have an id of its own?
  Dirs,          \* what tools/ may hold
  Chains,        \* before_tool handlers
  ModelArgs,     \* tool -> the arguments the model writes for it
  OtherCalls,    \* what the other lane runs meanwhile
  Content,       \* the file in the workspace
  Limits         \* how many lines the model reads at a time

VARIABLES
  phase,         \* "compose", "respond", "tools", "over"
  branch,        \* the entries of the lane's branch, oldest first
  calls,         \* the calls of the turn that are not answered
  stop,          \* its stop reason
  cut,           \* did the output limit cut the response?
  chain          \* Hooks.before_tool

turnVars == <<phase, branch, calls, stop, cut, chain>>
vars == <<turnVars, httpVars, toolVars>>

NoCalls == <<>>
NoProvider == "none"
Main == CHOOSE l \in Lanes : \A m \in Lanes : l <= m

Init ==
  /\ phase = "compose" /\ branch = <<>> /\ calls = NoCalls /\ stop = "stop" /\ cut = FALSE
  /\ chain = <<>>
  /\ api = NoProvider /\ style = NoProvider /\ stage = "idle" /\ request = <<>> /\ replies = <<>>
  /\ said = Nothing /\ wire = <<>> /\ decoder = NewDecoder /\ stream = NewStream
  /\ outcome = Pending
  /\ runtime = <<>> /\ files = [path \in {Workspace} |-> Content] /\ spilled = 0 /\ clock = 0
  /\ task = [l \in Lanes |-> Idle]

(***************************************************************************)
(* The conversation.                                                       *)
(***************************************************************************)
Adds(entries) ==
  /\ phase = "compose" /\ Len(branch) + Len(entries) <= MaxBranch
  /\ branch' = branch \o entries
  /\ UNCHANGED <<phase, calls, stop, cut, chain, httpVars, toolVars>>

UserSize == 8
TurnSize == 5
User == Entry("user", UserSize)

\* The answers handlers of before_run and before_run_end may give.
RunAnswers == {<<>>, <<Failed, [kind |-> "result", messages |-> <<User>>, systemPrompt |-> None]>>}
EndAnswers == {<<[kind |-> "result", followUp |-> "more"], Silent>>}

\* A prompt, with what before_run adds to it.
Prompt == \E answers \in RunAnswers : Adds(<<User>> \o BeforeRun(answers).messages)

Made == UNION {Range(branch[i].calls) : i \in DOMAIN branch}
LastTurn == SelectLastInSeq(branch, LAMBDA e : e.calls # <<>>)
Unanswered ==
  IF LastTurn = 0 THEN <<>>
  ELSE SelectSeq(branch[LastTurn].calls,
                 LAMBDA id : \A i \in LastTurn .. Len(branch) : branch[i].answers # id)

\* Ids are the provider's, or made up from the position in the response.
Ids(n) ==
  IF FreshIds THEN [i \in 1 .. n |-> Cardinality(Made) + i] ELSE [i \in 1 .. n |-> MadeUpId(i - 1)]

Asked == branch # <<>> /\ Last(branch).role \in {"user", "toolResult", "none"}

\* A response that was settled: text, nothing at all, an error, or calls.
Settled ==
  /\ Asked /\ Unanswered = <<>>
  /\ \/ \E text \in BOOLEAN : Adds(<<[Entry("assistant", TurnSize) EXCEPT !.text = text]>>)
     \/ Adds(<<[Entry("assistant", TurnSize) EXCEPT !.stop = "error"]>>)
     \/ \E n \in 1 .. 2 : Adds(<<[Entry("assistant", TurnSize) EXCEPT !.calls = Ids(n)]>>)

ToolResult ==
  /\ Unanswered # <<>> /\ \A i \in LastTurn + 1 .. Len(branch) : branch[i].role # "user"
  /\ \E size \in ResultSizes :
       Adds(<<[Entry("toolResult", size) EXCEPT !.answers = Head(Unanswered)]>>)

\* A custom entry, which never enters the context.
Custom == Adds(<<[Entry("none", TurnSize) EXCEPT !.type = "custom"]>>)

\* The run ends and before_run_end follows up.
FollowUp ==
  /\ branch # <<>> /\ Last(branch).role = "assistant" /\ Last(branch).calls = <<>>
  /\ \E answers \in EndAnswers : BeforeRunEnd(answers) # None /\ Adds(<<User>>)

CompactionAnswers ==
  LET answer(decline, summary) == [kind |-> "result", decline |-> decline, summary |-> summary] IN
  {<<Failed>>, <<answer(TRUE, "both"), answer(FALSE, "mine")>>, <<answer(TRUE, None)>>}

\* check of the threshold, before_compaction, and the entry that is published
\* when a handler or the model has written the summary.
Compact ==
  LET context == ProjectContext(branch) IN
  /\ \E settings \in Settings, answers \in CompactionAnswers :
       LET preparation == Prepare(context, settings.keep) IN
       /\ OverThreshold(EstimateTokens(context), settings.window, settings)
       /\ preparation.some /\ ~BeforeCompaction(answers).decline
       /\ Adds(<<CompactionEntry(preparation.tail)>>)

TransformAnswers == {<<>>, <<[kind |-> "result", messages |-> <<User>>], Failed>>}

\* request_assistant(): the context, shaped by transform_context, becomes a body.
\* The conversation has no further part in this turn and is let go.
Send ==
  /\ phase = "compose" /\ Asked
  /\ phase' = "respond" /\ stage' = "post"
  /\ api' \in Apis /\ style' \in Styles
  /\ style'.ids # "once" => api' = "chat"
  /\ \E answers \in TransformAnswers :
       request' = Body(api', TransformContext(answers, ProjectContext(branch)))
  /\ branch' = <<>>
  /\ UNCHANGED <<calls, stop, cut, chain, replies, said, wire, decoder, stream, outcome, toolVars>>

(***************************************************************************)
(* The turn that came back.                                                *)
(***************************************************************************)
\* What the request and its response were plays no part in the calls.
Forgets ==
  /\ api' = NoProvider /\ style' = NoProvider /\ stage' = "idle" /\ replies' = <<>>
  /\ said' = Nothing /\ outcome' = Pending
  /\ UNCHANGED <<request, wire, decoder, stream>>

\* No calls, or no turn: this is where it ends.
NoTools ==
  /\ stage = "returned" /\ (outcome.kind = "ok" => outcome.turn.calls = <<>>)
  /\ phase' = "over" /\ Forgets
  /\ UNCHANGED <<branch, calls, stop, cut, chain, toolVars>>

\* The lane plans the calls; another lane is in the middle of one of its own.
PlanTools ==
  /\ stage = "returned" /\ outcome.kind = "ok" /\ outcome.turn.calls # <<>>
  /\ phase' = "tools" /\ calls' = outcome.turn.calls /\ stop' = outcome.turn.stop
  /\ cut' = (said.ended = "length")
  /\ chain' \in Chains
  /\ \E dir \in Dirs : runtime' = LoadTools(dir)
  /\ \E other \in OtherCalls :
       task' = [l \in Lanes |-> IF l = Main THEN Idle ELSE Invoked(other.tool, other.args, NotReading)]
  /\ Forgets
  /\ UNCHANGED <<branch, files, spilled, clock>>

\* What the model wrote: the arguments it meant, or none if they were cut.
NoArgs == [p \in {} |-> None]
Written(call) ==
  IF call.arguments = <<>> \/ call.tool \notin DOMAIN ModelArgs THEN NoArgs ELSE ModelArgs[call.tool]

\* The handlers (external): one looks on, one strips what is raw, one refuses
\* what is raw, one fails.
Raw(args) == "raw" \in DOMAIN args /\ args["raw"]
Says(handler, args) ==
  LET answer(block, new) == [kind |-> "result", block |-> block, args |-> new] IN
  CASE handler = "watch" -> Silent
    [] handler = "strip" -> IF Raw(args) THEN answer(None, [args EXCEPT !["raw"] = FALSE])
                            ELSE answer(None, None)
    [] handler = "guard" -> IF Raw(args) THEN answer("raw", None) ELSE Silent
    [] handler = "broken" -> Failed

\* A planned call: a synthetic result when the response was cut, the tool is
\* unknown or the gate blocks it; the effect otherwise.
StartTool ==
  LET call == Head(calls)
      before == BeforeTool(chain, Written(call), Says)
      synthetic == stop = "length" \/ ReplayOf(call.tool) = None \/ before.block # None
  IN  /\ phase = "tools" /\ calls # <<>> /\ task[Main] = Idle
      /\ IF synthetic THEN calls' = Tail(calls) /\ UNCHANGED task
         ELSE /\ UNCHANGED calls
              /\ Becomes(Main, Invoked(call.tool, IF before.changed THEN before.args ELSE Written(call),
                                       NotReading))
      /\ UNCHANGED <<phase, branch, stop, cut, chain, runtime, files, spilled, clock, httpVars>>

\* Arguments of the types that the parameters of the built-in tools have.
IsArgs(args) ==
  /\ \A p \in {"content", "old", "new"} \cap DOMAIN args : args[p] \in Text
  /\ \A p \in {"offset", "limit"} \cap DOMAIN args : args[p] \in Nat
  /\ Raw(args) => [args EXCEPT !["raw"] = FALSE] # None

ASSUME TurnAssumption ==
  /\ None # "raw" /\ Main \in Lanes /\ Content \in Text /\ Limits \subseteq Nat
  /\ Chains \subseteq Seq({"watch", "strip", "guard", "broken"})
  /\ \A dir \in Dirs : LoadTools(dir) \in Seq(LuaDefinition)
  /\ \A tool \in DOMAIN ModelArgs : IsArgs(ModelArgs[tool])
  /\ \A other \in OtherCalls : other.tool \in STRING /\ IsArgs(other.args)

AfterAnswers ==
  {<<>>, <<[kind |-> "result", content |-> <<"patched">>, isError |-> None,
            terminate |-> TRUE], Failed,
           [kind |-> "result", content |-> None, isError |-> TRUE, terminate |-> None]>>}

\* after_tool, and the result is committed.
FinishTool ==
  /\ phase = "tools" /\ task[Main].pc = "done" /\ task[Main].reading = NotReading
  /\ \E answers \in AfterAnswers :
       LET result == AfterTool(answers, [content |-> task[Main].content,
                                         isError |-> task[Main].isError, terminate |-> FALSE]) IN
       IF result.isError \/ task[Main].path = None
       THEN Becomes(Main, Idle)
       ELSE \E limit \in Limits :
              Becomes(Main, Invoked("read", [path |-> task[Main].path, limit |-> limit],
                                    [path |-> task[Main].path, whole |-> task[Main].whole,
                                     seen |-> <<>>]))
  /\ calls' = Tail(calls)
  /\ UNCHANGED <<phase, branch, stop, cut, chain, runtime, files, spilled, clock, httpVars>>

\* The model reads on where the last page told it to.
ReadOn ==
  LET t == task[Main] IN
  /\ phase = "tools" /\ t.pc = "done" /\ t.reading # NotReading
  /\ IF t.isError \/ t.next = None THEN Becomes(Main, Idle)
     ELSE \E limit \in Limits :
            Becomes(Main, Invoked("read", [path |-> t.reading.path, offset |-> t.next,
                                           limit |-> limit], t.reading))
  /\ UNCHANGED <<phase, branch, calls, stop, cut, chain, runtime, files, spilled, clock, httpVars>>

Over ==
  /\ phase = "tools" /\ calls = <<>> /\ task[Main] = Idle
  /\ phase' = "over"
  /\ UNCHANGED <<branch, calls, stop, cut, chain, httpVars, toolVars>>

Compose == Prompt \/ Settled \/ ToolResult \/ Custom \/ FollowUp \/ Compact \/ Send
Http == HttpStep /\ UNCHANGED <<turnVars, toolVars>>
Tools == phase = "tools" /\ ToolStep /\ UNCHANGED <<turnVars, httpVars>>
\* The turn is over, or the conversation as long as it may get here.
Ended == (phase = "over" \/ Len(branch) = MaxBranch) /\ UNCHANGED vars

Next ==
  \/ Compose \/ Http \/ NoTools \/ PlanTools \/ StartTool \/ Tools \/ FinishTool \/ ReadOn \/ Over
  \/ Ended

Spec == Init /\ [][Next]_vars

(***************************************************************************)
(* Properties.                                                             *)
(***************************************************************************)
\* Every call of the context is answered behind it, before the user speaks again.
CallsClosed(context) ==
  \A i \in DOMAIN context, c \in 1 .. 2 :
    c \in DOMAIN context[i].calls =>
      \E j \in i + 1 .. Len(context) :
        /\ context[j].answers = context[i].calls[c]
        /\ \A k \in i + 1 .. j : context[k].role # "user"

\* A request pairs every call with one result, a turn's own and the one that
\* asks for the summary of a head: under Chat Completions from any conversation,
\* since openai_messages() closes what an interruption left open, under the other
\* two from every conversation whose calls were answered, also when compactions
\* have cut it.
RequestPaired ==
  /\ phase = "compose" /\ Asked =>
       LET context == ProjectContext(branch)
           heads == {p \in {Prepare(context, s.keep) : s \in Settings} : p.some}
       IN  \A a \in Apis : a = "chat" \/ CallsClosed(context) =>
             /\ PairedBody(Body(a, context))
             /\ \A p \in heads : PairedBody(Body(a, SummaryRequest(p)))
  /\ stage = "post" /\ api = "chat" => PairedBody(request)

\* Where prepare() cuts, it loses nothing and tears nothing: head and tail are
\* the context and neither is empty, the tail opens with a user's message, all
\* that the budget pays for is in it, no call is parted from its result, the
\* summary of an earlier compaction is handed on, and the context after the
\* compaction is one summary and that tail.
SplitCoherent ==
  LET context == ProjectContext(branch) IN
  \A settings \in Settings :
    LET p == Prepare(context, settings.keep)
        cost(i) == EstimateTokens(<<context[i]>>)
        paid(s) == FoldLeft(LAMBDA sum, i : sum + cost(i), 0,
                            [i \in 1 .. Len(context) - s |-> s + i]) <= settings.keep
    IN  p.some =>
          /\ p.head \o p.tail = context /\ p.tail # <<>> /\ Head(p.tail).role = "user"
          /\ \A s \in 0 .. Len(context) : paid(s) => s >= Len(p.head)
          /\ \A i \in DOMAIN p.head, j \in DOMAIN p.tail :
               p.tail[j].answers = 0 \/ p.tail[j].answers \notin Range(p.head[i].calls)
          /\ (\E i \in DOMAIN branch : branch[i].type = "compaction") => p.previousSummary
          /\ ProjectContext(Append(branch, CompactionEntry(p.tail))) = <<SummaryMessage>> \o p.tail

\* The before_tool gate fails closed: a tool starts only if no handler of the
\* chain failed, none that refuses raw arguments saw them raw, and the arguments
\* it starts with are those the chain left.
GateClosed ==
  phase = "tools" /\ task[Main].pc = "run" /\ task[Main].reading = NotReading =>
    LET strips == {i \in DOMAIN chain : chain[i] = "strip"}
        written == Written(Head(calls))
    IN  /\ "broken" \notin Range(chain)
        /\ \A i \in DOMAIN chain :
             chain[i] = "guard" /\ Raw(written) => \E j \in strips : j < i
        /\ Raw(task[Main].args) <=> Raw(written) /\ strips = {}

\* docs/architecture.md: a truncated response never executes its tool call.
TruncatedNeverRuns == cut => task[Main] = Idle
=============================================================================
