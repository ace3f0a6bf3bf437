------------------------------ MODULE Toolbox ------------------------------
(***************************************************************************)
(* The tools of src/src/tools.rs and the Lua tools of src/src/lua.rs, run  *)
(* by several lanes over the files of one sandbox.                         *)
(*                                                                         *)
(* A text is a sequence of lines; what a command or a Lua body prints is   *)
(* external.  A definition of a tool is a record: where it comes from, its *)
(* name, replay declaration and parameters.  Arguments are a function of   *)
(* the parameters that are given.                                          *)
(***************************************************************************)
EXTENDS Hooks, Naturals, Sequences, SequencesExt, FiniteSetsExt, TLC

CONSTANTS
  Lanes,       \* the lanes that share the toolbox
  Outputs,     \* what a command may print: texts
  MaxOutput,   \* how many lines of a text are shown
  MaxClock     \* how far the millisecond clock runs

Text == Seq(STRING)

ASSUME ToolboxAssumption == MaxOutput \in Nat /\ Outputs \subseteq Text

VARIABLES
  runtime,     \* Runtime.tools: the Lua tools in the order they were loaded
  files,       \* path -> text, the files of the sandbox
  spilled,     \* SPILL_SEQUENCE
  clock,       \* now_ms()
  task         \* lane -> the call it runs

toolVars == <<runtime, files, spilled, clock, task>>

(***************************************************************************)
(* The registry.                                                           *)
(***************************************************************************)
Param(name, required, default) == [name |-> name, required |-> required, default |-> default]
Definition(from, name, replay, params) ==
  [from |-> from, name |-> name, replay |-> replay, params |-> params]

Needs(names) == [i \in DOMAIN names |-> Param(names[i], TRUE, None)]

Builtins ==
  << Definition("builtin", "bash", "never", Needs(<<"command">>)),
     Definition("builtin", "read", "safe", Needs(<<"path">>)),
     Definition("builtin", "write", "never", Needs(<<"path", "content">>)),
     Definition("builtin", "edit", "never", Needs(<<"path", "old", "new">>)),
     Definition("builtin", "ls", "safe", <<>>),
     Definition("builtin", "glob", "safe", Needs(<<"pattern">>)),
     Definition("builtin", "grep", "safe", Needs(<<"pattern">>)) >>

\* What a Lua file may declare.
LuaDefinition ==
  [from: {"lua"}, name: STRING, replay: {"never", "safe"},
   params: Seq([name: STRING, required: BOOLEAN, default: {None} \cup STRING])]

\* load_tools(): the files in the order of their paths, each with its tools in
\* the order it declares them.
LoadTools(dir) ==
  LET paths == SortSeq(dir, LAMBDA f, g : f.path < g.path) IN
  FlattenSeq([i \in DOMAIN paths |-> paths[i].tools])

\* A Lua tool takes the place of whatever has its name: retain() and push().
Offer(schemas, tool) == {s \in schemas : s.name # tool.name} \cup {tool}

\* schemas(): what the model is shown, in an order that no one goes by.
Schemas == FoldLeft(Offer, Range(Builtins), runtime)

\* find(): the first definition of that name, if there is one.
Named(definitions, name) ==
  LET at == SelectInSeq(definitions, LAMBDA d : d.name = name) IN
  IF at = 0 THEN <<>> ELSE <<definitions[at]>>

\* Runtime::tool(): the first of that name.
LuaTool(name) == Named(runtime, name)

\* Mutant of ReplayOf: the declaration of the built-in counts.
ReplayOfBuiltin(name) ==
  CASE Named(Builtins, name) # <<>> -> Named(Builtins, name)[1].replay
    [] LuaTool(name) # <<>> -> LuaTool(name)[1].replay
    [] OTHER -> None

\* replay_of(): None for a tool that does not exist.
ReplayOf(name) ==
  CASE LuaTool(name) # <<>> -> LuaTool(name)[1].replay
    [] LuaTool(name) = <<>> /\ Named(Builtins, name) # <<>> -> Named(Builtins, name)[1].replay
    [] OTHER -> None

\* call_cancelled(): which definition runs.
Dispatched(name) == IF LuaTool(name) # <<>> THEN LuaTool(name) ELSE Named(Builtins, name)

\* prepare() of a Lua tool, string() of a built-in: the declared defaults, and
\* a parameter that is required and still missing.
Defaults(params) ==
  LET set == {i \in DOMAIN params : params[i].default # None} IN
  [p \in {params[i].name : i \in set} |-> (CHOOSE i \in set : params[i].name = p)]
Prepared(params, args) ==
  [p \in DOMAIN args \cup DOMAIN Defaults(params) |->
     IF p \in DOMAIN args THEN args[p] ELSE params[Defaults(params)[p]].default]
Missing(params, args) ==
  \E i \in DOMAIN params : params[i].required /\ params[i].name \notin DOMAIN Prepared(params, args)

Given(args, name) == IF name \in DOMAIN args THEN args[name] ELSE None

(***************************************************************************)
(* read and edit.                                                          *)
(***************************************************************************)
\* read_range(): the lines and, when a limit left some, the next offset.
ReadRange(lines, offset, limit) ==
  LET start == IF offset = None THEN 0 ELSE IF offset > 0 THEN offset - 1 ELSE 0
      end == IF limit = None THEN Len(lines) ELSE Min({start + limit, Len(lines)})
  IN  IF start >= Len(lines) THEN [ok |-> FALSE]
      ELSE [ok |-> TRUE, lines |-> SubSeq(lines, start + 1, end),
            next |-> IF limit # None /\ end < Len(lines) THEN end + 1 ELSE None]

OccursAt(content, old, i) ==
  i + Len(old) - 1 <= Len(content) /\ SubSeq(content, i, i + Len(old) - 1) = old

Occurrences(content, old) == {i \in DOMAIN content : OccursAt(content, old, i)}

\* replace_once(): refused unless str::matches(), which goes on behind the end of
\* each match, finds one: the first, and none behind it.  The old text is not empty.
ReplaceOnce(content, old, new) ==
  LET found == Occurrences(content, old)
      at == Min(found)
  IN  IF found = {} \/ \E i \in found : i >= at + Len(old) THEN [ok |-> FALSE]
      ELSE [ok |-> TRUE,
            text |-> SubSeq(content, 1, at - 1) \o new
                       \o SubSeq(content, at + Len(old), Len(content))]

(***************************************************************************)
(* One call: run, present, done.  A task that reads its own spilled output *)
(* keeps what it is reading and what it has seen of it.                    *)
(***************************************************************************)
NotReading == [path |-> None, whole |-> <<>>, seen |-> <<>>]
Idle == [pc |-> "idle"]
Workspace == [dir |-> "workspace", time |-> 0, sequence |-> 0]
Invoked(name, args, reading) ==
  [pc |-> "run", name |-> name, args |-> args, reading |-> reading]

\* What the lane gets: what is shown, whether it is an error, the text it is
\* from, the spill file, and the offset a read may go on at.
Answered(t, content, isError, whole, path, next) ==
  [pc |-> "done", name |-> t.name, args |-> t.args, content |-> content, isError |-> isError,
   whole |-> whole, path |-> path,
   next |-> next,
   reading |-> [t.reading EXCEPT !.seen = IF t.reading.path # None THEN @ \o content ELSE @]]
Refused(t, why) == Answered(t, <<why>>, TRUE, <<why>>, None, None)
Presenting(t, text, next) ==
  [pc |-> "present", name |-> t.name, args |-> t.args, reading |-> t.reading, text |-> text,
   next |-> next]

Becomes(l, t) == task' = [task EXCEPT ![l] = t]
Running(l, name) ==
  /\ task[l].pc = "run" /\ task[l].name = name /\ LuaTool(name) = <<>>
  /\ ~Missing(Dispatched(name)[1].params, task[l].args)

\* A name nobody declared, or arguments that lack what the tool requires.
RunRefused(l) ==
  /\ task[l].pc = "run"
  /\ Dispatched(task[l].name) = <<>> \/ Missing(Dispatched(task[l].name)[1].params, task[l].args)
  /\ Becomes(l, Refused(task[l], IF Dispatched(task[l].name) = <<>> THEN "unknown" ELSE "missing"))
  /\ UNCHANGED <<runtime, files, spilled, clock>>

\* What runs elsewhere prints something or fails.
Prints(l) ==
  /\ \/ \E text \in Outputs : Becomes(l, Presenting(task[l], text, None))
     \/ Becomes(l, Refused(task[l], "failed"))
  /\ UNCHANGED <<runtime, files, spilled, clock>>

\* call_tool_cancelled(): the body of a Lua tool.
RunLua(l) ==
  /\ task[l].pc = "run" /\ LuaTool(task[l].name) # <<>>
  /\ ~Missing(LuaTool(task[l].name)[1].params, task[l].args)
  /\ Prints(l)

\* A command in the machine, the model's own or that of ls, glob and grep.
RunBash(l) == Running(l, "bash") /\ Prints(l)
RunShell(l) == (\E name \in {"ls", "glob", "grep"} : Running(l, name)) /\ Prints(l)

RunRead(l) ==
  LET t == task[l]
      range == ReadRange(files[t.args.path], Given(t.args, "offset"), Given(t.args, "limit"))
  IN  /\ Running(l, "read")
      /\ IF t.args.path \in DOMAIN files /\ range.ok
         THEN Becomes(l, Presenting(t, range.lines, range.next))
         ELSE Becomes(l, Refused(t, "failed"))
      /\ UNCHANGED <<runtime, files, spilled, clock>>

\* A file, new or written over.
Stored(path, text) ==
  [p \in DOMAIN files \cup {path} |-> IF p = path THEN text ELSE files[p]]

RunWrite(l) ==
  LET t == task[l] IN
  /\ Running(l, "write")
  /\ \/ /\ files' = Stored(t.args.path, t.args.content)
        /\ Becomes(l, Presenting(t, <<"wrote">>, None))
     \/ Becomes(l, Refused(t, "failed")) /\ UNCHANGED files
  /\ UNCHANGED <<runtime, spilled, clock>>

\* edit reads the file and, in a later effect, writes it.
RunEdit(l) ==
  LET t == task[l]
      replaced == ReplaceOnce(files[t.args.path], t.args.old, t.args.new)
  IN  /\ Running(l, "edit")
      /\ IF t.args.path \in DOMAIN files /\ replaced.ok
         THEN Becomes(l, [pc |-> "edit", name |-> t.name, args |-> t.args, reading |-> t.reading,
                          text |-> replaced.text, from |-> files[t.args.path]])
         ELSE Becomes(l, Refused(t, "failed"))
      /\ UNCHANGED <<runtime, files, spilled, clock>>

WriteEdit(l) ==
  LET t == task[l] IN
  /\ t.pc = "edit"
  /\ \/ /\ files' = [files EXCEPT ![t.args.path] = t.text]
        /\ Becomes(l, Presenting(t, <<"edited">>, None))
     \/ Becomes(l, Refused(t, "failed")) /\ UNCHANGED files
  /\ UNCHANGED <<runtime, spilled, clock>>

(***************************************************************************)
(* present_output(): a long text is saved under a name of its own and cut. *)
(***************************************************************************)
\* Mutant of SpillPath: the time alone.
SpillPathByTime(now, sequence) == [dir |-> "tmp", time |-> now, sequence |-> 0]
SpillPath(now, sequence) == [dir |-> "tmp", time |-> now, sequence |-> sequence]

Truncate(text) == SubSeq(text, 1, MaxOutput)

Present(l) ==
  LET t == task[l] IN
  /\ t.pc = "present"
  /\ IF Len(t.text) <= MaxOutput
     THEN Becomes(l, Answered(t, t.text, FALSE, t.text, None, t.next)) /\ UNCHANGED spilled
     ELSE /\ spilled' = spilled + 1
          /\ Becomes(l, [pc |-> "spill", name |-> t.name, args |-> t.args, reading |-> t.reading,
                         text |-> t.text, path |-> SpillPath(clock, spilled)])
  /\ UNCHANGED <<runtime, files, clock>>

\* The offset to read on at stands at the end of a text, so the cut takes it.
Spill(l) ==
  LET t == task[l] IN
  /\ t.pc = "spill"
  /\ \/ /\ files' = Stored(t.path, t.text)
        /\ Becomes(l, Answered(t, Truncate(t.text), FALSE, t.text, t.path, None))
     \/ /\ Becomes(l, Answered(t, Truncate(t.text), FALSE, t.text, None, None))
        /\ UNCHANGED files
  /\ UNCHANGED <<runtime, spilled, clock>>

Tick ==
  /\ clock < MaxClock /\ \E l \in Lanes : task[l].pc = "spill"
  /\ clock' = clock + 1
  /\ UNCHANGED <<runtime, files, spilled, task>>

ToolStep ==
  \/ \E l \in Lanes : RunRefused(l) \/ RunLua(l) \/ RunBash(l) \/ RunShell(l) \/ RunRead(l)
                        \/ RunWrite(l) \/ RunEdit(l) \/ WriteEdit(l) \/ Present(l) \/ Spill(l)
  \/ Tick

(***************************************************************************)
(* Properties.                                                             *)
(***************************************************************************)
\* What a result does not show can be read: a cut result that names a file
\* names one that holds the whole text, whatever other lanes spill meanwhile,
\* and following the offsets that read_range() hints at shows that text once,
\* from its first line to its last.
OutputReachable ==
  \A l \in Lanes :
    task[l].pc = "done" /\ ~task[l].isError =>
      /\ task[l].path # None => files[task[l].path] = task[l].whole
      /\ task[l].reading.path # None =>
           IF task[l].next = None THEN task[l].reading.seen = task[l].reading.whole
           ELSE task[l].reading.seen = SubSeq(task[l].reading.whole, 1, task[l].next - 1)

\* What the model is offered is what runs: for every schema it is shown, the
\* definition call_cancelled() picks and the replay declaration recovery goes
\* by are those of the schema, and a call is refused for its arguments only if
\* the schema said they were required.
OfferedRuns ==
  /\ \A schema \in Schemas :
       /\ Dispatched(schema.name) = <<schema>>
       /\ ReplayOf(schema.name) = schema.replay
  /\ \A l \in Lanes :
       task[l].pc = "done" /\ task[l].isError /\ task[l].content = <<"missing">> =>
         \E schema \in Schemas :
           /\ schema.name = task[l].name
           /\ \E i \in DOMAIN schema.params :
                schema.params[i].required /\ schema.params[i].name \notin DOMAIN task[l].args

\* What an edit writes back is made from what the file holds then.
EditCurrent == \A l \in Lanes : task[l].pc = "edit" => files[task[l].args.path] = task[l].from
=============================================================================
