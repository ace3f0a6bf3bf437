------------------------------- MODULE Hooks -------------------------------
(***************************************************************************)
(* The hook pipelines of src/src/hooks.rs.  A handler's answer is silence, *)
(* a failure or a result; the field of a result that is not set is None.   *)
(* The report of a failure as an event is left out.                        *)
(***************************************************************************)
EXTENDS Naturals, Sequences, SequencesExt

CONSTANT None

\* What is not set is no number, and no reason for a block.
ASSUME NoneAssumption == None \notin Nat /\ None # "hook failed"

Silent == [kind |-> "silent"]
Failed == [kind |-> "failed"]

Results(answers) == SelectSeq(answers, LAMBDA a : a.kind = "result")

\* The latest result that sets the field wins.
Latest(answers, field, otherwise) ==
  LET set == SelectSeq(Results(answers), LAMBDA a : a[field] # None) IN
  IF set = <<>> THEN otherwise ELSE Last(set)[field]

\* before_run: messages append, the latest system prompt wins.
BeforeRun(answers) ==
  [messages |-> FlattenSeq([i \in DOMAIN Results(answers) |-> Results(answers)[i].messages]),
   systemPrompt |-> Latest(answers, "systemPrompt", None)]

\* Mutant of Ask: a handler that fails is passed over.
AskOpen(at, answer) ==
  CASE at.block # None \/ answer.kind # "result" -> at
    [] at.block = None /\ answer.kind = "result" ->
         IF answer.block # None THEN [at EXCEPT !.block = answer.block]
         ELSE IF answer.args # None THEN [at EXCEPT !.args = answer.args, !.changed = TRUE]
         ELSE at

\* before_tool, one handler: the first block is the last word, and a handler
\* that fails blocks.
Ask(at, answer) ==
  CASE at.block # None \/ answer = Silent -> at
    [] at.block = None /\ answer = Failed -> [at EXCEPT !.block = "hook failed", !.changed = FALSE]
    [] at.block = None /\ answer.kind = "result" ->
         IF answer.block # None THEN [at EXCEPT !.block = answer.block]
         ELSE IF answer.args # None THEN [at EXCEPT !.args = answer.args, !.changed = TRUE]
         ELSE at

\* before_tool: each handler sees the arguments that the ones before it left.
BeforeTool(chain, args, Says(_, _)) ==
  FoldLeft(LAMBDA at, handler : Ask(at, Says(handler, at.args)),
           [args |-> args, changed |-> FALSE, block |-> None], chain)

\* after_tool: the patches merge field by field.
AfterTool(answers, result) ==
  [result EXCEPT !.content = Latest(answers, "content", @),
                 !.isError = Latest(answers, "isError", @),
                 !.terminate = Latest(answers, "terminate", @)]

\* before_run_end: the latest follow-up wins.
BeforeRunEnd(answers) == Latest(answers, "followUp", None)

\* before_compaction: the first decline or summary decides; an answer that is
\* both is an error and is passed over.
BeforeCompaction(answers) ==
  LET deciding == SelectSeq(Results(answers), LAMBDA a : a.decline # (a.summary # None)) IN
  IF deciding = <<>> THEN [decline |-> FALSE, summary |-> None]
  ELSE [decline |-> deciding[1].decline, summary |-> deciding[1].summary]

\* transform_context: each handler may replace the messages of the one request.
TransformContext(answers, messages) == Latest(answers, "messages", messages)
=============================================================================
