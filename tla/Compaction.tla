----------------------------- MODULE Compaction -----------------------------
(***************************************************************************)
(* What a request is made from, and where a compaction cuts it:            *)
(* src/src/compaction.rs and project_context() of src/src/session.rs.      *)
(*                                                                         *)
(* An entry keeps its role, whether it has text, the ids of the calls it   *)
(* makes and the id it answers, its size in characters, its stop reason    *)
(* and whether its text opens with "<summary>".  A compaction entry keeps  *)
(* the tail it retained.                                                   *)
(***************************************************************************)
EXTENDS Naturals, Sequences, SequencesExt, FiniteSetsExt

CharactersPerToken == 4

Entry(role, size) ==
  [type |-> "message", role |-> role, text |-> TRUE, calls |-> <<>>, answers |-> 0,
   size |-> size, stop |-> "stop", summary |-> FALSE, tail |-> <<>>]

SummarySize == 8
SummaryMessage == [Entry("user", SummarySize) EXCEPT !.summary = TRUE]
CompactionEntry(tail) == [Entry("none", 0) EXCEPT !.type = "compaction", !.tail = tail]

\* project_context(): from the newest compaction on; custom entries and the
\* responses that failed or were aborted stay out.
ProjectContext(branch) ==
  LET newest == SelectLastInSeq(branch, LAMBDA e : e.type = "compaction")
      messages(e) ==
        CASE e.type = "compaction" -> <<SummaryMessage>> \o e.tail
          [] e.type = "message" /\ ~(e.role = "assistant" /\ e.stop \in {"error", "aborted"}) -> <<e>>
          [] OTHER -> <<>>
      path == SubSeq(branch, Max({newest, 1}), Len(branch))
  IN  FlattenSeq([i \in DOMAIN path |-> messages(path[i])])

EstimateTokens(entries) ==
  FoldLeft(LAMBDA sum, e : sum + e.size, 0, entries) \div CharactersPerToken

OverThreshold(tokens, window, settings) ==
  settings.enabled /\ tokens + settings.reserve > window

(***************************************************************************)
(* prepare(): how many messages the head has.                              *)
(***************************************************************************)
\* Backwards while the budget lasts; the newest message is kept at any cost.
TailStart(context, keep) ==
  LET cost(e) == EstimateTokens(<<e>>)
      back(e, at) ==
        IF at.full \/ (cost(e) > at.budget /\ at.start < Len(context))
        THEN [at EXCEPT !.full = TRUE]
        ELSE [at EXCEPT !.start = @ - 1, !.budget = IF cost(e) > @ THEN 0 ELSE @ - cost(e)]
  IN  FoldRight(back, context, [start |-> Len(context), budget |-> keep, full |-> FALSE]).start

\* Mutant of Widened: the tail starts wherever the budget ended.
NotWidened(context, start) == start

\* Further back to a user's message.
Widened(context, start) ==
  Max({0} \cup {s \in 1 .. start : context[s + 1].role = "user"})

NoPreparation == [some |-> FALSE]

Prepare(context, keep) ==
  LET start == IF Len(context) < 2 THEN 0 ELSE Widened(context, TailStart(context, keep)) IN
  IF start = 0 THEN NoPreparation
  ELSE [some |-> TRUE, head |-> SubSeq(context, 1, start),
        tail |-> SubSeq(context, start + 1, Len(context)),
        tokensBefore |-> EstimateTokens(context), previousSummary |-> context[1].summary]

\* summary_request(): the head and an instruction.
SummaryRequest(preparation) == Append(preparation.head, Entry("user", SummarySize))
=============================================================================
