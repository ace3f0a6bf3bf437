------------------------------ MODULE Assembly ------------------------------
(***************************************************************************)
(* The three StreamState accumulators (openai_responses.rs,                *)
(* openai_completions.rs, anthropic.rs under src/src/provider): each turns *)
(* the events of one streamed response into a finished turn.               *)
(*                                                                         *)
(* A text is a sequence of parts, the arguments of a call a sequence of    *)
(* pieces of JSON.  Call c has id c and index c - 1, and a text or a piece *)
(* says whether its characters are intact.                                 *)
(***************************************************************************)
EXTENDS Sse, TLC

CONSTANTS
  Pieces,    \* in how many deltas the arguments of a call arrive
  ToolOf     \* call -> the tool it names

ASSUME AssemblyAssumption == Pieces \in Nat

NoTool == "none"
NoUsage == [input |-> 0, output |-> 0, cached |-> 0]

NewStream ==
  [text |-> <<>>, blocks |-> <<>>, calls |-> <<>>, usage |-> NoUsage, stop |-> "stop",
   failed |-> FALSE]

(***************************************************************************)
(* serde_json on the collected pieces: the arguments if they are the whole *)
(* of one call's JSON, an empty object otherwise.                          *)
(***************************************************************************)
Piece(c, n, intact) == [call |-> c, n |-> n, intact |-> intact]

Arguments(pieces) ==
  IF /\ Len(pieces) = Pieces
     /\ \A i \in DOMAIN pieces : pieces[i].n = i /\ pieces[i].call = pieces[1].call
  THEN pieces
  ELSE <<>>

Call(id, tool, arguments) == [id |-> id, tool |-> tool, arguments |-> arguments]

\* A field that a usage report leaves out.
Field(usage, key, fallback) == IF key \in DOMAIN usage THEN usage[key] ELSE fallback

\* Replaces element i of a sequence, padding it up to there.
Placed(seq, i, padding, value) ==
  [j \in 1 .. (IF i > Len(seq) THEN i ELSE Len(seq)) |->
     IF j = i THEN value ELSE IF j <= Len(seq) THEN seq[j] ELSE padding]

(***************************************************************************)
(* OpenAI Responses: calls in the order they were announced, their pieces  *)
(* found by item id.                                                       *)
(***************************************************************************)
ResponsesUsage(u) ==
  [input |-> Field(u, "input", 0), output |-> Field(u, "output", 0),
   cached |-> Field(u, "cached", 0)]

ResponsesApply(s, event) ==
  LET p == Json(event)
      kind == IF event.name # NoName THEN event.name ELSE p.type
  IN  CASE ~IsJson(event) -> s
        [] kind = "text" -> [s EXCEPT !.text = Append(@, <<p.text, p.intact>>)]
        [] kind = "item_added" ->
             [s EXCEPT !.calls = Append(@, [item |-> p.call, id |-> p.call, tool |-> p.tool,
                                            partial |-> <<>>])]
        [] kind = "arguments" ->
             LET at == SelectInSeq(s.calls, LAMBDA call : call.item = p.call) IN
             IF at = 0 THEN s
             ELSE [s EXCEPT !.calls[at].partial = Append(@, Piece(p.call, p.n, p.intact))]
        [] kind \in {"completed", "incomplete"} -> [s EXCEPT !.usage = ResponsesUsage(p.usage)]
        [] kind \in {"failed", "error"} -> [s EXCEPT !.failed = TRUE]
        [] OTHER -> s

ResponsesCalls(s) ==
  [i \in DOMAIN s.calls |-> Call(s.calls[i].id, s.calls[i].tool, Arguments(s.calls[i].partial))]

\* Whatever cut a response short, it is a plain stop or a wish for tools.
ResponsesStop(s) == IF s.calls = <<>> THEN "stop" ELSE "tool_use"

(***************************************************************************)
(* OpenAI Chat Completions: calls by their stable index; a proxy may leave *)
(* the id out, or send id and name again with every delta.                 *)
(***************************************************************************)
NoCall == [id |-> 0, tool |-> NoTool, partial |-> <<>>]
MadeUpId(index) == 100 + index

\* One element of delta.tool_calls.
ChatDelta(call, p) ==
  [id |-> IF p.id # 0 THEN p.id ELSE call.id,
   tool |-> IF call.tool = NoTool THEN p.tool ELSE call.tool,
   partial |-> IF p.n = 0 THEN call.partial
               ELSE Append(call.partial, Piece(p.call, p.n, p.intact))]

ChatApply(s, event) ==
  LET p == Json(event)
      reported == [s EXCEPT !.usage = ResponsesUsage(p.usage)]
  IN  CASE ~IsJson(event) \/ p.type = "[DONE]" -> s
        [] p.type = "error" -> [s EXCEPT !.failed = TRUE]
        [] p.type = "usage" -> reported
        [] p.type = "finish" ->
             [s EXCEPT !.stop = IF p.reason \in {"tool_calls", "function_call"} THEN "tool_use" ELSE "stop"]
        [] p.type = "tool_calls" ->
             LET old == IF p.call <= Len(s.calls) THEN s.calls[p.call] ELSE NoCall IN
             [s EXCEPT !.calls = Placed(@, p.call, NoCall, ChatDelta(old, p))]
        [] p.type = "content" -> [s EXCEPT !.text = Append(@, <<p.text, p.intact>>)]
        [] OTHER -> s

\* A call that never got a name is none; one without an id gets one by index.
ChatCalls(s) ==
  LET call(i) == Call(IF s.calls[i].id = 0 THEN MadeUpId(i - 1) ELSE s.calls[i].id,
                      s.calls[i].tool, Arguments(s.calls[i].partial))
  IN  SelectSeq([i \in DOMAIN s.calls |-> call(i)], LAMBDA c : c.tool # NoTool)

ChatStop(s) == IF ChatCalls(s) = <<>> THEN s.stop ELSE "tool_use"

(***************************************************************************)
(* Anthropic Messages: content blocks by index; a tool block becomes a     *)
(* call when it closes.  Usage comes piecemeal and is cumulative.          *)
(***************************************************************************)
Ignored == [b |-> "ignored"]

AnthropicUsage(u, previous) ==
  [input |-> Field(u, "input", previous.input),
   output |-> Field(u, "output", previous.output),
   cached |-> IF Field(u, "cached", 0) > 0 THEN u.cached ELSE previous.cached]

AnthropicApply(s, event) ==
  LET p == Json(event)
      open == p.call + 1 \in DOMAIN s.blocks /\ s.blocks[p.call + 1].b = "tool"
      block == s.blocks[p.call + 1]
  IN  CASE ~IsJson(event) -> s
        [] p.type = "message_start" -> [s EXCEPT !.usage = AnthropicUsage(p.usage, @)]
        [] p.type = "block_start" ->
             [s EXCEPT !.blocks = Placed(@, p.call + 1, Ignored,
                                         [b |-> "tool", id |-> p.call, tool |-> p.tool,
                                          partial |-> <<>>])]
        [] p.type = "text_delta" -> [s EXCEPT !.text = Append(@, <<p.text, p.intact>>)]
        [] p.type = "json_delta" ->
             IF open THEN [s EXCEPT !.blocks[p.call + 1].partial =
                                      Append(@, Piece(p.call, p.n, p.intact))]
             ELSE s
        [] p.type = "block_stop" ->
             IF open THEN [s EXCEPT !.calls = Append(@, Call(block.id, block.tool,
                                                             Arguments(block.partial))),
                                    !.blocks[p.call + 1] = Ignored]
             ELSE s
        [] p.type = "message_delta" ->
             [s EXCEPT !.stop = IF p.reason = "tool_use" THEN "tool_use" ELSE "stop",
                       !.usage = AnthropicUsage(p.usage, @)]
        [] p.type = "error" -> [s EXCEPT !.failed = TRUE]
        [] OTHER -> s

AnthropicStop(s) == IF s.calls = <<>> THEN s.stop ELSE "tool_use"

(***************************************************************************)
(* What respond() uses of them, by API.                                    *)
(***************************************************************************)
Apis == {"responses", "chat", "anthropic"}

Apply(api, s, event) ==
  CASE api = "responses" -> ResponsesApply(s, event)
    [] api = "chat" -> ChatApply(s, event)
    [] api = "anthropic" -> AnthropicApply(s, event)

\* Mutant of Succeeded: what arrived before an error event is a turn.
SucceededAnyway(s) == TRUE
Succeeded(s) == ~s.failed

\* finish(): the assistant turn; not ok if the stream reported a failure.
Finish(api, s) ==
  [ok |-> Succeeded(s), text |-> s.text, usage |-> s.usage,
   calls |-> CASE api = "responses" -> ResponsesCalls(s)
               [] api = "chat" -> ChatCalls(s)
               [] api = "anthropic" -> s.calls,
   stop |-> CASE api = "responses" -> ResponsesStop(s)
              [] api = "chat" -> ChatStop(s)
              [] api = "anthropic" -> AnthropicStop(s)]
=============================================================================
