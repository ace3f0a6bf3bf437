------------------------------ MODULE Respond ------------------------------
(***************************************************************************)
(* HttpModel::respond() of src/src/provider/mod.rs: one request, posted up *)
(* to three times, and the response that is read off its stream.  The      *)
(* endpoint is external: it may refuse, fail, speak any response in any    *)
(* order its protocol allows, stop anywhere, and the transport may cut its *)
(* bytes into any chunks.                                                  *)
(***************************************************************************)
EXTENDS Assembly, Messages, FiniteSetsExt

CONSTANTS
  MaxText,      \* texts of a response
  MaxWire,      \* bytes in flight before the endpoint waits
  Wide,         \* may a text have characters of several bytes? a set of BOOLEANs
  Styles        \* how the endpoint writes its events

\* A style: names its events?, ends lines with CR LF?, and for the chat protocol
\* what its deltas repeat ("once", "repeat") or leave out ("omit" the id).
ASSUME RespondAssumption ==
  /\ MaxText \in Nat /\ MaxWire \in Nat /\ Wide \subseteq BOOLEAN
  /\ \A s \in Styles : s.named \in BOOLEAN /\ s.cr \in BOOLEAN /\ s.ids \in {"once", "repeat", "omit"}

VARIABLES
  api, style,   \* the provider's protocol and its endpoint's habits
  stage,        \* where respond() is: "idle", "post", "stream", "returned"
  request,      \* the body, while it may be posted again
  replies,      \* what each post met: "transient", "refused", "lost", "ok"
  said,         \* what the endpoint has meant to say so far
  wire,         \* the bytes it sent that have not arrived
  decoder, stream,
  outcome       \* what respond() returned

httpVars == <<api, style, stage, request, replies, said, wire, decoder, stream, outcome>>

Calls == DOMAIN ToolOf
Nothing == [texts |-> <<>>, calls |-> [c \in {} |-> 0], closed |-> {}, ended |-> "no",
            failed |-> FALSE]
Pending == [kind |-> "pending"]

(***************************************************************************)
(* The loop of posts.                                                      *)
(***************************************************************************)
MaxPosts == 3

\* Mutant of IsRetryable: whatever is refused is tried again.
RetriesRefused(reply) == reply # "ok"

\* is_retryable() and the error arm: 408, 409, 429, 5xx and a lost connection.
IsRetryable(reply) == reply \in {"transient", "lost"}

\* The function returns, and its locals are gone.
Returns(o) ==
  /\ stage' = "returned" /\ outcome' = o /\ request' = <<>>
  /\ wire' = <<>> /\ decoder' = NewDecoder /\ stream' = NewStream

\* The endpoint answers a post, or the connection is lost.
Post ==
  /\ stage = "post"
  /\ \E reply \in {"ok", "transient", "refused", "lost"} :
       /\ replies' = Append(replies, reply)
       /\ CASE reply = "ok" ->
                 stage' = "stream" /\ request' = <<>> /\ UNCHANGED <<wire, decoder, stream, outcome>>
            [] reply # "ok" /\ IsRetryable(reply) /\ Len(replies) + 1 < MaxPosts ->
                 UNCHANGED <<stage, request, wire, decoder, stream, outcome>>
            [] reply # "ok" /\ ~(IsRetryable(reply) /\ Len(replies) + 1 < MaxPosts) ->
                 Returns([kind |-> IF IsRetryable(reply) THEN "retryable" ELSE "terminal"])
  /\ UNCHANGED <<api, style, said>>

(***************************************************************************)
(* What the endpoint sends (external): the payloads of each protocol.      *)
(***************************************************************************)
Payload(type, wide) ==
  [type |-> type, wide |-> wide, intact |-> TRUE, text |-> 0, call |-> 0, tool |-> NoTool, id |-> 0,
   n |-> 0, reason |-> "none", usage |-> [input |-> 5, output |-> 3, cached |-> 2]]

BeginPayloads ==
  IF api = "anthropic"
  THEN <<[Payload("message_start", FALSE) EXCEPT !.usage = [input |-> 5, output |-> 1, cached |-> 2]]>>
  ELSE <<>>

TextPayload(n, wide) ==
  [Payload(CASE api = "responses" -> "text" [] api = "chat" -> "content"
             [] api = "anthropic" -> "text_delta", wide) EXCEPT !.text = n]

\* A chat delta: the id and the name with the first one, with each, or no id.
ChatPayload(c, n) ==
  [Payload("tool_calls", FALSE) EXCEPT !.call = c, !.n = n,
     !.id = IF style.ids = "repeat" \/ (style.ids = "once" /\ n = 0) THEN c ELSE 0,
     !.tool = IF style.ids = "repeat" \/ n = 0 THEN ToolOf[c] ELSE NoTool]
OpenPayload(c) ==
  IF api = "chat" THEN ChatPayload(c, 0)
  ELSE [Payload(IF api = "responses" THEN "item_added" ELSE "block_start", FALSE) EXCEPT
          !.call = c, !.tool = ToolOf[c]]
PiecePayload(c, n) ==
  IF api = "chat" THEN ChatPayload(c, n)
  ELSE [Payload(IF api = "responses" THEN "arguments" ELSE "json_delta", FALSE) EXCEPT
          !.call = c, !.n = n]
ClosePayload(c) == [Payload("block_stop", FALSE) EXCEPT !.call = c]

\* reason: "stop", or "length" when the output limit cut the response short.
EndPayloads(reason) ==
  LET why == IF reason = "stop" /\ said.calls # Nothing.calls THEN "tool" ELSE reason IN
  CASE api = "responses" -> <<Payload(IF why = "length" THEN "incomplete" ELSE "completed", FALSE)>>
    [] api = "chat" ->
         << [Payload("finish", FALSE) EXCEPT !.reason = IF why = "tool" THEN "tool_calls" ELSE why],
            Payload("usage", FALSE), Payload("[DONE]", FALSE) >>
    [] api = "anthropic" ->
         << [Payload("message_delta", FALSE) EXCEPT
               !.reason = CASE why = "tool" -> "tool_use" [] why = "length" -> "max_tokens"
                            [] why = "stop" -> "end_turn",
               !.usage = [output |-> 3]] >>
ErrorPayload ==
  Payload(CASE api = "responses" -> "failed" [] api = "chat" -> "error" [] api = "anthropic" -> "error",
          FALSE)

\* The lines of one event.
Lines(p) ==
  LET break == IF style.cr THEN <<Cr, Lf>> ELSE <<Lf>> IN
  (IF style.named /\ api # "chat" THEN <<EventField(p.type)>> \o break ELSE <<>>)
    \o <<Half(p, 1), Half(p, 2)>> \o break \o break

Speaking == stage = "stream" /\ said.ended = "no" /\ ~said.failed /\ Len(wire) <= MaxWire
Speaks(payloads) ==
  /\ wire' = wire \o FlattenSeq([i \in DOMAIN payloads |-> Lines(payloads[i])])
  /\ UNCHANGED <<api, style, stage, request, replies, decoder, stream, outcome>>

\* message_start opens an Anthropic stream.
Begun == IF said.texts = <<>> /\ said.calls = Nothing.calls THEN BeginPayloads ELSE <<>>

SayText ==
  /\ Speaking /\ Len(said.texts) < MaxText
  /\ \E wide \in Wide : Speaks(Begun \o <<TextPayload(Len(said.texts) + 1, wide)>>)
  /\ said' = [said EXCEPT !.texts = Append(@, Len(@) + 1)]

OpenCall(c) ==
  /\ Speaking /\ c \notin DOMAIN said.calls
  /\ Speaks(Begun \o <<OpenPayload(c)>>)
  /\ said' = [said EXCEPT !.calls = (c :> 0) @@ @]

SayPiece(c) ==
  /\ Speaking /\ c \in DOMAIN said.calls \ said.closed /\ said.calls[c] < Pieces
  /\ Speaks(<<PiecePayload(c, said.calls[c] + 1)>>)
  /\ said' = [said EXCEPT !.calls[c] = @ + 1]

\* Only the Anthropic protocol has an event for it.
CloseCall(c) ==
  /\ Speaking /\ api = "anthropic"
  /\ c \in DOMAIN said.calls \ said.closed /\ said.calls[c] = Pieces
  /\ Speaks(<<ClosePayload(c)>>)
  /\ said' = [said EXCEPT !.closed = @ \cup {c}]

Complete ==
  \A c \in DOMAIN said.calls : said.calls[c] = Pieces /\ (api = "anthropic" => c \in said.closed)

End ==
  /\ Speaking
  /\ \E reason \in {"stop", "length"} :
       /\ reason = "stop" => Complete
       /\ LET open == IF api = "anthropic" THEN SetToSeq(DOMAIN said.calls \ said.closed) ELSE <<>>
              closing == [i \in DOMAIN open |-> ClosePayload(open[i])]
          IN  Speaks(Begun \o closing \o EndPayloads(reason))
       /\ said' = [said EXCEPT !.ended = reason, !.closed = DOMAIN said.calls]

FailMidway ==
  /\ Speaking
  /\ Speaks(<<ErrorPayload>>)
  /\ said' = [said EXCEPT !.failed = TRUE]

\* A keep-alive comment, a field or an event nobody knows.
Noise ==
  /\ Speaking /\ wire = <<>>
  /\ wire' \in {<<Comment, Lf>>, <<OtherField, Lf>>, Lines(Payload("unknown", FALSE))}
  /\ UNCHANGED <<api, style, stage, request, replies, said, decoder, stream, outcome>>

(***************************************************************************)
(* The loop over the chunks, and its three ends.                           *)
(***************************************************************************)
Receive(n) ==
  /\ stage = "stream" /\ n \in 1 .. Len(wire)
  /\ LET pushed == Push(decoder, Lossy(SubSeq(wire, 1, n))) IN
       /\ decoder' = pushed.decoder
       /\ stream' = FoldLeft(LAMBDA s, event : Apply(api, s, event), stream, pushed.events)
  /\ wire' = SubSeq(wire, n + 1, Len(wire))
  /\ UNCHANGED <<api, style, stage, request, replies, said, outcome>>

\* The body ends: the endpoint is through, or gave up without a word.
Eof ==
  /\ stage = "stream" /\ wire = <<>>
  /\ LET turn == Finish(api, stream) IN
     Returns(IF turn.ok THEN [kind |-> "ok", turn |-> turn] ELSE [kind |-> "terminal"])
  /\ UNCHANGED <<api, style, replies, said>>

\* The transport reports an error.
Break ==
  /\ stage = "stream"
  /\ Returns([kind |-> "retryable"])
  /\ UNCHANGED <<api, style, replies, said>>

HttpStep ==
  \/ Post \/ SayText \/ End \/ FailMidway \/ Noise \/ Eof \/ Break
  \/ \E c \in Calls : OpenCall(c) \/ SayPiece(c) \/ CloseCall(c)
  \/ \E n \in 1 .. Len(wire) : Receive(n)

(***************************************************************************)
(* Properties.                                                             *)
(***************************************************************************)
\* However the bytes are cut into chunks, whatever the endpoint names, repeats
\* or leaves out, and however it interleaves its calls: a turn that respond()
\* returns has every text in order, one call for every call that was announced
\* (closed, for Anthropic), each under its tool and its own id, with its whole
\* arguments or, where the response was cut, none; a response that ended has
\* them all, and the usage the endpoint reported.
TurnFaithful ==
  outcome.kind = "ok" =>
    LET turn == outcome.turn
        meant == IF api = "anthropic" THEN said.closed ELSE DOMAIN said.calls
        whole(c) == [n \in 1 .. Pieces |-> Piece(c, n, TRUE)]
        call(c) == [tool |-> ToolOf[c], arguments |-> IF said.calls[c] = Pieces THEN whole(c) ELSE <<>>]
    IN  /\ turn.text = [n \in DOMAIN said.texts |-> <<n, TRUE>>]
        /\ Len(turn.calls) = Cardinality(meant)
        /\ {[tool |-> turn.calls[i].tool, arguments |-> turn.calls[i].arguments] :
             i \in DOMAIN turn.calls} = {call(c) : c \in meant}
        /\ \A i, j \in DOMAIN turn.calls : turn.calls[i].id = turn.calls[j].id => i = j
        /\ said.ended = "stop" =>
             /\ turn.usage = [input |-> 5, output |-> 3, cached |-> 2]
             /\ turn.stop = IF meant = {} THEN "stop" ELSE "tool_use"

\* A request is posted again only after transient failures, at most twice, and
\* what respond() calls retryable is a request that met nothing else or a stream
\* that broke, never a refusal.
PostsJustified ==
  /\ Len(replies) <= MaxPosts
  /\ \A i \in 1 .. Len(replies) - 1 : replies[i] \in {"transient", "lost"}
  /\ outcome.kind = "retryable" => "refused" \notin {replies[i] : i \in DOMAIN replies}
                                     /\ (Last(replies) = "ok" \/ Len(replies) = MaxPosts)

\* A failure is a failure, and is judged as its cause demands: no turn comes of a
\* stream that reported an error, and none is given up for good without a refusal
\* or such a report.
FailureSurfaces ==
  /\ outcome.kind = "ok" => ~said.failed /\ Last(replies) = "ok"
  /\ outcome.kind = "terminal" => said.failed \/ Last(replies) = "refused"

\* What model.rs says of a stream that ended early: it is a failure to retry.
EarlyEndIsRetryable == outcome.kind = "ok" => said.ended # "no"
=============================================================================
