------------------------------ MODULE Messages ------------------------------
(***************************************************************************)
(* How a conversation becomes the messages of a request                    *)
(* (src/src/provider/mod.rs).  An entry keeps its role, whether its text   *)
(* is empty, the ids of the calls it makes and the id it answers.          *)
(***************************************************************************)
EXTENDS Naturals, Sequences, SequencesExt

NoAnswer == 0

Message(role, text, calls, answers) ==
  [role |-> role, text |-> text, calls |-> calls, answers |-> answers]

\* What a request is made of: plain messages, calls and results.
Plain(role) == [item |-> role, id |-> NoAnswer]
CallItem(id) == [item |-> "call", id |-> id]
ResultItem(id) == [item |-> "result", id |-> id]

ItemsOfCalls(calls) == [i \in DOMAIN calls |-> CallItem(calls[i])]

\* openai_input(): text and calls of a turn are items of their own; a turn
\* with neither is an empty message.
OpenaiInput(context) ==
  LET items(e) ==
        CASE e.role = "user" -> <<Plain("user")>>
          [] e.role = "assistant" ->
               (IF e.text \/ e.calls = <<>> THEN <<Plain("assistant")>> ELSE <<>>)
                 \o ItemsOfCalls(e.calls)
          [] e.role = "toolResult" -> <<ResultItem(e.answers)>>
          [] OTHER -> <<>>
  IN  FlattenSeq([i \in DOMAIN context |-> items(context[i])])

\* anthropic_messages(): text and calls of a turn are blocks of one message, a
\* result is a message of the user.
AnthropicMessages(context) ==
  LET items(e) ==
        CASE e.role = "user" -> <<Plain("user")>>
          [] e.role = "assistant" /\ e.calls # <<>> -> <<Plain("assistant")>> \o ItemsOfCalls(e.calls)
          [] e.role = "assistant" -> <<Plain("assistant")>>
          [] e.role = "toolResult" -> <<ResultItem(e.answers)>>
          [] OTHER -> <<>>
  IN  FlattenSeq([i \in DOMAIN context |-> items(context[i])])

\* Mutant of Healed: nothing is closed.
NotHealed(messages) == messages

\* heal_openai_messages(): a call that no result in the conversation answers is
\* closed right behind its turn.
Healed(messages) ==
  LET answered == {messages[i].answers : i \in {j \in DOMAIN messages : messages[j].role = "tool"}}
      closing(m) == [i \in DOMAIN SelectSeq(m.calls, LAMBDA id : id \notin answered) |->
                       Message("tool", TRUE, <<>>,
                               SelectSeq(m.calls, LAMBDA id : id \notin answered)[i])]
  IN  FlattenSeq([i \in DOMAIN messages |-> <<messages[i]>> \o closing(messages[i])])

\* openai_messages(): a turn with neither text nor calls is left out.
OpenaiMessages(context) ==
  LET messages(e) ==
        CASE e.role = "user" -> <<Message("user", e.text, <<>>, NoAnswer)>>
          [] e.role = "assistant" /\ (e.text \/ e.calls # <<>>) ->
               <<Message("assistant", e.text, e.calls, NoAnswer)>>
          [] e.role = "toolResult" -> <<Message("tool", TRUE, <<>>, e.answers)>>
          [] OTHER -> <<>>
      items(m) ==
        CASE m.role = "user" -> <<Plain("user")>>
          [] m.role = "assistant" -> <<Plain("assistant")>> \o ItemsOfCalls(m.calls)
          [] m.role = "tool" -> <<ResultItem(m.answers)>>
      healed == Healed(FlattenSeq([i \in DOMAIN context |-> messages(context[i])]))
  IN  FlattenSeq([i \in DOMAIN healed |-> items(healed[i])])

Body(api, context) ==
  CASE api = "responses" -> OpenaiInput(context)
    [] api = "chat" -> OpenaiMessages(context)
    [] api = "anthropic" -> AnthropicMessages(context)

\* What the endpoints insist on: behind a call, before anything but calls and
\* results, comes exactly one result for it, and no result comes without one.
Before(body, i) == SelectLastInSubSeq(body, 1, i, LAMBDA x : x.item \notin {"call", "result"})
After(body, i) ==
  LET next == SelectInSubSeq(body, i, Len(body), LAMBDA x : x.item \notin {"call", "result"}) IN
  IF next = 0 THEN Len(body) ELSE next

PairedBody(body) ==
  \A i \in DOMAIN body :
    /\ body[i].item = "call" =>
         \E j \in i + 1 .. After(body, i) :
           /\ body[j] = ResultItem(body[i].id)
           /\ \A k \in i + 1 .. After(body, i) : body[k] = body[j] => k = j
    /\ body[i].item = "result" =>
         \E j \in Before(body, i) + 1 .. i : body[j] = CallItem(body[i].id)
=============================================================================
