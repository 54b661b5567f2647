-------------------------- MODULE ChatTranslation --------------------------
(***************************************************************************)
(* How services/deepseek_adapter.go turns the input of a Responses request *)
(* into the messages of a chat completion, and a completion into the       *)
(* output of a response.                                                   *)
(*                                                                         *)
(* A text is the sequence of the pieces it is joined from, each piece told *)
(* by who wrote it: Contains of strings is having the pieces in a row.     *)
(* What is copied from field to field (names, arguments, images, the       *)
(* parameters of the request) is left out.                                 *)
(***************************************************************************)
EXTENDS Naturals, SequencesExt

CONSTANT None

\* An input or output item: by is who made it, full that its text is not blank.
Item(type, role, id, by, thought, full) ==
  [type |-> type, role |-> role, id |-> id, by |-> by, thought |-> thought, full |-> full]

MessageItem(role, by, full) == Item("message", role, None, by, <<>>, full)
ReasoningItem(by, thought) == Item("reasoning", None, None, by, thought, thought # <<>>)
CallItem(id, by, thought) == Item("function_call", None, id, by, thought, TRUE)
OutputItem(id, by, full) == Item("function_call_output", None, id, by, <<>>, full)

\* A chat message; id is that of the call a tool message is for.
Message(role, text, calls, thought, id) ==
  [role |-> role, text |-> text, calls |-> calls, thought |-> thought, id |-> id]

ToolCall(it) == [id |-> it.id, by |-> it.by]

Piece(by, part) == [by |-> by, part |-> part]
Placeholder == <<Piece(None, "tool call")>>
Instructions == <<Piece(None, "instructions")>>

-----------------------------------------------------------------------------
(* Reasoning.                                                              *)

appendReasoningText(existing, next) ==
  IF \E i \in 0..Len(existing) : IsPrefix(next, SubSeq(existing, i + 1, Len(existing)))
  THEN existing ELSE existing \o next

appendReasoningTextReplacingPlaceholder(existing, next) ==
  appendReasoningText(IF existing = Placeholder THEN <<>> ELSE existing, next)

\* The assistant's message that the last tool messages are for, or the last message if it is one; or 0.
LastAssistant(ms) ==
  LET i == SelectLastInSeq(ms, LAMBDA m : m.role # "tool") IN
  IF i > 0 /\ ms[i].role = "assistant" THEN i ELSE 0

-----------------------------------------------------------------------------
(* Input items to messages.                                                *)

responsesRoleToDeepSeekRole(role) ==
  CASE role = "developer" -> "system"
    [] role \in {"system", "user", "assistant", "tool"} -> role
    [] OTHER -> "user"

\* Mutation: every call gets a message of its own.
appendDeepSeekToolCall_Alone(ms, call, thought) ==
  Append(ms, Message("assistant", <<>>, <<call>>, IF thought = <<>> THEN Placeholder ELSE thought, None))

\* A call joins the assistant's message before it; one without reasoning gets a placeholder.
appendDeepSeekToolCall(ms, call, thought) ==
  LET t == IF thought = <<>> THEN Placeholder ELSE thought
      n == Len(ms) IN
  IF n > 0 /\ ms[n].role = "assistant"
  THEN [ms EXCEPT ![n].calls = Append(@, call),
                  ![n].thought = appendReasoningTextReplacingPlaceholder(@, t)]
  ELSE Append(ms, Message("assistant", <<>>, <<call>>, t, None))

\* The messages so far, and the reasoning that waits for a message.
Chat(messages, pending) == [messages |-> messages, pending |-> pending]

\* A result that is blank is left out.
AppendOutput(c, it) ==
  IF it.full THEN Chat(Append(c.messages, Message("tool", <<Piece(it.by, "result")>>, <<>>, <<>>, it.id)), c.pending)
  ELSE c

AppendCall(c, it) ==
  Chat(appendDeepSeekToolCall(c.messages, ToolCall(it), IF it.thought # <<>> THEN it.thought ELSE c.pending), <<>>)

AppendReasoning(c, it) ==
  LET i == LastAssistant(c.messages) IN
  IF it.thought # <<>> /\ i > 0
  THEN Chat([c.messages EXCEPT ![i].thought = appendReasoningTextReplacingPlaceholder(@, it.thought)], c.pending)
  ELSE Chat(c.messages, appendReasoningText(c.pending, it.thought))

\* Reasoning before another's message is dropped.
AppendMessage(c, it) ==
  LET role == responsesRoleToDeepSeekRole(it.role) IN
  IF ~it.full THEN c
  ELSE Chat(Append(c.messages, Message(role, <<Piece(it.by, "text")>>, <<>>,
                                       IF role = "assistant" THEN c.pending ELSE <<>>, None)), <<>>)

appendResponsesInputItem(c, it) ==
  CASE it.type = "function_call_output" -> AppendOutput(c, it)
    [] it.type = "function_call" -> AppendCall(c, it)
    [] it.type = "reasoning" -> AppendReasoning(c, it)
    [] it.type = "message" -> AppendMessage(c, it)

\* One system message, at the head, with the text of all.
collapseDeepSeekSystemMessagesToHead(ms) ==
  LET system == SelectSeq(ms, LAMBDA m : m.role = "system")
      text == FlattenSeq([i \in DOMAIN system |-> system[i].text])
      rest == SelectSeq(ms, LAMBDA m : m.role # "system") IN
  IF system = <<>> THEN rest ELSE <<Message("system", text, <<>>, <<>>, None)>> \o rest

\* translateResponsesRequestToDeepSeekChatCompletion, of a request with instructions.
ToMessages(items) ==
  LET head == Message("system", Instructions, <<>>, <<>>, None) IN
  collapseDeepSeekSystemMessagesToHead(
    <<head>> \o FoldLeft(appendResponsesInputItem, Chat(<<>>, <<>>), items).messages)

-----------------------------------------------------------------------------
(* A completion to output items.                                           *)

\* own: reasoning in a field of its own; inline: in a leading think block of the content.
Completion(own, inline, text, calls) == [own |-> own, inline |-> inline, text |-> text, calls |-> calls]

OutputItems(by, k, thought) ==
  (IF thought = <<>> THEN <<>> ELSE <<ReasoningItem(by, thought)>>)
  \o (IF k.text THEN <<MessageItem("assistant", by, TRUE)>> ELSE <<>>)
  \o [i \in DOMAIN k.calls |-> CallItem(k.calls[i], by, thought)]

Thought(by, part, there) == IF there THEN <<Piece(by, part)>> ELSE <<>>

\* translateDeepSeekChatCompletionToResponses: of two kinds of reasoning the one in the field is kept;
\* without anything there is an empty message.
BodyOutput(by, k) ==
  LET own == Thought(by, "own", k.own)
      items == OutputItems(by, k, IF k.own THEN own ELSE Thought(by, "inline", k.inline)) IN
  IF items = <<>> THEN <<MessageItem("assistant", by, FALSE)>> ELSE items

\* responsesSSEStreamState at the end of a stream: both kinds are one text.
StreamOutput(by, k) ==
  OutputItems(by, k, Thought(by, "own", k.own) \o Thought(by, "inline", k.inline))
=============================================================================
