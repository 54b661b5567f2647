-------------------------- MODULE ResponsesStream --------------------------
(***************************************************************************)
(* streamDeepSeekChatSSEToResponses of services/deepseek_adapter.go: the   *)
(* chat completion stream of an upstream is turned, block by block, into   *)
(* the event stream of the Responses API.                                  *)
(*                                                                         *)
(* Events that the code always emits together (created and in_progress; an *)
(* item and its first part; the parts of done) are one event here.  Ids,   *)
(* model, usage and finish reason are copied, and left out.  A chunk with  *)
(* several choices or tool calls acts as several chunks.                   *)
(***************************************************************************)
EXTENDS ThinkBlocks

CONSTANTS
  Tools,           \* the indexes of tool calls
  Chunks,          \* the chunks an upstream may send, by what its streams are about
  MaxChunks,       \* bound on the chunks of a stream, by what it is about
  Upstreams,       \* the manners of upstreams
  Reencoded        \* what json.Unmarshal and json.Marshal make of the texts that are JSON

ASSUME ReencodedAssumption == Reencoded \in [DOMAIN Reencoded -> Text]
ASSUME ToolsAssumption == Tools \subseteq Nat /\ IsFiniteSet(Tools)

\* boundary: the delta has a list of tool calls.  known: the call has an id, a
\* type or a name; without calls, index and args mean nothing.
Chunk == [reasoning : Text, content : Text, boundary : BOOLEAN, call : BOOLEAN,
          index : Tools, known : BOOLEAN, args : Text]

\* late: reasoning may come after its item was closed; unnamed: a call may
\* begin without id, type and name.
Upstream == [late : BOOLEAN, unnamed : BOOLEAN, about : DOMAIN Chunks]

ASSUME UpstreamsAssumption == Upstreams \subseteq Upstream
ASSUME ChunksAssumption ==
  \A u \in Upstreams : \A c \in Chunks[u.about] : c \in Chunk /\ (c.call => c.boundary)

\* Output items, and the state kept for each of them.
Reasoning == -2
Message   == -1
Slots == {Reasoning, Message} \cup Tools

Kinds == {"reasoning", "message", "function_call"}
KindOf(x) ==
  IF x = Reasoning THEN "reasoning" ELSE IF x = Message THEN "message" ELSE "function_call"

VARIABLES
  upstream,  \* the manners of the upstream asked
  st,    \* responsesSSEStreamState, and the events of a block yet to be written
  client, \* what a client has made of the events written: converted
  pc,    \* where streamDeepSeekChatSSEToResponses is
  then,  \* what follows the writes: read on, or return with or without error
  lost,  \* a write has failed
  got    \* the chunks received

vars == <<upstream, st, client, pc, then, lost, got>>

Event(type, x, index, text, output) ==
  [type |-> type, kind |-> x, index |-> index, text |-> text, output |-> output]

Notice(type, output) == Event(type, Message, -1, <<>>, output)

Emit(s, e) == [s EXCEPT !.events = Append(@, e)]

-----------------------------------------------------------------------------
(* Output items.                                                           *)

\* Arguments that are JSON are written anew: keys sorted, those given twice and white
\* space dropped, large numbers rounded, some characters escaped.
canonicalJSONText(text) ==
  IF Solid(text) # {} /\ text \in DOMAIN Reencoded THEN Reencoded[text] ELSE text

\* What an item is closed with.
FinalOf(kind, text) == IF kind = "function_call" THEN canonicalJSONText(text) ELSE text

FinalText(s, x) == FinalOf(KindOf(x), s.text[x])

\* An item as it is kept when it is closed.
Closed(s, x) == [index |-> s.index[x], kind |-> KindOf(x), text |-> FinalText(s, x)]

ensureStarted(s) ==
  IF s.started THEN s ELSE Emit([s EXCEPT !.started = TRUE], Notice("created", <<>>))

Announce(s, x) ==
  LET o == ensureStarted(s) IN
  IF o.added[x] THEN o
  ELSE Emit([o EXCEPT !.added[x] = TRUE, !.index[x] = o.next, !.next = @ + 1],
            Event("added", x, o.next, <<>>, <<>>))

\* pushReasoningDelta and pushTextDelta.
PushDelta(s, x, d) ==
  LET o == Announce(s, x) IN
  Emit([o EXCEPT !.text[x] = @ \o d], Event("delta", x, o.index[x], d, <<>>))

\* Mutation: what was never announced is closed too.
Finalize_Unannounced(s, x) ==
  IF s.done[x] THEN s
  ELSE Emit([s EXCEPT !.done[x] = TRUE,
                      !.items = Append(@, Closed(s, x))],
            Event("done", x, s.index[x], FinalText(s, x), <<>>))

\* Mutation: an item that was closed is closed again.
Finalize_Twice(s, x) ==
  IF ~s.added[x] THEN s
  ELSE Emit([s EXCEPT !.done[x] = TRUE,
                      !.items = Append(@, Closed(s, x))],
            Event("done", x, s.index[x], FinalText(s, x), <<>>))

Finalize(s, x) ==
  IF ~s.added[x] \/ s.done[x] THEN s
  ELSE Emit([s EXCEPT !.done[x] = TRUE,
                      !.items = Append(@, Closed(s, x))],
            Event("done", x, s.index[x], FinalText(s, x), <<>>))

\* completedOutputItems: the closed items, by output index.
CompletedOutput(s) ==
  LET order == Picked([p \in 1..s.next |-> p - 1], {s.items[i].index + 1 : i \in DOMAIN s.items})
      at(index) == s.items[CHOOSE i \in DOMAIN s.items : s.items[i].index = index]
  IN [n \in DOMAIN order |-> [kind |-> at(order[n]).kind, text |-> at(order[n]).text]]

-----------------------------------------------------------------------------
(* The client: what it makes of an event, and never complains.             *)

NewClient == [phase |-> "silent", items |-> <<>>, output |-> <<>>]

Over(phase) == phase \in {"completed", "failed"}

Heard == client # NewClient

NewItem(e) == [index |-> e.index, kind |-> KindOf(e.kind), text |-> <<>>, closed |-> FALSE, final |-> <<>>]
Stray == [index |-> -1, kind |-> "message", text |-> <<>>, closed |-> FALSE, final |-> <<>>]

ItemAfter(it, e) ==
  IF it.index # e.index THEN it
  ELSE IF e.type = "delta" THEN [it EXCEPT !.text = @ \o e.text]
  ELSE [it EXCEPT !.closed = TRUE, !.final = @ \o e.text]

\* An event for an item that was never announced is a stray one.
ItemsAfter(items, e) ==
  IF e.type = "added" THEN Append(items, NewItem(e))
  ELSE IF \A i \in DOMAIN items : items[i].index # e.index THEN Append(items, Stray)
  ELSE [i \in DOMAIN items |-> ItemAfter(items[i], e)]

Hears(c, e) ==
  CASE e.type = "created" -> [c EXCEPT !.phase = IF @ = "silent" THEN "open" ELSE "announced twice"]
    [] e.type \in {"added", "delta", "done"} -> [c EXCEPT !.items = ItemsAfter(@, e)]
    [] e.type \in {"completed", "failed"} ->
         [c EXCEPT !.phase = IF Over(@) THEN "ended twice" ELSE e.type,
                   !.output = [i \in DOMAIN e.output |-> e.output[i].text]]

-----------------------------------------------------------------------------
(* Content, with a leading think block held back until it is complete.     *)

PushText(s, d) == PushDelta(Finalize(s, Reasoning), Message, d)

\* A complete think block and what follows it.
PushSplit(s, split) ==
  LET r == IF split.reasoning = <<>> THEN s
           ELSE Finalize(PushDelta(s, Reasoning, split.reasoning), Reasoning)
  IN IF split.answer = <<>> THEN r ELSE PushDelta(r, Message, split.answer)

ToText(s) == [s EXCEPT !.mode = "text", !.buffer = <<>>]

drainCompleteInlineThink(s) ==
  LET split == splitLeadingThinkBlock(s.buffer) IN
  IF split.ok THEN PushSplit(ToText(s), split) ELSE s

pushContentDelta(s, d) ==
  LET b == [s EXCEPT !.buffer = @ \o d] IN
  CASE s.mode = "text"      -> PushText(s, d)
    [] s.mode = "reasoning" -> drainCompleteInlineThink(b)
    [] s.mode = "detecting" ->
         LET decision == leadingThinkPrefixDecision(b.buffer) IN
         CASE decision = "need_more" -> b
           [] decision = "reasoning" -> drainCompleteInlineThink([b EXCEPT !.mode = "reasoning"])
           [] decision = "text"      -> PushText(ToText(s), b.buffer)

\* What is held back goes out: an unfinished think block as reasoning.
flushInlineThink(s) ==
  CASE s.mode = "text" -> s
    [] s.mode = "reasoning" ->
         LET split == splitLeadingThinkBlock(s.buffer)
             open == stripLeadingThinkOpenTag(s.buffer)
         IN IF split.ok THEN PushSplit(ToText(s), split)
            ELSE IF open = <<>> THEN ToText(s)
            ELSE Finalize(PushDelta(ToText(s), Reasoning, open), Reasoning)
    [] s.mode = "detecting" ->
         IF s.buffer = <<>> THEN ToText(s) ELSE PushText(ToText(s), s.buffer)

-----------------------------------------------------------------------------
(* Tool calls.                                                             *)

\* The reasoning so far is kept with each call that has none.
pushToolCallDelta(s, c, reasoning) ==
  LET x == c.index
      o == ensureStarted([s EXCEPT
             !.seen = @ \cup {x},
             !.text[x] = @ \o c.args,
             !.carried[x] = IF TrimSpace(@) = <<>> THEN reasoning ELSE @])
      a == IF c.known THEN Announce(o, x) ELSE o
  IN IF a.added[x] /\ c.args # <<>>
     THEN Emit(a, Event("delta", x, a.index[x], c.args, <<>>)) ELSE a

\* Mutation: the reasoning for the call is read before the block held back
\* goes out.
atToolCalls_ReadsFirst(s, c) ==
  LET r == Finalize(flushInlineThink(s), Reasoning) IN
  IF c.call THEN pushToolCallDelta(r, c, TrimSpace(s.text[Reasoning])) ELSE r

atToolCalls(s, c) ==
  LET f == flushInlineThink(s)
      r == Finalize(f, Reasoning)
  IN IF c.call THEN pushToolCallDelta(r, c, TrimSpace(f.text[Reasoning])) ELSE r

handleChatChunk(s, c) ==
  LET a == ensureStarted(s)
      b == IF c.reasoning = <<>> THEN a ELSE PushDelta(a, Reasoning, c.reasoning)
      d == IF c.content = <<>> THEN b ELSE pushContentDelta(b, c.content)
  IN IF c.boundary THEN atToolCalls(d, c) ELSE d

-----------------------------------------------------------------------------
(* The end of the stream.                                                  *)

\* finalizeEvents up to the tool calls.
FinalizeItems(s) ==
  Finalize(Finalize(flushInlineThink(ensureStarted(s)), Reasoning), Message)

OpenCalls(s) == {x \in s.seen : ~s.done[x]}

\* One round of finalizeToolEvents: calls without id and name get default ones.
FinalizeTool(s, x) == Finalize(Announce(s, x), x)

CompleteResponse(s) ==
  Emit([s EXCEPT !.completed = TRUE], Notice("completed", CompletedOutput(s)))

failedEvents(s) ==
  IF s.completed THEN s
  ELSE Emit([s EXCEPT !.completed = TRUE], Notice("failed", CompletedOutput(s)))

-----------------------------------------------------------------------------
(* The steps of streamDeepSeekChatSSEToResponses.                          *)

Init ==
  /\ upstream \in Upstreams
  /\ st = [started |-> FALSE, completed |-> FALSE, next |-> 0,
           added |-> [x \in Slots |-> FALSE], done |-> [x \in Slots |-> FALSE],
           index |-> [x \in Slots |-> -1], text |-> [x \in Slots |-> <<>>],
           carried |-> [x \in Slots |-> <<>>], seen |-> {}, items |-> <<>>,
           mode |-> "detecting", buffer |-> <<>>, events |-> <<>>]
  /\ client = NewClient
  /\ pc = "read"
  /\ then = "read"
  /\ lost = FALSE
  /\ got = <<>>

\* What the upstream is assumed never to send.
MaySend(c) ==
  /\ c.reasoning # <<>> => upstream.late \/ ~st.done[Reasoning]
  /\ c.call => upstream.unnamed \/ c.known \/ st.added[c.index]

\* A block after the last event is ignored.
ReadChunk ==
  /\ pc = "read"
  /\ Len(got) < MaxChunks[upstream.about]
  /\ \E c \in Chunks[upstream.about] :
       /\ MaySend(c)
       /\ IF st.completed THEN UNCHANGED <<upstream, st, pc, got>>
          ELSE /\ st' = handleChatChunk(st, c)
               /\ pc' = "write"
               /\ got' = Append(got, c)
  /\ UNCHANGED <<upstream, client, then, lost>>

ReadError ==
  /\ pc = "read"
  /\ st' = failedEvents(st)
  /\ pc' = "write"
  /\ UNCHANGED <<upstream, client, then, lost, got>>

ReadDone ==
  /\ pc = "read"
  /\ ~st.completed
  /\ st' = FinalizeItems(st)
  /\ pc' = "tools"
  /\ UNCHANGED <<upstream, client, then, lost, got>>

\* The upstream ends the stream without [DONE], before or after an event.
ReadEOF ==
  /\ pc = "read"
  /\ IF ~st.completed /\ Heard
     THEN st' = FinalizeItems(st) /\ pc' = "tools" /\ then' = "return"
     ELSE st' = st /\ pc' = "returned" /\ then' = IF st.completed THEN "return" ELSE "fail"
  /\ UNCHANGED <<upstream, client, lost, got>>

\* Mutation: a failure in mid-stream is not told to the client.
ReadFails_Silent ==
  /\ pc = "read"
  /\ then' = "fail"
  /\ pc' = "returned"
  /\ UNCHANGED <<upstream, st, client, lost, got>>

\* A read error, or no line in time.
ReadFails ==
  /\ pc = "read"
  /\ then' = "fail"
  /\ IF ~Heard THEN pc' = "returned" /\ st' = st
     ELSE pc' = "write" /\ st' = failedEvents(st)
  /\ UNCHANGED <<upstream, client, lost, got>>

\* finalizeToolEvents closes the calls by index.
CloseTool ==
  /\ pc = "tools"
  /\ \E x \in OpenCalls(st) :
       /\ \A y \in OpenCalls(st) : x <= y
       /\ st' = FinalizeTool(st, x)
  /\ UNCHANGED <<upstream, client, pc, then, lost, got>>

FinishResponse ==
  /\ pc = "tools"
  /\ OpenCalls(st) = {}
  /\ st' = CompleteResponse(st)
  /\ pc' = "write"
  /\ UNCHANGED <<upstream, client, then, lost, got>>

\* writeEvents; that the write of the failed event fails is ignored.
WriteEvent ==
  /\ pc = "write"
  /\ st.events # <<>>
  /\ client' = Hears(client, Head(st.events))
  /\ st' = [st EXCEPT !.events = Tail(@)]
  /\ \/ UNCHANGED <<upstream, pc, then, lost>>
     \/ pc' = "returned" /\ then' = "fail" /\ lost' = TRUE
  /\ UNCHANGED <<upstream, got>>

Written ==
  /\ pc = "write"
  /\ st.events = <<>>
  /\ pc' = IF then = "read" THEN "read" ELSE "returned"
  /\ UNCHANGED <<upstream, st, client, then, lost, got>>

Next ==
  \/ ReadChunk \/ ReadError \/ ReadDone \/ ReadEOF \/ ReadFails
  \/ CloseTool \/ FinishResponse \/ WriteEvent \/ Written

Spec == Init /\ [][Next]_vars

-----------------------------------------------------------------------------
(* Properties.                                                             *)

Item       == [index : Nat, kind : Kinds, text : Text]
ClientItem == [index : Nat, kind : Kinds, text : Text, closed : BOOLEAN, final : Text]
Client     == [phase : {"silent", "open", "completed", "failed"}, items : Seq(ClientItem), output : Seq(Text)]

TypeOK ==
  /\ upstream \in Upstreams
  /\ st.started \in BOOLEAN /\ st.completed \in BOOLEAN /\ st.next \in Nat
  /\ st.added \in [Slots -> BOOLEAN] /\ st.done \in [Slots -> BOOLEAN]
  /\ st.index \in [Slots -> Nat \cup {-1}]
  /\ st.text \in [Slots -> Text] /\ st.carried \in [Slots -> Text]
  /\ st.seen \subseteq Tools
  /\ st.items \in Seq(Item)
  /\ st.mode \in {"detecting", "reasoning", "text"} /\ st.buffer \in Text
  /\ client \in Client
  /\ pc \in {"read", "tools", "write", "returned"}
  /\ then \in {"read", "return", "fail"}
  /\ lost \in BOOLEAN
  /\ got \in Seq(Chunks[upstream.about])

\* The events that went out are a Responses stream: items announced, numbered and
\* closed once, reasoning and messages with the text of their deltas, calls with
\* arguments that are those of their deltas read and written anew, not the same text;
\* and one last event that lists what the items were closed with, whatever the upstream
\* cuts its chunks into and wherever it breaks off.
Protocol ==
  INSTANCE ResponsesProtocol WITH
    Final <- FinalOf,
    loose <- (IF upstream.late THEN {"reasoning"} ELSE {})
             \cup (IF upstream.unnamed THEN {"function_call"} ELSE {}),
    phase <- client.phase, items <- client.items, output <- client.output

FollowsProtocol == Protocol!Spec

\* A stream that has begun is not left without its last event, unless the
\* client is lost.
EndsTold == pc = "returned" /\ Heard /\ ~lost => Over(client.phase)

\* The content that came before the first tool call, and the rest.
Boundaries(g) == {i \in DOMAIN g : g[i].boundary}
Early(g) == {i \in DOMAIN g : \A j \in Boundaries(g) : i <= j}
ContentOf(g, I) == FlattenSeq([i \in DOMAIN g |-> IF i \in I THEN g[i].content ELSE <<>>])
HeadContent == ContentOf(got, Early(got))
TailContent == ContentOf(got, DOMAIN got \ Early(got))
OwnReasoning == FlattenSeq([i \in DOMAIN got |-> got[i].reasoning])

\* What splitting the whole content gives.  A block that is never closed is
\* reasoning, unless the tag is all there is.
Unclosed(text)  == OpensThink(text) /\ ~splitLeadingThinkBlock(text).ok /\ TrimLeft(text) # thinkOpenTag
ThoughtOf(text) ==
  IF Unclosed(text) THEN stripLeadingThinkOpenTag(text) ELSE splitLeadingThinkBlock(text).reasoning
AnswerOf(text)  == IF Unclosed(text) THEN <<>> ELSE splitLeadingThinkBlock(text).answer

\* However chunks cut the content, tags included, a completed response has the
\* reasoning and, up to its leading white space, the answer of the whole content.
ChunkingIrrelevant ==
  ~upstream.late /\ client.phase = "completed" =>
    /\ TrimLeft(st.text[Message]) = TrimLeft(AnswerOf(HeadContent) \o TailContent)
    /\ st.text[Reasoning] = OwnReasoning \o ThoughtOf(HeadContent)

\* A tool call announced after the reasoning carries all of it: the upstream
\* wants it back with the result of the call.
CallsCarryReasoning ==
  ~upstream.late /\ ~upstream.unnamed =>
    \A x \in st.seen :
      st.added[Reasoning] /\ st.index[Reasoning] < st.index[x] =>
        st.carried[x] = TrimSpace(st.text[Reasoning])
============================================================================
