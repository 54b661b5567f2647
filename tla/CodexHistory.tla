---------------------------- MODULE CodexHistory ----------------------------
(***************************************************************************)
(* The turns of a Codex client with a chat completion upstream:            *)
(* forwardDeepSeekCodexRequest of services/deepseek_adapter.go, its        *)
(* codexChatHistoryStore, and the translation of each request and answer.  *)
(*                                                                         *)
(* Chat completions have no memory of earlier responses.  A client either  *)
(* sends all items of the earlier turns again, or only refers to a         *)
(* response: for those the store keeps the tool calls of each response,    *)
(* and a request with results for them gets the calls back.                *)
(*                                                                         *)
(* A call is named by its id and by the request whose response made it.  A *)
(* response that its upstream names has an id of its own: its request.     *)
(* What an attempt recorded that failed afterwards stays in the store of   *)
(* the code under an id nobody was told; here it is forgotten.             *)
(***************************************************************************)
EXTENDS Integers, Sequences, ChatTranslation, Filters

CONSTANTS
  Requests,
  CallIds,
  Completions, \* what an upstream may answer
  Inputs,     \* the inputs of a client, or what it adds to the earlier items
  Clients,    \* the manners of clients
  Manners,    \* whether upstreams name their responses: all and no two alike, or none
  Client

DefaultId == "chatcmpl-stream"
NoId == ""
StoreIds == Requests \cup {DefaultId}

Thoughts == Seq([by : Requests, part : {"own", "inline"}])

\* A call kept in the store, with the reasoning it came with.
CachedCall == [id : CallIds, by : Requests, thought : Thoughts]

Roles == {"system", "developer", "user", "assistant", "tool", "other"}

InputItem ==
  [type : {"message", "reasoning", "function_call", "function_call_output"}, role : Roles \cup {None},
   id : CallIds \cup {None}, by : Requests \cup {Client}, thought : Thoughts, full : BOOLEAN]

IdsOf(items, type) == {items[i].id : i \in {j \in DOMAIN items : items[j].type = type}}

ASSUME RequestsAssumption == {NoId, DefaultId, None, Client} \cap Requests = {}
ASSUME MannersAssumption == Manners \subseteq BOOLEAN
\* The calls of a completion have ids of their own.
ASSUME CompletionsAssumption ==
  /\ Completions \subseteq [own : BOOLEAN, inline : BOOLEAN, text : BOOLEAN, calls : Seq(CallIds)]
  /\ \A k \in Completions : IsInjective(k.calls)

\* A call in an input has an id of its own, and comes before its results.
ASSUME InputsAssumption ==
  /\ Inputs \subseteq Seq(InputItem)
  /\ \A items \in Inputs : \A i \in DOMAIN items :
       /\ items[i].by = Client
       /\ items[i].type \in {"function_call", "function_call_output"} => items[i].id \in CallIds
       /\ items[i].type = "function_call" =>
            \A j \in DOMAIN items :
              items[j].id = items[i].id => i = j \/ (items[j].type = "function_call_output" /\ i < j)

\* replays: sends the earlier items again; carries: with the reasoning_content of a call, which the
\* Responses API does not have.
ASSUME ClientsAssumption == Clients \subseteq [replays : BOOLEAN, carries : BOOLEAN]

VARIABLES
  named,    \* upstreams name their responses
  client,   \* the manners of the client
  store,    \* h.responses: a map from response ids to calls
  pc,       \* where the handler of each request is
  prev,     \* the request whose response this one goes on from
  input,    \* the input received
  posted,   \* the input of the last attempt, as it went upstream
  stream,   \* the answer is an event stream, passed on as it comes
  answer,   \* the response of the last attempt: its id and output
  told,     \* the client has got it, complete
  kept      \* the answer told has been recorded

vars == <<named, client, store, pc, prev, input, posted, stream, answer, told, kept>>

Labels == {"idle", "received", "posted", "streaming", "answered", "recorded", "over"}

NoAnswer == [id |-> NoId, output |-> <<>>]

TypeOK ==
  /\ named \in Manners
  /\ client \in Clients
  /\ DOMAIN store \subseteq StoreIds
  /\ \A i \in DOMAIN store : store[i] \in Seq(CachedCall) \ {<<>>}
  /\ pc \in [Requests -> Labels]
  /\ prev \in [Requests -> Requests \cup {None}]
  /\ input \in [Requests -> Seq(InputItem)]
  /\ posted \in [Requests -> Seq(InputItem)]
  /\ stream \in [Requests -> BOOLEAN]
  /\ answer \in [Requests -> [id : StoreIds \cup {NoId}, output : Seq(InputItem)]]
  /\ told \in [Requests -> BOOLEAN]
  /\ kept \in [Requests -> BOOLEAN]

-----------------------------------------------------------------------------
(* The store.                                                              *)

\* Mutation: any response's calls are found.
callsForResponse_Any(id) ==
  IF store = <<>> THEN <<>> ELSE store[CHOOSE i \in DOMAIN store : TRUE]

callsForResponse(id) == IF id \in DOMAIN store THEN store[id] ELSE <<>>

\* Mutation: calls the input has already are restored again.
RestoreGroup_Again(items, calls) ==
  Picked(calls, {i \in DOMAIN calls : calls[i].id \in IdsOf(items, "function_call_output")})

\* The calls with a result in the input but not there themselves.
RestoreGroup(items, calls) ==
  Picked(calls, {i \in DOMAIN calls :
                   calls[i].id \in IdsOf(items, "function_call_output") \ IdsOf(items, "function_call")})

\* They go before the first result, together.
enrichRequest(items, calls) ==
  LET group == RestoreGroup(items, calls)
      outputs == {i \in DOMAIN items : items[i].type = "function_call_output"}
      at == CHOOSE i \in outputs : \A j \in outputs : i <= j
      restored == [i \in DOMAIN group |-> CallItem(group[i].id, group[i].by, group[i].thought)]
  IN IF group = <<>> THEN items
     ELSE SubSeq(items, 1, at - 1) \o restored \o SubSeq(items, at, Len(items))

CallItems(items) == Picked(items, {i \in DOMAIN items : items[i].type = "function_call"})

\* Mutation: the reasoning is not kept with the calls.
CachedCalls_Bare(a) ==
  [i \in DOMAIN CallItems(a.output) |->
     [id |-> CallItems(a.output)[i].id, by |-> CallItems(a.output)[i].by, thought |-> <<>>]]

CachedCalls(a) ==
  [i \in DOMAIN CallItems(a.output) |->
     LET it == CallItems(a.output)[i] IN [id |-> it.id, by |-> it.by, thought |-> it.thought]]

\* Mutation: a response without an id is stored too.
recordResponsePayload_NoId(a) ==
  IF CachedCalls(a) = <<>> THEN store
  ELSE [i \in DOMAIN store \cup {a.id} |-> IF i = a.id THEN CachedCalls(a) ELSE store[i]]

recordResponsePayload(a) ==
  IF a.id = NoId \/ CachedCalls(a) = <<>> THEN store
  ELSE [i \in DOMAIN store \cup {a.id} |-> IF i = a.id THEN CachedCalls(a) ELSE store[i]]

-----------------------------------------------------------------------------
Goto(r, l) == pc' = [pc EXCEPT ![r] = l]

\* Results are for calls of the response gone on from, or of the input itself; a client that sends
\* everything again has results for all calls, and something to say when there were none.
Answers(p, items) ==
  LET asked == IF p = None THEN {} ELSE IdsOf(answer[p].output, "function_call")
      results == IdsOf(items, "function_call_output")
      own == IdsOf(items, "function_call") IN
  /\ results \subseteq own \cup asked
  /\ client.replays => results = asked /\ own = {}

\* What a client keeps of an output item.
Kept(it) == IF client.carries \/ it.type # "function_call" THEN it ELSE [it EXCEPT !.thought = <<>>]

\* All that was said before the request.
Transcript(p) ==
  IF p = None THEN <<>>
  ELSE input[p] \o [i \in DOMAIN answer[p].output |-> Kept(answer[p].output[i])]

\* A client goes on as soon as it has the last event, or starts anew.
SendRequest(r) ==
  /\ pc[r] = "idle"
  /\ \E p \in {q \in Requests : told[q]} \cup {None}, items \in Inputs :
       /\ Answers(p, items)
       /\ prev' = [prev EXCEPT ![r] = p]
       /\ input' = [input EXCEPT ![r] = IF client.replays THEN Transcript(p) \o items ELSE items]
  /\ Goto(r, "received")
  /\ UNCHANGED <<named, client, store, posted, stream, answer, told, kept>>

\* The response that previous_response_id names.
Referred(r) == IF client.replays THEN None ELSE prev[r]

\* Every attempt enriches the request as it was received.
PostRequest(r) ==
  /\ pc[r] = "received"
  /\ LET calls == IF Referred(r) = None THEN <<>> ELSE callsForResponse(answer[prev[r]].id) IN
       posted' = [posted EXCEPT ![r] = enrichRequest(input[r], calls)]
  /\ Goto(r, "posted")
  /\ UNCHANGED <<named, client, store, prev, input, stream, answer, told, kept>>

\* The attempt fails before a byte was written: the next provider, or the end.
AttemptFails(r) ==
  /\ pc[r] = "posted"
  /\ Goto(r, "received") \/ Goto(r, "over")
  /\ UNCHANGED <<named, client, store, prev, input, posted, stream, answer, told, kept>>

\* The upstream answers with a stream or a body.  A stream without an id has
\* the default one.
UpstreamAnswers(r) ==
  /\ pc[r] = "posted"
  /\ \E k \in Completions, s \in BOOLEAN :
       /\ answer' = [answer EXCEPT ![r] =
            [id |-> IF named THEN r ELSE IF s THEN DefaultId ELSE NoId,
             output |-> IF s THEN StreamOutput(r, k) ELSE BodyOutput(r, k)]]
       /\ stream' = [stream EXCEPT ![r] = s]
       /\ Goto(r, IF s THEN "streaming" ELSE "answered")
  /\ UNCHANGED <<named, client, store, prev, input, posted, told, kept>>

\* A stream: the last event is written when [DONE] arrives.
FlushCompleted(r) ==
  /\ pc[r] = "streaming"
  /\ ~told[r]
  /\ told' = [told EXCEPT ![r] = TRUE]
  /\ UNCHANGED <<named, client, store, pc, prev, input, posted, stream, answer, kept>>

\* The upstream ends its stream, which may be the reason for the last event;
\* only now the calls are recorded.
StreamEnds(r) ==
  /\ pc[r] = "streaming"
  /\ store' = recordResponsePayload(answer[r])
  /\ told' = [told EXCEPT ![r] = TRUE]
  /\ kept' = [kept EXCEPT ![r] = TRUE]
  /\ Goto(r, "over")
  /\ UNCHANGED <<named, client, prev, input, posted, stream, answer>>

\* A read or write error, or an upstream that neither sends nor closes: the
\* handler returns without recording, after the last event or before.
StreamFails(r) ==
  /\ pc[r] = "streaming"
  /\ Goto(r, "over")
  /\ UNCHANGED <<named, client, store, prev, input, posted, stream, answer, told, kept>>

\* A body: recorded, then written.
RecordBody(r) ==
  /\ pc[r] = "answered"
  /\ store' = recordResponsePayload(answer[r])
  /\ kept' = [kept EXCEPT ![r] = TRUE]
  /\ Goto(r, "recorded")
  /\ UNCHANGED <<named, client, prev, input, posted, stream, answer, told>>

WriteBody(r) ==
  /\ pc[r] = "recorded"
  /\ told' = [told EXCEPT ![r] = TRUE]
  /\ Goto(r, "over")
  /\ UNCHANGED <<named, client, store, prev, input, posted, stream, answer, kept>>

\* The write fails: to proxyHandler the attempt has failed.
WriteBodyFails(r) ==
  /\ pc[r] = "recorded"
  /\ store' = [i \in DOMAIN store \ {r} |-> store[i]]
  /\ kept' = [kept EXCEPT ![r] = FALSE]
  /\ Goto(r, "received") \/ Goto(r, "over")
  /\ UNCHANGED <<named, client, prev, input, posted, stream, answer, told>>

Init ==
  /\ named \in Manners
  /\ client \in Clients
  /\ store = <<>>
  /\ pc = [r \in Requests |-> "idle"]
  /\ prev = [r \in Requests |-> None]
  /\ input = [r \in Requests |-> <<>>]
  /\ posted = [r \in Requests |-> <<>>]
  /\ stream = [r \in Requests |-> FALSE]
  /\ answer = [r \in Requests |-> NoAnswer]
  /\ told = [r \in Requests |-> FALSE]
  /\ kept = [r \in Requests |-> FALSE]

Next ==
  \E r \in Requests :
    \/ SendRequest(r) \/ PostRequest(r) \/ AttemptFails(r) \/ UpstreamAnswers(r)
    \/ FlushCompleted(r) \/ StreamEnds(r) \/ StreamFails(r)
    \/ RecordBody(r) \/ WriteBody(r) \/ WriteBodyFails(r)

Spec == Init /\ [][Next]_vars

-----------------------------------------------------------------------------
(* Properties.                                                             *)

Posts(r) == pc[r] = "received" /\ pc'[r] = "posted"

\* Every result in what goes upstream is for a call before it.
Answered(items) ==
  \A i \in DOMAIN items : items[i].type = "function_call_output" =>
    \E j \in 1..(i - 1) : items[j].type = "function_call" /\ items[j].id = items[i].id

\* It is for one call, and no other has its id.
Complete(items) ==
  /\ Answered(items)
  /\ \A i, j, k \in DOMAIN items :
       /\ items[i].type = "function_call_output"
       /\ items[j].type = "function_call" /\ items[k].type = "function_call"
       /\ items[j].id = items[i].id /\ items[k].id = items[i].id
       => j = k

\* A request that refers to a response the client got as one body, or one that
\* has been recorded, goes upstream with the calls for its results.
CallsRestored ==
  [][\A r \in Requests :
       /\ named /\ ~client.replays
       /\ Posts(r)
       /\ prev[r] # None => ~stream[prev[r]] \/ kept[prev[r]]
       => Complete(posted'[r])]_vars

\* The calls restored are those of the response referred to, in their order,
\* even when another response has calls of the same ids; the rest of the
\* input goes upstream as it came.
CallsBelong ==
  named /\ ~client.replays => \A r \in Requests :
    LET own == {i \in DOMAIN posted[r] : posted[r][i].by = Client}
        restored == Picked(posted[r], DOMAIN posted[r] \ own) IN
    /\ Picked(posted[r], own) \in {input[r], <<>>}
    /\ restored # <<>> =>
         /\ prev[r] # None
         /\ \A i, j \in DOMAIN restored : i < j =>
              \E k, l \in DOMAIN answer[prev[r]].output :
                k < l /\ answer[prev[r]].output[k] = restored[i] /\ answer[prev[r]].output[l] = restored[j]
         /\ \A i \in DOMAIN restored : restored[i].by = prev[r]

\* What an upstream asks of a chat: one system message at most, at the head, and after a message
\* with calls a result for each of them, and none elsewhere.
Valid(ms) ==
  /\ \A i \in DOMAIN ms : ms[i].role = "system" => i = 1
  /\ \A i \in DOMAIN ms : ms[i].calls # <<>> =>
       LET after == i + 1 .. i + Len(ms[i].calls) IN
       /\ after \subseteq DOMAIN ms
       /\ \A j \in after : ms[j].role = "tool"
       /\ {ms[j].id : j \in after} = {ms[i].calls[k].id : k \in DOMAIN ms[i].calls}
  /\ \A j \in DOMAIN ms : ms[j].role = "tool" =>
       \E i \in 1 .. j - 1 : i + Len(ms[i].calls) >= j

\* Whoever replays or refers, in whatever order results come, and with notes of the developer among
\* them: the chat is one the upstream accepts, if no result is blank and no call is missing.
ChatValid ==
  [][\A r \in Requests :
       LET items == posted'[r] IN
       /\ Posts(r)
       /\ Answered(items)
       /\ \A i \in DOMAIN items : items[i].type = "function_call_output" => items[i].full
       => Valid(ToMessages(items))]_vars

ThoughtOf(p) == FlattenSeq([i \in DOMAIN CallItems(answer[p].output) |-> CallItems(answer[p].output)[i].thought])

KeptIn(p, items) ==
  LET ms == ToMessages(items)
      of(m) == m.text = <<Piece(p, "text")>> \/ \E k \in DOMAIN m.calls : m.calls[k].by = p
      its == {i \in DOMAIN ms : ms[i].role = "assistant" /\ of(ms[i])}
      from == Picked(items, {i \in DOMAIN items : items[i].by = p})
      calls == CallItems(from)
      spoken == \E i \in DOMAIN from : from[i].type = "message" /\ from[i].full IN
  spoken \/ calls # <<>> =>
    \E i \in its :
      /\ its = {i}
      /\ (ms[i].text # <<>>) = spoken
      /\ Picked(ms[i].calls, {k \in DOMAIN ms[i].calls : ms[i].calls[k].by = p}) = [k \in DOMAIN calls |-> ToolCall(calls[k])]
      /\ calls # <<>> /\ (client.carries \/ ~client.replays) =>
           ToSet(ThoughtOf(p)) \subseteq ToSet(ms[i].thought)

\* Each earlier answer in a request is again the one message of the assistant that it was: with its
\* text, if there was any, all its calls in their order, and the reasoning those came with.
TurnsKept ==
  [][\A r \in Requests :
       Posts(r) =>
         \A p \in {posted'[r][i].by : i \in DOMAIN posted'[r]} \ {Client} : KeptIn(p, posted'[r])]_vars

-----------------------------------------------------------------------------
(* What the repository says and the code does not do.                      *)

\* docs/plans/2026-05-30-proxy-protocol-compatibility-v2-design.md: the recovery
\* of tool calls through previous_response_id is preserved, for streams too.
RecoveryPreserved ==
  \A r \in Requests : pc[r] = "posted" => Complete(posted[r])
============================================================================
