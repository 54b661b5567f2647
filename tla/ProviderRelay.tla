--------------------------- MODULE ProviderRelay ---------------------------
(***************************************************************************)
(* The relay of services/providerrelay.go: proxyHandler walks the          *)
(* providers that can serve a request until one of them answers, and       *)
(* forwardRequest makes one attempt.  Every request is a handler goroutine *)
(* of its own; what handlers share is the provider list and the settings   *)
(* file, both of which the UI may rewrite while requests are under way.    *)
(*                                                                         *)
(* Payloads are abstracted to the attempt they come from: attempt n of a   *)
(* request is the number n, the relay's own error messages are Local.      *)
(***************************************************************************)
EXTENDS Integers, Sequences, FiniteSets

CONSTANTS
  Requests,      \* requests (handler goroutines)
  Catalogs,      \* the provider lists the UI may save
  SettingsSpace, \* the contents app.json may have
  Replies        \* the response heads an upstream may send

HeaderKeys == {"Status", "Content-Type", "Content-Length"}

\* usable: enabled, with URL and key, and a valid configuration.
\* supports: IsModelSupported holds of the requested model.
\* mapped: GetEffectiveModel renames the requested model.
Provider == [usable : BOOLEAN, supports : BOOLEAN, mapped : BOOLEAN, deepseek : BOOLEAN]

\* readable: GetAppSettings returns no error.
Settings == [readable : BOOLEAN, fallback : BOOLEAN, max : Nat, rectifier : BOOLEAN]

\* sse: the Content-Type is text/event-stream; keys: the entity headers sent;
\* rectifiable: the error body asks for a change of the request's thinking blocks.
Reply == [code : Nat, sse : BOOLEAN, keys : SUBSET HeaderKeys, rectifiable : BOOLEAN]

\* json: the body is valid JSON; named: it names a model.
Request == [route : {"messages", "responses", "chat"}, stream : BOOLEAN,
            named : BOOLEAN, json : BOOLEAN]

ASSUME CatalogsAssumption == Catalogs \subseteq Seq(Provider) /\ Catalogs # {}
ASSUME SettingsAssumption == SettingsSpace \subseteq Settings /\ SettingsSpace # {}
\* A status of 0 stands for no response.
ASSUME RepliesAssumption == Replies \subseteq Reply /\ \A rep \in Replies : rep.code # 0

VARIABLES
  settings,  \* app.json as GetAppSettings reads it
  catalog,   \* the saved provider list
  pc,        \* where each handler is
  req,       \* the request it serves
  list,      \* the provider list it loaded
  rest,      \* positions of list it may still try
  limit,     \* maxAttempts
  attempts,  \* attemptCount
  pos,       \* position of the provider of the current attempt
  cur,       \* the response head of the current attempt
  retried,   \* the current response answers a rectified request
  code,      \* requestLog.HttpCode of the current attempt
  lastUp,    \* lastUpstreamErr
  w,         \* the gin response writer
  trace,     \* every POST made upstream and its reply
  rows       \* the request_log rows written for the request

shared  == <<settings, catalog>>
loop    == <<list, rest, limit>>
attempt == <<attempts, pos, cur, retried, code>>
vars    == <<shared, pc, req, loop, attempt, lastUp, w, trace, rows>>

Unset == -1
Local == 0
NoReply == [code |-> 0, sse |-> FALSE, keys |-> {}, rectifiable |-> FALSE]
NoRequest == [route |-> "chat", stream |-> FALSE, named |-> FALSE, json |-> FALSE]
NoError == [attempt |-> Local, keys |-> {}]

\* An upstream is connected to and sent the request, or has been sent it; the retry is the rectified one.
Sending == {"post", "rectify"}
Sent    == {"sent", "resent"}
Retry(l) == l \in {"rectify", "resent"}

Labels == {"idle", "received", "loaded", "loop", "body", "error", "stream", "done"} \cup Sending \cup Sent

Source == Nat \cup {Unset}
Writer == {wr \in [hdr : [HeaderKeys -> Source], written : BOOLEAN, broken : BOOLEAN, body : Source] :
             wr.broken => wr.written}
Post   == [attempt : Nat, pos : Nat, code : Nat, rectifiable : BOOLEAN, retry : BOOLEAN]
Row    == [attempt : Nat, code : Nat]

TypeOK ==
  /\ settings \in SettingsSpace
  /\ catalog \in Catalogs
  /\ pc \in [Requests -> Labels]
  /\ req \in [Requests -> Request]
  /\ list \in [Requests -> Seq(Provider)]
  /\ rest \in [Requests -> SUBSET Nat]
  /\ \A r \in Requests : rest[r] \subseteq 1..Len(list[r])
  /\ limit \in [Requests -> Nat]
  /\ attempts \in [Requests -> Nat]
  /\ pos \in [Requests -> Nat]
  /\ cur \in [Requests -> Reply]
  /\ retried \in [Requests -> BOOLEAN]
  /\ code \in [Requests -> Nat]
  /\ lastUp \in [Requests -> [attempt : Nat, keys : SUBSET HeaderKeys]]
  /\ w \in [Requests -> Writer]
  /\ trace \in [Requests -> Seq(Post)]
  /\ rows \in [Requests -> Seq(Row)]

-----------------------------------------------------------------------------
(* Decisions of the code.                                                  *)

Success(c) == 200 <= c /\ c < 300

Claude(q) == q.route = "messages"

\* forwardRequest hands the attempt to forwardDeepSeekCodexRequest.
Adapted(q, p) == q.route = "responses" /\ p.deepseek

Eligible(q, p) == p.usable /\ (q.named => p.supports)

NonRetryable(c) == c \in {400, 405, 406, 413, 414, 415, 422, 501}

maxFallbackAttempts == 50

\* Mutation: no normalization, 0 means "no limit" and is passed on as -1.
AttemptLimit_Raw(n, s) ==
  IF ~s.readable \/ s.fallback THEN (IF s.max = 0 THEN -1 ELSE s.max) ELSE 1

\* The attempts allowed over n providers; unreadable settings are the defaults.
AttemptLimit(n, s) ==
  LET max == IF s.max > maxFallbackAttempts THEN maxFallbackAttempts ELSE s.max IN
  IF ~s.readable THEN n
  ELSE IF ~s.fallback THEN 1
  ELSE IF max = 0 \/ max > n THEN n ELSE max

RectifierEnabled(s) == s.readable => s.rectifier

-----------------------------------------------------------------------------
(* The gin response writer.  Headers and status set after the head went    *)
(* out have no effect; a failed write leaves the connection unusable, with *)
(* or without part of its bytes delivered.                                 *)

PutHeaders(wr, keys, src) ==
  IF wr.written THEN wr
  ELSE [wr EXCEPT !.hdr = [k \in HeaderKeys |-> IF k \in keys THEN src ELSE wr.hdr[k]]]

\* c.Data and c.JSON keep a Content-Type that is already set.
PutLocalHeaders(wr) ==
  PutHeaders(wr, {"Status"} \cup
    {k \in {"Content-Type"} : wr.hdr["Content-Type"] = Unset}, Local)

Delivered(wr, src) == [wr EXCEPT !.written = TRUE, !.body = src]
Failed(wr)         == [wr EXCEPT !.written = TRUE, !.broken = TRUE]

\* What the writer may be after Write was given bytes of src.
Writes(wr, src) ==
  IF wr.broken THEN {wr}
  ELSE {Delivered(wr, src), Failed(wr), Failed(Delivered(wr, src))}

LocalErrorAnswer(r) ==
  \E wr \in Writes(PutLocalHeaders(w[r]), Local) : w' = [w EXCEPT ![r] = wr]

\* writeUpstreamError; a body that was passed through may be empty.
UpstreamErrorAnswer(r, err) ==
  LET head == PutHeaders(w[r], err.keys, err.attempt) IN
  \/ \E wr \in Writes(head, err.attempt) : w' = [w EXCEPT ![r] = wr]
  \/ ~Claude(req[r]) /\ w' = [w EXCEPT ![r] = head]

-----------------------------------------------------------------------------
Goto(r, l) == pc' = [pc EXCEPT ![r] = l]

\* The deferred insert into request_log, which may fail.
LogRow(r) ==
  \/ rows' = [rows EXCEPT ![r] = Append(@, [attempt |-> attempts[r], code |-> code[r]])]
  \/ UNCHANGED rows

\* forwardRequest returned (false, err) with no upstream error in err.
AttemptFails(r) ==
  /\ LogRow(r)
  /\ Goto(r, "loop")
  /\ UNCHANGED lastUp

\* forwardRequest returned (true, _): proxyHandler returns.
AttemptServes(r) ==
  /\ LogRow(r)
  /\ Goto(r, "done")
  /\ UNCHANGED lastUp

RecordPost(r, c, rect, again) ==
  trace' = [trace EXCEPT ![r] = Append(@,
    [attempt |-> attempts[r], pos |-> pos[r], code |-> c, rectifiable |-> rect, retry |-> again])]

ProviderOf(r) == list[r][pos[r]]

-----------------------------------------------------------------------------
(* proxyHandler before its loop.                                           *)

ReceiveRequest(r) ==
  /\ pc[r] = "idle"
  /\ \E q \in Request : req' = [req EXCEPT ![r] = q]
  /\ Goto(r, "received")
  /\ UNCHANGED <<shared, loop, attempt, lastUp, w, trace, rows>>

\* The body or the provider list cannot be read.
RefuseRequest(r) ==
  /\ pc[r] = "received"
  /\ LocalErrorAnswer(r)
  /\ Goto(r, "done")
  /\ UNCHANGED <<shared, req, loop, attempt, lastUp, trace, rows>>

LoadProviders(r) ==
  /\ pc[r] = "received"
  /\ list' = [list EXCEPT ![r] = catalog]
  /\ LET active == {i \in 1..Len(catalog) : Eligible(req[r], catalog[i])} IN
       /\ rest' = [rest EXCEPT ![r] = active]
       /\ \/ active # {} /\ Goto(r, "loaded") /\ UNCHANGED w
          \/ active = {} /\ LocalErrorAnswer(r) /\ Goto(r, "done")
  /\ UNCHANGED <<shared, req, limit, attempt, lastUp, trace, rows>>

ReadAttemptLimit(r) ==
  /\ pc[r] = "loaded"
  /\ limit' = [limit EXCEPT ![r] = AttemptLimit(Cardinality(rest[r]), settings)]
  /\ Goto(r, "loop")
  /\ UNCHANGED <<shared, req, list, rest, attempt, lastUp, w, trace, rows>>

-----------------------------------------------------------------------------
(* The loop over the active providers.                                     *)

LoopEnds(r) == attempts[r] >= limit[r] \/ rest[r] = {}

\* Mutation: the last provider is tried first.
First_Last(S) == CHOOSE i \in S : \A j \in S : j <= i

First(S) == CHOOSE i \in S : \A j \in S : i <= j

\* The next provider, in list order.  A model that cannot be put into the
\* body uses up the attempt.
NextProvider(r) ==
  /\ pc[r] = "loop"
  /\ ~LoopEnds(r)
  /\ LET i == First(rest[r]) IN
       /\ pos' = [pos EXCEPT ![r] = i]
       /\ rest' = [rest EXCEPT ![r] = @ \ {i}]
       /\ \/ Goto(r, "post")
          \/ list[r][i].mapped /\ req[r].named /\ ~req[r].json /\ UNCHANGED pc
  /\ attempts' = [attempts EXCEPT ![r] = @ + 1]
  /\ code' = [code EXCEPT ![r] = 0]
  /\ retried' = [retried EXCEPT ![r] = FALSE]
  /\ UNCHANGED <<shared, req, list, limit, cur, lastUp, w, trace, rows>>

\* Every attempt failed: the last upstream error is passed on, or a local 400.
AllFailed(r) ==
  /\ pc[r] = "loop"
  /\ LoopEnds(r)
  /\ IF lastUp[r] = NoError THEN LocalErrorAnswer(r) ELSE UpstreamErrorAnswer(r, lastUp[r])
  /\ Goto(r, "done")
  /\ UNCHANGED <<shared, req, loop, attempt, lastUp, trace, rows>>

-----------------------------------------------------------------------------
(* forwardRequest and forwardDeepSeekCodexRequest: one attempt.            *)

\* The Responses request cannot be turned into a chat completion.
TranslationFails(r) ==
  /\ pc[r] = "post"
  /\ Adapted(req[r], ProviderOf(r))
  /\ AttemptFails(r)
  /\ UNCHANGED <<shared, req, loop, attempt, w, trace>>

\* The upstream has taken the whole request: from here the header timeout runs.
SendRequest(r) ==
  /\ pc[r] \in Sending
  /\ Goto(r, IF Retry(pc[r]) THEN "resent" ELSE "sent")
  /\ UNCHANGED <<shared, req, loop, attempt, lastUp, w, trace, rows>>

\* Mutation: a failure without response forgets the error of an earlier one.
PostFails_ForgetsError(r) ==
  /\ pc[r] \in Sending \cup Sent
  /\ RecordPost(r, 0, FALSE, Retry(pc[r]))
  /\ LogRow(r)
  /\ Goto(r, "loop")
  /\ lastUp' = [lastUp EXCEPT ![r] = NoError]
  /\ UNCHANGED <<shared, req, loop, attempt, w>>

\* No response: a connection error or the header timeout.
PostFails(r) ==
  /\ pc[r] \in Sending \cup Sent
  /\ RecordPost(r, 0, FALSE, Retry(pc[r]))
  /\ AttemptFails(r)
  /\ UNCHANGED <<shared, req, loop, attempt, w>>

\* Mutation: the status of the rectified retry is not logged.
PostAnswered_KeepsCode(r) ==
  /\ pc[r] \in Sending \cup Sent
  /\ \E rep \in Replies :
       /\ RecordPost(r, rep.code, rep.rectifiable, Retry(pc[r]))
       /\ cur' = [cur EXCEPT ![r] = rep]
       /\ code' = [code EXCEPT ![r] = IF Retry(pc[r]) THEN @ ELSE rep.code]
       /\ Goto(r, IF Success(rep.code) THEN "body" ELSE "error")
  /\ retried' = [retried EXCEPT ![r] = Retry(pc[r])]
  /\ UNCHANGED <<shared, req, loop, attempts, pos, lastUp, w, rows>>

\* An upstream may answer before it has taken the whole request.
PostAnswered(r) ==
  /\ pc[r] \in Sending \cup Sent
  /\ \E rep \in Replies :
       /\ RecordPost(r, rep.code, rep.rectifiable, Retry(pc[r]))
       /\ cur' = [cur EXCEPT ![r] = rep]
       /\ code' = [code EXCEPT ![r] = rep.code]
       /\ Goto(r, IF Success(rep.code) THEN "body" ELSE "error")
  /\ retried' = [retried EXCEPT ![r] = Retry(pc[r])]
  /\ UNCHANGED <<shared, req, loop, attempts, pos, lastUp, w, rows>>

(* A 2xx response.                                                         *)

\* writeUpstreamResponse, not an event stream: status and headers are put
\* before the body is read.
PassBodyFails(r) ==
  /\ pc[r] = "body"
  /\ ~Adapted(req[r], ProviderOf(r))
  /\ ~cur[r].sse
  /\ w' = [w EXCEPT ![r] = PutHeaders(@, cur[r].keys \cup {"Status"}, attempts[r])]
  /\ AttemptFails(r)
  /\ UNCHANGED <<shared, req, loop, attempt, trace>>

PassBody(r) ==
  /\ pc[r] = "body"
  /\ ~Adapted(req[r], ProviderOf(r))
  /\ ~cur[r].sse
  /\ LET head == PutHeaders(w[r], cur[r].keys \cup {"Status"}, attempts[r]) IN
       \E wr \in Writes(head, attempts[r]) \cup {head} : w' = [w EXCEPT ![r] = wr]
  /\ AttemptServes(r)
  /\ UNCHANGED <<shared, req, loop, attempt, trace>>

\* writeStreamResponse and streamDeepSeekChatSSEToResponses: the stream ends,
\* fails or stays silent before its first line or event.
StreamFailsFirst(r) ==
  /\ pc[r] = "body"
  /\ cur[r].sse
  /\ \/ ~Adapted(req[r], ProviderOf(r)) /\ UNCHANGED w
     \/ /\ Adapted(req[r], ProviderOf(r)) /\ req[r].stream
        /\ w' = [w EXCEPT ![r] = PutHeaders(@, {"Content-Type"}, attempts[r])]
  /\ AttemptFails(r)
  /\ UNCHANGED <<shared, req, loop, attempt, trace>>

\* A single line with no newline is served as JSON without entity headers.
PassStreamSingleLine(r) ==
  /\ pc[r] = "body"
  /\ ~Adapted(req[r], ProviderOf(r))
  /\ cur[r].sse
  /\ LET keys == (cur[r].keys \ {"Content-Length"}) \cup {"Status", "Content-Type"} IN
       \E wr \in Writes(PutHeaders(w[r], keys, attempts[r]), attempts[r]) :
         w' = [w EXCEPT ![r] = wr]
  /\ AttemptServes(r)
  /\ UNCHANGED <<shared, req, loop, attempt, trace>>

\* The first line or event goes out; when the write fails the attempt is over.
StreamFirst(r) ==
  /\ pc[r] = "body"
  /\ cur[r].sse
  /\ Adapted(req[r], ProviderOf(r)) => req[r].stream
  /\ LET keys == IF Adapted(req[r], ProviderOf(r)) THEN {"Content-Type"}
                 ELSE cur[r].keys \cup {"Status"} IN
     \E wr \in Writes(PutHeaders(w[r], keys, attempts[r]), attempts[r]) :
       /\ w' = [w EXCEPT ![r] = wr]
       /\ \/ ~wr.broken /\ Goto(r, "stream") /\ UNCHANGED <<lastUp, rows>>
          \/ wr.broken /\ AttemptServes(r)
  /\ UNCHANGED <<shared, req, loop, attempt, trace>>

\* A later line or event; the client may leave.
StreamMore(r) ==
  /\ pc[r] = "stream"
  /\ \E wr \in Writes(w[r], attempts[r]) :
       /\ w' = [w EXCEPT ![r] = wr]
       /\ \/ ~wr.broken /\ UNCHANGED <<pc, lastUp, rows>>
          \/ wr.broken /\ AttemptServes(r)
  /\ UNCHANGED <<shared, req, loop, attempt, trace>>

\* Mutation: a stream that breaks off counts as a failed attempt.
StreamEnds_FailsOver(r) ==
  /\ pc[r] = "stream"
  /\ AttemptServes(r) \/ AttemptFails(r)
  /\ UNCHANGED <<shared, req, loop, attempt, w, trace>>

\* Mutation: a silent stream is waited for, there is no idle timeout.
StreamEnds_NoIdleTimeout(r) ==
  /\ pc[r] = "stream"
  /\ w[r].broken
  /\ AttemptServes(r)
  /\ UNCHANGED <<shared, req, loop, attempt, w, trace>>

\* The stream ends, fails or stays silent too long.
StreamEnds(r) ==
  /\ pc[r] = "stream"
  /\ AttemptServes(r)
  /\ UNCHANGED <<shared, req, loop, attempt, w, trace>>

Buffered(r) ==
  /\ pc[r] = "body"
  /\ Adapted(req[r], ProviderOf(r))
  /\ ~(cur[r].sse /\ req[r].stream)

\* The adapter reads and translates the whole body before it touches the writer.
AdaptBodyFails(r) ==
  /\ Buffered(r)
  /\ AttemptFails(r)
  /\ UNCHANGED <<shared, req, loop, attempt, w, trace>>

\* It returns err == nil, whatever was written.
AdaptBody(r) ==
  /\ Buffered(r)
  /\ \E wr \in Writes(PutHeaders(w[r], {"Content-Type"}, attempts[r]), attempts[r]) :
       /\ w' = [w EXCEPT ![r] = wr]
       /\ IF wr.broken THEN AttemptFails(r) ELSE AttemptServes(r)
  /\ UNCHANGED <<shared, req, loop, attempt, trace>>

(* Any other response.                                                     *)

\* retryClaudeThinkingRectifiedRequest looks at the settings again.
AsksRectification(r) ==
  /\ Claude(req[r])
  /\ ~retried[r]
  /\ RectifierEnabled(settings)
  /\ cur[r].rectifiable

RectifyRequest(r) ==
  /\ pc[r] = "error"
  /\ AsksRectification(r)
  /\ req[r].json
  /\ Goto(r, "rectify")
  /\ UNCHANGED <<shared, req, loop, attempt, lastUp, w, trace, rows>>

RectifyFails(r) ==
  /\ pc[r] = "error"
  /\ AsksRectification(r)
  /\ ~req[r].json
  /\ AttemptFails(r)
  /\ UNCHANGED <<shared, req, loop, attempt, w, trace>>

\* The header keys of the error passed on: a rebuilt body has a type of its own.
ErrorKeys(r) ==
  IF Claude(req[r]) \/ Adapted(req[r], ProviderOf(r))
  THEN (cur[r].keys \ {"Content-Length"}) \cup {"Status", "Content-Type"}
  ELSE cur[r].keys \cup {"Status"}

\* Mutation: only the first response of an attempt is checked for being final.
ReturnUpstreamError_FirstOnly(r) ==
  /\ pc[r] = "error"
  /\ AsksRectification(r) => req[r].json
  /\ LogRow(r)
  /\ LET err == [attempt |-> attempts[r], keys |-> ErrorKeys(r)] IN
       /\ lastUp' = [lastUp EXCEPT ![r] = err]
       /\ IF Claude(req[r]) /\ NonRetryable(cur[r].code) /\ ~retried[r]
            THEN UpstreamErrorAnswer(r, err) /\ Goto(r, "done")
            ELSE Goto(r, "loop") /\ UNCHANGED w
  /\ UNCHANGED <<shared, req, loop, attempt, trace>>

\* The request may already be as rectified: then nothing is retried.
ReturnUpstreamError(r) ==
  /\ pc[r] = "error"
  /\ AsksRectification(r) => req[r].json
  /\ LogRow(r)
  /\ LET err == [attempt |-> attempts[r], keys |-> ErrorKeys(r)] IN
       /\ lastUp' = [lastUp EXCEPT ![r] = err]
       /\ IF Claude(req[r]) /\ NonRetryable(cur[r].code)
            THEN UpstreamErrorAnswer(r, err) /\ Goto(r, "done")
            ELSE Goto(r, "loop") /\ UNCHANGED w
  /\ UNCHANGED <<shared, req, loop, attempt, trace>>

-----------------------------------------------------------------------------
(* The UI.                                                                 *)

SaveAppSettings ==
  /\ settings' \in SettingsSpace
  /\ UNCHANGED <<catalog, pc, req, loop, attempt, lastUp, w, trace, rows>>

SaveProviders ==
  /\ catalog' \in Catalogs
  /\ UNCHANGED <<settings, pc, req, loop, attempt, lastUp, w, trace, rows>>

Init ==
  /\ settings \in SettingsSpace
  /\ catalog \in Catalogs
  /\ pc = [r \in Requests |-> "idle"]
  /\ req = [r \in Requests |-> NoRequest]
  /\ list = [r \in Requests |-> <<>>]
  /\ rest = [r \in Requests |-> {}]
  /\ limit = [r \in Requests |-> 0]
  /\ attempts = [r \in Requests |-> 0]
  /\ pos = [r \in Requests |-> 0]
  /\ cur = [r \in Requests |-> NoReply]
  /\ retried = [r \in Requests |-> FALSE]
  /\ code = [r \in Requests |-> 0]
  /\ lastUp = [r \in Requests |-> NoError]
  /\ w = [r \in Requests |-> [hdr |-> [k \in HeaderKeys |-> Unset],
                             written |-> FALSE, broken |-> FALSE, body |-> Unset]]
  /\ trace = [r \in Requests |-> <<>>]
  /\ rows = [r \in Requests |-> <<>>]

\* The steps that bring a handler forward.
Progress(r) ==
  \/ RefuseRequest(r) \/ LoadProviders(r) \/ ReadAttemptLimit(r)
  \/ NextProvider(r) \/ AllFailed(r)
  \/ TranslationFails(r) \/ SendRequest(r) \/ PostFails(r) \/ PostAnswered(r)
  \/ PassBodyFails(r) \/ PassBody(r)
  \/ StreamFailsFirst(r) \/ PassStreamSingleLine(r) \/ StreamFirst(r)
  \/ StreamEnds(r)
  \/ AdaptBodyFails(r) \/ AdaptBody(r)
  \/ RectifyRequest(r) \/ RectifyFails(r) \/ ReturnUpstreamError(r)

Next ==
  \/ \E r \in Requests : ReceiveRequest(r) \/ Progress(r) \/ StreamMore(r)
  \/ SaveAppSettings
  \/ SaveProviders

Spec == Init /\ [][Next]_vars

\* Handlers are goroutines of their own.  What is waited for once an upstream has taken the request has a
\* timeout: the head of the answer, its body, the first line of a stream and every next one.  The transport
\* has none for the connection and for sending the request, so no step out of Sending is fair.  Assumed is
\* that a stream ends or falls silent, and that a client takes what it is sent or leaves.
FairSpec == Spec /\ \A r \in Requests : WF_vars(pc[r] \notin Sending /\ Progress(r))

-----------------------------------------------------------------------------
(* Properties.                                                             *)

LastOf(r, k) ==
  \A m \in (k + 1)..Len(trace[r]) : trace[r][m].attempt # trace[r][k].attempt

\* Attempt n of request r ended with a response that is not a success.
EndedInError(r, n) ==
  \E k \in 1..Len(trace[r]) :
    /\ trace[r][k].attempt = n
    /\ LastOf(r, k)
    /\ trace[r][k].code # 0 /\ ~Success(trace[r][k].code)

\* Every provider asked is the next eligible one of the list that was loaded,
\* and no more of them are asked than the settings allowed, although list and
\* settings are saved again meanwhile and skipped attempts count.  One is asked
\* a second time at most, by Claude requests only, right after it answered with
\* an error that asks for rectification.
TriesInOrder ==
  \A r \in Requests : \A k \in 1..Len(trace[r]) :
    LET p == trace[r][k]
        q == trace[r][k - 1]
    IN /\ Eligible(req[r], list[r][p.pos])
       /\ p.attempt = Cardinality({i \in 1..p.pos : Eligible(req[r], list[r][i])})
       /\ p.attempt <= limit[r]
       /\ ~p.retry => \A m \in 1..(k - 1) : trace[r][m].attempt < p.attempt
       /\ p.retry => /\ Claude(req[r]) /\ k > 1
                     /\ q.attempt = p.attempt /\ q.pos = p.pos /\ ~q.retry
                     /\ q.rectifiable /\ q.code # 0 /\ ~Success(q.code)

\* After an error that is final for Claude no other provider is asked, with one exception: the error was
\* followed by a rectified retry, and that got no response or one that is not final (providerrelay.go; what
\* a retry without a response returns is not the final error that led to it, and is no reason to stop).
NonRetryableStops ==
  \A r \in Requests : Claude(req[r]) /\ req[r].json =>
    \A m \in 1..Len(trace[r]) : \A k \in 1..(m - 1) :
      trace[r][m].attempt # trace[r][k].attempt /\ NonRetryable(trace[r][k].code) =>
        trace[r][k + 1].retry /\ ~NonRetryable(trace[r][k + 1].code)

\* An answered client is told the latest upstream error: the relay's own
\* message is used only if no attempt ended in one, and an error passed on is
\* never older than another attempt's.
LastUpstreamErrorKept ==
  \A r \in Requests :
    pc[r] = "done" /\ ~w[r].broken /\ req[r].json =>
      LET from == w[r].hdr["Status"] IN
      /\ from = Local => \A n \in 1..attempts[r] : ~EndedInError(r, n)
      /\ from > Local /\ EndedInError(r, from) =>
           \A n \in (from + 1)..attempts[r] : ~EndedInError(r, n)

\* Every request_log row belongs to an attempt of its own, in order, and has
\* the status of the last response the attempt got, 0 if it got none.
LogMatchesTraffic ==
  \A r \in Requests : \A k \in 1..Len(rows[r]) :
    LET row == rows[r][k]
        got == {m \in 1..Len(trace[r]) : trace[r][m].attempt = row.attempt /\ trace[r][m].code # 0}
    IN /\ \A m \in 1..(k - 1) : rows[r][m].attempt < row.attempt
       /\ row.code = IF got = {} THEN 0 ELSE trace[r][CHOOSE m \in got : \A l \in got : l <= m].code

\* Once bytes of an answer went out no other upstream is asked, unless the
\* client is lost.
StopsOnceWritten ==
  [][\A r \in Requests : w[r].written /\ ~w[r].broken => trace'[r] = trace[r]]_vars

\* The relay's answers to its clients are those of RelayAnswer.
Answers ==
  INSTANCE RelayAnswer WITH
    Source <- Nat,
    None <- Unset,
    phase <- [r \in Requests |-> IF pc[r] = "done" THEN "answered"
                                 ELSE IF w[r].written THEN "answering" ELSE "waiting"],
    from <- [r \in Requests |-> w[r].body]

AnswersOnce == Answers!Spec

\* Every request that is received is answered, or its client is gone, in the end, unless the handler is held
\* for ever by one upstream that cannot be connected to or does not take the request: no order of failures,
\* timeouts, retries and saves keeps a handler walking its list.
EveryRequestAnswered ==
  \A r \in Requests : pc[r] = "received" ~> (pc[r] = "done" \/ [](pc[r] \in Sending))

-----------------------------------------------------------------------------
(* What the repository says and the code does not do.                      *)

\* docs/plans/2026-05-29-proxy-api-compatibility.md: final failures return the
\* last upstream status, headers and body.  No header of another attempt is
\* among them.
FinalErrorUnmixed ==
  \A r \in Requests :
    w[r].body > Local /\ ~w[r].broken /\ EndedInError(r, w[r].body) =>
      \A k \in HeaderKeys : w[r].hdr[k] \in {w[r].body, Unset}

\* TestProxyHandlerDoesNotFallbackAfterStreamingBytesWritten: no other upstream
\* is called after bytes of a streaming answer were written.
NoFallbackAfterWrite ==
  [][\A r \in Requests : req[r].stream /\ w[r].written => trace'[r] = trace[r]]_vars
============================================================================
