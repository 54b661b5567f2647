----------------------------- MODULE RequestLog -----------------------------
(***************************************************************************)
(* What the relay keeps of its attempts.  forwardRequest (providerrelay.go *)
(* and, for the adapter, deepseek_adapter.go) counts the tokens that the   *)
(* answer reports, and captures the bodies (rawlog.go) while the settings  *)
(* ask for it.  When it returns it inserts a row into request_log and,     *)
(* with the id of the row, one into request_log_payload.                   *)
(*                                                                         *)
(* A body is its size; what is kept of it is the size of the prefix.  Of   *)
(* headers, models, durations and prices nothing is modelled.  Attempts    *)
(* run side by side; a crash of the program leaves the rows.               *)
(***************************************************************************)
EXTENDS LogStatistics, SequencesExt

CONSTANTS
  Slots,      \* places for attempts that run at a time
  Workloads,  \* what a behaviour may consist of
  Sizes,      \* sizes of the bodies that the relay makes itself
  DefaultMax  \* defaultRawLogMaxBytes

Forms == {"message", "top", "response", "chat", "none"}

\* A line of an answer: its size, and the usage it reports if any.
\* form: where the usage is: "message" in a message, "top" in the object itself,
\* "response" in a response, "chat" as a chat completion has it.
Line(size, form, tokens) == [size |-> size, form |-> form, tokens |-> tokens]

(* A workload: the zone, the hours it lasts, the number of attempts, in    *)
(* all and at a time, and of changes to the settings, the settings (those  *)
(* that cannot be read are as if off), and the plans.                      *)
(* A plan is what an attempt is for (its platform and          *)
(* provider, whether the adapter serves it and the client asks for a       *)
(* stream, the size of the client's body) and the answers it may get; the  *)
(* body of an answer that is no event stream is one line, and the upstream *)
(* of the adapter sends one only when asked to.  billed is the usage of    *)
(* the whole answer, whatever the lines say on the way.                    *)
ASSUME WorkloadsAssumption ==
  \A w \in Workloads :
    /\ w.settings \subseteq [capture : BOOLEAN, max : Int]
    /\ w.zone \in -HoursPerDay..HoursPerDay
    /\ w.hours \in Nat /\ w.attempts \in Nat /\ w.changes \in Nat
    /\ \A p \in w.plans :
         /\ p.platform \in {"claude", "codex"} /\ p.adapted \in BOOLEAN /\ p.stream \in BOOLEAN /\ p.request \in Nat
         /\ p.adapted => p.platform = "codex"
    /\ \A p \in w.plans : \A a \in p.answers :
         /\ a.lines \in Seq([size : Nat, form : Forms, tokens : [Kinds -> Nat]]) \ {<<>>}
         /\ a.billed \in [Kinds -> Nat]
         /\ a.sse \/ Len(a.lines) = 1
         /\ a.rectifiable => ~Success(a.code)
         /\ p.adapted /\ a.sse => p.stream
ASSUME SizesAssumption == Sizes \subseteq Nat /\ Sizes # {} /\ DefaultMax \in Nat \ {0}

VARIABLES
  load,      \* the workload
  clock,     \* the time, UTC
  settings,  \* CaptureRawLogs and RawLogMaxBytes
  attempt,   \* the attempts that run
  rows,      \* request_log, by id
  payloads,  \* request_log_payload, by the id of the row
  made, changes

vars == <<load, clock, settings, attempt, rows, payloads, made, changes>>

FirstHour == 3 * HoursPerDay
NoSettings == [capture |-> FALSE, max |-> 0]
NoAnswer == [code |-> 0, sse |-> FALSE, lines |-> <<Line(0, "none", NoTokens)>>, billed |-> NoTokens,
             rectifiable |-> FALSE]
NoPlan == [platform |-> "claude", provider |-> "none", adapted |-> FALSE, stream |-> FALSE, request |-> 0,
           answers |-> {}]

Bodies == {"request", "upstreamRequest", "response", "upstreamResponse"}

-----------------------------------------------------------------------------
(* The capture.  kept is what it has of each body; whole, which the code   *)
(* does not have, is what the body came to.                                *)

NoLog == [on |-> FALSE, max |-> 1, kept |-> [b \in Bodies |-> 0], whole |-> [b \in Bodies |-> 0],
          requestTruncated |-> FALSE, responseTruncated |-> FALSE]

normalizeRawLogMaxBytes(max) == IF max <= 0 THEN DefaultMax ELSE max

captureBounded(size, max) == IF size <= max THEN size ELSE max

Kept(log, body, size) ==
  [log EXCEPT !.kept[body] = captureBounded(size, log.max), !.whole[body] = size]

newRawLogCapture(s, size) ==
  IF ~s.capture THEN NoLog
  ELSE LET max == normalizeRawLogMaxBytes(s.max) IN
       [Kept([NoLog EXCEPT !.on = TRUE, !.max = max], "request", size) EXCEPT !.requestTruncated = size > max]

captureResponseBody(log, size) ==
  IF ~log.on THEN log
  ELSE [Kept(log, "response", size) EXCEPT !.responseTruncated = size > log.max]

\* Mutation: the mark is set to what this body says.
captureUpstreamRequestBody_Sets(log, size) ==
  IF ~log.on THEN log
  ELSE [Kept(log, "upstreamRequest", size) EXCEPT !.requestTruncated = size > log.max]

captureUpstreamRequestBody(log, size) ==
  IF ~log.on THEN log
  ELSE [Kept(log, "upstreamRequest", size) EXCEPT !.requestTruncated = @ \/ size > log.max]

captureUpstreamResponseBody(log, size) ==
  IF ~log.on THEN log
  ELSE [Kept(log, "upstreamResponse", size) EXCEPT !.responseTruncated = @ \/ size > log.max]

\* boundedRawLogBuffer.append; the buffer is cut from the first byte on that did not fit.
responseHook(log, size) ==
  IF ~log.on THEN log
  ELSE [log EXCEPT !.kept["response"] = captureBounded(@ + size, log.max),
                   !.whole["response"] = @ + size,
                   !.responseTruncated = @ \/ (size > 0 /\ size > log.max - log.kept["response"])]

-----------------------------------------------------------------------------
(* The tokens.                                                             *)

\* Mutation: the values are added up.
ClaudeCodeParseTokenUsageFromResponse_Adds(line, tokens) ==
  IF line.form = "message" THEN Plus(tokens, line.tokens)
  ELSE IF line.form = "top" THEN [Plus(tokens, line.tokens) EXCEPT !["cache"] = tokens["cache"]]
  ELSE tokens

\* Usage outside of a message is read without what was cached.
ClaudeCodeParseTokenUsageFromResponse(line, tokens) ==
  LET read == CASE line.form = "message" -> Kinds [] line.form = "top" -> {"input", "output"} [] OTHER -> {} IN
  [k \in Kinds |-> IF k \in read /\ line.tokens[k] > tokens[k] THEN line.tokens[k] ELSE tokens[k]]

\* A chat completion names its tokens otherwise.
CodexParseTokenUsageFromResponse(line, tokens) ==
  IF line.form \in {"response", "top"} THEN Plus(tokens, line.tokens) ELSE tokens

Parsed(plan, line, tokens) ==
  IF plan.platform = "codex" THEN CodexParseTokenUsageFromResponse(line, tokens)
  ELSE ClaudeCodeParseTokenUsageFromResponse(line, tokens)

\* What the adapter knows of the usage after the first n chunks: what the last of them has said.
Known(a, n) ==
  LET told == {i \in 1..n : a.lines[i].form = "chat"} IN
  IF told = {} THEN NoTokens ELSE a.lines[Max(told)].tokens

(* How an upstream reports what it bills.  A chat does in the last chunk   *)
(* that tells of it.  Codex reports once.  Claude reports on the way, in   *)
(* messages and outside of them, and never more of a kind than it bills,   *)
(* which it does report; what was cached stands in a message of a stream.  *)
Reports(p, a) ==
  LET of(forms) == {i \in DOMAIN a.lines : a.lines[i].form \in forms}
      reports(k) == of(IF k = "cache" THEN {"message"} ELSE {"message", "top"})
  IN /\ p.adapted => Known(a, Len(a.lines)) = a.billed
     /\ ~p.adapted /\ p.platform = "codex" =>
          /\ of({"message"}) = {}
          /\ \A i, j \in of({"response", "top"}) : i = j /\ a.lines[i].tokens = a.billed
     /\ p.platform = "claude" =>
          /\ of(IF a.sse THEN {"response"} ELSE {"response", "message"}) = {}
          /\ of({"message", "top"}) # {} =>
               \A k \in IF a.sse THEN Kinds ELSE Kinds \ {"cache"} :
                 /\ \A i \in reports(k) : a.lines[i].tokens[k] <= a.billed[k]
                 /\ a.billed[k] = 0 \/ \E i \in reports(k) : a.lines[i].tokens[k] = a.billed[k]

ASSUME BilledAssumption ==
  \A w \in Workloads : \A p \in w.plans : \A a \in p.answers : Success(a.code) => Reports(p, a)

Streams(plan, a) == plan.stream /\ a.sse

\* The usage of the response at the time it is announced to the client.
Announced(plan, a) ==
  IF Streams(plan, a) THEN Known(a, 1) ELSE IF plan.stream THEN Known(a, Len(a.lines)) ELSE NoTokens

\* A translated answer is parsed as a passed one is: of a stream the events created, in_progress and
\* completed carry the usage, otherwise the body.
Translated(plan, a, tokens) ==
  LET parse(form, usage, t) == CodexParseTokenUsageFromResponse(Line(0, form, usage), t)
      started == Announced(plan, a)
      whole == Known(a, Len(a.lines))
  IN IF plan.stream
     THEN parse("response", whole, parse("response", started, parse("response", started, tokens)))
     ELSE parse("top", whole, tokens)

-----------------------------------------------------------------------------
Free == [at |-> "free", id |-> 0, plan |-> NoPlan, answer |-> NoAnswer, read |-> 0, come |-> 0, retried |-> FALSE,
         code |-> 0, tokens |-> NoTokens, log |-> NoLog, done |-> FALSE, row |-> 0]

Steps == {"free", "ask", "body", "error", "row", "payload"}

Init ==
  /\ load \in Workloads
  /\ clock = FirstHour
  /\ settings \in load.settings
  /\ attempt = [s \in Slots |-> Free]
  /\ rows = <<>>
  /\ payloads = <<>>
  /\ made = 0 /\ changes = 0

Goes(s, a) == attempt' = [attempt EXCEPT ![s] = a]
Local(s, a) == Goes(s, a) /\ UNCHANGED <<load, clock, settings, rows, payloads, made, changes>>

\* forwardRequest; the adapter translates the request, which may fail, before it asks.
Start(s, p) ==
  LET log == newRawLogCapture(settings, p.request)
      a == [Free EXCEPT !.at = "ask", !.id = made + 1, !.plan = p, !.log = log]
  IN /\ attempt[s].at = "free"
     /\ Cardinality({r \in Slots : attempt[r].at # "free"}) < load.atOnce
     /\ made < load.attempts
     /\ made' = made + 1
     /\ IF p.adapted
        THEN \/ \E n \in Sizes : Goes(s, [a EXCEPT !.log = captureUpstreamRequestBody(log, n)])
             \/ Goes(s, [a EXCEPT !.at = "row"])
        ELSE Goes(s, a)
     /\ UNCHANGED <<load, clock, settings, rows, payloads, changes>>

\* postUpstream fails; after a rectified request the row keeps the code of the first answer.
PostFails(s) ==
  /\ attempt[s].at = "ask"
  /\ Local(s, [attempt[s] EXCEPT !.at = "row"])

AnswerArrives(s, answer) ==
  /\ attempt[s].at = "ask"
  /\ answer \in attempt[s].plan.answers
  /\ Local(s, [attempt[s] EXCEPT !.at = IF Success(answer.code) THEN "body" ELSE "error",
                                 !.code = answer.code, !.answer = answer])

\* A line of a body that is passed through goes through both hooks and then to the client; a body
\* that is no event stream is read to its end first.  The adapter holds what comes.
ReadLine(s) ==
  LET a == attempt[s]
      line == a.answer.lines[a.read + 1]
  IN /\ a.at = "body"
     /\ a.read < Len(a.answer.lines)
     /\ Local(s, IF a.plan.adapted THEN [a EXCEPT !.read = @ + 1, !.come = @ + line.size]
                 ELSE [a EXCEPT !.read = @ + 1,
                                !.log = responseHook(a.log, line.size),
                                !.tokens = Parsed(a.plan, line, @)])

EndBody(s) ==
  LET a == attempt[s] IN
  /\ a.at = "body"
  /\ ~a.plan.adapted
  /\ a.read = Len(a.answer.lines)
  /\ Local(s, [a EXCEPT !.at = "row", !.done = TRUE])

\* The adapter has all of the body: what came is kept first, the translation of it, of n bytes, last.
Translate(s) ==
  LET a == attempt[s] IN
  /\ a.at = "body"
  /\ a.plan.adapted
  /\ a.read = Len(a.answer.lines)
  /\ \E n \in Sizes :
       Local(s, [a EXCEPT !.at = "row", !.done = TRUE,
                          !.log = captureResponseBody(captureUpstreamResponseBody(a.log, a.come), n),
                          !.tokens = Translated(a.plan, a.answer, @)])

\* The upstream or the client goes away.  The adapter keeps what it has of a stream, and nothing
\* of a body; it counts nothing.
BodyBreaks(s) ==
  LET a == attempt[s] IN
  /\ a.at = "body"
  /\ IF a.plan.adapted /\ Streams(a.plan, a.answer)
     THEN \E n \in Sizes \cup {0} :
            Local(s, [a EXCEPT !.at = "row",
                               !.log = captureResponseBody(captureUpstreamResponseBody(a.log, a.come), n)])
     ELSE Local(s, [a EXCEPT !.at = "row"])

\* retryClaudeThinkingRectifiedRequest: once, if the setting for it allows.
AsksAgain(s) ==
  LET a == attempt[s] IN
  /\ a.at = "error"
  /\ a.plan.platform = "claude" /\ a.answer.rectifiable /\ ~a.retried
  /\ \E n \in Sizes :
       Local(s, [a EXCEPT !.at = "ask", !.retried = TRUE,
                          !.log = captureUpstreamRequestBody(a.log, n)])

\* The error body, of which any part may have come, and what the client is told in its place, of n bytes.
EndError(s) ==
  LET a == attempt[s]
      rewritten == a.plan.adapted \/ a.plan.platform = "claude"
  IN /\ a.at = "error"
     /\ \E came \in {0, a.answer.lines[1].size} :
          IF rewritten
          THEN \E n \in Sizes :
                 Local(s, [a EXCEPT !.at = "row",
                             !.log = captureUpstreamResponseBody(captureResponseBody(a.log, n), came)])
          ELSE Local(s, [a EXCEPT !.at = "row", !.log = captureResponseBody(a.log, came)])

\* The deferred insert, on every way out.  id, done, plan and answer are not in the table.
InsertRow(s) ==
  LET a == attempt[s]
      row == [time |-> clock, platform |-> a.plan.platform, provider |-> a.plan.provider, code |-> a.code,
              tokens |-> a.tokens, id |-> a.id, done |-> a.done, plan |-> a.plan, answer |-> a.answer]
  IN /\ a.at = "row"
     /\ rows' = Append(rows, row)
     /\ Goes(s, IF a.log.on THEN [a EXCEPT !.at = "payload", !.row = Len(rows) + 1] ELSE Free)
     /\ UNCHANGED <<load, clock, settings, payloads, made, changes>>

\* Mutation: under the id of the last row of the table.
InsertPayload_Last(s) ==
  LET a == attempt[s] IN
  /\ a.at = "payload"
  /\ payloads' = [i \in DOMAIN payloads \cup {Len(rows)} |->
                    IF i = Len(rows) THEN [log |-> a.log, id |-> a.id] ELSE payloads[i]]
  /\ Goes(s, Free)
  /\ UNCHANGED <<load, clock, settings, rows, made, changes>>

InsertPayload(s) ==
  LET a == attempt[s] IN
  /\ a.at = "payload"
  /\ payloads' = [i \in DOMAIN payloads \cup {a.row} |->
                    IF i = a.row THEN [log |-> a.log, id |-> a.id] ELSE payloads[i]]
  /\ Goes(s, Free)
  /\ UNCHANGED <<load, clock, settings, rows, made, changes>>

\* Either insert fails: that is printed, and all.
InsertFails(s) ==
  /\ attempt[s].at \in {"row", "payload"}
  /\ Local(s, Free)

Crash ==
  /\ \E s \in Slots : attempt[s].at # "free"
  /\ attempt' = [s \in Slots |-> Free]
  /\ UNCHANGED <<load, clock, settings, rows, payloads, made, changes>>

SaveSettings ==
  /\ changes < load.changes
  /\ changes' = changes + 1
  /\ settings' \in load.settings \ {settings}
  /\ UNCHANGED <<load, clock, attempt, rows, payloads, made>>

HourPasses ==
  /\ clock < FirstHour + load.hours
  /\ clock' = clock + 1
  /\ UNCHANGED <<load, settings, attempt, rows, payloads, made, changes>>

\* What the page of an attempt gets: a row may have no payload.
GetRequestLogPayload(i) ==
  IF i \in DOMAIN payloads THEN [hasPayload |-> TRUE, log |-> payloads[i].log]
  ELSE [hasPayload |-> FALSE, log |-> NoLog]

Next ==
  \/ \E s \in Slots : \/ \E p \in load.plans : Start(s, p)
                      \/ \E a \in attempt[s].plan.answers : AnswerArrives(s, a)
                      \/ PostFails(s) \/ ReadLine(s) \/ EndBody(s) \/ Translate(s) \/ BodyBreaks(s)
                      \/ AsksAgain(s) \/ EndError(s)
                      \/ InsertRow(s) \/ InsertPayload(s) \/ InsertFails(s)
  \/ Crash \/ SaveSettings \/ HourPasses

Spec == Init /\ [][Next]_vars

-----------------------------------------------------------------------------
(* Properties.                                                             *)

\* A payload belongs to a row, and to the attempt that wrote the row; no attempt has two rows.
TypeOK ==
  /\ clock \in FirstHour..FirstHour + load.hours
  /\ settings \in load.settings
  /\ \A s \in Slots : attempt[s].at \in Steps /\ attempt[s].tokens \in [Kinds -> Nat]
  /\ \A i, j \in DOMAIN rows : rows[i].id = rows[j].id => i = j
  /\ DOMAIN payloads \subseteq DOMAIN rows
  /\ \A i \in DOMAIN payloads : payloads[i].log.on /\ payloads[i].id = rows[i].id
  /\ made \in 0..load.attempts /\ changes \in 0..load.changes

CutIn(log, body) == log.kept[body] < log.whole[body]

\* A stored payload tells of its bodies whether they are whole: the two of the request share one mark
\* and the two of the answer another (services/rawlog.go).  No mark is set for a body that is whole, and
\* none is missing where a body was cut, with one exception: of an answer that the adapter translated the
\* cut of the upstream's body may go untold, as captureResponseBody comes last there and overwrites the mark.
CutTold ==
  \A i \in DOMAIN rows :
    LET log == GetRequestLogPayload(i).log
        translated == rows[i].plan.adapted /\ Success(rows[i].code)
    IN /\ log.requestTruncated <=> CutIn(log, "request") \/ CutIn(log, "upstreamRequest")
       /\ log.responseTruncated => CutIn(log, "response") \/ CutIn(log, "upstreamResponse")
       /\ CutIn(log, "response") => log.responseTruncated
       /\ CutIn(log, "upstreamResponse") => log.responseTruncated \/ translated

\* What the upstream bills for a plan's answer and the relay can find in it: nothing of a chat
\* completion passed through, and not what was cached if Claude's answer is one body.
Countable(plan, answer) ==
  IF ~plan.adapted /\ \A l \in ToSet(answer.lines) : l.form \in {"chat", "none"} THEN NoTokens
  ELSE IF plan.platform = "claude" /\ ~answer.sse THEN [answer.billed EXCEPT !["cache"] = 0]
  ELSE answer.billed

\* The row of an answer that came to its end has the tokens the upstream bills, once, however the
\* stream spreads and repeats its reports (ReqeustLogHook).  The adapter's events created and in_progress
\* repeat what is known of the usage by then, all of it when a body was made into a stream, and the
\* row has that twice more.
TokensCounted ==
  \A i \in DOMAIN rows :
    LET r == rows[i]
        again == IF r.plan.adapted THEN Announced(r.plan, r.answer) ELSE NoTokens
    IN r.done => r.tokens = Plus(Countable(r.plan, r.answer), Plus(again, again))

\* The rows of a local day.
OnDay(day, platform) == {i \in DOMAIN rows : OfPlatform(rows[i], platform) /\ startOfDay(createdAt(rows[i], load.zone)) = day}

\* The bound of the heatmap's query, taken for a UTC time, leaves no hour out that has a cell.
HeatmapReaches == clock + load.zone - startOfDay(clock + load.zone) + load.zone < HoursPerDay

\* At any time, in any zone, the pages tell of all the attempts of the local day, in total, by hour and by
\* provider, each once.  A cell of the heatmap shows the attempts of its hour or nothing, and it shows them
\* unless the zone is so far ahead of UTC and the day so late that the query starts too late, or the cell
\* is of last year: the key of an hour has no year, and is read as one of this year
\* (services/logservice.go, data/usageHeatmap.ts).
StatsComplete ==
  LET zone == load.zone
      day == startOfDay(clock + zone)
      cells == buildUsageHeatmapMatrix(HeatmapStats(rows, clock, zone), clock, zone)
  IN /\ \A platform \in {All} \cup {p.platform : p \in load.plans} :
          LET today == OnDay(day, platform)
              stats == StatsSince(rows, clock, zone, platform)
              byProvider == ProviderDailyStats(rows, clock, zone, platform)
          IN /\ stats.total = Cardinality(today) /\ stats.tokens = Spent(rows, today)
             /\ SumFunction([h \in DOMAIN stats.series |-> stats.series[h].total]) = stats.total
             /\ SumFunction([p \in DOMAIN byProvider |-> byProvider[p].total]) = stats.total
             /\ SumFunction([p \in DOMAIN byProvider |-> byProvider[p].successful]) =
                  Cardinality({i \in today : Success(rows[i].code)})
             /\ \A k \in Kinds :
                  SumFunction([p \in DOMAIN byProvider |-> byProvider[p].tokens[k]]) = stats.tokens[k]
             /\ DOMAIN byProvider \subseteq ListProviders(rows, platform)
             /\ \/ today \subseteq ListRequestLogs(rows, platform, All)
                \/ Cardinality(ListRequestLogs(rows, platform, All)) = ListLimit
     /\ \A h \in DOMAIN cells :
          LET ids == {i \in DOMAIN rows : createdAt(rows[i], zone) = h} IN
          /\ cells[h].total > 0 \/ (HeatmapReaches /\ YearOf(h) = YearOf(clock + zone)) =>
               cells[h] = [total |-> Cardinality(ids), tokens |-> Spent(rows, ids)]
          /\ cells[h].total = 0 => cells[h].tokens = NoTokens
=============================================================================
