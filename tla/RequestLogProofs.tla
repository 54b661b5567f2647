-------------------------- MODULE RequestLogProofs --------------------------
(***************************************************************************)
(* What TLAPS proves of RequestLog, for every workload, any number of      *)
(* attempts at a time, and bodies and caps of any size: the marks of what  *)
(* is cut (LogInv), whose rows and payloads there are (OwnInv), what is    *)
(* counted while an answer is read (CountInv), and what the pages make of  *)
(* rows as the ones of a behaviour are (RowsInv, Timed).  The sums of the  *)
(* pages are folds; what a fold over a finite set comes to is proved by    *)
(* induction on the size of the set (AllNumbers).                          *)
(***************************************************************************)
EXTENDS RequestLog, TLAPS, FiniteSetTheorems, WellFoundedInduction

Logs ==
  [on : BOOLEAN, max : Nat \ {0}, kept : [Bodies -> Nat], whole : [Bodies -> Nat],
   requestTruncated : BOOLEAN, responseTruncated : BOOLEAN]

\* What is kept of a body is as much of it as the cap allows.
Bounded(log) == \A b \in Bodies : log.kept[b] = captureBounded(log.whole[b], log.max)

\* Whether the body is longer than the cap.
Over(log, body) == log.whole[body] > log.max

\* The mark of the request, and what it relies on: the body sent upstream is captured
\* once by the adapter, or once by the rectified retry.
RequestTold(a) ==
  /\ a.log.requestTruncated <=> Over(a.log, "request") \/ Over(a.log, "upstreamRequest")
  /\ ~a.plan.adapted /\ ~a.retried => a.log.whole["upstreamRequest"] = 0

\* No body of an answer has been captured.
NoResponse(log) ==
  /\ log.whole["response"] = 0 /\ log.whole["upstreamResponse"] = 0
  /\ ~log.responseTruncated

\* The mark of the answer; the adapter's translation overwrites it.
ResponseTold(log, plan, code) ==
  log.responseTruncated <=>
    Over(log, "response") \/ (~(plan.adapted /\ Success(code)) /\ Over(log, "upstreamResponse"))

\* By the step of the attempt: nothing of an answer is captured before its body comes, and
\* of a body that is passed through only what goes to the client.
AttemptTold(a) ==
  /\ a.at = "ask" => NoResponse(a.log) /\ ~Success(a.code)
  /\ a.at = "error" => NoResponse(a.log) /\ ~Success(a.code)
  /\ a.at = "body" => IF a.plan.adapted THEN NoResponse(a.log) /\ Success(a.code)
                      ELSE a.log.whole["upstreamResponse"] = 0
  /\ ResponseTold(a.log, a.plan, a.code)

IsAttempt(a) ==
  /\ DOMAIN a = DOMAIN Free
  /\ a.log \in Logs /\ Bounded(a.log) /\ a.come \in Nat /\ a.read \in Nat
  /\ a.at \in Steps
  /\ a.plan.adapted \in BOOLEAN
  /\ a.at # "free" => a.plan \in load.plans
  /\ a.at \in {"body", "error"} => a.answer \in a.plan.answers

IsRows == \E S : rows \in Seq(S)

\* The payload of a row, and the one that is about to be inserted, tells of the row's attempt.
RowTold(log, row) ==
  /\ log \in Logs /\ Bounded(log)
  /\ log.requestTruncated <=> Over(log, "request") \/ Over(log, "upstreamRequest")
  /\ ResponseTold(log, row.plan, row.code)

LogInv ==
  /\ load \in Workloads /\ settings \in load.settings
  /\ DOMAIN attempt = Slots
  /\ \A s \in Slots : IsAttempt(attempt[s]) /\ RequestTold(attempt[s]) /\ AttemptTold(attempt[s])
  /\ \A s \in Slots : attempt[s].at = "payload" =>
       /\ attempt[s].row \in DOMAIN rows
       /\ rows[attempt[s].row].plan = attempt[s].plan /\ rows[attempt[s].row].code = attempt[s].code
  /\ IsRows
  /\ DOMAIN payloads \subseteq DOMAIN rows
  /\ \A i \in DOMAIN payloads : RowTold(payloads[i].log, rows[i])

-----------------------------------------------------------------------------
(* The capture.                                                            *)

\* What is kept of a body is less than the body exactly if the body is over the cap.
LEMMA CutIsOver ==
  ASSUME NEW log \in Logs, Bounded(log), NEW b \in Bodies
  PROVE  CutIn(log, b) <=> Over(log, b)
BY DEF CutIn, Over, Bounded, captureBounded, Logs

LEMMA KeptEffect ==
  ASSUME NEW log \in Logs, Bounded(log), NEW b \in Bodies, NEW size \in Nat
  PROVE  /\ Kept(log, b, size) \in Logs /\ Bounded(Kept(log, b, size))
         /\ Kept(log, b, size).whole = [log.whole EXCEPT ![b] = size]
         /\ Kept(log, b, size).max = log.max
         /\ Kept(log, b, size).requestTruncated = log.requestTruncated
         /\ Kept(log, b, size).responseTruncated = log.responseTruncated
<1>1. captureBounded(size, log.max) \in Nat
  BY DEF captureBounded, Logs
<1>2. Kept(log, b, size) \in Logs
  BY <1>1 DEF Kept, Logs
<1> QED
  BY <1>1, <1>2 DEF Kept, Bounded, Logs

\* Setting a mark changes nothing else.
LEMMA RequestMark ==
  ASSUME NEW log \in Logs, Bounded(log), NEW mark \in BOOLEAN,
         NEW new, new = [log EXCEPT !.requestTruncated = mark]
  PROVE  /\ new \in Logs /\ Bounded(new) /\ new.on = log.on /\ new.whole = log.whole /\ new.max = log.max
         /\ new.requestTruncated = mark /\ new.responseTruncated = log.responseTruncated
BY DEF Logs, Bounded

LEMMA ResponseMark ==
  ASSUME NEW log \in Logs, Bounded(log), NEW mark \in BOOLEAN,
         NEW new, new = [log EXCEPT !.responseTruncated = mark]
  PROVE  /\ new \in Logs /\ Bounded(new) /\ new.on = log.on /\ new.whole = log.whole /\ new.max = log.max
         /\ new.responseTruncated = mark /\ new.requestTruncated = log.requestTruncated
BY DEF Logs, Bounded

LEMMA NoLogEffect == NoLog \in Logs /\ Bounded(NoLog)
BY DEF NoLog, Logs, Bounded, captureBounded

\* At the start of an attempt: the client's body, or nothing.
LEMMA CaptureEffect ==
  ASSUME NEW s \in [capture : BOOLEAN, max : Int], NEW size \in Nat
  PROVE  LET log == newRawLogCapture(s, size) IN
         /\ log \in Logs /\ Bounded(log)
         /\ log.requestTruncated <=> Over(log, "request")
         /\ log.whole["upstreamRequest"] = 0 /\ NoResponse(log)
<1> DEFINE max == normalizeRawLogMaxBytes(s.max)
           open == [NoLog EXCEPT !.on = TRUE, !.max = max]
           k == Kept(open, "request", size)
           mark == size > max
           log == [k EXCEPT !.requestTruncated = mark]
<1>1. CASE ~s.capture
  <2>1. newRawLogCapture(s, size) = NoLog
    BY <1>1 DEF newRawLogCapture
  <2> QED
    BY <2>1, NoLogEffect DEF NoLog, Over, NoResponse, Bodies
<1>2. CASE s.capture
  <2>1. max \in Nat \ {0}
    BY SizesAssumption DEF normalizeRawLogMaxBytes
  <2> HIDE DEF max
  <2>2. /\ NoLog.kept = [b \in Bodies |-> 0] /\ NoLog.whole = [b \in Bodies |-> 0]
        /\ NoLog.responseTruncated = FALSE
    BY DEF NoLog
  <2>3. /\ open \in Logs /\ Bounded(open) /\ open.whole = [b \in Bodies |-> 0] /\ open.max = max
        /\ open.responseTruncated = FALSE
    <3>1. /\ open \in Logs /\ open.max = max /\ open.kept = NoLog.kept /\ open.whole = NoLog.whole
          /\ open.responseTruncated = NoLog.responseTruncated
      BY <2>1, NoLogEffect DEF Logs
    <3> HIDE DEF open
    <3> QED
      BY <2>1, <2>2, <3>1 DEF Bounded, captureBounded
  <2> HIDE DEF open
  <2>4. "request" \in Bodies
    BY DEF Bodies
  <2>5. /\ k \in Logs /\ Bounded(k) /\ k.whole = [open.whole EXCEPT !["request"] = size]
        /\ k.max = open.max /\ k.responseTruncated = open.responseTruncated
    BY <2>3, <2>4, KeptEffect
  <2> HIDE DEF k
  <2>6. mark \in BOOLEAN
    OBVIOUS
  <2> HIDE DEF mark
  <2>7. /\ log \in Logs /\ Bounded(log) /\ log.whole = k.whole /\ log.max = k.max
        /\ log.requestTruncated = mark /\ log.responseTruncated = k.responseTruncated
    BY <2>5, <2>6, RequestMark
  <2>8. newRawLogCapture(s, size) = log
    BY <1>2 DEF newRawLogCapture, mark, k, max, open
  <2> HIDE DEF log
  <2> QED
    BY <2>3, <2>5, <2>7, <2>8 DEF Over, NoResponse, Bodies, mark
<1> QED
  BY <1>1, <1>2

\* The body sent upstream, for an attempt that has sent none of its own.
LEMMA UpstreamRequestEffect ==
  ASSUME NEW log \in Logs, Bounded(log), NEW size \in Nat, log.whole["upstreamRequest"] = 0,
         log.requestTruncated <=> Over(log, "request") \/ Over(log, "upstreamRequest")
  PROVE  LET new == captureUpstreamRequestBody(log, size) IN
         /\ new \in Logs /\ Bounded(new)
         /\ new.requestTruncated <=> Over(new, "request") \/ Over(new, "upstreamRequest")
         /\ NoResponse(log) => NoResponse(new)
<1> DEFINE k == Kept(log, "upstreamRequest", size)
           mark == log.requestTruncated \/ size > log.max
           new == [k EXCEPT !.requestTruncated = mark]
<1>1. /\ k \in Logs /\ Bounded(k) /\ k.whole = [log.whole EXCEPT !["upstreamRequest"] = size]
      /\ k.max = log.max /\ k.responseTruncated = log.responseTruncated /\ k.requestTruncated = log.requestTruncated
  BY KeptEffect DEF Bodies
<1>2. captureUpstreamRequestBody(log, size) = IF ~log.on THEN log ELSE new
  BY <1>1 DEF captureUpstreamRequestBody
<1> HIDE DEF k
<1>3. mark \in BOOLEAN
  OBVIOUS
<1> HIDE DEF mark
<1>4. /\ new \in Logs /\ Bounded(new) /\ new.whole = k.whole /\ new.max = k.max
      /\ new.requestTruncated = mark /\ new.responseTruncated = k.responseTruncated
  BY <1>1, <1>3, RequestMark
<1> HIDE DEF new
<1>5. ~Over(log, "upstreamRequest")
  BY DEF Over, Logs
<1> QED
  BY <1>1, <1>2, <1>4, <1>5 DEF Over, NoResponse, Bodies, Logs, mark

\* A body of an answer that is captured as a whole: the client's sets the mark, the upstream's adds to it.
LEMMA ClientEffect ==
  ASSUME NEW log \in Logs, Bounded(log), NEW size \in Nat, NEW new, new = captureResponseBody(log, size)
  PROVE  /\ new \in Logs /\ Bounded(new) /\ new.max = log.max /\ new.on = log.on
         /\ new.requestTruncated = log.requestTruncated
         /\ ~log.on => new = log
         /\ log.on => /\ new.whole = [log.whole EXCEPT !["response"] = size]
                      /\ new.responseTruncated = (size > log.max)
<1>1. CASE ~log.on
  BY <1>1 DEF captureResponseBody
<1>2. CASE log.on
  <2> DEFINE k == Kept(log, "response", size)
             mark == size > log.max
  <2>1. /\ k \in Logs /\ Bounded(k) /\ k.whole = [log.whole EXCEPT !["response"] = size]
        /\ k.max = log.max /\ k.requestTruncated = log.requestTruncated /\ k.on = log.on
    BY KeptEffect DEF Bodies, Kept, Logs
  <2>2. new = [k EXCEPT !.responseTruncated = mark]
    BY <1>2 DEF captureResponseBody
  <2> HIDE DEF k
  <2>3. mark \in BOOLEAN
    OBVIOUS
  <2> HIDE DEF mark
  <2>4. /\ new \in Logs /\ Bounded(new) /\ new.on = k.on /\ new.whole = k.whole /\ new.max = k.max
        /\ new.responseTruncated = mark /\ new.requestTruncated = k.requestTruncated
    BY <2>1, <2>2, <2>3, ResponseMark
  <2> QED
    BY <1>2, <2>1, <2>4 DEF mark
<1> QED
  BY <1>1, <1>2

LEMMA UpstreamEffect ==
  ASSUME NEW log \in Logs, Bounded(log), NEW size \in Nat, NEW new, new = captureUpstreamResponseBody(log, size)
  PROVE  /\ new \in Logs /\ Bounded(new) /\ new.max = log.max /\ new.on = log.on
         /\ new.requestTruncated = log.requestTruncated
         /\ ~log.on => new = log
         /\ log.on => /\ new.whole = [log.whole EXCEPT !["upstreamResponse"] = size]
                      /\ new.responseTruncated = (log.responseTruncated \/ size > log.max)
<1>1. CASE ~log.on
  BY <1>1 DEF captureUpstreamResponseBody
<1>2. CASE log.on
  <2> DEFINE k == Kept(log, "upstreamResponse", size)
             mark == log.responseTruncated \/ size > log.max
  <2>1. /\ k \in Logs /\ Bounded(k) /\ k.whole = [log.whole EXCEPT !["upstreamResponse"] = size]
        /\ k.max = log.max /\ k.requestTruncated = log.requestTruncated /\ k.on = log.on
        /\ k.responseTruncated = log.responseTruncated
    BY KeptEffect DEF Bodies, Kept, Logs
  <2>2. new = [k EXCEPT !.responseTruncated = mark]
    BY <1>2, <2>1 DEF captureUpstreamResponseBody
  <2> HIDE DEF k
  <2>3. mark \in BOOLEAN
    OBVIOUS
  <2> HIDE DEF mark
  <2>4. /\ new \in Logs /\ Bounded(new) /\ new.on = k.on /\ new.whole = k.whole /\ new.max = k.max
        /\ new.responseTruncated = mark /\ new.requestTruncated = k.requestTruncated
    BY <2>1, <2>2, <2>3, ResponseMark
  <2> QED
    BY <1>2, <2>1, <2>4 DEF mark
<1> QED
  BY <1>1, <1>2

\* A piece of a body that is passed through: the buffer is cut, and said to be cut, from the
\* first byte on that does not fit.
LEMMA HookEffect ==
  ASSUME NEW log \in Logs, Bounded(log), NEW size \in Nat,
         log.responseTruncated <=> Over(log, "response")
  PROVE  LET new == responseHook(log, size) IN
         /\ new \in Logs /\ Bounded(new) /\ new.max = log.max
         /\ new.requestTruncated = log.requestTruncated
         /\ \A b \in Bodies \ {"response"} : new.whole[b] = log.whole[b]
         /\ new.responseTruncated <=> Over(new, "response")
<1>1. CASE ~log.on
  BY <1>1 DEF responseHook
<1>2. CASE log.on
  <2> DEFINE kept == log.kept["response"]
             whole == log.whole["response"]
             cut == captureBounded(kept + size, log.max)
             sum == whole + size
             mark == log.responseTruncated \/ (size > 0 /\ size > log.max - kept)
             new == [log EXCEPT !.kept["response"] = cut, !.whole["response"] = sum, !.responseTruncated = mark]
  <2>1. kept \in Nat /\ whole \in Nat /\ log.max \in Nat /\ kept = IF whole <= log.max THEN whole ELSE log.max
    BY DEF Logs, Bounded, Bodies, captureBounded
  <2>2. responseHook(log, size) = new
    BY <1>2 DEF responseHook
  <2>3. cut \in Nat /\ sum \in Nat /\ cut = captureBounded(sum, log.max)
    BY <2>1 DEF captureBounded
  <2>4. mark \in BOOLEAN /\ (mark <=> sum > log.max)
    BY <2>1 DEF Over
  <2> HIDE DEF kept, whole, cut, sum, mark
  <2>5. /\ new \in Logs /\ new.max = log.max /\ new.requestTruncated = log.requestTruncated
        /\ new.kept = [log.kept EXCEPT !["response"] = cut]
        /\ new.whole = [log.whole EXCEPT !["response"] = sum]
        /\ new.responseTruncated = mark
    BY <2>3, <2>4 DEF Logs
  <2> HIDE DEF new
  <2>6. Bounded(new)
    BY <2>3, <2>5 DEF Bounded, Logs
  <2>7. new.responseTruncated <=> Over(new, "response")
    BY <2>4, <2>5 DEF Over, Logs, Bodies
  <2>8. \A b \in Bodies \ {"response"} : new.whole[b] = log.whole[b]
    BY <2>5 DEF Logs
  <2> QED
    BY <2>2, <2>5, <2>6, <2>7, <2>8
<1> QED
  BY <1>1, <1>2

-----------------------------------------------------------------------------
(* The steps.                                                              *)

LEMMA FreeFields ==
  DOMAIN Free = {"at", "id", "plan", "answer", "read", "come", "retried", "code", "tokens", "log", "done", "row"}
BY DEF Free

LEMMA FreeTold == IsAttempt(Free) /\ RequestTold(Free) /\ AttemptTold(Free) /\ Free.at = "free"
<1>1. /\ Free.at = "free" /\ Free.log = NoLog /\ Free.come = 0 /\ Free.read = 0
      /\ Free.plan.adapted = FALSE /\ ~Free.retried
  BY DEF Free, NoPlan
<1>0. /\ "request" \in Bodies /\ "upstreamRequest" \in Bodies
      /\ "response" \in Bodies /\ "upstreamResponse" \in Bodies
  BY DEF Bodies
<1>2. /\ NoLog.whole = [b \in Bodies |-> 0] /\ ~NoLog.requestTruncated /\ ~NoLog.responseTruncated
      /\ NoLog.max = 1
  BY DEF NoLog
<1>3. ~Over(NoLog, "request") /\ ~Over(NoLog, "upstreamRequest")
      /\ ~Over(NoLog, "response") /\ ~Over(NoLog, "upstreamResponse")
  BY <1>0, <1>2 DEF Over
<1>4. IsAttempt(Free)
  <2>1. Free.log \in Logs /\ Bounded(Free.log)
    BY <1>1, NoLogEffect, Zenon
  <2>2. /\ Free.come \in Nat /\ Free.read \in Nat /\ Free.at \in Steps
        /\ ~(Free.at # "free") /\ ~(Free.at \in {"body", "error"})
    BY <1>1 DEF Steps
  <2>3. Free.plan.adapted \in BOOLEAN
    BY <1>1, Zenon
  <2> QED BY <2>1, <2>2, <2>3, Zenon DEF IsAttempt
<1>5. RequestTold(Free)
  BY <1>1, <1>2, <1>3 DEF RequestTold, Bodies
<1>6. AttemptTold(Free)
  BY <1>1, <1>2, <1>3 DEF AttemptTold, ResponseTold
<1> QED
  BY <1>1, <1>4, <1>5, <1>6

\* While nothing of an answer is captured no mark is set.
LEMMA NothingTold ==
  ASSUME NEW log \in Logs, NoResponse(log), NEW plan, NEW code
  PROVE  ResponseTold(log, plan, code)
BY DEF NoResponse, ResponseTold, Over, Logs

\* What an attempt that runs is for.
LEMMA PlanShape ==
  ASSUME LogInv, NEW p \in load.plans
  PROVE  /\ p.adapted \in BOOLEAN /\ (p.adapted => p.platform = "codex") /\ p.request \in Nat
         /\ \A a \in p.answers :
              /\ Len(a.lines) \in Nat /\ 1 \in 1..Len(a.lines)
              /\ \A i \in 1..Len(a.lines) : a.lines[i].size \in Nat
<1>1. /\ p.adapted \in BOOLEAN /\ (p.adapted => p.platform = "codex") /\ p.request \in Nat
      /\ \A a \in p.answers : a.lines \in Seq([size : Nat, form : Forms, tokens : [Kinds -> Nat]]) \ {<<>>}
  BY WorkloadsAssumption DEF LogInv
<1>2. ASSUME NEW a \in p.answers
      PROVE  /\ Len(a.lines) \in Nat /\ 1 \in 1..Len(a.lines)
             /\ \A i \in 1..Len(a.lines) : a.lines[i].size \in Nat
  <2> DEFINE lines == a.lines
  <2>1. lines \in Seq([size : Nat, form : Forms, tokens : [Kinds -> Nat]]) /\ lines # <<>>
    BY <1>1
  <2> HIDE DEF lines
  <2>2. Len(lines) \in Nat /\ 1 \in 1..Len(lines) /\ \A i \in 1..Len(lines) : lines[i].size \in Nat
    <3> DEFINE S == [size : Nat, form : Forms, tokens : [Kinds -> Nat]]
    <3>1. \A l \in S : l.size \in Nat
      OBVIOUS
    <3>2. lines \in Seq(S) /\ lines # <<>>
      BY <2>1
    <3> HIDE DEF S
    <3>3. Len(lines) \in Nat /\ Len(lines) # 0 /\ \A i \in 1..Len(lines) : lines[i] \in S
      BY <3>2
    <3> QED BY <3>1, <3>3
  <2> QED BY <2>2 DEF lines
<1> QED
  BY <1>1, <1>2

\* One attempt goes on, and does not yet come to its payload.
LEMMA OneStep ==
  ASSUME LogInv, NEW s \in Slots, NEW a, Goes(s, a),
         UNCHANGED <<load, settings, rows, payloads>>,
         IsAttempt(a), RequestTold(a), AttemptTold(a), a.at # "payload"
  PROVE  LogInv'
<1>1. /\ DOMAIN attempt' = Slots /\ attempt'[s] = a
      /\ \A r \in Slots \ {s} : attempt'[r] = attempt[r]
  BY DEF Goes, LogInv
<1>2. \A r \in Slots : IsAttempt(attempt[r])' /\ RequestTold(attempt'[r]) /\ AttemptTold(attempt'[r])
  BY <1>1 DEF LogInv, IsAttempt
<1> QED
  BY <1>1, <1>2 DEF LogInv, IsRows

LEMMA StartStep ==
  ASSUME LogInv, NEW s \in Slots, NEW p \in load.plans, Start(s, p)
  PROVE  LogInv'
<1> DEFINE log == newRawLogCapture(settings, p.request)
           a == [Free EXCEPT !.at = "ask", !.id = made + 1, !.plan = p, !.log = log]
<1>1. p.adapted \in BOOLEAN /\ p.request \in Nat /\ settings \in [capture : BOOLEAN, max : Int]
  BY PlanShape, WorkloadsAssumption DEF LogInv
<1>2. /\ log \in Logs /\ Bounded(log)
      /\ log.requestTruncated <=> Over(log, "request")
      /\ log.whole["upstreamRequest"] = 0 /\ NoResponse(log)
  BY <1>1, CaptureEffect
<1> HIDE DEF log
<1>3. /\ DOMAIN a = DOMAIN Free /\ a.at = "ask" /\ a.plan = p /\ a.log = log /\ ~a.retried
      /\ a.come = 0 /\ a.read = 0 /\ a.code = 0
  BY DEF Free
<1>4. UNCHANGED <<load, settings, rows, payloads>>
  BY DEF Start
<1>5. log.requestTruncated <=> Over(log, "request") \/ Over(log, "upstreamRequest")
  BY <1>2 DEF Over, Logs
<1> HIDE DEF a
<1>6. CASE p.adapted /\ \E n \in Sizes : Goes(s, [a EXCEPT !.log = captureUpstreamRequestBody(log, n)])
  <2>1. PICK n \in Sizes : Goes(s, [a EXCEPT !.log = captureUpstreamRequestBody(log, n)])
    BY <1>6
  <2> DEFINE sent == captureUpstreamRequestBody(log, n)
             b == [a EXCEPT !.log = sent]
  <2>2. /\ sent \in Logs /\ Bounded(sent) /\ NoResponse(sent)
        /\ sent.requestTruncated <=> Over(sent, "request") \/ Over(sent, "upstreamRequest")
    BY <1>2, <1>5, SizesAssumption, UpstreamRequestEffect
  <2> HIDE DEF sent
  <2>3. /\ DOMAIN b = DOMAIN Free /\ b.at = "ask" /\ b.plan = p /\ b.log = sent
        /\ b.come = 0 /\ b.read = 0 /\ b.code = 0
    BY <1>3, FreeFields
  <2>4. Goes(s, b)
    BY <2>1 DEF sent
  <2> HIDE DEF b
  <2>5. IsAttempt(b)
    BY <1>1, <2>2, <2>3 DEF IsAttempt, Steps
  <2>6. RequestTold(b)
    BY <1>6, <2>2, <2>3 DEF RequestTold
  <2>7. AttemptTold(b)
    BY <2>2, <2>3, NothingTold DEF AttemptTold, Success
  <2> QED BY <1>4, <2>3, <2>4, <2>5, <2>6, <2>7, OneStep
<1>7. CASE Goes(s, [a EXCEPT !.at = "row"]) \/ Goes(s, a)
  <2>1. PICK step \in {"row", "ask"} : Goes(s, [a EXCEPT !.at = step])
    <3>1. [a EXCEPT !.at = "ask"] = a
      BY <1>3 DEF a
    <3> QED BY <1>7, <3>1
  <2> DEFINE b == [a EXCEPT !.at = step]
  <2>2. /\ DOMAIN b = DOMAIN Free /\ b.at = step /\ b.plan = p /\ b.log = log
        /\ b.come = 0 /\ b.read = 0 /\ b.code = 0
    BY <1>3, FreeFields
  <2>3. Goes(s, b)
    BY <2>1
  <2> HIDE DEF b
  <2>4. IsAttempt(b) /\ RequestTold(b) /\ AttemptTold(b)
    BY <1>1, <1>2, <1>5, <2>2, NothingTold DEF IsAttempt, RequestTold, AttemptTold, Steps, Success
  <2> QED BY <1>4, <2>2, <2>3, <2>4, OneStep
<1> QED
  BY <1>6, <1>7 DEF Start, a, log

\* Steps that capture nothing of an answer.
LEMMA AskSteps ==
  ASSUME LogInv, NEW s \in Slots,
         PostFails(s) \/ (\E x \in attempt[s].plan.answers : AnswerArrives(s, x)) \/ AsksAgain(s)
  PROVE  LogInv'
<1> DEFINE a == attempt[s]
<1>1. IsAttempt(a) /\ RequestTold(a) /\ AttemptTold(a)
  BY DEF LogInv
<1>2. ASSUME NEW b, Local(s, b), IsAttempt(b), RequestTold(b), AttemptTold(b), b.at # "payload"
      PROVE  LogInv'
  <2>1. Goes(s, b) /\ UNCHANGED <<load, settings, rows, payloads>>
    BY <1>2 DEF Local
  <2> QED BY <1>2, <2>1, OneStep
<1>3. CASE PostFails(s)
  <2> DEFINE b == [a EXCEPT !.at = "row"]
  <2>1. a.at = "ask" /\ Local(s, b)
    BY <1>3 DEF PostFails
  <2>2. /\ DOMAIN b = DOMAIN Free /\ b.at = "row" /\ b.plan = a.plan /\ b.log = a.log /\ b.code = a.code
        /\ b.come = a.come /\ b.read = a.read /\ b.retried = a.retried
    BY <1>1, FreeFields DEF IsAttempt
  <2> HIDE DEF b
  <2>3. IsAttempt(b) /\ RequestTold(b) /\ AttemptTold(b)
    BY <1>1, <2>1, <2>2 DEF IsAttempt, RequestTold, AttemptTold, Steps
  <2> QED BY <1>2, <2>1, <2>2, <2>3
<1>4. CASE \E x \in a.plan.answers : AnswerArrives(s, x)
  <2>1. PICK x \in a.plan.answers : AnswerArrives(s, x)
    BY <1>4
  <2> DEFINE b == [a EXCEPT !.at = IF Success(x.code) THEN "body" ELSE "error", !.code = x.code, !.answer = x]
  <2>2. a.at = "ask" /\ Local(s, b)
    BY <2>1 DEF AnswerArrives
  <2>3. /\ DOMAIN b = DOMAIN Free /\ b.at = (IF Success(x.code) THEN "body" ELSE "error")
        /\ b.plan = a.plan /\ b.log = a.log /\ b.code = x.code /\ b.answer = x
        /\ b.come = a.come /\ b.read = a.read /\ b.retried = a.retried
    BY <1>1, FreeFields DEF IsAttempt
  <2> HIDE DEF b
  <2>4. NoResponse(a.log) /\ a.log \in Logs
    BY <1>1, <2>2 DEF AttemptTold, IsAttempt
  <2>5. IsAttempt(b) /\ RequestTold(b)
    BY <1>1, <2>2, <2>3 DEF IsAttempt, RequestTold, Steps
  <2>6. AttemptTold(b)
    BY <2>3, <2>4, NothingTold DEF AttemptTold, NoResponse
  <2>7. b.at # "payload"
    BY <2>3
  <2> QED BY <1>2, <2>2, <2>5, <2>6, <2>7
<1>5. CASE AsksAgain(s)
  <2>1. PICK n \in Sizes : Local(s, [a EXCEPT !.at = "ask", !.retried = TRUE,
                                               !.log = captureUpstreamRequestBody(a.log, n)])
    BY <1>5 DEF AsksAgain
  <2> DEFINE sent == captureUpstreamRequestBody(a.log, n)
             b == [a EXCEPT !.at = "ask", !.retried = TRUE, !.log = sent]
  <2>2. a.at = "error" /\ a.plan.platform = "claude" /\ ~a.retried
    BY <1>5 DEF AsksAgain
  <2>3. ~a.plan.adapted
    BY <1>1, <2>2, PlanShape DEF IsAttempt
  <2>4. a.log \in Logs /\ Bounded(a.log) /\ NoResponse(a.log) /\ a.log.whole["upstreamRequest"] = 0
    BY <1>1, <2>2, <2>3 DEF IsAttempt, RequestTold, AttemptTold
  <2>5. /\ sent \in Logs /\ Bounded(sent) /\ NoResponse(sent)
        /\ sent.requestTruncated <=> Over(sent, "request") \/ Over(sent, "upstreamRequest")
    BY <1>1, <2>4, SizesAssumption, UpstreamRequestEffect DEF RequestTold
  <2>6. Local(s, b)
    BY <2>1
  <2> HIDE DEF sent
  <2>7. /\ DOMAIN b = DOMAIN Free /\ b.at = "ask" /\ b.retried = TRUE
        /\ b.plan = a.plan /\ b.log = sent /\ b.code = a.code /\ b.come = a.come /\ b.read = a.read
    BY <1>1, FreeFields DEF IsAttempt
  <2> HIDE DEF b
  <2>8. IsAttempt(b) /\ RequestTold(b) /\ AttemptTold(b)
    BY <1>1, <2>2, <2>5, <2>7, NothingTold DEF IsAttempt, RequestTold, AttemptTold, Steps
  <2> QED BY <1>2, <2>6, <2>7, <2>8
<1> QED
  BY <1>3, <1>4, <1>5

\* A line of a body that is passed through is captured; the adapter only counts it.
LEMMA ReadStep ==
  ASSUME LogInv, NEW s \in Slots, ReadLine(s)
  PROVE  LogInv'
<1> DEFINE a == attempt[s]
           line == a.answer.lines[a.read + 1]
           hooked == responseHook(a.log, line.size)
<1>1. IsAttempt(a) /\ RequestTold(a) /\ AttemptTold(a) /\ a.at = "body" /\ a.read < Len(a.answer.lines)
  BY DEF LogInv, ReadLine
<1>2. line.size \in Nat
  <2>1. a.plan \in load.plans /\ a.answer \in a.plan.answers /\ a.read \in Nat
    BY <1>1 DEF IsAttempt
  <2>2. Len(a.answer.lines) \in Nat /\ \A i \in 1..Len(a.answer.lines) : a.answer.lines[i].size \in Nat
    BY <2>1, PlanShape
  <2>3. a.read + 1 \in 1..Len(a.answer.lines)
    BY <1>1, <2>1, <2>2
  <2> QED BY <2>2, <2>3
<1>3. PICK b : /\ Local(s, b)
               /\ \/ a.plan.adapted /\ b = [a EXCEPT !.read = a.read + 1, !.come = a.come + line.size]
                  \/ /\ ~a.plan.adapted
                     /\ \E tokens : b = [a EXCEPT !.read = a.read + 1, !.log = hooked, !.tokens = tokens]
  BY DEF ReadLine
<1> HIDE DEF line
<1>4. /\ DOMAIN b = DOMAIN Free /\ b.at = "body" /\ b.read = a.read + 1 /\ b.plan = a.plan
      /\ b.answer = a.answer /\ b.code = a.code /\ b.retried = a.retried
  BY <1>1, <1>3, FreeFields DEF IsAttempt
<1>5. CASE a.plan.adapted
  <2>1. b.log = a.log /\ b.come = a.come + line.size
    BY <1>1, <1>3, <1>5, FreeFields DEF IsAttempt
  <2>2. IsAttempt(b) /\ RequestTold(b) /\ AttemptTold(b)
    BY <1>1, <1>2, <1>4, <2>1 DEF IsAttempt, RequestTold, AttemptTold
  <2> QED BY <1>3, <1>4, <2>2, OneStep DEF Local
<1>6. CASE ~a.plan.adapted
  <2>1. b.log = hooked /\ b.come = a.come
    BY <1>1, <1>3, <1>6, FreeFields DEF IsAttempt
  <2>2. a.log \in Logs /\ Bounded(a.log) /\ a.log.whole["upstreamResponse"] = 0
        /\ (a.log.responseTruncated <=> Over(a.log, "response"))
    BY <1>1, <1>6 DEF IsAttempt, AttemptTold, ResponseTold, Over, Logs
  <2>3. /\ hooked \in Logs /\ Bounded(hooked) /\ hooked.max = a.log.max
        /\ hooked.requestTruncated = a.log.requestTruncated
        /\ \A x \in Bodies \ {"response"} : hooked.whole[x] = a.log.whole[x]
        /\ (hooked.responseTruncated <=> Over(hooked, "response"))
    BY <1>2, <2>2, HookEffect
  <2> HIDE DEF hooked
  <2>4. IsAttempt(b)
    BY <1>1, <1>4, <2>1, <2>3 DEF IsAttempt
  <2>5. RequestTold(b)
    BY <1>1, <1>4, <2>1, <2>3 DEF RequestTold, Over, Bodies
  <2>6. AttemptTold(b)
    BY <1>4, <1>6, <2>1, <2>2, <2>3 DEF AttemptTold, ResponseTold, Over, Bodies, Logs
  <2> QED BY <1>3, <1>4, <2>4, <2>5, <2>6, OneStep DEF Local
<1> QED
  BY <1>1, <1>5, <1>6 DEF IsAttempt

\* A body comes to its end, in one way or another.
LEMMA BodyEnds ==
  ASSUME LogInv, NEW s \in Slots, EndBody(s) \/ Translate(s) \/ BodyBreaks(s)
  PROVE  LogInv'
<1> DEFINE a == attempt[s]
<1>1. IsAttempt(a) /\ RequestTold(a) /\ AttemptTold(a) /\ a.at = "body" /\ a.log \in Logs /\ Bounded(a.log)
  BY DEF LogInv, EndBody, Translate, BodyBreaks, IsAttempt
<1>2. PICK b :
        /\ Local(s, b) /\ DOMAIN b = DOMAIN Free /\ b.at = "row" /\ b.plan = a.plan /\ b.code = a.code
        /\ b.retried = a.retried /\ b.come = a.come /\ b.read = a.read
        /\ \/ b.log = a.log
           \/ /\ a.plan.adapted
              /\ \E n \in Sizes \cup {0} :
                   b.log = captureResponseBody(captureUpstreamResponseBody(a.log, a.come), n)
  <2>1. CASE EndBody(s)
    <3> DEFINE b == [a EXCEPT !.at = "row", !.done = TRUE]
    <3>1. Local(s, b)
      BY <2>1 DEF EndBody
    <3>2. /\ DOMAIN b = DOMAIN Free /\ b.at = "row" /\ b.plan = a.plan /\ b.code = a.code
          /\ b.retried = a.retried /\ b.come = a.come /\ b.read = a.read /\ b.log = a.log
      BY <1>1, FreeFields DEF IsAttempt
    <3> QED BY <3>1, <3>2
  <2>2. CASE Translate(s)
    <3> DEFINE tokens == Translated(a.plan, a.answer, a.tokens)
    <3>1. PICK n \in Sizes :
            Local(s, [a EXCEPT !.at = "row", !.done = TRUE,
                               !.log = captureResponseBody(captureUpstreamResponseBody(a.log, a.come), n),
                               !.tokens = tokens])
      BY <2>2 DEF Translate
    <3> HIDE DEF tokens
    <3> DEFINE log == captureResponseBody(captureUpstreamResponseBody(a.log, a.come), n)
               b == [a EXCEPT !.at = "row", !.done = TRUE, !.log = log, !.tokens = tokens]
    <3>2. /\ DOMAIN b = DOMAIN Free /\ b.at = "row" /\ b.plan = a.plan /\ b.code = a.code
          /\ b.retried = a.retried /\ b.come = a.come /\ b.read = a.read /\ b.log = log
      BY <1>1, FreeFields DEF IsAttempt
    <3>3. a.plan.adapted
      BY <2>2 DEF Translate
    <3> QED BY <3>1, <3>2, <3>3
  <2>3. CASE BodyBreaks(s)
    <3>1. CASE Local(s, [a EXCEPT !.at = "row"])
      <4> DEFINE b == [a EXCEPT !.at = "row"]
      <4>1. /\ DOMAIN b = DOMAIN Free /\ b.at = "row" /\ b.plan = a.plan /\ b.code = a.code
            /\ b.retried = a.retried /\ b.come = a.come /\ b.read = a.read /\ b.log = a.log
        BY <1>1, FreeFields DEF IsAttempt
      <4> QED BY <3>1, <4>1
    <3>2. CASE a.plan.adapted /\ \E n \in Sizes \cup {0} :
                 Local(s, [a EXCEPT !.at = "row",
                                    !.log = captureResponseBody(captureUpstreamResponseBody(a.log, a.come), n)])
      <4>1. PICK n \in Sizes \cup {0} :
              Local(s, [a EXCEPT !.at = "row",
                                 !.log = captureResponseBody(captureUpstreamResponseBody(a.log, a.come), n)])
        BY <3>2
      <4> DEFINE log == captureResponseBody(captureUpstreamResponseBody(a.log, a.come), n)
                 b == [a EXCEPT !.at = "row", !.log = log]
      <4>2. /\ DOMAIN b = DOMAIN Free /\ b.at = "row" /\ b.plan = a.plan /\ b.code = a.code
            /\ b.retried = a.retried /\ b.come = a.come /\ b.read = a.read /\ b.log = log
        BY <1>1, FreeFields DEF IsAttempt
      <4> QED BY <3>2, <4>1, <4>2
    <3> QED BY <2>3, <3>1, <3>2 DEF BodyBreaks
  <2> QED BY <2>1, <2>2, <2>3
<1>3. CASE b.log = a.log
  <2>1. ResponseTold(b.log, b.plan, b.code)
    BY <1>1, <1>2, <1>3 DEF AttemptTold
  <2>2. IsAttempt(b) /\ RequestTold(b) /\ AttemptTold(b)
    BY <1>1, <1>2, <1>3, <2>1 DEF IsAttempt, RequestTold, AttemptTold, Steps
  <2> QED BY <1>2, <2>2, OneStep DEF Local
<1>4. CASE a.plan.adapted /\ \E n \in Sizes \cup {0} :
             b.log = captureResponseBody(captureUpstreamResponseBody(a.log, a.come), n)
  <2>1. PICK n \in Sizes \cup {0} : b.log = captureResponseBody(captureUpstreamResponseBody(a.log, a.come), n)
    BY <1>4
  <2> DEFINE came == captureUpstreamResponseBody(a.log, a.come)
  <2>2. n \in Nat /\ a.come \in Nat /\ NoResponse(a.log) /\ Success(a.code)
    BY <1>1, <1>4, SizesAssumption DEF IsAttempt, AttemptTold
  <2>3. /\ came \in Logs /\ Bounded(came) /\ came.max = a.log.max /\ came.on = a.log.on
        /\ came.requestTruncated = a.log.requestTruncated
        /\ ~a.log.on => came = a.log
        /\ a.log.on => came.whole = [a.log.whole EXCEPT !["upstreamResponse"] = a.come]
    BY <1>1, <2>2, UpstreamEffect
  <2>4. b.log = captureResponseBody(came, n)
    BY <2>1
  <2> HIDE DEF came
  <2>5. /\ b.log \in Logs /\ Bounded(b.log) /\ b.log.max = came.max
        /\ b.log.requestTruncated = came.requestTruncated
        /\ ~came.on => b.log = came
        /\ came.on => /\ b.log.whole = [came.whole EXCEPT !["response"] = n]
                      /\ b.log.responseTruncated = (n > came.max)
    BY <2>2, <2>3, <2>4, ClientEffect
  <2>6. ResponseTold(b.log, b.plan, b.code)
    BY <1>2, <1>4, <2>2, <2>3, <2>5, NothingTold DEF ResponseTold, Over, Logs, Bodies
  <2>7. RequestTold(b)
    BY <1>1, <1>2, <2>3, <2>5 DEF RequestTold, Over, Logs, Bodies
  <2>8. IsAttempt(b) /\ AttemptTold(b)
    BY <1>1, <1>2, <2>5, <2>6 DEF IsAttempt, AttemptTold, Steps
  <2> QED BY <1>2, <2>7, <2>8, OneStep DEF Local
<1> QED
  BY <1>2, <1>3, <1>4

\* What the client is told in place of an error, and the error body that came.
LEMMA EndErrorStep ==
  ASSUME LogInv, NEW s \in Slots, EndError(s)
  PROVE  LogInv'
<1> DEFINE a == attempt[s]
<1>1. IsAttempt(a) /\ RequestTold(a) /\ AttemptTold(a) /\ a.at = "error" /\ a.log \in Logs /\ Bounded(a.log)
  BY DEF LogInv, EndError, IsAttempt
<1>2. NoResponse(a.log) /\ ~Success(a.code)
  BY <1>1 DEF AttemptTold
<1>3. a.answer.lines[1].size \in Nat
  BY <1>1, PlanShape DEF IsAttempt
<1>4. PICK b :
        /\ Local(s, b) /\ DOMAIN b = DOMAIN Free /\ b.at = "row" /\ b.plan = a.plan /\ b.code = a.code
        /\ b.retried = a.retried /\ b.come = a.come /\ b.read = a.read
        /\ \E came \in Nat :
             \/ \E n \in Nat : b.log = captureUpstreamResponseBody(captureResponseBody(a.log, n), came)
             \/ b.log = captureResponseBody(a.log, came)
  <2>1. PICK came \in {0, a.answer.lines[1].size} :
          \/ \E n \in Sizes : Local(s, [a EXCEPT !.at = "row",
                                    !.log = captureUpstreamResponseBody(captureResponseBody(a.log, n), came)])
          \/ Local(s, [a EXCEPT !.at = "row", !.log = captureResponseBody(a.log, came)])
    BY DEF EndError
  <2>2. PICK log : /\ Local(s, [a EXCEPT !.at = "row", !.log = log])
                   /\ \/ \E n \in Nat : log = captureUpstreamResponseBody(captureResponseBody(a.log, n), came)
                      \/ log = captureResponseBody(a.log, came)
    BY <2>1, SizesAssumption
  <2> DEFINE b == [a EXCEPT !.at = "row", !.log = log]
  <2>3. /\ DOMAIN b = DOMAIN Free /\ b.at = "row" /\ b.plan = a.plan /\ b.code = a.code
        /\ b.retried = a.retried /\ b.come = a.come /\ b.read = a.read /\ b.log = log
    BY <1>1, FreeFields DEF IsAttempt
  <2> QED BY <1>3, <2>1, <2>2, <2>3
<1>5. /\ b.log \in Logs /\ Bounded(b.log) /\ b.log.max = a.log.max
      /\ b.log.requestTruncated = a.log.requestTruncated
      /\ b.log.whole["request"] = a.log.whole["request"]
      /\ b.log.whole["upstreamRequest"] = a.log.whole["upstreamRequest"]
      /\ b.log.responseTruncated <=> Over(b.log, "response") \/ Over(b.log, "upstreamResponse")
  <2>1. /\ ~a.log.responseTruncated /\ ~Over(a.log, "response") /\ ~Over(a.log, "upstreamResponse")
        /\ a.log.whole["response"] = 0 /\ a.log.whole["upstreamResponse"] = 0
    BY <1>1, <1>2 DEF NoResponse, Over, Logs
  <2> PICK came \in Nat :
        \/ \E n \in Nat : b.log = captureUpstreamResponseBody(captureResponseBody(a.log, n), came)
        \/ b.log = captureResponseBody(a.log, came)
    BY <1>4
  <2>2. CASE \E n \in Nat : b.log = captureUpstreamResponseBody(captureResponseBody(a.log, n), came)
    <3>1. PICK n \in Nat : b.log = captureUpstreamResponseBody(captureResponseBody(a.log, n), came)
      BY <2>2
    <3> DEFINE client == captureResponseBody(a.log, n)
    <3>2. b.log = captureUpstreamResponseBody(client, came) /\ client = captureResponseBody(a.log, n)
      BY <3>1
    <3> HIDE DEF client
    <3>3. /\ client \in Logs /\ Bounded(client) /\ client.max = a.log.max /\ client.on = a.log.on
          /\ client.requestTruncated = a.log.requestTruncated
          /\ ~a.log.on => client = a.log
          /\ a.log.on => /\ client.whole = [a.log.whole EXCEPT !["response"] = n]
                         /\ client.responseTruncated = (n > a.log.max)
      BY <1>1, <3>2, ClientEffect
    <3>4. /\ b.log \in Logs /\ Bounded(b.log) /\ b.log.max = client.max
          /\ b.log.requestTruncated = client.requestTruncated
          /\ ~client.on => b.log = client
          /\ client.on => /\ b.log.whole = [client.whole EXCEPT !["upstreamResponse"] = came]
                          /\ b.log.responseTruncated = (client.responseTruncated \/ came > client.max)
      BY <3>2, <3>3, UpstreamEffect
    <3> QED BY <1>1, <2>1, <3>3, <3>4 DEF Over, Logs, Bodies
  <2>3. CASE b.log = captureResponseBody(a.log, came)
    <3>1. /\ b.log \in Logs /\ Bounded(b.log) /\ b.log.max = a.log.max
          /\ b.log.requestTruncated = a.log.requestTruncated
          /\ ~a.log.on => b.log = a.log
          /\ a.log.on => /\ b.log.whole = [a.log.whole EXCEPT !["response"] = came]
                         /\ b.log.responseTruncated = (came > a.log.max)
      BY <1>1, <2>3, ClientEffect
    <3> QED BY <1>1, <2>1, <3>1 DEF Over, Logs, Bodies
  <2> QED BY <2>2, <2>3
<1>6. IsAttempt(b)
  BY <1>1, <1>4, <1>5 DEF IsAttempt, Steps
<1>7. RequestTold(b)
  BY <1>1, <1>4, <1>5 DEF RequestTold, Over
<1>8. AttemptTold(b)
  BY <1>2, <1>4, <1>5 DEF AttemptTold, ResponseTold
<1> QED
  BY <1>4, <1>6, <1>7, <1>8, OneStep DEF Local

\* The row is added behind the others; a payload to come tells of it.
LEMMA InsertRowStep ==
  ASSUME LogInv, NEW s \in Slots, InsertRow(s)
  PROVE  LogInv'
<1> DEFINE a == attempt[s]
<1>1. IsAttempt(a) /\ RequestTold(a) /\ AttemptTold(a) /\ a.at = "row"
  BY DEF LogInv, InsertRow
<1>2. PICK row : /\ rows' = Append(rows, row) /\ row.plan = a.plan /\ row.code = a.code
  BY DEF InsertRow
<1>3. /\ Len(rows) \in Nat /\ DOMAIN rows = 1..Len(rows) /\ DOMAIN rows' = 1..(Len(rows) + 1)
      /\ rows'[Len(rows) + 1] = row /\ \A i \in DOMAIN rows : rows'[i] = rows[i]
      /\ IsRows'
  <2>1. PICK S : rows \in Seq(S)
    BY DEF LogInv, IsRows
  <2>2. rows \in Seq(S \cup {row})
    BY <2>1
  <2> QED BY <1>2, <2>2 DEF IsRows
<1>4. PICK b : /\ Goes(s, b)
               /\ \/ b = Free
                  \/ b = [a EXCEPT !.at = "payload", !.row = Len(rows) + 1]
  BY DEF InsertRow
<1>5. /\ IsAttempt(b) /\ RequestTold(b) /\ AttemptTold(b)
      /\ b.at = "payload" => b.row = Len(rows) + 1 /\ b.plan = a.plan /\ b.code = a.code
  <2>1. CASE b = Free
    BY <2>1, FreeTold
  <2>2. CASE b = [a EXCEPT !.at = "payload", !.row = Len(rows) + 1]
    <3>1. /\ DOMAIN b = DOMAIN Free /\ b.at = "payload" /\ b.plan = a.plan /\ b.code = a.code /\ b.log = a.log
          /\ b.retried = a.retried /\ b.come = a.come /\ b.read = a.read /\ b.row = Len(rows) + 1
      BY <1>1, <2>2, FreeFields DEF IsAttempt
    <3> QED BY <1>1, <3>1 DEF IsAttempt, RequestTold, AttemptTold, Steps
  <2> QED BY <1>4, <2>1, <2>2
<1>6. /\ DOMAIN attempt' = Slots /\ attempt'[s] = b
      /\ \A r \in Slots \ {s} : attempt'[r] = attempt[r]
      /\ UNCHANGED <<load, settings, payloads>>
  BY <1>4 DEF Goes, LogInv, InsertRow
<1>7. \A r \in Slots : IsAttempt(attempt[r])' /\ RequestTold(attempt'[r]) /\ AttemptTold(attempt'[r])
  BY <1>5, <1>6 DEF LogInv, IsAttempt
<1>8. \A r \in Slots : attempt'[r].at = "payload" =>
        /\ attempt'[r].row \in DOMAIN rows'
        /\ rows'[attempt'[r].row].plan = attempt'[r].plan /\ rows'[attempt'[r].row].code = attempt'[r].code
  <2> TAKE r \in Slots
  <2>1. CASE r = s
    BY <1>2, <1>3, <1>5, <1>6, <2>1
  <2>2. CASE r # s
    BY <1>3, <1>6, <2>2 DEF LogInv
  <2> QED BY <2>1, <2>2
<1>9. /\ DOMAIN payloads' \subseteq DOMAIN rows'
      /\ \A i \in DOMAIN payloads' : RowTold(payloads'[i].log, rows'[i])
  BY <1>3, <1>6 DEF LogInv
<1> QED
  BY <1>3, <1>6, <1>7, <1>8, <1>9 DEF LogInv

LEMMA InsertPayloadStep ==
  ASSUME LogInv, NEW s \in Slots, InsertPayload(s)
  PROVE  LogInv'
<1> DEFINE a == attempt[s]
<1>1. /\ IsAttempt(a) /\ RequestTold(a) /\ AttemptTold(a) /\ a.at = "payload"
      /\ a.row \in DOMAIN rows /\ rows[a.row].plan = a.plan /\ rows[a.row].code = a.code
  BY DEF LogInv, InsertPayload
<1>2. /\ DOMAIN payloads' = DOMAIN payloads \cup {a.row}
      /\ payloads'[a.row].log = a.log
      /\ \A i \in DOMAIN payloads \ {a.row} : payloads'[i] = payloads[i]
  BY DEF InsertPayload
<1>3. RowTold(a.log, rows[a.row])
  BY <1>1 DEF RowTold, IsAttempt, RequestTold, AttemptTold, ResponseTold
<1>4. /\ DOMAIN attempt' = Slots /\ attempt'[s] = Free
      /\ \A r \in Slots \ {s} : attempt'[r] = attempt[r]
      /\ UNCHANGED <<load, settings, rows>>
  BY DEF Goes, LogInv, InsertPayload
<1>5. \A r \in Slots : IsAttempt(attempt[r])' /\ RequestTold(attempt'[r]) /\ AttemptTold(attempt'[r])
  BY <1>4, FreeTold DEF LogInv, IsAttempt
<1>6. \A r \in Slots : attempt'[r].at = "payload" =>
        /\ attempt'[r].row \in DOMAIN rows
        /\ rows[attempt'[r].row].plan = attempt'[r].plan /\ rows[attempt'[r].row].code = attempt'[r].code
  BY <1>4, FreeTold DEF LogInv
<1>7. /\ DOMAIN payloads' \subseteq DOMAIN rows
      /\ \A i \in DOMAIN payloads' : RowTold(payloads'[i].log, rows[i])
  BY <1>1, <1>2, <1>3 DEF LogInv
<1> QED
  BY <1>4, <1>5, <1>6, <1>7 DEF LogInv, IsRows

\* An insert that fails, and a crash, leave places free.
LEMMA LostStep ==
  ASSUME LogInv, Crash \/ \E s \in Slots : InsertFails(s)
  PROVE  LogInv'
<1>1. /\ DOMAIN attempt' = Slots /\ UNCHANGED <<load, settings, rows, payloads>>
      /\ \A r \in Slots : attempt'[r] = attempt[r] \/ attempt'[r] = Free
  BY DEF Crash, InsertFails, Local, Goes, LogInv
<1>2. \A r \in Slots : IsAttempt(attempt[r])' /\ RequestTold(attempt'[r]) /\ AttemptTold(attempt'[r])
  BY <1>1, FreeTold DEF LogInv, IsAttempt
<1>3. \A r \in Slots : attempt'[r].at = "payload" =>
        /\ attempt'[r].row \in DOMAIN rows
        /\ rows[attempt'[r].row].plan = attempt'[r].plan /\ rows[attempt'[r].row].code = attempt'[r].code
  BY <1>1, FreeTold DEF LogInv
<1> QED
  BY <1>1, <1>2, <1>3 DEF LogInv, IsRows

LEMMA LogInvNext == LogInv /\ [Next]_vars => LogInv'
<1> SUFFICES ASSUME LogInv, [Next]_vars
             PROVE  LogInv'
  OBVIOUS
<1>1. ASSUME NEW s \in Slots,
             \/ \E p \in load.plans : Start(s, p)
             \/ \E a \in attempt[s].plan.answers : AnswerArrives(s, a)
             \/ PostFails(s) \/ ReadLine(s) \/ EndBody(s) \/ Translate(s) \/ BodyBreaks(s)
             \/ AsksAgain(s) \/ EndError(s)
             \/ InsertRow(s) \/ InsertPayload(s)
      PROVE  LogInv'
  BY <1>1, StartStep, AskSteps, ReadStep, BodyEnds, EndErrorStep, InsertRowStep, InsertPayloadStep
<1>2. CASE Crash \/ \E s \in Slots : InsertFails(s)
  BY <1>2, LostStep
<1>3. CASE SaveSettings \/ HourPasses \/ UNCHANGED vars
  <2>1. /\ UNCHANGED <<load, attempt, rows, payloads>> /\ settings' \in load.settings
    BY <1>3 DEF SaveSettings, HourPasses, vars, LogInv
  <2> QED BY <2>1 DEF LogInv, IsRows, IsAttempt
<1> QED
  BY <1>1, <1>2, <1>3 DEF Next

LEMMA LogInvInit == Init => LogInv
<1> SUFFICES ASSUME Init PROVE LogInv
  OBVIOUS
<1>1. /\ DOMAIN attempt = Slots /\ \A s \in Slots : attempt[s] = Free
      /\ DOMAIN payloads = {} /\ DOMAIN rows = {} /\ rows = <<>>
  BY DEF Init
<1>2. \A s \in Slots : /\ IsAttempt(attempt[s]) /\ RequestTold(attempt[s]) /\ AttemptTold(attempt[s])
                       /\ attempt[s].at # "payload"
  BY <1>1, FreeTold
<1>3. IsRows
  BY <1>1 DEF IsRows
<1> QED
  BY <1>1, <1>2, <1>3 DEF LogInv, Init

\* A stored payload marks the pair of bodies of which one was cut, and no other, whatever the caps and the
\* sizes, and whatever runs at the same time; only of a translated answer the cut of the upstream's body
\* may go untold (services/rawlog.go, providerrelay.go, deepseek_adapter.go).
THEOREM CutToldHolds == Spec => []CutTold
<1>1. LogInv => CutTold
  <2> SUFFICES ASSUME LogInv, NEW i \in DOMAIN rows
               PROVE  LET log == GetRequestLogPayload(i).log
                          translated == rows[i].plan.adapted /\ Success(rows[i].code)
                      IN /\ log.requestTruncated <=> CutIn(log, "request") \/ CutIn(log, "upstreamRequest")
                         /\ log.responseTruncated => CutIn(log, "response") \/ CutIn(log, "upstreamResponse")
                         /\ CutIn(log, "response") => log.responseTruncated
                         /\ CutIn(log, "upstreamResponse") => log.responseTruncated \/ translated
    BY DEF CutTold
  <2> DEFINE log == GetRequestLogPayload(i).log
  <2>1. RowTold(log, rows[i])
    <3>1. CASE i \in DOMAIN payloads
      BY <3>1 DEF GetRequestLogPayload, LogInv
    <3>2. CASE i \notin DOMAIN payloads
      <4>1. log = NoLog
        BY <3>2 DEF GetRequestLogPayload
      <4>2. /\ NoLog.requestTruncated = FALSE /\ NoLog.responseTruncated = FALSE /\ NoLog.max = 1
            /\ NoLog.whole = [b \in Bodies |-> 0]
        BY DEF NoLog
      <4> HIDE DEF log
      <4> QED BY <4>1, <4>2, NoLogEffect DEF RowTold, ResponseTold, Over, Bodies
    <3> QED BY <3>1, <3>2
  <2> HIDE DEF log
  <2>2. \A b \in Bodies : CutIn(log, b) <=> Over(log, b)
    BY <2>1, CutIsOver DEF RowTold
  <2> QED BY <2>1, <2>2 DEF RowTold, ResponseTold, Bodies, log
<1> QED
  BY <1>1, LogInvInit, LogInvNext, PTL DEF Spec

-----------------------------------------------------------------------------
(* Whose row, and whose payload.                                           *)

\* Attempts have numbers of their own, which go with what they write.
OwnInv ==
  /\ \A s \in Slots : attempt[s].at # "free" => attempt[s].id \in 1..made
  /\ \A s, r \in Slots :
       attempt[s].at # "free" /\ attempt[r].at # "free" /\ attempt[s].id = attempt[r].id => s = r
  /\ \A s \in Slots : attempt[s].at \notin {"free", "payload"} =>
       \A i \in DOMAIN rows : rows[i].id # attempt[s].id
  /\ \A s \in Slots : attempt[s].at = "payload" => attempt[s].log.on /\ rows[attempt[s].row].id = attempt[s].id
  /\ \A i \in DOMAIN rows : rows[i].id \in 1..made
  /\ \A i, j \in DOMAIN rows : rows[i].id = rows[j].id => i = j
  /\ \A i \in DOMAIN payloads : payloads[i].log.on /\ payloads[i].id = rows[i].id

BoundInv ==
  /\ clock \in FirstHour..FirstHour + load.hours
  /\ made \in 0..load.attempts /\ changes \in 0..load.changes

\* The steps that an attempt takes between its start and its row.
Onward(s) ==
  \/ \E x \in attempt[s].plan.answers : AnswerArrives(s, x)
  \/ PostFails(s) \/ ReadLine(s) \/ EndBody(s) \/ Translate(s) \/ BodyBreaks(s) \/ AsksAgain(s) \/ EndError(s)

LEMMA LocalEffect ==
  ASSUME LogInv, NEW s \in Slots, NEW a, Local(s, a)
  PROVE  /\ attempt'[s] = a
         /\ \A r \in Slots \ {s} : attempt'[r] = attempt[r]
         /\ UNCHANGED <<load, clock, settings, rows, payloads, made, changes>>
BY DEF Local, Goes, LogInv

\* What such a step does to the step, the answer and the tokens.
Arrives(a, b) ==
  /\ a.at = "ask" /\ b.answer \in a.plan.answers
  /\ b.at = IF Success(b.answer.code) THEN "body" ELSE "error"
  /\ b.read = a.read /\ b.tokens = a.tokens /\ b.done = a.done

Reads(a, b) ==
  /\ a.at = "body" /\ b.at = "body" /\ a.read < Len(a.answer.lines)
  /\ b.answer = a.answer /\ b.read = a.read + 1 /\ b.done = a.done
  /\ b.tokens = IF a.plan.adapted THEN a.tokens ELSE Parsed(a.plan, a.answer.lines[a.read + 1], a.tokens)

Completes(a, b) ==
  /\ a.at = "body" /\ b.at = "row" /\ a.read = Len(a.answer.lines)
  /\ b.answer = a.answer /\ b.done
  /\ b.tokens = IF a.plan.adapted THEN Translated(a.plan, a.answer, a.tokens) ELSE a.tokens

GivesUp(a, b) ==
  /\ a.at \in {"ask", "body", "error"} /\ b.at \in {"row", "ask"} /\ (b.at = "ask" => a.at = "error")
  /\ b.answer = a.answer /\ b.read = a.read /\ b.tokens = a.tokens /\ b.done = a.done

\* The attempt stays the same one, and is for the same.
LEMMA OnwardEffect ==
  ASSUME LogInv, NEW s \in Slots, Onward(s)
  PROVE  /\ attempt[s].at \in {"ask", "body", "error"}
         /\ attempt'[s].at \in {"ask", "body", "error", "row"}
         /\ attempt'[s].id = attempt[s].id /\ attempt'[s].plan = attempt[s].plan
         /\ \/ Arrives(attempt[s], attempt'[s]) \/ Reads(attempt[s], attempt'[s])
            \/ Completes(attempt[s], attempt'[s]) \/ GivesUp(attempt[s], attempt'[s])
         /\ \A r \in Slots \ {s} : attempt'[r] = attempt[r]
         /\ UNCHANGED <<load, clock, settings, rows, payloads, made, changes>>
<1> DEFINE a == attempt[s]
<1>1. DOMAIN a = {"at", "id", "plan", "answer", "read", "come", "retried", "code", "tokens", "log", "done", "row"}
  BY FreeFields DEF LogInv, IsAttempt
<1>2. PICK b : /\ Local(s, b) /\ b.id = a.id /\ b.plan = a.plan
               /\ Arrives(a, b) \/ Reads(a, b) \/ Completes(a, b) \/ GivesUp(a, b)
  <2>1. CASE \E x \in a.plan.answers : AnswerArrives(s, x)
    <3> PICK x \in a.plan.answers : AnswerArrives(s, x)
      BY <2>1
    <3> DEFINE b == [a EXCEPT !.at = IF Success(x.code) THEN "body" ELSE "error", !.code = x.code, !.answer = x]
    <3>1. a.at = "ask" /\ Local(s, b)
      BY DEF AnswerArrives
    <3>2. b.id = a.id /\ b.plan = a.plan /\ Arrives(a, b)
      BY <1>1, <3>1 DEF Arrives
    <3> QED BY <3>1, <3>2
  <2>2. CASE PostFails(s)
    <3> DEFINE b == [a EXCEPT !.at = "row"]
    <3>1. a.at = "ask" /\ Local(s, b)
      BY <2>2 DEF PostFails
    <3>2. b.id = a.id /\ b.plan = a.plan /\ GivesUp(a, b)
      BY <1>1, <3>1 DEF GivesUp
    <3> QED BY <3>1, <3>2
  <2>3. CASE ReadLine(s)
    <3> DEFINE line == a.answer.lines[a.read + 1]
               read == a.read + 1
               come == a.come + line.size
               log == responseHook(a.log, line.size)
               tokens == Parsed(a.plan, line, a.tokens)
    <3>0. a.at = "body" /\ a.read < Len(a.answer.lines)
      BY <2>3 DEF ReadLine
    <3>1. CASE a.plan.adapted
      <4> DEFINE b == [a EXCEPT !.read = read, !.come = come]
      <4>1. Local(s, b)
        BY <2>3, <3>1 DEF ReadLine
      <4>2. b.id = a.id /\ b.plan = a.plan /\ b.at = a.at /\ b.read = read /\ b.answer = a.answer
            /\ b.tokens = a.tokens /\ b.done = a.done
        BY <1>1
      <4>3. Reads(a, b)
        BY <3>0, <3>1, <4>2 DEF Reads
      <4> QED BY <4>1, <4>2, <4>3
    <3>2. CASE ~a.plan.adapted
      <4> DEFINE b == [a EXCEPT !.read = read, !.log = log, !.tokens = tokens]
      <4>1. Local(s, b)
        BY <2>3, <3>2 DEF ReadLine
      <4>2. b.id = a.id /\ b.plan = a.plan /\ b.at = a.at /\ b.read = read /\ b.answer = a.answer
            /\ b.tokens = tokens /\ b.done = a.done
        BY <1>1
      <4>3. Reads(a, b)
        BY <3>0, <3>2, <4>2 DEF Reads
      <4> QED BY <4>1, <4>2, <4>3
    <3> QED BY <3>1, <3>2
  <2>4. CASE EndBody(s)
    <3> DEFINE b == [a EXCEPT !.at = "row", !.done = TRUE]
    <3>1. a.at = "body" /\ ~a.plan.adapted /\ a.read = Len(a.answer.lines) /\ Local(s, b)
      BY <2>4 DEF EndBody
    <3>2. b.id = a.id /\ b.plan = a.plan /\ Completes(a, b)
      BY <1>1, <3>1 DEF Completes
    <3> QED BY <3>1, <3>2
  <2>5. CASE Translate(s)
    <3> DEFINE log(n) == captureResponseBody(captureUpstreamResponseBody(a.log, a.come), n)
               tokens == Translated(a.plan, a.answer, a.tokens)
               b(n) == [a EXCEPT !.at = "row", !.done = TRUE, !.log = log(n), !.tokens = tokens]
    <3>1. a.at = "body" /\ a.plan.adapted /\ a.read = Len(a.answer.lines) /\ \E n \in Sizes : Local(s, b(n))
      BY <2>5 DEF Translate
    <3> HIDE DEF tokens, log
    <3>2. PICK n \in Sizes : Local(s, b(n))
      BY <3>1
    <3>3. b(n).id = a.id /\ b(n).plan = a.plan /\ b(n).at = "row" /\ b(n).done = TRUE /\ b(n).answer = a.answer
          /\ b(n).tokens = tokens
      BY <1>1
    <3>4. Completes(a, b(n))
      BY <3>1, <3>3 DEF Completes, tokens
    <3> QED BY <3>2, <3>3, <3>4
  <2>6. CASE BodyBreaks(s) \/ EndError(s) \/ AsksAgain(s)
    <3>1. PICK log, step, retried :
            /\ Local(s, [a EXCEPT !.at = step, !.log = log, !.retried = retried])
            /\ \/ step = "row" /\ a.at \in {"body", "error"}
               \/ step = "ask" /\ a.at = "error"
      <4> DEFINE b(step, log, retried) == [a EXCEPT !.at = step, !.log = log, !.retried = retried]
      <4>1. \A log : [a EXCEPT !.at = "row", !.log = log] = b("row", log, a.retried)
        BY <1>1
      <4>2. [a EXCEPT !.at = "row"] = b("row", a.log, a.retried)
        BY <1>1
      <4>3. \A log : [a EXCEPT !.at = "ask", !.retried = TRUE, !.log = log] = b("ask", log, TRUE)
        BY <1>1
      <4>4. CASE BodyBreaks(s)
        <5>1. a.at = "body" /\ (Local(s, [a EXCEPT !.at = "row"]) \/ \E log : Local(s, [a EXCEPT !.at = "row", !.log = log]))
          BY <4>4 DEF BodyBreaks
        <5> QED BY <4>1, <4>2, <5>1
      <4>5. CASE EndError(s)
        <5>1. a.at = "error" /\ \E log : Local(s, [a EXCEPT !.at = "row", !.log = log])
          BY <4>5 DEF EndError
        <5> QED BY <4>1, <5>1
      <4>6. CASE AsksAgain(s)
        <5>1. a.at = "error" /\ \E log : Local(s, [a EXCEPT !.at = "ask", !.retried = TRUE, !.log = log])
          BY <4>6 DEF AsksAgain
        <5> QED BY <4>3, <5>1
      <4> QED BY <2>6, <4>4, <4>5, <4>6
    <3> DEFINE b == [a EXCEPT !.at = step, !.log = log, !.retried = retried]
    <3>2. b.id = a.id /\ b.plan = a.plan /\ b.at = step /\ b.answer = a.answer
          /\ b.read = a.read /\ b.tokens = a.tokens /\ b.done = a.done
      BY <1>1
    <3>3. GivesUp(a, b)
      BY <3>1, <3>2 DEF GivesUp
    <3> QED BY <3>1, <3>2, <3>3
  <2> QED BY <2>1, <2>2, <2>3, <2>4, <2>5, <2>6 DEF Onward
<1>3. /\ attempt'[s] = b /\ \A r \in Slots \ {s} : attempt'[r] = attempt[r]
      /\ UNCHANGED <<load, clock, settings, rows, payloads, made, changes>>
  BY <1>2, LocalEffect
<1>4. a.at \in {"ask", "body", "error"} /\ b.at \in {"ask", "body", "error", "row"}
  BY <1>2 DEF Arrives, Reads, Completes, GivesUp
<1> QED
  BY <1>2, <1>3, <1>4

LEMMA OnwardOwn ==
  ASSUME LogInv, OwnInv, NEW s \in Slots, Onward(s)
  PROVE  OwnInv'
<1>1. /\ attempt[s].at \notin {"free", "payload"} /\ attempt'[s].at \notin {"free", "payload"}
      /\ attempt'[s].id = attempt[s].id
      /\ \A r \in Slots \ {s} : attempt'[r] = attempt[r]
      /\ UNCHANGED <<rows, payloads, made>>
  BY OnwardEffect
<1> QED
  BY <1>1 DEF OwnInv

LEMMA StartEffect ==
  ASSUME LogInv, NEW s \in Slots, NEW p \in load.plans, Start(s, p)
  PROVE  /\ attempt[s].at = "free" /\ made < load.attempts /\ made' = made + 1
         /\ attempt'[s].at \in {"ask", "row"} /\ attempt'[s].id = made + 1 /\ attempt'[s].plan = p
         /\ attempt'[s].tokens = NoTokens /\ attempt'[s].read = 0 /\ attempt'[s].done = FALSE
         /\ \A r \in Slots \ {s} : attempt'[r] = attempt[r]
         /\ UNCHANGED <<load, clock, settings, rows, payloads, changes>>
<1> DEFINE log == newRawLogCapture(settings, p.request)
           a == [Free EXCEPT !.at = "ask", !.id = made + 1, !.plan = p, !.log = log]
<1>1. /\ attempt[s].at = "free" /\ made < load.attempts /\ made' = made + 1
      /\ UNCHANGED <<load, clock, settings, rows, payloads, changes>>
      /\ \E at \in {"ask", "row"} : \E l : Goes(s, [a EXCEPT !.at = at, !.log = l])
  <2>1. /\ a = [a EXCEPT !.at = "ask", !.log = log]
        /\ [a EXCEPT !.at = "row"] = [a EXCEPT !.at = "row", !.log = log]
        /\ \A l : [a EXCEPT !.log = l] = [a EXCEPT !.at = "ask", !.log = l]
    BY DEF Free
  <2>2. \/ \E n \in Sizes : Goes(s, [a EXCEPT !.log = captureUpstreamRequestBody(log, n)])
        \/ Goes(s, [a EXCEPT !.at = "row"])
        \/ Goes(s, a)
    BY DEF Start
  <2>3. \E at \in {"ask", "row"} : \E l : Goes(s, [a EXCEPT !.at = at, !.log = l])
    <3> HIDE DEF a, log
    <3>1. CASE \E n \in Sizes : Goes(s, [a EXCEPT !.log = captureUpstreamRequestBody(log, n)])
      <4> PICK n \in Sizes : Goes(s, [a EXCEPT !.log = captureUpstreamRequestBody(log, n)])
        BY <3>1
      <4> DEFINE sent == captureUpstreamRequestBody(log, n)
      <4>1. Goes(s, [a EXCEPT !.log = sent])
        OBVIOUS
      <4> HIDE DEF sent
      <4>2. [a EXCEPT !.log = sent] = [a EXCEPT !.at = "ask", !.log = sent]
        BY <2>1
      <4>3. Goes(s, [a EXCEPT !.at = "ask", !.log = sent])
        BY <4>1, <4>2
      <4> QED BY <4>3
    <3>2. CASE Goes(s, [a EXCEPT !.at = "row"])
      <4>1. Goes(s, [a EXCEPT !.at = "row", !.log = log])
        BY <2>1, <3>2
      <4> QED BY <4>1
    <3>3. CASE Goes(s, a)
      <4>1. Goes(s, [a EXCEPT !.at = "ask", !.log = log])
        BY <2>1, <3>3
      <4> QED BY <4>1
    <3> QED BY <2>2, <3>1, <3>2, <3>3
  <2> QED BY <2>3 DEF Start
<1> PICK at \in {"ask", "row"} : \E l : Goes(s, [a EXCEPT !.at = at, !.log = l])
  BY <1>1
<1>2. PICK l : Goes(s, [a EXCEPT !.at = at, !.log = l])
  OBVIOUS
<1> DEFINE b == [a EXCEPT !.at = at, !.log = l]
<1>3. /\ b.at = at /\ b.id = made + 1 /\ b.plan = p /\ b.tokens = NoTokens /\ b.read = 0 /\ b.done = FALSE
  BY DEF Free
<1>4. attempt'[s] = b /\ \A r \in Slots \ {s} : attempt'[r] = attempt[r]
  BY <1>2 DEF Goes, LogInv
<1> QED
  BY <1>1, <1>3, <1>4

LEMMA BoundTypes ==
  ASSUME LogInv, BoundInv
  PROVE  load.hours \in Nat /\ load.attempts \in Nat /\ load.changes \in Nat /\ FirstHour \in Int /\ made \in Nat
<1>1. load.hours \in Nat /\ load.attempts \in Nat /\ load.changes \in Nat
  BY WorkloadsAssumption DEF LogInv
<1>2. FirstHour \in Int
  BY DaysAssumption DEF FirstHour
<1> QED BY <1>1, <1>2 DEF BoundInv

LEMMA StartOwn ==
  ASSUME LogInv, OwnInv, BoundInv, NEW s \in Slots, NEW p \in load.plans, Start(s, p)
  PROVE  OwnInv'
<1>1. /\ attempt[s].at = "free" /\ made' = made + 1 /\ made \in Nat
      /\ attempt'[s].at \in {"ask", "row"} /\ attempt'[s].id = made + 1
      /\ \A r \in Slots \ {s} : attempt'[r] = attempt[r]
      /\ UNCHANGED <<rows, payloads>>
  BY StartEffect, BoundTypes
<1>2. \A n \in 1..made : n \in 1..made' /\ n # made + 1
  BY <1>1
<1>3. made + 1 \in 1..made'
  BY <1>1
<1> QED
  BY <1>1, <1>2, <1>3 DEF OwnInv

LEMMA InsertRowEffect ==
  ASSUME LogInv, NEW s \in Slots, InsertRow(s)
  PROVE  /\ attempt[s].at = "row"
         /\ \/ attempt'[s] = Free
            \/ /\ attempt'[s].at = "payload" /\ attempt'[s].id = attempt[s].id /\ attempt'[s].row = Len(rows) + 1
               /\ attempt'[s].log.on /\ attempt'[s].tokens = attempt[s].tokens
         /\ \A r \in Slots \ {s} : attempt'[r] = attempt[r]
         /\ Len(rows) + 1 \notin DOMAIN rows
         /\ DOMAIN rows' = DOMAIN rows \cup {Len(rows) + 1}
         /\ \A i \in DOMAIN rows : rows'[i] = rows[i]
         /\ rows'[Len(rows) + 1].time = clock /\ rows'[Len(rows) + 1].id = attempt[s].id
         /\ rows'[Len(rows) + 1].tokens = attempt[s].tokens /\ rows'[Len(rows) + 1].done = attempt[s].done
         /\ rows'[Len(rows) + 1].plan = attempt[s].plan /\ rows'[Len(rows) + 1].answer = attempt[s].answer
         /\ UNCHANGED <<load, clock, settings, payloads, made, changes>>
<1> DEFINE a == attempt[s]
<1>1. PICK S : rows \in Seq(S)
  BY DEF LogInv, IsRows
<1>2. DOMAIN rows = 1..Len(rows) /\ Len(rows) \in Nat
  BY <1>1
<1>3. \A row : /\ DOMAIN Append(rows, row) = 1..(Len(rows) + 1) /\ Append(rows, row)[Len(rows) + 1] = row
               /\ \A i \in DOMAIN rows : Append(rows, row)[i] = rows[i]
  BY <1>1, <1>2
<1>4. 1..(Len(rows) + 1) = 1..Len(rows) \cup {Len(rows) + 1} /\ Len(rows) + 1 \notin 1..Len(rows)
  BY <1>2
<1>5. DOMAIN a = {"at", "id", "plan", "answer", "read", "come", "retried", "code", "tokens", "log", "done", "row"}
  BY FreeFields DEF LogInv, IsAttempt
<1>6. \/ attempt'[s] = Free
      \/ /\ attempt'[s].at = "payload" /\ attempt'[s].id = a.id /\ attempt'[s].row = Len(rows) + 1
         /\ attempt'[s].log.on /\ attempt'[s].tokens = a.tokens
  <2>1. CASE a.log.on
    <3> DEFINE b == [a EXCEPT !.at = "payload", !.row = Len(rows) + 1]
    <3>1. attempt'[s] = b
      BY <2>1 DEF InsertRow, Goes, LogInv
    <3>2. b.at = "payload" /\ b.id = a.id /\ b.row = Len(rows) + 1 /\ b.log = a.log /\ b.tokens = a.tokens
      BY <1>5
    <3> QED BY <2>1, <3>1, <3>2
  <2>2. CASE ~a.log.on
    BY <2>2 DEF InsertRow, Goes, LogInv
  <2> QED BY <2>1, <2>2
<1>7. /\ a.at = "row" /\ \A r \in Slots \ {s} : attempt'[r] = attempt[r]
      /\ UNCHANGED <<load, clock, settings, payloads, made, changes>>
  BY DEF InsertRow, Goes, LogInv
<1> DEFINE row == [time |-> clock, platform |-> a.plan.platform, provider |-> a.plan.provider, code |-> a.code,
                   tokens |-> a.tokens, id |-> a.id, done |-> a.done, plan |-> a.plan, answer |-> a.answer]
<1>8. /\ row.time = clock /\ row.id = a.id /\ row.tokens = a.tokens /\ row.done = a.done /\ row.plan = a.plan
      /\ row.answer = a.answer
  OBVIOUS
<1>9. rows' = Append(rows, row)
  BY DEF InsertRow
<1> HIDE DEF row
<1>10. /\ DOMAIN rows' = DOMAIN rows \cup {Len(rows) + 1} /\ rows'[Len(rows) + 1] = row
       /\ \A i \in DOMAIN rows : rows'[i] = rows[i]
  BY <1>2, <1>3, <1>4, <1>9
<1> QED
  BY <1>2, <1>4, <1>6, <1>7, <1>8, <1>10

LEMMA InsertRowOwn ==
  ASSUME LogInv, OwnInv, NEW s \in Slots, InsertRow(s)
  PROVE  OwnInv'
<1> DEFINE n == Len(rows) + 1
<1>0. Free.at = "free"
  BY FreeTold
<1>1. /\ attempt[s].at = "row"
      /\ \/ attempt'[s].at = "free"
         \/ /\ attempt'[s].at = "payload" /\ attempt'[s].id = attempt[s].id /\ attempt'[s].row = n
            /\ attempt'[s].log.on
      /\ \A r \in Slots \ {s} : attempt'[r] = attempt[r]
      /\ n \notin DOMAIN rows /\ DOMAIN rows' = DOMAIN rows \cup {n}
      /\ \A i \in DOMAIN rows : rows'[i] = rows[i]
      /\ rows'[n].id = attempt[s].id
      /\ UNCHANGED <<payloads, made>>
  BY <1>0, InsertRowEffect
<1> HIDE DEF n
<1>2. attempt[s].id \in 1..made /\ \A i \in DOMAIN rows : rows[i].id # attempt[s].id
  BY <1>1 DEF OwnInv
<1>3. \A r \in Slots \ {s} : attempt[r].at # "free" => attempt[r].id # attempt[s].id
  BY <1>1 DEF OwnInv
<1>4. \A r \in Slots : attempt[r].at = "payload" => attempt[r].row \in DOMAIN rows
  BY DEF LogInv
<1>5. DOMAIN payloads \subseteq DOMAIN rows
  BY DEF LogInv
<1>6. /\ \A i \in DOMAIN rows' : rows'[i].id \in 1..made
      /\ \A i, j \in DOMAIN rows' : rows'[i].id = rows'[j].id => i = j
      /\ \A i \in DOMAIN payloads : payloads[i].log.on /\ payloads[i].id = rows'[i].id
  BY <1>1, <1>2, <1>5 DEF OwnInv
<1>7. \A r \in Slots : attempt'[r].at \notin {"free", "payload"} =>
        \A i \in DOMAIN rows' : rows'[i].id # attempt'[r].id
  BY <1>1, <1>3 DEF OwnInv
<1>8. \A r \in Slots : attempt'[r].at = "payload" =>
        attempt'[r].log.on /\ rows'[attempt'[r].row].id = attempt'[r].id
  BY <1>1, <1>4 DEF OwnInv
<1>9. \A r \in Slots : attempt'[r].at # "free" => attempt'[r].id = attempt[r].id /\ attempt[r].at # "free"
  BY <1>1
<1>10. /\ \A r \in Slots : attempt'[r].at # "free" => attempt'[r].id \in 1..made
       /\ \A q, r \in Slots :
            attempt'[q].at # "free" /\ attempt'[r].at # "free" /\ attempt'[q].id = attempt'[r].id => q = r
  BY <1>9 DEF OwnInv
<1> QED
  BY <1>1, <1>6, <1>7, <1>8, <1>10 DEF OwnInv

LEMMA InsertPayloadEffect ==
  ASSUME LogInv, NEW s \in Slots, InsertPayload(s)
  PROVE  /\ attempt[s].at = "payload" /\ attempt'[s] = Free
         /\ \A r \in Slots \ {s} : attempt'[r] = attempt[r]
         /\ DOMAIN payloads' = DOMAIN payloads \cup {attempt[s].row}
         /\ payloads'[attempt[s].row].log = attempt[s].log /\ payloads'[attempt[s].row].id = attempt[s].id
         /\ \A i \in DOMAIN payloads \ {attempt[s].row} : payloads'[i] = payloads[i]
         /\ UNCHANGED <<load, clock, settings, rows, made, changes>>
BY DEF InsertPayload, Goes, LogInv

LEMMA InsertPayloadOwn ==
  ASSUME LogInv, OwnInv, NEW s \in Slots, InsertPayload(s)
  PROVE  OwnInv'
<1>0. Free.at = "free"
  BY FreeTold
<1>1. /\ attempt[s].at = "payload" /\ attempt'[s].at = "free"
      /\ \A r \in Slots \ {s} : attempt'[r] = attempt[r]
      /\ DOMAIN payloads' = DOMAIN payloads \cup {attempt[s].row}
      /\ payloads'[attempt[s].row].log = attempt[s].log /\ payloads'[attempt[s].row].id = attempt[s].id
      /\ \A i \in DOMAIN payloads \ {attempt[s].row} : payloads'[i] = payloads[i]
      /\ UNCHANGED <<rows, made>>
  BY <1>0, InsertPayloadEffect
<1>2. attempt[s].log.on /\ rows[attempt[s].row].id = attempt[s].id
  BY <1>1 DEF OwnInv
<1>3. \A i \in DOMAIN payloads' : payloads'[i].log.on /\ payloads'[i].id = rows[i].id
  BY <1>1, <1>2 DEF OwnInv
<1>4. \A r \in Slots : attempt'[r].at # "free" => attempt'[r] = attempt[r]
  BY <1>1
<1> QED
  BY <1>1, <1>3, <1>4 DEF OwnInv

\* Attempts that are no more.
LEMMA LostEffect ==
  ASSUME LogInv, Crash \/ \E s \in Slots : InsertFails(s)
  PROVE  /\ \A r \in Slots : attempt'[r] = attempt[r] \/ attempt'[r] = Free
         /\ UNCHANGED <<load, clock, settings, rows, payloads, made, changes>>
BY DEF Crash, InsertFails, Local, Goes, LogInv

LEMMA OwnNext == LogInv /\ BoundInv /\ OwnInv /\ [Next]_vars => OwnInv'
<1> SUFFICES ASSUME LogInv, BoundInv, OwnInv, [Next]_vars
             PROVE  OwnInv'
  OBVIOUS
<1>1. ASSUME NEW s \in Slots,
             Onward(s) \/ (\E p \in load.plans : Start(s, p)) \/ InsertRow(s) \/ InsertPayload(s)
      PROVE  OwnInv'
  BY <1>1, OnwardOwn, StartOwn, InsertRowOwn, InsertPayloadOwn
<1>2. CASE Crash \/ \E s \in Slots : InsertFails(s)
  <2>1. /\ \A r \in Slots : attempt'[r].at # "free" => attempt'[r] = attempt[r]
        /\ UNCHANGED <<rows, payloads, made>>
    BY <1>2, LostEffect, FreeTold
  <2> QED BY <2>1 DEF OwnInv
<1>3. CASE SaveSettings \/ HourPasses \/ UNCHANGED vars
  BY <1>3 DEF SaveSettings, HourPasses, vars, OwnInv
<1> QED
  BY <1>1, <1>2, <1>3 DEF Next, Onward

LEMMA BoundNext == LogInv /\ BoundInv /\ [Next]_vars => BoundInv'
<1> SUFFICES ASSUME LogInv, BoundInv, [Next]_vars
             PROVE  BoundInv'
  OBVIOUS
<1>0. load.hours \in Nat /\ load.attempts \in Nat /\ load.changes \in Nat /\ FirstHour \in Int /\ made \in Nat
  BY BoundTypes
<1>1. ASSUME NEW s \in Slots, Onward(s) \/ InsertRow(s) \/ InsertPayload(s)
      PROVE  BoundInv'
  <2>1. UNCHANGED <<load, clock, made, changes>>
    BY <1>1, OnwardEffect, InsertRowEffect, InsertPayloadEffect
  <2> QED BY <2>1 DEF BoundInv
<1>2. ASSUME NEW s \in Slots, NEW p \in load.plans, Start(s, p)
      PROVE  BoundInv'
  <2>1. made < load.attempts /\ made' = made + 1 /\ UNCHANGED <<load, clock, changes>>
    BY <1>2, StartEffect
  <2> QED BY <1>0, <2>1 DEF BoundInv
<1>3. CASE Crash \/ \E s \in Slots : InsertFails(s)
  <2>1. UNCHANGED <<load, clock, made, changes>>
    BY <1>3, LostEffect
  <2> QED BY <2>1 DEF BoundInv
<1>4. CASE SaveSettings \/ HourPasses \/ UNCHANGED vars
  BY <1>0, <1>4 DEF SaveSettings, HourPasses, vars, BoundInv
<1> QED
  BY <1>1, <1>2, <1>3, <1>4 DEF Next, Onward

-----------------------------------------------------------------------------
(* The tokens.                                                             *)

Usage == [Kinds -> Nat]

\* The kinds of tokens that Claude's parser takes from a line.
Reported(line, k) == line.form = "message" \/ (line.form = "top" /\ k # "cache")

\* What has been counted of an answer after its first n lines.
Counted(plan, answer, n, tokens) ==
  /\ plan.adapted => tokens = NoTokens
  /\ ~plan.adapted /\ plan.platform = "codex" =>
       tokens = IF \E i \in 1..n : answer.lines[i].form \in {"response", "top"} THEN answer.billed ELSE NoTokens
  /\ ~plan.adapted /\ plan.platform = "claude" =>
       /\ \A k \in Kinds : \A i \in 1..n :
            Reported(answer.lines[i], k) => answer.lines[i].tokens[k] <= tokens[k]
       /\ \A k \in Kinds :
            \/ tokens[k] = 0
            \/ \E i \in 1..n : Reported(answer.lines[i], k) /\ answer.lines[i].tokens[k] = tokens[k]

\* What the row of a whole answer has.
Right(plan, answer, tokens) ==
  LET again == IF plan.adapted THEN Announced(plan, answer) ELSE NoTokens IN
  tokens = Plus(Countable(plan, answer), Plus(again, again))

AttemptCounted(a) ==
  /\ a.tokens \in Usage
  /\ a.at \in {"ask", "error"} => a.read = 0 /\ a.tokens = NoTokens
  /\ a.at \in {"ask", "error", "body"} => ~a.done
  /\ a.at = "body" => /\ Success(a.answer.code) /\ a.read \in 0..Len(a.answer.lines)
                      /\ Counted(a.plan, a.answer, a.read, a.tokens)
  /\ a.at = "row" /\ a.done => Right(a.plan, a.answer, a.tokens)

CountInv ==
  /\ \A s \in Slots : AttemptCounted(attempt[s])
  /\ \A i \in DOMAIN rows : rows[i].done => Right(rows[i].plan, rows[i].answer, rows[i].tokens)

LEMMA NoUsage == NoTokens \in Usage /\ NoTokens = [k \in Kinds |-> 0]
BY DEF NoTokens, Tokens, Usage, Kinds

LEMMA PlusUsage ==
  ASSUME NEW t \in Usage, NEW u \in Usage
  PROVE  /\ Plus(t, u) \in Usage
         /\ Plus(NoTokens, t) = t /\ Plus(t, NoTokens) = t
<1>1. Plus(t, u) \in Usage
  BY DEF Plus, Usage
<1>2. /\ Plus(NoTokens, t) \in Usage /\ Plus(t, NoTokens) \in Usage
      /\ \A k \in Kinds : Plus(NoTokens, t)[k] = t[k] /\ Plus(t, NoTokens)[k] = t[k]
  BY NoUsage DEF Plus, Usage
<1> QED BY <1>1, <1>2 DEF Usage

\* There is a largest element of a bounded set.
LEMMA LargestElement ==
  ASSUME NEW n \in Nat, NEW S \in SUBSET (1..n), S # {}
  PROVE  Max(S) \in S
<1> DEFINE R == {ss \in Nat \X Nat : ss[1] < ss[2]}
           T == {n - x : x \in S}
<1>1. IsWellFoundedOn(R, Nat)
  BY NatLessThanWellFounded DEF OpToRel
<1>2. T \in SUBSET Nat /\ T # {}
  <2>1. PICK x \in S : TRUE
    OBVIOUS
  <2>2. n - x \in T
    BY <2>1
  <2>3. \A z \in S : n - z \in Nat
    OBVIOUS
  <2> QED BY <2>2, <2>3
<1>3. PICK y \in T : \A z \in T : ~(<<z, y>> \in R)
  <2> HIDE DEF R, T
  <2> QED BY <1>1, <1>2, WFMin
<1>4. PICK x \in S : y = n - x
  OBVIOUS
<1>5. \A z \in S : x >= z
  <2> TAKE z \in S
  <2>1. n - z \in T /\ y \in Nat /\ n - z \in Nat
    BY <1>2
  <2>2. ~(n - z < y)
    BY <1>3, <2>1
  <2> QED BY <1>4, <2>1, <2>2
<1> QED
  BY <1>4, <1>5 DEF Max

\* What the adapter knows of the usage is usage.
LEMMA KnownUsage ==
  ASSUME NEW a, a.lines \in Seq([size : Nat, form : Forms, tokens : Usage]), NEW n \in 0..Len(a.lines)
  PROVE  Known(a, n) \in Usage
<1> DEFINE S == [size : Nat, form : Forms, tokens : Usage]
           told == {i \in 1..n : a.lines[i].form = "chat"}
<1>1. \A l \in S : l.tokens \in Usage
  OBVIOUS
<1>2. a.lines \in Seq(S)
  OBVIOUS
<1> HIDE DEF S
<1>3. n \in Nat /\ \A i \in 1..n : a.lines[i] \in S
  BY <1>2
<1>4. told # {} => Max(told) \in 1..n
  BY <1>3, LargestElement
<1>5. Known(a, n) = IF told = {} THEN NoTokens ELSE a.lines[Max(told)].tokens
  BY DEF Known
<1> HIDE DEF told
<1> QED BY <1>1, <1>3, <1>4, <1>5, NoUsage

\* What the workloads have of an answer that is read.
LEMMA AnswerShape ==
  ASSUME LogInv, NEW p \in load.plans, NEW x \in p.answers, Success(x.code)
  PROVE  /\ p.platform \in {"claude", "codex"} /\ p.adapted \in BOOLEAN /\ p.stream \in BOOLEAN
         /\ (p.adapted => p.platform = "codex")
         /\ Len(x.lines) \in Nat \ {0} /\ x.lines \in Seq([size : Nat, form : Forms, tokens : Usage])
         /\ \A i \in 1..Len(x.lines) : x.lines[i].form \in Forms /\ x.lines[i].tokens \in Usage
         /\ x.billed \in Usage
         /\ p.adapted => Known(x, Len(x.lines)) = x.billed
         /\ ~p.adapted /\ p.platform = "codex" =>
              /\ \A i \in 1..Len(x.lines) : x.lines[i].form # "message"
              /\ \A i, j \in 1..Len(x.lines) :
                   x.lines[i].form \in {"response", "top"} /\ x.lines[j].form \in {"response", "top"} =>
                     i = j /\ x.lines[i].tokens = x.billed
         /\ p.platform = "claude" =>
              /\ \A i \in 1..Len(x.lines) :
                   x.lines[i].form # "response" /\ (~x.sse => x.lines[i].form # "message")
              /\ (\E i \in 1..Len(x.lines) : x.lines[i].form \in {"message", "top"}) =>
                   \A k \in IF x.sse THEN Kinds ELSE Kinds \ {"cache"} :
                     /\ \A i \in 1..Len(x.lines) :
                          Reported(x.lines[i], k) => x.lines[i].tokens[k] <= x.billed[k]
                     /\ \/ x.billed[k] = 0
                        \/ \E i \in 1..Len(x.lines) :
                             Reported(x.lines[i], k) /\ x.lines[i].tokens[k] = x.billed[k]
<1> DEFINE S == [size : Nat, form : Forms, tokens : Usage]
<1>1. /\ p.platform \in {"claude", "codex"} /\ p.adapted \in BOOLEAN /\ p.stream \in BOOLEAN
      /\ (p.adapted => p.platform = "codex")
      /\ x.lines \in Seq(S) /\ x.lines # <<>> /\ x.billed \in Usage
  BY WorkloadsAssumption DEF LogInv, Usage
<1>2. \A l \in S : l.form \in Forms /\ l.tokens \in Usage
  OBVIOUS
<1> HIDE DEF S
<1>3. /\ DOMAIN x.lines = 1..Len(x.lines) /\ Len(x.lines) \in Nat /\ Len(x.lines) # 0
      /\ \A i \in 1..Len(x.lines) : x.lines[i] \in S
  <2> DEFINE lines == x.lines
  <2>1. lines \in Seq(S) /\ lines # <<>>
    BY <1>1
  <2> HIDE DEF lines
  <2>2. /\ DOMAIN lines = 1..Len(lines) /\ Len(lines) \in Nat /\ Len(lines) # 0
        /\ \A i \in 1..Len(lines) : lines[i] \in S
    BY <2>1
  <2> QED BY <2>2 DEF lines
<1> DEFINE of(forms) == {i \in DOMAIN x.lines : x.lines[i].form \in forms}
           reports(k) == of(IF k = "cache" THEN {"message"} ELSE {"message", "top"})
<1>4. Reports(p, x)
  BY BilledAssumption DEF LogInv
<1>5. \A k : reports(k) = {i \in 1..Len(x.lines) : Reported(x.lines[i], k)}
  BY <1>3 DEF Reported
<1>6. p.adapted => Known(x, Len(x.lines)) = x.billed
  BY <1>4 DEF Reports
<1>7. ~p.adapted /\ p.platform = "codex" =>
        /\ of({"message"}) = {}
        /\ \A i, j \in of({"response", "top"}) : i = j /\ x.lines[i].tokens = x.billed
  BY <1>4 DEF Reports
<1>8. p.platform = "claude" =>
        /\ of(IF x.sse THEN {"response"} ELSE {"response", "message"}) = {}
        /\ of({"message", "top"}) # {} =>
             \A k \in IF x.sse THEN Kinds ELSE Kinds \ {"cache"} :
               /\ \A i \in reports(k) : x.lines[i].tokens[k] <= x.billed[k]
               /\ x.billed[k] = 0 \/ \E i \in reports(k) : x.lines[i].tokens[k] = x.billed[k]
  BY <1>4 DEF Reports
<1>9. ASSUME p.platform = "claude"
      PROVE  /\ \A i \in 1..Len(x.lines) :
                  x.lines[i].form # "response" /\ (~x.sse => x.lines[i].form # "message")
             /\ (\E i \in 1..Len(x.lines) : x.lines[i].form \in {"message", "top"}) =>
                  \A k \in IF x.sse THEN Kinds ELSE Kinds \ {"cache"} :
                    /\ \A i \in 1..Len(x.lines) :
                         Reported(x.lines[i], k) => x.lines[i].tokens[k] <= x.billed[k]
                    /\ \/ x.billed[k] = 0
                       \/ \E i \in 1..Len(x.lines) :
                            Reported(x.lines[i], k) /\ x.lines[i].tokens[k] = x.billed[k]
  <2>1. of(IF x.sse THEN {"response"} ELSE {"response", "message"}) = {}
    BY <1>8, <1>9
  <2>2. of({"message", "top"}) # {} =>
          \A k \in IF x.sse THEN Kinds ELSE Kinds \ {"cache"} :
            /\ \A i \in reports(k) : x.lines[i].tokens[k] <= x.billed[k]
            /\ x.billed[k] = 0 \/ \E i \in reports(k) : x.lines[i].tokens[k] = x.billed[k]
    BY <1>8, <1>9
  <2>3. \A i \in 1..Len(x.lines) :
          x.lines[i].form # "response" /\ (~x.sse => x.lines[i].form # "message")
    BY <1>3, <2>1
  <2>4. (\E i \in 1..Len(x.lines) : x.lines[i].form \in {"message", "top"}) => of({"message", "top"}) # {}
    BY <1>3
  <2> HIDE DEF reports, of
  <2> QED BY <1>5, <2>2, <2>3, <2>4
<1> QED
  <2>1. ~p.adapted /\ p.platform = "codex" =>
          /\ \A i \in 1..Len(x.lines) : x.lines[i].form # "message"
          /\ \A i, j \in 1..Len(x.lines) :
               x.lines[i].form \in {"response", "top"} /\ x.lines[j].form \in {"response", "top"} =>
                 i = j /\ x.lines[i].tokens = x.billed
    BY <1>3, <1>7
  <2>2. /\ Len(x.lines) \in Nat \ {0} /\ x.lines \in Seq([size : Nat, form : Forms, tokens : Usage])
        /\ \A i \in 1..Len(x.lines) : x.lines[i].form \in Forms /\ x.lines[i].tokens \in Usage
    BY <1>1, <1>2, <1>3 DEF S
  <2> HIDE DEF of, reports
  <2> QED BY <1>1, <1>6, <1>9, <2>1, <2>2

\* Codex reports once.
LEMMA CodexCounts ==
  ASSUME NEW p, NEW x, NEW n \in Nat, NEW t \in Usage, ~p.adapted, p.platform = "codex", n < Len(x.lines),
         Len(x.lines) \in Nat, x.billed \in Usage,
         \A i, j \in 1..Len(x.lines) :
           x.lines[i].form \in {"response", "top"} /\ x.lines[j].form \in {"response", "top"} =>
             i = j /\ x.lines[i].tokens = x.billed,
         Counted(p, x, n, t)
  PROVE  LET u == Parsed(p, x.lines[n + 1], t) IN u \in Usage /\ Counted(p, x, n + 1, u)
<1> DEFINE u == Parsed(p, x.lines[n + 1], t)
           reported(m) == \E i \in 1..m : x.lines[i].form \in {"response", "top"}
<1>1. t = IF reported(n) THEN x.billed ELSE NoTokens
  BY DEF Counted
<1>2. u = IF x.lines[n + 1].form \in {"response", "top"} THEN Plus(t, x.lines[n + 1].tokens) ELSE t
  BY DEF Parsed, CodexParseTokenUsageFromResponse
<1>3. n + 1 \in 1..Len(x.lines) /\ 1..(n + 1) = 1..n \cup {n + 1} /\ 1..n \subseteq 1..Len(x.lines) /\ n + 1 \notin 1..n
  OBVIOUS
<1>4. x.lines[n + 1].form \in {"response", "top"} => ~reported(n) /\ x.lines[n + 1].tokens = x.billed
  BY <1>3
<1>5. u = IF reported(n + 1) THEN x.billed ELSE NoTokens
  <2>1. CASE x.lines[n + 1].form \in {"response", "top"}
    <3>1. u = Plus(NoTokens, x.billed) /\ reported(n + 1)
      BY <1>1, <1>2, <1>3, <1>4, <2>1
    <3> QED BY <3>1, PlusUsage
  <2>2. CASE x.lines[n + 1].form \notin {"response", "top"}
    <3>1. u = t /\ (reported(n + 1) <=> reported(n))
      BY <1>2, <1>3, <2>2
    <3> QED BY <1>1, <3>1
  <2> QED BY <2>1, <2>2
<1> QED
  BY <1>5, NoUsage DEF Counted

\* Claude's reports are counted by their largest values.
LEMMA ClaudeCounts ==
  ASSUME NEW p, NEW x, NEW n \in Nat, NEW t \in Usage, ~p.adapted, p.platform = "claude", n < Len(x.lines),
         Len(x.lines) \in Nat, \A i \in 1..Len(x.lines) : x.lines[i].tokens \in Usage,
         Counted(p, x, n, t)
  PROVE  LET u == Parsed(p, x.lines[n + 1], t) IN u \in Usage /\ Counted(p, x, n + 1, u)
<1> DEFINE line == x.lines[n + 1]
           u == Parsed(p, line, t)
<1>1. n + 1 \in 1..Len(x.lines) /\ 1..(n + 1) = 1..n \cup {n + 1} /\ 1..n \subseteq 1..Len(x.lines)
  OBVIOUS
<1>2. line.tokens \in Usage
  BY <1>1
<1>3. u = [k \in Kinds |-> IF Reported(line, k) /\ line.tokens[k] > t[k] THEN line.tokens[k] ELSE t[k]]
  <2> DEFINE read == CASE line.form = "message" -> Kinds [] line.form = "top" -> {"input", "output"} [] OTHER -> {}
  <2>1. \A k \in Kinds : k \in read <=> Reported(line, k)
    <3>1. CASE line.form = "message"
      BY <3>1 DEF Reported, Kinds
    <3>2. CASE line.form = "top"
      BY <3>2 DEF Reported, Kinds
    <3>3. CASE line.form \notin {"message", "top"}
      BY <3>3 DEF Reported, Kinds
    <3> QED BY <3>1, <3>2, <3>3
  <2>2. u = [k \in Kinds |-> IF k \in read /\ line.tokens[k] > t[k] THEN line.tokens[k] ELSE t[k]]
    BY DEF Parsed, ClaudeCodeParseTokenUsageFromResponse
  <2> HIDE DEF read, u
  <2> QED BY <2>1, <2>2
<1>4. /\ \A k \in Kinds : \A i \in 1..n : Reported(x.lines[i], k) => x.lines[i].tokens[k] <= t[k]
      /\ \A k \in Kinds : \/ t[k] = 0
                          \/ \E i \in 1..n : Reported(x.lines[i], k) /\ x.lines[i].tokens[k] = t[k]
  BY DEF Counted
<1> HIDE DEF u
<1>5. u \in Usage /\ \A k \in Kinds : t[k] \in Nat /\ u[k] \in Nat /\ line.tokens[k] \in Nat
  BY <1>2, <1>3 DEF Usage
<1>6. ASSUME NEW k \in Kinds, NEW i \in 1..(n + 1), Reported(x.lines[i], k)
      PROVE  x.lines[i].tokens[k] <= u[k]
  <2>1. CASE i = n + 1
    BY <1>3, <1>5, <1>6, <2>1
  <2>2. CASE i \in 1..n
    <3>1. x.lines[i].tokens[k] <= t[k] /\ x.lines[i].tokens[k] \in Nat
      BY <1>1, <1>4, <1>6, <2>2 DEF Usage
    <3>2. t[k] <= u[k]
      BY <1>3, <1>5
    <3> QED BY <1>5, <3>1, <3>2
  <2> QED BY <1>1, <2>1, <2>2
<1>7. ASSUME NEW k \in Kinds
      PROVE  u[k] = 0 \/ \E i \in 1..(n + 1) : Reported(x.lines[i], k) /\ x.lines[i].tokens[k] = u[k]
  <2>1. CASE Reported(line, k) /\ line.tokens[k] > t[k]
    BY <1>1, <1>3, <2>1
  <2>2. CASE ~(Reported(line, k) /\ line.tokens[k] > t[k])
    BY <1>1, <1>3, <1>4, <2>2
  <2> QED BY <2>1, <2>2
<1> QED
  BY <1>5, <1>6, <1>7 DEF Counted, u

\* Nothing is counted before the first line.
LEMMA NothingCounted ==
  ASSUME NEW p, p.platform \in {"claude", "codex"}, p.adapted \in BOOLEAN, NEW x
  PROVE  Counted(p, x, 0, NoTokens)
<1>1. 1..0 = {} /\ \A k \in Kinds : NoTokens[k] = 0
  BY NoUsage
<1>2. CASE p.adapted
  BY <1>2 DEF Counted
<1>3. CASE ~p.adapted /\ p.platform = "codex"
  BY <1>1, <1>3 DEF Counted
<1>4. CASE ~p.adapted /\ p.platform = "claude"
  BY <1>1, <1>4 DEF Counted
<1> QED
  BY <1>2, <1>3, <1>4

\* A whole answer that is passed through.
LEMMA PassedRight ==
  ASSUME LogInv, NEW p \in load.plans, NEW x \in p.answers, Success(x.code), ~p.adapted,
         NEW t \in Usage, Counted(p, x, Len(x.lines), t)
  PROVE  Right(p, x, t)
<1> DEFINE silent == \A l \in ToSet(x.lines) : l.form \in {"chat", "none"}
           N == Len(x.lines)
<1>1. /\ p.platform \in {"claude", "codex"} /\ N \in Nat /\ x.billed \in Usage
      /\ x.lines \in Seq([size : Nat, form : Forms, tokens : Usage])
      /\ \A i \in 1..N : x.lines[i].form \in Forms /\ x.lines[i].tokens \in Usage
  BY AnswerShape
<1>2. silent <=> \A i \in 1..N : x.lines[i].form \in {"chat", "none"}
  <2>1. ToSet(x.lines) = {x.lines[i] : i \in 1..N}
    BY <1>1 DEF ToSet
  <2> QED BY <2>1
<1>3. Countable(p, x) = IF silent THEN NoTokens
                        ELSE IF p.platform = "claude" /\ ~x.sse THEN [x.billed EXCEPT !["cache"] = 0]
                        ELSE x.billed
  BY DEF Countable
<1>4. Countable(p, x) \in Usage
  BY <1>1, <1>3, NoUsage DEF Usage
<1>5. Plus(Countable(p, x), Plus(NoTokens, NoTokens)) = Countable(p, x)
  BY <1>4, NoUsage, PlusUsage
<1> HIDE DEF silent
<1>6. t = Countable(p, x)
  <2>1. CASE p.platform = "codex"
    <3>1. t = IF \E i \in 1..N : x.lines[i].form \in {"response", "top"} THEN x.billed ELSE NoTokens
      BY <2>1 DEF Counted
    <3>2. \A i \in 1..N : x.lines[i].form # "message"
      BY <2>1, AnswerShape
    <3>3. silent <=> ~\E i \in 1..N : x.lines[i].form \in {"response", "top"}
      BY <1>1, <1>2, <3>2 DEF Forms
    <3> QED BY <1>3, <2>1, <3>1, <3>3
  <2>2. CASE p.platform = "claude"
    <3>1. /\ \A k \in Kinds : \A i \in 1..N : Reported(x.lines[i], k) => x.lines[i].tokens[k] <= t[k]
          /\ \A k \in Kinds :
               t[k] = 0 \/ \E i \in 1..N : Reported(x.lines[i], k) /\ x.lines[i].tokens[k] = t[k]
      BY <2>2 DEF Counted
    <3>2. \A i \in 1..N : x.lines[i].form # "response" /\ (~x.sse => x.lines[i].form # "message")
      BY <2>2, AnswerShape
    <3>3. silent <=> ~\E i \in 1..N : x.lines[i].form \in {"message", "top"}
      BY <1>1, <1>2, <3>2 DEF Forms
    <3>4. CASE silent
      <4>1. \A k \in Kinds : t[k] = 0
        BY <3>1, <3>3, <3>4 DEF Reported
      <4> QED BY <1>3, <3>4, <4>1, NoUsage DEF Usage
    <3>5. CASE ~silent
      <4>1. \A k \in IF x.sse THEN Kinds ELSE Kinds \ {"cache"} :
              /\ \A i \in 1..N : Reported(x.lines[i], k) => x.lines[i].tokens[k] <= x.billed[k]
              /\ x.billed[k] = 0 \/ \E i \in 1..N : Reported(x.lines[i], k) /\ x.lines[i].tokens[k] = x.billed[k]
        BY <2>2, <3>3, <3>5, AnswerShape
      <4>2. ASSUME NEW k \in Kinds, x.sse \/ k # "cache"
            PROVE  t[k] = x.billed[k]
        <5>1. /\ t[k] \in Nat /\ x.billed[k] \in Nat
              /\ \A i \in 1..N : x.lines[i].tokens[k] \in Nat
          BY <1>1 DEF Usage
        <5>2. t[k] <= x.billed[k]
          BY <3>1, <4>1, <4>2, <5>1
        <5>3. x.billed[k] <= t[k]
          BY <3>1, <4>1, <4>2, <5>1
        <5> QED BY <5>1, <5>2, <5>3
      <4>3. ~x.sse => t["cache"] = 0
        BY <3>1, <3>2 DEF Reported, Kinds
      <4>4. \A k \in Kinds : t[k] = Countable(p, x)[k]
        BY <1>1, <1>3, <2>2, <3>5, <4>2, <4>3 DEF Usage
      <4> QED BY <1>4, <4>4 DEF Usage
    <3> QED BY <3>4, <3>5
  <2> QED BY <1>1, <2>1, <2>2
<1> QED
  BY <1>5, <1>6 DEF Right

\* A whole answer that is translated: what is announced is counted twice more.
LEMMA TranslatedRight ==
  ASSUME LogInv, NEW p \in load.plans, NEW x \in p.answers, Success(x.code), p.adapted
  PROVE  /\ Translated(p, x, NoTokens) \in Usage
         /\ Right(p, x, Translated(p, x, NoTokens))
<1> DEFINE started == Announced(p, x)
           whole == Known(x, Len(x.lines))
<1>1. /\ Len(x.lines) \in Nat \ {0} /\ x.lines \in Seq([size : Nat, form : Forms, tokens : Usage])
      /\ whole = x.billed /\ x.billed \in Usage /\ p.stream \in BOOLEAN /\ p.platform # "claude"
  BY AnswerShape
<1>2. started \in Usage /\ (~p.stream => started = NoTokens)
  <2>1. Known(x, 1) \in Usage /\ Known(x, Len(x.lines)) \in Usage
    <3>1. 1 \in 0..Len(x.lines) /\ Len(x.lines) \in 0..Len(x.lines)
      BY <1>1
    <3> QED BY <1>1, <3>1, KnownUsage
  <2> QED BY <2>1, NoUsage DEF Announced, Streams
<1>3. Countable(p, x) = whole
  BY <1>1 DEF Countable
<1>4. \A u, t : /\ CodexParseTokenUsageFromResponse(Line(0, "response", u), t) = Plus(t, u)
                /\ CodexParseTokenUsageFromResponse(Line(0, "top", u), t) = Plus(t, u)
  BY DEF CodexParseTokenUsageFromResponse, Line
<1>5. Translated(p, x, NoTokens) =
        IF p.stream THEN Plus(Plus(Plus(NoTokens, started), started), whole) ELSE Plus(NoTokens, whole)
  BY <1>4 DEF Translated
<1> HIDE DEF started, whole
<1>6. Plus(NoTokens, whole) = whole /\ Plus(NoTokens, started) = started
  BY <1>1, <1>2, PlusUsage
<1>7. /\ Plus(Plus(started, started), whole) \in Usage
      /\ Plus(Plus(started, started), whole) = Plus(whole, Plus(started, started))
  <2>1. /\ Plus(started, started) \in Usage /\ Plus(Plus(started, started), whole) \in Usage
        /\ Plus(whole, Plus(started, started)) \in Usage
    BY <1>1, <1>2, PlusUsage
  <2>2. \A k \in Kinds : Plus(Plus(started, started), whole)[k] = Plus(whole, Plus(started, started))[k]
    BY <1>1, <1>2, <2>1 DEF Plus, Usage
  <2> QED BY <2>1, <2>2 DEF Usage
<1>8. Plus(whole, Plus(NoTokens, NoTokens)) = whole
  BY <1>1, NoUsage, PlusUsage
<1>9. /\ Translated(p, x, NoTokens) \in Usage
      /\ Translated(p, x, NoTokens) = Plus(whole, Plus(started, started))
  BY <1>1, <1>2, <1>5, <1>6, <1>7, <1>8
<1> QED
  BY <1>3, <1>9 DEF Right, started

LEMMA FreeCounted == AttemptCounted(Free)
<1>1. Free.at = "free" /\ Free.tokens = NoTokens
  BY DEF Free
<1> QED BY <1>1, NoUsage DEF AttemptCounted

LEMMA OnwardCounts ==
  ASSUME LogInv, CountInv, NEW s \in Slots, Onward(s)
  PROVE  AttemptCounted(attempt'[s])
<1> DEFINE a == attempt[s]
           b == attempt'[s]
           p == a.plan
<1>1. /\ b.plan = p /\ a.at \in {"ask", "body", "error"}
      /\ Arrives(a, b) \/ Reads(a, b) \/ Completes(a, b) \/ GivesUp(a, b)
  BY OnwardEffect
<1>2. AttemptCounted(a) /\ IsAttempt(a)
  BY DEF CountInv, LogInv
<1>3. p \in load.plans
  BY <1>1, <1>2 DEF IsAttempt
<1> SUFFICES AttemptCounted(b)
  OBVIOUS
<1> HIDE DEF a, b, p
<1>4. CASE Arrives(a, b)
  <2>1. a.at = "ask" /\ b.answer \in p.answers /\ b.read = 0 /\ b.tokens = NoTokens /\ ~b.done
        /\ b.at = IF Success(b.answer.code) THEN "body" ELSE "error"
    BY <1>2, <1>4 DEF Arrives, AttemptCounted, p
  <2>2. CASE Success(b.answer.code)
    <3>1. Len(b.answer.lines) \in Nat /\ p.platform \in {"claude", "codex"} /\ p.adapted \in BOOLEAN
      BY <1>3, <2>1, <2>2, AnswerShape
    <3>2. Counted(p, b.answer, 0, NoTokens)
      BY <3>1, NothingCounted
    <3> QED BY <1>1, <2>1, <2>2, <3>1, <3>2, NoUsage DEF AttemptCounted
  <2>3. CASE ~Success(b.answer.code)
    BY <2>1, <2>3, NoUsage DEF AttemptCounted
  <2> QED BY <2>2, <2>3
<1>5. CASE Reads(a, b)
  <2> DEFINE x == a.answer
             n == a.read
             line == x.lines[n + 1]
  <2>1. /\ a.at = "body" /\ b.at = "body" /\ n < Len(x.lines) /\ b.answer = x /\ b.read = n + 1
        /\ b.tokens = IF p.adapted THEN a.tokens ELSE Parsed(p, line, a.tokens)
    BY <1>5 DEF Reads, p
  <2>2. /\ Success(x.code) /\ n \in 0..Len(x.lines) /\ Counted(p, x, n, a.tokens) /\ a.tokens \in Usage
        /\ x \in p.answers /\ ~b.done
    BY <1>2, <1>5, <2>1 DEF AttemptCounted, IsAttempt, Reads, p
  <2> HIDE DEF x, n
  <2>3. /\ Len(x.lines) \in Nat /\ x.billed \in Usage /\ \A i \in 1..Len(x.lines) : x.lines[i].tokens \in Usage
        /\ p.platform \in {"claude", "codex"} /\ p.adapted \in BOOLEAN
    BY <1>3, <2>2, AnswerShape
  <2>4. n \in Nat /\ n + 1 \in 0..Len(x.lines)
    BY <2>1, <2>2, <2>3
  <2>5. b.tokens \in Usage /\ Counted(p, x, n + 1, b.tokens)
    <3>1. CASE p.adapted
      BY <2>1, <2>2, <3>1 DEF Counted
    <3>2. CASE ~p.adapted /\ p.platform = "codex"
      <4>1. \A i, j \in 1..Len(x.lines) :
              x.lines[i].form \in {"response", "top"} /\ x.lines[j].form \in {"response", "top"} =>
                i = j /\ x.lines[i].tokens = x.billed
        BY <1>3, <2>2, <3>2, AnswerShape
      <4>2. LET u == Parsed(p, line, a.tokens) IN u \in Usage /\ Counted(p, x, n + 1, u)
        BY <2>1, <2>2, <2>3, <2>4, <3>2, <4>1, CodexCounts
      <4> QED BY <2>1, <3>2, <4>2
    <3>3. CASE ~p.adapted /\ p.platform = "claude"
      <4>1. LET u == Parsed(p, line, a.tokens) IN u \in Usage /\ Counted(p, x, n + 1, u)
        BY <2>1, <2>2, <2>3, <2>4, <3>3, ClaudeCounts
      <4> QED BY <2>1, <3>3, <4>1
    <3> QED BY <2>3, <3>1, <3>2, <3>3
  <2> QED BY <1>1, <2>1, <2>2, <2>4, <2>5 DEF AttemptCounted
<1>6. CASE Completes(a, b)
  <2> DEFINE x == a.answer
  <2>1. /\ a.at = "body" /\ b.at = "row" /\ a.read = Len(x.lines) /\ b.answer = x
        /\ b.tokens = IF p.adapted THEN Translated(p, x, a.tokens) ELSE a.tokens
    BY <1>6 DEF Completes, p
  <2>2. /\ Success(x.code) /\ Counted(p, x, Len(x.lines), a.tokens) /\ a.tokens \in Usage /\ x \in p.answers
    BY <1>2, <2>1 DEF AttemptCounted, IsAttempt, p
  <2> HIDE DEF x
  <2>3. b.tokens \in Usage /\ Right(p, x, b.tokens)
    <3>1. CASE p.adapted
      <4>1. a.tokens = NoTokens
        BY <2>2, <3>1 DEF Counted
      <4> QED BY <1>3, <2>1, <2>2, <3>1, <4>1, TranslatedRight
    <3>2. CASE ~p.adapted
      BY <1>3, <2>1, <2>2, <3>2, PassedRight
    <3> QED BY <3>1, <3>2
  <2> QED BY <1>1, <2>1, <2>3 DEF AttemptCounted
<1>7. CASE GivesUp(a, b)
  <2>1. ~a.done /\ a.tokens \in Usage
    BY <1>1, <1>2 DEF AttemptCounted
  <2>2. /\ b.at \in {"row", "ask"} /\ (b.at = "ask" => a.at = "error")
        /\ b.read = a.read /\ b.tokens = a.tokens /\ b.done = a.done
    BY <1>7 DEF GivesUp
  <2> QED BY <1>2, <2>1, <2>2 DEF AttemptCounted
<1> QED
  BY <1>1, <1>4, <1>5, <1>6, <1>7

LEMMA CountNext == LogInv /\ CountInv /\ [Next]_vars => CountInv'
<1> SUFFICES ASSUME LogInv, CountInv, [Next]_vars
             PROVE  CountInv'
  OBVIOUS
<1>1. ASSUME NEW s \in Slots, Onward(s)
      PROVE  CountInv'
  <2>1. AttemptCounted(attempt'[s]) /\ rows' = rows /\ \A r \in Slots \ {s} : attempt'[r] = attempt[r]
    BY <1>1, OnwardCounts, OnwardEffect
  <2> QED BY <2>1 DEF CountInv
<1>2. ASSUME NEW s \in Slots, NEW p \in load.plans, Start(s, p)
      PROVE  CountInv'
  <2>1. /\ attempt'[s].at \in {"ask", "row"} /\ attempt'[s].tokens = NoTokens /\ attempt'[s].read = 0
        /\ attempt'[s].done = FALSE
        /\ rows' = rows /\ \A r \in Slots \ {s} : attempt'[r] = attempt[r]
    BY <1>2, StartEffect
  <2>2. AttemptCounted(attempt'[s])
    BY <2>1, NoUsage DEF AttemptCounted
  <2> QED BY <2>1, <2>2 DEF CountInv
<1>3. ASSUME NEW s \in Slots, InsertRow(s)
      PROVE  CountInv'
  <2> DEFINE n == Len(rows) + 1
  <2>1. /\ attempt[s].at = "row"
        /\ \/ attempt'[s] = Free
           \/ attempt'[s].at = "payload" /\ attempt'[s].tokens = attempt[s].tokens
        /\ \A r \in Slots \ {s} : attempt'[r] = attempt[r]
        /\ DOMAIN rows' = DOMAIN rows \cup {n} /\ \A i \in DOMAIN rows : rows'[i] = rows[i]
        /\ rows'[n].tokens = attempt[s].tokens /\ rows'[n].done = attempt[s].done
        /\ rows'[n].plan = attempt[s].plan /\ rows'[n].answer = attempt[s].answer
    BY <1>3, InsertRowEffect
  <2> HIDE DEF n
  <2>2. AttemptCounted(attempt[s])
    BY DEF CountInv
  <2>3. AttemptCounted(attempt'[s])
    BY <2>1, <2>2, FreeCounted DEF AttemptCounted
  <2>4. rows'[n].done => Right(rows'[n].plan, rows'[n].answer, rows'[n].tokens)
    BY <2>1, <2>2 DEF AttemptCounted
  <2> QED BY <2>1, <2>3, <2>4 DEF CountInv
<1>4. ASSUME NEW s \in Slots, InsertPayload(s)
      PROVE  CountInv'
  <2>1. attempt'[s] = Free /\ rows' = rows /\ \A r \in Slots \ {s} : attempt'[r] = attempt[r]
    BY <1>4, InsertPayloadEffect
  <2> QED BY <2>1, FreeCounted DEF CountInv
<1>5. CASE Crash \/ \E s \in Slots : InsertFails(s)
  <2>1. rows' = rows /\ \A r \in Slots : attempt'[r] = attempt[r] \/ attempt'[r] = Free
    BY <1>5, LostEffect
  <2> QED BY <2>1, FreeCounted DEF CountInv
<1>6. CASE SaveSettings \/ HourPasses \/ UNCHANGED vars
  BY <1>6 DEF SaveSettings, HourPasses, vars, CountInv
<1> QED
  BY <1>1, <1>2, <1>3, <1>4, <1>5, <1>6 DEF Next, Onward

LEMMA MoreInit == Init => BoundInv /\ OwnInv /\ CountInv
<1> SUFFICES ASSUME Init PROVE BoundInv /\ OwnInv /\ CountInv
  OBVIOUS
<1>1. /\ \A s \in Slots : attempt[s] = Free
      /\ DOMAIN payloads = {} /\ DOMAIN rows = {} /\ made = 0 /\ changes = 0 /\ clock = FirstHour
  BY DEF Init
<1>2. load.hours \in Nat /\ load.attempts \in Nat /\ load.changes \in Nat /\ FirstHour \in Int
  BY WorkloadsAssumption, DaysAssumption DEF Init, FirstHour
<1>3. Free.at = "free"
  BY FreeTold
<1> QED
  BY <1>1, <1>2, <1>3, FreeCounted DEF BoundInv, OwnInv, CountInv

\* A payload belongs to a row and to the attempt that wrote it, and no attempt has two rows, however
\* many run side by side, whatever fails, and wherever the program ends (forwardRequest's deferred inserts).
THEOREM AlwaysTypeOK == Spec => []TypeOK
<1>1. LogInv /\ BoundInv /\ OwnInv /\ CountInv => TypeOK
  <2> SUFFICES ASSUME LogInv, BoundInv, OwnInv, CountInv PROVE TypeOK
    OBVIOUS
  <2>1. \A s \in Slots : attempt[s].at \in Steps /\ attempt[s].tokens \in [Kinds -> Nat]
    BY DEF LogInv, IsAttempt, CountInv, AttemptCounted, Usage
  <2> QED BY <2>1 DEF LogInv, BoundInv, OwnInv, TypeOK
<1>2. Init => LogInv /\ BoundInv /\ OwnInv /\ CountInv
  BY LogInvInit, MoreInit
<1>3. LogInv /\ BoundInv /\ OwnInv /\ CountInv /\ [Next]_vars => (LogInv /\ BoundInv /\ OwnInv /\ CountInv)'
  BY LogInvNext, BoundNext, OwnNext, CountNext
<1> QED
  BY <1>1, <1>2, <1>3, PTL DEF Spec

\* The row of a whole answer has the tokens that the upstream bills, and twice more what the adapter
\* announces, for any lines that report as BilledAssumption says (ReqeustLogHook and the two parsers).
THEOREM TokensCountedHolds == Spec => []TokensCounted
<1>1. CountInv => TokensCounted
  BY DEF CountInv, TokensCounted, Right
<1>2. Init => LogInv /\ CountInv
  BY LogInvInit, MoreInit
<1>3. LogInv /\ CountInv /\ [Next]_vars => (LogInv /\ CountInv)'
  BY LogInvNext, CountNext
<1> QED
  BY <1>1, <1>2, <1>3, PTL DEF Spec

-----------------------------------------------------------------------------
(* Numbers, and sums over sets.                                           *)

AnyOf(T) == CHOOSE x \in T : TRUE

\* Induction, for a set of numbers.
LEMMA AllNumbers ==
  ASSUME NEW P, 0 \in P, \A n \in Nat : n \in P => n + 1 \in P
  PROVE  Nat \subseteq P
<1> DEFINE S == Nat \ P
           R == {ss \in Nat \X Nat : ss[1] < ss[2]}
<1>1. SUFFICES ASSUME S # {} PROVE FALSE
  OBVIOUS
<1>2. IsWellFoundedOn(R, Nat)
  BY NatLessThanWellFounded DEF OpToRel
<1>3. PICK x \in S : \A y \in S : ~(<<y, x>> \in R)
  <2>1. S \in SUBSET Nat
    OBVIOUS
  <2> HIDE DEF R, S
  <2> QED BY <1>1, <1>2, <2>1, WFMin
<1>4. x \in Nat /\ x # 0 /\ x - 1 \in Nat /\ x - 1 < x
  OBVIOUS
<1>5. x - 1 \in P
  <2>1. x - 1 \in S => <<x - 1, x>> \in R
    BY <1>4
  <2> QED BY <1>3, <1>4, <2>1
<1> QED
  BY <1>4, <1>5

\* The sum over a set is the last value of a function that adds an element at a time.
Adds(f, S, g) ==
  /\ DOMAIN g = SUBSET S
  /\ g[{}] = 0
  /\ \A T \in SUBSET S : T # {} => g[T] = f[AnyOf(T)] + g[T \ {AnyOf(T)}]

LEMMA SumExists ==
  ASSUME NEW f, NEW S, IsFiniteSet(S)
  PROVE  \E g : Adds(f, S, g)
<1> DEFINE upto(n) == {T \in SUBSET S : Cardinality(T) <= n}
           adds(n, g) ==
             /\ DOMAIN g = upto(n)
             /\ g[{}] = 0
             /\ \A T \in upto(n) : T # {} => g[T] = f[AnyOf(T)] + g[T \ {AnyOf(T)}]
           P == {n \in Nat : \E g : adds(n, g)}
<1>0. /\ \A T \in SUBSET S : IsFiniteSet(T) /\ Cardinality(T) \in Nat /\ Cardinality(T) <= Cardinality(S)
      /\ Cardinality(S) \in Nat
      /\ \A T \in SUBSET S : Cardinality(T) = 0 <=> T = {}
      /\ \A T \in SUBSET S : \A x \in T : Cardinality(T \ {x}) = Cardinality(T) - 1
  BY FS_Subset, FS_CardinalityType, FS_EmptySet, FS_RemoveElement
<1>1. \A T : T # {} => AnyOf(T) \in T
  BY DEF AnyOf
<1>2. 0 \in P
  <2> DEFINE g == [T \in {{}} |-> 0]
  <2>1. upto(0) = {{}}
    BY <1>0
  <2>2. adds(0, g)
    BY <2>1
  <2> QED BY <2>2
<1>3. ASSUME NEW n \in Nat, n \in P
      PROVE  n + 1 \in P
  <2>1. PICK h : adds(n, h)
    BY <1>3
  <2> DEFINE g == [T \in upto(n + 1) |-> IF T \in upto(n) THEN h[T] ELSE f[AnyOf(T)] + h[T \ {AnyOf(T)}]]
  <2>2. upto(n) \subseteq upto(n + 1) /\ {} \in upto(n)
    BY <1>0
  <2>3. \A T \in upto(n + 1) \ {{}} : T \ {AnyOf(T)} \in upto(n)
    BY <1>0, <1>1
  <2> HIDE DEF upto
  <2>4. \A T \in upto(n + 1) \ {{}} : g[T] = f[AnyOf(T)] + g[T \ {AnyOf(T)}]
    <3> TAKE T \in upto(n + 1) \ {{}}
    <3>1. T \ {AnyOf(T)} \in upto(n) /\ g[T \ {AnyOf(T)}] = h[T \ {AnyOf(T)}]
      BY <2>2, <2>3
    <3>2. CASE T \in upto(n)
      BY <2>1, <2>2, <3>1, <3>2
    <3>3. CASE T \notin upto(n)
      BY <3>1, <3>3
    <3> QED BY <3>2, <3>3
  <2>5. g[{}] = 0
    BY <2>1, <2>2
  <2>6. adds(n + 1, g)
    BY <2>4, <2>5
  <2> HIDE DEF adds
  <2> QED BY <2>6
<1>4. Cardinality(S) \in P
  <2> HIDE DEF P
  <2>1. Nat \subseteq P
    BY <1>2, <1>3, AllNumbers
  <2> QED BY <1>0, <2>1
<1>5. PICK g : adds(Cardinality(S), g)
  BY <1>4
<1>6. upto(Cardinality(S)) = SUBSET S
  BY <1>0
<1> HIDE DEF upto
<1>7. Adds(f, S, g)
  BY <1>5, <1>6 DEF Adds
<1> QED BY <1>7

LEMMA TotalAdds ==
  ASSUME NEW f, NEW S, IsFiniteSet(S)
  PROVE  \E g : Adds(f, S, g) /\ SumFunctionOnSet(f, S) = g[S]
<1> DEFINE body(g) == [s \in SUBSET S |->
                  IF s = {} THEN 0 ELSE f[AnyOf(s)] + g[s \ {AnyOf(s)}]]
           g == CHOOSE h : h = body(h)
<1>1. \E h : h = body(h)
  <2>1. PICK h : Adds(f, S, h)
    BY SumExists
  <2>2. PICK k : k = [s \in SUBSET S |-> h[s]]
    OBVIOUS
  <2>3. k = body(k)
    <3>1. \A T \in SUBSET S : T \ {AnyOf(T)} \in SUBSET S
      OBVIOUS
    <3>2. ASSUME NEW T \in SUBSET S
          PROVE  k[T] = IF T = {} THEN 0 ELSE f[AnyOf(T)] + k[T \ {AnyOf(T)}]
      <4>1. CASE T = {}
        <5>1. k[T] = h[T] /\ h[{}] = 0
          BY <2>1, <2>2 DEF Adds
        <5> QED BY <4>1, <5>1
      <4>2. CASE T # {}
        <5>1. T \in SUBSET S /\ T \ {AnyOf(T)} \in SUBSET S
          BY <4>2
        <5>2. k[T] = h[T] /\ k[T \ {AnyOf(T)}] = h[T \ {AnyOf(T)}]
          BY <2>2, <5>1
        <5>3. h[T] = f[AnyOf(T)] + h[T \ {AnyOf(T)}]
          BY <2>1, <4>2, <5>1 DEF Adds
        <5> QED BY <4>2, <5>2, <5>3
      <4> QED BY <4>1, <4>2
    <3>3. k = [s \in SUBSET S |-> k[s]]
      BY <2>2
    <3> QED BY <3>2, <3>3
  <2> QED BY <2>3
<1>2. g = body(g)
  BY <1>1
<1>3. SumFunctionOnSet(f, S) = g[S]
  BY Zenon DEF SumFunctionOnSet, AnyOf, FoldFunctionOnSet, MapThenFoldSet
<1> HIDE DEF g
<1>4. \A T \in SUBSET S : g[T] = IF T = {} THEN 0 ELSE f[AnyOf(T)] + g[T \ {AnyOf(T)}]
  BY <1>2
<1>5. DOMAIN g = SUBSET S
  BY <1>2
<1>6. Adds(f, S, g)
  BY <1>4, <1>5 DEF Adds
<1> QED BY <1>3, <1>6

\* Finite sets have cardinalities, and lose one with an element.
LEMMA Parts ==
  ASSUME NEW S, IsFiniteSet(S)
  PROVE  /\ Cardinality(S) \in Nat
         /\ \A T \in SUBSET S : /\ IsFiniteSet(T) /\ Cardinality(T) \in Nat /\ Cardinality(T) <= Cardinality(S)
                                /\ Cardinality(T) = 0 <=> T = {}
                                /\ \A x \in T : Cardinality(T \ {x}) = Cardinality(T) - 1
BY FS_Subset, FS_CardinalityType, FS_EmptySet, FS_RemoveElement

\* The order in which the elements are added does not matter.
LEMMA AddsAny ==
  ASSUME NEW f, NEW S, IsFiniteSet(S), \A x \in S : f[x] \in Nat, NEW g, Adds(f, S, g)
  PROVE  \A T \in SUBSET S : g[T] \in Nat /\ \A y \in T : g[T] = f[y] + g[T \ {y}]
<1> DEFINE good(T) == g[T] \in Nat /\ \A y \in T : g[T] = f[y] + g[T \ {y}]
           P == {n \in Nat : \A T \in SUBSET S : Cardinality(T) <= n => good(T)}
<1>0. \A T : T # {} => AnyOf(T) \in T
  BY DEF AnyOf
<1>1. 0 \in P
  <2>1. ASSUME NEW T \in SUBSET S, Cardinality(T) <= 0 PROVE good(T)
    <3>1. T = {}
      BY <2>1, Parts
    <3> QED BY <3>1 DEF Adds
  <2> QED BY <2>1
<1>2. ASSUME NEW n \in Nat, n \in P
      PROVE  n + 1 \in P
  <2>1. ASSUME NEW T \in SUBSET S, Cardinality(T) <= n + 1, T # {}
        PROVE  good(T)
    <3> DEFINE x == AnyOf(T)
    <3>1. x \in T /\ T \ {x} \in SUBSET S /\ \A y \in T : T \ {y} \in SUBSET S /\ Cardinality(T \ {y}) <= n
      <4>1. x \in T
        BY <1>0, <2>1
      <4>2. ASSUME NEW y \in T PROVE T \ {y} \in SUBSET S /\ Cardinality(T \ {y}) <= n
        <5>1. Cardinality(T \ {y}) = Cardinality(T) - 1 /\ Cardinality(T) \in Nat
          BY Parts
        <5> QED BY <2>1, <5>1
      <4> QED BY <4>1, <4>2
    <3>2. g[T] = f[x] + g[T \ {x}]
      BY <2>1 DEF Adds
    <3> HIDE DEF x
    <3>3. \A U \in SUBSET S : Cardinality(U) <= n => good(U)
      BY <1>2
    <3>4. \A y \in T : good(T \ {y})
      BY <3>1, <3>3
    <3>5. \A y \in T : f[y] \in Nat /\ g[T \ {y}] \in Nat
      BY <3>4
    <3>6. ASSUME NEW y \in T PROVE g[T] = f[y] + g[T \ {y}]
      <4>1. CASE y = x
        BY <3>2, <4>1
      <4>2. CASE y # x
        <5>1. /\ g[T \ {x}] = f[y] + g[(T \ {x}) \ {y}]
              /\ g[T \ {y}] = f[x] + g[(T \ {y}) \ {x}]
          BY <3>1, <3>4, <4>2
        <5>2. (T \ {x}) \ {y} = (T \ {y}) \ {x}
          OBVIOUS
        <5> DEFINE r == g[(T \ {y}) \ {x}]
        <5>3. r \in Nat
          <6>1. (T \ {y}) \ {x} \in SUBSET S /\ Cardinality((T \ {y}) \ {x}) <= n
            <7>1. /\ Cardinality((T \ {y}) \ {x}) = Cardinality(T \ {y}) - 1
                  /\ Cardinality(T \ {y}) \in Nat /\ Cardinality(T \ {y}) <= n
              BY <3>1, <4>2, Parts
            <7> QED BY <7>1
          <6> QED BY <3>3, <6>1
        <5> HIDE DEF r
        <5>4. g[T \ {x}] = f[y] + r /\ g[T \ {y}] = f[x] + r
          BY <5>1, <5>2 DEF r
        <5> QED BY <3>1, <3>2, <3>5, <5>3, <5>4
      <4> QED BY <4>1, <4>2
    <3>7. g[T] \in Nat
      BY <3>1, <3>2, <3>5
    <3> QED BY <3>6, <3>7
  <2>2. good({})
    BY DEF Adds
  <2> HIDE DEF good
  <2>3. \A T \in SUBSET S : Cardinality(T) <= n + 1 => good(T)
    BY <2>1, <2>2
  <2> QED BY <2>3
<1>3. Nat \subseteq P
  <2> HIDE DEF P
  <2> QED BY <1>1, <1>2, AllNumbers
<1>4. \A T \in SUBSET S : Cardinality(T) \in Nat
  BY Parts
<1>5. \A T \in SUBSET S : Cardinality(T) <= Cardinality(T) /\ Cardinality(T) \in P
  BY <1>3, <1>4
<1>6. \A T \in SUBSET S : good(T)
  <2> HIDE DEF good
  <2> QED BY <1>5
<1> QED BY <1>6

\* Two such functions agree where both are defined, and it matters only what f is on the set.
LEMMA AddsAgree ==
  ASSUME NEW f, NEW e, NEW S, IsFiniteSet(S), NEW T \in SUBSET S, \A x \in T : e[x] = f[x],
         NEW g, Adds(f, S, g), NEW h, Adds(e, T, h)
  PROVE  g[T] = h[T]
<1> DEFINE P == {n \in Nat : \A U \in SUBSET T : Cardinality(U) <= n => g[U] = h[U]}
<1>0. \A U : U # {} => AnyOf(U) \in U
  BY DEF AnyOf
<1>1. 0 \in P
  <2>1. ASSUME NEW U \in SUBSET T, Cardinality(U) <= 0 PROVE g[U] = h[U]
    <3>1. U = {}
      BY <2>1, Parts
    <3> QED BY <3>1 DEF Adds
  <2> QED BY <2>1
<1>2. ASSUME NEW n \in Nat, n \in P
      PROVE  n + 1 \in P
  <2>1. ASSUME NEW U \in SUBSET T, Cardinality(U) <= n + 1, U # {}
        PROVE  g[U] = h[U]
    <3> DEFINE x == AnyOf(U)
               V == U \ {x}
    <3>1. x \in U /\ V \in SUBSET T /\ U \in SUBSET S /\ e[x] = f[x]
      BY <1>0, <2>1
    <3>2. Cardinality(V) <= n
      <4>1. Cardinality(V) = Cardinality(U) - 1 /\ Cardinality(U) \in Nat
        BY <3>1, Parts
      <4> QED BY <2>1, <4>1
    <3>3. g[V] = h[V]
      BY <1>2, <3>1, <3>2
    <3>4. g[U] = f[x] + g[V] /\ h[U] = e[x] + h[V]
      BY <2>1, <3>1 DEF Adds
    <3> QED BY <3>1, <3>3, <3>4
  <2>2. g[{}] = h[{}]
    BY DEF Adds
  <2>3. ASSUME NEW U \in SUBSET T, Cardinality(U) <= n + 1
        PROVE  g[U] = h[U]
    <3>1. CASE U = {}
      BY <2>2, <3>1
    <3>2. CASE U # {}
      BY <2>1, <2>3, <3>2
    <3> QED BY <3>1, <3>2
  <2> QED BY <2>3
<1>3. Nat \subseteq P
  <2> HIDE DEF P
  <2> QED BY <1>1, <1>2, AllNumbers
<1>4. Cardinality(T) \in Nat /\ Cardinality(T) <= Cardinality(T) /\ T \in SUBSET T
  BY Parts
<1> QED BY <1>3, <1>4

\* A sum of numbers is one; it is empty or has any element and the others.
LEMMA SumOne ==
  ASSUME NEW f, NEW S, IsFiniteSet(S), \A x \in S : f[x] \in Nat
  PROVE  /\ SumFunctionOnSet(f, S) \in Nat
         /\ \A T \in SUBSET S : SumFunctionOnSet(f, T) \in Nat
         /\ SumFunctionOnSet(f, {}) = 0
         /\ \A y \in S : SumFunctionOnSet(f, S) = f[y] + SumFunctionOnSet(f, S \ {y})
<1>1. PICK g : Adds(f, S, g) /\ SumFunctionOnSet(f, S) = g[S]
  BY TotalAdds
<1>2. ASSUME NEW T \in SUBSET S PROVE SumFunctionOnSet(f, T) = g[T]
  <2>1. IsFiniteSet(T)
    BY Parts
  <2>2. PICK h : Adds(f, T, h) /\ SumFunctionOnSet(f, T) = h[T]
    BY <2>1, TotalAdds
  <2>3. PICK e : e = f
    OBVIOUS
  <2>4. Adds(e, T, h) /\ \A x \in T : e[x] = f[x]
    BY <2>2, <2>3
  <2>5. g[T] = h[T]
    BY <1>1, <2>4, AddsAgree
  <2> QED BY <2>2, <2>5
<1>3. \A T \in SUBSET S : g[T] \in Nat /\ \A y \in T : g[T] = f[y] + g[T \ {y}]
  <2>1. Adds(f, S, g)
    BY <1>1
  <2> TAKE T \in SUBSET S
  <2>2. g[T] \in Nat
    BY <2>1, AddsAny
  <2>3. \A y \in T : g[T] = f[y] + g[T \ {y}]
    BY <2>1, AddsAny
  <2> QED BY <2>2, <2>3
<1>4. g[{}] = 0
  BY <1>1 DEF Adds
<1>5. {} \in SUBSET S /\ S \in SUBSET S /\ \A y \in S : S \ {y} \in SUBSET S
  OBVIOUS
<1> QED BY <1>2, <1>3, <1>4, <1>5

\* It matters only what is added.
LEMMA SumSame ==
  ASSUME NEW f, NEW e, NEW S, IsFiniteSet(S), \A x \in S : e[x] = f[x]
  PROVE  SumFunctionOnSet(e, S) = SumFunctionOnSet(f, S)
<1>1. PICK g : Adds(f, S, g) /\ SumFunctionOnSet(f, S) = g[S]
  BY TotalAdds
<1>2. PICK h : Adds(e, S, h) /\ SumFunctionOnSet(e, S) = h[S]
  BY TotalAdds
<1>3. S \in SUBSET S
  OBVIOUS
<1> QED BY <1>1, <1>2, <1>3, AddsAgree

LEMMA SumUnion ==
  ASSUME NEW f, NEW S, IsFiniteSet(S), \A x \in S : f[x] \in Nat, NEW A \in SUBSET S
  PROVE  \A B \in SUBSET S : A \cap B = {} =>
           SumFunctionOnSet(f, A \cup B) = SumFunctionOnSet(f, A) + SumFunctionOnSet(f, B)
<1> DEFINE sum(T) == SumFunctionOnSet(f, T)
           P == {n \in Nat : \A B \in SUBSET S :
                   Cardinality(B) <= n /\ A \cap B = {} => sum(A \cup B) = sum(A) + sum(B)}
<1>0. ASSUME NEW T \in SUBSET S
      PROVE  sum(T) \in Nat /\ \A y \in T : f[y] \in Nat /\ sum(T) = f[y] + sum(T \ {y})
  <2>1. IsFiniteSet(T) /\ \A x \in T : f[x] \in Nat
    BY Parts
  <2> QED BY <2>1, SumOne
<1>1. sum({}) = 0
  BY SumOne
<1> HIDE DEF sum
<1>2. 0 \in P
  <2>1. ASSUME NEW B \in SUBSET S, Cardinality(B) <= 0 PROVE sum(A \cup B) = sum(A) + sum(B)
    <3>1. B = {} /\ A \cup B = A
      BY <2>1, Parts
    <3> QED BY <1>0, <1>1, <3>1
  <2> QED BY <2>1
<1>3. ASSUME NEW n \in Nat, n \in P
      PROVE  n + 1 \in P
  <2>1. ASSUME NEW B \in SUBSET S, Cardinality(B) <= n + 1, A \cap B = {}, B # {}
        PROVE  sum(A \cup B) = sum(A) + sum(B)
    <3>1. PICK y \in B : TRUE
      BY <2>1
    <3> DEFINE C == B \ {y}
    <3>2. C \in SUBSET S /\ A \cap C = {} /\ Cardinality(C) <= n
      <4>1. Cardinality(C) = Cardinality(B) - 1 /\ Cardinality(B) \in Nat
        BY Parts
      <4> QED BY <2>1, <4>1
    <3>3. sum(A \cup C) = sum(A) + sum(C)
      BY <1>3, <3>2
    <3>4. y \in A \cup B /\ A \cup B \in SUBSET S /\ (A \cup B) \ {y} = A \cup C
      BY <2>1
    <3>5. sum(B) = f[y] + sum(C) /\ sum(A \cup B) = f[y] + sum(A \cup C)
      BY <1>0, <3>4
    <3>6. sum(A) \in Nat /\ sum(C) \in Nat /\ f[y] \in Nat
      BY <1>0, <3>2
    <3> QED BY <3>3, <3>5, <3>6
  <2>2. ASSUME NEW B \in SUBSET S, B = {} PROVE sum(A \cup B) = sum(A) + sum(B)
    <3>1. A \cup B = A
      BY <2>2
    <3> QED BY <1>0, <1>1, <2>2, <3>1
  <2>3. ASSUME NEW B \in SUBSET S, Cardinality(B) <= n + 1, A \cap B = {}
        PROVE  sum(A \cup B) = sum(A) + sum(B)
    BY <2>1, <2>2, <2>3
  <2> QED BY <2>3
<1>4. Nat \subseteq P
  <2> HIDE DEF P
  <2> QED BY <1>2, <1>3, AllNumbers
<1>5. \A B \in SUBSET S : Cardinality(B) \in Nat /\ Cardinality(B) <= Cardinality(B)
  BY Parts
<1> QED BY <1>4, <1>5 DEF sum

\* The elements of a set, counted one by one.
LEMMA SumOfOnes ==
  ASSUME NEW f, NEW S, IsFiniteSet(S), \A x \in S : f[x] = 1
  PROVE  SumFunctionOnSet(f, S) = Cardinality(S)
<1> DEFINE P == {n \in Nat : \A T \in SUBSET S :
                   Cardinality(T) <= n => SumFunctionOnSet(f, T) = Cardinality(T)}
<1>0. ASSUME NEW T \in SUBSET S
      PROVE  /\ SumFunctionOnSet(f, T) \in Nat /\ SumFunctionOnSet(f, {}) = 0
             /\ \A y \in T : SumFunctionOnSet(f, T) = 1 + SumFunctionOnSet(f, T \ {y})
  <2>1. IsFiniteSet(T) /\ \A x \in T : f[x] \in Nat /\ f[x] = 1
    BY Parts
  <2> QED BY <2>1, SumOne
<1>1. 0 \in P
  <2>1. ASSUME NEW T \in SUBSET S, Cardinality(T) <= 0 PROVE SumFunctionOnSet(f, T) = Cardinality(T)
    <3>1. T = {}
      BY <2>1, Parts
    <3>2. SumFunctionOnSet(f, {}) = 0 /\ Cardinality({}) = 0
      BY <1>0, FS_EmptySet
    <3> QED BY <3>1, <3>2
  <2> QED BY <2>1
<1>2. ASSUME NEW n \in Nat, n \in P
      PROVE  n + 1 \in P
  <2>1. ASSUME NEW T \in SUBSET S, Cardinality(T) <= n + 1, T # {}
        PROVE  SumFunctionOnSet(f, T) = Cardinality(T)
    <3>1. PICK y \in T : TRUE
      BY <2>1
    <3>2. Cardinality(T \ {y}) = Cardinality(T) - 1 /\ Cardinality(T) \in Nat
      BY Parts
    <3>3. SumFunctionOnSet(f, T \ {y}) = Cardinality(T \ {y})
      BY <1>2, <2>1, <3>2
    <3>4. SumFunctionOnSet(f, T) = 1 + SumFunctionOnSet(f, T \ {y})
      BY <1>0
    <3> QED BY <3>2, <3>3, <3>4
  <2>2. SumFunctionOnSet(f, {}) = Cardinality({})
    BY <1>0, FS_EmptySet
  <2> QED BY <2>1, <2>2
<1>3. Nat \subseteq P
  <2> HIDE DEF P
  <2> QED BY <1>1, <1>2, AllNumbers
<1>4. Cardinality(S) \in Nat /\ Cardinality(S) <= Cardinality(S) /\ S \in SUBSET S
  BY Parts
<1> QED BY <1>3, <1>4

\* What a set comes to is what its classes come to, added up.
LEMMA SumOfClasses ==
  ASSUME NEW f, NEW S, IsFiniteSet(S), \A x \in S : f[x] \in Nat,
         NEW class, NEW C, IsFiniteSet(C), \A x \in S : class[x] \in C,
         NEW w, \A c \in C : w[c] = SumFunctionOnSet(f, {x \in S : class[x] = c})
  PROVE  SumFunctionOnSet(w, C) = SumFunctionOnSet(f, S)
<1> DEFINE in(D) == {x \in S : class[x] \in D}
           P == {n \in Nat : \A D \in SUBSET C :
                   Cardinality(D) <= n => SumFunctionOnSet(w, D) = SumFunctionOnSet(f, in(D))}
<1>0. \A c \in C : w[c] \in Nat
  <2> TAKE c \in C
  <2> DEFINE D == {x \in S : class[x] = c}
  <2>1. D \in SUBSET S /\ w[c] = SumFunctionOnSet(f, D)
    OBVIOUS
  <2> HIDE DEF D
  <2>2. SumFunctionOnSet(f, D) \in Nat
    BY <2>1, SumOne
  <2> QED BY <2>1, <2>2
<1>1. SumFunctionOnSet(w, {}) = 0 /\ SumFunctionOnSet(f, {}) = 0 /\ in({}) = {}
  BY <1>0, SumOne
<1>2. 0 \in P
  <2>1. ASSUME NEW D \in SUBSET C, Cardinality(D) <= 0
        PROVE  SumFunctionOnSet(w, D) = SumFunctionOnSet(f, in(D))
    <3>1. D = {}
      BY <2>1, Parts
    <3> HIDE DEF in
    <3> QED BY <1>1, <3>1
  <2> QED BY <2>1
<1>3. ASSUME NEW n \in Nat, n \in P
      PROVE  n + 1 \in P
  <2>1. ASSUME NEW D \in SUBSET C, Cardinality(D) <= n + 1, D # {}
        PROVE  SumFunctionOnSet(w, D) = SumFunctionOnSet(f, in(D))
    <3>1. PICK c \in D : TRUE
      BY <2>1
    <3> DEFINE E == D \ {c}
    <3>2. Cardinality(E) = Cardinality(D) - 1 /\ Cardinality(D) \in Nat /\ IsFiniteSet(D) /\ E \in SUBSET C
      BY Parts
    <3>3. SumFunctionOnSet(w, E) = SumFunctionOnSet(f, in(E))
      BY <1>3, <2>1, <3>2
    <3>4. SumFunctionOnSet(w, D) = w[c] + SumFunctionOnSet(w, E)
      BY <1>0, <3>2, SumOne
    <3>5. w[c] = SumFunctionOnSet(f, in({c}))
      <4>1. in({c}) = {x \in S : class[x] = c}
        OBVIOUS
      <4> QED BY <4>1
    <3>6. in(D) = in(E) \cup in({c}) /\ in(E) \cap in({c}) = {} /\ in(E) \in SUBSET S /\ in({c}) \in SUBSET S
      OBVIOUS
    <3> HIDE DEF in, E
    <3>7. SumFunctionOnSet(f, in(D)) = SumFunctionOnSet(f, in(E)) + SumFunctionOnSet(f, in({c}))
      <4>1. SumFunctionOnSet(f, in(E) \cup in({c})) = SumFunctionOnSet(f, in(E)) + SumFunctionOnSet(f, in({c}))
        BY <3>6, SumUnion
      <4> QED BY <3>6, <4>1
    <3>8. SumFunctionOnSet(f, in(E)) \in Nat /\ SumFunctionOnSet(f, in({c})) \in Nat
      BY <3>6, SumOne
    <3> QED BY <3>3, <3>4, <3>5, <3>7, <3>8
  <2>2. SumFunctionOnSet(w, {}) = SumFunctionOnSet(f, in({}))
    <3> HIDE DEF in
    <3> QED BY <1>1
  <2> QED BY <2>1, <2>2
<1>4. Nat \subseteq P
  <2> HIDE DEF P
  <2> QED BY <1>2, <1>3, AllNumbers
<1>5. Cardinality(C) \in Nat /\ Cardinality(C) <= Cardinality(C) /\ C \in SUBSET C
  BY Parts
<1>6. in(C) = S
  OBVIOUS
<1>7. SumFunctionOnSet(w, C) = SumFunctionOnSet(f, in(C))
  BY <1>4, <1>5
<1> QED BY <1>6, <1>7

-----------------------------------------------------------------------------
(* The pages, for any rows of whole hours.                                 *)

LEMMA DayUnique ==
  ASSUME NEW h \in Nat \ {0}, NEW q \in Int, NEW r \in Int, NEW t \in Int, h * q <= t, t < h * q + h,
         h * r <= t, t < h * r + h
  PROVE  q = r
<1>1. ASSUME NEW x \in Int, NEW y \in Int, x < y
      PROVE h * x + h <= h * y
  <2>1. PICK d \in Nat : y = x + 1 + d
    <3>1. y - x - 1 \in Nat /\ y = x + 1 + (y - x - 1)
      BY <1>1
    <3> QED BY <3>1
  <2>2. h * (x + 1 + d) = h * x + h + h * d /\ h * d >= 0
    OBVIOUS
  <2> QED BY <2>1, <2>2
<1>2. h * q \in Int /\ h * r \in Int
  OBVIOUS
<1>3. CASE q < r
  <2>1. h * q + h <= h * r
    BY <1>1, <1>3
  <2> QED BY <1>2, <2>1
<1>4. CASE r < q
  <2>1. h * r + h <= h * q
    BY <1>1, <1>4
  <2> QED BY <1>2, <2>1
<1> QED BY <1>3, <1>4

\* A day has HoursPerDay hours, and two days are apart.
LEMMA DayBounds ==
  ASSUME NEW t \in Int
  PROVE  /\ startOfDay(t) \in Int /\ startOfDay(t) <= t /\ t < startOfDay(t) + HoursPerDay
         /\ \A c \in Int : startOfDay(c) = startOfDay(t) <=> c \in startOfDay(t)..startOfDay(t) + HoursPerDay - 1
<1>0. HoursPerDay \in Nat \ {0}
  BY DaysAssumption
<1>1. \A c \in Int : /\ c \div HoursPerDay \in Int /\ HoursPerDay * (c \div HoursPerDay) \in Int
                     /\ HoursPerDay * (c \div HoursPerDay) <= c
                     /\ c < HoursPerDay * (c \div HoursPerDay) + HoursPerDay
  BY <1>0
<1>2. ASSUME NEW c \in Int, c \in startOfDay(t)..startOfDay(t) + HoursPerDay - 1
      PROVE  startOfDay(c) = startOfDay(t)
  <2> DEFINE q == c \div HoursPerDay
             r == t \div HoursPerDay
  <2>1. /\ q \in Int /\ r \in Int /\ HoursPerDay * q <= c /\ c < HoursPerDay * q + HoursPerDay
        /\ HoursPerDay * r \in Int
    BY <1>1
  <2>2. HoursPerDay * r <= c /\ c < HoursPerDay * r + HoursPerDay
    <3>1. startOfDay(t) = HoursPerDay * r
      BY DEF startOfDay
    <3> HIDE DEF r
    <3> QED BY <1>0, <1>2, <2>1, <3>1
  <2> HIDE DEF q, r
  <2>3. q = r
    BY <1>0, <2>1, <2>2, DayUnique
  <2> QED BY <2>3 DEF startOfDay, q, r
<1>3. /\ startOfDay(t) \in Int /\ startOfDay(t) <= t /\ t < startOfDay(t) + HoursPerDay
  BY <1>1 DEF startOfDay
<1>4. ASSUME NEW c \in Int, startOfDay(c) = startOfDay(t)
      PROVE  c \in startOfDay(t)..startOfDay(t) + HoursPerDay - 1
  <2>1. startOfDay(c) \in Int /\ startOfDay(c) <= c /\ c < startOfDay(c) + HoursPerDay
    BY <1>1 DEF startOfDay
  <2> HIDE DEF startOfDay
  <2> QED BY <1>0, <1>3, <1>4, <2>1
<1> QED BY <1>2, <1>3, <1>4

\* The rows that the pages are asked about.
Timed(r, now, zone) ==
  /\ now \in Int /\ zone \in -HoursPerDay..HoursPerDay
  /\ IsFiniteSet(DOMAIN r) /\ DOMAIN r \subseteq Nat
  /\ \A i \in DOMAIN r : r[i].time \in Int /\ r[i].time <= now /\ r[i].tokens \in Usage

\* The query that starts a day early finds all of the day.
LEMMA TodayIsDay ==
  ASSUME NEW r, NEW now, NEW zone, Timed(r, now, zone), NEW platform
  PROVE  Today(r, now, zone, platform) =
           {i \in DOMAIN r : OfPlatform(r[i], platform)
                             /\ startOfDay(createdAt(r[i], zone)) = startOfDay(now + zone)}
<1> DEFINE start == startOfDay(now + zone)
<1>0. now + zone \in Int /\ HoursPerDay \in Nat \ {0} /\ zone \in Int /\ zone <= HoursPerDay
  BY DaysAssumption DEF Timed
<1>1. start \in Int /\ \A c \in Int : startOfDay(c) = start <=> c \in start..start + HoursPerDay - 1
  BY <1>0, DayBounds
<1>2. \A i \in DOMAIN r : r[i].time \in Int /\ createdAt(r[i], zone) = r[i].time + zone
  BY DEF Timed, createdAt
<1> DEFINE hour(i) == createdAt(r[i], zone)
<1>3. Today(r, now, zone, platform) =
        {i \in DOMAIN r : r[i].time >= start - HoursPerDay /\ OfPlatform(r[i], platform)
                          /\ hour(i) \in start..start + HoursPerDay - 1}
  BY DEF Today, Since
<1> HIDE DEF start
<1>4. \A i \in DOMAIN r : hour(i) \in start..start + HoursPerDay - 1 =>
        r[i].time >= start - HoursPerDay
  BY <1>0, <1>1, <1>2
<1>5. \A i \in DOMAIN r : hour(i) \in Int
  BY <1>0, <1>2
<1> HIDE DEF hour
<1>6. \A i \in DOMAIN r : startOfDay(hour(i)) = start <=> hour(i) \in start..start + HoursPerDay - 1
  BY <1>1, <1>5
<1>7. Today(r, now, zone, platform) =
        {i \in DOMAIN r : OfPlatform(r[i], platform) /\ startOfDay(hour(i)) = start}
  BY <1>3, <1>4, <1>6
<1> QED BY <1>7 DEF hour, start

\* The cardinality of a set is that of its classes, added up.
LEMMA CountOfClasses ==
  ASSUME NEW S, IsFiniteSet(S), NEW class, NEW C, IsFiniteSet(C), \A x \in S : class[x] \in C,
         NEW w, DOMAIN w = C, \A c \in C : w[c] = Cardinality({x \in S : class[x] = c})
  PROVE  SumFunction(w) = Cardinality(S)
<1> DEFINE one == [x \in S |-> 1]
<1>1. \A x \in S : one[x] = 1 /\ one[x] \in Nat
  OBVIOUS
<1> HIDE DEF one
<1>2. \A c \in C : w[c] = SumFunctionOnSet(one, {x \in S : class[x] = c})
  <2> TAKE c \in C
  <2> DEFINE T == {x \in S : class[x] = c}
  <2>1. IsFiniteSet(T) /\ \A x \in T : one[x] = 1
    <3>1. T \in SUBSET S
      OBVIOUS
    <3> QED BY <1>1, <3>1, Parts
  <2>2. w[c] = Cardinality(T)
    OBVIOUS
  <2> HIDE DEF T
  <2>3. SumFunctionOnSet(one, T) = Cardinality(T)
    BY <2>1, SumOfOnes
  <2> QED BY <2>2, <2>3 DEF T
<1>3. SumFunctionOnSet(one, S) = Cardinality(S)
  BY <1>1, SumOfOnes
<1>4. SumFunctionOnSet(w, C) = SumFunctionOnSet(one, S)
  BY <1>1, <1>2, SumOfClasses
<1> QED BY <1>3, <1>4 DEF SumFunction

\* The newest rows: all of them, or as many as asked for.
LEMMA Newest ==
  ASSUME NEW A \in SUBSET Nat, IsFiniteSet(A), NEW limit \in Nat
  PROVE  LET new == {i \in A : Cardinality({j \in A : j > i}) < limit} IN
         new = A \/ Cardinality(new) = limit
<1> DEFINE above(B, i) == {j \in B : j > i}
           new(B) == {i \in B : Cardinality(above(B, i)) < limit}
           good(B) == /\ Cardinality(B) <= limit => new(B) = B
                      /\ Cardinality(B) >= limit => Cardinality(new(B)) = limit
           P == {n \in Nat : \A B \in SUBSET A : Cardinality(B) <= n => good(B)}
<1>1. good({})
  <2>1. new({}) = {} /\ Cardinality({}) = 0
    BY FS_EmptySet
  <2> HIDE DEF new
  <2> QED BY <2>1
<1>2. 0 \in P
  <2>1. \A B \in SUBSET A : Cardinality(B) \in Nat /\ (Cardinality(B) = 0 <=> B = {})
    BY Parts
  <2>2. ASSUME NEW B \in SUBSET A, Cardinality(B) <= 0 PROVE good(B)
    <3>1. B = {}
      BY <2>1, <2>2
    <3> HIDE DEF good
    <3> QED BY <1>1, <3>1
  <2> HIDE DEF good
  <2> QED BY <2>2
<1>3. ASSUME NEW n \in Nat, n \in P
      PROVE  n + 1 \in P
  <2>1. ASSUME NEW B \in SUBSET A, Cardinality(B) <= n + 1, B # {}
        PROVE  good(B)
    <3>1. PICK m \in B : \A i \in B : m <= i
      <4> DEFINE R == {ss \in Nat \X Nat : ss[1] < ss[2]}
      <4>1. IsWellFoundedOn(R, Nat)
        BY NatLessThanWellFounded DEF OpToRel
      <4>2. PICK m \in B : \A y \in B : ~(<<y, m>> \in R)
        <5>1. B \in SUBSET Nat
          OBVIOUS
        <5> HIDE DEF R
        <5> QED BY <2>1, <4>1, <5>1, WFMin
      <4>3. ASSUME NEW i \in B PROVE m <= i
        <5>1. i \in Nat /\ m \in Nat /\ ~(<<i, m>> \in R)
          BY <4>2
        <5> QED BY <5>1
      <4> QED BY <4>3
    <3> DEFINE C == B \ {m}
    <3>2. /\ C \in SUBSET A /\ Cardinality(C) = Cardinality(B) - 1 /\ Cardinality(B) \in Nat
          /\ Cardinality(C) \in Nat
      <4>1. C \in SUBSET A
        OBVIOUS
      <4>2. Cardinality(B) \in Nat /\ \A x \in B : Cardinality(B \ {x}) = Cardinality(B) - 1
        BY Parts
      <4>3. Cardinality(C) \in Nat
        <5> HIDE DEF C
        <5> QED BY <4>1, Parts
      <4> QED BY <4>1, <4>2, <4>3
    <3>3. above(B, m) = C
      <4>1. \A j \in B : j \in Nat /\ m \in Nat /\ m <= j
        BY <3>1
      <4>2. \A j \in B : j > m <=> j # m
        BY <4>1
      <4> QED BY <4>2
    <3>4. \A i \in C : above(B, i) = above(C, i)
      BY <3>1
    <3>5. \A i \in B : Cardinality(above(B, i)) \in Nat /\ Cardinality(above(B, i)) <= Cardinality(C)
      <4> TAKE i \in B
      <4>1. above(B, i) \in SUBSET C
        BY <3>1
      <4>2. IsFiniteSet(C)
        <5>1. IsFiniteSet(B)
          BY Parts
        <5> QED BY <5>1, FS_Subset
      <4> HIDE DEF above, C
      <4> QED BY <4>1, <4>2, Parts
    <3>6. m \in B /\ C \cup {m} = B /\ m \notin C
      OBVIOUS
    <3>7. Cardinality(C) <= n
      BY <2>1, <3>2
    <3>8. /\ \A i : i \in new(B) <=> i \in B /\ Cardinality(above(B, i)) < limit
          /\ \A i : i \in new(C) <=> i \in C /\ Cardinality(above(C, i)) < limit
      OBVIOUS
    <3>9. good(C)
      <4> HIDE DEF good, C
      <4> QED BY <1>3, <3>2, <3>7
    <3>10. CASE Cardinality(C) < limit
      <4>1. \A i \in B : Cardinality(above(B, i)) < limit
        <5> HIDE DEF above, C
        <5> QED BY <3>2, <3>5, <3>10
      <4>2. new(B) = B
        BY <4>1
      <4> HIDE DEF new, C
      <4> QED BY <3>2, <3>10, <4>2
    <3>11. CASE ~(Cardinality(C) < limit)
      <4>1. \A i : i \in new(B) <=> i \in new(C)
        <5> HIDE DEF above, C, new
        <5> QED BY <3>2, <3>3, <3>4, <3>6, <3>8, <3>11
      <4>2. new(B) = new(C)
        <5> HIDE DEF C
        <5> QED BY <4>1
      <4> HIDE DEF new, C
      <4> QED BY <3>2, <3>9, <3>11, <4>2
    <3> QED BY <3>10, <3>11
  <2> HIDE DEF good
  <2>2. \A B \in SUBSET A : Cardinality(B) <= n + 1 => good(B)
    BY <1>1, <2>1
  <2> QED BY <2>2
<1>4. Nat \subseteq P
  <2> HIDE DEF P
  <2> QED BY <1>2, <1>3, AllNumbers
<1>5. Cardinality(A) \in Nat /\ Cardinality(A) <= Cardinality(A) /\ A \in SUBSET A
  BY Parts
<1>6. good(A)
  <2> HIDE DEF good
  <2> QED BY <1>4, <1>5
<1> HIDE DEF new
<1>7. new(A) = A \/ Cardinality(new(A)) = limit
  BY <1>5, <1>6
<1> QED BY <1>7 DEF new

LEMMA TodayFinite ==
  ASSUME NEW r, NEW now, NEW zone, Timed(r, now, zone), NEW platform
  PROVE  LET today == Today(r, now, zone, platform) IN
         /\ today \subseteq DOMAIN r /\ IsFiniteSet(today)
         /\ \A i \in today : /\ r[i].tokens \in Usage /\ OfPlatform(r[i], platform)
                             /\ createdAt(r[i], zone) - startOfDay(now + zone) \in 0..HoursPerDay - 1
<1> DEFINE today == Today(r, now, zone, platform)
           start == startOfDay(now + zone)
<1>0. HoursPerDay \in Nat \ {0} /\ now + zone \in Int /\ \A i \in DOMAIN r : createdAt(r[i], zone) \in Int
  BY DaysAssumption DEF Timed, createdAt
<1>1. start \in Int
  BY <1>0, DayBounds
<1>2. today \subseteq DOMAIN r
  BY DEF Today, Since
<1>3. IsFiniteSet(today)
  <2>1. IsFiniteSet(DOMAIN r)
    BY DEF Timed
  <2> HIDE DEF today
  <2> QED BY <1>2, <2>1, FS_Subset
<1>4. \A i \in today : createdAt(r[i], zone) \in start..start + HoursPerDay - 1 /\ OfPlatform(r[i], platform)
  BY DEF Today
<1>5. \A i \in today : r[i].tokens \in Usage
  BY <1>2 DEF Timed
<1> HIDE DEF today, start
<1>6. \A i \in today : createdAt(r[i], zone) - start \in 0..HoursPerDay - 1
  <2> TAKE i \in today
  <2> DEFINE c == createdAt(r[i], zone)
  <2>1. c \in Int /\ c \in start..start + HoursPerDay - 1
    BY <1>0, <1>2, <1>4
  <2> HIDE DEF c
  <2>2. c - start \in 0..HoursPerDay - 1
    BY <1>0, <1>1, <2>1
  <2> QED BY <2>2 DEF c
<1>7. /\ today \subseteq DOMAIN r /\ IsFiniteSet(today)
      /\ \A i \in today : /\ r[i].tokens \in Usage /\ OfPlatform(r[i], platform)
                          /\ createdAt(r[i], zone) - start \in 0..HoursPerDay - 1
  BY <1>2, <1>3, <1>4, <1>5, <1>6
<1> QED BY <1>7 DEF today, start

\* As SumOfClasses, with the classes given.
LEMMA SumOfParts ==
  ASSUME NEW f, NEW S, IsFiniteSet(S), \A x \in S : f[x] \in Nat,
         NEW class, NEW C, IsFiniteSet(C), \A x \in S : class[x] \in C,
         NEW part, \A c \in C : part[c] \subseteq S /\ \A x \in S : x \in part[c] <=> class[x] = c,
         NEW w, DOMAIN w = C, \A c \in C : w[c] = SumFunctionOnSet(f, part[c])
  PROVE  SumFunction(w) = SumFunctionOnSet(f, S)
<1>1. \A c \in C : part[c] = {x \in S : class[x] = c}
  OBVIOUS
<1>2. \A c \in C : w[c] = SumFunctionOnSet(f, {x \in S : class[x] = c})
  BY <1>1
<1>3. SumFunctionOnSet(w, C) = SumFunctionOnSet(f, S)
  BY <1>2, SumOfClasses
<1> QED BY <1>3 DEF SumFunction

\* The hours of the day have all of the day's rows.
LEMMA HoursAdd ==
  ASSUME NEW r, NEW now, NEW zone, Timed(r, now, zone), NEW platform
  PROVE  LET stats == StatsSince(r, now, zone, platform) IN
         SumFunction([h \in DOMAIN stats.series |-> stats.series[h].total]) = Cardinality(Today(r, now, zone, platform))
<1> DEFINE today == Today(r, now, zone, platform)
           start == startOfDay(now + zone)
           hour(i) == createdAt(r[i], zone) - start
           bucket(h) == {i \in today : hour(i) = h}
           stats == StatsSince(r, now, zone, platform)
           C == 0..HoursPerDay - 1
           w == [h \in DOMAIN stats.series |-> stats.series[h].total]
           class == [i \in today |-> hour(i)]
<1>1. IsFiniteSet(today) /\ \A i \in today : hour(i) \in C
  BY TodayFinite
<1>2. IsFiniteSet(C)
  BY DaysAssumption, FS_Interval
<1>3. stats.series = [h \in C |-> [total |-> Cardinality(bucket(h)), tokens |-> Spent(r, bucket(h))]]
  BY DEF StatsSince
<1>4. DOMAIN w = C /\ \A h \in C : w[h] = Cardinality(bucket(h))
  BY <1>3
<1> HIDE DEF today, stats, C, w, hour
<1>5. \A i \in today : class[i] \in C /\ class[i] = hour(i)
  BY <1>1
<1>6. \A h \in C : {i \in today : class[i] = h} = bucket(h)
  BY <1>5
<1> HIDE DEF class
<1>7. SumFunction(w) = Cardinality(today)
  <2>1. \A h \in C : w[h] = Cardinality({i \in today : class[i] = h})
    BY <1>4, <1>6
  <2> QED BY <1>1, <1>2, <1>4, <1>5, <2>1, CountOfClasses
<1> QED BY <1>7 DEF w, stats, today

\* What the rows of the providers come to in w is what the day's rows do.
TotalsAdd(r, today, by, w) == (\A p \in DOMAIN w : w[p] = by[p].total) => SumFunction(w) = Cardinality(today)
SuccessesAdd(r, today, by, w) ==
  (\A p \in DOMAIN w : w[p] = by[p].successful) => SumFunction(w) = Cardinality({i \in today : Success(r[i].code)})
TokensAdd(r, today, by, w) ==
  \A k \in Kinds : (\A p \in DOMAIN w : w[p] = by[p].tokens[k]) => SumFunction(w) = Spent(r, today)[k]

\* The providers have them all too: their attempts, those that succeeded, and their tokens.
LEMMA ProvidersAdd ==
  ASSUME NEW r, NEW now, NEW zone, Timed(r, now, zone), NEW platform,
         NEW w, DOMAIN w = DOMAIN ProviderDailyStats(r, now, zone, platform)
  PROVE  LET today == Today(r, now, zone, platform)
             by == ProviderDailyStats(r, now, zone, platform) IN
         TotalsAdd(r, today, by, w) /\ SuccessesAdd(r, today, by, w) /\ TokensAdd(r, today, by, w)
<1>0. PICK today, by : today = Today(r, now, zone, platform) /\ by = ProviderDailyStats(r, now, zone, platform)
  OBVIOUS
<1> DEFINE of(p) == {i \in today : r[i].provider = p}
           ok == {i \in today : Success(r[i].code)}
           C == {r[i].provider : i \in today}
           class == [i \in today |-> r[i].provider]
<1>1. IsFiniteSet(today) /\ \A i \in today : r[i].tokens \in Usage
  BY <1>0, TodayFinite
<1>2. by = [p \in C |->
              [total |-> Cardinality(of(p)), successful |-> Cardinality({i \in of(p) : Success(r[i].code)}),
               failed |-> Cardinality(of(p) \ {i \in of(p) : Success(r[i].code)}), tokens |-> Spent(r, of(p))]]
  BY <1>0 DEF ProviderDailyStats
<1>3. DOMAIN by = C /\ \A p \in C : /\ by[p].total = Cardinality(of(p))
                                    /\ by[p].successful = Cardinality({i \in of(p) : Success(r[i].code)})
                                    /\ by[p].tokens = Spent(r, of(p))
  BY <1>2
<1>4. IsFiniteSet(C)
  <2>1. class \in Surjection(today, C)
    BY DEF Surjection
  <2> HIDE DEF class, C
  <2> QED BY <1>1, <2>1, FS_Surjection
<1>5. /\ \A i \in today : class[i] \in C /\ class[i] = r[i].provider
      /\ ok \subseteq today
  OBVIOUS
<1>6. IsFiniteSet(ok)
  BY <1>1, <1>5, FS_Subset
<1>7. /\ \A p \in C : {i \in today : class[i] = p} = of(p)
      /\ \A p \in C : {i \in ok : class[i] = p} = {i \in of(p) : Success(r[i].code)}
  BY <1>5
<1> HIDE DEF C, class
<1>8. ASSUME \A p \in DOMAIN w : w[p] = by[p].total
      PROVE  SumFunction(w) = Cardinality(today)
  <2>1. DOMAIN w = C /\ \A p \in C : w[p] = Cardinality({i \in today : class[i] = p})
    BY <1>0, <1>3, <1>7, <1>8
  <2> QED BY <1>1, <1>4, <1>5, <2>1, CountOfClasses
<1>9. ASSUME \A p \in DOMAIN w : w[p] = by[p].successful
      PROVE  SumFunction(w) = Cardinality(ok)
  <2>1. DOMAIN w = C /\ \A p \in C : w[p] = Cardinality({i \in ok : class[i] = p})
    BY <1>0, <1>3, <1>7, <1>9
  <2>2. \A i \in ok : class[i] \in C
    BY <1>5
  <2> HIDE DEF ok
  <2> QED BY <1>6, <1>4, <2>2, <2>1, CountOfClasses
<1>10. ASSUME NEW k \in Kinds, \A p \in DOMAIN w : w[p] = by[p].tokens[k]
       PROVE  SumFunction(w) = Spent(r, today)[k]
  <2> DEFINE f == [i \in today |-> r[i].tokens[k]]
             part == [p \in C |-> of(p)]
  <2>1. Spent(r, today)[k] = SumFunctionOnSet(f, today)
    BY DEF Spent
  <2>2. \A i \in today : f[i] \in Nat /\ f[i] = r[i].tokens[k]
    BY <1>1 DEF Usage
  <2>3. ASSUME NEW p \in C PROVE w[p] = SumFunctionOnSet(f, part[p])
    <3> DEFINE P == of(p)
               e == [i \in P |-> r[i].tokens[k]]
    <3>1. w[p] = SumFunctionOnSet(e, P)
      <4>1. w[p] = Spent(r, P)[k]
        BY <1>0, <1>3, <1>10
      <4> HIDE DEF P
      <4> QED BY <4>1 DEF Spent
    <3>2. P \subseteq today /\ part[p] = P
      BY <1>7
    <3>3. IsFiniteSet(P) /\ \A i \in P : e[i] = f[i]
      BY <1>1, <2>2, <3>2, FS_Subset
    <3> HIDE DEF P, e, f
    <3>4. SumFunctionOnSet(e, P) = SumFunctionOnSet(f, P)
      BY <3>3, SumSame
    <3> QED BY <3>1, <3>2, <3>4
  <2>4. DOMAIN w = C
    BY <1>0, <1>3, <1>10
  <2> HIDE DEF f
  <2>5. /\ \A i \in today : f[i] \in Nat
        /\ \A i \in today : class[i] \in C
        /\ \A p \in C : w[p] = SumFunctionOnSet(f, part[p])
    BY <1>5, <2>2, <2>3
  <2>6. IsFiniteSet(today) /\ IsFiniteSet(C)
    BY <1>1, <1>4
  <2>7. \A p \in C : part[p] \subseteq today /\ \A i \in today : i \in part[p] <=> class[i] = p
    BY <1>7
  <2> HIDE DEF part
  <2>8. SumFunction(w) = SumFunctionOnSet(f, today)
    BY <2>4, <2>5, <2>6, <2>7, SumOfParts
  <2> QED BY <2>1, <2>8
<1> QED BY <1>0, <1>8, <1>9, <1>10 DEF TotalsAdd, SuccessesAdd, TokensAdd

\* The providers of the day are on the list of the providers, and the rows of the day on the list
\* of the newest rows, unless the list is full.
LEMMA Listed ==
  ASSUME NEW r, NEW now, NEW zone, Timed(r, now, zone), NEW platform
  PROVE  LET today == Today(r, now, zone, platform)
             new == ListRequestLogs(r, platform, All) IN
         /\ DOMAIN ProviderDailyStats(r, now, zone, platform) \subseteq ListProviders(r, platform)
         /\ today \subseteq new \/ Cardinality(new) = ListLimit
<1> DEFINE today == Today(r, now, zone, platform)
           A == {i \in DOMAIN r : OfPlatform(r[i], platform) /\ OfProvider(r[i], All)}
           new == {i \in A : Cardinality({j \in A : j > i}) < ListLimit}
<1>1. today \subseteq DOMAIN r /\ \A i \in today : OfPlatform(r[i], platform)
  BY TodayFinite
<1>2. DOMAIN ProviderDailyStats(r, now, zone, platform) = {r[i].provider : i \in today}
  BY DEF ProviderDailyStats
<1> HIDE DEF today
<1>3. {r[i].provider : i \in today} \subseteq ListProviders(r, platform)
  BY <1>1 DEF ListProviders
<1>4. today \subseteq A
  BY <1>1 DEF OfProvider
<1>5. ListRequestLogs(r, platform, All) = new
  BY DEF ListRequestLogs
<1>6. A \subseteq DOMAIN r
  OBVIOUS
<1> HIDE DEF A
<1>7. A \in SUBSET Nat /\ IsFiniteSet(A)
  BY <1>6, FS_Subset DEF Timed
<1>8. ListLimit \in Nat
  BY DaysAssumption
<1>9. new = A \/ Cardinality(new) = ListLimit
  BY <1>7, <1>8, Newest
<1> HIDE DEF new
<1> QED BY <1>2, <1>3, <1>4, <1>5, <1>9 DEF today

\* What the heatmap is made of: every hour that has statistics has all the rows of that hour, and where
\* the bound of the query is early enough, an hour that has a cell and no statistics has no rows.
Shown(r, zone, h) ==
  LET ids == {i \in DOMAIN r : createdAt(r[i], zone) = h} IN
  [total |-> Cardinality(ids), tokens |-> Spent(r, ids)]

NothingShown == [total |-> 0, tokens |-> NoTokens]

LEMMA ShownRows ==
  ASSUME NEW r, NEW now, NEW zone, Timed(r, now, zone), NEW h
  PROVE  LET ids == {i \in DOMAIN r : createdAt(r[i], zone) = h} IN
         /\ ids = {} => Shown(r, zone, h) = NothingShown
         /\ ids # {} => Shown(r, zone, h).total \in Nat \ {0}
         /\ Shown(r, zone, h).tokens \in Usage
<1> DEFINE ids == {i \in DOMAIN r : createdAt(r[i], zone) = h}
<1>1. ids \in SUBSET DOMAIN r /\ IsFiniteSet(DOMAIN r) /\ \A i \in ids : r[i].tokens \in Usage
  BY DEF Timed
<1>2. Shown(r, zone, h) = [total |-> Cardinality(ids), tokens |-> Spent(r, ids)]
  BY DEF Shown
<1> HIDE DEF ids
<1>3. IsFiniteSet(ids) /\ Cardinality(ids) \in Nat /\ (Cardinality(ids) = 0 <=> ids = {})
  BY <1>1, Parts
<1>4. ASSUME NEW k \in Kinds
      PROVE  Spent(r, ids)[k] \in Nat /\ (ids = {} => Spent(r, ids)[k] = 0)
  <2> DEFINE f == [i \in ids |-> r[i].tokens[k]]
  <2>1. Spent(r, ids)[k] = SumFunctionOnSet(f, ids)
    BY DEF Spent
  <2>2. \A i \in ids : f[i] \in Nat
    BY <1>1 DEF Usage
  <2> HIDE DEF f
  <2>3. SumFunctionOnSet(f, ids) \in Nat /\ SumFunctionOnSet(f, {}) = 0
    BY <1>3, <2>2, SumOne
  <2> QED BY <2>1, <2>3
<1>5. Spent(r, ids) = [k \in Kinds |-> Spent(r, ids)[k]]
  BY DEF Spent
<1>6. Spent(r, ids) \in Usage
  BY <1>4, <1>5 DEF Usage
<1>7. ids = {} => Spent(r, ids) = NoTokens
  BY <1>4, <1>5, NoUsage
<1>8. ids # {} => Cardinality(ids) \in Nat \ {0}
  BY <1>3
<1>9. ids = {} => Cardinality(ids) = 0
  BY <1>3
<1> QED BY <1>2, <1>6, <1>7, <1>8, <1>9 DEF NothingShown, ids

LEMMA HoursShown ==
  ASSUME NEW r, NEW now, NEW zone, Timed(r, now, zone)
  PROVE  LET stats == HeatmapStats(r, now, zone)
             hours == HeatmapDays * HoursPerDay
         IN /\ \A h \in DOMAIN stats :
                 /\ h \in Int /\ now + zone - hours - HoursPerDay < h /\ h <= now + zone
                 /\ stats[h] = Shown(r, zone, h)
                 /\ stats[h].total \in Nat \ {0} /\ stats[h].tokens \in Usage
            /\ now + zone - startOfDay(now + zone) + zone < HoursPerDay =>
                 \A h \in Cells(now, zone) : h \notin DOMAIN stats => Shown(r, zone, h) = NothingShown
<1> DEFINE t == now + zone
           start == startOfDay(t)
           hours == HeatmapDays * HoursPerDay
           hour(i) == createdAt(r[i], zone)
           found == Since(r, t - (hours - 1))
           keys == {hour(i) : i \in found}
           later(h) == {l \in keys : l > h}
           stats == HeatmapStats(r, now, zone)
           ids(h) == {i \in DOMAIN r : hour(i) = h}
<1>1. HoursPerDay \in Nat \ {0} /\ HeatmapDays \in Nat \ {0} /\ zone \in Int /\ t \in Int /\ hours \in Int
  <2>1. HoursPerDay \in Nat \ {0} /\ HeatmapDays \in Nat \ {0}
    BY DaysAssumption
  <2>2. zone \in Int /\ now \in Int
    BY <2>1 DEF Timed
  <2> QED BY <2>1, <2>2
<1>2. start \in Int /\ start <= t /\ t < start + HoursPerDay
  <2>1. t \in Int
    BY <1>1
  <2> HIDE DEF t
  <2> QED BY <2>1, DayBounds
<1>3. \A i \in DOMAIN r : r[i].time \in Int /\ hour(i) = r[i].time + zone /\ hour(i) <= t
  BY <1>1 DEF Timed, createdAt
<1>4. Cells(now, zone) = start - hours + HoursPerDay..start + HoursPerDay - 1
  <2>1. (HeatmapDays - 1) * HoursPerDay = hours - HoursPerDay
    BY <1>1
  <2>2. start - (HeatmapDays - 1) * HoursPerDay = start - hours + HoursPerDay
    <3> DEFINE x == (HeatmapDays - 1) * HoursPerDay
    <3>1. x = hours - HoursPerDay
      BY <2>1
    <3> HIDE DEF x, hours, start
    <3>2. start - x = start - hours + HoursPerDay
      BY <1>1, <1>2, <3>1
    <3> QED BY <3>2 DEF x
  <2> QED BY <2>2 DEF Cells
<1>5. /\ \A i \in found : i \in DOMAIN r
      /\ \A i \in DOMAIN r : i \in found <=> r[i].time >= t - (hours - 1)
  BY DEF Since
<1>6. stats = [h \in {k \in keys : Cardinality(later(k)) < hours} |->
                [total |-> Cardinality({i \in found : hour(i) = h}), tokens |-> Spent(r, {i \in found : hour(i) = h})]]
  <2>0. now \in Int /\ zone \in Int
    BY <1>1 DEF Timed
  <2>1. keys = {createdAt(r[i], zone) : i \in found}
    OBVIOUS
  <2>2. hours = HeatmapDays * HoursPerDay
    OBVIOUS
  <2>3. t - (hours - 1) = now + zone - (hours - 1)
    <3> HIDE DEF hours
    <3> QED BY <1>1, <2>0
  <2>4. found = Since(r, now + zone - (hours - 1))
    BY <2>3
  <2> HIDE DEF hours, found, keys
  <2> QED BY <2>1, <2>2, <2>4 DEF HeatmapStats
<1>7. \A h \in DOMAIN stats :
        stats[h] = [total |-> Cardinality({i \in found : hour(i) = h}), tokens |-> Spent(r, {i \in found : hour(i) = h})]
  <2> HIDE DEF stats, keys, found, hour, hours
  <2> QED BY <1>6
<1>8. /\ zone <= HoursPerDay /\ t = now + zone /\ start = startOfDay(now + zone)
      /\ \A h : Shown(r, zone, h) = [total |-> Cardinality(ids(h)), tokens |-> Spent(r, ids(h))]
  <2>1. zone <= HoursPerDay
    BY <1>1 DEF Timed
  <2> QED BY <2>1 DEF Shown
<1> HIDE DEF t, start, hours, hour, found, keys, stats
<1>9. DOMAIN stats = {k \in keys : Cardinality(later(k)) < hours}
  BY <1>6
<1>10. ASSUME NEW h \in DOMAIN stats
       PROVE  /\ h \in Int /\ t - hours - HoursPerDay < h /\ h <= t
              /\ stats[h] = Shown(r, zone, h)
              /\ stats[h].total \in Nat \ {0} /\ stats[h].tokens \in Usage
  <2>1. PICK i \in found : hour(i) = h
    BY <1>9 DEF keys
  <2>2. i \in DOMAIN r /\ r[i].time \in Int /\ r[i].time >= t - (hours - 1) /\ h = r[i].time + zone /\ h <= t
    BY <1>3, <1>5, <2>1
  <2>3. zone >= -HoursPerDay
    BY <1>1 DEF Timed
  <2>4. h \in Int /\ t - hours - HoursPerDay < h
    BY <1>1, <2>2, <2>3
  <2>5. \A j \in DOMAIN r : hour(j) = h => r[j].time = r[i].time
    BY <1>1, <1>3, <2>2
  <2>6. ids(h) = {j \in found : hour(j) = h}
    BY <1>5, <2>2, <2>5
  <2>7. stats[h] = Shown(r, zone, h)
    BY <1>7, <1>8, <2>6
  <2>8. ids(h) # {}
    BY <2>1, <2>6
  <2>9. stats[h].total \in Nat \ {0} /\ stats[h].tokens \in Usage
    BY <2>7, <2>8, ShownRows DEF hour
  <2> QED BY <2>2, <2>4, <2>7, <2>9
<1>11. ASSUME t - start + zone < HoursPerDay, NEW h \in Cells(now, zone), h \notin DOMAIN stats
       PROVE  Shown(r, zone, h) = NothingShown
  <2>1. h \in Int /\ start - hours + HoursPerDay <= h /\ h < start + HoursPerDay
    BY <1>1, <1>2, <1>4, <1>11
  <2>2. \A i \in ids(h) : i \in found
    BY <1>1, <1>2, <1>3, <1>5, <1>11, <2>1
  <2>3. ids(h) = {i \in found : hour(i) = h}
    BY <1>5, <2>2
  <2>4. \A l \in later(h) : l \in h + 1..t
    <3> TAKE l \in later(h)
    <3>1. PICK i \in found : l = hour(i) /\ l > h
      BY DEF keys
    <3> QED BY <1>1, <1>3, <1>5, <2>1, <3>1
  <2>5. Cardinality(later(h)) \in Nat /\ Cardinality(later(h)) < hours
    <3> DEFINE I == h + 1..t
    <3>1. IsFiniteSet(I) /\ Cardinality(I) = IF h + 1 > t THEN 0 ELSE t - (h + 1) + 1
      BY <1>1, <2>1, FS_Interval
    <3>2. later(h) \in SUBSET I
      BY <2>4
    <3>3. hours >= HoursPerDay
      BY <1>1 DEF hours
    <3>4. Cardinality(I) < hours
      BY <1>1, <1>2, <2>1, <3>1, <3>3
    <3> HIDE DEF I, later
    <3>5. Cardinality(later(h)) \in Nat /\ Cardinality(later(h)) <= Cardinality(I) /\ Cardinality(I) \in Nat
      BY <3>1, <3>2, Parts
    <3> QED BY <1>1, <3>4, <3>5
  <2>6. h \notin keys
    BY <1>9, <1>11, <2>5
  <2>7. ids(h) = {}
    BY <2>3, <2>6 DEF keys
  <2> QED BY <2>7, ShownRows DEF hour
<1>12. t = now + zone /\ start = startOfDay(now + zone) /\ now \in Int /\ zone \in Int
  BY <1>1, <1>8 DEF Timed
<1>13. \A h \in DOMAIN stats :
         /\ h \in Int /\ now + zone - hours - HoursPerDay < h /\ h <= now + zone
         /\ stats[h] = Shown(r, zone, h)
         /\ stats[h].total \in Nat \ {0} /\ stats[h].tokens \in Usage
  <2>1. now + zone - hours - HoursPerDay = t - hours - HoursPerDay /\ now + zone = t
    BY <1>1, <1>12
  <2> QED BY <1>10, <2>1, Zenon
<1>14. now + zone - startOfDay(now + zone) + zone < HoursPerDay =>
         \A h \in Cells(now, zone) : h \notin DOMAIN stats => Shown(r, zone, h) = NothingShown
  <2>1. now + zone - startOfDay(now + zone) + zone = t - start + zone
    BY <1>1, <1>2, <1>12
  <2> QED BY <1>11, <2>1, Zenon
<1> QED BY <1>13, <1>14 DEF hours, stats

\* An hour less than a year from another one is that one if the keys are the same, and an hour of this
\* year is what its key is read as.
LEMMA YearKey ==
  ASSUME NEW now, NEW zone, now + zone \in Int, NEW h \in Int, NEW c \in Int,
         c - h < HoursPerYear, h - c < HoursPerYear, HoursPerYear \in Nat \ {0}
  PROVE  /\ normalizeStatKey(dayText(h), now, zone) = c => h = c /\ YearOf(c) = YearOf(now + zone)
         /\ YearOf(c) = YearOf(now + zone) => normalizeStatKey(dayText(c), now, zone) = c
<1> DEFINE n == HoursPerYear
           y(x) == x \div HoursPerYear
           d(x) == x % HoursPerYear
<1>1. \A x \in Int : y(x) \in Int /\ d(x) \in Int /\ 0 <= d(x) /\ d(x) < n /\ n * y(x) \in Int /\ x = n * y(x) + d(x)
  OBVIOUS
<1>2. /\ \A x : YearOf(x) = y(x) /\ dayText(x) = d(x)
      /\ \A x : normalizeStatKey(x, now, zone) = n * y(now + zone) + x
  BY DEF YearOf, dayText, normalizeStatKey
<1> DEFINE t == now + zone
<1>3. t \in Int /\ n \in Nat \ {0}
  OBVIOUS
<1>4. \A x : normalizeStatKey(x, now, zone) = n * y(t) + x
  BY <1>2
<1> HIDE DEF n, y, d, t
<1>5. ASSUME n * y(t) + d(h) = c
      PROVE  h = c /\ y(c) = y(t)
  <2>1. /\ y(t) \in Int /\ y(h) \in Int /\ y(c) \in Int /\ n * y(t) \in Int /\ n * y(h) \in Int /\ n * y(c) \in Int
        /\ h = n * y(h) + d(h) /\ c = n * y(c) + d(c)
        /\ d(h) \in Int /\ 0 <= d(h) /\ d(h) < n /\ d(c) \in Int /\ 0 <= d(c) /\ d(c) < n
    BY <1>1, <1>3
  <2>2. n * y(t) - n * y(h) < n /\ n * y(h) - n * y(t) < n
    <3>1. c - h < n /\ h - c < n
      BY DEF n
    <3> QED BY <1>3, <1>5, <2>1, <3>1
  <2>3. y(h) = y(t)
    <3>1. CASE n * y(h) <= n * y(t)
      <4> DEFINE p == n * y(t)
      <4>1. p \in Int /\ n * y(h) <= p /\ p < n * y(h) + n /\ n * y(t) <= p /\ p < n * y(t) + n
        BY <1>3, <2>1, <2>2, <3>1
      <4> HIDE DEF p
      <4> QED BY <1>3, <2>1, <4>1, DayUnique
    <3>2. CASE n * y(t) <= n * y(h)
      <4> DEFINE p == n * y(h)
      <4>1. p \in Int /\ n * y(h) <= p /\ p < n * y(h) + n /\ n * y(t) <= p /\ p < n * y(t) + n
        BY <1>3, <2>1, <2>2, <3>2
      <4> HIDE DEF p
      <4> QED BY <1>3, <2>1, <4>1, DayUnique
    <3> QED BY <2>1, <3>1, <3>2
  <2>4. h = c
    BY <1>5, <2>1, <2>3
  <2> QED BY <2>3, <2>4
<1>6. y(c) = y(t) => n * y(t) + d(c) = c
  BY <1>1
<1> QED BY <1>2, <1>4, <1>5, <1>6 DEF t

\* Every cell has the rows of its hour or nothing, and the rows if it is of this year and the bound of the
\* query is early enough.
LEMMA CellsShown ==
  ASSUME NEW r, NEW now, NEW zone, Timed(r, now, zone)
  PROVE  LET cells == buildUsageHeatmapMatrix(HeatmapStats(r, now, zone), now, zone)
             reaches == now + zone - startOfDay(now + zone) + zone < HoursPerDay
         IN \A h \in DOMAIN cells :
              /\ cells[h].total > 0 \/ (reaches /\ YearOf(h) = YearOf(now + zone)) => cells[h] = Shown(r, zone, h)
              /\ cells[h].total = 0 => cells[h].tokens = NoTokens
<1> DEFINE stats == HeatmapStats(r, now, zone)
           reaches == now + zone - startOfDay(now + zone) + zone < HoursPerDay
           of(h) == {k \in DOMAIN stats : normalizeStatKey(dayText(k), now, zone) = h}
           total == [k \in DOMAIN stats |-> stats[k].total]
           tokens(kind) == [k \in DOMAIN stats |-> stats[k].tokens[kind]]
           sum(field, h) == SumFunctionOnSet([k \in of(h) |-> field[k]], of(h))
           cells == buildUsageHeatmapMatrix(stats, now, zone)
           t == now + zone
           hours == HeatmapDays * HoursPerDay
           start == startOfDay(t)
<1>1. /\ HoursPerDay \in Nat \ {0} /\ HeatmapDays \in Nat \ {0} /\ hours \in Nat
      /\ HoursPerYear \in Nat /\ HoursPerYear >= hours + 2 * HoursPerDay
  BY DaysAssumption, YearAssumption
<1>2. now \in Int /\ zone \in Int /\ t \in Int
  BY <1>1 DEF Timed
<1>3. start \in Int /\ start <= t /\ t < start + HoursPerDay
  <2> HIDE DEF t
  <2> QED BY <1>2, DayBounds
<1>4. Cells(now, zone) = start - hours + HoursPerDay..start + HoursPerDay - 1
  <2>1. (HeatmapDays - 1) * HoursPerDay = hours - HoursPerDay
    BY <1>1
  <2> DEFINE x == (HeatmapDays - 1) * HoursPerDay
  <2>2. Cells(now, zone) = start - x..start + HoursPerDay - 1
    BY DEF Cells
  <2>3. x = hours - HoursPerDay
    BY <2>1
  <2> HIDE DEF x, hours, start
  <2>4. start - x = start - hours + HoursPerDay
    BY <1>1, <1>3, <2>3
  <2> QED BY <2>2, <2>4
<1>5. /\ DOMAIN cells = Cells(now, zone)
      /\ \A h \in Cells(now, zone) :
           cells[h] = [total |-> sum(total, h), tokens |-> [kind \in Kinds |-> sum(tokens(kind), h)]]
  BY DEF buildUsageHeatmapMatrix
<1>6. /\ \A h \in DOMAIN stats :
           /\ h \in Int /\ t - hours - HoursPerDay < h /\ h <= t
           /\ stats[h] = Shown(r, zone, h)
           /\ stats[h].total \in Nat \ {0} /\ stats[h].tokens \in Usage
      /\ reaches => \A h \in Cells(now, zone) : h \notin DOMAIN stats => Shown(r, zone, h) = NothingShown
  <2>1. ASSUME NEW h \in DOMAIN stats
        PROVE  /\ h \in Int /\ t - hours - HoursPerDay < h /\ h <= t
               /\ stats[h] = Shown(r, zone, h)
               /\ stats[h].total \in Nat \ {0} /\ stats[h].tokens \in Usage
    <3> DEFINE st == HeatmapStats(r, now, zone)
    <3>1. \A k \in DOMAIN st :
            /\ k \in Int /\ now + zone - hours - HoursPerDay < k /\ k <= now + zone
            /\ st[k] = Shown(r, zone, k)
            /\ st[k].total \in Nat \ {0} /\ st[k].tokens \in Usage
      BY HoursShown
    <3>2. st = stats /\ now + zone = t
      OBVIOUS
    <3> HIDE DEF st, stats, t, hours
    <3> QED BY <1>1, <1>2, <3>1, <3>2
  <2>2. ASSUME reaches, NEW h \in Cells(now, zone), h \notin DOMAIN stats PROVE Shown(r, zone, h) = NothingShown
    BY <2>2, HoursShown, Zenon
  <2> HIDE DEF stats, reaches, t, hours
  <2> QED BY <2>1, <2>2
<1>7. \A h : Shown(r, zone, h) = [total |-> Shown(r, zone, h).total, tokens |-> Shown(r, zone, h).tokens]
  BY DEF Shown
<1> HIDE DEF stats, cells, hours, start
<1>8. ASSUME NEW h \in Cells(now, zone)
      PROVE  /\ of(h) \subseteq {h}
             /\ YearOf(h) = YearOf(t) /\ h \in DOMAIN stats => of(h) = {h}
  <2>1. h \in Int /\ start - hours + HoursPerDay <= h /\ h < start + HoursPerDay
    BY <1>1, <1>3, <1>4
  <2>2. ASSUME NEW k \in of(h) PROVE k = h
    <3>1. k \in Int /\ t - hours - HoursPerDay < k /\ k <= t
      BY <1>6
    <3>2. h - k < HoursPerYear /\ k - h < HoursPerYear
      BY <1>1, <1>2, <1>3, <2>1, <3>1
    <3>3. HoursPerYear \in Nat \ {0}
      BY <1>1
    <3>4. normalizeStatKey(dayText(k), now, zone) = h
      OBVIOUS
    <3>5. now + zone \in Int
      BY <1>2
    <3> HIDE DEF reaches, of, total, tokens, sum, t
    <3> QED BY <2>1, <3>1, <3>2, <3>3, <3>4, <3>5, YearKey
  <2>3. YearOf(h) = YearOf(t) => normalizeStatKey(dayText(h), now, zone) = h
    <3>1. HoursPerYear \in Nat \ {0} /\ h - h < HoursPerYear /\ now + zone \in Int
      BY <1>1, <1>2, <2>1
    <3>2. YearOf(h) = YearOf(now + zone) => normalizeStatKey(dayText(h), now, zone) = h
      <4> HIDE DEF reaches, of, total, tokens, sum, t
      <4> QED BY <2>1, <3>1, YearKey
    <3> QED BY <3>2
  <2> QED BY <2>2, <2>3
<1>9. ASSUME NEW h \in Cells(now, zone), of(h) = {} PROVE cells[h] = NothingShown
  <2>1. \A f : SumFunctionOnSet(f, {}) = 0
    <3> TAKE f
    <3>1. IsFiniteSet({}) /\ \A x \in {} : f[x] \in Nat
      BY FS_EmptySet
    <3> QED BY <3>1, SumOne
  <2>2. \A field : sum(field, h) = 0
    BY <1>9, <2>1
  <2> HIDE DEF sum, of, total, tokens
  <2> QED BY <1>5, <2>2, NoUsage DEF NothingShown
<1>10. ASSUME NEW h \in Cells(now, zone), of(h) = {h} PROVE h \in DOMAIN stats /\ cells[h] = stats[h]
  <2>1. h \in DOMAIN stats
    BY <1>10
  <2>2. ASSUME NEW field, field[h] \in Nat PROVE sum(field, h) = field[h]
    <3> DEFINE f == [k \in of(h) |-> field[k]]
    <3>1. f[h] = field[h] /\ \A x \in {h} : f[x] \in Nat
      BY <1>10, <2>2
    <3>2. IsFiniteSet({h}) /\ {h} \ {h} = {}
      BY FS_Singleton
    <3>3. sum(field, h) = SumFunctionOnSet(f, {h})
      BY <1>10
    <3> HIDE DEF f, sum
    <3>4. SumFunctionOnSet(f, {h}) = f[h] + SumFunctionOnSet(f, {}) /\ SumFunctionOnSet(f, {}) = 0
      BY <3>1, <3>2, SumOne
    <3> QED BY <2>2, <3>1, <3>3, <3>4
  <2>3. total[h] = stats[h].total /\ total[h] \in Nat
    BY <1>6, <2>1
  <2>4. \A kind \in Kinds : tokens(kind)[h] = stats[h].tokens[kind] /\ tokens(kind)[h] \in Nat
    BY <1>6, <2>1 DEF Usage
  <2> HIDE DEF sum, total, tokens
  <2>5. sum(total, h) = stats[h].total /\ \A kind \in Kinds : sum(tokens(kind), h) = stats[h].tokens[kind]
    BY <2>2, <2>3, <2>4
  <2>6. stats[h].tokens = [kind \in Kinds |-> stats[h].tokens[kind]]
    BY <1>6, <2>1 DEF Usage
  <2>7. stats[h] = [total |-> stats[h].total, tokens |-> stats[h].tokens]
    BY <1>6, <1>7, <2>1
  <2>8. cells[h] = [total |-> sum(total, h), tokens |-> [kind \in Kinds |-> sum(tokens(kind), h)]]
    BY <1>5
  <2>9. [kind \in Kinds |-> sum(tokens(kind), h)] = stats[h].tokens
    BY <2>5, <2>6
  <2> QED BY <2>1, <2>5, <2>7, <2>8, <2>9
<1> HIDE DEF of
<1>11. ASSUME NEW h \in Cells(now, zone)
       PROVE  /\ cells[h].total > 0 \/ (reaches /\ YearOf(h) = YearOf(t)) => cells[h] = Shown(r, zone, h)
              /\ cells[h].total = 0 => cells[h].tokens = NoTokens
  <2>1. CASE of(h) = {h}
    <3>1. cells[h] = Shown(r, zone, h) /\ cells[h].total \in Nat \ {0}
      BY <1>6, <1>10, <2>1
    <3> QED BY <3>1
  <2>2. CASE of(h) = {}
    <3>1. cells[h] = NothingShown /\ cells[h].total = 0 /\ cells[h].tokens = NoTokens
      BY <1>9, <2>2 DEF NothingShown
    <3>2. reaches /\ YearOf(h) = YearOf(t) => Shown(r, zone, h) = NothingShown
      <4>1. YearOf(h) = YearOf(t) => h \notin DOMAIN stats
        BY <1>8, <2>2
      <4> HIDE DEF reaches
      <4> QED BY <1>6, <4>1
    <3> HIDE DEF reaches
    <3> QED BY <3>1, <3>2
  <2> QED BY <1>8, <2>1, <2>2
<1> QED BY <1>5, <1>11 DEF cells, stats

-----------------------------------------------------------------------------
(* The rows of a behaviour are such rows.                                  *)

RowsInv == \A i \in DOMAIN rows : rows[i].time \in FirstHour..clock /\ rows[i].tokens \in Usage

LEMMA RowsNext == LogInv /\ BoundInv /\ CountInv /\ RowsInv /\ [Next]_vars => RowsInv'
<1> SUFFICES ASSUME LogInv, BoundInv, CountInv, RowsInv, [Next]_vars
             PROVE  RowsInv'
  OBVIOUS
<1>0. FirstHour \in Int /\ load.hours \in Nat /\ clock \in Int /\ FirstHour <= clock
  BY BoundTypes DEF BoundInv
<1>1. ASSUME NEW s \in Slots, Onward(s) \/ InsertPayload(s) \/ \E p \in load.plans : Start(s, p)
      PROVE  RowsInv'
  <2>1. UNCHANGED <<clock, rows>>
    BY <1>1, OnwardEffect, InsertPayloadEffect, StartEffect
  <2> QED BY <2>1 DEF RowsInv
<1>2. ASSUME NEW s \in Slots, InsertRow(s)
      PROVE  RowsInv'
  <2> DEFINE n == Len(rows) + 1
  <2>1. /\ DOMAIN rows' = DOMAIN rows \cup {n} /\ \A i \in DOMAIN rows : rows'[i] = rows[i]
        /\ rows'[n].time = clock /\ rows'[n].tokens = attempt[s].tokens /\ clock' = clock
    BY <1>2, InsertRowEffect
  <2> HIDE DEF n
  <2>2. attempt[s].tokens \in Usage
    BY DEF CountInv, AttemptCounted
  <2>3. clock \in FirstHour..clock
    BY <1>0
  <2> QED BY <2>1, <2>2, <2>3 DEF RowsInv
<1>3. CASE Crash \/ \E s \in Slots : InsertFails(s)
  <2>1. UNCHANGED <<clock, rows>>
    BY <1>3, LostEffect
  <2> QED BY <2>1 DEF RowsInv
<1>4. CASE HourPasses
  <2>1. clock' = clock + 1 /\ rows' = rows
    BY <1>4 DEF HourPasses
  <2>2. \A h \in FirstHour..clock : h \in FirstHour..clock'
    BY <1>0, <2>1
  <2> QED BY <2>1, <2>2 DEF RowsInv
<1>5. CASE SaveSettings \/ UNCHANGED vars
  BY <1>5 DEF SaveSettings, vars, RowsInv
<1> QED
  BY <1>1, <1>2, <1>3, <1>4, <1>5 DEF Next, Onward

LEMMA RowsTimed == LogInv /\ BoundInv /\ RowsInv => Timed(rows, clock, load.zone)
<1> SUFFICES ASSUME LogInv, BoundInv, RowsInv PROVE Timed(rows, clock, load.zone)
  OBVIOUS
<1>1. FirstHour \in Int /\ clock \in Int
  BY BoundTypes DEF BoundInv
<1>2. load.zone \in -HoursPerDay..HoursPerDay
  BY WorkloadsAssumption DEF LogInv
<1>3. DOMAIN rows = 1..Len(rows) /\ Len(rows) \in Nat
  BY DEF LogInv, IsRows
<1>4. IsFiniteSet(DOMAIN rows) /\ DOMAIN rows \subseteq Nat
  BY <1>3, FS_Interval
<1>5. \A i \in DOMAIN rows : rows[i].time \in Int /\ rows[i].time <= clock /\ rows[i].tokens \in Usage
  BY <1>1 DEF RowsInv
<1> QED BY <1>1, <1>2, <1>4, <1>5 DEF Timed

LEMMA RowsComplete == Timed(rows, clock, load.zone) => StatsComplete
<1> DEFINE zone == load.zone
           day == startOfDay(clock + zone)
           cells == buildUsageHeatmapMatrix(HeatmapStats(rows, clock, zone), clock, zone)
           stats(platform) == StatsSince(rows, clock, zone, platform)
           by(platform) == ProviderDailyStats(rows, clock, zone, platform)
           new(platform) == ListRequestLogs(rows, platform, All)
           shown(platform) ==
             /\ stats(platform).total = Cardinality(OnDay(day, platform))
             /\ stats(platform).tokens = Spent(rows, OnDay(day, platform))
             /\ SumFunction([h \in DOMAIN stats(platform).series |-> stats(platform).series[h].total]) = stats(platform).total
             /\ SumFunction([p \in DOMAIN by(platform) |-> by(platform)[p].total]) = stats(platform).total
             /\ SumFunction([p \in DOMAIN by(platform) |-> by(platform)[p].successful]) =
                  Cardinality({i \in OnDay(day, platform) : Success(rows[i].code)})
             /\ \A k \in Kinds :
                  SumFunction([p \in DOMAIN by(platform) |-> by(platform)[p].tokens[k]]) = stats(platform).tokens[k]
             /\ DOMAIN by(platform) \subseteq ListProviders(rows, platform)
             /\ OnDay(day, platform) \subseteq new(platform) \/ Cardinality(new(platform)) = ListLimit
<1> SUFFICES ASSUME Timed(rows, clock, zone) PROVE StatsComplete
  OBVIOUS
<1>1. ASSUME NEW platform PROVE shown(platform)
  <2>1. OnDay(day, platform) = Today(rows, clock, zone, platform)
    BY TodayIsDay DEF OnDay
  <2>2. /\ stats(platform).total = Cardinality(Today(rows, clock, zone, platform))
        /\ stats(platform).tokens = Spent(rows, Today(rows, clock, zone, platform))
    BY DEF StatsSince
  <2>3. SumFunction([h \in DOMAIN stats(platform).series |-> stats(platform).series[h].total])
          = Cardinality(Today(rows, clock, zone, platform))
    BY HoursAdd
  <2> DEFINE today == Today(rows, clock, zone, platform)
  <2>4. \A w : DOMAIN w = DOMAIN by(platform) =>
          /\ TotalsAdd(rows, today, by(platform), w)
          /\ SuccessesAdd(rows, today, by(platform), w)
          /\ TokensAdd(rows, today, by(platform), w)
    BY ProvidersAdd
  <2>5. /\ SumFunction([p \in DOMAIN by(platform) |-> by(platform)[p].total])
             = Cardinality(Today(rows, clock, zone, platform))
        /\ SumFunction([p \in DOMAIN by(platform) |-> by(platform)[p].successful])
             = Cardinality({i \in Today(rows, clock, zone, platform) : Success(rows[i].code)})
        /\ \A k \in Kinds : SumFunction([p \in DOMAIN by(platform) |-> by(platform)[p].tokens[k]])
                              = Spent(rows, Today(rows, clock, zone, platform))[k]
    <3> HIDE DEF by, today
    <3>1. SumFunction([p \in DOMAIN by(platform) |-> by(platform)[p].total]) = Cardinality(today)
      BY <2>4 DEF TotalsAdd
    <3>2. SumFunction([p \in DOMAIN by(platform) |-> by(platform)[p].successful])
            = Cardinality({i \in today : Success(rows[i].code)})
      BY <2>4 DEF SuccessesAdd
    <3>3. ASSUME NEW k \in Kinds
          PROVE  SumFunction([p \in DOMAIN by(platform) |-> by(platform)[p].tokens[k]]) = Spent(rows, today)[k]
      <4> DEFINE w == [p \in DOMAIN by(platform) |-> by(platform)[p].tokens[k]]
      <4>1. DOMAIN w = DOMAIN by(platform) /\ \A p \in DOMAIN w : w[p] = by(platform)[p].tokens[k]
        OBVIOUS
      <4> HIDE DEF w
      <4>2. SumFunction(w) = Spent(rows, today)[k]
        BY <2>4, <4>1 DEF TokensAdd
      <4> QED BY <4>2 DEF w
    <3> QED BY <3>1, <3>2, <3>3 DEF today
  <2>6. /\ DOMAIN by(platform) \subseteq ListProviders(rows, platform)
        /\ Today(rows, clock, zone, platform) \subseteq new(platform) \/ Cardinality(new(platform)) = ListLimit
    BY Listed
  <2> HIDE DEF zone, day, stats, by, new
  <2> QED BY <2>1, <2>2, <2>3, <2>5, <2>6
<1>2. ASSUME NEW h \in DOMAIN cells
      PROVE  LET ids == {i \in DOMAIN rows : createdAt(rows[i], zone) = h} IN
             /\ cells[h].total > 0 \/ (HeatmapReaches /\ YearOf(h) = YearOf(clock + zone)) =>
                  cells[h] = [total |-> Cardinality(ids), tokens |-> Spent(rows, ids)]
             /\ cells[h].total = 0 => cells[h].tokens = NoTokens
  BY CellsShown DEF HeatmapReaches, Shown
<1> QED BY <1>1, <1>2 DEF StatsComplete

\* At any time, in any zone that is whole hours and at most a day off, and for days, years and heatmaps of
\* any length, the pages tell of every attempt of the local day once; a cell of the heatmap has the attempts
\* of its hour or nothing, and has them if it is of this year and the query starts early enough
\* (services/logservice.go, data/usageHeatmap.ts).
THEOREM StatsCompleteHolds == Spec => []StatsComplete
<1>1. LogInv /\ BoundInv /\ RowsInv => StatsComplete
  BY RowsTimed, RowsComplete
<1>2. Init => LogInv /\ BoundInv /\ CountInv /\ RowsInv
  <2>1. Init => DOMAIN rows = {}
    BY DEF Init
  <2> QED BY <2>1, LogInvInit, MoreInit DEF RowsInv
<1>3. LogInv /\ BoundInv /\ CountInv /\ RowsInv /\ [Next]_vars => (LogInv /\ BoundInv /\ CountInv /\ RowsInv)'
  BY LogInvNext, BoundNext, CountNext, RowsNext
<1> QED
  BY <1>1, <1>2, <1>3, PTL DEF Spec
=============================================================================
