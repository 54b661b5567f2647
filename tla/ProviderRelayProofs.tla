------------------------ MODULE ProviderRelayProofs ------------------------
(***************************************************************************)
(* Theorems about ProviderRelay for every set of requests, provider lists, *)
(* settings and upstream responses: that a request has one answer from one *)
(* source, that proxyHandler walks its list in order and stops where it    *)
(* must, logs what went over the wire, and tells its client the last       *)
(* upstream error.                                                         *)
(***************************************************************************)
EXTENDS ProviderRelay, TLAPS, FiniteSetTheorems, SequenceTheorems,
        WellFoundedInduction

-----------------------------------------------------------------------------
(* The response writer.                                                    *)

\* Setting headers touches nothing but the headers.
LEMMA PutHeadersEffect ==
  ASSUME NEW wr \in Writer, NEW keys, NEW src \in Nat
  PROVE  /\ PutHeaders(wr, keys, src) \in Writer
         /\ PutHeaders(wr, keys, src).written = wr.written
         /\ PutHeaders(wr, keys, src).broken = wr.broken
         /\ PutHeaders(wr, keys, src).body = wr.body
         /\ wr.written => PutHeaders(wr, keys, src) = wr
<1>1. [k \in HeaderKeys |-> IF k \in keys THEN src ELSE wr.hdr[k]] \in [HeaderKeys -> Source]
  BY DEF Writer, Source
<1> QED BY <1>1 DEF PutHeaders, Writer

LEMMA PutLocalHeadersEffect ==
  ASSUME NEW wr \in Writer
  PROVE  /\ PutLocalHeaders(wr) \in Writer
         /\ PutLocalHeaders(wr).written = wr.written
         /\ PutLocalHeaders(wr).broken = wr.broken
         /\ PutLocalHeaders(wr).body = wr.body
         /\ wr.written => PutLocalHeaders(wr) = wr
BY PutHeadersEffect DEF PutLocalHeaders, Local

\* A write on a sound writer sends the head; the bytes delivered are those of
\* src, or none when the write failed.  A broken writer stays as it is.
LEMMA WritesEffect ==
  ASSUME NEW wr \in Writer, NEW src \in Nat, NEW x \in Writes(wr, src)
  PROVE  /\ x \in Writer
         /\ x.written
         /\ wr.broken => x = wr
         /\ ~wr.broken => x.body \in {wr.body, src}
         /\ ~x.broken => x.body = src
BY DEF Writes, Delivered, Failed, Writer, Source

\* Answer(r, x) of a writer wr that a step of request r replaces by x: nothing
\* is changed on a broken one, and bytes come from src only.
AnswerFrom(wr, x, src) ==
  /\ x \in Writer
  /\ wr.written => x.written
  /\ wr.broken => x = wr
  /\ x.body \in {wr.body, src}
  /\ ~x.written => x.body = wr.body

\* Headers followed by a write, or by nothing, are such a step.
LEMMA HeadAndWrite ==
  ASSUME NEW wr \in Writer, NEW keys, NEW src \in Nat,
         NEW x \in Writes(PutHeaders(wr, keys, src), src) \cup {PutHeaders(wr, keys, src)}
  PROVE  AnswerFrom(wr, x, src)
<1> DEFINE head == PutHeaders(wr, keys, src)
<1>1. /\ head \in Writer
      /\ head.written = wr.written /\ head.broken = wr.broken /\ head.body = wr.body
      /\ wr.written => head = wr
  BY PutHeadersEffect
<1>2. wr.broken => wr.written
  BY DEF Writer
<1>3. CASE x = head
  BY <1>1, <1>2, <1>3 DEF AnswerFrom
<1>4. CASE x \in Writes(head, src)
  <2>1. /\ x \in Writer /\ x.written
        /\ head.broken => x = head
        /\ ~head.broken => x.body \in {head.body, src}
    BY <1>1, <1>4, WritesEffect
  <2> QED
    BY <1>1, <1>2, <2>1 DEF AnswerFrom
<1> QED
  BY <1>3, <1>4

LEMMA LocalErrorEffect ==
  ASSUME TypeOK, NEW r \in Requests, LocalErrorAnswer(r)
  PROVE  \E x \in Writer : AnswerFrom(w[r], x, Local) /\ w' = [w EXCEPT ![r] = x]
<1>1. w[r] \in Writer
  BY DEF TypeOK
<1>2. PICK x \in Writes(PutLocalHeaders(w[r]), Local) : w' = [w EXCEPT ![r] = x]
  BY DEF LocalErrorAnswer
<1>3. AnswerFrom(w[r], x, Local)
  BY <1>1, <1>2, HeadAndWrite DEF PutLocalHeaders, Local
<1> QED
  BY <1>2, <1>3 DEF AnswerFrom

LEMMA UpstreamErrorEffect ==
  ASSUME TypeOK, NEW r \in Requests, NEW err \in [attempt : Nat, keys : SUBSET HeaderKeys],
         UpstreamErrorAnswer(r, err)
  PROVE  \E x \in Writer : AnswerFrom(w[r], x, err.attempt) /\ w' = [w EXCEPT ![r] = x]
<1>1. w[r] \in Writer
  BY DEF TypeOK
<1>2. PICK x \in Writes(PutHeaders(w[r], err.keys, err.attempt), err.attempt)
                 \cup {PutHeaders(w[r], err.keys, err.attempt)} : w' = [w EXCEPT ![r] = x]
  BY DEF UpstreamErrorAnswer
<1>3. AnswerFrom(w[r], x, err.attempt)
  BY <1>1, <1>2, HeadAndWrite
<1> QED
  BY <1>2, <1>3 DEF AnswerFrom

-----------------------------------------------------------------------------
(* Type correctness.                                                       *)

\* The loop's First is the least position left.
LEMMA LeastElement ==
  ASSUME NEW S \in SUBSET Nat, S # {}
  PROVE  First(S) \in S /\ \A j \in S : First(S) <= j
<1> DEFINE R == {ss \in Nat \X Nat : ss[1] < ss[2]}
<1>1. IsWellFoundedOn(R, Nat)
  BY NatLessThanWellFounded DEF OpToRel
<1>2. PICK x \in S : \A y \in S : ~ (<<y, x>> \in R)
  <2> HIDE DEF R
  <2> QED BY <1>1, WFMin
<1>3. ASSUME NEW y \in S PROVE x <= y
  <2>1. x \in Nat /\ y \in Nat /\ ~ (<<y, x>> \in R)
    BY <1>2
  <2>2. ~ (y < x)
    BY <2>1
  <2> QED
    BY <2>1, <2>2
<1> QED
  BY <1>3 DEF First

\* A finite number of active providers allows a finite number of attempts.
LEMMA AttemptLimitType ==
  ASSUME NEW n \in Nat, NEW s \in Settings
  PROVE  AttemptLimit(n, s) \in Nat
BY DEF AttemptLimit, maxFallbackAttempts, Settings

LEMMA PositionsFinite ==
  ASSUME TypeOK, NEW r \in Requests
  PROVE  Cardinality(rest[r]) \in Nat
<1>1. list[r] \in Seq(Provider) /\ rest[r] \in SUBSET (1..Len(list[r]))
  BY DEF TypeOK
<1>2. Len(list[r]) \in Nat
  BY <1>1, LenProperties
<1>3. IsFiniteSet(1..Len(list[r]))
  BY <1>2, FS_Interval
<1> QED
  BY <1>1, <1>3, FS_Subset, FS_CardinalityType

LEMMA LogRowType ==
  ASSUME TypeOK, NEW r \in Requests, LogRow(r)
  PROVE  rows' \in [Requests -> Seq(Row)]
<1>1. [attempt |-> attempts[r], code |-> code[r]] \in Row
  BY DEF TypeOK, Row
<1>2. rows \in [Requests -> Seq(Row)]
  BY DEF TypeOK
<1>3. CASE UNCHANGED rows
  BY <1>2, <1>3
<1>4. CASE rows' = [rows EXCEPT ![r] = Append(@, [attempt |-> attempts[r], code |-> code[r]])]
  BY <1>1, <1>2, <1>4
<1> QED
  BY <1>3, <1>4 DEF LogRow

LEMMA RecordPostType ==
  ASSUME TypeOK, NEW r \in Requests, NEW c \in Nat, NEW rect \in BOOLEAN,
         NEW again \in BOOLEAN, RecordPost(r, c, rect, again)
  PROVE  trace' \in [Requests -> Seq(Post)]
<1>1. [attempt |-> attempts[r], pos |-> pos[r], code |-> c,
       rectifiable |-> rect, retry |-> again] \in Post
  BY DEF TypeOK, Post
<1>2. trace \in [Requests -> Seq(Post)]
  BY DEF TypeOK
<1> QED
  BY <1>1, <1>2 DEF RecordPost

LEMMA AttemptFailsType ==
  ASSUME TypeOK, NEW r \in Requests, AttemptFails(r)
  PROVE  /\ rows' \in [Requests -> Seq(Row)]
         /\ pc' \in [Requests -> Labels]
         /\ lastUp' = lastUp
<1>1. pc \in [Requests -> Labels] /\ LogRow(r) /\ pc' = [pc EXCEPT ![r] = "loop"]
  BY DEF TypeOK, AttemptFails, Goto
<1> QED
  BY <1>1, LogRowType DEF AttemptFails, Labels

LEMMA AttemptServesType ==
  ASSUME TypeOK, NEW r \in Requests, AttemptServes(r)
  PROVE  /\ rows' \in [Requests -> Seq(Row)]
         /\ pc' \in [Requests -> Labels]
         /\ lastUp' = lastUp
<1>1. pc \in [Requests -> Labels] /\ LogRow(r) /\ pc' = [pc EXCEPT ![r] = "done"]
  BY DEF TypeOK, AttemptServes, Goto
<1> QED
  BY <1>1, LogRowType DEF AttemptServes, Labels

\* The writer keeps its type under every step that answers.
LEMMA WriterType ==
  ASSUME TypeOK, NEW r \in Requests, NEW x \in Writer, w' = [w EXCEPT ![r] = x]
  PROVE  w' \in [Requests -> Writer]
BY DEF TypeOK

LEMMA WriterSteps ==
  ASSUME TypeOK, NEW r \in Requests, NEW keys,
         NEW x \in Writes(PutHeaders(w[r], keys, attempts[r]), attempts[r])
                     \cup {PutHeaders(w[r], keys, attempts[r])}
  PROVE  AnswerFrom(w[r], x, attempts[r])
<1>1. w[r] \in Writer /\ attempts[r] \in Nat
  BY DEF TypeOK
<1> QED
  BY <1>1, HeadAndWrite

LEMMA TypeStep == TypeOK /\ [Next]_vars => TypeOK'
<1> SUFFICES ASSUME TypeOK, [Next]_vars PROVE TypeOK'
  OBVIOUS
<1> USE DEF shared, loop, attempt
<1>1. ASSUME NEW r \in Requests, ReceiveRequest(r) PROVE TypeOK'
  BY <1>1 DEF ReceiveRequest, TypeOK, Goto, Labels
<1>2. ASSUME NEW r \in Requests, RefuseRequest(r) PROVE TypeOK'
  <2>1. w' \in [Requests -> Writer]
    BY <1>2, LocalErrorEffect, WriterType DEF RefuseRequest
  <2> QED
    BY <1>2, <2>1 DEF RefuseRequest, TypeOK, Goto, Labels
<1>3. ASSUME NEW r \in Requests, LoadProviders(r) PROVE TypeOK'
  <2>1. w' \in [Requests -> Writer] /\ pc' \in [Requests -> Labels]
    <3>1. CASE UNCHANGED w /\ Goto(r, "loaded")
      BY <3>1 DEF TypeOK, Goto, Labels, Sending, Sent
    <3>2. CASE LocalErrorAnswer(r) /\ Goto(r, "done")
      BY <3>2, LocalErrorEffect, WriterType DEF TypeOK, Goto, Labels, Sending, Sent
    <3> QED
      BY <1>3, <3>1, <3>2 DEF LoadProviders
  <2>2. catalog \in Seq(Provider) /\ Len(catalog) \in Nat
    BY CatalogsAssumption, LenProperties DEF TypeOK
  <2>3. /\ list' \in [Requests -> Seq(Provider)]
        /\ rest' \in [Requests -> SUBSET Nat]
        /\ \A q \in Requests : rest'[q] \subseteq 1..Len(list'[q])
    BY <1>3, <2>2 DEF LoadProviders, TypeOK
  <2> QED
    BY <1>3, <2>1, <2>3 DEF LoadProviders, TypeOK
<1>4. ASSUME NEW r \in Requests, ReadAttemptLimit(r) PROVE TypeOK'
  <2>1. AttemptLimit(Cardinality(rest[r]), settings) \in Nat
    BY PositionsFinite, AttemptLimitType, SettingsAssumption DEF TypeOK
  <2> QED
    BY <1>4, <2>1 DEF ReadAttemptLimit, TypeOK, Goto, Labels
<1>5. ASSUME NEW r \in Requests, NextProvider(r) PROVE TypeOK'
  <2>1. rest[r] \in SUBSET Nat /\ rest[r] # {}
    BY <1>5 DEF NextProvider, LoopEnds, TypeOK
  <2>2. First(rest[r]) \in Nat
    BY <2>1, LeastElement
  <2>3. /\ pos' \in [Requests -> Nat]
        /\ pc' \in [Requests -> Labels]
        /\ rest' \in [Requests -> SUBSET Nat]
        /\ \A q \in Requests : rest'[q] \subseteq 1..Len(list[q])
    BY <1>5, <2>2 DEF NextProvider, TypeOK, Goto, Labels, Sending
  <2>4. /\ attempts' \in [Requests -> Nat]
        /\ code' \in [Requests -> Nat]
        /\ retried' \in [Requests -> BOOLEAN]
    BY <1>5 DEF NextProvider, TypeOK
  <2> QED
    BY <1>5, <2>3, <2>4 DEF NextProvider, TypeOK
<1>6. ASSUME NEW r \in Requests, AllFailed(r) PROVE TypeOK'
  <2>1. lastUp[r] \in [attempt : Nat, keys : SUBSET HeaderKeys]
    BY DEF TypeOK
  <2>2. w' \in [Requests -> Writer]
    BY <1>6, <2>1, LocalErrorEffect, UpstreamErrorEffect, WriterType DEF AllFailed
  <2> QED
    BY <1>6, <2>2 DEF AllFailed, TypeOK, Goto, Labels
<1>7. ASSUME NEW r \in Requests, TranslationFails(r) PROVE TypeOK'
  BY <1>7, AttemptFailsType DEF TranslationFails, TypeOK
<1>8. ASSUME NEW r \in Requests, PostFails(r) PROVE TypeOK'
  <2>2. Retry(pc[r]) \in BOOLEAN
    BY DEF Retry
  <2>1. trace' \in [Requests -> Seq(Post)]
    BY <1>8, <2>2, RecordPostType DEF PostFails
  <2> QED
    BY <1>8, <2>1, AttemptFailsType DEF PostFails, TypeOK
<1>9. ASSUME NEW r \in Requests, PostAnswered(r) PROVE TypeOK'
  <2>1. PICK rep \in Replies :
          /\ RecordPost(r, rep.code, rep.rectifiable, Retry(pc[r]))
          /\ cur' = [cur EXCEPT ![r] = rep]
          /\ code' = [code EXCEPT ![r] = rep.code]
          /\ Goto(r, IF Success(rep.code) THEN "body" ELSE "error")
    BY <1>9 DEF PostAnswered
  <2>2. rep \in Reply /\ rep.code \in Nat /\ rep.rectifiable \in BOOLEAN
    BY RepliesAssumption DEF Reply
  <2>6. Retry(pc[r]) \in BOOLEAN
    BY DEF Retry
  <2>3. trace' \in [Requests -> Seq(Post)]
    BY <2>1, <2>2, <2>6, RecordPostType
  <2>4. /\ cur' \in [Requests -> Reply]
        /\ code' \in [Requests -> Nat]
        /\ pc' \in [Requests -> Labels]
    BY <2>1, <2>2 DEF TypeOK, Goto, Labels, Sending, Sent
  <2>5. retried' \in [Requests -> BOOLEAN]
    BY <1>9 DEF PostAnswered, TypeOK, Retry
  <2> QED
    BY <1>9, <2>3, <2>4, <2>5 DEF PostAnswered, TypeOK
<1>10. ASSUME NEW r \in Requests, PassBodyFails(r) PROVE TypeOK'
  <2>1. w' \in [Requests -> Writer]
    BY <1>10, WriterSteps, WriterType DEF PassBodyFails, AnswerFrom
  <2> QED
    BY <1>10, <2>1, AttemptFailsType DEF PassBodyFails, TypeOK
<1>11. ASSUME NEW r \in Requests, PassBody(r) PROVE TypeOK'
  <2>1. w' \in [Requests -> Writer]
    BY <1>11, WriterSteps, WriterType DEF PassBody, AnswerFrom
  <2> QED
    BY <1>11, <2>1, AttemptServesType DEF PassBody, TypeOK
<1>12. ASSUME NEW r \in Requests, StreamFailsFirst(r) PROVE TypeOK'
  <2>1. w' \in [Requests -> Writer]
    <3>1. CASE UNCHANGED w
      BY <3>1 DEF TypeOK
    <3>2. CASE w' = [w EXCEPT ![r] = PutHeaders(@, {"Content-Type"}, attempts[r])]
      BY <3>2, WriterSteps, WriterType DEF AnswerFrom
    <3> QED
      BY <1>12, <3>1, <3>2 DEF StreamFailsFirst
  <2> QED
    BY <1>12, <2>1, AttemptFailsType DEF StreamFailsFirst, TypeOK
<1>13. ASSUME NEW r \in Requests, PassStreamSingleLine(r) PROVE TypeOK'
  <2>1. w' \in [Requests -> Writer]
    BY <1>13, WriterSteps, WriterType DEF PassStreamSingleLine, AnswerFrom
  <2> QED
    BY <1>13, <2>1, AttemptServesType DEF PassStreamSingleLine, TypeOK
<1>14. ASSUME NEW r \in Requests, StreamFirst(r) PROVE TypeOK'
  <2>1. w' \in [Requests -> Writer]
    BY <1>14, WriterSteps, WriterType DEF StreamFirst, AnswerFrom
  <2>2. pc' \in [Requests -> Labels] /\ rows' \in [Requests -> Seq(Row)] /\ lastUp' = lastUp
    <3>1. CASE Goto(r, "stream") /\ UNCHANGED <<lastUp, rows>>
      BY <3>1 DEF TypeOK, Goto, Labels, Sending, Sent
    <3> QED
      BY <1>14, <3>1, AttemptServesType DEF StreamFirst
  <2> QED
    BY <1>14, <2>1, <2>2 DEF StreamFirst, TypeOK
<1>15. ASSUME NEW r \in Requests, StreamMore(r) PROVE TypeOK'
  <2>1. w' \in [Requests -> Writer]
    <3>1. w[r] \in Writer /\ attempts[r] \in Nat
      BY DEF TypeOK
    <3> QED
      BY <1>15, <3>1, WritesEffect, WriterType DEF StreamMore
  <2>2. pc' \in [Requests -> Labels] /\ rows' \in [Requests -> Seq(Row)] /\ lastUp' = lastUp
    <3>1. CASE UNCHANGED <<pc, lastUp, rows>>
      BY <3>1 DEF TypeOK
    <3> QED
      BY <1>15, <3>1, AttemptServesType DEF StreamMore
  <2> QED
    BY <1>15, <2>1, <2>2 DEF StreamMore, TypeOK
<1>16. ASSUME NEW r \in Requests, StreamEnds(r) PROVE TypeOK'
  BY <1>16, AttemptServesType DEF StreamEnds, TypeOK
<1>17. ASSUME NEW r \in Requests, AdaptBodyFails(r) PROVE TypeOK'
  BY <1>17, AttemptFailsType DEF AdaptBodyFails, TypeOK
<1>18. ASSUME NEW r \in Requests, AdaptBody(r) PROVE TypeOK'
  <2>1. w' \in [Requests -> Writer]
    BY <1>18, WriterSteps, WriterType DEF AdaptBody, AnswerFrom
  <2>2. pc' \in [Requests -> Labels] /\ rows' \in [Requests -> Seq(Row)] /\ lastUp' = lastUp
    BY <1>18, AttemptFailsType, AttemptServesType DEF AdaptBody
  <2> QED
    BY <1>18, <2>1, <2>2 DEF AdaptBody, TypeOK
<1>19. ASSUME NEW r \in Requests, RectifyRequest(r) PROVE TypeOK'
  BY <1>19 DEF RectifyRequest, TypeOK, Goto, Labels, Sending
<1>20. ASSUME NEW r \in Requests, RectifyFails(r) PROVE TypeOK'
  BY <1>20, AttemptFailsType DEF RectifyFails, TypeOK
<1>21. ASSUME NEW r \in Requests, ReturnUpstreamError(r) PROVE TypeOK'
  <2> DEFINE err == [attempt |-> attempts[r], keys |-> ErrorKeys(r)]
  <2>1. err \in [attempt : Nat, keys : SUBSET HeaderKeys]
    BY DEF TypeOK, ErrorKeys, Reply, HeaderKeys
  <2>2. w' \in [Requests -> Writer] /\ pc' \in [Requests -> Labels]
    <3>1. CASE UpstreamErrorAnswer(r, err) /\ Goto(r, "done")
      BY <2>1, <3>1, UpstreamErrorEffect, WriterType DEF TypeOK, Goto, Labels, Sending, Sent
    <3>2. CASE Goto(r, "loop") /\ UNCHANGED w
      BY <3>2 DEF TypeOK, Goto, Labels, Sending, Sent
    <3> QED
      BY <1>21, <3>1, <3>2 DEF ReturnUpstreamError
  <2>3. lastUp' \in [Requests -> [attempt : Nat, keys : SUBSET HeaderKeys]]
    BY <1>21, <2>1 DEF ReturnUpstreamError, TypeOK
  <2>4. rows' \in [Requests -> Seq(Row)]
    BY <1>21, LogRowType DEF ReturnUpstreamError
  <2> QED
    BY <1>21, <2>2, <2>3, <2>4 DEF ReturnUpstreamError, TypeOK
<1>25. ASSUME NEW r \in Requests, SendRequest(r) PROVE TypeOK'
  BY <1>25 DEF SendRequest, TypeOK, Goto, Labels, Sent
<1>22. CASE SaveAppSettings
  BY <1>22 DEF SaveAppSettings, TypeOK
<1>23. CASE SaveProviders
  BY <1>23 DEF SaveProviders, TypeOK
<1>24. CASE UNCHANGED vars
  BY <1>24 DEF vars, TypeOK
<1> QED
  BY <1>1, <1>2, <1>3, <1>4, <1>5, <1>6, <1>7, <1>8, <1>9, <1>10, <1>11, <1>12, <1>13,
     <1>14, <1>15, <1>16, <1>17, <1>18, <1>19, <1>20, <1>21, <1>22, <1>23, <1>24, <1>25
  DEF Next, Progress

LEMMA TypeInit == Init => TypeOK
BY SettingsAssumption, CatalogsAssumption, EmptySeq
DEF Init, TypeOK, Labels, Request, Reply, NoReply, NoRequest, NoError, Local, Writer, Source,
    Unset, HeaderKeys

\* Every variable of the relay keeps its type.
THEOREM TypeCorrect == Spec => []TypeOK
BY TypeInit, TypeStep, PTL DEF Spec

-----------------------------------------------------------------------------
(* One answer per request.                                                 *)

\* Why no byte of a second answer can follow a first: a handler whose writer
\* is sound and has sent something is in the stream of the attempt that sent
\* it, or done; anywhere else nothing was sent, or the client is lost.
WriterInv ==
  \A r \in Requests :
    /\ ~w[r].written => w[r].body = Unset
    /\ w[r].written /\ ~w[r].broken => pc[r] \in {"stream", "done"}
    /\ pc[r] = "stream" => w[r].written /\ ~w[r].broken /\ w[r].body = attempts[r]

\* Writer x and label l may follow in a handler that keeps to WriterInv.
Follows(r, x, l) ==
  /\ pc[r] # "done"
  /\ w[r].written => x.written /\ x.body = w[r].body
  /\ ~x.written => x.body = Unset
  /\ x.written /\ ~x.broken => l \in {"stream", "done"}
  /\ l = "stream" => x.written /\ ~x.broken /\ x.body = attempts'[r]

HandlerStep(r) ==
  /\ \E x \in Writer, l \in Labels :
       /\ w' = [w EXCEPT ![r] = x]
       /\ pc' = [pc EXCEPT ![r] = l]
       /\ Follows(r, x, l)
  /\ \A q \in Requests \ {r} : attempts'[q] = attempts[q]

\* A step that leaves the writer alone, in a handler that is not streaming.
LEMMA QuietStep ==
  ASSUME TypeOK, WriterInv, NEW r \in Requests, NEW l \in Labels \ {"stream"},
         pc[r] \notin {"stream", "done"},
         w' = w, pc' = [pc EXCEPT ![r] = l],
         \A q \in Requests \ {r} : attempts'[q] = attempts[q]
  PROVE  HandlerStep(r)
<1>1. w[r] \in Writer /\ w' = [w EXCEPT ![r] = w[r]]
  BY DEF TypeOK
<1>2. Follows(r, w[r], l)
  BY DEF WriterInv, Follows
<1> QED
  BY <1>1, <1>2 DEF HandlerStep

\* A step that answers and ends the handler, or finds the client lost.
LEMMA AnsweringStep ==
  ASSUME TypeOK, WriterInv, NEW r \in Requests, NEW l \in Labels \ {"stream"},
         NEW x, NEW src \in Nat, AnswerFrom(w[r], x, src),
         pc[r] \notin {"stream", "done"},
         x.written /\ ~x.broken => l = "done",
         w' = [w EXCEPT ![r] = x], pc' = [pc EXCEPT ![r] = l],
         \A q \in Requests \ {r} : attempts'[q] = attempts[q]
  PROVE  HandlerStep(r)
<1>1. x \in Writer
  BY DEF AnswerFrom
<1>2. w[r].written => x = w[r]
  BY DEF WriterInv, AnswerFrom
<1>3. Follows(r, x, l)
  BY <1>2 DEF WriterInv, Follows, AnswerFrom
<1> QED
  BY <1>1, <1>3 DEF HandlerStep

LEMMA HandlerSteps ==
  ASSUME TypeOK, WriterInv, NEW r \in Requests,
         Progress(r) \/ StreamMore(r) \/ ReceiveRequest(r)
  PROVE  HandlerStep(r)
<1> USE DEF shared, loop, attempt, Goto
<1> DEFINE Quiet == {"loop", "done", "received", "loaded", "post", "sent", "rectify", "resent", "body", "error"}
<1>0. Quiet \subseteq Labels \ {"stream"} /\ pc \in [Requests -> Labels]
      /\ w[r] \in Writer /\ attempts[r] \in Nat
  BY DEF Labels, TypeOK, Sending, Sent
<1>1. CASE ReceiveRequest(r)
  BY <1>0, <1>1, QuietStep DEF ReceiveRequest
<1>2. CASE RefuseRequest(r)
  BY <1>0, <1>2, LocalErrorEffect, AnsweringStep DEF RefuseRequest, Local
<1>3. CASE LoadProviders(r)
  <2>1. CASE UNCHANGED w /\ Goto(r, "loaded")
    BY <1>0, <1>3, <2>1, QuietStep DEF LoadProviders
  <2>2. CASE LocalErrorAnswer(r) /\ Goto(r, "done")
    BY <1>0, <1>3, <2>2, LocalErrorEffect, AnsweringStep DEF LoadProviders, Local
  <2> QED
    BY <1>3, <2>1, <2>2 DEF LoadProviders
<1>4. CASE ReadAttemptLimit(r)
  BY <1>0, <1>4, QuietStep DEF ReadAttemptLimit
<1>5. CASE NextProvider(r)
  <2>1. /\ \A q \in Requests \ {r} : attempts'[q] = attempts[q]
        /\ pc[r] = "loop" /\ w' = w
    BY <1>5 DEF NextProvider, TypeOK
  <2>2. CASE Goto(r, "post")
    BY <1>0, <2>1, <2>2, QuietStep
  <2>3. CASE UNCHANGED pc
    <3>1. pc' = [pc EXCEPT ![r] = "loop"]
      BY <1>0, <2>1, <2>3
    <3> QED
      BY <1>0, <2>1, <3>1, QuietStep
  <2> QED
    BY <1>5, <2>2, <2>3 DEF NextProvider
<1>6. CASE AllFailed(r)
  <2>1. lastUp[r] \in [attempt : Nat, keys : SUBSET HeaderKeys]
    BY DEF TypeOK
  <2>2. \E x, src : src \in Nat /\ AnswerFrom(w[r], x, src) /\ w' = [w EXCEPT ![r] = x]
    <3>1. CASE LocalErrorAnswer(r)
      BY <3>1, LocalErrorEffect DEF Local
    <3>2. CASE UpstreamErrorAnswer(r, lastUp[r])
      BY <2>1, <3>2, UpstreamErrorEffect
    <3> QED
      BY <1>6, <3>1, <3>2 DEF AllFailed
  <2> QED
    BY <1>0, <1>6, <2>2, AnsweringStep DEF AllFailed
<1>7. CASE TranslationFails(r)
  BY <1>0, <1>7, QuietStep DEF TranslationFails, AttemptFails
<1>22. CASE SendRequest(r)
  BY <1>0, <1>22, QuietStep DEF SendRequest, Sending
<1>8. CASE PostFails(r)
  BY <1>0, <1>8, QuietStep DEF PostFails, AttemptFails, Sending, Sent
<1>9. CASE PostAnswered(r)
  BY <1>0, <1>9, QuietStep DEF PostAnswered, Sending, Sent
<1>10. CASE PassBodyFails(r)
  <2> DEFINE x == PutHeaders(w[r], cur[r].keys \cup {"Status"}, attempts[r])
  <2>1. AnswerFrom(w[r], x, attempts[r]) /\ x.written = w[r].written /\ x.broken = w[r].broken
    BY <1>0, WriterSteps, PutHeadersEffect
  <2>2. x.written => x.broken
    BY <1>10, <2>1 DEF PassBodyFails, WriterInv
  <2> QED
    BY <1>0, <1>10, <2>1, <2>2, AnsweringStep DEF PassBodyFails, AttemptFails
<1>11. CASE PassBody(r)
  BY <1>0, <1>11, WriterSteps, AnsweringStep DEF PassBody, AttemptServes
<1>12. CASE StreamFailsFirst(r)
  <2>1. CASE UNCHANGED w
    BY <1>0, <1>12, <2>1, QuietStep DEF StreamFailsFirst, AttemptFails
  <2>2. CASE w' = [w EXCEPT ![r] = PutHeaders(@, {"Content-Type"}, attempts[r])]
    <3> DEFINE x == PutHeaders(w[r], {"Content-Type"}, attempts[r])
    <3>1. AnswerFrom(w[r], x, attempts[r]) /\ x.written = w[r].written /\ x.broken = w[r].broken
      BY <1>0, WriterSteps, PutHeadersEffect
    <3>2. x.written => x.broken
      BY <1>12, <3>1 DEF StreamFailsFirst, WriterInv
    <3> QED
      BY <1>0, <1>12, <2>2, <3>1, <3>2, AnsweringStep DEF StreamFailsFirst, AttemptFails
  <2> QED
    BY <1>12, <2>1, <2>2 DEF StreamFailsFirst
<1>13. CASE PassStreamSingleLine(r)
  BY <1>0, <1>13, WriterSteps, AnsweringStep DEF PassStreamSingleLine, AttemptServes
<1>14. CASE StreamFirst(r)
  <2> DEFINE keys == IF Adapted(req[r], ProviderOf(r)) THEN {"Content-Type"}
                     ELSE cur[r].keys \cup {"Status"}
  <2>1. PICK x \in Writes(PutHeaders(w[r], keys, attempts[r]), attempts[r]) :
          /\ w' = [w EXCEPT ![r] = x]
          /\ \/ ~x.broken /\ Goto(r, "stream") /\ UNCHANGED <<lastUp, rows>>
             \/ x.broken /\ AttemptServes(r)
    BY <1>14 DEF StreamFirst
  <2>2. AnswerFrom(w[r], x, attempts[r])
    BY <2>1, WriterSteps
  <2>3. PutHeaders(w[r], keys, attempts[r]) \in Writer
    BY <1>0, PutHeadersEffect
  <2>4. x.written /\ (~x.broken => x.body = attempts[r])
    BY <1>0, <2>1, <2>3, WritesEffect
  <2>5. pc[r] = "body" /\ attempts' = attempts
    BY <1>14 DEF StreamFirst
  <2>6. CASE x.broken /\ AttemptServes(r)
    BY <1>0, <2>1, <2>2, <2>5, <2>6, AnsweringStep DEF AttemptServes
  <2>7. CASE ~x.broken /\ Goto(r, "stream")
    <3>1. ~w[r].written
      BY <2>2, <2>5, <2>7 DEF WriterInv, AnswerFrom
    <3>2. Follows(r, x, "stream")
      BY <2>4, <2>5, <2>7, <3>1 DEF Follows
    <3>3. x \in Writer /\ "stream" \in Labels
      BY <2>2 DEF AnswerFrom, Labels
    <3> QED
      BY <2>1, <2>5, <2>7, <3>2, <3>3 DEF HandlerStep
  <2> QED
    BY <2>1, <2>6, <2>7
<1>15. CASE StreamMore(r)
  <2>1. PICK x \in Writes(w[r], attempts[r]) :
          /\ w' = [w EXCEPT ![r] = x]
          /\ \/ ~x.broken /\ UNCHANGED <<pc, lastUp, rows>>
             \/ x.broken /\ AttemptServes(r)
    BY <1>15 DEF StreamMore
  <2>2. pc[r] = "stream" /\ w[r].written /\ ~w[r].broken /\ w[r].body = attempts[r]
        /\ attempts' = attempts
    BY <1>15 DEF StreamMore, WriterInv
  <2>3. x \in Writer /\ x.written /\ x.body = attempts[r]
    BY <1>0, <2>1, <2>2, WritesEffect
  <2>4. CASE ~x.broken /\ UNCHANGED pc
    <3>1. pc' = [pc EXCEPT ![r] = "stream"] /\ "stream" \in Labels
      BY <1>0, <2>2, <2>4 DEF Labels
    <3>2. Follows(r, x, "stream")
      BY <2>2, <2>3, <2>4 DEF Follows
    <3> QED
      BY <2>1, <2>2, <2>3, <3>1, <3>2 DEF HandlerStep
  <2>5. CASE x.broken /\ AttemptServes(r)
    <3>1. Follows(r, x, "done")
      BY <2>2, <2>3, <2>5 DEF Follows
    <3> QED
      BY <1>0, <2>1, <2>2, <2>3, <2>5, <3>1 DEF HandlerStep, AttemptServes
  <2> QED
    BY <2>1, <2>4, <2>5
<1>16. CASE StreamEnds(r)
  <2>1. w' = [w EXCEPT ![r] = w[r]] /\ pc' = [pc EXCEPT ![r] = "done"] /\ attempts' = attempts
    BY <1>16 DEF StreamEnds, AttemptServes, TypeOK
  <2>2. Follows(r, w[r], "done")
    BY <1>16 DEF StreamEnds, WriterInv, Follows
  <2> QED
    BY <1>0, <2>1, <2>2 DEF HandlerStep
<1>17. CASE AdaptBodyFails(r)
  BY <1>0, <1>17, QuietStep DEF AdaptBodyFails, Buffered, AttemptFails
<1>18. CASE AdaptBody(r)
  <2>1. PICK x \in Writes(PutHeaders(w[r], {"Content-Type"}, attempts[r]), attempts[r]) :
          /\ w' = [w EXCEPT ![r] = x]
          /\ IF x.broken THEN AttemptFails(r) ELSE AttemptServes(r)
    BY <1>18 DEF AdaptBody
  <2>2. AnswerFrom(w[r], x, attempts[r])
    BY <2>1, WriterSteps
  <2>3. pc[r] = "body" /\ attempts' = attempts
    BY <1>18 DEF AdaptBody, Buffered
  <2> QED
    BY <1>0, <2>1, <2>2, <2>3, AnsweringStep DEF AttemptFails, AttemptServes
<1>19. CASE RectifyRequest(r)
  BY <1>0, <1>19, QuietStep DEF RectifyRequest
<1>20. CASE RectifyFails(r)
  BY <1>0, <1>20, QuietStep DEF RectifyFails, AttemptFails
<1>21. CASE ReturnUpstreamError(r)
  <2> DEFINE err == [attempt |-> attempts[r], keys |-> ErrorKeys(r)]
  <2>1. err \in [attempt : Nat, keys : SUBSET HeaderKeys]
    BY DEF TypeOK, ErrorKeys, Reply, HeaderKeys
  <2>2. CASE UpstreamErrorAnswer(r, err) /\ Goto(r, "done")
    BY <1>0, <1>21, <2>1, <2>2, UpstreamErrorEffect, AnsweringStep DEF ReturnUpstreamError
  <2>3. CASE Goto(r, "loop") /\ UNCHANGED w
    BY <1>0, <1>21, <2>3, QuietStep DEF ReturnUpstreamError
  <2> QED
    BY <1>21, <2>2, <2>3 DEF ReturnUpstreamError
<1> QED
  BY <1>1, <1>2, <1>3, <1>4, <1>5, <1>6, <1>7, <1>8, <1>9, <1>10, <1>11, <1>12, <1>13,
     <1>14, <1>15, <1>16, <1>17, <1>18, <1>19, <1>20, <1>21, <1>22
  DEF Progress

LEMMA NoHandlerStep ==
  ASSUME SaveAppSettings \/ SaveProviders \/ UNCHANGED vars
  PROVE  UNCHANGED <<pc, w, attempts, trace>>
BY DEF SaveAppSettings, SaveProviders, vars, attempt

LEMMA NextSteps ==
  ASSUME TypeOK, WriterInv, [Next]_vars
  PROVE  (\E r \in Requests : HandlerStep(r)) \/ UNCHANGED <<pc, w, attempts>>
BY HandlerSteps, NoHandlerStep DEF Next

LEMMA WriterInvStep ==
  ASSUME TypeOK, WriterInv, [Next]_vars
  PROVE  WriterInv'
<1>1. CASE UNCHANGED <<pc, w, attempts>>
  BY <1>1 DEF WriterInv
<1>2. ASSUME NEW r \in Requests, HandlerStep(r) PROVE WriterInv'
  <2>1. PICK x \in Writer, l \in Labels :
          w' = [w EXCEPT ![r] = x] /\ pc' = [pc EXCEPT ![r] = l] /\ Follows(r, x, l)
    BY <1>2 DEF HandlerStep
  <2>2. w \in [Requests -> Writer] /\ pc \in [Requests -> Labels]
    BY DEF TypeOK
  <2>3. w'[r] = x /\ pc'[r] = l
    BY <2>1, <2>2
  <2>4. ASSUME NEW q \in Requests \ {r}
        PROVE  w'[q] = w[q] /\ pc'[q] = pc[q] /\ attempts'[q] = attempts[q]
    BY <1>2, <2>1, <2>2 DEF HandlerStep
  <2> QED
    BY <2>1, <2>3, <2>4 DEF WriterInv, Follows
<1> QED
  BY <1>1, <1>2, NextSteps

LEMMA WriterInvariant == Spec => [](TypeOK /\ WriterInv)
<1>1. Init => WriterInv
  BY DEF Init, WriterInv
<1> QED
  BY <1>1, TypeCorrect, WriterInvStep, PTL DEF Spec

\* Only a POST adds to the trace of a request, and none is made in a handler
\* that has answered a client it has not lost.
LEMMA TraceStep ==
  ASSUME TypeOK, WriterInv, [Next]_vars, NEW r \in Requests,
         w[r].written, ~w[r].broken
  PROVE  trace'[r] = trace[r]
<1> USE DEF shared, loop, attempt
<1>0. pc[r] \in {"stream", "done"} /\ trace \in [Requests -> Seq(Post)]
  BY DEF WriterInv, TypeOK
<1>1. CASE SaveAppSettings \/ SaveProviders \/ UNCHANGED vars
  BY <1>1, NoHandlerStep
<1>2. ASSUME NEW q \in Requests, PostFails(q) \/ PostAnswered(q)
      PROVE  trace'[r] = trace[r]
  <2>1. q # r
    BY <1>0, <1>2 DEF PostFails, PostAnswered, Sending, Sent
  <2>2. trace'[r] = trace[r]
    BY <1>0, <1>2, <2>1 DEF PostFails, PostAnswered, RecordPost
  <2> QED
    BY <2>2
<1>3. ASSUME NEW q \in Requests,
             ReceiveRequest(q) \/ StreamMore(q)
               \/ (Progress(q) /\ ~PostFails(q) /\ ~PostAnswered(q))
      PROVE  trace' = trace
  BY <1>3
  DEF Progress, ReceiveRequest, StreamMore, RefuseRequest, LoadProviders, ReadAttemptLimit,
      NextProvider, AllFailed, TranslationFails, SendRequest, PassBodyFails, PassBody, StreamFailsFirst,
      PassStreamSingleLine, StreamFirst, StreamEnds, AdaptBodyFails, AdaptBody, RectifyRequest,
      RectifyFails, ReturnUpstreamError
<1> QED
  BY <1>1, <1>2, <1>3 DEF Next

\* Once bytes of an answer went out no other upstream is asked, unless the
\* client is lost: the guard in proxyHandler on c.Writer.Written and the early
\* returns of forwardRequest, for any providers, settings and replies.
THEOREM StopsOnceWrittenHolds == Spec => StopsOnceWritten
<1>1. TypeOK /\ WriterInv /\ [Next]_vars
        => [\A r \in Requests : w[r].written /\ ~w[r].broken => trace'[r] = trace[r]]_vars
  BY TraceStep
<1> QED
  BY <1>1, WriterInvariant, PTL DEF Spec, StopsOnceWritten

-----------------------------------------------------------------------------
(* Refinement of RelayAnswer.                                              *)

PhaseOf(l, wr) ==
  IF l = "done" THEN "answered" ELSE IF wr.written THEN "answering" ELSE "waiting"

LEMMA AnswerStep ==
  ASSUME TypeOK, WriterInv, NEW r \in Requests, HandlerStep(r)
  PROVE  [Answers!Next]_(Answers!vars)
<1> DEFINE phase == [q \in Requests |-> PhaseOf(pc[q], w[q])]
           from  == [q \in Requests |-> w[q].body]
<1>1. PICK x \in Writer, l \in Labels :
        w' = [w EXCEPT ![r] = x] /\ pc' = [pc EXCEPT ![r] = l] /\ Follows(r, x, l)
  BY DEF HandlerStep
<1>2. w \in [Requests -> Writer] /\ pc \in [Requests -> Labels] /\ w[r] \in Writer
  BY DEF TypeOK
<1>3. /\ phase' = [phase EXCEPT ![r] = PhaseOf(l, x)]
      /\ from' = [from EXCEPT ![r] = x.body]
      /\ phase'[r] = PhaseOf(l, x) /\ from'[r] = x.body
      /\ phase[r] = PhaseOf(pc[r], w[r]) /\ from[r] = w[r].body
  BY <1>1, <1>2 DEF PhaseOf
<1>4. x.body \in Nat \cup {Unset}
  BY <1>1 DEF Writer, Source
<1>5. pc[r] # "done"
  BY <1>1 DEF Follows
<1>6. CASE ~w[r].written
  <2>1. phase[r] = "waiting" /\ w[r].body = Unset
    BY <1>3, <1>5, <1>6 DEF PhaseOf, WriterInv
  <2>2. CASE ~x.written /\ l # "done"
    <3>1. x.body = Unset /\ PhaseOf(l, x) = "waiting"
      BY <1>1, <2>2 DEF Follows, PhaseOf
    <3>2. phase' = phase /\ from' = from
      BY <1>3, <2>1, <3>1
    <3> QED
      BY <3>2 DEF Answers!vars, PhaseOf
  <2>3. CASE x.written \/ l = "done"
    <3>1. PhaseOf(l, x) \in {"answering", "answered"}
      BY <2>3 DEF PhaseOf
    <3>2. Answers!Answer(r)
      BY <1>3, <1>4, <2>1, <3>1 DEF Answers!Answer, PhaseOf
    <3> QED
      BY <3>2 DEF Answers!Next
  <2> QED
    BY <2>2, <2>3
<1>7. CASE w[r].written
  <2>1. phase[r] = "answering" /\ x.written /\ x.body = w[r].body
    BY <1>1, <1>3, <1>5, <1>7 DEF PhaseOf, Follows
  <2>2. from' = from
    BY <1>3, <2>1
  <2>3. CASE l = "done"
    <3>1. Answers!Complete(r)
      BY <1>3, <2>1, <2>2, <2>3 DEF Answers!Complete, PhaseOf
    <3> QED
      BY <3>1 DEF Answers!Next
  <2>4. CASE l # "done"
    <3>1. phase' = phase
      BY <1>3, <2>1, <2>4 DEF PhaseOf
    <3> QED
      BY <2>2, <3>1 DEF Answers!vars, PhaseOf
  <2> QED
    BY <2>3, <2>4
<1> QED
  BY <1>6, <1>7

\* The relay gives every client one answer, from one source: RelayAnswer is
\* implemented whatever upstreams reply and whenever they fail.
THEOREM AnswersOnceHolds == Spec => AnswersOnce
<1>1. Init => Answers!Init
  BY DEF Init, Answers!Init
<1>2. ASSUME TypeOK, WriterInv, [Next]_vars PROVE [Answers!Next]_(Answers!vars)
  <2>1. CASE UNCHANGED <<pc, w, attempts>>
    BY <2>1 DEF Answers!vars
  <2> QED
    BY <1>2, <2>1, AnswerStep, NextSteps
<1> QED
  BY <1>1, <1>2, WriterInvariant, PTL DEF Spec, AnswersOnce, Answers!Spec


-----------------------------------------------------------------------------
(* The order of the attempts: the inductive invariant, for one request.    *)

Waiting == {"idle", "received", "loaded"}
Answered == {"body", "error", "rectify", "resent", "stream"}
Busy == Answered \cup {"post", "sent"}

Actives(r) == {i \in 1..Len(list[r]) : Eligible(req[r], list[r][i])}

LastPost(r) == trace[r][Len(trace[r])]

\* The attempts made are the eligible providers up to pos; those that are left come after it.
Walk(r) ==
  /\ pc[r] \in Waiting => trace[r] = <<>> /\ attempts[r] = 0 /\ pos[r] = 0
  /\ pc[r] \in Busy \cup {"loop", "loaded"} =>
       /\ rest[r] = {i \in Actives(r) : i > pos[r]}
       /\ pos[r] <= Len(list[r])
       /\ attempts[r] = Cardinality(Actives(r) \cap (1..pos[r]))
  /\ pc[r] \in Busy \cup {"loop"} => attempts[r] <= limit[r]
  /\ pc[r] \in Busy => pos[r] \in Actives(r)

\* The attempt that is under way has made the last POST, and knows its response.
Current(r) ==
  /\ pc[r] \in Answered =>
       /\ trace[r] # <<>>
       /\ LastPost(r).attempt = attempts[r] /\ LastPost(r).pos = pos[r]
       /\ LastPost(r).code = cur[r].code /\ LastPost(r).rectifiable = cur[r].rectifiable
       /\ LastPost(r).retry = retried[r]
       /\ cur[r].code # 0
       /\ pc[r] \in {"body", "stream"} <=> Success(cur[r].code)
  /\ Retry(pc[r]) => Claude(req[r]) /\ ~retried[r] /\ cur[r].rectifiable

\* Attempts are numbered upwards.
Numbered(r) ==
  \A k \in 1..Len(trace[r]) :
    trace[r][k].attempt <= attempts[r] /\ (pc[r] \in {"post", "sent"} => trace[r][k].attempt < attempts[r])

\* What TriesInOrder says of the k-th POST.
InOrder(r, k) ==
  LET p == trace[r][k]
      q == trace[r][k - 1]
  IN /\ p.pos \in Actives(r)
     /\ p.attempt = Cardinality(Actives(r) \cap (1..p.pos))
     /\ p.attempt <= limit[r]
     /\ ~p.retry => \A m \in 1..(k - 1) : trace[r][m].attempt < p.attempt
     /\ p.retry => /\ Claude(req[r]) /\ k > 1
                   /\ q.attempt = p.attempt /\ q.pos = p.pos /\ ~q.retry
                   /\ q.rectifiable /\ q.code # 0 /\ ~Success(q.code)

\* After an error that is final the handler asks once more, or is done.
Stops(r) ==
  Claude(req[r]) /\ req[r].json =>
    /\ \A k \in 1..Len(trace[r]) - 1 : NonRetryable(trace[r][k].code) => trace[r][k + 1].retry
    /\ trace[r] # <<>> /\ NonRetryable(LastPost(r).code) => pc[r] \in {"error", "rectify", "resent", "done"}

OrderInv(r) ==
  /\ Walk(r) /\ Current(r) /\ Numbered(r) /\ Stops(r)
  /\ \A k \in 1..Len(trace[r]) : InOrder(r, k)

-----------------------------------------------------------------------------
(* The kinds of steps.                                                     *)

\* The part of the state that OrderInv(q) depends on, without pc.
Facts(q) == <<req[q], list[q], rest[q], limit[q], attempts[q], pos[q], cur[q], retried[q], trace[q]>>

\* A step of request r leaves the others alone.
Alone(r) == \A q \in Requests \ {r} : pc'[q] = pc[q] /\ Facts(q)' = Facts(q)

\* r goes on without a POST.
Moves(r, l) ==
  /\ Alone(r) /\ Facts(r)' = Facts(r) /\ pc'[r] = l
  /\ pc[r] \in {"loop"} \cup (Busy \ {"resent"})
  /\ l \in {"loop", "done", "stream", "rectify", "sent", "resent"}
  /\ l = "sent" => pc[r] = "post"
  /\ l = "resent" <=> pc[r] = "rectify"
  /\ l = "stream" => pc[r] \in {"body", "stream"}
  /\ l = "rectify" => pc[r] = "error" /\ Claude(req[r]) /\ ~retried[r] /\ cur[r].rectifiable
  /\ l = "loop" /\ pc[r] = "error" => ~(Claude(req[r]) /\ req[r].json /\ NonRetryable(cur[r].code))

\* r is at the start, or gets its providers or its limit.
Starts(r) ==
  /\ Alone(r) /\ pc[r] \in Waiting
  /\ attempts'[r] = attempts[r] /\ pos'[r] = pos[r] /\ trace'[r] = trace[r]
  /\ pc'[r] \in Waiting \cup {"loop", "done"}
  /\ pc'[r] \in {"loaded", "loop"} => rest'[r] = Actives(r)'

\* r makes a POST; c is the code of the response, or 0.
Posts(r, c) ==
  /\ Alone(r) /\ pc[r] \in Sending \cup Sent
  /\ req'[r] = req[r] /\ list'[r] = list[r] /\ rest'[r] = rest[r] /\ limit'[r] = limit[r]
  /\ attempts'[r] = attempts[r] /\ pos'[r] = pos[r]
  /\ \E p \in Post :
       /\ trace'[r] = Append(trace[r], p)
       /\ p.attempt = attempts[r] /\ p.pos = pos[r] /\ p.code = c /\ p.retry = (Retry(pc[r]))
       /\ \/ c = 0 /\ pc'[r] = "loop"
          \/ /\ c # 0 /\ pc'[r] = (IF Success(c) THEN "body" ELSE "error")
             /\ cur'[r].code = c /\ cur'[r].rectifiable = p.rectifiable
             /\ retried'[r] = p.retry

-----------------------------------------------------------------------------
(* Data.                                                                   *)

\* The next of the elements that are left is one more than those passed.
LEMMA NextElement ==
  ASSUME NEW n \in Nat, NEW A \in SUBSET (1..n), NEW p \in 0..n, NEW i \in A, i > p,
         \A j \in A : j > p => i <= j
  PROVE  /\ Cardinality(A \cap (1..i)) = Cardinality(A \cap (1..p)) + 1
         /\ \A j \in A : j > i <=> j > p /\ j # i
<1>1. A \cap (1..i) = (A \cap (1..p)) \cup {i} /\ i \notin A \cap (1..p)
  OBVIOUS
<1>2. IsFiniteSet(A \cap (1..p))
  <2>1. IsFiniteSet(1..p)
    BY FS_Interval
  <2> QED BY <2>1, FS_Subset
<1>3. Cardinality(A \cap (1..i)) = Cardinality(A \cap (1..p)) + 1
  BY <1>1, <1>2, FS_AddElement
<1>4. ASSUME NEW j \in A PROVE j > i <=> j > p /\ j # i
  BY <1>4
<1> QED BY <1>3, <1>4

\* A success is never final in the sense of the code's list.
LEMMA SuccessNotFinal == \A c \in Nat : NonRetryable(c) => ~Success(c) /\ c # 0
BY DEF NonRetryable, Success

\* What others do does not touch the invariant of a request.
LEMMA SameFacts ==
  ASSUME NEW r \in Requests, OrderInv(r), Facts(r)' = Facts(r), pc'[r] = pc[r]
  PROVE  OrderInv(r)'
<1>1. /\ req'[r] = req[r] /\ list'[r] = list[r] /\ rest'[r] = rest[r] /\ limit'[r] = limit[r]
      /\ attempts'[r] = attempts[r] /\ pos'[r] = pos[r] /\ cur'[r] = cur[r] /\ retried'[r] = retried[r]
      /\ trace'[r] = trace[r] /\ pc'[r] = pc[r]
  BY DEF Facts
<1>2. Walk(r)'
  BY <1>1 DEF OrderInv, Walk, Actives
<1>3. Current(r)'
  BY <1>1 DEF OrderInv, Current, LastPost
<1>4. Numbered(r)'
  BY <1>1 DEF OrderInv, Numbered
<1>5. Stops(r)'
  BY <1>1 DEF OrderInv, Stops, LastPost
<1>6. \A k \in 1..Len(trace'[r]) : InOrder(r, k)'
  <2> SUFFICES ASSUME NEW k \in 1..Len(trace[r]) PROVE InOrder(r, k)'
    BY <1>1
  <2>1. InOrder(r, k)
    BY DEF OrderInv
  <2>2. Actives(r)' = Actives(r)
    BY <1>1 DEF Actives
  <2> QED
    BY <1>1, <2>1, <2>2 DEF InOrder
<1> QED
  BY <1>2, <1>3, <1>4, <1>5, <1>6 DEF OrderInv

LEMMA TraceShape ==
  ASSUME TypeOK, NEW r \in Requests
  PROVE  /\ Len(trace[r]) \in Nat /\ (trace[r] # <<>> <=> Len(trace[r]) > 0)
         /\ \A k \in 1..Len(trace[r]) : trace[r][k] \in Post
         /\ attempts[r] \in Nat /\ pos[r] \in Nat /\ limit[r] \in Nat
         /\ list[r] \in Seq(Provider) /\ Len(list[r]) \in Nat /\ Actives(r) \subseteq 1..Len(list[r])
         /\ cur[r] \in Reply /\ retried[r] \in BOOLEAN
<1>1. trace[r] \in Seq(Post)
  BY DEF TypeOK
<1>2. list[r] \in Seq(Provider)
  BY DEF TypeOK
<1> QED
  BY <1>1, <1>2 DEF TypeOK, Actives

-----------------------------------------------------------------------------
(* Each kind of step keeps the invariant.                                  *)

LEMMA MovesKeep ==
  ASSUME TypeOK, NEW r \in Requests, OrderInv(r), NEW l, Moves(r, l)
  PROVE  OrderInv(r)'
<1>1. /\ req'[r] = req[r] /\ list'[r] = list[r] /\ rest'[r] = rest[r] /\ limit'[r] = limit[r]
      /\ attempts'[r] = attempts[r] /\ pos'[r] = pos[r] /\ cur'[r] = cur[r] /\ retried'[r] = retried[r]
      /\ trace'[r] = trace[r] /\ pc'[r] = l
  BY DEF Moves, Facts
<1>2. Walk(r)'
  BY <1>1 DEF OrderInv, Walk, Moves, Actives, Busy, Answered, Waiting
<1>3. Current(r)'
  BY <1>1 DEF OrderInv, Current, Moves, Busy, Answered, LastPost, Retry
<1>4. Numbered(r)'
  BY <1>1 DEF OrderInv, Numbered, Moves
<1>5. Stops(r)'
  <2> SUFFICES ASSUME Claude(req[r]) /\ req[r].json
               PROVE  /\ \A k \in 1..Len(trace[r]) - 1 :
                           NonRetryable(trace[r][k].code) => trace[r][k + 1].retry
                      /\ trace[r] # <<>> /\ NonRetryable(LastPost(r).code)
                           => l \in {"error", "rectify", "resent", "done"}
    BY <1>1 DEF Stops, LastPost
  <2>1. ASSUME trace[r] # <<>>, NonRetryable(LastPost(r).code), l \notin {"rectify", "resent", "done"}
        PROVE  FALSE
    <3>1. pc[r] = "error"
      BY <2>1 DEF OrderInv, Stops, Moves, Busy, Answered
    <3>2. LastPost(r).code = cur[r].code
      BY <3>1 DEF OrderInv, Current, Answered
    <3> QED
      BY <2>1, <3>1, <3>2 DEF Moves
  <2>2. \A k \in 1..Len(trace[r]) - 1 : NonRetryable(trace[r][k].code) => trace[r][k + 1].retry
    BY DEF OrderInv, Stops
  <2> QED BY <2>1, <2>2
<1>6. \A k \in 1..Len(trace'[r]) : InOrder(r, k)'
  <2> SUFFICES ASSUME NEW k \in 1..Len(trace[r]) PROVE InOrder(r, k)'
    BY <1>1
  <2>1. InOrder(r, k)
    BY DEF OrderInv
  <2>2. Actives(r)' = Actives(r)
    BY <1>1 DEF Actives
  <2> QED
    BY <1>1, <2>1, <2>2 DEF InOrder
<1> QED
  BY <1>2, <1>3, <1>4, <1>5, <1>6 DEF OrderInv

LEMMA PostsKeep ==
  ASSUME TypeOK, NEW r \in Requests, OrderInv(r), NEW c \in Nat, Posts(r, c)
  PROVE  OrderInv(r)'
<1>1. /\ req'[r] = req[r] /\ list'[r] = list[r] /\ rest'[r] = rest[r] /\ limit'[r] = limit[r]
      /\ attempts'[r] = attempts[r] /\ pos'[r] = pos[r] /\ pc[r] \in Sending \cup Sent
  BY DEF Posts
<1>2. PICK p \in Post :
        /\ trace'[r] = Append(trace[r], p)
        /\ p.attempt = attempts[r] /\ p.pos = pos[r] /\ p.code = c /\ p.retry = (Retry(pc[r]))
        /\ \/ c = 0 /\ pc'[r] = "loop"
           \/ /\ c # 0 /\ pc'[r] = (IF Success(c) THEN "body" ELSE "error")
              /\ cur'[r].code = c /\ cur'[r].rectifiable = p.rectifiable
              /\ retried'[r] = p.retry
  BY DEF Posts
<1> DEFINE n == Len(trace[r])
<1>3. /\ n \in Nat /\ Len(trace'[r]) = n + 1 /\ trace'[r][n + 1] = p /\ trace'[r] # <<>>
      /\ \A k \in 1..n : trace'[r][k] = trace[r][k]
  <2>1. trace[r] \in Seq(Post)
    BY DEF TypeOK
  <2> QED BY <1>2, <2>1, AppendProperties
<1>4. Actives(r)' = Actives(r) /\ LastPost(r)' = p /\ pc'[r] \in {"loop", "body", "error"}
  BY <1>1, <1>2, <1>3 DEF Actives, LastPost
<1> HIDE DEF n
<1>5. Walk(r)'
  BY <1>1, <1>4 DEF OrderInv, Walk, Busy, Answered, Waiting, Sending, Sent
<1>6. Current(r)'
  BY <1>1, <1>2, <1>3, <1>4 DEF Current, Answered, Retry
<1>7. Numbered(r)'
  BY <1>1, <1>2, <1>3, <1>4, TraceShape DEF OrderInv, Numbered, n
<1>8. Retry(pc[r]) =>
        /\ n > 0 /\ LastPost(r).attempt = p.attempt /\ LastPost(r).pos = p.pos /\ ~LastPost(r).retry
        /\ LastPost(r).rectifiable /\ LastPost(r).code # 0 /\ ~Success(LastPost(r).code) /\ Claude(req[r])
  BY <1>2, TraceShape DEF OrderInv, Current, Answered, Retry, n
<1>9. Stops(r)'
  <2> SUFFICES ASSUME Claude(req[r]) /\ req[r].json
               PROVE  /\ \A k \in 1..n : NonRetryable(trace'[r][k].code) => trace'[r][k + 1].retry
                      /\ NonRetryable(p.code) => pc'[r] \in {"error", "rectify", "resent", "done"}
    <3>1. Stops(r)' <=>
            (Claude(req'[r]) /\ req'[r].json =>
               /\ \A k \in 1..Len(trace'[r]) - 1 : NonRetryable(trace'[r][k].code) => trace'[r][k + 1].retry
               /\ trace'[r] # <<>> /\ NonRetryable(LastPost(r)'.code) =>
                    pc'[r] \in {"error", "rectify", "resent", "done"})
      BY Zenon DEF Stops
    <3>2. Len(trace'[r]) - 1 = n
      BY <1>3
    <3> QED BY <1>1, <1>4, <3>1, <3>2, Zenon
  <2>1. NonRetryable(p.code) => pc'[r] = "error"
    BY <1>2, SuccessNotFinal
  <2>2. ASSUME NEW k \in 1..n, NonRetryable(trace'[r][k].code)
        PROVE  trace'[r][k + 1].retry
    <3>1. CASE k = n
      <4>1. NonRetryable(LastPost(r).code) /\ trace[r] # <<>>
        BY <1>3, <2>2, <3>1, TraceShape DEF LastPost, n
      <4>2. Retry(pc[r])
        BY <1>1, <4>1 DEF OrderInv, Stops, Sending, Sent, Retry
      <4> QED BY <1>2, <1>3, <3>1, <4>2
    <3>2. CASE k # n
      <4>1. k \in 1..n - 1 /\ k + 1 \in 1..n
        BY <1>3, <3>2
      <4>2. trace'[r][k] = trace[r][k] /\ trace'[r][k + 1] = trace[r][k + 1]
        BY <1>3, <4>1
      <4> QED
        BY <2>2, <4>1, <4>2 DEF OrderInv, Stops, n
    <3> QED BY <3>1, <3>2
  <2> QED BY <2>1, <2>2
<1>10. ASSUME NEW k \in 1..(n + 1) PROVE InOrder(r, k)'
  <2>1. CASE k = n + 1
    <3>1. /\ p.pos \in Actives(r) /\ p.attempt = Cardinality(Actives(r) \cap (1..p.pos))
          /\ p.attempt <= limit[r]
      BY <1>1, <1>2 DEF OrderInv, Walk, Busy, Answered, Sending, Sent
    <3>2. ~p.retry => \A m \in 1..n : trace'[r][m].attempt < p.attempt
      <4> SUFFICES ASSUME ~p.retry, NEW m \in 1..n PROVE trace'[r][m].attempt < p.attempt
        OBVIOUS
      <4>1. pc[r] \in {"post", "sent"}
        BY <1>1, <1>2 DEF Sending, Sent, Retry
      <4>2. trace[r][m].attempt < attempts[r]
        BY <4>1 DEF OrderInv, Numbered, n
      <4> QED BY <1>2, <1>3, <4>2
    <3>3. p.retry => n > 0 /\ trace'[r][n] = LastPost(r)
      <4>1. p.retry => Retry(pc[r])
        BY <1>2
      <4>2. n > 0 => n \in 1..n
        BY <1>3
      <4> QED BY <1>3, <1>8, <4>1, <4>2 DEF LastPost, n
    <3>4. /\ k - 1 = n /\ trace'[r][k] = p /\ (k > 1 <=> n > 0)
          /\ Actives(r)' = Actives(r) /\ limit'[r] = limit[r] /\ req'[r] = req[r]
      BY <1>1, <1>3, <1>4, <2>1
    <3>5. p.retry => Retry(pc[r])
      BY <1>2
    <3>6. p.retry =>
            /\ Claude(req[r]) /\ k > 1 /\ trace'[r][k - 1].attempt = p.attempt
            /\ trace'[r][k - 1].pos = p.pos /\ ~trace'[r][k - 1].retry
            /\ trace'[r][k - 1].rectifiable /\ trace'[r][k - 1].code # 0
            /\ ~Success(trace'[r][k - 1].code)
      BY <1>8, <3>3, <3>4, <3>5
    <3> QED
      BY <3>1, <3>2, <3>4, <3>6 DEF InOrder
  <2>2. CASE k \in 1..n
    <3>1. InOrder(r, k)
      BY <2>2 DEF OrderInv, n
    <3>2. /\ trace'[r][k] = trace[r][k] /\ \A m \in 1..(k - 1) : trace'[r][m] = trace[r][m]
          /\ k > 1 => trace'[r][k - 1] = trace[r][k - 1]
      <4>1. \A m \in 1..(k - 1) : m \in 1..n
        BY <1>3, <2>2
      <4>2. k > 1 => k - 1 \in 1..n
        BY <1>3, <2>2
      <4> QED BY <1>3, <2>2, <4>1, <4>2
    <3>3. Actives(r)' = Actives(r) /\ limit'[r] = limit[r] /\ req'[r] = req[r]
      BY <1>1, <1>4
    <3> QED
      BY <3>1, <3>2, <3>3 DEF InOrder
  <2> QED BY <1>3, <2>1, <2>2
<1> QED
  BY <1>3, <1>5, <1>6, <1>7, <1>9, <1>10 DEF OrderInv

LEMMA StartsKeep ==
  ASSUME TypeOK, TypeOK', NEW r \in Requests, OrderInv(r), Starts(r)
  PROVE  OrderInv(r)'
<1>1. /\ trace'[r] = <<>> /\ attempts'[r] = 0 /\ pos'[r] = 0
      /\ pc'[r] \in Waiting \cup {"loop", "done"}
      /\ pc'[r] \in {"loaded", "loop"} => rest'[r] = Actives(r)'
  BY DEF OrderInv, Walk, Starts
<1>2. Len(list'[r]) \in Nat /\ Actives(r)' \subseteq 1..Len(list'[r]) /\ limit'[r] \in Nat
  <2>1. list'[r] \in Seq(Provider) /\ limit'[r] \in Nat
    BY DEF TypeOK
  <2> QED BY <2>1 DEF Actives
<1>3. Cardinality(Actives(r)' \cap (1..0)) = 0
  <2>1. Actives(r)' \cap (1..0) = {}
    OBVIOUS
  <2> QED BY <2>1, FS_EmptySet
<1>4. Actives(r)' = {i \in Actives(r)' : i > 0}
  BY <1>2
<1>5. pc'[r] \notin Busy
  BY <1>1 DEF Busy, Answered, Waiting
<1>6. Walk(r)'
  BY <1>1, <1>2, <1>3, <1>4, <1>5 DEF Walk
<1>7. Current(r)'
  BY <1>5 DEF Current, Busy, Answered, Retry
<1>8. Len(trace'[r]) = 0
  BY <1>1
<1>9. Numbered(r)' /\ \A k \in 1..Len(trace'[r]) : InOrder(r, k)'
  BY <1>8 DEF Numbered
<1>10. Stops(r)'
  BY <1>1, <1>8 DEF Stops
<1> QED
  BY <1>6, <1>7, <1>9, <1>10 DEF OrderInv

LEMMA NextKeeps ==
  ASSUME TypeOK, NEW r \in Requests, OrderInv(r), NextProvider(r)
  PROVE  OrderInv(r)'
<1> DEFINE i == First(rest[r])
<1>1. pc[r] = "loop" /\ rest[r] # {} /\ attempts[r] < limit[r]
  BY TraceShape DEF NextProvider, LoopEnds
<1>2. /\ req'[r] = req[r] /\ list'[r] = list[r] /\ limit'[r] = limit[r] /\ trace'[r] = trace[r]
      /\ pos'[r] = i /\ rest'[r] = rest[r] \ {i} /\ attempts'[r] = attempts[r] + 1
      /\ pc'[r] \in {"post", "loop"}
  BY <1>1 DEF NextProvider, Goto, TypeOK, loop
<1>3. /\ rest[r] = {j \in Actives(r) : j > pos[r]}
      /\ attempts[r] = Cardinality(Actives(r) \cap (1..pos[r])) /\ pos[r] <= Len(list[r])
  BY <1>1 DEF OrderInv, Walk, Busy
<1>4. i \in rest[r] /\ \A j \in rest[r] : i <= j
  BY <1>1, LeastElement DEF TypeOK
<1> HIDE DEF i
<1>5. i \in Actives(r) /\ i > pos[r] /\ \A j \in Actives(r) : j > pos[r] => i <= j
  BY <1>3, <1>4
<1>6. /\ Cardinality(Actives(r) \cap (1..i)) = attempts[r] + 1
      /\ {j \in Actives(r) : j > i} = rest[r] \ {i}
  <2>1. /\ Len(list[r]) \in Nat /\ Actives(r) \in SUBSET (1..Len(list[r]))
        /\ pos[r] \in 0..Len(list[r])
    BY <1>3, TraceShape
  <2> DEFINE A == Actives(r)
             p == pos[r]
             n == Len(list[r])
  <2>2. /\ n \in Nat /\ A \in SUBSET (1..n) /\ p \in 0..n /\ i \in A /\ i > p
        /\ \A j \in A : j > p => i <= j
    BY <1>5, <2>1
  <2>3. attempts[r] = Cardinality(A \cap (1..p)) /\ rest[r] = {j \in A : j > p}
    BY <1>3
  <2> HIDE DEF A, p, n
  <2>4. /\ Cardinality(A \cap (1..i)) = Cardinality(A \cap (1..p)) + 1
        /\ \A j \in A : j > i <=> j > p /\ j # i
    BY <2>2, NextElement
  <2>5. Cardinality(A \cap (1..i)) = attempts[r] + 1 /\ {j \in A : j > i} = rest[r] \ {i}
    BY <2>3, <2>4
  <2> QED BY <2>5 DEF A
<1>7. Actives(r)' = Actives(r) /\ LastPost(r)' = LastPost(r)
  BY <1>2 DEF Actives, LastPost
<1>8. Walk(r)'
  <2>1. i <= Len(list[r]) /\ attempts[r] + 1 <= limit[r]
    BY <1>1, <1>5, TraceShape
  <2> QED
    BY <1>2, <1>5, <1>6, <1>7, <2>1 DEF Walk, Busy, Answered, Waiting
<1>9. Current(r)'
  BY <1>2 DEF Current, Answered, Retry
<1>10. Numbered(r)'
  <2> SUFFICES ASSUME NEW k \in 1..Len(trace[r]) PROVE trace[r][k].attempt < attempts[r] + 1
    BY <1>2, TraceShape DEF Numbered, Post
  <2> QED
    BY TraceShape DEF OrderInv, Numbered, Post
<1>11. Stops(r)'
  BY <1>1, <1>2, <1>7 DEF OrderInv, Stops
<1>12. \A k \in 1..Len(trace'[r]) : InOrder(r, k)'
  <2> SUFFICES ASSUME NEW k \in 1..Len(trace[r]) PROVE InOrder(r, k)'
    BY <1>2
  <2>1. InOrder(r, k)
    BY DEF OrderInv
  <2> QED
    BY <1>2, <1>7, <2>1 DEF InOrder
<1> QED
  BY <1>8, <1>9, <1>10, <1>11, <1>12 DEF OrderInv

-----------------------------------------------------------------------------
(* Every step is of one of these kinds.                                    *)

\* What a step of r says of the others, and of r where nothing but pc changes.
LEMMA GotoMoves ==
  ASSUME TypeOK, NEW r \in Requests, NEW l, Goto(r, l), UNCHANGED <<req, loop, attempt, trace>>
  PROVE  Alone(r) /\ Facts(r)' = Facts(r) /\ pc'[r] = l
BY DEF Goto, TypeOK, Alone, Facts, loop, attempt

LEMMA StartSteps ==
  ASSUME TypeOK, NEW r \in Requests,
         ReceiveRequest(r) \/ RefuseRequest(r) \/ LoadProviders(r)
  PROVE  Starts(r)
<1> USE DEF Goto, TypeOK, Alone, Facts, loop, attempt, Waiting
<1>1. CASE ReceiveRequest(r)
  BY <1>1 DEF ReceiveRequest, Starts
<1>2. CASE RefuseRequest(r)
  BY <1>2 DEF RefuseRequest, Starts
<1>3. CASE LoadProviders(r)
  <2>1. /\ Alone(r) /\ pc[r] \in Waiting
        /\ attempts'[r] = attempts[r] /\ pos'[r] = pos[r] /\ trace'[r] = trace[r]
        /\ pc'[r] \in {"loaded", "done"}
    BY <1>3 DEF LoadProviders
  <2>2. rest'[r] = Actives(r)'
    BY <1>3 DEF LoadProviders, Actives
  <2> QED BY <2>1, <2>2 DEF Starts
<1> QED BY <1>1, <1>2, <1>3

LEMMA LimitStep ==
  ASSUME TypeOK, NEW r \in Requests, OrderInv(r), ReadAttemptLimit(r)
  PROVE  Starts(r)
<1>1. /\ Alone(r) /\ pc[r] = "loaded"
      /\ attempts'[r] = attempts[r] /\ pos'[r] = pos[r] /\ trace'[r] = trace[r]
      /\ rest'[r] = rest[r] /\ Actives(r)' = Actives(r) /\ pc'[r] = "loop"
  BY DEF ReadAttemptLimit, Goto, TypeOK, Alone, Facts, attempt, Actives
<1>2. rest[r] = {i \in Actives(r) : i > 0}
  BY <1>1 DEF OrderInv, Walk, Waiting
<1>3. rest[r] = Actives(r)
  BY <1>2, TraceShape
<1> QED
  BY <1>1, <1>3 DEF Starts, Waiting

LEMMA MoveSteps ==
  ASSUME TypeOK, NEW r \in Requests,
         \/ AllFailed(r) \/ TranslationFails(r) \/ SendRequest(r)
         \/ PassBodyFails(r) \/ PassBody(r)
         \/ StreamFailsFirst(r) \/ PassStreamSingleLine(r) \/ StreamFirst(r)
         \/ StreamMore(r) \/ StreamEnds(r)
         \/ AdaptBodyFails(r) \/ AdaptBody(r)
         \/ RectifyRequest(r) \/ RectifyFails(r) \/ ReturnUpstreamError(r)
  PROVE  \E l : Moves(r, l)
<1>1. ASSUME UNCHANGED <<req, loop, attempt, trace>>, Goto(r, "loop"),
             pc[r] \in {"post", "body", "stream"}
      PROVE  Moves(r, "loop")
  BY <1>1, GotoMoves DEF Moves, Busy, Answered
<1>2. ASSUME UNCHANGED <<req, loop, attempt, trace>>, Goto(r, "done"),
             pc[r] \in {"loop", "body", "stream", "error"}
      PROVE  Moves(r, "done")
  BY <1>2, GotoMoves DEF Moves, Busy, Answered
<1>3. ASSUME UNCHANGED <<req, loop, attempt, trace>>, Goto(r, "stream"), pc[r] = "body"
      PROVE  Moves(r, "stream")
  BY <1>3, GotoMoves DEF Moves, Busy, Answered
<1>4. ASSUME UNCHANGED <<req, loop, attempt, trace>>, UNCHANGED pc, pc[r] = "stream"
      PROVE  Moves(r, "stream")
  <2>1. Goto(r, "stream")
    BY <1>4 DEF Goto, TypeOK
  <2> QED BY <1>4, <2>1, GotoMoves DEF Moves, Busy, Answered
<1>5. CASE AllFailed(r)
  BY <1>2, <1>5 DEF AllFailed
<1>6. CASE TranslationFails(r) \/ PassBodyFails(r) \/ StreamFailsFirst(r) \/ AdaptBodyFails(r)
  BY <1>1, <1>6
  DEF TranslationFails, PassBodyFails, StreamFailsFirst, AdaptBodyFails, Buffered, AttemptFails
<1>7. CASE PassBody(r) \/ PassStreamSingleLine(r) \/ StreamEnds(r)
  BY <1>2, <1>7 DEF PassBody, PassStreamSingleLine, StreamEnds, AttemptServes
<1>8. CASE StreamFirst(r)
  <2>1. pc[r] = "body" /\ UNCHANGED <<req, loop, attempt, trace>>
        /\ (Goto(r, "stream") \/ Goto(r, "done"))
    BY <1>8 DEF StreamFirst, AttemptServes
  <2> QED BY <1>2, <1>3, <2>1
<1>9. CASE StreamMore(r)
  <2>1. pc[r] = "stream" /\ UNCHANGED <<req, loop, attempt, trace>>
        /\ (UNCHANGED pc \/ Goto(r, "done"))
    BY <1>9 DEF StreamMore, AttemptServes
  <2> QED BY <1>2, <1>4, <2>1
<1>10. CASE AdaptBody(r)
  <2>1. pc[r] = "body" /\ UNCHANGED <<req, loop, attempt, trace>>
        /\ (Goto(r, "loop") \/ Goto(r, "done"))
    BY <1>10 DEF AdaptBody, Buffered, AttemptFails, AttemptServes
  <2> QED BY <1>1, <1>2, <2>1
<1>11. CASE RectifyRequest(r)
  <2>1. Goto(r, "rectify") /\ UNCHANGED <<req, loop, attempt, trace>> /\ pc[r] = "error"
        /\ Claude(req[r]) /\ ~retried[r] /\ cur[r].rectifiable
    BY <1>11 DEF RectifyRequest, AsksRectification
  <2>2. Moves(r, "rectify")
    BY <2>1, GotoMoves DEF Moves, Busy, Answered
  <2> QED BY <2>2
<1>12. CASE RectifyFails(r)
  <2>1. Goto(r, "loop") /\ UNCHANGED <<req, loop, attempt, trace>> /\ pc[r] = "error" /\ ~req[r].json
    BY <1>12 DEF RectifyFails, AttemptFails
  <2>2. Moves(r, "loop")
    BY <2>1, GotoMoves DEF Moves, Busy, Answered
  <2> QED BY <2>2
<1>13. CASE ReturnUpstreamError(r)
  <2>1. /\ UNCHANGED <<req, loop, attempt, trace>> /\ pc[r] = "error"
        /\ IF Claude(req[r]) /\ NonRetryable(cur[r].code) THEN Goto(r, "done") ELSE Goto(r, "loop")
    BY <1>13 DEF ReturnUpstreamError
  <2>2. CASE Goto(r, "done")
    BY <1>2, <2>1, <2>2
  <2>3. CASE ~(Claude(req[r]) /\ NonRetryable(cur[r].code)) /\ Goto(r, "loop")
    <3>1. Moves(r, "loop")
      BY <2>1, <2>3, GotoMoves DEF Moves, Busy, Answered
    <3> QED BY <3>1
  <2> QED BY <2>1, <2>2, <2>3
<1>14. CASE SendRequest(r)
  <2> DEFINE l == IF Retry(pc[r]) THEN "resent" ELSE "sent"
  <2>1. Goto(r, l) /\ UNCHANGED <<req, loop, attempt, trace>> /\ pc[r] \in Sending
    BY <1>14 DEF SendRequest
  <2>2. Alone(r) /\ Facts(r)' = Facts(r) /\ pc'[r] = l
    BY <2>1, GotoMoves
  <2>3. Moves(r, l)
    BY <2>1, <2>2 DEF Moves, Busy, Answered, Sending, Retry
  <2> QED BY <2>3
<1> QED
  BY <1>5, <1>6, <1>7, <1>8, <1>9, <1>10, <1>11, <1>12, <1>13, <1>14

LEMMA PostSteps ==
  ASSUME TypeOK, NEW r \in Requests, OrderInv(r), PostFails(r) \/ PostAnswered(r)
  PROVE  \E c \in Nat : Posts(r, c)
<1>1. CASE PostFails(r)
  <2> DEFINE p == [attempt |-> attempts[r], pos |-> pos[r], code |-> 0,
                   rectifiable |-> FALSE, retry |-> Retry(pc[r])]
  <2>1. p \in Post
    BY DEF Post, TypeOK, Retry
  <2>2. trace'[r] = Append(trace[r], p) /\ pc'[r] = "loop" /\ pc[r] \in Sending \cup Sent
    BY <1>1 DEF PostFails, RecordPost, AttemptFails, Goto, TypeOK
  <2>3. Alone(r) /\ req'[r] = req[r] /\ list'[r] = list[r] /\ rest'[r] = rest[r]
        /\ limit'[r] = limit[r] /\ attempts'[r] = attempts[r] /\ pos'[r] = pos[r]
    BY <1>1 DEF PostFails, RecordPost, AttemptFails, Goto, TypeOK, Alone, Facts, loop, attempt
  <2>4. /\ p.attempt = attempts[r] /\ p.pos = pos[r] /\ p.code = 0 /\ p.retry = (Retry(pc[r]))
    OBVIOUS
  <2> HIDE DEF p
  <2>5. Posts(r, 0)
    BY <2>1, <2>2, <2>3, <2>4 DEF Posts
  <2> QED BY <2>5
<1>2. CASE PostAnswered(r)
  <2>1. PICK rep \in Replies :
          /\ RecordPost(r, rep.code, rep.rectifiable, Retry(pc[r]))
          /\ cur' = [cur EXCEPT ![r] = rep]
          /\ Goto(r, IF Success(rep.code) THEN "body" ELSE "error")
    BY <1>2 DEF PostAnswered
  <2>2. rep \in Reply /\ rep.code \in Nat \ {0} /\ rep.rectifiable \in BOOLEAN
    BY RepliesAssumption DEF Reply
  <2> DEFINE p == [attempt |-> attempts[r], pos |-> pos[r], code |-> rep.code,
                   rectifiable |-> rep.rectifiable, retry |-> Retry(pc[r])]
  <2>3. p \in Post
    BY <2>2 DEF Post, TypeOK, Retry
  <2>4. /\ trace'[r] = Append(trace[r], p) /\ pc[r] \in Sending \cup Sent
        /\ pc'[r] = IF Success(rep.code) THEN "body" ELSE "error"
        /\ cur'[r] = rep /\ retried'[r] = (Retry(pc[r]))
    BY <1>2, <2>1 DEF PostAnswered, RecordPost, Goto, TypeOK
  <2>5. Alone(r) /\ req'[r] = req[r] /\ list'[r] = list[r] /\ rest'[r] = rest[r]
        /\ limit'[r] = limit[r] /\ attempts'[r] = attempts[r] /\ pos'[r] = pos[r]
    BY <1>2, <2>1 DEF PostAnswered, RecordPost, Goto, TypeOK, Alone, Facts, loop
  <2>6. /\ p.attempt = attempts[r] /\ p.pos = pos[r] /\ p.code = rep.code
        /\ p.retry = (Retry(pc[r])) /\ p.rectifiable = rep.rectifiable
    OBVIOUS
  <2> HIDE DEF p
  <2>7. Posts(r, rep.code)
    BY <2>2, <2>3, <2>4, <2>5, <2>6 DEF Posts
  <2> QED BY <2>2, <2>7
<1> QED BY <1>1, <1>2

-----------------------------------------------------------------------------
(* The theorems.                                                           *)

Order == TypeOK /\ \A r \in Requests : OrderInv(r)

LEMMA OrderInit == Init => Order
<1> SUFFICES ASSUME Init PROVE Order
  OBVIOUS
<1>1. TypeOK
  BY TypeInit
<1>2. ASSUME NEW r \in Requests PROVE OrderInv(r)
  <2>1. pc[r] = "idle" /\ trace[r] = <<>> /\ Len(trace[r]) = 0 /\ attempts[r] = 0 /\ pos[r] = 0
    BY DEF Init
  <2> QED
    BY <2>1
    DEF Retry, OrderInv, Walk, Current, Numbered, Stops, Waiting, Busy, Answered
<1> QED BY <1>1, <1>2 DEF Order

LEMMA OrderStep == Order /\ [Next]_vars => Order'
<1> SUFFICES ASSUME Order, [Next]_vars PROVE Order'
  OBVIOUS
<1>1. TypeOK /\ TypeOK'
  BY TypeStep DEF Order
<1>2. ASSUME NEW r \in Requests, ReceiveRequest(r) \/ Progress(r) \/ StreamMore(r)
      PROVE  Alone(r) /\ OrderInv(r)'
  <2>1. OrderInv(r)
    BY DEF Order
  <2>2. CASE ReceiveRequest(r) \/ RefuseRequest(r) \/ LoadProviders(r) \/ ReadAttemptLimit(r)
    <3>1. Starts(r)
      BY <1>1, <2>1, <2>2, StartSteps, LimitStep
    <3> QED BY <1>1, <2>1, <3>1, StartsKeep DEF Starts
  <2>3. CASE NextProvider(r)
    <3>1. Alone(r)
      BY <1>1, <2>3 DEF NextProvider, Goto, TypeOK, Alone, Facts
    <3> QED BY <1>1, <2>1, <2>3, <3>1, NextKeeps
  <2>4. CASE PostFails(r) \/ PostAnswered(r)
    <3>1. PICK c \in Nat : Posts(r, c)
      BY <1>1, <2>1, <2>4, PostSteps
    <3> QED BY <1>1, <2>1, <3>1, PostsKeep DEF Posts
  <2>5. CASE \/ AllFailed(r) \/ TranslationFails(r) \/ SendRequest(r)
             \/ PassBodyFails(r) \/ PassBody(r)
             \/ StreamFailsFirst(r) \/ PassStreamSingleLine(r) \/ StreamFirst(r)
             \/ StreamMore(r) \/ StreamEnds(r)
             \/ AdaptBodyFails(r) \/ AdaptBody(r)
             \/ RectifyRequest(r) \/ RectifyFails(r) \/ ReturnUpstreamError(r)
    <3>1. PICK l : Moves(r, l)
      BY <1>1, <2>5, MoveSteps
    <3> QED BY <1>1, <2>1, <3>1, MovesKeep DEF Moves
  <2> QED
    BY <1>2, <2>2, <2>3, <2>4, <2>5 DEF Progress
<1>3. ASSUME NEW q \in Requests PROVE OrderInv(q)'
  <2>1. OrderInv(q)
    BY DEF Order
  <2>2. CASE \E r \in Requests : ReceiveRequest(r) \/ Progress(r) \/ StreamMore(r)
    <3>1. PICK r \in Requests : ReceiveRequest(r) \/ Progress(r) \/ StreamMore(r)
      BY <2>2
    <3>2. Alone(r) /\ OrderInv(r)'
      BY <1>2, <3>1
    <3>3. CASE q = r
      BY <3>2, <3>3
    <3>4. CASE q # r
      <4>1. pc'[q] = pc[q] /\ Facts(q)' = Facts(q)
        BY <3>2, <3>4 DEF Alone
      <4> QED BY <2>1, <4>1, SameFacts
    <3> QED BY <3>3, <3>4
  <2>3. CASE SaveAppSettings \/ SaveProviders \/ UNCHANGED vars
    <3>1. pc'[q] = pc[q] /\ Facts(q)' = Facts(q)
      BY <2>3 DEF SaveAppSettings, SaveProviders, vars, Facts, loop, attempt
    <3> QED BY <2>1, <3>1, SameFacts
  <2> QED BY <2>2, <2>3 DEF Next
<1> QED BY <1>1, <1>3 DEF Order

LEMMA OrderAlways == Spec => []Order
BY OrderInit, OrderStep, PTL DEF Spec

\* However lists and settings are saved and whatever fails, the providers asked
\* are the eligible ones of the list that was loaded, in order and no more than
\* the limit allows; the only second question is the rectified one.
THEOREM TriesInOrderHolds == Spec => []TriesInOrder
<1>1. Order => TriesInOrder
  <2> SUFFICES ASSUME Order, NEW r \in Requests, NEW k \in 1..Len(trace[r])
               PROVE  LET p == trace[r][k]
                          q == trace[r][k - 1]
                      IN /\ Eligible(req[r], list[r][p.pos])
                         /\ p.attempt = Cardinality({i \in 1..p.pos : Eligible(req[r], list[r][i])})
                         /\ p.attempt <= limit[r]
                         /\ ~p.retry => \A m \in 1..(k - 1) : trace[r][m].attempt < p.attempt
                         /\ p.retry => /\ Claude(req[r]) /\ k > 1
                                       /\ q.attempt = p.attempt /\ q.pos = p.pos /\ ~q.retry
                                       /\ q.rectifiable /\ q.code # 0 /\ ~Success(q.code)
    BY DEF TriesInOrder
  <2>1. InOrder(r, k)
    BY DEF Order, OrderInv
  <2>2. trace[r][k].pos \in 1..Len(list[r]) /\ Eligible(req[r], list[r][trace[r][k].pos])
    BY <2>1 DEF InOrder, Actives
  <2>3. Actives(r) \cap (1..trace[r][k].pos)
          = {i \in 1..trace[r][k].pos : Eligible(req[r], list[r][i])}
    <3>1. Len(list[r]) \in Nat
      BY TraceShape DEF Order
    <3> QED BY <2>2, <3>1 DEF Actives
  <2> QED
    BY <2>1, <2>2, <2>3 DEF InOrder
<1> QED
  BY <1>1, OrderAlways, PTL

\* After an error that is final for Claude no other provider is asked, whatever the other requests do and
\* the settings become, unless a rectified retry followed it that got no response or one that is not final.
THEOREM NonRetryableStopsHolds == Spec => []NonRetryableStops
<1>1. Order => NonRetryableStops
  <2> SUFFICES ASSUME Order, NEW r \in Requests, Claude(req[r]) /\ req[r].json,
                      NEW m \in 1..Len(trace[r]), NEW k \in 1..(m - 1),
                      trace[r][m].attempt # trace[r][k].attempt, NonRetryable(trace[r][k].code)
               PROVE  trace[r][k + 1].retry /\ ~NonRetryable(trace[r][k + 1].code)
    BY DEF NonRetryableStops
  <2>1. Len(trace[r]) \in Nat /\ k \in 1..Len(trace[r]) - 1 /\ k + 1 \in 1..Len(trace[r]) /\ k + 1 <= m
    BY TraceShape DEF Order
  <2>2. trace[r][k + 1].retry
    BY <2>1 DEF Order, OrderInv, Stops
  <2>3. trace[r][k + 1].attempt = trace[r][k].attempt
    <3>1. (k + 1) - 1 = k
      BY <2>1
    <3>2. InOrder(r, k + 1)
      BY <2>1 DEF Order, OrderInv
    <3>3. trace[r][k + 1].attempt = trace[r][(k + 1) - 1].attempt
      BY <2>2, <3>2 DEF InOrder
    <3> QED BY <3>1, <3>3
  <2>4. k + 1 # m
    BY <2>3
  <2>5. ASSUME NonRetryable(trace[r][k + 1].code) PROVE FALSE
    <3>1. /\ k + 1 \in 1..Len(trace[r]) - 1 /\ k + 2 \in 1..Len(trace[r])
          /\ (k + 1) + 1 = k + 2 /\ (k + 2) - 1 = k + 1
      BY <2>1, <2>4
    <3>2. trace[r][(k + 1) + 1].retry
      BY <2>5, <3>1 DEF Order, OrderInv, Stops
    <3>3. InOrder(r, k + 2)
      BY <3>1 DEF Order, OrderInv
    <3>4. ~trace[r][(k + 2) - 1].retry
      BY <3>1, <3>2, <3>3 DEF InOrder
    <3> QED BY <2>2, <3>1, <3>4
  <2> QED BY <2>2, <2>5
<1> QED
  BY <1>1, OrderAlways, PTL

-----------------------------------------------------------------------------
(* What is logged of a request.                                            *)

\* c is the status of the last response that attempt n got, 0 if it got none.
CodeOf(t, n, c) ==
  \/ c = 0 /\ \A m \in 1..Len(t) : t[m].attempt = n => t[m].code = 0
  \/ \E m \in 1..Len(t) :
       /\ t[m].attempt = n /\ t[m].code = c /\ c # 0
       /\ \A l \in 1..Len(t) : l > m /\ t[l].attempt = n => t[l].code = 0

\* The rows rs belong to attempts up to n, in order, and agree with the POSTs t.
RowsAgree(n, t, rs) ==
  \A k \in 1..Len(rs) :
    /\ rs[k].attempt <= n
    /\ \A m \in 1..(k - 1) : rs[m].attempt < rs[k].attempt
    /\ CodeOf(t, rs[k].attempt, rs[k].code)

\* The attempt that is under way has no row yet, and its code is that of its
\* last response.
Logged(r) ==
  IF pc[r] \in Busy
    THEN RowsAgree(attempts[r] - 1, trace[r], rows[r]) /\ CodeOf(trace[r], attempts[r], code[r])
    ELSE RowsAgree(attempts[r], trace[r], rows[r])

\* A POST of another attempt, or one that got no response, changes no code.
LEMMA CodeKept ==
  ASSUME NEW t \in Seq(Post), NEW p \in Post, NEW n, NEW c, CodeOf(t, n, c),
         p.attempt # n \/ p.code = 0
  PROVE  CodeOf(Append(t, p), n, c)
<1> DEFINE u == Append(t, p)
<1>1. /\ Len(t) \in Nat /\ Len(u) = Len(t) + 1 /\ u[Len(t) + 1] = p
      /\ \A m \in 1..Len(t) : u[m] = t[m]
  BY AppendProperties
<1> HIDE DEF u
<1>2. \A m \in 1..Len(u) : m \in 1..Len(t) \/ m = Len(t) + 1
  BY <1>1
<1>3. CASE c = 0 /\ \A m \in 1..Len(t) : t[m].attempt = n => t[m].code = 0
  <2>1. \A m \in 1..Len(u) : u[m].attempt = n => u[m].code = 0
    BY <1>1, <1>2, <1>3
  <2> QED BY <1>3, <2>1 DEF CodeOf, u
<1>4. CASE \E m \in 1..Len(t) :
             /\ t[m].attempt = n /\ t[m].code = c /\ c # 0
             /\ \A l \in 1..Len(t) : l > m /\ t[l].attempt = n => t[l].code = 0
  <2>1. PICK m \in 1..Len(t) :
          /\ t[m].attempt = n /\ t[m].code = c /\ c # 0
          /\ \A l \in 1..Len(t) : l > m /\ t[l].attempt = n => t[l].code = 0
    BY <1>4
  <2>2. m \in 1..Len(u) /\ u[m].attempt = n /\ u[m].code = c
    BY <1>1, <2>1
  <2>3. \A l \in 1..Len(u) : l > m /\ u[l].attempt = n => u[l].code = 0
    BY <1>1, <1>2, <2>1
  <2> QED BY <2>1, <2>2, <2>3 DEF CodeOf, u
<1> QED BY <1>3, <1>4 DEF CodeOf

\* A response gives its attempt its code.
LEMMA CodeTaken ==
  ASSUME NEW t \in Seq(Post), NEW p \in Post, p.code # 0
  PROVE  CodeOf(Append(t, p), p.attempt, p.code)
<1> DEFINE u == Append(t, p)
<1>1. Len(t) \in Nat /\ Len(u) = Len(t) + 1 /\ u[Len(t) + 1] = p
  BY AppendProperties
<1> HIDE DEF u
<1>2. Len(t) + 1 \in 1..Len(u) /\ \A l \in 1..Len(u) : ~(l > Len(t) + 1)
  BY <1>1
<1>3. \E m \in 1..Len(u) :
        /\ u[m].attempt = p.attempt /\ u[m].code = p.code /\ p.code # 0
        /\ \A l \in 1..Len(u) : l > m /\ u[l].attempt = p.attempt => u[l].code = 0
  BY <1>1, <1>2
<1> QED BY <1>3 DEF CodeOf, u

LEMMA RowNumbers ==
  ASSUME NEW rs \in Seq(Row)
  PROVE  \A k \in 1..Len(rs) : rs[k].attempt \in Nat
<1>1. \A k \in 1..Len(rs) : rs[k] \in Row
  OBVIOUS
<1> QED BY <1>1 DEF Row

\* Rows of earlier attempts are not touched by a POST of attempt n.
LEMMA RowsKept ==
  ASSUME NEW t \in Seq(Post), NEW p \in Post, NEW n \in Nat, NEW rs \in Seq(Row),
         RowsAgree(n - 1, t, rs), p.attempt = n
  PROVE  RowsAgree(n - 1, Append(t, p), rs)
<1> SUFFICES ASSUME NEW k \in 1..Len(rs)
             PROVE  CodeOf(Append(t, p), rs[k].attempt, rs[k].code)
  BY DEF RowsAgree
<1>1. rs[k].attempt <= n - 1 /\ rs[k].attempt \in Nat /\ CodeOf(t, rs[k].attempt, rs[k].code)
  BY RowNumbers DEF RowsAgree
<1>2. p.attempt # rs[k].attempt
  BY <1>1
<1> QED BY <1>1, <1>2, CodeKept

\* With or without the row of the attempt, the rows agree after it.
LEMMA RowsExtended ==
  ASSUME NEW t \in Seq(Post), NEW n \in Nat, NEW c \in Nat, NEW rs \in Seq(Row), NEW us,
         RowsAgree(n - 1, t, rs), CodeOf(t, n, c),
         us = rs \/ us = Append(rs, [attempt |-> n, code |-> c])
  PROVE  RowsAgree(n, t, us)
<1>1. \A k \in 1..Len(rs) : rs[k].attempt \in Nat /\ rs[k].attempt <= n - 1
  BY RowNumbers DEF RowsAgree
<1>2. CASE us = rs
  BY <1>1, <1>2 DEF RowsAgree
<1>3. CASE us = Append(rs, [attempt |-> n, code |-> c])
  <2> DEFINE row == [attempt |-> n, code |-> c]
  <2>1. row \in Row /\ row.attempt = n /\ row.code = c
    BY DEF Row
  <2>2. /\ Len(rs) \in Nat /\ Len(us) = Len(rs) + 1 /\ us[Len(rs) + 1] = row
        /\ \A k \in 1..Len(rs) : us[k] = rs[k]
    BY <1>3, <2>1, AppendProperties
  <2> HIDE DEF row
  <2>3. SUFFICES ASSUME NEW k \in 1..Len(us)
                 PROVE  /\ us[k].attempt <= n
                        /\ \A m \in 1..(k - 1) : us[m].attempt < us[k].attempt
                        /\ CodeOf(t, us[k].attempt, us[k].code)
    BY DEF RowsAgree
  <2>4. CASE k = Len(rs) + 1
    <3>1. \A m \in 1..(k - 1) : m \in 1..Len(rs) /\ us[m] = rs[m]
      BY <2>2, <2>4
    <3>2. \A m \in 1..(k - 1) : us[m].attempt < n
      BY <1>1, <3>1
    <3>3. us[k].attempt = n /\ us[k].code = c /\ n <= n
      BY <2>1, <2>2, <2>4
    <3> QED BY <3>2, <3>3
  <2>5. CASE k \in 1..Len(rs)
    <3>1. us[k] = rs[k] /\ \A m \in 1..(k - 1) : m \in 1..Len(rs) /\ us[m] = rs[m]
      BY <2>2, <2>5
    <3>2. /\ \A m \in 1..(k - 1) : rs[m].attempt < rs[k].attempt
          /\ CodeOf(t, rs[k].attempt, rs[k].code)
      BY <2>5 DEF RowsAgree
    <3>3. us[k].attempt <= n
      BY <1>1, <2>5, <3>1
    <3> QED BY <3>1, <3>2, <3>3
  <2> QED BY <2>2, <2>4, <2>5
<1> QED BY <1>2, <1>3

-----------------------------------------------------------------------------
(* Each step keeps it.                                                     *)

LogFacts(q) == <<attempts[q], code[q], trace[q], rows[q]>>

LogAlone(r) == \A q \in Requests \ {r} : pc'[q] = pc[q] /\ LogFacts(q)' = LogFacts(q)

\* Nothing is logged, and no attempt begins.
Silent(r) ==
  /\ LogAlone(r) /\ LogFacts(r)' = LogFacts(r)
  /\ pc'[r] \in Busy => pc[r] \in Busy

\* The attempt ends, with or without its row.
Ends(r) ==
  /\ LogAlone(r)
  /\ attempts'[r] = attempts[r] /\ code'[r] = code[r] /\ trace'[r] = trace[r]
  /\ pc[r] \in Busy /\ pc'[r] \notin Busy
  /\ \/ rows'[r] = rows[r]
     \/ rows'[r] = Append(rows[r], [attempt |-> attempts[r], code |-> code[r]])

LEMMA LogShape ==
  ASSUME TypeOK, NEW r \in Requests
  PROVE  /\ trace[r] \in Seq(Post) /\ rows[r] \in Seq(Row)
         /\ attempts[r] \in Nat /\ code[r] \in Nat
BY DEF TypeOK

LEMMA EarlierRows ==
  ASSUME NEW n \in Nat, NEW t, NEW rs \in Seq(Row), RowsAgree(n - 1, t, rs)
  PROVE  RowsAgree(n, t, rs)
BY RowNumbers DEF RowsAgree

LEMMA SilentKeeps ==
  ASSUME TypeOK, NEW r \in Requests, Logged(r), Silent(r)
  PROVE  Logged(r)'
<1>1. /\ attempts'[r] = attempts[r] /\ code'[r] = code[r] /\ trace'[r] = trace[r]
      /\ rows'[r] = rows[r] /\ (pc'[r] \in Busy => pc[r] \in Busy)
  BY DEF Silent, LogFacts
<1>2. CASE pc'[r] \in Busy
  BY <1>1, <1>2 DEF Logged
<1>3. CASE pc'[r] \notin Busy
  <2>1. RowsAgree(attempts[r], trace[r], rows[r])
    BY LogShape, EarlierRows DEF Logged
  <2> QED BY <1>1, <1>3, <2>1 DEF Logged
<1> QED BY <1>2, <1>3

LEMMA EndsKeep ==
  ASSUME TypeOK, NEW r \in Requests, Logged(r), Ends(r)
  PROVE  Logged(r)'
<1>1. RowsAgree(attempts[r], trace[r], rows'[r])
  BY LogShape, RowsExtended DEF Logged, Ends
<1> QED BY <1>1 DEF Logged, Ends

LEMMA SameLog ==
  ASSUME NEW r \in Requests, Logged(r), pc'[r] = pc[r], LogFacts(r)' = LogFacts(r)
  PROVE  Logged(r)'
BY DEF Logged, LogFacts

LEMMA LogNext ==
  ASSUME TypeOK, NEW r \in Requests, OrderInv(r), Logged(r), NextProvider(r)
  PROVE  LogAlone(r) /\ Logged(r)'
<1>1. /\ pc[r] = "loop" /\ pc'[r] \in {"post", "loop"}
      /\ attempts'[r] = attempts[r] + 1 /\ code'[r] = 0
      /\ trace'[r] = trace[r] /\ rows'[r] = rows[r]
  BY DEF NextProvider, Goto, TypeOK
<1>2. LogAlone(r)
  BY DEF NextProvider, Goto, TypeOK, LogAlone, LogFacts
<1>3. RowsAgree(attempts[r], trace[r], rows[r])
  BY <1>1 DEF Logged, Busy, Answered
<1>4. CodeOf(trace[r], attempts[r] + 1, 0)
  <2>1. \A m \in 1..Len(trace[r]) : trace[r][m].attempt <= attempts[r] /\ trace[r][m].attempt \in Nat
    BY TraceShape DEF OrderInv, Numbered, Post
  <2>2. \A m \in 1..Len(trace[r]) : trace[r][m].attempt # attempts[r] + 1
    BY <2>1, LogShape
  <2> QED BY <2>2 DEF CodeOf
<1>5. /\ attempts[r] + 1 - 1 = attempts[r] /\ attempts[r] + 1 \in Nat
      /\ attempts'[r] - 1 = attempts[r]
  <2>1. attempts[r] \in Nat
    BY LogShape
  <2> QED BY <1>1, <2>1
<1>6. RowsAgree(attempts[r] + 1, trace[r], rows[r])
  BY <1>3, <1>5, LogShape, EarlierRows
<1>7. Logged(r)'
  BY <1>1, <1>3, <1>4, <1>5, <1>6 DEF Logged
<1> QED BY <1>2, <1>7

LEMMA LogPosts ==
  ASSUME TypeOK, NEW r \in Requests, Logged(r), PostFails(r) \/ PostAnswered(r)
  PROVE  LogAlone(r) /\ Logged(r)'
<1>1. pc[r] \in Busy
  BY DEF PostFails, PostAnswered, Busy, Answered, Sending, Sent
<1>2. RowsAgree(attempts[r] - 1, trace[r], rows[r]) /\ CodeOf(trace[r], attempts[r], code[r])
  BY <1>1 DEF Logged
<1>3. CASE PostFails(r)
  <2> DEFINE p == [attempt |-> attempts[r], pos |-> pos[r], code |-> 0,
                   rectifiable |-> FALSE, retry |-> Retry(pc[r])]
  <2>1. p \in Post /\ p.attempt = attempts[r] /\ p.code = 0
    BY DEF Post, TypeOK, Retry
  <2>2. /\ trace'[r] = Append(trace[r], p) /\ pc'[r] = "loop"
        /\ attempts'[r] = attempts[r] /\ code'[r] = code[r]
    BY <1>3 DEF PostFails, RecordPost, AttemptFails, Goto, TypeOK, attempt
  <2> HIDE DEF p
  <2>3. \/ rows'[r] = rows[r]
        \/ rows'[r] = Append(rows[r], [attempt |-> attempts[r], code |-> code[r]])
    BY <1>3 DEF PostFails, AttemptFails, LogRow, TypeOK
  <2>4. LogAlone(r)
    BY <1>3 DEF PostFails, RecordPost, AttemptFails, LogRow, Goto, TypeOK, LogAlone, LogFacts, attempt
  <2>5. trace'[r] \in Seq(Post)
    BY <2>1, <2>2, LogShape
  <2>6. /\ RowsAgree(attempts[r] - 1, trace'[r], rows[r])
        /\ CodeOf(trace'[r], attempts[r], code[r])
    BY <1>2, <2>1, <2>2, LogShape, RowsKept, CodeKept
  <2>7. RowsAgree(attempts[r], trace'[r], rows'[r])
    BY <2>3, <2>5, <2>6, LogShape, RowsExtended
  <2>8. Logged(r)'
    BY <2>2, <2>7 DEF Logged, Busy, Answered
  <2> QED BY <2>4, <2>8
<1>4. CASE PostAnswered(r)
  <2>1. PICK rep \in Replies :
          /\ RecordPost(r, rep.code, rep.rectifiable, Retry(pc[r]))
          /\ code' = [code EXCEPT ![r] = rep.code]
          /\ Goto(r, IF Success(rep.code) THEN "body" ELSE "error")
    BY <1>4 DEF PostAnswered
  <2>2. rep.code \in Nat \ {0} /\ rep.rectifiable \in BOOLEAN
    BY RepliesAssumption DEF Reply
  <2> DEFINE p == [attempt |-> attempts[r], pos |-> pos[r], code |-> rep.code,
                   rectifiable |-> rep.rectifiable, retry |-> Retry(pc[r])]
  <2>3. p \in Post /\ p.attempt = attempts[r] /\ p.code = rep.code /\ p.code # 0
    BY <2>2 DEF Post, TypeOK, Retry
  <2>4. /\ trace'[r] = Append(trace[r], p) /\ pc'[r] \in {"body", "error"}
        /\ attempts'[r] = attempts[r] /\ code'[r] = rep.code /\ rows'[r] = rows[r]
    BY <1>4, <2>1 DEF PostAnswered, RecordPost, Goto, TypeOK
  <2> HIDE DEF p
  <2>5. LogAlone(r)
    BY <1>4, <2>1 DEF PostAnswered, RecordPost, Goto, TypeOK, LogAlone, LogFacts
  <2>6. RowsAgree(attempts[r] - 1, trace'[r], rows[r])
    BY <1>2, <2>3, <2>4, LogShape, RowsKept
  <2>7. CodeOf(trace'[r], attempts[r], rep.code)
    BY <2>3, <2>4, LogShape, CodeTaken
  <2>8. Logged(r)'
    BY <2>4, <2>6, <2>7 DEF Logged, Busy, Answered
  <2> QED BY <2>5, <2>8
<1> QED BY <1>3, <1>4

\* The deferred insert, on the way out of an attempt.
LEMMA LogEnds ==
  ASSUME TypeOK, NEW r \in Requests, LogRow(r), NEW l \in {"loop", "done"}, Goto(r, l),
         pc[r] \in Busy, UNCHANGED <<attempt, trace>>
  PROVE  Ends(r)
BY DEF LogRow, Goto, TypeOK, Ends, LogAlone, LogFacts, attempt, Busy, Answered

LEMMA LogSilent ==
  ASSUME TypeOK, NEW r \in Requests, NEW l, Goto(r, l), l \in Busy => pc[r] \in Busy,
         UNCHANGED <<attempt, trace, rows>>
  PROVE  Silent(r)
BY DEF Goto, TypeOK, Silent, LogAlone, LogFacts, attempt

LEMMA LogSteps ==
  ASSUME TypeOK, NEW r \in Requests, ReceiveRequest(r) \/ Progress(r) \/ StreamMore(r)
  PROVE  Silent(r) \/ Ends(r) \/ NextProvider(r) \/ PostFails(r) \/ PostAnswered(r)
<1> USE DEF Busy, Answered, loop
<1>1. CASE ReceiveRequest(r) \/ RefuseRequest(r) \/ ReadAttemptLimit(r) \/ AllFailed(r)
           \/ RectifyRequest(r) \/ SendRequest(r)
  BY <1>1, LogSilent
  DEF ReceiveRequest, RefuseRequest, ReadAttemptLimit, AllFailed, RectifyRequest, SendRequest, Sending
<1>2. CASE LoadProviders(r)
  BY <1>2, LogSilent DEF LoadProviders
<1>3. CASE TranslationFails(r) \/ PassBodyFails(r) \/ StreamFailsFirst(r) \/ AdaptBodyFails(r)
           \/ RectifyFails(r)
  BY <1>3, LogEnds
  DEF TranslationFails, PassBodyFails, StreamFailsFirst, AdaptBodyFails, Buffered, RectifyFails,
      AttemptFails
<1>4. CASE PassBody(r) \/ PassStreamSingleLine(r) \/ StreamEnds(r)
  BY <1>4, LogEnds DEF PassBody, PassStreamSingleLine, StreamEnds, AttemptServes
<1>5. CASE StreamFirst(r)
  <2>1. /\ pc[r] = "body" /\ UNCHANGED <<attempt, trace>>
        /\ (Goto(r, "stream") /\ UNCHANGED rows) \/ AttemptServes(r)
    BY <1>5 DEF StreamFirst
  <2> QED BY <2>1, LogEnds, LogSilent DEF AttemptServes
<1>6. CASE StreamMore(r)
  <2>1. /\ pc[r] = "stream" /\ UNCHANGED <<attempt, trace>>
        /\ (UNCHANGED <<pc, rows>>) \/ AttemptServes(r)
    BY <1>6 DEF StreamMore
  <2>2. UNCHANGED pc => Goto(r, "stream")
    BY <2>1 DEF Goto, TypeOK
  <2> QED BY <2>1, <2>2, LogEnds, LogSilent DEF AttemptServes
<1>7. CASE AdaptBody(r)
  <2>1. /\ pc[r] = "body" /\ UNCHANGED <<attempt, trace>>
        /\ AttemptFails(r) \/ AttemptServes(r)
    BY <1>7 DEF AdaptBody, Buffered
  <2> QED BY <2>1, LogEnds DEF AttemptServes, AttemptFails
<1>8. CASE ReturnUpstreamError(r)
  <2>1. /\ pc[r] = "error" /\ UNCHANGED <<attempt, trace>> /\ LogRow(r)
        /\ Goto(r, "done") \/ Goto(r, "loop")
    BY <1>8 DEF ReturnUpstreamError
  <2> QED BY <2>1, LogEnds
<1> QED
  BY <1>1, <1>2, <1>3, <1>4, <1>5, <1>6, <1>7, <1>8 DEF Progress

LogInv == \A r \in Requests : Logged(r)

LEMMA LogStep == Order /\ LogInv /\ [Next]_vars => LogInv'
<1> SUFFICES ASSUME Order, LogInv, [Next]_vars, NEW q \in Requests PROVE Logged(q)'
  BY DEF LogInv
<1>1. TypeOK /\ OrderInv(q) /\ Logged(q)
  BY DEF Order, LogInv
<1>2. CASE \E r \in Requests : ReceiveRequest(r) \/ Progress(r) \/ StreamMore(r)
  <2>1. PICK r \in Requests : ReceiveRequest(r) \/ Progress(r) \/ StreamMore(r)
    BY <1>2
  <2>2. OrderInv(r) /\ Logged(r)
    BY DEF Order, LogInv
  <2>3. LogAlone(r) /\ Logged(r)'
    <3>1. CASE Silent(r) \/ Ends(r)
      BY <1>1, <2>2, <3>1, SilentKeeps, EndsKeep DEF Silent, Ends
    <3>2. CASE NextProvider(r)
      BY <1>1, <2>2, <3>2, LogNext
    <3>3. CASE PostFails(r) \/ PostAnswered(r)
      BY <1>1, <2>2, <3>3, LogPosts
    <3> QED BY <1>1, <2>1, <3>1, <3>2, <3>3, LogSteps
  <2>4. CASE q = r
    BY <2>3, <2>4
  <2>5. CASE q # r
    <3>1. pc'[q] = pc[q] /\ LogFacts(q)' = LogFacts(q)
      BY <2>3, <2>5 DEF LogAlone
    <3> QED BY <1>1, <3>1, SameLog
  <2> QED BY <2>4, <2>5
<1>3. CASE SaveAppSettings \/ SaveProviders \/ UNCHANGED vars
  <2>1. pc'[q] = pc[q] /\ LogFacts(q)' = LogFacts(q)
    BY <1>3 DEF SaveAppSettings, SaveProviders, vars, LogFacts, attempt
  <2> QED BY <1>1, <2>1, SameLog
<1> QED BY <1>2, <1>3 DEF Next

\* What is logged is what went over the wire: each row is of an attempt of its
\* own, later than those before it, and has the status of the last response the
\* attempt got, a rectified retry included, or 0.
THEOREM LogMatchesTrafficHolds == Spec => []LogMatchesTraffic
<1>1. Init => LogInv
  <2> SUFFICES ASSUME Init, NEW r \in Requests PROVE Logged(r)
    BY DEF LogInv
  <2>1. pc[r] = "idle" /\ rows[r] = <<>> /\ Len(rows[r]) = 0
    BY DEF Init
  <2> QED BY <2>1 DEF Logged, RowsAgree, Busy, Answered
<1>2. Order /\ LogInv => LogMatchesTraffic
  <2> SUFFICES ASSUME Order, LogInv, NEW r \in Requests, NEW k \in 1..Len(rows[r])
               PROVE  LET row == rows[r][k]
                          got == {m \in 1..Len(trace[r]) :
                                    trace[r][m].attempt = row.attempt /\ trace[r][m].code # 0}
                      IN /\ \A m \in 1..(k - 1) : rows[r][m].attempt < row.attempt
                         /\ row.code = IF got = {} THEN 0
                                       ELSE trace[r][CHOOSE m \in got : \A l \in got : l <= m].code
    BY DEF LogMatchesTraffic
  <2>1. /\ \A m \in 1..(k - 1) : rows[r][m].attempt < rows[r][k].attempt
        /\ CodeOf(trace[r], rows[r][k].attempt, rows[r][k].code)
    BY DEF LogInv, Logged, RowsAgree
  <2> DEFINE row == rows[r][k]
             t == trace[r]
             got == {m \in 1..Len(t) : t[m].attempt = row.attempt /\ t[m].code # 0}
  <2>2. row.code = IF got = {} THEN 0 ELSE t[CHOOSE m \in got : \A l \in got : l <= m].code
    <3>0. CodeOf(t, row.attempt, row.code)
      BY <2>1
    <3> HIDE DEF row, t
    <3>1. CASE row.code = 0 /\ \A m \in 1..Len(t) : t[m].attempt = row.attempt => t[m].code = 0
      BY <3>1
    <3>2. CASE \E m \in 1..Len(t) :
                 /\ t[m].attempt = row.attempt /\ t[m].code = row.code /\ row.code # 0
                 /\ \A l \in 1..Len(t) : l > m /\ t[l].attempt = row.attempt => t[l].code = 0
      <4>1. PICK m \in 1..Len(t) :
              /\ t[m].attempt = row.attempt /\ t[m].code = row.code /\ row.code # 0
              /\ \A l \in 1..Len(t) : l > m /\ t[l].attempt = row.attempt => t[l].code = 0
        BY <3>2
      <4>2. m \in got /\ got \subseteq 1..Len(t) /\ \A l \in got : ~(l > m)
        BY <4>1
      <4> HIDE DEF got
      <4>3. \A l \in got : l <= m
        BY <4>2
      <4>4. \A n \in got : (\A l \in got : l <= n) => n = m
        BY <4>2, <4>3
      <4>5. (CHOOSE n \in got : \A l \in got : l <= n) = m
        BY <4>2, <4>3, <4>4
      <4> QED BY <4>1, <4>2, <4>5
    <3> QED BY <3>0, <3>1, <3>2 DEF CodeOf
  <2> QED BY <2>1, <2>2
<1> QED
  BY <1>1, <1>2, LogStep, OrderAlways, PTL DEF Spec

-----------------------------------------------------------------------------
(* The upstream error a client is told.                                    *)

\* The k-th POST is the last of its attempt, and was answered with an error.
EndsInError(t, k) ==
  /\ \A m \in (k + 1)..Len(t) : t[m].attempt # t[k].attempt
  /\ t[k].code # 0 /\ ~Success(t[k].code)

\* No attempt after up ended in an error; the one of POST last may yet go on.
ErrorsKept(t, up, last) ==
  \A k \in 1..Len(t) : EndsInError(t, k) => t[k].attempt <= up \/ k = last

\* A status that is set is of an attempt up to n that did not end in an error.
StatusSound(t, st, n) ==
  \/ st = Unset
  \/ st > Local /\ st <= n /\ \A k \in 1..Len(t) : t[k].attempt = st => ~EndsInError(t, k)

\* What LastUpstreamErrorKept says of status st when n attempts were made.
Told(t, st, n) ==
  /\ st = Local => \A k \in 1..Len(t) : EndsInError(t, k) => t[k].attempt \notin 1..n
  /\ st > Local /\ (\E k \in 1..Len(t) : EndsInError(t, k) /\ t[k].attempt = st) =>
       \A k \in 1..Len(t) : EndsInError(t, k) => t[k].attempt \notin (st + 1)..n

\* An attempt that may still ask has put no status of its own.
Asking == {"post", "sent", "rectify", "resent", "body", "error"}

Status(r) == w[r].hdr["Status"]

\* While an attempt is under way its own error is in nobody's hands; after it,
\* lastUpstreamErr is the latest one, and every header put aside is of a success.
Kept(r) ==
  /\ pc[r] \in Busy => attempts[r] > 0
  /\ lastUp[r] # NoError => "Status" \in lastUp[r].keys
  /\ req[r].json => ErrorsKept(trace[r], lastUp[r].attempt,
                               IF pc[r] \in {"error", "rectify", "resent"} THEN Len(trace[r]) ELSE 0)
  /\ ~w[r].broken /\ pc[r] # "done" =>
       StatusSound(trace[r], Status(r), IF pc[r] \in Asking THEN attempts[r] - 1 ELSE attempts[r])
  /\ ~w[r].broken /\ pc[r] = "done" /\ req[r].json => Told(trace[r], Status(r), attempts[r])

-----------------------------------------------------------------------------
(* POSTs.                                                                  *)

\* A POST ends no attempt in an error but its own.
LEMMA AppendedPost ==
  ASSUME NEW t \in Seq(Post), NEW p \in Post
  PROVE  /\ Len(t) \in Nat /\ Len(Append(t, p)) = Len(t) + 1 /\ Append(t, p)[Len(t) + 1] = p
         /\ EndsInError(Append(t, p), Len(t) + 1) <=> p.code # 0 /\ ~Success(p.code)
         /\ \A k \in 1..Len(t) :
              /\ Append(t, p)[k] = t[k] /\ t[k] \in Post
              /\ EndsInError(Append(t, p), k) <=> EndsInError(t, k) /\ t[k].attempt # p.attempt
<1> DEFINE u == Append(t, p)
<1>1. /\ Len(t) \in Nat /\ Len(u) = Len(t) + 1 /\ u[Len(t) + 1] = p
      /\ \A m \in 1..Len(t) : u[m] = t[m]
  BY AppendProperties
<1> HIDE DEF u
<1>2. EndsInError(u, Len(t) + 1) <=> p.code # 0 /\ ~Success(p.code)
  <2>1. \A m \in (Len(t) + 1 + 1)..Len(u) : FALSE
    BY <1>1
  <2> QED BY <1>1, <2>1 DEF EndsInError
<1>3. ASSUME NEW k \in 1..Len(t)
      PROVE  EndsInError(u, k) <=> EndsInError(t, k) /\ t[k].attempt # p.attempt
  <2>1. (k + 1)..Len(u) = (k + 1)..Len(t) \cup {Len(t) + 1}
    BY <1>1
  <2>2. u[k] = t[k] /\ \A m \in (k + 1)..Len(t) : u[m] = t[m]
    <3>1. \A m \in (k + 1)..Len(t) : m \in 1..Len(t)
      BY <1>1
    <3> QED BY <1>1, <3>1
  <2>3. (\A m \in (k + 1)..Len(u) : u[m].attempt # u[k].attempt)
          <=> (\A m \in (k + 1)..Len(t) : t[m].attempt # t[k].attempt) /\ p.attempt # t[k].attempt
    BY <1>1, <2>1, <2>2
  <2> QED BY <2>2, <2>3 DEF EndsInError
<1>4. \A k \in 1..Len(t) : t[k] \in Post
  OBVIOUS
<1> QED BY <1>1, <1>2, <1>3, <1>4 DEF u

\* The error of a response is the attempt's to keep; one that was being retried is replaced.
LEMMA ErrorsAfterPost ==
  ASSUME NEW t \in Seq(Post), NEW p \in Post, NEW up \in Nat, NEW last,
         ErrorsKept(t, up, last), \A k \in 1..Len(t) : k = last => t[k].attempt = p.attempt
  PROVE  /\ ErrorsKept(Append(t, p), up, Len(Append(t, p)))
         /\ p.code = 0 \/ Success(p.code) => ErrorsKept(Append(t, p), up, 0)
<1> DEFINE u == Append(t, p)
<1>1. /\ Len(t) \in Nat /\ Len(u) = Len(t) + 1
      /\ EndsInError(u, Len(t) + 1) <=> p.code # 0 /\ ~Success(p.code)
      /\ \A k \in 1..Len(t) : u[k] = t[k] /\ (EndsInError(u, k) <=> EndsInError(t, k) /\ t[k].attempt # p.attempt)
  BY AppendedPost
<1> HIDE DEF u
<1>2. \A k \in 1..Len(u) : k \in 1..Len(t) \/ k = Len(t) + 1
  BY <1>1
<1>3. \A k \in 1..Len(t) : EndsInError(u, k) => u[k].attempt <= up
  BY <1>1 DEF ErrorsKept
<1>4. \A k \in 1..Len(u) : EndsInError(u, k) => u[k].attempt <= up \/ k = Len(u)
  BY <1>1, <1>2, <1>3
<1>5. p.code = 0 \/ Success(p.code) => \A k \in 1..Len(u) : EndsInError(u, k) => u[k].attempt <= up
  BY <1>1, <1>2, <1>3
<1> QED BY <1>4, <1>5 DEF ErrorsKept, u

\* A POST of attempt n says nothing of the status of an earlier one.
LEMMA StatusAfterPost ==
  ASSUME NEW t \in Seq(Post), NEW p \in Post, NEW n \in Nat, p.attempt = n,
         NEW st \in Source, StatusSound(t, st, n - 1)
  PROVE  StatusSound(Append(t, p), st, n - 1)
<1> DEFINE u == Append(t, p)
<1>1. /\ Len(t) \in Nat /\ Len(u) = Len(t) + 1 /\ u[Len(t) + 1] = p
      /\ \A k \in 1..Len(t) : u[k] = t[k] /\ (EndsInError(u, k) <=> EndsInError(t, k) /\ t[k].attempt # p.attempt)
  BY AppendedPost
<1> HIDE DEF u
<1>2. \A k \in 1..Len(u) : k \in 1..Len(t) \/ k = Len(t) + 1
  BY <1>1
<1>3. CASE st = Unset
  BY <1>3 DEF StatusSound, u
<1>4. CASE st # Unset
  <2>1. st > Local /\ st <= n - 1 /\ \A k \in 1..Len(t) : t[k].attempt = st => ~EndsInError(t, k)
    BY <1>4 DEF StatusSound
  <2>2. st # n
    BY <1>4, <2>1 DEF Source
  <2>3. \A k \in 1..Len(u) : u[k].attempt = st => ~EndsInError(u, k)
    BY <1>1, <1>2, <2>1, <2>2
  <2> QED BY <2>1, <2>3 DEF StatusSound, u
<1> QED BY <1>3, <1>4

-----------------------------------------------------------------------------
(* Answers.                                                                *)

LEMMA SoundLater ==
  ASSUME NEW t, NEW n \in Nat, NEW st \in Source, StatusSound(t, st, n - 1)
  PROVE  StatusSound(t, st, n)
BY DEF StatusSound, Source, Unset

\* The status of a success, or none, is not that of an error.
LEMMA SoundIsTold ==
  ASSUME NEW t, NEW n \in Nat, NEW st \in Source, StatusSound(t, st, n)
  PROVE  Told(t, st, n)
BY DEF StatusSound, Told, Source, Unset, Local

\* So is that of lastUpstreamErr, once no attempt is under way.
LEMMA LastIsTold ==
  ASSUME NEW t \in Seq(Post), NEW n \in Nat, NEW up \in Nat, ErrorsKept(t, up, 0)
  PROVE  Told(t, up, n)
<1>1. \A k \in 1..Len(t) : t[k].attempt \in Nat
  <2>1. \A k \in 1..Len(t) : t[k] \in Post
    OBVIOUS
  <2> QED BY <2>1 DEF Post
<1>2. \A k \in 1..Len(t) : EndsInError(t, k) => t[k].attempt <= up
  BY DEF ErrorsKept
<1> QED BY <1>1, <1>2 DEF Told, Local

\* The attempt that ends with its last POST n answered by a success has no error.
LEMMA SuccessSound ==
  ASSUME NEW t \in Seq(Post), t # <<>>, NEW n \in Nat, n > 0, t[Len(t)].attempt = n, Success(t[Len(t)].code)
  PROVE  StatusSound(t, n, n)
<1>1. Len(t) \in Nat /\ Len(t) \in 1..Len(t)
  OBVIOUS
<1>2. ASSUME NEW k \in 1..Len(t), t[k].attempt = n PROVE ~EndsInError(t, k)
  <2>1. CASE k = Len(t)
    BY <2>1 DEF EndsInError
  <2>2. CASE k # Len(t)
    <3>1. Len(t) \in (k + 1)..Len(t)
      BY <1>1, <2>2
    <3> QED BY <1>2, <3>1 DEF EndsInError
  <2> QED BY <2>1, <2>2
<1> QED BY <1>2 DEF StatusSound, Local

\* The status after headers are put, and bytes written or not.
LEMMA StatusPut ==
  ASSUME NEW wr \in Writer, NEW keys, NEW src \in Nat,
         wr.written => wr.broken,
         NEW x \in Writes(PutHeaders(wr, keys, src), src) \cup {PutHeaders(wr, keys, src)}, ~x.broken
  PROVE  /\ ~wr.broken
         /\ x.hdr["Status"] = IF "Status" \in keys THEN src ELSE wr.hdr["Status"]
<1> DEFINE head == PutHeaders(wr, keys, src)
<1>1. head \in Writer /\ head.broken = wr.broken
  BY PutHeadersEffect
<1>2. ~wr.broken => head.hdr["Status"] = IF "Status" \in keys THEN src ELSE wr.hdr["Status"]
  BY DEF PutHeaders, HeaderKeys, Writer
<1> HIDE DEF head
<1>3. x.hdr = head.hdr /\ (head.broken => x = head)
  BY <1>1 DEF Writes, Delivered, Failed, Writer, head
<1> QED BY <1>1, <1>2, <1>3

-----------------------------------------------------------------------------
(* Each step keeps it.                                                     *)

KeptFacts(q) == <<req[q], attempts[q], lastUp[q], w[q], trace[q]>>

KeptAlone(r) == \A q \in Requests \ {r} : pc'[q] = pc[q] /\ KeptFacts(q)' = KeptFacts(q)

\* r goes on, perhaps with another writer: no POST, no new error.
Goes(r, l) ==
  /\ KeptAlone(r) /\ pc'[r] = l
  /\ req'[r] = req[r] /\ attempts'[r] = attempts[r] /\ lastUp'[r] = lastUp[r] /\ trace'[r] = trace[r]
  /\ l \in Busy => pc[r] \in Busy
  /\ req[r].json => (pc[r] \in {"error", "rectify", "resent"} <=> l \in {"error", "rectify", "resent"})
  /\ ~w'[r].broken /\ l # "done" =>
       StatusSound(trace[r], w'[r].hdr["Status"], IF l \in Asking THEN attempts[r] - 1 ELSE attempts[r])
  /\ ~w'[r].broken /\ l = "done" /\ req[r].json => Told(trace[r], w'[r].hdr["Status"], attempts[r])

LEMMA KeptShape ==
  ASSUME TypeOK, NEW r \in Requests
  PROVE  /\ trace[r] \in Seq(Post) /\ attempts[r] \in Nat
         /\ w[r] \in Writer
         /\ w' = w => w' = [w EXCEPT ![r] = w[r]]
         /\ Status(r) \in Source
         /\ lastUp[r] \in [attempt : Nat, keys : SUBSET HeaderKeys]
<1>1. w[r] \in Writer
  BY DEF TypeOK
<1>2. Status(r) \in Source
  BY <1>1 DEF Status, Writer, HeaderKeys
<1> QED BY <1>1, <1>2 DEF TypeOK

LEMMA GoesKeeps ==
  ASSUME NEW r \in Requests, Kept(r), NEW l, Goes(r, l)
  PROVE  Kept(r)'
BY DEF Goes, Kept, Status

LEMMA SameKept ==
  ASSUME NEW r \in Requests, Kept(r), pc'[r] = pc[r], KeptFacts(r)' = KeptFacts(r)
  PROVE  Kept(r)'
BY DEF Kept, KeptFacts, Status

\* An attempt that is over, or streams, with a status that is sound.
LEMMA GoesSoundly ==
  ASSUME TypeOK, NEW r \in Requests, NEW l \in {"loop", "stream", "done"}, Goto(r, l),
         NEW x \in Writer, w' = [w EXCEPT ![r] = x], UNCHANGED <<req, attempt, lastUp, trace>>,
         l = "stream" => pc[r] \in Busy,
         req[r].json => pc[r] \notin {"error", "rectify", "resent"},
         ~x.broken => StatusSound(trace[r], x.hdr["Status"], attempts[r])
  PROVE  Goes(r, l)
<1>1. /\ KeptAlone(r) /\ pc'[r] = l /\ w'[r] = x
      /\ req'[r] = req[r] /\ attempts'[r] = attempts[r] /\ lastUp'[r] = lastUp[r] /\ trace'[r] = trace[r]
  BY DEF Goto, TypeOK, KeptAlone, KeptFacts, attempt
<1>2. x.hdr["Status"] \in Source /\ attempts[r] \in Nat
  BY DEF TypeOK, Writer, HeaderKeys
<1>3. ~x.broken => Told(trace[r], x.hdr["Status"], attempts[r])
  BY <1>2, SoundIsTold
<1> QED BY <1>1, <1>3 DEF Goes, Busy, Answered, Asking

\* The headers put aside stay sound.
LEMMA StatusStaysSound ==
  ASSUME TypeOK, NEW r \in Requests, Kept(r), pc[r] # "done", ~w[r].broken
  PROVE  StatusSound(trace[r], Status(r), attempts[r])
BY KeptShape, SoundLater DEF Kept

\* An attempt that reads a 2xx body may put its own status.
LEMMA BodySound ==
  ASSUME TypeOK, NEW r \in Requests, Kept(r), OrderInv(r), WriterInv, pc[r] = "body", NEW keys,
         NEW x \in Writes(PutHeaders(w[r], keys, attempts[r]), attempts[r])
                     \cup {PutHeaders(w[r], keys, attempts[r])}
  PROVE  x \in Writer /\ (~x.broken => StatusSound(trace[r], x.hdr["Status"], attempts[r]))
<1>1. x \in Writer
  BY WriterSteps DEF AnswerFrom
<1>2. w[r] \in Writer /\ attempts[r] \in Nat
  BY KeptShape
<1>2a. w[r].written => w[r].broken
  BY DEF WriterInv
<1>3. ASSUME ~x.broken
      PROVE  ~w[r].broken /\ x.hdr["Status"] = IF "Status" \in keys THEN attempts[r] ELSE w[r].hdr["Status"]
  BY <1>2, <1>2a, <1>3, StatusPut
<1>4. ~w[r].broken => StatusSound(trace[r], Status(r), attempts[r])
  BY StatusStaysSound
<1>5. StatusSound(trace[r], attempts[r], attempts[r])
  <2>1. trace[r] # <<>> /\ LastPost(r).attempt = attempts[r] /\ Success(LastPost(r).code)
    BY DEF OrderInv, Current, Answered
  <2>2. attempts[r] > 0
    BY DEF Kept, Busy, Answered
  <2> QED BY <2>1, <2>2, KeptShape, SuccessSound DEF LastPost
<1> QED BY <1>1, <1>3, <1>4, <1>5 DEF Status

LEMMA OutcomeSteps ==
  ASSUME TypeOK, NEW r \in Requests, Kept(r), OrderInv(r), WriterInv,
         \/ TranslationFails(r) \/ PassBodyFails(r) \/ PassBody(r)
         \/ StreamFailsFirst(r) \/ PassStreamSingleLine(r) \/ StreamFirst(r)
         \/ StreamMore(r) \/ StreamEnds(r) \/ AdaptBodyFails(r) \/ AdaptBody(r) \/ RectifyFails(r)
  PROVE  \E l : Goes(r, l)
<1>1. ASSUME NEW l \in {"loop", "done", "stream"}, Goto(r, l), w' = w,
             UNCHANGED <<req, attempt, lastUp, trace>>, pc[r] \in {"post", "body", "stream"}
      PROVE  Goes(r, l)
  <2>1. w[r] \in Writer /\ w' = [w EXCEPT ![r] = w[r]]
    BY <1>1, KeptShape
  <2>2. ~w[r].broken => StatusSound(trace[r], w[r].hdr["Status"], attempts[r])
    BY <1>1, StatusStaysSound DEF Status
  <2> QED BY <1>1, <2>1, <2>2, GoesSoundly DEF Busy, Answered
<1>2. ASSUME NEW l \in {"loop", "done", "stream"}, Goto(r, l), NEW keys, pc[r] = "body",
             UNCHANGED <<req, attempt, lastUp, trace>>,
             NEW x \in Writes(PutHeaders(w[r], keys, attempts[r]), attempts[r])
                         \cup {PutHeaders(w[r], keys, attempts[r])}, w' = [w EXCEPT ![r] = x]
      PROVE  Goes(r, l)
  BY <1>2, BodySound, GoesSoundly DEF Busy, Answered
<1>3. CASE TranslationFails(r) \/ AdaptBodyFails(r)
  BY <1>1, <1>3 DEF TranslationFails, AdaptBodyFails, Buffered, AttemptFails
<1>4. CASE StreamEnds(r)
  BY <1>1, <1>4 DEF StreamEnds, AttemptServes
<1>5. CASE PassBodyFails(r)
  BY <1>2, <1>5 DEF PassBodyFails, AttemptFails
<1>6. CASE PassBody(r)
  BY <1>2, <1>6 DEF PassBody, AttemptServes
<1>7. CASE StreamFailsFirst(r)
  BY <1>1, <1>2, <1>7 DEF StreamFailsFirst, AttemptFails
<1>8. CASE PassStreamSingleLine(r)
  BY <1>2, <1>8 DEF PassStreamSingleLine, AttemptServes
<1>9. CASE StreamFirst(r)
  BY <1>2, <1>9 DEF StreamFirst, AttemptServes
<1>10. CASE StreamMore(r)
  <2>1. PICK x \in Writes(w[r], attempts[r]) :
          /\ w' = [w EXCEPT ![r] = x]
          /\ UNCHANGED pc \/ AttemptServes(r)
    BY <1>10 DEF StreamMore
  <2>2. pc[r] = "stream" /\ UNCHANGED <<req, attempt, lastUp, trace>>
    BY <1>10 DEF StreamMore, AttemptServes
  <2>3. ~w[r].broken
    BY <2>2 DEF WriterInv
  <2>4. x \in Writer /\ x.hdr = w[r].hdr
    <3>1. w[r] \in Writer /\ attempts[r] \in Nat
      BY KeptShape
    <3>2. x \in Writer
      BY <3>1, WritesEffect
    <3>3. x.hdr = w[r].hdr
      BY <3>1 DEF Writes, Delivered, Failed, Writer
    <3> QED BY <3>2, <3>3
  <2>5. StatusSound(trace[r], x.hdr["Status"], attempts[r])
    BY <2>2, <2>3, <2>4, StatusStaysSound DEF Status
  <2>6. Goto(r, "stream") \/ Goto(r, "done")
    BY <2>1, <2>2 DEF Goto, TypeOK, AttemptServes
  <2> QED BY <2>1, <2>2, <2>4, <2>5, <2>6, GoesSoundly DEF Busy, Answered
<1>11. CASE AdaptBody(r)
  BY <1>2, <1>11 DEF AdaptBody, Buffered, AttemptServes, AttemptFails
<1>12. CASE RectifyFails(r)
  <2>1. /\ Goto(r, "loop") /\ w' = w /\ UNCHANGED <<req, attempt, lastUp, trace>>
        /\ pc[r] = "error" /\ ~req[r].json
    BY <1>12 DEF RectifyFails, AttemptFails
  <2>2. w[r] \in Writer /\ w' = [w EXCEPT ![r] = w[r]]
    BY <2>1, KeptShape
  <2>3. ~w[r].broken => StatusSound(trace[r], w[r].hdr["Status"], attempts[r])
    BY <2>1, StatusStaysSound DEF Status
  <2> QED BY <2>1, <2>2, <2>3, GoesSoundly
<1> QED
  BY <1>3, <1>4, <1>5, <1>6, <1>7, <1>8, <1>9, <1>10, <1>11, <1>12

\* The answer to a request of which every attempt failed.
LEMMA FailedAnswer ==
  ASSUME TypeOK, NEW r \in Requests, Kept(r), WriterInv, AllFailed(r), req[r].json
  PROVE  ~w'[r].broken => Told(trace[r], w'[r].hdr["Status"], attempts[r])
<1>1. pc[r] = "loop" /\ w[r] \in Writer /\ attempts[r] \in Nat /\ trace[r] \in Seq(Post)
  BY KeptShape DEF AllFailed
<1>2. ErrorsKept(trace[r], lastUp[r].attempt, 0)
  BY <1>1 DEF Kept
<1>3. w[r].written => w[r].broken
  BY <1>1 DEF WriterInv
<1>4. lastUp[r].attempt \in Nat
  BY KeptShape
<1>5. Told(trace[r], lastUp[r].attempt, attempts[r])
  BY <1>1, <1>2, <1>4, LastIsTold
<1>6. CASE lastUp[r] = NoError
  <2>1. PICK x \in Writes(PutLocalHeaders(w[r]), Local) : w' = [w EXCEPT ![r] = x]
    BY <1>6 DEF AllFailed, LocalErrorAnswer
  <2>2. w'[r] = x /\ lastUp[r].attempt = Local
    BY <1>6, <2>1 DEF TypeOK, NoError
  <2> DEFINE keys == {"Status"} \cup {k \in {"Content-Type"} : w[r].hdr["Content-Type"] = Unset}
  <2>3. x \in Writes(PutHeaders(w[r], keys, Local), Local) /\ "Status" \in keys /\ Local \in Nat
    BY <2>1 DEF PutLocalHeaders, Local
  <2> HIDE DEF keys
  <2>4. ~x.broken => x.hdr["Status"] = Local
    BY <1>1, <1>3, <2>3, StatusPut
  <2> QED BY <1>5, <2>2, <2>4
<1>7. CASE lastUp[r] # NoError
  <2> DEFINE err == lastUp[r]
  <2>1. PICK x \in Writes(PutHeaders(w[r], err.keys, err.attempt), err.attempt)
                   \cup {PutHeaders(w[r], err.keys, err.attempt)} : w' = [w EXCEPT ![r] = x]
    BY <1>7 DEF AllFailed, UpstreamErrorAnswer
  <2>2. w'[r] = x /\ "Status" \in err.keys
    BY <1>7, <2>1 DEF TypeOK, Kept
  <2> HIDE DEF err
  <2>3. ~x.broken => x.hdr["Status"] = err.attempt
    BY <1>1, <1>3, <1>4, <2>1, <2>2, StatusPut DEF err
  <2> QED BY <1>5, <2>2, <2>3 DEF err
<1> QED BY <1>6, <1>7

LEMMA AnswerSteps ==
  ASSUME TypeOK, NEW r \in Requests, Kept(r), WriterInv,
         AllFailed(r) \/ RectifyRequest(r) \/ SendRequest(r)
  PROVE  \E l : Goes(r, l)
<1>1. CASE AllFailed(r)
  <2>1. /\ Goto(r, "done") /\ pc[r] = "loop"
        /\ UNCHANGED <<req, attempt, lastUp, trace>>
    BY <1>1 DEF AllFailed
  <2>2. \E x \in Writer : w' = [w EXCEPT ![r] = x]
    <3>1. lastUp[r] \in [attempt : Nat, keys : SUBSET HeaderKeys]
      BY KeptShape
    <3> QED BY <1>1, <3>1, LocalErrorEffect, UpstreamErrorEffect DEF AllFailed
  <2>3. req[r].json /\ ~w'[r].broken => Told(trace[r], w'[r].hdr["Status"], attempts[r])
    BY <1>1, FailedAnswer
  <2>4. /\ KeptAlone(r) /\ pc'[r] = "done"
        /\ req'[r] = req[r] /\ attempts'[r] = attempts[r] /\ lastUp'[r] = lastUp[r] /\ trace'[r] = trace[r]
    BY <2>1, <2>2 DEF Goto, TypeOK, KeptAlone, KeptFacts, attempt
  <2>5. Goes(r, "done")
    BY <2>1, <2>3, <2>4 DEF Goes, Busy, Answered
  <2> QED BY <2>5
<1>2. CASE RectifyRequest(r)
  <2>1. /\ Goto(r, "rectify") /\ pc[r] = "error"
        /\ UNCHANGED <<req, attempt, lastUp, trace, w>>
    BY <1>2 DEF RectifyRequest
  <2>2. /\ KeptAlone(r) /\ pc'[r] = "rectify"
        /\ req'[r] = req[r] /\ attempts'[r] = attempts[r] /\ lastUp'[r] = lastUp[r] /\ trace'[r] = trace[r]
    BY <2>1 DEF Goto, TypeOK, KeptAlone, KeptFacts, attempt
  <2>3. ~w'[r].broken => StatusSound(trace[r], w'[r].hdr["Status"], attempts[r] - 1)
    BY <2>1 DEF Kept, Status, Asking
  <2>4. Goes(r, "rectify")
    BY <2>1, <2>2, <2>3 DEF Goes, Busy, Answered, Asking
  <2> QED BY <2>4
<1>3. CASE SendRequest(r)
  <2> DEFINE l == IF Retry(pc[r]) THEN "resent" ELSE "sent"
  <2>1. /\ Goto(r, l) /\ pc[r] \in {"post", "rectify"} /\ UNCHANGED <<req, attempt, lastUp, trace, w>>
        /\ l = IF pc[r] = "rectify" THEN "resent" ELSE "sent"
    BY <1>3 DEF SendRequest, Sending, Retry
  <2> HIDE DEF l
  <2>2. /\ KeptAlone(r) /\ pc'[r] = l
        /\ req'[r] = req[r] /\ attempts'[r] = attempts[r] /\ lastUp'[r] = lastUp[r] /\ trace'[r] = trace[r]
    BY <2>1 DEF Goto, TypeOK, KeptAlone, KeptFacts, attempt
  <2>3. ~w'[r].broken => StatusSound(trace[r], w'[r].hdr["Status"], attempts[r] - 1)
    BY <2>1 DEF Kept, Status, Asking
  <2>4. Goes(r, l)
    BY <2>1, <2>2, <2>3 DEF Goes, Busy, Answered, Asking
  <2> QED BY <2>4
<1> QED BY <1>1, <1>2, <1>3

\* An error becomes lastUpstreamErr, and is passed on at once if it is final.
LEMMA ErrorStep ==
  ASSUME TypeOK, NEW r \in Requests, Kept(r), OrderInv(r), WriterInv, ReturnUpstreamError(r)
  PROVE  KeptAlone(r) /\ Kept(r)'
<1> DEFINE err == [attempt |-> attempts[r], keys |-> ErrorKeys(r)]
<1>1. /\ pc[r] = "error" /\ lastUp' = [lastUp EXCEPT ![r] = err]
      /\ UNCHANGED <<req, attempt, trace>>
      /\ \/ UpstreamErrorAnswer(r, err) /\ Goto(r, "done")
         \/ Goto(r, "loop") /\ UNCHANGED w
  BY DEF ReturnUpstreamError
<1>2. w[r] \in Writer /\ attempts[r] \in Nat /\ trace[r] \in Seq(Post)
  BY KeptShape
<1>3. err \in [attempt : Nat, keys : SUBSET HeaderKeys] /\ "Status" \in err.keys
      /\ err # NoError /\ err.attempt = attempts[r]
  <2>1. ErrorKeys(r) \in SUBSET HeaderKeys /\ "Status" \in ErrorKeys(r)
    BY DEF ErrorKeys, TypeOK, Reply, HeaderKeys
  <2>2. err.keys = ErrorKeys(r) /\ err.attempt = attempts[r]
    OBVIOUS
  <2> QED BY <1>2, <2>1, <2>2 DEF NoError
<1> HIDE DEF err
<1>4. /\ req'[r] = req[r] /\ attempts'[r] = attempts[r] /\ trace'[r] = trace[r] /\ lastUp'[r] = err
  BY <1>1 DEF TypeOK, attempt
<1>5. \E x \in Writer : w' = [w EXCEPT ![r] = x]
  BY <1>1, <1>3, KeptShape, UpstreamErrorEffect
<1>6. KeptAlone(r) /\ pc'[r] \in {"done", "loop"}
  BY <1>1, <1>5 DEF Goto, TypeOK, KeptAlone, KeptFacts, attempt
<1>7. ErrorsKept(trace[r], attempts[r], 0)
  <2>1. \A k \in 1..Len(trace[r]) : trace[r][k].attempt <= attempts[r]
    BY DEF OrderInv, Numbered
  <2> QED BY <2>1 DEF ErrorsKept
<1>8. pc'[r] = "loop" /\ ~w'[r].broken => StatusSound(trace[r], w'[r].hdr["Status"], attempts[r])
  <2>1. pc'[r] = "loop" => w' = w
    BY <1>1 DEF Goto, TypeOK
  <2>2. ~w[r].broken => StatusSound(trace[r], Status(r), attempts[r])
    BY <1>1, StatusStaysSound
  <2> QED BY <2>1, <2>2 DEF Status
<1>9. pc'[r] = "done" /\ ~w'[r].broken => w'[r].hdr["Status"] = attempts[r]
  <2> SUFFICES ASSUME pc'[r] = "done", ~w'[r].broken PROVE w'[r].hdr["Status"] = attempts[r]
    OBVIOUS
  <2>1. UpstreamErrorAnswer(r, err)
    BY <1>1 DEF Goto, TypeOK
  <2>2. PICK x \in Writes(PutHeaders(w[r], err.keys, err.attempt), err.attempt)
                   \cup {PutHeaders(w[r], err.keys, err.attempt)} : w' = [w EXCEPT ![r] = x]
    BY <2>1 DEF UpstreamErrorAnswer
  <2>3. w'[r] = x
    BY <2>2 DEF TypeOK
  <2>4. w[r].written => w[r].broken
    BY <1>1 DEF WriterInv
  <2>5. err.attempt \in Nat /\ "Status" \in err.keys
    BY <1>2, <1>3
  <2>6. ~x.broken
    BY <2>3
  <2>7. x.hdr["Status"] = err.attempt
    BY <1>2, <2>2, <2>4, <2>5, <2>6, StatusPut
  <2> QED BY <1>3, <2>3, <2>7
<1>10. Told(trace[r], attempts[r], attempts[r])
  BY <1>2, <1>7, LastIsTold
<1>11. Kept(r)'
  BY <1>3, <1>4, <1>6, <1>7, <1>8, <1>9, <1>10 DEF Kept, Status, Busy, Answered, Asking
<1> QED BY <1>6, <1>11

LEMMA KeptNext ==
  ASSUME TypeOK, NEW r \in Requests, Kept(r), NextProvider(r)
  PROVE  KeptAlone(r) /\ Kept(r)'
<1>1. /\ pc[r] = "loop" /\ pc'[r] \in {"post", "loop"} /\ attempts'[r] = attempts[r] + 1
      /\ req'[r] = req[r] /\ trace'[r] = trace[r] /\ lastUp'[r] = lastUp[r] /\ w'[r] = w[r]
  BY DEF NextProvider, Goto, TypeOK
<1>2. KeptAlone(r)
  BY DEF NextProvider, Goto, TypeOK, KeptAlone, KeptFacts
<1>3. attempts[r] \in Nat
  BY KeptShape
<1>4. attempts'[r] - 1 = attempts[r] /\ attempts'[r] \in Nat /\ attempts'[r] > 0
  BY <1>1, <1>3
<1>5. ~w[r].broken => /\ StatusSound(trace[r], Status(r), attempts'[r] - 1)
                      /\ StatusSound(trace[r], Status(r), attempts'[r])
  <2>1. ~w[r].broken => StatusSound(trace[r], Status(r), attempts'[r] - 1)
    BY <1>1, <1>4, StatusStaysSound
  <2> QED BY <1>4, <2>1, KeptShape, SoundLater
<1>6. Kept(r)'
  BY <1>1, <1>4, <1>5 DEF Kept, Status, Asking
<1> QED BY <1>2, <1>6

LEMMA KeptPosts ==
  ASSUME TypeOK, NEW r \in Requests, Kept(r), OrderInv(r), PostFails(r) \/ PostAnswered(r)
  PROVE  KeptAlone(r) /\ Kept(r)'
<1>1. PICK c \in Nat : Posts(r, c)
  BY PostSteps
<1>2. PICK p \in Post :
        /\ trace'[r] = Append(trace[r], p) /\ p.attempt = attempts[r] /\ p.code = c
        /\ \/ c = 0 /\ pc'[r] = "loop"
           \/ c # 0 /\ pc'[r] = IF Success(c) THEN "body" ELSE "error"
  BY <1>1 DEF Posts
<1>3. /\ req'[r] = req[r] /\ attempts'[r] = attempts[r] /\ lastUp' = lastUp /\ w' = w
      /\ pc[r] \in Sending \cup Sent
  BY DEF PostFails, PostAnswered, AttemptFails, attempt
<1>4. KeptAlone(r)
  BY <1>1, <1>3 DEF Posts, Alone, Facts, KeptAlone, KeptFacts
<1>5. /\ trace[r] \in Seq(Post) /\ attempts[r] \in Nat /\ Status(r) \in Source
      /\ lastUp[r].attempt \in Nat
  BY KeptShape
<1>6. attempts[r] > 0
  BY <1>3 DEF Kept, Busy, Answered, Sending, Sent
<1>7. req[r].json =>
        /\ ErrorsKept(trace'[r], lastUp[r].attempt, Len(trace'[r]))
        /\ c = 0 \/ Success(c) => ErrorsKept(trace'[r], lastUp[r].attempt, 0)
  <2> DEFINE last == IF pc[r] \in {"error", "rectify", "resent"} THEN Len(trace[r]) ELSE 0
  <2>1. req[r].json => ErrorsKept(trace[r], lastUp[r].attempt, last)
    BY DEF Kept
  <2>2. \A k \in 1..Len(trace[r]) : k = last => trace[r][k].attempt = p.attempt
    <3>1. Retry(pc[r]) => trace[r][Len(trace[r])].attempt = attempts[r]
      BY DEF OrderInv, Current, Answered, LastPost, Retry
    <3> QED BY <1>2, <1>3, <3>1 DEF Retry, Sending, Sent
  <2> HIDE DEF last
  <2> QED BY <1>2, <1>5, <2>1, <2>2, ErrorsAfterPost
<1>8. ~w[r].broken => /\ StatusSound(trace'[r], Status(r), attempts[r] - 1)
                      /\ StatusSound(trace'[r], Status(r), attempts[r])
  <2>1. ~w[r].broken => StatusSound(trace[r], Status(r), attempts[r] - 1)
    BY <1>3 DEF Kept, Asking, Sending, Sent
  <2>2. ~w[r].broken => StatusSound(trace'[r], Status(r), attempts[r] - 1)
    BY <1>2, <1>5, <2>1, StatusAfterPost
  <2> QED BY <1>5, <2>2, SoundLater
<1>9. Kept(r)'
  BY <1>2, <1>3, <1>6, <1>7, <1>8 DEF Kept, Status, Busy, Answered, Asking
<1> QED BY <1>4, <1>9

\* Before its first attempt a request has no POST, and nothing to tell.
LEMMA KeptStarts ==
  ASSUME TypeOK, NEW r \in Requests, Kept(r), OrderInv(r),
         ReceiveRequest(r) \/ RefuseRequest(r) \/ LoadProviders(r) \/ ReadAttemptLimit(r)
  PROVE  KeptAlone(r) /\ Kept(r)'
<1>1. trace[r] = <<>> /\ attempts[r] = 0 /\ pc[r] \in Waiting
  BY DEF OrderInv, Walk, ReceiveRequest, RefuseRequest, LoadProviders, ReadAttemptLimit, Waiting
<1>2. /\ trace'[r] = <<>> /\ attempts'[r] = 0 /\ lastUp'[r] = lastUp[r]
      /\ pc'[r] \in {"received", "loaded", "loop", "done"}
      /\ pc'[r] # "done" => w'[r] = w[r]
  BY <1>1
  DEF ReceiveRequest, RefuseRequest, LoadProviders, ReadAttemptLimit, Goto, TypeOK, attempt
<1>3. KeptAlone(r)
  BY DEF ReceiveRequest, RefuseRequest, LoadProviders, ReadAttemptLimit, LocalErrorAnswer, Goto, TypeOK,
         attempt, KeptAlone, KeptFacts
<1>4. Len(trace'[r]) = 0
  BY <1>2
<1>5. ~w[r].broken => StatusSound(trace[r], Status(r), attempts[r])
  BY <1>1 DEF Kept, Waiting, Asking
<1>6. Kept(r)'
  BY <1>1, <1>2, <1>4, <1>5 DEF Kept, ErrorsKept, Told, Status, Busy, Answered, Asking
<1> QED BY <1>3, <1>6

KeptInv == \A r \in Requests : Kept(r)

LEMMA KeptStep == Order /\ WriterInv /\ KeptInv /\ [Next]_vars => KeptInv'
<1> SUFFICES ASSUME Order, WriterInv, KeptInv, [Next]_vars, NEW q \in Requests PROVE Kept(q)'
  BY DEF KeptInv
<1>1. TypeOK /\ Kept(q)
  BY DEF Order, KeptInv
<1>2. CASE \E r \in Requests : ReceiveRequest(r) \/ Progress(r) \/ StreamMore(r)
  <2>1. PICK r \in Requests : ReceiveRequest(r) \/ Progress(r) \/ StreamMore(r)
    BY <1>2
  <2>2. OrderInv(r) /\ Kept(r)
    BY DEF Order, KeptInv
  <2>3. KeptAlone(r) /\ Kept(r)'
    <3>1. CASE \/ TranslationFails(r) \/ PassBodyFails(r) \/ PassBody(r)
               \/ StreamFailsFirst(r) \/ PassStreamSingleLine(r) \/ StreamFirst(r)
               \/ StreamMore(r) \/ StreamEnds(r) \/ AdaptBodyFails(r) \/ AdaptBody(r)
               \/ RectifyFails(r) \/ AllFailed(r) \/ RectifyRequest(r) \/ SendRequest(r)
      <4>1. PICK l : Goes(r, l)
        BY <1>1, <2>2, <3>1, OutcomeSteps, AnswerSteps
      <4> QED BY <2>2, <4>1, GoesKeeps DEF Goes
    <3>2. CASE ReceiveRequest(r) \/ RefuseRequest(r) \/ LoadProviders(r) \/ ReadAttemptLimit(r)
      BY <1>1, <2>2, <3>2, KeptStarts
    <3>3. CASE NextProvider(r)
      BY <1>1, <2>2, <3>3, KeptNext
    <3>4. CASE PostFails(r) \/ PostAnswered(r)
      BY <1>1, <2>2, <3>4, KeptPosts
    <3>5. CASE ReturnUpstreamError(r)
      BY <1>1, <2>2, <3>5, ErrorStep
    <3> QED BY <2>1, <3>1, <3>2, <3>3, <3>4, <3>5 DEF Progress
  <2>4. CASE q = r
    BY <2>3, <2>4
  <2>5. CASE q # r
    <3>1. pc'[q] = pc[q] /\ KeptFacts(q)' = KeptFacts(q)
      BY <2>3, <2>5 DEF KeptAlone
    <3> QED BY <1>1, <3>1, SameKept
  <2> QED BY <2>4, <2>5
<1>3. CASE SaveAppSettings \/ SaveProviders \/ UNCHANGED vars
  <2>1. pc'[q] = pc[q] /\ KeptFacts(q)' = KeptFacts(q)
    BY <1>3 DEF SaveAppSettings, SaveProviders, vars, KeptFacts, attempt
  <2> QED BY <1>1, <2>1, SameKept
<1> QED BY <1>2, <1>3 DEF Next

\* An answered client is told the latest upstream error: the relay's own message
\* only if no attempt ended in one, and never an error older than another's,
\* whatever headers an abandoned attempt had put aside.
THEOREM LastErrorKept == Spec => []LastUpstreamErrorKept
<1>1. Init => KeptInv
  <2> SUFFICES ASSUME Init, NEW r \in Requests PROVE Kept(r)
    BY DEF KeptInv
  <2>1. /\ pc[r] = "idle" /\ Len(trace[r]) = 0 /\ lastUp[r] = NoError
        /\ w[r].hdr["Status"] = Unset
    BY DEF Init, HeaderKeys
  <2> QED BY <2>1 DEF Kept, ErrorsKept, StatusSound, Status, Busy, Answered
<1>2. Order /\ KeptInv => LastUpstreamErrorKept
  <2> SUFFICES ASSUME Order, KeptInv, NEW r \in Requests,
                      pc[r] = "done" /\ ~w[r].broken /\ req[r].json
               PROVE  /\ Status(r) = Local => \A n \in 1..attempts[r] : ~EndedInError(r, n)
                      /\ Status(r) > Local /\ EndedInError(r, Status(r)) =>
                           \A n \in (Status(r) + 1)..attempts[r] : ~EndedInError(r, n)
    BY DEF LastUpstreamErrorKept, Status
  <2>1. Told(trace[r], Status(r), attempts[r])
    BY DEF KeptInv, Kept
  <2>2. ASSUME NEW n
        PROVE  EndedInError(r, n) <=>
                 \E k \in 1..Len(trace[r]) : EndsInError(trace[r], k) /\ trace[r][k].attempt = n
    BY DEF EndedInError, EndsInError, LastOf
  <2> QED BY <2>1, <2>2 DEF Told
<1> QED
  BY <1>1, <1>2, KeptStep, OrderAlways, WriterInvariant, PTL DEF Spec

=============================================================================
