---------------------------- MODULE MCRequestLog ----------------------------
EXTENDS RequestLog, TLC

Stream(lines, billed) == [code |-> 200, sse |-> TRUE, lines |-> lines, billed |-> billed, rectifiable |-> FALSE]
Body(line, billed) == [Stream(<<line>>, billed) EXCEPT !.sse = FALSE]
Error(code, size, rectifiable) ==
  [code |-> code, sse |-> FALSE, lines |-> <<Line(size, "none", NoTokens)>>, billed |-> NoTokens,
   rectifiable |-> rectifiable]
Plan(platform, provider, stream, request, answers) ==
  [platform |-> platform, provider |-> provider, adapted |-> FALSE, stream |-> stream, request |-> request,
   answers |-> answers]
Adapted(p) == [p EXCEPT !.adapted = TRUE]

\* Claude tells what went in at the start, and what came out at the start and the end.
ClaudeStream ==
  Stream(<<Line(1, "message", Tokens(2, 1, 1)), Line(1, "none", NoTokens), Line(1, "top", Tokens(0, 3, 0))>>,
         Tokens(2, 3, 1))
CodexStream == Stream(<<Line(2, "none", NoTokens), Line(1, "response", Tokens(2, 1, 1))>>, Tokens(2, 1, 1))
Usage(size) == Line(size, "chat", Tokens(1, 2, 1))

BodyPlans ==
  {Plan("claude", "p", TRUE, 3, {ClaudeStream, Error(400, 3, TRUE), Error(500, 1, FALSE)}),
   Plan("claude", "p", FALSE, 1, {Body(Line(2, "top", Tokens(1, 1, 1)), Tokens(1, 1, 1))}),
   Plan("codex", "p", TRUE, 1, {CodexStream, Error(500, 3, FALSE)}),
   Plan("codex", "p", FALSE, 1, {Body(Line(3, "top", Tokens(2, 1, 1)), Tokens(2, 1, 1)), Body(Usage(1), Tokens(1, 2, 1))}),
   Adapted(Plan("codex", "p", TRUE, 1,
     {Stream(<<Line(1, "none", NoTokens), Usage(2)>>, Tokens(1, 2, 1)), Body(Usage(3), Tokens(1, 2, 1)),
      Stream(<<Line(1, "chat", Tokens(1, 0, 1)), Usage(0)>>, Tokens(1, 2, 1)), Error(429, 3, FALSE)})),
   Adapted(Plan("codex", "p", FALSE, 3, {Body(Usage(1), Tokens(1, 2, 1))}))}

PairPlans ==
  {Plan("claude", "p", FALSE, 3, {Error(400, 3, TRUE)}), Plan("codex", "p", TRUE, 1, {CodexStream})}

DayPlans ==
  {Plan("claude", "p", FALSE, 1, {Body(Line(1, "top", Tokens(1, 1, 0)), Tokens(1, 1, 0))}),
   Plan("codex", "q", FALSE, 1, {Error(500, 1, FALSE)})}

MCSettings == {NoSettings, [capture |-> TRUE, max |-> 2], [capture |-> TRUE, max |-> 0]}

\* One attempt after another, of all kinds; two at a time, with the settings changed; rows of three days.
MCWorkloads ==
  {[zone |-> 0, hours |-> 0, attempts |-> 1, atOnce |-> 1, changes |-> 1, plans |-> BodyPlans, settings |-> MCSettings],
   [zone |-> 0, hours |-> 0, attempts |-> 2, atOnce |-> 2, changes |-> 1, plans |-> PairPlans,
    settings |-> {NoSettings, [capture |-> TRUE, max |-> 2]}]}
  \cup
  {[zone |-> z, hours |-> 9, attempts |-> 2, atOnce |-> 1, changes |-> 0, plans |-> DayPlans,
    settings |-> {NoSettings}] : z \in -2..3}

\* Slots are alike.
Symmetry == Permutations(Slots)
=============================================================================
