-------------------------- MODULE MCProviderRelay --------------------------
EXTENDS ProviderRelay

Mapped   == [usable |-> TRUE, supports |-> TRUE, mapped |-> TRUE, deepseek |-> FALSE]
DeepSeek == [Mapped EXCEPT !.mapped = FALSE, !.deepseek = TRUE]
Foreign  == [Mapped EXCEPT !.supports = FALSE]
Off      == [Mapped EXCEPT !.usable = FALSE]

\* Two active providers, the first of which is adapted, behind one that does not
\* support the model; and a list saved over it that has none.
MCCatalogs == {<<Foreign, DeepSeek, Mapped>>, <<Off>>}

\* A single attempt without the rectifier, and a file that cannot be read: all
\* attempts and the rectifier.
MCSettings ==
  {[readable |-> TRUE, fallback |-> TRUE, max |-> 1, rectifier |-> FALSE],
   [readable |-> FALSE, fallback |-> FALSE, max |-> 0, rectifier |-> FALSE]}

Entity == {"Content-Type", "Content-Length"}

MCReplies ==
  {[code |-> 200, sse |-> FALSE, keys |-> Entity, rectifiable |-> FALSE],
   [code |-> 200, sse |-> TRUE, keys |-> {"Content-Type"}, rectifiable |-> FALSE],
   [code |-> 400, sse |-> FALSE, keys |-> Entity, rectifiable |-> TRUE],
   [code |-> 429, sse |-> FALSE, keys |-> {"Content-Type"}, rectifiable |-> FALSE]}
============================================================================
