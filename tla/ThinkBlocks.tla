---------------------------- MODULE ThinkBlocks ----------------------------
(***************************************************************************)
(* Leading <think> blocks of chat content, services/deepseek_adapter.go.   *)
(* A text is a sequence of pieces: the tag <think> is "open" and then      *)
(* "ink", </think> is "close" and then "ink", so that deltas can cut them; *)
(* white space is "white" and all other text is "x".                       *)
(***************************************************************************)
EXTENDS Integers, Sequences, SequencesExt, Filters

Piece == {"open", "close", "ink", "white", "x"}
Text  == Seq(Piece)

thinkOpenTag  == <<"open", "ink">>
thinkCloseTag == <<"close", "ink">>

\* Positions of s that are not white space.
Solid(s) == {i \in DOMAIN s : s[i] # "white"}

\* strings.TrimLeft and strings.TrimSpace.
TrimLeft(s) ==
  IF Solid(s) = {} THEN <<>>
  ELSE SubSeq(s, CHOOSE i \in Solid(s) : \A j \in Solid(s) : i <= j, Len(s))

TrimSpace(s) ==
  IF Solid(s) = {} THEN <<>>
  ELSE TrimLeft(SubSeq(s, 1, CHOOSE i \in Solid(s) : \A j \in Solid(s) : j <= i))

\* Where thinkCloseTag occurs in s.
Closings(s) == {i \in 1..Len(s) - 1 : SubSeq(s, i, i + 1) = thinkCloseTag}

Without(s, n) == SubSeq(s, n + 1, Len(s))

OpensThink(s) == IsPrefix(thinkOpenTag, TrimLeft(s))

\* Mutation: content is taken for text as soon as it is not the whole tag.
leadingThinkPrefixDecision_Eager(buffer) ==
  IF TrimLeft(buffer) = <<>> THEN "need_more"
  ELSE IF OpensThink(buffer) THEN "reasoning"
  ELSE "text"

leadingThinkPrefixDecision(buffer) ==
  IF IsStrictPrefix(TrimLeft(buffer), thinkOpenTag) \/ TrimLeft(buffer) = thinkOpenTag
  THEN "need_more"
  ELSE IF OpensThink(buffer) THEN "reasoning"
  ELSE "text"

\* The block's text and the answer after it, if the block is closed.
splitLeadingThinkBlock(text) ==
  LET body == Without(TrimLeft(text), 2) IN
  IF OpensThink(text) /\ Closings(body) # {}
  THEN LET at == CHOOSE i \in Closings(body) : \A j \in Closings(body) : i <= j IN
       [ok |-> TRUE, reasoning |-> TrimSpace(SubSeq(body, 1, at - 1)),
        answer |-> TrimLeft(Without(body, at + 1))]
  ELSE [ok |-> FALSE, reasoning |-> <<>>, answer |-> text]

stripLeadingThinkOpenTag(text) ==
  TrimSpace(IF OpensThink(text) THEN Without(TrimLeft(text), 2) ELSE text)
============================================================================
