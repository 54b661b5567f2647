------------------------- MODULE MCResponsesStream -------------------------
EXTENDS ResponsesStream

Empty == [reasoning |-> <<>>, content |-> <<>>, boundary |-> FALSE, call |-> FALSE,
          index |-> 0, known |-> FALSE, args |-> <<>>]

Says(text)     == [Empty EXCEPT !.content = text]
Thinks(text)   == [Empty EXCEPT !.reasoning = text]
Calls(i, k, a) == [Empty EXCEPT !.boundary = TRUE, !.call = TRUE, !.index = i,
                                !.known = k, !.args = a]

\* Tags cut in two or whole, white space around them, a block's end and an answer at once,
\* and a chunk that closes the content; reasoning of its own field; a chunk without
\* a delta; calls that begin and go on, one after the other.
ContentChunks ==
  {Says(<<"open">>), Says(<<"ink", "x">>), Says(<<"white", "open", "ink">>), Says(<<"close">>), Says(<<"ink", "white", "x">>),
   Says(<<"white">>), Thinks(<<"x">>), [Empty EXCEPT !.boundary = TRUE]}

CallChunks ==
  {Empty, Says(<<"x">>), Says(<<"open", "ink", "x">>), Thinks(<<"x", "white">>),
   Calls(1, TRUE, <<>>), Calls(0, TRUE, <<"x">>), Calls(1, FALSE, <<"white", "x">>)}

MCChunks == [content |-> ContentChunks, calls |-> CallChunks]
\* Arguments of up to four pieces are JSON: an object with a key given again and again.
MCReencoded == [t \in {u \in SeqOf({"x", "white"}, 4) : Solid(u) # {}} |-> <<"x">>]

MCMaxChunks == [content |-> 5, calls |-> 5]

\* One upstream that keeps to the order for content, and for calls another that does not.
MCUpstreams ==
  {[late |-> FALSE, unnamed |-> FALSE, about |-> "content"],
   [late |-> FALSE, unnamed |-> FALSE, about |-> "calls"],
   [late |-> TRUE, unnamed |-> TRUE, about |-> "calls"]}
============================================================================
