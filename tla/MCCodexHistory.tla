--------------------------- MODULE MCCodexHistory ---------------------------
EXTENDS CodexHistory, TLC

CONSTANTS a, b

Symmetry == Permutations(Requests)

Msg     == MessageItem("user", Client, TRUE)
Note    == MessageItem("developer", Client, TRUE)
Fc(c)   == CallItem(c, Client, <<>>)
Out(c)  == OutputItem(c, Client, TRUE)
Blank(c) == OutputItem(c, Client, FALSE)

\* Words alone; two parallel calls after a thought, and with words before them after a thought in
\* a think block; every response may use the same call ids.
MCCompletions ==
  {Completion(FALSE, FALSE, TRUE, <<>>), Completion(TRUE, FALSE, FALSE, <<a, b>>),
   Completion(TRUE, TRUE, TRUE, <<a, b>>)}

\* A question; the results in reverse, with a note between, and one of them blank; the results
\* with one of the calls sent along.
MCInputs ==
  {<<Msg>>, <<Out(b), Note, Out(a)>>, <<Out(a), Blank(b), Msg>>, <<Fc(a), Out(a), Out(b)>>}

Refers == [replays |-> FALSE, carries |-> FALSE]
Replays(carries) == [replays |-> TRUE, carries |-> carries]
MCClients == {Refers, Replays(TRUE), Replays(FALSE)}
ReferringClients == {Refers}
============================================================================
