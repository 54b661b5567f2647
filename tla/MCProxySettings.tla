-------------------------- MODULE MCProxySettings --------------------------
EXTENDS ProxySettings

\* What a user may have in a file: two that parse and one that does not.
MCData == {"mine", "other", Broken}

\* One of each; an MCP save and a save of the settings together only where nothing else happens.
MCLimits == {[edits |-> 1, syncs |-> 1, moves |-> 0, interrupts |-> 1],
             [edits |-> 1, syncs |-> 0, moves |-> 1, interrupts |-> 1],
             [edits |-> 0, syncs |-> 1, moves |-> 1, interrupts |-> 0]}
============================================================================
