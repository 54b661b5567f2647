------------------------- MODULE ResponsesProtocol -------------------------
(***************************************************************************)
(* What a Responses client may rely on in an event stream: the response is *)
(* announced, items get consecutive output indexes, their deltas come      *)
(* while they are open, an item is closed once, with what all of its text  *)
(* comes to, and one last event tells the output.  ResponsesStream         *)
(* implements this.                                                        *)
(***************************************************************************)
EXTENDS Integers, Sequences, SequencesExt, Filters

CONSTANTS
  Kinds,       \* of output items
  Final(_, _)  \* the final text of an item of a kind whose deltas have a text

VARIABLES
  loose,  \* the kinds whose final text may not be that of all deltas
  phase,  \* silent, open, completed or failed
  items,  \* the items announced, with the text of their deltas
  output  \* the final texts listed by the last event

vars == <<loose, phase, items, output>>

Init == loose \subseteq Kinds /\ phase = "silent" /\ items = <<>> /\ output = <<>>

Start ==
  /\ phase = "silent"
  /\ phase' = "open"
  /\ UNCHANGED <<loose, items, output>>

Announce(k) ==
  /\ phase = "open"
  /\ items' = Append(items, [index |-> Len(items), kind |-> k, text |-> <<>>,
                             closed |-> FALSE, final |-> <<>>])
  /\ UNCHANGED <<loose, phase, output>>

Delta(i) ==
  /\ phase = "open"
  /\ items[i].closed => items[i].kind \in loose
  /\ DOMAIN items' = DOMAIN items
  /\ IsPrefix(items[i].text, items'[i].text)
  /\ items' = [items EXCEPT ![i].text = items'[i].text]
  /\ UNCHANGED <<loose, phase, output>>

Close(i) ==
  /\ phase = "open"
  /\ ~items[i].closed
  /\ DOMAIN items' = DOMAIN items
  /\ items[i].kind \notin loose => items'[i].final = Final(items[i].kind, items[i].text)
  /\ items' = [items EXCEPT ![i].closed = TRUE, ![i].final = items'[i].final]
  /\ UNCHANGED <<loose, phase, output>>

Finals(its) == [i \in DOMAIN its |-> its[i].final]

\* All items are closed and listed.
Complete ==
  /\ phase = "open"
  /\ \A i \in DOMAIN items : items[i].closed
  /\ phase' = "completed"
  /\ output' = Finals(items)
  /\ UNCHANGED <<loose, items>>

\* The items that were closed are listed; nothing may have been announced.
Fail ==
  /\ phase \in {"silent", "open"}
  /\ phase' = "failed"
  /\ output' = Finals(Picked(items, {i \in DOMAIN items : items[i].closed}))
  /\ UNCHANGED <<loose, items>>

Next ==
  \/ Start
  \/ \E k \in Kinds : Announce(k)
  \/ \E i \in DOMAIN items : Delta(i) \/ Close(i)
  \/ Complete
  \/ Fail

Spec == Init /\ [][Next]_vars
============================================================================
