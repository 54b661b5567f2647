-------------------------- MODULE McpServersProofs --------------------------
(***************************************************************************)
(* What TLAPS proves of McpServers, for every set of names, built-in       *)
(* servers, forms and imports, any number of visits, and every bound.      *)
(***************************************************************************)
EXTENDS McpServers, TLAPS

Writes == {"stored", "claude", "between", "codex"}

\* The entries of an agent's file.
IsEntries(e) == DOMAIN e \subseteq Names /\ \A n \in DOMAIN e : e[n] \in Configs

ShapeInv ==
  /\ DOMAIN file = Agents
  /\ \A a \in Agents : DOMAIN file[a] = {"ok", "servers"} /\ IsEntries(file[a].servers)
  /\ DOMAIN arg = Calls

\* A save that is under way has stored the list it carries; its entries go to both
\* files as they are in that list, if no name is in it twice.
WriterInv(c) ==
  pc[c] \in Writes =>
    /\ store = Normalized(Over(More(c), arg[c])) /\ saved = store
    /\ clean => DOMAIN More(c) \cap DOMAIN arg[c] = {}
    /\ pc[c] \in {"between", "codex"} /\ clean => file["claude"].servers = Desired(store, "claude")

\* A call that is about to save what it has read only adds the built-in servers.
ReaderInv(c) == pc[c] = "listing" /\ clean => arg[c] = ensureBuiltInServers(store)

-----------------------------------------------------------------------------
(* The helpers.                                                            *)

\* No two calls are the same, and none is the mark of a free mutex.
LEMMA CallsFacts ==
  /\ Free \notin Calls
  /\ Import \in Calls
  /\ \A v \in Visits : Load(v) \in Calls /\ Save(v) \in Calls
  /\ \A u, v \in Visits : Load(u) # Save(v) /\ Load(u) # Import /\ Save(v) # Import
BY DEF Free, Calls, Import, Load, Save

LEMMA ServerFacts ==
  /\ \A k \in Configs, on \in SUBSET Agents :
       Server(k, on) \in Servers /\ Server(k, on).config = k /\ Server(k, on).on = on
  /\ \A s \in Servers : s.config \in Configs /\ s.on \subseteq Agents /\ s = Server(s.config, s.on)
BY DEF Server, Servers

LEMMA NoneIsList == IsList(None) /\ DOMAIN None = {} /\ IsEntries(None)
BY DEF IsList, IsEntries, None

LEMMA OverIsList ==
  ASSUME NEW f, NEW g, IsList(f), IsList(g)
  PROVE  IsList(Over(f, g))
<1>1. ASSUME NEW n \in DOMAIN Over(f, g) PROVE n \in Names /\ Over(f, g)[n] \in Servers
  BY <1>1 DEF IsList, Over
<1> QED
  BY <1>1 DEF IsList

LEMMA NormalizedIsList ==
  ASSUME NEW l, IsList(l)
  PROVE  IsList(Normalized(l)) /\ DOMAIN Normalized(l) = DOMAIN l
BY ServerFacts DEF IsList, Normalized, Configs

LEMMA EnsureIsList ==
  ASSUME NEW l, IsList(l)
  PROVE  IsList(ensureBuiltInServers(l))
<1>1. ASSUME NEW n \in DOMAIN l \cup DOMAIN BuiltIn
      PROVE  n \in Names /\ ensureBuiltInServers(l)[n] \in Servers
  BY <1>1, ServerFacts, NamesAssumption DEF IsList, ensureBuiltInServers
<1> QED
  BY <1>1 DEF IsList, ensureBuiltInServers

LEMMA LoadIsList ==
  ASSUME NEW l, NEW e, IsList(l), IsEntries(e)
  PROVE  IsList(loadConfig(l, e))
<1>1. IsList(importFromClaude(l, e))
  BY ServerFacts DEF IsList, IsEntries, importFromClaude, Agents
<1> QED
  BY <1>1, OverIsList, EnsureIsList DEF loadConfig

LEMMA DesiredIsEntries ==
  ASSUME NEW l, IsList(l), NEW a
  PROVE  IsEntries(Desired(l, a))
BY ServerFacts DEF IsList, IsEntries, Desired

LEMMA DesiredOfIsEntries ==
  ASSUME NEW l, NEW m, IsList(l), IsList(m), NEW a
  PROVE  IsEntries(DesiredOf(l, m, a))
<1>1. IsEntries(Desired(Normalized(m), a)) /\ IsEntries(Desired(Normalized(l), a))
  BY NormalizedIsList, DesiredIsEntries
<1>2. ASSUME NEW n \in DOMAIN DesiredOf(l, m, a) PROVE n \in Names /\ DesiredOf(l, m, a)[n] \in Configs
  BY <1>1, <1>2 DEF IsEntries, DesiredOf, Over
<1> QED
  BY <1>2 DEF IsEntries

LEMMA EditedIsList ==
  ASSUME NEW l, IsList(l), NEW m \in Edited(l)
  PROVE  IsList(m)
<1>1. CASE \E n \in Names, s \in FormServers : m = With(l, n, s)
  BY <1>1, NamesAssumption DEF IsList, With
<1>2. CASE \E n \in DOMAIN l : m = [k \in DOMAIN l \ {n} |-> l[k]]
  BY <1>2 DEF IsList
<1>3. m \in {With(l, n, s) : n \in Names, s \in FormServers} \/ m \in {[k \in DOMAIN l \ {n} |-> l[k]] : n \in DOMAIN l}
  BY DEF Edited
<1> QED
  BY <1>1, <1>2, <1>3

\* A server is normalized whatever else is in its list.
LEMMA NormalizedAt ==
  ASSUME NEW l, NEW m, NEW n \in DOMAIN l, n \in DOMAIN m, l[n] = m[n]
  PROVE  Normalized(l)[n] = Normalized(m)[n]
BY DEF Normalized

LEMMA DesiredFacts ==
  ASSUME NEW l, NEW a, NEW n
  PROVE  /\ n \in DOMAIN Desired(l, a) <=> n \in DOMAIN l /\ a \in l[n].on
         /\ n \in DOMAIN Desired(l, a) => Desired(l, a)[n] = l[n].config
BY DEF Desired

\* Two lists give an agent what one of all their servers gives it, where no name
\* is in both.
LEMMA DesiredOfStored ==
  ASSUME NEW l, NEW m, DOMAIN m \cap DOMAIN l = {}, NEW a
  PROVE  DesiredOf(l, m, a) = Desired(Normalized(Over(m, l)), a)
<1> DEFINE nm == Normalized(m)
           nl == Normalized(l)
           no == Normalized(Over(m, l))
           f == DesiredOf(l, m, a)
           g == Desired(no, a)
<1>1. DOMAIN nm = DOMAIN m /\ DOMAIN nl = DOMAIN l /\ DOMAIN no = DOMAIN m \cup DOMAIN l
  BY DEF Normalized, Over
<1>2. (\A n \in DOMAIN m : no[n] = nm[n]) /\ (\A n \in DOMAIN l : no[n] = nl[n])
  <2>1. \A n \in DOMAIN m : n \in DOMAIN Over(m, l) /\ Over(m, l)[n] = m[n]
    BY DEF Over
  <2>2. \A n \in DOMAIN l : n \in DOMAIN Over(m, l) /\ Over(m, l)[n] = l[n]
    BY DEF Over
  <2> QED
    BY <2>1, <2>2, NormalizedAt
<1>3. DOMAIN f = DOMAIN Desired(nm, a) \cup DOMAIN Desired(nl, a)
  BY DEF DesiredOf, Over
<1> HIDE DEF nm, nl, no
<1>4. ASSUME NEW n PROVE n \in DOMAIN f <=> n \in DOMAIN g
  BY <1>1, <1>2, <1>3, DesiredFacts
<1>5. ASSUME NEW n \in DOMAIN f PROVE f[n] = g[n]
  <2>1. f = Over(Desired(nm, a), Desired(nl, a))
    BY DEF DesiredOf, nm, nl
  <2>2. CASE n \in DOMAIN Desired(nm, a)
    <3>1. f[n] = Desired(nm, a)[n]
      BY <2>1, <2>2 DEF Over
    <3>2. n \in DOMAIN m /\ no[n] = nm[n] /\ n \in DOMAIN g
      BY <1>1, <1>2, <1>4, <1>5, <2>2, DesiredFacts
    <3> QED
      BY <2>2, <3>1, <3>2, DesiredFacts
  <2>3. CASE n \in DOMAIN Desired(nl, a) \ DOMAIN Desired(nm, a)
    <3>1. f[n] = Desired(nl, a)[n]
      BY <2>1, <2>3 DEF Over
    <3>2. n \in DOMAIN l /\ no[n] = nl[n] /\ n \in DOMAIN g
      BY <1>1, <1>2, <1>4, <1>5, <2>3, DesiredFacts
    <3> QED
      BY <2>3, <3>1, <3>2, DesiredFacts
  <2> QED
    BY <1>3, <1>5, <2>2, <2>3
<1>6. f = [n \in DOMAIN f |-> f[n]]
  BY DEF DesiredOf, Over
<1>7. g = [n \in DOMAIN g |-> g[n]]
  BY DEF Desired
<1>8. DOMAIN f = DOMAIN g
  BY <1>4
<1>9. \A n \in DOMAIN f : f[n] = g[n]
  BY <1>5
<1> HIDE DEF f, g
<1>10. f = g
  BY <1>6, <1>7, <1>8, <1>9
<1> QED
  BY <1>10 DEF f, g, no

\* Nothing more is put back the second time.
LEMMA EnsureTwice ==
  ASSUME NEW l, IsList(l)
  PROVE  ensureBuiltInServers(ensureBuiltInServers(l)) = ensureBuiltInServers(l)
<1> DEFINE f == ensureBuiltInServers(l)
           g == ensureBuiltInServers(f)
<1>1. DOMAIN f = DOMAIN l \cup DOMAIN BuiltIn /\ DOMAIN g = DOMAIN f
  BY DEF ensureBuiltInServers
<1>2. ASSUME NEW n \in DOMAIN f PROVE g[n] = f[n]
  <2>1. n \in DOMAIN BuiltIn => f[n].config # "bare"
    BY <1>1, <1>2, NamesAssumption, ServerFacts DEF ensureBuiltInServers, IsList, Server
  <2> QED
    BY <1>1, <1>2, <2>1 DEF ensureBuiltInServers
<1>3. f = [n \in DOMAIN f |-> f[n]] /\ g = [n \in DOMAIN g |-> g[n]]
  BY DEF ensureBuiltInServers
<1> QED
  BY <1>1, <1>2, <1>3

-----------------------------------------------------------------------------
(* Types, and the mutex.                                                   *)

Typed == TypeOK /\ ShapeInv

\* Only what runs under the mutex holds it.
Exclusive == \A c \in Calls : lock = c <=> pc[c] \in {"listing", "stored", "claude", "between", "codex"}

LEMMA InitType == Init => Typed
<1> SUFFICES ASSUME Init PROVE Typed
  OBVIOUS
<1>1. PICK l \in {None} \cup {[m \in {n} |-> "plain"] : n \in Names}, ok \in BOOLEAN :
        file = [a \in Agents |-> IF a = "claude" THEN [ok |-> ok, servers |-> l] ELSE [ok |-> TRUE, servers |-> None]]
  BY DEF Init
<1>2. IsEntries(l)
  <2>1. CASE l = None
    BY <2>1, NoneIsList
  <2>2. CASE l # None
    BY <2>2 DEF IsEntries, Configs
  <2> QED
    BY <2>1, <2>2
<1>3. /\ DOMAIN file = Agents
      /\ \A a \in Agents : DOMAIN file[a] = {"ok", "servers"} /\ IsEntries(file[a].servers) /\ file[a].ok \in BOOLEAN
  BY <1>1, <1>2, NoneIsList
<1>4. ShapeInv
  BY <1>3 DEF Init, ShapeInv
<1>5. IsList(store) /\ IsList(extra) /\ IsList(servers) /\ IsList(saved) /\ \A c \in Calls : IsList(arg[c])
  BY NoneIsList DEF Init
<1>6. lock = Free /\ pc \in [Calls -> Steps] /\ \A c \in Calls : lock # c /\ pc[c] = "idle"
  BY CallsFacts DEF Init, Steps
<1>7. shown \in 0..MaxVisits
  BY BoundsAssumption DEF Init
<1> QED
  <2>1. edits \in 0..MaxEdits /\ events \in 0..MaxEvents
    BY BoundsAssumption DEF Init
  <2>2. clean \in BOOLEAN
    BY DEF Init
  <2> QED
    BY <1>3, <1>4, <1>5, <1>6, <1>7, <2>1, <2>2 DEF Typed, TypeOK, IsEntries

\* What a step of a call does to its place in the program and to the mutex.
LEMMA StepKeepsMutex ==
  ASSUME Typed, NEW b \in Calls, NEW s \in Steps, Step(b, s),
         \/ lock' = lock /\ (s \in Writes \cup {"listing"} <=> pc[b] \in Writes \cup {"listing"})
         \/ lock = Free /\ lock' = b /\ s \in Writes \cup {"listing"}
         \/ lock \in {b, Free} /\ lock' = Free /\ s \notin Writes \cup {"listing"}
  PROVE  pc' \in [Calls -> Steps] /\ lock' \in Calls \cup {Free} /\ Exclusive'
BY CallsFacts DEF Typed, TypeOK, Step, Writes, Exclusive

LEMMA CarryKeepsLists ==
  ASSUME Typed, NEW b \in Calls, NEW l, IsList(l), Carry(b, l)
  PROVE  DOMAIN arg' = Calls /\ \A c \in Calls : IsList(arg'[c])
BY DEF Typed, TypeOK, ShapeInv, Carry

LEMMA StepTyped == Typed /\ [Next]_vars => Typed'
<1> SUFFICES ASSUME Typed, [Next]_vars PROVE Typed'
  OBVIOUS
<1> USE DEF disk, calls, page, counts, ghosts, Exclusive
<1>1. ASSUME NEW c \in Calls, ListFails(c) PROVE Typed'
  <2>1. pc' \in [Calls -> Steps] /\ Exclusive'
    BY <1>1, StepKeepsMutex DEF ListFails, Steps, Writes
  <2> QED
    BY <1>1, <2>1 DEF ListFails, Typed, TypeOK, ShapeInv, IsEntries
<1>2. ASSUME NEW c \in Calls, ReadServers(c) PROVE Typed'
  <2> DEFINE l == loadConfig(store, file["claude"].servers)
  <2>1. IsList(l)
    BY LoadIsList DEF Typed, TypeOK, ShapeInv, Agents
  <2>2. Carry(c, l) /\ pc[c] = "list"
    BY <1>2 DEF ReadServers
  <2>3. \/ Step(c, "listed") /\ lock' = lock
        \/ Step(c, "listing") /\ lock = Free /\ lock' = c
    BY <1>2 DEF ReadServers
  <2> HIDE DEF l
  <2>4. pc' \in [Calls -> Steps] /\ lock' \in Calls \cup {Free} /\ Exclusive'
    BY <2>2, <2>3, StepKeepsMutex DEF Steps, Writes
  <2>5. DOMAIN arg' = Calls /\ \A b \in Calls : IsList(arg'[b])
    BY <2>1, <2>2, CarryKeepsLists
  <2> QED
    BY <1>2, <2>4, <2>5 DEF ReadServers, Typed, TypeOK, ShapeInv, IsEntries
<1>3. ASSUME NEW c \in Calls, StoreRead(c) PROVE Typed'
  <2>1. lock = c
    BY <1>3 DEF StoreRead, Typed, TypeOK
  <2>2. pc' \in [Calls -> Steps] /\ lock' \in Calls \cup {Free} /\ Exclusive'
    BY <1>3, <2>1, StepKeepsMutex DEF StoreRead, Steps, Writes
  <2>3. IsList(store')
    BY <1>3 DEF StoreRead, Typed, TypeOK
  <2> QED
    BY <1>3, <2>2, <2>3 DEF StoreRead, Typed, TypeOK, ShapeInv, IsEntries
<1>4. ASSUME NEW c \in Calls, StoreSaved(c) PROVE Typed'
  <2>1. IsList(store') /\ saved' = store'
    <3>1. IsList(More(c)) /\ IsList(arg[c])
      BY NoneIsList DEF Typed, TypeOK, More
    <3>2. IsList(Normalized(Over(More(c), arg[c])))
      BY <3>1, OverIsList, NormalizedIsList
    <3> QED
      BY <1>4, <3>2 DEF StoreSaved
  <2>2. pc' \in [Calls -> Steps] /\ lock' \in Calls \cup {Free} /\ Exclusive'
    BY <1>4, StepKeepsMutex DEF StoreSaved, Steps, Writes
  <2>3. clean' \in BOOLEAN
    BY <1>4 DEF StoreSaved
  <2> QED
    BY <1>4, <2>1, <2>2, <2>3 DEF StoreSaved, Typed, TypeOK, ShapeInv, IsEntries
<1>5. ASSUME NEW c \in Calls, OpenFile(c) PROVE Typed'
  <2>1. PICK a \in Agents : Step(c, a) /\ file' = [file EXCEPT ![a] = [ok |-> TRUE, servers |-> None]]
    BY <1>5 DEF OpenFile, Agents
  <2>2. pc' \in [Calls -> Steps] /\ lock' \in Calls \cup {Free} /\ Exclusive'
    BY <1>5, <2>1, StepKeepsMutex DEF OpenFile, Steps, Writes, Agents
  <2>3. /\ DOMAIN file' = Agents
        /\ \A b \in Agents : DOMAIN file'[b] = {"ok", "servers"} /\ IsEntries(file'[b].servers) /\ file'[b].ok \in BOOLEAN
    BY <2>1, NoneIsList DEF Typed, TypeOK, ShapeInv
  <2> QED
    BY <1>5, <2>2, <2>3 DEF OpenFile, Typed, TypeOK, ShapeInv, IsEntries
<1>6. ASSUME NEW c \in Calls, WriteFile(c) PROVE Typed'
  <2>1. PICK a \in Agents :
          /\ pc[c] = a
          /\ file' = [file EXCEPT ![a].servers = DesiredOf(arg[c], More(c), a)]
          /\ Step(c, IF a = "claude" THEN "between" ELSE "saved")
          /\ lock' = IF a = "claude" THEN lock ELSE Free
    BY <1>6 DEF WriteFile
  <2>2. lock = c
    BY <2>1 DEF Typed, TypeOK, Agents
  <2>3. pc' \in [Calls -> Steps] /\ lock' \in Calls \cup {Free} /\ Exclusive'
    <3>1. CASE a = "claude"
      BY <2>1, <2>2, <3>1, StepKeepsMutex DEF Steps, Writes
    <3>2. CASE a # "claude"
      BY <2>1, <2>2, <3>2, StepKeepsMutex DEF Steps, Writes
    <3> QED
      BY <3>1, <3>2
  <2>4. IsEntries(DesiredOf(arg[c], More(c), a))
    BY NoneIsList, DesiredOfIsEntries DEF Typed, TypeOK, More
  <2>5. /\ DOMAIN file' = Agents
        /\ \A b \in Agents : DOMAIN file'[b] = {"ok", "servers"} /\ IsEntries(file'[b].servers) /\ file'[b].ok \in BOOLEAN
    BY <2>1, <2>4 DEF Typed, TypeOK, ShapeInv
  <2> QED
    BY <1>6, <2>3, <2>5 DEF WriteFile, Typed, TypeOK, ShapeInv, IsEntries
<1>7. ASSUME NEW c \in Calls, CallFails(c) PROVE Typed'
  <2>1. lock \in {c, Free}
    BY <1>7 DEF CallFails
  <2>2. pc' \in [Calls -> Steps] /\ lock' \in Calls \cup {Free} /\ Exclusive'
    BY <1>7, <2>1, StepKeepsMutex DEF CallFails, Steps, Writes
  <2>3. events' \in 0..MaxEvents /\ clean' \in BOOLEAN
    BY <1>7, BoundsAssumption DEF CallFails, Typed, TypeOK
  <2> QED
    BY <1>7, <2>2, <2>3 DEF CallFails, Typed, TypeOK, ShapeInv, IsEntries
<1>8. ASSUME NEW v \in Visits, Mount(v) PROVE Typed'
  <2>1. pc' \in [Calls -> Steps] /\ Exclusive'
    BY <1>8, CallsFacts, StepKeepsMutex DEF Mount, Steps, Writes
  <2> QED
    BY <1>8, <2>1 DEF Mount, Typed, TypeOK, ShapeInv, IsEntries, Visits
<1>9. ASSUME NEW v \in Visits, Reload(v) PROVE Typed'
  <2>1. pc' \in [Calls -> Steps] /\ Exclusive'
    BY <1>9, CallsFacts, StepKeepsMutex DEF Reload, Steps, Writes
  <2>2. events' \in 0..MaxEvents
    BY <1>9, BoundsAssumption DEF Reload, Typed, TypeOK
  <2> QED
    BY <1>9, <2>1, <2>2 DEF Reload, Typed, TypeOK, ShapeInv, IsEntries
<1>10. ASSUME NEW v \in Visits, EndLoad(v) PROVE Typed'
  <2>1. pc' \in [Calls -> Steps] /\ Exclusive'
    BY <1>10, CallsFacts, StepKeepsMutex DEF EndLoad, Steps, Writes
  <2>2. DOMAIN arg' = Calls /\ \A b \in Calls : IsList(arg'[b])
    BY <1>10, CallsFacts, NoneIsList, CarryKeepsLists DEF EndLoad
  <2>3. IsList(servers')
    BY <1>10, CallsFacts DEF EndLoad, Show, Typed, TypeOK
  <2> QED
    BY <1>10, <2>1, <2>2, <2>3 DEF EndLoad, Typed, TypeOK, ShapeInv, IsEntries
<1>11. ASSUME NEW v \in Visits, Edit(v) PROVE Typed'
  <2>1. PICK l \in Edited(servers) : servers' = l /\ Carry(Save(v), l)
    BY <1>11 DEF Edit
  <2>2. IsList(l)
    BY EditedIsList DEF Typed, TypeOK
  <2>3. DOMAIN arg' = Calls /\ \A b \in Calls : IsList(arg'[b])
    BY <2>1, <2>2, CallsFacts, CarryKeepsLists
  <2>4. pc' \in [Calls -> Steps] /\ Exclusive'
    BY <1>11, CallsFacts, StepKeepsMutex DEF Edit, Steps, Writes
  <2>5. edits' \in 0..MaxEdits
    BY <1>11, BoundsAssumption DEF Edit, Typed, TypeOK
  <2> QED
    BY <1>11, <2>1, <2>2, <2>3, <2>4, <2>5 DEF Edit, Typed, TypeOK, ShapeInv, IsEntries
<1>12. ASSUME NEW v \in Visits, Reread(v) PROVE Typed'
  <2>1. pc' \in [Calls -> Steps] /\ Exclusive'
    BY <1>12, CallsFacts, StepKeepsMutex DEF Reread, Steps, Writes
  <2>2. DOMAIN arg' = Calls /\ \A b \in Calls : IsList(arg'[b])
    BY <1>12, CallsFacts, NoneIsList, CarryKeepsLists DEF Reread
  <2> QED
    BY <1>12, <2>1, <2>2 DEF Reread, Typed, TypeOK, ShapeInv, IsEntries
<1>13. ASSUME NEW v \in Visits, EndSave(v) PROVE Typed'
  <2>1. pc' \in [Calls -> Steps] /\ Exclusive'
    BY <1>13, CallsFacts, StepKeepsMutex DEF EndSave, Steps, Writes
  <2>2. DOMAIN arg' = Calls /\ \A b \in Calls : IsList(arg'[b])
    BY <1>13, CallsFacts, NoneIsList, CarryKeepsLists DEF EndSave
  <2>3. IsList(servers')
    BY <1>13, CallsFacts DEF EndSave, Show, Typed, TypeOK
  <2> QED
    BY <1>13, <2>1, <2>2, <2>3 DEF EndSave, Typed, TypeOK, ShapeInv, IsEntries
<1>14. CASE Leave
  BY <1>14, NoneIsList, BoundsAssumption DEF Leave, Typed, TypeOK, ShapeInv, IsEntries
<1>15. CASE StartImport
  <2>1. pc' \in [Calls -> Steps] /\ Exclusive'
    BY <1>15, CallsFacts, StepKeepsMutex DEF StartImport, Steps, Writes
  <2>2. events' \in 0..MaxEvents
    BY <1>15, BoundsAssumption DEF StartImport, Typed, TypeOK
  <2> QED
    BY <1>15, <2>1, <2>2 DEF StartImport, Typed, TypeOK, ShapeInv, IsEntries
<1>16. CASE ImportListed
  <2>1. PICK s \in {"save", "done", "list"} : Step(Import, s)
    BY <1>16 DEF ImportListed
  <2>2. pc' \in [Calls -> Steps] /\ Exclusive'
    BY <1>16, <2>1, CallsFacts, StepKeepsMutex DEF ImportListed, Steps, Writes
  <2>3. (DOMAIN arg' = Calls /\ \A b \in Calls : IsList(arg'[b])) /\ IsList(extra')
    <3>1. CASE extra # None
      BY <1>16, <3>1 DEF ImportListed, Typed, TypeOK, ShapeInv
    <3>2. CASE extra = None
      <4>1. DOMAIN arg' = Calls /\ \A b \in Calls : IsList(arg'[b])
        BY <1>16, <3>2, CallsFacts, NoneIsList, CarryKeepsLists DEF ImportListed
      <4>2. IsList(extra')
        BY <1>16, <3>2, NamesAssumption, ServerFacts DEF ImportListed, IsList, Configs, Agents
      <4> QED
        BY <4>1, <4>2
    <3> QED
      BY <3>1, <3>2
  <2> QED
    BY <1>16, <2>2, <2>3 DEF ImportListed, Typed, TypeOK, ShapeInv, IsEntries
<1>17. CASE EndImport
  <2>1. pc' \in [Calls -> Steps] /\ Exclusive'
    BY <1>17, CallsFacts, StepKeepsMutex DEF EndImport, Steps, Writes
  <2>2. DOMAIN arg' = Calls /\ \A b \in Calls : IsList(arg'[b])
    BY <1>17, CallsFacts, NoneIsList, CarryKeepsLists DEF EndImport
  <2> QED
    BY <1>17, <2>1, <2>2, NoneIsList DEF EndImport, Typed, TypeOK, ShapeInv, IsEntries
<1>18. CASE OthersWrite
  <2>1. ASSUME NEW a \in Agents, NEW e, NEW ok \in BOOLEAN, IsEntries(e),
               file' = [file EXCEPT ![a] = [ok |-> ok, servers |-> e]]
        PROVE  /\ DOMAIN file' = Agents
               /\ \A b \in Agents : DOMAIN file'[b] = {"ok", "servers"} /\ IsEntries(file'[b].servers) /\ file'[b].ok \in BOOLEAN
    BY <2>1 DEF Typed, TypeOK, ShapeInv
  <2>2. ASSUME NEW a \in Agents, NEW n \in Names, NEW k \in {"plain", "holed"}
        PROVE  IsEntries(With(file[a].servers, n, k))
    <3>1. IsEntries(file[a].servers) /\ k \in Configs
      BY DEF Typed, ShapeInv, Configs
    <3> QED
      BY <3>1 DEF IsEntries, With
  <2>3. /\ DOMAIN file' = Agents
        /\ \A b \in Agents : DOMAIN file'[b] = {"ok", "servers"} /\ IsEntries(file'[b].servers) /\ file'[b].ok \in BOOLEAN
    <3>1. PICK a \in Agents :
            \/ a = "claude" /\ file' = [file EXCEPT ![a] = [ok |-> FALSE, servers |-> None]]
            \/ \E n \in Names, k \in {"plain", "holed"} :
                 file' = [file EXCEPT ![a] = [ok |-> TRUE, servers |-> With(@.servers, n, k)]]
      BY <1>18 DEF OthersWrite
    <3>2. CASE file' = [file EXCEPT ![a] = [ok |-> FALSE, servers |-> None]]
      BY <2>1, <3>2, NoneIsList
    <3>3. ASSUME NEW n \in Names, NEW k \in {"plain", "holed"},
                 file' = [file EXCEPT ![a] = [ok |-> TRUE, servers |-> With(@.servers, n, k)]]
          PROVE  file' = [file EXCEPT ![a] = [ok |-> TRUE, servers |-> With(file[a].servers, n, k)]]
      BY <3>3 DEF Typed, ShapeInv
    <3> QED
      BY <2>1, <2>2, <3>1, <3>2, <3>3
  <2>4. events' \in 0..MaxEvents /\ clean' \in BOOLEAN
    <3>1. events < MaxEvents /\ events' = events + 1 /\ clean' = FALSE
      BY <1>18 DEF OthersWrite
    <3>2. events' \in 0..MaxEvents
      BY <3>1, BoundsAssumption DEF Typed, TypeOK
    <3> QED
      BY <3>1, <3>2
  <2> QED
    BY <1>18, <2>3, <2>4 DEF OthersWrite, Typed, TypeOK, ShapeInv, IsEntries
<1>19. CASE Restart
  <2>1. pc' \in [Calls -> Steps] /\ \A c \in Calls : pc'[c] \in {"idle", "done"}
    BY <1>19 DEF Restart, Steps
  <2>2. DOMAIN arg' = Calls /\ (\A c \in Calls : IsList(arg'[c])) /\ IsList(extra') /\ IsList(servers')
    BY <1>19, NoneIsList DEF Restart
  <2>3. events' \in 0..MaxEvents /\ clean' \in BOOLEAN /\ shown' \in 0..MaxVisits
    BY <1>19, BoundsAssumption DEF Restart, Typed, TypeOK
  <2>4. lock' = Free /\ \A c \in Calls : lock' # c
    BY <1>19, CallsFacts DEF Restart
  <2> QED
    BY <1>19, <2>1, <2>2, <2>3, <2>4 DEF Restart, Typed, TypeOK, ShapeInv, IsEntries
<1>20. CASE UNCHANGED vars
  BY <1>20 DEF vars, Typed, TypeOK, ShapeInv, IsEntries
<1> QED
  BY <1>1, <1>2, <1>3, <1>4, <1>5, <1>6, <1>7, <1>8, <1>9, <1>10, <1>11, <1>12, <1>13, <1>14,
     <1>15, <1>16, <1>17, <1>18, <1>19, <1>20 DEF Next

-----------------------------------------------------------------------------
(* The calls under the mutex.                                              *)

CallInv(c) == WriterInv(c) /\ ReaderInv(c)

\* A call that is not under the mutex has nothing to keep.
LEMMA RestingCall ==
  ASSUME NEW c, pc[c] \notin {"listing"} \cup Writes
  PROVE  CallInv(c)
BY DEF CallInv, WriterInv, ReaderInv, Writes

\* A call stays where it is while others do what needs no mutex.
LEMMA WaitingCall ==
  ASSUME NEW c \in Calls, CallInv(c), pc'[c] = pc[c],
         pc[c] \in {"listing"} \cup Writes =>
           arg'[c] = arg[c] /\ (c = Import => extra' = extra) /\ UNCHANGED <<store, file, saved>> /\ (clean' => clean)
  PROVE  CallInv(c)'
<1>1. CASE pc[c] \notin {"listing"} \cup Writes
  BY <1>1, RestingCall DEF CallInv, WriterInv, ReaderInv, Writes
<1>2. CASE pc[c] \in {"listing"} \cup Writes
  <2>1. More(c)' = More(c)
    BY <1>2 DEF More
  <2> QED
    BY <1>2, <2>1 DEF CallInv, WriterInv, ReaderInv
<1> QED
  BY <1>1, <1>2

\* At most the one that has the mutex is at work there.
LEMMA OneHolder ==
  ASSUME Typed, NEW c \in Calls
  PROVE  pc[c] \in {"listing"} \cup Writes <=> lock = c
BY DEF Typed, TypeOK, Writes

\* While the files agree Claude's has nothing new, and reading adds no more than
\* the built-in servers.
LEMMA ReadAddsBuiltIn ==
  ASSUME FilesAgree, Settled
  PROVE  loadConfig(store, file["claude"].servers) = ensureBuiltInServers(store)
<1> DEFINE e == file["claude"].servers
           m == Over(importFromClaude(store, e), store)
           f == ensureBuiltInServers(m)
           g == ensureBuiltInServers(store)
<1>1. DOMAIN e = DOMAIN Desired(store, "claude")
  BY DEF FilesAgree, Agents
<1>2. DOMAIN importFromClaude(store, e) = {}
  BY <1>1 DEF importFromClaude, Desired
<1>3. DOMAIN m = DOMAIN store /\ \A n \in DOMAIN store : m[n] = store[n]
  BY <1>2 DEF Over
<1> HIDE DEF e, m
<1>4. DOMAIN f = DOMAIN g /\ \A n \in DOMAIN g : f[n] = g[n]
  BY <1>3 DEF ensureBuiltInServers
<1>5. f = [n \in DOMAIN f |-> f[n]] /\ g = [n \in DOMAIN g |-> g[n]]
  BY DEF ensureBuiltInServers
<1> HIDE DEF f, g
<1>6. f = g
  BY <1>4, <1>5
<1> QED
  BY <1>6 DEF loadConfig, e, f, g, m

LEMMA StepCalls ==
  ASSUME Typed, \A c \in Calls : CallInv(c), FilesAgree, [Next]_vars
  PROVE  \A c \in Calls : CallInv(c)'
<1> SUFFICES ASSUME NEW c \in Calls PROVE CallInv(c)'
  OBVIOUS
<1>a. CallInv(c)
  OBVIOUS
<1>b. DOMAIN pc = Calls /\ DOMAIN arg = Calls
  BY DEF Typed, TypeOK, ShapeInv
<1>c. \A b \in Calls : pc[b] \in {"listing"} \cup Writes <=> lock = b
  BY OneHolder
<1>d. \A b \in Calls : b # Free
  BY CallsFacts
<1> USE <1>a, <1>b, <1>c, <1>d DEF disk, calls, page, counts, ghosts, Step, Carry
<1>1. ASSUME NEW b \in Calls, ListFails(b) PROVE CallInv(c)'
  BY <1>1, WaitingCall, RestingCall DEF ListFails, CallInv, WriterInv, ReaderInv, Writes
<1>2. ASSUME NEW b \in Calls, ReadServers(b) PROVE CallInv(c)'
  <2>1. CASE c # b
    BY <1>2, <2>1, WaitingCall DEF ReadServers, Writes
  <2>2. CASE c = b
    <3>1. pc'[c] \in {"listed", "listing"} /\ lock = Free /\ UNCHANGED <<store, clean>>
      BY <1>2, <2>2 DEF ReadServers
    <3>2. clean => arg'[c] = ensureBuiltInServers(store)
      BY <1>2, <2>2, <3>1, ReadAddsBuiltIn DEF ReadServers, Settled
    <3> QED
      BY <3>1, <3>2 DEF CallInv, WriterInv, ReaderInv, Writes
  <2> QED
    BY <2>1, <2>2
<1>3. ASSUME NEW b \in Calls, StoreRead(b) PROVE CallInv(c)'
  <2>1. CASE c # b
    BY <1>3, <2>1, WaitingCall DEF StoreRead, Writes
  <2>2. CASE c = b
    BY <1>3, <2>2 DEF StoreRead, CallInv, WriterInv, ReaderInv, Writes
  <2> QED
    BY <2>1, <2>2
<1>4. ASSUME NEW b \in Calls, StoreSaved(b) PROVE CallInv(c)'
  <2>1. CASE c # b
    BY <1>4, <2>1, WaitingCall DEF StoreSaved, Writes
  <2>2. CASE c = b
    <3>1. pc'[c] = "stored" /\ More(c)' = More(c) /\ arg' = arg
      BY <1>4, <2>2 DEF StoreSaved, More
    <3>2. store' = Normalized(Over(More(c), arg[c])) /\ saved' = store'
      BY <1>4, <2>2 DEF StoreSaved
    <3>3. clean' => DOMAIN More(c) \cap DOMAIN arg[c] = {}
      BY <1>4, <2>2 DEF StoreSaved
    <3> QED
      BY <3>1, <3>2, <3>3 DEF CallInv, WriterInv, ReaderInv
  <2> QED
    BY <2>1, <2>2
<1>5. ASSUME NEW b \in Calls, OpenFile(b) PROVE CallInv(c)'
  <2>1. CASE c # b
    BY <1>5, <2>1, WaitingCall DEF OpenFile, Writes
  <2>2. CASE c = b
    <3>1. pc[c] \in Writes /\ More(c)' = More(c) /\ UNCHANGED <<store, saved, clean, arg>>
      BY <1>5, <2>2 DEF OpenFile, More, Writes
    <3>2. pc'[c] \in Agents /\ (pc'[c] = "codex" => pc[c] = "between" /\ file'["claude"] = file["claude"])
      BY <1>5, <2>2 DEF OpenFile, Agents, Typed, ShapeInv
    <3> QED
      BY <3>1, <3>2 DEF CallInv, WriterInv, ReaderInv, Agents
  <2> QED
    BY <2>1, <2>2
<1>6. ASSUME NEW b \in Calls, WriteFile(b) PROVE CallInv(c)'
  <2>1. CASE c # b
    <3>1. pc[b] \in Writes /\ pc'[c] = pc[c]
      BY <1>6, <2>1 DEF WriteFile, Writes, Agents
    <3>2. pc[c] \notin {"listing"} \cup Writes
      BY <2>1, <3>1
    <3> QED
      BY <3>1, <3>2, WaitingCall
  <2>2. CASE c = b
    <3>1. PICK a \in Agents :
            /\ pc[c] = a
            /\ file' = [file EXCEPT ![a].servers = DesiredOf(arg[c], More(c), a)]
            /\ Step(c, IF a = "claude" THEN "between" ELSE "saved")
      BY <1>6, <2>2 DEF WriteFile
    <3>2. CASE a = "claude"
      <4>1. pc'[c] = "between" /\ file'["claude"].servers = DesiredOf(arg[c], More(c), "claude")
        BY <3>1, <3>2 DEF Typed, ShapeInv
      <4>2. pc[c] \in Writes /\ More(c)' = More(c) /\ UNCHANGED <<store, saved, clean, arg>>
        BY <1>6, <2>2, <3>1, <3>2 DEF WriteFile, More, Writes
      <4>3. clean => DesiredOf(arg[c], More(c), "claude") = Desired(store, "claude")
        BY <4>2, DesiredOfStored DEF CallInv, WriterInv
      <4> QED
        BY <4>1, <4>2, <4>3 DEF CallInv, WriterInv, ReaderInv
    <3>3. CASE a # "claude"
      BY <3>1, <3>3 DEF CallInv, WriterInv, ReaderInv, Writes
    <3> QED
      BY <3>2, <3>3
  <2> QED
    BY <2>1, <2>2
<1>7. ASSUME NEW b \in Calls, CallFails(b) PROVE CallInv(c)'
  <2>1. CASE c # b
    BY <1>7, <2>1, WaitingCall DEF CallFails, Writes
  <2>2. CASE c = b
    BY <1>7, <2>2 DEF CallFails, CallInv, WriterInv, ReaderInv, Writes
  <2> QED
    BY <2>1, <2>2
<1>8. ASSUME NEW v \in Visits, Mount(v) PROVE CallInv(c)'
  <2>1. CASE c # Load(v)
    BY <1>8, <2>1, WaitingCall DEF Mount, Writes
  <2>2. CASE c = Load(v)
    BY <1>8, <2>2 DEF Mount, CallInv, WriterInv, ReaderInv, Writes
  <2> QED
    BY <2>1, <2>2
<1>9. ASSUME NEW v \in Visits, Reload(v) PROVE CallInv(c)'
  <2>1. CASE c # Load(v)
    BY <1>9, <2>1, WaitingCall DEF Reload, Writes
  <2>2. CASE c = Load(v)
    BY <1>9, <2>2 DEF Reload, CallInv, WriterInv, ReaderInv, Writes
  <2> QED
    BY <2>1, <2>2
<1>10. ASSUME NEW v \in Visits, EndLoad(v) PROVE CallInv(c)'
  <2>1. CASE c # Load(v)
    BY <1>10, <2>1, WaitingCall DEF EndLoad, Writes
  <2>2. CASE c = Load(v)
    BY <1>10, <2>2 DEF EndLoad, CallInv, WriterInv, ReaderInv, Writes
  <2> QED
    BY <2>1, <2>2
<1>11. ASSUME NEW v \in Visits, Edit(v) PROVE CallInv(c)'
  <2>1. CASE c # Save(v)
    BY <1>11, <2>1, WaitingCall DEF Edit, Writes
  <2>2. CASE c = Save(v)
    BY <1>11, <2>2 DEF Edit, CallInv, WriterInv, ReaderInv, Writes
  <2> QED
    BY <2>1, <2>2
<1>12. ASSUME NEW v \in Visits, Reread(v) PROVE CallInv(c)'
  <2>1. CASE c # Save(v)
    BY <1>12, <2>1, WaitingCall DEF Reread, Writes
  <2>2. CASE c = Save(v)
    BY <1>12, <2>2 DEF Reread, CallInv, WriterInv, ReaderInv, Writes
  <2> QED
    BY <2>1, <2>2
<1>13. ASSUME NEW v \in Visits, EndSave(v) PROVE CallInv(c)'
  <2>1. CASE c # Save(v)
    BY <1>13, <2>1, WaitingCall DEF EndSave, Writes
  <2>2. CASE c = Save(v)
    BY <1>13, <2>2 DEF EndSave, CallInv, WriterInv, ReaderInv, Writes
  <2> QED
    BY <2>1, <2>2
<1>14. CASE Leave
  BY <1>14, WaitingCall DEF Leave, CallInv, WriterInv, ReaderInv, Writes
<1>15. CASE StartImport
  BY <1>15, WaitingCall DEF StartImport, CallInv, WriterInv, ReaderInv, Writes
<1>16. CASE ImportListed
  BY <1>16, WaitingCall DEF ImportListed, CallInv, WriterInv, ReaderInv, Writes
<1>17. CASE EndImport
  BY <1>17, WaitingCall DEF EndImport, CallInv, WriterInv, ReaderInv, Writes
<1>18. CASE OthersWrite
  <2>1. ~clean' /\ UNCHANGED <<store, calls, saved>>
    BY <1>18 DEF OthersWrite
  <2>2. More(c)' = More(c)
    BY <2>1 DEF More
  <2> QED
    BY <2>1, <2>2 DEF CallInv, WriterInv, ReaderInv
<1>19. CASE Restart
  BY <1>19, WaitingCall DEF Restart, CallInv, WriterInv, ReaderInv, Writes
<1>20. CASE UNCHANGED vars
  BY <1>20, WaitingCall DEF vars
<1> QED
  BY <1>1, <1>2, <1>3, <1>4, <1>5, <1>6, <1>7, <1>8, <1>9, <1>10, <1>11, <1>12, <1>13, <1>14, <1>15, <1>16, <1>17, <1>18, <1>19, <1>20 DEF Next

-----------------------------------------------------------------------------
(* The files.                                                              *)

Agreement == FilesAgree /\ SavedIsListed

LEMMA AgreementKept ==
  ASSUME Agreement, UNCHANGED <<store, file, saved>>, Settled' => Settled
  PROVE  Agreement'
BY DEF Agreement, FilesAgree, SavedIsListed

LEMMA NothingSettled ==
  ASSUME ~Settled
  PROVE  Agreement
BY DEF Agreement, FilesAgree, SavedIsListed

\* A step outside of the mutex settles nothing.
LEMMA StillSettled ==
  ASSUME Typed, NEW b \in Calls, NEW s, Step(b, s), lock' = lock, clean' = clean,
         pc[b] \notin {"listing"} \cup Writes
  PROVE  Settled' => Settled
BY OneHolder DEF Settled, Step, Typed, TypeOK

\* The built-in servers are on for no agent, and one that gets its arguments back
\* stays on where it was.
LEMMA EnsureDesired ==
  ASSUME NEW l, IsList(l), NEW a
  PROVE  /\ DOMAIN Desired(ensureBuiltInServers(l), a) = DOMAIN Desired(l, a)
         /\ \A n \in DOMAIN Desired(l, a) :
              \/ Desired(ensureBuiltInServers(l), a)[n] = Desired(l, a)[n]
              \/ Desired(l, a)[n] = "bare" /\ n \in DOMAIN BuiltIn
<1> DEFINE e == ensureBuiltInServers(l)
<1>1. DOMAIN e = DOMAIN l \cup DOMAIN BuiltIn
  BY DEF ensureBuiltInServers
<1>2. ASSUME NEW n \in DOMAIN e \ DOMAIN l PROVE e[n].on = {}
  BY <1>2 DEF ensureBuiltInServers, Server
<1>3. ASSUME NEW n \in DOMAIN l
      PROVE  e[n].on = l[n].on /\ (e[n].config = l[n].config \/ (l[n].config = "bare" /\ n \in DOMAIN BuiltIn))
  BY <1>3 DEF ensureBuiltInServers, Server
<1> HIDE DEF e
<1>4. ASSUME NEW n PROVE n \in DOMAIN Desired(e, a) <=> n \in DOMAIN Desired(l, a)
  BY <1>1, <1>2, <1>3, DesiredFacts
<1>5. ASSUME NEW n \in DOMAIN Desired(l, a)
      PROVE  \/ Desired(e, a)[n] = Desired(l, a)[n]
             \/ Desired(l, a)[n] = "bare" /\ n \in DOMAIN BuiltIn
  BY <1>1, <1>3, <1>4, DesiredFacts
<1> QED
  BY <1>4, <1>5 DEF e

\* What is saved after reading changes nothing that the files show.
LEMMA ReadAgrees ==
  ASSUME Agreement, Settled, IsList(store), IsList(saved), store' = ensureBuiltInServers(store), UNCHANGED <<file, saved>>
  PROVE  Agreement'
<1>1. ASSUME NEW a \in Agents
      PROVE  LET d == Desired(store', a) IN
             /\ DOMAIN file[a].servers = DOMAIN d
             /\ \A n \in DOMAIN d : file[a].servers[n] \in {d[n]} \cup (IF n \in DOMAIN BuiltIn THEN {"bare"} ELSE {})
  <2>1. /\ DOMAIN file[a].servers = DOMAIN Desired(store, a)
        /\ \A n \in DOMAIN Desired(store, a) :
             file[a].servers[n] = Desired(store, a)[n] \/ (n \in DOMAIN BuiltIn /\ file[a].servers[n] = "bare")
    BY DEF Agreement, FilesAgree
  <2> QED
    BY <2>1, EnsureDesired
<1>2. store' \in {saved, ensureBuiltInServers(saved)}
  BY EnsureTwice DEF Agreement, SavedIsListed
<1>3. FilesAgree'
  BY <1>1 DEF FilesAgree
<1>4. SavedIsListed'
  BY <1>2 DEF SavedIsListed
<1> QED
  BY <1>3, <1>4 DEF Agreement

LEMMA StepAgreement ==
  ASSUME Typed, \A c \in Calls : CallInv(c), Agreement, [Next]_vars
  PROVE  Agreement'
<1>b. DOMAIN pc = Calls /\ DOMAIN arg = Calls /\ IsList(store) /\ IsList(saved)
  BY DEF Typed, TypeOK, ShapeInv
<1>c. \A b \in Calls : b # Free
  BY CallsFacts
<1> USE <1>b, <1>c DEF disk, calls, page, counts, ghosts
<1>1. ASSUME NEW c \in Calls, ListFails(c) PROVE Agreement'
  BY <1>1, AgreementKept DEF ListFails, Settled
<1>2. ASSUME NEW c \in Calls, ReadServers(c) PROVE Agreement'
  BY <1>2, AgreementKept DEF ReadServers, Settled
<1>3. ASSUME NEW c \in Calls, StoreRead(c) PROVE Agreement'
  <2>1. CASE clean
    <3>1. Settled
      BY <1>3, <2>1, OneHolder DEF StoreRead, Settled
    <3>2. store' = ensureBuiltInServers(store)
      BY <1>3, <2>1 DEF StoreRead, CallInv, ReaderInv
    <3> QED
      BY <1>3, <3>1, <3>2, ReadAgrees DEF StoreRead
  <2>2. CASE ~clean
    BY <1>3, <2>2, NothingSettled DEF StoreRead, Settled, Agreement, FilesAgree, SavedIsListed
  <2> QED
    BY <2>1, <2>2
<1>4. ASSUME NEW c \in Calls, StoreSaved(c) PROVE Agreement'
  <2>1. lock' = c /\ pc'[c] = "stored"
    BY <1>4 DEF StoreSaved, Step
  <2> QED
    BY <2>1 DEF Settled, Agreement, FilesAgree, SavedIsListed
<1>5. ASSUME NEW c \in Calls, OpenFile(c) PROVE Agreement'
  <2>1. lock' = c /\ pc'[c] \in Agents
    BY <1>5, OneHolder DEF OpenFile, Step, Writes, Agents
  <2> QED
    BY <2>1 DEF Settled, Agents, Agreement, FilesAgree, SavedIsListed
<1>6. ASSUME NEW c \in Calls, WriteFile(c) PROVE Agreement'
  <2>1. lock = c /\ pc[c] \in Agents
    BY <1>6, OneHolder DEF WriteFile, Writes, Agents
  <2>2. CASE pc[c] = "claude"
    <3>1. lock' = c /\ pc'[c] = "between"
      BY <1>6, <2>1, <2>2 DEF WriteFile, Step
    <3> QED
      BY <3>1 DEF Settled, Agreement, FilesAgree, SavedIsListed
  <2>3. CASE pc[c] = "codex" /\ clean
    <3>1. file' = [file EXCEPT !["codex"].servers = DesiredOf(arg[c], More(c), "codex")]
      BY <1>6, <2>3 DEF WriteFile
    <3>2. /\ file'["codex"].servers = DesiredOf(arg[c], More(c), "codex")
          /\ file'["claude"] = file["claude"]
      BY <3>1 DEF Typed, ShapeInv, Agents
    <3>3. DesiredOf(arg[c], More(c), "codex") = Desired(store, "codex")
      BY <2>3, DesiredOfStored DEF CallInv, WriterInv, Writes
    <3>4. file["claude"].servers = Desired(store, "claude") /\ store = saved
      BY <2>3 DEF CallInv, WriterInv, Writes
    <3>5. \A a \in Agents : file'[a].servers = Desired(store, a)
      BY <3>2, <3>3, <3>4 DEF Agents
    <3>6. UNCHANGED <<store, saved>>
      BY <1>6 DEF WriteFile
    <3> QED
      BY <3>4, <3>5, <3>6 DEF Agreement, FilesAgree, SavedIsListed
  <2>4. CASE ~clean
    BY <1>6, <2>4 DEF WriteFile, Settled, Agreement, FilesAgree, SavedIsListed
  <2> QED
    BY <2>1, <2>2, <2>3, <2>4 DEF Agents
<1>7. ASSUME NEW c \in Calls, CallFails(c) PROVE Agreement'
  <2>1. (pc[c] = "save" /\ lock = Free) \/ lock = c
    BY <1>7 DEF CallFails
  <2>2. clean' => clean /\ pc[c] \in {"save", "listing"}
    BY <1>7 DEF CallFails
  <2>3. lock = c => pc[c] # "save"
    BY OneHolder DEF Writes
  <2>4. Settled' => Settled
    BY <2>1, <2>2, <2>3 DEF Settled
  <2> QED
    BY <1>7, <2>4, AgreementKept DEF CallFails
<1>8. ASSUME NEW v \in Visits, Mount(v) PROVE Agreement'
  BY <1>8, CallsFacts, StillSettled, AgreementKept DEF Mount, Writes
<1>9. ASSUME NEW v \in Visits, Reload(v) PROVE Agreement'
  BY <1>9, CallsFacts, StillSettled, AgreementKept DEF Reload, Writes
<1>10. ASSUME NEW v \in Visits, EndLoad(v) PROVE Agreement'
  BY <1>10, CallsFacts, StillSettled, AgreementKept DEF EndLoad, Writes
<1>11. ASSUME NEW v \in Visits, Edit(v) PROVE Agreement'
  BY <1>11, CallsFacts, StillSettled, AgreementKept DEF Edit, Writes
<1>12. ASSUME NEW v \in Visits, Reread(v) PROVE Agreement'
  BY <1>12, CallsFacts, StillSettled, AgreementKept DEF Reread, Writes
<1>13. ASSUME NEW v \in Visits, EndSave(v) PROVE Agreement'
  BY <1>13, CallsFacts, StillSettled, AgreementKept DEF EndSave, Writes
<1>14. CASE Leave
  BY <1>14, AgreementKept DEF Leave, Settled
<1>15. CASE StartImport
  BY <1>15, CallsFacts, StillSettled, AgreementKept DEF StartImport, Writes
<1>16. CASE ImportListed
  <2>1. PICK s \in {"save", "done", "list"} : Step(Import, s)
    BY <1>16 DEF ImportListed
  <2> QED
    BY <1>16, <2>1, CallsFacts, StillSettled, AgreementKept DEF ImportListed, Writes
<1>17. CASE EndImport
  BY <1>17, CallsFacts, StillSettled, AgreementKept DEF EndImport, Writes
<1>18. CASE OthersWrite
  <2>1. ~clean'
    BY <1>18 DEF OthersWrite
  <2> QED
    BY <2>1 DEF Settled, Agreement, FilesAgree, SavedIsListed
<1>19. CASE Restart
  BY <1>19, AgreementKept DEF Restart, Settled
<1>20. CASE UNCHANGED vars
  BY <1>20, AgreementKept DEF vars, Settled
<1> QED
  BY <1>1, <1>2, <1>3, <1>4, <1>5, <1>6, <1>7, <1>8, <1>9, <1>10, <1>11, <1>12, <1>13, <1>14,
     <1>15, <1>16, <1>17, <1>18, <1>19, <1>20 DEF Next

-----------------------------------------------------------------------------
(* The theorems.                                                           *)

IInv == Typed /\ (\A c \in Calls : CallInv(c)) /\ Agreement

LEMMA SpecInv == Spec => []IInv
<1>1. ASSUME Init PROVE IInv
  <2>1. Typed
    BY <1>1, InitType
  <2>2. \A c \in Calls : CallInv(c)
    BY <1>1, RestingCall DEF Init, Writes
  <2>3. Agreement
    BY <1>1, NothingSettled DEF Init, Settled
  <2> QED
    BY <2>1, <2>2, <2>3 DEF IInv
<1>2. ASSUME IInv, [Next]_vars PROVE IInv'
  <2>1. Typed'
    BY <1>2, StepTyped DEF IInv
  <2>2. \A c \in Calls : CallInv(c)'
    BY <1>2, StepCalls DEF IInv, Agreement
  <2>3. Agreement'
    BY <1>2, StepAgreement DEF IInv
  <2>4. Calls' = Calls
    BY DEF Calls
  <2> QED
    BY <2>1, <2>2, <2>3, <2>4 DEF IInv
<1> QED
  BY <1>1, <1>2, PTL DEF Spec

\* The mutex is held by what runs under it and by nothing else, after every return,
\* the returns with an error and the end of the program included; and what is on
\* disk, carried and shown is always a list of servers.
THEOREM AlwaysTypeOK == Spec => []TypeOK
<1>1. IInv => TypeOK
  BY DEF IInv, Typed
<1> QED
  BY <1>1, SpecInv, PTL

\* After a save that succeeded both agents' files have the servers that mcp.json has
\* on for them, until a save fails half way or someone else writes one of the files.
THEOREM AlwaysFilesAgree == Spec => []FilesAgree
<1>1. IInv => FilesAgree
  BY DEF IInv, Agreement
<1> QED
  BY <1>1, SpecInv, PTL

\* What that save has saved is what is in mcp.json, however often the list is read.
THEOREM AlwaysSavedIsListed == Spec => []SavedIsListed
<1>1. IInv => SavedIsListed
  BY DEF IInv, Agreement
<1> QED
  BY <1>1, SpecInv, PTL
=============================================================================
