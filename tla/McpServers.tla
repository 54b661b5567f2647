----------------------------- MODULE McpServers -----------------------------
(***************************************************************************)
(* One list of MCP servers and the two files of other programs that follow *)
(* it: ListServers and SaveServers of services/mcpservice.go, called by    *)
(* the MCP page (frontend Mcp/index.vue) and by the import of              *)
(* services/importservice.go.                                              *)
(*                                                                         *)
(* Both run under one mutex.  SaveServers writes mcp.json by a rename,     *)
(* then Claude's .claude.json, then Codex's config.toml in place.          *)
(* ListServers takes in what Claude's file has and the list has not, but   *)
(* nothing from Codex's.  What else the files hold is left out.            *)
(*                                                                         *)
(* A server is its configuration, which may have placeholders ("holed") or *)
(* lack arguments ("bare"), and the agents it is on for.                   *)
(***************************************************************************)
EXTENDS Naturals

CONSTANTS
  Names,
  BuiltIn,    \* the configurations of builtInServers, by name
  FormServers, \* the servers that the form of the page makes
  Imported,   \* the names in the file that is imported
  MaxVisits,  \* bound on visits to the MCP page
  MaxEdits,   \* bound on edits there
  MaxEvents   \* bound on reloads, imports, failed calls, crashes and writes by others, together

Agents == {"claude", "codex"}
Configs == {"plain", "bare", "holed"}

ASSUME BoundsAssumption == MaxVisits \in Nat /\ MaxEdits \in Nat /\ MaxEvents \in Nat

Server(config, on) == [config |-> config, on |-> on]
Servers == {Server(c, on) : c \in Configs, on \in SUBSET Agents}
None == <<>>

ASSUME NamesAssumption ==
  /\ Imported \subseteq Names /\ FormServers \subseteq Servers
  /\ DOMAIN BuiltIn \subseteq Names /\ \A n \in DOMAIN BuiltIn : BuiltIn[n] \in Configs \ {"bare"}

Visits == 1..MaxVisits
Load(v) == <<"load", v>>  \* loadServers of a page, outside of a save
Save(v) == <<"save", v>>  \* persistServers of a page
Import == <<"import", 0>>
Calls == {Load(v) : v \in Visits} \cup {Save(v) : v \in Visits} \cup {Import}
Free == <<"free", 0>>

VARIABLES
  store,    \* mcp.json
  file,     \* what each agent's file says of servers, and whether it parses: of importance for Claude's only
  lock,     \* the call that has the mutex
  pc, arg,  \* the step of each call, and the list it carries
  extra,    \* the servers an import adds to the list
  shown,    \* the visit to the page that is on the screen; 0 for another page
  servers,  \* the list it shows
  edits, events,
  saved,    \* the list of the last save
  clean     \* nothing has failed since that save began, and no one else has written an agent's file

disk == <<store, file>>
calls == <<lock, pc, arg, extra>>
page == <<shown, servers>>
counts == <<edits, events>>
ghosts == <<saved, clean>>
vars == <<disk, calls, page, counts, ghosts>>

IsList(l) == DOMAIN l \subseteq Names /\ \A n \in DOMAIN l : l[n] \in Servers

Steps == {"idle", "list", "listing", "listed", "save", "stored", "claude", "between", "codex", "saved", "failed", "done"}

TypeOK ==
  /\ IsList(store)
  /\ \A a \in Agents : file[a].ok \in BOOLEAN /\ DOMAIN file[a].servers \subseteq Names
  /\ lock \in Calls \cup {Free}
  /\ pc \in [Calls -> Steps]
  /\ \A c \in Calls : IsList(arg[c])
  /\ IsList(extra)
  /\ shown \in 0..MaxVisits
  /\ IsList(servers)
  /\ edits \in 0..MaxEdits /\ events \in 0..MaxEvents
  /\ IsList(saved)
  /\ clean \in BOOLEAN
  \* Only what runs under the mutex holds it.
  /\ \A c \in Calls : lock = c <=> pc[c] \in {"listing", "stored", "claude", "between", "codex"}

-----------------------------------------------------------------------------
(* Lists.                                                                  *)

\* The entries of l and of m, which give way.
Over(l, m) == [n \in DOMAIN l \cup DOMAIN m |-> IF n \in DOMAIN l THEN l[n] ELSE m[n]]

With(l, n, s) == [m \in {n} \cup DOMAIN l |-> IF m = n THEN s ELSE l[m]]

\* What Claude's file has and the list has not.
importFromClaude(l, entries) ==
  [n \in DOMAIN entries \ DOMAIN l |-> Server(entries[n], {"claude"})]

\* A built-in server is there, and with arguments.
ensureBuiltInServers(l) ==
  [n \in DOMAIN l \cup DOMAIN BuiltIn |->
     IF n \notin DOMAIN l THEN Server(BuiltIn[n], {})
     ELSE IF n \in DOMAIN BuiltIn /\ l[n].config = "bare" THEN Server(BuiltIn[n], l[n].on)
     ELSE l[n]]

loadConfig(l, entries) == ensureBuiltInServers(Over(importFromClaude(l, entries), l))

\* A server with placeholders is on for no agent.
Normalized(l) == [n \in DOMAIN l |-> IF l[n].config = "holed" THEN Server("holed", {}) ELSE l[n]]

\* The entries for an agent.
Desired(l, a) == [n \in {m \in DOMAIN l : a \in l[m].on} |-> l[n].config]

\* In a list that names a server twice the last one counts, among those for the agent.
DesiredOf(l, more, a) == Over(Desired(Normalized(more), a), Desired(Normalized(l), a))

-----------------------------------------------------------------------------
(* ListServers.                                                            *)

Step(c, s) == pc' = [pc EXCEPT ![c] = s]
Carry(c, l) == arg' = [arg EXCEPT ![c] = l]

\* Mutation: the mutex is kept by the return with the error.
ListFails_KeepsLock(c) ==
  /\ pc[c] = "list" /\ lock = Free
  /\ ~file["claude"].ok
  /\ Step(c, "failed")
  /\ lock' = c
  /\ UNCHANGED <<disk, arg, extra, page, counts, ghosts>>

\* A file of Claude's that does not parse is an error.
ListFails(c) ==
  /\ pc[c] = "list" /\ lock = Free
  /\ ~file["claude"].ok
  /\ Step(c, "failed")
  /\ UNCHANGED <<disk, lock, arg, extra, page, counts, ghosts>>

ReadServers(c) ==
  /\ pc[c] = "list" /\ lock = Free
  /\ file["claude"].ok
  /\ LET l == loadConfig(store, file["claude"].servers) IN
     /\ Carry(c, l)
     /\ IF l = store THEN Step(c, "listed") /\ lock' = lock ELSE Step(c, "listing") /\ lock' = c
  /\ UNCHANGED <<disk, extra, page, counts, ghosts>>

\* What has changed by reading is saved.
StoreRead(c) ==
  /\ pc[c] = "listing"
  /\ store' = arg[c]
  /\ lock' = Free
  /\ Step(c, "listed")
  /\ UNCHANGED <<file, arg, extra, page, counts, ghosts>>

-----------------------------------------------------------------------------
(* SaveServers.                                                            *)

More(c) == IF c = Import THEN extra ELSE None

\* Mutation: servers with placeholders are turned off in the agents' files only.
StoreSaved_KeepsPlatforms(c) ==
  /\ pc[c] = "save" /\ lock = Free
  /\ LET l == Over(More(c), arg[c]) IN store' = l /\ saved' = l
  /\ lock' = c
  /\ Step(c, "stored")
  /\ clean' = (DOMAIN More(c) \cap DOMAIN arg[c] = {})
  /\ UNCHANGED <<file, arg, extra, page, counts>>

\* Mutation: what Claude's file has is taken in by a save, too.
StoreSaved_TakesIn(c) ==
  /\ pc[c] = "save" /\ lock = Free
  /\ LET l == Normalized(Over(More(c), arg[c])) IN
     store' = Over(importFromClaude(l, file["claude"].servers), l) /\ saved' = l
  /\ lock' = c
  /\ Step(c, "stored")
  /\ clean' = (DOMAIN More(c) \cap DOMAIN arg[c] = {})
  /\ UNCHANGED <<file, arg, extra, page, counts>>

StoreSaved(c) ==
  /\ pc[c] = "save" /\ lock = Free
  /\ LET l == Normalized(Over(More(c), arg[c])) IN store' = l /\ saved' = l
  /\ lock' = c
  /\ Step(c, "stored")
  /\ clean' = (DOMAIN More(c) \cap DOMAIN arg[c] = {})
  /\ UNCHANGED <<file, arg, extra, page, counts>>

\* os.WriteFile empties a file first.  One that did not parse is taken for empty.
OpenFile(c) ==
  /\ pc[c] \in {"stored", "between"}
  /\ LET a == IF pc[c] = "stored" THEN "claude" ELSE "codex" IN
     /\ file' = [file EXCEPT ![a] = [ok |-> TRUE, servers |-> None]]
     /\ Step(c, a)
  /\ UNCHANGED <<store, lock, arg, extra, page, counts, ghosts>>

\* The servers in the file are replaced.
WriteFile(c) ==
  /\ pc[c] \in Agents
  /\ LET a == pc[c] IN
     /\ file' = [file EXCEPT ![a].servers = DesiredOf(arg[c], More(c), a)]
     /\ Step(c, IF a = "claude" THEN "between" ELSE "saved")
     /\ lock' = IF a = "claude" THEN lock ELSE Free
  /\ UNCHANGED <<store, arg, extra, page, counts, ghosts>>

\* A call of the file system fails, and ends the call with an error.
CallFails(c) ==
  /\ events < MaxEvents /\ events' = events + 1
  /\ (pc[c] = "save" /\ lock = Free) \/ lock = c
  /\ Step(c, "failed")
  /\ lock' = Free
  /\ clean' = (clean /\ pc[c] \in {"save", "listing"})
  /\ UNCHANGED <<disk, arg, extra, page, edits, saved>>

-----------------------------------------------------------------------------
(* The MCP page.                                                           *)

Reading(c) == pc[c] \in {"list", "listing", "listed"}

\* A visit begins with an empty list.
Mount(v) ==
  /\ shown = 0
  /\ pc[Load(v)] = "idle" /\ \A u \in Visits : u < v => pc[Load(u)] # "idle"
  /\ shown' = v
  /\ Step(Load(v), "list")
  /\ UNCHANGED <<disk, lock, arg, extra, servers, counts, ghosts>>

\* The list of a visit goes with it; its calls go on.
Leave ==
  /\ shown # 0
  /\ shown' = 0 /\ servers' = None
  /\ UNCHANGED <<disk, calls, counts, ghosts>>

\* A list that has come is shown, if it still can be.
Show(v, c) == servers' = IF shown = v /\ pc[c] = "listed" THEN arg[c] ELSE servers

\* The button is disabled while a list is read.
Reload(v) ==
  /\ shown = v
  /\ pc[Load(v)] = "done" /\ ~Reading(Save(v))
  /\ events < MaxEvents /\ events' = events + 1
  /\ Step(Load(v), "list")
  /\ UNCHANGED <<disk, lock, arg, extra, page, edits, ghosts>>

EndLoad(v) ==
  /\ pc[Load(v)] \in {"listed", "failed"}
  /\ Show(v, Load(v))
  /\ Step(Load(v), "done")
  /\ Carry(Load(v), None)
  /\ UNCHANGED <<disk, lock, extra, shown, counts, ghosts>>

\* A server added, changed, switched, or removed.  The form can turn a server on
\* before its placeholders are typed in.
Edited(l) ==
  ({With(l, n, s) : n \in Names, s \in FormServers} \ {l})
  \cup {[m \in DOMAIN l \ {n} |-> l[m]] : n \in DOMAIN l}

\* The page shows the new list at once.  Its saves come one after another
\* (saveBusy).
Edit(v) ==
  /\ shown = v
  /\ pc[Save(v)] = "idle"
  /\ edits < MaxEdits /\ edits' = edits + 1
  /\ \E l \in Edited(servers) : servers' = l /\ Carry(Save(v), l)
  /\ Step(Save(v), "save")
  /\ UNCHANGED <<disk, lock, extra, shown, events, ghosts>>

\* A save that has succeeded is followed by loadServers.
Reread(v) ==
  /\ pc[Save(v)] = "saved"
  /\ Step(Save(v), "list")
  /\ Carry(Save(v), None)
  /\ UNCHANGED <<disk, lock, extra, page, counts, ghosts>>

EndSave(v) ==
  /\ pc[Save(v)] \in {"listed", "failed"}
  /\ Show(v, Save(v))
  /\ Step(Save(v), "idle")
  /\ Carry(Save(v), None)
  /\ UNCHANGED <<disk, lock, extra, shown, counts, ghosts>>

-----------------------------------------------------------------------------
(* The import, from the settings page.  The lists that page reads to show  *)
(* what there is to import are left out: they do what ReadServers does.    *)

StartImport ==
  /\ shown = 0 /\ pc[Import] = "idle"
  /\ events < MaxEvents /\ events' = events + 1
  /\ Step(Import, "list")
  /\ UNCHANGED <<disk, lock, arg, extra, page, edits, ghosts>>

\* The list is asked for twice: to see what it lacks, and to add that.
ImportListed ==
  /\ pc[Import] = "listed"
  /\ IF extra # None THEN Step(Import, "save") /\ UNCHANGED <<arg, extra>>
     ELSE LET lacking == Imported \ DOMAIN arg[Import] IN
          /\ extra' = [n \in lacking |-> Server("plain", {"claude"})]
          /\ Step(Import, IF lacking = {} THEN "done" ELSE "list")
          /\ Carry(Import, None)
  /\ UNCHANGED <<disk, lock, page, counts, ghosts>>

EndImport ==
  /\ pc[Import] \in {"saved", "failed"}
  /\ Step(Import, "done")
  /\ Carry(Import, None) /\ extra' = None
  /\ UNCHANGED <<disk, lock, page, counts, ghosts>>

-----------------------------------------------------------------------------
(* What comes between.                                                     *)

\* The user, the agent, or the switch of the proxy writes an agent's file.
OthersWrite ==
  /\ events < MaxEvents /\ events' = events + 1
  /\ \E a \in Agents :
       \/ a = "claude" /\ file' = [file EXCEPT ![a] = [ok |-> FALSE, servers |-> None]]
       \/ \E n \in Names, c \in {"plain", "holed"} :
            file' = [file EXCEPT ![a] = [ok |-> TRUE, servers |-> With(@.servers, n, c)]]
  /\ clean' = FALSE
  /\ UNCHANGED <<store, calls, page, edits, saved>>

\* The program ends, and is started again.
Restart ==
  /\ events < MaxEvents /\ events' = events + 1
  /\ lock' = Free
  /\ pc' = [c \in Calls |-> IF pc[c] = "idle" THEN "idle" ELSE "done"]
  /\ arg' = [c \in Calls |-> None] /\ extra' = None
  /\ shown' = 0 /\ servers' = None
  /\ clean' = (clean /\ (lock = Free \/ pc[lock] = "listing"))
  /\ UNCHANGED <<disk, edits, saved>>

-----------------------------------------------------------------------------
Init ==
  /\ store = None
  /\ \E l \in {None} \cup {[m \in {n} |-> "plain"] : n \in Names}, ok \in BOOLEAN :
       /\ ok \/ l = None
       /\ file = [a \in Agents |-> IF a = "claude" THEN [ok |-> ok, servers |-> l] ELSE [ok |-> TRUE, servers |-> None]]
  /\ lock = Free
  /\ pc = [c \in Calls |-> "idle"]
  /\ arg = [c \in Calls |-> None] /\ extra = None
  /\ shown = 0
  /\ servers = None
  /\ edits = 0 /\ events = 0
  /\ saved = None /\ clean = FALSE

Next ==
  \/ \E c \in Calls :
       ListFails(c) \/ ReadServers(c) \/ StoreRead(c) \/ StoreSaved(c) \/ OpenFile(c) \/ WriteFile(c) \/ CallFails(c)
  \/ \E v \in Visits : Mount(v) \/ Reload(v) \/ EndLoad(v) \/ Edit(v) \/ Reread(v) \/ EndSave(v)
  \/ Leave
  \/ StartImport \/ ImportListed \/ EndImport
  \/ OthersWrite \/ Restart

Spec == Init /\ [][Next]_vars

-----------------------------------------------------------------------------
(* Properties.                                                             *)

Settled == clean /\ (lock = Free \/ pc[lock] = "listing")

\* After a save that succeeded each agent's file has the servers that mcp.json
\* has on for it, with the same configuration, whatever failed before and however
\* often the list has been read since: from any page, however old its list.  Only
\* arguments that a built-in server gets back are not in the files.
FilesAgree ==
  Settled => \A a \in Agents :
    LET d == Desired(store, a) IN
    /\ DOMAIN file[a].servers = DOMAIN d
    /\ \A n \in DOMAIN d : file[a].servers[n] \in {d[n]} \cup (IF n \in DOMAIN BuiltIn THEN {"bare"} ELSE {})

\* A server that was removed stays removed and one that was turned off stays off:
\* what the last save has saved is in mcp.json, with the built-in servers, however
\* often Claude's file is read.
SavedIsListed == Settled => store \in {saved, ensureBuiltInServers(saved)}
==============================================================================
