--------------------------- MODULE ProxySettings ---------------------------
(***************************************************************************)
(* Pointing Claude Code or Codex at the relay and back: EnableProxy and    *)
(* DisableProxy of services/claudesettings.go and codexsettings.go, driven *)
(* by the switch of the main page.  The files belong to the agent: its     *)
(* user edits them, and syncCodexServers of services/mcpservice.go rewrites *)
(* Codex's config.toml.  Neither side takes a lock.                        *)
(*                                                                         *)
(* The files name the relay by its port.  That is read from app.json       *)
(* (services/appsettings.go) when the program starts, and kept until it    *)
(* ends, whatever is saved meanwhile.                                      *)
(*                                                                         *)
(* Every call on the file system is a step.  os.WriteFile is two: the file *)
(* is empty between them.  A call that fails, or the end of the program,   *)
(* may come before any step.                                               *)
(***************************************************************************)
EXTENDS Naturals, Sequences

CONSTANTS
  Agents,        \* the agents to model: claude, codex
  Data,          \* what users may have in a file
  Servers,       \* the MCP server lists that may be saved
  NoServers,     \* the empty one
  Ports,         \* the ports that may be saved, of those that SaveAppSettings lets pass
  DefaultPort,   \* defaultRelayPort
  Limits         \* bounds on edits by the user, MCP saves, saves of the settings, and
                 \* failed calls and ends of the program

NoData == "none"
Broken == "broken"

ASSUME AgentsAssumption == Agents \subseteq {"claude", "codex"}
ASSUME DataAssumption == NoData \notin Data /\ "absent" \notin Data
ASSUME ServersAssumption == NoServers \in Servers
ASSUME PortsAssumption == Ports \subseteq Nat \ {0} /\ DefaultPort \in Ports
ASSUME LimitsAssumption == Limits \subseteq [edits : Nat, syncs : Nat, moves : Nat, interrupts : Nat]

NoPort == 0

\* The files of an agent, in the order they are treated.
FilesOf(a) == IF a = "claude" THEN <<"settings">> ELSE <<"config", "auth">>
Names == {"settings", "config", "auth"}

\* data: the user's part, which may not parse.  Under the keys that EnableProxy writes,
\* the token, the model, the provider and its address, there is either what the user
\* had there, if anything (own), or the relay, by its port (proxied).
Content == [data : Data \cup {NoData, Broken}, own : BOOLEAN, proxied : Ports \cup {NoPort}, servers : Servers]
Absent == [data |-> "absent", own |-> FALSE, proxied |-> NoPort, servers |-> NoServers]
Blank == [data |-> NoData, own |-> FALSE, proxied |-> NoPort, servers |-> NoServers]
Written(d) == [data |-> d, own |-> TRUE, proxied |-> NoPort, servers |-> NoServers]  \* by the user

VARIABLES
  agent,
  file, backup,  \* the agent's files and the copies made of them
  pc, at,        \* the step of the switch and the position of its file
  content,       \* what it read
  ui,            \* proxyStates: whether the page shows the proxy as enabled
  mpc, payload,  \* syncCodexServers: its step, and what it read
  port,          \* relayAddr: the port since the program started
  saved, wanted, \* RelayPort of app.json, NoPort if the file is empty, and what is being written
  limit,         \* the bounds
  edits, syncs, moves, interrupts,
  stage,         \* on: EnableProxy has begun; undone: DisableProxy has, too; off: it ended
  original,      \* the files when EnableProxy first began
  reached,       \* those of them that EnableProxy has read since
  again,         \* EnableProxy has begun more than once since
  raced          \* a switch and an MCP save have run at the same time

disk == <<file, backup>>
switch == <<pc, at, content, ui>>
sync == <<mpc, payload>>
settings == <<port, saved, wanted>>
counts == <<limit, edits, syncs, moves, interrupts>>
ghosts == <<stage, original, reached, again, raced>>
vars == <<agent, disk, switch, sync, settings, counts, ghosts>>

Steps == {"idle", "read", "backup", "copy", "merge", "write", "remove", "restore"}

TypeOK ==
  /\ agent \in Agents
  /\ file \in [Names -> Content \cup {Absent}]
  /\ backup \in [Names -> Content \cup {Absent}]
  /\ pc \in Steps
  /\ at \in 1..Len(FilesOf(agent))
  /\ content \in Content \cup {Absent}
  /\ ui \in BOOLEAN
  /\ mpc \in {"idle", "read", "write"}
  /\ payload \in Content
  /\ port \in Ports
  /\ {saved, wanted} \subseteq Ports \cup {NoPort}
  /\ limit \in Limits
  /\ edits \in 0..limit.edits /\ syncs \in 0..limit.syncs
  /\ moves \in 0..limit.moves /\ interrupts \in 0..limit.interrupts
  /\ stage \in {"off", "on", "undone"}
  /\ original \in [Names -> Content \cup {Absent}]
  /\ reached \subseteq Names
  /\ again \in BOOLEAN /\ raced \in BOOLEAN

-----------------------------------------------------------------------------
Files == FilesOf(agent)
This == Files[at]

\* Mutation: nothing is made of an absent file.
Redirected_Nil(c) == [c EXCEPT !.own = FALSE, !.proxied = port]

\* The relay's values are written over the user's own under the same keys; what is
\* under other keys stays.  An absent file gets only them.
Redirected(c) ==
  IF c = Absent THEN [Blank EXCEPT !.proxied = port] ELSE [c EXCEPT !.own = FALSE, !.proxied = port]

\* A file that is absent or does not parse, or names another port, shows no proxy.
ProxyStatus == LET c == file[Files[1]] IN c.data # Broken /\ c.proxied = port

-----------------------------------------------------------------------------
(* The switch.                                                             *)

RefreshProxyState ==
  /\ ui # ProxyStatus
  /\ ui' = ProxyStatus
  /\ UNCHANGED <<agent, disk, pc, at, content, sync, settings, counts, ghosts>>

\* proxyBusy: one at a time.
StartEnable ==
  /\ pc = "idle"
  /\ ~ui
  /\ pc' = "read" /\ at' = 1
  /\ stage' = IF stage = "off" THEN "on" ELSE stage
  /\ original' = IF stage = "off" THEN file ELSE original
  /\ again' = (stage # "off")
  /\ raced' = (raced \/ mpc # "idle")
  /\ UNCHANGED <<agent, disk, content, ui, sync, settings, counts, reached>>

\* Mutation: every EnableProxy makes a copy.
ReadSettings_CopiesAgain ==
  /\ pc = "read"
  /\ content' = file[This]
  /\ pc' = IF file[This] # Absent THEN "backup" ELSE "merge"
  /\ reached' = reached \cup {This}
  /\ UNCHANGED <<agent, disk, at, ui, sync, settings, counts, stage, original, again, raced>>

\* Mutation: only the first file is copied.
ReadSettings_CopiesFirst ==
  /\ pc = "read"
  /\ content' = file[This]
  /\ pc' = IF at = 1 /\ file[This] # Absent /\ backup[This] = Absent THEN "backup" ELSE "merge"
  /\ reached' = reached \cup {This}
  /\ UNCHANGED <<agent, disk, at, ui, sync, settings, counts, stage, original, again, raced>>

\* An existing file is copied unless there is a copy already.
ReadSettings ==
  /\ pc = "read"
  /\ content' = file[This]
  /\ pc' = IF file[This] # Absent /\ backup[This] = Absent THEN "backup" ELSE "merge"
  /\ reached' = reached \cup {This}
  /\ UNCHANGED <<agent, disk, at, ui, sync, settings, counts, stage, original, again, raced>>

OpenBackup ==
  /\ pc = "backup"
  /\ backup' = [backup EXCEPT ![This] = Blank]
  /\ pc' = "copy"
  /\ UNCHANGED <<agent, file, at, content, ui, sync, settings, counts, ghosts>>

WriteBackup ==
  /\ pc = "copy"
  /\ backup' = [backup EXCEPT ![This] = content]
  /\ pc' = "merge"
  /\ UNCHANGED <<agent, file, at, content, ui, sync, settings, counts, ghosts>>

\* A file that does not parse ends the call with an error.
RefuseBroken ==
  /\ pc = "merge"
  /\ content.data = Broken
  /\ pc' = "idle" /\ at' = 1
  /\ UNCHANGED <<agent, disk, content, ui, sync, settings, counts, ghosts>>

OpenSettings ==
  /\ pc = "merge"
  /\ content.data # Broken
  /\ file' = [file EXCEPT ![This] = Blank]
  /\ pc' = "write"
  /\ UNCHANGED <<agent, backup, at, content, ui, sync, settings, counts, ghosts>>

WriteSettings ==
  /\ pc = "write"
  /\ file' = [file EXCEPT ![This] = Redirected(content)]
  /\ IF at < Len(Files) THEN at' = at + 1 /\ pc' = "read" /\ ui' = ui
                        ELSE at' = 1 /\ pc' = "idle" /\ ui' = TRUE
  /\ UNCHANGED <<agent, backup, content, sync, settings, counts, ghosts>>

StartDisable ==
  /\ pc = "idle"
  /\ ui
  /\ pc' = "remove" /\ at' = 1
  /\ stage' = "undone"
  /\ raced' = (raced \/ mpc # "idle")
  /\ UNCHANGED <<agent, disk, content, ui, sync, settings, counts, original, reached, again>>

RemoveSettings ==
  /\ pc = "remove"
  /\ file' = [file EXCEPT ![This] = Absent]
  /\ pc' = "restore"
  /\ UNCHANGED <<agent, backup, at, content, ui, sync, settings, counts, ghosts>>

LastRestore == pc = "restore" /\ at = Len(Files)

\* A copy, if there is one, takes the place of the file.
RestoreBackup ==
  /\ pc = "restore"
  /\ file' = [file EXCEPT ![This] = IF backup[This] = Absent THEN file[This] ELSE backup[This]]
  /\ backup' = [backup EXCEPT ![This] = Absent]
  /\ IF LastRestore
     THEN /\ at' = 1 /\ pc' = "idle" /\ ui' = FALSE
          /\ stage' = "off" /\ original' = [n \in Names |-> Absent]
          /\ reached' = {} /\ again' = FALSE
     ELSE at' = at + 1 /\ pc' = "remove" /\ UNCHANGED <<ui, stage, original, reached, again>>
  /\ UNCHANGED <<agent, content, sync, settings, counts, raced>>

-----------------------------------------------------------------------------
(* What comes between.                                                     *)

\* A call on the file system fails, and with it the switch.
SwitchFails ==
  /\ pc # "idle"
  /\ interrupts < limit.interrupts
  /\ pc' = "idle" /\ at' = 1
  /\ interrupts' = interrupts + 1
  /\ UNCHANGED <<agent, disk, content, ui, sync, settings, limit, edits, syncs, moves, ghosts>>

\* An empty app.json is that of the default settings.
PortAtStart == IF saved = NoPort THEN DefaultPort ELSE saved

\* The program ends and is started again; the page shows no proxy at first.
Restart ==
  LET busy == pc # "idle" \/ mpc # "idle" \/ wanted # NoPort IN
  /\ IF busy THEN interrupts < limit.interrupts /\ interrupts' = interrupts + 1
             ELSE saved # port /\ UNCHANGED interrupts
  /\ pc' = "idle" /\ at' = 1 /\ mpc' = "idle" /\ ui' = FALSE
  /\ port' = PortAtStart /\ wanted' = NoPort
  /\ UNCHANGED <<agent, disk, content, payload, saved, limit, edits, syncs, moves, ghosts>>

\* The page is opened anew and used before the status has come.
Remount ==
  /\ pc = "idle"
  /\ ui /\ ui' = FALSE
  /\ UNCHANGED <<agent, disk, pc, at, content, sync, settings, counts, ghosts>>

\* Two contents with the same part of the user's.
SameUser(c, d) == c.data = d.data /\ c.own = d.own

\* The user leaves the relay's values in the file, or puts his own back.
UserEdits ==
  /\ pc = "idle" /\ mpc = "idle"
  /\ edits < limit.edits
  /\ edits' = edits + 1
  /\ \E i \in DOMAIN Files, d \in Data : \E p \in {NoPort, file[Files[i]].proxied} :
       LET f == Files[i]
           new == [file[f] EXCEPT !.data = d, !.own = (p = NoPort), !.proxied = p]
           copied == SameUser(backup[f], original[f]) \/ backup[f] \notin {Absent, Blank}
           kept == stage # "on" \/ original[f] = Absent \/ copied
       IN /\ file' = [file EXCEPT ![f] = new]
          /\ original' = IF kept THEN original ELSE [original EXCEPT ![f] = new]
  /\ UNCHANGED <<agent, backup, switch, sync, settings, limit, syncs, moves, interrupts, stage, reached, again, raced>>

\* syncCodexServers: what does not parse is taken for empty.
SyncReads ==
  /\ agent = "codex"
  /\ mpc = "idle"
  /\ syncs < limit.syncs
  /\ syncs' = syncs + 1
  /\ payload' = IF file["config"].data \in {Broken, "absent"} THEN Blank ELSE file["config"]
  /\ mpc' = "read"
  /\ raced' = (raced \/ pc # "idle")
  /\ UNCHANGED <<agent, disk, switch, settings, limit, edits, moves, interrupts, stage, original, reached, again>>

SyncOpens ==
  /\ mpc = "read"
  /\ file' = [file EXCEPT !["config"] = Blank]
  /\ mpc' = "write"
  /\ UNCHANGED <<agent, backup, switch, payload, settings, counts, ghosts>>

SyncWrites ==
  /\ mpc = "write"
  /\ \E s \in Servers : file' = [file EXCEPT !["config"] = [payload EXCEPT !.servers = s]]
  /\ mpc' = "idle"
  /\ UNCHANGED <<agent, backup, switch, payload, settings, counts, ghosts>>

\* SaveAppSettings writes app.json in two steps, whichever setting is new.
SaveOpens ==
  /\ wanted = NoPort
  /\ moves < limit.moves
  /\ moves' = moves + 1
  /\ wanted' \in Ports
  /\ saved' = NoPort
  /\ UNCHANGED <<agent, disk, switch, sync, port, limit, edits, syncs, interrupts, ghosts>>

SaveWrites ==
  /\ wanted # NoPort
  /\ saved' = wanted /\ wanted' = NoPort
  /\ UNCHANGED <<agent, disk, switch, sync, port, counts, ghosts>>

-----------------------------------------------------------------------------
Init ==
  /\ agent \in Agents
  /\ file \in [Names -> {Absent} \cup {Written(d) : d \in Data}]
  /\ \A n \in Names : n \notin {Files[i] : i \in DOMAIN Files} => file[n] = Absent
  /\ backup = [n \in Names |-> Absent]
  /\ pc = "idle" /\ at = 1 /\ content = Blank /\ ui = FALSE
  /\ mpc = "idle" /\ payload = Blank
  /\ port = DefaultPort /\ saved = DefaultPort /\ wanted = NoPort
  /\ limit \in Limits
  /\ edits = 0 /\ syncs = 0 /\ moves = 0 /\ interrupts = 0
  /\ stage = "off"
  /\ original = [n \in Names |-> Absent]
  /\ reached = {} /\ again = FALSE /\ raced = FALSE

Next ==
  \/ RefreshProxyState \/ StartEnable \/ ReadSettings \/ OpenBackup \/ WriteBackup
  \/ RefuseBroken \/ OpenSettings \/ WriteSettings
  \/ StartDisable \/ RemoveSettings \/ RestoreBackup
  \/ SwitchFails \/ Restart \/ Remount \/ UserEdits
  \/ SyncReads \/ SyncOpens \/ SyncWrites
  \/ SaveOpens \/ SaveWrites

Spec == Init /\ [][Next]_vars

-----------------------------------------------------------------------------
(* Properties.                                                             *)

Calm == interrupts = 0 /\ ~raced

\* A DisableProxy that ends puts back every file there was when the proxy was
\* first enabled and that EnableProxy has got to, to the byte, however often it was
\* enabled again and whatever was written in between: also where the user repaired
\* the file meanwhile, or an MCP save added servers to it.  Where there was no file
\* it leaves none, unless the proxy was enabled again: that call copies what the
\* first one wrote.
RestoresOriginal ==
  [][LastRestore /\ pc' = "idle" /\ Calm' =>
       \A i \in DOMAIN Files : Files[i] \in reached /\ (original[Files[i]] # Absent \/ ~again) =>
         file'[Files[i]] = original[Files[i]]]_vars

\* The user's part of a file is in the hands of the call that writes it.
InHands(f) == pc = "write" /\ f = This

\* Until DisableProxy is called, what the user had in a file is in the file, in
\* its copy or in the hands of the call that writes it, his own token and address
\* included, although one call may fail, or the program end, at any step of
\* EnableProxy.  But where it ended between the creation of the copy and the write
\* into it, the next EnableProxy keeps the empty copy and writes over the file: then
\* what it does not write over is there, and the user's own values are nowhere.  And
\* not so for a config that does not parse: when EnableProxy ended before the copy, an
\* MCP save takes it for empty and writes over it.
OriginalSurvivesEnable ==
  stage = "on" /\ interrupts <= 1 /\ ~raced /\ mpc # "write" =>
    \A i \in DOMAIN Files : LET f == Files[i]  user == original[f] IN
      user # Absent /\ (f = "config" => user.data # Broken) =>
        \/ SameUser(file[f], user) \/ SameUser(backup[f], user)
        \/ InHands(f) /\ SameUser(content, user)
        \/ /\ backup[f] = Blank /\ interrupts = 1
           /\ file[f].data = user.data \/ (InHands(f) /\ content.data = user.data)
============================================================================
