------------------------ MODULE ProxySettingsProofs ------------------------
(***************************************************************************)
(* What TLAPS proves of ProxySettings, for every agent, every set of       *)
(* contents, server lists and ports, and every bound.                      *)
(***************************************************************************)
EXTENDS ProxySettings, TLAPS

Enabling == {"read", "backup", "copy", "merge", "write"}

Positions == DOMAIN Files

\* The copy of f is being made.
Copying(f) == pc \in {"backup", "copy"} /\ f = This

\* DisableProxy leaves no copy behind.
CopiesTaken ==
  \A i \in Positions :
    stage = "off" \/ (pc \in {"remove", "restore"} /\ i < at) => backup[Files[i]] = Absent

\* What the steps of the switch know of their file, and the switch of the sync.
StepInv ==
  /\ ~raced => pc = "idle" \/ mpc = "idle"
  /\ stage = "off" => pc = "idle" /\ reached = {} /\ ~again
  /\ pc \in {"remove", "restore"} => stage = "undone"
  /\ pc = "backup" => backup[This] = Absent
  /\ pc = "copy" => backup[This] = Blank
  /\ pc = "restore" /\ ~raced => file[This] = Absent
  /\ CopiesTaken

\* A file that EnableProxy has not got to is as it was, and has no copy.
Untouched(f) == backup[f] = Absent /\ (original[f] # Absent => file[f] = original[f])

\* What is about to be copied is the file as it was.
InHand(f) == IF original[f] = Absent THEN again ELSE content = original[f]

\* The copy is the file as it was.
Copied(f) ==
  /\ original[f] # Absent => backup[f] = original[f]
  /\ original[f] = Absent /\ ~again => backup[f] = Absent

Restored(f) == original[f] # Absent \/ ~again => file[f] = original[f]

\* The first EnableProxy gets to the files one by one.
FirstPass ==
  \A i \in Positions :
    /\ Files[i] \in reached <=> i < at \/ (i = at /\ pc # "read")
    /\ Files[i] \notin reached => file[Files[i]] = original[Files[i]]

\* Where nothing has failed and no MCP save has overlapped: which file has a copy,
\* and that the copy is right.
CopyOf(i) ==
  LET f == Files[i] IN
  /\ stage = "off" \/ (stage = "undone" /\ i < at) => backup[f] = Absent
  /\ stage = "on" /\ f \notin reached => Untouched(f)
  /\ stage = "on" /\ f \in reached /\ Copying(f) => InHand(f)
  /\ stage = "on" /\ f \in reached /\ ~Copying(f) => Copied(f)
  /\ stage = "undone" /\ f \in reached => IF i < at THEN Restored(f) ELSE Copied(f)

Phases ==
  /\ pc \in Enabling => stage = "on"
  /\ stage = "undone" => pc \in {"remove", "restore"}
  /\ stage = "on" /\ (pc # "read" \/ at # 1) => Files[1] \in reached
  /\ pc \in Enabling \ {"read"} => This \in reached
  /\ pc \in Enabling /\ ~again => FirstPass

CopyInv == Calm => Phases /\ \A i \in Positions : CopyOf(i)

\* What the user had in f is in its copy.
Kept(f) == SameUser(backup[f], original[f])

Writing(f) == InHands(f) \/ (f = "config" /\ mpc = "write")

\* It is in the file, or in the hands of the one call that writes the file, and there
\* is no copy or an empty one; EnableProxy goes past the latter where some call has
\* failed before.
Carried(f) ==
  /\ backup[f] \in {Absent, Blank}
  /\ ~Writing(f) => SameUser(file[f], original[f])
  /\ This = f /\ pc \in {"backup", "copy", "merge", "write"} => SameUser(content, original[f])
  /\ f = "config" /\ mpc # "idle" => SameUser(payload, original[f])
  /\ interrupts = 0 => ~(This = f /\ pc \in {"merge", "write"}) /\ ~(f = "config" /\ mpc # "idle")
  /\ This = f /\ pc \in {"merge", "write"} => backup[f] = Blank

\* EnableProxy has written over the user's own values with nothing but an empty copy:
\* the rest is in the file, or in the hands of the call that writes it.
Halved(f) ==
  /\ backup[f] = Blank /\ interrupts # 0 /\ ~Copying(f)
  /\ ~Writing(f) => file[f].data = original[f].data
  /\ This = f /\ pc \in {"merge", "write"} => content.data = original[f].data
  /\ f = "config" /\ mpc # "idle" => payload.data = original[f].data

\* What OriginalSurvivesEnable speaks of.
Owed(f) == original[f] # Absent /\ (f = "config" => original[f].data # Broken)

Surviving(i) ==
  LET f == Files[i] IN
  Owed(f) => /\ Copying(f) => SameUser(content, original[f])
             /\ Kept(f) \/ Carried(f) \/ Halved(f)

SurviveInv == stage = "on" /\ interrupts <= 1 /\ ~raced => \A i \in Positions : Surviving(i)

-----------------------------------------------------------------------------
(* The helpers.                                                            *)

\* An agent has one file or two, and they differ.
LEMMA FilesFacts ==
  ASSUME NEW a \in Agents
  PROVE  /\ Len(FilesOf(a)) \in {1, 2}
         /\ DOMAIN FilesOf(a) = 1..Len(FilesOf(a))
         /\ \A i \in DOMAIN FilesOf(a) : FilesOf(a)[i] \in Names
         /\ \A i, j \in DOMAIN FilesOf(a) : FilesOf(a)[i] = FilesOf(a)[j] => i = j
<1>1. CASE a = "claude"
  BY <1>1 DEF FilesOf, Names
<1>2. CASE a # "claude"
  BY <1>2 DEF FilesOf, Names
<1> QED
  BY <1>1, <1>2

\* config.toml comes first.
LEMMA ConfigFirst ==
  ASSUME NEW a \in Agents, NEW i \in DOMAIN FilesOf(a), FilesOf(a)[i] = "config"
  PROVE  i = 1
<1>1. CASE a = "claude"
  BY <1>1 DEF FilesOf
<1>2. CASE a # "claude"
  BY <1>2 DEF FilesOf
<1> QED
  BY <1>1, <1>2

\* The file of the step is one of the agent's.
LEMMA ThisFile ==
  ASSUME TypeOK
  PROVE  at \in Positions /\ This = Files[at] /\ This \in Names /\ 1 \in Positions
BY FilesFacts DEF TypeOK, Files, This, Positions

LEMMA PositionFacts ==
  ASSUME TypeOK
  PROVE  /\ Positions = 1..Len(Files) /\ Len(Files) \in {1, 2}
         /\ \A i \in Positions : Files[i] \in Names
         /\ \A i, j \in Positions : Files[i] = Files[j] => i = j
BY FilesFacts DEF TypeOK, Files, Positions

\* A file that is there never has the contents of one that is not.
LEMMA ContentFacts ==
  /\ Blank \in Content
  /\ Absent.data = "absent" /\ Blank.data = NoData /\ Broken # "absent"
  /\ \A c \in Content : c # Absent /\ c.data # "absent"
BY DataAssumption, ServersAssumption DEF Content, Absent, Blank, NoData, Broken, NoPort

LEMMA RedirectedType ==
  ASSUME NEW c \in Content \cup {Absent}, port \in Ports
  PROVE  Redirected(c) \in Content /\ (c # Absent => Redirected(c).data = c.data)
<1>1. CASE c = Absent
  BY <1>1, ContentFacts DEF Redirected, Content, Blank
<1>2. CASE c # Absent
  BY <1>2 DEF Redirected, Content
<1> QED
  BY <1>1, <1>2

\* What the user puts in is a content, whether the file was there or not.
LEMMA EditedType ==
  ASSUME NEW c \in Content \cup {Absent}, NEW d \in Data, NEW p \in {NoPort, c.proxied}
  PROVE  [c EXCEPT !.data = d, !.own = (p = NoPort), !.proxied = p] \in Content
<1>1. CASE c = Absent
  BY <1>1, ServersAssumption DEF Absent, Content
<1>2. CASE c # Absent
  BY <1>2 DEF Content
<1> QED
  BY <1>1, <1>2

\* An edit by the user: one file has a new content, which counts as his own where he
\* has nothing else.
Edited(i, new) ==
  LET f == Files[i]
      copied == SameUser(backup[f], original[f]) \/ backup[f] \notin {Absent, Blank}
      kept == stage # "on" \/ original[f] = Absent \/ copied
  IN /\ file' = [file EXCEPT ![f] = new]
     /\ original' = IF kept THEN original ELSE [original EXCEPT ![f] = new]

LEMMA UserEditsOne ==
  ASSUME TypeOK, UserEdits
  PROVE  \E i \in DOMAIN Files, new \in Content : Edited(i, new)
<1>1. PICK i \in DOMAIN Files, d \in Data : \E p \in {NoPort, file[Files[i]].proxied} :
        Edited(i, [file[Files[i]] EXCEPT !.data = d, !.own = (p = NoPort), !.proxied = p])
  BY DEF UserEdits, Edited
<1>2. PICK p \in {NoPort, file[Files[i]].proxied} :
        Edited(i, [file[Files[i]] EXCEPT !.data = d, !.own = (p = NoPort), !.proxied = p])
  BY <1>1
<1>3. Files[i] \in Names
  BY FilesFacts DEF TypeOK, Files
<1>4. [file[Files[i]] EXCEPT !.data = d, !.own = (p = NoPort), !.proxied = p] \in Content
  BY <1>3, EditedType DEF TypeOK
<1> QED
  BY <1>2, <1>4

LEMMA SyncedType ==
  ASSUME NEW c \in Content, NEW s \in Servers
  PROVE  [c EXCEPT !.servers = s] \in Content /\ SameUser([c EXCEPT !.servers = s], c)
BY DEF Content, SameUser

LEMMA PortFacts == DefaultPort \in Ports /\ Ports \subseteq Nat /\ NoPort \notin Ports
BY PortsAssumption DEF NoPort

LEMMA LimitFacts ==
  ASSUME limit \in Limits
  PROVE  limit.edits \in Nat /\ limit.syncs \in Nat /\ limit.moves \in Nat /\ limit.interrupts \in Nat
BY LimitsAssumption

-----------------------------------------------------------------------------
(* Types.                                                                  *)

LEMMA InitType == Init => TypeOK
<1> SUFFICES ASSUME Init PROVE TypeOK
  OBVIOUS
<1>1. agent \in Agents /\ at = 1
  BY DEF Init
<1>2. at \in 1..Len(FilesOf(agent))
  BY <1>1, FilesFacts
<1>3. \A d \in Data : Written(d) \in Content
  BY ServersAssumption DEF Written, Content
<1>4. file \in [Names -> Content \cup {Absent}]
  BY <1>3 DEF Init
<1>5. limit.edits \in Nat /\ limit.syncs \in Nat /\ limit.moves \in Nat /\ limit.interrupts \in Nat
  BY LimitFacts DEF Init
<1>6. edits \in 0..limit.edits /\ syncs \in 0..limit.syncs /\ moves \in 0..limit.moves /\ interrupts \in 0..limit.interrupts
  BY <1>5 DEF Init
<1>7. port \in Ports /\ {saved, wanted} \subseteq Ports \cup {NoPort}
  BY PortFacts DEF Init
<1>8. backup \in [Names -> Content \cup {Absent}] /\ original \in [Names -> Content \cup {Absent}]
  BY DEF Init
<1>9. content \in Content \cup {Absent} /\ payload \in Content /\ limit \in Limits
  BY ContentFacts DEF Init
<1>10. pc \in Steps /\ mpc \in {"idle", "read", "write"} /\ stage \in {"off", "on", "undone"}
       /\ reached \subseteq Names /\ ui \in BOOLEAN /\ again \in BOOLEAN /\ raced \in BOOLEAN
  BY DEF Init, Steps
<1> QED
  BY <1>1, <1>2, <1>4, <1>6, <1>7, <1>8, <1>9, <1>10 DEF TypeOK

LEMMA StepType == TypeOK /\ [Next]_vars => TypeOK'
<1> SUFFICES ASSUME TypeOK, [Next]_vars PROVE TypeOK'
  OBVIOUS
<1> USE DEF disk, switch, sync, settings, counts, ghosts, Steps
<1>1. CASE RefreshProxyState
  BY <1>1 DEF RefreshProxyState, ProxyStatus, TypeOK
<1>2. CASE StartEnable
  BY <1>2, FilesFacts DEF StartEnable, TypeOK
<1>3. CASE ReadSettings
  BY <1>3, ThisFile DEF ReadSettings, TypeOK
<1>4. CASE OpenBackup
  BY <1>4, ThisFile, ContentFacts DEF OpenBackup, TypeOK
<1>5. CASE WriteBackup
  BY <1>5, ThisFile DEF WriteBackup, TypeOK
<1>6. CASE RefuseBroken
  BY <1>6, FilesFacts DEF RefuseBroken, TypeOK
<1>7. CASE OpenSettings
  BY <1>7, ThisFile, ContentFacts DEF OpenSettings, TypeOK
<1>8. CASE WriteSettings
  <2>1. Redirected(content) \in Content
    BY RedirectedType DEF TypeOK
  <2>2. at' \in 1..Len(FilesOf(agent))
    BY <1>8, FilesFacts DEF WriteSettings, TypeOK, Files
  <2>3. pc' \in Steps /\ ui' \in BOOLEAN
    BY <1>8 DEF WriteSettings, TypeOK
  <2> QED
    BY <1>8, <2>1, <2>2, <2>3, ThisFile DEF WriteSettings, TypeOK
<1>9. CASE StartDisable
  BY <1>9, FilesFacts DEF StartDisable, TypeOK
<1>10. CASE RemoveSettings
  BY <1>10, ThisFile DEF RemoveSettings, TypeOK
<1>11. CASE RestoreBackup
  <2>1. at' \in 1..Len(FilesOf(agent))
    BY <1>11, FilesFacts DEF RestoreBackup, LastRestore, TypeOK, Files
  <2>2. file' \in [Names -> Content \cup {Absent}] /\ backup' \in [Names -> Content \cup {Absent}]
    BY <1>11, ThisFile DEF RestoreBackup, TypeOK
  <2>3. pc' \in Steps /\ ui' \in BOOLEAN /\ stage' \in {"off", "on", "undone"} /\ again' \in BOOLEAN
    BY <1>11 DEF RestoreBackup, TypeOK
  <2>4. original' \in [Names -> Content \cup {Absent}] /\ reached' \subseteq Names
    BY <1>11 DEF RestoreBackup, TypeOK
  <2> QED
    BY <1>11, <2>1, <2>2, <2>3, <2>4 DEF RestoreBackup, TypeOK
<1>12. CASE SwitchFails
  BY <1>12, FilesFacts, LimitFacts DEF SwitchFails, TypeOK
<1>13. CASE Restart
  <2>1. port' \in Ports
    BY <1>13, PortFacts DEF Restart, PortAtStart, TypeOK
  <2>2. interrupts' \in 0..limit.interrupts
    BY <1>13, LimitFacts DEF Restart, TypeOK
  <2>3. at' \in 1..Len(FilesOf(agent))
    BY <1>13, FilesFacts DEF Restart, TypeOK
  <2>4. UNCHANGED <<agent, disk, content, payload, saved, limit, edits, syncs, moves, ghosts>>
        /\ pc' = "idle" /\ mpc' = "idle" /\ ui' = FALSE /\ wanted' = NoPort
    BY <1>13 DEF Restart
  <2> QED
    BY <2>1, <2>2, <2>3, <2>4 DEF TypeOK
<1>14. CASE Remount
  BY <1>14 DEF Remount, TypeOK
<1>15. CASE UserEdits
  <2>1. PICK i \in DOMAIN Files, new \in Content : Edited(i, new)
    BY <1>15, UserEditsOne
  <2>2. Files[i] \in Names
    BY FilesFacts DEF TypeOK, Files
  <2>4. edits' \in 0..limit.edits
    BY <1>15, LimitFacts DEF UserEdits, TypeOK
  <2>5. file' \in [Names -> Content \cup {Absent}] /\ original' \in [Names -> Content \cup {Absent}]
    BY <2>1, <2>2 DEF TypeOK, Edited
  <2>6. UNCHANGED <<agent, backup, switch, sync, settings, limit, syncs, moves, interrupts, stage, reached, again, raced>>
    BY <1>15 DEF UserEdits
  <2> QED
    BY <2>4, <2>5, <2>6 DEF TypeOK
<1>16. CASE SyncReads
  <2>1. payload' \in Content
    BY <1>16, ContentFacts DEF SyncReads, TypeOK, Names, Absent
  <2>2. syncs' \in 0..limit.syncs
    BY <1>16, LimitFacts DEF SyncReads, TypeOK
  <2> QED
    BY <1>16, <2>1, <2>2 DEF SyncReads, TypeOK
<1>17. CASE SyncOpens
  BY <1>17, ContentFacts DEF SyncOpens, TypeOK
<1>18. CASE SyncWrites
  BY <1>18, SyncedType DEF SyncWrites, TypeOK
<1>19. CASE SaveOpens
  BY <1>19, LimitFacts DEF SaveOpens, TypeOK
<1>20. CASE SaveWrites
  BY <1>20 DEF SaveWrites, TypeOK
<1>21. CASE UNCHANGED vars
  BY <1>21 DEF vars, TypeOK
<1> QED
  BY <1>1, <1>2, <1>3, <1>4, <1>5, <1>6, <1>7, <1>8, <1>9, <1>10, <1>11, <1>12, <1>13, <1>14,
     <1>15, <1>16, <1>17, <1>18, <1>19, <1>20, <1>21 DEF Next

-----------------------------------------------------------------------------
(* The steps of the switch.                                                *)

\* The agent, and so its files, never change.
LEMMA SameFiles == [Next]_vars => agent' = agent /\ Files' = Files /\ Positions' = Positions
<1> SUFFICES ASSUME [Next]_vars PROVE agent' = agent
  BY DEF Files, Positions
<1> QED
  BY DEF Next, vars, disk, switch, sync, settings, counts, ghosts, RefreshProxyState, StartEnable, ReadSettings,
         OpenBackup, WriteBackup, RefuseBroken, OpenSettings, WriteSettings, StartDisable, RemoveSettings,
         RestoreBackup, SwitchFails, Restart, Remount, UserEdits, SyncReads, SyncOpens, SyncWrites,
         SaveOpens, SaveWrites

LEMMA StepStepInv == TypeOK /\ StepInv /\ [Next]_vars => StepInv'
<1> SUFFICES ASSUME TypeOK, StepInv, [Next]_vars PROVE StepInv'
  OBVIOUS
<1>0. Files' = Files /\ This \in Names
  BY SameFiles, ThisFile
<1>p. /\ Positions' = Positions /\ Positions = 1..Len(Files) /\ Len(Files) \in {1, 2} /\ at \in Positions
      /\ \A i \in Positions : Files[i] \in Names /\ (Files[i] = This <=> i = at)
  BY SameFiles, ThisFile, PositionFacts
<1> USE <1>0, <1>p DEF disk, switch, sync, settings, counts, ghosts
<1>1. CASE RefreshProxyState
  BY <1>1 DEF RefreshProxyState, StepInv, CopiesTaken, TypeOK, This
<1>2. CASE StartEnable
  BY <1>2 DEF StartEnable, StepInv, CopiesTaken, TypeOK, This
<1>3. CASE ReadSettings
  BY <1>3 DEF ReadSettings, StepInv, CopiesTaken, TypeOK, This
<1>4. CASE OpenBackup
  BY <1>4 DEF OpenBackup, StepInv, CopiesTaken, TypeOK, This
<1>5. CASE WriteBackup
  BY <1>5 DEF WriteBackup, StepInv, CopiesTaken, TypeOK, This
<1>6. CASE RefuseBroken
  BY <1>6 DEF RefuseBroken, StepInv, CopiesTaken, TypeOK, This
<1>7. CASE OpenSettings
  BY <1>7 DEF OpenSettings, StepInv, CopiesTaken, TypeOK, This
<1>8. CASE WriteSettings
  <2>1. stage # "off" /\ UNCHANGED <<backup, stage>> /\ pc' \notin {"remove", "restore"}
    BY <1>8 DEF WriteSettings, StepInv
  <2>2. CopiesTaken'
    BY <2>1 DEF StepInv, CopiesTaken
  <2> QED
    BY <1>8, <2>1, <2>2 DEF WriteSettings, StepInv, TypeOK, This
<1>9. CASE StartDisable
  <2>1. at' = 1 /\ stage' = "undone"
    BY <1>9 DEF StartDisable
  <2>2. CopiesTaken'
    BY <2>1 DEF CopiesTaken
  <2> QED
    BY <1>9, <2>2 DEF StartDisable, StepInv, TypeOK, This
<1>10. CASE RemoveSettings
  BY <1>10 DEF RemoveSettings, StepInv, CopiesTaken, TypeOK, This
<1>11. CASE RestoreBackup
  <2>1. stage # "off" /\ pc = "restore" /\ backup' = [backup EXCEPT ![This] = Absent]
        /\ IF at = Len(Files) THEN stage' = "off" ELSE at' = at + 1 /\ stage' = stage
    BY <1>11 DEF RestoreBackup, LastRestore, StepInv
  <2>2. backup'[This] = Absent /\ \A i \in Positions : i < at => backup'[Files[i]] = Absent
    BY <2>1 DEF StepInv, CopiesTaken, TypeOK
  <2>3. CopiesTaken'
    BY <2>1, <2>2 DEF CopiesTaken
  <2> QED
    BY <1>11, <2>3 DEF RestoreBackup, LastRestore, StepInv, TypeOK, This
<1>12. CASE SwitchFails
  BY <1>12 DEF SwitchFails, StepInv, CopiesTaken, TypeOK, This
<1>13. CASE Restart
  BY <1>13 DEF Restart, StepInv, CopiesTaken, TypeOK, This
<1>14. CASE Remount
  BY <1>14 DEF Remount, StepInv, CopiesTaken, TypeOK, This
<1>15. CASE UserEdits
  BY <1>15 DEF UserEdits, StepInv, CopiesTaken, TypeOK, This
<1>16. CASE SyncReads
  BY <1>16 DEF SyncReads, StepInv, CopiesTaken, TypeOK, This
<1>17. CASE SyncOpens
  BY <1>17 DEF SyncOpens, StepInv, CopiesTaken, TypeOK, This
<1>18. CASE SyncWrites
  BY <1>18 DEF SyncWrites, StepInv, CopiesTaken, TypeOK, This
<1>19. CASE SaveOpens
  BY <1>19 DEF SaveOpens, StepInv, CopiesTaken, TypeOK, This
<1>20. CASE SaveWrites
  BY <1>20 DEF SaveWrites, StepInv, CopiesTaken, TypeOK, This
<1>21. CASE UNCHANGED vars
  BY <1>21 DEF vars, StepInv, CopiesTaken, This
<1> QED
  BY <1>1, <1>2, <1>3, <1>4, <1>5, <1>6, <1>7, <1>8, <1>9, <1>10, <1>11, <1>12, <1>13, <1>14, <1>15, <1>16, <1>17, <1>18, <1>19, <1>20, <1>21 DEF Next

LEMMA StepCopyInv == TypeOK /\ StepInv /\ CopyInv /\ [Next]_vars => CopyInv'
<1> SUFFICES ASSUME TypeOK, StepInv, CopyInv, [Next]_vars, Calm' PROVE CopyInv'
  BY DEF CopyInv
<1>a. Files' = Files /\ Positions' = Positions
  BY SameFiles
<1>b. at \in Positions /\ This = Files[at] /\ This \in Names /\ 1 \in Positions
  BY ThisFile
<1>c. Positions = 1..Len(Files) /\ Len(Files) \in {1, 2}
  BY PositionFacts
<1>d. \A i \in Positions : Files[i] \in Names /\ (Files[i] = This <=> i = at)
  BY <1>b, PositionFacts
<1>e. /\ file \in [Names -> Content \cup {Absent}]
      /\ backup \in [Names -> Content \cup {Absent}]
      /\ original \in [Names -> Content \cup {Absent}]
      /\ pc \in Steps /\ stage \in {"off", "on", "undone"} /\ reached \subseteq Names
      /\ interrupts \in Nat
  BY LimitFacts DEF TypeOK
<1>f. \A i \in Positions : Files[i] = "config" => i = 1
  BY ConfigFirst DEF TypeOK, Positions, Files
<1> USE <1>a, <1>b, <1>c, <1>d, <1>e DEF disk, switch, sync, settings, counts, ghosts, Steps
<1>1. CASE RefreshProxyState
  <2>1. Calm /\ Phases /\ \A i \in Positions : CopyOf(i)
    BY <1>1 DEF RefreshProxyState, Calm, CopyInv
  <2>2. Phases'
    BY <1>1, <2>1 DEF RefreshProxyState, Calm, StepInv, Phases, FirstPass, Untouched, CopyOf, Enabling, This
  <2>3. ASSUME NEW i \in Positions PROVE CopyOf(i)'
    <3>1. CopyOf(i) /\ Files[i] \in Names
      BY <2>1
    <3>2. CASE i = at
      BY <1>1, <2>1, <3>1, <3>2 DEF RefreshProxyState, Calm, StepInv, Phases, FirstPass, This, CopyOf, Untouched, Copying, InHand, Copied, Restored, Enabling
    <3>3. CASE i # at
      BY <1>1, <2>1, <3>1, <3>3 DEF RefreshProxyState, Calm, StepInv, Phases, FirstPass, This, CopyOf, Untouched, Copying, InHand, Copied, Restored, Enabling
    <3> QED
      BY <3>2, <3>3
  <2> QED
    BY <2>2, <2>3 DEF CopyInv
<1>2. CASE StartEnable
  <2>1. Calm /\ Phases /\ \A i \in Positions : CopyOf(i)
    BY <1>2 DEF StartEnable, Calm, CopyInv
  <2>2. ASSUME ~again' PROVE FirstPass'
    <3>1. stage = "off" /\ reached' = {} /\ original' = file /\ file' = file /\ at' = 1 /\ pc' = "read"
      BY <1>2, <2>2 DEF StartEnable, StepInv
    <3>2. ASSUME NEW i \in Positions
          PROVE  /\ Files[i] \in reached' <=> i < at' \/ (i = at' /\ pc' # "read")
                 /\ file'[Files[i]] = original'[Files[i]]
      BY <3>1
    <3> QED
      BY <3>2 DEF FirstPass
  <2>3. Phases'
    BY <1>2, <2>1, <2>2 DEF StartEnable, Calm, StepInv, Phases, Enabling
  <2>4. ASSUME NEW i \in Positions PROVE CopyOf(i)'
    <3>1. CopyOf(i) /\ Files[i] \in Names
      BY <2>1
    <3>2. CASE i = at
      BY <1>2, <2>1, <3>1, <3>2 DEF StartEnable, Calm, StepInv, Phases, FirstPass, This, CopyOf, Untouched, Copying, InHand, Copied, Restored, Enabling
    <3>3. CASE i # at
      BY <1>2, <2>1, <3>1, <3>3 DEF StartEnable, Calm, StepInv, Phases, FirstPass, This, CopyOf, Untouched, Copying, InHand, Copied, Restored, Enabling
    <3> QED
      BY <3>2, <3>3
  <2> QED
    BY <2>3, <2>4 DEF CopyInv
<1>3. CASE ReadSettings
  <2>1. Calm /\ Phases /\ \A i \in Positions : CopyOf(i)
    BY <1>3 DEF ReadSettings, Calm, CopyInv
  <2>2. ASSUME ~again' PROVE FirstPass'
    <3>1. FirstPass
      BY <1>3, <2>1, <2>2 DEF ReadSettings, Phases, Enabling
    <3> QED
      BY <1>3, <3>1 DEF ReadSettings, FirstPass
  <2>3. This' = This /\ This \in reached' /\ Files[1] \in reached'
    BY <1>3, <2>1 DEF ReadSettings, Phases, Enabling, This
  <2>4. Phases'
    BY <1>3, <2>1, <2>2, <2>3 DEF ReadSettings, Calm, StepInv, Phases, Enabling
  <2>5. ASSUME NEW i \in Positions PROVE CopyOf(i)'
    <3>1. CopyOf(i) /\ Files[i] \in Names
      BY <2>1
    <3>2. CASE i = at
      BY <1>3, <2>1, <3>1, <3>2 DEF ReadSettings, Calm, StepInv, Phases, FirstPass, This, CopyOf, Untouched, Copying, InHand, Copied, Restored, Enabling
    <3>3. CASE i # at
      BY <1>3, <2>1, <3>1, <3>3 DEF ReadSettings, Calm, StepInv, Phases, FirstPass, This, CopyOf, Untouched, Copying, InHand, Copied, Restored, Enabling
    <3> QED
      BY <3>2, <3>3
  <2> QED
    BY <2>4, <2>5 DEF CopyInv
<1>4. CASE OpenBackup
  <2>1. Calm /\ Phases /\ \A i \in Positions : CopyOf(i)
    BY <1>4 DEF OpenBackup, Calm, CopyInv
  <2>2. Phases'
    BY <1>4, <2>1 DEF OpenBackup, Calm, StepInv, Phases, FirstPass, Untouched, CopyOf, Enabling, This
  <2>3. ASSUME NEW i \in Positions PROVE CopyOf(i)'
    <3>1. CopyOf(i) /\ Files[i] \in Names
      BY <2>1
    <3>2. CASE i = at
      BY <1>4, <2>1, <3>1, <3>2 DEF OpenBackup, Calm, StepInv, Phases, FirstPass, This, CopyOf, Untouched, Copying, InHand, Copied, Restored, Enabling
    <3>3. CASE i # at
      BY <1>4, <2>1, <3>1, <3>3 DEF OpenBackup, Calm, StepInv, Phases, FirstPass, This, CopyOf, Untouched, Copying, InHand, Copied, Restored, Enabling
    <3> QED
      BY <3>2, <3>3
  <2> QED
    BY <2>2, <2>3 DEF CopyInv
<1>5. CASE WriteBackup
  <2>1. Calm /\ Phases /\ \A i \in Positions : CopyOf(i)
    BY <1>5 DEF WriteBackup, Calm, CopyInv
  <2>2. Phases'
    BY <1>5, <2>1 DEF WriteBackup, Calm, StepInv, Phases, FirstPass, Untouched, CopyOf, Enabling, This
  <2>3. ASSUME NEW i \in Positions PROVE CopyOf(i)'
    <3>1. CopyOf(i) /\ Files[i] \in Names
      BY <2>1
    <3>2. CASE i = at
      BY <1>5, <2>1, <3>1, <3>2 DEF WriteBackup, Calm, StepInv, Phases, FirstPass, This, CopyOf, Untouched, Copying, InHand, Copied, Restored, Enabling
    <3>3. CASE i # at
      BY <1>5, <2>1, <3>1, <3>3 DEF WriteBackup, Calm, StepInv, Phases, FirstPass, This, CopyOf, Untouched, Copying, InHand, Copied, Restored, Enabling
    <3> QED
      BY <3>2, <3>3
  <2> QED
    BY <2>2, <2>3 DEF CopyInv
<1>6. CASE RefuseBroken
  <2>1. Calm /\ Phases /\ \A i \in Positions : CopyOf(i)
    BY <1>6 DEF RefuseBroken, Calm, CopyInv
  <2>2. Phases'
    BY <1>6, <2>1 DEF RefuseBroken, Calm, StepInv, Phases, FirstPass, Untouched, CopyOf, Enabling, This
  <2>3. ASSUME NEW i \in Positions PROVE CopyOf(i)'
    <3>1. CopyOf(i) /\ Files[i] \in Names
      BY <2>1
    <3>2. CASE i = at
      BY <1>6, <2>1, <3>1, <3>2 DEF RefuseBroken, Calm, StepInv, Phases, FirstPass, This, CopyOf, Untouched, Copying, InHand, Copied, Restored, Enabling
    <3>3. CASE i # at
      BY <1>6, <2>1, <3>1, <3>3 DEF RefuseBroken, Calm, StepInv, Phases, FirstPass, This, CopyOf, Untouched, Copying, InHand, Copied, Restored, Enabling
    <3> QED
      BY <3>2, <3>3
  <2> QED
    BY <2>2, <2>3 DEF CopyInv
<1>7. CASE OpenSettings
  <2>1. Calm /\ Phases /\ \A i \in Positions : CopyOf(i)
    BY <1>7 DEF OpenSettings, Calm, CopyInv
  <2>2. Phases'
    BY <1>7, <2>1 DEF OpenSettings, Calm, StepInv, Phases, FirstPass, Untouched, CopyOf, Enabling, This
  <2>3. ASSUME NEW i \in Positions PROVE CopyOf(i)'
    <3>1. CopyOf(i) /\ Files[i] \in Names
      BY <2>1
    <3>2. CASE i = at
      BY <1>7, <2>1, <3>1, <3>2 DEF OpenSettings, Calm, StepInv, Phases, FirstPass, This, CopyOf, Untouched, Copying, InHand, Copied, Restored, Enabling
    <3>3. CASE i # at
      BY <1>7, <2>1, <3>1, <3>3 DEF OpenSettings, Calm, StepInv, Phases, FirstPass, This, CopyOf, Untouched, Copying, InHand, Copied, Restored, Enabling
    <3> QED
      BY <3>2, <3>3
  <2> QED
    BY <2>2, <2>3 DEF CopyInv
<1>8. CASE WriteSettings
  <2>1. Calm /\ Phases /\ \A i \in Positions : CopyOf(i)
    BY <1>8 DEF WriteSettings, Calm, CopyInv
  <2>2. Phases'
    BY <1>8, <2>1 DEF WriteSettings, Calm, StepInv, Phases, FirstPass, Untouched, CopyOf, Enabling, This
  <2>3. ASSUME NEW i \in Positions PROVE CopyOf(i)'
    <3>1. CopyOf(i) /\ Files[i] \in Names
      BY <2>1
    <3>2. CASE i = at
      BY <1>8, <2>1, <3>1, <3>2 DEF WriteSettings, Calm, StepInv, Phases, FirstPass, This, CopyOf, Untouched, Copying, InHand, Copied, Restored, Enabling
    <3>3. CASE i # at
      BY <1>8, <2>1, <3>1, <3>3 DEF WriteSettings, Calm, StepInv, Phases, FirstPass, This, CopyOf, Untouched, Copying, InHand, Copied, Restored, Enabling
    <3> QED
      BY <3>2, <3>3
  <2> QED
    BY <2>2, <2>3 DEF CopyInv
<1>9. CASE StartDisable
  <2>1. Calm /\ Phases /\ \A i \in Positions : CopyOf(i)
    BY <1>9 DEF StartDisable, Calm, CopyInv
  <2>2. Phases'
    BY <1>9, <2>1 DEF StartDisable, Calm, StepInv, Phases, FirstPass, Untouched, CopyOf, Enabling, This
  <2>3. ASSUME NEW i \in Positions PROVE CopyOf(i)'
    <3>1. CopyOf(i) /\ Files[i] \in Names
      BY <2>1
    <3>2. CASE i = at
      BY <1>9, <2>1, <3>1, <3>2 DEF StartDisable, Calm, StepInv, Phases, FirstPass, This, CopyOf, Untouched, Copying, InHand, Copied, Restored, Enabling
    <3>3. CASE i # at
      BY <1>9, <2>1, <3>1, <3>3 DEF StartDisable, Calm, StepInv, Phases, FirstPass, This, CopyOf, Untouched, Copying, InHand, Copied, Restored, Enabling
    <3> QED
      BY <3>2, <3>3
  <2> QED
    BY <2>2, <2>3 DEF CopyInv
<1>10. CASE RemoveSettings
  <2>1. Calm /\ Phases /\ \A i \in Positions : CopyOf(i)
    BY <1>10 DEF RemoveSettings, Calm, CopyInv
  <2>2. Phases'
    BY <1>10, <2>1 DEF RemoveSettings, Calm, StepInv, Phases, FirstPass, Untouched, CopyOf, Enabling, This
  <2>3. ASSUME NEW i \in Positions PROVE CopyOf(i)'
    <3>1. CopyOf(i) /\ Files[i] \in Names
      BY <2>1
    <3>2. CASE i = at
      BY <1>10, <2>1, <3>1, <3>2 DEF RemoveSettings, Calm, StepInv, Phases, FirstPass, This, CopyOf, Untouched, Copying, InHand, Copied, Restored, Enabling
    <3>3. CASE i # at
      BY <1>10, <2>1, <3>1, <3>3 DEF RemoveSettings, Calm, StepInv, Phases, FirstPass, This, CopyOf, Untouched, Copying, InHand, Copied, Restored, Enabling
    <3> QED
      BY <3>2, <3>3
  <2> QED
    BY <2>2, <2>3 DEF CopyInv
<1>11. CASE RestoreBackup
  <2>1. Calm /\ Phases /\ \A i \in Positions : CopyOf(i)
    BY <1>11 DEF RestoreBackup, Calm, CopyInv
  <2>2. Phases'
    BY <1>11, <2>1 DEF RestoreBackup, Calm, StepInv, Phases, FirstPass, Untouched, CopyOf, Enabling, This, LastRestore
  <2>3. ASSUME NEW i \in Positions PROVE CopyOf(i)'
    <3>1. CopyOf(i) /\ Files[i] \in Names
      BY <2>1
    <3>2. CASE i = at
      BY <1>11, <2>1, <3>1, <3>2 DEF RestoreBackup, Calm, StepInv, Phases, FirstPass, This, CopyOf, Untouched, Copying, InHand, Copied, Restored, Enabling, LastRestore
    <3>3. CASE i # at
      BY <1>11, <2>1, <3>1, <3>3 DEF RestoreBackup, Calm, StepInv, Phases, FirstPass, This, CopyOf, Untouched, Copying, InHand, Copied, Restored, Enabling, LastRestore
    <3> QED
      BY <3>2, <3>3
  <2> QED
    BY <2>2, <2>3 DEF CopyInv
<1>12. CASE SwitchFails
  BY <1>12 DEF SwitchFails, Calm
<1>13. CASE Restart
  <2>1. Calm /\ Phases /\ (\A i \in Positions : CopyOf(i)) /\ pc = "idle"
    BY <1>13 DEF Restart, Calm, CopyInv
  <2> QED
    BY <1>13, <2>1 DEF Restart, Calm, CopyInv, Phases, CopyOf, Untouched, Copying, InHand, Copied, Restored, Enabling, StepInv, This
<1>14. CASE Remount
  <2>1. Calm /\ Phases /\ \A i \in Positions : CopyOf(i)
    BY <1>14 DEF Remount, Calm, CopyInv
  <2>2. Phases'
    BY <1>14, <2>1 DEF Remount, Calm, StepInv, Phases, FirstPass, Untouched, CopyOf, Enabling, This
  <2>3. ASSUME NEW i \in Positions PROVE CopyOf(i)'
    <3>1. CopyOf(i) /\ Files[i] \in Names
      BY <2>1
    <3>2. CASE i = at
      BY <1>14, <2>1, <3>1, <3>2 DEF Remount, Calm, StepInv, Phases, FirstPass, This, CopyOf, Untouched, Copying, InHand, Copied, Restored, Enabling
    <3>3. CASE i # at
      BY <1>14, <2>1, <3>1, <3>3 DEF Remount, Calm, StepInv, Phases, FirstPass, This, CopyOf, Untouched, Copying, InHand, Copied, Restored, Enabling
    <3> QED
      BY <3>2, <3>3
  <2> QED
    BY <2>2, <2>3 DEF CopyInv
<1>15. CASE UserEdits
  <2>1. Calm /\ Phases /\ \A i \in Positions : CopyOf(i)
    BY <1>15 DEF UserEdits, Calm, CopyInv
  <2>2. Phases'
    BY <1>15, <2>1 DEF UserEdits, Calm, StepInv, Phases, FirstPass, Untouched, CopyOf, Enabling, This
  <2>3. ASSUME NEW i \in Positions PROVE CopyOf(i)'
    <3>1. CopyOf(i) /\ Files[i] \in Names
      BY <2>1
    <3>2. PICK j \in Positions, new \in Content : Edited(j, new)
      BY <1>15, UserEditsOne DEF Positions
    <3>3. pc = "idle" /\ pc' = "idle" /\ UNCHANGED <<backup, at, stage, reached, again>>
      BY <1>15 DEF UserEdits
    <3>4. stage \in {"on", "off"} /\ ~Copying(Files[i]) /\ ~Copying(Files[i])'
      BY <2>1, <3>3 DEF Phases, Copying
    <3>5. CASE i = j
      <4>1. backup[Files[i]] = Absent /\ original[Files[i]] # Absent =>
              ~SameUser(backup[Files[i]], original[Files[i]])
        BY <3>1, ContentFacts DEF SameUser
      <4>2. CASE stage = "off"
        BY <3>1, <3>3, <3>4, <4>2 DEF CopyOf
      <4>3. CASE stage = "on" /\ Files[i] \notin reached
        <5>1. Untouched(Files[i])
          BY <3>1, <4>3 DEF CopyOf
        <5>2. Untouched(Files[i])'
          BY <3>1, <3>2, <3>3, <3>5, <4>1, <4>3, <5>1 DEF Untouched, Edited
        <5> QED
          BY <3>3, <4>3, <5>2 DEF CopyOf
      <4>4. CASE stage = "on" /\ Files[i] \in reached
        <5>1. Copied(Files[i])
          BY <3>1, <3>4, <4>4 DEF CopyOf
        <5>2. original' = original
          BY <3>1, <3>2, <3>5, <5>1 DEF Copied, SameUser, Edited
        <5>3. Copied(Files[i])'
          BY <3>3, <5>1, <5>2 DEF Copied
        <5> QED
          BY <3>3, <3>4, <4>4, <5>3 DEF CopyOf
      <4> QED
        BY <3>4, <4>2, <4>3, <4>4
    <3>6. CASE i # j
      <4>1. Files[i] # Files[j]
        BY <3>6, PositionFacts
      <4>2. file'[Files[i]] = file[Files[i]] /\ original'[Files[i]] = original[Files[i]]
        BY <3>1, <3>2, <4>1 DEF Edited
      <4> QED
        BY <3>1, <3>3, <3>4, <4>2 DEF CopyOf, Untouched, Copied
    <3> QED
      BY <3>5, <3>6
  <2> QED
    BY <2>2, <2>3 DEF CopyInv
<1>16. CASE SyncReads
  <2>1. Calm /\ Phases /\ \A i \in Positions : CopyOf(i)
    BY <1>16 DEF SyncReads, Calm, CopyInv
  <2>2. Phases'
    BY <1>16, <2>1 DEF SyncReads, Calm, StepInv, Phases, FirstPass, Untouched, CopyOf, Enabling, This
  <2>3. ASSUME NEW i \in Positions PROVE CopyOf(i)'
    <3>1. CopyOf(i) /\ Files[i] \in Names
      BY <2>1
    <3>2. CASE i = at
      BY <1>16, <2>1, <3>1, <3>2 DEF SyncReads, Calm, StepInv, Phases, FirstPass, This, CopyOf, Untouched, Copying, InHand, Copied, Restored, Enabling
    <3>3. CASE i # at
      BY <1>16, <2>1, <3>1, <3>3 DEF SyncReads, Calm, StepInv, Phases, FirstPass, This, CopyOf, Untouched, Copying, InHand, Copied, Restored, Enabling
    <3> QED
      BY <3>2, <3>3
  <2> QED
    BY <2>2, <2>3 DEF CopyInv
<1>17. CASE SyncOpens
  <2>1. Calm /\ Phases /\ \A i \in Positions : CopyOf(i)
    BY <1>17 DEF SyncOpens, Calm, CopyInv
  <2>2. Phases'
    BY <1>17, <2>1, <1>f DEF SyncOpens, Calm, StepInv, Phases, FirstPass, Untouched, CopyOf, Enabling, This
  <2>3. ASSUME NEW i \in Positions PROVE CopyOf(i)'
    <3>1. CopyOf(i) /\ Files[i] \in Names
      BY <2>1
    <3>2. CASE i = at
      BY <1>17, <2>1, <3>1, <3>2, <1>f DEF SyncOpens, Calm, StepInv, Phases, FirstPass, This, CopyOf, Untouched, Copying, InHand, Copied, Restored, Enabling
    <3>3. CASE i # at
      BY <1>17, <2>1, <3>1, <3>3, <1>f DEF SyncOpens, Calm, StepInv, Phases, FirstPass, This, CopyOf, Untouched, Copying, InHand, Copied, Restored, Enabling
    <3> QED
      BY <3>2, <3>3
  <2> QED
    BY <2>2, <2>3 DEF CopyInv
<1>18. CASE SyncWrites
  <2>1. Calm /\ Phases /\ \A i \in Positions : CopyOf(i)
    BY <1>18 DEF SyncWrites, Calm, CopyInv
  <2>2. Phases'
    BY <1>18, <2>1, <1>f DEF SyncWrites, Calm, StepInv, Phases, FirstPass, Untouched, CopyOf, Enabling, This
  <2>3. ASSUME NEW i \in Positions PROVE CopyOf(i)'
    <3>1. CopyOf(i) /\ Files[i] \in Names
      BY <2>1
    <3>2. CASE i = at
      BY <1>18, <2>1, <3>1, <3>2, <1>f DEF SyncWrites, Calm, StepInv, Phases, FirstPass, This, CopyOf, Untouched, Copying, InHand, Copied, Restored, Enabling
    <3>3. CASE i # at
      BY <1>18, <2>1, <3>1, <3>3, <1>f DEF SyncWrites, Calm, StepInv, Phases, FirstPass, This, CopyOf, Untouched, Copying, InHand, Copied, Restored, Enabling
    <3> QED
      BY <3>2, <3>3
  <2> QED
    BY <2>2, <2>3 DEF CopyInv
<1>19. CASE SaveOpens
  <2>1. Calm /\ Phases /\ \A i \in Positions : CopyOf(i)
    BY <1>19 DEF SaveOpens, Calm, CopyInv
  <2>2. Phases'
    BY <1>19, <2>1 DEF SaveOpens, Calm, StepInv, Phases, FirstPass, Untouched, CopyOf, Enabling, This
  <2>3. ASSUME NEW i \in Positions PROVE CopyOf(i)'
    <3>1. CopyOf(i) /\ Files[i] \in Names
      BY <2>1
    <3>2. CASE i = at
      BY <1>19, <2>1, <3>1, <3>2 DEF SaveOpens, Calm, StepInv, Phases, FirstPass, This, CopyOf, Untouched, Copying, InHand, Copied, Restored, Enabling
    <3>3. CASE i # at
      BY <1>19, <2>1, <3>1, <3>3 DEF SaveOpens, Calm, StepInv, Phases, FirstPass, This, CopyOf, Untouched, Copying, InHand, Copied, Restored, Enabling
    <3> QED
      BY <3>2, <3>3
  <2> QED
    BY <2>2, <2>3 DEF CopyInv
<1>20. CASE SaveWrites
  <2>1. Calm /\ Phases /\ \A i \in Positions : CopyOf(i)
    BY <1>20 DEF SaveWrites, Calm, CopyInv
  <2>2. Phases'
    BY <1>20, <2>1 DEF SaveWrites, Calm, StepInv, Phases, FirstPass, Untouched, CopyOf, Enabling, This
  <2>3. ASSUME NEW i \in Positions PROVE CopyOf(i)'
    <3>1. CopyOf(i) /\ Files[i] \in Names
      BY <2>1
    <3>2. CASE i = at
      BY <1>20, <2>1, <3>1, <3>2 DEF SaveWrites, Calm, StepInv, Phases, FirstPass, This, CopyOf, Untouched, Copying, InHand, Copied, Restored, Enabling
    <3>3. CASE i # at
      BY <1>20, <2>1, <3>1, <3>3 DEF SaveWrites, Calm, StepInv, Phases, FirstPass, This, CopyOf, Untouched, Copying, InHand, Copied, Restored, Enabling
    <3> QED
      BY <3>2, <3>3
  <2> QED
    BY <2>2, <2>3 DEF CopyInv
<1>21. CASE UNCHANGED vars
  BY <1>21 DEF vars, Calm, CopyInv, Phases, FirstPass, CopyOf, Untouched, Copying, InHand, Copied, Restored, Enabling, This
<1> QED
  BY <1>1, <1>2, <1>3, <1>4, <1>5, <1>6, <1>7, <1>8, <1>9, <1>10, <1>11, <1>12, <1>13, <1>14, <1>15, <1>16, <1>17, <1>18, <1>19, <1>20, <1>21 DEF Next

-----------------------------------------------------------------------------
(* What the user had.                                                      *)

LEMMA StepSurviveInv == TypeOK /\ StepInv /\ CopyInv /\ SurviveInv /\ [Next]_vars => SurviveInv'
<1> SUFFICES ASSUME TypeOK, StepInv, CopyInv, SurviveInv, [Next]_vars,
                    stage' = "on", interrupts' <= 1, ~raced', NEW i \in Positions
             PROVE  Surviving(i)'
  BY SameFiles DEF SurviveInv, Surviving
<1>a. Files' = Files /\ Files[i] \in Names /\ (Files[i] = This <=> i = at) /\ (Files[i] = "config" => i = 1)
  BY SameFiles, PositionFacts, ThisFile, ConfigFirst DEF TypeOK, Positions, Files
<1>b. at \in Positions /\ This = Files[at] /\ This \in Names /\ 1 \in Positions
  BY ThisFile
<1>c. Positions = 1..Len(Files) /\ Len(Files) \in {1, 2}
  BY PositionFacts
<1>e. /\ file \in [Names -> Content \cup {Absent}]
      /\ backup \in [Names -> Content \cup {Absent}]
      /\ original \in [Names -> Content \cup {Absent}]
      /\ content \in Content \cup {Absent}
      /\ payload \in Content
      /\ pc \in Steps /\ stage \in {"off", "on", "undone"} /\ reached \subseteq Names
      /\ interrupts \in Nat
  BY LimitFacts DEF TypeOK
<1> USE <1>a, <1>b, <1>c, <1>e DEF disk, switch, sync, settings, counts, ghosts, Steps, Surviving
<1>1. CASE RefreshProxyState
  BY <1>1, ContentFacts DEF RefreshProxyState, Owed, Kept, Carried, Halved, Writing, InHands, SameUser, Copying, This, StepInv, SurviveInv
<1>2. CASE StartEnable
  <2>1. SUFFICES ASSUME interrupts <= 1, ~raced, Owed(Files[i])'
                 PROVE  (Kept(Files[i]) \/ Carried(Files[i]) \/ Halved(Files[i]))'
    BY <1>2 DEF StartEnable, Copying, SurviveInv
  <2>2. pc' = "read" /\ mpc = "idle" /\ UNCHANGED <<file, backup, content, mpc, payload, interrupts>>
    BY <1>2, <2>1 DEF StartEnable
  <2>3. CASE stage = "off"
    <3>1. original' = file /\ backup[Files[i]] = Absent
      BY <1>2, <2>1, <2>3 DEF StartEnable, StepInv, CopiesTaken
    <3> QED
      BY <2>2, <3>1 DEF Carried, Writing, InHands, SameUser
  <2>4. CASE stage = "on"
    <3>1. original' = original /\ pc = "idle"
      BY <1>2, <2>4 DEF StartEnable
    <3>2. Kept(Files[i]) \/ Carried(Files[i]) \/ Halved(Files[i])
      BY <2>1, <2>4, <3>1 DEF SurviveInv, Owed
    <3> QED
      BY <2>2, <3>1, <3>2 DEF Kept, Carried, Halved, Writing, InHands, SameUser, Copying
  <2> QED
    BY <1>2, <2>3, <2>4 DEF StartEnable, TypeOK
<1>3. CASE ReadSettings
  <2>1. Surviving(i) /\ mpc = "idle" /\ stage = "on"
    BY <1>3 DEF ReadSettings, SurviveInv, StepInv
  <2>2. ASSUME interrupts = 0, i = at, original[Files[i]] # Absent, pc' = "merge" PROVE Kept(Files[i])
    <3>1. ~Copying(Files[i]) /\ CopyOf(i)
      BY <1>3, <2>2 DEF ReadSettings, Copying, CopyInv, Calm
    <3>2. Files[i] \in reached
      BY <1>3, <2>1, <2>2, <3>1 DEF ReadSettings, CopyOf, Untouched
    <3> QED
      BY <2>1, <2>2, <3>1, <3>2 DEF CopyOf, Copied, Kept, SameUser
  <2> QED
    BY <1>3, <2>1, <2>2, ContentFacts DEF ReadSettings, Owed, Kept, Carried, Halved, Writing, InHands, SameUser, Copying, This
<1>4. CASE OpenBackup
  BY <1>4, ContentFacts DEF OpenBackup, Owed, Kept, Carried, Halved, Writing, InHands, SameUser, Copying, This, StepInv, SurviveInv
<1>5. CASE WriteBackup
  BY <1>5, ContentFacts DEF WriteBackup, Owed, Kept, Carried, Halved, Writing, InHands, SameUser, Copying, This, StepInv, SurviveInv
<1>6. CASE RefuseBroken
  BY <1>6, ContentFacts DEF RefuseBroken, Owed, Kept, Carried, Halved, Writing, InHands, SameUser, Copying, This, StepInv, SurviveInv
<1>7. CASE OpenSettings
  BY <1>7, ContentFacts DEF OpenSettings, Owed, Kept, Carried, Halved, Writing, InHands, SameUser, Copying, This, StepInv, SurviveInv
<1>8. CASE WriteSettings
  <2>1. Surviving(i) /\ mpc = "idle"
    BY <1>8 DEF WriteSettings, SurviveInv, StepInv
  <2>2. content # Absent => Redirected(content).data = content.data
    BY RedirectedType DEF TypeOK
  <2>3. ~Copying(Files[i])' /\ pc' \in {"read", "idle"} /\ UNCHANGED <<content, backup, original, mpc, payload, interrupts>>
    BY <1>8 DEF WriteSettings, Copying
  <2>4. CASE i = at
    BY <1>8, <2>1, <2>2, <2>3, <2>4, ContentFacts DEF WriteSettings, Owed, Kept, Carried, Halved, Writing, InHands, SameUser, Copying
  <2>5. CASE i # at
    BY <1>8, <2>1, <2>3, <2>5 DEF WriteSettings, Owed, Kept, Carried, Halved, Writing, InHands, SameUser, Copying
  <2> QED
    BY <2>4, <2>5
<1>9. CASE StartDisable
  BY <1>9, ContentFacts DEF StartDisable, Owed, Kept, Carried, Halved, Writing, InHands, SameUser, Copying, This, StepInv, SurviveInv
<1>10. CASE RemoveSettings
  BY <1>10, ContentFacts DEF RemoveSettings, Owed, Kept, Carried, Halved, Writing, InHands, SameUser, Copying, This, StepInv, SurviveInv
<1>11. CASE RestoreBackup
  BY <1>11, ContentFacts DEF RestoreBackup, Owed, Kept, Carried, Halved, Writing, InHands, SameUser, Copying, This, StepInv, SurviveInv
<1>12. CASE SwitchFails
  BY <1>12, ContentFacts DEF SwitchFails, Owed, Kept, Carried, Halved, Writing, InHands, SameUser, Copying, This, StepInv, SurviveInv
<1>13. CASE Restart
  BY <1>13, ContentFacts DEF Restart, Owed, Kept, Carried, Halved, Writing, InHands, SameUser, Copying, This, StepInv, SurviveInv
<1>14. CASE Remount
  BY <1>14, ContentFacts DEF Remount, Owed, Kept, Carried, Halved, Writing, InHands, SameUser, Copying, This, StepInv, SurviveInv
<1>15. CASE UserEdits
  BY <1>15, ContentFacts DEF UserEdits, Owed, Kept, Carried, Halved, Writing, InHands, SameUser, Copying, This, StepInv, SurviveInv
<1>16. CASE SyncReads
  <2>1. Surviving(i) /\ pc = "idle" /\ stage = "on"
    BY <1>16 DEF SyncReads, SurviveInv
  <2>2. ASSUME interrupts = 0, i = 1, original[Files[i]] # Absent PROVE Kept(Files[i])
    <3>1. Files[i] \in reached /\ ~Copying(Files[i]) /\ CopyOf(i)
      BY <1>16, <2>1, <2>2 DEF SyncReads, Copying, CopyInv, Calm, Phases
    <3> QED
      BY <2>1, <2>2, <3>1 DEF CopyOf, Copied, Kept, SameUser
  <2> QED
    BY <1>16, <2>1, <2>2, ContentFacts DEF SyncReads, Owed, Kept, Carried, Halved, Writing, InHands, SameUser, Copying
<1>17. CASE SyncOpens
  BY <1>17, ContentFacts DEF SyncOpens, Owed, Kept, Carried, Halved, Writing, InHands, SameUser, Copying, This, StepInv, SurviveInv
<1>18. CASE SyncWrites
  BY <1>18, ContentFacts DEF SyncWrites, Owed, Kept, Carried, Halved, Writing, InHands, SameUser, Copying, This, StepInv, SurviveInv
<1>19. CASE SaveOpens
  BY <1>19, ContentFacts DEF SaveOpens, Owed, Kept, Carried, Halved, Writing, InHands, SameUser, Copying, This, StepInv, SurviveInv
<1>20. CASE SaveWrites
  BY <1>20, ContentFacts DEF SaveWrites, Owed, Kept, Carried, Halved, Writing, InHands, SameUser, Copying, This, StepInv, SurviveInv
<1>21. CASE UNCHANGED vars
  BY <1>21 DEF vars, Owed, Kept, Carried, Halved, Writing, InHands, SameUser, Copying, This, SurviveInv
<1> QED
  BY <1>1, <1>2, <1>3, <1>4, <1>5, <1>6, <1>7, <1>8, <1>9, <1>10, <1>11, <1>12, <1>13, <1>14, <1>15, <1>16, <1>17, <1>18, <1>19, <1>20, <1>21 DEF Next

-----------------------------------------------------------------------------
(* The theorems.                                                           *)

IInv == TypeOK /\ StepInv /\ CopyInv /\ SurviveInv

LEMMA InitInv == Init => IInv
<1> SUFFICES ASSUME Init PROVE IInv
  OBVIOUS
<1>1. TypeOK
  BY InitType
<1>2. StepInv
  BY <1>1, PositionFacts DEF Init, StepInv, CopiesTaken
<1>3. CopyInv
  BY <1>1, PositionFacts DEF Init, CopyInv, Phases, CopyOf, Enabling
<1>4. SurviveInv
  BY DEF Init, SurviveInv
<1> QED
  BY <1>1, <1>2, <1>3, <1>4 DEF IInv

LEMMA SpecInv == Spec => []IInv
<1>1. IInv /\ [Next]_vars => IInv'
  BY StepType, StepStepInv, StepCopyInv, StepSurviveInv DEF IInv
<1> QED
  BY <1>1, InitInv, PTL DEF Spec

\* What is on disk, in the hands of a call or shown always has its type: a merge
\* never makes something that is neither a file nor the absence of one.
THEOREM AlwaysTypeOK == Spec => []TypeOK
<1>1. IInv => TypeOK
  BY DEF IInv
<1> QED
  BY <1>1, SpecInv, PTL

\* Until DisableProxy is called, what the user had in a file is still somewhere,
\* although one call fails, or the program ends, at any step of EnableProxy.
THEOREM AlwaysSurvives == Spec => []OriginalSurvivesEnable
<1>1. ASSUME IInv PROVE OriginalSurvivesEnable
  <2> SUFFICES ASSUME stage = "on", interrupts <= 1, ~raced, mpc # "write", NEW i \in Positions, Owed(Files[i])
               PROVE  LET f == Files[i]  user == original[f] IN
                      \/ SameUser(file[f], user) \/ SameUser(backup[f], user)
                      \/ InHands(f) /\ SameUser(content, user)
                      \/ /\ backup[f] = Blank /\ interrupts = 1
                         /\ file[f].data = user.data \/ (InHands(f) /\ content.data = user.data)
    BY DEF OriginalSurvivesEnable, Owed, Positions
  <2>1. Kept(Files[i]) \/ Carried(Files[i]) \/ Halved(Files[i])
    BY <1>1 DEF IInv, SurviveInv, Surviving
  <2>2. interrupts \in Nat
    BY <1>1, LimitFacts DEF IInv, TypeOK
  <2> QED
    BY <2>1, <2>2 DEF Kept, Carried, Halved, Writing, InHands
<1> QED
  BY <1>1, SpecInv, PTL

\* DisableProxy puts back, to the byte, every file that EnableProxy has got to.
THEOREM DisableRestores == Spec => RestoresOriginal
<1>1. ASSUME IInv, [Next]_vars, LastRestore, pc' = "idle", Calm',
             NEW i \in DOMAIN Files, Files[i] \in reached, original[Files[i]] # Absent \/ ~again
      PROVE  file'[Files[i]] = original[Files[i]]
  <2>1. RestoreBackup
    <3>1. pc = "restore"
      BY <1>1 DEF LastRestore
    <3>2. interrupts \in Nat /\ interrupts' = 0
      BY <1>1, LimitFacts DEF IInv, TypeOK, Calm
    <3> QED
      BY <1>1, <3>1, <3>2 DEF Next, vars, disk, switch, sync, settings, counts, ghosts, RefreshProxyState,
         StartEnable, ReadSettings, OpenBackup, WriteBackup, RefuseBroken, OpenSettings, WriteSettings,
         StartDisable, RemoveSettings, SwitchFails, Restart, Remount, UserEdits, SyncReads,
         SyncOpens, SyncWrites, SaveOpens, SaveWrites
  <2>2. Calm /\ stage = "undone" /\ file[This] = Absent /\ CopyOf(i) /\ at = Len(Files)
    BY <1>1, <2>1 DEF RestoreBackup, LastRestore, Calm, IInv, StepInv, CopyInv, counts, Positions
  <2>3. TypeOK /\ This \in Names /\ Files[i] \in Names /\ i <= at /\ (Files[i] = This <=> i = at) /\ i \in Nat /\ at \in Nat
    BY <1>1, <2>2, ThisFile, PositionFacts DEF IInv, Positions
  <2>4. CASE i = at
    BY <1>1, <2>1, <2>2, <2>3, <2>4 DEF RestoreBackup, TypeOK, CopyOf, Copied
  <2>5. CASE i # at
    BY <1>1, <2>1, <2>2, <2>3, <2>5 DEF RestoreBackup, TypeOK, CopyOf, Restored
  <2> QED
    BY <2>4, <2>5
<1>2. IInv /\ [Next]_vars =>
        [LastRestore /\ pc' = "idle" /\ Calm' =>
           \A i \in DOMAIN Files : Files[i] \in reached /\ (original[Files[i]] # Absent \/ ~again) =>
             file'[Files[i]] = original[Files[i]]]_vars
  BY <1>1
<1> QED
  BY <1>2, SpecInv, PTL DEF Spec, RestoresOriginal
============================================================================
