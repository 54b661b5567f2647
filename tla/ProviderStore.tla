---------------------------- MODULE ProviderStore ----------------------------
(***************************************************************************)
(* The provider list of one agent: SaveProviders and LoadProviders of      *)
(* services/providerservice.go, and the two that call them, the main page  *)
(* with its save queue (frontend Main/Index.vue, providerSaveQueue.ts) and *)
(* the import of services/importservice.go.                                *)
(*                                                                         *)
(* SaveProviders holds a mutex and replaces the file by a rename;          *)
(* LoadProviders does neither.  The page computes a list from the cards it *)
(* shows, saves it, and shows it when the save has succeeded.  The import  *)
(* runs from another page: the main page is gone by then, the saves in its *)
(* queue are not.                                                          *)
(*                                                                         *)
(* A list is the providers' ids with their names, the ids of those whose   *)
(* switch is not as it was at first, and the numbers of the edits it       *)
(* contains.  A switch is a native checkbox: a click moves it at once, and *)
(* it is set again only where the card that is drawn has another value     *)
(* than the card before.                                                   *)
(***************************************************************************)
EXTENDS Naturals, Sequences, FiniteSetsExt

CONSTANTS
  Defaults,     \* ids and names of the cards a page begins with
  Imports,      \* imports, each known by the name of the provider it brings
  InvalidEdits, \* the edits whose list ValidateConfiguration refuses
  MaxEdits,     \* bound on edits
  MaxPages,     \* bound on visits to the main page
  MaxEvents     \* bound on imports, failed calls and crashes, together

ASSUME DefaultsAssumption == DOMAIN Defaults \subseteq 1..9
ASSUME BoundsAssumption ==
  /\ MaxEdits \in Nat /\ MaxPages \in Nat \ {0} /\ MaxEvents \in Nat
  /\ InvalidEdits \subseteq 1..MaxEdits

ASSUME ImportsAssumption == Imports \cap 0..MaxPages = {}

Pages == 1..MaxPages
Edits == 1..MaxEdits
Callers == Pages \cup Imports

Names == {Defaults[i] : i \in DOMAIN Defaults} \cup Imports \cup {"new"}
Ids == 1..(10 * MaxEdits + 9 + MaxEvents)

File(state, names, flipped, edits) ==
  [state |-> state, names |-> names, flipped |-> flipped, edits |-> edits]
NoFile == File("none", <<>>, {}, {})
Broken == File("broken", <<>>, {}, {})
Torn == File("torn", <<>>, {}, {})
List(names, flipped, edits) == File("list", names, flipped, edits)

VARIABLES
  disk, tmp,  \* the file and the one written beside it
  lock,       \* who holds the mutex of ProviderService
  pc,         \* the call of SaveProviders of each caller
  merged,     \* the list of each import
  shown,      \* the page on the screen; 0 for another route
  load, got,  \* loadProvidersFromDisk of each page, and what it read
  cards,      \* what each page shows
  ticked,     \* the switches of each page that do not show their card, with the edit that moved them
  queue,      \* the saves of each page: the first is the one that runs
  importing,  \* the import that the settings page waits for
  edits, events,
  settled, refused, \* edits whose save has ended, and those that were refused
  overtaken   \* pages that do not know of a later save, by others or by an edit before they were loaded

file == <<disk, tmp, lock>>
calls == <<pc, merged>>
page == <<shown, load, got, cards, ticked, queue>>
ghosts == <<settled, refused, overtaken>>
vars == <<file, calls, page, importing, edits, events, ghosts>>

Free == 0
NoImport == "none"

IsList(f) ==
  /\ f.state = "list" /\ f.edits \subseteq Edits
  /\ f.flipped \subseteq DOMAIN f.names
  /\ DOMAIN f.names \subseteq Ids /\ \A i \in DOMAIN f.names : f.names[i] \in Names

TypeOK ==
  /\ disk \in {NoFile, Broken, Torn} \/ IsList(disk)
  /\ tmp \in {NoFile, Torn} \/ IsList(tmp)
  /\ lock \in Callers \cup {Free}
  /\ pc \in [Callers -> {"idle", "diffed", "merged", "checked", "opened", "written", "saved", "refused", "done"}]
  /\ \A i \in Imports : merged[i] = NoFile \/ IsList(merged[i])
  /\ shown \in Pages \cup {0}
  /\ load \in [Pages -> {"no", "asked", "read", "done", "failed"}]
  /\ \A p \in Pages : got[p] \in {NoFile, Broken} \/ IsList(got[p])
  /\ \A p \in Pages : IsList(cards[p])
  /\ \A p \in Pages : ticked[p] \subseteq [edit : Edits, id : Ids]
  /\ \A p \in Pages : \A i \in DOMAIN queue[p] : IsList(queue[p][i].list) /\ queue[p][i].edit \in 0..MaxEdits
  /\ importing \in Imports \cup {NoImport}
  /\ edits \in 0..MaxEdits /\ events \in 0..MaxEvents
  /\ settled \subseteq Edits /\ refused \subseteq settled
  /\ overtaken \subseteq Pages

-----------------------------------------------------------------------------
(* LoadProviders and SaveProviders.                                        *)

Readable(f) == f.state \in {"none", "list"}

\* What a caller saves, and whether it is about to.
ListOf(c) == IF c \in Imports THEN merged[c] ELSE Head(queue[c]).list
Calls(c) == IF c \in Imports THEN pc[c] = "merged" ELSE pc[c] = "idle" /\ queue[c] # <<>>

\* No provider on the disk has another name in the list.
NamesKept(list) == \A i \in DOMAIN disk.names \cap DOMAIN list.names : disk.names[i] = list.names[i]
\* Mutation: names may change.
Accepts_AnyName(list) == Readable(disk) /\ list.edits \cap InvalidEdits = {}

\* The file can be read, no provider is renamed, and every mapping is valid.
Accepts(list) == Readable(disk) /\ NamesKept(list) /\ list.edits \cap InvalidEdits = {}

\* Mutation: the mutex is not taken.
CheckList_Unlocked(c) ==
  /\ Calls(c)
  /\ pc' = [pc EXCEPT ![c] = IF Accepts(ListOf(c)) THEN "checked" ELSE "refused"]
  /\ UNCHANGED <<file, merged, page, importing, edits, events, ghosts>>

\* With the mutex in hand the list on the disk is read, and the new one checked.
CheckList(c) ==
  /\ Calls(c)
  /\ lock = Free
  /\ IF Accepts(ListOf(c)) THEN pc' = [pc EXCEPT ![c] = "checked"] /\ lock' = c
                           ELSE pc' = [pc EXCEPT ![c] = "refused"] /\ lock' = lock
  /\ UNCHANGED <<disk, tmp, merged, page, importing, edits, events, ghosts>>

\* Mutation: the file is truncated and written in place.
OpenTmp_InPlace(c) ==
  /\ pc[c] = "checked"
  /\ disk' = Torn
  /\ pc' = [pc EXCEPT ![c] = "opened"]
  /\ UNCHANGED <<tmp, lock, merged, page, importing, edits, events, ghosts>>

OpenTmp(c) ==
  /\ pc[c] = "checked"
  /\ tmp' = Torn
  /\ pc' = [pc EXCEPT ![c] = "opened"]
  /\ UNCHANGED <<disk, lock, merged, page, importing, edits, events, ghosts>>

WriteTmp(c) ==
  /\ pc[c] = "opened"
  /\ tmp' = ListOf(c)
  /\ pc' = [pc EXCEPT ![c] = "written"]
  /\ UNCHANGED <<disk, lock, merged, page, importing, edits, events, ghosts>>

RenameTmp(c) ==
  /\ pc[c] = "written"
  /\ disk' = tmp /\ tmp' = NoFile
  /\ lock' = Free
  /\ pc' = [pc EXCEPT ![c] = "saved"]
  /\ overtaken' = overtaken \cup {p \in Pages : p # c /\ load[p] \notin {"no", "asked"}}
  /\ UNCHANGED <<merged, page, importing, edits, events, settled, refused>>

\* A call of the file system fails.
SaveFails(c) ==
  /\ pc[c] \in {"checked", "opened", "written"}
  /\ events < MaxEvents
  /\ events' = events + 1
  /\ lock' = Free
  /\ pc' = [pc EXCEPT ![c] = "refused"]
  /\ UNCHANGED <<disk, tmp, merged, page, importing, edits, ghosts>>

-----------------------------------------------------------------------------
(* The main page.                                                          *)

Enqueue(p, list, n) == queue' = [queue EXCEPT ![p] = Append(@, [list |-> list, edit |-> n])]

Mount(p) ==
  /\ shown = 0
  /\ load[p] = "no" /\ \A q \in Pages : q < p => load[q] # "no"
  /\ shown' = p
  /\ load' = [load EXCEPT ![p] = "asked"]
  /\ importing' = NoImport
  /\ UNCHANGED <<file, calls, got, cards, ticked, queue, edits, events, ghosts>>

\* To the settings page.
Leave ==
  /\ shown # 0
  /\ shown' = 0
  /\ ticked' = [ticked EXCEPT ![shown] = {}]
  /\ UNCHANGED <<file, calls, load, got, cards, queue, importing, edits, events, ghosts>>

ReadList(p) ==
  /\ load[p] = "asked"
  /\ got' = [got EXCEPT ![p] = disk]
  /\ load' = [load EXCEPT ![p] = "read"]
  /\ UNCHANGED <<file, calls, shown, cards, ticked, queue, importing, edits, events, ghosts>>

\* The cards of a page are drawn again: only a switch whose card has another value
\* than before, or is gone, is set.
Drawn(p, list) ==
  /\ cards' = [cards EXCEPT ![p] = list]
  /\ ticked' = [ticked EXCEPT ![p] = {t \in @ :
       t.id \in DOMAIN list.names /\ (t.id \in list.flipped <=> t.id \in cards[p].flipped)}]

\* The defaults are saved where there is no list, and stay where there is an error.
ShowList(p) ==
  /\ load[p] = "read"
  /\ load' = [load EXCEPT ![p] = IF got[p] = Broken THEN "failed" ELSE "done"]
  /\ IF got[p].state = "list" THEN Drawn(p, got[p]) ELSE UNCHANGED <<cards, ticked>>
  /\ IF got[p] = NoFile THEN Enqueue(p, cards[p], 0) ELSE queue' = queue
  /\ got' = [got EXCEPT ![p] = NoFile]
  /\ UNCHANGED <<file, calls, shown, importing, edits, events, ghosts>>

\* What submitModal, onDrop and remove make of the cards: a provider changed, its
\* switch too or not, or moved, or a new one, or one less.
Changed(list, flips, n) == List(list.names, SymDiff(list.flipped, flips), list.edits \cup {n})
Edited(list, n) ==
  {Changed(list, flips, n) : flips \in {{}} \cup {{i} : i \in DOMAIN list.names}}
  \cup {List([i \in DOMAIN list.names \cup {10 * n} |-> IF i = 10 * n THEN "new" ELSE list.names[i]],
             list.flipped, list.edits \cup {n})}
  \cup {List([j \in DOMAIN list.names \ {i} |-> list.names[j]], list.flipped \ {i}, list.edits \cup {n}) :
          i \in DOMAIN list.names}

\* A page that is used before its list has come will be shown an older one.
Use(p) ==
  /\ shown = p
  /\ edits < MaxEdits
  /\ edits' = edits + 1
  /\ overtaken' = IF load[p] \in {"done", "failed"} THEN overtaken ELSE overtaken \cup {p}

\* Mutation: the page shows the list before it is saved.
Edit_Optimistic(p) ==
  /\ Use(p)
  /\ \E list \in Edited(cards[p], edits + 1) : Enqueue(p, list, edits + 1) /\ Drawn(p, list)
  /\ UNCHANGED <<file, calls, shown, load, got, importing, events, settled, refused>>

Edit(p) ==
  /\ Use(p)
  /\ \E list \in Edited(cards[p], edits + 1) : Enqueue(p, list, edits + 1)
  /\ UNCHANGED <<file, calls, shown, load, got, cards, ticked, importing, events, settled, refused>>

\* A click moves the switch, and the list that is saved has what it now says: the
\* opposite of the card, or, where a click before has not reached the card, the card.
Toggle(p) ==
  /\ Use(p)
  /\ \E i \in DOMAIN cards[p].names :
       LET moved == {t \in ticked[p] : t.id = i} IN
       IF moved = {}
       THEN /\ Enqueue(p, Changed(cards[p], {i}, edits + 1), edits + 1)
            /\ ticked' = [ticked EXCEPT ![p] = @ \cup {[edit |-> edits + 1, id |-> i]}]
       ELSE /\ Enqueue(p, Changed(cards[p], {}, edits + 1), edits + 1)
            /\ ticked' = [ticked EXCEPT ![p] = @ \ moved]
  /\ UNCHANGED <<file, calls, shown, load, got, cards, importing, events, settled, refused>>

\* Another agent's cards are drawn, with switches of their own, and these anew later.
SwitchTab(p) ==
  /\ shown = p /\ ticked[p] # {}
  /\ ticked' = [ticked EXCEPT ![p] = {}]
  /\ UNCHANGED <<file, calls, shown, load, got, cards, queue, importing, edits, events, ghosts>>

\* Mutation: the saves behind one that failed are not run.
EndSave_Stalls(p) ==
  /\ pc[p] \in {"saved", "refused"}
  /\ LET n == Head(queue[p]).edit IN
     /\ IF pc[p] = "saved" THEN Drawn(p, ListOf(p)) ELSE UNCHANGED <<cards, ticked>>
     /\ load' = IF n = 0 /\ pc[p] = "refused" THEN [load EXCEPT ![p] = "failed"] ELSE load
     /\ settled' = settled \cup ({n} \ {0})
     /\ refused' = IF pc[p] = "refused" THEN refused \cup ({n} \ {0}) ELSE refused
  /\ queue' = [queue EXCEPT ![p] = IF pc[p] = "saved" THEN Tail(@) ELSE <<>>]
  /\ pc' = [pc EXCEPT ![p] = "idle"]
  /\ UNCHANGED <<file, merged, shown, got, importing, edits, events, overtaken>>

\* Mutation: the page shows the newest list once a save has succeeded.
EndSave_Newest(p) ==
  /\ pc[p] \in {"saved", "refused"}
  /\ LET n == Head(queue[p]).edit IN
     /\ IF pc[p] = "saved" /\ n # 0 THEN Drawn(p, queue[p][Len(queue[p])].list) ELSE UNCHANGED <<cards, ticked>>
     /\ load' = IF n = 0 /\ pc[p] = "refused" THEN [load EXCEPT ![p] = "failed"] ELSE load
     /\ settled' = settled \cup ({n} \ {0})
     /\ refused' = IF pc[p] = "refused" THEN refused \cup ({n} \ {0}) ELSE refused
  /\ queue' = [queue EXCEPT ![p] = Tail(@)]
  /\ pc' = [pc EXCEPT ![p] = "idle"]
  /\ UNCHANGED <<file, merged, shown, got, importing, edits, events, overtaken>>

\* The cards become the saved list; after an error they stay as they are, and so
\* does a switch that was moved.  The save of the defaults leaves them alone.
EndSave(p) ==
  /\ pc[p] \in {"saved", "refused"}
  /\ LET n == Head(queue[p]).edit IN
     /\ IF pc[p] = "saved" /\ n # 0 THEN Drawn(p, ListOf(p)) ELSE UNCHANGED <<cards, ticked>>
     /\ load' = IF n = 0 /\ pc[p] = "refused" THEN [load EXCEPT ![p] = "failed"] ELSE load
     /\ settled' = settled \cup ({n} \ {0})
     /\ refused' = IF pc[p] = "refused" THEN refused \cup ({n} \ {0}) ELSE refused
  /\ queue' = [queue EXCEPT ![p] = Tail(@)]
  /\ pc' = [pc EXCEPT ![p] = "idle"]
  /\ UNCHANGED <<file, merged, shown, got, importing, edits, events, overtaken>>

-----------------------------------------------------------------------------
(* The import.                                                             *)

\* One at a time for a settings page; the next one does not know of it.
StartImport(i) ==
  /\ shown = 0 /\ importing = NoImport
  /\ events < MaxEvents /\ events' = events + 1
  /\ pc[i] = "idle"
  /\ Readable(disk) /\ i \notin {disk.names[k] : k \in DOMAIN disk.names}
  /\ importing' = i
  /\ pc' = [pc EXCEPT ![i] = "diffed"]
  /\ UNCHANGED <<file, merged, page, edits, ghosts>>

nextProviderID(names) ==
  IF DOMAIN names = {} THEN 1 ELSE 1 + CHOOSE m \in DOMAIN names : \A k \in DOMAIN names : k <= m

\* The list is read again for the merge, outside the lock.
MergeImport(i) ==
  /\ pc[i] = "diffed"
  /\ Readable(disk)
  /\ LET id == nextProviderID(disk.names) IN
     merged' = [merged EXCEPT ![i] =
       List([k \in DOMAIN disk.names \cup {id} |-> IF k = id THEN i ELSE disk.names[k]], disk.flipped, disk.edits)]
  /\ pc' = [pc EXCEPT ![i] = "merged"]
  /\ UNCHANGED <<file, page, importing, edits, events, ghosts>>

EndImport(i) ==
  /\ pc[i] \in {"saved", "refused"}
  /\ pc' = [pc EXCEPT ![i] = "done"] /\ merged' = [merged EXCEPT ![i] = NoFile]
  /\ importing' = IF importing = i THEN NoImport ELSE importing
  /\ UNCHANGED <<file, page, edits, events, ghosts>>

\* The program ends; it starts again with the next page.
Crash ==
  /\ events < MaxEvents
  /\ events' = events + 1
  /\ lock' = Free
  /\ pc' = [c \in Callers |-> IF pc[c] \in {"idle", "done"} THEN pc[c] ELSE IF c \in Imports THEN "done" ELSE "idle"]
  /\ merged' = [i \in Imports |-> NoFile]
  /\ shown' = 0
  /\ load' = [p \in Pages |-> IF load[p] = "no" THEN "no" ELSE "failed"]
  /\ queue' = [p \in Pages |-> <<>>] /\ ticked' = [p \in Pages |-> {}]
  /\ importing' = NoImport
  /\ settled' = 1..edits
  /\ got' = [p \in Pages |-> NoFile]
  /\ UNCHANGED <<disk, tmp, cards, edits, refused, overtaken>>

-----------------------------------------------------------------------------
Init ==
  /\ disk \in {NoFile, Broken, List(Defaults, {}, {})} /\ tmp = NoFile /\ lock = Free
  /\ pc = [c \in Callers |-> "idle"] /\ merged = [i \in Imports |-> NoFile]
  /\ shown = 1
  /\ load = [p \in Pages |-> IF p = 1 THEN "asked" ELSE "no"] /\ got = [p \in Pages |-> NoFile]
  /\ cards = [p \in Pages |-> List(Defaults, {}, {})] /\ ticked = [p \in Pages |-> {}]
  /\ queue = [p \in Pages |-> <<>>]
  /\ importing = NoImport
  /\ edits = 0 /\ events = 0
  /\ settled = {} /\ refused = {} /\ overtaken = {}

Save(c) == CheckList(c) \/ OpenTmp(c) \/ WriteTmp(c) \/ RenameTmp(c)

Progress ==
  \/ \E c \in Callers : Save(c)
  \/ \E p \in Pages : ReadList(p) \/ ShowList(p) \/ EndSave(p)
  \/ \E i \in Imports : MergeImport(i) \/ EndImport(i)

Next ==
  \/ Progress
  \/ \E c \in Callers : SaveFails(c)
  \/ \E p \in Pages : Mount(p) \/ Edit(p) \/ Toggle(p) \/ SwitchTab(p)
  \/ Leave \/ Crash
  \/ \E i \in Imports : StartImport(i)

Spec == Init /\ [][Next]_vars
FairSpec == Spec /\ WF_vars(Progress)

-----------------------------------------------------------------------------
(* Properties.                                                             *)

\* A provider keeps its name on the disk as long as it is there, although the
\* import gives the ids of removed providers anew and pages save lists from
\* before: the statistics of request_log go by name.
NamesFixed ==
  [][\A i \in DOMAIN disk.names \cap DOMAIN disk'.names : disk'.names[i] = disk.names[i]]_vars

\* The relay, which takes no lock, never reads half a list, and a crash leaves none.
DiskWhole == disk # Torn

\* A list that was refused leaves no trace on the disk, nor in the list a page works
\* with, and so none through a later edit that is saved.  The switch that the user
\* moved is not put back: see QuietShowsDisk.
RefusedLeavesNoTrace ==
  /\ disk.edits \cap refused = {}
  /\ \A p \in Pages : cards[p].edits \cap refused = {}

\* A page that has nothing left to save works with the list on the disk, whichever
\* of its saves failed and however they overlapped, and its switches show that
\* list, but for those whose last move was refused.  Excepted are pages after
\* whose loading another page or an import has saved, and pages that were used
\* before their list had come.
QuietShowsDisk ==
  \A p \in Pages :
    shown = p /\ load[p] = "done" /\ queue[p] = <<>> /\ p \notin overtaken =>
      cards[p] = disk /\ \A t \in ticked[p] : t.edit \in refused

\* Every edit is saved or refused, or the program ends, as soon as the user makes
\* no more of them: a save that fails does not hold up those behind it.
EditsSettle == []<>(settled = 1..edits)
==============================================================================
