------------------------- MODULE ProviderStoreProofs -------------------------
(***************************************************************************)
(* What TLAPS proves of services/providerservice.go: of ProviderStore, for *)
(* any number of pages, edits, imports and failures, and of ModelMapping,  *)
(* for every set of models and of provider configurations.                 *)
(***************************************************************************)
EXTENDS ProviderStore, ModelMapping, TLAPS, FiniteSetTheorems, SequenceTheorems,
        WellFoundedInduction

\* Where a call of SaveProviders has the mutex.
Holding == {"checked", "opened", "written"}

\* The saves of a page are of whole lists.
IsQueue(q) == \E S : q \in Seq(S) /\ \A s \in S : s.list.state = "list"

Shape ==
  /\ DOMAIN pc = Callers /\ DOMAIN merged = Imports
  /\ DOMAIN cards = Pages /\ DOMAIN queue = Pages

PageInv ==
  \A p \in Pages :
    /\ IsQueue(queue[p])
    /\ cards[p].state = "list"
    /\ pc[p] \in Holding \cup {"idle", "saved", "refused"}
    /\ pc[p] # "idle" => queue[p] # <<>>

ImportInv == \A i \in Imports : pc[i] \in Holding \cup {"merged"} => merged[i].state = "list"

\* Who is between the check and the rename has the mutex; the check still holds,
\* and what lies beside the file once it is written is this caller's list.
HolderInv ==
  \A c \in Callers :
    /\ pc[c] \in Holding => lock = c /\ NamesKept(ListOf(c))
    /\ pc[c] = "written" => tmp = ListOf(c)

DiskInv == disk.state # "torn"

StoreInv == Shape /\ PageInv /\ ImportInv /\ HolderInv /\ DiskInv

-----------------------------------------------------------------------------
(* The queue.                                                              *)

LEMMA QueueHead ==
  ASSUME NEW q, IsQueue(q), q # <<>>
  PROVE  Head(q).list.state = "list" /\ IsQueue(Tail(q))
<1>1. PICK S : q \in Seq(S) /\ \A s \in S : s.list.state = "list"
  BY DEF IsQueue
<1>2. Head(q) \in S /\ Tail(q) \in Seq(S)
  BY <1>1
<1> QED
  BY <1>1, <1>2 DEF IsQueue

\* A save that is added waits behind those that are there.
LEMMA QueueAppend ==
  ASSUME NEW q, IsQueue(q), NEW x, x.list.state = "list"
  PROVE  /\ IsQueue(Append(q, x)) /\ Append(q, x) # <<>>
         /\ q # <<>> => Head(Append(q, x)) = Head(q)
<1>1. PICK S : q \in Seq(S) /\ \A s \in S : s.list.state = "list"
  BY DEF IsQueue
<1> DEFINE T == S \cup {x}
<1>2. q \in Seq(T)
  BY <1>1
<1>3. Append(q, x) \in Seq(T) /\ Append(q, x) # <<>>
  BY <1>2
<1>4. q # <<>> => Head(Append(q, x)) = Head(q)
  BY <1>2
<1>5. \A s \in T : s.list.state = "list"
  BY <1>1
<1> QED
  BY <1>3, <1>4, <1>5 DEF IsQueue

LEMMA QueueEmpty == IsQueue(<<>>)
<1>1. PICK S : S = {}
  OBVIOUS
<1>2. <<>> \in Seq(S) /\ \A s \in S : s.list.state = "list"
  BY <1>1
<1> QED
  BY <1>2 DEF IsQueue

\* A page is none of the imports, and no caller is the free mutex.
LEMMA CallersApart ==
  /\ \A p \in Pages : p \notin Imports /\ ListOf(p) = Head(queue[p]).list
  /\ \A i \in Imports : i \notin Pages /\ ListOf(i) = merged[i]
  /\ Free \notin Callers
<1>1. \A p \in Pages \cup {0} : p \notin Imports
  BY ImportsAssumption, BoundsAssumption DEF Pages
<1> QED
  BY <1>1 DEF ListOf, Pages, Free, Callers

\* What a caller saves is a whole list.
LEMMA ListIsWhole ==
  ASSUME StoreInv, NEW c \in Callers, Calls(c) \/ pc[c] \in Holding \cup {"saved", "refused"},
         c \in Imports => pc[c] \notin {"saved", "refused"}
  PROVE  ListOf(c).state = "list"
<1>1. CASE c \in Imports
  <2>1. pc[c] \in Holding \cup {"merged"}
    BY <1>1 DEF Calls
  <2> QED BY <1>1, <2>1, CallersApart DEF StoreInv, ImportInv
<1>2. CASE c \in Pages
  <2>1. IsQueue(queue[c]) /\ queue[c] # <<>>
    BY <1>2, CallersApart DEF StoreInv, PageInv, Calls, Holding
  <2> QED BY <1>2, <2>1, QueueHead, CallersApart
<1> QED BY <1>1, <1>2 DEF Callers

-----------------------------------------------------------------------------
(* The steps.                                                              *)

\* What a caller saves does not change while it runs, unless it ends.
LEMMA SameLists ==
  ASSUME UNCHANGED <<merged, queue>>, NEW c \in Callers
  PROVE  ListOf(c)' = ListOf(c)
BY DEF ListOf

LEMMA CheckStep ==
  ASSUME StoreInv, NEW c \in Callers, CheckList(c)
  PROVE  StoreInv'
<1> USE DEF Holding
<1>1. /\ Calls(c) /\ lock = Free /\ UNCHANGED <<disk, tmp, merged, cards, queue>>
      /\ \/ Accepts(ListOf(c)) /\ pc' = [pc EXCEPT ![c] = "checked"] /\ lock' = c
         \/ pc' = [pc EXCEPT ![c] = "refused"] /\ lock' = lock
  BY DEF CheckList, page
<1>2. Shape'
  BY <1>1 DEF StoreInv, Shape
<1>3. c \in Imports => c \notin Pages
  BY CallersApart
<1>4. PageInv'
  BY <1>1, <1>3, CallersApart DEF StoreInv, Shape, PageInv, Calls, Callers
<1>5. ImportInv'
  BY <1>1, <1>3, CallersApart DEF StoreInv, Shape, ImportInv, Calls, Callers
<1>6. \A b \in Callers : pc[b] \notin Holding
  BY <1>1, CallersApart DEF StoreInv, HolderInv
<1>7. \A b \in Callers : ListOf(b)' = ListOf(b)
  BY <1>1, SameLists
<1>8. HolderInv'
  <2>1. pc'[c] \in {"checked", "refused"} /\ \A b \in Callers \ {c} : pc'[b] = pc[b]
    BY <1>1 DEF StoreInv, Shape
  <2>2. pc'[c] = "checked" => lock' = c /\ NamesKept(ListOf(c))'
    BY <1>1, <1>7 DEF Accepts, NamesKept, StoreInv, Shape
  <2> QED
    BY <1>6, <2>1, <2>2 DEF HolderInv
<1> QED
  BY <1>1, <1>2, <1>4, <1>5, <1>8 DEF StoreInv, DiskInv

LEMMA WriteSteps ==
  ASSUME StoreInv, NEW c \in Callers, OpenTmp(c) \/ WriteTmp(c)
  PROVE  StoreInv'
<1> USE DEF Holding
<1>1. /\ UNCHANGED <<disk, lock, merged, cards, queue>>
      /\ pc[c] \in {"checked", "opened"}
      /\ \/ pc' = [pc EXCEPT ![c] = "opened"]
         \/ pc' = [pc EXCEPT ![c] = "written"] /\ tmp' = ListOf(c)
  BY DEF OpenTmp, WriteTmp, page
<1>2. Shape'
  BY <1>1 DEF StoreInv, Shape
<1>3. PageInv' /\ ImportInv'
  BY <1>1 DEF StoreInv, Shape, PageInv, ImportInv, Callers
<1>4. \A b \in Callers : ListOf(b)' = ListOf(b)
  BY <1>1, SameLists
<1>5. lock = c /\ \A b \in Callers \ {c} : pc[b] \notin Holding
  BY <1>1 DEF StoreInv, HolderInv
<1>6. HolderInv'
  <2>1. pc'[c] \in {"opened", "written"} /\ \A b \in Callers \ {c} : pc'[b] = pc[b]
    BY <1>1 DEF StoreInv, Shape
  <2>2. NamesKept(ListOf(c))'
    BY <1>1, <1>4 DEF StoreInv, HolderInv, NamesKept
  <2>3. pc'[c] = "written" => tmp' = ListOf(c)'
    BY <1>1, <1>4 DEF StoreInv, Shape
  <2> QED
    BY <1>1, <1>5, <2>1, <2>2, <2>3 DEF HolderInv
<1> QED
  BY <1>1, <1>2, <1>3, <1>6 DEF StoreInv, DiskInv

LEMMA RenameStep ==
  ASSUME StoreInv, NEW c \in Callers, RenameTmp(c)
  PROVE  /\ StoreInv'
         /\ disk' = ListOf(c) /\ NamesKept(ListOf(c))
<1> USE DEF Holding
<1>1. /\ UNCHANGED <<merged, cards, queue>> /\ disk' = tmp /\ lock' = Free
      /\ pc[c] = "written" /\ pc' = [pc EXCEPT ![c] = "saved"]
  BY DEF RenameTmp, page
<1>2. tmp = ListOf(c) /\ NamesKept(ListOf(c)) /\ lock = c
  BY <1>1 DEF StoreInv, HolderInv
<1>3. ListOf(c).state = "list"
  BY <1>1, ListIsWhole
<1>4. Shape'
  BY <1>1 DEF StoreInv, Shape
<1>5. PageInv' /\ ImportInv'
  BY <1>1 DEF StoreInv, Shape, PageInv, ImportInv, Callers
<1>6. \A b \in Callers \ {c} : pc[b] \notin Holding
  BY <1>2 DEF StoreInv, HolderInv
<1>7. HolderInv'
  BY <1>1, <1>6 DEF HolderInv, StoreInv, Shape
<1> QED
  BY <1>1, <1>2, <1>3, <1>4, <1>5, <1>7 DEF StoreInv, DiskInv

LEMMA FailStep ==
  ASSUME StoreInv, NEW c \in Callers, SaveFails(c)
  PROVE  StoreInv'
<1> USE DEF Holding
<1>1. /\ UNCHANGED <<disk, tmp, merged, cards, queue>> /\ lock' = Free
      /\ pc[c] \in Holding /\ pc' = [pc EXCEPT ![c] = "refused"]
  BY DEF SaveFails, page
<1>2. Shape'
  BY <1>1 DEF StoreInv, Shape
<1>3. PageInv' /\ ImportInv'
  BY <1>1 DEF StoreInv, Shape, PageInv, ImportInv, Callers
<1>4. \A b \in Callers \ {c} : pc[b] \notin Holding
  BY <1>1 DEF StoreInv, HolderInv
<1>5. HolderInv'
  BY <1>1, <1>4 DEF HolderInv, StoreInv, Shape
<1> QED
  BY <1>1, <1>2, <1>3, <1>5 DEF StoreInv, DiskInv

\* A save that is added to a queue is none that runs.
LEMMA EnqueueStep ==
  ASSUME StoreInv, UNCHANGED <<disk, tmp, lock, pc, merged>>,
         NEW p \in Pages, NEW list, NEW n, list.state = "list",
         queue' = queue \/ Enqueue(p, list, n),
         DOMAIN cards' = Pages, \A q \in Pages : cards'[q].state = "list"
  PROVE  StoreInv'
<1> USE DEF Holding
<1> DEFINE x == [list |-> list, edit |-> n]
<1>1. CASE Enqueue(p, list, n)
  <2>1. queue' = [queue EXCEPT ![p] = Append(queue[p], x)]
    BY <1>1 DEF Enqueue
  <2>2. x.list.state = "list"
    OBVIOUS
  <2> HIDE DEF x
  <2>3. IsQueue(queue[p])
    BY DEF StoreInv, PageInv
  <2>4. /\ IsQueue(Append(queue[p], x)) /\ Append(queue[p], x) # <<>>
        /\ queue[p] # <<>> => Head(Append(queue[p], x)) = Head(queue[p])
    BY <2>2, <2>3, QueueAppend
  <2>5. Shape'
    BY <2>1 DEF StoreInv, Shape
  <2>6. \A q \in Pages : queue'[q] = IF q = p THEN Append(queue[p], x) ELSE queue[q]
    BY <2>1 DEF StoreInv, Shape
  <2>7. PageInv' /\ ImportInv'
    BY <2>4, <2>6 DEF StoreInv, PageInv, ImportInv
  <2>8. ASSUME NEW c \in Callers, pc[c] \in Holding
        PROVE  ListOf(c)' = ListOf(c)
    <3>1. CASE c \in Imports
      BY <3>1 DEF ListOf
    <3>2. CASE c \in Pages
      BY <3>2, <2>4, <2>6, <2>8 DEF ListOf, StoreInv, PageInv
    <3> QED BY <3>1, <3>2 DEF Callers
  <2>9. HolderInv'
    BY <2>8 DEF StoreInv, HolderInv, NamesKept
  <2> QED
    BY <2>5, <2>7, <2>9 DEF StoreInv, DiskInv
<1>2. CASE queue' = queue
  <2>1. Shape' /\ PageInv' /\ ImportInv' /\ DiskInv'
    BY <1>2 DEF StoreInv, Shape, PageInv, ImportInv, DiskInv
  <2>2. \A b \in Callers : ListOf(b)' = ListOf(b)
    BY <1>2, SameLists
  <2>3. HolderInv'
    BY <2>2 DEF StoreInv, HolderInv, NamesKept
  <2> QED
    BY <2>1, <2>3 DEF StoreInv
<1> QED
  BY <1>1, <1>2

\* What happens on a page, but for the answers to its saves.
OnPage(p) == Mount(p) \/ Edit(p) \/ Toggle(p) \/ SwitchTab(p) \/ ReadList(p) \/ ShowList(p) \/ Leave

\* A switch that is moved is one of the changes a form makes.
LEMMA EditOrToggle ==
  ASSUME NEW p, Edit(p) \/ Toggle(p)
  PROVE  /\ Use(p) /\ \E list \in Edited(cards[p], edits + 1) : Enqueue(p, list, edits + 1)
         /\ UNCHANGED <<file, calls, shown, load, got, cards, importing, events, settled, refused>>
<1>1. CASE Edit(p)
  BY <1>1 DEF Edit
<1>2. CASE Toggle(p)
  <2>1. \E i \in DOMAIN cards[p].names : \E flips \in {{}, {i}} :
          Enqueue(p, Changed(cards[p], flips, edits + 1), edits + 1)
    BY <1>2 DEF Toggle
  <2>2. ASSUME NEW i \in DOMAIN cards[p].names, NEW flips \in {{}, {i}}
        PROVE  Changed(cards[p], flips, edits + 1) \in Edited(cards[p], edits + 1)
    BY <2>2 DEF Edited
  <2> QED BY <1>2, <2>1, <2>2 DEF Toggle
<1> QED BY <1>1, <1>2

\* Every edit of the cards is a list with one edit more.
LEMMA EditedIsList ==
  ASSUME NEW list, NEW n, NEW f \in Edited(list, n)
  PROVE  f.state = "list" /\ f.edits = list.edits \cup {n}
<1>1. PICK names, flipped : f = List(names, flipped, list.edits \cup {n})
  BY Zenon DEF Edited, Changed
<1> QED BY <1>1 DEF List, File

LEMMA PageSteps ==
  ASSUME StoreInv, NEW p \in Pages, OnPage(p)
  PROVE  StoreInv'
<1>1. UNCHANGED <<disk, tmp, lock, pc, merged>>
  BY EditOrToggle DEF OnPage, Mount, SwitchTab, ReadList, ShowList, Leave, file, calls
<1>2. DOMAIN cards = Pages /\ \A q \in Pages : cards[q].state = "list"
  BY DEF StoreInv, Shape, PageInv
<1>3. CASE Mount(p) \/ SwitchTab(p) \/ ReadList(p) \/ Leave
  <2>1. UNCHANGED <<cards, queue>>
    BY <1>3 DEF Mount, SwitchTab, ReadList, Leave
  <2> QED
    BY <1>1, <1>2, <2>1, EnqueueStep
<1>4. CASE Edit(p) \/ Toggle(p)
  <2>1. PICK list \in Edited(cards[p], edits + 1) : Enqueue(p, list, edits + 1)
    BY <1>4, EditOrToggle
  <2>2. list.state = "list"
    BY EditedIsList
  <2>3. cards' = cards
    BY <1>4, EditOrToggle
  <2> QED
    BY <1>1, <1>2, <2>1, <2>2, <2>3, EnqueueStep
<1>5. CASE ShowList(p)
  <2>1. \/ cards' = [cards EXCEPT ![p] = got[p]] /\ got[p].state = "list"
        \/ cards' = cards
    BY <1>5 DEF ShowList, Drawn
  <2>2. DOMAIN cards' = Pages /\ \A q \in Pages : cards'[q].state = "list"
    BY <1>2, <2>1
  <2>3. queue' = queue \/ Enqueue(p, cards[p], 0)
    BY <1>5 DEF ShowList
  <2> QED
    BY <1>1, <1>2, <2>2, <2>3, EnqueueStep
<1> QED
  BY <1>3, <1>4, <1>5 DEF OnPage

LEMMA EndSaveStep ==
  ASSUME StoreInv, NEW p \in Pages, EndSave(p)
  PROVE  StoreInv'
<1> USE DEF Holding
<1>1. /\ UNCHANGED <<disk, tmp, lock, merged>>
      /\ pc[p] \in {"saved", "refused"} /\ pc' = [pc EXCEPT ![p] = "idle"]
      /\ queue' = [queue EXCEPT ![p] = Tail(queue[p])]
      /\ cards' = [cards EXCEPT ![p] = ListOf(p)] \/ cards' = cards
  BY DEF EndSave, Drawn, file
<1>2. ListOf(p).state = "list"
  BY <1>1, ListIsWhole, CallersApart DEF Callers
<1>3. IsQueue(Tail(queue[p]))
  BY <1>1, QueueHead DEF StoreInv, PageInv
<1>4. Shape'
  BY <1>1 DEF StoreInv, Shape
<1>5. PageInv'
  BY <1>1, <1>2, <1>3 DEF StoreInv, Shape, PageInv, Callers
<1>6. ImportInv'
  BY <1>1, CallersApart DEF StoreInv, Shape, ImportInv, Callers
<1>7. \A c \in Callers \ {p} : pc'[c] = pc[c] /\ ListOf(c)' = ListOf(c)
  BY <1>1 DEF StoreInv, Shape, ListOf, Callers
<1>8. HolderInv'
  BY <1>1, <1>7 DEF StoreInv, Shape, HolderInv, NamesKept
<1> QED
  BY <1>1, <1>4, <1>5, <1>6, <1>8 DEF StoreInv, DiskInv

LEMMA ImportSteps ==
  ASSUME StoreInv, NEW i \in Imports, StartImport(i) \/ MergeImport(i) \/ EndImport(i)
  PROVE  StoreInv'
<1> USE DEF Holding
<1>1. /\ UNCHANGED <<disk, tmp, lock, cards, queue>>
      /\ pc[i] \notin Holding
      /\ \/ pc' = [pc EXCEPT ![i] = "diffed"] /\ merged' = merged
         \/ /\ pc' = [pc EXCEPT ![i] = "merged"]
            /\ \E names, flipped, numbers : merged' = [merged EXCEPT ![i] = List(names, flipped, numbers)]
         \/ pc' = [pc EXCEPT ![i] = "done"] /\ merged' = [merged EXCEPT ![i] = NoFile]
  BY DEF StartImport, MergeImport, EndImport, file, page
<1>2. Shape'
  BY <1>1 DEF StoreInv, Shape
<1>3. PageInv'
  BY <1>1, CallersApart DEF StoreInv, Shape, PageInv, Callers
<1>4. ImportInv'
  BY <1>1 DEF StoreInv, Shape, ImportInv, List, File, Callers
<1>5. \A c \in Callers \ {i} : pc'[c] = pc[c] /\ ListOf(c)' = ListOf(c)
  BY <1>1 DEF StoreInv, Shape, ListOf, Callers
<1>6. pc'[i] \notin Holding
  BY <1>1 DEF StoreInv, Shape, Callers
<1>7. HolderInv'
  BY <1>1, <1>5, <1>6 DEF StoreInv, HolderInv, NamesKept
<1> QED
  BY <1>1, <1>2, <1>3, <1>4, <1>7 DEF StoreInv, DiskInv

LEMMA CrashStep ==
  ASSUME StoreInv, Crash
  PROVE  StoreInv'
<1> USE DEF Holding
<1>1. /\ UNCHANGED <<disk, tmp, cards>> /\ lock' = Free
      /\ queue' = [p \in Pages |-> <<>>] /\ merged' = [i \in Imports |-> NoFile]
      /\ pc' = [c \in Callers |-> IF pc[c] \in {"idle", "done"} THEN pc[c]
                               ELSE IF c \in Imports THEN "done" ELSE "idle"]
  BY DEF Crash
<1>2. Shape'
  BY <1>1 DEF StoreInv, Shape
<1>3. PageInv'
  BY <1>1, QueueEmpty, CallersApart DEF StoreInv, PageInv, Callers
<1>4. \A c \in Callers : pc'[c] \in {"idle", "done"}
  BY <1>1
<1> QED
  BY <1>1, <1>2, <1>3, <1>4 DEF StoreInv, ImportInv, HolderInv, DiskInv, Callers

LEMMA Inductive ==
  /\ Init => StoreInv
  /\ StoreInv /\ [Next]_vars => StoreInv'
<1>1. Init => StoreInv
  <2> SUFFICES ASSUME Init PROVE StoreInv
    OBVIOUS
  <2> USE DEF Init
  <2>1. Shape /\ ImportInv /\ HolderInv
    BY DEF Shape, ImportInv, HolderInv, Holding, Callers
  <2>2. PageInv
    BY QueueEmpty DEF PageInv, Holding, Callers, List, File
  <2>3. DiskInv
    BY DEF DiskInv, NoFile, Broken, List, File
  <2> QED BY <2>1, <2>2, <2>3 DEF StoreInv
<1>2. ASSUME StoreInv, [Next]_vars PROVE StoreInv'
  <2>1. ASSUME NEW c \in Callers, Save(c) \/ SaveFails(c) PROVE StoreInv'
    BY <1>2, <2>1, CheckStep, WriteSteps, RenameStep, FailStep DEF Save
  <2>2. ASSUME NEW p \in Pages, OnPage(p) PROVE StoreInv'
    BY <1>2, <2>2, PageSteps
  <2>3. Leave => StoreInv'
    BY <2>2, BoundsAssumption DEF Pages, OnPage
  <2>4. ASSUME NEW p \in Pages, EndSave(p) PROVE StoreInv'
    BY <1>2, <2>4, EndSaveStep
  <2>5. ASSUME NEW i \in Imports, StartImport(i) \/ MergeImport(i) \/ EndImport(i) PROVE StoreInv'
    BY <1>2, <2>5, ImportSteps
  <2>6. Crash => StoreInv'
    BY <1>2, CrashStep
  <2>7. CASE UNCHANGED vars
    <3>1. UNCHANGED <<disk, tmp, lock, pc, merged, cards, queue>>
      BY <2>7 DEF vars, file, calls, page
    <3>2. 1 \in Pages
      BY BoundsAssumption DEF Pages
    <3> QED
      BY <1>2, <3>1, <3>2, EnqueueStep DEF StoreInv, Shape, PageInv
  <2> QED
    BY <1>2, <2>1, <2>2, <2>3, <2>4, <2>5, <2>6, <2>7 DEF Next, Progress, OnPage
<1> QED
  BY <1>1, <1>2

-----------------------------------------------------------------------------
(* The theorems.                                                           *)

\* The relay, which reads providers.json without the mutex, never reads half a list,
\* however many pages and imports save at once and wherever the program ends.
THEOREM DiskWholeHolds == Spec => []DiskWhole
<1>1. StoreInv => DiskWhole
  BY DEF StoreInv, DiskInv, DiskWhole, Torn, File
<1> QED
  BY <1>1, Inductive, PTL DEF Spec

\* A provider keeps its name on the disk as long as it is there: the check of
\* SaveProviders still holds at the rename, since nobody else renames in between.
THEOREM NamesFixedHolds == Spec => NamesFixed
<1> DEFINE Kept == \A i \in DOMAIN disk.names \cap DOMAIN disk'.names : disk'.names[i] = disk.names[i]
<1>1. StoreInv /\ [Next]_vars => [Kept]_vars
  <2> SUFFICES ASSUME StoreInv, Next PROVE Kept
    OBVIOUS
  <2>1. ASSUME NEW c \in Callers, RenameTmp(c) PROVE Kept
    BY <2>1, RenameStep DEF NamesKept
  <2>2. CASE UNCHANGED disk
    BY <2>2
  <2> QED
    BY <2>1, <2>2 DEF Next, Progress, Save, CheckList, OpenTmp, WriteTmp, SaveFails, Mount, Edit, Toggle, SwitchTab,
      Leave, Crash, ReadList, ShowList, EndSave, StartImport, MergeImport, EndImport, file
<1> QED
  BY <1>1, Inductive, PTL DEF Spec, NamesFixed

-----------------------------------------------------------------------------
(* Refused lists.                                                          *)

\* The saves of all pages are of different edits, none of which has ended; those of
\* the default cards have no number.
EditInv ==
  /\ edits \in Nat /\ settled \subseteq 1..edits /\ refused \subseteq settled
  /\ \A p \in Pages : \A k \in 1..Len(queue[p]) : queue[p][k].edit \in (0..edits) \ settled
  /\ \A p, q \in Pages : \A k \in 1..Len(queue[p]), m \in 1..Len(queue[q]) :
       queue[p][k].edit = queue[q][m].edit => queue[p][k].edit = 0 \/ (p = q /\ k = m)

\* An edit that will not be refused: it has not been, and if its save has not ended
\* it is one that was renamed into place.
Stays(n) ==
  /\ n \in (1..edits) \ refused
  /\ \A p \in Pages : \A k \in 1..Len(queue[p]) : queue[p][k].edit = n => k = 1 /\ pc[p] = "saved"

Clean(numbers) == \A n \in numbers : Stays(n)

QueueClean ==
  \A p \in Pages : \A k \in 1..Len(queue[p]) :
    \A n \in queue[p][k].list.edits : Stays(n) \/ (n = queue[p][k].edit /\ n # 0)

\* Whatever can be saved, shown or read contains such edits only, except that a list
\* still to be saved contains its own.
TraceInv ==
  /\ DOMAIN got = Pages
  /\ Clean(disk.edits)
  /\ \A p \in Pages : Clean(cards[p].edits) /\ Clean(got[p].edits)
  /\ \A i \in Imports : Clean(merged[i].edits)
  /\ QueueClean

LEMMA QueueAt ==
  ASSUME NEW q, IsQueue(q)
  PROVE  /\ Len(q) \in Nat
         /\ q # <<>> => /\ 1 \in 1..Len(q) /\ Head(q) = q[1]
                        /\ \A k \in 1..Len(Tail(q)) : k + 1 \in 1..Len(q) /\ k # 0 /\ Tail(q)[k] = q[k + 1]
<1>1. PICK S : q \in Seq(S)
  BY DEF IsQueue
<1> QED
  BY <1>1

LEMMA AppendAt ==
  ASSUME NEW q, IsQueue(q), NEW x
  PROVE  \A k \in 1..Len(Append(q, x)) :
           \/ k \in 1..Len(q) /\ Append(q, x)[k] = q[k]
           \/ k = Len(q) + 1 /\ Append(q, x)[k] = x
<1>1. PICK S : q \in Seq(S)
  BY DEF IsQueue
<1> DEFINE T == S \cup {x}
<1>2. q \in Seq(T) /\ x \in T
  BY <1>1
<1> HIDE DEF T
<1> QED
  BY <1>2

\* Where no save begins or ends, what stays does so.
LEMMA CalmEdits ==
  ASSUME EditInv, UNCHANGED <<queue, edits, settled, refused>>,
         \A p \in Pages : pc[p] = "saved" => pc'[p] = "saved"
  PROVE  /\ EditInv'
         /\ \A n : Stays(n) => Stays(n)'
         /\ QueueClean => QueueClean'
<1>1. EditInv'
  BY DEF EditInv
<1>2. \A n : Stays(n) => Stays(n)'
  BY DEF Stays
<1>3. QueueClean => QueueClean'
  BY <1>2 DEF QueueClean
<1> QED
  BY <1>1, <1>2, <1>3

\* The list of a caller contains edits that stay, and perhaps the one it is made for.
LEMMA ListClean ==
  ASSUME StoreInv, TraceInv, NEW c \in Callers,
         c \in Pages => queue[c] # <<>>
  PROVE  \A n \in ListOf(c).edits :
           Stays(n) \/ (c \in Pages /\ n = queue[c][1].edit /\ n # 0 /\ Head(queue[c]) = queue[c][1])
<1>1. CASE c \in Imports
  BY <1>1, CallersApart DEF TraceInv, Clean
<1>2. CASE c \in Pages
  <2>1. 1 \in 1..Len(queue[c]) /\ Head(queue[c]) = queue[c][1]
    BY <1>2, QueueAt DEF StoreInv, PageInv
  <2> QED
    BY <1>2, <2>1, CallersApart DEF TraceInv, QueueClean
<1> QED BY <1>1, <1>2 DEF Callers

LEMMA SaveEdits ==
  ASSUME StoreInv, EditInv, TraceInv, NEW c \in Callers, Save(c) \/ SaveFails(c)
  PROVE  EditInv' /\ TraceInv'
<1>1. /\ UNCHANGED <<queue, edits, settled, refused, cards, got, merged>>
      /\ pc[c] # "saved" /\ \E step : pc' = [pc EXCEPT ![c] = step]
  BY DEF Save, CheckList, OpenTmp, WriteTmp, RenameTmp, SaveFails, Calls, page, ghosts
<1>2. \A p \in Pages : pc[p] = "saved" => pc'[p] = "saved"
  BY <1>1 DEF StoreInv, Shape, Callers
<1>3. EditInv' /\ (\A n : Stays(n) => Stays(n)') /\ QueueClean'
  BY <1>1, <1>2, CalmEdits DEF TraceInv
<1>4. Clean(disk.edits)'
  <2>1. CASE RenameTmp(c)
    <3>1. disk' = ListOf(c)
      BY <2>1, RenameStep
    <3>2. pc[c] = "written" /\ pc'[c] = "saved"
      BY <2>1 DEF RenameTmp, StoreInv, Shape
    <3>3. c \in Pages => queue[c] # <<>>
      BY <3>2 DEF StoreInv, PageInv
    <3>4. ASSUME NEW n \in ListOf(c).edits PROVE Stays(n)'
      <4>1. CASE Stays(n)
        BY <4>1, <1>3
      <4>2. CASE c \in Pages /\ n = queue[c][1].edit /\ n # 0
        <5>1. 1 \in 1..Len(queue[c])
          BY <3>3, <4>2, QueueAt DEF StoreInv, PageInv
        <5>2. n \in (1..edits) \ refused
          BY <4>2, <5>1 DEF EditInv
        <5>3. \A p \in Pages : \A k \in 1..Len(queue[p]) : queue[p][k].edit = n => p = c /\ k = 1
          BY <4>2, <5>1 DEF EditInv
        <5> QED
          BY <1>1, <3>2, <5>2, <5>3 DEF Stays
      <4> QED
        BY <3>3, <4>1, <4>2, ListClean
    <3> QED
      BY <3>1, <3>4 DEF Clean
  <2>2. CASE disk' = disk
    BY <2>2, <1>3 DEF TraceInv, Clean
  <2> QED
    BY <2>1, <2>2 DEF Save, CheckList, OpenTmp, WriteTmp, SaveFails, file
<1> QED
  BY <1>1, <1>3, <1>4 DEF TraceInv, Clean

\* A save that is added is of a new edit, or of none.
LEMMA EnqueueEdits ==
  ASSUME StoreInv, EditInv, TraceInv, UNCHANGED <<pc, merged, disk, settled, refused>>,
         NEW p \in Pages, NEW list, NEW n, Enqueue(p, list, n),
         \/ n = 0 /\ edits' = edits
         \/ n = edits + 1 /\ edits' = edits + 1,
         \A m \in list.edits : Stays(m) \/ (m = n /\ n # 0)
  PROVE  EditInv' /\ QueueClean' /\ \A m : Stays(m) => Stays(m)'
<1> DEFINE x == [list |-> list, edit |-> n]
<1>1. queue' = [queue EXCEPT ![p] = Append(queue[p], x)]
  BY DEF Enqueue
<1>2. x.list = list /\ x.edit = n
  OBVIOUS
<1> HIDE DEF x
<1>3. \A q \in Pages : queue'[q] = IF q = p THEN Append(queue[p], x) ELSE queue[q]
  BY <1>1 DEF StoreInv, Shape
<1>4. IsQueue(queue[p]) /\ Len(queue[p]) \in Nat
  BY QueueAt DEF StoreInv, PageInv
<1>5. \A q \in Pages : \A k \in 1..Len(queue'[q]) :
        \/ k \in 1..Len(queue[q]) /\ queue'[q][k] = queue[q][k]
        \/ q = p /\ k = Len(queue[p]) + 1 /\ queue'[q][k] = x
  <2>1. ASSUME NEW k \in 1..Len(Append(queue[p], x))
        PROVE  \/ k \in 1..Len(queue[p]) /\ Append(queue[p], x)[k] = queue[p][k]
               \/ k = Len(queue[p]) + 1 /\ Append(queue[p], x)[k] = x
    BY <1>4, AppendAt
  <2>2. queue'[p] = Append(queue[p], x) /\ \A q \in Pages : q # p => queue'[q] = queue[q]
    BY <1>3
  <2>3. TAKE q \in Pages
  <2>4. CASE q = p
    BY <2>1, <2>2, <2>4
  <2>5. CASE q # p
    BY <2>2, <2>5
  <2> QED BY <2>4, <2>5
<1>6. edits \in Nat /\ edits' \in Nat /\ edits <= edits' /\ n \in (0..edits') \ settled
      /\ (n # 0 => n \notin 0..edits)
  BY DEF EditInv
<1>7. EditInv'
  <2>1. edits' \in Nat /\ settled' \subseteq 1..edits' /\ refused' \subseteq settled'
    BY <1>6 DEF EditInv
  <2>2. ASSUME NEW q \in Pages, NEW k \in 1..Len(queue'[q])
        PROVE  queue'[q][k].edit \in (0..edits') \ settled'
    <3>1. CASE k \in 1..Len(queue[q]) /\ queue'[q][k] = queue[q][k]
      <4>1. queue[q][k].edit \in (0..edits) \ settled
        BY <3>1 DEF EditInv
      <4> QED BY <1>6, <3>1, <4>1
    <3>2. CASE queue'[q][k] = x
      BY <1>2, <1>6, <3>2
    <3> QED BY <1>5, <3>1, <3>2
  <2>3. ASSUME NEW q \in Pages, NEW r \in Pages, NEW k \in 1..Len(queue'[q]), NEW m \in 1..Len(queue'[r]),
               queue'[q][k].edit = queue'[r][m].edit, queue'[q][k].edit # 0
        PROVE  q = r /\ k = m
    <3>1. CASE k \in 1..Len(queue[q]) /\ m \in 1..Len(queue[r])
               /\ queue'[q][k] = queue[q][k] /\ queue'[r][m] = queue[r][m]
      BY <2>3, <3>1 DEF EditInv
    <3>2. CASE k \in 1..Len(queue[q]) /\ queue'[q][k] = queue[q][k] /\ queue'[r][m] = x
      <4>1. queue[q][k].edit \in 0..edits
        BY <3>2 DEF EditInv
      <4> QED BY <1>2, <1>6, <2>3, <3>2, <4>1
    <3>3. CASE m \in 1..Len(queue[r]) /\ queue'[r][m] = queue[r][m] /\ queue'[q][k] = x
      <4>1. queue[r][m].edit \in 0..edits
        BY <3>3 DEF EditInv
      <4> QED BY <1>2, <1>6, <2>3, <3>3, <4>1
    <3>4. CASE q = p /\ k = Len(queue[p]) + 1 /\ r = p /\ m = Len(queue[p]) + 1
      BY <3>4
    <3> QED BY <1>5, <3>1, <3>2, <3>3, <3>4
  <2> QED BY <2>1, <2>2, <2>3 DEF EditInv
<1>8. ASSUME NEW m, Stays(m) PROVE Stays(m)'
  <2>1. m \in (1..edits) \ refused /\ m \in (1..edits') \ refused'
    BY <1>6, <1>8 DEF Stays
  <2>2. m # n
    BY <1>6, <2>1
  <2> QED
    BY <1>2, <1>5, <1>8, <2>1, <2>2 DEF Stays
<1>9. QueueClean'
  BY <1>2, <1>5, <1>8 DEF TraceInv, QueueClean
<1> QED
  BY <1>7, <1>8, <1>9

LEMMA PageEdits ==
  ASSUME StoreInv, EditInv, TraceInv,
         NEW p \in Pages, OnPage(p)
  PROVE  EditInv' /\ TraceInv'
<1>1. UNCHANGED <<disk, pc, merged, settled, refused>>
  BY EditOrToggle DEF OnPage, Mount, SwitchTab, ReadList, ShowList, Leave, file, calls, ghosts
<1>2. CASE Edit(p) \/ Toggle(p)
  <2>1. PICK list \in Edited(cards[p], edits + 1) : Enqueue(p, list, edits + 1)
    BY <1>2, EditOrToggle
  <2>2. list.edits = cards[p].edits \cup {edits + 1}
    BY EditedIsList
  <2>3. edits' = edits + 1 /\ UNCHANGED <<cards, got>>
    BY <1>2, EditOrToggle DEF Use
  <2>4. edits + 1 # 0
    BY DEF EditInv
  <2>5. \A m \in list.edits : Stays(m) \/ (m = edits + 1 /\ edits + 1 # 0)
    BY <2>2, <2>4 DEF TraceInv, Clean
  <2>6. EditInv' /\ QueueClean' /\ \A m : Stays(m) => Stays(m)'
    BY <1>1, <2>1, <2>3, <2>5, EnqueueEdits
  <2> QED
    BY <1>1, <2>3, <2>6 DEF TraceInv, Clean
<1>3. CASE ShowList(p)
  <2>1. edits' = edits /\ got' = [got EXCEPT ![p] = NoFile]
        /\ (cards' = [cards EXCEPT ![p] = got[p]] \/ cards' = cards)
    BY <1>3 DEF ShowList, Drawn
  <2>2. CASE queue' = queue
    BY <1>1, <2>1, <2>2, CalmEdits DEF TraceInv, Clean, StoreInv, Shape, NoFile, File
  <2>3. CASE Enqueue(p, cards[p], 0)
    <3>1. \A m \in cards[p].edits : Stays(m)
      BY DEF TraceInv, Clean
    <3>2. EditInv' /\ QueueClean' /\ \A m : Stays(m) => Stays(m)'
      BY <1>1, <2>1, <2>3, <3>1, EnqueueEdits
    <3> QED
      BY <1>1, <2>1, <3>2 DEF TraceInv, Clean, StoreInv, Shape, NoFile, File
  <2> QED
    BY <1>3, <2>2, <2>3 DEF ShowList
<1>4. CASE Mount(p) \/ SwitchTab(p) \/ ReadList(p) \/ Leave
  <2>1. UNCHANGED <<queue, edits, cards>> /\ (got' = [got EXCEPT ![p] = disk] \/ got' = got)
    BY <1>4 DEF Mount, SwitchTab, ReadList, Leave
  <2> QED
    BY <1>1, <2>1, CalmEdits DEF TraceInv, Clean
<1> QED
  BY <1>2, <1>3, <1>4 DEF OnPage

\* A save that ends takes its edit with it: to the cards, or among the refused.
LEMMA EndSaveEdits ==
  ASSUME StoreInv, EditInv, TraceInv, NEW p \in Pages, EndSave(p)
  PROVE  EditInv' /\ TraceInv'
<1> DEFINE e == queue[p][1].edit
<1>1. queue[p] # <<>> /\ IsQueue(queue[p]) /\ pc[p] \in {"saved", "refused"}
  BY DEF EndSave, StoreInv, PageInv
<1>2. 1 \in 1..Len(queue[p]) /\ Head(queue[p]) = queue[p][1] /\ Len(queue[p]) \in Nat
  BY <1>1, QueueAt
<1>3. /\ settled' = settled \cup ({e} \ {0}) /\ edits' = edits
      /\ refused' = IF pc[p] = "refused" THEN refused \cup ({e} \ {0}) ELSE refused
  BY <1>2 DEF EndSave
<1>4. /\ UNCHANGED <<disk, merged, got>>
      /\ queue' = [queue EXCEPT ![p] = Tail(queue[p])] /\ pc' = [pc EXCEPT ![p] = "idle"]
      /\ cards' = IF pc[p] = "saved" /\ e # 0 THEN [cards EXCEPT ![p] = ListOf(p)] ELSE cards
  BY <1>2 DEF EndSave, Drawn, file
<1>5. edits \in Nat /\ settled \subseteq 1..edits /\ refused \subseteq settled /\ e \in (0..edits) \ settled
  BY <1>2 DEF EditInv
<1>6. ASSUME NEW q \in Pages, NEW k \in 1..Len(queue'[q])
      PROVE  \E j \in 1..Len(queue[q]) :
               queue'[q][k] = queue[q][j] /\ (q = p => j # 1 /\ j = k + 1) /\ (q # p => j = k)
  <2>1. CASE q = p
    <3>1. queue'[q] = Tail(queue[p])
      BY <1>4, <2>1 DEF StoreInv, Shape
    <3>2. k + 1 \in 1..Len(queue[p]) /\ k # 0 /\ queue'[q][k] = queue[p][k + 1]
      BY <1>1, <1>6, <3>1, QueueAt
    <3>3. k \in Nat
      OBVIOUS
    <3>4. k + 1 # 1
      BY <3>2, <3>3
    <3> QED BY <2>1, <3>2, <3>4
  <2>2. CASE q # p
    <3>1. queue'[q] = queue[q]
      BY <1>4, <2>2 DEF StoreInv, Shape
    <3> QED BY <1>6, <2>2, <3>1
  <2> QED BY <2>1, <2>2
<1>7. ASSUME NEW q \in Pages, NEW k \in 1..Len(queue'[q])
      PROVE  queue'[q][k].edit \in (0..edits) \ settled /\ (queue'[q][k].edit = e => e = 0)
  <2>1. PICK j \in 1..Len(queue[q]) : queue'[q][k] = queue[q][j] /\ (q = p => j # 1)
    BY <1>6, <1>7
  <2>2. queue[q][j].edit \in (0..edits) \ settled
    BY DEF EditInv
  <2>3. queue[q][j].edit = queue[p][1].edit => queue[q][j].edit = 0 \/ (q = p /\ j = 1)
    BY <1>2 DEF EditInv
  <2> QED BY <2>1, <2>2, <2>3
<1>8. EditInv'
  <2>1. edits' \in Nat /\ settled' \subseteq 1..edits' /\ refused' \subseteq settled'
    <3> HIDE DEF e
    <3>1. refused' \subseteq refused \cup ({e} \ {0})
      BY <1>3
    <3>2. {e} \ {0} \subseteq 1..edits
      BY <1>5
    <3> QED BY <1>3, <1>5, <3>1, <3>2
  <2>2. \A q \in Pages : \A k \in 1..Len(queue'[q]) : queue'[q][k].edit \in (0..edits') \ settled'
    BY <1>3, <1>7
  <2>3. ASSUME NEW q \in Pages, NEW r \in Pages, NEW k \in 1..Len(queue'[q]), NEW m \in 1..Len(queue'[r]),
               queue'[q][k].edit = queue'[r][m].edit, queue'[q][k].edit # 0
        PROVE  q = r /\ k = m
    <3>1. PICK i \in 1..Len(queue[q]) :
            queue'[q][k] = queue[q][i] /\ (q = p => i = k + 1) /\ (q # p => i = k)
      BY <1>6
    <3>2. PICK j \in 1..Len(queue[r]) :
            queue'[r][m] = queue[r][j] /\ (r = p => j = m + 1) /\ (r # p => j = m)
      BY <1>6
    <3>3. q = r /\ i = j
      BY <2>3, <3>1, <3>2 DEF EditInv
    <3>4. k \in Nat /\ m \in Nat
      OBVIOUS
    <3> QED BY <3>1, <3>2, <3>3, <3>4
  <2> QED BY <2>1, <2>2, <2>3 DEF EditInv
<1>9. ASSUME NEW n, Stays(n) PROVE Stays(n)'
  <2>1. n \in (1..edits) \ refused
    BY <1>9 DEF Stays
  <2>2. n = e => pc[p] = "saved"
    BY <1>2, <1>9 DEF Stays
  <2>3. n \notin refused'
    BY <1>3, <2>1, <2>2
  <2>4. ASSUME NEW q \in Pages, NEW k \in 1..Len(queue'[q]), queue'[q][k].edit = n
        PROVE  k = 1 /\ pc'[q] = "saved"
    <3>1. PICK j \in 1..Len(queue[q]) :
            queue'[q][k] = queue[q][j] /\ (q = p => j # 1) /\ (q # p => j = k)
      BY <1>6
    <3>2. j = 1 /\ pc[q] = "saved"
      BY <1>9, <2>4, <3>1 DEF Stays
    <3> QED
      BY <1>4, <3>1, <3>2 DEF StoreInv, Shape
  <2> QED
    BY <1>3, <2>1, <2>3, <2>4 DEF Stays
<1>10. \A q \in Pages : Clean(cards[q].edits)'
  <2>1. CASE pc[p] = "saved" /\ e # 0
    <3>1. ASSUME NEW n, n = e PROVE Stays(n)'
      <4>1. n \in (1..edits') \ refused'
        BY <1>3, <1>5, <2>1, <3>1
      <4>2. \A q \in Pages : \A k \in 1..Len(queue'[q]) : queue'[q][k].edit # n
        BY <1>7, <2>1, <3>1
      <4> QED BY <4>1, <4>2 DEF Stays
    <3>2. p \in Callers
      BY DEF Callers
    <3>3. \A n \in ListOf(p).edits : Stays(n) \/ n = e
      BY <1>1, <3>2, ListClean
    <3>4. \A n \in ListOf(p).edits : Stays(n)'
      BY <1>9, <3>1, <3>3
    <3>5. \A q \in Pages : cards'[q] = IF q = p THEN ListOf(p) ELSE cards[q]
      BY <1>4, <2>1 DEF StoreInv, Shape
    <3> QED
      BY <1>9, <3>4, <3>5 DEF TraceInv, Clean
  <2>2. CASE cards' = cards
    BY <1>9, <2>2 DEF TraceInv, Clean
  <2> QED BY <1>4, <2>1, <2>2
<1>11. QueueClean'
  <2>1. ASSUME NEW q \in Pages, NEW k \in 1..Len(queue'[q]), NEW n \in queue'[q][k].list.edits
        PROVE  Stays(n)' \/ (n = queue'[q][k].edit /\ n # 0)
    <3>1. PICK j \in 1..Len(queue[q]) : queue'[q][k] = queue[q][j]
      BY <1>6
    <3> QED
      BY <1>9, <3>1 DEF TraceInv, QueueClean
  <2> QED BY <2>1 DEF QueueClean
<1> QED
  BY <1>4, <1>8, <1>9, <1>10, <1>11 DEF TraceInv, Clean

LEMMA ImportEdits ==
  ASSUME StoreInv, EditInv, TraceInv, NEW i \in Imports, StartImport(i) \/ MergeImport(i) \/ EndImport(i)
  PROVE  EditInv' /\ TraceInv'
<1>1. /\ UNCHANGED <<disk, cards, queue, got, edits, settled, refused>>
      /\ \E step : pc' = [pc EXCEPT ![i] = step]
      /\ \/ merged' = merged
         \/ \E names, flipped : merged' = [merged EXCEPT ![i] = List(names, flipped, disk.edits)]
         \/ merged' = [merged EXCEPT ![i] = NoFile]
  BY DEF StartImport, MergeImport, EndImport, file, page, ghosts
<1>2. \A p \in Pages : pc[p] = "saved" => pc'[p] = "saved"
  BY <1>1, CallersApart DEF StoreInv, Shape, Callers
<1>3. EditInv' /\ (\A n : Stays(n) => Stays(n)') /\ QueueClean'
  BY <1>1, <1>2, CalmEdits DEF TraceInv
<1>4. \A j \in Imports : merged'[j].edits = merged[j].edits \/ merged'[j].edits \in {{}, disk.edits}
  BY <1>1 DEF StoreInv, Shape, List, NoFile, File
<1> QED
  BY <1>1, <1>3, <1>4 DEF TraceInv, Clean

\* The end of the program ends every save; what was not refused by then never is.
LEMMA CrashEdits ==
  ASSUME StoreInv, EditInv, TraceInv, Crash
  PROVE  EditInv' /\ TraceInv'
<1>1. /\ UNCHANGED <<disk, cards, edits, refused>> /\ settled' = 1..edits
      /\ queue' = [p \in Pages |-> <<>>] /\ got' = [p \in Pages |-> NoFile]
      /\ merged' = [i \in Imports |-> NoFile]
  BY DEF Crash
<1>2. \A p \in Pages : 1..Len(queue'[p]) = {}
  BY <1>1
<1>3. EditInv'
  BY <1>1, <1>2 DEF EditInv
<1>4. \A n : Stays(n) => Stays(n)'
  BY <1>1, <1>2 DEF Stays
<1>5. QueueClean'
  BY <1>2 DEF QueueClean
<1> QED
  BY <1>1, <1>3, <1>4, <1>5 DEF TraceInv, Clean, NoFile, File

LEMMA TraceInvariant == Spec => [](StoreInv /\ EditInv /\ TraceInv)
<1> DEFINE Inv == StoreInv /\ EditInv /\ TraceInv
<1>1. Init => Inv
  <2> SUFFICES ASSUME Init PROVE EditInv /\ TraceInv
    BY Inductive
  <2>1. \A p \in Pages : 1..Len(queue[p]) = {}
    BY DEF Init
  <2>2. disk.edits = {} /\ \A p \in Pages : cards[p].edits = {} /\ got[p].edits = {}
    BY DEF Init, List, NoFile, Broken, File
  <2>3. \A i \in Imports : merged[i].edits = {}
    BY DEF Init, NoFile, File
  <2> QED
    BY <2>1, <2>2, <2>3 DEF Init, EditInv, TraceInv, QueueClean, Clean
<1>2. Inv /\ [Next]_vars => Inv'
  <2> SUFFICES ASSUME StoreInv, EditInv, TraceInv, [Next]_vars PROVE EditInv' /\ TraceInv'
    BY Inductive
  <2>1. ASSUME NEW c \in Callers, Save(c) \/ SaveFails(c) PROVE EditInv' /\ TraceInv'
    BY <2>1, SaveEdits
  <2>2. ASSUME NEW p \in Pages, OnPage(p)
        PROVE  EditInv' /\ TraceInv'
    BY <2>2, PageEdits
  <2>3. Leave => EditInv' /\ TraceInv'
    BY <2>2, BoundsAssumption DEF Pages, OnPage
  <2>4. ASSUME NEW p \in Pages, EndSave(p) PROVE EditInv' /\ TraceInv'
    BY <2>4, EndSaveEdits
  <2>5. ASSUME NEW i \in Imports, StartImport(i) \/ MergeImport(i) \/ EndImport(i) PROVE EditInv' /\ TraceInv'
    BY <2>5, ImportEdits
  <2>6. Crash => EditInv' /\ TraceInv'
    BY CrashEdits
  <2>7. CASE UNCHANGED vars
    <3>1. UNCHANGED <<disk, pc, merged, cards, got, queue, edits, settled, refused>>
      BY <2>7 DEF vars, file, calls, page, ghosts
    <3> QED
      BY <3>1, CalmEdits DEF TraceInv, Clean
  <2> QED
    BY <2>1, <2>2, <2>3, <2>4, <2>5, <2>6, <2>7 DEF Next, Progress, OnPage
<1> QED
  BY <1>1, <1>2, PTL DEF Spec

\* A list that was refused, by validation or by a failed call, leaves no trace on the
\* disk or on any page, nor through an edit made later: pages build on the cards that
\* were saved, and no save that failed has renamed its list into place.
THEOREM RefusedLeavesNoTraceHolds == Spec => []RefusedLeavesNoTrace
<1>1. TraceInv => RefusedLeavesNoTrace
  BY DEF TraceInv, Clean, Stays, RefusedLeavesNoTrace
<1> QED
  BY <1>1, TraceInvariant, PTL

-----------------------------------------------------------------------------
(* What a page shows.                                                      *)

\* A page that knows of every save: before its list has come it saves nothing, what it
\* has read is still on the disk, and then it shows what is there, or, between the rename
\* and the answer, is about to.  The defaults are saved first, and are what it shows.
Quiet(p) ==
  /\ load[p] \in {"no", "asked", "read"} => queue[p] = <<>>
  /\ load[p] = "read" => got[p] = disk
  /\ load[p] = "done" =>
       /\ pc[p] = "saved" => disk = queue[p][1].list
       /\ pc[p] # "saved" => cards[p] = disk \/ (queue[p] # <<>> /\ queue[p][1].edit = 0)
       /\ \A k \in 1..Len(queue[p]) : queue[p][k].edit = 0 => k = 1 /\ queue[p][1].list = cards[p]

QuietInv ==
  /\ DOMAIN load = Pages /\ overtaken \subseteq Pages
  /\ disk \in {NoFile, Broken} \/ disk.state = "list"
  /\ \A p \in Pages \ overtaken : Quiet(p)

LEMMA SamePage ==
  ASSUME NEW p \in Pages, Quiet(p), disk' = disk, load'[p] = load[p], got'[p] = got[p],
         cards'[p] = cards[p], queue'[p] = queue[p], pc'[p] = "saved" <=> pc[p] = "saved"
  PROVE  Quiet(p)'
BY DEF Quiet

\* Where no page goes on, and no save is renamed or ends.
LEMMA CalmQuiet ==
  ASSUME QuietInv, UNCHANGED <<disk, load, got, cards, queue, overtaken>>,
         \A p \in Pages : pc'[p] = "saved" <=> pc[p] = "saved"
  PROVE  QuietInv'
<1>1. \A p \in Pages \ overtaken' : Quiet(p)'
  BY SamePage DEF QuietInv
<1> QED BY <1>1 DEF QuietInv

LEMMA SaveQuiet ==
  ASSUME StoreInv, QuietInv, NEW c \in Callers, Save(c) \/ SaveFails(c)
  PROVE  QuietInv'
<1>1. CASE CheckList(c) \/ OpenTmp(c) \/ WriteTmp(c) \/ SaveFails(c)
  <2>1. /\ UNCHANGED <<disk, load, got, cards, queue, overtaken>>
        /\ \E step \in {"checked", "refused", "opened", "written"} : pc' = [pc EXCEPT ![c] = step]
    BY <1>1 DEF CheckList, OpenTmp, WriteTmp, SaveFails, page, ghosts
  <2>2. c \in Pages => pc[c] # "saved"
    BY <1>1 DEF CheckList, OpenTmp, WriteTmp, SaveFails, Calls, Callers
  <2>3. ASSUME NEW p \in Pages PROVE pc'[p] = "saved" <=> pc[p] = "saved"
    <3>1. DOMAIN pc = Callers /\ p \in Callers
      BY DEF StoreInv, Shape, Callers
    <3> QED BY <2>1, <2>2, <3>1
  <2> QED BY <2>1, <2>3, CalmQuiet
<1>2. CASE RenameTmp(c)
  <2>1. /\ pc[c] = "written" /\ pc' = [pc EXCEPT ![c] = "saved"] /\ UNCHANGED <<load, got, cards, queue>>
        /\ overtaken' = overtaken \cup {p \in Pages : p # c /\ load[p] \notin {"no", "asked"}}
    BY <1>2 DEF RenameTmp, page
  <2>2. disk' = ListOf(c)
    BY <1>2, RenameStep
  <2>3. ListOf(c).state = "list"
    BY <2>1, ListIsWhole DEF Holding
  <2>4. ASSUME NEW p \in Pages \ overtaken' PROVE Quiet(p)'
    <3>1. p \in Pages \ overtaken /\ (p = c \/ load[p] \in {"no", "asked"}) /\ Quiet(p)
      BY <2>1 DEF QuietInv
    <3>2. CASE load[p] \in {"no", "asked"}
      BY <2>1, <3>1, <3>2 DEF Quiet
    <3>3. CASE p = c
      <4>1. IsQueue(queue[p]) /\ queue[p] # <<>> /\ pc'[p] = "saved"
        BY <2>1, <3>3 DEF StoreInv, PageInv, Shape
      <4>2. disk' = queue[p][1].list
        BY <2>2, <3>3, <4>1, QueueAt, CallersApart
      <4> QED BY <2>1, <3>1, <4>1, <4>2 DEF Quiet
    <3> QED BY <3>1, <3>2, <3>3
  <2> QED BY <2>1, <2>2, <2>3, <2>4 DEF QuietInv
<1> QED BY <1>1, <1>2 DEF Save

LEMMA PageQuiet ==
  ASSUME StoreInv, EditInv, TraceInv, QuietInv,
         NEW p \in Pages, OnPage(p)
  PROVE  QuietInv'
<1>1. /\ UNCHANGED <<disk, pc>> /\ DOMAIN load = Pages /\ DOMAIN got = Pages
      /\ DOMAIN cards = Pages /\ DOMAIN queue = Pages /\ overtaken \subseteq Pages
  BY EditOrToggle DEF OnPage, Mount, SwitchTab, ReadList, ShowList, Leave, file, calls, StoreInv, Shape, TraceInv, QuietInv
<1>2. SUFFICES /\ DOMAIN load' = Pages /\ overtaken \subseteq overtaken' /\ overtaken' \subseteq Pages
               /\ \A q \in Pages \ {p} : /\ load'[q] = load[q] /\ got'[q] = got[q]
                                         /\ cards'[q] = cards[q] /\ queue'[q] = queue[q]
               /\ p \notin overtaken' => Quiet(p)'
  <2>1. ASSUME NEW q \in Pages \ overtaken', q # p PROVE Quiet(q)'
    <3>1. Quiet(q)
      BY <1>2, <2>1 DEF QuietInv
    <3> QED BY <1>1, <1>2, <2>1, <3>1, SamePage
  <2> QED BY <1>1, <1>2, <2>1 DEF QuietInv
<1>3. CASE Mount(p)
  <2>1. load[p] = "no" /\ load' = [load EXCEPT ![p] = "asked"] /\ UNCHANGED <<got, cards, queue, overtaken>>
    BY <1>3 DEF Mount, ghosts
  <2>2. p \notin overtaken => Quiet(p)'
    BY <1>1, <2>1 DEF QuietInv, Quiet
  <2> QED BY <1>1, <2>1, <2>2
<1>4. CASE Leave \/ SwitchTab(p)
  <2>1. UNCHANGED <<load, got, cards, queue, overtaken>>
    BY <1>4 DEF Leave, SwitchTab, ghosts
  <2>2. p \notin overtaken => Quiet(p)'
    BY <1>1, <2>1, SamePage DEF QuietInv
  <2> QED BY <1>1, <2>1, <2>2
<1>5. CASE ReadList(p)
  <2>1. /\ load[p] = "asked" /\ load' = [load EXCEPT ![p] = "read"] /\ got' = [got EXCEPT ![p] = disk]
        /\ UNCHANGED <<cards, queue, overtaken>>
    BY <1>5 DEF ReadList, ghosts
  <2>2. p \notin overtaken => Quiet(p)'
    BY <1>1, <2>1 DEF QuietInv, Quiet
  <2> QED BY <1>1, <2>1, <2>2
<1>6. CASE ShowList(p)
  <2>1. /\ load[p] = "read" /\ load' = [load EXCEPT ![p] = IF got[p] = Broken THEN "failed" ELSE "done"]
        /\ cards' = IF got[p].state = "list" THEN [cards EXCEPT ![p] = got[p]] ELSE cards
        /\ queue' = IF got[p] = NoFile THEN [queue EXCEPT ![p] = Append(queue[p], [list |-> cards[p], edit |-> 0])]
                    ELSE queue
        /\ got' = [got EXCEPT ![p] = NoFile] /\ overtaken' = overtaken
    BY <1>6 DEF ShowList, Drawn, ghosts, Enqueue
  <2>2. ASSUME p \notin overtaken PROVE Quiet(p)'
    <3>1. queue[p] = <<>> /\ got[p] = disk
      BY <2>1, <2>2 DEF QuietInv, Quiet
    <3>2. pc'[p] = "idle"
      BY <1>1, <3>1 DEF StoreInv, PageInv
    <3>3. CASE disk = NoFile
      <4> DEFINE x == [list |-> cards[p], edit |-> 0]
      <4>1. queue'[p] = <<x>> /\ cards'[p] = cards[p] /\ load'[p] = "done"
        BY <1>1, <2>1, <3>1, <3>3 DEF NoFile, Broken, File
      <4>2. x.list = cards[p] /\ x.edit = 0
        OBVIOUS
      <4> HIDE DEF x
      <4>3. queue'[p] # <<>> /\ queue'[p][1] = x /\ 1..Len(queue'[p]) = {1}
        BY <4>1
      <4> QED BY <3>2, <4>1, <4>2, <4>3 DEF Quiet
    <3>4. CASE disk = Broken
      BY <1>1, <2>1, <3>1, <3>4 DEF Quiet
    <3>5. CASE disk.state = "list"
      <4>1. queue'[p] = <<>> /\ cards'[p] = disk /\ load'[p] = "done"
        BY <1>1, <2>1, <3>1, <3>5 DEF NoFile, Broken, File
      <4>2. 1..Len(queue'[p]) = {}
        BY <4>1
      <4> QED BY <1>1, <3>2, <4>1, <4>2 DEF Quiet
    <3> QED BY <3>3, <3>4, <3>5 DEF QuietInv
  <2> QED BY <1>1, <2>1, <2>2
<1>7. CASE Edit(p) \/ Toggle(p)
  <2>1. PICK list : queue' = [queue EXCEPT ![p] = Append(queue[p], [list |-> list, edit |-> edits + 1])]
    BY <1>7, EditOrToggle DEF Enqueue
  <2>2. /\ UNCHANGED <<load, got, cards>>
        /\ overtaken' = IF load[p] \in {"done", "failed"} THEN overtaken ELSE overtaken \cup {p}
    BY <1>7, EditOrToggle DEF Use
  <2>3. ASSUME p \notin overtaken' PROVE Quiet(p)'
    <3> DEFINE x == [list |-> list, edit |-> edits + 1]
    <3>1. load[p] \in {"done", "failed"} /\ Quiet(p)
      BY <2>2, <2>3 DEF QuietInv
    <3>2. x.edit = edits + 1 /\ edits \in Nat
      BY DEF EditInv
    <3>3. queue'[p] = Append(queue[p], x)
      BY <1>1, <2>1
    <3> HIDE DEF x
    <3>4. IsQueue(queue[p])
      BY DEF StoreInv, PageInv
    <3>5. /\ Len(queue[p]) \in Nat
          /\ queue[p] # <<>> => 1 \in 1..Len(queue[p])
          /\ \A k \in 1..Len(queue'[p]) : \/ k \in 1..Len(queue[p]) /\ queue'[p][k] = queue[p][k]
                                          \/ k = Len(queue[p]) + 1 /\ queue'[p][k] = x
      BY <3>3, <3>4, QueueAt, AppendAt
    <3>6. queue[p] # <<>> => queue'[p][1] = queue[p][1] /\ queue'[p] # <<>>
      <4>1. PICK S : queue[p] \in Seq(S)
        BY <3>4 DEF IsQueue
      <4>2. queue[p] \in Seq(S \cup {x})
        BY <4>1
      <4> QED BY <3>3, <4>2
    <3>7. ASSUME load[p] = "done", NEW k \in 1..Len(queue'[p]), queue'[p][k].edit = 0
          PROVE  k = 1 /\ queue'[p][1].list = cards[p]
      <4>1. k \in 1..Len(queue[p]) /\ queue'[p][k] = queue[p][k]
        BY <3>2, <3>5, <3>7
      <4>2. k = 1 /\ queue[p][1].list = cards[p]
        BY <3>1, <3>7, <4>1 DEF Quiet
      <4> QED BY <4>1, <4>2
    <3>8. pc[p] = "saved" => queue[p] # <<>>
      BY DEF StoreInv, PageInv
    <3> QED BY <1>1, <2>2, <3>1, <3>6, <3>7, <3>8 DEF Quiet
  <2>4. overtaken \subseteq overtaken' /\ overtaken' \subseteq Pages
    BY <1>1, <2>2
  <2> QED BY <1>1, <2>1, <2>2, <2>3, <2>4
<1> QED BY <1>3, <1>4, <1>5, <1>6, <1>7 DEF OnPage

\* The cards become the list that was renamed, unless it was that of the cards.
LEMMA EndSaveQuiet ==
  ASSUME StoreInv, EditInv, TraceInv, QuietInv, NEW p \in Pages, EndSave(p)
  PROVE  QuietInv'
<1> DEFINE e == queue[p][1].edit
<1>1. /\ DOMAIN load = Pages /\ DOMAIN got = Pages /\ DOMAIN pc = Callers /\ p \in Callers
      /\ DOMAIN cards = Pages /\ DOMAIN queue = Pages /\ IsQueue(queue[p]) /\ queue[p] # <<>>
  BY DEF EndSave, StoreInv, Shape, PageInv, TraceInv, QuietInv, Callers
<1>2. /\ 1 \in 1..Len(queue[p]) /\ Head(queue[p]) = queue[p][1]
      /\ \A k \in 1..Len(Tail(queue[p])) : k + 1 \in 1..Len(queue[p]) /\ k # 0 /\ Tail(queue[p])[k] = queue[p][k + 1]
  BY <1>1, QueueAt
<1>3. ListOf(p) = queue[p][1].list
  BY <1>2, CallersApart
<1>4. /\ UNCHANGED <<disk, got, overtaken>> /\ pc[p] \in {"saved", "refused"}
      /\ cards' = IF pc[p] = "saved" /\ e # 0 THEN [cards EXCEPT ![p] = ListOf(p)] ELSE cards
      /\ load' = IF e = 0 /\ pc[p] = "refused" THEN [load EXCEPT ![p] = "failed"] ELSE load
      /\ queue' = [queue EXCEPT ![p] = Tail(queue[p])] /\ pc' = [pc EXCEPT ![p] = "idle"]
  BY <1>2 DEF EndSave, Drawn, file
<1>5. ASSUME NEW q \in Pages \ overtaken, q # p PROVE Quiet(q)'
  <2>1. Quiet(q) /\ q \in Callers
    BY DEF QuietInv, Callers
  <2> QED BY <1>1, <1>4, <1>5, <2>1, SamePage
<1>6. ASSUME p \notin overtaken PROVE Quiet(p)'
  <2>1. Quiet(p) /\ load[p] \notin {"no", "asked", "read"}
    BY <1>1, <1>6 DEF QuietInv, Quiet
  <2>2. pc'[p] = "idle" /\ queue'[p] = Tail(queue[p])
    BY <1>1, <1>4
  <2>3. load'[p] = "done" => load[p] = "done" /\ (pc[p] = "saved" \/ e # 0)
    BY <1>1, <1>4
  <2>4. load'[p] = "done" => cards'[p] = disk
    <3>1. CASE pc[p] = "saved" /\ e # 0
      BY <1>1, <1>3, <1>4, <2>1, <2>3, <3>1 DEF Quiet
    <3>2. CASE pc[p] = "saved" /\ e = 0
      BY <1>2, <1>4, <2>1, <2>3, <3>2 DEF Quiet
    <3>3. CASE pc[p] # "saved"
      BY <1>4, <2>1, <2>3, <3>3 DEF Quiet
    <3> QED BY <3>1, <3>2, <3>3
  <2>5. ASSUME load'[p] = "done", NEW k \in 1..Len(queue'[p]) PROVE queue'[p][k].edit # 0
    <3>1. k + 1 \in 1..Len(queue[p]) /\ queue'[p][k] = queue[p][k + 1] /\ k + 1 # 1
      BY <1>2, <2>2, <2>5
    <3> QED BY <2>1, <2>3, <2>5, <3>1 DEF Quiet
  <2>6. load'[p] \notin {"no", "asked", "read"}
    BY <1>1, <1>4, <2>1
  <2> QED BY <1>4, <2>2, <2>4, <2>5, <2>6 DEF Quiet
<1>7. DOMAIN load' = Pages
  BY <1>1, <1>4
<1> HIDE DEF e
<1> QED BY <1>4, <1>5, <1>6, <1>7 DEF QuietInv

LEMMA OtherQuiet ==
  ASSUME StoreInv, QuietInv,
         Crash \/ \E i \in Imports : StartImport(i) \/ MergeImport(i) \/ EndImport(i)
  PROVE  QuietInv'
<1>1. CASE \E i \in Imports : StartImport(i) \/ MergeImport(i) \/ EndImport(i)
  <2>1. PICK i, step : /\ i \in Imports /\ UNCHANGED <<disk, load, got, cards, queue, overtaken>>
                       /\ pc' = [pc EXCEPT ![i] = step]
    BY <1>1 DEF StartImport, MergeImport, EndImport, file, page, ghosts
  <2>2. \A p \in Pages : pc'[p] = pc[p]
    BY <2>1, CallersApart DEF StoreInv, Shape, Callers
  <2> QED BY <2>1, <2>2, CalmQuiet
<1>2. CASE Crash
  <2>1. /\ disk' = disk /\ overtaken' = overtaken
        /\ load' = [p \in Pages |-> IF load[p] = "no" THEN "no" ELSE "failed"]
        /\ queue' = [p \in Pages |-> <<>>]
    BY <1>2 DEF Crash
  <2>2. \A p \in Pages : load'[p] \in {"no", "failed"} /\ queue'[p] = <<>>
    BY <2>1
  <2>3. \A p \in Pages : Quiet(p)'
    BY <2>2 DEF Quiet
  <2> QED BY <2>1, <2>3 DEF QuietInv
<1> QED BY <1>1, <1>2

LEMMA QuietInvariant == Spec => [](StoreInv /\ EditInv /\ TraceInv /\ QuietInv)
<1> DEFINE Inv == StoreInv /\ EditInv /\ TraceInv
<1>1. Init => QuietInv
  <2> SUFFICES ASSUME Init PROVE QuietInv
    OBVIOUS
  <2>1. /\ DOMAIN load = Pages /\ overtaken \subseteq Pages
        /\ \A p \in Pages : load[p] \in {"asked", "no"} /\ queue[p] = <<>>
    BY DEF Init
  <2>2. disk \in {NoFile, Broken} \/ disk.state = "list"
    BY DEF Init, List, File
  <2> QED BY <2>1, <2>2 DEF QuietInv, Quiet
<1>2. Inv /\ QuietInv /\ [Next]_vars => QuietInv'
  <2> SUFFICES ASSUME StoreInv, EditInv, TraceInv, QuietInv, [Next]_vars PROVE QuietInv'
    OBVIOUS
  <2>1. ASSUME NEW c \in Callers, Save(c) \/ SaveFails(c) PROVE QuietInv'
    BY <2>1, SaveQuiet
  <2>2. ASSUME NEW p \in Pages, OnPage(p) PROVE QuietInv'
    BY <2>2, PageQuiet
  <2>3. Leave => QuietInv'
    BY <2>2, BoundsAssumption DEF Pages, OnPage
  <2>4. ASSUME NEW p \in Pages, EndSave(p) PROVE QuietInv'
    BY <2>4, EndSaveQuiet
  <2>5. (Crash \/ \E i \in Imports : StartImport(i) \/ MergeImport(i) \/ EndImport(i)) => QuietInv'
    BY OtherQuiet
  <2>6. CASE UNCHANGED vars
    <3>1. UNCHANGED <<disk, load, got, cards, queue, overtaken, pc>>
      BY <2>6 DEF vars, file, calls, page, ghosts
    <3> QED BY <3>1, CalmQuiet
  <2> QED
    BY <2>1, <2>2, <2>3, <2>4, <2>5, <2>6 DEF Next, Progress, OnPage
<1> QED
  BY <1>1, <1>2, TraceInvariant, PTL DEF Spec

-----------------------------------------------------------------------------
(* The types.  What is at stake is the range of the ids: an import takes   *)
(* the number after the greatest one there is, so that the ids that exist  *)
(* grow with the imports that have got so far.                             *)

Started == {i \in Imports : pc[i] # "idle"}
Given == {i \in Imports : pc[i] \notin {"idle", "diffed"}}
Bound == 10 * MaxEdits + 9 + Cardinality(Given)

\* A list whose ids are at most b.
UpTo(f, b) ==
  /\ f.state = "list" /\ f.edits \subseteq Edits /\ f.flipped \subseteq DOMAIN f.names
  /\ DOMAIN f.names \subseteq 1..b /\ \A i \in DOMAIN f.names : f.names[i] \in Names

\* Saves of such lists, of edits up to m.
IsSaves(q, b, m) == \E S : q \in Seq(S) /\ \A s \in S : UpTo(s.list, b) /\ s.edit \in 0..m

Lists(b, m) ==
  /\ disk \in {NoFile, Broken} \/ UpTo(disk, b)
  /\ tmp \in {NoFile, Torn} \/ UpTo(tmp, b)
  /\ \A i \in Imports : merged[i] = NoFile \/ UpTo(merged[i], b)
  /\ \A p \in Pages : got[p] \in {NoFile, Broken} \/ UpTo(got[p], b)
  /\ \A p \in Pages : UpTo(cards[p], b)
  /\ \A p \in Pages : IsSaves(queue[p], b, m)

PcValues == {"idle", "diffed", "merged", "checked", "opened", "written", "saved", "refused", "done"}

Control ==
  /\ lock \in Callers \cup {Free}
  /\ pc \in [Callers -> PcValues]
  /\ shown \in Pages \cup {0}
  /\ load \in [Pages -> {"no", "asked", "read", "done", "failed"}]
  /\ DOMAIN got = Pages
  /\ importing \in Imports \cup {NoImport}
  /\ edits \in 0..MaxEdits /\ events \in 0..MaxEvents
  /\ settled \subseteq 1..edits /\ refused \subseteq settled
  /\ overtaken \subseteq Pages

\* Each import that has started was an event.
Counted == IsFiniteSet(Started) /\ Cardinality(Started) <= events

TypeInv == Lists(Bound, edits) /\ Control /\ Counted

LEMMA UpToGrows ==
  ASSUME NEW a \in Int, NEW b \in Int, a <= b, NEW f, UpTo(f, a)
  PROVE  UpTo(f, b)
BY DEF UpTo

LEMMA SavesGrow ==
  ASSUME NEW a \in Int, NEW b \in Int, a <= b, NEW m \in Int, NEW n \in Int, m <= n, NEW q, IsSaves(q, a, m)
  PROVE  IsSaves(q, b, n)
<1>1. PICK S : q \in Seq(S) /\ \A s \in S : UpTo(s.list, a) /\ s.edit \in 0..m
  BY DEF IsSaves
<1>2. \A s \in S : UpTo(s.list, b) /\ s.edit \in 0..n
  BY <1>1, UpToGrows
<1> QED BY <1>1, <1>2 DEF IsSaves

LEMMA ListsGrow ==
  ASSUME NEW a \in Int, NEW b \in Int, a <= b, NEW m \in Int, NEW n \in Int, m <= n, Lists(a, m)'
  PROVE  Lists(b, n)'
<1>1. \A f : UpTo(f, a) => UpTo(f, b)
  BY UpToGrows
<1>2. \A q : IsSaves(q, a, m) => IsSaves(q, b, n)
  BY SavesGrow
<1> QED BY <1>1, <1>2 DEF Lists

LEMMA SavesEmpty ==
  ASSUME NEW b, NEW m
  PROVE  IsSaves(<<>>, b, m)
<1>1. PICK S : S = {}
  OBVIOUS
<1>2. <<>> \in Seq(S) /\ \A s \in S : UpTo(s.list, b) /\ s.edit \in 0..m
  BY <1>1
<1> QED BY <1>2 DEF IsSaves

LEMMA SavesAppend ==
  ASSUME NEW b, NEW m, NEW q, IsSaves(q, b, m), NEW x, UpTo(x.list, b), x.edit \in 0..m
  PROVE  IsSaves(Append(q, x), b, m)
<1>1. PICK S : q \in Seq(S) /\ \A s \in S : UpTo(s.list, b) /\ s.edit \in 0..m
  BY DEF IsSaves
<1> DEFINE T == S \cup {x}
<1>2. q \in Seq(T)
  BY <1>1
<1>3. Append(q, x) \in Seq(T)
  BY <1>2
<1>4. \A s \in T : UpTo(s.list, b) /\ s.edit \in 0..m
  BY <1>1
<1> QED BY <1>3, <1>4 DEF IsSaves

LEMMA SavesHead ==
  ASSUME NEW b, NEW m, NEW q, IsSaves(q, b, m), q # <<>>
  PROVE  UpTo(Head(q).list, b) /\ Head(q).edit \in 0..m /\ IsSaves(Tail(q), b, m)
<1>1. PICK S : q \in Seq(S) /\ \A s \in S : UpTo(s.list, b) /\ s.edit \in 0..m
  BY DEF IsSaves
<1>2. Head(q) \in S /\ Tail(q) \in Seq(S)
  BY <1>1
<1> QED BY <1>1, <1>2 DEF IsSaves

LEMMA SavesAt ==
  ASSUME NEW b, NEW m, NEW q, IsSaves(q, b, m), NEW i \in DOMAIN q
  PROVE  UpTo(q[i].list, b) /\ q[i].edit \in 0..m
<1>1. PICK S : q \in Seq(S) /\ \A s \in S : UpTo(s.list, b) /\ s.edit \in 0..m
  BY DEF IsSaves
<1>2. q[i] \in S
  BY <1>1
<1> QED BY <1>1, <1>2

\* A set of numbers up to b that is not empty has a greatest one: below the least of the
\* numbers that none exceeds there is one that something does.
LEMMA Greatest ==
  ASSUME NEW b \in Nat, NEW D, D \subseteq 1..b, D # {}
  PROVE  \E m \in D : \A k \in D : k <= m
<1> DEFINE T == {n \in Nat : \A k \in D : k <= n}
           R == {ss \in Nat \X Nat : ss[1] < ss[2]}
<1>1. IsWellFoundedOn(R, Nat)
  BY NatLessThanWellFounded DEF OpToRel
<1>2. b \in T /\ T \in SUBSET Nat
  OBVIOUS
<1>3. PICK x \in T : \A y \in T : ~(<<y, x>> \in R)
  <2> HIDE DEF R, T
  <2> QED BY <1>1, <1>2, WFMin
<1>4. x \in Nat /\ \A k \in D : k <= x /\ k \in Nat
  OBVIOUS
<1>5. CASE x \in D
  BY <1>4, <1>5
<1>6. CASE x \notin D
  <2>1. \A k \in D : k <= x - 1
    BY <1>4, <1>6
  <2>2. x # 0
    <3>1. PICK k \in D : k \in 1..b
      OBVIOUS
    <3> QED BY <1>4, <3>1
  <2>3. x - 1 \in T /\ <<x - 1, x>> \in R
    BY <1>4, <2>1, <2>2
  <2> QED BY <1>3, <2>3
<1> QED BY <1>5, <1>6

LEMMA NextId ==
  ASSUME NEW b \in Nat, NEW names, DOMAIN names \subseteq 1..b
  PROVE  nextProviderID(names) \in 1..(b + 1)
<1>1. CASE DOMAIN names = {}
  BY <1>1 DEF nextProviderID
<1>2. CASE DOMAIN names # {}
  <2> DEFINE m == CHOOSE m \in DOMAIN names : \A k \in DOMAIN names : k <= m
  <2>1. m \in DOMAIN names
    BY <1>2, Greatest
  <2>2. nextProviderID(names) = 1 + m
    BY <1>2 DEF nextProviderID
  <2> QED BY <2>1, <2>2
<1> QED BY <1>1, <1>2

LEMMA BoundType ==
  ASSUME TypeInv
  PROVE  Bound \in Int
<1>1. Given \in SUBSET Started
  BY DEF Given, Started
<1>2. Cardinality(Given) \in Nat
  BY <1>1, FS_Subset, FS_CardinalityType DEF TypeInv, Counted
<1> QED BY <1>2, BoundsAssumption DEF Bound

\* The imports that have got to a list are among those that have started, and both only grow.
LEMMA BoundGrows ==
  ASSUME Counted, Counted', Given \subseteq Given'
  PROVE  Bound \in Nat /\ Bound' \in Nat /\ Bound <= Bound'
<1>1. Given \in SUBSET Started /\ Given' \in SUBSET Started'
  BY DEF Given, Started
<1>2. IsFiniteSet(Given) /\ IsFiniteSet(Given')
  BY <1>1, FS_Subset DEF Counted
<1>3. Cardinality(Given) \in Nat /\ Cardinality(Given') \in Nat
  BY <1>2, FS_CardinalityType
<1>4. Cardinality(Given) <= Cardinality(Given')
  BY <1>2, FS_Subset
<1>5. MaxEdits \in Nat /\ Bound = 10 * MaxEdits + 9 + Cardinality(Given)
      /\ Bound' = 10 * MaxEdits + 9 + Cardinality(Given')
  BY BoundsAssumption DEF Bound
<1> QED BY <1>3, <1>4, <1>5

LEMMA SameStarts ==
  ASSUME Counted, events \in Nat, events' \in Nat, events <= events',
         \A i \in Imports : /\ pc'[i] = "idle" <=> pc[i] = "idle"
                            /\ pc[i] \notin {"idle", "diffed"} => pc'[i] \notin {"idle", "diffed"}
  PROVE  Counted' /\ Given \subseteq Given'
<1>1. Started' = Started /\ Given \subseteq Given'
  BY DEF Started, Given
<1>2. Cardinality(Started) \in Nat
  BY FS_CardinalityType DEF Counted
<1> QED BY <1>1, <1>2 DEF Counted

\* A step that makes no list with an id above the bound.
LEMMA Closes ==
  ASSUME TypeInv, Control', Counted', Given \subseteq Given',
         NEW b \in Int, b = Bound, Lists(b, edits)'
  PROVE  TypeInv'
<1>1. b \in Int /\ Bound' \in Int /\ b <= Bound'
  BY BoundGrows DEF TypeInv
<1>2. PICK n \in Int : n = edits'
  BY BoundsAssumption DEF Control
<1>3. Lists(b, n)'
  BY <1>2 DEF Lists
<1>4. PICK c \in Int : c = Bound'
  BY <1>1
<1>5. Lists(c, n)'
  BY <1>1, <1>3, <1>4, ListsGrow
<1>6. Lists(Bound, edits)'
  BY <1>2, <1>4, <1>5 DEF Lists
<1> QED BY <1>6 DEF TypeInv

\* What a caller saves is of the same kind.
LEMMA ListUpTo ==
  ASSUME StoreInv, NEW b, NEW m, Lists(b, m), NEW c \in Callers,
         Calls(c) \/ pc[c] \in Holding \cup {"saved", "refused"},
         c \in Imports => pc[c] \notin {"saved", "refused"}
  PROVE  UpTo(ListOf(c), b)
<1>1. CASE c \in Imports
  <2>1. pc[c] \in Holding \cup {"merged"}
    BY <1>1 DEF Calls
  <2>2. merged[c].state = "list"
    BY <1>1, <2>1 DEF StoreInv, ImportInv
  <2> QED BY <1>1, <2>2, CallersApart DEF Lists, NoFile, File
<1>2. CASE c \in Pages
  <2>1. queue[c] # <<>>
    BY <1>2, CallersApart DEF StoreInv, PageInv, Calls, Holding
  <2> QED BY <1>2, <2>1, SavesHead, CallersApart DEF Lists
<1> QED BY <1>1, <1>2 DEF Callers

-----------------------------------------------------------------------------
(* The steps, for the types.                                               *)

LEMMA SaveTypes ==
  ASSUME StoreInv, TypeInv, NEW c \in Callers, Save(c) \/ SaveFails(c)
  PROVE  TypeInv'
<1> PICK b \in Int : b = Bound
  BY BoundType
<1>1. /\ UNCHANGED <<merged, shown, load, got, cards, queue, importing, edits, settled, refused>>
      /\ overtaken' \subseteq Pages /\ events' \in 0..MaxEvents /\ events <= events'
      /\ lock' \in Callers \cup {Free}
      /\ \E step \in {"checked", "refused", "opened", "written", "saved"} : pc' = [pc EXCEPT ![c] = step]
      /\ pc[c] \in Holding \/ Calls(c)
  BY BoundsAssumption DEF Save, CheckList, OpenTmp, WriteTmp, RenameTmp, SaveFails, page, ghosts, TypeInv, Control, Holding
<1>2. Control'
  BY <1>1 DEF TypeInv, Control, PcValues
<1>3. c \in Imports => pc[c] \notin {"idle", "diffed"}
  BY <1>1 DEF Calls, Holding
<1>4. Counted' /\ Given \subseteq Given'
  <2>1. DOMAIN pc = Callers
    BY DEF StoreInv, Shape
  <2>2. ASSUME NEW i \in Imports
        PROVE  /\ pc'[i] = "idle" <=> pc[i] = "idle"
               /\ pc[i] \notin {"idle", "diffed"} => pc'[i] \notin {"idle", "diffed"}
    BY <1>1, <1>3, <2>1 DEF Callers
  <2>3. events \in Nat /\ events' \in Nat
    BY <1>1 DEF TypeInv, Control
  <2> QED BY <1>1, <2>2, <2>3, SameStarts DEF TypeInv
<1>5. Lists(b, edits)
  BY DEF TypeInv
<1>6. /\ disk' \in {NoFile, Broken} \/ UpTo(disk', b)
      /\ tmp' \in {NoFile, Torn} \/ UpTo(tmp', b)
  <2>1. CASE CheckList(c) \/ SaveFails(c)
    BY <1>5, <2>1 DEF CheckList, SaveFails, Lists
  <2>2. CASE OpenTmp(c)
    BY <1>5, <2>2 DEF OpenTmp, Lists
  <2>3. CASE WriteTmp(c)
    <3>1. UpTo(ListOf(c), b)
      BY <1>5, <2>3, ListUpTo DEF WriteTmp, Holding
    <3> QED BY <1>5, <2>3, <3>1 DEF WriteTmp, Lists
  <2>4. CASE RenameTmp(c)
    <3>1. UpTo(ListOf(c), b)
      BY <1>5, <2>4, ListUpTo DEF RenameTmp, Holding
    <3>2. disk' = ListOf(c)
      BY <2>4, RenameStep
    <3> QED BY <2>4, <3>1, <3>2 DEF RenameTmp
  <2> QED BY <2>1, <2>2, <2>3, <2>4 DEF Save
<1>7. Lists(b, edits)'
  BY <1>1, <1>5, <1>6 DEF Lists
<1> QED BY <1>2, <1>4, <1>7, Closes

LEMMA PageTypes ==
  ASSUME StoreInv, TypeInv, NEW p \in Pages, Mount(p) \/ SwitchTab(p) \/ ReadList(p) \/ ShowList(p) \/ Leave
  PROVE  TypeInv'
<1> PICK b \in Int : b = Bound
  BY BoundType
<1>1. /\ UNCHANGED <<disk, tmp, lock, pc, merged, edits, events, settled, refused, overtaken>>
      /\ shown' \in Pages \cup {0} /\ importing' \in Imports \cup {NoImport}
      /\ \/ load' = load
         \/ \E step \in {"asked", "read", "done", "failed"} : load' = [load EXCEPT ![p] = step]
      /\ got' = got \/ \E f \in {disk, NoFile} : got' = [got EXCEPT ![p] = f]
  BY DEF Mount, SwitchTab, ReadList, ShowList, Leave, file, calls, ghosts, TypeInv, Control
<1>2. Control'
  BY <1>1 DEF TypeInv, Control
<1>3. Counted' /\ Given \subseteq Given'
  BY <1>1 DEF TypeInv, Counted, Started, Given
<1>4. Lists(b, edits) /\ DOMAIN got = Pages /\ DOMAIN cards = Pages /\ DOMAIN queue = Pages /\ edits \in Nat
  BY DEF TypeInv, Control, StoreInv, Shape
<1>5. \A q \in Pages : got'[q] \in {NoFile, Broken} \/ UpTo(got'[q], b)
  BY <1>1, <1>4 DEF Lists
<1>6. \A q \in Pages : UpTo(cards'[q], b) /\ IsSaves(queue'[q], b, edits)
  <2>1. CASE ~ShowList(p)
    BY <1>4, <2>1 DEF Mount, SwitchTab, ReadList, Leave, Lists
  <2>2. CASE ShowList(p)
    <3> DEFINE x == [list |-> cards[p], edit |-> 0]
    <3>1. /\ cards' = cards \/ (got[p].state = "list" /\ cards' = [cards EXCEPT ![p] = got[p]])
          /\ queue' = queue \/ queue' = [queue EXCEPT ![p] = Append(queue[p], x)]
      BY <2>2 DEF ShowList, Drawn, Enqueue
    <3>2. got[p].state = "list" => UpTo(got[p], b)
      BY <1>4 DEF Lists, NoFile, Broken, File
    <3>3. x.list = cards[p] /\ x.edit = 0
      OBVIOUS
    <3> HIDE DEF x
    <3>4. IsSaves(Append(queue[p], x), b, edits)
      BY <1>4, <3>3, SavesAppend DEF Lists
    <3> QED BY <1>4, <3>1, <3>2, <3>4 DEF Lists
  <2> QED BY <2>1, <2>2
<1>7. Lists(b, edits)'
  BY <1>1, <1>4, <1>5, <1>6 DEF Lists
<1> QED BY <1>2, <1>3, <1>7, Closes

\* The number of an edit is new, and gives the id of the provider that is added.
LEMMA EditTypes ==
  ASSUME StoreInv, TypeInv, NEW p \in Pages, Edit(p) \/ Toggle(p)
  PROVE  TypeInv'
<1> PICK b \in Int : b = Bound
  BY BoundType
<1> DEFINE n == edits + 1
<1>1. /\ UNCHANGED <<disk, tmp, lock, pc, merged, shown, load, got, cards, importing, events, settled, refused>>
      /\ edits' = n /\ n \in 1..MaxEdits /\ n \in Int /\ edits \in Int /\ edits <= n
      /\ overtaken' \subseteq Pages
  BY BoundsAssumption, EditOrToggle DEF Use, file, calls, TypeInv, Control
<1>2. Control'
  BY <1>1 DEF TypeInv, Control
<1>3. Counted' /\ Given \subseteq Given'
  BY <1>1 DEF TypeInv, Counted, Started, Given
<1>4. Lists(b, edits) /\ DOMAIN queue = Pages
  BY DEF TypeInv, StoreInv, Shape
<1>5. PICK list \in Edited(cards[p], n) : Enqueue(p, list, n)
  BY EditOrToggle
<1>6. UpTo(cards[p], b) /\ n \in Edits /\ 10 * n \in 1..b
  <2>1. MaxEdits \in Nat /\ Cardinality(Given) \in Nat
    <3>1. Given \in SUBSET Started
      BY DEF Given, Started
    <3> QED BY <3>1, FS_Subset, FS_CardinalityType, BoundsAssumption DEF TypeInv, Counted
  <2>2. b = 10 * MaxEdits + 9 + Cardinality(Given)
    BY DEF Bound
  <2>3. 10 * n \in 1..b
    BY <1>1, <2>1, <2>2
  <2> QED BY <1>1, <1>4, <2>3 DEF Lists, Edits
<1> HIDE DEF n
<1>7. UpTo(list, b)
  <2> DEFINE old == cards[p]
  <2>1. \/ \E flips \in SUBSET DOMAIN old.names :
             list = List(old.names, SymDiff(old.flipped, flips), old.edits \cup {n})
        \/ list = List([i \in DOMAIN old.names \cup {10 * n} |-> IF i = 10 * n THEN "new" ELSE old.names[i]],
                       old.flipped, old.edits \cup {n})
        \/ \E i \in DOMAIN old.names :
             list = List([j \in DOMAIN old.names \ {i} |-> old.names[j]], old.flipped \ {i}, old.edits \cup {n})
    <3>1. {{}} \cup {{i} : i \in DOMAIN old.names} \subseteq SUBSET DOMAIN old.names
      OBVIOUS
    <3> QED BY <1>5, <3>1, Zenon DEF Edited, Changed
  <2>2. ASSUME NEW names, NEW flipped, list = List(names, flipped, old.edits \cup {n}),
               flipped \subseteq DOMAIN names, DOMAIN names \subseteq 1..b,
               \A i \in DOMAIN names : names[i] \in Names
        PROVE  UpTo(list, b)
    BY <1>6, <2>2 DEF UpTo, List, File
  <2>3. /\ DOMAIN old.names \subseteq 1..b /\ \A i \in DOMAIN old.names : old.names[i] \in Names
        /\ old.flipped \subseteq DOMAIN old.names
    BY <1>6 DEF UpTo
  <2>4. "new" \in Names
    BY DEF Names
  <2> HIDE DEF old
  <2>5. ASSUME NEW flips \in SUBSET DOMAIN old.names,
               list = List(old.names, SymDiff(old.flipped, flips), old.edits \cup {n})
        PROVE  UpTo(list, b)
    <3>1. SymDiff(old.flipped, flips) \subseteq DOMAIN old.names
      BY <2>3, <2>5 DEF SymDiff
    <3> QED BY <2>2, <2>3, <2>5, <3>1
  <2>6. CASE list = List([i \in DOMAIN old.names \cup {10 * n} |-> IF i = 10 * n THEN "new" ELSE old.names[i]],
                         old.flipped, old.edits \cup {n})
    <3> DEFINE names == [i \in DOMAIN old.names \cup {10 * n} |-> IF i = 10 * n THEN "new" ELSE old.names[i]]
    <3>1. /\ DOMAIN names \subseteq 1..b /\ \A i \in DOMAIN names : names[i] \in Names
          /\ old.flipped \subseteq DOMAIN names
      BY <1>6, <2>3, <2>4
    <3> HIDE DEF names
    <3> QED BY <2>2, <2>6, <3>1 DEF names
  <2>7. ASSUME NEW i \in DOMAIN old.names,
               list = List([j \in DOMAIN old.names \ {i} |-> old.names[j]], old.flipped \ {i}, old.edits \cup {n})
        PROVE  UpTo(list, b)
    <3> DEFINE names == [j \in DOMAIN old.names \ {i} |-> old.names[j]]
    <3>1. /\ DOMAIN names \subseteq 1..b /\ \A j \in DOMAIN names : names[j] \in Names
          /\ old.flipped \ {i} \subseteq DOMAIN names
      BY <2>3
    <3> HIDE DEF names
    <3> QED BY <2>2, <2>7, <3>1 DEF names
  <2> QED BY <2>1, <2>5, <2>6, <2>7
<1> DEFINE x == [list |-> list, edit |-> n]
<1>8. queue' = [queue EXCEPT ![p] = Append(queue[p], x)]
  BY <1>5 DEF Enqueue
<1>9. x.list = list /\ x.edit = n
  OBVIOUS
<1> HIDE DEF x
<1>10. \A q \in Pages : IsSaves(queue[q], b, n)
  BY <1>1, <1>4, SavesGrow DEF Lists
<1>11. IsSaves(Append(queue[p], x), b, n)
  BY <1>1, <1>7, <1>9, <1>10, SavesAppend
<1>12. Lists(b, edits)'
  BY <1>1, <1>4, <1>8, <1>10, <1>11 DEF Lists
<1> QED BY <1>2, <1>3, <1>12, Closes

LEMMA EndSaveTypes ==
  ASSUME StoreInv, TypeInv, NEW p \in Pages, EndSave(p)
  PROVE  TypeInv'
<1> PICK b \in Int : b = Bound
  BY BoundType
<1> DEFINE n == Head(queue[p]).edit
<1>1. /\ UNCHANGED <<disk, tmp, lock, merged, shown, got, importing, edits, events, overtaken>>
      /\ pc[p] \in {"saved", "refused"} /\ pc' = [pc EXCEPT ![p] = "idle"]
      /\ queue' = [queue EXCEPT ![p] = Tail(queue[p])]
      /\ cards' = [cards EXCEPT ![p] = ListOf(p)] \/ cards' = cards
      /\ load' = [load EXCEPT ![p] = "failed"] \/ load' = load
      /\ settled' = settled \cup ({n} \ {0})
      /\ refused' = refused \cup ({n} \ {0}) \/ refused' = refused
  BY DEF EndSave, Drawn, file
<1>2. /\ Lists(b, edits) /\ p \in Callers /\ p \notin Imports
      /\ DOMAIN queue = Pages /\ DOMAIN cards = Pages /\ DOMAIN pc = Callers
      /\ edits \in 0..MaxEdits
  BY CallersApart DEF TypeInv, Control, StoreInv, Shape, Callers
<1>3. queue[p] # <<>>
  BY <1>1 DEF StoreInv, PageInv
<1>4. UpTo(ListOf(p), b) /\ n \in 0..edits /\ IsSaves(Tail(queue[p]), b, edits)
  BY <1>2, <1>3, SavesHead, CallersApart DEF Lists
<1> HIDE DEF n
<1>5. Control'
  <2>1. settled' \subseteq 1..edits /\ refused' \subseteq settled'
    <3>1. {n} \ {0} \subseteq 1..edits
      BY <1>2, <1>4
    <3>2. settled \subseteq 1..edits /\ refused \subseteq settled
      BY DEF TypeInv, Control
    <3> QED BY <1>1, <3>1, <3>2
  <2> QED BY <1>1, <2>1 DEF TypeInv, Control, PcValues
<1>6. Counted' /\ Given \subseteq Given'
  <2>1. \A i \in Imports : pc'[i] = pc[i]
    BY <1>1, <1>2
  <2> QED BY <1>1, <2>1 DEF TypeInv, Counted, Started, Given
<1>7. Lists(b, edits)'
  BY <1>1, <1>2, <1>4 DEF Lists
<1> QED BY <1>5, <1>6, <1>7, Closes

LEMMA ImportTypes ==
  ASSUME StoreInv, TypeInv, NEW i \in Imports, StartImport(i) \/ EndImport(i)
  PROVE  TypeInv'
<1> PICK b \in Int : b = Bound
  BY BoundType
<1>1. /\ UNCHANGED <<disk, tmp, lock, shown, load, got, cards, queue, edits, settled, refused, overtaken>>
      /\ importing' \in Imports \cup {NoImport}
      /\ merged' = merged \/ merged' = [merged EXCEPT ![i] = NoFile]
  BY DEF StartImport, EndImport, file, page, ghosts, TypeInv, Control
<1>2. DOMAIN pc = Callers /\ i \in Callers /\ DOMAIN merged = Imports /\ MaxEvents \in Nat
      /\ events \in 0..MaxEvents
  BY BoundsAssumption DEF StoreInv, Shape, Callers, TypeInv, Control
<1>3. Lists(b, edits)'
  BY <1>1, <1>2 DEF TypeInv, Lists
<1>4. CASE StartImport(i)
  <2>1. pc[i] = "idle" /\ pc' = [pc EXCEPT ![i] = "diffed"] /\ events < MaxEvents /\ events' = events + 1
    BY <1>4 DEF StartImport
  <2>2. Control'
    BY <1>1, <1>2, <2>1 DEF TypeInv, Control, PcValues
  <2>3. Started' = Started \cup {i} /\ Given \subseteq Given'
    BY <1>2, <2>1 DEF Started, Given, Callers
  <2>4. IsFiniteSet(Started) /\ Cardinality(Started) <= events /\ Cardinality(Started) \in Nat
    BY FS_CardinalityType DEF TypeInv, Counted
  <2>5. Counted'
    <3>1. IsFiniteSet(Started') /\ Cardinality(Started') <= Cardinality(Started) + 1 /\ Cardinality(Started') \in Nat
      <4>1. /\ IsFiniteSet(Started \cup {i})
            /\ Cardinality(Started \cup {i}) = IF i \in Started THEN Cardinality(Started) ELSE Cardinality(Started) + 1
        BY <2>4, FS_AddElement
      <4> QED BY <2>3, <2>4, <4>1
    <3> QED BY <1>2, <2>1, <2>4, <3>1 DEF Counted
  <2> QED BY <1>3, <2>2, <2>3, <2>5, Closes
<1>5. CASE EndImport(i)
  <2>1. pc[i] \in {"saved", "refused"} /\ pc' = [pc EXCEPT ![i] = "done"] /\ events' = events
    BY <1>5 DEF EndImport
  <2>2. Control'
    BY <1>1, <1>2, <2>1 DEF TypeInv, Control, PcValues
  <2>3. Started' = Started /\ Given \subseteq Given'
    BY <1>2, <2>1 DEF Started, Given, Callers
  <2>4. Counted'
    BY <2>1, <2>3 DEF TypeInv, Counted
  <2> QED BY <1>3, <2>2, <2>3, <2>4, Closes
<1> QED BY <1>4, <1>5

\* The merge takes the next id, one import more has got to a list.
LEMMA MergeTypes ==
  ASSUME StoreInv, TypeInv, NEW i \in Imports, MergeImport(i)
  PROVE  TypeInv'
<1> PICK b \in Int : b = Bound
  BY BoundType
<1> DEFINE id == nextProviderID(disk.names)
           list == List([k \in DOMAIN disk.names \cup {id} |-> IF k = id THEN i ELSE disk.names[k]], disk.flipped,
                        disk.edits)
<1>1. /\ UNCHANGED <<disk, tmp, lock, shown, load, got, cards, queue, importing, edits, events, settled, refused,
                     overtaken>>
      /\ pc[i] = "diffed" /\ pc' = [pc EXCEPT ![i] = "merged"]
      /\ Readable(disk)
      /\ merged' = [merged EXCEPT ![i] = list]
  BY DEF MergeImport, file, page, ghosts
<1>2. DOMAIN pc = Callers /\ i \in Callers /\ DOMAIN merged = Imports /\ Lists(b, edits) /\ edits \in Int
  BY BoundsAssumption DEF StoreInv, Shape, Callers, TypeInv, Control
<1>3. Control'
  BY <1>1 DEF TypeInv, Control, PcValues
<1>4. Started' = Started /\ Given' = Given \cup {i} /\ i \notin Given
  BY <1>1, <1>2 DEF Started, Given, Callers
<1>5. Counted'
  BY <1>1, <1>4 DEF TypeInv, Counted
<1>6. b \in Nat /\ Bound' = b + 1
  <2>1. Given \in SUBSET Started
    BY DEF Given, Started
  <2>2. IsFiniteSet(Given)
    BY <2>1, FS_Subset DEF TypeInv, Counted
  <2>3. Cardinality(Given) \in Nat /\ Cardinality(Given') = Cardinality(Given) + 1
    BY <1>4, <2>2, FS_AddElement, FS_CardinalityType
  <2>4. /\ MaxEdits \in Nat /\ b = 10 * MaxEdits + 9 + Cardinality(Given)
        /\ Bound' = 10 * MaxEdits + 9 + Cardinality(Given')
    BY BoundsAssumption DEF Bound
  <2> QED BY <2>3, <2>4
<1>7. UpTo(list, b + 1)
  <2>1. /\ DOMAIN disk.names \subseteq 1..b /\ disk.edits \subseteq Edits
        /\ disk.flipped \subseteq DOMAIN disk.names
        /\ \A k \in DOMAIN disk.names : disk.names[k] \in Names
    <3>1. CASE disk = NoFile
      BY <3>1 DEF NoFile, File
    <3>2. CASE UpTo(disk, b)
      BY <3>2 DEF UpTo
    <3> QED BY <1>1, <1>2, <3>1, <3>2 DEF Lists, Readable, Broken, File
  <2>2. id \in 1..(b + 1)
    BY <1>6, <2>1, NextId
  <2> HIDE DEF id
  <2>3. i \in Names
    BY DEF Names
  <2> QED BY <1>6, <2>1, <2>2, <2>3 DEF UpTo, List, File
<1> HIDE DEF list
<1>8. Lists(b + 1, edits)'
  <2>1. \A f : UpTo(f, b) => UpTo(f, b + 1)
    BY UpToGrows
  <2>2. \A q : IsSaves(q, b, edits) => IsSaves(q, b + 1, edits)
    BY <1>2, SavesGrow
  <2> QED BY <1>1, <1>2, <1>7, <2>1, <2>2 DEF Lists
<1> QED BY <1>3, <1>5, <1>6, <1>8 DEF TypeInv

LEMMA CrashTypes ==
  ASSUME StoreInv, TypeInv, Crash
  PROVE  TypeInv'
<1> PICK b \in Int : b = Bound
  BY BoundType
<1>1. /\ UNCHANGED <<disk, tmp, cards, edits, refused, overtaken>>
      /\ events < MaxEvents /\ events' = events + 1
      /\ lock' = Free /\ shown' = 0 /\ importing' = NoImport /\ settled' = 1..edits
      /\ pc' = [c \in Callers |-> IF pc[c] \in {"idle", "done"} THEN pc[c]
                                  ELSE IF c \in Imports THEN "done" ELSE "idle"]
      /\ merged' = [i \in Imports |-> NoFile]
      /\ load' = [p \in Pages |-> IF load[p] = "no" THEN "no" ELSE "failed"]
      /\ queue' = [p \in Pages |-> <<>>]
      /\ got' = [p \in Pages |-> NoFile]
  BY DEF Crash
<1>2. Control'
  <2>1. events' \in 0..MaxEvents
    BY <1>1, BoundsAssumption DEF TypeInv, Control
  <2>2. pc' \in [Callers -> PcValues]
    BY <1>1 DEF PcValues
  <2>3. load' \in [Pages -> {"no", "asked", "read", "done", "failed"}]
    BY <1>1
  <2> QED BY <1>1, <2>1, <2>2, <2>3 DEF TypeInv, Control
<1>3. Counted' /\ Given \subseteq Given'
  <2>1. ASSUME NEW i \in Imports
        PROVE  /\ pc'[i] = "idle" <=> pc[i] = "idle"
               /\ pc[i] \notin {"idle", "diffed"} => pc'[i] \notin {"idle", "diffed"}
    BY <1>1 DEF Callers
  <2>2. events \in Nat /\ events' \in Nat /\ events <= events'
    BY <1>1 DEF TypeInv, Control
  <2> QED BY <2>1, <2>2, SameStarts DEF TypeInv
<1>4. Lists(b, edits)'
  BY <1>1, SavesEmpty DEF TypeInv, Lists
<1> QED BY <1>2, <1>3, <1>4, Closes

LEMMA InitTypes ==
  ASSUME Init
  PROVE  TypeInv
<1> USE DEF Init
<1>1. Started = {} /\ Given = {}
  BY DEF Started, Given, Callers
<1>2. Counted
  BY <1>1, FS_EmptySet DEF Counted
<1>3. Control
  BY BoundsAssumption DEF Control, PcValues, Pages
<1>4. Bound = 10 * MaxEdits + 9 /\ MaxEdits \in Nat
  BY <1>1, FS_EmptySet, BoundsAssumption DEF Bound
<1>5. UpTo(List(Defaults, {}, {}), Bound)
  <2>1. \A i \in DOMAIN Defaults : Defaults[i] \in Names
    BY DEF Names
  <2>2. DOMAIN Defaults \subseteq 1..(10 * MaxEdits + 9)
    BY <1>4, DefaultsAssumption
  <2> QED BY <1>4, <2>1, <2>2 DEF UpTo, List, File
<1>6. Lists(Bound, edits)
  BY <1>5, SavesEmpty DEF Lists
<1> QED BY <1>2, <1>3, <1>6 DEF TypeInv

LEMMA TypeInvariant == Spec => [](StoreInv /\ TypeInv)
<1>1. Init => StoreInv /\ TypeInv
  BY Inductive, InitTypes
<1>2. StoreInv /\ TypeInv /\ [Next]_vars => (StoreInv /\ TypeInv)'
  <2> SUFFICES ASSUME StoreInv, TypeInv, [Next]_vars PROVE StoreInv' /\ TypeInv'
    OBVIOUS
  <2>1. StoreInv'
    BY Inductive
  <2>2. Leave => TypeInv'
    BY PageTypes, BoundsAssumption DEF Pages
  <2>3. CASE UNCHANGED vars
    <3>1. UNCHANGED <<disk, tmp, lock, pc, merged, shown, load, got, cards, queue, importing, edits, events,
                      settled, refused, overtaken>>
      BY <2>3 DEF vars, file, calls, page, ghosts
    <3>2. Given' = Given /\ Started' = Started
      BY <3>1 DEF Given, Started
    <3>3. Control' /\ Counted' /\ Given \subseteq Given'
      BY <3>1, <3>2 DEF TypeInv, Control, Counted
    <3>4. PICK b \in Int : b = Bound
      BY BoundType
    <3>5. Lists(b, edits)
      BY <3>4 DEF TypeInv
    <3>6. Lists(b, edits)'
      BY <3>1, <3>5 DEF Lists
    <3> QED BY <2>1, <3>3, <3>4, <3>6, Closes
  <2> QED
    BY <2>1, <2>2, <2>3, SaveTypes, PageTypes, EditTypes, EndSaveTypes, ImportTypes, MergeTypes, CrashTypes
    DEF Next, Progress
<1> QED BY <1>1, <1>2, PTL DEF Spec

-----------------------------------------------------------------------------
(* The switches.                                                           *)

\* A switch that does not show its card: the save of the move waits, for the opposite of
\* the card, or it was refused.
Pending(p, t) ==
  \/ t.edit \in refused
  \/ \E k \in 1..Len(queue[p]) :
       queue[p][k].edit = t.edit /\ (t.id \in queue[p][k].list.flipped <=> t.id \notin cards[p].flipped)

TickInv ==
  /\ DOMAIN ticked = Pages
  /\ \A p \in Pages : ticked[p] \subseteq [edit : Edits, id : Ids] /\ \A t \in ticked[p] : Pending(p, t)

LEMMA BoundInIds ==
  ASSUME TypeInv
  PROVE  Bound \in Nat /\ Bound <= 10 * MaxEdits + 9 + MaxEvents
<1>1. Given \in SUBSET Started
  BY DEF Given, Started
<1>2. /\ Cardinality(Given) \in Nat /\ Cardinality(Started) \in Nat
      /\ Cardinality(Given) <= Cardinality(Started) /\ Cardinality(Started) <= events
  BY <1>1, FS_Subset, FS_CardinalityType DEF TypeInv, Counted
<1> QED BY <1>2, BoundsAssumption DEF Bound, TypeInv, Control

\* The save of a move goes on waiting, and its card stays.
LEMMA StillPending ==
  ASSUME NEW p, NEW t, Pending(p, t), refused \subseteq refused',
         t.id \in cards'[p].flipped <=> t.id \in cards[p].flipped,
         \A k \in 1..Len(queue[p]) : queue[p][k].edit = t.edit =>
           t.edit \in refused' \/ \E j \in 1..Len(queue'[p]) : queue'[p][j] = queue[p][k]
  PROVE  Pending(p, t)'
BY DEF Pending

\* Nothing that a switch depends on changes, but that switches are drawn anew.
LEMMA CalmTicks ==
  ASSUME TickInv, UNCHANGED <<cards, queue>>, refused \subseteq refused',
         DOMAIN ticked' = Pages, \A p \in Pages : ticked'[p] \subseteq ticked[p]
  PROVE  TickInv'
<1>1. ASSUME NEW p \in Pages, NEW t \in ticked'[p] PROVE Pending(p, t)'
  BY <1>1, StillPending DEF TickInv
<1> QED BY <1>1 DEF TickInv

\* A save that is added leaves the others where they are.
LEMMA AppendTicks ==
  ASSUME StoreInv, NEW p \in Pages, NEW list, NEW n, Enqueue(p, list, n)
  PROVE  /\ \A q \in Pages : \A k \in 1..Len(queue[q]) :
              \E j \in 1..Len(queue'[q]) : queue'[q][j] = queue[q][k]
         /\ \E j \in 1..Len(queue'[p]) : queue'[p][j].edit = n /\ queue'[p][j].list = list
<1> DEFINE x == [list |-> list, edit |-> n]
<1>1. x.list = list /\ x.edit = n
  OBVIOUS
<1>2. \A q \in Pages : queue'[q] = IF q = p THEN Append(queue[p], x) ELSE queue[q]
  BY DEF Enqueue, StoreInv, Shape
<1> HIDE DEF x
<1>3. PICK S : queue[p] \in Seq(S)
  BY DEF StoreInv, PageInv, IsQueue
<1>4. queue[p] \in Seq(S \cup {x})
  BY <1>3
<1>5. /\ Len(Append(queue[p], x)) = Len(queue[p]) + 1 /\ Len(queue[p]) \in Nat
      /\ Append(queue[p], x)[Len(queue[p]) + 1] = x
      /\ \A k \in 1..Len(queue[p]) : Append(queue[p], x)[k] = queue[p][k]
  BY <1>4
<1>6. ASSUME NEW q \in Pages, NEW k \in 1..Len(queue[q])
      PROVE  \E j \in 1..Len(queue'[q]) : queue'[q][j] = queue[q][k]
  <2>1. CASE q = p
    <3>1. k \in 1..(Len(queue[p]) + 1)
      BY <1>5, <1>6, <2>1
    <3> QED BY <1>2, <1>5, <1>6, <2>1, <3>1
  <2>2. CASE q # p
    BY <1>2, <1>6, <2>2
  <2> QED BY <2>1, <2>2
<1>7. Len(queue[p]) + 1 \in 1..Len(queue'[p]) /\ queue'[p][Len(queue[p]) + 1] = x
  <2>1. queue'[p] = Append(queue[p], x)
    BY <1>2
  <2>2. Len(queue[p]) + 1 \in 1..(Len(queue[p]) + 1)
    BY <1>5
  <2> QED BY <1>5, <2>1, <2>2
<1> QED BY <1>1, <1>6, <1>7

LEMMA EditTicks ==
  ASSUME StoreInv, EditInv, TypeInv, TickInv, NEW p \in Pages, Edit(p) \/ Toggle(p)
  PROVE  TickInv'
<1>1. PICK list, n : Enqueue(p, list, n)
  BY EditOrToggle
<1>2. UNCHANGED <<cards, refused>>
  BY EditOrToggle
<1>3. \A q \in Pages : \A t : Pending(q, t) => Pending(q, t)'
  BY <1>1, <1>2, AppendTicks, StillPending
<1>4. CASE Edit(p)
  BY <1>3, <1>4 DEF Edit, TickInv
<1>5. CASE Toggle(p)
  <2>1. PICK i \in DOMAIN cards[p].names :
          \/ ticked' = [ticked EXCEPT ![p] = ticked[p] \ {t \in ticked[p] : t.id = i}]
          \/ /\ Enqueue(p, Changed(cards[p], {i}, edits + 1), edits + 1)
             /\ ticked' = [ticked EXCEPT ![p] = ticked[p] \cup {[edit |-> edits + 1, id |-> i]}]
    BY <1>5 DEF Toggle
  <2>2. CASE ticked' = [ticked EXCEPT ![p] = ticked[p] \ {t \in ticked[p] : t.id = i}]
    BY <1>3, <2>2 DEF TickInv
  <2>3. CASE /\ Enqueue(p, Changed(cards[p], {i}, edits + 1), edits + 1)
             /\ ticked' = [ticked EXCEPT ![p] = ticked[p] \cup {[edit |-> edits + 1, id |-> i]}]
    <3> PICK x : x = [edit |-> edits + 1, id |-> i]
      OBVIOUS
    <3> DEFINE new == Changed(cards[p], {i}, edits + 1)
    <3>1. x \in [edit : Edits, id : Ids]
      <4>1. UpTo(cards[p], Bound)
        BY DEF TypeInv, Lists
      <4>2. i \in 1..Bound
        BY <4>1 DEF UpTo
      <4>3. i \in Ids
        BY <4>2, BoundInIds, BoundsAssumption DEF Ids
      <4>4. edits + 1 \in Edits
        BY <1>5, BoundsAssumption DEF Toggle, Use, TypeInv, Control, Edits
      <4> QED BY <4>3, <4>4
    <3>2. new.flipped = SymDiff(cards[p].flipped, {i})
      BY DEF Changed, List, File
    <3>3. x.id \in new.flipped <=> x.id \notin cards[p].flipped
      BY <3>2 DEF SymDiff
    <3>4. \E j \in 1..Len(queue'[p]) : queue'[p][j].edit = x.edit /\ queue'[p][j].list = new
      BY <2>3, AppendTicks
    <3> HIDE DEF new
    <3>5. Pending(p, x)'
      BY <1>2, <3>3, <3>4 DEF Pending
    <3>6. \A q \in Pages : ticked'[q] = IF q = p THEN ticked[p] \cup {x} ELSE ticked[q]
      BY <2>3 DEF TickInv
    <3>7. DOMAIN ticked' = Pages
      BY <2>3 DEF TickInv
    <3> QED BY <1>3, <3>1, <3>5, <3>6, <3>7 DEF TickInv
  <2> QED BY <2>1, <2>2, <2>3
<1> QED BY <1>4, <1>5

\* What is drawn sets every switch whose card has changed.
LEMMA DrawnTicks ==
  ASSUME StoreInv, TickInv, NEW p \in Pages, NEW list, Drawn(p, list) \/ UNCHANGED <<cards, ticked>>,
         NEW q \in Pages, NEW t \in ticked'[q]
  PROVE  /\ t \in ticked[q]
         /\ t.id \in cards'[q].flipped <=> t.id \in cards[q].flipped
BY DEF Drawn, TickInv, StoreInv, Shape

LEMMA ShowTicks ==
  ASSUME StoreInv, TickInv, NEW p \in Pages, ShowList(p)
  PROVE  TickInv'
<1>1. /\ Drawn(p, got[p]) \/ UNCHANGED <<cards, ticked>>
      /\ Enqueue(p, cards[p], 0) \/ queue' = queue
      /\ refused' = refused
  BY DEF ShowList, ghosts
<1>2. \A q \in Pages : \A k \in 1..Len(queue[q]) :
        \E j \in 1..Len(queue'[q]) : queue'[q][j] = queue[q][k]
  BY <1>1, AppendTicks
<1>3. DOMAIN ticked' = Pages
  BY <1>1 DEF Drawn, TickInv
<1>4. ASSUME NEW q \in Pages, NEW t \in ticked'[q]
      PROVE  t \in ticked[q] /\ Pending(q, t)'
  <2>1. t \in ticked[q] /\ (t.id \in cards'[q].flipped <=> t.id \in cards[q].flipped)
    BY <1>1, DrawnTicks
  <2>2. Pending(q, t)
    BY <2>1 DEF TickInv
  <2> QED BY <1>1, <1>2, <2>1, <2>2, StillPending
<1> QED BY <1>3, <1>4 DEF TickInv

\* The answer to the save of a move sets the switch, or the move was refused.
LEMMA EndSaveTicks ==
  ASSUME StoreInv, EditInv, TickInv, NEW p \in Pages, EndSave(p)
  PROVE  TickInv'
<1> DEFINE e == queue[p][1].edit
<1>1. /\ IsQueue(queue[p]) /\ queue[p] # <<>> /\ DOMAIN queue = Pages /\ DOMAIN cards = Pages
  BY DEF EndSave, StoreInv, Shape, PageInv
<1>2. /\ 1 \in 1..Len(queue[p]) /\ Head(queue[p]) = queue[p][1] /\ Len(queue[p]) \in Nat
      /\ Len(Tail(queue[p])) = Len(queue[p]) - 1
      /\ \A k \in 1..Len(Tail(queue[p])) : Tail(queue[p])[k] = queue[p][k + 1]
  <2>1. PICK S : queue[p] \in Seq(S)
    BY <1>1 DEF IsQueue
  <2> QED BY <1>1, <2>1
<1>3. ListOf(p) = queue[p][1].list
  BY <1>2, CallersApart
<1>4. /\ pc[p] \in {"saved", "refused"}
      /\ IF pc[p] = "saved" /\ e # 0 THEN Drawn(p, ListOf(p)) ELSE UNCHANGED <<cards, ticked>>
      /\ refused' = IF pc[p] = "refused" THEN refused \cup ({e} \ {0}) ELSE refused
      /\ queue' = [queue EXCEPT ![p] = Tail(queue[p])]
  BY <1>2 DEF EndSave
<1>5. refused \subseteq refused' /\ DOMAIN ticked' = Pages
  BY <1>4 DEF Drawn, TickInv
<1>6. ASSUME NEW q \in Pages, NEW t \in ticked'[q]
      PROVE  t \in ticked[q] /\ Pending(q, t)'
  <2>1. t \in ticked[q] /\ (t.id \in cards'[q].flipped <=> t.id \in cards[q].flipped)
    BY <1>4, DrawnTicks
  <2>2. Pending(q, t) /\ t.edit # 0
    BY <2>1, BoundsAssumption DEF TickInv, Edits
  <2>3. CASE q = p /\ t.edit = e
    <3>1. CASE pc[p] = "refused"
      BY <1>4, <2>1, <2>2, <2>3, <3>1 DEF Pending
    <3>2. CASE pc[p] = "saved"
      <4>1. cards'[p] = queue[p][1].list
        BY <1>1, <1>3, <1>4, <2>2, <2>3, <3>2 DEF Drawn
      <4>2. \A k \in 1..Len(queue[p]) : queue[p][k].edit = t.edit => k = 1
        BY <1>2, <2>2, <2>3 DEF EditInv
      <4>3. ~(t.id \in queue[p][1].list.flipped <=> t.id \notin cards[p].flipped)
        BY <2>1, <2>3, <4>1
      <4>4. t.edit \in refused
        BY <2>2, <2>3, <4>2, <4>3 DEF Pending
      <4>5. t.edit \in refused'
        BY <1>5, <4>4
      <4> QED BY <2>1, <4>5 DEF Pending
    <3> QED BY <1>4, <3>1, <3>2
  <2>4. CASE q # p \/ t.edit # e
    <3>1. ASSUME NEW k \in 1..Len(queue[q]), queue[q][k].edit = t.edit
          PROVE  \E j \in 1..Len(queue'[q]) : queue'[q][j] = queue[q][k]
      <4>1. CASE q # p
        BY <1>1, <1>4, <3>1, <4>1
      <4>2. CASE q = p
        <5>1. k # 1
          BY <2>4, <3>1, <4>2
        <5>2. k - 1 \in 1..Len(Tail(queue[p])) /\ (k - 1) + 1 = k
          BY <1>2, <3>1, <4>2, <5>1
        <5>3. queue'[q] = Tail(queue[p])
          BY <1>1, <1>4, <4>2
        <5> QED BY <1>2, <4>2, <5>2, <5>3
      <4> QED BY <4>1, <4>2
    <3> QED BY <1>5, <2>1, <2>2, <3>1, StillPending
  <2> QED BY <2>1, <2>3, <2>4
<1> QED BY <1>5, <1>6 DEF TickInv

LEMMA TickInvariant == Spec => [](StoreInv /\ TypeInv /\ TickInv)
<1> DEFINE Inv == StoreInv /\ EditInv /\ TraceInv /\ TypeInv
<1>1. Init => TickInv
  BY DEF Init, TickInv
<1>2. Inv /\ TickInv /\ [Next]_vars => TickInv'
  <2> SUFFICES ASSUME StoreInv, EditInv, TypeInv, TickInv, [Next]_vars PROVE TickInv'
    OBVIOUS
  <2>1. CASE UNCHANGED <<cards, ticked, queue, refused>>
    BY <2>1, CalmTicks DEF TickInv
  <2>2. ASSUME NEW p \in Pages, Edit(p) \/ Toggle(p) PROVE TickInv'
    BY <2>2, EditTicks
  <2>3. ASSUME NEW p \in Pages, ShowList(p) PROVE TickInv'
    BY <2>3, ShowTicks
  <2>4. ASSUME NEW p \in Pages, EndSave(p) PROVE TickInv'
    BY <2>4, EndSaveTicks
  <2>5. ASSUME NEW p \in Pages, SwitchTab(p) PROVE TickInv'
    BY <2>5, CalmTicks DEF SwitchTab, TickInv, ghosts
  <2>6. CASE Leave
    BY <2>6, CalmTicks DEF Leave, TickInv, ghosts
  <2>7. CASE Crash
    BY <2>7 DEF Crash, TickInv
  <2> QED
    BY <2>1, <2>2, <2>3, <2>4, <2>5, <2>6, <2>7 DEF Next, Progress, Save, CheckList, OpenTmp, WriteTmp, RenameTmp,
      SaveFails, Mount, ReadList, StartImport, MergeImport, EndImport, page, ghosts, vars
<1> QED
  BY <1>1, <1>2, TraceInvariant, TypeInvariant, PTL DEF Spec

\* A page that has nothing left to save shows the list on the disk, for any number of
\* pages, edits, imports and failures, and whichever of its own saves failed, unless it
\* was overtaken: the queue runs its saves one after another, and each answer shows the
\* list that was renamed last.  Only a switch whose move was refused does not show it.
THEOREM QuietShowsDiskHolds == Spec => []QuietShowsDisk
<1> DEFINE Inv == StoreInv /\ QuietInv /\ TickInv
<1>1. Inv => QuietShowsDisk
  <2> SUFFICES ASSUME Inv, NEW p \in Pages, load[p] = "done", queue[p] = <<>>, p \notin overtaken
               PROVE  cards[p] = disk /\ \A t \in ticked[p] : t.edit \in refused
    BY DEF QuietShowsDisk
  <2>1. pc[p] = "idle"
    BY DEF StoreInv, PageInv
  <2>2. cards[p] = disk
    BY <2>1 DEF QuietInv, Quiet
  <2>3. 1..Len(queue[p]) = {}
    OBVIOUS
  <2>4. \A t \in ticked[p] : t.edit \in refused
    BY <2>3 DEF TickInv, Pending
  <2> QED BY <2>2, <2>4
<1> QED BY <1>1, QuietInvariant, TickInvariant, PTL

-----------------------------------------------------------------------------
\* Whatever is on the disk, beside it, on a page, in a queue or in an import is a list of
\* providers that exist, with ids that were given to them: an import takes the next one of
\* the list it has read, and no more ids are used than edits and imports were made.
THEOREM AlwaysTypeOK == Spec => []TypeOK
<1>1. StoreInv /\ TypeInv /\ TickInv => TypeOK
  <2> SUFFICES ASSUME StoreInv, TypeInv, TickInv PROVE TypeOK
    OBVIOUS
  <2>1. Bound \in Nat /\ Bound <= 10 * MaxEdits + 9 + MaxEvents
    BY BoundInIds
  <2>2. \A f : UpTo(f, Bound) => IsList(f)
    BY <2>1, BoundsAssumption DEF UpTo, IsList, Ids
  <2>3. edits \in 0..MaxEdits /\ Lists(Bound, edits)
    BY DEF TypeInv, Control
  <2>4. ASSUME NEW p \in Pages, NEW i \in DOMAIN queue[p]
        PROVE  IsList(queue[p][i].list) /\ queue[p][i].edit \in 0..MaxEdits
    <3>1. IsSaves(queue[p], Bound, edits)
      BY <2>3 DEF Lists
    <3>2. UpTo(queue[p][i].list, Bound) /\ queue[p][i].edit \in 0..edits
      BY <2>4, <3>1, SavesAt
    <3> QED BY <2>2, <2>3, <3>2, BoundsAssumption
  <2>5. settled \subseteq Edits
    BY <2>3, BoundsAssumption DEF TypeInv, Control, Edits
  <2> QED
    BY <2>2, <2>3, <2>4, <2>5 DEF TypeOK, TypeInv, Lists, Control, PcValues, TickInv
<1> QED BY <1>1, TickInvariant, PTL

-----------------------------------------------------------------------------
(* Models.  A provider is asked for them in the steps of RelaySpec.        *)

\* A target without a star is taken as it is, whatever the star of the key stands
\* for: the first return of applyWildcardMapping.
LEMMA PlainTarget ==
  ASSUME NEW pattern, NEW replacement, NEW input, ~HasStar(replacement)
  PROVE  applyWildcardMapping(pattern, replacement, input) = replacement
BY DEF applyWildcardMapping

\* The target of an entry that ValidateConfiguration accepts is listed unless it
\* has a star.
LEMMA ValidTarget ==
  ASSUME NEW p, p.supported # {}, p.providerType # "deepseek",
         ValidateConfiguration(p) = {},
         NEW k \in DOMAIN p.mapping, ~HasStar(p.mapping[k])
  PROVE  Listed(p, p.mapping[k])
BY DEF ValidateConfiguration

\* The names GetEffectiveModel may give for a model that IsModelSupported accepts
\* are listed, or come from a target with a star.
LEMMA EffectiveModelListed ==
  ASSUME NEW p, p.supported # {}, p.providerType # "deepseek",
         NEW model, ValidateConfiguration(p) = {}, IsModelSupported(p, model),
         NEW name \in GetEffectiveModel(p, model)
  PROVE  \/ Listed(p, name)
         \/ \E k \in DOMAIN p.mapping :
              HasStar(p.mapping[k]) /\ (k = model \/ matchWildcard(k, model))
<1>1. CASE model \in DOMAIN p.mapping
  <2>1. name = p.mapping[model]
    BY <1>1 DEF GetEffectiveModel
  <2>2. CASE HasStar(p.mapping[model])
    BY <1>1, <2>2
  <2>3. CASE ~HasStar(p.mapping[model])
    BY <1>1, <2>1, <2>3, ValidTarget
  <2> QED BY <2>2, <2>3
<1>2. CASE model \notin DOMAIN p.mapping /\ Hits(p, model) # {}
  <2>1. PICK k \in Hits(p, model) : name = applyWildcardMapping(k, p.mapping[k], model)
    BY <1>2 DEF GetEffectiveModel
  <2>2. k \in DOMAIN p.mapping /\ matchWildcard(k, model)
    BY DEF Hits
  <2>3. CASE HasStar(p.mapping[k])
    BY <2>2, <2>3
  <2>4. CASE ~HasStar(p.mapping[k])
    BY <2>1, <2>2, <2>4, PlainTarget, ValidTarget
  <2> QED BY <2>3, <2>4
<1>3. CASE model \notin DOMAIN p.mapping /\ Hits(p, model) = {}
  <2>1. name = model
    BY <1>3 DEF GetEffectiveModel
  <2>2. Listed(p, model)
    BY <1>3 DEF IsModelSupported
  <2> QED BY <2>1, <2>2
<1> QED BY <1>1, <1>2, <1>3

\* The relay asks a provider with a whitelist for listed models only, for every
\* whitelist, mapping and model, except through a target with a star, which nothing
\* looks at, and for the adapter, which does not use the mapping: up to these
\* proxyHandler's filters are enough, also for a file that was edited by hand and
\* never validated by SaveProviders.
THEOREM ServedModelListedHolds == RelaySpec => []ServedModelListed
<1>1. NothingAsked => ServedModelListed
  BY DEF NothingAsked, ServedModelListed, Sent
<1>2. ServedModelListed /\ [Relay]_relayed => ServedModelListed'
  <2> SUFFICES ASSUME ServedModelListed, [Relay]_relayed
               PROVE  ServedModelListed'
    OBVIOUS
  <2>1. CASE SkipProvider
    BY <2>1 DEF SkipProvider, ServedModelListed, Sent
  <2>2. CASE AskProvider
    <3> SUFFICES ASSUME asked' # <<>>, provider'.supported # {}, provider'.providerType # "deepseek"
                 PROVE  \/ Listed(provider, outcome')
                        \/ \E k \in DOMAIN provider.mapping :
                             HasStar(provider.mapping[k]) /\ (k = asked' \/ matchWildcard(k, asked'))
      BY <2>2 DEF AskProvider, ServedModelListed, Sent, Listed
    <3>1. /\ ValidateConfiguration(provider) = {}
          /\ IsModelSupported(provider, asked')
          /\ outcome' \in GetEffectiveModel(provider, asked')
          /\ provider' = provider
      BY <2>2 DEF AskProvider, Eligible
    <3> QED BY <3>1, EffectiveModelListed
  <2>3. CASE UNCHANGED relayed
    BY <2>3 DEF relayed, ServedModelListed, Sent, Listed
  <2> QED BY <2>1, <2>2, <2>3 DEF Relay
<1> QED BY <1>1, <1>2, PTL DEF RelaySpec

-----------------------------------------------------------------------------
(* The part that a star stands for.                                        *)

\* A key with one star is cut there.
LEMMA CutAtStar ==
  ASSUME NEW S, NEW k \in Seq(S), OneStar(k)
  PROVE  Before(k) \in Seq(S) /\ After(k) \in Seq(S)
<1>1. IsFiniteSet(Stars(k)) /\ Stars(k) \subseteq 1..Len(k)
  BY FS_Interval, FS_Subset DEF Stars
<1>2. PICK i : Stars(k) = {i}
  BY <1>1, FS_Singleton DEF OneStar
<1>3. FirstStar(k) = i /\ i \in 1..Len(k)
  BY <1>1, <1>2 DEF FirstStar
<1>4. Before(k) \in Seq(S)
  BY <1>3, SubSeqProperties DEF Before
<1>5. After(k) \in Seq(S)
  BY <1>3, SubSeqProperties DEF After
<1> QED BY <1>4, <1>5

\* A text that begins with one sequence and ends in another, which do not overlap,
\* is the two with the slice of applyWildcardMapping between them.
LEMMA PartBetween ==
  ASSUME NEW S, NEW a \in Seq(S), NEW b \in Seq(S), NEW text \in Seq(S),
         IsPrefix(a, text), IsSuffix(b, text), Len(a) <= Len(text) - Len(b)
  PROVE  text = a \o SubSeq(text, Len(a) + 1, Len(text) - Len(b)) \o b
<1> DEFINE part == SubSeq(text, Len(a) + 1, Len(text) - Len(b))
           whole == a \o part \o b
<1>1. /\ part \in Seq(S)
      /\ Len(part) = Len(text) - Len(b) - Len(a)
      /\ \A i \in 1..Len(part) : part[i] = text[Len(a) + i]
  BY SubSeqProperties
<1>2. \A i \in 1..Len(a) : a[i] = text[i]
  BY SubSeqProperties DEF IsPrefix
<1>3. \A i \in 1..Len(b) : b[i] = text[Len(text) - Len(b) + i]
  <2>1. /\ Len(Reverse(b)) = Len(b) /\ Len(Reverse(text)) = Len(text)
        /\ Reverse(b) \in Seq(S) /\ Reverse(text) \in Seq(S)
        /\ \A j \in 1..Len(b) : Reverse(b)[j] = b[Len(b) - j + 1]
        /\ \A j \in 1..Len(text) : Reverse(text)[j] = text[Len(text) - j + 1]
    BY DEF Reverse
  <2>2. \A j \in 1..Len(b) : Reverse(b)[j] = Reverse(text)[j]
    BY <2>1, SubSeqProperties DEF IsSuffix, IsPrefix
  <2> TAKE i \in 1..Len(b)
  <2>3. /\ Len(b) - i + 1 \in 1..Len(b) /\ Len(b) - i + 1 \in 1..Len(text)
        /\ Len(b) - (Len(b) - i + 1) + 1 = i
        /\ Len(text) - (Len(b) - i + 1) + 1 = Len(text) - Len(b) + i
    OBVIOUS
  <2>4. Reverse(b)[Len(b) - i + 1] = b[i]
    BY <2>1, <2>3
  <2>5. Reverse(text)[Len(b) - i + 1] = text[Len(text) - Len(b) + i]
    BY <2>1, <2>3
  <2> QED BY <2>2, <2>3, <2>4, <2>5
<1>4. /\ a \o part \in Seq(S) /\ Len(a \o part) = Len(a) + Len(part)
      /\ \A i \in 1..Len(a) + Len(part) :
           (a \o part)[i] = IF i <= Len(a) THEN a[i] ELSE part[i - Len(a)]
  BY <1>1, ConcatProperties
<1>5. /\ whole \in Seq(S) /\ Len(whole) = Len(text)
      /\ \A i \in 1..Len(text) :
           whole[i] = IF i <= Len(a \o part) THEN (a \o part)[i] ELSE b[i - Len(a \o part)]
  BY <1>1, <1>4, ConcatProperties
<1>6. ASSUME NEW i \in 1..Len(text) PROVE whole[i] = text[i]
  <2>1. CASE i <= Len(a)
    BY <2>1, <1>1, <1>2, <1>4, <1>5
  <2>2. CASE Len(a) < i /\ i <= Len(text) - Len(b)
    BY <2>2, <1>1, <1>4, <1>5
  <2>3. CASE Len(text) - Len(b) < i
    <3>1. Len(a \o part) = Len(text) - Len(b) /\ i - Len(a \o part) \in 1..Len(b)
      BY <2>3, <1>1, <1>4
    <3>2. whole[i] = b[i - Len(a \o part)]
      BY <2>3, <3>1, <1>5
    <3>3. b[i - Len(a \o part)] = text[Len(text) - Len(b) + (i - Len(a \o part))]
      BY <3>1, <1>3
    <3>4. Len(text) - Len(b) + (i - Len(a \o part)) = i
      BY <3>1
    <3> QED BY <3>2, <3>3, <3>4
  <2> QED BY <2>1, <2>2, <2>3
<1> QED BY <1>5, <1>6, SeqEqual
\* What applyWildcardMapping returns, when it returns, for a key that matches.
LEMMA TargetFilled ==
  ASSUME NEW k \in Seq(Chars), NEW target, NEW model \in Seq(Chars),
         HasStar(k), matchWildcard(k, model),
         HasStar(target), applyWildcardMapping(k, target, model) # Panic
  PROVE  Carried(k, target, model, applyWildcardMapping(k, target, model))
<1> DEFINE from == Len(Before(k))
           to == Len(model) - Len(After(k))
           part == SubSeq(model, from + 1, to)
<1>1. OneStar(k) /\ IsPrefix(Before(k), model) /\ IsSuffix(After(k), model)
  BY DEF matchWildcard
<1>2. Before(k) \in Seq(Chars) /\ After(k) \in Seq(Chars)
  BY <1>1, CutAtStar
<1>3. from \in Nat /\ to \in Int /\ to <= Len(model) /\ Len(model) \in Nat
  BY <1>2
<1>4. applyWildcardMapping(k, target, model) =
        IF to < from THEN Panic ELSE Before(target) \o part \o After(target)
  BY DEF applyWildcardMapping
<1>5. from <= to
  BY <1>3, <1>4
<1>6. applyWildcardMapping(k, target, model) = Before(target) \o part \o After(target)
  BY <1>3, <1>4, <1>5
<1>7. model = Before(k) \o part \o After(k)
  BY <1>1, <1>2, <1>5, PartBetween
<1>8. from \in 0..Len(model) /\ to \in 0..Len(model)
  BY <1>3, <1>5
<1> QED BY <1>6, <1>7, <1>8 DEF Carried

\* Renaming through a wildcard carries the star's part of every model over, for
\* every mapping and whichever of the entries that match is taken.
THEOREM StarCarriedHolds == RelaySpec => []StarCarried
<1> DEFINE IInv == provider \in Providers /\ StarCarried
<1>1. NothingAsked => IInv
  BY DEF NothingAsked, StarCarried, Sent
<1>2. IInv /\ [Relay]_relayed => IInv'
  <2> SUFFICES ASSUME IInv, [Relay]_relayed
               PROVE  IInv'
    OBVIOUS
  <2>1. CASE SkipProvider
    BY <2>1 DEF SkipProvider, StarCarried, Sent
  <2>2. CASE AskProvider
    <3>1. /\ provider' = provider /\ provider \in Providers /\ asked' \in Seq(Chars)
          /\ asked' = <<>> => outcome' = asked'
          /\ asked' # <<>> => outcome' \in GetEffectiveModel(provider, asked')
      BY <2>2, ModelsAssumption DEF AskProvider
    <3>2. ASSUME outcome' # Panic, asked' \notin DOMAIN provider.mapping, outcome' # asked'
          PROVE  Renamed(provider, asked', outcome')
      <4>1. PICK k \in Hits(provider, asked') :
              outcome' = applyWildcardMapping(k, provider.mapping[k], asked')
        BY <3>1, <3>2 DEF GetEffectiveModel
      <4>2. k \in DOMAIN provider.mapping /\ matchWildcard(k, asked') /\ k \in Seq(Chars)
        BY <3>1, ProvidersAssumption DEF Hits
      <4>3. HasStar(k)
        BY <3>2, <4>2 DEF matchWildcard
      <4>4. CASE HasStar(provider.mapping[k])
        <5>1. Carried(k, provider.mapping[k], asked', outcome')
          BY <3>1, <3>2, <4>1, <4>2, <4>3, <4>4, TargetFilled
        <5> QED BY <4>2, <4>4, <5>1 DEF Renamed
      <4>5. CASE ~HasStar(provider.mapping[k])
        BY <4>1, <4>2, <4>5, PlainTarget DEF Renamed
      <4> QED BY <4>4, <4>5
    <3>3. StarCarried'
      BY <3>1, <3>2 DEF StarCarried, Sent
    <3> QED BY <3>1, <3>3
  <2>3. CASE UNCHANGED relayed
    <3>1. provider' = provider /\ asked' = asked /\ outcome' = outcome
      BY <2>3 DEF relayed
    <3> QED BY <3>1 DEF StarCarried, Sent
  <2> QED BY <2>1, <2>2, <2>3 DEF Relay
<1> QED BY <1>1, <1>2, PTL DEF RelaySpec
==============================================================================
