---------------------------- MODULE SkillsProofs ----------------------------
(***************************************************************************)
(* What TLAPS proves of Skills, for every set of directories, archives and *)
(* repositories, every number of calls, and every bound.                   *)
(***************************************************************************)
EXTENDS Skills, TLAPS, WellFoundedInduction

Fields == DOMAIN Idle

IsCall(k) == DOMAIN k = Fields

\* What a call that saves depends on.
SameSave(k, m) == m.at = k.at /\ m.next = k.next /\ m.op = k.op /\ m.dir = k.dir /\ m.entry = k.entry

\* A call that is about to rename skill.json holds the mutex, and what it renames
\* is the store as it is, with the change of the call.
StoreInv ==
  /\ DOMAIN call = Slots
  /\ \A c \in Slots : IsCall(call[c])
  /\ \A c \in Slots : call[c].at = "saving" => lock = c /\ call[c].next = Edited(store, call[c])
  /\ store = expected

-----------------------------------------------------------------------------
(* The helpers.                                                            *)

\* Every call the page makes has the fields of a call and starts at the start.
LEMMA CallFields ==
  ASSUME NEW op, NEW dir, NEW entry
  PROVE  IsCall(Call(op, dir, entry)) /\ Call(op, dir, entry).at = "start"
BY DEF IsCall, Fields, Idle, Call

\* A call stays one when the code assigns to its variables.
LEMMA NextRepoEffect ==
  ASSUME NEW k, IsCall(k)
  PROVE  IsCall(NextRepo(k)) /\ NextRepo(k).at \in {"fetch", "merge", "done"}
<1>1. "at" \in Fields
  BY DEF Fields, Idle, Call
<1> QED
  BY <1>1 DEF NextRepo, IsCall

\* One call goes on, the others stay as they are.
LEMMA BecomesEffect ==
  ASSUME StoreInv, NEW c \in Slots, NEW k, IsCall(k), Becomes(c, k)
  PROVE  /\ DOMAIN call' = Slots
         /\ \A b \in Slots : IsCall(call'[b])
         /\ call'[c] = k
         /\ \A b \in Slots \ {c} : call'[b] = call[b]
BY DEF StoreInv, Becomes

LEMMA GoesEffect ==
  ASSUME StoreInv, NEW c \in Slots, NEW step
  PROVE  /\ IsCall([call[c] EXCEPT !.at = step])
         /\ [call[c] EXCEPT !.at = step].at = step
<1>1. "at" \in DOMAIN call[c]
  BY DEF StoreInv, IsCall, Fields, Idle, Call
<1> QED
  BY <1>1 DEF StoreInv, IsCall

LEMMA EndsEffect ==
  ASSUME StoreInv, NEW c \in Slots, NEW ok
  PROVE  /\ IsCall([call[c] EXCEPT !.at = "done", !.ok = ok])
         /\ [call[c] EXCEPT !.at = "done", !.ok = ok].at = "done"
<1>1. "at" \in DOMAIN call[c] /\ "ok" \in DOMAIN call[c]
  BY DEF StoreInv, IsCall, Fields, Idle, Call
<1> QED
  BY <1>1 DEF StoreInv, IsCall

\* What a call does outside of the mutex leaves the invariant as it is.
LEMMA Outside ==
  ASSUME StoreInv, UNCHANGED <<store, lock, expected>>,
         DOMAIN call' = Slots,
         \A c \in Slots : IsCall(call'[c]) /\ (call'[c].at = "saving" => SameSave(call[c], call'[c]))
  PROVE  StoreInv'
<1>1. ASSUME NEW c \in Slots, call'[c].at = "saving"
      PROVE  lock' = c /\ call'[c].next = Edited(store', call'[c])
  <2>1. SameSave(call[c], call'[c]) /\ call[c].at = "saving"
    BY <1>1 DEF SameSave
  <2>2. lock = c /\ call[c].next = Edited(store, call[c])
    BY <2>1 DEF StoreInv
  <2>3. Edited(store, call'[c]) = Edited(store, call[c])
    BY <2>1 DEF SameSave, Edited
  <2> QED
    BY <2>1, <2>2, <2>3 DEF SameSave
<1> QED
  BY <1>1 DEF StoreInv

LEMMA OneOutside ==
  ASSUME StoreInv, UNCHANGED <<store, lock, expected>>,
         NEW c \in Slots, NEW k, IsCall(k), k.at # "saving", Becomes(c, k)
  PROVE  StoreInv'
<1>1. /\ DOMAIN call' = Slots
      /\ \A b \in Slots : IsCall(call'[b])
      /\ call'[c] = k
      /\ \A b \in Slots \ {c} : call'[b] = call[b]
  BY BecomesEffect
<1>2. \A b \in Slots : call'[b].at = "saving" => SameSave(call[b], call'[b])
  BY <1>1 DEF SameSave
<1> QED
  BY <1>1, <1>2, Outside

\* The calls that disturb each other are marked; nothing else of them changes.
LEMMA StartEffect ==
  ASSUME StoreInv, UNCHANGED <<store, lock, expected>>,
         NEW c \in Slots, NEW k, IsCall(k), k.at = "start", Start(c, k)
  PROVE  StoreInv'
<1> DEFINE marked(b) == [call[b] EXCEPT !.alone = @ /\ ~Disturbs(call[b], k)]
<1> DEFINE entered == [k EXCEPT !.alone = \A b \in Slots : ~Disturbs(call[b], k)]
<1>1. /\ DOMAIN call' = Slots
      /\ call'[c] = entered
      /\ \A b \in Slots \ {c} : call'[b] = marked(b)
  BY DEF Start, Started, Alone
<1>2. {"at", "next", "op", "dir", "entry", "alone"} \subseteq Fields
  BY DEF Fields, Idle, Call
<1>3. IsCall(entered) /\ entered.at = "start"
  BY <1>2 DEF IsCall
<1>4. \A b \in Slots : IsCall(marked(b)) /\ SameSave(call[b], marked(b))
  BY <1>2 DEF StoreInv, IsCall, SameSave
<1> HIDE DEF marked, entered
<1>5. \A b \in Slots : IsCall(call'[b]) /\ (call'[b].at = "saving" => SameSave(call[b], call'[b]))
  BY <1>1, <1>3, <1>4
<1> QED
  BY <1>1, <1>5, Outside

-----------------------------------------------------------------------------
(* The steps.                                                              *)

\* The steps of the service that do not hold the mutex.
LEMMA ServiceOutside ==
  ASSUME StoreInv, NEW c \in Slots,
         \/ LoadStore(c) \/ Fetch(c) \/ FetchFails(c) \/ MergeLocalSkills(c)
         \/ RemoveTarget(c) \/ RemoveFails(c) \/ CopyFile(c) \/ ListRepos(c)
  PROVE  StoreInv'
<1> DEFINE k == call[c]
<1>1. IsCall(k)
  BY DEF StoreInv
<1>2. {"at", "next", "op", "dir", "entry", "seen", "todo", "src", "copied", "ok", "alone"} = Fields
  BY DEF Fields, Idle, Call
<1>3. UNCHANGED <<store, lock, expected>>
  BY DEF LoadStore, Fetch, FetchFails, MergeLocalSkills, RemoveTarget, RemoveFails, CopyFile, ListRepos, ghosts
<1>4. ASSUME NEW m, IsCall(m), m.at # "saving", Becomes(c, m)
      PROVE  StoreInv'
  BY <1>3, <1>4, OneOutside
<1>5. CASE LoadStore(c)
  <2>1. PICK todo, step : /\ Becomes(c, [k EXCEPT !.todo = todo, !.at = step])
                          /\ step \in {"done", "fetch"}
    <3> DEFINE asked == {i \in 1..Len(store.repos) :
                           k.op = "install" => store.repos[i].name = k.entry}
    <3>1. /\ Becomes(c, [k EXCEPT !.todo = [i \in asked |-> store.repos[i]],
                                  !.at = IF asked = {} THEN "done" ELSE "fetch"])
          /\ (IF asked = {} THEN "done" ELSE "fetch") \in {"done", "fetch"}
      BY <1>5 DEF LoadStore
    <3> QED BY <3>1
  <2> DEFINE m == [k EXCEPT !.todo = todo, !.at = step]
  <2>2. IsCall(m) /\ m.at # "saving"
    BY <1>1, <1>2, <2>1 DEF IsCall
  <2> QED BY <2>1, <2>2, <1>4
<1>6. CASE Fetch(c)
  <2>1. PICK seen, s : \/ Becomes(c, NextRepo([k EXCEPT !.seen = seen]))
                       \/ Becomes(c, NextRepo(k))
                       \/ Becomes(c, [k EXCEPT !.src = s, !.at = "remove"])
    BY <1>6 DEF Fetch
  <2>2. IsCall([k EXCEPT !.seen = seen])
    BY <1>1 DEF IsCall
  <2>3. IsCall([k EXCEPT !.src = s, !.at = "remove"]) /\ [k EXCEPT !.src = s, !.at = "remove"].at # "saving"
    BY <1>1, <1>2 DEF IsCall
  <2>4. /\ IsCall(NextRepo([k EXCEPT !.seen = seen])) /\ NextRepo([k EXCEPT !.seen = seen]).at # "saving"
        /\ IsCall(NextRepo(k)) /\ NextRepo(k).at # "saving"
    BY <1>1, <2>2, NextRepoEffect
  <2> QED BY <2>1, <2>3, <2>4, <1>4
<1>7. CASE FetchFails(c)
  <2>1. Becomes(c, NextRepo(k))
    BY <1>7 DEF FetchFails
  <2> QED BY <2>1, <1>1, <1>4, NextRepoEffect
<1>8. CASE MergeLocalSkills(c)
  <2>1. PICK seen : Becomes(c, [k EXCEPT !.seen = seen, !.at = "done", !.ok = TRUE])
    BY <1>8 DEF MergeLocalSkills
  <2> DEFINE m == [k EXCEPT !.seen = seen, !.at = "done", !.ok = TRUE]
  <2>2. IsCall(m) /\ m.at # "saving"
    BY <1>1, <1>2 DEF IsCall
  <2> QED BY <2>1, <2>2, <1>4
<1>9. CASE RemoveTarget(c)
  <2>1. PICK step \in {"copy", "record"} : Goes(c, step)
    BY <1>9 DEF RemoveTarget
  <2> QED BY <2>1, <1>4, GoesEffect DEF Goes
<1>10. CASE RemoveFails(c)
  <2>1. Becomes(c, NextRepo(k)) \/ Ends(c, FALSE)
    BY <1>10 DEF RemoveFails
  <2>2. CASE Becomes(c, NextRepo(k))
    BY <2>2, <1>1, <1>4, NextRepoEffect
  <2>3. CASE Ends(c, FALSE)
    BY <2>3, <1>4, EndsEffect DEF Ends
  <2> QED BY <2>1, <2>2, <2>3
<1>11. CASE CopyFile(c)
  <2>1. PICK n : \/ Becomes(c, [k EXCEPT !.copied = k.copied + 1, !.at = IF k.copied + 1 = n THEN "record" ELSE k.at])
                 \/ Becomes(c, NextRepo(k))
    BY <1>11 DEF CopyFile
  <2> DEFINE m == [k EXCEPT !.copied = k.copied + 1, !.at = IF k.copied + 1 = n THEN "record" ELSE k.at]
  <2>2. k.at = "copy"
    BY <1>11 DEF CopyFile, At
  <2>3. IsCall(m) /\ m.at # "saving"
    BY <1>1, <1>2, <2>2 DEF IsCall
  <2>4. CASE Becomes(c, m)
    BY <2>4, <2>3, <1>4
  <2>5. CASE Becomes(c, NextRepo(k))
    BY <2>5, <1>1, <1>4, NextRepoEffect
  <2> QED BY <2>1, <2>4, <2>5
<1>12. CASE ListRepos(c)
  <2> DEFINE m == [k EXCEPT !.next = store, !.at = "done", !.ok = TRUE]
  <2>1. Becomes(c, m)
    BY <1>12 DEF ListRepos
  <2>2. IsCall(m) /\ m.at # "saving"
    BY <1>1, <1>2 DEF IsCall
  <2> QED BY <2>1, <2>2, <1>4
<1> QED
  BY <1>5, <1>6, <1>7, <1>8, <1>9, <1>10, <1>11, <1>12

\* The steps at which the mutex is taken and given back.
LEMMA ServiceInside ==
  ASSUME StoreInv, NEW c \in Slots, OpenStore(c) \/ RenameStore(c) \/ SaveFails(c)
  PROVE  StoreInv'
<1> DEFINE k == call[c]
<1>1. IsCall(k)
  BY DEF StoreInv
<1>2. {"at", "next", "op", "dir", "entry", "seen", "todo", "src", "copied", "ok", "alone"} = Fields
  BY DEF Fields, Idle, Call
<1>3. CASE OpenStore(c)
  <2> DEFINE m == [k EXCEPT !.next = Edited(store, k), !.at = "saving"]
  <2>1. Becomes(c, m) /\ lock = Free /\ lock' = c /\ UNCHANGED <<store, expected>>
    BY <1>3 DEF OpenStore, ghosts
  <2>2. /\ IsCall(m) /\ m.next = Edited(store, k)
        /\ m.op = k.op /\ m.dir = k.dir /\ m.entry = k.entry
    BY <1>1, <1>2 DEF IsCall
  <2>3. m.next = Edited(store, m)
    BY <2>2 DEF Edited
  <2>4. \A b \in Slots : call[b].at # "saving"
    BY <2>1 DEF StoreInv, Slots, Free
  <2> HIDE DEF m
  <2>5. /\ DOMAIN call' = Slots /\ \A b \in Slots : IsCall(call'[b])
        /\ call'[c] = m /\ \A b \in Slots \ {c} : call'[b] = call[b]
    BY <2>1, <2>2, BecomesEffect
  <2> QED
    BY <2>1, <2>3, <2>4, <2>5 DEF StoreInv
<1>4. CASE RenameStore(c)
  <2>1. /\ Ends(c, TRUE) /\ k.at = "saving" /\ lock' = Free
        /\ store' = k.next /\ expected' = Edited(expected, k)
    BY <1>4 DEF RenameStore, At
  <2>2. store' = expected'
    BY <2>1 DEF StoreInv
  <2>3. \A b \in Slots \ {c} : call[b].at # "saving"
    BY <2>1 DEF StoreInv
  <2> DEFINE m == [k EXCEPT !.at = "done", !.ok = TRUE]
  <2>4. IsCall(m) /\ m.at = "done"
    BY EndsEffect
  <2>5. Becomes(c, m)
    BY <2>1 DEF Ends
  <2> HIDE DEF m
  <2>6. /\ DOMAIN call' = Slots /\ \A b \in Slots : IsCall(call'[b])
        /\ call'[c] = m /\ \A b \in Slots \ {c} : call'[b] = call[b]
    BY <2>4, <2>5, BecomesEffect
  <2> QED
    BY <2>2, <2>3, <2>4, <2>6 DEF StoreInv
<1>5. CASE SaveFails(c)
  <2>1. k.at = "saving" /\ UNCHANGED <<store, expected>>
    BY <1>5 DEF SaveFails, At, ghosts
  <2>2. \A b \in Slots \ {c} : call[b].at # "saving"
    BY <2>1 DEF StoreInv
  <2>3. PICK m : IsCall(m) /\ m.at # "saving" /\ Becomes(c, m)
    BY <1>1, <1>5, NextRepoEffect, EndsEffect DEF SaveFails, Ends
  <2>4. /\ DOMAIN call' = Slots /\ \A b \in Slots : IsCall(call'[b])
        /\ call'[c] = m /\ \A b \in Slots \ {c} : call'[b] = call[b]
    BY <2>3, BecomesEffect
  <2> QED
    BY <2>1, <2>2, <2>3, <2>4 DEF StoreInv
<1> QED
  BY <1>3, <1>4, <1>5

\* The page begins calls and takes their answers; it touches neither store nor mutex.
LEMMA PageSteps ==
  ASSUME StoreInv, NEW c \in Slots, Page(c)
  PROVE  StoreInv'
<1>1. ASSUME NEW k, Press(c, k), IsCall(k), k.at = "start"
      PROVE  StoreInv'
  <2>1. Start(c, k) /\ UNCHANGED <<store, lock, expected>>
    BY <1>1 DEF Press, Begin
  <2> QED BY <1>1, <2>1, StartEffect
<1>2. ASSUME NEW op, NEW e, EditRepos(c, op, e)
      PROVE  StoreInv'
  <2>1. Start(c, Call(op, None, e)) /\ UNCHANGED <<store, lock, expected>>
    BY <1>2 DEF EditRepos, Begin, ghosts
  <2> QED BY <2>1, CallFields, StartEffect
<1>3. ASSUME NEW r \in Slots, Refresh(c, r)
      PROVE  StoreInv'
  <2> DEFINE k == Call("list", None, None)
             repos == Call("repos", None, None)
             marked(b) == [call[b] EXCEPT !.alone = @ /\ ~Disturbs(call[b], k)]
             entered == [k EXCEPT !.alone = \A b \in Slots : ~Disturbs(call[b], k)]
  <2>1. /\ DOMAIN call' = Slots /\ UNCHANGED <<store, lock, expected>>
        /\ call'[c] = entered /\ call'[r] = repos
        /\ \A b \in Slots \ {c, r} : call'[b] = marked(b)
    BY <1>3 DEF Refresh, Started, Alone, ghosts
  <2>2. {"at", "next", "op", "dir", "entry", "alone"} \subseteq Fields
    BY DEF Fields, Idle, Call
  <2>3. IsCall(k) /\ k.at = "start" /\ IsCall(repos) /\ repos.at = "start"
    BY CallFields
  <2> HIDE DEF k, repos
  <2>4. IsCall(entered) /\ entered.at = "start"
    BY <2>2, <2>3 DEF IsCall
  <2>5. \A b \in Slots : IsCall(marked(b)) /\ SameSave(call[b], marked(b))
    BY <2>2 DEF StoreInv, IsCall, SameSave
  <2> HIDE DEF marked, entered
  <2>6. \A b \in Slots : IsCall(call'[b]) /\ (call'[b].at = "saving" => SameSave(call[b], call'[b]))
    BY <2>1, <2>3, <2>4, <2>5
  <2> QED
    BY <2>1, <2>6, Outside
<1>4. IsCall(Idle) /\ Idle.at # "saving"
  BY CallFields DEF Idle
<1>5. ASSUME Over(c), UNCHANGED <<store, lock, expected>>
      PROVE  StoreInv'
  BY <1>4, <1>5, OneOutside DEF Over
<1>6. CASE \E r \in Slots : Refresh(c, r)
  BY <1>3, <1>6
<1>7. CASE HandleInstall(c)
  BY <1>1, <1>7, CallFields DEF HandleInstall
<1>8. CASE HandleUninstall(c)
  BY <1>1, <1>8, CallFields DEF HandleUninstall
<1>9. CASE SubmitRepo(c) \/ RemoveRepo(c)
  BY <1>2, <1>9 DEF SubmitRepo, RemoveRepo
<1>10. CASE EndChange(c) \/ EndList(c) \/ EndRepos(c)
  BY <1>5, <1>10 DEF EndChange, EndList, EndRepos, ghosts
<1>11. CASE EndRepoEdit(c)
  <2>1. UNCHANGED <<store, lock, expected>> /\ (Over(c) \/ Start(c, Call("list", None, "repoBusy")))
    BY <1>11 DEF EndRepoEdit, ghosts
  <2> QED
    BY <2>1, <1>5, CallFields, StartEffect
<1> QED
  BY <1>6, <1>7, <1>8, <1>9, <1>10, <1>11 DEF Page

\* After a restart no call runs, and what it had not renamed has not happened.
LEMMA RestartStep ==
  ASSUME StoreInv, Restart
  PROVE  StoreInv'
<1>1. IsCall(Idle) /\ Idle.at # "saving"
  BY CallFields DEF Idle
<1>2. UNCHANGED <<store, expected>> /\ call' = [c \in Slots |-> Idle]
  BY DEF Restart
<1> QED
  BY <1>1, <1>2 DEF StoreInv

LEMMA StoreStep ==
  ASSUME StoreInv, [Next]_vars
  PROVE  StoreInv'
<1>1. CASE Restart
  BY <1>1, RestartStep
<1>2. CASE \E c \in Slots : Service(c)
  BY <1>2, ServiceOutside, ServiceInside DEF Service
<1>3. CASE \E c \in Slots : Page(c)
  BY <1>3, PageSteps
<1>4. CASE UNCHANGED vars
  BY <1>4 DEF vars, ghosts, StoreInv
<1> QED
  BY <1>1, <1>2, <1>3, <1>4 DEF Next

\* skill.json holds the outcome of every change in the order they were renamed into
\* place, for any number of calls, repositories and failures: the mutex of
\* updateStore is enough, although files are copied and lists are read without it.
THEOREM NothingLostHolds == Spec => []NothingLost
<1>1. Init => StoreInv
  <2>1. IsCall(Idle) /\ Idle.at # "saving"
    BY CallFields DEF Idle
  <2> QED BY <2>1 DEF Init, StoreInv
<1>2. StoreInv /\ [Next]_vars => StoreInv'
  BY StoreStep
<1>3. StoreInv => NothingLost
  BY DEF StoreInv, NothingLost
<1> QED
  BY <1>1, <1>2, <1>3, PTL DEF Spec

-----------------------------------------------------------------------------
(* The calls and the page.                                                 *)

Ops == {None, "list", "repos"} \cup Changes \cup RepoEdits

\* What holds of a call, whatever others do: the repositories it may still try,
\* and the snapshot it has, are those it was asked for.
Kept(k) ==
  /\ k.op \in Ops
  /\ k.op \in Changes => k.dir \in Dirs
  /\ DOMAIN k.seen \subseteq Dirs
  /\ k.at # "done" => k.ok = FALSE
  /\ k.at \in {"start", "fetch", "remove"} => k.copied = 0
  /\ DOMAIN k.todo \subseteq Nat
  /\ k.at = "fetch" => DOMAIN k.todo # {}
  /\ k.op = "install" =>
       /\ \A i \in DOMAIN k.todo : k.todo[i].name = k.entry
       /\ k.at \in {"remove", "copy", "record", "saving"} \/ k.ok =>
            k.src \in Snapshots /\ k.src[1] = k.entry /\ k.dir \in DOMAIN Archive[k.src]
       /\ k.at = "copy" => k.copied \in Nat /\ k.copied < Len(Archive[k.src][k.dir])

\* A change that has done its work on the directory.
Whole(k) == k.at \in {"record", "saving"} \/ k.ok

\* The files copied so far.
Part(k) == {Archive[k.src][k.dir][j] : j \in 1..k.copied}

\* What holds of a call that nothing disturbed, with the directories dk, the recorded
\* skills sk and the page sh: the directory is as far as its step says, and a list is right.
Works(k, dk, sk, sh) ==
  /\ k.op = "install" /\ k.at = "copy" =>
       DOMAIN dk[k.dir] = Part(k) /\ \A f \in Part(k) : dk[k.dir][f] = k.src
  /\ k.op = "install" /\ Whole(k) => dk[k.dir] = Copy(k.src, k.dir)
  /\ k.op = "uninstall" /\ Whole(k) => dk[k.dir] = Absent
  /\ k.op \in Changes /\ k.ok => (k.dir \in sk <=> k.op = "install")
  /\ k.op \in Changes => k.dir \in DOMAIN sh /\ sh[k.dir].repo = k.entry
  /\ k.op = "list" =>
       /\ \A d \in DOMAIN k.seen : k.seen[d].on <=> dk[d] # Absent
       /\ k.ok => \A d \in Dirs : dk[d] # Absent => d \in DOMAIN k.seen

\* Calls that disturb each other are marked; of the directory of a change that runs
\* nothing is claimed.
CallsInv ==
  /\ \A c \in Slots : Kept(call[c])
  /\ \A c, b \in Slots : c # b /\ Disturbs(call[c], call[b]) => ~call[c].alone
  /\ \A c \in Slots : call[c].op \in Changes => owned[call[c].dir] = "unknown" /\ call[c].dir \notin sure
  /\ \A c \in Slots : call[c].alone => Works(call[c], disk, store.skills, shown)

Shapes ==
  /\ DOMAIN disk = Dirs /\ DOMAIN owned = Dirs /\ "skills" \in DOMAIN store
  /\ DOMAIN shown \subseteq Dirs /\ sure \subseteq Dirs

SkillsInv == StoreInv /\ Shapes /\ CallsInv /\ InstalledWhole /\ PageTellsDisk

\* The directory that a call works on.
Touched(k) == IF k.op \in Changes THEN {k.dir} ELSE {}

SameCall(k, m) == m.op = k.op /\ m.dir = k.dir /\ m.entry = k.entry /\ m.alone = k.alone

-----------------------------------------------------------------------------
(* The helpers.                                                            *)

LEMMA FieldNames ==
  Fields = {"op", "dir", "entry", "at", "todo", "src", "copied", "seen", "next", "ok", "alone"}
BY DEF Fields, Idle, Call

LEMMA FirstElement ==
  ASSUME NEW S \in SUBSET Nat, S # {}
  PROVE  First(S) \in S
<1> DEFINE R == {ss \in Nat \X Nat : ss[1] < ss[2]}
<1>1. IsWellFoundedOn(R, Nat)
  BY NatLessThanWellFounded DEF OpToRel
<1>2. PICK x \in S : \A y \in S : ~(<<y, x>> \in R)
  <2> HIDE DEF R
  <2> QED BY <1>1, WFMin
<1>3. ASSUME NEW y \in S PROVE x <= y
  <2>1. x \in Nat /\ y \in Nat /\ ~(<<y, x>> \in R)
    BY <1>2
  <2>2. ~(y < x)
    BY <2>1
  <2> QED BY <2>1, <2>2
<1> QED
  BY <1>2, <1>3 DEF First

\* What an edit makes of the record of skills.
LEMMA EditedSkills ==
  ASSUME NEW s, "skills" \in DOMAIN s, NEW k, k.op \in Changes \cup RepoEdits
  PROVE  /\ "skills" \in DOMAIN Edited(s, k)
         /\ k.op = "install" => Edited(s, k).skills = s.skills \cup {k.dir}
         /\ k.op = "uninstall" => Edited(s, k).skills = s.skills \ {k.dir}
         /\ k.op \in RepoEdits => Edited(s, k).skills = s.skills
BY DEF Edited, Changes, RepoEdits

\* Calls disturb each other mutually, and by what they are only.
LEMMA Mutual ==
  ASSUME NEW k, NEW m
  PROVE  Disturbs(k, m) <=> Disturbs(m, k)
<1>1. {k.op, m.op} = {m.op, k.op}
  OBVIOUS
<1> QED BY <1>1 DEF Disturbs

LEMMA DisturbsSame ==
  ASSUME NEW k, NEW m, NEW n, m.op = k.op, m.dir = k.dir
  PROVE  Disturbs(m, n) <=> Disturbs(k, n)
BY DEF Disturbs

LEMMA WhoDisturbs ==
  ASSUME NEW k, NEW m
  PROVE  /\ k.op \in Changes /\ m.op \in Changes /\ k.dir = m.dir => Disturbs(k, m)
         /\ k.op = "list" /\ m.op \in Changes => Disturbs(k, m)
         /\ k.op \in Changes /\ m.op = "list" => Disturbs(k, m)
         /\ k.op \notin Changes \cup {"list"} => ~Disturbs(k, m)
<1>1. k.op = "list" /\ m.op \in Changes => {k.op, m.op} \in {{"list", x} : x \in Changes}
  OBVIOUS
<1>2. k.op \in Changes /\ m.op = "list" => {k.op, m.op} = {"list", k.op}
  OBVIOUS
<1>3. ASSUME k.op \notin Changes \cup {"list"}, NEW x \in Changes PROVE {k.op, m.op} # {"list", x}
  BY <1>3
<1> QED BY <1>1, <1>2, <1>3 DEF Disturbs

\* The next repository: the call is what it was, at another step.
LEMMA NextRepoKept ==
  ASSUME NEW k, IsCall(k), Kept(k), k.at # "done", k.op \in {"install", "list"}
  PROVE  /\ Kept(NextRepo(k)) /\ SameCall(k, NextRepo(k))
         /\ NextRepo(k).seen = k.seen /\ NextRepo(k).ok = FALSE
         /\ NextRepo(k).at \in {"fetch", "merge", "done"}
<1> DEFINE left == DOMAIN k.todo \ {First(DOMAIN k.todo)}
           step == IF left # {} THEN "fetch" ELSE IF k.op = "list" THEN "merge" ELSE "done"
           n == NextRepo(k)
<1>1. /\ n.op = k.op /\ n.dir = k.dir /\ n.entry = k.entry /\ n.alone = k.alone
      /\ n.seen = k.seen /\ n.ok = k.ok /\ n.copied = 0 /\ n.at = step
      /\ n.todo = [i \in left |-> k.todo[i]]
  BY FieldNames DEF NextRepo, IsCall
<1>2. k.ok = FALSE
  BY DEF Kept
<1>3. /\ step \in {"fetch", "merge", "done"} /\ (step = "fetch" => left # {})
      /\ left \subseteq DOMAIN k.todo
  OBVIOUS
<1> HIDE DEF left, step, n
<1>4. /\ DOMAIN n.todo = left /\ \A i \in DOMAIN n.todo : n.todo[i] = k.todo[i] /\ i \in DOMAIN k.todo
  BY <1>1, <1>3
<1>5. Kept(n)
  BY <1>1, <1>2, <1>3, <1>4 DEF Kept
<1> QED BY <1>1, <1>2, <1>3, <1>5 DEF SameCall, n

\* Until its work is done a change claims its place on the page only.
LEMMA WorksEarly ==
  ASSUME NEW k, NEW m, SameCall(k, m), m.ok = FALSE, m.at \notin {"copy", "record", "saving"}, m.seen = k.seen,
         NEW dk, NEW ek, NEW sk, NEW tk, NEW sh, Works(k, dk, sk, sh),
         k.op = "list" => \A d \in DOMAIN k.seen : ek[d] = dk[d]
  PROVE  Works(m, ek, tk, sh)
<1>1. m.op = k.op /\ m.dir = k.dir /\ m.entry = k.entry
  BY DEF SameCall
<1>2. ~Whole(m)
  BY DEF Whole
<1> QED BY <1>1, <1>2 DEF Works, Changes

-----------------------------------------------------------------------------
(* A step of one call.                                                     *)

\* A call goes on; only its directory, and its record, may change.
LEMMA CallStep ==
  ASSUME SkillsInv, StoreInv', NEW c \in Slots, NEW m, IsCall(m), Becomes(c, m), SameCall(call[c], m),
         UNCHANGED <<shown, sure, owned>>,
         DOMAIN disk' = Dirs, "skills" \in DOMAIN store',
         \A d \in Dirs \ Touched(call[c]) : disk'[d] = disk[d] /\ (d \in store'.skills <=> d \in store.skills),
         Kept(m), call[c].alone => Works(m, disk', store'.skills, shown)
  PROVE  SkillsInv'
<1>1. /\ call'[c] = m /\ \A b \in Slots \ {c} : call'[b] = call[b]
  BY BecomesEffect DEF SkillsInv
<1>2. Shapes'
  BY DEF SkillsInv, Shapes
<1>3. \A b \in Slots : Kept(call'[b])
  BY <1>1 DEF SkillsInv, CallsInv
<1>4. \A b \in Slots : SameCall(call[b], call'[b])
  BY <1>1 DEF SameCall
<1>5. ASSUME NEW a \in Slots, NEW b \in Slots, a # b, Disturbs(call'[a], call'[b])
      PROVE  ~call'[a].alone
  <2>1. Disturbs(call[a], call[b])
    BY <1>4, <1>5, Mutual, DisturbsSame DEF SameCall
  <2> QED BY <1>4, <1>5, <2>1 DEF SkillsInv, CallsInv, SameCall
<1>6. ASSUME NEW b \in Slots, call'[b].op \in Changes
      PROVE  owned'[call'[b].dir] = "unknown" /\ call'[b].dir \notin sure'
  <2>1. call[b].op \in Changes /\ call'[b].dir = call[b].dir
    BY <1>4, <1>6 DEF SameCall
  <2> QED BY <2>1 DEF SkillsInv, CallsInv
<1>7. ASSUME NEW b \in Slots, call'[b].alone
      PROVE  Works(call'[b], disk', store'.skills, shown')
  <2>1. CASE b = c
    BY <1>1, <1>7, <2>1 DEF SameCall
  <2>2. CASE b # c
    <3> DEFINE k == call[b]
    <3>1. call'[b] = k /\ k.alone /\ ~Disturbs(k, call[c]) /\ Kept(k)
          /\ Works(k, disk, store.skills, shown)
      BY <1>1, <1>7, <2>2 DEF SkillsInv, CallsInv
    <3> HIDE DEF k
    <3>2. CASE k.op \in Changes
      <4>1. k.dir \in Dirs \ Touched(call[c])
        BY <3>1, <3>2, WhoDisturbs DEF Kept, Touched
      <4>2. disk'[k.dir] = disk[k.dir] /\ (k.dir \in store'.skills <=> k.dir \in store.skills)
        BY <4>1
      <4>3. k.op # "list"
        BY <3>2 DEF Changes
      <4>4. Works(k, disk', store'.skills, shown)
        BY <3>1, <4>2, <4>3 DEF Works
      <4> QED BY <3>1, <4>4
    <3>3. CASE k.op = "list"
      <4>1. Touched(call[c]) = {}
        BY <3>1, <3>3, WhoDisturbs DEF Touched
      <4>2. \A d \in Dirs : disk'[d] = disk[d]
        BY <4>1
      <4>3. DOMAIN k.seen \subseteq Dirs
        BY <3>1 DEF Kept
      <4>4. Works(k, disk', store'.skills, shown)
        BY <3>1, <3>3, <4>2, <4>3 DEF Works, Changes
      <4> QED BY <3>1, <4>4
    <3>4. CASE k.op \notin Changes \cup {"list"}
      <4>1. Works(k, disk', store'.skills, shown)
        BY <3>4 DEF Works, Changes
      <4> QED BY <3>1, <4>1
    <3> QED BY <3>2, <3>3, <3>4
  <2> QED BY <2>1, <2>2
<1>8. \A d \in Touched(call[c]) : owned[d] = "unknown" /\ d \notin sure
  BY DEF SkillsInv, CallsInv, Touched
<1>9. InstalledWhole'
  <2> SUFFICES ASSUME NEW d \in Dirs
               PROVE  /\ owned[d] = "gone" => disk'[d] = Absent /\ d \notin store'.skills
                      /\ owned[d] \in Names =>
                           /\ \E s \in Snapshots : s[1] = owned[d] /\ d \in DOMAIN Archive[s] /\ disk'[d] = Copy(s, d)
                           /\ d \in store'.skills
    BY DEF InstalledWhole
  <2>1. CASE d \in Touched(call[c])
    BY <1>8, <2>1, NamesAssumption
  <2>2. CASE d \notin Touched(call[c])
    <3>1. disk'[d] = disk[d] /\ (d \in store'.skills <=> d \in store.skills)
      BY <2>2
    <3> QED BY <3>1 DEF SkillsInv, InstalledWhole
  <2> QED BY <2>1, <2>2
<1>10. PageTellsDisk'
  <2> SUFFICES ASSUME NEW d \in sure PROVE disk'[d] # Absent <=> d \in DOMAIN shown /\ shown[d].on
    BY DEF PageTellsDisk
  <2>1. d \in Dirs \ Touched(call[c])
    BY <1>8 DEF SkillsInv, Shapes
  <2>2. disk'[d] = disk[d]
    BY <2>1
  <2> QED BY <2>2 DEF SkillsInv, PageTellsDisk
<1>11. CallsInv'
  BY <1>3, <1>5, <1>6, <1>7 DEF CallsInv
<1> QED BY <1>2, <1>9, <1>10, <1>11 DEF SkillsInv

\* The steps that touch nothing but the call.
LEMMA QuietStep ==
  ASSUME SkillsInv, StoreInv', NEW c \in Slots, NEW m, IsCall(m), Becomes(c, m), SameCall(call[c], m),
         UNCHANGED <<store, disk, shown, sure, owned>>,
         Kept(m), call[c].alone => Works(m, disk, store.skills, shown)
  PROVE  SkillsInv'
<1>1. DOMAIN disk' = Dirs /\ "skills" \in DOMAIN store'
  BY DEF SkillsInv, Shapes
<1>2. \A d \in Dirs \ Touched(call[c]) : disk'[d] = disk[d] /\ (d \in store'.skills <=> d \in store.skills)
  OBVIOUS
<1>3. call[c].alone => Works(m, disk', store'.skills, shown)
  OBVIOUS
<1> QED BY <1>1, <1>2, <1>3, CallStep

LEMMA OfCall ==
  ASSUME SkillsInv, NEW c \in Slots
  PROVE  /\ IsCall(call[c]) /\ Kept(call[c])
         /\ call[c].alone => Works(call[c], disk, store.skills, shown)
BY DEF SkillsInv, StoreInv, CallsInv

\* An installation or a list goes on to the next repository.
LEMMA NextStep ==
  ASSUME SkillsInv, StoreInv', NEW c \in Slots, call[c].op \in {"install", "list"}, call[c].at # "done",
         Becomes(c, NextRepo(call[c])), UNCHANGED <<store, shown, sure, owned>>,
         DOMAIN disk' = Dirs, \A d \in Dirs \ Touched(call[c]) : disk'[d] = disk[d]
  PROVE  SkillsInv'
<1> DEFINE k == call[c]
           m == NextRepo(k)
<1>1. IsCall(k) /\ Kept(k) /\ (k.alone => Works(k, disk, store.skills, shown))
  BY OfCall
<1>2. IsCall(m) /\ Kept(m) /\ SameCall(k, m) /\ m.seen = k.seen /\ m.ok = FALSE
      /\ m.at \in {"fetch", "merge", "done"}
  BY <1>1, NextRepoEffect, NextRepoKept
<1>3. k.op = "list" => \A d \in DOMAIN k.seen : disk'[d] = disk[d]
  <2> SUFFICES ASSUME k.op = "list" PROVE \A d \in DOMAIN k.seen : disk'[d] = disk[d]
    OBVIOUS
  <2>1. Touched(k) = {}
    BY DEF Touched, Changes
  <2> QED BY <1>1, <2>1 DEF Kept
<1>4. k.alone => Works(m, disk', store'.skills, shown)
  BY <1>1, <1>2, <1>3, WorksEarly
<1>5. Becomes(c, m)
  OBVIOUS
<1>6. "skills" \in DOMAIN store'
  BY DEF SkillsInv, Shapes
<1>7. \A d \in Dirs \ Touched(k) : disk'[d] = disk[d] /\ (d \in store'.skills <=> d \in store.skills)
  OBVIOUS
<1> HIDE DEF m
<1> QED BY <1>2, <1>4, <1>5, <1>6, <1>7, CallStep

-----------------------------------------------------------------------------
(* The steps of the service.                                               *)

LEMMA LoadStep ==
  ASSUME SkillsInv, StoreInv', NEW c \in Slots, LoadStore(c)
  PROVE  SkillsInv'
<1> DEFINE k == call[c]
           asked == {i \in 1..Len(store.repos) : k.op = "install" => store.repos[i].name = k.entry}
           step == IF asked = {} THEN "done" ELSE "fetch"
           m == [k EXCEPT !.todo = [i \in asked |-> store.repos[i]], !.at = step]
<1>1. Becomes(c, m) /\ UNCHANGED <<store, disk, shown, sure, owned>> /\ k.at = "start"
      /\ k.op \in {"install", "list"}
  BY DEF LoadStore, At, page, ghosts
<1>2. IsCall(k) /\ Kept(k) /\ (k.alone => Works(k, disk, store.skills, shown))
  BY OfCall
<1>3. /\ IsCall(m) /\ m.at = step /\ m.todo = [i \in asked |-> store.repos[i]]
      /\ m.op = k.op /\ m.dir = k.dir /\ m.entry = k.entry /\ m.alone = k.alone
      /\ m.seen = k.seen /\ m.ok = k.ok /\ m.copied = k.copied /\ m.src = k.src
  BY <1>2, FieldNames DEF IsCall
<1>4. /\ step \in {"done", "fetch"} /\ (step = "fetch" => asked # {}) /\ asked \subseteq Nat
      /\ k.op = "install" => \A i \in asked : store.repos[i].name = k.entry
  OBVIOUS
<1> HIDE DEF asked, step, m
<1>5. k.ok = FALSE /\ k.copied = 0
  BY <1>1, <1>2 DEF Kept
<1>6. DOMAIN m.todo = asked /\ \A i \in asked : m.todo[i] = store.repos[i]
  BY <1>3
<1>7. Kept(m)
  BY <1>1, <1>2, <1>3, <1>4, <1>5, <1>6 DEF Kept
<1>8. SameCall(k, m) /\ m.ok = FALSE /\ m.at \notin {"copy", "record", "saving"}
  BY <1>3, <1>4, <1>5 DEF SameCall
<1>9. k.alone => Works(m, disk, store.skills, shown)
  BY <1>2, <1>3, <1>8, WorksEarly
<1> QED BY <1>1, <1>3, <1>7, <1>8, <1>9, QuietStep

\* A list takes the cards of a repository from the disk; an installation takes the snapshot.
LEMMA FetchStep ==
  ASSUME SkillsInv, StoreInv', NEW c \in Slots, Fetch(c)
  PROVE  SkillsInv'
<1> DEFINE k == call[c]
           all == Candidates(Current(k))
<1>1. /\ k.at = "fetch" /\ k.op \in {"install", "list"}
      /\ UNCHANGED <<store, disk, shown, sure, owned>>
  BY DEF Fetch, At, page, ghosts
<1>2. IsCall(k) /\ Kept(k) /\ (k.alone => Works(k, disk, store.skills, shown))
  BY OfCall
<1>3. PICK i \in DOMAIN all :
        /\ all[i] \in Snapshots
        /\ IF k.op = "list"
           THEN Becomes(c, NextRepo([k EXCEPT !.seen =
                  Merged(@, [d \in DOMAIN Archive[all[i]] |-> Card(all[i][1], disk[d] # Absent)])]))
           ELSE IF k.dir \notin DOMAIN Archive[all[i]] THEN Becomes(c, NextRepo(k))
           ELSE Becomes(c, [k EXCEPT !.src = all[i], !.at = "remove"])
  BY DEF Fetch
<1> DEFINE s == all[i]
<1>4. s \in Snapshots /\ (k.op = "install" => s[1] = k.entry)
  <2>1. s[1] = Current(k).name
    BY DEF Candidates
  <2>2. First(DOMAIN k.todo) \in DOMAIN k.todo
    BY <1>1, <1>2, FirstElement DEF Kept
  <2>3. k.op = "install" => Current(k).name = k.entry
    BY <1>2, <2>2 DEF Kept, Current
  <2> HIDE DEF s, all
  <2> QED BY <1>3, <2>1, <2>3 DEF s
<1>5. CASE k.op = "list"
  <2> DEFINE found == [d \in DOMAIN Archive[s] |-> Card(s[1], disk[d] # Absent)]
             seen == Merged(k.seen, found)
             q == [k EXCEPT !.seen = seen]
             m == NextRepo(q)
  <2>1. Becomes(c, m)
    BY <1>3, <1>5
  <2>2. /\ DOMAIN found \subseteq Dirs /\ \A d \in DOMAIN found : found[d].on <=> disk[d] # Absent
    BY <1>4, RepoAssumption DEF Card
  <2>3. DOMAIN k.seen \subseteq Dirs
    BY <1>2 DEF Kept
  <2>4. /\ DOMAIN seen \subseteq Dirs
        /\ \A d \in DOMAIN seen : seen[d] = IF d \in DOMAIN k.seen THEN k.seen[d] ELSE found[d]
    <3>1. seen = Merged(k.seen, found)
      OBVIOUS
    <3> HIDE DEF found, seen
    <3>2. /\ DOMAIN seen = DOMAIN k.seen \cup DOMAIN found
          /\ \A d \in DOMAIN seen : seen[d] = IF d \in DOMAIN k.seen THEN k.seen[d] ELSE found[d]
      BY <3>1 DEF Merged
    <3> QED BY <2>2, <2>3, <3>2
  <2>5. /\ IsCall(q) /\ q.seen = seen /\ q.at = k.at /\ q.op = k.op /\ q.dir = k.dir
        /\ q.entry = k.entry /\ q.alone = k.alone /\ q.ok = k.ok /\ q.copied = k.copied
        /\ q.todo = k.todo /\ q.src = k.src
    BY <1>2, FieldNames DEF IsCall
  <2> HIDE DEF q, found, seen
  <2>6. Kept(q)
    BY <1>1, <1>2, <1>5, <2>4, <2>5 DEF Kept
  <2>7. /\ Kept(m) /\ IsCall(m) /\ SameCall(q, m) /\ m.seen = seen /\ m.ok = FALSE
    BY <1>1, <2>5, <2>6, NextRepoEffect, NextRepoKept
  <2> HIDE DEF m
  <2>8. \A d \in DOMAIN seen : d \in DOMAIN k.seen \/ d \in DOMAIN found
    BY DEF seen, Merged
  <2>9. k.alone => \A d \in DOMAIN seen : seen[d].on <=> disk[d] # Absent
    BY <1>2, <1>5, <2>2, <2>4, <2>8 DEF Works
  <2>10. k.alone => Works(m, disk, store.skills, shown)
    BY <1>5, <2>5, <2>7, <2>9 DEF Works, SameCall, Changes
  <2>11. SameCall(k, m)
    BY <2>5, <2>7 DEF SameCall
  <2> QED BY <1>1, <2>1, <2>7, <2>10, <2>11, QuietStep
<1>6. CASE k.op # "list" /\ k.dir \notin DOMAIN Archive[s]
  <2>1. Becomes(c, NextRepo(k))
    BY <1>3, <1>6
  <2>2. DOMAIN disk' = Dirs
    BY <1>1 DEF SkillsInv, Shapes
  <2> QED BY <1>1, <2>1, <2>2, NextStep
<1>7. CASE k.op # "list" /\ k.dir \in DOMAIN Archive[s]
  <2> HIDE DEF s
  <2> DEFINE m == [k EXCEPT !.src = s, !.at = "remove"]
  <2>1. Becomes(c, m)
    BY <1>3, <1>7 DEF s
  <2>2. /\ IsCall(m) /\ m.seen = k.seen /\ m.at = "remove" /\ m.op = k.op /\ m.dir = k.dir
        /\ m.entry = k.entry /\ m.alone = k.alone /\ m.ok = k.ok /\ m.copied = k.copied
        /\ m.todo = k.todo /\ m.src = s
    BY <1>2, FieldNames DEF IsCall
  <2> HIDE DEF m
  <2>3. k.op = "install" /\ k.ok = FALSE /\ k.copied = 0
    BY <1>1, <1>2, <1>7 DEF Kept
  <2>4. Kept(m)
    BY <1>2, <1>4, <1>7, <2>2, <2>3 DEF Kept
  <2>5. SameCall(k, m)
    BY <2>2 DEF SameCall
  <2>6. k.alone => Works(m, disk, store.skills, shown)
    BY <1>2, <2>2, <2>3, <2>5, WorksEarly
  <2> QED BY <1>1, <2>1, <2>2, <2>4, <2>5, <2>6, QuietStep
<1> QED BY <1>5, <1>6, <1>7

LEMMA FetchFailsStep ==
  ASSUME SkillsInv, StoreInv', NEW c \in Slots, FetchFails(c)
  PROVE  SkillsInv'
<1>1. /\ call[c].at = "fetch" /\ call[c].op \in {"install", "list"} /\ Becomes(c, NextRepo(call[c]))
      /\ UNCHANGED <<store, disk, shown, sure, owned>>
  BY DEF FetchFails, At, page, ghosts
<1>2. DOMAIN disk' = Dirs
  BY <1>1 DEF SkillsInv, Shapes
<1> QED BY <1>1, <1>2, NextStep

\* The last step of a list: what is on disk is on the page.
LEMMA MergeStep ==
  ASSUME SkillsInv, StoreInv', NEW c \in Slots, MergeLocalSkills(c)
  PROVE  SkillsInv'
<1> DEFINE k == call[c]
           there == {d \in Dirs : disk[d] # Absent}
           found == [d \in there |-> Card(IF d \in DOMAIN k.seen THEN k.seen[d].repo ELSE None, TRUE)]
           seen == Merged(found, k.seen)
           m == [k EXCEPT !.seen = seen, !.at = "done", !.ok = TRUE]
<1>1. Becomes(c, m) /\ UNCHANGED <<store, disk, shown, sure, owned>> /\ k.at = "merge" /\ k.op = "list"
  BY DEF MergeLocalSkills, At, page, ghosts
<1>2. IsCall(k) /\ Kept(k) /\ (k.alone => Works(k, disk, store.skills, shown))
  BY OfCall
<1>3. /\ IsCall(m) /\ m.seen = seen /\ m.at = "done" /\ m.op = k.op /\ m.dir = k.dir
      /\ m.entry = k.entry /\ m.alone = k.alone /\ m.copied = k.copied
      /\ m.todo = k.todo /\ m.src = k.src
  BY <1>2, FieldNames DEF IsCall
<1>4. DOMAIN found = there /\ \A d \in there : found[d].on = TRUE
  BY DEF Card
<1>5. seen = Merged(found, k.seen)
  OBVIOUS
<1> HIDE DEF m, found, seen
<1>6. /\ DOMAIN seen = there \cup DOMAIN k.seen
      /\ \A d \in DOMAIN seen : seen[d] = IF d \in there THEN found[d] ELSE k.seen[d]
  BY <1>4, <1>5 DEF Merged
<1>7. DOMAIN k.seen \subseteq Dirs
  BY <1>2 DEF Kept
<1>8. DOMAIN seen \subseteq Dirs
  BY <1>6, <1>7
<1>9. Kept(m)
  BY <1>1, <1>2, <1>3, <1>8 DEF Kept, Changes
<1>10. ASSUME k.alone, NEW d \in DOMAIN seen PROVE seen[d].on <=> disk[d] # Absent
  <2>1. CASE d \in there
    BY <1>4, <1>6, <2>1
  <2>2. CASE d \notin there
    <3>1. d \in DOMAIN k.seen /\ d \in Dirs /\ seen[d] = k.seen[d]
      BY <1>6, <1>7, <2>2
    <3>2. k.seen[d].on <=> disk[d] # Absent
      BY <1>1, <1>2, <1>10, <3>1 DEF Works
    <3> QED BY <3>1, <3>2
  <2> QED BY <2>1, <2>2
<1>11. k.alone => Works(m, disk, store.skills, shown)
  BY <1>1, <1>3, <1>6, <1>10 DEF Works, Changes
<1>12. SameCall(k, m)
  BY <1>3 DEF SameCall
<1> QED BY <1>1, <1>3, <1>9, <1>11, <1>12, QuietStep

\* The directory of a change is not there for its copy to begin, or for its record.
LEMMA RemoveStep ==
  ASSUME SkillsInv, StoreInv', NEW c \in Slots, RemoveTarget(c)
  PROVE  SkillsInv'
<1> DEFINE k == call[c]
<1>1. PICK step : /\ Becomes(c, [k EXCEPT !.at = step])
                  /\ \/ k.op = "install" /\ k.at = "remove" /\ step = "copy"
                     \/ k.op = "uninstall" /\ k.at = "start" /\ step = "record"
  BY DEF RemoveTarget, At, Goes
<1> DEFINE m == [k EXCEPT !.at = step]
<1>2. disk' = [disk EXCEPT ![k.dir] = Absent] /\ UNCHANGED <<store, shown, sure, owned>>
  BY DEF RemoveTarget, page, ghosts
<1>3. IsCall(k) /\ Kept(k) /\ (k.alone => Works(k, disk, store.skills, shown))
  BY OfCall
<1>4. /\ IsCall(m) /\ m.at = step /\ m.op = k.op /\ m.dir = k.dir /\ m.entry = k.entry
      /\ m.alone = k.alone /\ m.ok = k.ok /\ m.copied = k.copied /\ m.todo = k.todo
      /\ m.src = k.src /\ m.seen = k.seen
  BY <1>3, FieldNames DEF IsCall
<1>5. Becomes(c, m)
  BY <1>1
<1> HIDE DEF m
<1>6. k.dir \in Dirs /\ k.op \in Changes /\ k.ok = FALSE /\ Touched(k) = {k.dir}
  BY <1>1, <1>3 DEF Kept, Changes, Touched
<1>7. DOMAIN disk' = Dirs /\ disk'[k.dir] = Absent /\ "skills" \in DOMAIN store'
  BY <1>2, <1>6 DEF SkillsInv, Shapes
<1>8. \A d \in Dirs \ Touched(k) : disk'[d] = disk[d] /\ (d \in store'.skills <=> d \in store.skills)
  BY <1>2, <1>6 DEF SkillsInv, Shapes
<1>9. k.op = "install" => k.copied = 0 /\ k.src \in Snapshots /\ k.src[1] = k.entry /\ k.dir \in DOMAIN Archive[k.src]
  BY <1>1, <1>3 DEF Kept
<1>10. k.op = "install" => Len(Archive[k.src][k.dir]) > 0
  BY <1>9, SkillAssumption
<1>11. Kept(m)
  BY <1>1, <1>3, <1>4, <1>6, <1>9, <1>10 DEF Kept
<1>12. k.op = "install" => Part(m) = {}
  BY <1>4, <1>9 DEF Part
<1>13. DOMAIN Absent = {}
  BY DEF Absent
<1>14. k.alone => Works(m, disk', store'.skills, shown)
  BY <1>1, <1>3, <1>4, <1>6, <1>7, <1>12, <1>13 DEF Works, Whole, Changes
<1>15. SameCall(k, m)
  BY <1>4 DEF SameCall
<1> QED BY <1>2, <1>4, <1>5, <1>7, <1>8, <1>11, <1>14, <1>15, CallStep

LEMMA RemoveFailsStep ==
  ASSUME SkillsInv, StoreInv', NEW c \in Slots, RemoveFails(c)
  PROVE  SkillsInv'
<1> DEFINE k == call[c]
<1>1. /\ \/ k.op = "install" /\ k.at = "remove" /\ Becomes(c, NextRepo(k))
         \/ k.op = "uninstall" /\ k.at = "start" /\ Ends(c, FALSE)
      /\ UNCHANGED <<store, shown, sure, owned>>
  BY DEF RemoveFails, At, page, ghosts
<1>2. PICK files : disk' = [disk EXCEPT ![k.dir] = files]
  BY DEF RemoveFails
<1>3. IsCall(k) /\ Kept(k) /\ (k.alone => Works(k, disk, store.skills, shown))
  BY OfCall
<1>4. k.dir \in Dirs /\ k.op \in Changes /\ k.ok = FALSE /\ Touched(k) = {k.dir}
  BY <1>1, <1>3 DEF Kept, Changes, Touched
<1>5. DOMAIN disk' = Dirs /\ "skills" \in DOMAIN store'
  BY <1>1, <1>2 DEF SkillsInv, Shapes
<1>6. \A d \in Dirs \ Touched(k) : disk'[d] = disk[d] /\ (d \in store'.skills <=> d \in store.skills)
  BY <1>1, <1>2, <1>4 DEF SkillsInv, Shapes
<1>7. CASE k.op = "install" /\ k.at = "remove" /\ Becomes(c, NextRepo(k))
  BY <1>1, <1>5, <1>6, <1>7, NextStep
<1>8. CASE k.op = "uninstall" /\ k.at = "start" /\ Ends(c, FALSE)
  <2> DEFINE m == [k EXCEPT !.at = "done", !.ok = FALSE]
  <2>1. Becomes(c, m)
    BY <1>8 DEF Ends
  <2>2. /\ IsCall(m) /\ m.at = "done" /\ m.op = k.op /\ m.dir = k.dir /\ m.entry = k.entry
        /\ m.alone = k.alone /\ m.ok = FALSE /\ m.seen = k.seen /\ m.todo = k.todo
    BY <1>3, FieldNames DEF IsCall
  <2> HIDE DEF m
  <2>3. Kept(m)
    BY <1>3, <1>8, <2>2 DEF Kept
  <2>4. SameCall(k, m)
    BY <2>2 DEF SameCall
  <2>5. k.alone => Works(m, disk', store'.skills, shown)
    BY <1>3, <1>8, <2>2, <2>4, WorksEarly
  <2> QED BY <1>1, <1>5, <1>6, <2>1, <2>2, <2>3, <2>4, <2>5, CallStep
<1> QED BY <1>1, <1>7, <1>8

\* One more file of the snapshot is there; after the last one it is a whole copy.
LEMMA CopyStep ==
  ASSUME SkillsInv, StoreInv', NEW c \in Slots, CopyFile(c)
  PROVE  SkillsInv'
<1> DEFINE k == call[c]
           files == Archive[k.src][k.dir]
           f == files[k.copied + 1]
           step == IF k.copied + 1 = Len(files) THEN "record" ELSE k.at
           m == [k EXCEPT !.copied = k.copied + 1, !.at = step]
<1>1. /\ k.op = "install" /\ k.at = "copy" /\ UNCHANGED <<store, shown, sure, owned>>
      /\ \/ disk' = [disk EXCEPT ![k.dir] = Put(disk[k.dir], f, k.src)] /\ Becomes(c, m)
         \/ disk' = [disk EXCEPT ![k.dir] = Put(disk[k.dir], f, Cut)] /\ Becomes(c, NextRepo(k))
  BY DEF CopyFile, At, page, ghosts
<1>2. IsCall(k) /\ Kept(k) /\ (k.alone => Works(k, disk, store.skills, shown))
  BY OfCall
<1>3. k.dir \in Dirs /\ k.op \in Changes /\ k.ok = FALSE /\ Touched(k) = {k.dir}
  BY <1>1, <1>2 DEF Kept, Changes, Touched
<1>4. PICK put : disk' = [disk EXCEPT ![k.dir] = put]
  BY <1>1
<1>5. DOMAIN disk' = Dirs /\ "skills" \in DOMAIN store'
  BY <1>1, <1>4 DEF SkillsInv, Shapes
<1>6. \A d \in Dirs \ Touched(k) : disk'[d] = disk[d] /\ (d \in store'.skills <=> d \in store.skills)
  BY <1>1, <1>3, <1>4 DEF SkillsInv, Shapes
<1>7. CASE disk' = [disk EXCEPT ![k.dir] = Put(disk[k.dir], f, k.src)] /\ Becomes(c, m)
  <2>1. /\ IsCall(m) /\ m.at = step /\ m.copied = k.copied + 1
        /\ m.op = k.op /\ m.dir = k.dir /\ m.entry = k.entry /\ m.alone = k.alone
        /\ m.ok = k.ok /\ m.seen = k.seen /\ m.todo = k.todo /\ m.src = k.src
    BY <1>2, FieldNames DEF IsCall
  <2>2. /\ k.src \in Snapshots /\ k.src[1] = k.entry /\ k.dir \in DOMAIN Archive[k.src]
        /\ k.copied \in Nat /\ k.copied < Len(files)
    BY <1>1, <1>2 DEF Kept
  <2>3. files \in Seq(Files)
    BY <2>2, SkillAssumption
  <2>4. Len(files) \in Nat /\ DOMAIN files = 1..Len(files)
    BY <2>3
  <2>5. step \in {"copy", "record"} /\ (step = "copy" => k.copied + 1 < Len(files))
        /\ (step = "record" => k.copied + 1 = Len(files))
    BY <1>1, <2>2, <2>4
  <2>6. Part(m) = Part(k) \cup {f}
    <3>1. 1..k.copied + 1 = 1..k.copied \cup {k.copied + 1}
      BY <2>2
    <3> HIDE DEF m
    <3> QED BY <2>1, <3>1 DEF Part
  <2> HIDE DEF m, step
  <2>7. disk'[k.dir] = Put(disk[k.dir], f, k.src)
    BY <1>3, <1>7 DEF SkillsInv, Shapes
  <2>8. k.alone => disk'[k.dir] = [x \in Part(m) |-> k.src]
    <3> SUFFICES ASSUME k.alone PROVE disk'[k.dir] = [x \in Part(m) |-> k.src]
      OBVIOUS
    <3>1. DOMAIN disk[k.dir] = Part(k) /\ \A x \in Part(k) : disk[k.dir][x] = k.src
      BY <1>1, <1>2 DEF Works
    <3>2. Put(disk[k.dir], f, k.src) = [x \in Part(k) \cup {f} |-> k.src]
      BY <3>1 DEF Put
    <3> QED BY <2>6, <2>7, <3>2
  <2>9. m.at = "record" => Part(m) = ToSet(files)
    <3>1. m.at = "record" => Part(m) = {files[j] : j \in 1..Len(files)}
      BY <2>1, <2>5 DEF Part
    <3> QED BY <2>4, <3>1 DEF ToSet
  <2>10. k.alone /\ m.at = "record" => disk'[k.dir] = Copy(k.src, k.dir)
    BY <2>8, <2>9 DEF Copy
  <2>11. Kept(m)
    <3>1. m.at \in {"copy", "record"} /\ m.op = "install"
      BY <1>1, <2>1, <2>5
    <3>2. m.at = "copy" => m.copied \in Nat /\ m.copied < Len(Archive[m.src][m.dir])
      BY <2>1, <2>2, <2>5
    <3> HIDE DEF files, f
    <3> QED BY <1>2, <1>3, <2>1, <2>2, <3>1, <3>2 DEF Kept
  <2>12. k.alone => Works(m, disk', store'.skills, shown)
    <3>1. m.at \in {"copy", "record"} /\ m.op = "install" /\ m.ok = FALSE
      BY <1>1, <1>3, <2>1, <2>5
    <3>2. k.alone => m.dir \in DOMAIN shown /\ shown[m.dir].repo = m.entry
      BY <1>2, <1>3, <2>1 DEF Works
    <3>3. k.alone => DOMAIN disk'[m.dir] = Part(m) /\ \A x \in Part(m) : disk'[m.dir][x] = m.src
      BY <2>1, <2>8
    <3>4. k.alone /\ m.at = "record" => disk'[m.dir] = Copy(m.src, m.dir)
      BY <2>1, <2>10
    <3> HIDE DEF files, f, k
    <3> QED BY <3>1, <3>2, <3>3, <3>4 DEF Works, Whole
  <2>13. SameCall(k, m)
    BY <2>1 DEF SameCall
  <2> HIDE DEF files, f
  <2>14. Becomes(c, m)
    BY <1>7
  <2> QED BY <1>1, <1>5, <1>6, <2>1, <2>11, <2>12, <2>13, <2>14, CallStep
<1>8. CASE Becomes(c, NextRepo(k))
  BY <1>1, <1>5, <1>6, <1>8, NextStep
<1> QED BY <1>1, <1>7, <1>8

\* The store is opened: no one sees it.
LEMMA OpenStep ==
  ASSUME SkillsInv, StoreInv', NEW c \in Slots, OpenStore(c)
  PROVE  SkillsInv'
<1> DEFINE k == call[c]
           m == [k EXCEPT !.next = Edited(store, k), !.at = "saving"]
<1>1. /\ Becomes(c, m) /\ UNCHANGED <<store, disk, shown, sure, owned>>
      /\ \/ k.op \in Changes /\ k.at = "record"
         \/ k.op \in RepoEdits /\ k.at = "start"
  BY DEF OpenStore, At, page, ghosts
<1>2. IsCall(k) /\ Kept(k) /\ (k.alone => Works(k, disk, store.skills, shown))
  BY OfCall
<1>3. /\ IsCall(m) /\ m.at = "saving" /\ m.copied = k.copied
      /\ m.op = k.op /\ m.dir = k.dir /\ m.entry = k.entry /\ m.alone = k.alone
      /\ m.ok = k.ok /\ m.seen = k.seen /\ m.todo = k.todo /\ m.src = k.src
  BY <1>2, FieldNames DEF IsCall
<1> HIDE DEF m
<1>4. Kept(m)
  BY <1>1, <1>2, <1>3 DEF Kept, Changes, RepoEdits
<1>5. SameCall(k, m)
  BY <1>3 DEF SameCall
<1>6. k.op \in Changes => Whole(k)
  BY <1>1 DEF Whole, Changes, RepoEdits
<1>7. k.ok = FALSE /\ m.ok = FALSE
  BY <1>1, <1>2, <1>3 DEF Kept
<1>8. k.alone => Works(m, disk, store.skills, shown)
  <2>1. CASE k.op \in Changes
    BY <1>2, <1>3, <1>6, <1>7, <2>1 DEF Works, Changes
  <2>2. CASE k.op \in RepoEdits
    BY <1>3, <2>2 DEF Works, Changes, RepoEdits
  <2> QED BY <1>1, <2>1, <2>2
<1> QED BY <1>1, <1>3, <1>4, <1>5, <1>8, QuietStep

\* The record of a change is there from here on.
LEMMA RenameStep ==
  ASSUME SkillsInv, StoreInv', NEW c \in Slots, RenameStore(c)
  PROVE  SkillsInv'
<1> DEFINE k == call[c]
           m == [k EXCEPT !.at = "done", !.ok = TRUE]
<1>1. /\ Becomes(c, m) /\ UNCHANGED <<disk, shown, sure, owned>> /\ store' = k.next
      /\ k.op \in Changes \cup RepoEdits /\ k.at = "saving"
  BY DEF RenameStore, At, Ends, page, ghosts
<1>2. IsCall(k) /\ Kept(k) /\ (k.alone => Works(k, disk, store.skills, shown))
  BY OfCall
<1>3. /\ IsCall(m) /\ m.at = "done" /\ m.copied = k.copied /\ m.ok = TRUE
      /\ m.op = k.op /\ m.dir = k.dir /\ m.entry = k.entry /\ m.alone = k.alone
      /\ m.seen = k.seen /\ m.todo = k.todo /\ m.src = k.src
  BY <1>2, FieldNames DEF IsCall
<1> HIDE DEF m
<1>4. store' = Edited(store, k)
  BY <1>1 DEF SkillsInv, StoreInv
<1>5. "skills" \in DOMAIN store
  BY DEF SkillsInv, Shapes
<1>6. /\ "skills" \in DOMAIN store'
      /\ k.op = "install" => store'.skills = store.skills \cup {k.dir}
      /\ k.op = "uninstall" => store'.skills = store.skills \ {k.dir}
      /\ k.op \in RepoEdits => store'.skills = store.skills
  BY <1>1, <1>4, <1>5, EditedSkills
<1>7. DOMAIN disk' = Dirs /\ \A d \in Dirs \ Touched(k) : disk'[d] = disk[d]
  BY <1>1 DEF SkillsInv, Shapes
<1>8. ASSUME NEW d \in Dirs \ Touched(k) PROVE d \in store'.skills <=> d \in store.skills
  BY <1>1, <1>6 DEF Touched, Changes
<1>9. Kept(m)
  BY <1>1, <1>2, <1>3 DEF Kept, Changes, RepoEdits
<1>10. SameCall(k, m)
  BY <1>3 DEF SameCall
<1>11. Whole(k) /\ k.op # "list"
  BY <1>1 DEF Whole, Changes, RepoEdits
<1>12. k.alone => Works(m, disk', store'.skills, shown)
  <2>1. CASE k.op = "install"
    BY <1>1, <1>2, <1>3, <1>6, <1>11, <2>1 DEF Works, Changes
  <2>2. CASE k.op = "uninstall"
    BY <1>1, <1>2, <1>3, <1>6, <1>11, <2>2 DEF Works, Changes
  <2>3. CASE k.op \in RepoEdits
    BY <1>3, <2>3 DEF Works, Changes, RepoEdits
  <2> QED BY <1>1, <2>1, <2>2, <2>3 DEF Changes
<1> QED BY <1>1, <1>3, <1>6, <1>7, <1>8, <1>9, <1>10, <1>12, CallStep

LEMMA SaveFailsStep ==
  ASSUME SkillsInv, StoreInv', NEW c \in Slots, SaveFails(c)
  PROVE  SkillsInv'
<1> DEFINE k == call[c]
           m == [k EXCEPT !.at = "done", !.ok = FALSE]
<1>1. /\ UNCHANGED <<store, disk, shown, sure, owned>>
      /\ k.op \in Changes \cup RepoEdits /\ k.at = "saving"
      /\ IF k.op = "install" THEN Becomes(c, NextRepo(k)) ELSE Becomes(c, m)
  BY DEF SaveFails, At, Ends, page, ghosts
<1>2. IsCall(k) /\ Kept(k) /\ (k.alone => Works(k, disk, store.skills, shown))
  BY OfCall
<1>3. DOMAIN disk' = Dirs
  BY <1>1 DEF SkillsInv, Shapes
<1>4. CASE k.op = "install"
  BY <1>1, <1>3, <1>4, NextStep
<1>5. CASE k.op # "install"
  <2>1. /\ IsCall(m) /\ m.at = "done" /\ m.ok = FALSE
        /\ m.op = k.op /\ m.dir = k.dir /\ m.entry = k.entry /\ m.alone = k.alone
        /\ m.seen = k.seen /\ m.todo = k.todo
    BY <1>2, FieldNames DEF IsCall
  <2>2. Becomes(c, m) /\ k.op # "list"
    BY <1>1, <1>5 DEF Changes, RepoEdits
  <2> HIDE DEF m
  <2>3. Kept(m) /\ SameCall(k, m)
    BY <1>2, <1>5, <2>1 DEF Kept, SameCall
  <2>4. k.alone => Works(m, disk, store.skills, shown)
    BY <1>2, <2>1, <2>2, <2>3, WorksEarly
  <2> QED BY <1>1, <2>1, <2>2, <2>3, <2>4, QuietStep
<1> QED BY <1>4, <1>5

LEMMA ListReposStep ==
  ASSUME SkillsInv, StoreInv', NEW c \in Slots, ListRepos(c)
  PROVE  SkillsInv'
<1> DEFINE k == call[c]
           m == [k EXCEPT !.next = store, !.at = "done", !.ok = TRUE]
<1>1. Becomes(c, m) /\ UNCHANGED <<store, disk, shown, sure, owned>> /\ k.op = "repos"
  BY DEF ListRepos, At, page, ghosts
<1>2. IsCall(k) /\ Kept(k)
  BY OfCall
<1>3. /\ IsCall(m) /\ m.at = "done" /\ m.op = k.op /\ m.dir = k.dir /\ m.entry = k.entry
      /\ m.alone = k.alone /\ m.seen = k.seen /\ m.todo = k.todo
  BY <1>2, FieldNames DEF IsCall
<1> HIDE DEF m
<1>4. Kept(m) /\ SameCall(k, m)
  BY <1>1, <1>2, <1>3 DEF Kept, SameCall, Changes
<1>5. Works(m, disk, store.skills, shown)
  BY <1>1, <1>3 DEF Works, Changes
<1> QED BY <1>1, <1>3, <1>4, <1>5, QuietStep

-----------------------------------------------------------------------------
(* The steps of the page.                                                  *)

\* What nothing has been done for yet.
LEMMA NewKept ==
  ASSUME NEW k, k.op \in Ops, k.op \in Changes => k.dir \in Dirs, k.at = "start", k.ok = FALSE,
         DOMAIN k.seen = {}, DOMAIN k.todo = {}, k.copied = 0
  PROVE  Kept(k)
BY DEF Kept

LEMMA IdleCall ==
  Kept(Idle) /\ IsCall(Idle) /\ Idle.op = None /\ Idle.at = "start" /\ None \notin Changes \cup {"list"}
<1>1. None \in Ops /\ None \notin Changes \cup {"list"}
  BY DEF Ops, Changes, None
<1>2. /\ Idle.op = None /\ Idle.at = "start" /\ Idle.ok = FALSE
      /\ DOMAIN Idle.seen = {} /\ DOMAIN Idle.todo = {} /\ Idle.copied = 0
  BY DEF Idle, Call, Absent
<1>3. IsCall(Idle)
  BY CallFields DEF Idle
<1> QED BY <1>1, <1>2, <1>3, NewKept

\* A call b that k has been started beside.
Beside(b, k) == call'[b] = [call[b] EXCEPT !.alone = @ /\ ~Disturbs(call[b], k)]

LEMMA BesideCall ==
  ASSUME SkillsInv, NEW b \in Slots, NEW k, Beside(b, k)
  PROVE  /\ call'[b].op = call[b].op /\ call'[b].dir = call[b].dir /\ Kept(call'[b])
         /\ call'[b].alone => call[b].alone /\ ~Disturbs(call[b], k)
         /\ call'[b].alone => Works(call'[b], disk, store.skills, shown)
<1> DEFINE m == call[b]
           n == call'[b]
<1>1. IsCall(m) /\ Kept(m) /\ (m.alone => Works(m, disk, store.skills, shown))
  BY OfCall
<1>2. /\ n.op = m.op /\ n.dir = m.dir /\ n.entry = m.entry /\ n.at = m.at /\ n.todo = m.todo /\ n.src = m.src
      /\ n.copied = m.copied /\ n.seen = m.seen /\ n.ok = m.ok
  BY <1>1, FieldNames DEF Beside, IsCall
<1>3. n.alone = (m.alone /\ ~Disturbs(m, k))
  BY <1>1, FieldNames DEF Beside, IsCall
<1> HIDE DEF m, n
<1>4. n.alone => m.alone /\ ~Disturbs(m, k)
  BY <1>3
<1>5. Kept(n)
  BY <1>1, <1>2 DEF Kept
<1>6. Part(n) = Part(m)
  BY <1>2 DEF Part
<1>7. n.alone => Works(n, disk, store.skills, shown)
  BY <1>1, <1>2, <1>4, <1>6 DEF Works, Whole
<1> QED BY <1>2, <1>4, <1>5, <1>7 DEF m, n

\* A call begins; of its directory nothing is claimed while it runs.
LEMMA BeginStep ==
  ASSUME SkillsInv, StoreInv', NEW c \in Slots, NEW k,
         IsCall(k), Kept(k), k.at = "start", k.ok = FALSE, DOMAIN k.seen = {},
         k.op \in Changes => k.dir \in DOMAIN shown /\ shown[k.dir].repo = k.entry,
         call'[c] = [k EXCEPT !.alone = \A b \in Slots : ~Disturbs(call[b], k)],
         \A b \in Slots \ {c} : Beside(b, k) \/ call'[b] = Call("repos", None, None),
         UNCHANGED <<store, disk, shown>>,
         IF k.op \in Changes THEN Unsure(k) ELSE UNCHANGED <<sure, owned>>
  PROVE  SkillsInv'
<1> DEFINE m == call'[c]
           repos == Call("repos", None, None)
<1>1. /\ m.op = k.op /\ m.dir = k.dir /\ m.entry = k.entry /\ m.at = k.at /\ m.todo = k.todo /\ m.src = k.src
      /\ m.copied = k.copied /\ m.seen = k.seen /\ m.ok = k.ok
  BY FieldNames DEF IsCall
<1>2. m.alone => \A b \in Slots : ~Disturbs(call[b], k)
  <2>1. m.alone = \A b \in Slots : ~Disturbs(call[b], k)
    BY FieldNames DEF IsCall
  <2> QED BY <2>1
<1>3. Kept(repos) /\ repos.op = "repos" /\ repos.op \notin Changes \cup {"list"}
  <2>1. "repos" \in Ops /\ "repos" \notin Changes \cup {"list"}
    BY DEF Ops, Changes
  <2>2. /\ repos.op = "repos" /\ repos.at = "start" /\ repos.ok = FALSE
        /\ DOMAIN repos.seen = {} /\ DOMAIN repos.todo = {} /\ repos.copied = 0
    BY DEF Call, Absent
  <2> HIDE DEF repos
  <2> QED BY <2>1, <2>2, NewKept
<1> HIDE DEF m, repos
<1>4. Kept(m) /\ Works(m, disk, store.skills, shown)
  BY <1>1 DEF Kept, Works, Whole, Changes
<1>5. Works(repos, disk, store.skills, shown)
  BY <1>3 DEF Works, Changes
<1>6. \A b \in Slots : b = c \/ Beside(b, k) \/ call'[b] = repos
  BY DEF repos
<1>7. \A b \in Slots : Kept(call'[b])
  BY <1>3, <1>4, <1>6, BesideCall DEF m
<1>8. ASSUME NEW a \in Slots, NEW b \in Slots, a # b, Disturbs(call'[a], call'[b])
      PROVE  ~call'[a].alone
  <2>1. call'[a] # repos /\ call'[b] # repos
    BY <1>3, <1>8, Mutual, WhoDisturbs
  <2>2. CASE a = c
    <3>1. Disturbs(call[b], k)
      <4>1. Beside(b, k) /\ call'[b].op = call[b].op /\ call'[b].dir = call[b].dir
        BY <1>6, <1>8, <2>1, <2>2, BesideCall
      <4>2. Disturbs(call'[b], m)
        BY <1>8, <2>2, Mutual DEF m
      <4>3. Disturbs(call[b], m)
        BY <4>1, <4>2, DisturbsSame
      <4>4. Disturbs(m, call[b])
        BY <4>3, Mutual
      <4>5. Disturbs(k, call[b])
        BY <1>1, <4>4, DisturbsSame
      <4> QED BY <4>5, Mutual
    <3> QED BY <1>2, <2>2, <3>1 DEF m
  <2>3. CASE a # c
    <3>1. Beside(a, k)
      BY <1>6, <2>1, <2>3
    <3>2. /\ call'[a].op = call[a].op /\ call'[a].dir = call[a].dir
          /\ call'[a].alone => call[a].alone /\ ~Disturbs(call[a], k)
      BY <3>1, BesideCall
    <3>3. Disturbs(call[a], call'[b])
      BY <1>8, <3>2, DisturbsSame
    <3>4. Disturbs(call'[b], call[a])
      BY <3>3, Mutual
    <3>5. CASE b = c
      <4>1. Disturbs(k, call[a])
        BY <1>1, <3>4, <3>5, DisturbsSame DEF m
      <4> QED BY <3>2, <4>1, Mutual
    <3>6. CASE b # c
      <4>1. call'[b].op = call[b].op /\ call'[b].dir = call[b].dir
        BY <1>6, <2>1, <3>6, BesideCall
      <4>2. Disturbs(call[b], call[a])
        BY <3>4, <4>1, DisturbsSame
      <4>3. Disturbs(call[a], call[b])
        BY <4>2, Mutual
      <4> QED BY <1>8, <3>2, <4>3 DEF SkillsInv, CallsInv
    <3> QED BY <3>5, <3>6
  <2> QED BY <2>2, <2>3
<1>9. /\ sure' \subseteq sure /\ DOMAIN owned' = Dirs
      /\ \A d \in Dirs : owned'[d] = owned[d] \/ owned'[d] = "unknown"
      /\ k.op \in Changes => owned'[k.dir] = "unknown" /\ k.dir \notin sure'
  <2>1. CASE k.op \in Changes
    <3>1. k.dir \in Dirs
      BY <2>1 DEF Kept
    <3> QED BY <2>1, <3>1 DEF Unsure, SkillsInv, Shapes
  <2>2. CASE k.op \notin Changes
    BY <2>2 DEF SkillsInv, Shapes
  <2> QED BY <2>1, <2>2
<1>10. ASSUME NEW b \in Slots, call'[b].op \in Changes
       PROVE  owned'[call'[b].dir] = "unknown" /\ call'[b].dir \notin sure'
  <2>1. CASE b = c
    BY <1>1, <1>9, <1>10, <2>1 DEF m
  <2>2. CASE b # c
    <3>1. call'[b].op = call[b].op /\ call'[b].dir = call[b].dir
      BY <1>3, <1>6, <1>10, <2>2, BesideCall
    <3>2. call[b].dir \in Dirs /\ owned[call[b].dir] = "unknown" /\ call[b].dir \notin sure
      BY <1>10, <3>1 DEF SkillsInv, CallsInv, Kept
    <3> QED BY <1>9, <3>1, <3>2
  <2> QED BY <2>1, <2>2
<1>11. ASSUME NEW b \in Slots, call'[b].alone
       PROVE  Works(call'[b], disk', store'.skills, shown')
  <2>1. Works(call'[b], disk, store.skills, shown)
    BY <1>4, <1>5, <1>6, <1>11, BesideCall DEF m
  <2> QED BY <2>1
<1>12. CallsInv'
  BY <1>7, <1>8, <1>10, <1>11 DEF CallsInv
<1>13. Shapes'
  BY <1>9 DEF SkillsInv, Shapes
<1>14. InstalledWhole'
  <2> SUFFICES ASSUME NEW d \in Dirs
               PROVE  /\ owned'[d] = "gone" => disk[d] = Absent /\ d \notin store.skills
                      /\ owned'[d] \in Names =>
                           /\ \E s \in Snapshots : s[1] = owned'[d] /\ d \in DOMAIN Archive[s] /\ disk[d] = Copy(s, d)
                           /\ d \in store.skills
    BY DEF InstalledWhole
  <2>1. CASE owned'[d] = owned[d]
    BY <2>1 DEF SkillsInv, InstalledWhole
  <2>2. CASE owned'[d] = "unknown"
    BY <2>2, NamesAssumption
  <2> QED BY <1>9, <2>1, <2>2
<1>15. PageTellsDisk'
  BY <1>9 DEF SkillsInv, PageTellsDisk
<1> QED BY <1>12, <1>13, <1>14, <1>15 DEF SkillsInv

LEMMA StartStep ==
  ASSUME SkillsInv, StoreInv', NEW c \in Slots, NEW op \in Ops, NEW dir, NEW entry,
         Start(c, Call(op, dir, entry)),
         op \in Changes => dir \in DOMAIN shown /\ shown[dir].repo = entry,
         UNCHANGED <<store, disk, shown>>,
         IF op \in Changes THEN Unsure(Call(op, dir, entry)) ELSE UNCHANGED <<sure, owned>>
  PROVE  SkillsInv'
<1> DEFINE k == Call(op, dir, entry)
<1>1. op \in Changes => dir \in Dirs
  BY DEF SkillsInv, Shapes
<1>2. /\ IsCall(k) /\ Kept(k) /\ k.op = op /\ k.dir = dir /\ k.entry = entry
      /\ k.at = "start" /\ k.ok = FALSE /\ DOMAIN k.seen = {}
  <2>1. /\ k.op = op /\ k.dir = dir /\ k.entry = entry /\ k.at = "start" /\ k.ok = FALSE
        /\ DOMAIN k.seen = {} /\ DOMAIN k.todo = {} /\ k.copied = 0
    BY DEF Call, Absent
  <2>2. IsCall(k)
    BY CallFields
  <2> HIDE DEF k
  <2> QED BY <1>1, <2>1, <2>2, NewKept
<1>3. Start(c, k) /\ (IF k.op \in Changes THEN Unsure(k) ELSE UNCHANGED <<sure, owned>>)
  BY <1>2
<1> HIDE DEF k
<1>4. /\ call'[c] = [k EXCEPT !.alone = \A b \in Slots : ~Disturbs(call[b], k)]
      /\ \A b \in Slots \ {c} : Beside(b, k)
  BY <1>3 DEF Start, Started, Alone, Beside
<1>5. k.op \in Changes => k.dir \in DOMAIN shown /\ shown[k.dir].repo = k.entry
  BY <1>2
<1> QED BY <1>2, <1>3, <1>4, <1>5, BeginStep

LEMMA PressStep ==
  ASSUME SkillsInv, StoreInv', NEW c \in Slots, NEW op \in Changes, NEW d \in DOMAIN shown,
         Press(c, Call(op, d, shown[d].repo))
  PROVE  SkillsInv'
<1>1. /\ Start(c, Call(op, d, shown[d].repo)) /\ Unsure(Call(op, d, shown[d].repo))
      /\ UNCHANGED <<store, disk, shown>>
  BY DEF Press, Begin
<1>2. op \in Ops
  BY DEF Ops
<1> QED BY <1>1, <1>2, StartStep

LEMMA RefreshStep ==
  ASSUME SkillsInv, StoreInv', NEW c \in Slots, NEW r \in Slots, Refresh(c, r)
  PROVE  SkillsInv'
<1> DEFINE k == Call("list", None, None)
<1>1. /\ IsCall(k) /\ Kept(k) /\ k.op = "list" /\ k.at = "start" /\ k.ok = FALSE /\ DOMAIN k.seen = {}
  <2>1. "list" \in Ops /\ "list" \notin Changes
    BY DEF Ops, Changes
  <2>2. /\ k.op = "list" /\ k.at = "start" /\ k.ok = FALSE
        /\ DOMAIN k.seen = {} /\ DOMAIN k.todo = {} /\ k.copied = 0
    BY DEF Call, Absent
  <2>3. IsCall(k)
    BY CallFields
  <2> HIDE DEF k
  <2> QED BY <2>1, <2>2, <2>3, NewKept
<1>2. c # r /\ UNCHANGED <<store, disk, shown, sure, owned>>
      /\ call' = [Started(call, k) EXCEPT ![c] = Alone(call, k), ![r] = Call("repos", None, None)]
  BY DEF Refresh, ghosts
<1> HIDE DEF k
<1>3. /\ call'[c] = [k EXCEPT !.alone = \A b \in Slots : ~Disturbs(call[b], k)]
      /\ \A b \in Slots \ {c} : Beside(b, k) \/ call'[b] = Call("repos", None, None)
  BY <1>2 DEF Started, Alone, Beside
<1>4. k.op \notin Changes
  BY <1>1 DEF Changes
<1> QED BY <1>1, <1>2, <1>3, <1>4, BeginStep

LEMMA EditReposStep ==
  ASSUME SkillsInv, StoreInv', NEW c \in Slots, NEW op \in RepoEdits, NEW e, EditRepos(c, op, e)
  PROVE  SkillsInv'
<1>1. Start(c, Call(op, None, e)) /\ UNCHANGED <<store, disk, shown, sure, owned>>
  BY DEF EditRepos, Begin, ghosts
<1>2. op \in Ops /\ op \notin Changes
  BY DEF Ops, RepoEdits, Changes
<1> QED BY <1>1, <1>2, StartStep

\* A call is over; what it found or did is on the page.
LEMMA OverStep ==
  ASSUME SkillsInv, StoreInv', NEW c \in Slots, Over(c), UNCHANGED <<store, disk>>,
         DOMAIN owned' = Dirs, DOMAIN shown' \subseteq Dirs, sure' \subseteq Dirs,
         \A b \in Slots \ {c} : call[b].op \in Changes =>
           /\ owned'[call[b].dir] = "unknown" /\ call[b].dir \notin sure'
           /\ call[b].alone => call[b].dir \in DOMAIN shown' /\ shown'[call[b].dir].repo = call[b].entry,
         InstalledWhole', PageTellsDisk'
  PROVE  SkillsInv'
<1>1. /\ Kept(Idle) /\ IsCall(Idle) /\ Idle.op = None /\ None \notin Changes \cup {"list"}
  BY IdleCall
<1>2. /\ call'[c] = Idle /\ \A b \in Slots \ {c} : call'[b] = call[b]
  BY <1>1, BecomesEffect DEF Over, SkillsInv
<1>3. Shapes'
  BY DEF SkillsInv, Shapes
<1>4. \A b \in Slots : Kept(call'[b])
  BY <1>1, <1>2 DEF SkillsInv, CallsInv
<1>5. ASSUME NEW a \in Slots, NEW b \in Slots, a # b, Disturbs(call'[a], call'[b])
      PROVE  ~call'[a].alone
  <2>1. call'[a] # Idle /\ call'[b] # Idle
    BY <1>1, <1>5, Mutual, WhoDisturbs
  <2> QED BY <1>2, <1>5, <2>1 DEF SkillsInv, CallsInv
<1>6. ASSUME NEW b \in Slots, call'[b].op \in Changes
      PROVE  owned'[call'[b].dir] = "unknown" /\ call'[b].dir \notin sure'
  BY <1>1, <1>2, <1>6
<1>7. ASSUME NEW b \in Slots, call'[b].alone
      PROVE  Works(call'[b], disk, store.skills, shown')
  <2>1. CASE b = c
    BY <1>1, <1>2, <2>1 DEF Works, Changes
  <2>2. CASE b # c
    <3> DEFINE k == call[b]
    <3>1. call'[b] = k /\ k.alone /\ Works(k, disk, store.skills, shown)
      BY <1>2, <1>7, <2>2, OfCall
    <3>2. k.op \in Changes => k.dir \in DOMAIN shown' /\ shown'[k.dir].repo = k.entry
      BY <2>2, <3>1
    <3> HIDE DEF k
    <3>3. Works(k, disk, store.skills, shown')
      BY <3>1, <3>2 DEF Works
    <3> QED BY <3>1, <3>3
  <2> QED BY <2>1, <2>2
<1>8. \A b \in Slots : call'[b].alone => Works(call'[b], disk', store'.skills, shown')
  BY <1>7
<1>9. CallsInv'
  BY <1>4, <1>5, <1>6, <1>8 DEF CallsInv
<1> QED BY <1>3, <1>9 DEF SkillsInv

\* A whole copy has a file.
LEMMA CopyIsThere ==
  ASSUME NEW s \in Snapshots, NEW d \in DOMAIN Archive[s]
  PROVE  Copy(s, d) # Absent
<1>1. 1 \in DOMAIN Archive[s][d]
  BY SkillAssumption
<1>2. Archive[s][d][1] \in ToSet(Archive[s][d])
  BY <1>1 DEF ToSet
<1>3. DOMAIN Copy(s, d) # {}
  BY <1>2 DEF Copy
<1>4. DOMAIN Absent = {}
  BY DEF Absent
<1> QED BY <1>3, <1>4

LEMMA EndChangeStep ==
  ASSUME SkillsInv, StoreInv', NEW c \in Slots, EndChange(c)
  PROVE  SkillsInv'
<1> DEFINE k == call[c]
<1>1. /\ k.op \in Changes /\ k.at = "done" /\ Over(c) /\ UNCHANGED <<store, disk>>
      /\ shown' = [d \in DOMAIN shown |->
           IF k.ok /\ d = k.dir /\ shown[d].repo = k.entry THEN Card(k.entry, k.op = "install")
           ELSE shown[d]]
      /\ IF k.ok /\ k.alone
         THEN sure' = sure \cup {k.dir}
              /\ owned' = [owned EXCEPT ![k.dir] = IF k.op = "install" THEN k.entry ELSE "gone"]
         ELSE sure' = sure \ {k.dir} /\ owned' = [owned EXCEPT ![k.dir] = "unknown"]
  BY DEF EndChange, At, Unsure
<1>2. IsCall(k) /\ Kept(k) /\ (k.alone => Works(k, disk, store.skills, shown))
  BY OfCall
<1>3. k.dir \in Dirs /\ k.dir \notin sure /\ owned[k.dir] = "unknown"
  BY <1>1, <1>2 DEF SkillsInv, CallsInv, Kept
<1>4. DOMAIN owned = Dirs /\ DOMAIN shown \subseteq Dirs /\ sure \subseteq Dirs
  BY DEF SkillsInv, Shapes
<1>5. /\ DOMAIN owned' = Dirs /\ DOMAIN shown' = DOMAIN shown /\ sure' \subseteq Dirs
      /\ \A d \in Dirs \ {k.dir} : owned'[d] = owned[d] /\ (d \in sure' <=> d \in sure)
      /\ \A d \in DOMAIN shown \ {k.dir} : shown'[d] = shown[d]
  BY <1>1, <1>3, <1>4
<1>6. \A d \in DOMAIN shown : shown'[d].repo = shown[d].repo
  BY <1>1 DEF Card
<1>7. ASSUME NEW b \in Slots \ {c}, call[b].op \in Changes
      PROVE  /\ owned'[call[b].dir] = "unknown" /\ call[b].dir \notin sure'
             /\ call[b].alone => call[b].dir \in DOMAIN shown' /\ shown'[call[b].dir].repo = call[b].entry
  <2>1. call[b].dir \in Dirs /\ owned[call[b].dir] = "unknown" /\ call[b].dir \notin sure
    BY <1>7 DEF SkillsInv, CallsInv, Kept
  <2>2. owned'[call[b].dir] = "unknown" /\ call[b].dir \notin sure'
    <3>1. CASE call[b].dir = k.dir
      <4>1. Disturbs(k, call[b])
        BY <1>1, <1>7, <3>1, WhoDisturbs
      <4>2. ~k.alone
        BY <4>1 DEF SkillsInv, CallsInv
      <4> QED BY <1>1, <1>3, <1>4, <3>1, <4>2
    <3>2. CASE call[b].dir # k.dir
      BY <1>5, <2>1, <3>2
    <3> QED BY <3>1, <3>2
  <2>3. call[b].alone => call[b].dir \in DOMAIN shown /\ shown[call[b].dir].repo = call[b].entry
    BY <1>7, OfCall DEF Works
  <2> QED BY <1>5, <1>6, <2>2, <2>3
<1> HIDE DEF k
<1>8. CASE k.ok /\ k.alone
  <2>1. /\ sure' = sure \cup {k.dir}
        /\ owned' = [owned EXCEPT ![k.dir] = IF k.op = "install" THEN k.entry ELSE "gone"]
    BY <1>1, <1>8
  <2>2. /\ k.op = "install" =>
             /\ k.src \in Snapshots /\ k.src[1] = k.entry /\ k.dir \in DOMAIN Archive[k.src]
             /\ disk[k.dir] = Copy(k.src, k.dir) /\ k.dir \in store.skills
        /\ k.op = "uninstall" => disk[k.dir] = Absent /\ k.dir \notin store.skills
        /\ k.dir \in DOMAIN shown /\ shown[k.dir].repo = k.entry
    BY <1>1, <1>2, <1>8 DEF Kept, Works, Whole, Changes
  <2>3. k.op = "install" => k.entry \in Names
    BY <2>2, RepoAssumption
  <2>4. owned'[k.dir] = IF k.op = "install" THEN k.entry ELSE "gone"
    BY <1>3, <1>4, <2>1
  <2>5. InstalledWhole'
    <3> SUFFICES ASSUME NEW d \in Dirs
                 PROVE  /\ owned'[d] = "gone" => disk[d] = Absent /\ d \notin store.skills
                        /\ owned'[d] \in Names =>
                             /\ \E s \in Snapshots : s[1] = owned'[d] /\ d \in DOMAIN Archive[s] /\ disk[d] = Copy(s, d)
                             /\ d \in store.skills
      BY <1>1 DEF InstalledWhole
    <3>1. CASE d = k.dir /\ k.op = "install"
      BY <2>2, <2>3, <2>4, <3>1, NamesAssumption
    <3>2. CASE d = k.dir /\ k.op = "uninstall"
      BY <2>2, <2>4, <3>2, NamesAssumption
    <3>3. CASE d # k.dir
      <4>1. owned'[d] = owned[d]
        BY <1>5, <3>3
      <4> QED BY <4>1 DEF SkillsInv, InstalledWhole
    <3> QED BY <1>1, <3>1, <3>2, <3>3 DEF Changes
  <2>6. PageTellsDisk'
    <3> SUFFICES ASSUME NEW d \in sure' PROVE disk[d] # Absent <=> d \in DOMAIN shown' /\ shown'[d].on
      BY <1>1 DEF PageTellsDisk
    <3>1. CASE d = k.dir
      <4>1. shown'[d].on <=> k.op = "install"
        BY <1>1, <1>8, <2>2, <3>1 DEF Card
      <4>2. disk[d] # Absent <=> k.op = "install"
        BY <1>1, <2>2, <3>1, CopyIsThere DEF Changes
      <4> QED BY <1>5, <2>2, <3>1, <4>1, <4>2
    <3>2. CASE d # k.dir
      <4>1. d \in sure /\ d \in Dirs
        BY <1>4, <2>1, <3>2
      <4>2. d \in DOMAIN shown => shown'[d] = shown[d]
        BY <1>5, <3>2
      <4> QED BY <1>5, <4>1, <4>2 DEF SkillsInv, PageTellsDisk
    <3> QED BY <3>1, <3>2
  <2> QED BY <1>1, <1>4, <1>5, <1>7, <2>5, <2>6, OverStep
<1>9. CASE ~(k.ok /\ k.alone)
  <2>1. sure' = sure \ {k.dir} /\ owned' = [owned EXCEPT ![k.dir] = "unknown"]
    BY <1>1, <1>9
  <2>2. InstalledWhole'
    <3> SUFFICES ASSUME NEW d \in Dirs
                 PROVE  /\ owned'[d] = "gone" => disk[d] = Absent /\ d \notin store.skills
                        /\ owned'[d] \in Names =>
                             /\ \E s \in Snapshots : s[1] = owned'[d] /\ d \in DOMAIN Archive[s] /\ disk[d] = Copy(s, d)
                             /\ d \in store.skills
      BY <1>1 DEF InstalledWhole
    <3>1. CASE d = k.dir
      BY <1>4, <2>1, <3>1, NamesAssumption
    <3>2. CASE d # k.dir
      <4>1. owned'[d] = owned[d]
        BY <1>5, <3>2
      <4> QED BY <4>1 DEF SkillsInv, InstalledWhole
    <3> QED BY <3>1, <3>2
  <2>3. PageTellsDisk'
    <3> SUFFICES ASSUME NEW d \in sure' PROVE disk[d] # Absent <=> d \in DOMAIN shown' /\ shown'[d].on
      BY <1>1 DEF PageTellsDisk
    <3>1. d \in sure /\ d # k.dir
      BY <2>1
    <3>2. d \in DOMAIN shown => shown'[d] = shown[d]
      BY <1>5, <3>1
    <3> QED BY <1>5, <3>1, <3>2 DEF SkillsInv, PageTellsDisk
  <2> QED BY <1>1, <1>4, <1>5, <1>7, <2>2, <2>3, OverStep
<1> QED BY <1>8, <1>9

LEMMA EndListStep ==
  ASSUME SkillsInv, StoreInv', NEW c \in Slots, EndList(c)
  PROVE  SkillsInv'
<1> DEFINE k == call[c]
<1>1. /\ k.op = "list" /\ Over(c) /\ UNCHANGED <<store, disk, owned>>
      /\ shown' = IF k.ok THEN k.seen ELSE shown
      /\ sure' = IF k.ok /\ k.alone THEN Dirs ELSE {}
  BY DEF EndList, At
<1>2. IsCall(k) /\ Kept(k) /\ (k.alone => Works(k, disk, store.skills, shown))
  BY OfCall
<1>3. DOMAIN owned' = Dirs /\ DOMAIN shown' \subseteq Dirs /\ sure' \subseteq Dirs
  BY <1>1, <1>2 DEF SkillsInv, Shapes, Kept
<1>4. ASSUME NEW b \in Slots \ {c}, call[b].op \in Changes
      PROVE  /\ owned'[call[b].dir] = "unknown" /\ call[b].dir \notin sure'
             /\ call[b].alone => call[b].dir \in DOMAIN shown' /\ shown'[call[b].dir].repo = call[b].entry
  <2>1. Disturbs(k, call[b]) /\ Disturbs(call[b], k)
    BY <1>1, <1>4, WhoDisturbs
  <2>2. ~k.alone /\ ~call[b].alone
    BY <1>4, <2>1 DEF SkillsInv, CallsInv
  <2>3. owned[call[b].dir] = "unknown"
    BY <1>4 DEF SkillsInv, CallsInv
  <2> QED BY <1>1, <2>2, <2>3
<1> HIDE DEF k
<1>5. InstalledWhole'
  BY <1>1 DEF SkillsInv, InstalledWhole
<1>6. PageTellsDisk'
  <2> SUFFICES ASSUME NEW d \in sure' PROVE disk[d] # Absent <=> d \in DOMAIN shown' /\ shown'[d].on
    BY <1>1 DEF PageTellsDisk
  <2>1. k.ok /\ k.alone /\ d \in Dirs /\ shown' = k.seen
    BY <1>1
  <2>2. /\ d \in DOMAIN k.seen => (k.seen[d].on <=> disk[d] # Absent)
        /\ disk[d] # Absent => d \in DOMAIN k.seen
    BY <1>1, <1>2, <2>1 DEF Works
  <2> QED BY <2>1, <2>2
<1> QED BY <1>1, <1>3, <1>4, <1>5, <1>6, OverStep

LEMMA EndReposStep ==
  ASSUME SkillsInv, StoreInv', NEW c \in Slots, EndRepos(c) \/ EndRepoEdit(c)
  PROVE  SkillsInv'
<1>1. /\ UNCHANGED <<store, disk, shown, sure, owned>>
      /\ Over(c) \/ Start(c, Call("list", None, "repoBusy"))
  BY DEF EndRepos, EndRepoEdit, ghosts
<1>2. CASE Over(c)
  <2>1. DOMAIN owned' = Dirs /\ DOMAIN shown' \subseteq Dirs /\ sure' \subseteq Dirs
    BY <1>1 DEF SkillsInv, Shapes
  <2>2. ASSUME NEW b \in Slots \ {c}, call[b].op \in Changes
        PROVE  /\ owned'[call[b].dir] = "unknown" /\ call[b].dir \notin sure'
               /\ call[b].alone => call[b].dir \in DOMAIN shown' /\ shown'[call[b].dir].repo = call[b].entry
    <3>1. owned[call[b].dir] = "unknown" /\ call[b].dir \notin sure
      BY <2>2 DEF SkillsInv, CallsInv
    <3>2. call[b].alone => call[b].dir \in DOMAIN shown /\ shown[call[b].dir].repo = call[b].entry
      BY <2>2, OfCall DEF Works
    <3> QED BY <1>1, <3>1, <3>2
  <2>3. InstalledWhole' /\ PageTellsDisk'
    BY <1>1 DEF SkillsInv, InstalledWhole, PageTellsDisk
  <2> QED BY <1>1, <1>2, <2>1, <2>2, <2>3, OverStep
<1>3. CASE Start(c, Call("list", None, "repoBusy"))
  <2>1. "list" \in Ops /\ "list" \notin Changes
    BY DEF Ops, Changes
  <2> QED BY <1>1, <1>3, <2>1, StartStep
<1> QED BY <1>1, <1>2, <1>3

\* What a call was about to do when the program ended is not known, and nothing is claimed of it.
LEMMA RestartKeeps ==
  ASSUME SkillsInv, StoreInv', Restart
  PROVE  SkillsInv'
<1>1. /\ call' = [b \in Slots |-> Idle] /\ UNCHANGED <<store, disk>>
      /\ shown' = Absent /\ sure' = {} /\ DOMAIN owned' = Dirs
      /\ \A d \in Dirs : owned'[d] = "unknown" \/ owned'[d] = owned[d]
  BY DEF Restart
<1>2. Kept(Idle) /\ Idle.op = None /\ None \notin Changes \cup {"list"}
  BY IdleCall
<1>3. \A b \in Slots : call'[b] = Idle
  BY <1>1
<1>4. ~Disturbs(Idle, Idle)
  BY <1>2, WhoDisturbs
<1>5. Works(Idle, disk', store'.skills, shown')
  BY <1>2 DEF Works, Changes
<1>6. CallsInv'
  BY <1>2, <1>3, <1>4, <1>5 DEF CallsInv
<1>7. Shapes'
  BY <1>1 DEF SkillsInv, Shapes, Absent
<1>8. InstalledWhole'
  <2> SUFFICES ASSUME NEW d \in Dirs
               PROVE  /\ owned'[d] = "gone" => disk[d] = Absent /\ d \notin store.skills
                      /\ owned'[d] \in Names =>
                           /\ \E s \in Snapshots : s[1] = owned'[d] /\ d \in DOMAIN Archive[s] /\ disk[d] = Copy(s, d)
                           /\ d \in store.skills
    BY <1>1 DEF InstalledWhole
  <2>1. CASE owned'[d] = owned[d]
    BY <2>1 DEF SkillsInv, InstalledWhole
  <2>2. CASE owned'[d] = "unknown"
    BY <2>2, NamesAssumption
  <2> QED BY <1>1, <2>1, <2>2
<1>9. PageTellsDisk'
  BY <1>1 DEF PageTellsDisk
<1> QED BY <1>6, <1>7, <1>8, <1>9 DEF SkillsInv

-----------------------------------------------------------------------------

\* Every step of every call keeps the invariant.
LEMMA SkillsInvariant == Spec => []SkillsInv
<1>1. Init => SkillsInv
  <2> SUFFICES ASSUME Init PROVE SkillsInv
    OBVIOUS
  <2>1. Kept(Idle) /\ IsCall(Idle) /\ Idle.op = None /\ Idle.at = "start" /\ None \notin Changes \cup {"list"}
    BY IdleCall
  <2>2. \A c \in Slots : call[c] = Idle
    BY DEF Init
  <2>3. StoreInv
    BY <2>1 DEF Init, StoreInv
  <2>4. Shapes
    BY DEF Init, Shapes, Absent
  <2>5. Works(Idle, disk, store.skills, shown)
    BY <2>1 DEF Works, Changes
  <2>6. ~Disturbs(Idle, Idle)
    BY <2>1, WhoDisturbs
  <2>7. CallsInv
    BY <2>1, <2>2, <2>5, <2>6 DEF CallsInv
  <2>8. InstalledWhole
    BY NamesAssumption DEF Init, InstalledWhole
  <2>9. PageTellsDisk
    BY DEF Init, PageTellsDisk
  <2> QED BY <2>3, <2>4, <2>7, <2>8, <2>9 DEF SkillsInv
<1>2. SkillsInv /\ [Next]_vars => SkillsInv'
  <2> SUFFICES ASSUME SkillsInv, [Next]_vars PROVE SkillsInv'
    OBVIOUS
  <2>1. StoreInv'
    BY StoreStep DEF SkillsInv
  <2>2. CASE Restart
    BY <2>1, <2>2, RestartKeeps
  <2>3. ASSUME NEW c \in Slots, Service(c) PROVE SkillsInv'
    BY <2>1, <2>3, LoadStep, FetchStep, FetchFailsStep, MergeStep, RemoveStep, RemoveFailsStep, CopyStep,
       OpenStep, RenameStep, SaveFailsStep, ListReposStep DEF Service
  <2>4. ASSUME NEW c \in Slots, Page(c) PROVE SkillsInv'
    <3>1. CASE \E r \in Slots : Refresh(c, r)
      BY <2>1, <3>1, RefreshStep
    <3>2. CASE HandleInstall(c)
      <4>1. PICK d \in DOMAIN shown : Press(c, Call("install", d, shown[d].repo))
        BY <3>2 DEF HandleInstall
      <4>2. "install" \in Changes
        BY DEF Changes
      <4> QED BY <2>1, <4>1, <4>2, PressStep
    <3>3. CASE HandleUninstall(c)
      <4>1. PICK d \in DOMAIN shown : Press(c, Call("uninstall", d, shown[d].repo))
        BY <3>3 DEF HandleUninstall
      <4>2. "uninstall" \in Changes
        BY DEF Changes
      <4> QED BY <2>1, <4>1, <4>2, PressStep
    <3>4. CASE SubmitRepo(c) \/ RemoveRepo(c)
      <4>1. PICK op, e : op \in RepoEdits /\ EditRepos(c, op, e)
        BY <3>4 DEF SubmitRepo, RemoveRepo, RepoEdits
      <4> QED BY <2>1, <4>1, EditReposStep
    <3>5. CASE EndChange(c)
      BY <2>1, <3>5, EndChangeStep
    <3>6. CASE EndList(c)
      BY <2>1, <3>6, EndListStep
    <3>7. CASE EndRepos(c) \/ EndRepoEdit(c)
      BY <2>1, <3>7, EndReposStep
    <3> QED BY <2>4, <3>1, <3>2, <3>3, <3>4, <3>5, <3>6, <3>7 DEF Page
  <2>5. CASE UNCHANGED vars
    BY <2>1, <2>5 DEF vars, page, ghosts, SkillsInv, Shapes, CallsInv, InstalledWhole, PageTellsDisk
  <2> QED BY <2>2, <2>3, <2>4, <2>5 DEF Next
<1> QED BY <1>1, <1>2, PTL DEF Spec

\* What was last installed by a call that succeeded and that no other on the directory
\* overlapped is there as in one snapshot, with no file of another copy, and is recorded,
\* whatever else was installed, removed, listed or lost since, for any number of them.
THEOREM InstalledWholeHolds == Spec => []InstalledWhole
<1>1. SkillsInv => InstalledWhole
  BY DEF SkillsInv
<1> QED BY <1>1, SkillsInvariant, PTL

\* After a list or a change that nothing disturbed the page shows what is on disk until the
\* next change of the directory, for any number of calls that overlap and in any order of
\* their answers.
THEOREM PageTellsDiskHolds == Spec => []PageTellsDisk
<1>1. SkillsInv => PageTellsDisk
  BY DEF SkillsInv
<1> QED BY <1>1, SkillsInvariant, PTL

-----------------------------------------------------------------------------
(* The types.  What is at stake is the list of repositories: no edit lists *)
(* one twice, or leaves none, and every list that is shown is such a one.  *)

LEMMA AllNumbers ==
  ASSUME NEW P, 0 \in P, \A n \in Nat : n \in P => n + 1 \in P
  PROVE  Nat \subseteq P
<1> DEFINE S == Nat \ P
           R == {ss \in Nat \X Nat : ss[1] < ss[2]}
<1>1. SUFFICES ASSUME S # {} PROVE FALSE
  OBVIOUS
<1>2. IsWellFoundedOn(R, Nat)
  BY NatLessThanWellFounded DEF OpToRel
<1>3. PICK x \in S : \A y \in S : ~(<<y, x>> \in R)
  <2>1. S \in SUBSET Nat
    OBVIOUS
  <2> HIDE DEF R, S
  <2> QED BY <1>1, <1>2, <2>1, WFMin
<1>4. x \in Nat /\ x # 0 /\ x - 1 \in Nat /\ x - 1 < x
  OBVIOUS
<1>5. x - 1 \in P
  <2>1. x - 1 \in S => <<x - 1, x>> \in R
    BY <1>4
  <2> QED BY <1>3, <1>4, <2>1
<1> QED
  BY <1>4, <1>5

\* Repositories, none of them twice.
Repos(l) ==
  /\ l \in Seq(Entries)
  /\ \A i, j \in DOMAIN l : l[i].name = l[j].name => i = j

LEMMA DefaultRepos == Repos(Defaults) /\ Defaults # <<>>
<1>1. ToSet(Defaults) \subseteq Entries
  BY DEF Entries
<1> QED BY <1>1, RepoAssumption DEF Repos

LEMMA AddedRepos ==
  ASSUME NEW l, Repos(l), NEW e \in Entries
  PROVE  Repos(Added(l, e)) /\ Added(l, e) # <<>>
<1>1. l \in Seq(Entries) /\ \A i, j \in DOMAIN l : l[i].name = l[j].name => i = j
  BY DEF Repos
<1>2. CASE \E i \in DOMAIN l : l[i].name = e.name
  <2> DEFINE m == [i \in DOMAIN l |-> IF l[i].name = e.name THEN e ELSE l[i]]
  <2>1. Added(l, e) = m
    BY <1>2 DEF Added
  <2>2. m \in Seq(Entries) /\ m # <<>>
    BY <1>1, <1>2
  <2>3. DOMAIN m = DOMAIN l /\ \A i \in DOMAIN l : m[i].name = l[i].name
    OBVIOUS
  <2> HIDE DEF m
  <2> QED BY <1>1, <2>1, <2>2, <2>3 DEF Repos
<1>3. CASE ~\E i \in DOMAIN l : l[i].name = e.name
  <2> DEFINE m == Append(l, e)
  <2>1. Added(l, e) = m
    BY <1>3 DEF Added
  <2>2. /\ m \in Seq(Entries) /\ m # <<>> /\ Len(l) \in Nat
        /\ \A i \in DOMAIN m : (i \in DOMAIN l /\ m[i] = l[i]) \/ (i = Len(l) + 1 /\ m[i] = e)
    BY <1>1
  <2> HIDE DEF m
  <2> QED BY <1>1, <1>3, <2>1, <2>2 DEF Repos
<1> QED BY <1>2, <1>3

\* What is filtered out of a list is a part of it in the same order: by the number of its
\* entries that were looked at.
LEMMA WithoutRepos ==
  ASSUME NEW l, Repos(l), NEW e
  PROVE  Repos(Without(l, e)) /\ Without(l, e) # <<>>
<1> DEFINE filtered == CHOOSE f : f = [n \in 0..Len(l) |->
             IF n = 0 THEN <<>> ELSE IF l[n].name = e.name THEN f[n - 1] ELSE Append(f[n - 1], l[n])]
<1>1. Without(l, e) = IF filtered[Len(l)] = <<>> THEN Defaults ELSE filtered[Len(l)]
  BY DEF Without
<1>2. l \in Seq(Entries) /\ Len(l) \in Nat /\ \A i, j \in DOMAIN l : l[i].name = l[j].name => i = j
  BY DEF Repos
<1> DEFINE step(m, n) == IF l[n].name = e.name THEN m ELSE Append(m, l[n])
           goes(f, k) == /\ f = [n \in 0..k |-> f[n]] /\ DOMAIN f = 0..k /\ f[0] = <<>>
                         /\ \A n \in 1..k : f[n] = step(f[n - 1], n)
           some == {k \in Nat : \E f : goes(f, k)}
<1>3. \E f : goes(f, Len(l))
  <2>1. 0 \in some
    <3> DEFINE f == [n \in 0..0 |-> <<>>]
    <3>1. goes(f, 0)
      OBVIOUS
    <3> HIDE DEF goes
    <3> QED BY <3>1
  <2>2. ASSUME NEW k \in Nat, k \in some PROVE k + 1 \in some
    <3>1. PICK f : goes(f, k)
      BY <2>2
    <3> HIDE DEF step
    <3> DEFINE g == [n \in 0..(k + 1) |-> IF n = k + 1 THEN step(f[k], n) ELSE f[n]]
    <3>2. DOMAIN g = 0..(k + 1) /\ g[0] = <<>>
      BY <3>1
    <3>3. ASSUME NEW n \in 1..(k + 1) PROVE g[n] = step(g[n - 1], n)
      <4>1. n - 1 \in 0..k /\ g[n - 1] = f[n - 1]
        OBVIOUS
      <4>2. CASE n = k + 1
        <5>1. n - 1 = k /\ g[n] = step(f[k], n)
          BY <4>2
        <5> QED BY <4>1, <5>1
      <4>3. CASE n # k + 1
        <5>1. n \in 1..k /\ g[n] = f[n]
          BY <4>3
        <5> QED BY <3>1, <4>1, <5>1
      <4> QED BY <4>2, <4>3
    <3>4. goes(g, k + 1)
      BY <3>2, <3>3
    <3> HIDE DEF goes
    <3> QED BY <3>4
  <2> HIDE DEF some
  <2>3. Nat \subseteq some
    BY <2>1, <2>2, AllNumbers
  <2> QED BY <1>2, <2>3 DEF some
<1>4. goes(filtered, Len(l))
  <2> DEFINE loop(f) == [n \in 0..Len(l) |->
               IF n = 0 THEN <<>> ELSE IF l[n].name = e.name THEN f[n - 1] ELSE Append(f[n - 1], l[n])]
  <2>1. PICK f : goes(f, Len(l))
    BY <1>3
  <2>2. f = loop(f)
    <3>1. DOMAIN f = DOMAIN loop(f)
      BY <2>1
    <3>2. ASSUME NEW n \in 0..Len(l) PROVE f[n] = loop(f)[n]
      <4>1. n = 0 \/ n \in 1..Len(l)
        BY <1>2
      <4> QED BY <1>2, <2>1, <4>1
    <3>3. f = [n \in 0..Len(l) |-> f[n]]
      BY <2>1
    <3> QED BY <3>1, <3>2, <3>3
  <2>3. filtered = loop(filtered)
    BY <2>2
  <2> HIDE DEF filtered
  <2>4. DOMAIN filtered = 0..Len(l) /\ filtered = [n \in 0..Len(l) |-> filtered[n]]
    BY <2>3
  <2>5. filtered[0] = <<>>
    BY <1>2, <2>3
  <2>6. ASSUME NEW n \in 1..Len(l) PROVE filtered[n] = step(filtered[n - 1], n)
    <3>1. n \in 0..Len(l) /\ n # 0
      BY <1>2
    <3> QED BY <2>3, <3>1
  <2> QED BY <2>4, <2>5, <2>6
<1> HIDE DEF filtered
\* Of the first n entries: every one is some entry among them, and they are in order.
<1> DEFINE part(n, m) ==
             /\ m \in Seq(Entries)
             /\ \A i \in DOMAIN m : \E j \in 1..n : m[i] = l[j]
             /\ \A i, j \in DOMAIN m : m[i].name = m[j].name => i = j
           good == {n \in Nat : n <= Len(l) => part(n, filtered[n])}
<1>5. 0 \in good
  <2>1. part(0, <<>>)
    OBVIOUS
  <2> QED BY <1>4, <2>1
<1>6. ASSUME NEW n \in Nat, n \in good PROVE n + 1 \in good
  <2> SUFFICES ASSUME n + 1 <= Len(l) PROVE part(n + 1, filtered[n + 1])
    OBVIOUS
  <2> DEFINE old == filtered[n]
             x == l[n + 1]
  <2>1. /\ old \in Seq(Entries)
        /\ \A i \in DOMAIN old : \E j \in 1..n : old[i] = l[j]
        /\ \A i, j \in DOMAIN old : old[i].name = old[j].name => i = j
    BY <1>2, <1>6
  <2>2. filtered[n + 1] = IF x.name = e.name THEN old ELSE Append(old, x)
    <3>1. n + 1 \in 1..Len(l) /\ (n + 1) - 1 = n
      BY <1>2
    <3> QED BY <1>4, <3>1
  <2>3. x \in Entries /\ n + 1 \in DOMAIN l /\ \A j \in 1..n : j \in DOMAIN l /\ j # n + 1
    BY <1>2
  <2>4. \A i \in DOMAIN old : old[i].name # x.name
    BY <1>2, <2>1, <2>3
  <2> HIDE DEF old, x
  <2>5. part(n + 1, old)
    BY <2>1
  <2>6. part(n + 1, Append(old, x))
    <3> DEFINE m == Append(old, x)
    <3>1. /\ m \in Seq(Entries) /\ Len(old) \in Nat
          /\ \A i \in DOMAIN m : (i \in DOMAIN old /\ m[i] = old[i]) \/ (i = Len(old) + 1 /\ m[i] = x)
      BY <2>1, <2>3
    <3> HIDE DEF m
    <3>2. \A i \in DOMAIN m : \E j \in 1..(n + 1) : m[i] = l[j]
      BY <2>1, <3>1 DEF x
    <3>3. \A i, j \in DOMAIN m : m[i].name = m[j].name => i = j
      BY <2>1, <2>4, <3>1
    <3> QED BY <3>1, <3>2, <3>3 DEF m
  <2> QED BY <2>2, <2>5, <2>6
<1>7. Nat \subseteq good
  <2> HIDE DEF good
  <2> QED BY <1>5, <1>6, AllNumbers
<1>8. Repos(filtered[Len(l)])
  BY <1>2, <1>7 DEF Repos
<1> QED BY <1>1, <1>8, DefaultRepos

GoodStore(s) ==
  /\ DOMAIN s = {"skills", "repos"} /\ s.skills \subseteq Dirs
  /\ Repos(s.repos) /\ s.repos # <<>>

\* Calls that have a store in hand.
Carries(k) == k.at = "saving" \/ (k.op \in RepoEdits /\ k.ok) \/ (k.op = "repos" /\ k.at = "done")

HasType(k) ==
  /\ k.at \in Steps /\ IsList(k.seen)
  /\ k.op = "add" => k.entry \in Entries
  /\ Carries(k) => GoodStore(k.next)

Mutex == lock \in Slots \cup {Free} /\ \A c \in Slots : lock = c <=> call[c].at = "saving"
DirsOK == \A d \in Dirs : disk[d] = Absent \/ IsDir(disk[d])
PageOK ==
  /\ IsList(shown) /\ ToSet(repoList) \subseteq Entries /\ flags \subseteq {"loading", "repoLoading", "repoBusy"}
  /\ owned \in [Dirs -> Names \cup {"gone", "unknown"}]
Counters == made \in 0..MaxCalls /\ events \in 0..MaxEvents

TypesInv ==
  GoodStore(store) /\ (\A c \in Slots : HasType(call[c])) /\ Mutex /\ DirsOK /\ PageOK /\ Counters

LEMMA EditedGood ==
  ASSUME NEW s, GoodStore(s), NEW k, k.op \in Changes \cup RepoEdits,
         k.op \in Changes => k.dir \in Dirs, k.op = "add" => k.entry \in Entries
  PROVE  GoodStore(Edited(s, k))
<1>1. DOMAIN s = {"skills", "repos"} /\ s.skills \subseteq Dirs /\ Repos(s.repos) /\ s.repos # <<>>
  BY DEF GoodStore
<1>2. CASE k.op = "install"
  BY <1>1, <1>2 DEF GoodStore, Edited, Changes
<1>3. CASE k.op = "uninstall"
  BY <1>1, <1>3 DEF GoodStore, Edited, Changes
<1>4. CASE k.op = "add"
  <2>1. Edited(s, k) = [s EXCEPT !.repos = Added(s.repos, k.entry)]
    BY <1>4 DEF Edited
  <2>2. Repos(Added(s.repos, k.entry)) /\ Added(s.repos, k.entry) # <<>>
    BY <1>1, <1>4, AddedRepos
  <2> QED BY <1>1, <2>1, <2>2 DEF GoodStore
<1>5. CASE k.op = "remove"
  <2>1. Edited(s, k) = [s EXCEPT !.repos = Without(s.repos, k.entry)]
    BY <1>5 DEF Edited
  <2>2. Repos(Without(s.repos, k.entry)) /\ Without(s.repos, k.entry) # <<>>
    BY <1>1, WithoutRepos
  <2> QED BY <1>1, <2>1, <2>2 DEF GoodStore
<1> QED BY <1>2, <1>3, <1>4, <1>5 DEF Changes, RepoEdits

LEMMA EventTypes ==
  ASSUME Counters, Event \/ events' = events, made' = made
  PROVE  Counters'
BY BoundsAssumption DEF Counters, Event

LEMMA MergedList ==
  ASSUME NEW l, IsList(l), NEW m, IsList(m)
  PROVE  IsList(Merged(l, m))
BY DEF IsList, Merged

\* One call goes on, and takes, keeps or frees the mutex.
LEMMA TurnTypes ==
  ASSUME SkillsInv, TypesInv, NEW c \in Slots, NEW m, IsCall(m), Becomes(c, m), HasType(m),
         lock' = lock \/ (lock' = Free /\ lock = c) \/ (lock' = c /\ lock = Free),
         lock' = c <=> m.at = "saving",
         GoodStore(store'), DirsOK', PageOK', Counters'
  PROVE  TypesInv'
<1>1. call'[c] = m /\ \A b \in Slots \ {c} : call'[b] = call[b]
  BY BecomesEffect DEF SkillsInv
<1>2. \A b \in Slots : b # Free
  BY DEF Slots, Free
<1>3. Mutex'
  BY <1>1, <1>2 DEF TypesInv, Mutex
<1> QED BY <1>1, <1>3 DEF TypesInv

\* A step of the service that keeps the mutex, or does not have it.
LEMMA WorkTypes ==
  ASSUME SkillsInv, TypesInv, NEW c \in Slots, NEW m, IsCall(m), Becomes(c, m), HasType(m),
         call[c].at # "saving", m.at # "saving", DirsOK',
         UNCHANGED <<store, lock, shown, repoList, flags, owned, made>>, Event \/ events' = events
  PROVE  TypesInv'
<1>1. lock' # c
  BY DEF TypesInv, Mutex
<1>2. GoodStore(store') /\ PageOK' /\ Counters'
  BY EventTypes DEF TypesInv, PageOK
<1> QED BY <1>1, <1>2, TurnTypes

LEMMA NextRepoType ==
  ASSUME NEW k, IsCall(k), HasType(k), k.op \in {"install", "list"}
  PROVE  IsCall(NextRepo(k)) /\ HasType(NextRepo(k)) /\ NextRepo(k).at # "saving"
<1> DEFINE n == NextRepo(k)
<1>1. n.op = k.op /\ n.seen = k.seen /\ n.at \in {"fetch", "merge", "done"} /\ IsCall(n)
  BY NextRepoEffect, FieldNames DEF NextRepo, IsCall
<1> HIDE DEF n
<1>2. HasType(n)
  BY <1>1 DEF HasType, Carries, Steps, RepoEdits
<1> QED BY <1>1, <1>2 DEF n

\* Where the code goes on to another step and changes what has no type of its own.
LEMMA StepType ==
  ASSUME NEW k, HasType(k), NEW m, m.op = k.op, m.entry = k.entry, m.seen = k.seen,
         m.at \in Steps \ {"saving"}, m.op \notin RepoEdits \cup {"repos"}
  PROVE  HasType(m)
BY DEF HasType, Carries

LEMMA ServiceTypes ==
  ASSUME SkillsInv, TypesInv, NEW c \in Slots,
         LoadStore(c) \/ Fetch(c) \/ FetchFails(c) \/ MergeLocalSkills(c) \/ ListRepos(c)
  PROVE  TypesInv'
<1> DEFINE k == call[c]
<1>1. IsCall(k) /\ HasType(k) /\ Kept(k)
  BY OfCall DEF TypesInv
<1>2. UNCHANGED <<store, disk, lock, shown, repoList, flags, owned, made>> /\ (Event \/ events' = events)
  BY DEF LoadStore, Fetch, FetchFails, MergeLocalSkills, ListRepos, page, ghosts
<1>3. DirsOK'
  BY <1>2 DEF TypesInv, DirsOK
<1>4. {"fetch", "remove", "copy", "done", "merge"} \subseteq Steps \ {"saving"}
      /\ {"install", "list"} \cap (RepoEdits \cup {"repos"}) = {}
  BY DEF Steps, RepoEdits
<1>5. CASE LoadStore(c)
  <2> DEFINE asked == {i \in 1..Len(store.repos) : k.op = "install" => store.repos[i].name = k.entry}
             m == [k EXCEPT !.todo = [i \in asked |-> store.repos[i]],
                            !.at = IF asked = {} THEN "done" ELSE "fetch"]
  <2>1. Becomes(c, m) /\ k.op \in {"install", "list"} /\ k.at = "start"
    BY <1>5 DEF LoadStore, At
  <2>2. IsCall(m) /\ m.op = k.op /\ m.entry = k.entry /\ m.seen = k.seen /\ m.at \in {"done", "fetch"}
    BY <1>1, FieldNames DEF IsCall
  <2> HIDE DEF m
  <2>3. HasType(m)
    BY <1>1, <1>4, <2>1, <2>2, StepType
  <2> QED BY <1>2, <1>3, <2>1, <2>2, <2>3, WorkTypes
<1>6. CASE Fetch(c) \/ FetchFails(c)
  <2>1. k.op \in {"install", "list"} /\ k.at = "fetch"
    BY <1>6 DEF Fetch, FetchFails, At
  <2>2. \/ Becomes(c, NextRepo(k))
        \/ \E s \in Snapshots :
             \/ Becomes(c, NextRepo([k EXCEPT !.seen = Merged(k.seen,
                                      [d \in DOMAIN Archive[s] |-> Card(s[1], disk[d] # Absent)])])) /\ k.op = "list"
             \/ Becomes(c, [k EXCEPT !.src = s, !.at = "remove"])
    BY <1>6 DEF Fetch, FetchFails
  <2>3. CASE Becomes(c, NextRepo(k))
    BY <1>1, <1>2, <1>3, <2>1, <2>3, NextRepoType, WorkTypes
  <2>4. ASSUME NEW s \in Snapshots,
               Becomes(c, NextRepo([k EXCEPT !.seen = Merged(k.seen,
                                      [d \in DOMAIN Archive[s] |-> Card(s[1], disk[d] # Absent)])])),
               k.op = "list"
        PROVE  TypesInv'
    <3> DEFINE found == [d \in DOMAIN Archive[s] |-> Card(s[1], disk[d] # Absent)]
               m == [k EXCEPT !.seen = Merged(k.seen, found)]
    <3>1. IsList(found)
      <4>1. s[1] \in Names /\ DOMAIN Archive[s] \subseteq Dirs
        BY RepoAssumption
      <4> QED BY <4>1 DEF IsList, Card, Cards
    <3> HIDE DEF found
    <3>2. IsList(Merged(k.seen, found))
      BY <1>1, <3>1, MergedList DEF HasType
    <3>3. IsCall(m) /\ m.op = k.op /\ m.entry = k.entry /\ m.at = k.at /\ m.seen = Merged(k.seen, found)
      BY <1>1, FieldNames DEF IsCall
    <3>4. Becomes(c, NextRepo(m))
      BY <2>4 DEF found
    <3> HIDE DEF m
    <3>5. HasType(m)
      BY <1>1, <2>1, <2>4, <3>2, <3>3 DEF HasType, Carries, RepoEdits
    <3>6. IsCall(NextRepo(m)) /\ HasType(NextRepo(m)) /\ NextRepo(m).at # "saving"
      BY <2>4, <3>3, <3>5, NextRepoType
    <3> QED BY <1>2, <1>3, <2>1, <3>4, <3>6, WorkTypes
  <2>5. ASSUME NEW s \in Snapshots, Becomes(c, [k EXCEPT !.src = s, !.at = "remove"])
        PROVE  TypesInv'
    <3> DEFINE m == [k EXCEPT !.src = s, !.at = "remove"]
    <3>1. IsCall(m) /\ m.op = k.op /\ m.entry = k.entry /\ m.seen = k.seen /\ m.at = "remove"
      BY <1>1, FieldNames DEF IsCall
    <3>2. Becomes(c, m)
      BY <2>5
    <3> HIDE DEF m
    <3>3. HasType(m)
      BY <1>1, <1>4, <2>1, <3>1, StepType
    <3> QED BY <1>2, <1>3, <2>1, <3>1, <3>2, <3>3, WorkTypes
  <2> QED BY <2>2, <2>3, <2>4, <2>5
<1>7. CASE MergeLocalSkills(c)
  <2> DEFINE there == {d \in Dirs : disk[d] # Absent}
             found == [d \in there |-> Card(IF d \in DOMAIN k.seen THEN k.seen[d].repo ELSE None, TRUE)]
             m == [k EXCEPT !.seen = Merged(found, k.seen), !.at = "done", !.ok = TRUE]
  <2>1. Becomes(c, m) /\ k.op = "list" /\ k.at = "merge"
    BY <1>7 DEF MergeLocalSkills, At
  <2>2. IsList(found)
    <3>1. ASSUME NEW d \in DOMAIN k.seen PROVE k.seen[d].repo \in Names \cup {None}
      BY <1>1 DEF HasType, IsList, Cards
    <3> QED BY <3>1 DEF IsList, Card, Cards
  <2> HIDE DEF found
  <2>3. IsList(Merged(found, k.seen))
    BY <1>1, <2>2, MergedList DEF HasType
  <2>4. IsCall(m) /\ m.op = k.op /\ m.entry = k.entry /\ m.seen = Merged(found, k.seen) /\ m.at = "done"
    BY <1>1, FieldNames DEF IsCall
  <2> HIDE DEF m
  <2>5. HasType(m)
    BY <1>1, <2>1, <2>3, <2>4 DEF HasType, Carries, RepoEdits, Steps
  <2> QED BY <1>2, <1>3, <2>1, <2>4, <2>5, WorkTypes
<1>8. CASE ListRepos(c)
  <2> DEFINE m == [k EXCEPT !.next = store, !.at = "done", !.ok = TRUE]
  <2>1. Becomes(c, m) /\ k.op = "repos" /\ k.at = "start"
    BY <1>8 DEF ListRepos, At
  <2>2. IsCall(m) /\ m.op = k.op /\ m.entry = k.entry /\ m.seen = k.seen /\ m.at = "done" /\ m.next = store
    BY <1>1, FieldNames DEF IsCall
  <2> HIDE DEF m
  <2>3. HasType(m)
    BY <1>1, <2>1, <2>2 DEF HasType, Carries, RepoEdits, Steps, TypesInv
  <2> QED BY <1>2, <1>3, <2>1, <2>2, <2>3, WorkTypes
<1> QED BY <1>5, <1>6, <1>7, <1>8

\* What is removed, or copied from a snapshot, leaves directories.
LEMMA DiskTypes ==
  ASSUME SkillsInv, TypesInv, NEW c \in Slots, RemoveTarget(c) \/ RemoveFails(c) \/ CopyFile(c)
  PROVE  TypesInv'
<1> DEFINE k == call[c]
<1>1. IsCall(k) /\ HasType(k) /\ Kept(k)
  BY OfCall DEF TypesInv
<1>2. /\ UNCHANGED <<store, lock, shown, repoList, flags, owned, made>> /\ (Event \/ events' = events)
      /\ k.op \in Changes /\ k.at \in {"start", "remove", "copy"}
  BY DEF RemoveTarget, RemoveFails, CopyFile, page, ghosts, At, Changes
<1>3. k.dir \in Dirs /\ DOMAIN disk = Dirs /\ k.op \notin RepoEdits \cup {"repos"} /\ k.op \in {"install", "uninstall"}
  BY <1>1, <1>2 DEF Kept, SkillsInv, Shapes, Changes, RepoEdits
<1>4. \E f : (f = Absent \/ IsDir(f)) /\ disk' = [disk EXCEPT ![k.dir] = f]
  <2>1. disk[k.dir] = Absent \/ IsDir(disk[k.dir])
    BY <1>3 DEF TypesInv, DirsOK
  <2>2. CASE RemoveTarget(c)
    BY <2>2 DEF RemoveTarget
  <2>3. CASE RemoveFails(c)
    <3>1. PICK left \in SUBSET DOMAIN disk[k.dir] : disk' = [disk EXCEPT ![k.dir] = [f \in left |-> disk[k.dir][f]]]
      BY <2>3 DEF RemoveFails
    <3>2. IsDir(disk[k.dir])
      BY <2>1, <2>3 DEF RemoveFails
    <3>3. IsDir([f \in left |-> disk[k.dir][f]])
      BY <3>2 DEF IsDir
    <3> QED BY <3>1, <3>3
  <2>4. CASE CopyFile(c)
    <3>1. PICK f, s : disk' = [disk EXCEPT ![k.dir] = Put(disk[k.dir], f, s)] /\ s \in {k.src, Cut}
      BY <2>4 DEF CopyFile
    <3>2. k.src \in Snapshots
      BY <1>1, <2>4 DEF CopyFile, At, Kept
    <3>3. DOMAIN Absent = {}
      BY DEF Absent
    <3>4. IsDir(Put(disk[k.dir], f, s))
      BY <2>1, <3>1, <3>2, <3>3 DEF IsDir, Put
    <3> QED BY <3>1, <3>4
  <2> QED BY <2>2, <2>3, <2>4
<1>5. DirsOK'
  BY <1>3, <1>4 DEF TypesInv, DirsOK
<1>6. \E m : IsCall(m) /\ HasType(m) /\ m.at # "saving" /\ Becomes(c, m)
  <2>1. \/ Becomes(c, NextRepo(k)) /\ k.op = "install"
        \/ \E step \in {"copy", "record"} : Becomes(c, [k EXCEPT !.at = step])
        \/ Becomes(c, [k EXCEPT !.at = "done", !.ok = FALSE])
        \/ \E n, step : step \in {"copy", "record"} /\ Becomes(c, [k EXCEPT !.copied = n, !.at = step])
    <3>1. CASE RemoveTarget(c)
      BY <3>1 DEF RemoveTarget, Goes
    <3>2. CASE RemoveFails(c)
      BY <3>2 DEF RemoveFails, Ends, At
    <3>3. CASE CopyFile(c)
      <4>1. \/ Becomes(c, NextRepo(k)) /\ k.op = "install"
            \/ \E n : Becomes(c, [k EXCEPT !.copied = k.copied + 1, !.at = IF k.copied + 1 = n THEN "record" ELSE k.at])
        BY <3>3 DEF CopyFile, At
      <4>2. k.at = "copy"
        BY <3>3 DEF CopyFile, At
      <4>3. ASSUME NEW n PROVE (IF k.copied + 1 = n THEN "record" ELSE k.at) \in {"copy", "record"}
        BY <4>2
      <4> QED BY <4>1, <4>3
    <3> QED BY <3>1, <3>2, <3>3
  <2>2. CASE Becomes(c, NextRepo(k)) /\ k.op = "install"
    BY <1>1, <2>2, NextRepoType
  <2>3. {"copy", "record", "done"} \subseteq Steps \ {"saving"}
    BY DEF Steps
  <2>4. ASSUME NEW step \in {"copy", "record"}, Becomes(c, [k EXCEPT !.at = step])
        PROVE  \E m : IsCall(m) /\ HasType(m) /\ m.at # "saving" /\ Becomes(c, m)
    <3> DEFINE m == [k EXCEPT !.at = step]
    <3>1. IsCall(m) /\ m.op = k.op /\ m.entry = k.entry /\ m.seen = k.seen /\ m.at = step
      BY <1>1, FieldNames DEF IsCall
    <3>2. Becomes(c, m)
      BY <2>4
    <3> HIDE DEF m
    <3>3. HasType(m)
      BY <1>1, <1>3, <2>3, <3>1, StepType
    <3> QED BY <2>3, <3>1, <3>2, <3>3
  <2>5. ASSUME Becomes(c, [k EXCEPT !.at = "done", !.ok = FALSE])
        PROVE  \E m : IsCall(m) /\ HasType(m) /\ m.at # "saving" /\ Becomes(c, m)
    <3> DEFINE m == [k EXCEPT !.at = "done", !.ok = FALSE]
    <3>1. IsCall(m) /\ m.op = k.op /\ m.entry = k.entry /\ m.seen = k.seen /\ m.at = "done"
      BY <1>1, FieldNames DEF IsCall
    <3>2. Becomes(c, m)
      BY <2>5
    <3> HIDE DEF m
    <3>3. HasType(m)
      BY <1>1, <1>3, <2>3, <3>1, StepType
    <3> QED BY <2>3, <3>1, <3>2, <3>3
  <2>6. ASSUME NEW n, NEW step \in {"copy", "record"}, Becomes(c, [k EXCEPT !.copied = n, !.at = step])
        PROVE  \E m : IsCall(m) /\ HasType(m) /\ m.at # "saving" /\ Becomes(c, m)
    <3> DEFINE m == [k EXCEPT !.copied = n, !.at = step]
    <3>1. IsCall(m) /\ m.op = k.op /\ m.entry = k.entry /\ m.seen = k.seen /\ m.at = step
      BY <1>1, FieldNames DEF IsCall
    <3>2. Becomes(c, m)
      BY <2>6
    <3> HIDE DEF m
    <3>3. HasType(m)
      BY <1>1, <1>3, <2>3, <3>1, StepType
    <3> QED BY <2>3, <3>1, <3>2, <3>3
  <2> QED BY <2>1, <2>2, <2>4, <2>5, <2>6
<1>7. k.at # "saving"
  BY <1>2
<1> QED BY <1>2, <1>5, <1>6, <1>7, WorkTypes

\* The mutex is taken, the store edited, and the mutex freed, by the rename or an error.
LEMMA SavingTypes ==
  ASSUME SkillsInv, TypesInv, NEW c \in Slots, OpenStore(c) \/ RenameStore(c) \/ SaveFails(c)
  PROVE  TypesInv'
<1> DEFINE k == call[c]
<1>1. IsCall(k) /\ HasType(k) /\ Kept(k)
  BY OfCall DEF TypesInv
<1>2. /\ UNCHANGED <<disk, shown, repoList, flags, owned, made>> /\ (Event \/ events' = events)
      /\ k.op \in Changes \cup RepoEdits
  BY DEF OpenStore, RenameStore, SaveFails, page, ghosts, At
<1>3. DirsOK' /\ PageOK' /\ Counters'
  BY <1>2, EventTypes DEF TypesInv, DirsOK, PageOK
<1>4. c # Free
  BY DEF Slots, Free
<1>5. CASE OpenStore(c)
  <2> DEFINE new == Edited(store, k)
             m == [k EXCEPT !.next = new, !.at = "saving"]
  <2>1. Becomes(c, m) /\ lock = Free /\ lock' = c /\ store' = store
    BY <1>5 DEF OpenStore
  <2>2. GoodStore(new)
    BY <1>1, <1>2, EditedGood DEF TypesInv, HasType, Kept
  <2> HIDE DEF new
  <2>3. IsCall(m) /\ m.op = k.op /\ m.entry = k.entry /\ m.seen = k.seen /\ m.at = "saving" /\ m.next = new
    BY <1>1, FieldNames DEF IsCall
  <2> HIDE DEF m
  <2>4. HasType(m)
    BY <1>1, <2>2, <2>3 DEF HasType, Steps
  <2>5. GoodStore(store')
    BY <2>1 DEF TypesInv
  <2> QED BY <1>3, <2>1, <2>3, <2>4, <2>5, TurnTypes
<1>6. CASE RenameStore(c)
  <2> DEFINE m == [k EXCEPT !.at = "done", !.ok = TRUE]
  <2>1. Becomes(c, m) /\ lock' = Free /\ store' = k.next /\ k.at = "saving"
    BY <1>6 DEF RenameStore, Ends, At
  <2>2. lock = c /\ GoodStore(k.next)
    BY <1>1, <2>1 DEF TypesInv, Mutex, HasType, Carries
  <2>3. IsCall(m) /\ m.op = k.op /\ m.entry = k.entry /\ m.seen = k.seen /\ m.at = "done" /\ m.next = k.next
    BY <1>1, FieldNames DEF IsCall
  <2> HIDE DEF m
  <2>4. HasType(m)
    BY <1>1, <2>2, <2>3 DEF HasType, Steps
  <2> QED BY <1>3, <1>4, <2>1, <2>2, <2>3, <2>4, TurnTypes
<1>7. CASE SaveFails(c)
  <2> DEFINE m == IF k.op = "install" THEN NextRepo(k) ELSE [k EXCEPT !.at = "done", !.ok = FALSE]
  <2>1. Becomes(c, m) /\ lock' = Free /\ store' = store /\ k.at = "saving"
    BY <1>7 DEF SaveFails, Ends, At
  <2>2. lock = c
    BY <2>1 DEF TypesInv, Mutex
  <2>3. IsCall(m) /\ HasType(m) /\ m.at # "saving"
    <3>1. CASE k.op = "install"
      BY <1>1, <3>1, NextRepoType
    <3>2. CASE k.op # "install"
      <4> DEFINE n == [k EXCEPT !.at = "done", !.ok = FALSE]
      <4>1. IsCall(n) /\ n.op = k.op /\ n.entry = k.entry /\ n.seen = k.seen /\ n.at = "done" /\ n.ok = FALSE
        BY <1>1, FieldNames DEF IsCall
      <4>2. m = n
        BY <3>2
      <4> HIDE DEF n, m
      <4>3. n.op # "repos"
        BY <1>2, <4>1 DEF Changes, RepoEdits
      <4> QED BY <1>1, <4>1, <4>2, <4>3 DEF HasType, Carries, Steps
    <3> QED BY <3>1, <3>2
  <2> HIDE DEF m
  <2>4. GoodStore(store')
    BY <2>1 DEF TypesInv
  <2> QED BY <1>3, <1>4, <2>1, <2>2, <2>3, <2>4, TurnTypes
<1> QED BY <1>5, <1>6, <1>7

-----------------------------------------------------------------------------
(* The steps of the page, for the types.                                   *)

LEMMA NewType ==
  ASSUME NEW op, NEW dir, NEW entry, op = "add" => entry \in Entries
  PROVE  HasType(Call(op, dir, entry)) /\ Call(op, dir, entry).at = "start"
<1> DEFINE k == Call(op, dir, entry)
<1>1. k.op = op /\ k.entry = entry /\ k.at = "start" /\ k.seen = Absent /\ k.ok = FALSE
  BY DEF Call
<1>2. IsList(Absent)
  BY DEF IsList, Absent
<1> HIDE DEF k
<1>3. HasType(k)
  BY <1>1, <1>2 DEF HasType, Carries, Steps
<1> QED BY <1>1, <1>3 DEF k

\* What is started, and what is marked beside it.
LEMMA NewTypes ==
  ASSUME SkillsInv, TypesInv, NEW k, IsCall(k), HasType(k), k.at = "start", NEW c \in Slots, call[c].at # "saving",
         call'[c] = Alone(call, k),
         \A b \in Slots \ {c} : call'[b] = Started(call, k)[b]
                                \/ (call'[b] = Call("repos", None, None) /\ call[b].at # "saving"),
         UNCHANGED <<store, disk, lock>>, PageOK', Counters'
  PROVE  TypesInv'
<1> DEFINE SameType(j, m) == m.op = j.op /\ m.entry = j.entry /\ m.at = j.at /\ m.seen = j.seen
                             /\ m.ok = j.ok /\ m.next = j.next
<1>1. \A j, m : SameType(j, m) /\ HasType(j) => HasType(m)
  BY DEF HasType, Carries
<1>2. SameType(k, call'[c])
  BY FieldNames DEF Alone, IsCall
<1>3. ASSUME NEW b \in Slots
      PROVE  HasType(call'[b]) /\ (call'[b].at = "saving" <=> call[b].at = "saving")
  <2>1. CASE b = c
    BY <1>1, <1>2, <2>1
  <2>2. CASE b # c /\ call'[b] = Started(call, k)[b]
    <3>1. IsCall(call[b]) /\ HasType(call[b])
      BY OfCall DEF TypesInv
    <3>2. SameType(call[b], call'[b])
      BY <2>2, <3>1, FieldNames DEF Started, IsCall
    <3> QED BY <1>1, <3>1, <3>2
  <2>3. CASE call'[b] = Call("repos", None, None) /\ call[b].at # "saving"
    BY <2>3, NewType
  <2> QED BY <2>1, <2>2, <2>3
<1>4. Mutex'
  BY <1>3 DEF TypesInv, Mutex
<1>5. DirsOK' /\ GoodStore(store')
  BY DEF TypesInv, DirsOK
<1> QED BY <1>3, <1>4, <1>5 DEF TypesInv

\* A slot that is free, or is of a call that has ended, is not saving.
LEMMA FreeSlot ==
  ASSUME NEW c, NEW t, Unused(c, t)
  PROVE  call[c].at # "saving"
BY DEF Unused, Idle, Call

LEMMA StartTypes ==
  ASSUME SkillsInv, TypesInv, NEW c \in Slots, call[c].at # "saving",
         NEW op, NEW dir, NEW entry, op = "add" => entry \in Entries,
         Start(c, Call(op, dir, entry)), UNCHANGED <<store, disk, lock>>, PageOK', Counters'
  PROVE  TypesInv'
<1> DEFINE k == Call(op, dir, entry)
<1>1. IsCall(k) /\ HasType(k) /\ k.at = "start"
  BY CallFields, NewType
<1>2. call' = [Started(call, k) EXCEPT ![c] = Alone(call, k)]
  BY DEF Start
<1> HIDE DEF k
<1>3. /\ call'[c] = Alone(call, k)
      /\ \A b \in Slots \ {c} : call'[b] = Started(call, k)[b]
  BY <1>2 DEF Started
<1> QED BY <1>1, <1>3, NewTypes

LEMMA PressTypes ==
  ASSUME SkillsInv, TypesInv, NEW c \in Slots, NEW op \in Changes, NEW d \in DOMAIN shown,
         Press(c, Call(op, d, shown[d].repo))
  PROVE  TypesInv'
<1> DEFINE k == Call(op, d, shown[d].repo)
<1>1. /\ Unused(c, {}) /\ Start(c, k) /\ made < MaxCalls /\ made' = made + 1
      /\ UNCHANGED <<store, disk, lock, shown, repoList, flags, events>>
      /\ owned' = [owned EXCEPT ![k.dir] = "unknown"]
  BY DEF Press, Begin, Unsure
<1>2. PageOK'
  BY <1>1 DEF TypesInv, PageOK
<1>3. Counters'
  BY <1>1, BoundsAssumption DEF TypesInv, Counters
<1>4. op # "add"
  BY DEF Changes
<1> QED BY <1>1, <1>2, <1>3, <1>4, FreeSlot, StartTypes

LEMMA RefreshTypes ==
  ASSUME SkillsInv, TypesInv, NEW c \in Slots, NEW r \in Slots, Refresh(c, r)
  PROVE  TypesInv'
<1> DEFINE k == Call("list", None, None)
<1>1. /\ Unused(c, {}) /\ Unused(r, {c}) /\ c # r /\ made < MaxCalls /\ made' = made + 1
      /\ call' = [Started(call, k) EXCEPT ![c] = Alone(call, k), ![r] = Call("repos", None, None)]
      /\ flags' = flags \cup {"loading", "repoLoading"}
      /\ UNCHANGED <<store, disk, lock, shown, repoList, events, owned>>
  BY DEF Refresh, ghosts
<1>2. PageOK'
  BY <1>1 DEF TypesInv, PageOK
<1>3. Counters'
  BY <1>1, BoundsAssumption DEF TypesInv, Counters
<1>4. IsCall(k) /\ HasType(k) /\ k.at = "start"
  BY CallFields, NewType
<1>5. call[c].at # "saving" /\ call[r].at # "saving"
  BY <1>1, FreeSlot
<1> HIDE DEF k
<1>6. /\ call'[c] = Alone(call, k) /\ call'[r] = Call("repos", None, None)
      /\ \A b \in Slots \ {c, r} : call'[b] = Started(call, k)[b]
  BY <1>1 DEF Started
<1>7. \A b \in Slots \ {c} :
        call'[b] = Started(call, k)[b] \/ (call'[b] = Call("repos", None, None) /\ call[b].at # "saving")
  <2> TAKE b \in Slots \ {c}
  <2>1. CASE b = r
    BY <1>5, <1>6, <2>1
  <2>2. CASE b # r
    BY <1>6, <2>2
  <2> QED BY <2>1, <2>2
<1>8. UNCHANGED <<store, disk, lock>>
  BY <1>1
<1> QED BY <1>2, <1>3, <1>4, <1>5, <1>6, <1>7, <1>8, NewTypes

LEMMA EditReposTypes ==
  ASSUME SkillsInv, TypesInv, NEW c \in Slots, NEW op \in RepoEdits, NEW e \in Entries, EditRepos(c, op, e)
  PROVE  TypesInv'
<1>1. /\ Unused(c, {}) /\ Start(c, Call(op, None, e)) /\ made < MaxCalls /\ made' = made + 1
      /\ flags' = flags \cup {"repoBusy"}
      /\ UNCHANGED <<store, disk, lock, shown, repoList, events, owned>>
  BY DEF EditRepos, Begin, ghosts
<1>2. PageOK'
  BY <1>1 DEF TypesInv, PageOK
<1>3. Counters'
  BY <1>1, BoundsAssumption DEF TypesInv, Counters
<1> QED BY <1>1, <1>2, <1>3, FreeSlot, StartTypes

\* The answers.
LEMMA EndTypes ==
  ASSUME SkillsInv, TypesInv, NEW c \in Slots, EndChange(c) \/ EndList(c) \/ EndRepos(c) \/ EndRepoEdit(c)
  PROVE  TypesInv'
<1> DEFINE k == call[c]
<1>1. IsCall(k) /\ HasType(k) /\ Kept(k)
  BY OfCall DEF TypesInv
<1>2. /\ UNCHANGED <<store, disk, lock, made, events>> /\ k.at = "done"
      /\ Over(c) \/ Start(c, Call("list", None, "repoBusy"))
  BY DEF EndChange, EndList, EndRepos, EndRepoEdit, At
<1>3. Counters' /\ DirsOK' /\ GoodStore(store')
  BY <1>2 DEF TypesInv, Counters, DirsOK
<1>4. IsList(shown')
  <2>1. IsList(shown)
    BY DEF TypesInv, PageOK
  <2>2. CASE EndChange(c)
    <3>1. shown' = [d \in DOMAIN shown |->
            IF k.ok /\ d = k.dir /\ shown[d].repo = k.entry THEN Card(k.entry, k.op = "install") ELSE shown[d]]
      BY <2>2 DEF EndChange
    <3>2. \A d \in DOMAIN shown : shown[d].repo \in Names \cup {None}
      BY <2>1 DEF IsList, Cards
    <3> QED BY <2>1, <3>1, <3>2 DEF IsList, Card, Cards
  <2>3. CASE EndList(c)
    BY <1>1, <2>1, <2>3 DEF EndList, HasType
  <2> QED BY <2>1, <2>2, <2>3 DEF EndRepos, EndRepoEdit
<1>5. ToSet(repoList') \subseteq Entries
  <2>1. ToSet(repoList) \subseteq Entries
    BY DEF TypesInv, PageOK
  <2>2. GoodStore(k.next) => ToSet(k.next.repos) \subseteq Entries
    BY DEF GoodStore, Repos, ToSet
  <2>3. CASE EndRepos(c) \/ EndRepoEdit(c)
    <3>1. repoList' = repoList \/ (repoList' = k.next.repos /\ Carries(k))
      BY <2>3 DEF EndRepos, EndRepoEdit, At, Carries
    <3> QED BY <1>1, <2>1, <2>2, <3>1 DEF HasType
  <2> QED BY <2>1, <2>3 DEF EndChange, EndList
<1>6. owned' \in [Dirs -> Names \cup {"gone", "unknown"}]
  <2>1. owned \in [Dirs -> Names \cup {"gone", "unknown"}]
    BY DEF TypesInv, PageOK
  <2>2. CASE EndChange(c)
    <3>1. /\ k.op \in Changes
          /\ \/ owned' = [owned EXCEPT ![k.dir] = IF k.op = "install" THEN k.entry ELSE "gone"] /\ k.ok
             \/ owned' = [owned EXCEPT ![k.dir] = "unknown"]
      BY <2>2 DEF EndChange, Unsure, At
    <3>2. k.op = "install" /\ k.ok => k.entry \in Names
      BY <1>1, RepoAssumption DEF Kept
    <3> QED BY <2>1, <3>1, <3>2
  <2> QED BY <2>1, <2>2 DEF EndList, EndRepos, EndRepoEdit, ghosts
<1>7. flags' \subseteq {"loading", "repoLoading", "repoBusy"}
  BY DEF TypesInv, PageOK, EndChange, EndList, EndRepos, EndRepoEdit
<1>8. PageOK'
  BY <1>4, <1>5, <1>6, <1>7 DEF PageOK
<1>9. CASE Over(c)
  <2>1. IsCall(Idle) /\ HasType(Idle) /\ Idle.at = "start"
    BY IdleCall, NewType DEF Idle, None
  <2>2. lock # c
    BY <1>2 DEF TypesInv, Mutex
  <2> QED BY <1>2, <1>3, <1>8, <1>9, <2>1, <2>2, TurnTypes DEF Over
<1>10. CASE Start(c, Call("list", None, "repoBusy"))
  BY <1>2, <1>3, <1>8, <1>10, StartTypes
<1> QED BY <1>2, <1>9, <1>10

LEMMA RestartTypes ==
  ASSUME SkillsInv, TypesInv, Restart
  PROVE  TypesInv'
<1>1. /\ Event /\ lock' = Free /\ call' = [c \in Slots |-> Idle] /\ UNCHANGED <<store, disk, made>>
      /\ shown' = Absent /\ repoList' = <<>> /\ flags' = {}
      /\ owned' = [d \in Dirs |-> IF \E c \in Running : call[c].op \in Changes /\ call[c].dir = d
                                  THEN "unknown" ELSE owned[d]]
  BY DEF Restart
<1>2. HasType(Idle) /\ Idle.at = "start"
  BY NewType DEF Idle, None
<1>3. Mutex'
  BY <1>1, <1>2 DEF Mutex, Slots, Free
<1>4. PageOK'
  BY <1>1 DEF TypesInv, PageOK, IsList, Absent, ToSet
<1>5. Counters'
  BY <1>1, EventTypes DEF TypesInv
<1> QED BY <1>1, <1>2, <1>3, <1>4, <1>5 DEF TypesInv, DirsOK

LEMMA TypesInvariant == Spec => [](SkillsInv /\ TypesInv)
<1>1. Init => TypesInv
  <2> SUFFICES ASSUME Init PROVE TypesInv
    OBVIOUS
  <2>1. HasType(Idle) /\ Idle.at = "start"
    BY NewType DEF Idle, None
  <2>2. GoodStore(store)
    BY DefaultRepos DEF Init, GoodStore
  <2>3. Mutex
    BY <2>1 DEF Init, Mutex, Slots, Free
  <2>4. DirsOK
    BY DEF Init, DirsOK, IsDir
  <2>5. PageOK
    BY DEF Init, PageOK, IsList, Absent, ToSet
  <2>6. Counters
    BY BoundsAssumption DEF Init, Counters
  <2> QED BY <2>1, <2>2, <2>3, <2>4, <2>5, <2>6 DEF TypesInv, Init
<1>2. SkillsInv /\ TypesInv /\ [Next]_vars => TypesInv'
  <2> SUFFICES ASSUME SkillsInv, TypesInv, [Next]_vars PROVE TypesInv'
    OBVIOUS
  <2>1. ASSUME NEW c \in Slots, Service(c) PROVE TypesInv'
    BY <2>1, ServiceTypes, DiskTypes, SavingTypes DEF Service
  <2>2. ASSUME NEW c \in Slots, Page(c) PROVE TypesInv'
    <3>1. CASE \E r \in Slots : Refresh(c, r)
      BY <3>1, RefreshTypes
    <3>2. CASE HandleInstall(c) \/ HandleUninstall(c)
      <4>1. PICK op, d : op \in Changes /\ d \in DOMAIN shown /\ Press(c, Call(op, d, shown[d].repo))
        BY <3>2 DEF HandleInstall, HandleUninstall, Changes
      <4> QED BY <4>1, PressTypes
    <3>3. CASE SubmitRepo(c) \/ RemoveRepo(c)
      <4>1. PICK op, e : op \in RepoEdits /\ e \in Entries /\ EditRepos(c, op, e)
        BY <3>3 DEF SubmitRepo, RemoveRepo, RepoEdits, Entries, TypesInv, PageOK
      <4> QED BY <4>1, EditReposTypes
    <3> QED BY <2>2, <3>1, <3>2, <3>3, EndTypes DEF Page
  <2>3. CASE UNCHANGED vars
    BY <2>3 DEF vars, page, ghosts, TypesInv, Mutex, DirsOK, PageOK, Counters
  <2> QED BY <2>1, <2>2, <2>3, RestartTypes DEF Next
<1> QED BY <1>1, <1>2, SkillsInvariant, PTL DEF Spec

\* The mutex is held by the call that saves and by no other, after every error and the end of
\* the program too; skill.json, and every list of repositories that a call or the page has,
\* has repositories, each of them once, whatever is added, removed and fails.
THEOREM AlwaysTypeOK == Spec => []TypeOK
<1>1. SkillsInv /\ TypesInv => TypeOK
  <2> SUFFICES ASSUME SkillsInv, TypesInv PROVE TypeOK
    OBVIOUS
  <2>1. IsStore(store) /\ expected = store
    BY DEF TypesInv, GoodStore, Repos, IsStore, ToSet, SkillsInv, StoreInv
  <2>2. \A r, s \in DOMAIN store.repos : store.repos[r].name = store.repos[s].name => r = s
    BY DEF TypesInv, GoodStore, Repos
  <2>3. sure \subseteq Dirs
    BY DEF SkillsInv, Shapes
  <2> QED
    BY <2>1, <2>2, <2>3 DEF TypeOK, TypesInv, HasType, Mutex, DirsOK, PageOK, Counters
<1> QED BY <1>1, TypesInvariant, PTL
=============================================================================
