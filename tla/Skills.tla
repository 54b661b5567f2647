------------------------------- MODULE Skills -------------------------------
(***************************************************************************)
(* The skills of Claude Code: services/skillservice.go and the page that   *)
(* calls it (frontend Skill/Index.vue).                                    *)
(*                                                                         *)
(* The service keeps skill.json, the list of repositories and a record of  *)
(* what is installed, under a mutex and by a rename.  The skills           *)
(* themselves are directories below .claude/skills; they are removed and   *)
(* copied file by file outside of the mutex, and their being there is what *)
(* "installed" means: the record is never read.                            *)
(*                                                                         *)
(* A snapshot of a repository is <<repository, branch>>; a file on disk is *)
(* the snapshot that it was copied from, or Cut.   Repositories differ    *)
(* otherwise than by letter case; downloads are whole or fail.             *)
(***************************************************************************)
EXTENDS Naturals, SequencesExt

CONSTANTS
  Dirs,      \* names of skill directories
  Files,     \* names of files
  Archive,   \* by snapshot, the skills in it with their files, in the order of a walk
  Defaults,  \* defaultSkillRepos
  Addable,   \* the repositories, with a branch, that the user may enter
  Local,     \* the directories that someone else has made
  MaxSlots,  \* bound on calls at a time
  MaxCalls,  \* bound on calls from the page
  MaxEvents  \* bound on failures and restarts, together

Repo(name, branch) == [name |-> name, branch |-> branch]
Snapshots == DOMAIN Archive
Entries == Addable \cup ToSet(Defaults)
Names == {e.name : e \in Entries}

ASSUME BoundsAssumption == MaxSlots \in Nat \ {0} /\ MaxCalls \in Nat /\ MaxEvents \in Nat
ASSUME RepoAssumption ==
  /\ Defaults \in Seq(ToSet(Defaults)) /\ Defaults # <<>>
  /\ \A i, j \in DOMAIN Defaults : Defaults[i].name = Defaults[j].name => i = j
  /\ \A s \in Snapshots : s[1] \in Names /\ DOMAIN Archive[s] \subseteq Dirs
\* Each skill has its SKILL.md; names have a slash.
ASSUME SkillAssumption ==
  \A s \in Snapshots : \A d \in DOMAIN Archive[s] : Archive[s][d] \in Seq(Files) /\ Archive[s][d] # <<>>
ASSUME NamesAssumption == Names \cap {"none", "gone", "unknown"} = {}

Slots == 1..MaxSlots
None == "none"
Free == 0
Absent == <<>>  \* a directory that is not there
Cut == <<None, None>>  \* in place of the snapshot, for a file that is not a whole copy

VARIABLES
  store,      \* skill.json: skills, repos
  disk,       \* .claude/skills, by directory: its files
  lock,       \* the call that has the mutex
  call,       \* the calls that run
  shown,      \* the skills on the page: those there, with the repository each is of
  repoList,   \* the repositories on the page
  processing, \* processingSkill: the button that is off
  flags,      \* those of loading, repoLoading and repoBusy that are set
  made, events,
  expected,   \* what skill.json should hold: every change in the order of their renames
  owned,      \* by directory: the repository it was last installed from, "gone", or "unknown"
  sure        \* the skills of which the page must be right

page == <<shown, repoList, processing, flags>>
ghosts == <<expected, owned, sure>>
vars == <<store, disk, lock, call, page, made, events, ghosts>>

Changes == {"install", "uninstall"}
RepoEdits == {"add", "remove"}

\* A skill on the page; repo is None for one that no repository has.
Card(repo, on) == [repo |-> repo, on |-> on]
Cards == [repo : Names \cup {None}, on : BOOLEAN]
IsList(l) == DOMAIN l \subseteq Dirs /\ \A d \in DOMAIN l : l[d] \in Cards
IsStore(s) == s.skills \subseteq Dirs /\ Len(s.repos) > 0 /\ ToSet(s.repos) \subseteq Entries
IsDir(f) == \A n \in DOMAIN f : f[n] \in Snapshots \cup {Cut}

\* A call: what is asked for, the step it is at, and its variables.
Call(op, dir, entry) ==
  [op |-> op, dir |-> dir, entry |-> entry, at |-> "start", todo |-> <<>>, src |-> Absent, copied |-> 0,
   seen |-> Absent, next |-> Absent, ok |-> FALSE, alone |-> TRUE]
Idle == Call(None, None, None)

Steps == {"start", "fetch", "remove", "copy", "record", "saving", "merge", "done"}

\* Only what saves holds the mutex; no repository is listed twice.
TypeOK ==
  /\ IsStore(store) /\ IsStore(expected)
  /\ \A r, s \in DOMAIN store.repos : store.repos[r].name = store.repos[s].name => r = s
  /\ \A d \in Dirs : disk[d] = Absent \/ IsDir(disk[d])
  /\ lock \in Slots \cup {Free}
  /\ \A c \in Slots : call[c].at \in Steps /\ IsList(call[c].seen) /\ (lock = c <=> call[c].at = "saving")
  /\ IsList(shown)
  /\ ToSet(repoList) \subseteq Entries
  /\ flags \subseteq {"loading", "repoLoading", "repoBusy"}
  /\ made \in 0..MaxCalls /\ events \in 0..MaxEvents
  /\ owned \in [Dirs -> Names \cup {"gone", "unknown"}] /\ sure \subseteq Dirs

-----------------------------------------------------------------------------
(* The store and the repositories.                                         *)

Added(repos, e) ==
  IF \E i \in DOMAIN repos : repos[i].name = e.name
  THEN [i \in DOMAIN repos |-> IF repos[i].name = e.name THEN e ELSE repos[i]]
  ELSE Append(repos, e)

\* ensureRepos: the last repository that is removed brings the default ones back.
Without(repos, e) ==
  LET filtered[n \in 0..Len(repos)] ==  \* of the first n
        IF n = 0 THEN <<>>
        ELSE IF repos[n].name = e.name THEN filtered[n - 1] ELSE Append(filtered[n - 1], repos[n])
      left == filtered[Len(repos)] IN
  IF left = <<>> THEN Defaults ELSE left

Edited(s, k) ==
  CASE k.op = "install" -> [s EXCEPT !.skills = @ \cup {k.dir}]
    [] k.op = "uninstall" -> [s EXCEPT !.skills = @ \ {k.dir}]
    [] k.op = "add" -> [s EXCEPT !.repos = Added(@, k.entry)]
    [] k.op = "remove" -> [s EXCEPT !.repos = Without(@, k.entry)]

buildBranchCandidates(preferred) ==
  <<preferred>> \o SelectSeq(<<"main", "master">>, LAMBDA b : b # preferred)

\* The snapshots of an entry that are tried, in order.
Candidates(e) ==
  LET all == buildBranchCandidates(e.branch) IN [i \in DOMAIN all |-> <<e.name, all[i]>>]

Copy(s, d) == [f \in ToSet(Archive[s][d]) |-> s]

\* A directory with file f of s, made when it is not there.
Put(files, f, s) == [x \in DOMAIN files \cup {f} |-> IF x = f THEN s ELSE files[x]]

\* The cards of l, and those of m for the other skills.
Merged(l, m) == [d \in DOMAIN l \cup DOMAIN m |-> IF d \in DOMAIN l THEN l[d] ELSE m[d]]

-----------------------------------------------------------------------------
(* Steps of the calls.                                                     *)

At(c, ops, step) == call[c].op \in ops /\ call[c].at = step
Becomes(c, k) == call' = [call EXCEPT ![c] = k]
Goes(c, step) == Becomes(c, [call[c] EXCEPT !.at = step])
Ends(c, ok) == Becomes(c, [call[c] EXCEPT !.at = "done", !.ok = ok])
Event == events < MaxEvents /\ events' = events + 1

\* The repositories are tried by their position.
First(S) == CHOOSE i \in S : \A j \in S : i <= j
Current(k) == k.todo[First(DOMAIN k.todo)]

\* The next repository; after the last one an installation has failed, and a list is merged.
NextRepo(k) ==
  LET left == DOMAIN k.todo \ {First(DOMAIN k.todo)} IN
  [k EXCEPT !.todo = [i \in left |-> k.todo[i]], !.copied = 0,
            !.at = IF left # {} THEN "fetch" ELSE IF k.op = "list" THEN "merge" ELSE "done"]

\* loadStore, under the mutex for a moment.
LoadStore(c) ==
  /\ At(c, {"install", "list"}, "start") /\ lock = Free
  /\ LET asked == {i \in 1..Len(store.repos) :
                    call[c].op = "install" => store.repos[i].name = call[c].entry} IN
     Becomes(c, [call[c] EXCEPT !.todo = [i \in asked |-> store.repos[i]],
                                !.at = IF asked = {} THEN "done" ELSE "fetch"])
  /\ UNCHANGED <<store, disk, lock, page, made, events, ghosts>>

\* prepareRepoSnapshot: a later branch is taken only if a download of an earlier one fails.
Fetch(c) ==
  /\ At(c, {"install", "list"}, "fetch")
  /\ LET k == call[c]
         all == Candidates(Current(k)) IN
     \E i \in DOMAIN all :
       /\ all[i] \in Snapshots
       /\ IF \A j \in 1..i - 1 : all[j] \notin Snapshots THEN events' = events ELSE Event
       /\ LET s == all[i]
              found == [d \in DOMAIN Archive[s] |-> Card(s[1], disk[d] # Absent)] IN
          IF k.op = "list" THEN Becomes(c, NextRepo([k EXCEPT !.seen = Merged(@, found)]))
          ELSE IF k.dir \notin DOMAIN Archive[s] THEN Becomes(c, NextRepo(k))
          ELSE Becomes(c, [k EXCEPT !.src = s, !.at = "remove"])
  /\ UNCHANGED <<store, disk, lock, page, made, ghosts>>

FetchFails(c) ==
  /\ At(c, {"install", "list"}, "fetch")
  /\ LET all == Candidates(Current(call[c])) IN
     IF \A i \in DOMAIN all : all[i] \notin Snapshots THEN events' = events ELSE Event
  /\ Becomes(c, NextRepo(call[c]))
  /\ UNCHANGED <<store, disk, lock, page, made, ghosts>>

\* mergeLocalSkills: what is on disk is there, whoever made it.
MergeLocalSkills(c) ==
  /\ At(c, {"list"}, "merge")
  /\ LET k == call[c]
         there == {d \in Dirs : disk[d] # Absent} IN
     Becomes(c, [k EXCEPT
       !.seen = Merged([d \in there |-> Card(IF d \in DOMAIN @ THEN @[d].repo ELSE None, TRUE)], @),
       !.at = "done", !.ok = TRUE])
  /\ UNCHANGED <<store, disk, lock, page, made, events, ghosts>>

\* Mutation: the files of an earlier copy are left.
RemoveTarget_Keeps(c) ==
  \/ At(c, {"install"}, "remove") /\ Goes(c, "copy") /\ disk' = disk
     /\ UNCHANGED <<store, lock, page, made, events, ghosts>>
  \/ At(c, {"uninstall"}, "start") /\ Goes(c, "record") /\ disk' = [disk EXCEPT ![call[c].dir] = Absent]
     /\ UNCHANGED <<store, lock, page, made, events, ghosts>>

\* os.RemoveAll of the directory, by an installation or to uninstall.
RemoveTarget(c) ==
  /\ \/ At(c, {"install"}, "remove") /\ Goes(c, "copy")
     \/ At(c, {"uninstall"}, "start") /\ Goes(c, "record")
  /\ disk' = [disk EXCEPT ![call[c].dir] = Absent]
  /\ UNCHANGED <<store, lock, page, made, events, ghosts>>

\* Some of the files may be gone when it fails.
RemoveFails(c) ==
  /\ \/ At(c, {"install"}, "remove") /\ Becomes(c, NextRepo(call[c]))
     \/ At(c, {"uninstall"}, "start") /\ Ends(c, FALSE)
  /\ disk[call[c].dir] # Absent
  /\ Event
  /\ \E left \in SUBSET DOMAIN disk[call[c].dir] :
       left # {} /\ disk' = [disk EXCEPT ![call[c].dir] = [f \in left |-> @[f]]]
  /\ UNCHANGED <<store, lock, page, made, ghosts>>

\* copyDirectory, one file at a time; it makes the directory when it is not there (any more).
CopyFile(c) ==
  /\ At(c, {"install"}, "copy")
  /\ LET k == call[c]
         files == Archive[k.src][k.dir]
         f == files[k.copied + 1] IN
     \/ /\ disk' = [disk EXCEPT ![k.dir] = Put(@, f, k.src)]
        /\ Becomes(c, [k EXCEPT !.copied = @ + 1, !.at = IF k.copied + 1 = Len(files) THEN "record" ELSE @])
        /\ events' = events
     \/ /\ Event
        /\ disk' = [disk EXCEPT ![k.dir] = Put(@, f, Cut)]
        /\ Becomes(c, NextRepo(k))
  /\ UNCHANGED <<store, lock, page, made, ghosts>>

\* Mutation: the store is read before the mutex is taken.
OpenStore_Unlocked(c) ==
  /\ At(c, Changes, "record") \/ At(c, RepoEdits, "start")
  /\ Becomes(c, [call[c] EXCEPT !.next = Edited(store, call[c]), !.at = "saving"])
  /\ lock' = c
  /\ UNCHANGED <<store, disk, page, made, events, ghosts>>

\* The mutex is taken, the store read and changed, and written to skill.json.tmp.
OpenStore(c) ==
  /\ At(c, Changes, "record") \/ At(c, RepoEdits, "start")
  /\ lock = Free
  /\ Becomes(c, [call[c] EXCEPT !.next = Edited(store, call[c]), !.at = "saving"])
  /\ lock' = c
  /\ UNCHANGED <<store, disk, page, made, events, ghosts>>

RenameStore(c) ==
  /\ At(c, Changes \cup RepoEdits, "saving")
  /\ store' = call[c].next
  /\ expected' = Edited(expected, call[c])
  /\ lock' = Free
  /\ Ends(c, TRUE)
  /\ UNCHANGED <<disk, page, made, events, owned, sure>>

\* Mutation: an error leaves the mutex taken.
SaveFails_KeepsLock(c) ==
  /\ At(c, Changes \cup RepoEdits, "saving")
  /\ Event
  /\ IF call[c].op = "install" THEN Becomes(c, NextRepo(call[c])) ELSE Ends(c, FALSE)
  /\ UNCHANGED <<store, disk, lock, page, made, ghosts>>

\* An installation whose record cannot be saved goes on to the next repository.
SaveFails(c) ==
  /\ At(c, Changes \cup RepoEdits, "saving")
  /\ Event
  /\ lock' = Free
  /\ IF call[c].op = "install" THEN Becomes(c, NextRepo(call[c])) ELSE Ends(c, FALSE)
  /\ UNCHANGED <<store, disk, page, made, ghosts>>

ListRepos(c) ==
  /\ At(c, {"repos"}, "start") /\ lock = Free
  /\ Becomes(c, [call[c] EXCEPT !.next = store, !.at = "done", !.ok = TRUE])
  /\ UNCHANGED <<store, disk, lock, page, made, events, ghosts>>

-----------------------------------------------------------------------------
(* The page.                                                               *)

Button(k) == <<k.op, k.dir, k.entry>>
NoButton == Button(Idle)
Running == {c \in Slots : call[c].op # None}

\* A list and a change, or two changes of one directory, disturb each other.
Disturbs(k, m) ==
  \/ k.op \in Changes /\ m.op \in Changes /\ k.dir = m.dir
  \/ {k.op, m.op} \in {{"list", x} : x \in Changes}

Started(calls, k) ==
  [c \in Slots |-> [calls[c] EXCEPT !.alone = @ /\ ~Disturbs(calls[c], k)]]

Alone(calls, k) == [k EXCEPT !.alone = \A c \in Slots : ~Disturbs(calls[c], k)]

Start(c, k) == call' = [Started(call, k) EXCEPT ![c] = Alone(call, k)]

\* The slot of a new call: which one tells nothing.
Unused(c, taken) == call[c] = Idle /\ \A b \in 1..c - 1 : call[b] # Idle \/ b \in taken

Begin(c, k) ==
  /\ Unused(c, {})
  /\ made < MaxCalls /\ made' = made + 1
  /\ Start(c, k)

\* From here to its end a call on a directory leaves open what is there.
Unsure(k) == sure' = sure \ {k.dir} /\ owned' = [owned EXCEPT ![k.dir] = "unknown"]

\* onMounted, and refresh while neither list is being loaded.
Refresh(c, r) ==
  /\ flags \cap {"loading", "repoLoading"} = {}
  /\ Unused(c, {}) /\ c # r /\ Unused(r, {c})
  /\ made < MaxCalls /\ made' = made + 1
  /\ LET k == Call("list", None, None) IN
     call' = [Started(call, k) EXCEPT ![c] = Alone(call, k), ![r] = Call("repos", None, None)]
  /\ flags' = flags \cup {"loading", "repoLoading"}
  /\ UNCHANGED <<store, disk, lock, shown, repoList, processing, events, ghosts>>

\* The skills are not shown while they are being loaded.
Press(c, k) ==
  /\ "loading" \notin flags
  /\ processing # Button(k)
  /\ processing' = Button(k)
  /\ Begin(c, k)
  /\ Unsure(k)
  /\ UNCHANGED <<store, disk, lock, shown, repoList, flags, events, expected>>

HandleInstall(c) ==
  \E d \in DOMAIN shown :
    /\ ~shown[d].on /\ shown[d].repo # None
    /\ Press(c, Call("install", d, shown[d].repo))

HandleUninstall(c) ==
  \E d \in DOMAIN shown : shown[d].on /\ Press(c, Call("uninstall", d, shown[d].repo))

EditRepos(c, op, e) ==
  /\ "repoBusy" \notin flags
  /\ flags' = flags \cup {"repoBusy"}
  /\ Begin(c, Call(op, None, e))
  /\ UNCHANGED <<store, disk, lock, shown, repoList, processing, events, ghosts>>

SubmitRepo(c) == \E e \in Addable : EditRepos(c, "add", e)
RemoveRepo(c) == \E e \in ToSet(repoList) : EditRepos(c, "remove", e)

Over(c) == Becomes(c, Idle)

\* Mutation: the flag of a skill is not changed when it was removed.
EndChange_KeepsFlag(c) ==
  /\ At(c, Changes, "done")
  /\ LET k == call[c] IN
     /\ shown' = [d \in DOMAIN shown |->
          IF k.ok /\ d = k.dir /\ shown[d].repo = k.entry THEN Card(k.entry, shown[d].on \/ k.op = "install")
          ELSE shown[d]]
     /\ IF k.ok /\ k.alone
        THEN sure' = sure \cup {k.dir}
             /\ owned' = [owned EXCEPT ![k.dir] = IF k.op = "install" THEN k.entry ELSE "gone"]
        ELSE Unsure(k)
  /\ processing' = NoButton
  /\ Over(c)
  /\ UNCHANGED <<store, disk, lock, repoList, flags, made, events, expected>>

\* An installation or a removal is answered: the flag of the skill, if it is still of that repository.
EndChange(c) ==
  /\ At(c, Changes, "done")
  /\ LET k == call[c] IN
     /\ shown' = [d \in DOMAIN shown |->
          IF k.ok /\ d = k.dir /\ shown[d].repo = k.entry THEN Card(k.entry, k.op = "install")
          ELSE shown[d]]
     /\ IF k.ok /\ k.alone
        THEN sure' = sure \cup {k.dir}
             /\ owned' = [owned EXCEPT ![k.dir] = IF k.op = "install" THEN k.entry ELSE "gone"]
        ELSE Unsure(k)
  /\ processing' = NoButton
  /\ Over(c)
  /\ UNCHANGED <<store, disk, lock, repoList, flags, made, events, expected>>

\* A list is answered.  One that came after an edit of the repositories ends that, too.
EndList(c) ==
  /\ At(c, {"list"}, "done")
  /\ LET k == call[c] IN
     /\ shown' = IF k.ok THEN k.seen ELSE shown
     /\ sure' = IF k.ok /\ k.alone THEN Dirs ELSE {}
     /\ flags' = flags \ {"loading", k.entry}
  /\ processing' = NoButton
  /\ Over(c)
  /\ UNCHANGED <<store, disk, lock, repoList, made, events, expected, owned>>

EndRepos(c) ==
  /\ At(c, {"repos"}, "done")
  /\ repoList' = call[c].next.repos
  /\ flags' = flags \ {"repoLoading"}
  /\ Over(c)
  /\ UNCHANGED <<store, disk, lock, shown, processing, made, events, ghosts>>

\* After an edit of the repositories the skills are loaded again.
EndRepoEdit(c) ==
  /\ At(c, RepoEdits, "done")
  /\ IF call[c].ok
     THEN /\ repoList' = call[c].next.repos
          /\ flags' = flags \cup {"loading"}
          /\ Start(c, Call("list", None, "repoBusy"))
     ELSE /\ repoList' = repoList
          /\ flags' = flags \ {"repoBusy"}
          /\ Over(c)
  /\ UNCHANGED <<store, disk, lock, shown, processing, made, events, ghosts>>

-----------------------------------------------------------------------------

\* The program ends, and is started again with the page open.
Restart ==
  /\ Event
  /\ lock' = Free
  /\ call' = [c \in Slots |-> Idle]
  /\ shown' = Absent /\ repoList' = <<>> /\ processing' = NoButton /\ flags' = {}
  /\ sure' = {}
  /\ owned' = [d \in Dirs |-> IF \E c \in Running : call[c].op \in Changes /\ call[c].dir = d
                              THEN "unknown" ELSE owned[d]]
  /\ UNCHANGED <<store, disk, made, expected>>

Init ==
  /\ store = [skills |-> {}, repos |-> Defaults]
  /\ disk = [d \in Dirs |-> IF d \in Local THEN [f \in {"SKILL.md"} |-> Cut] ELSE Absent]
  /\ lock = Free
  /\ call = [c \in Slots |-> Idle]
  /\ shown = Absent /\ repoList = <<>> /\ processing = NoButton /\ flags = {}
  /\ made = 0 /\ events = 0
  /\ expected = store
  /\ owned = [d \in Dirs |-> "unknown"]
  /\ sure = {}

Service(c) ==
  \/ LoadStore(c) \/ Fetch(c) \/ FetchFails(c) \/ MergeLocalSkills(c)
  \/ RemoveTarget(c) \/ RemoveFails(c) \/ CopyFile(c)
  \/ OpenStore(c) \/ RenameStore(c) \/ SaveFails(c) \/ ListRepos(c)

Page(c) ==
  \/ \E r \in Slots : Refresh(c, r)
  \/ HandleInstall(c) \/ HandleUninstall(c) \/ SubmitRepo(c) \/ RemoveRepo(c)
  \/ EndChange(c) \/ EndList(c) \/ EndRepos(c) \/ EndRepoEdit(c)

Next == Restart \/ \E c \in Slots : Service(c) \/ Page(c)

Spec == Init /\ [][Next]_vars

-----------------------------------------------------------------------------
(* Properties.                                                             *)

\* skill.json holds the outcome of every change in the order they were renamed into place: none is
\* lost to another that read before it and wrote after it, to a failure, or to the end of the program.
NothingLost == store = expected

\* What was last installed by a call that succeeded, and that neither another on the directory nor a
\* list overlapped, is there as in one snapshot of the repository asked for, with no file of another
\* copy, and is recorded; what was uninstalled so is neither there nor recorded.  Others do not undo it.
InstalledWhole ==
  \A d \in Dirs :
    /\ owned[d] = "gone" => disk[d] = Absent /\ d \notin store.skills
    /\ owned[d] \in Names =>
         /\ \E s \in Snapshots : s[1] = owned[d] /\ d \in DOMAIN Archive[s] /\ disk[d] = Copy(s, d)
         /\ d \in store.skills

\* After a list, or a change, that succeeded and that nothing disturbed the page shows what is on disk,
\* skills that others have put there included, and until the next change goes on to do so.  A change
\* that fails, and may leave a part on disk, tells nothing of it, and neither do lists and changes that
\* overlap: of the skills concerned nothing is claimed until the next that does neither.
PageTellsDisk ==
  \A d \in sure : disk[d] # Absent <=> d \in DOMAIN shown /\ shown[d].on
=============================================================================
