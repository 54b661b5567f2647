# Code Switch X: models, checks and proofs

Code Switch X is a desktop app (Go, Wails, Vue) that runs a local relay for Claude
Code and Codex. An agent talks to `127.0.0.1`; the relay picks one of the configured
providers, translates where the provider speaks another protocol, fails over to the
next one on errors, and logs what happened. Around the relay the app edits the agents'
own configuration files and keeps lists of providers, MCP servers and skills as JSON
files in the user's home.

This directory holds TLA+ models of that program, the TLC configurations that check
them, and proofs checked by TLAPS. Paths below are relative to `src/`; `PROJECT.json`
maps every definition to the lines it stands for.

    tlc -workers 2 -config MCProviderRelay.cfg MCProviderRelay    # one run
    tlapm ProviderRelayProofs.tla                                 # one proof module

## 1. Inventory

| Component | State | Operations | Modelled in |
|---|---|---|---|
| Provider relay (`services/providerrelay.go`, `upstream_http.go`, `claude_thinking_rectifier.go`) | per request: provider list as loaded, limit, attempts, last upstream error, gin's response writer; rows of `request_log` | `proxyHandler`, `forwardRequest`, rectified retry, the response writers, error answers | `ProviderRelay`, `RelayAnswer` |
| DeepSeek adapter, stream (`services/deepseek_adapter.go`) | `responsesSSEStreamState`: items, indexes, held-back content, pending calls | chunk, `[DONE]`, end of file, read error, timeout, upstream error, finalisation | `ThinkBlocks`, `ResponsesStream`, `ResponsesProtocol` |
| DeepSeek adapter, call history (same file) | `codexChatHistoryStore`, in memory, shared by all requests | `enrichRequest`, `recordResponsePayload` | `CodexHistory` |
| DeepSeek adapter, translation of requests and bodies (same file) | none | input items to chat messages, a completion to output items | `ChatTranslation` (parameters, tools and content parts are left out) |
| Model whitelist and mapping (`services/providerservice.go`) | a provider's two maps | `IsModelSupported`, `GetEffectiveModel`, `ValidateConfiguration` | `ModelMapping` |
| Provider store (`services/providerservice.go`, `providerSaveQueue.ts`, main page) | one JSON file per agent; the page's cards and its save queue | load, save, add, edit, remove, drag, import | `ProviderStore` |
| Proxy configuration (`services/claudesettings.go`, `codexsettings.go`) | the agents' files and a backup of each; the page's switch; the port the program runs on | `EnableProxy`, `DisableProxy`, `ProxyStatus` | `ProxySettings` |
| MCP sync (`services/mcpservice.go`, MCP page) | `mcp.json`, `.claude.json`, `config.toml`; the page's list | `ListServers`, `SaveServers` | `McpServers` |
| Import of cc-switch's configuration (`services/importservice.go`) | none of its own | reads a file, writes providers and MCP servers | in `ProviderStore` and `McpServers` |
| App settings, autostart (`services/appsettings.go`, `autostartservice.go`) | `app.json`, the platform's autostart entry | load, save, toggle | the file's save and the next start's port in `ProxySettings`, the limit and the rectifier switch in `ProviderRelay`; autostart is left out |
| Skills (`services/skillservice.go`, skills page) | `skill.json` (repositories, record of installations), `.claude/skills`; the page's list, flags and button | `ListSkills`, `InstallSkill`, `UninstallSkill`, `ListRepos`, `AddRepo`, `RemoveRepo` | `Skills` |
| Raw log capture (`services/rawlog.go`) | per attempt: what is kept of four bodies, two marks | capture, append, cut, insert | `RequestLog` |
| Usage log and statistics (`services/logservice.go`, parsers in `providerrelay.go`, `frontend/src/data/usageHeatmap.ts`) | rows of `request_log` and `request_log_payload` | parsers, inserts, the queries of the pages, the heatmap's cells | `RequestLog`, `LogStatistics`; prices are left out |
| Service store, identity, window and tray, packaging | | files, framework glue | left out |

How they interact: the relay loads the provider list and the settings from disk at the
start of every request and takes no lock; pages and the import save them meanwhile
(`ProviderStore` says what a reader can meet). The relay calls the adapter for providers
of type deepseek; the adapter uses the history of earlier requests. The proxy switch, the
MCP sync, the agents and the user write the same files `~/.codex/config.toml` and
`~/.claude.json` without any agreement between them.

What is hard:

* *Relay*: errors before and after the first byte; a retry inside an attempt; an error
  that is final only for one protocol; answers that go out half; settings and lists
  replaced in mid-request.
* *Stream*: tags cut in two by chunk boundaries; content held back until it is known
  what it is; items interleaved by the upstream; ends of five kinds.
* *History*: a follow-up sent before the handler of the response has recorded it.
* *Turns*: calls, results, notes and thoughts in any order have to become the alternation
  of messages that a chat completion upstream accepts, each turn with its own reasoning.
* *Log*: four bodies share two marks; usage comes in parts, repeated, or in running totals;
  the database compares UTC texts with local days.
* *Files*: every `os.WriteFile` is a truncation and a write; calls fail one by one; the
  program ends between two of them; several writers.
* *Pages*: lists computed before an `await` and used after it; responses that arrive out
  of order; pages that are gone while their calls still run.

## 2. Modules

| Module | Lines | What it is |
|---|---|---|
| `RelayAnswer` | 33 | abstract: one answer, from one source, per request |
| `ProviderRelay`, `ProviderRelayProofs` | 614, 2583 | the relay, which implements `RelayAnswer`; theorems about it |
| `Filters` | 13 | what a loop keeps of a sequence, as a recursive function |
| `ThinkBlocks` | 58 | the functions on leading `<think>` blocks |
| `ResponsesProtocol` | 77 | abstract: what a Responses client may rely on |
| `ResponsesStream`, `ResponsesStreamProofs` | 414, 4722 | the stream translation; implements `ResponsesProtocol`; theorems about it |
| `ChatTranslation` | 137 | items to messages, completions to items: functions |
| `CodexHistory`, `CodexHistoryProofs` | 368, 2326 | the turns of a client: the history and the translation, with several requests in flight; theorems about them |
| `ModelMapping` | 158 | whitelist, mapping, wildcards |
| `ProxySettings`, `ProxySettingsProofs` | 361, 985 | the proxy switch, its files, and the port they name; theorems about them |
| `ProviderStore`, `ProviderStoreProofs` | 398, 2363 | the provider file, the page, the import; theorems about them and about `ModelMapping` |
| `McpServers`, `McpServersProofs` | 369, 927 | the MCP list and the files that follow it; theorems about them |
| `Skills`, `SkillsProofs` | 466, 2596 | the skills, their store and their page; theorems about them |
| `LogStatistics` | 112 | the queries over the rows: functions |
| `RequestLog`, `RequestLogProofs` | 427, 3471 | what is kept of the attempts; theorems about them |
| `MC...` | | the instances TLC checks |

**ProviderRelay.** One action per stretch of `proxyHandler` and `forwardRequest` between
two points where something outside can happen: `LoadProviders`, `ReadAttemptLimit`,
`NextProvider`, the request on its way to the upstream (`SendRequest`) and its outcomes
(`PostFails`, `PostAnswered`), one action per way of writing the response (`PassBody...`, `Stream...`, `AdaptBody...`), `RectifyRequest`
and `RectifyFails`, `ReturnUpstreamError`, `AllFailed`. The writer `w[r]` is gin's: headers
tagged with the attempt that set them, whether the head is written, whether a write has
failed, and whose bytes went out. `trace` records the POSTs, `rows` the log. The bodies,
what the rectifier changes in one, and wording are left out. `SaveAppSettings` and
`SaveProviders` replace what the next read finds.

**ResponsesStream.** The state is that of `responsesSSEStreamState`, a call that never
returns between two reads is one action, an event list is written one event at a time
because each write may fail. Text is made of five pieces: the beginnings of the two tags
(`"open"`, `"close"`), the end they share (`"ink"`), white space, and anything else; so tags
can be cut. `client` is what a client makes of the events written so far (`Hears`): the items
by output index, their text as the deltas add up to it, what they were closed with, and the
last event; it is what is compared with the whole content and mapped to `ResponsesProtocol`.
A call is closed with its arguments read as JSON and written anew (`canonicalJSONText`): the
constant `Reencoded` says what becomes of the texts that are JSON, and the proofs hold for any
such function. `Final(kind, text)`, a constant of the protocol, is what an item with that text
is closed with: the text itself but for calls. Ids, names of models, usage and the
finish reason are copied by the code and left out. An upstream is *late* if it sends
reasoning after the reasoning item was closed, *unnamed* if it sends arguments before the
id of a call: for those the item is not closed with what `Final` makes of its deltas, and the protocol they
are held to is loose in just that kind of item.

**ChatTranslation, CodexHistory.** `named` tells runs where the upstream gives every
response an id of its own from those where streams share the default one. Items carry the
request whose answer put them there, so that a restored call can be told from one of the same
id of another. A client either refers to a response or sends its items again, with the
reasoning of calls or without (`client`). What goes upstream is `ToMessages(posted[r])`: the
code's pass over the items (`appendResponsesInputItem`), with pending reasoning, calls that
join the assistant's message before them, and system messages collapsed to the head. A text
is the sequence of the pieces it was joined from. Of what comes from outside is assumed that
the calls of one completion, and those of one input, have ids of their own, and that in an
input no result comes before its call (`CompletionsAssumption`, `InputsAssumption`): ids
are the only thing the protocols tell calls apart by.

**ModelMapping.** Names are sequences of characters, the star among them; a map walked in
no particular order is a set of possible results; a slice out of range is `Panic`, which
gin turns into a 500. `RelaySpec` sends one provider requests for any models.

**ProxySettings.** Every file system call is a step, a write is two. The page's switch
may show what is not so (`ui`): it follows `ProxyStatus` only when it is refreshed.
The contents of a file are the user's values
under the keys that `EnableProxy` writes (`own`: his token, address, model, provider table and
key) and what he has under others (`data`); `Redirected` overwrites the first and keeps the
second. `original` is what the files were when the proxy was first enabled, and `reached` those of
them that `EnableProxy` has read since; of a `config.toml` that it refuses to parse
(`RefuseBroken`) nothing is promised but that it is not written. A file that points at the
relay names the port the program took from `app.json` when it started (`port`); the save of
`app.json` (`SaveOpens`, `SaveWrites`) is two steps, and an empty file means the default.

**ProviderStore.** `SaveProviders` step by step for several callers: pages (a page that
was left still runs its queue) and the import. A list is names by id, the ids of the cards
whose switch differs from the first list (`flipped`), and the numbers of the edits it contains,
which tell whether a refused edit ever shows up anywhere. What a page works with is `cards`.
What its switches show may differ: a switch is a native checkbox, which moves at the click
(`Toggle`), before the save, and which Vue sets again only where the drawn card changed
(`Changed`, `Drawn`) or the list is drawn anew (`SwitchTab`). `ticked` are the switches that do
not show their card, each with the edit that moved it.

**McpServers.** The calls run under one mutex; the list of the page is changed before it
is saved, and stays so when the save fails. A configuration is plain, has placeholders,
or lacks arguments: the three kinds that the code treats differently.

**Skills.** A call is a record in a slot, with its step (`at`) and its variables; the mutex
guards only the load and the save of `skill.json`, so downloads, removals and copies of
several calls run side by side, file by file. A file is the snapshot it was copied from, or
`Cut`. `expected` is what the store should hold after the renames so far, `owned` what the
last undisturbed change of a directory was, `sure` the directories the page must be right
about. The page's `flags` are `loading`, `repoLoading` and `repoBusy`; its skill buttons are
guarded by `processing`, which holds one button only. A directory counts as a skill if it has
its SKILL.md, so that the skills of a repository's archive are not empty.

**RequestLog, LogStatistics.** An attempt goes from the capture of the client's body over the
POST, the lines of the answer and their usage to the row and the payload; the adapter holds
what comes and captures it at the end. A body is its size, what is kept of it the size of a
prefix; `whole` is what it came to, which the code does not keep. Hours are the unit of time;
the statistics are functions of the rows, the clock and the zone. The heatmap's keys are the
hour within its year (`dayText`), and the page reads them as of the current year
(`normalizeStatKey`); a year has `HoursPerYear` hours. How an upstream spreads the
usage it bills over the lines of an answer is `Reports`: a chat in the last chunk that tells
of it (`Known`), Codex once, Claude in parts that never exceed the bill and reach it.
`Translated` is what the relay's parser counts of an answer that the adapter made.

## 3. Runs

| Run | Shows | Distinct states |
|---|---|---|
| `relay` | failover order and limit, one rectified retry, no other provider after a final error (unless a rectified retry followed it and got none), the error kept for the end, log rows, no second upstream after bytes unless the client is lost, one answer from one source, every request answered whose POSTs get through | 544 000 |
| `relay_final_error` | **violated**: headers of a failed attempt in the final error | (to the violation) |
| `relay_no_fallback` | **violated**: another upstream asked after bytes were written, when the client is lost half way through a synthesized stream | (to the violation) |
| `stream` | the split into reasoning and answer does not depend on how content is cut; the event stream refines `ResponsesProtocol`; it always ends; calls carry the reasoning | 1 935 000 |
| `history` | calls are restored for every response that has been recorded, and they are the right ones; the chat is one an upstream accepts; earlier turns are in it as they were | 881 000 |
| `history_recovery` | **violated**: a follow-up overtakes the recording of a stream | (to the violation) |
| `mapping` | what is asked of an upstream is listed, and the star's part is carried over | 129 000 |
| `proxy` | what the user had is in a file or its copy until Disable, his own token and address included unless EnableProxy ended on an empty copy; Disable restores it | 5 302 000 |
| `providers` | the file is whole, names last, refused lists leave no trace on the disk nor in the cards, the cards are the disk and the switches show it but for refused moves, edits settle | 1 922 000 |
| `mcp` | after a save the three files agree, and removed servers stay removed | 3 475 000 |
| `skills` | the store loses no change, an undisturbed installation is whole and recorded, the page tells the disk | 407 000 |
| `requestlog` | a payload tells whether its bodies are whole, except the upstream's of a translated answer; a row has the tokens that were billed, and of a translated answer twice more what the adapter repeats of them; the pages tell of every attempt of the day, and the heatmap of those of the year it reaches | 109 000 |

### Bounds, and why they are enough

* `relay`: one request. Handlers share only the settings and the catalog, which change at
  any time in the model whoever saves them; nothing one handler does is seen by another.
  Three providers, of which one is skipped, one is translated and one is mapped, give a
  first, a next and a last attempt; limits 1 and "all" are on both sides of the number.
  Four replies: a body, a stream, a rectifiable error that is final for Claude, and one
  that is not final.
* `stream`: five chunks. For content each tag can be cut, preceded by white space and
  followed by an answer, with reasoning of its own field between. For calls there are two,
  each announced, continued and closed by the other; the upstreams are one that keeps to the
  order and one that is late and names its calls late. Arguments of up to four pieces that are not blank are JSON, and
  are written anew as one piece, so that what a call is closed with is what its deltas
  add up to, or shorter.
* `history`: three requests, so that one can refer to either of two others; two parallel
  calls, so that their order and the confusion with another response's can be seen; inputs
  with results in reverse, with a note between and with one of them blank.
* `mapping`: seven names cover every kind of pattern: none, prefix, suffix, both, all, two
  stars, and overlap. Two mapping entries compete for one model. The theorems below have no
  such bound.
* `proxy`: three sets of limits, of one each: an edit, an MCP save and an interruption; an
  edit, a new port and an interruption; an MCP save and a new port. Any number of switches.
  Two ports: one that is the default, which an empty `app.json` means, and one that is not.
* `providers`: two edits, the second refused by validation, two visits, one of import,
  failed call or crash: the second save is queued behind the first, or runs beside that of
  the other page or the import. An edit may be a switch, so that a refused one can meet
  a list that is loaded, saved or drawn anew.
* `mcp`: one page, two edits, two of reload, import, failed call, restart and foreign
  write: a call that fails between two files is followed by one that succeeds, and a list
  read before is saved after.
* `skills`: two directories, of which one is in two repositories and in two branches of the
  first, with other files in each, and one is also there from somebody else; three calls, all
  of which may run at once, and two failures or restarts. Copies are two files long, so that
  one can break between them.
* `requestlog`: three kinds of workloads. One attempt at a time, of all kinds, with bodies of
  1 and 3 around a cap of 2 and below the default of 4; two at a time with a change of the
  settings; two attempts over three days. A day has 4 hours, the heatmap 2 days, the list 1
  row, the zones are -2 to 3: the bounds of the code's queries are in days and hours, so that a
  short day has all their cases (before and after midnight in either clock, at the edge of the
  margin). A year has 16 hours, which is long enough that no two hours the heatmap asks for have
  one key, and the clock, from 12 to 21, passes the end of one. Rows are written one at a time,
  as the database (`MaxOpenConns` 1) does.

### Fairness

Two properties are about what happens in the end.

* `EveryRequestAnswered` (`relay`) assumes weak fairness of each handler's steps except while a
  request is on its way to the upstream (`Sending`). A handler is a goroutine of its own, the
  waits for the head and for more of the body have timeouts (`upstream_http.go`), and writes to
  a client that is gone fail. But the transport (`upstream_http.go:21-26`) limits the wait for
  the head only: connecting, the TLS handshake and the writing of the request have no limit and
  the request no deadline, so nothing is assumed of `SendRequest` and of a failure there, and the
  property is that a request is answered or, from some point on, held in `Sending`.
  `StreamMore` is not among the fair steps, but the end of a stream is: an upstream that goes on
  for ever is excluded, since nothing in the code ends it.
* `EditsSettle` (`providers`) assumes weak fairness of the saves, the loads and their
  continuations: goroutines and promises that can run do. The user, failures and crashes
  are under no obligation.

## 4. Theorems

TLC checks the instances above; these hold for every value of the constants.

* `ProviderRelayProofs!TypeCorrect`: `Spec => []TypeOK`, from `AttemptLimitType`,
  `PositionsFinite` and one lemma per helper of the handler.
* `ProviderRelayProofs!StopsOnceWrittenHolds` and `AnswersOnceHolds`: the relay asks no
  upstream once bytes went out to a client that is still there, and implements
  `RelayAnswer`. `TypeOK` is not enough for either: that an attempt goes on to the next
  provider only before bytes went out is a fact about the control state. The inductive
  invariant `WriterInv` says for each step of a handler whether the writer can have been
  written, whether it is broken if it has, and which attempt its bytes are from.
  `WritesEffect`, `HeadAndWrite`, `LocalErrorEffect` and `UpstreamErrorEffect` say what a
  write does to the writer; `HandlerSteps` goes through the actions once, and shows that
  each keeps `WriterInv`, the trace (once written) and the answer; the theorems draw their
  conclusions from it.
* `ProviderRelayProofs!TriesInOrderHolds` and `NonRetryableStopsHolds`: the order of the
  attempts, for lists of any length, any limit and any responses. `TriesInOrder` speaks of the
  POSTs made; what makes it true is where the handler is. `OrderInv` says that the positions
  left are the eligible ones after the current one (`Walk`), so that the next attempt's number
  is the number of eligible ones up to it (`NextElement`); that the attempt under way has made
  the last POST and knows its response (`Current`); and that after an error that is final for
  Claude the handler can only be about to rectify, to pass it on, or done (`Stops`). The one way
  past a final error is in the statement: a rectified retry that followed it and got no response,
  or one that is not final. Each
  action is one of four kinds of step (`Starts`, `NextProvider`, `Moves`, `Posts`), and each
  kind keeps `OrderInv`.
* `ProviderStoreProofs!ServedModelListedHolds`: a provider with a whitelist is only asked
  for listed models, but for names made from a target with a star, and for providers of the
  adapter, which asks for a model of its own. `EffectiveModelListed` reduces it to what validation says of a target
  without a star (`ValidTarget`) and what a target without a star becomes (`PlainTarget`).
* `ProviderStoreProofs!StarCarriedHolds`: a renamed model is the target of an entry it
  matches, with the star's part carried over. `CutAtStar` takes a pattern apart,
  `PartBetween` shows that a matched name is prefix, part and suffix when the two do not
  overlap, `TargetFilled` that the part goes where the star was.
* `ProviderStoreProofs!DiskWholeHolds`, `NamesFixedHolds`, `RefusedLeavesNoTraceHolds`, for
  any number of pages, edits, imports and failures. What is at stake is the temporary file,
  which all callers share: the file is only whole because whoever renames has written it and
  nobody else has since. `StoreInv` therefore says of whoever is between `CheckList` and
  `RenameTmp` that it has the mutex, that the check of its names still holds (nobody else can
  have changed the file), and that what is written is its own list. The first two theorems
  follow. For the third `EditInv` keeps the numbers of edits apart: those in queues are
  distinct, unsettled and not yet refused. `TraceInv` says that a refused number is in no list
  that can still be saved; a save takes the head of a queue, so the refused list is the one
  with its number, and the cards do not have it until it was accepted (`Stays`).
  `QuietShowsDiskHolds`: a page that knows of every save and has nothing queued works with the
  list on the disk, and shows it but for switches whose last move was refused; not so pages that
  were used before their list had come, or after whose loading another page or an import saved.
  For the switches, `TickInv`: one that does not show its card was moved by an edit that is still
  in the queue, or was refused. For the cards, `Quiet` says the same of the moments when there is something queued: before its list has
  come nothing is, what it has read is still on the disk, between the rename and the answer the
  disk has the head of the queue, and the defaults, which are saved first, are what is shown.
  `AlwaysTypeOK`: what is at stake is the range of the ids, since an import takes the number
  after the greatest there is. `Bound` grows by one with every import that got to a list, and
  those are events, so that they are no more than `MaxEvents` (`Counted`). That a list has a
  greatest id comes from the well-foundedness of the order of numbers.
* `ProviderRelayProofs!LogMatchesTrafficHolds` and `LastErrorKept`, beside `OrderInv`. The first:
  `Logged` says that the rows are of attempts before the one under way, in order, each with the
  status of the last response of its attempt (`CodeOf`), and that the attempt under way holds
  the status of its own. The second: `Kept` says that no attempt after `lastUpstreamErr` ended
  in an error, except the one whose error is in the handler's hands, and that a status put on
  the writer before the end is of an attempt that did not end in an error; only then is the
  last error what the client gets.
* `ProxySettingsProofs!AlwaysTypeOK`, `AlwaysSurvives` and `DisableRestores`: with an MCP save
  kept apart and no call failing, `DisableProxy` puts back what the user had; with one failure,
  what the user had is in the copy or still in the file, or, where the failure left an empty copy,
  what he had under keys that `EnableProxy` does not write. `StepInv` ties the steps of the two
  callers to the stage of the switch. `CopyInv` says file by file which has a copy and that it
  is right: a file `EnableProxy` has not got to is untouched, one it has got to is in hand or
  copied, and after `DisableProxy` has got to it, restored. `SurviveInv` is weaker where a call
  has failed: what he had is in the copy (`Kept`), or carried by the file and by whoever is about
  to write it (`Carried`), or the copy is empty and his own values are overwritten (`Halved`). The two stand side by side, since `CopyInv` says nothing once a call has failed.
* `McpServersProofs!AlwaysTypeOK`, `AlwaysFilesAgree` and `AlwaysSavedIsListed`: after a save that
  nothing broke, the three files have the same servers, and a server that was removed stays so.
  `WriterInv`: a save that is under way has stored the list it carries, no name is in it twice,
  and the first agent's file is already as that list wants it. `ReaderInv`: what a call is about
  to save after reading is the store with the built-in servers.
* `SkillsProofs!NothingLostHolds`: every change is made on top of the one before, for any
  stores, callers and failures. `StoreInv`: a call that saves holds the mutex, and what it is
  about to rename is the store as it is with its change. `InstalledWholeHolds` and
  `PageTellsDiskHolds`: `SkillsInv` says of every call what stays true whatever others do
  (`Kept`: the branches left to try and the snapshot it has are those of the repository asked
  for), that calls which disturb each other are marked, and of a call nothing disturbed that the
  directory is as far as its step says, and that a list it has read is still right (`Works`).
  Each action either works on a call (`at` goes on), starts one, ends one, or changes the disk
  below others that are then marked. `AlwaysTypeOK`: the mutex is held by the call that saves
  and by no other (`Mutex`), and no repository is in `skill.json` twice. The second is about
  what `RemoveRepo` leaves of a list (`WithoutRepos`, by the least length at which the filter
  would go wrong) and about the default list it falls back to.
* `RequestLogProofs!CutToldHolds`: a stored payload tells of its bodies whether they are
  whole, for every workload, caps and sizes; excepted is the upstream's body of a translated
  answer. `CutTold` speaks of rows; `LogInv` carries it
  through the attempt: what is kept is as much as the cap allows (`Bounded`), so that a body is
  cut exactly if it is over the cap (`CutIsOver`); each step of an attempt says which bodies
  can have been captured already (`AttemptTold`), since the later capture may overwrite the
  mark of the earlier; a payload that is about to be inserted belongs to the row with its
  number. One lemma per capture function, one per step. `AlwaysTypeOK`: the number of an attempt
  goes with its row and its payload (`OwnInv`). `TokensCountedHolds`: after each line the count is
  the bill for Codex, and for Claude the greatest of what was reported so far (`Counted`), so
  that at the end it is what was billed, by `BilledAssumption`. `StatsCompleteHolds`: each query
  counts the rows of its span, each once; a cell of the heatmap has the rows of its hour or none,
  and has them if it is of the current year and within the query's reach. The rows of a day are those between two hours of it,
  for every zone of at most a day; that the sums over the hours, providers and days add up to
  the sum over the rows is by induction over the size of the set, which is spelled out
  (`AllNumbers`) because the library's induction theorems cannot be used here.

* `ResponsesStreamProofs!ImplementsProtocol`, `StreamTypes`, `EndIsTold` and `CallsCarry`, for
  every upstream and every set of chunks. A block's events are computed at once and written
  one by one, so the state of the adapter is ahead of the client. `Tells(L, c, es, k)`: the
  events `es` still to be written, one after the other, take a client that has heard `c` to `k`
  by steps the protocol allows (`Legal`); `Fits(L, s, texts, k)`: `k` is what the state says has
  been told, item by item. `Sound` puts the two together, and is kept by each of the code's
  helpers (`Announce`, `PushDelta`, `Finalize`, and those made of them). `StreamInv` says it
  of the four stages of a stream: reading (`Good`), at its end with the items closed one by one
  (`Closing`), finished, and failed (`WillEnd`); `Carries` says of every call what reasoning it
  has been given. Each write then is a step of `ResponsesProtocol`, because it is the first step
  of `Tells`, and everything else is a stutter. `L` is the kinds of items in which the upstream
  departs from the order.
* `ResponsesStreamProofs!ContentIsTold`: the streamed split is the split of the whole content.
  `Told` says, as long as what leads the content is not decided, that all of it is held
  back (`Held`), and afterwards that what was passed on and what is still held back make up what
  the whole has (`Outcome`). The lemmas below it are about `splitLeadingThinkBlock` and
  `leadingThinkPrefixDecision`: content is settled (`Settled`) when it cannot become a block
  any more, or is a whole one, and what is settled stays so whatever follows.
* `CodexHistoryProofs!TypeCorrect`: an answer has items of its own request only, and its calls
  have ids of their own (`IsAnswer`), which is more than `TypeOK` and what the next two need.
* `CodexHistoryProofs!RestoredAreIts` and `RestoredAreAll`: a request that refers to a response
  gets back calls of that response and no other, in their order, among its own items as they
  came; and if the response was told as one body, or recorded, it gets all of them that it has
  results for, so that each result has exactly one call, before it. At stake is that the store
  is shared and written by handlers of other requests, and that an attempt's answer can be
  replaced by the next attempt's. `OrderInv` says where the handler is when an answer is
  recorded or told: an answer that was told is never replaced, and one told as a body is
  recorded. `StoreInv`: what is stored under a response's id are the calls of its answer, and
  what is recorded is stored or has no calls. `RequestInv`: the input has results for its own
  calls and those of the response it refers to, and what was posted is that input with the
  calls of that response, or none, put back. That `enrichRequest` does not lose, double or
  reorder items is `EnrichedPicked`; that it puts back what is missing, before the results,
  `EnrichedComplete`. The filters of both modules are `Picked`, whose recursion is opened once
  (`PickedKeeps`) to give the positions of what is kept (`PickedPositions`) and how it goes over
  concatenations (`PickedConcat`).

The assumptions are those named in the modules: provider lists, settings and models of the
stated shape, what is made of a call's arguments a text (`ReencodedAssumption`), imports that are no pages, workloads whose sizes are numbers and whose zone is at
most a day away, default repositories that are there and differ; the sets may be infinite. Of
what an upstream sends two things are assumed: a response has a status other than 0, which
stands for no response, and for `TokensCounted` that what it bills it reports, in the way
`Reports` says (`BilledAssumption`). Of a stream only the shape of its chunks is assumed
(`ChunksAssumption`); of completions and inputs that ids tell calls apart, and that no result
comes before its call.

Only model-checked: `EveryRequestAnswered` and `EditsSettle` (liveness is out of the prover's
reach), and `ChatValid` and `TurnsKept`: they are about a fold over messages, and true of inputs
like those of the run, which no user's message tears apart between calls and results; the code
would pass on others as they are. Where an induction over data was needed above, it is on a
number, and the least counterexample is taken to exist because the order is well-founded.

## 5. Findings

Three runs show what the repository's own text says and the code does not do; each is the
single property of its run, and `PROJECT.json` quotes the text.

1. `FinalErrorUnmixed`: `writeUpstreamResponse` puts the headers of a 2xx response on the
   client's writer before it has read the body. When the read fails and a later attempt's
   error is passed on, headers of the first are still there.
2. `NoFallbackAfterWrite`: a translated body that is written as a stream and fails half way
   counts as a failed attempt, and the next provider is asked.
3. `RecoveryPreserved`: `response.completed` goes out at `[DONE]`, the calls are recorded
   when the upstream has closed. A follow-up in between goes upstream without its calls.

Met while modelling, without a run of their own:

* A final error need not end a request. `docs/plans/2026-05-31-claude-upstream-error-normalization.md`
  says "return it immediately instead of trying the next provider" (`:52`), so that "provider
  fallback does not hide the original error" (`:7`). When such an error, a 400 about thinking
  blocks, is followed by the rectified retry and that gets no response, `forwardRequest` returns
  the transport's error (`providerrelay.go:423-425`): the 400 is forgotten, and the loop goes on
  to the next provider. `NonRetryableStops` names the case as its exception. The list of statuses
  in the document (`:46`) has 429, and the code's (`providerrelay.go:677`), which is the one
  modelled, has not.
* The transport has no limit for connecting, for the TLS handshake or for writing the request
  (`upstream_http.go:21-26`), and requests have no deadline: an upstream that does not take the
  request's body holds the client for ever. `EveryRequestAnswered` allows for it.
* What a call is closed with need not be what its deltas add up to (`deepseek_adapter.go:525-538`,
  `:1530`): read as JSON and written anew, keys are sorted, one of several equal keys is kept,
  integers above 2^53 are rounded, and `<`, `>` and `&` are escaped.
* When `EnableProxy` ends after it has created a copy and before it has written it, the next
  `EnableProxy` keeps the empty copy (`claudesettings.go:71`) and overwrites the user's own
  token and address, in Codex' files his model, provider and key
  (`claudesettings.go:83-85`, `codexsettings.go:89-98`, `:266`): those are then in no file.
* A refused change of a switch stays on the screen: `onProviderEnabledChange`
  (`Main/Index.vue:345-350`, `:1356-1367`) saves first and changes the card afterwards, so that
  a refused save changes no card and nothing sets the checkbox back. The MCP page does
  (`Mcp/index.vue:462`, `:481`). The next click saves what the switch then says.
* The heatmap's keys have no year (`logservice.go:205`), and the page takes them for the current
  one (`usageHeatmap.ts:56-67`): in the first days of January the attempts of December have cells
  and are not shown in them.
* Arguments that come before the id of a call are never sent as deltas
  (`deepseek_adapter.go:1378`); the final item has them.
* Where an agent had no file, enabling the proxy twice backs up the file that the first
  time has written; disabling it then "restores" a file that points at the relay
  (`claudesettings.go:70`).
* Two edits on the main page within one save: the second starts from the cards before the
  first, and takes it back. An MCP page that could not load its list saves what is added
  there as the whole list. A server's Codex entry written by hand is removed by the next
  save; Claude's would have been taken in.
* A tool call whose item was closed early, chunks with several tool calls (modelled as
  several chunks), and the second branch of `enrichRequest` that can never restore anything
  change nothing of what is checked.
* `ChunkingIrrelevant` holds up to leading white space of the answer: what is held back is
  trimmed, what is passed on is not.
* Key `a*a` matches the model `a`, and the slice between prefix and suffix is out of range
  (`providerservice.go:350`): the handler panics, and gin answers 500. In the model the
  request ends in `Panic`, and is served nothing.
* A blank result of a call is left out of the chat (`deepseek_adapter.go:201`), and the call
  before it has no answer, which a chat completion upstream refuses. `ChatValid` takes results
  to be not blank.
* Of an answer the adapter translated the mark of the upstream's body is overwritten by the
  mark of the client's (`rawlog.go:129-135`). `docs/plans/2026-05-30-raw-request-response-logs-design.md`
  has "mark the corresponding truncated flag" (`:41`) and "a `truncated` badge when any payload is
  capped" (`:70`): of a long upstream body with a short translation neither is true. `CutTold`
  excepts this body, and claims the marks of the others.
* Usage: the events `created` and `in_progress` of a synthesized stream repeat the usage of the
  whole, and the row counts it three times; of a translated stream they repeat what was known
  by then. Chat completions passed through are not counted at all, nor what was cached when
  Claude's answer is one body. The row of a stream that broke has the code 200.
* The heatmap's query has no margin for the zone (`logservice.go:172`): ahead of UTC, and late
  in the day, the first hours of its first day are missing (`HeatmapReaches`). Days of 23 or 25
  hours are outside of the model.
* The payload of a log that was closed is shown under the log opened since
  (`frontend/src/components/Logs/Index.vue:523`).
* Installations of one skill that overlap mix their files: `processingSkill` holds one button,
  and pressing a second frees the first. `InstalledWhole` is about those nothing overlapped,
  and says that a later one mends what earlier ones left.
* `app.json` is written in place: a crash leaves it empty, and the next start uses the default
  port, while the agents' files name the one before; the page then shows no proxy, and
  enabling it again does not touch the copy. A file that does not parse cannot be mended by
  the app, since saving reads it first. Autostart is toggled before the file is written.
* `DisableProxy` that fails after the first file cannot be repeated safely: the second try
  removes that file, of which there is no copy any more (`codexsettings.go:116`).

## 6. What is not modelled, and what is left

Not modelled:

* *Autostart*: one platform command before the file is written; it is read only for an
  `app.json` that does not say.
* *Parameters, tools and content parts* of translated requests: copied or renamed field by
  field. `translateDeepSeekChatSSEToResponsesSSE` is used by tests only.
* *cc-switch's file*: searching and parsing it is input; what the import does with it is
  modelled.
* *Prices*: a table and a product. *Masking of headers*: a table of names.
* *Service store, identity, window and tray, packaging, display code*: no behaviour of their
  own beyond files and the framework's.
* A restart of the app empties the call history; the requests after it are those with nothing
  recorded.

Left of the plan: the page of the logs, whose late answers are told above; the failures of
`DisableProxy` as a second specification of `ProxySettings`; days of other lengths in
`LogStatistics`. Theorems worth proving next: `ChatValid` and `TurnsKept`.
