# Decision Room in TLA+

TLA+ models of the Decision Room backend (`src/backend/internal`): a Go server over
Postgres that answers questions about a journal, keeps the promises its owner makes,
runs timed orders, and keeps a quarterly record of a campaign. One process, one
database, one owner with several tabs; no message queue, no replication. What is hard
is the same everywhere: use cases read a row, decide, sometimes wait minutes for a
language model, and then write the whole row back by id, while another tab, a ticker or
a background extraction does the same.

Modules, with an `MC...` module and a `.cfg` beside each one that is model-checked:

| Modules | Of |
|---|---|
| `LoopLedger`, `Commitments` | the open loops and what they promise |
| `BeastBoard` | timed orders |
| `CampaignRecord` | quarters, predictions, the seal |
| `CampaignMap` | fronts, items, orders and sorties |
| `Theatre`, `Supply`, `CampaignReadings` | the staff's arithmetic over the map, and its laws |
| `ChatSession`, `CheckIns` | conversations; the scheduler |
| `Plan`, `Turn` | how much work a question is worth; one answer, to the end of its stream |
| `Retrieval`, `DeepSearch`, `Roster` | what a question reads; which lenses and modes answer |
| `Settings`, `MemoryStore` | configuration; memories, doctrine and their vectors |
| `JournalSync`, `Chunker` | the watched folder; how a body is cut |
| `Tickets`, `SignIn` | what a sign-in promises; passwords, provider, sessions, attempts |
| `Relocation`, `Comfort`, `StayReadings` | the planner of stays, and its laws |
| `CommitmentsProofs`, `CampaignRecordProofs`, `CampaignMapProofs`, `CheckInsProofs`, `MemoryStoreProofs`, `JournalSyncProofs`, `SignInProofs`, `TurnProofs` | the proofs about the module they are named after (`MemoryStoreProofs` also about `Settings`, `TurnProofs` also about `ChatSession` and `BeastBoard`) |

`PROJECT.json` maps each definition to the lines it translates.

## 1. The system

| Component | State | Operations | Interacts with | Hard | Correct when |
|---|---|---|---|---|---|
| Open loops (`commitments`) | rows of `commitments`: status, fingerprint, resolved_at, updated_at; the one extraction slot | create, accept, set status, edit, retarget, propose, extract from a turn, sweep | hears every chat turn; told by the beast board that a loop is done; tells check-ins of stale loops | transitions checked on an old read; a partial unique index met by three kinds of write; a slot that a hung model could keep | no two live rows say one thing; a proposal is accepted before anything else happens to it; untouched loops go stale |
| Beast board (`beast`, part of `memory/usecase/chat.go`) | rows of `beast_tasks`: number, clock, status, misses | add, edit, abandon, complete, report, apply a turn, re-arm, stand down | driven by a chat turn; closes open loops | whole-row edits beside a re-arm; numbers by `MAX + 1`; a cooldown read from messages that are stored later | a miss counted once and kept; numbers without a gap; resolved is final; eruptions are spaced |
| Campaign record (`campaign/usecase/record*`) | campaigns, predictions, assignments, the seal | open, advance, note, delete, assign, file, patch, after-action, seal | reads the map; a background review of up to six minutes | the seal is computed outside its transaction; patches decided before the closing | a closed quarter stays as sealed; live predictions are distinct; what is sealed is the quarter's |
| Campaign map and extraction (`campaign/usecase/{manage,extract}.go`) | items, fronts, their proposals | create, keep, update, file, merge, withdraw, extract, aim, reconnoitre | hears every chat turn; aims open loops at objectives | whole-row update beside transitions; a lookup and a later write | nothing is on the map that nobody agreed to; what bears on something or is aimed fits it |
| Logistics, snapshots, sitreps, staff (`campaign/service`, `campaign/usecase/{logistics,theatre,sitreps,staff}.go`) | funds, sorties, energy reports, weekly snapshots, appraisals | read, price, report, snapshot, appraise | map, stays, check-ins, chat | many small rules over one map | each item drawn once; work done never reads as ground lost; nothing judged without a record |
| Check-ins (`checkin`) | check-ins, the scheduler's lock and last fire | tick, generate, open, dismiss | open loops, sitreps, chat | a missed tick, a restart, two opens | one check-in per due time; one session each |
| Chat sessions (`memory/usecase/chat.go`) | session row, messages | send, set mode, start, delete, summarise | consult, board, observers | the row read before a minutes-long answer is written back after it | a mode the person leaves stays left; suggestions are spaced; the history has no hole |
| Consult, council, tool loop (`memory/usecase`, `web/api/handler.go`) | one turn; the connection its goroutines share | plan, gather, ask seats in parallel, close, stream, retract | providers, memory | seats fail or time out while others answer; text streamed before it is known to be the answer | what stands on the screen is the answer; nobody writes to a finished stream; every turn ends |
| Memory store (`memory/usecase/{ingest,update,reindex,memo_embedder,doctrine}.go`) | chunks and doctrine passages, each with a vector and its model; the memo | ingest, update, delete, reindex, rebuild | journal, chat, providers, settings | the model changes between computing a vector and labelling it; failures counted across batches | the doctrine ends in the current model; a reindex ends; the memo is consistent |
| Journal (`journal`) | rows by file and hash, watcher timers, advisory locks | walk, debounce, sync, remove, capture | memory store, the pool | a crash between chunks; changes while down; timers that fired; a lock that holds a connection | a file's rows are of one version; what was saved is in the end ingested, or why not |
| Sign-in (`auth`, `infra/http`) | password, sessions, OIDC states, hand-off codes, attempt budgets | setup, login, callback, redeem, touch, logout, limit | settings | racing redemptions, sliding expiry, an owner replaced at boot | a ticket opens one session; a replaced password or a sign-out ends the sessions it should |
| Settings and configuration (`settings`, `infra/config`) | stored settings, the applied configuration | save, apply, listen, boot | all components read it | save, then apply; a boot that no longer takes a stored value | what runs is what is stored, or named as broken |
| Providers (`infra/anthropic`, `gemini`, `ollama`) | none | chat, stream, embed | every model call | retries, half-streamed answers | the caller sees one answer or an error |
| Generals and modes (`generals`, `modes`) | catalogues; who answered lately | select, detect, suggest | consult | ties, caps, stickiness | a roster fits its room; a mode is held until clearly left |
| Relocation (`relocation`) | a plan's lines, prices paid | build, reprice, edit, score | campaign (deployments) | rebuilds over lines already ticked; weakest-link scores | a rebuild keeps what is yours; getting an item never lowers comfort |
| Web API, UI, client, composition, migrations | none of their own | decode, encode, wire | all | requests at the same time | |

Interaction. `Chat.SendMessage` stores the question, asks consult, stores the answer and
then calls each observer's `ObserveTurn`; open loops and the campaign answer at once and
extract in the background, one at a time. A beast turn goes to the board instead. The
board calls back into open loops (`Done`). The sweep in `commitments/module.go` tells
listeners (check-ins) which loops went stale. The seal of a quarter reads the campaign
map. Everything else meets in the database.

A consult runs inside a chat turn or alone; its searches read what `MemoryStore` keeps and
`JournalSync` feeds. Every model call reads the settings of the moment. The hazards of the
code, each at its line with the properties aimed at it, are the `hazards` of
`PROJECT.json`; those no property covers say why.

## 2. Plan

Order: what a person would lose by it going wrong comes first. All components with state of
their own are modelled: open loops, beast board, record, conversations, check-ins, sign-in,
settings and memories, journal, map, the consult; then the pure algorithms with laws over
small inputs (retrieval, roster, the staff's readings, the planner of stays, the chunker).

Then the proofs, from what a person would lose downwards: open loops, the screen of a turn,
record, sign-in, journal, map, check-ins, memories and settings, conversations, orders. All
are done (section 5).

Left:

1. Requests over one stay that interleave (`relocation`), which are functions here.
2. The staff's appraisal, one at a time over its own row.

The modules are written to be proved about: no RECURSIVE operator anywhere, one action per
statement, named assumptions on the constants, invariants as conjunctions of named parts.

## 3. How the models are built

One action is one SQL statement, as one transaction where the code opens one. A use case
that reads, decides and writes is two actions, and what it carries between them (for most
updates, the whole row it read) is a record in `req[c]` or a list in `todo[c]`. Any
other request may come between. A request may end after any statement (`Disconnect`,
`Fail`, `TurnFails`, `RequestFails`): the client goes away, a statement fails, the process stops. The database itself
is reliable. Read-only requests and errors that change nothing have no action.

Abstracted: wordings are members of a set and equal when their fingerprints are; models
answer anything the parser lets through; times are two-valued (older than the cutoff) in
`Commitments` and small integers elsewhere; prompts, text and layout are left out. What the
code computes without state is a function of its inputs, and its laws are ASSUMEs that a
run evaluates over small inputs: TLC stops on one that is false.

Most modules call their parts `Init`, `Next`, `Spec`, `TypeOK`; `ChatSession` and
`BeastBoard`, which stand in one proof module with `Turn`, put their own name before them
(`ChatSpec`, `BoardSpec`).

### LoopLedger and Commitments

`LoopLedger` is the promise: loops are added, moved and reworded in single steps; live
wordings are distinct; a proposal leaves the proposals as open or dropped.
`Commitments` is the code. `status`, `text`, `resolved` and `untouched` are columns of
`commitments` (`untouched` holds the rows whose `updated_at` is before the sweep's
cutoff); `req` the requests of `Manage`; `extract` and `left` the slot of
`Extract.ObserveTurn` and the candidates `Run` still has to store. The slot is idle,
asking the model, storing, or out of time (`late`): `TimeOut` is the deadline, `Returns` what
ends when all is stored or the call comes back with the context's error, `ExtractionFails` an
earlier error. The last two free the slot (`FreeSlot`). `Insert`, `Stamp` and
`Rewrite` are the repository's statements, and their `Free` guard the partial unique
index `uq_commitments_live_fingerprint`. `SetStatusRead`/`SetStatusWrite` are the two
halves of `SetStatus`; `EditWrite` is followed by a write that accepts the proposal;
`CreateDuplicate`, `FindLive` and `Answer` the path of a duplicate, on the page of rows
`List` returns. `Sweep` is `MarkStale`; `Restart` loses requests and the slot.

### BeastBoard

`task` is `beast_tasks` by number, `closed` the loops closed through the board, `erupted`
the times of the stored eruption messages, `todo[c]` the statements request `c` has left.
`Update` is `Repository.Update`: all its columns (not `expiries`) from an earlier read.
A loop over rows is one statement of `todo[c]` with the set of rows it has left, each
with its number, and a step takes the least.
`TakeNumber` and `Insert` are the `MAX(seq) + 1` of the INSERT and the unique index, with
its retries. `ListLate`, `Rearm` and `Erupt` are `Board.Expire` and the message that
`SendMessage` stores after it. `Apply` lists the board once, completes, and issues what
was not open in that listing.

### CampaignRecord

`camp`, `pred`, `assigned`, `sealed` are the tables of migration 013, `map` the status of
objectives on the map. `AdvanceRead`, `SetNoteRead` and `ReviewRead` end in
`UpdateCampaign`, the whole row under `WHERE phase <> 'closed'`. Closing is `SealLoad`
(the reads of `seal`, one step: the difference between them is not told apart) and
`SealCampaign` (its transaction). `PatchRead`, `RejectClosed` (asked of the quarter left
and of the quarter gone to) and `UpdatePrediction` are `PatchPrediction`;
`FilingCampaign` and `FileFailure` are `FromPreMortem`. `Fileable` is the foreign key and
`Free` the unique index on live predictions.

### ChatSession

`session` and `said` are one row of `chat_sessions` and its `chat_messages`; `there` turns
FALSE when it is deleted. `turn[c]` is a request with its copy of the row: `SendMessage`
reads it, `ListMessages` the messages, `StoreQuestion` stores the question and decides
which copies have to be written (`Copies`: title, depth or generals, mode), `WriteCopy`
writes each, `StoreAnswer` is the end of the call to the model, `RememberMode` and
`Summarize` write the row once more. Every write is `UpdateSession`: all columns, no
condition. Detection is any mode that need not be chosen by hand, or the locked one. The
summary is the set of messages it was made of; the code's trigger and the number of
messages it keeps are both 8, so one constant stands for both. Tier and generals are one
field, `depth`, since nothing tells them apart here.

### CheckIns

`checkin` is the table by slot and local date, the columns of its unique index. `lock` is
`Generate.mu`: `ScheduledAsk`/`ScheduledStore` and `NowAsk`/`NowStore` hold it around the
call to the model, `IdleNudge` and `StaleNudge` only need it free. `tick` is what the
scheduler's goroutine holds: when the tick began, the slots left to fire, whether a nudge
waits for the lock. `news` is what the sweep of `commitments/module.go` marked and has
still to tell. `OpenRead`, `StartSession` and `AttachSession` are the statements of
`Open`. The slots a tick has left are a set of positions in the list of slots, fired from
the first on. `Restart` keeps the tables and nothing else. A row that cannot be written and a
model that fails are the same (`CreateOrNot`), which is also what the bound `MaxRows`
does.

### Settings and MemoryStore

`table` is the settings table, `plain`, `broken` and `current` the fields of `Service` and
`Resolver` of the same names, `saved` an update between its commit and `Apply`. `Boot` is
a start under any environment, key and release; `Crash` may come between any two steps.
What `Load` keeps (`Fits`) is told key by key: what `Build` refuses it refuses of one key at
a time, so the order the keys are tried in changes nothing.
`MemoryStore` extends it: what a setting changes there is which model embeds.
`memories[i]` has a body, the body its vector was computed of with the model that computed
it, and the label stored beside it. `task[w]` is a write between its statements, `run` the
reindex (its batch a function from the ids listed to the bodies listed with them, gone
through from the least id), `build` the doctrine build that holds `buildMu` and `waiting` those that want it.

### JournalSync

`file` is the journal folder, `rows` what `source_path` has in the memories. A change of a
file the watcher sees sets a timer; a timer and the goroutine it becomes are one member of
`tasks`, numbered by its change (`Walker` for a sync of the walk). `pending` is
`Watcher.pending`, path to timer. `Schedule` stops only a timer that `pending` has and that
has not fired, and `Callback` deletes whatever `pending` has for the path and goes on to wait
for the lock, so that an older sync or removal may run after a newer one. `Acquire` and
`Lock` are `LockSourcePath`: a waiter holds its connection of the pool too, and any waiter may
be next. The files of `Sub` are in a folder that may come and go with them (`MoveIn`,
`MoveOut`): `AddFolder` watches it and syncs nothing. `Crash` keeps files and rows.

`harmed` is history: the paths the code can leave wrong, because the watcher was not told of
a change or a removal, does not keep the two in order, or a sync stopped half way (section
"Harm" of the module lists the cases). `InStepUnlessHarmed` says that there are no others.
`SavedIsIngested`, what the repository's README promises, makes no exception, and fails
(section 6).

A body is as many chunks as `Chunks` says, which `MCJournalSync` checks against `Chunker`.

### SignIn and Tickets

`Tickets`: a state is handed out once and opens at most one session. `SignIn`: `owner` and
`session` are `auth_owner` and `auth_sessions`; `pending`, `handoff`, `setupOpen` and the
windows `keys` and `all` are process memory. A request is a record with the step it is at,
so that two callbacks with one state, two exchanges of one code or a touch and a sign-out
meet in any order. The refinement maps a ticket to the states and codes it is held in.

### CampaignMap

`rows`, `fronts`, `loops` and `sorties` are tables; `req[c]` carries the row a request will
write through the lookups of `place` and `Aim`; `WriteItem` and the like are single statements by
id, and `Transition` is the check made before on the row as it was read. `agreed` is history: what the owner entered or asked to keep.
`Theatre` and `Supply` read such rows and change nothing.

### Plan and Turn

`Plan` is `plan.go` as a function. `Turn` has the four kinds of goroutine of a consult: the
request's (`pc`, `job`, `round`), a seat each (`seat`), the heartbeat and the stream's
keep-alive. `call` is the model call in flight with its model, retry and whether text was
shown; `ctx` the context all of them share. `shown` is the reader's screen: pieces are
appended, `OnReset` empties it.

### Retrieval, DeepSearch, Roster

Functions: fusion, scores, selection, extra searches, the model's order; lenses, mode and
traps from the evidence found in the words. `DeepSearch` composes the first as one deep
answer, in which the model may put the candidates in any order.

### Relocation, Comfort, Chunker

Functions too. A plan's lines are a function from ids; `Build` is the whole of
`Build.Execute`, `ReplaceItems` the transaction it ends in, `UpdateItem` and `Record` an
edit. `Score` and `Radar` are in whole percentages. `Chunker` counts runes by words.

## 4. Runs

| Run | Bounds | Shows |
|---|---|---|
| `commitments` | 2 rows, 2 wordings, 2 requests, 2 candidates, a page of one row | distinct live loops, proposals accepted first, the ledger refinement, and both liveness properties |
| `beast` | 1 task, 2 requests, 2 minutes, 2 misses, 1 loop | misses are kept and counted once |
| `record` | 1 row, 1 quarter, 2 predictions of one wording, 1 objective, 2 requests and the review | closed quarters are final; seals, filings and scores agree with the quarter; live predictions are distinct; the laws of the staff's readings |
| `chat` | 2 tabs, 1 mode, cooldown 2, 4 messages kept, 6 in all | suggestions apart, the summary only of old messages |
| `checkins` | 2 slots, 3 times over 2 days, 1 request, 1 loop, 1 conversation, 2 rows | no call wasted on a fired slot, a stale loop named once, nudges for the quiet; every tick ends |
| `signin` | 2 requests, 1 address, 2 passwords, 1 ticket, 2 tokens, 1 attempt a window, 2 ticks | the ticket refinement; replaced passwords and sign-outs end sessions; budgets agree |
| `memory` | 2 settings, 2 models, 2 releases, 1 writer, 2 rows, 1 edit, 1 reindex in batches of 2, memo of 2, 2 updates, 2 boots | what runs is what is stored; memo, doctrine, reindex |
| `journal` | 3 files (one excluded, one in a folder), bodies of 1 and 2 chunks, 3 edits, 1 failure, 2 starts, pool of 9 | one version a file; files that are not harmed get in step; the laws of the chunker |
| `journal_pool` | 1 file, 2 edits, pool of 2 | violated: syncs wait for each other's connections for ever |
| `campaign` | 2 items, 1 front, 1 order, 2 requests, 1 proposal, 1 sortie | nothing unagreed on the map, aims fit; the laws of stays |
| `turn` | every plan, 1 retry, 2 models, 1 piece a call, 3 seats | the screen is the answer; silence after; every turn ends; the laws of plan, retrieval and roster |
| `deep_rerank` | 3 memories, 2 read, 2 ages | violated: the memory the model put first is not read |

Why the bounds are enough: every property relates at most two rows and every hazard needs
two actors, one of which holds an old read; two requests give each pair, and a third would
only repeat a role. Reduced constants keep their relation: the page limit is below the
number of rows (so that `findLive` can miss one), the cooldown is longer than a minute and
no longer than the time modelled, the re-arm floor lies between the shortest and the
longest clock, the memo is smaller than the texts times the models, a state and a code
expire within the time modelled and a session within it when unused, the pool of `journal`
is larger than the syncs there can be and that of `journal_pool` is not. Rows are never
reused after a delete. In `chat` six messages are two more than are kept, and hold three
answers, one more than the cooldown looks at. In `checkins` both slots are at the second of
two times of day, so that a tick finds them not due, due and in turn, a call can last past
midnight and a person can be quiet from one day to the next. In `journal` three edits are a
save, a removal and a save again, any of them while the process is down, or a folder that
comes, a file written in it and the folder gone; the second start comes after a crash.

Some runs leave out states in which parts that share no statement move together, by a
constraint of their MC module (`Apart`, in `MCSignIn` `Bound`):

- `commitments`: while a turn is read for orders, one request at most is under way; two
  race while it is not. Extraction and a request meet in the same statements as two requests.
- `record`: of two requests and the review at most two are under way, and objectives and
  the review on one hand and predictions on the other come apart (no statement reads both
  but the seal, which reads each alone).
- `checkins`: a history has conversations or stale loops.
- `signin`: two sign-ins to a history, by either way, and one device at a time that signs
  another out. Two is what a race for a ticket or a password takes.
- `memory`: memories and doctrine apart (they share no text), and memories within one life
  of the process and one change of settings (writes are lost with the process, and the table
  is as it was).
- `campaign`: items in their order; with both there, two requests together only when both
  change items; fronts and orders not both beside an item; fronts change and sorties fly
  while the map is empty.

What is proved (section 5) holds without these constraints.

`CHECK_DEADLOCK` is off where the system stops: in `chat` the conversation was deleted; in
`turn` and `deep_rerank` the answer was given; in `memory`, `campaign`, `journal` and
`journal_pool` the bounds on edits, starts and rows are used up.

Fairness, assumed of the program and never of people, answers or requests:

- `Commitments`: `WF(Sweep)`, because the ticker of `startSweep` runs for the life of the
  process; `WF(TimeOut)`, because the extraction runs under `extractTimeout`, and
  `WF(Returns)`, because a call whose context has ended returns. Not that the model answers:
  `SlotComesBack` has to hold by the deadline alone.
- `CheckIns`: the scheduler's goroutine goes on (`WF(CheckIdle)`), a call ends by its
  deadline (`WF(ScheduledStore)`, `WF(NowStore)`), and whoever waits for the mutex gets it
  (`SF(ScheduledAsk)`, `SF(IdleNudge)`): Go's `sync.Mutex` hands itself to a waiter that has
  starved for a millisecond.
- `JournalSync`: each change's task goes on when it can, and so do the walk and the event of a
  new folder (timers fire, goroutines that are ready run, the provider and Postgres answer).
  Fairness is weak, one conjunct for each task: who waits for a lock need not get it in turn.
- `Turn`: the request's own steps, the deadline, and that a call, a search or a tool ends
  once the context has (all take it); a seat, the heartbeat and the keep-alive likewise.

## 5. Proofs

Every safety property of the passing runs is proved for any values of the constants. Assumed are
only the named assumptions on the constants (`...Assumption`), which say what the constants
are: finiteness where the code counts, positive sizes, reserved values that are not among the
others, the slots in a list. None bounds a number of actors, rows or steps.

All proofs have one shape. An invariant, a conjunction of named parts, holds initially and is
kept by every step (`InitInv`, `NextInv`, below it a lemma per action or class of actions and
a step per part it can disturb); it implies the properties. In every module the state
properties alone are not inductive, for one reason: a request writes back what it read some
statements ago. What has to be added says what the actors in flight can still carry.

- `CommitmentsProofs`: `PendingDecisionsSound` says what requests in flight hold (a row that
  exists; never the status `proposed`; for a row that is still a proposal only accept or
  drop), without which an unconditional `SetStatusWrite` could take a proposal anywhere.
  Uniqueness of live wordings needs `Free` in the guard of every statement that makes a row
  live or rewords a live one. `CommitmentsImplementLedger` maps initial states to initial
  states and each step to a step of the ledger or one that leaves `status` and `text` alone;
  the mapping is the identity on those two, and the work is again that a write decided on an
  old read is still a move of the ledger. `ProposalsAcceptedFirst` is an action property over
  the same invariant.
- `CampaignRecordProofs`: `Carried` says that a quarter is written back as one that is not
  closed, a prediction as one that is filed, and scored only if kept. With it
  `RecordConsistent` is inductive; its part about distinct live predictions rests on `Free` in
  every statement that files, rewords or brings back. `ClosedStaysSealed` is an action
  property: every statement on a quarter asks for one that is not closed, in the statement
  itself.
- `CampaignMapProofs`: `Vouched` says what a request in flight may still write, by its kind
  and by what it has still to look up. It stays true because an item, once there, stays and
  keeps its type, a front stays, and an order never becomes a proposal again (`Grows`).
  From it `KeptFirst` and `AimsFit`, whoever edits, aims or withdraws in between.
- `TurnProofs`: `Shape` (a call stays within its chain, a seat within its rounds), `Screen`
  (what the reader sees at each place of the request's goroutine), `Quiet` (which goroutines
  may still write there). `ShownIsAnswer` is `Screen` where the answer was given,
  `QuietWriters` is `Quiet` from the joining of the seats on.
  Of conversations, `Conversation` says that every copy of the row a turn may still write
  summarizes old messages only, for the copy was so when it was read and messages only get
  older; `SummaryIsOfOld` is its part about the row. `SuggestionsSpaced` needs to remember
  who said what: `SpacedBy(by)` gives each suggestion to a tab (`by` is bound in the
  invariant, no variable is added) and says that a tab which has listed the messages knows
  all suggestions of its own, so that the cooldown counts from its last. Tabs are assumed to
  be finitely many.
  Of orders, `BoardTypeOK` is inductive with `Timely`: a re-arm still to run was listed at a
  time that has passed and goes to no less than the shortest clock from then. A late clock
  ran out before it was listed, so `Rearm`, which asks again whether it is late, moves it on;
  `Counts` says of each step that only this changes a count of misses, and the two action
  properties follow.
- `JournalSyncProofs`: at most one task of a path has its lock (`Owned`); what that one wrote
  so far (`Follows`); the rows as first chunks of one version (`Version`); `pending` has timers
  that have still to call back (`Listed`); numbers of tasks differ (`TasksOK`). `OneVersion`
  follows without any assumption on the order of timers, on failures or crashes: it rests on
  the lock and on each sync deleting before it inserts.
- `SignInProofs`: `Vouched` is what a request has proved by the step it is at (a login that
  is about to open a session verified the hash that is the owner's), `TicketOnce` that a
  ticket is in one place: at the provider, a code of the app, with one request, or redeemed.
  `OldPasswordOut` rests on the first, with the transaction that replaces the owner and ends
  sessions; `TicketsOpenOnce` on the second: every step is a step of `Tickets` or leaves the
  ticket where it is. `RevokedStaysOut` is an action property over what a session can be.
  `TotalHolds` counts attempts as a set of pairs, so that no sum is needed; `Budget` adds that
  no address's window begins a whole window after that of all addresses, so that when the
  latter rolls every attempt before it is of an older window and falls out of the count.
- `CheckInsProofs`: what a tick found when it began is so while its nudge waits for the lock
  (`Nudging`), news of a stale loop is paid for by its turning stale before it is told
  (`Told`, which counts the check-ins that name it), and the slot whose turn it is has no
  check-in while the scheduler holds the lock. `NudgesTheQuiet` is an action property.
- `MemoryStoreProofs`: `Configured` says that what runs was accepted and, during an update,
  that what `Apply` has still to put in place fits the table already; `Memo` that the queue
  lists the entries once; `Written` and `Running` what the writes and the reindex carry, with
  every row a batch is done with counted as done or failed; `Held` that, with no build waiting,
  the doctrine is in the model the settings name, because a build reads the model under
  `buildMu` after the change that started it. `ReindexProgresses` is an action property: a
  batch that ends with fewer failures than rows has rewritten one.

Only model-checked:

- liveness (`UntouchedGoesStale`, `SlotComesBack`, `TickEnds`,
  `InStepUnlessHarmed`, `TurnEnds`), which the proof system cannot do;
- the laws of the pure functions, evaluated over the inputs their ASSUMEs enumerate.

## 6. Disagreements with what the code says of itself

Two are runs that end in a violation, with a finding each:

- `journal_pool`: `LockSourcePath` holds a pool connection while the sync it protects needs
  another. With as many syncs in progress as the pool has connections none goes on, and
  nothing is ingested until a restart.
- `deep_rerank`: the order the model gave is selected from again by the heuristic score, so
  it changes neither what is read nor in which order.

`SavedIsIngested` fails in three more ways with a pool that suffices. They are the cases of
Harm that `InStepUnlessHarmed` leaves out, and each has a configuration of `MCJournalSync`
beside the runs, whose trace TLC prints:

- `MCJournalSyncRace.cfg` (1 file, 3 edits): a removal runs after the sync of the file saved
  again. `Stop` has no effect on a timer that fired, a callback deletes its successor's entry
  (`watcher.go:126-135`), and `RemovePath` does not look whether the file is there.
- `MCJournalSyncFolder.cfg` (1 file in a folder, 1 edit): a folder that appears is watched
  (`watcher.go:97-104`), but what is in it already is not synced before the next start.
- `MCJournalSyncCrash.cfg` (1 file, 1 edit, 2 starts): rows carry the hash of the whole file,
  so the first chunk alone makes the next sync pass it by; the rest is missing until the file
  changes.

The models allow others that no run is spent on. Checks made on a read with a write by id
that does not repeat them:

- an edit reopens an order just reported done (`beast/usecase/board.go:21` says done and
  abandoned are final); a turn adds an order put on the board while it was answered
  (`board.go:232`); two tabs erupt inside the cooldown;
- a sealed prediction is patched by a request that found the quarter open
  (`record_prediction.go:34`); a note puts a quarter back a phase; a seal is computed from
  reads made before the closing;
- a turn that began before a mode was left locks the conversation to it again
  (`chat.go:110`); two opens of one check-in start two conversations and the second replaces
  the first (`generate.go:391`); a double click on "check in now" calls the model twice;
- a status change outside the table `allowed`; an edit of one field of an item or a front
  that undoes another tab's edit of another.

Rules that do other than they say or than one would guess:

- `SendRecon` returns an existing loop without aiming it; an unknown can be resolved by a
  patch without an answer; a third order carried out can make a front read as outrun.
- A quick turn cuts a pinned roster short although `select.go:77` says "kept unchanged"; one
  that escalates keeps the two-minute deadline of quick; a greeting on quick escalates
  without a search; with no evidence the rivals of a lens used lately are seated.
- A vector can carry the label of a model that did not compute it, and an edit during a
  reindex can be left with the vector of the old text, both until the row is next embedded.
- A stay's line that a change of dates removes and another restores has lost its tick
  (`TickIsLostOnTheWay`); typing the very price the model guessed does not confirm it
  (`ConfirmingIsNotTyping`); prices paid in the old city stay when the destination changes
  (`PriceOfTheOldCity`); a check that costs nothing keeps the plan mixed and counts as
  unpriced after repricing (`ZeroStaysForeign`); the total may be in a currency in which
  nothing is left to buy (`TotalOfNothing`); the radar is empty when several critical
  items are missing beside covered ones (`RadarIsMute`).
- A chunk with its path and its overlap is longer than the limit entries are cut to when
  they are read (`StoredBeyondTheCap`).

Where the code does repeat the condition in its statement (`Rearm`, `UpdateCampaign`,
`SealCampaign`, `CreateOwner`, the unique indexes) the properties hold.

## 7. Not modelled

Journal capture (it appends a line to a watched file), the decoding and encoding of the web
API, the composition, the browser client, prompts, wording and layout. Of the modelled
components: due dates and costs of map items, the brief the shouter reads, the Brier
arithmetic, what a check-in says and the notification it sends, the text of answers and
their sources, search queries and the likeness of texts, hashing and the provider's
protocol, the staff's appraisal, requests over one stay that interleave, and failures of
the database itself other than a statement that fails or a pool that is empty.
