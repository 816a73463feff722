# TLA+ models of Waltning

Waltning is a personal ledger that lives on the phone: two SQLite files hold all of it, and a server, when there is
one, receives what the phone queued. This directory models the parts of it whose correctness depends on what happens
*between* two commits, two calls or two builds, model-checks them with TLC, and proves their main properties with
TLAPS.

## Inventory

### The parts, their state, and how they meet

| Part | Source | State it keeps | Operations | Model |
|---|---|---|---|---|
| Local write path | `packages/ledger/src/{write,outbox,recover,executor}.ts` | outbox rows, `outbox_seq.issued`, `local_meta.applied_seq`, the tables | `writeLocally`, `recoverOnLaunch`, `session.reset` | `LocalWrite`, `IntentLog` |
| Launch and migration | `packages/ledger/src/{session,migrate,open}.ts` | `user_version`, journal, tables of both files; the `.pre-migration` copies | `start`, `migrateOutbox`, `migrateReplica`, release, rebuild | `StoreMigration` |
| API registry writes | `apps/api/src/registry`, `modules/counterparties` | Postgres: `counterparties`, `audit_log`, `outbox_receipts` | `defineOperation`'s wrapper around `create_counterparty` | `RegistryWrite` |
| Backup and restore | `packages/ledger/src/backup` | none of its own; fills both files | `exportLedger`, `restoreBackup` | no: see *Not modelled* |
| Counterparty operations | `packages/ledger/src/counterparties` | counterparties, merges, distinct pairs, opening debts and the repayments linked to them | create, update, tell apart, merge, unmerge, settle, record and delete a debt | `CounterpartyMerge`, `OpeningDebts` |
| Transactions | `packages/ledger/src/transactions` | transactions, their category, obligation, discharge and link | create, update, delete, supersede, categorise several, settle | `Filing`, `OpeningDebts` |
| Categories | `packages/ledger/src/categories`, `apps/mobile/src/categories-screen.tsx` | the tree, two levels; a draft's pick; the undo toast | create, rename, move, convert, archive, merge | `Categories` |
| Other executors | `packages/ledger/src/{accounts,currencies,dashboard,brands,tags}` | the rest of the tables | one transaction each | their outcomes, in `LocalWrite` |
| Reads and figures | `packages/ledger/src/**/read-*.ts` | none | queries | no |
| App lock | `packages/client/src/security/app-lock` | a snapshot, the lock's generation, the time hidden | start, answer, unlock, lock, app-state events | `AppLock` |
| Client stores and hooks | `packages/client/src/{device,query,backup,ledger}` | small snapshots | hydrate, set, run, dismiss | no |
| Phone controller | `packages/client/src/ledger/create-phone-ledger` | a published snapshot | one method per operation | no: it is the caller of the write path |
| API reads, HTTP, tRPC | `apps/api/src/{http,trpc,modules}` | none | reads | no |
| Core | `packages/core` | none | money, dates, ids, age, the gate | no: pure functions |
| Server database | `packages/db`, `packages/schema` | declarations, rate backfill, seed | scripts | two unique indexes, in `RegistryWrite` |
| Interface | `packages/ui`, `apps/mobile` | navigation | rendering | no |

An action of a person goes *screen → phone controller → session method → `writeLocally`*, which commits an **intent**
in the outbox file and then its **effect** in the replica file. A launch opens both files, migrates the outbox and then
the replica, inserts the bootstrap rows, replays what the outbox says is outstanding, and only then releases the
copies the migrations took. The intents are meant for a drain that sends them to the API, whose registry wraps each
write in one Postgres transaction with an audit row and a receipt. The drain does not exist yet, nor does a route that
passes an entry id to the registry; both ends of that channel do and are modelled from their own side.

### What is hard here

* **Two files, no common transaction.** The process can die between any two commits. What is outstanding is decided
  from a watermark in one file and marks in the other.
* **A watermark over entries that do not all succeed.** Deferred, refused, failed and halted entries lie below
  entries that were applied.
* **Builds in any order.** An owner installs a newer build, an older one, a repaired one, over files that are
  mid-migration.
* **Concurrency on the server.** READ COMMITTED, unique indexes that make one transaction wait for another, and a
  phone that retries what may have happened.
* **Reversible operations.** An unmerge runs after arbitrary other writes.
* **A rule that many operations must keep.** A row gets into a debt category, or out of its half of a payment, by a
  capture, an edit of either field, a batch, a replacement or a settlement; a category is picked, then converted,
  archived or merged away before the pick is saved.
* **Awaited answers.** The app lock acts on state read before an `await`, while the app leaves and returns and the
  clock is set.

`PROJECT.json` lists the hazards at the lines where they bite, with the properties that cover each, or the reason why
none does yet.

### What makes each part correct

* *Write path*: every intent is applied exactly once or refused; nothing is silently skipped, repeated, or refused
  although it took effect; sequence numbers are never reused.
* *Migration*: no step runs twice over the same rows; an open session has run every step; a file that may be damaged
  has its copy; no data is dropped but by a rebuild or the owner; no intent is lost on the way.
* *Registry*: one effect per entry id; receipts and audit rows exactly for committed effects; answers are true; a retry
  is answered as the first call was.
* *Counterparties*: a merge loses nobody's money; an unmerge undoes the merge's own moves and nothing else; unique names;
  one live debt per person and currency; repayments never discharge more than the debt.
* *Transactions*: a debt names its person; a repayment linked to an opening debt is its person's, reduces it and fits;
  the two rows of one payment come and go together.
* *Categories*: a category is a group or a leaf, never both; nothing names what was merged away; what can be picked
  sits under nothing archived.
* *App lock*: the ledger is not shown after a lock until a prompt raised for that lock was answered; it is covered while
  the app is away; a stay of the grace or more locks; the first frame is left.

## Modules

### `LocalWrite` and `IntentLog`

`LocalWrite` is `writeLocally`, `recoverOnLaunch`, the outbox table with its counter, and the watermark. The outbox
is a function from entry ids to rows (`NoRow` where there is none) with the columns recovery reads: `state`,
`local_disposition`, the cause in `blocked_reason`, `seq`, `operation`, `opVersion`, and the row the payload names. The replica is
abstracted to the set of entries whose `effects` it holds, `applied` (the watermark) and whether the `rates` a priced
entry needs are there. SQLite is synchronous and there is one writer, so everything between two commits is one action:

| Action | Code |
|---|---|
| `Enqueue` | the outbox transaction of `writeLocally`, which claims the seq |
| `WriteApplied` / `WriteRefused` / `WriteDeferred` / `WriteFailed` | the replica transaction, or what its catch block commits instead |
| `Launch` | `sending` back to `pending`, then the `outstanding` query |
| `ReplayApplied`, `ReplayRewritten` + `CommitRewritten`, `ClearDisposition` | a replayed entry: the upcast's rewrite, the effect, the clearing of its mark, each a commit |
| `ReplayRefused`, `ReplayDeferred`, `ReplayFailed`, `ReplayUnknown`, `RecoveryDone` | the other ends of a visit, and the halt |
| `RemoveReplica`, `RemoveOutbox` | `session.reset` |
| `Crash` | a force-quit, in any phase of `CrashPhases` |
| `DrainClaims`, `DrainAcknowledged` | external: what the outbox's states are there for |

An executor is abstracted to how its apply may end (`MayEnd`): a create is an upsert and takes effect again; an edit
needs the row it names and, applied twice, is stale; a priced operation is deferred while the rate is missing.
`IntentLog` is what the path promises about one intent: waiting, then effective or refused, once, until the server has
it or the ledger is erased. `IntentsAreKept` is the refinement, with the log computed from the outbox and the effects.

### `StoreMigration`

The launch as `session.start` runs it, over two files and the copy beside each. A file is what the migrators read of
it (version, whether there is a journal, the steps in it), `ran` (how often each step's statements really ran) and one
datum: the intent in the outbox, its effect in the replica. A build is a chain of steps per store and the option that
decides between rebuilding and refusing a pair from before the journal. Every refusal, the precondition check, the
stale-copy refusal, the copy, the one transaction that runs the steps, its failure with and without a clean rollback,
the rebuild file by file, recovery as it touches the two data, and the two releases are actions; so are `Kill` at every
stage, `Install` of any build, and what the stale-copy message tells the owner to do (`GoBack`, `GoForward`), for either
store. Copying is one step: what an interrupted copy leaves behind is the platform's.

What happens to the copy after a failure is decided as the code decides it, by comparing the version after with the
version found: `RunFails` rolled back, `RunFailsUncleanly` reports an error over a commit, and in both the version may
be unreadable. Recovery applies, defers, refuses or halts (`ReplayHalts`, at this intent or at one before it), and a
write of the open session may fail and leave its intent as the outbox commit left it (`WriteFailed`); after a halt or a
failed write the session is open and `LaterWrite` may move the watermark past the intent.

Three variables are history, and mark the three places where the code breaks its promise (below, *Known divergences*):
`misread`, the files whose commit was taken for a clean rollback; `unmarked`, a session that stays open over an intent
neither applied nor marked; `rewound`, the replica's copy put back over a replay of an intent that had been passed in
it. The properties except those three and nothing else, and TLC reaches each of them.

### `RegistryWrite`

`defineOperation`'s handler around `create_counterparty`, one action per statement: gate, `findReceipt`, the insert,
the audit row, the receipt, the commit. Calls run concurrently, with requests that share entries, payloads and names.
What an open transaction has inserted follows from where it is; an insert whose key another open transaction holds is
not enabled until that one ends, which is Postgres's wait. A call may lose its connection before, or in, its commit,
and the server may die. `requestHash` is the identity of the payload, which is what its canonical form makes it: two payloads that
differ only in key order are one payload here.

Only `create_counterparty` exists as a write, so the gate reduces to "an agent's call needs approval". Its input is
trimmed by the schema before it is hashed; that is why payloads differ in case, not in spaces.

### `OpeningDebts`

The two tables that the next two modules share, `openingDebts` and `transactions`, with what an executor reads of them
and the three writes they have in common. Rows of both are numbered in the order they were written, and the number
stands for id, `created_at` and date, which are what `replanOpeningLinks` compares. The helpers take the rows as
parameters, because an executor reads what its own earlier statements wrote: `Fits` is the test of a new repayment,
`Replanned` is `replanOpeningLinks`, `OwedOf` a person's balance. Each of the two modules adds its own fields and
operations; the helpers read only the fields both have.

### `CounterpartyMerge`

The executors of `packages/ledger/src/counterparties`, with the three transaction executors that write the same rows,
each one action, since each is one replica transaction with one writer; a refusal rolls back, so it is an action that
is not enabled. `counterparties`, `distinctPairs` and `merges` are its own tables, beside those of `OpeningDebts`. A
transaction keeps who it was with, who owes or is owed, the opening debt it pays down and the payment it is a half of.

`MergedRows` and `UnmergedRows` are what a merge and an unmerge make of the rows.
`UnmergeUndoesMerge` uses them to ask, in every state and of every merge that could be made in it, whether taking it
back at once restores the rows; `OnlyTheRecordIsUndone` and `MergesMoveNoMoney` speak of unmerges that come later.
`LinksFitTheirDebt` leaves out the repayments an unmerge handed back, the debts it took apart and the debts it put a
link back to: the link a repayment got while the two were one person stays, and may name a debt of the winner's, and a
link put back may be to a debt that was repaid meanwhile (below, *Known divergences*).

Not in it: `allocate_shares`, the contribution role, a second currency, the dates of debts, and the versions a caller
read. Categories, and a discharge that differs from the amount, are in `Filing`.

### `Filing`

The executors of `packages/ledger/src/transactions` and what they do to a debt, over the rows of `OpeningDebts` with
the people held still. It gives each transaction a category and an amount of its own beside the figure that counts. A
category is what the rules tell apart: one of Borrowed and Lent, one of the two repayments, or any other.
`PlannedSplit` is `planOpeningSplit`: a payment that crosses the end of an opening debt becomes two rows, in whole
units, each at least one; a payment of one unit stays one row and unlinked.

| Action | Code |
|---|---|
| `CreateTransaction` | `create_transaction`, which refuses a debt without its person and any repayment |
| `SettleDebt` | `settle_debt`, of a new payment or of a row re-filed as one, which it deletes first |
| `UpdateTransaction` | `update_transaction`: leaving a debt category clears the obligation, the discharge and the link; a changed person, role or amount derives the link again |
| `CategorizeBatch` | `categorize_batch`, all rows or none |
| `SupersedeTransaction` | `supersede_transaction`, with `carryDischarge` and `replacePair` (`Carried`) |
| `DeleteTransaction`, `RecordOpeningDebt`, `DeleteOpeningDebt` | `OpeningDebts`' |

A batch takes the rows it is given, and a settlement the row it re-files, without asking for the other half of a
payment. `parted` records those payments, and `HalvesAgree` is about the rest.

### `Categories`

The six operations of the settings screen. An action is the screen that offers the operation, the controller that checks
it and the executor that writes it; what any of the three refuses is not enabled. Crossing them are a category picked in
Quick add (`PickCategory`) and saved after the tree changed (`SaveDraft`), the one undo toast (`TakeBack`), which takes
back a rename or a move after whatever came in between, and deleted rows, which go on naming their category. A line of a
split transaction and a recurring rule name a category the way a transaction does and stand among the transactions.
`merged` is history. One thread reads a row's version where it writes it, so the compare-and-swap on
versions never refuses and is not there.

### `AppLock`

`createAppLock` with the platform that feeds it. Every handler runs to its next `await`: `Start` with the three reads
behind it (`EnrolmentAnswers`/`EnrolmentFails`, `MethodNamed`, `ChoiceRead`/`ChoiceUnread`, `HistoryRead`), `Unlock` and
what its prompt comes back with (`PromptSucceeds`, `PromptFails`, `PromptUnavailable`, `EnrolmentReread`), `Answers` with
its probe, its proof and its write (`AnswerProbes`, `DisarmProved`, `DisarmRefused`, `AnswerEnds`), `Lock`, `Dispose`,
and `AppGoes`, the synchronous listener of the app's state. Between any two of them the app leaves or returns, the clock
ticks or is set back, the device's secret is set or removed in its settings, and the process is killed and launched
again. `gate` is what the closure holds; a synchronous helper of the code is an operator from one gate to the next.

`owed`, `overtaken`, `late`, `stay` and `turned` are history, and say what the code does not: whether anybody has proved
to be the owner since the last lock, and how long the cover really stood. `overtaken` marks a lock that came while an
answer was under way, `late` a prompt or answer that ended while the app was away. In both windows the code shows
what it should not (app-lock.ts:391, :439), the properties leave out exactly those, and hold of everything else.

## Runs

| Run | Shows | Instance |
|---|---|---|
| `LocalWrite_safe` | nothing is lost or wrongly refused; refines `IntentLog`; a deferred entry resolves | 3 entries, 4 operations, an upgrade with an upcast, every kill but one, no unexpected throws |
| `LocalWrite_faults` | seqs, refusals and replays with unexpected throws and an older build that lacks an executor | the same, a downgrade |
| `LocalWrite_failed_write` | violation: an entry whose apply threw is passed by the watermark | one build |
| `StoreMigration_safe` | steps run once, an open session is complete, copies outlive doubt, no intent is lost, but for the three divergences below | 5 builds, fresh, old and half-deleted pairs, 3 faults |
| `RegistryWrite_safe` | one effect per entry, tables that agree, true answers, replay, and every call ends | 3 calls, 2 entries, 3 payloads of 2 names, 2 faults |
| `CounterpartyMerge_safe` | names and open merges, links within their debts, what an unmerge restores and what it leaves alone, no money moved to others | 3 people, 2 names, 3 rows, 2 merges, amounts to 2 |
| `CounterpartyMerge_straddle` | violation: a row with the one and owed by the other comes back naming the loser twice | the same |
| `Filing_safe` | a debt names its person, settlements fit their debt, halves stay together | 2 people, 4 rows, amounts to 3 |
| `Filing_edit` | violation: an edit that takes a linked repayment out of its category keeps the link, whatever the amount | the same, one patch (`MCRaises`) that raises the amount past the debt |
| `Categories_safe` | group or leaf, nothing under what was merged, no namesakes but by a move, nothing live under an archived group | 4 categories, 2 names, 1 transaction |
| `Categories_depth` | violation: convert makes a group inside a group | the same |
| `AppLock_safe` | a proof before the ledger, the cover while away, the relock after the grace, the first frame is left | grace of 2 ticks, a clock of 3, 2 locks |

**Bounds.** `EntryIds` bounds the number of writes: three are enough for an entry to be passed by a second while a
third depends on the first, which every violation found uses at most. Three faults let one launch be killed in a
migration, the next in its recovery and a third while the copies are released. `MaxFaults` in `RegistryWrite` allows
the first call and its retry both to fail. Three calls are a first call, its retry and a rival for the name or for
the entry. The builds of `MCStoreMigration` are chosen one per kind of change: a step at the end, a step inserted
below, a step whose check fails, a statement edited.

In `CounterpartyMerge` three rows are two debts and a repayment, or a debt and a payment that
splits, and two merges are one and the next after or beside it. What may be asked for comes from small sets
(`Patches`, `Debts`, `Payments`, `Edits`, ...): the third person is created under the name of one merged away and may
take another's, each merge of the ring anna, ania, marek may be asked for, debts add up, cancel, turn and grow. People
may stop once rows and merges are used up, so its runs do not look for deadlock, nor do those of `Filing`.

In `Filing` four rows are a debt, a payment in two rows and what replaces or follows it, or two debts and their
payments. The amounts make a payment cross the end of a debt, round to nothing on one side and be a single unit. No
operation reads a deleted row, and ids that are not live matter only by being taken, so the run looks at states through
a `VIEW` of the rows that are live. Replacing a pair by another pair takes five rows and is left to the proof of
`HalvesStayTogether`; restating the amount of a linked repayment is in `CounterpartyMerge_safe`. `Filing_edit` needs one patch, the one that
takes a repayment of one out of its category and makes it three (`MCRaises`).

In `Categories` the seeded tree is an expense group with a leaf in it and a debt leaf beside it, and a fourth category
may be created in either place and of either kind: enough for a merge on top of a merge, a leaf moved between groups
and back, and a conversion in both directions under a pending pick or a pending undo. One row is enough, since
the properties are about a row and its category, never about two rows.

In `AppLock` a stay of two ticks is too long and the clock has room for one more; two locks let an old prompt meet a
newer one. Kills are not bounded.

**Fairness.** `LocalWrite`, `StoreMigration`, `CounterpartyMerge`, `Filing` and `Categories` have none: the premise of
`DeferredResolves` says that the app is launched again and recovers, and only what follows from that is claimed, and in
the others nothing has to happen. `RegistryWrite` has weak fairness on the statements of each call, since Node and
Postgres go on with a statement that can run; no call has to begin and nothing has to fail. `CallsEnd` under it says
that waiting for one another's keys is never circular: a call waits for a name first and for an entry second, and
whoever holds an entry waits for nothing. `AppLock` has weak fairness on `Start`, which the layout calls when it mounts,
and on the timers behind a start's reads (`EnrolmentFails`, `ChoiceUnread`, `HistoryRead(TRUE)`): the platform itself
may never answer.

`LocalWrite_safe` leaves out exactly two things the code may do: a throw that is neither a refusal nor a deferral
(`LocalWrite_failed_write`), and a kill before `clearDispositionAt` (below); `LocalWrite_faults` leaves out the kill
only. `StoreMigration_safe` leaves out nothing of what the module describes.

## Findings

Each is a violation run, and `PROJECT.json` quotes the text it contradicts.

1. **An unexpected throw loses the entry** (`LocalWrite_failed_write`, `write.ts:415`). write.ts:370-372 trusts
   recovery to replay it; the next applied write moves the watermark past it and no mark brings it back. An entry
   that halted a launch is passed by the same step, against recover.ts:143-146 (the instance of `LocalWrite_faults`
   breaks `NoSilentLoss` that way too).
2. **A row that straddles a merge does not come back** (`CounterpartyMerge_straddle`,
   `unmerge-counterparties.executor.ts:137`): the record keeps the row and not which of its links moved.
3. **An edit keeps a link that no longer fits** (`Filing_edit`, `update-transaction.executor.ts:460`): a linked
   repayment is taken out of its debt category by a patch that also names the person and raises the amount. The edit
   compares the discharge it has just cleared, and the debt then reads as overpaid.
4. **A group inside a group** (`Categories_depth`, `convert-leaf-group.executor.ts:43`): Convert looks at what is
   filed under a leaf and never at where the leaf sits, against TAXONOMY.md R2.

### Known divergences without a run

Met while modelling, and either seen by changing one constant or left out of the model; the models say where.

* *A kill before the mark is cleared refuses what was applied* (`recover.ts:296`). With `CrashPhases <- AllPhases`
  `LocalWrite` breaks `RefusedNeverTookEffect`: the replayed edit is stale against its own effect.
* *Going back with one copy loses an intent* (`migrate.ts:1731`). The message names one store's files, and the
  interrupted launch's recovery had changed the other: an intent deferred, passed by a later write and then replayed has
  lost its mark in the outbox, and the replica's copy is from before the replay. `NoIntentIsLost` excepts it (`rewound`)
  and breaks without the exception.
* *A commit that leaves the version is taken for a clean rollback* (`migrate.ts:1766-1774`, against `:1742-1751`:
  "released when the rollback is provably clean", "nothing was written"). The version is all that is compared, and a
  step inserted below the head does not change it: when the error comes after the commit, from the `finally` pragma at
  `:1657` or the commit's own answer, the copy of a migrated file is released. `SuspectFileHasItsCopy` excepts
  those files (`misread`) and breaks without the exception.
* *A session opens over an intent nobody will replay* (`recover.ts:343-382`, `write.ts:415`): finding 1, with two
  files. After a halt or a failed write the next applied write passes it. `NoIntentIsLost` excepts it (`unmarked`) and
  breaks without the exception.
* *"Nothing has been written" is not so* (`session.ts:632`, `migrate.ts:980`): when the replica's check fails the
  outbox has migrated and committed.
* *A retry that overlaps its first call is refused* (`define.ts:182`): the receipt is looked for once, before the
  insert that waits, and not again after it fails. `LaterRetryReplays` is about retries that begin after the commit.
* *An unmerge runs into an index* (`merge-opening-debts.ts:197`): a debt recorded after the merge cancelled two is a
  row of its own, and the deleted row beside it is revived. `Unmerge` is not enabled where the index refuses.
* *An unmerge can overpay a debt* (`merge-opening-debts.ts:228-242`). A repayment handed back by one unmerge stays
  linked to the winner's debt; a second merge's re-plan takes it off and records the link it had; the debt is repaid by
  another row; the second unmerge puts the first link back without asking what is open, and the debt is repaid twice.
  It takes six rows and two merges of the same pair, more than the run's bound: it was met while proving
  `LinksFitTheirDebt`, whose inductive step failed there.
* *A start can stay on the blank frame* (`app-lock.ts:505`, against `:47-51`): the read that names the biometric has no
  timer. `StartSettles` excepts that read: the one before it and the two after it each
  lead out of the blank frame, whatever fails or never answers.
* *A restore is always refused* (`backup/restore.ts:87`): see *Not modelled*.
* *A replacement drops a discharge*: superseding a settlement that is one row, with no link or one that no longer
  fits, writes a plain row, whereas `replacePair` (`supersede-transaction.executor.ts:284-290`) keeps the discharge.
* *Half a payment is filed on its own*: `categorize_batch` and the re-filing of `settle_debt` take one row of a pair.
  `HalvesAgree` excepts those pairs.

## Proofs

Eight modules prove what follows for every value of the constants, any number of entries, builds, calls, rows, locks
and failures. Every invariant, action property and refinement of a passing run is a theorem, but for the three liveness
properties.

* `LocalWriteProofs`. `TypeCorrect`; `SeqsAreNeverReused` and `WatermarkCovers` (from `QueueInv`: seqs of queued rows
  are distinct and at most `issued`, the watermark is at most `issued` and at least the seq of every effect);
  `NothingIsReplayedTwice` and `RefusalsTookNoEffect` under `ClearingIsSafe` (no kill between an effect and the
  clearing of its mark), from `ReplayInv`, which also tracks what the replay in progress still has to visit;
  `NothingIsLost` under `NothingFails` (no unexpected throws, no missing executor), from `KeepInv`;
  `DependencyRefusalsAreFinal` under both, from `DependInv`: an entry comes after the one that brings its row, and a
  launch under way has noted (`anyDeferred`) whatever is deferred and no longer before it, so a missing row whose
  entry may still land is never taken for a refusal. `IntentsAreKeptAlways` is the refinement of `IntentLog`, under
  `ClearingIsSafe` alone: every step is one move of one intent, an erase, or none. The assumptions are hypotheses of
  the theorems; the findings say what happens without them. `WatermarkCovers` states a lemma of the proof and is the
  property of no run.
* `StoreMigrationProofs`. All five properties of `StoreMigration_safe`. `NoStepRunsTwice` is not inductive: a journal
  could lie. `Journaled` adds that every file *and every copy* is `Sound`: a journal names exactly the steps that ran,
  once each, none above the file's version. `SuspectFilesKeepTheirCopy` (from `CopiesInv`) adds where a copy may be
  missing: at the stages that take or drop one, nothing of the migration is unaccepted. It is about every file but those
  in `misread`, whose commit left the version as found. `OpenSessionsAreComplete`
  (from `LaunchInv`) adds that the outbox is complete when the replica's turn comes, and both files are from the
  recovery on. `IntentsAreNotLost` has no hypothesis. `IntentInv` adds that a replica's copy in which the intent
  was passed outlives the effect only beside a new file (`PassedCopyIsOld`), what recovery and a rebuild have done by each stage
  (`StagesInv`), and, unless `rewound`, that what the watermark passed is marked, in the outbox and in its copy, or was
  left `unmarked` (`PassedIsMarked`, `CopiesAgree`).
* `RegistryWriteProofs`. `TypeCorrect`, `EntriesTakeEffectOnce`, `TablesStayInAgreement`, `AnswersStayTrue`,
  `LaterRetriesReplay`. `KeysInv` says what the two unique indexes maintain over committed rows and open transactions
  together; with it `TablesInv` (receipts, audit, names, answers) is inductive, and `OneEffectPerEntry` follows from
  receipts being unique per entry. `LaterInv` adds that a retry begun after a commit never gets past `findReceipt`.
* `OpeningDebtsProofs`. What the helpers of `OpeningDebts` compute, for any rows: `ReplannedRows` says what
  `replanOpeningLinks` may do to links and that it never repays its target beyond its size. `Total` is a fold, so is the
  choice of which repayments fit, and what a fold computes holds by induction over its size. The library's induction
  theorems take an operator and cannot be used here; instead a least counterexample is taken (`LeastCounterexample`,
  from the well-foundedness of `<` on the naturals) and shown not to exist. `SumIsTheSame`, `SumTakesOut` and
  `SumOfBoth` then give sums the laws that the rest needs.
* `CounterpartyMergeProofs`, for any people, names, rows and edits, in three layers. *The people*: `NamesStayUnique`,
  `OpenMergesNeverMeet` and `UnmergesUndoTheirRecord`. `IInv` adds only the shape of the counterparties and the merge
  records: nothing about the rows is needed, since an unmerge's reach follows from how `UnmergedRows` is built from
  the record (`UnmergedRowsAreRecorded`). *The rows*: `RowsAreTyped` and `LinksAlwaysFit`. `TypeInv` adds to the types
  that rows are numbered without gaps and that every record names people and rows there are, the debts its links were
  to among them. `LinksFitTheirDebt` is inductive beside it: an operation either re-plans all the repayments of a debt
  (`ReplannedRows`), adds one that fits (`OneMoreFits`), or is an unmerge, whose exceptions then hold the debt.
  `UnmergesUndoTheirMerge` computes, case by case (the loser's debt handed over, summed up into one, or cancelled),
  the merge and then its unmerge, and finds the rows unchanged; it needs besides that `openingDebts` is a function
  with nothing but its rows (`DebtsAreATable`). *The money*: `MergesKeepTheMoney`. A merge hands over or sums up; an
  unmerge of a sum must restore figures that add up to what the sum is now, which is not in the rows but in the
  record: `Sums` says that while a merge is open the loser's row stays deleted and its own, the winner's stays the
  winner's, and the two recorded figures add up to the one the merge left. It is kept by every write because open merges never meet, so nobody else's merge has touched the two.
* `FilingProofs`. `DebtsHaveAPerson`, `HalvesStayTogether`, `RowsAreTyped` and `SettlementsFit`. `IInv` adds that rows
  are numbered without gaps (`Numbered`), have the fields they should (`RowsTyped`), and that a pair is named by a row
  there is (`PairsKnown`), without which a new payment could be taken for the half of an old one. `AmountsInv` is
  inductive beside it and gives the other two: the fields of the rows, the links to debts there are, and every debt
  settled within its size. `PlanFits` is where a payment is split: whatever the share rounds to, both halves are at
  least a unit (`ShareLeavesSome`), and the linked one takes what was open.
* `CategoriesProofs`. All five properties of `Categories_safe`. `IInv` adds that what is named exists
  (`NamesWhatIsThere`), that what was merged stays archived (`MergedIsArchived`), and what makes the toast safe
  (`ToastStands`): a category in use is moved back only to a group in use or to the root.
  `NamesakesAreMoved` is about a step and needs only the types: an insert and a rename ask every sibling, the archived
  ones too, and no other step but a move touches a name, a parent or a kind.
* `AppLockProofs`. `TypeCorrect`, `LedgerWaitsForProof`, `LedgerIsCovered` and the action property `LongStaysRelock`.
  `Inv` adds that a start's early steps are blank (`StartingIsBlank`), that an answer under way owes nothing unless a
  lock overtook it (`AnswersOweNothing`), and that a cover has its departure and its length (`CoverIsTimed`).

The assumptions on the constants (`ConstantsAssumption`, `RowsAssumption`, `FirstAssumption`, `ChainAssumption`,
`OptionAssumption`, `RequestAssumption`, `BoundsAssumption`) are evaluated by TLC in every run of their module.

Model-checked only: the liveness properties `DeferredResolves`, `CallsEnd` and `StartSettles`: what must eventually
happen, under fairness or a premise about later launches, is out of the prover's reach. Some theorems have a hypothesis
without which the code does break the property (`ClearingIsSafe`, `NothingFails`), and some
properties except what the code gets wrong, each time named above.

## Not modelled

* **Backup and restore.** `restoreBackup` refuses a store with any row outside the tables in `SEEDED`
  (`backup/restore.ts:87`), which lists `local_meta` and the dashboard's two tables. Through the session it is always refused:
  `start` inserts the currencies and the taxonomy before anybody can ask for a restore (`session.ts:596-745`). A
  faithful model has one action and it is not enabled; what the code after it would do is out of reach.
* **The phone controller** (`create-phone-ledger.ts`). It builds the payloads of the operations and publishes what the
  replica holds; what it *checks* before a write is in the actions of `Categories`.
* **Client stores and hooks**, a few dozen lines each, with a hazard listed.
* The statements of the migrations and the values the executors write (decimals, dates, names); split lines,
  transfers, adjustments; accounts, currencies, brands, tags and the dashboard, one transaction each, abstracted in
  `LocalWrite` to how they may end; reads and figures; the foreign-key toggle around a migration; what a platform leaves
  of an interrupted file copy; grants of an agent; everything marked "no" in the inventory. Most of the repository is
  interface, translations and pure functions over decimals and dates, which have no states to check.

## Plan

1. `create-device-preference`, `use-query` and the backup hooks: one module of a store that hydrates, sets and is
   disposed of, with late answers against later decisions.
2. Split lines and their sum, and `allocate_shares`, on top of `Filing`; an abstract ledger whose names are aliases,
   where an unmerge drops the alias, and the merge shown to implement it.
3. `Restore`, once `SEEDED` names what a launch seeds.
4. Proofs: the refinement of the alias ledger of item 2, and what the split lines of item 2 keep.
