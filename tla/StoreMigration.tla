--------------------------- MODULE StoreMigration ---------------------------
(***************************************************************************)
(* The launch of a local ledger session (session.ts, start): the two       *)
(* migrators of migrate.ts with their journal and their pre-migration      *)
(* copies, the launch recovery behind them, the release of the copies, and *)
(* the rebuild of a pair of files from before the journal.                 *)
(*                                                                         *)
(* A migration step is its version (which its tag names) and the checksum  *)
(* of its statements.  A file is what the migrators read of it, `ran` (how *)
(* often the statements of each step really ran over its rows) and one     *)
(* datum: in the outbox one intent, in the replica that intent's effect    *)
(* and whether the watermark is past it.  SQLite is synchronous, so the    *)
(* steps of a launch are its commits and its file operations; a kill may   *)
(* come between any two of them.                                           *)
(***************************************************************************)
EXTENDS Integers

CONSTANTS
    Builds,            \* the builds of the app, installed in any order
    Chain,             \* the steps a build's chain has for a store
    PreJournalStores,  \* a build's session option: "rebuild" or "refuse"
    FirstFiles,        \* the pairs of files the first launch may find
    FirstCopies,       \* and the copies beside them
    FailingChecks,     \* the <<build, store, version>> whose check these rows fail
    NoCopy,            \* there is no pre-migration copy
    MaxFaults          \* bound on kills and failures

Stores == {"outbox", "replica"}
Steps == UNION {Chain[b][s] : b \in Builds, s \in Stores}
Versions(steps) == {t.version : t \in steps}

ASSUME ChainAssumption ==
    /\ Chain \in [Builds -> [Stores -> SUBSET [version : Nat \ {0}, sum : Nat]]]
    /\ \A b \in Builds, s \in Stores :
         /\ \E t \in Chain[b][s] : \A u \in Chain[b][s] : u.version <= t.version
         /\ \A t, u \in Chain[b][s] : t.version = u.version => t = u
ASSUME OptionAssumption ==
    /\ PreJournalStores \in [Builds -> {"rebuild", "refuse"}]
    /\ MaxFaults \in Nat

\* "queued" is an entry recovery selects above the watermark only, halted or not.
Intent == {"none", "queued", "deferred", "refused"}
Effect == {"none", "applied", "passed"}
File == [version : Nat, journaled : BOOLEAN, journal : SUBSET Steps,
         ran : [Steps -> Nat], data : Intent \cup Effect]

\* A file SQLite has just created.
Fresh == [version |-> 0, journaled |-> FALSE, journal |-> {},
          ran |-> [t \in Steps |-> 0], data |-> "none"]

\* A file tells the truth about its rows: nothing ran over a fresh one, and a
\* journal names exactly the steps that ran, once each, none above the version.
\* One from before the journal is not asked, but its rows are sound too.
Sound(f) ==
    /\ f.version = 0 => f.journal = {} /\ \A t \in Steps : f.ran[t] = 0
    /\ \A t \in f.journal : t.version <= f.version
    /\ f.journaled => \A t \in Steps : f.ran[t] = IF t \in f.journal THEN 1 ELSE 0
    /\ \A t, u \in Steps : t.version = u.version /\ f.ran[t] > 0 /\ f.ran[u] > 0
                             => t = u /\ f.ran[t] = 1

\* What recovery selects wherever the watermark is, or never again.
Marked == {"deferred", "refused"}

\* And of the one datum: only a marked intent was ever passed.
ASSUME FirstAssumption ==
    /\ FirstFiles \subseteq [Stores -> File]
    /\ FirstCopies \subseteq [Stores -> File \cup {NoCopy}]
    /\ NoCopy \notin File
    /\ \A f \in FirstFiles, s \in Stores : Sound(f[s])
    /\ \A c \in FirstCopies, s \in Stores : c[s] # NoCopy => Sound(c[s])
    /\ \A f \in FirstFiles :
         /\ f["outbox"].data \in Intent /\ f["replica"].data \in Effect
         /\ f["replica"].data = "passed" => f["outbox"].data \in Marked
    /\ \A c \in FirstCopies, f \in FirstFiles :
         /\ c["outbox"] # NoCopy =>
              /\ c["outbox"].data \in Intent
              /\ f["replica"].data = "passed" => c["outbox"].data \in Marked
         /\ c["replica"] # NoCopy => c["replica"].data \in Effect \ {"passed"}

VARIABLES
    build,     \* the installed build
    file,      \* the two database files
    copy,      \* the pre-migration copy beside each, or NoCopy
    stage,     \* where the launch is, "closed" or "ready"
    store,     \* the store this stage is about
    rebuilt,   \* has this launch rebuilt the pair?
    cause,     \* what the last launch that did not open reported
    faults,    \* kills and failures so far
    good,      \* history: the files when the app was last open and sound
    misread,   \* history: the files a commit reported as failed left at the
               \* version found, and nobody has accepted since
    unmarked,  \* history: a session opened, or stayed open, over the intent
               \* neither applied nor marked
    rewound    \* history: the replica's copy was put back; a later write had
               \* passed the intent in it, and the outbox no longer marks it

marks == <<misread, unmarked, rewound>>
vars == <<build, file, copy, stage, store, rebuilt, cause, faults, good, marks>>

Found(s) == file[s].version
Head(steps) == CHOOSE v \in Versions(steps) : \A w \in Versions(steps) : w <= v
Current(s) == Head(Chain[build][s])

\* What is now on disk is what the ledger starts over from.
Accepted(s) == good' = [good EXCEPT ![s] = file'[s]] /\ misread' = misread \ {s}
BothAccepted == good' = file' /\ misread' = {}

Init ==
    /\ build \in Builds
    /\ file \in FirstFiles
    /\ copy \in FirstCopies
    /\ stage = "closed" /\ store = "outbox" /\ rebuilt = FALSE
    /\ cause = <<"none", "outbox">> /\ faults = 0
    /\ good = file
    /\ misread = {} /\ unmarked = FALSE /\ rewound = FALSE

(***************************************************************************)
(* Failing and being killed                                                *)
(***************************************************************************)
Close(why) == stage' = "closed" /\ rebuilt' = FALSE /\ cause' = <<why, store>>

Fault == faults < MaxFaults /\ faults' = faults + 1

\* The process dies.  Every commit so far is on disk.
Kill ==
    /\ stage # "closed" /\ Fault
    /\ Close("killed")
    /\ UNCHANGED <<build, file, copy, store, good, marks>>

\* Bootstrap, recovery or an initial read throws: the ledger is closed and the
\* copies stay, for the app has not opened cleanly.
StartThrows ==
    /\ stage = "recover" \/ (stage = "release" /\ store = "outbox")
    /\ Fault /\ Close("threw")
    /\ UNCHANGED <<build, file, copy, store, good, marks>>

(***************************************************************************)
(* The migrators                                                           *)
(***************************************************************************)
Start ==
    /\ stage = "closed"
    /\ stage' = "migrate" /\ store' = "outbox" /\ rebuilt' = FALSE
    /\ UNCHANGED <<build, file, copy, cause, faults, good, marks>>

\* The outbox is migrated first, then the replica.
Onward(s) == IF s = "outbox" THEN stage' = "migrate" /\ store' = "replica"
                             ELSE stage' = "recover" /\ store' = "replica"

Newer(s) == Found(s) > Current(s)
Unknown(s) == Found(s) # 0 /\ Found(s) \notin Versions(Chain[build][s])
\* Mutant of PreJournal: the journal's absence is not noticed.
NeverPreJournal(s) == FALSE

PreJournal(s) == Found(s) # 0 /\ ~file[s].journaled
Edited(s) == /\ Found(s) # 0
             /\ \E t \in Chain[build][s], j \in file[s].journal :
                  t.version = j.version /\ t.sum # j.sum
Readable(s) == ~Newer(s) /\ ~Unknown(s) /\ ~PreJournal(s) /\ ~Edited(s)

\* The tags the journal holds; a file at version 0 has run nothing.
AppliedTags(f) == IF f.version = 0 THEN {} ELSE Versions(f.journal)

\* Mutant of Pending: the steps after the version found.
AfterTheVersion(s) == {t \in Chain[build][s] : t.version > Found(s)}

\* The steps a migrator will run: those whose tag is not journaled.
Pending(s) == {t \in Chain[build][s] : t.version \notin AppliedTags(file[s])}

Refuse(s) ==
    /\ stage = "migrate" /\ store = s
    /\ ~Readable(s)
    /\ Newer(s) \/ Unknown(s) \/ ~PreJournal(s)
         \/ PreJournalStores[build] = "refuse" \/ rebuilt
    /\ Close(CASE Newer(s) -> "newer" [] Unknown(s) -> "unknown"
               [] PreJournal(s) -> "prejournal" [] OTHER -> "edited")
    /\ UNCHANGED <<build, file, copy, store, faults, good, marks>>

NothingPending(s) ==
    /\ stage = "migrate" /\ store = s
    /\ Readable(s) /\ Pending(s) = {}
    /\ Onward(s)
    /\ UNCHANGED <<build, file, copy, rebuilt, cause, faults, good, marks>>

\* Mutant of MayCopy: the stale copy is overwritten.
AlwaysCopy(s) == TRUE

\* refuseStaleCopy: a copy nobody released is never copied over.
MayCopy(s) == copy[s] = NoCopy

\* A pending step's precondition, asked of the rows as they stand; a file at
\* version 0 has none to ask.
CheckHolds(s) ==
    Found(s) = 0 \/ \A t \in Pending(s) : <<build, s, t.version>> \notin FailingChecks

\* Mutant of MustMigrate: nothing pending does not return early.
EveryLaunch(s) ==
    /\ stage = "migrate" /\ store = s
    /\ Readable(s)

MustMigrate(s) ==
    /\ stage = "migrate" /\ store = s
    /\ Readable(s) /\ Pending(s) # {}

CheckFails(s) ==
    /\ MustMigrate(s) /\ ~CheckHolds(s)
    /\ Close("check")
    /\ UNCHANGED <<build, file, copy, store, faults, good, marks>>

RefuseStaleCopy(s) ==
    /\ MustMigrate(s) /\ CheckHolds(s)
    /\ ~MayCopy(s)
    /\ Close("stale")
    /\ UNCHANGED <<build, file, copy, store, faults, good, marks>>

\* The WAL cannot be checkpointed, or the file not copied.
CopyFails(s) ==
    /\ MustMigrate(s) /\ CheckHolds(s) /\ MayCopy(s)
    /\ Fault /\ Close("failed")
    /\ UNCHANGED <<build, file, copy, store, good, marks>>

TakeCopy(s) ==
    /\ MustMigrate(s) /\ CheckHolds(s)
    /\ MayCopy(s)
    /\ copy' = [copy EXCEPT ![s] = file[s]]
    /\ stage' = "copied"
    /\ UNCHANGED <<build, file, store, rebuilt, cause, faults, good, marks>>

\* The file one transaction leaves: the steps run, journaled, and the version.
Migrated(f, steps, toVersion) ==
    [f EXCEPT !.version = toVersion, !.journaled = TRUE,
              !.journal = @ \cup steps,
              !.ran = [t \in Steps |-> IF t \in steps THEN @[t] + 1 ELSE @[t]]]

RunSteps(s) ==
    /\ stage = "copied" /\ store = s
    /\ file' = [file EXCEPT ![s] = Migrated(@, Pending(s), Current(s))]
    /\ Onward(s)
    /\ UNCHANGED <<build, copy, rebuilt, cause, faults, good, marks>>

\* What becomes of the copy when the transaction threw and the version reads
\* `after`.
Released(s, found, after) == IF after = found THEN [copy EXCEPT ![s] = NoCopy] ELSE copy

\* The version cannot be read, or the copy cannot be removed: the copy stays.
Unreadable == -1

\* A step, the orphan check or the commit throws and everything rolls back.
RunFails(s) ==
    /\ stage = "copied" /\ store = s
    /\ Fault
    /\ \E after \in {Found(s), Unreadable} :
         /\ copy' = Released(s, Found(s), after)
         /\ Close(IF after = Found(s) THEN "failed" ELSE "kept")
    /\ UNCHANGED <<build, file, store, good, marks>>

\* The error is reported although the commit is on disk: restoring the foreign
\* keys throws, or the commit's own answer is lost.  A chain whose new step was
\* inserted below its head leaves the version as it was, and loses the copy.
RunFailsUncleanly(s) ==
    /\ stage = "copied" /\ store = s
    /\ Fault
    /\ file' = [file EXCEPT ![s] = Migrated(@, Pending(s), Current(s))]
    /\ \E after \in {Current(s), Unreadable} :
         /\ copy' = Released(s, Found(s), after)
         /\ misread' = IF after = Found(s) THEN misread \cup {s} ELSE misread
         /\ Close(IF after = Found(s) THEN "failed" ELSE "kept")
    /\ UNCHANGED <<build, store, good, unmarked, rewound>>

(***************************************************************************)
(* The rebuild of a pair from before the journal                           *)
(***************************************************************************)
Rebuild(s) ==
    /\ stage = "migrate" /\ store = s
    /\ ~Newer(s) /\ ~Unknown(s) /\ PreJournal(s)
    /\ PreJournalStores[build] = "rebuild" /\ ~rebuilt
    /\ stage' = "remove" /\ store' = "replica"
    /\ UNCHANGED <<build, file, copy, rebuilt, cause, faults, good, marks>>

RemoveDatabase(s) ==
    /\ stage = "remove" /\ store = s
    /\ file' = [file EXCEPT ![s] = Fresh]
    /\ stage' = "remove_siblings"
    /\ Accepted(s)
    /\ UNCHANGED <<build, copy, store, rebuilt, cause, faults, unmarked, rewound>>

\* The replica's files go first; after the outbox's, the launch starts again.
RemoveSiblings(s) ==
    /\ stage = "remove_siblings" /\ store = s
    /\ copy' = [copy EXCEPT ![s] = NoCopy]
    /\ store' = "outbox"
    /\ IF s = "replica" THEN stage' = "remove" /\ UNCHANGED rebuilt
                        ELSE stage' = "migrate" /\ rebuilt' = TRUE
    /\ UNCHANGED <<build, file, cause, faults, good, marks>>

(***************************************************************************)
(* Recovery and the release of the copies                                  *)
(***************************************************************************)
intent == file["outbox"].data
effect == file["replica"].data

\* The intent recovery selects: above the watermark, or deferred.
Outstanding == intent = "deferred" \/ (intent = "queued" /\ effect = "none")

SetData(s, d) == file' = [file EXCEPT ![s].data = d]

Release == stage' = "release" /\ store' = "outbox"

NothingOutstanding ==
    /\ stage = "recover" /\ ~Outstanding
    /\ Release
    /\ UNCHANGED <<build, file, copy, rebuilt, cause, faults, good, marks>>

\* Replay has answered the intent: it is applied or marked.
Answered == unmarked' = FALSE /\ UNCHANGED <<misread, rewound>>

ReplayApplied ==
    /\ stage = "recover" /\ Outstanding
    /\ SetData("replica", "applied") /\ Answered
    /\ IF intent = "deferred" THEN stage' = "clear" /\ UNCHANGED store ELSE Release
    /\ UNCHANGED <<build, copy, rebuilt, cause, faults, good>>

\* clearDispositionAt: a commit of its own, in the other file.
ClearDisposition ==
    /\ stage = "clear"
    /\ SetData("outbox", "queued")
    /\ Release
    /\ UNCHANGED <<build, copy, rebuilt, cause, faults, good, marks>>

\* Mutant of ReplayDeferred: the deferral is not marked.
DeferredUnmarked ==
    /\ stage = "recover" /\ Outstanding
    /\ Release /\ Answered
    /\ UNCHANGED <<build, file, copy, rebuilt, cause, faults, good>>

ReplayDeferred ==
    /\ stage = "recover" /\ Outstanding
    /\ SetData("outbox", "deferred") /\ Answered
    /\ Release
    /\ UNCHANGED <<build, copy, rebuilt, cause, faults, good>>

ReplayRefused ==
    /\ stage = "recover" /\ Outstanding
    /\ SetData("outbox", "refused") /\ Answered
    /\ Release
    /\ UNCHANGED <<build, copy, rebuilt, cause, faults, good>>

\* haltAt: this entry throws or has no executor, and the halt takes the place of
\* its mark; or an earlier one does, and this one stays as it is.  The session
\* opens all the same.
ReplayHalts ==
    /\ stage = "recover" /\ Outstanding
    /\ \E d \in {"queued", intent} :
         SetData("outbox", d) /\ unmarked' = (d = "queued")
    /\ Release
    /\ UNCHANGED <<build, copy, rebuilt, cause, faults, good, misread, rewound>>

\* The initial reads are done: this is the clean open.  Both copies are released.
ReleaseCopy(s) ==
    /\ stage = "release" /\ store = s
    /\ copy' = [copy EXCEPT ![s] = NoCopy]
    /\ IF s = "outbox"
         THEN stage' = "release" /\ store' = "replica" /\ UNCHANGED cause
         ELSE stage' = "ready" /\ store' = "outbox" /\ cause' = <<"none", s>>
    /\ UNCHANGED <<build, file, rebuilt, faults, unmarked, rewound>>
    /\ BothAccepted

\* The filesystem refuses to remove a copy.  The replica's goes even when the
\* outbox's could not.
ReleaseFails(s) ==
    /\ stage = "release" /\ store = s
    /\ Fault /\ Close("threw")
    /\ copy' = IF s = "outbox" THEN [copy EXCEPT !["replica"] = NoCopy] ELSE copy
    /\ UNCHANGED <<build, file, store, unmarked, rewound>>
    /\ BothAccepted

(***************************************************************************)
(* The open session, as far as the two files' data show it                 *)
(***************************************************************************)
StaysOpen == /\ BothAccepted
             /\ UNCHANGED <<build, copy, stage, store, rebuilt, cause, faults, rewound>>

WriteApplied ==
    /\ stage = "ready" /\ intent = "none"
    /\ file' = [file EXCEPT !["outbox"].data = "queued", !["replica"].data = "applied"]
    /\ StaysOpen /\ unmarked' = FALSE
WriteDeferred ==
    /\ stage = "ready" /\ intent = "none"
    /\ SetData("outbox", "deferred")
    /\ StaysOpen /\ unmarked' = FALSE
WriteRefused ==
    /\ stage = "ready" /\ intent = "none"
    /\ SetData("outbox", "refused")
    /\ StaysOpen /\ unmarked' = FALSE
\* apply throws something else, or the mark cannot be written: the entry stays
\* as the outbox commit left it.
WriteFailed ==
    /\ stage = "ready" /\ intent = "none"
    /\ SetData("outbox", "queued")
    /\ StaysOpen /\ unmarked' = TRUE
\* A later entry is applied: advanceAppliedSeq passes this one.
LaterWrite ==
    /\ stage = "ready" /\ intent # "none" /\ effect = "none"
    /\ SetData("replica", "passed")
    /\ StaysOpen /\ UNCHANGED unmarked
\* The session is closed, or the app left to the operating system.
Quit ==
    /\ stage = "ready" /\ Close("none")
    /\ UNCHANGED <<build, file, copy, store, faults, good, marks>>
\* The process dies between the outbox commit and the replica commit.
WriteKilled ==
    /\ stage = "ready" /\ intent = "none"
    /\ Fault /\ SetData("outbox", "queued") /\ BothAccepted
    /\ Close("killed") /\ unmarked' = FALSE
    /\ UNCHANGED <<build, copy, store, rewound>>

(***************************************************************************)
(* The owner: another build, or one of the two ways out of a stale copy    *)
(***************************************************************************)
Install(b) ==
    /\ stage = "closed" /\ b # build
    /\ build' = b /\ cause' = <<"updated", store>>
    /\ UNCHANGED <<file, copy, stage, store, rebuilt, faults, good, marks>>

GoBack(s) ==
    /\ stage = "closed" /\ cause = <<"stale", s>> /\ copy[s] # NoCopy
    /\ file' = [file EXCEPT ![s] = copy[s]]
    /\ copy' = [copy EXCEPT ![s] = NoCopy]
    /\ cause' = <<"none", s>> /\ Accepted(s)
    /\ rewound' = (rewound \/ (/\ s = "replica" /\ copy[s].data = "passed"
                               /\ intent \notin Marked))
    /\ UNCHANGED <<build, stage, store, rebuilt, faults, unmarked>>

GoForward(s) ==
    /\ stage = "closed" /\ cause = <<"stale", s>> /\ copy[s] # NoCopy
    /\ copy' = [copy EXCEPT ![s] = NoCopy]
    /\ cause' = <<"none", s>>
    /\ UNCHANGED <<build, file, stage, store, rebuilt, faults, unmarked, rewound>>
    /\ Accepted(s)

Migrate(s) ==
    \/ Refuse(s) \/ NothingPending(s) \/ CheckFails(s) \/ RefuseStaleCopy(s)
    \/ CopyFails(s) \/ TakeCopy(s) \/ RunSteps(s) \/ RunFails(s) \/ RunFailsUncleanly(s)

Next ==
    \/ Start \/ Kill \/ StartThrows
    \/ \E s \in Stores : \/ Migrate(s)
                         \/ Rebuild(s) \/ RemoveDatabase(s) \/ RemoveSiblings(s)
                         \/ ReleaseCopy(s) \/ ReleaseFails(s)
                         \/ GoBack(s) \/ GoForward(s)
    \/ NothingOutstanding \/ ReplayApplied \/ ReplayDeferred \/ ReplayRefused
    \/ ReplayHalts \/ ClearDisposition
    \/ WriteApplied \/ WriteDeferred \/ WriteRefused \/ WriteFailed \/ LaterWrite \/ WriteKilled \/ Quit
    \/ \E b \in Builds : Install(b)

Spec == Init /\ [][Next]_vars

(***************************************************************************)
(* Properties                                                              *)
(***************************************************************************)
Stages == {"closed", "migrate", "copied", "remove", "remove_siblings",
           "recover", "clear", "release", "ready"}
Causes == {"none", "newer", "unknown", "prejournal", "edited", "check", "stale",
           "failed", "kept", "threw", "killed", "updated"}

\* Every variable has its type, and while a migration's transaction is in
\* flight its file has a copy beside it and steps that are still to run.
TypeOK ==
    /\ build \in Builds
    /\ file \in [Stores -> File]
    /\ copy \in [Stores -> File \cup {NoCopy}]
    /\ stage \in Stages /\ store \in Stores /\ rebuilt \in BOOLEAN
    /\ cause \in Causes \X Stores /\ faults \in 0..MaxFaults
    /\ good \in [Stores -> File]
    /\ misread \subseteq Stores /\ unmarked \in BOOLEAN /\ rewound \in BOOLEAN
    /\ stage = "copied" => copy[store] # NoCopy /\ Pending(store) # {}

\* Whatever order builds are installed in, whatever is killed and whichever way
\* out the owner takes, no step's statements run twice over the same rows, nor
\* two steps of one version: "guessing runs a step twice over real rows".
NoStepRunsTwice ==
    \A s \in Stores, t, u \in Steps :
      (t.version = u.version /\ file[s].ran[t] > 0 /\ file[s].ran[u] > 0)
        => t = u /\ file[s].ran[t] = 1

\* A session that opened has run every step of its own build's chain, those
\* inserted below the version it found included, and has no copy left over.
ReadyIsComplete ==
    stage = "ready" =>
      \A s \in Stores : /\ copy[s] = NoCopy
                        /\ \A t \in Chain[build][s] : file[s].ran[t] = 1
                        /\ Found(s) = Current(s)

\* A file whose steps have run since the app was last open, and which nobody
\* has accepted since, has beside it a copy from before those steps: "keeps the
\* pre-migration copy until the app has opened cleanly once" (section 14.6).
\* The exception: "released when the rollback is provably clean" is asked of the
\* version alone, so a commit that leaves it as found loses the copy (`misread`).
SuspectFileHasItsCopy ==
    \A s \in Stores \ misread :
      file[s].ran # good[s].ran => copy[s] # NoCopy /\ copy[s].ran = good[s].ran

\* The intent was refused, is in the replica, or a launch will still select it:
\* migrations, rebuilds, kills in recovery, deferrals and either way out never
\* lose it.  Two things do.  A halted replay and a failed write leave it to a
\* session that stays open and whose next write passes it (`unmarked`), and so
\* does the replica's copy put back over a replay of an intent that was passed
\* in it (`rewound`): the outbox has dropped the mark.
NoIntentIsLost ==
    intent \notin {"none", "refused"} /\ ~unmarked /\ ~rewound
      => effect = "applied" \/ Outstanding
=============================================================================
