----------------------------- MODULE LocalWrite -----------------------------
(***************************************************************************)
(* The phone's write path: packages/ledger/src/write.ts, outbox.ts,        *)
(* recover.ts and the watermark of migrate.ts.                             *)
(*                                                                         *)
(* A write is two commits in two SQLite files.  The outbox file takes the  *)
(* intent first; the replica file takes its effect and, in the same        *)
(* transaction, the watermark applied_seq.  The process can die between    *)
(* any two commits; a launch replays what the watermark and the            *)
(* dispositions say is outstanding.  SQLite is synchronous and the phone   *)
(* has one writer, so what lies between two commits is one step here.      *)
(*                                                                         *)
(* What an executor does to the ledger's tables is abstracted to whether   *)
(* its effect is in the replica (effects), which row its payload names     *)
(* (target) and whether it needs or supplies an exchange rate.             *)
(***************************************************************************)
EXTENDS Integers, FiniteSets

CONSTANTS
  EntryIds,     \* the ids clients mint; bounds how many writes are made
  NoEntry,      \* no entry
  Operations,   \* the registry's operation names
  EditOps,      \* those whose payload names a row another entry brings
  PricedOps,    \* those that need an exchange rate to be applied
  RateOps,      \* those that bring one
  Builds,       \* the app builds that may be installed over the same files
  Registry,     \* Registry[b][o]: opVersion of o's executor in b, 0 if none
  Upcasts,      \* Upcasts[o]: operations an older o may be upcast to
  Faults,       \* {"apply"}: an apply may throw something not a LocalRefusal
  CrashPhases   \* the phases in which the process may be killed

ASSUME ConstantsAssumption ==
  /\ NoEntry \notin EntryIds
  /\ EditOps \subseteq Operations
  /\ PricedOps \subseteq Operations
  /\ RateOps \subseteq Operations
  /\ Registry \in [Builds -> [Operations -> Nat]]
  /\ Upcasts \in [Operations -> SUBSET Operations]
  /\ Faults \subseteq {"apply"}

VARIABLES
  outbox,       \* the queue, one row per entry (outbox file)
  issued,       \* outbox_seq.issued (outbox file)
  applied,      \* local_meta.applied_seq (replica file)
  effects,      \* entries whose effect is in the tables (replica file)
  rates,        \* whether the rate a priced operation needs is held (replica)
  phase,        \* what the process is doing; "off" when it is not running
  build,        \* the build that runs
  current,      \* the entry being applied
  todo,         \* what recoverOnLaunch selected and has not yet visited
  anyDeferred,  \* recoverOnLaunch's anyDeferredSoFar
  minted        \* history: every id ever minted

outboxFile  == <<outbox, issued>>
replicaFile == <<applied, effects, rates>>
process     == <<phase, build, current, todo, anyDeferred>>
vars == <<outboxFile, replicaFile, process, minted>>

Phases == {"off", "recovering", "committing", "clearing",
           "ready", "applying", "wiping"}
OUTBOX_STATE == {"pending", "sending", "blocked", "stalled"}
DISPOSITION  == {"refused", "replay_halted", "deferred"}
Outcomes     == {"applied", "refusal", "dependency", "deferral", "error"}

NoRow == [state |-> "absent", disposition |-> "none", reason |-> "none",
          seq |-> 0, operation |-> "none", target |-> NoEntry, opVersion |-> 0]

Row == [state: OUTBOX_STATE \cup {"absent"},
        disposition: DISPOSITION \cup {"none"},
        reason: Outcomes \cup {"none"},     \* blocked_reason, by its cause
        seq: Nat,
        operation: Operations \cup {"none"},
        target: EntryIds \cup {NoEntry},
        opVersion: Nat]

Queued(e)   == outbox[e].state # "absent"
Deferred(e) == outbox[e].disposition = "deferred"

Init ==
  /\ outbox = [e \in EntryIds |-> NoRow]
  /\ issued = 0
  /\ applied = 0
  /\ effects = {}
  /\ rates = FALSE
  /\ phase = "off"
  /\ build \in Builds
  /\ current = NoEntry
  /\ todo = {}
  /\ anyDeferred = FALSE
  /\ minted = {}

-----------------------------------------------------------------------------
(***************************************************************************)
(* What applying an entry may come to.  A LocalRefusal is "dependency"     *)
(* when the row the payload names is not in the replica and "refusal" for  *)
(* every other check (a collision, a stale version).  A create is an       *)
(* upsert and takes effect again; an edit names the version it read, so    *)
(* applied twice it is stale.                                              *)
(***************************************************************************)
MayEnd(e, o, outcome) ==
  LET missing  == o \in EditOps /\ outbox[e].target \notin effects
      unpriced == o \in PricedOps /\ ~rates
      stale    == o \in EditOps /\ e \in effects
  IN \/ outcome = "applied" /\ ~missing /\ ~unpriced /\ ~stale
     \/ outcome = "dependency" /\ missing
     \/ outcome = "deferral" /\ unpriced
     \/ outcome = "refusal" /\ (stale \/ e \notin effects)
     \/ outcome = "error" /\ "apply" \in Faults

\* Mutant of ClaimedSeq: max(seq) + 1 over the rows still queued.
HighestSeqPlusOne ==
  1 + (CHOOSE n \in 0..issued :
         /\ n \in {outbox[e].seq : e \in EntryIds}
         /\ \A e \in EntryIds : outbox[e].seq <= n)

\* claimSeq: upsert of the one counter row, inside the insert's transaction.
ClaimedSeq == issued + 1

\* advanceAppliedSeq: moves the watermark only upwards.
AdvancedTo(seq) == IF applied < seq THEN seq ELSE applied

\* The replica transaction: the effect and the watermark commit together.
CommitEffect(e, o) ==
  /\ effects' = effects \cup {e}
  /\ rates' = (rates \/ o \in RateOps)
  /\ applied' = AdvancedTo(outbox[e].seq)

\* Mutant of Refused: the two columns swapped.
SwappedRefusal(row, why) ==
  [row EXCEPT !.state = "refused", !.disposition = "blocked", !.reason = why]

Refused(row, why) ==
  [row EXCEPT !.state = "blocked", !.disposition = "refused", !.reason = why]

\* Mutant of MarkedDeferred: no mark at all.
Unmarked(row, why) == row

MarkedDeferred(row, why) ==
  [row EXCEPT !.disposition = "deferred", !.reason = why]

Halted(row) ==
  [row EXCEPT !.state = "blocked", !.disposition = "replay_halted",
              !.reason = "error"]

\* Mutant of Cleared: only the state is put back.
StateCleared(row) == [row EXCEPT !.state = "pending"]

Cleared(row) ==
  [row EXCEPT !.disposition = "none", !.state = "pending", !.reason = "none"]

-----------------------------------------------------------------------------
(***************************************************************************)
(* writeLocally.                                                           *)
(***************************************************************************)

\* Step 1: the intent, in a transaction of the outbox file alone.
Enqueue(e, o, target) ==
  /\ phase = "ready"
  /\ e \notin minted
  /\ Registry[build][o] > 0
  /\ IF o \in EditOps THEN target \in minted ELSE target = NoEntry
  /\ outbox' = [outbox EXCEPT ![e] =
       [state |-> "pending", disposition |-> "none", reason |-> "none",
        seq |-> ClaimedSeq, operation |-> o, target |-> target,
        opVersion |-> Registry[build][o]]]
  /\ issued' = ClaimedSeq
  /\ minted' = minted \cup {e}
  /\ phase' = "applying"
  /\ current' = e
  /\ UNCHANGED <<replicaFile, build, todo, anyDeferred>>

WriteEnds(outcome) ==
  /\ phase = "applying"
  /\ MayEnd(current, outbox[current].operation, outcome)
  /\ phase' = "ready"
  /\ current' = NoEntry
  /\ UNCHANGED <<issued, build, todo, anyDeferred, minted>>

\* Step 2: the effect, in a transaction of the replica file.
WriteApplied ==
  /\ WriteEnds("applied")
  /\ CommitEffect(current, outbox[current].operation)
  /\ UNCHANGED outbox

\* A refusal is final, unless it is about a missing row and some entry of
\* the queue is still deferred: then the row may yet come.
WriteRefused(why) ==
  /\ why \in {"refusal", "dependency"}
  /\ WriteEnds(why)
  /\ outbox' = [outbox EXCEPT ![current] =
       IF why = "dependency" /\ \E d \in EntryIds : Deferred(d)
       THEN MarkedDeferred(@, why) ELSE Refused(@, why)]
  /\ UNCHANGED replicaFile

WriteDeferred ==
  /\ WriteEnds("deferral")
  /\ outbox' = [outbox EXCEPT ![current] = MarkedDeferred(@, "deferral")]
  /\ UNCHANGED replicaFile

\* Any other throw, and a mark that could not be written, leave the entry
\* exactly as the first commit left it.
WriteFailed ==
  /\ WriteEnds("error")
  /\ UNCHANGED <<outbox, replicaFile>>

-----------------------------------------------------------------------------
(***************************************************************************)
(* recoverOnLaunch.                                                        *)
(***************************************************************************)

Requeued(row) == IF row.state = "sending" THEN [row EXCEPT !.state = "pending"]
                                          ELSE row

\* Mutants of Outstanding: off by one; without the deferred entries; with the
\* refused ones.
FromTheWatermark ==
  {e \in EntryIds : /\ Queued(e)
                    /\ \/ outbox[e].seq >= applied
                          /\ outbox[e].disposition # "refused"
                       \/ Deferred(e)}
AboveTheWatermark ==
  {e \in EntryIds : /\ Queued(e)
                    /\ outbox[e].seq > applied
                    /\ outbox[e].disposition # "refused"}
EvenRefused ==
  {e \in EntryIds : Queued(e) /\ (outbox[e].seq > applied \/ Deferred(e))}

\* The query `outstanding`: above the watermark and not refused, or deferred
\* wherever the watermark is.
Outstanding ==
  {e \in EntryIds : /\ Queued(e)
                    /\ \/ outbox[e].seq > applied
                          /\ outbox[e].disposition # "refused"
                       \/ Deferred(e)}

\* A launch, of whichever build is installed: sending goes back to pending
\* in one transaction, then the outstanding entries are selected.
Launch(b) ==
  /\ phase = "off"
  /\ build' = b
  /\ outbox' = [e \in EntryIds |-> Requeued(outbox[e])]
  /\ todo' = Outstanding
  /\ anyDeferred' = FALSE
  /\ phase' = "recovering"
  /\ UNCHANGED <<issued, replicaFile, current, minted>>

\* Mutant of Head: the newest entry first.
NewestFirst(e) ==
  /\ phase = "recovering"
  /\ e \in todo
  /\ \A f \in todo : outbox[e].seq >= outbox[f].seq

\* Replay visits the selected entries in ascending seq.
Head(e) ==
  /\ phase = "recovering"
  /\ e \in todo
  /\ \A f \in todo : outbox[e].seq <= outbox[f].seq

Upcast(e) ==
  /\ outbox[e].opVersion < Registry[build][outbox[e].operation]
  /\ Upcasts[outbox[e].operation] # {}

\* The operations an entry may be replayed as.
Replayable(e) ==
  IF Upcast(e) THEN Upcasts[outbox[e].operation] ELSE {outbox[e].operation}

\* haltAt: mark the entry and stop. The session opens all the same.
Halt(e) ==
  /\ outbox' = [outbox EXCEPT ![e] = Halted(@)]
  /\ todo' = {}
  /\ phase' = "ready"
  /\ UNCHANGED <<issued, replicaFile, build, current, anyDeferred, minted>>

\* No executor for the operation, or none for what it is upcast to.
ReplayUnknown(e) ==
  /\ Head(e)
  /\ \/ Registry[build][outbox[e].operation] = 0
     \/ \E o \in Replayable(e) : Registry[build][o] = 0
  /\ Halt(e)

\* The entry's executor ran, as operation o, with this outcome.
Replays(e, o, outcome) ==
  /\ Head(e)
  /\ Registry[build][outbox[e].operation] > 0
  /\ o \in Replayable(e)
  /\ Registry[build][o] > 0
  /\ MayEnd(e, o, outcome)

ReplayFailed(e, o) ==
  /\ Replays(e, o, "error")
  /\ Halt(e)

ReplayApplied(e) ==
  /\ Head(e)
  /\ ~Upcast(e)
  /\ Replays(e, outbox[e].operation, "applied")
  /\ CommitEffect(e, outbox[e].operation)
  /\ current' = e
  /\ todo' = todo \ {e}
  /\ phase' = "clearing"
  /\ UNCHANGED <<outboxFile, build, anyDeferred, minted>>

\* An upcast entry is rewritten in the outbox before the replica commits.
ReplayRewritten(e, o) ==
  /\ Head(e)
  /\ Upcast(e)
  /\ Replays(e, o, "applied")
  /\ outbox' = [outbox EXCEPT ![e].operation = o,
                              ![e].opVersion = Registry[build][o]]
  /\ current' = e
  /\ todo' = todo \ {e}
  /\ phase' = "committing"
  /\ UNCHANGED <<issued, replicaFile, build, anyDeferred, minted>>

CommitRewritten ==
  /\ phase = "committing"
  /\ CommitEffect(current, outbox[current].operation)
  /\ phase' = "clearing"
  /\ UNCHANGED <<outboxFile, build, current, todo, anyDeferred, minted>>

\* clearDispositionAt: a commit of its own in the outbox file.
ClearDisposition ==
  /\ phase = "clearing"
  /\ outbox' = [outbox EXCEPT ![current] = Cleared(@)]
  /\ current' = NoEntry
  /\ phase' = "recovering"
  /\ UNCHANGED <<issued, replicaFile, build, todo, anyDeferred, minted>>

\* A refusal is final, unless it is about a missing row and an entry visited
\* earlier in this pass deferred.
ReplayRefused(e, o, why) ==
  /\ why \in {"refusal", "dependency"}
  /\ Replays(e, o, why)
  /\ outbox' = [outbox EXCEPT ![e] =
       IF why = "dependency" /\ anyDeferred
       THEN MarkedDeferred(@, why) ELSE Refused(@, why)]
  /\ todo' = todo \ {e}
  /\ UNCHANGED <<issued, replicaFile, phase, build, current, anyDeferred, minted>>

ReplayDeferred(e, o) ==
  /\ Replays(e, o, "deferral")
  /\ outbox' = [outbox EXCEPT ![e] = MarkedDeferred(@, "deferral")]
  /\ anyDeferred' = TRUE
  /\ todo' = todo \ {e}
  /\ UNCHANGED <<issued, replicaFile, phase, build, current, minted>>

RecoveryDone ==
  /\ phase = "recovering"
  /\ todo = {}
  /\ phase' = "ready"
  /\ UNCHANGED <<outboxFile, replicaFile, build, current, todo, anyDeferred, minted>>

-----------------------------------------------------------------------------
(***************************************************************************)
(* The rest of the world.                                                  *)
(***************************************************************************)

\* A force-quit, and every throw out of start: only the files remain.
Crash ==
  /\ phase \in CrashPhases \ {"off"}
  /\ phase' = "off"
  /\ current' = NoEntry
  /\ todo' = {}
  /\ anyDeferred' = FALSE
  /\ UNCHANGED <<outboxFile, replicaFile, build, minted>>

\* session.reset closes the session and removes the replica's file first ...
RemoveReplica ==
  /\ phase = "ready"
  /\ applied' = 0
  /\ effects' = {}
  /\ rates' = FALSE
  /\ phase' = "wiping"
  /\ UNCHANGED <<outboxFile, build, current, todo, anyDeferred, minted>>

\* ... then the outbox's, and starts again.
RemoveOutbox ==
  /\ phase = "wiping"
  /\ outbox' = [e \in EntryIds |-> NoRow]
  /\ issued' = 0
  /\ phase' = "off"
  /\ UNCHANGED <<replicaFile, build, current, todo, anyDeferred, minted>>

\* The drain, which is not in this repository yet: it claims a pending entry
\* and removes it once the server has taken it.
DrainClaims(e) ==
  /\ phase = "ready"
  /\ outbox[e].state = "pending"
  /\ outbox' = [outbox EXCEPT ![e].state = "sending"]
  /\ UNCHANGED <<issued, replicaFile, process, minted>>

DrainAcknowledged(e) ==
  /\ phase = "ready"
  /\ outbox[e].state = "sending"
  /\ outbox' = [outbox EXCEPT ![e] = NoRow]
  /\ UNCHANGED <<issued, replicaFile, process, minted>>

-----------------------------------------------------------------------------
WriteStep ==
  \/ \E e \in EntryIds, o \in Operations, t \in EntryIds \cup {NoEntry} :
       Enqueue(e, o, t)
  \/ WriteApplied
  \/ \E why \in Outcomes : WriteRefused(why)
  \/ WriteDeferred
  \/ WriteFailed

RecoveryStep ==
  \/ \E b \in Builds : Launch(b)
  \/ \E e \in EntryIds : ReplayUnknown(e)
  \/ \E e \in EntryIds, o \in Operations : ReplayFailed(e, o)
  \/ \E e \in EntryIds : ReplayApplied(e)
  \/ \E e \in EntryIds, o \in Operations : ReplayRewritten(e, o)
  \/ CommitRewritten
  \/ ClearDisposition
  \/ \E e \in EntryIds, o \in Operations, why \in Outcomes : ReplayRefused(e, o, why)
  \/ \E e \in EntryIds, o \in Operations : ReplayDeferred(e, o)
  \/ RecoveryDone

WorldStep ==
  \/ Crash
  \/ RemoveReplica
  \/ RemoveOutbox
  \/ \E e \in EntryIds : DrainClaims(e)
  \/ \E e \in EntryIds : DrainAcknowledged(e)

Next == WriteStep \/ RecoveryStep \/ WorldStep

Spec == Init /\ [][Next]_vars

-----------------------------------------------------------------------------
(***************************************************************************)
(* Type invariant.                                                         *)
(***************************************************************************)
TypeOK ==
  /\ outbox \in [EntryIds -> Row]
  /\ issued \in Nat
  /\ applied \in Nat
  /\ effects \subseteq EntryIds
  /\ rates \in BOOLEAN
  /\ phase \in Phases
  /\ build \in Builds
  /\ current \in EntryIds \cup {NoEntry}
  /\ (phase \in {"applying", "committing", "clearing"}) <=> (current \in EntryIds)
  /\ todo \subseteq EntryIds
  /\ anyDeferred \in BOOLEAN
  /\ minted \subseteq EntryIds

(***************************************************************************)
(* Safety.                                                                 *)
(***************************************************************************)

\* claimSeq hands out each number once, even after a drain emptied the queue,
\* and always one the watermark has not passed: a write whose seq was at or
\* below applied_seq would never be found outstanding.
SeqIsNeverReused ==
  /\ applied <= issued
  /\ \A e \in EntryIds : Queued(e) => outbox[e].seq \in 1..issued
  /\ \A e, f \in EntryIds :
       Queued(e) /\ Queued(f) /\ e # f => outbox[e].seq # outbox[f].seq
  /\ phase = "applying" => outbox[current].seq > applied

\* advanceAppliedSeq: the watermark covers every effect the replica holds of
\* an entry still queued, so only a deferred entry can be applied twice.
EffectsUnderWatermark ==
  \A e \in effects : Queued(e) => outbox[e].seq <= applied

\* The rule of recover.ts's `outstanding`: an entry nobody marked, or that
\* halted a launch, and whose effect is missing stays above the watermark,
\* where a launch finds it (recover.ts on `replay_halted`: it "keeps halting
\* replay behind it").
NoSilentLoss ==
  \A e \in EntryIds :
    Queued(e) /\ e \notin effects /\ outbox[e].disposition \in {"none", "replay_halted"}
      => outbox[e].seq > applied

\* outbox.ts on `refused`: "the write never took effect here".
RefusedNeverTookEffect ==
  \A e \in EntryIds : outbox[e].disposition = "refused" => e \notin effects

\* No launch applies again an entry whose effect is in the replica.
ReplayNeverRepeats == todo \cap effects = {}

\* A refusal for a missing row is trustworthy: the entry that was to bring
\* the row is, while it is queued, refused as well.
DependencyRefusalIsFinal ==
  \A e \in EntryIds :
    outbox[e].disposition = "refused" /\ outbox[e].reason = "dependency"
      => LET t == outbox[e].target
         IN t \in EntryIds /\ Queued(t) =>
              t \notin effects /\ outbox[t].disposition = "refused"

(***************************************************************************)
(* The inductive invariants behind them.                                   *)
(***************************************************************************)

\* The two files and the process agree on which entries exist.
QueueInv ==
  /\ SeqIsNeverReused
  /\ EffectsUnderWatermark
  /\ effects \subseteq minted
  /\ \A e \in EntryIds : Queued(e) => e \in minted /\ outbox[e].operation \in Operations
  /\ \A e \in EntryIds : ~Queued(e) => outbox[e].disposition = "none"
  /\ \A e \in todo : Queued(e)
  /\ current \in EntryIds => Queued(current) /\ current \notin todo
  /\ phase \notin {"recovering", "committing", "clearing"} => todo = {}
  /\ phase = "wiping" => applied = 0

\* An applied entry carries no mark, save the one about to be cleared.
ReplayInv ==
  /\ \A e \in effects :
       outbox[e].disposition # "none" => phase = "clearing" /\ e = current
  /\ ReplayNeverRepeats
  /\ phase \in {"applying", "committing"} => current \notin effects
  /\ phase = "applying" => outbox[current].disposition = "none"
  /\ \A e \in todo : outbox[e].disposition # "refused"
  /\ phase \in {"committing", "clearing"} => outbox[current].disposition # "refused"

\* Without a mark and without its effect: what only the watermark can find.
Outlying(e) ==
  /\ Queued(e) /\ e \notin effects
  /\ outbox[e].disposition \in {"none", "replay_halted"}

\* Such entries exist only while something is about to be done about them.
KeepInv ==
  /\ \A e \in EntryIds : Outlying(e) =>
       /\ outbox[e].seq > applied
       /\ phase \in {"off", "wiping"} \/ e = current \/ e \in todo
  /\ phase = "clearing" => current \in effects
  /\ phase = "committing" =>
       \A f \in todo : outbox[current].seq <= outbox[f].seq

\* What names a row comes after the row's own entry, and a launch under way
\* knows of every entry that is deferred: it will visit it, or has.
DependInv ==
  /\ \A e, t \in EntryIds : Queued(e) /\ outbox[e].target = t =>
       t \in minted /\ (Queued(t) => outbox[t].seq < outbox[e].seq)
  /\ phase \in {"recovering", "committing", "clearing"} =>
       \A d \in EntryIds : Deferred(d) => d \in todo \/ d = current \/ anyDeferred
  /\ DependencyRefusalIsFinal

(***************************************************************************)
(* The abstract specification, and what each entry is in it.               *)
(***************************************************************************)
Status(e) ==
  IF e \notin minted THEN "unknown"
  ELSE IF ~Queued(e) THEN "gone"
  ELSE IF e \in effects THEN "effective"
  ELSE IF outbox[e].disposition = "refused" THEN "refused"
  ELSE "waiting"

Intents == INSTANCE IntentLog WITH log <- [e \in EntryIds |-> Status(e)]

\* writeLocally and recoverOnLaunch together keep every intent: it waits,
\* then takes effect or is refused, and neither is ever undone by a replay.
IntentsAreKept == Intents!Spec

(***************************************************************************)
(* Liveness.  A deferred entry does not wait for ever: if its rate is       *)
(* there to stay and the app goes on being closed and reopened, some        *)
(* launch applies or refuses it (unless the drain or a reset takes it).     *)
(***************************************************************************)
Relaunched == []<>(phase = "off") /\ []<>(phase = "ready")

DeferredResolves ==
  Relaunched /\ <>[]rates => \A e \in EntryIds : []<>(~Deferred(e))

=============================================================================
