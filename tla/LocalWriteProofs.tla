--------------------------- MODULE LocalWriteProofs -------------------------
(***************************************************************************)
(* Proofs about LocalWrite, for every value of its constants.              *)
(***************************************************************************)
EXTENDS LocalWrite, TLAPS

USE ConstantsAssumption DEF process, replicaFile, outboxFile

-----------------------------------------------------------------------------
(***************************************************************************)
(* What the marks do to a row of the outbox.                               *)
(***************************************************************************)

\* Every mark write.ts and recover.ts put on an entry yields a legal row.
LEMMA MarksAreRows ==
  ASSUME NEW row \in Row, NEW why \in Outcomes
  PROVE  /\ Refused(row, why) \in Row
         /\ MarkedDeferred(row, why) \in Row
         /\ Halted(row) \in Row
         /\ Cleared(row) \in Row
         /\ Requeued(row) \in Row
  <1> USE DEF Row, OUTBOX_STATE, DISPOSITION, Outcomes
  <1>1. Refused(row, why) \in Row
    BY DEF Refused
  <1>2. MarkedDeferred(row, why) \in Row
    BY DEF MarkedDeferred
  <1>3. Halted(row) \in Row
    BY DEF Halted
  <1>4. Cleared(row) \in Row
    BY DEF Cleared
  <1>5. Requeued(row) \in Row
    BY DEF Requeued
  <1> QED
    BY <1>1, <1>2, <1>3, <1>4, <1>5

\* No mark touches the entry's place in the queue, or its operation.
LEMMA MarksKeepSeq ==
  ASSUME NEW row \in Row, NEW why,
         NEW r, r \in {Refused(row, why), MarkedDeferred(row, why), Halted(row),
                       Cleared(row), Requeued(row)}
  PROVE  r.seq = row.seq /\ r.operation = row.operation
  <1> USE DEF Row
  <1>1. CASE r = Refused(row, why)
    BY <1>1 DEF Refused
  <1>2. CASE r = MarkedDeferred(row, why)
    BY <1>2 DEF MarkedDeferred
  <1>3. CASE r = Halted(row)
    BY <1>3 DEF Halted
  <1>4. CASE r = Cleared(row)
    BY <1>4 DEF Cleared
  <1>5. CASE r = Requeued(row)
    BY <1>5 DEF Requeued
  <1> QED
    BY <1>1, <1>2, <1>3, <1>4, <1>5

LEMMA NoRowIsRow == NoRow \in Row
  BY DEF NoRow, Row

-----------------------------------------------------------------------------
(***************************************************************************)
(* Type correctness.                                                       *)
(***************************************************************************)
LEMMA TypeInit == Init => TypeOK
  <1> SUFFICES ASSUME Init PROVE TypeOK
    OBVIOUS
  <1>1. outbox \in [EntryIds -> Row]
    BY NoRowIsRow DEF Init
  <1> QED
    BY <1>1 DEF Init, TypeOK, Phases

LEMMA TypeStep == TypeOK /\ [Next]_vars => TypeOK'
  <1> SUFFICES ASSUME TypeOK, [Next]_vars PROVE TypeOK'
    OBVIOUS
  <1> USE DEF TypeOK, Phases
  <1>1. ASSUME NEW e \in EntryIds, NEW o \in Operations,
               NEW t \in EntryIds \cup {NoEntry}, Enqueue(e, o, t)
        PROVE  TypeOK'
    BY <1>1 DEF Enqueue, ClaimedSeq, Row, OUTBOX_STATE
  <1>2. CASE WriteApplied
    BY <1>2 DEF WriteApplied, WriteEnds, CommitEffect, AdvancedTo, Row
  <1>3. ASSUME NEW why \in Outcomes, WriteRefused(why) PROVE TypeOK'
    BY <1>3, MarksAreRows DEF WriteRefused, WriteEnds
  <1>4. CASE WriteDeferred
    BY <1>4, MarksAreRows DEF WriteDeferred, WriteEnds, Outcomes
  <1>5. CASE WriteFailed
    BY <1>5 DEF WriteFailed, WriteEnds
  <1>6. ASSUME NEW b \in Builds, Launch(b) PROVE TypeOK'
    <2>1. \A e \in EntryIds : Requeued(outbox[e]) \in Row
      BY MarksAreRows DEF Outcomes
    <2>2. outbox' \in [EntryIds -> Row]
      BY <1>6, <2>1 DEF Launch
    <2> QED BY <1>6, <2>2 DEF Launch, Outstanding
  <1>7. ASSUME NEW e \in EntryIds, Halt(e), phase = "recovering" PROVE TypeOK'
    BY <1>7, MarksAreRows DEF Halt, Outcomes
  <1>8. ASSUME NEW e \in EntryIds, ReplayApplied(e) PROVE TypeOK'
    BY <1>8 DEF ReplayApplied, Head, CommitEffect, AdvancedTo, Row
  <1>9. ASSUME NEW e \in EntryIds, NEW o \in Operations, ReplayRewritten(e, o)
        PROVE  TypeOK'
    <2>1. Registry[build][o] \in Nat
      OBVIOUS
    <2>2. [outbox[e] EXCEPT !.operation = o, !.opVersion = Registry[build][o]] \in Row
      <3> HIDE DEF TypeOK
      <3>1. outbox[e] \in Row
        BY DEF TypeOK
      <3> QED BY <2>1, <3>1 DEF Row
    <2>3. outbox' \in [EntryIds -> Row]
      BY <1>9, <2>1, <2>2 DEF ReplayRewritten, Row
    <2> QED BY <1>9, <2>3 DEF ReplayRewritten, Head
  <1>10. CASE CommitRewritten
    BY <1>10 DEF CommitRewritten, CommitEffect, AdvancedTo, Row
  <1>11. CASE ClearDisposition
    BY <1>11, MarksAreRows DEF ClearDisposition, Outcomes
  <1>12. ASSUME NEW e \in EntryIds, NEW o \in Operations, NEW why \in Outcomes,
                ReplayRefused(e, o, why)
         PROVE  TypeOK'
    BY <1>12, MarksAreRows DEF ReplayRefused, Replays, Head
  <1>13. ASSUME NEW e \in EntryIds, NEW o \in Operations, ReplayDeferred(e, o)
         PROVE  TypeOK'
    BY <1>13, MarksAreRows DEF ReplayDeferred, Replays, Head, Outcomes
  <1>14. CASE RecoveryDone
    BY <1>14 DEF RecoveryDone
  <1>15. CASE Crash
    BY <1>15 DEF Crash
  <1>16. CASE RemoveReplica
    BY <1>16 DEF RemoveReplica
  <1>17. CASE RemoveOutbox
    BY <1>17, NoRowIsRow DEF RemoveOutbox
  <1>18. ASSUME NEW e \in EntryIds, DrainClaims(e) PROVE TypeOK'
    BY <1>18 DEF DrainClaims, Row, OUTBOX_STATE
  <1>19. ASSUME NEW e \in EntryIds, DrainAcknowledged(e) PROVE TypeOK'
    BY <1>19, NoRowIsRow DEF DrainAcknowledged
  <1>20. CASE UNCHANGED vars
    BY <1>20 DEF vars
  <1> QED
    BY <1>1, <1>2, <1>3, <1>4, <1>5, <1>6, <1>7, <1>8, <1>9, <1>10, <1>11, <1>12,
       <1>13, <1>14, <1>15, <1>16, <1>17, <1>18, <1>19, <1>20
    DEF Next, WriteStep, RecoveryStep, WorldStep, ReplayUnknown, ReplayFailed,
        Replays, Head

\* The rows, counters and phases of the write path stay within their types.
THEOREM TypeCorrect == Spec => []TypeOK
  BY TypeInit, TypeStep, PTL DEF Spec

-----------------------------------------------------------------------------
(***************************************************************************)
(* The queue's numbering and the watermark.                                *)
(***************************************************************************)

\* The outbox seen through what marking leaves alone: no step but a write, a
\* drain and an erase changes which rows there are or their seq.
SameQueue ==
  \A f \in EntryIds : /\ Queued(f)' <=> Queued(f)
                      /\ outbox'[f].seq = outbox[f].seq
                      /\ outbox'[f].operation = outbox[f].operation
                      /\ ~Queued(f)' => outbox'[f].disposition = "none"

LEMMA MarkedQueue ==
  ASSUME TypeOK, QueueInv, NEW e \in EntryIds, Queued(e), NEW why \in Outcomes,
         NEW row,
         row \in {Refused(outbox[e], why), MarkedDeferred(outbox[e], why),
                  Halted(outbox[e]), Cleared(outbox[e])},
         outbox' = [outbox EXCEPT ![e] = row]
  PROVE  SameQueue
  <1>1. outbox[e] \in Row /\ outbox \in [EntryIds -> Row]
    BY DEF TypeOK
  <1>2. row.seq = outbox[e].seq /\ row.operation = outbox[e].operation
    BY <1>1, MarksKeepSeq
  <1>3. row.state # "absent"
    BY <1>1 DEF Queued, Refused, MarkedDeferred, Halted, Cleared, Row
  <1> QED
    BY <1>1, <1>2, <1>3 DEF SameQueue, Queued, QueueInv

LEMMA QueueInit == Init => QueueInv
  BY DEF Init, QueueInv, SeqIsNeverReused, EffectsUnderWatermark, Queued, NoRow

\* A step that only marks keeps the invariant, if it moves between phases
\* and entries as recovery does.
LEMMA QueueMarked ==
  ASSUME TypeOK, QueueInv, SameQueue, UNCHANGED <<issued, applied, effects, minted>>,
         phase' \notin {"applying", "wiping"},
         todo' \subseteq todo, current' = NoEntry,
         phase' \in {"recovering"} \/ todo' = {}
  PROVE  QueueInv'
  BY DEF QueueInv, SameQueue, SeqIsNeverReused, EffectsUnderWatermark, TypeOK, Queued

LEMMA QueueStep == TypeOK /\ TypeOK' /\ QueueInv /\ [Next]_vars => QueueInv'
  <1> SUFFICES ASSUME TypeOK, TypeOK', QueueInv, [Next]_vars PROVE QueueInv'
    OBVIOUS
  <1>1. ASSUME NEW e \in EntryIds, NEW o \in Operations,
               NEW t \in EntryIds \cup {NoEntry}, Enqueue(e, o, t)
        PROVE  QueueInv'
    BY <1>1 DEF Enqueue, ClaimedSeq, TypeOK, QueueInv, SeqIsNeverReused,
                EffectsUnderWatermark, Queued
  <1>2. CASE WriteApplied
    BY <1>2 DEF WriteApplied, WriteEnds, CommitEffect, AdvancedTo, TypeOK, QueueInv,
                SeqIsNeverReused, EffectsUnderWatermark, Queued, Row
  <1>3. ASSUME NEW why \in Outcomes, WriteRefused(why) PROVE QueueInv'
    <2>1. current \in EntryIds /\ Queued(current)
      BY <1>3 DEF WriteRefused, WriteEnds, TypeOK, QueueInv
    <2>2. SameQueue
      BY <1>3, <2>1, MarkedQueue DEF WriteRefused
    <2> QED
      BY <1>3, <2>2, QueueMarked DEF WriteRefused, WriteEnds, QueueInv
  <1>4. CASE WriteDeferred
    <2>1. current \in EntryIds /\ Queued(current)
      BY <1>4 DEF WriteDeferred, WriteEnds, TypeOK, QueueInv
    <2>2. SameQueue
      BY <1>4, <2>1, MarkedQueue DEF WriteDeferred, Outcomes
    <2> QED
      BY <1>4, <2>2, QueueMarked DEF WriteDeferred, WriteEnds, QueueInv
  <1>5. CASE WriteFailed
    BY <1>5 DEF WriteFailed, WriteEnds, TypeOK, QueueInv, SeqIsNeverReused,
                EffectsUnderWatermark, Queued
  <1>6. ASSUME NEW b \in Builds, Launch(b) PROVE QueueInv'
    <2>1. \A f \in EntryIds : /\ Queued(f)' <=> Queued(f)
                              /\ outbox'[f].seq = outbox[f].seq
                              /\ outbox'[f].operation = outbox[f].operation
                              /\ outbox'[f].disposition = outbox[f].disposition
      BY <1>6 DEF Launch, Requeued, Queued, TypeOK, Row
    <2>2. todo' \subseteq {f \in EntryIds : Queued(f)}
      BY <1>6 DEF Launch, Outstanding
    <2>3. current' = NoEntry /\ phase' = "recovering"
      BY <1>6 DEF Launch, TypeOK
    <2>4. UNCHANGED <<issued, applied, effects, minted>>
      BY <1>6 DEF Launch, replicaFile
    <2>5. NoEntry \notin EntryIds
      BY ConstantsAssumption
    <2>6. SeqIsNeverReused'
      BY <2>1, <2>3, <2>4 DEF QueueInv, SeqIsNeverReused
    <2>7. EffectsUnderWatermark'
      BY <2>1, <2>4 DEF TypeOK, QueueInv, EffectsUnderWatermark
    <2>8. \A e \in todo' : Queued(e)'
      BY <2>1, <2>2
    <2> QED
      BY <2>1, <2>3, <2>4, <2>5, <2>6, <2>7, <2>8 DEF QueueInv
  <1>7. ASSUME NEW e \in EntryIds, Halt(e), Head(e) PROVE QueueInv'
    <2>1. Queued(e) /\ current = NoEntry
      BY <1>7 DEF Head, QueueInv, TypeOK
    <2>2. SameQueue
      BY <1>7, <2>1, MarkedQueue DEF Halt, Outcomes
    <2> QED
      BY <1>7, <2>1, <2>2, QueueMarked DEF Halt
  <1>8. ASSUME NEW e \in EntryIds, ReplayApplied(e) PROVE QueueInv'
    BY <1>8 DEF ReplayApplied, Head, CommitEffect, AdvancedTo, TypeOK, QueueInv,
                SeqIsNeverReused, EffectsUnderWatermark, Queued, Row
  <1>9. ASSUME NEW e \in EntryIds, NEW o \in Operations, ReplayRewritten(e, o)
        PROVE  QueueInv'
    <2>1. \A f \in EntryIds : /\ Queued(f)' <=> Queued(f)
                              /\ outbox'[f].seq = outbox[f].seq
                              /\ outbox'[f].operation \in {outbox[f].operation, o}
                              /\ outbox'[f].disposition = outbox[f].disposition
      BY <1>9 DEF ReplayRewritten, Queued, TypeOK, Row
    <2> QED
      BY <1>9, <2>1 DEF ReplayRewritten, Head, TypeOK, QueueInv, SeqIsNeverReused,
         EffectsUnderWatermark
  <1>10. CASE CommitRewritten
    BY <1>10 DEF CommitRewritten, CommitEffect, AdvancedTo, TypeOK, QueueInv,
                SeqIsNeverReused, EffectsUnderWatermark, Queued, Row
  <1>11. CASE ClearDisposition
    <2>1. current \in EntryIds /\ Queued(current)
      BY <1>11 DEF ClearDisposition, TypeOK, QueueInv
    <2>2. SameQueue
      BY <1>11, <2>1, MarkedQueue DEF ClearDisposition, Outcomes
    <2> QED
      BY <1>11, <2>2, QueueMarked DEF ClearDisposition
  <1>12. ASSUME NEW e \in EntryIds, NEW o \in Operations, NEW why \in Outcomes,
                ReplayRefused(e, o, why)
         PROVE  QueueInv'
    <2>1. Queued(e) /\ current = NoEntry /\ phase = "recovering"
      BY <1>12 DEF ReplayRefused, Replays, Head, QueueInv, TypeOK
    <2>2. SameQueue
      BY <1>12, <2>1, MarkedQueue DEF ReplayRefused
    <2> QED
      BY <1>12, <2>1, <2>2, QueueMarked DEF ReplayRefused
  <1>13. ASSUME NEW e \in EntryIds, NEW o \in Operations, ReplayDeferred(e, o)
         PROVE  QueueInv'
    <2>1. Queued(e) /\ current = NoEntry /\ phase = "recovering"
      BY <1>13 DEF ReplayDeferred, Replays, Head, QueueInv, TypeOK
    <2>2. SameQueue
      BY <1>13, <2>1, MarkedQueue DEF ReplayDeferred, Outcomes
    <2> QED
      BY <1>13, <2>1, <2>2, QueueMarked DEF ReplayDeferred
  <1>14. CASE RecoveryDone
    BY <1>14 DEF RecoveryDone, TypeOK, QueueInv, SeqIsNeverReused,
                 EffectsUnderWatermark, Queued
  <1>15. CASE Crash
    BY <1>15 DEF Crash, TypeOK, QueueInv, SeqIsNeverReused,
                 EffectsUnderWatermark, Queued
  <1>16. CASE RemoveReplica
    BY <1>16 DEF RemoveReplica, TypeOK, QueueInv, SeqIsNeverReused,
                 EffectsUnderWatermark, Queued
  <1>17. CASE RemoveOutbox
    BY <1>17 DEF RemoveOutbox, TypeOK, QueueInv, SeqIsNeverReused,
                 EffectsUnderWatermark, Queued, NoRow
  <1>18. ASSUME NEW e \in EntryIds, DrainClaims(e) PROVE QueueInv'
    BY <1>18 DEF DrainClaims, TypeOK, QueueInv, SeqIsNeverReused,
                 EffectsUnderWatermark, Queued, Row
  <1>19. ASSUME NEW e \in EntryIds, DrainAcknowledged(e) PROVE QueueInv'
    BY <1>19 DEF DrainAcknowledged, TypeOK, QueueInv, SeqIsNeverReused,
                 EffectsUnderWatermark, Queued, NoRow
  <1>20. CASE UNCHANGED vars
    BY <1>20 DEF vars, TypeOK, QueueInv, SeqIsNeverReused, EffectsUnderWatermark, Queued
  <1> QED
    BY <1>1, <1>2, <1>3, <1>4, <1>5, <1>6, <1>7, <1>8, <1>9, <1>10, <1>11, <1>12,
       <1>13, <1>14, <1>15, <1>16, <1>17, <1>18, <1>19, <1>20
    DEF Next, WriteStep, RecoveryStep, WorldStep, ReplayUnknown, ReplayFailed, Replays

LEMMA QueueAlways == Spec => []QueueInv
  BY TypeCorrect, QueueInit, QueueStep, PTL DEF Spec

\* In every environment - failing applies, missing executors, any crash - a
\* seq is never handed out twice, nor one the watermark has passed.
THEOREM SeqsAreNeverReused == Spec => []SeqIsNeverReused
  BY QueueAlways, PTL DEF QueueInv

\* In every environment the watermark covers every effect it should cover.
THEOREM WatermarkCovers == Spec => []EffectsUnderWatermark
  BY QueueAlways, PTL DEF QueueInv

-----------------------------------------------------------------------------
(***************************************************************************)
(* A launch applies nothing twice, and a refused entry took no effect:     *)
(* both hold as long as the process is not killed between the commit of a  *)
(* replayed effect and the commit that clears its mark.                    *)
(***************************************************************************)
ClearingIsSafe == "clearing" \notin CrashPhases

LEMMA ReplayInit == Init => ReplayInv
  BY DEF Init, ReplayInv, ReplayNeverRepeats

LEMMA ReplayStep ==
  ASSUME ClearingIsSafe, TypeOK, TypeOK', QueueInv, ReplayInv, [Next]_vars
  PROVE  ReplayInv'
  <1> USE DEF TypeOK, ReplayInv, ReplayNeverRepeats
  <1>1. ASSUME NEW e \in EntryIds, NEW o \in Operations,
               NEW t \in EntryIds \cup {NoEntry}, Enqueue(e, o, t)
        PROVE  ReplayInv'
    BY <1>1 DEF Enqueue, QueueInv
  <1>2. CASE WriteApplied
    BY <1>2 DEF WriteApplied, WriteEnds, CommitEffect, QueueInv
  <1>3. ASSUME NEW why \in Outcomes, WriteRefused(why) PROVE ReplayInv'
    BY <1>3 DEF WriteRefused, WriteEnds, QueueInv
  <1>4. CASE WriteDeferred
    BY <1>4 DEF WriteDeferred, WriteEnds, QueueInv
  <1>5. CASE WriteFailed
    BY <1>5 DEF WriteFailed, WriteEnds, QueueInv
  <1>6. ASSUME NEW b \in Builds, Launch(b) PROVE ReplayInv'
    <2>1. \A f \in EntryIds : outbox'[f].disposition = outbox[f].disposition
      BY <1>6 DEF Launch, Requeued, Row
    <2>2. todo' \cap effects = {}
      BY <1>6 DEF Launch, Outstanding, Deferred, QueueInv, EffectsUnderWatermark, Row
    <2>3. \A f \in todo' : outbox[f].disposition # "refused"
      BY <1>6 DEF Launch, Outstanding, Deferred
    <2> QED
      BY <1>6, <2>1, <2>2, <2>3 DEF Launch
  <1>7. ASSUME NEW e \in EntryIds, Halt(e), Head(e) PROVE ReplayInv'
    BY <1>7 DEF Halt, Head
  <1>8. ASSUME NEW e \in EntryIds, ReplayApplied(e) PROVE ReplayInv'
    BY <1>8 DEF ReplayApplied, Head, CommitEffect
  <1>9. ASSUME NEW e \in EntryIds, NEW o \in Operations, ReplayRewritten(e, o)
        PROVE  ReplayInv'
    <2>1. \A f \in EntryIds : outbox'[f].disposition = outbox[f].disposition
      BY <1>9 DEF ReplayRewritten, Row
    <2> QED
      BY <1>9, <2>1 DEF ReplayRewritten, Head
  <1>10. CASE CommitRewritten
    BY <1>10 DEF CommitRewritten, CommitEffect, QueueInv
  <1>11. CASE ClearDisposition
    <2>1. /\ outbox'[current].disposition = "none"
          /\ \A f \in EntryIds \ {current} : outbox'[f] = outbox[f]
      BY <1>11 DEF ClearDisposition, Cleared, Row
    <2> QED
      BY <1>11, <2>1 DEF ClearDisposition, QueueInv
  <1>12. ASSUME NEW e \in EntryIds, NEW o \in Operations, NEW why \in Outcomes,
                ReplayRefused(e, o, why)
         PROVE  ReplayInv'
    BY <1>12 DEF ReplayRefused, Replays, Head
  <1>13. ASSUME NEW e \in EntryIds, NEW o \in Operations, ReplayDeferred(e, o)
         PROVE  ReplayInv'
    BY <1>13 DEF ReplayDeferred, Replays, Head
  <1>14. CASE RecoveryDone
    BY <1>14 DEF RecoveryDone
  <1>15. CASE Crash
    BY <1>15 DEF Crash, ClearingIsSafe
  <1>16. CASE RemoveReplica
    BY <1>16 DEF RemoveReplica, QueueInv
  <1>17. CASE RemoveOutbox
    BY <1>17 DEF RemoveOutbox, QueueInv, NoRow
  <1>18. ASSUME NEW e \in EntryIds, DrainClaims(e) PROVE ReplayInv'
    <2>1. \A f \in EntryIds : outbox'[f].disposition = outbox[f].disposition
      BY <1>18 DEF DrainClaims, Row
    <2> QED
      BY <1>18, <2>1 DEF DrainClaims, QueueInv
  <1>19. ASSUME NEW e \in EntryIds, DrainAcknowledged(e) PROVE ReplayInv'
    <2>1. \A f \in EntryIds : outbox'[f].disposition \in {"none", outbox[f].disposition}
      BY <1>19 DEF DrainAcknowledged, NoRow
    <2> QED
      BY <1>19, <2>1 DEF DrainAcknowledged, QueueInv
  <1>20. CASE UNCHANGED vars
    BY <1>20 DEF vars
  <1> QED
    BY <1>1, <1>2, <1>3, <1>4, <1>5, <1>6, <1>7, <1>8, <1>9, <1>10, <1>11, <1>12,
       <1>13, <1>14, <1>15, <1>16, <1>17, <1>18, <1>19, <1>20
    DEF Next, WriteStep, RecoveryStep, WorldStep, ReplayUnknown, ReplayFailed, Replays

LEMMA ReplayAlways ==
  ASSUME ClearingIsSafe PROVE Spec => []ReplayInv
  BY TypeCorrect, QueueAlways, ReplayInit, ReplayStep, PTL DEF Spec

\* No launch selects an entry whose effect is already in the replica.
THEOREM NothingIsReplayedTwice ==
  ASSUME ClearingIsSafe PROVE Spec => []ReplayNeverRepeats
  BY ReplayAlways, PTL DEF ReplayInv

\* A refused entry's effect is not in the replica, so dropping it from the
\* drain drops nothing the person sees.
THEOREM RefusalsTookNoEffect ==
  ASSUME ClearingIsSafe PROVE Spec => []RefusedNeverTookEffect
  <1>1. TypeOK /\ ReplayInv => RefusedNeverTookEffect
    BY DEF TypeOK, ReplayInv, RefusedNeverTookEffect
  <1> QED
    BY <1>1, TypeCorrect, ReplayAlways, PTL

-----------------------------------------------------------------------------
(***************************************************************************)
(* No intent is lost, where an apply only ever succeeds, refuses or defers *)
(* and every build has every executor: any crash is then survived.         *)
(***************************************************************************)
NothingFails ==
  /\ Faults = {}
  /\ \A b \in Builds, o \in Operations : Registry[b][o] > 0

LEMMA KeepInit == Init => KeepInv
  BY DEF Init, KeepInv, Outlying, Queued, NoRow

\* Replay never stops at an entry.
LEMMA NoHalt ==
  ASSUME NothingFails, TypeOK, QueueInv, NEW e \in EntryIds, NEW o \in Operations
  PROVE  ~ReplayUnknown(e) /\ ~ReplayFailed(e, o)
  <1>1. ~ReplayFailed(e, o)
    BY DEF NothingFails, ReplayFailed, Replays, MayEnd
  <1>2. ASSUME Head(e) PROVE Replayable(e) \subseteq Operations
    BY <1>2 DEF Head, Replayable, QueueInv
  <1>3. ~ReplayUnknown(e)
    BY <1>2 DEF NothingFails, TypeOK, QueueInv, ReplayUnknown, Head
  <1> QED BY <1>1, <1>3

LEMMA KeepStep ==
  ASSUME NothingFails, TypeOK, TypeOK', QueueInv, KeepInv, [Next]_vars
  PROVE  KeepInv'
  <1> USE DEF TypeOK, KeepInv, Outlying, Queued
  <1>1. ASSUME NEW e \in EntryIds, NEW o \in Operations,
               NEW t \in EntryIds \cup {NoEntry}, Enqueue(e, o, t)
        PROVE  KeepInv'
    BY <1>1 DEF Enqueue, ClaimedSeq, QueueInv, SeqIsNeverReused
  <1>2. CASE WriteApplied
    BY <1>2 DEF WriteApplied, WriteEnds, CommitEffect, QueueInv
  <1>3. ASSUME NEW why \in Outcomes, WriteRefused(why) PROVE KeepInv'
    <2>1. outbox'[current].disposition \notin {"none", "replay_halted"}
      BY <1>3 DEF WriteRefused, WriteEnds, Refused, MarkedDeferred, Row
    <2> QED
      BY <1>3, <2>1 DEF WriteRefused, WriteEnds, QueueInv
  <1>4. CASE WriteDeferred
    <2>1. outbox'[current].disposition \notin {"none", "replay_halted"}
      BY <1>4 DEF WriteDeferred, WriteEnds, MarkedDeferred, Row
    <2> QED
      BY <1>4, <2>1 DEF WriteDeferred, WriteEnds, QueueInv
  <1>5. CASE WriteFailed
    BY <1>5 DEF WriteFailed, WriteEnds, MayEnd, NothingFails
  <1>6. ASSUME NEW b \in Builds, Launch(b) PROVE KeepInv'
    <2>1. \A f \in EntryIds : /\ Queued(f)' <=> Queued(f)
                              /\ outbox'[f].seq = outbox[f].seq
                              /\ outbox'[f].disposition = outbox[f].disposition
      BY <1>6 DEF Launch, Requeued, Row
    <2>2. \A f \in EntryIds : Outlying(f) => f \in todo'
      BY <1>6 DEF Launch, Outstanding
    <2> QED
      BY <1>6, <2>1, <2>2 DEF Launch
  <1>7. ASSUME NEW e \in EntryIds, ReplayUnknown(e) PROVE FALSE
    BY <1>7, NoHalt DEF ReplayUnknown, Head, QueueInv
  <1>8. ASSUME NEW e \in EntryIds, NEW o \in Operations, ReplayFailed(e, o) PROVE FALSE
    BY <1>8, NoHalt
  <1>9. ASSUME NEW e \in EntryIds, ReplayApplied(e) PROVE KeepInv'
    <2>1. e \in todo /\ applied' = AdvancedTo(outbox[e].seq)
      BY <1>9 DEF ReplayApplied, Head, CommitEffect
    <2>2. \A f \in todo \ {e} : Queued(f) => outbox[f].seq > outbox[e].seq
      <3>1. \A f \in todo : outbox[e].seq <= outbox[f].seq
        BY <1>9 DEF ReplayApplied, Head
      <3>2. \A f \in EntryIds : outbox[f].seq \in Nat
        BY DEF Row
      <3>3. Queued(e)
        BY <2>1 DEF QueueInv
      <3>4. \A f \in todo \ {e} : f \in EntryIds /\ f # e
        BY <2>1, <3>1
      <3>5. ASSUME NEW f \in todo \ {e}, Queued(f)
            PROVE  outbox[f].seq # outbox[e].seq
        <4> HIDE DEF Queued, TypeOK
        <4> QED BY <2>1, <3>3, <3>4, <3>5 DEF QueueInv, SeqIsNeverReused, TypeOK
      <3> HIDE DEF Queued, TypeOK
      <3> QED
        BY <2>1, <3>1, <3>2, <3>4, <3>5
    <2>3. \A f \in EntryIds : Outlying(f)' => Outlying(f) /\ f \in todo \ {e}
      BY <1>9, <2>1 DEF ReplayApplied, Head, CommitEffect
    <2>4. \A f \in EntryIds : Outlying(f)' => outbox[f].seq > applied'
      BY <2>1, <2>2, <2>3 DEF AdvancedTo
    <2> QED
      BY <1>9, <2>1, <2>3, <2>4 DEF ReplayApplied, CommitEffect
  <1>10. ASSUME NEW e \in EntryIds, NEW o \in Operations, ReplayRewritten(e, o)
         PROVE  KeepInv'
    <2>1. \A f \in EntryIds : /\ Queued(f)' <=> Queued(f)
                              /\ outbox'[f].seq = outbox[f].seq
                              /\ outbox'[f].disposition = outbox[f].disposition
      BY <1>10 DEF ReplayRewritten, Row
    <2> QED
      BY <1>10, <2>1 DEF ReplayRewritten, Head, QueueInv
  <1>11. CASE CommitRewritten
    <2>1. current \in EntryIds /\ applied' = AdvancedTo(outbox[current].seq)
      BY <1>11 DEF CommitRewritten, CommitEffect
    <2>2. \A f \in todo : Queued(f) => outbox[f].seq > outbox[current].seq
      <3>1. \A f \in todo : outbox[current].seq <= outbox[f].seq /\ f # current
        BY <1>11, <2>1 DEF CommitRewritten, QueueInv
      <3>2. \A f \in EntryIds : outbox[f].seq \in Nat
        BY DEF Row
      <3>3. Queued(current)
        BY <2>1 DEF QueueInv
      <3>4. \A f \in todo : f \in EntryIds /\ f # current
        BY <2>1, <3>1
      <3>5. ASSUME NEW f \in todo, Queued(f)
            PROVE  outbox[f].seq # outbox[current].seq
        <4> HIDE DEF Queued, TypeOK
        <4> QED BY <2>1, <3>3, <3>4, <3>5 DEF QueueInv, SeqIsNeverReused, TypeOK
      <3> HIDE DEF Queued, TypeOK, KeepInv, Outlying
      <3> QED
        BY <2>1, <3>1, <3>2, <3>4, <3>5
    <2>3. \A f \in EntryIds : Outlying(f)' => Outlying(f) /\ f \in todo
      BY <1>11, <2>1 DEF CommitRewritten, CommitEffect
    <2>4. \A f \in EntryIds : Outlying(f)' => outbox[f].seq > applied'
      BY <2>1, <2>2, <2>3 DEF AdvancedTo
    <2> QED
      BY <1>11, <2>1, <2>3, <2>4 DEF CommitRewritten, CommitEffect
  <1>12. CASE ClearDisposition
    BY <1>12 DEF ClearDisposition, QueueInv
  <1>13. ASSUME NEW e \in EntryIds, NEW o \in Operations, NEW why \in Outcomes,
                ReplayRefused(e, o, why)
         PROVE  KeepInv'
    <2>1. outbox'[e].disposition \notin {"none", "replay_halted"}
      BY <1>13 DEF ReplayRefused, Refused, MarkedDeferred, Row
    <2> QED
      BY <1>13, <2>1 DEF ReplayRefused, Replays, Head, QueueInv
  <1>14. ASSUME NEW e \in EntryIds, NEW o \in Operations, ReplayDeferred(e, o)
         PROVE  KeepInv'
    <2>1. outbox'[e].disposition \notin {"none", "replay_halted"}
      BY <1>14 DEF ReplayDeferred, MarkedDeferred, Row
    <2> QED
      BY <1>14, <2>1 DEF ReplayDeferred, Replays, Head, QueueInv
  <1>15. CASE RecoveryDone
    BY <1>15 DEF RecoveryDone
  <1>16. CASE Crash
    BY <1>16 DEF Crash
  <1>17. CASE RemoveReplica
    BY <1>17 DEF RemoveReplica, QueueInv, SeqIsNeverReused
  <1>18. CASE RemoveOutbox
    BY <1>18 DEF RemoveOutbox, NoRow
  <1>19. ASSUME NEW e \in EntryIds, DrainClaims(e) PROVE KeepInv'
    <2>1. \A f \in EntryIds : /\ Queued(f)' <=> Queued(f)
                              /\ outbox'[f].seq = outbox[f].seq
                              /\ outbox'[f].disposition = outbox[f].disposition
      BY <1>19 DEF DrainClaims, Row
    <2> QED
      BY <1>19, <2>1 DEF DrainClaims
  <1>20. ASSUME NEW e \in EntryIds, DrainAcknowledged(e) PROVE KeepInv'
    BY <1>20 DEF DrainAcknowledged, NoRow
  <1>21. CASE UNCHANGED vars
    BY <1>21 DEF vars
  <1> QED
    BY <1>1, <1>2, <1>3, <1>4, <1>5, <1>6, <1>7, <1>8, <1>9, <1>10, <1>11, <1>12,
       <1>13, <1>14, <1>15, <1>16, <1>17, <1>18, <1>19, <1>20, <1>21
    DEF Next, WriteStep, RecoveryStep, WorldStep

\* An entry nobody marked, or that halted a launch, is above the watermark
\* while its effect is missing, through every crash, deferral, refusal, upgrade
\* and erase.
THEOREM NothingIsLost ==
  ASSUME NothingFails PROVE Spec => []NoSilentLoss
  <1>1. KeepInv => NoSilentLoss
    BY DEF KeepInv, NoSilentLoss, Outlying
  <1> QED
    BY <1>1, TypeCorrect, QueueAlways, KeepInit, KeepStep, PTL DEF Spec

-----------------------------------------------------------------------------
(***************************************************************************)
(* A refusal for a missing row is never overtaken by the row, under both   *)
(* assumptions: nothing fails, and marks are cleared with their effect.    *)
(***************************************************************************)

\* What the invariant reads of the outbox, unchanged in every row but e's.
SameBut(e) ==
  \A f \in EntryIds : /\ Queued(f)' <=> Queued(f)
                      /\ outbox'[f].seq = outbox[f].seq
                      /\ outbox'[f].target = outbox[f].target
                      /\ f # e => /\ outbox'[f].disposition = outbox[f].disposition
                                  /\ outbox'[f].reason = outbox[f].reason

\* Marking entry e is seen in e's row alone, and only there.
LEMMA MarkedBut ==
  ASSUME TypeOK, NEW e \in EntryIds, Queued(e), NEW why \in Outcomes,
         NEW row,
         row \in {Refused(outbox[e], why), MarkedDeferred(outbox[e], why),
                  Cleared(outbox[e])},
         outbox' = [outbox EXCEPT ![e] = row]
  PROVE  SameBut(e) /\ outbox'[e] = row
  <1>1. outbox[e] \in Row /\ outbox \in [EntryIds -> Row]
    BY DEF TypeOK
  <1>2. row.seq = outbox[e].seq
    BY <1>1, MarksKeepSeq
  <1>3. row.state # "absent" /\ row.target = outbox[e].target
    BY <1>1 DEF Queued, Refused, MarkedDeferred, Cleared, Row
  <1> QED
    BY <1>1, <1>2, <1>3 DEF SameBut, Queued

\* What the two marks say.
LEMMA MarksSay ==
  ASSUME NEW row \in Row, NEW why \in Outcomes
  PROVE  /\ Refused(row, why).disposition = "refused"
         /\ Refused(row, why).reason = why
         /\ MarkedDeferred(row, why).disposition = "deferred"
  BY DEF Refused, MarkedDeferred, Row

\* An entry whose row the replica lacks, when its turn has come: the entry
\* that was to bring it is deferred or refused.
LEMMA TargetIsMarked ==
  ASSUME TypeOK, QueueInv, KeepInv, DependInv, NEW e \in EntryIds, NEW t \in EntryIds,
         Queued(e), outbox[e].target = t, Queued(t), t \notin effects,
         phase \in {"applying", "recovering"},
         phase = "applying" => e = current,
         phase = "recovering" => Head(e)
  PROVE  t # e /\ t \notin todo /\ outbox[t].disposition \in {"deferred", "refused"}
  <1>1. outbox[t].seq < outbox[e].seq /\ outbox[t].seq \in Nat /\ outbox[e].seq \in Nat
    BY DEF DependInv, TypeOK, Row
  <1>2. t # e
    BY <1>1
  <1>3. t \notin todo
    BY <1>1 DEF Head, QueueInv
  <1>4. t # current
    BY <1>2 DEF TypeOK
  <1>5. ~Outlying(t)
    BY <1>3, <1>4 DEF KeepInv
  <1> QED
    BY <1>2, <1>3, <1>5 DEF Outlying, TypeOK, Row, DISPOSITION

\* Marking one entry keeps the invariant, unless it is refused for a row that
\* is deferred, or deferred while no launch is told.
LEMMA MarkedKeeps ==
  ASSUME TypeOK, TypeOK', QueueInv, ReplayInv, DependInv,
         NEW e \in EntryIds, Queued(e), SameBut(e), UNCHANGED <<effects, minted>>,
         outbox[e].disposition # "refused",
         todo' = todo \ {e}, current' = NoEntry,
         phase' = "recovering" =>
           \/ phase = "recovering" /\ (outbox'[e].disposition = "deferred" => anyDeferred')
           \/ phase = "clearing" /\ current = e /\ outbox'[e].disposition = "none",
         phase' \in {"recovering", "ready"},
         anyDeferred => anyDeferred',
         outbox'[e].disposition = "refused" /\ outbox'[e].reason = "dependency" =>
           LET t == outbox[e].target
           IN  t \in EntryIds /\ Queued(t) =>
                 t # e /\ t \notin effects /\ outbox[t].disposition = "refused"
  PROVE  DependInv'
  <1>1. \A f, t \in EntryIds : Queued(f)' /\ outbox'[f].target = t =>
          t \in minted' /\ (Queued(t)' => outbox'[t].seq < outbox'[f].seq)
    BY DEF DependInv, SameBut
  <1>2. phase' \in {"recovering", "committing", "clearing"} =>
          \A d \in EntryIds : Deferred(d)' => d \in todo' \/ d = current' \/ anyDeferred'
    BY DEF DependInv, SameBut, Deferred, TypeOK
  <1>3. DependencyRefusalIsFinal'
    <2> SUFFICES ASSUME NEW f \in EntryIds, NEW t \in EntryIds,
                        outbox'[f].disposition = "refused", outbox'[f].reason = "dependency",
                        outbox'[f].target = t, Queued(t)'
                 PROVE  t \notin effects' /\ outbox'[t].disposition = "refused"
      BY DEF DependencyRefusalIsFinal
    <2>1. CASE f = e
      BY <2>1 DEF SameBut
    <2>2. CASE f # e
      <3>1. t \notin effects /\ outbox[t].disposition = "refused"
        BY <2>2 DEF SameBut, DependInv, DependencyRefusalIsFinal
      <3> QED BY <3>1 DEF SameBut
    <2> QED BY <2>1, <2>2
  <1> QED BY <1>1, <1>2, <1>3 DEF DependInv

\* A step that leaves the marks alone keeps the invariant, if what gains its
\* effect was not refused.
LEMMA UnmarkedKeeps ==
  ASSUME DependInv, SameBut(NoEntry), minted' = minted,
         \A t \in EntryIds : outbox[t].disposition = "refused" /\ t \notin effects
                               => t \notin effects',
         phase' \in {"recovering", "committing", "clearing"} =>
           /\ phase \in {"recovering", "committing", "clearing"}
           /\ todo \subseteq todo' \cup {current'}
           /\ current \in EntryIds => current' = current
           /\ anyDeferred' = anyDeferred
  PROVE  DependInv'
  <1>1. \A f \in EntryIds : /\ Queued(f)' <=> Queued(f)
                            /\ outbox'[f].seq = outbox[f].seq
                            /\ outbox'[f].target = outbox[f].target
                            /\ outbox'[f].disposition = outbox[f].disposition
                            /\ outbox'[f].reason = outbox[f].reason
    BY ConstantsAssumption DEF SameBut
  <1>2. \A f, t \in EntryIds : Queued(f)' /\ outbox'[f].target = t =>
          t \in minted' /\ (Queued(t)' => outbox'[t].seq < outbox'[f].seq)
    BY <1>1 DEF DependInv
  <1>3. phase' \in {"recovering", "committing", "clearing"} =>
          \A d \in EntryIds : Deferred(d)' => d \in todo' \/ d = current' \/ anyDeferred'
    BY <1>1 DEF DependInv, Deferred
  <1>4. DependencyRefusalIsFinal'
    BY <1>1 DEF DependInv, DependencyRefusalIsFinal
  <1> QED BY <1>2, <1>3, <1>4 DEF DependInv

LEMMA DependInit == Init => DependInv
  BY DEF Init, DependInv, DependencyRefusalIsFinal, Queued, Deferred, NoRow

LEMMA DependStep ==
  ASSUME NothingFails, ClearingIsSafe, TypeOK, TypeOK', QueueInv, ReplayInv, KeepInv,
         DependInv, [Next]_vars
  PROVE  DependInv'
  <1>1. ASSUME NEW e \in EntryIds, NEW o \in Operations,
               NEW t \in EntryIds \cup {NoEntry}, Enqueue(e, o, t)
        PROVE  DependInv'
    <2>1. ~Queued(e) /\ e \notin minted /\ t # e /\ e \notin effects
      BY <1>1 DEF Enqueue, QueueInv
    <2>2. /\ outbox'[e].target = t /\ outbox'[e].disposition = "none"
          /\ outbox'[e].seq = issued + 1
          /\ \A f \in EntryIds \ {e} : outbox'[f] = outbox[f]
      BY <1>1 DEF Enqueue, ClaimedSeq, TypeOK
    <2>3. \A f \in EntryIds \ {e} : Queued(f) => outbox[f].seq < issued + 1
      BY DEF QueueInv, SeqIsNeverReused, TypeOK
    <2>4. t \in EntryIds => t \in minted
      BY <1>1 DEF Enqueue
    <2>5. \A f \in EntryIds \ {e} : Queued(f) => outbox[f].target # e
      BY <2>1 DEF DependInv
    <2>6. \A f, u \in EntryIds : Queued(f)' /\ outbox'[f].target = u =>
            u \in minted' /\ (Queued(u)' => outbox'[u].seq < outbox'[f].seq)
      <3> TAKE f, u \in EntryIds
      <3>1. CASE f = e
        BY <3>1, <1>1, <2>1, <2>2, <2>3, <2>4 DEF Enqueue, Queued
      <3>2. CASE f # e
        BY <3>2, <1>1, <2>2, <2>5 DEF Enqueue, Queued, DependInv
      <3> QED BY <3>1, <3>2
    <2>7. \A f \in EntryIds : outbox[f].disposition = "refused" => Queued(f)
      BY DEF QueueInv
    <2>8. DependencyRefusalIsFinal'
      BY <1>1, <2>2, <2>5, <2>7 DEF Enqueue, Queued, DependInv, DependencyRefusalIsFinal
    <2> QED
      BY <1>1, <2>6, <2>8 DEF Enqueue, DependInv
  <1>2. CASE WriteApplied
    <2>1. SameBut(NoEntry) /\ effects' = effects \cup {current}
      BY <1>2 DEF WriteApplied, CommitEffect, SameBut, Queued
    <2> QED
      BY <1>2, <2>1, UnmarkedKeeps DEF WriteApplied, WriteEnds, ReplayInv
  <1>3. ASSUME NEW why \in Outcomes, WriteRefused(why) PROVE DependInv'
    <2>1. current \in EntryIds /\ Queued(current) /\ todo = {} /\ phase = "applying"
      BY <1>3 DEF WriteRefused, WriteEnds, TypeOK, QueueInv
    <2>2. PICK row : /\ row = IF why = "dependency" /\ \E d \in EntryIds : Deferred(d)
                               THEN MarkedDeferred(outbox[current], why)
                               ELSE Refused(outbox[current], why)
                     /\ outbox' = [outbox EXCEPT ![current] = row]
      BY <1>3 DEF WriteRefused, TypeOK
    <2>3. SameBut(current) /\ outbox'[current] = row
      BY <2>1, <2>2, MarkedBut
    <2>4. outbox[current] \in Row
      BY <2>1 DEF TypeOK
    <2>5. ASSUME outbox'[current].disposition = "refused",
                 outbox'[current].reason = "dependency",
                 outbox[current].target \in EntryIds, Queued(outbox[current].target)
          PROVE  /\ outbox[current].target # current
                 /\ outbox[current].target \notin effects
                 /\ outbox[outbox[current].target].disposition = "refused"
      <3>1. why = "dependency" /\ ~\E d \in EntryIds : Deferred(d)
        BY <2>2, <2>3, <2>4, <2>5, MarksSay
      <3>2. outbox[current].target \notin effects
        BY <1>3, <3>1 DEF WriteRefused, WriteEnds, MayEnd
      <3> QED
        BY <2>1, <2>5, <3>1, <3>2, TargetIsMarked DEF Deferred
    <2>6. outbox[current].disposition # "refused"
      BY <2>1 DEF ReplayInv
    <2> QED
      BY <1>3, <2>1, <2>3, <2>5, <2>6, MarkedKeeps DEF WriteRefused, WriteEnds
  <1>4. CASE WriteDeferred
    <2>1. current \in EntryIds /\ Queued(current) /\ todo = {} /\ phase = "applying"
      BY <1>4 DEF WriteDeferred, WriteEnds, TypeOK, QueueInv
    <2>2. SameBut(current) /\ outbox'[current] = MarkedDeferred(outbox[current], "deferral")
      BY <1>4, <2>1, MarkedBut DEF WriteDeferred, Outcomes
    <2>3. outbox'[current].disposition = "deferred"
      BY <2>1, <2>2 DEF MarkedDeferred, TypeOK, Row
    <2>4. outbox[current].disposition # "refused"
      BY <2>1 DEF ReplayInv
    <2> QED
      BY <1>4, <2>1, <2>2, <2>3, <2>4, MarkedKeeps DEF WriteDeferred, WriteEnds
  <1>5. CASE WriteFailed
    BY <1>5 DEF WriteFailed, WriteEnds, MayEnd, NothingFails
  <1>6. ASSUME NEW b \in Builds, Launch(b) PROVE DependInv'
    <2>1. \A f \in EntryIds : /\ Queued(f)' <=> Queued(f)
                              /\ outbox'[f].seq = outbox[f].seq
                              /\ outbox'[f].target = outbox[f].target
                              /\ outbox'[f].disposition = outbox[f].disposition
                              /\ outbox'[f].reason = outbox[f].reason
      BY <1>6 DEF Launch, Requeued, Queued, TypeOK, Row
    <2>2. \A d \in EntryIds : Deferred(d) => d \in todo'
      BY <1>6 DEF Launch, Outstanding, Deferred, QueueInv
    <2>3. effects' = effects /\ minted' = minted
      BY <1>6 DEF Launch
    <2>4. DependencyRefusalIsFinal'
      BY <2>1, <2>3 DEF DependInv, DependencyRefusalIsFinal
    <2>5. \A f, t \in EntryIds : Queued(f)' /\ outbox'[f].target = t =>
            t \in minted' /\ (Queued(t)' => outbox'[t].seq < outbox'[f].seq)
      BY <2>1, <2>3 DEF DependInv
    <2>6. \A d \in EntryIds : Deferred(d)' => d \in todo'
      BY <2>1, <2>2 DEF Deferred
    <2> QED
      BY <2>4, <2>5, <2>6 DEF DependInv
  <1>7. ASSUME NEW e \in EntryIds, ReplayUnknown(e) PROVE FALSE
    BY <1>7, NoHalt DEF ReplayUnknown, Head, QueueInv
  <1>8. ASSUME NEW e \in EntryIds, NEW o \in Operations, ReplayFailed(e, o) PROVE FALSE
    BY <1>8, NoHalt
  <1>9. ASSUME NEW e \in EntryIds, ReplayApplied(e) PROVE DependInv'
    <2>1. SameBut(NoEntry) /\ effects' = effects \cup {e} /\ e \in todo /\ current = NoEntry
      BY <1>9 DEF ReplayApplied, Head, CommitEffect, SameBut, Queued, TypeOK
    <2>2. outbox[e].disposition # "refused"
      BY <2>1 DEF ReplayInv
    <2> QED
      BY <1>9, <2>1, <2>2, UnmarkedKeeps DEF ReplayApplied, Head
  <1>10. ASSUME NEW e \in EntryIds, NEW o \in Operations, ReplayRewritten(e, o)
         PROVE  DependInv'
    <2>1. SameBut(NoEntry) /\ effects' = effects /\ current = NoEntry
      BY <1>10 DEF ReplayRewritten, Head, SameBut, Queued, TypeOK, Row
    <2> QED
      BY <1>10, <2>1, UnmarkedKeeps DEF ReplayRewritten, Head
  <1>11. CASE CommitRewritten
    <2>1. SameBut(NoEntry) /\ effects' = effects \cup {current}
      BY <1>11 DEF CommitRewritten, CommitEffect, SameBut, Queued
    <2> QED
      BY <1>11, <2>1, UnmarkedKeeps DEF CommitRewritten, ReplayInv
  <1>12. CASE ClearDisposition
    <2>1. current \in EntryIds /\ Queued(current) /\ current \notin todo
      BY <1>12 DEF ClearDisposition, TypeOK, QueueInv
    <2>2. SameBut(current) /\ outbox'[current] = Cleared(outbox[current])
      BY <1>12, <2>1, MarkedBut DEF ClearDisposition, Outcomes
    <2>3. outbox'[current].disposition = "none"
      BY <2>1, <2>2 DEF Cleared, TypeOK, Row
    <2>4. outbox[current].disposition # "refused"
      BY <1>12 DEF ClearDisposition, ReplayInv
    <2> QED
      BY <1>12, <2>1, <2>2, <2>3, <2>4, MarkedKeeps DEF ClearDisposition
  <1>13. ASSUME NEW e \in EntryIds, NEW o \in Operations, NEW why \in Outcomes,
                ReplayRefused(e, o, why)
         PROVE  DependInv'
    <2>1. Queued(e) /\ e \in todo /\ current = NoEntry /\ phase = "recovering" /\ Head(e)
      BY <1>13 DEF ReplayRefused, Replays, Head, QueueInv, TypeOK
    <2>2. PICK row : /\ row = IF why = "dependency" /\ anyDeferred
                               THEN MarkedDeferred(outbox[e], why)
                               ELSE Refused(outbox[e], why)
                     /\ outbox' = [outbox EXCEPT ![e] = row]
      BY <1>13 DEF ReplayRefused, TypeOK
    <2>3. SameBut(e) /\ outbox'[e] = row
      BY <2>1, <2>2, MarkedBut
    <2>4. outbox[e] \in Row
      BY DEF TypeOK
    <2>5. outbox'[e].disposition = "deferred" => anyDeferred
      BY <2>2, <2>3, <2>4, MarksSay
    <2>6. ASSUME outbox'[e].disposition = "refused", outbox'[e].reason = "dependency",
                 outbox[e].target \in EntryIds, Queued(outbox[e].target)
          PROVE  /\ outbox[e].target # e
                 /\ outbox[e].target \notin effects
                 /\ outbox[outbox[e].target].disposition = "refused"
      <3>1. why = "dependency" /\ ~anyDeferred
        BY <2>2, <2>3, <2>4, <2>6, MarksSay
      <3>2. outbox[e].target \notin effects
        BY <1>13, <3>1 DEF ReplayRefused, Replays, MayEnd
      <3>3. /\ outbox[e].target # e /\ outbox[e].target \notin todo
            /\ outbox[outbox[e].target].disposition \in {"deferred", "refused"}
        BY <2>1, <2>6, <3>2, TargetIsMarked
      <3> QED
        BY <2>1, <2>6, <3>1, <3>2, <3>3 DEF Deferred, DependInv
    <2>7. outbox[e].disposition # "refused"
      BY <2>1 DEF ReplayInv
    <2> QED
      BY <1>13, <2>1, <2>3, <2>5, <2>6, <2>7, MarkedKeeps DEF ReplayRefused
  <1>14. ASSUME NEW e \in EntryIds, NEW o \in Operations, ReplayDeferred(e, o)
         PROVE  DependInv'
    <2>1. Queued(e) /\ e \in todo /\ current = NoEntry /\ phase = "recovering"
      BY <1>14 DEF ReplayDeferred, Replays, Head, QueueInv, TypeOK
    <2>2. SameBut(e) /\ outbox'[e] = MarkedDeferred(outbox[e], "deferral")
      BY <1>14, <2>1, MarkedBut DEF ReplayDeferred, Outcomes
    <2>3. outbox'[e].disposition = "deferred"
      BY <2>2 DEF MarkedDeferred, TypeOK, Row
    <2>4. outbox[e].disposition # "refused"
      BY <2>1 DEF ReplayInv
    <2> QED
      BY <1>14, <2>1, <2>2, <2>3, <2>4, MarkedKeeps DEF ReplayDeferred
  <1>15. CASE RecoveryDone
    <2>1. SameBut(NoEntry)
      BY <1>15 DEF RecoveryDone, SameBut, Queued
    <2> QED BY <1>15, <2>1, UnmarkedKeeps DEF RecoveryDone
  <1>16. CASE Crash
    <2>1. SameBut(NoEntry)
      BY <1>16 DEF Crash, SameBut, Queued
    <2> QED BY <1>16, <2>1, UnmarkedKeeps DEF Crash
  <1>17. CASE RemoveReplica
    <2>1. SameBut(NoEntry)
      BY <1>17 DEF RemoveReplica, SameBut, Queued
    <2> QED BY <1>17, <2>1, UnmarkedKeeps DEF RemoveReplica
  <1>18. CASE RemoveOutbox
    BY <1>18 DEF RemoveOutbox, DependInv, DependencyRefusalIsFinal, Queued, NoRow
  <1>19. ASSUME NEW e \in EntryIds, DrainClaims(e) PROVE DependInv'
    <2>1. SameBut(NoEntry)
      BY <1>19 DEF DrainClaims, SameBut, Queued, TypeOK, Row
    <2> QED BY <1>19, <2>1, UnmarkedKeeps DEF DrainClaims
  <1>20. ASSUME NEW e \in EntryIds, DrainAcknowledged(e) PROVE DependInv'
    <2>1. /\ ~Queued(e)' /\ outbox'[e].disposition = "none"
          /\ \A f \in EntryIds \ {e} : outbox'[f] = outbox[f]
      BY <1>20 DEF DrainAcknowledged, Queued, NoRow, TypeOK
    <2> QED
      BY <1>20, <2>1 DEF DrainAcknowledged, DependInv, DependencyRefusalIsFinal, Queued
  <1>21. CASE UNCHANGED vars
    <2>1. SameBut(NoEntry)
      BY <1>21 DEF vars, SameBut, Queued
    <2> QED BY <1>21, <2>1, UnmarkedKeeps DEF vars
  <1> QED
    BY <1>1, <1>2, <1>3, <1>4, <1>5, <1>6, <1>7, <1>8, <1>9, <1>10, <1>11, <1>12,
       <1>13, <1>14, <1>15, <1>16, <1>17, <1>18, <1>19, <1>20, <1>21
    DEF Next, WriteStep, RecoveryStep, WorldStep

\* However writes, launches, deferrals and kills fall, a person told that an
\* entry was refused for a missing row is never contradicted by the row's own
\* entry taking effect while it is queued.
THEOREM DependencyRefusalsAreFinal ==
  ASSUME NothingFails, ClearingIsSafe PROVE Spec => []DependencyRefusalIsFinal
  <1>1. DependInv => DependencyRefusalIsFinal
    BY DEF DependInv
  <1>2. Spec => []KeepInv
    BY TypeCorrect, QueueAlways, KeepInit, KeepStep, PTL DEF Spec
  <1> QED
    BY <1>1, <1>2, TypeCorrect, QueueAlways, ReplayAlways, DependInit, DependStep, PTL
    DEF Spec

-----------------------------------------------------------------------------
(***************************************************************************)
(* The write path implements IntentLog: every step is one move of one      *)
(* intent, an erase, or none.                                              *)
(***************************************************************************)
Log == [e \in EntryIds |-> Status(e)]

LEMMA LogStays ==
  ASSUME \A e \in EntryIds : Status(e)' = Status(e)
  PROVE  Log' = Log
  BY DEF Log

LEMMA LogMoves ==
  ASSUME NEW e \in EntryIds, NEW s, Status(e)' = s,
         \A f \in EntryIds \ {e} : Status(f)' = Status(f)
  PROVE  Log' = [Log EXCEPT ![e] = s]
  BY DEF Log

\* One move of one intent is a step of IntentLog.
LEMMA MovesAreSteps ==
  ASSUME NEW e \in EntryIds, \A f \in EntryIds \ {e} : Status(f)' = Status(f),
         \/ Status(e) = "unknown" /\ Status(e)' = "waiting"
         \/ Status(e) = "waiting" /\ Status(e)' \in {"waiting", "effective", "refused"}
         \/ Status(e) \in {"waiting", "effective", "refused"} /\ Status(e)' = "gone"
  PROVE  [Intents!Next]_Log
  <1>1. Log[e] = Status(e) /\ Log' = [Log EXCEPT ![e] = Status(e)']
    BY LogMoves DEF Log
  <1>2. CASE Status(e) = "unknown" /\ Status(e)' = "waiting"
    BY <1>1, <1>2 DEF Log, Intents!Next, Intents!Intend, Intents!Becomes
  <1>3. CASE Status(e) = "waiting" /\ Status(e)' = "effective"
    BY <1>1, <1>3 DEF Log, Intents!Next, Intents!Land, Intents!Becomes
  <1>4. CASE Status(e) = "waiting" /\ Status(e)' = "refused"
    BY <1>1, <1>4 DEF Log, Intents!Next, Intents!Refuse, Intents!Becomes
  <1>5. CASE Status(e) = "waiting" /\ Status(e)' = "waiting"
    <2>1. \A f \in EntryIds : Status(f)' = Status(f)
      BY <1>5
    <2> QED BY <2>1, LogStays
  <1>6. CASE Status(e) \in {"waiting", "effective", "refused"} /\ Status(e)' = "gone"
    BY <1>1, <1>6 DEF Log, Intents!Next, Intents!HandOver, Intents!Becomes, Intents!Statuses
  <1> QED BY <1>2, <1>3, <1>4, <1>5, <1>6

LEMMA LogStarts == Init => Intents!Init
  BY DEF Init, Intents!Init, Status

LEMMA LogSteps ==
  ASSUME ClearingIsSafe, TypeOK, TypeOK', QueueInv, ReplayInv, [Next]_vars
  PROVE  [Intents!Next]_Log
  <1>1. ASSUME NEW e \in EntryIds, NEW o \in Operations,
               NEW t \in EntryIds \cup {NoEntry}, Enqueue(e, o, t)
        PROVE  [Intents!Next]_Log
    <2>1. /\ e \notin minted /\ e \notin effects /\ minted' = minted \cup {e}
          /\ outbox'[e].state = "pending" /\ outbox'[e].disposition = "none"
          /\ effects' = effects
          /\ \A f \in EntryIds \ {e} : outbox'[f] = outbox[f]
      BY <1>1 DEF Enqueue, TypeOK, QueueInv
    <2>2. Status(e) = "unknown" /\ Status(e)' = "waiting"
      BY <2>1 DEF Status, Queued
    <2>3. \A f \in EntryIds \ {e} : Status(f)' = Status(f)
      BY <2>1 DEF Status, Queued
    <2> QED BY <2>2, <2>3, MovesAreSteps
  <1>2. ASSUME NEW e \in EntryIds, Queued(e), e \in minted, e \notin effects,
               outbox[e].disposition # "refused", outbox' = outbox, minted' = minted,
               effects' = effects \cup {e}
        PROVE  [Intents!Next]_Log
    <2>1. Status(e) = "waiting" /\ Status(e)' = "effective"
      BY <1>2 DEF Status, Queued
    <2>2. \A f \in EntryIds \ {e} : Status(f)' = Status(f)
      BY <1>2 DEF Status, Queued
    <2> QED BY <2>1, <2>2, MovesAreSteps
  <1>3. CASE WriteApplied
    <2>1. current \in EntryIds /\ Queued(current) /\ current \in minted /\ current \notin effects
      BY <1>3 DEF WriteApplied, WriteEnds, TypeOK, QueueInv, ReplayInv
    <2>2. outbox[current].disposition # "refused"
      BY <1>3 DEF WriteApplied, WriteEnds, ReplayInv
    <2> QED BY <1>2, <1>3, <2>1, <2>2 DEF WriteApplied, WriteEnds, CommitEffect
  <1>4. ASSUME NEW e \in EntryIds, ReplayApplied(e) PROVE [Intents!Next]_Log
    <2>1. Queued(e) /\ e \in minted /\ e \notin effects /\ outbox[e].disposition # "refused"
      BY <1>4 DEF ReplayApplied, Head, QueueInv, ReplayInv, ReplayNeverRepeats
    <2> QED BY <1>2, <1>4, <2>1 DEF ReplayApplied, CommitEffect
  <1>5. CASE CommitRewritten
    <2>1. current \in EntryIds /\ Queued(current) /\ current \in minted /\ current \notin effects
      BY <1>5 DEF CommitRewritten, TypeOK, QueueInv, ReplayInv
    <2>2. outbox[current].disposition # "refused"
      BY <1>5 DEF CommitRewritten, ReplayInv
    <2> QED BY <1>2, <1>5, <2>1, <2>2 DEF CommitRewritten, CommitEffect
  <1>6. ASSUME NEW e \in EntryIds, Queued(e), e \notin effects,
               outbox[e].disposition # "refused", UNCHANGED <<minted, effects>>,
               NEW row, outbox' = [outbox EXCEPT ![e] = row], row.state # "absent"
        PROVE  [Intents!Next]_Log
    <2>1. /\ outbox'[e] = row
          /\ \A f \in EntryIds \ {e} : outbox'[f] = outbox[f]
      BY <1>6 DEF TypeOK
    <2>2. Status(e) = "waiting" /\ Status(e)' \in {"waiting", "refused"}
      BY <1>6, <2>1 DEF Status, Queued, QueueInv
    <2>3. \A f \in EntryIds \ {e} : Status(f)' = Status(f)
      BY <1>6, <2>1 DEF Status, Queued
    <2> QED BY <2>2, <2>3, MovesAreSteps
  <1>7. \A e \in EntryIds, why \in Outcomes : Queued(e) =>
          /\ Refused(outbox[e], why).state # "absent"
          /\ MarkedDeferred(outbox[e], why).state # "absent"
          /\ Halted(outbox[e]).state # "absent"
    BY DEF TypeOK, Row, Queued, Refused, MarkedDeferred, Halted
  <1>8. ASSUME NEW why \in Outcomes, WriteRefused(why) PROVE [Intents!Next]_Log
    <2>1. /\ current \in EntryIds /\ Queued(current) /\ current \notin effects
          /\ outbox[current].disposition # "refused"
      BY <1>8 DEF WriteRefused, WriteEnds, TypeOK, QueueInv, ReplayInv
    <2>2. PICK row \in {Refused(outbox[current], why), MarkedDeferred(outbox[current], why)} :
            outbox' = [outbox EXCEPT ![current] = row]
      BY <1>8 DEF WriteRefused
    <2> QED BY <1>6, <1>7, <1>8, <2>1, <2>2 DEF WriteRefused, WriteEnds
  <1>9. CASE WriteDeferred
    <2>1. /\ current \in EntryIds /\ Queued(current) /\ current \notin effects
          /\ outbox[current].disposition # "refused"
      BY <1>9 DEF WriteDeferred, WriteEnds, TypeOK, QueueInv, ReplayInv
    <2> QED BY <1>6, <1>7, <1>9, <2>1 DEF WriteDeferred, WriteEnds, Outcomes
  <1>10. ASSUME NEW e \in EntryIds, Head(e)
         PROVE  Queued(e) /\ e \notin effects /\ outbox[e].disposition # "refused"
    BY <1>10 DEF Head, QueueInv, ReplayInv, ReplayNeverRepeats
  <1>11. ASSUME NEW e \in EntryIds, Halt(e), Head(e) PROVE [Intents!Next]_Log
    BY <1>6, <1>7, <1>10, <1>11 DEF Halt, Outcomes
  <1>12. ASSUME NEW e \in EntryIds, NEW o \in Operations, NEW why \in Outcomes,
                ReplayRefused(e, o, why)
         PROVE  [Intents!Next]_Log
    <2>1. PICK row \in {Refused(outbox[e], why), MarkedDeferred(outbox[e], why)} :
            outbox' = [outbox EXCEPT ![e] = row]
      BY <1>12 DEF ReplayRefused
    <2>2. Queued(e) /\ e \notin effects /\ outbox[e].disposition # "refused"
      BY <1>10, <1>12 DEF ReplayRefused, Replays
    <2>3. row.state # "absent"
      BY <1>7, <2>2
    <2>4. UNCHANGED <<minted, effects>>
      BY <1>12 DEF ReplayRefused
    <2> QED BY <1>6, <2>1, <2>2, <2>3, <2>4
  <1>13. ASSUME NEW e \in EntryIds, NEW o \in Operations, ReplayDeferred(e, o)
         PROVE  [Intents!Next]_Log
    BY <1>6, <1>7, <1>10, <1>13 DEF ReplayDeferred, Replays, Outcomes
  <1>14. ASSUME UNCHANGED <<minted, effects>>,
                \A f \in EntryIds : /\ Queued(f)' <=> Queued(f)
                                    /\ outbox'[f].disposition = outbox[f].disposition
         PROVE  [Intents!Next]_Log
    <2>1. \A f \in EntryIds : Status(f)' = Status(f)
      BY <1>14 DEF Status
    <2> QED BY <2>1, LogStays
  <1>15. ASSUME NEW b \in Builds, Launch(b) PROVE [Intents!Next]_Log
    <2>1. \A f \in EntryIds : /\ Queued(f)' <=> Queued(f)
                              /\ outbox'[f].disposition = outbox[f].disposition
      BY <1>15 DEF Launch, Requeued, Queued, TypeOK, Row
    <2> QED BY <1>14, <1>15, <2>1 DEF Launch
  <1>16. ASSUME NEW e \in EntryIds, NEW o \in Operations, ReplayRewritten(e, o)
         PROVE  [Intents!Next]_Log
    <2>1. \A f \in EntryIds : /\ Queued(f)' <=> Queued(f)
                              /\ outbox'[f].disposition = outbox[f].disposition
      BY <1>16 DEF ReplayRewritten, Queued, TypeOK, Row
    <2> QED BY <1>14, <1>16, <2>1 DEF ReplayRewritten
  <1>17. CASE ClearDisposition
    <2>1. /\ current \in EntryIds /\ Queued(current) /\ current \in minted
          /\ outbox[current].disposition # "refused"
      BY <1>17 DEF ClearDisposition, TypeOK, QueueInv, ReplayInv
    <2>2. /\ outbox'[current].state = "pending" /\ outbox'[current].disposition = "none"
          /\ \A f \in EntryIds \ {current} : outbox'[f] = outbox[f]
      BY <1>17, <2>1 DEF ClearDisposition, Cleared, TypeOK, Row
    <2>3. \A f \in EntryIds : Status(f)' = Status(f)
      BY <1>17, <2>1, <2>2 DEF ClearDisposition, Status, Queued
    <2> QED BY <2>3, LogStays
  <1>18. ASSUME UNCHANGED <<outbox, minted, effects>> PROVE [Intents!Next]_Log
    <2>1. \A f \in EntryIds : Status(f)' = Status(f)
      BY <1>18 DEF Status, Queued
    <2> QED BY <2>1, LogStays
  <1>19. CASE RemoveReplica
    <2>1. \A f \in effects : outbox[f].disposition # "refused"
      BY <1>19 DEF RemoveReplica, TypeOK, ReplayInv
    <2>2. \A f \in EntryIds :
            Status(f)' = IF Status(f) = "effective" THEN "waiting" ELSE Status(f)
      BY <1>19, <2>1 DEF RemoveReplica, Status, Queued
    <2>3. Log' = [f \in EntryIds |-> IF Log[f] = "effective" THEN "waiting" ELSE Log[f]]
      BY <2>2 DEF Log
    <2> QED BY <2>3 DEF Log, Intents!Next, Intents!EraseTables
  <1>20. CASE RemoveOutbox
    <2>1. \A f \in EntryIds :
            Status(f)' = IF Status(f) = "unknown" THEN "unknown" ELSE "gone"
      BY <1>20 DEF RemoveOutbox, Status, Queued, NoRow
    <2>2. Log' = [f \in EntryIds |-> IF Log[f] = "unknown" THEN "unknown" ELSE "gone"]
      BY <2>1 DEF Log
    <2> QED BY <2>2 DEF Log, Intents!Next, Intents!EraseQueue
  <1>21. ASSUME NEW e \in EntryIds, DrainClaims(e) PROVE [Intents!Next]_Log
    <2>1. \A f \in EntryIds : /\ Queued(f)' <=> Queued(f)
                              /\ outbox'[f].disposition = outbox[f].disposition
      BY <1>21 DEF DrainClaims, Queued, TypeOK, Row
    <2> QED BY <1>14, <1>21, <2>1 DEF DrainClaims
  <1>22. ASSUME NEW e \in EntryIds, DrainAcknowledged(e) PROVE [Intents!Next]_Log
    <2>1. /\ Queued(e) /\ ~Queued(e)' /\ e \in minted
          /\ \A f \in EntryIds \ {e} : outbox'[f] = outbox[f]
      BY <1>22 DEF DrainAcknowledged, Queued, NoRow, TypeOK, QueueInv
    <2>2. Status(e) \in {"waiting", "effective", "refused"} /\ Status(e)' = "gone"
      BY <1>22, <2>1 DEF DrainAcknowledged, Status
    <2>3. \A f \in EntryIds \ {e} : Status(f)' = Status(f)
      BY <1>22, <2>1 DEF DrainAcknowledged, Status, Queued
    <2> QED BY <2>2, <2>3, MovesAreSteps
  <1>23. CASE WriteFailed \/ RecoveryDone \/ Crash \/ UNCHANGED vars
    BY <1>18, <1>23 DEF WriteFailed, WriteEnds, RecoveryDone, Crash, vars
  <1> QED
    BY <1>1, <1>3, <1>4, <1>5, <1>8, <1>9, <1>11, <1>12, <1>13, <1>15, <1>16, <1>17,
       <1>19, <1>20, <1>21, <1>22, <1>23
    DEF Next, WriteStep, RecoveryStep, WorldStep, ReplayUnknown, ReplayFailed, Replays

\* Whatever throws, is missing or is killed, save a kill before a mark is
\* cleared: an intent waits, then takes effect or is refused, and neither is
\* undone but by the server taking it or an erase.
THEOREM IntentsAreKeptAlways ==
  ASSUME ClearingIsSafe PROVE Spec => IntentsAreKept
  <1>1. TypeOK /\ TypeOK' /\ QueueInv /\ ReplayInv /\ [Next]_vars
          => [Intents!Next]_[e \in EntryIds |-> Status(e)]
    BY LogSteps DEF Log
  <1> QED
    BY <1>1, LogStarts, TypeCorrect, QueueAlways, ReplayAlways, PTL
    DEF Spec, IntentsAreKept, Intents!Spec

=============================================================================
