------------------------ MODULE StoreMigrationProofs ------------------------
(***************************************************************************)
(* What the journal and the copies buy, for every set of builds, every     *)
(* chain and any number of kills: types, that no step runs twice over the  *)
(* same rows, that a suspect file keeps its copy, that an open session is  *)
(* complete, and that no intent is lost but in the ways the history        *)
(* variables mark.  Each rests on its own inductive invariant: Journaled,  *)
(* CopiesInv, LaunchInv, IntentInv.                                        *)
(***************************************************************************)
EXTENDS StoreMigration, TLAPS

MarksTyped == misread \subseteq Stores /\ unmarked \in BOOLEAN /\ rewound \in BOOLEAN

\* The inductive invariant: the files and the copies are sound, and what the
\* migrator read before it took the copy is still so while it runs the steps.
Journaled ==
    /\ TypeOK
    /\ \A s \in Stores : Sound(file[s])
    /\ \A s \in Stores : copy[s] # NoCopy => Sound(copy[s])
    /\ stage = "copied" => Readable(store)

\* The version a chain ends at is the highest of its versions, and above zero.
LEMMA HeadIsAVersion ==
    ASSUME NEW b \in Builds, NEW s \in Stores
    PROVE  /\ Head(Chain[b][s]) \in Versions(Chain[b][s]) /\ Head(Chain[b][s]) \in Nat \ {0}
           /\ \A t \in Chain[b][s] : t.version <= Head(Chain[b][s])
<1> DEFINE C == Chain[b][s]
<1>1. C \subseteq [version : Nat \ {0}, sum : Nat]
  BY ChainAssumption
<1>2. PICK t \in C : \A u \in C : u.version <= t.version
  BY ChainAssumption
<1>3. t.version \in Versions(C) /\ \A w \in Versions(C) : w <= t.version
  BY <1>2 DEF Versions
<1>4. Head(C) \in Versions(C) /\ \A w \in Versions(C) : w <= Head(C)
  BY <1>3 DEF Head
<1>5. \A w \in Versions(C) : w \in Nat \ {0}
  BY <1>1 DEF Versions
<1> QED BY <1>4, <1>5 DEF Versions

\* A fresh file has its type and is sound.
LEMMA FreshIsSound == Fresh \in File /\ Sound(Fresh)
BY DEF Fresh, File, Sound, Intent, Effect

LEMMA RewrittenIsAFile ==
    ASSUME NEW f \in File, NEW v \in Nat, NEW j \in SUBSET Steps, NEW r \in [Steps -> Nat]
    PROVE  [f EXCEPT !.version = v, !.journaled = TRUE, !.journal = j, !.ran = r] \in File
BY DEF File

\* A migration that a migrator runs on a sound file it could read leaves a
\* sound file: the steps it runs were not in the journal.
LEMMA MigratedIsSound ==
    ASSUME NEW s \in Stores, build \in Builds, file \in [Stores -> File],
           Sound(file[s]), Readable(s)
    PROVE  /\ Migrated(file[s], Pending(s), Current(s)) \in File
           /\ Sound(Migrated(file[s], Pending(s), Current(s)))
<1> DEFINE f == file[s]
           P == Pending(s)
           g == Migrated(f, P, Current(s))
<1>1. f \in File
  OBVIOUS
<1>2. Current(s) \in Nat \ {0}
  BY HeadIsAVersion DEF Current
<1>3. P \subseteq Steps /\ P \subseteq Chain[build][s]
  BY DEF Pending, Steps
<1>4. /\ g.version = Current(s) /\ g.journaled = TRUE
      /\ g.journal = f.journal \cup P /\ g.data = f.data
      /\ g.ran = [t \in Steps |-> IF t \in P THEN f.ran[t] + 1 ELSE f.ran[t]]
  BY <1>1 DEF Migrated, File
<1>5. g \in File
  <2>1. /\ f.journal \subseteq Steps /\ f.ran \in [Steps -> Nat]
        /\ f.data \in Intent \cup Effect
    BY <1>1 DEF File
  <2> DEFINE r == [t \in Steps |-> IF t \in P THEN f.ran[t] + 1 ELSE f.ran[t]]
             j == f.journal \cup P
  <2>2. r \in [Steps -> Nat] /\ j \in SUBSET Steps /\ Current(s) \in Nat
    BY <1>2, <1>3, <2>1
  <2>3. g = [f EXCEPT !.version = Current(s), !.journaled = TRUE, !.journal = j, !.ran = r]
    BY Zenon DEF Migrated
  <2> HIDE DEF g, r, j
  <2> QED BY <1>1, <2>2, <2>3, RewrittenIsAFile
<1>6. \A t \in Steps : f.ran[t] = IF t \in f.journal THEN 1 ELSE 0
  <2>1. CASE f.version = 0
    BY <2>1 DEF Sound
  <2>2. CASE f.version # 0
    BY <2>2 DEF Sound, Readable, PreJournal, Found
  <2> QED BY <2>1, <2>2
<1>7. \A t \in P, u \in f.journal : t.version # u.version
  <2>1. CASE f.version = 0
    BY <2>1 DEF Sound
  <2>2. CASE f.version # 0
    BY <2>2 DEF Pending, AppliedTags, Versions
  <2> QED BY <2>1, <2>2
<1>8. \A t \in Steps : g.ran[t] = IF t \in g.journal THEN 1 ELSE 0
  BY <1>3, <1>4, <1>6, <1>7
<1>9. \A t, u \in Steps : t.version = u.version /\ g.ran[t] > 0 /\ g.ran[u] > 0
                          => t = u /\ g.ran[t] = 1
  <2> SUFFICES ASSUME NEW t \in Steps, NEW u \in Steps, t.version = u.version,
                      g.ran[t] > 0, g.ran[u] > 0
               PROVE  t = u /\ g.ran[t] = 1
    OBVIOUS
  <2>1. t \in f.journal \cup P /\ u \in f.journal \cup P
    BY <1>4, <1>8
  <2>2. g.ran[t] = 1
    BY <1>4, <1>8, <2>1
  <2>3. CASE t \in P /\ u \in P
    BY <2>3, <1>3, ChainAssumption, <2>2
  <2>4. CASE t \in f.journal /\ u \in f.journal
    <3>1. f.ran[t] > 0 /\ f.ran[u] > 0
      BY <2>4, <1>6
    <3> QED BY <3>1, <2>2 DEF Sound
  <2> QED BY <2>1, <2>2, <2>3, <2>4, <1>7
<1>10. \A t \in g.journal : t.version <= g.version
  <2>1. \A t \in P : t.version <= Current(s)
    BY <1>3, HeadIsAVersion DEF Current
  <2>2. \A t \in f.journal : t.version <= f.version
    BY DEF Sound
  <2>3. f.version <= Current(s) /\ f.version \in Nat /\ f.journal \subseteq Steps
    BY <1>1, <1>2 DEF File, Readable, Newer, Found
  <2>4. \A t \in Steps : t.version \in Nat
    BY ChainAssumption DEF Steps
  <2> HIDE DEF f, P, g
  <2> QED BY <1>2, <1>4, <2>1, <2>2, <2>3, <2>4
<1> QED BY <1>2, <1>4, <1>5, <1>8, <1>9, <1>10 DEF Sound

\* What recovery and the session write is not what soundness is about.
LEMMA DataIsApart ==
    ASSUME NEW f \in File, NEW d \in Intent \cup Effect, Sound(f)
    PROVE  [f EXCEPT !.data = d] \in File /\ Sound([f EXCEPT !.data = d])
BY DEF File, Sound

LEMMA InitJournaled == Init => Journaled
<1> SUFFICES ASSUME Init PROVE Journaled
  OBVIOUS
<1>1. /\ file \in [Stores -> File] /\ copy \in [Stores -> File \cup {NoCopy}]
      /\ \A s \in Stores : Sound(file[s])
      /\ \A s \in Stores : copy[s] # NoCopy => Sound(copy[s])
  BY FirstAssumption DEF Init
<1>2. cause \in Causes \X Stores
  BY DEF Init, Causes, Stores
<1>3. faults \in 0..MaxFaults
  BY OptionAssumption DEF Init
<1>4. stage \in Stages /\ stage # "copied" /\ store \in Stores /\ rebuilt \in BOOLEAN
  BY DEF Init, Stages, Stores
<1>5. build \in Builds /\ good \in [Stores -> File] /\ MarksTyped
  BY <1>1 DEF Init, MarksTyped
<1> QED BY <1>1, <1>2, <1>3, <1>4, <1>5 DEF Journaled, TypeOK, MarksTyped

\* The history variables keep their types.
LEMMA NextMarks == TypeOK /\ [Next]_vars => MarksTyped'
<1> SUFFICES ASSUME TypeOK, [Next]_vars PROVE MarksTyped'
  OBVIOUS
<1>a. MarksTyped
  BY DEF TypeOK, MarksTyped
<1>1. ASSUME UNCHANGED marks PROVE MarksTyped'
  BY <1>a, <1>1 DEF marks, MarksTyped
<1>2. CASE UNCHANGED vars \/ Start \/ Kill \/ StartThrows \/ Quit \/ \E b \in Builds : Install(b)
  BY <1>1, <1>2 DEF vars, Start, Kill, StartThrows, Quit, Install
<1>3. CASE \E s \in Stores : \/ Refuse(s) \/ NothingPending(s) \/ CheckFails(s)
                             \/ RefuseStaleCopy(s) \/ CopyFails(s) \/ TakeCopy(s)
                             \/ RunSteps(s) \/ RunFails(s) \/ Rebuild(s) \/ RemoveSiblings(s)
  BY <1>1, <1>3 DEF Refuse, NothingPending, CheckFails, RefuseStaleCopy, CopyFails, TakeCopy,
                    RunSteps, RunFails, Rebuild, RemoveSiblings
<1>4. CASE \E s \in Stores : \/ RunFailsUncleanly(s) \/ RemoveDatabase(s) \/ ReleaseCopy(s)
                             \/ ReleaseFails(s) \/ GoBack(s) \/ GoForward(s)
  <2>1. PICK s \in Stores : \/ RunFailsUncleanly(s) \/ RemoveDatabase(s) \/ ReleaseCopy(s)
                            \/ ReleaseFails(s) \/ GoBack(s) \/ GoForward(s)
    BY <1>4
  <2>2. unmarked' = unmarked /\ misread' \in {misread, {}, misread \ {s}, misread \cup {s}}
    BY <2>1 DEF RunFailsUncleanly, RemoveDatabase, ReleaseCopy, ReleaseFails, GoBack,
                GoForward, Accepted, BothAccepted
  <2>3. rewound' = rewound \/ rewound' \in BOOLEAN
    BY <2>1, <1>a DEF RunFailsUncleanly, RemoveDatabase, ReleaseCopy, ReleaseFails, GoBack,
                      GoForward, MarksTyped
  <2> QED BY <1>a, <2>2, <2>3 DEF MarksTyped
<1>5. CASE NothingOutstanding \/ ClearDisposition
  BY <1>1, <1>5 DEF NothingOutstanding, ClearDisposition
<1>6. CASE ReplayApplied \/ ReplayDeferred \/ ReplayRefused \/ ReplayHalts
  BY <1>a, <1>6 DEF ReplayApplied, ReplayDeferred, ReplayRefused, ReplayHalts, Answered, MarksTyped
<1>7. CASE WriteApplied \/ WriteDeferred \/ WriteRefused \/ WriteFailed \/ LaterWrite \/ WriteKilled
  BY <1>a, <1>7 DEF WriteApplied, WriteDeferred, WriteRefused, WriteFailed, LaterWrite,
                    WriteKilled, StaysOpen, BothAccepted, MarksTyped
<1> QED BY <1>2, <1>3, <1>4, <1>5, <1>6, <1>7 DEF Next, Migrate

\* No kill, failure, refusal or release writes to a file or copies one.
LEMMA QuietStep ==
    ASSUME Journaled, MarksTyped', file' = file, good' \in [Stores -> File],
           copy' \in [Stores -> File \cup {NoCopy}],
           \A s \in Stores : copy'[s] = copy[s] \/ copy'[s] = NoCopy,
           build' \in Builds, stage' \in Stages, stage' # "copied",
           store' \in Stores, rebuilt' \in BOOLEAN,
           cause' \in Causes \X Stores, faults' \in 0..MaxFaults
    PROVE  Journaled'
BY DEF Journaled, TypeOK, MarksTyped

LEMMA FaultIsCounted == ASSUME TypeOK, Fault PROVE faults' \in 0..MaxFaults
BY OptionAssumption DEF TypeOK, Fault

LEMMA CloseIsTyped ==
    ASSUME TypeOK, NEW why \in Causes, Close(why)
    PROVE  /\ stage' \in Stages /\ stage' # "copied" /\ rebuilt' \in BOOLEAN
           /\ cause' \in Causes \X Stores
BY DEF TypeOK, Close, Stages

\* A step that leaves no transaction in flight and only sound files.
LEMMA WritingStep ==
    ASSUME Journaled, MarksTyped', file' \in [Stores -> File], \A s \in Stores : Sound(file'[s]),
           good' \in [Stores -> File], copy' \in [Stores -> File \cup {NoCopy}],
           \A s \in Stores : copy'[s] = copy[s] \/ copy'[s] = NoCopy,
           build' = build, stage' \in Stages, stage' # "copied",
           store' \in Stores, rebuilt' \in BOOLEAN,
           cause' \in Causes \X Stores, faults' \in 0..MaxFaults
    PROVE  Journaled'
BY DEF Journaled, TypeOK, MarksTyped

LEMMA DataStep ==
    ASSUME Journaled, NEW s \in Stores, NEW d \in Intent \cup Effect, SetData(s, d)
    PROVE  file' \in [Stores -> File] /\ \A r \in Stores : Sound(file'[r])
<1> DEFINE f == [file[s] EXCEPT !.data = d]
<1>1. file \in [Stores -> File] /\ \A r \in Stores : Sound(file[r])
  BY DEF Journaled, TypeOK
<1>2. f \in File /\ Sound(f)
  BY <1>1, DataIsApart
<1>3. file' = [file EXCEPT ![s] = f]
  BY <1>1 DEF SetData
<1> HIDE DEF f
<1> QED BY <1>1, <1>2, <1>3

LEMMA NextJournaled == Journaled /\ [Next]_vars => Journaled'
<1> SUFFICES ASSUME Journaled, [Next]_vars PROVE Journaled'
  OBVIOUS
<1> USE DEF Stores
<1>a. TypeOK
  BY DEF Journaled
<1>b. /\ build \in Builds /\ file \in [Stores -> File]
      /\ copy \in [Stores -> File \cup {NoCopy}] /\ stage \in Stages
      /\ store \in Stores /\ rebuilt \in BOOLEAN /\ cause \in Causes \X Stores
      /\ faults \in 0..MaxFaults /\ good \in [Stores -> File]
  BY DEF Journaled, TypeOK
<1>m. MarksTyped'
  BY <1>a, NextMarks
<1>1. ASSUME NEW s \in Stores, TakeCopy(s) PROVE Journaled'
  <2>1. /\ copy' = [copy EXCEPT ![s] = file[s]] /\ store = s
        /\ UNCHANGED <<build, file, store, rebuilt, cause, faults, good>>
        /\ stage' = "copied" /\ Readable(s) /\ Pending(s) # {}
    BY <1>1 DEF TakeCopy, MustMigrate
  <2>2. Readable(s)' /\ (Pending(s) # {})'
    BY <2>1 DEF Readable, Newer, Unknown, PreJournal, Edited, Pending, AppliedTags,
                Found, Current
  <2>3. copy' \in [Stores -> File \cup {NoCopy}] /\ copy'[s] = file[s] /\ copy'[s] # NoCopy
    BY <1>b, <2>1, FirstAssumption
  <2>4. \A r \in Stores : copy'[r] # NoCopy => Sound(copy'[r])
    BY <1>b, <2>1 DEF Journaled
  <2>5. TypeOK'
    BY <1>b, <1>m, <2>1, <2>2, <2>3 DEF TypeOK, Stages, MarksTyped
  <2>6. (\A r \in Stores : Sound(file[r]))'
    BY <2>1 DEF Journaled
  <2> QED BY <2>1, <2>2, <2>4, <2>5, <2>6 DEF Journaled
<1>2. ASSUME NEW s \in Stores, stage = "copied", store = s,
             file' = [file EXCEPT ![s] = Migrated(@, Pending(s), Current(s))]
      PROVE  file' \in [Stores -> File] /\ \A r \in Stores : Sound(file'[r])
  <2>1. Readable(s) /\ \A r \in Stores : Sound(file[r])
    BY <1>2 DEF Journaled
  <2> DEFINE g == Migrated(file[s], Pending(s), Current(s))
  <2>2. g \in File /\ Sound(g)
    BY <1>b, <2>1, MigratedIsSound
  <2>3. file' = [file EXCEPT ![s] = g]
    BY <1>2
  <2> HIDE DEF g
  <2> QED BY <1>b, <2>1, <2>2, <2>3
<1>3. ASSUME NEW s \in Stores, RunSteps(s) PROVE Journaled'
  <2>1. file' \in [Stores -> File] /\ \A r \in Stores : Sound(file'[r])
    BY <1>2, <1>3 DEF RunSteps
  <2>2. /\ stage' \in Stages /\ stage' # "copied" /\ store' \in Stores
        /\ UNCHANGED <<build, copy, rebuilt, cause, faults, good>>
    BY <1>3 DEF RunSteps, Onward, Stages
  <2> QED BY <1>b, <2>1, <2>2, <1>m, WritingStep
<1>4. ASSUME NEW s \in Stores, RunFailsUncleanly(s) PROVE Journaled'
  <2>1. file' \in [Stores -> File] /\ \A r \in Stores : Sound(file'[r])
    BY <1>2, <1>4 DEF RunFailsUncleanly
  <2>2. PICK after \in {Current(s), Unreadable} :
          /\ copy' = Released(s, Found(s), after)
          /\ Close(IF after = Found(s) THEN "failed" ELSE "kept")
    BY <1>4 DEF RunFailsUncleanly
  <2>3. /\ copy' \in [Stores -> File \cup {NoCopy}]
        /\ \A r \in Stores : copy'[r] = copy[r] \/ copy'[r] = NoCopy
    BY <1>b, <2>2 DEF Released
  <2>4. /\ stage' \in Stages /\ stage' # "copied" /\ rebuilt' \in BOOLEAN
        /\ cause' \in Causes \X Stores
    BY <1>a, <2>2, CloseIsTyped DEF Causes
  <2>5. faults' \in 0..MaxFaults /\ UNCHANGED <<build, store, good>>
    BY <1>4, <1>a, FaultIsCounted DEF RunFailsUncleanly
  <2> QED BY <1>b, <2>1, <2>3, <2>4, <2>5, <1>m, WritingStep
<1>5. ASSUME NEW s \in Stores, RemoveDatabase(s) PROVE Journaled'
  <2>1. /\ file' = [file EXCEPT ![s] = Fresh] /\ stage' = "remove_siblings"
        /\ good' = [good EXCEPT ![s] = file'[s]]
        /\ UNCHANGED <<build, copy, store, rebuilt, cause, faults>>
    BY <1>5 DEF RemoveDatabase, Accepted
  <2>2. file' \in [Stores -> File] /\ \A r \in Stores : Sound(file'[r])
    BY <1>b, <2>1, FreshIsSound DEF Journaled
  <2>3. good' \in [Stores -> File]
    BY <1>b, <2>1, <2>2
  <2>4. stage' \in Stages /\ stage' # "copied"
    BY <2>1 DEF Stages
  <2> QED BY <1>b, <2>1, <2>2, <2>3, <2>4, <1>m, WritingStep
<1>6. ASSUME NEW s \in Stores, GoBack(s) PROVE Journaled'
  <2>1. /\ file' = [file EXCEPT ![s] = copy[s]] /\ copy[s] # NoCopy
        /\ copy' = [copy EXCEPT ![s] = NoCopy] /\ stage = "closed"
        /\ good' = [good EXCEPT ![s] = file'[s]] /\ cause' = <<"none", s>>
        /\ UNCHANGED <<build, stage, store, rebuilt, faults>>
    BY <1>6 DEF GoBack, Accepted
  <2>2. file' \in [Stores -> File] /\ \A r \in Stores : Sound(file'[r])
    BY <1>b, <2>1 DEF Journaled
  <2>3. good' \in [Stores -> File]
    BY <1>b, <2>1, <2>2
  <2>4. /\ copy' \in [Stores -> File \cup {NoCopy}]
        /\ \A r \in Stores : copy'[r] = copy[r] \/ copy'[r] = NoCopy
    BY <1>b, <2>1
  <2>5. cause' \in Causes \X Stores /\ stage' # "copied"
    BY <2>1 DEF Causes
  <2> QED BY <1>b, <2>1, <2>2, <2>3, <2>4, <2>5, <1>m, WritingStep
<1>7. ASSUME NEW s \in Stores, GoForward(s) PROVE Journaled'
  <2>1. /\ copy' = [copy EXCEPT ![s] = NoCopy] /\ stage = "closed"
        /\ good' = [good EXCEPT ![s] = file[s]] /\ cause' = <<"none", s>>
        /\ UNCHANGED <<build, file, stage, store, rebuilt, faults>>
    BY <1>7 DEF GoForward, Accepted
  <2>2. /\ copy' \in [Stores -> File \cup {NoCopy}] /\ good' \in [Stores -> File]
        /\ \A r \in Stores : copy'[r] = copy[r] \/ copy'[r] = NoCopy
    BY <1>b, <2>1
  <2>3. cause' \in Causes \X Stores /\ stage' # "copied"
    BY <2>1 DEF Causes
  <2> QED BY <1>b, <2>1, <2>2, <2>3, <1>m, QuietStep
<1>8. ASSUME ReplayApplied \/ ClearDisposition \/ ReplayDeferred \/ ReplayRefused \/ ReplayHalts
      PROVE  Journaled'
  <2>0. intent \in Intent \cup Effect
    BY <1>b DEF intent, File
  <2>1. \E s \in Stores, d \in Intent \cup Effect : SetData(s, d)
    BY <1>8, <2>0 DEF ReplayApplied, ClearDisposition, ReplayDeferred, ReplayRefused,
                      ReplayHalts, Intent, Effect
  <2>2. file' \in [Stores -> File] /\ \A r \in Stores : Sound(file'[r])
    BY <2>1, DataStep
  <2>3. /\ stage' \in Stages /\ stage' # "copied" /\ store' \in Stores
        /\ UNCHANGED <<build, copy, rebuilt, cause, faults, good>>
    BY <1>8, <1>b DEF ReplayApplied, ClearDisposition, ReplayDeferred, ReplayRefused,
                      ReplayHalts, Release, Stages
  <2> QED BY <1>b, <2>2, <2>3, <1>m, WritingStep
<1>9. ASSUME WriteDeferred \/ WriteRefused \/ WriteFailed \/ LaterWrite PROVE Journaled'
  <2>1. \E s \in Stores, d \in Intent \cup Effect : SetData(s, d)
    BY <1>9 DEF WriteDeferred, WriteRefused, WriteFailed, LaterWrite, Intent, Effect
  <2>2. file' \in [Stores -> File] /\ \A r \in Stores : Sound(file'[r])
    BY <2>1, DataStep
  <2>3. /\ stage = "ready" /\ good' = file'
        /\ UNCHANGED <<build, copy, stage, store, rebuilt, cause, faults>>
    BY <1>9 DEF WriteDeferred, WriteRefused, WriteFailed, LaterWrite, StaysOpen, BothAccepted
  <2> QED BY <1>b, <2>2, <2>3, <1>m, WritingStep
<1>10. ASSUME WriteApplied PROVE Journaled'
  <2> DEFINE o == [file["outbox"] EXCEPT !.data = "queued"]
             r == [file["replica"] EXCEPT !.data = "applied"]
  <2>1. /\ file' = [file EXCEPT !["outbox"] = o, !["replica"] = r]
        /\ stage = "ready" /\ good' = file'
        /\ UNCHANGED <<build, copy, stage, store, rebuilt, cause, faults>>
    BY <1>10, <1>b DEF WriteApplied, StaysOpen, BothAccepted
  <2>2. o \in File /\ Sound(o) /\ r \in File /\ Sound(r)
    BY <1>b, DataIsApart DEF Journaled, Intent, Effect
  <2> HIDE DEF o, r
  <2>3. file' \in [Stores -> File] /\ \A s \in Stores : Sound(file'[s])
    BY <1>b, <2>1, <2>2
  <2> QED BY <1>b, <2>1, <2>3, <1>m, WritingStep
<1>11. ASSUME WriteKilled PROVE Journaled'
  <2>1. SetData("outbox", "queued") /\ good' = file' /\ UNCHANGED <<build, copy, store>>
    BY <1>11 DEF WriteKilled, BothAccepted
  <2>2. file' \in [Stores -> File] /\ \A r \in Stores : Sound(file'[r])
    BY <2>1, DataStep DEF Intent
  <2>3. /\ stage' \in Stages /\ stage' # "copied" /\ rebuilt' \in BOOLEAN
        /\ cause' \in Causes \X Stores
    BY <1>11, <1>a, CloseIsTyped DEF WriteKilled, Causes
  <2>4. faults' \in 0..MaxFaults
    BY <1>11, <1>a, FaultIsCounted DEF WriteKilled
  <2> QED BY <1>b, <2>1, <2>2, <2>3, <2>4, <1>m, WritingStep
<1>12. ASSUME Kill \/ StartThrows PROVE Journaled'
  <2>1. /\ stage' \in Stages /\ stage' # "copied" /\ rebuilt' \in BOOLEAN
        /\ cause' \in Causes \X Stores
    BY <1>12, <1>a, CloseIsTyped DEF Kill, StartThrows, Causes
  <2>2. faults' \in 0..MaxFaults /\ UNCHANGED <<build, file, copy, store, good>>
    BY <1>12, <1>a, FaultIsCounted DEF Kill, StartThrows
  <2> QED BY <1>b, <2>1, <2>2, <1>m, QuietStep
<1>13. ASSUME NEW s \in Stores, Refuse(s) \/ CheckFails(s) \/ RefuseStaleCopy(s)
       PROVE  Journaled'
  <2>1. \E why \in Causes : Close(why)
    BY <1>13 DEF Refuse, CheckFails, RefuseStaleCopy, Causes
  <2>2. /\ stage' \in Stages /\ stage' # "copied" /\ rebuilt' \in BOOLEAN
        /\ cause' \in Causes \X Stores
    BY <2>1, <1>a, CloseIsTyped
  <2>3. UNCHANGED <<build, file, copy, store, faults, good>>
    BY <1>13 DEF Refuse, CheckFails, RefuseStaleCopy
  <2> QED BY <1>b, <2>2, <2>3, <1>m, QuietStep
<1>14. ASSUME NEW s \in Stores, CopyFails(s) \/ RunFails(s) \/ ReleaseFails(s)
       PROVE  Journaled'
  <2>1. /\ stage' \in Stages /\ stage' # "copied" /\ rebuilt' \in BOOLEAN
        /\ cause' \in Causes \X Stores
    BY <1>14, <1>a, CloseIsTyped DEF CopyFails, RunFails, ReleaseFails, Causes
  <2>2. faults' \in 0..MaxFaults
    BY <1>14, <1>a, FaultIsCounted DEF CopyFails, RunFails, ReleaseFails
  <2>3. /\ copy' \in [Stores -> File \cup {NoCopy}] /\ good' \in [Stores -> File]
        /\ \A r \in Stores : copy'[r] = copy[r] \/ copy'[r] = NoCopy
        /\ UNCHANGED <<build, file, store>>
    BY <1>14, <1>b DEF CopyFails, RunFails, ReleaseFails, Released,
                     BothAccepted
  <2> QED BY <1>b, <2>1, <2>2, <2>3, <1>m, QuietStep
<1>15. ASSUME NEW s \in Stores, NothingPending(s) \/ Rebuild(s) \/ RemoveSiblings(s)
                                \/ ReleaseCopy(s)
       PROVE  Journaled'
  <2>1. /\ stage' \in Stages /\ stage' # "copied" /\ store' \in Stores
        /\ rebuilt' \in BOOLEAN /\ UNCHANGED <<build, file, faults>>
    BY <1>15, <1>b DEF NothingPending, Onward, Rebuild, RemoveSiblings, ReleaseCopy, Stages
  <2>2. cause' \in Causes \X Stores
    BY <1>15, <1>b DEF NothingPending, Rebuild, RemoveSiblings, ReleaseCopy, Causes
  <2>3. /\ copy' \in [Stores -> File \cup {NoCopy}] /\ good' \in [Stores -> File]
        /\ \A r \in Stores : copy'[r] = copy[r] \/ copy'[r] = NoCopy
    BY <1>15, <1>b DEF NothingPending, Rebuild, RemoveSiblings, ReleaseCopy, BothAccepted
  <2> QED BY <1>b, <2>1, <2>2, <2>3, <1>m, QuietStep
<1>16. ASSUME Start \/ NothingOutstanding PROVE Journaled'
  <2>1. /\ stage' \in Stages /\ stage' # "copied" /\ store' \in Stores
        /\ rebuilt' \in BOOLEAN /\ UNCHANGED <<build, file, copy, cause, faults, good>>
    BY <1>16, <1>b DEF Start, NothingOutstanding, Release, Stages
  <2> QED BY <1>b, <2>1, <1>m, QuietStep
<1>19. ASSUME Quit PROVE Journaled'
  <2>1. /\ stage' \in Stages /\ stage' # "copied" /\ rebuilt' \in BOOLEAN
        /\ cause' \in Causes \X Stores
    BY <1>19, <1>a, CloseIsTyped DEF Quit, Causes
  <2>2. UNCHANGED <<build, file, copy, store, faults, good>>
    BY <1>19 DEF Quit
  <2> QED BY <1>b, <2>1, <2>2, <1>m, QuietStep
<1>17. ASSUME NEW b \in Builds, Install(b) PROVE Journaled'
  <2>1. /\ build' \in Builds /\ stage = "closed" /\ cause' \in Causes \X Stores
        /\ UNCHANGED <<file, copy, stage, store, rebuilt, faults, good>>
    BY <1>17, <1>b DEF Install, Causes
  <2> QED BY <1>b, <2>1, <1>m, QuietStep
<1>18. ASSUME UNCHANGED vars PROVE Journaled'
  BY <1>18 DEF vars, marks, Journaled, TypeOK, Pending, AppliedTags, Readable, Newer, Unknown,
               PreJournal, Edited, Found, Current
<1> QED BY <1>1, <1>3, <1>4, <1>5, <1>6, <1>7, <1>8, <1>9, <1>10, <1>11, <1>12, <1>13,
           <1>14, <1>15, <1>16, <1>17, <1>18, <1>19 DEF Next, Migrate

\* The files and the copies stay sound through every step of every launch.
THEOREM JournaledAlways == Spec => []Journaled
<1>1. Init => Journaled
  BY InitJournaled
<1>2. Journaled /\ [Next]_vars => Journaled'
  BY NextJournaled
<1> QED BY <1>1, <1>2, PTL DEF Spec

\* Every variable has its type, and a migration's transaction has its copy.
THEOREM TypesHold == Spec => []TypeOK
<1>1. Journaled => TypeOK
  BY DEF Journaled
<1> QED BY <1>1, JournaledAlways, PTL

\* Whatever builds are installed over whatever is killed, and whichever way out
\* the owner takes, no step's statements ever run twice over the same rows.
THEOREM StepsRunOnce == Spec => []NoStepRunsTwice
<1>1. Journaled => NoStepRunsTwice
  BY DEF Journaled, NoStepRunsTwice, Sound
<1> QED BY <1>1, JournaledAlways, PTL

(***************************************************************************)
(* The copies: what a migration changed stays next to what it started from.*)
(***************************************************************************)

\* While a transaction is in flight, and while a file just removed still has
\* its siblings, nothing has happened that nobody accepted.
CopiesInv ==
    /\ SuspectFileHasItsCopy
    /\ stage = "copied" /\ store \notin misread =>
         /\ file[store].ran = good[store].ran
         /\ copy[store].ran = good[store].ran
    /\ stage = "remove_siblings" => file[store].ran = good[store].ran

\* A datum is not what the copies are compared by.
LEMMA DataKeepsRan ==
    ASSUME TypeOK, NEW s \in Stores, NEW d, SetData(s, d)
    PROVE  \A r \in Stores : file'[r].ran = file[r].ran
BY DEF TypeOK, SetData, File

LEMMA NextCopies == TypeOK /\ CopiesInv /\ [Next]_vars => CopiesInv'
<1> SUFFICES ASSUME TypeOK, CopiesInv, [Next]_vars PROVE CopiesInv'
  OBVIOUS
<1>a. /\ file \in [Stores -> File] /\ good \in [Stores -> File]
      /\ copy \in [Stores -> File \cup {NoCopy}] /\ store \in Stores
      /\ stage = "copied" => copy[store] # NoCopy
  BY DEF TypeOK
<1>1. ASSUME UNCHANGED <<file, copy, good, misread>>, stage' \notin {"copied", "remove_siblings"}
      PROVE  CopiesInv'
  BY <1>1 DEF CopiesInv, SuspectFileHasItsCopy
<1>2. ASSUME good' = file', stage' \notin {"copied", "remove_siblings"} PROVE CopiesInv'
  BY <1>2 DEF CopiesInv, SuspectFileHasItsCopy
<1>3. CASE UNCHANGED vars
  BY <1>3 DEF vars, marks, CopiesInv, SuspectFileHasItsCopy
<1>4. CASE Start \/ Kill \/ StartThrows \/ Quit \/ \E b \in Builds : Install(b)
  BY <1>4, <1>1 DEF Start, Kill, StartThrows, Quit, Install, Close, marks
<1>5. CASE NothingOutstanding \/ \E s \in Stores : NothingPending(s) \/ Rebuild(s)
  BY <1>5, <1>1 DEF NothingOutstanding, NothingPending, Rebuild, Onward, Release, marks
<1>6. CASE \E s \in Stores : Refuse(s) \/ CheckFails(s) \/ RefuseStaleCopy(s) \/ CopyFails(s)
  BY <1>6, <1>1 DEF Refuse, CheckFails, RefuseStaleCopy, CopyFails, Close, marks
<1>7. CASE WriteApplied \/ WriteDeferred \/ WriteRefused \/ WriteFailed \/ LaterWrite \/ WriteKilled
  BY <1>7, <1>2 DEF WriteApplied, WriteDeferred, WriteRefused, WriteFailed, LaterWrite,
                    WriteKilled, StaysOpen, BothAccepted, Close
<1>8. CASE \E s \in Stores : ReleaseCopy(s) \/ ReleaseFails(s)
  BY <1>8, <1>2 DEF ReleaseCopy, ReleaseFails, BothAccepted, Close
<1>9. CASE ReplayApplied \/ ReplayDeferred \/ ReplayRefused \/ ReplayHalts \/ ClearDisposition
  <2>1. \A r \in Stores : file'[r].ran = file[r].ran
    BY <1>9, DataKeepsRan DEF ReplayApplied, ReplayDeferred, ReplayRefused, ReplayHalts,
                              ClearDisposition, Stores
  <2>2. UNCHANGED <<copy, good, misread>> /\ stage' \notin {"copied", "remove_siblings"}
    BY <1>9 DEF ReplayApplied, ReplayDeferred, ReplayRefused, ReplayHalts, ClearDisposition,
                Release, Answered, marks
  <2> QED BY <2>1, <2>2 DEF CopiesInv, SuspectFileHasItsCopy
<1>10. ASSUME NEW s \in Stores, TakeCopy(s) PROVE CopiesInv'
  <2>1. /\ store = s /\ copy[s] = NoCopy /\ copy' = [copy EXCEPT ![s] = file[s]]
        /\ UNCHANGED <<file, store, good, misread>> /\ stage' = "copied"
    BY <1>10 DEF TakeCopy, MustMigrate, MayCopy, marks
  <2>2. copy'[s] = file[s] /\ (s \notin misread => file[s].ran = good[s].ran)
    BY <1>a, <2>1 DEF CopiesInv, SuspectFileHasItsCopy
  <2>3. SuspectFileHasItsCopy'
    BY <1>a, <2>1, <2>2 DEF CopiesInv, SuspectFileHasItsCopy
  <2> QED BY <2>1, <2>2, <2>3 DEF CopiesInv
<1>11. ASSUME NEW s \in Stores, stage = "copied", store = s, good' = good,
              file' = [file EXCEPT ![s] = Migrated(@, Pending(s), Current(s))],
              \/ copy' = copy /\ misread' = misread
              \/ copy' = [copy EXCEPT ![s] = NoCopy] /\ misread' = misread \cup {s},
              stage' \notin {"copied", "remove_siblings"}
       PROVE  CopiesInv'
  BY <1>a, <1>11 DEF CopiesInv, SuspectFileHasItsCopy
<1>12. CASE \E s \in Stores : RunSteps(s)
  BY <1>12, <1>11 DEF RunSteps, Onward, marks
<1>17. CASE \E s \in Stores : RunFailsUncleanly(s)
  <2>1. PICK s \in Stores : RunFailsUncleanly(s)
    BY <1>17
  <2>2. PICK after \in {Current(s), Unreadable} :
          /\ copy' = Released(s, Found(s), after)
          /\ misread' = IF after = Found(s) THEN misread \cup {s} ELSE misread
    BY <2>1 DEF RunFailsUncleanly
  <2>3. \/ copy' = copy /\ misread' = misread
        \/ copy' = [copy EXCEPT ![s] = NoCopy] /\ misread' = misread \cup {s}
    BY <2>2 DEF Released
  <2>4. /\ stage = "copied" /\ store = s /\ good' = good /\ stage' = "closed"
        /\ file' = [file EXCEPT ![s] = Migrated(@, Pending(s), Current(s))]
    BY <2>1 DEF RunFailsUncleanly, Close
  <2> QED BY <1>11, <2>3, <2>4
<1>13. CASE \E s \in Stores : RunFails(s)
  <2>1. PICK s \in Stores : RunFails(s)
    BY <1>13
  <2>2. /\ stage = "copied" /\ store = s
        /\ copy' = copy \/ copy' = [copy EXCEPT ![s] = NoCopy]
        /\ UNCHANGED <<file, good, misread>> /\ stage' = "closed"
    BY <2>1 DEF RunFails, Released, Close, marks
  <2> QED BY <1>a, <2>2 DEF CopiesInv, SuspectFileHasItsCopy
<1>14. CASE \E s \in Stores : RemoveDatabase(s)
  <2>1. PICK s \in Stores : RemoveDatabase(s)
    BY <1>14
  <2>2. /\ store = s /\ file' = [file EXCEPT ![s] = Fresh] /\ stage' = "remove_siblings"
        /\ good' = [good EXCEPT ![s] = file'[s]] /\ UNCHANGED <<copy, store>>
        /\ misread' = misread \ {s}
    BY <2>1 DEF RemoveDatabase, Accepted
  <2> QED BY <1>a, <2>2 DEF CopiesInv, SuspectFileHasItsCopy
<1>15. CASE \E s \in Stores : RemoveSiblings(s)
  <2>1. PICK s \in Stores : RemoveSiblings(s)
    BY <1>15
  <2>2. /\ stage = "remove_siblings" /\ store = s /\ copy' = [copy EXCEPT ![s] = NoCopy]
        /\ UNCHANGED <<file, good, misread>> /\ stage' \in {"remove", "migrate"}
    BY <2>1 DEF RemoveSiblings, marks
  <2> QED BY <1>a, <2>2 DEF CopiesInv, SuspectFileHasItsCopy
<1>16. CASE \E s \in Stores : GoBack(s) \/ GoForward(s)
  <2>1. PICK s \in Stores : GoBack(s) \/ GoForward(s)
    BY <1>16
  <2>2. /\ good' = [good EXCEPT ![s] = file'[s]] /\ stage' = "closed"
        /\ misread' = misread \ {s}
        /\ copy' = [copy EXCEPT ![s] = NoCopy]
        /\ \A r \in Stores \ {s} : file'[r] = file[r]
    BY <1>a, <2>1 DEF GoBack, GoForward, Accepted
  <2> QED BY <1>a, <2>2 DEF CopiesInv, SuspectFileHasItsCopy
<1> QED BY <1>3, <1>4, <1>5, <1>6, <1>7, <1>8, <1>9, <1>10, <1>12, <1>13, <1>14, <1>15, <1>16,
           <1>17 DEF Next, Migrate

\* However a migration ends, and however often the app is killed after it, the
\* rows it started from are beside the file until the app has opened or the
\* owner accepted what it left; but for a commit that left the version as found.
THEOREM SuspectFilesKeepTheirCopy == Spec => []SuspectFileHasItsCopy
<1>1. Init => CopiesInv
  BY DEF Init, CopiesInv, SuspectFileHasItsCopy
<1>2. TypeOK /\ CopiesInv /\ [Next]_vars => CopiesInv'
  BY NextCopies
<1>3. CopiesInv => SuspectFileHasItsCopy
  BY DEF CopiesInv
<1> QED BY <1>1, <1>2, <1>3, TypesHold, PTL DEF Spec

(***************************************************************************)
(* The launch: what has been migrated by the time the session is open.     *)
(***************************************************************************)

Complete(s) == (\A t \in Chain[build][s] : file[s].ran[t] = 1) /\ Found(s) = Current(s)

\* The outbox is complete when the replica's turn comes, both are from
\* recovery on, and the copies go one after the other.
LaunchInv ==
    /\ stage \in {"migrate", "copied"} /\ store = "replica" => Complete("outbox")
    /\ stage \in {"recover", "clear", "release", "ready"} => \A s \in Stores : Complete(s)
    /\ stage = "release" /\ store = "replica" => copy["outbox"] = NoCopy
    /\ stage = "ready" => \A s \in Stores : copy[s] = NoCopy

\* A step of the chain that is not pending was journaled, as it is shipped.
LEMMA NotPendingIsJournaled ==
    ASSUME NEW s \in Stores, build \in Builds, file \in [Stores -> File], Sound(file[s]),
           Readable(s), NEW t \in Chain[build][s], t \notin Pending(s)
    PROVE  t \in file[s].journal /\ file[s].ran[t] = 1 /\ Found(s) # 0
<1>1. t.version \in AppliedTags(file[s])
  BY DEF Pending
<1>2. PICK j \in file[s].journal : t.version = j.version
  BY <1>1 DEF AppliedTags, Versions
<1>3. Found(s) # 0 /\ file[s].journaled = TRUE
  <2>1. file[s].journaled \in BOOLEAN
    BY DEF File
  <2> QED BY <2>1, <1>1 DEF AppliedTags, Readable, PreJournal, Found
<1>4. t \in Steps /\ j \in Steps
  <2>1. t \in Steps
    BY DEF Steps
  <2>2. file[s].journal \subseteq Steps
    BY DEF File
  <2> QED BY <2>1, <2>2
<1>5. t.sum = j.sum
  BY <1>2, <1>3 DEF Readable, Edited
<1>6. t = j
  <2>1. /\ t \in [version : Nat \ {0}, sum : Nat] /\ j \in [version : Nat \ {0}, sum : Nat]
    BY <1>4, ChainAssumption DEF Steps
  <2> QED BY <2>1, <1>2, <1>5
<1> QED BY <1>3, <1>4, <1>6 DEF Sound

\* A file with nothing pending is complete.
LEMMA NothingPendingIsComplete ==
    ASSUME NEW s \in Stores, build \in Builds, file \in [Stores -> File], Sound(file[s]),
           Readable(s), Pending(s) = {}
    PROVE  Complete(s)
<1>1. \A t \in Chain[build][s] : /\ t \in file[s].journal /\ file[s].ran[t] = 1
                                 /\ Found(s) # 0
  BY NotPendingIsJournaled
<1>2. PICK t \in Chain[build][s] : t.version = Current(s)
  BY HeadIsAVersion DEF Current, Versions
<1>3. Current(s) <= Found(s)
  BY <1>1, <1>2 DEF Sound, Found
<1>4. Found(s) <= Current(s) /\ Found(s) \in Nat /\ Current(s) \in Nat
  BY HeadIsAVersion DEF Readable, Newer, Found, File, Current
<1> QED BY <1>1, <1>3, <1>4 DEF Complete

\* And so is one whose pending steps have run.
LEMMA MigratedIsComplete ==
    ASSUME NEW s \in Stores, build \in Builds, file \in [Stores -> File], Sound(file[s]),
           Readable(s)
    PROVE  LET g == Migrated(file[s], Pending(s), Current(s))
           IN g.version = Current(s) /\ \A t \in Chain[build][s] : g.ran[t] = 1
<1> DEFINE f == file[s]
           P == Pending(s)
           g == Migrated(f, P, Current(s))
<1>1. f \in File
  OBVIOUS
<1>2. /\ g.version = Current(s)
      /\ g.ran = [t \in Steps |-> IF t \in P THEN f.ran[t] + 1 ELSE f.ran[t]]
  BY <1>1 DEF Migrated, File
<1>3. \A t \in Chain[build][s] : t \in Steps
  BY DEF Steps
<1>4. \A t \in Chain[build][s] \ P : f.ran[t] = 1
  BY NotPendingIsJournaled
<1>5. \A t \in P : f.ran[t] = 0
  <2> SUFFICES ASSUME NEW t \in P PROVE f.ran[t] = 0
    OBVIOUS
  <2>1. t \in Chain[build][s] /\ t.version \notin AppliedTags(f)
    BY DEF Pending
  <2>2. CASE f.version = 0
    BY <1>3, <2>1, <2>2 DEF Sound
  <2>3. CASE f.version # 0
    <3>1. t \notin f.journal
      BY <2>1, <2>3 DEF AppliedTags, Versions
    <3>2. f.journaled
      BY <2>3 DEF Readable, PreJournal, Found
    <3> QED BY <1>3, <2>1, <3>1, <3>2 DEF Sound
  <2> QED BY <2>2, <2>3
<1> HIDE DEF f, P, g
<1>6. \A t \in Chain[build][s] : g.ran[t] = 1
  BY <1>2, <1>3, <1>4, <1>5
<1> QED BY <1>2, <1>6 DEF f, P, g

\* What is complete stays so while its rows and its build do.
LEMMA CompleteStays ==
    ASSUME NEW s \in Stores, Complete(s), build' = build,
           file'[s].ran = file[s].ran, file'[s].version = file[s].version
    PROVE  Complete(s)'
BY DEF Complete, Found, Current

LEMMA DataKeepsVersion ==
    ASSUME TypeOK, NEW s \in Stores, NEW d, SetData(s, d)
    PROVE  \A r \in Stores : file'[r].version = file[r].version
BY DEF TypeOK, SetData, File

LEMMA NextLaunch == Journaled /\ LaunchInv /\ [Next]_vars => LaunchInv'
<1> SUFFICES ASSUME Journaled, LaunchInv, [Next]_vars PROVE LaunchInv'
  OBVIOUS
<1> USE DEF Stores
<1>a. /\ TypeOK /\ build \in Builds /\ file \in [Stores -> File] /\ store \in Stores
      /\ copy \in [Stores -> File \cup {NoCopy}] /\ \A s \in Stores : Sound(file[s])
  BY DEF Journaled, TypeOK
<1>1. ASSUME stage' \in {"closed", "remove", "remove_siblings"} PROVE LaunchInv'
  BY <1>1 DEF LaunchInv
<1>2. ASSUME stage' \in {"migrate", "copied"}, store' = "outbox" PROVE LaunchInv'
  BY <1>2 DEF LaunchInv
<1>3. ASSUME UNCHANGED <<build, file>> PROVE \A s \in Stores : Complete(s)' <=> Complete(s)
  BY <1>3 DEF Complete, Found, Current
<1>4. CASE UNCHANGED vars
  BY <1>4, <1>3 DEF vars, LaunchInv
<1>5. CASE \/ Start \/ Kill \/ StartThrows \/ Quit \/ WriteKilled
           \/ \E b \in Builds : Install(b)
  BY <1>5, <1>1, <1>2 DEF Start, Kill, StartThrows, Quit, WriteKilled, Install, Close
<1>6. CASE \E s \in Stores : \/ Refuse(s) \/ CheckFails(s) \/ RefuseStaleCopy(s)
                             \/ CopyFails(s) \/ RunFails(s) \/ RunFailsUncleanly(s)
                             \/ ReleaseFails(s)
  BY <1>6, <1>1 DEF Refuse, CheckFails, RefuseStaleCopy, CopyFails, RunFails,
                    RunFailsUncleanly, ReleaseFails, Close
<1>7. CASE \E s \in Stores : \/ Rebuild(s) \/ RemoveDatabase(s) \/ RemoveSiblings(s)
                             \/ GoBack(s) \/ GoForward(s)
  BY <1>7, <1>1, <1>2 DEF Rebuild, RemoveDatabase, RemoveSiblings, GoBack, GoForward
<1>8. ASSUME NEW s \in Stores, stage \in {"migrate", "copied"}, store = s, Onward(s),
             build' = build, Complete(s)', \A r \in Stores \ {s} : file'[r] = file[r]
      PROVE  LaunchInv'
  <2>1. CASE s = "outbox"
    BY <2>1, <1>8 DEF Onward, LaunchInv
  <2>2. CASE s = "replica"
    <3>1. Complete("outbox")
      BY <2>2, <1>8 DEF LaunchInv
    <3>2. Complete("outbox")'
      BY <2>2, <3>1, <1>8, CompleteStays
    <3> QED BY <2>2, <3>2, <1>8 DEF Onward, LaunchInv
  <2> QED BY <2>1, <2>2
<1>9. ASSUME NEW s \in Stores, NothingPending(s) PROVE LaunchInv'
  <2>1. /\ stage = "migrate" /\ store = s /\ Onward(s) /\ Readable(s) /\ Pending(s) = {}
        /\ UNCHANGED <<build, file>>
    BY <1>9 DEF NothingPending
  <2>2. Complete(s)
    BY <1>a, <2>1, NothingPendingIsComplete
  <2> QED BY <1>3, <1>8, <2>1, <2>2
<1>10. ASSUME NEW s \in Stores, TakeCopy(s) PROVE LaunchInv'
  BY <1>10, <1>3 DEF TakeCopy, MustMigrate, LaunchInv
<1>11. ASSUME NEW s \in Stores, RunSteps(s) PROVE LaunchInv'
  <2> DEFINE g == Migrated(file[s], Pending(s), Current(s))
  <2>1. /\ stage = "copied" /\ store = s /\ Onward(s) /\ UNCHANGED build
        /\ file' = [file EXCEPT ![s] = g]
    BY <1>11 DEF RunSteps
  <2>2. Readable(s)
    BY <2>1 DEF Journaled
  <2>3. g.version = Current(s) /\ \A t \in Chain[build][s] : g.ran[t] = 1
    BY <1>a, <2>2, MigratedIsComplete
  <2> HIDE DEF g
  <2>4. file'[s] = g /\ \A r \in Stores \ {s} : file'[r] = file[r]
    BY <1>a, <2>1
  <2>5. Complete(s)'
    BY <2>1, <2>3, <2>4 DEF Complete, Found, Current
  <2> QED BY <1>8, <2>1, <2>4, <2>5
<1>12. ASSUME build' = build, \A s \in Stores : /\ file'[s].ran = file[s].ran
                                                /\ file'[s].version = file[s].version
       PROVE  \A s \in Stores : Complete(s) => Complete(s)'
  BY <1>12, CompleteStays
<1>13. CASE ReplayApplied \/ ReplayDeferred \/ ReplayRefused \/ ReplayHalts \/ ClearDisposition
            \/ NothingOutstanding
  <2>1. UNCHANGED file \/ \E s \in Stores, d \in Intent \cup Effect : SetData(s, d)
    <3>1. intent \in Intent \cup Effect
      BY <1>a DEF intent, File
    <3> QED BY <3>1, <1>13 DEF ReplayApplied, ReplayDeferred, ReplayRefused, ReplayHalts,
                               ClearDisposition, NothingOutstanding, Intent, Effect
  <2>2. \A s \in Stores : /\ file'[s].ran = file[s].ran
                          /\ file'[s].version = file[s].version
    BY <1>a, <2>1, DataKeepsRan, DataKeepsVersion
  <2>3. /\ stage \in {"recover", "clear"} /\ UNCHANGED <<build, copy>>
        /\ stage' = "clear" \/ (stage' = "release" /\ store' = "outbox")
    BY <1>13 DEF ReplayApplied, ReplayDeferred, ReplayRefused, ReplayHalts, ClearDisposition,
                 NothingOutstanding, Release
  <2>4. \A s \in Stores : Complete(s)'
    BY <2>2, <2>3, <1>12 DEF LaunchInv
  <2> QED BY <2>3, <2>4 DEF LaunchInv
<1>14. CASE WriteApplied \/ WriteDeferred \/ WriteRefused \/ WriteFailed \/ LaterWrite
  <2>1. \A s \in Stores : /\ file'[s].ran = file[s].ran
                          /\ file'[s].version = file[s].version
    <3>1. CASE WriteApplied
      BY <1>a, <3>1 DEF WriteApplied, File
    <3>2. CASE WriteDeferred \/ WriteRefused \/ WriteFailed \/ LaterWrite
      BY <1>a, <3>2, DataKeepsRan, DataKeepsVersion
         DEF WriteDeferred, WriteRefused, WriteFailed, LaterWrite
    <3> QED BY <3>1, <3>2, <1>14
  <2>2. stage = "ready" /\ UNCHANGED <<build, copy, stage, store>>
    BY <1>14 DEF WriteApplied, WriteDeferred, WriteRefused, WriteFailed, LaterWrite, StaysOpen
  <2>3. \A s \in Stores : Complete(s)'
    BY <2>1, <2>2, <1>12 DEF LaunchInv
  <2> QED BY <2>2, <2>3 DEF LaunchInv
<1>15. ASSUME NEW s \in Stores, ReleaseCopy(s) PROVE LaunchInv'
  <2>1. /\ stage = "release" /\ store = s /\ copy' = [copy EXCEPT ![s] = NoCopy]
        /\ UNCHANGED <<build, file>>
        /\ s = "outbox" => stage' = "release"
        /\ s = "replica" => stage' = "ready" /\ store' = "outbox"
    BY <1>15 DEF ReleaseCopy
  <2>2. \A r \in Stores : Complete(r)'
    BY <2>1, <1>3 DEF LaunchInv
  <2>3. copy'["outbox"] = NoCopy /\ (s = "replica" => copy'["replica"] = NoCopy)
    BY <1>a, <2>1 DEF LaunchInv
  <2> QED BY <2>1, <2>2, <2>3 DEF LaunchInv
<1> QED BY <1>4, <1>5, <1>6, <1>7, <1>9, <1>10, <1>11, <1>13, <1>14, <1>15 DEF Next, Migrate

LEMMA LaunchAlways == Spec => []LaunchInv
<1>1. Init => LaunchInv
  BY DEF Init, LaunchInv
<1>2. Journaled /\ LaunchInv /\ [Next]_vars => LaunchInv'
  BY NextLaunch
<1> QED BY <1>1, <1>2, JournaledAlways, PTL DEF Spec

\* Whatever was installed and interrupted before, a session that opens has run
\* every step of its build's chains, once, and has no copy left over.
THEOREM OpenSessionsAreComplete == Spec => []ReadyIsComplete
<1>1. LaunchInv => ReadyIsComplete
  BY DEF LaunchInv, Complete, ReadyIsComplete
<1> QED BY <1>1, LaunchAlways, PTL

(***************************************************************************)
(* The intent: where the watermark may be, of the files and of the copies. *)
(***************************************************************************)

\* The datum a copy holds is one of its store's.
CopiesTyped ==
    /\ intent \in Intent /\ effect \in Effect
    /\ copy["outbox"] # NoCopy => copy["outbox"].data \in Intent
    /\ copy["replica"] # NoCopy => copy["replica"].data \in Effect

\* What a write passed is an intent, marked in the outbox (but for a halt or a
\* failed write) and then marked in the outbox's copy too.
PassedIsMarked ==
    effect = "passed" =>
      /\ intent # "none" /\ (unmarked \/ intent \in Marked)
      /\ copy["outbox"] # NoCopy =>
           /\ copy["outbox"].data # "none"
           /\ intent \in Marked => copy["outbox"].data \in Marked

\* Nor is an intent marked that has been passed in the replica's copy and has no
\* mark in the outbox's: it has been replayed between the two.
CopiesAgree ==
    (/\ copy["replica"] # NoCopy /\ copy["replica"].data = "passed"
     /\ copy["outbox"] # NoCopy /\ copy["outbox"].data \notin Marked)
      => intent \notin Marked

\* A replica's copy that was passed outlives the effect only beside a new file,
\* which no migrator runs over it.
PassedCopyIsOld ==
    copy["replica"] # NoCopy /\ copy["replica"].data = "passed"
      => effect # "none" \/ Found("replica") = 0

\* After recovery an intent in the queue has taken effect, and the outbox is
\* removed only once the replica is empty.
StagesInv ==
    /\ stage \in {"release", "ready"} /\ intent = "queued" /\ ~unmarked => effect # "none"
    /\ stage = "clear" => effect = "applied"
    /\ stage = "remove" /\ store = "outbox" => effect = "none"
    /\ stage = "remove_siblings" => effect = "none"
    /\ stage = "copied" => copy[store].data = file[store].data

IntentInv ==
    /\ CopiesTyped /\ PassedCopyIsOld /\ StagesInv
    /\ ~rewound => PassedIsMarked /\ CopiesAgree

\* A step that changes no datum, and no copy but by a release.
LEMMA DataStaysKept ==
    ASSUME IntentInv, intent' = intent, effect' = effect,
           unmarked' = unmarked, rewound' = rewound,
           copy'["outbox"] \in {copy["outbox"], NoCopy},
           copy'["replica"] \in {copy["replica"], NoCopy},
           Found("replica")' = Found("replica")
             \/ (copy["replica"].data = "passed" => effect # "none"),
           stage' = stage \/ stage' \notin {"clear", "release", "ready"},
           stage' \notin {"copied", "remove", "remove_siblings"}
    PROVE  IntentInv'
<1>1. CopiesTyped' /\ PassedCopyIsOld'
  BY DEF IntentInv, CopiesTyped, PassedCopyIsOld
<1>2. StagesInv'
  BY DEF IntentInv, StagesInv
<1>3. ~rewound => PassedIsMarked' /\ CopiesAgree'
  BY DEF IntentInv, PassedIsMarked, CopiesAgree
<1> QED BY <1>1, <1>2, <1>3 DEF IntentInv

LEMMA DatumIsWritten ==
    ASSUME TypeOK, NEW s \in Stores, NEW d, SetData(s, d)
    PROVE  /\ s = "outbox" => intent' = d /\ effect' = effect
           /\ s = "replica" => effect' = d /\ intent' = intent
           /\ Found("replica")' = Found("replica")
BY DEF TypeOK, SetData, File, intent, effect, Stores, Found

\* A step that writes data and leaves the copies, the marks of the history
\* variables being for the step to say.
LEMMA DataIsWritten ==
    ASSUME IntentInv, UNCHANGED <<copy, rewound>>, Found("replica")' = Found("replica"),
           intent' \in Intent, effect' \in Effect, StagesInv',
           PassedCopyIsOld', ~rewound => PassedIsMarked' /\ CopiesAgree'
    PROVE  IntentInv'
BY DEF IntentInv, CopiesTyped

LEMMA NextIntent == TypeOK /\ LaunchInv /\ IntentInv /\ [Next]_vars => IntentInv'
<1> SUFFICES ASSUME TypeOK, LaunchInv, IntentInv, [Next]_vars PROVE IntentInv'
  OBVIOUS
<1> USE DEF Stores
<1>a. /\ file \in [Stores -> File] /\ store \in Stores
      /\ copy \in [Stores -> File \cup {NoCopy}]
      /\ unmarked \in BOOLEAN /\ rewound \in BOOLEAN
  BY DEF TypeOK
<1>b. intent \in Intent /\ effect \in Effect
  BY DEF IntentInv, CopiesTyped
<1>1. ASSUME UNCHANGED <<file, unmarked, rewound>>,
             copy'["outbox"] \in {copy["outbox"], NoCopy},
             copy'["replica"] \in {copy["replica"], NoCopy},
             stage' = stage \/ stage' \notin {"clear", "release", "ready"},
             stage' \notin {"copied", "remove", "remove_siblings"}
      PROVE  IntentInv'
  BY <1>1, DataStaysKept DEF intent, effect, Found
<1>2. CASE UNCHANGED vars
  <2>1. UNCHANGED <<file, copy, stage, store, unmarked, rewound>>
    BY <1>2 DEF vars, marks
  <2> QED BY <2>1 DEF IntentInv, CopiesTyped, PassedCopyIsOld, StagesInv, PassedIsMarked,
                      CopiesAgree, intent, effect, Found
<1>20. CASE Start \/ Kill \/ StartThrows \/ Quit \/ \E b \in Builds : Install(b)
  <2>1. UNCHANGED <<file, copy, unmarked, rewound>> /\ stage' \in {"closed", "migrate"}
    BY <1>20 DEF Start, Kill, StartThrows, Quit, Install, Close, marks
  <2> QED BY <1>1, <2>1
<1>3. CASE \E s \in Stores : \/ Refuse(s) \/ CheckFails(s) \/ RefuseStaleCopy(s)
                             \/ CopyFails(s) \/ NothingPending(s)
  <2>1. /\ UNCHANGED <<file, copy, unmarked, rewound>>
        /\ stage' \in {"closed", "migrate", "recover"}
    BY <1>3 DEF Refuse, CheckFails, RefuseStaleCopy, CopyFails, NothingPending,
                Onward, Close, marks
  <2> QED BY <1>1, <2>1
<1>4. CASE \E s \in Stores : RunFails(s) \/ ReleaseFails(s) \/ GoForward(s)
  <2>1. PICK s \in Stores : RunFails(s) \/ ReleaseFails(s) \/ GoForward(s)
    BY <1>4
  <2>2. /\ UNCHANGED <<file, unmarked, rewound>> /\ stage' = "closed"
        /\ \/ UNCHANGED copy \/ copy' = [copy EXCEPT ![s] = NoCopy]
           \/ copy' = [copy EXCEPT !["replica"] = NoCopy]
    BY <2>1 DEF RunFails, Released, ReleaseFails, GoForward, Close, marks
  <2>3. /\ copy'["outbox"] \in {copy["outbox"], NoCopy}
        /\ copy'["replica"] \in {copy["replica"], NoCopy}
    BY <1>a, <2>2
  <2> QED BY <1>1, <2>2, <2>3
<1>18. CASE \E s \in Stores : Rebuild(s) \/ RemoveSiblings(s)
  <2>1. PICK s \in Stores : Rebuild(s) \/ RemoveSiblings(s)
    BY <1>18
  <2>2. /\ UNCHANGED <<file, unmarked, rewound>>
        /\ UNCHANGED copy \/ copy' = [copy EXCEPT ![s] = NoCopy]
        /\ \/ stage' = "remove" /\ store' = "replica"
           \/ stage = "remove_siblings" /\ stage' \in {"remove", "migrate"}
    BY <2>1 DEF Rebuild, RemoveSiblings, marks
  <2>3. /\ copy'["outbox"] \in {copy["outbox"], NoCopy}
        /\ copy'["replica"] \in {copy["replica"], NoCopy}
    BY <1>a, <2>2
  <2>4. StagesInv'
    BY <2>2 DEF IntentInv, StagesInv, intent, effect
  <2>5. CopiesTyped' /\ PassedCopyIsOld' /\ (~rewound => PassedIsMarked' /\ CopiesAgree')
    BY <2>2, <2>3 DEF IntentInv, CopiesTyped, PassedCopyIsOld, PassedIsMarked, CopiesAgree,
                      intent, effect, Found
  <2> QED BY <2>2, <2>4, <2>5 DEF IntentInv
<1>5. CASE \E s \in Stores : TakeCopy(s)
  <2>1. PICK s \in Stores : TakeCopy(s)
    BY <1>5
  <2>2. /\ copy' = [copy EXCEPT ![s] = file[s]] /\ stage' = "copied" /\ store = s
        /\ UNCHANGED <<file, store, unmarked, rewound>>
    BY <2>1 DEF TakeCopy, MustMigrate, marks
  <2>3. copy'[s] = file[s] /\ \A r \in Stores \ {s} : copy'[r] = copy[r]
    BY <1>a, <2>2
  <2>4. intent' = intent /\ effect' = effect /\ Found("replica")' = Found("replica")
    BY <2>2 DEF intent, effect, Found
  <2>5. CASE s = "outbox"
    <3>1. copy'["outbox"].data = intent /\ copy'["replica"] = copy["replica"]
      BY <2>3, <2>5 DEF intent
    <3> QED BY <2>2, <2>3, <2>4, <3>1 DEF IntentInv, CopiesTyped, PassedCopyIsOld, StagesInv,
                                          PassedIsMarked, CopiesAgree
  <2>6. CASE s = "replica"
    <3>1. copy'["replica"].data = effect /\ copy'["outbox"] = copy["outbox"]
      BY <2>3, <2>6 DEF effect
    <3> QED BY <2>2, <2>3, <2>4, <3>1 DEF IntentInv, CopiesTyped, PassedCopyIsOld, StagesInv,
                                          PassedIsMarked, CopiesAgree
  <2> QED BY <2>5, <2>6
<1>6. CASE \E s \in Stores : RunSteps(s) \/ RunFailsUncleanly(s)
  <2>1. PICK s \in Stores : RunSteps(s) \/ RunFailsUncleanly(s)
    BY <1>6
  <2>2. /\ file' = [file EXCEPT ![s] = Migrated(@, Pending(s), Current(s))]
        /\ UNCHANGED copy \/ copy' = [copy EXCEPT ![s] = NoCopy]
        /\ stage = "copied" /\ store = s /\ stage' \in {"migrate", "recover", "closed"}
        /\ UNCHANGED <<unmarked, rewound>>
    BY <2>1 DEF RunSteps, RunFailsUncleanly, Released, Onward, Close, marks
  <2>3. Migrated(file[s], Pending(s), Current(s)).data = file[s].data
    BY <1>a DEF Migrated, File
  <2> DEFINE g == Migrated(file[s], Pending(s), Current(s))
  <2>4. file' = [file EXCEPT ![s] = g] /\ g.data = file[s].data
    BY <2>2, <2>3
  <2> HIDE DEF g
  <2>5. intent' = intent /\ effect' = effect
    BY <1>a, <2>4 DEF intent, effect
  <2>6. /\ copy'["outbox"] \in {copy["outbox"], NoCopy}
        /\ copy'["replica"] \in {copy["replica"], NoCopy}
    BY <1>a, <2>2
  <2>7. Found("replica")' = Found("replica") \/ (copy["replica"].data = "passed" => effect # "none")
    <3>1. CASE s = "outbox"
      BY <1>a, <2>4, <3>1 DEF Found
    <3>2. CASE s = "replica"
      BY <2>2, <3>2 DEF IntentInv, StagesInv, effect
    <3> QED BY <3>1, <3>2
  <2> QED BY <2>2, <2>5, <2>6, <2>7, DataStaysKept
<1>7. CASE \E s \in Stores : RemoveDatabase(s)
  <2>1. PICK s \in Stores : RemoveDatabase(s)
    BY <1>7
  <2>2. /\ file' = [file EXCEPT ![s] = Fresh]
        /\ stage = "remove" /\ store = s /\ stage' = "remove_siblings"
        /\ UNCHANGED <<copy, unmarked, rewound>>
    BY <2>1 DEF RemoveDatabase
  <2>3. CASE s = "outbox"
    <3>1. /\ intent' = "none" /\ effect' = effect /\ effect = "none"
          /\ Found("replica")' = Found("replica")
      BY <1>a, <2>2, <2>3 DEF Fresh, intent, effect, Found, IntentInv, StagesInv
    <3> QED BY <2>2, <3>1 DEF IntentInv, CopiesTyped, PassedCopyIsOld, StagesInv,
                              PassedIsMarked, CopiesAgree, Intent, Marked
  <2>4. CASE s = "replica"
    <3>1. effect' = "none" /\ intent' = intent /\ Found("replica")' = 0
      BY <1>a, <2>2, <2>4 DEF Fresh, intent, effect, Found
    <3> QED BY <2>2, <3>1 DEF IntentInv, CopiesTyped, PassedCopyIsOld, StagesInv,
                              PassedIsMarked, CopiesAgree, Effect
  <2> QED BY <2>3, <2>4
<1>8. CASE \E s \in Stores : GoBack(s)
  <2>1. PICK s \in Stores : GoBack(s)
    BY <1>8
  <2>2. /\ file' = [file EXCEPT ![s] = copy[s]] /\ copy[s] # NoCopy
        /\ copy' = [copy EXCEPT ![s] = NoCopy] /\ stage' = "closed" /\ unmarked' = unmarked
        /\ rewound' = (rewound \/ (/\ s = "replica" /\ copy[s].data = "passed"
                                   /\ intent \notin Marked))
    BY <2>1 DEF GoBack
  <2>3. StagesInv'
    BY <2>2 DEF StagesInv
  <2>4. CASE s = "outbox"
    <3>1. /\ intent' = copy["outbox"].data /\ effect' = effect /\ copy'["outbox"] = NoCopy
          /\ copy'["replica"] = copy["replica"] /\ Found("replica")' = Found("replica")
          /\ copy["outbox"] # NoCopy /\ rewound' = rewound
      BY <1>a, <2>2, <2>4 DEF intent, effect, Found
    <3> QED BY <2>2, <2>3, <3>1 DEF IntentInv, CopiesTyped, PassedCopyIsOld, PassedIsMarked,
                                    CopiesAgree
  <2>5. CASE s = "replica"
    <3>1. /\ effect' = copy["replica"].data /\ intent' = intent /\ copy'["replica"] = NoCopy
          /\ copy'["outbox"] = copy["outbox"] /\ copy["replica"] # NoCopy
      BY <1>a, <2>2, <2>5 DEF intent, effect
    <3>2. ~rewound' => ~rewound /\ (effect' = "passed" => intent \in Marked)
      BY <2>2, <2>5, <3>1
    <3> QED BY <2>2, <2>3, <3>1, <3>2 DEF IntentInv, CopiesTyped, PassedCopyIsOld,
                                          PassedIsMarked, CopiesAgree, Marked
  <2> QED BY <2>4, <2>5
<1>c. ASSUME stage = "recover"
      PROVE  copy["replica"] # NoCopy /\ copy["replica"].data = "passed" => effect # "none"
  <2>1. Found("replica") = Current("replica")
    BY <1>c DEF LaunchInv, Complete
  <2>2. Current("replica") # 0
    BY HeadIsAVersion DEF Current, TypeOK
  <2> QED BY <2>1, <2>2 DEF IntentInv, PassedCopyIsOld
<1>9. CASE NothingOutstanding
  <2>1. /\ stage' = "release" /\ ~Outstanding /\ UNCHANGED <<file, copy, unmarked, rewound>>
    BY <1>9 DEF NothingOutstanding, Release, marks
  <2>2. StagesInv'
    BY <2>1, <1>b DEF StagesInv, Outstanding, intent, effect
  <2> QED BY <2>1, <2>2 DEF IntentInv, CopiesTyped, PassedCopyIsOld, PassedIsMarked,
                            CopiesAgree, intent, effect, Found
<1>10. CASE ReplayApplied
  <2>1. /\ effect' = "applied" /\ intent' = intent /\ UNCHANGED <<copy, rewound>>
        /\ stage' \in {"clear", "release"} /\ Found("replica")' = Found("replica")
    BY <1>10, DatumIsWritten DEF ReplayApplied, Release, Answered
  <2> QED BY <2>1, <1>b, DataIsWritten
          DEF IntentInv, Effect, StagesInv, PassedCopyIsOld, PassedIsMarked, CopiesAgree
<1>11. CASE ClearDisposition
  <2>1. /\ intent' = "queued" /\ effect' = effect /\ UNCHANGED <<copy, unmarked, rewound>>
        /\ stage = "clear" /\ stage' = "release" /\ Found("replica")' = Found("replica")
    BY <1>11, DatumIsWritten DEF ClearDisposition, Release, marks
  <2> QED BY <2>1, <1>b, DataIsWritten DEF IntentInv, Intent, Marked, StagesInv,
                         PassedCopyIsOld, PassedIsMarked, CopiesAgree
<1>d. ASSUME stage = "recover", Outstanding, UNCHANGED <<copy, rewound>>, effect' = effect,
             Found("replica")' = Found("replica"), stage' = "release", intent' \in Intent,
             \/ intent' \in Marked /\ ~unmarked'
             \/ intent' = "queued" /\ unmarked'
      PROVE  IntentInv'
  <2>1. intent = "deferred" \/ effect = "none"
    BY <1>d DEF Outstanding
  <2>2. StagesInv'
    BY <1>d DEF StagesInv, Marked
  <2>3. PassedCopyIsOld'
    BY <1>d DEF IntentInv, PassedCopyIsOld
  <2>4. ~rewound => PassedIsMarked' /\ CopiesAgree'
    BY <1>c, <1>d, <2>1 DEF IntentInv, PassedIsMarked, CopiesAgree, Marked
  <2> QED BY <1>b, <1>d, <2>2, <2>3, <2>4, DataIsWritten
<1>12. CASE ReplayDeferred \/ ReplayRefused
  <2>1. /\ intent' \in Marked /\ unmarked' = FALSE /\ effect' = effect
        /\ stage = "recover" /\ Outstanding /\ stage' = "release"
        /\ UNCHANGED <<copy, rewound>> /\ Found("replica")' = Found("replica")
    BY <1>12, DatumIsWritten DEF ReplayDeferred, ReplayRefused, Release, Answered, Marked
  <2> QED BY <1>d, <2>1 DEF Intent, Marked
<1>21. CASE ReplayHalts
  <2>1. /\ effect' = effect /\ intent' \in {"queued", intent} /\ unmarked' = (intent' = "queued")
        /\ stage = "recover" /\ Outstanding /\ stage' = "release"
        /\ UNCHANGED <<copy, rewound>> /\ Found("replica")' = Found("replica")
    BY <1>21, DatumIsWritten DEF ReplayHalts, Release
  <2> QED BY <1>d, <2>1 DEF Intent, Marked, Outstanding
<1>e. ASSUME stage = "ready" PROVE copy["outbox"] = NoCopy /\ copy["replica"] = NoCopy
  BY <1>e DEF LaunchInv
<1>f. ASSUME stage = "ready", intent = "none", UNCHANGED <<copy, rewound>>,
             stage' \in {"ready", "closed"}, Found("replica")' = Found("replica"),
             intent' \in Intent, effect' \in {effect, "applied"},
             stage' = "ready" /\ intent' = "queued" /\ ~unmarked' => effect' = "applied"
      PROVE  IntentInv'
  <2>1. StagesInv'
    BY <1>f DEF StagesInv
  <2>2. PassedCopyIsOld'
    BY <1>e, <1>f DEF PassedCopyIsOld
  <2>3. ~rewound => PassedIsMarked' /\ CopiesAgree'
    BY <1>e, <1>f DEF IntentInv, PassedIsMarked, CopiesAgree
  <2> QED BY <1>b, <1>f, <2>1, <2>2, <2>3, DataIsWritten DEF Effect
<1>13. CASE WriteApplied
  <2>1. /\ intent' = "queued" /\ effect' = "applied" /\ UNCHANGED <<copy, stage, rewound>>
        /\ stage = "ready" /\ intent = "none" /\ Found("replica")' = Found("replica")
    BY <1>a, <1>13 DEF WriteApplied, StaysOpen, File, intent, effect, Found
  <2> QED BY <1>f, <2>1 DEF Intent
<1>14. CASE WriteDeferred \/ WriteRefused \/ WriteFailed
  <2>1. /\ intent' \in Marked \/ (unmarked' /\ intent' = "queued")
        /\ effect' = effect /\ UNCHANGED <<copy, stage, rewound>>
        /\ stage = "ready" /\ intent = "none" /\ Found("replica")' = Found("replica")
    BY <1>14, DatumIsWritten DEF WriteDeferred, WriteRefused, WriteFailed, StaysOpen, Marked
  <2> QED BY <1>f, <2>1 DEF Intent, Marked
<1>15. CASE WriteKilled
  <2>1. /\ intent = "none" /\ intent' = "queued" /\ effect' = effect
        /\ UNCHANGED <<copy, rewound>> /\ stage = "ready" /\ stage' = "closed"
        /\ Found("replica")' = Found("replica")
    BY <1>15, DatumIsWritten DEF WriteKilled, Close
  <2> QED BY <1>f, <2>1 DEF Intent
<1>16. CASE LaterWrite
  <2>1. /\ intent # "none" /\ effect = "none" /\ intent' = intent /\ effect' = "passed"
        /\ UNCHANGED <<copy, stage, rewound, unmarked>> /\ stage = "ready"
        /\ Found("replica")' = Found("replica")
    BY <1>16, DatumIsWritten DEF LaterWrite, StaysOpen
  <2>2. unmarked \/ intent \in Marked
    BY <1>b, <2>1 DEF IntentInv, StagesInv, Intent, Marked
  <2>3. StagesInv' /\ PassedCopyIsOld'
    BY <1>e, <2>1 DEF StagesInv, PassedCopyIsOld
  <2>4. PassedIsMarked' /\ CopiesAgree'
    BY <1>e, <2>1, <2>2 DEF PassedIsMarked, CopiesAgree
  <2> QED BY <1>b, <2>1, <2>3, <2>4, DataIsWritten DEF Effect
<1>17. CASE \E s \in Stores : ReleaseCopy(s)
  <2>1. PICK s \in Stores : ReleaseCopy(s)
    BY <1>17
  <2>2. /\ stage = "release" /\ stage' \in {"release", "ready"}
        /\ UNCHANGED <<file, unmarked, rewound>> /\ copy' = [copy EXCEPT ![s] = NoCopy]
    BY <2>1 DEF ReleaseCopy
  <2>3. /\ copy'["outbox"] \in {copy["outbox"], NoCopy}
        /\ copy'["replica"] \in {copy["replica"], NoCopy}
    BY <1>a, <2>2
  <2>4. StagesInv'
    BY <2>2 DEF IntentInv, StagesInv, intent, effect
  <2> QED BY <2>2, <2>3, <2>4 DEF IntentInv, CopiesTyped, PassedCopyIsOld, PassedIsMarked,
                                  CopiesAgree, intent, effect, Found
<1> QED BY <1>2, <1>3, <1>4, <1>5, <1>6, <1>7, <1>8, <1>9, <1>10, <1>11, <1>12, <1>13, <1>14,
           <1>15, <1>16, <1>17, <1>18, <1>20, <1>21 DEF Next, Migrate

\* Through kills, migrations, rebuilds, deferrals and either way out, the intent
\* is refused, in the replica, or a launch selects it: unless a halt or a failed
\* write left it unmarked, or a replay of it was put back.
THEOREM IntentsAreNotLost == Spec => []NoIntentIsLost
<1>1. Init => IntentInv
  <2> SUFFICES ASSUME Init PROVE IntentInv
    OBVIOUS
  <2>1. CopiesTyped /\ PassedCopyIsOld
    BY FirstAssumption DEF Init, CopiesTyped, PassedCopyIsOld, intent, effect
  <2>2. StagesInv
    BY DEF Init, StagesInv
  <2>3. PassedIsMarked /\ CopiesAgree
    BY FirstAssumption DEF Init, PassedIsMarked, CopiesAgree, Marked, intent, effect
  <2> QED BY <2>1, <2>2, <2>3 DEF IntentInv
<1>2. TypeOK /\ LaunchInv /\ IntentInv /\ [Next]_vars => IntentInv'
  BY NextIntent
<1>3. IntentInv => NoIntentIsLost
  BY DEF IntentInv, CopiesTyped, PassedIsMarked, NoIntentIsLost, Outstanding, Intent, Effect,
         Marked
<1> QED BY <1>1, <1>2, <1>3, TypesHold, LaunchAlways, PTL DEF Spec
=============================================================================
