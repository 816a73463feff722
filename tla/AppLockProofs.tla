--------------------------- MODULE AppLockProofs ---------------------------
(***************************************************************************)
(* The safety of the launch gate, for every grace, clock and number of     *)
(* locks.  One inductive invariant carries the four theorems: it adds to   *)
(* the properties where start() is (nothing is shown and nobody is asked   *)
(* before it ends), what an answer under way owes, and what the hidden     *)
(* clock measures while the cover is drawn.                                *)
(***************************************************************************)
EXTENDS AppLock, TLAPS

\* Before start() ends nothing is shown, and the proof owed is the launch's.
StartingIsBlank ==
    /\ start # "done" => /\ gate.status = "checking"
                         /\ ~gate.gated /\ ~gate.listening
                         /\ answer.at = "none"
                         /\ (owed <=> Guarded)
    /\ start = "history" => stored = "nothing"

\* An answer began where no proof was owed; only a lock since then owes one.
AnswersOweNothing ==
    /\ gate.status = "asking" => ~owed
    /\ answer.at # "none" => (owed => overtaken)

\* The hidden clock runs exactly while the cover is drawn, and no slower than
\* the stay unless the clock was set.
CoverIsTimed ==
    /\ gate.covered => /\ gate.status = "unlocked"
                       /\ gate.hiddenAt # NoTime
                       /\ turned \/ gate.hiddenAt + stay <= now
    /\ gate.status = "unlocked" /\ ~gate.covered => gate.hiddenAt = NoTime

Inv ==
    /\ TypeOK
    /\ StartingIsBlank
    /\ AnswersOweNothing
    /\ CoverIsTimed
    /\ ProofBeforeLedger
    /\ AwayIsCovered

\* A gate whose count of locks is not yet held to its bound.
AnyGate == [status : {"checking", "asking", "open", "locked", "unlocked"},
            prompting : BOOLEAN, covered : BOOLEAN,
            gated : BOOLEAN, canGate : BOOLEAN, listening : BOOLEAN,
            hiddenAt : Times \cup {NoTime}, generation : Nat]

LEMMA GatesAreAnyGates ==
    ASSUME NEW g \in Gate
    PROVE  g \in AnyGate
BY BoundsAssumption DEF Gate, AnyGate

LEMMA BoundedGates ==
    ASSUME NEW g \in AnyGate, g.generation <= MaxLocks
    PROVE  g \in Gate
BY BoundsAssumption DEF Gate, AnyGate

\* What each helper makes of a gate, field by field.
LEMMA ShowsGate ==
    ASSUME NEW g \in AnyGate,
           NEW s \in {"checking", "asking", "open", "locked", "unlocked"}
    PROVE  /\ Shows(g, s) \in AnyGate
           /\ Shows(g, s).status = s
           /\ ~Shows(g, s).covered
           /\ Shows(g, s).gated = g.gated
           /\ Shows(g, s).listening = g.listening
           /\ Shows(g, s).hiddenAt = g.hiddenAt
           /\ Shows(g, s).generation = g.generation
BY DEF Shows, AnyGate

LEMMA LockNowGate ==
    ASSUME NEW g \in AnyGate
    PROVE  /\ LockNow(g) \in AnyGate
           /\ LockNow(g).status = "locked"
           /\ ~LockNow(g).covered
           /\ LockNow(g).gated = g.gated
           /\ LockNow(g).listening = g.listening
           /\ LockNow(g).generation = g.generation + 1
<1> DEFINE h == Shows(g, "locked")
<1>1. /\ h \in AnyGate /\ h.status = "locked" /\ ~h.covered
      /\ h.gated = g.gated /\ h.listening = g.listening
      /\ h.generation = g.generation
  BY ShowsGate
<1> DEFINE n == h.generation + 1
<1>2. LockNow(g) = [h EXCEPT !.hiddenAt = NoTime, !.generation = n]
  BY DEF LockNow
<1> HIDE DEF h
<1>3. n \in Nat /\ n = g.generation + 1
  BY <1>1 DEF AnyGate
<1> HIDE DEF n
<1> QED
  BY <1>1, <1>2, <1>3 DEF AnyGate

LEMMA UnlockedGate ==
    ASSUME NEW g \in AnyGate
    PROVE  /\ Unlocked(g) \in AnyGate
           /\ Unlocked(g).status = "unlocked"
           /\ ~Unlocked(g).covered
           /\ Unlocked(g).hiddenAt = NoTime
           /\ Unlocked(g).listening = g.listening
           /\ Unlocked(g).generation = g.generation
<1> DEFINE h == Shows(g, "unlocked")
<1>1. /\ h \in AnyGate /\ h.status = "unlocked" /\ ~h.covered
      /\ h.listening = g.listening /\ h.generation = g.generation
  BY ShowsGate
<1>2. Unlocked(g) = [h EXCEPT !.hiddenAt = NoTime]
  BY DEF Unlocked
<1> HIDE DEF h
<1> QED
  BY <1>1, <1>2 DEF AnyGate

LEMMA DisarmedGate ==
    ASSUME NEW g \in AnyGate
    PROVE  /\ Disarmed(g) \in AnyGate
           /\ Disarmed(g).status = "open"
           /\ ~Disarmed(g).covered
           /\ Disarmed(g).generation = g.generation
<1> DEFINE h == Shows(g, "open")
<1>1. h \in AnyGate /\ h.status = "open" /\ ~h.covered /\ h.generation = g.generation
  BY ShowsGate
<1>2. Disarmed(g) = [h EXCEPT !.gated = FALSE, !.listening = FALSE]
  BY DEF Disarmed
<1> HIDE DEF h
<1> QED
  BY <1>1, <1>2 DEF AnyGate

\* Of an app that goes away or comes back: nothing, a cover, a lock, or the
\* cover lifted, which only a short stay's return does.
LEMMA OnAppStateGate ==
    ASSUME NEW g \in AnyGate, NEW s \in Activities, now \in Times
    PROVE  /\ OnAppState(g, s) \in AnyGate
           /\ OnAppState(g, s).gated = g.gated
           /\ OnAppState(g, s).listening = g.listening
           /\ g.status # "unlocked" => OnAppState(g, s) = g
           /\ g.status = "unlocked" /\ s # "active" =>
                 /\ OnAppState(g, s).status = "unlocked"
                 /\ OnAppState(g, s).covered
                 /\ OnAppState(g, s).hiddenAt = (IF g.hiddenAt = NoTime THEN now ELSE g.hiddenAt)
                 /\ OnAppState(g, s).generation = g.generation
           /\ g.status = "unlocked" /\ s = "active" /\ TooLong(g) =>
                 OnAppState(g, s) = LockNow(g)
           /\ g.status = "unlocked" /\ s = "active" /\ ~TooLong(g) =>
                 /\ OnAppState(g, s).status = "unlocked"
                 /\ ~OnAppState(g, s).covered
                 /\ OnAppState(g, s).hiddenAt = NoTime
                 /\ OnAppState(g, s).generation = g.generation
<1>1. CASE g.status # "unlocked"
  BY <1>1 DEF OnAppState
<1>2. CASE g.status = "unlocked" /\ s # "active"
  <2>1. OnAppState(g, s) = [g EXCEPT !.hiddenAt = IF g.hiddenAt = NoTime THEN now ELSE g.hiddenAt,
                                     !.covered = TRUE]
    BY <1>2 DEF OnAppState
  <2> QED
    BY <1>2, <2>1 DEF AnyGate
<1>3. CASE g.status = "unlocked" /\ s = "active" /\ TooLong(g)
  BY <1>3, LockNowGate DEF OnAppState
<1>4. CASE g.status = "unlocked" /\ s = "active" /\ ~TooLong(g)
  <2>1. OnAppState(g, s) = [g EXCEPT !.hiddenAt = NoTime, !.covered = FALSE]
    BY <1>4 DEF OnAppState
  <2> QED
    BY <1>4, <2>1 DEF AnyGate
<1> QED
  BY <1>1, <1>2, <1>3, <1>4

LEMMA ListenGate ==
    ASSUME NEW g \in AnyGate, now \in Times, activity \in Activities
    PROVE  /\ Listen(g) \in AnyGate
           /\ g.listening \/ ~g.gated => Listen(g) = g
           /\ ~g.listening /\ g.gated =>
                 /\ Listen(g).listening
                 /\ Listen(g).status = g.status
                 /\ Listen(g).generation = g.generation
                 /\ g.status # "unlocked" \/ activity = "active" =>
                       /\ Listen(g).covered = g.covered
                       /\ Listen(g).hiddenAt = g.hiddenAt
                 /\ g.status = "unlocked" /\ activity # "active" =>
                       /\ Listen(g).covered
                       /\ Listen(g).hiddenAt =
                             (IF g.hiddenAt = NoTime THEN now ELSE g.hiddenAt)
<1> DEFINE h == [g EXCEPT !.listening = TRUE]
<1>1. /\ h \in AnyGate /\ h.listening /\ h.status = g.status /\ h.covered = g.covered
      /\ h.hiddenAt = g.hiddenAt /\ h.generation = g.generation
  BY DEF AnyGate
<1>2. Listen(g) = IF g.listening \/ ~g.gated THEN g
                  ELSE IF activity = "active" THEN h ELSE OnAppState(h, activity)
  BY DEF Listen
<1> HIDE DEF h
<1> QED
  BY <1>1, <1>2, OnAppStateGate DEF AnyGate

LEMMA StaysAreCounted ==
    ASSUME NEW n \in 0 .. Grace
    PROVE  n \in Nat /\ 0 \in 0 .. Grace
BY BoundsAssumption

\* A gate that keeps its bound is the next gate, and the history follows it.
LEMMA Becoming ==
    ASSUME TypeOK, NEW g \in AnyGate, NEW s \in Activities,
           NEW proved \in BOOLEAN, NEW asked \in BOOLEAN,
           BecomesIn(s, g, proved, asked)
    PROVE  /\ gate' = g /\ gate' \in Gate
           /\ {owed', overtaken', late', turned'} \subseteq BOOLEAN
           /\ stay' \in 0 .. Grace
           /\ g.generation # gate.generation =>
                 owed' /\ (overtaken' <=> answer.at # "none")
           /\ g.generation = gate.generation =>
                 /\ owed' <=> (owed /\ ~proved)
                 /\ overtaken' <=> (overtaken /\ ~proved)
           /\ late' <=> (g.status = "unlocked" /\ ~g.covered /\ s # "active"
                         /\ (late \/ asked))
           /\ ~gate.covered => stay' = 0 /\ ~turned'
           /\ gate.covered /\ g.covered => stay' = stay /\ (turned' <=> turned)
<1>1. gate' = g /\ g \in Gate
  BY BoundedGates DEF BecomesIn
<1>2. g.covered \in BOOLEAN /\ gate.covered \in BOOLEAN
  BY DEF AnyGate, TypeOK, Gate
<1>3. /\ owed \in BOOLEAN /\ overtaken \in BOOLEAN
      /\ late \in BOOLEAN /\ turned \in BOOLEAN
  BY DEF TypeOK
<1>4. stay' \in 0 .. Grace /\ (~gate.covered => stay' = 0)
      /\ (gate.covered /\ g.covered => stay' = stay)
  BY <1>2, BoundsAssumption DEF TypeOK, BecomesIn
<1>5. {owed', overtaken', late', turned'} \subseteq BOOLEAN
  BY <1>2, <1>3 DEF BecomesIn
<1> QED
  BY <1>1, <1>2, <1>3, <1>4, <1>5 DEF BecomesIn

LiftedByAShortStay ==
    gate.covered /\ gate'.status = "unlocked" /\ ~gate'.covered /\ UNCHANGED answer
        => /\ stay < Grace \/ turned
           /\ now >= gate.hiddenAt

Kept == Inv' /\ LiftedByAShortStay

LEMMA LockedAnew ==
    ASSUME NEW g \in AnyGate
    PROVE  /\ LockNow(g) \in AnyGate /\ LockNow(g).status = "locked"
           /\ ~LockNow(g).covered /\ LockNow(g).generation # g.generation
BY LockNowGate DEF AnyGate

\* Arming starts to listen, covers an app that is away, and locks.
LEMMA ArmGate ==
    ASSUME NEW g \in AnyGate, now \in Times, activity \in Activities,
           g.status # "unlocked"
    PROVE  /\ Arm(g) \in AnyGate
           /\ Arm(g).status = "locked" /\ ~Arm(g).covered
           /\ Arm(g).generation # g.generation
<1> DEFINE h == [g EXCEPT !.gated = TRUE]
<1>1. h \in AnyGate /\ h.gated /\ h.generation = g.generation
  BY DEF AnyGate
<1>2. Arm(g) = LockNow(Listen(h))
  BY DEF Arm
<1> HIDE DEF h
<1>3. Listen(h) \in AnyGate /\ Listen(h).generation = g.generation
  BY <1>1, ListenGate DEF AnyGate
<1> QED
  BY <1>2, <1>3, LockNowGate DEF AnyGate

\* The gate an owner's yes leaves.
LEMMA ArmedGate ==
    ASSUME NEW g \in AnyGate, now \in Times, activity \in Activities
    PROVE  LET u == Unlocked(Listen([g EXCEPT !.gated = TRUE, !.hiddenAt = NoTime]))
           IN  /\ u \in AnyGate
               /\ u.status = "unlocked" /\ ~u.covered /\ u.hiddenAt = NoTime
               /\ u.generation = g.generation
<1> DEFINE h == [g EXCEPT !.gated = TRUE, !.hiddenAt = NoTime]
<1>1. h \in AnyGate /\ h.gated /\ h.generation = g.generation
  BY DEF AnyGate
<1> HIDE DEF h
<1>2. Listen(h) \in AnyGate /\ Listen(h).generation = g.generation
  BY <1>1, ListenGate DEF AnyGate
<1>3. /\ Unlocked(Listen(h)) \in AnyGate
      /\ Unlocked(Listen(h)).status = "unlocked" /\ ~Unlocked(Listen(h)).covered
      /\ Unlocked(Listen(h)).hiddenAt = NoTime
      /\ Unlocked(Listen(h)).generation = g.generation
  BY <1>2, UnlockedGate
<1> QED
  BY <1>3 DEF h

\* A start that opens owes nothing.
LEMMA OpensKeeps ==
    ASSUME Inv, start # "done", UNCHANGED <<prompts, answer, world>>,
           NEW p \in BOOLEAN, Opens(p), owed => p
    PROVE  Kept
<1> DEFINE g == Shows(gate, "open")
<1>1. gate \in AnyGate /\ now \in Times /\ activity \in Activities
  BY GatesAreAnyGates DEF Inv, TypeOK
<1>2. /\ g \in AnyGate
      /\ g.status = "open" /\ ~g.covered /\ g.generation = gate.generation
  BY <1>1, ShowsGate
<1>3. BecomesIn(activity, g, p, FALSE)
  BY DEF Opens, Becomes
<1> HIDE DEF g
<1>4. /\ gate' = g /\ gate' \in Gate
      /\ {owed', overtaken', late', turned'} \subseteq BOOLEAN
      /\ stay' \in 0 .. Grace
      /\ g.generation # gate.generation =>
            owed' /\ (overtaken' <=> answer.at # "none")
      /\ g.generation = gate.generation =>
            /\ owed' <=> (owed /\ ~p)
            /\ overtaken' <=> (overtaken /\ ~p)
      /\ late' <=> (g.status = "unlocked" /\ ~g.covered /\ activity # "active" /\ late)
      /\ ~gate.covered => stay' = 0 /\ ~turned'
      /\ gate.covered /\ g.covered => stay' = stay /\ (turned' <=> turned)
  BY <1>1, <1>3, <1>2, Becoming DEF Inv
<1> QED
  BY <1>1, <1>2, <1>4, BoundsAssumption DEF Opens, Inv, TypeOK, StartingIsBlank, AnswersOweNothing,
     CoverIsTimed, ProofBeforeLedger, AwayIsCovered, Kept, LiftedByAShortStay, world

\* A start that arms the gate owes a proof from then on.
LEMMA ArmsKeeps ==
    ASSUME Inv, start # "done", UNCHANGED <<prompts, answer, world>>, Arms
    PROVE  Kept
<1> DEFINE g == Arm(gate)
<1>1. gate \in AnyGate /\ now \in Times /\ activity \in Activities
  BY GatesAreAnyGates DEF Inv, TypeOK
<1>2. /\ g \in AnyGate
      /\ g.status = "locked" /\ ~g.covered /\ g.generation # gate.generation
  BY <1>1, ArmGate DEF Inv, StartingIsBlank
<1>3. BecomesIn(activity, g, FALSE, FALSE)
  BY DEF Arms, Becomes
<1> HIDE DEF g
<1>4. /\ gate' = g /\ gate' \in Gate
      /\ {owed', overtaken', late', turned'} \subseteq BOOLEAN
      /\ stay' \in 0 .. Grace
      /\ g.generation # gate.generation =>
            owed' /\ (overtaken' <=> answer.at # "none")
      /\ g.generation = gate.generation =>
            /\ owed' <=> owed
            /\ overtaken' <=> overtaken
      /\ late' <=> (g.status = "unlocked" /\ ~g.covered /\ activity # "active" /\ late)
      /\ ~gate.covered => stay' = 0 /\ ~turned'
      /\ gate.covered /\ g.covered => stay' = stay /\ (turned' <=> turned)
  BY <1>1, <1>3, <1>2, Becoming DEF Inv
<1> QED
  BY <1>1, <1>2, <1>4, BoundsAssumption DEF Arms, Inv, TypeOK, StartingIsBlank, AnswersOweNothing,
     CoverIsTimed, ProofBeforeLedger, AwayIsCovered, Kept, LiftedByAShortStay, world

\* So does a lock by hand.
LEMMA LockKeeps ==
    ASSUME Inv, Lock
    PROVE  Kept
<1> DEFINE g == LockNow(gate)
<1>1. gate \in AnyGate /\ now \in Times /\ activity \in Activities
  BY GatesAreAnyGates DEF Inv, TypeOK
<1>2. /\ g \in AnyGate
      /\ g.status = "locked" /\ ~g.covered /\ g.generation # gate.generation
  BY <1>1, LockNowGate DEF AnyGate
<1>3. BecomesIn(activity, g, FALSE, FALSE)
  BY DEF Lock, Becomes
<1> HIDE DEF g
<1>4. /\ gate' = g /\ gate' \in Gate
      /\ {owed', overtaken', late', turned'} \subseteq BOOLEAN
      /\ stay' \in 0 .. Grace
      /\ g.generation # gate.generation =>
            owed' /\ (overtaken' <=> answer.at # "none")
      /\ g.generation = gate.generation =>
            /\ owed' <=> owed
            /\ overtaken' <=> overtaken
      /\ late' <=> (g.status = "unlocked" /\ ~g.covered /\ activity # "active" /\ late)
      /\ ~gate.covered => stay' = 0 /\ ~turned'
      /\ gate.covered /\ g.covered => stay' = stay /\ (turned' <=> turned)
  BY <1>1, <1>3, <1>2, Becoming DEF Inv
<1> QED
  BY <1>1, <1>2, <1>4, BoundsAssumption DEF Lock, Inv, TypeOK, StartingIsBlank, AnswersOweNothing,
     CoverIsTimed, ProofBeforeLedger, AwayIsCovered, Kept, LiftedByAShortStay, world

\* A second start listens, and covers an app that is away already.
LEMMA StartAgainKeeps ==
    ASSUME Inv, StartAgain
    PROVE  Kept
<1> DEFINE g == Listen(gate)
<1>1. gate \in AnyGate /\ now \in Times /\ activity \in Activities
  BY GatesAreAnyGates DEF Inv, TypeOK
<1>2. /\ g \in AnyGate
      /\ gate.listening \/ ~gate.gated => g = gate
      /\ ~gate.listening /\ gate.gated =>
           /\ g.status = gate.status /\ g.generation = gate.generation
           /\ g.status # "unlocked" \/ activity = "active" =>
                 g.covered = gate.covered /\ g.hiddenAt = gate.hiddenAt
           /\ g.status = "unlocked" /\ activity # "active" =>
                 /\ g.covered
                 /\ g.hiddenAt = (IF gate.hiddenAt = NoTime THEN now ELSE gate.hiddenAt)
  BY <1>1, ListenGate
<1>3. BecomesIn(activity, g, FALSE, FALSE)
  BY DEF StartAgain, Becomes
<1> HIDE DEF g
<1>0. g \in AnyGate
  BY <1>2
<1>4. /\ gate' = g /\ gate' \in Gate
      /\ {owed', overtaken', late', turned'} \subseteq BOOLEAN
      /\ stay' \in 0 .. Grace
      /\ g.generation # gate.generation =>
            owed' /\ (overtaken' <=> answer.at # "none")
      /\ g.generation = gate.generation =>
            /\ owed' <=> owed
            /\ overtaken' <=> overtaken
      /\ late' <=> (g.status = "unlocked" /\ ~g.covered /\ activity # "active" /\ late)
      /\ ~gate.covered => stay' = 0 /\ ~turned'
      /\ gate.covered /\ g.covered => stay' = stay /\ (turned' <=> turned)
  BY <1>1, <1>3, <1>0, Becoming DEF Inv
<1> USE DEF StartAgain, world, Inv
<1>5. TypeOK'
  BY <1>4 DEF TypeOK
<1>6. StartingIsBlank'
  BY <1>1, <1>2, <1>4 DEF StartingIsBlank, TypeOK, Guarded
<1>7. AnswersOweNothing'
  BY <1>1, <1>2, <1>4 DEF AnswersOweNothing, TypeOK, Gate
<1>8. CoverIsTimed' /\ LiftedByAShortStay
  BY <1>1, <1>2, <1>4, BoundsAssumption DEF CoverIsTimed, LiftedByAShortStay, Times, NoTime, TypeOK, TooLong, Gate
<1>9. ProofBeforeLedger'
  BY <1>1, <1>2, <1>4 DEF ProofBeforeLedger, TypeOK, Gate
<1>10. AwayIsCovered'
  BY <1>1, <1>2, <1>4 DEF AwayIsCovered, CoverIsTimed, TypeOK, Gate
<1> QED
  BY <1>5, <1>6, <1>7, <1>8, <1>9, <1>10 DEF Kept

\* The prompt of this very lock pays what is owed.
LEMMA UnlocksKeeps ==
    ASSUME Inv, gate.status = "locked", UNCHANGED <<start, answer, world>>,
           prompts' \subseteq Prompt, BecomesIn(activity, Unlocked(gate), TRUE, TRUE)
    PROVE  Kept
<1> DEFINE g == Unlocked(gate)
<1>1. gate \in AnyGate /\ now \in Times /\ activity \in Activities
  BY GatesAreAnyGates DEF Inv, TypeOK
<1>2. /\ g \in AnyGate
      /\ g.status = "unlocked" /\ ~g.covered /\ g.hiddenAt = NoTime
      /\ g.generation = gate.generation
  BY <1>1, UnlockedGate
<1>3. BecomesIn(activity, g, TRUE, TRUE)
  BY DEF Becomes
<1> HIDE DEF g
<1>4. /\ gate' = g /\ gate' \in Gate
      /\ {owed', overtaken', late', turned'} \subseteq BOOLEAN
      /\ stay' \in 0 .. Grace
      /\ g.generation # gate.generation =>
            owed' /\ (overtaken' <=> answer.at # "none")
      /\ g.generation = gate.generation =>
            /\ ~owed'
            /\ ~overtaken'
      /\ late' <=> (g.status = "unlocked" /\ ~g.covered /\ activity # "active")
      /\ ~gate.covered => stay' = 0 /\ ~turned'
      /\ gate.covered /\ g.covered => stay' = stay /\ (turned' <=> turned)
  BY <1>1, <1>3, <1>2, Becoming DEF Inv
<1> QED
  BY <1>1, <1>2, <1>4, BoundsAssumption DEF Inv, TypeOK, StartingIsBlank, AnswersOweNothing,
     CoverIsTimed, ProofBeforeLedger, AwayIsCovered, Kept, LiftedByAShortStay, world

\* A device with nothing to ask for disarms the gate.
LEMMA DisarmsKeeps ==
    ASSUME Inv, gate.status = "locked", UNCHANGED <<start, answer, world>>,
           prompts' \subseteq Prompt, Becomes(Disarmed(gate), TRUE)
    PROVE  Kept
<1> DEFINE g == Disarmed(gate)
<1>1. gate \in AnyGate /\ now \in Times /\ activity \in Activities
  BY GatesAreAnyGates DEF Inv, TypeOK
<1>2. /\ g \in AnyGate
      /\ g.status = "open" /\ ~g.covered /\ g.generation = gate.generation
  BY <1>1, DisarmedGate
<1>3. BecomesIn(activity, g, TRUE, FALSE)
  BY DEF Becomes
<1> HIDE DEF g
<1>4. /\ gate' = g /\ gate' \in Gate
      /\ {owed', overtaken', late', turned'} \subseteq BOOLEAN
      /\ stay' \in 0 .. Grace
      /\ g.generation # gate.generation =>
            owed' /\ (overtaken' <=> answer.at # "none")
      /\ g.generation = gate.generation =>
            /\ ~owed'
            /\ ~overtaken'
      /\ late' <=> (g.status = "unlocked" /\ ~g.covered /\ activity # "active" /\ late)
      /\ ~gate.covered => stay' = 0 /\ ~turned'
      /\ gate.covered /\ g.covered => stay' = stay /\ (turned' <=> turned)
  BY <1>1, <1>3, <1>2, Becoming DEF Inv
<1> QED
  BY <1>1, <1>2, <1>4, BoundsAssumption DEF Inv, TypeOK, StartingIsBlank, AnswersOweNothing,
     CoverIsTimed, ProofBeforeLedger, AwayIsCovered, Kept, LiftedByAShortStay, world

\* The app goes away or comes back.
LEMMA AppGoesKeeps ==
    ASSUME Inv, NEW s \in Activities, AppGoes(s)
    PROVE  Kept
<1> DEFINE g == IF gate.listening THEN OnAppState(gate, s) ELSE gate
<1>1. gate \in AnyGate /\ now \in Times /\ activity \in Activities
  BY GatesAreAnyGates DEF Inv, TypeOK
<1>2. /\ g \in AnyGate
      /\ ~gate.listening \/ gate.status # "unlocked" => g = gate
      /\ gate.listening /\ gate.status = "unlocked" /\ s # "active" =>
            /\ g.status = "unlocked" /\ g.covered /\ g.generation = gate.generation
            /\ g.hiddenAt = (IF gate.hiddenAt = NoTime THEN now ELSE gate.hiddenAt)
      /\ gate.listening /\ gate.status = "unlocked" /\ s = "active" /\ TooLong(gate) =>
            g.status = "locked" /\ ~g.covered /\ g.generation # gate.generation
      /\ gate.listening /\ gate.status = "unlocked" /\ s = "active" /\ ~TooLong(gate) =>
            /\ g.status = "unlocked" /\ ~g.covered /\ g.hiddenAt = NoTime
            /\ g.generation = gate.generation
  BY <1>1, OnAppStateGate, LockedAnew
<1>3. BecomesIn(s, g, FALSE, FALSE)
  BY DEF AppGoes
<1> HIDE DEF g
<1>0. g \in AnyGate
  BY <1>2
<1>4. /\ gate' = g /\ gate' \in Gate
      /\ {owed', overtaken', late', turned'} \subseteq BOOLEAN
      /\ stay' \in 0 .. Grace
      /\ g.generation # gate.generation =>
            owed' /\ (overtaken' <=> answer.at # "none")
      /\ g.generation = gate.generation =>
            /\ owed' <=> owed
            /\ overtaken' <=> overtaken
      /\ late' <=> (g.status = "unlocked" /\ ~g.covered /\ s # "active" /\ late)
      /\ ~gate.covered => stay' = 0 /\ ~turned'
      /\ gate.covered /\ g.covered => stay' = stay /\ (turned' <=> turned)
  BY <1>1, <1>3, <1>0, Becoming DEF Inv
<1> USE DEF AppGoes, world, Inv
<1>5. TypeOK'
  BY <1>4 DEF TypeOK
<1>6. StartingIsBlank'
  BY <1>1, <1>2, <1>4 DEF StartingIsBlank, TypeOK, Guarded
<1>7. AnswersOweNothing'
  BY <1>1, <1>2, <1>4 DEF AnswersOweNothing, TypeOK, Gate
<1>8. CoverIsTimed' /\ LiftedByAShortStay
  BY <1>1, <1>2, <1>4, BoundsAssumption DEF CoverIsTimed, LiftedByAShortStay, Times, NoTime, TypeOK, TooLong, Gate
<1>9. ProofBeforeLedger'
  BY <1>1, <1>2, <1>4 DEF ProofBeforeLedger, TypeOK, Gate
<1>10. AwayIsCovered'
  BY <1>1, <1>2, <1>4 DEF AwayIsCovered, CoverIsTimed, TypeOK, Gate
<1> QED
  BY <1>5, <1>6, <1>7, <1>8, <1>9, <1>10 DEF Kept

\* An answer ends, whatever has happened to the gate meanwhile.
LEMMA AnswerOnKeeps ==
    ASSUME Inv, NEW w \in BOOLEAN, AnswerEnds(w), answer.enabled
    PROVE  Kept
<1> DEFINE g == Unlocked(Listen([gate EXCEPT !.gated = TRUE, !.hiddenAt = NoTime]))
<1>1. gate \in AnyGate /\ now \in Times /\ activity \in Activities
  BY GatesAreAnyGates DEF Inv, TypeOK
<1>2. /\ g \in AnyGate
      /\ g.status = "unlocked" /\ ~g.covered /\ g.hiddenAt = NoTime
      /\ g.generation = gate.generation
  BY <1>1, ArmedGate
<1>3. BecomesIn(activity, g, FALSE, TRUE)
  BY DEF AnswerEnds
<1> HIDE DEF g
<1>4. /\ gate' = g /\ gate' \in Gate
      /\ {owed', overtaken', late', turned'} \subseteq BOOLEAN
      /\ stay' \in 0 .. Grace
      /\ g.generation # gate.generation =>
            owed' /\ (overtaken' <=> answer.at # "none")
      /\ g.generation = gate.generation =>
            /\ owed' <=> owed
            /\ overtaken' <=> overtaken
      /\ late' <=> (g.status = "unlocked" /\ ~g.covered /\ activity # "active")
      /\ ~gate.covered => stay' = 0 /\ ~turned'
      /\ gate.covered /\ g.covered => stay' = stay /\ (turned' <=> turned)
  BY <1>1, <1>3, <1>2, Becoming DEF Inv
<1> QED
  BY <1>1, <1>2, <1>4, BoundsAssumption DEF AnswerEnds, Answer, NoAnswer, Inv, TypeOK, StartingIsBlank, AnswersOweNothing,
     CoverIsTimed, ProofBeforeLedger, AwayIsCovered, Kept, LiftedByAShortStay, world

LEMMA AnswerOffKeeps ==
    ASSUME Inv, NEW w \in BOOLEAN, AnswerEnds(w), ~answer.enabled
    PROVE  Kept
<1> DEFINE g == Disarmed(gate)
<1>1. gate \in AnyGate /\ now \in Times /\ activity \in Activities
  BY GatesAreAnyGates DEF Inv, TypeOK
<1>2. /\ g \in AnyGate
      /\ g.status = "open" /\ ~g.covered /\ g.generation = gate.generation
  BY <1>1, DisarmedGate
<1>3. BecomesIn(activity, g, FALSE, TRUE)
  BY DEF AnswerEnds
<1> HIDE DEF g
<1>4. /\ gate' = g /\ gate' \in Gate
      /\ {owed', overtaken', late', turned'} \subseteq BOOLEAN
      /\ stay' \in 0 .. Grace
      /\ g.generation # gate.generation =>
            owed' /\ (overtaken' <=> answer.at # "none")
      /\ g.generation = gate.generation =>
            /\ owed' <=> owed
            /\ overtaken' <=> overtaken
      /\ late' <=> (g.status = "unlocked" /\ ~g.covered /\ activity # "active")
      /\ ~gate.covered => stay' = 0 /\ ~turned'
      /\ gate.covered /\ g.covered => stay' = stay /\ (turned' <=> turned)
  BY <1>1, <1>3, <1>2, Becoming DEF Inv
<1> QED
  BY <1>1, <1>2, <1>4, BoundsAssumption DEF AnswerEnds, Answer, NoAnswer, Inv, TypeOK, StartingIsBlank, AnswersOweNothing,
     CoverIsTimed, ProofBeforeLedger, AwayIsCovered, Kept, LiftedByAShortStay, world

\* A gate that shows the same, with the proof it owed.
LEMMA SameFaceKeeps ==
    ASSUME Inv, NEW h \in AnyGate, Becomes(h, FALSE), UNCHANGED <<answer, world>>,
           h.status = gate.status, h.covered = gate.covered, h.gated = gate.gated,
           h.hiddenAt = gate.hiddenAt, h.generation = gate.generation,
           h.listening = gate.listening \/ ~h.listening,
           prompts' \subseteq Prompt,
           start' = start \/ (start # "done" /\ start' = "choice")
    PROVE  Kept
<1> DEFINE g == h
<1>1. gate \in AnyGate /\ now \in Times /\ activity \in Activities
  BY GatesAreAnyGates DEF Inv, TypeOK
<1>2. /\ g \in AnyGate
      /\ g.status = gate.status /\ g.covered = gate.covered /\ g.gated = gate.gated
      /\ g.hiddenAt = gate.hiddenAt /\ g.generation = gate.generation
      /\ g.listening = gate.listening \/ ~g.listening
  BY <1>1
<1>3. BecomesIn(activity, g, FALSE, FALSE)
  BY DEF Becomes
<1> HIDE DEF g
<1>0. g \in AnyGate
  BY <1>2
<1>4. /\ gate' = g /\ gate' \in Gate
      /\ {owed', overtaken', late', turned'} \subseteq BOOLEAN
      /\ stay' \in 0 .. Grace
      /\ g.generation # gate.generation =>
            owed' /\ (overtaken' <=> answer.at # "none")
      /\ g.generation = gate.generation =>
            /\ owed' <=> owed
            /\ overtaken' <=> overtaken
      /\ late' <=> (g.status = "unlocked" /\ ~g.covered /\ activity # "active" /\ late)
      /\ ~gate.covered => stay' = 0 /\ ~turned'
      /\ gate.covered /\ g.covered => stay' = stay /\ (turned' <=> turned)
  BY <1>1, <1>3, <1>0, Becoming DEF Inv
<1> USE DEF world, Inv
<1>5. TypeOK'
  BY <1>4 DEF TypeOK
<1>6. StartingIsBlank'
  BY <1>1, <1>2, <1>4 DEF StartingIsBlank, TypeOK, Guarded
<1>7. AnswersOweNothing'
  BY <1>1, <1>2, <1>4 DEF AnswersOweNothing, TypeOK, Gate
<1>8. CoverIsTimed' /\ LiftedByAShortStay
  BY <1>1, <1>2, <1>4, BoundsAssumption DEF CoverIsTimed, LiftedByAShortStay, Times, NoTime, TypeOK, TooLong, Gate
<1>9. ProofBeforeLedger'
  BY <1>1, <1>2, <1>4 DEF ProofBeforeLedger, TypeOK, Gate
<1>10. AwayIsCovered'
  BY <1>1, <1>2, <1>4 DEF AwayIsCovered, CoverIsTimed, TypeOK, Gate
<1> QED
  BY <1>5, <1>6, <1>7, <1>8, <1>9, <1>10 DEF Kept

\* The question is asked only where nothing is owed.
LEMMA AskingKeeps ==
    ASSUME Inv, start = "history", ~history, start' = "done",
           Becomes(Shows(gate, "asking"), FALSE), UNCHANGED <<prompts, answer, world>>
    PROVE  Kept
<1> DEFINE g == Shows(gate, "asking")
<1>1. gate \in AnyGate /\ now \in Times /\ activity \in Activities
  BY GatesAreAnyGates DEF Inv, TypeOK
<1>2. /\ g \in AnyGate
      /\ g.status = "asking" /\ ~g.covered /\ g.generation = gate.generation
  BY <1>1, ShowsGate
<1>3. BecomesIn(activity, g, FALSE, FALSE)
  BY DEF Becomes
<1> HIDE DEF g
<1>4. /\ gate' = g /\ gate' \in Gate
      /\ {owed', overtaken', late', turned'} \subseteq BOOLEAN
      /\ stay' \in 0 .. Grace
      /\ g.generation # gate.generation =>
            owed' /\ (overtaken' <=> answer.at # "none")
      /\ g.generation = gate.generation =>
            /\ owed' <=> owed
            /\ overtaken' <=> overtaken
      /\ late' <=> (g.status = "unlocked" /\ ~g.covered /\ activity # "active" /\ late)
      /\ ~gate.covered => stay' = 0 /\ ~turned'
      /\ gate.covered /\ g.covered => stay' = stay /\ (turned' <=> turned)
  BY <1>1, <1>3, <1>2, Becoming DEF Inv
<1> QED
  BY <1>1, <1>2, <1>4, BoundsAssumption DEF Guarded, Inv, TypeOK, StartingIsBlank, AnswersOweNothing,
     CoverIsTimed, ProofBeforeLedger, AwayIsCovered, Kept, LiftedByAShortStay, world

\* A step that leaves the gate and what is known of it.
LEMMA AsideKeeps ==
    ASSUME Inv, UNCHANGED <<gate, answer, asides, stored, enrolled, activity, now>>,
           prompts' \subseteq Prompt,
           history' \in BOOLEAN, history' = history \/ start = "done",
           start' = start \/
              (start # "done" /\ start' \in {"enrolment", "method"}) \/
              (start # "done" /\ start' = "history" /\ stored = "nothing")
    PROVE  Kept
<1> USE DEF Inv, asides
<1>1. TypeOK'
  BY DEF TypeOK
<1>2. StartingIsBlank'
  BY DEF StartingIsBlank, Guarded, TypeOK
<1>3. AnswersOweNothing' /\ ProofBeforeLedger' /\ AwayIsCovered'
  BY DEF AnswersOweNothing, ProofBeforeLedger, AwayIsCovered
<1>4. CoverIsTimed' /\ LiftedByAShortStay
  BY DEF CoverIsTimed, LiftedByAShortStay
<1> QED
  BY <1>1, <1>2, <1>3, <1>4 DEF Kept

\* An answer begins, goes on or is refused.
LEMMA AnswerGoesOnKeeps ==
    ASSUME Inv, UNCHANGED <<gate, start, prompts, world, asides>>,
           answer' \in Answer,
           answer'.at # "none" =>
              answer.at # "none" \/ gate.status \in {"asking", "open", "unlocked"}
    PROVE  Kept
<1> USE DEF Inv, asides, world
<1>1. TypeOK'
  BY DEF TypeOK
<1>2. StartingIsBlank'
  BY DEF StartingIsBlank, Guarded, TypeOK
<1>3. AnswersOweNothing' /\ ProofBeforeLedger' /\ AwayIsCovered'
  BY DEF AnswersOweNothing, ProofBeforeLedger, AwayIsCovered, TypeOK
<1>4. CoverIsTimed' /\ LiftedByAShortStay
  BY DEF CoverIsTimed, LiftedByAShortStay
<1> QED
  BY <1>1, <1>2, <1>3, <1>4 DEF Kept

LEMMA StartsKeep ==
    ASSUME Inv
    PROVE  /\ Start => Kept
           /\ EnrolmentAnswers => Kept
           /\ EnrolmentFails => Kept
           /\ MethodNamed => Kept
           /\ ChoiceRead => Kept
           /\ ChoiceUnread => Kept
           /\ \A f \in BOOLEAN : HistoryRead(f) => Kept
<1> DEFINE named == [gate EXCEPT !.canGate = TRUE]
<1>1. TypeOK /\ prompts \subseteq Prompt /\ history \in BOOLEAN
      /\ stored \in {"nothing", "on", "off"}
  BY DEF Inv, TypeOK
<1>2. gate \in AnyGate
  BY <1>1, GatesAreAnyGates DEF TypeOK
<1>3. /\ named \in AnyGate /\ named.status = gate.status /\ named.covered = gate.covered
      /\ named.gated = gate.gated /\ named.hiddenAt = gate.hiddenAt
      /\ named.generation = gate.generation /\ named.listening = gate.listening
  BY <1>2 DEF AnyGate
<1>4. ASSUME Start PROVE Kept
  <2>1. CASE enrolled = "browser"
    BY <1>4, <2>1, OpensKeeps DEF Start
  <2>2. CASE enrolled # "browser"
    BY <1>1, <1>4, <2>2, AsideKeeps DEF Start, world
  <2> QED
    BY <2>1, <2>2
<1>5. ASSUME EnrolmentAnswers PROVE Kept
  <2>1. CASE enrolled = "none"
    BY <1>5, <2>1, OpensKeeps DEF EnrolmentAnswers
  <2>2. CASE enrolled = "secret"
    <3>1. /\ start # "done" /\ start' = "choice" /\ Becomes(named, FALSE)
          /\ UNCHANGED <<prompts, answer, world>>
      BY <1>5, <2>2 DEF EnrolmentAnswers
    <3> HIDE DEF named
    <3> QED
      BY <1>1, <1>3, <3>1, SameFaceKeeps
  <2>3. CASE enrolled # "none" /\ enrolled # "secret"
    BY <1>1, <1>5, <2>3, AsideKeeps DEF EnrolmentAnswers, world
  <2> QED
    BY <2>1, <2>2, <2>3
<1>6. ASSUME EnrolmentFails PROVE Kept
  BY <1>6, OpensKeeps DEF EnrolmentFails
<1>7. ASSUME MethodNamed PROVE Kept
  <2>1. /\ start # "done" /\ start' = "choice" /\ Becomes(named, FALSE)
        /\ UNCHANGED <<prompts, answer, world>>
    BY <1>7 DEF MethodNamed
  <2> HIDE DEF named
  <2> QED
    BY <1>1, <1>3, <2>1, SameFaceKeeps
<1>8. ASSUME ChoiceRead PROVE Kept
  <2>1. CASE stored = "off"
    <3>1. ~owed /\ start # "done"
      BY <1>8, <2>1 DEF Inv, StartingIsBlank, Guarded, ChoiceRead
    <3> QED
      BY <1>8, <2>1, <3>1, OpensKeeps DEF ChoiceRead
  <2>2. CASE stored = "on"
    BY <1>8, <2>2, ArmsKeeps DEF ChoiceRead
  <2>3. CASE stored = "nothing"
    BY <1>1, <1>8, <2>3, AsideKeeps DEF ChoiceRead, world
  <2> QED
    BY <1>1, <2>1, <2>2, <2>3
<1>9. ASSUME ChoiceUnread PROVE Kept
  BY <1>9, ArmsKeeps DEF ChoiceUnread
<1>10. ASSUME NEW f \in BOOLEAN, HistoryRead(f) PROVE Kept
  <2>1. CASE f
    BY <1>10, <2>1, ArmsKeeps DEF HistoryRead
  <2>2. CASE ~f
    BY <1>1, <1>10, <2>2, AskingKeeps DEF HistoryRead
  <2> QED
    BY <2>1, <2>2
<1> QED
  BY <1>4, <1>5, <1>6, <1>7, <1>8, <1>9, <1>10

LEMMA PromptsKeep ==
    ASSUME Inv
    PROVE  /\ Unlock => Kept
           /\ Dispose => Kept
           /\ \A p \in prompts : PromptSucceeds(p) => Kept
           /\ \A p \in prompts : PromptFails(p) => Kept
           /\ \A p \in prompts : PromptUnavailable(p) => Kept
           /\ \A p \in prompts : \A gone \in BOOLEAN : EnrolmentReread(p, gone) => Kept
<1>1. /\ prompts \subseteq Prompt /\ history \in BOOLEAN /\ gate \in Gate
      /\ gate.generation \in 0 .. MaxLocks
  BY DEF Inv, TypeOK, Gate
<1>2. gate \in AnyGate
  BY <1>1, GatesAreAnyGates
<1>3. ASSUME NEW b \in BOOLEAN
      PROVE  LET h == [gate EXCEPT !.prompting = b]
             IN  /\ h \in AnyGate /\ h.status = gate.status /\ h.covered = gate.covered
                 /\ h.gated = gate.gated /\ h.hiddenAt = gate.hiddenAt
                 /\ h.generation = gate.generation /\ h.listening = gate.listening
  BY <1>2 DEF AnyGate
<1>4. ASSUME Unlock PROVE Kept
  <2> DEFINE h == [gate EXCEPT !.prompting = TRUE]
  <2>1. Becomes(h, FALSE) /\ UNCHANGED <<start, answer, world>>
    BY <1>4 DEF Unlock
  <2>2. prompts' \subseteq Prompt
    BY <1>1, <1>4 DEF Unlock, Prompt
  <2>3. /\ h \in AnyGate /\ h.status = gate.status /\ h.covered = gate.covered
        /\ h.gated = gate.gated /\ h.hiddenAt = gate.hiddenAt
        /\ h.generation = gate.generation /\ h.listening = gate.listening
    BY <1>3
  <2> HIDE DEF h
  <2> QED
    BY <2>1, <2>2, <2>3, SameFaceKeeps
<1>5. ASSUME Dispose PROVE Kept
  <2> DEFINE h == [gate EXCEPT !.listening = FALSE]
  <2>1. Becomes(h, FALSE) /\ UNCHANGED <<start, prompts, answer, world>>
    BY <1>5 DEF Dispose
  <2>2. /\ h \in AnyGate /\ h.status = gate.status /\ h.covered = gate.covered
        /\ h.gated = gate.gated /\ h.hiddenAt = gate.hiddenAt
        /\ h.generation = gate.generation /\ ~h.listening
    BY <1>2 DEF AnyGate
  <2> HIDE DEF h
  <2> QED
    BY <1>1, <2>1, <2>2, SameFaceKeeps
<1>6. ASSUME NEW p \in prompts, PromptSucceeds(p) PROVE Kept
  <2>1. CASE Current(p)
    <3>1. BecomesIn(activity, Unlocked(gate), p.raisedFor = gate.generation, TRUE)
      BY <1>6, <2>1 DEF PromptSucceeds
    <3>2. (p.raisedFor = gate.generation) = TRUE
      BY <2>1 DEF Current
    <3>3. BecomesIn(activity, Unlocked(gate), TRUE, TRUE)
      BY <3>1, <3>2, Zenon
    <3> QED
      BY <1>1, <1>6, <2>1, <3>3, UnlocksKeeps DEF PromptSucceeds, Current
  <2>2. CASE ~Current(p)
    BY <1>1, <1>6, <2>2, AsideKeeps DEF PromptSucceeds, world
  <2> QED
    BY <2>1, <2>2
<1>7. ASSUME NEW p, p \in prompts, prompts' = prompts \ {p},
             Becomes([gate EXCEPT !.prompting = FALSE], FALSE),
             UNCHANGED <<start, answer, world>>
      PROVE  Kept
  <2> DEFINE h == [gate EXCEPT !.prompting = FALSE]
  <2>1. /\ h \in AnyGate /\ h.status = gate.status /\ h.covered = gate.covered
        /\ h.gated = gate.gated /\ h.hiddenAt = gate.hiddenAt
        /\ h.generation = gate.generation /\ h.listening = gate.listening
    BY <1>3
  <2>2. Becomes(h, FALSE) /\ prompts' \subseteq Prompt
    BY <1>1, <1>7
  <2> HIDE DEF h
  <2> QED
    BY <1>7, <2>1, <2>2, SameFaceKeeps
<1>8. ASSUME NEW p \in prompts, PromptFails(p) PROVE Kept
  <2>1. CASE Current(p)
    BY <1>7, <1>8, <2>1 DEF PromptFails
  <2>2. CASE ~Current(p)
    BY <1>1, <1>8, <2>2, AsideKeeps DEF PromptFails, world
  <2> QED
    BY <2>1, <2>2
<1>9. ASSUME NEW p \in prompts, PromptUnavailable(p) PROVE Kept
  <2>1. prompts' \subseteq Prompt
    BY <1>1, <1>9 DEF PromptUnavailable, Prompt
  <2> QED
    BY <1>1, <1>9, <2>1, AsideKeeps DEF PromptUnavailable, world
<1>10. ASSUME NEW p \in prompts, NEW gone \in BOOLEAN, EnrolmentReread(p, gone) PROVE Kept
  <2>1. CASE ~Current(p)
    BY <1>1, <1>10, <2>1, AsideKeeps DEF EnrolmentReread, world
  <2>2. CASE Current(p) /\ gone
    BY <1>1, <1>10, <2>2, DisarmsKeeps DEF EnrolmentReread, Current
  <2>3. CASE Current(p) /\ ~gone
    BY <1>7, <1>10, <2>3 DEF EnrolmentReread
  <2> QED
    BY <2>1, <2>2, <2>3
<1> QED
  BY <1>4, <1>5, <1>6, <1>8, <1>9, <1>10

LEMMA AnswersKeep ==
    ASSUME Inv
    PROVE  /\ \A enabled \in BOOLEAN : Answers(enabled) => Kept
           /\ \A found \in BOOLEAN : AnswerProbes(found) => Kept
           /\ DisarmProved => Kept
           /\ DisarmRefused => Kept
           /\ \A wrote \in BOOLEAN : AnswerEnds(wrote) => Kept
<1>1. answer \in Answer
  BY DEF Inv, TypeOK
<1>2. ASSUME NEW enabled \in BOOLEAN, Answers(enabled) PROVE Kept
  <2>1. answer' \in Answer /\ gate.status \in {"asking", "open", "unlocked"}
    BY <1>2 DEF Answers, Answer
  <2> QED
    BY <1>2, <2>1, AnswerGoesOnKeeps DEF Answers
<1>3. ASSUME NEW found \in BOOLEAN, AnswerProbes(found) PROVE Kept
  <2>1. answer' \in Answer /\ answer.at # "none"
    BY <1>1, <1>3 DEF AnswerProbes, Answer
  <2> QED
    BY <1>3, <2>1, AnswerGoesOnKeeps DEF AnswerProbes
<1>4. ASSUME DisarmProved PROVE Kept
  <2>1. answer' \in Answer /\ answer.at # "none"
    BY <1>1, <1>4 DEF DisarmProved, Answer
  <2> QED
    BY <1>4, <2>1, AnswerGoesOnKeeps DEF DisarmProved
<1>5. ASSUME DisarmRefused PROVE Kept
  <2>1. answer' \in Answer /\ answer.at # "none"
    BY <1>1, <1>5 DEF DisarmRefused, Answer, NoAnswer
  <2> QED
    BY <1>5, <2>1, AnswerGoesOnKeeps DEF DisarmRefused
<1>6. ASSUME NEW wrote \in BOOLEAN, AnswerEnds(wrote) PROVE Kept
  BY <1>1, <1>6, AnswerOnKeeps, AnswerOffKeeps DEF Answer
<1> QED
  BY <1>2, <1>3, <1>4, <1>5, <1>6

LEMMA WorldKeeps ==
    ASSUME Inv
    PROVE  /\ Tick => Kept
           /\ \A t \in Times : ClockIsSet(t) => Kept
           /\ \A e \in {"none", "secret", "biometric"} : EnrolmentChanges(e) => Kept
           /\ LedgerUsed => Kept
           /\ Relaunch => Kept
<1> USE DEF Inv, asides
<1>1. /\ TypeOK /\ now \in Nat /\ stay \in Nat /\ Grace \in Nat /\ MaxTime \in Nat
      /\ gate.hiddenAt \in Nat /\ gate \in Gate
  BY BoundsAssumption DEF TypeOK, Gate, Times, NoTime
<1>2. ASSUME Tick PROVE Kept
  <2>1. now' = now + 1 /\ now' \in Times
    BY <1>1, <1>2 DEF Tick, Times
  <2>2. /\ UNCHANGED <<gate, start, prompts, answer, stored, history, enrolled,
                       activity, owed, overtaken, late, turned>>
        /\ stay' \in 0 .. Grace /\ (stay' = stay \/ stay' = stay + 1)
    BY <1>1, <1>2, BoundsAssumption DEF Tick, TypeOK
  <2>3. TypeOK'
    BY <1>1, <2>1, <2>2 DEF TypeOK
  <2>4. StartingIsBlank'
    BY <2>2 DEF StartingIsBlank, Guarded
  <2>5. AnswersOweNothing' /\ ProofBeforeLedger' /\ AwayIsCovered'
    BY <2>2 DEF AnswersOweNothing, ProofBeforeLedger, AwayIsCovered
  <2>6. CoverIsTimed'
    BY <1>1, <2>1, <2>2 DEF CoverIsTimed
  <2>7. LiftedByAShortStay
    BY <2>2 DEF LiftedByAShortStay
  <2> QED
    BY <2>3, <2>4, <2>5, <2>6, <2>7 DEF Kept
<1>3. ASSUME NEW t \in Times, ClockIsSet(t) PROVE Kept
  <2>1. TypeOK'
    BY <1>1, <1>3 DEF TypeOK, ClockIsSet, Gate
  <2>2. StartingIsBlank'
    BY <1>3 DEF StartingIsBlank, Guarded, ClockIsSet
  <2>3. AnswersOweNothing' /\ ProofBeforeLedger' /\ AwayIsCovered'
    BY <1>3 DEF AnswersOweNothing, ProofBeforeLedger, AwayIsCovered, ClockIsSet
  <2>4. CoverIsTimed' /\ LiftedByAShortStay
    BY <1>3 DEF CoverIsTimed, LiftedByAShortStay, ClockIsSet
  <2> QED
    BY <2>1, <2>2, <2>3, <2>4 DEF Kept
<1>4. ASSUME NEW e \in {"none", "secret", "biometric"}, EnrolmentChanges(e) PROVE Kept
  <2>1. TypeOK'
    BY <1>1, <1>4 DEF TypeOK, EnrolmentChanges
  <2>2. StartingIsBlank'
    BY <1>4 DEF StartingIsBlank, Guarded, EnrolmentChanges
  <2>3. AnswersOweNothing' /\ ProofBeforeLedger' /\ AwayIsCovered'
    BY <1>4 DEF AnswersOweNothing, ProofBeforeLedger, AwayIsCovered, EnrolmentChanges
  <2>4. CoverIsTimed' /\ LiftedByAShortStay
    BY <1>4 DEF CoverIsTimed, LiftedByAShortStay, EnrolmentChanges
  <2> QED
    BY <2>1, <2>2, <2>3, <2>4 DEF Kept
<1>5. ASSUME LedgerUsed PROVE Kept
  <2>1. start = "done"
    BY <1>5 DEF StartingIsBlank, LedgerUsed
  <2>2. prompts' \subseteq Prompt /\ history' \in BOOLEAN /\ history' = TRUE
    BY <1>1, <1>5 DEF TypeOK, LedgerUsed
  <2>3. UNCHANGED <<gate, answer, asides, stored, enrolled, activity, now, start>>
    BY <1>5 DEF LedgerUsed
  <2> QED
    BY <2>1, <2>2, <2>3, AsideKeeps
<1>6. ASSUME Relaunch PROVE Kept
  <2>1. NewGate \in Gate /\ NewGate.status = "checking" /\ ~NewGate.covered
        /\ ~NewGate.gated /\ ~NewGate.listening
    BY BoundsAssumption DEF NewGate, Gate
  <2>2. NoAnswer \in Answer /\ NoAnswer.at = "none" /\ Guarded \in BOOLEAN
    BY DEF NoAnswer, Answer, Guarded
  <2>3. /\ gate' = NewGate /\ start' = "no" /\ prompts' = {} /\ answer' = NoAnswer
        /\ owed' = Guarded /\ UNCHANGED <<stored, history, enrolled, activity, now>>
        /\ overtaken' = FALSE /\ late' = FALSE /\ stay' = 0 /\ turned' = FALSE
    BY <1>6 DEF Relaunch, world
  <2>8. {owed', overtaken', late', turned'} \subseteq BOOLEAN
    BY <2>2, <2>3, Zenon
  <2>9. stay' \in 0 .. Grace
    BY <1>1, <2>3
  <2>4. TypeOK'
    BY <1>1, <2>1, <2>2, <2>3, <2>8, <2>9 DEF TypeOK
  <2>5. StartingIsBlank'
    BY <2>1, <2>2, <2>3 DEF StartingIsBlank, Guarded
  <2>6. AnswersOweNothing' /\ ProofBeforeLedger' /\ AwayIsCovered'
    BY <2>1, <2>2, <2>3 DEF AnswersOweNothing, ProofBeforeLedger, AwayIsCovered
  <2>7. CoverIsTimed' /\ LiftedByAShortStay
    BY <2>1, <2>3 DEF CoverIsTimed, LiftedByAShortStay
  <2> QED
    BY <2>4, <2>5, <2>6, <2>7 DEF Kept
<1> QED
  BY <1>2, <1>3, <1>4, <1>5, <1>6

LEMMA StepsKeep ==
    ASSUME Inv, [Next]_vars
    PROVE  Inv' /\ [LiftedByAShortStay]_vars
<1>1. CASE Next
  <2> SUFFICES Kept
    BY DEF Kept
  <2> QED
    BY <1>1, StartsKeep, StartAgainKeeps, PromptsKeep, LockKeeps, AnswersKeep, AppGoesKeeps,
       WorldKeeps DEF Next
<1>2. CASE UNCHANGED vars
  <2>1. Inv'
    BY <1>2 DEF Inv, vars, world, asides, TypeOK, StartingIsBlank, AnswersOweNothing,
       CoverIsTimed, ProofBeforeLedger, AwayIsCovered, Guarded
  <2> QED
    BY <1>2, <2>1
<1> QED
  BY <1>1, <1>2

LEMMA Starts ==
    ASSUME Init
    PROVE  Inv
<1>1. NewGate \in Gate /\ NewGate.status = "checking" /\ ~NewGate.covered
      /\ ~NewGate.gated /\ ~NewGate.listening
  BY BoundsAssumption DEF NewGate, Gate
<1>2. NoAnswer \in Answer /\ NoAnswer.at = "none" /\ Guarded \in BOOLEAN
  BY DEF NoAnswer, Answer, Guarded
<1>4. {owed, overtaken, late, turned} \subseteq BOOLEAN
  BY <1>2, Zenon DEF Init
<1>5. now \in Times /\ stay \in 0 .. Grace
  BY BoundsAssumption DEF Init, Times
<1>3. TypeOK
  BY <1>1, <1>2, <1>4, <1>5 DEF Init, TypeOK
<1> QED
  BY <1>1, <1>2, <1>3 DEF Init, Inv, StartingIsBlank, AnswersOweNothing, CoverIsTimed,
     ProofBeforeLedger, AwayIsCovered

LEMMA Invariance == Spec => []Inv /\ [][LiftedByAShortStay]_vars
<1>1. Init => Inv
  BY Starts
<1>2. Inv /\ [Next]_vars => Inv' /\ [LiftedByAShortStay]_vars
  BY StepsKeep
<1> QED
  BY <1>1, <1>2, PTL DEF Spec

\* Every variable of the gate keeps its type.
THEOREM TypeCorrect == Spec => []TypeOK
<1>1. Inv => TypeOK
  BY DEF Inv
<1> QED
  BY <1>1, Invariance, PTL

\* However the app, the clock, the prompts, the answers and the kills fall, a
\* ledger that a lock has closed waits for a prompt of that lock.
THEOREM LedgerWaitsForProof == Spec => []ProofBeforeLedger
<1>1. Inv => ProofBeforeLedger
  BY DEF Inv
<1> QED
  BY <1>1, Invariance, PTL

\* An unlocked ledger is under its cover while the app is away.
THEOREM LedgerIsCovered == Spec => []AwayIsCovered
<1>1. Inv => AwayIsCovered
  BY DEF Inv
<1> QED
  BY <1>1, Invariance, PTL

\* Only a short stay's return lifts the cover unasked.
THEOREM LongStaysRelock == Spec => LongStayRelocks
<1>1. LiftedByAShortStay => (gate.covered /\ gate'.status = "unlocked" /\ ~gate'.covered
            /\ UNCHANGED answer
         => /\ stay < Grace \/ turned
            /\ now >= gate.hiddenAt)
  BY DEF LiftedByAShortStay
<1> QED
  BY <1>1, Invariance, PTL DEF LongStayRelocks
=============================================================================
