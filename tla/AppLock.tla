------------------------------ MODULE AppLock ------------------------------
(***************************************************************************)
(* The launch gate: packages/client/src/security/app-lock/app-lock.ts, fed *)
(* by the platform (platform.native.ts, platform.ts) and drawn by          *)
(* apps/mobile/src/lock-gate.tsx.  It decides whether the person holding   *)
(* the phone sees the ledger.                                              *)
(*                                                                         *)
(* Every handler of the gate runs to its next await; between two of its    *)
(* steps the app may leave and return, the clock may move (backwards too), *)
(* the gate may be locked by hand and the process may be killed.  `gate`   *)
(* is what createAppLock closes over; a synchronous helper of the code is  *)
(* an operator from one gate to the next.                                  *)
(*                                                                         *)
(* Left out: the words (which biometric, why a prompt failed) and the      *)
(* listeners.  Both platforms give a `choice`, so it is never absent.      *)
(***************************************************************************)
EXTENDS Naturals

CONSTANTS
    Grace,       \* RELOCK_AFTER_MS, in ticks of the wall clock
    MaxTime,     \* bound on the wall clock
    MaxLocks     \* bound on the locks of one launch

ASSUME BoundsAssumption ==
    /\ Grace \in Nat \ {0}
    /\ MaxTime \in Nat
    /\ MaxLocks \in Nat

VARIABLES
    gate,        \* the snapshot and the variables createAppLock closes over
    start,       \* where start() is
    prompts,     \* unlock() calls whose prompt has not been dealt with
    answer,      \* the answer() call under way
    stored,      \* the owner's choice on disk
    history,     \* the device holds ledger data
    enrolled,    \* what the device can ask for; "browser": no authenticator
    activity,    \* what the platform last reported
    now,         \* the wall clock
    owed,        \* history: nobody has proved to be the owner since the lock
    overtaken,   \* history: that lock came while an answer was under way
    late,        \* history: unlocked while the app was away, unheard since
    stay,        \* history: ticks since the gate drew the cover, up to Grace
    turned       \* history: the clock was set during that stay

world == <<stored, history, enrolled, activity, now>>
asides == <<owed, overtaken, late, stay, turned>>
vars == <<gate, start, prompts, answer, world, asides>>

Times == 0 .. MaxTime
NoTime == MaxTime + 1

Gate == [status : {"checking", "asking", "open", "locked", "unlocked"},
         prompting : BOOLEAN, covered : BOOLEAN,
         gated : BOOLEAN, canGate : BOOLEAN, listening : BOOLEAN,
         hiddenAt : Times \cup {NoTime}, generation : 0 .. MaxLocks]

NewGate == [status |-> "checking", prompting |-> FALSE, covered |-> FALSE,
            gated |-> FALSE, canGate |-> FALSE, listening |-> FALSE,
            hiddenAt |-> NoTime, generation |-> 0]

Prompt == [raisedFor : 0 .. MaxLocks, at : {"device", "enrolment"}]
Answer == [at : {"none", "history", "device", "write"}, enabled : BOOLEAN]
NoAnswer == [at |-> "none", enabled |-> FALSE]
Activities == {"active", "inactive", "background"}

\* A launch owes a proof when the owner armed the gate, or never answered on
\* a device that already holds a ledger.
Guarded == stored = "on" \/ (stored = "nothing" /\ history)

Init ==
    /\ gate = NewGate
    /\ start = "no"
    /\ prompts = {}
    /\ answer = NoAnswer
    /\ stored \in {"nothing", "on", "off"}
    /\ history \in BOOLEAN
    /\ enrolled \in {"browser", "none", "secret", "biometric"}
    /\ activity \in Activities
    /\ now = 0
    /\ owed = Guarded
    /\ overtaken = FALSE /\ late = FALSE /\ stay = 0 /\ turned = FALSE

(***************************************************************************)
(* The synchronous helpers.                                                *)
(***************************************************************************)

Shows(g, status) ==
    [g EXCEPT !.status = status, !.prompting = FALSE, !.covered = FALSE]

LockNow(g) == [Shows(g, "locked") EXCEPT !.hiddenAt = NoTime,
                                         !.generation = @ + 1]

TooLong(g) == g.hiddenAt # NoTime
              /\ (now < g.hiddenAt \/ now - g.hiddenAt >= Grace)

\* Every departure starts the clock again.
LastDeparture(g, state) ==
    IF g.status # "unlocked" THEN g
    ELSE IF state # "active" THEN [g EXCEPT !.hiddenAt = now, !.covered = TRUE]
    ELSE IF TooLong(g) THEN LockNow(g)
    ELSE [g EXCEPT !.hiddenAt = NoTime, !.covered = FALSE]

OnAppState(g, state) ==
    IF g.status # "unlocked" THEN g
    ELSE IF state # "active"
         THEN [g EXCEPT !.hiddenAt = IF @ = NoTime THEN now ELSE @,
                        !.covered = TRUE]
    ELSE IF TooLong(g) THEN LockNow(g)
    ELSE [g EXCEPT !.hiddenAt = NoTime, !.covered = FALSE]

\* The state the app is in when the gate starts to listen is not read.
ListenOnly(g) ==
    IF g.listening \/ ~g.gated THEN g ELSE [g EXCEPT !.listening = TRUE]

\* subscribeAppState, then the state the app is in already.
Listen(g) ==
    IF g.listening \/ ~g.gated THEN g
    ELSE LET on == [g EXCEPT !.listening = TRUE]
         IN  IF activity = "active" THEN on ELSE OnAppState(on, activity)

Arm(g) == LockNow(Listen([g EXCEPT !.gated = TRUE]))

Unlocked(g) == [Shows(g, "unlocked") EXCEPT !.hiddenAt = NoTime]

Disarmed(g) == [Shows(g, "open") EXCEPT !.gated = FALSE, !.listening = FALSE]

\* The gate becomes g, within the bound, with the app in the given state; the
\* history variables follow from what changed.  `proved`: the owner has shown
\* who they are, or the device cannot tell; `asked`: an unlock() or an answer()
\* has opened it.
BecomesIn(state, g, proved, asked) ==
    LET locks == g.generation # gate.generation
        draws == g.covered /\ ~gate.covered
        shown == g.status = "unlocked" /\ ~g.covered
    IN  /\ g.generation <= MaxLocks
        /\ gate' = g
        /\ owed' = (locks \/ (owed /\ ~proved))
        /\ overtaken' = IF locks THEN answer.at # "none" ELSE overtaken /\ ~proved
        /\ late' = (shown /\ state # "active" /\ (late \/ asked))
        /\ stay' = IF draws \/ ~g.covered THEN 0 ELSE stay
        /\ turned' = (turned /\ ~draws /\ g.covered)

Becomes(g, proved) == BecomesIn(activity, g, proved, FALSE)

(***************************************************************************)
(* start(): enrolment, the method's name, the stored choice, the ledger's  *)
(* history.  Each is raced with a timer, save the method.                  *)
(***************************************************************************)

Opens(proved) == /\ start' = "done"
                 /\ Becomes(Shows(gate, "open"), proved)

Arms == /\ start' = "done"
        /\ Becomes(Arm(gate), FALSE)

Start ==
    /\ start = "no"
    /\ IF enrolled = "browser"
       THEN Opens(TRUE)
       ELSE /\ start' = "enrolment"
            /\ UNCHANGED <<gate, asides>>
    /\ UNCHANGED <<prompts, answer, world>>

\* A remount's start reads nothing again and listens again.
StartAgain ==
    /\ start # "no"
    /\ Becomes(Listen(gate), FALSE)
    /\ UNCHANGED <<start, prompts, answer, world>>

\* A secret is called a passcode at once; a biometric has to be named.
EnrolmentAnswers ==
    /\ start = "enrolment"
    /\ CASE enrolled = "none" -> Opens(TRUE)
         [] enrolled = "secret" -> /\ start' = "choice"
                                   /\ Becomes([gate EXCEPT !.canGate = TRUE], FALSE)
         [] OTHER -> start' = "method" /\ UNCHANGED <<gate, asides>>
    /\ UNCHANGED <<prompts, answer, world>>

EnrolmentFails ==
    /\ start = "enrolment"
    /\ Opens(TRUE)
    /\ UNCHANGED <<prompts, answer, world>>

\* No timer: the platform answers, or throws, or neither.
MethodNamed ==
    /\ start = "method"
    /\ start' = "choice"
    /\ Becomes([gate EXCEPT !.canGate = TRUE], FALSE)
    /\ UNCHANGED <<prompts, answer, world>>

ChoiceRead ==
    /\ start = "choice"
    /\ CASE stored = "off" -> Opens(FALSE)
         [] stored = "on" -> Arms
         [] OTHER -> start' = "history" /\ UNCHANGED <<gate, asides>>
    /\ UNCHANGED <<prompts, answer, world>>

\* A read of the stored choice is waited for without a timer.
WaitsForChoice == FALSE

ChoiceUnread ==
    /\ start = "choice"
    /\ Arms
    /\ UNCHANGED <<prompts, answer, world>>

\* A probe that fails counts as a history.
HistoryRead(found) ==
    /\ start = "history"
    /\ history => found
    /\ IF found THEN Arms
       ELSE start' = "done" /\ Becomes(Shows(gate, "asking"), FALSE)
    /\ UNCHANGED <<prompts, answer, world>>

(***************************************************************************)
(* unlock(prompt) and lock().                                              *)
(***************************************************************************)

\* The prompt is counted for the lock after this one.
UnlockOneLate ==
    /\ gate.status = "locked" /\ ~gate.prompting
    /\ enrolled # "browser"
    /\ prompts' = prompts \cup {[raisedFor |-> gate.generation + 1, at |-> "device"]}
    /\ Becomes([gate EXCEPT !.prompting = TRUE], FALSE)
    /\ UNCHANGED <<start, answer, world>>

Unlock ==
    /\ gate.status = "locked" /\ ~gate.prompting
    /\ enrolled # "browser"
    /\ prompts' = prompts \cup {[raisedFor |-> gate.generation, at |-> "device"]}
    /\ Becomes([gate EXCEPT !.prompting = TRUE], FALSE)
    /\ UNCHANGED <<start, answer, world>>

\* Any prompt's success opens whatever is locked by then.
AnyPrompt(p) == gate.status = "locked"

\* The prompt still describes the lock on the screen.
Current(p) == gate.status = "locked" /\ p.raisedFor = gate.generation

PromptSucceeds(p) ==
    /\ p.at = "device" /\ enrolled \in {"secret", "biometric"}
    /\ prompts' = prompts \ {p}
    /\ IF Current(p) THEN BecomesIn(activity, Unlocked(gate), p.raisedFor = gate.generation, TRUE)
       ELSE UNCHANGED <<gate, asides>>
    /\ UNCHANGED <<start, answer, world>>

PromptFails(p) ==
    /\ p.at = "device"
    /\ prompts' = prompts \ {p}
    /\ IF Current(p) THEN Becomes([gate EXCEPT !.prompting = FALSE], FALSE)
       ELSE UNCHANGED <<gate, asides>>
    /\ UNCHANGED <<start, answer, world>>

\* Enrolment is read again, in case the secret is gone.
PromptUnavailable(p) ==
    /\ p.at = "device"
    /\ prompts' = (prompts \ {p}) \cup
                  IF Current(p) THEN {[p EXCEPT !.at = "enrolment"]} ELSE {}
    /\ UNCHANGED <<gate, start, answer, world, asides>>

\* A read that fails counts as no secret.
EnrolmentReread(p, gone) ==
    /\ p.at = "enrolment"
    /\ enrolled = "none" => gone
    /\ prompts' = prompts \ {p}
    /\ IF ~Current(p) THEN UNCHANGED <<gate, asides>>
       ELSE IF gone THEN Becomes(Disarmed(gate), TRUE)
       ELSE Becomes([gate EXCEPT !.prompting = FALSE], FALSE)
    /\ UNCHANGED <<start, answer, world>>

Lock ==
    /\ gate.status \in {"unlocked", "locked"}
    /\ Becomes(LockNow(gate), FALSE)
    /\ UNCHANGED <<start, prompts, answer, world>>

(***************************************************************************)
(* answer(enabled): the first-run question and the switch in Settings.     *)
(***************************************************************************)

Answers(enabled) ==
    /\ gate.status \in {"asking", "open", "unlocked"}
    /\ gate.canGate /\ answer.at = "none"
    /\ answer' = [enabled |-> enabled,
                  at |-> CASE enabled \/ gate.status = "open" -> "write"
                           [] gate.status = "unlocked" -> "device"
                           [] OTHER -> "history"]
    /\ UNCHANGED <<gate, start, prompts, world, asides>>

\* Whether a no to the question has to be proved.
AnswerProbes(found) ==
    /\ answer.at = "history"
    /\ history => found
    /\ answer' = [answer EXCEPT !.at = IF found THEN "device" ELSE "write"]
    /\ UNCHANGED <<gate, start, prompts, world, asides>>

DisarmProved ==
    /\ answer.at = "device" /\ enrolled \in {"secret", "biometric"}
    /\ answer' = [answer EXCEPT !.at = "write"]
    /\ UNCHANGED <<gate, start, prompts, world, asides>>

DisarmRefused ==
    /\ answer.at = "device"
    /\ answer' = NoAnswer
    /\ UNCHANGED <<gate, start, prompts, world, asides>>

\* The write, or both tries of it, is over: the gate follows the answer
\* whether or not it could be stored, and whatever has happened meanwhile.
AnswerEnds(wrote) ==
    /\ answer.at = "write"
    /\ answer' = NoAnswer
    /\ stored' = IF wrote THEN IF answer.enabled THEN "on" ELSE "off" ELSE stored
    /\ BecomesIn(activity,
                 IF answer.enabled
                 THEN Unlocked(Listen([gate EXCEPT !.gated = TRUE, !.hiddenAt = NoTime]))
                 ELSE Disarmed(gate),
                 FALSE, TRUE)
    /\ UNCHANGED <<start, prompts, history, enrolled, activity, now>>

(***************************************************************************)
(* dispose(), the platform and the person.                                 *)
(***************************************************************************)

Dispose ==
    /\ gate.listening
    /\ Becomes([gate EXCEPT !.listening = FALSE], FALSE)
    /\ UNCHANGED <<start, prompts, answer, world>>

AppGoes(state) ==
    /\ state # activity
    /\ activity' = state
    /\ BecomesIn(state, IF gate.listening THEN OnAppState(gate, state) ELSE gate,
                 FALSE, FALSE)
    /\ UNCHANGED <<start, prompts, answer, stored, history, enrolled, now>>

Tick ==
    /\ now < MaxTime
    /\ now' = now + 1
    /\ stay' = IF gate.covered /\ stay < Grace THEN stay + 1 ELSE stay
    /\ UNCHANGED <<gate, start, prompts, answer, stored, history, enrolled,
                   activity, owed, overtaken, late, turned>>

ClockIsSet(t) ==
    /\ t < now
    /\ now' = t
    /\ turned' = gate.covered
    /\ UNCHANGED <<gate, start, prompts, answer, stored, history, enrolled,
                   activity, owed, overtaken, late, stay>>

\* The owner sets or clears the device's secret, in the system's settings.
EnrolmentChanges(e) ==
    /\ enrolled # "browser" /\ activity # "active"
    /\ enrolled' = e
    /\ UNCHANGED <<gate, start, prompts, answer, stored, history, activity, now, asides>>

\* The person records something.
LedgerUsed ==
    /\ gate.status \in {"open", "unlocked"} /\ ~gate.covered
    /\ history' = TRUE
    /\ UNCHANGED <<gate, start, prompts, answer, stored, enrolled, activity, now, asides>>

\* The process is killed and the app is opened again.
Relaunch ==
    /\ gate' = NewGate
    /\ start' = "no"
    /\ prompts' = {}
    /\ answer' = NoAnswer
    /\ owed' = Guarded
    /\ overtaken' = FALSE /\ late' = FALSE /\ stay' = 0 /\ turned' = FALSE
    /\ UNCHANGED world

Next ==
    \/ Start \/ StartAgain
    \/ EnrolmentAnswers \/ EnrolmentFails \/ MethodNamed
    \/ ChoiceRead \/ ChoiceUnread
    \/ \E found \in BOOLEAN : HistoryRead(found) \/ AnswerProbes(found)
    \/ Unlock \/ Lock
    \/ \E p \in prompts :
          \/ PromptSucceeds(p) \/ PromptFails(p) \/ PromptUnavailable(p)
          \/ \E gone \in BOOLEAN : EnrolmentReread(p, gone)
    \/ \E enabled \in BOOLEAN : Answers(enabled)
    \/ DisarmProved \/ DisarmRefused
    \/ \E wrote \in BOOLEAN : AnswerEnds(wrote)
    \/ Dispose \/ Tick \/ LedgerUsed \/ Relaunch
    \/ \E state \in Activities : AppGoes(state)
    \/ \E t \in Times : ClockIsSet(t)
    \/ \E e \in {"none", "secret", "biometric"} : EnrolmentChanges(e)

Spec == Init /\ [][Next]_vars

\* The platform may never answer.  The layout calls start() when it mounts,
\* and a timer stands behind every read of it but one.
FairSpec ==
    /\ Spec
    /\ WF_vars(Start)
    /\ WF_vars(EnrolmentFails)
    /\ WF_vars(ChoiceUnread)
    /\ WF_vars(HistoryRead(TRUE))

(***************************************************************************)
(* Properties.                                                             *)
(***************************************************************************)

\* Every variable keeps its type.
TypeOK ==
    /\ gate \in Gate
    /\ start \in {"no", "enrolment", "method", "choice", "history", "done"}
    /\ prompts \subseteq Prompt
    /\ answer \in Answer
    /\ stored \in {"nothing", "on", "off"}
    /\ history \in BOOLEAN
    /\ enrolled \in {"browser", "none", "secret", "biometric"}
    /\ activity \in Activities
    /\ now \in Times
    /\ {owed, overtaken, late, turned} \subseteq BOOLEAN
    /\ stay \in 0 .. Grace

\* Once the gate has locked, and from the launch of a device whose owner armed
\* it or never answered beside a ledger, the ledger is not on the screen until
\* a prompt raised for that very lock succeeds (or the device turns out to
\* have nothing to ask for).  The one exception is the answer the lock
\* overtook, which ends without looking at the gate again (app-lock.ts:391).
ProofBeforeLedger ==
    owed /\ ~overtaken => gate.status \notin {"open", "unlocked"}

\* While the app is away an unlocked ledger is under its cover, however the
\* app came to be away (app-lock.ts:23, 109).  The one exception is a prompt or
\* an answer that ends while the app is away: nothing covers what it shows
\* until the app's state changes again (:396, :439).
AwayIsCovered ==
    gate.status = "unlocked" /\ gate.listening /\ activity # "active"
        => gate.covered \/ late

\* The cover is lifted without a prompt only by a return within the grace,
\* counted from the first departure, and never by a return on a clock that
\* stands before the departure (app-lock.ts:224-245).
LongStayRelocks ==
    [][gate.covered /\ gate'.status = "unlocked" /\ ~gate'.covered
            /\ UNCHANGED answer
         => /\ stay < Grace \/ turned
            /\ now >= gate.hiddenAt]_vars

\* However the reads of a start fail or stall, before the platform names its
\* biometric and again after it has, the first frame is left, unless the process
\* is killed.  Only that naming itself may never end: no timer bounds it
\* (app-lock.ts:499-508).
StartSettles ==
    /\ start = "enrolment" ~> gate.status # "checking" \/ start \in {"method", "no"}
    /\ start \in {"choice", "history"} ~> gate.status # "checking" \/ start = "no"
=============================================================================
