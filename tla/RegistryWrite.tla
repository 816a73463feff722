--------------------------- MODULE RegistryWrite ---------------------------
(***************************************************************************)
(* A write of the API's registry: apps/api/src/registry/define.ts wraps a  *)
(* handler so that its effect, its audit row and its replay receipt        *)
(* (idempotency.ts) are one Postgres transaction.  The handler is that of  *)
(* create_counterparty, whose folded name a unique index guards.           *)
(*                                                                         *)
(* Calls run concurrently and a phone that got no answer calls again with  *)
(* the same entry id.  Postgres runs each statement at READ COMMITTED: a   *)
(* statement sees what has committed, and an insert whose key an open      *)
(* transaction has inserted waits for that transaction to end.             *)
(*                                                                         *)
(* What a transaction has inserted and not committed follows from where    *)
(* it is (`at`); the three tables hold what has committed.                 *)
(***************************************************************************)
EXTENDS Naturals

CONSTANTS
    Calls,       \* invocations of the operation
    Requests,    \* what a call may ask: its entry id, payload and actor
    Entries,     \* the outbox entry ids
    NoEntry,     \* an interactive call has none
    Payloads,    \* inputs, as far as requestHash tells them apart
    Names,       \* folded counterparty names
    Fold,        \* the name of each payload
    NoCall,      \* nobody
    MaxFaults    \* bound on lost connections and on deaths of the server

Request == [entry : Entries \cup {NoEntry}, payload : Payloads,
            actor : {"user", "agent"}]

ASSUME RequestAssumption ==
    /\ NoEntry \notin Entries
    /\ NoCall \notin Calls
    /\ Requests \subseteq Request
    /\ Fold \in [Payloads -> Names]
    /\ MaxFaults \in Nat

VARIABLES
    request,     \* what each call asked
    at,          \* the statement each call is about to run
    answer,      \* what each call was told
    rows,        \* counterparties: the calls whose row has committed
    audit,       \* audit_log: how many rows each call has committed
    receipts,    \* outbox_receipts
    faults,      \* connections lost and deaths so far
    committed    \* history: the calls that had committed when each call began

tables == <<rows, audit, receipts>>
vars == <<request, at, answer, tables, faults, committed>>

Places == {"idle", "find", "handler", "audit", "receipt", "commit", "done"}
Open == {"find", "handler", "audit", "receipt", "commit"}

Receipt == [entry : Entries, hash : Payloads, response : Calls]
Answer == [kind : {"none", "ok", "validation", "approval_required", "internal"},
           row : Calls \cup {NoCall}]
Told(kind) == [kind |-> kind, row |-> NoCall]

Init ==
    /\ request \in [Calls -> Requests]
    /\ at = [c \in Calls |-> "idle"]
    /\ answer = [c \in Calls |-> Told("none")]
    /\ rows = {}
    /\ audit = [c \in Calls |-> 0]
    /\ receipts = {}
    /\ faults = 0
    /\ committed = [c \in Calls |-> {}]

Entry(c) == request[c].entry
Name(c) == Fold[request[c].payload]

Goes(c, to) == /\ at' = [at EXCEPT ![c] = to]
               /\ UNCHANGED <<request, answer, tables, faults, committed>>

\* The call is over; whatever its transaction inserted is rolled back.
Ends(c, told) == /\ at' = [at EXCEPT ![c] = "done"]
                 /\ answer' = [answer EXCEPT ![c] = told]
                 /\ UNCHANGED <<request, tables, committed>>

-----------------------------------------------------------------------------
\* create_counterparty is not auto-eligible, so the gate stops every call of an
\* agent.  A person pressing save is never gated.
Gated(r) == r.actor = "agent"

\* The gate comes before the transaction, so before the receipt as well.
Begin(c) ==
    /\ at[c] = "idle"
    /\ IF Gated(request[c])
         THEN /\ at' = [at EXCEPT ![c] = "done"]
              /\ answer' = [answer EXCEPT ![c] = Told("approval_required")]
         ELSE /\ at' = [at EXCEPT ![c] = "find"]
              /\ UNCHANGED answer
    /\ committed' = [committed EXCEPT ![c] = rows]
    /\ UNCHANGED <<request, tables, faults>>

\* Mutant of Receipts: receipts are written and never looked up.
NeverFound(c) == {}

\* findReceipt: the committed receipt of the call's entry.
Receipts(c) == {r \in receipts : r.entry = Entry(c)}

\* Mutant of SameRequest: the hash is not compared.
AnyRequest(c, r) == TRUE

SameRequest(c, r) == r.hash = request[c].payload

FindNothing(c) ==
    /\ at[c] = "find" /\ Receipts(c) = {}
    /\ Goes(c, "handler")

Replay(c) ==
    /\ at[c] = "find"
    /\ \E r \in Receipts(c) :
         SameRequest(c, r) /\ Ends(c, [kind |-> "ok", row |-> r.response])
    /\ UNCHANGED faults

RefuseOtherRequest(c) ==
    /\ at[c] = "find"
    /\ \E r \in Receipts(c) : ~SameRequest(c, r) /\ Ends(c, Told("validation"))
    /\ UNCHANGED faults

\* What an open transaction has inserted: its row, then its receipt.
HoldsName(c) == at[c] \in {"audit", "receipt", "commit"}
HoldsEntry(c) == at[c] = "commit" /\ Entry(c) # NoEntry

\* counterparties_name_uq lets the row in.
NameFree(c) ==
    /\ \A d \in rows : Name(d) # Name(c)
    /\ \A d \in Calls \ {c} : HoldsName(d) => Name(d) # Name(c)

\* Mutant of InsertRow: through the pooled handle, outside the transaction.
InsertRowAtOnce(c) ==
    /\ at[c] = "handler" /\ NameFree(c)
    /\ at' = [at EXCEPT ![c] = "audit"]
    /\ rows' = rows \cup {c}
    /\ UNCHANGED <<request, answer, audit, receipts, faults, committed>>

InsertRow(c) ==
    /\ at[c] = "handler" /\ NameFree(c)
    /\ Goes(c, "audit")

\* Mutant of DuplicateName: the handler waits for the name instead.
WaitForName(c) == FALSE

DuplicateName(c) ==
    /\ at[c] = "handler"
    /\ \E d \in rows : Name(d) = Name(c)
    /\ Ends(c, Told("validation"))
    /\ UNCHANGED faults

InsertAudit(c) ==
    /\ at[c] = "audit"
    /\ Goes(c, IF Entry(c) = NoEntry THEN "commit" ELSE "receipt")

\* Mutant of EntryFree: on conflict do nothing.
AlwaysFree(c) == TRUE

\* The primary key of outbox_receipts lets the receipt in.
EntryFree(c) ==
    /\ \A r \in receipts : r.entry # Entry(c)
    /\ \A d \in Calls \ {c} : HoldsEntry(d) => Entry(d) # Entry(c)

WriteReceipt(c) ==
    /\ at[c] = "receipt" /\ EntryFree(c)
    /\ Goes(c, "commit")

DuplicateEntry(c) ==
    /\ at[c] = "receipt"
    /\ \E r \in receipts : r.entry = Entry(c)
    /\ Ends(c, Told("validation"))
    /\ UNCHANGED faults

\* Mutant of ReceiptOf: an interactive call leaves a receipt too.
EvenOfNoEntry(c) ==
    {[entry |-> Entry(c), hash |-> request[c].payload, response |-> c]}

ReceiptOf(c) ==
    IF Entry(c) = NoEntry THEN {}
    ELSE {[entry |-> Entry(c), hash |-> request[c].payload, response |-> c]}

Commits(c, told) ==
    /\ at[c] = "commit"
    /\ rows' = rows \cup {c}
    /\ audit' = [audit EXCEPT ![c] = @ + 1]
    /\ receipts' = receipts \cup ReceiptOf(c)
    /\ at' = [at EXCEPT ![c] = "done"]
    /\ answer' = [answer EXCEPT ![c] = told]
    /\ UNCHANGED <<request, committed>>

Commit(c) ==
    /\ Commits(c, [kind |-> "ok", row |-> c])
    /\ UNCHANGED faults

Fault == faults < MaxFaults /\ faults' = faults + 1

\* The connection to Postgres is lost: before the commit, or in it, after it
\* was done and before the server knew.
Fails(c) == at[c] \in Open /\ Fault /\ Ends(c, Told("internal"))
CommitUnheard(c) == Fault /\ Commits(c, Told("internal"))

\* The server dies and its transactions with it.  Nobody is answered.
ServerDies ==
    /\ \E c \in Calls : at[c] \in Open
    /\ Fault
    /\ at' = [c \in Calls |-> IF at[c] \in Open THEN "done" ELSE at[c]]
    /\ UNCHANGED <<request, answer, tables, committed>>

Step(c) ==
    \/ FindNothing(c) \/ Replay(c) \/ RefuseOtherRequest(c)
    \/ InsertRow(c) \/ DuplicateName(c) \/ InsertAudit(c)
    \/ WriteReceipt(c) \/ DuplicateEntry(c) \/ Commit(c)

\* Nothing more happens once every call is over.
AllDone == (\A c \in Calls : at[c] = "done") /\ UNCHANGED vars

Next == \/ \E c \in Calls : Begin(c) \/ Step(c) \/ Fails(c) \/ CommitUnheard(c)
        \/ ServerDies
        \/ AllDone

Spec == Init /\ [][Next]_vars

\* Node and Postgres go on running a statement that can run.  No call has to
\* begin and nothing has to fail.
FairSpec == Spec /\ \A c \in Calls : WF_vars(Step(c))

-----------------------------------------------------------------------------
TypeOK ==
    /\ request \in [Calls -> Requests]
    /\ at \in [Calls -> Places]
    /\ answer \in [Calls -> Answer]
    /\ rows \subseteq Calls
    /\ audit \in [Calls -> Nat]
    /\ receipts \subseteq Receipt
    /\ faults \in 0..MaxFaults
    /\ committed \in [Calls -> SUBSET Calls]

\* However its calls overlap, fail or are repeated, and whatever they carry, an
\* outbox entry takes effect at most once: two intentions cannot share one id
\* and a retry does not apply again (C22).
OneEffectPerEntry ==
    \A c, d \in rows : Entry(c) = Entry(d) /\ Entry(c) # NoEntry => c = d

\* "A receipt cannot exist for work that rolled back, and work cannot exist
\* without a receipt" (idempotency.ts).
ReceiptsMatchEffects ==
    /\ \A r \in receipts : /\ r.response \in rows
                           /\ r.entry = Entry(r.response)
                           /\ r.hash = request[r.response].payload
    /\ \A c \in rows : Entry(c) # NoEntry => \E r \in receipts : r.response = c

\* Every row has exactly one audit row, and there is no audit row of a row that
\* never came to be, through every failure.
EveryEffectIsAudited == \A c \in Calls : audit[c] = IF c \in rows THEN 1 ELSE 0

\* The service's own check "exists for the error message, not for the
\* guarantee": names stay unique when creations race.
NamesAreUnique == \A c, d \in rows : Name(c) = Name(d) => c = d

\* What is committed agrees across the tables, however calls race and fail: a
\* row has its one audit row, its entry's receipt and a name of its own, and no
\* audit row or receipt is without its row.
TablesAgree == ReceiptsMatchEffects /\ EveryEffectIsAudited /\ NamesAreUnique

\* A call told "ok" is told of a row that is there, made for its own entry from
\* its own payload; so two answers to one entry are the same answer.
AnswersAreTrue ==
    \A c \in Calls : answer[c].kind = "ok" =>
      LET r == answer[c].row IN
        /\ r \in rows
        /\ request[r].payload = request[c].payload
        /\ r # c => Entry(r) = Entry(c) /\ Entry(c) # NoEntry

\* c carries the entry and the request that d carries.
Repeats(c, d) == /\ Entry(d) = Entry(c) /\ Entry(c) # NoEntry
                 /\ request[d].payload = request[c].payload

\* A retry that begins after an earlier call of its entry has committed is never
\* refused: it is told what that call was told, whoever heard it.
LaterRetryReplays ==
    \A c \in Calls : \A d \in committed[c] :
      Repeats(c, d) => answer[c].kind # "validation" /\ c \notin rows

\* Transactions that wait for each other's keys do not wait for ever: every call
\* that begins is over at last.
CallsEnd == \A c \in Calls : at[c] = "find" ~> at[c] = "done"

(***************************************************************************)
(* The inductive invariants behind them.                                   *)
(***************************************************************************)

\* The keys that are taken, by committed rows or by open transactions, are
\* taken once: what the two unique indexes maintain.
KeysInv ==
    /\ \A c \in rows : at[c] = "done"
    /\ \A c, d \in Calls : HoldsName(c) /\ HoldsName(d) /\ Name(c) = Name(d) => c = d
    /\ \A c \in Calls, d \in rows : HoldsName(c) => Name(c) # Name(d)
    /\ \A c, d \in Calls : HoldsEntry(c) /\ HoldsEntry(d) /\ Entry(c) = Entry(d) => c = d
    /\ \A c \in Calls, r \in receipts : HoldsEntry(c) => Entry(c) # r.entry
    /\ \A r, s \in receipts : r.entry = s.entry => r = s

\* A later retry does not get past findReceipt.
RetryInv ==
    /\ \A c \in Calls : committed[c] \subseteq rows
    /\ \A c \in Calls : at[c] = "idle" => answer[c].kind = "none"
    /\ \A c \in Calls : \A d \in committed[c] :
         Repeats(c, d) => at[c] \in {"find", "done"}
=============================================================================
