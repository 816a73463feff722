------------------------ MODULE RegistryWriteProofs ------------------------
(***************************************************************************)
(* What RegistryWrite keeps for every number of calls, entries, payloads   *)
(* and faults.  Everything rests on KeysInv, what the two unique indexes   *)
(* maintain between committed rows and open transactions; RetryInv adds    *)
(* that findReceipt stops a retry that begins after the commit.            *)
(***************************************************************************)
EXTENDS RegistryWrite, TLAPS

\* Every variable keeps its type.
LEMMA TypeStep == TypeOK /\ [Next]_vars => TypeOK'
<1> SUFFICES ASSUME TypeOK, [Next]_vars PROVE TypeOK'
  OBVIOUS
<1> USE RequestAssumption DEF TypeOK, tables
<1>1. ASSUME NEW c \in Calls, Begin(c) PROVE TypeOK'
  BY <1>1 DEF Begin, Told, Answer, Places
<1>2. ASSUME NEW c \in Calls, Step(c) PROVE TypeOK'
  <2>1. CASE FindNothing(c)
    BY <2>1 DEF FindNothing, Goes, Places
  <2>2. CASE Replay(c)
    BY <2>2 DEF Replay, Receipts, Ends, Answer, Receipt, Places
  <2>3. CASE RefuseOtherRequest(c)
    BY <2>3 DEF RefuseOtherRequest, Ends, Told, Answer, Places
  <2>4. CASE InsertRow(c)
    BY <2>4 DEF InsertRow, Goes, Places
  <2>5. CASE DuplicateName(c)
    BY <2>5 DEF DuplicateName, Ends, Told, Answer, Places
  <2>6. CASE InsertAudit(c)
    BY <2>6 DEF InsertAudit, Goes, Places
  <2>7. CASE WriteReceipt(c)
    BY <2>7 DEF WriteReceipt, Goes, Places
  <2>8. CASE DuplicateEntry(c)
    BY <2>8 DEF DuplicateEntry, Ends, Told, Answer, Places
  <2>9. CASE Commit(c)
    <3>1. ReceiptOf(c) \subseteq Receipt
      BY DEF ReceiptOf, Receipt, Entry, Request
    <3> QED
      BY <2>9, <3>1 DEF Commit, Commits, Answer, Places
  <2> QED
    BY <1>2, <2>1, <2>2, <2>3, <2>4, <2>5, <2>6, <2>7, <2>8, <2>9 DEF Step
<1>3. ASSUME NEW c \in Calls, Fails(c) PROVE TypeOK'
  BY <1>3 DEF Fails, Fault, Ends, Told, Answer, Places
<1>4. ASSUME NEW c \in Calls, CommitUnheard(c) PROVE TypeOK'
  <2>1. ReceiptOf(c) \subseteq Receipt
    BY DEF ReceiptOf, Receipt, Entry, Request
  <2> QED
    BY <1>4, <2>1 DEF CommitUnheard, Fault, Commits, Told, Answer, Places
<1>5. ASSUME ServerDies PROVE TypeOK'
  BY <1>5 DEF ServerDies, Fault, Places
<1>6. ASSUME UNCHANGED vars PROVE TypeOK'
  BY <1>6 DEF vars
<1> QED
  BY <1>1, <1>2, <1>3, <1>4, <1>5, <1>6 DEF Next, AllDone

LEMMA TypeInit == Init => TypeOK
  BY RequestAssumption DEF Init, TypeOK, Told, Answer, Places

\* Every variable has its type in every reachable state.
THEOREM TypeCorrect == Spec => []TypeOK
  BY TypeInit, TypeStep, PTL DEF Spec

(***************************************************************************)
(* The keys.                                                               *)
(***************************************************************************)

\* A step that commits nothing and takes no key keeps the keys.
LEMMA NoKeyTaken ==
  ASSUME TypeOK, KeysInv, UNCHANGED <<request, rows, receipts>>,
         \A c \in Calls : /\ HoldsName(c)' => HoldsName(c)
                          /\ HoldsEntry(c)' => HoldsEntry(c)
                          /\ at[c] = "done" => at'[c] = "done"
  PROVE  KeysInv'
<1>1. \A c \in Calls : Name(c)' = Name(c) /\ Entry(c)' = Entry(c)
  BY DEF Name, Entry
<1> QED
  BY <1>1 DEF KeysInv, TypeOK, HoldsName, HoldsEntry, Name, Entry

LEMMA EndsTakesNoKey ==
  ASSUME TypeOK, KeysInv, NEW c \in Calls, NEW told, Ends(c, told)
  PROVE  KeysInv'
<1>1. /\ at' = [at EXCEPT ![c] = "done"] /\ request' = request
      /\ UNCHANGED <<request, rows, receipts>>
  BY DEF Ends, tables
<1>2. \A d \in Calls : /\ HoldsName(d)' => HoldsName(d)
                       /\ HoldsEntry(d)' => HoldsEntry(d)
                       /\ at[d] = "done" => at'[d] = "done"
  BY <1>1 DEF TypeOK, HoldsName, HoldsEntry, Entry
<1> QED
  BY <1>1, <1>2, NoKeyTaken DEF HoldsName, HoldsEntry, Entry

\* The commit turns the keys an open transaction holds into committed ones.
LEMMA CommitKeepsKeys ==
  ASSUME TypeOK, KeysInv, NEW c \in Calls, NEW told, Commits(c, told)
  PROVE  KeysInv'
<1>1. /\ at[c] = "commit" /\ at' = [at EXCEPT ![c] = "done"]
      /\ rows' = rows \cup {c} /\ receipts' = receipts \cup ReceiptOf(c)
      /\ request' = request
  BY DEF Commits
<1>2. \A d \in Calls : Name(d)' = Name(d) /\ Entry(d)' = Entry(d)
  BY <1>1 DEF Name, Entry
<1>3. \A d \in Calls : /\ HoldsName(d)' <=> HoldsName(d) /\ d # c
                       /\ HoldsEntry(d)' <=> HoldsEntry(d) /\ d # c
  BY <1>1, <1>2 DEF TypeOK, HoldsName, HoldsEntry
<1>4. HoldsName(c)
  BY <1>1 DEF HoldsName
<1>5. \A r \in receipts' : r \in receipts \/ (HoldsEntry(c) /\ r.entry = Entry(c))
  BY <1>1 DEF ReceiptOf, HoldsEntry
<1>6. \A r \in receipts' \ receipts, s \in receipts' \ receipts : r = s
  BY <1>1 DEF ReceiptOf
<1>7. \A d \in rows' : at'[d] = "done"
  BY <1>1 DEF KeysInv, TypeOK, HoldsName, HoldsEntry
<1>8. /\ \A d, e \in Calls :
           HoldsName(d)' /\ HoldsName(e)' /\ Name(d)' = Name(e)' => d = e
      /\ \A d \in Calls, e \in rows' : HoldsName(d)' => Name(d)' # Name(e)'
  BY <1>1, <1>2, <1>3, <1>4 DEF KeysInv, TypeOK, HoldsName, Name
<1>9. /\ \A d, e \in Calls :
           HoldsEntry(d)' /\ HoldsEntry(e)' /\ Entry(d)' = Entry(e)' => d = e
      /\ \A d \in Calls, r \in receipts' : HoldsEntry(d)' => Entry(d)' # r.entry
  BY <1>2, <1>3, <1>5 DEF KeysInv, HoldsEntry, Entry
<1>10. \A r, s \in receipts' : r.entry = s.entry => r = s
  BY <1>5, <1>6 DEF KeysInv
<1> QED
  BY <1>7, <1>8, <1>9, <1>10 DEF KeysInv, HoldsName, HoldsEntry, Name, Entry

LEMMA KeysStep == TypeOK /\ KeysInv /\ [Next]_vars => KeysInv'
<1> SUFFICES ASSUME TypeOK, KeysInv, [Next]_vars PROVE KeysInv'
  OBVIOUS
<1>1. ASSUME NEW c \in Calls, Begin(c) PROVE KeysInv'
  <2>1. \A d \in Calls : /\ HoldsName(d)' => HoldsName(d)
                         /\ HoldsEntry(d)' => HoldsEntry(d)
                         /\ at[d] = "done" => at'[d] = "done"
    BY <1>1 DEF Begin, TypeOK, HoldsName, HoldsEntry, Entry
  <2>2. UNCHANGED <<request, rows, receipts>>
    BY <1>1 DEF Begin, tables
  <2> QED
    BY <2>1, <2>2, NoKeyTaken DEF HoldsName, HoldsEntry, Entry
<1>2. ASSUME NEW c \in Calls, Step(c) PROVE KeysInv'
  <2>1. CASE FindNothing(c)
    <3>1. \A d \in Calls : /\ HoldsName(d)' => HoldsName(d)
                           /\ HoldsEntry(d)' => HoldsEntry(d)
                           /\ at[d] = "done" => at'[d] = "done"
      BY <2>1 DEF FindNothing, Goes, TypeOK, HoldsName, HoldsEntry, Entry
    <3> QED
      BY <2>1, <3>1, NoKeyTaken DEF FindNothing, Goes, tables, HoldsName, HoldsEntry, Entry
  <2>2. CASE Replay(c)
    BY <2>2, EndsTakesNoKey DEF Replay
  <2>3. CASE RefuseOtherRequest(c)
    BY <2>3, EndsTakesNoKey DEF RefuseOtherRequest
  <2>4. CASE InsertRow(c)
    <3>1. /\ NameFree(c) /\ at[c] = "handler" /\ at' = [at EXCEPT ![c] = "audit"]
          /\ UNCHANGED <<request, rows, receipts>>
      BY <2>4 DEF InsertRow, Goes, tables
    <3>2. \A d \in Calls : /\ Name(d)' = Name(d) /\ Entry(d)' = Entry(d)
                           /\ HoldsName(d)' <=> HoldsName(d) \/ d = c
                           /\ HoldsEntry(d)' <=> HoldsEntry(d)
                           /\ at[d] = "done" => at'[d] = "done"
      BY <3>1 DEF TypeOK, HoldsName, HoldsEntry, Name, Entry
    <3> QED
      BY <3>1, <3>2 DEF KeysInv, NameFree, TypeOK, HoldsName, HoldsEntry, Name, Entry
  <2>5. CASE DuplicateName(c)
    BY <2>5, EndsTakesNoKey DEF DuplicateName
  <2>6. CASE InsertAudit(c)
    <3>1. \A d \in Calls : /\ HoldsName(d)' => HoldsName(d)
                           /\ HoldsEntry(d)' => HoldsEntry(d)
                           /\ at[d] = "done" => at'[d] = "done"
      BY <2>6 DEF InsertAudit, Goes, TypeOK, HoldsName, HoldsEntry, Entry
    <3> QED
      BY <2>6, <3>1, NoKeyTaken DEF InsertAudit, Goes, tables, HoldsName, HoldsEntry, Entry
  <2>7. CASE WriteReceipt(c)
    <3>1. /\ EntryFree(c) /\ at[c] = "receipt" /\ at' = [at EXCEPT ![c] = "commit"]
          /\ UNCHANGED <<request, rows, receipts>>
      BY <2>7 DEF WriteReceipt, Goes, tables
    <3>2. \A d \in Calls : /\ Name(d)' = Name(d) /\ Entry(d)' = Entry(d)
                           /\ HoldsName(d)' <=> HoldsName(d)
                           /\ HoldsEntry(d)' => HoldsEntry(d) \/ d = c
                           /\ at[d] = "done" => at'[d] = "done"
      BY <3>1 DEF TypeOK, HoldsName, HoldsEntry, Name, Entry
    <3> QED
      BY <3>1, <3>2 DEF KeysInv, EntryFree, TypeOK, HoldsName, HoldsEntry, Name, Entry
  <2>8. CASE DuplicateEntry(c)
    BY <2>8, EndsTakesNoKey DEF DuplicateEntry
  <2>9. CASE Commit(c)
    BY <2>9, CommitKeepsKeys DEF Commit
  <2> QED
    BY <1>2, <2>1, <2>2, <2>3, <2>4, <2>5, <2>6, <2>7, <2>8, <2>9 DEF Step
<1>3. ASSUME NEW c \in Calls, Fails(c) PROVE KeysInv'
  BY <1>3, EndsTakesNoKey DEF Fails
<1>4. ASSUME NEW c \in Calls, CommitUnheard(c) PROVE KeysInv'
  BY <1>4, CommitKeepsKeys DEF CommitUnheard
<1>5. ASSUME ServerDies PROVE KeysInv'
  <2>1. \A d \in Calls : /\ HoldsName(d)' => HoldsName(d)
                         /\ HoldsEntry(d)' => HoldsEntry(d)
                         /\ at[d] = "done" => at'[d] = "done"
    BY <1>5 DEF ServerDies, Open, TypeOK, HoldsName, HoldsEntry, Entry
  <2> QED
    BY <1>5, <2>1, NoKeyTaken DEF ServerDies, tables, HoldsName, HoldsEntry, Entry
<1>6. ASSUME UNCHANGED vars PROVE KeysInv'
  BY <1>6 DEF vars, tables, KeysInv, HoldsName, HoldsEntry, Name, Entry
<1> QED
  BY <1>1, <1>2, <1>3, <1>4, <1>5, <1>6 DEF Next, AllDone

(***************************************************************************)
(* What is committed.                                                      *)
(***************************************************************************)
TablesInv == /\ ReceiptsMatchEffects /\ EveryEffectIsAudited
             /\ NamesAreUnique /\ AnswersAreTrue

\* A step that commits nothing keeps the tables, whatever refusal it answers.
LEMMA NothingCommitted ==
  ASSUME TypeOK, TablesInv, UNCHANGED <<request, rows, audit, receipts>>,
         \A c \in Calls : answer'[c] = answer[c] \/ answer'[c].kind # "ok"
  PROVE  TablesInv'
  BY DEF TypeOK, TablesInv, ReceiptsMatchEffects, EveryEffectIsAudited,
         NamesAreUnique, AnswersAreTrue, Entry, Name

LEMMA RefusalKeepsTables ==
  ASSUME TypeOK, TablesInv, NEW c \in Calls, NEW kind, kind # "ok",
         Ends(c, Told(kind))
  PROVE  TablesInv'
<1>1. \A d \in Calls : answer'[d] = answer[d] \/ answer'[d].kind # "ok"
  BY DEF Ends, Told, TypeOK
<1> QED
  BY <1>1, NothingCommitted DEF Ends, tables

\* A commit adds one row, its audit row and its receipt, and truly answers.
LEMMA CommitKeepsTables ==
  ASSUME TypeOK, KeysInv, TablesInv, NEW c \in Calls, NEW told,
         told.kind = "ok" => told.row = c, Commits(c, told)
  PROVE  TablesInv'
<1>1. /\ at[c] = "commit" /\ c \notin rows
      /\ rows' = rows \cup {c} /\ receipts' = receipts \cup ReceiptOf(c)
      /\ audit' = [audit EXCEPT ![c] = @ + 1]
      /\ answer' = [answer EXCEPT ![c] = told]
      /\ request' = request
  BY DEF Commits, KeysInv
<1>2. ReceiptsMatchEffects'
  <2>1. ASSUME NEW r \in receipts'
        PROVE  /\ r.response \in rows'
               /\ r.entry = request'[r.response].entry
               /\ r.hash = request'[r.response].payload
    <3>1. CASE r \in receipts
      BY <1>1, <3>1 DEF TablesInv, ReceiptsMatchEffects, Entry
    <3>2. CASE r \in ReceiptOf(c)
      <4>1. r = [entry |-> Entry(c), hash |-> request[c].payload, response |-> c]
        BY <3>2 DEF ReceiptOf
      <4> QED
        BY <1>1, <4>1 DEF Entry
    <3> QED
      BY <1>1, <2>1, <3>1, <3>2
  <2>2. ASSUME NEW d \in rows', request'[d].entry # NoEntry
        PROVE  \E r \in receipts' : r.response = d
    <3>1. CASE d \in rows
      BY <1>1, <2>2, <3>1 DEF TablesInv, ReceiptsMatchEffects, Entry
    <3>2. CASE d = c
      <4> DEFINE new == [entry |-> Entry(c), hash |-> request[c].payload,
                         response |-> c]
      <4>1. new \in ReceiptOf(c)
        BY <1>1, <2>2, <3>2 DEF ReceiptOf, Entry
      <4> QED
        BY <1>1, <3>2, <4>1
    <3> QED
      BY <1>1, <2>2, <3>1, <3>2
  <2> QED
    BY <2>1, <2>2 DEF ReceiptsMatchEffects, Entry
<1>3. EveryEffectIsAudited'
  BY <1>1 DEF TablesInv, EveryEffectIsAudited, TypeOK
<1>4. NamesAreUnique'
  <2>1. HoldsName(c)
    BY <1>1 DEF HoldsName
  <2>2. \A d \in rows : Name(c) # Name(d)
    BY <2>1 DEF KeysInv
  <2> QED
    BY <1>1, <2>2 DEF TablesInv, NamesAreUnique, Name
<1>5. AnswersAreTrue'
  BY <1>1 DEF TablesInv, AnswersAreTrue, TypeOK, Entry
<1> QED
  BY <1>2, <1>3, <1>4, <1>5 DEF TablesInv

LEMMA TablesStep == TypeOK /\ KeysInv /\ TablesInv /\ [Next]_vars => TablesInv'
<1> SUFFICES ASSUME TypeOK, KeysInv, TablesInv, [Next]_vars PROVE TablesInv'
  OBVIOUS
<1>1. ASSUME NEW c \in Calls, Begin(c) PROVE TablesInv'
  <2>1. \A d \in Calls : answer'[d] = answer[d] \/ answer'[d].kind # "ok"
    BY <1>1 DEF Begin, Told, TypeOK
  <2> QED
    BY <1>1, <2>1, NothingCommitted DEF Begin, tables
<1>2. ASSUME NEW c \in Calls, NEW to, Goes(c, to) PROVE TablesInv'
  BY <1>2, NothingCommitted DEF Goes, tables
<1>3. ASSUME NEW c \in Calls, Replay(c) PROVE TablesInv'
  <2>1. PICK r \in Receipts(c) :
          SameRequest(c, r) /\ Ends(c, [kind |-> "ok", row |-> r.response])
    BY <1>3 DEF Replay
  <2>2. /\ r.response \in rows
        /\ request[r.response].payload = request[c].payload
        /\ Entry(r.response) = Entry(c) /\ Entry(c) # NoEntry
    BY <2>1, RequestAssumption
    DEF Receipts, SameRequest, TablesInv, ReceiptsMatchEffects, TypeOK, Receipt
  <2>3. /\ UNCHANGED <<request, rows, audit, receipts>>
        /\ answer' = [answer EXCEPT ![c] = [kind |-> "ok", row |-> r.response]]
    BY <2>1 DEF Ends, tables
  <2>4. AnswersAreTrue'
    BY <2>2, <2>3 DEF TablesInv, AnswersAreTrue, TypeOK, Entry
  <2> QED
    BY <2>3, <2>4
    DEF TablesInv, ReceiptsMatchEffects, EveryEffectIsAudited, NamesAreUnique, Entry, Name
<1>4. ASSUME NEW c \in Calls, Step(c) PROVE TablesInv'
  <2>1. CASE FindNothing(c) \/ InsertRow(c) \/ InsertAudit(c) \/ WriteReceipt(c)
    BY <1>2, <2>1 DEF FindNothing, InsertRow, InsertAudit, WriteReceipt
  <2>2. CASE RefuseOtherRequest(c) \/ DuplicateName(c) \/ DuplicateEntry(c)
    BY <2>2, RefusalKeepsTables DEF RefuseOtherRequest, DuplicateName, DuplicateEntry
  <2>3. CASE Commit(c)
    BY <2>3, CommitKeepsTables DEF Commit
  <2> QED
    BY <1>3, <1>4, <2>1, <2>2, <2>3 DEF Step
<1>5. ASSUME NEW c \in Calls, Fails(c) PROVE TablesInv'
  BY <1>5, RefusalKeepsTables DEF Fails
<1>6. ASSUME NEW c \in Calls, CommitUnheard(c) PROVE TablesInv'
  BY <1>6, CommitKeepsTables DEF CommitUnheard, Told
<1>7. ASSUME ServerDies PROVE TablesInv'
  BY <1>7, NothingCommitted DEF ServerDies, tables
<1>8. ASSUME UNCHANGED vars PROVE TablesInv'
  BY <1>8, NothingCommitted DEF vars, tables
<1> QED
  BY <1>1, <1>4, <1>5, <1>6, <1>7, <1>8 DEF Next, AllDone

(***************************************************************************)
(* A retry that begins after the commit.                                   *)
(***************************************************************************)
LaterInv == RetryInv /\ LaterRetryReplays

\* A call that went on, and was not refused, owes the invariant nothing when no
\* call whose commit it came after asked the same.
LEMMA LaterKept ==
  ASSUME TypeOK, LaterInv, NEW c \in Calls,
         UNCHANGED <<request, committed>>, rows \subseteq rows',
         \A d \in Calls \ {c} : at'[d] = at[d] /\ answer'[d] = answer[d],
         rows' \subseteq rows \cup {c},
         at[c] # "idle", at'[c] # "idle",
         \/ \A d \in committed[c] : ~Repeats(c, d)
         \/ at'[c] = "done" /\ answer'[c].kind # "validation" /\ rows' = rows
  PROVE  LaterInv'
  BY DEF TypeOK, LaterInv, RetryInv, LaterRetryReplays, Repeats, Entry

\* findReceipt tells a call for which there is something to repeat.
LEMMA FoundWhenRepeated ==
  ASSUME TypeOK, KeysInv, TablesInv, LaterInv, NEW c \in Calls,
         NEW d \in committed[c], Repeats(c, d)
  PROVE  /\ Receipts(c) # {}
         /\ \A r \in Receipts(c) : SameRequest(c, r)
<1>1. d \in rows /\ Entry(d) # NoEntry /\ Entry(d) = Entry(c)
  BY DEF LaterInv, RetryInv, Repeats
<1>2. PICK s \in receipts : s.response = d
  BY <1>1 DEF TablesInv, ReceiptsMatchEffects
<1>3. s.entry = Entry(c) /\ s.hash = request[c].payload
  BY <1>1, <1>2 DEF TablesInv, ReceiptsMatchEffects, Repeats
<1>4. \A r \in Receipts(c) : r = s
  BY <1>3 DEF KeysInv, Receipts
<1> QED
  BY <1>2, <1>3, <1>4 DEF Receipts, SameRequest

LEMMA LaterStep ==
  TypeOK /\ KeysInv /\ TablesInv /\ LaterInv /\ [Next]_vars => LaterInv'
<1> SUFFICES ASSUME TypeOK, KeysInv, TablesInv, LaterInv, [Next]_vars
             PROVE  LaterInv'
  OBVIOUS
<1>1. ASSUME NEW c \in Calls, Begin(c) PROVE LaterInv'
  <2>1. /\ at[c] = "idle" /\ c \notin rows /\ answer[c].kind = "none"
        /\ at' \in [Calls -> Places] /\ at'[c] \in {"find", "done"}
        /\ answer'[c].kind # "validation"
        /\ \A d \in Calls \ {c} : at'[d] = at[d] /\ answer'[d] = answer[d]
        /\ committed' = [committed EXCEPT ![c] = rows]
        /\ request' = request /\ rows' = rows
    BY <1>1 DEF Begin, TypeOK, KeysInv, LaterInv, RetryInv, Told, tables, Places
  <2> QED
    BY <2>1 DEF TypeOK, LaterInv, RetryInv, LaterRetryReplays, Repeats, Entry
\* Past findReceipt there is nothing to repeat.
<1>2. ASSUME NEW c \in Calls, at[c] \in {"handler", "audit", "receipt", "commit"},
             NEW d \in committed[c]
      PROVE  ~Repeats(c, d)
  BY <1>2 DEF LaterInv, RetryInv
<1>3. ASSUME NEW c \in Calls, NEW to \in Places \ {"idle"}, Goes(c, to), at[c] # "idle",
             \A d \in committed[c] : ~Repeats(c, d)
      PROVE  LaterInv'
  BY <1>3, LaterKept DEF Goes, tables, TypeOK
<1>4. ASSUME NEW c \in Calls, NEW told, Ends(c, told), at[c] # "idle",
             \/ \A d \in committed[c] : ~Repeats(c, d)
             \/ told.kind # "validation"
      PROVE  LaterInv'
  <2>1. /\ at' = [at EXCEPT ![c] = "done"] /\ answer' = [answer EXCEPT ![c] = told]
        /\ UNCHANGED <<request, committed>> /\ rows' = rows
    BY <1>4 DEF Ends, tables
  <2> QED
    BY <1>4, <2>1, LaterKept DEF TypeOK
<1>5. ASSUME NEW c \in Calls, NEW told, Commits(c, told) PROVE LaterInv'
  BY <1>2, <1>5, LaterKept DEF Commits, TypeOK
<1>6. ASSUME NEW c \in Calls, Step(c) PROVE LaterInv'
  <2>1. CASE FindNothing(c)
    <3>1. \A d \in committed[c] : ~Repeats(c, d)
      BY <2>1, FoundWhenRepeated DEF FindNothing
    <3> QED
      BY <1>3, <2>1, <3>1 DEF FindNothing, Places
  <2>2. CASE Replay(c)
    BY <1>4, <2>2 DEF Replay
  <2>3. CASE RefuseOtherRequest(c)
    <3>1. \A d \in committed[c] : ~Repeats(c, d)
      BY <2>3, FoundWhenRepeated DEF RefuseOtherRequest
    <3> QED
      BY <1>4, <2>3, <3>1 DEF RefuseOtherRequest
  <2>4. CASE InsertRow(c)
    BY <1>2, <1>3, <2>4 DEF InsertRow, Places
  <2>5. CASE InsertAudit(c)
    BY <1>2, <1>3, <2>5 DEF InsertAudit, Places
  <2>6. CASE WriteReceipt(c)
    BY <1>2, <1>3, <2>6 DEF WriteReceipt, Places
  <2>7. CASE DuplicateName(c) \/ DuplicateEntry(c)
    BY <1>2, <1>4, <2>7 DEF DuplicateName, DuplicateEntry
  <2>8. CASE Commit(c)
    BY <1>5, <2>8 DEF Commit
  <2> QED
    BY <1>6, <2>1, <2>2, <2>3, <2>4, <2>5, <2>6, <2>7, <2>8 DEF Step
<1>7. ASSUME NEW c \in Calls, Fails(c) PROVE LaterInv'
  BY <1>4, <1>7 DEF Fails, Open, Told
<1>8. ASSUME NEW c \in Calls, CommitUnheard(c) PROVE LaterInv'
  BY <1>5, <1>8 DEF CommitUnheard
<1>9. ASSUME ServerDies PROVE LaterInv'
  <2>1. /\ UNCHANGED <<request, answer, rows, committed>>
        /\ \A c \in Calls : at'[c] = at[c] \/ at'[c] = "done"
    BY <1>9 DEF ServerDies, tables
  <2> QED
    BY <2>1 DEF TypeOK, LaterInv, RetryInv, LaterRetryReplays, Repeats, Entry
<1>10. ASSUME UNCHANGED vars PROVE LaterInv'
  BY <1>10 DEF vars, tables, LaterInv, RetryInv, LaterRetryReplays, Repeats, Entry
<1> QED
  BY <1>1, <1>6, <1>7, <1>8, <1>9, <1>10 DEF Next, AllDone

(***************************************************************************)
(* The theorems.                                                           *)
(***************************************************************************)
LEMMA InvInit == Init => KeysInv /\ TablesInv /\ LaterInv
  BY DEF Init, Told, KeysInv, TablesInv, ReceiptsMatchEffects, EveryEffectIsAudited,
         NamesAreUnique, AnswersAreTrue, LaterInv, RetryInv, LaterRetryReplays,
         HoldsName, HoldsEntry

LEMMA AllInv == Spec => [](TypeOK /\ KeysInv /\ TablesInv /\ LaterInv)
  BY TypeInit, TypeStep, InvInit, KeysStep, TablesStep, LaterStep, PTL DEF Spec

\* An outbox entry takes effect at most once, for any number of calls that
\* overlap, fail or die: its receipt is unique and every effect has its own.
THEOREM EntriesTakeEffectOnce == Spec => []OneEffectPerEntry
<1>1. TypeOK /\ KeysInv /\ TablesInv => OneEffectPerEntry
  BY DEF TypeOK, KeysInv, TablesInv, ReceiptsMatchEffects, OneEffectPerEntry
<1> QED
  BY <1>1, AllInv, PTL

\* No receipt without its effect and no effect of an entry without a receipt;
\* exactly one audit row for every row and none besides; and racing creations
\* never leave two rows of one folded name.
THEOREM TablesStayInAgreement == Spec => []TablesAgree
<1>1. TablesInv => TablesAgree
  BY DEF TablesInv, TablesAgree
<1> QED
  BY <1>1, AllInv, PTL

\* Whoever is told "ok" is told of the one committed row of their own request.
THEOREM AnswersStayTrue == Spec => []AnswersAreTrue
<1>1. TablesInv => AnswersAreTrue
  BY DEF TablesInv
<1> QED
  BY <1>1, AllInv, PTL

\* A retry that begins after its entry has committed is never refused and never
\* applied again.
THEOREM LaterRetriesReplay == Spec => []LaterRetryReplays
<1>1. LaterInv => LaterRetryReplays
  BY DEF LaterInv
<1> QED
  BY <1>1, AllInv, PTL
=============================================================================
