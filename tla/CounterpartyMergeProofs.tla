---------------------- MODULE CounterpartyMergeProofs ----------------------
(***************************************************************************)
(* Proofs about CounterpartyMerge, in three parts.                         *)
(*                                                                         *)
(* The people and the merge records: names stay unique, open merges never  *)
(* meet, and an unmerge changes nothing but what its merge recorded.  Of   *)
(* the rows this needs nothing.                                            *)
(*                                                                         *)
(* The rows: they are typed and the links fit their debts (TypeInv and     *)
(* LinksFitTheirDebt, inductive together with the first invariant), and a  *)
(* merge taken back at once restores them.  What an operation computes is  *)
(* named by an operator (NamesAnother, HandsOver, SumsUp, ...) that says   *)
(* it field by field, so that the invariants never meet its definition.    *)
(*                                                                         *)
(* The money: what two people are owed between them is a sum that a merge  *)
(* and an unmerge only share out differently.  Of two debts summed up this *)
(* needs what the open merges recorded (Sums), which holds because no      *)
(* other merge may touch the two people.                                   *)
(***************************************************************************)
EXTENDS CounterpartyMerge, OpeningDebtsProofs

\* A record of a merge, whatever rows it names.
IsMergeRecord(r) ==
    /\ r = [winner |-> r.winner, loser |-> r.loser, named |-> r.named,
            moved |-> r.moved, unmerged |-> r.unmerged]
    /\ r.unmerged \in BOOLEAN

PeopleTyped ==
    \A p \in DOMAIN counterparties : counterparties[p] \in Counterparty

MergesTyped ==
    /\ \E T : merges \in Seq(T)
    /\ \A m \in DOMAIN merges : IsMergeRecord(merges[m])

IInv == PeopleTyped /\ MergesTyped /\ NamesAreUnique /\ OpenMergesDoNotMeet

-----------------------------------------------------------------------------
(* What the two operations do to the merge records.                        *)

\* A merge adds one record and leaves those there are.
LEMMA MergeAppends ==
    ASSUME MergesTyped, NEW winner, NEW loser, NEW named, Merge(winner, loser, named)
    PROVE  /\ DOMAIN merges' = 1..(Len(merges) + 1)
           /\ DOMAIN merges = 1..Len(merges) /\ Len(merges) \in Nat
           /\ \A m \in DOMAIN merges : merges'[m] = merges[m]
           /\ merges'[Len(merges) + 1].winner = winner
           /\ merges'[Len(merges) + 1].loser = loser
           /\ IsMergeRecord(merges'[Len(merges) + 1])
           /\ \E T : merges' \in Seq(T)
<1>1. PICK T : merges \in Seq(T)
  BY DEF MergesTyped
<1>2. PICK r : /\ merges' = Append(merges, r) /\ IsMergeRecord(r)
               /\ r.winner = winner /\ r.loser = loser
  <2> DEFINE r == [winner |-> winner, loser |-> loser, named |-> named,
                   moved |-> MergedRows(openingDebts, transactions,
                                        winner, loser, named).moved,
                   unmerged |-> FALSE]
  <2>1. merges' = Append(merges, r)
    BY DEF Merge
  <2>2. IsMergeRecord(r) /\ r.winner = winner /\ r.loser = loser
    BY DEF IsMergeRecord
  <2> HIDE DEF r
  <2> QED BY <2>1, <2>2
<1>3. merges \in Seq(T \cup {r}) /\ r \in T \cup {r}
  BY <1>1
<1>4. /\ merges' \in Seq(T \cup {r}) /\ Len(merges') = Len(merges) + 1
      /\ \A i \in 1..Len(merges) : merges'[i] = merges[i]
      /\ merges'[Len(merges) + 1] = r
  BY <1>2, <1>3
<1> QED BY <1>1, <1>2, <1>4

\* An unmerge marks one open record and leaves the others.
LEMMA UnmergeMarks ==
    ASSUME MergesTyped, NEW m \in DOMAIN merges, Unmerge(m)
    PROVE  /\ DOMAIN merges' = DOMAIN merges
           /\ \A n \in DOMAIN merges : n # m => merges'[n] = merges[n]
           /\ merges'[m].unmerged = TRUE /\ IsMergeRecord(merges'[m])
           /\ \E T : merges' \in Seq(T)
<1>1. merges' = [merges EXCEPT ![m].unmerged = TRUE]
  BY DEF Unmerge
<1>2. IsMergeRecord(merges[m])
  BY DEF MergesTyped
<1>3. merges'[m] = [merges[m] EXCEPT !.unmerged = TRUE]
  BY <1>1
<1>4. merges'[m].unmerged = TRUE /\ IsMergeRecord(merges'[m])
  BY <1>2, <1>3 DEF IsMergeRecord
<1>5. PICK T : merges \in Seq(T)
  BY DEF MergesTyped
<1>6. merges' \in Seq(T \cup {merges'[m]})
  BY <1>1, <1>5
<1> QED BY <1>1, <1>4, <1>6

\* Whatever a step does, it adds a record or marks one, or leaves the merges be.
LEMMA StepsOfTheRecords ==
    ASSUME Next
    PROVE  \/ UNCHANGED merges
           \/ \E winner, loser, named : Merge(winner, loser, named)
           \/ \E m \in DOMAIN merges : Unmerge(m)
BY DEF Next, CreateCounterparty, UpdateCounterparty, RecordDistinct, RecordOpeningDebt, people,
       SettleDebt, DeleteOpeningDebt, CreateTransaction, DeleteTransaction, UpdateTransaction

\* Whatever a step does to the counterparties.
LEMMA StepsOfThePeople ==
    ASSUME Next
    PROVE  \/ UNCHANGED counterparties
           \/ \E p \in People, n \in Names : CreateCounterparty(p, n)
           \/ \E p \in People, n \in Names, a \in BOOLEAN : UpdateCounterparty(p, n, a)
           \/ \E winner, loser, named : Merge(winner, loser, named)
           \/ \E m \in DOMAIN merges : Unmerge(m)
<1>1. CASE \E c \in Newcomers : CreateCounterparty(c.who, c.name)
  BY <1>1, ConstantsAssumption
<1>2. CASE \E c \in Patches : UpdateCounterparty(c.who, c.name, c.archived)
  BY <1>2, ConstantsAssumption
<1>3. CASE \E debt \in Debts : RecordOpeningDebt(debt.who, debt.amount)
  BY <1>3 DEF RecordOpeningDebt, people
<1>4. CASE \E c \in Payments, type \in Types : SettleDebt(c.who, type, c.amount)
  BY <1>4 DEF SettleDebt, people
<1>5. CASE \/ \E pair \in Doubts : RecordDistinct(pair)
           \/ \E d \in DOMAIN openingDebts : DeleteOpeningDebt(d)
           \/ \E c \in Captures : CreateTransaction(c)
           \/ \E t \in DOMAIN transactions :
                 DeleteTransaction(t) \/ \E e \in Edits : UpdateTransaction(t, e)
  BY <1>5 DEF RecordDistinct, DeleteOpeningDebt, CreateTransaction, DeleteTransaction,
              UpdateTransaction, people
<1>6. CASE \E c \in Duplicates, named \in SUBSET DOMAIN transactions :
             Merge(c.winner, c.loser, named)
  BY <1>6
<1>7. CASE \E m \in DOMAIN merges : Unmerge(m)
  BY <1>7
<1> QED BY <1>1, <1>2, <1>3, <1>4, <1>5, <1>6, <1>7 DEF Next

-----------------------------------------------------------------------------
(* The invariant.                                                           *)

\* It holds at first, and every step keeps it.
LEMMA InitIInv == Init => IInv
<1> SUFFICES ASSUME Init PROVE IInv
  OBVIOUS
<1>1. PICK P \in SUBSET People :
        /\ FirstPeople \in [P -> [name : Names, archived : {FALSE}]]
        /\ \A p, q \in P : FirstPeople[p].name = FirstPeople[q].name => p = q
  BY FirstAssumption
<1>2. counterparties = FirstPeople /\ DOMAIN counterparties = P
  BY <1>1 DEF Init
<1>3. \A p \in P : counterparties[p] \in [name : Names, archived : {FALSE}]
  BY <1>1, <1>2
<1>4. PeopleTyped
  BY <1>2, <1>3 DEF PeopleTyped, Counterparty
<1>5. NamesAreUnique
  BY <1>1, <1>2 DEF NamesAreUnique
<1>6. merges = <<>> /\ DOMAIN merges = {} /\ merges \in Seq({})
  BY DEF Init
<1>7. MergesTyped /\ OpenMergesDoNotMeet
  BY <1>6 DEF MergesTyped, OpenMergesDoNotMeet
<1> QED BY <1>4, <1>5, <1>7 DEF IInv

LEMMA StepPeople ==
    ASSUME PeopleTyped, NamesAreUnique, Next
    PROVE  PeopleTyped' /\ NamesAreUnique'
<1>1. CASE UNCHANGED counterparties
  BY <1>1 DEF PeopleTyped, NamesAreUnique
<1>2. CASE \E p \in People, n \in Names : CreateCounterparty(p, n)
  BY <1>2 DEF CreateCounterparty, With, Exists, NameIsFree, PeopleTyped, NamesAreUnique,
              Counterparty
<1>3. CASE \E p \in People, n \in Names, a \in BOOLEAN : UpdateCounterparty(p, n, a)
  <2>1. PICK p \in People, n \in Names, a \in BOOLEAN : UpdateCounterparty(p, n, a)
    BY <1>3
  <2>2. /\ p \in DOMAIN counterparties /\ DOMAIN counterparties' = DOMAIN counterparties
        /\ counterparties'[p] = [name |-> n, archived |-> a]
        /\ \A q \in DOMAIN counterparties \ {p} :
             /\ counterparties'[q] = counterparties[q]
             /\ counterparties[q].archived \/ counterparties[q].name # n
    BY <2>1 DEF UpdateCounterparty, Exists, NameIsFree
  <2>3. PeopleTyped'
    BY <2>2 DEF PeopleTyped, Counterparty
  <2>4. NamesAreUnique'
    BY <2>2 DEF NamesAreUnique
  <2> QED BY <2>3, <2>4
<1>4. CASE \E winner, loser, named : Merge(winner, loser, named)
  <2>1. PICK loser : /\ loser \in DOMAIN counterparties
                     /\ counterparties' = [counterparties EXCEPT ![loser].archived = TRUE]
    BY <1>4 DEF Merge, MayMerge, Exists
  <2>2. /\ DOMAIN counterparties' = DOMAIN counterparties
        /\ counterparties'[loser] = [counterparties[loser] EXCEPT !.archived = TRUE]
        /\ \A q \in DOMAIN counterparties \ {loser} : counterparties'[q] = counterparties[q]
    BY <2>1
  <2>3. counterparties'[loser].archived = TRUE /\ counterparties'[loser] \in Counterparty
    BY <2>1, <2>2 DEF PeopleTyped, Counterparty
  <2>4. PeopleTyped'
    BY <2>2, <2>3 DEF PeopleTyped
  <2>5. NamesAreUnique'
    BY <2>2, <2>3 DEF NamesAreUnique
  <2> QED BY <2>4, <2>5
<1>5. CASE \E m \in DOMAIN merges : Unmerge(m)
  <2>1. PICK loser :
          /\ counterparties' = [counterparties EXCEPT ![loser].archived = FALSE]
          /\ NameIsFree(counterparties[loser].name, loser)
    BY <1>5 DEF Unmerge, MayUnmerge
  <2>2. CASE loser \notin DOMAIN counterparties
    BY <2>1, <2>2 DEF PeopleTyped, NamesAreUnique
  <2>3. CASE loser \in DOMAIN counterparties
    <3>1. /\ DOMAIN counterparties' = DOMAIN counterparties
          /\ counterparties'[loser] = [counterparties[loser] EXCEPT !.archived = FALSE]
          /\ \A q \in DOMAIN counterparties \ {loser} : counterparties'[q] = counterparties[q]
      BY <2>1, <2>3
    <3>2. /\ counterparties'[loser].name = counterparties[loser].name
          /\ counterparties'[loser] \in Counterparty
      BY <2>3, <3>1 DEF PeopleTyped, Counterparty
    <3>3. PeopleTyped'
      BY <3>1, <3>2 DEF PeopleTyped
    <3>4. NamesAreUnique'
      BY <2>1, <3>1, <3>2 DEF NamesAreUnique, NameIsFree
    <3> QED BY <3>3, <3>4
  <2> QED BY <2>2, <2>3
<1> QED BY <1>1, <1>2, <1>3, <1>4, <1>5, StepsOfThePeople

LEMMA StepMerges ==
    ASSUME MergesTyped, OpenMergesDoNotMeet, Next
    PROVE  MergesTyped' /\ OpenMergesDoNotMeet'
<1>1. CASE UNCHANGED merges
  BY <1>1 DEF MergesTyped, OpenMergesDoNotMeet, IsOpen
<1>2. CASE \E winner, loser, named : Merge(winner, loser, named)
  <2>1. PICK winner, loser, named : Merge(winner, loser, named)
    BY <1>2
  <2> DEFINE new == Len(merges) + 1
  <2>2. /\ DOMAIN merges' = 1..(Len(merges) + 1)
        /\ DOMAIN merges = 1..Len(merges) /\ Len(merges) \in Nat
        /\ \A m \in DOMAIN merges : merges'[m] = merges[m]
        /\ merges'[new].winner = winner /\ merges'[new].loser = loser
        /\ IsMergeRecord(merges'[new])
        /\ \E T : merges' \in Seq(T)
    BY <2>1, MergeAppends, Zenon
  <2>3. DOMAIN merges' = DOMAIN merges \cup {new} /\ new \notin DOMAIN merges
    BY <2>2
  <2>4. \A m \in DOMAIN merges : IsOpen(m) =>
            {merges[m].winner, merges[m].loser} \cap {winner, loser} = {}
    BY <2>1 DEF Merge, MayMerge, OnOpenMerge
  <2>5. MergesTyped'
    BY <2>2, <2>3 DEF MergesTyped
  <2>6. OpenMergesDoNotMeet'
    BY <2>2, <2>3, <2>4 DEF OpenMergesDoNotMeet, IsOpen
  <2> QED BY <2>5, <2>6
<1>3. CASE \E m \in DOMAIN merges : Unmerge(m)
  <2>1. PICK m \in DOMAIN merges : Unmerge(m)
    BY <1>3
  <2>2. /\ DOMAIN merges' = DOMAIN merges
        /\ \A n \in DOMAIN merges : n # m => merges'[n] = merges[n]
        /\ merges'[m].unmerged = TRUE /\ IsMergeRecord(merges'[m])
        /\ \E T : merges' \in Seq(T)
    BY <2>1, UnmergeMarks
  <2>3. MergesTyped'
    BY <2>2 DEF MergesTyped
  <2>4. OpenMergesDoNotMeet'
    BY <2>2 DEF OpenMergesDoNotMeet, IsOpen
  <2> QED BY <2>3, <2>4
<1> QED BY <1>1, <1>2, <1>3, StepsOfTheRecords

LEMMA StepIInv == IInv /\ [Next]_vars => IInv'
<1> SUFFICES ASSUME IInv, [Next]_vars PROVE IInv'
  OBVIOUS
<1>1. CASE Next
  BY <1>1, StepPeople, StepMerges DEF IInv
<1>2. CASE UNCHANGED vars
  BY <1>2 DEF vars, IInv, PeopleTyped, MergesTyped, NamesAreUnique, OpenMergesDoNotMeet,
              IsOpen
<1> QED BY <1>1, <1>2

LEMMA IInvAlways == Spec => []IInv
BY InitIInv, StepIInv, PTL DEF Spec

-----------------------------------------------------------------------------
(* The theorems.                                                            *)

\* However often people are merged, renamed, archived and brought back, no two
\* in the pickers share a folded name (create, update and unmerge each look).
THEOREM NamesStayUnique == Spec => []NamesAreUnique
<1>1. IInv => NamesAreUnique
  BY DEF IInv
<1> QED BY <1>1, IInvAlways, PTL

\* Nobody is ever on two merges that can still be taken back, in either role
\* (merge-counterparties.executor.ts:192-212).
THEOREM OpenMergesNeverMeet == Spec => []OpenMergesDoNotMeet
<1>1. IInv => OpenMergesDoNotMeet
  BY DEF IInv
<1> QED BY <1>1, IInvAlways, PTL

\* What an unmerge does to the rows: it changes no transaction the merge did
\* not name or link, and no opening debt the merge did not move or sum into.
LEMMA UnmergedRowsAreRecorded ==
    ASSUME NEW debts, NEW txs, NEW merge
    PROVE  LET back == UnmergedRows(debts, txs, merge) IN
           /\ \A t \in DOMAIN txs : back.transactions[t] # txs[t] =>
                t \in merge.named \cup {c.id : c \in UNION {e.links : e \in merge.moved}}
           /\ \A d \in DOMAIN debts : back.debts[d] # debts[d] =>
                d \in UNION {{e.id, e.into} : e \in merge.moved}
<1> DEFINE named == merge.named \cap Live(txs)
           handed == Repointed(txs, named, merge.winner, merge.loser)
           back == UnmergedRows(debts, txs, merge)
<1>1. ASSUME NEW t \in DOMAIN txs, t \notin merge.named,
             t \notin {c.id : c \in UNION {e.links : e \in merge.moved}}
      PROVE  back.transactions[t] = txs[t]
  <2>1. t \in DOMAIN handed /\ handed[t] = txs[t]
    BY <1>1 DEF Repointed
  <2>2. UnmergedLinks(debts, handed, merge)[t] = handed[t]
    BY <1>1, <2>1 DEF UnmergedLinks
  <2> QED BY <2>1, <2>2 DEF UnmergedRows
<1>2. ASSUME NEW d \in DOMAIN debts, d \notin UNION {{e.id, e.into} : e \in merge.moved}
      PROVE  back.debts[d] = debts[d]
  <2>1. UnmergedDebts(debts, merge)[d] = debts[d]
    BY <1>2 DEF UnmergedDebts
  <2> QED BY <2>1 DEF UnmergedRows
<1> QED BY <1>1, <1>2

\* Whatever was written between the merge and its unmerge, the unmerge changes
\* only what the merge recorded (the rule of merge-opening-debts.ts:20-23).
THEOREM UnmergesUndoTheirRecord == Spec => OnlyTheRecordIsUndone
<1> DEFINE Step ==
      \A m \in DOMAIN merges :
         merges'[m] # merges[m] =>
            /\ \A t \in DOMAIN transactions : transactions'[t] # transactions[t] =>
                 t \in merges[m].named \cup
                        {c.id : c \in UNION {e.links : e \in merges[m].moved}}
            /\ \A d \in DOMAIN openingDebts : openingDebts'[d] # openingDebts[d] =>
                 d \in UNION {{e.id, e.into} : e \in merges[m].moved}
<1>1. IInv /\ [Next]_vars => [Step]_vars
  <2> SUFFICES ASSUME IInv, Next, NEW m \in DOMAIN merges, merges'[m] # merges[m]
               PROVE  /\ \A t \in DOMAIN transactions : transactions'[t] # transactions[t] =>
                           t \in merges[m].named \cup
                                  {c.id : c \in UNION {e.links : e \in merges[m].moved}}
                      /\ \A d \in DOMAIN openingDebts : openingDebts'[d] # openingDebts[d] =>
                           d \in UNION {{e.id, e.into} : e \in merges[m].moved}
    OBVIOUS
  <2>1. Unmerge(m)
    BY MergeAppends, UnmergeMarks, StepsOfTheRecords DEF IInv
  <2>2. /\ transactions' = UnmergedRows(openingDebts, transactions, merges[m]).transactions
        /\ openingDebts' = UnmergedRows(openingDebts, transactions, merges[m]).debts
    BY <2>1 DEF Unmerge
  <2> QED BY <2>2, UnmergedRowsAreRecorded
<1> QED BY <1>1, IInvAlways, PTL DEF Spec, OnlyTheRecordIsUndone
-----------------------------------------------------------------------------
(* The rows.                                                                *)

\* The two tables, of which the links name debts there are.
Typed(debts, txs) ==
    /\ DOMAIN debts \subseteq RowIds /\ DOMAIN txs \subseteq RowIds
    /\ \A d \in DOMAIN debts : debts[d] \in OpeningDebt
    /\ \A t \in DOMAIN txs : txs[t] \in Transaction
    /\ \A t \in DOMAIN txs : txs[t].link \in DOMAIN debts \cup {NoRow}

\* What a merge records of one debt, and of a merge.
EntryTyped(e, debts) ==
    /\ e.id \in DOMAIN debts /\ e.into \in DOMAIN debts \cup {NoRow}
    /\ e.before \in SignedAmounts /\ e.after \in [amount : SignedAmounts, deleted : BOOLEAN]
    /\ e.links \subseteq LinkChange
    /\ \A c \in e.links : c.was \in DOMAIN debts \cup {NoRow}

RecordTyped(r, known, debts, txs) ==
    /\ r.winner \in known /\ r.loser \in known /\ r.winner # r.loser
    /\ r.named \subseteq DOMAIN txs
    /\ \A e \in r.moved : EntryTyped(e, debts)

RecordsTyped ==
    \A m \in DOMAIN merges :
        RecordTyped(merges[m], DOMAIN counterparties, openingDebts, transactions)

PairsOfPeople == {{p, q} : p, q \in People}
NamesKnown ==
    DOMAIN counterparties \subseteq People /\ distinctPairs \subseteq PairsOfPeople

TypeInv ==
    NamesKnown /\ Numbered /\ Typed(openingDebts, transactions) /\ RecordsTyped

\* Opening debt d is repaid by its own person's rows, the `back` ones left out,
\* which reduce it, and no more than it was.
FitsAt(debts, txs, d, back) ==
    /\ Repaid(txs, d) <= Size(debts[d])
    /\ \A t \in Repayments(txs, d) \ back :
         txs[t].obligation = debts[d].counterparty /\ Reduces(debts[d], txs[t].type)

\* The typed tables are those OpeningDebtsProofs is about.
LEMMA TypedTables ==
    ASSUME NEW debts, NEW txs, Typed(debts, txs)
    PROVE  /\ AreRows(txs) /\ AreDebts(debts)
           /\ Live(txs) \subseteq DOMAIN txs /\ Live(debts) \subseteq DOMAIN debts
           /\ NoRow \notin DOMAIN debts /\ NoRow \notin DOMAIN txs
<1>1. ASSUME NEW t \in DOMAIN txs PROVE HasFields(txs[t]) /\ txs[t].amount \in Nat
  <2>1. txs[t] \in Transaction
    BY DEF Typed
  <2> QED BY <2>1, RowsAssumption DEF Transaction, HasFields, Fields, Amounts
<1>2. AreDebts(debts)
  BY RowsAssumption DEF Typed, AreDebts, OpeningDebt, SignedAmounts
<1>3. Live(txs) \subseteq DOMAIN txs /\ Live(debts) \subseteq DOMAIN debts
  BY DEF Live
<1>4. NoRow \notin RowIds
  BY RowsAssumption DEF NoRow, RowIds
<1>5. AreRows(txs)
  BY <1>1 DEF AreRows, Typed
<1> QED BY <1>2, <1>3, <1>4, <1>5 DEF Typed

\* A row with another link is a row.
LEMMA LinkedAnew ==
    ASSUME NEW r \in Transaction, NEW link \in RowIds \cup {NoRow}
    PROVE  LET s == [r EXCEPT !.link = link] IN
           /\ s \in Transaction /\ s.link = link
           /\ SameButLink(r, s) /\ s.counterparty = r.counterparty
BY DEF Transaction, SameButLink

\* A debt stays within what it was where it loses repayments and changes no more.
LEMMA StaysFit ==
    ASSUME NEW debts, NEW txs, AreRows(txs), NEW debts2, NEW now, AreRows(now),
           NEW d, AreDebts(debts), d \in DOMAIN debts, NEW back, NEW back2, back \subseteq back2,
           FitsAt(debts, txs, d, back),
           debts2[d].amount = debts[d].amount /\ debts2[d].counterparty = debts[d].counterparty,
           Repayments(now, d) \subseteq Repayments(txs, d),
           \A t \in Repayments(now, d) : now[t].amount = txs[t].amount,
           \A t \in Repayments(now, d) \ back2 :
              now[t].obligation = txs[t].obligation /\ now[t].type = txs[t].type
    PROVE  FitsAt(debts2, now, d, back2)
<1> DEFINE S == Repayments(txs, d)
           T == Repayments(now, d)
<1>1. /\ S \in SUBSET DOMAIN txs /\ T \in SUBSET S /\ T \subseteq DOMAIN now
      /\ \A t \in T : now[t].amount = txs[t].amount
  BY DEF Repayments, Live
<1>2. Size(debts2[d]) = Size(debts[d]) /\ Size(debts[d]) \in Nat
      /\ \A type : Reduces(debts2[d], type) = Reduces(debts[d], type)
  BY SizeIsNatural DEF Size, Reduces
<1> HIDE DEF S, T
<1>3. Total(now, T) \in Nat /\ Total(now, T) <= Total(txs, S) /\ Total(txs, S) \in Nat
  BY <1>1, TotalsShrink, TotalsAdd
<1>4. Repaid(now, d) <= Size(debts2[d])
  BY <1>2, <1>3 DEF FitsAt, Repaid, S, T
<1> QED BY <1>2, <1>4 DEF FitsAt

\* One more repayment, which fits in what was open.
LEMMA OneMoreFitsAt ==
    ASSUME NEW debts, NEW txs, AreRows(txs), NEW now, AreRows(now),
           NEW d, AreDebts(debts), d \in DOMAIN debts, NEW back,
           FitsAt(debts, txs, d, back),
           NEW u, u \in Repayments(now, d), u \notin Repayments(txs, d),
           Repayments(now, d) \subseteq Repayments(txs, d) \cup {u},
           \A t \in Repayments(now, d) \ {u} :
              /\ now[t].amount = txs[t].amount
              /\ now[t].obligation = txs[t].obligation /\ now[t].type = txs[t].type,
           now[u].amount <= StillOpen(debts, txs, d),
           now[u].obligation = debts[d].counterparty, Reduces(debts[d], now[u].type)
    PROVE  FitsAt(debts, now, d, back)
<1> DEFINE S == Repayments(txs, d)
           T == Repayments(now, d) \ {u}
<1>1. /\ S \in SUBSET DOMAIN txs /\ T \in SUBSET S /\ T \in SUBSET DOMAIN now
      /\ u \in DOMAIN now \ T /\ Repayments(now, d) = T \cup {u}
      /\ \A t \in T : now[t].amount = txs[t].amount
  BY DEF Repayments, Live
<1>2. Size(debts[d]) \in Nat
  BY SizeIsNatural
<1> HIDE DEF S, T
<1>3. /\ Total(now, T) \in Nat /\ Total(now, T) <= Total(txs, S) /\ Total(txs, S) \in Nat
      /\ Total(now, T \cup {u}) = Total(now, T) + now[u].amount
  BY <1>1, TotalsShrink, TotalsAdd
<1>4. now[u].amount \in Nat /\ now[u].amount <= Size(debts[d]) - Total(txs, S)
  BY <1>1 DEF AreRows, StillOpen, Repaid, S
<1>5. Repaid(now, d) = Total(now, T \cup {u})
  BY <1>1 DEF Repaid
<1>6. Repaid(now, d) <= Size(debts[d])
  BY <1>2, <1>3, <1>4, <1>5
<1>7. \A t \in Repayments(now, d) \ back :
         now[t].obligation = debts[d].counterparty /\ Reduces(debts[d], now[t].type)
  BY <1>1 DEF FitsAt, S
<1> QED BY <1>6, <1>7 DEF FitsAt

\* Whatever is not set apart fits.
Fit(debts, txs, apart, back) == \A d \in Live(debts) \ apart : FitsAt(debts, txs, d, back)

\* The rows `now` are those of `txs` but for their links, which fit.
Relinked(debts, txs, now, apart, back) ==
    /\ DOMAIN now = DOMAIN txs /\ Typed(debts, now) /\ Fit(debts, now, apart, back)
    /\ \A t \in DOMAIN txs :
         SameButLink(txs[t], now[t]) /\ now[t].counterparty = txs[t].counterparty

\* Deciding the links to the debts of `from` again leaves them fitting.
LEMMA ReplannedFits ==
    ASSUME NEW debts, NEW txs, Typed(debts, txs), NEW from, from \subseteq DOMAIN debts,
           NEW target \in from \cup {NoRow}, from \cap Live(debts) \subseteq {target}, NEW since,
           NEW apart, NEW back, NEW wider, wider = apart \cup from, Fit(debts, txs, wider, back),
           NEW now, now = Replanned(debts, txs, from, target, since)
    PROVE  Relinked(debts, txs, now, apart, back)
<1>1. /\ AreRows(txs) /\ AreDebts(debts) /\ NoRow \notin from
      /\ Live(txs) \subseteq DOMAIN txs /\ Live(debts) \subseteq DOMAIN debts
      /\ NoRow \notin DOMAIN debts
  BY TypedTables
<1>2. PICK cleared, linked : now = WithLinks(txs, cleared, linked, target)
  BY DEF Replanned
<1>3. /\ DOMAIN now = DOMAIN txs /\ AreRows(now)
      /\ Live(now) = Live(txs)
      /\ \A t \in DOMAIN txs :
           /\ SameButLink(txs[t], now[t])
           /\ t \in Live(txs) /\ now[t].link \in from =>
                target # NoRow /\ now[t].link = target /\ Suits(debts, txs, t, target)
      /\ \A d : d # target /\ d # NoRow => Repayments(now, d) \subseteq Repayments(txs, d)
      /\ target \in Live(debts) => Repaid(now, target) <= Size(debts[target])
  BY <1>1, ReplannedRows
<1>4. ASSUME NEW t \in DOMAIN txs
      PROVE  /\ now[t] \in Transaction /\ now[t].link \in DOMAIN debts \cup {NoRow}
             /\ now[t].counterparty = txs[t].counterparty
  <2>1. txs[t] \in Transaction /\ txs[t].link \in DOMAIN debts \cup {NoRow}
    BY DEF Typed
  <2>2. txs[t] = [txs[t] EXCEPT !.link = txs[t].link]
    BY <2>1 DEF Transaction
  <2>3. PICK link \in DOMAIN debts \cup {NoRow} : now[t] = [txs[t] EXCEPT !.link = link]
    BY <1>2, <2>1, <2>2 DEF WithLinks
  <2>4. link \in RowIds \cup {NoRow}
    BY DEF Typed
  <2> QED BY <2>1, <2>3, <2>4, LinkedAnew
<1>5. Typed(debts, now)
  BY <1>3, <1>4 DEF Typed
<1>6. Fit(debts, now, apart, back)
  <2> SUFFICES ASSUME NEW d \in Live(debts) \ apart PROVE FitsAt(debts, now, d, back)
    BY DEF Fit
  <2>1. CASE d \in from
    <3>1. d = target /\ d \in DOMAIN debts /\ d # NoRow
      BY <1>1, <2>1
    <3>2. ASSUME NEW t \in Repayments(now, d)
          PROVE  now[t].obligation = debts[d].counterparty /\ Reduces(debts[d], now[t].type)
      <4>1. t \in Live(txs) /\ t \in DOMAIN txs /\ now[t].link = d
        BY <1>1, <1>3 DEF Repayments
      <4>2. Suits(debts, txs, t, d) /\ SameButLink(txs[t], now[t])
        BY <1>3, <2>1, <3>1, <4>1
      <4> QED BY <4>2 DEF Suits, DebtsOf, SameButLink
    <3> QED BY <1>3, <3>1, <3>2 DEF FitsAt
  <2>2. CASE d \notin from
    <3>1. /\ d \in DOMAIN debts /\ d # target /\ d # NoRow /\ FitsAt(debts, txs, d, back)
      BY <1>1, <2>2 DEF Fit
    <3>2. Repayments(now, d) \subseteq Repayments(txs, d) /\ Repayments(now, d) \subseteq DOMAIN txs
      BY <1>1, <1>3, <3>1 DEF Repayments
    <3>3. \A t \in Repayments(now, d) : SameButLink(txs[t], now[t])
      BY <1>3, <3>2
    <3> QED BY <1>1, <1>3, <3>1, <3>2, <3>3, StaysFit DEF SameButLink
  <2> QED BY <2>1, <2>2
<1> QED BY <1>3, <1>4, <1>5, <1>6 DEF Relinked

-----------------------------------------------------------------------------
(* The operations on the rows.                                              *)

\* What an operation leaves of the rows: those there were are there, and what
\* is not set apart fits.
RowsGoOn(apart, back) ==
    /\ Numbered' /\ Typed(openingDebts', transactions')
    /\ DOMAIN openingDebts \subseteq DOMAIN openingDebts'
    /\ DOMAIN transactions \subseteq DOMAIN transactions'
    /\ Fit(openingDebts', transactions', apart, back)

\* Recording a debt, anew or again, leaves links that fit.
LEMMA PutOpeningDebtGoesOn ==
    ASSUME Numbered, Typed(openingDebts, transactions),
           NEW p \in People, NEW amount \in SignedAmounts, PutOpeningDebt(p, amount),
           NEW apart, NEW back, Fit(openingDebts, transactions, apart, back)
    PROVE  RowsGoOn(apart, back)
<1>1. /\ AreRows(transactions) /\ AreDebts(openingDebts)
      /\ Live(transactions) \subseteq DOMAIN transactions
      /\ Live(openingDebts) \subseteq DOMAIN openingDebts
      /\ NoRow \notin DOMAIN openingDebts
  BY TypedTables
<1>2. CASE /\ NextId \in RowIds /\ UNCHANGED transactions
           /\ openingDebts' = With(openingDebts, NextId,
                  [counterparty |-> p, amount |-> amount, deleted |-> FALSE])
  <2> DEFINE new == NextId
  <2>1. new \notin DOMAIN openingDebts /\ new \in RowIds /\ new # NoRow
    BY <1>2, NextIsFree, RowsAssumption DEF NoRow, RowIds
  <2>2. /\ DOMAIN openingDebts' = DOMAIN openingDebts \cup {new}
        /\ openingDebts'[new] = [counterparty |-> p, amount |-> amount, deleted |-> FALSE]
        /\ \A d \in DOMAIN openingDebts : openingDebts'[d] = openingDebts[d]
    BY <1>2, <2>1 DEF With
  <2>3. openingDebts'[new] \in OpeningDebt
    BY <2>2 DEF OpeningDebt
  <2>4. Numbered'
    BY <1>2, <2>2, DebtNumberIsAdded
  <2> HIDE DEF new
  <2>5. Typed(openingDebts', transactions')
    <3>1. \A d \in DOMAIN openingDebts' : openingDebts'[d] \in OpeningDebt
      BY <2>2, <2>3 DEF Typed
    <3> QED BY <1>2, <2>1, <2>2, <3>1 DEF Typed
  <2>6. ASSUME NEW d \in Live(openingDebts') \ apart
        PROVE  FitsAt(openingDebts', transactions, d, back)
    <3>1. CASE d = new
      <4>1. Repayments(transactions, d) = {}
        BY <1>1, <2>1, <3>1 DEF Typed, Repayments
      <4>2. Repaid(transactions, d) = 0
        BY <1>1, <4>1, TotalsAdd DEF Repaid
      <4>3. Size(openingDebts'[d]) \in Nat
        BY <2>2, <3>1, RowsAssumption DEF Size, SignedAmounts
      <4> QED BY <4>1, <4>2, <4>3 DEF FitsAt
    <3>2. CASE d # new
      <4>1. d \in Live(openingDebts) /\ openingDebts'[d] = openingDebts[d]
        BY <2>2, <3>2 DEF Live
      <4> QED BY <4>1 DEF Fit, FitsAt
    <3> QED BY <3>1, <3>2
  <2> QED BY <1>2, <2>2, <2>4, <2>5, <2>6 DEF RowsGoOn, Fit
<1>3. CASE \E d \in DebtsOf(openingDebts, p) :
              /\ openingDebts' = [openingDebts EXCEPT ![d].amount = amount]
              /\ transactions' = Replanned(openingDebts', transactions, {d}, d, d)
  <2>1. PICK d \in DebtsOf(openingDebts, p) :
          /\ openingDebts' = [openingDebts EXCEPT ![d].amount = amount]
          /\ transactions' = Replanned(openingDebts', transactions, {d}, d, d)
    BY <1>3
  <2>2. /\ d \in Live(openingDebts) /\ d \in DOMAIN openingDebts
        /\ DOMAIN openingDebts' = DOMAIN openingDebts
        /\ \A e \in DOMAIN openingDebts \ {d} : openingDebts'[e] = openingDebts[e]
        /\ openingDebts'[d] = [openingDebts[d] EXCEPT !.amount = amount]
    BY <1>1, <2>1 DEF DebtsOf
  <2>3. openingDebts'[d] \in OpeningDebt /\ openingDebts'[d].deleted = openingDebts[d].deleted
    <3>1. openingDebts[d] \in OpeningDebt
      BY <2>2 DEF Typed
    <3> QED BY <2>2, <3>1 DEF OpeningDebt
  <2>4. Typed(openingDebts', transactions)
    BY <2>2, <2>3 DEF Typed
  <2>5. Live(openingDebts') = Live(openingDebts)
    BY <2>2, <2>3 DEF Live
  <2>6. Fit(openingDebts', transactions, apart \cup {d}, back)
    <3> SUFFICES ASSUME NEW e \in Live(openingDebts') \ (apart \cup {d})
                 PROVE  FitsAt(openingDebts', transactions, e, back)
      BY DEF Fit
    <3>1. e \in Live(openingDebts) \ apart /\ openingDebts'[e] = openingDebts[e]
      BY <1>1, <2>2, <2>5
    <3> QED BY <3>1 DEF Fit, FitsAt
  <2>7. /\ {d} \subseteq DOMAIN openingDebts' /\ d \in {d} \cup {NoRow}
        /\ {d} \cap Live(openingDebts') \subseteq {d}
    BY <2>2
  <2>8. /\ DOMAIN transactions' = DOMAIN transactions
        /\ Typed(openingDebts', transactions') /\ Fit(openingDebts', transactions', apart, back)
    <3> DEFINE debts == openingDebts'
               now == transactions'
               from == {d}
               wider == apart \cup from
    <3>1. /\ now = Replanned(debts, transactions, from, d, d) /\ wider = apart \cup from
          /\ Typed(debts, transactions) /\ Fit(debts, transactions, wider, back)
          /\ from \subseteq DOMAIN debts /\ d \in from \cup {NoRow}
          /\ from \cap Live(debts) \subseteq {d}
      BY <2>1, <2>4, <2>6, <2>7
    <3> HIDE DEF debts, now, from, wider
    <3>2. Relinked(debts, transactions, now, apart, back)
      BY <3>1, ReplannedFits
    <3> QED BY <3>2 DEF Relinked, debts, now
  <2>9. Numbered'
    BY <2>2, <2>8, NumbersAreKept
  <2> QED BY <2>2, <2>8, <2>9 DEF RowsGoOn
<1> QED BY <1>2, <1>3 DEF PutOpeningDebt

\* The same row, as far as a debt it is linked to goes.
SameToItsDebt(r, s) ==
    /\ s.obligation = r.obligation /\ s.type = r.type
    /\ s.amount = r.amount /\ s.link = r.link

\* The linked rows are some of those there were, and at most one more, which
\* fits in what its debt had open.
LEMMA OneMoreLinkFits ==
    ASSUME NEW debts, NEW txs, Typed(debts, txs), NEW debts2, NEW now, Typed(debts2, now),
           Live(debts2) \subseteq Live(debts), \A d \in Live(debts2) : debts2[d] = debts[d],
           NEW apart, NEW back, Fit(debts, txs, apart, back), NEW u,
           \A t \in Live(now) \ {u} :
              now[t].link # NoRow => t \in Live(txs) /\ SameToItsDebt(txs[t], now[t]),
           \A d \in Live(debts) : u \in Repayments(now, d) =>
              /\ u \notin Repayments(txs, d) /\ Suits(debts, now, u, d)
              /\ now[u].amount <= StillOpen(debts, txs, d)
    PROVE  Fit(debts2, now, apart, back)
<1> SUFFICES ASSUME NEW d \in Live(debts2) \ apart PROVE FitsAt(debts2, now, d, back)
  BY DEF Fit
<1>1. /\ AreRows(txs) /\ AreRows(now) /\ AreDebts(debts) /\ d # NoRow
      /\ d \in Live(debts) /\ d \in DOMAIN debts /\ debts2[d] = debts[d]
  BY TypedTables
<1>2. FitsAt(debts, txs, d, back)
  BY <1>1 DEF Fit
<1>3. \A t \in Repayments(now, d) \ {u} :
         t \in Repayments(txs, d) /\ SameToItsDebt(txs[t], now[t])
  BY <1>1 DEF Repayments, SameToItsDebt
<1>4. CASE u \notin Repayments(now, d)
  BY <1>1, <1>2, <1>3, <1>4, StaysFit DEF SameToItsDebt
<1>5. CASE u \in Repayments(now, d)
  <2>1. /\ u \notin Repayments(txs, d) /\ now[u].amount <= StillOpen(debts, txs, d)
        /\ now[u].obligation = debts[d].counterparty /\ Reduces(debts[d], now[u].type)
    BY <1>1, <1>5 DEF Suits, DebtsOf
  <2>2. Repayments(now, d) \subseteq Repayments(txs, d) \cup {u}
    BY <1>3
  <2>3. FitsAt(debts, now, d, back)
    BY <1>1, <1>2, <1>3, <1>5, <2>1, <2>2, OneMoreFitsAt DEF SameToItsDebt
  <2> QED BY <1>1, <2>3 DEF FitsAt
<1> QED BY <1>4, <1>5

\* None more.
LEMMA RewritingFits ==
    ASSUME NEW debts, NEW txs, Typed(debts, txs), NEW debts2, NEW now, Typed(debts2, now),
           Live(debts2) \subseteq Live(debts), \A d \in Live(debts2) : debts2[d] = debts[d],
           NEW apart, NEW back, Fit(debts, txs, apart, back),
           \A t \in Live(now) :
              now[t].link # NoRow => t \in Live(txs) /\ SameToItsDebt(txs[t], now[t])
    PROVE  Fit(debts2, now, apart, back)
<1>1. \A d : NoRow \notin Repayments(now, d)
  BY TypedTables DEF Repayments
<1> QED BY <1>1, OneMoreLinkFits

\* So does deleting one with its repayments,
LEMMA DeleteOpeningDebtGoesOn ==
    ASSUME Numbered, Typed(openingDebts, transactions), NEW d, RemoveOpeningDebt(d),
           NEW apart, NEW back, Fit(openingDebts, transactions, apart, back)
    PROVE  RowsGoOn(apart, back)
<1> DEFINE debts == openingDebts'
           now == transactions'
<1>1. /\ d \in DOMAIN openingDebts /\ debts = [openingDebts EXCEPT ![d].deleted = TRUE]
      /\ \E gone, pairs : now =
            [t \in DOMAIN transactions |->
               IF t \in gone THEN [transactions[t] EXCEPT !.deleted = TRUE]
               ELSE IF t \in Live(transactions) /\ transactions[t].pair \in pairs
               THEN [transactions[t] EXCEPT !.pair = NoRow]
               ELSE transactions[t]]
  BY DEF RemoveOpeningDebt, Live
<1>2. PICK gone, pairs : now =
            [t \in DOMAIN transactions |->
               IF t \in gone THEN [transactions[t] EXCEPT !.deleted = TRUE]
               ELSE IF t \in Live(transactions) /\ transactions[t].pair \in pairs
               THEN [transactions[t] EXCEPT !.pair = NoRow]
               ELSE transactions[t]]
  BY <1>1
<1>3. /\ DOMAIN debts = DOMAIN openingDebts /\ DOMAIN now = DOMAIN transactions
      /\ \A e \in DOMAIN openingDebts : debts[e] \in OpeningDebt
      /\ \A e \in Live(debts) : e \in Live(openingDebts) /\ debts[e] = openingDebts[e]
  BY <1>1, <1>2 DEF Typed, OpeningDebt, Live
<1> HIDE DEF now, debts
<1>4. ASSUME NEW t \in DOMAIN transactions
      PROVE  /\ now[t] \in Transaction /\ SameToItsDebt(transactions[t], now[t])
             /\ ~now[t].deleted => ~transactions[t].deleted
  <2>1. transactions[t] \in Transaction
    BY DEF Typed
  <2>2. \/ now[t] = [transactions[t] EXCEPT !.deleted = TRUE]
        \/ now[t] = [transactions[t] EXCEPT !.pair = NoRow]
        \/ now[t] = transactions[t]
    BY <1>2
  <2>3. CASE now[t] = [transactions[t] EXCEPT !.deleted = TRUE]
    BY <2>1, <2>3 DEF Transaction, SameToItsDebt
  <2>4. CASE now[t] = [transactions[t] EXCEPT !.pair = NoRow]
    BY <2>1, <2>4 DEF Transaction, SameToItsDebt
  <2>5. CASE now[t] = transactions[t]
    BY <2>1, <2>5 DEF SameToItsDebt
  <2> QED BY <2>2, <2>3, <2>4, <2>5
<1>5. Typed(debts, now)
  BY <1>3, <1>4 DEF Typed, SameToItsDebt
<1>6. \A t \in Live(now) : t \in Live(transactions) /\ SameToItsDebt(transactions[t], now[t])
  BY <1>3, <1>4 DEF Live
<1>7. Fit(debts, now, apart, back)
  BY <1>3, <1>5, <1>6, RewritingFits
<1>8. Numbered'
  BY <1>3, NumbersAreKept DEF debts, now
<1> QED BY <1>3, <1>5, <1>7, <1>8 DEF RowsGoOn, debts, now

\* deleting a transaction,
LEMMA DeleteTransactionGoesOn ==
    ASSUME Numbered, Typed(openingDebts, transactions), NEW t, RemoveTransaction(t),
           NEW apart, NEW back, Fit(openingDebts, transactions, apart, back)
    PROVE  RowsGoOn(apart, back)
<1> DEFINE now == transactions'
<1>1. /\ UNCHANGED openingDebts /\ DOMAIN now = DOMAIN transactions
      /\ \A u \in DOMAIN transactions :
            now[u] \in {transactions[u], [transactions[u] EXCEPT !.deleted = TRUE]}
  BY DEF RemoveTransaction
<1> HIDE DEF now
<1>2. ASSUME NEW u \in DOMAIN transactions
      PROVE  /\ now[u] \in Transaction /\ SameToItsDebt(transactions[u], now[u])
             /\ ~now[u].deleted => ~transactions[u].deleted
  <2>1. transactions[u] \in Transaction
    BY DEF Typed
  <2>2. CASE now[u] = [transactions[u] EXCEPT !.deleted = TRUE]
    BY <2>1, <2>2 DEF Transaction, SameToItsDebt
  <2>3. CASE now[u] = transactions[u]
    BY <2>1, <2>3 DEF SameToItsDebt
  <2> QED BY <1>1, <2>2, <2>3
<1>3. Typed(openingDebts, now)
  BY <1>1, <1>2 DEF Typed, SameToItsDebt
<1>4. \A u \in Live(now) : u \in Live(transactions) /\ SameToItsDebt(transactions[u], now[u])
  BY <1>1, <1>2 DEF Live
<1>5. Fit(openingDebts, now, apart, back)
  BY <1>3, <1>4, RewritingFits
<1>6. Numbered'
  BY <1>1, NumbersAreKept DEF now
<1> QED BY <1>1, <1>3, <1>5, <1>6 DEF RowsGoOn, now

\* capturing one, which links nothing,
LEMMA CreateTransactionGoesOn ==
    ASSUME Numbered, Typed(openingDebts, transactions), NEW c \in Captures, CreateTransaction(c),
           NEW apart, NEW back, Fit(openingDebts, transactions, apart, back)
    PROVE  RowsGoOn(apart, back)
<1> DEFINE now == transactions'
           new == NextId
<1>1. new \in RowIds /\ new \notin DOMAIN transactions /\ UNCHANGED openingDebts
  BY NextIsFree DEF CreateTransaction
<1>2. /\ DOMAIN now = DOMAIN transactions \cup {new}
      /\ now[new] = [counterparty |-> c.counterparty, obligation |-> c.obligation,
                     type |-> c.type, amount |-> c.amount, settles |-> FALSE, link |-> NoRow,
                     pair |-> NoRow, deleted |-> FALSE]
      /\ \A t \in DOMAIN transactions : now[t] = transactions[t]
  BY <1>1 DEF CreateTransaction, With
<1>3. now[new] \in Transaction /\ now[new].link = NoRow
  <2>1. c \in [counterparty : Parties, obligation : Parties, type : Types, amount : Amounts]
    BY ConstantsAssumption
  <2> QED BY <1>2, <2>1 DEF Transaction
<1>4. Numbered'
  <2>1. NextId..(NextId + 1 - 1) = {NextId} /\ NextId + 1 - 1 \in RowIds
    BY <1>1, NextIsFree
  <2> QED BY <1>1, <1>2, <2>1, NumbersAreAdded
<1> HIDE DEF now, new
<1>5. Typed(openingDebts, now)
  <2>1. \A t \in DOMAIN now :
           now[t] \in Transaction /\ now[t].link \in DOMAIN openingDebts \cup {NoRow}
    BY <1>2, <1>3 DEF Typed
  <2> QED BY <1>1, <1>2, <2>1 DEF Typed
<1>6. \A t \in Live(now) :
         now[t].link # NoRow => t \in Live(transactions) /\ SameToItsDebt(transactions[t], now[t])
  BY <1>2, <1>3 DEF Live, SameToItsDebt
<1>7. Fit(openingDebts, now, apart, back)
  BY <1>5, <1>6, RewritingFits
<1> QED BY <1>1, <1>2, <1>4, <1>5, <1>7 DEF RowsGoOn, now

\* editing one, whose link follows its person and amount,
LEMMA UpdateTransactionGoesOn ==
    ASSUME Numbered, Typed(openingDebts, transactions), NEW t, NEW e \in Edits,
           UpdateTransaction(t, e),
           NEW apart, NEW back, Fit(openingDebts, transactions, apart, back)
    PROVE  RowsGoOn(apart, back)
<1> DEFINE now == transactions'
           row == transactions[t]
           others == [transactions EXCEPT ![t].link = NoRow]
           link == EditedLink(t, e)
<1>1. /\ t \in DOMAIN transactions /\ t \in Live(transactions) /\ UNCHANGED openingDebts
      /\ now = [transactions EXCEPT ![t] =
           [row EXCEPT !.counterparty = e.counterparty, !.obligation = e.obligation,
                       !.amount = e.amount, !.link = link]]
  BY DEF UpdateTransaction, Live
<1>2. /\ DOMAIN now = DOMAIN transactions
      /\ now[t] = [row EXCEPT !.counterparty = e.counterparty, !.obligation = e.obligation,
                              !.amount = e.amount, !.link = link]
      /\ \A u \in DOMAIN transactions \ {t} : now[u] = transactions[u]
  BY <1>1
<1>3. row \in Transaction /\ row.link \in DOMAIN openingDebts \cup {NoRow}
      /\ e \in [counterparty : Parties, obligation : Parties, amount : Amounts]
  BY <1>1, ConstantsAssumption DEF Typed
<1>4. \/ link = row.link
         /\ (row.link = NoRow \/ (e.obligation = row.obligation /\ e.amount = row.amount))
      \/ link = NoRow
      \/ /\ link \in OpeningLink(openingDebts, others, e.obligation, row.type)
         /\ e.amount <= StillOpen(openingDebts, others, link)
  BY DEF EditedLink
<1> HIDE DEF link, now
<1>5. link \in DOMAIN openingDebts \cup {NoRow}
  BY <1>3, <1>4 DEF OpeningLink, DebtsOf, Live
<1>6. /\ now[t] \in Transaction /\ now[t].link = link /\ now[t].obligation = e.obligation
      /\ now[t].amount = e.amount /\ now[t].type = row.type
  <2>1. link \in RowIds \cup {NoRow}
    BY <1>5 DEF Typed
  <2> QED BY <1>2, <1>3, <2>1 DEF Transaction
<1>7. Typed(openingDebts, now)
  BY <1>2, <1>5, <1>6 DEF Typed
<1>8. Fit(openingDebts, now, apart, back)
  <2>1. CASE link = row.link
             /\ (row.link = NoRow \/ (e.obligation = row.obligation /\ e.amount = row.amount))
    <3>1. now[t].link # NoRow => SameToItsDebt(row, now[t])
      BY <1>6, <2>1 DEF SameToItsDebt
    <3>2. \A u \in Live(now) :
             now[u].link # NoRow => u \in Live(transactions) /\ SameToItsDebt(transactions[u], now[u])
      BY <1>1, <1>2, <3>1 DEF Live, SameToItsDebt
    <3> QED BY <1>7, <3>2, RewritingFits
  <2>2. CASE link = NoRow
    <3>1. \A u \in Live(now) :
             now[u].link # NoRow => u \in Live(transactions) /\ SameToItsDebt(transactions[u], now[u])
      BY <1>1, <1>2, <1>6, <2>2 DEF Live, SameToItsDebt
    <3> QED BY <1>7, <3>1, RewritingFits
  <2>3. CASE /\ link \in OpeningLink(openingDebts, others, e.obligation, row.type)
             /\ e.amount <= StillOpen(openingDebts, others, link)
    <3>1. /\ DOMAIN others = DOMAIN transactions /\ others[t] = [row EXCEPT !.link = NoRow]
          /\ \A u \in DOMAIN transactions \ {t} : others[u] = transactions[u]
      BY <1>1
    <3>2. others[t] \in Transaction /\ others[t].link = NoRow /\ others[t].deleted = row.deleted
      <4> HIDE DEF others
      <4> QED BY <1>3, <3>1 DEF Transaction
    <3> HIDE DEF others
    <3>3. Typed(openingDebts, others)
      BY <3>1, <3>2 DEF Typed
    <3>4. \A u \in Live(others) :
             others[u].link # NoRow =>
               u \in Live(transactions) /\ SameToItsDebt(transactions[u], others[u])
      BY <3>1, <3>2 DEF Live, SameToItsDebt
    <3>5. Fit(openingDebts, others, apart, back)
      BY <3>3, <3>4, RewritingFits
    <3>6. \A u \in Live(now) \ {t} :
             now[u].link # NoRow => u \in Live(others) /\ SameToItsDebt(others[u], now[u])
      BY <1>1, <1>2, <3>1 DEF Live, SameToItsDebt
    <3>7. ASSUME NEW d \in Live(openingDebts), t \in Repayments(now, d)
          PROVE  /\ t \notin Repayments(others, d) /\ Suits(openingDebts, now, t, d)
                 /\ now[t].amount <= StillOpen(openingDebts, others, d)
      <4>1. d = link /\ d # NoRow
        BY <1>6, <3>7, TypedTables DEF Repayments
      <4> QED BY <1>6, <2>3, <3>2, <4>1 DEF Repayments, Suits, OpeningLink
    <3> QED BY <1>7, <3>3, <3>5, <3>6, <3>7, OneMoreLinkFits
  <2> QED BY <1>4, <2>1, <2>2, <2>3
<1>9. Numbered'
  BY <1>1, <1>2, NumbersAreKept DEF now
<1> QED BY <1>1, <1>2, <1>7, <1>8, <1>9 DEF RowsGoOn, now

\* What a payment may be written as: parts within the ceiling, the first of
\* which pays down what the debt has open.
LEMMA PartsFit ==
    ASSUME Typed(openingDebts, transactions), NEW amount \in Amounts, NEW p, NEW type,
           NEW link, link = OpeningLink(openingDebts, transactions, p, type),
           NEW parts, parts = SplitParts(amount, link)
    PROVE  /\ Len(parts) \in {1, 2}
           /\ \A i \in 1..Len(parts) : parts[i].amount \in Amounts
           /\ Len(parts) = 2 => parts[2].link = NoRow
           /\ \/ parts[1].link = NoRow
              \/ /\ parts[1].link \in link
                 /\ parts[1].amount <= StillOpen(openingDebts, transactions, parts[1].link)
<1>1. CASE link = {}
  <2>1. parts = <<[amount |-> amount, link |-> NoRow]>>
    BY <1>1 DEF SplitParts
  <2> QED BY <2>1
<1>2. CASE link # {}
  <2> DEFINE d == CHOOSE d \in link : TRUE
             open == StillOpen(openingDebts, transactions, d)
  <2>1. d \in link
    BY <1>2
  <2>2. /\ parts = IF amount <= open THEN <<[amount |-> amount, link |-> d]>>
                   ELSE <<[amount |-> open, link |-> d],
                          [amount |-> amount - open, link |-> NoRow]>>
    BY <1>2 DEF SplitParts
  <2> HIDE DEF d
  <2>3. d \in Live(openingDebts) /\ d \in DOMAIN openingDebts /\ open > 0
    BY <2>1 DEF OpeningLink, DebtsOf, Live
  <2>4. open \in Int /\ open <= Ceiling
    <3>1. Size(openingDebts[d]) \in Nat /\ Size(openingDebts[d]) <= Ceiling
      <4>1. openingDebts[d].amount \in SignedAmounts
        BY <2>3 DEF Typed, OpeningDebt
      <4> QED BY <4>1, RowsAssumption DEF Size, SignedAmounts
    <3>2. Repayments(transactions, d) \in SUBSET DOMAIN transactions
      BY DEF Repayments, Live
    <3>3. Repaid(transactions, d) \in Nat
      BY <3>2, TypedTables, TotalsAdd DEF Repaid
    <3> QED BY <3>1, <3>3, RowsAssumption DEF StillOpen
  <2> HIDE DEF open
  <2>5. CASE amount <= open
    <3>1. parts = <<[amount |-> amount, link |-> d]>>
      BY <2>2, <2>5
    <3> QED BY <2>1, <2>5, <3>1 DEF open
  <2>6. CASE ~(amount <= open)
    <3>1. parts = <<[amount |-> open, link |-> d], [amount |-> amount - open, link |-> NoRow]>>
      BY <2>2, <2>6
    <3>2. open \in Amounts /\ amount - open \in Amounts /\ open <= open
      BY <2>3, <2>4, <2>6, RowsAssumption DEF Amounts
    <3>3. /\ Len(parts) = 2 /\ parts[1].amount = open /\ parts[1].link = d
          /\ parts[2].amount = amount - open /\ parts[2].link = NoRow
      BY <3>1
    <3>4. \A i \in 1..2 : i = 1 \/ i = 2
      OBVIOUS
    <3>5. open <= StillOpen(openingDebts, transactions, d)
      BY <3>2 DEF open
    <3> QED BY <2>1, <3>2, <3>3, <3>4, <3>5
  <2> QED BY <2>5, <2>6
<1> QED BY <1>1, <1>2

\* and settling, in one row or two.
LEMMA SettleDebtGoesOn ==
    ASSUME Numbered, Typed(openingDebts, transactions), NamesKnown,
           NEW p, NEW type \in Types, NEW amount \in Amounts, SettleDebt(p, type, amount),
           NEW apart, NEW back, Fit(openingDebts, transactions, apart, back)
    PROVE  RowsGoOn(apart, back)
<1> DEFINE now == transactions'
           first == NextId
           link == OpeningLink(openingDebts, transactions, p, type)
           parts == SplitParts(amount, link)
           pair == IF Len(parts) > 1 THEN first ELSE NoRow
           Row(part) == [counterparty |-> p, obligation |-> p, type |-> type,
                         amount |-> part.amount, settles |-> TRUE, link |-> part.link,
                         pair |-> pair, deleted |-> FALSE]
           ids == first..(first + Len(parts) - 1)
<1>1. /\ Exists(p) /\ ids \subseteq RowIds /\ UNCHANGED openingDebts
      /\ now = [t \in DOMAIN transactions \cup ids |->
                  IF t \in ids THEN Row(parts[t - first + 1]) ELSE transactions[t]]
  BY DEF SettleDebt
<1>2. /\ Len(parts) \in {1, 2}
      /\ \A i \in 1..Len(parts) : parts[i].amount \in Amounts
      /\ Len(parts) = 2 => parts[2].link = NoRow
      /\ \/ parts[1].link = NoRow
         \/ /\ parts[1].link \in link
            /\ parts[1].amount <= StillOpen(openingDebts, transactions, parts[1].link)
  <2> HIDE DEF link
  <2> QED BY PartsFit DEF link
<1>3. p \in Parties
  BY <1>1 DEF NamesKnown, Exists, Parties
<1>4. first \in Nat \ {0} /\ \A n \in Nat : n >= first => n \notin DOMAIN transactions
  BY NextIsFree
<1>5. link \subseteq DOMAIN openingDebts
  BY DEF OpeningLink, DebtsOf, Live
<1> HIDE DEF parts, now, first, link
<1>6. first \in ids /\ first + Len(parts) - 1 \in ids /\ first \in RowIds
  BY <1>1, <1>2, <1>4
<1>7. /\ DOMAIN now = DOMAIN transactions \cup ids
      /\ \A t \in ids : t - first + 1 \in 1..Len(parts) /\ now[t] = Row(parts[t - first + 1])
      /\ \A t \in DOMAIN transactions : t \notin ids /\ now[t] = transactions[t]
  <2>1. \A t \in ids : t - first + 1 \in 1..Len(parts) /\ t \in Nat /\ t >= first
    BY <1>2, <1>4
  <2>2. \A t \in DOMAIN transactions : t \notin ids
    BY <1>4, <2>1
  <2> HIDE DEF ids, Row
  <2> QED BY <1>1, <2>1, <2>2
<1>8. \A i \in 1..Len(parts) : parts[i].link \in DOMAIN openingDebts \cup {NoRow}
  <2>1. \A i \in 1..Len(parts) : i = 1 \/ (i = 2 /\ Len(parts) = 2)
    BY <1>2
  <2> QED BY <1>2, <1>5, <2>1
<1>9. ASSUME NEW t \in ids
      PROVE  /\ now[t] \in Transaction /\ now[t].link \in DOMAIN openingDebts \cup {NoRow}
             /\ t # first => now[t].link = NoRow
  <2> DEFINE part == parts[t - first + 1]
  <2>1. /\ part.amount \in Amounts /\ part.link \in DOMAIN openingDebts \cup {NoRow}
        /\ t # first => part.link = NoRow
    BY <1>2, <1>4, <1>7, <1>8
  <2>2. now[t] = Row(part) /\ pair \in RowIds \cup {NoRow} /\ part.link \in RowIds \cup {NoRow}
    BY <1>6, <1>7, <2>1 DEF Typed
  <2> HIDE DEF part, pair
  <2> QED BY <1>3, <2>1, <2>2 DEF Transaction
<1>10. Typed(openingDebts, now)
  BY <1>1, <1>7, <1>9 DEF Typed
<1>11. Fit(openingDebts, now, apart, back)
  <2>1. \A t \in Live(now) \ {first} :
           now[t].link # NoRow =>
             t \in Live(transactions) /\ SameToItsDebt(transactions[t], now[t])
    BY <1>7, <1>9 DEF Live, SameToItsDebt
  <2>2. ASSUME NEW d \in Live(openingDebts), first \in Repayments(now, d)
        PROVE  /\ first \notin Repayments(transactions, d) /\ Suits(openingDebts, now, first, d)
               /\ now[first].amount <= StillOpen(openingDebts, transactions, d)
    <3>1. now[first] = Row(parts[1])
      <4>1. first - first + 1 = 1
        BY <1>4
      <4> QED BY <1>6, <1>7, <4>1
    <3>2. parts[1].link = d /\ d # NoRow /\ now[first].amount = parts[1].amount
          /\ now[first].obligation = p /\ now[first].type = type
      BY <2>2, <3>1, TypedTables DEF Repayments
    <3>3. first \notin DOMAIN transactions
      BY <1>4
    <3> QED BY <1>2, <3>2, <3>3 DEF Repayments, Suits, OpeningLink, Live, link
  <2> QED BY <1>10, <2>1, <2>2, OneMoreLinkFits
<1>12. Numbered'
  <2>1. first + Len(parts) - 1 \in RowIds
    BY <1>1, <1>6
  <2> QED BY <1>1, <1>2, <1>7, <2>1, NumbersAreAdded DEF first, now
<1> QED BY <1>1, <1>7, <1>10, <1>11, <1>12 DEF RowsGoOn, now

-----------------------------------------------------------------------------
(* What a merge makes of the rows.                                          *)

Party(p, from, to) == IF p = from THEN to ELSE p

\* The rows `now` are those of `txs`, of which the named ones have `to` for `from`.
NamesAnother(txs, now, named, from, to) ==
    /\ DOMAIN now = DOMAIN txs /\ Live(now) = Live(txs)
    /\ \A t \in DOMAIN txs :
         /\ now[t].type = txs[t].type /\ now[t].amount = txs[t].amount
         /\ now[t].settles = txs[t].settles /\ now[t].link = txs[t].link
         /\ now[t].pair = txs[t].pair /\ now[t].deleted = txs[t].deleted
         /\ IF t \in named
            THEN /\ now[t].obligation = Party(txs[t].obligation, from, to)
                 /\ now[t].counterparty = Party(txs[t].counterparty, from, to)
            ELSE /\ now[t].obligation = txs[t].obligation
                 /\ now[t].counterparty = txs[t].counterparty

\* Repointing is what NamesAnother says, and keeps the types.
LEMMA RepointedRows ==
    ASSUME NEW debts, NEW txs, Typed(debts, txs), NEW named, NEW from, NEW to \in People,
           NEW now, now = Repointed(txs, named, from, to)
    PROVE  Typed(debts, now) /\ NamesAnother(txs, now, named, from, to)
<1>1. /\ DOMAIN now = DOMAIN txs
      /\ \A t \in DOMAIN txs : t \notin named => now[t] = txs[t]
      /\ \A t \in DOMAIN txs : t \in named =>
           now[t] = [txs[t] EXCEPT !.counterparty = Party(@, from, to),
                                   !.obligation = Party(@, from, to)]
  BY DEF Repointed, Party
<1>2. ASSUME NEW t \in DOMAIN txs
      PROVE  /\ now[t] \in Transaction
             /\ now[t].type = txs[t].type /\ now[t].amount = txs[t].amount
             /\ now[t].settles = txs[t].settles /\ now[t].link = txs[t].link
             /\ now[t].pair = txs[t].pair /\ now[t].deleted = txs[t].deleted
             /\ IF t \in named
                THEN /\ now[t].obligation = Party(txs[t].obligation, from, to)
                     /\ now[t].counterparty = Party(txs[t].counterparty, from, to)
                ELSE /\ now[t].obligation = txs[t].obligation
                     /\ now[t].counterparty = txs[t].counterparty
  <2>1. txs[t] \in Transaction
    BY DEF Typed
  <2>2. /\ Party(txs[t].obligation, from, to) \in Parties
        /\ Party(txs[t].counterparty, from, to) \in Parties
    BY <2>1 DEF Transaction, Party, Parties
  <2>3. CASE t \in named
    <3> DEFINE o == Party(txs[t].obligation, from, to)
               c == Party(txs[t].counterparty, from, to)
    <3>1. now[t] = [txs[t] EXCEPT !.counterparty = c, !.obligation = o]
      BY <1>1, <2>3
    <3>2. o \in Parties /\ c \in Parties
      BY <2>2
    <3> HIDE DEF o, c
    <3>3. now[t] \in Transaction
      BY <2>1, <3>1, <3>2 DEF Transaction
    <3>4. /\ now[t].type = txs[t].type /\ now[t].amount = txs[t].amount
          /\ now[t].settles = txs[t].settles /\ now[t].link = txs[t].link
          /\ now[t].pair = txs[t].pair /\ now[t].deleted = txs[t].deleted
          /\ now[t].obligation = o /\ now[t].counterparty = c
      BY <2>1, <3>1 DEF Transaction
    <3> QED BY <2>3, <3>3, <3>4 DEF o, c
  <2>4. CASE t \notin named
    BY <1>1, <2>1, <2>4
  <2> QED BY <2>3, <2>4
<1>3. Typed(debts, now)
  BY <1>1, <1>2 DEF Typed
<1>4. Live(now) = Live(txs)
  BY <1>1, <1>2 DEF Live
<1> QED BY <1>1, <1>2, <1>3, <1>4 DEF NamesAnother

\* A merge that hands the loser's debts over, the winner having none.
HandsOver(debts, txs, winner, loser, named, merged) ==
    /\ DebtsOf(debts, loser) = {} \/ DebtsOf(debts, winner) = {}
    /\ merged.transactions = Repointed(txs, named, loser, winner)
    /\ DOMAIN merged.debts = DOMAIN debts
    /\ \A d \in DOMAIN debts :
         merged.debts[d] = IF d \in DebtsOf(debts, loser)
                           THEN [debts[d] EXCEPT !.counterparty = winner] ELSE debts[d]
    /\ merged.moved = {[id |-> d, into |-> NoRow, before |-> debts[d].amount,
                        after |-> [amount |-> debts[d].amount, deleted |-> FALSE],
                        links |-> {}] : d \in DebtsOf(debts, loser)}

SumOf(debts, x, y) == debts[x].amount + debts[y].amount
Changed(txs, now) == {t \in DOMAIN txs : now[t].link # txs[t].link}

\* A merge that sums the loser's debt x into the winner's y.
SumsUp(debts, txs, winner, loser, named, merged, x, y) ==
    LET sum == SumOf(debts, x, y)
        repointed == Repointed(txs, named, loser, winner)
        now == merged.transactions
    IN /\ DebtsOf(debts, loser) = {x} /\ y \in DebtsOf(debts, winner) /\ x # y
       /\ DOMAIN merged.debts = DOMAIN debts
       /\ \A d \in DOMAIN debts \ {x, y} : merged.debts[d] = debts[d]
       /\ merged.debts[x] = [debts[x] EXCEPT !.deleted = TRUE]
       /\ merged.debts[y] = [debts[y] EXCEPT !.amount = IF sum = 0 THEN @ ELSE sum,
                                             !.deleted = (sum = 0)]
       /\ \E since : now = Replanned(merged.debts, repointed, {x, y},
                                     IF sum = 0 THEN NoRow ELSE y, since)
       /\ merged.moved =
            {[id |-> x, into |-> y, before |-> debts[y].amount,
              after |-> [amount |-> merged.debts[y].amount, deleted |-> (sum = 0)],
              links |-> {[id |-> t, was |-> repointed[t].link, now |-> now[t].link] :
                           t \in Changed(repointed, now)}]}

\* A merge does the one or the other.
LEMMA MergesHandOverOrSumUp ==
    ASSUME NEW debts, NEW txs, Typed(debts, txs), NEW winner, NEW loser, winner # loser,
           NEW named, NEW merged, merged = MergedRows(debts, txs, winner, loser, named),
           LeavesNothing(merged, loser)
    PROVE  \/ HandsOver(debts, txs, winner, loser, named, merged)
           \/ \E x, y : SumsUp(debts, txs, winner, loser, named, merged, x, y)
<1> DEFINE repointed == Repointed(txs, named, loser, winner)
           of == DebtsOf(debts, loser)
           into == DebtsOf(debts, winner)
<1>1. CASE of = {} \/ into = {}
  <2>1. merged = [debts |-> [d \in DOMAIN debts |-> IF d \in of
                          THEN [debts[d] EXCEPT !.counterparty = winner] ELSE debts[d]],
                  transactions |-> repointed,
                  moved |-> {[id |-> d, into |-> NoRow, before |-> debts[d].amount,
                              after |-> [amount |-> debts[d].amount, deleted |-> FALSE],
                              links |-> {}] : d \in of}]
    BY <1>1 DEF MergedRows
  <2> HIDE DEF repointed, of, into
  <2>2. /\ merged.debts = [d \in DOMAIN debts |-> IF d \in of
                          THEN [debts[d] EXCEPT !.counterparty = winner] ELSE debts[d]]
        /\ merged.transactions = repointed
        /\ merged.moved = {[id |-> d, into |-> NoRow, before |-> debts[d].amount,
                            after |-> [amount |-> debts[d].amount, deleted |-> FALSE],
                            links |-> {}] : d \in of}
    BY <2>1
  <2> QED BY <1>1, <2>2 DEF HandsOver, repointed, of, into
<1>2. CASE of # {} /\ into # {}
  <2> DEFINE x == CHOOSE x \in of : TRUE
             y == CHOOSE y \in into : TRUE
             sum == SumOf(debts, x, y)
             since == IF x < y THEN x ELSE y
             target == IF sum = 0 THEN NoRow ELSE y
  <2>1. x \in of /\ y \in into
    BY <1>2
  <2>2. merged = Summed(debts, repointed, x, y)
    BY <1>2 DEF MergedRows
  <2> HIDE DEF x, y
  <2>3. x \in DOMAIN debts /\ y \in DOMAIN debts /\ x # y
        /\ debts[x].counterparty = loser /\ debts[y].counterparty = winner
    BY <2>1 DEF DebtsOf, Live
  <2> DEFINE summed == [debts EXCEPT ![x].deleted = TRUE,
                                     ![y].amount = IF sum = 0 THEN @ ELSE sum,
                                     ![y].deleted = (sum = 0)]
             relinked == Replanned(summed, repointed, {x, y}, target, since)
             moved == {[id |-> x, into |-> y, before |-> debts[y].amount,
                        after |-> [amount |-> summed[y].amount, deleted |-> (sum = 0)],
                        links |-> {[id |-> t, was |-> repointed[t].link,
                                    now |-> relinked[t].link] :
                                     t \in Changed(repointed, relinked)}]}
  <2>4. merged = [debts |-> summed, transactions |-> relinked, moved |-> moved]
    BY <2>2 DEF Summed, SumOf, Changed
  <2>5. merged.debts = summed /\ merged.transactions = relinked /\ merged.moved = moved
    <3> HIDE DEF summed, relinked, moved
    <3> QED BY <2>4
  <2>6. \E s : merged.transactions = Replanned(merged.debts, repointed, {x, y}, target, s)
    <3> HIDE DEF summed, since, target, repointed
    <3> QED BY <2>5
  <2>7. /\ DOMAIN merged.debts = DOMAIN debts
        /\ \A d \in DOMAIN debts \ {x, y} : merged.debts[d] = debts[d]
        /\ merged.debts[x] = [debts[x] EXCEPT !.deleted = TRUE]
        /\ merged.debts[y] = [debts[y] EXCEPT !.amount = IF sum = 0 THEN @ ELSE sum,
                                              !.deleted = (sum = 0)]
    <3> HIDE DEF sum
    <3>1. merged.debts = summed
      BY <2>5
    <3> QED BY <2>3, <3>1
  <2>8. of = {x}
    <3>1. ASSUME NEW d \in of, d # x PROVE FALSE
      <4>1. /\ d \in DOMAIN debts /\ d # y /\ ~debts[d].deleted
            /\ debts[d].counterparty = loser
        BY <2>3, <3>1 DEF DebtsOf, Live
      <4>2. d \in DebtsOf(merged.debts, loser)
        BY <2>7, <3>1, <4>1 DEF DebtsOf, Live
      <4> QED BY <4>2 DEF LeavesNothing
    <3> QED BY <2>1, <3>1
  <2>9. merged.moved =
          {[id |-> x, into |-> y, before |-> debts[y].amount,
            after |-> [amount |-> merged.debts[y].amount, deleted |-> (sum = 0)],
            links |-> {[id |-> t, was |-> repointed[t].link,
                        now |-> merged.transactions[t].link] :
                         t \in Changed(repointed, merged.transactions)}]}
    <3> HIDE DEF summed, relinked, sum, repointed
    <3> QED BY <2>5
  <2> HIDE DEF summed, relinked, moved
  <2>10. SumsUp(debts, txs, winner, loser, named, merged, x, y)
    BY <2>1, <2>3, <2>6, <2>7, <2>8, <2>9 DEF SumsUp
  <2> QED BY <2>10
<1> QED BY <1>1, <1>2

\* What a merge makes of the rows: tables with no row more or less, whose debts fit.
MergesInto(debts, txs, merged, apart, back) ==
    /\ DOMAIN merged.debts = DOMAIN debts /\ DOMAIN merged.transactions = DOMAIN txs
    /\ Typed(merged.debts, merged.transactions)
    /\ Fit(merged.debts, merged.transactions, apart, back)
    /\ \A e \in merged.moved : EntryTyped(e, debts)

\* A merge that hands debts over leaves links that fit.
LEMMA HandedOverRows ==
    ASSUME NEW debts, NEW txs, Typed(debts, txs), NEW winner \in People, NEW loser \in People,
           winner # loser, NEW named, NEW merged,
           HandsOver(debts, txs, winner, loser, named, merged), LeavesNothing(merged, loser),
           NEW apart, NEW back, Fit(debts, txs, apart, back)
    PROVE  MergesInto(debts, txs, merged, apart, back)
<1> DEFINE now == merged.transactions
           debts2 == merged.debts
           of == DebtsOf(debts, loser)
<1>1. /\ AreRows(txs) /\ AreDebts(debts) /\ Live(txs) \subseteq DOMAIN txs
      /\ Live(debts) \subseteq DOMAIN debts
  BY TypedTables
<1>2. now = Repointed(txs, named, loser, winner)
  BY DEF HandsOver
<1>3. /\ DOMAIN debts2 = DOMAIN debts
      /\ \A d \in DOMAIN debts :
           debts2[d] = IF d \in of THEN [debts[d] EXCEPT !.counterparty = winner] ELSE debts[d]
  BY DEF HandsOver
<1>4. \A t \in Live(now) : ~Involves(now[t], loser)
  BY DEF LeavesNothing
<1> HIDE DEF now, debts2
<1>5. Typed(debts, now) /\ NamesAnother(txs, now, named, loser, winner)
  BY <1>2, RepointedRows
<1>6. ASSUME NEW d \in DOMAIN debts
      PROVE  /\ debts2[d] \in OpeningDebt /\ debts2[d].amount = debts[d].amount
             /\ debts2[d].deleted = debts[d].deleted
             /\ debts2[d].counterparty = IF d \in of THEN winner ELSE debts[d].counterparty
  <2>1. debts[d] \in OpeningDebt
    BY DEF Typed
  <2> HIDE DEF of
  <2> QED BY <1>3, <2>1 DEF OpeningDebt
<1>7. Typed(debts2, now)
  BY <1>3, <1>5, <1>6 DEF Typed
<1>8. Live(debts2) = Live(debts)
  BY <1>3, <1>6 DEF Live
<1>9. ASSUME NEW d \in Live(debts2) \ apart
      PROVE  FitsAt(debts2, now, d, back)
  <2>1. d \in Live(debts) /\ d \in DOMAIN debts /\ FitsAt(debts, txs, d, back)
    BY <1>1, <1>8 DEF Fit
  <2>2. Repayments(now, d) = Repayments(txs, d) /\ Repayments(txs, d) \in SUBSET DOMAIN txs
        /\ Repayments(now, d) \subseteq Live(now)
    BY <1>1, <1>5 DEF NamesAnother, Repayments
  <2>3. /\ Size(debts2[d]) = Size(debts[d]) /\ Size(debts[d]) \in Nat
        /\ \A type : Reduces(debts2[d], type) = Reduces(debts[d], type)
    BY <1>1, <1>6, <2>1, SizeIsNatural DEF Size, Reduces
  <2>4. Repaid(now, d) <= Size(debts2[d])
    <3>1. AreRows(now) /\ DOMAIN now = DOMAIN txs
          /\ \A t \in DOMAIN txs : now[t].amount = txs[t].amount
      BY <1>5, TypedTables DEF NamesAnother
    <3>2. Total(now, Repayments(now, d)) \in Nat
          /\ Total(now, Repayments(now, d)) <= Total(txs, Repayments(txs, d))
          /\ Total(txs, Repayments(txs, d)) \in Nat
      BY <1>1, <2>2, <3>1, TotalsShrink, TotalsAdd
    <3> QED BY <2>1, <2>3, <3>2 DEF FitsAt, Repaid
  <2>5. ASSUME NEW t \in Repayments(now, d) \ back
        PROVE  now[t].obligation = debts2[d].counterparty /\ Reduces(debts2[d], now[t].type)
    <3>1. t \in Repayments(txs, d) \ back /\ t \in DOMAIN txs /\ t \in Live(now)
      BY <2>2
    <3>2. txs[t].obligation = debts[d].counterparty /\ Reduces(debts[d], txs[t].type)
      BY <2>1, <3>1 DEF FitsAt
    <3>3. /\ now[t].type = txs[t].type
          /\ now[t].obligation \in {txs[t].obligation, Party(txs[t].obligation, loser, winner)}
      BY <1>5, <3>1 DEF NamesAnother
    <3>4. now[t].obligation # loser
      BY <1>4, <3>1 DEF Involves
    <3>5. debts[d].counterparty = loser <=> d \in of
      BY <2>1 DEF DebtsOf
    <3> HIDE DEF of
    <3> QED BY <1>6, <2>1, <2>3, <3>2, <3>3, <3>4, <3>5 DEF Party
  <2> QED BY <2>4, <2>5 DEF FitsAt
<1>10. ASSUME NEW e \in merged.moved PROVE EntryTyped(e, debts)
  <2>1. PICK d \in of : e = [id |-> d, into |-> NoRow, before |-> debts[d].amount,
                             after |-> [amount |-> debts[d].amount, deleted |-> FALSE],
                             links |-> {}]
    BY DEF HandsOver
  <2>2. d \in DOMAIN debts
    BY <2>1, <1>1 DEF DebtsOf
  <2>3. debts[d].amount \in SignedAmounts
    BY <2>2 DEF Typed, OpeningDebt
  <2> QED BY <2>1, <2>2, <2>3 DEF EntryTyped
<1> QED BY <1>3, <1>5, <1>7, <1>9, <1>10 DEF MergesInto, NamesAnother, Fit, now, debts2

\* So does one that sums two up and decides their links again.
LEMMA SummedUpRows ==
    ASSUME NEW debts, NEW txs, Typed(debts, txs), NEW winner \in People, NEW loser \in People,
           winner # loser, NEW named, NEW merged, NEW x, NEW y,
           SumsUp(debts, txs, winner, loser, named, merged, x, y), LeavesNothing(merged, loser),
           NEW apart, NEW back, Fit(debts, txs, apart, back)
    PROVE  /\ MergesInto(debts, txs, merged, apart, back)
           /\ \A t \in DOMAIN txs :
                LET r == Repointed(txs, named, loser, winner)[t] IN
                /\ SameButLink(r, merged.transactions[t])
                /\ merged.transactions[t].counterparty = r.counterparty
<1> DEFINE now == merged.transactions
           debts2 == merged.debts
           repointed == Repointed(txs, named, loser, winner)
           sum == SumOf(debts, x, y)
           from == {x, y}
           target == IF sum = 0 THEN NoRow ELSE y
<1>1. /\ AreRows(txs) /\ AreDebts(debts) /\ Live(txs) \subseteq DOMAIN txs
      /\ Live(debts) \subseteq DOMAIN debts
  BY TypedTables
<1>2. /\ DebtsOf(debts, loser) = {x} /\ y \in DebtsOf(debts, winner) /\ x # y
      /\ DOMAIN debts2 = DOMAIN debts
      /\ \A d \in DOMAIN debts \ {x, y} : debts2[d] = debts[d]
      /\ debts2[x] = [debts[x] EXCEPT !.deleted = TRUE]
      /\ debts2[y] = [debts[y] EXCEPT !.amount = IF sum = 0 THEN @ ELSE sum,
                                      !.deleted = (sum = 0)]
      /\ \E since : now = Replanned(debts2, repointed, from, target, since)
  BY DEF SumsUp
<1>3. x \in DOMAIN debts /\ y \in DOMAIN debts /\ x \in DebtsOf(debts, loser)
      /\ x \in Live(debts) /\ y \in Live(debts)
  BY <1>1, <1>2 DEF DebtsOf
<1>4. debts[x] \in OpeningDebt /\ debts[y] \in OpeningDebt
  BY <1>3 DEF Typed
<1>5. \A d \in DOMAIN debts2 : Size(debts2[d]) <= Ceiling
  BY DEF LeavesNothing
<1> HIDE DEF now, debts2, repointed
<1>6. Typed(debts, repointed) /\ NamesAnother(txs, repointed, named, loser, winner)
  BY RepointedRows DEF repointed
<1>7. /\ debts2[x] \in OpeningDebt /\ debts2[x].deleted
      /\ debts2[y] \in OpeningDebt /\ debts2[y].deleted = (sum = 0)
  <2>1. debts2[x] \in OpeningDebt /\ debts2[x].deleted
    BY <1>2, <1>4 DEF OpeningDebt
  <2>2. sum \in Int
    BY <1>4, RowsAssumption DEF OpeningDebt, SignedAmounts, SumOf
  <2> HIDE DEF sum
  <2> DEFINE amount == IF sum = 0 THEN debts[y].amount ELSE sum
  <2>3. debts2[y] = [debts[y] EXCEPT !.amount = amount, !.deleted = (sum = 0)]
    BY <1>2
  <2>4. debts2[y].amount = amount /\ debts2[y].deleted = (sum = 0)
    <3> HIDE DEF amount
    <3> QED BY <1>4, <2>3 DEF OpeningDebt
  <2>5. amount \in SignedAmounts
    <3>1. CASE sum = 0
      BY <1>4, <3>1 DEF OpeningDebt
    <3>2. CASE sum # 0
      <4>1. Size(debts2[y]) <= Ceiling /\ debts2[y].amount = sum
        BY <1>2, <1>3, <1>5, <2>4, <3>2
      <4> QED BY <2>2, <3>2, <4>1, RowsAssumption DEF Size, SignedAmounts
    <3> QED BY <3>1, <3>2
  <2>6. debts2[y] \in OpeningDebt
    <3> DEFINE gone == (sum = 0)
    <3>1. gone \in BOOLEAN
      OBVIOUS
    <3>2. debts2[y] = [debts[y] EXCEPT !.amount = amount, !.deleted = gone]
      BY <2>3
    <3> HIDE DEF amount, gone
    <3> QED BY <1>4, <2>5, <3>1, <3>2 DEF OpeningDebt
  <2> QED BY <2>1, <2>4, <2>6
<1> HIDE DEF sum
<1>8. Typed(debts2, repointed)
  <2>1. \A d \in DOMAIN debts2 : debts2[d] \in OpeningDebt
    BY <1>2, <1>7 DEF Typed
  <2> QED BY <1>2, <1>6, <2>1 DEF Typed
<1>9. from \cap Live(debts2) \subseteq {target} /\ from \subseteq DOMAIN debts2
      /\ target \in from \cup {NoRow}
  BY <1>2, <1>3, <1>7 DEF Live
<1> DEFINE wider == apart \cup from
<1>10. Fit(debts2, repointed, wider, back)
  <2> SUFFICES ASSUME NEW d \in Live(debts2) \ wider PROVE FitsAt(debts2, repointed, d, back)
    BY DEF Fit
  <2>1. d \in DOMAIN debts /\ d \notin apart /\ debts2[d] = debts[d]
        /\ d \in Live(debts) /\ debts[d].counterparty # loser
    <3>1. d \in DOMAIN debts /\ debts2[d] = debts[d] /\ d # x
      BY <1>2 DEF Live
    <3>2. d \in Live(debts)
      BY <3>1 DEF Live
    <3> QED BY <1>2, <3>1, <3>2 DEF DebtsOf
  <2>2. FitsAt(debts, txs, d, back)
    BY <2>1 DEF Fit
  <2>3. /\ Repayments(repointed, d) = Repayments(txs, d)
        /\ Repayments(txs, d) \subseteq DOMAIN txs
        /\ \A t \in DOMAIN txs : repointed[t].amount = txs[t].amount
                                  /\ repointed[t].type = txs[t].type
    BY <1>1, <1>6 DEF NamesAnother, Repayments
  <2>4. \A t \in Repayments(repointed, d) \ back : repointed[t].obligation = txs[t].obligation
    <3> SUFFICES ASSUME NEW t \in Repayments(repointed, d) \ back
                 PROVE  repointed[t].obligation = txs[t].obligation
      OBVIOUS
    <3>1. t \in DOMAIN txs /\ txs[t].obligation # loser
      BY <2>1, <2>2, <2>3 DEF FitsAt
    <3> QED BY <1>6, <3>1 DEF NamesAnother, Party
  <2>5. AreRows(repointed)
    BY <1>6, TypedTables
  <2> QED BY <1>1, <2>1, <2>2, <2>3, <2>4, <2>5, StaysFit
<1>11. Relinked(debts2, repointed, now, apart, back)
  <2>1. PICK since : now = Replanned(debts2, repointed, from, target, since)
    BY <1>2
  <2>2. wider = apart \cup from
    OBVIOUS
  <2> HIDE DEF from, target, wider
  <2> QED BY <1>8, <1>9, <1>10, <2>1, <2>2, ReplannedFits
<1>12. ASSUME NEW e \in merged.moved PROVE EntryTyped(e, debts)
  <2>1. e = [id |-> x, into |-> y, before |-> debts[y].amount,
             after |-> [amount |-> debts2[y].amount, deleted |-> (sum = 0)],
             links |-> {[id |-> t, was |-> repointed[t].link, now |-> now[t].link] :
                          t \in Changed(repointed, now)}]
    BY DEF SumsUp, debts2, repointed, now, sum
  <2> DEFINE links == {[id |-> t, was |-> repointed[t].link, now |-> now[t].link] :
                          t \in Changed(repointed, now)}
  <2>2. \A t \in Changed(repointed, now) :
           /\ t \in RowIds
           /\ repointed[t].link \in DOMAIN debts \cup {NoRow}
           /\ now[t].link \in DOMAIN debts \cup {NoRow}
    BY <1>2, <1>6, <1>11 DEF Changed, Typed, Relinked
  <2>3. DOMAIN debts \subseteq RowIds
    BY DEF Typed
  <2>4. links \subseteq LinkChange /\ \A c \in links : c.was \in DOMAIN debts \cup {NoRow}
    BY <2>2, <2>3 DEF LinkChange
  <2> HIDE DEF links
  <2>5. /\ e.id = x /\ e.into = y /\ e.before = debts[y].amount /\ e.links = links
        /\ e.after = [amount |-> debts2[y].amount, deleted |-> (sum = 0)]
    BY <2>1 DEF links
  <2>6. e.after \in [amount : SignedAmounts, deleted : BOOLEAN]
    BY <1>7, <2>5 DEF OpeningDebt
  <2> QED BY <1>3, <1>4, <2>4, <2>5, <2>6 DEF EntryTyped, OpeningDebt
<1>13. DOMAIN now = DOMAIN txs
  BY <1>6, <1>11 DEF Relinked, NamesAnother
<1>14. MergesInto(debts, txs, merged, apart, back)
  BY <1>2, <1>11, <1>12, <1>13 DEF MergesInto, Relinked, now, debts2
<1>15. \A t \in DOMAIN txs : SameButLink(repointed[t], now[t])
                             /\ now[t].counterparty = repointed[t].counterparty
  BY <1>6, <1>11 DEF Relinked, NamesAnother
<1> QED BY <1>14, <1>15 DEF now, repointed

-----------------------------------------------------------------------------
(* What an unmerge makes of the rows.                                       *)

\* The debts a merge took apart or gave a repayment back to.
ApartIn(merge) == UNION {{e.id, e.into} \cup {c.was : c \in e.links} : e \in merge.moved}
Undone(debts, merge) == {e \in merge.moved : e.into # NoRow /\ Untouched(debts, e)}

\* An unmerged debt is as it was, with the loser again, or what it was before.
LEMMA UnmergedDebt ==
    ASSUME NEW debts, NEW txs, Typed(debts, txs), NEW known, known \subseteq People, NEW merge,
           RecordTyped(merge, known, debts, txs), NEW d \in DOMAIN debts
    PROVE  LET now == UnmergedDebts(debts, merge)[d] IN
           /\ now \in OpeningDebt
           /\ d \notin ApartIn(merge) => now = debts[d]
<1> DEFINE back == {e.id : e \in {e \in merge.moved :
                      e.into = NoRow /\ e.id \in DebtsOf(debts, merge.winner)}}
           undone == {e \in merge.moved : e.into # NoRow /\ Untouched(debts, e)}
           revived == {e.id : e \in undone} \cup {e.into : e \in undone}
           restored == IF \E e \in undone : e.into = d
                       THEN (CHOOSE e \in undone : e.into = d).before ELSE debts[d].amount
           now == UnmergedDebts(debts, merge)[d]
<1>1. now = IF d \in back THEN [debts[d] EXCEPT !.counterparty = merge.loser]
            ELSE IF d \in revived THEN [debts[d] EXCEPT !.deleted = FALSE, !.amount = restored]
            ELSE debts[d]
  BY DEF UnmergedDebts
<1>2. debts[d] \in OpeningDebt
  BY DEF Typed
<1>3. restored \in SignedAmounts
  <2>1. CASE \E e \in undone : e.into = d
    <3>1. PICK e : e \in undone /\ restored = e.before
      BY <2>1
    <3> QED BY <3>1 DEF RecordTyped, EntryTyped
  <2>2. CASE ~\E e \in undone : e.into = d
    BY <1>2, <2>2 DEF OpeningDebt
  <2> QED BY <2>1, <2>2
<1>4. merge.loser \in People
  BY DEF RecordTyped
<1>5. d \in back \/ d \in revived => d \in ApartIn(merge)
  BY DEF ApartIn
<1> HIDE DEF now, back, revived, restored
<1>6. now \in OpeningDebt
  <2>1. CASE d \in back
    BY <1>1, <1>2, <1>4, <2>1 DEF OpeningDebt
  <2>2. CASE d \notin back /\ d \in revived
    BY <1>1, <1>2, <1>3, <2>2 DEF OpeningDebt
  <2>3. CASE d \notin back /\ d \notin revived
    BY <1>1, <1>2, <2>3
  <2> QED BY <2>1, <2>2, <2>3
<1> QED BY <1>1, <1>5, <1>6 DEF now

\* A row's link is put back, if at all, to one of the recorded debts.
LEMMA UnmergedLink ==
    ASSUME NEW debts, NEW txs, Typed(debts, txs), NEW known, NEW merge,
           RecordTyped(merge, known, debts, txs), NEW t \in DOMAIN txs
    PROVE  LET now == UnmergedLinks(debts, txs, merge)[t] IN
           /\ now \in Transaction /\ now.link \in DOMAIN debts \cup {NoRow}
           /\ SameButLink(txs[t], now) /\ now.counterparty = txs[t].counterparty
           /\ now.link = txs[t].link \/ now.link \in ApartIn(merge)
<1> DEFINE changes == {c \in UNION {e.links : e \in Undone(debts, merge)} :
                         txs[c.id].link = c.now}
           was == (CHOOSE c \in changes : c.id = t).was
           now == UnmergedLinks(debts, txs, merge)[t]
<1>1. now = IF \E c \in changes : c.id = t THEN [txs[t] EXCEPT !.link = was] ELSE txs[t]
  BY DEF UnmergedLinks, Undone
<1>2. txs[t] \in Transaction /\ txs[t].link \in DOMAIN debts \cup {NoRow}
  BY DEF Typed
<1>3. CASE \E c \in changes : c.id = t
  <2>1. PICK c \in changes : was = c.was
    BY <1>3
  <2> HIDE DEF was
  <2>2. PICK e \in merge.moved : c \in e.links
    BY DEF Undone
  <2>3. was \in DOMAIN debts \cup {NoRow} /\ was \in ApartIn(merge)
    BY <2>1, <2>2 DEF RecordTyped, EntryTyped, ApartIn
  <2>4. was \in RowIds \cup {NoRow}
    BY <2>3 DEF Typed
  <2>5. now = [txs[t] EXCEPT !.link = was]
    BY <1>1, <1>3 DEF was
  <2> HIDE DEF now
  <2>6. /\ now \in Transaction /\ now.link = was
        /\ SameButLink(txs[t], now) /\ now.counterparty = txs[t].counterparty
    BY <1>2, <2>4, <2>5, LinkedAnew
  <2> QED BY <2>3, <2>6 DEF now
<1>4. CASE ~\E c \in changes : c.id = t
  <2>1. now = txs[t]
    BY <1>1, <1>4
  <2> HIDE DEF now
  <2> QED BY <1>2, <2>1 DEF SameButLink, now
<1> QED BY <1>3, <1>4

\* Tables with no row more or less, whose debts fit.
UnmergesInto(debts, txs, back, apart, handed) ==
    /\ DOMAIN back.debts = DOMAIN debts /\ DOMAIN back.transactions = DOMAIN txs
    /\ Typed(back.debts, back.transactions)
    /\ Fit(back.debts, back.transactions, apart, handed)

\* So does an unmerge, but for the rows and debts it hands back.
LEMMA UnmergedTables ==
    ASSUME NEW debts, NEW txs, Typed(debts, txs), NEW known, known \subseteq People, NEW merge,
           RecordTyped(merge, known, debts, txs),
           NEW back, back = UnmergedRows(debts, txs, merge),
           NEW apart, NEW handed, Fit(debts, txs, apart, handed),
           NEW apart2, apart \subseteq apart2, ApartIn(merge) \subseteq apart2,
           NEW handed2, handed \subseteq handed2, merge.named \subseteq handed2
    PROVE  UnmergesInto(debts, txs, back, apart2, handed2)
<1> DEFINE debts2 == UnmergedDebts(debts, merge)
           named == merge.named \cap Live(txs)
           repointed == Repointed(txs, named, merge.winner, merge.loser)
           now == UnmergedLinks(debts, repointed, merge)
<1>1. back.debts = debts2 /\ back.transactions = now
  BY DEF UnmergedRows
<1>2. merge.loser \in People /\ RecordTyped(merge, known, debts, repointed)
  <2>1. DOMAIN repointed = DOMAIN txs
    BY DEF Repointed
  <2> HIDE DEF repointed
  <2> QED BY <2>1 DEF RecordTyped
<1>3. Typed(debts, repointed) /\ NamesAnother(txs, repointed, named, merge.winner, merge.loser)
  BY <1>2, RepointedRows
<1>4. DOMAIN debts2 = DOMAIN debts /\ DOMAIN now = DOMAIN repointed
  BY DEF UnmergedDebts, UnmergedLinks
<1> HIDE DEF debts2, named, repointed, now
<1>5. \A d \in DOMAIN debts : /\ debts2[d] \in OpeningDebt
                              /\ d \notin ApartIn(merge) => debts2[d] = debts[d]
  BY UnmergedDebt DEF debts2
<1>6. \A t \in DOMAIN repointed :
         /\ now[t] \in Transaction /\ now[t].link \in DOMAIN debts \cup {NoRow}
         /\ SameButLink(repointed[t], now[t])
         /\ now[t].link = repointed[t].link \/ now[t].link \in ApartIn(merge)
  BY <1>2, <1>3, UnmergedLink DEF now
<1>7. DOMAIN now = DOMAIN txs
  BY <1>3, <1>4 DEF NamesAnother
<1>8. Typed(debts2, now)
  BY <1>4, <1>5, <1>6, <1>7 DEF Typed
<1>9. ASSUME NEW d \in Live(debts2) \ apart2
      PROVE  FitsAt(debts2, now, d, handed2)
  <2>1. d \in DOMAIN debts /\ d \notin ApartIn(merge) /\ d \notin apart
    BY <1>4 DEF Live
  <2>2. debts2[d] = debts[d] /\ d \in Live(debts)
    <3>1. debts2[d] = debts[d]
      BY <1>5, <2>1
    <3> QED BY <2>1, <3>1 DEF Live
  <2>3. FitsAt(debts, txs, d, handed)
    BY <2>1, <2>2 DEF Fit
  <2>4. ASSUME NEW t \in Repayments(now, d)
        PROVE  /\ t \in Repayments(txs, d) /\ now[t].amount = txs[t].amount
               /\ t \notin handed2 =>
                    now[t].obligation = txs[t].obligation /\ now[t].type = txs[t].type
    <3>1. t \in DOMAIN txs /\ t \in DOMAIN repointed /\ now[t].link = d /\ ~now[t].deleted
      BY <1>4, <1>7 DEF Repayments, Live
    <3>2. SameButLink(repointed[t], now[t]) /\ repointed[t].link = d
      BY <1>6, <2>1, <3>1
    <3>3. t \notin handed2 => t \notin named
      BY DEF named
    <3> QED BY <1>3, <3>1, <3>2, <3>3 DEF SameButLink, NamesAnother, Repayments, Live
  <2>5. AreRows(txs) /\ AreRows(now) /\ AreDebts(debts) /\ handed \subseteq handed2
    BY <1>8, TypedTables
  <2>6. /\ Repayments(now, d) \subseteq Repayments(txs, d)
        /\ \A t \in Repayments(now, d) : now[t].amount = txs[t].amount
        /\ \A t \in Repayments(now, d) \ handed2 :
             now[t].obligation = txs[t].obligation /\ now[t].type = txs[t].type
    BY <2>4
  <2> QED BY <2>1, <2>2, <2>3, <2>5, <2>6, StaysFit
<1> QED BY <1>1, <1>4, <1>7, <1>8, <1>9 DEF Fit, UnmergesInto

-----------------------------------------------------------------------------
(* The invariant of the rows and the records.                               *)

\* A record stays typed as the tables grow.
LEMMA RecordStaysTyped ==
    ASSUME NEW r, NEW known, NEW debts, NEW txs, RecordTyped(r, known, debts, txs),
           NEW known2, known \subseteq known2, NEW debts2, DOMAIN debts \subseteq DOMAIN debts2,
           NEW txs2, DOMAIN txs \subseteq DOMAIN txs2
    PROVE  RecordTyped(r, known2, debts2, txs2)
BY DEF RecordTyped, EntryTyped

\* The records there were stay typed, whatever is added.
LEMMA RecordsStayTyped ==
    ASSUME RecordsTyped, UNCHANGED merges,
           DOMAIN counterparties \subseteq DOMAIN counterparties',
           DOMAIN openingDebts \subseteq DOMAIN openingDebts',
           DOMAIN transactions \subseteq DOMAIN transactions'
    PROVE  RecordsTyped'
<1> SUFFICES ASSUME NEW m \in DOMAIN merges
             PROVE  RecordTyped(merges[m], DOMAIN counterparties', openingDebts', transactions')
  BY DEF RecordsTyped
<1>1. RecordTyped(merges[m], DOMAIN counterparties, openingDebts, transactions)
  BY DEF RecordsTyped
<1> QED BY <1>1, RecordStaysTyped

\* The model's names for these, in terms of ours.
LEMMA ApartIsInTheRecords ==
    DebtsTakenApart = UNION {ApartIn(merge) : merge \in UndoneMerges}
BY DEF DebtsTakenApart, ApartIn

LEMMA LinksFitIsFit ==
    LinksFitTheirDebt <=> Fit(openingDebts, transactions, DebtsTakenApart, HandedBack)
BY DEF LinksFitTheirDebt, Fit, FitsAt

\* The new record, and what it leaves of the undone ones.
LEMMA MergeRecords ==
    ASSUME MergesTyped, NEW winner, NEW loser, NEW named, Merge(winner, loser, named)
    PROVE  /\ merges'[Len(merges) + 1] =
                [winner |-> winner, loser |-> loser, named |-> named,
                 moved |-> MergedRows(openingDebts, transactions, winner, loser, named).moved,
                 unmerged |-> FALSE]
           /\ UndoneMerges' = UndoneMerges
<1> DEFINE r == [winner |-> winner, loser |-> loser, named |-> named,
                 moved |-> MergedRows(openingDebts, transactions, winner, loser, named).moved,
                 unmerged |-> FALSE]
<1>1. merges' = Append(merges, r) /\ r.unmerged = FALSE
  BY DEF Merge
<1> HIDE DEF r
<1>2. PICK T : merges \in Seq(T)
  BY DEF MergesTyped
<1>3. merges \in Seq(T \cup {r}) /\ r \in T \cup {r}
  BY <1>2
<1>4. /\ Len(merges) \in Nat /\ DOMAIN merges = 1..Len(merges)
      /\ DOMAIN merges' = 1..(Len(merges) + 1)
      /\ \A i \in 1..Len(merges) : merges'[i] = merges[i]
      /\ merges'[Len(merges) + 1] = r
  BY <1>1, <1>3
<1>5. DOMAIN merges' = DOMAIN merges \cup {Len(merges) + 1}
  BY <1>4
<1>6. UndoneMerges' = UndoneMerges
  BY <1>1, <1>4, <1>5 DEF UndoneMerges, IsOpen
<1> QED BY <1>4, <1>6 DEF r

\* The undone records gain the one that is taken back.
LEMMA UnmergeRecords ==
    ASSUME MergesTyped, NEW m \in DOMAIN merges, Unmerge(m)
    PROVE  /\ DOMAIN merges' = DOMAIN merges
           /\ merges'[m] = [merges[m] EXCEPT !.unmerged = TRUE]
           /\ merges'[m].winner = merges[m].winner /\ merges'[m].loser = merges[m].loser
           /\ merges'[m].named = merges[m].named /\ merges'[m].moved = merges[m].moved
           /\ \A n \in DOMAIN merges : n # m => merges'[n] = merges[n]
           /\ UndoneMerges' = UndoneMerges \cup {merges'[m]}
<1>1. merges' = [merges EXCEPT ![m].unmerged = TRUE] /\ ~merges[m].unmerged
  BY DEF Unmerge, MayUnmerge, IsOpen
<1>2. IsMergeRecord(merges[m])
  BY DEF MergesTyped
<1>3. /\ DOMAIN merges' = DOMAIN merges /\ merges'[m] = [merges[m] EXCEPT !.unmerged = TRUE]
      /\ \A n \in DOMAIN merges : n # m => merges'[n] = merges[n]
  BY <1>1
<1>4. /\ merges'[m].winner = merges[m].winner /\ merges'[m].loser = merges[m].loser
      /\ merges'[m].named = merges[m].named /\ merges'[m].moved = merges[m].moved
      /\ merges'[m].unmerged = TRUE
  BY <1>2, <1>3 DEF IsMergeRecord
<1>5. UndoneMerges' = UndoneMerges \cup {merges'[m]}
  BY <1>1, <1>3, <1>4 DEF UndoneMerges, IsOpen
<1> QED BY <1>3, <1>4, <1>5

\* A step that leaves the people and their merges be.
LEMMA RowsStepKeeps ==
    ASSUME TypeInv, UNCHANGED people, RowsGoOn(DebtsTakenApart, HandedBack)
    PROVE  TypeInv' /\ LinksFitTheirDebt'
<1>1. UNCHANGED <<counterparties, distinctPairs, merges>>
  BY DEF people
<1>2. DebtsTakenApart' = DebtsTakenApart /\ HandedBack' = HandedBack
  BY <1>1 DEF DebtsTakenApart, HandedBack, UndoneMerges, IsOpen
<1>3. Fit(openingDebts', transactions', DebtsTakenApart', HandedBack')
  BY <1>2 DEF RowsGoOn
<1>4. LinksFitTheirDebt'
  BY <1>3 DEF LinksFitTheirDebt, Fit, FitsAt
<1>5. RecordsTyped'
  BY <1>1, RecordsStayTyped DEF TypeInv, RowsGoOn
<1> QED BY <1>1, <1>4, <1>5 DEF TypeInv, RowsGoOn, NamesKnown

\* A step that leaves the rows and the merges be.
LEMMA PeopleStepKeeps ==
    ASSUME TypeInv, LinksFitTheirDebt, UNCHANGED <<merges, rows>>, NamesKnown',
           DOMAIN counterparties \subseteq DOMAIN counterparties'
    PROVE  TypeInv' /\ LinksFitTheirDebt'
<1>1. UNCHANGED <<merges, openingDebts, transactions>>
  BY DEF rows
<1>2. LinksFitTheirDebt'
  BY <1>1 DEF LinksFitTheirDebt, DebtsTakenApart, HandedBack, UndoneMerges, IsOpen
<1>3. RecordsTyped'
  BY <1>1, RecordsStayTyped DEF TypeInv
<1>4. Numbered'
  BY <1>1, NumbersAreKept DEF TypeInv
<1> QED BY <1>1, <1>2, <1>3, <1>4 DEF TypeInv

\* The two operations that change everything.
LEMMA MergeKeeps ==
    ASSUME IInv, TypeInv, LinksFitTheirDebt, NEW winner \in People, NEW loser \in People,
           NEW named \in SUBSET DOMAIN transactions, Merge(winner, loser, named)
    PROVE  TypeInv' /\ LinksFitTheirDebt'
<1> DEFINE merged == MergedRows(openingDebts, transactions, winner, loser, named)
           new == Len(merges) + 1
<1>1. /\ winner # loser /\ winner \in DOMAIN counterparties /\ loser \in DOMAIN counterparties
      /\ LeavesNothing(merged, loser)
      /\ openingDebts' = merged.debts /\ transactions' = merged.transactions
      /\ DOMAIN counterparties' = DOMAIN counterparties
      /\ distinctPairs' = distinctPairs \cup
           {{winner, p} : p \in {q \in People : {loser, q} \in distinctPairs}}
  BY DEF Merge, MayMerge, Exists
<1>2. /\ DOMAIN merges' = DOMAIN merges \cup {new}
      /\ \A m \in DOMAIN merges : merges'[m] = merges[m]
      /\ merges'[new] = [winner |-> winner, loser |-> loser, named |-> named,
                         moved |-> merged.moved, unmerged |-> FALSE]
      /\ UndoneMerges' = UndoneMerges
  <2>1. DOMAIN merges = 1..Len(merges) /\ DOMAIN merges' = 1..(Len(merges) + 1)
        /\ Len(merges) \in Nat /\ \A m \in DOMAIN merges : merges'[m] = merges[m]
    BY MergeAppends DEF IInv
  <2>2. DOMAIN merges' = DOMAIN merges \cup {new}
    BY <2>1
  <2> QED BY <2>1, <2>2, MergeRecords DEF IInv
<1> HIDE DEF merged, new
<1>3. MergesInto(openingDebts, transactions, merged, DebtsTakenApart, HandedBack)
  <2>1. Fit(openingDebts, transactions, DebtsTakenApart, HandedBack)
    BY LinksFitIsFit
  <2>2. Typed(openingDebts, transactions)
    BY DEF TypeInv
  <2>3. \/ HandsOver(openingDebts, transactions, winner, loser, named, merged)
        \/ \E x, y : SumsUp(openingDebts, transactions, winner, loser, named, merged, x, y)
    BY <1>1, <2>2, MergesHandOverOrSumUp DEF merged
  <2> QED BY <1>1, <2>1, <2>2, <2>3, HandedOverRows, SummedUpRows
<1>4. /\ DOMAIN openingDebts' = DOMAIN openingDebts /\ DOMAIN transactions' = DOMAIN transactions
      /\ Typed(openingDebts', transactions')
      /\ Fit(openingDebts', transactions', DebtsTakenApart, HandedBack)
      /\ \A e \in merged.moved : EntryTyped(e, openingDebts)
  BY <1>1, <1>3 DEF MergesInto
<1>5. DebtsTakenApart' = DebtsTakenApart /\ HandedBack' = HandedBack
  BY <1>2 DEF DebtsTakenApart, HandedBack
<1>6. LinksFitTheirDebt'
  <2>1. Fit(openingDebts', transactions', DebtsTakenApart', HandedBack')
    BY <1>4, <1>5
  <2> QED BY <2>1 DEF LinksFitTheirDebt, Fit, FitsAt
<1>7. RecordsTyped'
  <2> SUFFICES ASSUME NEW m \in DOMAIN merges'
               PROVE  RecordTyped(merges'[m], DOMAIN counterparties', openingDebts', transactions')
    BY DEF RecordsTyped
  <2>1. CASE m \in DOMAIN merges
    <3>1. RecordTyped(merges[m], DOMAIN counterparties, openingDebts, transactions)
      BY <2>1 DEF TypeInv, RecordsTyped
    <3>2. RecordTyped(merges[m], DOMAIN counterparties', openingDebts', transactions')
      BY <1>1, <1>4, <3>1, RecordStaysTyped
    <3> QED BY <1>2, <2>1, <3>2
  <2>2. CASE m = new
    <3>1. /\ merges'[m].winner = winner /\ merges'[m].loser = loser /\ merges'[m].named = named
          /\ merges'[m].moved = merged.moved
      BY <1>2, <2>2
    <3>2. \A e \in merged.moved : EntryTyped(e, openingDebts')
      BY <1>4 DEF EntryTyped
    <3> QED BY <1>1, <1>4, <3>1, <3>2 DEF RecordTyped
  <2> QED BY <1>2, <2>1, <2>2
<1>8. Numbered'
  BY <1>4, NumbersAreKept DEF TypeInv
<1>9. NamesKnown'
  <2>1. \A p \in People : {winner, p} \in PairsOfPeople
    BY DEF PairsOfPeople
  <2> DEFINE inherited == {{winner, p} : p \in {q \in People : {loser, q} \in distinctPairs}}
  <2>2. inherited \subseteq PairsOfPeople
    BY <2>1
  <2>3. distinctPairs' = distinctPairs \cup inherited
    BY <1>1
  <2> HIDE DEF inherited
  <2> QED BY <1>1, <2>2, <2>3 DEF TypeInv, NamesKnown
<1> QED BY <1>4, <1>6, <1>7, <1>8, <1>9 DEF TypeInv

LEMMA UnmergeKeeps ==
    ASSUME IInv, TypeInv, LinksFitTheirDebt, NEW m \in DOMAIN merges, Unmerge(m)
    PROVE  TypeInv' /\ LinksFitTheirDebt'
<1> DEFINE merge == merges[m]
           back == UnmergedRows(openingDebts, transactions, merge)
           known == DOMAIN counterparties
<1>1. /\ openingDebts' = back.debts /\ transactions' = back.transactions
      /\ DOMAIN counterparties' = DOMAIN counterparties /\ UNCHANGED distinctPairs
  BY DEF Unmerge
<1>2. /\ DOMAIN merges' = DOMAIN merges
      /\ merges'[m].winner = merge.winner /\ merges'[m].loser = merge.loser
      /\ merges'[m].named = merge.named /\ merges'[m].moved = merge.moved
      /\ \A n \in DOMAIN merges : n # m => merges'[n] = merges[n]
      /\ UndoneMerges' = UndoneMerges \cup {merges'[m]}
  BY UnmergeRecords DEF IInv
<1>3. RecordTyped(merge, known, openingDebts, transactions) /\ known \subseteq People
  BY DEF TypeInv, RecordsTyped, NamesKnown
<1>4. DebtsTakenApart \cup ApartIn(merge) \subseteq DebtsTakenApart'
  <2>1. ApartIn(merges'[m]) = ApartIn(merge)
    BY <1>2 DEF ApartIn
  <2>2. DebtsTakenApart' = UNION {ApartIn(r) : r \in UndoneMerges'}
    BY DEF DebtsTakenApart, ApartIn
  <2>3. DebtsTakenApart = UNION {ApartIn(r) : r \in UndoneMerges}
    BY ApartIsInTheRecords
  <2> QED BY <1>2, <2>1, <2>2, <2>3
<1>5. HandedBack \cup merge.named \subseteq HandedBack'
  BY <1>2 DEF HandedBack
<1> HIDE DEF back, merge, known
<1>6. /\ DOMAIN openingDebts' = DOMAIN openingDebts /\ DOMAIN transactions' = DOMAIN transactions
      /\ Typed(openingDebts', transactions')
      /\ Fit(openingDebts', transactions', DebtsTakenApart', HandedBack')
  <2> DEFINE apart2 == DebtsTakenApart'
             handed2 == HandedBack'
  <2>1. /\ Fit(openingDebts, transactions, DebtsTakenApart, HandedBack)
        /\ Typed(openingDebts, transactions)
        /\ back = UnmergedRows(openingDebts, transactions, merge)
        /\ DebtsTakenApart \subseteq apart2 /\ ApartIn(merge) \subseteq apart2
        /\ HandedBack \subseteq handed2 /\ merge.named \subseteq handed2
    BY <1>4, <1>5, LinksFitIsFit DEF TypeInv, back
  <2> HIDE DEF apart2, handed2
  <2>2. UnmergesInto(openingDebts, transactions, back, apart2, handed2)
    BY <1>3, <2>1, UnmergedTables
  <2> QED BY <1>1, <2>2 DEF UnmergesInto, apart2, handed2
<1>7. LinksFitTheirDebt'
  BY <1>6 DEF LinksFitTheirDebt, Fit, FitsAt
<1>8. RecordsTyped'
  <2> SUFFICES ASSUME NEW n \in DOMAIN merges
               PROVE  RecordTyped(merges'[n], DOMAIN counterparties', openingDebts', transactions')
    BY <1>2 DEF RecordsTyped
  <2>1. RecordTyped(merges[n], DOMAIN counterparties, openingDebts, transactions)
    BY DEF TypeInv, RecordsTyped
  <2>2. RecordTyped(merges[n], DOMAIN counterparties', openingDebts', transactions')
    BY <1>1, <1>6, <2>1, RecordStaysTyped
  <2>3. /\ merges'[n].winner = merges[n].winner /\ merges'[n].loser = merges[n].loser
        /\ merges'[n].named = merges[n].named /\ merges'[n].moved = merges[n].moved
    BY <1>2 DEF merge
  <2> QED BY <2>2, <2>3 DEF RecordTyped
<1>9. Numbered'
  BY <1>6, NumbersAreKept DEF TypeInv
<1>10. NamesKnown'
  BY <1>1 DEF TypeInv, NamesKnown
<1> QED BY <1>6, <1>7, <1>8, <1>9, <1>10 DEF TypeInv

\* The invariant holds at first, and every step keeps it.
LEMMA InitTypeInv == Init => TypeInv /\ LinksFitTheirDebt
<1> SUFFICES ASSUME Init PROVE TypeInv /\ LinksFitTheirDebt
  OBVIOUS
<1>1. /\ DOMAIN openingDebts = {} /\ DOMAIN transactions = {} /\ DOMAIN merges = {}
      /\ distinctPairs = {} /\ counterparties = FirstPeople
  BY DEF Init
<1>2. DOMAIN counterparties \subseteq People
  BY <1>1, FirstAssumption
<1>3. NextId = 1
  BY <1>1, FS_EmptySet DEF NextId
<1>4. Numbered
  <2>1. 1..(1 - 1) = {} /\ 1 <= MaxRows + 1
    BY RowsAssumption
  <2> QED BY <1>1, <1>3, <2>1, FS_EmptySet DEF Numbered
<1>5. Live(openingDebts) = {}
  BY <1>1 DEF Live
<1> QED BY <1>1, <1>2, <1>4, <1>5 DEF TypeInv, NamesKnown, Typed, RecordsTyped, LinksFitTheirDebt

LEMMA StepTypeInv ==
    ASSUME IInv, TypeInv, LinksFitTheirDebt, Next
    PROVE  TypeInv' /\ LinksFitTheirDebt'
<1>1. /\ NamesKnown /\ Numbered /\ Typed(openingDebts, transactions)
      /\ Fit(openingDebts, transactions, DebtsTakenApart, HandedBack)
  BY LinksFitIsFit DEF TypeInv
<1>2. CASE \E c \in Newcomers : CreateCounterparty(c.who, c.name)
  <2>1. PICK c \in Newcomers : CreateCounterparty(c.who, c.name)
    BY <1>2
  <2>2. /\ c.who \in People /\ UNCHANGED <<merges, rows, distinctPairs>>
        /\ DOMAIN counterparties' = DOMAIN counterparties \cup {c.who}
    BY <2>1, ConstantsAssumption DEF CreateCounterparty, With
  <2>3. NamesKnown'
    BY <1>1, <2>2 DEF NamesKnown
  <2> QED BY <2>2, <2>3, PeopleStepKeeps
<1>3. CASE \E c \in Patches : UpdateCounterparty(c.who, c.name, c.archived)
  <2>1. /\ UNCHANGED <<merges, rows, distinctPairs>>
        /\ DOMAIN counterparties' = DOMAIN counterparties
    BY <1>3 DEF UpdateCounterparty
  <2>2. NamesKnown'
    BY <1>1, <2>1 DEF NamesKnown
  <2> QED BY <2>1, <2>2, PeopleStepKeeps
<1>4. CASE \E pair \in Doubts : RecordDistinct(pair)
  <2>1. PICK pair \in Doubts : RecordDistinct(pair)
    BY <1>4
  <2>2. /\ UNCHANGED <<merges, rows, counterparties>> /\ distinctPairs' = distinctPairs \cup {pair}
        /\ pair \in PairsOfPeople
    BY <2>1, ConstantsAssumption DEF RecordDistinct, PairsOfPeople
  <2>3. NamesKnown'
    BY <1>1, <2>2 DEF NamesKnown
  <2> QED BY <2>2, <2>3, PeopleStepKeeps
<1>5. CASE \E debt \in Debts : RecordOpeningDebt(debt.who, debt.amount)
  <2>1. PICK debt \in Debts : RecordOpeningDebt(debt.who, debt.amount)
    BY <1>5
  <2>2. /\ debt.who \in People /\ debt.amount \in SignedAmounts
        /\ PutOpeningDebt(debt.who, debt.amount) /\ UNCHANGED people
    BY <2>1, ConstantsAssumption DEF RecordOpeningDebt
  <2>3. RowsGoOn(DebtsTakenApart, HandedBack)
    BY <1>1, <2>2, PutOpeningDebtGoesOn
  <2> QED BY <2>2, <2>3, RowsStepKeeps
<1>6. CASE \E c \in Payments, type \in Types : SettleDebt(c.who, type, c.amount)
  <2>1. PICK c \in Payments, type \in Types : SettleDebt(c.who, type, c.amount)
    BY <1>6
  <2>2. c.amount \in Amounts /\ UNCHANGED people
    BY <2>1, ConstantsAssumption DEF SettleDebt
  <2>3. RowsGoOn(DebtsTakenApart, HandedBack)
    BY <1>1, <2>1, <2>2, SettleDebtGoesOn
  <2> QED BY <2>2, <2>3, RowsStepKeeps
<1>7. CASE \E d \in DOMAIN openingDebts : DeleteOpeningDebt(d)
  <2>1. PICK d : RemoveOpeningDebt(d) /\ UNCHANGED people
    BY <1>7 DEF DeleteOpeningDebt
  <2>2. RowsGoOn(DebtsTakenApart, HandedBack)
    BY <1>1, <2>1, DeleteOpeningDebtGoesOn
  <2> QED BY <2>1, <2>2, RowsStepKeeps
<1>8. CASE \E c \in Captures : CreateTransaction(c)
  <2>1. PICK c \in Captures : CreateTransaction(c)
    BY <1>8
  <2>2. UNCHANGED people
    BY <2>1 DEF CreateTransaction
  <2>3. RowsGoOn(DebtsTakenApart, HandedBack)
    BY <1>1, <2>1, CreateTransactionGoesOn
  <2> QED BY <2>2, <2>3, RowsStepKeeps
<1>9. CASE \E t \in DOMAIN transactions : DeleteTransaction(t)
  <2>1. PICK t : RemoveTransaction(t) /\ UNCHANGED people
    BY <1>9 DEF DeleteTransaction
  <2>2. RowsGoOn(DebtsTakenApart, HandedBack)
    BY <1>1, <2>1, DeleteTransactionGoesOn
  <2> QED BY <2>1, <2>2, RowsStepKeeps
<1>10. CASE \E t \in DOMAIN transactions : \E e \in Edits : UpdateTransaction(t, e)
  <2>1. PICK t \in DOMAIN transactions : \E e \in Edits : UpdateTransaction(t, e)
    BY <1>10
  <2>2. PICK e \in Edits : UpdateTransaction(t, e)
    BY <2>1
  <2>3. UNCHANGED people
    BY <2>2 DEF UpdateTransaction
  <2>4. RowsGoOn(DebtsTakenApart, HandedBack)
    BY <1>1, <2>2, UpdateTransactionGoesOn
  <2> QED BY <2>3, <2>4, RowsStepKeeps
<1>11. CASE \E c \in Duplicates, named \in SUBSET DOMAIN transactions :
              Merge(c.winner, c.loser, named)
  <2>1. PICK c \in Duplicates, named \in SUBSET DOMAIN transactions :
               Merge(c.winner, c.loser, named)
    BY <1>11
  <2>2. c.winner \in People /\ c.loser \in People
    BY ConstantsAssumption
  <2> QED BY <2>1, <2>2, MergeKeeps
<1>12. CASE \E m \in DOMAIN merges : Unmerge(m)
  BY <1>12, UnmergeKeeps
<1> QED BY <1>2, <1>3, <1>4, <1>5, <1>6, <1>7, <1>8, <1>9, <1>10, <1>11, <1>12 DEF Next

LEMMA TypeInvAlways == Spec => [](IInv /\ TypeInv /\ LinksFitTheirDebt)
<1>1. Init => IInv /\ TypeInv /\ LinksFitTheirDebt
  BY InitIInv, InitTypeInv
<1>2. IInv /\ TypeInv /\ LinksFitTheirDebt /\ [Next]_vars
        => (IInv /\ TypeInv /\ LinksFitTheirDebt)'
  <2> SUFFICES ASSUME IInv, TypeInv, LinksFitTheirDebt, [Next]_vars
               PROVE  IInv' /\ TypeInv' /\ LinksFitTheirDebt'
    OBVIOUS
  <2>1. IInv'
    BY StepIInv
  <2>2. CASE Next
    BY <2>1, <2>2, StepTypeInv
  <2>3. CASE UNCHANGED vars
    <3>1. /\ UNCHANGED <<counterparties, distinctPairs, merges, rows>>
          /\ NamesKnown' /\ DOMAIN counterparties \subseteq DOMAIN counterparties'
      BY <2>3 DEF vars, rows, TypeInv, NamesKnown
    <3> QED BY <2>1, <3>1, PeopleStepKeeps
  <2> QED BY <2>2, <2>3
<1> QED BY <1>1, <1>2, PTL DEF Spec

-----------------------------------------------------------------------------
(* The theorems about the rows.                                             *)

\* Every operation leaves counterparties, debts, transactions and merge records
\* of their types, links to rows there are, and amounts within the ceiling,
\* however often debts are summed and taken apart (executors of counterparties/).
THEOREM RowsAreTyped == Spec => []TypeOK
<1>1. IInv /\ TypeInv => TypeOK
  <2> SUFFICES ASSUME IInv, TypeInv PROVE TypeOK
    OBVIOUS
  <2>1. /\ DOMAIN counterparties \subseteq People
        /\ \A p \in DOMAIN counterparties : counterparties[p] \in Counterparty
        /\ distinctPairs \subseteq {{p, q} : p, q \in People}
    BY DEF IInv, PeopleTyped, TypeInv, NamesKnown, PairsOfPeople
  <2>2. /\ DOMAIN openingDebts \cup DOMAIN transactions = 1..(NextId - 1)
        /\ DOMAIN openingDebts \cap DOMAIN transactions = {}
    BY DEF TypeInv, Numbered
  <2>3. /\ \A d \in DOMAIN openingDebts : openingDebts[d] \in OpeningDebt
        /\ \A t \in DOMAIN transactions : transactions[t] \in Transaction
        /\ DOMAIN openingDebts \subseteq RowIds
    BY DEF TypeInv, Typed
  <2>4. ASSUME NEW m \in DOMAIN merges
        PROVE  /\ {merges[m].winner, merges[m].loser} \subseteq DOMAIN counterparties
               /\ merges[m].named \subseteq DOMAIN transactions
               /\ \A e \in merges[m].moved :
                    /\ e.id \in RowIds /\ e.into \in RowIds \cup {NoRow}
                    /\ e.before \in SignedAmounts /\ e.after.amount \in SignedAmounts
                    /\ e.links \subseteq LinkChange
    <3>1. RecordTyped(merges[m], DOMAIN counterparties, openingDebts, transactions)
      BY DEF TypeInv, RecordsTyped
    <3> QED BY <2>3, <3>1 DEF RecordTyped, EntryTyped
  <2> QED BY <2>1, <2>2, <2>3, <2>4 DEF TypeOK
<1> QED BY <1>1, TypeInvAlways, PTL

\* Settled, edited, recorded again, merged or deleted, in any order: repayments
\* linked to an opening debt are its person's, reduce it, and discharge no more
\* than it was, but for what an unmerge has handed back (merge-opening-debts.ts).
THEOREM LinksAlwaysFit == Spec => []LinksFitTheirDebt
BY TypeInvAlways, PTL

-----------------------------------------------------------------------------
(* A merge taken back at once.                                              *)

\* What is named in a merge made now, and the record of it.
NamedNow(txs, loser) == {t \in Live(txs) : Involves(txs[t], loser)}
RecordOf(winner, loser, named, merged) ==
    [winner |-> winner, loser |-> loser, named |-> named, moved |-> merged.moved]

\* The rows of the round trip, but for their links.
LEMMA RoundTripRows ==
    ASSUME NEW debts, NEW txs, Typed(debts, txs), NEW winner \in People, NEW loser \in People,
           winner # loser, NEW named, named = NamedNow(txs, loser),
           NEW merged, merged = MergedRows(debts, txs, winner, loser, named),
           LeavesNothing(merged, loser),
           NEW merge, merge = RecordOf(winner, loser, named, merged)
    PROVE  /\ Typed(merged.debts, merged.transactions)
           /\ DOMAIN merged.debts = DOMAIN debts /\ DOMAIN merged.transactions = DOMAIN txs
           /\ RecordTyped(merge, People, merged.debts, merged.transactions)
           /\ \A t \in DOMAIN txs : ~Straddles(txs[t], winner, loser) =>
                LET back == UnmergedRows(merged.debts, merged.transactions, merge) IN
                /\ back.transactions[t] \in Transaction
                /\ SameButLink(txs[t], back.transactions[t])
                /\ back.transactions[t].counterparty = txs[t].counterparty
<1> DEFINE repointed == Repointed(txs, named, loser, winner)
           mid == merged.transactions
           again == Repointed(mid, named \cap Live(mid), winner, loser)
           last == UnmergedLinks(merged.debts, again, merge)
<1>1. \/ HandsOver(debts, txs, winner, loser, named, merged)
      \/ \E x, y : SumsUp(debts, txs, winner, loser, named, merged, x, y)
  BY MergesHandOverOrSumUp
<1>2. Fit(debts, txs, RowIds, {})
  BY DEF Fit, Live, Typed
<1>3. MergesInto(debts, txs, merged, RowIds, {})
  BY <1>1, <1>2, HandedOverRows, SummedUpRows
<1>4. \A t \in DOMAIN txs :
         SameButLink(repointed[t], mid[t]) /\ mid[t].counterparty = repointed[t].counterparty
  <2>1. CASE HandsOver(debts, txs, winner, loser, named, merged)
    <3>1. mid = repointed
      BY <2>1 DEF HandsOver
    <3> HIDE DEF mid, repointed
    <3> QED BY <3>1 DEF SameButLink
  <2>2. CASE \E x, y : SumsUp(debts, txs, winner, loser, named, merged, x, y)
    BY <1>2, <2>2, SummedUpRows
  <2> QED BY <1>1, <2>1, <2>2
<1>5. Typed(debts, repointed) /\ NamesAnother(txs, repointed, named, loser, winner)
  BY RepointedRows
<1>6. /\ Typed(merged.debts, mid) /\ DOMAIN merged.debts = DOMAIN debts
      /\ DOMAIN mid = DOMAIN txs /\ \A e \in merged.moved : EntryTyped(e, debts)
  BY <1>3 DEF MergesInto
<1>7. merge.winner = winner /\ merge.loser = loser /\ merge.named = named
      /\ merge.moved = merged.moved
  BY DEF RecordOf
<1>8. Live(txs) \subseteq DOMAIN txs
  BY DEF Live
<1>9. RecordTyped(merge, People, merged.debts, mid)
  <2>1. \A e \in merged.moved : EntryTyped(e, merged.debts)
    BY <1>6 DEF EntryTyped
  <2>2. named \subseteq DOMAIN txs
    BY <1>8 DEF NamedNow
  <2> QED BY <1>6, <1>7, <2>1, <2>2 DEF RecordTyped
<1>10. UnmergedRows(merged.debts, mid, merge).transactions = last
  BY <1>7 DEF UnmergedRows
<1> HIDE DEF repointed, mid, again, last
<1>11. Typed(merged.debts, again)
       /\ NamesAnother(mid, again, named \cap Live(mid), winner, loser)
  BY <1>6, RepointedRows DEF again
<1>12. \A t \in DOMAIN txs : mid[t].deleted = repointed[t].deleted
                            /\ repointed[t].deleted = txs[t].deleted
  BY <1>4, <1>5 DEF SameButLink, NamesAnother
<1>13. Live(mid) = Live(txs)
  BY <1>6, <1>12 DEF Live
<1>14. named \cap Live(mid) = named
  BY <1>13 DEF NamedNow
<1>15. ASSUME NEW t \in DOMAIN txs, ~Straddles(txs[t], winner, loser)
       PROVE  /\ last[t] \in Transaction
              /\ SameButLink(txs[t], last[t]) /\ last[t].counterparty = txs[t].counterparty
  <2>1. /\ last[t] \in Transaction /\ SameButLink(again[t], last[t])
        /\ last[t].counterparty = again[t].counterparty
    <3>1. t \in DOMAIN again /\ RecordTyped(merge, People, merged.debts, again)
      BY <1>6, <1>9, <1>11 DEF NamesAnother, RecordTyped
    <3> QED BY <1>11, <3>1, UnmergedLink DEF last
  <2>2. CASE t \in named
    <3>1. /\ again[t].obligation = Party(mid[t].obligation, winner, loser)
          /\ again[t].counterparty = Party(mid[t].counterparty, winner, loser)
          /\ repointed[t].obligation = Party(txs[t].obligation, loser, winner)
          /\ repointed[t].counterparty = Party(txs[t].counterparty, loser, winner)
      BY <1>5, <1>6, <1>11, <1>14, <2>2 DEF NamesAnother
    <3>2. /\ mid[t].obligation = repointed[t].obligation
          /\ mid[t].counterparty = repointed[t].counterparty
      BY <1>4 DEF SameButLink
    <3>3. loser \in {txs[t].counterparty, txs[t].obligation}
          /\ {txs[t].counterparty, txs[t].obligation} # {winner, loser}
      BY <1>15, <2>2 DEF NamedNow, Involves, Straddles
    <3>4. again[t].obligation = txs[t].obligation /\ again[t].counterparty = txs[t].counterparty
      BY <3>1, <3>2, <3>3 DEF Party
    <3> QED BY <1>4, <1>5, <1>6, <1>11, <2>1, <3>4 DEF SameButLink, NamesAnother
  <2>3. CASE t \notin named
    <3>1. /\ again[t].obligation = mid[t].obligation
          /\ again[t].counterparty = mid[t].counterparty
          /\ repointed[t].obligation = txs[t].obligation
          /\ repointed[t].counterparty = txs[t].counterparty
      BY <1>5, <1>6, <1>11, <1>14, <2>3 DEF NamesAnother
    <3> QED BY <1>4, <1>5, <1>6, <1>11, <2>1, <3>1 DEF SameButLink, NamesAnother
  <2> QED BY <2>2, <2>3
<1> QED BY <1>6, <1>9, <1>10, <1>15 DEF mid

\* The debts and links where the debts were handed over.
LEMMA HandedOverAndBack ==
    ASSUME NEW debts, NEW txs, Typed(debts, txs), NEW winner \in People, NEW loser \in People,
           winner # loser, NEW named, NEW merged,
           HandsOver(debts, txs, winner, loser, named, merged),
           NEW merge, merge = RecordOf(winner, loser, named, merged)
    PROVE  /\ \A d \in DOMAIN debts : UnmergedDebts(merged.debts, merge)[d] = debts[d]
           /\ Undone(merged.debts, merge) = {}
<1> DEFINE of == DebtsOf(debts, loser)
           back == {e.id : e \in {e \in merge.moved :
                      e.into = NoRow /\ e.id \in DebtsOf(merged.debts, merge.winner)}}
           undone == {e \in merge.moved : e.into # NoRow /\ Untouched(merged.debts, e)}
           revived == {e.id : e \in undone} \cup {e.into : e \in undone}
<1>1. merge.winner = winner /\ merge.loser = loser /\ merge.moved = merged.moved
  BY DEF RecordOf
<1>2. /\ DOMAIN merged.debts = DOMAIN debts
      /\ \A d \in DOMAIN debts :
           merged.debts[d] = IF d \in of THEN [debts[d] EXCEPT !.counterparty = winner] ELSE debts[d]
      /\ merge.moved = {[id |-> d, into |-> NoRow, before |-> debts[d].amount,
                         after |-> [amount |-> debts[d].amount, deleted |-> FALSE],
                         links |-> {}] : d \in of}
  BY <1>1 DEF HandsOver
<1>3. \A d \in of : d \in DOMAIN debts /\ ~debts[d].deleted /\ debts[d].counterparty = loser
  BY DEF DebtsOf, Live
<1>4. \A e \in merge.moved : e.into = NoRow /\ e.id \in of
  BY <1>2
<1> HIDE DEF of
<1>5. \A d \in of : \E e \in merge.moved : e.id = d
  <2> SUFFICES ASSUME NEW d \in of PROVE \E e \in merge.moved : e.id = d
    OBVIOUS
  <2> DEFINE entry == [id |-> d, into |-> NoRow, before |-> debts[d].amount,
                       after |-> [amount |-> debts[d].amount, deleted |-> FALSE],
                       links |-> {}]
  <2>1. entry \in merge.moved
    BY <1>2
  <2>2. entry.id = d
    OBVIOUS
  <2> HIDE DEF entry
  <2> QED BY <2>1, <2>2
<1>6. undone = {} /\ revived = {}
  BY <1>4
<1>7. \A d \in of : d \in DebtsOf(merged.debts, winner)
  <2> SUFFICES ASSUME NEW d \in of PROVE d \in DebtsOf(merged.debts, winner)
    OBVIOUS
  <2>1. debts[d] \in OpeningDebt /\ merged.debts[d] = [debts[d] EXCEPT !.counterparty = winner]
    BY <1>2, <1>3 DEF Typed
  <2>2. merged.debts[d].counterparty = winner /\ merged.debts[d].deleted = debts[d].deleted
    BY <2>1 DEF OpeningDebt
  <2> QED BY <1>2, <1>3, <2>2 DEF DebtsOf, Live
<1>8. back = of
  BY <1>1, <1>4, <1>5, <1>7
<1>9. ASSUME NEW d \in DOMAIN debts PROVE UnmergedDebts(merged.debts, merge)[d] = debts[d]
  <2>1. \E amount : UnmergedDebts(merged.debts, merge)[d] =
            IF d \in back THEN [merged.debts[d] EXCEPT !.counterparty = merge.loser]
            ELSE IF d \in revived
            THEN [merged.debts[d] EXCEPT !.deleted = FALSE, !.amount = amount]
            ELSE merged.debts[d]
    BY <1>2 DEF UnmergedDebts
  <2> HIDE DEF back, revived
  <2>2. debts[d] \in OpeningDebt
    BY DEF Typed
  <2>3. CASE d \in of
    <3>1. UnmergedDebts(merged.debts, merge)[d] =
            [[debts[d] EXCEPT !.counterparty = winner] EXCEPT !.counterparty = loser]
      BY <1>1, <1>2, <1>8, <2>1, <2>3
    <3>2. debts[d].counterparty = loser
      BY <1>3, <2>3
    <3> QED BY <2>2, <3>1, <3>2 DEF OpeningDebt
  <2>4. CASE d \notin of
    BY <1>2, <1>6, <1>8, <2>1, <2>4
  <2> QED BY <2>3, <2>4
<1> QED BY <1>6, <1>9 DEF Undone

\* The debts and links where the two debts were summed up.
LEMMA SummedUpAndBack ==
    ASSUME NEW debts, NEW txs, Typed(debts, txs), NEW winner \in People, NEW loser \in People,
           winner # loser, NEW named, NEW merged, NEW x, NEW y,
           SumsUp(debts, txs, winner, loser, named, merged, x, y),
           NEW merge, merge = RecordOf(winner, loser, named, merged),
           NEW again, DOMAIN again = DOMAIN txs,
           \A t \in DOMAIN txs : /\ again[t] \in Transaction
                                 /\ again[t].link = merged.transactions[t].link
    PROVE  /\ \A d \in DOMAIN debts : UnmergedDebts(merged.debts, merge)[d] = debts[d]
           /\ \A t \in DOMAIN txs :
                UnmergedLinks(merged.debts, again, merge)[t].link = txs[t].link
<1> DEFINE sum == SumOf(debts, x, y)
           gone == (sum = 0)
           held == IF gone THEN debts[y].amount ELSE sum
           repointed == Repointed(txs, named, loser, winner)
           now == merged.transactions
           debts2 == merged.debts
           links == {[id |-> t, was |-> repointed[t].link, now |-> now[t].link] :
                       t \in Changed(repointed, now)}
           entry == [id |-> x, into |-> y, before |-> debts[y].amount,
                     after |-> [amount |-> debts2[y].amount, deleted |-> gone],
                     links |-> links]
           back == {e.id : e \in {e \in merge.moved :
                      e.into = NoRow /\ e.id \in DebtsOf(debts2, merge.winner)}}
           undone == {e \in merge.moved : e.into # NoRow /\ Untouched(debts2, e)}
           revived == {e.id : e \in undone} \cup {e.into : e \in undone}
<1>1. /\ DebtsOf(debts, loser) = {x} /\ y \in DebtsOf(debts, winner) /\ x # y
      /\ DOMAIN debts2 = DOMAIN debts
      /\ \A d \in DOMAIN debts \ {x, y} : debts2[d] = debts[d]
      /\ debts2[x] = [debts[x] EXCEPT !.deleted = TRUE]
      /\ debts2[y] = [debts[y] EXCEPT !.amount = held, !.deleted = gone]
      /\ merge.moved = {entry}
  BY DEF SumsUp, RecordOf
<1>2. gone \in BOOLEAN
  OBVIOUS
<1>3. /\ x \in DOMAIN debts /\ y \in DOMAIN debts /\ y # NoRow
      /\ ~debts[x].deleted /\ ~debts[y].deleted
      /\ debts[x] \in OpeningDebt /\ debts[y] \in OpeningDebt
  <2>1. x \in DebtsOf(debts, loser) /\ y \in DebtsOf(debts, winner)
    BY <1>1
  <2> QED BY <2>1 DEF DebtsOf, Live, Typed, RowIds, NoRow
<1>4. Typed(debts, repointed) /\ NamesAnother(txs, repointed, named, loser, winner)
  BY RepointedRows
<1>5. /\ entry.id = x /\ entry.into = y /\ entry.before = debts[y].amount
      /\ entry.after = [amount |-> debts2[y].amount, deleted |-> gone]
      /\ entry.links = links
  OBVIOUS
<1> HIDE DEF entry, sum, gone, held, debts2, now, repointed
<1>6. debts2[y].deleted = gone
  BY <1>1, <1>2, <1>3 DEF OpeningDebt
<1>7. Untouched(debts2, entry)
  BY <1>5, <1>6 DEF Untouched
<1>8. back = {} /\ undone = {entry}
  BY <1>1, <1>3, <1>5, <1>7
<1>9. revived = {x, y}
  BY <1>5, <1>8
<1>10. ASSUME NEW d \in DOMAIN debts PROVE UnmergedDebts(debts2, merge)[d] = debts[d]
  <2> DEFINE restored == IF \E e \in undone : e.into = d
                         THEN (CHOOSE e \in undone : e.into = d).before ELSE debts2[d].amount
  <2>1. UnmergedDebts(debts2, merge)[d] =
            IF d \in back THEN [debts2[d] EXCEPT !.counterparty = merge.loser]
            ELSE IF d \in revived
            THEN [debts2[d] EXCEPT !.deleted = FALSE, !.amount = restored]
            ELSE debts2[d]
    BY <1>1 DEF UnmergedDebts
  <2>2. /\ d = y => restored = debts[y].amount
        /\ d # y => restored = debts2[d].amount
    <3> HIDE DEF undone
    <3>1. CASE d = y
      <4>1. \E e \in undone : e.into = d
        BY <1>5, <1>8, <3>1
      <4>2. (CHOOSE e \in undone : e.into = d) = entry
        BY <1>5, <1>8, <4>1
      <4> QED BY <1>5, <3>1, <4>1, <4>2
    <3>2. CASE d # y
      BY <1>5, <1>8, <3>2
    <3> QED BY <3>1, <3>2
  <2> HIDE DEF restored, back, undone, revived
  <2>3. CASE d = x
    <3>1. restored = debts[x].amount
      BY <1>1, <1>3, <2>2, <2>3 DEF OpeningDebt
    <3>2. UnmergedDebts(debts2, merge)[d] =
            [[debts[x] EXCEPT !.deleted = TRUE] EXCEPT !.deleted = FALSE, !.amount = restored]
      BY <1>1, <1>8, <1>9, <2>1, <2>3
    <3> QED BY <1>3, <2>3, <3>1, <3>2 DEF OpeningDebt
  <2>4. CASE d = y
    <3>1. UnmergedDebts(debts2, merge)[d] =
            [[debts[y] EXCEPT !.amount = held, !.deleted = gone]
               EXCEPT !.deleted = FALSE, !.amount = restored]
      BY <1>1, <1>8, <1>9, <2>1, <2>4
    <3> QED BY <1>3, <2>2, <2>4, <3>1 DEF OpeningDebt
  <2>5. CASE d \notin {x, y}
    BY <1>1, <1>8, <1>9, <2>1, <2>5
  <2> QED BY <2>3, <2>4, <2>5
<1> DEFINE changes == {c \in UNION {e.links : e \in undone} : again[c.id].link = c.now}
           last == UnmergedLinks(debts2, again, merge)
<1>11. changes = links
  <2>1. UNION {e.links : e \in undone} = links
    <3> HIDE DEF undone, links
    <3> QED BY <1>5, <1>8
  <2>2. \A c \in links : again[c.id].link = c.now
    BY <1>4 DEF Changed, NamesAnother, now
  <2> HIDE DEF undone, links
  <2> QED BY <2>1, <2>2
<1>12. ASSUME NEW t \in DOMAIN txs PROVE last[t].link = txs[t].link
  <2>1. last[t] = IF \E c \in changes : c.id = t
                  THEN [again[t] EXCEPT !.link = (CHOOSE c \in changes : c.id = t).was]
                  ELSE again[t]
    BY DEF UnmergedLinks
  <2>2. repointed[t].link = txs[t].link /\ again[t].link = now[t].link
        /\ again[t] \in Transaction /\ t \in DOMAIN repointed
    BY <1>4 DEF NamesAnother, now
  <2>3. CASE t \in Changed(repointed, now)
    <3> DEFINE c == [id |-> t, was |-> repointed[t].link, now |-> now[t].link]
    <3>1. c \in links /\ c.id = t /\ c.was = txs[t].link
      BY <2>2, <2>3
    <3>2. \A e \in links : e.id = t => e = c
      OBVIOUS
    <3> HIDE DEF c, links, changes
    <3>3. \E e \in changes : e.id = t
      BY <1>11, <3>1
    <3>4. (CHOOSE e \in changes : e.id = t) = c
      BY <1>11, <3>1, <3>2, <3>3
    <3>5. last[t] = [again[t] EXCEPT !.link = c.was]
      BY <2>1, <3>3, <3>4
    <3> QED BY <2>2, <3>1, <3>5 DEF Transaction
  <2>4. CASE t \notin Changed(repointed, now)
    <3>1. now[t].link = repointed[t].link
      BY <2>2, <2>4 DEF Changed
    <3>2. ~\E c \in links : c.id = t
      BY <2>4
    <3> HIDE DEF links, changes
    <3> QED BY <1>11, <2>1, <2>2, <3>1, <3>2
  <2> QED BY <2>3, <2>4
<1> QED BY <1>10, <1>12 DEF debts2

\* Two rows that agree in every field are one.
LEMMA SameRow ==
    ASSUME NEW r \in Transaction, NEW s \in Transaction, SameButLink(r, s),
           s.counterparty = r.counterparty, s.link = r.link
    PROVE  r = s
BY DEF Transaction, SameButLink

\* Where the debts were handed over, no link has changed.
LEMMA NothingUndone ==
    ASSUME NEW debts, NEW txs, NEW merge, Undone(debts, merge) = {}, NEW t \in DOMAIN txs
    PROVE  UnmergedLinks(debts, txs, merge)[t] = txs[t]
<1> DEFINE undone == {e \in merge.moved : e.into # NoRow /\ Untouched(debts, e)}
           changes == {c \in UNION {e.links : e \in undone} : txs[c.id].link = c.now}
<1>1. undone = {}
  BY DEF Undone
<1>2. changes = {}
  <2> HIDE DEF undone
  <2> QED BY <1>1
<1>3. UnmergedLinks(debts, txs, merge)[t] =
        IF \E c \in changes : c.id = t
        THEN [txs[t] EXCEPT !.link = (CHOOSE c \in changes : c.id = t).was] ELSE txs[t]
  BY DEF UnmergedLinks
<1> HIDE DEF changes
<1> QED BY <1>2, <1>3

\* The round trip: the debts as they were, and the rows that do not straddle.
LEMMA MergedAndBack ==
    ASSUME NEW debts, NEW txs, Typed(debts, txs), NEW winner \in People, NEW loser \in People,
           winner # loser, NEW named, named = NamedNow(txs, loser),
           NEW merged, merged = MergedRows(debts, txs, winner, loser, named),
           LeavesNothing(merged, loser),
           NEW merge, merge = RecordOf(winner, loser, named, merged),
           NEW back, back = UnmergedRows(merged.debts, merged.transactions, merge)
    PROVE  /\ back.debts = [d \in DOMAIN debts |-> debts[d]]
           /\ \A t \in DOMAIN txs : ~Straddles(txs[t], winner, loser) =>
                                       back.transactions[t] = txs[t]
<1> DEFINE mid == merged.transactions
           again == Repointed(mid, named \cap Live(mid), winner, loser)
<1>1. /\ Typed(merged.debts, mid)
      /\ DOMAIN merged.debts = DOMAIN debts /\ DOMAIN mid = DOMAIN txs
      /\ \A t \in DOMAIN txs : ~Straddles(txs[t], winner, loser) =>
           /\ back.transactions[t] \in Transaction
           /\ SameButLink(txs[t], back.transactions[t])
           /\ back.transactions[t].counterparty = txs[t].counterparty
  BY RoundTripRows
<1>2. /\ back.debts = UnmergedDebts(merged.debts, merge)
      /\ back.transactions = UnmergedLinks(merged.debts, again, merge)
  BY DEF UnmergedRows, RecordOf
<1> HIDE DEF mid, again
<1>3. Typed(merged.debts, again)
      /\ NamesAnother(mid, again, named \cap Live(mid), winner, loser)
  BY <1>1, RepointedRows DEF again
<1>4. DOMAIN again = DOMAIN txs
      /\ \A t \in DOMAIN txs : again[t] \in Transaction /\ again[t].link = mid[t].link
  BY <1>1, <1>3 DEF NamesAnother, Typed
<1>5. /\ \A d \in DOMAIN debts : UnmergedDebts(merged.debts, merge)[d] = debts[d]
      /\ \A t \in DOMAIN txs :
           UnmergedLinks(merged.debts, again, merge)[t].link = txs[t].link
  <2>1. CASE HandsOver(debts, txs, winner, loser, named, merged)
    <3>1. /\ \A d \in DOMAIN debts : UnmergedDebts(merged.debts, merge)[d] = debts[d]
          /\ Undone(merged.debts, merge) = {}
      BY <2>1, HandedOverAndBack
    <3>2. \A t \in DOMAIN txs : UnmergedLinks(merged.debts, again, merge)[t] = again[t]
      BY <1>4, <3>1, NothingUndone
    <3>3. \A t \in DOMAIN txs : mid[t].link = txs[t].link
      <4>1. mid = Repointed(txs, named, loser, winner)
        BY <2>1 DEF HandsOver, mid
      <4> QED BY <4>1, RepointedRows DEF NamesAnother
    <3> QED BY <1>4, <3>1, <3>2, <3>3
  <2>2. CASE \E x, y : SumsUp(debts, txs, winner, loser, named, merged, x, y)
    <3>1. PICK x, y : SumsUp(debts, txs, winner, loser, named, merged, x, y)
      BY <2>2
    <3> QED BY <1>4, <3>1, SummedUpAndBack DEF mid
  <2> QED BY <2>1, <2>2, MergesHandOverOrSumUp
<1>6. back.debts = [d \in DOMAIN debts |-> debts[d]]
  <2>1. DOMAIN back.debts = DOMAIN debts
        /\ back.debts = [d \in DOMAIN merged.debts |-> back.debts[d]]
    BY <1>1, <1>2 DEF UnmergedDebts
  <2> QED BY <1>1, <1>2, <1>5, <2>1
<1>7. ASSUME NEW t \in DOMAIN txs, ~Straddles(txs[t], winner, loser)
      PROVE  back.transactions[t] = txs[t]
  <2>1. txs[t] \in Transaction
    BY DEF Typed
  <2> QED BY <1>1, <1>2, <1>5, <1>7, <2>1, SameRow
<1> QED BY <1>6, <1>7

\* The table of the opening debts is a function, so that two of them are one
\* when they agree on every debt.
DebtsAreATable == openingDebts = [d \in DOMAIN openingDebts |-> openingDebts[d]]

\* Every write replaces the table by a table.
LEMMA DebtsStayATable == DebtsAreATable /\ [Next]_vars => DebtsAreATable'
<1> SUFFICES ASSUME DebtsAreATable, [Next]_vars PROVE DebtsAreATable'
  OBVIOUS
<1>1. ASSUME NEW c \in Newcomers, CreateCounterparty(c.who, c.name) PROVE DebtsAreATable'
  BY <1>1 DEF CreateCounterparty, rows, DebtsAreATable
<1>2. ASSUME NEW c \in Patches, UpdateCounterparty(c.who, c.name, c.archived)
      PROVE  DebtsAreATable'
  BY <1>2 DEF UpdateCounterparty, rows, DebtsAreATable
<1>3. ASSUME NEW pair \in Doubts, RecordDistinct(pair) PROVE DebtsAreATable'
  BY <1>3 DEF RecordDistinct, rows, DebtsAreATable
<1>4. ASSUME NEW debt \in Debts, RecordOpeningDebt(debt.who, debt.amount)
      PROVE  DebtsAreATable'
  <2>1. PutOpeningDebt(debt.who, debt.amount)
    BY <1>4 DEF RecordOpeningDebt
  <2>2. CASE openingDebts' = With(openingDebts, NextId, [counterparty |-> debt.who,
                                  amount |-> debt.amount, deleted |-> FALSE])
    BY <2>2 DEF With, DebtsAreATable
  <2>3. CASE \E d \in DebtsOf(openingDebts, debt.who) :
                openingDebts' = [openingDebts EXCEPT ![d].amount = debt.amount]
    BY <2>3 DEF DebtsAreATable
  <2> QED BY <2>1, <2>2, <2>3 DEF PutOpeningDebt
<1>5. ASSUME NEW c \in Payments, NEW type \in Types, SettleDebt(c.who, type, c.amount)
      PROVE  DebtsAreATable'
  BY <1>5 DEF SettleDebt, DebtsAreATable
<1>6. ASSUME NEW d \in DOMAIN openingDebts, DeleteOpeningDebt(d) PROVE DebtsAreATable'
  BY <1>6 DEF DeleteOpeningDebt, RemoveOpeningDebt, DebtsAreATable
<1>7. ASSUME NEW c \in Captures, CreateTransaction(c) PROVE DebtsAreATable'
  BY <1>7 DEF CreateTransaction, DebtsAreATable
<1>8. ASSUME NEW t \in DOMAIN transactions, DeleteTransaction(t) PROVE DebtsAreATable'
  BY <1>8 DEF DeleteTransaction, RemoveTransaction, DebtsAreATable
<1>9. ASSUME NEW t \in DOMAIN transactions, NEW e \in Edits, UpdateTransaction(t, e)
      PROVE  DebtsAreATable'
  BY <1>9 DEF UpdateTransaction, DebtsAreATable
<1>10. ASSUME NEW c \in Duplicates, NEW named \in SUBSET DOMAIN transactions,
              Merge(c.winner, c.loser, named)
       PROVE  DebtsAreATable'
  <2> DEFINE merged == MergedRows(openingDebts, transactions, c.winner, c.loser, named)
  <2>1. openingDebts' = merged.debts
    BY <1>10 DEF Merge
  <2>2. merged.debts = [d \in DOMAIN merged.debts |-> merged.debts[d]]
    BY DEF MergedRows, Summed
  <2> QED BY <2>1, <2>2 DEF DebtsAreATable
<1>11. ASSUME NEW m \in DOMAIN merges, Unmerge(m) PROVE DebtsAreATable'
  <2>1. openingDebts' = UnmergedDebts(openingDebts, merges[m])
    BY <1>11 DEF Unmerge, UnmergedRows
  <2> QED BY <2>1 DEF UnmergedDebts, DebtsAreATable
<1>12. CASE UNCHANGED vars
  BY <1>12 DEF vars, DebtsAreATable
<1> QED BY <1>1, <1>2, <1>3, <1>4, <1>5, <1>6, <1>7, <1>8, <1>9, <1>10, <1>11, <1>12 DEF Next

\* Every merge that could be made now, taken back at once, gives back every
\* debt, every link and both parties of every row that is not between the two.
LEMMA RoundTripsUndo ==
    TypeInv /\ DebtsAreATable => UnmergeUndoesMerge
<1> SUFFICES ASSUME TypeInv, DebtsAreATable, NEW winner \in People, NEW loser \in People
             PROVE  RoundTrip(winner, loser, {t \in DOMAIN transactions :
                                                ~Straddles(transactions[t], winner, loser)})
  BY DEF UnmergeUndoesMerge
<1> DEFINE named == NamedNow(transactions, loser)
           merged == MergedRows(openingDebts, transactions, winner, loser, named)
           merge == RecordOf(winner, loser, named, merged)
           back == UnmergedRows(merged.debts, merged.transactions, merge)
           compared == {t \in DOMAIN transactions : ~Straddles(transactions[t], winner, loser)}
<1>1. ASSUME MayMerge(winner, loser, named)
      PROVE  back.debts = openingDebts
             /\ \A t \in compared : back.transactions[t] = transactions[t]
  <2>1. winner # loser /\ LeavesNothing(merged, loser) /\ Typed(openingDebts, transactions)
    BY <1>1 DEF MayMerge, TypeInv
  <2>2. /\ back.debts = [d \in DOMAIN openingDebts |-> openingDebts[d]]
        /\ \A t \in DOMAIN transactions : ~Straddles(transactions[t], winner, loser) =>
                                             back.transactions[t] = transactions[t]
    <3> HIDE DEF named, merged, merge, back
    <3> QED BY <2>1, MergedAndBack DEF named, merged, merge, back
  <2> HIDE DEF back
  <2> QED BY <2>2 DEF DebtsAreATable
<1>2. RoundTrip(winner, loser, compared) <=>
        (MayMerge(winner, loser, named)
         => back.debts = openingDebts
            /\ \A t \in compared : back.transactions[t] = transactions[t])
  BY DEF RoundTrip, NamedNow, RecordOf
<1> HIDE DEF named, merged, merge, back, compared
<1>3. RoundTrip(winner, loser, compared)
  BY <1>1, <1>2
<1> QED BY <1>3 DEF compared

\* Any merge that could be made now, taken back at once, restores every debt,
\* every link of a repayment and both links of every transaction but those that
\* straddle the two (unmerge-counterparties.executor.ts).
THEOREM UnmergesUndoTheirMerge == Spec => []UnmergeUndoesMerge
<1>1. Init => DebtsAreATable
  BY DEF Init, DebtsAreATable
<1> QED BY <1>1, DebtsStayATable, RoundTripsUndo, TypeInvAlways, PTL DEF Spec

-----------------------------------------------------------------------------
(* What two people are owed between them.                                   *)

\* The two parts of a balance.
DebtPart(debts, p) == Total(debts, DebtsOf(debts, p))
RowsOf(txs, p) == {t \in Live(txs) : txs[t].obligation = p}
RowPart(txs, p) == SumFunctionOnSet(OwedOf(txs), RowsOf(txs, p))

\* What a debt is worth, and what those of `apart` do together.
WorthOf(debts, d) == IF debts[d].deleted THEN 0 ELSE debts[d].amount
TotalApart(debts, apart) == Total(debts, Live(debts) \cap apart)

\* The rows `now` are those of `txs`, of which some went between the two.
SharedRows(txs, now, w, l) ==
    /\ DOMAIN now = DOMAIN txs
    /\ \A t \in DOMAIN txs :
         /\ now[t].type = txs[t].type /\ now[t].amount = txs[t].amount
         /\ now[t].deleted = txs[t].deleted
         /\ \/ now[t].obligation = txs[t].obligation
            \/ now[t].obligation \in {w, l} /\ txs[t].obligation \in {w, l}

\* The same of the debts, of which the two's `apart` are worth as much together.
SharedDebts(debts, now, w, l, apart) ==
    /\ DOMAIN now = DOMAIN debts /\ apart \subseteq DOMAIN debts
    /\ \A d \in DOMAIN debts \ apart :
         /\ now[d].amount = debts[d].amount /\ now[d].deleted = debts[d].deleted
         /\ \/ now[d].counterparty = debts[d].counterparty
            \/ now[d].counterparty \in {w, l} /\ debts[d].counterparty \in {w, l}
    /\ \A d \in apart : now[d].counterparty \in {w, l} /\ debts[d].counterparty \in {w, l}
    /\ TotalApart(now, apart) = TotalApart(debts, apart)

\* One set taken apart in two ways adds up to one sum.
LEMMA SharedSums ==
    ASSUME NEW f, NEW A, NEW B, NEW C, NEW D, IsFiniteSet(A \cup B), IsFiniteSet(C \cup D),
           A \cap B = {}, C \cap D = {}, A \cup B = C \cup D,
           \A x \in A \cup B : f[x] \in Int
    PROVE  SumFunctionOnSet(f, A) + SumFunctionOnSet(f, B) =
             SumFunctionOnSet(f, C) + SumFunctionOnSet(f, D)
<1>1. IsFiniteSet(A) /\ IsFiniteSet(B) /\ IsFiniteSet(C) /\ IsFiniteSet(D)
  BY FS_Subset
<1>2. SumFunctionOnSet(f, A \cup B) = SumFunctionOnSet(f, A) + SumFunctionOnSet(f, B)
  BY <1>1, SumOfBoth
<1>3. SumFunctionOnSet(f, C \cup D) = SumFunctionOnSet(f, C) + SumFunctionOnSet(f, D)
  BY <1>1, SumOfBoth
<1>4. SumFunctionOnSet(f, A \cup B) = SumFunctionOnSet(f, C \cup D)
  OBVIOUS
<1> QED BY <1>2, <1>3, <1>4

\* What rows that went between two are worth to the two, and to anybody else.
LEMMA RowsAreShared ==
    ASSUME NEW debts, NEW txs, Typed(debts, txs), NEW w, NEW l, w # l,
           NEW now, SharedRows(txs, now, w, l)
    PROVE  /\ \A p : RowPart(txs, p) \in Int
           /\ RowPart(now, w) + RowPart(now, l) = RowPart(txs, w) + RowPart(txs, l)
           /\ \A p \in People \ {w, l} : RowPart(now, p) = RowPart(txs, p)
<1> DEFINE f == OwedOf(txs)
<1>1. OwedOf(now) = f
  BY DEF OwedOf, SharedRows
<1>2. \A t \in DOMAIN txs : f[t] \in Int
  BY RowsAssumption DEF OwedOf, Typed, Transaction, Amounts
<1>3. Live(now) = Live(txs) /\ Live(txs) \subseteq DOMAIN txs
  BY DEF Live, SharedRows
<1> HIDE DEF f
<1>4. \A p : RowsOf(txs, p) \subseteq DOMAIN txs /\ RowsOf(now, p) \subseteq DOMAIN txs
  BY <1>3 DEF RowsOf
<1>5. \A S : S \subseteq DOMAIN txs => IsFiniteSet(S)
  BY RowsAreFinite DEF Typed
<1>6. \A p : RowPart(txs, p) = SumFunctionOnSet(f, RowsOf(txs, p))
             /\ RowPart(now, p) = SumFunctionOnSet(f, RowsOf(now, p))
  BY <1>1 DEF RowPart, f
<1>7. ASSUME NEW p PROVE RowPart(txs, p) \in Int
  <2> DEFINE S == RowsOf(txs, p)
  <2>1. IsFiniteSet(S) /\ \A t \in S : f[t] \in Int
    BY <1>2, <1>4, <1>5
  <2> HIDE DEF S
  <2>2. SumFunctionOnSet(f, S) \in Int
    BY <2>1, SumAtThePick
  <2> QED BY <1>6, <2>2 DEF S
<1>8. ASSUME NEW p \in People \ {w, l} PROVE RowPart(now, p) = RowPart(txs, p)
  <2>1. RowsOf(now, p) = RowsOf(txs, p)
    BY <1>3 DEF RowsOf, SharedRows
  <2> QED BY <1>6, <2>1
<1> DEFINE A == RowsOf(now, w)
           B == RowsOf(now, l)
           C == RowsOf(txs, w)
           D == RowsOf(txs, l)
<1>9. A \cup B = C \cup D /\ A \cap B = {} /\ C \cap D = {}
  BY <1>3 DEF RowsOf, SharedRows
<1>10. A \cup B \subseteq DOMAIN txs /\ C \cup D \subseteq DOMAIN txs
  BY <1>4
<1> HIDE DEF A, B, C, D
<1>11. /\ IsFiniteSet(A \cup B) /\ IsFiniteSet(C \cup D)
       /\ \A t \in A \cup B : f[t] \in Int
  BY <1>2, <1>5, <1>10
<1>12. SumFunctionOnSet(f, A) + SumFunctionOnSet(f, B) =
         SumFunctionOnSet(f, C) + SumFunctionOnSet(f, D)
  BY <1>9, <1>11, SharedSums
<1> QED BY <1>6, <1>7, <1>8, <1>12 DEF A, B, C, D

\* What a part of a table adds up to, where the amounts are those of another.
LEMMA TotalIsTheSame ==
    ASSUME NEW debts, NEW now, NEW S, IsFiniteSet(S),
           S \subseteq DOMAIN debts, S \subseteq DOMAIN now,
           \A d \in S : debts[d].amount \in Int /\ now[d].amount = debts[d].amount
    PROVE  Total(now, S) = Total(debts, S)
<1> DEFINE f == AmountOf(debts)
           g == AmountOf(now)
<1>1. \A d \in S : f[d] \in Int /\ f[d] = g[d]
  BY DEF AmountOf
<1> HIDE DEF f, g
<1>2. SumFunctionOnSet(f, S) = SumFunctionOnSet(g, S)
  BY <1>1, SumIsTheSame
<1> QED BY <1>2 DEF Total, f, g

\* The debts of two are those of `apart` and the rest.
OfTheTwo(debts, w, l, apart) ==
    apart \subseteq DOMAIN debts /\ \A d \in apart : debts[d].counterparty \in {w, l}
RestOf(debts, w, l, apart) == {d \in Live(debts) : debts[d].counterparty \in {w, l}} \ apart

LEMMA TotalOfTheTwo ==
    ASSUME NEW debts, NEW txs, Typed(debts, txs), NEW w, NEW l, w # l,
           NEW apart, OfTheTwo(debts, w, l, apart), NEW rest, rest = RestOf(debts, w, l, apart)
    PROVE  /\ DebtPart(debts, w) \in Int /\ DebtPart(debts, l) \in Int
           /\ Total(debts, rest) \in Int /\ TotalApart(debts, apart) \in Int
           /\ DebtPart(debts, w) + DebtPart(debts, l) =
                Total(debts, rest) + TotalApart(debts, apart)
<1> DEFINE f == AmountOf(debts)
           A == DebtsOf(debts, w)
           B == DebtsOf(debts, l)
           D == Live(debts) \cap apart
<1>1. Live(debts) \subseteq DOMAIN debts
  BY DEF Live
<1>2. \A d \in DOMAIN debts : f[d] \in Int
  BY RowsAssumption DEF AmountOf, Typed, OpeningDebt, SignedAmounts
<1>3. \A S : S \subseteq DOMAIN debts => IsFiniteSet(S)
  BY RowsAreFinite DEF Typed
<1>4. A \cup B = rest \cup D /\ A \cap B = {} /\ rest \cap D = {}
  BY <1>1 DEF DebtsOf, OfTheTwo, RestOf
<1>5. A \cup B \subseteq DOMAIN debts /\ rest \cup D \subseteq DOMAIN debts
  BY <1>1 DEF DebtsOf, RestOf
<1>6. /\ DebtPart(debts, w) = SumFunctionOnSet(f, A)
      /\ DebtPart(debts, l) = SumFunctionOnSet(f, B)
      /\ Total(debts, rest) = SumFunctionOnSet(f, rest)
      /\ TotalApart(debts, apart) = SumFunctionOnSet(f, D)
  BY DEF DebtPart, TotalApart, Total
<1> HIDE DEF f, A, B, D
<1>7. /\ IsFiniteSet(A \cup B) /\ IsFiniteSet(rest \cup D)
      /\ \A d \in A \cup B : f[d] \in Int
  BY <1>2, <1>3, <1>5
<1>8. \A S : S \subseteq DOMAIN debts => SumFunctionOnSet(f, S) \in Int
  BY <1>2, <1>3, SumAtThePick
<1>9. SumFunctionOnSet(f, A) + SumFunctionOnSet(f, B) =
        SumFunctionOnSet(f, rest) + SumFunctionOnSet(f, D)
  BY <1>4, <1>7, SharedSums
<1>10. A \subseteq DOMAIN debts /\ B \subseteq DOMAIN debts /\ rest \subseteq DOMAIN debts
       /\ D \subseteq DOMAIN debts
  BY <1>5
<1> QED BY <1>6, <1>8, <1>9, <1>10

\* What debts that went between two, and the two's `apart`, are worth to the two
\* and to anybody else.
LEMMA DebtsAreShared ==
    ASSUME NEW debts, NEW txs, Typed(debts, txs), NEW now, NEW txs2, Typed(now, txs2),
           NEW w, NEW l, w # l, NEW apart, SharedDebts(debts, now, w, l, apart)
    PROVE  /\ DebtPart(debts, w) \in Int /\ DebtPart(debts, l) \in Int
           /\ DebtPart(now, w) \in Int /\ DebtPart(now, l) \in Int
           /\ DebtPart(now, w) + DebtPart(now, l) = DebtPart(debts, w) + DebtPart(debts, l)
           /\ \A p \in People \ {w, l} : DebtPart(now, p) = DebtPart(debts, p)
<1> DEFINE rest == RestOf(debts, w, l, apart)
           rest2 == RestOf(now, w, l, apart)
<1>1. /\ DOMAIN now = DOMAIN debts /\ apart \subseteq DOMAIN debts
      /\ \A d \in apart : debts[d].counterparty \in {w, l} /\ now[d].counterparty \in {w, l}
      /\ TotalApart(now, apart) = TotalApart(debts, apart)
  BY DEF SharedDebts
<1>2. rest2 = rest /\ rest \subseteq DOMAIN debts
  BY <1>1 DEF Live, SharedDebts, RestOf
<1>3. \A d \in DOMAIN debts : debts[d].amount \in Int
  BY RowsAssumption DEF Typed, OpeningDebt, SignedAmounts
<1>4. \A S : S \subseteq DOMAIN debts => IsFiniteSet(S)
  BY RowsAreFinite DEF Typed
<1>5. \A d \in rest : now[d].amount = debts[d].amount
  BY <1>2 DEF SharedDebts, RestOf
<1>6. /\ OfTheTwo(debts, w, l, apart) /\ rest = RestOf(debts, w, l, apart)
      /\ OfTheTwo(now, w, l, apart) /\ rest2 = RestOf(now, w, l, apart)
  BY <1>1 DEF OfTheTwo
<1> HIDE DEF rest, rest2
<1>7. Total(now, rest) = Total(debts, rest)
  BY <1>1, <1>2, <1>3, <1>4, <1>5, TotalIsTheSame
<1>8. /\ DebtPart(debts, w) \in Int /\ DebtPart(debts, l) \in Int
      /\ DebtPart(debts, w) + DebtPart(debts, l) =
           Total(debts, rest) + TotalApart(debts, apart)
  BY <1>6, TotalOfTheTwo
<1>9. /\ DebtPart(now, w) \in Int /\ DebtPart(now, l) \in Int
      /\ DebtPart(now, w) + DebtPart(now, l) = Total(now, rest2) + TotalApart(now, apart)
  BY <1>6, TotalOfTheTwo
<1>10. ASSUME NEW p \in People \ {w, l} PROVE DebtPart(now, p) = DebtPart(debts, p)
  <2> DEFINE S == DebtsOf(debts, p)
  <2>1. DebtsOf(now, p) = S
    BY <1>1 DEF DebtsOf, Live, SharedDebts
  <2>2. S \subseteq DOMAIN debts
    BY DEF DebtsOf, Live
  <2>3. \A d \in S : now[d].amount = debts[d].amount
    BY <1>1 DEF DebtsOf, Live, SharedDebts
  <2> HIDE DEF S
  <2>4. Total(now, S) = Total(debts, S)
    BY <1>1, <1>3, <1>4, <2>2, <2>3, TotalIsTheSame
  <2> QED BY <2>1, <2>4 DEF DebtPart, S
<1> QED BY <1>1, <1>2, <1>7, <1>8, <1>9, <1>10

\* What two debts add up to, deleted or not.
LEMMA TotalOfTwo ==
    ASSUME NEW debts, NEW txs, Typed(debts, txs), NEW x \in DOMAIN debts,
           NEW y \in DOMAIN debts, x # y
    PROVE  TotalApart(debts, {x, y}) = WorthOf(debts, x) + WorthOf(debts, y)
<1> DEFINE f == AmountOf(debts)
           S == Live(debts) \cap {x, y}
           Sum(s) == SumFunctionOnSet(f, s)
<1>1. \A d \in DOMAIN debts : f[d] \in Int /\ f[d] = debts[d].amount
  BY RowsAssumption DEF AmountOf, Typed, OpeningDebt, SignedAmounts
<1>2. Sum({}) = 0
  BY SumOfNothing
<1>3. IsFiniteSet({x, y}) /\ IsFiniteSet({x}) /\ IsFiniteSet({y})
  BY RowsAreFinite DEF Typed
<1> HIDE DEF f
<1>4. ASSUME NEW z \in {x, y} PROVE Sum({z}) = f[z]
  <2>1. IsFiniteSet({z}) /\ (\A d \in {z} : f[d] \in Int) /\ z \in {z}
    BY <1>1, <1>3
  <2>2. Sum({z}) = f[z] + Sum({z} \ {z})
    BY <2>1, SumTakesOut
  <2>3. Sum({z} \ {z}) = Sum({})
    <3>1. {z} \ {z} = {}
      OBVIOUS
    <3> QED BY <3>1, Zenon
  <2> HIDE DEF Sum
  <2> QED BY <1>1, <1>2, <2>2, <2>3
<1>5. Sum({x, y}) = f[x] + f[y]
  <2>1. Sum({x, y}) = f[x] + Sum({x, y} \ {x})
    BY <1>1, <1>3, SumTakesOut
  <2>2. Sum({x, y} \ {x}) = Sum({y})
    <3>1. {x, y} \ {x} = {y}
      OBVIOUS
    <3> QED BY <3>1, Zenon
  <2>3. Sum({y}) = f[y]
    BY <1>4
  <2> HIDE DEF Sum
  <2> QED BY <2>1, <2>2, <2>3
<1>6. TotalApart(debts, {x, y}) = Sum(S)
  BY DEF TotalApart, Total, f
<1>7. /\ x \in Live(debts) <=> ~debts[x].deleted
      /\ y \in Live(debts) <=> ~debts[y].deleted
  BY DEF Live
<1>8. f[x] = debts[x].amount /\ f[y] = debts[y].amount /\ f[x] \in Int /\ f[y] \in Int
  BY <1>1
<1>9. CASE debts[x].deleted /\ debts[y].deleted
  <2>1. S = {}
    BY <1>7, <1>9
  <2> HIDE DEF S, Sum
  <2>2. TotalApart(debts, {x, y}) = 0
    BY <1>2, <1>6, <2>1, Zenon
  <2> QED BY <1>9, <2>2 DEF WorthOf
<1>10. CASE debts[x].deleted /\ ~debts[y].deleted
  <2>1. S = {y} /\ Sum({y}) = f[y]
    BY <1>4, <1>7, <1>10
  <2> HIDE DEF S, Sum
  <2>2. TotalApart(debts, {x, y}) = f[y]
    BY <1>6, <2>1, Zenon
  <2> QED BY <1>8, <1>10, <2>2 DEF WorthOf
<1>11. CASE ~debts[x].deleted /\ debts[y].deleted
  <2>1. S = {x} /\ Sum({x}) = f[x]
    BY <1>4, <1>7, <1>11
  <2> HIDE DEF S, Sum
  <2>2. TotalApart(debts, {x, y}) = f[x]
    BY <1>6, <2>1, Zenon
  <2> QED BY <1>8, <1>11, <2>2 DEF WorthOf
<1>12. CASE ~debts[x].deleted /\ ~debts[y].deleted
  <2>1. S = {x, y}
    BY <1>7, <1>12
  <2> HIDE DEF S, Sum
  <2>2. TotalApart(debts, {x, y}) = Sum({x, y})
    BY <1>6, <2>1, Zenon
  <2> QED BY <1>5, <1>8, <1>12, <2>2 DEF WorthOf
<1> QED BY <1>9, <1>10, <1>11, <1>12

\* Two tables of debts and rows in which two people have what they had between
\* them, and everybody else what they had.
MoneyStays(debts, txs, debts2, txs2, w, l) ==
    /\ Balance(debts2, txs2, w) + Balance(debts2, txs2, l) =
         Balance(debts, txs, w) + Balance(debts, txs, l)
    /\ \A p \in People \ {w, l} : Balance(debts2, txs2, p) = Balance(debts, txs, p)

\* Debts and rows shared between two people are money shared between them.
LEMMA SharedMoneyStays ==
    ASSUME NEW debts, NEW txs, Typed(debts, txs), NEW debts2, NEW txs2, Typed(debts2, txs2),
           NEW w, NEW l, w # l, NEW apart,
           SharedDebts(debts, debts2, w, l, apart), SharedRows(txs, txs2, w, l)
    PROVE  MoneyStays(debts, txs, debts2, txs2, w, l)
<1>1. \A p : /\ Balance(debts, txs, p) = DebtPart(debts, p) + RowPart(txs, p)
             /\ Balance(debts2, txs2, p) = DebtPart(debts2, p) + RowPart(txs2, p)
  BY DEF Balance, DebtPart, RowPart, RowsOf
<1>2. /\ \A p : RowPart(txs, p) \in Int
      /\ RowPart(txs2, w) + RowPart(txs2, l) = RowPart(txs, w) + RowPart(txs, l)
      /\ \A p \in People \ {w, l} : RowPart(txs2, p) = RowPart(txs, p)
  BY RowsAreShared
<1>3. /\ DebtPart(debts, w) \in Int /\ DebtPart(debts, l) \in Int
      /\ DebtPart(debts2, w) \in Int /\ DebtPart(debts2, l) \in Int
      /\ DebtPart(debts2, w) + DebtPart(debts2, l) = DebtPart(debts, w) + DebtPart(debts, l)
      /\ \A p \in People \ {w, l} : DebtPart(debts2, p) = DebtPart(debts, p)
  BY DebtsAreShared
<1>4. RowPart(txs2, w) \in Int /\ RowPart(txs2, l) \in Int
  <2>1. SharedRows(txs2, txs2, w, l)
    BY DEF SharedRows
  <2> QED BY <2>1, RowsAreShared
<1>5. /\ RowPart(txs, w) \in Int /\ RowPart(txs, l) \in Int
  BY <1>2
<1>6. Balance(debts2, txs2, w) + Balance(debts2, txs2, l) =
        Balance(debts, txs, w) + Balance(debts, txs, l)
  <2>1. \A a, b, c, d, e, f, g, h \in Int :
           a + b = e + f /\ c + d = g + h => (a + c) + (b + d) = (e + g) + (f + h)
    OBVIOUS
  <2>2. (DebtPart(debts2, w) + RowPart(txs2, w)) + (DebtPart(debts2, l) + RowPart(txs2, l)) =
          (DebtPart(debts, w) + RowPart(txs, w)) + (DebtPart(debts, l) + RowPart(txs, l))
    BY <1>2, <1>3, <1>4, <1>5, <2>1
  <2> QED BY <1>1, <2>2
<1>7. \A p \in People \ {w, l} : Balance(debts2, txs2, p) = Balance(debts, txs, p)
  BY <1>1, <1>2, <1>3
<1> QED BY <1>6, <1>7 DEF MoneyStays

\* A merge: what changed hands went from the loser to the winner.
LEMMA MergedMoneyStays ==
    ASSUME NEW debts, NEW txs, Typed(debts, txs), NEW winner \in People, NEW loser \in People,
           winner # loser, NEW named,
           NEW merged, merged = MergedRows(debts, txs, winner, loser, named),
           LeavesNothing(merged, loser)
    PROVE  /\ MoneyStays(debts, txs, merged.debts, merged.transactions, winner, loser)
           /\ Balance(merged.debts, merged.transactions, loser) = 0
<1> DEFINE repointed == Repointed(txs, named, loser, winner)
           now == merged.debts
           mid == merged.transactions
<1>1. \/ HandsOver(debts, txs, winner, loser, named, merged)
      \/ \E x, y : SumsUp(debts, txs, winner, loser, named, merged, x, y)
  BY MergesHandOverOrSumUp
<1>2. Fit(debts, txs, RowIds, {})
  BY DEF Fit, Live, Typed
<1>3. MergesInto(debts, txs, merged, RowIds, {})
  BY <1>1, <1>2, HandedOverRows, SummedUpRows
<1>4. Typed(now, mid) /\ DOMAIN now = DOMAIN debts /\ DOMAIN mid = DOMAIN txs
  BY <1>3 DEF MergesInto
<1>5. \A t \in DOMAIN txs : SameButLink(repointed[t], mid[t])
  <2>1. CASE HandsOver(debts, txs, winner, loser, named, merged)
    <3>1. mid = repointed
      BY <2>1 DEF HandsOver
    <3> HIDE DEF mid, repointed
    <3> QED BY <3>1 DEF SameButLink
  <2>2. CASE \E x, y : SumsUp(debts, txs, winner, loser, named, merged, x, y)
    BY <1>2, <2>2, SummedUpRows
  <2> QED BY <1>1, <2>1, <2>2
<1>6. NamesAnother(txs, repointed, named, loser, winner)
  BY RepointedRows
<1>7. SharedRows(txs, mid, winner, loser)
  <2> HIDE DEF mid, repointed
  <2> QED BY <1>4, <1>5, <1>6 DEF SharedRows, NamesAnother, SameButLink, Party
<1>8. \E apart : SharedDebts(debts, now, winner, loser, apart)
  <2>1. CASE HandsOver(debts, txs, winner, loser, named, merged)
    <3>1. ASSUME NEW d \in DOMAIN debts
          PROVE  /\ now[d].amount = debts[d].amount /\ now[d].deleted = debts[d].deleted
                 /\ \/ now[d].counterparty = debts[d].counterparty
                    \/ /\ now[d].counterparty \in {winner, loser}
                       /\ debts[d].counterparty \in {winner, loser}
      <4>1. /\ debts[d] \in OpeningDebt
            /\ now[d] = IF d \in DebtsOf(debts, loser)
                        THEN [debts[d] EXCEPT !.counterparty = winner] ELSE debts[d]
        BY <2>1 DEF HandsOver, Typed
      <4>2. CASE d \in DebtsOf(debts, loser)
        <5>1. debts[d].counterparty = loser
          BY <4>2 DEF DebtsOf
        <5>2. now[d] = [debts[d] EXCEPT !.counterparty = winner]
          BY <4>1, <4>2
        <5> HIDE DEF now
        <5> QED BY <4>1, <5>1, <5>2 DEF OpeningDebt
      <4>3. CASE d \notin DebtsOf(debts, loser)
        BY <4>1, <4>3
      <4> QED BY <4>2, <4>3
    <3>2. TotalApart(now, {}) = TotalApart(debts, {})
      <4>1. Live(now) \cap {} = {} /\ Live(debts) \cap {} = {}
        OBVIOUS
      <4>2. Total(now, {}) = 0 /\ Total(debts, {}) = 0
        BY SumOfNothing DEF Total
      <4> HIDE DEF now
      <4> QED BY <4>1, <4>2 DEF TotalApart
    <3> HIDE DEF now
    <3>3. SharedDebts(debts, now, winner, loser, {})
      BY <1>4, <3>1, <3>2 DEF SharedDebts
    <3> QED BY <3>3
  <2>2. CASE \E x, y : SumsUp(debts, txs, winner, loser, named, merged, x, y)
    <3>1. PICK x, y : SumsUp(debts, txs, winner, loser, named, merged, x, y)
      BY <2>2
    <3> DEFINE sum == SumOf(debts, x, y)
               gone == (sum = 0)
               held == IF gone THEN debts[y].amount ELSE sum
    <3>2. /\ DebtsOf(debts, loser) = {x} /\ y \in DebtsOf(debts, winner) /\ x # y
          /\ \A d \in DOMAIN debts \ {x, y} : now[d] = debts[d]
          /\ now[x] = [debts[x] EXCEPT !.deleted = TRUE]
          /\ now[y] = [debts[y] EXCEPT !.amount = held, !.deleted = gone]
      BY <3>1 DEF SumsUp
    <3>3. gone \in BOOLEAN
      OBVIOUS
    <3>4. /\ x \in DOMAIN debts /\ y \in DOMAIN debts
          /\ ~debts[x].deleted /\ ~debts[y].deleted
          /\ debts[x].counterparty = loser /\ debts[y].counterparty = winner
          /\ debts[x] \in OpeningDebt /\ debts[y] \in OpeningDebt
      <4>1. x \in DebtsOf(debts, loser) /\ y \in DebtsOf(debts, winner)
        BY <3>2
      <4> QED BY <4>1 DEF DebtsOf, Live, Typed
    <3> HIDE DEF now, held, gone
    <3>5. /\ now[x].deleted /\ now[x].counterparty = loser
          /\ now[y].amount = held /\ now[y].deleted = gone /\ now[y].counterparty = winner
      BY <3>2, <3>3, <3>4 DEF OpeningDebt
    <3>6. WorthOf(now, x) + WorthOf(now, y) = WorthOf(debts, x) + WorthOf(debts, y)
      <4>1. debts[x].amount \in Int /\ debts[y].amount \in Int
        BY <3>4, RowsAssumption DEF OpeningDebt, SignedAmounts
      <4>2. WorthOf(debts, x) + WorthOf(debts, y) = sum /\ sum \in Int
        BY <3>4, <4>1 DEF WorthOf, SumOf
      <4> HIDE DEF sum
      <4>3. WorthOf(now, x) = 0 /\ WorthOf(now, y) = sum
        BY <3>5, <4>2 DEF WorthOf, held, gone
      <4> QED BY <4>2, <4>3
    <3>7. TotalApart(now, {x, y}) = TotalApart(debts, {x, y})
      BY <1>4, <3>2, <3>4, <3>6, TotalOfTwo
    <3>8. SharedDebts(debts, now, winner, loser, {x, y})
      BY <1>4, <3>2, <3>4, <3>5, <3>7 DEF SharedDebts
    <3> QED BY <3>8
  <2> QED BY <1>1, <2>1, <2>2
<1>9. MoneyStays(debts, txs, now, mid, winner, loser)
  <2> HIDE DEF now, mid
  <2> QED BY <1>4, <1>7, <1>8, SharedMoneyStays
<1>10. Balance(now, mid, loser) = 0
  <2>1. DebtsOf(now, loser) = {} /\ {t \in Live(mid) : mid[t].obligation = loser} = {}
    BY DEF LeavesNothing, Involves
  <2> HIDE DEF now, mid
  <2>2. Total(now, {}) = 0 /\ SumFunctionOnSet(OwedOf(mid), {}) = 0
    BY SumOfNothing DEF Total
  <2> QED BY <2>1, <2>2 DEF Balance
<1> QED BY <1>9, <1>10

\* What an open merge that summed two debts up has recorded of them: the loser's
\* is deleted, and what both held is what the winner's was left with.
SumRecorded(debts, r, e) ==
    /\ r.moved = {e} /\ e.id # e.into
    /\ debts[e.id].deleted
    /\ debts[e.id].counterparty = r.loser /\ debts[e.into].counterparty = r.winner
    /\ debts[e.id].amount + e.before = IF e.after.deleted THEN 0 ELSE e.after.amount
SumsRecorded(debts, r) == \A e \in r.moved : e.into # NoRow => SumRecorded(debts, r, e)
Sums == \A m \in DOMAIN merges : IsOpen(m) => SumsRecorded(openingDebts, merges[m])

\* An unmerge: what changes hands goes from the winner to the loser, and the two
\* debts that were summed up hold together what the sum does.
LEMMA UnmergedMoneyStays ==
    ASSUME NEW debts, NEW txs, Typed(debts, txs), NEW known, known \subseteq People, NEW merge,
           RecordTyped(merge, known, debts, txs), SumsRecorded(debts, merge),
           NEW back, back = UnmergedRows(debts, txs, merge)
    PROVE  MoneyStays(debts, txs, back.debts, back.transactions, merge.winner, merge.loser)
<1> DEFINE winner == merge.winner
           loser == merge.loser
           named == merge.named \cap Live(txs)
           repointed == Repointed(txs, named, winner, loser)
           now == back.debts
           last == back.transactions
           handed == {e.id : e \in {e \in merge.moved :
                        e.into = NoRow /\ e.id \in DebtsOf(debts, winner)}}
           undone == Undone(debts, merge)
           revived == {e.id : e \in undone} \cup {e.into : e \in undone}
<1>1. /\ now = UnmergedDebts(debts, merge)
      /\ last = UnmergedLinks(debts, repointed, merge)
  BY DEF UnmergedRows
<1>2. /\ winner \in People /\ loser \in People /\ winner # loser
      /\ \A e \in merge.moved : EntryTyped(e, debts)
  BY DEF RecordTyped
<1>3. /\ DOMAIN now = DOMAIN debts /\ DOMAIN last = DOMAIN txs /\ Typed(now, last)
  <2>1. Fit(debts, txs, RowIds, {})
    BY DEF Fit, Live, Typed
  <2> DEFINE apart == RowIds \cup ApartIn(merge)
             handed2 == merge.named
  <2>2. /\ RowIds \subseteq apart /\ ApartIn(merge) \subseteq apart
        /\ {} \subseteq handed2 /\ merge.named \subseteq handed2
    OBVIOUS
  <2> HIDE DEF apart, handed2
  <2>3. UnmergesInto(debts, txs, back, apart, handed2)
    BY <2>1, <2>2, UnmergedTables
  <2> QED BY <2>3 DEF UnmergesInto
<1>4. SharedRows(txs, last, winner, loser)
  <2>1. Typed(debts, repointed) /\ NamesAnother(txs, repointed, named, winner, loser)
    BY <1>2, RepointedRows
  <2>2. RecordTyped(merge, known, debts, repointed)
    BY <2>1 DEF RecordTyped, NamesAnother
  <2> HIDE DEF repointed, last, winner, loser
  <2>3. \A t \in DOMAIN repointed : SameButLink(repointed[t], last[t])
    BY <1>1, <2>1, <2>2, UnmergedLink
  <2> QED BY <1>3, <2>1, <2>3 DEF SharedRows, NamesAnother, SameButLink, Party
<1>5. \E apart : SharedDebts(debts, now, winner, loser, apart)
  <2>1. ASSUME NEW d \in DOMAIN debts
        PROVE  /\ debts[d] \in OpeningDebt
               /\ d \in handed => now[d] = [debts[d] EXCEPT !.counterparty = loser]
               /\ d \notin handed /\ d \notin revived => now[d] = debts[d]
    BY <1>1 DEF UnmergedDebts, Typed, Undone
  <2>2. CASE undone = {}
    <3>1. revived = {}
      BY <2>2
    <3>2. ASSUME NEW d \in DOMAIN debts
          PROVE  /\ now[d].amount = debts[d].amount /\ now[d].deleted = debts[d].deleted
                 /\ \/ now[d].counterparty = debts[d].counterparty
                    \/ /\ now[d].counterparty \in {winner, loser}
                       /\ debts[d].counterparty \in {winner, loser}
      <4>1. d \in handed => debts[d].counterparty = winner
        BY DEF DebtsOf
      <4> HIDE DEF now, handed, revived, winner, loser
      <4>2. CASE d \in handed
        <5>1. now[d] = [debts[d] EXCEPT !.counterparty = loser] /\ debts[d] \in OpeningDebt
          BY <2>1, <4>2
        <5> QED BY <4>1, <4>2, <5>1 DEF OpeningDebt
      <4>3. CASE d \notin handed
        BY <2>1, <3>1, <4>3
      <4> QED BY <4>2, <4>3
    <3>3. TotalApart(now, {}) = TotalApart(debts, {})
      <4>1. Live(now) \cap {} = {} /\ Live(debts) \cap {} = {}
        OBVIOUS
      <4>2. Total(now, {}) = 0 /\ Total(debts, {}) = 0
        BY SumOfNothing DEF Total
      <4> HIDE DEF now
      <4> QED BY <4>1, <4>2 DEF TotalApart
    <3> HIDE DEF now, winner, loser
    <3>4. SharedDebts(debts, now, winner, loser, {})
      BY <1>3, <3>2, <3>3 DEF SharedDebts
    <3> QED BY <3>4
  <2>3. CASE undone # {}
    <3>1. PICK e \in merge.moved : e \in undone
      BY <2>3 DEF Undone
    <3> DEFINE x == e.id
               y == e.into
    <3>2. /\ merge.moved = {e} /\ x # y /\ debts[x].deleted /\ y # NoRow
          /\ debts[x].counterparty = loser /\ debts[y].counterparty = winner
          /\ debts[x].amount + e.before = IF e.after.deleted THEN 0 ELSE e.after.amount
          /\ e.after = [amount |-> debts[y].amount, deleted |-> debts[y].deleted]
      BY <3>1 DEF SumsRecorded, SumRecorded, Undone, Untouched
    <3>3. x \in DOMAIN debts /\ y \in DOMAIN debts /\ e.before \in SignedAmounts
      BY <1>2, <3>2 DEF EntryTyped
    <3>4. undone = {e}
      BY <3>1, <3>2 DEF Undone
    <3>5. handed = {} /\ revived = {x, y}
      BY <3>2, <3>4
    <3>6. debts[x] \in OpeningDebt /\ debts[y] \in OpeningDebt
      BY <3>3 DEF Typed
    <3>7. /\ now[x] = [debts[x] EXCEPT !.deleted = FALSE, !.amount = debts[x].amount]
          /\ now[y] = [debts[y] EXCEPT !.deleted = FALSE, !.amount = e.before]
      <4> DEFINE Restored(d) == IF \E f \in undone : f.into = d
                                THEN (CHOOSE f \in undone : f.into = d).before
                                ELSE debts[d].amount
      <4>1. \A d \in DOMAIN debts : d \notin handed /\ d \in revived =>
               now[d] = [debts[d] EXCEPT !.deleted = FALSE, !.amount = Restored(d)]
        BY <1>1 DEF UnmergedDebts, Undone
      <4> HIDE DEF undone
      <4>2. Restored(x) = debts[x].amount
        BY <3>2, <3>4
      <4>3. Restored(y) = e.before
        <5>1. \E f \in undone : f.into = y
          BY <3>4
        <5>2. (CHOOSE f \in undone : f.into = y) = e
          BY <3>4, <5>1
        <5> QED BY <5>1, <5>2
      <4> HIDE DEF Restored, now, handed, revived, x, y
      <4> QED BY <3>3, <3>5, <4>1, <4>2, <4>3
    <3>8. \A d \in DOMAIN debts \ {x, y} : now[d] = debts[d]
      <4> HIDE DEF now, handed, revived, x, y
      <4> QED BY <2>1, <3>5
    <3> HIDE DEF now, handed, undone, revived, winner, loser, x, y
    <3>9. /\ ~now[x].deleted /\ now[x].amount = debts[x].amount /\ now[x].counterparty = loser
          /\ ~now[y].deleted /\ now[y].amount = e.before /\ now[y].counterparty = winner
      BY <3>2, <3>6, <3>7 DEF OpeningDebt
    <3>10. WorthOf(now, x) + WorthOf(now, y) = WorthOf(debts, x) + WorthOf(debts, y)
      <4>1. debts[x].amount \in Int /\ e.before \in Int /\ debts[y].amount \in Int
        BY <3>3, <3>6, RowsAssumption DEF OpeningDebt, SignedAmounts
      <4>2. WorthOf(now, x) + WorthOf(now, y) = debts[x].amount + e.before
        BY <3>9 DEF WorthOf
      <4>3. WorthOf(debts, x) = 0
        BY <3>2 DEF WorthOf
      <4>4. WorthOf(debts, y) = debts[x].amount + e.before
        <5>1. e.after.amount = debts[y].amount /\ e.after.deleted = debts[y].deleted
          BY <3>2
        <5> QED BY <3>2, <5>1 DEF WorthOf
      <4> QED BY <4>1, <4>2, <4>3, <4>4
    <3>11. TotalApart(now, {x, y}) = TotalApart(debts, {x, y})
      BY <1>3, <3>2, <3>3, <3>10, TotalOfTwo
    <3>12. SharedDebts(debts, now, winner, loser, {x, y})
      BY <1>3, <3>2, <3>3, <3>8, <3>9, <3>11 DEF SharedDebts
    <3> QED BY <3>12
  <2> QED BY <2>2, <2>3
<1> HIDE DEF now, last, winner, loser
<1>6. MoneyStays(debts, txs, now, last, winner, loser)
  BY <1>2, <1>3, <1>4, <1>5, SharedMoneyStays
<1> QED BY <1>6 DEF now, last, winner, loser

-----------------------------------------------------------------------------
(* The recorded sums stay true.                                             *)

\* The debts of some people, of which none goes to another and the deleted ones
\* stay as they are.
KeepsTheDebtsOf(debts, now, some) ==
    /\ DOMAIN debts \subseteq DOMAIN now
    /\ \A d \in DOMAIN debts : debts[d].counterparty \in some =>
         /\ now[d].counterparty = debts[d].counterparty
         /\ debts[d].deleted => now[d] = debts[d]

\* What a merge recorded stands while its two debts are left in place.
LEMMA SumsRecordedStay ==
    ASSUME NEW debts, NEW txs, NEW known, NEW r, RecordTyped(r, known, debts, txs),
           SumsRecorded(debts, r), NEW now, KeepsTheDebtsOf(debts, now, {r.winner, r.loser})
    PROVE  SumsRecorded(now, r)
<1> SUFFICES ASSUME NEW e \in r.moved, e.into # NoRow PROVE SumRecorded(now, r, e)
  BY DEF SumsRecorded
<1>1. SumRecorded(debts, r, e)
  BY DEF SumsRecorded
<1>2. e.id \in DOMAIN debts /\ e.into \in DOMAIN debts
  BY DEF RecordTyped, EntryTyped
<1>3. /\ now[e.id] = debts[e.id]
      /\ now[e.into].counterparty = debts[e.into].counterparty
  BY <1>1, <1>2 DEF SumRecorded, KeepsTheDebtsOf
<1> QED BY <1>1, <1>3 DEF SumRecorded

\* Recording and deleting a debt change neither whose it is nor a deleted one.
LEMMA WritesKeepDebts ==
    ASSUME Typed(openingDebts, transactions), Numbered, NEW some,
           \/ UNCHANGED openingDebts
           \/ \E p, amount : PutOpeningDebt(p, amount)
           \/ \E d : RemoveOpeningDebt(d)
    PROVE  KeepsTheDebtsOf(openingDebts, openingDebts', some)
<1>1. \A d \in DOMAIN openingDebts : openingDebts[d] \in OpeningDebt
  BY DEF Typed
<1>2. CASE UNCHANGED openingDebts
  BY <1>2 DEF KeepsTheDebtsOf
<1>3. CASE \E p, amount : PutOpeningDebt(p, amount)
  <2>1. PICK p, amount : PutOpeningDebt(p, amount)
    BY <1>3
  <2>2. CASE openingDebts' = With(openingDebts, NextId,
                 [counterparty |-> p, amount |-> amount, deleted |-> FALSE])
    <3>1. NextId \notin DOMAIN openingDebts
      BY NextIsFree
    <3> QED BY <2>2, <3>1 DEF With, KeepsTheDebtsOf
  <2>3. CASE \E d \in DebtsOf(openingDebts, p) :
                openingDebts' = [openingDebts EXCEPT ![d].amount = amount]
    <3>1. PICK d \in DebtsOf(openingDebts, p) :
                 openingDebts' = [openingDebts EXCEPT ![d].amount = amount]
      BY <2>3
    <3>2. ~openingDebts[d].deleted /\ d \in DOMAIN openingDebts
      BY DEF DebtsOf, Live
    <3>3. openingDebts'[d] = [openingDebts[d] EXCEPT !.amount = amount]
          /\ DOMAIN openingDebts' = DOMAIN openingDebts
          /\ \A i \in DOMAIN openingDebts : i # d => openingDebts'[i] = openingDebts[i]
      BY <3>1, <3>2
    <3>4. openingDebts'[d].counterparty = openingDebts[d].counterparty
      BY <1>1, <3>2, <3>3 DEF OpeningDebt
    <3> QED BY <3>2, <3>3, <3>4 DEF KeepsTheDebtsOf
  <2> QED BY <2>1, <2>2, <2>3 DEF PutOpeningDebt
<1>4. CASE \E d : RemoveOpeningDebt(d)
  <2>1. PICK d \in Live(openingDebts) :
               openingDebts' = [openingDebts EXCEPT ![d].deleted = TRUE]
    BY <1>4 DEF RemoveOpeningDebt
  <2>2. ~openingDebts[d].deleted /\ d \in DOMAIN openingDebts
    BY DEF Live
  <2>3. openingDebts'[d] = [openingDebts[d] EXCEPT !.deleted = TRUE]
        /\ DOMAIN openingDebts' = DOMAIN openingDebts
        /\ \A i \in DOMAIN openingDebts : i # d => openingDebts'[i] = openingDebts[i]
    BY <2>1, <2>2
  <2>4. openingDebts'[d].counterparty = openingDebts[d].counterparty
    BY <1>1, <2>2, <2>3 DEF OpeningDebt
  <2> QED BY <2>2, <2>3, <2>4 DEF KeepsTheDebtsOf
<1> QED BY <1>2, <1>3, <1>4

\* A merge changes only the debts of the two, and records the sum it makes.
LEMMA MergeKeepsDebts ==
    ASSUME NEW debts, NEW txs, Typed(debts, txs), NEW winner \in People, NEW loser \in People,
           winner # loser, NEW named,
           NEW merged, merged = MergedRows(debts, txs, winner, loser, named),
           LeavesNothing(merged, loser)
    PROVE  /\ \A some : winner \notin some /\ loser \notin some =>
                 KeepsTheDebtsOf(debts, merged.debts, some)
           /\ \A r : /\ r.winner = winner /\ r.loser = loser /\ r.moved = merged.moved
                     => SumsRecorded(merged.debts, r)
<1> DEFINE now == merged.debts
<1>1. CASE HandsOver(debts, txs, winner, loser, named, merged)
  <2>1. /\ DOMAIN now = DOMAIN debts
        /\ \A d \in DOMAIN debts :
             now[d] = IF d \in DebtsOf(debts, loser)
                      THEN [debts[d] EXCEPT !.counterparty = winner] ELSE debts[d]
        /\ \A e \in merged.moved : e.into = NoRow
    BY <1>1 DEF HandsOver
  <2>2. \A d \in DebtsOf(debts, loser) : debts[d].counterparty = loser
    BY DEF DebtsOf
  <2> HIDE DEF now
  <2> QED BY <2>1, <2>2 DEF KeepsTheDebtsOf, SumsRecorded, now
<1>2. CASE \E x, y : SumsUp(debts, txs, winner, loser, named, merged, x, y)
  <2>1. PICK x, y : SumsUp(debts, txs, winner, loser, named, merged, x, y)
    BY <1>2
  <2> DEFINE sum == SumOf(debts, x, y)
             gone == (sum = 0)
             held == IF gone THEN debts[y].amount ELSE sum
  <2>2. /\ DebtsOf(debts, loser) = {x} /\ y \in DebtsOf(debts, winner) /\ x # y
        /\ DOMAIN now = DOMAIN debts
        /\ \A d \in DOMAIN debts \ {x, y} : now[d] = debts[d]
        /\ now[x] = [debts[x] EXCEPT !.deleted = TRUE]
        /\ now[y] = [debts[y] EXCEPT !.amount = held, !.deleted = gone]
    BY <2>1 DEF SumsUp
  <2>3. /\ x \in DOMAIN debts /\ y \in DOMAIN debts
        /\ debts[x].counterparty = loser /\ debts[y].counterparty = winner
        /\ debts[x] \in OpeningDebt /\ debts[y] \in OpeningDebt
    <3>1. x \in DebtsOf(debts, loser) /\ y \in DebtsOf(debts, winner)
      BY <2>2
    <3> QED BY <3>1 DEF DebtsOf, Live, Typed
  <2>4. \A e \in merged.moved :
           /\ merged.moved = {e} /\ e.id = x /\ e.into = y /\ e.before = debts[y].amount
           /\ e.after.amount = now[y].amount /\ e.after.deleted = gone
    <3> DEFINE links == {[id |-> t, was |-> Repointed(txs, named, loser, winner)[t].link,
                          now |-> merged.transactions[t].link] :
                            t \in Changed(Repointed(txs, named, loser, winner),
                                          merged.transactions)}
               entry == [id |-> x, into |-> y, before |-> debts[y].amount,
                         after |-> [amount |-> now[y].amount, deleted |-> gone],
                         links |-> links]
    <3>1. merged.moved = {entry}
      BY <2>1 DEF SumsUp
    <3> HIDE DEF links, now, gone
    <3>2. /\ entry.id = x /\ entry.into = y /\ entry.before = debts[y].amount
          /\ entry.after.amount = now[y].amount /\ entry.after.deleted = gone
      OBVIOUS
    <3> HIDE DEF entry
    <3> QED BY <3>1, <3>2
  <2> HIDE DEF now, held, gone
  <2>5. /\ now[x].deleted /\ now[x].counterparty = loser /\ now[x].amount = debts[x].amount
        /\ now[y].counterparty = winner /\ now[y].amount = held
    BY <2>2, <2>3 DEF OpeningDebt
  <2>6. sum = now[x].amount + debts[y].amount
    BY <2>5 DEF SumOf
  <2>7. \A some : winner \notin some /\ loser \notin some => KeepsTheDebtsOf(debts, now, some)
    BY <2>2, <2>3 DEF KeepsTheDebtsOf
  <2> HIDE DEF sum
  <2>8. ASSUME NEW r, r.winner = winner, r.loser = loser, r.moved = merged.moved
        PROVE  SumsRecorded(now, r)
    <3> SUFFICES ASSUME NEW e \in merged.moved PROVE SumRecorded(now, r, e)
      BY <2>8 DEF SumsRecorded
    <3>1. now[x].amount + debts[y].amount = IF e.after.deleted THEN 0 ELSE e.after.amount
      BY <2>4, <2>5, <2>6 DEF held, gone
    <3>2. /\ e.id = x /\ e.into = y /\ e.before = debts[y].amount
          /\ r.moved = {e} /\ r.winner = winner /\ r.loser = loser
      BY <2>4, <2>8
    <3>3. now[e.id].amount + e.before = IF e.after.deleted THEN 0 ELSE e.after.amount
      BY ONLY <3>1, <3>2
    <3>4. /\ e.id # e.into /\ now[e.id].deleted
          /\ now[e.id].counterparty = r.loser /\ now[e.into].counterparty = r.winner
      BY ONLY <2>2, <2>5, <3>2
    <3> QED BY <3>2, <3>3, <3>4 DEF SumRecorded
  <2> QED BY <2>7, <2>8 DEF now
<1> QED BY <1>1, <1>2, MergesHandOverOrSumUp

\* An unmerge changes only the debts of its two.
LEMMA UnmergeKeepsDebts ==
    ASSUME NEW debts, NEW merge, SumsRecorded(debts, merge), NEW some,
           merge.winner \notin some, merge.loser \notin some
    PROVE  KeepsTheDebtsOf(debts, UnmergedDebts(debts, merge), some)
<1> DEFINE now == UnmergedDebts(debts, merge)
           handed == {e.id : e \in {e \in merge.moved :
                        e.into = NoRow /\ e.id \in DebtsOf(debts, merge.winner)}}
           undone == {e \in merge.moved : e.into # NoRow /\ Untouched(debts, e)}
           revived == {e.id : e \in undone} \cup {e.into : e \in undone}
<1>1. /\ DOMAIN now = DOMAIN debts
      /\ \A d \in DOMAIN debts : d \notin handed /\ d \notin revived => now[d] = debts[d]
  BY DEF UnmergedDebts
<1>2. \A d \in handed : debts[d].counterparty = merge.winner
  BY DEF DebtsOf
<1>3. \A d \in revived : debts[d].counterparty \in {merge.winner, merge.loser}
  BY DEF SumsRecorded, SumRecorded
<1> HIDE DEF now, handed, revived
<1> QED BY <1>1, <1>2, <1>3 DEF KeepsTheDebtsOf, now

\* The other open merges are not of the two, so what they recorded stands.
LEMMA MergeKeepsSums ==
    ASSUME IInv, TypeInv, Sums, NEW winner \in People, NEW loser \in People, NEW named,
           Merge(winner, loser, named)
    PROVE  Sums'
<1> DEFINE merged == MergedRows(openingDebts, transactions, winner, loser, named)
           new == Len(merges) + 1
<1>1. /\ winner # loser /\ ~OnOpenMerge(winner) /\ ~OnOpenMerge(loser)
      /\ LeavesNothing(merged, loser) /\ openingDebts' = merged.debts
  BY DEF Merge, MayMerge
<1>2. /\ DOMAIN merges' = DOMAIN merges \cup {new}
      /\ \A m \in DOMAIN merges : merges'[m] = merges[m]
      /\ merges'[new] = [winner |-> winner, loser |-> loser, named |-> named,
                         moved |-> merged.moved, unmerged |-> FALSE]
  <2>1. DOMAIN merges = 1..Len(merges) /\ DOMAIN merges' = 1..(Len(merges) + 1)
        /\ Len(merges) \in Nat /\ \A m \in DOMAIN merges : merges'[m] = merges[m]
    BY MergeAppends DEF IInv
  <2>2. DOMAIN merges' = DOMAIN merges \cup {new}
    BY <2>1
  <2> QED BY <2>1, <2>2, MergeRecords DEF IInv
<1>3. Typed(openingDebts, transactions)
  BY DEF TypeInv
<1>4. merged = MergedRows(openingDebts, transactions, winner, loser, named)
  OBVIOUS
<1> HIDE DEF merged, new
<1>5. /\ \A some : winner \notin some /\ loser \notin some =>
             KeepsTheDebtsOf(openingDebts, openingDebts', some)
      /\ \A r : /\ r.winner = winner /\ r.loser = loser /\ r.moved = merged.moved
                => SumsRecorded(openingDebts', r)
  BY <1>1, <1>3, <1>4, MergeKeepsDebts
<1> SUFFICES ASSUME NEW m \in DOMAIN merges', IsOpen(m)'
             PROVE  SumsRecorded(openingDebts', merges'[m])
  BY DEF Sums
<1>6. CASE m \in DOMAIN merges
  <2> DEFINE r == merges[m]
             both == {r.winner, r.loser}
  <2>1. merges'[m] = r /\ IsOpen(m)
    BY <1>2, <1>6 DEF IsOpen
  <2>2. winner \notin both /\ loser \notin both
    BY <1>1, <1>6, <2>1 DEF OnOpenMerge
  <2>3. /\ RecordTyped(r, DOMAIN counterparties, openingDebts, transactions)
        /\ SumsRecorded(openingDebts, r)
    BY <1>6, <2>1 DEF TypeInv, RecordsTyped, Sums
  <2>4. KeepsTheDebtsOf(openingDebts, openingDebts', both)
    <3> HIDE DEF both
    <3> QED BY <1>5, <2>2
  <2> HIDE DEF r
  <2> QED BY <2>1, <2>3, <2>4, SumsRecordedStay
<1>7. CASE m = new
  BY <1>2, <1>5, <1>7
<1> QED BY <1>2, <1>6, <1>7

\* An unmerge takes apart its own debts, and no other merge is of its two.
LEMMA UnmergeKeepsSums ==
    ASSUME IInv, TypeInv, Sums, NEW m \in DOMAIN merges, Unmerge(m)
    PROVE  Sums'
<1>1. /\ IsOpen(m) /\ openingDebts' = UnmergedDebts(openingDebts, merges[m])
  BY DEF Unmerge, MayUnmerge, UnmergedRows
<1>2. /\ DOMAIN merges' = DOMAIN merges /\ merges'[m].unmerged = TRUE
      /\ \A n \in DOMAIN merges : n # m => merges'[n] = merges[n]
  BY UnmergeMarks DEF IInv
<1> SUFFICES ASSUME NEW n \in DOMAIN merges, IsOpen(n)'
             PROVE  SumsRecorded(openingDebts', merges'[n])
  BY <1>2 DEF Sums
<1> DEFINE r == merges[n]
           both == {r.winner, r.loser}
<1>3. n # m
  BY <1>2 DEF IsOpen
<1>4. merges'[n] = r /\ IsOpen(n)
  BY <1>2, <1>3 DEF IsOpen
<1>5. {merges[m].winner, merges[m].loser} \cap both = {}
  BY <1>1, <1>3, <1>4 DEF IInv, OpenMergesDoNotMeet
<1>6. merges[m].winner \notin both /\ merges[m].loser \notin both
  BY <1>5
<1>7. SumsRecorded(openingDebts, merges[m]) /\ SumsRecorded(openingDebts, r)
      /\ RecordTyped(r, DOMAIN counterparties, openingDebts, transactions)
  BY <1>1, <1>4 DEF Sums, TypeInv, RecordsTyped
<1>8. KeepsTheDebtsOf(openingDebts, openingDebts', both)
  <2> HIDE DEF both
  <2> QED BY <1>1, <1>6, <1>7, UnmergeKeepsDebts
<1> HIDE DEF r
<1> QED BY <1>4, <1>7, <1>8, SumsRecordedStay

\* Whatever else is written, the recorded sums stand.
LEMMA WritesKeepSums ==
    ASSUME TypeInv, Sums, UNCHANGED merges,
           \/ UNCHANGED openingDebts
           \/ \E p, amount : PutOpeningDebt(p, amount)
           \/ \E d : RemoveOpeningDebt(d)
    PROVE  Sums'
<1> SUFFICES ASSUME NEW m \in DOMAIN merges, IsOpen(m)
             PROVE  SumsRecorded(openingDebts', merges[m])
  BY DEF Sums, IsOpen
<1> DEFINE both == {merges[m].winner, merges[m].loser}
<1>1. Typed(openingDebts, transactions) /\ Numbered
  BY DEF TypeInv
<1>2. KeepsTheDebtsOf(openingDebts, openingDebts', both)
  <2> HIDE DEF both
  <2> QED BY <1>1, WritesKeepDebts
<1>3. /\ SumsRecorded(openingDebts, merges[m])
      /\ RecordTyped(merges[m], DOMAIN counterparties, openingDebts, transactions)
  BY DEF TypeInv, RecordsTyped, Sums
<1> QED BY <1>2, <1>3, SumsRecordedStay

\* Every step keeps what the open merges recorded.
LEMMA StepSums == IInv /\ TypeInv /\ Sums /\ [Next]_vars => Sums'
<1> SUFFICES ASSUME IInv, TypeInv, Sums, [Next]_vars PROVE Sums'
  OBVIOUS
<1>1. CASE \E c \in Duplicates, named \in SUBSET DOMAIN transactions :
             Merge(c.winner, c.loser, named)
  <2>1. PICK c \in Duplicates, named \in SUBSET DOMAIN transactions :
               Merge(c.winner, c.loser, named)
    BY <1>1
  <2>2. c.winner \in People /\ c.loser \in People
    BY ConstantsAssumption
  <2> QED BY <2>1, <2>2, MergeKeepsSums
<1>2. CASE \E m \in DOMAIN merges : Unmerge(m)
  BY <1>2, UnmergeKeepsSums
<1>3. CASE \E debt \in Debts : RecordOpeningDebt(debt.who, debt.amount)
  <2>1. (\E p, amount : PutOpeningDebt(p, amount)) /\ UNCHANGED merges
    BY <1>3 DEF RecordOpeningDebt, people
  <2> QED BY <2>1, WritesKeepSums
<1>4. CASE \E d \in DOMAIN openingDebts : DeleteOpeningDebt(d)
  <2>1. (\E d : RemoveOpeningDebt(d)) /\ UNCHANGED merges
    BY <1>4 DEF DeleteOpeningDebt, people
  <2> QED BY <2>1, WritesKeepSums
<1>5. CASE \/ \E c \in Newcomers : CreateCounterparty(c.who, c.name)
           \/ \E c \in Patches : UpdateCounterparty(c.who, c.name, c.archived)
           \/ \E pair \in Doubts : RecordDistinct(pair)
           \/ \E c \in Payments, type \in Types : SettleDebt(c.who, type, c.amount)
           \/ \E c \in Captures : CreateTransaction(c)
           \/ \E t \in DOMAIN transactions :
                 DeleteTransaction(t) \/ \E e \in Edits : UpdateTransaction(t, e)
           \/ UNCHANGED vars
  <2>1. UNCHANGED openingDebts /\ UNCHANGED merges
    BY <1>5 DEF CreateCounterparty, UpdateCounterparty, RecordDistinct, SettleDebt, people, rows,
               CreateTransaction, DeleteTransaction, RemoveTransaction, UpdateTransaction, vars
  <2> QED BY <2>1, WritesKeepSums
<1> QED BY <1>1, <1>2, <1>3, <1>4, <1>5 DEF Next

LEMMA SumsAlways == Spec => [](IInv /\ TypeInv /\ Sums)
<1>1. Init => Sums
  BY DEF Init, Sums
<1> QED BY <1>1, StepSums, TypeInvAlways, PTL DEF Spec

\* A merge hands the winner the loser's whole balance, an unmerge, however late,
\* changes only how the two share what they hold, and neither touches what
\* anybody else owes or is owed (merge- and unmerge-counterparties.executor.ts).
THEOREM MergesKeepTheMoney == Spec => MergesMoveNoMoney
<1> DEFINE Before(p) == Balance(openingDebts, transactions, p)
           After(p) == Balance(openingDebts', transactions', p)
           Kept(m) == /\ MoneyStays(openingDebts, transactions, openingDebts', transactions',
                                    merges'[m].winner, merges'[m].loser)
                      /\ m \notin DOMAIN merges => After(merges'[m].loser) = 0
           Conserved ==
               \A m \in DOMAIN merges' :
                   m \notin DOMAIN merges \/ merges'[m] # merges[m] =>
                      LET w == merges'[m].winner
                          l == merges'[m].loser
                      IN /\ After(w) + After(l) = Before(w) + Before(l)
                         /\ m \notin DOMAIN merges => After(l) = 0
                         /\ \A p \in People \ {w, l} : After(p) = Before(p)
<1>1. ASSUME IInv, TypeInv, Sums, [Next]_vars PROVE [Conserved]_vars
  <2> SUFFICES ASSUME Next, NEW m \in DOMAIN merges',
                      m \notin DOMAIN merges \/ merges'[m] # merges[m]
               PROVE  Kept(m)
    BY <1>1 DEF MoneyStays
  <2>1. CASE \E c \in Duplicates, named \in SUBSET DOMAIN transactions :
               Merge(c.winner, c.loser, named)
    <3>1. PICK c \in Duplicates, named \in SUBSET DOMAIN transactions :
                 Merge(c.winner, c.loser, named)
      BY <2>1
    <3> DEFINE winner == c.winner
               loser == c.loser
               merged == MergedRows(openingDebts, transactions, winner, loser, named)
    <3>2. /\ winner \in People /\ loser \in People /\ winner # loser
          /\ LeavesNothing(merged, loser)
          /\ openingDebts' = merged.debts /\ transactions' = merged.transactions
      BY <3>1, ConstantsAssumption DEF Merge, MayMerge
    <3>3. /\ m \notin DOMAIN merges /\ merges'[m].winner = winner /\ merges'[m].loser = loser
      <4>1. /\ DOMAIN merges' = 1..(Len(merges) + 1)
            /\ DOMAIN merges = 1..Len(merges) /\ Len(merges) \in Nat
            /\ \A n \in DOMAIN merges : merges'[n] = merges[n]
            /\ merges'[Len(merges) + 1].winner = winner
            /\ merges'[Len(merges) + 1].loser = loser
        BY <1>1, <3>1, MergeAppends DEF IInv
      <4>2. m = Len(merges) + 1
        BY <4>1
      <4> QED BY <4>1, <4>2
    <3>4. Typed(openingDebts, transactions)
      BY <1>1 DEF TypeInv
    <3>5. merged = MergedRows(openingDebts, transactions, winner, loser, named)
      OBVIOUS
    <3> HIDE DEF merged, winner, loser
    <3>6. /\ MoneyStays(openingDebts, transactions, merged.debts, merged.transactions,
                        winner, loser)
          /\ Balance(merged.debts, merged.transactions, loser) = 0
      BY <3>2, <3>4, <3>5, MergedMoneyStays
    <3> QED BY <3>2, <3>3, <3>6
  <2>2. CASE \E n \in DOMAIN merges : Unmerge(n)
    <3>1. PICK n \in DOMAIN merges : Unmerge(n)
      BY <2>2
    <3> DEFINE merge == merges[n]
               back == UnmergedRows(openingDebts, transactions, merge)
    <3>2. /\ DOMAIN merges' = DOMAIN merges
          /\ merges'[n].winner = merge.winner /\ merges'[n].loser = merge.loser
          /\ \A k \in DOMAIN merges : k # n => merges'[k] = merges[k]
      BY <1>1, <3>1, UnmergeRecords DEF IInv
    <3>3. m = n /\ m \in DOMAIN merges
      BY <3>2
    <3>4. /\ openingDebts' = back.debts /\ transactions' = back.transactions /\ IsOpen(n)
      BY <3>1 DEF Unmerge, MayUnmerge
    <3>5. /\ Typed(openingDebts, transactions)
          /\ RecordTyped(merge, DOMAIN counterparties, openingDebts, transactions)
          /\ DOMAIN counterparties \subseteq People
          /\ SumsRecorded(openingDebts, merge)
      BY <1>1, <3>4 DEF TypeInv, RecordsTyped, NamesKnown, Sums
    <3>6. back = UnmergedRows(openingDebts, transactions, merge)
      OBVIOUS
    <3> HIDE DEF back, merge
    <3>7. MoneyStays(openingDebts, transactions, back.debts, back.transactions,
                     merge.winner, merge.loser)
      BY <3>5, <3>6, UnmergedMoneyStays
    <3> QED BY <3>2, <3>3, <3>4, <3>7
  <2>3. CASE UNCHANGED merges
    BY <2>3
  <2> QED BY <2>1, <2>2, <2>3 DEF Next, CreateCounterparty, UpdateCounterparty, RecordDistinct,
             RecordOpeningDebt, people, SettleDebt, DeleteOpeningDebt, CreateTransaction,
             DeleteTransaction, UpdateTransaction
<1> QED BY <1>1, SumsAlways, PTL DEF Spec, MergesMoveNoMoney
=============================================================================
