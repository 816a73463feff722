------------------------- MODULE CounterpartyMerge -------------------------
(***************************************************************************)
(* The people of the ledger and what is owed with them: merging two, the   *)
(* opening debts and repayments that go along, and the unmerge that takes  *)
(* a merge back after any number of other writes (the executors of         *)
(* packages/ledger/src/counterparties, with the transaction executors that *)
(* change the same rows).  Each operation is one replica transaction; a    *)
(* refusal rolls it back, so a refused operation is an action that is not  *)
(* enabled.                                                                *)
(*                                                                         *)
(* The rows, and what is read of them, are those of OpeningDebts.  There   *)
(* is one currency, and a settlement discharges what changes hands.        *)
(* No executor writes recurring_transactions, so a merge finds none.       *)
(***************************************************************************)
EXTENDS OpeningDebts, Sequences

CONSTANTS
    Names,          \* their folded names
    FirstPeople,    \* those there are at first
    Captures,       \* the transactions that may be captured
    Edits,          \* what a transaction may be edited to
    Newcomers,      \* who may be created, and under which name
    Patches,        \* what a counterparty may be changed to
    Doubts,         \* the pairs a person may be asked to tell apart
    Duplicates,     \* who may be merged into whom
    Debts,          \* the opening debts that may be recorded, signed
    Payments,       \* what may be settled, and with whom
    MaxMerges       \* bound on the merges ever made

ASSUME ConstantsAssumption ==
    /\ Captures \subseteq
         [counterparty : Parties, obligation : Parties, type : Types, amount : Amounts]
    /\ Edits \subseteq [counterparty : Parties, obligation : Parties, amount : Amounts]
    /\ Newcomers \subseteq [who : People, name : Names]
    /\ Patches \subseteq [who : People, name : Names, archived : BOOLEAN]
    /\ Doubts \subseteq {{p, q} : p, q \in People}
    /\ Duplicates \subseteq [winner : People, loser : People]
    /\ Debts \subseteq [who : People, amount : SignedAmounts]
    /\ Payments \subseteq [who : People, amount : Amounts]
    /\ MaxMerges \in Nat

Counterparty == [name : Names, archived : BOOLEAN]

\* `counterparty` is who a transaction was with, `obligation` who owes or is
\* owed; `settles` says it carries a discharge, `link` which opening debt that
\* pays down, `pair` the first row of the payment it is a half of.
Transaction ==
    [counterparty : Parties, obligation : Parties, type : Types, amount : Amounts,
     settles : BOOLEAN, link : RowIds \cup {NoRow}, pair : RowIds \cup {NoRow},
     deleted : BOOLEAN]

\* What a merge did to one opening debt of the loser: moved it, or (`into`)
\* summed it into the winner's, which held `before` and was left as `after`.
LinkChange == [id : RowIds, was : RowIds \cup {NoRow}, now : RowIds \cup {NoRow}]
MovedOpeningDebt ==
    [id : RowIds, into : RowIds \cup {NoRow}, before : SignedAmounts,
     after : [amount : SignedAmounts, deleted : BOOLEAN], links : SUBSET LinkChange]

ASSUME FirstAssumption ==
    \E P \in SUBSET People :
        /\ FirstPeople \in [P -> [name : Names, archived : {FALSE}]]
        /\ \A p, q \in P : FirstPeople[p].name = FirstPeople[q].name => p = q

VARIABLES
    counterparties,   \* the counterparties there are
    distinctPairs,    \* the pairs recorded as different people
    merges            \* the merge records, in order

people == <<counterparties, distinctPairs, merges>>
vars == <<counterparties, distinctPairs, merges, openingDebts, transactions>>

Init ==
    /\ counterparties = FirstPeople
    /\ distinctPairs = {}
    /\ merges = <<>>
    /\ openingDebts = [d \in {} |-> 0]
    /\ transactions = [t \in {} |-> 0]

-----------------------------------------------------------------------------
Involves(t, p) == p \in {t.counterparty, t.obligation}
Exists(p) == p \in DOMAIN counterparties
NameIsFree(n, p) ==
    \A q \in DOMAIN counterparties \ {p} :
        counterparties[q].archived \/ counterparties[q].name # n

-----------------------------------------------------------------------------
(* Counterparties.                                                          *)

CreateCounterparty(p, n) ==
    /\ ~Exists(p) /\ NameIsFree(n, p)
    /\ counterparties' = With(counterparties, p, [name |-> n, archived |-> FALSE])
    /\ UNCHANGED <<distinctPairs, merges, rows>>

\* The patch, given as the name and the mark the row has afterwards.
UpdateCounterparty(p, n, archived) ==
    /\ Exists(p) /\ counterparties[p] # [name |-> n, archived |-> archived]
    /\ NameIsFree(n, p)
    /\ archived /\ ~counterparties[p].archived => Balance(openingDebts, transactions, p) = 0
    /\ counterparties' = [counterparties EXCEPT ![p] = [name |-> n, archived |-> archived]]
    /\ UNCHANGED <<distinctPairs, merges, rows>>

RecordDistinct(pair) ==
    /\ pair \subseteq DOMAIN counterparties /\ pair \notin distinctPairs
    /\ distinctPairs' = distinctPairs \cup {pair}
    /\ UNCHANGED <<counterparties, merges, rows>>

-----------------------------------------------------------------------------
(* Opening debts and transactions.                                          *)

RecordOpeningDebt(p, amount) ==
    /\ Exists(p) /\ ~counterparties[p].archived
    /\ PutOpeningDebt(p, amount)
    /\ UNCHANGED people

DeleteOpeningDebt(d) == RemoveOpeningDebt(d) /\ UNCHANGED people

\* Mutant of SplitParts: settle_debt splits a payment that exactly fits.
SplitEvenIfItFits(amount, link) ==
    IF link = {} THEN <<[amount |-> amount, link |-> NoRow]>>
    ELSE LET d == CHOOSE d \in link : TRUE
             open == StillOpen(openingDebts, transactions, d)
         IN IF amount < open THEN <<[amount |-> amount, link |-> d]>>
            ELSE <<[amount |-> open, link |-> d], [amount |-> amount - open, link |-> NoRow]>>

\* The rows a payment is written as: one, or two where it crosses the end of
\* the opening debt.
SplitParts(amount, link) ==
    IF link = {} THEN <<[amount |-> amount, link |-> NoRow]>>
    ELSE LET d == CHOOSE d \in link : TRUE
             open == StillOpen(openingDebts, transactions, d)
         IN IF amount <= open THEN <<[amount |-> amount, link |-> d]>>
            ELSE <<[amount |-> open, link |-> d], [amount |-> amount - open, link |-> NoRow]>>

SettleDebt(p, type, amount) ==
    LET balance == Balance(openingDebts, transactions, p)
        parts == SplitParts(amount, OpeningLink(openingDebts, transactions, p, type))
        ids == NextId..(NextId + Len(parts) - 1)
        Row(part) == [counterparty |-> p, obligation |-> p, type |-> type,
                      amount |-> part.amount, settles |-> TRUE, link |-> part.link,
                      pair |-> IF Len(parts) > 1 THEN NextId ELSE NoRow, deleted |-> FALSE]
    IN /\ Exists(p) /\ ids \subseteq RowIds
       /\ balance # 0 /\ type = IF balance > 0 THEN "income" ELSE "expense"
       /\ transactions' = [t \in DOMAIN transactions \cup ids |->
                              IF t \in ids THEN Row(parts[t - NextId + 1])
                                           ELSE transactions[t]]
       /\ UNCHANGED <<people, openingDebts>>

CreateTransaction(c) ==
    /\ NextId \in RowIds
    /\ \A p \in {c.counterparty, c.obligation} : p = Nobody \/ Exists(p)
    /\ transactions' = With(transactions, NextId,
           [counterparty |-> c.counterparty, obligation |-> c.obligation, type |-> c.type,
            amount |-> c.amount, settles |-> FALSE, link |-> NoRow, pair |-> NoRow,
            deleted |-> FALSE])
    /\ UNCHANGED <<people, openingDebts>>

\* Mutant of EditedLink: an edited repayment keeps its link.
LinkIsKept(t, e) == transactions[t].link

\* The link of an edited repayment follows its person and its amount: to an
\* opening debt with room for all of it, never one recorded later.
EditedLink(t, e) ==
    LET row == transactions[t]
        others == [transactions EXCEPT ![t].link = NoRow]
        room == {d \in OpeningLink(openingDebts, others, e.obligation, row.type) :
                   /\ e.amount <= StillOpen(openingDebts, others, d)
                   /\ d = row.link \/ t > d}
    IN IF row.link = NoRow \/ (e.obligation = row.obligation /\ e.amount = row.amount)
       THEN row.link
       ELSE IF room = {} \/ ~row.settles THEN NoRow ELSE CHOOSE d \in room : TRUE

UpdateTransaction(t, e) ==
    LET row == transactions[t] IN
    /\ t \in Live(transactions) /\ row.pair = NoRow
    /\ \A p \in {e.counterparty, e.obligation} : p = Nobody \/ Exists(p)
    /\ transactions' = [transactions EXCEPT ![t] =
           [row EXCEPT !.counterparty = e.counterparty, !.obligation = e.obligation,
                       !.amount = e.amount, !.link = EditedLink(t, e)]]
    /\ UNCHANGED <<people, openingDebts>>

DeleteTransaction(t) == RemoveTransaction(t) /\ UNCHANGED people

-----------------------------------------------------------------------------
(* Merge and unmerge.                                                       *)

IsOpen(m) == ~merges[m].unmerged
\* Mutant of OnOpenMerge: merge refuses only a loser who was absorbed before.
OnlyAsLoser(p) == \E m \in DOMAIN merges : IsOpen(m) /\ p = merges[m].loser

OnOpenMerge(p) == \E m \in DOMAIN merges : IsOpen(m) /\ p \in {merges[m].winner, merges[m].loser}

\* The links of the `named` rows that name one party, each on its own.
Repointed(txs, named, from, to) ==
    LET Link(p) == IF p = from THEN to ELSE p IN
    [t \in DOMAIN txs |->
       IF t \in named THEN [txs[t] EXCEPT !.counterparty = Link(@), !.obligation = Link(@)]
                      ELSE txs[t]]

\* The loser's debt x and the winner's y summed into y, both gone if they cancel.
Summed(debts, txs, x, y) ==
    LET sum == debts[x].amount + debts[y].amount
        summed == [debts EXCEPT ![x].deleted = TRUE,
                                ![y].amount = IF sum = 0 THEN @ ELSE sum,
                                ![y].deleted = sum = 0]
        replanned == Replanned(summed, txs, {x, y}, IF sum = 0 THEN NoRow ELSE y,
                               IF x < y THEN x ELSE y)
        changed == {t \in DOMAIN txs : replanned[t].link # txs[t].link}
    IN [debts |-> summed, transactions |-> replanned,
        moved |-> {[id |-> x, into |-> y, before |-> debts[y].amount,
                    after |-> [amount |-> summed[y].amount, deleted |-> sum = 0],
                    links |-> {[id |-> t, was |-> txs[t].link, now |-> replanned[t].link] :
                                 t \in changed}]}]

\* What a merge makes of the rows, given the transactions it names.
MergedRows(debts, txs, winner, loser, named) ==
    LET repointed == Repointed(txs, named, loser, winner)
        of == DebtsOf(debts, loser)
        into == DebtsOf(debts, winner)
    IN IF of # {} /\ into # {}
       THEN Summed(debts, repointed, CHOOSE x \in of : TRUE, CHOOSE y \in into : TRUE)
       ELSE [debts |-> [d \in DOMAIN debts |-> IF d \in of
                          THEN [debts[d] EXCEPT !.counterparty = winner] ELSE debts[d]],
             transactions |-> repointed,
             moved |-> {[id |-> d, into |-> NoRow, before |-> debts[d].amount,
                         after |-> [amount |-> debts[d].amount, deleted |-> FALSE],
                         links |-> {}] : d \in of}]

\* Nothing live is left with the loser, and no sum is past the ceiling.
LeavesNothing(merged, loser) ==
    /\ DebtsOf(merged.debts, loser) = {}
    /\ \A t \in Live(merged.transactions) : ~Involves(merged.transactions[t], loser)
    /\ \A d \in DOMAIN merged.debts : Size(merged.debts[d]) <= Ceiling

MayMerge(winner, loser, named) ==
    /\ winner # loser
    /\ \A p \in {winner, loser} : Exists(p) /\ ~counterparties[p].archived /\ ~OnOpenMerge(p)
    /\ {winner, loser} \notin distinctPairs
    /\ \A t \in named : Involves(transactions[t], loser)
    /\ LeavesNothing(MergedRows(openingDebts, transactions, winner, loser, named), loser)

\* `named` is what the caller read some time before: the write is refused
\* unless it covers what names the loser now.
Merge(winner, loser, named) ==
    LET merged == MergedRows(openingDebts, transactions, winner, loser, named)
        inherited == {{winner, p} : p \in {q \in People : {loser, q} \in distinctPairs}}
    IN /\ Len(merges) < MaxMerges
       /\ MayMerge(winner, loser, named)
       /\ openingDebts' = merged.debts
       /\ transactions' = merged.transactions
       /\ merges' = Append(merges, [winner |-> winner, loser |-> loser, named |-> named,
                                    moved |-> merged.moved, unmerged |-> FALSE])
       /\ counterparties' = [counterparties EXCEPT ![loser].archived = TRUE]
       /\ distinctPairs' = distinctPairs \cup inherited

\* Mutant of Untouched: unmerge does not ask what became of the winner's debt.
AlwaysUntouched(debts, entry) == TRUE

\* The winner's debt is as the merge left it.
Untouched(debts, entry) ==
    entry.after = [amount |-> debts[entry.into].amount, deleted |-> debts[entry.into].deleted]

UnmergedDebts(debts, merge) ==
    LET back == {e.id : e \in {e \in merge.moved :
                   e.into = NoRow /\ e.id \in DebtsOf(debts, merge.winner)}}
        undone == {e \in merge.moved : e.into # NoRow /\ Untouched(debts, e)}
        revived == {e.id : e \in undone} \cup {e.into : e \in undone}
        Restored(d) == IF \E e \in undone : e.into = d
                       THEN (CHOOSE e \in undone : e.into = d).before ELSE debts[d].amount
    IN [d \in DOMAIN debts |->
          IF d \in back THEN [debts[d] EXCEPT !.counterparty = merge.loser]
          ELSE IF d \in revived THEN [debts[d] EXCEPT !.deleted = FALSE, !.amount = Restored(d)]
          ELSE debts[d]]

\* Mutant of UnmergedLinks: unmerge restores the debts and not the links.
LinksStay(debts, txs, merge) == txs

\* Each link back to what it was, if nobody changed it since.
UnmergedLinks(debts, txs, merge) ==
    LET undone == {e \in merge.moved : e.into # NoRow /\ Untouched(debts, e)}
        changes == {c \in UNION {e.links : e \in undone} : txs[c.id].link = c.now}
    IN [t \in DOMAIN txs |-> IF \E c \in changes : c.id = t
          THEN [txs[t] EXCEPT !.link = (CHOOSE c \in changes : c.id = t).was] ELSE txs[t]]

\* Mutant of UnmergedRows: unmerge takes whatever names the winner now.
EverythingOfTheWinner(debts, txs, merge) ==
    [debts |-> UnmergedDebts(debts, merge),
     transactions |-> UnmergedLinks(debts,
         Repointed(txs, Live(txs), merge.winner, merge.loser), merge)]

\* What an unmerge makes of the rows, given the merge it takes back.
UnmergedRows(debts, txs, merge) ==
    [debts |-> UnmergedDebts(debts, merge),
     transactions |-> UnmergedLinks(debts,
         Repointed(txs, merge.named \cap Live(txs), merge.winner, merge.loser), merge)]

\* Mutant of MayUnmerge: unmerge does not look at the loser's name.
AnyNameComesBack(m) == IsOpen(m)

MayUnmerge(m) == IsOpen(m) /\ NameIsFree(counterparties[merges[m].loser].name, merges[m].loser)

\* opening_debts_counterparty_currency_uq
OneDebtEach(debts) == \A p \in People : Cardinality(DebtsOf(debts, p)) <= 1

\* Where the index refuses the rows, the write fails and rolls back.
Unmerge(m) ==
    LET back == UnmergedRows(openingDebts, transactions, merges[m]) IN
    /\ MayUnmerge(m) /\ OneDebtEach(back.debts)
    /\ openingDebts' = back.debts
    /\ transactions' = back.transactions
    /\ counterparties' = [counterparties EXCEPT ![merges[m].loser].archived = FALSE]
    /\ merges' = [merges EXCEPT ![m].unmerged = TRUE]
    /\ UNCHANGED distinctPairs

Next ==
    \/ \E c \in Newcomers : CreateCounterparty(c.who, c.name)
    \/ \E c \in Patches : UpdateCounterparty(c.who, c.name, c.archived)
    \/ \E pair \in Doubts : RecordDistinct(pair)
    \/ \E debt \in Debts : RecordOpeningDebt(debt.who, debt.amount)
    \/ \E c \in Payments, type \in Types : SettleDebt(c.who, type, c.amount)
    \/ \E d \in DOMAIN openingDebts : DeleteOpeningDebt(d)
    \/ \E c \in Captures : CreateTransaction(c)
    \/ \E t \in DOMAIN transactions :
          DeleteTransaction(t) \/ \E e \in Edits : UpdateTransaction(t, e)
    \/ \E c \in Duplicates, named \in SUBSET DOMAIN transactions :
          Merge(c.winner, c.loser, named)
    \/ \E m \in DOMAIN merges : Unmerge(m)

Spec == Init /\ [][Next]_vars

-----------------------------------------------------------------------------
(* What must hold.                                                          *)

\* The types; and a deleted debt or a merge record names rows that exist.
TypeOK ==
    /\ DOMAIN counterparties \subseteq People
    /\ \A p \in DOMAIN counterparties : counterparties[p] \in Counterparty
    /\ distinctPairs \subseteq {{p, q} : p, q \in People}
    /\ DOMAIN openingDebts \cup DOMAIN transactions = 1..(NextId - 1)
    /\ DOMAIN openingDebts \cap DOMAIN transactions = {}
    /\ \A d \in DOMAIN openingDebts : openingDebts[d] \in OpeningDebt
    /\ \A t \in DOMAIN transactions : transactions[t] \in Transaction
    /\ \A m \in DOMAIN merges :
         /\ {merges[m].winner, merges[m].loser} \subseteq DOMAIN counterparties
         /\ merges[m].named \subseteq DOMAIN transactions
         /\ \A e \in merges[m].moved :
              /\ e.id \in RowIds /\ e.into \in RowIds \cup {NoRow}
              /\ e.before \in SignedAmounts /\ e.after.amount \in SignedAmounts
              /\ e.links \subseteq LinkChange

\* No two counterparties in the pickers have one folded name, although an
\* archived one's name is free to take and an unmerge brings the loser back.
NamesAreUnique ==
    \A p, q \in DOMAIN counterparties :
        /\ ~counterparties[p].archived /\ ~counterparties[q].archived
        /\ counterparties[p].name = counterparties[q].name
        => p = q

\* Merges that can still be taken back do not meet: otherwise unmerging the
\* first would hand back rows the second had since absorbed.
OpenMergesDoNotMeet ==
    \A m, n \in DOMAIN merges :
        /\ IsOpen(m) /\ IsOpen(n)
        /\ {merges[m].winner, merges[m].loser} \cap {merges[n].winner, merges[n].loser} # {}
        => m = n

\* What a merge that was taken back has changed: rows handed back, and debts it
\* took apart or gave a repayment back to.
UndoneMerges == {merges[m] : m \in {n \in DOMAIN merges : ~IsOpen(n)}}
HandedBack == UNION {merge.named : merge \in UndoneMerges}
DebtsTakenApart ==
    UNION {UNION {{e.id, e.into} \cup {c.was : c \in e.links} : e \in merge.moved} :
             merge \in UndoneMerges}

\* Whatever was settled, edited, recorded again, merged or deleted: the
\* repayments linked to an opening debt are its own person's, reduce it, and
\* discharge no more than it was.  The rows an unmerge hands back keep whatever
\* link they have (unmerge-counterparties.executor.ts:137-160), and the links it
\* puts back may be to a debt that has been repaid since, even somebody else's
\* (merge-opening-debts.ts:228-242); they are left out.
LinksFitTheirDebt ==
    \A d \in Live(openingDebts) \ DebtsTakenApart :
        /\ Repaid(transactions, d) <= Size(openingDebts[d])
        /\ \A t \in Repayments(transactions, d) \ HandedBack :
             /\ transactions[t].obligation = openingDebts[d].counterparty
             /\ Reduces(openingDebts[d], transactions[t].type)

\* A row that is with the one and owed by the other: the merge makes both
\* links the winner, and the record does not say which one it moved.
Straddles(row, p, q) == {row.counterparty, row.obligation} = {p, q}

RoundTrip(winner, loser, compared) ==
    LET named == {t \in Live(transactions) : Involves(transactions[t], loser)}
        merged == MergedRows(openingDebts, transactions, winner, loser, named)
        back == UnmergedRows(merged.debts, merged.transactions,
                    [winner |-> winner, loser |-> loser, named |-> named, moved |-> merged.moved])
    IN MayMerge(winner, loser, named)
       => /\ back.debts = openingDebts
          /\ \A t \in compared : back.transactions[t] = transactions[t]

\* Any merge that could be made now, taken back at once, restores every debt,
\* every link of a repayment and both links of every transaction, but for the
\* transactions that straddle the two.
UnmergeUndoesMerge ==
    \A winner, loser \in People :
        RoundTrip(winner, loser, {t \in DOMAIN transactions :
                                    ~Straddles(transactions[t], winner, loser)})

\* unmerge-counterparties.executor.ts:134-136: a row whose identity moved and
\* whose obligation never did does not come back with one it never had.
UnmergeRestoresEachLink ==
    \A winner, loser \in People : RoundTrip(winner, loser, DOMAIN transactions)

\* A merge hands the winner the loser's whole balance, an unmerge, however
\* late, changes only how the two share what they hold, and neither touches
\* anybody else's.
MergesMoveNoMoney ==
    [][\A m \in DOMAIN merges' :
         m \notin DOMAIN merges \/ merges'[m] # merges[m] =>
            LET Before(p) == Balance(openingDebts, transactions, p)
                After(p) == Balance(openingDebts', transactions', p)
                w == merges'[m].winner
                l == merges'[m].loser
            IN /\ After(w) + After(l) = Before(w) + Before(l)
               /\ m \notin DOMAIN merges => After(l) = 0
               /\ \A p \in People \ {w, l} : After(p) = Before(p)]_vars

\* An unmerge changes only what its merge recorded: never a transaction written
\* or handed to the winner since.
OnlyTheRecordIsUndone ==
    [][\A m \in DOMAIN merges :
         merges'[m] # merges[m] =>
            /\ \A t \in DOMAIN transactions : transactions'[t] # transactions[t] =>
                 t \in merges[m].named \cup
                        {c.id : c \in UNION {e.links : e \in merges[m].moved}}
            /\ \A d \in DOMAIN openingDebts : openingDebts'[d] # openingDebts[d] =>
                 d \in UNION {{e.id, e.into} : e \in merges[m].moved}]_vars
=============================================================================
