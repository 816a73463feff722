---------------------------- MODULE OpeningDebts ----------------------------
(***************************************************************************)
(* The rows of what is owed: the debts that predate the ledger, and the    *)
(* transactions, some of which pay one of those down.  Here is what the    *)
(* executors of packages/ledger/src/counterparties and .../transactions    *)
(* read of the two tables, and the three writes that CounterpartyMerge and *)
(* Filing share; each of them adds its own fields and operations.          *)
(*                                                                         *)
(* Opening debts and transactions share one numbering, in the order they   *)
(* were first written: a row's number stands for its id, its created_at    *)
(* and its date.  A debt's direction is the sign of its amount.            *)
(***************************************************************************)
EXTENDS Integers, FiniteSets, Functions

CONSTANTS
    People,         \* the counterparties there may ever be
    Nobody,         \* a link that names no counterparty
    Ceiling,        \* the largest amount
    MaxRows         \* bound on the rows ever written

ASSUME RowsAssumption == Nobody \notin People /\ Ceiling \in Nat /\ MaxRows \in Nat

Parties == People \cup {Nobody}
NoRow == 0
RowIds == 1..MaxRows
Amounts == 1..Ceiling
Types == {"expense", "income"}
SignedAmounts == (-Ceiling)..Ceiling \ {0}
OpeningDebt == [counterparty : People, amount : SignedAmounts, deleted : BOOLEAN]

VARIABLES
    openingDebts,     \* the debts that predate the ledger, deleted ones too
    transactions      \* and the transactions

rows == <<openingDebts, transactions>>

-----------------------------------------------------------------------------
(* What a replica transaction reads.  These take the rows as parameters,    *)
(* since an executor reads what its own earlier statements wrote.           *)

Live(table) == {i \in DOMAIN table : ~table[i].deleted}
DebtsOf(debts, p) == {d \in Live(debts) : debts[d].counterparty = p}
Repayments(txs, d) == {t \in Live(txs) : txs[t].link = d}
AmountOf(table) == [i \in DOMAIN table |-> table[i].amount]
Total(table, ids) == SumFunctionOnSet(AmountOf(table), ids)
Repaid(txs, d) == Total(txs, Repayments(txs, d))

\* Money coming in reduces what they owe, money going out what you owe.
Reduces(debt, type) == (debt.amount > 0) = (type = "income")
Size(debt) == IF debt.amount > 0 THEN debt.amount ELSE -debt.amount
StillOpen(debts, txs, d) == Size(debts[d]) - Repaid(txs, d)

\* The opening debt a payment of p pays down: none or one.
OpeningLink(debts, txs, p, type) ==
    {d \in DebtsOf(debts, p) : Reduces(debts[d], type) /\ StillOpen(debts, txs, d) > 0}

\* What p owes you, or if negative is owed.
OwedOf(txs) ==
    [t \in DOMAIN txs |-> IF txs[t].type = "expense" THEN txs[t].amount ELSE -txs[t].amount]
Balance(debts, txs, p) ==
    Total(debts, DebtsOf(debts, p))
    + SumFunctionOnSet(OwedOf(txs), {t \in Live(txs) : txs[t].obligation = p})

\* The `cleared` rows without their link, save the `linked` ones, which have `target`.
WithLinks(txs, cleared, linked, target) ==
    [t \in DOMAIN txs |-> IF t \in linked THEN [txs[t] EXCEPT !.link = target]
                          ELSE IF t \in cleared THEN [txs[t] EXCEPT !.link = NoRow]
                          ELSE txs[t]]

\* The repayments whose link is to be decided again: those of the debts `from`,
\* and those `target` could have paid down, if written after `since`.
Candidates(debts, txs, from, target, since) ==
    {t \in Live(txs) :
       \/ txs[t].link \in from
       \/ /\ target # NoRow /\ txs[t].settles /\ t > since
          /\ txs[t].obligation = debts[target].counterparty
          /\ Reduces(debts[target], txs[t].type)}

\* Whether t fits in what `target` has open, once the `linked` rows are linked.
Fits(debts, txs, candidates, linked, target, t) ==
    LET now == WithLinks(txs, candidates, linked, target) IN
    /\ txs[t].settles
    /\ target \in OpeningLink(debts, now, txs[t].obligation, txs[t].type)
    /\ txs[t].amount <= StillOpen(debts, now, target)

\* Those that fit in `target`: first come first linked, whole or not at all.
Fitting(debts, txs, candidates, target) ==
    LET linked[n \in 0..MaxRows] ==
          IF n = 0 THEN {}
          ELSE LET earlier == linked[n - 1]
               IN IF n \in candidates /\ Fits(debts, txs, candidates, earlier, target, n)
                  THEN earlier \cup {n} ELSE earlier
    IN linked[MaxRows]

\* The rows with the links to the debts of `from` decided again, against `target`.
Replanned(debts, txs, from, target, since) ==
    LET candidates == Candidates(debts, txs, from, target, since)
    IN WithLinks(txs, candidates, Fitting(debts, txs, candidates, target), target)

NextId == Cardinality(DOMAIN openingDebts) + Cardinality(DOMAIN transactions) + 1

With(table, id, row) == [i \in DOMAIN table \cup {id} |-> IF i = id THEN row ELSE table[i]]

-----------------------------------------------------------------------------
(* The writes the two modules share.                                        *)

\* One live row per person: recording again replaces what it says.
PutOpeningDebt(p, amount) ==
    LET existing == DebtsOf(openingDebts, p) IN
    \/ /\ existing = {} /\ NextId \in RowIds
       /\ openingDebts' = With(openingDebts, NextId,
              [counterparty |-> p, amount |-> amount, deleted |-> FALSE])
       /\ UNCHANGED transactions
    \/ \E d \in existing :
       /\ openingDebts' = [openingDebts EXCEPT ![d].amount = amount]
       /\ transactions' = Replanned(openingDebts', transactions, {d}, d, d)

\* The repayments go with the debt; the other half of a split one stays, alone.
RemoveOpeningDebt(d) ==
    /\ d \in Live(openingDebts)
    /\ openingDebts' = [openingDebts EXCEPT ![d].deleted = TRUE]
    /\ LET gone == Repayments(transactions, d)
           pairs == {transactions[t].pair : t \in gone} \ {NoRow}
       IN transactions' =
            [t \in DOMAIN transactions |->
               IF t \in gone THEN [transactions[t] EXCEPT !.deleted = TRUE]
               ELSE IF t \in Live(transactions) /\ transactions[t].pair \in pairs
               THEN [transactions[t] EXCEPT !.pair = NoRow]
               ELSE transactions[t]]

\* A payment written as two rows goes as one.
RemoveTransaction(t) ==
    /\ t \in Live(transactions)
    /\ transactions' =
         [u \in DOMAIN transactions |->
            IF \/ u = t
               \/ transactions[t].pair # NoRow /\ transactions[u].pair = transactions[t].pair
            THEN [transactions[u] EXCEPT !.deleted = TRUE] ELSE transactions[u]]
    /\ UNCHANGED openingDebts
=============================================================================
