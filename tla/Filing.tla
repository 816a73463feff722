------------------------------- MODULE Filing -------------------------------
(***************************************************************************)
(* What a transaction is filed under, and what filing does to a debt: the  *)
(* executors of packages/ledger/src/transactions, with settle_debt and     *)
(* supersede_transaction, which write one payment as two rows where it     *)
(* crosses the end of an opening debt.  The rows, what is owed and the     *)
(* other operations on them are those of OpeningDebts, to which this       *)
(* module adds a category, an amount of the row's own and a discharge that *)
(* may differ from it.  Again a refusal is an action that is not enabled.  *)
(*                                                                         *)
(* There is one currency of one smallest unit, money.round rounds half up, *)
(* and the people do not change.  A category is told apart by what the     *)
(* rules ask of it: one of Borrowed and Lent, one of the two repayments,   *)
(* or any other, no category being one of those.  A person owed anything   *)
(* is owed it in the role "debt".                                          *)
(***************************************************************************)
EXTENDS OpeningDebts, Sequences

CONSTANTS
    Debts,          \* the opening debts that may be recorded, signed
    Entries,        \* what may be captured, or written over another row
    Settlements,    \* the payments that may be settled
    Patches,        \* what a row may be changed to, field by field
    Refiled         \* the categories a batch may be moved to

DebtCategories == {"debt", "repayment"}
Categories == DebtCategories \cup {"other"}

ASSUME ConstantsAssumption ==
    /\ Debts \subseteq [who : People, amount : SignedAmounts]
    /\ Entries \subseteq
         [category : Categories, obligation : Parties, type : Types, own : Amounts]
    /\ Settlements \subseteq
         [category : Categories, obligation : People, own : Amounts, discharge : Amounts]
    /\ \A patch \in Patches :
         /\ DOMAIN patch # {} /\ DOMAIN patch \subseteq {"category", "obligation", "own"}
         /\ "category" \in DOMAIN patch => patch["category"] \in Categories
         /\ "obligation" \in DOMAIN patch => patch["obligation"] \in Parties
         /\ "own" \in DOMAIN patch => patch["own"] \in Amounts
    /\ Refiled \subseteq Categories

\* A row of `transactions` has, besides, a `category` and an `own` amount (its
\* amount_original); `amount` is the figure that counts, the discharge if any.
VARIABLE parted       \* history: the payments one row of which was filed on its own

vars == <<openingDebts, transactions, parted>>

Init ==
    /\ openingDebts = [d \in {} |-> 0]
    /\ transactions = [t \in {} |-> 0]
    /\ parted = {}

LiveRows == Live(transactions)
Halves(pair) == {t \in LiveRows : pair # NoRow /\ transactions[t].pair = pair}

\* assertDebtCategoryShape, assertNotRepaymentEntry: a debt names its person,
\* and only settle_debt writes a repayment.
IsADebt(category, obligation) == category \in DebtCategories => obligation # Nobody

\* Mutant of MayBeEntered: nobody asks for the person.
CategoryAlone(category, obligation) == category # "repayment"

MayBeEntered(category, obligation) ==
    category # "repayment" /\ IsADebt(category, obligation)

-----------------------------------------------------------------------------
(* One payment against an opening debt: whole, or in two.                   *)

RoundedHalfUp(n, m) == (2 * n + m) \div (2 * m)

\* Mutant of LinkedShare: the share is the proportion, whatever it rounds to.
NoDust(own, open, discharge) == RoundedHalfUp(own * open, discharge)

\* What changed hands of the part that fits, in whole units; where one of the
\* two would be nothing, it takes a unit of the other.
LinkedShare(own, open, discharge) ==
    LET share == RoundedHalfUp(own * open, discharge)
        dust == IF share <= 0 THEN 1 ELSE share
    IN IF own - dust <= 0 THEN own - 1 ELSE dust

Whole(own, discharge, link) == <<[own |-> own, discharge |-> discharge, link |-> link]>>

\* A payment of one unit cannot be two rows: it stays whole, and unlinked.
PlannedSplit(txs, link, own, discharge) ==
    IF link = {} THEN Whole(own, discharge, NoRow)
    ELSE LET d == CHOOSE d \in link : TRUE
             open == StillOpen(openingDebts, txs, d)
             share == LinkedShare(own, open, discharge)
         IN IF discharge <= open THEN Whole(own, discharge, d)
            ELSE IF share <= 0 THEN Whole(own, discharge, NoRow)
            ELSE <<[own |-> share, discharge |-> open, link |-> d],
                   [own |-> own - share, discharge |-> discharge - open, link |-> NoRow]>>

\* `txs` with the parts of one payment after its rows: two parts are a pair.
WithParts(txs, parts, entry, type, settles) ==
    LET first == NextId
        Row(part) ==
            [category |-> entry.category, obligation |-> entry.obligation, type |-> type,
             own |-> part.own, amount |-> IF settles THEN part.discharge ELSE part.own,
             settles |-> settles, link |-> part.link,
             pair |-> IF Len(parts) > 1 THEN first ELSE NoRow, deleted |-> FALSE]
    IN [t \in DOMAIN txs \cup first..(first + Len(parts) - 1) |->
          IF t \in DOMAIN txs THEN txs[t] ELSE Row(parts[t - first + 1])]

Without(gone) ==
    [t \in DOMAIN transactions |->
       IF t \in gone THEN [transactions[t] EXCEPT !.deleted = TRUE] ELSE transactions[t]]

Write(txs, parts, entry, type, settles) ==
    /\ NextId + Len(parts) - 1 \in RowIds
    /\ transactions' = WithParts(txs, parts, entry, type, settles)
    /\ UNCHANGED openingDebts

-----------------------------------------------------------------------------
(* The operations.                                                          *)

RecordOpeningDebt(p, amount) == PutOpeningDebt(p, amount) /\ UNCHANGED parted
DeleteOpeningDebt(d) == RemoveOpeningDebt(d) /\ UNCHANGED parted
DeleteTransaction(t) == RemoveTransaction(t) /\ UNCHANGED parted

CreateTransaction(entry) ==
    /\ MayBeEntered(entry.category, entry.obligation)
    /\ Write(transactions, Whole(entry.own, entry.own, NoRow), entry, entry.type, FALSE)
    /\ UNCHANGED parted

\* settle_debt, of a new payment or (`old`) of a row re-filed as one, which is
\* deleted before the balance is read; of a pair, without its other half.
SettleDebt(payment, type, old) ==
    LET gone == {old} \ {NoRow}
        left == Without(gone)
        balance == Balance(openingDebts, left, payment.obligation)
        link == OpeningLink(openingDebts, left, payment.obligation, type)
    IN /\ gone \subseteq LiveRows /\ \A t \in gone : ~transactions[t].settles
       /\ balance # 0 /\ type = IF balance > 0 THEN "income" ELSE "expense"
       /\ Write(left, PlannedSplit(left, link, payment.own, payment.discharge),
                payment, type, TRUE)
       /\ parted' = parted \cup ({transactions[t].pair : t \in gone} \ {NoRow})

Leaves(row, category) == row.category \in DebtCategories /\ category \notin DebtCategories

\* Who the patched row is owed by: leaving a debt category takes the debt along.
Obligation(row, patch, leaving) ==
    IF "obligation" \in DOMAIN patch THEN patch["obligation"]
    ELSE IF leaving THEN Nobody ELSE row.obligation

\* Mutant of PatchedLink: an edited repayment keeps its link.
LinkStays(t, patch, leaving, obligation, discharge) == transactions[t].link

\* Where a linked repayment still fits whole, if its person, its role or its
\* amount is in the patch; never in a debt written after it.
PatchedLink(t, patch, leaving, obligation, discharge) ==
    LET row == transactions[t]
        others == [transactions EXCEPT ![t].link = NoRow]
        room == {d \in OpeningLink(openingDebts, others, obligation, row.type) :
                   /\ discharge <= StillOpen(openingDebts, others, d)
                   /\ d = row.link \/ t > d}
    IN IF \/ row.link = NoRow
          \/ ~leaving /\ DOMAIN patch \cap {"obligation", "own"} = {}
       THEN row.link
       ELSE IF ~row.settles \/ room = {} THEN NoRow ELSE CHOOSE d \in room : TRUE

\* update_transaction, of what is not one half of a payment: a patch of the
\* fields here is refused for a half.
UpdateTransaction(t, patch) ==
    LET row == transactions[t]
        category == IF "category" \in DOMAIN patch THEN patch["category"] ELSE row.category
        own == IF "own" \in DOMAIN patch THEN patch["own"] ELSE row.own
        leaving == Leaves(row, category)
        obligation == Obligation(row, patch, leaving)
        settles == row.settles /\ ~leaving
        restated == settles /\ "own" \in DOMAIN patch
        discharge == IF restated THEN own ELSE row.amount
    IN /\ t \in LiveRows /\ row.pair = NoRow
       /\ category # row.category => category # "repayment"
       /\ DOMAIN patch \cap {"category", "obligation"} # {} => IsADebt(category, obligation)
       /\ restated => row.amount = row.own
       /\ transactions' = [transactions EXCEPT ![t] =
            [row EXCEPT !.category = category, !.obligation = obligation, !.own = own,
                        !.settles = settles, !.amount = IF settles THEN discharge ELSE own,
                        !.link = PatchedLink(t, patch, leaving, obligation, discharge)]]
       /\ UNCHANGED <<openingDebts, parted>>

\* A row of a batch, under its new category.
Categorised(row, category) ==
    IF Leaves(row, category) /\ row.obligation # Nobody
    THEN [row EXCEPT !.category = category, !.obligation = Nobody, !.settles = FALSE,
                     !.amount = row.own, !.link = NoRow]
    ELSE [row EXCEPT !.category = category]

\* categorize_batch: all of the rows or none, and it does not ask what pair a
\* row is of.
CategorizeBatch(batch, category) ==
    /\ batch # {} /\ batch \subseteq LiveRows
    /\ \A t, u \in batch : transactions[t].type = transactions[u].type
    /\ \A t \in batch : MayBeEntered(category, transactions[t].obligation)
    /\ transactions' = [t \in DOMAIN transactions |->
                          IF t \in batch THEN Categorised(transactions[t], category)
                                         ELSE transactions[t]]
    /\ parted' = parted \cup {transactions[t].pair : t \in
                    {u \in batch : ~(Halves(transactions[u].pair) \subseteq batch)}}
    /\ UNCHANGED openingDebts

\* Mutant of Superseded: superseding one half leaves the other.
OnlyTheRow(t) == {t}

\* A payment written as two rows is replaced as one.
Superseded(t) == {t} \cup Halves(transactions[t].pair)

\* What a replacement of a payment carries on of its discharge: a pair's is
\* planned again, a single row's kept where its link still holds.
Carried(t, entry, left, spill) ==
    LET row == transactions[t]
        link == OpeningLink(openingDebts, left, entry.obligation, entry.type)
        same == row.settles /\ entry.obligation # Nobody /\ entry.obligation = row.obligation
        discharged == Total(transactions, Superseded(t))
        planned == PlannedSplit(left, link, entry.own, discharged)
        fits == /\ same /\ row.link # NoRow /\ row.link \in link
                /\ row.amount <= StillOpen(openingDebts, left, row.link)
        plain == [settles |-> FALSE, parts |-> Whole(entry.own, entry.own, NoRow)]
    IN IF row.pair # NoRow /\ same
       THEN [settles |-> TRUE,
             parts |-> IF Len(planned) > 1 /\ ~spill
                       THEN Whole(entry.own, discharged, NoRow) ELSE planned]
       ELSE IF row.pair = NoRow /\ fits
       THEN [settles |-> TRUE, parts |-> Whole(entry.own, row.amount, row.link)]
       ELSE plain

\* supersede_transaction, with an id for a second row (`spill`) or without.
SupersedeTransaction(t, entry, spill) ==
    LET left == Without(Superseded(t))
        carried == Carried(t, entry, left, spill)
    IN /\ t \in LiveRows /\ MayBeEntered(entry.category, entry.obligation)
       /\ Write(left, carried.parts, entry, entry.type, carried.settles)
       /\ UNCHANGED parted

Next ==
    \/ \E debt \in Debts : RecordOpeningDebt(debt.who, debt.amount)
    \/ \E d \in DOMAIN openingDebts : DeleteOpeningDebt(d)
    \/ \E entry \in Entries : CreateTransaction(entry)
    \/ \E payment \in Settlements, type \in Types, old \in DOMAIN transactions \cup {NoRow} :
          SettleDebt(payment, type, old)
    \/ \E batch \in SUBSET DOMAIN transactions, category \in Refiled :
          CategorizeBatch(batch, category)
    \/ \E t \in DOMAIN transactions :
          \/ DeleteTransaction(t)
          \/ \E patch \in Patches : UpdateTransaction(t, patch)
          \/ \E entry \in Entries, spill \in BOOLEAN : SupersedeTransaction(t, entry, spill)

Spec == Init /\ [][Next]_vars

-----------------------------------------------------------------------------
(* What must hold.                                                          *)

Transaction ==
    [category : Categories, obligation : Parties, type : Types, own : Amounts,
     amount : Nat \ {0}, settles : BOOLEAN, link : RowIds \cup {NoRow},
     pair : RowIds \cup {NoRow}, deleted : BOOLEAN]

\* The types; a row that is no settlement counts as its own amount.
TypeOK ==
    /\ DOMAIN openingDebts \cup DOMAIN transactions = 1..(NextId - 1)
    /\ DOMAIN openingDebts \cap DOMAIN transactions = {}
    /\ \A d \in DOMAIN openingDebts : openingDebts[d] \in OpeningDebt
    /\ \A t \in DOMAIN transactions :
         /\ transactions[t] \in Transaction
         /\ ~transactions[t].settles => transactions[t].amount = transactions[t].own
    /\ parted \subseteq RowIds

\* "A debt category is a debt" (SPEC 6.6): a row under one of the four names
\* its person, however it got there and whatever was edited since, one at a
\* time or in a batch.
DebtsNameTheirPerson ==
    \A t \in LiveRows : IsADebt(transactions[t].category, transactions[t].obligation)

\* The settlements linked to an opening debt are its own person's, reduce it
\* and together discharge no more than it was: through splits, edits, batches,
\* replacements and new figures for the debt.
SettlementsFitTheirDebt ==
    \A d \in Live(openingDebts) :
        LET paid == {t \in Repayments(transactions, d) : transactions[t].settles}
        IN /\ Total(transactions, paid) <= Size(openingDebts[d])
           /\ \A t \in Repayments(transactions, d) :
                /\ transactions[t].obligation = openingDebts[d].counterparty
                /\ Reduces(openingDebts[d], transactions[t].type)

FiledAlike(r, s) ==
    /\ r.category = s.category /\ r.obligation = s.obligation
    /\ r.type = s.type /\ r.settles = s.settles

\* The two rows of one payment come and go together and agree on who it was
\* with, what it was and where it is filed, unless one was filed on its own
\* by a batch or re-filed as a settlement: both operations take one half.
HalvesAgree ==
    \A t \in LiveRows :
        transactions[t].pair \notin parted \cup {NoRow} =>
            \E u \in LiveRows \ {t} :
                /\ Halves(transactions[t].pair) = {t, u}
                /\ FiledAlike(transactions[t], transactions[u])

\* update-transaction.executor.ts:460: "An edit never splits a row: it fits
\* whole, or it is no longer linked."
LinkedRowsFit ==
    \A d \in Live(openingDebts) :
        Repaid(transactions, d) <= Size(openingDebts[d])
=============================================================================
