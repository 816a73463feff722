----------------------------- MODULE FilingProofs -----------------------------
(***************************************************************************)
(* Proofs about Filing, for any people, amounts and number of rows: a row  *)
(* filed as a debt names its person, the two rows of one payment stay      *)
(* together and alike, and the settlements of an opening debt fit in it.   *)
(*                                                                         *)
(* There are two inductive invariants.  IInv numbers the rows, so that a   *)
(* new one is new, and says that a pair is named by a row there is.        *)
(* AmountsInv, which rests on it, types the rows and the debts, says that  *)
(* a link names a debt there is (a new debt starts with no repayment) and  *)
(* that what is settled of each debt is within it.                         *)
(***************************************************************************)
EXTENDS Filing, OpeningDebtsProofs

IsRow(r) ==
    /\ r = [category |-> r.category, obligation |-> r.obligation, type |-> r.type,
            own |-> r.own, amount |-> r.amount, settles |-> r.settles, link |-> r.link,
            pair |-> r.pair, deleted |-> r.deleted]
    /\ r.settles \in BOOLEAN /\ r.deleted \in BOOLEAN

RowsTyped == \A t \in DOMAIN transactions : IsRow(transactions[t])

PairsKnown ==
    \A t \in DOMAIN transactions : transactions[t].pair \in DOMAIN transactions \cup {NoRow}

IInv == Numbered /\ RowsTyped /\ PairsKnown /\ DebtsNameTheirPerson /\ HalvesAgree

-----------------------------------------------------------------------------
(* What a write makes of the rows.                                          *)

\* A payment is written as one row or two.
LEMMA PlanIsOneOrTwo ==
    \A txs, link, own, discharge : Len(PlannedSplit(txs, link, own, discharge)) \in {1, 2}
BY DEF PlannedSplit, Whole

\* So is what a superseded row is carried over to.
LEMMA CarriedIsOneOrTwo ==
    ASSUME NEW t, NEW entry, NEW left, NEW spill
    PROVE  /\ Len(Carried(t, entry, left, spill).parts) \in {1, 2}
           /\ Carried(t, entry, left, spill).settles \in BOOLEAN
<1>1. \A own, discharge, link : Len(Whole(own, discharge, link)) = 1
  BY DEF Whole
<1> QED BY <1>1, PlanIsOneOrTwo DEF Carried

\* A row as WithParts writes it.
IsWritten(r, entry, type, settles, pair) ==
    /\ IsRow(r) /\ ~r.deleted /\ r.pair = pair
    /\ r.category = entry.category /\ r.obligation = entry.obligation
    /\ r.type = type /\ r.settles = settles

\* What a write adds, leaving the rows there are.
LEMMA WrittenRows ==
    ASSUME Numbered, NEW txs, DOMAIN txs = DOMAIN transactions, NEW parts, NEW entry, NEW type,
           NEW settles \in BOOLEAN, Len(parts) \in {1, 2}
    PROVE  LET now == WithParts(txs, parts, entry, type, settles)
               ids == NextId..(NextId + Len(parts) - 1)
           IN /\ DOMAIN now = DOMAIN txs \cup ids
              /\ \A t \in DOMAIN txs : now[t] = txs[t]
              /\ \A t \in ids : IsWritten(now[t], entry, type, settles,
                                   IF Len(parts) > 1 THEN NextId ELSE NoRow)
<1> DEFINE now == WithParts(txs, parts, entry, type, settles)
           ids == NextId..(NextId + Len(parts) - 1)
<1>1. NextId \in Nat \ {0} /\ ids \cap DOMAIN txs = {}
  BY NextIsFree
<1>2. DOMAIN now = DOMAIN txs \cup ids /\ \A t \in DOMAIN txs : now[t] = txs[t]
  BY DEF WithParts
<1>3. ASSUME NEW t \in ids
      PROVE  IsWritten(now[t], entry, type, settles, IF Len(parts) > 1 THEN NextId ELSE NoRow)
  <2>1. PICK own, amount, link :
          now[t] = [category |-> entry.category, obligation |-> entry.obligation,
                    type |-> type, own |-> own, amount |-> amount, settles |-> settles,
                    link |-> link, pair |-> IF Len(parts) > 1 THEN NextId ELSE NoRow,
                    deleted |-> FALSE]
    BY <1>1, <1>3 DEF WithParts
  <2> QED BY <2>1 DEF IsWritten, IsRow
<1> QED BY <1>2, <1>3

-----------------------------------------------------------------------------
(* A write: some rows go, with the other half of a pair that is not parted,  *)
(* and one or two are added.                                                *)

\* The rows a write starts from: those there are but the `gone` ones.
IsLeft(left, gone) == left = Without(gone) \/ (gone = {} /\ left = transactions)

\* Some rows go and one payment is written.
Writes(gone, entry, type, settles) ==
    \E left, parts : /\ IsLeft(left, gone) /\ Len(parts) \in {1, 2}
                     /\ Write(left, parts, entry, type, settles)

\* Without takes out the rows that go and no other.
LEMMA WithoutIsLeft == \A gone : IsLeft(Without(gone), gone)
BY DEF IsLeft

\* The rows before and after.
RowsAfter(gone, parts, entry, type, settles) ==
    LET ids == NextId..(NextId + Len(parts) - 1) IN
    /\ DOMAIN transactions' = DOMAIN transactions \cup ids
    /\ ids \cap DOMAIN transactions = {}
    /\ LiveRows' = (LiveRows \ gone) \cup ids
    /\ \A t \in DOMAIN transactions :
         /\ IsRow(transactions'[t])
         /\ transactions'[t].pair = transactions[t].pair
         /\ t \notin gone => transactions'[t] = transactions[t]
    /\ \A t \in ids : IsWritten(transactions'[t], entry, type, settles,
                         IF Len(parts) > 1 THEN NextId ELSE NoRow)

\* The live rows once some have gone and the parts of an entry have come.
LEMMA LiveAfterWrite ==
    ASSUME IInv, NEW gone \in SUBSET LiveRows, NEW parts, NEW entry, NEW type,
           NEW settles \in BOOLEAN, Len(parts) \in {1, 2},
           NEW left, IsLeft(left, gone),
           Write(left, parts, entry, type, settles)
    PROVE  RowsAfter(gone, parts, entry, type, settles)
<1> DEFINE ids == NextId..(NextId + Len(parts) - 1)
<1>1. ids \cap DOMAIN transactions = {}
  BY NextIsFree DEF IInv
<1>2. /\ DOMAIN left = DOMAIN transactions
      /\ \A t \in DOMAIN transactions :
           /\ IsRow(left[t]) /\ left[t].pair = transactions[t].pair
           /\ t \in gone => left[t].deleted
           /\ t \notin gone => left[t] = transactions[t]
  <2>1. \A t \in DOMAIN transactions : IsRow(transactions[t])
    BY DEF IInv, RowsTyped
  <2>2. CASE gone = {} /\ left = transactions
    BY <2>1, <2>2 DEF IsLeft
  <2>3. CASE left = Without(gone)
    <3>1. ASSUME NEW t \in DOMAIN transactions, t \in gone
          PROVE  IsRow(left[t]) /\ left[t].pair = transactions[t].pair /\ left[t].deleted
      <4>1. left[t] = [transactions[t] EXCEPT !.deleted = TRUE] /\ IsRow(transactions[t])
        BY <2>1, <2>3, <3>1 DEF Without
      <4> QED BY <4>1 DEF IsRow
    <3>2. ASSUME NEW t \in DOMAIN transactions, t \notin gone PROVE left[t] = transactions[t]
      BY <2>3, <3>2 DEF Without
    <3> QED BY <2>1, <2>3, <3>1, <3>2 DEF Without
  <2> QED BY <2>2, <2>3 DEF IsLeft
<1>3. /\ DOMAIN transactions' = DOMAIN transactions \cup ids
      /\ \A t \in DOMAIN transactions : transactions'[t] = left[t]
      /\ \A t \in ids : IsWritten(transactions'[t], entry, type, settles,
                           IF Len(parts) > 1 THEN NextId ELSE NoRow)
  <2>1. transactions' = WithParts(left, parts, entry, type, settles)
    BY DEF Write
  <2>2. Numbered /\ DOMAIN left = DOMAIN transactions
    BY <1>2 DEF IInv
  <2>3. LET now == WithParts(left, parts, entry, type, settles)
        IN /\ DOMAIN now = DOMAIN left \cup ids
           /\ \A t \in DOMAIN left : now[t] = left[t]
           /\ \A t \in ids : IsWritten(now[t], entry, type, settles,
                                IF Len(parts) > 1 THEN NextId ELSE NoRow)
    BY <2>2, WrittenRows
  <2> QED BY <2>1, <2>2, <2>3
<1>4. LiveRows' = (LiveRows \ gone) \cup ids
  BY <1>1, <1>2, <1>3 DEF LiveRows, Live, IsWritten
<1> QED BY <1>1, <1>2, <1>3, <1>4 DEF RowsAfter

\* The write that every operation ends with keeps the invariant.
LEMMA WriteKeeps ==
    ASSUME IInv, NEW gone \in SUBSET LiveRows, NEW entry, NEW type, NEW settles \in BOOLEAN,
           Writes(gone, entry, type, settles),
           IsADebt(entry.category, entry.obligation), parted \subseteq parted',
           \A t \in gone : transactions[t].pair \notin parted' \cup {NoRow} =>
                              Halves(transactions[t].pair) \subseteq gone
    PROVE  IInv'
<1> PICK left, parts : /\ IsLeft(left, gone) /\ Len(parts) \in {1, 2}
                       /\ Write(left, parts, entry, type, settles)
  BY DEF Writes
<1> DEFINE ids == NextId..(NextId + Len(parts) - 1)
           kept == LiveRows \ gone
<1>1. /\ DOMAIN transactions' = DOMAIN transactions \cup ids
      /\ ids \cap DOMAIN transactions = {} /\ LiveRows' = kept \cup ids
      /\ \A t \in DOMAIN transactions :
           /\ IsRow(transactions'[t])
           /\ transactions'[t].pair = transactions[t].pair
           /\ t \notin gone => transactions'[t] = transactions[t]
      /\ \A t \in ids : IsWritten(transactions'[t], entry, type, settles,
                           IF Len(parts) > 1 THEN NextId ELSE NoRow)
  <2>1. RowsAfter(gone, parts, entry, type, settles)
    BY LiveAfterWrite
  <2> QED BY <2>1 DEF RowsAfter
<1>2. /\ LiveRows \subseteq DOMAIN transactions
      /\ NextId \in Nat \ {0} /\ NextId \in ids
      /\ NextId \notin DOMAIN transactions
  <2>1. Numbered
    BY DEF IInv
  <2>2. NextId \in Nat \ {0} /\ NextId \notin DOMAIN transactions
    BY <2>1, NextIsFree
  <2>3. NextId \in ids
    <3>1. PICK k \in {1, 2} : Len(parts) = k
      OBVIOUS
    <3>2. NextId \in NextId..(NextId + k - 1)
      BY <2>2
    <3> QED BY <3>1, <3>2
  <2>4. LiveRows \subseteq DOMAIN transactions
    BY DEF LiveRows, Live
  <2> QED BY <2>2, <2>3, <2>4
<1>3. Numbered'
  BY <1>1, NumbersAreAdded DEF IInv, Write
<1>4. RowsTyped'
  BY <1>1 DEF RowsTyped, IsWritten
<1>5. PairsKnown'
  BY <1>1, <1>2 DEF IInv, PairsKnown, IsWritten
<1>6. DebtsNameTheirPerson'
  <2> SUFFICES ASSUME NEW t \in LiveRows'
               PROVE  IsADebt(transactions'[t].category, transactions'[t].obligation)
    BY DEF DebtsNameTheirPerson, IsADebt
  <2>1. CASE t \in kept
    BY <1>1, <1>2, <2>1 DEF IInv, DebtsNameTheirPerson
  <2>2. CASE t \in ids
    BY <1>1, <2>2 DEF IsWritten
  <2> QED BY <1>1, <2>1, <2>2
<1>7. HalvesAgree'
  <2> SUFFICES ASSUME NEW t \in LiveRows', transactions'[t].pair \notin parted' \cup {NoRow}
               PROVE  \E u \in LiveRows' \ {t} :
                        /\ {w \in LiveRows' : transactions'[w].pair = transactions'[t].pair} = {t, u}
                        /\ FiledAlike(transactions'[t], transactions'[u])
    BY DEF HalvesAgree, Halves, FiledAlike
  <2>1. CASE t \in kept
    <3>1. /\ transactions'[t] = transactions[t]
          /\ transactions[t].pair \in DOMAIN transactions \ {NoRow}
      BY <1>1, <1>2, <2>1 DEF IInv, PairsKnown
    <3>2. PICK u \in LiveRows \ {t} : /\ Halves(transactions[t].pair) = {t, u}
                                  /\ FiledAlike(transactions[t], transactions[u])
      BY <2>1, <3>1 DEF IInv, HalvesAgree
    <3>3. u \in kept /\ transactions'[u] = transactions[u]
          /\ transactions[u].pair = transactions[t].pair
      BY <1>1, <1>2, <2>1, <3>1, <3>2 DEF Halves
    <3>4. {w \in LiveRows' : transactions'[w].pair = transactions[t].pair} = {t, u}
      <4>1. ASSUME NEW w \in ids PROVE transactions'[w].pair # transactions[t].pair
        BY <1>1, <1>2, <3>1, <4>1 DEF IsWritten
      <4>2. ASSUME NEW w \in kept
            PROVE  transactions'[w].pair = transactions[t].pair <=> w \in {t, u}
        BY <1>1, <1>2, <3>1, <3>2, <4>2 DEF Halves
      <4> QED BY <1>1, <2>1, <3>3, <4>1, <4>2
    <3> QED BY <1>1, <3>1, <3>2, <3>3, <3>4
  <2>2. CASE t \in ids
    <3>1. Len(parts) = 2 /\ transactions'[t].pair = NextId
      <4>1. transactions'[t].pair = IF Len(parts) > 1 THEN NextId ELSE NoRow
        BY <1>1, <2>2 DEF IsWritten
      <4>2. transactions'[t].pair # NoRow
        OBVIOUS
      <4>3. Len(parts) > 1
        BY <4>1, <4>2
      <4>4. PICK k \in {1, 2} : Len(parts) = k
        OBVIOUS
      <4>5. k = 2
        BY <4>3, <4>4
      <4> QED BY <4>1, <4>3, <4>4, <4>5
    <3>2. ids = {NextId, NextId + 1}
      BY <1>2, <3>1
    <3>3. PICK u \in ids \ {t} : ids = {t, u}
      <4> HIDE DEF ids
      <4>1. NextId # NextId + 1
        BY <1>2
      <4> QED BY <2>2, <3>2, <4>1
    <3>4. {w \in LiveRows' : transactions'[w].pair = NextId} = ids
      <4>1. ASSUME NEW w \in kept PROVE transactions'[w].pair # NextId
        <5>1. transactions[w].pair \in DOMAIN transactions \cup {NoRow}
          BY <1>2 DEF IInv, PairsKnown
        <5>2. NextId # NoRow
          BY <1>2 DEF NoRow
        <5> QED BY <1>1, <1>2, <5>1, <5>2
      <4>2. \A w \in ids : transactions'[w].pair = NextId
        BY <1>1, <3>1 DEF IsWritten
      <4> QED BY <1>1, <4>1, <4>2
    <3>5. FiledAlike(transactions'[t], transactions'[u])
      BY <1>1, <2>2, <3>3 DEF IsWritten, FiledAlike
    <3> QED BY <1>1, <3>1, <3>3, <3>4, <3>5
  <2> QED BY <1>1, <2>1, <2>2
<1> QED BY <1>3, <1>4, <1>5, <1>6, <1>7 DEF IInv

-----------------------------------------------------------------------------
(* Each operation keeps the invariant.                                      *)

\* What only moves links: the rows are as they were in all else.
LEMMA RelinkKeeps ==
    ASSUME IInv, Numbered', UNCHANGED parted,
           DOMAIN transactions' = DOMAIN transactions,
           \A t \in DOMAIN transactions :
              \E link : transactions'[t] = [transactions[t] EXCEPT !.link = link]
    PROVE  IInv'
<1>1. ASSUME NEW t \in DOMAIN transactions
      PROVE  LET r == transactions[t] s == transactions'[t] IN
             /\ IsRow(s)
             /\ s.category = r.category /\ s.obligation = r.obligation /\ s.type = r.type
             /\ s.settles = r.settles /\ s.pair = r.pair /\ s.deleted = r.deleted
  <2>1. IsRow(transactions[t])
    BY DEF IInv, RowsTyped
  <2>2. PICK link : transactions'[t] = [transactions[t] EXCEPT !.link = link]
    OBVIOUS
  <2> QED BY <2>1, <2>2 DEF IsRow
<1>2. LiveRows' = LiveRows
  BY <1>1 DEF LiveRows, Live
<1>3. LiveRows \subseteq DOMAIN transactions
  BY DEF LiveRows, Live
<1>4. RowsTyped' /\ PairsKnown'
  BY <1>1 DEF IInv, RowsTyped, PairsKnown
<1>5. DebtsNameTheirPerson'
  BY <1>1, <1>2, <1>3 DEF IInv, DebtsNameTheirPerson, IsADebt
<1>6. HalvesAgree'
  <2> SUFFICES ASSUME NEW t \in LiveRows, transactions[t].pair \notin parted \cup {NoRow}
               PROVE  \E u \in LiveRows \ {t} :
                        /\ {w \in LiveRows : transactions'[w].pair = transactions[t].pair} = {t, u}
                        /\ FiledAlike(transactions'[t], transactions'[u])
    BY <1>1, <1>2, <1>3 DEF HalvesAgree, Halves
  <2>1. PICK u \in LiveRows \ {t} : /\ Halves(transactions[t].pair) = {t, u}
                                /\ FiledAlike(transactions[t], transactions[u])
    BY DEF IInv, HalvesAgree
  <2>2. {w \in LiveRows : transactions'[w].pair = transactions[t].pair} = {t, u}
    BY <1>1, <1>3, <2>1 DEF Halves
  <2> QED BY <1>1, <1>3, <2>1, <2>2 DEF FiledAlike
<1> QED BY <1>4, <1>5, <1>6 DEF IInv

\* What only deletes rows, or takes them out of their pair: of a pair that is
\* not parted, no row or both.
LEMMA RemovalKeeps ==
    ASSUME IInv, UNCHANGED parted,
           DOMAIN openingDebts' = DOMAIN openingDebts,
           DOMAIN transactions' = DOMAIN transactions,
           NEW gone, NEW pairs,
           \A t \in DOMAIN transactions :
              \/ t \notin gone /\ transactions'[t] = transactions[t]
              \/ t \in gone /\ transactions'[t] = [transactions[t] EXCEPT !.deleted = TRUE]
              \/ t \in gone /\ transactions'[t] = [transactions[t] EXCEPT !.pair = NoRow],
           \A t, u \in LiveRows : /\ t \in gone /\ transactions[t].pair # NoRow
                              /\ transactions[u].pair = transactions[t].pair
                              => u \in gone
    PROVE  IInv'
<1>1. ASSUME NEW t \in DOMAIN transactions
      PROVE  LET r == transactions[t] s == transactions'[t] IN
             /\ IsRow(s)
             /\ s.category = r.category /\ s.obligation = r.obligation /\ s.type = r.type
             /\ s.settles = r.settles /\ s.pair \in {r.pair, NoRow}
             /\ t \notin gone => s = r
             /\ t \in gone => s.deleted \/ s.pair = NoRow
             /\ r.deleted => s.deleted
  <2>1. IsRow(transactions[t])
    BY DEF IInv, RowsTyped
  <2>2. CASE t \notin gone /\ transactions'[t] = transactions[t]
    BY <2>1, <2>2
  <2>3. CASE t \in gone /\ transactions'[t] = [transactions[t] EXCEPT !.deleted = TRUE]
    BY <2>1, <2>3 DEF IsRow
  <2>4. CASE t \in gone /\ transactions'[t] = [transactions[t] EXCEPT !.pair = NoRow]
    BY <2>1, <2>4 DEF IsRow
  <2> QED BY <2>2, <2>3, <2>4
<1>2. LiveRows' \subseteq LiveRows /\ LiveRows \ gone \subseteq LiveRows' /\ LiveRows \subseteq DOMAIN transactions
  BY <1>1 DEF LiveRows, Live
<1>3. Numbered'
  BY NumbersAreKept DEF IInv
<1>4. RowsTyped' /\ PairsKnown'
  BY <1>1 DEF IInv, RowsTyped, PairsKnown
<1>5. DebtsNameTheirPerson'
  BY <1>1, <1>2 DEF IInv, DebtsNameTheirPerson, IsADebt
<1>6. HalvesAgree'
  <2> SUFFICES ASSUME NEW t \in LiveRows', transactions'[t].pair \notin parted \cup {NoRow}
               PROVE  \E u \in LiveRows' \ {t} :
                        /\ {w \in LiveRows' : transactions'[w].pair = transactions'[t].pair} = {t, u}
                        /\ FiledAlike(transactions'[t], transactions'[u])
    BY DEF HalvesAgree, Halves
  <2>1. /\ t \in LiveRows \ gone /\ transactions'[t] = transactions[t]
    <3>1. ~transactions'[t].deleted
      BY DEF LiveRows, Live
    <3> QED BY <1>1, <1>2, <3>1
  <2>2. PICK u \in LiveRows \ {t} : /\ Halves(transactions[t].pair) = {t, u}
                                /\ FiledAlike(transactions[t], transactions[u])
    BY <2>1 DEF IInv, HalvesAgree
  <2>3. /\ u \in LiveRows \ gone /\ transactions'[u] = transactions[u]
        /\ transactions[u].pair = transactions[t].pair
    BY <1>1, <1>2, <2>1, <2>2 DEF Halves
  <2>4. {w \in LiveRows' : transactions'[w].pair = transactions[t].pair} = {t, u}
    <3>1. ASSUME NEW w \in LiveRows', transactions'[w].pair = transactions[t].pair
          PROVE  w \in {t, u}
      <4>1. transactions[w].pair = transactions[t].pair
        BY <1>1, <1>2, <2>1, <3>1
      <4> QED BY <1>2, <2>1, <2>2, <4>1 DEF Halves
    <3> QED BY <1>2, <2>1, <2>3, <3>1
  <2> QED BY <1>2, <2>1, <2>2, <2>3, <2>4
<1> QED BY <1>3, <1>4, <1>5, <1>6 DEF IInv

\* Each operation keeps it.
LEMMA RecordOpeningDebtKeeps ==
    ASSUME IInv, NEW p, NEW amount, RecordOpeningDebt(p, amount)
    PROVE  IInv'
<1>1. \A t \in DOMAIN transactions : IsRow(transactions[t])
  BY DEF IInv, RowsTyped
<1>2. \A t \in DOMAIN transactions :
         transactions[t] = [transactions[t] EXCEPT !.link = transactions[t].link]
  BY <1>1 DEF IsRow
<1>3. CASE /\ openingDebts' = With(openingDebts, NextId,
                  [counterparty |-> p, amount |-> amount, deleted |-> FALSE])
           /\ NextId \in RowIds /\ UNCHANGED transactions
  <2>1. DOMAIN openingDebts' = DOMAIN openingDebts \cup {NextId}
    BY <1>3 DEF With
  <2>2. Numbered'
    BY <1>3, <2>1, DebtNumberIsAdded DEF IInv
  <2> QED BY <1>2, <1>3, <2>2, RelinkKeeps DEF RecordOpeningDebt
<1>4. CASE \E d \in DebtsOf(openingDebts, p) :
              /\ openingDebts' = [openingDebts EXCEPT ![d].amount = amount]
              /\ transactions' = Replanned(openingDebts', transactions, {d}, d, d)
  <2>1. PICK d \in DebtsOf(openingDebts, p) :
          /\ openingDebts' = [openingDebts EXCEPT ![d].amount = amount]
          /\ transactions' = Replanned(openingDebts', transactions, {d}, d, d)
    BY <1>4
  <2>2. PICK cleared, linked : transactions' = WithLinks(transactions, cleared, linked, d)
    BY <2>1 DEF Replanned
  <2>3. DOMAIN transactions' = DOMAIN transactions
    BY <2>2 DEF WithLinks
  <2>4. \A t \in DOMAIN transactions :
           \E link : transactions'[t] = [transactions[t] EXCEPT !.link = link]
    BY <1>2, <2>2 DEF WithLinks
  <2>5. Numbered'
    BY <2>1, <2>3, NumbersAreKept DEF IInv
  <2> QED BY <2>3, <2>4, <2>5, RelinkKeeps DEF RecordOpeningDebt
<1> QED BY <1>3, <1>4 DEF RecordOpeningDebt, PutOpeningDebt

LEMMA DeleteOpeningDebtKeeps ==
    ASSUME IInv, NEW d, DeleteOpeningDebt(d)
    PROVE  IInv'
<1> DEFINE paid == Repayments(transactions, d)
           pairs == {transactions[t].pair : t \in paid} \ {NoRow}
           gone == paid \cup {t \in LiveRows : transactions[t].pair \in pairs}
<1>1. /\ openingDebts' = [openingDebts EXCEPT ![d].deleted = TRUE]
      /\ transactions' =
            [t \in DOMAIN transactions |->
               IF t \in paid THEN [transactions[t] EXCEPT !.deleted = TRUE]
               ELSE IF t \in LiveRows /\ transactions[t].pair \in pairs
               THEN [transactions[t] EXCEPT !.pair = NoRow]
               ELSE transactions[t]]
      /\ UNCHANGED parted
  BY DEF DeleteOpeningDebt, RemoveOpeningDebt, LiveRows, NoRow
<1>2. paid \subseteq LiveRows
  BY DEF Repayments, LiveRows
<1>3. \A t \in DOMAIN transactions :
         \/ t \notin gone /\ transactions'[t] = transactions[t]
         \/ t \in gone /\ transactions'[t] = [transactions[t] EXCEPT !.deleted = TRUE]
         \/ t \in gone /\ transactions'[t] = [transactions[t] EXCEPT !.pair = NoRow]
  BY <1>1
<1>4. ASSUME NEW t \in LiveRows, NEW u \in LiveRows, t \in gone, transactions[t].pair # NoRow,
             transactions[u].pair = transactions[t].pair
      PROVE  u \in gone
  BY <1>4
<1>5. /\ DOMAIN openingDebts' = DOMAIN openingDebts
      /\ DOMAIN transactions' = DOMAIN transactions
  BY <1>1
<1> HIDE DEF gone
<1> QED BY <1>1, <1>3, <1>4, <1>5, RemovalKeeps

LEMMA DeleteTransactionKeeps ==
    ASSUME IInv, NEW t \in DOMAIN transactions, DeleteTransaction(t)
    PROVE  IInv'
<1> DEFINE gone == {u \in DOMAIN transactions :
                      \/ u = t
                      \/ /\ transactions[t].pair # NoRow
                         /\ transactions[u].pair = transactions[t].pair}
<1>1. /\ UNCHANGED <<openingDebts, parted>>
      /\ transactions' =
            [u \in DOMAIN transactions |->
               IF u \in gone THEN [transactions[u] EXCEPT !.deleted = TRUE]
                             ELSE transactions[u]]
  BY DEF DeleteTransaction, RemoveTransaction, NoRow
<1>2. LiveRows \subseteq DOMAIN transactions
  BY DEF LiveRows, Live
<1>3. ASSUME NEW u \in LiveRows, NEW w \in LiveRows, u \in gone, transactions[u].pair # NoRow,
             transactions[w].pair = transactions[u].pair
      PROVE  w \in gone
  BY <1>2, <1>3
<1> HIDE DEF gone
<1> QED BY <1>1, <1>3, RemovalKeeps

LEMMA CreateTransactionKeeps ==
    ASSUME IInv, NEW entry, CreateTransaction(entry)
    PROVE  IInv'
<1>1. Writes({}, entry, entry.type, FALSE)
  <2> DEFINE parts == Whole(entry.own, entry.own, NoRow)
  <2>1. Len(parts) \in {1, 2}
    BY DEF Whole
  <2>2. IsLeft(transactions, {})
    BY DEF IsLeft
  <2>3. Write(transactions, parts, entry, entry.type, FALSE)
    BY DEF CreateTransaction
  <2> HIDE DEF parts
  <2> QED BY <2>1, <2>2, <2>3 DEF Writes
<1>2. IsADebt(entry.category, entry.obligation) /\ parted \subseteq parted'
  BY DEF CreateTransaction, MayBeEntered
<1>3. {} \in SUBSET LiveRows /\ FALSE \in BOOLEAN
  OBVIOUS
<1> QED BY <1>1, <1>2, <1>3, WriteKeeps

LEMMA SettleDebtKeeps ==
    ASSUME IInv, NEW payment \in Settlements, NEW type, NEW old,
           SettleDebt(payment, type, old)
    PROVE  IInv'
<1> DEFINE gone == {old} \ {NoRow}
<1>1. Writes(gone, payment, type, TRUE)
  <2> DEFINE left == Without(gone)
             link == OpeningLink(openingDebts, left, payment.obligation, type)
             parts == PlannedSplit(left, link, payment.own, payment.discharge)
  <2>1. Len(parts) \in {1, 2}
    BY PlanIsOneOrTwo
  <2>2. IsLeft(left, gone)
    BY WithoutIsLeft
  <2>3. Write(left, parts, payment, type, TRUE)
    BY DEF SettleDebt
  <2> HIDE DEF left, parts, gone
  <2> QED BY <2>1, <2>2, <2>3 DEF Writes
<1>2. /\ gone \subseteq LiveRows
      /\ parted' = parted \cup ({transactions[t].pair : t \in gone} \ {NoRow})
  BY DEF SettleDebt
<1>3. IsADebt(payment.category, payment.obligation)
  BY ConstantsAssumption, RowsAssumption DEF IsADebt
<1>4. \A t \in gone : transactions[t].pair \notin parted' \cup {NoRow} =>
                         Halves(transactions[t].pair) \subseteq gone
  BY <1>2
<1>5. parted \subseteq parted' /\ gone \in SUBSET LiveRows
  BY <1>2
<1> HIDE DEF gone
<1> QED BY <1>1, <1>3, <1>4, <1>5, WriteKeeps

LEMMA SupersedeTransactionKeeps ==
    ASSUME IInv, NEW t, NEW entry, NEW spill, SupersedeTransaction(t, entry, spill)
    PROVE  IInv'
<1> DEFINE gone == Superseded(t)
           left == Without(gone)
           carried == Carried(t, entry, left, spill)
<1>1. Writes(gone, entry, entry.type, carried.settles)
  <2> DEFINE parts == carried.parts
  <2>1. Len(parts) \in {1, 2}
    BY CarriedIsOneOrTwo
  <2>2. IsLeft(left, gone)
    BY WithoutIsLeft
  <2>3. Write(left, parts, entry, entry.type, carried.settles)
    BY DEF SupersedeTransaction
  <2> HIDE DEF left, parts, gone, carried
  <2> QED BY <2>1, <2>2, <2>3 DEF Writes
<1>2. t \in LiveRows /\ IsADebt(entry.category, entry.obligation) /\ UNCHANGED parted
  BY DEF SupersedeTransaction, MayBeEntered
<1>3. gone \in SUBSET LiveRows
  BY <1>2 DEF Superseded, Halves
<1>4. ASSUME NEW u \in gone, transactions[u].pair # NoRow
      PROVE  Halves(transactions[u].pair) \subseteq gone
  BY <1>4 DEF Superseded, Halves
<1>5. carried.settles \in BOOLEAN
  BY CarriedIsOneOrTwo
<1>6. parted \subseteq parted'
  BY <1>2
<1> HIDE DEF gone, carried
<1> QED BY <1>1, <1>2, <1>3, <1>4, <1>5, <1>6, WriteKeeps

\* An edit is of a row that is half of nothing.
LEMMA UpdateTransactionKeeps ==
    ASSUME IInv, NEW t \in DOMAIN transactions, NEW patch, UpdateTransaction(t, patch)
    PROVE  IInv'
<1> DEFINE row == transactions[t]
           category == IF "category" \in DOMAIN patch THEN patch["category"] ELSE row.category
           leaving == Leaves(row, category)
           obligation == Obligation(row, patch, leaving)
           own == IF "own" \in DOMAIN patch THEN patch["own"] ELSE row.own
           settles == row.settles /\ ~leaving
           discharge == IF settles /\ "own" \in DOMAIN patch THEN own ELSE row.amount
           amount == IF settles THEN discharge ELSE own
           link == PatchedLink(t, patch, leaving, obligation, discharge)
           now == transactions'[t]
<1>1. /\ t \in LiveRows /\ row.pair = NoRow /\ UNCHANGED <<openingDebts, parted>>
      /\ DOMAIN patch \cap {"category", "obligation"} # {} => IsADebt(category, obligation)
  BY DEF UpdateTransaction
<1>2. /\ settles \in BOOLEAN
      /\ transactions' = [transactions EXCEPT ![t] =
              [row EXCEPT !.category = category, !.obligation = obligation, !.own = own,
                          !.settles = settles, !.amount = amount, !.link = link]]
  BY DEF UpdateTransaction
<1> HIDE DEF own, settles, discharge, amount, link
<1>3. /\ DOMAIN transactions' = DOMAIN transactions
      /\ \A u \in DOMAIN transactions \ {t} : transactions'[u] = transactions[u]
  BY <1>2
<1>4. /\ IsRow(now) /\ now.category = category /\ now.obligation = obligation
      /\ now.pair = NoRow /\ ~now.deleted
  <2>1. IsRow(row) /\ ~row.deleted
    BY <1>1 DEF IInv, RowsTyped, LiveRows, Live
  <2>2. now = [row EXCEPT !.category = category, !.obligation = obligation, !.own = own,
                          !.settles = settles, !.amount = amount, !.link = link]
    BY <1>2
  <2>3. row.pair = NoRow /\ settles \in BOOLEAN
    BY <1>1, <1>2
  <2> HIDE DEF category, obligation, now, row
  <2> QED BY <2>1, <2>2, <2>3 DEF IsRow
<1>5. IsADebt(category, obligation)
  <2>1. CASE DOMAIN patch \cap {"category", "obligation"} = {}
    <3>1. category = row.category /\ ~leaving /\ obligation = row.obligation
      BY <2>1 DEF Leaves, Obligation
    <3> QED BY <1>1, <3>1 DEF IInv, DebtsNameTheirPerson
  <2> QED BY <1>1, <2>1
<1> HIDE DEF category, obligation
<1>6. LiveRows' = LiveRows /\ LiveRows \subseteq DOMAIN transactions
  BY <1>1, <1>3, <1>4 DEF LiveRows, Live
<1>7. Numbered'
  BY <1>1, <1>3, NumbersAreKept DEF IInv
<1>8. RowsTyped' /\ PairsKnown'
  BY <1>3, <1>4 DEF IInv, RowsTyped, PairsKnown
<1>9. DebtsNameTheirPerson'
  <2> SUFFICES ASSUME NEW u \in LiveRows
               PROVE  IsADebt(transactions'[u].category, transactions'[u].obligation)
    BY <1>6 DEF DebtsNameTheirPerson, IsADebt
  <2>1. CASE u = t
    BY <1>4, <1>5, <2>1
  <2>2. CASE u # t
    BY <1>3, <1>6, <2>2 DEF IInv, DebtsNameTheirPerson
  <2> QED BY <2>1, <2>2
<1>10. HalvesAgree'
  <2> SUFFICES ASSUME NEW u \in LiveRows, transactions'[u].pair \notin parted \cup {NoRow}
               PROVE  \E v \in LiveRows \ {u} :
                        /\ {w \in LiveRows : transactions'[w].pair = transactions'[u].pair} = {u, v}
                        /\ FiledAlike(transactions'[u], transactions'[v])
    BY <1>1, <1>6 DEF HalvesAgree, Halves
  <2>1. u # t /\ transactions'[u] = transactions[u]
    BY <1>3, <1>4, <1>6
  <2>2. PICK v \in LiveRows \ {u} : /\ Halves(transactions[u].pair) = {u, v}
                                /\ FiledAlike(transactions[u], transactions[v])
    BY <2>1 DEF IInv, HalvesAgree
  <2>3. v # t /\ transactions'[v] = transactions[v]
    BY <1>1, <1>3, <1>6, <2>1, <2>2 DEF Halves
  <2>4. {w \in LiveRows : transactions'[w].pair = transactions[u].pair} = {u, v}
    <3>1. \A w \in LiveRows : transactions'[w].pair = transactions[w].pair
      BY <1>1, <1>3, <1>4, <1>6
    <3> QED BY <2>1, <2>2, <3>1 DEF Halves
  <2> QED BY <2>1, <2>2, <2>3, <2>4
<1> QED BY <1>7, <1>8, <1>9, <1>10 DEF IInv

LEMMA CategorizeBatchKeeps ==
    ASSUME IInv, NEW batch, NEW category, CategorizeBatch(batch, category)
    PROVE  IInv'
<1>1. /\ batch \subseteq LiveRows /\ UNCHANGED openingDebts
      /\ \A t \in batch : MayBeEntered(category, transactions[t].obligation)
      /\ transactions' = [t \in DOMAIN transactions |->
                            IF t \in batch THEN Categorised(transactions[t], category)
                                           ELSE transactions[t]]
      /\ parted' = parted \cup {transactions[t].pair : t \in
                      {u \in batch : ~(Halves(transactions[u].pair) \subseteq batch)}}
  BY DEF CategorizeBatch
<1>2. \A t \in DOMAIN transactions : IsRow(transactions[t])
  BY DEF IInv, RowsTyped
<1>3. ASSUME NEW t \in batch
      PROVE  LET r == transactions[t] s == transactions'[t] IN
             /\ s = Categorised(r, category)
             /\ IsRow(s) /\ s.pair = r.pair /\ s.deleted = r.deleted
             /\ IsADebt(s.category, s.obligation)
  <2>1. transactions'[t] = Categorised(transactions[t], category) /\ IsRow(transactions[t])
    BY <1>1, <1>2 DEF LiveRows, Live
  <2>2. IsADebt(category, transactions[t].obligation)
    BY <1>1 DEF MayBeEntered
  <2> QED BY <2>1, <2>2 DEF Categorised, IsRow, Leaves, IsADebt
<1>4. \A t \in DOMAIN transactions \ batch : transactions'[t] = transactions[t]
  BY <1>1
<1>5. /\ LiveRows' = LiveRows /\ LiveRows \subseteq DOMAIN transactions
      /\ DOMAIN transactions' = DOMAIN transactions
      /\ \A t \in DOMAIN transactions : transactions'[t].pair = transactions[t].pair
  BY <1>1, <1>3, <1>4 DEF LiveRows, Live
<1>6. Numbered'
  BY <1>1, <1>5, NumbersAreKept DEF IInv
<1>7. RowsTyped' /\ PairsKnown'
  BY <1>2, <1>3, <1>4, <1>5 DEF IInv, RowsTyped, PairsKnown
<1>8. DebtsNameTheirPerson'
  <2> SUFFICES ASSUME NEW t \in LiveRows
               PROVE  IsADebt(transactions'[t].category, transactions'[t].obligation)
    BY <1>5 DEF DebtsNameTheirPerson, IsADebt
  <2>1. CASE t \in batch
    BY <1>3, <2>1
  <2>2. CASE t \notin batch
    BY <1>4, <1>5, <2>2 DEF IInv, DebtsNameTheirPerson
  <2> QED BY <2>1, <2>2
<1>9. HalvesAgree'
  <2> SUFFICES ASSUME NEW t \in LiveRows, transactions[t].pair \notin parted' \cup {NoRow}
               PROVE  \E u \in LiveRows \ {t} :
                        /\ {w \in LiveRows : transactions'[w].pair = transactions'[t].pair} = {t, u}
                        /\ FiledAlike(transactions'[t], transactions'[u])
    BY <1>5 DEF HalvesAgree, Halves
  <2>1. PICK u \in LiveRows \ {t} : /\ Halves(transactions[t].pair) = {t, u}
                                /\ FiledAlike(transactions[t], transactions[u])
    BY <1>1 DEF IInv, HalvesAgree
  <2>2. transactions[u].pair = transactions[t].pair
    BY <2>1 DEF Halves
  <2>3. t \in batch <=> u \in batch
    BY <1>1, <2>1, <2>2
  <2>4. FiledAlike(transactions'[t], transactions'[u])
    <3>1. CASE t \in batch
      <4>1. /\ transactions'[t] = Categorised(transactions[t], category)
            /\ transactions'[u] = Categorised(transactions[u], category)
            /\ IsRow(transactions[t]) /\ IsRow(transactions[u])
        BY <1>2, <1>3, <1>5, <2>3, <3>1
      <4>2. FiledAlike(transactions[t], transactions[u])
        BY <2>1
      <4>3. CASE Leaves(transactions[t], category) /\ transactions[t].obligation # Nobody
        <5>1. Leaves(transactions[u], category) /\ transactions[u].obligation # Nobody
          BY <4>2, <4>3 DEF FiledAlike, Leaves
        <5> QED BY <4>1, <4>2, <4>3, <5>1 DEF Categorised, FiledAlike, IsRow
      <4>4. CASE ~(Leaves(transactions[t], category) /\ transactions[t].obligation # Nobody)
        <5>1. ~(Leaves(transactions[u], category) /\ transactions[u].obligation # Nobody)
          BY <4>2, <4>4 DEF FiledAlike, Leaves
        <5> QED BY <4>1, <4>2, <4>4, <5>1 DEF Categorised, FiledAlike, IsRow
      <4> QED BY <4>3, <4>4
    <3>2. CASE t \notin batch
      BY <1>4, <1>5, <2>1, <2>3, <3>2
    <3> QED BY <3>1, <3>2
  <2>5. {w \in LiveRows : transactions'[w].pair = transactions'[t].pair} = {t, u}
    BY <1>5, <2>1 DEF Halves
  <2> QED BY <2>1, <2>4, <2>5
<1> QED BY <1>6, <1>7, <1>8, <1>9 DEF IInv

-----------------------------------------------------------------------------
(* The amounts: what is settled of an opening debt stays within it.          *)

IsFiled(r) == r \in Transaction /\ (~r.settles => r.amount = r.own)

RowsFiled == \A t \in DOMAIN transactions : IsFiled(transactions[t])
DebtsTyped == \A d \in DOMAIN openingDebts : openingDebts[d] \in OpeningDebt

\* A link names an opening debt there is, so that a new one starts with none.
LinksKnown ==
    \A t \in DOMAIN transactions : transactions[t].link \in DOMAIN openingDebts \cup {NoRow}

Settled(txs, d) == {t \in Repayments(txs, d) : txs[t].settles}

\* SettlementsFitTheirDebt, of any two tables.
SettledWithin(debts, txs) ==
    \A d \in Live(debts) :
        /\ Total(txs, Settled(txs, d)) <= Size(debts[d])
        /\ \A t \in Repayments(txs, d) :
             /\ txs[t].obligation = debts[d].counterparty
             /\ Reduces(debts[d], txs[t].type)

AmountsInv ==
    /\ RowsFiled /\ DebtsTyped /\ LinksKnown /\ parted \subseteq RowIds
    /\ SettledWithin(openingDebts, transactions)

\* What the two invariants say together of the amounts.
LEMMA AmountsInvGives ==
    ASSUME IInv, AmountsInv
    PROVE  TypeOK /\ SettlementsFitTheirDebt
<1>1. TypeOK
  BY DEF IInv, Numbered, AmountsInv, RowsFiled, IsFiled, DebtsTyped, TypeOK
<1>2. SettlementsFitTheirDebt
  BY DEF AmountsInv, SettledWithin, Settled, SettlementsFitTheirDebt
<1> QED BY <1>1, <1>2

\* The tables are those OpeningDebtsProofs is about.
LEMMA FiledRowsAreRows ==
    ASSUME NEW txs, DOMAIN txs \subseteq RowIds, \A t \in DOMAIN txs : IsFiled(txs[t])
    PROVE  AreRows(txs)
<1>1. ASSUME NEW t \in DOMAIN txs PROVE HasFields(txs[t]) /\ txs[t].amount \in Nat
  BY DEF IsFiled, Transaction, HasFields, Fields
<1> QED BY <1>1 DEF AreRows

LEMMA TypedDebtsAreDebts ==
    ASSUME NEW debts, DOMAIN debts \subseteq RowIds,
           \A d \in DOMAIN debts : debts[d] \in OpeningDebt
    PROVE  AreDebts(debts)
BY RowsAssumption DEF AreDebts, OpeningDebt, SignedAmounts

LEMMA TablesAreTyped ==
    ASSUME IInv, AmountsInv
    PROVE  AreRows(transactions) /\ AreDebts(openingDebts)
BY NumbersAreRowIds, FiledRowsAreRows, TypedDebtsAreDebts
   DEF IInv, AmountsInv, RowsFiled, DebtsTyped

\* The same row, as far as a debt it is linked to goes.
SameToItsDebt(r, s) ==
    /\ s.obligation = r.obligation /\ s.type = r.type /\ s.settles = r.settles
    /\ s.amount = r.amount /\ s.link = r.link

\* The linked rows are some of those there were, and at most one more, which
\* fits in what its debt had open.
LEMMA OneMoreIsWithin ==
    ASSUME NEW debts, AreDebts(debts), NEW txs, AreRows(txs), NEW now, AreRows(now),
           SettledWithin(debts, txs), NEW u,
           \A t \in Live(now) \ {u} :
              now[t].link # NoRow => t \in Live(txs) /\ SameToItsDebt(txs[t], now[t]),
           \A d \in Live(debts) : u \in Repayments(now, d) =>
              /\ u \notin Repayments(txs, d) /\ Suits(debts, now, u, d)
              /\ now[u].settles => now[u].amount <= StillOpen(debts, txs, d)
    PROVE  SettledWithin(debts, now)
<1> SUFFICES ASSUME NEW d \in Live(debts)
             PROVE  /\ Total(now, Settled(now, d)) <= Size(debts[d])
                    /\ \A t \in Repayments(now, d) :
                         /\ now[t].obligation = debts[d].counterparty
                         /\ Reduces(debts[d], now[t].type)
  BY DEF SettledWithin
<1>1. /\ d \in DOMAIN debts /\ d # NoRow /\ Size(debts[d]) \in Nat
      /\ Live(txs) \subseteq DOMAIN txs /\ Live(now) \subseteq DOMAIN now
  BY RowsAssumption, SizeIsNatural DEF Live, AreDebts, RowIds, NoRow
<1>2. /\ Total(txs, Settled(txs, d)) <= Size(debts[d])
      /\ \A t \in Repayments(txs, d) : /\ txs[t].obligation = debts[d].counterparty
                                       /\ Reduces(debts[d], txs[t].type)
  BY DEF SettledWithin
<1>3. \A t \in Repayments(now, d) \ {u} :
         t \in Repayments(txs, d) /\ SameToItsDebt(txs[t], now[t])
  BY <1>1 DEF Repayments, SameToItsDebt
<1>4. \A t \in Repayments(now, d) :
         now[t].obligation = debts[d].counterparty /\ Reduces(debts[d], now[t].type)
  BY <1>2, <1>3 DEF SameToItsDebt, Suits, DebtsOf
<1> DEFINE were == Repayments(txs, d)
           paid == Settled(txs, d)
           rest == Settled(now, d) \ {u}
<1>5. /\ rest \in SUBSET paid /\ paid \in SUBSET were /\ were \in SUBSET DOMAIN txs
      /\ rest \in SUBSET DOMAIN now /\ \A t \in rest : now[t].amount = txs[t].amount
  BY <1>1, <1>3 DEF Settled, Repayments, SameToItsDebt
<1>6. rest \in SUBSET were /\ paid \in SUBSET DOMAIN txs
  BY <1>5
<1> HIDE DEF were, paid, rest
<1>7. /\ Total(now, rest) \in Nat /\ Total(now, rest) <= Total(txs, paid)
      /\ Total(now, rest) <= Total(txs, were)
      /\ Total(txs, paid) \in Nat /\ Total(txs, were) \in Nat
  BY <1>5, <1>6, TotalsShrink, TotalsAdd
<1>8. CASE u \notin Settled(now, d)
  <2>1. Settled(now, d) = rest
    BY <1>8 DEF rest
  <2>2. Total(now, Settled(now, d)) = Total(now, rest)
    BY <2>1, Zenon
  <2>3. Total(now, rest) <= Size(debts[d])
    BY <1>1, <1>2, <1>7 DEF paid
  <2> QED BY <1>4, <2>2, <2>3
<1>9. CASE u \in Settled(now, d)
  <2>1. u \in Repayments(now, d) /\ now[u].settles /\ u \in DOMAIN now
    BY <1>1, <1>9 DEF Settled, Repayments
  <2>2. now[u].amount <= Size(debts[d]) - Total(txs, were) /\ now[u].amount \in Nat
    BY <2>1 DEF StillOpen, Repaid, were, AreRows
  <2>3. Settled(now, d) = rest \cup {u} /\ u \in DOMAIN now \ rest
    BY <1>9, <2>1 DEF rest
  <2>4. Total(now, rest \cup {u}) = Total(now, rest) + now[u].amount
    BY <1>5, <2>3, TotalsAdd
  <2>5. Total(now, Settled(now, d)) = Total(now, rest \cup {u})
    BY <2>3, Zenon
  <2>6. Total(now, rest \cup {u}) <= Size(debts[d])
    BY <1>1, <1>7, <2>2, <2>4
  <2> QED BY <1>4, <2>5, <2>6
<1> QED BY <1>8, <1>9

IsPart(part) ==
    /\ part.own \in Amounts /\ part.discharge \in Nat \ {0} /\ part.link \in RowIds \cup {NoRow}

\* Parts that may be written after the rows `left`: one of them at most is
\* linked, the first, and fits.
FitParts(parts, left, obligation, type, settles) ==
    /\ Len(parts) \in {1, 2} /\ \A i \in 1..Len(parts) : IsPart(parts[i])
    /\ Len(parts) = 2 => parts[2].link = NoRow
    /\ parts[1].link # NoRow =>
         /\ settles
         /\ parts[1].link \in OpeningLink(openingDebts, left, obligation, type)
         /\ parts[1].discharge <= StillOpen(openingDebts, left, parts[1].link)

\* The parts of an entry fit: an unlinked one, a linked one, a planned split.
LEMMA WholeFits ==
    ASSUME NEW own \in Amounts, NEW discharge \in Nat \ {0}, NEW left, NEW obligation, NEW type,
           NEW settles
    PROVE  FitParts(Whole(own, discharge, NoRow), left, obligation, type, settles)
<1> DEFINE part == [own |-> own, discharge |-> discharge, link |-> NoRow]
<1>1. Whole(own, discharge, NoRow) = <<part>>
  BY DEF Whole
<1>2. Len(<<part>>) = 1 /\ <<part>>[1] = part /\ \A i \in 1..1 : i = 1
  OBVIOUS
<1>3. IsPart(part) /\ part.link = NoRow
  BY DEF IsPart
<1> HIDE DEF part
<1> QED BY <1>1, <1>2, <1>3 DEF FitParts

LEMMA LinkedFits ==
    ASSUME NEW own \in Amounts, NEW discharge \in Nat \ {0}, NEW left, NEW obligation, NEW type,
           NEW d \in OpeningLink(openingDebts, left, obligation, type),
           AreDebts(openingDebts),
           discharge <= StillOpen(openingDebts, left, d)
    PROVE  FitParts(Whole(own, discharge, d), left, obligation, type, TRUE)
<1> DEFINE part == [own |-> own, discharge |-> discharge, link |-> d]
<1>1. Whole(own, discharge, d) = <<part>>
  BY DEF Whole
<1>2. Len(<<part>>) = 1 /\ <<part>>[1] = part /\ \A i \in 1..1 : i = 1
  OBVIOUS
<1>3. d \in RowIds
  BY DEF OpeningLink, DebtsOf, Live, AreDebts
<1>4. IsPart(part) /\ part.link = d /\ part.discharge = discharge
  BY <1>3 DEF IsPart
<1> HIDE DEF part
<1> QED BY <1>1, <1>2, <1>4 DEF FitParts

\* The share of a payment that is linked leaves something of it for the rest.
LEMMA ShareLeavesSome ==
    ASSUME NEW own \in Amounts, NEW open \in Nat \ {0}, NEW discharge \in Nat \ {0},
           ~(LinkedShare(own, open, discharge) <= 0)
    PROVE  /\ LinkedShare(own, open, discharge) \in Amounts
           /\ own - LinkedShare(own, open, discharge) \in Amounts
<1> DEFINE share == RoundedHalfUp(own * open, discharge)
           dust == IF share <= 0 THEN 1 ELSE share
<1>1. own \in Nat \ {0} /\ own <= Ceiling /\ Ceiling \in Nat
  BY RowsAssumption DEF Amounts
<1>2. own * open \in Nat
  BY <1>1
<1>3. share \in Int
  <2>1. ASSUME NEW n \in Nat, NEW m \in Nat \ {0} PROVE (2 * n + m) \div (2 * m) \in Int
    <3>1. 2 * n + m \in Int /\ 2 * m \in Nat \ {0}
      OBVIOUS
    <3> QED BY <3>1
  <2> QED BY <1>2, <2>1 DEF RoundedHalfUp
<1> HIDE DEF share
<1>4. dust \in Nat \ {0}
  BY <1>3
<1>5. LinkedShare(own, open, discharge) = IF own - dust <= 0 THEN own - 1 ELSE dust
  BY DEF LinkedShare, share
<1> HIDE DEF dust
<1>6. /\ LinkedShare(own, open, discharge) \in Nat \ {0}
      /\ own - LinkedShare(own, open, discharge) \in Nat \ {0}
  BY <1>1, <1>4, <1>5
<1> QED BY <1>1, <1>6 DEF Amounts

LEMMA PlanFits ==
    ASSUME AreDebts(openingDebts), NEW left, AreRows(left),
           NEW own \in Amounts, NEW discharge \in Nat \ {0}, NEW obligation, NEW type
    PROVE  FitParts(PlannedSplit(left, OpeningLink(openingDebts, left, obligation, type),
                                 own, discharge),
                    left, obligation, type, TRUE)
<1> DEFINE link == OpeningLink(openingDebts, left, obligation, type)
           d == CHOOSE d \in link : TRUE
           open == StillOpen(openingDebts, left, d)
           share == LinkedShare(own, open, discharge)
           parts == PlannedSplit(left, link, own, discharge)
           first == [own |-> share, discharge |-> open, link |-> d]
           second == [own |-> own - share, discharge |-> discharge - open, link |-> NoRow]
<1>1. parts = IF link = {} THEN Whole(own, discharge, NoRow)
              ELSE IF discharge <= open THEN Whole(own, discharge, d)
              ELSE IF share <= 0 THEN Whole(own, discharge, NoRow)
              ELSE <<first, second>>
  BY DEF PlannedSplit
<1>2. CASE link = {} \/ (~(discharge <= open) /\ share <= 0)
  BY <1>1, <1>2, WholeFits
<1>3. ASSUME link # {}
      PROVE  d \in link /\ d \in RowIds /\ open \in Nat \ {0}
  <2>1. d \in link
    BY <1>3
  <2>2. d \in DOMAIN openingDebts /\ open > 0
    BY <2>1 DEF OpeningLink, DebtsOf, Live
  <2>3. Repaid(left, d) \in Nat /\ Size(openingDebts[d]) \in Nat
    <3>1. Repayments(left, d) \in SUBSET DOMAIN left
      BY DEF Repayments, Live
    <3> QED BY <2>2, <3>1, TotalsAdd, SizeIsNatural DEF Repaid
  <2> QED BY <2>1, <2>2, <2>3 DEF StillOpen, AreDebts
<1>4. CASE link # {} /\ discharge <= open
  <2>1. FitParts(Whole(own, discharge, d), left, obligation, type, TRUE)
    BY <1>3, <1>4, LinkedFits
  <2> QED BY <1>1, <1>4, <2>1
<1>5. CASE link # {} /\ ~(discharge <= open) /\ ~(share <= 0)
  <2>1. share \in Amounts /\ own - share \in Amounts
    BY <1>3, <1>5, ShareLeavesSome
  <2>2. discharge - open \in Nat \ {0}
    BY <1>3, <1>5
  <2>3. /\ IsPart(first) /\ first.link = d /\ first.discharge = open
        /\ IsPart(second) /\ second.link = NoRow
    <3> HIDE DEF d, open, share
    <3> QED BY <1>3, <1>5, <2>1, <2>2 DEF IsPart
  <2>4. parts = <<first, second>> /\ d \in link /\ open \in Nat
    BY <1>1, <1>3, <1>5
  <2>5. /\ Len(<<first, second>>) = 2 /\ <<first, second>>[1] = first
        /\ <<first, second>>[2] = second /\ \A i \in 1..2 : i = 1 \/ i = 2
    OBVIOUS
  <2>6. open <= StillOpen(openingDebts, left, d)
    BY <2>4
  <2> HIDE DEF first, second, parts, d, open, share, link
  <2>7. FitParts(parts, left, obligation, type, TRUE)
    BY <2>3, <2>4, <2>5, <2>6 DEF FitParts, link
  <2> QED BY <2>7 DEF parts, link
<1> HIDE DEF link, d, open, share, parts, first, second
<1> QED BY <1>2, <1>4, <1>5

\* The rows a write starts from, as far as their amounts go.
LEMMA LeftIsWithin ==
    ASSUME IInv, AmountsInv, NEW gone \in SUBSET LiveRows, NEW left, IsLeft(left, gone)
    PROVE  /\ DOMAIN left = DOMAIN transactions /\ AreRows(left)
           /\ \A t \in DOMAIN left :
                IsFiled(left[t]) /\ left[t].link \in DOMAIN openingDebts \cup {NoRow}
           /\ SettledWithin(openingDebts, left)
<1>1. /\ AreRows(transactions) /\ AreDebts(openingDebts)
      /\ SettledWithin(openingDebts, transactions)
      /\ \A t \in DOMAIN transactions :
           /\ IsFiled(transactions[t])
           /\ transactions[t].link \in DOMAIN openingDebts \cup {NoRow}
  BY TablesAreTyped DEF AmountsInv, RowsFiled, LinksKnown
<1>2. CASE gone = {} /\ left = transactions
  BY <1>1, <1>2
<1>3. CASE left = Without(gone)
  <2>1. DOMAIN left = DOMAIN transactions
    BY <1>3 DEF Without
  <2>2. ASSUME NEW t \in DOMAIN transactions
        PROVE  /\ IsFiled(left[t]) /\ SameToItsDebt(transactions[t], left[t])
               /\ t \in Live(left) => t \in Live(transactions)
    <3>1. left[t] = IF t \in gone THEN [transactions[t] EXCEPT !.deleted = TRUE]
                                  ELSE transactions[t]
      BY <1>3 DEF Without
    <3>2. IsFiled(transactions[t])
      BY <1>1
    <3> QED BY <3>1, <3>2 DEF IsFiled, Transaction, SameToItsDebt, Live
  <2>3. DOMAIN left \subseteq RowIds /\ \A t \in DOMAIN left : IsFiled(left[t])
    BY <1>1, <2>1, <2>2 DEF AreRows
  <2>4. AreRows(left)
    BY <2>3, FiledRowsAreRows
  <2>5. \A t \in Live(left) \ {NoRow} :
           t \in Live(transactions) /\ SameToItsDebt(transactions[t], left[t])
    BY <2>1, <2>2 DEF Live
  <2>6. \A d : NoRow \notin Repayments(left, d)
    BY <2>3, RowsAssumption DEF Repayments, Live, RowIds, NoRow
  <2>7. SettledWithin(openingDebts, left)
    BY <1>1, <2>4, <2>5, <2>6, OneMoreIsWithin
  <2> QED BY <1>1, <2>1, <2>2, <2>3, <2>4, <2>7 DEF SameToItsDebt
<1> QED BY <1>2, <1>3 DEF IsLeft

\* One part of a payment as a row.
RowOf(part, entry, type, settles, pair) ==
    [category |-> entry.category, obligation |-> entry.obligation, type |-> type,
     own |-> part.own, amount |-> IF settles THEN part.discharge ELSE part.own,
     settles |-> settles, link |-> part.link, pair |-> pair, deleted |-> FALSE]

\* The rows `txs` with the parts of one payment after them.
RowsAndParts(now, txs, parts, entry, type, settles) ==
    LET pair == IF Len(parts) > 1 THEN NextId ELSE NoRow IN
    /\ DOMAIN now = DOMAIN txs \cup NextId..(NextId + Len(parts) - 1)
    /\ \A t \in DOMAIN txs : now[t] = txs[t]
    /\ now[NextId] = RowOf(parts[1], entry, type, settles, pair)
    /\ Len(parts) = 2 => now[NextId + 1] = RowOf(parts[2], entry, type, settles, pair)

\* The parts are written as rows of the right fields.
LEMMA PartsAreRows ==
    ASSUME Numbered, NEW txs, DOMAIN txs = DOMAIN transactions, NEW parts, NEW entry, NEW type,
           NEW settles, Len(parts) \in {1, 2}
    PROVE  RowsAndParts(WithParts(txs, parts, entry, type, settles),
                        txs, parts, entry, type, settles)
<1> DEFINE now == WithParts(txs, parts, entry, type, settles)
           pair == IF Len(parts) > 1 THEN NextId ELSE NoRow
           ids == NextId..(NextId + Len(parts) - 1)
<1>1. /\ NextId \in Nat \ {0} /\ NextId \notin DOMAIN txs /\ NextId + 1 \notin DOMAIN txs
  BY NextIsFree
<1>2. /\ NextId \in ids /\ (Len(parts) = 2 => NextId + 1 \in ids)
      /\ NextId - NextId + 1 = 1 /\ (NextId + 1) - NextId + 1 = 2
  <2>1. PICK k \in {1, 2} : Len(parts) = k
    OBVIOUS
  <2> QED BY <1>1, <2>1
<1>3. now = [t \in DOMAIN txs \cup ids |->
               IF t \in DOMAIN txs THEN txs[t]
               ELSE RowOf(parts[t - NextId + 1], entry, type, settles, pair)]
  BY DEF WithParts, RowOf
<1> HIDE DEF now, ids, pair
<1>4. DOMAIN now = DOMAIN txs \cup ids /\ \A t \in DOMAIN txs : now[t] = txs[t]
  BY <1>3
<1>5. now[NextId] = RowOf(parts[1], entry, type, settles, pair)
  <2>1. now[NextId] = RowOf(parts[NextId - NextId + 1], entry, type, settles, pair)
    BY <1>1, <1>2, <1>3
  <2> QED BY <1>2, <2>1
<1>6. ASSUME Len(parts) = 2
      PROVE  now[NextId + 1] = RowOf(parts[2], entry, type, settles, pair)
  <2>1. now[NextId + 1] = RowOf(parts[(NextId + 1) - NextId + 1], entry, type, settles, pair)
    BY <1>1, <1>2, <1>3, <1>6
  <2> QED BY <1>2, <2>1
<1> QED BY <1>4, <1>5, <1>6 DEF RowsAndParts, now, ids, pair

\* What may be written: an entry or a settlement.
IsEntered(entry) == entry.category \in Categories /\ entry.obligation \in Parties

LEMMA PartIsFiled ==
    ASSUME NEW part, IsPart(part), NEW entry, IsEntered(entry), NEW type \in Types,
           NEW settles \in BOOLEAN, NEW pair \in RowIds \cup {NoRow}
    PROVE  IsFiled(RowOf(part, entry, type, settles, pair))
BY RowsAssumption DEF IsPart, IsEntered, RowOf, IsFiled, Transaction, Amounts

\* A write of parts that fit.
LEMMA WriteIsWithin ==
    ASSUME IInv, AmountsInv, NEW gone \in SUBSET LiveRows, NEW left, IsLeft(left, gone),
           NEW parts, NEW entry, IsEntered(entry), NEW type \in Types, NEW settles \in BOOLEAN,
           FitParts(parts, left, entry.obligation, type, settles),
           Write(left, parts, entry, type, settles), parted' \subseteq RowIds
    PROVE  AmountsInv'
<1> DEFINE now == transactions'
           pair == IF Len(parts) > 1 THEN NextId ELSE NoRow
           first == RowOf(parts[1], entry, type, settles, pair)
           second == RowOf(parts[2], entry, type, settles, pair)
           debts == openingDebts
<1>1. /\ DOMAIN left = DOMAIN transactions /\ AreRows(left)
      /\ \A t \in DOMAIN left :
           IsFiled(left[t]) /\ left[t].link \in DOMAIN openingDebts \cup {NoRow}
      /\ SettledWithin(openingDebts, left)
  BY LeftIsWithin
<1>2. /\ Numbered /\ NextId \in Nat \ {0} /\ NextId \notin DOMAIN left
      /\ AreDebts(openingDebts) /\ DebtsTyped /\ UNCHANGED openingDebts
  BY <1>1, NextIsFree, TablesAreTyped DEF IInv, AmountsInv, Write
<1>3. Len(parts) \in {1, 2} /\ IsPart(parts[1]) /\ (Len(parts) = 2 => IsPart(parts[2]))
  BY DEF FitParts
<1>4. /\ now = WithParts(left, parts, entry, type, settles)
      /\ NextId + Len(parts) - 1 \in RowIds
  BY DEF Write
<1>5. /\ DOMAIN now = DOMAIN left \cup NextId..(NextId + Len(parts) - 1)
      /\ \A t \in DOMAIN left : now[t] = left[t]
      /\ now[NextId] = first /\ (Len(parts) = 2 => now[NextId + 1] = second)
  <2>1. RowsAndParts(WithParts(left, parts, entry, type, settles),
                     left, parts, entry, type, settles)
    BY <1>1, <1>2, <1>3, PartsAreRows
  <2>2. RowsAndParts(now, left, parts, entry, type, settles)
    BY <1>4, <2>1
  <2> HIDE DEF now
  <2> QED BY <2>2 DEF RowsAndParts
<1>6. /\ NextId \in DOMAIN now /\ DOMAIN now \subseteq RowIds
      /\ \A t \in DOMAIN now :
           t \in DOMAIN left \/ t = NextId \/ (Len(parts) = 2 /\ t = NextId + 1)
  <2>1. DOMAIN left \subseteq RowIds
    BY <1>1 DEF AreRows
  <2>2. PICK k \in {1, 2} : Len(parts) = k
    BY <1>3
  <2>3. NextId + k - 1 \in RowIds /\ DOMAIN now = DOMAIN left \cup NextId..(NextId + k - 1)
    BY <1>4, <1>5, <2>2
  <2>4. NextId..(NextId + k - 1) \subseteq RowIds /\ NextId \in NextId..(NextId + k - 1)
    BY <1>2, <2>3, RowsAssumption DEF RowIds
  <2>5. \A t \in NextId..(NextId + k - 1) : t = NextId \/ (k = 2 /\ t = NextId + 1)
    BY <1>2
  <2> QED BY <2>1, <2>2, <2>3, <2>4, <2>5
<1>7. pair \in RowIds \cup {NoRow}
  BY <1>6
<1>8. IsFiled(first) /\ (Len(parts) = 2 => IsFiled(second))
  BY <1>3, <1>7, PartIsFiled
<1>9. /\ first.link = parts[1].link /\ first.obligation = entry.obligation
      /\ first.type = type /\ first.settles = settles
      /\ settles => first.amount = parts[1].discharge
      /\ second.link = parts[2].link
  BY DEF RowOf
<1>10. /\ Len(parts) = 2 => second.link = NoRow
       /\ first.link # NoRow =>
            /\ settles /\ first.link \in OpeningLink(debts, left, entry.obligation, type)
            /\ parts[1].discharge <= StillOpen(debts, left, first.link)
  BY <1>9 DEF FitParts
<1> HIDE DEF first, second, pair, now
<1>11. \A t \in DOMAIN now : IsFiled(now[t])
  BY <1>1, <1>5, <1>6, <1>8
<1>12. AreRows(now)
  BY <1>6, <1>11, FiledRowsAreRows
<1>13. \A t \in DOMAIN now : now[t].link \in DOMAIN debts \cup {NoRow}
  BY <1>1, <1>5, <1>6, <1>10 DEF OpeningLink, DebtsOf, Live
<1>14. \A t \in Live(now) \ {NextId} :
          now[t].link # NoRow => t \in Live(left) /\ SameToItsDebt(left[t], now[t])
  BY <1>5, <1>6, <1>10 DEF Live, SameToItsDebt
<1>15. ASSUME NEW d \in Live(debts), NextId \in Repayments(now, d)
       PROVE  /\ NextId \notin Repayments(left, d) /\ Suits(debts, now, NextId, d)
              /\ now[NextId].settles => now[NextId].amount <= StillOpen(debts, left, d)
  <2>1. d = first.link /\ d # NoRow
    BY <1>2, <1>5, <1>15, RowsAssumption DEF Repayments, Live, AreDebts, RowIds, NoRow
  <2>2. NextId \notin Repayments(left, d)
    BY <1>2 DEF Repayments, Live
  <2>3. Suits(debts, now, NextId, d)
    BY <1>5, <1>9, <1>10, <2>1 DEF Suits, OpeningLink
  <2> QED BY <1>5, <1>9, <1>10, <2>1, <2>2, <2>3
<1>16. SettledWithin(debts, now)
  <2> HIDE DEF debts
  <2> QED BY <1>1, <1>2, <1>12, <1>14, <1>15, OneMoreIsWithin DEF debts
<1> QED BY <1>2, <1>11, <1>13, <1>16
        DEF AmountsInv, RowsFiled, LinksKnown, DebtsTyped, SettledWithin, Settled, now

\* The entries, payments and patches are what ConstantsAssumption says.
LEMMA EntriesAreEntered ==
    /\ \A entry \in Entries :
         IsEntered(entry) /\ entry.type \in Types /\ entry.own \in Amounts
    /\ \A payment \in Settlements :
         /\ IsEntered(payment) /\ payment.obligation \in People
         /\ payment.own \in Amounts /\ payment.discharge \in Nat \ {0}
BY ConstantsAssumption, RowsAssumption DEF IsEntered, Parties, Amounts

\* What a replacement carries on fits, from what the rows without the replaced
\* payment leave open.
LEMMA CarriedFits ==
    ASSUME IInv, AmountsInv, NEW t \in LiveRows, NEW entry \in Entries, NEW left,
           IsLeft(left, Superseded(t)), NEW spill
    PROVE  FitParts(Carried(t, entry, left, spill).parts, left, entry.obligation, entry.type,
                    Carried(t, entry, left, spill).settles)
<1> DEFINE row == transactions[t]
           link == OpeningLink(openingDebts, left, entry.obligation, entry.type)
           same == row.settles /\ entry.obligation # Nobody /\ entry.obligation = row.obligation
           discharged == Total(transactions, Superseded(t))
           planned == PlannedSplit(left, link, entry.own, discharged)
           fits == /\ same /\ row.link # NoRow /\ row.link \in link
                   /\ row.amount <= StillOpen(openingDebts, left, row.link)
           carried == Carried(t, entry, left, spill)
           Good(settles, parts) == FitParts(parts, left, entry.obligation, entry.type, settles)
<1>1. Superseded(t) \in SUBSET LiveRows /\ t \in Superseded(t)
      /\ LiveRows \subseteq DOMAIN transactions
  BY DEF Superseded, Halves, LiveRows, Live
<1>2. AreRows(left) /\ AreRows(transactions) /\ AreDebts(openingDebts)
  BY <1>1, LeftIsWithin, TablesAreTyped
<1>3. entry.own \in Amounts
  BY EntriesAreEntered
<1>4. row.amount \in Nat \ {0}
  BY <1>1 DEF AmountsInv, RowsFiled, IsFiled, Transaction
<1>5. discharged \in Nat \ {0}
  <2> DEFINE rest == Superseded(t) \ {t}
  <2>1. rest \in SUBSET DOMAIN transactions /\ t \in DOMAIN transactions \ rest
        /\ Superseded(t) = rest \cup {t}
    BY <1>1
  <2> HIDE DEF rest
  <2>2. Total(transactions, rest \cup {t}) = Total(transactions, rest) + row.amount
        /\ Total(transactions, rest) \in Nat
    BY <1>2, <2>1, TotalsAdd
  <2>3. discharged = Total(transactions, rest \cup {t})
    BY <2>1, Zenon
  <2> QED BY <1>4, <2>2, <2>3
<1> HIDE DEF discharged
<1>6. Good(TRUE, planned)
  BY <1>2, <1>3, <1>5, PlanFits
<1>7. Good(TRUE, Whole(entry.own, discharged, NoRow))
  BY <1>3, <1>5, WholeFits
<1>8. Good(FALSE, Whole(entry.own, entry.own, NoRow))
  <2>1. entry.own \in Nat \ {0}
    BY <1>3, RowsAssumption DEF Amounts
  <2> QED BY <1>3, <2>1, WholeFits
<1>9. ASSUME fits PROVE Good(TRUE, Whole(entry.own, row.amount, row.link))
  <2>1. /\ row.link \in OpeningLink(openingDebts, left, entry.obligation, entry.type)
        /\ row.amount <= StillOpen(openingDebts, left, row.link)
    BY <1>9
  <2> HIDE DEF row
  <2> QED BY <1>2, <1>3, <1>4, <2>1, LinkedFits
<1>10. carried = IF row.pair # NoRow /\ same
                 THEN [settles |-> TRUE,
                       parts |-> IF Len(planned) > 1 /\ ~spill
                                 THEN Whole(entry.own, discharged, NoRow) ELSE planned]
                 ELSE IF row.pair = NoRow /\ fits
                 THEN [settles |-> TRUE, parts |-> Whole(entry.own, row.amount, row.link)]
                 ELSE [settles |-> FALSE, parts |-> Whole(entry.own, entry.own, NoRow)]
  BY DEF Carried, discharged
<1> HIDE DEF row, same, fits, planned, carried, Good
<1>11. Good(carried.settles, carried.parts)
  BY <1>6, <1>7, <1>8, <1>9, <1>10
<1> QED BY <1>11 DEF Good, carried

\* Each operation keeps what is said of the amounts.
LEMMA CreateTransactionFits ==
    ASSUME IInv, AmountsInv, NEW entry \in Entries, CreateTransaction(entry)
    PROVE  AmountsInv'
<1> DEFINE parts == Whole(entry.own, entry.own, NoRow)
<1>1. IsEntered(entry) /\ entry.type \in Types /\ entry.own \in Amounts
  BY EntriesAreEntered
<1>2. FitParts(parts, transactions, entry.obligation, entry.type, FALSE)
  <2>1. entry.own \in Nat \ {0}
    BY <1>1, RowsAssumption DEF Amounts
  <2> QED BY <1>1, <2>1, WholeFits
<1>3. Write(transactions, parts, entry, entry.type, FALSE) /\ parted' \subseteq RowIds
  BY DEF CreateTransaction, AmountsInv
<1>4. IsLeft(transactions, {}) /\ {} \in SUBSET LiveRows /\ FALSE \in BOOLEAN
  BY DEF IsLeft
<1> HIDE DEF parts
<1> QED BY <1>1, <1>2, <1>3, <1>4, WriteIsWithin

LEMMA SettleDebtFits ==
    ASSUME IInv, AmountsInv, NEW payment \in Settlements, NEW type \in Types, NEW old,
           SettleDebt(payment, type, old)
    PROVE  AmountsInv'
<1> DEFINE gone == {old} \ {NoRow}
           left == Without(gone)
           link == OpeningLink(openingDebts, left, payment.obligation, type)
           parts == PlannedSplit(left, link, payment.own, payment.discharge)
<1>1. /\ gone \subseteq LiveRows /\ Write(left, parts, payment, type, TRUE)
      /\ parted' = parted \cup ({transactions[t].pair : t \in gone} \ {NoRow})
  BY DEF SettleDebt
<1>2. /\ IsEntered(payment) /\ payment.own \in Amounts
      /\ payment.discharge \in Nat \ {0}
  BY EntriesAreEntered
<1>3. IsLeft(left, gone) /\ gone \in SUBSET LiveRows /\ TRUE \in BOOLEAN
  BY <1>1, WithoutIsLeft
<1>4. parted' \subseteq RowIds
  BY <1>1 DEF AmountsInv, RowsFiled, IsFiled, Transaction, LiveRows, Live
<1> HIDE DEF gone, left
<1>5. AreRows(left) /\ AreDebts(openingDebts)
  BY <1>3, LeftIsWithin, TablesAreTyped
<1>6. FitParts(parts, left, payment.obligation, type, TRUE)
  BY <1>2, <1>5, PlanFits
<1> HIDE DEF parts
<1> QED BY <1>1, <1>2, <1>3, <1>4, <1>6, WriteIsWithin

LEMMA SupersedeTransactionFits ==
    ASSUME IInv, AmountsInv, NEW t, NEW entry \in Entries, NEW spill,
           SupersedeTransaction(t, entry, spill)
    PROVE  AmountsInv'
<1> DEFINE gone == Superseded(t)
           left == Without(gone)
           carried == Carried(t, entry, left, spill)
<1>1. /\ t \in LiveRows /\ Write(left, carried.parts, entry, entry.type, carried.settles)
      /\ UNCHANGED parted
  BY DEF SupersedeTransaction
<1>2. IsEntered(entry) /\ entry.type \in Types
  BY EntriesAreEntered
<1>3. IsLeft(left, gone) /\ gone \in SUBSET LiveRows
  BY <1>1, WithoutIsLeft DEF Superseded, Halves
<1>4. parted' \subseteq RowIds
  BY <1>1 DEF AmountsInv
<1> HIDE DEF left
<1>5. carried.settles \in BOOLEAN
  BY CarriedIsOneOrTwo
<1>6. FitParts(carried.parts, left, entry.obligation, entry.type, carried.settles)
  BY <1>1, <1>3, CarriedFits
<1> HIDE DEF gone, carried
<1> QED BY <1>1, <1>2, <1>3, <1>4, <1>5, <1>6, WriteIsWithin

\* A write that adds no repayment.
LEMMA NoneMoreIsWithin ==
    ASSUME NEW debts, AreDebts(debts), NEW txs, AreRows(txs), NEW now, AreRows(now),
           SettledWithin(debts, txs),
           \A t \in Live(now) :
              now[t].link # NoRow => t \in Live(txs) /\ SameToItsDebt(txs[t], now[t])
    PROVE  SettledWithin(debts, now)
<1>1. \A d : NoRow \notin Repayments(now, d)
  BY RowsAssumption DEF AreRows, Repayments, Live, RowIds, NoRow
<1> QED BY <1>1, OneMoreIsWithin

LEMMA RecordOpeningDebtFits ==
    ASSUME IInv, AmountsInv, NEW debt \in Debts, RecordOpeningDebt(debt.who, debt.amount)
    PROVE  AmountsInv'
<1> DEFINE p == debt.who
           amount == debt.amount
<1>1. p \in People /\ amount \in SignedAmounts /\ UNCHANGED parted
  BY ConstantsAssumption DEF RecordOpeningDebt
<1>2. /\ AreRows(transactions) /\ AreDebts(openingDebts)
      /\ SettledWithin(openingDebts, transactions)
  BY TablesAreTyped DEF AmountsInv
<1>3. CASE /\ openingDebts' = With(openingDebts, NextId,
                  [counterparty |-> p, amount |-> amount, deleted |-> FALSE])
           /\ NextId \in RowIds /\ UNCHANGED transactions
  <2>1. /\ NextId \notin DOMAIN openingDebts
        /\ NextId \in RowIds /\ NextId # NoRow
    BY <1>3, NextIsFree DEF IInv, NoRow
  <2>2. /\ DOMAIN openingDebts' = DOMAIN openingDebts \cup {NextId}
        /\ openingDebts'[NextId] = [counterparty |-> p, amount |-> amount, deleted |-> FALSE]
        /\ \A d \in DOMAIN openingDebts : openingDebts'[d] = openingDebts[d]
    BY <1>3, <2>1 DEF With
  <2>3. DebtsTyped'
    <3>1. openingDebts'[NextId] \in OpeningDebt
      BY <1>1, <2>2 DEF OpeningDebt
    <3>2. \A d \in DOMAIN openingDebts : openingDebts[d] \in OpeningDebt
      BY DEF AmountsInv, DebtsTyped
    <3>3. \A d \in DOMAIN openingDebts' : openingDebts'[d] \in OpeningDebt
      BY <2>2, <3>1, <3>2
    <3> QED BY <3>3 DEF DebtsTyped, OpeningDebt
  <2>4. LinksKnown' /\ RowsFiled'
    BY <1>3, <2>2 DEF AmountsInv, LinksKnown, RowsFiled
  <2>5. SettledWithin(openingDebts', transactions)
    <3> SUFFICES ASSUME NEW d \in Live(openingDebts')
                 PROVE  /\ Total(transactions, Settled(transactions, d)) <= Size(openingDebts'[d])
                        /\ \A t \in Repayments(transactions, d) :
                             /\ transactions[t].obligation = openingDebts'[d].counterparty
                             /\ Reduces(openingDebts'[d], transactions[t].type)
      BY DEF SettledWithin
    <3>1. CASE d = NextId
      <4>1. Repayments(transactions, d) = {} /\ Settled(transactions, d) = {}
        BY <2>1, <3>1 DEF AmountsInv, LinksKnown, Repayments, Settled, Live
      <4>2. Total(transactions, Settled(transactions, d)) = 0
        BY <1>2, <4>1, TotalsAdd
      <4>3. Size(openingDebts'[d]) \in Nat
        BY <1>1, <2>2, <3>1, RowsAssumption DEF Size, SignedAmounts
      <4> QED BY <4>1, <4>2, <4>3
    <3>2. CASE d # NextId
      <4>1. d \in Live(openingDebts) /\ openingDebts'[d] = openingDebts[d]
        BY <2>2, <3>2 DEF Live
      <4> QED BY <1>2, <4>1 DEF SettledWithin
    <3> QED BY <3>1, <3>2
  <2> QED BY <1>1, <1>3, <2>3, <2>4, <2>5 DEF AmountsInv, SettledWithin, Settled
<1>4. CASE \E d \in DebtsOf(openingDebts, p) :
              /\ openingDebts' = [openingDebts EXCEPT ![d].amount = amount]
              /\ transactions' = Replanned(openingDebts', transactions, {d}, d, d)
  <2>1. PICK d \in DebtsOf(openingDebts, p) :
          /\ openingDebts' = [openingDebts EXCEPT ![d].amount = amount]
          /\ transactions' = Replanned(openingDebts', transactions, {d}, d, d)
    BY <1>4
  <2> DEFINE debts == openingDebts'
             now == transactions'
  <2>2. /\ d \in Live(openingDebts) /\ d \in DOMAIN openingDebts /\ d # NoRow
        /\ DOMAIN debts = DOMAIN openingDebts
        /\ \A e \in DOMAIN openingDebts \ {d} : debts[e] = openingDebts[e]
        /\ debts[d] = [openingDebts[d] EXCEPT !.amount = amount]
    BY <1>2, <2>1, RowsAssumption DEF DebtsOf, Live, AreDebts, RowIds, NoRow
  <2>3. \A e \in DOMAIN debts : debts[e] \in OpeningDebt
    BY <1>1, <2>2 DEF AmountsInv, DebtsTyped, OpeningDebt
  <2>4. AreDebts(debts) /\ Live(debts) = Live(openingDebts)
    <3>1. DOMAIN debts \subseteq RowIds
      BY <1>2, <2>2 DEF AreDebts
    <3>2. AreDebts(debts)
      BY <2>3, <3>1, TypedDebtsAreDebts
    <3>3. debts[d].deleted = openingDebts[d].deleted
      BY <2>2 DEF AmountsInv, DebtsTyped, OpeningDebt
    <3>4. Live(debts) = Live(openingDebts)
      BY <2>2, <3>3 DEF Live
    <3> QED BY <3>2, <3>4
  <2> HIDE DEF debts, now
  <2>5. /\ DOMAIN now = DOMAIN transactions /\ AreRows(now)
        /\ Live(now) = Live(transactions) /\ AmountOf(now) = AmountOf(transactions)
        /\ \A t \in DOMAIN transactions :
             /\ SameButLink(transactions[t], now[t])
             /\ now[t].link \in {transactions[t].link, d, NoRow}
             /\ t \in Live(transactions) /\ now[t].link \in {d} =>
                  d # NoRow /\ now[t].link = d /\ Suits(debts, transactions, t, d)
        /\ \A e : e # d /\ e # NoRow => Repayments(now, e) \subseteq Repayments(transactions, e)
        /\ d \in Live(debts) => Repaid(now, d) <= Size(debts[d])
    <3>1. d \in {d} \cup {NoRow} /\ NoRow \notin {d}
      BY <2>2
    <3>2. now = Replanned(debts, transactions, {d}, d, d)
      BY <2>1 DEF now, debts
    <3> QED BY <1>2, <2>4, <3>1, <3>2, ReplannedRows
  <2>6. ASSUME NEW t \in DOMAIN now
        PROVE  IsFiled(now[t]) /\ now[t].link \in DOMAIN debts \cup {NoRow}
    <3>1. \E link \in {transactions[t].link, d, NoRow} :
             now[t] = [transactions[t] EXCEPT !.link = link]
      <4>1. PICK cleared, linked : now = WithLinks(transactions, cleared, linked, d)
        BY <2>1 DEF Replanned, now
      <4>2. transactions[t] = [transactions[t] EXCEPT !.link = transactions[t].link]
        BY <2>5, <2>6 DEF AmountsInv, RowsFiled, IsFiled, Transaction
      <4> QED BY <2>5, <2>6, <4>1, <4>2 DEF WithLinks
    <3>2. IsFiled(transactions[t]) /\ transactions[t].link \in DOMAIN openingDebts \cup {NoRow}
      BY <2>5, <2>6 DEF AmountsInv, RowsFiled, LinksKnown
    <3>3. d \in RowIds
      BY <1>2, <2>2 DEF AreDebts
    <3> QED BY <2>2, <3>1, <3>2, <3>3 DEF IsFiled, Transaction
  <2>7. SettledWithin(debts, now)
    <3> SUFFICES ASSUME NEW e \in Live(debts)
                 PROVE  /\ Total(now, Settled(now, e)) <= Size(debts[e])
                        /\ \A t \in Repayments(now, e) :
                             /\ now[t].obligation = debts[e].counterparty
                             /\ Reduces(debts[e], now[t].type)
      BY DEF SettledWithin
    <3>1. /\ Settled(now, e) \in SUBSET Repayments(now, e)
          /\ Repayments(now, e) \in SUBSET DOMAIN now
          /\ Repayments(now, e) \in SUBSET Live(now)
          /\ e \in DOMAIN debts /\ e # NoRow
      BY <1>2, <2>2, RowsAssumption
         DEF Settled, Repayments, Live, AreDebts, RowIds, NoRow
    <3>2. Size(debts[e]) \in Nat
      BY <2>4, <3>1, SizeIsNatural
    <3>3. CASE e = d
      <4>1. Total(now, Settled(now, e)) \in Nat
            /\ Total(now, Settled(now, e)) <= Total(now, Repayments(now, e))
        BY <2>5, <3>1, TotalsShrink
      <4>2. Total(now, Repayments(now, e)) \in Nat
        BY <2>5, <3>1, TotalsAdd
      <4>3. Total(now, Repayments(now, e)) <= Size(debts[e])
        BY <2>5, <3>3 DEF Repaid
      <4>4. \A t \in Repayments(now, e) :
               t \in DOMAIN transactions /\ Suits(debts, transactions, t, d)
        BY <2>5, <3>1, <3>3 DEF Repayments
      <4> QED BY <2>5, <3>2, <3>3, <4>1, <4>2, <4>3, <4>4 DEF Suits, DebtsOf, SameButLink
    <3>4. CASE e # d
      <4>1. /\ debts[e] = openingDebts[e] /\ e \in Live(openingDebts)
            /\ Repayments(now, e) \subseteq Repayments(transactions, e)
        BY <2>2, <2>4, <2>5, <3>1, <3>4
      <4>2. /\ Total(transactions, Settled(transactions, e)) <= Size(debts[e])
            /\ \A t \in Repayments(transactions, e) :
                 /\ transactions[t].obligation = debts[e].counterparty
                 /\ Reduces(debts[e], transactions[t].type)
        BY <1>2, <4>1 DEF SettledWithin
      <4>3. /\ Settled(now, e) \in SUBSET Settled(transactions, e)
            /\ Settled(transactions, e) \in SUBSET DOMAIN transactions
            /\ \A t \in Settled(now, e) : now[t].amount = transactions[t].amount
        BY <2>5, <3>1, <4>1 DEF Settled, Repayments, Live, SameButLink
      <4>4. /\ Total(now, Settled(now, e)) \in Nat
            /\ Total(now, Settled(now, e)) <= Total(transactions, Settled(transactions, e))
            /\ Total(transactions, Settled(transactions, e)) \in Nat
        BY <1>2, <2>5, <3>1, <4>3, TotalsShrink, TotalsAdd
      <4>5. \A t \in Repayments(now, e) : now[t].obligation = transactions[t].obligation
                                          /\ now[t].type = transactions[t].type
        BY <2>5, <3>1 DEF SameButLink
      <4> QED BY <3>2, <4>1, <4>2, <4>4, <4>5
    <3> QED BY <3>3, <3>4
  <2> QED BY <1>1, <2>3, <2>6, <2>7
          DEF AmountsInv, RowsFiled, LinksKnown, DebtsTyped, SettledWithin, Settled, now, debts
<1> QED BY <1>3, <1>4 DEF RecordOpeningDebt, PutOpeningDebt

LEMMA DeleteOpeningDebtFits ==
    ASSUME IInv, AmountsInv, NEW d, DeleteOpeningDebt(d)
    PROVE  AmountsInv'
<1> DEFINE now == transactions'
           debts == openingDebts'
<1>1. /\ d \in Live(openingDebts) /\ d \in DOMAIN openingDebts
      /\ debts = [openingDebts EXCEPT ![d].deleted = TRUE]
      /\ UNCHANGED parted
      /\ \E gone, pairs : now =
            [t \in DOMAIN transactions |->
               IF t \in gone THEN [transactions[t] EXCEPT !.deleted = TRUE]
               ELSE IF t \in Live(transactions) /\ transactions[t].pair \in pairs
               THEN [transactions[t] EXCEPT !.pair = NoRow]
               ELSE transactions[t]]
  BY DEF DeleteOpeningDebt, RemoveOpeningDebt, Live
<1>2. PICK gone, pairs : now =
            [t \in DOMAIN transactions |->
               IF t \in gone THEN [transactions[t] EXCEPT !.deleted = TRUE]
               ELSE IF t \in Live(transactions) /\ transactions[t].pair \in pairs
               THEN [transactions[t] EXCEPT !.pair = NoRow]
               ELSE transactions[t]]
  BY <1>1
<1>3. /\ AreRows(transactions) /\ AreDebts(openingDebts)
      /\ SettledWithin(openingDebts, transactions)
  BY TablesAreTyped DEF AmountsInv
<1>4. /\ DOMAIN debts = DOMAIN openingDebts
      /\ \A e \in DOMAIN openingDebts : debts[e] \in OpeningDebt
      /\ \A e \in Live(debts) : e \in Live(openingDebts) /\ debts[e] = openingDebts[e]
  BY <1>1 DEF AmountsInv, DebtsTyped, OpeningDebt, Live
<1> HIDE DEF now, debts
<1>5. AreDebts(debts)
  BY <1>3, <1>4, TypedDebtsAreDebts DEF AreDebts
<1>6. SettledWithin(debts, transactions)
  BY <1>3, <1>4 DEF SettledWithin
<1>7. DOMAIN now = DOMAIN transactions
  BY <1>2
<1>8. ASSUME NEW t \in DOMAIN transactions
      PROVE  /\ IsFiled(now[t]) /\ now[t].link \in DOMAIN debts \cup {NoRow}
             /\ SameToItsDebt(transactions[t], now[t])
             /\ t \in Live(now) => t \in Live(transactions)
  <2>1. IsFiled(transactions[t]) /\ transactions[t].link \in DOMAIN debts \cup {NoRow}
    BY <1>4 DEF AmountsInv, RowsFiled, LinksKnown
  <2>2. \/ now[t] = [transactions[t] EXCEPT !.deleted = TRUE]
        \/ now[t] = [transactions[t] EXCEPT !.pair = NoRow]
        \/ now[t] = transactions[t]
    BY <1>2
  <2>3. \/ now[t] = transactions[t]
        \/ /\ IsFiled(now[t]) /\ SameToItsDebt(transactions[t], now[t])
           /\ ~now[t].deleted => ~transactions[t].deleted
    <3>1. CASE now[t] = [transactions[t] EXCEPT !.deleted = TRUE]
      BY <2>1, <3>1 DEF IsFiled, Transaction, SameToItsDebt
    <3>2. CASE now[t] = [transactions[t] EXCEPT !.pair = NoRow]
      BY <2>1, <3>2 DEF IsFiled, Transaction, SameToItsDebt
    <3> QED BY <2>2, <3>1, <3>2
  <2> QED BY <1>7, <2>1, <2>3 DEF SameToItsDebt, Live
<1>9. AreRows(now)
  BY <1>3, <1>7, <1>8, FiledRowsAreRows DEF AreRows
<1>10. \A t \in Live(now) :
          now[t].link # NoRow => t \in Live(transactions) /\ SameToItsDebt(transactions[t], now[t])
  BY <1>7, <1>8 DEF Live
<1>11. SettledWithin(debts, now)
  BY <1>3, <1>5, <1>6, <1>9, <1>10, NoneMoreIsWithin
<1> QED BY <1>1, <1>4, <1>7, <1>8, <1>11
        DEF AmountsInv, RowsFiled, LinksKnown, DebtsTyped, SettledWithin, Settled, now, debts

\* What rewrites rows, of which each is as it was to its debt or has none.
LEMMA RewritingFits ==
    ASSUME IInv, AmountsInv, UNCHANGED openingDebts, parted' \subseteq RowIds,
           DOMAIN transactions' = DOMAIN transactions,
           \A t \in DOMAIN transactions :
              /\ IsFiled(transactions'[t])
              /\ transactions'[t].deleted \in {transactions[t].deleted, TRUE}
              /\ \/ transactions'[t].link = NoRow
                 \/ SameToItsDebt(transactions[t], transactions'[t])
    PROVE  AmountsInv'
<1> DEFINE now == transactions'
<1>1. /\ AreRows(transactions) /\ AreDebts(openingDebts)
      /\ SettledWithin(openingDebts, transactions)
      /\ DOMAIN now = DOMAIN transactions
      /\ \A t \in DOMAIN transactions : IsFiled(now[t])
  BY TablesAreTyped DEF AmountsInv
<1>2. \A t \in DOMAIN transactions : now[t].link \in DOMAIN openingDebts \cup {NoRow}
  BY DEF SameToItsDebt, AmountsInv, LinksKnown
<1>3. \A t \in Live(now) :
         now[t].link # NoRow => t \in Live(transactions) /\ SameToItsDebt(transactions[t], now[t])
  BY DEF Live
<1> HIDE DEF now
<1>4. AreRows(now)
  BY <1>1, FiledRowsAreRows DEF AreRows
<1>5. SettledWithin(openingDebts, now)
  BY <1>1, <1>3, <1>4, NoneMoreIsWithin
<1> QED BY <1>1, <1>2, <1>5
        DEF AmountsInv, RowsFiled, LinksKnown, DebtsTyped, SettledWithin, Settled, now

LEMMA DeleteTransactionFits ==
    ASSUME IInv, AmountsInv, NEW t, DeleteTransaction(t)
    PROVE  AmountsInv'
<1>1. /\ UNCHANGED <<openingDebts, parted>> /\ DOMAIN transactions' = DOMAIN transactions
      /\ \A u \in DOMAIN transactions :
           \/ transactions'[u] = [transactions[u] EXCEPT !.deleted = TRUE]
           \/ transactions'[u] = transactions[u]
  BY DEF DeleteTransaction, RemoveTransaction
<1>2. ASSUME NEW u \in DOMAIN transactions
      PROVE  /\ IsFiled(transactions'[u])
             /\ transactions'[u].deleted \in {transactions[u].deleted, TRUE}
             /\ SameToItsDebt(transactions[u], transactions'[u])
  <2>1. IsFiled(transactions[u])
    BY DEF AmountsInv, RowsFiled
  <2> QED BY <1>1, <2>1 DEF IsFiled, Transaction, SameToItsDebt
<1>3. parted' \subseteq RowIds
  BY <1>1 DEF AmountsInv
<1> QED BY <1>1, <1>2, <1>3, RewritingFits

LEMMA CategorizeBatchFits ==
    ASSUME IInv, AmountsInv, NEW batch, NEW category \in Refiled,
           CategorizeBatch(batch, category)
    PROVE  AmountsInv'
<1>1. /\ batch \subseteq LiveRows /\ UNCHANGED openingDebts
      /\ transactions' = [t \in DOMAIN transactions |->
                            IF t \in batch THEN Categorised(transactions[t], category)
                                           ELSE transactions[t]]
      /\ parted' = parted \cup {transactions[t].pair : t \in
                      {u \in batch : ~(Halves(transactions[u].pair) \subseteq batch)}}
  BY DEF CategorizeBatch
<1>2. category \in Categories
  BY ConstantsAssumption
<1>3. ASSUME NEW t \in DOMAIN transactions
      PROVE  /\ IsFiled(transactions'[t])
             /\ transactions'[t].deleted = transactions[t].deleted
             /\ \/ transactions'[t].link = NoRow
                \/ SameToItsDebt(transactions[t], transactions'[t])
  <2>1. IsFiled(transactions[t])
    BY DEF AmountsInv, RowsFiled
  <2>2. CASE t \notin batch
    BY <1>1, <2>1, <2>2 DEF SameToItsDebt
  <2>3. CASE t \in batch
    <3>1. transactions'[t] = Categorised(transactions[t], category)
      BY <1>1, <2>3
    <3>2. Nobody \in Parties
      BY DEF Parties
    <3>3. transactions[t].own \in Nat \ {0}
      BY <2>1, RowsAssumption DEF IsFiled, Transaction, Amounts
    <3> QED BY <1>2, <2>1, <3>1, <3>2, <3>3
            DEF Categorised, IsFiled, Transaction, SameToItsDebt
  <2> QED BY <2>2, <2>3
<1>4. parted' \subseteq RowIds
  <2>1. ASSUME NEW u \in batch, ~(Halves(transactions[u].pair) \subseteq batch)
        PROVE  transactions[u].pair \in RowIds
    <3>1. transactions[u].pair # NoRow
      BY <2>1 DEF Halves
    <3>2. transactions[u].pair \in RowIds \cup {NoRow}
      BY <1>1 DEF AmountsInv, RowsFiled, IsFiled, Transaction, LiveRows, Live
    <3> QED BY <3>1, <3>2
  <2> QED BY <1>1, <2>1 DEF AmountsInv
<1>5. DOMAIN transactions' = DOMAIN transactions
  BY <1>1
<1> QED BY <1>1, <1>3, <1>4, <1>5, RewritingFits

\* An edited row keeps its link, loses it, or fits whole where it is linked.
LEMMA UpdateTransactionFits ==
    ASSUME IInv, AmountsInv, NEW t \in DOMAIN transactions, NEW patch \in Patches,
           UpdateTransaction(t, patch)
    PROVE  AmountsInv'
<1> DEFINE row == transactions[t]
           category == IF "category" \in DOMAIN patch THEN patch["category"] ELSE row.category
           leaving == Leaves(row, category)
           obligation == Obligation(row, patch, leaving)
           own == IF "own" \in DOMAIN patch THEN patch["own"] ELSE row.own
           settles == row.settles /\ ~leaving
           discharge == IF settles /\ "own" \in DOMAIN patch THEN own ELSE row.amount
           amount == IF settles THEN discharge ELSE own
           link == PatchedLink(t, patch, leaving, obligation, discharge)
           others == [transactions EXCEPT ![t].link = NoRow]
           room == {d \in OpeningLink(openingDebts, others, obligation, row.type) :
                      /\ discharge <= StillOpen(openingDebts, others, d)
                      /\ d = row.link \/ t > d}
           stays == ~leaving /\ DOMAIN patch \cap {"obligation", "own"} = {}
           now == transactions'
<1>1. /\ t \in LiveRows /\ UNCHANGED openingDebts /\ parted' = parted
      /\ now = [transactions EXCEPT ![t] =
              [row EXCEPT !.category = category, !.obligation = obligation, !.own = own,
                          !.settles = settles, !.amount = amount, !.link = link]]
  BY DEF UpdateTransaction
<1>2. IsFiled(row) /\ row.link \in DOMAIN openingDebts \cup {NoRow} /\ ~row.deleted
  BY <1>1 DEF AmountsInv, RowsFiled, LinksKnown, LiveRows, Live
<1>3. /\ AreRows(transactions) /\ AreDebts(openingDebts)
      /\ SettledWithin(openingDebts, transactions)
  BY TablesAreTyped DEF AmountsInv
<1>4. /\ category \in Categories /\ obligation \in Parties /\ own \in Amounts
      /\ settles \in BOOLEAN /\ discharge \in Nat \ {0} /\ amount \in Nat \ {0}
      /\ ~settles => amount = own
  <2>1. /\ "category" \in DOMAIN patch => patch["category"] \in Categories
        /\ "obligation" \in DOMAIN patch => patch["obligation"] \in Parties
        /\ "own" \in DOMAIN patch => patch["own"] \in Amounts
    BY ConstantsAssumption
  <2>2. /\ row.category \in Categories /\ row.obligation \in Parties /\ row.own \in Amounts
        /\ row.settles \in BOOLEAN /\ row.amount \in Nat \ {0}
    BY <1>2 DEF IsFiled, Transaction
  <2>3. category \in Categories /\ own \in Amounts
    BY <2>1, <2>2
  <2>4. obligation \in Parties
    BY <2>1, <2>2 DEF Obligation, Parties
  <2>5. own \in Nat \ {0}
    BY <2>3, RowsAssumption DEF Amounts
  <2> HIDE DEF row, own, leaving
  <2> QED BY <2>2, <2>3, <2>4, <2>5
<1>5. link = IF row.link = NoRow \/ stays THEN row.link
             ELSE IF ~row.settles \/ room = {} THEN NoRow ELSE CHOOSE d \in room : TRUE
  BY DEF PatchedLink
<1>6. link \in DOMAIN openingDebts \cup {NoRow}
  <2>1. room \subseteq DOMAIN openingDebts
    BY DEF OpeningLink, DebtsOf, Live
  <2> HIDE DEF room, link, stays
  <2> QED BY <1>2, <1>5, <2>1
<1>7. stays => settles = row.settles /\ own = row.own /\ amount = row.amount
                 /\ obligation = row.obligation
  <2>1. row.settles \in BOOLEAN /\ (~row.settles => row.amount = row.own)
    BY <1>2 DEF IsFiled, Transaction
  <2> QED BY <2>1 DEF Obligation
<1> HIDE DEF category, leaving, obligation, own, settles, discharge, amount, link, room, stays
<1>8. /\ DOMAIN now = DOMAIN transactions
      /\ \A u \in DOMAIN transactions \ {t} : now[u] = transactions[u]
      /\ now[t] = [row EXCEPT !.category = category, !.obligation = obligation, !.own = own,
                             !.settles = settles, !.amount = amount, !.link = link]
  BY <1>1
<1>9. /\ IsFiled(now[t]) /\ now[t].deleted = row.deleted
      /\ now[t].link = link /\ now[t].obligation = obligation /\ now[t].type = row.type
      /\ now[t].settles = settles /\ now[t].amount = amount
  <2>1. link \in RowIds \cup {NoRow}
    BY <1>3, <1>6 DEF AreDebts
  <2>2. IsRow(row)
    BY DEF IInv, RowsTyped
  <2> HIDE DEF now, row
  <2>3. now[t] = [category |-> category, obligation |-> obligation, type |-> row.type,
                  own |-> own, amount |-> amount, settles |-> settles, link |-> link,
                  pair |-> row.pair, deleted |-> row.deleted]
    BY <1>8, <2>2 DEF IsRow
  <2>4. /\ row.type \in Types /\ row.pair \in RowIds \cup {NoRow}
        /\ row.deleted \in BOOLEAN
    BY <1>2 DEF IsFiled, Transaction
  <2> QED BY <1>4, <2>1, <2>3, <2>4 DEF IsFiled, Transaction
<1>10. \A u \in DOMAIN transactions : IsFiled(now[u])
  BY <1>8, <1>9 DEF AmountsInv, RowsFiled
<1>11. parted' \subseteq RowIds
  BY <1>1 DEF AmountsInv
<1>12. CASE row.link = NoRow \/ stays \/ ~row.settles \/ room = {}
  <2>1. link = NoRow \/ SameToItsDebt(row, now[t])
    <3> HIDE DEF now, row
    <3> QED BY <1>5, <1>7, <1>9, <1>12 DEF SameToItsDebt
  <2>2. ASSUME NEW u \in DOMAIN transactions
        PROVE  /\ now[u].deleted \in {transactions[u].deleted, TRUE}
               /\ now[u].link = NoRow \/ SameToItsDebt(transactions[u], now[u])
    <3>1. CASE u = t
      BY <1>2, <1>9, <2>1, <3>1
    <3>2. CASE u # t
      BY <1>8, <3>2 DEF SameToItsDebt
    <3> QED BY <3>1, <3>2
  <2> QED BY <1>1, <1>8, <1>10, <1>11, <2>2, RewritingFits
<1>13. CASE ~(row.link = NoRow \/ stays \/ ~row.settles \/ room = {})
  <2>1. link \in room
    BY <1>5, <1>13
  <2>2. /\ link \in OpeningLink(openingDebts, others, obligation, row.type)
        /\ discharge <= StillOpen(openingDebts, others, link)
    BY <2>1 DEF room
  <2>3. /\ DOMAIN others = DOMAIN transactions
        /\ others[t] = [row EXCEPT !.link = NoRow]
        /\ \A u \in DOMAIN transactions \ {t} : others[u] = transactions[u]
    OBVIOUS
  <2> HIDE DEF now, row, others
  <2>4. IsFiled(others[t]) /\ others[t].link = NoRow /\ ~others[t].deleted
    BY <1>2, <2>3 DEF IsFiled, Transaction
  <2>5. DOMAIN others \subseteq RowIds /\ \A u \in DOMAIN others : IsFiled(others[u])
    BY <1>3, <2>3, <2>4 DEF AmountsInv, RowsFiled, AreRows
  <2>6. AreRows(others)
    BY <2>5, FiledRowsAreRows
  <2>7. SettledWithin(openingDebts, others)
    <3>1. \A u \in Live(others) : others[u].link # NoRow =>
             u \in Live(transactions) /\ SameToItsDebt(transactions[u], others[u])
      BY <2>3, <2>4 DEF Live, SameToItsDebt
    <3> QED BY <1>3, <2>6, <3>1, NoneMoreIsWithin
  <2>8. DOMAIN now \subseteq RowIds /\ \A u \in DOMAIN now : IsFiled(now[u])
    BY <1>3, <1>8, <1>10 DEF AreRows
  <2>9. AreRows(now)
    BY <2>8, FiledRowsAreRows
  <2>10. \A u \in Live(now) \ {t} :
            now[u].link # NoRow => u \in Live(others) /\ SameToItsDebt(others[u], now[u])
    BY <1>8, <2>3 DEF Live, SameToItsDebt
  <2>11. ASSUME NEW d \in Live(openingDebts), t \in Repayments(now, d)
         PROVE  /\ t \notin Repayments(others, d) /\ Suits(openingDebts, now, t, d)
                /\ now[t].settles => now[t].amount <= StillOpen(openingDebts, others, d)
    <3>1. d = link /\ d # NoRow
      BY <1>3, <1>9, <2>11, RowsAssumption DEF Repayments, Live, AreDebts, RowIds, NoRow
    <3>2. t \notin Repayments(others, d)
      BY <2>4, <3>1 DEF Repayments
    <3>3. Suits(openingDebts, now, t, d)
      BY <1>9, <2>2, <3>1 DEF Suits, OpeningLink
    <3>4. settles => amount = discharge
      BY DEF amount
    <3> QED BY <1>9, <2>2, <3>1, <3>2, <3>3, <3>4
  <2>12. SettledWithin(openingDebts, now)
    BY <1>3, <2>6, <2>7, <2>9, <2>10, <2>11, OneMoreIsWithin
  <2>13. \A u \in DOMAIN now : now[u].link \in DOMAIN openingDebts \cup {NoRow}
    BY <1>6, <1>8, <1>9 DEF AmountsInv, LinksKnown
  <2> QED BY <1>1, <1>11, <2>8, <2>12, <2>13
          DEF AmountsInv, RowsFiled, LinksKnown, DebtsTyped, SettledWithin, Settled, now
<1> QED BY <1>12, <1>13

-----------------------------------------------------------------------------
(* The theorems.                                                            *)

\* The invariants hold at first and are kept.
LEMMA InitIInv == Init => IInv
<1> SUFFICES ASSUME Init PROVE IInv
  OBVIOUS
<1>1. DOMAIN openingDebts = {} /\ DOMAIN transactions = {} /\ LiveRows = {}
  BY DEF Init, LiveRows, Live
<1>2. Numbered
  <2>1. Cardinality({}) = 0 /\ IsFiniteSet({})
    BY FS_EmptySet
  <2>2. NextId = 1
    BY <1>1, <2>1 DEF NextId
  <2> QED BY <1>1, <2>1, <2>2, RowsAssumption DEF Numbered
<1> QED BY <1>1, <1>2 DEF IInv, RowsTyped, PairsKnown, DebtsNameTheirPerson, HalvesAgree

LEMMA StepIInv == IInv /\ [Next]_vars => IInv'
<1> SUFFICES ASSUME IInv, [Next]_vars PROVE IInv'
  OBVIOUS
<1>1. ASSUME NEW debt \in Debts, RecordOpeningDebt(debt.who, debt.amount) PROVE IInv'
  BY <1>1, RecordOpeningDebtKeeps
<1>2. ASSUME NEW d \in DOMAIN openingDebts, DeleteOpeningDebt(d) PROVE IInv'
  BY <1>2, DeleteOpeningDebtKeeps
<1>3. ASSUME NEW entry \in Entries, CreateTransaction(entry) PROVE IInv'
  BY <1>3, CreateTransactionKeeps
<1>4. ASSUME NEW payment \in Settlements, NEW type \in Types,
             NEW old \in DOMAIN transactions \cup {NoRow}, SettleDebt(payment, type, old)
      PROVE  IInv'
  BY <1>4, SettleDebtKeeps
<1>5. ASSUME NEW batch, NEW category \in Refiled, CategorizeBatch(batch, category) PROVE IInv'
  BY <1>5, CategorizeBatchKeeps
<1>6. ASSUME NEW t \in DOMAIN transactions, DeleteTransaction(t) PROVE IInv'
  BY <1>6, DeleteTransactionKeeps
<1>7. ASSUME NEW t \in DOMAIN transactions, NEW patch \in Patches, UpdateTransaction(t, patch)
      PROVE  IInv'
  BY <1>7, UpdateTransactionKeeps
<1>8. ASSUME NEW t \in DOMAIN transactions, NEW entry \in Entries, NEW spill \in BOOLEAN,
             SupersedeTransaction(t, entry, spill)
      PROVE  IInv'
  BY <1>8, SupersedeTransactionKeeps
<1>9. CASE UNCHANGED vars
  BY <1>9 DEF vars, IInv, Numbered, NextId, RowsTyped, PairsKnown, DebtsNameTheirPerson,
              HalvesAgree, Halves, LiveRows, Live
<1> QED BY <1>1, <1>2, <1>3, <1>4, <1>5, <1>6, <1>7, <1>8, <1>9 DEF Next

LEMMA Invariant == Spec => []IInv
BY InitIInv, StepIInv, PTL DEF Spec

\* Whatever is captured, edited, re-filed or replaced, a row filed as a debt
\* names the person it is with.
THEOREM DebtsHaveAPerson == Spec => []DebtsNameTheirPerson
<1>1. IInv => DebtsNameTheirPerson
  BY DEF IInv
<1> QED BY <1>1, Invariant, PTL

\* Two rows are left of a payment, alike, or none, however it was written and
\* whatever was done since, unless a batch or a re-filing took one of them.
THEOREM HalvesStayTogether == Spec => []HalvesAgree
<1>1. IInv => HalvesAgree
  BY DEF IInv
<1> QED BY <1>1, Invariant, PTL
-----------------------------------------------------------------------------
(* The amounts stay within their debt.                                      *)

LEMMA InitAmounts == Init => AmountsInv
<1> SUFFICES ASSUME Init PROVE AmountsInv
  OBVIOUS
<1>1. DOMAIN openingDebts = {} /\ DOMAIN transactions = {} /\ parted = {}
      /\ Live(openingDebts) = {}
  BY DEF Init, Live
<1> QED BY <1>1 DEF AmountsInv, RowsFiled, DebtsTyped, LinksKnown, SettledWithin

LEMMA StepAmounts == IInv /\ AmountsInv /\ [Next]_vars => AmountsInv'
<1> SUFFICES ASSUME IInv, AmountsInv, [Next]_vars PROVE AmountsInv'
  OBVIOUS
<1>1. ASSUME NEW debt \in Debts, RecordOpeningDebt(debt.who, debt.amount) PROVE AmountsInv'
  BY <1>1, RecordOpeningDebtFits
<1>2. ASSUME NEW d \in DOMAIN openingDebts, DeleteOpeningDebt(d) PROVE AmountsInv'
  BY <1>2, DeleteOpeningDebtFits
<1>3. ASSUME NEW entry \in Entries, CreateTransaction(entry) PROVE AmountsInv'
  BY <1>3, CreateTransactionFits
<1>4. ASSUME NEW payment \in Settlements, NEW type \in Types,
             NEW old \in DOMAIN transactions \cup {NoRow}, SettleDebt(payment, type, old)
      PROVE  AmountsInv'
  BY <1>4, SettleDebtFits
<1>5. ASSUME NEW batch, NEW category \in Refiled, CategorizeBatch(batch, category)
      PROVE  AmountsInv'
  BY <1>5, CategorizeBatchFits
<1>6. ASSUME NEW t \in DOMAIN transactions, DeleteTransaction(t) PROVE AmountsInv'
  BY <1>6, DeleteTransactionFits
<1>7. ASSUME NEW t \in DOMAIN transactions, NEW patch \in Patches, UpdateTransaction(t, patch)
      PROVE  AmountsInv'
  BY <1>7, UpdateTransactionFits
<1>8. ASSUME NEW t \in DOMAIN transactions, NEW entry \in Entries, NEW spill \in BOOLEAN,
             SupersedeTransaction(t, entry, spill)
      PROVE  AmountsInv'
  BY <1>8, SupersedeTransactionFits
<1>9. CASE UNCHANGED vars
  BY <1>9 DEF vars, AmountsInv, RowsFiled, DebtsTyped, LinksKnown, SettledWithin, Settled
<1> QED BY <1>1, <1>2, <1>3, <1>4, <1>5, <1>6, <1>7, <1>8, <1>9 DEF Next

LEMMA AmountsAlways == Spec => [](IInv /\ AmountsInv)
<1>1. Init => IInv /\ AmountsInv
  BY InitIInv, InitAmounts
<1>2. IInv /\ AmountsInv /\ [Next]_vars => (IInv /\ AmountsInv)'
  BY StepIInv, StepAmounts
<1> QED BY <1>1, <1>2, PTL DEF Spec

\* The rows are what the operations may write, and a row that is no settlement
\* counts as its own amount: a split leaves both halves an amount, whatever
\* rounding made of the share (settle-debt.executor.ts).
THEOREM RowsAreTyped == Spec => []TypeOK
<1>1. IInv /\ AmountsInv => TypeOK
  BY AmountsInvGives
<1> QED BY <1>1, AmountsAlways, PTL

\* Whatever was settled, split, edited, re-filed, replaced or recorded anew, the
\* settlements of an opening debt are its own person's, reduce it and discharge
\* together no more than it was.
THEOREM SettlementsFit == Spec => []SettlementsFitTheirDebt
<1>1. IInv /\ AmountsInv => SettlementsFitTheirDebt
  BY AmountsInvGives
<1> QED BY <1>1, AmountsAlways, PTL
=============================================================================
