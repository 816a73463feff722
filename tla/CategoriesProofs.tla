-------------------------- MODULE CategoriesProofs --------------------------
(***************************************************************************)
(* What Categories promises, for every taxonomy and every number of         *)
(* categories, names and transactions.  The inductive invariant adds to the *)
(* promises that whatever is named is there, that what was merged away is   *)
(* archived, and that the toast moves no category in use back under an      *)
(* archived group.                                                          *)
(***************************************************************************)
EXTENDS Categories, TLAPS

\* Parents, and the categories of rows, exist.
NamesWhatIsThere ==
    /\ \A c \in Present : categories[c].parent # NoParent => categories[c].parent \in Present
    /\ \A t \in Filed : transactions[t].category \in Present

\* What was merged away is archived, so no picker offers it again.
MergedIsArchived == \A c \in merged : categories[c].archived

\* The toast moves a category in use back to a group in use.
ToastStands ==
    /\ undo # NoUndo => undo.of \in Present
    /\ undo # NoUndo /\ undo.undoes = "move" /\ undo.to # NoParent
         => /\ undo.to \in Present
            /\ categories[undo.to].archived => categories[undo.of].archived

IInv == /\ TypeOK /\ GroupOrLeaf /\ MergedAwayStaysEmpty
        /\ LiveUnderLive /\ NamesWhatIsThere /\ MergedIsArchived /\ ToastStands

\* A table of categories, whatever it holds.
Trees == UNION {[C -> Category] : C \in SUBSET Categories}

-----------------------------------------------------------------------------
(* Rows read field by field.                                                *)

LEMMA TableType ==
    TypeOK <=> /\ Present \subseteq Categories /\ categories \in [Present -> Category]
               /\ Filed \subseteq Transactions /\ transactions \in [Filed -> Transaction]
               /\ draft \in Categories \cup {NoCategory}
               /\ undo \in Undos
               /\ merged \subseteq Present
  BY DEF TypeOK, Present, Filed

LEMMA NextTableType ==
    TypeOK' <=> /\ Present' \subseteq Categories /\ categories' \in [Present' -> Category]
                /\ Filed' \subseteq Transactions /\ transactions' \in [Filed' -> Transaction]
                /\ draft' \in Categories \cup {NoCategory}
                /\ undo' \in Undos
                /\ merged' \subseteq Present'
  BY DEF TypeOK, Present, Filed

\* A category of the table keeps its other fields when one is set.
LEMMA NameIsSet ==
    ASSUME TypeOK, NEW c \in Present, NEW n \in Names,
           categories' = [categories EXCEPT ![c].name = n]
    PROVE  /\ Present' = Present /\ categories' \in [Present -> Category]
           /\ \A d \in Present :
                /\ categories'[d].parent = categories[d].parent
                /\ categories'[d].kind = categories[d].kind
                /\ categories'[d].isLeaf = categories[d].isLeaf
                /\ categories'[d].archived = categories[d].archived
                /\ categories'[d].name = IF d = c THEN n ELSE categories[d].name
  BY TableType DEF Present, Category

LEMMA ParentIsSet ==
    ASSUME TypeOK, NEW c \in Present, NEW p \in Parents,
           categories' = [categories EXCEPT ![c].parent = p]
    PROVE  /\ Present' = Present /\ categories' \in [Present -> Category]
           /\ \A d \in Present :
                /\ categories'[d].name = categories[d].name
                /\ categories'[d].kind = categories[d].kind
                /\ categories'[d].isLeaf = categories[d].isLeaf
                /\ categories'[d].archived = categories[d].archived
                /\ categories'[d].parent = IF d = c THEN p ELSE categories[d].parent
  BY TableType DEF Present, Category

LEMMA LeafIsFlipped ==
    ASSUME TypeOK, NEW c \in Present,
           categories' = [categories EXCEPT ![c].isLeaf = ~@]
    PROVE  /\ Present' = Present /\ categories' \in [Present -> Category]
           /\ \A d \in Present :
                /\ categories'[d].parent = categories[d].parent
                /\ categories'[d].name = categories[d].name
                /\ categories'[d].kind = categories[d].kind
                /\ categories'[d].archived = categories[d].archived
                /\ d # c => categories'[d].isLeaf = categories[d].isLeaf
           /\ categories'[c].isLeaf = ~categories[c].isLeaf
  BY TableType DEF Present, Category

LEMMA MarkIsSet ==
    ASSUME TypeOK, NEW c \in Present,
           categories' = [categories EXCEPT ![c].archived = TRUE]
    PROVE  /\ Present' = Present /\ categories' \in [Present -> Category]
           /\ \A d \in Present :
                /\ categories'[d].parent = categories[d].parent
                /\ categories'[d].name = categories[d].name
                /\ categories'[d].kind = categories[d].kind
                /\ categories'[d].isLeaf = categories[d].isLeaf
                /\ d # c => categories'[d].archived = categories[d].archived
           /\ categories'[c].archived
  BY TableType DEF Present, Category

\* A new row leaves the others as they were, and has no children.
LEMMA RowIsInserted ==
    ASSUME TypeOK, NEW c \in Categories \ Present, NEW n \in Names, NEW k \in Kinds,
           NEW p \in Parents, Insert(c, n, k, p)
    PROVE  /\ Present' = Present \cup {c} /\ categories' \in [Present' -> Category]
           /\ \A d \in Present : categories'[d] = categories[d]
           /\ categories'[c] = [parent |-> p, name |-> n, kind |-> k, isLeaf |-> TRUE,
                                archived |-> FALSE]
  BY TableType DEF Insert, Present, Category

-----------------------------------------------------------------------------
(* Each operation keeps the invariant.                                      *)

LEMMA InsertKeeps ==
    ASSUME IInv, NEW n \in Newcomers, Insert(n.who, n.name, n.kind, n.parent),
           undo' \in {undo, NoUndo}
    PROVE  IInv'
<1> DEFINE c == n.who
           p == n.parent
           row == [parent |-> p, name |-> n.name, kind |-> n.kind, isLeaf |-> TRUE,
                   archived |-> FALSE]
<1>1. /\ c \in Categories \ Present /\ n.name \in Names /\ n.kind \in Kinds /\ p \in Parents
      /\ p # NoParent => p \in Present /\ ~categories[p].isLeaf /\ ~categories[p].archived
      /\ NameIsFree(c, p, n.kind, n.name)
      /\ UNCHANGED <<transactions, draft, merged>>
  BY ConstantsAssumption DEF Insert, OfferedGroups
<1>2. TypeOK /\ Insert(c, n.name, n.kind, p)
  BY DEF IInv
<1>3. /\ Present' = Present \cup {c} /\ categories' \in [Present' -> Category]
      /\ \A d \in Present : categories'[d] = categories[d]
      /\ categories'[c] = row
  BY <1>1, <1>2, RowIsInserted
<1>r. /\ row.parent = p /\ row.name = n.name /\ row.kind = n.kind /\ row.isLeaf
      /\ ~row.archived
  OBVIOUS
<1> HIDE DEF row
<1>4. Filed' = Filed /\ \A d \in Present : FiledUnder(d)' = FiledUnder(d)
  BY <1>1 DEF Filed, FiledUnder
<1>5. TypeOK'
  BY <1>1, <1>2, <1>3, <1>4, TableType, NextTableType DEF Undos
<1>6. NamesWhatIsThere'
  BY <1>1, <1>3, <1>4, <1>r DEF IInv, NamesWhatIsThere
<1>7. GroupOrLeaf'
  BY <1>1, <1>3, <1>4, <1>r DEF IInv, GroupOrLeaf, NamesWhatIsThere
<1>8. MergedAwayStaysEmpty' /\ MergedIsArchived'
  BY <1>1, <1>2, <1>3, <1>4, TableType DEF IInv, MergedAwayStaysEmpty, MergedIsArchived
<1>10. LiveUnderLive'
  BY <1>1, <1>3, <1>r DEF IInv, LiveUnderLive, NamesWhatIsThere
<1>11. ToastStands'
  BY <1>1, <1>3 DEF IInv, ToastStands
<1> QED BY <1>5, <1>6, <1>7, <1>8, <1>10, <1>11 DEF IInv

LEMMA RenamedKeeps ==
    ASSUME IInv, NEW c \in Categories, NEW n \in Names, MayRename(c, n), Renamed(c, n),
           undo' \in Undos, undo' # NoUndo => undo'.undoes = "rename" /\ undo'.of \in Present
    PROVE  IInv'
<1>1. /\ c \in Present /\ NameIsFree(c, categories[c].parent, categories[c].kind, n)
      /\ categories' = [categories EXCEPT ![c].name = n]
      /\ UNCHANGED <<transactions, draft, merged>>
  BY DEF MayRename, Renamed
<1>2. TypeOK
  BY DEF IInv
<1>3. /\ Present' = Present /\ categories' \in [Present -> Category]
      /\ \A d \in Present :
           /\ categories'[d].parent = categories[d].parent
           /\ categories'[d].kind = categories[d].kind
           /\ categories'[d].isLeaf = categories[d].isLeaf
           /\ categories'[d].archived = categories[d].archived
           /\ categories'[d].name = IF d = c THEN n ELSE categories[d].name
  BY <1>1, <1>2, NameIsSet
<1>4. Filed' = Filed /\ \A d \in Present : FiledUnder(d)' = FiledUnder(d)
  BY <1>1 DEF Filed, FiledUnder
<1>5. TypeOK'
  BY <1>1, <1>2, <1>3, <1>4, TableType, NextTableType
<1>6. NamesWhatIsThere' /\ GroupOrLeaf'
  BY <1>1, <1>3, <1>4 DEF IInv, NamesWhatIsThere, GroupOrLeaf
<1>8. MergedAwayStaysEmpty' /\ MergedIsArchived'
  BY <1>1, <1>2, <1>3, <1>4, TableType DEF IInv, MergedAwayStaysEmpty, MergedIsArchived
<1>10. LiveUnderLive'
  BY <1>1, <1>3 DEF IInv, LiveUnderLive, NamesWhatIsThere
<1>11. ToastStands'
  BY <1>3 DEF ToastStands
<1> QED BY <1>5, <1>6, <1>8, <1>10, <1>11 DEF IInv

LEMMA MovedKeeps ==
    ASSUME IInv, NEW c \in Categories, NEW p \in Parents, MayMove(c, p), Moved(c, p),
           p # NoParent /\ categories[p].archived => categories[c].archived,
           undo' = NoUndo \/ undo' = [undoes |-> "move", of |-> c, to |-> categories[c].parent]
    PROVE  IInv'
<1>1. /\ c \in Present
      /\ p # NoParent => /\ categories[c].isLeaf /\ p \in Present /\ ~categories[p].isLeaf
                         /\ categories[p].kind = categories[c].kind
      /\ categories' = [categories EXCEPT ![c].parent = p]
      /\ UNCHANGED <<transactions, draft, merged>>
  BY DEF MayMove, Moved
<1>2. TypeOK /\ categories[c].parent \in Parents
  BY <1>1, TableType DEF IInv, Category
<1>3. /\ Present' = Present /\ categories' \in [Present -> Category]
      /\ \A d \in Present :
           /\ categories'[d].name = categories[d].name
           /\ categories'[d].kind = categories[d].kind
           /\ categories'[d].isLeaf = categories[d].isLeaf
           /\ categories'[d].archived = categories[d].archived
           /\ categories'[d].parent = IF d = c THEN p ELSE categories[d].parent
  BY <1>1, <1>2, ParentIsSet
<1>4. Filed' = Filed /\ \A d \in Present : FiledUnder(d)' = FiledUnder(d)
  BY <1>1 DEF Filed, FiledUnder
<1>5. TypeOK'
  BY <1>1, <1>2, <1>3, <1>4, TableType, NextTableType DEF Undos
<1>6. NamesWhatIsThere' /\ GroupOrLeaf'
  BY <1>1, <1>3, <1>4 DEF IInv, NamesWhatIsThere, GroupOrLeaf
<1>8. MergedAwayStaysEmpty' /\ MergedIsArchived'
  BY <1>1, <1>2, <1>3, <1>4, TableType DEF IInv, MergedAwayStaysEmpty, MergedIsArchived
<1>10. LiveUnderLive'
  BY <1>1, <1>3 DEF IInv, LiveUnderLive, NamesWhatIsThere
<1>11. ToastStands'
  BY <1>1, <1>3 DEF IInv, ToastStands, NamesWhatIsThere, LiveUnderLive, NoUndo
<1> QED BY <1>5, <1>6, <1>8, <1>10, <1>11 DEF IInv

LEMMA ConvertKeeps ==
    ASSUME IInv, NEW c \in Categories, ConvertCategory(c)
    PROVE  IInv'
<1>1. /\ c \in Present
      /\ categories[c].isLeaf => FiledUnder(c) = {}
      /\ ~categories[c].isLeaf => Children(c) = {}
      /\ categories' = [categories EXCEPT ![c].isLeaf = ~@] /\ undo' = NoUndo
      /\ UNCHANGED <<transactions, draft, merged>>
  BY DEF ConvertCategory, MayConvert
<1>2. TypeOK
  BY DEF IInv
<1>3. /\ Present' = Present /\ categories' \in [Present -> Category]
      /\ \A d \in Present :
           /\ categories'[d].parent = categories[d].parent
           /\ categories'[d].name = categories[d].name
           /\ categories'[d].kind = categories[d].kind
           /\ categories'[d].archived = categories[d].archived
           /\ d # c => categories'[d].isLeaf = categories[d].isLeaf
      /\ categories'[c].isLeaf = ~categories[c].isLeaf
  BY <1>1, <1>2, LeafIsFlipped
<1>4. Filed' = Filed /\ \A d \in Present : FiledUnder(d)' = FiledUnder(d)
  BY <1>1 DEF Filed, FiledUnder
<1>5. TypeOK'
  BY <1>1, <1>2, <1>3, <1>4, TableType, NextTableType DEF Undos
<1>6. NamesWhatIsThere'
  BY <1>1, <1>3, <1>4 DEF IInv, NamesWhatIsThere
<1>7. GroupOrLeaf'
  <2>1. ASSUME NEW t \in Filed PROVE categories'[transactions[t].category].isLeaf
    <3>1. CASE transactions[t].category = c
      BY <1>1, <2>1, <3>1 DEF IInv, GroupOrLeaf, FiledUnder
    <3>2. CASE transactions[t].category # c
      BY <1>3, <2>1, <3>2 DEF IInv, GroupOrLeaf, NamesWhatIsThere
    <3> QED BY <3>1, <3>2
  <2>2. ASSUME NEW d \in Present, categories[d].parent # NoParent
        PROVE  ~categories'[categories[d].parent].isLeaf
    <3>1. CASE categories[d].parent = c
      BY <1>1, <2>2, <3>1 DEF IInv, GroupOrLeaf, Children
    <3>2. CASE categories[d].parent # c
      BY <1>3, <2>2, <3>2 DEF IInv, GroupOrLeaf, NamesWhatIsThere
    <3> QED BY <3>1, <3>2
  <2> QED BY <1>1, <1>3, <1>4, <2>1, <2>2 DEF GroupOrLeaf
<1>8. MergedAwayStaysEmpty' /\ MergedIsArchived'
  BY <1>1, <1>2, <1>3, <1>4, TableType DEF IInv, MergedAwayStaysEmpty, MergedIsArchived
<1>9. LiveUnderLive'
  BY <1>1, <1>3 DEF IInv, LiveUnderLive, NamesWhatIsThere
<1>11. ToastStands'
  BY <1>1 DEF ToastStands
<1> QED BY <1>5, <1>6, <1>7, <1>8, <1>9, <1>11 DEF IInv

LEMMA ArchiveKeeps ==
    ASSUME IInv, NEW c \in Categories, ArchiveCategory(c)
    PROVE  IInv'
<1>1. /\ c \in Present /\ ~categories[c].archived
      /\ ~categories[c].isLeaf => \A d \in Children(c) : categories[d].archived
      /\ categories' = [categories EXCEPT ![c].archived = TRUE] /\ undo' = NoUndo
      /\ UNCHANGED <<transactions, draft, merged>>
  BY DEF ArchiveCategory, MayArchive
<1>2. TypeOK
  BY DEF IInv
<1>3. /\ Present' = Present /\ categories' \in [Present -> Category]
      /\ \A d \in Present :
           /\ categories'[d].parent = categories[d].parent
           /\ categories'[d].name = categories[d].name
           /\ categories'[d].kind = categories[d].kind
           /\ categories'[d].isLeaf = categories[d].isLeaf
           /\ d # c => categories'[d].archived = categories[d].archived
      /\ categories'[c].archived
  BY <1>1, <1>2, MarkIsSet
<1>4. Filed' = Filed /\ \A d \in Present : FiledUnder(d)' = FiledUnder(d)
  BY <1>1 DEF Filed, FiledUnder
<1>5. TypeOK'
  BY <1>1, <1>2, <1>3, <1>4, TableType, NextTableType DEF Undos
<1>6. NamesWhatIsThere' /\ GroupOrLeaf'
  BY <1>1, <1>3, <1>4 DEF IInv, NamesWhatIsThere, GroupOrLeaf
<1>8. MergedAwayStaysEmpty' /\ MergedIsArchived'
  BY <1>1, <1>2, <1>3, <1>4, TableType DEF IInv, MergedAwayStaysEmpty, MergedIsArchived
<1>10. LiveUnderLive'
  <2>1. SUFFICES ASSUME NEW d \in Present, ~categories'[d].archived,
                        categories[d].parent # NoParent
                 PROVE  ~categories'[categories[d].parent].archived
    BY <1>3 DEF LiveUnderLive
  <2>2. d # c /\ ~categories[d].archived
    BY <1>3, <2>1
  <2>3. categories[d].parent # c
    BY <1>1, <2>1, <2>2 DEF IInv, GroupOrLeaf, Children
  <2> QED BY <1>3, <2>1, <2>2, <2>3 DEF IInv, LiveUnderLive, NamesWhatIsThere
<1>11. ToastStands'
  BY <1>1 DEF ToastStands
<1> QED BY <1>5, <1>6, <1>8, <1>10, <1>11 DEF IInv

\* Rows change hands within the leaves on offer, and the tree stays as it is.
LEMMA RefiledKeeps ==
    ASSUME IInv, NEW ts \in SUBSET Filed, NEW c \in Categories, Refile(ts, c)
    PROVE  IInv'
<1>1. /\ c \in Present /\ categories[c].isLeaf /\ ~categories[c].archived
      /\ transactions' = [t \in Filed |-> IF t \in ts
                                          THEN [transactions[t] EXCEPT !.category = c]
                                          ELSE transactions[t]]
      /\ UNCHANGED <<categories, draft, undo, merged>>
  BY DEF Refile, Offered
<1>2. TypeOK
  BY DEF IInv
<1>3. /\ Filed' = Filed /\ transactions' \in [Filed -> Transaction]
      /\ \A t \in Filed : transactions'[t].category = IF t \in ts THEN c
                                                      ELSE transactions[t].category
  BY <1>1, <1>2, TableType DEF Filed, Transaction
<1>4. Present' = Present
  BY <1>1 DEF Present
<1>5. TypeOK'
  BY <1>1, <1>2, <1>3, <1>4, TableType, NextTableType
<1>6. NamesWhatIsThere' /\ GroupOrLeaf'
  BY <1>1, <1>3, <1>4 DEF IInv, NamesWhatIsThere, GroupOrLeaf
<1>7. MergedAwayStaysEmpty'
  BY <1>1, <1>3 DEF IInv, MergedAwayStaysEmpty, MergedIsArchived, FiledUnder
<1>8. /\ MergedIsArchived' /\ LiveUnderLive' /\ ToastStands'
  BY <1>1, <1>4 DEF IInv, MergedIsArchived, LiveUnderLive, ToastStands,
                    NoUndo
<1> QED BY <1>5, <1>6, <1>7, <1>8 DEF IInv

LEMMA MergeKeeps ==
    ASSUME IInv, NEW l \in Categories, NEW w \in Categories, MergeCategories(l, w)
    PROVE  IInv'
<1>1. /\ l \in Present /\ w \in Present /\ l # w
      /\ categories[l].isLeaf /\ categories[w].isLeaf
      /\ ~categories[l].archived /\ ~categories[w].archived
      /\ categories' = [categories EXCEPT ![l].archived = TRUE] /\ undo' = NoUndo
      /\ transactions' = [t \in Filed |-> IF t \in FiledUnder(l)
                                          THEN [transactions[t] EXCEPT !.category = w]
                                          ELSE transactions[t]]
      /\ merged' = merged \cup {l}
      /\ UNCHANGED draft
  BY DEF MergeCategories, MayMerge, Offered
<1>2. TypeOK
  BY DEF IInv
<1>3. /\ Present' = Present /\ categories' \in [Present -> Category]
      /\ \A d \in Present :
           /\ categories'[d].parent = categories[d].parent
           /\ categories'[d].name = categories[d].name
           /\ categories'[d].kind = categories[d].kind
           /\ categories'[d].isLeaf = categories[d].isLeaf
           /\ d # l => categories'[d].archived = categories[d].archived
      /\ categories'[l].archived
  BY <1>1, <1>2, MarkIsSet
<1>4. /\ Filed' = Filed /\ transactions' \in [Filed -> Transaction]
      /\ \A t \in Filed : transactions'[t].category = IF transactions[t].category = l THEN w
                                                      ELSE transactions[t].category
  BY <1>1, <1>2, TableType DEF Filed, FiledUnder, Transaction
<1>5. TypeOK'
  BY <1>1, <1>2, <1>3, <1>4, TableType, NextTableType DEF Undos
<1>6. NamesWhatIsThere' /\ GroupOrLeaf'
  BY <1>1, <1>3, <1>4 DEF IInv, NamesWhatIsThere, GroupOrLeaf
<1>7. MergedIsArchived'
  BY <1>1, <1>2, <1>3, TableType DEF IInv, MergedIsArchived
<1>8. MergedAwayStaysEmpty'
  <2>1. w \notin merged'
    BY <1>1 DEF IInv, MergedIsArchived
  <2> QED BY <1>1, <1>4, <2>1 DEF IInv, MergedAwayStaysEmpty, FiledUnder, Filed
<1>10. LiveUnderLive'
  <2>1. SUFFICES ASSUME NEW d \in Present, ~categories'[d].archived,
                        categories[d].parent # NoParent
                 PROVE  ~categories'[categories[d].parent].archived
    BY <1>3 DEF LiveUnderLive
  <2>2. d # l /\ ~categories[d].archived /\ categories[d].parent # l
    BY <1>1, <1>3, <2>1 DEF IInv, GroupOrLeaf
  <2> QED BY <1>3, <2>1, <2>2 DEF IInv, LiveUnderLive, NamesWhatIsThere
<1>11. ToastStands'
  BY <1>1 DEF ToastStands
<1> QED BY <1>5, <1>6, <1>7, <1>8, <1>10, <1>11 DEF IInv

LEMMA SaveKeeps ==
    ASSUME IInv, NEW t \in Transactions, SaveDraft(t)
    PROVE  IInv'
<1> DEFINE row == [category |-> draft, type |-> categories[draft].kind, deleted |-> FALSE]
<1>1. /\ t \notin Filed /\ draft \in Present /\ categories[draft].isLeaf
      /\ ~categories[draft].archived
      /\ transactions' = [u \in Filed \cup {t} |-> IF u = t THEN row ELSE transactions[u]]
      /\ draft' = NoCategory /\ UNCHANGED <<categories, undo, merged>>
  BY DEF SaveDraft, Offered
<1>2. TypeOK /\ row \in Transaction /\ row.category = draft
  BY <1>1, TableType DEF IInv, Transaction, Category
<1> HIDE DEF row
<1>3. /\ Filed' = Filed \cup {t} /\ transactions' \in [Filed' -> Transaction]
      /\ \A u \in Filed : transactions'[u] = transactions[u]
      /\ transactions'[t].category = draft
  BY <1>1, <1>2, TableType DEF Filed
<1>4. Present' = Present
  BY <1>1 DEF Present
<1>5. TypeOK'
  BY <1>1, <1>2, <1>3, <1>4, TableType, NextTableType
<1>6. NamesWhatIsThere' /\ GroupOrLeaf'
  BY <1>1, <1>3, <1>4 DEF IInv, NamesWhatIsThere, GroupOrLeaf
<1>7. MergedAwayStaysEmpty'
  BY <1>1, <1>3 DEF IInv, MergedAwayStaysEmpty, MergedIsArchived, FiledUnder
<1>8. /\ MergedIsArchived' /\ LiveUnderLive' /\ ToastStands'
  BY <1>1, <1>4 DEF IInv, MergedIsArchived, LiveUnderLive, ToastStands,
                    NoUndo
<1> QED BY <1>5, <1>6, <1>7, <1>8 DEF IInv

LEMMA DeleteKeeps ==
    ASSUME IInv, NEW t \in Transactions, DeleteTransaction(t)
    PROVE  IInv'
<1>1. /\ t \in Filed /\ transactions' = [transactions EXCEPT ![t].deleted = TRUE]
      /\ UNCHANGED <<categories, draft, undo, merged>>
  BY DEF DeleteTransaction
<1>2. TypeOK
  BY DEF IInv
<1>3. /\ Filed' = Filed /\ transactions' \in [Filed -> Transaction]
      /\ \A u \in Filed : transactions'[u].category = transactions[u].category
  BY <1>1, <1>2, TableType DEF Filed, Transaction
<1>4. Present' = Present
  BY <1>1 DEF Present
<1>5. TypeOK'
  BY <1>1, <1>2, <1>3, <1>4, TableType, NextTableType
<1>6. NamesWhatIsThere' /\ GroupOrLeaf' /\ MergedAwayStaysEmpty'
  BY <1>1, <1>3, <1>4 DEF IInv, NamesWhatIsThere, GroupOrLeaf, MergedAwayStaysEmpty, FiledUnder
<1>8. /\ MergedIsArchived' /\ LiveUnderLive' /\ ToastStands'
  BY <1>1, <1>4 DEF IInv, MergedIsArchived, LiveUnderLive, ToastStands,
                    NoUndo
<1> QED BY <1>5, <1>6, <1>8 DEF IInv

\* Picking a category and dismissing the toast touch neither table.
LEMMA TablesStay ==
    ASSUME IInv, UNCHANGED <<categories, transactions, merged>>,
           draft' \in Categories \cup {NoCategory}, undo' \in {undo, NoUndo}
    PROVE  IInv'
<1>1. Present' = Present /\ Filed' = Filed /\ \A c : FiledUnder(c)' = FiledUnder(c)
  BY DEF Present, Filed, FiledUnder
<1>2. TypeOK'
  BY <1>1, TableType, NextTableType DEF IInv, Undos
<1>3. NamesWhatIsThere' /\ GroupOrLeaf' /\ MergedAwayStaysEmpty'
  BY <1>1 DEF IInv, NamesWhatIsThere, GroupOrLeaf, MergedAwayStaysEmpty
<1>4. MergedIsArchived' /\ LiveUnderLive'
  BY <1>1 DEF IInv, MergedIsArchived, LiveUnderLive
<1>5. ToastStands'
  BY <1>1 DEF IInv, ToastStands, NoUndo
<1> QED BY <1>2, <1>3, <1>4, <1>5 DEF IInv

LEMMA TakeBackKeeps ==
    ASSUME IInv, TakeBack
    PROVE  IInv'
<1>1. TypeOK /\ undo \in Undos /\ undo # NoUndo /\ undo' = NoUndo
  BY TableType DEF IInv, TakeBack
<1>2. CASE undo.undoes = "rename" /\ MayRename(undo.of, undo.to) /\ Renamed(undo.of, undo.to)
  <2>1. undo.of \in Categories /\ undo.to \in Names
    BY <1>1, <1>2 DEF Undos
  <2> QED BY <1>1, <1>2, <2>1, RenamedKeeps DEF Undos
<1>3. CASE undo.undoes = "move" /\ MayMove(undo.of, undo.to) /\ Moved(undo.of, undo.to)
  <2>1. undo.of \in Categories /\ undo.to \in Parents
    BY <1>1, <1>3 DEF Undos
  <2>2. undo.to # NoParent /\ categories[undo.to].archived => categories[undo.of].archived
    BY <1>1, <1>3 DEF IInv, ToastStands
  <2> QED BY <1>1, <1>3, <2>1, <2>2, MovedKeeps
<1>4. CASE UNCHANGED <<categories, transactions, draft, merged>>
  BY <1>1, <1>4, TableType, TablesStay
<1> QED BY <1>2, <1>3, <1>4 DEF TakeBack

-----------------------------------------------------------------------------
(* The invariant, and what follows from it.                                 *)

LEMMA InitIsGood == Init => IInv
<1> SUFFICES ASSUME Init PROVE IInv
  OBVIOUS
<1>1. PICK C \in SUBSET Categories :
        /\ FirstCategories \in [C -> Category]
        /\ \A c \in C :
            LET row == FirstCategories[c] IN
            /\ ~row.archived
            /\ row.parent # NoParent =>
                 /\ row.isLeaf /\ row.parent \in C
                 /\ ~FirstCategories[row.parent].isLeaf
                 /\ FirstCategories[row.parent].kind = row.kind
        /\ \A c, d \in C :
            /\ FirstCategories[c].parent = FirstCategories[d].parent
            /\ FirstCategories[c].kind = FirstCategories[d].kind
            /\ FirstCategories[c].name = FirstCategories[d].name
            => c = d
  BY FirstAssumption
<1>2. /\ Present = C /\ categories = FirstCategories /\ Filed = {}
      /\ draft = NoCategory /\ undo = NoUndo /\ merged = {}
  BY <1>1 DEF Init, Present, Filed
<1>3. transactions \in [Filed -> Transaction]
  BY <1>2 DEF Init
<1>4. TypeOK
  BY <1>1, <1>2, <1>3, TableType DEF Undos
<1> QED BY <1>1, <1>2, <1>4 DEF IInv, GroupOrLeaf, MergedAwayStaysEmpty,
                                LiveUnderLive, NamesWhatIsThere, MergedIsArchived, ToastStands

LEMMA StepKeeps == IInv /\ [Next]_vars => IInv'
<1> SUFFICES ASSUME IInv, [Next]_vars PROVE IInv'
  OBVIOUS
<1>1. ASSUME NEW n \in Newcomers,
             \/ CreateCategory(n.who, n.name, n.kind, n.parent)
             \/ CreateInPicker(n.who, n.name, n.kind, n.parent)
      PROVE  IInv'
  BY <1>1, InsertKeeps DEF CreateCategory, CreateInPicker
<1>2. ASSUME NEW r \in Renames, RenameCategory(r.who, r.name)
      PROVE  IInv'
  <2>1. /\ r.who \in Categories /\ r.name \in Names /\ r.who \in Present
        /\ MayRename(r.who, r.name) /\ Renamed(r.who, r.name)
        /\ undo' = [undoes |-> "rename", of |-> r.who, to |-> categories[r.who].name]
    BY <1>2, ConstantsAssumption DEF RenameCategory, MayRename
  <2>2. undo' \in Undos
    BY <2>1, TableType DEF IInv, Undos, Category
  <2> QED BY <2>1, <2>2, RenamedKeeps
<1>3. ASSUME NEW m \in Moves, MoveCategory(m.who, m.parent)
      PROVE  IInv'
  <2>1. /\ m.who \in Categories /\ m.parent \in Parents /\ m.who \in Present
        /\ MayMove(m.who, m.parent) /\ Moved(m.who, m.parent)
        /\ m.parent # NoParent => ~categories[m.parent].archived
        /\ undo' = [undoes |-> "move", of |-> m.who, to |-> categories[m.who].parent]
    BY <1>3, ConstantsAssumption DEF MoveCategory, MayMove, OfferedGroups
  <2> QED BY <1>3, <2>1, MovedKeeps
<1>4. ASSUME NEW c \in Categories, ConvertCategory(c) \/ ArchiveCategory(c) \/ PickCategory(c)
      PROVE  IInv'
  BY <1>4, ConvertKeeps, ArchiveKeeps, TablesStay DEF PickCategory
<1>5. ASSUME NEW c \in Categories, NEW d \in Categories, MergeCategories(c, d)
      PROVE  IInv'
  BY <1>5, MergeKeeps
<1>6. CASE TakeBack \/ DismissToast
  BY <1>6, TakeBackKeeps, TablesStay, TableType DEF DismissToast, IInv
<1>7. ASSUME NEW t \in Transactions, SaveDraft(t) \/ DeleteTransaction(t)
      PROVE  IInv'
  BY <1>7, SaveKeeps, DeleteKeeps
<1>8. ASSUME NEW ts \in SUBSET Filed, NEW c \in Categories, Refile(ts, c)
      PROVE  IInv'
  BY <1>8, RefiledKeeps
<1>9. CASE UNCHANGED vars
  BY <1>9, TablesStay, TableType DEF vars, IInv
<1> QED BY <1>1, <1>2, <1>3, <1>4, <1>5, <1>6, <1>7, <1>8, <1>9 DEF Next

LEMMA AlwaysGood == Spec => []IInv
  BY InitIsGood, StepKeeps, PTL DEF Spec

\* The tables, the draft, the toast and the histories keep their types.
THEOREM TypeCorrect == Spec => []TypeOK
  BY AlwaysGood, PTL DEF IInv

\* Nothing is ever filed under a group and nothing ever sits under a leaf,
\* however many categories are picked, converted, moved and moved back.
THEOREM NeverBoth == Spec => []GroupOrLeaf
  BY AlwaysGood, PTL DEF IInv

\* No row, deleted or not, ever names a category that was merged away.
THEOREM MergedAwayIsEmpty == Spec => []MergedAwayStaysEmpty
  BY AlwaysGood, PTL DEF IInv

\* A step that leaves names, parents and kinds makes no namesakes.
LEMMA NamesStay ==
    ASSUME Present' = Present,
           \A c \in Present : /\ categories'[c].name = categories[c].name
                              /\ categories'[c].parent = categories[c].parent
                              /\ categories'[c].kind = categories[c].kind
    PROVE  \A c, d \in Present' : Namesakes(c, d)' => {c, d} \subseteq Present /\ Namesakes(c, d)
  BY DEF Namesakes

LEMMA InsertMakesNone ==
    ASSUME TypeOK, NEW n \in Newcomers, Insert(n.who, n.name, n.kind, n.parent)
    PROVE  \A c, d \in Present' : Namesakes(c, d)' => {c, d} \subseteq Present /\ Namesakes(c, d)
<1> DEFINE row == [parent |-> n.parent, name |-> n.name, kind |-> n.kind, isLeaf |-> TRUE,
                   archived |-> FALSE]
<1>1. /\ n.who \in Categories \ Present /\ n.name \in Names /\ n.kind \in Kinds
      /\ n.parent \in Parents /\ NameIsFree(n.who, n.parent, n.kind, n.name)
  BY ConstantsAssumption DEF Insert
<1>2. /\ Present' = Present \cup {n.who} /\ categories'[n.who] = row
      /\ \A d \in Present : categories'[d] = categories[d]
  BY <1>1, RowIsInserted
<1>3. row.parent = n.parent /\ row.name = n.name /\ row.kind = n.kind
  OBVIOUS
<1> HIDE DEF row
<1>4. \A d \in Present : ~Namesakes(n.who, d)' /\ ~Namesakes(d, n.who)'
  BY <1>1, <1>2, <1>3 DEF Namesakes, NameIsFree, Siblings, Children
<1> QED BY <1>2, <1>4 DEF Namesakes

LEMMA RenamedMakesNone ==
    ASSUME TypeOK, NEW c \in Categories, NEW n \in Names, MayRename(c, n), Renamed(c, n)
    PROVE  \A d, e \in Present' : Namesakes(d, e)' => {d, e} \subseteq Present /\ Namesakes(d, e)
<1>1. /\ c \in Present /\ NameIsFree(c, categories[c].parent, categories[c].kind, n)
      /\ categories' = [categories EXCEPT ![c].name = n]
  BY DEF MayRename, Renamed
<1>2. /\ Present' = Present
      /\ \A d \in Present :
           /\ categories'[d].parent = categories[d].parent
           /\ categories'[d].kind = categories[d].kind
           /\ categories'[d].name = IF d = c THEN n ELSE categories[d].name
  BY <1>1, NameIsSet
<1>3. \A d \in Present : ~Namesakes(c, d)' /\ ~Namesakes(d, c)'
  BY <1>1, <1>2 DEF Namesakes, NameIsFree, Siblings, Children
<1> QED BY <1>2, <1>3 DEF Namesakes

LEMMA MovedMovesOne ==
    ASSUME TypeOK, NEW c \in Categories, NEW p \in Parents, MayMove(c, p), Moved(c, p)
    PROVE  \A d, e \in Present' :
             Namesakes(d, e)' =>
               \/ {d, e} \subseteq Present /\ Namesakes(d, e)
               \/ \E f \in {d, e} \cap Present : categories'[f].parent # categories[f].parent
<1>1. c \in Present /\ categories' = [categories EXCEPT ![c].parent = p]
  BY DEF MayMove, Moved
<1>2. /\ Present' = Present
      /\ \A d \in Present : /\ categories'[d].name = categories[d].name
                             /\ categories'[d].kind = categories[d].kind
                             /\ d # c => categories'[d].parent = categories[d].parent
  BY <1>1, ParentIsSet
<1> QED BY <1>1, <1>2 DEF Namesakes

\* Only a move brings two categories of one name into one place: a create and a
\* rename ask every sibling, and no other step touches a name or a parent.
THEOREM NamesakesAreMoved == Spec => OnlyMovesMakeNamesakes
<1> DEFINE Step == \A c, d \in Present' :
                     Namesakes(c, d)' =>
                       \/ {c, d} \subseteq Present /\ Namesakes(c, d)
                       \/ \E e \in {c, d} \cap Present :
                            categories'[e].parent # categories[e].parent
<1>1. IInv /\ [Next]_vars => [Step]_vars
  <2> SUFFICES ASSUME IInv, Next PROVE Step
    OBVIOUS
  <2>a. TypeOK
    BY DEF IInv
  <2>b. ASSUME UNCHANGED categories PROVE Step
    BY <2>b, NamesStay DEF Present
  <2>c. ASSUME NEW c \in Present, \/ categories' = [categories EXCEPT ![c].isLeaf = ~@]
                                 \/ categories' = [categories EXCEPT ![c].archived = TRUE]
        PROVE  Step
    BY <2>a, <2>c, LeafIsFlipped, MarkIsSet, NamesStay
  <2>1. ASSUME NEW n \in Newcomers,
               \/ CreateCategory(n.who, n.name, n.kind, n.parent)
               \/ CreateInPicker(n.who, n.name, n.kind, n.parent)
        PROVE  Step
    BY <2>a, <2>1, InsertMakesNone DEF CreateCategory, CreateInPicker
  <2>2. ASSUME NEW r \in Renames, RenameCategory(r.who, r.name) PROVE Step
    BY <2>a, <2>2, ConstantsAssumption, RenamedMakesNone DEF RenameCategory
  <2>3. ASSUME NEW m \in Moves, MoveCategory(m.who, m.parent) PROVE Step
    BY <2>a, <2>3, ConstantsAssumption, MovedMovesOne DEF MoveCategory
  <2>4. ASSUME NEW c \in Categories, ConvertCategory(c) \/ ArchiveCategory(c) PROVE Step
    BY <2>4, <2>c DEF ConvertCategory, MayConvert, ArchiveCategory, MayArchive
  <2>5. ASSUME NEW c \in Categories, NEW d \in Categories, MergeCategories(c, d) PROVE Step
    BY <2>5, <2>c DEF MergeCategories, MayMerge, Offered
  <2>6. CASE TakeBack
    <3>1. undo \in Undos /\ undo # NoUndo
      BY <2>a, <2>6, TableType DEF TakeBack
    <3>2. CASE undo.undoes = "rename" /\ MayRename(undo.of, undo.to) /\ Renamed(undo.of, undo.to)
      BY <2>a, <3>1, <3>2, RenamedMakesNone DEF Undos
    <3>3. CASE undo.undoes = "move" /\ MayMove(undo.of, undo.to) /\ Moved(undo.of, undo.to)
      BY <2>a, <3>1, <3>3, MovedMovesOne DEF Undos
    <3> QED BY <2>6, <2>b, <3>2, <3>3 DEF TakeBack
  <2>7. CASE \/ DismissToast \/ \E c \in Categories : PickCategory(c)
             \/ \E t \in Transactions : SaveDraft(t) \/ DeleteTransaction(t)
             \/ \E ts \in SUBSET Filed, c \in Categories : Refile(ts, c)
    BY <2>7, <2>b DEF DismissToast, PickCategory, SaveDraft, DeleteTransaction, Refile
  <2> QED BY <2>1, <2>2, <2>3, <2>4, <2>5, <2>6, <2>7 DEF Next
<1> QED BY <1>1, AlwaysGood, PTL DEF Spec, OnlyMovesMakeNamesakes

\* What can be picked never sits under an archived group.
THEOREM GroupsOutliveTheirLeaves == Spec => []LiveUnderLive
  BY AlwaysGood, PTL DEF IInv
=============================================================================
