----------------------------- MODULE Categories -----------------------------
(***************************************************************************)
(* The category tree and what is filed under it: the six operations of the  *)
(* settings screen (packages/ledger/src/categories, reached through         *)
(* categories-screen.tsx), with the writes that file transactions.  Three   *)
(* things cross them: a category picked in Quick add and saved later, after *)
(* the tree changed; the one undo toast of the settings screen, tapped      *)
(* after a category was created on another screen; and rows deleted before  *)
(* the category they were filed under was converted or merged.              *)
(*                                                                          *)
(* An action is the screen that offers the operation, the controller and    *)
(* the executor: what any of the three refuses is not enabled.  The app is  *)
(* one thread and reads a row's version where it writes it, so the          *)
(* compare-and-swap on versions never refuses here.  A name is a folded     *)
(* one.  A line of a split transaction and a recurring rule name a category *)
(* the way a transaction does, and stand among the transactions.            *)
(***************************************************************************)
EXTENDS FiniteSets

CONSTANTS
    Categories,       \* the categories there may ever be
    Names,            \* their folded names
    NoParent,         \* the parent of what sits at the root
    FirstCategories,  \* the taxonomy the ledger was seeded with
    DebtCategories,   \* those of its leaves whose rows are debts
    Transactions,     \* the transactions there may ever be
    NoCategory,       \* nothing picked
    Newcomers,        \* what may be created, and where
    Renames,          \* what may be renamed, and to what
    Moves             \* what may be moved, and where

Kinds == {"income", "expense"}
Parents == Categories \cup {NoParent}
Category == [parent : Parents, name : Names, kind : Kinds, isLeaf : BOOLEAN,
             archived : BOOLEAN]
Transaction == [category : Categories, type : Kinds, deleted : BOOLEAN]

\* What the toast of the settings screen would take back.
NoUndo == [undoes |-> "nothing"]
Undos == {NoUndo} \cup [undoes : {"rename"}, of : Categories, to : Names]
                  \cup [undoes : {"move"}, of : Categories, to : Parents]

ASSUME ConstantsAssumption ==
    /\ NoParent \notin Categories /\ NoCategory \notin Categories
    /\ DebtCategories \subseteq Categories
    /\ Newcomers \subseteq [who : Categories, name : Names, kind : Kinds, parent : Parents]
    /\ Renames \subseteq [who : Categories, name : Names]
    /\ Moves \subseteq [who : Categories, parent : Parents]

\* The tree the ledger starts with: groups at the root, leaves under them or
\* beside them, no name twice in one place.
ASSUME FirstAssumption ==
    \E C \in SUBSET Categories :
        /\ FirstCategories \in [C -> Category]
        /\ \A c \in C :
            LET row == FirstCategories[c] IN
            /\ ~row.archived
            /\ row.parent # NoParent =>
                 /\ row.isLeaf /\ row.parent \in C
                 /\ ~FirstCategories[row.parent].isLeaf
                 /\ FirstCategories[row.parent].kind = row.kind
        /\ \A c, d \in C :
            /\ FirstCategories[c].parent = FirstCategories[d].parent
            /\ FirstCategories[c].kind = FirstCategories[d].kind
            /\ FirstCategories[c].name = FirstCategories[d].name
            => c = d

VARIABLES
    categories,     \* the categories there are
    transactions,   \* what was filed, deleted rows too
    draft,          \* the category picked in Quick add
    undo,           \* what the toast would take back
    merged          \* history: the categories ever merged into another

vars == <<categories, transactions, draft, undo, merged>>

Init ==
    /\ categories = FirstCategories
    /\ transactions = [t \in {} |-> NoCategory]
    /\ draft = NoCategory /\ undo = NoUndo
    /\ merged = {}

-----------------------------------------------------------------------------
Present == DOMAIN categories
Filed == DOMAIN transactions
Children(p) == {c \in Present : categories[c].parent = p}
FiledUnder(c) == {t \in Filed : transactions[t].category = c}

\* What a picker of categories offers, and what a capture is checked against.
Offered == {c \in Present : categories[c].isLeaf /\ ~categories[c].archived}
\* What a picker of groups offers.
OfferedGroups(kind) ==
    {g \in Present : /\ ~categories[g].isLeaf /\ ~categories[g].archived
                     /\ categories[g].kind = kind}

\* Mutant: an archived sibling gives its name up.
LiveSiblings(parent, kind) ==
    {c \in Children(parent) : categories[c].kind = kind /\ ~categories[c].archived}

\* Archived siblings hold on to their names.
Siblings(parent, kind) == {c \in Children(parent) : categories[c].kind = kind}

NameIsFree(c, parent, kind, name) ==
    \A s \in Siblings(parent, kind) \ {c} : categories[s].name # name

-----------------------------------------------------------------------------
(* The tree.                                                                *)

\* A category starts as a leaf.
Insert(c, name, kind, parent) ==
    /\ c \notin Present
    /\ parent = NoParent \/ parent \in OfferedGroups(kind)
    /\ NameIsFree(c, parent, kind, name)
    /\ categories' = [d \in Present \cup {c} |->
                        IF d = c THEN [parent |-> parent, name |-> name, kind |-> kind,
                                       isLeaf |-> TRUE, archived |-> FALSE]
                        ELSE categories[d]]
    /\ UNCHANGED <<transactions, draft, merged>>

\* From the settings screen, whose toast then says so;
CreateCategory(c, name, kind, parent) == Insert(c, name, kind, parent) /\ undo' = NoUndo

\* and from the picker of Quick add or of a transaction, which leaves the toast.
CreateInPicker(c, name, kind, parent) == Insert(c, name, kind, parent) /\ UNCHANGED undo

MayRename(c, name) ==
    c \in Present /\ NameIsFree(c, categories[c].parent, categories[c].kind, name)

Renamed(c, name) ==
    /\ categories' = [categories EXCEPT ![c].name = name]
    /\ UNCHANGED <<transactions, draft, merged>>

RenameCategory(c, name) ==
    /\ MayRename(c, name) /\ categories[c].name # name
    /\ Renamed(c, name)
    /\ undo' = [undoes |-> "rename", of |-> c, to |-> categories[c].name]

\* Neither the group's archived mark nor the names already there are looked at.
MayMove(c, parent) ==
    /\ c \in Present
    /\ parent # NoParent =>
         /\ categories[c].isLeaf
         /\ parent \in Present /\ ~categories[parent].isLeaf
         /\ categories[parent].kind = categories[c].kind

Moved(c, parent) ==
    /\ categories' = [categories EXCEPT ![c].parent = parent]
    /\ UNCHANGED <<transactions, draft, merged>>

\* Mutant: the toast of a move remembers the wrong column.
MoveKeepsName(c, parent) ==
    /\ MayMove(c, parent)
    /\ categories[c].isLeaf
    /\ parent = NoParent \/ parent \in OfferedGroups(categories[c].kind)
    /\ Moved(c, parent)
    /\ undo' = [undoes |-> "move", of |-> c, to |-> categories[c].name]

MoveCategory(c, parent) ==
    /\ MayMove(c, parent)
    /\ categories[c].isLeaf
    /\ parent = NoParent \/ parent \in OfferedGroups(categories[c].kind)
    /\ Moved(c, parent)
    /\ undo' = [undoes |-> "move", of |-> c, to |-> categories[c].parent]

\* A leaf nothing was ever filed under becomes a group, wherever it sits; a
\* group without children, archived ones too, becomes a leaf.
MayConvert(c) ==
    /\ c \in Present
    /\ IF categories[c].isLeaf THEN FiledUnder(c) = {} ELSE Children(c) = {}

ConvertCategory(c) ==
    /\ MayConvert(c)
    /\ categories' = [categories EXCEPT ![c].isLeaf = ~@]
    /\ undo' = NoUndo
    /\ UNCHANGED <<transactions, draft, merged>>

\* Nothing takes the mark off again.
MayArchive(c) ==
    /\ c \in Present /\ ~categories[c].archived
    /\ ~categories[c].isLeaf => \A d \in Children(c) : categories[d].archived

\* Mutant: the toast of a move outlives the archiving of the group it left.
ArchiveUnderToast(c) ==
    /\ MayArchive(c)
    /\ categories' = [categories EXCEPT ![c].archived = TRUE]
    /\ UNCHANGED <<transactions, draft, undo, merged>>

ArchiveCategory(c) ==
    /\ MayArchive(c)
    /\ categories' = [categories EXCEPT ![c].archived = TRUE]
    /\ undo' = NoUndo
    /\ UNCHANGED <<transactions, draft, merged>>

\* With one of the four debt categories on either side the loser must be empty.
MayMerge(loser, winner) ==
    /\ {loser, winner} \subseteq Offered
    /\ categories[loser].kind = categories[winner].kind
    /\ {loser, winner} \cap DebtCategories # {} => FiledUnder(loser) = {}

\* Every row of the loser goes along, the deleted ones too.
MergeCategories(loser, winner) ==
    /\ loser # winner /\ MayMerge(loser, winner)
    /\ transactions' = [t \in Filed |->
                          IF t \in FiledUnder(loser)
                          THEN [transactions[t] EXCEPT !.category = winner]
                          ELSE transactions[t]]
    /\ categories' = [categories EXCEPT ![loser].archived = TRUE]
    /\ undo' = NoUndo /\ merged' = merged \cup {loser}
    /\ UNCHANGED draft

\* The toast calls the operation again, and goes whether it is refused or not: a
\* name taken in the meantime refuses a rename, and says so to nobody.
TakeBack ==
    /\ undo # NoUndo /\ undo' = NoUndo
    /\ \/ undo.undoes = "rename" /\ MayRename(undo.of, undo.to) /\ Renamed(undo.of, undo.to)
       \/ undo.undoes = "move" /\ MayMove(undo.of, undo.to) /\ Moved(undo.of, undo.to)
       \/ /\ undo.undoes = "rename" /\ ~MayRename(undo.of, undo.to)
          /\ UNCHANGED <<categories, transactions, draft, merged>>

DismissToast ==
    /\ undo # NoUndo /\ undo' = NoUndo
    /\ UNCHANGED <<categories, transactions, draft, merged>>

-----------------------------------------------------------------------------
(* What is filed under it.                                                  *)

PickCategory(c) ==
    /\ c \in Offered /\ draft' = c
    /\ UNCHANGED <<categories, transactions, undo, merged>>

\* Mutant: Quick add trusts what its picker offered.
SaveWhatWasPicked(t) ==
    /\ t \notin Filed /\ draft # NoCategory
    /\ ~categories[draft].archived
    /\ transactions' = [u \in Filed \cup {t} |->
                          IF u = t THEN [category |-> draft, type |-> categories[draft].kind,
                                         deleted |-> FALSE]
                          ELSE transactions[u]]
    /\ draft' = NoCategory
    /\ UNCHANGED <<categories, undo, merged>>

\* The pick is checked again when the draft is saved.
SaveDraft(t) ==
    /\ t \notin Filed /\ draft \in Offered
    /\ transactions' = [u \in Filed \cup {t} |->
                          IF u = t THEN [category |-> draft, type |-> categories[draft].kind,
                                         deleted |-> FALSE]
                          ELSE transactions[u]]
    /\ draft' = NoCategory
    /\ UNCHANGED <<categories, undo, merged>>

\* Mutant: rows may be filed under what was archived.
RefileUnderArchived(ts, c) ==
    /\ c \in Present /\ categories[c].isLeaf
    /\ \A t \in ts : ~transactions[t].deleted /\ transactions[t].type = categories[c].kind
    /\ transactions' = [t \in Filed |-> IF t \in ts THEN [transactions[t] EXCEPT !.category = c]
                                        ELSE transactions[t]]
    /\ UNCHANGED <<categories, draft, undo, merged>>

\* One row edited, or several categorised at once: all of them or none.
Refile(ts, c) ==
    /\ c \in Offered
    /\ \A t \in ts : ~transactions[t].deleted /\ transactions[t].type = categories[c].kind
    /\ transactions' = [t \in Filed |-> IF t \in ts THEN [transactions[t] EXCEPT !.category = c]
                                        ELSE transactions[t]]
    /\ UNCHANGED <<categories, draft, undo, merged>>

\* The row stays, and goes on naming its category.
DeleteTransaction(t) ==
    /\ t \in Filed /\ ~transactions[t].deleted
    /\ transactions' = [transactions EXCEPT ![t].deleted = TRUE]
    /\ UNCHANGED <<categories, draft, undo, merged>>

-----------------------------------------------------------------------------
Next ==
    \/ \E n \in Newcomers : \/ CreateCategory(n.who, n.name, n.kind, n.parent)
                            \/ CreateInPicker(n.who, n.name, n.kind, n.parent)
    \/ \E r \in Renames : RenameCategory(r.who, r.name)
    \/ \E m \in Moves : MoveCategory(m.who, m.parent)
    \/ \E c \in Categories : ConvertCategory(c) \/ ArchiveCategory(c) \/ PickCategory(c)
    \/ \E c, d \in Categories : MergeCategories(c, d)
    \/ TakeBack \/ DismissToast
    \/ \E t \in Transactions : SaveDraft(t) \/ DeleteTransaction(t)
    \/ \E ts \in SUBSET Filed, c \in Categories : ts # {} /\ Refile(ts, c)

Spec == Init /\ [][Next]_vars

-----------------------------------------------------------------------------
(* What the tree promises.                                                  *)

TypeOK ==
    /\ \E C \in SUBSET Categories : categories \in [C -> Category]
    /\ \E T \in SUBSET Transactions : transactions \in [T -> Transaction]
    /\ draft \in Categories \cup {NoCategory}
    /\ undo \in Undos
    /\ merged \in SUBSET Present

\* A category is a group or a leaf, never both (TAXONOMY.md R1): nothing is ever
\* filed under a group, deleted rows included, and nothing sits under a leaf -
\* although a leaf may be picked before it is converted and the pick saved after,
\* and a move taken back long after it was made.
GroupOrLeaf ==
    /\ \A t \in Filed : categories[transactions[t].category].isLeaf
    /\ \A c \in Present : categories[c].parent # NoParent =>
                            ~categories[categories[c].parent].isLeaf

\* What was merged away stays empty: no row that goes on in the ledger or was
\* deleted from it names a category that was merged into another, whatever was
\* picked, edited or merged on top since.
MergedAwayStaysEmpty == \A c \in merged : FiledUnder(c) = {}

Namesakes(c, d) ==
    /\ c # d /\ categories[c].name = categories[d].name
    /\ categories[c].parent = categories[d].parent
    /\ categories[c].kind = categories[d].kind

\* Only a move makes two categories of one place and kind share a folded name:
\* no create and no rename does, one the toast takes back included, whatever was
\* archived, merged away or moved beside the name before.
OnlyMovesMakeNamesakes ==
    [][\A c, d \in Present' :
         Namesakes(c, d)' =>
           \/ {c, d} \subseteq Present /\ Namesakes(c, d)
           \/ \E e \in {c, d} \cap Present : categories'[e].parent # categories[e].parent]_vars

\* What can still be picked never sits under a group that was archived: archiving
\* a group waits for its children, and no move reaches it afterwards, the one the
\* toast takes back included.
LiveUnderLive ==
    \A c \in Present :
        ~categories[c].archived /\ categories[c].parent # NoParent
        => ~categories[categories[c].parent].archived

\* A group sits at the root: two levels, never deeper (TAXONOMY.md R2).
GroupsSitAtTheRoot ==
    \A c \in Present : ~categories[c].isLeaf => categories[c].parent = NoParent
=============================================================================
