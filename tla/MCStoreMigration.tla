-------------------------- MODULE MCStoreMigration --------------------------
(***************************************************************************)
(* Five builds for TLC.  "wide" adds a step at the end of the replica's    *)
(* chain; "insert" adds one below the version "wide" leaves, and one to    *)
(* the outbox's chain; "strict" adds one to each whose precondition these  *)
(* rows fail; "edit" ships a statement of "base" changed.                  *)
(***************************************************************************)
EXTENDS StoreMigration

Step(v) == [version |-> v, sum |-> 0]
MCBuilds == {"base", "wide", "insert", "edit", "strict"}
MCChain ==
    [b \in MCBuilds |->
       CASE b = "base" -> [outbox |-> {Step(1)}, replica |-> {Step(1), Step(3)}]
         [] b = "wide" -> [outbox |-> {Step(1)}, replica |-> {Step(1), Step(3), Step(4)}]
         [] b = "insert" -> [outbox |-> {Step(1), Step(2)},
                             replica |-> {Step(1), Step(2), Step(3), Step(4)}]
         [] b = "strict" -> [outbox |-> {Step(1), Step(2)},
                             replica |-> {Step(1), Step(3), Step(4), Step(5)}]
         [] b = "edit" -> [outbox |-> {Step(1)},
                           replica |-> {Step(1), [version |-> 3, sum |-> 1]}]]

\* "strict" asks of the rows something the owner has to repair first.
MCFailingChecks == {<<"strict", "replica", 5>>}

\* "refuse" from the first build that ships with a journal an owner relies on.
MCPreJournalStores == [b \in MCBuilds |-> IF b = "insert" THEN "refuse" ELSE "rebuild"]

New == [outbox |-> Fresh, replica |-> Fresh]
\* What a build from before the journal left: one version, every step in it.
Old(d) == [Fresh EXCEPT !.version = 1, !.ran = [t \in Steps |-> IF t = Step(1) THEN 1 ELSE 0],
                        !.data = d]
PreJournalPair == [outbox |-> Old("queued"), replica |-> Old("applied")]
\* The owner deleted the files the first refusal named and not the others.
HalfPair == [outbox |-> Fresh, replica |-> Old("applied")]
MCFirstFiles == {New, PreJournalPair, HalfPair}
MCFirstCopies == {[outbox |-> NoCopy, replica |-> NoCopy]}
=============================================================================
