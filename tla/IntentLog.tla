------------------------------ MODULE IntentLog -----------------------------
(***************************************************************************)
(* What the phone's write path promises about one thing a person did: once *)
(* its intent is queued it waits until it takes effect or is refused,      *)
(* exactly one of the two and once; nothing but the server taking it, or   *)
(* the person erasing the ledger, ends that.                               *)
(***************************************************************************)
CONSTANTS EntryIds
VARIABLE log

Statuses == {"unknown", "waiting", "effective", "refused", "gone"}

Init == log = [e \in EntryIds |-> "unknown"]

Becomes(e, from, to) ==
  /\ log[e] = from
  /\ log' = [log EXCEPT ![e] = to]

Intend(e)  == Becomes(e, "unknown", "waiting")
Land(e)    == Becomes(e, "waiting", "effective")
Refuse(e)  == Becomes(e, "waiting", "refused")

\* The server has acknowledged the entry.
HandOver(e) == \E s \in Statuses \ {"unknown", "gone"} : Becomes(e, s, "gone")

\* Erasing takes the tables first, so what had taken effect waits again ...
EraseTables ==
  log' = [e \in EntryIds |-> IF log[e] = "effective" THEN "waiting" ELSE log[e]]

\* ... and then the queue.
EraseQueue ==
  log' = [e \in EntryIds |-> IF log[e] = "unknown" THEN "unknown" ELSE "gone"]

Next ==
  \/ \E e \in EntryIds : Intend(e) \/ Land(e) \/ Refuse(e) \/ HandOver(e)
  \/ EraseTables
  \/ EraseQueue

Spec == Init /\ [][Next]_log
=============================================================================
