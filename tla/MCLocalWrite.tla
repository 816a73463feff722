---------------------------- MODULE MCLocalWrite ----------------------------
(***************************************************************************)
(* Small instances of LocalWrite.  The operations are five of the phone's  *)
(* registry, one of each class: a plain create, a create that needs a rate,*)
(* the rate, an edit, and what an old create is upcast to.                 *)
(***************************************************************************)
EXTENDS LocalWrite, TLC

MCOperations == {"create_transaction", "set_manual_rate",
                 "update_transaction", "settle_debt"}
MCEditOps   == {"update_transaction"}
MCPricedOps == {"create_transaction"}
MCRateOps   == {"set_manual_rate"}

AtVersion(v) == [o \in MCOperations |-> v]

\* One build, with every executor.
OneBuild == {"current"}
OneBuildRegistry == [b \in OneBuild |-> AtVersion(1)]

\* An update that upcasts an old create_transaction.
TwoBuilds == {"old", "new"}
UpgradeRegistry ==
  [b \in TwoBuilds |->
     IF b = "old" THEN AtVersion(1)
     ELSE [AtVersion(1) EXCEPT !["create_transaction"] = 2]]

\* An older build without settle_debt may be installed over the files.
DowngradeRegistry ==
  [b \in TwoBuilds |->
     IF b = "old" THEN [AtVersion(1) EXCEPT !["settle_debt"] = 0]
     ELSE AtVersion(1)]

NoUpcasts == [o \in MCOperations |-> {}]
RepaymentUpcast ==
  [NoUpcasts EXCEPT !["create_transaction"] = {"create_transaction", "settle_debt"}]

AllPhases == Phases
NotWhileClearing == Phases \ {"clearing"}

Symmetry == Permutations(EntryIds)
=============================================================================
