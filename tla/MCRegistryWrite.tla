-------------------------- MODULE MCRegistryWrite --------------------------
(***************************************************************************)
(* Small instances of RegistryWrite: two entries, two spellings of one     *)
(* counterparty and a second counterparty.                                 *)
(***************************************************************************)
EXTENDS RegistryWrite

MCEntries == {"e1", "e2"}
MCPayloads == {"marek", "MAREK", "ola"}
MCNames == {"marek", "ola"}
MCFold == [p \in MCPayloads |-> IF p = "ola" THEN "ola" ELSE "marek"]

By(who, e, p) == [entry |-> e, payload |-> p, actor |-> who]

\* An entry and its retries, the same id on another request, the other entry,
\* two interactive calls, and an agent's.
MCRequests ==
    {By("user", "e1", "marek"), By("user", "e1", "ola"), By("user", "e2", "MAREK"),
     By("user", NoEntry, "ola"), By("user", NoEntry, "marek"),
     By("agent", NoEntry, "marek")}
=============================================================================
