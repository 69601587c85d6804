----------------------------- MODULE LeadLedger -----------------------------
(***************************************************************************)
(* What storage/repository.py promises about one aggregate ("lead" in the  *)
(* conversation journal), with no transactions, no optimistic reads and no *)
(* rows: a lead is a numbered ledger.  A version is first free, then kept  *)
(* with its content, and from there its content only ever decays.  A lead  *)
(* is open until it is anonymised or erased, and never opens again.        *)
(*                                                                         *)
(* EventStore implements this ledger (EventStoreProofs!ImplementsLedger).  *)
(***************************************************************************)
EXTENDS Naturals

CONSTANTS Leads,        \* aggregates
          MaxVersion    \* bound: versions a lead may use up

VARIABLES state,        \* "open", "anonymized" or "erased"
          length,       \* versions handed out so far
          entries       \* what is left of each version

ledger == <<state, length, entries>>

States == {"open", "anonymized", "erased"}
Contents == {"free", "kept", "anonymized", "gone"}
Versions == 1..MaxVersion

LedgerTypeOK ==
  /\ state \in [Leads -> States]
  /\ length \in [Leads -> 0..MaxVersion]
  /\ entries \in [Leads -> [Versions -> Contents]]

Init ==
  /\ state = [l \in Leads |-> "open"]
  /\ length = [l \in Leads |-> 0]
  /\ entries = [l \in Leads |-> [v \in Versions |-> "free"]]

\* One append takes the next free version of an open lead.
Commit(l) ==
  /\ state[l] = "open"
  /\ length[l] < MaxVersion
  /\ length' = [length EXCEPT ![l] = @ + 1]
  /\ entries' = [entries EXCEPT ![l] =
                   [v \in Versions |-> IF v = length[l] + 1 THEN "kept"
                                                             ELSE entries[l][v]]]
  /\ UNCHANGED state

\* The content of every version goes, its place in the order stays.
Anonymize(l) ==
  /\ state[l] = "open"
  /\ length[l] > 0
  /\ state' = [state EXCEPT ![l] = "anonymized"]
  /\ entries' = [entries EXCEPT ![l] =
                   [v \in Versions |-> IF entries[l][v] = "kept" THEN "anonymized"
                                                                  ELSE entries[l][v]]]
  /\ UNCHANGED length

\* Every version goes, whatever was left of it.
Erase(l) ==
  /\ state[l] # "erased"
  /\ length[l] > 0
  /\ state' = [state EXCEPT ![l] = "erased"]
  /\ entries' = [entries EXCEPT ![l] =
                   [v \in Versions |-> IF entries[l][v] = "free" THEN "free"
                                                                  ELSE "gone"]]
  /\ UNCHANGED length

\* Retention removes some versions that are in use; no lead is reopened,
\* closed or renumbered by it.
Expire(expired) ==
  /\ entries' = [l \in Leads |->
                   [v \in Versions |->
                      IF <<l, v>> \in expired /\ entries[l][v] # "free"
                      THEN "gone" ELSE entries[l][v]]]
  /\ UNCHANGED <<state, length>>

Next ==
  \/ \E l \in Leads : Commit(l) \/ Anonymize(l) \/ Erase(l)
  \/ \E expired \in SUBSET (Leads \X Versions) : Expire(expired)

Spec == Init /\ [][Next]_ledger
=============================================================================
