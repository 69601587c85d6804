--------------------------- MODULE JournalReader ---------------------------
(***************************************************************************)
(* conversation/journal.py, _load_events(): a reader of the event store    *)
(* that takes no lock and no transaction across its reads.  It reads the   *)
(* lead's head, its rows and its head again, each as the database is at    *)
(* that time; appends, erasures and purges of EventStore come in between.  *)
(* Every replay, recall, history and commit begins with it.                *)
(*                                                                         *)
(* Left out: the payloads, whose decoding follows, and the deadline of a   *)
(* history read, which may end it at any of these steps with a refusal.    *)
(***************************************************************************)
EXTENDS EventStore

CONSTANTS ConversationType,  \* CONVERSATION_AGGREGATE_TYPE
          Limit,             \* max_events
          LoadAttempts       \* load_attempts

ASSUME ReaderAssumption ==
  ConversationType \in Types /\ Limit \in Nat \ {0} /\ LoadAttempts \in Nat \ {0}

VARIABLE load   \* one call of _load_events(), running or answered

\* AggregateStatus; without a row its type is NoType
StatusOf(l) == [type |-> aggType[l], version |-> version[l], privacy |-> privacy[l]]

Loading == {"starting", "reading", "confirming"}
NoLoad == [stage |-> "idle"]

Ends(result) == load' = [stage |-> result]

LoadBegins(l) ==
  /\ load.stage \notin Loading
  /\ load' = [stage |-> "starting", lead |-> l, attempt |-> 1]
  /\ UNCHANGED vars

\* status_before, and the refusal of a stream known to be too long
ReadStatus ==
  /\ load.stage = "starting"
  /\ IF version[load.lead] > Limit THEN Ends("over")
     ELSE load' = [stage |-> "reading", lead |-> load.lead, attempt |-> load.attempt,
                   before |-> StatusOf(load.lead)]
  /\ UNCHANGED vars

\* read(limit = limit + 1), in the order of the versions
FirstRows(l) ==
  {e \in events[l] : Cardinality({f \in events[l] : f.version < e.version}) =< Limit}

ReadRows ==
  /\ load.stage = "reading"
  /\ load' = [stage |-> "confirming", lead |-> load.lead, attempt |-> load.attempt,
              before |-> load.before, rows |-> FirstRows(load.lead)]
  /\ UNCHANGED vars

\* mutant: the head is not read again
ConfirmedOnce == TRUE
Confirmed == /\ StatusOf(load.lead) = load.before
             /\ load.before.type = NoType => load.rows = {}

Contiguous(rows) == {e.version : e \in rows} = 1..Cardinality(rows)

Verdict ==
  LET status == load.before
      count == Cardinality(load.rows)
      exists == status.type # NoType
  IN  IF exists /\ status.type # ConversationType THEN "foreign"
      ELSE IF exists /\ status.privacy # "active" THEN "unavailable"
      ELSE IF exists /\ status.version # count THEN "unavailable"
      ELSE IF count > Limit THEN "over"
      ELSE IF ~Contiguous(load.rows) THEN "corrupt"
      ELSE "loaded"

\* status_after: a stream that changed is read anew, a few times.
ReadStatusAgain ==
  /\ load.stage = "confirming"
  /\ IF Confirmed
     THEN IF Verdict = "loaded" THEN load' = [load EXCEPT !.stage = "loaded"] ELSE Ends(Verdict)
     ELSE IF load.attempt < LoadAttempts
     THEN load' = [stage |-> "starting", lead |-> load.lead, attempt |-> load.attempt + 1]
     ELSE Ends("conflict")
  /\ UNCHANGED vars

LoadStep == (\E l \in Leads : LoadBegins(l)) \/ ReadStatus \/ ReadRows \/ ReadStatusAgain

ReaderInit == Init /\ load = NoLoad
ReaderNext == (Next /\ UNCHANGED load) \/ LoadStep
ReaderSpec == ReaderInit /\ [][ReaderNext]_<<vars, load>>
-----------------------------------------------------------------------------
(***************************************************************************)
(* "A history over its bound is a refusal, never a truncated view"         *)
(* (journal.py:722), and neither is one that a purge, an erasure or an     *)
(* append overtook: what a load returns is every event up to the head, and *)
(* readable.  Nor do any of them make it cry corruption of a conversation, *)
(* which is for a database that is corrupt, and for a stream of some other *)
(* type ("foreign"), which no overtaking makes of one.                     *)
(***************************************************************************)
LoadsWhole ==
  /\ load.stage # "corrupt"
  /\ load.stage = "loaded" =>
       /\ {e.version : e \in load.rows} = 1..load.before.version
       /\ \A e \in load.rows : e.content = "payload"
=============================================================================
