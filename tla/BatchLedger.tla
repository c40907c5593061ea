---------------------------- MODULE BatchLedger ----------------------------
(***************************************************************************)
(* What the log pipeline promises its users, without queues, processors or *)
(* failures: every message that enters the stream is attempted a bounded   *)
(* number of times and is closed only when its batch is safe, in the log   *)
(* store or in quarantine.  The one way out is to abandon the message      *)
(* after the last attempt.  LogPipeline implements this specification.     *)
(***************************************************************************)
EXTENDS Naturals

CONSTANTS Batches, MaxDeliver, MaxCopies

VARIABLES
    entry,        \* "absent", "open", "closed" or "abandoned", per message
    attempts,     \* how often the message was handed to a processor
    stored,       \* the batches in the log store
    quarantined   \* the batches in the dead-letter queue

ledgerVars == <<entry, attempts, stored, quarantined>>

Entries == Batches \X (1..MaxCopies)

Init ==
    /\ entry = [m \in Entries |-> "absent"]
    /\ attempts = [m \in Entries |-> 0]
    /\ stored = {}
    /\ quarantined = {}

Entered(b) == \E c \in 1..MaxCopies : entry[<<b, c>>] # "absent"

Enter(m) ==
    /\ entry[m] = "absent"
    /\ entry' = [entry EXCEPT ![m] = "open"]
    /\ UNCHANGED <<attempts, stored, quarantined>>

Attempt(m) ==
    /\ entry[m] = "open"
    /\ attempts[m] < MaxDeliver
    /\ attempts' = [attempts EXCEPT ![m] = @ + 1]
    /\ UNCHANGED <<entry, stored, quarantined>>

Store(b) ==
    /\ Entered(b)
    /\ stored' = stored \cup {b}
    /\ UNCHANGED <<entry, attempts, quarantined>>

Quarantine(b) ==
    /\ Entered(b)
    /\ quarantined' = quarantined \cup {b}
    /\ UNCHANGED <<entry, attempts, stored>>

\* A late answer may still close an abandoned message.
Close(m) ==
    /\ entry[m] \in {"open", "abandoned"}
    /\ m[1] \in stored \cup quarantined
    /\ entry' = [entry EXCEPT ![m] = "closed"]
    /\ UNCHANGED <<attempts, stored, quarantined>>

Abandon(m) ==
    /\ entry[m] = "open"
    /\ attempts[m] = MaxDeliver
    /\ entry' = [entry EXCEPT ![m] = "abandoned"]
    /\ UNCHANGED <<attempts, stored, quarantined>>

Next ==
    \/ \E m \in Entries : Enter(m) \/ Attempt(m) \/ Close(m) \/ Abandon(m)
    \/ \E b \in Batches : Store(b) \/ Quarantine(b)

\* An open message is not left alone.
Progress(m) == entry[m] = "open" /\ (Attempt(m) \/ Close(m) \/ Abandon(m))

Safety == Init /\ [][Next]_ledgerVars
Spec == Safety /\ \A m \in Entries : WF_ledgerVars(Progress(m))
=============================================================================
