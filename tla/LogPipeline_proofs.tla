------------------------- MODULE LogPipeline_proofs -------------------------
(***************************************************************************)
(* Proofs about LogPipeline, for any batches, any number of processors and *)
(* any MaxDeliver.                                                         *)
(***************************************************************************)
EXTENDS LogPipeline, TLAPS

(* A processor that handles a message has one: it was stored, and the      *)
(* count it carries is that of a delivery that happened.                   *)
HandlingOK ==
    \A p \in Processors : pc[p] \notin Idle =>
        /\ held[p] \in Msgs
        /\ mstate[held[p]] # "none"
        /\ count[p] <= delivered[held[p]]
        /\ pc[p] \in {"dlq", "term"} => reason[p] \in Reasons

(* A message on offer has a delivery left; one not stored has none. *)
ReadyOK ==
    \A m \in Msgs : /\ mstate[m] = "ready" => delivered[m] < MaxDeliver
                    /\ mstate[m] = "none" => delivered[m] = 0

Handling == TypeOK /\ HandlingOK /\ ReadyOK

LEMMA MsgFacts ==
    /\ NoMsg \in Msgs \cup {NoMsg}
    /\ \A m \in Msgs : BatchOf(m) \in Batches
    /\ \A b \in Batches, c \in 1..MaxCopies : <<b, c>> \in Msgs /\ BatchOf(<<b, c>>) = b
BY DEF Msgs, BatchOf, NoMsg

\* Storing a batch makes one new message of it ready.
LEMMA StoreFacts ==
    ASSUME NEW b \in Batches, Store(b)
    PROVE  \E m \in Msgs : /\ BatchOf(m) = b
                           /\ mstate[m] = "none"
                           /\ mstate' = [mstate EXCEPT ![m] = "ready"]
BY MsgFacts DEF Store

\* Whatever a processor leaves behind is well typed.
LEMMA LeaveType ==
    ASSUME TypeOK, NEW p \in Processors, NEW next \in Steps, Leave(p, next)
    PROVE  /\ pc' \in [Processors -> Steps]
           /\ held' \in [Processors -> Msgs \cup {NoMsg}]
           /\ count' \in [Processors -> 0..MaxDeliver]
           /\ reason' \in [Processors -> Reasons \cup {"none"}]
BY PipelineAssumption DEF TypeOK, Leave

LEMMA HandlingInit == Init => Handling
BY PipelineAssumption, MsgFacts
   DEF Init, Handling, TypeOK, HandlingOK, ReadyOK, Steps, Idle, Reasons

LEMMA HandlingNext == Handling /\ [Next]_vars => Handling'
<1> SUFFICES ASSUME Handling, [Next]_vars PROVE Handling'
    OBVIOUS
<1> USE PipelineAssumption, MsgFacts DEF Handling, TypeOK, HandlingOK, ReadyOK, Idle, history
<1>1. ASSUME NEW b \in Batches, Store(b),
             UNCHANGED <<delivered, dlq, storeVars, procVars, history>>,
             accepted' \in {accepted, accepted \cup {b}}
      PROVE Handling'
    <2> PICK m \in Msgs : /\ mstate[m] = "none"
                         /\ mstate' = [mstate EXCEPT ![m] = "ready"]
        BY <1>1, StoreFacts
    <2>1. TypeOK'
        BY <1>1 DEF Store, storeVars, procVars
    <2>2. HandlingOK'
        BY <1>1 DEF procVars
    <2>3. ReadyOK'
        BY <1>1
    <2> QED
        BY <2>1, <2>2, <2>3
<1>2. ASSUME NEW b \in Batches, PublishDuplicate(b) PROVE Handling'
    BY <1>2 DEF PublishDuplicate, streamVars, storeVars, procVars
<1>3. ASSUME NEW b \in Batches, ForgetMsgId(b) PROVE Handling'
    BY <1>3 DEF ForgetMsgId, storeVars, procVars
<1>4. ASSUME NEW b \in Batches, LateInsertEnds(b) PROVE Handling'
    BY <1>4 DEF LateInsertEnds, streamVars, procVars
<1>5. ASSUME NEW m \in Msgs, AckWaitExpires(m) PROVE Handling'
    BY <1>5 DEF AckWaitExpires, Requeue, storeVars, procVars
<1>6. ASSUME NEW p \in Processors, NEW m \in Msgs, Fetch(p, m) PROVE Handling'
    BY <1>6 DEF Fetch, storeVars, Steps
<1>7. ASSUME NEW p \in Processors, Decode(p) PROVE Handling'
    BY <1>7 DEF Decode, Defect, Quarantine, Goto, streamVars, storeVars, Steps, Reasons
<1>8. ASSUME NEW p \in Processors, CheckProcessed(p) PROVE Handling'
    BY <1>8 DEF CheckProcessed, Fail, Quarantine, Goto, streamVars, storeVars, Steps, Reasons
<1>9. ASSUME NEW p \in Processors, LoadRules(p) PROVE Handling'
    BY <1>9 DEF LoadRules, Fail, Quarantine, Goto, streamVars, storeVars, Steps, Reasons
<1>10. ASSUME NEW p \in Processors, WriteBatch(p) PROVE Handling'
    <2> held[p] \in Msgs /\ pc[p] \notin Idle /\ BatchOf(held[p]) \in Batches
        BY <1>10 DEF WriteBatch
    <2>1. /\ rows' \in [Batches -> Nat] /\ late' \in [Batches -> Nat]
          /\ abandoned' \subseteq Batches
        BY <1>10 DEF WriteBatch, LeaveInsert
    <2>2. CASE Goto(p, "sync")
        BY <1>10, <2>1, <2>2 DEF WriteBatch, Goto, streamVars, Steps
    <2>3. CASE WriteError(p)
        BY <1>10, <2>1, <2>3 DEF WriteBatch, WriteError, Fail, Quarantine, Goto, streamVars, Steps, Reasons
    <2> QED
        BY <1>10, <2>2, <2>3 DEF WriteBatch
<1>11. ASSUME NEW p \in Processors, SyncState(p) PROVE Handling'
    BY <1>11 DEF SyncState, Fail, Quarantine, Goto, streamVars, storeVars, Steps, Reasons
<1>12. ASSUME NEW p \in Processors, Ack(p) PROVE Handling'
    <2> held[p] \in Msgs /\ pc[p] \notin Idle
        BY <1>12 DEF Ack
    <2>1. TypeOK'
        <3>1. mstate' \in [Msgs -> {"none", "ready", "pending", "acked", "termed", "exhausted"}]
            BY <1>12 DEF Ack, Settle
        <3>2. PICK next \in Steps : Leave(p, next)
            BY <1>12 DEF Ack, Steps
        <3> QED
            BY <1>12, <3>1, <3>2, LeaveType DEF Ack, storeVars
    <2>2. HandlingOK'
        BY <1>12 DEF Ack, Settle, Leave, storeVars
    <2>3. ReadyOK'
        BY <1>12 DEF Ack, Settle, Leave
    <2> QED
        BY <2>1, <2>2, <2>3
<1>13. ASSUME NEW p \in Processors, Nak(p) PROVE Handling'
    <2> held[p] \in Msgs /\ pc[p] \notin Idle
        BY <1>13 DEF Nak
    <2>1. TypeOK'
        <3>1. mstate' \in [Msgs -> {"none", "ready", "pending", "acked", "termed", "exhausted"}]
            BY <1>13 DEF Nak, Requeue
        <3>2. PICK next \in Steps : Leave(p, next)
            BY <1>13 DEF Nak, Steps
        <3> QED
            BY <1>13, <3>1, <3>2, LeaveType DEF Nak, storeVars
    <2>2. HandlingOK'
        BY <1>13 DEF Nak, Requeue, Leave, storeVars
    <2>3. ReadyOK'
        BY <1>13 DEF Nak, Requeue, Leave
    <2> QED
        BY <2>1, <2>2, <2>3
<1>14. ASSUME NEW p \in Processors, PublishDLQ(p) PROVE Handling'
    <2> held[p] \in Msgs /\ pc[p] \notin Idle
        BY <1>14 DEF PublishDLQ
    <2>1. TypeOK'
        <3>0. dlq' \subseteq Batches \X Reasons
            BY <1>14 DEF PublishDLQ
        <3>1. CASE Leave(p, "down")
            BY <1>14, <3>0, <3>1, LeaveType DEF PublishDLQ, storeVars, Steps
        <3>2. CASE pc' = [pc EXCEPT ![p] = "term"] /\ UNCHANGED <<held, count, reason>>
            BY <1>14, <3>0, <3>2 DEF PublishDLQ, storeVars, Steps
        <3> QED
            BY <1>14, <3>1, <3>2 DEF PublishDLQ
    <2>2. HandlingOK'
        BY <1>14 DEF PublishDLQ, Leave, storeVars
    <2>3. ReadyOK'
        BY <1>14 DEF PublishDLQ, Leave
    <2> QED
        BY <2>1, <2>2, <2>3
<1>15. ASSUME NEW p \in Processors, Term(p) PROVE Handling'
    <2> held[p] \in Msgs /\ pc[p] \notin Idle
        BY <1>15 DEF Term
    <2>1. TypeOK'
        <3>1. mstate' \in [Msgs -> {"none", "ready", "pending", "acked", "termed", "exhausted"}]
            BY <1>15 DEF Term, Settle
        <3>2. PICK next \in Steps : Leave(p, next)
            BY <1>15 DEF Term, Steps
        <3> QED
            BY <1>15, <3>1, <3>2, LeaveType DEF Term, storeVars
    <2>2. HandlingOK'
        BY <1>15 DEF Term, Settle, Leave, storeVars
    <2>3. ReadyOK'
        BY <1>15 DEF Term, Settle, Leave
    <2> QED
        BY <2>1, <2>2, <2>3
<1>16. ASSUME NEW p \in Processors, Crash(p) PROVE Handling'
    <2> held[p] \in Msgs /\ pc[p] \notin Idle /\ BatchOf(held[p]) \in Batches
        BY <1>16 DEF Crash
    <2>1. late' \in [Batches -> Nat] /\ abandoned' \subseteq Batches
        BY <1>16 DEF Crash, LeaveInsert
    <2> QED
        BY <1>16, <2>1 DEF Crash, Leave, streamVars, storeVars, Steps
<1>17. ASSUME NEW p \in Processors, Restart(p) PROVE Handling'
    BY <1>17 DEF Restart, Leave, streamVars, storeVars, Steps
<1>18. CASE UNCHANGED vars
    BY <1>18 DEF vars
<1> QED
    BY <1>1, <1>2, <1>3, <1>4, <1>5, <1>6, <1>7, <1>8, <1>9, <1>10, <1>11, <1>12,
       <1>13, <1>14, <1>15, <1>16, <1>17, <1>18
       DEF Next, HandlerStep, PublishAcked, PublishReplyLost

\* Type correctness of every reachable state.
THEOREM TypeCorrect == Spec => []TypeOK
<1>1. Spec => []Handling
    BY HandlingInit, HandlingNext, PTL DEF Spec
<1> QED
    BY <1>1, PTL DEF Handling

-----------------------------------------------------------------------------
(* Rows, dead letters, deliveries and stored messages only ever grow. *)
Grows ==
    /\ \A b \in Batches : rows[b] > 0 => rows'[b] > 0
    /\ dlq \subseteq dlq'
    /\ \A m \in Msgs : delivered[m] <= delivered'[m]
    /\ \A m \in Msgs : mstate[m] # "none" => mstate'[m] # "none"

LEMMA NextGrows == Handling /\ [Next]_vars => Grows
<1> SUFFICES ASSUME Handling, [Next]_vars PROVE Grows
    OBVIOUS
<1> USE PipelineAssumption, MsgFacts DEF Handling, TypeOK, HandlingOK, Idle, Grows
<1>1. ASSUME NEW b \in Batches, Store(b), UNCHANGED <<delivered, dlq, storeVars, procVars>>
      PROVE Grows
    <2> PICK m \in Msgs : mstate' = [mstate EXCEPT ![m] = "ready"]
        BY <1>1, StoreFacts
    <2> QED
        BY <1>1 DEF storeVars
<1>2. ASSUME NEW b \in Batches,
             PublishDuplicate(b) \/ ForgetMsgId(b) \/ LateInsertEnds(b)
      PROVE Grows
    BY <1>2 DEF PublishDuplicate, ForgetMsgId, LateInsertEnds, streamVars, storeVars
<1>3. ASSUME NEW m \in Msgs, AckWaitExpires(m) PROVE Grows
    BY <1>3 DEF AckWaitExpires, Requeue, storeVars
<1>4. ASSUME NEW p \in Processors, NEW m \in Msgs, Fetch(p, m) PROVE Grows
    BY <1>4 DEF Fetch, storeVars
<1>5. ASSUME NEW p \in Processors,
             \/ Decode(p) \/ CheckProcessed(p) \/ LoadRules(p) \/ SyncState(p)
             \/ Crash(p) \/ Restart(p)
      PROVE Grows
    BY <1>5 DEF Decode, CheckProcessed, LoadRules, SyncState, Crash, Restart,
                streamVars, storeVars
<1>6. ASSUME NEW p \in Processors, WriteBatch(p) PROVE Grows
    BY <1>6 DEF WriteBatch, streamVars
<1>7. ASSUME NEW p \in Processors, Ack(p) PROVE Grows
    BY <1>7 DEF Ack, Settle, storeVars
<1>8. ASSUME NEW p \in Processors, Nak(p) PROVE Grows
    BY <1>8 DEF Nak, Requeue, storeVars
<1>9. ASSUME NEW p \in Processors, PublishDLQ(p) PROVE Grows
    BY <1>9 DEF PublishDLQ, storeVars
<1>10. ASSUME NEW p \in Processors, Term(p) PROVE Grows
    BY <1>10 DEF Term, Settle, storeVars
<1>11. CASE UNCHANGED vars
    BY <1>11 DEF vars
<1> QED
    BY <1>1, <1>2, <1>3, <1>4, <1>5, <1>6, <1>7, <1>8, <1>9, <1>10, <1>11
       DEF Next, HandlerStep, PublishAcked, PublishReplyLost

-----------------------------------------------------------------------------
(* What a processor knows at each step: why it may answer, and whom to     *)
(* blame.                                                                  *)

Screened == {"check", "rules", "write", "sync", "ack", "nak"}

Justified(b, why) ==
    /\ why = "malformed_payload" => b \in Malformed
    /\ why = "invalid_batch" => b \in Poison \ Malformed
    /\ why = "retry_exhausted" =>
          /\ b \notin Malformed \cup Poison
          /\ \E c \in 1..MaxCopies : delivered[<<b, c>>] = MaxDeliver

SafeToAck ==
    \A p \in Processors : pc[p] \in {"sync", "ack"} => Persisted(BatchOf(held[p]))
SafeToTerm ==
    \A p \in Processors : pc[p] = "term" => <<BatchOf(held[p]), reason[p]>> \in dlq
ScreenedOK ==
    \A p \in Processors : pc[p] \in Screened => BatchOf(held[p]) \notin Malformed \cup Poison
BlameOK ==
    \A p \in Processors : pc[p] = "dlq" => Justified(BatchOf(held[p]), reason[p])

\* The inductive invariant: the properties, and what the processors know.
Accounted ==
    /\ Handling
    /\ SafeToAck
    /\ SafeToTerm
    /\ ScreenedOK
    /\ BlameOK
    /\ SettledIsAccounted
    /\ QuarantineIsJustified
    /\ AlertsFollowRows
    /\ \A b \in accepted \cup recent : \E c \in 1..MaxCopies : mstate[<<b, c>>] # "none"

LEMMA AccountedInit == Init => Accounted
<1> SUFFICES ASSUME Init PROVE Accounted
    OBVIOUS
<1>1. Handling
    BY HandlingInit
<1> QED
    BY <1>1, MsgFacts
       DEF Init, Accounted, SafeToAck, SafeToTerm, ScreenedOK, Screened, BlameOK,
           SettledIsAccounted, QuarantineIsJustified, AlertsFollowRows

-----------------------------------------------------------------------------
(* The moves a processor can make, as far as its own state goes. *)

Stays(p) == pc'[p] = pc[p] /\ held'[p] = held[p] /\ reason'[p] = reason[p]
Starts(p) ==
    \/ pc'[p] \in {"fetch", "down"}
    \/ pc'[p] = "decode" /\ \E m \in Msgs : Fetch(p, m)
Moves(p) ==
    LET b == BatchOf(held[p]) IN
    /\ held'[p] = held[p]
    /\ pc[p] \notin Idle
    /\ \/ /\ pc[p] = "decode" /\ pc'[p] = "check"
          /\ b \notin Malformed \cup Poison
       \/ /\ pc[p] = "decode" /\ pc'[p] = "dlq"
          /\ \/ reason'[p] = "malformed_payload" /\ b \in Malformed
             \/ reason'[p] = "invalid_batch" /\ b \in Poison \ Malformed
       \/ pc[p] = "check" /\ pc'[p] = "ack" /\ rows[b] > 0
       \/ pc[p] = "check" /\ pc'[p] = "rules" /\ rows'[b] = 0
       \/ pc[p] = "rules" /\ pc'[p] = "write"
       \/ pc[p] = "write" /\ pc'[p] = "sync" /\ rows'[b] > 0
       \/ pc[p] = "sync" /\ pc'[p] = "ack"
       \/ pc[p] \in {"check", "rules", "write", "sync"} /\ pc'[p] = "nak"
       \/ /\ pc[p] \in {"check", "rules", "write", "sync"} /\ pc'[p] = "dlq"
          /\ reason'[p] = "retry_exhausted" /\ count[p] >= MaxDeliver
       \/ /\ pc[p] = "dlq" /\ pc'[p] = "term"
          /\ reason'[p] = reason[p] /\ <<b, reason[p]>> \in dlq'

LEMMA ProcessorMoves ==
    ASSUME Handling, [Next]_vars, NEW p \in Processors
    PROVE  Stays(p) \/ Starts(p) \/ Moves(p)
<1> USE PipelineAssumption, MsgFacts DEF Handling, TypeOK, HandlingOK, Idle
<1>1. CASE UNCHANGED procVars
    BY <1>1 DEF procVars, Stays
<1>2. ASSUME NEW q \in Processors, NEW next \in Steps, Leave(q, next), next \in Idle
      PROVE Stays(p) \/ Starts(p)
    BY <1>2 DEF Leave, Stays, Starts
<1>3. ASSUME NEW q \in Processors, NEW m \in Msgs, Fetch(q, m) PROVE Stays(p) \/ Starts(p)
    BY <1>3 DEF Fetch, Stays, Starts
<1>4. ASSUME NEW q \in Processors, p # q,
             Decode(q) \/ CheckProcessed(q) \/ LoadRules(q) \/ WriteBatch(q) \/ SyncState(q)
      PROVE Stays(p)
    BY <1>4 DEF Decode, CheckProcessed, LoadRules, WriteBatch, WriteError, SyncState,
                Fail, Quarantine, Goto, Stays
<1>5. ASSUME Decode(p) PROVE Moves(p)
    BY <1>5 DEF Decode, Defect, Quarantine, Goto, Moves
<1>6. ASSUME CheckProcessed(p) PROVE Moves(p)
    <2> held[p] \in Msgs /\ BatchOf(held[p]) \in Batches
        BY <1>6 DEF CheckProcessed
    <2> QED
        BY <1>6 DEF CheckProcessed, AlreadyProcessed, Fail, RetriesExhausted, Quarantine, Goto,
                    storeVars, Moves
<1>7. ASSUME LoadRules(p) PROVE Moves(p)
    BY <1>7 DEF LoadRules, Fail, RetriesExhausted, Quarantine, Goto, Moves
<1>8. ASSUME WriteBatch(p) PROVE Moves(p)
    <2> held[p] \in Msgs /\ BatchOf(held[p]) \in Batches
        BY <1>8 DEF WriteBatch
    <2> QED
        BY <1>8 DEF WriteBatch, WriteError, Fail, RetriesExhausted, Quarantine, Goto, Moves
<1>9. ASSUME SyncState(p) PROVE Moves(p)
    BY <1>9 DEF SyncState, Fail, RetriesExhausted, Quarantine, Goto, Moves
<1>10. ASSUME NEW q \in Processors, PublishDLQ(q) PROVE Stays(p) \/ Starts(p) \/ Moves(p)
    <2>1. CASE Leave(q, "down")
        BY <2>1, <1>2 DEF Steps
    <2>2. CASE ~Leave(q, "down")
        BY <1>10, <2>2 DEF PublishDLQ, Stays, Moves
    <2> QED
        BY <2>1, <2>2
<1>11. ASSUME NEW q \in Processors,
              Ack(q) \/ Nak(q) \/ Term(q) \/ Crash(q) \/ Restart(q)
       PROVE Stays(p) \/ Starts(p)
    BY <1>11, <1>2 DEF Ack, Nak, Term, Crash, Restart, Steps
<1> QED
    BY <1>1, <1>3, <1>4, <1>5, <1>6, <1>7, <1>8, <1>9, <1>10, <1>11
       DEF Next, HandlerStep, PublishAcked, PublishReplyLost, PublishDuplicate,
           ForgetMsgId, LateInsertEnds, AckWaitExpires, vars, procVars

(* A message is settled only by a processor that is about to answer for    *)
(* it, a dead letter comes only from one that is about to write it, and a  *)
(* batch is accepted or remembered only once a message of it is stored.    *)
Stored(b) == \E c \in 1..MaxCopies : mstate[<<b, c>>] # "none"
AnswersFollow ==
    /\ \A m \in Msgs : mstate'[m] = "acked" =>
          mstate[m] = "acked" \/ \E p \in Processors : pc[p] = "ack" /\ held[p] = m
    /\ \A m \in Msgs : mstate'[m] = "termed" =>
          mstate[m] = "termed" \/ \E p \in Processors : pc[p] = "term" /\ held[p] = m
    /\ \A e \in dlq' : e \in dlq \/ \E p \in Processors :
          pc[p] = "dlq" /\ e = <<BatchOf(held[p]), reason[p]>>
    /\ \A b \in Batches : syncs'[b] > 0 => syncs[b] > 0 \/ \E p \in Processors :
          pc[p] = "sync" /\ b = BatchOf(held[p])
    /\ \A b \in accepted' \cup recent' : b \in accepted \/ b \in recent \/ Stored(b)'

LEMMA NextAnswers ==
    ASSUME Handling, [Next]_vars
    PROVE  AnswersFollow
<1> USE PipelineAssumption, MsgFacts DEF Handling, TypeOK, HandlingOK, Idle, AnswersFollow
<1>1. ASSUME NEW b \in Batches, PublishAcked(b) \/ PublishReplyLost(b) PROVE AnswersFollow
    <2> PICK c \in 1..MaxCopies : mstate' = [mstate EXCEPT ![<<b, c>>] = "ready"]
        BY <1>1 DEF PublishAcked, PublishReplyLost, Store
    <2> <<b, c>> \in Msgs
        OBVIOUS
    <2>1. Stored(b)'
        BY DEF Stored
    <2> DEFINE m == <<b, c>>
    <2>2. mstate' = [mstate EXCEPT ![m] = "ready"] /\ m \in Msgs
        OBVIOUS
    <2> HIDE DEF m
    <2> QED
        BY <1>1, <2>1, <2>2 DEF PublishAcked, PublishReplyLost, Store, storeVars
<1>2. ASSUME NEW b \in Batches, PublishDuplicate(b) \/ ForgetMsgId(b) \/ LateInsertEnds(b)
      PROVE AnswersFollow
    BY <1>2 DEF PublishDuplicate, Remembered, ForgetMsgId, LateInsertEnds, streamVars, storeVars
<1>3. ASSUME NEW m \in Msgs, AckWaitExpires(m) PROVE AnswersFollow
    BY <1>3 DEF AckWaitExpires, Requeue, storeVars
<1>4. ASSUME NEW p \in Processors, NEW m \in Msgs, Fetch(p, m) PROVE AnswersFollow
    BY <1>4 DEF Fetch, storeVars
<1>5. ASSUME NEW p \in Processors,
             \/ Decode(p) \/ CheckProcessed(p) \/ LoadRules(p) \/ WriteBatch(p)
             \/ Crash(p) \/ Restart(p)
      PROVE AnswersFollow
    BY <1>5 DEF Decode, CheckProcessed, LoadRules, WriteBatch, Crash, Restart,
                streamVars, storeVars
<1>6. ASSUME NEW p \in Processors, SyncState(p) PROVE AnswersFollow
    <2> BatchOf(held[p]) \in Batches
        BY <1>6 DEF SyncState
    <2> QED
        BY <1>6 DEF SyncState, streamVars
<1>7. ASSUME NEW p \in Processors, Ack(p) PROVE AnswersFollow
    BY <1>7 DEF Ack, Settle, storeVars
<1>8. ASSUME NEW p \in Processors, Nak(p) PROVE AnswersFollow
    BY <1>8 DEF Nak, Requeue, storeVars
<1>9. ASSUME NEW p \in Processors, PublishDLQ(p) PROVE AnswersFollow
    BY <1>9 DEF PublishDLQ, storeVars
<1>10. ASSUME NEW p \in Processors, Term(p) PROVE AnswersFollow
    BY <1>10 DEF Term, Settle, storeVars
<1>11. CASE UNCHANGED vars
    BY <1>11 DEF vars
<1> QED
    BY <1>1, <1>2, <1>3, <1>4, <1>5, <1>6, <1>7, <1>8, <1>9, <1>10, <1>11
       DEF Next, HandlerStep

-----------------------------------------------------------------------------
LEMMA AccountedNext == Accounted /\ [Next]_vars => Accounted'
<1> SUFFICES ASSUME Accounted, [Next]_vars PROVE Accounted'
    OBVIOUS
<1>1. Handling /\ Handling'
    BY HandlingNext DEF Accounted
<1>2. Grows
    BY <1>1, NextGrows
<1>3. AnswersFollow
    BY <1>1, NextAnswers
<1>4. \A p \in Processors : pc[p] \notin Idle => held[p] \in Msgs /\ BatchOf(held[p]) \in Batches
    BY <1>1, MsgFacts DEF Handling, HandlingOK
<1>5. ASSUME NEW p \in Processors PROVE Stays(p) \/ Starts(p) \/ Moves(p)
    BY <1>1, ProcessorMoves
<1>6. SafeToAck'
    <2> SUFFICES ASSUME NEW p \in Processors, pc'[p] \in {"sync", "ack"}
                 PROVE  Persisted(BatchOf(held[p]))'
        BY DEF SafeToAck
    <2>1. CASE Stays(p)
        BY <2>1, <1>2, <1>4 DEF Stays, Accounted, SafeToAck, Persisted, Grows, Idle
    <2>2. CASE Moves(p)
        BY <2>2, <1>2, <1>4 DEF Moves, Accounted, SafeToAck, Persisted, Grows
    <2> QED
        BY <2>1, <2>2, <1>5 DEF Starts
<1>7. SafeToTerm'
    <2> SUFFICES ASSUME NEW p \in Processors, pc'[p] = "term"
                 PROVE  <<BatchOf(held[p]), reason[p]>>' \in dlq'
        BY DEF SafeToTerm
    <2>1. CASE Stays(p)
        BY <2>1, <1>2 DEF Stays, Accounted, SafeToTerm, Grows
    <2>2. CASE Moves(p)
        BY <2>2 DEF Moves
    <2> QED
        BY <2>1, <2>2, <1>5 DEF Starts
<1>8. ScreenedOK'
    <2> SUFFICES ASSUME NEW p \in Processors, pc'[p] \in Screened
                 PROVE  BatchOf(held[p])' \notin Malformed \cup Poison
        BY DEF ScreenedOK
    <2>1. CASE Stays(p)
        BY <2>1 DEF Stays, Accounted, ScreenedOK
    <2>2. CASE Moves(p)
        BY <2>2 DEF Moves, Accounted, ScreenedOK, Screened
    <2> QED
        BY <2>1, <2>2, <1>5 DEF Starts, Screened
<1>9. \A b \in Batches, why \in Reasons : Justified(b, why) => Justified(b, why)'
    <2> SUFFICES ASSUME NEW b \in Batches, NEW c \in 1..MaxCopies,
                        delivered[<<b, c>>] = MaxDeliver
                 PROVE  delivered'[<<b, c>>] = MaxDeliver
        BY DEF Justified
    <2> DEFINE m == <<b, c>>
    <2>1. m \in Msgs /\ delivered[m] = MaxDeliver
        BY MsgFacts
    <2> HIDE DEF m
    <2>2. delivered'[m] = MaxDeliver
        BY <2>1, <1>1, <1>2, PipelineAssumption DEF Grows, Handling, TypeOK
    <2> QED
        BY <2>2 DEF m
<1>10. BlameOK'
    <2> SUFFICES ASSUME NEW p \in Processors, pc'[p] = "dlq"
                 PROVE  Justified(BatchOf(held[p]), reason[p])'
        BY DEF BlameOK
    <2>1. CASE Stays(p)
        <3>1. BatchOf(held[p]) \in Batches /\ reason[p] \in Reasons
            BY <2>1, <1>1, <1>4 DEF Stays, Handling, HandlingOK, Idle
        <3>2. Justified(BatchOf(held[p]), reason[p])
            BY <2>1 DEF Stays, Accounted, BlameOK
        <3> QED
            BY <2>1, <3>1, <3>2, <1>9 DEF Stays
    <2>2. CASE Moves(p)
        <3>1. PICK b \in Batches, c \in 1..MaxCopies : held[p] = <<b, c>>
            BY <2>2, <1>4 DEF Moves, Msgs
        <3>2. CASE pc[p] = "decode"
            BY <2>2, <3>2 DEF Moves, Justified
        <3>3. CASE pc[p] # "decode"
            <4>1. /\ pc[p] \in Screened
                  /\ reason'[p] = "retry_exhausted"
                  /\ count[p] >= MaxDeliver
                  /\ held'[p] = held[p]
                BY <2>2, <3>3 DEF Moves, Screened
            <4>2. BatchOf(held[p]) = b /\ b \notin Malformed \cup Poison
                BY <4>1, <3>1, MsgFacts DEF Accounted, ScreenedOK
            <4>3. held[p] \in Msgs /\ count[p] <= delivered[held[p]]
                BY <2>2, <1>1 DEF Moves, Handling, HandlingOK
            <4>4. delivered[held[p]] = MaxDeliver
                BY <4>1, <4>3, <1>1, PipelineAssumption DEF Handling, TypeOK
            <4>5. Justified(b, "retry_exhausted")
                BY <4>2, <4>4, <3>1 DEF Justified
            <4> QED
                BY <4>1, <4>2, <4>5, <1>9 DEF Reasons
        <3> QED
            BY <3>2, <3>3
    <2> QED
        BY <2>1, <2>2, <1>5 DEF Starts
<1>11. SettledIsAccounted'
    <2> SUFFICES ASSUME NEW m \in Msgs
                 PROVE  /\ mstate'[m] = "acked" => Persisted(BatchOf(m))'
                        /\ mstate'[m] = "termed" => Quarantined(BatchOf(m))'
        BY DEF SettledIsAccounted
    <2>0. BatchOf(m) \in Batches
        BY MsgFacts
    <2>1. ASSUME mstate'[m] = "acked" PROVE Persisted(BatchOf(m))'
        BY <2>0, <2>1, <1>2, <1>3
           DEF AnswersFollow, Accounted, SafeToAck, SettledIsAccounted, Persisted, Grows
    <2>2. ASSUME mstate'[m] = "termed" PROVE Quarantined(BatchOf(m))'
        <3>1. CASE mstate[m] = "termed"
            BY <3>1, <1>2 DEF Accounted, SettledIsAccounted, Quarantined, Grows
        <3>2. ASSUME NEW p \in Processors, pc[p] = "term", held[p] = m
              PROVE Quarantined(BatchOf(m))'
            BY <3>2, <1>1, <1>2
               DEF Accounted, SafeToTerm, Quarantined, Grows, Handling, HandlingOK, Idle
        <3> QED
            BY <2>2, <3>1, <3>2, <1>3 DEF AnswersFollow
    <2> QED
        BY <2>1, <2>2
<1>12. QuarantineIsJustified'
    <2>1. ASSUME NEW b \in Batches, NEW why \in Reasons, <<b, why>> \in dlq'
          PROVE  Justified(b, why)'
        <3>1. CASE <<b, why>> \in dlq
            BY <3>1, <1>9 DEF Accounted, QuarantineIsJustified, Justified
        <3>2. ASSUME NEW p \in Processors, pc[p] = "dlq",
                     <<b, why>> = <<BatchOf(held[p]), reason[p]>>
              PROVE  Justified(b, why)'
            BY <3>2, <1>9 DEF Accounted, BlameOK
        <3> QED
            BY <2>1, <3>1, <3>2, <1>3 DEF AnswersFollow
    <2> QED
        BY <2>1 DEF QuarantineIsJustified, Justified, Reasons
<1>13. AlertsFollowRows'
    BY <1>2, <1>3
       DEF AnswersFollow, Accounted, AlertsFollowRows, SafeToAck, Persisted, Grows
<1>14. (\A b \in accepted \cup recent : Stored(b))'
    <2> SUFFICES ASSUME NEW b \in accepted' \cup recent' PROVE Stored(b)'
        OBVIOUS
    <2>1. CASE b \in accepted \cup recent
        <3>1. PICK c \in 1..MaxCopies : mstate[<<b, c>>] # "none"
            BY <2>1 DEF Accounted
        <3>2. <<b, c>> \in Msgs
            BY <2>1, <1>1, MsgFacts DEF Handling, TypeOK
        <3> QED
            BY <3>1, <3>2, <1>2 DEF Grows, Stored
    <2> QED
        BY <2>1, <1>3 DEF AnswersFollow
<1> QED
    BY <1>1, <1>6, <1>7, <1>8, <1>10, <1>11, <1>12, <1>13, <1>14 DEF Accounted, Stored

LEMMA AccountedAlways == Spec => []Accounted
BY AccountedInit, AccountedNext, PTL DEF Spec

\* An acknowledged batch is in ClickHouse and a terminated one in the
\* dead-letter queue, for any number of replicas, crashes and redeliveries.
THEOREM SettledSafe == Spec => []SettledIsAccounted
BY AccountedAlways, PTL DEF Accounted

\* A dead letter names its true cause.
THEOREM QuarantineSafe == Spec => []QuarantineIsJustified
BY AccountedAlways, PTL DEF Accounted

\* Alert state is reconciled only for batches that have rows.
THEOREM AlertsSafe == Spec => []AlertsFollowRows
BY AccountedAlways, PTL DEF Accounted

\* A batch answered 202 is in the stream.
THEOREM AcceptedSafe == Spec => []AcceptedIsStored
<1>1. Accounted => AcceptedIsStored
    BY DEF Accounted, AcceptedIsStored
<1> QED
    BY <1>1, AccountedAlways, PTL

-----------------------------------------------------------------------------
(* Two processors that hold the same batch make it an overlapped one, so   *)
(* nothing happens to any other batch between its replay check and its     *)
(* write, except that an abandoned INSERT may land.                        *)

LEMMA HistoryGrows ==
    ASSUME [Next]_vars
    PROVE  overlapped \subseteq overlapped' /\ abandoned \subseteq abandoned' /\ died \subseteq died'
BY DEF Next, HandlerStep, PublishAcked, PublishReplyLost, PublishDuplicate, ForgetMsgId,
       LateInsertEnds, AckWaitExpires, Fetch, Decode, CheckProcessed, LoadRules, WriteBatch,
       LeaveInsert, SyncState, Ack, Nak, PublishDLQ, Term, Crash, Restart, vars, history

ExclusiveOK ==
    \A p, q \in Processors :
        p # q /\ pc[p] \notin Idle /\ pc[q] \notin Idle /\ BatchOf(held[p]) = BatchOf(held[q])
            => BatchOf(held[p]) \in overlapped

LEMMA ExclusiveNext ==
    ASSUME Handling, ExclusiveOK, [Next]_vars
    PROVE  ExclusiveOK'
<1> SUFFICES ASSUME NEW p \in Processors, NEW q \in Processors, p # q,
                    pc'[p] \notin Idle, pc'[q] \notin Idle,
                    BatchOf(held[p])' = BatchOf(held[q])'
             PROVE  BatchOf(held[p])' \in overlapped'
    BY DEF ExclusiveOK
<1> DEFINE Keeps(r) == pc[r] \notin Idle /\ held'[r] = held[r]
<1>1. ASSUME NEW r \in Processors, pc'[r] \notin Idle
      PROVE  Keeps(r) \/ \E m \in Msgs : Fetch(r, m)
    BY <1>1, ProcessorMoves DEF Stays, Starts, Moves, Idle
<1>2. ASSUME NEW r \in Processors, NEW s \in Processors, NEW m \in Msgs, r # s,
             Fetch(r, m), Keeps(s), BatchOf(held[r])' = BatchOf(held[s])'
      PROVE  BatchOf(held[r])' \in overlapped'
    BY <1>2 DEF Fetch, Handles, Handling, TypeOK
<1>3. ASSUME NEW m \in Msgs, NEW n \in Msgs, Fetch(p, m), Fetch(q, n)
      PROVE  FALSE
    BY <1>3 DEF Fetch, Idle, Handling, TypeOK
<1>4. CASE Keeps(p) /\ Keeps(q)
    BY <1>4, HistoryGrows DEF ExclusiveOK
<1> QED
    BY <1>1, <1>2, <1>3, <1>4

UnsyncedOK ==
    \A p \in Processors :
        pc[p] \in {"rules", "write", "sync"} /\ BatchOf(held[p]) \notin overlapped
            => syncs[BatchOf(held[p])] = 0
UnwrittenOK ==
    \A p \in Processors :
        pc[p] \in {"rules", "write"} /\ BatchOf(held[p]) \notin overlapped \cup abandoned
            => rows[BatchOf(held[p])] = 0
LateIsAbandoned == \A b \in Batches \ abandoned : late[b] = 0

SyncedInv == Accounted /\ ExclusiveOK /\ UnsyncedOK /\ SyncedOnce
WrittenInv == Accounted /\ ExclusiveOK /\ LateIsAbandoned /\ UnwrittenOK /\ WrittenOnce

LEMMA SyncedNext ==
    ASSUME SyncedInv, [Next]_vars
    PROVE  SyncedInv'
<1>1. Accounted /\ Accounted'
    BY AccountedNext DEF SyncedInv
<1>2. Handling
    BY <1>1 DEF Accounted
<1>3. \A p \in Processors : pc[p] \notin Idle => BatchOf(held[p]) \in Batches
    BY <1>2, MsgFacts DEF Handling, HandlingOK
<1>4. ExclusiveOK'
    BY <1>2, ExclusiveNext DEF SyncedInv
<1>5. ASSUME NEW p \in Processors, SyncState(p)
      PROVE  UnsyncedOK' /\ SyncedOnce'
    <2> DEFINE b == BatchOf(held[p])
    <2>1. /\ b \in Batches /\ pc[p] \notin Idle
          /\ b \notin overlapped => syncs[b] = 0
          /\ \A d \in Batches : d # b => syncs'[d] = syncs[d]
          /\ syncs'[b] \in {syncs[b], syncs[b] + 1}
          /\ UNCHANGED <<held, overlapped>>
        BY <1>2, <1>3, <1>5 DEF SyncState, SyncedInv, UnsyncedOK, Idle, Handling, TypeOK, history
    <2>2. SyncedOnce'
        BY <1>2, <2>1 DEF SyncedInv, SyncedOnce, Handling, TypeOK
    <2>3. /\ pc'[p] \in {"ack", "nak", "dlq"}
          /\ \A q \in Processors : q # p => pc'[q] = pc[q]
        BY <1>2, <1>5 DEF SyncState, Fail, Goto, Quarantine, Handling, TypeOK
    <2>4. ASSUME NEW q \in Processors, pc'[q] \in {"rules", "write", "sync"},
                 BatchOf(held[q])' \notin overlapped'
          PROVE  syncs'[BatchOf(held[q])'] = 0
        <3>1. q # p /\ pc[q] \in {"rules", "write", "sync"} /\ BatchOf(held[q]) \in Batches
            BY <1>3, <2>1, <2>3, <2>4 DEF Idle
        <3>2. BatchOf(held[q]) # b
            BY <2>1, <2>4, <3>1 DEF SyncedInv, ExclusiveOK, Idle
        <3> QED
            BY <2>1, <2>4, <3>1, <3>2 DEF SyncedInv, UnsyncedOK
    <2> QED
        BY <2>2, <2>4 DEF UnsyncedOK
<1>6. ASSUME UNCHANGED syncs
      PROVE  UnsyncedOK' /\ SyncedOnce'
    <2>1. SyncedOnce'
        BY <1>6, HistoryGrows DEF SyncedInv, SyncedOnce
    <2>2. ASSUME NEW p \in Processors, pc'[p] \in {"rules", "write", "sync"},
                 BatchOf(held[p])' \notin overlapped'
          PROVE  syncs'[BatchOf(held[p])'] = 0
        <3>0. BatchOf(held[p])' \notin overlapped
            BY <2>2, HistoryGrows
        <3>1. CASE Stays(p)
            BY <1>6, <2>2, <3>0, <3>1 DEF Stays, SyncedInv, UnsyncedOK
        <3>2. CASE Moves(p) /\ pc[p] # "check"
            BY <1>6, <2>2, <3>0, <3>2 DEF Moves, SyncedInv, UnsyncedOK
        <3>3. CASE Moves(p) /\ pc[p] = "check"
            <4>1. rows'[BatchOf(held[p])] = 0 /\ BatchOf(held[p]) \in Batches /\ held'[p] = held[p]
                BY <1>3, <2>2, <3>3 DEF Moves, Idle
            <4> QED
                BY <1>1, <1>2, <1>6, <4>1
                   DEF Accounted, AlertsFollowRows, Persisted, Handling, TypeOK
        <3> QED
            BY <1>2, <2>2, <3>1, <3>2, <3>3, ProcessorMoves DEF Starts
    <2> QED
        BY <2>1, <2>2 DEF UnsyncedOK
<1>7. (\E p \in Processors : SyncState(p)) \/ UNCHANGED syncs
    BY DEF Next, HandlerStep, PublishAcked, PublishReplyLost, PublishDuplicate,
           ForgetMsgId, LateInsertEnds, AckWaitExpires, vars, storeVars, Fetch,
           Decode, CheckProcessed, LoadRules, WriteBatch, Ack, Nak, PublishDLQ, Term,
           Crash, Restart
<1> QED
    BY <1>1, <1>4, <1>5, <1>6, <1>7 DEF SyncedInv

LEMMA LateNext ==
    ASSUME Handling, LateIsAbandoned, [Next]_vars
    PROVE  LateIsAbandoned'
<1>1. CASE UNCHANGED late
    BY <1>1, HistoryGrows DEF LateIsAbandoned
<1>2. ASSUME NEW b \in Batches, LateInsertEnds(b) PROVE LateIsAbandoned'
    BY <1>2 DEF LateInsertEnds, LateIsAbandoned, Handling, TypeOK, history
<1>3. ASSUME NEW p \in Processors, WriteBatch(p) \/ Crash(p), ~UNCHANGED late
      PROVE  LateIsAbandoned'
    <2>1. LeaveInsert(BatchOf(held[p]))
        BY <1>3 DEF WriteBatch, Crash
    <2> QED
        BY <2>1 DEF LeaveInsert, LateIsAbandoned, Handling, TypeOK
<1> QED
    BY <1>1, <1>2, <1>3
       DEF Next, HandlerStep, PublishAcked, PublishReplyLost, PublishDuplicate,
           ForgetMsgId, AckWaitExpires, vars, storeVars, Fetch, Decode, CheckProcessed,
           LoadRules, SyncState, Ack, Nak, PublishDLQ, Term, Restart

LEMMA WrittenNext ==
    ASSUME WrittenInv, [Next]_vars
    PROVE  WrittenInv'
<1>1. Accounted /\ Accounted'
    BY AccountedNext DEF WrittenInv
<1>2. Handling
    BY <1>1 DEF Accounted
<1>3. \A p \in Processors : pc[p] \notin Idle => BatchOf(held[p]) \in Batches
    BY <1>2, MsgFacts DEF Handling, HandlingOK
<1>4. ExclusiveOK' /\ LateIsAbandoned'
    BY <1>2, ExclusiveNext, LateNext DEF WrittenInv
<1>5. ASSUME NEW p \in Processors, WriteBatch(p)
      PROVE  UnwrittenOK' /\ WrittenOnce'
    <2> DEFINE b == BatchOf(held[p])
    <2>1. /\ b \in Batches /\ pc[p] \notin Idle
          /\ b \notin overlapped \cup abandoned => rows[b] = 0
          /\ \A d \in Batches : d # b => rows'[d] = rows[d]
          /\ rows'[b] \in {rows[b], rows[b] + 1}
          /\ UNCHANGED <<held, overlapped>>
        BY <1>2, <1>3, <1>5 DEF WriteBatch, WrittenInv, UnwrittenOK, Idle, Handling, TypeOK
    <2>2. WrittenOnce'
        BY <1>2, <2>1, HistoryGrows DEF WrittenInv, WrittenOnce, Handling, TypeOK
    <2>3. /\ pc'[p] \in {"sync", "nak", "dlq"}
          /\ \A q \in Processors : q # p => pc'[q] = pc[q]
        BY <1>2, <1>5 DEF WriteBatch, WriteError, Fail, Goto, Quarantine, Handling, TypeOK
    <2>4. ASSUME NEW q \in Processors, pc'[q] \in {"rules", "write"},
                 BatchOf(held[q])' \notin overlapped' \cup abandoned'
          PROVE  rows'[BatchOf(held[q])'] = 0
        <3>1. q # p /\ pc[q] \in {"rules", "write"} /\ BatchOf(held[q]) \in Batches
            BY <1>3, <2>1, <2>3, <2>4 DEF Idle
        <3>2. BatchOf(held[q]) # b
            BY <2>1, <2>4, <3>1 DEF WrittenInv, ExclusiveOK, Idle
        <3>3. BatchOf(held[q]) \notin overlapped \cup abandoned
            BY <2>1, <2>4, HistoryGrows
        <3> QED
            BY <2>1, <3>1, <3>2, <3>3 DEF WrittenInv, UnwrittenOK
    <2> QED
        BY <2>2, <2>4 DEF UnwrittenOK
<1>6. ASSUME \A b \in Batches \ abandoned : rows'[b] = rows[b]
      PROVE  UnwrittenOK' /\ WrittenOnce'
    <2>1. WrittenOnce'
        BY <1>6, HistoryGrows DEF WrittenInv, WrittenOnce
    <2>2. ASSUME NEW p \in Processors, pc'[p] \in {"rules", "write"},
                 BatchOf(held[p])' \notin overlapped' \cup abandoned'
          PROVE  rows'[BatchOf(held[p])'] = 0
        <3>1. BatchOf(held[p])' \notin overlapped \cup abandoned
            BY <2>2, HistoryGrows
        <3>2. CASE Stays(p) \/ (Moves(p) /\ pc[p] # "check")
            <4>1. held'[p] = held[p] /\ pc[p] \in {"rules", "write"}
                BY <2>2, <3>2 DEF Stays, Moves
            <4>2. BatchOf(held[p]) \in Batches
                BY <1>3, <4>1 DEF Idle
            <4> QED
                BY <1>6, <3>1, <4>1, <4>2 DEF WrittenInv, UnwrittenOK
        <3>3. CASE Moves(p) /\ pc[p] = "check"
            BY <2>2, <3>3 DEF Moves
        <3> QED
            BY <1>2, <2>2, <3>2, <3>3, ProcessorMoves DEF Starts
    <2> QED
        BY <2>1, <2>2 DEF UnwrittenOK
<1>7. \/ \E p \in Processors : WriteBatch(p)
      \/ \A b \in Batches \ abandoned : rows'[b] = rows[b]
    <2>1. ASSUME NEW d \in Batches, LateInsertEnds(d)
          PROVE  \A b \in Batches \ abandoned : rows'[b] = rows[b]
        <3>1. d \in abandoned
            BY <2>1 DEF LateInsertEnds, WrittenInv, LateIsAbandoned
        <3> QED
            BY <1>2, <2>1, <3>1 DEF LateInsertEnds, Handling, TypeOK
    <2>2. (\E p \in Processors : WriteBatch(p)) \/ UNCHANGED rows
             \/ (\E d \in Batches : LateInsertEnds(d))
        BY DEF Next, HandlerStep, PublishAcked, PublishReplyLost, PublishDuplicate,
           ForgetMsgId, AckWaitExpires, vars, storeVars, Fetch, Decode, CheckProcessed,
           LoadRules, SyncState, Ack, Nak, PublishDLQ, Term, Crash, Restart
    <2> QED
        BY <2>1, <2>2
<1> QED
    BY <1>1, <1>4, <1>5, <1>6, <1>7 DEF WrittenInv

\* Redelivery and resubmission write the rows of a batch twice only if two
\* processors handled it at the same time or an INSERT of it was abandoned.
THEOREM WrittenOnceSafe == Spec => []WrittenOnce
<1>1. Init => WrittenInv
    BY AccountedInit DEF Init, WrittenInv, ExclusiveOK, LateIsAbandoned, UnwrittenOK,
                         WrittenOnce, Idle
<1>2. WrittenInv /\ [Next]_vars => WrittenInv'
    BY WrittenNext
<1>3. WrittenInv => WrittenOnce
    BY DEF WrittenInv
<1> QED
    BY <1>1, <1>2, <1>3, PTL DEF Spec

\* Alert state is reconciled twice for a batch only if two processors handled
\* it at the same time, even when inserts land late.
THEOREM SyncedOnceSafe == Spec => []SyncedOnce
<1>1. Init => SyncedInv
    BY AccountedInit DEF Init, SyncedInv, ExclusiveOK, UnsyncedOK, SyncedOnce, Idle
<1>2. SyncedInv /\ [Next]_vars => SyncedInv'
    BY SyncedNext
<1>3. SyncedInv => SyncedOnce
    BY DEF SyncedInv
<1> QED
    BY <1>1, <1>2, <1>3, PTL DEF Spec

-----------------------------------------------------------------------------
(* Whoever handles the last delivery of a message answers for it: it may   *)
(* not give the message back, so it lets go of it only once the batch is   *)
(* safe, or dies.                                                          *)

Safe(m) == Persisted(BatchOf(m)) \/ Quarantined(BatchOf(m)) \/ m \in died
LastHandler(p, m) == pc[p] \notin Idle /\ held[p] = m /\ count[p] = MaxDeliver

NakOK == \A p \in Processors : pc[p] = "nak" => count[p] < MaxDeliver
ExhaustedOK == \A m \in Msgs : mstate[m] = "exhausted" => delivered[m] = MaxDeliver
LastDeliveryOK ==
    \A m \in Msgs : delivered[m] = MaxDeliver =>
        Safe(m) \/ \E p \in Processors : LastHandler(p, m)
LossInv == Accounted /\ NakOK /\ ExhaustedOK /\ LastDeliveryOK

LEMMA NakNext ==
    ASSUME Handling, NakOK, [Next]_vars
    PROVE  NakOK'
<1> USE PipelineAssumption DEF Handling, TypeOK, NakOK
<1>1. CASE UNCHANGED procVars
    BY <1>1 DEF procVars
<1>2. ASSUME NEW p \in Processors, Leave(p, "fetch") \/ Leave(p, "down") PROVE NakOK'
    BY <1>2 DEF Leave
<1>3. ASSUME NEW p \in Processors, NEW m \in Msgs, Fetch(p, m) PROVE NakOK'
    BY <1>3 DEF Fetch
<1>4. ASSUME NEW p \in Processors, Decode(p) PROVE NakOK'
    BY <1>4 DEF Decode, Quarantine, Goto
<1>5. ASSUME NEW p \in Processors,
             CheckProcessed(p) \/ LoadRules(p) \/ WriteBatch(p) \/ SyncState(p)
      PROVE  NakOK'
    BY <1>5 DEF CheckProcessed, LoadRules, WriteBatch, WriteError, SyncState, Fail,
                RetriesExhausted, Quarantine, Goto
<1>6. ASSUME NEW p \in Processors, PublishDLQ(p), ~Leave(p, "down") PROVE NakOK'
    BY <1>6 DEF PublishDLQ
<1> QED
    BY <1>1, <1>2, <1>3, <1>4, <1>5, <1>6
       DEF Next, HandlerStep, PublishAcked, PublishReplyLost, PublishDuplicate, ForgetMsgId,
           LateInsertEnds, AckWaitExpires, Ack, Nak, Term, Crash, Restart, vars, procVars, Idle

LEMMA ExhaustedNext ==
    ASSUME Handling, ExhaustedOK, [Next]_vars
    PROVE  ExhaustedOK'
<1>1. Handling' /\ Grows
    BY HandlingNext, NextGrows
<1> SUFFICES ASSUME NEW m \in Msgs, mstate'[m] = "exhausted" PROVE delivered'[m] = MaxDeliver
    BY DEF ExhaustedOK
<1>2. mstate[m] = "exhausted" \/ delivered[m] >= MaxDeliver
    <2> USE DEF Handling, TypeOK
    <2>1. ASSUME NEW b \in Batches, Store(b) PROVE mstate[m] = "exhausted"
        BY <2>1, StoreFacts
    <2>2. ASSUME NEW n \in Msgs, AckWaitExpires(n)
          PROVE  mstate[m] = "exhausted" \/ delivered[m] >= MaxDeliver
        BY <2>2 DEF AckWaitExpires, Requeue
    <2>3. ASSUME NEW p \in Processors, NEW n \in Msgs, Fetch(p, n) PROVE mstate[m] = "exhausted"
        BY <2>3 DEF Fetch
    <2>4. ASSUME NEW p \in Processors, Ack(p) \/ Term(p) PROVE mstate[m] = "exhausted"
        BY <2>4 DEF Ack, Term, Settle
    <2>5. ASSUME NEW p \in Processors, Nak(p)
          PROVE  mstate[m] = "exhausted" \/ delivered[m] >= MaxDeliver
        BY <2>5 DEF Nak, Requeue
    <2>6. CASE UNCHANGED mstate
        BY <2>6
    <2> QED
        BY <2>1, <2>2, <2>3, <2>4, <2>5, <2>6
           DEF Next, HandlerStep, PublishAcked, PublishReplyLost, PublishDuplicate, ForgetMsgId,
               LateInsertEnds, Decode, CheckProcessed, LoadRules, WriteBatch, SyncState,
               PublishDLQ, Crash, Restart, vars, streamVars
<1> QED
    BY <1>1, <1>2, PipelineAssumption DEF ExhaustedOK, Handling, TypeOK, Grows

\* A processor keeps its message and its count, or lets go of the message.
LEMMA LetsGo ==
    ASSUME Handling, [Next]_vars, NEW p \in Processors, pc[p] \notin Idle
    PROVE  \/ pc'[p] \notin Idle /\ held'[p] = held[p] /\ count'[p] = count[p]
           \/ pc[p] \in {"ack", "nak", "term"}
           \/ held[p] \in died'
<1> USE DEF Handling, TypeOK, Idle
<1> DEFINE Kept == pc'[p] \notin Idle /\ held'[p] = held[p] /\ count'[p] = count[p]
<1>1. CASE UNCHANGED procVars
    BY <1>1 DEF procVars
<1>2. ASSUME NEW q \in Processors, NEW next \in Steps, Leave(q, next), q # p PROVE Kept
    BY <1>2 DEF Leave
<1>3. ASSUME NEW q \in Processors, NEW m \in Msgs, Fetch(q, m) PROVE Kept
    BY <1>3 DEF Fetch
<1>4. ASSUME NEW q \in Processors,
             \/ Decode(q) \/ CheckProcessed(q) \/ LoadRules(q)
             \/ WriteBatch(q) \/ SyncState(q)
      PROVE  Kept
    BY <1>4 DEF Decode, CheckProcessed, LoadRules, WriteBatch, WriteError, SyncState, Fail,
                Quarantine, Goto
<1>5. ASSUME NEW q \in Processors, PublishDLQ(q) PROVE Kept \/ held[p] \in died'
    BY <1>2, <1>5 DEF PublishDLQ, Steps
<1>6. ASSUME NEW q \in Processors, Crash(q) PROVE Kept \/ held[p] \in died'
    BY <1>2, <1>6 DEF Crash, Steps
<1>7. ASSUME NEW q \in Processors, Ack(q) \/ Nak(q) \/ Term(q) \/ Restart(q)
      PROVE  Kept \/ pc[p] \in {"ack", "nak", "term"}
    BY <1>2, <1>7 DEF Ack, Nak, Term, Restart, Steps
<1> HIDE DEF Kept
<1>8. Kept \/ pc[p] \in {"ack", "nak", "term"} \/ held[p] \in died'
    BY <1>1, <1>3, <1>4, <1>5, <1>6, <1>7
       DEF Next, HandlerStep, PublishAcked, PublishReplyLost, PublishDuplicate, ForgetMsgId,
           LateInsertEnds, AckWaitExpires, vars, procVars, Kept
<1> QED
    BY <1>8 DEF Kept

LEMMA LastDeliveryNext ==
    ASSUME LossInv, [Next]_vars
    PROVE  LastDeliveryOK'
<1>1. Accounted /\ Handling /\ Grows
    BY NextGrows DEF LossInv, Accounted
<1> SUFFICES ASSUME NEW m \in Msgs, delivered'[m] = MaxDeliver
             PROVE  Safe(m)' \/ \E p \in Processors : LastHandler(p, m)'
    BY DEF LastDeliveryOK
<1>2. BatchOf(m) \in Batches
    BY MsgFacts
<1>3. ASSUME Safe(m) PROVE Safe(m)'
    BY <1>1, <1>2, <1>3, HistoryGrows DEF Safe, Persisted, Quarantined, Grows
<1>4. ASSUME delivered[m] # MaxDeliver PROVE \E p \in Processors : LastHandler(p, m)'
    <2>1. UNCHANGED delivered \/ \E p \in Processors, n \in Msgs : Fetch(p, n)
        BY DEF Next, HandlerStep, PublishAcked, PublishReplyLost, PublishDuplicate, ForgetMsgId,
               LateInsertEnds, AckWaitExpires, Decode, CheckProcessed, LoadRules, WriteBatch,
               SyncState, Ack, Nak, PublishDLQ, Term, Crash, Restart, vars, streamVars
    <2>2. PICK p \in Processors, n \in Msgs : Fetch(p, n)
        BY <1>4, <2>1
    <2>3. n = m /\ LastHandler(p, m)'
        BY <1>1, <1>4, <2>2, PipelineAssumption DEF Fetch, LastHandler, Idle, Handling, TypeOK
    <2> QED
        BY <2>3
<1>5. ASSUME NEW p \in Processors, LastHandler(p, m)
      PROVE  Safe(m)' \/ LastHandler(p, m)'
    <2>1. CASE pc'[p] \notin Idle /\ held'[p] = held[p] /\ count'[p] = count[p]
        BY <1>5, <2>1 DEF LastHandler
    <2>2. CASE pc[p] = "ack"
        BY <1>1, <1>3, <1>5, <2>2 DEF LastHandler, Accounted, SafeToAck, Safe
    <2>3. CASE pc[p] = "nak"
        BY <1>5, <2>3, PipelineAssumption DEF LastHandler, LossInv, NakOK
    <2>4. CASE pc[p] = "term"
        <3>1. <<BatchOf(m), reason[p]>> \in dlq /\ reason[p] \in Reasons
            BY <1>1, <1>5, <2>4
               DEF LastHandler, Accounted, SafeToTerm, Handling, HandlingOK
        <3> QED
            BY <1>3, <3>1 DEF Safe, Quarantined
    <2>5. CASE held[p] \in died'
        BY <1>5, <2>5 DEF LastHandler, Safe
    <2> QED
        BY <1>1, <1>5, <2>1, <2>2, <2>3, <2>4, <2>5, LetsGo DEF LastHandler
<1> QED
    BY <1>3, <1>4, <1>5 DEF LossInv, LastDeliveryOK

\* A message that has used up its deliveries and is in nobody's hands is
\* written, dead-lettered, or one that a processor died on.
THEOREM LossNeedsDeathSafe == Spec => []LossNeedsDeath
<1>1. Init => LossInv
    BY AccountedInit, PipelineAssumption
       DEF Init, LossInv, NakOK, ExhaustedOK, LastDeliveryOK
<1>2. LossInv /\ [Next]_vars => LossInv'
    BY AccountedNext, NakNext, ExhaustedNext, LastDeliveryNext DEF LossInv, Accounted
<1>3. LossInv => LossNeedsDeath
    BY DEF LossInv, LossNeedsDeath, ExhaustedOK, LastDeliveryOK, LastHandler, Safe
<1> QED
    BY <1>1, <1>2, <1>3, PTL DEF Spec

-----------------------------------------------------------------------------
(* The pipeline implements the ledger.                                     *)

(* An INSERT in flight belongs to a batch that was stored in the stream. *)
LateIsStored == \A b \in Batches : late[b] > 0 => Stored(b)
LedgerInv == Accounted /\ LateIsStored

LEMMA HeldIsStored ==
    ASSUME Handling, NEW p \in Processors, pc[p] \notin Idle
    PROVE  /\ held[p] \in Msgs
           /\ BatchOf(held[p]) \in Batches
           /\ Stored(BatchOf(held[p]))
<1>1. held[p] \in Msgs /\ mstate[held[p]] # "none"
    BY DEF Handling, HandlingOK
<1>2. PICK b \in Batches, c \in 1..MaxCopies : held[p] = <<b, c>>
    BY <1>1 DEF Msgs
<1> QED
    BY <1>1, <1>2, MsgFacts DEF Stored

LEMMA LedgerInvNext == LedgerInv /\ [Next]_vars => LedgerInv'
<1> SUFFICES ASSUME LedgerInv, [Next]_vars PROVE LedgerInv'
    OBVIOUS
<1>1. Accounted /\ Accounted' /\ Handling
    BY AccountedNext DEF LedgerInv, Accounted
<1>2. Grows
    BY <1>1, NextGrows
<1>3. \A b \in Batches : Stored(b) => Stored(b)'
    BY <1>2, MsgFacts DEF Stored, Grows
<1>4. ASSUME NEW b \in Batches, late'[b] > 0 PROVE late[b] > 0 \/ Stored(b)
    <2>1. CASE UNCHANGED late
        BY <1>4, <2>1
    <2>2. ASSUME NEW d \in Batches, LateInsertEnds(d) PROVE late[b] > 0
        BY <1>1, <1>4, <2>2 DEF LateInsertEnds, Handling, TypeOK
    <2>3. ASSUME NEW p \in Processors, WriteBatch(p) \/ Crash(p) PROVE late[b] > 0 \/ Stored(b)
        <3>1. /\ BatchOf(held[p]) \in Batches
              /\ Stored(BatchOf(held[p]))
            BY <1>1, <2>3, HeldIsStored DEF WriteBatch, Crash, Idle
        <3> QED
            BY <1>1, <1>4, <2>3, <3>1 DEF WriteBatch, Crash, LeaveInsert, Handling, TypeOK
    <2> QED
        BY <2>1, <2>2, <2>3
           DEF Next, HandlerStep, PublishAcked, PublishReplyLost, PublishDuplicate,
           ForgetMsgId, AckWaitExpires, vars, storeVars, Fetch, Decode, CheckProcessed,
           LoadRules, SyncState, Ack, Nak, PublishDLQ, Term, Restart
<1> QED
    BY <1>1, <1>3, <1>4 DEF LedgerInv, LateIsStored

LEMMA LedgerEntries ==
    ASSUME Handling
    PROVE  /\ LedgerEntry \in [Msgs -> {"absent", "open", "closed", "abandoned"}]
           /\ \A m \in Msgs :
                 /\ LedgerEntry[m] = "absent" <=> mstate[m] = "none"
                 /\ LedgerEntry[m] = "open" <=> mstate[m] \in {"ready", "pending"}
                 /\ LedgerEntry[m] = "closed" <=> mstate[m] \in {"acked", "termed"}
                 /\ LedgerEntry[m] = "abandoned" <=> mstate[m] = "exhausted"
BY DEF LedgerEntry, Handling, TypeOK

LEMMA LedgerEntered ==
    ASSUME Handling, NEW b \in Batches, Stored(b)
    PROVE  Ledger!Entered(b)
BY LedgerEntries, MsgFacts DEF Stored, Ledger!Entered

\* A change of one message maps to a change of one entry.
LEMMA LedgerUpdate ==
    ASSUME Handling, Handling', NEW m \in Msgs, NEW st,
           mstate' = [mstate EXCEPT ![m] = st]
    PROVE  /\ LedgerEntry' = [LedgerEntry EXCEPT ![m] = LedgerEntry'[m]]
           /\ mstate'[m] = st
           /\ st = "none" => LedgerEntry'[m] = "absent"
           /\ st \in {"ready", "pending"} => LedgerEntry'[m] = "open"
           /\ st \in {"acked", "termed"} => LedgerEntry'[m] = "closed"
           /\ st = "exhausted" => LedgerEntry'[m] = "abandoned"
<1>1. /\ LedgerEntry' = [LedgerEntry EXCEPT ![m] = LedgerEntry'[m]]
      /\ mstate'[m] = st
    BY DEF LedgerEntry, Handling, TypeOK
<1>2. /\ st = "none" => LedgerEntry'[m] = "absent"
      /\ st \in {"ready", "pending"} => LedgerEntry'[m] = "open"
      /\ st \in {"acked", "termed"} => LedgerEntry'[m] = "closed"
      /\ st = "exhausted" => LedgerEntry'[m] = "abandoned"
    BY <1>1 DEF LedgerEntry
<1> QED
    BY <1>1, <1>2

LEMMA LedgerStep ==
    ASSUME LedgerInv, [Next]_vars
    PROVE  [Ledger!Next]_(Ledger!ledgerVars)
<1>1. Accounted /\ Handling /\ Handling' /\ LateIsStored
    BY HandlingNext DEF LedgerInv, Accounted
<1> DEFINE Same == UNCHANGED <<LedgerEntry, delivered, LedgerStored, LedgerQuarantined>>
           Goal == Ledger!Next \/ Same
<1>2. SUFFICES Goal
    BY DEF Ledger!ledgerVars
<1>3. ASSUME UNCHANGED rows PROVE UNCHANGED LedgerStored
    BY <1>3 DEF LedgerStored, Persisted
<1>4. ASSUME UNCHANGED dlq PROVE UNCHANGED LedgerQuarantined
    BY <1>4 DEF LedgerQuarantined, Quarantined
<1>5. ASSUME UNCHANGED mstate PROVE UNCHANGED LedgerEntry
    BY <1>5 DEF LedgerEntry
<1>6. Ledger!Entries = Msgs
    BY DEF Ledger!Entries, Msgs
<1>7. ASSUME UNCHANGED <<mstate, delivered, rows, dlq>> PROVE Goal
    BY <1>3, <1>4, <1>5, <1>7
<1>8. ASSUME NEW b \in Batches, Store(b), UNCHANGED <<delivered, rows, dlq>> PROVE Goal
    <2>1. PICK m \in Msgs : mstate[m] = "none" /\ mstate' = [mstate EXCEPT ![m] = "ready"]
        BY <1>8, StoreFacts
    <2>2. LedgerEntry' = [LedgerEntry EXCEPT ![m] = "open"] /\ LedgerEntry[m] = "absent"
        <3>1. LedgerEntry'[m] = "open" /\ LedgerEntry' = [LedgerEntry EXCEPT ![m] = LedgerEntry'[m]]
            BY <1>1, <2>1, LedgerUpdate
        <3> QED
            BY <1>1, <2>1, <3>1, LedgerEntries
    <2>3. Ledger!Enter(m)
        BY <1>3, <1>4, <1>8, <2>2 DEF Ledger!Enter
    <2> QED
        BY <1>6, <2>3 DEF Ledger!Next
<1>9. ASSUME NEW m \in Msgs, mstate[m] = "pending", UNCHANGED <<delivered, rows, dlq>>,
             mstate' = [mstate EXCEPT ![m] = Requeue(m)]
      PROVE  Goal
    <2>1. LedgerEntry' = [LedgerEntry EXCEPT ![m] = LedgerEntry'[m]] /\ mstate'[m] = Requeue(m)
        BY <1>1, <1>9, LedgerUpdate
    <2>2. LedgerEntry[m] = "open"
        BY <1>1, <1>9, LedgerEntries
    <2>3. CASE delivered[m] >= MaxDeliver
        <3>1. LedgerEntry'[m] = "abandoned" /\ delivered[m] = MaxDeliver
            <4>1. LedgerEntry'[m] = "abandoned"
                BY <1>1, <1>9, <2>3, LedgerUpdate DEF Requeue
            <4>2. delivered[m] = MaxDeliver
                BY <1>1, <2>3, PipelineAssumption DEF Handling, TypeOK
            <4> QED
                BY <4>1, <4>2
        <3>2. Ledger!Abandon(m)
            BY <1>3, <1>4, <1>9, <2>1, <2>2, <3>1 DEF Ledger!Abandon
        <3> QED
            BY <1>6, <3>2 DEF Ledger!Next
    <2>4. CASE ~(delivered[m] >= MaxDeliver)
        <3>1. LedgerEntry'[m] = "open"
            BY <1>1, <1>9, <2>4, LedgerUpdate DEF Requeue
        <3> QED
            BY <1>1, <1>3, <1>4, <1>9, <2>1, <2>2, <3>1, LedgerEntries
    <2> QED
        BY <2>3, <2>4
<1>10. ASSUME NEW m \in Msgs, NEW how \in {"acked", "termed"}, Settle(m, how),
              BatchOf(m) \in LedgerStored \cup LedgerQuarantined,
              mstate[m] # "none", UNCHANGED <<delivered, rows, dlq>>
       PROVE  Goal
    <2>1. CASE mstate[m] \in {"acked", "termed"}
        <3>1. mstate' = mstate
            BY <1>1, <1>10, <2>1 DEF Settle, Handling, TypeOK
        <3> QED
            BY <1>7, <1>10, <3>1
    <2>2. CASE mstate[m] \notin {"acked", "termed"}
        <3>1. mstate' = [mstate EXCEPT ![m] = how]
            BY <1>10, <2>2 DEF Settle
        <3>2. /\ LedgerEntry' = [LedgerEntry EXCEPT ![m] = "closed"]
              /\ LedgerEntry[m] \in {"open", "abandoned"}
            <4>1. /\ LedgerEntry' = [LedgerEntry EXCEPT ![m] = LedgerEntry'[m]]
                  /\ LedgerEntry'[m] = "closed"
                BY <1>1, <3>1, LedgerUpdate
            <4>2. LedgerEntry[m] \in {"open", "abandoned"}
                BY <1>1, <1>10, <2>2, LedgerEntries DEF Handling, TypeOK
            <4> QED
                BY <4>1, <4>2
        <3>3. Ledger!Close(m)
            BY <1>3, <1>4, <1>10, <3>2 DEF Ledger!Close, BatchOf
        <3> QED
            BY <1>6, <3>3 DEF Ledger!Next
    <2> QED
        BY <2>1, <2>2
<1>11. ASSUME NEW b \in Batches, Stored(b), rows' = [rows EXCEPT ![b] = @ + 1],
              UNCHANGED <<mstate, delivered, dlq>>
       PROVE  Goal
    <2>1. LedgerStored' = LedgerStored \cup {b}
        BY <1>1, <1>11 DEF LedgerStored, Persisted, Handling, TypeOK
    <2>2. Ledger!Store(b)
        BY <1>1, <1>4, <1>5, <1>11, <2>1, LedgerEntered DEF Ledger!Store
    <2> QED
        BY <2>2 DEF Ledger!Next
<1>12. ASSUME NEW b \in Batches, NEW why \in Reasons, Stored(b), dlq' = dlq \cup {<<b, why>>},
              UNCHANGED <<mstate, delivered, rows>>
       PROVE  Goal
    <2>1. LedgerQuarantined' = LedgerQuarantined \cup {b}
        BY <1>12 DEF LedgerQuarantined, Quarantined
    <2>2. Ledger!Quarantine(b)
        BY <1>1, <1>3, <1>5, <1>12, <2>1, LedgerEntered DEF Ledger!Quarantine
    <2> QED
        BY <2>2 DEF Ledger!Next
<1>13. ASSUME NEW p \in Processors, NEW m \in Msgs, Fetch(p, m) PROVE Goal
    <2>1. UNCHANGED LedgerEntry
        <3>1. /\ LedgerEntry' = [LedgerEntry EXCEPT ![m] = LedgerEntry'[m]]
              /\ LedgerEntry'[m] = "open"
            BY <1>1, <1>13, LedgerUpdate DEF Fetch
        <3>2. LedgerEntry[m] = "open"
            BY <1>1, <1>13, LedgerEntries DEF Fetch
        <3> QED
            BY <1>1, <3>1, <3>2, LedgerEntries
    <2>2. LedgerEntry[m] = "open" /\ delivered[m] < MaxDeliver
        BY <1>1, <1>13, LedgerEntries DEF Fetch, Handling, ReadyOK
    <2>3. Ledger!Attempt(m)
        BY <1>3, <1>4, <1>13, <2>1, <2>2 DEF Ledger!Attempt, Fetch, storeVars
    <2> QED
        BY <1>6, <2>3 DEF Ledger!Next
<1>14. ASSUME NEW p \in Processors, pc[p] \notin Idle
       PROVE  /\ held[p] \in Msgs /\ mstate[held[p]] # "none"
              /\ BatchOf(held[p]) \in Batches /\ Stored(BatchOf(held[p]))
              /\ pc[p] = "ack" => BatchOf(held[p]) \in LedgerStored
              /\ pc[p] = "term" => BatchOf(held[p]) \in LedgerQuarantined
              /\ pc[p] = "dlq" => reason[p] \in Reasons
    BY <1>1, <1>14, HeldIsStored
       DEF Handling, HandlingOK, Accounted, SafeToAck, SafeToTerm, LedgerStored,
           LedgerQuarantined, Quarantined
<1>15. ASSUME NEW p \in Processors, HandlerStep(p) PROVE Goal
    <2>1. CASE Ack(p)
        BY <2>1, <1>7, <1>10, <1>14 DEF Ack, storeVars, Idle
    <2>2. CASE Term(p)
        BY <2>2, <1>7, <1>10, <1>14 DEF Term, storeVars, Idle
    <2>3. CASE Nak(p)
        BY <2>3, <1>7, <1>9, <1>14 DEF Nak, storeVars, Idle
    <2>4. CASE PublishDLQ(p)
        BY <2>4, <1>7, <1>12, <1>14 DEF PublishDLQ, storeVars, Idle
    <2>5. CASE WriteBatch(p)
        BY <2>5, <1>7, <1>11, <1>14 DEF WriteBatch, streamVars, Idle
    <2>6. CASE Decode(p) \/ CheckProcessed(p) \/ LoadRules(p) \/ SyncState(p)
        BY <2>6, <1>7 DEF Decode, CheckProcessed, LoadRules, SyncState, streamVars, storeVars
    <2> QED
        BY <1>15, <2>1, <2>2, <2>3, <2>4, <2>5, <2>6 DEF HandlerStep
<1>16. ASSUME NEW b \in Batches, LateInsertEnds(b) PROVE Goal
    BY <1>1, <1>16, <1>7, <1>11 DEF LateInsertEnds, LateIsStored, streamVars
<1>17. ASSUME NEW m \in Msgs, AckWaitExpires(m) PROVE Goal
    BY <1>9, <1>17 DEF AckWaitExpires, storeVars
<1> HIDE DEF Goal
<1> QED
    BY <1>7, <1>8, <1>13, <1>15, <1>16, <1>17
       DEF Next, PublishAcked, PublishReplyLost, PublishDuplicate, ForgetMsgId, Crash,
           Restart, vars, streamVars, storeVars

\* The pipeline implements the ledger: a message is attempted at most
\* MaxDeliver times, closed only when its batch is stored or quarantined,
\* and abandoned only after the last attempt.
THEOREM PipelineImplementsLedger == Spec => Ledger!Safety
<1>1. Init => LedgerInv
    BY AccountedInit DEF Init, LedgerInv, LateIsStored
<1>2. Spec => []LedgerInv
    BY <1>1, LedgerInvNext, PTL DEF Spec
<1>3. Init => Ledger!Init
    BY DEF Init, Ledger!Init, Ledger!Entries, LedgerEntry, LedgerStored, LedgerQuarantined,
           Persisted, Quarantined, Msgs
<1>4. LedgerInv /\ [Next]_vars => [Ledger!Next]_(Ledger!ledgerVars)
    BY LedgerStep
<1> QED
    BY <1>2, <1>3, <1>4, PTL DEF Spec, Ledger!Safety
=============================================================================
