-------------------------- MODULE IdentityOutbox --------------------------
(***************************************************************************)
(* The transactional outbox of the IdentityState object                    *)
(* (workers/registry/src/identity-state-do.ts): how the events that a      *)
(* transaction committed reach the queues.                                 *)
(*                                                                         *)
(* Every method that commits calls #kickOutbox in the same turn (variable  *)
(* kicked of IdentityState).  A kick makes sure that an alarm is set and   *)
(* joins or starts the one flush; the flush sends the oldest pending row   *)
(* until none is left, and an alarm or a later kick starts it again.  The  *)
(* rows and the alarm survive a crash, kicks and flush do not.             *)
(*                                                                         *)
(* The alarm's time is abstracted away (set or not), and with it the       *)
(* attempt counter, which only chooses the delay.  The two tables outbox   *)
(* and device_outbox are one: the flush always selects over their union.   *)
(***************************************************************************)
EXTENDS Integers, FiniteSets

CONSTANTS
  Events,      \* the event rows, identity and device events together
  Created,     \* created_at of each row; equal times are ordered by hash
  Kicks,       \* how many kicks may be in flight
  MaxCrashes,  \* bound on crashes of the object
  MaxDoubts    \* bound on sends whose outcome the object does not learn

ASSUME OutboxAssumption ==
  /\ Created \in [Events -> Nat]
  /\ MaxCrashes \in Nat
  /\ MaxDoubts \in Nat

VARIABLES
  outbox,   \* the rows: absent, pending or published
  alarm,    \* whether the object's alarm is set
  ringing,  \* whether the alarm handler is running
  kick,     \* each kick: idle, or the alarm it saw, or past ensureAlarm
  flush,    \* the one flush (#flushPromise): where it is, and its row
  sent,     \* how often each event was put on its queue
  doubts,   \* sends of each event that the object does not know of
  crashes,  \* crashes so far
  orphans   \* pending rows that a crash left without an alarm

outboxVars == <<outbox, alarm, ringing, kick, flush, sent, doubts, crashes, orphans>>

NoFlush == [pc |-> "none", row |-> {}]
At(pc) == [pc |-> pc, row |-> {}]
On(pc, e) == [pc |-> pc, row |-> {e}]

PendingIn(o) == {e \in Events : o[e] = "pending"}
Pending == PendingIn(outbox)

OldestIn(o) == {e \in PendingIn(o) : \A f \in PendingIn(o) : Created[e] <= Created[f]}

-----------------------------------------------------------------------------
(* The kick *)

\* The async function runs up to its await of getAlarm.
StartKick(k) ==
  /\ kick[k] = "idle"
  /\ kick' = [kick EXCEPT ![k] = IF alarm THEN "sawAlarm" ELSE "sawNone"]

\* A method commits a row and kicks.
Commit(e, k) ==
  /\ outbox[e] = "absent"
  /\ outbox' = [outbox EXCEPT ![e] = "pending"]
  /\ StartKick(k)
  /\ UNCHANGED <<alarm, ringing, flush, sent, doubts, crashes, orphans>>

\* A method that commits nothing kicks all the same: a replay, a status read.
Request(k) ==
  /\ StartKick(k)
  /\ UNCHANGED <<outbox, alarm, ringing, flush, sent, doubts, crashes, orphans>>

EnsureAlarm(k) ==
  /\ kick[k] \in {"sawAlarm", "sawNone"}
  /\ kick' = [kick EXCEPT ![k] = "armed"]
  /\ alarm' = (alarm \/ kick[k] = "sawNone")
  /\ UNCHANGED <<outbox, ringing, flush, sent, doubts, crashes, orphans>>

-----------------------------------------------------------------------------
(* The flush *)

\* One turn of the loop, up to its await: send the oldest row, or, when there
\* is none, delete the alarm.
Turn(o) ==
  \/ /\ PendingIn(o) = {}
     /\ flush' = At("clearing")
     /\ alarm' = FALSE
  \/ /\ \E e \in OldestIn(o) : flush' = On("sending", e)
     /\ UNCHANGED alarm

\* The flush is started, unless one is there to be joined; a flush that has
\* returned but not yet cleared #flushPromise is joined too.
RequestFlush(k) ==
  /\ kick[k] = "armed"
  /\ kick' = [kick EXCEPT ![k] = "idle"]
  /\ \/ /\ flush.pc = "none"
        /\ Turn(outbox)
     \/ /\ flush.pc # "none"
        /\ UNCHANGED <<flush, alarm>>
  /\ UNCHANGED <<outbox, ringing, sent, doubts, crashes, orphans>>

SendSucceeds ==
  /\ flush.pc = "sending"
  /\ flush' = [flush EXCEPT !.pc = "sent"]
  /\ sent' = [e \in Events |-> IF e \in flush.row THEN sent[e] + 1 ELSE sent[e]]
  /\ UNCHANGED <<outbox, alarm, ringing, kick, doubts, crashes, orphans>>

\* The send in progress has reached the queue and the object will not know.
InDoubt ==
  /\ \A e \in flush.row : doubts[e] < MaxDoubts
  /\ sent' = [e \in Events |-> IF e \in flush.row THEN sent[e] + 1 ELSE sent[e]]
  /\ doubts' = [e \in Events |-> IF e \in flush.row THEN doubts[e] + 1 ELSE doubts[e]]

\* (mutant) A failed send ends the flush without setting the alarm.
SendFailsSilently ==
  /\ flush.pc = "sending"
  /\ flush' = At("ending")
  /\ InDoubt \/ UNCHANGED <<sent, doubts>>
  /\ UNCHANGED <<alarm, outbox, ringing, kick, crashes, orphans>>

\* A failed send sets the alarm and ends the flush.
SendFails ==
  /\ flush.pc = "sending"
  /\ alarm' = TRUE
  /\ flush' = At("ending")
  /\ InDoubt \/ UNCHANGED <<sent, doubts>>
  /\ UNCHANGED <<outbox, ringing, kick, crashes, orphans>>

\* (mutant) The next turn starts without the row being marked.
MarkNothing ==
  /\ flush.pc = "sent"
  /\ Turn(outbox)
  /\ UNCHANGED <<outbox, orphans, ringing, kick, sent, doubts, crashes>>

MarkPublished ==
  /\ flush.pc = "sent"
  /\ outbox' = [e \in Events |-> IF e \in flush.row THEN "published" ELSE outbox[e]]
  /\ orphans' = orphans \ flush.row
  /\ Turn(outbox')
  /\ UNCHANGED <<ringing, kick, sent, doubts, crashes>>

\* The alarm is deleted: rows that were committed meanwhile are found.
Recount ==
  /\ flush.pc = "clearing"
  /\ flush' = At(IF Pending = {} THEN "ending"
                 ELSE IF alarm THEN "sawAlarm" ELSE "sawNone")
  /\ UNCHANGED <<outbox, alarm, ringing, kick, sent, doubts, crashes, orphans>>

\* ensureAlarm inside the loop, and the loop goes on.
Rearm ==
  /\ flush.pc \in {"sawAlarm", "sawNone"}
  /\ alarm' = (alarm \/ flush.pc = "sawNone")
  /\ \E e \in OldestIn(outbox) : flush' = On("sending", e)
  /\ UNCHANGED <<outbox, ringing, kick, sent, doubts, crashes, orphans>>

\* (mutant) The promise of the flush is never cleared.
EndFlushForgotten ==
  /\ flush.pc = "ending"
  /\ ringing
  /\ ringing' = FALSE
  /\ UNCHANGED <<flush, outbox, alarm, kick, sent, doubts, crashes, orphans>>

\* The flush has returned and "finally" clears #flushPromise; an alarm handler
\* that waited for it returns too.
EndFlush ==
  /\ flush.pc = "ending"
  /\ flush' = NoFlush
  /\ ringing' = FALSE
  /\ UNCHANGED <<outbox, alarm, kick, sent, doubts, crashes, orphans>>

-----------------------------------------------------------------------------
(* The platform *)

\* The runtime clears the alarm and runs the handler.  It is a new event, so it
\* is not delivered between the return of a flush and its "finally".
AlarmFires ==
  /\ alarm /\ ~ringing
  /\ flush.pc # "ending"
  /\ ringing' = TRUE
  /\ \/ /\ flush.pc = "none"
        /\ \E e \in OldestIn(outbox) : flush' = On("sending", e)
     \/ /\ flush.pc = "none" /\ Pending = {}
        /\ flush' = At("clearing")
     \/ /\ flush.pc # "none"
        /\ UNCHANGED flush
  /\ alarm' = FALSE
  /\ UNCHANGED <<outbox, kick, sent, doubts, crashes, orphans>>

\* The object crashes or is evicted.  An alarm handler that did not return is
\* run again by the platform; a send in progress may have arrived.
Crash ==
  /\ crashes < MaxCrashes
  /\ crashes' = crashes + 1
  /\ kick' = [k \in Kicks |-> "idle"]
  /\ flush' = NoFlush
  /\ ringing' = FALSE
  /\ alarm' = (alarm \/ ringing)
  /\ orphans' = IF alarm' THEN {} ELSE Pending
  /\ \/ /\ flush.pc = "sending"
        /\ InDoubt
     \/ /\ flush.pc = "sent"
        /\ \A e \in flush.row : doubts[e] < MaxDoubts
        /\ doubts' = [e \in Events |-> IF e \in flush.row THEN doubts[e] + 1 ELSE doubts[e]]
        /\ UNCHANGED sent
     \/ /\ flush.pc # "sent"
        /\ UNCHANGED <<sent, doubts>>
  /\ UNCHANGED outbox

-----------------------------------------------------------------------------

OutboxInit ==
  /\ outbox = [e \in Events |-> "absent"]
  /\ alarm = FALSE
  /\ ringing = FALSE
  /\ kick = [k \in Kicks |-> "idle"]
  /\ flush = NoFlush
  /\ sent = [e \in Events |-> 0]
  /\ doubts = [e \in Events |-> 0]
  /\ crashes = 0
  /\ orphans = {}

FlushStep == SendSucceeds \/ SendFails \/ MarkPublished \/ Recount \/ Rearm \/ EndFlush

OutboxNext ==
  \/ \E e \in Events, k \in Kicks : Commit(e, k)
  \/ \E k \in Kicks : Request(k) \/ EnsureAlarm(k) \/ RequestFlush(k)
  \/ FlushStep
  \/ AlarmFires
  \/ Crash

OutboxSpec == OutboxInit /\ [][OutboxNext]_outboxVars

\* Awaits are resolved, and a set alarm fires.
OutboxFairness ==
  /\ \A k \in Kicks : WF_outboxVars(EnsureAlarm(k)) /\ WF_outboxVars(RequestFlush(k))
  /\ WF_outboxVars(FlushStep)
  /\ WF_outboxVars(AlarmFires)

-----------------------------------------------------------------------------
(* Correctness *)

Flushing == flush.pc \notin {"none", "ending"}

\* A pending row has the loop, an alarm or a kick on its way to it, at every
\* moment of the race between commits, deleteAlarm and the end of a flush; only
\* a crash before the alarm is set leaves a row to the next request.
PendingIsCovered ==
  Pending \subseteq orphans \/ alarm \/ Flushing \/ \E k \in Kicks : kick[k] # "idle"

\* A row is marked as published only when its event is on the queue, and it is
\* sent again only after a crash or an unknown outcome: the flushes started by
\* kicks and alarms never send a row twice on their own.
SentOnceUnlessInDoubt ==
  \A e \in Events :
    /\ outbox[e] = "published" => sent[e] >= 1
    /\ sent[e] <= doubts[e] + (IF outbox[e] = "published" \/ (flush.pc = "sent" /\ e \in flush.row)
                                 THEN 1 ELSE 0)

\* The premises of the next two properties: a queue that is tried again and
\* again accepts the event at last; clients keep asking for the subject.
QueueRecovers == SF_outboxVars(SendSucceeds)
RequestsRecur == \A k \in Kicks : SF_outboxVars(Request(k))

\* Every committed event reaches its queue and is marked, through outages of
\* the queue and crashes, without any further request, unless a crash hit the
\* object between the commit and the alarm.
CommittedIsPublished ==
  QueueRecovers => \A e \in Events : outbox[e] = "pending" ~> outbox[e] = "published" \/ e \in orphans

\* When requests for the subject keep coming, even the rows whose kick a crash
\* took away are published: the kick of any later request covers them.
VisitedIsPublished ==
  QueueRecovers /\ RequestsRecur =>
    \A e \in Events : outbox[e] = "pending" ~> outbox[e] = "published"
=============================================================================
