----------------------------- MODULE Projector -----------------------------
(***************************************************************************)
(* The projector (workers/projector/src): queue consumers that turn the    *)
(* registry events of a subject into the D1 projection and then append     *)
(* them to the transparency log.                                           *)
(*                                                                         *)
(* Two queues, each at-least-once and unordered, and several consumers: an *)
(* event may be delivered late, twice, and to two consumers at once.  A    *)
(* consumer's D1 statements interleave with the others' except inside one  *)
(* batch, which is a transaction.  Any step may fail; the message is then  *)
(* delivered again from its beginning.                                     *)
(*                                                                         *)
(* The events are those the registry recorded: a registration, maybe a     *)
(* revocation, and a device ledger as IdentityState leaves it.  All carry  *)
(* the subject's one genesis hash, so the three genesis assertions, which  *)
(* only read and throw, are left out.                                      *)
(***************************************************************************)
EXTENDS DeviceLedger, FiniteSets

CONSTANTS
  Consumers,    \* concurrent invocations of the queue handler
  Devices,      \* the devices of the subject
  Auths,        \* their authorizations
  DeviceLog,    \* the device ledger: the event of each sequence
  Revoked,      \* whether the identity was revoked
  MaxFailures,  \* bound on failing D1 statements and appends
  NULL

Ledger == DOMAIN DeviceLog

LastOf(d) == {n \in Ledger : DeviceLog[n].device = d
                /\ \A m \in Ledger : DeviceLog[m].device = d => m <= n}

\* The ledger is one that IdentityState can leave (IdentityStateProofs).
ASSUME LedgerAssumption == IsLedger(DeviceLog, Devices, Auths, NULL)

ASSUME ConsumersAssumption ==
  Revoked \in BOOLEAN /\ MaxFailures \in Nat /\ NULL \notin Auths

IdentityEvents == {"registered"} \cup (IF Revoked THEN {"revoked"} ELSE {})

\* The messages of both queues; a device event is named by its sequence.
Messages == [queue : {"events"}, event : IdentityEvents]
              \cup [queue : {"deviceEvents"}, event : Ledger]

IdentityMessage(e) == [queue |-> "events", event |-> e]
DeviceMessage(n) == [queue |-> "deviceEvents", event |-> n]

VARIABLES
  identity,      \* the row of identities: none, active or revoked
  events,        \* registry_events
  pending,       \* pending_registry_events
  deviceEvents,  \* device_registry_events
  deviceRow,     \* device_states, one row for each device
  head,          \* device_projection_heads.max_device_ledger_sequence
  logged,        \* the messages appended to the transparency log
  acked,         \* the messages acknowledged at least once
  work,          \* what each consumer is doing
  failures

vars == <<identity, events, pending, deviceEvents, deviceRow, head, logged, acked,
          work, failures>>

database == <<identity, events, pending, deviceEvents, deviceRow, head>>

NoRow == [state |-> "none", sequence |-> 0, auth |-> NULL, activatedBy |-> 0]

Idle == [pc |-> "idle", message |-> NULL, todo |-> {}]

\* The consumer goes on to its next statement.
GoTo(c, pc, todo) == work' = [work EXCEPT ![c].pc = pc, ![c].todo = todo]

-----------------------------------------------------------------------------
(* Identity events *)

Deliver(c, m) ==
  /\ work[c] = Idle
  /\ work' = [work EXCEPT ![c] = [pc |-> "applying", message |-> m, todo |-> {}]]
  /\ UNCHANGED <<database, logged, acked, failures>>

Working(c, e) == work[c].pc = "applying" /\ work[c].message = IdentityMessage(e)

\* (mutant) A registration does not look for a revocation that came early.
ApplyRegistrationAlone(c) ==
  /\ Working(c, "registered")
  /\ identity' = IF identity = "none" THEN "active" ELSE identity
  /\ events' = events \cup {"registered"}
  /\ GoTo(c, "selecting", {})
  /\ UNCHANGED <<pending, deviceEvents, deviceRow, head, logged, acked, failures>>

\* One batch: the row unless there is one, its event, and a revocation that
\* was waiting for it, which takes the row to its next sequence.
ApplyRegistration(c) ==
  /\ Working(c, "registered")
  /\ LET row == IF identity = "none" THEN "active" ELSE identity IN
     /\ identity' = IF row = "active" /\ "revoked" \in pending THEN "revoked" ELSE row
     /\ events' = events \cup {"registered"}
                    \cup {e \in pending : identity' = "revoked"}
     /\ pending' = pending \ events'
  /\ GoTo(c, "selecting", {})
  /\ UNCHANGED <<deviceEvents, deviceRow, head, logged, acked, failures>>

\* One batch: revoke the row, or keep the event until there is one.
ApplyRevocation(c) ==
  /\ Working(c, "revoked")
  /\ \/ /\ identity = "none"
        /\ pending' = pending \cup {"revoked"}
        /\ UNCHANGED <<identity, events>>
     \/ /\ identity # "none"
        /\ identity' = "revoked"
        /\ events' = events \cup {"revoked"}
        /\ pending' = pending \ {"revoked"}
  /\ GoTo(c, "appending", {})
  /\ UNCHANGED <<deviceEvents, deviceRow, head, logged, acked, failures>>

\* (mutant) The events that came before the anchor are left to themselves.
SelectNothing(c) ==
  /\ work[c].pc = "selecting"
  /\ GoTo(c, "appending", {})
  /\ UNCHANGED <<database, logged, acked, failures>>

\* After the anchor: the device events stored so far, oldest first.
SelectDeviceEvents(c) ==
  /\ work[c].pc = "selecting"
  /\ GoTo(c, IF deviceEvents = {} THEN "appending" ELSE "materializing", deviceEvents)
  /\ UNCHANGED <<database, logged, acked, failures>>

-----------------------------------------------------------------------------
(* Device events *)

StoreDeviceEvent(c) ==
  /\ work[c].pc = "applying"
  /\ work[c].message.queue = "deviceEvents"
  /\ deviceEvents' = deviceEvents \cup {work[c].message.event}
  /\ GoTo(c, "reading", {work[c].message.event})
  /\ UNCHANGED <<identity, events, pending, deviceRow, head, logged, acked, failures>>

\* Without the anchor the event stays unmaterialized.
ReadAnchor(c) ==
  /\ work[c].pc = "reading"
  /\ \/ identity = "none" /\ GoTo(c, "appending", {})
     \/ identity # "none" /\ GoTo(c, "materializing", work[c].todo)
  /\ UNCHANGED <<database, logged, acked, failures>>

\* (mutants) The upsert has no condition; any row stops it.
UpsertedLast(row, n) ==
  LET e == DeviceLog[n] IN
  [state |-> IF e.type = "activated" THEN "active" ELSE "revoked", sequence |-> n,
   auth |-> IF e.auth # NULL THEN e.auth ELSE row.auth,
   activatedBy |-> IF row.activatedBy # 0 THEN row.activatedBy
                   ELSE IF e.type = "activated" THEN n ELSE 0]

UpsertedOnce(row, n) == IF row.state # "none" THEN row ELSE UpsertedLast(row, n)

\* INSERT ... ON CONFLICT DO UPDATE: only a later event changes a row, and none
\* changes a revoked one.
Upserted(row, n) ==
  LET e == DeviceLog[n] IN
  IF row.sequence >= n \/ row.state = "revoked" THEN row
  ELSE [state |-> IF e.type = "activated" THEN "active" ELSE "revoked", sequence |-> n,
        auth |-> IF e.auth # NULL THEN e.auth ELSE row.auth,
        activatedBy |-> IF row.activatedBy # 0 THEN row.activatedBy
                        ELSE IF e.type = "activated" THEN n ELSE 0]

\* The anchor, once read, is never deleted; the upsert and the head are one
\* batch, and the next event of a reconciliation comes after it.
Materialize(c) ==
  /\ work[c].pc = "materializing"
  /\ \E n \in work[c].todo :
       /\ \A m \in work[c].todo : n <= m
       /\ deviceRow' = [deviceRow EXCEPT ![DeviceLog[n].device] = Upserted(@, n)]
       /\ head' = IF head < n THEN n ELSE head
       /\ LET rest == work[c].todo \ {n} IN
          GoTo(c, IF rest = {} THEN "appending" ELSE "materializing", rest)
  /\ UNCHANGED <<identity, events, pending, deviceEvents, logged, acked, failures>>

-----------------------------------------------------------------------------
(* The log, the acknowledgement, failures *)

\* The transparency service deduplicates by event id.
AppendToLog(c) ==
  /\ work[c].pc = "appending"
  /\ logged' = logged \cup {work[c].message}
  /\ GoTo(c, "acking", {})
  /\ UNCHANGED <<database, acked, failures>>

Ack(c) ==
  /\ work[c].pc = "acking"
  /\ acked' = acked \cup {work[c].message}
  /\ work' = [work EXCEPT ![c] = Idle]
  /\ UNCHANGED <<database, logged, failures>>

\* Something throws, or the invocation is lost: the message will come again.
Fail(c) ==
  /\ work[c] # Idle
  /\ failures < MaxFailures
  /\ failures' = failures + 1
  /\ work' = [work EXCEPT ![c] = Idle]
  /\ UNCHANGED <<database, logged, acked>>

-----------------------------------------------------------------------------

Init ==
  /\ identity = "none"
  /\ events = {}
  /\ pending = {}
  /\ deviceEvents = {}
  /\ deviceRow = [d \in Devices |-> NoRow]
  /\ head = 0
  /\ logged = {}
  /\ acked = {}
  /\ work = [c \in Consumers |-> Idle]
  /\ failures = 0

Continue(c) ==
  \/ ApplyRegistration(c)
  \/ ApplyRevocation(c)
  \/ SelectDeviceEvents(c)
  \/ StoreDeviceEvent(c)
  \/ ReadAnchor(c)
  \/ Materialize(c)
  \/ AppendToLog(c)
  \/ Ack(c)

Next ==
  \/ \E c \in Consumers, m \in Messages : Deliver(c, m)
  \/ \E c \in Consumers : Continue(c) \/ Fail(c)

Spec == Init /\ [][Next]_vars

\* Consumers go on.
Fairness == \A c \in Consumers : WF_vars(Continue(c))

-----------------------------------------------------------------------------
(* Correctness *)

\* Between two batches the identity row, the events applied to it and those
\* still waiting for it tell one story, whichever event came first.
RowMatchesEvents ==
  /\ events = CASE identity = "none" -> {}
                [] identity = "active" -> {"registered"}
                [] identity = "revoked" -> {"registered", "revoked"}
  /\ pending # {} => identity = "none"

\* No event falls between the consumer of the registration and the consumer of
\* the device event: once both are acknowledged the event has taken effect.
NothingIsStranded ==
  \A n \in Ledger :
    DeviceMessage(n) \in acked /\ IdentityMessage("registered") \in acked =>
      /\ deviceRow[DeviceLog[n].device].sequence >= n
           \/ deviceRow[DeviceLog[n].device].state = "revoked"
      /\ head >= n

\* Stale and repeated deliveries move nothing backwards: not the identity, not
\* a device's sequence, not the head, and no device leaves revoked.
ProjectionMovesForward ==
  [][/\ identity = "revoked" => identity' = "revoked"
     /\ identity = "active" => identity' # "none"
     /\ head <= head'
     /\ \A d \in Devices :
          /\ deviceRow[d].sequence <= deviceRow'[d].sequence
          /\ deviceRow[d].state = "revoked" => deviceRow'[d] = deviceRow[d]]_vars

\* All that was recorded is in the projection, and every event in the log.
Converged ==
  /\ identity = IF Revoked THEN "revoked" ELSE "active"
  /\ pending = {}
  /\ \A d \in Devices : \A n \in LastOf(d) :
       /\ deviceRow[d].state = IF DeviceLog[n].type = "revoked" THEN "revoked" ELSE "active"
       /\ deviceRow[d].sequence = n
  /\ head = Len(DeviceLog)
  /\ logged = Messages

\* The premise of the next property: a message that was not acknowledged is
\* delivered again and again, by the queues' retries and the replay of their
\* dead letters.
MessagesRecur == \A m \in Messages : SF_vars(m \notin acked /\ \E c \in Consumers : Deliver(c, m))

\* The projection ends up with the registry's answer for good, and the log with
\* every event, whatever fails between two statements.
ProjectionConverges == MessagesRecur => <>[]Converged
=============================================================================
