-------------------------- MODULE ProjectorProofs --------------------------
(***************************************************************************)
(* Theorems about Projector, for any device ledger, any number of          *)
(* consumers and any number of failures.                                   *)
(*                                                                         *)
(* The consumer of the registration and the consumer of a device event     *)
(* meet in the database: one writes the anchor and then reads the events,  *)
(* the other stores its event and then reads the anchor.  Whichever comes  *)
(* second sees the first.  NoneMissed says so of every point between the   *)
(* two, with what a consumer holds at each of its steps (StepOK).          *)
(***************************************************************************)
EXTENDS Projector, TLAPS

Registration == IdentityMessage("registered")

Rows == [state : {"none", "active", "revoked"}, sequence : Nat,
         auth : Auths \cup {NULL}, activatedBy : Nat]

Works == [pc : {"idle", "applying", "selecting", "reading", "materializing", "appending",
                "acking"},
          message : Messages \cup {NULL}, todo : SUBSET Ledger]

\* A revocation is the only event that waits, and every set holds its kind.
TypeOK ==
  /\ identity \in {"none", "active", "revoked"}
  /\ events \subseteq IdentityEvents
  /\ pending \subseteq IdentityEvents \ {"registered"}
  /\ deviceEvents \subseteq Ledger
  /\ deviceRow \in [Devices -> Rows]
  /\ head \in Nat
  /\ logged \subseteq Messages
  /\ acked \subseteq Messages
  /\ work \in [Consumers -> Works]
  /\ failures \in 0..MaxFailures

Busy(w) == w.pc # "idle"
Beyond(w) == w.pc \notin {"idle", "applying"}
IsDevice(m) == m.queue = "deviceEvents"

\* What a consumer holds at each of its steps: its message, of a kind that has
\* this step; the events it has still to materialize, all of them stored; and
\* beyond its first statement the effect of that statement.
StepOK(w) ==
  /\ Busy(w) => w.message \in Messages
  /\ w.pc = "selecting" => w.message = Registration
  /\ w.pc = "reading" => IsDevice(w.message)
  /\ w.pc = "materializing" => w.message = Registration \/ IsDevice(w.message)
  /\ w.pc \in {"reading", "materializing"} /\ IsDevice(w.message) => w.todo = {w.message.event}
  /\ w.todo \subseteq deviceEvents
  /\ Beyond(w) /\ IsDevice(w.message) => w.message.event \in deviceEvents
  /\ Beyond(w) /\ w.message = Registration => identity # "none"

\* The anchor is there once the registration is acknowledged.
AnchorOK == Registration \in acked => identity # "none"

\* A row is the outcome of a stored event of its device, the one of its
\* sequence; so is the head, of any device.
RowsAreRecorded ==
  /\ head \in deviceEvents \cup {0}
  /\ \A d \in Devices :
       LET row == deviceRow[d] IN
       IF row.state = "none"
         THEN row = NoRow
         ELSE /\ row.sequence \in deviceEvents
              /\ DeviceLog[row.sequence].device = d
              /\ row.state = IF DeviceLog[row.sequence].type = "activated" THEN "active"
                             ELSE "revoked"

\* The event at n has taken effect.
Effective(n) ==
  /\ \/ deviceRow[DeviceLog[n].device].sequence >= n
     \/ deviceRow[DeviceLog[n].device].state = "revoked"
  /\ head >= n

\* A consumer of the event is done with the database.
Settled(n) ==
  \/ DeviceMessage(n) \in acked
  \/ \E c \in Consumers : /\ work[c].message = DeviceMessage(n)
                          /\ work[c].pc \in {"appending", "acking"}

\* The consumer of a registration has not passed the event by.
Holds(w, n) ==
  \/ w.pc \in {"applying", "selecting"}
  \/ w.pc = "materializing" /\ n \in w.todo

\* A settled event took effect, or was stored before the anchor was written:
\* then every consumer of the registration is going to find it.
NoneMissed ==
  \A n \in Ledger : Settled(n) =>
    /\ n \in deviceEvents
    /\ \/ Effective(n)
       \/ /\ Registration \notin acked
          /\ \A c \in Consumers :
               Busy(work[c]) /\ work[c].message = Registration => Holds(work[c], n)

IInv ==
  /\ TypeOK
  /\ \A c \in Consumers : StepOK(work[c])
  /\ AnchorOK
  /\ RowMatchesEvents
  /\ RowsAreRecorded
  /\ NoneMissed

-----------------------------------------------------------------------------
(* Messages, rows, and a consumer's move to its next statement *)

\* The two queues' messages are told apart, and so are the ledger's events.
LEMMA MessageFacts ==
  /\ Registration \in Messages /\ ~IsDevice(Registration)
  /\ \A n \in Ledger : /\ DeviceMessage(n) \in Messages /\ IsDevice(DeviceMessage(n))
                       /\ DeviceMessage(n).event = n /\ n \in Nat /\ n # 0
  /\ \A m \in Messages : IsDevice(m) => m.event \in Ledger /\ m = DeviceMessage(m.event)
<1>1. \A n \in Ledger : n \in Nat /\ n # 0
  BY LedgerAssumption DEF IsLedger, Ledger
<1> QED
  BY <1>1 DEF Registration, Messages, IdentityMessage, DeviceMessage, IsDevice, IdentityEvents

\* An event names a device of the subject.
LEMMA EventFields ==
  ASSUME NEW n \in Ledger
  PROVE  /\ DeviceLog[n].device \in Devices
         /\ DeviceLog[n].type \in {"activated", "revoked"}
         /\ DeviceLog[n].auth \in Auths \cup {NULL}
<1> DEFINE Events == [type : {"activated", "revoked"}, device : Devices, auth : Auths \cup {NULL}]
<1>1. DeviceLog \in Seq(Events) /\ n \in DOMAIN DeviceLog
  BY LedgerAssumption DEF IsLedger, Ledger
<1> HIDE DEF Events
<1>2. DeviceLog[n] \in Events
  BY <1>1
<1> QED
  BY <1>2 DEF Events

\* The upsert keeps the row or makes it the row of the event; in either case
\* the event has taken effect, and the row did not go back.
LEMMA UpsertedFacts ==
  ASSUME NEW row \in Rows, NEW n \in Ledger
  PROVE  LET next == Upserted(row, n) IN
         /\ next \in Rows
         /\ row.sequence <= next.sequence
         /\ row.state = "revoked" => next = row
         /\ next.sequence >= n \/ next.state = "revoked"
         /\ \/ next = row
            \/ /\ next.sequence = n
               /\ next.state = IF DeviceLog[n].type = "activated" THEN "active" ELSE "revoked"
<1> DEFINE e == DeviceLog[n]
           made == [state |-> IF e.type = "activated" THEN "active" ELSE "revoked",
                    sequence |-> n,
                    auth |-> IF e.auth # NULL THEN e.auth ELSE row.auth,
                    activatedBy |-> IF row.activatedBy # 0 THEN row.activatedBy
                                    ELSE IF e.type = "activated" THEN n ELSE 0]
<1>1. n \in Nat
  BY MessageFacts
<1>2. /\ made \in Rows /\ made.sequence = n
      /\ made.state = IF e.type = "activated" THEN "active" ELSE "revoked"
  BY <1>1, EventFields DEF Rows
<1>3. row.sequence \in Nat
  BY DEF Rows
<1>4. Upserted(row, n) = IF row.sequence >= n \/ row.state = "revoked" THEN row ELSE made
  BY DEF Upserted
<1> HIDE DEF made
<1> QED
  BY <1>1, <1>2, <1>3, <1>4

Others(c) == \A x \in Consumers : x # c => work'[x] = work[x]

LEMMA GoToShape ==
  ASSUME TypeOK, NEW c \in Consumers, NEW pc, NEW todo, GoTo(c, pc, todo)
  PROVE  /\ Others(c)
         /\ work'[c].pc = pc /\ work'[c].todo = todo /\ work'[c].message = work[c].message
         /\ work' \in [Consumers -> [pc : {pc}, message : Messages \cup {NULL}, todo : {todo}]
                                   \cup Works]
<1>1. work[c] \in Works
  BY DEF TypeOK
<1>2. work' = [work EXCEPT ![c] = [@ EXCEPT !.pc = pc, !.todo = todo]]
  BY DEF GoTo
<1>3. work'[c] = [work[c] EXCEPT !.pc = pc, !.todo = todo]
  BY <1>2 DEF TypeOK
<1>4. /\ work'[c].pc = pc /\ work'[c].todo = todo /\ work'[c].message = work[c].message
      /\ work'[c] \in [pc : {pc}, message : Messages \cup {NULL}, todo : {todo}]
  BY <1>1, <1>3 DEF Works
<1>5. Others(c)
  BY <1>2 DEF Others, TypeOK
<1> QED
  BY <1>2, <1>4, <1>5 DEF TypeOK

-----------------------------------------------------------------------------
(* Types, and what the consumers hold *)

\* What the two batches of the identity do.
LEMMA RegistrationShape ==
  ASSUME TypeOK, NEW c \in Consumers, ApplyRegistration(c)
  PROVE  /\ identity' \in {"active", "revoked"}
         /\ identity = "revoked" => identity' = "revoked"
         /\ events' \subseteq IdentityEvents
         /\ pending' \subseteq pending
         /\ RowMatchesEvents => RowMatchesEvents'
<1> DEFINE row == IF identity = "none" THEN "active" ELSE identity
<1>1. /\ identity' = IF row = "active" /\ "revoked" \in pending THEN "revoked" ELSE row
      /\ events' = events \cup {"registered"} \cup {e \in pending : identity' = "revoked"}
      /\ pending' = pending \ events'
  BY DEF ApplyRegistration
<1>2. /\ row \in {"active", "revoked"} /\ (identity = "revoked" => row = "revoked")
      /\ identity # "none" => row = identity
  BY DEF TypeOK
<1>3. /\ pending \subseteq {"revoked"} /\ pending \subseteq IdentityEvents
      /\ "registered" \in IdentityEvents
  BY DEF TypeOK, IdentityEvents
<1>4. identity' \in {"active", "revoked"} /\ (identity = "revoked" => identity' = "revoked")
  BY <1>1, <1>2
<1>5. events' \subseteq IdentityEvents
  BY <1>1, <1>3 DEF TypeOK
<1>6. ASSUME RowMatchesEvents PROVE RowMatchesEvents'
  <2> HIDE DEF row
  <2>1. CASE identity' = "revoked" /\ "revoked" \in pending
    BY <1>1, <1>2, <1>3, <1>6, <2>1 DEF RowMatchesEvents, TypeOK
  <2>2. CASE "revoked" \notin pending
    <3>1. /\ pending = {} /\ pending' = {}
          /\ events' = events \cup {"registered"} /\ identity' = row
      BY <1>1, <1>3, <2>2
    <3>2. CASE identity = "none"
      BY <1>6, <3>1, <3>2 DEF RowMatchesEvents, row
    <3>3. CASE identity # "none"
      BY <1>2, <1>6, <3>1, <3>3 DEF RowMatchesEvents
    <3> QED
      BY <3>2, <3>3
  <2> QED
    BY <1>1, <1>2, <2>1, <2>2
<1> QED
  BY <1>1, <1>4, <1>5, <1>6

LEMMA RevocationShape ==
  ASSUME TypeOK, NEW c \in Consumers, ApplyRevocation(c)
  PROVE  /\ identity # "none" => identity' = "revoked"
         /\ identity = "none" => identity' = "none"
         /\ RowMatchesEvents => RowMatchesEvents'
<1>1. CASE identity = "none"
  BY <1>1 DEF ApplyRevocation, RowMatchesEvents
<1>2. CASE identity # "none"
  BY <1>2 DEF ApplyRevocation, RowMatchesEvents, TypeOK
<1> QED
  BY <1>1, <1>2

LEMMA NextKeepsTypeOK ==
  ASSUME TypeOK, \A c \in Consumers : StepOK(work[c]), Next
  PROVE  TypeOK'
<1> USE DEF TypeOK
<1>1. ASSUME NEW c \in Consumers, NEW m \in Messages, Deliver(c, m)
      PROVE  TypeOK'
  <2>1. [pc |-> "applying", message |-> m, todo |-> {}] \in Works
    BY DEF Works
  <2>2. work' \in [Consumers -> Works]
    BY <1>1, <2>1 DEF Deliver
  <2> QED
    BY <1>1, <2>2 DEF Deliver, database
<1>2. ASSUME NEW c \in Consumers, Fail(c)
      PROVE  TypeOK'
  <2>1. Idle \in Works
    BY DEF Idle, Works
  <2>2. work' \in [Consumers -> Works]
    BY <1>2, <2>1 DEF Fail
  <2>3. failures' \in 0..MaxFailures
    BY <1>2, ConsumersAssumption DEF Fail
  <2> QED
    BY <1>2, <2>2, <2>3 DEF Fail, database
<1>3. ASSUME NEW c \in Consumers, Continue(c)
      PROVE  TypeOK'
  <2>0. work[c] \in Works
    OBVIOUS
  <2>1. ASSUME NEW pc \in {"selecting", "reading", "materializing", "appending", "acking"},
               NEW todo \in SUBSET Ledger, GoTo(c, pc, todo)
        PROVE  work' \in [Consumers -> Works]
    <3>1. [pc : {pc}, message : Messages \cup {NULL}, todo : {todo}] \subseteq Works
      BY DEF Works
    <3> QED
      BY <2>1, <3>1, GoToShape
  <2>2. CASE ApplyRegistration(c)
    <3>1. work' \in [Consumers -> Works]
      BY <2>1, <2>2 DEF ApplyRegistration
    <3>2. /\ identity' \in {"none", "active", "revoked"}
          /\ events' \subseteq IdentityEvents
          /\ pending' \subseteq pending
      BY <2>2, RegistrationShape
    <3> QED
      BY <2>2, <3>1, <3>2 DEF ApplyRegistration
  <2>3. CASE ApplyRevocation(c)
    <3>1. work' \in [Consumers -> Works]
      BY <2>1, <2>3 DEF ApplyRevocation
    <3>2. "revoked" \in IdentityEvents
      BY <2>0, <2>3 DEF ApplyRevocation, Working, StepOK, Busy, Messages, IdentityMessage
    <3> QED
      BY <2>3, <3>1, <3>2 DEF ApplyRevocation
  <2>4. CASE SelectDeviceEvents(c)
    BY <2>1, <2>4 DEF SelectDeviceEvents, database
  <2>5. CASE StoreDeviceEvent(c)
    <3>1. work[c].message.event \in Ledger
      BY <2>5, MessageFacts DEF StoreDeviceEvent, StepOK, Busy, IsDevice
    <3>2. work' \in [Consumers -> Works]
      BY <2>1, <2>5, <3>1 DEF StoreDeviceEvent
    <3> QED
      BY <2>5, <3>1, <3>2 DEF StoreDeviceEvent
  <2>6. CASE ReadAnchor(c)
    <3>1. work[c].todo \subseteq Ledger
      BY <2>0 DEF Works
    <3> QED
      BY <2>1, <2>6, <3>1 DEF ReadAnchor, database
  <2>7. CASE Materialize(c)
    <3>1. PICK n \in work[c].todo :
            /\ deviceRow' = [deviceRow EXCEPT ![DeviceLog[n].device] = Upserted(@, n)]
            /\ head' = IF head < n THEN n ELSE head
            /\ GoTo(c, IF work[c].todo \ {n} = {} THEN "appending" ELSE "materializing",
                    work[c].todo \ {n})
      BY <2>7 DEF Materialize
    <3>2. n \in Ledger /\ n \in Nat /\ work[c].todo \ {n} \in SUBSET Ledger
      BY <2>0, MessageFacts DEF Works
    <3>3. work' \in [Consumers -> Works]
      BY <2>1, <3>1, <3>2
    <3>4. deviceRow' \in [Devices -> Rows]
      BY <3>1, <3>2, EventFields, UpsertedFacts
    <3> QED
      BY <2>7, <3>1, <3>2, <3>3, <3>4 DEF Materialize
  <2>8. CASE AppendToLog(c)
    <3>1. work[c].message \in Messages
      BY <2>8 DEF AppendToLog, StepOK, Busy
    <3>2. work' \in [Consumers -> Works]
      BY <2>1, <2>8 DEF AppendToLog
    <3> QED
      BY <2>8, <3>1, <3>2 DEF AppendToLog, database
  <2>9. CASE Ack(c)
    <3>1. work[c].message \in Messages
      BY <2>9 DEF Ack, StepOK, Busy
    <3>2. Idle \in Works
      BY DEF Idle, Works
    <3>3. work' \in [Consumers -> Works]
      BY <2>9, <3>2 DEF Ack
    <3> QED
      BY <2>9, <3>1, <3>3 DEF Ack, database
  <2> QED
    BY <1>3, <2>2, <2>3, <2>4, <2>5, <2>6, <2>7, <2>8, <2>9 DEF Continue
<1> QED
  BY <1>1, <1>2, <1>3 DEF Next

\* What the database gains it never loses.
Grows ==
  /\ identity # "none" => identity' # "none"
  /\ identity = "revoked" => identity' = "revoked"
  /\ deviceEvents \subseteq deviceEvents'
  /\ head <= head'
  /\ \A d \in Devices :
       /\ deviceRow[d].sequence <= deviceRow'[d].sequence
       /\ deviceRow[d].state = "revoked" => deviceRow'[d] = deviceRow[d]

LEMMA DatabaseGrows ==
  ASSUME TypeOK, [Next]_vars
  PROVE  Grows
<1>0. /\ head \in Nat
      /\ \A d \in Devices : deviceRow[d] \in Rows /\ deviceRow[d].sequence \in Nat
  BY DEF TypeOK, Rows
<1>1. CASE UNCHANGED database
  BY <1>0, <1>1 DEF Grows, database
<1>2. ASSUME NEW c \in Consumers, ApplyRegistration(c) PROVE Grows
  BY <1>0, <1>2, RegistrationShape DEF ApplyRegistration, Grows
<1>3. ASSUME NEW c \in Consumers, ApplyRevocation(c) PROVE Grows
  BY <1>0, <1>3, RevocationShape DEF ApplyRevocation, Grows
<1>4. ASSUME NEW c \in Consumers, StoreDeviceEvent(c) PROVE Grows
  BY <1>0, <1>4 DEF StoreDeviceEvent, Grows
<1>5. ASSUME NEW c \in Consumers, Materialize(c) PROVE Grows
  <2>1. PICK n \in work[c].todo :
          /\ deviceRow' = [deviceRow EXCEPT ![DeviceLog[n].device] = Upserted(@, n)]
          /\ head' = IF head < n THEN n ELSE head
    BY <1>5 DEF Materialize
  <2>2. n \in Ledger /\ n \in Nat
    BY MessageFacts DEF TypeOK, Works
  <2>3. DeviceLog[n].device \in Devices
    BY <2>2, EventFields
  <2>4. \A d \in Devices : /\ deviceRow[d].sequence <= deviceRow'[d].sequence
                           /\ deviceRow[d].state = "revoked" => deviceRow'[d] = deviceRow[d]
    BY <1>0, <2>1, <2>2, <2>3, UpsertedFacts DEF TypeOK
  <2> QED
    BY <1>0, <1>5, <2>1, <2>2, <2>4 DEF Materialize, Grows
<1> QED
  BY <1>1, <1>2, <1>3, <1>4, <1>5
  DEF Next, Continue, Deliver, SelectDeviceEvents, ReadAnchor, AppendToLog, Ack, Fail, vars,
      database

\* An event that took effect stays in effect.
LEMMA EffectsAreKept ==
  ASSUME TypeOK, TypeOK', Grows, NEW n \in Ledger, Effective(n)
  PROVE  Effective(n)'
<1> DEFINE d == DeviceLog[n].device
<1>1. d \in Devices /\ n \in Nat
  BY EventFields, MessageFacts
<1>2. /\ head \in Nat /\ head' \in Nat
      /\ deviceRow[d].sequence \in Nat /\ deviceRow'[d].sequence \in Nat
  BY <1>1 DEF TypeOK, Rows
<1> QED
  BY <1>1, <1>2 DEF Effective, Grows

\* The event a consumer materializes takes effect.
LEMMA MaterializeShape ==
  ASSUME TypeOK, NEW c \in Consumers, Materialize(c)
  PROVE  \E n \in work[c].todo :
           /\ n \in Ledger
           /\ Effective(n)'
           /\ deviceRow' = [deviceRow EXCEPT ![DeviceLog[n].device] = Upserted(@, n)]
           /\ head' \in {head, n}
           /\ GoTo(c, IF work[c].todo \ {n} = {} THEN "appending" ELSE "materializing",
                   work[c].todo \ {n})
<1>1. PICK n \in work[c].todo :
        /\ deviceRow' = [deviceRow EXCEPT ![DeviceLog[n].device] = Upserted(@, n)]
        /\ head' = IF head < n THEN n ELSE head
        /\ GoTo(c, IF work[c].todo \ {n} = {} THEN "appending" ELSE "materializing",
                work[c].todo \ {n})
  BY DEF Materialize
<1> DEFINE d == DeviceLog[n].device
<1>2. n \in Ledger /\ n \in Nat /\ head \in Nat
  BY MessageFacts DEF TypeOK, Works
<1>3. d \in Devices /\ deviceRow[d] \in Rows
  BY <1>2, EventFields DEF TypeOK
<1>4. deviceRow'[d] = Upserted(deviceRow[d], n)
  BY <1>1, <1>3 DEF TypeOK
<1>5. deviceRow'[d].sequence >= n \/ deviceRow'[d].state = "revoked"
  BY <1>2, <1>3, <1>4, UpsertedFacts
<1>6. head' >= n /\ head' \in {head, n}
  BY <1>1, <1>2
<1> QED
  BY <1>1, <1>2, <1>5, <1>6 DEF Effective

-----------------------------------------------------------------------------
(* One lemma for each part of the invariant *)

LEMMA NextKeepsStepOK ==
  ASSUME TypeOK, \A c \in Consumers : StepOK(work[c]), Next, NEW x \in Consumers
  PROVE  StepOK(work[x])'
<1>0. Grows
  BY DatabaseGrows
<1>1. ASSUME work'[x] = work[x] PROVE StepOK(work[x])'
  BY <1>0, <1>1 DEF StepOK, Grows
<1>2. ASSUME NEW c \in Consumers, NEW m \in Messages, Deliver(c, m)
      PROVE  StepOK(work[x])'
  <2>1. CASE x = c
    <3>1. work'[c] = [pc |-> "applying", message |-> m, todo |-> {}]
      BY <1>2 DEF Deliver, TypeOK
    <3> QED
      BY <2>1, <3>1 DEF StepOK, Beyond
  <2> QED
    BY <1>1, <1>2, <2>1 DEF Deliver, TypeOK
<1>3. ASSUME NEW c \in Consumers, Ack(c) \/ Fail(c)
      PROVE  StepOK(work[x])'
  <2>1. CASE x = c
    <3>1. work'[c] = Idle
      BY <1>3 DEF Ack, Fail, TypeOK
    <3> QED
      BY <2>1, <3>1 DEF StepOK, Beyond, Busy, Idle
  <2> QED
    BY <1>1, <1>3, <2>1 DEF Ack, Fail, TypeOK
<1>4. ASSUME NEW c \in Consumers, NEW pc, NEW todo, GoTo(c, pc, todo), x # c
      PROVE  StepOK(work[x])'
  BY <1>1, <1>4, GoToShape DEF Others
<1>5. ASSUME NEW c \in Consumers, x = c, Continue(c), ~Ack(c)
      PROVE  StepOK(work[x])'
  <2> DEFINE w == work[c]
             m == work[c].message
  <2>0. StepOK(w)
    OBVIOUS
  <2>1. CASE ApplyRegistration(c)
    <3>1. work'[c].pc = "selecting" /\ work'[c].todo = {} /\ work'[c].message = Registration
      BY <2>1, GoToShape DEF ApplyRegistration, Working, Registration
    <3> QED
      BY <1>5, <2>1, <3>1, RegistrationShape, MessageFacts DEF StepOK, Beyond, Busy
  <2>2. CASE ApplyRevocation(c)
    <3>1. /\ work'[c].pc = "appending" /\ work'[c].todo = {} /\ work'[c].message = m
          /\ m = IdentityMessage("revoked")
      BY <2>2, GoToShape DEF ApplyRevocation, Working
    <3>2. m \in Messages
      BY <2>0, <2>2 DEF StepOK, Busy, ApplyRevocation, Working
    <3>3. m # Registration /\ ~IsDevice(m)
      BY <3>1 DEF Registration, IdentityMessage, IsDevice
    <3> QED
      BY <1>5, <3>1, <3>2, <3>3 DEF StepOK
  <2>3. CASE SelectDeviceEvents(c)
    <3>1. /\ work'[c].pc \in {"appending", "materializing"} /\ work'[c].todo = deviceEvents
          /\ work'[c].message = m /\ m = Registration /\ m \in Messages
          /\ identity' = identity /\ identity # "none" /\ deviceEvents' = deviceEvents
      BY <2>0, <2>3, GoToShape DEF SelectDeviceEvents, StepOK, Busy, Beyond, database
    <3> QED
      BY <1>5, <3>1, MessageFacts DEF StepOK
  <2>4. CASE StoreDeviceEvent(c)
    <3>1. /\ work'[c].pc = "reading" /\ work'[c].todo = {m.event} /\ work'[c].message = m
          /\ m \in Messages /\ IsDevice(m) /\ deviceEvents' = deviceEvents \cup {m.event}
      BY <2>0, <2>4, GoToShape DEF StoreDeviceEvent, StepOK, Busy, IsDevice
    <3> QED
      BY <1>5, <3>1, MessageFacts DEF StepOK
  <2>5. CASE ReadAnchor(c)
    <3>1. /\ work'[c].pc \in {"appending", "materializing"} /\ work'[c].message = m
          /\ (work'[c].todo = {} \/ work'[c].todo = w.todo)
          /\ work'[c].pc = "materializing" => work'[c].todo = w.todo
          /\ m \in Messages /\ IsDevice(m) /\ w.todo = {m.event}
          /\ m.event \in deviceEvents /\ deviceEvents' = deviceEvents
      BY <2>0, <2>5, GoToShape DEF ReadAnchor, StepOK, Busy, Beyond, database
    <3> QED
      BY <1>5, <3>1, MessageFacts DEF StepOK
  <2>6. CASE Materialize(c)
    <3>0. PICK n \in w.todo : GoTo(c, IF w.todo \ {n} = {} THEN "appending" ELSE "materializing",
                                   w.todo \ {n})
      BY <2>6 DEF Materialize
    <3>1. /\ work'[c].pc \in {"appending", "materializing"}
          /\ work'[c].message = m /\ work'[c].todo = w.todo \ {n}
          /\ work'[c].pc = "materializing" => w.todo \ {n} # {}
      BY <3>0, GoToShape
    <3>2. /\ m \in Messages /\ (m = Registration \/ IsDevice(m))
          /\ IsDevice(m) => w.todo = {m.event} /\ m.event \in deviceEvents
          /\ m = Registration => identity # "none"
          /\ w.todo \subseteq deviceEvents
      BY <2>0, <2>6 DEF Materialize, StepOK, Busy, Beyond
    <3> QED
      BY <1>0, <1>5, <3>1, <3>2, MessageFacts DEF StepOK, Grows
  <2>7. CASE AppendToLog(c)
    <3>1. /\ work'[c].pc = "acking" /\ work'[c].todo = {} /\ work'[c].message = m
          /\ m \in Messages
          /\ IsDevice(m) => m.event \in deviceEvents
          /\ m = Registration => identity # "none"
      BY <2>0, <2>7, GoToShape DEF AppendToLog, StepOK, Busy, Beyond
    <3> QED
      BY <1>0, <1>5, <3>1 DEF StepOK, Grows
  <2> QED
    BY <1>5, <2>1, <2>2, <2>3, <2>4, <2>5, <2>6, <2>7 DEF Continue
<1>6. ASSUME NEW c \in Consumers, Continue(c), ~Ack(c), x # c
      PROVE  StepOK(work[x])'
  BY <1>4, <1>6
  DEF Continue, ApplyRegistration, ApplyRevocation, SelectDeviceEvents, StoreDeviceEvent,
      ReadAnchor, Materialize, AppendToLog
<1> QED
  BY <1>2, <1>3, <1>5, <1>6 DEF Next

LEMMA NextKeepsAnchor ==
  ASSUME TypeOK, \A c \in Consumers : StepOK(work[c]), AnchorOK, Next
  PROVE  AnchorOK'
<1>0. Grows
  BY DatabaseGrows
<1>1. CASE acked' = acked
  BY <1>0, <1>1 DEF AnchorOK, Grows
<1>2. ASSUME NEW c \in Consumers, Ack(c) PROVE AnchorOK'
  BY <1>0, <1>2 DEF Ack, AnchorOK, StepOK, Beyond, Grows
<1> QED
  BY <1>1, <1>2
  DEF Next, Continue, Deliver, ApplyRegistration, ApplyRevocation, SelectDeviceEvents,
      StoreDeviceEvent, ReadAnchor, Materialize, AppendToLog, Fail

LEMMA NextKeepsIdentity ==
  ASSUME TypeOK, RowMatchesEvents, Next
  PROVE  RowMatchesEvents'
<1>1. CASE UNCHANGED <<identity, events, pending>>
  BY <1>1 DEF RowMatchesEvents
<1> QED
  BY <1>1, RegistrationShape, RevocationShape
  DEF Next, Continue, Deliver, SelectDeviceEvents, StoreDeviceEvent, ReadAnchor, Materialize,
      AppendToLog, Ack, Fail, database

LEMMA NextKeepsRows ==
  ASSUME TypeOK, \A c \in Consumers : StepOK(work[c]), RowsAreRecorded, Next
  PROVE  RowsAreRecorded'
<1>0. Grows
  BY DatabaseGrows
<1>1. CASE UNCHANGED <<deviceRow, head>>
  BY <1>0, <1>1 DEF RowsAreRecorded, Grows
<1>2. ASSUME NEW c \in Consumers, Materialize(c) PROVE RowsAreRecorded'
  <2>1. PICK n \in work[c].todo :
          /\ n \in Ledger
          /\ deviceRow' = [deviceRow EXCEPT ![DeviceLog[n].device] = Upserted(@, n)]
          /\ head' \in {head, n}
    BY <1>2, MaterializeShape
  <2>2. n \in deviceEvents /\ deviceEvents' = deviceEvents
    BY <1>2 DEF StepOK, Materialize
  <2>3. head' \in deviceEvents \cup {0}
    BY <2>1, <2>2 DEF RowsAreRecorded
  <2>4. ASSUME NEW d \in Devices
        PROVE  IF deviceRow'[d].state = "none"
                 THEN deviceRow'[d] = NoRow
                 ELSE /\ deviceRow'[d].sequence \in deviceEvents
                      /\ DeviceLog[deviceRow'[d].sequence].device = d
                      /\ deviceRow'[d].state =
                           IF DeviceLog[deviceRow'[d].sequence].type = "activated"
                             THEN "active" ELSE "revoked"
    <3>1. CASE deviceRow'[d] = deviceRow[d]
      BY <3>1 DEF RowsAreRecorded
    <3>2. CASE deviceRow'[d] # deviceRow[d]
      <4>1. d = DeviceLog[n].device /\ deviceRow'[d] = Upserted(deviceRow[d], n)
        BY <2>1, <3>2 DEF TypeOK
      <4>2. deviceRow[d] \in Rows
        BY DEF TypeOK
      <4>3. /\ deviceRow'[d].sequence = n
            /\ deviceRow'[d].state = IF DeviceLog[n].type = "activated" THEN "active" ELSE "revoked"
        BY <2>1, <3>2, <4>1, <4>2, UpsertedFacts
      <4> QED
        BY <2>2, <4>1, <4>3
    <3> QED
      BY <3>1, <3>2
  <2> QED
    BY <2>2, <2>3, <2>4 DEF RowsAreRecorded
<1> QED
  BY <1>1, <1>2
  DEF Next, Continue, Deliver, ApplyRegistration, ApplyRevocation, SelectDeviceEvents,
      StoreDeviceEvent, ReadAnchor, AppendToLog, Ack, Fail, database

\* How an event can be passed by: never.  The parts of NoneMissed that a step
\* of one consumer disturbs are the consumer's own.
Found(n) ==
  \/ Effective(n)
  \/ /\ Registration \notin acked
     /\ \A c \in Consumers : Busy(work[c]) /\ work[c].message = Registration => Holds(work[c], n)

LEMMA FoundStaysFound ==
  ASSUME IInv, TypeOK', Next, NEW n \in Ledger, n \in deviceEvents, Found(n)
  PROVE  Found(n)'
<1>0. TypeOK /\ Grows
  BY DatabaseGrows DEF IInv
<1>1. CASE Effective(n)
  BY <1>0, <1>1, EffectsAreKept DEF Found
<1>2. CASE ~Effective(n)
  <2>0. /\ Registration \notin acked
        /\ \A c \in Consumers : Busy(work[c]) /\ work[c].message = Registration => Holds(work[c], n)
    BY <1>2 DEF Found
  <2>1. ASSUME NEW c \in Consumers, Others(c), acked' = acked,
               Busy(work'[c]) /\ work'[c].message = Registration => Holds(work'[c], n)
        PROVE  Found(n)'
    BY <2>0, <2>1 DEF Found, Others, Busy, Holds
  <2>2. ASSUME NEW c \in Consumers, NEW m \in Messages, Deliver(c, m)
        PROVE  Found(n)'
    <3>1. /\ work'[c].pc = "applying" /\ Others(c) /\ acked' = acked
      BY <1>0, <2>2 DEF Deliver, TypeOK, Others
    <3> QED
      BY <2>1, <3>1 DEF Holds
  <2>3. ASSUME NEW c \in Consumers, Fail(c)
        PROVE  Found(n)'
    <3>1. /\ work'[c].pc = "idle" /\ Others(c) /\ acked' = acked
      BY <1>0, <2>3 DEF Fail, TypeOK, Others, Idle
    <3> QED
      BY <2>1, <3>1 DEF Busy
  <2>4. ASSUME NEW c \in Consumers, Continue(c)
        PROVE  Found(n)'
    <3> DEFINE w == work[c]
    <3>0. StepOK(w)
      BY DEF IInv
    <3>1. CASE ApplyRegistration(c)
      <4>1. /\ work'[c].pc = "selecting" /\ Others(c) /\ acked' = acked
        BY <1>0, <3>1, GoToShape DEF ApplyRegistration
      <4> QED
        BY <2>1, <4>1 DEF Holds
    <3>2. CASE ApplyRevocation(c)
      <4>1. /\ work'[c].message # Registration /\ Others(c) /\ acked' = acked
        BY <1>0, <3>2, GoToShape DEF ApplyRevocation, Working, Registration, IdentityMessage
      <4> QED
        BY <2>1, <4>1
    <3>3. CASE SelectDeviceEvents(c)
      <4>1. /\ work'[c].pc = "materializing" /\ work'[c].todo = deviceEvents
            /\ Others(c) /\ acked' = acked
        BY <1>0, <3>3, GoToShape DEF SelectDeviceEvents
      <4> QED
        BY <2>1, <4>1 DEF Holds
    <3>4. CASE StoreDeviceEvent(c) \/ ReadAnchor(c)
      <4>1. /\ work'[c].message = w.message /\ IsDevice(w.message)
            /\ Others(c) /\ acked' = acked
        BY <1>0, <3>0, <3>4, GoToShape DEF StoreDeviceEvent, ReadAnchor, StepOK, IsDevice
      <4> QED
        BY <2>1, <4>1, MessageFacts
    <3>5. CASE Materialize(c)
      <4>1. PICK m \in w.todo :
              /\ Effective(m)'
              /\ GoTo(c, IF w.todo \ {m} = {} THEN "appending" ELSE "materializing",
                      w.todo \ {m})
        BY <1>0, <3>5, MaterializeShape
      <4>2. CASE m = n
        BY <4>1, <4>2 DEF Found
      <4>3. CASE m # n
        <5>1. /\ Others(c) /\ acked' = acked /\ work'[c].message = w.message
              /\ work'[c].todo = w.todo \ {m}
              /\ n \in w.todo => work'[c].pc = "materializing"
          BY <1>0, <3>5, <4>1, <4>3, GoToShape DEF Materialize
        <5>2. w.pc = "materializing"
          BY <3>5 DEF Materialize
        <5> QED
          BY <2>0, <2>1, <4>3, <5>1, <5>2 DEF Busy, Holds
      <4> QED
        BY <4>2, <4>3
    <3>6. CASE AppendToLog(c)
      <4>1. /\ Others(c) /\ acked' = acked /\ work'[c].message = w.message
            /\ w.pc = "appending"
        BY <1>0, <3>6, GoToShape DEF AppendToLog
      <4> QED
        BY <2>0, <2>1, <4>1 DEF Busy, Holds
    <3>7. CASE Ack(c)
      <4>1. /\ work'[c].pc = "idle" /\ Others(c)
            /\ acked' = acked \cup {w.message} /\ w.pc = "acking"
        BY <1>0, <3>7 DEF Ack, Idle, Others, TypeOK
      <4>2. w.message # Registration
        BY <2>0, <4>1 DEF Busy, Holds
      <4> QED
        BY <2>0, <4>1, <4>2 DEF Found, Others, Busy, Holds
    <3> QED
      BY <2>4, <3>1, <3>2, <3>3, <3>4, <3>5, <3>6, <3>7 DEF Continue
  <2> QED
    BY <2>2, <2>3, <2>4 DEF Next
<1> QED
  BY <1>1, <1>2

\* A step that settles an event has stored it and found the anchor missing, or
\* has materialized it.
LEMMA SettledIsFound ==
  ASSUME IInv, TypeOK', Next, NEW n \in Ledger, Settled(n)', ~Settled(n)
  PROVE  n \in deviceEvents /\ Found(n)'
<1>0. TypeOK /\ Grows
  BY DatabaseGrows DEF IInv
<1>1. PICK c \in Consumers :
        \/ /\ work'[c].message = DeviceMessage(n) /\ work'[c].pc \in {"appending", "acking"}
           /\ ~(work[c].message = DeviceMessage(n) /\ work[c].pc \in {"appending", "acking"})
        \/ /\ DeviceMessage(n) \in acked' \ acked
           /\ Ack(c)
  <2>1. CASE DeviceMessage(n) \in acked'
    <3>1. DeviceMessage(n) \notin acked
      BY DEF Settled
    <3>2. \E c \in Consumers : Ack(c)
      BY <2>1, <3>1
      DEF Next, Continue, Deliver, ApplyRegistration, ApplyRevocation, SelectDeviceEvents,
          StoreDeviceEvent, ReadAnchor, Materialize, AppendToLog, Fail
    <3> QED
      BY <2>1, <3>1, <3>2
  <2>2. CASE DeviceMessage(n) \notin acked'
    BY <2>2 DEF Settled
  <2> QED
    BY <2>1, <2>2
<1> DEFINE w == work[c]
<1>2. StepOK(w)
  BY DEF IInv
<1>3. ~Ack(c)
  <2> SUFFICES ASSUME Ack(c) PROVE FALSE
    OBVIOUS
  <2>1. work'[c].pc = "idle" /\ acked' = acked \cup {w.message} /\ w.pc = "acking"
    BY <1>0 DEF Ack, Idle, TypeOK
  <2>2. w.message = DeviceMessage(n)
    BY <1>1, <2>1
  <2> QED
    BY <2>1, <2>2 DEF Settled
<1>4. /\ work'[c].message = DeviceMessage(n) /\ work'[c].pc \in {"appending", "acking"}
      /\ ~(w.message = DeviceMessage(n) /\ w.pc \in {"appending", "acking"})
  BY <1>1, <1>3
<1>5. work'[c] # work[c]
  BY <1>4
<1>6. Continue(c)
  <2>1. ASSUME NEW x \in Consumers, NEW m \in Messages, Deliver(x, m) PROVE FALSE
    BY <1>0, <1>4, <1>5, <2>1 DEF Deliver, TypeOK
  <2>2. ASSUME NEW x \in Consumers, Fail(x) \/ Ack(x) PROVE FALSE
    BY <1>0, <1>4, <1>5, <2>2 DEF Fail, Ack, TypeOK, Idle
  <2>3. ASSUME NEW x \in Consumers, Continue(x), ~Ack(x) PROVE x = c
    <3>1. PICK pc, todo : GoTo(x, pc, todo)
      BY <2>3
      DEF Continue, ApplyRegistration, ApplyRevocation, SelectDeviceEvents, StoreDeviceEvent,
          ReadAnchor, Materialize, AppendToLog
    <3>2. Others(x)
      BY <1>0, <3>1, GoToShape
    <3> QED
      BY <1>5, <3>2 DEF Others
  <2> QED
    BY <2>1, <2>2, <2>3 DEF Next
<1>7. IsDevice(DeviceMessage(n)) /\ DeviceMessage(n) # Registration /\ DeviceMessage(n).event = n
  BY MessageFacts
<1>8. CASE ReadAnchor(c)
  <2>1. /\ identity = "none" /\ w.pc = "reading" /\ w.message = DeviceMessage(n)
        /\ acked' = acked /\ Others(c)
    BY <1>0, <1>4, <1>8, GoToShape DEF ReadAnchor
  <2>2. n \in deviceEvents
    BY <1>2, <1>7, <2>1 DEF StepOK, Beyond
  <2>3. Registration \notin acked
    BY <2>1 DEF IInv, AnchorOK
  <2>4. \A x \in Consumers : Busy(work[x]) /\ work[x].message = Registration =>
          work[x].pc = "applying"
    BY <2>1 DEF IInv, StepOK, Beyond, Busy
  <2>5. \A x \in Consumers : Busy(work'[x]) /\ work'[x].message = Registration =>
          Holds(work'[x], n)
    BY <1>4, <1>7, <2>1, <2>4 DEF Others, Holds
  <2> QED
    BY <2>1, <2>2, <2>3, <2>5 DEF Found
<1>9. CASE Materialize(c)
  <2>1. PICK m \in w.todo :
          /\ Effective(m)'
          /\ GoTo(c, IF w.todo \ {m} = {} THEN "appending" ELSE "materializing",
                  w.todo \ {m})
    BY <1>0, <1>9, MaterializeShape
  <2>2. w.message = DeviceMessage(n) /\ w.pc = "materializing"
    BY <1>0, <1>4, <1>9, <2>1, GoToShape DEF Materialize
  <2>3. w.todo = {n} /\ n \in deviceEvents
    BY <1>2, <1>7, <2>2 DEF StepOK, Beyond
  <2> QED
    BY <2>1, <2>3 DEF Found
<1>10. CASE ApplyRegistration(c) \/ ApplyRevocation(c) \/ SelectDeviceEvents(c)
  <2>1. work'[c].message = w.message /\ ~IsDevice(w.message)
    BY <1>0, <1>2, <1>10, GoToShape, MessageFacts
    DEF ApplyRegistration, ApplyRevocation, SelectDeviceEvents, Working, IsDevice,
        IdentityMessage, StepOK
  <2> QED
    BY <1>4, <1>7, <2>1
<1>11. CASE StoreDeviceEvent(c)
  BY <1>0, <1>4, <1>11, GoToShape DEF StoreDeviceEvent
<1>12. CASE AppendToLog(c)
  BY <1>0, <1>4, <1>12, GoToShape DEF AppendToLog
<1> QED
  BY <1>3, <1>6, <1>8, <1>9, <1>10, <1>11, <1>12 DEF Continue

LEMMA NextKeepsNoneMissed ==
  ASSUME IInv, TypeOK', Next
  PROVE  NoneMissed'
<1>0. Grows
  BY DatabaseGrows DEF IInv
<1> SUFFICES ASSUME NEW n \in Ledger, Settled(n)'
             PROVE  n \in deviceEvents' /\ Found(n)'
  BY DEF NoneMissed, Found
<1>1. CASE Settled(n)
  <2>1. n \in deviceEvents /\ Found(n)
    BY <1>1 DEF IInv, NoneMissed, Found
  <2> QED
    BY <1>0, <2>1, FoundStaysFound DEF Grows
<1>2. CASE ~Settled(n)
  BY <1>0, <1>2, SettledIsFound DEF Grows
<1> QED
  BY <1>1, <1>2

\* The inductive invariant: types, what consumers hold at each step, and that
\* the two halves of the projection see each other.
THEOREM InvHolds == Spec => []IInv
<1>1. Init => IInv
  <2> SUFFICES ASSUME Init PROVE IInv
    OBVIOUS
  <2> USE DEF Init
  <2>1. TypeOK
    <3>1. NoRow \in Rows
      BY DEF NoRow, Rows
    <3>2. Idle \in Works
      BY DEF Idle, Works
    <3> QED
      BY <3>1, <3>2, ConsumersAssumption DEF TypeOK
  <2>2. \A c \in Consumers : StepOK(work[c])
    BY DEF StepOK, Idle, Busy, Beyond
  <2>3. AnchorOK /\ RowMatchesEvents
    BY DEF AnchorOK, RowMatchesEvents
  <2>4. RowsAreRecorded
    BY DEF RowsAreRecorded, NoRow
  <2>5. NoneMissed
    BY DEF NoneMissed, Settled, Idle
  <2> QED
    BY <2>1, <2>2, <2>3, <2>4, <2>5 DEF IInv
<1>2. IInv /\ [Next]_vars => IInv'
  <2>1. CASE IInv /\ Next
    <3>1. TypeOK'
      BY <2>1, NextKeepsTypeOK DEF IInv
    <3>2. \A c \in Consumers : StepOK(work[c])'
      BY <2>1, NextKeepsStepOK DEF IInv
    <3>3. AnchorOK' /\ RowMatchesEvents' /\ RowsAreRecorded'
      BY <2>1, NextKeepsAnchor, NextKeepsIdentity, NextKeepsRows DEF IInv
    <3>4. NoneMissed'
      BY <2>1, <3>1, NextKeepsNoneMissed
    <3> QED
      BY <3>1, <3>2, <3>3, <3>4 DEF IInv
  <2>2. CASE IInv /\ UNCHANGED vars
    <3> USE <2>2 DEF vars
    <3>1. TypeOK' /\ AnchorOK' /\ RowMatchesEvents' /\ RowsAreRecorded'
      BY DEF IInv, TypeOK, AnchorOK, RowMatchesEvents, RowsAreRecorded
    <3>2. \A c \in Consumers : StepOK(work[c])'
      BY DEF IInv, StepOK
    <3>3. NoneMissed'
      BY DEF IInv, NoneMissed, Settled, Effective, Holds
    <3> QED
      BY <3>1, <3>2, <3>3 DEF IInv
  <2> QED
    BY <2>1, <2>2
<1> QED
  BY <1>1, <1>2, PTL DEF Spec

\* The identity row, the events applied to it and those that wait for it tell
\* one story between any two batches, in whatever order they were delivered.
THEOREM IdentityAgreesWithEvents == Spec => []RowMatchesEvents
<1>1. IInv => RowMatchesEvents
  BY DEF IInv
<1> QED
  BY <1>1, InvHolds, PTL

\* Once a registration and a device event are both acknowledged the event has
\* taken effect: neither consumer leaves it to the other.
THEOREM NoEventIsStranded == Spec => []NothingIsStranded
<1>1. ASSUME IInv PROVE NothingIsStranded
  <2> SUFFICES ASSUME NEW n \in Ledger, DeviceMessage(n) \in acked,
                      IdentityMessage("registered") \in acked
               PROVE  Effective(n)
    BY DEF NothingIsStranded, Effective
  <2> QED
    BY <1>1 DEF IInv, NoneMissed, Settled, Registration
<1> QED
  BY <1>1, InvHolds, PTL

\* A row of the projection is the outcome of an event the registry recorded for
\* that device, and the head the sequence of one: nothing is made up or mixed up
\* by late, repeated or concurrent deliveries.
THEOREM RowsComeFromTheLedger == Spec => []RowsAreRecorded
<1>1. IInv => RowsAreRecorded
  BY DEF IInv
<1> QED
  BY <1>1, InvHolds, PTL

\* Stale and repeated deliveries move nothing backwards.
THEOREM NothingMovesBack == Spec => ProjectionMovesForward
<1>1. IInv /\ [Next]_vars =>
        [/\ identity = "revoked" => identity' = "revoked"
         /\ identity = "active" => identity' # "none"
         /\ head <= head'
         /\ \A d \in Devices :
              /\ deviceRow[d].sequence <= deviceRow'[d].sequence
              /\ deviceRow[d].state = "revoked" => deviceRow'[d] = deviceRow[d]]_vars
  BY DatabaseGrows DEF IInv, Grows
<1> QED
  BY <1>1, InvHolds, PTL DEF Spec, ProjectionMovesForward

-----------------------------------------------------------------------------
(* What the projection has come to when everything is acknowledged *)

Revocation == IdentityMessage("revoked")

\* A revocation that was applied has revoked the row or waits for it.
RevocationOK ==
  \/ identity = "revoked"
  \/ "revoked" \in pending
  \/ /\ Revocation \notin acked
     /\ \A c \in Consumers : work[c].message = Revocation => work[c].pc \notin {"appending", "acking"}

\* What is acknowledged was appended to the log before.
LoggedOK ==
  /\ acked \subseteq logged
  /\ \A c \in Consumers : work[c].pc = "acking" => work[c].message \in logged

AllAcknowledged == acked = Messages

\* Only the two identity batches touch the identity's rows, and what a consumer
\* of a revocation has done before it appends is its batch.
LEMMA RevocationStep ==
  ASSUME IInv, RevocationOK, Next
  PROVE  RevocationOK'
<1>0. TypeOK /\ \A c \in Consumers : StepOK(work[c])
  BY DEF IInv
<1>1. Revocation.queue = "events" /\ Revocation # Registration /\ ~IsDevice(Revocation)
  BY DEF Revocation, Registration, IdentityMessage, IsDevice
<1>2. ASSUME NEW c \in Consumers, NEW pc, NEW todo, GoTo(c, pc, todo), UNCHANGED <<identity, pending, acked>>,
             work[c].message = Revocation /\ pc \in {"appending", "acking"} =>
               work[c].pc \in {"appending", "acking"}
      PROVE  RevocationOK'
  BY <1>0, <1>2, GoToShape DEF RevocationOK, Others
<1>3. ASSUME NEW c \in Consumers, work' = [work EXCEPT ![c] = Idle], UNCHANGED <<identity, pending>>,
             acked' \subseteq acked \cup (IF work[c].pc = "acking" THEN {work[c].message} ELSE {})
      PROVE  RevocationOK'
  BY <1>0, <1>3 DEF RevocationOK, Idle, TypeOK
<1>4. ASSUME NEW c \in Consumers, NEW m \in Messages, Deliver(c, m) PROVE RevocationOK'
  BY <1>0, <1>4 DEF RevocationOK, Deliver, database, TypeOK
<1>5. ASSUME NEW c \in Consumers, Fail(c) PROVE RevocationOK'
  BY <1>3, <1>5 DEF Fail, database
<1>6. ASSUME NEW c \in Consumers, ApplyRegistration(c) PROVE RevocationOK'
  <2>1. GoTo(c, "selecting", {}) /\ UNCHANGED acked
    BY <1>6 DEF ApplyRegistration
  <2>2. "revoked" \in pending => identity' = "revoked"
    <3>1. "revoked" \in pending => identity = "none"
      BY DEF IInv, RowMatchesEvents
    <3> QED
      BY <1>6, <3>1 DEF ApplyRegistration
  <2>3. identity = "revoked" => identity' = "revoked"
    BY <1>0, <1>6, RegistrationShape
  <2> QED
    BY <1>0, <2>1, <2>2, <2>3, GoToShape DEF RevocationOK, Others
<1>7. ASSUME NEW c \in Consumers, ApplyRevocation(c) PROVE RevocationOK'
  BY <1>7 DEF ApplyRevocation, RevocationOK
<1>8. ASSUME NEW c \in Consumers, Ack(c) PROVE RevocationOK'
  BY <1>3, <1>8 DEF Ack, database
<1>9. ASSUME NEW c \in Consumers,
             \/ SelectDeviceEvents(c) \/ StoreDeviceEvent(c) \/ ReadAnchor(c) \/ Materialize(c)
             \/ AppendToLog(c)
      PROVE  RevocationOK'
  <2>1. PICK pc, todo : GoTo(c, pc, todo) /\ UNCHANGED <<identity, pending, acked>>
    BY <1>9 DEF SelectDeviceEvents, StoreDeviceEvent, ReadAnchor, Materialize, AppendToLog, database
  <2>2. work[c].message = Revocation => AppendToLog(c)
    <3>1. work[c].message = Revocation => work[c].pc \notin {"selecting", "reading", "materializing"}
      BY <1>0, <1>1 DEF StepOK
    <3> QED
      BY <1>1, <1>9, <3>1 DEF SelectDeviceEvents, StoreDeviceEvent, ReadAnchor, Materialize
  <2>3. AppendToLog(c) => work[c].pc = "appending"
    BY DEF AppendToLog
  <2> QED
    BY <1>2, <2>1, <2>2, <2>3
<1> QED
  BY <1>4, <1>5, <1>6, <1>7, <1>8, <1>9 DEF Next, Continue

LEMMA LoggedStep ==
  ASSUME TypeOK, LoggedOK, Next
  PROVE  LoggedOK' /\ acked \subseteq acked'
<1>1. ASSUME NEW c \in Consumers, NEW pc, NEW todo, GoTo(c, pc, todo),
             logged \subseteq logged', UNCHANGED acked,
             pc = "acking" => work[c].message \in logged'
      PROVE  LoggedOK'
  BY <1>1, GoToShape DEF LoggedOK, Others
<1>2. ASSUME NEW c \in Consumers, work' = [work EXCEPT ![c] = Idle], UNCHANGED logged,
             acked' \subseteq logged
      PROVE  LoggedOK'
  BY <1>2 DEF LoggedOK, Idle, TypeOK
<1>3. ASSUME NEW c \in Consumers, NEW m \in Messages, Deliver(c, m)
      PROVE  LoggedOK' /\ acked \subseteq acked'
  BY <1>3 DEF LoggedOK, Deliver, TypeOK
<1>4. ASSUME NEW c \in Consumers, Fail(c) \/ Ack(c)
      PROVE  LoggedOK' /\ acked \subseteq acked'
  BY <1>2, <1>4 DEF Fail, Ack, LoggedOK
<1>5. ASSUME NEW c \in Consumers, AppendToLog(c)
      PROVE  LoggedOK' /\ acked \subseteq acked'
  BY <1>1, <1>5 DEF AppendToLog
<1>6. ASSUME NEW c \in Consumers,
             \/ ApplyRegistration(c) \/ ApplyRevocation(c) \/ SelectDeviceEvents(c)
             \/ StoreDeviceEvent(c) \/ ReadAnchor(c) \/ Materialize(c)
      PROVE  LoggedOK' /\ acked \subseteq acked'
  <2>1. PICK pc, todo : GoTo(c, pc, todo) /\ pc # "acking" /\ UNCHANGED <<logged, acked>>
    BY <1>6 DEF ApplyRegistration, ApplyRevocation, SelectDeviceEvents, StoreDeviceEvent,
                ReadAnchor, Materialize
  <2> QED
    BY <1>1, <2>1
<1> QED
  BY <1>3, <1>4, <1>5, <1>6 DEF Next, Continue

LEMMA AcknowledgedIsProjected ==
  ASSUME IInv, RevocationOK, LoggedOK, AllAcknowledged
  PROVE  Converged
<1>1. TypeOK /\ RowMatchesEvents /\ AnchorOK /\ RowsAreRecorded /\ NoneMissed
  BY DEF IInv
<1>2. Registration \in acked /\ \A n \in Ledger : DeviceMessage(n) \in acked
  BY MessageFacts DEF AllAcknowledged
<1>3. identity \in {"active", "revoked"} /\ pending = {}
  BY <1>1, <1>2 DEF AnchorOK, TypeOK, RowMatchesEvents
<1>4. identity = IF Revoked THEN "revoked" ELSE "active"
  <2>1. CASE Revoked
    <3>1. Revocation \in acked
      BY <2>1 DEF AllAcknowledged, Messages, IdentityEvents, Revocation, IdentityMessage
    <3> QED
      BY <1>3, <2>1, <3>1 DEF RevocationOK
  <2>2. CASE ~Revoked
    BY <1>1, <1>3, <2>2 DEF RowMatchesEvents, TypeOK, IdentityEvents
  <2> QED
    BY <2>1, <2>2
<1>5. \A n \in Ledger : Effective(n)
  BY <1>1, <1>2 DEF NoneMissed, Settled
<1>6. deviceEvents \subseteq Ledger /\ \A n \in Ledger : n \in Nat /\ n # 0
  BY <1>1, MessageFacts DEF TypeOK
<1>7. ASSUME NEW d \in Devices, NEW n \in LastOf(d)
      PROVE  /\ deviceRow[d].state = IF DeviceLog[n].type = "revoked" THEN "revoked" ELSE "active"
             /\ deviceRow[d].sequence = n
  <2> DEFINE row == deviceRow[d]
  <2>1. n \in Ledger /\ DeviceLog[n].device = d
        /\ \A m \in Ledger : DeviceLog[m].device = d => m <= n
    BY DEF LastOf
  <2>2. row.sequence >= n \/ row.state = "revoked"
    BY <1>5, <2>1 DEF Effective
  <2>3. row.state # "none"
    BY <1>1, <1>6, <2>1, <2>2 DEF RowsAreRecorded, NoRow
  <2>4. PICK m \in Ledger : /\ m = row.sequence /\ DeviceLog[m].device = d
                            /\ row.state = IF DeviceLog[m].type = "activated" THEN "active" ELSE "revoked"
    BY <1>1, <1>6, <2>3 DEF RowsAreRecorded
  <2>5. m \in Nat /\ n \in Nat /\ m <= n
    BY <1>6, <2>1, <2>4
  <2>6. m = n
    <3>1. m < n => DeviceLog[m].type = "activated"
      BY <2>1, <2>4, LedgerAssumption DEF IsLedger, Ledger
    <3> HIDE DEF row
    <3> QED
      BY <2>2, <2>4, <2>5, <3>1
  <2>7. DeviceLog[n].type \in {"activated", "revoked"}
    BY <2>1, EventFields
  <2> QED
    BY <2>4, <2>6, <2>7
<1>8. head = Len(DeviceLog)
  <2>1. Len(DeviceLog) \in Nat /\ Ledger = 1 .. Len(DeviceLog)
    BY LedgerAssumption DEF IsLedger, Ledger
  <2>2. head \in Ledger \cup {0}
    BY <1>1, <1>6 DEF RowsAreRecorded
  <2>3. \A n \in Ledger : head >= n
    BY <1>5 DEF Effective
  <2> QED
    BY <2>1, <2>2, <2>3
<1>9. logged = Messages
  BY <1>1 DEF LoggedOK, AllAcknowledged, TypeOK
<1> QED
  BY <1>3, <1>4, <1>7, <1>8, <1>9 DEF Converged

\* Every row shows what the ledger says of its device, "none" for no row.
RowsShowLedger == \A d \in Devices : deviceRow[d].state = StateAfter(DeviceLog, d)

LEMMA AcknowledgedIsShown ==
  ASSUME IInv, AllAcknowledged
  PROVE  RowsShowLedger
<1> SUFFICES ASSUME NEW d \in Devices PROVE deviceRow[d].state = StateAfter(DeviceLog, d)
  BY DEF RowsShowLedger
<1> DEFINE row == deviceRow[d]
<1>1. TypeOK /\ RowsAreRecorded /\ NoneMissed
  BY DEF IInv
<1>2. \A n \in Ledger : Effective(n)
  <2>1. \A n \in Ledger : DeviceMessage(n) \in acked
    BY MessageFacts DEF AllAcknowledged
  <2>2. Registration \in acked
    BY MessageFacts DEF AllAcknowledged
  <2> QED
    BY <1>1, <2>1, <2>2 DEF NoneMissed, Settled
<1>3. deviceEvents \subseteq Ledger /\ \A n \in Ledger : n \in Nat /\ n # 0
  BY <1>1, MessageFacts DEF TypeOK
<1>4. row \in Rows
  BY <1>1 DEF TypeOK
<1>5. CASE row.state = "none"
  <2>1. \A n \in Ledger : DeviceLog[n].device # d
    BY <1>1, <1>2, <1>3, <1>5 DEF Effective, RowsAreRecorded, NoRow
  <2> QED
    BY <1>5, <2>1 DEF StateAfter, Ledger
<1>6. CASE row.state # "none"
  <2>1. PICK m \in Ledger : /\ m = row.sequence /\ DeviceLog[m].device = d
                            /\ row.state = IF DeviceLog[m].type = "activated" THEN "active" ELSE "revoked"
    BY <1>1, <1>3, <1>6 DEF RowsAreRecorded
  <2>2. DeviceLog[m].type \in {"activated", "revoked"}
    BY EventFields
  <2>3. CASE DeviceLog[m].type = "revoked"
    BY <2>1, <2>3 DEF StateAfter, Ledger
  <2>4. CASE DeviceLog[m].type = "activated"
    <3>1. ASSUME NEW n \in Ledger, DeviceLog[n].device = d, DeviceLog[n].type = "revoked"
          PROVE  FALSE
      <4>1. m \in Nat /\ n \in Nat /\ m >= n
        BY <1>2, <1>3, <2>1, <2>4, <3>1 DEF Effective
      <4>2. m # n
        BY <2>4, <3>1
      <4>3. n < m => DeviceLog[n].type = "activated"
        BY <2>1, <3>1, LedgerAssumption DEF IsLedger, Ledger
      <4> QED
        BY <3>1, <4>1, <4>2, <4>3
    <3> QED
      BY <2>1, <2>4, <3>1 DEF StateAfter, Ledger
  <2> QED
    BY <2>2, <2>3, <2>4
<1> QED
  BY <1>5, <1>6

\* Once every message is acknowledged the projection is the registry's answer,
\* of each device what its ledger says, and the log has every event, for good:
\* late and repeated deliveries do not spoil it.  For any ledger that a registry
\* can deliver.
THEOREM AcknowledgedStaysProjected ==
  Spec => [](AllAcknowledged => [](Converged /\ RowsShowLedger))
<1> DEFINE Inv == IInv /\ RevocationOK /\ LoggedOK
<1>1. Init => RevocationOK /\ LoggedOK
  BY DEF Init, RevocationOK, LoggedOK, Idle
<1>2. Inv /\ IInv' /\ [Next]_vars => Inv' /\ (AllAcknowledged => AllAcknowledged')
  <2> SUFFICES ASSUME Inv, IInv', [Next]_vars
               PROVE  RevocationOK' /\ LoggedOK' /\ (AllAcknowledged => AllAcknowledged')
    OBVIOUS
  <2>1. CASE Next
    <3>1. RevocationOK' /\ LoggedOK' /\ acked \subseteq acked'
      BY <2>1, RevocationStep, LoggedStep DEF IInv
    <3>2. acked' \subseteq Messages
      BY DEF IInv, TypeOK
    <3> QED
      BY <3>1, <3>2 DEF AllAcknowledged
  <2>2. CASE UNCHANGED vars
    BY <2>2 DEF vars, RevocationOK, LoggedOK, AllAcknowledged
  <2> QED
    BY <2>1, <2>2
<1>3. Inv /\ AllAcknowledged => Converged /\ RowsShowLedger
  BY AcknowledgedIsProjected, AcknowledgedIsShown
<1> QED
  BY <1>1, <1>2, <1>3, InvHolds, PTL DEF Spec
=============================================================================
