------------------------ MODULE IdentityStateProofs ------------------------
(***************************************************************************)
(* Theorems about IdentityState, for any number of callers, devices,       *)
(* authorizations and requests and for any clock.                          *)
(*                                                                         *)
(* The invariants of the rows are not inductive alone: what a transaction  *)
(* writes was prepared before an await and sits in the method's locals.    *)
(* StoredOK says what the rows promise, CallsOK what a method in flight    *)
(* holds at each of its program points; together they are inductive.       *)
(***************************************************************************)
EXTENDS IdentityState, DeviceLedger, TLAPS

USE DEF Times

IsIdentityRevocation(r) == r.type \in {"revokeBySignature", "revokeBySecret"}

\* The rows, their types and how they agree.
StoredOK ==
  /\ identity \in Rows
  /\ actions \in Seq(IdentityEvents)
  /\ device \in [Devices -> DeviceRows]
  /\ ledger \in Nat
  /\ deviceLog \in Seq(DeviceEvents)
  /\ LifecycleMatchesActions
  /\ LedgerIsGapless
  /\ RowsMatchLog

\* What the locals of a method hold at its program point.
LocalsOK(k) ==
  /\ k.pc # "idle" => k.req \in Requests
  /\ k.pc = "arrived" => k.req.type = "register"
  /\ k.pc = "verifying" => k.req.type # "register"
  /\ k.pc \in {"verifying", "committing"} /\ k.req.type # "register" => k.seen \in Rows
  /\ k.pc \in {"verifying", "committing"} /\ IsIdentityRevocation(k.req) =>
       k.seen.sequence = 0 /\ k.at \in Nat
  /\ k.pc = "committing" => k.at \in Nat /\ k.next \in Nat
  /\ k.pc = "committing" /\ IsIdentityRevocation(k.req) => k.next = 1

CallsOK ==
  /\ call \in [Callers -> Calls]
  /\ gate \in Callers \cup {NULL}
  /\ kicked \in BOOLEAN
  /\ \A c \in Callers : LocalsOK(call[c])

ClockOK == now \in 0..MaxTime

\* Identity times: what was stamped was stamped in the past, and a revocation
\* in flight carries a time no earlier than the registration it revokes.
TimesOK ==
  /\ identity.state # "none" => identity.registeredAt <= now
  /\ \A c \in Callers :
       /\ call[c].pc = "committing" => call[c].at <= now
       /\ call[c].pc \in {"verifying", "committing"} /\ IsIdentityRevocation(call[c].req) =>
            identity.state # "none" /\ identity.registeredAt <= call[c].at

IInv == StoredOK /\ CallsOK /\ ClockOK

-----------------------------------------------------------------------------
(* Facts about the constants, replies and locals *)

\* A request of each kind carries the fields of its kind.
LEMMA RequestFields ==
  ASSUME NEW r \in Requests
  PROVE  /\ r.type = "register" => r \in RegisterRequests
         /\ IsIdentityRevocation(r) => r \in IdentityRevocations
         /\ IsDeviceRequest(r) => r \in DeviceRequests
         /\ r.type = "deviceStatus" => r \in DeviceStatusRequests
         /\ r.type \in {"register", "revokeBySignature", "revokeBySecret", "activate",
                        "revokeSelf", "revokeRoot", "status", "deviceStatus"}
  BY RequestsAssumption
  DEF RegisterRequests, IdentityRevocations, DeviceRequests, StatusRequests,
      DeviceStatusRequests, IsIdentityRevocation, IsDeviceRequest

LEMMA FailedIsReply ==
  ASSUME NEW code \in Codes
  PROVE  Failed(code) \in Replies
  BY DEF Failed, Replies

\* The answer about an identity row is a reply of the declared type.
LEMMA IdentityReplyIsReply ==
  ASSUME NEW row \in Rows
  PROVE  IdentityReply(row) \in Replies
<1>1. [state |-> row.state, sequence |-> row.sequence, registeredAt |-> row.registeredAt,
       revokedAt |-> row.revokedAt, event |-> row.sequence + 1] \in IdentityBodies
  BY DEF Rows, IdentityBodies
<1> QED
  BY <1>1 DEF IdentityReply, Succeeded, Replies, Codes

\* A receipt of an event that is in the log is a reply of the declared type.
LEMMA DeviceReceiptIsReply ==
  ASSUME NEW row \in DeviceRows, NEW log \in Seq(DeviceEvents),
         NEW n, n = NULL \/ n \in DOMAIN log
  PROVE  DeviceReceipt(row, log, n) \in Replies
<1>1. CASE row.state = "absent" \/ n = NULL
  BY <1>1, FailedIsReply DEF DeviceReceipt, Codes
<1>2. CASE ~(row.state = "absent" \/ n = NULL)
  <2>1. n \in Nat /\ log[n] \in DeviceEvents
    BY <1>2
  <2>2. [event |-> n, activatedAt |-> IF log[n].type = "activated" THEN log[n].acceptedAt
                                      ELSE row.activatedAt] \in ReceiptBodies
    BY <2>1 DEF ReceiptBodies, DeviceEvents, DeviceRows
  <2> QED
    BY <1>2, <2>2 DEF DeviceReceipt, Succeeded, Replies, Codes
<1> QED
  BY <1>1, <1>2

\* Returning leaves nothing in the locals but the request and the reply.
LEMMA AnswerKeepsCalls ==
  ASSUME CallsOK, NEW c \in Callers, call[c].pc # "idle", NEW reply \in Replies,
         NEW kicks \in BOOLEAN, Answer(c, reply, kicks)
  PROVE  CallsOK'
<1>1. call[c].req \in Requests
  BY DEF CallsOK, LocalsOK
<1>2. /\ call'[c] \in Calls
      /\ LocalsOK(call'[c])
  BY <1>1 DEF Answer, IdleCall, Calls, CallsOK, LocalsOK
<1>3. \A x \in Callers : x # c => call'[x] = call[x]
  BY DEF Answer, CallsOK
<1>4. call' \in [Callers -> Calls]
  BY <1>2, <1>3 DEF Answer, CallsOK
<1>5. gate' \in Callers \cup {NULL} /\ kicked' \in BOOLEAN
  BY DEF Answer, CallsOK
<1> QED
  BY <1>2, <1>3, <1>4, <1>5 DEF CallsOK

LEMMA AnswerAtOnceKeepsCalls ==
  ASSUME CallsOK, NEW c \in Callers, NEW r \in Requests, NEW reply \in Replies,
         NEW kicks \in BOOLEAN, AnswerAtOnce(c, r, reply, kicks)
  PROVE  CallsOK'
<1>2. /\ call'[c] \in Calls
      /\ LocalsOK(call'[c])
  BY DEF AnswerAtOnce, IdleCall, Calls, CallsOK, LocalsOK
<1>3. \A x \in Callers : x # c => call'[x] = call[x]
  BY DEF AnswerAtOnce, CallsOK
<1>4. call' \in [Callers -> Calls]
  BY <1>2, <1>3 DEF AnswerAtOnce, CallsOK
<1>5. gate' \in Callers \cup {NULL} /\ kicked' \in BOOLEAN
  BY DEF AnswerAtOnce, CallsOK
<1> QED
  BY <1>2, <1>3, <1>4, <1>5 DEF CallsOK

\* A method that has prepared its commit holds the time and the sequence.
LEMMA PrepareKeepsCalls ==
  ASSUME CallsOK, ClockOK, NEW c \in Callers, NEW next \in Nat, Prepare(c, next),
         call[c].pc \in {"arrived", "verifying"},
         IsIdentityRevocation(call[c].req) => next = 1
  PROVE  CallsOK'
<1>1. now \in Nat
  BY BoundsAssumption DEF ClockOK
<1>2. call'[c] = [call[c] EXCEPT !.pc = "committing", !.at = now, !.next = next]
  BY DEF Prepare, CallsOK
<1>3. call'[c] \in Calls
  BY ZenonT(40), <1>1, <1>2 DEF CallsOK, Calls
<1>4. LocalsOK(call'[c])
  BY <1>1, <1>2 DEF CallsOK, Calls, LocalsOK, IsIdentityRevocation
<1>5. \A x \in Callers : x # c => call'[x] = call[x]
  BY DEF Prepare, CallsOK
<1>6. call' \in [Callers -> Calls]
  BY <1>3, <1>5 DEF Prepare, CallsOK
<1> QED
  BY <1>4, <1>5, <1>6 DEF CallsOK, Prepare

-----------------------------------------------------------------------------
(* The rows *)

LEMMA StoredUnchanged ==
  ASSUME StoredOK, UNCHANGED stored
  PROVE  StoredOK'
BY DEF StoredOK, stored, LifecycleMatchesActions, LedgerIsGapless, RowsMatchLog, EventsOf

\* Appending an event adds its position to the events of its device and type,
\* and moves no other.
LEMMA AppendedEvents ==
  ASSUME deviceLog \in Seq(DeviceEvents), NEW event \in DeviceEvents,
         deviceLog' = Append(deviceLog, event)
  PROVE  /\ deviceLog' \in Seq(DeviceEvents)
         /\ Len(deviceLog') = Len(deviceLog) + 1
         /\ deviceLog'[Len(deviceLog) + 1] = event
         /\ \A n \in DOMAIN deviceLog : deviceLog'[n] = deviceLog[n]
         /\ DOMAIN deviceLog' = DOMAIN deviceLog \cup {Len(deviceLog) + 1}
         /\ \A d \in Devices, type \in {"activated", "revoked"} :
              EventsOf(d, type)' = EventsOf(d, type) \cup
                (IF event.device = d /\ event.type = type THEN {Len(deviceLog) + 1} ELSE {})
<1>1. /\ deviceLog' \in Seq(DeviceEvents)
      /\ Len(deviceLog') = Len(deviceLog) + 1
      /\ deviceLog'[Len(deviceLog) + 1] = event
      /\ \A n \in DOMAIN deviceLog : deviceLog'[n] = deviceLog[n]
      /\ DOMAIN deviceLog' = DOMAIN deviceLog \cup {Len(deviceLog) + 1}
      /\ Len(deviceLog) + 1 \notin DOMAIN deviceLog
  OBVIOUS
<1>2. ASSUME NEW d \in Devices, NEW type \in {"activated", "revoked"}
      PROVE  EventsOf(d, type)' = EventsOf(d, type) \cup
                (IF event.device = d /\ event.type = type THEN {Len(deviceLog) + 1} ELSE {})
  <2>1. EventsOf(d, type)' =
          {n \in DOMAIN deviceLog' : deviceLog'[n].device = d /\ deviceLog'[n].type = type}
    BY DEF EventsOf
  <2> QED
    BY <1>1, <2>1, Zenon DEF EventsOf
<1> QED
  BY <1>1, <1>2

\* What the two kinds of device events do to the row of their device.
Activates(event, old, row) ==
  /\ event.type = "activated" /\ old.state = "absent"
  /\ row.state = "active" /\ row.revocation = NULL
  /\ row.activation = Len(deviceLog) + 1
  /\ row.auth = event.auth /\ row.activatedAt = event.acceptedAt
  /\ row.auth \in Auths /\ row.expires = ExpiresAt[row.auth]

Revokes(event, old, row) ==
  /\ event.type = "revoked" /\ old.state # "revoked"
  /\ row.state = "revoked"
  /\ row.revocation = Len(deviceLog) + 1 /\ row.revokedAt = event.acceptedAt
  /\ row.activation = old.activation
  /\ old.activation # NULL => row.auth = old.auth /\ row.activatedAt = old.activatedAt
  /\ row.auth # NULL => \/ row.expires = ExpiresAt[row.auth]
                        \/ row.auth = old.auth /\ row.expires = old.expires

\* The transaction of a device mutation keeps the rows, the log and the ledger
\* in agreement.
LEMMA RecordKeepsStored ==
  ASSUME StoredOK, NEW c \in Callers, NEW row \in DeviceRows, NEW event \in DeviceEvents,
         RecordDeviceEvent(c, row, event),
         call[c].next = ledger + 1, event.sequence = call[c].next,
         Activates(event, device[event.device], row)
           \/ Revokes(event, device[event.device], row)
  PROVE  StoredOK'
<1> DEFINE old == device[event.device]
           len == Len(deviceLog)
<1> event.device \in Devices
  BY DEF DeviceEvents
<1>1. /\ deviceLog \in Seq(DeviceEvents)
      /\ device \in [Devices -> DeviceRows]
      /\ deviceLog' = Append(deviceLog, event)
      /\ device' = [device EXCEPT ![event.device] = row]
      /\ ledger' = ledger + 1 /\ ledger = len
      /\ UNCHANGED <<identity, actions>>
  BY DEF StoredOK, LedgerIsGapless, RecordDeviceEvent
<1>2. /\ deviceLog' \in Seq(DeviceEvents)
      /\ Len(deviceLog') = len + 1
      /\ deviceLog'[len + 1] = event
      /\ \A n \in DOMAIN deviceLog : deviceLog'[n] = deviceLog[n]
      /\ DOMAIN deviceLog' = DOMAIN deviceLog \cup {len + 1}
      /\ \A d \in Devices, type \in {"activated", "revoked"} :
           EventsOf(d, type)' = EventsOf(d, type) \cup
             (IF event.device = d /\ event.type = type THEN {len + 1} ELSE {})
  BY <1>1, AppendedEvents
<1>3. device' \in [Devices -> DeviceRows]
  BY <1>1
<1>4. LedgerIsGapless'
  BY <1>1, <1>2 DEF StoredOK, LedgerIsGapless
<1>5. ASSUME NEW d \in Devices, d # event.device
      PROVE  /\ device'[d] = device[d]
             /\ EventsOf(d, "activated")' = EventsOf(d, "activated")
             /\ EventsOf(d, "revoked")' = EventsOf(d, "revoked")
  BY <1>1, <1>2, <1>5
<1>6. \A d \in Devices :
        LET r == device[d] IN
        /\ EventsOf(d, "activated") = {r.activation} \ {NULL}
        /\ EventsOf(d, "revoked") = {r.revocation} \ {NULL}
        /\ r.state = IF r.revocation # NULL THEN "revoked"
                     ELSE IF r.activation # NULL THEN "active" ELSE "absent"
        /\ r.activation # NULL =>
             /\ deviceLog[r.activation].auth = r.auth
             /\ deviceLog[r.activation].acceptedAt = r.activatedAt
        /\ r.revocation # NULL => deviceLog[r.revocation].acceptedAt = r.revokedAt
        /\ r.activation # NULL /\ r.revocation # NULL => r.activation < r.revocation
  BY DEF StoredOK, RowsMatchLog
<1>7. \A d \in Devices :
        /\ device[d].activation # NULL => device[d].activation \in DOMAIN deviceLog
        /\ device[d].revocation # NULL => device[d].revocation \in DOMAIN deviceLog
  BY <1>6 DEF EventsOf
<1>8. \A n \in DOMAIN deviceLog : n \in Nat /\ n < len + 1
  BY <1>1
<1>9. RowsMatchLog'
  <2> SUFFICES ASSUME NEW d \in Devices
               PROVE
        /\ EventsOf(d, "activated")' = {device'[d].activation} \ {NULL}
        /\ EventsOf(d, "revoked")' = {device'[d].revocation} \ {NULL}
        /\ device'[d].state = IF device'[d].revocation # NULL THEN "revoked"
                              ELSE IF device'[d].activation # NULL THEN "active" ELSE "absent"
        /\ device'[d].activation # NULL =>
             /\ deviceLog'[device'[d].activation].auth = device'[d].auth
             /\ deviceLog'[device'[d].activation].acceptedAt = device'[d].activatedAt
        /\ device'[d].revocation # NULL =>
             deviceLog'[device'[d].revocation].acceptedAt = device'[d].revokedAt
        /\ device'[d].activation # NULL /\ device'[d].revocation # NULL =>
             device'[d].activation < device'[d].revocation
    BY DEF RowsMatchLog
  <2>1. CASE d # event.device
    BY <2>1, <1>2, <1>5, <1>6, <1>7
  <2>2. CASE d = event.device /\ Activates(event, old, row)
    <3>1. device'[d] = row /\ device[d] = old
      BY <2>2, <1>1
    <3>2. old.activation = NULL /\ old.revocation = NULL
      BY <1>6, <2>2, <3>1 DEF Activates
    <3>3. /\ EventsOf(d, "activated")' = {len + 1}
          /\ EventsOf(d, "revoked")' = {}
      BY <1>2, <1>6, <2>2, <3>1, <3>2 DEF Activates
    <3>4. len + 1 # NULL
      BY <1>1, NullAssumption
    <3> QED
      BY <1>2, <2>2, <3>1, <3>3, <3>4 DEF Activates
  <2>3. CASE d = event.device /\ Revokes(event, old, row)
    <3>1. device'[d] = row /\ device[d] = old
      BY <2>3, <1>1
    <3>2. old.revocation = NULL
      BY <1>6, <2>3, <3>1 DEF Revokes
    <3>3. /\ EventsOf(d, "activated")' = {old.activation} \ {NULL}
          /\ EventsOf(d, "revoked")' = {len + 1}
      BY <1>2, <1>6, <2>3, <3>1, <3>2 DEF Revokes
    <3>4. len + 1 # NULL
      BY <1>1, NullAssumption
    <3>5. old.activation # NULL =>
            /\ old.activation \in DOMAIN deviceLog
            /\ old.activation < len + 1
            /\ deviceLog'[old.activation] = deviceLog[old.activation]
      BY <1>2, <1>7, <1>8, <3>1
    <3> QED
      BY <1>2, <1>6, <2>3, <3>1, <3>3, <3>4, <3>5 DEF Revokes
  <2> QED
    BY <2>1, <2>2, <2>3
<1>10. LifecycleMatchesActions'
  BY <1>1 DEF StoredOK, LifecycleMatchesActions
<1> QED
  BY <1>1, <1>2, <1>3, <1>4, <1>9, <1>10 DEF StoredOK

-----------------------------------------------------------------------------
(* One lemma per action *)

\* The event ids a device row keeps are positions of the log.
LEMMA RowsPointIntoLog ==
  ASSUME StoredOK, NEW d \in Devices
  PROVE  /\ device[d] \in DeviceRows
         /\ device[d].activation = NULL \/ device[d].activation \in DOMAIN deviceLog
         /\ device[d].revocation = NULL \/ device[d].revocation \in DOMAIN deviceLog
<1>1. /\ EventsOf(d, "activated") = {device[d].activation} \ {NULL}
      /\ EventsOf(d, "revoked") = {device[d].revocation} \ {NULL}
  BY DEF StoredOK, RowsMatchLog
<1> QED
  BY <1>1 DEF EventsOf, StoredOK

LEMMA RegisterArrivesStep ==
  ASSUME IInv, NEW c \in Callers, NEW r \in Requests, RegisterArrives(c, r)
  PROVE  IInv'
<1>1. StoredOK' /\ ClockOK'
  BY StoredUnchanged DEF IInv, RegisterArrives, ClockOK, stored
<1>2. CallsOK'
  <2>1. call' = [call EXCEPT ![c] = [IdleCall EXCEPT !.pc = "arrived", !.req = r]]
    BY DEF RegisterArrives
  <2>2. [IdleCall EXCEPT !.pc = "arrived", !.req = r] \in Calls
    BY DEF IdleCall, Calls
  <2>3. LocalsOK([IdleCall EXCEPT !.pc = "arrived", !.req = r])
    BY DEF IdleCall, LocalsOK, RegisterArrives
  <2> QED
    BY <2>1, <2>2, <2>3 DEF IInv, CallsOK, RegisterArrives
<1> QED
  BY <1>1, <1>2 DEF IInv

LEMMA RevokeArrivesStep ==
  ASSUME IInv, NEW c \in Callers, NEW r \in Requests, RevokeArrives(c, r)
  PROVE  IInv'
<1>1. StoredOK' /\ ClockOK'
  BY StoredUnchanged DEF IInv, RevokeArrives, ClockOK, stored
<1>2. CallsOK'
  <2>1. CASE \E code \in Codes : AnswerAtOnce(c, r, Failed(code), FALSE)
    BY <2>1, FailedIsReply, AnswerAtOnceKeepsCalls DEF IInv
  <2>2. CASE AnswerAtOnce(c, r, IdentityReply(identity), TRUE)
    BY <2>2, IdentityReplyIsReply, AnswerAtOnceKeepsCalls DEF IInv, StoredOK
  <2>3. CASE /\ identity.state = "active"
             /\ call' = [call EXCEPT ![c] = [IdleCall EXCEPT !.pc = "verifying", !.req = r,
                                                             !.seen = identity, !.at = now]]
             /\ kicked' = FALSE
             /\ UNCHANGED gate
    <3>1. identity \in Rows /\ identity.sequence = 0 /\ now \in Nat
      BY <2>3, BoundsAssumption DEF IInv, StoredOK, LifecycleMatchesActions, ClockOK
    <3> DEFINE k == [IdleCall EXCEPT !.pc = "verifying", !.req = r, !.seen = identity, !.at = now]
    <3>2. k \in Calls
      BY <3>1 DEF IdleCall, Calls
    <3>3. LocalsOK(k)
      BY <3>1 DEF IdleCall, LocalsOK, RevokeArrives
    <3> HIDE DEF k
    <3> QED
      BY <2>3, <3>2, <3>3 DEF IInv, CallsOK, k
  <2> QED
    BY <2>1, <2>2, <2>3 DEF RevokeArrives, Codes
<1> QED
  BY <1>1, <1>2 DEF IInv

LEMMA DeviceRequestArrivesStep ==
  ASSUME IInv, NEW c \in Callers, NEW r \in Requests, DeviceRequestArrives(c, r)
  PROVE  IInv'
<1>1. StoredOK' /\ ClockOK'
  BY StoredUnchanged DEF IInv, DeviceRequestArrives, ClockOK, stored
<1>2. CallsOK'
  <2>1. CASE AnswerAtOnce(c, r, Failed("IDENTITY_NOT_FOUND"), FALSE)
    BY <2>1, FailedIsReply, AnswerAtOnceKeepsCalls DEF IInv, Codes
  <2>2. CASE /\ call' = [call EXCEPT ![c] = [IdleCall EXCEPT !.pc = "verifying", !.req = r,
                                                             !.seen = identity]]
             /\ gate' = c
             /\ kicked' = FALSE
    <3> DEFINE k == [IdleCall EXCEPT !.pc = "verifying", !.req = r, !.seen = identity]
    <3>2. k \in Calls
      BY DEF IdleCall, Calls, IInv, StoredOK
    <3>3. LocalsOK(k)
      BY DEF IdleCall, LocalsOK, DeviceRequestArrives, IInv, StoredOK, IsIdentityRevocation
    <3> HIDE DEF k
    <3> QED
      BY <2>2, <3>2, <3>3 DEF IInv, CallsOK, k
  <2> QED
    BY <2>1, <2>2 DEF DeviceRequestArrives
<1> QED
  BY <1>1, <1>2 DEF IInv

LEMMA ReadStatusStep ==
  ASSUME IInv, NEW c \in Callers, NEW r \in Requests, ReadStatus(c, r)
  PROVE  IInv'
<1>1. StoredOK' /\ ClockOK'
  BY StoredUnchanged DEF IInv, ReadStatus, ClockOK, stored
<1>2. CASE AnswerAtOnce(c, r, Failed("IDENTITY_NOT_FOUND"), FALSE)
  BY <1>1, <1>2, FailedIsReply, AnswerAtOnceKeepsCalls DEF IInv, Codes
<1>3. CASE AnswerAtOnce(c, r, IdentityReply(identity), TRUE)
  BY <1>1, <1>3, IdentityReplyIsReply, AnswerAtOnceKeepsCalls DEF IInv, StoredOK
<1> QED
  BY <1>2, <1>3 DEF ReadStatus

LEMMA ReadDeviceStatusStep ==
  ASSUME IInv, NEW c \in Callers, NEW r \in Requests, ReadDeviceStatus(c, r)
  PROVE  IInv'
<1>1. StoredOK' /\ ClockOK'
  BY StoredUnchanged DEF IInv, ReadDeviceStatus, ClockOK, stored
<1>2. CASE AnswerAtOnce(c, r, Failed("IDENTITY_NOT_FOUND"), FALSE)
  BY <1>1, <1>2, FailedIsReply, AnswerAtOnceKeepsCalls DEF IInv, Codes
<1>3. CASE AnswerAtOnce(c, r, DeviceStatusReply(r.device, r.auth), TRUE)
  <2>1. r.device \in Devices /\ device[r.device] \in DeviceRows
    BY RequestFields DEF ReadDeviceStatus, DeviceStatusRequests, IInv, StoredOK
  <2>2. EffectiveState(r.device, r.auth) \in {"unknown", "active", "expired", "revoked"}
    BY DEF EffectiveState
  <2>3. DeviceStatusReply(r.device, r.auth) \in Replies
    <3> DEFINE body == DeviceStatusReply(r.device, r.auth).body
    <3>1. body \in DeviceStatusBodies
      BY <2>1, <2>2 DEF DeviceStatusReply, Succeeded, DeviceStatusBodies, DeviceRows,
                        IInv, StoredOK, Rows
    <3> QED
      BY <3>1 DEF DeviceStatusReply, Succeeded, Replies, Codes
  <2> QED
    BY <1>1, <1>3, <2>3, AnswerAtOnceKeepsCalls DEF IInv
<1> QED
  BY <1>2, <1>3 DEF ReadDeviceStatus

\* The answer to a registration of a known subject.
LEMMA RegistrationReplayIsReply ==
  ASSUME IInv, NEW c \in Callers
  PROVE  RegistrationReplay(c) \in Replies
BY FailedIsReply, IdentityReplyIsReply DEF RegistrationReplay, Codes, IInv, StoredOK

LEMMA CheckRegistrationStep ==
  ASSUME IInv, NEW c \in Callers, CheckRegistration(c)
  PROVE  IInv'
<1>1. StoredOK' /\ ClockOK'
  BY StoredUnchanged DEF IInv, CheckRegistration, ClockOK, stored
<1>2. CASE Answer(c, RegistrationReplay(c), TRUE)
  BY <1>1, <1>2, RegistrationReplayIsReply, AnswerKeepsCalls DEF IInv, CheckRegistration
<1>3. CASE Prepare(c, 0)
  <2>1. ~IsIdentityRevocation(call[c].req)
    BY DEF CheckRegistration, IInv, CallsOK, LocalsOK, IsIdentityRevocation
  <2> QED
    BY <1>1, <1>3, <2>1, PrepareKeepsCalls DEF IInv, CheckRegistration
<1> QED
  BY <1>2, <1>3 DEF CheckRegistration

LEMMA CommitRegistrationStep ==
  ASSUME IInv, NEW c \in Callers, CommitRegistration(c)
  PROVE  IInv'
<1>0. ClockOK'
  BY DEF IInv, CommitRegistration, ClockOK
<1>1. CASE /\ Answer(c, RegistrationReplay(c), TRUE)
           /\ UNCHANGED stored
  BY <1>0, <1>1, StoredUnchanged, RegistrationReplayIsReply, AnswerKeepsCalls
  DEF IInv, CommitRegistration
<1>2. CASE /\ identity.state = "none"
           /\ identity' = [state |-> "active", genesis |-> call[c].req.genesis,
                           sequence |-> 0, registeredAt |-> call[c].at,
                           revokedAt |-> NULL]
           /\ actions' = Append(actions, [type |-> "registered", sequence |-> 0,
                                          acceptedAt |-> call[c].at])
           /\ Answer(c, IdentityReply(identity'), TRUE)
           /\ UNCHANGED <<device, ledger, deviceLog>>
  <2>1. call[c].req.genesis \in Geneses /\ call[c].at \in Nat
    BY RequestFields DEF IInv, CallsOK, LocalsOK, CommitRegistration, RegisterRequests
  <2>2. identity' \in Rows
    BY <1>2, <2>1 DEF Rows
  <2>3. CallsOK'
    BY <1>2, <2>2, IdentityReplyIsReply, AnswerKeepsCalls DEF IInv, CommitRegistration
  <2>4. actions' \in Seq(IdentityEvents) /\ LifecycleMatchesActions'
    <3>1. [type |-> "registered", sequence |-> 0, acceptedAt |-> call[c].at] \in IdentityEvents
      BY <2>1 DEF IdentityEvents
    <3>2. actions \in Seq(IdentityEvents) /\ Len(actions) = 0
      BY <1>2 DEF IInv, StoredOK, LifecycleMatchesActions
    <3> QED
      BY <1>2, <3>1, <3>2 DEF LifecycleMatchesActions
  <2>5. RowsMatchLog' /\ LedgerIsGapless'
    BY <1>2 DEF IInv, StoredOK, RowsMatchLog, LedgerIsGapless, EventsOf
  <2> QED
    BY <1>0, <1>2, <2>2, <2>3, <2>4, <2>5 DEF IInv, StoredOK
<1> QED
  BY <1>1, <1>2 DEF CommitRegistration

LEMMA VerifyRevocationStep ==
  ASSUME IInv, NEW c \in Callers, VerifyRevocation(c)
  PROVE  IInv'
<1>1. StoredOK' /\ ClockOK'
  BY StoredUnchanged DEF IInv, VerifyRevocation, ClockOK, stored
<1>2. CASE \E code \in RevocationDefect(call[c].req, call[c].at) : Answer(c, Failed(code), FALSE)
  <2>1. RevocationDefect(call[c].req, call[c].at) \subseteq Codes
    BY DEF RevocationDefect, Codes
  <2> QED
    BY <1>1, <1>2, <2>1, FailedIsReply, AnswerKeepsCalls DEF IInv, VerifyRevocation
<1>3. CASE Prepare(c, call[c].seen.sequence + 1)
  <2>1. call[c].seen.sequence = 0
    BY DEF VerifyRevocation, IInv, CallsOK, LocalsOK, IsIdentityRevocation
  <2> QED
    BY <1>1, <1>3, <2>1, PrepareKeepsCalls DEF IInv, VerifyRevocation
<1> QED
  BY <1>2, <1>3 DEF VerifyRevocation

LEMMA CommitRevocationStep ==
  ASSUME IInv, TimesOK, NEW c \in Callers, CommitRevocation(c)
  PROVE  IInv'
<1>0. ClockOK'
  BY DEF IInv, CommitRevocation, ClockOK
<1>1. CASE /\ Answer(c, RevocationRace, TRUE)
           /\ UNCHANGED stored
  <2>1. RevocationRace \in Replies
    BY FailedIsReply, IdentityReplyIsReply DEF RevocationRace, Codes, IInv, StoredOK
  <2> QED
    BY <1>0, <1>1, <2>1, StoredUnchanged, AnswerKeepsCalls DEF IInv, CommitRevocation
<1>2. CASE /\ RevocationStands(c)
           /\ identity' = [identity EXCEPT !.state = "revoked", !.sequence = call[c].next,
                                           !.revokedAt = call[c].at]
           /\ actions' = Append(actions, [type |-> "revoked", sequence |-> call[c].next,
                                          acceptedAt |-> call[c].at])
           /\ Answer(c, IdentityReply(identity'), TRUE)
           /\ UNCHANGED <<device, ledger, deviceLog>>
  <2>1. call[c].next = 1 /\ call[c].at \in Nat
    BY DEF IInv, CallsOK, LocalsOK, CommitRevocation, IsIdentityRevocation
  <2>2. identity' \in Rows
    BY <1>2, <2>1 DEF Rows, IInv, StoredOK
  <2>3. CallsOK'
    BY <1>2, <2>2, IdentityReplyIsReply, AnswerKeepsCalls DEF IInv, CommitRevocation
  <2>4. actions' \in Seq(IdentityEvents) /\ LifecycleMatchesActions'
    <3>1. PICK event \in IdentityEvents :
            /\ event = [type |-> "revoked", sequence |-> 1, acceptedAt |-> call[c].at]
            /\ actions' = Append(actions, event)
      BY <1>2, <2>1 DEF IdentityEvents
    <3>2. /\ actions \in Seq(IdentityEvents) /\ Len(actions) = 1
          /\ identity.state = "active" /\ identity \in Rows
          /\ actions[1].sequence = 0 /\ actions[1].type = "registered"
          /\ actions[1].acceptedAt = identity.registeredAt
      BY <1>2 DEF IInv, StoredOK, LifecycleMatchesActions, RevocationStands
    <3>3. /\ actions' \in Seq(IdentityEvents) /\ Len(actions') = 2
          /\ actions'[1] = actions[1] /\ actions'[2] = event
      BY SMTT(20), <3>1, <3>2
    <3>4. /\ identity'.state = "revoked" /\ identity'.sequence = 1
          /\ identity'.registeredAt = identity.registeredAt
          /\ identity'.revokedAt = call[c].at
      BY <1>2, <2>1, <3>2 DEF Rows
    <3>5. identity.registeredAt <= call[c].at
      BY DEF TimesOK, CommitRevocation, IsIdentityRevocation
    <3> QED
      BY <3>1, <3>2, <3>3, <3>4, <3>5 DEF LifecycleMatchesActions
  <2>5. RowsMatchLog' /\ LedgerIsGapless'
    BY <1>2 DEF IInv, StoredOK, RowsMatchLog, LedgerIsGapless, EventsOf
  <2> QED
    BY <1>0, <1>2, <2>2, <2>3, <2>4, <2>5 DEF IInv, StoredOK
<1> QED
  BY <1>1, <1>2 DEF CommitRevocation

\* A device request in flight: its fields, and what its locals hold.
LEMMA DeviceCall ==
  ASSUME IInv, NEW c \in Callers, call[c].pc \in {"verifying", "committing"},
         IsDeviceRequest(call[c].req)
  PROVE  /\ call[c].req \in DeviceRequests
         /\ call[c].req \in Requests
         /\ call[c].seen \in Rows
         /\ call[c].req.type = "activate" => call[c].req.auth \in Auths
         /\ call[c].pc = "committing" => call[c].at \in Nat /\ call[c].next \in Nat
         /\ ~IsIdentityRevocation(call[c].req)
<1>1. call[c].req \in Requests /\ call[c].req \in DeviceRequests
  BY RequestFields DEF IInv, CallsOK, LocalsOK
<1>2. call[c].req.type = "activate" => call[c].req.auth \in Auths
  BY <1>1, RequestsAssumption DEF DeviceRequests
<1> QED
  BY <1>1, <1>2 DEF IInv, CallsOK, LocalsOK, IsDeviceRequest, IsIdentityRevocation

LEMMA DecideActivationStep ==
  ASSUME IInv, NEW c \in Callers, DecideActivation(c)
  PROVE  IInv'
<1> DEFINE r == call[c].req
           row == device[r.device]
<1>0. IsDeviceRequest(r)
  BY DEF DecideActivation, IsDeviceRequest
<1>1. StoredOK' /\ ClockOK'
  BY StoredUnchanged DEF IInv, DecideActivation, ClockOK, stored
<1>2. /\ row \in DeviceRows
      /\ row.activation = NULL \/ row.activation \in DOMAIN deviceLog
  BY <1>0, DeviceCall, RowsPointIntoLog DEF DecideActivation, DeviceRequests, IInv
<1>3. CASE \E code \in ActivationDefect(c) : Answer(c, Failed(code), FALSE)
  <2>1. ActivationDefect(c) \subseteq Codes
    BY DEF ActivationDefect, Codes
  <2> QED
    BY <1>1, <1>3, <2>1, FailedIsReply, AnswerKeepsCalls DEF IInv, DecideActivation
<1>4. CASE \E n \in CommitsOf(r.operationId) : Answer(c, DeviceReceipt(row, deviceLog, n), TRUE)
  <2>1. PICK n \in DOMAIN deviceLog : Answer(c, DeviceReceipt(row, deviceLog, n), TRUE)
    BY <1>4 DEF CommitsOf
  <2>2. DeviceReceipt(row, deviceLog, n) \in Replies
    BY <1>2, DeviceReceiptIsReply DEF IInv, StoredOK
  <2> QED
    BY <1>1, <2>1, <2>2, AnswerKeepsCalls DEF IInv, DecideActivation
<1>5. CASE Answer(c, DeviceReceipt(row, deviceLog, row.activation), TRUE)
  <2>2. DeviceReceipt(row, deviceLog, row.activation) \in Replies
    BY <1>2, DeviceReceiptIsReply DEF IInv, StoredOK
  <2> QED
    BY <1>1, <1>5, <2>2, AnswerKeepsCalls DEF IInv, DecideActivation
<1>6. CASE Prepare(c, ledger + 1)
  <2>1. ledger + 1 \in Nat
    BY DEF IInv, StoredOK
  <2>2. ~IsIdentityRevocation(r)
    BY <1>0, DeviceCall DEF DecideActivation
  <2> QED
    BY <1>1, <1>6, <2>1, <2>2, PrepareKeepsCalls DEF IInv, DecideActivation
<1> QED
  BY <1>3, <1>4, <1>5, <1>6 DEF DecideActivation

LEMMA DecideDeviceRevocationStep ==
  ASSUME IInv, NEW c \in Callers, DecideDeviceRevocation(c)
  PROVE  IInv'
<1> DEFINE r == call[c].req
           row == device[r.device]
<1>0. IsDeviceRequest(r)
  BY DEF DecideDeviceRevocation, IsDeviceRequest
<1>1. StoredOK' /\ ClockOK'
  BY StoredUnchanged DEF IInv, DecideDeviceRevocation, ClockOK, stored
<1>2. /\ row \in DeviceRows
      /\ row.revocation = NULL \/ row.revocation \in DOMAIN deviceLog
  BY <1>0, DeviceCall, RowsPointIntoLog DEF DecideDeviceRevocation, DeviceRequests, IInv
<1>3. CASE \E code \in DeviceRevocationDefect(c) : Answer(c, Failed(code), FALSE)
  <2>1. DeviceRevocationDefect(c) \subseteq Codes
    BY DEF DeviceRevocationDefect, Codes
  <2> QED
    BY <1>1, <1>3, <2>1, FailedIsReply, AnswerKeepsCalls DEF IInv, DecideDeviceRevocation
<1>4. CASE \E n \in CommitsOf(r.operationId) : Answer(c, DeviceReceipt(row, deviceLog, n), TRUE)
  <2>1. PICK n \in DOMAIN deviceLog : Answer(c, DeviceReceipt(row, deviceLog, n), TRUE)
    BY <1>4 DEF CommitsOf
  <2>2. DeviceReceipt(row, deviceLog, n) \in Replies
    BY <1>2, DeviceReceiptIsReply DEF IInv, StoredOK
  <2> QED
    BY <1>1, <2>1, <2>2, AnswerKeepsCalls DEF IInv, DecideDeviceRevocation
<1>5. CASE Answer(c, DeviceReceipt(row, deviceLog, row.revocation), TRUE)
  <2>2. DeviceReceipt(row, deviceLog, row.revocation) \in Replies
    BY <1>2, DeviceReceiptIsReply DEF IInv, StoredOK
  <2> QED
    BY <1>1, <1>5, <2>2, AnswerKeepsCalls DEF IInv, DecideDeviceRevocation
<1>6. CASE Prepare(c, ledger + 1)
  <2>1. ledger + 1 \in Nat
    BY DEF IInv, StoredOK
  <2>2. ~IsIdentityRevocation(r)
    BY <1>0, DeviceCall DEF DecideDeviceRevocation
  <2> QED
    BY <1>1, <1>6, <2>1, <2>2, PrepareKeepsCalls DEF IInv, DecideDeviceRevocation
<1> QED
  BY <1>3, <1>4, <1>5, <1>6 DEF DecideDeviceRevocation

\* Whatever the transaction of a device mutation finds, it answers a reply.
LEMMA DeviceRaceIsReply ==
  ASSUME IInv, NEW c \in Callers, call[c].pc = "committing", IsDeviceRequest(call[c].req)
  PROVE  DeviceRace(c) \in Replies
<1> DEFINE row == device[call[c].req.device]
<1>1. /\ row \in DeviceRows
      /\ row.activation = NULL \/ row.activation \in DOMAIN deviceLog
      /\ row.revocation = NULL \/ row.revocation \in DOMAIN deviceLog
  BY DeviceCall, RowsPointIntoLog DEF DeviceRequests, IInv
<1>2. /\ DeviceReceipt(row, deviceLog, row.activation) \in Replies
      /\ DeviceReceipt(row, deviceLog, row.revocation) \in Replies
  BY <1>1, DeviceReceiptIsReply DEF IInv, StoredOK
<1>3. \A code \in Codes : Failed(code) \in Replies
  BY FailedIsReply
<1> QED
  BY <1>2, <1>3 DEF DeviceRace, Codes

\* The transaction of a device mutation, with the method's return.
LEMMA RecordStep ==
  ASSUME IInv, NEW c \in Callers, NEW row \in DeviceRows, NEW event \in DeviceEvents,
         RecordDeviceEvent(c, row, event), call[c].pc # "idle",
         call[c].next = ledger + 1, event.sequence = call[c].next,
         Activates(event, device[event.device], row)
           \/ Revokes(event, device[event.device], row),
         UNCHANGED now
  PROVE  IInv'
<1>1. StoredOK'
  BY RecordKeepsStored DEF IInv
<1>2. deviceLog' \in Seq(DeviceEvents) /\ Len(deviceLog') \in DOMAIN deviceLog'
  BY AppendedEvents DEF IInv, StoredOK, RecordDeviceEvent
<1>3. DeviceReceipt(row, deviceLog', Len(deviceLog')) \in Replies
  BY <1>2, DeviceReceiptIsReply
<1>4. CallsOK'
  BY <1>3, AnswerKeepsCalls DEF RecordDeviceEvent, IInv
<1> QED
  BY <1>1, <1>4 DEF IInv, ClockOK

\* What an activation that stands writes.
LEMMA ActivationRecord ==
  ASSUME IInv, NEW c \in Callers, CommitActivation(c), DeviceMutationStands(c)
  PROVE  \E row \in DeviceRows, event \in DeviceEvents :
           /\ RecordDeviceEvent(c, row, event)
           /\ event.sequence = call[c].next /\ event.device = call[c].req.device
           /\ event.operationId = call[c].req.operationId
           /\ event.acceptedAt = call[c].at
           /\ event.auth = call[c].req.auth
           /\ Activates(event, device[event.device], row)
<1> DEFINE r == call[c].req
           row == [NoDevice EXCEPT !.state = "active", !.auth = r.auth,
                                   !.expires = ExpiresAt[r.auth], !.activatedAt = call[c].at,
                                   !.activation = Len(deviceLog) + 1]
           event == DeviceEvent(c, "activated", r.auth, ExpiresAt[r.auth], NULL)
<1>1. /\ r \in DeviceRequests /\ r.auth \in Auths
      /\ call[c].seen \in Rows /\ call[c].at \in Nat /\ call[c].next \in Nat
  BY DeviceCall DEF CommitActivation, IsDeviceRequest
<1>2. ExpiresAt[r.auth] \in Nat /\ Len(deviceLog) + 1 \in Nat
  BY <1>1, WindowsAssumption DEF IInv, StoredOK
<1>3. /\ row \in DeviceRows
      /\ row.state = "active" /\ row.revocation = NULL
      /\ row.activation = Len(deviceLog) + 1
      /\ row.auth = r.auth /\ row.activatedAt = call[c].at
      /\ row.expires = ExpiresAt[r.auth]
  BY <1>1, <1>2 DEF NoDevice, DeviceRows
<1>4. /\ event \in DeviceEvents
      /\ event.sequence = call[c].next /\ event.device = r.device
      /\ event.operationId = r.operationId
      /\ event.acceptedAt = call[c].at
      /\ event.type = "activated" /\ event.auth = r.auth
  BY <1>1, <1>2 DEF DeviceEvent, DeviceEvents, DeviceRequests, Rows
<1>5. device[r.device].state = "absent"
  BY DEF CommitActivation, DeviceMutationStands
<1>6. RecordDeviceEvent(c, row, event)
  BY DEF CommitActivation
<1> HIDE DEF row, event
<1>7. Activates(event, device[event.device], row)
  BY <1>1, <1>3, <1>4, <1>5 DEF Activates
<1> QED
  BY <1>3, <1>4, <1>6, <1>7

LEMMA CommitActivationStep ==
  ASSUME IInv, NEW c \in Callers, CommitActivation(c)
  PROVE  IInv'
<1>1. CASE DeviceMutationStands(c)
  BY <1>1, ActivationRecord, RecordStep DEF CommitActivation, DeviceMutationStands
<1>2. CASE Answer(c, DeviceRace(c), TRUE) /\ UNCHANGED stored
  <2>1. DeviceRace(c) \in Replies
    BY DeviceRaceIsReply DEF CommitActivation, IsDeviceRequest
  <2> QED
    BY <1>2, <2>1, StoredUnchanged, AnswerKeepsCalls DEF IInv, CommitActivation, ClockOK
<1> QED
  BY <1>1, <1>2 DEF CommitActivation

\* What a device revocation that stands writes.
LEMMA RevocationRecord ==
  ASSUME IInv, NEW c \in Callers, CommitDeviceRevocation(c), DeviceMutationStands(c)
  PROVE  \E row \in DeviceRows, event \in DeviceEvents :
           /\ RecordDeviceEvent(c, row, event)
           /\ event.sequence = call[c].next /\ event.device = call[c].req.device
           /\ event.operationId = call[c].req.operationId
           /\ event.acceptedAt = call[c].at
           /\ Revokes(event, device[event.device], row)
<1> DEFINE r == call[c].req
           old == device[r.device]
           row == RevokedRow(c)
           event == DeviceEvent(c, "revoked", row.auth, row.expires, RevokedBy(r))
<1>1. /\ r \in DeviceRequests /\ r \in Requests
      /\ call[c].seen \in Rows /\ call[c].at \in Nat /\ call[c].next \in Nat
  BY DeviceCall DEF CommitDeviceRevocation, IsDeviceRequest
<1>2. /\ old \in DeviceRows
      /\ old.state # "revoked"
      /\ old.activation # NULL => old.state = "active"
      /\ Len(deviceLog) + 1 \in Nat
      /\ r.auth # NULL => ExpiresAt[r.auth] \in Nat
  BY <1>1, WindowsAssumption
  DEF IInv, StoredOK, RowsMatchLog, DeviceMutationStands, DeviceRequests
<1>3. RevokedBy(r) \in {"root", "device"}
  BY DEF RevokedBy
<1>4. /\ row \in DeviceRows
      /\ row.state = "revoked" /\ row.revocation = Len(deviceLog) + 1
      /\ row.revokedAt = call[c].at
      /\ row.activation = old.activation
      /\ old.activation # NULL => row.auth = old.auth /\ row.activatedAt = old.activatedAt
      /\ row.auth # NULL => \/ row.expires = ExpiresAt[row.auth]
                            \/ row.auth = old.auth /\ row.expires = old.expires
  <2>1. CASE old.state = "active"
    <3>1. row = [old EXCEPT !.state = "revoked", !.revokedAt = call[c].at,
                            !.revokedBy = RevokedBy(r), !.revocation = Len(deviceLog) + 1]
      BY <2>1 DEF RevokedRow
    <3> QED
      BY ZenonT(40), <1>1, <1>2, <1>3, <3>1 DEF DeviceRows
  <2>2. CASE old.state # "active"
    <3>1. PICK base : base = [NoDevice EXCEPT !.auth = r.auth,
                                              !.expires = IF r.auth = NULL THEN NULL
                                                          ELSE ExpiresAt[r.auth]]
      OBVIOUS
    <3>2. /\ base \in DeviceRows /\ base.activation = NULL
          /\ base.auth # NULL => base.expires = ExpiresAt[base.auth]
      BY ZenonT(40), <1>1, <1>2, <3>1 DEF NoDevice, DeviceRows, DeviceRequests
    <3>3. row = [base EXCEPT !.state = "revoked", !.revokedAt = call[c].at,
                             !.revokedBy = RevokedBy(r), !.revocation = Len(deviceLog) + 1]
      BY <2>2, <3>1 DEF RevokedRow
    <3>4. old.activation = NULL
      BY <1>2, <2>2
    <3> QED
      BY ZenonT(40), <1>1, <1>2, <1>3, <3>2, <3>3, <3>4 DEF DeviceRows
  <2> QED
    BY <2>1, <2>2
<1>5. RecordDeviceEvent(c, row, event)
  BY DEF CommitDeviceRevocation
<1> HIDE DEF row
<1>6. /\ event \in DeviceEvents
      /\ event.sequence = call[c].next /\ event.device = r.device
      /\ event.operationId = r.operationId
      /\ event.acceptedAt = call[c].at
      /\ event.type = "revoked"
  BY <1>1, <1>3, <1>4 DEF DeviceEvent, DeviceEvents, DeviceRequests, Rows, DeviceRows
<1> HIDE DEF event
<1>7. Revokes(event, device[event.device], row)
  BY <1>2, <1>4, <1>6 DEF Revokes
<1> QED
  BY <1>4, <1>5, <1>6, <1>7

LEMMA CommitDeviceRevocationStep ==
  ASSUME IInv, NEW c \in Callers, CommitDeviceRevocation(c)
  PROVE  IInv'
<1>1. CASE DeviceMutationStands(c)
  BY <1>1, RevocationRecord, RecordStep DEF CommitDeviceRevocation, DeviceMutationStands
<1>2. CASE Answer(c, DeviceRace(c), TRUE) /\ UNCHANGED stored
  <2>1. DeviceRace(c) \in Replies
    BY DeviceRaceIsReply DEF CommitDeviceRevocation, IsDeviceRequest
  <2> QED
    BY <1>2, <2>1, StoredUnchanged, AnswerKeepsCalls
    DEF IInv, CommitDeviceRevocation, ClockOK
<1> QED
  BY <1>1, <1>2 DEF CommitDeviceRevocation

LEMMA RestartStep ==
  ASSUME IInv, Restart
  PROVE  IInv'
<1>1. StoredOK' /\ ClockOK'
  BY StoredUnchanged DEF IInv, Restart, ClockOK, stored
<1>2. IdleCall \in Calls /\ LocalsOK(IdleCall)
  BY DEF IdleCall, Calls, LocalsOK
<1>3. CallsOK'
  <2>1. \A c \in Callers : call'[c] = IF call[c].pc = "replied" THEN call[c] ELSE IdleCall
    BY DEF Restart
  <2> QED
    BY <1>2, <2>1 DEF Restart, IInv, CallsOK
<1> QED
  BY <1>1, <1>3 DEF IInv

LEMMA TickStep ==
  ASSUME IInv, Tick
  PROVE  IInv'
<1>1. StoredOK' /\ CallsOK'
  BY StoredUnchanged DEF IInv, Tick, CallsOK, stored
<1>2. ClockOK'
  BY BoundsAssumption DEF IInv, ClockOK, Tick
<1> QED
  BY <1>1, <1>2 DEF IInv

-----------------------------------------------------------------------------
(* What an action does to the locals, in one line each *)

Others(c) == \A x \in Callers : x # c => call'[x] = call[x]

LEMMA AnswerShape ==
  ASSUME IInv, NEW c \in Callers, NEW reply, NEW kicks, Answer(c, reply, kicks)
  PROVE  /\ Others(c)
         /\ call'[c].pc = "replied" /\ call'[c].req = call[c].req /\ call'[c].reply = reply
         /\ gate' = IF gate = c THEN NULL ELSE gate
BY DEF Answer, IdleCall, Others, IInv, CallsOK

LEMMA AnswerAtOnceShape ==
  ASSUME IInv, NEW c \in Callers, NEW r, NEW reply, NEW kicks, AnswerAtOnce(c, r, reply, kicks)
  PROVE  /\ Others(c)
         /\ call'[c].pc = "replied" /\ call'[c].req = r /\ call'[c].reply = reply
         /\ gate' = gate
BY DEF AnswerAtOnce, IdleCall, Others, IInv, CallsOK

LEMMA PrepareShape ==
  ASSUME IInv, NEW c \in Callers, NEW next, Prepare(c, next)
  PROVE  /\ Others(c)
         /\ call'[c].pc = "committing" /\ call'[c].req = call[c].req
         /\ call'[c].at = now /\ call'[c].next = next
         /\ gate' = gate
BY DEF Prepare, Others, IInv, CallsOK, Calls

\* Every step either leaves the locals alone, or drops those in flight, or is
\* the start, the preparation or the return of one method.
Starts(c) ==
  /\ Others(c)
  /\ call'[c].pc \in {"arrived", "verifying"}
  /\ call'[c].pc = "arrived" => call'[c].req.type = "register"
  /\ IsIdentityRevocation(call'[c].req) => identity.state = "active" /\ call'[c].at = now
  /\ gate = NULL
  /\ gate' = IF IsDeviceRequest(call'[c].req) THEN c ELSE gate
  /\ UNCHANGED <<stored, now>>

Prepares(c) ==
  /\ Others(c)
  /\ call[c].pc \in {"arrived", "verifying"}
  /\ call'[c].pc = "committing" /\ call'[c].req = call[c].req
  /\ call'[c].at = now
  /\ IsDeviceRequest(call[c].req) =>
       /\ call'[c].next = ledger + 1
       /\ CommitsOf(call[c].req.operationId) = {}
       /\ device[call[c].req.device].state # "revoked"
       /\ call[c].req.type = "activate" => device[call[c].req.device].state = "absent"
       /\ call[c].req.type = "revokeSelf" /\ device[call[c].req.device].state = "active" =>
            device[call[c].req.device].auth = call[c].req.auth
  /\ gate' = gate
  /\ UNCHANGED <<stored, now>>

Returns(c) ==
  /\ Others(c)
  /\ call'[c].pc = "replied"
  /\ gate' = IF gate = c THEN NULL ELSE gate
  /\ UNCHANGED now

Drops ==
  /\ \A x \in Callers : call'[x].pc = "idle" \/ (call'[x].pc = "replied" /\ call'[x] = call[x])
  /\ gate' = NULL
  /\ UNCHANGED <<stored, now>>

LEMMA ArriveShape ==
  ASSUME IInv, NEW c \in Callers, NEW r \in Requests, Arrive(c, r)
  PROVE  Starts(c) \/ (Returns(c) /\ UNCHANGED stored)
<1> gate = NULL /\ gate # c
  BY NullAssumption
  DEF Arrive, RegisterArrives, RevokeArrives, DeviceRequestArrives, ReadStatus,
      ReadDeviceStatus, Deliverable
<1>0. ASSUME NEW reply, NEW kicks, AnswerAtOnce(c, r, reply, kicks), UNCHANGED <<stored, now>>
      PROVE  Returns(c) /\ UNCHANGED stored
  BY <1>0, AnswerAtOnceShape DEF Returns
<1>1. CASE RegisterArrives(c, r)
  BY <1>1 DEF RegisterArrives, Starts, Others, IdleCall, IInv, CallsOK,
              IsIdentityRevocation, IsDeviceRequest
<1>2. CASE RevokeArrives(c, r)
  <2>1. CASE call' = [call EXCEPT ![c] = [IdleCall EXCEPT !.pc = "verifying", !.req = r,
                                                          !.seen = identity, !.at = now]]
    <3>1. call'[c].pc = "verifying" /\ call'[c].req = r /\ call'[c].at = now /\ Others(c)
      BY <2>1 DEF IdleCall, IInv, CallsOK, Others
    <3>2. CASE identity.state = "active" /\ UNCHANGED gate
      BY <1>2, <3>1, <3>2 DEF RevokeArrives, Starts, IsIdentityRevocation, IsDeviceRequest
    <3> QED
      BY <1>0, <1>2, <3>2 DEF RevokeArrives
  <2> QED
    BY <1>0, <1>2, <2>1 DEF RevokeArrives
<1>3. CASE DeviceRequestArrives(c, r)
  <2>1. CASE /\ call' = [call EXCEPT ![c] = [IdleCall EXCEPT !.pc = "verifying", !.req = r,
                                                             !.seen = identity]]
             /\ gate' = c
    <3>1. call'[c].pc = "verifying" /\ call'[c].req = r /\ Others(c)
      BY <2>1 DEF IdleCall, IInv, CallsOK, Others
    <3> QED
      BY <1>3, <2>1, <3>1 DEF DeviceRequestArrives, Starts, IsIdentityRevocation, IsDeviceRequest
  <2> QED
    BY <1>0, <1>3, <2>1 DEF DeviceRequestArrives
<1>4. CASE ReadStatus(c, r)
  BY <1>0, <1>4 DEF ReadStatus
<1>5. CASE ReadDeviceStatus(c, r)
  BY <1>0, <1>5 DEF ReadDeviceStatus
<1> QED
  BY <1>1, <1>2, <1>3, <1>4, <1>5 DEF Arrive

\* The kind of event a device request records.
EventType(r) == IF r.type = "activate" THEN "activated" ELSE "revoked"

\* The three kinds of steps that write rows; each is a method's return.
Registers(c) ==
  /\ Returns(c)
  /\ call[c].pc = "committing"
  /\ identity.state = "none"
  /\ identity'.state = "active" /\ identity'.registeredAt = call[c].at
  /\ UNCHANGED <<device, ledger, deviceLog>>

RevokesIdentity(c) ==
  /\ Returns(c)
  /\ identity.state = "active" /\ identity'.state = "revoked"
  /\ identity'.registeredAt = identity.registeredAt
  /\ identity'.genesis = identity.genesis
  /\ UNCHANGED <<device, ledger, deviceLog>>

RecordsEvent(c, row, event) ==
  /\ Returns(c)
  /\ call[c].pc = "committing" /\ IsDeviceRequest(call[c].req)
  /\ identity.state = "active"
  /\ device' = [device EXCEPT ![event.device] = row]
  /\ ledger' = call[c].next
  /\ deviceLog' = Append(deviceLog, event)
  /\ event.device = call[c].req.device
  /\ event.operationId = call[c].req.operationId
  /\ event.acceptedAt = call[c].at
  /\ Activates(event, device[event.device], row) \/ Revokes(event, device[event.device], row)
  /\ event.type = EventType(call[c].req)
  /\ call[c].req.type = "activate" => event.auth = call[c].req.auth
  /\ call'[c].req = call[c].req
  /\ call'[c].reply = DeviceReceipt(row, deviceLog', Len(deviceLog'))
  /\ UNCHANGED <<identity, actions>>

LEMMA ProceedShape ==
  ASSUME IInv, NEW c \in Callers, Proceed(c)
  PROVE  \/ Prepares(c)
         \/ Returns(c) /\ UNCHANGED stored
         \/ Registers(c)
         \/ RevokesIdentity(c)
         \/ \E row \in DeviceRows, event \in DeviceEvents : RecordsEvent(c, row, event)
<1>0. ASSUME NEW reply, NEW kicks, Answer(c, reply, kicks), UNCHANGED now
      PROVE  Returns(c)
  BY <1>0, AnswerShape DEF Returns
<1>1. CASE CheckRegistration(c)
  <2>1. CASE Answer(c, RegistrationReplay(c), TRUE)
    BY <1>0, <1>1, <2>1 DEF CheckRegistration
  <2>2. CASE Prepare(c, 0)
    <3>1. ~IsDeviceRequest(call[c].req)
      BY <1>1 DEF CheckRegistration, IInv, CallsOK, LocalsOK, IsDeviceRequest
    <3> QED
      BY <1>1, <2>2, <3>1, PrepareShape DEF CheckRegistration, Prepares
  <2> QED
    BY <1>1, <2>1, <2>2 DEF CheckRegistration
<1>2. CASE CommitRegistration(c)
  <2>1. CASE Answer(c, RegistrationReplay(c), TRUE) /\ UNCHANGED stored
    BY <1>0, <1>2, <2>1 DEF CommitRegistration
  <2>2. CASE /\ identity.state = "none"
             /\ identity' = [state |-> "active", genesis |-> call[c].req.genesis,
                             sequence |-> 0, registeredAt |-> call[c].at,
                             revokedAt |-> NULL]
             /\ Answer(c, IdentityReply(identity'), TRUE)
             /\ UNCHANGED <<device, ledger, deviceLog>>
    <3>1. identity'.state = "active" /\ identity'.registeredAt = call[c].at
      BY <2>2
    <3> QED
      BY <1>0, <1>2, <2>2, <3>1 DEF CommitRegistration, Registers
  <2> QED
    BY <1>2, <2>1, <2>2 DEF CommitRegistration
<1>3. CASE VerifyRevocation(c)
  <2>1. CASE \E code \in RevocationDefect(call[c].req, call[c].at) : Answer(c, Failed(code), FALSE)
    BY <1>0, <1>3, <2>1 DEF VerifyRevocation
  <2>2. CASE Prepare(c, call[c].seen.sequence + 1)
    BY <1>3, <2>2, PrepareShape DEF VerifyRevocation, Prepares, IsDeviceRequest
  <2> QED
    BY <1>3, <2>1, <2>2 DEF VerifyRevocation
<1>4. CASE CommitRevocation(c)
  <2>1. CASE Answer(c, RevocationRace, TRUE) /\ UNCHANGED stored
    BY <1>0, <1>4, <2>1 DEF CommitRevocation
  <2>2. CASE /\ RevocationStands(c)
             /\ identity' = [identity EXCEPT !.state = "revoked", !.sequence = call[c].next,
                                             !.revokedAt = call[c].at]
             /\ Answer(c, IdentityReply(identity'), TRUE)
             /\ UNCHANGED <<device, ledger, deviceLog>>
    <3>1. /\ identity'.registeredAt = identity.registeredAt
          /\ identity'.genesis = identity.genesis
          /\ identity'.state = "revoked" /\ identity.state = "active"
      BY <2>2 DEF RevocationStands, IInv, StoredOK, Rows
    <3> QED
      BY <1>0, <1>4, <2>2, <3>1 DEF CommitRevocation, RevokesIdentity
  <2> QED
    BY <1>4, <2>1, <2>2 DEF CommitRevocation
<1>5. CASE DecideActivation(c)
  <2>1. CASE \E reply \in {DeviceReceipt(device[call[c].req.device], deviceLog, n) :
                             n \in DOMAIN deviceLog \cup {device[call[c].req.device].activation}}
                          \cup {Failed(code) : code \in ActivationDefect(c)} :
               \E kicks \in BOOLEAN : Answer(c, reply, kicks)
    BY <1>0, <1>5, <2>1 DEF DecideActivation
  <2>2. CASE /\ ActivationDefect(c) = {} /\ CommitsOf(call[c].req.operationId) = {}
             /\ device[call[c].req.device].state = "absent"
             /\ Prepare(c, ledger + 1)
    BY <1>5, <2>2, PrepareShape DEF DecideActivation, Prepares
  <2> QED
    BY <1>5, <2>1, <2>2 DEF DecideActivation, CommitsOf
<1>6. CASE CommitActivation(c)
  <2>1. CASE Answer(c, DeviceRace(c), TRUE) /\ UNCHANGED stored
    BY <1>0, <1>6, <2>1 DEF CommitActivation
  <2>2. CASE DeviceMutationStands(c)
    <3>1. PICK row \in DeviceRows, event \in DeviceEvents :
            /\ RecordDeviceEvent(c, row, event)
            /\ event.device = call[c].req.device
            /\ event.operationId = call[c].req.operationId
            /\ event.acceptedAt = call[c].at
            /\ event.auth = call[c].req.auth
            /\ Activates(event, device[event.device], row)
      BY <1>6, <2>2, ActivationRecord
    <3>2. /\ call'[c].req = call[c].req
          /\ call'[c].reply = DeviceReceipt(row, deviceLog', Len(deviceLog'))
      BY <3>1, AnswerShape DEF RecordDeviceEvent
    <3>3. event.type = EventType(call[c].req)
      BY <1>6, <3>1 DEF Activates, EventType, CommitActivation
    <3>4. RecordsEvent(c, row, event)
      BY <1>0, <1>6, <2>2, <3>1, <3>2, <3>3
      DEF RecordsEvent, RecordDeviceEvent, CommitActivation, IsDeviceRequest,
          DeviceMutationStands
    <3> QED
      BY <3>4
  <2> QED
    BY <1>6, <2>1, <2>2 DEF CommitActivation
<1>7. CASE DecideDeviceRevocation(c)
  <2>1. CASE \E reply \in {DeviceReceipt(device[call[c].req.device], deviceLog, n) :
                             n \in DOMAIN deviceLog \cup {device[call[c].req.device].revocation}}
                          \cup {Failed(code) : code \in DeviceRevocationDefect(c)} :
               \E kicks \in BOOLEAN : Answer(c, reply, kicks)
    BY <1>0, <1>7, <2>1 DEF DecideDeviceRevocation
  <2>2. CASE /\ DeviceRevocationDefect(c) = {} /\ CommitsOf(call[c].req.operationId) = {}
             /\ device[call[c].req.device].state # "revoked"
             /\ Prepare(c, ledger + 1)
    <3>1. call[c].req.type = "revokeSelf" /\ device[call[c].req.device].state = "active" =>
            device[call[c].req.device].auth = call[c].req.auth
      BY <2>2 DEF DeviceRevocationDefect
    <3> QED
      BY <1>7, <2>2, <3>1, PrepareShape DEF DecideDeviceRevocation, Prepares
  <2> QED
    BY <1>7, <2>1, <2>2 DEF DecideDeviceRevocation, CommitsOf
<1>8. CASE CommitDeviceRevocation(c)
  <2>1. CASE Answer(c, DeviceRace(c), TRUE) /\ UNCHANGED stored
    BY <1>0, <1>8, <2>1 DEF CommitDeviceRevocation
  <2>2. CASE DeviceMutationStands(c)
    <3>1. PICK row \in DeviceRows, event \in DeviceEvents :
            /\ RecordDeviceEvent(c, row, event)
            /\ event.device = call[c].req.device
            /\ event.operationId = call[c].req.operationId
            /\ event.acceptedAt = call[c].at
            /\ Revokes(event, device[event.device], row)
      BY <1>8, <2>2, RevocationRecord
    <3>2. /\ call'[c].req = call[c].req
          /\ call'[c].reply = DeviceReceipt(row, deviceLog', Len(deviceLog'))
      BY <3>1, AnswerShape DEF RecordDeviceEvent
    <3>3. event.type = EventType(call[c].req)
      BY <1>8, <3>1 DEF Revokes, EventType, CommitDeviceRevocation
    <3>4. RecordsEvent(c, row, event)
      BY <1>0, <1>8, <2>2, <3>1, <3>2, <3>3
      DEF RecordsEvent, RecordDeviceEvent, CommitDeviceRevocation, IsDeviceRequest,
          DeviceMutationStands
    <3> QED
      BY <3>4
  <2> QED
    BY <1>8, <2>1, <2>2 DEF CommitDeviceRevocation
<1> QED
  BY <1>1, <1>2, <1>3, <1>4, <1>5, <1>6, <1>7, <1>8 DEF Proceed

-----------------------------------------------------------------------------
(* The claims of a device mutation in flight *)

DeviceInFlight(k) == k.pc \in {"verifying", "committing"} /\ IsDeviceRequest(k.req)
DeviceCommitting(k) == k.pc = "committing" /\ IsDeviceRequest(k.req)

\* At most one device mutation is in flight: it holds the gate.
GateOK == \A c \in Callers : DeviceInFlight(call[c]) => gate = c

\* Between its decision and its commit it owns the next sequence of the ledger,
\* the row it decided on, and an operation that has not been committed; and
\* nothing in the log is younger than the time it read.
Claim(k) ==
  LET row == device[k.req.device] IN
  /\ ledger + 1 = k.next
  /\ row.state # "revoked"
  /\ k.req.type = "activate" => row.state = "absent"
  /\ k.req.type = "revokeSelf" /\ row.state = "active" => row.auth = k.req.auth
  /\ CommitsOf(k.req.operationId) = {}
  /\ \A n \in DOMAIN deviceLog : deviceLog[n].acceptedAt <= k.at

ClaimsOK == \A c \in Callers : DeviceCommitting(call[c]) => Claim(call[c])

\* The log: times in order and in the past, no operation twice.
LogOK ==
  /\ \A n \in DOMAIN deviceLog : deviceLog[n].acceptedAt <= now
  /\ LedgerTimesOrdered
  /\ OperationsCommitOnce

FullInv == IInv /\ TimesOK /\ GateOK /\ ClaimsOK /\ LogOK

LEMMA InitFullInv == Init => FullInv
<1> SUFFICES ASSUME Init PROVE FullInv
  OBVIOUS
<1> USE DEF Init
<1>1. StoredOK
  <2>1. identity \in Rows
    BY DEF NoIdentity, Rows
  <2>2. device \in [Devices -> DeviceRows]
    BY DEF NoDevice, DeviceRows
  <2>3. LifecycleMatchesActions
    BY DEF LifecycleMatchesActions, NoIdentity
  <2>4. RowsMatchLog
    BY DEF RowsMatchLog, EventsOf, NoDevice
  <2> QED
    BY <2>1, <2>2, <2>3, <2>4 DEF StoredOK, LedgerIsGapless
<1>2. CallsOK
  BY DEF CallsOK, IdleCall, Calls, LocalsOK
<1>3. ClockOK /\ TimesOK
  BY BoundsAssumption DEF ClockOK, TimesOK, NoIdentity, IdleCall
<1>4. GateOK /\ ClaimsOK /\ LogOK
  BY DEF GateOK, ClaimsOK, LogOK, IdleCall, DeviceInFlight, DeviceCommitting,
         LedgerTimesOrdered, OperationsCommitOnce
<1> QED
  BY <1>1, <1>2, <1>3, <1>4 DEF FullInv, IInv

LEMMA NextKeepsIInv == ASSUME IInv, TimesOK, Next PROVE IInv'
<1>1. ASSUME NEW c \in Callers, NEW r \in Requests, Arrive(c, r) PROVE IInv'
  BY <1>1, RegisterArrivesStep, RevokeArrivesStep, DeviceRequestArrivesStep, ReadStatusStep,
     ReadDeviceStatusStep DEF Arrive
<1>2. ASSUME NEW c \in Callers, Proceed(c) PROVE IInv'
  BY <1>2, CheckRegistrationStep, CommitRegistrationStep, VerifyRevocationStep,
     CommitRevocationStep, DecideActivationStep, CommitActivationStep,
     DecideDeviceRevocationStep, CommitDeviceRevocationStep DEF Proceed
<1> QED
  BY <1>1, <1>2, RestartStep, TickStep DEF Next

\* The shapes of the steps of Next.
LEMMA StepShape ==
  ASSUME IInv, Next
  PROVE  \/ \E c \in Callers : \/ Starts(c)
                               \/ Prepares(c)
                               \/ Returns(c) /\ UNCHANGED stored
                               \/ Registers(c)
                               \/ RevokesIdentity(c)
                               \/ \E row \in DeviceRows, event \in DeviceEvents :
                                    RecordsEvent(c, row, event)
         \/ Drops
         \/ Tick
<1>1. Restart => Drops
  BY DEF Restart, Drops, IdleCall
<1> QED
  BY <1>1, ArriveShape, ProceedShape DEF Next

LEMMA NextKeepsGate == ASSUME IInv, GateOK, Next PROVE GateOK'
<1> SUFFICES ASSUME NEW x \in Callers, DeviceInFlight(call'[x])
             PROVE  gate' = x
  BY DEF GateOK
<1>0. x # NULL
  BY NullAssumption
<1>1. ASSUME NEW c \in Callers, Starts(c) PROVE gate' = x
  BY <1>0, <1>1 DEF Starts, Others, DeviceInFlight, GateOK, IsDeviceRequest
<1>2. ASSUME NEW c \in Callers, Prepares(c) PROVE gate' = x
  <2>1. call[c].pc = "arrived" => ~IsDeviceRequest(call[c].req)
    BY DEF IInv, CallsOK, LocalsOK, IsDeviceRequest
  <2> QED
    BY <1>2, <2>1 DEF Prepares, Others, DeviceInFlight, GateOK
<1>3. ASSUME NEW c \in Callers, Returns(c) PROVE gate' = x
  BY <1>3 DEF Returns, Others, DeviceInFlight, GateOK
<1>4. CASE Drops
  BY <1>4 DEF Drops, DeviceInFlight
<1>5. CASE Tick
  BY <1>5 DEF Tick, GateOK
<1> QED
  BY <1>1, <1>2, <1>3, <1>4, <1>5, StepShape DEF Registers, RevokesIdentity, RecordsEvent

LEMMA NextKeepsTimes == ASSUME IInv, TimesOK, Next PROVE TimesOK'
<1>0. /\ now \in Nat
      /\ \A x \in Callers : call[x].pc = "committing" => call[x].at \in Nat
      /\ \A x \in Callers : call[x].pc = "arrived" => ~IsIdentityRevocation(call[x].req)
  BY BoundsAssumption DEF IInv, ClockOK, CallsOK, LocalsOK, IsIdentityRevocation
<1>1. ASSUME NEW c \in Callers, Starts(c) PROVE TimesOK'
  BY <1>0, <1>1 DEF Starts, Others, TimesOK, stored, IsIdentityRevocation
<1>2. ASSUME NEW c \in Callers, Prepares(c) PROVE TimesOK'
  BY <1>0, <1>2 DEF Prepares, Others, TimesOK, stored
<1>3. ASSUME NEW c \in Callers, Returns(c), UNCHANGED identity PROVE TimesOK'
  BY <1>3 DEF Returns, Others, TimesOK
<1>4. ASSUME NEW c \in Callers, Registers(c) PROVE TimesOK'
  BY <1>4 DEF Registers, Returns, Others, TimesOK
<1>5. ASSUME NEW c \in Callers, RevokesIdentity(c) PROVE TimesOK'
  BY <1>5 DEF RevokesIdentity, Returns, Others, TimesOK
<1>6. CASE Drops
  BY <1>6 DEF Drops, TimesOK, stored
<1>7. CASE Tick
  <2>1. identity.state # "none" => identity.registeredAt \in Nat
    <3>1. identity.state # "none" => 1 \in DOMAIN actions
      BY DEF IInv, StoredOK, LifecycleMatchesActions, Rows
    <3>2. \A n \in DOMAIN actions : actions[n] \in IdentityEvents
      BY DEF IInv, StoredOK
    <3> QED
      BY <3>1, <3>2 DEF IInv, StoredOK, LifecycleMatchesActions, IdentityEvents
  <2> QED
    BY <1>0, <1>7, <2>1 DEF Tick, TimesOK, stored
<1> QED
  BY <1>1, <1>2, <1>3, <1>4, <1>5, <1>6, <1>7, StepShape DEF RecordsEvent, stored

\* As long as the device rows, the log and the ledger do not change, the claims
\* of the methods that had one stand.
LEMMA ClaimsUndisturbed ==
  ASSUME ClaimsOK, UNCHANGED <<device, ledger, deviceLog>>,
         \A x \in Callers : DeviceCommitting(call'[x]) => call'[x] = call[x]
  PROVE  ClaimsOK'
BY DEF ClaimsOK, Claim, CommitsOf

LEMMA NextKeepsClaims == ASSUME IInv, GateOK, ClaimsOK, LogOK, Next PROVE ClaimsOK'
<1>1. ASSUME NEW c \in Callers, Starts(c) PROVE ClaimsOK'
  BY <1>1, ClaimsUndisturbed DEF Starts, Others, DeviceCommitting, stored
<1>2. ASSUME NEW c \in Callers, Prepares(c) PROVE ClaimsOK'
  <2> SUFFICES ASSUME NEW x \in Callers, DeviceCommitting(call'[x])
               PROVE  Claim(call[x])'
    BY DEF ClaimsOK
  <2>1. CASE x # c
    BY <1>2, <2>1 DEF Prepares, Others, ClaimsOK, Claim, CommitsOf, stored
  <2>2. CASE x = c
    BY <1>2, <2>2 DEF Prepares, DeviceCommitting, LogOK, Claim, CommitsOf, stored
  <2> QED
    BY <2>1, <2>2
<1>3. ASSUME NEW c \in Callers, Returns(c), UNCHANGED <<device, ledger, deviceLog>>
      PROVE  ClaimsOK'
  BY <1>3, ClaimsUndisturbed DEF Returns, Others, DeviceCommitting
<1>4. ASSUME NEW c \in Callers, NEW row \in DeviceRows, NEW event \in DeviceEvents,
             RecordsEvent(c, row, event)
      PROVE  ClaimsOK'
  \* The method held the gate: no other device mutation is in flight.
  <2>1. \A x \in Callers : ~DeviceCommitting(call'[x])
    BY <1>4 DEF RecordsEvent, Returns, Others, GateOK, DeviceInFlight, DeviceCommitting
  <2> QED
    BY <2>1 DEF ClaimsOK
<1>5. CASE Drops
  BY <1>5 DEF Drops, ClaimsOK, DeviceCommitting
<1>6. CASE Tick
  BY <1>6, ClaimsUndisturbed DEF Tick, stored
<1> QED
  BY <1>1, <1>2, <1>3, <1>4, <1>5, <1>6, StepShape
  DEF Registers, RevokesIdentity, stored

LEMMA NextKeepsLog == ASSUME IInv, TimesOK, ClaimsOK, LogOK, Next PROVE LogOK'
<1>0. /\ now \in Nat /\ deviceLog \in Seq(DeviceEvents)
      /\ \A n \in DOMAIN deviceLog : deviceLog[n].acceptedAt \in Nat
  <2>1. now \in Nat /\ deviceLog \in Seq(DeviceEvents)
    BY BoundsAssumption DEF IInv, ClockOK, StoredOK
  <2>2. \A n \in DOMAIN deviceLog : deviceLog[n] \in DeviceEvents
    BY <2>1
  <2> QED
    BY <2>1, <2>2 DEF DeviceEvents
<1>1. ASSUME UNCHANGED <<deviceLog, now>> PROVE LogOK'
  BY <1>1 DEF LogOK, LedgerTimesOrdered, OperationsCommitOnce
<1>2. ASSUME NEW c \in Callers, NEW row \in DeviceRows, NEW event \in DeviceEvents,
             RecordsEvent(c, row, event)
      PROVE  LogOK'
  <2> DEFINE len == Len(deviceLog)
  <2>1. /\ deviceLog'[len + 1] = event
        /\ \A n \in DOMAIN deviceLog : deviceLog'[n] = deviceLog[n]
        /\ DOMAIN deviceLog' = DOMAIN deviceLog \cup {len + 1}
    BY <1>0, <1>2, AppendedEvents DEF RecordsEvent
  <2>2. /\ DeviceCommitting(call[c])
        /\ call[c].at <= now
        /\ CommitsOf(call[c].req.operationId) = {}
        /\ \A n \in DOMAIN deviceLog : deviceLog[n].acceptedAt <= call[c].at
    BY <1>2 DEF RecordsEvent, TimesOK, ClaimsOK, Claim, DeviceCommitting
  <2>3. /\ event.acceptedAt = call[c].at
        /\ \A n \in DOMAIN deviceLog : deviceLog[n].operationId # event.operationId
        /\ now' = now
    BY <1>2, <2>2 DEF RecordsEvent, CommitsOf, Returns
  <2>4. \A n \in DOMAIN deviceLog : n \in Nat /\ n < len + 1
    BY <1>0
  <2>5. \A n \in DOMAIN deviceLog' : deviceLog'[n].acceptedAt <= now'
    BY <2>1, <2>2, <2>3 DEF LogOK
  <2>6. LedgerTimesOrdered'
    BY <1>0, <2>1, <2>2, <2>3, <2>4 DEF LogOK, LedgerTimesOrdered
  <2>7. OperationsCommitOnce'
    BY <2>1, <2>3 DEF LogOK, OperationsCommitOnce
  <2> QED
    BY <2>5, <2>6, <2>7 DEF LogOK
<1>3. CASE Tick
  <2>1. deviceLog' = deviceLog /\ now' = now + 1
    BY <1>3 DEF Tick, stored
  <2>2. \A n \in DOMAIN deviceLog : deviceLog[n].acceptedAt <= now + 1
    BY <1>0 DEF LogOK
  <2> QED
    BY <2>1, <2>2 DEF LogOK, LedgerTimesOrdered, OperationsCommitOnce
<1>4. ASSUME NEW c \in Callers,
             Starts(c) \/ Prepares(c) \/ (Returns(c) /\ UNCHANGED stored)
               \/ Registers(c) \/ RevokesIdentity(c)
      PROVE  LogOK'
  BY <1>1, <1>4 DEF Starts, Prepares, Returns, Registers, RevokesIdentity, stored
<1> QED
  BY <1>1, <1>2, <1>3, <1>4, StepShape DEF Drops, stored

LEMMA StutterKeepsFullInv == ASSUME FullInv, UNCHANGED vars PROVE FullInv'
<1> USE DEF vars
<1>1. StoredOK'
  BY StoredUnchanged DEF FullInv, IInv, stored
<1>2. CallsOK' /\ ClockOK' /\ TimesOK'
  BY DEF FullInv, IInv, CallsOK, ClockOK, TimesOK
<1>3. GateOK' /\ LogOK'
  BY DEF FullInv, GateOK, LogOK, LedgerTimesOrdered, OperationsCommitOnce
<1>4. ClaimsOK'
  BY DEF FullInv, ClaimsOK, Claim, CommitsOf
<1> QED
  BY <1>1, <1>2, <1>3, <1>4 DEF FullInv, IInv

\* The invariant the theorems below are drawn from: rows that agree with their
\* events, methods that hold what their program point needs, one device mutation
\* at a time, and its claim on the next sequence, its row and its operation.
THEOREM Invariance == Spec => []FullInv
<1>1. Init => FullInv
  BY InitFullInv
<1>2. FullInv /\ [Next]_vars => FullInv'
  <2>1. ASSUME FullInv, Next PROVE FullInv'
    BY <2>1, NextKeepsIInv, NextKeepsTimes, NextKeepsGate, NextKeepsClaims, NextKeepsLog
    DEF FullInv
  <2> QED
    BY <2>1, StutterKeepsFullInv
<1> QED
  BY <1>1, <1>2, PTL DEF Spec

\* Every variable of the registry object keeps its type, and a method in flight
\* never reads a local it has not set.
THEOREM TypeCorrectness == Spec => []TypeOK
<1>1. FullInv => TypeOK
  BY DEF FullInv, IInv, StoredOK, CallsOK, ClockOK, TypeOK
<1> QED
  BY <1>1, Invariance, PTL

\* The rows of the identity and of each device are what the recorded events
\* say, after any interleaving of registrations, activations and revocations.
THEOREM RowsAgreeWithEvents == Spec => []RowsMatchEvents
<1>1. FullInv => RowsMatchEvents
  BY DEF FullInv, IInv, StoredOK, RowsMatchEvents
<1> QED
  BY <1>1, Invariance, PTL

\* The device ledger has no gap and no repetition, its events are ordered in
\* time, and a signed operation takes effect once.
THEOREM LedgerCorrectness == Spec => []LedgerIsSound
<1>1. FullInv => LedgerIsSound
  BY DEF FullInv, IInv, StoredOK, LogOK, LedgerIsSound
<1> QED
  BY <1>1, Invariance, PTL

\* What a device mutation decided before hashing its event still holds when its
\* transaction runs, unless the identity was revoked meanwhile.
THEOREM ReservationCorrectness == Spec => []ReservationHolds
<1>1. ASSUME FullInv PROVE ReservationHolds
  <2> SUFFICES ASSUME NEW c \in Callers, call[c].pc = "committing",
                      IsDeviceRequest(call[c].req), identity.state = "active"
               PROVE  DeviceMutationStands(c)
    BY DEF ReservationHolds
  <2> DEFINE row == device[call[c].req.device]
  <2>1. Claim(call[c])
    BY <1>1 DEF FullInv, ClaimsOK, DeviceCommitting
  <2>2. row.state \in {"absent", "active", "revoked"}
    <3>1. call[c].req.device \in Devices
      BY <1>1, DeviceCall DEF FullInv, DeviceRequests
    <3> QED
      BY <1>1, <3>1 DEF FullInv, IInv, StoredOK, DeviceRows
  <2> QED
    BY <2>1, <2>2 DEF Claim, DeviceMutationStands, IsDeviceRequest
<1> QED
  BY <1>1, Invariance, PTL

-----------------------------------------------------------------------------
(* The registry implements the abstract lifecycle *)

LEMMA AbstractStep ==
  ASSUME IInv, Next
  PROVE  [Abstract!Next]_(Abstract!vars)
<1> DEFINE dev == [d \in Devices |-> device[d].state]
<1>1. ASSUME UNCHANGED <<identity, device>> PROVE UNCHANGED Abstract!vars
  BY <1>1 DEF Abstract!vars
<1>2. ASSUME NEW c \in Callers, Registers(c) PROVE Abstract!RegisterIdentity
  BY <1>2 DEF Registers, Abstract!RegisterIdentity
<1>3. ASSUME NEW c \in Callers, RevokesIdentity(c) PROVE Abstract!RevokeIdentity
  BY <1>3 DEF RevokesIdentity, Abstract!RevokeIdentity
<1>4. ASSUME NEW c \in Callers, NEW row \in DeviceRows, NEW event \in DeviceEvents,
             RecordsEvent(c, row, event)
      PROVE  \E d \in Devices : Abstract!ActivateDevice(d) \/ Abstract!RevokeDevice(d)
  <2> DEFINE d == event.device
  <2>1. d \in Devices /\ device \in [Devices -> DeviceRows]
    BY DEF DeviceEvents, IInv, StoredOK
  <2>2. /\ identity.state = "active" /\ identity' = identity
        /\ device' = [device EXCEPT ![d] = row]
    BY <1>4 DEF RecordsEvent
  <2>3. dev' = [dev EXCEPT ![d] = row.state]
    BY <2>1, <2>2
  <2>4. CASE Activates(event, device[d], row)
    <3>1. dev[d] = "absent" /\ row.state = "active"
      BY <2>1, <2>4 DEF Activates
    <3> QED
      BY <2>1, <2>2, <2>3, <3>1 DEF Abstract!ActivateDevice
  <2>5. CASE Revokes(event, device[d], row)
    <3>1. dev[d] # "revoked" /\ row.state = "revoked"
      BY <2>1, <2>5 DEF Revokes
    <3> QED
      BY <2>1, <2>2, <2>3, <3>1 DEF Abstract!RevokeDevice
  <2> QED
    BY <1>4, <2>4, <2>5 DEF RecordsEvent
<1>5. ASSUME NEW c \in Callers,
             Starts(c) \/ Prepares(c) \/ (Returns(c) /\ UNCHANGED stored)
      PROVE  UNCHANGED <<identity, device>>
  BY <1>5 DEF Starts, Prepares, stored
<1>6. Drops \/ Tick => UNCHANGED <<identity, device>>
  BY DEF Drops, Tick, stored
<1> QED
  BY <1>1, <1>2, <1>3, <1>4, <1>5, <1>6, StepShape DEF Abstract!Next

\* The registry implements the abstract lifecycle of an identity and its
\* devices: nothing leaves a terminal state, and after the identity is revoked
\* nothing below it changes.
THEOREM Refinement == Spec => ImplementsLifecycle
<1>1. Init => Abstract!Init
  BY DEF Init, Abstract!Init, NoIdentity, NoDevice
<1>2. FullInv /\ [Next]_vars => [Abstract!Next]_(Abstract!vars)
  <2>1. CASE Next
    BY <2>1, AbstractStep DEF FullInv
  <2>2. CASE UNCHANGED vars
    BY <2>2 DEF vars, Abstract!vars
  <2> QED
    BY <2>1, <2>2
<1> QED
  BY <1>1, <1>2, Invariance, PTL DEF Spec, ImplementsLifecycle, Abstract!Spec

-----------------------------------------------------------------------------
(* Who holds the gate *)

\* The gate belongs to a device mutation that is going on.
GateIsHeld == \A c \in Callers : gate = c => DeviceInFlight(call[c])

LEMMA NextKeepsHolder == ASSUME IInv, GateIsHeld, Next PROVE GateIsHeld'
<1> SUFFICES ASSUME NEW x \in Callers, gate' = x
             PROVE  DeviceInFlight(call'[x])
  BY DEF GateIsHeld
<1>0. x # NULL
  BY NullAssumption
<1>1. ASSUME NEW c \in Callers, Starts(c) PROVE DeviceInFlight(call'[x])
  <2>1. x = c /\ IsDeviceRequest(call'[c].req)
    BY <1>0, <1>1 DEF Starts
  <2> QED
    BY <1>1, <2>1 DEF Starts, DeviceInFlight, IsDeviceRequest
<1>2. ASSUME NEW c \in Callers, Prepares(c) PROVE DeviceInFlight(call'[x])
  BY <1>2 DEF Prepares, Others, GateIsHeld, DeviceInFlight
<1>3. ASSUME NEW c \in Callers, Returns(c) PROVE DeviceInFlight(call'[x])
  BY <1>0, <1>3 DEF Returns, Others, GateIsHeld
<1>4. CASE Drops
  BY <1>0, <1>4 DEF Drops
<1>5. CASE Tick
  BY <1>5 DEF Tick, GateIsHeld
<1> QED
  BY <1>1, <1>2, <1>3, <1>4, <1>5, StepShape DEF Registers, RevokesIdentity, RecordsEvent

\* The gate is held by exactly the device mutation that is going on: never by
\* two, and never by one that has returned, failed or was lost in a restart, so
\* that requests wait for a method that runs and not for a gate left behind.
THEOREM GateIsNeverStranded ==
  Spec => [](\A c \in Callers : gate = c <=> DeviceInFlight(call[c]))
<1>1. Init => GateIsHeld
  BY NullAssumption DEF Init, GateIsHeld
<1>2. FullInv /\ GateIsHeld /\ [Next]_vars => GateIsHeld'
  <2>1. FullInv /\ GateIsHeld /\ Next => GateIsHeld'
    BY NextKeepsHolder DEF FullInv
  <2>2. GateIsHeld /\ UNCHANGED vars => GateIsHeld'
    BY DEF GateIsHeld, vars
  <2> QED
    BY <2>1, <2>2
<1>3. FullInv /\ GateIsHeld => \A c \in Callers : gate = c <=> DeviceInFlight(call[c])
  BY DEF FullInv, GateOK, GateIsHeld
<1> QED
  BY <1>1, <1>2, <1>3, Invariance, PTL DEF Spec

-----------------------------------------------------------------------------
(* What callers are told *)

\* The event at n is one that the device request r asks for.
EventOf(n, r) ==
  /\ n \in EventsOf(r.device, EventType(r))
  /\ r.type = "activate" => deviceLog[n].auth = r.auth

\* Every device event is what some request of its operation asked for.
EventsWereRequested ==
  \A n \in DOMAIN deviceLog : \E r \in Requests :
    IsDeviceRequest(r) /\ r.operationId = deviceLog[n].operationId /\ EventOf(n, r)

\* The answer of a method stays true.  A registration can only be acknowledged
\* once there is an identity; the rest is what AnswersAreTrue says.
AnswerIsTrue(k) ==
  LET r == k.req
      n == k.reply.body.event IN
  k.pc = "replied" /\ k.reply.code = "OK" =>
    /\ r.type = "register" => identity.state # "none" /\ identity.genesis = r.genesis
    /\ IsIdentityRevocation(r) => identity.state = "revoked" /\ k.reply = IdentityReply(identity)
    /\ IsDeviceRequest(r) => EventOf(n, r) /\ CommitsOf(r.operationId) \subseteq {n}

AnswersInv ==
  /\ FullInv
  /\ EventsWereRequested
  /\ \A c \in Callers : AnswerIsTrue(call[c])

\* All events of an operation are what its request asks for: the requests of
\* one operation ask for the same.
LEMMA EventsOfOperation ==
  ASSUME EventsWereRequested, NEW r \in Requests, IsDeviceRequest(r),
         NEW n \in CommitsOf(r.operationId)
  PROVE  EventOf(n, r)
<1>1. n \in DOMAIN deviceLog /\ deviceLog[n].operationId = r.operationId
  BY DEF CommitsOf
<1>2. PICK s \in Requests : IsDeviceRequest(s) /\ s.operationId = r.operationId /\ EventOf(n, s)
  BY <1>1 DEF EventsWereRequested
<1>3. s.type = r.type /\ s.device = r.device /\ s.auth = r.auth
  BY <1>2, RequestFields, RequestsAssumption
<1> QED
  BY <1>2, <1>3 DEF EventOf, EventType

\* The events a row names are events of its device; a row has none of the
\* events that would have moved it on.
LEMMA EventsOfRow ==
  ASSUME StoredOK, NEW d \in Devices
  PROVE  LET row == device[d] IN
         /\ row.activation # NULL => /\ row.activation \in EventsOf(d, "activated")
                                     /\ deviceLog[row.activation].auth = row.auth
         /\ row.revocation # NULL => row.revocation \in EventsOf(d, "revoked")
         /\ row.state = "absent" => EventsOf(d, "activated") = {}
         /\ row.state # "revoked" => EventsOf(d, "revoked") = {}
BY DEF StoredOK, RowsMatchLog

LEMMA ReceiptNamesEvent ==
  ASSUME NEW row, NEW log, NEW n, DeviceReceipt(row, log, n).code = "OK"
  PROVE  n # NULL /\ DeviceReceipt(row, log, n).body.event = n
BY DEF DeviceReceipt, Failed, Succeeded

LEMMA FailuresAreTrue ==
  ASSUME NEW k, NEW code \in Codes \ {"OK"}, k.reply = Failed(code)
  PROVE  AnswerIsTrue(k)
BY DEF AnswerIsTrue, Failed

\* A receipt for an event the request asks for, of an operation with no other.
LEMMA ReceiptIsTrue ==
  ASSUME NEW k, IsDeviceRequest(k.req), NEW row, NEW n, k.reply = DeviceReceipt(row, deviceLog, n),
         n # NULL => EventOf(n, k.req) /\ CommitsOf(k.req.operationId) \subseteq {n}
  PROVE  AnswerIsTrue(k)
<1> SUFFICES ASSUME k.reply.code = "OK" PROVE AnswerIsTrue(k)
  BY DEF AnswerIsTrue
<1>1. n # NULL /\ k.reply.body.event = n
  BY ReceiptNamesEvent
<1>2. ~IsIdentityRevocation(k.req) /\ k.req.type # "register"
  BY DEF IsDeviceRequest, IsIdentityRevocation
<1> QED
  BY <1>1, <1>2 DEF AnswerIsTrue

\* What is true of the rows stays true of the rows when they do not change.
LEMMA AnswerUndisturbed ==
  ASSUME NEW c \in Callers, UNCHANGED stored,
         \/ call'[c].pc # "replied"
         \/ AnswerIsTrue(call[c]) /\ call'[c] = call[c]
  PROVE  AnswerIsTrue(call[c])'
BY DEF AnswerIsTrue, EventOf, EventsOf, CommitsOf, IdentityReply, stored

LEMMA ArriveAnswers ==
  ASSUME AnswersInv, NEW c \in Callers, NEW r \in Requests, Arrive(c, r)
  PROVE  AnswerIsTrue(call[c])'
<1>0. IInv
  BY DEF AnswersInv, FullInv
<1>1. ASSUME NEW code \in Codes \ {"OK"}, NEW kicks, AnswerAtOnce(c, r, Failed(code), kicks)
      PROVE  AnswerIsTrue(call[c])'
  BY <1>0, <1>1, AnswerAtOnceShape DEF AnswerIsTrue, Failed
<1>2. ASSUME NEW reply, NEW kicks, AnswerAtOnce(c, r, reply, kicks),
             r.type \in {"status", "deviceStatus"}
      PROVE  AnswerIsTrue(call[c])'
  BY <1>0, <1>2, AnswerAtOnceShape DEF AnswerIsTrue, IsIdentityRevocation, IsDeviceRequest
<1>3. CASE RegisterArrives(c, r)
  BY <1>0, <1>3 DEF RegisterArrives, AnswerIsTrue, IdleCall, IInv, CallsOK
<1>4. CASE RevokeArrives(c, r)
  <2>1. CASE identity.state = "revoked" /\ AnswerAtOnce(c, r, IdentityReply(identity), TRUE)
    BY ZenonT(40), <1>0, <1>4, <2>1, AnswerAtOnceShape
    DEF RevokeArrives, AnswerIsTrue, IsDeviceRequest, stored, IdentityReply
  <2>2. CASE call' = [call EXCEPT ![c] = [IdleCall EXCEPT !.pc = "verifying", !.req = r,
                                                          !.seen = identity, !.at = now]]
    BY <1>0, <2>2 DEF AnswerIsTrue, IdleCall, IInv, CallsOK
  <2> QED
    BY <1>1, <1>4, <2>1, <2>2 DEF RevokeArrives, Codes
<1>5. CASE DeviceRequestArrives(c, r)
  <2>1. CASE call' = [call EXCEPT ![c] = [IdleCall EXCEPT !.pc = "verifying", !.req = r,
                                                          !.seen = identity]]
    BY <1>0, <2>1 DEF AnswerIsTrue, IdleCall, IInv, CallsOK
  <2> QED
    BY <1>1, <1>5, <2>1 DEF DeviceRequestArrives, Codes
<1>6. CASE ReadStatus(c, r)
  BY <1>2, <1>6 DEF ReadStatus
<1>7. CASE ReadDeviceStatus(c, r)
  BY <1>2, <1>7 DEF ReadDeviceStatus
<1> QED
  BY <1>3, <1>4, <1>5, <1>6, <1>7 DEF Arrive

\* The answers of the lifecycle methods.
LEMMA LifecycleAnswers ==
  ASSUME AnswersInv, NEW c \in Callers,
         CheckRegistration(c) \/ CommitRegistration(c) \/ VerifyRevocation(c)
           \/ CommitRevocation(c)
  PROVE  AnswerIsTrue(call[c])'
<1>0. IInv
  BY DEF AnswersInv, FullInv
<1>1. ASSUME NEW code \in Codes \ {"OK"}, NEW kicks, Answer(c, Failed(code), kicks)
      PROVE  AnswerIsTrue(call[c])'
  BY <1>0, <1>1, AnswerShape DEF AnswerIsTrue, Failed
<1>2. ASSUME NEW next, Prepare(c, next)
      PROVE  AnswerIsTrue(call[c])'
  BY <1>0, <1>2, PrepareShape DEF AnswerIsTrue
<1>3. ASSUME Answer(c, IdentityReply(identity'), TRUE), identity'.state # "none",
             \/ call[c].req.type = "register" /\ identity'.genesis = call[c].req.genesis
             \/ IsIdentityRevocation(call[c].req) /\ identity'.state = "revoked"
      PROVE  AnswerIsTrue(call[c])'
  BY <1>0, <1>3, AnswerShape
  DEF AnswerIsTrue, IsDeviceRequest, IsIdentityRevocation, IdentityReply
<1>4. ASSUME Answer(c, RegistrationReplay(c), TRUE), UNCHANGED stored, identity.state # "none",
             call[c].req.type = "register"
      PROVE  AnswerIsTrue(call[c])'
  BY <1>1, <1>3, <1>4 DEF RegistrationReplay, stored, Codes
<1>5. CASE CheckRegistration(c)
  <2>1. call[c].req.type = "register"
    BY <1>0, <1>5 DEF CheckRegistration, IInv, CallsOK, LocalsOK
  <2> QED
    BY <1>2, <1>4, <1>5, <2>1 DEF CheckRegistration
<1>6. CASE CommitRegistration(c)
  <2>1. CASE identity.state = "none"
    <3>1. /\ identity' = [state |-> "active", genesis |-> call[c].req.genesis,
                          sequence |-> 0, registeredAt |-> call[c].at, revokedAt |-> NULL]
          /\ Answer(c, IdentityReply(identity'), TRUE)
      BY <1>6, <2>1, Zenon DEF CommitRegistration
    <3>2. identity'.state = "active" /\ identity'.genesis = call[c].req.genesis
      BY <3>1
    <3> QED
      BY <1>3, <1>6, <3>1, <3>2 DEF CommitRegistration
  <2> QED
    BY <1>4, <1>6, <2>1 DEF CommitRegistration
<1>7. CASE VerifyRevocation(c)
  <2>1. RevocationDefect(call[c].req, call[c].at) \subseteq Codes \ {"OK"}
    BY DEF RevocationDefect, Codes
  <2> QED
    BY <1>1, <1>2, <1>7, <2>1 DEF VerifyRevocation
<1>8. CASE CommitRevocation(c)
  <2>0. IsIdentityRevocation(call[c].req)
    BY <1>8 DEF CommitRevocation, IsIdentityRevocation
  <2>1. CASE Answer(c, RevocationRace, TRUE) /\ UNCHANGED stored
    BY <1>1, <1>3, <2>0, <2>1 DEF RevocationRace, stored, Codes
  <2>2. CASE /\ RevocationStands(c)
             /\ identity' = [identity EXCEPT !.state = "revoked", !.sequence = call[c].next,
                                             !.revokedAt = call[c].at]
             /\ Answer(c, IdentityReply(identity'), TRUE)
    <3>1. identity'.state = "revoked"
      BY <1>0, <2>2 DEF IInv, StoredOK, Rows
    <3> QED
      BY <1>3, <2>0, <2>2, <3>1
  <2> QED
    BY <1>8, <2>1, <2>2 DEF CommitRevocation
<1> QED
  BY <1>5, <1>6, <1>7, <1>8

\* The answers of the device methods.  A method that finds a row beyond its
\* request is answered with the row's event, and its own operation has none.
LEMMA DeviceAnswers ==
  ASSUME AnswersInv, NEW c \in Callers, UNCHANGED stored,
         DecideActivation(c) \/ CommitActivation(c) \/ DecideDeviceRevocation(c)
           \/ CommitDeviceRevocation(c)
  PROVE  AnswerIsTrue(call[c])'
<1> DEFINE r == call[c].req
           row == device[r.device]
<1>0. IInv /\ StoredOK
  BY DEF AnswersInv, FullInv, IInv
<1>1. IsDeviceRequest(r) /\ call[c].pc \in {"verifying", "committing"}
  BY DEF DecideActivation, CommitActivation, DecideDeviceRevocation, CommitDeviceRevocation,
         IsDeviceRequest
<1>2. r \in Requests /\ r.device \in Devices
  BY <1>0, <1>1, DeviceCall DEF DeviceRequests
<1>3. ASSUME NEW code \in Codes \ {"OK"}, NEW kicks, Answer(c, Failed(code), kicks)
      PROVE  AnswerIsTrue(call[c])'
  BY <1>0, <1>3, AnswerShape DEF AnswerIsTrue, Failed
<1>4. ASSUME NEW next, Prepare(c, next)
      PROVE  AnswerIsTrue(call[c])'
  BY <1>0, <1>4, PrepareShape DEF AnswerIsTrue
<1>5. ASSUME NEW n, NEW kicks, Answer(c, DeviceReceipt(row, deviceLog, n), kicks),
             n # NULL => EventOf(n, r) /\ CommitsOf(r.operationId) \subseteq {n}
      PROVE  AnswerIsTrue(call[c])'
  <2>1. /\ call'[c].pc = "replied" /\ call'[c].req = r
        /\ call'[c].reply = DeviceReceipt(row, deviceLog, n)
    BY <1>0, <1>5, AnswerShape
  <2>2. AnswerIsTrue(call'[c])
    BY <1>1, <1>5, <2>1, ReceiptIsTrue
  <2> QED
    BY <2>2 DEF AnswerIsTrue, EventOf, EventsOf, CommitsOf, IdentityReply, stored
<1>6. ASSUME NEW n \in CommitsOf(r.operationId)
      PROVE  EventOf(n, r) /\ CommitsOf(r.operationId) \subseteq {n}
  <2>1. EventOf(n, r)
    BY <1>1, <1>2, EventsOfOperation DEF AnswersInv
  <2>2. CommitsOf(r.operationId) \subseteq {n}
    BY DEF AnswersInv, FullInv, LogOK, OperationsCommitOnce, CommitsOf
  <2> QED
    BY <2>1, <2>2
<1>7. /\ row.activation # NULL => /\ row.activation \in EventsOf(r.device, "activated")
                                  /\ deviceLog[row.activation].auth = row.auth
      /\ row.revocation # NULL => row.revocation \in EventsOf(r.device, "revoked")
  BY <1>0, <1>2, EventsOfRow
<1>8. ASSUME r.type = "activate", row.auth = r.auth, CommitsOf(r.operationId) = {},
             NEW kicks, Answer(c, DeviceReceipt(row, deviceLog, row.activation), kicks)
      PROVE  AnswerIsTrue(call[c])'
  BY <1>5, <1>7, <1>8 DEF EventOf, EventType
<1>9. ASSUME r.type # "activate", CommitsOf(r.operationId) = {},
             NEW kicks, Answer(c, DeviceReceipt(row, deviceLog, row.revocation), kicks)
      PROVE  AnswerIsTrue(call[c])'
  BY <1>5, <1>7, <1>9 DEF EventOf, EventType
<1>10. call[c].pc = "committing" => CommitsOf(r.operationId) = {}
  BY <1>1 DEF AnswersInv, FullInv, ClaimsOK, Claim, DeviceCommitting
<1>11. ASSUME Answer(c, DeviceRace(c), TRUE), call[c].pc = "committing"
       PROVE  AnswerIsTrue(call[c])'
  <2>1. CASE DeviceRace(c) \in {Failed(code) : code \in Codes \ {"OK"}}
    BY <1>3, <1>11, <2>1
  <2>2. CASE r.type # "activate" /\ DeviceRace(c) = DeviceReceipt(row, deviceLog, row.revocation)
    BY <1>9, <1>10, <1>11, <2>2
  <2>3. CASE /\ r.type = "activate" /\ row.auth = r.auth
             /\ DeviceRace(c) = DeviceReceipt(row, deviceLog, row.activation)
    BY <1>8, <1>10, <1>11, <2>3
  <2> QED
    BY <2>1, <2>2, <2>3 DEF DeviceRace, Codes
<1>12. CASE DecideActivation(c)
  <2>1. ActivationDefect(c) \subseteq Codes \ {"OK"}
    BY DEF ActivationDefect, Codes
  <2>2. ActivationDefect(c) = {} /\ row.state = "active" => row.auth = r.auth
    BY DEF ActivationDefect
  <2> QED
    BY <1>3, <1>4, <1>5, <1>6, <1>8, <1>12, <2>1, <2>2 DEF DecideActivation
<1>13. CASE DecideDeviceRevocation(c)
  <2>1. DeviceRevocationDefect(c) \subseteq Codes \ {"OK"}
    BY DEF DeviceRevocationDefect, Codes
  <2> QED
    BY <1>3, <1>4, <1>5, <1>6, <1>9, <1>13, <2>1 DEF DecideDeviceRevocation
<1>14. CASE CommitActivation(c)
  <2>1. CASE DeviceMutationStands(c)
    \* The log would have grown.
    <3>1. \E event : deviceLog' = Append(deviceLog, event)
      BY <1>14, <2>1 DEF CommitActivation, RecordDeviceEvent
    <3> QED
      BY <1>0, <3>1 DEF stored, StoredOK
  <2> QED
    BY <1>11, <1>14, <2>1 DEF CommitActivation
<1>15. CASE CommitDeviceRevocation(c)
  <2>1. CASE DeviceMutationStands(c)
    <3>1. \E event : deviceLog' = Append(deviceLog, event)
      BY <1>15, <2>1 DEF CommitDeviceRevocation, RecordDeviceEvent
    <3> QED
      BY <1>0, <3>1 DEF stored, StoredOK
  <2> QED
    BY <1>11, <1>15, <2>1 DEF CommitDeviceRevocation
<1> QED
  BY <1>12, <1>13, <1>14, <1>15

\* A recorded event takes nothing from the events before it.
LEMMA EventsAreKept ==
  ASSUME IInv, NEW c \in Callers, NEW row \in DeviceRows, NEW event \in DeviceEvents,
         RecordsEvent(c, row, event),
         NEW s, s = call[c].req, NEW last, last = Len(deviceLog')
  PROVE  /\ last # NULL
         /\ DOMAIN deviceLog' = DOMAIN deviceLog \cup {last}
         /\ \A n \in DOMAIN deviceLog : deviceLog'[n] = deviceLog[n]
         /\ deviceLog'[last].operationId = s.operationId
         /\ EventOf(last, s)'
         /\ \A r, n : EventOf(n, r) => EventOf(n, r)'
         /\ \A o : CommitsOf(o)' = CommitsOf(o) \cup IF o = s.operationId THEN {last} ELSE {}
<1> DEFINE len == Len(deviceLog)
<1>1. /\ deviceLog \in Seq(DeviceEvents)
      /\ deviceLog' = Append(deviceLog, event)
  BY DEF IInv, StoredOK, RecordsEvent
<1>2. /\ last = len + 1 /\ len \in Nat
      /\ deviceLog'[last] = event
      /\ \A n \in DOMAIN deviceLog : deviceLog'[n] = deviceLog[n]
      /\ DOMAIN deviceLog' = DOMAIN deviceLog \cup {last}
  BY <1>1, AppendedEvents
<1>3. last # NULL
  BY <1>2, NullAssumption
<1>4. /\ event.device = s.device /\ event.type = EventType(s)
      /\ event.operationId = s.operationId
      /\ s.type = "activate" => event.auth = s.auth
  BY DEF RecordsEvent
<1>5. EventOf(last, s)'
  BY <1>2, <1>4 DEF EventOf, EventsOf, EventType
<1>6. ASSUME NEW r, NEW n, EventOf(n, r) PROVE EventOf(n, r)'
  BY <1>2, <1>6 DEF EventOf, EventsOf
<1>7. ASSUME NEW o
      PROVE  CommitsOf(o)' = CommitsOf(o) \cup IF o = s.operationId THEN {last} ELSE {}
  BY <1>2, <1>4 DEF CommitsOf
<1> QED
  BY <1>2, <1>3, <1>4, <1>5, <1>6, <1>7

LEMMA NextKeepsRequested ==
  ASSUME AnswersInv, Next
  PROVE  EventsWereRequested'
<1>0. IInv
  BY DEF AnswersInv, FullInv
<1>1. ASSUME UNCHANGED deviceLog PROVE EventsWereRequested'
  BY <1>1 DEF AnswersInv, EventsWereRequested, EventOf, EventsOf
<1>2. ASSUME NEW c \in Callers, NEW row \in DeviceRows, NEW event \in DeviceEvents,
             RecordsEvent(c, row, event)
      PROVE  EventsWereRequested'
  <2>1. call[c].req \in Requests /\ IsDeviceRequest(call[c].req)
    BY <1>0, <1>2 DEF RecordsEvent, IInv, CallsOK, LocalsOK
  <2>2. PICK s, last : s = call[c].req /\ last = Len(deviceLog')
    OBVIOUS
  <2>3. /\ DOMAIN deviceLog' = DOMAIN deviceLog \cup {last}
        /\ \A n \in DOMAIN deviceLog : deviceLog'[n] = deviceLog[n]
        /\ deviceLog'[last].operationId = s.operationId
        /\ EventOf(last, s)'
        /\ \A r, n : EventOf(n, r) => EventOf(n, r)'
    BY <1>0, <1>2, <2>2, EventsAreKept
  <2>4. ASSUME NEW n \in DOMAIN deviceLog'
        PROVE  \E r \in Requests :
                 /\ IsDeviceRequest(r) /\ r.operationId = deviceLog'[n].operationId
                 /\ EventOf(n, r)'
    BY <2>1, <2>2, <2>3 DEF AnswersInv, EventsWereRequested
  <2> QED
    BY <2>4 DEF EventsWereRequested
<1> QED
  BY <1>0, <1>1, <1>2, StepShape
  DEF Starts, Prepares, Registers, RevokesIdentity, Drops, Tick, stored

\* A method that was answered is not disturbed by the commit of another: its
\* registration or revocation is for good, and the row that answered it holds
\* no place for a second event of its operation.
LEMMA AnswersOutliveCommits ==
  ASSUME AnswersInv, NEW c \in Callers, NEW x \in Callers, x # c, call'[x] = call[x],
         \/ Registers(c)
         \/ RevokesIdentity(c)
         \/ \E row \in DeviceRows, event \in DeviceEvents : RecordsEvent(c, row, event)
  PROVE  AnswerIsTrue(call[x])'
<1> DEFINE r == call[x].req
           n == call[x].reply.body.event
<1>0. IInv /\ AnswerIsTrue(call[x])
  BY DEF AnswersInv, FullInv
<1> SUFFICES ASSUME call[x].pc = "replied", call[x].reply.code = "OK"
             PROVE  AnswerIsTrue(call[x])'
  BY DEF AnswerIsTrue
<1>1. r \in Requests
  BY <1>0 DEF IInv, CallsOK, LocalsOK
<1>2. CASE Registers(c) \/ RevokesIdentity(c)
  <2>1. UNCHANGED deviceLog
    BY <1>2 DEF Registers, RevokesIdentity
  <2>2. IsDeviceRequest(r) => (EventOf(n, r) /\ CommitsOf(r.operationId) \subseteq {n})'
    BY <1>0, <2>1 DEF AnswerIsTrue, EventOf, EventsOf, CommitsOf
  <2>3. r.type = "register" => identity'.state # "none" /\ identity'.genesis = r.genesis
    BY <1>0, <1>2 DEF AnswerIsTrue, Registers, RevokesIdentity
  <2>4. ~IsIdentityRevocation(r)
    BY <1>0, <1>2 DEF AnswerIsTrue, Registers, RevokesIdentity
  <2> QED
    BY <2>2, <2>3, <2>4 DEF AnswerIsTrue
<1>3. ASSUME NEW row \in DeviceRows, NEW event \in DeviceEvents, RecordsEvent(c, row, event)
      PROVE  AnswerIsTrue(call[x])'
  <2>0. PICK t, last : t = call[c].req /\ last = Len(deviceLog')
    OBVIOUS
  <2>1. /\ UNCHANGED identity
        /\ IdentityReply(identity)' = IdentityReply(identity)
    BY <1>3 DEF RecordsEvent, IdentityReply
  <2>2. ASSUME IsDeviceRequest(r)
        PROVE  (EventOf(n, r) /\ CommitsOf(r.operationId) \subseteq {n})'
    <3> DEFINE s == call[c].req
    <3>1. EventOf(n, r) /\ CommitsOf(r.operationId) \subseteq {n}
      BY <1>0, <2>2 DEF AnswerIsTrue
    <3>2. /\ s \in Requests /\ IsDeviceRequest(s) /\ s.device \in Devices
          /\ Claim(call[c])
      BY <1>0, <1>3, DeviceCall
      DEF RecordsEvent, DeviceRequests, AnswersInv, FullInv, ClaimsOK, DeviceCommitting
    <3>3. /\ device[s.device].state # "revoked" => EventsOf(s.device, "revoked") = {}
          /\ device[s.device].state = "absent" => EventsOf(s.device, "activated") = {}
      BY <1>0, <3>2, EventsOfRow DEF IInv
    <3>4. EventsOf(s.device, EventType(s)) = {}
      BY <3>2, <3>3 DEF Claim, EventType
    <3>5. s.operationId # r.operationId
      <4> SUFFICES ASSUME s.operationId = r.operationId PROVE FALSE
        OBVIOUS
      <4>1. s.type = r.type /\ s.device = r.device
        BY <1>1, <2>2, <3>2, RequestFields, RequestsAssumption
      <4> QED
        BY <3>1, <3>4, <4>1 DEF EventOf, EventType
    <3>6. PICK q, m : q = r /\ m = n
      OBVIOUS
    <3>7. EventOf(m, q)'
      BY <1>0, <1>3, <2>0, <3>1, <3>6, EventsAreKept
    <3>8. CommitsOf(q.operationId)' = CommitsOf(q.operationId)
      <4>1. \A o : CommitsOf(o)' = CommitsOf(o) \cup IF o = t.operationId THEN {last} ELSE {}
        BY <1>0, <1>3, <2>0, EventsAreKept
      <4>2. q.operationId # t.operationId
        BY <2>0, <3>5, <3>6
      <4> QED
        BY <4>1, <4>2
    <3> QED
      BY <3>1, <3>6, <3>7, <3>8 DEF EventOf, EventsOf, CommitsOf
  <2> QED
    BY <1>0, <2>1, <2>2 DEF AnswerIsTrue
<1> QED
  BY <1>2, <1>3

LEMMA NextKeepsAnswers ==
  ASSUME AnswersInv, Next, NEW x \in Callers
  PROVE  AnswerIsTrue(call[x])'
<1>0. IInv /\ AnswerIsTrue(call[x])
  BY DEF AnswersInv, FullInv
<1>1. CASE Drops \/ Tick
  BY <1>0, <1>1, AnswerUndisturbed DEF Drops, Tick
<1>2. ASSUME NEW c \in Callers, NEW r \in Requests, Arrive(c, r)
      PROVE  AnswerIsTrue(call[x])'
  <2>1. Others(c) /\ UNCHANGED stored
    BY <1>0, <1>2, ArriveShape DEF Starts, Returns
  <2> QED
    BY <1>0, <1>2, <2>1, ArriveAnswers, AnswerUndisturbed DEF Others
<1>3. ASSUME NEW c \in Callers, Proceed(c)
      PROVE  AnswerIsTrue(call[x])'
  <2>1. CASE x = c /\ UNCHANGED stored
    BY <1>3, <2>1, LifecycleAnswers, DeviceAnswers DEF Proceed
  <2>3. ASSUME x = c, NEW row \in DeviceRows, NEW event \in DeviceEvents,
               RecordsEvent(c, row, event)
        PROVE  AnswerIsTrue(call[x])'
    <3>1. PICK k, s, last : k = call'[c] /\ s = call[c].req /\ last = Len(deviceLog')
      OBVIOUS
    <3>2. /\ k.req = s /\ IsDeviceRequest(s)
          /\ k.reply = DeviceReceipt(row, deviceLog', last)
      BY <2>3, <3>1 DEF RecordsEvent
    <3>3. CommitsOf(s.operationId) = {}
      BY <2>3, <3>1 DEF RecordsEvent, AnswersInv, FullInv, ClaimsOK, Claim, DeviceCommitting
    <3>4. (EventOf(last, s) /\ CommitsOf(s.operationId) \subseteq {last})'
      BY <1>0, <2>3, <3>1, <3>3, EventsAreKept
    <3>5. k.reply.code = "OK" => k.reply.body.event = last
      BY <3>2, ReceiptNamesEvent
    <3>6. ~IsIdentityRevocation(s) /\ s.type # "register"
      BY <3>2 DEF IsDeviceRequest, IsIdentityRevocation
    <3>7. AnswerIsTrue(k)'
      BY <3>2, <3>4, <3>5, <3>6 DEF AnswerIsTrue
    <3> QED
      BY <2>3, <3>1, <3>7 DEF AnswerIsTrue
  <2>4. CASE x # c /\ Others(c) /\ UNCHANGED stored
    BY <1>0, <2>4, AnswerUndisturbed DEF Others
  <2>5. CASE x # c /\ (\/ Registers(c) \/ RevokesIdentity(c)
                       \/ \E row \in DeviceRows, event \in DeviceEvents :
                            RecordsEvent(c, row, event))
    BY <2>5, AnswersOutliveCommits
    DEF Registers, RevokesIdentity, RecordsEvent, Returns, Others
  <2>6. ASSUME x = c, Registers(c) \/ RevokesIdentity(c)
        PROVE  AnswerIsTrue(call[x])'
    <3>1. identity' # identity
      BY <2>6 DEF Registers, RevokesIdentity
    <3>2. \/ CheckRegistration(c) \/ CommitRegistration(c)
          \/ VerifyRevocation(c) \/ CommitRevocation(c)
      BY <1>3, <3>1
      DEF Proceed, DecideActivation, CommitActivation, DecideDeviceRevocation,
          CommitDeviceRevocation, RecordDeviceEvent, stored
    <3> QED
      BY <2>6, <3>2, LifecycleAnswers
  <2> QED
    BY <1>0, <1>3, <2>1, <2>3, <2>4, <2>5, <2>6, ProceedShape DEF Prepares, Returns
<1>4. Restart => Drops
  BY DEF Restart, Drops, IdleCall
<1> QED
  BY <1>1, <1>2, <1>3, <1>4 DEF Next

\* What callers are told agrees with the rows and the log, always.
THEOREM AnswersInvHolds == Spec => []AnswersInv
<1>1. Init => AnswersInv
  <2> SUFFICES ASSUME Init PROVE AnswersInv
    OBVIOUS
  <2>1. FullInv
    BY InitFullInv
  <2>2. EventsWereRequested /\ \A c \in Callers : AnswerIsTrue(call[c])
    BY DEF Init, EventsWereRequested, AnswerIsTrue, IdleCall
  <2> QED
    BY <2>1, <2>2 DEF AnswersInv
<1>2. AnswersInv /\ FullInv' /\ [Next]_vars => AnswersInv'
  <2>1. CASE AnswersInv /\ FullInv' /\ Next
    BY <2>1, NextKeepsRequested, NextKeepsAnswers DEF AnswersInv
  <2>2. CASE AnswersInv /\ FullInv' /\ UNCHANGED vars
    <3>1. EventsWereRequested'
      BY <2>2 DEF AnswersInv, EventsWereRequested, EventOf, EventsOf, vars
    <3>2. \A c \in Callers : AnswerIsTrue(call[c])'
      BY <2>2, AnswerUndisturbed DEF AnswersInv, vars, stored
    <3> QED
      BY <2>2, <3>1, <3>2 DEF AnswersInv
  <2> QED
    BY <2>1, <2>2
<1> QED
  BY <1>1, <1>2, Invariance, PTL DEF Spec

\* What the registry told a caller stays true: an acknowledged registration is
\* the caller's own, an acknowledged revocation the one terminal event, and an
\* acknowledged device mutation names an event of its device and kind, and its
\* own event if its operation has one, however often it was sent.
THEOREM AnswerCorrectness == Spec => []AnswersAreTrue
<1>1. AnswersInv => AnswersAreTrue
  <2> SUFFICES ASSUME AnswersInv PROVE LifecycleReceiptsAreTrue /\ ReceiptsAreTrue
    BY DEF AnswersAreTrue
  <2>1. LifecycleReceiptsAreTrue
    BY DEF AnswersInv, AnswerIsTrue, LifecycleReceiptsAreTrue, IsIdentityRevocation
  <2>2. ReceiptsAreTrue
    BY DEF AnswersInv, AnswerIsTrue, ReceiptsAreTrue, EventOf, EventType
  <2> QED
    BY <2>1, <2>2
<1> QED
  BY <1>1, AnswersInvHolds, PTL

-----------------------------------------------------------------------------
(* What the projector relies on *)

\* An activation was asked for by a request that names its authorization; the
\* log has the events its rows name and no other of the same kind.
LEMMA LedgerIsDelivered ==
  ASSUME AnswersInv
  PROVE  IsLedger(Delivered(deviceLog), Devices, Auths, NULL)
<1> DEFINE Log == Delivered(deviceLog)
<1>1. DOMAIN Log = DOMAIN deviceLog
  BY DEF Delivered
<1>2. \A n \in DOMAIN deviceLog :
        /\ deviceLog[n] \in DeviceEvents
        /\ Log[n] = [type |-> deviceLog[n].type, device |-> deviceLog[n].device,
                     auth |-> deviceLog[n].auth]
  BY DEF AnswersInv, FullInv, IInv, StoredOK, Delivered
<1>3. Log \in Seq([type : {"activated", "revoked"}, device : Devices, auth : Auths \cup {NULL}])
  <2> DEFINE Events == [type : {"activated", "revoked"}, device : Devices, auth : Auths \cup {NULL}]
  <2>1. ASSUME NEW n \in DOMAIN deviceLog PROVE Log[n] \in Events
    <3>1. /\ deviceLog[n].type \in {"activated", "revoked"}
          /\ deviceLog[n].device \in Devices /\ deviceLog[n].auth \in Auths \cup {NULL}
      BY <1>2 DEF DeviceEvents
    <3>2. Log[n] = [type |-> deviceLog[n].type, device |-> deviceLog[n].device,
                    auth |-> deviceLog[n].auth]
      BY <1>2
    <3> HIDE DEF Log
    <3> QED
      BY <3>1, <3>2
  <2>2. DOMAIN deviceLog = 1..Len(deviceLog) /\ Len(deviceLog) \in Nat
    BY DEF AnswersInv, FullInv, IInv, StoredOK
  <2>3. Log = [n \in 1..Len(deviceLog) |-> Log[n]]
    BY <2>2 DEF Delivered
  <2> HIDE DEF Events, Log
  <2> QED
    BY <2>1, <2>2, <2>3 DEF Events
<1>4. ASSUME NEW n \in DOMAIN deviceLog, deviceLog[n].type = "activated"
      PROVE  deviceLog[n].auth # NULL
  <2>1. PICK r \in Requests :
          IsDeviceRequest(r) /\ EventOf(n, r)
    BY DEF AnswersInv, EventsWereRequested
  <2>2. r.type = "activate" /\ deviceLog[n].auth = r.auth
    BY <1>4, <2>1 DEF EventOf, EventsOf, EventType
  <2>3. r \in DeviceRequests
    BY <2>1, RequestFields
  <2> QED
    BY <2>2, <2>3, RequestsAssumption
<1>5. ASSUME NEW m \in DOMAIN deviceLog, NEW n \in DOMAIN deviceLog, m < n,
             deviceLog[m].device = deviceLog[n].device
      PROVE  deviceLog[m].type = "activated" /\ deviceLog[n].type = "revoked"
  <2> DEFINE d == deviceLog[m].device
             row == device[d]
  <2>1. d \in Devices /\ deviceLog[m].type \in {"activated", "revoked"}
                     /\ deviceLog[n].type \in {"activated", "revoked"}
    BY <1>2 DEF DeviceEvents
  <2>2. /\ EventsOf(d, "activated") = {row.activation} \ {NULL}
        /\ EventsOf(d, "revoked") = {row.revocation} \ {NULL}
        /\ row.activation # NULL /\ row.revocation # NULL => row.activation < row.revocation
    BY <2>1 DEF AnswersInv, FullInv, IInv, StoredOK, RowsMatchLog
  <2>3. /\ m \in EventsOf(d, deviceLog[m].type) /\ n \in EventsOf(d, deviceLog[n].type)
        /\ m \in Nat /\ n \in Nat
    BY <1>5 DEF EventsOf, AnswersInv, FullInv, IInv, StoredOK
  <2> HIDE DEF d, row
  <2> QED
    BY <1>5, <2>1, <2>2, <2>3
<1> QED
  BY <1>1, <1>2, <1>3, <1>4, <1>5 DEF IsLedger

\* The rows say of every device what the delivered ledger says of it.
LEMMA RowsShowLedger ==
  ASSUME FullInv, NEW d \in Devices
  PROVE  device[d].state = LET state == StateAfter(Delivered(deviceLog), d) IN
                           IF state = "none" THEN "absent" ELSE state
<1> DEFINE row == device[d]
<1>1. /\ EventsOf(d, "activated") = {row.activation} \ {NULL}
      /\ EventsOf(d, "revoked") = {row.revocation} \ {NULL}
      /\ row.state = IF row.revocation # NULL THEN "revoked"
                     ELSE IF row.activation # NULL THEN "active" ELSE "absent"
  BY DEF FullInv, IInv, StoredOK, RowsMatchLog
<1>2. \A n \in DOMAIN deviceLog :
        /\ deviceLog[n].type \in {"activated", "revoked"}
        /\ Delivered(deviceLog)[n].device = deviceLog[n].device
        /\ Delivered(deviceLog)[n].type = deviceLog[n].type
  <2> SUFFICES ASSUME NEW n \in DOMAIN deviceLog
               PROVE  /\ deviceLog[n].type \in {"activated", "revoked"}
                      /\ Delivered(deviceLog)[n].device = deviceLog[n].device
                      /\ Delivered(deviceLog)[n].type = deviceLog[n].type
    OBVIOUS
  <2>1. deviceLog[n] \in DeviceEvents
    BY DEF FullInv, IInv, StoredOK
  <2>2. Delivered(deviceLog)[n] = [type |-> deviceLog[n].type, device |-> deviceLog[n].device,
                                   auth |-> deviceLog[n].auth]
    BY DEF Delivered
  <2> QED
    BY <2>1, <2>2 DEF DeviceEvents
<1>3. DOMAIN Delivered(deviceLog) = DOMAIN deviceLog
  BY DEF Delivered
<1>4. StateAfter(Delivered(deviceLog), d) =
        IF EventsOf(d, "revoked") # {} THEN "revoked"
        ELSE IF EventsOf(d, "activated") # {} THEN "active" ELSE "none"
  BY <1>2, <1>3 DEF StateAfter, EventsOf
<1> HIDE DEF row
<1>5. row.state = LET state == StateAfter(Delivered(deviceLog), d) IN
                  IF state = "none" THEN "absent" ELSE state
  BY <1>1, <1>4
<1> QED
  BY <1>5 DEF row

\* The device ledger a registry delivers is always one that the projector
\* accepts, and says of each device what the registry's own row says: the
\* assumption of the projector's theorems is a theorem about the registry.
THEOREM RegistryDeliversLedgers ==
  Spec => [](/\ IsLedger(Delivered(deviceLog), Devices, Auths, NULL)
             /\ \A d \in Devices :
                  LET state == StateAfter(Delivered(deviceLog), d) IN
                  device[d].state = IF state = "none" THEN "absent" ELSE state)
<1>1. AnswersInv =>
        /\ IsLedger(Delivered(deviceLog), Devices, Auths, NULL)
        /\ \A d \in Devices :
             LET state == StateAfter(Delivered(deviceLog), d) IN
             device[d].state = IF state = "none" THEN "absent" ELSE state
  BY LedgerIsDelivered, RowsShowLedger DEF AnswersInv
<1> QED
  BY <1>1, AnswersInvHolds, PTL

-----------------------------------------------------------------------------
(* What a relying party is told *)

\* A row that names an authorization ends with it.
WindowsKept ==
  \A d \in Devices :
    /\ device[d].auth # NULL => device[d].expires = ExpiresAt[device[d].auth]
    /\ device[d].state = "active" => device[d].auth # NULL

\* Every step leaves the rows alone, revokes the identity, or moves the row of
\* one device.
LEMMA RowsStep ==
  ASSUME IInv, Next
  PROVE  \/ UNCHANGED <<identity, device>>
         \/ identity'.state # "none" /\ identity.state # "revoked" /\ UNCHANGED <<device, now>>
         \/ \E row \in DeviceRows, event \in DeviceEvents :
              /\ device' = [device EXCEPT ![event.device] = row]
              /\ Activates(event, device[event.device], row)
                   \/ Revokes(event, device[event.device], row)
              /\ UNCHANGED <<identity, now>>
<1> DEFINE Quiet == UNCHANGED <<identity, device>>
           Ends == /\ identity'.state # "none" /\ identity.state # "revoked"
                   /\ UNCHANGED <<device, now>>
<1>1. ASSUME NEW c \in Callers, Starts(c) \/ Prepares(c) \/ (Returns(c) /\ UNCHANGED stored)
      PROVE  Quiet
  BY <1>1 DEF Starts, Prepares, stored
<1>2. ASSUME NEW c \in Callers, Registers(c) \/ RevokesIdentity(c)
      PROVE  Ends
  BY <1>2 DEF Registers, RevokesIdentity, Returns
<1>3. ASSUME NEW c \in Callers, NEW row \in DeviceRows, NEW event \in DeviceEvents,
             RecordsEvent(c, row, event)
      PROVE  /\ device' = [device EXCEPT ![event.device] = row]
             /\ Activates(event, device[event.device], row)
                  \/ Revokes(event, device[event.device], row)
             /\ UNCHANGED <<identity, now>>
  BY <1>3 DEF RecordsEvent, Returns
<1>4. Drops \/ Tick => Quiet
  BY DEF Drops, Tick, stored
<1> HIDE DEF Quiet, Ends
<1>5. \/ Quiet \/ Ends
      \/ \E row \in DeviceRows, event \in DeviceEvents :
           /\ device' = [device EXCEPT ![event.device] = row]
           /\ Activates(event, device[event.device], row)
                \/ Revokes(event, device[event.device], row)
           /\ UNCHANGED <<identity, now>>
  BY <1>1, <1>2, <1>3, <1>4, StepShape
<1> QED
  BY <1>5 DEF Quiet, Ends

LEMMA NextKeepsWindows ==
  ASSUME IInv, WindowsKept, Next
  PROVE  WindowsKept'
<1>1. CASE UNCHANGED device
  BY <1>1 DEF WindowsKept
<1>2. ASSUME NEW row \in DeviceRows, NEW event \in DeviceEvents,
             device' = [device EXCEPT ![event.device] = row],
             Activates(event, device[event.device], row)
               \/ Revokes(event, device[event.device], row)
      PROVE  WindowsKept'
  <2>1. device \in [Devices -> DeviceRows] /\ event.device \in Devices
    BY DEF IInv, StoredOK, DeviceEvents
  <2>2. /\ row.auth # NULL => row.expires = ExpiresAt[row.auth]
        /\ row.state = "active" => row.auth # NULL
    BY <1>2, <2>1, NullAssumption DEF Activates, Revokes, WindowsKept
  <2>3. \A d \in Devices : device'[d] = IF d = event.device THEN row ELSE device[d]
    BY <1>2, <2>1
  <2> QED
    BY <2>2, <2>3 DEF WindowsKept
<1> QED
  BY <1>1, <1>2, RowsStep

\* Time stands still or passes by one.
LEMMA TimeStep ==
  ASSUME IInv, Next
  PROVE  now' = now \/ now' = now + 1
<1>1. ASSUME NEW c \in Callers, Starts(c) \/ Prepares(c) \/ Returns(c) PROVE now' = now
  BY <1>1 DEF Starts, Prepares, Returns
<1>2. ASSUME NEW c \in Callers, Registers(c) \/ RevokesIdentity(c) PROVE now' = now
  BY <1>1, <1>2 DEF Registers, RevokesIdentity
<1>3. ASSUME NEW c \in Callers, NEW row \in DeviceRows, NEW event \in DeviceEvents,
             RecordsEvent(c, row, event)
      PROVE  now' = now
  BY <1>1, <1>3 DEF RecordsEvent
<1>4. Drops => now' = now
  BY DEF Drops
<1>5. Tick => now' = now + 1
  BY DEF Tick
<1> QED
  BY <1>1, <1>2, <1>3, <1>4, <1>5, StepShape

\* The effective state of one pair of a device and an authorization.
LEMMA EffectiveStateStep ==
  ASSUME FullInv, WindowsKept, Next, NEW d \in Devices, NEW a \in Auths
  PROVE  EffectiveState(d, a)' \in
           CASE EffectiveState(d, a) = "unknown" -> {"unknown", "active", "expired", "revoked"}
             [] EffectiveState(d, a) = "active"  -> {"active", "expired", "revoked"}
             [] EffectiveState(d, a) = "expired" -> {"expired", "revoked"}
             [] EffectiveState(d, a) = "revoked" -> {"revoked"}
<1> DEFINE e == EffectiveState(d, a)
           States == {"unknown", "active", "expired", "revoked"}
<1>0. /\ IInv /\ now \in Nat
      /\ device \in [Devices -> DeviceRows]
  BY BoundsAssumption DEF FullInv, IInv, ClockOK, StoredOK
<1>1. e \in States /\ e' \in States
  BY DEF EffectiveState
<1>2. CASE UNCHANGED <<identity, device>>
  <2>1. now' = now \/ now' = now + 1
    BY <1>0, TimeStep
  <2>2. e \in {"active", "expired"} => device[d].expires \in Nat
    BY <1>0, WindowsAssumption DEF WindowsKept, EffectiveState, DeviceRows
  <2> QED
    BY <1>0, <1>1, <1>2, <2>1, <2>2 DEF EffectiveState
<1>3. CASE /\ identity'.state # "none" /\ identity.state # "revoked"
           /\ UNCHANGED <<device, now>>
  <2> QED
    BY <1>1, <1>3 DEF EffectiveState
<1>4. ASSUME NEW row \in DeviceRows, NEW event \in DeviceEvents,
             device' = [device EXCEPT ![event.device] = row],
             Activates(event, device[event.device], row)
               \/ Revokes(event, device[event.device], row),
             UNCHANGED <<identity, now>>
      PROVE  e' = e \/ e = "unknown" \/ e' = "revoked"
  <2>1. device'[d] = IF d = event.device THEN row ELSE device[d]
    BY <1>0, <1>4 DEF DeviceEvents
  <2> QED
    BY <1>4, <2>1 DEF EffectiveState, Activates, Revokes
<1> QED
  BY <1>0, <1>1, <1>2, <1>3, <1>4, RowsStep

\* The state a relying party is told for one authorization only moves forward:
\* nothing revives what was revoked, renews what expired or forgets what was
\* active, neither a commit nor the clock.
THEOREM EffectiveStateCorrectness == Spec => EffectiveStateMovesForward
<1>1. Init => WindowsKept
  BY DEF Init, WindowsKept, NoDevice
<1>2. FullInv /\ WindowsKept /\ [Next]_vars => WindowsKept'
  <2>1. FullInv /\ WindowsKept /\ Next => WindowsKept'
    BY NextKeepsWindows DEF FullInv
  <2>2. WindowsKept /\ UNCHANGED vars => WindowsKept'
    BY DEF WindowsKept, vars
  <2> QED
    BY <2>1, <2>2
<1>3. FullInv /\ WindowsKept /\ [Next]_vars =>
        [\A d \in Devices, a \in Auths :
           EffectiveState(d, a)' \in
             CASE EffectiveState(d, a) = "unknown" -> {"unknown", "active", "expired", "revoked"}
               [] EffectiveState(d, a) = "active"  -> {"active", "expired", "revoked"}
               [] EffectiveState(d, a) = "expired" -> {"expired", "revoked"}
               [] EffectiveState(d, a) = "revoked" -> {"revoked"}]_vars
  BY EffectiveStateStep
<1> QED
  BY <1>1, <1>2, <1>3, Invariance, PTL DEF Spec, EffectiveStateMovesForward
=============================================================================
