------------------------------ MODULE EdgeApi ------------------------------
(***************************************************************************)
(* The public edge in front of the registry (workers/edge-api/src/index.ts *)
(* with the service entry point workers/registry/src/index.ts): a client's *)
(* HTTP exchange is turned into one call of the registry; the answer is    *)
(* validated again, and what the edge signs is a receipt of the event or a *)
(* status statement with the edge's own clock in it.                       *)
(*                                                                         *)
(* Between the registry's answer and the edge's response anything may      *)
(* happen: other exchanges, the passing of time, the loss of the answer.   *)
(* The client may then send the same signed request again.                 *)
(***************************************************************************)
EXTENDS IdentityState

CONSTANT StatusTtl    \* STATUS_TTL_SECONDS

ASSUME TtlAssumption == StatusTtl \in Nat \ {0}

VARIABLES
  open,       \* the exchanges the edge is serving
  response    \* the last response each client got

edgeVars == <<vars, open, response>>

-----------------------------------------------------------------------------
(* Responses *)

NoResponse == [code |-> "NONE", req |-> NULL, event |-> NULL, state |-> NULL,
               iat |-> NULL, exp |-> NULL]

Refused(code) == [NoResponse EXCEPT !.code = code]

\* A receipt names the event; a status statement is valid from iat to exp.
Receipt(r, event) == [NoResponse EXCEPT !.code = "OK", !.req = r, !.event = event]

Statement(r, event, state, exp) ==
  [code |-> "OK", req |-> r, event |-> event, state |-> state, iat |-> now, exp |-> exp]

-----------------------------------------------------------------------------
(* What the edge demands of an answer before it signs anything *)

Precedes(early, late) == early # NULL /\ late # NULL /\ early < late

\* The row and the event it names tell the same story.
ValidStatus(body) ==
  LET event == actions[body.event] IN
  /\ body.state = "active" => body.sequence = 0 /\ body.revokedAt = NULL
  /\ body.state = "revoked" => body.sequence = 1 /\ body.revokedAt # NULL
  /\ ~Precedes(body.revokedAt, body.registeredAt)
  /\ event.type = "registered" =>
       /\ body.state = "active" /\ body.sequence = 0
       /\ event.acceptedAt = body.registeredAt
  /\ event.type = "revoked" =>
       /\ body.state = "revoked" /\ body.sequence = 1
       /\ event.acceptedAt = body.revokedAt

ValidDeviceStatus(s) ==
  /\ s.identityState = "active" <=> s.identitySequence = 0
  /\ s.deviceState \in {"active", "expired"} =>
       /\ s.identityState = "active"
       /\ s.activatedAt # NULL /\ s.revokedAt = NULL /\ s.expires # NULL
  /\ s.deviceState = "revoked" => s.revokedAt # NULL
  /\ s.deviceState = "unknown" =>
       s.activatedAt = NULL /\ s.revokedAt = NULL /\ s.expires = NULL
  /\ ~Precedes(s.revokedAt, s.activatedAt)
  /\ ~Precedes(s.expires, s.activatedAt)

\* (mutant) The receipt is not compared with the authorization asked about.
ValidDeviceMutationOfDevice(r, body) ==
  LET event == deviceLog[body.event] IN
  /\ event.device = r.device
  /\ event.type = "activated" =>
       event.auth # NULL /\ event.expires # NULL /\ event.revokedBy = NULL
  /\ event.type = "revoked" =>
       /\ event.revokedBy # NULL
       /\ ~Precedes(event.acceptedAt, body.activatedAt)

\* The event must be about the device, and for every route but revoke-root
\* about the authorization, that the request named.
ValidDeviceMutation(r, body) ==
  LET event == deviceLog[body.event] IN
  /\ event.device = r.device
  /\ r.auth # NULL => event.auth = r.auth
  /\ event.type = "activated" =>
       event.auth # NULL /\ event.expires # NULL /\ event.revokedBy = NULL
  /\ event.type = "revoked" =>
       /\ event.revokedBy # NULL
       /\ ~Precedes(event.acceptedAt, body.activatedAt)

SignedStatus(r, body) ==
  IF ValidStatus(body)
    THEN Statement(r, body.event, body.state, now + StatusTtl)
    ELSE Refused("INTERNAL_ERROR")

\* (mutant) The statement says what the registry said, for a whole lifetime.
SignedDeviceStatusUnclipped(r, s) ==
  IF ValidDeviceStatus(s)
    THEN Statement(r, NULL, s.deviceState, now + StatusTtl)
    ELSE Refused("INTERNAL_ERROR")

\* (mutant) Whatever the registry said, a passed expiry decides.
SignedDeviceStatusExpiryFirst(r, s) ==
  IF ~ValidDeviceStatus(s) THEN Refused("INTERNAL_ERROR")
  ELSE IF s.expires # NULL /\ now >= s.expires
         THEN Statement(r, NULL, "expired", now + StatusTtl)
  ELSE Statement(r, NULL, s.deviceState, now + StatusTtl)

\* The authorization may have expired since the registry looked: the edge looks
\* again, and an active statement never outlives the authorization.
SignedDeviceStatus(r, s) ==
  IF ~ValidDeviceStatus(s) THEN Refused("INTERNAL_ERROR")
  ELSE IF s.deviceState # "active" THEN Statement(r, NULL, s.deviceState, now + StatusTtl)
  ELSE IF now >= s.expires THEN Statement(r, NULL, "expired", now + StatusTtl)
  ELSE Statement(r, NULL, "active",
                 IF now + StatusTtl < s.expires THEN now + StatusTtl ELSE s.expires)

SignedDeviceMutation(r, body) ==
  IF ValidDeviceMutation(r, body) THEN Receipt(r, body.event)
                                  ELSE Refused("INTERNAL_ERROR")

Signed(r, reply) ==
  IF reply.code # "OK" THEN Refused(reply.code)
  ELSE CASE r.type = "deviceStatus" -> SignedDeviceStatus(r, reply.body)
         [] IsDeviceRequest(r)      -> SignedDeviceMutation(r, reply.body)
         [] OTHER                   -> SignedStatus(r, reply.body)

-----------------------------------------------------------------------------
(* The exchanges *)

Close(c, answer) ==
  /\ c \in open
  /\ open' = open \ {c}
  /\ response' = [response EXCEPT ![c] = answer]

\* The request passes the edge's own checks and reaches the registry.
Forward(c, r) ==
  /\ c \notin open
  /\ Arrive(c, r)
  /\ open' = open \cup {c}
  /\ UNCHANGED response

\* The rate limiter, or its failure, turns the request away.
TurnAway(c) ==
  /\ c \notin open
  /\ \E code \in {"RATE_LIMITED", "SERVICE_UNAVAILABLE"} :
       response' = [response EXCEPT ![c] = Refused(code)]
  /\ kicked' = FALSE
  /\ UNCHANGED <<stored, call, gate, now, open>>

Respond(c) ==
  /\ call[c].pc = "replied"
  /\ Close(c, Signed(call[c].req, call[c].reply))
  /\ kicked' = FALSE
  /\ UNCHANGED <<stored, call, gate, now>>

\* The binding fails although the registry may have committed the request.
LoseReply(c) ==
  /\ call[c].pc = "replied"
  /\ Close(c, Refused("SERVICE_UNAVAILABLE"))
  /\ kicked' = FALSE
  /\ UNCHANGED <<stored, call, gate, now>>

\* The object restarts: RegistryService reports each call it lost as a failure.
EdgeRestart ==
  /\ Restart
  /\ LET lost == {c \in open : call[c].pc # "replied"} IN
     /\ open' = open \ lost
     /\ response' = [c \in Callers |-> IF c \in lost
                                         THEN Refused("INTERNAL_ERROR")
                                         ELSE response[c]]

EdgeInit ==
  /\ Init
  /\ open = {}
  /\ response = [c \in Callers |-> NoResponse]

EdgeNext ==
  \/ \E c \in Callers, r \in Requests : Forward(c, r)
  \/ \E c \in Callers : TurnAway(c) \/ Respond(c) \/ LoseReply(c)
  \/ \E c \in Callers : Proceed(c) /\ UNCHANGED <<open, response>>
  \/ EdgeRestart
  \/ Tick /\ UNCHANGED <<open, response>>

EdgeSpec == EdgeInit /\ [][EdgeNext]_edgeVars

-----------------------------------------------------------------------------
(* Correctness *)

DeviceMutationTypes == {"activate", "revokeSelf", "revokeRoot"}

\* The registry answered with the event of an earlier revocation that does not
\* carry the authorization this request names.
ConvergedElsewhere(c) ==
  /\ call[c].req.type = "revokeSelf"
  /\ deviceLog[call[c].reply.body.event].auth # call[c].req.auth

\* A device activated after the identity's revocation was stamped.
ActivatedAfterStamp(c) ==
  /\ call[c].req.type = "deviceStatus"
  /\ Precedes(call[c].reply.body.revokedAt, call[c].reply.body.activatedAt)

\* The exchange is closed on an answer the registry gave.
Answered(c) == c \notin open /\ call[c].pc = "replied" /\ call[c].reply.code = "OK"

\* The edge's second validation refuses no answer of the registry, two cases
\* apart: an answer of the authority that is not served is a client that
\* believes its operation failed.
EdgeServesAuthority ==
  \A c \in Callers :
    Answered(c) /\ response[c].code = "INTERNAL_ERROR" =>
      ConvergedElsewhere(c) \/ ActivatedAfterStamp(c)

\* A self-revocation that the registry accepts is acknowledged to the client,
\* also when the root's revocation came first.
EdgeServesSelfRevocation ==
  \A c \in Callers :
    Answered(c) /\ call[c].req.type = "revokeSelf" => response[c].code # "INTERNAL_ERROR"

\* After the identity is revoked the status of every device is served as revoked.
EdgeServesDeviceStatus ==
  \A c \in Callers :
    Answered(c) /\ call[c].req.type = "deviceStatus" => response[c].code # "INTERNAL_ERROR"

\* A receipt is about what its client asked for: the device, and except for a
\* root revocation the very authorization.  Whoever sends the same operation
\* again, whatever answers were lost, gets a receipt of the same event.
ReceiptsAnswerTheRequest ==
  \A c \in Callers :
    LET r == response[c].req
        event == deviceLog[response[c].event] IN
    response[c].code = "OK" /\ r.type \in DeviceMutationTypes =>
      /\ event.device = r.device
      /\ r.auth # NULL => event.auth = r.auth
      /\ \A b \in Callers :
           response[b].code = "OK" /\ response[b].req = r =>
             response[b].event = response[c].event

\* An active statement was signed while the authorization it names was in
\* force, and its lifetime ends with the authorization at the latest, however
\* long the answer travelled from the registry.
ActiveStatementsEndWithTheAuthorization ==
  \A c \in Callers :
    response[c].code = "OK" /\ response[c].req.type = "deviceStatus"
      /\ response[c].state = "active" =>
        /\ response[c].iat < response[c].exp
        /\ response[c].exp <= ExpiresAt[response[c].req.auth]

\* A client that asks again about the same pair never sees it come back: not
\* from revoked, not from expired to active, and once active no more unknown.
StatementsMoveForward ==
  [][\A c \in Callers :
       LET old == response[c]
           new == response'[c] IN
       /\ old.code = "OK" /\ new.code = "OK"
       /\ old.req = new.req /\ old.req.type = "deviceStatus"
       => <<old.state, new.state>> \notin
            ({"revoked"} \X {"unknown", "active", "expired"}) \cup
            ({"expired"} \X {"unknown", "active"}) \cup {<<"active", "unknown">>}]_edgeVars
=============================================================================
