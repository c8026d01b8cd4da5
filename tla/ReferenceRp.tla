---------------------------- MODULE ReferenceRp ----------------------------
(***************************************************************************)
(* The reference relying party (ReferenceRpState, one Durable Object):     *)
(* challenges, sessions, receipts and the Notes content, all in one        *)
(* database.                                                               *)
(*                                                                         *)
(* A handler runs alone between two awaits. It awaits hashes, the request  *)
(* body and the authoritative registry, and in between the handlers of     *)
(* other clients run, time passes and signers are revoked. Only the last   *)
(* part of a handler, a transaction, changes the database.                 *)
(*                                                                         *)
(* The read-only routes change nothing and are left out. No property tells *)
(* the error codes apart; they are written for the reader.                 *)
(***************************************************************************)
EXTENDS Verifier, FiniteSets, Functions

CONSTANTS
  NULL,
  Clients,          \* browsers; each has one request in flight at a time
  Signers,          \* what can sign a proof: identity roots and devices
  Subject,          \* the identity of each signer
  Devices,          \* the signers that are devices (proof protocol v2)
  GrantExpiresAt,   \* the expiry of the grant of every device
  Requests,         \* the session operations clients send
  ChallengeTtl,     \* CHALLENGE_TTL_SECONDS
  SessionTtl,       \* SESSION_TTL_SECONDS
  Skew,             \* MAX_CLOCK_SKEW_SECONDS
  MaxOutstanding,   \* MAX_OUTSTANDING_CHALLENGES
  MaxTotal,         \* MAX_TOTAL_CHALLENGES
  MaxTime,          \* bound on the clock
  MaxIssued,        \* bound on the challenges ever issued
  MaxReceipts       \* bound on the receipts ever written

ASSUME RpAssumption ==
  /\ Subject \in [Signers -> {Subject[s] : s \in Signers}]
  /\ Devices \subseteq Signers
  /\ {ChallengeTtl, SessionTtl, MaxOutstanding, MaxTotal} \subseteq Nat \ {0}
  /\ {GrantExpiresAt, Skew, MaxTime, MaxIssued, MaxReceipts} \subseteq Nat
  /\ NULL \notin Nat

Subjects == {Subject[s] : s \in Signers}

VARIABLES
  now,          \* the clock of the relying party, in seconds
  revoked,      \* the subjects and devices the registry has revoked
  issued,       \* the challenges ever given out: their expiry
  challenges,   \* the stored challenges: when each was consumed, or NULL
  sessions,     \* the stored sessions, by the receipt that started each: expiry
  receipts,     \* the receipts, in the order they were written
  notes,        \* the stored notes, by id
  replies,      \* the stored replies
  likes,        \* pairs of a note and a subject
  names,        \* the friendly name of each subject, or NULL
  ended,        \* sessions whose end was confirmed: the receipts until then
  exchange      \* the request of each client that is being served

store == <<issued, challenges, sessions, receipts, notes, replies, likes, names, ended>>

vars == <<now, revoked, store, exchange>>

-----------------------------------------------------------------------------
(* The parts of a handler *)

Idle == [step |-> "idle"]

Free(c) == exchange[c].step = "idle"

Refuse(c, code) ==
  /\ exchange' = [exchange EXCEPT ![c] = Idle]
  /\ UNCHANGED store

\* What the registry says of an identity, or of a device and its grant, now.
IdentityIsActive(subject) == subject \notin revoked

DeviceIsActive(d) ==
  IdentityIsActive(Subject[d]) /\ d \notin revoked /\ now < GrantExpiresAt

InGoodStanding(s) ==
  IF s \in Devices THEN DeviceIsActive(s) ELSE IdentityIsActive(Subject[s])

\* (mutant) A used challenge is recognised by its expiry alone.
UnexpiredChallenge(id) == id \in DOMAIN challenges /\ issued[id] > now

Usable(id) ==
  id \in DOMAIN challenges /\ challenges[id] = NULL /\ issued[id] > now

\* (mutant) The commit trusts the session the handler found before its awaits.
SessionFoundEarlier(t) == TRUE

SessionStored(t) == t \in DOMAIN sessions /\ sessions[t] > now

-----------------------------------------------------------------------------
(* POST /api/challenges *)

\* The clock is read before the hashes are awaited and used after them.
IssueArrives(c) ==
  /\ Free(c)
  /\ exchange' = [exchange EXCEPT ![c] = [step |-> "issue", at |-> now]]
  /\ UNCHANGED <<now, revoked, store>>

\* (mutant) The caps are compared one too late.
AtCapacityOffByOne(stored) ==
  \/ Cardinality(DOMAIN stored) > MaxTotal
  \/ Cardinality({id \in DOMAIN stored : stored[id] = NULL}) > MaxOutstanding

AtCapacity(stored) ==
  \/ Cardinality(DOMAIN stored) >= MaxTotal
  \/ Cardinality({id \in DOMAIN stored : stored[id] = NULL}) >= MaxOutstanding

Issue(c) ==
  /\ exchange[c].step = "issue"
  /\ Len(issued) < MaxIssued
  /\ LET at     == exchange[c].at
         stored == Restrict(challenges, {id \in DOMAIN challenges : issued[id] > at})
         id     == Len(issued) + 1 IN
     IF AtCapacity(stored) THEN Refuse(c, "RATE_LIMITED")
     ELSE /\ issued' = Append(issued, at + ChallengeTtl)
          /\ challenges' = [k \in DOMAIN stored \cup {id} |->
                              IF k = id THEN NULL ELSE stored[k]]
          /\ exchange' = [exchange EXCEPT ![c] = Idle]
          /\ UNCHANGED <<sessions, receipts, notes, replies, likes, names, ended>>
  /\ UNCHANGED <<now, revoked>>

-----------------------------------------------------------------------------
(* POST /api/operations: a proof starts a session *)

\* The proofs a wallet may have signed for a challenge, or for the challenge of
\* another service with the same nonce: a proof ends with its challenge.
ProofsFor(id) ==
  {[protocol |-> IF s \in Devices THEN "v2" ELSE "v1",
    subject |-> Subject[s], device |-> s, signedBy |-> IF s \in Devices THEN s ELSE Subject[s],
    grant |-> [subject |-> Subject[s], device |-> s, signedBy |-> Subject[s],
               validFrom |-> 0, expiresAt |-> GrantExpiresAt],
    audience |-> audience, action |-> "session.start", resource |-> "notes-session",
    nonce |-> id, context |-> "notes-policy",
    iat |-> issued[id] - ChallengeTtl, exp |-> issued[id]]
    : s \in Signers, audience \in {"notes", "elsewhere"}}

Expected(p) ==
  [audience |-> "notes", action |-> "session.start", resource |-> "notes-session",
   nonce |-> p.nonce, context |-> "notes-policy", now |-> now, skew |-> Skew]

VerifyProof(p) ==
  IF p.protocol = "v2" THEN OwnershipProofV2(p, Expected(p)) ELSE OwnershipProof(p, Expected(p))

\* stale: whether the request came too late to be allowed any effect.
StartArrives(c) ==
  /\ Free(c)
  /\ \E id \in DOMAIN issued, nonce \in DOMAIN issued : \E p \in ProofsFor(nonce) :
       IF ~Usable(id) THEN Refuse(c, "CHALLENGE_EXPIRED")
       ELSE IF nonce # id THEN Refuse(c, "CHALLENGE_MISMATCH")
       ELSE IF VerifyProof(p) # "OK" THEN Refuse(c, VerifyProof(p))
       ELSE /\ exchange' = [exchange EXCEPT ![c] =
                 [step |-> "ask", kind |-> "start", challenge |-> id, signer |-> p.device,
                  audience |-> p.audience, stale |-> ~InGoodStanding(p.device)]]
            /\ UNCHANGED store
  /\ UNCHANGED <<now, revoked>>

WriteReceipt(r) == receipts' = Append(receipts, r)

Start(c) ==
  /\ exchange[c].step = "commit" /\ exchange[c].kind = "start"
  /\ Len(receipts) < MaxReceipts
  /\ LET x == exchange[c]
         t == Len(receipts) + 1 IN
     IF ~Usable(x.challenge) THEN Refuse(c, "CHALLENGE_EXPIRED")
     ELSE /\ challenges' = [challenges EXCEPT ![x.challenge] = now]
          /\ WriteReceipt([operation |-> "session.start", signer |-> x.signer,
                           challenge |-> x.challenge, audience |-> x.audience,
                           session |-> t, at |-> now, stale |-> x.stale])
          /\ sessions' = [k \in {k \in DOMAIN sessions : sessions[k] > now} \cup {t} |->
                            IF k = t THEN now + SessionTtl ELSE sessions[k]]
          /\ exchange' = [exchange EXCEPT ![c] = Idle]
          /\ UNCHANGED <<issued, notes, replies, likes, names, ended>>
  /\ UNCHANGED <<now, revoked>>

-----------------------------------------------------------------------------
(* Sessions *)

\* A token ever given out may be presented, whatever became of its session.
Tokens == {i \in DOMAIN receipts : receipts[i].operation = "session.start"}

OperationArrives(c) ==
  /\ Free(c)
  /\ \E t \in Tokens :
       LET s == receipts[t].signer IN
       IF ~(t \in DOMAIN sessions /\ sessions[t] > now) THEN Refuse(c, "SESSION_INVALID")
       ELSE /\ exchange' = [exchange EXCEPT ![c] =
                 [step |-> "ask", kind |-> "operate", session |-> t,
                  signer |-> s, stale |-> ~InGoodStanding(s)]]
            /\ UNCHANGED store
  /\ UNCHANGED <<now, revoked>>

\* (mutant) A signer that once started a session is not asked about again.
AskOnlyAtStart(c) ==
  /\ exchange[c].step = "ask"
  /\ \/ Refuse(c, "SERVICE_UNAVAILABLE")
     \/ /\ exchange[c].kind = "start" => InGoodStanding(exchange[c].signer)
        /\ exchange' = [exchange EXCEPT ![c].step = "commit"]
        /\ UNCHANGED store
  /\ UNCHANGED <<now, revoked>>

\* The registry's signed answer, lost or verified; it says what held when it
\* was given, and the transaction comes later.
Ask(c) ==
  /\ exchange[c].step = "ask"
  /\ \/ Refuse(c, "SERVICE_UNAVAILABLE")
     \/ IF InGoodStanding(exchange[c].signer)
          THEN /\ exchange' = [exchange EXCEPT ![c].step = "commit"]
               /\ UNCHANGED store
          ELSE Refuse(c, "IDENTITY_REVOKED")
  /\ UNCHANGED <<now, revoked>>

EndSession(c) ==
  /\ Free(c)
  /\ \E t \in Tokens :
       /\ sessions' = Restrict(sessions, DOMAIN sessions \ {t})
       /\ ended' = [ended EXCEPT ![t] = IF @ = NULL THEN Len(receipts) ELSE @]
  /\ UNCHANGED <<now, revoked, issued, challenges, receipts, notes, replies, likes,
                 names, exchange>>

-----------------------------------------------------------------------------
(* POST /api/session-operations: the transaction on the Notes content *)

Author(c) == Subject[exchange[c].signer]

\* The registry has answered; the body is read only now.
AtCommit(c) == exchange[c].step = "commit" /\ exchange[c].kind = "operate"

\* A request whose object is missing or not its own is declined.
Commits(c, op, action) == op.action = action /\ Len(receipts) < MaxReceipts

SessionIsGone(c) ==
  /\ AtCommit(c)
  /\ ~SessionStored(exchange[c].session)
  /\ Refuse(c, "SESSION_INVALID")
  /\ UNCHANGED <<now, revoked>>

\* seen: the version the client says it is changing.
Seen(op) == IF op.action \in {"note.edit", "note.delete"} THEN op.expectedVersion ELSE NULL

Accept(c, op, note, version) ==
  /\ WriteReceipt([operation |-> op.action, signer |-> exchange[c].signer,
                   session |-> exchange[c].session, note |-> note, version |-> version,
                   seen |-> Seen(op), at |-> now, stale |-> exchange[c].stale])
  /\ exchange' = [exchange EXCEPT ![c] = Idle]
  /\ UNCHANGED <<now, revoked, issued, challenges, sessions, ended>>

Decline(c, code) == Refuse(c, code) /\ UNCHANGED <<now, revoked>>

Stored(n) == n \in DOMAIN notes

Owned(c, n) == Stored(n) /\ notes[n].author = Author(c)

VisibleTo(c, n) ==
  Stored(n) /\ (notes[n].visibility = "private" => notes[n].author = Author(c))

SetName(c, op) ==
  /\ Commits(c, op, "profile.set-name")
  /\ LET name == op.name IN
     IF \E s \in Subjects : s # Author(c) /\ names[s] = name THEN Decline(c, "NAME_TAKEN")
     ELSE /\ names' = [names EXCEPT ![Author(c)] = name]
          /\ Accept(c, op, NULL, NULL)
          /\ UNCHANGED <<notes, replies, likes>>

NextNote == 1 + Cardinality({i \in DOMAIN receipts : receipts[i].operation = "note.create"})

CreateNote(c, op) ==
  /\ Commits(c, op, "note.create")
  /\ notes' = [n \in DOMAIN notes \cup {NextNote} |->
                 IF n \in DOMAIN notes THEN notes[n]
                 ELSE [author |-> Author(c), visibility |-> op.visibility,
                       version |-> 1]]
  /\ Accept(c, op, NextNote, 1)
  /\ UNCHANGED <<replies, likes, names>>

\* (mutant) The version the client saw is not compared.
OwnershipRefusal(c, op) ==
  IF ~Stored(op.note) THEN "NOT_FOUND"
  ELSE IF ~Owned(c, op.note) THEN "AUTHOR_MISMATCH" ELSE "OK"

ChangeRefusal(c, op) ==
  IF ~Stored(op.note) THEN "NOT_FOUND"
  ELSE IF ~Owned(c, op.note) THEN "AUTHOR_MISMATCH"
  ELSE IF notes[op.note].version # op.expectedVersion THEN "VERSION_CONFLICT"
  ELSE "OK"

EditNote(c, op) ==
  /\ Commits(c, op, "note.edit")
  /\ IF ChangeRefusal(c, op) # "OK" THEN Decline(c, ChangeRefusal(c, op))
     ELSE /\ notes' = [notes EXCEPT ![op.note].version = @ + 1,
                                    ![op.note].visibility = op.visibility]
          /\ Accept(c, op, op.note, notes[op.note].version + 1)
          /\ UNCHANGED <<replies, likes, names>>

\* A deleted note takes its likes and replies with it.
DeleteNote(c, op) ==
  /\ Commits(c, op, "note.delete")
  /\ IF ChangeRefusal(c, op) # "OK" THEN Decline(c, ChangeRefusal(c, op))
     ELSE /\ likes' = {like \in likes : like[1] # op.note}
          /\ replies' = {reply \in replies : reply.note # op.note}
          /\ notes' = Restrict(notes, DOMAIN notes \ {op.note})
          /\ Accept(c, op, op.note, NULL)
          /\ UNCHANGED names

Reply(c, op) ==
  /\ Commits(c, op, "reply.create")
  /\ LET n == op.note IN
     IF ~VisibleTo(c, n) THEN Decline(c, "NOT_FOUND")
     ELSE /\ replies' = replies \cup {[id |-> Len(receipts) + 1, note |-> n, author |-> Author(c)]}
          /\ Accept(c, op, n, notes[n].version)
          /\ UNCHANGED <<notes, likes, names>>

\* The author of the reply and the author of the note may remove it.
DeleteReply(c, op) ==
  /\ Commits(c, op, "reply.delete")
  /\ LET found == {reply \in replies : reply.note = op.note /\ reply.author = op.by} IN
     IF ~VisibleTo(c, op.note) \/ found = {} THEN Decline(c, "NOT_FOUND")
     ELSE IF op.by # Author(c) /\ ~Owned(c, op.note) THEN Decline(c, "AUTHOR_MISMATCH")
     ELSE \E reply \in found :
            /\ replies' = replies \ {reply}
            /\ Accept(c, op, op.note, notes[op.note].version)
            /\ UNCHANGED <<notes, likes, names>>

Like(c, op) ==
  \E action \in {"note.like", "note.unlike"} :
    /\ Commits(c, op, action)
    /\ LET n == op.note IN
       IF ~Stored(n) THEN Decline(c, "NOT_FOUND")
       ELSE IF notes[n].visibility # "public" THEN Decline(c, "OPERATION_NOT_ALLOWED")
       ELSE /\ likes' = IF action = "note.like" THEN likes \cup {<<n, Author(c)>>}
                                                ELSE likes \ {<<n, Author(c)>>}
            /\ Accept(c, op, n, notes[n].version)
            /\ UNCHANGED <<notes, replies, names>>

Content(c, op) ==
  \/ SetName(c, op) \/ CreateNote(c, op) \/ EditNote(c, op) \/ DeleteNote(c, op)
  \/ Reply(c, op) \/ DeleteReply(c, op) \/ Like(c, op)

\* The transaction is reached with the session still there.
Operate(c, op) == AtCommit(c) /\ SessionStored(exchange[c].session) /\ Content(c, op)

-----------------------------------------------------------------------------
(* The world around the relying party *)

Tick == now < MaxTime /\ now' = now + 1 /\ UNCHANGED <<revoked, store, exchange>>

Revoke ==
  /\ \E s \in Subjects \cup Devices : revoked' = revoked \cup {s}
  /\ UNCHANGED <<now, store, exchange>>

\* The notes the service is seeded with have an author no client can sign for.
SeedNote == [author |-> "seed", visibility |-> "public", version |-> 1]

Init ==
  /\ now = 0 /\ revoked = {}
  /\ issued = <<>> /\ challenges = <<>> /\ receipts = <<>>
  /\ sessions = <<>>
  /\ notes = [n \in {0} |-> SeedNote] /\ replies = {} /\ likes = {}
  /\ names = [s \in Subjects |-> NULL]
  /\ ended = [t \in 1..MaxReceipts |-> NULL]
  /\ exchange = [c \in Clients |-> Idle]

Next ==
  \/ Tick
  \/ Revoke
  \/ \E c \in Clients :
       \/ IssueArrives(c) \/ Issue(c)
       \/ StartArrives(c) \/ Start(c)
       \/ OperationArrives(c) \/ Ask(c) \/ SessionIsGone(c)
       \/ \E op \in Requests : Operate(c, op)
       \/ EndSession(c)

Spec == Init /\ [][Next]_vars

-----------------------------------------------------------------------------
(* Correctness *)

\* A challenge starts one session, whoever submits it how often and however
\* the submissions interleave, and only by a proof made for this service
\* (#startSession, #commitStartedSession).
ChallengeStartsOneSession ==
  \A i, j \in Tokens :
    /\ receipts[i].audience = "notes"
    /\ receipts[i].challenge = receipts[j].challenge => i = j

\* A session that expired or whose end was confirmed to the client never has
\* another effect, not by a request that had found it active before
\* (#commitSessionOperation reads it again in its transaction).
EndedSessionsHaveNoEffect ==
  \A i \in DOMAIN receipts \ Tokens :
    LET t == receipts[i].session IN
    /\ receipts[i].at < receipts[t].at + SessionTtl
    /\ ended[t] # NULL => i <= ended[t]

\* A request that arrives after its signer was revoked or its grant expired has
\* no effect: no stored state stands in for the registry's answer.
RevokedSignersHaveNoEffect == \A i \in DOMAIN receipts : ~receipts[i].stale

\* The caps hold over the stored challenges, with the clock of a request read
\* before its awaits.
ChallengeStoreIsBounded ==
  /\ Cardinality(DOMAIN challenges) <= MaxTotal
  /\ Cardinality({id \in DOMAIN challenges : challenges[id] = NULL}) <= MaxOutstanding

\* No edit is lost under another: of the changes made to one version of a note
\* one is accepted, and the note counts them all; nothing is left behind on a
\* note that was deleted.
ChangesOf(n) ==
  {i \in DOMAIN receipts \ Tokens : receipts[i].note = n /\ receipts[i].seen # NULL}

NothingIsLost ==
  /\ \A i, j \in DOMAIN receipts \ Tokens :
       (i # j /\ receipts[i].seen # NULL /\ receipts[i].note = receipts[j].note)
         => receipts[i].seen # receipts[j].seen
  /\ \A n \in DOMAIN notes : notes[n].version = 1 + Cardinality(ChangesOf(n))
  /\ \A reply \in replies : Stored(reply.note)
  /\ \A like \in likes : Stored(like[1])
=============================================================================
