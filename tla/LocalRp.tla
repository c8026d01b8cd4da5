------------------------------ MODULE LocalRp ------------------------------
(***************************************************************************)
(* The relying party of the development server (src/backend of the         *)
(* reference application): the service of ReferenceRp on maps in memory.   *)
(* Its mutations take turns on a chain of promises; the one at the head    *)
(* awaits the registry while the others wait, and logging out passes them  *)
(* all by. It has no caps, no transaction, and it does not look at the     *)
(* session again after the registry has answered.                          *)
(***************************************************************************)
EXTENDS ReferenceRp

VARIABLE
  chain         \* #exclusive: the clients whose work is not finished, in order

localVars == <<vars, chain>>

-----------------------------------------------------------------------------
(* #runExclusive *)

Queue(c, work) ==
  /\ Free(c)
  /\ exchange' = [exchange EXCEPT ![c] = work]
  /\ chain' = Append(chain, c)
  /\ UNCHANGED <<now, revoked, store>>

\* (mutant) The work that follows a failed one is never begun.
NextAfterSuccess(c) ==
  chain' = IF exchange'[c].step = "idle" /\ Len(receipts') > Len(receipts)
             THEN Tail(chain) ELSE chain

\* Work that ends, by an answer or by an error, lets the next one begin.
NextInChain(c) == chain' = IF exchange'[c].step = "idle" THEN Tail(chain) ELSE chain

Works(c, step) == chain # <<>> /\ Head(chain) = c /\ exchange[c].step = step

-----------------------------------------------------------------------------
(* Challenges, never deleted, and the start of a session *)

Insert(new) ==
  challenges' = [id \in DOMAIN challenges \cup {new} |->
                   IF id = new THEN NULL ELSE challenges[id]]

LocalIssue(c) ==
  /\ Free(c)
  /\ Len(issued) < MaxIssued
  /\ issued' = Append(issued, now + ChallengeTtl)
  /\ Insert(Len(issued) + 1)
  /\ UNCHANGED <<now, revoked, exchange, chain, sessions, receipts, notes, replies, likes,
                 names, ended>>

LocalStartArrives(c) ==
  \E id \in DOMAIN issued, nonce \in DOMAIN issued : \E p \in ProofsFor(nonce) :
    Queue(c, [step |-> "queued", kind |-> "start", challenge |-> id, proof |-> p,
              signer |-> p.device, audience |-> p.audience,
              stale |-> ~InGoodStanding(p.device)])

\* The clock the verification uses is read now.
LocalStartRuns(c) ==
  /\ Works(c, "queued") /\ exchange[c].kind = "start"
  /\ LET id == exchange[c].challenge
         p  == exchange[c].proof IN
     IF ~Usable(id) THEN Refuse(c, "CHALLENGE_EXPIRED")
     ELSE IF p.nonce # id THEN Refuse(c, "CHALLENGE_MISMATCH")
     ELSE IF VerifyProof(p) # "OK" THEN Refuse(c, VerifyProof(p))
     ELSE exchange' = [exchange EXCEPT ![c].step = "ask"] /\ UNCHANGED store
  /\ NextInChain(c)
  /\ UNCHANGED <<now, revoked>>

\* verifyRpOperation, verifyRpOperationV2: one answer, then the consumption.
LocalAsk(c) == Works(c, "ask") /\ Ask(c) /\ NextInChain(c)

Consumed(id) == challenges[id] # NULL

Consume(c) ==
  /\ Works(c, "commit") /\ exchange[c].kind = "start"
  /\ LET id == exchange[c].challenge IN
     IF Consumed(id) THEN Refuse(c, "NONCE_REPLAY_OR_EXPIRED")
     ELSE /\ challenges' = [challenges EXCEPT ![id] = now]
          /\ exchange' = [exchange EXCEPT ![c].step =
                            IF exchange[c].signer \in Devices THEN "start" ELSE "again"]
          /\ UNCHANGED <<issued, sessions, receipts, notes, replies, likes, names, ended>>
  /\ NextInChain(c)
  /\ UNCHANGED <<now, revoked>>

\* A root is asked about once more; a refusal now has spent the challenge.
AskAgain(c) ==
  /\ Works(c, "again")
  /\ \/ Refuse(c, "SERVICE_UNAVAILABLE")
     \/ IF InGoodStanding(exchange[c].signer)
          THEN exchange' = [exchange EXCEPT ![c].step = "start"] /\ UNCHANGED store
          ELSE Refuse(c, "SESSION_INVALID")
  /\ NextInChain(c)
  /\ UNCHANGED <<now, revoked>>

\* Sessions that expired stay in the map.
LocalStart(c) ==
  /\ Works(c, "start")
  /\ Len(receipts) < MaxReceipts
  /\ LET x == exchange[c]
         t == Len(receipts) + 1 IN
     /\ sessions' = [k \in DOMAIN sessions \cup {t} |->
                       IF k = t THEN now + SessionTtl ELSE sessions[k]]
     /\ WriteReceipt([operation |-> "session.start", signer |-> x.signer,
                      challenge |-> x.challenge, audience |-> x.audience,
                      session |-> t, at |-> now, stale |-> x.stale])
  /\ exchange' = [exchange EXCEPT ![c] = Idle]
  /\ NextInChain(c)
  /\ UNCHANGED <<now, revoked, issued, challenges, notes, replies, likes, names, ended>>

-----------------------------------------------------------------------------
(* Operations of a session *)

LocalOperationArrives(c) ==
  \E t \in Tokens :
    LET s == receipts[t].signer IN
    Queue(c, [step |-> "queued", kind |-> "operate", session |-> t, signer |-> s,
              stale |-> ~InGoodStanding(s)])

LocalOperationRuns(c) ==
  /\ Works(c, "queued") /\ exchange[c].kind = "operate"
  /\ IF SessionStored(exchange[c].session)
       THEN exchange' = [exchange EXCEPT ![c].step = "ask"] /\ UNCHANGED store
       ELSE Refuse(c, "SESSION_INVALID")
  /\ NextInChain(c)
  /\ UNCHANGED <<now, revoked>>

LocalOperate(c, op) ==
  Works(c, "commit") /\ exchange[c].kind = "operate" /\ Content(c, op) /\ NextInChain(c)

-----------------------------------------------------------------------------

LocalInit == Init /\ chain = <<>>

LocalNext ==
  \/ (Tick \/ Revoke) /\ UNCHANGED chain
  \/ \E c \in Clients :
       \/ LocalIssue(c)
       \/ LocalStartArrives(c) \/ LocalStartRuns(c)
       \/ LocalAsk(c) \/ Consume(c) \/ AskAgain(c) \/ LocalStart(c)
       \/ LocalOperationArrives(c) \/ LocalOperationRuns(c)
       \/ \E op \in Requests : LocalOperate(c, op)
       \/ EndSession(c) /\ UNCHANGED chain

LocalSpec == LocalInit /\ [][LocalNext]_localVars

-----------------------------------------------------------------------------
(* Correctness *)

\* Whoever waits for its turn waits for work that is going on: a failure in the
\* chain stops nobody behind it, and nobody is forgotten (#runExclusive).
TheChainGoesOn ==
  /\ \A i \in DOMAIN chain : ~Free(chain[i]) /\ (i > 1 => exchange[chain[i]].step = "queued")
  /\ chain # <<>> => {c \in Clients : ~Free(c)} = Range(chain)
=============================================================================
