------------------------- MODULE ReferenceRpProofs -------------------------
(***************************************************************************)
(* Safety of the reference relying party, for any number of clients,       *)
(* signers, challenges and requests: a challenge starts one session, ended *)
(* sessions and revoked signers have no effect, the store of challenges    *)
(* keeps its caps and no change of a note is lost.                         *)
(*                                                                         *)
(* The second half is about the development server (LocalRp): its chain of *)
(* promises never stops, and it keeps what it shares with the service.     *)
(* The parts about proofs and about the notes speak of one step of the     *)
(* handlers only, so both halves use them.                                 *)
(***************************************************************************)
EXTENDS RelyingParty, TLAPS, WellFoundedInduction, FiniteSetTheorems, SequenceTheorems

-----------------------------------------------------------------------------
(* What the verifier accepts *)

\* Every nonempty set of natural numbers has a least element.
LEMMA LeastElement ==
  ASSUME NEW S \in SUBSET Nat, S # {}
  PROVE  \E i \in S : \A j \in S : i <= j
<1> DEFINE R == OpToRel(<, Nat)
<1>1. \E i \in S : \A j \in S : <<j, i>> \notin R
  BY NatLessThanWellFounded, WFMin
<1>2. \A i, j \in S : <<j, i>> \notin R => i <= j
  BY DEF OpToRel
<1> QED  BY <1>1, <1>2

\* A list of checks is passed only if every one of them is.
LEMMA VerdictOK ==
  ASSUME NEW n \in Nat, NEW checks, DOMAIN checks = 1..n, Verdict(checks) = "OK",
         NEW i \in 1..n
  PROVE  checks[i] = "OK"
<1> DEFINE failing == {j \in DOMAIN checks : checks[j] # "OK"}
<1> DEFINE first == CHOOSE j \in failing : \A k \in failing : j <= k
<1>1. SUFFICES ASSUME failing # {} PROVE FALSE
  OBVIOUS
<1>2. \E j \in failing : \A k \in failing : j <= k
  <2>1. failing \in SUBSET Nat
    OBVIOUS
  <2> HIDE DEF failing
  <2> QED  BY <1>1, <2>1, LeastElement
<1>3. first \in failing
  BY <1>2
<1>4. Verdict(checks) = checks[first]
  BY <1>1 DEF Verdict
<1> HIDE DEF first
<1> QED  BY <1>3, <1>4

\* A root's proof that is accepted was made for this service, this operation and
\* this challenge, and the root signed it.
LEMMA ProofAccepted ==
  ASSUME NEW p, NEW e, OwnershipProof(p, e) = "OK"
  PROVE  /\ p.audience = e.audience /\ p.action = e.action
         /\ p.resource = e.resource /\ p.nonce = e.nonce
         /\ p.signedBy = p.subject
<1> DEFINE checks == Purpose(p, e) \o ExpiringWindow(p, e)
                     \o << Check(p.signedBy # p.subject, "INVALID_SIGNATURE") >>
<1>1. DOMAIN checks = 1..8
  BY DEF Purpose, ExpiringWindow
<1>2. Verdict(checks) = "OK"
  BY DEF OwnershipProof
<1>3. \A i \in 1..8 : checks[i] = "OK"
  <2> HIDE DEF checks
  <2> QED  BY <1>1, <1>2, VerdictOK
<1>4. /\ checks[1] = Check(p.audience # e.audience, "WRONG_AUDIENCE")
      /\ checks[2] = Check(p.action # e.action, "WRONG_ACTION")
      /\ checks[3] = Check(p.resource # e.resource, "WRONG_RESOURCE")
      /\ checks[4] = Check(p.nonce # e.nonce, "WRONG_NONCE")
      /\ checks[8] = Check(p.signedBy # p.subject, "INVALID_SIGNATURE")
  BY DEF Purpose, ExpiringWindow
<1> HIDE DEF checks
<1> QED  BY <1>3, <1>4 DEF Check

\* The same of a device, with an unbroken chain from the root and a grant that
\* has not expired.
LEMMA DeviceProofAccepted ==
  ASSUME NEW p, NEW e, OwnershipProofV2(p, e) = "OK"
  PROVE  /\ p.audience = e.audience /\ p.action = e.action
         /\ p.resource = e.resource /\ p.nonce = e.nonce /\ p.context = e.context
         /\ p.grant.subject = p.subject /\ p.grant.signedBy = p.subject
         /\ p.grant.device = p.device /\ p.signedBy = p.device
         /\ ~(e.now >= p.grant.expiresAt)
<1> DEFINE grant == p.grant
<1> DEFINE fromRoot == <<
    Check(grant.subject # p.subject,               "INVALID_SUBJECT"),
    Check(grant.device # p.device,                 "WRONG_DEVICE"),
    Check(grant.device = p.subject,                "INVALID_KEY"),
    Check(grant.signedBy # p.subject,              "INVALID_SIGNATURE"),
    Check(p.iat < grant.validFrom,                 "PROOF_NOT_YET_VALID"),
    Check(p.exp > grant.expiresAt,                 "DEVICE_EXPIRED"),
    Check(e.now < grant.validFrom - e.skew,        "PROOF_NOT_YET_VALID"),
    Check(e.now >= grant.expiresAt,                "DEVICE_EXPIRED") >>
<1> DEFINE checks ==
    fromRoot \o Purpose(p, e) \o ContextBinding(p, e) \o ExpiringWindow(p, e)
    \o << Check(p.signedBy # p.device,             "INVALID_SIGNATURE") >>
<1>1. DOMAIN checks = 1..17
  BY DEF Purpose, ExpiringWindow, ContextBinding
<1>2. Verdict(checks) = "OK"
  BY DEF OwnershipProofV2
<1>3. \A i \in 1..17 : checks[i] = "OK"
  <2> HIDE DEF checks
  <2> QED  BY <1>1, <1>2, VerdictOK
<1>4. /\ checks[1] = Check(grant.subject # p.subject, "INVALID_SUBJECT")
      /\ checks[2] = Check(grant.device # p.device, "WRONG_DEVICE")
      /\ checks[4] = Check(grant.signedBy # p.subject, "INVALID_SIGNATURE")
      /\ checks[8] = Check(e.now >= grant.expiresAt, "DEVICE_EXPIRED")
      /\ checks[9] = Check(p.audience # e.audience, "WRONG_AUDIENCE")
      /\ checks[10] = Check(p.action # e.action, "WRONG_ACTION")
      /\ checks[11] = Check(p.resource # e.resource, "WRONG_RESOURCE")
      /\ checks[12] = Check(p.nonce # e.nonce, "WRONG_NONCE")
      /\ checks[13] = Check(p.context # e.context, "WRONG_CONTEXT")
      /\ checks[17] = Check(p.signedBy # p.device, "INVALID_SIGNATURE")
  BY DEF Purpose, ExpiringWindow, ContextBinding
<1> HIDE DEF checks
<1> QED  BY <1>3, <1>4 DEF Check

LEMMA VerifiedProof ==
  ASSUME NEW p, VerifyProof(p) = "OK"
  PROVE  p.audience = "notes"
<1>1. Expected(p).audience = "notes"
  BY DEF Expected
<1> QED  BY <1>1, ProofAccepted, DeviceProofAccepted DEF VerifyProof

-----------------------------------------------------------------------------
(* Types *)

ContentActions ==
  {"profile.set-name", "note.create", "note.edit", "note.delete",
   "reply.create", "reply.delete", "note.like", "note.unlike"}

Audiences == {"notes", "elsewhere"}

StartReceipts ==
  [operation : {"session.start"}, signer : Signers, challenge : Nat, audience : Audiences,
   session : Nat, at : Nat, stale : BOOLEAN]

ContentReceipts ==
  [operation : ContentActions, signer : Signers, session : Nat, note : Nat \cup {NULL},
   version : Nat \cup {NULL}, seen : Nat \cup {NULL}, at : Nat, stale : BOOLEAN]

Receipts == StartReceipts \cup ContentReceipts

Visibilities == {op.visibility : op \in Requests} \cup {"public"}

Note == [author : Subjects \cup {"seed"}, visibility : Visibilities, version : Nat]

ContentOK ==
  /\ notes \in [DOMAIN notes -> Note]
  /\ DOMAIN notes \subseteq Nat
  /\ replies \subseteq [id : Nat, note : Nat, author : Subjects]
  /\ likes \subseteq Nat \X Subjects
  /\ names \in [Subjects -> {op.name : op \in Requests} \cup {NULL}]

StoreOK ==
  /\ issued \in Seq(Nat)
  /\ challenges \in [DOMAIN challenges -> Nat \cup {NULL}]
  /\ DOMAIN challenges \subseteq 1..Len(issued)
  /\ receipts \in Seq(Receipts)
  /\ Len(receipts) <= MaxReceipts
  /\ sessions \in [DOMAIN sessions -> Nat]
  /\ DOMAIN sessions \subseteq Tokens
  /\ ended \in [1..MaxReceipts -> Nat \cup {NULL}]
  /\ ContentOK

\* A request that is being served: the issue of a challenge, a proof, or an
\* operation of a session.
StartWork ==
  [step : {"ask", "commit"}, kind : {"start"}, challenge : Nat, signer : Signers,
   audience : Audiences, stale : BOOLEAN]

SessionWork ==
  [step : {"ask", "commit"}, kind : {"operate"}, session : Nat, signer : Signers,
   stale : BOOLEAN]

Work == {Idle} \cup [step : {"issue"}, at : Nat] \cup StartWork \cup SessionWork

TypeOK ==
  /\ now \in Nat
  /\ revoked \subseteq Subjects \cup Devices
  /\ StoreOK
  /\ exchange \in [Clients -> Work]

-----------------------------------------------------------------------------
(* The list of receipts *)

\* What is known of the receipts after one more was written.
LEMMA Written ==
  ASSUME receipts \in Seq(Receipts), NEW r \in Receipts, receipts' = Append(receipts, r)
  PROVE  /\ receipts' \in Seq(Receipts)
         /\ Len(receipts) \in Nat /\ Len(receipts') = Len(receipts) + 1
         /\ DOMAIN receipts = 1..Len(receipts)
         /\ DOMAIN receipts' = DOMAIN receipts \cup {Len(receipts) + 1}
         /\ Len(receipts) + 1 \notin DOMAIN receipts
         /\ \A i \in DOMAIN receipts : receipts'[i] = receipts[i]
         /\ receipts'[Len(receipts) + 1] = r
BY AppendProperties, LenProperties

LEMMA TokensWritten ==
  ASSUME receipts \in Seq(Receipts), NEW r \in Receipts, receipts' = Append(receipts, r)
  PROVE  Tokens' = IF r.operation = "session.start"
                     THEN Tokens \cup {Len(receipts) + 1} ELSE Tokens
BY Written DEF Tokens

LEMMA ReceiptKinds ==
  ASSUME receipts \in Seq(Receipts), NEW i \in DOMAIN receipts
  PROVE  /\ i \in Tokens => receipts[i] \in StartReceipts
         /\ i \notin Tokens => receipts[i] \in ContentReceipts
<1>1. receipts[i] \in Receipts
  BY LenProperties
<1> QED  BY <1>1 DEF Receipts, StartReceipts, ContentReceipts, Tokens, ContentActions

Creations == {i \in DOMAIN receipts : receipts[i].operation = "note.create"}

\* The next note has a number no note has had, counted by the receipts.
LEMMA NextNoteCounts ==
  ASSUME receipts \in Seq(Receipts)
  PROVE  /\ NextNote \in Nat /\ NextNote >= 1
         /\ IsFiniteSet(Creations) /\ NextNote = 1 + Cardinality(Creations)
<1>1. IsFiniteSet(DOMAIN receipts)
  BY FS_Interval, LenProperties
<1>2. IsFiniteSet(Creations)
  BY <1>1, FS_Subset DEF Creations
<1>3. Cardinality(Creations) \in Nat
  BY <1>2, FS_CardinalityType
<1> QED  BY <1>2, <1>3 DEF NextNote, Creations

LEMMA NextNoteWritten ==
  ASSUME receipts \in Seq(Receipts), NEW r \in Receipts, receipts' = Append(receipts, r)
  PROVE  NextNote' = IF r.operation = "note.create" THEN NextNote + 1 ELSE NextNote
<1>1. Creations' = IF r.operation = "note.create"
                     THEN Creations \cup {Len(receipts) + 1} ELSE Creations
  BY Written DEF Creations
<1>2. Len(receipts) + 1 \notin Creations
  BY Written DEF Creations
<1>3. receipts' \in Seq(Receipts)
  BY Written
<1>4. NextNote' = 1 + Cardinality(Creations')
  BY DEF NextNote, Creations
<1>5. IsFiniteSet(Creations) /\ NextNote = 1 + Cardinality(Creations) /\ NextNote \in Nat
  BY NextNoteCounts
<1>6. Cardinality(Creations \cup {Len(receipts) + 1}) = Cardinality(Creations) + 1
  BY <1>2, <1>5, FS_AddElement
<1>7. Cardinality(Creations) \in Nat
  BY <1>5, FS_CardinalityType
<1> QED  BY <1>1, <1>4, <1>5, <1>6, <1>7

-----------------------------------------------------------------------------
(* A step on the content of the notes *)

\* What an accepted request leaves behind, by what it does to the notes.
Keeps(r) ==
  /\ r.operation # "note.create" /\ r.seen = NULL
  /\ notes' = notes
  /\ \A reply \in replies' : reply \in replies \/ Stored(reply.note)
  /\ \A like \in likes' : like \in likes \/ Stored(like[1])

Creates(r) ==
  /\ r.operation = "note.create" /\ r.seen = NULL
  /\ DOMAIN notes' = DOMAIN notes \cup {NextNote}
  /\ \A n \in DOMAIN notes : notes'[n] = notes[n]
  /\ NextNote \notin DOMAIN notes => notes'[NextNote].version = 1
  /\ UNCHANGED <<replies, likes>>

Edits(r) ==
  /\ r.operation = "note.edit"
  /\ Stored(r.note) /\ r.seen = notes[r.note].version
  /\ DOMAIN notes' = DOMAIN notes
  /\ notes'[r.note].version = notes[r.note].version + 1
  /\ \A n \in DOMAIN notes \ {r.note} : notes'[n].version = notes[n].version
  /\ UNCHANGED <<replies, likes>>

Deletes(r) ==
  /\ r.operation = "note.delete"
  /\ Stored(r.note) /\ r.seen = notes[r.note].version
  /\ DOMAIN notes' = DOMAIN notes \ {r.note}
  /\ \A n \in DOMAIN notes' : notes'[n] = notes[n]
  /\ \A reply \in replies' : reply \in replies /\ reply.note # r.note
  /\ \A like \in likes' : like \in likes /\ like[1] # r.note

\* The receipt of an accepted request of client c.
Accepts(c, r) ==
  /\ r \in ContentReceipts
  /\ r.signer = exchange[c].signer /\ r.session = exchange[c].session
  /\ r.at = now /\ r.stale = exchange[c].stale
  /\ Len(receipts) < MaxReceipts
  /\ receipts' = Append(receipts, r)
  /\ Keeps(r) \/ Creates(r) \/ Edits(r) \/ Deletes(r)

Finishes(c) ==
  /\ exchange' = [exchange EXCEPT ![c] = Idle]
  /\ UNCHANGED <<now, revoked, issued, challenges, sessions, ended>>

\* The client's request as the handlers of the content find it.
ServedOK(c) ==
  /\ exchange[c].signer \in Signers /\ exchange[c].session \in Nat
  /\ exchange[c].stale \in BOOLEAN
  /\ now \in Nat /\ receipts \in Seq(Receipts)

LEMMA AuthorType ==
  ASSUME NEW c, exchange[c].signer \in Signers
  PROVE  Author(c) \in Subjects
BY DEF Author, Subjects

\* The receipt that Accept writes for the request op on a note.
Receipt(c, op, note, version) ==
  [operation |-> op.action, signer |-> exchange[c].signer,
   session |-> exchange[c].session, note |-> note, version |-> version,
   seen |-> Seen(op), at |-> now, stale |-> exchange[c].stale]

LEMMA Accepted ==
  ASSUME NEW c, NEW op, NEW note \in Nat \cup {NULL}, NEW version \in Nat \cup {NULL},
         ServedOK(c), op.action \in ContentActions, Seen(op) \in Nat \cup {NULL},
         Len(receipts) < MaxReceipts, Accept(c, op, note, version)
  PROVE  LET r == Receipt(c, op, note, version) IN
         /\ Finishes(c)
         /\ r.operation = op.action /\ r.note = note /\ r.seen = Seen(op)
         /\ Keeps(r) \/ Creates(r) \/ Edits(r) \/ Deletes(r) => Accepts(c, r)
<1> DEFINE r == Receipt(c, op, note, version)
<1>1. r \in ContentReceipts
  BY DEF Receipt, ContentReceipts, ServedOK
<1>2. /\ r.operation = op.action /\ r.note = note /\ r.seen = Seen(op)
      /\ r.signer = exchange[c].signer /\ r.session = exchange[c].session
      /\ r.at = now /\ r.stale = exchange[c].stale
  BY DEF Receipt
<1>3. receipts' = Append(receipts, r)
  BY DEF Accept, WriteReceipt, Receipt
<1>4. Finishes(c)
  BY DEF Accept, Finishes
<1> HIDE DEF r
<1> QED  BY <1>1, <1>2, <1>3, <1>4 DEF Accepts, r

\* What a step on the content does, by the operation.
Outcome(c) ==
  Finishes(c) /\ ContentOK' /\ (UNCHANGED store \/ \E r : Accepts(c, r))

LEMMA Declined ==
  ASSUME NEW c, NEW code, ContentOK, Decline(c, code)
  PROVE  Outcome(c)
BY DEF Decline, Refuse, Outcome, Finishes, store, ContentOK

LEMMA NameStep ==
  ASSUME NEW c, NEW op \in Requests, ContentOK, ServedOK(c), SetName(c, op)
  PROVE  Outcome(c)
<1>1. CASE \E s \in Subjects : s # Author(c) /\ names[s] = op.name
  BY <1>1, Declined DEF SetName
<1>2. CASE ~ \E s \in Subjects : s # Author(c) /\ names[s] = op.name
  <2>1. /\ names' = [names EXCEPT ![Author(c)] = op.name]
        /\ UNCHANGED <<notes, replies, likes>>
        /\ Accept(c, op, NULL, NULL)
        /\ op.action = "profile.set-name" /\ Len(receipts) < MaxReceipts
    BY <1>2 DEF SetName, Commits
  <2>2. Seen(op) = NULL /\ op.action \in ContentActions
    BY <2>1 DEF Seen, ContentActions
  <2>3. Keeps(Receipt(c, op, NULL, NULL))
    <3>1. Receipt(c, op, NULL, NULL).operation = op.action
          /\ Receipt(c, op, NULL, NULL).seen = NULL
      BY <2>2 DEF Receipt
    <3> QED  BY <2>1, <3>1 DEF Keeps
  <2>4. ContentOK'
    BY <2>1, AuthorType DEF ContentOK, ServedOK
  <2> QED  BY <2>1, <2>2, <2>3, <2>4, Accepted DEF Outcome
<1> QED  BY <1>1, <1>2

LEMMA CreateStep ==
  ASSUME NEW c, NEW op \in Requests, ContentOK, ServedOK(c), CreateNote(c, op)
  PROVE  Outcome(c)
<1>1. /\ notes' = [n \in DOMAIN notes \cup {NextNote} |->
                     IF n \in DOMAIN notes THEN notes[n]
                     ELSE [author |-> Author(c), visibility |-> op.visibility, version |-> 1]]
      /\ UNCHANGED <<replies, likes, names>>
      /\ Accept(c, op, NextNote, 1)
      /\ op.action = "note.create" /\ Len(receipts) < MaxReceipts
  BY DEF CreateNote, Commits
<1>2. Seen(op) = NULL /\ op.action \in ContentActions /\ NextNote \in Nat
  BY <1>1, NextNoteCounts DEF Seen, ContentActions, ServedOK
<1>3. Creates(Receipt(c, op, NextNote, 1))
  BY <1>1, <1>2, Accepted DEF Creates
<1>4. Author(c) \in Subjects
  BY AuthorType DEF ServedOK
<1>5. ContentOK'
  BY <1>1, <1>2, <1>4 DEF ContentOK, Note, Visibilities
<1> QED  BY <1>1, <1>2, <1>3, <1>5, Accepted DEF Outcome

\* What a request to change a note has to be told to be carried out.
LEMMA Changeable ==
  ASSUME NEW c, NEW op, ContentOK, ChangeRefusal(c, op) = "OK",
         op.action \in {"note.edit", "note.delete"}
  PROVE  /\ Stored(op.note) /\ op.note \in Nat
         /\ Seen(op) = notes[op.note].version /\ Seen(op) \in Nat
         /\ op.action \in ContentActions
BY DEF ContentOK, ChangeRefusal, Seen, Stored, Note, ContentActions

LEMMA Revised ==
  ASSUME NEW old \in Note, NEW op \in Requests
  PROVE  LET new == [old EXCEPT !.version = @ + 1, !.visibility = op.visibility] IN
         new \in Note /\ new.version = old.version + 1
<1> DEFINE next == [old EXCEPT !.version = @ + 1]
<1>1. old.version \in Nat /\ op.visibility \in Visibilities
  BY DEF Note, Visibilities
<1>2. next \in Note /\ next.version = old.version + 1
  BY <1>1 DEF Note
<1>3. [old EXCEPT !.version = @ + 1, !.visibility = op.visibility]
        = [next EXCEPT !.visibility = op.visibility]
  OBVIOUS
<1> HIDE DEF next
<1>4. /\ [next EXCEPT !.visibility = op.visibility] \in Note
      /\ [next EXCEPT !.visibility = op.visibility].version = next.version
  BY <1>1, <1>2 DEF Note
<1> QED  BY <1>2, <1>3, <1>4

LEMMA EditStep ==
  ASSUME NEW c, NEW op \in Requests, ContentOK, ServedOK(c), EditNote(c, op)
  PROVE  Outcome(c)
<1>1. CASE ChangeRefusal(c, op) # "OK"
  BY <1>1, Declined DEF EditNote
<1>2. CASE ChangeRefusal(c, op) = "OK"
  <2>1. /\ notes' = [notes EXCEPT ![op.note].version = @ + 1,
                                  ![op.note].visibility = op.visibility]
        /\ UNCHANGED <<replies, likes, names>>
        /\ Accept(c, op, op.note, notes[op.note].version + 1)
        /\ op.action = "note.edit" /\ Len(receipts) < MaxReceipts
    BY <1>2 DEF EditNote, Commits
  <2>2. /\ Stored(op.note) /\ op.note \in Nat
        /\ Seen(op) = notes[op.note].version /\ Seen(op) \in Nat
        /\ op.action \in ContentActions
    BY <1>2, <2>1, Changeable
  <2>3. /\ DOMAIN notes' = DOMAIN notes
        /\ notes' \in [DOMAIN notes -> Note]
        /\ notes'[op.note].version = notes[op.note].version + 1
        /\ \A n \in DOMAIN notes \ {op.note} : notes'[n] = notes[n]
    <3> DEFINE note == [notes[op.note] EXCEPT !.version = @ + 1, !.visibility = op.visibility]
    <3>1. notes[op.note] \in Note
      BY <2>2 DEF ContentOK, Stored
    <3>2. note \in Note /\ note.version = notes[op.note].version + 1
      BY <3>1, Revised
    <3>3. notes' = [notes EXCEPT ![op.note] = note]
      BY <2>1, <2>2 DEF ContentOK, Stored
    <3> HIDE DEF note
    <3> QED  BY <2>2, <3>2, <3>3 DEF ContentOK, Stored
  <2>4. Edits(Receipt(c, op, op.note, notes[op.note].version + 1))
    BY <2>1, <2>2, <2>3, Accepted DEF Edits
  <2>5. ContentOK'
    BY <2>1, <2>3 DEF ContentOK
  <2> QED  BY <2>1, <2>2, <2>4, <2>5, Accepted DEF Outcome
<1> QED  BY <1>1, <1>2

LEMMA DeleteStep ==
  ASSUME NEW c, NEW op \in Requests, ContentOK, ServedOK(c), DeleteNote(c, op)
  PROVE  Outcome(c)
<1>1. CASE ChangeRefusal(c, op) # "OK"
  BY <1>1, Declined DEF DeleteNote
<1>2. CASE ChangeRefusal(c, op) = "OK"
  <2>1. /\ likes' = {like \in likes : like[1] # op.note}
        /\ replies' = {reply \in replies : reply.note # op.note}
        /\ notes' = Restrict(notes, DOMAIN notes \ {op.note})
        /\ UNCHANGED names
        /\ Accept(c, op, op.note, NULL)
        /\ op.action = "note.delete" /\ Len(receipts) < MaxReceipts
    BY <1>2 DEF DeleteNote, Commits
  <2>2. /\ Stored(op.note) /\ op.note \in Nat
        /\ Seen(op) = notes[op.note].version /\ Seen(op) \in Nat
        /\ op.action \in ContentActions
    BY <1>2, <2>1, Changeable
  <2>3. Deletes(Receipt(c, op, op.note, NULL))
    <3>1. /\ Receipt(c, op, op.note, NULL).operation = op.action
          /\ Receipt(c, op, op.note, NULL).note = op.note
          /\ Receipt(c, op, op.note, NULL).seen = Seen(op)
      BY DEF Receipt
    <3> QED  BY <2>1, <2>2, <3>1 DEF Deletes, Restrict
  <2>4. ContentOK'
    BY <2>1 DEF ContentOK, Restrict
  <2> QED  BY <2>1, <2>2, <2>3, <2>4, Accepted DEF Outcome
<1> QED  BY <1>1, <1>2

LEMMA ReplyStep ==
  ASSUME NEW c, NEW op \in Requests, ContentOK, ServedOK(c), Reply(c, op)
  PROVE  Outcome(c)
<1>1. CASE ~VisibleTo(c, op.note)
  BY <1>1, Declined DEF Reply
<1>2. CASE VisibleTo(c, op.note)
  <2>1. /\ replies' = replies \cup {[id |-> Len(receipts) + 1, note |-> op.note, author |-> Author(c)]}
        /\ UNCHANGED <<notes, likes, names>>
        /\ Accept(c, op, op.note, notes[op.note].version)
        /\ op.action = "reply.create" /\ Len(receipts) < MaxReceipts
    BY <1>2 DEF Reply, Commits
  <2>2. /\ Seen(op) = NULL /\ op.action \in ContentActions
        /\ Stored(op.note) /\ op.note \in Nat /\ notes[op.note].version \in Nat
    BY <1>2, <2>1 DEF Seen, ContentActions, VisibleTo, Stored, ContentOK, Note
  <2>3. Keeps(Receipt(c, op, op.note, notes[op.note].version))
    BY <2>1, <2>2, Accepted DEF Keeps
  <2>4. Author(c) \in Subjects /\ Len(receipts) + 1 \in Nat
    BY AuthorType, LenProperties DEF ServedOK
  <2>5. ContentOK'
    BY <2>1, <2>2, <2>4 DEF ContentOK
  <2> QED  BY <2>1, <2>2, <2>3, <2>5, Accepted DEF Outcome
<1> QED  BY <1>1, <1>2

LEMMA DeleteReplyStep ==
  ASSUME NEW c, NEW op \in Requests, ContentOK, ServedOK(c), DeleteReply(c, op)
  PROVE  Outcome(c)
<1> DEFINE found == {reply \in replies : reply.note = op.note /\ reply.author = op.by}
<1>1. CASE ~VisibleTo(c, op.note) \/ found = {} \/ (op.by # Author(c) /\ ~Owned(c, op.note))
  BY <1>1, Declined DEF DeleteReply
<1>2. CASE ~(~VisibleTo(c, op.note) \/ found = {} \/ (op.by # Author(c) /\ ~Owned(c, op.note)))
  <2>1. PICK reply \in found :
           /\ replies' = replies \ {reply}
           /\ Accept(c, op, op.note, notes[op.note].version)
           /\ UNCHANGED <<notes, likes, names>>
    BY <1>2 DEF DeleteReply
  <2>2. op.action = "reply.delete" /\ Len(receipts) < MaxReceipts
    BY DEF DeleteReply, Commits
  <2>3. /\ Seen(op) = NULL /\ op.action \in ContentActions
        /\ Stored(op.note) /\ op.note \in Nat /\ notes[op.note].version \in Nat
    BY <1>2, <2>2 DEF Seen, ContentActions, VisibleTo, Stored, ContentOK, Note
  <2>4. Keeps(Receipt(c, op, op.note, notes[op.note].version))
    BY <2>1, <2>2, <2>3, Accepted DEF Keeps
  <2>5. ContentOK'
    BY <2>1 DEF ContentOK
  <2> QED  BY <2>1, <2>2, <2>3, <2>4, <2>5, Accepted DEF Outcome
<1> QED  BY <1>1, <1>2

LEMMA LikeStep ==
  ASSUME NEW c, NEW op \in Requests, ContentOK, ServedOK(c), Like(c, op)
  PROVE  Outcome(c)
<1>1. PICK action \in {"note.like", "note.unlike"} :
         /\ Commits(c, op, action)
         /\ IF ~Stored(op.note) THEN Decline(c, "NOT_FOUND")
            ELSE IF notes[op.note].visibility # "public" THEN Decline(c, "OPERATION_NOT_ALLOWED")
            ELSE /\ likes' = IF action = "note.like" THEN likes \cup {<<op.note, Author(c)>>}
                                                     ELSE likes \ {<<op.note, Author(c)>>}
                 /\ Accept(c, op, op.note, notes[op.note].version)
                 /\ UNCHANGED <<notes, replies, names>>
  BY DEF Like
<1>2. CASE ~Stored(op.note) \/ notes[op.note].visibility # "public"
  BY <1>1, <1>2, Declined
<1>3. CASE Stored(op.note) /\ notes[op.note].visibility = "public"
  <2>1. /\ likes' \subseteq likes \cup {<<op.note, Author(c)>>}
        /\ Accept(c, op, op.note, notes[op.note].version)
        /\ UNCHANGED <<notes, replies, names>>
        /\ op.action \in {"note.like", "note.unlike"} /\ Len(receipts) < MaxReceipts
    BY <1>1, <1>3 DEF Commits
  <2>2. /\ Seen(op) = NULL /\ op.action \in ContentActions
        /\ op.note \in Nat /\ notes[op.note].version \in Nat
    BY <1>3, <2>1 DEF Seen, ContentActions, Stored, ContentOK, Note
  <2>3. Keeps(Receipt(c, op, op.note, notes[op.note].version))
    BY <1>3, <2>1, <2>2, Accepted DEF Keeps
  <2>4. Author(c) \in Subjects
    BY AuthorType DEF ServedOK
  <2>5. ContentOK'
    BY <2>1, <2>2, <2>4 DEF ContentOK
  <2> QED  BY <2>1, <2>2, <2>3, <2>5, Accepted DEF Outcome
<1> QED  BY <1>2, <1>3

\* Every request on the content is refused, with nothing changed, or leaves one
\* receipt and one of the four effects.
LEMMA ContentStep ==
  ASSUME NEW c, NEW op \in Requests, ContentOK, ServedOK(c), Content(c, op)
  PROVE  Outcome(c)
BY NameStep, CreateStep, EditStep, DeleteStep, ReplyStep, DeleteReplyStep, LikeStep
   DEF Content

-----------------------------------------------------------------------------
(* No change of a note is lost *)

\* The changes that were made to a note saw older versions than it has now, and
\* all notes of the receipts have been created, so no number comes back.
NotesOK ==
  /\ NothingIsLost
  /\ \A n \in DOMAIN notes : n < NextNote
  /\ \A i \in DOMAIN receipts \ Tokens :
       receipts[i].seen # NULL =>
         /\ receipts[i].note \in Nat /\ receipts[i].note < NextNote
         /\ receipts[i].seen \in Nat
         /\ Stored(receipts[i].note) => receipts[i].seen < notes[receipts[i].note].version

Changing(i) == i \in DOMAIN receipts \ Tokens /\ receipts[i].seen # NULL

LEMMA ChangesAreFinite ==
  ASSUME receipts \in Seq(Receipts), NEW n
  PROVE  IsFiniteSet(ChangesOf(n)) /\ Cardinality(ChangesOf(n)) \in Nat
<1>1. IsFiniteSet(DOMAIN receipts)
  BY FS_Interval, LenProperties
<1>2. ChangesOf(n) \subseteq DOMAIN receipts
  BY DEF ChangesOf
<1> QED  BY <1>1, <1>2, FS_Subset, FS_CardinalityType

\* A receipt that changes no note leaves the changes as they were.
LEMMA NoChangeWritten ==
  ASSUME receipts \in Seq(Receipts), NEW r \in Receipts, receipts' = Append(receipts, r),
         r.operation = "session.start" \/ r.seen = NULL
  PROVE  /\ \A i : Changing(i)' <=> Changing(i)
         /\ \A n : ChangesOf(n)' = ChangesOf(n)
<1>1. \A i : Changing(i)' <=> Changing(i)
  BY Written, TokensWritten DEF Changing
<1>2. \A i : Changing(i) => receipts'[i] = receipts[i]
  BY Written DEF Changing
<1> QED  BY <1>1, <1>2 DEF Changing, ChangesOf

\* A receipt that changes note n is one more change of n, and of no other note.
LEMMA ChangeWritten ==
  ASSUME receipts \in Seq(Receipts), NEW r \in Receipts, receipts' = Append(receipts, r),
         r.operation # "session.start", r.seen # NULL
  PROVE  /\ \A i : Changing(i)' <=> Changing(i) \/ i = Len(receipts) + 1
         /\ ~ Changing(Len(receipts) + 1)
         /\ Cardinality(ChangesOf(r.note)') = Cardinality(ChangesOf(r.note)) + 1
         /\ \A n : n # r.note => ChangesOf(n)' = ChangesOf(n)
<1> DEFINE new == Len(receipts) + 1
<1>1. \A i : Changing(i)' <=> Changing(i) \/ i = new
  <2>1. Tokens' = Tokens /\ new \notin Tokens
    BY Written, TokensWritten DEF Tokens
  <2>2. /\ DOMAIN receipts' = DOMAIN receipts \cup {new}
        /\ \A i \in DOMAIN receipts : receipts'[i] = receipts[i]
        /\ receipts'[new] = r
    BY Written
  <2> HIDE DEF new
  <2> QED  BY <2>1, <2>2 DEF Changing
<1>2. /\ \A i : Changing(i) => receipts'[i] = receipts[i]
      /\ receipts'[new] = r /\ ~ Changing(new)
  BY Written DEF Changing
<1>3. ChangesOf(r.note)' = ChangesOf(r.note) \cup {new} /\ new \notin ChangesOf(r.note)
  BY <1>1, <1>2 DEF Changing, ChangesOf
<1>4. \A n : n # r.note => ChangesOf(n)' = ChangesOf(n)
  BY <1>1, <1>2 DEF Changing, ChangesOf
<1>5. Cardinality(ChangesOf(r.note)') = Cardinality(ChangesOf(r.note)) + 1
  BY <1>3, ChangesAreFinite, FS_AddElement
<1> QED  BY <1>1, <1>2, <1>4, <1>5

\* NotesOK in four parts.
Apart ==
  \A i, j : Changing(i) /\ Changing(j) /\ i # j /\ receipts[i].note = receipts[j].note
              => receipts[i].seen # receipts[j].seen

Counted ==
  \A n \in DOMAIN notes : notes[n].version = 1 + Cardinality(ChangesOf(n)) /\ n < NextNote

Attached ==
  (\A reply \in replies : Stored(reply.note)) /\ (\A like \in likes : Stored(like[1]))

Past ==
  \A i : Changing(i) =>
    /\ receipts[i].note \in Nat /\ receipts[i].note < NextNote
    /\ receipts[i].seen \in Nat
    /\ Stored(receipts[i].note) => receipts[i].seen < notes[receipts[i].note].version

LEMMA NotesOKParts == NotesOK <=> Apart /\ Counted /\ Attached /\ Past
BY DEF NotesOK, NothingIsLost, Changing, Apart, Counted, Attached, Past

LEMMA NotesKeptUnchanged ==
  ASSUME receipts \in Seq(Receipts), ContentOK, NotesOK, NEW r \in Receipts,
         receipts' = Append(receipts, r), r.operation # "note.create",
         r.operation = "session.start" \/ r.seen = NULL, notes' = notes,
         \A reply \in replies' : reply \in replies \/ Stored(reply.note),
         \A like \in likes' : like \in likes \/ Stored(like[1])
  PROVE  NotesOK'
<1>1. Apart /\ Counted /\ Attached /\ Past
  BY NotesOKParts
<1>2. /\ \A i : Changing(i)' <=> Changing(i)
      /\ \A n : ChangesOf(n)' = ChangesOf(n)
      /\ \A i : Changing(i) => receipts'[i] = receipts[i]
      /\ NextNote' = NextNote
  BY NoChangeWritten, NextNoteWritten, Written DEF Changing
<1>3. Apart'
  BY ZenonT(40), <1>1, <1>2 DEF Apart
<1>4. Counted'
  BY <1>1, <1>2 DEF Counted
<1>5. Attached'
  BY <1>1 DEF Attached, Stored
<1>6. Past'
  BY <1>1, <1>2 DEF Past, Stored
<1> QED  BY <1>3, <1>4, <1>5, <1>6, NotesOKParts DEF NotesOK, NothingIsLost, Apart, Counted, Attached, Past, Changing

\* A step on the content loses no change.
LEMMA NotesKept ==
  ASSUME receipts \in Seq(Receipts), ContentOK, NotesOK, NEW c, NEW r, Accepts(c, r)
  PROVE  NotesOK'
<1>1. r \in Receipts /\ receipts' = Append(receipts, r) /\ r.operation # "session.start"
  BY DEF Accepts, Receipts, ContentReceipts, ContentActions
<1>2. NextNote \in Nat /\ NextNote' = IF r.operation = "note.create" THEN NextNote + 1 ELSE NextNote
  BY <1>1, NextNoteCounts, NextNoteWritten
<1>3. \A i : Changing(i) => receipts'[i] = receipts[i]
  BY <1>1, Written DEF Changing
<1>4. \A n \in DOMAIN notes : n \in Nat /\ notes[n].version \in Nat
  BY DEF ContentOK, Note
<1>5. Apart /\ Counted /\ Attached /\ Past
  BY NotesOKParts
<1>6. SUFFICES Apart' /\ Counted' /\ Attached' /\ Past'
  BY DEF NotesOK, NothingIsLost, Apart, Counted, Attached, Past, Changing
<1>7. CASE Keeps(r)
  <2>1. NotesOK'
    BY <1>1, <1>7, NotesKeptUnchanged DEF Keeps
  <2> QED  BY <2>1 DEF NotesOK, NothingIsLost, Apart, Counted, Attached, Past, Changing
<1>8. CASE Creates(r)
  <2>1. /\ \A i : Changing(i)' <=> Changing(i)
        /\ \A n : ChangesOf(n)' = ChangesOf(n)
    BY <1>1, <1>8, NoChangeWritten DEF Creates
  <2>2. NextNote' = NextNote + 1
    BY <1>2, <1>8 DEF Creates
  <2>3. NextNote \notin DOMAIN notes
    BY <1>2, <1>5 DEF Counted
  <2>4. /\ DOMAIN notes' = DOMAIN notes \cup {NextNote}
        /\ notes'[NextNote].version = 1
        /\ \A n \in DOMAIN notes : notes'[n] = notes[n]
    BY <1>8, <2>3 DEF Creates
  <2>5. ChangesOf(NextNote) = {}
    BY <1>2, <1>5 DEF Past, ChangesOf, Changing
  <2>6. Cardinality(ChangesOf(NextNote)) = 0
    BY <2>5, FS_EmptySet
  <2>7. Counted'
    <3> SUFFICES ASSUME NEW n \in DOMAIN notes'
                 PROVE  notes'[n].version = 1 + Cardinality(ChangesOf(n)) /\ n < NextNote + 1
      BY <2>1, <2>2 DEF Counted
    <3>1. CASE n = NextNote
      BY <1>2, <2>4, <2>6, <3>1
    <3>2. CASE n \in DOMAIN notes
      BY <1>2, <1>4, <1>5, <2>4, <3>2 DEF Counted
    <3> QED  BY <2>4, <3>1, <3>2
  <2>8. Apart'
    BY <1>3, <1>5, <2>1 DEF Apart
  <2>9. Attached'
    BY <1>5, <1>8, <2>4 DEF Attached, Stored, Creates
  <2>10. Past'
    <3> SUFFICES ASSUME NEW i, Changing(i)
                 PROVE  /\ receipts[i].note \in Nat /\ receipts[i].note < NextNote + 1
                        /\ receipts[i].seen \in Nat
                        /\ receipts[i].note \in DOMAIN notes'
                             => receipts[i].seen < notes'[receipts[i].note].version
      BY <1>3, <2>1, <2>2 DEF Past, Stored
    <3>1. /\ receipts[i].note \in Nat /\ receipts[i].note < NextNote
          /\ receipts[i].seen \in Nat
          /\ Stored(receipts[i].note) => receipts[i].seen < notes[receipts[i].note].version
      BY <1>5 DEF Past
    <3> QED  BY <1>2, <2>4, <3>1 DEF Stored
  <2> QED  BY <2>7, <2>8, <2>9, <2>10
<1>9. CASE Edits(r) \/ Deletes(r)
  <2> DEFINE m == r.note
             new == Len(receipts) + 1
  <2>1. /\ m \in DOMAIN notes /\ r.seen = notes[m].version
        /\ r.seen \in Nat /\ r.seen # NULL /\ m \in Nat /\ m < NextNote
        /\ NextNote' = NextNote
    BY ZenonT(40), <1>2, <1>4, <1>5, <1>9, RpAssumption DEF Edits, Deletes, Stored, Counted
  <2>2. /\ \A i : Changing(i)' <=> Changing(i) \/ i = new
        /\ ~ Changing(new)
        /\ Cardinality(ChangesOf(m)') = Cardinality(ChangesOf(m)) + 1
        /\ \A n : n # m => ChangesOf(n)' = ChangesOf(n)
    BY <1>1, <2>1, ChangeWritten
  <2>3. receipts'[new] = r
    BY <1>1, Written
  <2>4. \A i : Changing(i) /\ receipts[i].note = m => receipts[i].seen \in Nat /\ receipts[i].seen < r.seen
    BY <1>5, <2>1 DEF Past, Stored
  <2> HIDE DEF m, new
  <2>5. Apart'
    <3> SUFFICES ASSUME NEW i, NEW j, Changing(i)', Changing(j)', i # j,
                        receipts'[i].note = receipts'[j].note
                 PROVE  receipts'[i].seen # receipts'[j].seen
      BY DEF Apart
    <3>1. CASE Changing(i) /\ Changing(j)
      BY <1>3, <1>5, <3>1 DEF Apart
    <3>2. CASE Changing(i) /\ j = new
      BY <1>3, <2>1, <2>3, <2>4, <3>2 DEF m
    <3>3. CASE i = new /\ Changing(j)
      BY <1>3, <2>1, <2>3, <2>4, <3>3 DEF m
    <3> QED  BY <2>2, <3>1, <3>2, <3>3
  <2>6. \A n \in DOMAIN notes' : n \in DOMAIN notes /\ (n # m => notes'[n].version = notes[n].version)
    BY <1>9 DEF Edits, Deletes, m
  <2>7. m \in DOMAIN notes' => notes'[m].version = notes[m].version + 1
    BY <1>9 DEF Edits, Deletes, m
  <2>8. Counted'
    <3> SUFFICES ASSUME NEW n \in DOMAIN notes'
                 PROVE  notes'[n].version = 1 + Cardinality(ChangesOf(n)') /\ n < NextNote
      BY <2>1 DEF Counted
    <3>1. notes[n].version = 1 + Cardinality(ChangesOf(n)) /\ n < NextNote
      BY <1>5, <2>6 DEF Counted
    <3>2. CASE n = m
      BY <2>2, <2>7, <3>1, <3>2, ChangesAreFinite
    <3>3. CASE n # m
      BY <2>2, <2>6, <3>1, <3>3
    <3> QED  BY <3>2, <3>3
  <2>9. Attached'
    BY <1>5, <1>9 DEF Attached, Stored, Edits, Deletes
  <2>10. Past'
    <3> SUFFICES ASSUME NEW i, Changing(i)'
                 PROVE  /\ receipts'[i].note \in Nat /\ receipts'[i].note < NextNote
                        /\ receipts'[i].seen \in Nat
                        /\ receipts'[i].note \in DOMAIN notes'
                             => receipts'[i].seen < notes'[receipts'[i].note].version
      BY <2>1 DEF Past, Stored
    <3>1. CASE i = new
      BY <1>4, <2>1, <2>3, <2>7, <3>1 DEF m
    <3>2. CASE Changing(i)
      <4>1. /\ receipts[i].note \in Nat /\ receipts[i].note < NextNote
            /\ receipts[i].seen \in Nat
            /\ Stored(receipts[i].note) => receipts[i].seen < notes[receipts[i].note].version
        BY <1>5, <3>2 DEF Past
      <4>2. receipts'[i] = receipts[i]
        BY <1>3, <3>2
      <4> QED  BY <1>4, <2>6, <2>7, <4>1, <4>2 DEF Stored
    <3> QED  BY <2>2, <3>1, <3>2
  <2> QED  BY <2>5, <2>8, <2>9, <2>10
<1> QED  BY <1>7, <1>8, <1>9 DEF Accepts

-----------------------------------------------------------------------------
(* The inductive invariant *)

\* A request that is being served: a proof that was verified was made for this
\* service, a token that was looked up had been given out, and a late request
\* has a signer that stays in bad standing, so no answer lets it pass.
Sound(w) ==
  /\ w \in StartWork => w.audience = "notes"
  /\ w \in SessionWork => w.session \in Tokens
  /\ w.step = "ask" /\ w.stale => ~InGoodStanding(w.signer)
  /\ w.step = "commit" => ~w.stale

\* A token stands for a challenge that is consumed, or was deleted after it
\* expired, and no two for the same.
ChallengesOK ==
  /\ \A i \in Tokens :
       /\ receipts[i].challenge \in 1..Len(issued)
       /\ receipts[i].challenge \in DOMAIN challenges => challenges[receipts[i].challenge] # NULL
  /\ ChallengeStartsOneSession

\* A stored session has the expiry it started with and has not been ended, and
\* what was ended had been started.
SessionsOK ==
  /\ \A t \in DOMAIN sessions : sessions[t] = receipts[t].at + SessionTtl /\ ended[t] = NULL
  /\ \A t \in 1..MaxReceipts : ended[t] # NULL => t <= Len(receipts)
  /\ \A i \in DOMAIN receipts \ Tokens : receipts[i].session \in Tokens
  /\ EndedSessionsHaveNoEffect

IInv ==
  /\ TypeOK
  /\ \A c \in Clients : Sound(exchange[c])
  /\ ChallengesOK
  /\ SessionsOK
  /\ RevokedSignersHaveNoEffect
  /\ ChallengeStoreIsBounded
  /\ NotesOK

LEMMA InitInv == Init => IInv
<1> SUFFICES ASSUME Init PROVE IInv
  OBVIOUS
<1>1. /\ Tokens = {} /\ DOMAIN receipts = {} /\ Len(receipts) = 0
      /\ DOMAIN challenges = {} /\ DOMAIN sessions = {} /\ Len(issued) = 0
  BY DEF Init, Tokens
<1>2. ContentOK
  BY DEF Init, ContentOK, SeedNote, Note, Visibilities
<1>3. TypeOK
  BY <1>1, <1>2, RpAssumption DEF Init, TypeOK, StoreOK, Work
<1>4. \A c \in Clients : Sound(exchange[c])
  BY DEF Init, Sound, Idle, StartWork, SessionWork
<1>5. ChallengesOK
  BY <1>1 DEF ChallengesOK, ChallengeStartsOneSession
<1>6. SessionsOK
  BY <1>1 DEF Init, SessionsOK, EndedSessionsHaveNoEffect
<1>7. RevokedSignersHaveNoEffect
  BY <1>1 DEF RevokedSignersHaveNoEffect
<1>8. ChallengeStoreIsBounded
  BY <1>1, FS_EmptySet, RpAssumption DEF ChallengeStoreIsBounded
<1>9. NotesOK
  <2>1. NextNote \in Nat /\ NextNote >= 1
    BY NextNoteCounts DEF Init
  <2>2. ChangesOf(0) = {}
    BY <1>1 DEF ChangesOf
  <2>3. DOMAIN notes = {0} /\ notes[0].version = 1
    BY DEF Init, SeedNote
  <2>4. Counted
    BY <2>1, <2>2, <2>3, FS_EmptySet DEF Counted
  <2>5. Apart /\ Attached /\ Past
    BY <1>1 DEF Apart, Attached, Past, Changing, Init
  <2> QED  BY <2>4, <2>5, NotesOKParts
<1> QED  BY <1>3, <1>4, <1>5, <1>6, <1>7, <1>8, <1>9 DEF IInv

\* The request of a client by the step it is at.
LEMMA WorkKinds ==
  ASSUME exchange \in [Clients -> Work], NEW c \in Clients
  PROVE  /\ exchange[c].step = "idle" => exchange[c] = Idle
         /\ exchange[c].step = "issue" => exchange[c].at \in Nat
         /\ exchange[c].step \in {"ask", "commit"} => exchange[c] \in StartWork \cup SessionWork
         /\ exchange[c].step \in {"ask", "commit"} /\ exchange[c].kind = "start"
              => exchange[c] \in StartWork
         /\ exchange[c].step \in {"ask", "commit"} /\ exchange[c].kind = "operate"
              => exchange[c] \in SessionWork
BY DEF Work, Idle, StartWork, SessionWork

LEMMA SignerTypes ==
  ASSUME NEW i \in DOMAIN receipts, receipts \in Seq(Receipts)
  PROVE  receipts[i].signer \in Signers
BY LenProperties DEF Receipts, StartReceipts, ContentReceipts

-----------------------------------------------------------------------------
(* What the steps of the service do *)

\* A request that arrives, is refused or goes on changes nothing that is stored.
Handover(c) ==
  /\ UNCHANGED <<now, revoked, store>>
  /\ \E w \in Work : Sound(w) /\ exchange' = [exchange EXCEPT ![c] = w]

LEMMA IdleIsSound == Idle \in Work /\ Sound(Idle)
BY DEF Idle, Work, Sound, StartWork, SessionWork

LEMMA RefusalHandsOver ==
  ASSUME NEW c, NEW code, Refuse(c, code), UNCHANGED <<now, revoked>>
  PROVE  Handover(c)
BY IdleIsSound DEF Refuse, Handover

LEMMA IssueArrivesStep ==
  ASSUME TypeOK, NEW c \in Clients, IssueArrives(c)
  PROVE  Handover(c)
<1> DEFINE w == [step |-> "issue", at |-> now]
<1>1. w \in Work /\ Sound(w)
  BY DEF Work, Sound, StartWork, SessionWork, TypeOK
<1>2. exchange' = [exchange EXCEPT ![c] = w] /\ UNCHANGED <<now, revoked, store>>
  BY DEF IssueArrives
<1> HIDE DEF w
<1> QED  BY <1>1, <1>2 DEF Handover

LEMMA StartArrivesStep ==
  ASSUME TypeOK, NEW c \in Clients, StartArrives(c)
  PROVE  Handover(c)
<1>1. PICK id \in DOMAIN issued, nonce \in DOMAIN issued : \E p \in ProofsFor(nonce) :
         IF ~Usable(id) THEN Refuse(c, "CHALLENGE_EXPIRED")
         ELSE IF nonce # id THEN Refuse(c, "CHALLENGE_MISMATCH")
         ELSE IF VerifyProof(p) # "OK" THEN Refuse(c, VerifyProof(p))
         ELSE /\ exchange' = [exchange EXCEPT ![c] =
                   [step |-> "ask", kind |-> "start", challenge |-> id, signer |-> p.device,
                    audience |-> p.audience, stale |-> ~InGoodStanding(p.device)]]
              /\ UNCHANGED store
  BY DEF StartArrives
<1>2. PICK p \in ProofsFor(nonce) :
         \/ \E code : Refuse(c, code)
         \/ /\ VerifyProof(p) = "OK"
            /\ exchange' = [exchange EXCEPT ![c] =
                   [step |-> "ask", kind |-> "start", challenge |-> id, signer |-> p.device,
                    audience |-> p.audience, stale |-> ~InGoodStanding(p.device)]]
            /\ UNCHANGED store
  BY <1>1
<1>3. UNCHANGED <<now, revoked>>
  BY DEF StartArrives
<1>4. CASE \E code : Refuse(c, code)
  BY <1>3, <1>4, RefusalHandsOver
<1>5. CASE ~ \E code : Refuse(c, code)
  <2> DEFINE bad == ~InGoodStanding(p.device)
  <2> DEFINE w == [step |-> "ask", kind |-> "start", challenge |-> id, signer |-> p.device,
                   audience |-> p.audience, stale |-> bad]
  <2>1. exchange' = [exchange EXCEPT ![c] = w] /\ UNCHANGED store
    BY <1>2, <1>5
  <2>2. p.device \in Signers /\ p.audience = "notes" /\ id \in Nat
    <3>1. p.device \in Signers
      BY DEF ProofsFor
    <3>2. DOMAIN issued \subseteq Nat
      BY LenProperties DEF TypeOK, StoreOK
    <3> QED  BY <1>2, <1>5, <3>1, <3>2, VerifiedProof
  <2>3. bad \in BOOLEAN /\ (bad => ~InGoodStanding(p.device))
    OBVIOUS
  <2> HIDE DEF bad
  <2>4. w \in Work
    BY <2>2, <2>3 DEF StartWork, Work, Audiences
  <2>5. Sound(w)
    BY <2>2, <2>3 DEF Sound, SessionWork
  <2> HIDE DEF w
  <2> QED  BY <1>3, <2>1, <2>4, <2>5 DEF Handover
<1> QED  BY <1>4, <1>5

LEMMA OperationArrivesStep ==
  ASSUME TypeOK, NEW c \in Clients, OperationArrives(c)
  PROVE  Handover(c)
<1>1. PICK t \in Tokens :
         \/ Refuse(c, "SESSION_INVALID")
         \/ /\ exchange' = [exchange EXCEPT ![c] =
                   [step |-> "ask", kind |-> "operate", session |-> t,
                    signer |-> receipts[t].signer, stale |-> ~InGoodStanding(receipts[t].signer)]]
            /\ UNCHANGED store
  BY DEF OperationArrives
<1>2. UNCHANGED <<now, revoked>>
  BY DEF OperationArrives
<1>3. CASE Refuse(c, "SESSION_INVALID")
  BY <1>2, <1>3, RefusalHandsOver
<1>4. CASE ~Refuse(c, "SESSION_INVALID")
  <2> DEFINE signer == receipts[t].signer
             bad == ~InGoodStanding(receipts[t].signer)
  <2> DEFINE w == [step |-> "ask", kind |-> "operate", session |-> t,
                   signer |-> signer, stale |-> bad]
  <2>1. exchange' = [exchange EXCEPT ![c] = w] /\ UNCHANGED store
    BY <1>1, <1>4
  <2>2. t \in Nat /\ signer \in Signers
    BY SignerTypes, LenProperties DEF Tokens, TypeOK, StoreOK
  <2>3. bad \in BOOLEAN /\ (bad => ~InGoodStanding(signer))
    OBVIOUS
  <2> HIDE DEF bad, signer
  <2>4. w \in Work
    BY <2>2, <2>3 DEF SessionWork, Work
  <2>5. Sound(w)
    BY <2>2, <2>3 DEF Sound, StartWork
  <2> HIDE DEF w
  <2> QED  BY <1>2, <2>1, <2>4, <2>5 DEF Handover
<1> QED  BY <1>3, <1>4

\* A request goes on only while its signer is in good standing, so a late one
\* does not.
LEMMA AskStep ==
  ASSUME IInv, NEW c \in Clients, Ask(c)
  PROVE  Handover(c)
<1>1. UNCHANGED <<now, revoked>> /\ exchange[c].step = "ask"
  BY DEF Ask
<1>2. CASE \E code : Refuse(c, code)
  BY <1>1, <1>2, RefusalHandsOver
<1>3. CASE ~ \E code : Refuse(c, code)
  <2> DEFINE w == [exchange[c] EXCEPT !.step = "commit"]
  <2>1. /\ InGoodStanding(exchange[c].signer)
        /\ exchange' = [exchange EXCEPT ![c].step = "commit"]
        /\ UNCHANGED store
    BY <1>3 DEF Ask
  <2>2. exchange[c] \in StartWork \cup SessionWork
    BY <1>1, WorkKinds DEF IInv, TypeOK
  <2>3. Sound(exchange[c])
    BY DEF IInv
  <2>4. w \in Work
    BY <2>2 DEF Work, StartWork, SessionWork
  <2>5. Sound(w)
    <3>1. ~exchange[c].stale
      BY <1>1, <2>1, <2>3 DEF Sound
    <3>2. /\ w.stale = exchange[c].stale /\ w.step = "commit"
          /\ exchange[c] \in StartWork => w.audience = exchange[c].audience
          /\ exchange[c] \in SessionWork => w.session = exchange[c].session
          /\ w \in StartWork => exchange[c] \in StartWork
          /\ w \in SessionWork => exchange[c] \in SessionWork
      BY <2>2 DEF StartWork, SessionWork
    <3> HIDE DEF w
    <3> QED  BY <2>3, <3>1, <3>2 DEF Sound
  <2>6. exchange' = [exchange EXCEPT ![c] = w]
    BY <2>1 DEF IInv, TypeOK
  <2> HIDE DEF w
  <2> QED  BY <1>1, <2>1, <2>4, <2>5, <2>6 DEF Handover
<1> QED  BY <1>2, <1>3

\* A new challenge, after those that had expired were deleted.
Issued ==
  /\ UNCHANGED <<now, revoked, sessions, receipts, notes, replies, likes, names, ended>>
  /\ \E at \in Nat : issued' = Append(issued, at)
  /\ \E kept \in SUBSET DOMAIN challenges :
       /\ DOMAIN challenges' = kept \cup {Len(issued) + 1}
       /\ challenges' \in [DOMAIN challenges' -> Nat \cup {NULL}]
       /\ challenges'[Len(issued) + 1] = NULL
       /\ \A id \in kept : challenges'[id] = challenges[id]
       /\ ~(Cardinality(kept) >= MaxTotal)
       /\ ~(Cardinality({id \in kept : challenges[id] = NULL}) >= MaxOutstanding)

LEMMA IssueStep ==
  ASSUME TypeOK, NEW c \in Clients, Issue(c)
  PROVE  Handover(c) \/ (Issued /\ exchange' = [exchange EXCEPT ![c] = Idle])
<1> DEFINE at == exchange[c].at
           kept == {id \in DOMAIN challenges : issued[id] > at}
           stored == Restrict(challenges, kept)
           new == Len(issued) + 1
<1>1. UNCHANGED <<now, revoked>> /\ exchange[c].step = "issue"
  BY DEF Issue
<1>2. CASE AtCapacity(stored)
  BY <1>1, <1>2, RefusalHandsOver DEF Issue
<1>3. CASE ~AtCapacity(stored)
  <2>1. /\ issued' = Append(issued, at + ChallengeTtl)
        /\ challenges' = [k \in DOMAIN stored \cup {new} |-> IF k = new THEN NULL ELSE stored[k]]
        /\ exchange' = [exchange EXCEPT ![c] = Idle]
        /\ UNCHANGED <<sessions, receipts, notes, replies, likes, names, ended>>
    BY <1>3 DEF Issue
  <2>2. at \in Nat
    BY <1>1, WorkKinds DEF TypeOK
  <2>3. DOMAIN stored = kept /\ \A id \in kept : stored[id] = challenges[id]
    BY DEF Restrict
  <2>4. /\ ~(Cardinality(kept) >= MaxTotal)
        /\ ~(Cardinality({id \in kept : challenges[id] = NULL}) >= MaxOutstanding)
    <3>1. {id \in kept : stored[id] = NULL} = {id \in kept : challenges[id] = NULL}
      BY <2>3
    <3> HIDE DEF stored, kept
    <3> QED  BY <1>3, <2>3, <3>1 DEF AtCapacity
  <2>5. kept \in SUBSET DOMAIN challenges /\ kept \subseteq 1..Len(issued)
    BY DEF TypeOK, StoreOK
  <2>6. \A id \in kept : challenges[id] \in Nat \cup {NULL}
    BY <2>5 DEF TypeOK, StoreOK
  <2>7. at + ChallengeTtl \in Nat
    BY <2>2, RpAssumption
  <2>8. new \notin kept
    BY <2>5, LenProperties DEF TypeOK, StoreOK
  <2> HIDE DEF at, kept, stored, new
  <2>9. /\ DOMAIN challenges' = kept \cup {new}
        /\ challenges'[new] = NULL
        /\ \A id \in kept : challenges'[id] = challenges[id]
        /\ challenges' \in [DOMAIN challenges' -> Nat \cup {NULL}]
    BY <2>1, <2>3, <2>6, <2>8
  <2>10. Issued
    BY <1>1, <2>1, <2>4, <2>5, <2>7, <2>9 DEF Issued, new
  <2> QED  BY <2>1, <2>10
<1> QED  BY <1>2, <1>3

\* The challenge is consumed, the session and its receipt are written, and the
\* sessions that had expired are deleted.
Started(c) ==
  LET x == exchange[c]
      t == Len(receipts) + 1 IN
  /\ x \in StartWork /\ ~x.stale /\ x.audience = "notes"
  /\ x.challenge \in DOMAIN challenges /\ challenges[x.challenge] = NULL
  /\ Len(receipts) < MaxReceipts
  /\ UNCHANGED <<now, revoked, issued, notes, replies, likes, names, ended>>
  /\ challenges' = [challenges EXCEPT ![x.challenge] = now]
  /\ \E r \in StartReceipts :
       /\ receipts' = Append(receipts, r)
       /\ r.challenge = x.challenge /\ r.audience = "notes" /\ r.at = now /\ ~r.stale
  /\ DOMAIN sessions' \subseteq DOMAIN sessions \cup {t}
  /\ \A k \in DOMAIN sessions' \ {t} : sessions'[k] = sessions[k]
  /\ t \in DOMAIN sessions' => sessions'[t] = now + SessionTtl
  /\ sessions' \in [DOMAIN sessions' -> Nat]

LEMMA StartStep ==
  ASSUME IInv, NEW c \in Clients, Start(c)
  PROVE  Handover(c) \/ (Started(c) /\ exchange' = [exchange EXCEPT ![c] = Idle])
<1> DEFINE x == exchange[c]
           t == Len(receipts) + 1
<1>1. /\ UNCHANGED <<now, revoked>>
      /\ x.step = "commit" /\ x.kind = "start" /\ Len(receipts) < MaxReceipts
  BY DEF Start
<1>2. CASE ~Usable(x.challenge)
  BY <1>1, <1>2, RefusalHandsOver DEF Start
<1>3. CASE Usable(x.challenge)
  <2> DEFINE r == [operation |-> "session.start", signer |-> x.signer,
                   challenge |-> x.challenge, audience |-> x.audience,
                   session |-> t, at |-> now, stale |-> x.stale]
             kept == {k \in DOMAIN sessions : sessions[k] > now}
  <2>1. /\ challenges' = [challenges EXCEPT ![x.challenge] = now]
        /\ receipts' = Append(receipts, r)
        /\ sessions' = [k \in kept \cup {t} |-> IF k = t THEN now + SessionTtl ELSE sessions[k]]
        /\ exchange' = [exchange EXCEPT ![c] = Idle]
        /\ UNCHANGED <<issued, notes, replies, likes, names, ended>>
    BY <1>3 DEF Start, WriteReceipt
  <2>2. x \in StartWork
    BY <1>1, WorkKinds DEF IInv, TypeOK
  <2>3. ~x.stale /\ x.audience = "notes"
    BY <1>1, <2>2 DEF IInv, Sound
  <2>4. t \in Nat /\ now \in Nat
    BY LenProperties DEF IInv, TypeOK, StoreOK
  <2>5. /\ x.signer \in Signers /\ x.challenge \in Nat /\ x.audience \in Audiences
        /\ x.stale \in BOOLEAN
    BY <2>2 DEF StartWork
  <2>6. r \in StartReceipts
    BY <2>4, <2>5 DEF StartReceipts
  <2>7. r.challenge = x.challenge /\ r.audience = "notes" /\ r.at = now /\ ~r.stale
    BY <2>3
  <2>8. \A k \in DOMAIN sessions : sessions[k] \in Nat
    BY DEF IInv, TypeOK, StoreOK
  <2>9. /\ DOMAIN sessions' \subseteq DOMAIN sessions \cup {t}
        /\ \A k \in DOMAIN sessions' \ {t} : sessions'[k] = sessions[k]
        /\ t \in DOMAIN sessions' => sessions'[t] = now + SessionTtl
        /\ sessions' \in [DOMAIN sessions' -> Nat]
    <3> HIDE DEF t
    <3> QED  BY <2>1, <2>4, <2>8, RpAssumption
  <2>10. x.challenge \in DOMAIN challenges /\ challenges[x.challenge] = NULL
    BY <1>3 DEF Usable
  <2> HIDE DEF r, kept
  <2>11. Started(c)
    BY <1>1, <2>1, <2>2, <2>3, <2>6, <2>7, <2>9, <2>10 DEF Started
  <2> QED  BY <2>1, <2>11
<1> QED  BY <1>2, <1>3

\* A request of a session that is still there is carried out, or changes nothing.
Served(c) ==
  /\ SessionStored(exchange[c].session)
  /\ exchange[c].session \in Tokens /\ ~exchange[c].stale
  /\ Finishes(c) /\ ContentOK'
  /\ \E r : Accepts(c, r)

LEMMA OperateStep ==
  ASSUME IInv, NEW c \in Clients, NEW op \in Requests, Operate(c, op)
  PROVE  Handover(c) \/ Served(c)
<1>1. /\ exchange[c].step = "commit" /\ exchange[c].kind = "operate"
      /\ SessionStored(exchange[c].session) /\ Content(c, op)
  BY DEF Operate, AtCommit
<1>2. exchange[c] \in SessionWork
  BY <1>1, WorkKinds DEF IInv, TypeOK
<1>3. exchange[c].session \in Tokens /\ ~exchange[c].stale
  BY <1>1, <1>2 DEF IInv, Sound
<1>4. ServedOK(c) /\ ContentOK
  <2>1. exchange[c].signer \in Signers /\ exchange[c].session \in Nat
        /\ exchange[c].stale \in BOOLEAN
    BY <1>2 DEF SessionWork
  <2> QED  BY <2>1 DEF ServedOK, IInv, TypeOK, StoreOK
<1>5. Outcome(c)
  BY <1>1, <1>4, ContentStep
<1>6. CASE UNCHANGED store
  BY <1>5, <1>6, IdleIsSound DEF Outcome, Finishes, Handover
<1>7. CASE \E r : Accepts(c, r)
  BY <1>1, <1>3, <1>5, <1>7 DEF Outcome, Served
<1> QED  BY <1>5, <1>6, <1>7 DEF Outcome

\* What a step of the system may be.
Step ==
  \/ (Tick \/ Revoke)
  \/ \E c \in Clients :
       \/ Handover(c)
       \/ Issued /\ exchange' = [exchange EXCEPT ![c] = Idle]
       \/ Started(c) /\ exchange' = [exchange EXCEPT ![c] = Idle]
       \/ Served(c)
       \/ EndSession(c)

LEMMA NextStep ==
  ASSUME IInv, Next
  PROVE  Step
<1> SUFFICES ASSUME NEW c \in Clients,
                    \/ IssueArrives(c) \/ Issue(c)
                    \/ StartArrives(c) \/ Start(c)
                    \/ OperationArrives(c) \/ Ask(c) \/ SessionIsGone(c)
                    \/ \E op \in Requests : Operate(c, op)
             PROVE  Step
  BY DEF Next, Step
<1>1. TypeOK
  BY DEF IInv
<1>2. SessionIsGone(c) => Handover(c)
  BY RefusalHandsOver DEF SessionIsGone
<1> QED
  BY <1>1, <1>2, IssueArrivesStep, IssueStep, StartArrivesStep, StartStep,
     OperationArrivesStep, AskStep, OperateStep DEF Step

-----------------------------------------------------------------------------
(* Every step preserves the invariant *)

LEMMA NothingStored ==
  ASSUME UNCHANGED <<now, revoked, store>>
  PROVE  /\ UNCHANGED <<now, revoked, issued, challenges, sessions, receipts, notes, replies>>
         /\ UNCHANGED <<likes, names, ended>>
         /\ Tokens' = Tokens
BY DEF store, Tokens

LEMMA WorldSteps ==
  ASSUME Tick \/ Revoke
  PROVE  /\ UNCHANGED <<issued, challenges, sessions, receipts, notes, replies, likes>>
         /\ UNCHANGED <<names, ended, exchange>>
         /\ Tokens' = Tokens
BY DEF Tick, Revoke, store, Tokens

\* The receipt that a step writes, if it does.
LEMMA OneReceipt ==
  ASSUME IInv, Step
  PROVE  UNCHANGED receipts
         \/ \E r \in Receipts : receipts' = Append(receipts, r) /\ Len(receipts) < MaxReceipts
<1>1. CASE Tick \/ Revoke
  BY <1>1, WorldSteps
<1>2. ASSUME NEW c \in Clients, Handover(c)
      PROVE  UNCHANGED receipts
  BY <1>2, NothingStored DEF Handover
<1>3. CASE Issued
  BY <1>3 DEF Issued
<1>4. ASSUME NEW c \in Clients, Started(c)
      PROVE  \E r \in Receipts : receipts' = Append(receipts, r) /\ Len(receipts) < MaxReceipts
  BY <1>4 DEF Started, Receipts
<1>5. ASSUME NEW c \in Clients, Served(c)
      PROVE  \E r \in Receipts : receipts' = Append(receipts, r) /\ Len(receipts) < MaxReceipts
  BY <1>5 DEF Served, Accepts, Receipts
<1>6. ASSUME NEW c \in Clients, EndSession(c)
      PROVE  UNCHANGED receipts
  BY <1>6 DEF EndSession
<1> QED  BY <1>1, <1>2, <1>3, <1>4, <1>5, <1>6 DEF Step

\* Time goes on, revocations stand, and receipts stay.
LEMMA Later ==
  ASSUME IInv, Step
  PROVE  /\ now' \in Nat /\ now <= now'
         /\ revoked \subseteq revoked' /\ revoked' \subseteq Subjects \cup Devices
         /\ Tokens \subseteq Tokens'
         /\ receipts' \in Seq(Receipts) /\ Len(receipts') <= MaxReceipts
         /\ Len(receipts) <= Len(receipts')
         /\ \A i \in DOMAIN receipts : i \in DOMAIN receipts' /\ receipts'[i] = receipts[i]
<1>1. /\ now \in Nat /\ revoked \subseteq Subjects \cup Devices
      /\ receipts \in Seq(Receipts) /\ Len(receipts) <= MaxReceipts
  BY DEF IInv, TypeOK, StoreOK
<1>2. /\ now' \in Nat /\ now <= now'
      /\ revoked \subseteq revoked' /\ revoked' \subseteq Subjects \cup Devices
  <2>1. CASE Tick
    BY <1>1, <2>1 DEF Tick
  <2>2. CASE Revoke
    BY <1>1, <2>2 DEF Revoke
  <2>3. CASE ~Tick /\ ~Revoke
    <3>1. UNCHANGED <<now, revoked>>
      BY <2>3 DEF Step, Handover, Issued, Started, Served, Finishes, EndSession
    <3> QED  BY <1>1, <3>1
  <2> QED  BY <2>1, <2>2, <2>3
<1>3. CASE UNCHANGED receipts
  BY <1>1, <1>2, <1>3, LenProperties DEF Tokens
<1>4. CASE \E r \in Receipts : receipts' = Append(receipts, r) /\ Len(receipts) < MaxReceipts
  <2>1. PICK r \in Receipts : receipts' = Append(receipts, r) /\ Len(receipts) < MaxReceipts
    BY <1>4
  <2>2. MaxReceipts \in Nat
    BY RpAssumption
  <2> QED  BY <1>1, <1>2, <2>1, <2>2, Written, TokensWritten
<1> QED  BY <1>3, <1>4, OneReceipt

\* Who is in bad standing stays so.
LEMMA StandingPersists ==
  ASSUME IInv, Step, NEW s, InGoodStanding(s)'
  PROVE  InGoodStanding(s)
<1>1. now \in Nat /\ now' \in Nat /\ now <= now' /\ revoked \subseteq revoked'
  BY Later DEF IInv, TypeOK
<1>2. GrantExpiresAt \in Nat
  BY RpAssumption
<1> QED  BY <1>1, <1>2 DEF InGoodStanding, DeviceIsActive, IdentityIsActive

LEMMA SoundPersists ==
  ASSUME IInv, Step, NEW w, Sound(w)
  PROVE  Sound(w)'
<1>1. Tokens \subseteq Tokens'
  BY Later
<1>2. InGoodStanding(w.signer)' => InGoodStanding(w.signer)
  BY StandingPersists
<1> QED  BY <1>1, <1>2 DEF Sound

\* The entry of exchange that a step changes.
LEMMA OneRequest ==
  ASSUME IInv, Step
  PROVE  \/ UNCHANGED exchange
         \/ \E c \in Clients, w \in Work : Sound(w) /\ exchange' = [exchange EXCEPT ![c] = w]
<1>1. CASE Tick \/ Revoke
  BY <1>1, WorldSteps
<1>2. CASE ~(Tick \/ Revoke)
  BY <1>2, IdleIsSound DEF Step, Handover, Served, Finishes, EndSession
<1> QED  BY <1>1, <1>2

LEMMA RequestsStep ==
  ASSUME IInv, Step
  PROVE  exchange' \in [Clients -> Work] /\ \A c \in Clients : Sound(exchange[c])'
<1>1. exchange \in [Clients -> Work] /\ \A c \in Clients : Sound(exchange[c])
  BY DEF IInv, TypeOK
<1>2. exchange' \in [Clients -> Work] /\ \A c \in Clients : Sound(exchange'[c])
  BY <1>1, OneRequest
<1>3. \A w : Sound(w) => Sound(w)'
  BY SoundPersists
<1> QED  BY <1>2, <1>3

LEMMA SessionEndedOK ==
  ASSUME StoreOK, NEW c, EndSession(c)
  PROVE  StoreOK'
<1>1. PICK t \in Tokens :
         /\ sessions' = Restrict(sessions, DOMAIN sessions \ {t})
         /\ ended' = [ended EXCEPT ![t] = IF @ = NULL THEN Len(receipts) ELSE @]
  BY DEF EndSession
<1>2. UNCHANGED <<issued, challenges, receipts, notes, replies, likes, names>>
  BY DEF EndSession
<1>3. Len(receipts) \in Nat /\ Tokens' = Tokens
  BY <1>2, LenProperties DEF StoreOK, Tokens
<1>4. sessions' \in [DOMAIN sessions' -> Nat] /\ DOMAIN sessions' \subseteq Tokens
  BY <1>1 DEF Restrict, StoreOK
<1>5. ended' \in [1..MaxReceipts -> Nat \cup {NULL}]
  BY <1>1, <1>3 DEF StoreOK
<1> QED  BY <1>2, <1>3, <1>4, <1>5 DEF StoreOK, ContentOK

LEMMA StoreStep ==
  ASSUME IInv, Step
  PROVE  StoreOK'
<1>1. StoreOK /\ TypeOK
  BY DEF IInv, TypeOK
<1>2. /\ receipts' \in Seq(Receipts) /\ Len(receipts') <= MaxReceipts
      /\ Tokens \subseteq Tokens'
  BY Later
<1>3. CASE Tick \/ Revoke
  BY <1>1, <1>3, WorldSteps DEF StoreOK, ContentOK
<1>4. ASSUME NEW c \in Clients, Handover(c)
      PROVE  StoreOK'
  BY <1>1, <1>4, NothingStored DEF StoreOK, ContentOK, Handover
<1>5. CASE Issued
  <2>1. UNCHANGED <<sessions, receipts, notes, replies, likes, names, ended>>
    BY <1>5 DEF Issued
  <2>2. Tokens' = Tokens
    BY <2>1 DEF Tokens
  <2>3. PICK at \in Nat : issued' = Append(issued, at)
    BY <1>5 DEF Issued
  <2>4. issued \in Seq(Nat) /\ Len(issued) \in Nat
    BY <1>1, LenProperties DEF StoreOK
  <2>5. issued' \in Seq(Nat) /\ Len(issued') = Len(issued) + 1
    BY <2>3, <2>4, AppendProperties
  <2>6. DOMAIN challenges' \subseteq 1..Len(issued')
    BY <1>1, <1>5, <2>4, <2>5 DEF Issued, StoreOK
  <2>7. challenges' \in [DOMAIN challenges' -> Nat \cup {NULL}]
    BY <1>5 DEF Issued
  <2> QED  BY <1>1, <2>1, <2>2, <2>5, <2>6, <2>7 DEF StoreOK, ContentOK
<1>6. ASSUME NEW c \in Clients, Started(c)
      PROVE  StoreOK'
  <2>1. UNCHANGED <<issued, notes, replies, likes, names, ended>>
    BY <1>6 DEF Started
  <2>2. PICK r \in StartReceipts : receipts' = Append(receipts, r)
    BY <1>6 DEF Started
  <2>3. Tokens' = Tokens \cup {Len(receipts) + 1}
    BY <1>1, <2>2, TokensWritten DEF StoreOK, StartReceipts, Receipts
  <2>4. /\ DOMAIN sessions' \subseteq Tokens' /\ sessions' \in [DOMAIN sessions' -> Nat]
    BY <1>1, <1>6, <2>3 DEF Started, StoreOK
  <2>5. /\ challenges' \in [DOMAIN challenges' -> Nat \cup {NULL}]
        /\ DOMAIN challenges' = DOMAIN challenges
    BY <1>1, <1>6 DEF Started, StoreOK, TypeOK
  <2> QED  BY <1>1, <1>2, <2>1, <2>4, <2>5 DEF StoreOK, ContentOK
<1>7. ASSUME NEW c \in Clients, Served(c)
      PROVE  StoreOK'
  <2>1. UNCHANGED <<issued, challenges, sessions, ended>> /\ ContentOK'
    BY <1>7 DEF Served, Finishes
  <2> QED  BY <1>1, <1>2, <2>1 DEF StoreOK
<1>8. ASSUME NEW c \in Clients, EndSession(c)
      PROVE  StoreOK'
  BY <1>1, <1>8, SessionEndedOK
<1> QED  BY <1>3, <1>4, <1>5, <1>6, <1>7, <1>8 DEF Step

LEMMA TypeStep ==
  ASSUME IInv, Step
  PROVE  TypeOK'
BY Later, StoreStep, RequestsStep DEF TypeOK

\* A challenge that is consumed is not offered again: it is consumed still or it
\* is gone, and a new one has a new number.
LEMMA ChallengesStep ==
  ASSUME IInv, Step
  PROVE  ChallengesOK'
<1>1. ChallengesOK /\ StoreOK /\ receipts \in Seq(Receipts)
  BY DEF IInv, TypeOK, StoreOK
<1>2. ASSUME UNCHANGED <<issued, challenges, receipts>>
      PROVE  ChallengesOK'
  BY <1>1, <1>2 DEF ChallengesOK, ChallengeStartsOneSession, Tokens
<1>3. CASE Tick \/ Revoke
  BY <1>2, <1>3, WorldSteps
<1>4. ASSUME NEW c \in Clients, Handover(c) \/ EndSession(c)
      PROVE  ChallengesOK'
  BY <1>2, <1>4, NothingStored DEF Handover, EndSession
<1>5. CASE Issued
  <2>1. Tokens' = Tokens /\ receipts' = receipts
    BY <1>5 DEF Issued, Tokens
  <2>2. Len(issued) \in Nat /\ Len(issued') = Len(issued) + 1
    BY <1>1, <1>5, LenProperties, AppendProperties DEF Issued, StoreOK
  <2>3. \A id \in DOMAIN challenges' :
           id \in 1..Len(issued) => id \in DOMAIN challenges /\ challenges'[id] = challenges[id]
    BY <1>5, <2>2 DEF Issued
  <2> QED  BY <1>1, <2>1, <2>2, <2>3 DEF ChallengesOK, ChallengeStartsOneSession
<1>6. ASSUME NEW c \in Clients, Started(c)
      PROVE  ChallengesOK'
  <2> DEFINE new == Len(receipts) + 1
             id == exchange[c].challenge
  <2>1. PICK r \in StartReceipts :
           receipts' = Append(receipts, r) /\ r.challenge = id /\ r.audience = "notes"
    BY <1>6 DEF Started
  <2>2. r \in Receipts /\ r.operation = "session.start"
    BY DEF Receipts, StartReceipts
  <2>3. /\ Tokens' = Tokens \cup {new} /\ new \notin Tokens
        /\ \A i \in Tokens : receipts'[i] = receipts[i]
        /\ receipts'[new] = r
    BY <1>1, <2>1, <2>2, Written, TokensWritten DEF Tokens
  <2>4. id \in DOMAIN challenges /\ challenges[id] = NULL /\ issued' = issued
    BY <1>6 DEF Started
  <2>5. now \in Nat /\ now # NULL
    BY RpAssumption DEF IInv, TypeOK
  <2>6. challenges' = [challenges EXCEPT ![id] = now]
    BY <1>6 DEF Started
  <2>7. id \in 1..Len(issued)
    BY <1>1, <2>4 DEF StoreOK
  <2>8. \A i \in Tokens : receipts[i].challenge # id
    BY <1>1, <2>4 DEF ChallengesOK
  <2>9. /\ DOMAIN challenges' = DOMAIN challenges /\ challenges'[id] = now
        /\ \A k \in DOMAIN challenges : k # id => challenges'[k] = challenges[k]
    BY <1>1, <2>4, <2>6 DEF StoreOK
  <2> HIDE DEF new, id
  <2>10. \A i \in Tokens' :
           /\ receipts'[i].challenge \in 1..Len(issued')
           /\ receipts'[i].challenge \in DOMAIN challenges'
                => challenges'[receipts'[i].challenge] # NULL
    <3> SUFFICES ASSUME NEW i \in Tokens'
                 PROVE  /\ receipts'[i].challenge \in 1..Len(issued)
                        /\ receipts'[i].challenge \in DOMAIN challenges
                             => challenges'[receipts'[i].challenge] # NULL
      BY <2>4, <2>9
    <3>1. CASE i = new
      BY <2>1, <2>3, <2>5, <2>7, <2>9, <3>1
    <3>2. CASE i \in Tokens
      BY <1>1, <2>3, <2>8, <2>9, <3>2 DEF ChallengesOK
    <3> QED  BY <2>3, <3>1, <3>2
  <2>11. ChallengeStartsOneSession'
    <3>1. receipts'[new].audience = "notes" /\ receipts'[new].challenge = id
      BY <2>1, <2>3
    <3>2. \A i, j \in Tokens :
             /\ receipts'[i].audience = "notes"
             /\ receipts'[i].challenge = receipts'[j].challenge => i = j
      BY <1>1, <2>3 DEF ChallengesOK, ChallengeStartsOneSession
    <3>3. \A i \in Tokens : receipts'[i].challenge # id
      BY <2>3, <2>8
    <3> QED  BY <2>3, <3>1, <3>2, <3>3 DEF ChallengeStartsOneSession
  <2> QED  BY <2>10, <2>11 DEF ChallengesOK
<1>7. ASSUME NEW c \in Clients, Served(c)
      PROVE  ChallengesOK'
  <2>1. PICK r : r \in ContentReceipts /\ receipts' = Append(receipts, r)
    BY <1>7 DEF Served, Accepts
  <2>2. r \in Receipts /\ r.operation # "session.start"
    BY <2>1 DEF Receipts, ContentReceipts, ContentActions
  <2>3. Tokens' = Tokens /\ \A i \in Tokens : receipts'[i] = receipts[i]
    BY <1>1, <2>1, <2>2, Written, TokensWritten DEF Tokens
  <2>4. UNCHANGED <<issued, challenges>>
    BY <1>7 DEF Served, Finishes
  <2> QED  BY <1>1, <2>3, <2>4 DEF ChallengesOK, ChallengeStartsOneSession
<1> QED  BY <1>3, <1>4, <1>5, <1>6, <1>7 DEF Step

\* The transaction reads the session again, so what it writes is before the
\* expiry and before the end of the session.
LEMMA SessionsStep ==
  ASSUME IInv, Step
  PROVE  SessionsOK'
<1>1. SessionsOK /\ StoreOK /\ receipts \in Seq(Receipts) /\ now \in Nat
  BY DEF IInv, TypeOK, StoreOK
<1>2. ASSUME UNCHANGED <<sessions, receipts, ended>>
      PROVE  SessionsOK'
  BY <1>1, <1>2 DEF SessionsOK, EndedSessionsHaveNoEffect, Tokens
<1>3. CASE Tick \/ Revoke
  BY <1>2, <1>3, WorldSteps
<1>4. ASSUME NEW c \in Clients, Handover(c) \/ Issued
      PROVE  SessionsOK'
  BY <1>2, <1>4, NothingStored DEF Handover, Issued
<1>5. DOMAIN sessions \subseteq Tokens /\ Tokens \subseteq DOMAIN receipts
      /\ ended \in [1..MaxReceipts -> Nat \cup {NULL}]
      /\ DOMAIN receipts = 1..Len(receipts) /\ Len(receipts) \in Nat
      /\ Len(receipts) <= MaxReceipts /\ MaxReceipts \in Nat
      /\ \A t \in DOMAIN sessions : sessions[t] \in Nat
  BY <1>1, RpAssumption, LenProperties DEF StoreOK, Tokens
<1>6. ASSUME NEW c \in Clients, Started(c)
      PROVE  SessionsOK'
  <2> DEFINE new == Len(receipts) + 1
  <2>1. PICK r \in StartReceipts : receipts' = Append(receipts, r) /\ r.at = now
    BY <1>6 DEF Started
  <2>2. r \in Receipts /\ r.operation = "session.start"
    BY DEF Receipts, StartReceipts
  <2>3. /\ Tokens' = Tokens \cup {new} /\ new \notin DOMAIN receipts
        /\ \A i \in DOMAIN receipts : receipts'[i] = receipts[i]
        /\ receipts'[new] = r /\ DOMAIN receipts' = DOMAIN receipts \cup {new}
        /\ Len(receipts') = new
    BY <1>1, <2>1, <2>2, Written, TokensWritten
  <2>4. ended' = ended /\ new \in 1..MaxReceipts
    BY <1>5, <1>6 DEF Started
  <2>5. /\ DOMAIN sessions' \subseteq DOMAIN sessions \cup {new}
        /\ \A k \in DOMAIN sessions' \ {new} : sessions'[k] = sessions[k]
        /\ new \in DOMAIN sessions' => sessions'[new] = now + SessionTtl
    BY <1>6 DEF Started
  <2>6. ended[new] = NULL
    BY <1>1, <1>5, <2>4 DEF SessionsOK
  <2>7. new \notin DOMAIN sessions /\ new \notin Tokens
    BY <1>5, <2>3
  <2>8. \A t \in 1..MaxReceipts : ended'[t] # NULL => t <= Len(receipts')
    BY <1>1, <1>5, <2>3, <2>4 DEF SessionsOK
  <2> HIDE DEF new
  <2>9. \A t \in DOMAIN sessions' : sessions'[t] = receipts'[t].at + SessionTtl /\ ended'[t] = NULL
    BY <1>1, <1>5, <2>1, <2>3, <2>4, <2>5, <2>6, <2>7 DEF SessionsOK
  <2>10. DOMAIN receipts' \ Tokens' = DOMAIN receipts \ Tokens
    BY <1>5, <2>3
  <2>11. \A i \in DOMAIN receipts' \ Tokens' : receipts'[i].session \in Tokens'
    BY <1>1, <2>3, <2>10 DEF SessionsOK
  <2>12. EndedSessionsHaveNoEffect'
    BY <1>1, <1>5, <2>3, <2>4, <2>10 DEF SessionsOK, EndedSessionsHaveNoEffect
  <2> QED  BY <2>8, <2>9, <2>11, <2>12 DEF SessionsOK
<1>7. ASSUME NEW c \in Clients, Served(c)
      PROVE  SessionsOK'
  <2> DEFINE new == Len(receipts) + 1
             t == exchange[c].session
  <2>1. PICK r : /\ r \in ContentReceipts /\ receipts' = Append(receipts, r)
                 /\ r.session = t /\ r.at = now
    BY <1>7 DEF Served, Accepts
  <2>2. r \in Receipts /\ r.operation # "session.start"
    BY <2>1 DEF Receipts, ContentReceipts, ContentActions
  <2>3. /\ Tokens' = Tokens /\ new \notin DOMAIN receipts
        /\ \A i \in DOMAIN receipts : receipts'[i] = receipts[i]
        /\ receipts'[new] = r /\ DOMAIN receipts' = DOMAIN receipts \cup {new}
        /\ Len(receipts') = new
    BY <1>1, <2>1, <2>2, Written, TokensWritten
  <2>4. UNCHANGED <<sessions, ended>>
    BY <1>7 DEF Served, Finishes
  <2>5. t \in Tokens /\ t \in DOMAIN sessions /\ sessions[t] > now
    BY <1>7 DEF Served, SessionStored
  <2>6. sessions[t] = receipts[t].at + SessionTtl /\ ended[t] = NULL
    BY <1>1, <2>5 DEF SessionsOK
  <2>7. \A k \in 1..MaxReceipts : ended'[k] # NULL => k <= Len(receipts')
    BY <1>1, <1>5, <2>3, <2>4 DEF SessionsOK
  <2> HIDE DEF new, t
  <2>8. \A k \in DOMAIN sessions' : sessions'[k] = receipts'[k].at + SessionTtl /\ ended'[k] = NULL
    BY <1>1, <1>5, <2>3, <2>4 DEF SessionsOK
  <2>9. DOMAIN receipts' \ Tokens' = (DOMAIN receipts \ Tokens) \cup {new}
    BY <1>5, <2>3
  <2>10. \A i \in DOMAIN receipts' \ Tokens' : receipts'[i].session \in Tokens'
    BY <1>1, <2>1, <2>3, <2>5, <2>9 DEF SessionsOK
  <2>11. EndedSessionsHaveNoEffect'
    <3> SUFFICES ASSUME NEW i \in DOMAIN receipts' \ Tokens'
                 PROVE  LET k == receipts'[i].session IN
                        /\ receipts'[i].at < receipts'[k].at + SessionTtl
                        /\ ended'[k] # NULL => i <= ended'[k]
      BY DEF EndedSessionsHaveNoEffect
    <3>1. CASE i = new
      <4>1. now < receipts[t].at + SessionTtl
        BY <1>1, <1>5, <2>5, <2>6
      <4>2. receipts'[i].session = t /\ receipts'[i].at = now /\ receipts'[t] = receipts[t]
        BY <1>5, <2>1, <2>3, <2>5, <3>1
      <4> QED  BY <2>4, <2>6, <4>1, <4>2
    <3>2. CASE i \in DOMAIN receipts \ Tokens
      <4>1. receipts'[i] = receipts[i] /\ receipts[i].session \in Tokens
        BY <1>1, <2>3, <3>2 DEF SessionsOK
      <4>2. receipts'[receipts[i].session] = receipts[receipts[i].session]
        BY <1>5, <2>3, <4>1
      <4> QED  BY <1>1, <2>4, <3>2, <4>1, <4>2 DEF SessionsOK, EndedSessionsHaveNoEffect
    <3> QED  BY <2>9, <3>1, <3>2
  <2> QED  BY <2>7, <2>8, <2>10, <2>11 DEF SessionsOK
<1>8. ASSUME NEW c \in Clients, EndSession(c)
      PROVE  SessionsOK'
  <2>1. PICK t \in Tokens :
           /\ sessions' = Restrict(sessions, DOMAIN sessions \ {t})
           /\ ended' = [ended EXCEPT ![t] = IF @ = NULL THEN Len(receipts) ELSE @]
    BY <1>8 DEF EndSession
  <2>2. receipts' = receipts /\ Tokens' = Tokens
    BY <1>8 DEF EndSession, Tokens
  <2>3. /\ DOMAIN sessions' = DOMAIN sessions \ {t}
        /\ \A k \in DOMAIN sessions' : sessions'[k] = sessions[k]
    BY <2>1 DEF Restrict
  <2>4. /\ \A k \in 1..MaxReceipts : k # t => ended'[k] = ended[k]
        /\ ended'[t] = IF ended[t] = NULL THEN Len(receipts) ELSE ended[t]
    BY <1>5, <2>1
  <2>5. \A k \in 1..MaxReceipts : ended'[k] # NULL => k <= Len(receipts')
    BY <1>1, <1>5, <2>2, <2>4 DEF SessionsOK
  <2>6. \A k \in DOMAIN sessions' : sessions'[k] = receipts'[k].at + SessionTtl /\ ended'[k] = NULL
    BY <1>1, <1>5, <2>2, <2>3, <2>4 DEF SessionsOK
  <2>7. EndedSessionsHaveNoEffect'
    <3> SUFFICES ASSUME NEW i \in DOMAIN receipts \ Tokens
                 PROVE  LET k == receipts[i].session IN
                        /\ receipts[i].at < receipts[k].at + SessionTtl
                        /\ ended'[k] # NULL => i <= ended'[k]
      BY <2>2 DEF EndedSessionsHaveNoEffect
    <3>1. /\ receipts[i].at < receipts[receipts[i].session].at + SessionTtl
          /\ ended[receipts[i].session] # NULL => i <= ended[receipts[i].session]
      BY <1>1 DEF SessionsOK, EndedSessionsHaveNoEffect
    <3>2. receipts[i].session \in 1..MaxReceipts /\ i <= Len(receipts)
      BY <1>1, <1>5 DEF SessionsOK
    <3> QED  BY <2>4, <3>1, <3>2
  <2> QED  BY <1>1, <2>2, <2>5, <2>6, <2>7 DEF SessionsOK
<1> QED  BY <1>3, <1>4, <1>6, <1>7, <1>8 DEF Step

\* Only a request that is on time reaches the transaction.
LEMMA StandingStep ==
  ASSUME IInv, Step
  PROVE  RevokedSignersHaveNoEffect'
<1>1. RevokedSignersHaveNoEffect /\ receipts \in Seq(Receipts)
  BY DEF IInv, TypeOK, StoreOK
<1>2. CASE UNCHANGED receipts
  BY <1>1, <1>2 DEF RevokedSignersHaveNoEffect
<1>3. ASSUME NEW r \in Receipts, receipts' = Append(receipts, r), ~r.stale
      PROVE  RevokedSignersHaveNoEffect'
  BY <1>1, <1>3, Written DEF RevokedSignersHaveNoEffect
<1>4. ASSUME NEW c \in Clients, Started(c)
      PROVE  RevokedSignersHaveNoEffect'
  BY <1>3, <1>4 DEF Started, Receipts
<1>5. ASSUME NEW c \in Clients, Served(c)
      PROVE  RevokedSignersHaveNoEffect'
  <2>1. PICK r : r \in ContentReceipts /\ receipts' = Append(receipts, r) /\ r.stale = exchange[c].stale
    BY <1>5 DEF Served, Accepts
  <2>2. ~exchange[c].stale
    BY <1>5 DEF Served
  <2>3. r \in Receipts
    BY <2>1 DEF Receipts
  <2> QED  BY <1>3, <2>1, <2>2, <2>3
<1>6. \/ UNCHANGED receipts
      \/ \E c \in Clients : Started(c) \/ Served(c)
  BY WorldSteps, NothingStored DEF Step, Handover, Issued, EndSession
<1> QED  BY <1>2, <1>4, <1>5, <1>6

\* A challenge is stored only below both caps, and consuming one lowers a count.
LEMMA BoundStep ==
  ASSUME IInv, Step
  PROVE  ChallengeStoreIsBounded'
<1> DEFINE unused == {id \in DOMAIN challenges : challenges[id] = NULL}
<1>1. ChallengeStoreIsBounded /\ StoreOK /\ MaxTotal \in Nat /\ MaxOutstanding \in Nat
  BY RpAssumption DEF IInv, TypeOK
<1>2. Len(issued) \in Nat /\ IsFiniteSet(1..Len(issued))
  <2>1. Len(issued) \in Nat
    BY <1>1, LenProperties DEF StoreOK
  <2> QED  BY <2>1, FS_Interval
<1>3. DOMAIN challenges \subseteq 1..Len(issued) /\ unused \subseteq DOMAIN challenges
  BY <1>1 DEF StoreOK
<1>4. CASE UNCHANGED challenges
  BY <1>1, <1>4 DEF ChallengeStoreIsBounded
<1>5. CASE Issued
  <2> DEFINE new == Len(issued) + 1
  <2>1. PICK kept \in SUBSET DOMAIN challenges :
           /\ DOMAIN challenges' = kept \cup {new}
           /\ challenges'[new] = NULL
           /\ \A id \in kept : challenges'[id] = challenges[id]
           /\ ~(Cardinality(kept) >= MaxTotal)
           /\ ~(Cardinality({id \in kept : challenges[id] = NULL}) >= MaxOutstanding)
    BY <1>5 DEF Issued
  <2> DEFINE open == {id \in kept : challenges[id] = NULL}
  <2>2. new \notin kept /\ new \notin open /\ open \subseteq kept
    BY <1>2, <1>3
  <2>3. IsFiniteSet(kept) /\ IsFiniteSet(open)
    BY <1>2, <1>3, <2>1, <2>2, FS_Subset
  <2>4. /\ Cardinality(kept \cup {new}) = Cardinality(kept) + 1 /\ Cardinality(kept) \in Nat
        /\ Cardinality(open \cup {new}) = Cardinality(open) + 1 /\ Cardinality(open) \in Nat
    BY <2>2, <2>3, FS_AddElement, FS_CardinalityType
  <2>5. {id \in DOMAIN challenges' : challenges'[id] = NULL} = open \cup {new}
    BY <2>1
  <2>6. ~(Cardinality(kept) >= MaxTotal) /\ ~(Cardinality(open) >= MaxOutstanding)
    BY <2>1
  <2> HIDE DEF new, open
  <2> QED  BY <1>1, <2>1, <2>4, <2>5, <2>6 DEF ChallengeStoreIsBounded
<1>6. ASSUME NEW c \in Clients, Started(c)
      PROVE  ChallengeStoreIsBounded'
  <2> DEFINE id == exchange[c].challenge
             left == {k \in DOMAIN challenges' : challenges'[k] = NULL}
  <2>1. id \in DOMAIN challenges /\ challenges' = [challenges EXCEPT ![id] = now]
    BY <1>6 DEF Started
  <2>2. now # NULL
    BY RpAssumption DEF IInv, TypeOK
  <2>3. DOMAIN challenges' = DOMAIN challenges /\ left \subseteq unused
    BY <1>1, <2>1, <2>2 DEF StoreOK
  <2>4. IsFiniteSet(unused)
    BY <1>2, <1>3, FS_Subset
  <2> HIDE DEF left, unused
  <2>5. /\ Cardinality(left) <= Cardinality(unused)
        /\ Cardinality(left) \in Nat /\ Cardinality(unused) \in Nat
    BY <2>3, <2>4, FS_Subset, FS_CardinalityType
  <2>6. Cardinality(unused) <= MaxOutstanding /\ Cardinality(DOMAIN challenges) <= MaxTotal
    BY <1>1 DEF ChallengeStoreIsBounded, unused
  <2>7. Cardinality(left) <= MaxOutstanding
    BY <1>1, <2>5, <2>6
  <2> QED  BY <2>3, <2>6, <2>7 DEF ChallengeStoreIsBounded, left
<1>7. \/ UNCHANGED challenges
      \/ Issued
      \/ \E c \in Clients : Started(c)
  BY WorldSteps, NothingStored DEF Step, Handover, Served, Finishes, EndSession
<1> QED  BY <1>4, <1>5, <1>6, <1>7

LEMMA NotesStep ==
  ASSUME IInv, Step
  PROVE  NotesOK'
<1>1. NotesOK /\ receipts \in Seq(Receipts) /\ ContentOK
  BY DEF IInv, TypeOK, StoreOK
<1>2. CASE UNCHANGED <<receipts, notes, replies, likes>>
  <2>1. Tokens' = Tokens /\ NextNote' = NextNote
    BY <1>2 DEF Tokens, NextNote
  <2>2. \A n : ChangesOf(n)' = ChangesOf(n)
    BY <1>2, <2>1 DEF ChangesOf
  <2> QED  BY <1>1, <1>2, <2>1, <2>2 DEF NotesOK, NothingIsLost, Stored
<1>3. ASSUME NEW c \in Clients, Started(c)
      PROVE  NotesOK'
  <2>1. PICK r \in StartReceipts : receipts' = Append(receipts, r)
    BY <1>3 DEF Started
  <2>2. r \in Receipts /\ r.operation = "session.start"
    BY DEF Receipts, StartReceipts
  <2>3. UNCHANGED <<notes, replies, likes>>
    BY <1>3 DEF Started
  <2> QED  BY <1>1, <2>1, <2>2, <2>3, NotesKeptUnchanged
<1>4. ASSUME NEW c \in Clients, Served(c)
      PROVE  NotesOK'
  BY <1>1, <1>4, NotesKept DEF Served
<1>5. \/ UNCHANGED <<receipts, notes, replies, likes>>
      \/ \E c \in Clients : Started(c) \/ Served(c)
  BY WorldSteps, NothingStored DEF Step, Handover, Issued, EndSession
<1> QED  BY <1>2, <1>3, <1>4, <1>5

LEMMA InvStep == IInv /\ [Next]_vars => IInv'
<1> SUFFICES ASSUME IInv, [Next]_vars
             PROVE  IInv'
  OBVIOUS
<1>1. CASE Next
  <2>1. Step
    BY <1>1, NextStep
  <2> QED
    BY <2>1, TypeStep, RequestsStep, ChallengesStep, SessionsStep, StandingStep, BoundStep,
       NotesStep DEF IInv
<1>2. CASE UNCHANGED vars
  <2>1. UNCHANGED <<now, revoked, store, exchange>>
    BY <1>2 DEF vars
  <2>2. TypeOK' /\ \A c \in Clients : Sound(exchange[c])'
    BY <2>1, NothingStored
       DEF IInv, TypeOK, StoreOK, ContentOK, Sound, InGoodStanding, DeviceIsActive,
           IdentityIsActive
  <2>3. ChallengesOK' /\ SessionsOK' /\ RevokedSignersHaveNoEffect' /\ ChallengeStoreIsBounded'
    BY <2>1, NothingStored
       DEF IInv, ChallengesOK, ChallengeStartsOneSession, SessionsOK,
           EndedSessionsHaveNoEffect, RevokedSignersHaveNoEffect, ChallengeStoreIsBounded
  <2>4. NotesOK'
    BY <2>1, NothingStored
       DEF IInv, NotesOK, NothingIsLost, ChangesOf, NextNote, Stored
  <2> QED  BY <2>2, <2>3, <2>4 DEF IInv
<1> QED  BY <1>1, <1>2

-----------------------------------------------------------------------------
(* The theorems *)

\* The inductive invariant holds in every state the service reaches.
THEOREM InvHolds == Spec => []IInv
BY InitInv, InvStep, PTL DEF Spec

\* A challenge starts at most one session, whoever submits it and however often,
\* and only by a proof made for this service (#startSession,
\* #commitStartedSession).
THEOREM ChallengesStartOneSession == Spec => []ChallengeStartsOneSession
<1>1. IInv => ChallengeStartsOneSession
  BY DEF IInv, ChallengesOK
<1> QED  BY <1>1, InvHolds, PTL

\* A session that expired, or whose end the client was told of, has no further
\* effect, not by a request that had found it active (#commitSessionOperation).
THEOREM SessionsEnd == Spec => []EndedSessionsHaveNoEffect
<1>1. IInv => EndedSessionsHaveNoEffect
  BY DEF IInv, SessionsOK
<1> QED  BY <1>1, InvHolds, PTL

\* A request that came after its signer was revoked, or after its grant expired,
\* has no effect: its step waits for an answer of the registry that is given
\* later still.
THEOREM RevocationsTakeEffect == Spec => []RevokedSignersHaveNoEffect
<1>1. IInv => RevokedSignersHaveNoEffect
  BY DEF IInv
<1> QED  BY <1>1, InvHolds, PTL

\* The stored challenges keep both caps, although their deletion uses a clock
\* read before the awaits (#issueChallenge).
THEOREM ChallengeCapsHold == Spec => []ChallengeStoreIsBounded
<1>1. IInv => ChallengeStoreIsBounded
  BY DEF IInv
<1> QED  BY <1>1, InvHolds, PTL

\* Of the changes made to one version of a note one is accepted, the note counts
\* them all, and a deleted note leaves no reply or like behind
\* (#applySessionOperation).
THEOREM NoChangeIsLost == Spec => []NothingIsLost
<1>1. IInv => NothingIsLost
  BY DEF IInv, NotesOK
<1> QED  BY <1>1, InvHolds, PTL

-----------------------------------------------------------------------------
(* The development server: types *)

Grants ==
  [subject : Subjects, device : Signers, signedBy : Subjects, validFrom : {0},
   expiresAt : {GrantExpiresAt}]

Proofs ==
  [protocol : {"v1", "v2"}, subject : Subjects, device : Signers,
   signedBy : Signers \cup Subjects, grant : Grants, audience : Audiences,
   action : {"session.start"}, resource : {"notes-session"}, nonce : Nat,
   context : {"notes-policy"}, iat : Int, exp : Nat]

LocalStartWork ==
  [step : {"queued", "ask", "commit", "again", "start"}, kind : {"start"}, challenge : Nat,
   proof : Proofs, signer : Signers, audience : Audiences, stale : BOOLEAN]

LocalSessionWork ==
  [step : {"queued", "ask", "commit"}, kind : {"operate"}, session : Nat, signer : Signers,
   stale : BOOLEAN]

LocalWork == {Idle} \cup LocalStartWork \cup LocalSessionWork

LocalTypeOK ==
  /\ now \in Nat
  /\ revoked \subseteq Subjects \cup Devices
  /\ StoreOK
  /\ exchange \in [Clients -> LocalWork]
  /\ chain \in Seq(Clients)

-----------------------------------------------------------------------------
(* The inductive invariant *)

\* Work that waits is as it came; what has been verified was made for this
\* service and for a challenge that is stored; a late request has a signer that
\* stays in bad standing until the registry is asked.
LocalSound(w) ==
  /\ w \in LocalStartWork =>
       /\ w.proof.audience = w.audience
       /\ w.step # "queued" => w.audience = "notes" /\ w.challenge \in DOMAIN challenges
  /\ w \in LocalSessionWork => w.session \in Tokens
  /\ w.step \in {"queued", "ask"} /\ w.stale => ~InGoodStanding(w.signer)
  /\ w.step \in {"commit", "again", "start"} => ~w.stale

\* The clients on the chain are those with work, each once, and only the work of
\* the first has begun.
ChainOK ==
  /\ \A i, j \in DOMAIN chain : chain[i] = chain[j] => i = j
  /\ \A c \in Clients : ~Free(c) <=> \E i \in DOMAIN chain : chain[i] = c
  /\ \A i \in DOMAIN chain : i > 1 => exchange[chain[i]].step = "queued"

\* Between the consumption of a challenge and the start of its session, the
\* challenge is consumed and has no session.
Spent ==
  \A c \in Clients : exchange[c].step \in {"again", "start"} =>
    /\ challenges[exchange[c].challenge] # NULL
    /\ \A i \in Tokens : receipts[i].challenge # exchange[c].challenge

LocalChallengesOK ==
  /\ \A i \in Tokens : /\ receipts[i].challenge \in DOMAIN challenges
                       /\ challenges[receipts[i].challenge] # NULL
  /\ ChallengeStartsOneSession

LocalIInv ==
  /\ LocalTypeOK
  /\ \A c \in Clients : LocalSound(exchange[c])
  /\ ChainOK
  /\ Spent
  /\ LocalChallengesOK
  /\ RevokedSignersHaveNoEffect
  /\ NotesOK

LEMMA LocalInitInv == LocalInit => LocalIInv
<1> SUFFICES ASSUME LocalInit PROVE LocalIInv
  OBVIOUS
<1>1. Init /\ chain = <<>>
  BY DEF LocalInit
<1>2. IInv
  BY <1>1, InitInv
<1>3. Tokens = {} /\ DOMAIN chain = {}
  BY <1>1 DEF Init, Tokens
<1>4. LocalTypeOK
  <2>1. exchange \in [Clients -> LocalWork]
    BY <1>1 DEF Init, LocalWork
  <2> QED  BY <1>1, <1>2, <2>1 DEF LocalTypeOK, IInv, TypeOK
<1>5. \A c \in Clients : LocalSound(exchange[c])
  BY <1>1 DEF Init, LocalSound, Idle, LocalStartWork, LocalSessionWork
<1>6. ChainOK /\ Spent
  BY <1>1, <1>3 DEF Init, ChainOK, Spent, Free, Idle
<1>7. LocalChallengesOK /\ RevokedSignersHaveNoEffect /\ NotesOK
  BY <1>2, <1>3 DEF IInv, ChallengesOK, LocalChallengesOK
<1> QED  BY <1>4, <1>5, <1>6, <1>7 DEF LocalIInv

-----------------------------------------------------------------------------
(* What the steps of the development server do *)

\* A request joins the chain behind the work of others.
Queued(c) ==
  /\ Free(c)
  /\ UNCHANGED <<now, revoked, store>>
  /\ \E w \in LocalWork :
       /\ LocalSound(w) /\ w.step = "queued"
       /\ exchange' = [exchange EXCEPT ![c] = w]
  /\ chain' = Append(chain, c)

\* The work at the head of the chain goes on, or ends with nothing changed.
AtHead(c) == chain # <<>> /\ Head(chain) = c

LocalHandover(c) ==
  /\ AtHead(c)
  /\ UNCHANGED <<now, revoked, store>>
  /\ \E w \in LocalWork :
       /\ LocalSound(w) /\ w.step # "queued"
       /\ w.step \in {"again", "start"} =>
            exchange[c].step = "again" /\ w.challenge = exchange[c].challenge
       /\ exchange' = [exchange EXCEPT ![c] = w]
       /\ chain' = IF w.step = "idle" THEN Tail(chain) ELSE chain

LEMMA LocalIdleIsSound == Idle \in LocalWork /\ LocalSound(Idle) /\ Idle.step = "idle"
BY DEF Idle, LocalWork, LocalSound, LocalStartWork, LocalSessionWork

LEMMA LocalRefusal ==
  ASSUME LocalTypeOK, NEW c \in Clients, NEW code, AtHead(c), Refuse(c, code), NextInChain(c),
         UNCHANGED <<now, revoked>>
  PROVE  LocalHandover(c)
<1>1. exchange' = [exchange EXCEPT ![c] = Idle] /\ UNCHANGED store
  BY DEF Refuse
<1>2. exchange'[c].step = "idle"
  BY <1>1, LocalIdleIsSound DEF LocalTypeOK
<1> QED  BY <1>1, <1>2, LocalIdleIsSound DEF LocalHandover, NextInChain

\* The work of a client by the step it is at.
LEMMA LocalWorkKinds ==
  ASSUME exchange \in [Clients -> LocalWork], NEW c \in Clients, exchange[c].step # "idle"
  PROVE  /\ exchange[c].kind = "start" => exchange[c] \in LocalStartWork
         /\ exchange[c].kind = "operate" => exchange[c] \in LocalSessionWork
         /\ exchange[c] \in LocalStartWork \cup LocalSessionWork
         /\ exchange[c].step \in {"again", "start"} => exchange[c] \in LocalStartWork
BY DEF LocalWork, Idle, LocalStartWork, LocalSessionWork

LEMMA ProofType ==
  ASSUME issued \in Seq(Nat), NEW nonce \in DOMAIN issued, NEW p \in ProofsFor(nonce)
  PROVE  p \in Proofs
<1>1. PICK s \in Signers, audience \in Audiences :
         p = [protocol |-> IF s \in Devices THEN "v2" ELSE "v1",
              subject |-> Subject[s], device |-> s,
              signedBy |-> IF s \in Devices THEN s ELSE Subject[s],
              grant |-> [subject |-> Subject[s], device |-> s, signedBy |-> Subject[s],
                         validFrom |-> 0, expiresAt |-> GrantExpiresAt],
              audience |-> audience, action |-> "session.start", resource |-> "notes-session",
              nonce |-> nonce, context |-> "notes-policy",
              iat |-> issued[nonce] - ChallengeTtl, exp |-> issued[nonce]]
  BY DEF ProofsFor, Audiences
<1>2. Subject[s] \in Subjects
  BY DEF Subjects
<1>3. issued[nonce] \in Nat /\ nonce \in Nat /\ issued[nonce] - ChallengeTtl \in Int
  BY SMTT(20), LenProperties, RpAssumption
<1>4. [subject |-> Subject[s], device |-> s, signedBy |-> Subject[s],
       validFrom |-> 0, expiresAt |-> GrantExpiresAt] \in Grants
  BY <1>2 DEF Grants
<1> QED  BY <1>1, <1>2, <1>3, <1>4 DEF Proofs

\* The work that stays itself but for the step it is at.
LEMMA GoesOn ==
  ASSUME NEW w \in LocalStartWork \cup LocalSessionWork, NEW step,
         \/ step \in {"ask", "commit"}
         \/ step \in {"again", "start"} /\ w \in LocalStartWork,
         NEW next, next = [w EXCEPT !.step = step]
  PROVE  /\ next \in LocalWork /\ next.step = step
         /\ next.stale = w.stale /\ next.signer = w.signer
         /\ next \in LocalStartWork => /\ w \in LocalStartWork
                                       /\ next.challenge = w.challenge
                                       /\ next.proof = w.proof
                                       /\ next.audience = w.audience
         /\ next \in LocalSessionWork => w \in LocalSessionWork /\ next.session = w.session
         /\ w \in LocalStartWork => next.challenge = w.challenge
<1>1. CASE w \in LocalStartWork
  <2>1. next \in LocalStartWork
    BY <1>1 DEF LocalStartWork
  <2>2. next \notin LocalSessionWork
    BY <2>1 DEF LocalStartWork, LocalSessionWork
  <2>3. /\ next.step = step /\ next.stale = w.stale /\ next.signer = w.signer
        /\ next.challenge = w.challenge /\ next.proof = w.proof /\ next.audience = w.audience
    BY <1>1 DEF LocalStartWork
  <2> QED  BY <1>1, <2>1, <2>2, <2>3 DEF LocalWork
<1>2. CASE w \in LocalSessionWork
  <2>1. w \notin LocalStartWork
    BY <1>2 DEF LocalStartWork, LocalSessionWork
  <2>2. next \in LocalSessionWork
    BY <1>2, <2>1 DEF LocalSessionWork
  <2>3. next \notin LocalStartWork
    BY <2>2 DEF LocalStartWork, LocalSessionWork
  <2>4. /\ next.step = step /\ next.stale = w.stale /\ next.signer = w.signer
        /\ next.session = w.session
    BY <1>2 DEF LocalSessionWork
  <2> QED  BY <1>2, <2>1, <2>2, <2>3, <2>4 DEF LocalWork
<1> QED  BY <1>1, <1>2

LEMMA QueueStep ==
  ASSUME NEW c, NEW w \in LocalWork, LocalSound(w), w.step = "queued", Queue(c, w)
  PROVE  Queued(c)
BY DEF Queue, Queued

LEMMA LocalStartArrivesStep ==
  ASSUME LocalTypeOK, NEW c \in Clients, LocalStartArrives(c)
  PROVE  Queued(c)
<1>1. PICK id \in DOMAIN issued, nonce \in DOMAIN issued : \E p \in ProofsFor(nonce) :
         Queue(c, [step |-> "queued", kind |-> "start", challenge |-> id, proof |-> p,
                   signer |-> p.device, audience |-> p.audience,
                   stale |-> ~InGoodStanding(p.device)])
  BY DEF LocalStartArrives
<1>2. PICK p \in ProofsFor(nonce) :
         Queue(c, [step |-> "queued", kind |-> "start", challenge |-> id, proof |-> p,
                   signer |-> p.device, audience |-> p.audience,
                   stale |-> ~InGoodStanding(p.device)])
  BY <1>1
<1>3. p \in Proofs /\ id \in Nat
  BY ProofType, LenProperties DEF LocalTypeOK, StoreOK
<1>4. p.device \in Signers /\ p.audience \in Audiences
  BY <1>3 DEF Proofs
<1> DEFINE bad == ~InGoodStanding(p.device)
<1> DEFINE w == [step |-> "queued", kind |-> "start", challenge |-> id, proof |-> p,
                 signer |-> p.device, audience |-> p.audience, stale |-> bad]
<1>5. Queue(c, w)
  BY <1>2
<1>6. bad \in BOOLEAN /\ (bad => ~InGoodStanding(p.device))
  OBVIOUS
<1> HIDE DEF bad
<1>7. w \in LocalStartWork /\ w \notin LocalSessionWork
  BY <1>3, <1>4, <1>6 DEF LocalStartWork, LocalSessionWork
<1>8. /\ w.step = "queued" /\ w.proof = p /\ w.audience = p.audience
      /\ w.stale = bad /\ w.signer = p.device
  OBVIOUS
<1> HIDE DEF w
<1>9. LocalSound(w)
  BY <1>6, <1>7, <1>8 DEF LocalSound
<1> QED  BY <1>5, <1>7, <1>8, <1>9, QueueStep DEF LocalWork

LEMMA LocalOperationArrivesStep ==
  ASSUME LocalTypeOK, NEW c \in Clients, LocalOperationArrives(c)
  PROVE  Queued(c)
<1>1. PICK t \in Tokens :
         Queue(c, [step |-> "queued", kind |-> "operate", session |-> t,
                   signer |-> receipts[t].signer, stale |-> ~InGoodStanding(receipts[t].signer)])
  BY DEF LocalOperationArrives
<1> DEFINE signer == receipts[t].signer
           bad == ~InGoodStanding(receipts[t].signer)
<1> DEFINE w == [step |-> "queued", kind |-> "operate", session |-> t,
                 signer |-> signer, stale |-> bad]
<1>2. Queue(c, w)
  BY <1>1
<1>3. t \in Nat /\ signer \in Signers
  BY SignerTypes, LenProperties DEF Tokens, LocalTypeOK, StoreOK
<1>4. bad \in BOOLEAN /\ (bad => ~InGoodStanding(signer))
  OBVIOUS
<1> HIDE DEF bad, signer
<1>5. w \in LocalSessionWork /\ w \notin LocalStartWork
  BY <1>3, <1>4 DEF LocalStartWork, LocalSessionWork
<1>6. w.step = "queued" /\ w.session = t /\ w.stale = bad /\ w.signer = signer
  OBVIOUS
<1> HIDE DEF w
<1>7. LocalSound(w)
  BY <1>4, <1>5, <1>6 DEF LocalSound
<1> QED  BY <1>2, <1>5, <1>6, <1>7, QueueStep DEF LocalWork

\* What the next step of some work needs, whatever the step.
LEMMA Continues ==
  ASSUME LocalTypeOK, NEW c \in Clients, AtHead(c), LocalSound(exchange[c]),
         exchange[c] \in LocalStartWork \cup LocalSessionWork,
         NEW step \in {"ask", "commit", "start"},
         step = "start" => exchange[c].step = "again" /\ exchange[c] \in LocalStartWork,
         step = "ask" /\ exchange[c].stale => ~InGoodStanding(exchange[c].signer),
         step # "ask" => ~exchange[c].stale,
         exchange[c] \in LocalStartWork =>
           exchange[c].audience = "notes" /\ exchange[c].challenge \in DOMAIN challenges,
         exchange' = [exchange EXCEPT ![c].step = step], NextInChain(c),
         UNCHANGED <<now, revoked, store>>
  PROVE  LocalHandover(c)
<1> DEFINE w == [exchange[c] EXCEPT !.step = step]
<1>1. exchange' = [exchange EXCEPT ![c] = w]
  BY DEF LocalTypeOK
<1>2. w = [exchange[c] EXCEPT !.step = step]
  OBVIOUS
<1> HIDE DEF w
<1>3. step \in {"ask", "commit"} \/ (step \in {"again", "start"} /\ exchange[c] \in LocalStartWork)
  OBVIOUS
<1>4. /\ w \in LocalWork /\ w.step = step
      /\ w.stale = exchange[c].stale /\ w.signer = exchange[c].signer
      /\ w \in LocalStartWork => /\ exchange[c] \in LocalStartWork
                                 /\ w.challenge = exchange[c].challenge
                                 /\ w.proof = exchange[c].proof
                                 /\ w.audience = exchange[c].audience
      /\ w \in LocalSessionWork =>
           exchange[c] \in LocalSessionWork /\ w.session = exchange[c].session
      /\ exchange[c] \in LocalStartWork => w.challenge = exchange[c].challenge
  BY <1>2, <1>3, GoesOn
<1>5. LocalSound(w)
  BY <1>4 DEF LocalSound
<1>6. exchange'[c] = w
  BY <1>1 DEF LocalTypeOK
<1>7. chain' = IF w.step = "idle" THEN Tail(chain) ELSE chain
  BY <1>6 DEF NextInChain
<1> QED  BY <1>1, <1>4, <1>5, <1>7 DEF LocalHandover

LEMMA LocalStartRunsStep ==
  ASSUME LocalIInv, NEW c \in Clients, LocalStartRuns(c)
  PROVE  LocalHandover(c)
<1> DEFINE x == exchange[c]
<1>1. /\ AtHead(c) /\ x.step = "queued" /\ x.kind = "start"
      /\ NextInChain(c) /\ UNCHANGED <<now, revoked>>
  BY DEF LocalStartRuns, Works, AtHead
<1>2. LocalTypeOK /\ LocalSound(x) /\ x \in LocalStartWork
  BY <1>1, LocalWorkKinds DEF LocalIInv, LocalTypeOK
<1>3. CASE \E code : Refuse(c, code)
  BY <1>1, <1>2, <1>3, LocalRefusal
<1>4. CASE ~ \E code : Refuse(c, code)
  <2>1. /\ Usable(x.challenge) /\ VerifyProof(x.proof) = "OK"
        /\ exchange' = [exchange EXCEPT ![c].step = "ask"] /\ UNCHANGED store
    BY <1>4 DEF LocalStartRuns
  <2>2. x.audience = "notes" /\ x.challenge \in DOMAIN challenges
    BY <1>2, <2>1, VerifiedProof DEF LocalSound, Usable
  <2>3. x.stale => ~InGoodStanding(x.signer)
    BY <1>1, <1>2 DEF LocalSound
  <2> QED  BY <1>1, <1>2, <2>1, <2>2, <2>3, Continues
<1> QED  BY <1>3, <1>4

LEMMA LocalOperationRunsStep ==
  ASSUME LocalIInv, NEW c \in Clients, LocalOperationRuns(c)
  PROVE  LocalHandover(c)
<1> DEFINE x == exchange[c]
<1>1. /\ AtHead(c) /\ x.step = "queued" /\ x.kind = "operate"
      /\ NextInChain(c) /\ UNCHANGED <<now, revoked>>
  BY DEF LocalOperationRuns, Works, AtHead
<1>2. LocalTypeOK /\ LocalSound(x) /\ x \in LocalSessionWork
  BY <1>1, LocalWorkKinds DEF LocalIInv, LocalTypeOK
<1>3. x \notin LocalStartWork
  BY <1>1 DEF LocalStartWork
<1>4. CASE Refuse(c, "SESSION_INVALID")
  BY <1>1, <1>2, <1>4, LocalRefusal
<1>5. CASE exchange' = [exchange EXCEPT ![c].step = "ask"] /\ UNCHANGED store
  <2>1. x.stale => ~InGoodStanding(x.signer)
    BY <1>1, <1>2 DEF LocalSound
  <2> QED  BY <1>1, <1>2, <1>3, <1>5, <2>1, Continues
<1> QED  BY <1>4, <1>5 DEF LocalOperationRuns

LEMMA LocalAskStep ==
  ASSUME LocalIInv, NEW c \in Clients, LocalAsk(c)
  PROVE  LocalHandover(c)
<1> DEFINE x == exchange[c]
<1>1. AtHead(c) /\ x.step = "ask" /\ NextInChain(c) /\ UNCHANGED <<now, revoked>>
  BY DEF LocalAsk, Ask, Works, AtHead
<1>2. LocalTypeOK /\ LocalSound(x) /\ x \in LocalStartWork \cup LocalSessionWork
  BY <1>1, LocalWorkKinds DEF LocalIInv, LocalTypeOK
<1>3. CASE \E code : Refuse(c, code)
  BY <1>1, <1>2, <1>3, LocalRefusal
<1>4. CASE ~ \E code : Refuse(c, code)
  <2>1. /\ InGoodStanding(x.signer)
        /\ exchange' = [exchange EXCEPT ![c].step = "commit"] /\ UNCHANGED store
    BY <1>4 DEF LocalAsk, Ask
  <2>2. ~x.stale
    BY <1>1, <1>2, <2>1 DEF LocalSound
  <2>3. x \in LocalStartWork => x.audience = "notes" /\ x.challenge \in DOMAIN challenges
    BY <1>1, <1>2 DEF LocalSound
  <2> QED  BY <1>1, <1>2, <2>1, <2>2, <2>3, Continues
<1> QED  BY <1>3, <1>4

LEMMA AskAgainStep ==
  ASSUME LocalIInv, NEW c \in Clients, AskAgain(c)
  PROVE  LocalHandover(c)
<1> DEFINE x == exchange[c]
<1>1. AtHead(c) /\ x.step = "again" /\ NextInChain(c) /\ UNCHANGED <<now, revoked>>
  BY DEF AskAgain, Works, AtHead
<1>2. LocalTypeOK /\ LocalSound(x) /\ x \in LocalStartWork
  BY <1>1, LocalWorkKinds DEF LocalIInv, LocalTypeOK
<1>3. CASE \E code : Refuse(c, code)
  BY <1>1, <1>2, <1>3, LocalRefusal
<1>4. CASE ~ \E code : Refuse(c, code)
  <2>1. exchange' = [exchange EXCEPT ![c].step = "start"] /\ UNCHANGED store
    BY <1>4 DEF AskAgain
  <2>2. ~x.stale /\ x.audience = "notes" /\ x.challenge \in DOMAIN challenges
    BY <1>1, <1>2 DEF LocalSound
  <2> QED  BY <1>1, <1>2, <2>1, <2>2, Continues
<1> QED  BY <1>3, <1>4

\* A new challenge, beside those there are.
LocalIssued ==
  /\ UNCHANGED <<now, revoked, sessions, receipts, notes, replies, likes, names, ended>>
  /\ UNCHANGED <<exchange, chain>>
  /\ \E at \in Nat : issued' = Append(issued, at)
  /\ DOMAIN challenges' = DOMAIN challenges \cup {Len(issued) + 1}
  /\ challenges' \in [DOMAIN challenges' -> Nat \cup {NULL}]
  /\ \A id \in DOMAIN challenges : challenges'[id] = challenges[id]

LEMMA LocalIssueStep ==
  ASSUME LocalTypeOK, NEW c \in Clients, LocalIssue(c)
  PROVE  LocalIssued
<1> DEFINE new == Len(issued) + 1
<1>1. /\ UNCHANGED <<now, revoked, exchange, chain, sessions, receipts, notes, replies, likes>>
      /\ UNCHANGED <<names, ended>>
      /\ issued' = Append(issued, now + ChallengeTtl)
  BY DEF LocalIssue
<1>2. challenges' = [id \in DOMAIN challenges \cup {new} |-> IF id = new THEN NULL ELSE challenges[id]]
  BY DEF LocalIssue, Insert
<1>3. now + ChallengeTtl \in Nat
  BY RpAssumption DEF LocalTypeOK
<1>4. \A id \in DOMAIN challenges : id # new /\ challenges[id] \in Nat \cup {NULL}
  BY LenProperties DEF LocalTypeOK, StoreOK
<1> HIDE DEF new
<1>5. /\ DOMAIN challenges' = DOMAIN challenges \cup {new}
      /\ challenges' \in [DOMAIN challenges' -> Nat \cup {NULL}]
      /\ \A id \in DOMAIN challenges : challenges'[id] = challenges[id]
  BY <1>2, <1>4
<1> QED  BY <1>1, <1>3, <1>5 DEF LocalIssued, new

\* A challenge is consumed, and its session will be started.
LocalConsumes(c) ==
  LET x == exchange[c] IN
  /\ AtHead(c)
  /\ UNCHANGED <<now, revoked, issued, sessions, receipts, notes, replies, likes, names, ended>>
  /\ x.challenge \in DOMAIN challenges /\ challenges[x.challenge] = NULL
  /\ challenges' = [challenges EXCEPT ![x.challenge] = now]
  /\ \E w \in LocalWork :
       /\ LocalSound(w) /\ w.step \in {"again", "start"} /\ w.challenge = x.challenge
       /\ exchange' = [exchange EXCEPT ![c] = w]
  /\ chain' = chain

LEMMA ConsumeStep ==
  ASSUME LocalIInv, NEW c \in Clients, Consume(c)
  PROVE  LocalHandover(c) \/ LocalConsumes(c)
<1> DEFINE x == exchange[c]
           step == IF x.signer \in Devices THEN "start" ELSE "again"
<1>1. /\ AtHead(c) /\ x.step = "commit" /\ x.kind = "start"
      /\ NextInChain(c) /\ UNCHANGED <<now, revoked>>
  BY DEF Consume, Works, AtHead
<1>2. LocalTypeOK /\ LocalSound(x) /\ x \in LocalStartWork
  BY <1>1, LocalWorkKinds DEF LocalIInv, LocalTypeOK
<1>3. CASE Consumed(x.challenge)
  <2>1. Refuse(c, "NONCE_REPLAY_OR_EXPIRED")
    BY <1>3 DEF Consume
  <2> QED  BY <1>1, <1>2, <2>1, LocalRefusal
<1>4. CASE ~Consumed(x.challenge)
  <2> DEFINE w == [x EXCEPT !.step = step]
  <2>1. /\ challenges' = [challenges EXCEPT ![x.challenge] = now]
        /\ exchange' = [exchange EXCEPT ![c].step = step]
        /\ UNCHANGED <<issued, sessions, receipts, notes, replies, likes, names, ended>>
    BY <1>4 DEF Consume
  <2>2. /\ ~x.stale /\ x.audience = "notes" /\ x.challenge \in DOMAIN challenges
        /\ x.proof.audience = x.audience /\ challenges[x.challenge] = NULL
    BY <1>1, <1>2, <1>4 DEF LocalSound, Consumed
  <2>3. exchange' = [exchange EXCEPT ![c] = w] /\ exchange'[c] = w
    BY <1>2, <2>1 DEF LocalTypeOK
  <2>4. step \in {"again", "start"} /\ w = [x EXCEPT !.step = step]
    OBVIOUS
  <2> HIDE DEF w, step
  <2>5. /\ w \in LocalWork /\ w.step = step
        /\ w.stale = x.stale /\ w.signer = x.signer /\ w.challenge = x.challenge
        /\ w \in LocalStartWork => w.proof = x.proof /\ w.audience = x.audience
        /\ w \in LocalSessionWork => x \in LocalSessionWork
    BY <1>2, <2>4, GoesOn
  <2>6. x \notin LocalSessionWork
    BY <1>1 DEF LocalSessionWork
  <2>7. LocalSound(w)
    BY <2>2, <2>4, <2>5, <2>6 DEF LocalSound
  <2>8. chain' = chain
    BY <1>1, <2>3, <2>4, <2>5 DEF NextInChain
  <2> HIDE DEF x
  <2> QED  BY <1>1, <2>1, <2>2, <2>3, <2>4, <2>5, <2>7, <2>8 DEF LocalConsumes, x
<1> QED  BY <1>3, <1>4

\* The session and its receipt are written; the one before it stays.
LocalStarted(c) ==
  LET x == exchange[c]
      t == Len(receipts) + 1 IN
  /\ AtHead(c)
  /\ x.step = "start" /\ ~x.stale /\ x.audience = "notes" /\ x.challenge \in DOMAIN challenges
  /\ Len(receipts) < MaxReceipts
  /\ UNCHANGED <<now, revoked, issued, challenges, notes, replies, likes, names, ended>>
  /\ \E r \in StartReceipts :
       /\ receipts' = Append(receipts, r)
       /\ r.challenge = x.challenge /\ r.audience = "notes" /\ ~r.stale
  /\ DOMAIN sessions' = DOMAIN sessions \cup {t}
  /\ sessions' \in [DOMAIN sessions' -> Nat]
  /\ exchange' = [exchange EXCEPT ![c] = Idle]
  /\ chain' = Tail(chain)

LEMMA LocalStartStep ==
  ASSUME LocalIInv, NEW c \in Clients, LocalStart(c)
  PROVE  LocalStarted(c)
<1> DEFINE x == exchange[c]
           t == Len(receipts) + 1
           r == [operation |-> "session.start", signer |-> x.signer,
                 challenge |-> x.challenge, audience |-> x.audience,
                 session |-> t, at |-> now, stale |-> x.stale]
<1>1. /\ AtHead(c) /\ x.step = "start" /\ Len(receipts) < MaxReceipts
      /\ sessions' = [k \in DOMAIN sessions \cup {t} |-> IF k = t THEN now + SessionTtl ELSE sessions[k]]
      /\ receipts' = Append(receipts, r)
      /\ exchange' = [exchange EXCEPT ![c] = Idle]
      /\ NextInChain(c)
      /\ UNCHANGED <<now, revoked, issued, challenges, notes, replies, likes, names, ended>>
  BY DEF LocalStart, Works, AtHead, WriteReceipt
<1>2. LocalTypeOK /\ LocalSound(x) /\ x \in LocalStartWork
  BY <1>1, LocalWorkKinds DEF LocalIInv, LocalTypeOK
<1>3. ~x.stale /\ x.audience = "notes" /\ x.challenge \in DOMAIN challenges
  BY <1>1, <1>2 DEF LocalSound
<1>4. t \in Nat /\ now \in Nat /\ now + SessionTtl \in Nat
  BY <1>2, LenProperties, RpAssumption DEF LocalTypeOK, StoreOK
<1>5. /\ x.signer \in Signers /\ x.challenge \in Nat /\ x.audience \in Audiences
      /\ x.stale \in BOOLEAN
  BY <1>2 DEF LocalStartWork
<1>6. r \in StartReceipts
  BY <1>4, <1>5 DEF StartReceipts
<1>7. r.challenge = x.challenge /\ r.audience = "notes" /\ ~r.stale
  BY <1>3
<1>8. \A k \in DOMAIN sessions : sessions[k] \in Nat
  BY <1>2 DEF LocalTypeOK, StoreOK
<1>9. DOMAIN sessions' = DOMAIN sessions \cup {t} /\ sessions' \in [DOMAIN sessions' -> Nat]
  <2> HIDE DEF t
  <2> QED  BY <1>1, <1>4, <1>8
<1>10. chain' = Tail(chain)
  <2>1. exchange'[c] = Idle
    BY <1>1, <1>2 DEF LocalTypeOK
  <2> QED  BY <1>1, <2>1, LocalIdleIsSound DEF NextInChain
<1> HIDE DEF r
<1> QED  BY <1>1, <1>3, <1>6, <1>7, <1>9, <1>10 DEF LocalStarted

\* A request of a session is carried out, or changes nothing.
LocalServed(c) ==
  /\ AtHead(c)
  /\ ~exchange[c].stale
  /\ Finishes(c) /\ ContentOK'
  /\ \E r : Accepts(c, r)
  /\ chain' = Tail(chain)

LEMMA LocalOperateStep ==
  ASSUME LocalIInv, NEW c \in Clients, NEW op \in Requests, LocalOperate(c, op)
  PROVE  LocalHandover(c) \/ LocalServed(c)
<1> DEFINE x == exchange[c]
<1>1. /\ AtHead(c) /\ x.step = "commit" /\ x.kind = "operate"
      /\ Content(c, op) /\ NextInChain(c)
  BY DEF LocalOperate, Works, AtHead
<1>2. LocalTypeOK /\ LocalSound(x) /\ x \in LocalSessionWork
  BY <1>1, LocalWorkKinds DEF LocalIInv, LocalTypeOK
<1>3. ~x.stale
  BY <1>1, <1>2 DEF LocalSound
<1>4. ServedOK(c) /\ ContentOK
  <2>1. x.signer \in Signers /\ x.session \in Nat /\ x.stale \in BOOLEAN
    BY <1>2 DEF LocalSessionWork
  <2> QED  BY <1>2, <2>1 DEF ServedOK, LocalTypeOK, StoreOK
<1>5. Outcome(c)
  BY <1>1, <1>4, ContentStep
<1>6. exchange' = [exchange EXCEPT ![c] = Idle] /\ chain' = Tail(chain)
  <2>1. exchange' = [exchange EXCEPT ![c] = Idle]
    BY <1>5 DEF Outcome, Finishes
  <2>2. exchange'[c] = Idle
    BY <1>2, <2>1 DEF LocalTypeOK
  <2> QED  BY <1>1, <2>1, <2>2, LocalIdleIsSound DEF NextInChain
<1>7. CASE UNCHANGED store
  BY <1>1, <1>5, <1>6, <1>7, LocalIdleIsSound DEF Outcome, Finishes, LocalHandover
<1>8. CASE \E r : Accepts(c, r)
  BY <1>1, <1>3, <1>5, <1>6, <1>8 DEF Outcome, LocalServed
<1> QED  BY <1>5, <1>7, <1>8 DEF Outcome

\* What a step of the development server may be.
LocalStep ==
  \/ (Tick \/ Revoke) /\ UNCHANGED chain
  \/ LocalIssued
  \/ \E c \in Clients :
       \/ Queued(c) \/ LocalHandover(c)
       \/ LocalConsumes(c) \/ LocalStarted(c) \/ LocalServed(c)
       \/ EndSession(c) /\ UNCHANGED chain

LEMMA LocalNextStep ==
  ASSUME LocalIInv, LocalNext
  PROVE  LocalStep
<1> SUFFICES ASSUME NEW c \in Clients,
                    \/ LocalIssue(c)
                    \/ LocalStartArrives(c) \/ LocalStartRuns(c)
                    \/ LocalAsk(c) \/ Consume(c) \/ AskAgain(c) \/ LocalStart(c)
                    \/ LocalOperationArrives(c) \/ LocalOperationRuns(c)
                    \/ \E op \in Requests : LocalOperate(c, op)
             PROVE  LocalStep
  BY DEF LocalNext, LocalStep
<1>1. LocalTypeOK
  BY DEF LocalIInv
<1> QED
  BY <1>1, LocalIssueStep, LocalStartArrivesStep, LocalStartRunsStep, LocalAskStep, ConsumeStep,
     AskAgainStep, LocalStartStep, LocalOperationArrivesStep, LocalOperationRunsStep,
     LocalOperateStep DEF LocalStep

-----------------------------------------------------------------------------
(* Every step preserves the invariant *)

LEMMA LocalOneReceipt ==
  ASSUME LocalIInv, LocalStep
  PROVE  UNCHANGED receipts
         \/ \E r \in Receipts : /\ receipts' = Append(receipts, r) /\ Len(receipts) < MaxReceipts
                                /\ ~r.stale
<1>1. CASE UNCHANGED receipts
  BY <1>1
<1>2. ASSUME NEW c \in Clients, LocalStarted(c)
      PROVE  \E r \in Receipts : /\ receipts' = Append(receipts, r) /\ Len(receipts) < MaxReceipts
                                 /\ ~r.stale
  BY <1>2 DEF LocalStarted, Receipts
<1>3. ASSUME NEW c \in Clients, LocalServed(c)
      PROVE  \E r \in Receipts : /\ receipts' = Append(receipts, r) /\ Len(receipts) < MaxReceipts
                                 /\ ~r.stale
  <2>1. PICK r : r \in ContentReceipts /\ receipts' = Append(receipts, r) /\ r.stale = exchange[c].stale
                 /\ Len(receipts) < MaxReceipts
    BY <1>3 DEF LocalServed, Accepts
  <2>2. ~exchange[c].stale
    BY <1>3 DEF LocalServed
  <2> QED  BY <2>1, <2>2 DEF Receipts
<1>4. UNCHANGED receipts \/ \E c \in Clients : LocalStarted(c) \/ LocalServed(c)
  BY WorldSteps, NothingStored
     DEF LocalStep, LocalIssued, Queued, LocalHandover, LocalConsumes, EndSession
<1> QED  BY <1>1, <1>2, <1>3, <1>4

LEMMA LocalLater ==
  ASSUME LocalIInv, LocalStep
  PROVE  /\ now' \in Nat /\ now <= now'
         /\ revoked \subseteq revoked' /\ revoked' \subseteq Subjects \cup Devices
         /\ Tokens \subseteq Tokens'
         /\ receipts' \in Seq(Receipts) /\ Len(receipts') <= MaxReceipts
         /\ RevokedSignersHaveNoEffect'
<1>1. /\ now \in Nat /\ revoked \subseteq Subjects \cup Devices
      /\ receipts \in Seq(Receipts) /\ Len(receipts) <= MaxReceipts
      /\ RevokedSignersHaveNoEffect
  BY DEF LocalIInv, LocalTypeOK, StoreOK
<1>2. /\ now' \in Nat /\ now <= now'
      /\ revoked \subseteq revoked' /\ revoked' \subseteq Subjects \cup Devices
  <2>1. CASE Tick
    BY <1>1, <2>1 DEF Tick
  <2>2. CASE Revoke
    BY <1>1, <2>2 DEF Revoke
  <2>3. CASE ~Tick /\ ~Revoke
    <3>1. UNCHANGED <<now, revoked>>
      BY <2>3 DEF LocalStep, LocalIssued, Queued, LocalHandover, LocalConsumes, LocalStarted,
                  LocalServed, Finishes, EndSession
    <3> QED  BY <1>1, <3>1
  <2> QED  BY <2>1, <2>2, <2>3
<1>3. CASE UNCHANGED receipts
  BY <1>1, <1>2, <1>3 DEF Tokens, RevokedSignersHaveNoEffect
<1>4. ASSUME NEW r \in Receipts, receipts' = Append(receipts, r), Len(receipts) < MaxReceipts,
             ~r.stale
      PROVE  /\ Tokens \subseteq Tokens'
             /\ receipts' \in Seq(Receipts) /\ Len(receipts') <= MaxReceipts
             /\ RevokedSignersHaveNoEffect'
  <2>1. MaxReceipts \in Nat
    BY RpAssumption
  <2> QED  BY <1>1, <1>4, <2>1, Written, TokensWritten DEF RevokedSignersHaveNoEffect
<1> QED  BY <1>2, <1>3, <1>4, LocalOneReceipt

LEMMA ChallengesStay ==
  ASSUME LocalIInv, LocalStep
  PROVE  /\ DOMAIN challenges \subseteq DOMAIN challenges'
         /\ \A id \in DOMAIN challenges : challenges[id] # NULL => challenges'[id] # NULL
<1>1. CASE UNCHANGED challenges
  BY <1>1
<1>2. CASE LocalIssued
  BY <1>2 DEF LocalIssued
<1>3. ASSUME NEW c \in Clients, LocalConsumes(c)
      PROVE  /\ DOMAIN challenges \subseteq DOMAIN challenges'
             /\ \A id \in DOMAIN challenges : challenges[id] # NULL => challenges'[id] # NULL
  <2>1. now # NULL
    BY RpAssumption DEF LocalIInv, LocalTypeOK
  <2> QED  BY <1>3, <2>1 DEF LocalConsumes
<1>4. UNCHANGED challenges \/ LocalIssued \/ \E c \in Clients : LocalConsumes(c)
  BY WorldSteps, NothingStored
     DEF LocalStep, Queued, LocalHandover, LocalStarted, LocalServed, Finishes, EndSession
<1> QED  BY <1>1, <1>2, <1>3, <1>4

LEMMA LocalSoundPersists ==
  ASSUME LocalIInv, LocalStep, NEW w, LocalSound(w)
  PROVE  LocalSound(w)'
<1>1. Tokens \subseteq Tokens' /\ DOMAIN challenges \subseteq DOMAIN challenges'
  BY LocalLater, ChallengesStay
<1>2. InGoodStanding(w.signer)' => InGoodStanding(w.signer)
  <2>1. now \in Nat /\ now' \in Nat /\ now <= now' /\ revoked \subseteq revoked'
    BY LocalLater DEF LocalIInv, LocalTypeOK
  <2>2. GrantExpiresAt \in Nat
    BY RpAssumption
  <2> QED  BY <2>1, <2>2 DEF InGoodStanding, DeviceIsActive, IdentityIsActive
<1> QED  BY <1>1, <1>2 DEF LocalSound

\* How a step moves the chain: a client joins it, or the first one goes on or
\* leaves it.
Joins ==
  \E c \in Clients, w \in LocalWork :
    /\ Free(c) /\ w.step = "queued" /\ LocalSound(w)
    /\ exchange' = [exchange EXCEPT ![c] = w]
    /\ chain' = Append(chain, c)

FirstGoesOn ==
  \E c \in Clients, w \in LocalWork :
    /\ AtHead(c) /\ w.step # "queued" /\ LocalSound(w)
    /\ exchange' = [exchange EXCEPT ![c] = w]
    /\ chain' = IF w.step = "idle" THEN Tail(chain) ELSE chain

LEMMA ChainMoves ==
  ASSUME LocalStep
  PROVE  UNCHANGED <<exchange, chain>> \/ Joins \/ FirstGoesOn
<1>1. CASE (Tick \/ Revoke) /\ UNCHANGED chain
  BY <1>1, WorldSteps
<1>2. CASE LocalIssued
  BY <1>2 DEF LocalIssued
<1>3. ASSUME NEW c \in Clients, Queued(c)
      PROVE  Joins
  BY <1>3 DEF Queued, Joins
<1>4. ASSUME NEW c \in Clients, LocalHandover(c)
      PROVE  FirstGoesOn
  BY <1>4 DEF LocalHandover, FirstGoesOn
<1>5. ASSUME NEW c \in Clients, LocalConsumes(c)
      PROVE  FirstGoesOn
  BY <1>5 DEF LocalConsumes, FirstGoesOn
<1>6. ASSUME NEW c \in Clients, LocalStarted(c) \/ LocalServed(c)
      PROVE  FirstGoesOn
  BY <1>6, LocalIdleIsSound DEF LocalStarted, LocalServed, Finishes, FirstGoesOn
<1>7. ASSUME NEW c \in Clients, EndSession(c) /\ UNCHANGED chain
      PROVE  UNCHANGED <<exchange, chain>>
  BY <1>7 DEF EndSession
<1> QED  BY <1>1, <1>2, <1>3, <1>4, <1>5, <1>6, <1>7 DEF LocalStep

LEMMA ChainStep ==
  ASSUME LocalIInv, LocalStep
  PROVE  ChainOK' /\ chain' \in Seq(Clients)
<1>1. /\ ChainOK /\ exchange \in [Clients -> LocalWork]
      /\ chain \in Seq(Clients) /\ DOMAIN chain = 1..Len(chain) /\ Len(chain) \in Nat
  BY LenProperties DEF LocalIInv, LocalTypeOK
<1>2. CASE UNCHANGED <<exchange, chain>>
  BY <1>1, <1>2 DEF ChainOK, Free
<1>3. CASE Joins
  <2>1. PICK c \in Clients, w \in LocalWork :
           /\ Free(c) /\ w.step = "queued"
           /\ exchange' = [exchange EXCEPT ![c] = w]
           /\ chain' = Append(chain, c)
    BY <1>3 DEF Joins
  <2> DEFINE n == Len(chain) + 1
  <2>2. /\ chain' \in Seq(Clients) /\ DOMAIN chain' = DOMAIN chain \cup {n}
        /\ chain'[n] = c /\ n \notin DOMAIN chain
        /\ \A i \in DOMAIN chain : chain'[i] = chain[i]
    BY <1>1, <2>1, AppendProperties
  <2>3. /\ \A d \in Clients : exchange'[d] = IF d = c THEN w ELSE exchange[d]
    BY <1>1, <2>1
  <2>4. \A i \in DOMAIN chain : chain[i] # c
    BY <1>1, <2>1 DEF ChainOK
  <2>5. \A i \in DOMAIN chain : chain[i] \in Clients
    BY <1>1
  <2> HIDE DEF n
  <2>6. \A i, j \in DOMAIN chain' : chain'[i] = chain'[j] => i = j
    BY <1>1, <2>2, <2>4 DEF ChainOK
  <2>7. \A d \in Clients : ~Free(d)' <=> \E i \in DOMAIN chain' : chain'[i] = d
    <3> TAKE d \in Clients
    <3>1. CASE d = c
      BY <2>1, <2>2, <2>3, <3>1 DEF Free
    <3>2. CASE d # c
      <4>1. ~Free(d)' <=> ~Free(d)
        BY <2>3, <3>2 DEF Free
      <4>2. (\E i \in DOMAIN chain' : chain'[i] = d) <=> (\E i \in DOMAIN chain : chain[i] = d)
        BY <2>2, <3>2
      <4> QED  BY <1>1, <4>1, <4>2 DEF ChainOK
    <3> QED  BY <3>1, <3>2
  <2>8. \A i \in DOMAIN chain' : i > 1 => exchange'[chain'[i]].step = "queued"
    BY <1>1, <2>1, <2>2, <2>3, <2>4, <2>5 DEF ChainOK
  <2> QED  BY <2>2, <2>6, <2>7, <2>8 DEF ChainOK
<1>4. CASE FirstGoesOn
  <2>1. PICK c \in Clients, w \in LocalWork :
           /\ AtHead(c) /\ w.step # "queued"
           /\ exchange' = [exchange EXCEPT ![c] = w]
           /\ chain' = IF w.step = "idle" THEN Tail(chain) ELSE chain
    BY <1>4 DEF FirstGoesOn
  <2>2. 1 \in DOMAIN chain /\ chain[1] = c
    <3>1. chain # <<>> /\ Head(chain) = c
      BY <2>1 DEF AtHead
    <3> QED  BY <1>1, <3>1, EmptySeq
  <2>3. \A d \in Clients : exchange'[d] = IF d = c THEN w ELSE exchange[d]
    BY <1>1, <2>1
  <2>4. \A i \in DOMAIN chain : chain[i] \in Clients /\ (i # 1 => chain[i] # c)
    BY <1>1, <2>2 DEF ChainOK
  <2>5. CASE w.step # "idle"
    <3>1. chain' = chain
      BY <2>1, <2>5
    <3>2. \A d \in Clients : ~Free(d)' <=> \E i \in DOMAIN chain : chain[i] = d
      <4> TAKE d \in Clients
      <4>1. CASE d = c
        BY <2>2, <2>3, <2>5, <4>1 DEF Free
      <4>2. CASE d # c
        BY <1>1, <2>3, <4>2 DEF ChainOK, Free
      <4> QED  BY <4>1, <4>2
    <3>3. \A i \in DOMAIN chain : i > 1 => exchange'[chain[i]].step = "queued"
      BY <1>1, <2>3, <2>4 DEF ChainOK
    <3> QED  BY <1>1, <3>1, <3>2, <3>3 DEF ChainOK
  <2>6. CASE w.step = "idle"
    <3>1. /\ chain' \in Seq(Clients) /\ Len(chain') = Len(chain) - 1
          /\ \A i \in 1..Len(chain') : chain'[i] = chain[i + 1]
      <4>1. chain' = Tail(chain) /\ chain # <<>>
        BY <2>1, <2>6 DEF AtHead
      <4> QED  BY <1>1, <4>1, HeadTailProperties
    <3>2. DOMAIN chain' = 1..Len(chain')
      BY <3>1, LenProperties
    <3>3. \A i \in DOMAIN chain' : i + 1 \in DOMAIN chain /\ i + 1 # 1 /\ chain'[i] = chain[i + 1]
      BY <1>1, <3>1, <3>2
    <3>4. \A i \in DOMAIN chain : i # 1 => i - 1 \in DOMAIN chain' /\ chain'[i - 1] = chain[i]
      BY <1>1, <3>1, <3>2
    <3>5. \A i, j \in DOMAIN chain' : chain'[i] = chain'[j] => i = j
      BY <1>1, <3>2, <3>3 DEF ChainOK
    <3>6. \A d \in Clients : ~Free(d)' <=> \E i \in DOMAIN chain' : chain'[i] = d
      <4> TAKE d \in Clients
      <4>1. CASE d = c
        BY <2>3, <2>4, <2>6, <3>3, <4>1 DEF Free
      <4>2. CASE d # c
        <5>1. ~Free(d)' <=> ~Free(d)
          BY <2>3, <4>2 DEF Free
        <5>2. (\E i \in DOMAIN chain' : chain'[i] = d) <=> (\E i \in DOMAIN chain : chain[i] = d)
          BY <2>2, <3>3, <3>4, <4>2
        <5> QED  BY <1>1, <5>1, <5>2 DEF ChainOK
      <4> QED  BY <4>1, <4>2
    <3>7. \A i \in DOMAIN chain' : i > 1 => exchange'[chain'[i]].step = "queued"
      <4> TAKE i \in DOMAIN chain'
      <4>1. i \in Nat /\ i + 1 > 1
        BY <3>1, <3>2
      <4>2. exchange[chain[i + 1]].step = "queued"
        BY <1>1, <3>3, <4>1 DEF ChainOK
      <4>3. chain'[i] \in Clients /\ chain'[i] # c
        BY <2>4, <3>3
      <4> QED  BY <2>3, <3>3, <4>2, <4>3
    <3> QED  BY <3>1, <3>5, <3>6, <3>7 DEF ChainOK
  <2> QED  BY <2>5, <2>6
<1> QED  BY <1>2, <1>3, <1>4, ChainMoves

LEMMA LocalRequestsStep ==
  ASSUME LocalIInv, LocalStep
  PROVE  exchange' \in [Clients -> LocalWork] /\ \A c \in Clients : LocalSound(exchange[c])'
<1>1. exchange \in [Clients -> LocalWork] /\ \A c \in Clients : LocalSound(exchange[c])
  BY DEF LocalIInv, LocalTypeOK
<1>2. \/ UNCHANGED exchange
      \/ \E c \in Clients, w \in LocalWork :
           LocalSound(w) /\ exchange' = [exchange EXCEPT ![c] = w]
  BY ChainMoves DEF Joins, FirstGoesOn
<1>3. exchange' \in [Clients -> LocalWork] /\ \A c \in Clients : LocalSound(exchange'[c])
  BY <1>1, <1>2
<1>4. \A w : LocalSound(w) => LocalSound(w)'
  BY LocalSoundPersists
<1> QED  BY <1>3, <1>4

LEMMA LocalStoreStep ==
  ASSUME LocalIInv, LocalStep
  PROVE  StoreOK'
<1>1. StoreOK /\ now \in Nat
  BY DEF LocalIInv, LocalTypeOK
<1>2. /\ receipts' \in Seq(Receipts) /\ Len(receipts') <= MaxReceipts
      /\ Tokens \subseteq Tokens'
  BY LocalLater
<1>3. CASE (Tick \/ Revoke) /\ UNCHANGED chain
  BY <1>1, <1>3, WorldSteps DEF StoreOK, ContentOK
<1>4. ASSUME NEW c \in Clients, Queued(c) \/ LocalHandover(c)
      PROVE  StoreOK'
  BY <1>1, <1>4, NothingStored DEF StoreOK, ContentOK, Queued, LocalHandover
<1>5. CASE LocalIssued
  <2>1. UNCHANGED <<sessions, receipts, notes, replies, likes, names, ended>>
    BY <1>5 DEF LocalIssued
  <2>2. Tokens' = Tokens
    BY <2>1 DEF Tokens
  <2>3. PICK at \in Nat : issued' = Append(issued, at)
    BY <1>5 DEF LocalIssued
  <2>4. issued \in Seq(Nat) /\ Len(issued) \in Nat
    BY <1>1, LenProperties DEF StoreOK
  <2>5. issued' \in Seq(Nat) /\ Len(issued') = Len(issued) + 1
    BY <2>3, <2>4, AppendProperties
  <2>6. DOMAIN challenges' \subseteq 1..Len(issued')
    BY <1>1, <1>5, <2>4, <2>5 DEF LocalIssued, StoreOK
  <2>7. challenges' \in [DOMAIN challenges' -> Nat \cup {NULL}]
    BY <1>5 DEF LocalIssued
  <2> QED  BY <1>1, <2>1, <2>2, <2>5, <2>6, <2>7 DEF StoreOK, ContentOK
<1>6. ASSUME NEW c \in Clients, LocalConsumes(c)
      PROVE  StoreOK'
  <2>1. UNCHANGED <<issued, sessions, receipts, notes, replies, likes, names, ended>>
    BY <1>6 DEF LocalConsumes
  <2>2. /\ challenges' \in [DOMAIN challenges' -> Nat \cup {NULL}]
        /\ DOMAIN challenges' = DOMAIN challenges
    BY <1>1, <1>6 DEF LocalConsumes, StoreOK
  <2>3. Tokens' = Tokens
    BY <2>1 DEF Tokens
  <2> QED  BY <1>1, <2>1, <2>2, <2>3 DEF StoreOK, ContentOK
<1>7. ASSUME NEW c \in Clients, LocalStarted(c)
      PROVE  StoreOK'
  <2>1. UNCHANGED <<issued, challenges, notes, replies, likes, names, ended>>
    BY <1>7 DEF LocalStarted
  <2>2. PICK r \in StartReceipts : receipts' = Append(receipts, r)
    BY <1>7 DEF LocalStarted
  <2>3. Tokens' = Tokens \cup {Len(receipts) + 1}
    BY <1>1, <2>2, TokensWritten DEF StoreOK, StartReceipts, Receipts
  <2>4. DOMAIN sessions' \subseteq Tokens' /\ sessions' \in [DOMAIN sessions' -> Nat]
    BY <1>1, <1>7, <2>3 DEF LocalStarted, StoreOK
  <2> QED  BY <1>1, <1>2, <2>1, <2>4 DEF StoreOK, ContentOK
<1>8. ASSUME NEW c \in Clients, LocalServed(c)
      PROVE  StoreOK'
  <2>1. UNCHANGED <<issued, challenges, sessions, ended>> /\ ContentOK'
    BY <1>8 DEF LocalServed, Finishes
  <2> QED  BY <1>1, <1>2, <2>1 DEF StoreOK
<1>9. ASSUME NEW c \in Clients, EndSession(c)
      PROVE  StoreOK'
  BY <1>1, <1>9, SessionEndedOK
<1> QED  BY <1>3, <1>4, <1>5, <1>6, <1>7, <1>8, <1>9 DEF LocalStep

LEMMA LocalTypeStep ==
  ASSUME LocalIInv, LocalStep
  PROVE  LocalTypeOK'
BY LocalLater, LocalStoreStep, LocalRequestsStep, ChainStep DEF LocalTypeOK

\* Only the work at the head of the chain has begun.
LEMMA OnlyTheFirstWorks ==
  ASSUME LocalIInv, NEW c \in Clients, exchange[c].step \notin {"idle", "queued"}
  PROVE  AtHead(c)
<1>1. ChainOK /\ chain \in Seq(Clients)
  BY DEF LocalIInv, LocalTypeOK
<1>2. DOMAIN chain = 1..Len(chain) /\ Len(chain) \in Nat
  BY <1>1, LenProperties
<1>3. PICK i \in DOMAIN chain : chain[i] = c
  BY <1>1 DEF ChainOK, Free
<1>4. i = 1
  BY <1>1, <1>2, <1>3 DEF ChainOK
<1> QED  BY <1>1, <1>2, <1>3, <1>4, EmptySeq DEF AtHead

LEMMA SpentStep ==
  ASSUME LocalIInv, LocalStep
  PROVE  Spent'
<1>1. /\ Spent /\ LocalChallengesOK /\ exchange \in [Clients -> LocalWork]
      /\ receipts \in Seq(Receipts)
      /\ \A c \in Clients : LocalSound(exchange[c])
  BY DEF LocalIInv, LocalTypeOK, StoreOK
<1> SUFFICES ASSUME NEW d \in Clients, exchange'[d].step \in {"again", "start"}
             PROVE  /\ challenges'[exchange'[d].challenge] # NULL
                    /\ \A i \in Tokens' : receipts'[i].challenge # exchange'[d].challenge
  BY DEF Spent
<1>2. ASSUME exchange[d].step \in {"again", "start"},
             exchange'[d].challenge = exchange[d].challenge,
             Tokens' = Tokens, \A i \in Tokens : receipts'[i] = receipts[i]
      PROVE  /\ challenges'[exchange'[d].challenge] # NULL
             /\ \A i \in Tokens' : receipts'[i].challenge # exchange'[d].challenge
  <2>1. exchange[d] \in LocalStartWork
    BY <1>1, <1>2, LocalWorkKinds
  <2>2. exchange[d].challenge \in DOMAIN challenges
    BY <1>1, <1>2, <2>1 DEF LocalSound
  <2>3. /\ challenges[exchange[d].challenge] # NULL
        /\ \A i \in Tokens : receipts[i].challenge # exchange[d].challenge
    BY <1>1, <1>2 DEF Spent
  <2> QED  BY <1>2, <2>2, <2>3, ChallengesStay
<1>3. CASE UNCHANGED <<exchange, receipts>>
  BY <1>2, <1>3 DEF Tokens
<1>4. ASSUME NEW c \in Clients, Queued(c) \/ LocalHandover(c)
      PROVE  exchange[d].step \in {"again", "start"} /\ exchange'[d].challenge = exchange[d].challenge
             /\ Tokens' = Tokens /\ receipts' = receipts
  <2>1. Tokens' = Tokens /\ receipts' = receipts
    BY <1>4, NothingStored DEF Queued, LocalHandover
  <2>2. CASE d # c
    BY <1>1, <1>4, <2>1, <2>2 DEF Queued, LocalHandover
  <2>3. CASE d = c
    BY <1>1, <1>4, <2>1, <2>3 DEF Queued, LocalHandover
  <2> QED  BY <2>2, <2>3
<1>5. ASSUME NEW c \in Clients, LocalConsumes(c)
      PROVE  /\ challenges'[exchange'[d].challenge] # NULL
             /\ \A i \in Tokens' : receipts'[i].challenge # exchange'[d].challenge
  <2>1. PICK w \in LocalWork :
           /\ w.challenge = exchange[c].challenge
           /\ exchange' = [exchange EXCEPT ![c] = w]
    BY <1>5 DEF LocalConsumes
  <2>2. Tokens' = Tokens /\ receipts' = receipts
    BY <1>5 DEF LocalConsumes, Tokens
  <2>3. CASE d # c
    BY <1>1, <1>2, <2>1, <2>2, <2>3
  <2>4. CASE d = c
    <3>1. exchange'[d].challenge = exchange[c].challenge
      BY <1>1, <2>1, <2>4
    <3>2. /\ exchange[c].challenge \in DOMAIN challenges
          /\ challenges[exchange[c].challenge] = NULL
          /\ challenges' = [challenges EXCEPT ![exchange[c].challenge] = now]
      BY <1>5 DEF LocalConsumes
    <3>3. now # NULL
      BY RpAssumption DEF LocalIInv, LocalTypeOK
    <3>4. \A i \in Tokens : receipts[i].challenge # exchange[c].challenge
      BY <1>1, <3>2 DEF LocalChallengesOK
    <3> QED  BY <2>2, <3>1, <3>2, <3>3, <3>4
  <2> QED  BY <2>3, <2>4
<1>6. ASSUME NEW c \in Clients, LocalStarted(c)
      PROVE  FALSE
  <2>1. /\ AtHead(c) /\ exchange' = [exchange EXCEPT ![c] = Idle]
    BY <1>6 DEF LocalStarted
  <2>2. d # c /\ exchange'[d] = exchange[d]
    BY <1>1, <2>1, LocalIdleIsSound
  <2>3. AtHead(d)
    BY <2>2, OnlyTheFirstWorks
  <2> QED  BY <2>1, <2>2, <2>3 DEF AtHead
<1>7. ASSUME NEW c \in Clients, LocalServed(c)
      PROVE  /\ challenges'[exchange'[d].challenge] # NULL
             /\ \A i \in Tokens' : receipts'[i].challenge # exchange'[d].challenge
  <2>1. exchange' = [exchange EXCEPT ![c] = Idle]
    BY <1>7 DEF LocalServed, Finishes
  <2>2. d # c /\ exchange'[d] = exchange[d]
    BY <1>1, <2>1, LocalIdleIsSound
  <2>3. PICK r : r \in ContentReceipts /\ receipts' = Append(receipts, r)
    BY <1>7 DEF LocalServed, Accepts
  <2>4. r \in Receipts /\ r.operation # "session.start"
    BY <2>3 DEF Receipts, ContentReceipts, ContentActions
  <2>5. Tokens' = Tokens /\ \A i \in Tokens : receipts'[i] = receipts[i]
    BY <1>1, <2>3, <2>4, Written, TokensWritten DEF Tokens
  <2> QED  BY <1>2, <2>2, <2>5
<1>8. \/ UNCHANGED <<exchange, receipts>>
      \/ \E c \in Clients : \/ Queued(c) \/ LocalHandover(c) \/ LocalConsumes(c)
                            \/ LocalStarted(c) \/ LocalServed(c)
  BY WorldSteps DEF LocalStep, LocalIssued, EndSession
<1> QED  BY <1>2, <1>3, <1>4, <1>5, <1>6, <1>7, <1>8

LEMMA LocalChallengesStep ==
  ASSUME LocalIInv, LocalStep
  PROVE  LocalChallengesOK'
<1>1. LocalChallengesOK /\ Spent /\ receipts \in Seq(Receipts)
  BY DEF LocalIInv, LocalTypeOK, StoreOK
<1>2. ASSUME Tokens' = Tokens, \A i \in Tokens : receipts'[i] = receipts[i]
      PROVE  LocalChallengesOK'
  BY <1>1, <1>2, ChallengesStay DEF LocalChallengesOK, ChallengeStartsOneSession
<1>3. CASE UNCHANGED receipts
  BY <1>2, <1>3 DEF Tokens
<1>4. ASSUME NEW c \in Clients, LocalStarted(c)
      PROVE  LocalChallengesOK'
  <2> DEFINE new == Len(receipts) + 1
             id == exchange[c].challenge
  <2>1. PICK r \in StartReceipts :
           receipts' = Append(receipts, r) /\ r.challenge = id /\ r.audience = "notes"
    BY <1>4 DEF LocalStarted
  <2>2. r \in Receipts /\ r.operation = "session.start"
    BY DEF Receipts, StartReceipts
  <2>3. /\ Tokens' = Tokens \cup {new} /\ new \notin Tokens
        /\ \A i \in Tokens : receipts'[i] = receipts[i]
        /\ receipts'[new] = r
    BY <1>1, <2>1, <2>2, Written, TokensWritten DEF Tokens
  <2>4. exchange[c].step = "start" /\ id \in DOMAIN challenges /\ challenges' = challenges
    BY <1>4 DEF LocalStarted
  <2>5. challenges[id] # NULL /\ \A i \in Tokens : receipts[i].challenge # id
    BY <1>1, <2>4 DEF Spent
  <2> HIDE DEF new, id
  <2>6. \A i \in Tokens' : /\ receipts'[i].challenge \in DOMAIN challenges'
                           /\ challenges'[receipts'[i].challenge] # NULL
    <3> TAKE i \in Tokens'
    <3>1. CASE i = new
      BY <2>1, <2>3, <2>4, <2>5, <3>1
    <3>2. CASE i \in Tokens
      BY <1>1, <2>3, <2>4, <3>2 DEF LocalChallengesOK
    <3> QED  BY <2>3, <3>1, <3>2
  <2>7. ChallengeStartsOneSession'
    <3>1. receipts'[new].audience = "notes" /\ receipts'[new].challenge = id
      BY <2>1, <2>3
    <3>2. \A i, j \in Tokens :
             /\ receipts'[i].audience = "notes"
             /\ receipts'[i].challenge = receipts'[j].challenge => i = j
      BY <1>1, <2>3 DEF LocalChallengesOK, ChallengeStartsOneSession
    <3>3. \A i \in Tokens : receipts'[i].challenge # id
      BY <2>3, <2>5
    <3> QED  BY <2>3, <3>1, <3>2, <3>3 DEF ChallengeStartsOneSession
  <2> QED  BY <2>6, <2>7 DEF LocalChallengesOK
<1>5. ASSUME NEW c \in Clients, LocalServed(c)
      PROVE  LocalChallengesOK'
  <2>1. PICK r : r \in ContentReceipts /\ receipts' = Append(receipts, r)
    BY <1>5 DEF LocalServed, Accepts
  <2>2. r \in Receipts /\ r.operation # "session.start"
    BY <2>1 DEF Receipts, ContentReceipts, ContentActions
  <2> QED  BY <1>1, <1>2, <2>1, <2>2, Written, TokensWritten DEF Tokens
<1>6. UNCHANGED receipts \/ \E c \in Clients : LocalStarted(c) \/ LocalServed(c)
  BY WorldSteps, NothingStored
     DEF LocalStep, LocalIssued, Queued, LocalHandover, LocalConsumes, EndSession
<1> QED  BY <1>3, <1>4, <1>5, <1>6

LEMMA LocalNotesStep ==
  ASSUME LocalIInv, LocalStep
  PROVE  NotesOK'
<1>1. NotesOK /\ receipts \in Seq(Receipts) /\ ContentOK
  BY DEF LocalIInv, LocalTypeOK, StoreOK
<1>2. CASE UNCHANGED <<receipts, notes, replies, likes>>
  <2>1. Tokens' = Tokens /\ NextNote' = NextNote
    BY <1>2 DEF Tokens, NextNote
  <2>2. \A n : ChangesOf(n)' = ChangesOf(n)
    BY <1>2, <2>1 DEF ChangesOf
  <2> QED  BY <1>1, <1>2, <2>1, <2>2 DEF NotesOK, NothingIsLost, Stored
<1>3. ASSUME NEW c \in Clients, LocalStarted(c)
      PROVE  NotesOK'
  <2>1. PICK r \in StartReceipts : receipts' = Append(receipts, r)
    BY <1>3 DEF LocalStarted
  <2>2. r \in Receipts /\ r.operation = "session.start"
    BY DEF Receipts, StartReceipts
  <2>3. UNCHANGED <<notes, replies, likes>>
    BY <1>3 DEF LocalStarted
  <2> QED  BY <1>1, <2>1, <2>2, <2>3, NotesKeptUnchanged
<1>4. ASSUME NEW c \in Clients, LocalServed(c)
      PROVE  NotesOK'
  BY <1>1, <1>4, NotesKept DEF LocalServed
<1>5. \/ UNCHANGED <<receipts, notes, replies, likes>>
      \/ \E c \in Clients : LocalStarted(c) \/ LocalServed(c)
  BY WorldSteps, NothingStored
     DEF LocalStep, LocalIssued, Queued, LocalHandover, LocalConsumes, EndSession
<1> QED  BY <1>2, <1>3, <1>4, <1>5

LEMMA LocalInvStep == LocalIInv /\ [LocalNext]_localVars => LocalIInv'
<1> SUFFICES ASSUME LocalIInv, [LocalNext]_localVars
             PROVE  LocalIInv'
  OBVIOUS
<1>1. CASE LocalNext
  <2>1. LocalStep
    BY <1>1, LocalNextStep
  <2> QED
    BY <2>1, LocalTypeStep, LocalRequestsStep, ChainStep, SpentStep, LocalChallengesStep,
       LocalLater, LocalNotesStep DEF LocalIInv
<1>2. CASE UNCHANGED localVars
  <2>1. UNCHANGED <<now, revoked, store, exchange, chain>>
    BY <1>2 DEF localVars, vars
  <2>2. LocalTypeOK' /\ \A c \in Clients : LocalSound(exchange[c])'
    BY <2>1, NothingStored
       DEF LocalIInv, LocalTypeOK, StoreOK, ContentOK, LocalSound, InGoodStanding,
           DeviceIsActive, IdentityIsActive
  <2>3. ChainOK' /\ Spent' /\ LocalChallengesOK' /\ RevokedSignersHaveNoEffect'
    BY <2>1, NothingStored
       DEF LocalIInv, ChainOK, Free, Spent, LocalChallengesOK, ChallengeStartsOneSession,
           RevokedSignersHaveNoEffect
  <2>4. NotesOK'
    BY <2>1, NothingStored DEF LocalIInv, NotesOK, NothingIsLost, ChangesOf, NextNote, Stored
  <2> QED  BY <2>2, <2>3, <2>4 DEF LocalIInv
<1> QED  BY <1>1, <1>2

-----------------------------------------------------------------------------
(* The theorems *)

\* The inductive invariant holds in every state the development server reaches.
THEOREM LocalInvHolds == LocalSpec => []LocalIInv
BY LocalInitInv, LocalInvStep, PTL DEF LocalSpec

\* Whoever waits for its turn waits for work that is going on, and only the work
\* at the head of the chain has begun (#runExclusive).
THEOREM ChainGoesOn == LocalSpec => []TheChainGoesOn
<1>1. ASSUME LocalIInv PROVE TheChainGoesOn
  <2>1. ChainOK /\ chain \in Seq(Clients)
    BY <1>1 DEF LocalIInv, LocalTypeOK
  <2>2. \A i \in DOMAIN chain : chain[i] \in Clients
    BY <2>1, LenProperties
  <2>3. {c \in Clients : ~Free(c)} = Range(chain)
    BY <2>1, <2>2 DEF ChainOK, Range
  <2> QED  BY <2>1, <2>2, <2>3 DEF TheChainGoesOn, ChainOK
<1> QED  BY <1>1, LocalInvHolds, PTL

\* A challenge starts at most one session here too, although its consumption and
\* the start of its session are steps apart, and only by a proof made for this
\* service.
THEOREM LocalChallengesStartOneSession == LocalSpec => []ChallengeStartsOneSession
<1>1. LocalIInv => ChallengeStartsOneSession
  BY DEF LocalIInv, LocalChallengesOK
<1> QED  BY <1>1, LocalInvHolds, PTL

\* A request that came after its signer was revoked has no effect here either,
\* although it may wait for its turn before the registry is asked.
THEOREM LocalRevocationsTakeEffect == LocalSpec => []RevokedSignersHaveNoEffect
<1>1. LocalIInv => RevokedSignersHaveNoEffect
  BY DEF LocalIInv
<1> QED  BY <1>1, LocalInvHolds, PTL

\* The maps in memory lose no change of a note.
THEOREM LocalNoChangeIsLost == LocalSpec => []NothingIsLost
<1>1. LocalIInv => NothingIsLost
  BY DEF LocalIInv, NotesOK
<1> QED  BY <1>1, LocalInvHolds, PTL

-----------------------------------------------------------------------------
(* The relying party as it is deployed *)

\* A deployment keeps the invariant of what it runs.
RpInv ==
  \/ deployment = "worker" /\ IInv
  \/ deployment = "development" /\ LocalIInv

LEMMA RpInitInv == RpInit => RpInv
BY InitInv, LocalInitInv DEF RpInit, RpInv, LocalInit

LEMMA RpInvStep == RpInv /\ [RpNext]_rpVars => RpInv'
<1> SUFFICES ASSUME RpInv, [RpNext]_rpVars PROVE RpInv'
  OBVIOUS
<1>1. UNCHANGED deployment
  BY DEF RpNext, rpVars
<1>2. CASE deployment = "worker"
  <2>1. [Next]_vars
    BY <1>2 DEF RpNext, rpVars, localVars
  <2>2. IInv'
    BY <1>2, <2>1, InvStep DEF RpInv
  <2> QED
    BY <1>1, <1>2, <2>2 DEF RpInv
<1>3. CASE deployment = "development"
  <2>1. [LocalNext]_localVars
    BY <1>3 DEF RpNext, rpVars
  <2>2. LocalIInv'
    BY <1>3, <2>1, LocalInvStep DEF RpInv
  <2> QED
    BY <1>1, <1>3, <2>2 DEF RpInv
<1> QED
  BY <1>2, <1>3 DEF RpInv

\* The inductive invariant of either deployment holds in every state it reaches.
THEOREM RpInvHolds == RpSpec => []RpInv
BY RpInitInv, RpInvStep, PTL DEF RpSpec

\* Unless it is the development server that is deployed, a session that expired
\* or was ended has no further effect (#commitSessionOperation).
THEOREM DeployedSessionsEnd == RpSpec => []ServiceSessionsEnd
<1>1. RpInv => ServiceSessionsEnd
  BY DEF RpInv, ServiceSessionsEnd, IInv, SessionsOK
<1> QED  BY <1>1, RpInvHolds, PTL

\* Unless it is the development server that is deployed, the stored challenges
\* keep their caps (#issueChallenge).
THEOREM DeployedStoreIsBounded == RpSpec => []ServiceStoreIsBounded
<1>1. RpInv => ServiceStoreIsBounded
  BY DEF RpInv, ServiceStoreIsBounded, IInv
<1> QED  BY <1>1, RpInvHolds, PTL
=============================================================================
