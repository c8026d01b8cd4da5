---------------------------- MODULE SignInProofs ----------------------------
(***************************************************************************)
(* Theorems about SignIn, for any number of functions under way on the     *)
(* page, any number of logins and any bounds.                              *)
(*                                                                         *)
(* A login is followed by the challenge it was issued.  No two runs hold   *)
(* the same one, a run that can still be cancelled (Early) has no session  *)
(* yet, and a run that holds a challenge has not been cancelled: so a      *)
(* session is never started for a cancelled login, whatever the popups,    *)
(* the messages and the reloads of the page do in between.                 *)
(*                                                                         *)
(* Its second half (from PageInv on) is about the notes of the same page,  *)
(* NotesPage.                                                              *)
(***************************************************************************)
EXTENDS SignIn, ReferenceRpPage, FiniteSetTheorems, TLAPS

Codes == {"READY", "RESULT", "USER_CANCELLED", "CHALLENGE_EXPIRED"}

\* What popup j can post: a proof it posts is a proof of its own challenge.
Messages == [type : Codes, proof : Logins \cup {NULL}]
MessagesOf(j) == {m \in Messages : m.type = "RESULT" => m.proof = j}

Requests == [open : BOOLEAN, sent : BOOLEAN, expiresAt : Nat, deadline : Nat]

Windows == [window : {"none", "loading", "open", "closed"}, mail : BOOLEAN,
            pending : BOOLEAN, proving : BOOLEAN, proved : BOOLEAN]

Holders == {"login", "orphan"}
EarlySteps == {"issued", "wallet"}
HoldingSteps == EarlySteps \cup {"submit", "started", "refused", "refresh"}

\* A run that holds a challenge; any other; and the restored session.
Holding == [kind : Holders, step : HoldingSteps, id : Logins, aborted : BOOLEAN, token : {NULL}]

Others ==
  [kind : {"login", "operation", "logout", "orphan"},
   step : {"call", "session", "done", "invalid", "refused", "refresh", "refreshRejected", "ended"},
   aborted : BOOLEAN, token : Logins \cup {NULL}]

Restores == [kind : {"restore"}, step : {"call", "session", "invalid"},
             token : Logins \cup {NULL}]

\* A login without a challenge and a logout, on the page or not, are at a step
\* of their own.
Waiting == {w \in Others : w.kind # "operation" => w.step \in {"call", "ended"}}

FlowRecords == {Idle} \cup Holding \cup Waiting \cup Restores

Pages == [stage : {"idle", "challenge", "wallet", "verifying", "approved", "cancelled", "error"},
          session : Logins \cup {NULL}, abort : Flows \cup {NULL}]

PopupTypeOK ==
  /\ now \in Nat
  /\ requests \in [Logins -> Requests]
  /\ popups \in [Logins -> Windows]
  /\ toPage \in [Logins -> Seq(Messages)]
  /\ \A j \in Logins : toPage[j] \in Seq(MessagesOf(j))
  /\ faults \in 0..MaxFaults

\* Challenges are numbered in the order they are issued.
ChallengesOK ==
  \E n \in Nat :
    /\ 1..n \subseteq Logins
    /\ challenges \in [1..n -> [expiresAt : Nat, used : BOOLEAN]]

TypeOK ==
  /\ PopupTypeOK
  /\ page \in Pages
  /\ flows \in [Flows -> FlowRecords]
  /\ ChallengesOK
  /\ sessions \in [DOMAIN sessions -> Nat]
  /\ ended \subseteq Logins
  /\ cookie \in Logins \cup {NULL}
  /\ submitted \subseteq Logins \X (Logins \cup {NULL})
  /\ cancelled \subseteq Logins

Holds(w) == w.kind \in Holders /\ w.step \in HoldingSteps
Early(w) == w.kind \in Holders /\ w.step \in EarlySteps

HeldOnce ==
  \A f, g \in Flows : Holds(flows[f]) /\ Holds(flows[g]) /\ flows[f].id = flows[g].id => f = g

HeldOK ==
  \A f \in Flows : Holds(flows[f]) =>
    /\ flows[f].id \in DOMAIN challenges
    /\ flows[f].id \notin cancelled
    /\ Early(flows[f]) => flows[f].id \notin DOMAIN sessions

\* Only a challenge that was issued is cancelled or has a session.
Recorded == cancelled \subseteq DOMAIN challenges /\ DOMAIN sessions \subseteq DOMAIN challenges

\* What is on the page, or on its way to it, is a session of the service.
SessionsOK ==
  /\ page.session # NULL => page.session \in DOMAIN sessions
  /\ \A f \in Flows :
       /\ flows[f].step = "session" => flows[f].token \in DOMAIN sessions
       /\ flows[f].step = "started" => flows[f].id \in DOMAIN sessions

IInv ==
  /\ TypeOK
  /\ HeldOnce
  /\ HeldOK
  /\ Recorded
  /\ CancelledLoginsHaveNoSession
  /\ LoginsSubmitTheirOwnProof
  /\ SessionsOK

-----------------------------------------------------------------------------
(* Lemmas about the runs *)

\* A run that holds a challenge is a record of Holding.
LEMMA HoldersHold ==
  ASSUME NEW w \in FlowRecords
  PROVE  /\ Holds(w) <=> w \in Holding
         /\ Early(w) => Holds(w)
  BY DEF FlowRecords, Idle, Holding, Waiting, Others, Restores, Holds, Early, Holders,
         HoldingSteps, EarlySteps

\* A run that holds a challenge moves on, and keeps it.
LEMMA HoldersMove ==
  ASSUME NEW w \in Holding, NEW s \in HoldingSteps, NEW next, next = [w EXCEPT !.step = s]
  PROVE  /\ next \in Holding /\ next.kind = w.kind /\ next.step = s
         /\ next.id = w.id /\ next.aborted = w.aborted /\ next.token = w.token
  BY DEF Holding

LEMMA WaitersMove ==
  ASSUME NEW w \in Waiting, NEW s \in STRING, NEW next, next = [w EXCEPT !.step = s],
         [w EXCEPT !.step = s] \in Waiting
  PROVE  next.kind = w.kind /\ next.step = s /\ next.token = w.token
  BY DEF Waiting, Others

-----------------------------------------------------------------------------
(* The popup: what can reach the page, and who posted it *)

LEMMA TakingAMessage ==
  ASSUME PopupTypeOK, NEW j \in Logins, toPage[j] # <<>>, TakeMessage(j)
  PROVE  /\ Message(j) \in MessagesOf(j)
         /\ toPage' \in [Logins -> Seq(Messages)]
         /\ \A k \in Logins : toPage'[k] \in Seq(MessagesOf(k))
<1>1. toPage[j] \in Seq(Messages) /\ toPage[j] \in Seq(MessagesOf(j))
  BY DEF PopupTypeOK
<1>2. Message(j) \in MessagesOf(j) /\ Tail(toPage[j]) \in Seq(MessagesOf(j))
  BY <1>1 DEF Message
<1>3. Tail(toPage[j]) \in Seq(Messages)
  BY <1>1
<1> QED
  BY <1>2, <1>3 DEF PopupTypeOK, TakeMessage

LEMMA PostingAMessage ==
  ASSUME PopupTypeOK, NEW j \in Logins, NEW m \in MessagesOf(j), Post(j, m)
  PROVE  /\ toPage' \in [Logins -> Seq(Messages)]
         /\ \A k \in Logins : toPage'[k] \in Seq(MessagesOf(k))
<1>1. toPage[j] \in Seq(Messages) /\ toPage[j] \in Seq(MessagesOf(j))
  BY DEF PopupTypeOK
<1>2. Append(toPage[j], m) \in Seq(MessagesOf(j))
  BY <1>1
<1>3. Append(toPage[j], m) \in Seq(Messages)
  BY <1>1 DEF MessagesOf
<1> QED
  BY <1>2, <1>3 DEF PopupTypeOK, Post

\* A request is settled once, with its window closed.
LEMMA Settling ==
  ASSUME PopupTypeOK, NEW id \in Logins, Settle(id)
  PROVE  requests' \in [Logins -> Requests] /\ popups' \in [Logins -> Windows]
<1>1. [requests[id] EXCEPT !.open = FALSE] \in Requests
  BY DEF PopupTypeOK, Requests
<1>2. Window("closed") \in Windows
  BY DEF Window, Windows
<1> QED
  BY <1>1, <1>2 DEF PopupTypeOK, Settle

\* However a request is settled, a result is a proof of its own challenge.
SettledBy(id, outcome) ==
  \/ ReceiveAnswer(id, outcome) \/ TimesOut(id, outcome)
  \/ FoundClosed(id, outcome) \/ Aborted(id, outcome)

LEMMA SettledRight ==
  ASSUME PopupTypeOK, NEW id \in Logins, NEW outcome, SettledBy(id, outcome), UNCHANGED now
  PROVE  PopupTypeOK' /\ (outcome.type = "RESULT" => outcome.proof = id)
<1>1. CASE ReceiveAnswer(id, outcome)
  <2>1. Settle(id) /\ TakeMessage(id) /\ toPage[id] # <<>> /\ outcome = Message(id)
        /\ UNCHANGED faults
    BY <1>1 DEF ReceiveAnswer, FromItsWallet
  <2> QED
    BY <2>1, Settling, TakingAMessage DEF PopupTypeOK, MessagesOf
<1>2. CASE TimesOut(id, outcome) \/ FoundClosed(id, outcome) \/ Aborted(id, outcome)
  <2>1. Settle(id) /\ outcome.type # "RESULT" /\ UNCHANGED <<toPage, faults>>
    BY <1>2 DEF TimesOut, FoundClosed, Aborted, Failed
  <2> QED
    BY <2>1, Settling DEF PopupTypeOK
<1> QED
  BY <1>1, <1>2 DEF SettledBy

\* The popup is opened.
LEMMA Opening ==
  ASSUME PopupTypeOK, NEW id \in Logins, NEW expiry \in Nat,
         TimeoutAfter \in Nat, RequestProof(id, expiry), UNCHANGED now
  PROVE  PopupTypeOK'
<1>1. Earlier(now + TimeoutAfter, expiry) \in Nat
  BY DEF PopupTypeOK, Earlier
<1>2. Window("loading") \in Windows
  BY DEF Window, Windows
<1> QED
  BY <1>1, <1>2 DEF PopupTypeOK, RequestProof, Requests

\* A message is heard by its request, or by nobody.
LEMMA Hearing ==
  ASSUME PopupTypeOK, NEW id \in Logins, Hear(id)
  PROVE  PopupTypeOK'
<1>1. CASE ReceiveReady(id)
  <2>1. TakeMessage(id) /\ toPage[id] # <<>> /\ UNCHANGED <<now, faults>>
    BY <1>1 DEF ReceiveReady, FromItsWallet, Hear
  <2>2. requests' \in [Logins -> Requests]
    <3>1. [requests[id] EXCEPT !.sent = TRUE] \in Requests
      BY DEF PopupTypeOK, Requests
    <3>2. requests' = requests \/ requests' = [requests EXCEPT ![id].sent = TRUE]
      BY <1>1 DEF ReceiveReady, FromItsWallet
    <3> QED
      BY <3>1, <3>2 DEF PopupTypeOK
  <2>3. \A b \in BOOLEAN : [popups[id] EXCEPT !.mail = b] \in Windows
    BY DEF PopupTypeOK, Windows
  <2>4. (popups[id].window = "open") \in BOOLEAN
    OBVIOUS
  <2>5. \/ popups' = popups
        \/ popups' = [popups EXCEPT ![id].mail = (popups[id].window = "open")]
    BY <1>1 DEF ReceiveReady, FromItsWallet
  <2>6. popups' \in [Logins -> Windows]
    BY <2>3, <2>4, <2>5 DEF PopupTypeOK
  <2> QED
    BY <2>1, <2>2, <2>6, TakingAMessage DEF PopupTypeOK
<1>2. CASE Unheard(id)
  BY <1>2, TakingAMessage DEF Unheard, PopupTypeOK, Hear
<1> QED
  BY <1>1, <1>2 DEF Hear

\* The wallet posts, of proofs, the one of the challenge of its popup.
LEMMA WalletKeepsPopups ==
  ASSUME PopupTypeOK, NEW id \in Logins, WalletStep(id), UNCHANGED now
  PROVE  PopupTypeOK'
<1> USE DEF PopupTypeOK
<1>0. \A w \in {"none", "loading", "open", "closed"} : Window(w) \in Windows
  BY DEF Window, Windows
<1>1. CASE Load(id)
  <2>1. [type |-> "READY", proof |-> NULL] \in MessagesOf(id)
    BY DEF MessagesOf, Messages, Codes
  <2> QED
    BY <1>0, <1>1, <2>1, PostingAMessage DEF Load
<1>2. CASE Reload(id)
  BY <1>0, <1>2, PopupAssumption DEF Reload, Fault
<1>3. CASE UserCloses(id)
  BY <1>0, <1>3 DEF UserCloses
<1>4. CASE WalletReceives(id) \/ Approve(id) \/ Prove(id)
  <2>1. \A b \in BOOLEAN :
          /\ [popups[id] EXCEPT !.mail = FALSE, !.pending = b] \in Windows
          /\ [popups[id] EXCEPT !.proving = b] \in Windows
          /\ [popups[id] EXCEPT !.proved = b] \in Windows
    BY DEF Windows
  <2>2. (popups[id].pending \/ requests[id].expiresAt > now) \in BOOLEAN
    OBVIOUS
  <2>3. CASE WalletReceives(id)
    <3>1. popups' = [popups EXCEPT ![id] = [popups[id] EXCEPT !.mail = FALSE,
            !.pending = popups[id].pending \/ requests[id].expiresAt > now]]
      BY <2>3 DEF WalletReceives
    <3> QED
      BY ZenonT(40), <2>1, <2>2, <2>3, <3>1 DEF WalletReceives
  <2>4. CASE Approve(id)
    BY <2>1, <2>4 DEF Approve
  <2>5. CASE Prove(id)
    BY <2>1, <2>5 DEF Prove
  <2> QED
    BY <1>4, <2>3, <2>4, <2>5
<1>5. CASE PostProof(id)
  <2>1. [type |-> "RESULT", proof |-> id] \in MessagesOf(id)
    BY DEF MessagesOf, Messages, Codes
  <2> QED
    BY <1>0, <1>5, <2>1, PostingAMessage DEF PostProof
<1>6. CASE Deny(id)
  <2>1. \A code \in {"CHALLENGE_EXPIRED", "USER_CANCELLED"} : Failed(code) \in MessagesOf(id)
    BY DEF MessagesOf, Messages, Codes, Failed
  <2> QED
    BY <1>0, <1>6, <2>1, PostingAMessage DEF Deny
<1> QED
  BY <1>1, <1>2, <1>3, <1>4, <1>5, <1>6 DEF WalletStep

LEMMA Faulting ==
  ASSUME PopupTypeOK, Fault
  PROVE  faults' \in 0..MaxFaults
  BY PopupAssumption DEF PopupTypeOK, Fault

-----------------------------------------------------------------------------
(* What a step does to the runs *)

\* A run holds a challenge only if it did, the same, and can be cancelled only
\* if it could.
Continues(w, next) ==
  /\ Holds(next) => Holds(w) /\ next.id = w.id
  /\ Early(next) => Early(w)

\* The runs go on, with no challenge, session or cancelled login more.
GoOn ==
  /\ flows' \in [Flows -> FlowRecords]
  /\ \A g \in Flows : Continues(flows[g], flows'[g])
  /\ UNCHANGED <<challenges, sessions, cancelled>>

CancelsOne ==
  \E f \in Flows :
    /\ Early(flows[f])
    /\ flows' = [flows EXCEPT ![f] = Idle]
    /\ cancelled' = cancelled \cup {flows[f].id}
    /\ UNCHANGED <<challenges, sessions>>

IssuesOne ==
  \E f \in Flows, next \in Holding :
    /\ next.id = Cardinality(DOMAIN challenges) + 1
    /\ flows' = [flows EXCEPT ![f] = next]
    /\ DOMAIN challenges' = DOMAIN challenges \cup {next.id}
    /\ UNCHANGED <<sessions, cancelled>>

StartsOne ==
  \E f \in Flows, next \in Holding :
    /\ Holds(flows[f]) /\ next.id = flows[f].id /\ ~Early(next)
    /\ flows' = [flows EXCEPT ![f] = next]
    /\ DOMAIN sessions' = DOMAIN sessions \cup {next.id}
    /\ DOMAIN challenges' = DOMAIN challenges
    /\ UNCHANGED cancelled

Shape == GoOn \/ CancelsOne \/ IssuesOne \/ StartsOne

Effect == TypeOK' /\ Shape /\ LoginsSubmitTheirOwnProof' /\ SessionsOK'

Tokens == Logins \cup {NULL}

\* A run whose next step reads a session has it.
Backed(w) ==
  /\ w.step = "session" => w.token \in DOMAIN sessions
  /\ w.step = "started" => w.id \in DOMAIN sessions

\* A step of one run that leaves the challenges, the sessions and the logins
\* submitted or cancelled as they are.
LEMMA OneGoesOn ==
  ASSUME IInv, NEW f \in Flows, NEW next \in FlowRecords,
         flows' = [flows EXCEPT ![f] = next], Continues(flows[f], next), Backed(next),
         UNCHANGED <<challenges, sessions, history>>,
         PopupTypeOK', ended' \subseteq Logins, cookie' \in Tokens,
         page' \in Pages, page'.session \in DOMAIN sessions \cup {NULL}
  PROVE  Effect
<1>1. flows' \in [Flows -> FlowRecords] /\ \A g \in Flows : Continues(flows[g], flows'[g])
  BY DEF IInv, TypeOK, Continues
<1>2. TypeOK'
  BY <1>1 DEF IInv, TypeOK, ChallengesOK, history, Tokens
<1>3. LoginsSubmitTheirOwnProof'
  BY DEF IInv, LoginsSubmitTheirOwnProof, history
<1>4. SessionsOK'
  BY DEF IInv, TypeOK, SessionsOK, Backed
<1> QED
  BY <1>1, <1>2, <1>3, <1>4 DEF Effect, Shape, GoOn, history

\* The runs a step leaves as they are.
LEMMA NoneMoves ==
  ASSUME IInv, UNCHANGED <<flows, server, cookie, history>>,
         PopupTypeOK', page' \in Pages, page'.session \in DOMAIN sessions \cup {NULL}
  PROVE  Effect
<1>1. \A g \in Flows : Continues(flows[g], flows'[g])
  BY DEF Continues
<1>2. TypeOK'
  BY DEF IInv, TypeOK, ChallengesOK, history, server
<1>3. LoginsSubmitTheirOwnProof'
  BY DEF IInv, LoginsSubmitTheirOwnProof, history
<1>4. SessionsOK'
  BY DEF IInv, SessionsOK, server
<1> QED
  BY <1>1, <1>2, <1>3, <1>4 DEF Effect, Shape, GoOn, history, server, IInv, TypeOK

LEMMA SamePopups ==
  ASSUME PopupTypeOK, UNCHANGED <<now, popupVars>>
  PROVE  PopupTypeOK'
  BY DEF PopupTypeOK, popupVars

LEMMA FaultyPopups ==
  ASSUME PopupTypeOK, Fault \/ UNCHANGED faults, UNCHANGED <<now, requests, popups, toPage>>
  PROVE  PopupTypeOK'
  BY Faulting DEF PopupTypeOK

\* Which record a run is, by its kind and step.
LEMMA Kinds ==
  ASSUME NEW w \in FlowRecords
  PROVE  /\ w.kind = "none" => w = Idle
         /\ w.kind \in Holders /\ w.step \in HoldingSteps => w \in Holding
         /\ w.kind \in Holders /\ w.step \in {"call", "ended"} => w \in Waiting
         /\ w.kind \in {"operation", "logout"} => w \in Waiting
         /\ w.kind = "restore" => w \in Restores
  BY DEF FlowRecords, Idle, Holding, Waiting, Others, Restores, Holders, HoldingSteps, EarlySteps

LEMMA IdleIsQuiet ==
  /\ Idle \in FlowRecords /\ Backed(Idle)
  /\ \A w : Continues(w, Idle)
  BY DEF FlowRecords, Idle, Backed, Continues, Holds, Early, Holders

\* A function of the page starts.
LEMMA Starting ==
  ASSUME IInv, NEW f \in Flows, NEW kind \in {"login", "operation", "logout"}, Start(f, kind),
         UNCHANGED <<now, popupVars, server, cookie, history>>,
         page' \in Pages, page'.session = page.session
  PROVE  Effect
<1> DEFINE next == [kind |-> kind, step |-> "call", aborted |-> FALSE, token |-> cookie]
<1>1. next \in Waiting
  BY DEF IInv, TypeOK, Waiting, Others, Holders
<1>2. next \in FlowRecords /\ ~Holds(next) /\ ~Early(next) /\ Backed(next)
  BY <1>1 DEF FlowRecords, Holds, Early, Backed, HoldingSteps, EarlySteps
<1>3. flows' = [flows EXCEPT ![f] = next]
  BY DEF Start, Go
<1>4. PopupTypeOK'
  BY SamePopups DEF IInv, TypeOK
<1> HIDE DEF next
<1> QED
  BY <1>2, <1>3, <1>4, OneGoesOn
     DEF Continues, server, IInv, TypeOK, SessionsOK, Tokens

-----------------------------------------------------------------------------
(* Logging in *)

LEMMA StartLoginEffect ==
  ASSUME IInv, NEW f \in Flows, StartLogin(f)
  PROVE  Effect
<1>1. page' \in Pages /\ page'.session = page.session
  BY DEF StartLogin, IInv, TypeOK, Pages
<1> QED
  BY <1>1, Starting DEF StartLogin

LEMMA ServerIssuesEffect ==
  ASSUME IInv, NEW f \in Flows, ServerIssues(f)
  PROVE  Effect
<1>1. PICK id \in Logins :
        /\ id = Cardinality(DOMAIN challenges) + 1
        /\ challenges' = [k \in DOMAIN challenges \cup {id} |->
              IF k = id THEN [expiresAt |-> now + ChallengeTtl, used |-> FALSE]
              ELSE challenges[k]]
        /\ Go(f, [kind |-> "login", step |-> "issued", id |-> id,
                  aborted |-> flows[f].aborted, token |-> NULL])
  BY DEF ServerIssues
<1>2. PICK n \in Nat : /\ 1..n \subseteq Logins
                       /\ challenges \in [1..n -> [expiresAt : Nat, used : BOOLEAN]]
  BY DEF IInv, TypeOK, ChallengesOK
<1>3. DOMAIN challenges = 1..n /\ Cardinality(1..n) = n
  BY <1>2, FS_Interval
<1>4. id = n + 1 /\ 1..n \cup {id} = 1..(n + 1)
  BY <1>1, <1>3
<1>5. now + ChallengeTtl \in Nat
  BY SignInAssumption DEF IInv, TypeOK, PopupTypeOK
<1>6. challenges' \in [1..(n + 1) -> [expiresAt : Nat, used : BOOLEAN]]
  <2> DEFINE fresh == [expiresAt |-> now + ChallengeTtl, used |-> FALSE]
  <2>1. fresh \in [expiresAt : Nat, used : BOOLEAN]
    BY <1>5
  <2>2. challenges' = [k \in 1..(n + 1) |-> IF k = id THEN fresh ELSE challenges[k]]
    BY <1>1, <1>3, <1>4
  <2> HIDE DEF fresh
  <2> QED
    BY <1>2, <1>4, <2>1, <2>2
<1>7. ChallengesOK'
  <2>1. 1..(n + 1) \subseteq Logins
    BY <1>1, <1>2, <1>4
  <2> QED
    BY <1>2, <1>6, <2>1 DEF ChallengesOK
<1>8. DOMAIN challenges' = DOMAIN challenges \cup {id}
  BY <1>1
<1> DEFINE next == [kind |-> "login", step |-> "issued", id |-> id,
                    aborted |-> flows[f].aborted, token |-> NULL]
<1>9. next \in Holding /\ next.id = id /\ next.step = "issued"
  <2>1. flows[f] \in Waiting
    BY Kinds DEF IInv, TypeOK, ServerIssues, At, Holders
  <2> QED
    BY <2>1 DEF Waiting, Others, Holding, Holders, HoldingSteps, EarlySteps
<1>10. flows' = [flows EXCEPT ![f] = next]
  BY <1>1 DEF Go
<1> HIDE DEF next
<1>11. next \in FlowRecords
  BY <1>9 DEF FlowRecords
<1>12. UNCHANGED <<now, popupVars, page, sessions, ended, cookie, submitted, cancelled>>
  BY DEF ServerIssues, history
<1>13. TypeOK'
  BY <1>7, <1>10, <1>11, <1>12, SamePopups DEF IInv, TypeOK
<1>14. SessionsOK'
  BY <1>9, <1>10, <1>12 DEF IInv, TypeOK, SessionsOK
<1>15. IssuesOne
  BY <1>1, <1>8, <1>9, <1>10, <1>12 DEF IssuesOne
<1> QED
  BY <1>12, <1>13, <1>14, <1>15
     DEF Effect, Shape, IInv, LoginsSubmitTheirOwnProof

\* A login ends.  It is recorded as cancelled only if it could be.
LEMMA LoginFailing ==
  ASSUME IInv, NEW f \in Flows, NEW code, LoginFails(f, code), PopupTypeOK',
         code \in CodesOfCancelling => Early(flows[f])
  PROVE  Effect
<1>1. page' \in Pages /\ page'.session = page.session
  BY DEF LoginFails, IInv, TypeOK, Pages
<1>2. flows' = [flows EXCEPT ![f] = Idle]
      /\ UNCHANGED <<challenges, sessions, ended, cookie, submitted>>
  BY DEF LoginFails, Go, server
<1>3. ended' \subseteq Logins /\ cookie' \in Tokens
      /\ page'.session \in DOMAIN sessions \cup {NULL}
  BY <1>1, <1>2 DEF IInv, TypeOK, Tokens, SessionsOK
<1>4. CASE code \in CodesOfCancelling
  <2>1. flows[f] \in Holding
    BY <1>4, HoldersHold DEF IInv, TypeOK
  <2>2. "id" \in DOMAIN flows[f] /\ flows[f].id \in Logins
    BY <2>1 DEF Holding
  <2>3. cancelled' = cancelled \cup {flows[f].id}
    BY <1>4, <2>2 DEF LoginFails
  <2>4. CancelsOne
    BY <1>2, <1>4, <2>3 DEF CancelsOne
  <2>5. TypeOK'
    BY <1>1, <1>2, <1>3, <2>2, <2>3, IdleIsQuiet DEF IInv, TypeOK, ChallengesOK, Tokens
  <2>6. SessionsOK'
    BY <1>1, <1>2 DEF IInv, TypeOK, SessionsOK, Idle
  <2> QED
    BY <1>2, <2>4, <2>5, <2>6 DEF Effect, Shape, IInv, LoginsSubmitTheirOwnProof
<1>5. CASE code \notin CodesOfCancelling
  <2>1. UNCHANGED history
    BY <1>2, <1>5 DEF LoginFails, history
  <2> QED
    BY <1>1, <1>2, <1>3, <2>1, IdleIsQuiet, OneGoesOn
<1> QED
  BY <1>4, <1>5

LEMMA NoChallengeEffect ==
  ASSUME IInv, NEW f \in Flows, NoChallenge(f)
  PROVE  Effect
<1>1. PopupTypeOK'
  BY FaultyPopups DEF NoChallenge, IInv, TypeOK
<1> QED
  BY <1>1, LoginFailing DEF NoChallenge, CodesOfCancelling

\* A login holding its challenge shows the wallet, or submits what it got.
LEMMA OpenWalletEffect ==
  ASSUME IInv, NEW f \in Flows, OpenWallet(f)
  PROVE  Effect
<1>1. flows[f] \in Holding /\ Early(flows[f]) /\ Holds(flows[f])
  BY Kinds DEF IInv, TypeOK, OpenWallet, At, Early, Holds, Holders, HoldingSteps, EarlySteps
<1> DEFINE id == flows[f].id
           refusal == RequestRefusal(challenges[id].expiresAt, flows[f].aborted)
<1>2. id \in Logins /\ challenges[id].expiresAt \in Nat
  <2>1. id \in DOMAIN challenges
    BY <1>1 DEF IInv, HeldOK
  <2> QED
    BY <1>1, <2>1 DEF IInv, TypeOK, ChallengesOK, Holding
<1>3. CASE refusal # "OK"
  <2>1. LoginFails(f, refusal) /\ UNCHANGED <<now, popupVars>>
    BY <1>3 DEF OpenWallet
  <2>2. PopupTypeOK'
    BY <2>1, SamePopups DEF IInv, TypeOK
  <2> HIDE DEF refusal
  <2> QED
    BY <1>1, <2>1, <2>2, LoginFailing
<1>4. CASE PopupBlocked(id) /\ LoginFails(f, "POPUP_BLOCKED")
  <2>1. PopupTypeOK'
    BY <1>4, FaultyPopups DEF PopupBlocked, OpenWallet, IInv, TypeOK
  <2> QED
    BY <1>1, <1>4, <2>1, LoginFailing
<1>5. CASE /\ RequestProof(id, challenges[id].expiresAt)
           /\ Show("wallet") /\ Advance(f, "wallet")
           /\ UNCHANGED <<server, cookie, history>>
  <2>1. PopupTypeOK'
    BY <1>2, <1>5, Opening, PopupAssumption DEF OpenWallet, IInv, TypeOK
  <2>2. PICK next : next = [flows[f] EXCEPT !.step = "wallet"]
    OBVIOUS
  <2>3. next \in Holding /\ next.id = flows[f].id /\ next.step = "wallet"
    BY <1>1, <2>2, HoldersMove DEF HoldingSteps, EarlySteps
  <2>4. flows' = [flows EXCEPT ![f] = next] /\ next \in FlowRecords
    BY <1>5, <2>2, <2>3 DEF Advance, Go, FlowRecords
  <2>5. page' \in Pages /\ page'.session = page.session
    BY <1>5 DEF Show, IInv, TypeOK, Pages
  <2>6. Continues(flows[f], next) /\ Backed(next)
    BY <1>1, <2>3 DEF Continues, Backed
  <2>7. page'.session \in DOMAIN sessions \cup {NULL} /\ cookie' \in Tokens /\ ended' \subseteq Logins
    BY <1>5, <2>5 DEF IInv, SessionsOK, TypeOK, Tokens, server
  <2> QED
    BY <1>5, <2>1, <2>4, <2>5, <2>6, <2>7, OneGoesOn DEF server
<1> QED
  BY <1>3, <1>4, <1>5 DEF OpenWallet

\* A proof that arrives is one of the challenge of its login.
LEMMA ProofSettlesEffect ==
  ASSUME IInv, NEW f \in Flows, ProofSettles(f)
  PROVE  Effect
<1>1. flows[f] \in Holding /\ Early(flows[f]) /\ Holds(flows[f])
  BY Kinds DEF IInv, TypeOK, ProofSettles, At, Early, Holds, Holders, HoldingSteps, EarlySteps
<1>2. flows[f].id \in Logins
  BY <1>1 DEF Holding
<1>3. PICK outcome :
        /\ SettledBy(flows[f].id, outcome)
        /\ Continue(f, outcome)
        /\ outcome.type = "RESULT" => outcome.proof \in Logins \cup {NULL}
  <2>1. PICK code \in {"USER_CANCELLED", "CHALLENGE_EXPIRED", "POPUP_CLOSED", "REQUEST_TIMEOUT",
                       "RESULT"}, proof \in Logins \cup {NULL} :
          LET outcome == [type |-> code, proof |-> proof] IN
          /\ \/ ReceiveAnswer(flows[f].id, outcome) \/ TimesOut(flows[f].id, outcome)
             \/ FoundClosed(flows[f].id, outcome)
          /\ Continue(f, outcome)
    BY DEF ProofSettles
  <2>2. PICK outcome : outcome = [type |-> code, proof |-> proof]
    OBVIOUS
  <2>3. outcome.proof = proof
    BY <2>2
  <2> QED
    BY <2>1, <2>2, <2>3 DEF SettledBy
<1>4. PopupTypeOK' /\ (outcome.type = "RESULT" => outcome.proof = flows[f].id)
  BY <1>2, <1>3, SettledRight DEF ProofSettles, IInv, TypeOK
<1>5. CASE outcome.type = "RESULT"
  <2>1. Submit(f, flows[f].id)
    BY <1>3, <1>4, <1>5 DEF Continue
  <2>2. PICK next : next = [flows[f] EXCEPT !.step = "submit"]
    OBVIOUS
  <2>3. next \in Holding /\ next.id = flows[f].id /\ next.step = "submit"
    BY <1>1, <2>2, HoldersMove DEF HoldingSteps, EarlySteps
  <2>4. flows' = [flows EXCEPT ![f] = next] /\ next \in FlowRecords
    BY <2>1, <2>2, <2>3 DEF Submit, Go, FlowRecords
  <2>5. UNCHANGED <<challenges, sessions, ended, cookie, cancelled>>
        /\ submitted' = submitted \cup {<<flows[f].id, flows[f].id>>}
    BY <2>1 DEF Submit, server
  <2>6. page' \in Pages /\ page'.session = page.session
    BY <2>1 DEF Submit, Show, IInv, TypeOK, Pages
  <2>7. Continues(flows[f], next) /\ Backed(next)
    BY <1>1, <2>3 DEF Continues, Backed, Early, EarlySteps
  <2>8. TypeOK'
    BY <1>2, <1>4, <2>4, <2>5, <2>6 DEF IInv, TypeOK, ChallengesOK
  <2>9. LoginsSubmitTheirOwnProof'
    BY <2>5 DEF IInv, LoginsSubmitTheirOwnProof
  <2>10. SessionsOK'
    BY <2>4, <2>5, <2>6, <2>7 DEF IInv, TypeOK, SessionsOK, Backed
  <2>11. GoOn
    <3>1. \A g \in Flows : Continues(flows[g], flows'[g])
      BY <2>4, <2>7 DEF Continues, IInv, TypeOK
    <3> QED
      BY <2>5, <2>8, <3>1 DEF GoOn, TypeOK
  <2> QED
    BY <2>8, <2>9, <2>10, <2>11 DEF Effect, Shape
<1>6. CASE outcome.type # "RESULT"
  BY <1>1, <1>3, <1>4, <1>6, LoginFailing DEF Continue
<1> QED
  BY <1>5, <1>6

LEMMA ServerStartsEffect ==
  ASSUME IInv, NEW f \in Flows, ServerStarts(f)
  PROVE  Effect
<1>1. flows[f] \in Holding /\ Holds(flows[f]) /\ ~Early(flows[f])
  BY Kinds DEF IInv, TypeOK, ServerStarts, At, Early, Holds, Holders, HoldingSteps, EarlySteps
<1>2. PopupTypeOK' /\ UNCHANGED <<page, cookie, submitted, cancelled>>
  BY SamePopups DEF ServerStarts, IInv, TypeOK, history
<1>3. \A s \in {"started", "refused"} : \A next : next = [flows[f] EXCEPT !.step = s] =>
        /\ next \in Holding /\ next.id = flows[f].id /\ next.step = s
        /\ next \in FlowRecords /\ ~Early(next)
  BY <1>1, HoldersMove DEF HoldingSteps, EarlySteps, FlowRecords, Early
<1>4. CASE Answered(f, "refused") /\ UNCHANGED server
  <2>1. PICK next : next = [flows[f] EXCEPT !.step = "refused"]
    OBVIOUS
  <2>2. flows' = [flows EXCEPT ![f] = next]
    BY <1>4, <2>1 DEF Answered, Go
  <2>3. next \in FlowRecords /\ Continues(flows[f], next) /\ Backed(next)
    BY <1>1, <1>3, <2>1 DEF Continues, Backed
  <2>4. /\ ended' \subseteq Logins /\ cookie' \in Tokens
        /\ page' \in Pages /\ page'.session \in DOMAIN sessions \cup {NULL}
    BY <1>2, <1>4 DEF IInv, TypeOK, Tokens, SessionsOK, server
  <2> QED
    BY <1>2, <1>4, <2>2, <2>3, <2>4, OneGoesOn DEF server, history
<1>5. CASE /\ challenges' = [challenges EXCEPT ![flows[f].id].used = TRUE]
           /\ sessions' = [k \in DOMAIN sessions \cup {flows[f].id} |->
                             IF k = flows[f].id THEN now + SessionTtl ELSE sessions[k]]
           /\ Answered(f, "started")
           /\ UNCHANGED ended
  <2>1. PICK next : next = [flows[f] EXCEPT !.step = "started"]
    OBVIOUS
  <2>2. flows' = [flows EXCEPT ![f] = next] /\ next \in Holding /\ next \in FlowRecords
        /\ next.id = flows[f].id /\ next.step = "started" /\ ~Early(next)
    BY <1>3, <1>5, <2>1 DEF Answered, Go
  <2>3. ChallengesOK' /\ DOMAIN challenges' = DOMAIN challenges
    <3>1. PICK n \in Nat : /\ 1..n \subseteq Logins
                           /\ challenges \in [1..n -> [expiresAt : Nat, used : BOOLEAN]]
      BY DEF IInv, TypeOK, ChallengesOK
    <3>2. flows[f].id \in 1..n
      BY <1>1, <3>1 DEF IInv, HeldOK
    <3>3. [challenges[flows[f].id] EXCEPT !.used = TRUE] \in [expiresAt : Nat, used : BOOLEAN]
      BY <3>1, <3>2
    <3>4. challenges' \in [1..n -> [expiresAt : Nat, used : BOOLEAN]]
      BY <1>5, <3>1, <3>3
    <3> QED
      BY <1>5, <3>1, <3>4 DEF ChallengesOK
  <2>4. sessions' \in [DOMAIN sessions' -> Nat]
        /\ DOMAIN sessions' = DOMAIN sessions \cup {flows[f].id}
    BY <1>5, SignInAssumption DEF IInv, TypeOK, PopupTypeOK
  <2>5. TypeOK'
    BY <1>2, <1>5, <2>2, <2>3, <2>4 DEF IInv, TypeOK
  <2>6. SessionsOK'
    BY <1>2, <2>2, <2>4 DEF IInv, TypeOK, SessionsOK
  <2>7. StartsOne
    BY <1>1, <1>2, <2>2, <2>3, <2>4 DEF StartsOne
  <2> QED
    BY <1>2, <2>5, <2>6, <2>7 DEF Effect, Shape, IInv, LoginsSubmitTheirOwnProof
<1> QED
  BY <1>4, <1>5 DEF ServerStarts

LEMMA LoginSucceedsEffect ==
  ASSUME IInv, NEW f \in Flows, LoginSucceeds(f)
  PROVE  Effect
<1>1. flows[f] \in Holding /\ Holds(flows[f]) /\ flows[f].step = "started"
  BY Kinds DEF IInv, TypeOK, LoginSucceeds, At, Holds, Holders, HoldingSteps
<1>2. PICK next : next = [flows[f] EXCEPT !.step = "refresh"]
  OBVIOUS
<1>3. next \in Holding /\ next.id = flows[f].id /\ next.step = "refresh"
  BY <1>1, <1>2, HoldersMove DEF HoldingSteps
<1>4. flows' = [flows EXCEPT ![f] = next] /\ next \in FlowRecords
  BY <1>2, <1>3 DEF LoginSucceeds, Advance, Go, FlowRecords
<1>5. Continues(flows[f], next) /\ Backed(next)
  BY <1>1, <1>3 DEF Continues, Backed, Early, EarlySteps
<1>6. flows[f].id \in Logins /\ flows[f].id \in DOMAIN sessions
  BY <1>1 DEF IInv, SessionsOK, Holding
<1>7. page' \in Pages /\ page'.session = flows[f].id
  BY <1>6 DEF LoginSucceeds, IInv, TypeOK, Pages
<1>8. cookie' \in Tokens /\ ended' \subseteq Logins /\ PopupTypeOK'
      /\ UNCHANGED <<challenges, sessions, history>>
  BY <1>6, SamePopups DEF LoginSucceeds, IInv, TypeOK, Tokens, server
<1> QED
  BY <1>4, <1>5, <1>6, <1>7, <1>8, OneGoesOn

LEMMA LoginRefusedEffect ==
  ASSUME IInv, NEW f \in Flows, LoginRefused(f)
  PROVE  Effect
<1>1. PopupTypeOK'
  BY FaultyPopups DEF LoginRefused, IInv, TypeOK
<1> QED
  BY <1>1, LoginFailing DEF LoginRefused, CodesOfCancelling

\* The button cancels a login that has not submitted its proof.
LEMMA CancelEffect ==
  ASSUME IInv, Cancel
  PROVE  Effect
<1>1. PICK f \in Flows : f = page.abort
  BY DEF Cancel, IInv, TypeOK, Pages
<1>2. CASE /\ At(f, "login", "wallet")
           /\ Aborted(flows[f].id, Failed("USER_CANCELLED"))
           /\ LoginFails(f, "USER_CANCELLED")
  <2>1. flows[f] \in Holding /\ Early(flows[f])
    BY <1>2, Kinds DEF IInv, TypeOK, At, Early, Holders, HoldingSteps, EarlySteps
  <2>2. flows[f].id \in Logins
    BY <2>1 DEF Holding
  <2>3. PopupTypeOK'
    BY <1>2, <2>2, SettledRight DEF SettledBy, Cancel, IInv, TypeOK
  <2> QED
    BY <1>2, <2>1, <2>3, LoginFailing
<1>3. CASE /\ flows[f].kind = "login"
           /\ flows[f].step \in {"call", "issued"} /\ ~flows[f].aborted
           /\ Go(f, [flows[f] EXCEPT !.aborted = TRUE])
           /\ UNCHANGED <<popupVars, page, server, cookie, history>>
  <2>1. PICK next : next = [flows[f] EXCEPT !.aborted = TRUE]
    OBVIOUS
  <2>2. /\ next \in FlowRecords /\ next.kind = flows[f].kind /\ next.step = flows[f].step
        /\ flows[f] \in Holding => next.id = flows[f].id
    <3>1. CASE flows[f] \in Holding
      BY <2>1, <3>1 DEF Holding, FlowRecords
    <3>2. CASE flows[f] \in Waiting
      <4>1. next \in Others /\ next.kind = flows[f].kind /\ next.step = flows[f].step
        BY <2>1, <3>2 DEF Waiting, Others
      <4>2. flows[f] \notin Holding
        BY <1>3, <3>2 DEF Holding, Waiting, Holders, HoldingSteps, EarlySteps
      <4> QED
        BY <3>2, <4>1, <4>2 DEF Waiting, FlowRecords
    <3> QED
      BY <1>3, <3>1, <3>2, Kinds DEF IInv, TypeOK, Holders, HoldingSteps, EarlySteps
  <2>3. flows' = [flows EXCEPT ![f] = next]
    BY <1>3, <2>1 DEF Go
  <2>4. Continues(flows[f], next)
    BY <2>2, HoldersHold DEF Continues, Holds, Early, IInv, TypeOK
  <2>5. Backed(next)
    BY <1>3, <2>2 DEF Backed
  <2>6. PopupTypeOK'
    BY <1>3, SamePopups DEF Cancel, IInv, TypeOK
  <2>7. /\ ended' \subseteq Logins /\ cookie' \in Tokens
        /\ page' \in Pages /\ page'.session \in DOMAIN sessions \cup {NULL}
    BY <1>3 DEF IInv, TypeOK, Tokens, SessionsOK, server
  <2> QED
    BY <1>3, <2>2, <2>3, <2>4, <2>5, <2>6, <2>7, OneGoesOn DEF server
<1> QED
  BY <1>1, <1>2, <1>3 DEF Cancel

-----------------------------------------------------------------------------
(* The other functions of the page *)

\* A function without a challenge is answered, and goes on.
LEMMA Moving ==
  ASSUME IInv, NEW f \in Flows, flows[f] \in Waiting \cup Restores,
         NEW s, [flows[f] EXCEPT !.step = s] \in Waiting \cup Restores,
         s = "session" => flows[f].token \in DOMAIN sessions, s # "started",
         flows' = [flows EXCEPT ![f] = [flows[f] EXCEPT !.step = s]],
         UNCHANGED <<challenges, sessions, history>>,
         PopupTypeOK', ended' \subseteq Logins, cookie' \in Tokens,
         page' \in Pages, page'.session \in DOMAIN sessions \cup {NULL}
  PROVE  Effect
<1>1. PICK next : next = [flows[f] EXCEPT !.step = s]
  OBVIOUS
<1>2. next \in FlowRecords
  BY <1>1 DEF FlowRecords
<1>3. next.step = s /\ next.token = flows[f].token
  BY <1>1 DEF Waiting, Others, Restores
<1>4. ~Holds(next) /\ ~Early(next)
  BY <1>1 DEF Waiting, Others, Restores, Holds, Early, Holders, HoldingSteps, EarlySteps
<1>5. Continues(flows[f], next) /\ Backed(next)
  BY <1>3, <1>4 DEF Continues, Backed
<1> QED
  BY <1>1, <1>2, <1>5, OneGoesOn

\* A function returns.
LEMMA Returning ==
  ASSUME IInv, NEW f \in Flows, Go(f, Idle), UNCHANGED <<now, requests, popups, toPage>>,
         Fault \/ UNCHANGED faults, UNCHANGED <<server, history>>, cookie' \in Tokens,
         page' \in Pages, page'.session \in DOMAIN sessions \cup {NULL}
  PROVE  Effect
<1>1. PopupTypeOK' /\ ended' \subseteq Logins
  BY FaultyPopups DEF IInv, TypeOK, server
<1> QED
  BY <1>1, IdleIsQuiet, OneGoesOn DEF Go, server

LEMMA StartOperationEffect ==
  ASSUME IInv, NEW f \in Flows, StartOperation(f)
  PROVE  Effect
<1>1. page' \in Pages /\ page'.session = page.session
  BY DEF StartOperation, IInv, TypeOK, Pages
<1> QED
  BY <1>1, Starting DEF StartOperation

LEMMA StartLogoutEffect ==
  ASSUME IInv, NEW f \in Flows, StartLogout(f)
  PROVE  Effect
  BY Starting DEF StartLogout, IInv, TypeOK

\* What every step keeps that leaves the page, the service and the cookie alone.
LEMMA Kept ==
  ASSUME IInv
  PROVE  /\ page \in Pages /\ page.session \in DOMAIN sessions \cup {NULL}
         /\ ended \subseteq Logins /\ cookie \in Tokens /\ NULL \in Tokens
         /\ \A stage \in {"approved", "error", "idle", "verifying"} :
              /\ [page EXCEPT !.stage = stage] \in Pages
              /\ [page EXCEPT !.stage = stage].session = page.session
              /\ [page EXCEPT !.stage = stage, !.abort = NULL] \in Pages
              /\ [page EXCEPT !.stage = stage, !.abort = NULL].session = page.session
  BY DEF IInv, TypeOK, Pages, SessionsOK, Tokens

\* The session of a token that is live is one of the service.
LEMMA ServerOperatesEffect ==
  ASSUME IInv, NEW f \in Flows, ServerOperates(f)
  PROVE  Effect
<1>1. flows[f] \in Waiting /\ flows[f].kind = "operation"
  BY Kinds DEF IInv, TypeOK, ServerOperates, At
<1>2. PICK s \in {"session", "done", "refused", "invalid"} :
        /\ flows' = [flows EXCEPT ![f] = [flows[f] EXCEPT !.step = s]]
        /\ s = "session" => flows[f].token \in DOMAIN sessions
  BY DEF ServerOperates, Answered, Go, Live
<1>3. [flows[f] EXCEPT !.step = s] \in Waiting
  BY <1>1 DEF Waiting, Others
<1>4. PopupTypeOK' /\ UNCHANGED <<challenges, sessions, ended, page, cookie, history>>
  BY SamePopups DEF ServerOperates, server, IInv, TypeOK
<1> QED
  BY <1>1, <1>2, <1>3, <1>4, Kept, Moving

LEMMA OperationAnsweredEffect ==
  ASSUME IInv, NEW f \in Flows, OperationAnswered(f)
  PROVE  Effect
<1>1. flows[f] \in Waiting /\ flows[f].kind = "operation"
  BY Kinds DEF IInv, TypeOK, OperationAnswered
<1>2. PICK s \in {"refresh", "refreshRejected"} :
        flows' = [flows EXCEPT ![f] = [flows[f] EXCEPT !.step = s]]
  BY DEF OperationAnswered, Advance, Go
<1>3. [flows[f] EXCEPT !.step = s] \in Waiting
  BY <1>1 DEF Waiting, Others
<1>4. PopupTypeOK' /\ UNCHANGED <<challenges, sessions, ended, cookie, history>>
  BY SamePopups DEF OperationAnswered, server, IInv, TypeOK
<1>5. page' \in Pages /\ page'.session \in DOMAIN sessions \cup {NULL}
  <2>1. CASE flows[f].step = "session"
    <3>1. flows[f].token \in Logins \cup {NULL} /\ flows[f].token \in DOMAIN sessions
      BY <1>1, <2>1 DEF Waiting, Others, IInv, SessionsOK
    <3>2. page' = [page EXCEPT !.session = flows[f].token, !.stage = "approved"]
      BY <2>1 DEF OperationAnswered
    <3> QED
      BY <3>1, <3>2, Kept DEF Pages
  <2>2. CASE flows[f].step = "done"
    BY <2>2, Kept DEF OperationAnswered, Show
  <2>3. CASE flows[f].step = "invalid"
    BY <2>3, Kept DEF OperationAnswered, Pages
  <2> QED
    BY <2>1, <2>2, <2>3 DEF OperationAnswered
<1> QED
  BY <1>1, <1>2, <1>3, <1>4, <1>5, Kept, Moving

LEMMA OperationRefusedEffect ==
  ASSUME IInv, NEW f \in Flows, OperationRefused(f)
  PROVE  Effect
  BY Kept, Returning DEF OperationRefused

LEMMA FinishEffect ==
  ASSUME IInv, NEW f \in Flows, Finish(f)
  PROVE  Effect
<1>1. page' \in Pages /\ page'.session = page.session
  BY DEF Finish, IInv, TypeOK, Pages
<1> QED
  BY <1>1, Kept, Returning DEF Finish, popupVars

LEMMA ServerEndsEffect ==
  ASSUME IInv, NEW f \in Flows, ServerEnds(f)
  PROVE  Effect
<1>1. flows[f] \in Waiting /\ flows[f].kind \in {"logout", "orphan"}
  BY Kinds DEF IInv, TypeOK, ServerEnds, At, Holders
<1>2. [flows[f] EXCEPT !.step = "ended"] \in Waiting
  BY <1>1 DEF Waiting, Others
<1>3. ended' \subseteq Logins
  BY <1>1 DEF ServerEnds, Waiting, Others, IInv, TypeOK
<1>4. PopupTypeOK' /\ UNCHANGED <<challenges, sessions, page, cookie, history>>
  BY SamePopups DEF ServerEnds, IInv, TypeOK
<1>5. flows' = [flows EXCEPT ![f] = [flows[f] EXCEPT !.step = "ended"]]
  BY DEF ServerEnds, Answered, Go
<1> QED
  BY <1>1, <1>2, <1>3, <1>4, <1>5, Kept, Moving

LEMMA LogoutReturnsEffect ==
  ASSUME IInv, NEW f \in Flows, LogoutReturns(f)
  PROVE  Effect
<1>1. page' \in Pages /\ page'.session = NULL
  BY DEF LogoutReturns, IInv, TypeOK, Pages
<1>2. cookie' \in Tokens
  BY Kept DEF LogoutReturns
<1> QED
  BY <1>1, <1>2, Returning DEF LogoutReturns

LEMMA ServerRestoresEffect ==
  ASSUME IInv, NEW f \in Flows, ServerRestores(f)
  PROVE  Effect
<1>1. flows[f] \in Restores
  BY Kinds DEF IInv, TypeOK, ServerRestores, At
<1>2. PICK s \in {"session", "invalid"} :
        /\ flows' = [flows EXCEPT ![f] = [flows[f] EXCEPT !.step = s]]
        /\ s = "session" => flows[f].token \in DOMAIN sessions
  BY DEF ServerRestores, Answered, Go, Live
<1>3. [flows[f] EXCEPT !.step = s] \in Restores
  BY <1>1 DEF Restores
<1>4. PopupTypeOK' /\ UNCHANGED <<challenges, sessions, ended, page, cookie, history>>
  BY SamePopups DEF ServerRestores, server, IInv, TypeOK
<1> QED
  BY <1>1, <1>2, <1>3, <1>4, Kept, Moving

LEMMA RestoredEffect ==
  ASSUME IInv, NEW f \in Flows, Restored(f)
  PROVE  Effect
<1>1. flows[f] \in Restores
  BY Kinds DEF IInv, TypeOK, Restored, At
<1>2. page' \in Pages /\ page'.session \in DOMAIN sessions \cup {NULL}
  <2>1. CASE /\ At(f, "restore", "session")
             /\ page' = [page EXCEPT !.session = flows[f].token]
    <3>1. flows[f].token \in Logins \cup {NULL} /\ flows[f].token \in DOMAIN sessions
      BY <1>1, <2>1 DEF Restores, IInv, SessionsOK, At
    <3> QED
      BY <2>1, <3>1, Kept DEF Pages
  <2>2. CASE page' = [page EXCEPT !.session = NULL]
    BY <2>2, Kept DEF Pages
  <2> QED
    BY <2>1, <2>2 DEF Restored
<1>3. Fault \/ UNCHANGED faults
  BY DEF Restored
<1> QED
  BY <1>2, <1>3, Kept, Returning DEF Restored

LEMMA OrphanEndsEffect ==
  ASSUME IInv, NEW f \in Flows, OrphanEnds(f)
  PROVE  Effect
<1>1. cookie' \in Tokens
  <2>1. CASE flows[f].step = "started"
    <3>1. flows[f] \in Holding
      BY <2>1, Kinds DEF OrphanEnds, IInv, TypeOK, Holders, HoldingSteps
    <3>2. flows[f].id \in Logins
      BY <3>1 DEF Holding
    <3> QED
      BY <2>1, <3>2, Kept DEF OrphanEnds, Tokens
  <2>2. CASE flows[f].step # "started"
    BY <2>2, Kept DEF OrphanEnds, Tokens
  <2> QED
    BY <2>1, <2>2
<1> QED
  BY <1>1, Kept, Returning DEF OrphanEnds, popupVars

\* The page shows another stage, or no session.
LEMMA PageEffect ==
  ASSUME IInv, Expire \/ Dismiss \/ OpenCreate
  PROVE  Effect
<1>1. PopupTypeOK'
  BY SamePopups DEF Expire, Dismiss, OpenCreate, IInv, TypeOK
<1>2. page' \in Pages /\ page'.session \in DOMAIN sessions \cup {NULL}
  <2>1. CASE Expire
    BY <2>1, Kept DEF Expire, Pages
  <2>2. CASE Dismiss \/ OpenCreate
    BY <2>2, Kept DEF Dismiss, OpenCreate, Show
  <2> QED
    BY <2>1, <2>2
<1> QED
  BY <1>1, <1>2, NoneMoves DEF Expire, Dismiss, OpenCreate

\* A run that outlives its page keeps what it holds, and can be cancelled no
\* more.
LEMMA OrphansContinue ==
  ASSUME NEW w \in FlowRecords, NEW next, next = [w EXCEPT !.kind = "orphan"],
         \/ w.kind = "login" /\ w.step \in {"submit", "started"}
         \/ w.kind = "logout" \/ w.kind = "orphan"
  PROVE  /\ next \in FlowRecords /\ next.step = w.step
         /\ Continues(w, next)
         /\ next.step = "session" => FALSE
         /\ next.step = "started" => next.id = w.id
<1>1. CASE w \in Holding
  <2>1. next \in Holding /\ next.step = w.step /\ next.id = w.id
    BY <1>1 DEF Holding, Holders
  <2> QED
    BY <1>1, <2>1, HoldersHold
       DEF FlowRecords, Continues, Early, Holding, Holders, HoldingSteps, EarlySteps
<1>2. CASE w \in Waiting
  <2>1. next \in Others /\ next.step = w.step /\ w.step \in {"call", "ended"}
        /\ next.kind = "orphan"
    BY <1>2 DEF Waiting, Others
  <2>2. next \in Waiting
    BY <2>1 DEF Waiting
  <2> QED
    BY <2>1, <2>2 DEF FlowRecords, Continues, Early, Holds, HoldingSteps, EarlySteps
<1> QED
  BY <1>1, <1>2 DEF FlowRecords, Idle, Restores

LEMMA ReloadPageEffect ==
  ASSUME IInv, ReloadPage
  PROVE  Effect
<1>1. PICK f \in Flows, orphans \in SUBSET {g \in Flows : InFlight(g)} :
        flows' = [g \in Flows |->
              IF g = f THEN [kind |-> "restore", step |-> "call", token |-> cookie]
              ELSE IF g \in orphans THEN [flows[g] EXCEPT !.kind = "orphan"] ELSE Idle]
  BY DEF ReloadPage
<1>2. PopupTypeOK'
  <2>1. \A id \in Logins : [requests[id] EXCEPT !.open = FALSE] \in Requests
    BY DEF IInv, TypeOK, PopupTypeOK, Requests
  <2>2. requests' \in [Logins -> Requests]
    BY <2>1 DEF ReloadPage, ForgetRequests
  <2> QED
    BY <2>2, Faulting DEF ReloadPage, ForgetRequests, IInv, TypeOK, PopupTypeOK
<1>3. page' \in Pages /\ page'.session = NULL
  BY DEF ReloadPage, NewPage, Pages
<1>4. \A g \in Flows :
        /\ flows'[g] \in FlowRecords /\ Continues(flows[g], flows'[g])
        /\ flows'[g].step # "session"
        /\ flows'[g].step = "started" => flows[g].step = "started" /\ flows'[g].id = flows[g].id
  <2> SUFFICES ASSUME NEW g \in Flows
               PROVE  /\ flows'[g] \in FlowRecords /\ Continues(flows[g], flows'[g])
                      /\ flows'[g].step # "session"
                      /\ flows'[g].step = "started" =>
                           flows[g].step = "started" /\ flows'[g].id = flows[g].id
    OBVIOUS
  <2>1. CASE flows'[g] = [kind |-> "restore", step |-> "call", token |-> cookie]
    BY <2>1 DEF FlowRecords, Restores, Continues, Holds, Early, Holders, IInv, TypeOK
  <2>2. CASE flows'[g] = Idle
    BY <2>2, IdleIsQuiet DEF Idle
  <2>3. CASE g \in orphans /\ flows'[g] = [flows[g] EXCEPT !.kind = "orphan"]
    <3>1. PICK next : next = [flows[g] EXCEPT !.kind = "orphan"]
      OBVIOUS
    <3>2. InFlight(g) /\ flows[g] \in FlowRecords /\ flows'[g] = next
      BY <2>3, <3>1 DEF IInv, TypeOK
    <3> QED
      BY <3>1, <3>2, OrphansContinue DEF InFlight
  <2> QED
    BY <1>1, <2>1, <2>2, <2>3
<1>5. flows' \in [Flows -> FlowRecords]
  BY <1>1, <1>4
<1>6. UNCHANGED <<challenges, sessions, ended, cookie, submitted, cancelled>>
  BY DEF ReloadPage, server, history
<1>7. TypeOK'
  BY <1>2, <1>3, <1>5, <1>6 DEF IInv, TypeOK, ChallengesOK
<1>8. SessionsOK'
  BY <1>3, <1>4, <1>6 DEF IInv, SessionsOK
<1>9. GoOn
  BY <1>4, <1>5, <1>6 DEF GoOn
<1> QED
  BY <1>6, <1>7, <1>8, <1>9 DEF Effect, Shape, IInv, LoginsSubmitTheirOwnProof

LEMMA StepHasEffect ==
  ASSUME IInv, Next
  PROVE  Effect
<1>1. CASE Tick /\ UNCHANGED <<popupVars, signInVars>>
  <2>1. PopupTypeOK' /\ UNCHANGED <<page, flows, server, cookie, history>>
    BY <1>1 DEF Tick, IInv, TypeOK, PopupTypeOK, popupVars, signInVars
  <2> QED
    BY <2>1, Kept, NoneMoves
<1>2. CASE Expire
  BY <1>2, PageEffect
<1>3. CASE UserStep
  <2>1. ASSUME NEW f \in Flows, StartLogin(f) \/ StartOperation(f) \/ StartLogout(f)
        PROVE  Effect
    BY <2>1, StartLoginEffect, StartOperationEffect, StartLogoutEffect
  <2> QED
    BY <1>3, <2>1, CancelEffect, PageEffect, ReloadPageEffect DEF UserStep
<1>4. ASSUME NEW f \in Flows, FlowStep(f)
      PROVE  Effect
  <2>1. CASE ServerIssues(f) \/ NoChallenge(f) \/ OpenWallet(f) \/ ProofSettles(f)
    BY <2>1, ServerIssuesEffect, NoChallengeEffect, OpenWalletEffect, ProofSettlesEffect
  <2>2. CASE ServerStarts(f) \/ LoginSucceeds(f) \/ LoginRefused(f)
    BY <2>2, ServerStartsEffect, LoginSucceedsEffect, LoginRefusedEffect
  <2>3. CASE ServerOperates(f) \/ OperationAnswered(f) \/ OperationRefused(f) \/ Finish(f)
    BY <2>3, ServerOperatesEffect, OperationAnsweredEffect, OperationRefusedEffect, FinishEffect
  <2>4. CASE ServerEnds(f) \/ LogoutReturns(f)
    BY <2>4, ServerEndsEffect, LogoutReturnsEffect
  <2>5. CASE ServerRestores(f) \/ Restored(f) \/ OrphanEnds(f)
    BY <2>5, ServerRestoresEffect, RestoredEffect, OrphanEndsEffect
  <2> QED
    BY <1>4, <2>1, <2>2, <2>3, <2>4, <2>5 DEF FlowStep
<1>5. ASSUME NEW id \in Logins, Hear(id) \/ (WalletStep(id) /\ UNCHANGED <<now, signInVars>>)
      PROVE  Effect
  <2>1. PopupTypeOK'
    BY <1>5, Hearing, WalletKeepsPopups DEF IInv, TypeOK
  <2>2. UNCHANGED <<page, flows, server, cookie, history>>
    BY <1>5 DEF Hear, signInVars
  <2> QED
    BY <2>1, <2>2, Kept, NoneMoves
<1> QED
  BY <1>1, <1>2, <1>3, <1>4, <1>5 DEF Next

-----------------------------------------------------------------------------
(* Challenges, sessions and cancelled logins *)

\* The number of a new challenge is of no challenge issued before.
LEMMA FreshChallenge ==
  ASSUME IInv
  PROVE  Cardinality(DOMAIN challenges) + 1 \notin DOMAIN challenges
<1>1. PICK n \in Nat : challenges \in [1..n -> [expiresAt : Nat, used : BOOLEAN]]
  BY DEF IInv, TypeOK, ChallengesOK
<1>2. DOMAIN challenges = 1..n /\ Cardinality(1..n) = n
  BY <1>1, FS_Interval
<1> QED
  BY <1>2

LEMMA HeldStaysOnce ==
  ASSUME IInv, Effect
  PROVE  HeldOnce'
<1> USE DEF IInv, TypeOK
<1>1. CASE GoOn
  BY <1>1 DEF GoOn, Continues, HeldOnce
<1>2. CASE CancelsOne
  BY <1>2 DEF CancelsOne, HeldOnce, Holds, Idle, Holders
<1>3. CASE IssuesOne
  <2>1. PICK f \in Flows, next \in Holding :
          /\ next.id = Cardinality(DOMAIN challenges) + 1
          /\ flows' = [flows EXCEPT ![f] = next]
    BY <1>3 DEF IssuesOne
  <2>2. \A g \in Flows : Holds(flows[g]) => flows[g].id # next.id
    BY <2>1, FreshChallenge DEF HeldOK
  <2> QED
    BY <2>1, <2>2 DEF HeldOnce
<1>4. CASE StartsOne
  <2>1. PICK f \in Flows, next \in Holding :
          /\ Holds(flows[f]) /\ next.id = flows[f].id
          /\ flows' = [flows EXCEPT ![f] = next]
    BY <1>4 DEF StartsOne
  <2> QED
    BY <2>1 DEF HeldOnce
<1> QED
  BY <1>1, <1>2, <1>3, <1>4 DEF Effect, Shape

\* A run that holds a challenge was not cancelled, by this or another run.
LEMMA HeldStaysOK ==
  ASSUME IInv, Effect
  PROVE  HeldOK'
<1> USE DEF IInv, TypeOK
<1>1. CASE GoOn
  BY <1>1 DEF GoOn, Continues, HeldOK
<1>2. CASE CancelsOne
  <2>1. PICK f \in Flows :
          /\ Early(flows[f]) /\ flows' = [flows EXCEPT ![f] = Idle]
          /\ cancelled' = cancelled \cup {flows[f].id}
          /\ UNCHANGED <<challenges, sessions>>
    BY <1>2 DEF CancelsOne
  <2>2. Holds(flows[f])
    BY <2>1, HoldersHold
  <2>3. ~Holds(Idle)
    BY DEF Holds, Idle, Holders
  <2> QED
    BY <2>1, <2>2, <2>3 DEF HeldOK, HeldOnce
<1>3. CASE IssuesOne
  <2>1. PICK f \in Flows, next \in Holding :
          /\ next.id = Cardinality(DOMAIN challenges) + 1
          /\ flows' = [flows EXCEPT ![f] = next]
          /\ DOMAIN challenges' = DOMAIN challenges \cup {next.id}
          /\ UNCHANGED <<sessions, cancelled>>
    BY <1>3 DEF IssuesOne
  <2>2. next.id \notin cancelled /\ next.id \notin DOMAIN sessions
    BY <2>1, FreshChallenge DEF Recorded
  <2> QED
    BY <2>1, <2>2 DEF HeldOK
<1>4. CASE StartsOne
  <2>1. PICK f \in Flows, next \in Holding :
          /\ Holds(flows[f]) /\ next.id = flows[f].id /\ ~Early(next)
          /\ flows' = [flows EXCEPT ![f] = next]
          /\ DOMAIN sessions' = DOMAIN sessions \cup {next.id}
          /\ DOMAIN challenges' = DOMAIN challenges
          /\ UNCHANGED cancelled
    BY <1>4 DEF StartsOne
  <2>2. \A g \in Flows \ {f} : flows'[g] = flows[g] /\ (Holds(flows[g]) => flows[g].id # next.id)
    BY <2>1 DEF HeldOnce
  <2>3. \A g \in Flows \ {f} : Early(flows[g]) => Holds(flows[g])
    BY HoldersHold
  <2> QED
    BY <2>1, <2>2, <2>3 DEF HeldOK
<1> QED
  BY <1>1, <1>2, <1>3, <1>4 DEF Effect, Shape

LEMMA LedgerStaysOK ==
  ASSUME IInv, Effect
  PROVE  Recorded' /\ CancelledLoginsHaveNoSession'
<1> USE DEF IInv, TypeOK
<1>1. CASE GoOn
  BY <1>1 DEF GoOn, Recorded, CancelledLoginsHaveNoSession
<1>2. CASE CancelsOne
  <2>1. PICK f \in Flows :
          /\ Early(flows[f])
          /\ cancelled' = cancelled \cup {flows[f].id}
          /\ UNCHANGED <<challenges, sessions>>
    BY <1>2 DEF CancelsOne
  <2>2. Holds(flows[f])
    BY <2>1, HoldersHold
  <2> QED
    BY <2>1, <2>2 DEF HeldOK, Recorded, CancelledLoginsHaveNoSession
<1>3. CASE IssuesOne
  BY <1>3 DEF IssuesOne, Recorded, CancelledLoginsHaveNoSession
<1>4. CASE StartsOne
  BY <1>4 DEF StartsOne, HeldOK, Recorded, CancelledLoginsHaveNoSession
<1> QED
  BY <1>1, <1>2, <1>3, <1>4 DEF Effect, Shape

LEMMA InitInv ==
  ASSUME Init
  PROVE  IInv
<1>1. PopupTypeOK
  <2>1. NoRequest \in Requests /\ Window("none") \in Windows
    BY DEF NoRequest, Requests, Window, Windows
  <2>2. \A j \in Logins : <<>> \in Seq(MessagesOf(j)) /\ <<>> \in Seq(Messages)
    OBVIOUS
  <2> QED
    BY <2>1, <2>2, PopupAssumption DEF Init, PopupInit, PopupTypeOK
<1>2. PICK f \in Flows :
        flows = [g \in Flows |->
          IF g = f THEN [kind |-> "restore", step |-> "call", token |-> NULL] ELSE Idle]
  BY DEF Init
<1>3. [kind |-> "restore", step |-> "call", token |-> NULL] \in Restores
  BY DEF Restores
<1>4. flows \in [Flows -> FlowRecords]
  BY <1>2, <1>3 DEF FlowRecords
<1>5. ChallengesOK /\ DOMAIN challenges = {} /\ DOMAIN sessions = {}
  <2>1. challenges = <<>> /\ sessions = <<>> /\ 1..0 = {}
    BY DEF Init
  <2>2. challenges \in [1..0 -> [expiresAt : Nat, used : BOOLEAN]]
    BY <2>1
  <2>3. 1..0 \subseteq Logins /\ 0 \in Nat
    BY <2>1
  <2> QED
    BY <2>1, <2>2, <2>3 DEF ChallengesOK
<1>6. sessions \in [DOMAIN sessions -> Nat]
  BY DEF Init
<1>7. TypeOK
  BY <1>1, <1>4, <1>5, <1>6 DEF Init, TypeOK, NewPage, Pages
<1>8. \A g \in Flows : ~Holds(flows[g]) /\ ~Early(flows[g]) /\ flows[g].step \in {"call", "idle"}
  BY <1>2 DEF Holds, Early, Holders, Idle
<1> QED
  BY <1>5, <1>7, <1>8
     DEF Init, NewPage, IInv, HeldOnce, HeldOK, Recorded, CancelledLoginsHaveNoSession,
         LoginsSubmitTheirOwnProof, SessionsOK

LEMMA NextInv ==
  ASSUME IInv, [Next]_vars
  PROVE  IInv'
<1>1. CASE Next
  <2>1. Effect
    BY <1>1, StepHasEffect
  <2> QED
    BY <2>1, HeldStaysOnce, HeldStaysOK, LedgerStaysOK DEF Effect, IInv
<1>2. CASE UNCHANGED vars
  BY <1>2 DEF vars, popupVars, signInVars, server, history, IInv, TypeOK, PopupTypeOK,
     ChallengesOK, HeldOnce, HeldOK, Recorded, CancelledLoginsHaveNoSession,
     LoginsSubmitTheirOwnProof, SessionsOK
<1> QED
  BY <1>1, <1>2

-----------------------------------------------------------------------------
(* Theorems *)

\* The inductive invariant of the page: its types, who holds which challenge,
\* and what is recorded of each.
THEOREM InvHolds == Spec => []IInv
<1>1. Init => IInv
  BY InitInv
<1>2. IInv /\ [Next]_vars => IInv'
  BY NextInv
<1> QED
  BY <1>1, <1>2, PTL DEF Spec

\* A login reported as cancelled has no session and never gets one, whichever
\* proof was approved or posted when it was cancelled, and whatever runs on of
\* a page that was loaded again (startLogin, "No session was created.").
THEOREM CancellingIsFinal == Spec => []CancelledLoginsHaveNoSession
<1>1. IInv => CancelledLoginsHaveNoSession
  BY DEF IInv
<1> QED
  BY <1>1, InvHolds, PTL

\* A login submits the proof made for its own challenge, though the popup of an
\* earlier one may answer later (requestProofV2, event.source and request id).
THEOREM OwnProofIsSubmitted == Spec => []LoginsSubmitTheirOwnProof
<1>1. IInv => LoginsSubmitTheirOwnProof
  BY DEF IInv
<1> QED
  BY <1>1, InvHolds, PTL

\* The page shows no session that the service has not started, of whichever of
\* its functions the answer comes (setSession in App.tsx).
THEOREM ShownSessionsWereStarted ==
  Spec => [](page.session # NULL => page.session \in DOMAIN sessions)
<1>1. IInv => (page.session # NULL => page.session \in DOMAIN sessions)
  BY DEF IInv, SessionsOK
<1> QED
  BY <1>1, InvHolds, PTL

-----------------------------------------------------------------------------
(* The page is busy with something *)

\* A run that will set the stage of the page before it returns.
Running(w) == w.kind \in {"login", "operation"} /\ w.step # "refresh"

BusyWithARun == Busy => \E f \in Flows : Running(flows[f])

LEMMA AdvancedRun ==
  ASSUME TypeOK, NEW f \in Flows, ~Free(f), NEW s
  PROVE  /\ [flows[f] EXCEPT !.step = s].kind = flows[f].kind
         /\ [flows[f] EXCEPT !.step = s].step = s
<1>1. flows[f] \in Holding \cup Waiting \cup Restores
  BY DEF TypeOK, FlowRecords, Free, Idle
<1> QED
  BY <1>1 DEF Holding, Waiting, Others, Restores

LEMMA RunTurnsBusy ==
  ASSUME TypeOK, NEW f \in Flows, NEW w, flows' = [flows EXCEPT ![f] = w], Running(w)
  PROVE  BusyWithARun'
  BY DEF TypeOK, BusyWithARun

LEMMA RunGoesOn ==
  ASSUME TypeOK, BusyWithARun, NEW f \in Flows, NEW w, flows' = [flows EXCEPT ![f] = w],
         Running(flows[f]) => Running(w), page'.stage = page.stage
  PROVE  BusyWithARun'
  BY DEF TypeOK, BusyWithARun, Busy

LEMMA PageIsReady ==
  ASSUME page'.stage \notin {"challenge", "wallet", "verifying"}
  PROVE  BusyWithARun'
  BY DEF BusyWithARun, Busy

LEMMA FailedLoginIsReady ==
  ASSUME TypeOK, NEW f, NEW code, LoginFails(f, code)
  PROVE  BusyWithARun'
<1>1. page'.stage \in {"cancelled", "error"}
  BY DEF LoginFails, TypeOK, Pages
<1> QED
  BY <1>1, PageIsReady

\* Who begins, goes on to a stage that is busy.
LEMMA LoginStepsBusy ==
  ASSUME TypeOK, BusyWithARun, NEW f \in Flows,
         \/ StartLogin(f) \/ ServerIssues(f) \/ NoChallenge(f) \/ OpenWallet(f)
         \/ ProofSettles(f) \/ ServerStarts(f) \/ LoginSucceeds(f) \/ LoginRefused(f)
  PROVE  BusyWithARun'
<1>1. CASE StartLogin(f)
  <2>1. PICK w : w = [kind |-> "login", step |-> "call", aborted |-> FALSE, token |-> cookie]
    OBVIOUS
  <2>2. flows' = [flows EXCEPT ![f] = w] /\ Running(w)
    BY <1>1, <2>1 DEF StartLogin, Start, Go, Running
  <2> QED
    BY <2>2, RunTurnsBusy
<1>2. CASE ServerIssues(f)
  <2>1. PICK id : flows' = [flows EXCEPT ![f] = [kind |-> "login", step |-> "issued", id |-> id,
                                                  aborted |-> flows[f].aborted, token |-> NULL]]
    BY <1>2 DEF ServerIssues, Go
  <2>2. PICK w : w = [kind |-> "login", step |-> "issued", id |-> id,
                      aborted |-> flows[f].aborted, token |-> NULL]
    OBVIOUS
  <2>3. flows' = [flows EXCEPT ![f] = w] /\ Running(w)
    BY <2>1, <2>2 DEF Running
  <2> QED
    BY <2>3, RunTurnsBusy
<1>3. CASE NoChallenge(f) \/ LoginRefused(f)
  BY <1>3, FailedLoginIsReady DEF NoChallenge, LoginRefused
<1>4. ASSUME NEW s \in {"wallet", "submit", "started", "refused"}, flows[f].kind = "login",
             flows' = [flows EXCEPT ![f] = [flows[f] EXCEPT !.step = s]]
      PROVE  BusyWithARun'
  <2>1. PICK w : w = [flows[f] EXCEPT !.step = s]
    OBVIOUS
  <2>2. Running(w)
    BY <1>4, <2>1, AdvancedRun DEF Running, Free
  <2> QED
    BY <1>4, <2>1, <2>2, RunTurnsBusy
<1>5. CASE OpenWallet(f)
  BY <1>4, <1>5, FailedLoginIsReady DEF OpenWallet, At, Advance, Go
<1>6. CASE ProofSettles(f)
  <2>1. At(f, "login", "wallet") /\ \E outcome : Continue(f, outcome)
    BY <1>6 DEF ProofSettles
  <2>2. PICK outcome : Continue(f, outcome)
    BY <2>1
  <2> QED
    BY <1>4, <2>1, <2>2, FailedLoginIsReady DEF Continue, Submit, Go, At
<1>7. CASE ServerStarts(f)
  <2>1. flows[f].kind \in {"login", "orphan"} /\ page' = page
    BY <1>7 DEF ServerStarts, At
  <2>2. PICK s \in {"started", "refused"} : flows' = [flows EXCEPT ![f] = [flows[f] EXCEPT !.step = s]]
    BY <1>7 DEF ServerStarts, Answered, Go
  <2>3. CASE flows[f].kind = "orphan"
    <3>1. PICK w : w = [flows[f] EXCEPT !.step = s]
      OBVIOUS
    <3> QED
      BY <2>1, <2>2, <2>3, <3>1, RunGoesOn DEF Running
  <2> QED
    BY <1>4, <2>1, <2>2, <2>3
<1>8. CASE LoginSucceeds(f)
  <2>1. page'.stage = "approved"
    BY <1>8 DEF LoginSucceeds, TypeOK, Pages
  <2> QED
    BY <2>1, PageIsReady
<1> QED
  BY <1>1, <1>2, <1>3, <1>5, <1>6, <1>7, <1>8

LEMMA OtherStepsBusy ==
  ASSUME TypeOK, BusyWithARun, NEW f \in Flows,
         \/ StartOperation(f) \/ ServerOperates(f) \/ OperationAnswered(f) \/ OperationRefused(f)
         \/ Finish(f) \/ StartLogout(f) \/ ServerEnds(f) \/ LogoutReturns(f)
         \/ ServerRestores(f) \/ Restored(f) \/ OrphanEnds(f)
  PROVE  BusyWithARun'
<1>0. page \in Pages
  BY DEF TypeOK
<1>1. CASE StartOperation(f)
  <2>1. PICK w : w = [kind |-> "operation", step |-> "call", aborted |-> FALSE, token |-> cookie]
    OBVIOUS
  <2>2. flows' = [flows EXCEPT ![f] = w] /\ Running(w)
    BY <1>1, <2>1 DEF StartOperation, Start, Go, Running
  <2> QED
    BY <2>2, RunTurnsBusy
<1>2. ASSUME NEW s \in {"session", "done", "refused", "invalid", "refreshRejected"},
             flows[f].kind = "operation",
             flows' = [flows EXCEPT ![f] = [flows[f] EXCEPT !.step = s]]
      PROVE  BusyWithARun'
  <2>1. PICK w : w = [flows[f] EXCEPT !.step = s]
    OBVIOUS
  <2>2. Running(w)
    BY <1>2, <2>1, AdvancedRun DEF Running, Free
  <2> QED
    BY <1>2, <2>1, <2>2, RunTurnsBusy
<1>3. CASE ServerOperates(f)
  BY <1>2, <1>3 DEF ServerOperates, Answered, Go, At
<1>4. CASE OperationAnswered(f)
  <2>1. CASE flows[f].step = "invalid"
    BY <1>2, <1>4, <2>1 DEF OperationAnswered, Advance, Go
  <2>2. CASE flows[f].step # "invalid"
    <3>1. page'.stage = "approved"
      BY <1>0, <1>4, <2>2 DEF OperationAnswered, Show, Pages
    <3> QED
      BY <3>1, PageIsReady
  <2> QED
    BY <2>1, <2>2
<1>5. CASE OperationRefused(f) \/ LogoutReturns(f)
  <2>1. page'.stage \in {"error", "idle"}
    BY <1>0, <1>5 DEF OperationRefused, LogoutReturns, Pages
  <2> QED
    BY <2>1, PageIsReady
<1>6. CASE Finish(f)
  <2>1. CASE flows[f].step = "refreshRejected"
    <3>1. page'.stage = "error"
      BY <1>0, <1>6, <2>1 DEF Finish, Pages
    <3> QED
      BY <3>1, PageIsReady
  <2>2. CASE flows[f].step = "refresh"
    <3>1. page'.stage = page.stage /\ flows' = [flows EXCEPT ![f] = Idle]
      BY <1>0, <1>6, <2>2 DEF Finish, Go, Pages
    <3> QED
      BY <2>2, <3>1, RunGoesOn DEF Running
  <2> QED
    BY <1>6, <2>1, <2>2 DEF Finish
<1>7. ASSUME ~Running(flows[f]), page'.stage = page.stage, NEW w, flows' = [flows EXCEPT ![f] = w]
      PROVE  BusyWithARun'
  BY <1>7, RunGoesOn
<1>8. CASE StartLogout(f)
  BY <1>7, <1>8 DEF StartLogout, Start, Go, Free, Running
<1>9. CASE ServerEnds(f) \/ ServerRestores(f)
  BY <1>7, <1>9 DEF ServerEnds, ServerRestores, Answered, Go, At, Running
<1>10. CASE Restored(f) \/ OrphanEnds(f)
  <2>1. page'.stage = page.stage
    BY <1>0, <1>10 DEF Restored, OrphanEnds, Pages
  <2> QED
    BY <1>7, <1>10, <2>1 DEF Restored, OrphanEnds, Go, At, Running
<1> QED
  BY <1>1, <1>3, <1>4, <1>5, <1>6, <1>8, <1>9, <1>10

LEMMA PageStepsBusy ==
  ASSUME TypeOK, BusyWithARun,
         Expire \/ Cancel \/ Dismiss \/ OpenCreate \/ ReloadPage
  PROVE  BusyWithARun'
<1>0. page \in Pages
  BY DEF TypeOK
<1>1. CASE Expire
  <2>1. page'.stage = page.stage /\ UNCHANGED flows
    BY <1>0, <1>1 DEF Expire, Pages
  <2> QED
    BY <2>1 DEF BusyWithARun, Busy
<1>2. CASE Dismiss \/ OpenCreate \/ ReloadPage
  <2>1. page'.stage = "idle"
    BY <1>0, <1>2 DEF Dismiss, OpenCreate, ReloadPage, Show, NewPage, Pages
  <2> QED
    BY <2>1, PageIsReady
<1>3. CASE Cancel
  <2>1. PICK f \in Flows : f = page.abort
    BY <1>0, <1>3 DEF Cancel, Pages
  <2>2. CASE LoginFails(f, "USER_CANCELLED")
    BY <2>2, FailedLoginIsReady
  <2>3. CASE flows[f].kind = "login" /\ Go(f, [flows[f] EXCEPT !.aborted = TRUE]) /\ UNCHANGED page
    <3>1. PICK w : w = [flows[f] EXCEPT !.aborted = TRUE]
      OBVIOUS
    <3>2. w.kind = flows[f].kind /\ w.step = flows[f].step
      <4>1. flows[f] \in Holding \cup Waiting
        BY <2>3 DEF TypeOK, FlowRecords, Idle, Restores
      <4> QED
        BY <3>1, <4>1 DEF Holding, Waiting, Others
    <3> QED
      BY <2>3, <3>1, <3>2, RunGoesOn DEF Running, Go
  <2> QED
    BY <1>3, <2>1, <2>2, <2>3 DEF Cancel
<1> QED
  BY <1>1, <1>2, <1>3

\* The page is never left busy by a function that is gone: while it shows a
\* challenge, the wallet or a verification, a login or an operation runs that is
\* going to take that away.  Logins and operations overlap with logouts, with
\* each other and with what runs on of a page that was loaded again.
THEOREM BusyPagesHaveARun == Spec => []BusyWithARun
<1>1. Init => BusyWithARun
  BY DEF Init, NewPage, BusyWithARun, Busy
<1>2. IInv /\ BusyWithARun /\ [Next]_vars => BusyWithARun'
  <2> SUFFICES ASSUME IInv, BusyWithARun, [Next]_vars PROVE BusyWithARun'
    OBVIOUS
  <2>1. TypeOK
    BY DEF IInv
  <2>2. CASE UNCHANGED <<page, flows>>
    BY <2>2 DEF BusyWithARun, Busy
  <2>3. \/ UNCHANGED <<page, flows>>
        \/ Expire \/ Cancel \/ Dismiss \/ OpenCreate \/ ReloadPage
        \/ \E f \in Flows : StartLogin(f) \/ StartOperation(f) \/ StartLogout(f) \/ FlowStep(f)
    BY DEF Next, UserStep, Hear, signInVars, vars
  <2> QED
    BY <2>1, <2>2, <2>3, LoginStepsBusy, OtherStepsBusy, PageStepsBusy DEF FlowStep
<1> QED
  BY <1>1, <1>2, InvHolds, PTL DEF Spec

-----------------------------------------------------------------------------
(* The notes of the page *)

MaybeViews == Page!Views \cup {Nothing}

Screens ==
  [session : BOOLEAN, busy : BOOLEAN, view : {"feed", "security", "create", "detail", "edit"},
   selected : MaybeViews, list : SUBSET Page!Views, draft : MaybeViews, deleting : MaybeViews,
   address : Notes \cup {Nothing}, route : Nat, routeLoading : BOOLEAN, sought : Notes \cup {Nothing},
   reselected : BOOLEAN]

\* What an operation was started with: a deletion sends the version that its
\* author had before him, and so does an edit unless its note was selected anew.
Operations ==
  {op \in [action : {"note.create", "note.edit", "note.delete", "note.like", "profile.set-name"},
           expected : MaybeViews, read : MaybeViews, note : MaybeViews, selected : MaybeViews,
           anew : BOOLEAN] :
     (op.action = "note.edit" /\ ~op.anew) \/ op.action = "note.delete" =>
       op.expected = op.read /\ op.read \in Page!Views}

\* A text in the editor is that of the note selected, unless that was selected
\* under it.
EditorOK(s) ==
  s.draft # Nothing =>
    s.view = "edit" /\ s.selected # Nothing /\ (s.reselected \/ s.draft = s.selected)

AddressOK(s) ==
  /\ s.view \in {"detail", "edit"} =>
       s.selected # Nothing /\ (s.reselected \/ s.address = s.selected.note)
  /\ s.sought # Nothing /\ ~s.routeLoading => s.address \in {Nothing, s.sought} \/ s.reselected

\* Who shows s leaves the selected note alone, or selects it anew, or closes the
\* editor.
EditorFollows(s) ==
  \/ s.selected = screen.selected /\ s.reselected = screen.reselected
  \/ s.reselected \/ s.view # "edit" \/ s.selected = Nothing

\* Of the addresses gone back to, the function under way with the last number
\* looks for the one that is sought, unless the user has gone elsewhere.
RouteOK(r) ==
  /\ r.id \in 1 .. screen.route
  /\ r.step \in {"call", "answered"}
  /\ r.step = "call" =>
       /\ r.to \in Notes
       /\ r.id = screen.route /\ screen.sought # Nothing => r.to = screen.sought
  /\ r.step = "answered" =>
       /\ r.note \in MaybeViews
       /\ r.id = screen.route /\ screen.sought # Nothing /\ r.note # Nothing =>
            r.note.note = screen.sought

RunOK(r) ==
  /\ r.kind \in {"none", "refresh", "route", "operation", "rejected", "logout"}
  /\ r.kind = "none" => r.step = "idle"
  /\ r.kind = "route" => RouteOK(r)
  /\ r.kind = "operation" =>
       r.of \in Operations /\ (r.step = "answered" => r.note \in MaybeViews)
  /\ r.step = "listed" => r.list \subseteq Page!Views

NoteStoreOK == DOMAIN pageStore \subseteq Notes /\ \A n \in DOMAIN pageStore : pageStore[n] \in Nat

RunsOK == DOMAIN runs = Runs /\ \A f \in Runs : RunOK(runs[f])

LoadingOK ==
  screen.routeLoading => \E f \in Runs : runs[f].kind = "route" /\ runs[f].id = screen.route

ReadOK == \A u \in unread : u.anew

PageInv ==
  /\ NoteStoreOK
  /\ screen \in Screens /\ EditorOK(screen) /\ AddressOK(screen)
  /\ RunsOK /\ LoadingOK
  /\ ReadOK

-----------------------------------------------------------------------------

LEMMA PageInitInv ==
  ASSUME Page!PageAssumption, Page!Init
  PROVE  PageInv
<1>1. NoteStoreOK
  BY DEF Page!Init, Page!PageAssumption, NoteStoreOK
<1>2. Page!ListNotes \subseteq Page!Views
  BY <1>1 DEF Page!ListNotes, Page!NoteView, Page!Visible, Page!Exists, NoteStoreOK, Page!Views
<1>3. screen \in Screens /\ EditorOK(screen) /\ AddressOK(screen)
  BY <1>2 DEF Page!Init, Screens, MaybeViews, EditorOK, AddressOK
<1>4. RunsOK /\ LoadingOK
  BY DEF Page!Init, Page!Idle, RunsOK, RunOK, LoadingOK
<1> QED
  BY <1>1, <1>3, <1>4 DEF Page!Init, PageInv, ReadOK

LEMMA ListNotesAreViews == NoteStoreOK => Page!ListNotes \subseteq Page!Views
BY DEF Page!ListNotes, Page!NoteView, Page!Visible, Page!Exists, NoteStoreOK, Page!Views

\* The functions under way still look for what they looked for.
RoutesStand ==
  \/ screen'.route = screen.route /\ screen'.sought \in {screen.sought, Nothing}
  \/ screen'.route = screen.route + 1

LEMMA RunStays ==
  ASSUME screen \in Screens, RoutesStand, NEW r, RunOK(r)
  PROVE  RunOK(r)'
<1>1. screen.route \in Nat
  BY DEF Screens
<1>2. CASE r.kind = "route"
  <2>1. RouteOK(r)'
    BY <1>1, <1>2 DEF RoutesStand, RunOK, RouteOK
  <2> QED
    BY <2>1 DEF RunOK
<1>3. CASE r.kind # "route"
  BY <1>3 DEF RunOK
<1> QED
  BY <1>2, <1>3

LEMMA RunsMove ==
  ASSUME PageInv, RoutesStand, NEW f \in Runs, NEW r, Page!Go(f, r), RunOK(r)'
  PROVE  RunsOK'
<1>1. /\ DOMAIN runs' = Runs /\ runs'[f] = r
      /\ \A g \in Runs : g # f => runs'[g] = runs[g]
  BY DEF PageInv, RunsOK, Page!Go
<1>2. ASSUME NEW g \in Runs, g # f PROVE RunOK(runs[g])'
  <2>1. PICK q : q = runs[g] /\ RunOK(q)
    BY DEF PageInv, RunsOK
  <2>2. RunOK(q)'
    BY <2>1, RunStays DEF PageInv
  <2> QED
    BY <1>1, <1>2, <2>1, <2>2
<1> QED
  BY <1>1, <1>2 DEF RunsOK

LEMMA RunsStand ==
  ASSUME PageInv, RoutesStand, UNCHANGED runs
  PROVE  RunsOK'
<1>1. ASSUME NEW g \in Runs PROVE RunOK(runs[g])'
  <2>1. PICK q : q = runs[g] /\ RunOK(q)
    BY DEF PageInv, RunsOK
  <2>2. RunOK(q)'
    BY <2>1, RunStays DEF PageInv
  <2> QED
    BY <2>1, <2>2
<1> QED
  BY <1>1 DEF PageInv, RunsOK

\* Who looks for the last address goes on looking, or the page stops loading.
LEMMA LoadingMoves ==
  ASSUME PageInv, screen'.route = screen.route, screen'.routeLoading => screen.routeLoading,
         NEW f \in Runs, NEW r, Page!Go(f, r),
         screen'.routeLoading /\ runs[f].kind = "route" /\ runs[f].id = screen.route =>
           r.kind = "route" /\ r.id = runs[f].id
  PROVE  LoadingOK'
<1> SUFFICES ASSUME screen'.routeLoading
             PROVE  \E g \in Runs : runs'[g].kind = "route" /\ runs'[g].id = screen'.route
  BY DEF LoadingOK
<1>1. PICK g \in Runs : runs[g].kind = "route" /\ runs[g].id = screen.route
  BY DEF PageInv, LoadingOK
<1>2. /\ runs'[f] = r
      /\ \A h \in Runs : h # f => runs'[h] = runs[h]
  BY DEF PageInv, RunsOK, Page!Go
<1> QED
  BY <1>1, <1>2

LEMMA LoadingStands ==
  ASSUME PageInv, screen'.route = screen.route, screen'.routeLoading => screen.routeLoading,
         UNCHANGED runs
  PROVE  LoadingOK'
BY DEF PageInv, LoadingOK

\* What is shown, with the text that the editor keeps.
LEMMA ScreenShows ==
  ASSUME PageInv, NEW s \in Screens, Page!Show(s),
         s.draft = screen.draft,
         EditorFollows(s), AddressOK(s)
  PROVE  /\ screen' \in Screens /\ EditorOK(screen)' /\ AddressOK(screen)'
         /\ screen'.route = s.route /\ screen'.sought = s.sought
         /\ screen'.routeLoading = s.routeLoading
<1> DEFINE text == Page!Composer(s)
<1>1. text # Nothing =>
        s.view = "edit" /\ s.selected # Nothing /\ (s.reselected \/ text = s.selected)
  BY DEF Page!Composer, PageInv, EditorOK, EditorFollows
<1>2. text \in MaybeViews
  BY DEF Page!Composer, MaybeViews, Screens
<1> HIDE DEF text
<1>3. screen' = [s EXCEPT !.draft = text]
  BY DEF Page!Show, text
<1>4. screen' \in Screens
  BY <1>2, <1>3 DEF Screens
<1>5. /\ screen'.draft = text /\ screen'.view = s.view /\ screen'.selected = s.selected
      /\ screen'.address = s.address /\ screen'.route = s.route
      /\ screen'.sought = s.sought /\ screen'.routeLoading = s.routeLoading
      /\ screen'.reselected = s.reselected
  BY <1>3 DEF Screens
<1> QED
  BY <1>1, <1>4, <1>5 DEF EditorOK, AddressOK

\* A function that shows nothing goes on.
LEMMA GoesOnUnseen ==
  ASSUME PageInv, UNCHANGED screen, NoteStoreOK', ReadOK',
         NEW f \in Runs, NEW r, Page!Go(f, r), RunOK(r),
         runs[f].kind = "route" /\ runs[f].id = screen.route => r.kind = "route" /\ r.id = runs[f].id
  PROVE  PageInv'
<1>1. RoutesStand
  BY DEF RoutesStand
<1>2. RunOK(r)'
  BY <1>1, RunStays DEF PageInv
<1>3. RunsOK'
  BY <1>1, <1>2, RunsMove
<1>4. LoadingOK'
  BY LoadingMoves
<1> QED
  BY <1>3, <1>4 DEF PageInv, EditorOK, AddressOK

\* A function shows something and goes on.
LEMMA GoesOnShown ==
  ASSUME PageInv, UNCHANGED <<pageStore, unread>>, NEW s \in Screens, Page!Show(s),
         s.draft = screen.draft,
         EditorFollows(s), AddressOK(s),
         s.route = screen.route, s.sought \in {screen.sought, Nothing},
         s.routeLoading => screen.routeLoading,
         NEW f \in Runs, NEW r, Page!Go(f, r), RunOK(r),
         s.routeLoading /\ runs[f].kind = "route" /\ runs[f].id = screen.route =>
           r.kind = "route" /\ r.id = runs[f].id
  PROVE  PageInv'
<1>1. /\ screen' \in Screens /\ EditorOK(screen)' /\ AddressOK(screen)'
      /\ screen'.route = s.route /\ screen'.sought = s.sought
      /\ screen'.routeLoading = s.routeLoading
  BY ScreenShows
<1>2. RoutesStand
  BY <1>1 DEF RoutesStand
<1>3. RunOK(r)'
  BY <1>2, RunStays DEF PageInv
<1>4. RunsOK'
  BY <1>2, <1>3, RunsMove
<1>5. LoadingOK'
  BY <1>1, LoadingMoves
<1> QED
  BY <1>1, <1>4, <1>5 DEF PageInv, NoteStoreOK, ReadOK

\* The user goes somewhere without a function of the page.
LEMMA IsShown ==
  ASSUME PageInv, UNCHANGED <<pageStore, pageLive, unread, runs>>, NEW s \in Screens, Page!Show(s),
         s.draft = screen.draft,
         EditorFollows(s), AddressOK(s),
         s.route = screen.route, s.sought \in {screen.sought, Nothing},
         s.routeLoading => screen.routeLoading
  PROVE  PageInv'
<1>1. /\ screen' \in Screens /\ EditorOK(screen)' /\ AddressOK(screen)'
      /\ screen'.route = s.route /\ screen'.sought = s.sought
      /\ screen'.routeLoading = s.routeLoading
  BY ScreenShows
<1>2. RoutesStand
  BY <1>1 DEF RoutesStand
<1>3. RunsOK'
  BY <1>2, RunsStand
<1>4. LoadingOK'
  BY <1>1, LoadingStands
<1> QED
  BY <1>1, <1>3, <1>4 DEF PageInv, NoteStoreOK, ReadOK

-----------------------------------------------------------------------------

LEMMA ServerListsKeeps ==
  ASSUME PageInv, NEW f \in Runs, Page!ServerLists(f)
  PROVE  PageInv'
<1>1. /\ runs[f].step = "listing" /\ RunOK(runs[f])
      /\ UNCHANGED <<screen, pageStore, unread>>
  BY DEF Page!ServerLists, Page!service, PageInv, RunsOK
<1>2. PICK failed \in BOOLEAN, list \in {{}, Page!ListNotes} :
        Page!Go(f, [kind |-> runs[f].kind, step |-> "listed", of |-> runs[f].of,
                    list |-> list, failed |-> failed])
  <2>1. PICK failed \in BOOLEAN :
          Page!Go(f, [kind |-> runs[f].kind, step |-> "listed", of |-> runs[f].of,
                      list |-> IF failed THEN {} ELSE Page!ListNotes, failed |-> failed])
    BY DEF Page!ServerLists
  <2> QED
    BY <2>1
<1>3. list \subseteq Page!Views
  BY <1>2, ListNotesAreViews DEF PageInv
<1>4. PICK r : r = [kind |-> runs[f].kind, step |-> "listed", of |-> runs[f].of,
                    list |-> list, failed |-> failed]
  OBVIOUS
<1>5. r.kind = runs[f].kind /\ r.step = "listed" /\ r.of = runs[f].of /\ r.list = list
  BY <1>4
<1>6. runs[f].kind \notin {"none", "route"}
  BY <1>1 DEF RunOK, RouteOK
<1>7. RunOK(r)
  BY <1>1, <1>3, <1>5, <1>6 DEF RunOK
<1>8. Page!Go(f, r)
  BY <1>2, <1>4
<1>9. NoteStoreOK' /\ ReadOK'
  BY <1>1 DEF PageInv, NoteStoreOK, ReadOK
<1> QED
  BY <1>1, <1>6, <1>7, <1>8, <1>9, GoesOnUnseen

\* The list is replaced by the one read, or kept.
LEMMA KeptIsList ==
  ASSUME PageInv, NEW f \in Runs, runs[f].step = "listed"
  PROVE  Page!Kept(f) \subseteq Page!Views /\ runs[f].list \subseteq Page!Views
BY DEF PageInv, RunsOK, RunOK, Screens, Page!Kept

LEMMA IdleIsOK == RunOK(Page!Idle)
BY DEF RunOK, Page!Idle

LEMMA RefreshedKeeps ==
  ASSUME PageInv, NEW f \in Runs, Page!Refreshed(f)
  PROVE  PageInv'
<1>1. PICK s : s = [screen EXCEPT !.list = Page!Kept(f)]
  OBVIOUS
<1>2. /\ Page!Show(s) /\ Page!Go(f, Page!Idle) /\ UNCHANGED <<pageStore, unread>>
      /\ runs[f].kind = "refresh" /\ runs[f].step = "listed"
  BY <1>1 DEF Page!Refreshed, Page!At, Page!service
<1>3. /\ s \in Screens /\ s.draft = screen.draft /\ s.selected = screen.selected
      /\ s.view = screen.view /\ s.address = screen.address /\ s.route = screen.route
      /\ s.sought = screen.sought /\ s.routeLoading = screen.routeLoading
      /\ s.reselected = screen.reselected
  BY <1>1, <1>2, KeptIsList DEF PageInv, Screens
<1>4. AddressOK(s) /\ EditorFollows(s)
  BY <1>3 DEF PageInv, AddressOK, EditorFollows
<1> QED
  BY <1>2, <1>3, <1>4, IdleIsOK, GoesOnShown

\* The feed, the security page and the form of a new note.
LEMMA ViewIsOK ==
  ASSUME NEW s \in Screens, NEW view \in {"feed", "security", "create"}
  PROVE  /\ Page!View(s, view) \in Screens
         /\ Page!View(s, view).selected = Nothing /\ Page!View(s, view).view = view
         /\ Page!View(s, view).address = Nothing /\ Page!View(s, view).sought = Nothing
         /\ Page!View(s, view).draft = s.draft /\ Page!View(s, view).route = s.route
         /\ Page!View(s, view).routeLoading = s.routeLoading
         /\ AddressOK(Page!View(s, view)) /\ EditorFollows(Page!View(s, view))
<1>1. PICK t : t = Page!View(s, view)
  OBVIOUS
<1>2. /\ t \in Screens /\ t.selected = Nothing /\ t.view = view /\ t.address = Nothing
      /\ t.sought = Nothing /\ t.draft = s.draft /\ t.route = s.route
      /\ t.routeLoading = s.routeLoading
  BY <1>1 DEF Page!View, Screens, MaybeViews
<1>3. AddressOK(t) /\ EditorFollows(t)
  BY <1>2 DEF AddressOK, EditorFollows
<1> QED
  BY <1>1, <1>2, <1>3

LEMMA PopStateKeeps ==
  ASSUME PageInv, NEW f \in Runs, Page!PopState(f)
  PROVE  PageInv'
<1>0. PICK address \in Notes \cup {Nothing} :
        LET s == [Page!Feed(screen) EXCEPT !.address = address, !.sought = address,
                    !.route = @ + 1, !.routeLoading = address # Nothing] IN
        /\ Page!Show(s)
        /\ IF address = Nothing THEN UNCHANGED runs
           ELSE Page!Go(f, [kind |-> "route", step |-> "call", id |-> s.route, to |-> address])
  BY DEF Page!PopState, Page!Addresses
<1>1. PICK s :
        /\ s = [Page!Feed(screen) EXCEPT !.address = address, !.sought = address,
                  !.route = @ + 1, !.routeLoading = address # Nothing]
        /\ Page!Show(s)
        /\ IF address = Nothing THEN UNCHANGED runs
           ELSE Page!Go(f, [kind |-> "route", step |-> "call", id |-> s.route, to |-> address])
  BY <1>0
<1>2. /\ Page!Free(f) /\ UNCHANGED <<pageStore, unread>> /\ screen.route \in Nat
  BY DEF Page!PopState, Page!service, PageInv, Screens
<1>3. PICK t : t = Page!Feed(screen)
  OBVIOUS
<1>4. /\ t \in Screens /\ t.selected = Nothing /\ t.view = "feed" /\ t.draft = screen.draft
      /\ t.route = screen.route
  BY <1>3, ViewIsOK DEF Page!Feed, PageInv
<1>5. /\ s \in Screens /\ s.selected = Nothing /\ s.view = "feed" /\ s.draft = screen.draft
      /\ s.route = screen.route + 1 /\ s.address = address /\ s.sought = address
      /\ s.routeLoading = (address # Nothing)
  <2>1. PICK loading \in BOOLEAN : loading = (address # Nothing)
    OBVIOUS
  <2>2. PICK n \in Nat : n = screen.route + 1
    BY <1>2
  <2>3. s = [t EXCEPT !.address = address, !.sought = address, !.route = n,
                      !.routeLoading = loading]
    BY <1>1, <1>3, <1>4, <2>1, <2>2
  <2>4. /\ s \in Screens /\ s.selected = Nothing /\ s.view = "feed" /\ s.draft = screen.draft
        /\ s.route = n /\ s.address = address /\ s.sought = address
        /\ s.routeLoading = loading
    BY <1>0, <1>4, <2>3 DEF Screens
  <2> QED
    BY <2>1, <2>2, <2>4
<1>6. AddressOK(s) /\ EditorFollows(s)
  BY <1>5 DEF AddressOK, EditorFollows
<1>7. /\ screen' \in Screens /\ EditorOK(screen)' /\ AddressOK(screen)'
      /\ screen'.route = s.route /\ screen'.sought = s.sought
      /\ screen'.routeLoading = s.routeLoading
  BY <1>1, <1>5, <1>6, ScreenShows
<1>8. RoutesStand
  BY <1>5, <1>7 DEF RoutesStand
<1>9. RunsOK' /\ LoadingOK'
  <2>1. CASE address = Nothing
    BY <1>1, <1>5, <1>7, <1>8, <2>1, RunsStand DEF LoadingOK
  <2>2. CASE address # Nothing
    <3>1. PICK r : r = [kind |-> "route", step |-> "call", id |-> s.route, to |-> address]
      OBVIOUS
    <3>2. Page!Go(f, r) /\ r.kind = "route" /\ r.step = "call" /\ r.id = s.route /\ r.to = address
      BY <1>1, <2>2, <3>1
    <3>3. RouteOK(r)'
      BY <1>1, <1>2, <1>5, <1>7, <2>2, <3>2 DEF RouteOK
    <3>4. RunOK(r)'
      BY <3>2, <3>3 DEF RunOK
    <3>5. RunsOK'
      BY <1>8, <3>2, <3>4, RunsMove
    <3>6. runs'[f] = r
      BY <3>2 DEF Page!Go, PageInv, RunsOK
    <3> QED
      BY <1>7, <3>2, <3>5, <3>6 DEF LoadingOK
  <2> QED
    BY <2>1, <2>2
<1> QED
  BY <1>2, <1>7, <1>9 DEF PageInv, NoteStoreOK, ReadOK

LEMMA ServerGetsKeeps ==
  ASSUME PageInv, NEW f \in Runs, Page!ServerGets(f)
  PROVE  PageInv'
<1>1. /\ runs[f].kind = "route" /\ runs[f].step = "call" /\ RouteOK(runs[f])
      /\ UNCHANGED <<screen, pageStore, unread>>
  BY DEF Page!ServerGets, Page!At, Page!service, PageInv, RunsOK, RunOK
<1>2. PICK note \in (IF Page!Visible(runs[f].to) THEN {Page!NoteView(runs[f].to)} ELSE {}) \cup {Nothing} :
        Page!Go(f, [kind |-> "route", step |-> "answered", id |-> runs[f].id, note |-> note])
  BY DEF Page!ServerGets
<1>3. note # Nothing => note \in Page!Views /\ note.note = runs[f].to
  BY <1>1, <1>2 DEF Page!Visible, Page!Exists, Page!NoteView, Page!Views, PageInv, NoteStoreOK
<1>4. PICK r : r = [kind |-> "route", step |-> "answered", id |-> runs[f].id, note |-> note]
  OBVIOUS
<1>5. r.kind = "route" /\ r.step = "answered" /\ r.id = runs[f].id /\ r.note = note
  BY <1>4
<1>6. RunOK(r)
  BY <1>1, <1>3, <1>5 DEF RunOK, RouteOK, MaybeViews
<1>7. Page!Go(f, r) /\ NoteStoreOK' /\ ReadOK'
  BY <1>1, <1>2, <1>4 DEF PageInv, NoteStoreOK, ReadOK
<1> QED
  BY <1>1, <1>5, <1>6, <1>7, GoesOnUnseen

\* A note is shown with its address.
LEMMA DetailIsOK ==
  ASSUME Page!PageAssumption, NEW s \in Screens, NEW v \in Page!Views,
         s.sought # Nothing /\ ~s.routeLoading => v.note = s.sought
  PROVE  /\ Page!Detail(s, v) \in Screens
         /\ Page!Detail(s, v).draft = s.draft /\ Page!Detail(s, v).route = s.route
         /\ Page!Detail(s, v).selected = v /\ Page!Detail(s, v).view = "detail"
         /\ Page!Detail(s, v).address = v.note
         /\ Page!Detail(s, v).sought = s.sought
         /\ Page!Detail(s, v).routeLoading = s.routeLoading
         /\ AddressOK(Page!Detail(s, v)) /\ EditorFollows(Page!Detail(s, v))
<1>1. PICK t : t = Page!Detail(s, v)
  OBVIOUS
<1>2. /\ t \in Screens /\ t.draft = s.draft /\ t.route = s.route /\ t.selected = v
      /\ t.view = "detail" /\ t.address = v.note /\ t.sought = s.sought
      /\ t.routeLoading = s.routeLoading
  BY <1>1 DEF Page!Detail, Screens, MaybeViews, Page!Views
<1>3. AddressOK(t) /\ EditorFollows(t)
  BY <1>2 DEF AddressOK, EditorFollows, Page!PageAssumption
<1> QED
  BY <1>1, <1>2, <1>3

LEMMA RouteAnsweredKeeps ==
  ASSUME Page!PageAssumption, PageInv, NEW f \in Runs, Page!RouteAnswered(f)
  PROVE  PageInv'
<1>1. /\ runs[f].kind = "route" /\ runs[f].step = "answered" /\ RouteOK(runs[f])
      /\ Page!Go(f, Page!Idle) /\ UNCHANGED <<pageStore, unread>>
  BY DEF Page!RouteAnswered, Page!At, Page!service, PageInv, RunsOK, RunOK
<1>2. PICK v : v = runs[f].note
  OBVIOUS
<1>3. PICK s : s = [screen EXCEPT !.routeLoading = @ /\ runs[f].id # screen.route]
  OBVIOUS
<1>4. \/ ~Page!IsNewest(f) /\ UNCHANGED screen
      \/ Page!IsNewest(f) /\ v = Nothing /\ Page!Show([Page!Feed(s) EXCEPT !.sought = s.sought])
      \/ Page!IsNewest(f) /\ v # Nothing /\ Page!Show(Page!Detail(s, v))
  BY <1>2, <1>3 DEF Page!RouteAnswered
<1>5. CASE ~Page!IsNewest(f) /\ UNCHANGED screen
  <2>1. NoteStoreOK' /\ ReadOK'
    BY <1>1 DEF PageInv, NoteStoreOK, ReadOK
  <2> QED
    BY <1>1, <1>5, <2>1, IdleIsOK, GoesOnUnseen DEF Page!IsNewest
<1>6. ASSUME Page!IsNewest(f)
      PROVE  /\ s \in Screens /\ s.draft = screen.draft /\ s.route = screen.route
             /\ s.sought = screen.sought /\ s.routeLoading = FALSE
  <2>1. s = [screen EXCEPT !.routeLoading = FALSE]
    <3>1. (screen.routeLoading /\ runs[f].id # screen.route) = FALSE
      BY <1>6 DEF Page!IsNewest
    <3> QED
      BY <1>3, <3>1
  <2> QED
    BY <2>1 DEF PageInv, Screens
<1>7. CASE Page!IsNewest(f) /\ v = Nothing /\ Page!Show([Page!Feed(s) EXCEPT !.sought = s.sought])
  <2>1. PICK t : t = Page!Feed(s)
    OBVIOUS
  <2>2. /\ t \in Screens /\ t.selected = Nothing /\ t.view = "feed" /\ t.draft = screen.draft
        /\ t.route = screen.route /\ t.address = Nothing /\ t.routeLoading = FALSE
    BY <1>6, <1>7, <2>1, ViewIsOK DEF Page!Feed
  <2>3. PICK u : u = [t EXCEPT !.sought = s.sought]
    OBVIOUS
  <2>4. /\ u \in Screens /\ u.selected = Nothing /\ u.view = "feed" /\ u.draft = screen.draft
        /\ u.route = screen.route /\ u.address = Nothing /\ u.routeLoading = FALSE
        /\ u.sought = screen.sought
    BY <1>6, <1>7, <2>2, <2>3 DEF Screens
  <2>5. AddressOK(u) /\ EditorFollows(u)
    BY <2>4 DEF AddressOK, EditorFollows
  <2>6. Page!Show(u)
    BY <1>7, <2>1, <2>3
  <2> QED
    BY <1>1, <2>4, <2>5, <2>6, IdleIsOK, GoesOnShown
<1>8. CASE Page!IsNewest(f) /\ v # Nothing /\ Page!Show(Page!Detail(s, v))
  <2>1. /\ v \in Page!Views
        /\ s.sought # Nothing => v.note = s.sought
    BY <1>1, <1>2, <1>6, <1>8 DEF RouteOK, MaybeViews, Page!IsNewest
  <2>2. PICK u : u = Page!Detail(s, v)
    OBVIOUS
  <2>3. /\ u \in Screens /\ u.draft = screen.draft /\ u.route = screen.route
        /\ u.view = "detail" /\ u.sought = screen.sought /\ u.routeLoading = FALSE
        /\ AddressOK(u) /\ EditorFollows(u)
    BY <1>6, <1>8, <2>1, <2>2, DetailIsOK
  <2>4. Page!Show(u)
    BY <1>8, <2>2
  <2> QED
    BY <1>1, <2>3, <2>4, IdleIsOK, GoesOnShown
<1> QED
  BY <1>4, <1>5, <1>7, <1>8

-----------------------------------------------------------------------------
(* What the user does without asking the service *)

LEMMA OpenViewKeeps ==
  ASSUME PageInv, Page!OpenView
  PROVE  PageInv'
<1>1. PICK view \in {"feed", "security", "create"}, busy \in BOOLEAN :
        Page!Show([Page!View(screen, view) EXCEPT !.busy = busy])
  <2>1. CASE \E view \in {"feed", "security"} : Page!Show(Page!View(screen, view))
    <3>1. PICK view \in {"feed", "security"} : Page!Show(Page!View(screen, view))
      BY <2>1
    <3>2. screen.busy \in BOOLEAN
          /\ Page!View(screen, view) = [Page!View(screen, view) EXCEPT !.busy = screen.busy]
      BY DEF PageInv, Screens, Page!View
    <3> QED
      BY <3>1, <3>2
  <2>2. CASE Page!Show([Page!View(screen, "create") EXCEPT !.busy = FALSE])
    BY <2>2
  <2> QED
    BY <2>1, <2>2 DEF Page!OpenView
<1>2. PICK t : t = Page!View(screen, view)
  OBVIOUS
<1>3. /\ t \in Screens /\ t.selected = Nothing /\ t.view = view /\ t.address = Nothing
      /\ t.sought = Nothing /\ t.draft = screen.draft /\ t.route = screen.route
      /\ t.routeLoading = screen.routeLoading
  BY <1>2, ViewIsOK DEF PageInv
<1>4. PICK s : s = [t EXCEPT !.busy = busy]
  OBVIOUS
<1>5. /\ s \in Screens /\ s.selected = Nothing /\ s.view = view /\ s.address = Nothing
      /\ s.sought = Nothing /\ s.draft = screen.draft /\ s.route = screen.route
      /\ s.routeLoading = screen.routeLoading
  BY <1>3, <1>4 DEF Screens
<1>6. AddressOK(s) /\ EditorFollows(s)
  BY <1>5 DEF AddressOK, EditorFollows
<1>7. Page!Show(s) /\ UNCHANGED <<pageStore, pageLive, unread, runs>>
  BY <1>1, <1>2, <1>4 DEF Page!OpenView, Page!service
<1> QED
  BY <1>5, <1>6, <1>7, IsShown

LEMMA OpenNoteKeeps ==
  ASSUME Page!PageAssumption, PageInv, Page!OpenNote
  PROVE  PageInv'
<1>1. PICK v \in screen.list : Page!Show([Page!Detail(screen, v) EXCEPT !.sought = Nothing])
  BY DEF Page!OpenNote
<1>2. v \in Page!Views
  BY <1>1 DEF PageInv, Screens
<1>3. PICK t : t = [screen EXCEPT !.sought = Nothing]
  OBVIOUS
<1>4. /\ t \in Screens /\ t.sought = Nothing /\ t.draft = screen.draft /\ t.route = screen.route
      /\ t.routeLoading = screen.routeLoading
  BY <1>3 DEF PageInv, Screens
<1>5. PICK s : s = Page!Detail(t, v)
  OBVIOUS
<1>6. /\ s \in Screens /\ s.view = "detail" /\ s.sought = Nothing /\ s.draft = screen.draft
      /\ s.route = screen.route /\ s.routeLoading = screen.routeLoading
      /\ AddressOK(s) /\ EditorFollows(s)
  BY <1>2, <1>4, <1>5, DetailIsOK
<1>7. s = [Page!Detail(screen, v) EXCEPT !.sought = Nothing]
  BY <1>2, <1>3, <1>5 DEF Page!Detail, PageInv, Screens
<1>8. Page!Show(s) /\ UNCHANGED <<pageStore, pageLive, unread, runs>>
  BY <1>1, <1>7 DEF Page!OpenNote, Page!service
<1> QED
  BY <1>6, <1>8, IsShown

LEMMA OpenEditorKeeps ==
  ASSUME PageInv, Page!OpenEditor
  PROVE  PageInv'
<1>1. PICK s : s = [screen EXCEPT !.view = "edit", !.address = screen.selected.note]
  OBVIOUS
<1>2. screen.view = "detail" /\ screen.selected \in Page!Views
  BY DEF Page!OpenEditor, Page!Shown, PageInv, AddressOK, Screens, MaybeViews
<1>3. /\ s \in Screens /\ s.view = "edit" /\ s.selected = screen.selected
      /\ s.address = s.selected.note /\ s.draft = screen.draft /\ s.route = screen.route
      /\ s.sought = screen.sought /\ s.routeLoading = screen.routeLoading
      /\ s.reselected = screen.reselected
  BY <1>1, <1>2 DEF PageInv, Screens, Page!Views
<1>4. AddressOK(s) /\ EditorFollows(s)
  BY <1>2, <1>3 DEF PageInv, AddressOK, EditorFollows
<1>5. Page!Show(s) /\ UNCHANGED <<pageStore, pageLive, unread, runs>>
  BY <1>1 DEF Page!OpenEditor, Page!service
<1> QED
  BY <1>3, <1>4, <1>5, IsShown

LEMMA LeaveEditorKeeps ==
  ASSUME PageInv, Page!LeaveEditor
  PROVE  PageInv'
<1>1. PICK s : s = [screen EXCEPT !.view = "detail"]
  OBVIOUS
<1>2. /\ s \in Screens /\ s.view = "detail" /\ s.selected = screen.selected
      /\ s.address = screen.address /\ s.draft = screen.draft /\ s.route = screen.route
      /\ s.sought = screen.sought /\ s.routeLoading = screen.routeLoading
      /\ s.reselected = screen.reselected
  BY <1>1 DEF PageInv, Screens
<1>3. AddressOK(s) /\ EditorFollows(s)
  BY <1>2 DEF PageInv, AddressOK, EditorOK, EditorFollows, Page!LeaveEditor
<1>4. Page!Show(s) /\ UNCHANGED <<pageStore, pageLive, unread, runs>>
  BY <1>1 DEF Page!LeaveEditor, Page!service
<1> QED
  BY <1>2, <1>3, <1>4, IsShown

\* The dialog is opened or closed.
LEMMA DialogKeeps ==
  ASSUME PageInv, Page!AskToDelete \/ Page!KeepNote
  PROVE  PageInv'
<1>1. PICK deleting \in {screen.selected, Nothing} :
        Page!Show([screen EXCEPT !.deleting = deleting])
  BY DEF Page!AskToDelete, Page!KeepNote
<1>2. PICK s : s = [screen EXCEPT !.deleting = deleting]
  OBVIOUS
<1>3. /\ s \in Screens /\ s.view = screen.view /\ s.selected = screen.selected
      /\ s.address = screen.address /\ s.draft = screen.draft /\ s.route = screen.route
      /\ s.sought = screen.sought /\ s.routeLoading = screen.routeLoading
      /\ s.reselected = screen.reselected
  BY <1>2 DEF PageInv, Screens, MaybeViews
<1>4. AddressOK(s) /\ EditorFollows(s)
  BY <1>3 DEF PageInv, AddressOK, EditorFollows
<1>5. Page!Show(s) /\ UNCHANGED <<pageStore, pageLive, unread, runs>>
  BY <1>1, <1>2 DEF Page!AskToDelete, Page!KeepNote, Page!service
<1> QED
  BY <1>3, <1>4, <1>5, IsShown

-----------------------------------------------------------------------------
(* Operations, and the end of the session *)

LEMMA StartOperationKeeps ==
  ASSUME Page!PageAssumption, PageInv, NEW f \in Runs, Page!StartOperation(f)
  PROVE  PageInv'
<1>1. PICK action \in Actions :
        /\ Page!Offered(action)
        /\ LET expected == CASE action = "note.delete" -> screen.deleting
                             [] action \in {"note.create", "profile.set-name"} -> Nothing
                             [] OTHER -> screen.selected
               read == IF action = "note.edit" THEN screen.draft ELSE expected IN
           Page!Go(f, [kind |-> "operation", step |-> "call",
                       of |-> Page!Operation(action, expected, read)])
  BY DEF Page!StartOperation
<1>2. PICK expected :
        expected = CASE action = "note.delete" -> screen.deleting
                     [] action \in {"note.create", "profile.set-name"} -> Nothing
                     [] OTHER -> screen.selected
  OBVIOUS
<1>3. PICK read : read = IF action = "note.edit" THEN screen.draft ELSE expected
  OBVIOUS
<1>4. PICK op : op = Page!Operation(action, expected, read)
  OBVIOUS
<1>5. PICK r : r = [kind |-> "operation", step |-> "call", of |-> op]
  OBVIOUS
<1>6. Page!Go(f, r) /\ r.kind = "operation" /\ r.step = "call" /\ r.of = op
  BY <1>1, <1>2, <1>3, <1>4, <1>5
<1>7. PICK selected \in MaybeViews, anew \in BOOLEAN :
        /\ anew = screen.reselected
        /\ op = [action |-> action, expected |-> expected, read |-> read, note |-> Nothing,
                 anew |-> anew, selected |-> selected]
  <2>1. PICK selected :
          selected = IF action = "profile.set-name" THEN screen.selected ELSE Nothing
    OBVIOUS
  <2>2. selected \in MaybeViews /\ screen.reselected \in BOOLEAN
    BY <2>1 DEF PageInv, Screens, MaybeViews
  <2> QED
    BY <1>4, <2>1, <2>2 DEF Page!Operation
<1>8. action \in Page!Named /\ expected \in MaybeViews /\ read \in MaybeViews
  BY <1>1, <1>2, <1>3 DEF Page!PageAssumption, PageInv, Screens, MaybeViews
<1>9. (action = "note.edit" /\ ~anew) \/ action = "note.delete" =>
        expected = read /\ read \in Page!Views
  <2>1. CASE action = "note.edit" /\ ~anew
    <3>1. screen.draft # Nothing
      BY <1>1, <2>1 DEF Page!Offered
    <3> QED
      BY <1>2, <1>3, <1>7, <2>1, <3>1 DEF PageInv, EditorOK, Screens, MaybeViews
  <2>2. CASE action = "note.delete"
    <3>1. screen.deleting # Nothing
      BY <1>1, <2>2 DEF Page!Offered
    <3> QED
      BY <1>2, <1>3, <2>2, <3>1 DEF PageInv, Screens, MaybeViews
  <2> QED
    BY <2>1, <2>2
<1>10. op \in Operations
  BY <1>7, <1>8, <1>9 DEF Operations, Page!Named, MaybeViews
<1>11. RunOK(r)
  BY <1>6, <1>10 DEF RunOK
<1>12. PICK s : s = [screen EXCEPT !.busy = TRUE, !.deleting = Nothing]
  OBVIOUS
<1>13. /\ s \in Screens /\ s.view = screen.view /\ s.selected = screen.selected
       /\ s.address = screen.address /\ s.draft = screen.draft /\ s.route = screen.route
       /\ s.sought = screen.sought /\ s.routeLoading = screen.routeLoading
       /\ s.reselected = screen.reselected
  BY <1>12 DEF PageInv, Screens, MaybeViews
<1>14. AddressOK(s) /\ EditorFollows(s)
  BY <1>13 DEF PageInv, AddressOK, EditorFollows
<1>15. Page!Show(s) /\ UNCHANGED <<pageStore, unread>> /\ runs[f].kind = "none"
  BY <1>12 DEF Page!StartOperation, Page!service, Page!Free
<1> QED
  BY <1>6, <1>11, <1>13, <1>14, <1>15, GoesOnShown

\* The note stored is one of the notes.
LEMMA StoredIsOK ==
  ASSUME NoteStoreOK, NEW n \in Notes, NEW version \in Nat, pageStore' = Page!Stored(n, version)
  PROVE  NoteStoreOK'
BY DEF NoteStoreOK, Page!Stored

\* An author had before him what he replaces, or his note was selected anew.
LEMMA ChangesAreRead ==
  ASSUME PageInv, NEW f \in Runs, NEW op \in Operations, Page!Changes(f, op)
  PROVE  /\ NoteStoreOK' /\ ReadOK'
         /\ \E result, note : note \in MaybeViews /\ Page!Answer(f, result, note)
<1> DEFINE n == op.expected.note
<1>0. NoteStoreOK /\ ReadOK
  BY DEF PageInv
<1>1. ASSUME op.action = "note.create",
             NEW m \in Notes \ DOMAIN pageStore,
             pageStore' = Page!Stored(m, 1),
             Page!Answer(f, "OK", [note |-> m, version |-> 1]), UNCHANGED unread
      PROVE  /\ NoteStoreOK' /\ ReadOK'
             /\ \E result, note : note \in MaybeViews /\ Page!Answer(f, result, note)
  <2>1. [note |-> m, version |-> 1] \in MaybeViews
    BY DEF MaybeViews, Page!Views
  <2> QED
    BY <1>0, <1>1, <2>1, StoredIsOK DEF ReadOK
<1>2. ASSUME op.action \in {"note.edit", "note.delete"}, Page!ExpectedVersion(op), Page!Replaces(op)
      PROVE  ReadOK' /\ n \in Notes /\ pageStore[n] \in Nat
  <2>1. pageStore[n] = op.expected.version /\ n \in DOMAIN pageStore
    BY <1>2 DEF Page!ExpectedVersion, Page!Exists
  <2>2. ReadOK'
    <3>1. CASE op.anew
      BY <1>0, <1>2, <3>1 DEF Page!Replaces, ReadOK
    <3>2. CASE ~op.anew
      <4>1. op.expected = op.read
        BY <1>2, <3>2 DEF Operations
      <4> QED
        BY <1>0, <1>2, <2>1, <4>1 DEF Page!Replaces, ReadOK
    <3> QED
      BY <3>1, <3>2
  <2> QED
    BY <1>0, <2>1, <2>2 DEF NoteStoreOK
<1>3. CASE /\ op.action = "note.edit" /\ Page!ExpectedVersion(op) /\ Page!Replaces(op)
           /\ pageStore' = Page!Stored(n, pageStore[n] + 1)
           /\ Page!Answer(f, "OK", [note |-> n, version |-> pageStore[n] + 1])
  <2>1. ReadOK' /\ n \in Notes /\ pageStore[n] + 1 \in Nat
    BY <1>2, <1>3
  <2>2. [note |-> n, version |-> pageStore[n] + 1] \in MaybeViews
    BY <2>1 DEF MaybeViews, Page!Views
  <2> QED
    BY <1>0, <1>3, <2>1, <2>2, StoredIsOK
<1>4. CASE /\ op.action = "note.delete" /\ Page!ExpectedVersion(op) /\ Page!Replaces(op)
           /\ pageStore' = Page!Stored(n, 0) /\ Page!Answer(f, "OK", Nothing)
  <2>1. ReadOK' /\ n \in Notes /\ Nothing \in MaybeViews
    BY <1>2, <1>4 DEF MaybeViews
  <2> QED
    BY <1>0, <1>4, <2>1, StoredIsOK
<1>5. CASE /\ op.action = "note.like" /\ Page!Exists(n) /\ Page!Answer(f, "OK", Page!NoteView(n))
           /\ UNCHANGED <<pageStore, unread>>
  <2>1. Page!NoteView(n) \in MaybeViews
    BY <1>0, <1>5 DEF Page!Exists, Page!NoteView, NoteStoreOK, MaybeViews, Page!Views
  <2>2. NoteStoreOK'
    BY <1>0, <1>5 DEF NoteStoreOK
  <2> QED
    BY <1>0, <1>5, <2>1, <2>2 DEF ReadOK
<1>6. CASE /\ op.action = "profile.set-name" /\ Page!Answer(f, "OK", Nothing)
           /\ UNCHANGED <<pageStore, unread>>
  <2>1. NoteStoreOK' /\ Nothing \in MaybeViews
    BY <1>0, <1>6 DEF NoteStoreOK, MaybeViews
  <2> QED
    BY <1>0, <1>6, <2>1 DEF ReadOK
<1> QED
  BY <1>1, <1>3, <1>4, <1>5, <1>6 DEF Page!Changes

LEMMA ServerOperatesKeeps ==
  ASSUME PageInv, NEW f \in Runs, Page!ServerOperates(f)
  PROVE  PageInv'
<1>1. /\ runs[f].kind = "operation" /\ runs[f].of \in Operations /\ UNCHANGED screen
  BY DEF Page!ServerOperates, Page!At, PageInv, RunsOK, RunOK
<1>2. /\ NoteStoreOK' /\ ReadOK'
      /\ \E result, note : note \in MaybeViews /\ Page!Answer(f, result, note)
  <2>1. CASE Page!Changes(f, runs[f].of)
    BY <1>1, <2>1, ChangesAreRead
  <2>2. CASE /\ Page!Answer(f, IF pageLive THEN "REFUSED" ELSE "SESSION_INVALID", Nothing)
             /\ UNCHANGED <<pageStore, unread>>
    BY <2>2 DEF PageInv, NoteStoreOK, ReadOK, MaybeViews
  <2> QED
    BY <2>1, <2>2 DEF Page!ServerOperates
<1>3. PICK result, note : note \in MaybeViews /\ Page!Answer(f, result, note)
  BY <1>2
<1>4. PICK r : r = [kind |-> "operation", step |-> "answered", of |-> runs[f].of,
                    result |-> result, note |-> note]
  OBVIOUS
<1>5. RunOK(r)
  BY <1>1, <1>3, <1>4 DEF RunOK
<1>6. Page!Go(f, r)
  BY <1>3, <1>4 DEF Page!Answer
<1> QED
  BY <1>1, <1>2, <1>5, <1>6, GoesOnUnseen

\* A note is busy or not, and the user is signed in or not.
LEMMA FlagsAreOK ==
  ASSUME PageInv, NEW busy \in BOOLEAN, NEW session \in BOOLEAN, NEW s,
         s = [screen EXCEPT !.busy = busy, !.session = session]
  PROVE  /\ s \in Screens /\ s.draft = screen.draft /\ s.selected = screen.selected
         /\ s.route = screen.route /\ s.sought = screen.sought
         /\ s.routeLoading = screen.routeLoading /\ AddressOK(s) /\ EditorFollows(s)
<1>1. /\ s \in Screens /\ s.draft = screen.draft /\ s.selected = screen.selected
      /\ s.view = screen.view /\ s.address = screen.address
      /\ s.route = screen.route /\ s.sought = screen.sought
      /\ s.routeLoading = screen.routeLoading /\ s.reselected = screen.reselected
  BY DEF PageInv, Screens
<1>2. AddressOK(s) /\ EditorFollows(s)
  BY <1>1 DEF PageInv, AddressOK, EditorFollows
<1> QED
  BY <1>1, <1>2

\* The page forgets the session and shows the feed.
LEMMA ForgottenIsOK ==
  ASSUME PageInv, NEW busy \in BOOLEAN, NEW s,
         s = [Page!Feed(screen) EXCEPT !.session = FALSE, !.busy = busy]
  PROVE  /\ s \in Screens /\ s.draft = screen.draft /\ s.selected = Nothing
         /\ s.route = screen.route /\ s.sought = Nothing
         /\ s.routeLoading = screen.routeLoading /\ AddressOK(s) /\ EditorFollows(s)
<1>1. PICK t : t = Page!Feed(screen)
  OBVIOUS
<1>2. /\ t \in Screens /\ t.selected = Nothing /\ t.view = "feed" /\ t.address = Nothing
      /\ t.sought = Nothing /\ t.draft = screen.draft /\ t.route = screen.route
      /\ t.routeLoading = screen.routeLoading
  BY <1>1, ViewIsOK DEF Page!Feed, PageInv
<1>3. /\ s \in Screens /\ s.draft = screen.draft /\ s.selected = Nothing /\ s.view = "feed"
      /\ s.address = Nothing /\ s.route = screen.route /\ s.sought = Nothing
      /\ s.routeLoading = screen.routeLoading
  BY <1>1, <1>2 DEF Screens
<1>4. AddressOK(s) /\ EditorFollows(s)
  BY <1>3 DEF AddressOK, EditorFollows
<1> QED
  BY <1>3, <1>4

LEMMA OperationAnsweredKeeps ==
  ASSUME PageInv, NEW f \in Runs, Page!OperationAnswered(f)
  PROVE  PageInv'
<1>1. /\ runs[f].kind = "operation" /\ runs[f].of \in Operations /\ runs[f].note \in MaybeViews
      /\ UNCHANGED <<pageStore, unread>>
  BY DEF Page!OperationAnswered, Page!At, Page!service, PageInv, RunsOK, RunOK
<1>2. CASE /\ Page!Show([screen EXCEPT !.busy = FALSE,
                 !.session = @ \/ runs[f].of.action = "profile.set-name"])
           /\ Page!Go(f, Page!Listing("operation", [runs[f].of EXCEPT !.note = runs[f].note]))
  <2>1. PICK session \in BOOLEAN :
          session = (screen.session \/ runs[f].of.action = "profile.set-name")
    OBVIOUS
  <2>2. PICK s : s = [screen EXCEPT !.busy = FALSE, !.session = session]
    OBVIOUS
  <2>3. Page!Show(s)
    BY <1>2, <2>1, <2>2
  <2>4. PICK op : op = [runs[f].of EXCEPT !.note = runs[f].note]
    OBVIOUS
  <2>5. op \in Operations
    BY <1>1, <2>4 DEF Operations
  <2>6. PICK r : r = Page!Listing("operation", op)
    OBVIOUS
  <2>7. RunOK(r) /\ Page!Go(f, r)
    BY <1>2, <2>4, <2>5, <2>6 DEF RunOK, Page!Listing
  <2> QED
    BY <1>1, <2>2, <2>3, <2>7, FlagsAreOK, GoesOnShown
<1>3. CASE /\ Page!Show([Page!Feed(screen) EXCEPT !.session = FALSE])
           /\ Page!Go(f, Page!Listing("rejected", Nothing))
  <2>1. PICK s : s = [Page!Feed(screen) EXCEPT !.session = FALSE]
    OBVIOUS
  <2>2. s = [Page!Feed(screen) EXCEPT !.session = FALSE, !.busy = screen.busy]
    BY <2>1 DEF Page!Feed, Page!View, PageInv, Screens
  <2>3. screen.busy \in BOOLEAN
    BY DEF PageInv, Screens
  <2>4. PICK r : r = Page!Listing("rejected", Nothing)
    OBVIOUS
  <2>5. RunOK(r) /\ Page!Go(f, r) /\ Page!Show(s)
    BY <1>3, <2>1, <2>4 DEF RunOK, Page!Listing
  <2> QED
    BY <1>1, <2>2, <2>3, <2>5, ForgottenIsOK, GoesOnShown
<1>4. CASE Page!Show([screen EXCEPT !.busy = FALSE]) /\ Page!Go(f, Page!Idle)
  <2>1. PICK s : s = [screen EXCEPT !.busy = FALSE]
    OBVIOUS
  <2>2. s = [screen EXCEPT !.busy = FALSE, !.session = screen.session] /\ screen.session \in BOOLEAN
    BY <2>1 DEF PageInv, Screens
  <2>3. Page!Show(s)
    BY <1>4, <2>1
  <2> QED
    BY <1>1, <1>4, <2>2, <2>3, FlagsAreOK, IdleIsOK, GoesOnShown
<1> QED
  BY <1>2, <1>3, <1>4 DEF Page!OperationAnswered

\* What is found in the list that was read.
LEMMA ListedIsView ==
  ASSUME NEW f, runs[f].list \subseteq Page!Views, NEW v \in Page!Views
  PROVE  Page!Listed(f, v) \in Page!Views
<1>1. CASE \E w \in runs[f].list : w.note = v.note
  <2>1. Page!Listed(f, v) \in runs[f].list
    BY <1>1 DEF Page!Listed
  <2> QED
    BY <2>1
<1>2. CASE ~\E w \in runs[f].list : w.note = v.note
  BY <1>2 DEF Page!Listed
<1> QED
  BY <1>1, <1>2

LEMMA OperationListedKeeps ==
  ASSUME Page!PageAssumption, PageInv, NEW f \in Runs, Page!OperationListed(f)
  PROVE  PageInv'
<1>1. /\ runs[f].kind = "operation" /\ runs[f].step = "listed" /\ runs[f].of \in Operations
      /\ runs[f].list \subseteq Page!Views /\ Page!Kept(f) \subseteq Page!Views
      /\ Page!Go(f, Page!Idle) /\ UNCHANGED <<pageStore, unread>>
  BY KeptIsList DEF Page!OperationListed, Page!At, Page!service, PageInv, RunsOK, RunOK
<1>2. PICK op : op = runs[f].of
  OBVIOUS
<1>3. PICK v : v = Page!Listed(f, op.note)
  OBVIOUS
<1>4. PICK s : s = [screen EXCEPT !.list = Page!Kept(f)]
  OBVIOUS
<1>5. op.selected \in MaybeViews /\ op.note \in MaybeViews
  BY <1>1, <1>2 DEF Operations
<1>6. op.note # Nothing => v \in Page!Views
  BY <1>1, <1>3, <1>5, ListedIsView DEF MaybeViews
<1>7. /\ s \in Screens /\ s.view = screen.view /\ s.selected = screen.selected
      /\ s.address = screen.address /\ s.draft = screen.draft /\ s.route = screen.route
      /\ s.sought = screen.sought /\ s.routeLoading = screen.routeLoading
      /\ s.reselected = screen.reselected
  BY <1>1, <1>4 DEF PageInv, Screens
<1>8. CASE Page!Show(s)
  <2>1. AddressOK(s) /\ EditorFollows(s)
    BY <1>7 DEF PageInv, AddressOK, EditorFollows
  <2> QED
    BY <1>1, <1>7, <1>8, <2>1, IdleIsOK, GoesOnShown
<1>9. CASE Page!Show(Page!Feed(s))
  <2>1. PICK t : t = Page!Feed(s)
    OBVIOUS
  <2>2. /\ t \in Screens /\ t.selected = Nothing /\ t.sought = Nothing /\ t.draft = screen.draft
        /\ t.route = screen.route /\ t.routeLoading = screen.routeLoading
        /\ AddressOK(t) /\ EditorFollows(t)
    BY <1>7, <2>1, ViewIsOK DEF Page!Feed
  <2>3. Page!Show(t)
    BY <1>9, <2>1
  <2> QED
    BY <1>1, <2>2, <2>3, IdleIsOK, GoesOnShown
<1>10. CASE op.note # Nothing /\ Page!Show([Page!Detail(s, v) EXCEPT !.sought = Nothing])
  <2>1. v \in Page!Views
    BY <1>6, <1>10
  <2>2. PICK t : t = [s EXCEPT !.sought = Nothing]
    OBVIOUS
  <2>3. /\ t \in Screens /\ t.sought = Nothing /\ t.draft = screen.draft /\ t.route = screen.route
        /\ t.routeLoading = screen.routeLoading
    BY <1>7, <2>2 DEF Screens
  <2>4. PICK u : u = Page!Detail(t, v)
    OBVIOUS
  <2>5. /\ u \in Screens /\ u.view = "detail" /\ u.sought = Nothing /\ u.draft = screen.draft
        /\ u.route = screen.route /\ u.routeLoading = screen.routeLoading
        /\ AddressOK(u) /\ EditorFollows(u)
    BY <2>1, <2>3, <2>4, DetailIsOK
  <2>6. u = [Page!Detail(s, v) EXCEPT !.sought = Nothing]
    BY <1>7, <2>1, <2>2, <2>4 DEF Page!Detail, Screens
  <2>7. Page!Show(u)
    BY <1>10, <2>6
  <2> QED
    BY <1>1, <2>5, <2>7, IdleIsOK, GoesOnShown
<1>11. CASE /\ op.selected # Nothing
            /\ Page!Show(Page!Reselect(s, Page!Listed(f, op.selected)))
  <2>1. PICK w : w = Page!Listed(f, op.selected)
    OBVIOUS
  <2>2. w \in Page!Views
    BY <1>1, <1>5, <1>11, <2>1, ListedIsView DEF MaybeViews
  <2>3. PICK t : t = Page!Reselect(s, w)
    OBVIOUS
  <2>4. /\ t \in Screens /\ t.selected = w /\ t.reselected = TRUE /\ t.draft = screen.draft
        /\ t.route = screen.route /\ t.sought = screen.sought
        /\ t.routeLoading = screen.routeLoading
    BY <1>7, <2>2, <2>3 DEF Page!Reselect, Screens, MaybeViews
  <2>5. AddressOK(t) /\ EditorFollows(t)
    BY <2>2, <2>4 DEF AddressOK, EditorFollows, Page!PageAssumption
  <2>6. Page!Show(t)
    BY <1>11, <2>1, <2>3
  <2> QED
    BY <1>1, <2>4, <2>5, <2>6, IdleIsOK, GoesOnShown
<1> QED
  BY <1>2, <1>3, <1>4, <1>8, <1>9, <1>10, <1>11 DEF Page!OperationListed

LEMMA RejectionListedKeeps ==
  ASSUME PageInv, NEW f \in Runs, Page!RejectionListed(f)
  PROVE  PageInv'
<1>1. PICK s : s = [screen EXCEPT !.list = Page!Kept(f), !.busy = FALSE]
  OBVIOUS
<1>2. /\ Page!Show(s) /\ Page!Go(f, Page!Idle) /\ UNCHANGED <<pageStore, unread>>
      /\ runs[f].kind = "rejected" /\ runs[f].step = "listed"
  BY <1>1 DEF Page!RejectionListed, Page!At, Page!service
<1>3. /\ s \in Screens /\ s.draft = screen.draft /\ s.selected = screen.selected
      /\ s.view = screen.view /\ s.address = screen.address /\ s.route = screen.route
      /\ s.sought = screen.sought /\ s.routeLoading = screen.routeLoading
      /\ s.reselected = screen.reselected
  BY <1>1, <1>2, KeptIsList DEF PageInv, Screens
<1>4. AddressOK(s) /\ EditorFollows(s)
  BY <1>3 DEF PageInv, AddressOK, EditorFollows
<1> QED
  BY <1>2, <1>3, <1>4, IdleIsOK, GoesOnShown

\* A logout asks the service, which may answer or not.
LEMMA LogoutGoesOn ==
  ASSUME PageInv, NEW f \in Runs, Page!StartLogout(f) \/ Page!ServerEnds(f)
  PROVE  PageInv'
<1>1. PICK step : Page!Go(f, [kind |-> "logout", step |-> step]) /\ step \in {"call", "answered"}
  BY DEF Page!StartLogout, Page!ServerEnds
<1>2. PICK r : r = [kind |-> "logout", step |-> step]
  OBVIOUS
<1>3. RunOK(r)
  BY <1>1, <1>2 DEF RunOK
<1>4. /\ runs[f].kind # "route" /\ UNCHANGED <<screen, unread>> /\ UNCHANGED pageStore
  BY DEF Page!StartLogout, Page!ServerEnds, Page!Free, Page!At, Page!service
<1>5. NoteStoreOK' /\ ReadOK' /\ Page!Go(f, r)
  BY <1>1, <1>2, <1>4 DEF PageInv, NoteStoreOK, ReadOK
<1> QED
  BY <1>3, <1>4, <1>5, GoesOnUnseen

LEMMA SessionForgottenKeeps ==
  ASSUME PageInv, NEW f \in Runs, Page!LogoutReturns(f) \/ Page!Expire(f)
  PROVE  PageInv'
<1>1. PICK busy \in BOOLEAN :
        Page!Show([Page!Feed(screen) EXCEPT !.session = FALSE, !.busy = busy])
  <2>1. [Page!Feed(screen) EXCEPT !.session = FALSE, !.busy = screen.busy]
          = [Page!Feed(screen) EXCEPT !.session = FALSE]
    BY DEF Page!Feed, Page!View, PageInv, Screens
  <2>2. screen.busy \in BOOLEAN
    BY DEF PageInv, Screens
  <2> QED
    BY <2>1, <2>2 DEF Page!LogoutReturns, Page!Expire
<1>2. PICK s : s = [Page!Feed(screen) EXCEPT !.session = FALSE, !.busy = busy]
  OBVIOUS
<1>3. PICK r : r = Page!Listing("refresh", Nothing)
  OBVIOUS
<1>4. RunOK(r)
  BY <1>3 DEF RunOK, Page!Listing
<1>5. /\ Page!Show(s) /\ Page!Go(f, r) /\ UNCHANGED <<pageStore, unread>>
      /\ runs[f].kind # "route"
  BY <1>1, <1>2, <1>3 DEF Page!LogoutReturns, Page!Expire, Page!Free, Page!service
<1> QED
  BY <1>2, <1>4, <1>5, ForgottenIsOK, GoesOnShown

LEMMA ElsewhereKeeps ==
  ASSUME PageInv, Page!SessionEnds \/ Page!OtherWindowEdits
  PROVE  PageInv'
<1>1. UNCHANGED <<unread, screen, runs>>
  BY DEF Page!SessionEnds, Page!OtherWindowEdits
<1>2. NoteStoreOK'
  <2>1. CASE Page!SessionEnds
    BY <2>1 DEF Page!SessionEnds, PageInv, NoteStoreOK
  <2>2. CASE Page!OtherWindowEdits
    <3>1. PICK n \in Notes : Page!Exists(n) /\ pageStore' = Page!Stored(n, pageStore[n] + 1)
      BY <2>2 DEF Page!OtherWindowEdits
    <3>2. pageStore[n] + 1 \in Nat
      BY <3>1 DEF Page!Exists, PageInv, NoteStoreOK
    <3> QED
      BY <3>1, <3>2, StoredIsOK DEF PageInv
  <2> QED
    BY <2>1, <2>2
<1>3. RoutesStand
  BY <1>1 DEF RoutesStand
<1>4. RunsOK' /\ LoadingOK'
  BY <1>1, <1>3, RunsStand, LoadingStands
<1> QED
  BY <1>1, <1>2, <1>4 DEF PageInv, EditorOK, AddressOK, ReadOK

LEMMA PageStepKeeps ==
  ASSUME Page!PageAssumption, PageInv, [Page!Next]_(Page!pageVars)
  PROVE  PageInv'
<1>1. CASE UNCHANGED Page!pageVars
  <2>1. UNCHANGED <<pageStore, unread, screen, runs>>
    BY <1>1 DEF Page!pageVars, Page!service
  <2>2. RoutesStand
    BY <2>1 DEF RoutesStand
  <2>3. RunsOK' /\ LoadingOK'
    BY <2>1, <2>2, RunsStand, LoadingStands
  <2> QED
    BY <2>1, <2>3 DEF PageInv, EditorOK, AddressOK, NoteStoreOK, ReadOK
<1>2. ASSUME NEW f \in Runs, Page!RunStep(f) PROVE PageInv'
  BY <1>2, ServerListsKeeps, RefreshedKeeps, ServerGetsKeeps, RouteAnsweredKeeps,
     ServerOperatesKeeps, OperationAnsweredKeeps, OperationListedKeeps, RejectionListedKeeps,
     LogoutGoesOn, SessionForgottenKeeps DEF Page!RunStep
<1>3. ASSUME NEW f \in Runs,
             Page!PopState(f) \/ Page!StartOperation(f) \/ Page!StartLogout(f) \/ Page!Expire(f)
      PROVE  PageInv'
  BY <1>3, PopStateKeeps, StartOperationKeeps, LogoutGoesOn, SessionForgottenKeeps
<1>4. CASE \/ Page!OpenView \/ Page!OpenNote \/ Page!OpenEditor \/ Page!LeaveEditor
           \/ Page!AskToDelete \/ Page!KeepNote
  BY <1>4, OpenViewKeeps, OpenNoteKeeps, OpenEditorKeeps, LeaveEditorKeeps, DialogKeeps
<1>5. CASE Page!SessionEnds \/ Page!OtherWindowEdits
  BY <1>5, ElsewhereKeeps
<1> QED
  BY <1>1, <1>2, <1>3, <1>4, <1>5 DEF Page!Next

\* The inductive invariant of the page's notes: a text in the editor is that of
\* the note selected, the address is that of the note shown, and every function
\* under way carries what it was started with, except after the answer to a name
\* has selected a note under the view, until the view is next set.
THEOREM PageInvHolds == Page!Spec => []PageInv
<1>1. PageInv /\ [Page!Next]_(Page!pageVars) => PageInv'
  BY NotesAssumption, PageStepKeeps
<1>2. Page!Init => PageInv
  BY NotesAssumption, PageInitInv
<1> QED
  BY <1>1, <1>2, PTL DEF Page!Spec

\* Only the answer to a name makes the page replace a version unread or show a
\* note under another's address, and of the addresses gone back to the last
\* decides. For any number of notes, functions under way, addresses and edits,
\* all of them at once.
THEOREM PageStaysConsistent == Page!Spec => []PageIsConsistent
<1>1. PageInv => PageIsConsistent
  BY DEF PageInv, AddressOK, LoadingOK, ReadOK, PageIsConsistent, Page!PageIsConsistent,
         Page!NotesHaveTheirAddress, Page!TheLastAddressDecides
<1> QED
  BY <1>1, PageInvHolds, PTL
=============================================================================
