------------------------------- MODULE SignIn -------------------------------
(***************************************************************************)
(* The page of the reference relying party (App.tsx): signing in with the  *)
(* wallet, operations of the session, logging out, the expiry of the       *)
(* session and the session restored when the page is loaded.               *)
(*                                                                         *)
(* Each of them is an asynchronous function; they share the proof stage,   *)
(* the session and one abortRef, and run interleaved wherever the buttons  *)
(* do not forbid it. The server is reduced to its challenges and sessions  *)
(* (ReferenceRp has it whole); a session is named by its challenge.        *)
(***************************************************************************)
EXTENDS ProofPopup

CONSTANTS
  Flows,        \* runs of the asynchronous functions of the page
  ChallengeTtl,
  SessionTtl

ASSUME SignInAssumption == {ChallengeTtl, SessionTtl} \subseteq Nat \ {0}

VARIABLES
  page,         \* proof.stage, session and abortRef
  flows,        \* where each run is
  challenges,   \* the challenges issued: expiry, and whether consumed
  sessions,     \* the sessions started: their expiry
  ended,        \* the sessions the server was told to end
  cookie,       \* the session cookie of the browser
  submitted,    \* pairs of a challenge and the challenge its proof was made for
  cancelled     \* the logins the page reported as cancelled

server == <<challenges, sessions, ended>>

history == <<submitted, cancelled>>

signInVars == <<page, flows, server, cookie, history>>

vars == <<now, popupVars, signInVars>>

-----------------------------------------------------------------------------

Idle == [kind |-> "none", step |-> "idle"]

Free(f) == flows[f].kind = "none"

At(f, kind, step) == flows[f].kind = kind /\ flows[f].step = step

Go(f, flow) == flows' = [flows EXCEPT ![f] = flow]

Start(f, kind) == Go(f, [kind |-> kind, step |-> "call", aborted |-> FALSE, token |-> cookie])

Advance(f, step) == Go(f, [flows[f] EXCEPT !.step = step])

Answered(f, answer) == Go(f, [flows[f] EXCEPT !.step = answer])

Show(stage) == page' = [page EXCEPT !.stage = stage]

Busy == page.stage \in {"challenge", "wallet", "verifying"}

Issued(id) == id \in DOMAIN challenges

Live(id) == id \in DOMAIN sessions /\ sessions[id] > now /\ id \notin ended

-----------------------------------------------------------------------------
(* startLogin *)

StartLogin(f) ==
  /\ Free(f) /\ ~Busy /\ page.session = NULL
  /\ page' = [page EXCEPT !.stage = "challenge", !.abort = f]
  /\ Start(f, "login")
  /\ UNCHANGED <<now, popupVars, server, cookie, history>>

\* Challenges are not issued so late that a session would outlive the clock.
ServerIssues(f) ==
  /\ At(f, "login", "call")
  /\ \E id \in Logins :
       /\ id = Cardinality(DOMAIN challenges) + 1
       /\ now + ChallengeTtl + SessionTtl <= MaxTime + 1
       /\ challenges' = [k \in DOMAIN challenges \cup {id} |->
             IF k = id THEN [expiresAt |-> now + ChallengeTtl, used |-> FALSE]
             ELSE challenges[k]]
       /\ Go(f, [kind |-> "login", step |-> "issued", id |-> id,
                 aborted |-> flows[f].aborted, token |-> NULL])
  /\ UNCHANGED <<now, popupVars, page, sessions, ended, cookie, history>>

\* The end of a login, with the catch clause and the finally clause.
CodesOfCancelling == {"USER_CANCELLED", "POPUP_CLOSED"}

LoginFails(f, code) ==
  /\ page' = [page EXCEPT !.abort = NULL,
        !.stage = IF code \in CodesOfCancelling THEN "cancelled" ELSE "error"]
  /\ Go(f, Idle)
  /\ cancelled' = IF code \in CodesOfCancelling /\ "id" \in DOMAIN flows[f]
                    THEN cancelled \cup {flows[f].id} ELSE cancelled
  /\ UNCHANGED <<server, cookie, submitted>>

\* No challenge: the service refuses, or the call is lost.
NoChallenge(f) ==
  /\ At(f, "login", "call")
  /\ \/ Fault
     \/ faults' = faults /\ \A id \in Logins : Issued(id)
     \/ faults' = faults /\ now + ChallengeTtl + SessionTtl > MaxTime + 1
  /\ LoginFails(f, "SERVICE_UNAVAILABLE")
  /\ UNCHANGED <<now, requests, popups, toPage>>

\* The challenge arrives: the page shows the wallet stage and, in the same run,
\* calls requestProofV2.
OpenWallet(f) ==
  /\ At(f, "login", "issued")
  /\ LET id == flows[f].id
         refusal == RequestRefusal(challenges[id].expiresAt, flows[f].aborted) IN
     IF refusal # "OK" THEN LoginFails(f, refusal) /\ UNCHANGED popupVars
     ELSE \/ /\ RequestProof(id, challenges[id].expiresAt)
             /\ Show("wallet") /\ Advance(f, "wallet")
             /\ UNCHANGED <<server, cookie, history>>
          \/ PopupBlocked(id) /\ LoginFails(f, "POPUP_BLOCKED")
  /\ UNCHANGED now

\* requestProofV2 is settled and startLogin goes on before anything else runs.
Submit(f, proof) ==
  /\ Show("verifying")
  /\ Go(f, [flows[f] EXCEPT !.step = "submit"])
  /\ submitted' = submitted \cup {<<flows[f].id, proof>>}
  /\ UNCHANGED <<server, cookie, cancelled>>

Continue(f, outcome) ==
  IF outcome.type = "RESULT" THEN Submit(f, outcome.proof) ELSE LoginFails(f, outcome.type)

ProofSettles(f) ==
  /\ At(f, "login", "wallet")
  /\ LET id == flows[f].id IN
     \E code \in {"USER_CANCELLED", "CHALLENGE_EXPIRED", "POPUP_CLOSED", "REQUEST_TIMEOUT",
                  "RESULT"}, proof \in Logins \cup {NULL} :
       LET outcome == [type |-> code, proof |-> proof] IN
       /\ ReceiveAnswer(id, outcome) \/ TimesOut(id, outcome) \/ FoundClosed(id, outcome)
       /\ Continue(f, outcome)
  /\ UNCHANGED now

\* The service starts the session, or refuses.
ServerStarts(f) ==
  /\ At(f, "login", "submit") \/ At(f, "orphan", "submit")
  /\ LET id == flows[f].id IN
     \/ /\ ~challenges[id].used /\ challenges[id].expiresAt > now
        /\ <<id, id>> \in submitted
        /\ challenges' = [challenges EXCEPT ![id].used = TRUE]
        /\ sessions' = [k \in DOMAIN sessions \cup {id} |->
                          IF k = id THEN now + SessionTtl ELSE sessions[k]]
        /\ Answered(f, "started")
        /\ UNCHANGED ended
     \/ Answered(f, "refused") /\ UNCHANGED server
  /\ UNCHANGED <<now, popupVars, page, cookie, history>>

LoginSucceeds(f) ==
  /\ At(f, "login", "started")
  /\ page' = [page EXCEPT !.session = flows[f].id, !.stage = "approved"]
  /\ cookie' = flows[f].id
  /\ Advance(f, "refresh")
  /\ UNCHANGED <<now, popupVars, server, history>>

LoginRefused(f) ==
  /\ \/ At(f, "login", "refused") /\ faults' = faults
     \/ (At(f, "login", "submit") \/ At(f, "login", "started")) /\ Fault
  /\ LoginFails(f, "REQUEST_FAILED")
  /\ UNCHANGED <<now, requests, popups, toPage>>

\* (mutant) The button reports the login as cancelled whatever it is doing.
CancelAtOnce ==
  /\ Busy /\ page.abort # NULL
  /\ LET f == page.abort IN
     \/ /\ At(f, "login", "wallet")
        /\ Aborted(flows[f].id, Failed("USER_CANCELLED"))
        /\ LoginFails(f, "USER_CANCELLED")
     \/ /\ At(f, "login", "submit")
        /\ Show("cancelled")
        /\ cancelled' = cancelled \cup {flows[f].id}
        /\ UNCHANGED <<popupVars, flows, server, cookie, submitted>>
  /\ UNCHANGED now

\* The Cancel button: onAbort settles a request under way; before that the
\* signal stays aborted, and after it nobody listens.
Cancel ==
  /\ Busy /\ page.abort # NULL
  /\ LET f == page.abort IN
     \/ /\ At(f, "login", "wallet")
        /\ Aborted(flows[f].id, Failed("USER_CANCELLED"))
        /\ LoginFails(f, "USER_CANCELLED")
     \/ /\ flows[f].kind = "login"
        /\ flows[f].step \in {"call", "issued"} /\ ~flows[f].aborted
        /\ Go(f, [flows[f] EXCEPT !.aborted = TRUE])
        /\ UNCHANGED <<popupVars, page, server, cookie, history>>
  /\ UNCHANGED now

-----------------------------------------------------------------------------
(* runSessionOperation *)

StartOperation(f) ==
  /\ Free(f) /\ ~Busy /\ page.session # NULL
  /\ page' = [page EXCEPT !.stage = "verifying", !.abort = f]
  /\ Start(f, "operation")
  /\ UNCHANGED <<now, popupVars, server, cookie, history>>

\* The session of the cookie the request was sent with. A new friendly name is
\* answered with the session, the other operations without.
ServerOperates(f) ==
  /\ At(f, "operation", "call")
  /\ \E answer \in {"session", "done", "refused"} :
       Answered(f, IF Live(flows[f].token) THEN answer ELSE "invalid")
  /\ UNCHANGED <<now, popupVars, page, server, cookie, history>>

OperationAnswered(f) ==
  /\ flows[f].kind = "operation"
  /\ \/ /\ flows[f].step = "session"
        /\ page' = [page EXCEPT !.session = flows[f].token, !.stage = "approved"]
     \/ flows[f].step = "done" /\ Show("approved")
     \/ flows[f].step = "invalid" /\ page' = [page EXCEPT !.session = NULL]
  /\ Advance(f, IF flows[f].step = "invalid" THEN "refreshRejected" ELSE "refresh")
  /\ UNCHANGED <<now, popupVars, server, cookie, history>>

OperationRefused(f) ==
  /\ \/ At(f, "operation", "refused") /\ faults' = faults
     \/ At(f, "operation", "call") /\ Fault
  /\ page' = [page EXCEPT !.stage = "error", !.abort = NULL]
  /\ Go(f, Idle)
  /\ UNCHANGED <<now, requests, popups, toPage, server, cookie, history>>

\* The notes are fetched anew, which never throws, and the finally clause clears
\* abortRef, whoever it belongs to by now.
Finish(f) ==
  /\ flows[f].step \in {"refresh", "refreshRejected"}
  /\ page' = [page EXCEPT !.abort = NULL,
        !.stage = IF flows[f].step = "refreshRejected" THEN "error" ELSE @]
  /\ Go(f, Idle)
  /\ UNCHANGED <<now, popupVars, server, cookie, history>>

-----------------------------------------------------------------------------
(* endLogin, the restored session and the expiry of the session *)

\* endLogin sets no stage: other functions may start until it has returned.
StartLogout(f) ==
  /\ Free(f) /\ ~Busy /\ page.session # NULL
  /\ Start(f, "logout")
  /\ UNCHANGED <<now, popupVars, page, server, cookie, history>>

ServerEnds(f) ==
  /\ At(f, "logout", "call") \/ At(f, "orphan", "call")
  /\ ended' = IF flows[f].token = NULL THEN ended ELSE ended \cup {flows[f].token}
  /\ Answered(f, "ended")
  /\ UNCHANGED <<now, popupVars, page, challenges, sessions, cookie, history>>

LogoutReturns(f) ==
  /\ \/ At(f, "logout", "ended") /\ cookie' = NULL /\ faults' = faults
     \/ (At(f, "logout", "call") \/ At(f, "logout", "ended")) /\ cookie' = cookie /\ Fault
  /\ page' = [page EXCEPT !.session = NULL, !.stage = "idle"]
  /\ Go(f, Idle)
  /\ UNCHANGED <<now, requests, popups, toPage, server, history>>

ServerRestores(f) ==
  /\ At(f, "restore", "call")
  /\ Answered(f, IF Live(flows[f].token) THEN "session" ELSE "invalid")
  /\ UNCHANGED <<now, popupVars, page, server, cookie, history>>

Restored(f) ==
  /\ \/ At(f, "restore", "session") /\ faults' = faults
        /\ page' = [page EXCEPT !.session = flows[f].token]
     \/ At(f, "restore", "invalid") /\ faults' = faults
        /\ page' = [page EXCEPT !.session = NULL]
     \/ At(f, "restore", "call") /\ Fault /\ page' = [page EXCEPT !.session = NULL]
  /\ Go(f, Idle)
  /\ UNCHANGED <<now, requests, popups, toPage, server, cookie, history>>

\* (mutant) The timer is armed by a login, not by every session that is set.
ExpireAfterLogin ==
  /\ page.session # NULL /\ sessions[page.session] <= now
  /\ page.stage = "approved"
  /\ page' = [page EXCEPT !.session = NULL]
  /\ UNCHANGED <<now, popupVars, flows, server, cookie, history>>

\* The effect on the session: its timer, or at once for one that came too late.
Expire ==
  /\ page.session # NULL /\ sessions[page.session] <= now
  /\ page' = [page EXCEPT !.session = NULL]
  /\ UNCHANGED <<now, popupVars, flows, server, cookie, history>>

Dismiss ==
  /\ ~Busy /\ page.stage # "idle"
  /\ Show("idle")
  /\ UNCHANGED <<now, popupVars, flows, server, cookie, history>>

\* The button to write a note, which only a session shows, clears the stage of
\* whatever is under way: other functions may start beside it.
OpenCreate ==
  /\ page.session # NULL /\ page.stage # "idle"
  /\ Show("idle")
  /\ UNCHANGED <<now, popupVars, flows, server, cookie, history>>

\* The user loads the page again, which begins by restoring the session. A call
\* under way is dropped, or goes on without a reader.
NewPage == [stage |-> "idle", session |-> NULL, abort |-> NULL]

InFlight(f) ==
  \/ flows[f].kind = "login" /\ flows[f].step \in {"submit", "started"}
  \/ flows[f].kind = "logout"
  \/ flows[f].kind = "orphan"

ReloadPage ==
  /\ Fault /\ ForgetRequests
  /\ page' = NewPage
  /\ \E f \in Flows, orphans \in SUBSET {g \in Flows : InFlight(g)} :
       /\ f \notin orphans
       /\ flows' = [g \in Flows |->
             IF g = f THEN [kind |-> "restore", step |-> "call", token |-> cookie]
             ELSE IF g \in orphans THEN [flows[g] EXCEPT !.kind = "orphan"] ELSE Idle]
  /\ UNCHANGED <<now, popups, toPage, server, cookie, history>>

\* The browser may have taken the cookie from the answer to an orphan.
OrphanEnds(f) ==
  /\ flows[f].kind = "orphan" /\ flows[f].step \in {"started", "refused", "ended"}
  /\ cookie' \in {cookie,
        CASE flows[f].step = "started" -> flows[f].id
          [] flows[f].step = "ended" -> NULL
          [] OTHER -> cookie}
  /\ Go(f, Idle)
  /\ UNCHANGED <<now, popupVars, page, server, history>>

-----------------------------------------------------------------------------

Init ==
  /\ PopupInit
  /\ page = NewPage
  /\ \E f \in Flows :
       flows = [g \in Flows |->
         IF g = f THEN [kind |-> "restore", step |-> "call", token |-> NULL] ELSE Idle]
  /\ challenges = <<>> /\ sessions = <<>> /\ ended = {}
  /\ cookie = NULL
  /\ submitted = {} /\ cancelled = {}

\* What runs on without the user, the wallet or the clock.
FlowStep(f) ==
  \/ ServerIssues(f) \/ NoChallenge(f) \/ OpenWallet(f) \/ ProofSettles(f)
  \/ ServerStarts(f) \/ LoginSucceeds(f) \/ LoginRefused(f)
  \/ ServerOperates(f) \/ OperationAnswered(f) \/ OperationRefused(f)
  \/ Finish(f)
  \/ ServerEnds(f) \/ LogoutReturns(f)
  \/ ServerRestores(f) \/ Restored(f) \/ OrphanEnds(f)

UserStep ==
  \/ \E f \in Flows : StartLogin(f) \/ StartOperation(f) \/ StartLogout(f)
  \/ Cancel \/ Dismiss \/ OpenCreate \/ ReloadPage

Hear(id) == (ReceiveReady(id) \/ Unheard(id)) /\ UNCHANGED <<now, signInVars>>

Next ==
  \/ Tick /\ UNCHANGED <<popupVars, signInVars>>
  \/ Expire
  \/ UserStep
  \/ \E f \in Flows : FlowStep(f)
  \/ \E id \in Logins : Hear(id)
  \/ \E id \in Logins : WalletStep(id) /\ UNCHANGED <<now, signInVars>>

\* Time passes, a timer fires, a message arrives, and a call is answered or
\* fails. Nothing is assumed of the user, who may leave the wallet open.
Fairness ==
  /\ WF_vars(Tick /\ UNCHANGED <<popupVars, signInVars>>)
  /\ WF_vars(Expire)
  /\ \A f \in Flows : WF_vars(FlowStep(f))
  /\ \A id \in Logins : WF_vars(Hear(id))

Spec == Init /\ [][Next]_vars /\ Fairness

-----------------------------------------------------------------------------
(* Correctness *)

\* The page says that no session was created only of a login that will never
\* have one: a proof that is posted, or was approved, when the login is
\* cancelled starts none (startLogin, "No session was created.").
CancelledLoginsHaveNoSession ==
  \A id \in cancelled : id \notin DOMAIN sessions

\* A login submits the proof made for its own challenge, though the popup of an
\* earlier login, given up or forgotten by a reload, may answer later.
LoginsSubmitTheirOwnProof == \A s \in submitted : s[1] = s[2]

\* Every login ends, whatever the user and the wallet do or omit, and the page
\* does not stay busy.
EveryLoginEnds ==
  /\ \A f \in Flows : (flows[f].kind = "login") ~> (flows[f].kind # "login")
  /\ Busy ~> ~Busy

\* A session the service no longer knows does not stay on the page, neither one
\* that expires while its answer is under way nor one an answer brings back
\* after the logout.
StaleSessionsDisappear ==
  \A id \in Logins :
    (page.session = id /\ ~Live(id)) ~> (page.session # id)
=============================================================================
