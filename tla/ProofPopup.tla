----------------------------- MODULE ProofPopup -----------------------------
(***************************************************************************)
(* One proof request between a page and the wallet: NexusClient of the     *)
(* browser SDK on the side of the page, the popup protocol and the consent *)
(* screen on the side of the wallet, and the messages between the windows. *)
(*                                                                         *)
(* requestProof waits for four things at once: a message of the popup, the *)
(* timeout, the abort signal and a poll that finds the popup closed. The   *)
(* first settles the request and removes the other three.                  *)
(*                                                                         *)
(* The clock counts steps coarse enough for both seconds and milliseconds. *)
(* A request is named by the challenge it is made for.                     *)
(***************************************************************************)
EXTENDS Naturals, Sequences, FiniteSets

CONSTANTS
  NULL,
  Logins,       \* names of the challenges, and so of the requests and popups
  TimeoutAfter, \* #timeoutMs of the client
  MaxTime,      \* bound on the clock
  MaxFaults     \* bound on reloads, blocked popups and lost calls

ASSUME PopupAssumption ==
  /\ TimeoutAfter \in Nat \ {0}
  /\ {MaxTime, MaxFaults} \subseteq Nat

VARIABLES
  now,        \* the clock of the browser
  requests,   \* requestProof: its listener, requestSent, expiry and deadline
  popups,     \* the window of each request and the state of the wallet in it
  toPage,     \* the messages of each popup the page has not handled
  faults      \* faults so far

popupVars == <<requests, popups, toPage, faults>>

NoRequest == [open |-> FALSE, sent |-> FALSE, expiresAt |-> 0, deadline |-> 0]

\* mail: the request is on its way. pending: pendingRef. proving: busy; proved:
\* the proof is made and not posted yet.
Window(w) == [window |-> w, mail |-> FALSE, pending |-> FALSE,
              proving |-> FALSE, proved |-> FALSE]

PopupInit ==
  /\ now = 0
  /\ requests = [id \in Logins |-> NoRequest]
  /\ popups = [id \in Logins |-> Window("none")]
  /\ toPage = [id \in Logins |-> <<>>]
  /\ faults = 0

Fault == faults < MaxFaults /\ faults' = faults + 1

Tick == now < MaxTime /\ now' = now + 1

Closed(id) == popups[id].window = "closed"

Earlier(s, t) == IF s < t THEN s ELSE t

-----------------------------------------------------------------------------
(* The page: requestProof *)

\* The checks before the popup opens; aborted is the signal of the caller.
RequestRefusal(expiresAt, aborted) ==
  IF expiresAt <= now THEN "INVALID_REQUEST"
  ELSE IF aborted THEN "USER_CANCELLED" ELSE "OK"

RequestProof(id, expiresAt) ==
  /\ requests' = [requests EXCEPT ![id] =
        [open |-> TRUE, sent |-> FALSE, expiresAt |-> expiresAt,
         deadline |-> Earlier(now + TimeoutAfter, expiresAt)]]
  /\ popups' = [popups EXCEPT ![id] = Window("loading")]
  /\ UNCHANGED <<toPage, faults>>

PopupBlocked(id) == Fault /\ UNCHANGED <<requests, popups, toPage>>

\* settled, and cleanup: listeners, timers, and the popup if it is still open.
Settle(id) ==
  /\ requests[id].open
  /\ requests' = [requests EXCEPT ![id].open = FALSE]
  /\ popups' = [popups EXCEPT ![id] = Window("closed")]

\* (mutant) Any message of the wallet will do, whichever popup it comes from.
FromAnyWallet(id, j) == TRUE

\* event.source is the popup of this request, and the request id is its own.
FromItsWallet(id, j) == j = id

Message(j) == Head(toPage[j])

TakeMessage(j) == toPage' = [toPage EXCEPT ![j] = Tail(@)]

\* The first NEXUS_READY sends the request; a later one, of a page that was
\* loaded again, is ignored.
ReceiveReady(id) ==
  \E j \in Logins :
    /\ FromItsWallet(id, j) /\ requests[id].open
    /\ toPage[j] # <<>> /\ Message(j).type = "READY"
    /\ TakeMessage(j)
    /\ IF requests[id].sent THEN UNCHANGED <<requests, popups>>
       ELSE /\ requests' = [requests EXCEPT ![id].sent = TRUE]
            /\ popups' = [popups EXCEPT ![id].mail = (popups[id].window = "open")]
    /\ UNCHANGED faults

\* NEXUS_PROOF_RESULT or NEXUS_PROOF_ERROR.
ReceiveAnswer(id, outcome) ==
  \E j \in Logins :
    /\ FromItsWallet(id, j) /\ requests[id].open /\ requests[id].sent
    /\ toPage[j] # <<>> /\ Message(j).type # "READY"
    /\ outcome = Message(j)
    /\ TakeMessage(j) /\ Settle(id)
    /\ UNCHANGED faults

Failed(code) == [type |-> code, proof |-> NULL]

\* (mutant) The timer is set when the request is sent.
TimesOutOnceSent(id, outcome) ==
  /\ now >= requests[id].deadline /\ requests[id].sent
  /\ outcome = Failed("REQUEST_TIMEOUT")
  /\ Settle(id)
  /\ UNCHANGED <<toPage, faults>>

TimesOut(id, outcome) ==
  /\ now >= requests[id].deadline
  /\ outcome = Failed("REQUEST_TIMEOUT")
  /\ Settle(id)
  /\ UNCHANGED <<toPage, faults>>

\* The poll may find the window closed before a result posted from it arrives.
FoundClosed(id, outcome) ==
  /\ Closed(id)
  /\ outcome = Failed("POPUP_CLOSED")
  /\ Settle(id)
  /\ UNCHANGED <<toPage, faults>>

Aborted(id, outcome) ==
  /\ outcome = Failed("USER_CANCELLED")
  /\ Settle(id)
  /\ UNCHANGED <<toPage, faults>>

\* A message nobody listens for: its request is settled, or its page is gone.
Unheard(id) ==
  /\ toPage[id] # <<>> /\ ~requests[id].open
  /\ TakeMessage(id)
  /\ UNCHANGED <<requests, popups, faults>>

\* The page is loaded again: its listeners and timers are gone, the popups stay.
ForgetRequests ==
  /\ requests' = [id \in Logins |-> [requests[id] EXCEPT !.open = FALSE]]
  /\ UNCHANGED <<popups, toPage>>

-----------------------------------------------------------------------------
(* The wallet in the popup *)

Post(id, m) == toPage' = [toPage EXCEPT ![id] = Append(@, m)]

\* announceWalletReady, after the listener is there.
Load(id) ==
  /\ popups[id].window = "loading"
  /\ popups' = [popups EXCEPT ![id] = Window("open")]
  /\ Post(id, [type |-> "READY", proof |-> NULL])
  /\ UNCHANGED <<requests, faults>>

\* The user loads the wallet again: a pending request is lost.
Reload(id) ==
  /\ popups[id].window = "open" /\ Fault
  /\ popups' = [popups EXCEPT ![id] = Window("loading")]
  /\ UNCHANGED <<requests, toPage>>

UserCloses(id) ==
  /\ popups[id].window \in {"loading", "open"}
  /\ popups' = [popups EXCEPT ![id] = Window("closed")]
  /\ UNCHANGED <<requests, toPage, faults>>

\* parseProofRequestMessage drops a request that has expired.
WalletReceives(id) ==
  /\ popups[id].mail
  /\ popups' = [popups EXCEPT ![id].mail = FALSE,
        ![id].pending = @ \/ requests[id].expiresAt > now]
  /\ UNCHANGED <<requests, toPage, faults>>

Approve(id) ==
  /\ popups[id].pending /\ ~popups[id].proving
  /\ requests[id].expiresAt > now
  /\ popups' = [popups EXCEPT ![id].proving = TRUE]
  /\ UNCHANGED <<requests, toPage, faults>>

\* The expiry is compared once more before the proof is made; until it is posted
\* the signature and the wallet's own record of it are awaited, and may fail.
Prove(id) ==
  /\ popups[id].proving /\ ~popups[id].proved
  /\ \/ popups' = [popups EXCEPT ![id].proving = FALSE]
     \/ requests[id].expiresAt > now /\ popups' = [popups EXCEPT ![id].proved = TRUE]
  /\ UNCHANGED <<requests, toPage, faults>>

PostProof(id) ==
  /\ popups[id].proved
  /\ Post(id, [type |-> "RESULT", proof |-> id])
  /\ popups' = [popups EXCEPT ![id] = Window("closed")]
  /\ UNCHANGED <<requests, faults>>

Deny(id) ==
  /\ popups[id].pending /\ ~popups[id].proving
  /\ Post(id, Failed(IF requests[id].expiresAt <= now THEN "CHALLENGE_EXPIRED"
                     ELSE "USER_CANCELLED"))
  /\ popups' = [popups EXCEPT ![id] = Window("closed")]
  /\ UNCHANGED <<requests, faults>>

WalletStep(id) ==
  Load(id) \/ Reload(id) \/ UserCloses(id) \/ WalletReceives(id)
    \/ Approve(id) \/ Prove(id) \/ PostProof(id) \/ Deny(id)
=============================================================================
