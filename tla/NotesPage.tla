----------------------------- MODULE NotesPage -----------------------------
(***************************************************************************)
(* The notes of the reference relying party's page (App.tsx): the list,    *)
(* the note that is shown, its editor, and the address in the browser. An  *)
(* address that is gone back to, an operation, a logout and a reading of   *)
(* the list are asynchronous functions that all write the same state.      *)
(*                                                                         *)
(* All notes are the user's own; the notes in Private are hidden without   *)
(* the session. Of a note only the version is kept: replies and likes, and *)
(* the reply that an address may point to, are left out, and "note.like"   *)
(* stands for the operations on them. Signing in, with its proof stage and *)
(* its timers, is SignIn; ReferenceRp has the service whole.               *)
(***************************************************************************)
EXTENDS Naturals, FiniteSets

CONSTANTS
  NULL,
  Notes,       \* ids of notes
  Existing,    \* the notes there are at first
  Private,
  Actions,     \* the operations the user asks for, of those Named
  Runs,        \* functions of the page under way at a time
  MaxVersion,  \* bound on edits
  MaxRoutes    \* bound on the addresses gone back to

Named == {"note.create", "note.edit", "note.delete", "note.like", "profile.set-name"}

Views == [note : Notes, version : Nat]

PageAssumption == Existing \subseteq Notes /\ Actions \subseteq Named /\ NULL \notin Views

VARIABLES
  store,   \* the version of each note; a deleted note keeps its id at 0
  live,    \* the service has the session of the cookie
  screen,  \* the state of App
  runs,    \* where each function is
  unread   \* the notes of which a version was replaced or deleted unread, and
           \* whether an answer had selected them anew

service == <<store, live, unread>>

pageVars == <<service, screen, runs>>

-----------------------------------------------------------------------------
(* What the service answers *)

Exists(n) == n \in DOMAIN store /\ store[n] > 0

NoteView(n) == [note |-> n, version |-> store[n]]

Visible(n) == Exists(n) /\ (n \in Private => live)

ListNotes == {NoteView(n) : n \in {m \in Notes : Visible(m)}}

-----------------------------------------------------------------------------
(* What the page shows *)

\* noteRouteFromPathname: the note of an address, or NULL for the feed and for
\* whatever names no note.
Addresses == Notes \cup {NULL}

\* The editor keeps the text it was opened with as long as it stays on screen
\* with its key, the id of the note.
Composer(s) ==
  IF s.view = "edit" /\ s.selected # NULL /\ s.session
  THEN IF s.draft # NULL /\ s.draft.note = s.selected.note THEN s.draft ELSE s.selected
  ELSE NULL

Show(s) == screen' = [s EXCEPT !.draft = Composer(s)]

View(s, view) == [s EXCEPT !.selected = NULL, !.view = view, !.address = NULL,
                           !.sought = NULL, !.reselected = FALSE]

Feed(s) == View(s, "feed")

Detail(s, v) == [s EXCEPT !.selected = v, !.view = "detail", !.address = v.note,
                          !.reselected = FALSE]

\* A note is selected under the view that is shown, which does not follow: the
\* page has no field for this, it is kept for the properties.
Reselect(s, v) == [s EXCEPT !.selected = v, !.reselected = TRUE]

\* The dialog that asks before a note is deleted lies over the page.
Clickable == screen.deleting = NULL

-----------------------------------------------------------------------------
(* The functions under way *)

Idle == [kind |-> "none", step |-> "idle"]

Free(f) == runs[f].kind = "none"

At(f, kind, step) == runs[f].kind = kind /\ runs[f].step = step

Go(f, run) == runs' = [runs EXCEPT ![f] = run]

\* refreshNotes: a failure keeps the list and returns none.
ServerLists(f) ==
  /\ runs[f].step = "listing"
  /\ \E failed \in BOOLEAN :
       Go(f, [kind |-> runs[f].kind, step |-> "listed", of |-> runs[f].of,
              list |-> IF failed THEN {} ELSE ListNotes, failed |-> failed])
  /\ UNCHANGED <<service, screen>>

Listing(kind, of) == [kind |-> kind, step |-> "listing", of |-> of]

Kept(f) == IF runs[f].failed THEN screen.list ELSE runs[f].list

Refreshed(f) ==
  /\ At(f, "refresh", "listed")
  /\ Show([screen EXCEPT !.list = Kept(f)])
  /\ Go(f, Idle)
  /\ UNCHANGED service

-----------------------------------------------------------------------------
(* resolveBrowserRoute *)

\* The user goes back or forward to an address of the history.
PopState(f) ==
  /\ Free(f) /\ screen.route < MaxRoutes
  /\ \E address \in Addresses :
       LET s == [Feed(screen) EXCEPT !.address = address, !.sought = address,
                   !.route = @ + 1, !.routeLoading = address # NULL] IN
       /\ Show(s)
       /\ IF address = NULL THEN UNCHANGED runs
          ELSE Go(f, [kind |-> "route", step |-> "call", id |-> s.route, to |-> address])
  /\ UNCHANGED service

ServerGets(f) ==
  /\ At(f, "route", "call")
  /\ \E note \in (IF Visible(runs[f].to) THEN {NoteView(runs[f].to)} ELSE {}) \cup {NULL} :
       Go(f, [kind |-> "route", step |-> "answered", id |-> runs[f].id, note |-> note])
  /\ UNCHANGED <<service, screen>>

\* (mutant) Whatever answer comes last decides.
AnyRoute(f) == TRUE

IsNewest(f) == runs[f].id = screen.route

RouteAnswered(f) ==
  /\ At(f, "route", "answered")
  /\ LET v == runs[f].note
         s == [screen EXCEPT !.routeLoading = @ /\ runs[f].id # screen.route] IN
     IF ~IsNewest(f) THEN UNCHANGED screen
     ELSE IF v = NULL THEN Show([Feed(s) EXCEPT !.sought = s.sought])
     ELSE Show(Detail(s, v))
  /\ Go(f, Idle)
  /\ UNCHANGED service

-----------------------------------------------------------------------------
(* What the user does without asking the service *)

\* To write a note clears the proof stage, whatever is under way: of its two
\* buttons the one of the header is disabled meanwhile, the other is not.
OpenView ==
  /\ Clickable
  /\ \/ \E view \in {"feed", "security"} : Show(View(screen, view))
     \/ /\ screen.session
        /\ screen.busy => screen.view \notin {"security", "create"}
        /\ Show([View(screen, "create") EXCEPT !.busy = FALSE])
  /\ UNCHANGED <<service, runs>>

\* The feed shows a spinner instead of the list while an address is loading.
OpenNote ==
  /\ Clickable /\ screen.view = "feed" /\ ~screen.routeLoading
  /\ \E v \in screen.list : Show([Detail(screen, v) EXCEPT !.sought = NULL])
  /\ UNCHANGED <<service, runs>>

Shown == Clickable /\ screen.view = "detail" /\ screen.selected # NULL

\* The buttons of the author: edit and delete.
OpenEditor ==
  /\ Shown /\ screen.session /\ ~screen.busy
  /\ Show([screen EXCEPT !.view = "edit", !.address = screen.selected.note])
  /\ UNCHANGED <<service, runs>>

LeaveEditor ==
  /\ Clickable /\ screen.draft # NULL /\ ~screen.busy
  /\ Show([screen EXCEPT !.view = "detail"])
  /\ UNCHANGED <<service, runs>>

AskToDelete ==
  /\ Shown /\ screen.session /\ ~screen.busy /\ "note.delete" \in Actions
  /\ Show([screen EXCEPT !.deleting = screen.selected])
  /\ UNCHANGED <<service, runs>>

KeepNote ==
  /\ screen.deleting # NULL /\ ~screen.busy
  /\ Show([screen EXCEPT !.deleting = NULL])
  /\ UNCHANGED <<service, runs>>

-----------------------------------------------------------------------------
(* runSessionOperation *)

\* expected: the version sent along. read: the note as the user had it before
\* him when he wrote or decided, and anew: whether it was then selected anew
\* under his editor. selected: what the function closes over.
Operation(action, expected, read) ==
  [action |-> action, expected |-> expected, read |-> read, note |-> NULL,
   anew |-> screen.reselected,
   selected |-> IF action = "profile.set-name" THEN screen.selected ELSE NULL]

Offered(action) ==
  CASE action = "note.create" -> Clickable /\ screen.view = "create" /\ screen.session
    [] action = "note.edit" -> Clickable /\ screen.draft # NULL
    [] action = "note.delete" -> screen.deleting # NULL
    [] action = "note.like" -> Shown /\ screen.session
    [] action = "profile.set-name" -> Clickable /\ screen.session /\ screen.view # "security"

StartOperation(f) ==
  /\ Free(f) /\ ~screen.busy
  /\ \E action \in Actions :
       /\ Offered(action)
       /\ LET expected == CASE action = "note.delete" -> screen.deleting
                            [] action \in {"note.create", "profile.set-name"} -> NULL
                            [] OTHER -> screen.selected
              read == IF action = "note.edit" THEN screen.draft ELSE expected IN
          Go(f, [kind |-> "operation", step |-> "call", of |-> Operation(action, expected, read)])
  /\ Show([screen EXCEPT !.busy = TRUE, !.deleting = NULL])
  /\ UNCHANGED service

Stored(n, note) == [m \in DOMAIN store \cup {n} |-> IF m = n THEN note ELSE store[m]]

ExpectedVersion(op) ==
  Exists(op.expected.note) /\ store[op.expected.note] = op.expected.version

Replaces(op) ==
  unread' = IF op.read.version = store[op.read.note] THEN unread
            ELSE unread \cup {[note |-> op.read.note, anew |-> op.anew]}

Answer(f, result, note) ==
  Go(f, [kind |-> "operation", step |-> "answered", of |-> runs[f].of,
         result |-> result, note |-> note])

\* The whole of the service's transaction, for the author of all notes.
Changes(f, op) ==
  LET n == op.expected.note IN
  \/ /\ op.action = "note.create"
     /\ \E m \in Notes \ DOMAIN store :
          store' = Stored(m, 1) /\ Answer(f, "OK", [note |-> m, version |-> 1])
     /\ UNCHANGED unread
  \/ /\ op.action = "note.edit" /\ ExpectedVersion(op) /\ store[n] < MaxVersion
     /\ store' = Stored(n, store[n] + 1)
     /\ Answer(f, "OK", [note |-> n, version |-> store[n] + 1])
     /\ Replaces(op)
  \/ /\ op.action = "note.delete" /\ ExpectedVersion(op)
     /\ store' = Stored(n, 0) /\ Answer(f, "OK", NULL)
     /\ Replaces(op)
  \/ /\ op.action = "note.like" /\ Exists(n)
     /\ Answer(f, "OK", NoteView(n))
     /\ UNCHANGED <<store, unread>>
  \/ /\ op.action = "profile.set-name"
     /\ Answer(f, "OK", NULL)
     /\ UNCHANGED <<store, unread>>

\* The service carries the operation out, refuses it, or has no such session.
ServerOperates(f) ==
  /\ At(f, "operation", "call")
  /\ \/ live /\ Changes(f, runs[f].of)
     \/ /\ Answer(f, IF live THEN "REFUSED" ELSE "SESSION_INVALID", NULL)
        /\ UNCHANGED <<store, unread>>
  /\ UNCHANGED <<live, screen>>

\* The answer is shown, or lost, and the list is read again.
OperationAnswered(f) ==
  /\ At(f, "operation", "answered")
  /\ \/ /\ runs[f].result = "OK"
        /\ Show([screen EXCEPT !.busy = FALSE,
                     !.session = @ \/ runs[f].of.action = "profile.set-name"])
        /\ Go(f, Listing("operation", [runs[f].of EXCEPT !.note = runs[f].note]))
     \/ /\ runs[f].result = "SESSION_INVALID"
        /\ Show([Feed(screen) EXCEPT !.session = FALSE])
        /\ Go(f, Listing("rejected", NULL))
     \/ /\ runs[f].result \in {"OK", "REFUSED"}
        /\ Show([screen EXCEPT !.busy = FALSE])
        /\ Go(f, Idle)
  /\ UNCHANGED service

\* The note as the list has it, if it has it.
Listed(f, v) ==
  LET listed == {w \in runs[f].list : w.note = v.note} IN
  IF listed = {} THEN v ELSE CHOOSE w \in listed : TRUE

\* A new name leaves view and address alone, and selects once more what was
\* selected when the name was sent.
OperationListed(f) ==
  /\ At(f, "operation", "listed")
  /\ LET op == runs[f].of
         s == [screen EXCEPT !.list = Kept(f)]
         v == Listed(f, op.note) IN
     IF op.action = "profile.set-name"
     THEN Show(IF op.selected = NULL THEN s
               ELSE Reselect(s, Listed(f, op.selected)))
     ELSE IF op.note = NULL THEN Show(Feed(s))
     ELSE Show([Detail(s, v) EXCEPT !.sought = NULL])
  /\ Go(f, Idle)
  /\ UNCHANGED service

RejectionListed(f) ==
  /\ At(f, "rejected", "listed")
  /\ Show([screen EXCEPT !.list = Kept(f), !.busy = FALSE])
  /\ Go(f, Idle)
  /\ UNCHANGED service

-----------------------------------------------------------------------------
(* The end of the session *)

StartLogout(f) ==
  /\ Free(f) /\ Clickable /\ screen.session /\ ~screen.busy
  /\ Go(f, [kind |-> "logout", step |-> "call"])
  /\ UNCHANGED <<service, screen>>

ServerEnds(f) ==
  /\ At(f, "logout", "call")
  /\ live' = FALSE
  /\ Go(f, [kind |-> "logout", step |-> "answered"])
  /\ UNCHANGED <<store, unread, screen>>

\* Whether or not the service has answered, the page forgets the session, and
\* with the proof stage an operation that is under way.
LogoutReturns(f) ==
  /\ runs[f].kind = "logout"
  /\ Show([Feed(screen) EXCEPT !.session = FALSE, !.busy = FALSE])
  /\ Go(f, Listing("refresh", NULL))
  /\ UNCHANGED service

Expire(f) ==
  /\ Free(f) /\ screen.session
  /\ Show([Feed(screen) EXCEPT !.session = FALSE])
  /\ Go(f, Listing("refresh", NULL))
  /\ UNCHANGED service

-----------------------------------------------------------------------------
(* Elsewhere *)

\* The session expires at the service, or its signer is revoked.
SessionEnds ==
  /\ live /\ live' = FALSE
  /\ UNCHANGED <<store, unread, screen, runs>>

\* The user edits the newest version of a note in another window.
OtherWindowEdits ==
  /\ live
  /\ \E n \in Notes :
       /\ Exists(n) /\ store[n] < MaxVersion
       /\ store' = Stored(n, store[n] + 1)
  /\ UNCHANGED <<live, unread, screen, runs>>

-----------------------------------------------------------------------------

Init ==
  /\ store = [n \in Existing |-> 1]
  /\ live = TRUE
  /\ screen = [session |-> TRUE, busy |-> FALSE, view |-> "feed", selected |-> NULL,
               list |-> ListNotes, draft |-> NULL, deleting |-> NULL,
               address |-> NULL, route |-> 0, routeLoading |-> FALSE, sought |-> NULL,
               reselected |-> FALSE]
  /\ runs = [f \in Runs |-> Idle]
  /\ unread = {}

RunStep(f) ==
  \/ ServerLists(f) \/ Refreshed(f)
  \/ ServerGets(f) \/ RouteAnswered(f)
  \/ ServerOperates(f) \/ OperationAnswered(f) \/ OperationListed(f) \/ RejectionListed(f)
  \/ ServerEnds(f) \/ LogoutReturns(f)

Next ==
  \/ \E f \in Runs : RunStep(f) \/ PopState(f) \/ StartOperation(f) \/ StartLogout(f) \/ Expire(f)
  \/ OpenView \/ OpenNote \/ OpenEditor \/ LeaveEditor \/ AskToDelete \/ KeepNote
  \/ SessionEnds \/ OtherWindowEdits

Spec == Init /\ [][Next]_pageVars

-----------------------------------------------------------------------------
(* Correctness *)

\* A version of a note is replaced or deleted only by a user who had it before
\* him when he wrote or decided ("The note was updated in another view. Refresh
\* and try again.", #commitSessionOperation): neither an edit in another window
\* nor an answer that comes late to the page is lost without notice. It does not
\* hold: see PageIsConsistent.
NothingIsReplacedUnread == unread = {}

\* The address names the note on the screen ("Opening a note updates the browser
\* to /notes/<note-id>"), whichever of the functions under way wrote last. It does
\* not hold either.
NotesHaveTheirAddress ==
  screen.view \in {"detail", "edit"} =>
    screen.selected # NULL /\ screen.address = screen.selected.note

\* Of several addresses gone back to, the last decides what is shown, unless the
\* user or the answer to an operation has gone somewhere else since; and the page
\* does not stay loading.
TheLastAddressDecides ==
  /\ screen.sought # NULL /\ ~screen.routeLoading =>
       screen.address \in {NULL, screen.sought} \/ screen.reselected
  /\ screen.routeLoading =>
       \E f \in Runs : runs[f].kind = "route" /\ runs[f].id = screen.route

\* What the page does promise of the notes: only the answer to a name, which
\* selects under the view what was selected when the name was sent, makes it
\* replace a version unread or show a note under another's address, and only
\* until the view is next set; an address gone back to and the operations on
\* notes never do.
PageIsConsistent ==
  /\ \A u \in unread : u.anew
  /\ screen.view \in {"detail", "edit"} => screen.selected # NULL
  /\ ~screen.reselected => NotesHaveTheirAddress
  /\ TheLastAddressDecides
=============================================================================
