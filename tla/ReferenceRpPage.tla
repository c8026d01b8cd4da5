-------------------------- MODULE ReferenceRpPage --------------------------
(***************************************************************************)
(* The notes of one page (NotesPage), to be put beside the service and     *)
(* beside the page's sign-in, which have names of their own.               *)
(***************************************************************************)
CONSTANTS
  Nothing,      \* NULL of the page
  Notes, Existing, Private,
  Actions,      \* what the user of the page asks for
  Runs,         \* slots for the functions of the page
  MaxVersion, MaxRoutes

VARIABLES pageStore, pageLive, screen, runs, unread

Page == INSTANCE NotesPage WITH NULL <- Nothing, store <- pageStore, live <- pageLive

ASSUME NotesAssumption == Page!PageAssumption

\* What the page promises of the notes (App.tsx): no version is replaced unread,
\* the address names the note that is shown, and of the addresses gone back to the
\* last decides, except where the answer to a name has selected a note anew.
PageIsConsistent == Page!PageIsConsistent
=============================================================================
