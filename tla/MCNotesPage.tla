---------------------------- MODULE MCNotesPage ----------------------------
(***************************************************************************)
(* The page where it does not do what it says: one note that is edited on  *)
(* the page and in another window, and two notes with a name that is set.  *)
(* The passing scenarios of the page are those of MCReferenceRp.           *)
(***************************************************************************)
EXTENDS NotesPage, TLC

Symmetry == Permutations(Runs)
=============================================================================
