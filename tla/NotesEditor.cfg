SPECIFICATION Spec
CONSTANTS
  NULL = NULL
  Notes = {1}
  Existing = {1}
  Private = {}
  Actions = {"note.edit", "profile.set-name"}
  Runs = {f1, f2}
  MaxVersion = 3
  MaxRoutes = 0
SYMMETRY Symmetry
INVARIANTS NothingIsReplacedUnread
