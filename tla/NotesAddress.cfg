SPECIFICATION Spec
CONSTANTS
  NULL = NULL
  Notes = {1, 2}
  Existing = {1, 2}
  Private = {}
  Actions = {"profile.set-name"}
  Runs = {f1, f2}
  MaxVersion = 1
  MaxRoutes = 0
SYMMETRY Symmetry
INVARIANTS NotesHaveTheirAddress
