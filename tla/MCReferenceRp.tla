--------------------------- MODULE MCReferenceRp ---------------------------
(***************************************************************************)
(* Two browsers; one identity that signs with its root and another that    *)
(* signs with a device. A behaviour has one of six scenarios, so that each *)
(* can be followed far enough: in "sessions" time passes, signers are      *)
(* revoked, requests of both browsers interleave, and notes are created;   *)
(* in "content" one request after the other changes the notes; "local" is  *)
(* "sessions" with the development server in the place of the service. In  *)
(* the others it is the page that runs, with two functions under way: in   *)
(* "editing" one note is edited here and in another window, in "visiting"  *)
(* the user goes back and forth between two notes of which one is private, *)
(* in "writing" notes are created, liked and deleted one by one. The user  *)
(* sets a name at any time in each of them.                                *)
(***************************************************************************)
EXTENDS RelyingParty, ReferenceRpPage, TLC

CONSTANTS root, device

VARIABLE scenario

page == <<pageStore, pageLive, screen, runs, unread>>

MCSubject == [s \in {root, device} |-> IF s = root THEN "alice" ELSE "bob"]

MCRequests ==
  {[action |-> "note.create", visibility |-> "public"],
   [action |-> "note.edit", note |-> 1, expectedVersion |-> 1, visibility |-> "public"],
   [action |-> "note.edit", note |-> 1, expectedVersion |-> 1, visibility |-> "private"],
   [action |-> "note.edit", note |-> 0, expectedVersion |-> 1, visibility |-> "private"],
   [action |-> "note.edit", note |-> 1, expectedVersion |-> 2, visibility |-> "public"],
   [action |-> "note.delete", note |-> 1, expectedVersion |-> 1],
   [action |-> "reply.create", note |-> 1],
   [action |-> "reply.delete", note |-> 1, by |-> "bob"],
   [action |-> "note.like", note |-> 1],
   [action |-> "note.unlike", note |-> 1],
   [action |-> "profile.set-name", name |-> "n"]}

MCInit ==
  /\ RpInit /\ Page!Init
  /\ scenario \in {"sessions", "content", "local", "editing", "visiting", "writing"}
  /\ deployment = "development" <=> scenario = "local"

SessionsScenario ==
  /\ Len(receipts') <= 3 /\ Cardinality(revoked') <= 1
  /\ \A i \in DOMAIN receipts' : receipts'[i].operation \in {"session.start", "note.create"}

ContentScenario ==
  /\ UNCHANGED <<now, revoked, ended>>
  /\ Cardinality({c \in Clients : exchange'[c] # Idle}) <= 1

LocalScenario ==
  /\ Len(issued') <= 1 /\ Len(receipts') <= 3 /\ Cardinality(revoked') <= 1
  /\ \A i \in DOMAIN receipts' : receipts'[i].operation \in {"session.start", "note.create", "note.edit"}

Operations == {f \in Runs : runs[f].kind = "operation"}

Only(actions) == \A f \in Operations : runs[f].of.action \in actions

EditingScenario ==
  /\ screen'.route = 0 /\ DOMAIN pageStore' = {1} /\ pageLive'
  /\ Only({"note.edit", "profile.set-name"})' /\ screen'.deleting = Nothing

VisitingScenario ==
  /\ \A n \in DOMAIN pageStore' : pageStore'[n] <= 1
  /\ Only({"note.create", "profile.set-name"})'

WritingScenario ==
  /\ \A n \in DOMAIN pageStore' : pageStore'[n] <= 1
  /\ screen'.route = 0 /\ Cardinality(Operations') <= 1
  /\ Only({"note.create", "note.delete", "note.like", "profile.set-name"})'

MCNext ==
  /\ \/ /\ scenario \in {"sessions", "content", "local"} /\ RpNext /\ UNCHANGED page
        /\ \/ scenario = "sessions" /\ SessionsScenario
           \/ scenario = "content" /\ ContentScenario
           \/ scenario = "local" /\ LocalScenario
     \/ scenario = "editing" /\ Page!Next /\ UNCHANGED rpVars /\ EditingScenario
     \/ scenario = "visiting" /\ Page!Next /\ UNCHANGED rpVars /\ VisitingScenario
     \/ scenario = "writing" /\ Page!Next /\ UNCHANGED rpVars /\ WritingScenario
  /\ UNCHANGED scenario

MCSpec == MCInit /\ [][MCNext]_<<rpVars, page, scenario>>

-----------------------------------------------------------------------------
Symmetry == Permutations(Clients) \cup Permutations(Runs)
=============================================================================
