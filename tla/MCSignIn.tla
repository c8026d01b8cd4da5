------------------------------ MODULE MCSignIn ------------------------------
(***************************************************************************)
(* A page with two functions under way at a time and two logins. A         *)
(* behaviour has one of two scenarios: in "popups" the user signs in, up   *)
(* to twice, with everything that can happen to a popup; in "session" the  *)
(* wallet of one login answers as it should and the functions of the page  *)
(* overlap.                                                                *)
(***************************************************************************)
EXTENDS SignIn

VARIABLE scenario

MCLogins == 1..2

MCInit == Init /\ scenario \in {"popups", "session"}

PopupsScenario ==
  /\ \A f \in Flows : flows'[f].kind \notin {"operation", "logout"}
  /\ page'.stage = "idle" => page.stage = "idle" \/ faults' > faults

SessionScenario ==
  /\ \A f \in Flows : Free(f) /\ flows'[f].kind = "login" => challenges = <<>>
  /\ \A id \in Logins :
       /\ Closed(id)' => Closed(id) \/ popups[id].proved \/ ~requests'[id].open
       /\ popups[id].window = "open" => popups'[id].window # "loading"
       /\ popups[id].proving => popups'[id].proving \/ Closed(id)'

\* Every function has returned: the user may leave it at that.
Rest == (\A f \in Flows : Free(f)) /\ UNCHANGED vars

MCNext ==
  /\ Next \/ Rest
  /\ IF scenario = "popups" THEN PopupsScenario ELSE SessionScenario
  /\ UNCHANGED scenario

MCSpec == MCInit /\ [][MCNext]_<<vars, scenario>> /\ Fairness
=============================================================================
