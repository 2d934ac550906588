---------------------------- MODULE ExclusiveUse ----------------------------
(***************************************************************************)
(* What the browser provider promises about the profile directory of one   *)
(* domain: at any time at most one Chromium has it open, and a second one  *)
(* opens it only after the first has left.                                 *)
(***************************************************************************)
CONSTANT Jobs

VARIABLE users  \* the jobs whose Chromium has the directory open

Init == users = {}

Open  == users = {} /\ \E j \in Jobs : users' = {j}
Leave == users # {} /\ users' = {}

Next == Open \/ Leave

Spec == Init /\ [][Next]_users

=============================================================================
