----------------------------- MODULE MCProcess -----------------------------
(***************************************************************************)
(* Small instances of Process for TLC.  Liveness cannot use symmetry; to   *)
(* keep the two requests apart, and the run small, the calls of the second *)
(* one fail only with the process, and a send that fails for it sent       *)
(* nothing.  An UPDATE of an image begins only once the handlers are       *)
(* waited for no more: one begun earlier and still under way then is no    *)
(* different.                                                              *)
(***************************************************************************)
EXTENDS Process, TLC

CONSTANTS r1, r2, p1

MCNext ==
  /\ Next
  /\ r2 \in faulted' \ faulted => main' = "off"
  /\ updating' \subseteq updating \/ main \notin {"serving", "draining"}
  /\ job[r2] = "send" /\ job'[r2] = "failed" => mails' = mails

MCSpec == Init /\ [][MCNext]_vars /\ Fairness
=============================================================================
