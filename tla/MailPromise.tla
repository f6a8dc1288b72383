----------------------------- MODULE MailPromise -----------------------------
(***************************************************************************)
(* What the server promises about mail it has accepted, with no queue, no  *)
(* workers and no crashes: each recipient of an accepted message is owed   *)
(* an answer from the moment the message is accepted, and stops being owed *)
(* one only when he is settled - a delivery was reported good, or the      *)
(* administrator deleted the job.  Nobody is forgotten, and nobody who was *)
(* settled is owed anything again.                                         *)
(***************************************************************************)
CONSTANTS
  Msgs,       \* messages
  Rcpts,      \* recipients
  Addressed   \* Addressed[m]: the recipients of m

VARIABLE status   \* status[<<m, r>>]: how matters stand between m and r

States == {"none", "owed", "settled"}

Init == status = [p \in Msgs \X Rcpts |-> "none"]

\* A message is accepted for all its recipients or for none of them.
Accept(m) ==
  /\ \A r \in Addressed[m] : status[<<m, r>>] = "none"
  /\ status' = [p \in Msgs \X Rcpts |->
                  IF p[1] = m /\ p[2] \in Addressed[m] THEN "owed" ELSE status[p]]

\* Some of those who are owed an answer get it.
Settle ==
  /\ \A p \in Msgs \X Rcpts :
       status'[p] = status[p] \/ (status[p] = "owed" /\ status'[p] = "settled")
  /\ status' \in [Msgs \X Rcpts -> States]

Next ==
  \/ \E m \in Msgs : Accept(m)
  \/ Settle

Spec == Init /\ [][Next]_status

=============================================================================
