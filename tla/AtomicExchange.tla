---------------------------- MODULE AtomicExchange ---------------------------
(* What the layers above SEInterface::transmit take an exchange to be: one   *)
(* command goes to the card, which executes it at most once, and one outcome *)
(* comes back.  A good status says that the command was executed, an error   *)
(* status that it was not, and a failed transmit leaves it open.             *)
EXTENDS Integers

VARIABLES busy,      \* an exchange is going on
          executed,  \* how often the card executed its command
          outcome    \* of the last exchange: "none", "done", "refused", "failed"

vars == <<busy, executed, outcome>>

Outcomes == {"done", "refused", "failed"}

Init == busy = FALSE /\ executed = 0 /\ outcome = "none"

Begin == ~busy /\ busy' = TRUE /\ executed' = 0 /\ outcome' = "none"

\* The card may execute the command if it has not done so.
CardMayExecute == executed' = executed \/ (executed = 0 /\ executed' = 1)

Work == busy /\ CardMayExecute /\ UNCHANGED <<busy, outcome>>

Finish == /\ busy /\ CardMayExecute
          /\ busy' = FALSE
          /\ outcome' \in Outcomes
          /\ outcome' = "done" => executed' = 1
          /\ outcome' = "refused" => executed' = 0

Next == Begin \/ Work \/ Finish

Spec == Init /\ [][Next]_vars

\* An exchange that began comes to an end.
FairSpec == Spec /\ WF_vars(Finish)
==============================================================================
