---------------------------- MODULE RundownGate ----------------------------
(***************************************************************************)
(* What run-down protection promises its users.  While the gate is open a  *)
(* thread may enter the protected section; a thread inside may close the   *)
(* gate; once it is closed nobody enters any more, and after the last      *)
(* thread has left the completion callback runs, exactly once.             *)
(***************************************************************************)
CONSTANT Threads

VARIABLES open,       \* new users are still admitted
          users,      \* the threads inside the protected section
          completed   \* the completion callback has run

vars == <<open, users, completed>>

Init == open = TRUE /\ users = {} /\ completed = FALSE

Enter(t) == /\ open
            /\ t \notin users
            /\ users' = users \cup {t}
            /\ UNCHANGED <<open, completed>>

Leave(t) == /\ t \in users
            /\ users' = users \ {t}
            /\ UNCHANGED <<open, completed>>

Close(t) == /\ t \in users
            /\ open' = FALSE
            /\ UNCHANGED <<users, completed>>

Complete == /\ ~open
            /\ users = {}
            /\ ~completed
            /\ completed' = TRUE
            /\ UNCHANGED <<open, users>>

Next == \/ \E t \in Threads : Enter(t) \/ Leave(t) \/ Close(t)
        \/ Complete

Fairness == /\ \A t \in Threads : WF_vars(Leave(t))
            /\ WF_vars(Complete)

SafeSpec == Init /\ [][Next]_vars
Spec == SafeSpec /\ Fairness
=============================================================================
