-------------------------- MODULE AtomicLifecycle --------------------------
(***************************************************************************)
(* What the lifecycle coordinator promises: the committed window state     *)
(* changes only by one operation taking effect as a whole on the state of  *)
(* that moment, together with the success of its token; an operation that  *)
(* fails, is refused or was canceled has no effect.                        *)
(***************************************************************************)
EXTENDS LifecycleSnapshot

CONSTANT InitialWindows

VARIABLES
    committed,   \* the window state
    current,     \* the operation being worked on, or NoOp
    outcome      \* what has become of each token

avars == <<committed, current, outcome>>

Init ==
    /\ committed = [windows |-> [w \in Windows |-> IF w \in InitialWindows
                                                   THEN [a \in Attrs |-> 0]
                                                   ELSE Absent],
                    focus   |-> Root]
    /\ current = NoOp
    /\ outcome = [t \in Tokens |-> "unused"]

\* A token is issued or refused, and an issued one may fail.
Settles(t) == \/ outcome'[t] = outcome[t]
              \/ outcome[t] = "unused" /\ outcome'[t] \in {"pending", "refused"}
              \/ outcome[t] = "pending" /\ outcome'[t] = "failed"

Keep ==
    /\ committed' = committed
    /\ \A t \in Tokens : Settles(t)

\* The policy decides the focus and the placement anew, on an unchanged set
\* of windows and requests (an output transaction).
Reevaluate ==
    /\ committed' \in Evaluations(committed)
    /\ \A t \in Tokens : Settles(t)

Commit ==
    /\ current # NoOp
    /\ ~current.canceled
    /\ outcome[current.token] = "pending"
    /\ outcome'[current.token] = "done"
    /\ Rebasable(committed, current)
    /\ committed' \in Evaluations(Rebase(committed, current))
    /\ \A t \in Tokens \ {current.token} : Settles(t)

Next == Keep \/ Reevaluate \/ Commit

Spec == Init /\ [][Next]_avars
=============================================================================
