---------------------------- MODULE GoalContract ----------------------------
(***************************************************************************)
(* What a client of the Mission action may rely on, and all it may rely    *)
(* on, for the goals it sends to one machine: the machine (Machine) keeps  *)
(* to it, and the adapter (Dispatch) takes no more than it for granted.    *)
(*                                                                         *)
(* A goal is refused, or accepted and ended; one goal is accepted at a     *)
(* time; the Result comes once, not before the end, and goes with it.  A   *)
(* callback that raised aborts its goal with an empty Result, which reads  *)
(* as completed.                                                           *)
(***************************************************************************)
CONSTANT Goals

VARIABLES goal,    \* [Goals -> what the machine has made of the goal]
          answer   \* [Goals -> the result_state of its Result, or "none"]

vars == <<goal, answer>>

Ends == {"succeeded", "aborted", "canceled", "raised"}

ResultFor(e) == IF e \in {"succeeded", "raised"} THEN "COMPLETED" ELSE "EXCEPTION"

Init ==
  /\ goal   = [g \in Goals |-> "open"]
  /\ answer = [g \in Goals |-> "none"]

Refuse(g) ==
  /\ goal[g] = "open"
  /\ goal' = [goal EXCEPT ![g] = "refused"]
  /\ UNCHANGED answer

Accept(g) ==
  /\ goal[g] = "open"
  /\ \A h \in Goals : goal[h] # "accepted"
  /\ goal' = [goal EXCEPT ![g] = "accepted"]
  /\ UNCHANGED answer

\* The Result may come with the end ...
End(g) ==
  /\ goal[g] = "accepted"
  /\ \E e \in Ends :
       /\ goal' = [goal EXCEPT ![g] = e]
       /\ answer' \in {answer, [answer EXCEPT ![g] = ResultFor(e)]}

\* ... or after it.
Answer(g) ==
  /\ goal[g] \in Ends
  /\ answer[g] = "none"
  /\ answer' = [answer EXCEPT ![g] = ResultFor(goal[g])]
  /\ UNCHANGED goal

Next == \E g \in Goals : Refuse(g) \/ Accept(g) \/ End(g) \/ Answer(g)

SafeSpec == Init /\ [][Next]_vars
=============================================================================
