--------------------------- MODULE RequestService ---------------------------
(***************************************************************************)
(* What lib/queue/GwMessage promises to the tasks that ask the main loop   *)
(* to do something for them: a request is refused when too many are        *)
(* pending, or it is accepted and then performed once, in the order of     *)
(* acceptance; it is answered at most once, and only with the outcome of   *)
(* having been performed.                                                  *)
(***************************************************************************)
EXTENDS Integers, Sequences

CONSTANTS
  Request,     (* all requests of a run                                    *)
  Capacity     (* the number of pending requests that may cause a refusal  *)

VARIABLES
  pending,     (* accepted and not yet performed, in order of acceptance   *)
  status,      (* "new", "pending", "performed" or "refused"               *)
  answer       (* "none", "ok", "refused" or "gone" (the asker left)       *)

vars == <<pending, status, answer>>

Init ==
  /\ pending = << >>
  /\ status = [m \in Request |-> "new"]
  /\ answer = [m \in Request |-> "none"]

Accept(m) ==
  /\ status[m] = "new"
  /\ status' = [status EXCEPT ![m] = "pending"]
  /\ pending' = Append(pending, m)
  /\ UNCHANGED answer

Refuse(m) ==
  /\ status[m] = "new" /\ Len(pending) >= Capacity
  /\ status' = [status EXCEPT ![m] = "refused"]
  /\ answer' = [answer EXCEPT ![m] = "refused"]
  /\ UNCHANGED pending

Perform ==
  /\ pending # << >>
  /\ status' = [status EXCEPT ![Head(pending)] = "performed"]
  /\ pending' = Tail(pending)
  /\ UNCHANGED answer

Answer(m) ==
  /\ status[m] = "performed" /\ answer[m] = "none"
  /\ answer' = [answer EXCEPT ![m] = "ok"]
  /\ UNCHANGED <<pending, status>>

Abandon(m) ==
  /\ status[m] \in {"pending", "performed"} /\ answer[m] = "none"
  /\ answer' = [answer EXCEPT ![m] = "gone"]
  /\ UNCHANGED <<pending, status>>

Next ==
  \/ Perform
  \/ \E m \in Request : Accept(m) \/ Refuse(m) \/ Answer(m) \/ Abandon(m)

Spec == Init /\ [][Next]_vars
=============================================================================
