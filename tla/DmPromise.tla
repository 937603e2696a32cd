------------------------------ MODULE DmPromise ------------------------------
(***************************************************************************)
(* What the chat promises its user about each direct message of his, by    *)
(* the mark the message carries: none or a refresh symbol while it is      *)
(* being sent, a check mark once it is delivered, a cross once the device  *)
(* has given up. DmLink implements this specification.                     *)
(***************************************************************************)
CONSTANT Msgs

VARIABLES
  status,    \* the mark of each message, "new" before it is sent
  received   \* the messages their recipients have been shown

vars == <<status, received>>

Init ==
  /\ status = [m \in Msgs |-> "new"]
  /\ received = {}

Send(m) ==
  /\ status[m] = "new"
  /\ status' = [status EXCEPT ![m] = "sending"]
  /\ UNCHANGED received

\* Only what was sent is shown.
Receive(m) ==
  /\ status[m] # "new"
  /\ received' = received \cup {m}
  /\ UNCHANGED status

\* Giving up says nothing about the recipient: the message may have arrived.
GiveUp(m) ==
  /\ status[m] = "sending"
  /\ status' = [status EXCEPT ![m] = "failed"]
  /\ UNCHANGED received

\* A check mark is earned by arrival, may come late and stays.
Deliver(m) ==
  /\ status[m] \in {"sending", "failed"}
  /\ m \in received
  /\ status' = [status EXCEPT ![m] = "delivered"]
  /\ UNCHANGED received

Next == \E m \in Msgs : Send(m) \/ Receive(m) \/ GiveUp(m) \/ Deliver(m)

Spec == Init /\ [][Next]_vars
==============================================================================
