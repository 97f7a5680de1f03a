------------------------------- MODULE OneMcu -------------------------------
(***************************************************************************)
(* Exclusive occupancy, "one service = one MCU" (runtt/src/lock.rs): a     *)
(* service takes a board nobody uses, keeps to it, and lets go of it.      *)
(***************************************************************************)
CONSTANTS Services, Boards, NoBoard

VARIABLE using  \* the board each service works on

Init == using = [s \in Services |-> NoBoard]

Take(s, b) ==
  /\ using[s] = NoBoard
  /\ \A t \in Services : using[t] # b
  /\ using' = [using EXCEPT ![s] = b]

Release(s) == using' = [using EXCEPT ![s] = NoBoard]

Next == \E s \in Services : Release(s) \/ \E b \in Boards : Take(s, b)

Spec == Init /\ [][Next]_using
=============================================================================
