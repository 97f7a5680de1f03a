----------------------------- MODULE MCOccupancy -----------------------------
(* Four services, two boards: one board under two spellings, one of them   *)
(* used twice, and a service on the other board.                           *)
EXTENDS Occupancy

MCServices == {"A", "A2", "B", "C"}
MCBoards == {"b1", "b2"}
MCNodes == {"acm0", "acm1"}
MCLinks == {"link1", "link2"}
MCLinkOf == [b \in MCBoards |-> IF b = "b1" THEN "link1" ELSE "link2"]
MCHome == [b \in MCBoards |-> IF b = "b1" THEN "acm0" ELSE "acm1"]

\* usb:3-4 twice, usb:feather-01 (the same board), and the node of the other board.
UsbLabel == [s \in MCServices |->
  IF s = "C" THEN [kind |-> "node", node |-> "acm1"] ELSE [kind |-> "usb", board |-> "b1"]]
UsbLock == [s \in MCServices |-> IF s = "A2" THEN "A" ELSE s]

\* A symlink and a usb label for one board; all but B have the same label.
LinkLabel == [s \in MCServices |->
  IF s = "B" THEN [kind |-> "usb", board |-> "b1"] ELSE [kind |-> "link", board |-> "b1"]]
LinkLock == [s \in MCServices |-> IF s = "B" THEN "usb" ELSE "link"]
=============================================================================
