\* Two usb labels for one board, one of them twice, and a node label for another; nodes are stable.
SPECIFICATION Spec
CONSTANTS
  Services <- MCServices
  Boards <- MCBoards
  NoBoard = "noboard"
  Nodes <- MCNodes
  NoNode = "nonode"
  Links <- MCLinks
  LinkOf <- MCLinkOf
  Label <- UsbLabel
  LockName <- UsbLock
  Home <- MCHome
  Renumbers = FALSE
INVARIANTS
  OneServicePerBoard
  OneProxyPerLabel
PROPERTIES
  OneMcuSpec
