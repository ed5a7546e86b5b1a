---------------------------- MODULE RpcLifetime ----------------------------
(***************************************************************************)
(* What the reference count of struct usb_rpc promises, without the count: *)
(* the structure comes to life when a device is bound, a file can be opened*)
(* only while the device is bound, and the structure lives on until the    *)
(* device is unbound and the last file is closed, whichever comes last.    *)
(***************************************************************************)
CONSTANT Handles   \* what an open file is told apart by

VARIABLES
  bound,           \* the driver is bound to a device
  files,           \* the open files
  live             \* the structure is allocated

vars == <<bound, files, live>>

Init == bound = FALSE /\ files = {} /\ live = FALSE

Attach ==
  /\ ~live
  /\ bound' = TRUE /\ live' = TRUE
  /\ UNCHANGED files

Detach ==
  /\ bound
  /\ bound' = FALSE
  /\ live' = (files # {})
  /\ UNCHANGED files

Open(h) ==
  /\ bound /\ h \notin files
  /\ files' = files \cup {h}
  /\ UNCHANGED <<bound, live>>

Close(h) ==
  /\ h \in files
  /\ files' = files \ {h}
  /\ live' = (bound \/ files' # {})
  /\ UNCHANGED bound

Next == Attach \/ Detach \/ \E h \in Handles : Open(h) \/ Close(h)

Spec == Init /\ [][Next]_vars
=============================================================================
