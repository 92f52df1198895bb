------------------------------ MODULE MCAttach ------------------------------
(***************************************************************************)
(* Instances of Attach for TLC: two nodes, and every reflash is of the      *)
(* first of them.                                                           *)
(***************************************************************************)
EXTENDS Attach

CONSTANTS n1, n2

ReflashFirst == [r \in Reflasher |-> n1]

(* Starting every node goes on beside a reflash and the opening of another  *)
(* network; so do a stop, and a reflash beside the start of one node.       *)
(* Nobody stops a node that somebody else is stopping, and nobody starts    *)
(* one on the store's goroutine while all are being started: TwoReflashes   *)
(* and StartsOnStore are for those.                                         *)
Apart == {{"firmware.start", "node.set_firmware", "open"},
          {"firmware.start", "node.stop", "open"},
          {"node.set_firmware", "node.start", "open"}}

(* One node is started on the store's goroutine while the others are being  *)
(* started from one of their own.                                           *)
StartsOnStore == {{"firmware.start", "node.start"}}

(* One node is reflashed twice while the others are being started.          *)
TwoReflashes == {{"firmware.start", "node.set_firmware"}}
=============================================================================
