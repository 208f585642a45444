---------------------------- MODULE MCNodeIdentity ----------------------------
(***************************************************************************)
(* The life of a device that TLC explores.                                  *)
(***************************************************************************)
EXTENDS NodeIdentity

DeviceLife == [event \in Events |-> CASE event = "reset" -> 1 [] event = "fault" -> 1
                                      [] OTHER -> 2]
=============================================================================
