-------------------------- MODULE MCDeviceManager --------------------------
(* Two devices, two services: a is reachable through both, and returns      *)
(* through the first one, once with another key.                            *)
EXTENDS DeviceManager

CONSTANTS a, b, lan, bt, a1, a2, a3, a4, b1

Link(id, key, s) == [id |-> id, key |-> key, service |-> s]

MCPeer ==
    [x \in {a1, a2, a3, a4, b1} |->
        CASE x = a1 -> Link(a, 1, lan)
          [] x = a2 -> Link(a, 1, lan)
          [] x = a3 -> Link(a, 2, lan)
          [] x = a4 -> Link(a, 1, bt)
          [] x = b1 -> Link(b, 3, lan)]
=============================================================================
