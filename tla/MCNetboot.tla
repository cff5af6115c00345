----------------------------- MODULE MCNetboot -----------------------------
(* Instances of Netboot for TLC. *)
EXTENDS NetbootInvariant

\* near: a server and router; rogue: a second DHCP server, for another network, that
\* has a TFTP server too; far: a server behind the router.
OneMask == {"255.255.255.0"}
Networks == [m \in OneMask |-> [h \in Hosts |-> IF h = "rogue" THEN {"rogue"} ELSE {"near"}]]
Offers ==
  [near  |-> [ip |-> "mine", netmask |-> "255.255.255.0", gateway |-> "near"],
   rogue |-> [ip |-> "other", netmask |-> "255.255.255.0", gateway |-> "rogue"]]
Dests == [download |-> {"far", Broadcast}, upload |-> {Broadcast}]
Files == [h \in Hosts |-> CASE h = "near" -> 2 [] h = "far" -> 1 [] OTHER -> 0]
=============================================================================
