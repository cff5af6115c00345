------------------------------- MODULE MCDns -------------------------------
(* Instances of Dns for TLC. *)
EXTENDS Dns

\* A name with an address, an alias of it, and a name that does not exist; an alias
\* of itself keeps the resolver asking.
Hosts == {"host", "alias", "other", "nobody", "loop"}
Quad == {"10.0.0.9"}
Addresses ==
  [n \in Hosts \cup Quad |->
     CASE n \in {"host", "alias"} -> 1 [] n = "other" -> 2 [] n = "10.0.0.9" -> 9 [] OTHER -> 0]
Records ==
  [n \in Hosts |->
     CASE n = "host"   -> [type |-> "A", ip |-> 1]
       [] n = "alias"  -> [type |-> "CNAME", name |-> "host"]
       [] n = "other"  -> [type |-> "A", ip |-> 2]
       [] n = "nobody" -> [type |-> "error"]
       [] n = "loop"   -> [type |-> "CNAME", name |-> "loop"]]

TwoHosts == {"host", "other"}
TwoAddresses == [n \in TwoHosts \cup Quad |-> Addresses[n]]
TwoRecords == [n \in TwoHosts |-> Records[n]]

NoPorts == {}
OnePort == {[lo |-> 102, hi |-> 25]}
=============================================================================
