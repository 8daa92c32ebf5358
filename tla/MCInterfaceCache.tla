-------------------------- MODULE MCInterfaceCache --------------------------
(* InterfaceCache with three networks: an Ethernet interface with three     *)
(* addresses next to a modem that is not active; the same Ethernet          *)
(* interface without an IPv4 address next to an AirPort; and a modem that   *)
(* is connected and has no broadcast address.                               *)
EXTENDS InterfaceCache

CONSTANTS en0, en1, ppp0, a1, a2, a3, mask1, mask2, bcast1, bcast2, mac

Inet(name, addr, netmask, broadaddr) ==
    [name |-> name, family |-> "inet", addr |-> addr, netmask |-> netmask,
     broadaddr |-> broadaddr]

Inet6(name, addr) == [name |-> name, family |-> "inet6", addr |-> addr]

Link(name) == [name |-> name, family |-> "link", addr |-> mac]

Media ==
    [name \in {en0, en1, ppp0} |->
        CASE name = en0 -> [type |-> "ethernet", active |-> TRUE]
          [] name = en1 -> [type |-> "ieee80211", active |-> TRUE]
          [] name = ppp0 -> [type |-> "token", active |-> FALSE]]

MCNets ==
    <<[addrs |-> <<Link(ppp0), Link(en0), Inet6(en0, a1),
                   Inet(en0, a2, mask1, bcast1), Inet(en0, a3, mask2, bcast2),
                   Inet6(en0, a2)>>,
       media |-> Media],
      [addrs |-> <<Inet(en1, a2, mask1, bcast1), Inet6(en0, a1), Link(en1)>>,
       media |-> Media],
      [addrs |-> <<Link(en0), Inet(en0, a2, mask1, bcast1),
                   Inet(ppp0, a3, mask2, NoAddress)>>,
       media |-> Media]>>

=============================================================================
