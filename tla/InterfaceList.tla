--------------------------- MODULE InterfaceList ----------------------------
(***************************************************************************)
(* What HelperTool/SCNetworkAddition.c makes of the list that getifaddrs   *)
(* returns: one dictionary entry per network interface.  The list has one  *)
(* element per interface and address, so the elements of one interface are *)
(* collected; what is left of an element is its name, its address family   *)
(* and its addresses.                                                      *)
(***************************************************************************)
EXTENDS Naturals, Sequences, SequencesExt, FiniteSets

CONSTANTS
    EthernetNames, \* interface names that begin with "en"
    FireWireNames, \* interface names that begin with "fw"
    NoAddress      \* a null pointer in an element, an absent key in a dictionary

\* What SIOCGIFMEDIA tells of an interface: its type, and whether it is active.
MediaStatus(name, media) ==
    [active |-> media.active,
     kind   |->
        CASE media.type \in {"fddi", "token"} ->
                IF name \in FireWireNames THEN "FireWire" ELSE "Modem"
          [] media.type = "ieee80211" -> "Airport"
          [] OTHER -> IF name \in EthernetNames THEN "Ethernet" ELSE "other"]

NewInterface(name, media) ==
    [status |-> MediaStatus(name, media), inet4 |-> <<>>, inet6 |-> <<>>,
     netmask |-> NoAddress, broadcast |-> NoAddress, ether |-> NoAddress]

\* What one turn of the loop dereferences without asking whether it is there: the
\* address of any element, for its family, and the netmask and the broadcast
\* address of an IPv4 element.  getifaddrs leaves a null pointer for what an interface
\* has not, as one that has neither a broadcast address nor another end.
Readable(addrs) ==
    /\ addrs.addr # NoAddress
    /\ addrs.family = "inet" =>
          addrs.netmask # NoAddress /\ addrs.broadaddr # NoAddress

\* The loop comes to the end of the list.
IsReadable(net) == \A i \in DOMAIN net.addrs : Readable(net.addrs[i])

\* Mutant: the array of an interface is created anew for every address.
Mut_WithAddress(iface, addrs) ==
    CASE addrs.family = "inet" ->
            [iface EXCEPT !.inet4 = <<addrs.addr>>,
                          !.netmask = addrs.netmask,
                          !.broadcast = addrs.broadaddr]
      [] addrs.family = "inet6" -> [iface EXCEPT !.inet6 = <<addrs.addr>>]
      [] OTHER -> iface

\* Addresses are appended, everything else is that of the last element.  The
\* element is Readable.
WithAddress(iface, addrs) ==
    CASE addrs.family = "inet" ->
            [iface EXCEPT !.inet4 = Append(@, addrs.addr),
                          !.netmask = addrs.netmask,
                          !.broadcast = addrs.broadaddr]
      [] addrs.family = "inet6" -> [iface EXCEPT !.inet6 = Append(@, addrs.addr)]
      [] addrs.family = "link" /\ addrs.name \in EthernetNames ->
            [iface EXCEPT !.ether = addrs.addr]
      [] OTHER -> iface

\* A net is [addrs |-> the list, media |-> the media status of each name].
\* One turn of the loop: the entry of the element's name is made or extended.
Collect(net, ifaces, addrs) ==
    LET name == addrs.name
        iface == IF name \in DOMAIN ifaces
                   THEN ifaces[name]
                   ELSE NewInterface(name, net.media[name])
    IN  [n \in DOMAIN ifaces \cup {name} |->
           IF n = name THEN WithAddress(iface, addrs) ELSE ifaces[n]]

\* The dictionary after the loop over a readable list; after[i] is that after its first i turns.
Collected(net) ==
    LET after[i \in 0 .. Len(net.addrs)] ==
          IF i = 0 THEN <<>> ELSE Collect(net, after[i - 1], net.addrs[i])
    IN  after[Len(net.addrs)]

\* +[RHSniffOperation activeNetworkInterfaces]; "Inactive" has no capital A.
ActiveNetworkInterfaces(ifaces) ==
    {name \in DOMAIN ifaces : ifaces[name].status.active}

\* SCNetworkInterfaceCopyInet4Addresses, ...Inet6Addresses: an empty result
\* stands for NULL.
CopyInetAddresses(ifaces, name, inetType) ==
    IF name \notin DOMAIN ifaces THEN <<>>
    ELSE IF inetType = "inet6" THEN ifaces[name].inet6 ELSE ifaces[name].inet4

-----------------------------------------------------------------------------
(***************************************************************************)
(* What the dictionary should say, without a loop.                         *)
(***************************************************************************)
\* The places in the list of the elements of an interface and a family.
PlacesOf(net, name, family) ==
    {i \in DOMAIN net.addrs :
        net.addrs[i].name = name /\ net.addrs[i].family = family}

\* s is the addresses at these places, in their order.
Lists(s, net, places) ==
    /\ DOMAIN s = 1 .. Cardinality(places)
    /\ \A i \in places :
          s[Cardinality({j \in places : j <= i})] = net.addrs[i].addr

\* The netmask and the broadcast address are those of the last of the places.
HasMasksOfLast(iface, net, places) ==
    /\ places = {} => iface.netmask = NoAddress /\ iface.broadcast = NoAddress
    /\ \A i \in places :
          (\A j \in places : j <= i) =>
             /\ iface.netmask = net.addrs[i].netmask
             /\ iface.broadcast = net.addrs[i].broadaddr

\* An address is the source of a request if some element of the interface has it
\* (_ipAddressIsSourceAddress: asks the dictionary), and packets are captured on
\* the interfaces that have an element and an active medium.
Describes(ifaces, net) ==
    /\ DOMAIN ifaces = {a.name : a \in Range(net.addrs)}
    /\ ActiveNetworkInterfaces(ifaces)
         = {n \in DOMAIN ifaces : net.media[n].active}
    /\ \A n \in DOMAIN ifaces :
          /\ \A family \in {"inet", "inet6"} :
                Lists(CopyInetAddresses(ifaces, n, family), net,
                      PlacesOf(net, n, family))
          /\ HasMasksOfLast(ifaces[n], net, PlacesOf(net, n, "inet"))
          /\ n \notin EthernetNames => ifaces[n].ether = NoAddress

=============================================================================
