---------------------------- MODULE MCGuestNetwork ----------------------------
(* An instance of GuestNetwork for TLC.                                    *)
EXTENDS GuestNetwork

Upto(S, n) == UNION {[1..k -> S] : k \in 0..n}

MCIp == {None} \cup {[addr |-> "static", nameservers |-> SubSeq(<<"n1", "n2", "n3">>, 1, k)]
                     : k \in {1, 3}}
MCStatic == [host_dev_name : {"", "tap"}, ip : MCIp]

\* Interfaces of every kind, valid or not, and those that two are made of.
MCIface ==
    [cni : {None}, static : {None} \cup MCStatic, allow_mmds : BOOLEAN]
    \cup [cni : [fields : SUBSET {"network_name", "network_config"}],
          static : {None, [host_dev_name |-> "tap", ip |-> None]}, allow_mmds : {TRUE}]
MCUsual ==
    {f \in MCIface :
        \/ f.cni # None /\ f.static = None /\ f.cni.fields = {"network_name"}
        \/ f.cni = None /\ f.static # None /\ f.static.host_dev_name # ""}

MCKernelArgs ==
    {<<<<"quiet", "1">>, <<"quiet", "2">>>>, <<<<"quiet", "1">>, <<"ip", "dhcp">>>>}
MCKeyOrder == <<"ip", "quiet">>

\* Validation is turned off for a few of them.
MCConfig ==
    [ifaces : {<<>>} \cup [1..1 -> MCIface] \cup [1..2 -> MCUsual],
     args : MCKernelArgs, unchecked : {FALSE}]
    \cup [ifaces : [1..1 -> {f \in MCIface : f.cni = None \/ f.cni.fields = {"network_name"}}],
          args : {<<<<"ip", "dhcp">>>>}, unchecked : {TRUE}]

\* Up to three devices and two addresses, whose index may lead nowhere.
MCDevice == [name : {"t1", "t2"}, sandbox : {"vm", "host"}]
MCCniResult ==
    {[interfaces |-> devices,
      ips |-> [k \in DOMAIN index |-> [interface |-> index[k], addr |-> <<"a1", "a2">>[k]]],
      nameservers |-> SubSeq(<<"n1", "n2", "n3">>, 1, IF Len(index) = 1 THEN 3 ELSE 1)] :
        devices \in {d \in Upto(MCDevice, 3) : Len(d) = 3 => d[1].name = "t1"},
        index \in {x \in Upto(0..3, 2) : Len(x) = 2 => x[1] <= x[2]}}
=============================================================================
