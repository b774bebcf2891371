----------------------------- MODULE GuestNetwork -----------------------------
(***************************************************************************)
(* How the network of a guest gets from the configuration and the result   *)
(* of CNI to the boot arguments and the requests: NetworkInterfaces and    *)
(* its validation in src/src/network.rs, the conversion of a CNI result in *)
(* src/src/cni, the kernel arguments, and the handlers of machine.rs that  *)
(* use them.  setup_network and setup_kernel_args may also be called by    *)
(* themselves before start().                                              *)
(*                                                                         *)
(* Kernel arguments are a sequence of <<key, value>> tokens, as they stand  *)
(* in the string.  How the CNI plugins come to a result is in NetworkSetup.*)
(***************************************************************************)
EXTENDS Integers, Sequences, FiniteSets, Lists

CONSTANTS Config,      \* what a caller may configure: [ifaces, args, unchecked]
          KeyOrder,    \* the keys in them and "ip", in the order of BTreeMap
          CniResult,   \* the results a CNI ADD may have
          VmId,        \* cfg.vmid, which the VM's interface has as its sandbox
          MaxCalls     \* bound on the calls before start()

None == <<>>

\* An interface: of a CNI configuration the fields that are given are kept, of
\* a static one the device and the IP configuration.
CniConfiguration == {None} \cup [fields : SUBSET {"network_name", "network_config"}]
StaticConfiguration ==
    {None} \cup [host_dev_name : STRING,
                 ip : {None} \cup [addr : STRING, nameservers : Seq(STRING)]]
NetworkInterface ==
    [cni : CniConfiguration, static : StaticConfiguration, allow_mmds : BOOLEAN]

\* A CNI result: an address names a device by its index, or none by 0.
Result ==
    [interfaces : Seq([name : STRING, sandbox : STRING]),
     ips : Seq([interface : Nat, addr : STRING]),
     nameservers : Seq(STRING)]

ASSUME CallsAssumption == MaxCalls \in Nat
ASSUME ConfigAssumption ==
    \A c \in Config : /\ c.ifaces \in Seq(NetworkInterface)
                      /\ c.args \in Seq(STRING \X STRING)
                      /\ c.unchecked \in BOOLEAN
ASSUME ResultAssumption == \A r \in CniResult : r \in Result

VARIABLES
    given,        \* the configuration at first; unchecked is disable_validation
    ifaces,       \* cfg.network_interfaces
    kernel_args,  \* cfg.kernel_args
    result,       \* of the last CNI ADD, or None
    calls,        \* calls before start()
    pc,           \* where start() is
    sent,         \* interfaces the VMM has: host device, by id
    mmds          \* ids in the MMDS configuration the VMM has

vars == <<given, ifaces, kernel_args, result, calls, pc, sent, mmds>>

Init ==
    /\ given \in Config
    /\ ifaces = given.ifaces
    /\ kernel_args = given.args
    /\ result = None
    /\ calls = 0
    /\ pc = "new"
    /\ sent = <<>>
    /\ mmds = {}

-----------------------------------------------------------------------------
(* Kernel arguments                                                        *)

Keys(raw) == {token[1] : token \in Range(raw)}

ASSUME KeysAssumption ==
    /\ KeyOrder \in Seq(STRING) /\ "ip" \in Range(KeyOrder)
    /\ \A c \in Config : Keys(c.args) \subseteq Range(KeyOrder)

\* parse_kernel_args: the last token of a key counts.  In the variant it is the
\* first.
parse_kernel_args_First(raw) ==
    [key \in Keys(raw) |-> Filter(raw, {t \in Range(raw) : t[1] = key})[1][2]]
parse_kernel_args(raw) ==
    [key \in Keys(raw) |-> Last(Filter(raw, {t \in Range(raw) : t[1] = key}))[2]]

\* KernelArgs as a string: the keys in the order of the map.
Display(args) ==
    LET keys == Filter(KeyOrder, DOMAIN args)
    IN [i \in DOMAIN keys |-> <<keys[i], args[keys[i]]>>]

\* ip_boot_param: the address, and two fields for name servers.
ip_boot_param(ip) ==
    <<ip.addr, IF Len(ip.nameservers) >= 1 THEN ip.nameservers[1] ELSE "",
               IF Len(ip.nameservers) >= 2 THEN ip.nameservers[2] ELSE "">>

-----------------------------------------------------------------------------
(* NetworkInterfaces::validate                                             *)

HasStaticIp(iface) == iface.static # None /\ iface.static.ip # None

\* An interface has a CNI or a static configuration, and not both.
OneKind(iface) == (iface.cni # None) # (iface.static # None)

ValidInterface(iface) ==
    /\ OneKind(iface)
    /\ (iface.cni # None \/ HasStaticIp(iface)) =>
          Len(ifaces) = 1 /\ "ip" \notin Keys(kernel_args)
    /\ iface.cni # None => Cardinality(iface.cni.fields) = 1
    /\ iface.static # None => iface.static.host_dev_name # ""
    /\ HasStaticIp(iface) => Len(iface.static.ip.nameservers) <= 2

validate_network == \A i \in DOMAIN ifaces : ValidInterface(ifaces[i])

-----------------------------------------------------------------------------
(* The conversion of a CNI result                                          *)

\* vm_tap_pair: the interfaces in the VM's sandbox, and those outside with the
\* name of one.
filter_by_sandbox(r) ==
    Filter(r.interfaces, {f \in Range(r.interfaces) : f.sandbox = VmId})

ifaces_with_name(r, name) ==
    Filter(r.interfaces,
           {f \in Range(r.interfaces) : f.sandbox # VmId /\ f.name = name})

\* interface_ips: addresses whose index leads to that interface.  The variant
\* compares the names only.
interface_ips_ByName(r, iface) ==
    Filter(r.ips, {ip \in Range(r.ips) :
                      /\ ip.interface \in DOMAIN r.interfaces
                      /\ r.interfaces[ip.interface].name = iface.name})
interface_ips(r, iface) ==
    Filter(r.ips, {ip \in Range(r.ips) :
                      /\ ip.interface \in DOMAIN r.interfaces
                      /\ r.interfaces[ip.interface] = iface})

\* static_network_conf_from and apply_cni_result: the static configuration, or
\* None when the conversion fails.
static_network_conf_from(r) ==
    LET vm == filter_by_sandbox(r)
        kept == IF Len(r.nameservers) > 2 THEN 2 ELSE Len(r.nameservers)
        tap == ifaces_with_name(r, vm[1].name)
        ips == interface_ips(r, vm[1])
    IN IF Len(vm) = 1 /\ Len(tap) = 1 /\ Len(ips) = 1
       THEN [host_dev_name |-> tap[1].name,
             ip |-> [addr |-> ips[1].addr,
                     nameservers |-> SubSeq(r.nameservers, 1, kept)]]
       ELSE None

-----------------------------------------------------------------------------
(* setup_network and setup_kernel_args                                     *)

CniInterfaces == {i \in DOMAIN ifaces : ifaces[i].cni # None}

\* cni_interface_mut
CniInterface == CHOOSE i \in CniInterfaces : \A j \in CniInterfaces : i <= j

\* setup_network succeeds: nothing to do, or setup_cni had the result r, which
\* is applied unless there is a static configuration.
SetupNetworkOk ==
    \/ /\ CniInterfaces = {}
       /\ UNCHANGED <<ifaces, result>>
    \/ /\ CniInterfaces # {}
       /\ \E r \in CniResult :
             LET conf == static_network_conf_from(r)
                 old == ifaces[CniInterface].static
             IN /\ result' = r
                /\ old # None \/ conf # None
                /\ ifaces' = [ifaces EXCEPT ![CniInterface].static =
                                 IF old # None THEN old ELSE conf]

\* static_ip_interface
StaticIps == {i \in DOMAIN ifaces : HasStaticIp(ifaces[i])}
StaticIpInterface == CHOOSE i \in StaticIps : \A j \in StaticIps : i <= j

\* setup_kernel_args
KernelArgsSet ==
    LET args == parse_kernel_args(kernel_args)
    IN Display([key \in DOMAIN args \cup (IF StaticIps = {} THEN {} ELSE {"ip"}) |->
                   IF key = "ip" /\ StaticIps # {}
                   THEN ip_boot_param(ifaces[StaticIpInterface].static.ip)
                   ELSE args[key]])

\* The caller calls them before start(); a call that fails changes nothing
\* here.
CallSetupNetwork ==
    /\ pc = "new" /\ calls < MaxCalls
    /\ calls' = calls + 1
    /\ SetupNetworkOk
    /\ UNCHANGED <<given, kernel_args, pc, sent, mmds>>

CallSetupKernelArgs ==
    /\ pc = "new" /\ calls < MaxCalls
    /\ calls' = calls + 1
    /\ kernel_args' = KernelArgsSet
    /\ UNCHANGED <<given, ifaces, result, pc, sent, mmds>>

-----------------------------------------------------------------------------
(* start()                                                                 *)

Goto(label) == pc' = label /\ UNCHANGED <<given, calls>>

\* Handlers::run, and the handler of validate.NetworkCfg.
Validate ==
    /\ pc = "new"
    /\ given.unchecked \/ validate_network
    /\ Goto("network")
    /\ UNCHANGED <<ifaces, kernel_args, result, sent, mmds>>

SetupNetwork ==
    /\ pc = "network" /\ SetupNetworkOk
    /\ Goto("args")
    /\ UNCHANGED <<kernel_args, sent, mmds>>

\* The result cannot be converted: what CNI set up stays as it is.
ConversionErr ==
    /\ pc = "network" /\ CniInterfaces # {}
    /\ ifaces[CniInterface].static = None
    /\ \E r \in CniResult : static_network_conf_from(r) = None /\ result' = r
    /\ Goto("failed")
    /\ UNCHANGED <<ifaces, kernel_args, sent, mmds>>

SetupKernelArgs ==
    /\ pc = "args"
    /\ kernel_args' = KernelArgsSet
    /\ Goto("interfaces")
    /\ UNCHANGED <<ifaces, result, sent, mmds>>

\* create_network_interface, for one interface after the other.
CreateNetworkInterface ==
    /\ pc = "interfaces" /\ Len(sent) < Len(ifaces)
    /\ LET static == ifaces[Len(sent) + 1].static
       IN static # None /\ sent' = Append(sent, static.host_dev_name)
    /\ Goto("interfaces")
    /\ UNCHANGED <<ifaces, kernel_args, result, mmds>>

\* The ids set_mmds_config sends; the variant counts from 0.
MmdsIds_FromZero == {i - 1 : i \in {j \in DOMAIN ifaces : ifaces[j].allow_mmds}}
MmdsIds == {i \in DOMAIN ifaces : ifaces[i].allow_mmds}

\* set_mmds_config, and the rest of start().
SetMmdsConfig ==
    /\ pc = "interfaces" /\ Len(sent) = Len(ifaces)
    /\ mmds' = MmdsIds
    /\ Goto("up")
    /\ UNCHANGED <<ifaces, kernel_args, result, sent>>

\* A check, CNI, the lookup of the tap's MTU or a request fails: start() is
\* over.
StartErr ==
    /\ pc \in {"new", "network", "interfaces"}
    /\ Goto("failed")
    /\ UNCHANGED <<ifaces, kernel_args, result, sent, mmds>>

Next ==
    \/ CallSetupNetwork \/ CallSetupKernelArgs
    \/ Validate \/ SetupNetwork \/ ConversionErr \/ SetupKernelArgs
    \/ CreateNetworkInterface \/ SetMmdsConfig \/ StartErr

Spec == Init /\ [][Next]_vars

-----------------------------------------------------------------------------
(* Properties                                                              *)

\* The devices in a CNI result that belong together, by index: the only one in
\* the VM's sandbox, the only one outside with its name, its only address.
VmInterface(r) == {i \in DOMAIN r.interfaces : r.interfaces[i].sandbox = VmId}
TapOf(r, i) ==
    {j \in DOMAIN r.interfaces \ VmInterface(r) : r.interfaces[j].name = r.interfaces[i].name}
AddressOf(r, i) == {k \in DOMAIN r.ips : r.ips[k].interface = i}

Unambiguous(r) ==
    /\ Cardinality(VmInterface(r)) = 1
    /\ \A i \in VmInterface(r) :
          Cardinality(TapOf(r, i)) = 1 /\ Cardinality(AddressOf(r, i)) = 1

\* static_network_conf_from takes a CNI result exactly when it says without
\* ambiguity which tap and which address are the VM's, and takes those.
ConversionExact ==
    result # None /\ calls = 0 /\ given.ifaces[CniInterface].static = None =>
        LET conf == ifaces[CniInterface].static
        IN /\ conf # None <=> Unambiguous(result)
           /\ conf # None =>
                 \E i \in VmInterface(result) : \E k \in AddressOf(result, i) :
                    /\ conf.ip.addr = result.ips[k].addr
                    /\ conf.host_dev_name = result.interfaces[i].name

Up == pc = "up" /\ ~given.unchecked

\* The token at i is the last of its key.
LastOfKey(raw, i) == \A j \in DOMAIN raw : raw[j][1] = raw[i][1] => j <= i

\* The ip= token for an address: it has room for two name servers.
NameServer(names, n) == IF n \in DOMAIN names THEN names[n] ELSE ""
IpToken(addr, names) == <<"ip", <<addr, NameServer(names, 1), NameServer(names, 2)>>>>

\* A guest whose configuration was validated boots with the last token the
\* caller gave for every key, and with no other for that key: an ip= of the
\* caller's own is never replaced.  The one token that is added is ip=, for the
\* interface with an address: the VM's address and the first two name servers
\* in the CNI result that came last, or the address and all the name servers
\* that were configured.  Earlier tokens of a repeated key, the order of the
\* tokens and the name servers after the second in a CNI result are lost in
\* parse_kernel_args, Display and static_network_conf_from.
BootArgsAsConfigured ==
    Up => LET added == {t \in Range(kernel_args) : t[1] \notin Keys(given.args)}
          IN /\ \A i \in DOMAIN given.args : LastOfKey(given.args, i) =>
                   {t \in Range(kernel_args) : t[1] = given.args[i][1]} = {given.args[i]}
             /\ \A i \in DOMAIN given.ifaces :
                   /\ given.ifaces[i].cni # None =>
                         \E v \in VmInterface(result) : \E k \in AddressOf(result, v) :
                            added = {IpToken(result.ips[k].addr, result.nameservers)}
                   /\ HasStaticIp(given.ifaces[i]) =>
                         LET ip == given.ifaces[i].static.ip
                         IN /\ added = {IpToken(ip.addr, ip.nameservers)}
                            /\ Len(ip.nameservers) <= 2
             /\ added # {} => \E i \in DOMAIN given.ifaces :
                   given.ifaces[i].cni # None \/ HasStaticIp(given.ifaces[i])

\* The VMM has every interface under its id, with the host device CNI reported
\* last or the one configured, and MMDS is open to those that allow it.
InterfacesAsConfigured ==
    Up => /\ Len(sent) = Len(given.ifaces)
          /\ \A i \in DOMAIN sent :
                /\ sent[i] = IF given.ifaces[i].cni # None
                             THEN static_network_conf_from(result).host_dev_name
                             ELSE given.ifaces[i].static.host_dev_name
                /\ i \in mmds <=> given.ifaces[i].allow_mmds
=============================================================================
