-------------------------------- MODULE Detection --------------------------------
(***************************************************************************)
(* How QFlash finds the module (quectel_common.cpp, download.cpp, openport *)
(* of os_linux.cpp, and the fastboot child's usb_open): by the ids of the  *)
(* USB devices in sysfs, the ttyUSB name below an interface, the number in *)
(* that name, and the nodes below /dev/bus/usb. Every function is an       *)
(* operator on the bus: the devices, in the order in which the directories *)
(* list them. Names are numbers, ttyUSB<n> is n.                           *)
(*                                                                         *)
(* Kinds of devices: "normal" is 2c7c:*, "old" 05c6:* of a module that is  *)
(* running, "edl" 05c6:9008, "fastboot" 18d1:d00d with the interface       *)
(* ff/42/03, "phone" another vendor's with that interface, "serial" any    *)
(* other with a ttyUSB port, "gone" none.                                  *)
(***************************************************************************)
EXTENDS Naturals, Sequences, FiniteSets, FiniteSetsExt

CONSTANTS
    Ifaces,      \* interfaces of a running module with a port, 0..3
    MaxPort      \* bound: the highest number a device is given

NoName == 1000       \* an interface without a ttyUSB entry; and -1

(* The diagnostic port is interface 0, the modem port interface 3.         *)
ASSUME PortsAssumption == 0 \in Ifaces /\ Ifaces \subseteq 0..3 /\ MaxPort \in Nat

Kinds == {"normal", "old", "edl", "fastboot", "phone", "serial", "gone"}

Device == [kind : Kinds,
           tty  : UNION {[D -> (0..MaxPort) \cup {NoName}] : D \in SUBSET Ifaces},
           node : {"rw", "ro", "none"}]      \* its node below /dev/bus/usb

Gone == [kind |-> "gone", tty |-> <<>>, node |-> "none"]

Quectel(d) == d.kind \in {"normal", "old", "edl"}

(* The numbers of a device, and all those in use.                          *)
PortsOf(d) == {d.tty[i] : i \in DOMAIN d.tty} \ {NoName}
Ports(bus) == UNION {PortsOf(bus[s]) : s \in DOMAIN bus}

(* The first of some slots; 0: there is none.                              *)
FirstOf(slots) == IF slots = {} THEN 0 ELSE Min(slots)

-----------------------------------------------------------------------------
(* ttyusb_dev_detect: the first device with the ids and the interface,     *)
(* although its interface may have no name.                                *)
TtyusbDevDetect(bus, interface) ==
    FirstOf({s \in DOMAIN bus : Quectel(bus[s]) /\ interface \in DOMAIN bus[s].tty})

(* detect_diag_port = 0, detect_modem_port = 0.                            *)
DetectDiagPort(bus)  == TtyusbDevDetect(bus, 0) # 0
DetectModemPort(bus) == TtyusbDevDetect(bus, 3) # 0

NameOf(bus, interface) == bus[TtyusbDevDetect(bus, interface)].tty[interface]

(* Resolve_port: "ttyUSB" and one or two digits, or else -1.               *)
ResolvePort(name) == IF name <= 99 THEN name ELSE NoName

(* detect_adb: the first device with the ids of fastboot. Its node is made *)
(* or opened up if it has to be and QFlash may do so.                      *)
AdbSlot(bus) == FirstOf({s \in DOMAIN bus : bus[s].kind = "fastboot"})

DetectAdb(bus, root) == AdbSlot(bus) # 0 /\ (bus[AdbSlot(bus)].node # "none" \/ root)

NodesAfterDetect(bus, root) ==
    IF AdbSlot(bus) # 0 /\ root THEN [bus EXCEPT ![AdbSlot(bus)].node = "rw"] ELSE bus

(* qusb_find_emergency_port: of the first module whose node can be opened. *)
IsEmergency(bus) ==
    LET first == FirstOf({s \in DOMAIN bus :
                             bus[s].kind \in {"normal", "edl"} /\ bus[s].node = "rw"}) IN
    first # 0 /\ bus[first].kind = "edl"

(* What the descriptors of a device say: its vendor, and the classes of    *)
(* its interfaces.                                                         *)
VendorOf(kind) ==
    CASE kind = "fastboot" -> "18d1" [] kind = "normal" -> "2c7c"
      [] kind \in {"old", "edl"} -> "05c6" [] kind = "phone" -> "0bb4" [] OTHER -> "other"

ClassesOf(kind) == IF kind \in {"fastboot", "phone"} THEN {"ff/42/03"} ELSE {"ff/ff/ff"}

FastbootVendors == {"18d1", "05c6", "0bb4"}      \* and others

MatchFastbootMutant(vendor, class) == vendor \in FastbootVendors      \* ids alone

(* match_fastboot: a vendor of the list, and the interface of fastboot.    *)
MatchFastboot(vendor, class) == vendor \in FastbootVendors /\ class = "ff/42/03"

(* filter_usb_device: one of the interfaces is a match.                    *)
FilterUsbDevice(d) == \E class \in ClassesOf(d.kind) : MatchFastboot(VendorOf(d.kind), class)

(* usb_open of the child: the first that matches and lets its interface be *)
(* claimed. One that can be opened for reading only does not, and the next *)
(* is tried.                                                               *)
UsbOpen(bus) == FirstOf({s \in DOMAIN bus : FilterUsbDevice(bus[s]) /\ bus[s].node = "rw"})

(* openport probes six numbers; NoName: none of them exists.               *)
ProbePort(bus, default) ==
    LET P == {p \in default..(default + 5) : p \in Ports(bus)} IN
    IF P = {} THEN NoName ELSE Min(P)

SlotOf(bus, port) == FirstOf({s \in DOMAIN bus : port \in PortsOf(bus[s])})

-----------------------------------------------------------------------------
(* The kernel (external): a device that comes gets the lowest numbers that *)
(* are free, in the order of its interfaces.                               *)

Lowest(used, k) ==
    CHOOSE p \in 0..MaxPort :
        p \notin used /\ Cardinality({q \in 0..p : q \notin used}) = k + 1

IfacesOf(kind) ==
    CASE kind \in {"normal", "old"} -> Ifaces
      [] kind \in {"edl", "serial"} -> {0}
      [] OTHER -> {}

Attached(used, kind, bound, node) ==
    [kind |-> kind, node |-> node,
     tty |-> [i \in IfacesOf(kind) |->
                 IF bound THEN Lowest(used, Cardinality({j \in IfacesOf(kind) : j < i}))
                          ELSE NoName]]
=============================================================================
