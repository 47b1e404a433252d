------------------------------- MODULE UpgradeProofs -------------------------------
(***************************************************************************)
(* Theorems about an upgrade: about Driver, a whole run of the program,    *)
(* with any packages, buses, command lines, waits and devices that come    *)
(* and go; and about UpgradeFlow, its flow over the diagnostic port, with  *)
(* any number of power cuts, restarts and runs.                            *)
(***************************************************************************)
EXTENDS Driver, UpgradeFlow, FiniteSetTheorems, TLAPS

-----------------------------------------------------------------------------
(* The first and the last of some positions. The library's finite subsets  *)
(* of Nat are well founded, and x <= y is 1..x \subseteq 1..y.             *)
LEMMA Smallest ==
  ASSUME NEW T \in SUBSET Nat, T # {}
  PROVE  \E x \in T : \A y \in T : x <= y
<1> DEFINE Below == {1..x : x \in T}
<1>1. Below \subseteq FiniteSubsetsOf(Nat) /\ Below # {}
  <2>1. \A x \in T : 1 \in Int /\ x \in Int
    OBVIOUS
  <2>2. \A x \in T : IsFiniteSet(1..x)
    BY <2>1, FS_Interval, Zenon
  <2>3. \A x \in T : 1..x \subseteq Nat
    OBVIOUS
  <2> QED
    BY <2>2, <2>3 DEF FiniteSubsetsOf
<1>2. IsWellFoundedOn(StrictSubsetOrdering(Nat), FiniteSubsetsOf(Nat))
  BY FS_StrictSubsetOrderingWellFounded
<1>3. PICK b \in Below : \A c \in Below : <<c, b>> \notin StrictSubsetOrdering(Nat)
  <2> HIDE DEF Below
  <2> QED BY <1>1, <1>2, WFMin
<1>4. PICK x \in T : b = 1..x
  OBVIOUS
<1>5. ASSUME NEW y \in T PROVE x <= y
  <2>1. SUFFICES ASSUME y < x PROVE FALSE
    OBVIOUS
  <2>2. 1..y \subseteq 1..x /\ x \in 1..x /\ x \notin 1..y
    BY <2>1
  <2>3. 1..y \in Below /\ 1..y \in SUBSET Nat /\ 1..x \in SUBSET Nat
    OBVIOUS
  <2>4. <<1..y, b>> \notin StrictSubsetOrdering(Nat)
    BY <2>3, <1>3
  <2>5. 1..y # 1..x
    BY <2>2
  <2> HIDE DEF Below
  <2> QED
    BY <2>2, <2>3, <2>4, <2>5, <1>4 DEF StrictSubsetOrdering
<1> QED
  BY <1>5

(* The last position is one of them.                                       *)
LEMMA MaxIsIn ==
  ASSUME NEW n \in Nat, NEW T \in SUBSET (1..n), T # {}
  PROVE  Max(T) \in T
<1> DEFINE M == {n - x : x \in T}
<1>1. M # {} /\ \A m \in M : m \in Nat
  <2>1. \A x \in T : x \in 1..n /\ n - x \in M
    OBVIOUS
  <2>2. \A x \in 1..n : n - x \in Nat
    OBVIOUS
  <2> QED
    BY <2>1, <2>2
<1>2. PICK m \in M : \A y \in M : m <= y
  <2> HIDE DEF M
  <2>1. M \in SUBSET Nat
    BY <1>1
  <2> QED BY <1>1, <2>1, Smallest
<1>3. PICK x \in T : m = n - x
  OBVIOUS
<1>4. \A y \in T : n - y \in M /\ y \in Int
  OBVIOUS
<1>5. \A y \in T : n - x <= n - y
  BY <1>2, <1>3, <1>4
<1> HIDE DEF M
<1>6. \A y \in T : x >= y
  BY <1>5, <1>4
<1> QED BY <1>6 DEF Max

(* FirstOf picks the first slot, if there is one.                          *)
LEMMA FirstIsIn ==
  ASSUME NEW n \in Nat, NEW T \in SUBSET (1..n)
  PROVE  /\ T = {} <=> FirstOf(T) = 0
         /\ T # {} => FirstOf(T) \in T /\ \A y \in T : FirstOf(T) <= y
<1>1. CASE T = {}
  BY <1>1 DEF FirstOf
<1>2. CASE T # {}
  <2>1. PICK x \in T : \A y \in T : x <= y
    BY <1>2, Smallest
  <2>2. Min(T) \in T /\ \A y \in T : Min(T) <= y
    BY <2>1 DEF Min
  <2> QED
    BY <1>2, <2>2 DEF FirstOf
<1> QED
  BY <1>1, <1>2

-----------------------------------------------------------------------------
(* What is known of the package and of the bus.                            *)
PackageInv ==
    /\ pkg.entries \in Seq(Entry)
    /\ \A f \in DOMAIN pkg.sum : pkg.sum[f] # NoItem.value

Nodes == {"rw", "ro", "none"}

BusInv ==
    /\ \E n \in Nat : DOMAIN bus = 1..n
    /\ \A s \in DOMAIN bus : bus[s].node \in Nodes
    /\ DOMAIN asked = DOMAIN bus

(* What ProcessInit notes of a package.                                    *)
Noted ==
    [list |-> UfileList(pkg), partition |-> PartitionPath(pkg),
     nprg |-> Programmer(pkg, "NPRG"), enprg |-> Programmer(pkg, "ENPRG"),
     firehose |-> pkg.firehose # NoDir]

(* With a pair in the list the check is enabled, and a file that passes it *)
(* is listed: the empty item has the sum of no file.                       *)
LEMMA CheckedIsListed ==
  ASSUME PackageInv, NEW k \in DOMAIN pkg.md5, pkg.md5[k].kind = "pair",
         NEW file, Checked(pkg, file)
  PROVE  Listed(file)
<1>1. [name |-> pkg.md5[k].name, value |-> pkg.md5[k].value] \in Md5Vec(pkg)
  BY DEF Md5Vec, ParseMd5File, Pairs
<1>2. Exists(pkg, file) /\ LookupItem(Md5Vec(pkg), file, pkg.sum[file])
  BY <1>1 DEF Checked, Md5CheckEnable, CheckFileMd5Value
<1>3. PICK item \in Md5Vec(pkg) :
           /\ item.name \in {"", file} \/ <<file, item.name>> \in Within
           /\ item.value = pkg.sum[file]
  BY <1>2 DEF LookupItem
<1>4. item # NoItem
  BY <1>2, <1>3 DEF PackageInv, Exists
<1>5. PICK j \in Pairs(pkg.md5) :
           item = [name |-> pkg.md5[j].name, value |-> pkg.md5[j].value]
  BY <1>3, <1>4 DEF Md5Vec, ParseMd5File
<1> QED
  BY <1>2, <1>3, <1>5 DEF Listed, Pairs

(* The positions of a list are those of the elements that are whole.       *)
LEMMA ListIsWhole ==
  ASSUME PackageInv
  PROVE  /\ DOMAIN UfileList(pkg) = {k \in DOMAIN pkg.entries : Whole(pkg.entries[k])}
         /\ \A k \in DOMAIN UfileList(pkg) : UfileList(pkg)[k] = pkg.entries[k]
BY DEF UfileList

(* The elements of the XML file come in a row.                             *)
LEMMA EntriesAreNumbered == PackageInv => \E n \in Nat : DOMAIN pkg.entries = 1..n
BY DEF PackageInv

(* The partition table's image is one of the list.                         *)
LEMMA PartitionIsListed ==
  ASSUME PackageInv, PartitionPath(pkg) # ""
  PROVE  \E k \in DOMAIN UfileList(pkg) : PartitionPath(pkg) = UfileList(pkg)[k].img_name
<1> DEFINE mibib == {k \in DOMAIN UfileList(pkg) : UfileList(pkg)[k].name = MIBIB}
<1>1. mibib # {} /\ PartitionPath(pkg) = UfileList(pkg)[Max(mibib)].img_name
  BY DEF PartitionPath
<1>2. PICK n \in Nat : DOMAIN pkg.entries = 1..n
  BY EntriesAreNumbered, Zenon
<1>3. mibib \in SUBSET (1..n)
  BY <1>2, ListIsWhole
<1>4. Max(mibib) \in mibib
  <2> HIDE DEF mibib
  <2> QED BY <1>1, <1>3, MaxIsIn
<1> QED
  BY <1>1, <1>4

(* What an accepted package says of the files a flow reads.                *)
LEMMA ReadIsListed ==
  ASSUME PackageInv, ImageRead(pkg), ctx = Noted,
         NEW k \in DOMAIN pkg.md5, pkg.md5[k].kind = "pair"
  PROVE  \A file \in FilesUsed : Listed(file)
<1>1. /\ Checked(pkg, "contents") /\ Checked(pkg, "nand")
      /\ Checked(pkg, ctx.nprg) /\ Checked(pkg, ctx.enprg)
  BY DEF ImageRead, ContentsRead, PartitionsRead, ProgrammersRead, Noted
<1>2. \A j \in DOMAIN ctx.list : Checked(pkg, ctx.list[j].img_name)
  BY ListIsWhole DEF ImageRead, PartitionsRead, ImagesChecked, Noted, Whole, Tags
<1>3. ctx.partition # "" => Checked(pkg, ctx.partition)
  BY <1>2, PartitionIsListed DEF Noted
<1> QED
  BY <1>1, <1>2, <1>3, CheckedIsListed DEF FilesUsed

-----------------------------------------------------------------------------
(* The value of an option is its default, or what was given with it.       *)
LEMMA LastOfIsGiven ==
  ASSUME NEW args \in ArgLists, NEW opt, NEW default
  PROVE  \/ LastOf(args, opt, default) = default
         \/ \E k \in DOMAIN args : args[k].opt = opt /\ LastOf(args, opt, default) = args[k].val
<1> DEFINE of == {k \in DOMAIN args : args[k].opt = opt}
<1>1. CASE of = {}
  BY <1>1 DEF LastOf
<1>2. CASE of # {}
  <2>1. PICK n \in Nat : DOMAIN args = 1..n
    BY ArgsAssumption
  <2>2. of \in SUBSET (1..n)
    BY <2>1
  <2>3. Max(of) \in of
    <3> HIDE DEF of
    <3> QED BY <1>2, <2>2, MaxIsIn
  <2> QED
    BY <1>2, <2>3 DEF LastOf
<1> QED
  BY <1>1, <1>2

(* Only the four methods pass getopt's loop.                               *)
LEMMA MethodIsValid ==
  ASSUME NEW args \in ArgLists, \A k \in DOMAIN args : Valid(args[k])
  PROVE  LastOf(args, "m", 0) \in 0..3
<1>1. CASE LastOf(args, "m", 0) = 0
  BY <1>1
<1>2. CASE \E k \in DOMAIN args : args[k].opt = "m" /\ LastOf(args, "m", 0) = args[k].val
  BY <1>2 DEF Valid
<1> QED
  BY <1>1, <1>2, LastOfIsGiven

(* detect_adb finds a device in fastboot mode.                             *)
LEMMA AdbIsThere ==
  ASSUME BusInv, DetectAdb(bus, root)
  PROVE  /\ AdbSlot(bus) \in DOMAIN bus
         /\ bus[AdbSlot(bus)].kind = "fastboot"
         /\ root \/ bus[AdbSlot(bus)].node # "none"
<1> DEFINE T == {s \in DOMAIN bus : bus[s].kind = "fastboot"}
<1>1. PICK n \in Nat : DOMAIN bus = 1..n
  BY DEF BusInv
<1>2. T \in SUBSET (1..n) /\ AdbSlot(bus) = FirstOf(T)
  BY <1>1 DEF AdbSlot
<1>3. AdbSlot(bus) \in T
  <2> HIDE DEF T
  <2> QED BY <1>2, FirstIsIn DEF DetectAdb
<1> QED
  BY <1>3 DEF DetectAdb

(* usb_open takes the first device with the interface of fastboot and a    *)
(* node that can be written.                                               *)
LEMMA UsbOpenIsFirst ==
  ASSUME BusInv
  PROVE  /\ UsbOpen(bus) # 0 =>
                /\ UsbOpen(bus) \in DOMAIN bus
                /\ bus[UsbOpen(bus)].kind \in {"fastboot", "phone"}
                /\ bus[UsbOpen(bus)].node = "rw"
         /\ \A s \in DOMAIN bus : bus[s].kind = "fastboot" /\ bus[s].node = "rw" =>
                UsbOpen(bus) # 0 /\ UsbOpen(bus) <= s
<1> DEFINE T == {s \in DOMAIN bus : FilterUsbDevice(bus[s]) /\ bus[s].node = "rw"}
<1>1. PICK n \in Nat : DOMAIN bus = 1..n
  BY DEF BusInv
<1>2. T \in SUBSET (1..n) /\ UsbOpen(bus) = FirstOf(T)
  BY <1>1 DEF UsbOpen
<1>3. /\ T = {} <=> UsbOpen(bus) = 0
      /\ T # {} => UsbOpen(bus) \in T /\ \A s \in T : UsbOpen(bus) <= s
  <2> HIDE DEF T
  <2>1. /\ T = {} <=> FirstOf(T) = 0
        /\ T # {} => FirstOf(T) \in T /\ \A s \in T : FirstOf(T) <= s
    BY <1>2, FirstIsIn
  <2> QED BY <1>2, <2>1
<1>4. \A s \in DOMAIN bus : FilterUsbDevice(bus[s]) => bus[s].kind \in {"fastboot", "phone"}
  BY DEF FilterUsbDevice, ClassesOf, MatchFastboot
<1>5. \A s \in DOMAIN bus : bus[s].kind = "fastboot" => FilterUsbDevice(bus[s])
  BY DEF FilterUsbDevice, ClassesOf, MatchFastboot, VendorOf, FastbootVendors
<1> QED
  BY <1>3, <1>4, <1>5

-----------------------------------------------------------------------------
(* The inductive invariant. *)

(* Which method has which part of the flow.                                *)
MethodInv ==
    /\ method \in 0..3
    /\ pc = "adb" => method = 0
    /\ pc \in {"open", "talk"} => method \in {0, 1}
    /\ pc \in {"gone", "back", "reopen"} => method \in {0, 1, 3}
    /\ pc = "modem" => method = 2
    /\ pc \in {"waitadb", "flash"} => method \in {0, 2}
    /\ pc \in {"emergency", "switch", "child"} => method = 3

Loaded == InFlow \/ pc \in {"emergency", "switch", "child"}

(* A flow starts with a package that was accepted, and with what was noted *)
(* of it; the package is read only once.                                   *)
CtxInv == Loaded => ImageRead(pkg) /\ ctx = Noted

(* Every image that is not left any more has been there for a child, and   *)
(* that child has opened a device.                                         *)
FlashInv ==
    LET all == ForFastboot(ctx.list) IN
    /\ pc = "waitadb" => left = all
    /\ pc = "flash" =>
          /\ left \subseteq all
          /\ all # left => touched # {}
          /\ \A k \in all \ left : Exists(pkg, ctx.list[k].img_name)

(* result is 1 from the choice of the method on, but at the end it is only *)
(* where the flow has done its work.                                       *)
EarnedInv ==
    /\ pc = "post" /\ result = 1 => Earned
    /\ outcome = "success" => pc = "exit"
    /\ SuccessIsWhole

(* No device in fastboot mode, and no phone, that a child could take for   *)
(* the module.                                                             *)
Calm ==
    /\ \A s \in DOMAIN bus : bus[s].kind = "fastboot" =>
                                s = ready.slot /\ (root \/ bus[s].node # "ro")
    /\ \A s \in DOMAIN bus : bus[s].kind = "phone" => s > ready.slot

(* While nothing moves by itself: a device that is asked to restart is a   *)
(* module that answers, or has gone; children find the device in fastboot     *)
(* mode that detect_adb has found; and what they have opened is the        *)
(* module, unless there is another one to be taken for it.                 *)
ChildInv ==
    /\ touched # {} => pc \in {"flash", "post", "exit", "waits"}
    /\ moves = 0 =>
          /\ \A s \in DOMAIN bus : asked[s] # NotAsked => Quectel(bus[s]) \/ Away(s)
          /\ pc = "flash" =>
                \E s \in DOMAIN bus : /\ bus[s].kind = "fastboot"
                                      /\ bus[s].node # "none"
                                      /\ root => bus[s].node = "rw"
          /\ Calm => touched \subseteq {ready.slot}

(* The port number. Everything here is about runs in which os_ready has    *)
(* resolved it and nothing has moved by itself.                            *)

(* A device that has left, or is away since it was asked to leave, counts. *)
LeftInv ==
    /\ DOMAIN gen = DOMAIN bus
    /\ \A s \in DOMAIN bus : gen[s] \in Nat
    /\ \A s \in DOMAIN bus : asked[s] # NotAsked /\ Away(s) => gen[s] > 0

(* No number belongs to two devices.                                       *)
Plugged(b) ==
    /\ \A s \in DOMAIN b : b[s] \in Device
    /\ \A r \in DOMAIN b : \A s \in DOMAIN b \ {r} : PortsOf(b[r]) \cap PortsOf(b[s]) = {}

(* Up to os_ready the bus is what it was at the start.                     *)
StartInv ==
    pc \in {"options", "ready"} =>
        /\ ready = NotReady
        /\ \A s \in DOMAIN bus : asked[s] = NotAsked
        /\ moves = 0 => Plugged(bus)

(* Ports are closed before anything is waited for.                         *)
HandleInv == pc \notin {"talk", "switch", "child", "post", "waits"} => hCom = Closed

(* No device but the module has gone, and they have the lower numbers.     *)
Others == DOMAIN bus \ {ready.slot}
Quiet == \A s \in Others : gen[s] = 0
LowerTaken == \A p \in 0..(default_port - 1) : \E s \in Others : p \in PortsOf(bus[s])

(* From here on a port may be opened.                                      *)
Opening == {"load", "adb", "open", "talk", "gone", "back", "reopen"}

(* What is open is the module's, if it has the module's number; and has    *)
(* gone, if the module has.                                                *)
OwnHandle ==
    pc = "talk" /\ hCom.port = default_port /\ Quiet =>
        /\ hCom.slot = ready.slot
        /\ hCom.gen \in Nat /\ hCom.gen <= gen[ready.slot]
        /\ Away(ready.slot) => hCom.gen < gen[ready.slot]

(* The module has its number again, unless it has left while its old port  *)
(* was open, which then is of no more use.                                 *)
OwnNumber ==
    /\ pc \in Opening /\ Quiet /\ LowerTaken
    /\ Quectel(bus[ready.slot]) /\ bus[ready.slot].tty[0] # NoName
    => \/ bus[ready.slot].tty[0] = default_port
       \/ pc = "talk" /\ hCom # Closed /\ gen[hCom.slot] # hCom.gen

NumberInv ==
    moves = 0 /\ ready.by = "port" =>
        /\ method \in {0, 1}
        /\ ready.slot \in DOMAIN bus
        /\ default_port \in 0..99 /\ default_port \in 0..MaxPort
        /\ \A s \in Others : gen[s] = 0 => default_port \notin PortsOf(bus[s])
        /\ Away(ready.slot) => PortsOf(bus[ready.slot]) = {}
        /\ Quectel(bus[ready.slot]) => 0 \in DOMAIN bus[ready.slot].tty
        /\ OwnHandle
        /\ OwnNumber

IInv ==
    /\ PackageInv /\ BusInv /\ MethodInv /\ CtxInv /\ FlashInv /\ EarnedInv
    /\ moves \in Nat /\ ChildInv
    /\ LeftInv /\ StartInv /\ HandleInv /\ NumberInv

-----------------------------------------------------------------------------
(* Making a node keeps the devices where and what they are.                *)
LEMMA NodesKeep ==
  ASSUME BusInv
  PROVE  LET b == NodesAfterDetect(bus, root) IN
         /\ DOMAIN b = DOMAIN bus
         /\ \A s \in DOMAIN bus : /\ b[s].kind = bus[s].kind /\ b[s].tty = bus[s].tty
                                  /\ b[s].node \in Nodes
                                  /\ s # AdbSlot(bus) => b[s] = bus[s]
         /\ AdbSlot(bus) \in DOMAIN bus /\ root => b[AdbSlot(bus)].node = "rw"
         /\ ~root => b = bus
BY DEF NodesAfterDetect, BusInv, Nodes

(* The program changes nothing in the world but a node of fastboot, and    *)
(* asks nothing of a device that is no module.                             *)
LEMMA HostWorld ==
  ASSUME Host
  PROVE  /\ pkg' = pkg /\ root' = root /\ moves' = moves /\ gen' = gen
         /\ DOMAIN asked' = DOMAIN asked
         /\ \A s \in DOMAIN asked : asked'[s] = asked[s] \/ Quectel(bus[s])
         /\ bus' = bus \/ bus' = NodesAfterDetect(bus, root)
<1> USE DEF worldVars, Goto
<1>1. CASE Options
  BY <1>1 DEF Options
<1>2. CASE ReadyByAdb
  BY <1>2 DEF ReadyByAdb
<1>3. CASE ReadyByDiagPort
  BY <1>3 DEF ReadyByDiagPort
<1>4. CASE ReadyByModemPort
  BY <1>4 DEF ReadyByModemPort
<1>5. CASE Load
  BY <1>5 DEF Load
<1>6. CASE AdbAgain
  BY <1>6 DEF AdbAgain
<1>7. CASE OpenFirst \/ TalkFails \/ AskRestart \/ NormalAgain
  BY <1>7 DEF OpenFirst, TalkFails, AskRestart, NormalAgain, Ask, Live
<1>8. CASE Streamed \/ StreamedToFastboot
  BY <1>8 DEF Streamed, StreamedToFastboot, Ask, Live
<1>9. CASE PollGone \/ PollBack \/ Reopen
  BY <1>9 DEF PollGone, PollBack, Reopen
<1>10. CASE Modem
  BY <1>10 DEF Modem
<1>11. CASE WaitAdb
  BY <1>11 DEF WaitAdb
<1>12. CASE FlashNext \/ FlashNull \/ FlashDone
  BY <1>12 DEF FlashNext, FlashNull, FlashDone
<1>13. CASE Emergency \/ Switch \/ RunFirehose \/ Post
  BY <1>13 DEF Emergency, Switch, Ask, Live, RunFirehose, Post
<1> QED
  BY <1>1, <1>2, <1>3, <1>4, <1>5, <1>6, <1>7, <1>8, <1>9, <1>10, <1>11, <1>12, <1>13 DEF Host

(* Devices that come and go have nodes like others.                        *)
LEMMA DevicesKeepBus ==
  ASSUME BusInv, Leave \/ Return \/ Move
  PROVE  BusInv'
<1>0. DOMAIN asked' = DOMAIN asked
  BY DEF Leave, Return, Move
<1>1. ASSUME NEW s, NEW d, bus' = [bus EXCEPT ![s] = d], d.node \in Nodes
      PROVE  BusInv'
  BY <1>0, <1>1 DEF BusInv
<1>2. Gone.node \in Nodes
  BY DEF Gone, Nodes
<1>3. ASSUME NEW used, NEW kind, NEW bound, NEW node \in Nodes
      PROVE  Attached(used, kind, bound, node).node \in Nodes
  BY DEF Attached
<1>4. CASE Leave
  BY <1>1, <1>2, <1>4 DEF Leave
<1>5. CASE Return
  <2>1. PICK s \in DOMAIN bus, bound \in BOOLEAN, node \in {"rw", "none"} :
            bus' = [bus EXCEPT ![s] = Attached(Used, asked[s], bound, node)]
    BY <1>5 DEF Return
  <2>2. node \in Nodes
    BY DEF Nodes
  <2> QED
    BY <2>1, <2>2, <1>1, <1>3
<1>6. CASE Move
  <2>1. "rw" \in Nodes
    BY DEF Nodes
  <2>2. PICK s \in DOMAIN bus :
            \/ \E k \in Kinds : bus' = [bus EXCEPT ![s] = Attached(Used, k, TRUE, "rw")]
            \/ bus' = [bus EXCEPT ![s] = Gone]
    BY <1>6 DEF Move
  <2> QED
    BY <2>1, <2>2, <1>1, <1>2, <1>3
<1> QED
  BY <1>4, <1>5, <1>6

(* The package stays, and the bus has its slots and nodes.                 *)
LEMMA WorldKeeps ==
  ASSUME PackageInv, BusInv, moves \in Nat, Next
  PROVE  PackageInv' /\ BusInv' /\ moves' \in Nat
<1>1. CASE Host
  <2>1. CASE bus' = bus
    BY <1>1, <2>1, HostWorld DEF PackageInv, BusInv
  <2>2. CASE bus' = NodesAfterDetect(bus, root)
    BY <1>1, <2>2, HostWorld, NodesKeep DEF PackageInv, BusInv
  <2> QED
    BY <1>1, <2>1, <2>2, HostWorld
<1>2. CASE Leave \/ Return \/ Move
  <2>1. pkg' = pkg /\ moves' \in {moves, moves + 1}
    BY <1>2 DEF Leave, Return, Move
  <2> QED
    BY <1>2, <2>1, DevicesKeepBus DEF PackageInv
<1> QED
  BY <1>1, <1>2 DEF Next

-----------------------------------------------------------------------------
(* Each flow keeps to its method.                                          *)
LEMMA MethodStep ==
  ASSUME MethodInv, Next
  PROVE  MethodInv'
<1> USE DEF MethodInv, Goto, Fail, NoDevice, ctxVars
<1>1. CASE Options
  <2>1. CASE UNCHANGED method /\ pc' = "exit"
    BY <2>1
  <2>2. CASE \E args \in ArgLists : /\ \A k \in DOMAIN args : Valid(args[k])
                                    /\ method' = LastOf(args, "m", 0)
                                    /\ pc' = "ready"
    BY <2>2, MethodIsValid
  <2> QED
    BY <1>1, <2>1, <2>2 DEF Options
<1>2. CASE ReadyByAdb \/ ReadyByDiagPort \/ ReadyByModemPort
  BY <1>2 DEF ReadyByAdb, ReadyByDiagPort, ReadyByModemPort
<1>3. CASE Load
  BY <1>3 DEF Load
<1>4. CASE AdbAgain
  BY <1>4 DEF AdbAgain
<1>5. CASE OpenFirst
  BY <1>5 DEF OpenFirst, Open
<1>6. CASE TalkFails \/ AskRestart \/ NormalAgain
  BY <1>6 DEF TalkFails, AskRestart, NormalAgain
<1>7. CASE Streamed \/ StreamedToFastboot
  BY <1>7 DEF Streamed, StreamedToFastboot
<1>8. CASE PollGone
  BY <1>8 DEF PollGone
<1>9. CASE PollBack
  BY <1>9 DEF PollBack
<1>10. CASE Reopen
  BY <1>10 DEF Reopen
<1>11. CASE Modem
  BY <1>11 DEF Modem
<1>12. CASE WaitAdb
  BY <1>12 DEF WaitAdb
<1>13. CASE FlashNext
  BY <1>13 DEF FlashNext
<1>14. CASE FlashNull \/ FlashDone
  BY <1>14 DEF FlashNull, FlashDone
<1>15. CASE Emergency
  BY <1>15 DEF Emergency, Open
<1>16. CASE Switch
  BY <1>16 DEF Switch
<1>17. CASE RunFirehose \/ Post
  BY <1>17 DEF RunFirehose, Post
<1>18. CASE Leave \/ Return \/ Move
  BY <1>18 DEF Leave, Return, Move
<1> QED
  BY <1>1, <1>2, <1>3, <1>4, <1>5, <1>6, <1>7, <1>8, <1>9, <1>10, <1>11, <1>12, <1>13,
     <1>14, <1>15, <1>16, <1>17, <1>18 DEF Next, Host

(* What was noted does not change with the bus.                            *)
LEMMA CtxStep ==
  ASSUME CtxInv, Next
  PROVE  CtxInv'
<1> USE DEF CtxInv, Loaded, InFlow, Goto, Fail, NoDevice, ctxVars, worldVars
<1>1. pkg' = pkg
  BY HostWorld DEF Next, Leave, Return, Move
<1>2. Noted' = Noted /\ (ImageRead(pkg))' = ImageRead(pkg)
  BY <1>1 DEF Noted
<1>3. ASSUME Loaded, ctx' = ctx
      PROVE  CtxInv'
  BY <1>2, <1>3
<1>4. ASSUME ~Loaded'
      PROVE  CtxInv'
  BY <1>4
<1>5. CASE Options \/ ReadyByAdb \/ ReadyByModemPort
  BY <1>4, <1>5 DEF Options, ReadyByAdb, ReadyByModemPort
<1>6. CASE ReadyByDiagPort
  BY <1>4, <1>6 DEF ReadyByDiagPort
<1>7. CASE Load
  <2>1. CASE ImageRead(pkg)
    <3>1. ctx' = Noted
      BY <1>7, <2>1 DEF Load, Noted
    <3> QED
      BY <1>2, <2>1, <3>1
  <2>2. CASE ~ImageRead(pkg)
    BY <1>4, <1>7, <2>2 DEF Load
  <2> QED
    BY <2>1, <2>2
<1>8. CASE AdbAgain \/ OpenFirst \/ TalkFails \/ AskRestart \/ NormalAgain
  BY <1>3, <1>8 DEF AdbAgain, OpenFirst, TalkFails, AskRestart, NormalAgain
<1>9. CASE Streamed \/ StreamedToFastboot \/ PollGone \/ PollBack \/ Reopen
  BY <1>3, <1>9 DEF Streamed, StreamedToFastboot, PollGone, PollBack, Reopen
<1>10. CASE Modem \/ WaitAdb \/ FlashNext \/ FlashNull \/ FlashDone
  BY <1>3, <1>10 DEF Modem, WaitAdb, FlashNext, FlashNull, FlashDone
<1>11. CASE Emergency \/ Switch \/ RunFirehose
  BY <1>3, <1>11 DEF Emergency, Switch, RunFirehose
<1>12. CASE Post
  BY <1>4, <1>12 DEF Post
<1>13. CASE Leave \/ Return \/ Move
  BY <1>2, <1>13 DEF Leave, Return, Move
<1> QED
  BY <1>5, <1>6, <1>7, <1>8, <1>9, <1>10, <1>11, <1>12, <1>13 DEF Next, Host

(* An image is taken from those that are left when a child, for which it   *)
(* was there, has opened a device.                                         *)
LEMMA FlashStep ==
  ASSUME FlashInv, Next
  PROVE  FlashInv'
<1> USE DEF FlashInv, Goto, Fail, NoDevice, ctxVars, worldVars, flowVars
<1>1. pkg' = pkg
  BY HostWorld DEF Next, Leave, Return, Move
<1>2. \A file : (Exists(pkg, file))' <=> Exists(pkg, file)
  BY <1>1 DEF Exists
<1>3. ASSUME pc' \notin {"waitadb", "flash"}
      PROVE  FlashInv'
  BY <1>3
<1>4. CASE Options \/ ReadyByAdb \/ ReadyByDiagPort \/ ReadyByModemPort
  BY <1>3, <1>4 DEF Options, ReadyByAdb, ReadyByDiagPort, ReadyByModemPort
<1>5. CASE Load
  BY <1>3, <1>5 DEF Load
<1>6. CASE AdbAgain
  BY <1>6 DEF AdbAgain
<1>7. CASE OpenFirst
  BY <1>3, <1>7 DEF OpenFirst, Open
<1>8. CASE TalkFails \/ AskRestart \/ NormalAgain \/ Streamed
  BY <1>3, <1>8 DEF TalkFails, AskRestart, NormalAgain, Streamed
<1>9. CASE StreamedToFastboot
  BY <1>9 DEF StreamedToFastboot
<1>10. CASE PollGone \/ PollBack \/ Reopen
  BY <1>3, <1>10 DEF PollGone, PollBack, Reopen
<1>11. CASE Modem
  BY <1>11 DEF Modem
<1>12. CASE WaitAdb
  BY <1>2, <1>12 DEF WaitAdb
<1>13. CASE FlashNext
  <2>1. PICK k \in left :
            \/ pc' \in {"post", "waits"}
            \/ /\ Exists(pkg, ctx.list[k].img_name)
               /\ touched' = touched \cup {UsbOpen(bus)}
               /\ left' = left \ {k}
               /\ pc' = pc
    BY <1>13 DEF FlashNext
  <2>2. pc = "flash" /\ ctx' = ctx
    BY <1>13 DEF FlashNext
  <2>3. CASE pc' \in {"post", "waits"}
    BY <1>3, <2>3
  <2>4. CASE /\ Exists(pkg, ctx.list[k].img_name)
             /\ touched' = touched \cup {UsbOpen(bus)}
             /\ left' = left \ {k}
             /\ pc' = pc
    <3> DEFINE all == ForFastboot(ctx.list)
    <3>1. all' = all
      BY <2>2
    <3>2. left' \subseteq all /\ touched' # {}
      BY <2>2, <2>4
    <3>3. \A j \in all \ left' : Exists(pkg, ctx.list[j].img_name)
      BY <2>2, <2>4
    <3> QED
      BY <1>2, <2>2, <2>4, <3>1, <3>2, <3>3
  <2> QED
    BY <2>1, <2>3, <2>4
<1>14. CASE FlashNull \/ FlashDone
  BY <1>3, <1>14 DEF FlashNull, FlashDone
<1>15. CASE Emergency
  BY <1>3, <1>15 DEF Emergency, Open
<1>16. CASE Switch \/ RunFirehose \/ Post
  BY <1>3, <1>16 DEF Switch, RunFirehose, Post
<1>17. CASE Leave \/ Return \/ Move
  BY <1>2, <1>17 DEF Leave, Return, Move
<1> QED
  BY <1>4, <1>5, <1>6, <1>7, <1>8, <1>9, <1>10, <1>11, <1>12, <1>13, <1>14, <1>15, <1>16,
     <1>17 DEF Next, Host

-----------------------------------------------------------------------------
(* The directory of an accepted package has both programmers.              *)
LEMMA ProgrammersAreThere ==
  ASSUME ImageRead(pkg)
  PROVE  \A prefix \in {"NPRG", "ENPRG"} : \E k \in DOMAIN pkg.dir : pkg.dir[k].prefix = prefix
<1>1. \A prefix : Programmer(pkg, prefix) # "" =>
         \E k \in DOMAIN pkg.dir : pkg.dir[k].prefix = prefix
  BY DEF Programmer
<1>2. Programmer(pkg, "NPRG") # "" /\ Programmer(pkg, "ENPRG") # ""
  BY DEF ImageRead, ProgrammersRead
<1> QED
  BY <1>1, <1>2

(* The images of the file are those of the list that was noted.            *)
LEMMA ImagesAreNoted ==
  ASSUME PackageInv, ctx = Noted, NEW names
  PROVE  ImagesBut(names) =
            {ctx.list[k].img_name : k \in {k \in DOMAIN ctx.list : ctx.list[k].name \notin names}}
<1>1. /\ DOMAIN ctx.list = {k \in DOMAIN pkg.entries : Whole(pkg.entries[k])}
      /\ \A k \in DOMAIN ctx.list : ctx.list[k] = pkg.entries[k]
  BY ListIsWhole DEF Noted
<1> QED
  BY <1>1 DEF ImagesBut

(* What each method has done when its flow is over.                        *)
LEMMA StreamingEarns ==
  ASSUME PackageInv, ImageRead(pkg), ctx = Noted, method = 1, Readable(ctx.list)
  PROVE  Earned
<1>1. \A f \in ImagesBut({MIBIB}) : Exists(pkg, f) \/ BuiltIn(f)
  BY ImagesAreNoted DEF Readable
<1> QED
  BY <1>1, ProgrammersAreThere DEF Earned

(* For fastboot: no image is left, and some child has opened a device if   *)
(* there were any.                                                         *)
LEMMA FastbootEarns ==
  ASSUME PackageInv, ImageRead(pkg), ctx = Noted, method \in {0, 2},
         ForFastboot(ctx.list) # {} => touched # {},
         \A k \in ForFastboot(ctx.list) : Exists(pkg, ctx.list[k].img_name)
  PROVE  Earned
<1>1. ImagesBut(SaharaStage \cup {MIBIB}) = {ctx.list[k].img_name : k \in ForFastboot(ctx.list)}
  BY ImagesAreNoted DEF ForFastboot
<1> QED
  BY <1>1, ProgrammersAreThere DEF Earned

(* For firehose: a firehose directory is only accepted with its four files.*)
LEMMA FirehoseEarns ==
  ASSUME ImageRead(pkg), ctx = Noted, method = 3, unstarted \/ ctx.firehose
  PROVE  Earned
<1>1. unstarted \/ (pkg.firehose # NoDir /\ FirehoseRead(pkg))
  BY DEF Noted, ImageRead
<1> QED
  BY <1>1, ProgrammersAreThere DEF Earned

(* Only the last step of a flow leaves a result of 1 behind, and only that *)
(* is reported as success.                                                 *)
LEMMA EarnedStep ==
  ASSUME PackageInv, MethodInv, CtxInv, FlashInv, EarnedInv, Next
  PROVE  EarnedInv'
<1> USE DEF EarnedInv, SuccessIsWhole, Goto, Fail, NoDevice, ctxVars, worldVars, flowVars
<1>1. pkg' = pkg
  BY HostWorld DEF Next, Leave, Return, Move
<1>2. ASSUME method' = method, touched' = touched, unstarted' = unstarted
      PROVE  Earned' = Earned
  BY <1>1, <1>2 DEF Earned, ImagesBut, Exists
<1>3. ASSUME pc # "exit", outcome' = outcome,
             ~(pc' = "post" /\ result' = 1)
      PROVE  EarnedInv'
  BY <1>3
<1>4. CASE Options \/ ReadyByAdb \/ ReadyByModemPort
  BY <1>3, <1>4 DEF Options, ReadyByAdb, ReadyByModemPort
<1>5. CASE ReadyByDiagPort
  BY <1>3, <1>5 DEF ReadyByDiagPort
<1>6. CASE Load
  BY <1>3, <1>6 DEF Load, MethodInv
<1>7. CASE AdbAgain \/ TalkFails \/ AskRestart \/ NormalAgain
  BY <1>3, <1>7 DEF AdbAgain, TalkFails, AskRestart, NormalAgain
<1>8. CASE OpenFirst \/ Emergency
  BY <1>3, <1>8 DEF OpenFirst, Emergency, Open
<1>9. CASE Streamed
  <2>1. ImageRead(pkg) /\ ctx = Noted
    BY <1>9 DEF Streamed, CtxInv, Loaded, InFlow
  <2>2. Earned
    BY <1>9, <2>1, StreamingEarns DEF Streamed
  <2>3. pc = "talk" /\ outcome' = outcome /\ UNCHANGED <<method, touched, unstarted>>
    BY <1>9 DEF Streamed
  <2> QED
    BY <1>2, <2>2, <2>3
<1>10. CASE StreamedToFastboot \/ PollGone \/ PollBack \/ Reopen
  BY <1>3, <1>10 DEF StreamedToFastboot, PollGone, PollBack, Reopen
<1>11. CASE Modem \/ WaitAdb
  BY <1>3, <1>11 DEF Modem, WaitAdb
<1>12. CASE FlashNext
  BY <1>3, <1>12 DEF FlashNext
<1>13. CASE FlashNull
  BY <1>3, <1>13 DEF FlashNull
<1>14. CASE FlashDone
  <2>1. /\ pc = "flash" /\ left = {} /\ outcome' = outcome /\ pc' \in {"post", "waits"}
        /\ UNCHANGED <<ctx, method, unstarted>> /\ touched \subseteq touched'
    BY <1>14 DEF FlashDone
  <2>2. ImageRead(pkg) /\ ctx = Noted /\ method \in {0, 2}
    BY <2>1 DEF CtxInv, Loaded, InFlow, MethodInv
  <2>3. /\ ForFastboot(ctx.list) # {} => touched # {}
        /\ \A k \in ForFastboot(ctx.list) : Exists(pkg, ctx.list[k].img_name)
    BY <2>1 DEF FlashInv
  <2>4. Earned
    BY <2>2, <2>3, FastbootEarns
  <2>5. Earned'
    BY <1>1, <2>1, <2>4 DEF Earned, ImagesBut, Exists
  <2> QED
    BY <2>1, <2>5
<1>15. CASE Switch
  BY <1>3, <1>15 DEF Switch
<1>16. CASE RunFirehose
  <2>1. pc = "child" /\ UNCHANGED <<pkg, ctx, outcome, method, touched>>
    BY <1>16 DEF RunFirehose
  <2>2. ImageRead(pkg) /\ ctx = Noted /\ method = 3
    BY <2>1 DEF CtxInv, Loaded, InFlow, MethodInv
  <2>3. CASE pc' = "waits" \/ result' = 0
    BY <1>3, <2>1, <2>3
  <2>4. CASE unstarted'
    <3>1. Earned'
      BY <1>1, <2>1, <2>2, <2>4, ProgrammersAreThere DEF Earned
    <3> QED
      BY <2>1, <3>1
  <2>5. CASE ctx.firehose /\ UNCHANGED unstarted
    BY <1>2, <2>1, <2>2, <2>5, FirehoseEarns
  <2> QED
    BY <1>16, <2>3, <2>4, <2>5 DEF RunFirehose
<1>17. CASE Post
  <2>1. /\ pc = "post" /\ pc' = "exit"
        /\ outcome' = IF result = 1 THEN "success" ELSE "failure"
        /\ UNCHANGED <<method, touched, unstarted>>
    BY <1>17 DEF Post
  <2> QED
    BY <1>2, <2>1
<1>18. CASE Leave \/ Return \/ Move
  <2>1. /\ pc' = pc /\ result' = result /\ outcome' = outcome
        /\ UNCHANGED <<method, touched, unstarted>>
    BY <1>18 DEF Leave, Return, Move
  <2> QED
    BY <1>2, <2>1
<1> QED
  BY <1>4, <1>5, <1>6, <1>7, <1>8, <1>9, <1>10, <1>11, <1>12, <1>13, <1>14, <1>15, <1>16,
     <1>17, <1>18 DEF Next, Host

-----------------------------------------------------------------------------
(* What a child opens is the module when nothing else can be taken for it: *)
(* the device that detect_adb found is there, and can be written.          *)
LEMMA ChildOpensModule ==
  ASSUME BusInv, Calm, UsbOpen(bus) # 0,
         NEW s \in DOMAIN bus,
         bus[s].kind = "fastboot", bus[s].node # "none", root => bus[s].node = "rw"
  PROVE  UsbOpen(bus) = ready.slot
<1>1. s = ready.slot /\ bus[s].node = "rw"
  BY DEF Calm, BusInv, Nodes
<1>2. /\ UsbOpen(bus) \in DOMAIN bus
      /\ bus[UsbOpen(bus)].kind \in {"fastboot", "phone"}
      /\ UsbOpen(bus) <= s
  BY <1>1, UsbOpenIsFirst
<1>3. CASE bus[UsbOpen(bus)].kind = "fastboot"
  BY <1>2, <1>3 DEF Calm
<1>4. CASE bus[UsbOpen(bus)].kind = "phone"
  <2>1. PICK n \in Nat : DOMAIN bus = 1..n
    BY DEF BusInv
  <2>2. UsbOpen(bus) <= ready.slot /\ ready.slot \in Nat /\ UsbOpen(bus) \in Nat
    BY <1>1, <1>2, <2>1
  <2> QED
    BY <1>2, <1>4, <2>2 DEF Calm
<1> QED
  BY <1>2, <1>3, <1>4

(* The steps before a child runs.                                          *)
LEMMA NoChildYet ==
  ASSUME BusInv, ChildInv, moves' = moves, pc \notin {"flash", "post", "exit", "waits"},
         root' = root, touched' = touched,
         bus' = bus \/ bus' = NodesAfterDetect(bus, root),
         DOMAIN asked' = DOMAIN asked,
         \A s \in DOMAIN bus : asked'[s] = asked[s] \/ Quectel(bus[s]),
         pc' = "flash" => DetectAdb(bus, root) /\ bus' = NodesAfterDetect(bus, root)
  PROVE  ChildInv'
<1>1. touched = {}
  BY DEF ChildInv
<1>2. /\ DOMAIN bus' = DOMAIN bus
      /\ \A s \in DOMAIN bus : bus'[s].kind = bus[s].kind
  BY NodesKeep
<1>3. ASSUME moves' = 0, NEW s \in DOMAIN bus', asked'[s] # NotAsked
      PROVE  (Quectel(bus[s]) \/ Away(s))'
  BY <1>2, <1>3 DEF ChildInv, Quectel, Away
<1>4. ASSUME pc' = "flash"
      PROVE  \E s \in DOMAIN bus' : /\ bus'[s].kind = "fastboot"
                                    /\ bus'[s].node # "none"
                                    /\ root' => bus'[s].node = "rw"
  <2> DEFINE s == AdbSlot(bus)
  <2>1. /\ s \in DOMAIN bus /\ bus[s].kind = "fastboot"
        /\ root \/ bus[s].node # "none"
    BY <1>4, AdbIsThere
  <2>2. /\ root => bus'[s].node = "rw"
        /\ ~root => bus' = bus
    BY <1>4, <2>1, NodesKeep
  <2> QED
    BY <1>2, <2>1, <2>2
<1> QED
  BY <1>1, <1>3, <1>4 DEF ChildInv

(* A step that leaves the world alone, with no child or with one more.     *)
LEMMA ChildRuns ==
  ASSUME BusInv, ChildInv, UNCHANGED <<worldVars, ready>>,
         pc \in {"flash", "post"}, pc' \in {"flash", "post", "exit", "waits"},
         pc' = "flash" => pc = "flash",
         \/ touched' = touched
         \/ pc = "flash" /\ UsbOpen(bus) # 0 /\ touched' = touched \cup {UsbOpen(bus)}
  PROVE  ChildInv'
<1> USE DEF worldVars
<1>1. Calm' = Calm
  BY DEF Calm
<1>2. ASSUME moves = 0, Calm
      PROVE  touched' \subseteq {ready.slot}
  BY <1>2, ChildOpensModule DEF ChildInv
<1> QED
  BY <1>1, <1>2 DEF ChildInv, Quectel, Away

(* The module leaves and comes back while a child may be at work: it was   *)
(* in another mode than fastboot, so that neither a device in fastboot     *)
(* mode nor a phone goes.                                                  *)
LEMMA ModuleRestarts ==
  ASSUME BusInv, ChildInv, Leave \/ Return
  PROVE  ChildInv'
<1>1. /\ moves' = moves /\ root' = root /\ touched' = touched /\ pc' = pc /\ ready' = ready
      /\ DOMAIN bus' = DOMAIN bus
  BY DEF Leave, Return, ctxVars, flowVars
<1>2. SUFFICES ASSUME moves = 0
               PROVE  /\ \A s \in DOMAIN bus : (asked[s] # NotAsked => Quectel(bus[s]) \/ Away(s))'
                      /\ pc = "flash" =>
                            \E s \in DOMAIN bus : /\ bus'[s].kind = "fastboot"
                                                  /\ bus'[s].node # "none"
                                                  /\ root => bus'[s].node = "rw"
                      /\ Calm' => touched \subseteq {ready.slot}
  BY <1>1 DEF ChildInv
<1>3. PICK m \in DOMAIN bus :
        /\ asked[m] # NotAsked
        /\ \A s \in DOMAIN bus : s # m => bus'[s] = bus[s] /\ asked'[s] = asked[s]
        /\ Away(m)' \/ asked'[m] = NotAsked
  <2>1. CASE Leave
    BY <2>1 DEF Leave, Away, Gone
  <2>2. CASE Return
    BY <2>2 DEF Return, BusInv
  <2> QED
    BY <2>1, <2>2
<1>4. \A s \in DOMAIN bus : bus[s].kind \in {"fastboot", "phone"} => bus'[s] = bus[s]
  BY <1>2, <1>3 DEF ChildInv, Quectel, Away
<1>5. \A s \in DOMAIN bus : (asked[s] # NotAsked => Quectel(bus[s]) \/ Away(s))'
  BY <1>1, <1>2, <1>3 DEF ChildInv, Quectel, Away
<1>6. Calm' => Calm
  BY <1>1, <1>4 DEF Calm
<1> QED
  BY <1>2, <1>4, <1>5, <1>6 DEF ChildInv

(* Every step keeps what is known of the children.                         *)
LEMMA ChildStep ==
  ASSUME BusInv, ChildInv, moves \in Nat, Next
  PROVE  ChildInv'
<1> USE DEF Goto, Fail, NoDevice, ctxVars, worldVars, flowVars
<1>2. ASSUME pc \notin {"flash", "post", "exit", "waits"}, pc' # "flash", asked' = asked,
             touched' = touched, Host
      PROVE  ChildInv'
  BY <1>2, HostWorld, NoChildYet
<1>3. CASE Options \/ ReadyByAdb \/ ReadyByModemPort
  BY <1>2, <1>3 DEF Options, ReadyByAdb, ReadyByModemPort, Host
<1>4. CASE ReadyByDiagPort
  BY <1>2, <1>4 DEF ReadyByDiagPort, Host
<1>5. CASE Load
  BY <1>2, <1>5 DEF Load, Host
<1>6. CASE AdbAgain
  BY <1>6, NoChildYet DEF AdbAgain
<1>7. CASE OpenFirst \/ Emergency
  BY <1>2, <1>7 DEF OpenFirst, Emergency, Open, Host
<1>8. CASE TalkFails \/ NormalAgain \/ Streamed
  BY <1>2, <1>8 DEF TalkFails, NormalAgain, Streamed, Host
<1>9. CASE AskRestart \/ StreamedToFastboot
  <2>1. /\ DOMAIN asked' = DOMAIN asked
        /\ \A s \in DOMAIN bus : asked'[s] = asked[s] \/ Quectel(bus[s])
    BY <1>9, HostWorld DEF Host, BusInv
  <2>2. /\ pc = "talk" /\ pc' \in {"gone", "waitadb"} /\ touched' = touched
        /\ bus' = bus /\ moves' = moves /\ root' = root
    BY <1>9 DEF AskRestart, StreamedToFastboot
  <2> QED
    BY <2>1, <2>2, NoChildYet
<1>10. CASE PollGone \/ PollBack \/ Reopen
  BY <1>2, <1>10 DEF PollGone, PollBack, Reopen, Host
<1>11. CASE Modem
  <2>1. /\ pc = "modem" /\ pc' \in {"post", "waits", "waitadb"} /\ touched' = touched
        /\ bus' = bus /\ moves' = moves /\ root' = root
    BY <1>11 DEF Modem
  <2>2. /\ DOMAIN asked' = DOMAIN asked
        /\ \A s \in DOMAIN bus : asked'[s] = asked[s] \/ Quectel(bus[s])
    BY <1>11, HostWorld DEF Host, BusInv
  <2> QED
    BY <2>1, <2>2, NoChildYet
<1>12. CASE WaitAdb
  BY <1>12, NoChildYet DEF WaitAdb
<1>13. CASE FlashNext
  <2>1. \/ touched' = touched
        \/ UsbOpen(bus) # 0 /\ touched' = touched \cup {UsbOpen(bus)}
    BY <1>13 DEF FlashNext
  <2>2. pc = "flash" /\ pc' \in {"flash", "post", "waits"} /\ UNCHANGED <<worldVars, ready>>
    BY <1>13 DEF FlashNext
  <2> QED
    BY <2>1, <2>2, ChildRuns
<1>14. CASE FlashNull
  BY <1>14, ChildRuns DEF FlashNull
<1>15. CASE FlashDone
  <2>1. \/ touched' = touched
        \/ UsbOpen(bus) # 0 /\ touched' = touched \cup {UsbOpen(bus)}
    BY <1>15 DEF FlashDone
  <2>2. pc = "flash" /\ pc' \in {"post", "waits"} /\ UNCHANGED <<worldVars, ready>>
    BY <1>15 DEF FlashDone
  <2> QED
    BY <2>1, <2>2, ChildRuns
<1>16. CASE Switch
  <2>1. /\ DOMAIN asked' = DOMAIN asked
        /\ \A s \in DOMAIN bus : asked'[s] = asked[s] \/ Quectel(bus[s])
    BY <1>16, HostWorld DEF Host, BusInv
  <2>2. /\ pc = "switch" /\ pc' \in {"gone", "post"} /\ touched' = touched
        /\ bus' = bus /\ moves' = moves /\ root' = root
    BY <1>16 DEF Switch
  <2> QED
    BY <2>1, <2>2, NoChildYet
<1>17. CASE RunFirehose
  BY <1>2, <1>17 DEF RunFirehose, Host
<1>18. CASE Post
  BY <1>18, ChildRuns DEF Post
<1>19. CASE Leave \/ Return
  BY <1>19, ModuleRestarts
<1>20. CASE Move
  <2>1. moves' = moves + 1 /\ touched' = touched /\ pc' = pc
    BY <1>20 DEF Move
  <2> QED
    BY <2>1 DEF ChildInv
<1> QED
  BY <1>3, <1>4, <1>5, <1>6, <1>7, <1>8, <1>9, <1>10, <1>11, <1>12, <1>13, <1>14, <1>15,
     <1>16, <1>17, <1>18, <1>19, <1>20 DEF Next, Host

-----------------------------------------------------------------------------
(* A number that is free, with none below it free, is the lowest.          *)
LEMMA LowestIsFirst ==
  ASSUME NEW used, NEW p \in 0..MaxPort, p \notin used, \A q \in 0..(p - 1) : q \in used
  PROVE  Lowest(used, 0) = p
<1> DEFINE Free(r) == {q \in 0..r : q \notin used}
           Is(r) == r \in 0..MaxPort /\ r \notin used /\ Cardinality(Free(r)) = 1
<1>1. Free(p) = {p}
  BY PortsAssumption
<1>2. Is(p)
  BY <1>1, FS_Singleton
<1>3. ASSUME NEW r, Is(r)
      PROVE  r = p
  <2>1. r \in Int /\ p \in Int /\ 0 \in Int
    BY <1>3, PortsAssumption
  <2>2. IsFiniteSet(0..r)
    BY <2>1, FS_Interval, Zenon
  <2>3. IsFiniteSet(Free(r))
    BY <2>2, FS_Subset
  <2>4. PICK x : Free(r) = {x}
    <3> HIDE DEF Free
    <3> QED BY <1>3, <2>3, FS_Singleton
  <2>5. ~(r < p)
    BY <1>3, <2>1
  <2>6. r \in Free(r) /\ p \in Free(r)
    BY <1>3, <2>1, <2>5
  <2> QED
    BY <2>4, <2>6
<1>4. Lowest(used, 0) = CHOOSE r : Is(r)
  BY DEF Lowest
<1> HIDE DEF Is
<1> QED
  BY <1>2, <1>3, <1>4

(* A module that comes has interface 0, with the lowest number.            *)
LEMMA ModuleIsNumbered ==
  ASSUME NEW used, NEW kind, NEW bound \in BOOLEAN, NEW node,
         Quectel(Attached(used, kind, bound, node))
  PROVE  /\ 0 \in DOMAIN Attached(used, kind, bound, node).tty
         /\ Attached(used, kind, bound, node).tty[0] \in {Lowest(used, 0), NoName}
<1>1. kind \in {"normal", "old", "edl"}
  BY DEF Quectel, Attached
<1>2. 0 \in IfacesOf(kind) /\ IfacesOf(kind) \subseteq 0..3
  BY <1>1, PortsAssumption DEF IfacesOf
<1>3. {j \in IfacesOf(kind) : j < 0} = {}
  BY <1>2
<1>4. Attached(used, kind, bound, node).tty[0]
        = IF bound THEN Lowest(used, Cardinality({j \in IfacesOf(kind) : j < 0})) ELSE NoName
  BY <1>2 DEF Attached
<1>5. Cardinality({j \in IfacesOf(kind) : j < 0}) = 0
  BY <1>3, FS_EmptySet
<1> QED
  BY <1>2, <1>4, <1>5 DEF Attached

(* A device that is neither has no numbers, once it is there by itself.    *)
LEMMA GoneHasNoNumber ==
  ASSUME NEW used, NEW kind, NEW bound, NEW node
  PROVE  /\ PortsOf(Gone) = {}
         /\ Attached(used, kind, bound, node).kind = "gone" =>
                PortsOf(Attached(used, kind, bound, node)) = {}
<1>1. PortsOf(Gone) = {}
  BY DEF PortsOf, Gone
<1>2. ASSUME kind = "gone"
      PROVE  PortsOf(Attached(used, kind, bound, node)) = {}
  <2>1. IfacesOf(kind) = {}
    BY <1>2 DEF IfacesOf
  <2> QED
    BY <2>1 DEF PortsOf, Attached
<1> QED
  BY <1>1, <1>2 DEF Attached

(* If one device alone has a number, the number leads to it.               *)
LEMMA SlotIsOwner ==
  ASSUME BusInv, NEW port, NEW m \in DOMAIN bus, port \in Ports(bus),
         \A s \in DOMAIN bus \ {m} : port \notin PortsOf(bus[s])
  PROVE  SlotOf(bus, port) = m /\ port \in PortsOf(bus[m])
<1> DEFINE T == {s \in DOMAIN bus : port \in PortsOf(bus[s])}
<1>1. T = {m}
  BY DEF Ports
<1>2. FirstOf(T) = m
  <2>1. PICK n \in Nat : DOMAIN bus = 1..n
    BY DEF BusInv
  <2>2. T \in SUBSET (1..n) /\ T # {}
    BY <1>1, <2>1
  <2>3. FirstOf(T) \in T
    <3> HIDE DEF T
    <3> QED BY <2>2, FirstIsIn
  <2> QED
    BY <1>1, <2>3
<1> QED
  BY <1>1, <1>2 DEF SlotOf

(* openport takes the number it was given, if it is there.                 *)
LEMMA ProbeTakesDefault ==
  ASSUME NEW port \in Nat, port \in Ports(bus)
  PROVE  ProbePort(bus, port) = port
<1> DEFINE P == {p \in port..(port + 5) : p \in Ports(bus)}
<1>1. port \in P /\ \A p \in P : p \in Int /\ port <= p
  OBVIOUS
<1>2. Min(P) = port
  <2> HIDE DEF P
  <2>1. \A x \in P : (\A y \in P : x <= y) => x = port
    BY <1>1
  <2>2. \E x \in P : \A y \in P : x <= y
    BY <1>1
  <2> QED BY <2>1, <2>2 DEF Min
<1> QED
  BY <1>1, <1>2 DEF ProbePort

(* Devices that were asked to leave have counted it.                       *)
LEMMA LeftStep ==
  ASSUME BusInv, LeftInv, Next
  PROVE  LeftInv'
<1>1. CASE Host
  <2>1. /\ gen' = gen /\ DOMAIN bus' = DOMAIN bus
        /\ \A s \in DOMAIN bus : bus'[s].kind = bus[s].kind
    BY <1>1, HostWorld, NodesKeep
  <2>2. \A s \in DOMAIN bus : asked'[s] = asked[s] \/ Quectel(bus[s])
    BY <1>1, HostWorld DEF BusInv
  <2> QED
    BY <2>1, <2>2 DEF LeftInv, Away, Quectel
<1>2. CASE Leave
  BY <1>2 DEF Leave, LeftInv, Away, Gone
<1>3. CASE Return
  <2>1. PICK s \in DOMAIN bus :
           /\ \E d : bus' = [bus EXCEPT ![s] = d]
           /\ asked' = [asked EXCEPT ![s] = NotAsked]
           /\ gen' = gen
    BY <1>3 DEF Return
  <2> QED
    BY <2>1 DEF LeftInv, Away, BusInv
<1>4. CASE Move
  <2>1. asked' = asked
    BY <1>4 DEF Move
  <2>2. PICK s \in DOMAIN bus :
           \/ asked[s] = NotAsked /\ gen' = gen /\ \E d : bus' = [bus EXCEPT ![s] = d]
           \/ gen' = [gen EXCEPT ![s] = @ + 1] /\ bus' = [bus EXCEPT ![s] = Gone]
    BY <1>4 DEF Move
  <2> QED
    BY <2>1, <2>2 DEF LeftInv, Away
<1> QED
  BY <1>1, <1>2, <1>3, <1>4 DEF Next

(* Before os_ready nothing has happened that was not a move.               *)
LEMMA StartStep ==
  ASSUME StartInv, moves \in Nat, Next
  PROVE  StartInv'
<1> USE DEF Goto, Fail, NoDevice, ctxVars, worldVars, flowVars
<1>1. CASE Options
  BY <1>1 DEF Options, StartInv
<1>2. CASE ReadyByAdb \/ ReadyByModemPort
  BY <1>2 DEF ReadyByAdb, ReadyByModemPort, StartInv
<1>3. CASE ReadyByDiagPort
  BY <1>3 DEF ReadyByDiagPort, StartInv
<1>4. CASE Load
  BY <1>4 DEF Load, StartInv
<1>5. CASE AdbAgain \/ OpenFirst \/ TalkFails \/ AskRestart \/ NormalAgain
  BY <1>5 DEF AdbAgain, OpenFirst, Open, TalkFails, AskRestart, NormalAgain, StartInv
<1>6. CASE Streamed \/ StreamedToFastboot \/ PollGone \/ PollBack \/ Reopen
  BY <1>6 DEF Streamed, StreamedToFastboot, PollGone, PollBack, Reopen, StartInv
<1>7. CASE Modem \/ WaitAdb \/ FlashNext \/ FlashNull \/ FlashDone
  BY <1>7 DEF Modem, WaitAdb, FlashNext, FlashNull, FlashDone, StartInv
<1>8. CASE Emergency \/ Switch \/ RunFirehose \/ Post
  BY <1>8 DEF Emergency, Open, Switch, RunFirehose, Post, StartInv
<1>9. CASE Leave \/ Return
  <2>1. pc' = pc /\ \E s \in DOMAIN bus : asked[s] # NotAsked
    BY <1>9 DEF Leave, Return
  <2> QED
    BY <2>1 DEF StartInv
<1>10. CASE Move
  <2>1. /\ pc' = pc /\ ready' = ready /\ asked' = asked /\ moves' = moves + 1
        /\ DOMAIN bus' = DOMAIN bus
    BY <1>10 DEF Move
  <2> QED
    BY <2>1 DEF StartInv
<1> QED
  BY <1>1, <1>2, <1>3, <1>4, <1>5, <1>6, <1>7, <1>8, <1>9, <1>10 DEF Next, Host

(* Every wait begins with the port closed.                                 *)
LEMMA HandleStep ==
  ASSUME HandleInv, Next
  PROVE  HandleInv'
<1> USE DEF Goto, Fail, NoDevice, ctxVars, flowVars
<1>1. CASE Options \/ ReadyByAdb \/ ReadyByModemPort
  BY <1>1 DEF Options, ReadyByAdb, ReadyByModemPort, HandleInv
<1>2. CASE ReadyByDiagPort
  BY <1>2 DEF ReadyByDiagPort, HandleInv
<1>3. CASE Load
  BY <1>3 DEF Load, HandleInv
<1>4. CASE AdbAgain \/ OpenFirst \/ TalkFails \/ AskRestart \/ NormalAgain
  BY <1>4 DEF AdbAgain, OpenFirst, Open, TalkFails, AskRestart, NormalAgain, HandleInv
<1>5. CASE Streamed \/ StreamedToFastboot \/ PollGone \/ PollBack \/ Reopen
  BY <1>5 DEF Streamed, StreamedToFastboot, PollGone, PollBack, Reopen, HandleInv
<1>6. CASE Modem \/ WaitAdb \/ FlashNext \/ FlashNull \/ FlashDone
  BY <1>6 DEF Modem, WaitAdb, FlashNext, FlashNull, FlashDone, HandleInv
<1>7. CASE Emergency \/ Switch \/ RunFirehose \/ Post
  BY <1>7 DEF Emergency, Open, Switch, RunFirehose, Post, HandleInv
<1>8. CASE Leave \/ Return \/ Move
  BY <1>8 DEF Leave, Return, Move, HandleInv
<1> QED
  BY <1>1, <1>2, <1>3, <1>4, <1>5, <1>6, <1>7, <1>8 DEF Next, Host

(* os_ready resolves the number of the module it sees.                     *)
LEMMA PortIsFound ==
  ASSUME BusInv, StartInv, ReadyByDiagPort
  PROVE  NumberInv'
<1>1. SUFFICES ASSUME moves' = 0, ready'.by = "port"
               PROVE  NumberInv'
  BY DEF NumberInv
<1>2. /\ pc = "ready" /\ bus' = bus /\ gen' = gen /\ moves = 0 /\ ready = NotReady
      /\ method' = method /\ method \in {0, 1} /\ Plugged(bus)
  BY <1>1 DEF ReadyByDiagPort, worldVars, StartInv
<1> DEFINE m == TtyusbDevDetect(bus, 0)
           T == {s \in DOMAIN bus : Quectel(bus[s]) /\ 0 \in DOMAIN bus[s].tty}
<1>3. /\ m # 0 /\ ready'.slot = m /\ pc' = "load"
      /\ default_port' = ResolvePort(bus[m].tty[0])
      /\ ResolvePort(bus[m].tty[0]) # NoName
  BY <1>1, <1>2 DEF ReadyByDiagPort, DetectDiagPort, NameOf, NoDevice, Goto, NotReady
<1>4. m \in T
  <2>1. PICK n \in Nat : DOMAIN bus = 1..n
    BY DEF BusInv
  <2>2. T \in SUBSET (1..n) /\ m = FirstOf(T)
    BY <2>1 DEF TtyusbDevDetect
  <2> HIDE DEF T, m
  <2> QED
    BY <2>2, <1>3, FirstIsIn
<1> HIDE DEF m
<1>5. default_port' = bus[m].tty[0] /\ bus[m].tty[0] <= 99
  BY <1>3 DEF ResolvePort, NoName
<1>6. bus[m].tty[0] \in 0..MaxPort
  <2>1. bus[m].tty[0] \in (0..MaxPort) \cup {NoName}
    BY <1>2, <1>4 DEF Plugged, Device
  <2> QED
    BY <2>1, <1>5 DEF NoName
<1>7. default_port' \in 0..99 /\ default_port' \in 0..MaxPort
  BY <1>5, <1>6, PortsAssumption
<1>8. default_port' \in PortsOf(bus[m])
  BY <1>4, <1>5, <1>6 DEF PortsOf, NoName
<1>9. \A s \in DOMAIN bus \ {m} : default_port' \notin PortsOf(bus[s])
  BY <1>2, <1>4, <1>8 DEF Plugged
<1>10. ~Away(m)
  BY <1>4 DEF Away, Quectel
<1> QED
  BY <1>2, <1>3, <1>4, <1>5, <1>7, <1>9, <1>10 DEF NumberInv, Others, OwnHandle, OwnNumber, Away

(* The other steps of the program: a port is opened by its number, which   *)
(* leads to the module; and a port that a flow goes on with answers.       *)
LEMMA NumberKeeps ==
  ASSUME BusInv, NumberInv, moves' = moves, gen' = gen, method' = method, ready' = ready,
         default_port' = default_port, bus' = bus \/ bus' = NodesAfterDetect(bus, root),
         LeftInv,
         pc' \in Opening => pc \in Opening /\ (pc = "talk" => Live),
         pc' = "talk" /\ default_port \in Nat =>
            \/ hCom' = Closed
            \/ bus' = bus /\ \E p \in Ports(bus) : hCom' = Opened(p)
  PROVE  NumberInv'
<1>1. SUFFICES ASSUME moves = 0, ready.by = "port"
               PROVE  NumberInv'
  BY DEF NumberInv
<1>2. /\ DOMAIN bus' = DOMAIN bus
      /\ \A s \in DOMAIN bus : bus'[s].kind = bus[s].kind /\ bus'[s].tty = bus[s].tty
  BY NodesKeep
<1>3. \A s \in DOMAIN bus : PortsOf(bus'[s]) = PortsOf(bus[s])
  BY <1>2 DEF PortsOf
<1>4. /\ method \in {0, 1} /\ ready.slot \in DOMAIN bus
      /\ default_port \in 0..99 /\ default_port \in 0..MaxPort
      /\ \A s \in Others : gen[s] = 0 => default_port \notin PortsOf(bus[s])
      /\ Away(ready.slot) => PortsOf(bus[ready.slot]) = {}
      /\ Quectel(bus[ready.slot]) => 0 \in DOMAIN bus[ready.slot].tty
      /\ OwnNumber
  BY <1>1 DEF NumberInv
<1>5. OwnHandle'
  <2> SUFFICES ASSUME pc' = "talk", hCom'.port = default_port, Quiet
               PROVE  /\ hCom'.slot = ready.slot
                      /\ hCom'.gen \in Nat /\ hCom'.gen <= gen[ready.slot]
                      /\ ~Away(ready.slot)
    BY <1>2, <1>4 DEF OwnHandle, Quiet, Others, Away
  <2>1. hCom' # Closed
    BY <1>4 DEF Closed, NoName
  <2>2. PICK p \in Ports(bus) : hCom' = Opened(p)
    BY <1>4, <2>1
  <2>3. p = default_port
    BY <2>2 DEF Opened
  <2>4. SlotOf(bus, p) = ready.slot /\ p \in PortsOf(bus[ready.slot])
    BY <1>4, <2>3, SlotIsOwner DEF Quiet, Others
  <2>5. gen[ready.slot] \in Nat
    BY <1>4 DEF LeftInv
  <2> QED
    BY <1>4, <2>2, <2>4, <2>5 DEF Opened
<1>6. OwnNumber'
  <2> SUFFICES ASSUME pc' \in Opening, Quiet, LowerTaken, Quectel(bus[ready.slot]),
                      bus[ready.slot].tty[0] # NoName
               PROVE  bus[ready.slot].tty[0] = default_port
    BY <1>2, <1>3, <1>4 DEF OwnNumber, Quiet, LowerTaken, Others, Quectel
  <2>1. pc = "talk" => gen[hCom.slot] = hCom.gen
    BY DEF Live
  <2> QED
    BY <1>4, <2>1 DEF OwnNumber
<1> QED
  BY <1>1, <1>2, <1>3, <1>4, <1>5, <1>6 DEF NumberInv, Others, Away, Quectel

(* A device leaves: the module, or another one, which then has left.       *)
LEMMA LeaveKeepsNumber ==
  ASSUME BusInv, LeftInv, NumberInv, Leave
  PROVE  NumberInv'
<1> USE DEF ctxVars, flowVars
<1>1. SUFFICES ASSUME moves = 0, ready.by = "port"
               PROVE  NumberInv'
  BY DEF NumberInv, Leave
<1>2. PICK d \in DOMAIN bus : /\ bus' = [bus EXCEPT ![d] = Gone]
                              /\ gen' = [gen EXCEPT ![d] = @ + 1]
  BY DEF Leave
<1>3. /\ method' = method /\ ready' = ready /\ default_port' = default_port /\ pc' = pc
      /\ hCom' = hCom
  BY DEF Leave
<1>4. /\ method \in {0, 1} /\ ready.slot \in DOMAIN bus
      /\ default_port \in 0..99 /\ default_port \in 0..MaxPort
      /\ \A s \in Others : gen[s] = 0 => default_port \notin PortsOf(bus[s])
      /\ Away(ready.slot) => PortsOf(bus[ready.slot]) = {}
      /\ Quectel(bus[ready.slot]) => 0 \in DOMAIN bus[ready.slot].tty
      /\ OwnHandle /\ OwnNumber
  BY <1>1 DEF NumberInv
<1>5. /\ DOMAIN gen = DOMAIN bus /\ gen[d] \in Nat /\ gen[ready.slot] \in Nat
      /\ DOMAIN bus' = DOMAIN bus /\ DOMAIN gen' = DOMAIN gen
      /\ bus'[d] = Gone /\ gen'[d] = gen[d] + 1
      /\ \A s \in DOMAIN bus \ {d} : bus'[s] = bus[s] /\ gen'[s] = gen[s]
  BY <1>2, <1>4 DEF LeftInv
<1>6. CASE d = ready.slot
  <2>1. PortsOf(Gone) = {} /\ ~Quectel(Gone) /\ Gone.kind = "gone"
    BY GoneHasNoNumber DEF Gone, Quectel
  <2>2. \A s \in Others : bus'[s] = bus[s] /\ gen'[s] = gen[s]
    BY <1>5, <1>6 DEF Others
  <2>3. OwnHandle'
    BY <1>3, <1>4, <1>5, <1>6, <2>2 DEF OwnHandle, Quiet, Others
  <2>4. OwnNumber'
    BY <1>3, <1>5, <1>6, <2>1 DEF OwnNumber
  <2> QED
    BY <1>3, <1>4, <1>5, <1>6, <2>1, <2>2, <2>3, <2>4 DEF NumberInv, Others
<1>7. CASE d # ready.slot
  <2>1. d \in Others' /\ gen'[d] # 0 /\ ~Quiet'
    BY <1>3, <1>5, <1>7 DEF Others, Quiet
  <2>2. bus'[ready.slot] = bus[ready.slot]
    BY <1>4, <1>5, <1>7
  <2>3. \A s \in Others' : gen'[s] = 0 => s \in Others /\ gen[s] = 0 /\ bus'[s] = bus[s]
    BY <1>3, <1>5, <2>1 DEF Others
  <2> QED
    BY <1>3, <1>4, <1>5, <2>1, <2>2, <2>3 DEF NumberInv, OwnHandle, OwnNumber, Away
<1> QED
  BY <1>6, <1>7

(* The module comes back with its number, unless its old port is open.     *)
LEMMA ReturnKeepsNumber ==
  ASSUME BusInv, LeftInv, HandleInv, NumberInv, Return
  PROVE  NumberInv'
<1> USE DEF ctxVars, flowVars
<1>1. SUFFICES ASSUME moves = 0, ready.by = "port"
               PROVE  NumberInv'
  BY DEF NumberInv, Return
<1>2. PICK d \in DOMAIN bus, bound \in BOOLEAN, node \in {"rw", "none"} :
           /\ asked[d] # NotAsked /\ Away(d)
           /\ bus' = [bus EXCEPT ![d] = Attached(Used, asked[d], bound, node)]
  BY DEF Return
<1> DEFINE new == Attached(Used, asked[d], bound, node)
<1>3. /\ method' = method /\ ready' = ready /\ default_port' = default_port /\ pc' = pc
      /\ hCom' = hCom /\ gen' = gen
  BY DEF Return
<1>4. /\ method \in {0, 1} /\ ready.slot \in DOMAIN bus
      /\ default_port \in 0..99 /\ default_port \in 0..MaxPort
      /\ \A s \in Others : gen[s] = 0 => default_port \notin PortsOf(bus[s])
      /\ Away(ready.slot) => PortsOf(bus[ready.slot]) = {}
      /\ Quectel(bus[ready.slot]) => 0 \in DOMAIN bus[ready.slot].tty
      /\ OwnHandle /\ OwnNumber
  BY <1>1 DEF NumberInv
<1>5. /\ DOMAIN bus' = DOMAIN bus /\ bus'[d] = new
      /\ \A s \in DOMAIN bus \ {d} : bus'[s] = bus[s]
      /\ gen[d] # 0
  BY <1>2 DEF LeftInv
<1>6. CASE d = ready.slot
  <2>1. /\ Quectel(new) => 0 \in DOMAIN new.tty /\ new.tty[0] \in {Lowest(Used, 0), NoName}
        /\ new.kind = "gone" => PortsOf(new) = {}
    BY ModuleIsNumbered, GoneHasNoNumber
  <2>2. \A s \in Others : bus'[s] = bus[s]
    BY <1>5, <1>6 DEF Others
  <2>3. OwnHandle'
    <3>1. OwnHandle /\ Away(ready.slot)
      BY <1>2, <1>4, <1>6
    <3> QED
      BY <3>1, <1>3, <1>5 DEF OwnHandle, Quiet, Others
  <2>4. OwnNumber'
    <3> SUFFICES ASSUME pc \in Opening, Quiet, LowerTaken, Quectel(new), new.tty[0] # NoName
                 PROVE  \/ new.tty[0] = default_port
                        \/ pc = "talk" /\ hCom # Closed /\ gen[hCom.slot] # hCom.gen
      BY <1>3, <1>5, <1>6, <2>2 DEF OwnNumber, Quiet, LowerTaken, Others
    <3>1. CASE hCom.port = default_port
      <4>1. hCom # Closed
        BY <1>4, <3>1 DEF Closed, NoName
      <4>2. pc = "talk"
        BY <4>1 DEF HandleInv, Opening
      <4>3. hCom.slot = ready.slot /\ hCom.gen \in Nat /\ hCom.gen < gen[ready.slot]
        BY <1>2, <1>4, <1>6, <3>1, <4>2 DEF OwnHandle
      <4>4. gen[ready.slot] \in Nat
        BY <1>4 DEF LeftInv
      <4> QED
        BY <4>1, <4>2, <4>3, <4>4
    <3>2. CASE hCom.port # default_port
      <4>1. default_port \notin Ports(bus)
        BY <1>2, <1>4, <1>6 DEF Ports, Quiet, Others
      <4>2. default_port \notin Used
        BY <4>1, <3>2 DEF Used
      <4>3. \A p \in 0..(default_port - 1) : p \in Used
        BY DEF LowerTaken, Others, Ports, Used
      <4>4. Lowest(Used, 0) = default_port
        BY <1>4, <4>2, <4>3, LowestIsFirst
      <4> QED
        BY <2>1, <4>4
    <3> QED
      BY <3>1, <3>2
  <2> HIDE DEF new
  <2> QED
    BY <1>3, <1>4, <1>5, <1>6, <2>1, <2>2, <2>3, <2>4 DEF NumberInv, Others, Away
<1>7. CASE d # ready.slot
  <2>1. d \in Others' /\ gen'[d] # 0 /\ ~Quiet'
    BY <1>3, <1>5, <1>7 DEF Others, Quiet
  <2>2. bus'[ready.slot] = bus[ready.slot]
    BY <1>4, <1>5, <1>7
  <2>3. \A s \in Others' : gen'[s] = 0 => s \in Others /\ gen[s] = 0 /\ bus'[s] = bus[s]
    BY <1>3, <1>5, <2>1 DEF Others
  <2> QED
    BY <1>3, <1>4, <1>5, <2>1, <2>2, <2>3 DEF NumberInv, OwnHandle, OwnNumber, Away
<1> QED
  BY <1>6, <1>7

(* Every step keeps what is known of the number.                           *)
LEMMA NumberStep ==
  ASSUME BusInv, MethodInv, LeftInv, StartInv, HandleInv, NumberInv, moves \in Nat, Next
  PROVE  NumberInv'
<1> USE DEF Goto, Fail, NoDevice, ctxVars, flowVars
<1> DEFINE Same == method' = method /\ ready' = ready /\ default_port' = default_port
<1>1. ASSUME Host, Same,
             pc' \in Opening => pc \in Opening /\ (pc = "talk" => Live),
             pc' = "talk" /\ default_port \in Nat =>
                \/ hCom' = Closed
                \/ bus' = bus /\ \E p \in Ports(bus) : hCom' = Opened(p)
      PROVE  NumberInv'
  BY <1>1, HostWorld, NumberKeeps
<1>2. CASE Options
  BY <1>2 DEF Options, StartInv, NotReady, NumberInv
<1>3. CASE ReadyByAdb \/ ReadyByModemPort
  BY <1>3 DEF ReadyByAdb, ReadyByModemPort, NumberInv
<1>4. CASE ReadyByDiagPort
  BY <1>4, PortIsFound
<1>5. CASE Load
  <2>1. pc = "load" /\ pc' # "talk" /\ Same
    BY <1>5 DEF Load
  <2> QED
    BY <1>1, <1>5, <2>1 DEF Opening, Host
<1>6. CASE AdbAgain
  <2>1. pc = "adb" /\ pc' # "talk" /\ Same
    BY <1>6 DEF AdbAgain
  <2> QED
    BY <1>1, <1>6, <2>1 DEF Opening, Host
<1>7. ASSUME NEW default \in Nat, ProbePort(bus, default) # NoName
      PROVE  ProbePort(bus, default) \in Ports(bus)
  <2> DEFINE P == {p \in default..(default + 5) : p \in Ports(bus)}
  <2>1. P # {} /\ ProbePort(bus, default) = Min(P)
    BY <1>7 DEF ProbePort
  <2>2. P \in SUBSET Nat
    OBVIOUS
  <2>3. Min(P) \in P
    <3> HIDE DEF P
    <3>1. \E x \in P : \A y \in P : x <= y
      BY <2>1, <2>2, Smallest
    <3> QED BY <3>1 DEF Min
  <2> QED
    BY <2>1, <2>3
<1>8. CASE OpenFirst
  <2>1. pc = "open" /\ bus' = bus /\ Same /\ pc' \in {"talk", "post"}
    BY <1>8 DEF OpenFirst, Open, worldVars
  <2>2. default_port \in Nat =>
            hCom' = Closed \/ \E p \in Ports(bus) : hCom' = Opened(p)
    BY <1>7, <1>8 DEF OpenFirst, Open
  <2> QED
    BY <1>1, <1>8, <2>1, <2>2 DEF Opening, Host
<1>9. CASE AskRestart \/ NormalAgain
  <2>1. pc = "talk" /\ Live /\ pc' # "talk" /\ Same
    BY <1>9 DEF AskRestart, NormalAgain
  <2> QED
    BY <1>1, <1>9, <2>1 DEF Opening, Host
<1>10. CASE TalkFails \/ Streamed \/ StreamedToFastboot
  <2>1. pc' \notin Opening /\ pc' # "talk" /\ Same
    BY <1>10 DEF TalkFails, Streamed, StreamedToFastboot, Opening
  <2> QED
    BY <1>1, <1>10, <2>1 DEF Host
<1>11. CASE PollGone \/ PollBack
  <2>1. pc \in {"gone", "back"} /\ pc' # "talk" /\ Same
    BY <1>11 DEF PollGone, PollBack
  <2> QED
    BY <1>1, <1>11, <2>1 DEF Opening, Host
<1>12. CASE Reopen
  <2>1. pc = "reopen" /\ bus' = bus /\ Same
    BY <1>12 DEF Reopen, worldVars
  <2>2. default_port \in Nat =>
            hCom' = Closed \/ \E p \in Ports(bus) : hCom' = Opened(p)
    BY <1>7, <1>12 DEF Reopen
  <2> QED
    BY <1>1, <1>12, <2>1, <2>2 DEF Opening, Host
<1>13. CASE Modem \/ WaitAdb \/ FlashNext \/ FlashNull \/ FlashDone
  <2>1. pc' \notin Opening /\ pc' # "talk" /\ Same
    BY <1>13 DEF Modem, WaitAdb, FlashNext, FlashNull, FlashDone, Opening
  <2> QED
    BY <1>1, <1>13, <2>1 DEF Host
<1>14. CASE Emergency \/ RunFirehose
  <2>1. pc' \notin Opening /\ pc' # "talk" /\ Same
    BY <1>14 DEF Emergency, Open, RunFirehose, Opening
  <2> QED
    BY <1>1, <1>14, <2>1 DEF Host
<1>15. CASE Switch
  <2>1. pc = "switch" /\ method' = method /\ ready' = ready
    BY <1>15 DEF Switch
  <2>2. moves' = moves
    BY <1>15, HostWorld DEF Host
  <2> QED
    BY <2>1, <2>2 DEF MethodInv, NumberInv
<1>16. CASE Post
  <2>1. pc' \notin Opening /\ pc' # "talk" /\ Same
    BY <1>16 DEF Post, Opening
  <2> QED
    BY <1>1, <1>16, <2>1 DEF Host
<1>17. CASE Leave
  BY <1>17, LeaveKeepsNumber
<1>18. CASE Return
  BY <1>18, ReturnKeepsNumber
<1>19. CASE Move
  BY <1>19 DEF Move, NumberInv
<1> QED
  BY <1>2, <1>3, <1>4, <1>5, <1>6, <1>8, <1>9, <1>10, <1>11, <1>12, <1>13, <1>14, <1>15,
     <1>16, <1>17, <1>18, <1>19 DEF Next, Host

(* A step that opens a port opens the module's, if it is there.            *)
LEMMA OpeningStep ==
  ASSUME IInv, Next, hCom' \notin {Closed, hCom}, moves = 0, ready.by = "port",
         \A s \in DOMAIN bus \ {ready.slot} : gen[s] = 0,
         \A p \in 0..(default_port - 1) : p \in Ports([bus EXCEPT ![ready.slot] = Gone]),
         Quectel(bus[ready.slot]), bus[ready.slot].tty[0] # NoName
  PROVE  hCom'.port = bus[ready.slot].tty[0]
<1> USE DEF Goto, Fail, NoDevice, ctxVars, flowVars
<1>1. /\ method \in {0, 1} /\ ready.slot \in DOMAIN bus /\ default_port \in 0..99
      /\ 0 \in DOMAIN bus[ready.slot].tty /\ OwnNumber
  BY DEF IInv, NumberInv
<1>2. pc \in {"open", "reopen"} /\ hCom' = Opened(ProbePort(bus, default_port))
  <2>1. CASE Options \/ ReadyByAdb \/ ReadyByModemPort \/ Load \/ AdbAgain
    BY <2>1 DEF Options, ReadyByAdb, ReadyByModemPort, Load, AdbAgain
  <2>2. CASE ReadyByDiagPort
    BY <2>2 DEF ReadyByDiagPort
  <2>3. CASE OpenFirst
    BY <2>3 DEF OpenFirst, Open
  <2>4. CASE TalkFails \/ AskRestart \/ NormalAgain \/ Streamed \/ StreamedToFastboot
    BY <2>4 DEF TalkFails, AskRestart, NormalAgain, Streamed, StreamedToFastboot
  <2>5. CASE PollGone \/ PollBack
    BY <2>5 DEF PollGone, PollBack
  <2>6. CASE Reopen
    BY <2>6 DEF Reopen
  <2>7. CASE Modem \/ WaitAdb \/ FlashNext \/ FlashNull \/ FlashDone
    BY <2>7 DEF Modem, WaitAdb, FlashNext, FlashNull, FlashDone
  <2>8. CASE Emergency
    BY <2>8, <1>1 DEF Emergency, IInv, MethodInv
  <2>9. CASE Switch \/ RunFirehose \/ Post
    BY <2>9 DEF Switch, RunFirehose, Post
  <2>10. CASE Leave \/ Return \/ Move
    BY <2>10 DEF Leave, Return, Move
  <2> QED
    BY <2>1, <2>2, <2>3, <2>4, <2>5, <2>6, <2>7, <2>8, <2>9, <2>10 DEF Next, Host
<1>3. LowerTaken
  BY GoneHasNoNumber, <1>1 DEF LowerTaken, Ports, Others
<1>4. bus[ready.slot].tty[0] = default_port
  BY <1>1, <1>2, <1>3 DEF OwnNumber, Opening, Quiet, Others
<1>5. default_port \in Ports(bus)
  BY <1>1, <1>4 DEF Ports, PortsOf
<1>6. ProbePort(bus, default_port) = default_port
  BY <1>1, <1>5, ProbeTakesDefault
<1> QED
  BY <1>2, <1>4, <1>6 DEF Opened

-----------------------------------------------------------------------------
(* The start of a run.                                                     *)
LEMMA InitHolds == Init => IInv
<1> SUFFICES ASSUME Init
             PROVE  IInv
  OBVIOUS
<1>1. PICK setup \in Setups : pkg = setup.pkg /\ bus = setup.bus
  BY DEF Init
<1>2. PackageInv /\ bus \in Seq(Device)
  BY <1>1, SetupsAssumption DEF PackageInv
<1>3. BusInv
  <2>1. \A s \in DOMAIN bus : bus[s] \in Device
    BY <1>2
  <2> QED
    BY <1>2, <2>1 DEF BusInv, Device, Nodes, Init
<1>4. pc = "options" /\ method = 0 /\ outcome = "none" /\ moves = 0 /\ touched = {}
  BY DEF Init
<1>5. \A s \in DOMAIN bus : asked[s] = NotAsked
  BY DEF Init
<1>6. MethodInv /\ CtxInv /\ FlashInv /\ EarnedInv /\ ChildInv
  BY <1>4, <1>5 DEF MethodInv, CtxInv, Loaded, InFlow, FlashInv, EarnedInv, SuccessIsWhole, ChildInv
<1>7. LeftInv /\ HandleInv /\ NumberInv
  BY <1>5 DEF Init, LeftInv, HandleInv, NumberInv, NotReady
<1>8. StartInv
  <2>1. \A r \in DOMAIN bus : \A o \in DOMAIN bus \ {r} : PortsOf(bus[r]) \cap PortsOf(bus[o]) = {}
    BY <1>1, SetupsAssumption
  <2>2. \A s \in DOMAIN bus : bus[s] \in Device
    BY <1>2
  <2> QED
    BY <2>1, <2>2, <1>5 DEF Init, StartInv, Plugged
<1> QED
  BY <1>2, <1>3, <1>4, <1>6, <1>7, <1>8 DEF IInv

(* The invariant holds in every reachable state, for any packages and      *)
(* buses, command lines, waits, restarts and moves.                        *)
THEOREM Invariant == Spec => []IInv
<1>1. IInv /\ [Next]_vars => IInv'
  <2> SUFFICES ASSUME IInv, [Next]_vars
               PROVE  IInv'
    OBVIOUS
  <2>1. CASE Next
    BY <2>1, WorldKeeps, MethodStep, CtxStep, FlashStep, EarnedStep, ChildStep,
       LeftStep, StartStep, HandleStep, NumberStep DEF IInv
  <2>2. CASE UNCHANGED vars
    <3> USE <2>2 DEF vars, worldVars, ctxVars, flowVars
    <3>1. PackageInv' /\ BusInv' /\ moves' \in Nat
      BY DEF IInv, PackageInv, BusInv
    <3>2. MethodInv' /\ CtxInv' /\ FlashInv'
      BY DEF IInv, MethodInv, CtxInv, Loaded, InFlow, FlashInv, Exists, Noted
    <3>3. EarnedInv'
      BY DEF IInv, EarnedInv, SuccessIsWhole, Earned, ImagesBut, Exists
    <3>4. ChildInv'
      BY DEF IInv, ChildInv, Calm, Quectel, Away
    <3>5. LeftInv' /\ StartInv' /\ HandleInv'
      BY DEF IInv, LeftInv, StartInv, HandleInv, Away
    <3>6. NumberInv'
      BY DEF IInv, NumberInv, OwnHandle, OwnNumber, Quiet, LowerTaken, Others, Away, Quectel
    <3> QED
      BY <3>1, <3>2, <3>3, <3>4, <3>5, <3>6 DEF IInv
  <2> QED
    BY <2>1, <2>2 DEF vars
<1> QED
  BY InitHolds, <1>1, PTL DEF Spec

(* Success is only reported with a package that has what the method needs, *)
(* after the flow of that method.                                          *)
THEOREM SuccessNeedsPackage == Spec => []SuccessIsWhole
<1>1. IInv => SuccessIsWhole
  BY DEF IInv, EarnedInv
<1> QED
  BY <1>1, Invariant, PTL

(* No flow of the methods 0 to 2 uses a file that the list has not.        *)
THEOREM FilesAreListed == Spec => []CheckedBeforeUse
<1>1. IInv => CheckedBeforeUse
  BY ReadIsListed DEF IInv, CtxInv, Loaded, CheckedBeforeUse
<1> QED
  BY <1>1, Invariant, PTL

(* The fastboot children open the module that os_ready saw, when nothing   *)
(* moves by itself and nothing else can be taken for it.                   *)
THEOREM ChildrenOpenTheModule == Spec => []ChildTakesTheModule
<1>1. IInv => ChildTakesTheModule
  BY DEF IInv, ChildInv, Calm, ChildTakesTheModule
<1> QED
  BY <1>1, Invariant, PTL

(* A port that is opened is the one of the module that os_ready saw, also  *)
(* after it has restarted.                                                 *)
THEOREM PortsOpenTheModule == Spec => OpensTheModule
<1> DEFINE A == LET home == bus[ready.slot] IN
                hCom' \notin {Closed, hCom} /\ moves = 0 /\ ready.by = "port"
                  /\ (\A s \in DOMAIN bus \ {ready.slot} : gen[s] = 0)
                  /\ (\A p \in 0..(default_port - 1) : p \in Ports([bus EXCEPT ![ready.slot] = Gone]))
                  /\ Quectel(home) /\ home.tty[0] # NoName
                => hCom'.port = home.tty[0]
<1>1. IInv /\ [Next]_vars => [A]_vars
  BY OpeningStep
<1>2. OpensTheModule <=> [][A]_vars
  BY DEF OpensTheModule
<1> QED
  BY <1>1, <1>2, Invariant, PTL DEF Spec

-----------------------------------------------------------------------------
(* The flow over the diagnostic port (UpgradeFlow). Only a handshake in    *)
(* which something was missed, or missing chunks, let an interruption      *)
(* brick the module; success starts whole new firmware; and the port is    *)
(* waited for in the right mode.                                           *)

(* The labels of a run until the programmer is known to run.               *)
Loading == Labels \ {"set_flag", "flash", "flashing", "reset"}

(* Half-written firmware is behind a download flag, unless the handshake   *)
(* has missed it, and an override that is sent later is a miss: the tables *)
(* are the same by then.                                                   *)
FlagInv ==
    /\ fw = "torn" => same /\ (flag \/ missed)
    /\ label \in {"set_flag", "flash", "flashing", "reset"} => same
    /\ label = "flash" => flag \/ missed
    /\ label = "flashing" => fw = "torn"
    /\ label = "reset" => fw = "new" \/ (resent /\ fw = "holed")

(* What the module runs tells what its flash holds.                        *)
ModeInv ==
    /\ mode = "bricked" => ~flag /\ fw \in {"torn", "holed"}
    /\ mode = "edl" => ~flag /\ fw = "none"
    /\ mode = "sahara" => flag \/ fw # "none"
    /\ mode = "normal" => fw # "none"

(* What has been asked for in this run, and of which kind of module.       *)
ServeInv ==
    /\ emergency_mode /\ label \in Loading => ~flag /\ fw = "none"
    /\ image = "ENPRG" => emergency_mode
    /\ image = "NPRG" /\ label \in Loading => flag \/ fw # "none"
    /\ label \in {"do", "reopen_do"} => image # "none"

(* The inductive invariant. *)
FlowIInv == TypeOK /\ FlagInv /\ ModeInv /\ ServeInv /\ SuccessStarts

-----------------------------------------------------------------------------
(* What a module starts with the flash as the invariant has it.            *)
LEMMA BootsWell ==
    ASSUME FlowIInv, NEW m \in Boots(flag, fw)
    PROVE  /\ m \in {"normal", "sahara", "edl", "bricked"}
           /\ m = "bricked" => ~flag /\ fw \in {"torn", "holed"}
           /\ m = "edl" => ~flag /\ fw = "none"
           /\ m = "sahara" => flag
           /\ m = "normal" => fw # "none"
BY DEF FlowIInv, TypeOK, FlagInv, Boots

(* Before the first run.                                                   *)
LEMMA FlowStarts == FlowInit => FlowIInv
<1> SUFFICES ASSUME FlowInit PROVE FlowIInv
  OBVIOUS
<1>1. /\ mode \in {"normal", "sahara", "edl"}
      /\ mode = "edl" => ~flag /\ fw = "none"
      /\ mode = "sahara" => flag
      /\ mode = "normal" => fw # "none"
  BY DEF FlowInit, Boots
<1>2. TypeOK
  <2>1. runs \in 1..MaxRuns /\ cuts \in 0..MaxCuts /\ rounds \in 0..MaxRounds
    BY FlowAssumption DEF FlowInit
  <2> QED BY <1>1, <2>1 DEF FlowInit, TypeOK, Labels
<1>3. FlagInv /\ ModeInv /\ ServeInv /\ SuccessStarts
  BY <1>1 DEF FlowInit, FlagInv, ModeInv, ServeInv, SuccessStarts
<1> QED BY <1>2, <1>3 DEF FlowIInv

(* The steps before the programmer runs.                                   *)
LEMMA LoadingKeeps ==
    ASSUME FlowIInv,
           \/ OpenDiagPort \/ NoPort \/ HelloReceived \/ HelloMissed \/ ModuleState
           \/ SwitchToDload \/ ReopenPort \/ SaharaDownload \/ SaharaGetHello
           \/ ServeData \/ EndImage \/ HelloAgain \/ SendDo \/ SaharaFails \/ ModuleStateDo
    PROVE  FlowIInv'
<1> USE DEF FlowIInv, TypeOK, FlagInv, ModeInv, ServeInv, SuccessStarts,
            Labels, Loading, devVars, hostVars, GotoLabel, Finish, ProgrammerRuns, Connected,
            InSahara, OpenPort
<1>1. CASE OpenDiagPort
  BY <1>1 DEF OpenDiagPort
<1>2. CASE NoPort
  BY <1>2 DEF NoPort
<1>3. CASE HelloReceived \/ HelloMissed
  BY <1>3 DEF HelloReceived, HelloMissed
<1>4. CASE ModuleState
  <2>1. PICK s \in {"unspecified", "normal", "sahara", "going"} :
           /\ s = "normal"      => GotoLabel("switch_to_dload")
           /\ s = "sahara"      => GotoLabel("sahara_download")
           /\ s = "going"       => GotoLabel("stream_download")
           /\ s = "unspecified" => Finish("failed")
    BY <1>4 DEF ModuleState, Seen
  <2>2. \/ GotoLabel("switch_to_dload") \/ GotoLabel("sahara_download")
        \/ GotoLabel("stream_download") \/ Finish("failed")
    BY <2>1
  <2> QED BY <1>4, <2>2 DEF ModuleState
<1>5. CASE SwitchToDload
  BY <1>5 DEF SwitchToDload
<1>6. CASE ReopenPort
  BY <1>6 DEF ReopenPort
<1>7. CASE SaharaDownload \/ SaharaGetHello
  BY <1>7 DEF SaharaDownload, SaharaGetHello
<1>8. CASE ServeData
  BY <1>8 DEF ServeData
<1>9. CASE EndImage
  BY <1>9 DEF EndImage
<1>10. CASE HelloAgain
  BY <1>10, FlowAssumption DEF HelloAgain
<1>11. CASE SendDo
  BY <1>11, FlowAssumption, BootsWell DEF SendDo
<1>12. CASE SaharaFails
  BY <1>12 DEF SaharaFails
<1>13. CASE ModuleStateDo
  BY <1>13 DEF ModuleStateDo, Seen
<1> QED BY <1>1, <1>2, <1>3, <1>4, <1>5, <1>6, <1>7, <1>8, <1>9, <1>10, <1>11, <1>12, <1>13

(* The steps with the programmer, to the reset.                            *)
LEMMA FlashingKeeps ==
    ASSUME FlowIInv,
           \/ Shake \/ ShakeFails \/ SetFlag \/ Flash \/ ResendChunk \/ Flashed
           \/ FlashFails \/ Reset
    PROVE  FlowIInv'
<1> USE DEF FlowIInv, TypeOK, FlagInv, ModeInv, ServeInv, SuccessStarts,
            Labels, Loading, devVars, hostVars, GotoLabel, Finish, ProgrammerRuns, Connected
<1>1. CASE Shake
  <2>1. /\ label = "stream_download" /\ mode = "prog" /\ same' = TRUE
        /\ UNCHANGED <<g_hCom, emergency_diag_port, emergency_mode, image, reported, resent,
                       runs, mode, boot, fw, cuts, rounds>>
    BY <1>1 DEF Shake
  <2>2. /\ missed' \in BOOLEAN /\ flag' \in BOOLEAN
        /\ \/ label' = "flash" /\ (flag' \/ missed')
           \/ label' = "set_flag" /\ (same => missed')
    BY <1>1 DEF Shake
  <2>3. fw' = "torn" => flag' \/ missed'
    BY <2>1, <2>2
  <2>4. TypeOK'
    BY <2>1, <2>2
  <2>5. FlagInv'
    BY <2>1, <2>2, <2>3
  <2>6. ModeInv' /\ ServeInv' /\ SuccessStarts'
    BY <2>1, <2>2
  <2> QED BY <2>4, <2>5, <2>6
<1>2. CASE ShakeFails
  <2>1. /\ label' = "done" /\ reported' = "failed"
        /\ UNCHANGED <<g_hCom, emergency_diag_port, emergency_mode, image, resent, runs,
                       mode, boot, fw, cuts, rounds>>
    BY <1>2 DEF ShakeFails
  <2>2. \/ UNCHANGED <<flag, same, missed>>
        \/ mode = "prog" /\ flag' = TRUE /\ UNCHANGED <<same, missed>>
        \/ mode = "prog" /\ flag' = FALSE /\ same' = TRUE /\ missed' = TRUE
    BY <1>2 DEF ShakeFails
  <2>3. missed' \in BOOLEAN /\ flag' \in BOOLEAN /\ same' \in BOOLEAN
    BY <2>1, <2>2
  <2>4. TypeOK'
    BY <2>1, <2>3
  <2>5. ServeInv' /\ SuccessStarts'
    BY <2>1, <2>2
  <2>6. FlagInv'
    BY <2>1, <2>2
  <2>7. ModeInv'
    BY <2>1, <2>2
  <2> QED BY <2>4, <2>5, <2>6, <2>7
<1>3. CASE SetFlag
  <2>1. /\ label = "set_flag" /\ label' = "flash"
        /\ UNCHANGED <<g_hCom, emergency_diag_port, emergency_mode, image, reported, resent,
                       runs, mode, boot, fw, same, cuts, rounds>>
    BY <1>3 DEF SetFlag
  <2>2. \/ mode = "prog" /\ flag' = TRUE /\ missed' = missed
        \/ missed' = TRUE /\ flag' = flag
    BY <1>3 DEF SetFlag
  <2>3. missed' \in BOOLEAN /\ flag' \in BOOLEAN /\ same' \in BOOLEAN
    BY <2>1, <2>2
  <2>4. TypeOK'
    BY <2>1, <2>3
  <2>5. ServeInv' /\ SuccessStarts'
    BY <2>1, <2>2
  <2>6. FlagInv'
    BY <2>1, <2>2
  <2>7. ModeInv'
    BY <2>1, <2>2
  <2> QED BY <2>4, <2>5, <2>6, <2>7
<1>4. CASE Flash
  BY <1>4 DEF Flash
<1>5. CASE ResendChunk \/ Flashed
  BY <1>5 DEF ResendChunk, Flashed
<1>6. CASE FlashFails
  BY <1>6 DEF FlashFails
<1>7. CASE Reset
  <2>1. /\ label = "reset" /\ label' = "done" /\ reported' = "ok"
        /\ UNCHANGED <<g_hCom, emergency_diag_port, emergency_mode, image, resent, runs,
                       boot, fw, same, missed, cuts, rounds>>
    BY <1>7 DEF Reset
  <2>2. \/ mode = "prog" /\ flag' = FALSE /\ mode' \in Boots(FALSE, fw)
        \/ UNCHANGED <<mode, flag>>
    BY <1>7 DEF Reset
  <2>3. CASE mode = "prog" /\ flag' = FALSE /\ mode' \in Boots(FALSE, fw)
    <3>1. \/ fw = "new" /\ mode' = "normal"
          \/ fw = "holed" /\ resent /\ mode' \in {"normal", "bricked"}
      BY <2>1, <2>3 DEF Boots
    <3> QED BY <2>1, <2>3, <3>1
  <2>4. CASE UNCHANGED <<mode, flag>>
    BY <2>1, <2>4
  <2> QED BY <2>2, <2>3, <2>4
<1> QED BY <1>1, <1>2, <1>3, <1>4, <1>5, <1>6, <1>7

(* The module and the user.                                                *)
LEMMA OutsideKeeps ==
    ASSUME FlowIInv, PowerCut \/ RunAgain
    PROVE  FlowIInv'
<1> USE DEF FlowIInv, TypeOK, FlagInv, ModeInv, ServeInv, SuccessStarts,
            Labels, Loading, devVars, hostVars, ProgrammerRuns, Connected
<1>1. CASE PowerCut
  BY <1>1, FlowAssumption, BootsWell DEF PowerCut
<1>2. CASE RunAgain
  <2>1. runs' \in 1..MaxRuns
    BY <1>2, FlowAssumption DEF RunAgain
  <2> QED BY <1>2, <2>1 DEF RunAgain
<1> QED BY <1>1, <1>2

(* Nothing changes.                                                        *)
LEMMA StutterKeeps == FlowIInv /\ UNCHANGED upgradeVars => FlowIInv'
BY DEF upgradeVars, hostVars, devVars, FlowIInv, TypeOK, FlagInv, ModeInv, ServeInv, SuccessStarts, Labels, Loading, ProgrammerRuns, Connected

(* The invariant holds in every reachable state, for any number of power   *)
(* cuts, restarts of the module and runs of the program.                   *)
THEOREM FlowInvariant == FlowSpec => []FlowIInv
<1>1. FlowIInv /\ [FlowNext]_upgradeVars => FlowIInv'
  BY LoadingKeeps, FlashingKeeps, OutsideKeeps, StutterKeeps DEF FlowNext, UpgradeStep
<1> QED BY FlowStarts, <1>1, PTL DEF FlowSpec

(* The types, and that a run has a result exactly when it is done.         *)
THEOREM TypeCorrect == FlowSpec => []TypeOK
<1>1. FlowIInv => TypeOK
  BY DEF FlowIInv
<1> QED BY <1>1, FlowInvariant, PTL

(* A module is only ever bricked after a handshake that has missed         *)
(* something, or with chunks missing: wherever power is cut, in this run   *)
(* or an earlier one, it otherwise starts something that can be upgraded.  *)
THEOREM StaysUpgradable == FlowSpec => []BricksOnlyIfMissed
<1>1. FlowIInv => BricksOnlyIfMissed
  BY DEF FlowIInv, ModeInv, FlagInv, TypeOK, BricksOnlyIfMissed
<1> QED BY <1>1, FlowInvariant, PTL

(* A run that reports success without a resend leaves whole new firmware,  *)
(* which the module starts unless it still waits for QFlash.               *)
THEOREM SuccessStartsFirmware == FlowSpec => []SuccessStarts
<1>1. FlowIInv => SuccessStarts
  BY DEF FlowIInv
<1> QED BY <1>1, FlowInvariant, PTL

(* emergency_mode, set once and never cleared, is what the image that was  *)
(* served last says, in every round of every run.                          *)
THEOREM ModeAsServed == FlowSpec => []WaitsAsServed
<1>1. FlowIInv => WaitsAsServed
  BY DEF FlowIInv, TypeOK, ServeInv, WaitsAsServed, Loading, Labels
<1> QED BY <1>1, FlowInvariant, PTL
=============================================================================
