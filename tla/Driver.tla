---------------------------------- MODULE Driver ----------------------------------
(***************************************************************************)
(* One run of the program (os_linux.cpp, download.cpp): main reads the     *)
(* options, qdl_pre_download looks for a port (os_ready), reads the        *)
(* package (ProcessInit) and starts the flow of the method, which opens    *)
(* ports, waits for a module that restarts, starts children, and whose     *)
(* result qdl_post_download reports. Meanwhile devices come and go: QFlash *)
(* looks at the bus anew in every step and never remembers a device, only  *)
(* a port number.                                                          *)
(*                                                                         *)
(* What is said over a port or to a child's module is a step of its own    *)
(* outcome here; StreamingDownload, Handshake, UpgradeFlow, AtChannel,     *)
(* Fastboot, Firehose and Sahara model it.                                 *)
(***************************************************************************)
EXTENDS Package, Detection

CONSTANTS
    Setups,      \* packages and buses a run may start with
    ArgLists,    \* command lines: sequences of options
    GoneTime, BackTime, AdbTime,  \* seconds the waits are given, 3..30
    MaxTalks,    \* bound: restarts of the module that the flow asks for
    MaxMoves     \* bound: devices that come or go by themselves

(* A package and a bus are what Package and Detection say; no file has an  *)
(* empty md5 sum, and no number belongs to two devices.                    *)
ASSUME SetupsAssumption ==
    \A s \in Setups :
        /\ s.pkg.entries \in Seq(Entry)
        /\ \A f \in DOMAIN s.pkg.sum : s.pkg.sum[f] # NoItem.value
        /\ s.bus \in Seq(Device)
        /\ \A r \in DOMAIN s.bus : \A o \in DOMAIN s.bus \ {r} :
              PortsOf(s.bus[r]) \cap PortsOf(s.bus[o]) = {}

(* Options come with a number, where they have one.                        *)
ASSUME ArgsAssumption ==
    ArgLists \subseteq Seq([opt : STRING, val : Nat])

VARIABLES
    pkg,         \* the package
    bus,         \* the devices
    root,        \* QFlash may make and change nodes
    gen,         \* how often the device of a slot has gone
    asked,       \* what the device of a slot was asked to restart as; or "none"
    moves,       \* devices that have come or gone by themselves
    pc,
    method,      \* update_method
    cache,
    ready,       \* what os_ready has gone by, and the slot it looked at
    modem,       \* modem_port
    ctx,         \* what ProcessInit has found
    default_port, \* g_default_port
    hCom,        \* g_hCom: number, slot and gen of what was opened; Closed
    t,           \* polls of a wait
    talks,
    left,        \* positions of the images that still need a fastboot child
    touched,     \* slots the fastboot children have opened
    unstarted,   \* history: do_firehose could not start its child
    result, outcome

worldVars == <<pkg, bus, root, gen, asked, moves>>
ctxVars   == <<method, cache, ready, modem, ctx>>
flowVars  == <<default_port, hCom, t, talks, left, touched, unstarted, result, outcome>>
vars      == <<worldVars, pc, ctxVars, flowVars>>

Closed   == [port |-> NoName, slot |-> 0, gen |-> 0]
NotReady == [by |-> "nothing", slot |-> 0]
NotAsked == "none"
NoCtx    == [list |-> <<>>, partition |-> "", nprg |-> "", enprg |-> "", firehose |-> FALSE]

Init ==
    /\ \E s \in Setups : pkg = s.pkg /\ bus = s.bus
    /\ root \in BOOLEAN
    /\ gen = [s \in DOMAIN bus |-> 0]
    /\ asked = [s \in DOMAIN bus |-> NotAsked]
    /\ moves = 0
    /\ pc = "options"
    /\ method = 0 /\ cache = 1024
    /\ ready = NotReady
    /\ modem = NoName
    /\ ctx = NoCtx
    /\ default_port = 0
    /\ hCom = Closed
    /\ t = 0 /\ talks = 0 /\ left = {}
    /\ touched = {}
    /\ unstarted = FALSE
    /\ result = 0
    /\ outcome = "none"

Goto(p) == pc' = p

-----------------------------------------------------------------------------
(* main. *)

LastOf(args, opt, default) ==
    LET of == {k \in DOMAIN args : args[k].opt = opt} IN
    IF of = {} THEN default ELSE args[Max(of)].val

ValidMutant(a) ==        \* any number is a method
    CASE a.opt = "f" -> a.val = 1
      [] a.opt = "p" -> ResolvePort(a.val) # NoName
      [] a.opt = "s" -> a.val >= 128 /\ a.val <= 1204
      [] OTHER -> a.opt \in {"m", "v"}

(* An option that getopt's loop accepts; -f with a folder that exists.     *)
Valid(a) ==
    CASE a.opt = "f" -> a.val = 1
      [] a.opt = "p" -> ResolvePort(a.val) # NoName
      [] a.opt = "m" -> a.val \in 0..3
      [] a.opt = "s" -> a.val >= 128 /\ a.val <= 1204
      [] OTHER -> a.opt = "v"

Options ==
    /\ pc = "options"
    /\ \E args \in ArgLists :
          IF (\A k \in DOMAIN args : Valid(args[k])) /\ LastOf(args, "f", 0) = 1
          THEN /\ Goto("ready")
               /\ method' = LastOf(args, "m", 0)
               /\ cache' = LastOf(args, "s", 1024)
               /\ default_port' = LastOf(args, "p", 0)
          ELSE Goto("exit") /\ UNCHANGED <<method, cache, default_port>>
    /\ UNCHANGED <<worldVars, ready, modem, ctx, hCom, t, talks, left, touched, unstarted, result, outcome>>

-----------------------------------------------------------------------------
(* os_ready: 0 lets the run go on. *)

NoDevice == Goto("post") /\ result' = 0

ReadyByAdb ==
    /\ pc = "ready"
    /\ method = 0
    /\ DetectAdb(bus, root)
    /\ bus' = NodesAfterDetect(bus, root)
    /\ ready' = [by |-> "adb", slot |-> AdbSlot(bus)]
    /\ Goto("load")
    /\ UNCHANGED <<pkg, root, gen, asked, moves, method, cache, modem, ctx, flowVars>>

(* The option -p is overwritten.                                           *)
ReadyByDiagPort ==
    /\ pc = "ready"
    /\ method \in {0, 1}
    /\ method = 0 => ~DetectAdb(bus, root)
    /\ IF DetectDiagPort(bus)
       THEN /\ default_port' = ResolvePort(NameOf(bus, 0))
            /\ IF ResolvePort(NameOf(bus, 0)) # NoName
               THEN Goto("load") /\ ready' = [by |-> "port", slot |-> TtyusbDevDetect(bus, 0)] /\ UNCHANGED result
               ELSE NoDevice /\ UNCHANGED ready
       ELSE NoDevice /\ UNCHANGED <<default_port, ready>>
    /\ UNCHANGED <<worldVars, method, cache, modem, ctx, hCom, t, talks, left, touched,
                   unstarted, outcome>>

(* Without a modem port os_ready returns false, which means ready.         *)
ReadyByModemPort ==
    /\ pc = "ready"
    /\ method \notin {0, 1}
    /\ modem' = IF DetectModemPort(bus) THEN NameOf(bus, 3) ELSE modem
    /\ ready' = [by |-> "modem", slot |-> TtyusbDevDetect(bus, 3)]
    /\ Goto("load")
    /\ UNCHANGED <<worldVars, method, cache, ctx, flowVars>>

(* ProcessInit, and the choice of the method.                              *)
Load ==
    /\ pc = "load"
    /\ IF ImageRead(pkg)
       THEN /\ ctx' = [list |-> UfileList(pkg), partition |-> PartitionPath(pkg),
                       nprg |-> Programmer(pkg, "NPRG"), enprg |-> Programmer(pkg, "ENPRG"),
                       firehose |-> pkg.firehose # NoDir]
            /\ result' = 1
            /\ Goto(CASE method = 0 -> "adb"
                      [] method = 1 -> "open"
                      [] method = 2 -> "modem"
                      [] method = 3 -> "emergency"
                      [] OTHER -> "post")
       ELSE NoDevice /\ UNCHANGED ctx
    /\ UNCHANGED <<worldVars, method, cache, ready, modem, default_port, hCom, t, talks,
                   left, touched, unstarted, outcome>>

-----------------------------------------------------------------------------
(* Ports. *)

Fail == Goto("post") /\ result' = 0

Opened(port) == [port |-> port, slot |-> SlotOf(bus, port), gen |-> gen[SlotOf(bus, port)]]

(* openport for a caller that gives up if no port exists. If open fails,   *)
(* the result is false, which the callers take for success.                *)
Open(then) ==
    LET port == ProbePort(bus, default_port) IN
    IF port = NoName THEN Fail /\ hCom' = Closed
    ELSE /\ Goto(then)
         /\ hCom' \in {Opened(port), Closed}
         /\ UNCHANGED result

(* Behind the port there is a module that may answer.                      *)
Live == hCom # Closed /\ gen[hCom.slot] = hCom.gen /\ Quectel(bus[hCom.slot])

Ask(kinds) ==
    /\ talks < MaxTalks
    /\ talks' = talks + 1
    /\ \E kind \in kinds : asked' = [asked EXCEPT ![hCom.slot] = kind]

-----------------------------------------------------------------------------
(* process_streaming_fastboot_upgarde.                                     *)

(* What fastboot flashes of a list: all but the sahara stage, and MIBIB.   *)
ForFastboot(list) == {k \in DOMAIN list : list[k].name \notin SaharaStage \cup {MIBIB}}

(* The second look for adb: os_ready's was before the package was read.    *)
AdbAgain ==
    /\ pc = "adb"
    /\ bus' = NodesAfterDetect(bus, root)
    /\ IF DetectAdb(bus, root)
       THEN /\ Goto("flash")
            /\ left' = ForFastboot(ctx.list)
       ELSE Goto("open") /\ UNCHANGED left
    /\ UNCHANGED <<pkg, root, gen, asked, moves, ctxVars, default_port, hCom, t, talks,
                   touched, unstarted, result, outcome>>

OpenFirst ==
    /\ pc = "open"
    /\ Open("talk")
    /\ UNCHANGED <<worldVars, ctxVars, default_port, t, talks, left, touched, unstarted, outcome>>

TalkFails ==
    /\ pc = "talk"
    /\ Fail
    /\ UNCHANGED <<worldVars, ctxVars, default_port, hCom, t, talks, left, touched, unstarted, outcome>>

AskRestartMutant ==      \* the port is left open, for openport to close
    /\ pc = "talk"
    /\ Live
    /\ Ask({"normal", "edl"})
    /\ Goto("gone")
    /\ t' = 0
    /\ UNCHANGED <<pkg, bus, root, gen, moves, ctxVars, default_port, hCom, left, touched,
                   unstarted, result, outcome>>

(* The module is told to restart, and close_and_reopen follows.            *)
AskRestart ==
    /\ pc = "talk"
    /\ Live
    /\ Ask({"normal", "edl"})
    /\ Goto("gone")
    /\ hCom' = Closed
    /\ t' = 0
    /\ UNCHANGED <<pkg, bus, root, gen, moves, ctxVars, default_port, left, touched,
                   unstarted, result, outcome>>

(* A module in normal state after the programmer was sent.                 *)
NormalAgain ==
    /\ pc = "talk"
    /\ Live
    /\ bus[hCom.slot].kind \in {"normal", "old"}
    /\ talks \in 1..(MaxTalks - 1)
    /\ talks' = talks + 1
    /\ hCom' = Closed
    /\ Goto("open")
    /\ UNCHANGED <<worldVars, ctxVars, default_port, t, left, touched, unstarted, result, outcome>>

(* do_flash_mbn has the bytes of these images itself, and does not look    *)
(* for a file with such a path.                                            *)
BuiltIn(file) == \E word \in {"invalid-boot", "misc"} : file = word \/ <<file, word>> \in Within

Readable(list) ==
    \A k \in DOMAIN list :
        list[k].name # MIBIB => Exists(pkg, list[k].img_name) \/ BuiltIn(list[k].img_name)

(* do_streaming_download, then true.                                       *)
Streamed ==
    /\ pc = "talk"
    /\ method = 1
    /\ Live
    /\ Readable(ctx.list)
    /\ Goto("post") /\ result' = 1
    /\ UNCHANGED <<worldVars, ctxVars, default_port, hCom, t, talks, left, touched, unstarted, outcome>>

(* do_fastboot_download: the images of the sahara stage, an invalid boot   *)
(* image and a reset; then fastboot.                                       *)
StreamedToFastboot ==
    /\ pc = "talk"
    /\ method = 0
    /\ Live
    /\ Readable(Restrict(ctx.list, DOMAIN ctx.list \ ForFastboot(ctx.list)))
    /\ Ask({"fastboot", "normal"})
    /\ left' = ForFastboot(ctx.list)
    /\ hCom' = Closed
    /\ t' = 0
    /\ Goto("waitadb")
    /\ UNCHANGED <<pkg, bus, root, gen, moves, ctxVars, default_port, touched, unstarted, result,
                   outcome>>

(* wait_diag_port_disconnect, of any module, and one poll in a second; its *)
(* result is only logged.                                                  *)
PollGone ==
    /\ pc = "gone"
    /\ IF ~DetectDiagPort(bus) \/ t + 1 > GoneTime
       THEN Goto("back") /\ t' = BackTime
       ELSE t' = t + 1 /\ UNCHANGED pc
    /\ UNCHANGED <<worldVars, ctxVars, default_port, hCom, talks, left, touched, unstarted, result, outcome>>

PollBackMutant ==        \* the time is not counted
    /\ pc = "back"
    /\ IF DetectDiagPort(bus) THEN Goto("reopen") ELSE UNCHANGED pc
    /\ UNCHANGED <<worldVars, ctxVars, flowVars>>

(* detect_diag_port_timeout.                                               *)
PollBack ==
    /\ pc = "back"
    /\ IF DetectDiagPort(bus) THEN Goto("reopen") /\ UNCHANGED <<t, result>>
       ELSE /\ t' = t - 1
            /\ IF t = 1 THEN Fail ELSE UNCHANGED <<pc, result>>
    /\ UNCHANGED <<worldVars, ctxVars, default_port, hCom, talks, left, touched, unstarted, outcome>>

(* A port that cannot be found or opened is no failure here: false is 0.   *)
Reopen ==
    /\ pc = "reopen"
    /\ LET port == ProbePort(bus, default_port) IN
       hCom' \in IF port = NoName THEN {Closed} ELSE {Opened(port), Closed}
    /\ Goto(IF method = 3 THEN "child" ELSE "talk")
    /\ UNCHANGED <<worldVars, ctxVars, default_port, t, talks, left, touched, unstarted, result, outcome>>

-----------------------------------------------------------------------------
(* process_at_fastboot_upgrade, and the fastboot children.                 *)

(* serial_open tries the name of the modem port every second until it can  *)
(* be opened, even if no port was found and there is no name. Then the AT  *)
(* commands, and AT+qfastboot. A module that refuses it is waited for all  *)
(* the same. The program waits for ever if a command is not answered, see  *)
(* AtChannel.                                                              *)
Modem ==
    /\ pc = "modem"
    /\ modem \in Ports(bus)
    /\ \/ Fail /\ UNCHANGED <<asked, left, t>>
       \/ Goto("waits") /\ UNCHANGED <<asked, left, t, result>>
       \/ /\ Quectel(bus[SlotOf(bus, modem)])
          /\ Goto("waitadb")
          /\ t' = 0
          /\ asked' \in {asked, [asked EXCEPT ![SlotOf(bus, modem)] = "fastboot"]}
          /\ left' = ForFastboot(ctx.list)
          /\ UNCHANGED result
    /\ UNCHANGED <<pkg, bus, root, gen, moves, ctxVars, default_port, hCom, talks, touched,
                   unstarted, outcome>>

(* wait_adb.                                                               *)
WaitAdb ==
    /\ pc = "waitadb"
    /\ bus' = NodesAfterDetect(bus, root)
    /\ IF DetectAdb(bus, root) THEN Goto("flash") /\ UNCHANGED <<t, result>>
       ELSE /\ t' = t + 1
            /\ IF t + 1 > AdbTime THEN Fail ELSE UNCHANGED <<pc, result>>
    /\ UNCHANGED <<pkg, root, gen, asked, moves, ctxVars, default_port, hCom, talks, left,
                   touched, unstarted, outcome>>

(* downloadfastboot with the next image: strToLower of a NULL name ends    *)
(* the program. do_fastboot returns 0 for a file that is not there, or if  *)
(* it cannot start the child; the child opens a device of its own. Its     *)
(* transfers to that have no time limit, and the program reads its output  *)
(* until it ends.                                                          *)
IsNext(k) == k \in left /\ \A j \in left : k <= j

FlashNext ==
    /\ pc = "flash"
    /\ \E k \in left :
          /\ IsNext(k)
          /\ ~NoPartitionName(ctx.list[k])
          /\ \/ Fail /\ UNCHANGED <<left, touched>>
             \/ /\ Exists(pkg, ctx.list[k].img_name) /\ UsbOpen(bus) # 0
                /\ touched' = touched \cup {UsbOpen(bus)}
                /\ \/ Fail /\ UNCHANGED left
                   \/ Goto("waits") /\ UNCHANGED <<left, result>>
                   \/ left' = left \ {k} /\ UNCHANGED <<pc, result>>
    /\ UNCHANGED <<worldVars, ctxVars, default_port, hCom, t, talks, unstarted, outcome>>

FlashNull ==
    /\ pc = "flash"
    /\ \E k \in left : IsNext(k) /\ NoPartitionName(ctx.list[k])
    /\ Goto("exit") /\ outcome' = "crash"
    /\ UNCHANGED <<worldVars, ctxVars, default_port, hCom, t, talks, left, touched, unstarted, result>>

(* The reboot, whatever becomes of it.                                     *)
FlashDone ==
    /\ pc = "flash"
    /\ left = {}
    /\ \/ Goto("post") /\ result' = 1 /\ UNCHANGED touched
       \/ /\ UsbOpen(bus) # 0
          /\ touched' = touched \cup {UsbOpen(bus)}
          /\ \/ Goto("post") /\ result' = 1
             \/ Goto("waits") /\ UNCHANGED result
    /\ UNCHANGED <<worldVars, ctxVars, default_port, hCom, t, talks, left, unstarted, outcome>>

-----------------------------------------------------------------------------
(* process_firehose_upgrade.                                               *)

Emergency ==
    /\ pc = "emergency"
    /\ IF IsEmergency(bus) THEN Goto("child") /\ UNCHANGED <<hCom, result>>
       ELSE Open("switch")
    /\ UNCHANGED <<worldVars, ctxVars, default_port, t, talks, left, touched, unstarted, outcome>>

(* switch_emergency_download; the module that understands it restarts.     *)
Switch ==
    /\ pc = "switch"
    /\ \/ Fail /\ UNCHANGED <<asked, talks, hCom, t>>
       \/ /\ Live
          /\ Ask({"edl"})
          /\ hCom' = Closed
          /\ t' = 0
          /\ Goto("gone")
          /\ UNCHANGED result
    /\ UNCHANGED <<pkg, bus, root, gen, moves, ctxVars, default_port, left, touched, unstarted, outcome>>

(* do_firehose: the child looks for the module, and for the files, itself; *)
(* it may never return, since its writes have no time limit. If it cannot  *)
(* be started, for want of memory or of the program's own name, the result *)
(* is 0, which here is success; if popen fails, it is -1.                  *)
RunFirehose ==
    /\ pc = "child"
    /\ \/ Fail /\ UNCHANGED unstarted
       \/ Goto("waits") /\ UNCHANGED <<result, unstarted>>
       \/ Goto("post") /\ result' = 1 /\ unstarted' = TRUE
       \/ /\ ctx.firehose /\ IsEmergency(bus)
          /\ Goto("post") /\ result' = 1
          /\ UNCHANGED unstarted
    /\ UNCHANGED <<worldVars, ctxVars, default_port, hCom, t, talks, left, touched, outcome>>

-----------------------------------------------------------------------------
(* qdl_post_download: a port that is open is closed, and the result told.  *)
Post ==
    /\ pc = "post"
    /\ hCom' = Closed
    /\ outcome' = IF result = 1 THEN "success" ELSE "failure"
    /\ ctx' = NoCtx
    /\ Goto("exit")
    /\ UNCHANGED <<worldVars, method, cache, ready, modem, default_port, t, talks, left,
                   touched, unstarted, result>>

Host ==
    \/ Options \/ ReadyByAdb \/ ReadyByDiagPort \/ ReadyByModemPort \/ Load
    \/ AdbAgain \/ OpenFirst \/ TalkFails \/ AskRestart \/ NormalAgain
    \/ Streamed \/ StreamedToFastboot
    \/ PollGone \/ PollBack \/ Reopen
    \/ Modem \/ WaitAdb \/ FlashNext \/ FlashNull \/ FlashDone
    \/ Emergency \/ Switch \/ RunFirehose
    \/ Post

-----------------------------------------------------------------------------
(* Devices (external). A number stays taken while QFlash has it open.      *)

Used == Ports(bus) \cup {hCom.port}

Away(s) == bus[s].kind = "gone"

(* A module leaves as it was asked to.                                     *)
Leave ==
    /\ \E s \in DOMAIN bus :
          /\ asked[s] # NotAsked
          /\ ~Away(s)
          /\ bus' = [bus EXCEPT ![s] = Gone]
          /\ gen' = [gen EXCEPT ![s] = @ + 1]
    /\ UNCHANGED <<pkg, root, asked, moves, pc, ctxVars, flowVars>>

Return ==
    /\ \E s \in DOMAIN bus, bound \in BOOLEAN, node \in {"rw", "none"} :
          /\ asked[s] # NotAsked
          /\ Away(s)
          /\ bus' = [bus EXCEPT ![s] = Attached(Used, asked[s], bound, node)]
          /\ asked' = [asked EXCEPT ![s] = NotAsked]
    /\ UNCHANGED <<pkg, root, gen, moves, pc, ctxVars, flowVars>>

(* Somebody plugs a device in or out, or it restarts by itself.            *)
Move ==
    /\ pc \notin {"exit", "waits"}
    /\ moves < MaxMoves
    /\ moves' = moves + 1
    /\ \E s \in DOMAIN bus :
          IF Away(s)
          THEN /\ asked[s] = NotAsked
               /\ \E k \in Kinds \ {"gone"} : bus' = [bus EXCEPT ![s] = Attached(Used, k, TRUE, "rw")]
               /\ UNCHANGED gen
          ELSE /\ bus' = [bus EXCEPT ![s] = Gone]
               /\ gen' = [gen EXCEPT ![s] = @ + 1]
    /\ UNCHANGED <<pkg, root, asked, pc, ctxVars, flowVars>>

Next == Host \/ Leave \/ Return \/ Move

Spec == Init /\ [][Next]_vars /\ WF_vars(Host)

-----------------------------------------------------------------------------
(* The files a flow reads, from what ProcessInit has noted.                *)
FilesUsed ==
    {"contents", "nand", ctx.nprg, ctx.enprg}
        \cup {ctx.list[k].img_name : k \in DOMAIN ctx.list}
        \cup (IF ctx.partition = "" THEN {} ELSE {ctx.partition})

InFlow == pc \in {"adb", "open", "talk", "gone", "back", "reopen", "modem", "waitadb", "flash"}

(* A line of md5.txt says so.                                              *)
Listed(file) ==
    /\ Exists(pkg, file)
    /\ \E k \in DOMAIN pkg.md5 :
          /\ pkg.md5[k].kind = "pair"
          /\ pkg.md5[k].value = pkg.sum[file]
          /\ pkg.md5[k].name \in {"", file} \/ <<file, pkg.md5[k].name>> \in Within

(* A package with an md5 list of at least one pair is used by the methods  *)
(* 0 to 2 only if every file they read, the XML files, the programmers and *)
(* each image, exists with a sum that a line of the list gives for a name  *)
(* that stands in its path: lines that are skipped, repeated by a line     *)
(* without a pair, or about other files do not make up for it.             *)
CheckedBeforeUse ==
    InFlow /\ (\E k \in DOMAIN pkg.md5 : pkg.md5[k].kind = "pair") =>
        \A file \in FilesUsed : Listed(file)

(* The whole elements of the XML file but for some names.                  *)
ImagesBut(names) ==
    {pkg.entries[k].img_name :
        k \in {k \in DOMAIN pkg.entries :
                  Whole(pkg.entries[k]) /\ pkg.entries[k].name \notin names}}

(* What a run of a method needs of the package, and has done with it.      *)
Earned ==
    /\ \A prefix \in {"NPRG", "ENPRG"} : \E k \in DOMAIN pkg.dir : pkg.dir[k].prefix = prefix
    /\ \/ method = 1 /\ \A f \in ImagesBut({MIBIB}) : Exists(pkg, f) \/ BuiltIn(f)
       \/ /\ method \in {0, 2}
          /\ touched # {} \/ ImagesBut(SaharaStage \cup {MIBIB}) = {}
          /\ \A f \in ImagesBut(SaharaStage \cup {MIBIB}) : Exists(pkg, f)
       \/ method = 3 /\ (unstarted \/ (pkg.firehose # NoDir /\ FirehoseRead(pkg)))

(* "Upgrade module successfully" is said only after the flow of a method   *)
(* that exists, with a package that has everything this method needs:      *)
(* all but the partition table's image and those the program has the bytes *)
(* of, those fastboot flashes, after a child has opened a device, or the   *)
(* four firehose files; although only md5.txt makes image_read look for    *)
(* the images, and results are true, false, 0 or -1. The one exception is  *)
(* a firehose child that could not be started: do_firehose returns 0 for   *)
(* it, and success is said with nothing programmed.                        *)
SuccessIsWhole == outcome = "success" => Earned

(* The number that os_ready has resolved still leads to the interface 0 of *)
(* the same module whenever a port is opened, also after it has restarted  *)
(* in another mode and among other modules: if it is there with a port,    *)
(* no other device came or went, and others have all the numbers below the *)
(* one it had. Each of these is needed: the waits look at every module, a  *)
(* second one that restarts may take the number, and openport tries the    *)
(* five next numbers.                                                      *)
OpensTheModule ==
    [][ LET home == bus[ready.slot] IN
        hCom' \notin {Closed, hCom} /\ moves = 0 /\ ready.by = "port"
          /\ (\A s \in DOMAIN bus \ {ready.slot} : gen[s] = 0)
          /\ (\A p \in 0..(default_port - 1) : p \in Ports([bus EXCEPT ![ready.slot] = Gone]))
          /\ Quectel(home) /\ home.tty[0] # NoName
        => hCom'.port = home.tty[0] ]_vars

(* While nothing comes or goes by itself, the fastboot children open only  *)
(* the module that os_ready saw, if no other is in fastboot mode, QFlash   *)
(* may write to that one's node, and no phone in fastboot mode is listed   *)
(* before it; one behind it, or other devices of the same vendors, do no   *)
(* harm. A node for reading only is enough for detect_adb, but not for the *)
(* child, which then takes a phone behind.                                 *)
ChildTakesTheModule ==
    moves = 0
      /\ (\A s \in DOMAIN bus : bus[s].kind = "fastboot" =>
                                  s = ready.slot /\ (root \/ bus[s].node # "ro"))
      /\ (\A s \in DOMAIN bus : bus[s].kind = "phone" => s > ready.slot)
    => touched \subseteq {ready.slot}

(* The run ends, whatever is plugged in or out: the program's own waits    *)
(* have a limit. The exceptions are an AT command that is not answered, a  *)
(* fastboot or firehose child that does not return from a transfer, and a  *)
(* modem port that never is there, or was not even found; method 1, which  *)
(* has none of these, always ends.                                         *)
DriverEnds ==
    \/ <>(pc = "exit" \/ (pc = "waits" /\ method # 1))
    \/ <>[](pc = "modem" /\ modem \notin Ports(bus))
=============================================================================
