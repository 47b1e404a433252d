--------------------------------- MODULE UsbBridge ---------------------------------
(***************************************************************************)
(* The transport of the firehose child: usbfs (usb_linux_firehose.c). A    *)
(* detached thread reads the module's bulk endpoint and passes what it     *)
(* gets through a nonblocking socket pair to the child's main thread. The  *)
(* child opens this bridge twice: for sahara (port_connect) and again for  *)
(* the programmer (firehose_main). Both threads use the one static record  *)
(* ec20_device without a lock: the reader looks at its descriptors one     *)
(* step at a time, while qusb_close closes them one by one and clears it.  *)
(*                                                                         *)
(* The numbers of the descriptors of a session are those of the session    *)
(* before: the lowest that are free. So a reader that outlives its session *)
(* finds the next session's files behind the same numbers. A chunk stands  *)
(* for what one bulk read returns; chunks are numbered as they are sent.   *)
(* The kernel's usbfs and the module are external.                         *)
(***************************************************************************)
EXTENDS Naturals, Sequences, SequencesExt

CONSTANTS
    Buses,       \* what /dev/bus/usb may list
    MaxChunks,   \* bound: chunks the module sends
    Room         \* chunks that fit into the socket

Devices == [id : {"edl", "quectel", "other"},   \* 05c6:9008, 2c7c:*, others
            ifaces : {1, 4},
            opens : BOOLEAN,      \* the device file may be opened
            known : BOOLEAN,      \* every descriptor is one of those parsed
            free : BOOLEAN]       \* no driver holds interface 0

ASSUME BridgeAssumption ==
    /\ Buses \subseteq Seq(Devices)
    /\ MaxChunks \in Nat
    /\ Room \in Nat \ {0}

VARIABLES
    bus,         \* the devices listed, in order
    tty,         \* /dev/ttyUSB0 is there
    replugged,   \* the devices have changed since the child was started
    gone,        \* the sessions opened until then, whose device is gone
    ec20,        \* ec20_device
    file,        \* the session whose file a descriptor number stands for; 0: closed
    holder,      \* the session whose device file has interface 0 claimed; 0: none
    sessions,    \* sessions opened so far
    onTty,       \* the session goes over /dev/ttyUSB0
    bpc,         \* the main thread
    reader,      \* the reader thread of each session
    sock,        \* what the main thread may read
    toHost,      \* chunks the module holds ready
    sent,        \* chunks sent so far
    heard,       \* what the main thread has read in each session: chunk, its reader
    stray,       \* chunks that were written to descriptor 0
    full,        \* a chunk was dropped because the socket was full
    quiet        \* every session that was closed found its reader waiting for data

bridgeVars == <<bus, tty, replugged, gone, ec20, file, holder, sessions, onTty, bpc,
                reader, sock, toHost, sent, heard, stray, full, quiet>>

Near == 3        \* control[0][0], which is also the port's fd
Far  == 4        \* control[0][1]
Dev  == 5        \* desc

Zeroed == [desc |-> 0, near |-> 0, far |-> 0, id |-> "none", ifaces |-> 0]

NoReader == [pc |-> "none", file |-> 0, buf |-> 0]

BridgeInit ==
    /\ bus \in Buses
    /\ tty \in BOOLEAN
    /\ replugged = FALSE
    /\ gone = 0
    /\ ec20 = Zeroed
    /\ file = [n \in {Near, Far, Dev} |-> 0]
    /\ holder = 0
    /\ sessions = 0
    /\ onTty = FALSE
    /\ bpc = "entry"
    /\ reader = [s \in 1..2 |-> NoReader]
    /\ sock = <<>>
    /\ toHost = <<>>
    /\ sent = 0
    /\ heard = [s \in 1..2 |-> <<>>]
    /\ stray = {}
    /\ full = FALSE
    /\ quiet = TRUE

worldVars == <<bus, tty, replugged, gone, toHost, sent>>
logVars   == <<heard, stray, full, quiet>>

-----------------------------------------------------------------------------
(* The main thread. *)

(* The device file that ends the search: every descriptor in it is known.  *)
Accepted(d) == d.opens /\ d.id # "other" /\ d.known

(* The device files from which the search notes something: a foreign       *)
(* vendor ends the look at a file before that, an unknown descriptor only  *)
(* afterwards.                                                             *)
Noted(devices) ==
    {k \in 1..Len(devices) :
        /\ devices[k].opens /\ devices[k].id # "other"
        /\ \A j \in 1..(k - 1) : ~Accepted(devices[j])}

(* The last of them is what the record holds afterwards.                   *)
Scan(udev, devices) ==
    IF udev.desc # 0 \/ Noted(devices) = {} THEN udev
    ELSE LET d == devices[Max(Noted(devices))] IN
         [udev EXCEPT !.id = d.id, !.ifaces = d.ifaces, !.desc = IF d.known THEN Dev ELSE 0]

(* quectel_find_usb_device.                                                *)
Find == Scan(ec20, bus)

(* The device that Find opens.                                             *)
Found == SelectSeq(bus, Accepted)[1]

Stop == bpc' = "exit"

FindEc20Mutant ==        \* the ids are not looked at
    /\ bpc = "entry"
    /\ IF Find.desc # 0
       THEN bpc' = "open" /\ ec20' = Zeroed
       ELSE Stop /\ ec20' = Find
    /\ UNCHANGED <<worldVars, file, holder, sessions, onTty, reader, sock, logVars>>

(* firehose_main_entry: qusb_find_ec20 opens, notes and closes, and clears *)
(* the record only if it found something.                                  *)
FindEc20 ==
    /\ bpc = "entry"
    /\ IF Find.desc # 0
       THEN /\ bpc' = IF Find.id = "edl" /\ Find.ifaces = 1 THEN "open" ELSE "exit"
            /\ ec20' = Zeroed
       ELSE Stop /\ ec20' = Find
    /\ UNCHANGED <<worldVars, file, holder, sessions, onTty, reader, sock, logVars>>

(* qusb_open("/dev/ttyUSB0"): that port, if it is there.                   *)
OpenTty ==
    /\ bpc = "open"
    /\ tty
    /\ bpc' = "use"
    /\ onTty' = TRUE
    /\ sessions' = sessions + 1
    /\ UNCHANGED <<worldVars, ec20, file, holder, reader, sock, logVars>>

OpenDevice ==
    /\ bpc = "open"
    /\ ~tty
    /\ ec20' = Find
    /\ IF Find.desc # 0
       THEN /\ bpc' = "claim"
            /\ sessions' = sessions + 1
            /\ file' = [file EXCEPT ![Dev] = sessions + 1]
       ELSE Stop /\ UNCHANGED <<sessions, file>>
    /\ UNCHANGED <<worldVars, holder, onTty, reader, sock, logVars>>

(* USBDEVFS_CLAIMINTERFACE fails while a driver or another open file of    *)
(* the device holds the interface.                                         *)
Claim ==
    /\ bpc = "claim"
    /\ IF holder \in {0, sessions} /\ sessions > gone /\ Found.free
       THEN bpc' = "pair" /\ holder' = sessions
       ELSE Stop /\ UNCHANGED holder
    /\ UNCHANGED <<worldVars, ec20, file, sessions, onTty, reader, sock, logVars>>

(* socketpair and pthread_create.                                          *)
StartReader ==
    /\ bpc = "pair"
    /\ bpc' = "use"
    /\ ec20' = [desc |-> ec20.desc, near |-> Near, far |-> Far,
                 id |-> ec20.id, ifaces |-> ec20.ifaces]
    /\ file' = [file EXCEPT ![Near] = sessions, ![Far] = sessions]
    /\ reader' = [reader EXCEPT ![sessions] = [NoReader EXCEPT !.pc = "test"]]
    /\ sock' = <<>>
    /\ UNCHANGED <<worldVars, holder, sessions, onTty, logVars>>

Heard(c) == heard' = [heard EXCEPT ![sessions] = Append(@, c)]

(* qusb_read: from the socket, or from the port itself.                    *)
ReadSocket ==
    /\ bpc = "use"
    /\ ~onTty
    /\ sock # <<>>
    /\ Heard(Head(sock))
    /\ sock' = Tail(sock)
    /\ UNCHANGED <<worldVars, ec20, file, holder, sessions, onTty, bpc, reader,
                   stray, full, quiet>>

ReadTty ==
    /\ bpc = "use"
    /\ onTty
    /\ sessions > gone
    /\ toHost # <<>>
    /\ Heard([n |-> Head(toHost), by |-> sessions])
    /\ toHost' = Tail(toHost)
    /\ UNCHANGED <<bus, tty, replugged, gone, sent, ec20, file, holder, sessions, onTty,
                   bpc, reader, sock, stray, full, quiet>>

(* A failure of firehose_main leaves the session open: the child ends.     *)
GiveUp ==
    /\ bpc = "use"
    /\ sessions = 2
    /\ Stop
    /\ UNCHANGED <<worldVars, ec20, file, holder, sessions, onTty, reader, sock, logVars>>

(* After sahara the next session follows, or the child ends.               *)
NextSession == bpc' \in IF sessions = 1 THEN {"open", "exit"} ELSE {"exit"}

(* qusb_close without a usbfs device: close(fd).                           *)
CloseTty ==
    /\ bpc = "use"
    /\ ec20.desc = 0
    /\ NextSession
    /\ onTty' = FALSE
    /\ UNCHANGED <<worldVars, ec20, file, holder, sessions, reader, sock, logVars>>

Waits(s) == reader[s].pc = "reading" /\ reader[s].file = sessions

CloseReleaseMutant ==    \* the interface is not released
    /\ bpc = "use"
    /\ ec20.desc # 0
    /\ bpc' = "near"
    /\ quiet' = (quiet /\ \A s \in 1..sessions : Waits(s) \/ reader[s].pc \in {"none", "end"})
    /\ UNCHANGED <<worldVars, ec20, file, holder, sessions, onTty, reader, sock,
                   heard, stray, full>>

(* USBDEVFS_RELEASEINTERFACE fails a read that waits for data.             *)
CloseRelease ==
    /\ bpc = "use"
    /\ ec20.desc # 0
    /\ bpc' = "near"
    /\ holder' = IF holder = sessions THEN 0 ELSE holder
    /\ reader' = [s \in 1..2 |-> IF Waits(s) THEN [reader[s] EXCEPT !.pc = "end"]
                                             ELSE reader[s]]
    /\ quiet' = (quiet /\ \A s \in 1..sessions : Waits(s) \/ reader[s].pc \in {"none", "end"})
    /\ UNCHANGED <<worldVars, ec20, file, sessions, onTty, sock, heard, stray, full>>

CloseNear ==
    /\ bpc = "near"
    /\ bpc' = "far"
    /\ file' = [file EXCEPT ![Near] = 0]
    /\ sock' = <<>>
    /\ UNCHANGED <<worldVars, ec20, holder, sessions, onTty, reader, logVars>>

CloseFar ==
    /\ bpc = "far"
    /\ bpc' = "clear"
    /\ file' = [file EXCEPT ![Far] = 0]
    /\ UNCHANGED <<worldVars, ec20, holder, sessions, onTty, reader, sock, logVars>>

(* close(desc), memset, and close(fd) once more, which fails. The device   *)
(* file stays open, and keeps its claim, while a read on it is underway.   *)
CloseClear ==
    /\ bpc = "clear"
    /\ NextSession
    /\ file' = [file EXCEPT ![Dev] = 0]
    /\ ec20' = Zeroed
    /\ holder' = IF holder = sessions /\ ~(\E s \in 1..2 : Waits(s)) THEN 0 ELSE holder
    /\ UNCHANGED <<worldVars, sessions, onTty, reader, sock, logVars>>

Main ==
    \/ FindEc20 \/ OpenTty \/ OpenDevice \/ Claim \/ StartReader
    \/ ReadSocket \/ ReadTty \/ GiveUp
    \/ CloseTty \/ CloseRelease \/ CloseNear \/ CloseFar \/ CloseClear

-----------------------------------------------------------------------------
(* usb_bulk_read_thread, of session s. *)

Running == bpc \notin {"exit", "killed"}

At(s, p) == Running /\ reader[s].pc = p

Goto(s, p) == reader' = [reader EXCEPT ![s].pc = p]

(* while(udev->desc)                                                       *)
TestDesc(s) ==
    /\ At(s, "test")
    /\ Goto(s, IF ec20.desc # 0 THEN "issue" ELSE "end")
    /\ UNCHANGED <<worldVars, ec20, file, holder, sessions, onTty, bpc, sock, logVars>>

(* usbfs_bulk_read reads the descriptor again. The kernel claims the       *)
(* interface for a file that has not done so, if nobody has it.            *)
IssueRead(s) ==
    /\ At(s, "issue")
    /\ LET f == IF ec20.desc = 0 THEN 0 ELSE file[Dev] IN
       IF f > gone /\ holder \in {0, f}
       THEN /\ reader' = [reader EXCEPT ![s].pc = "reading", ![s].file = f]
            /\ holder' = f
       ELSE Goto(s, "end") /\ UNCHANGED holder
    /\ UNCHANGED <<worldVars, ec20, file, sessions, onTty, bpc, sock, logVars>>

(* The file of a read is closed for good when it returns.                  *)
Drop(f) == holder' = IF holder = f /\ file[Dev] # f THEN 0 ELSE holder

ReadReturns(s) ==
    /\ At(s, "reading")
    /\ toHost # <<>>
    /\ reader' = [reader EXCEPT ![s].pc = "got", ![s].buf = Head(toHost)]
    /\ toHost' = Tail(toHost)
    /\ Drop(reader[s].file)
    /\ UNCHANGED <<bus, tty, replugged, gone, sent, ec20, file, sessions, onTty, bpc,
                   sock, logVars>>

(* if (count > 0 && udev->desc): what it has read is lost otherwise.       *)
TestAgain(s) ==
    /\ At(s, "got")
    /\ Goto(s, IF ec20.desc # 0 THEN "put" ELSE "end")
    /\ UNCHANGED <<worldVars, ec20, file, holder, sessions, onTty, bpc, sock, logVars>>

PutMutant(s) ==          \* into control[0][0], which leads to the other end
    /\ At(s, "put")
    /\ Goto(s, "test")
    /\ UNCHANGED <<worldVars, ec20, file, holder, sessions, onTty, bpc, sock, logVars>>

(* write(control[0][1]) and its result ignored: to descriptor 0 if the     *)
(* record was cleared, to nobody if the socket is full or the descriptor   *)
(* closed, and a signal ends the child if only the other end is closed.    *)
Put(s) ==
    /\ At(s, "put")
    /\ Goto(s, "test")
    /\ LET n == ec20.far
           c == [n |-> reader[s].buf, by |-> s] IN
       /\ stray' = IF n = 0 THEN stray \cup {c.n} ELSE stray
       /\ bpc' = IF n # 0 /\ file[Far] # 0 /\ file[Near] = 0 THEN "killed" ELSE bpc
       /\ LET live == n # 0 /\ file[Far] # 0 /\ file[Near] # 0 IN
          /\ sock' = IF live /\ Len(sock) < Room THEN Append(sock, c) ELSE sock
          /\ full' = (full \/ (live /\ Len(sock) >= Room))
    /\ UNCHANGED <<worldVars, ec20, file, holder, sessions, onTty, heard, quiet>>

Reader(s) == TestDesc(s) \/ IssueRead(s) \/ ReadReturns(s) \/ TestAgain(s) \/ Put(s)

-----------------------------------------------------------------------------
(* The module and the user (external). *)

ChunkArrives ==
    /\ Running
    /\ sent < MaxChunks
    /\ sent' = sent + 1
    /\ toHost' = Append(toHost, sent + 1)
    /\ UNCHANGED <<bus, tty, replugged, gone, ec20, file, holder, sessions, onTty,
                   bpc, reader, sock, logVars>>

(* The module restarts or is unplugged: reads underway fail.               *)
Replug ==
    /\ Running
    /\ ~replugged
    /\ replugged' = TRUE
    /\ gone' = sessions
    /\ bus' \in Buses
    /\ tty' \in BOOLEAN
    /\ toHost' = <<>>
    /\ holder' = 0
    /\ reader' = [s \in 1..2 |-> IF reader[s].pc = "reading"
                                 THEN [reader[s] EXCEPT !.pc = "end"] ELSE reader[s]]
    /\ UNCHANGED <<sent, ec20, file, sessions, onTty, bpc, sock, logVars>>

BridgeNext ==
    \/ Main
    \/ \E s \in 1..2 : Reader(s)
    \/ ChunkArrives
    \/ Replug

BridgeSpec == BridgeInit /\ [][BridgeNext]_bridgeVars

-----------------------------------------------------------------------------
Chunks == 1..MaxChunks

BridgeTypeOK ==
    /\ bus \in Buses
    /\ {tty, replugged, onTty, full, quiet} \subseteq BOOLEAN
    /\ ec20 \in [desc : {0, Dev}, near : {0, Near}, far : {0, Far},
                 id : {"none", "edl", "quectel"}, ifaces : {0, 1, 4}]
    /\ file \in [{Near, Far, Dev} -> 0..2]
    /\ holder \in 0..2
    /\ sessions \in 0..2
    /\ bpc \in {"entry", "open", "claim", "pair", "use", "near", "far", "clear",
                "exit", "killed"}
    /\ reader \in [1..2 -> [pc : {"none", "test", "issue", "reading", "got", "put", "end"},
                            file : 0..2, buf : 0..MaxChunks]]
    /\ sock \in Seq([n : Chunks, by : 1..2])
    /\ Len(sock) <= Room
    /\ toHost \in Seq(Chunks)
    /\ sent \in 0..MaxChunks
    /\ gone \in 0..2
    /\ heard \in [1..2 -> Seq([n : Chunks, by : 1..2])]
    /\ stray \subseteq Chunks

(* A session that is closed while its reader waits for data leaves nothing *)
(* behind: no chunk is ever written to another descriptor, no signal ends  *)
(* the child, and the next session finds the interface free. A reader that *)
(* holds a chunk at that moment can do all three.                          *)
QuietCloseIsClean ==
    quiet => /\ stray = {}
             /\ bpc # "killed"
             /\ holder \in {0, sessions}

(* What a session reads: the numbers of the chunks its main thread has     *)
(* read, of those in the socket, of the one its reader holds and of those  *)
(* the module holds ready.                                                 *)
Numbers(chunks) == [k \in 1..Len(chunks) |-> chunks[k].n]

Held(s) == IF reader[s].pc \in {"got", "put"} THEN <<reader[s].buf>> ELSE <<>>

Pending(s) == ((Numbers(heard[s]) \o Numbers(sock)) \o Held(s)) \o toHost

(* What one session of the child reads has been read by that session's own *)
(* reader, in the order in which the module sent it, and nothing is        *)
(* missing from it up to the last chunk sent, unless the socket was full;  *)
(* in the first session everything is there. The reader of the session     *)
(* before does not interfere.                                              *)
StreamUnbroken ==
    /\ quiet => \A s \in 1..2 : \A k \in 1..Len(heard[s]) : heard[s][k].by = s
    /\ quiet /\ ~full /\ bpc = "use" /\ ~replugged =>
          LET p == Pending(sessions) IN
          /\ sessions = 1 => Len(p) = sent
          /\ \A k \in 1..Len(p) : p[k] = sent - Len(p) + k

(* While the devices stay as they are, neither session ever talks to a     *)
(* module that is not in emergency download, whatever else is attached:    *)
(* only the entry checks the ids, and both sessions look for the device    *)
(* anew, taking normal Quectel modules, too.                               *)
SessionsAreEmergency ==
    bpc = "use" /\ ~onTty /\ ~replugged => ec20.id = "edl" /\ ec20.ifaces = 1
=============================================================================
