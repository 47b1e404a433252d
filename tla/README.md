# QFlash in TLA+

QFlash upgrades the firmware of a cellular module over USB or a serial port. Most of
what can go wrong with it happens between two parties that cannot see each other: the
host process waits with a timeout, gives up, resends, closes the port and opens it
again, while the module answers late, logs unasked, restarts, or loses power half way
through its flash. This project models that control, checks it on small instances with
TLC and proves the safety of nearly all of it, for every size of its parameters, with TLAPS.

Line numbers are those of `src/`.

## 1. Inventory

### 1.1 Components

| component | source | state it keeps | operations |
|---|---|---|---|
| upgrade driver | `os_linux.cpp` main, qdl_pre_download, qdl_post_download, os_ready | `update_method`, `g_hCom`, the QdlContext | parses the options, picks the method, runs it, reports |
| upgrade flow over the diagnostic port | `download.cpp:785-997`, `serialif.cpp` sahara part, `os_linux.cpp:99-164` | the label it is at, `emergency_mode`, `emergency_diag_port`, the port | open, module_state, switch_to_dload, sahara hello / data / do, close_and_reopen |
| handshake with the programmer | `serialif.cpp:347-491`, `download.cpp:938-971` | the handler's `timeout` | hello, security mode, partition table (without and with override), download flag |
| streaming download | `download.cpp:90-185, 999-1062`, `serialif.cpp:495-648` | image, address, `timeout`, `retry_cnt` | open, write, close an image; reset |
| HDLC framing | `serialif.cpp:45-175` | receive and send buffers | escape, unescape, CRC, receive_packet |
| AT channel | `atchannel.cpp`, `ril-daemon.cpp` | `s_fd`, `s_readerClosed`, `sp_response`, mutex, condition | send a command, read lines, tear down |
| AT to fastboot | `download.cpp:702-783` | the command it is at | ATE0, ATI, AT+QFASTBOOT, wait for fastboot |
| fastboot child and its parent | `fastboot/*.c`, `download.cpp:241-342` | the action queue; the counted OKAYs | flash, reboot; count lines |
| firehose child and its parent | `firehose/*.c`, `download.cpp:188-240, 659-692` | sahara state; the place in the command list | sahara, configure, erase, program, reset |
| USB bridge | `firehose/usb_linux_firehose.c` | the device record, a socket pair, a reader thread | open, close, read, write |
| package | `file.cpp` | `ufile_list`, the names and buffers of the image files | parse md5.txt, check the files, fill the list |
| detection | `quectel_common.cpp`, `fastboot/usb_linux_fastboot.c` | none | looks at sysfs and usbfs |
| progress, log, md5, CRC | `quectel_common.cpp`, `quectel_log.cpp`, `md5.cpp`, `quectel_crc.cpp` | counters, a file | arithmetic, output |
| XML parser | `tinyxml*.cpp`, `tinystr.cpp` | - | vendored |

The driver calls one of three flows: the diagnostic-port flow (method 1, or method 0 when
fastboot is used after a first stage), the AT flow (which ends in fastboot), or firehose.
The diagnostic-port flow calls the sahara helpers, then the handshake, then the streaming
download. The flows share one global port (`g_hCom`) and one configuration record. The
AT channel has a second thread (`readerLoop`) and two callbacks; fastboot and firehose
run as a child process whose standard output the parent reads through a pipe.

### 1.2 What is hard, and what makes each part correct

*Streaming download.* Answers carry no sequence number. A late acknowledgement is taken
for the one of the chunk just sent; a log packet can come instead of any answer; the line
is flushed before some packets and not before others; results are ignored in some places.
It is correct when chunks of one image never reach another's partition, the module is
reset only after everything is closed, success means that every image is there, a chunk is
missing only where a resend happened, and what it says over the line always ends.

*Handshake.* Only the hello flushes the line, so an answer whose handler gave up is read by
the next handler. It is correct when images are flashed only to a programmer that has
accepted the package, with the download flag set.

*Upgrade flow.* The module may lose power or start over at any label; the flow loops back
twice (to `sahara_get_hello` and to `__normal_download_`) with no bound of its own. Its handshake
may go on although the download flag was not set, and only logs it. It is correct when a module can be
upgraded again wherever it was interrupted unless the handshake missed something, success without
resends means whole firmware that starts, and every run ends.

*AT channel.* Two threads, one mutex, flags read outside the mutex, a descriptor closed
outside it. It is correct when the command thread never writes to a closed port, each
command gets its own answer, whole and in order, and the module's leaving ends every wait.

*Fastboot.* The parent never sees the child's status, only its lines; the bootloader keeps the
image of the last child in its buffer; a transfer has no timeout. It is correct when the count of
OKAY lines means what the child's status means, a partition gets its own image or none, and the
loss of the module ends the upgrade.

*Firehose and sahara.* The child reads a stream: responses and logs come together, late or not
at all; what it does not recognise it drops. The parent believes a log line of the module. They
are correct when that line proves that everything was programmed, commands never end up in an
image, and sahara's success means that the programmer runs or the module was restarted.

*USB bridge.* Two threads share one record without a lock, in two sessions of one process whose
descriptors have the same numbers. It is correct when a session that is closed while its reader
waits leaves nothing behind, each session hears its own reader only, in order and with nothing
missing, and both talk to the module in emergency download that the entry has seen.

*HDLC framing.* Buffers of fixed size that nothing checks, never cleared; reads that cut packets
anywhere. It is correct when the buffers hold, the module finds in a frame the packet that was
composed, and the buffer starts with the oldest frame not yet handled.

*Package, detection, driver.* The results are true, false, 0, 1 and -1, and false is 0, which is
success in some places; files are looked up by parts of their names; devices are never remembered,
only the number of a port; a child is waited for without limit. They are correct when only checked
files are used, success needs everything its method needs, ports and children belong to the module
that was found, and every run ends that does not wait for a child or an AT command for ever.

The `hazards` of `PROJECT.json` list, with its line, each of these and the properties that
would catch it going wrong.

## 2. Modules

| module | role |
|---|---|
| `PackageFlash` | abstract: what an upgrade promises of the partitions, whichever protocol does it |
| `StreamingDownload` | the streaming download, the line, the module; shown to implement `PackageFlash` |
| `Handshake` | the handshake with the programmer |
| `UpgradeFlow` | the whole diagnostic-port flow with power cuts and further runs |
| `AtChannel` | the AT channel's two threads under the sequence to fastboot |
| `Fastboot` | the fastboot child and its parent; shown to implement `PackageFlash` |
| `Sahara` | `sahara_main` of the firehose child: loading the programmer, the memory dump |
| `RawProgram` | the rawprogram file and what the child makes of it, as operators |
| `Firehose` | extends it: the firehose child after sahara and its parent; shown to implement `PackageFlash` |
| `UsbBridge` | the child's transport: reader threads, the shared record, descriptors |
| `Framing` | the serial transport: `send_packet` and `receive_packet` byte by byte |
| `Transport` | the two transports as the two cases of one system |
| `Package` | `image_read`, as operators over a package |
| `Detection` | what sysfs, usbfs and the port names yield, as operators over a bus |
| `Driver` | extends both: one run of the program from its options to its report |
| `UpgradeProofs` | the theorems about `Driver` and `UpgradeFlow` |
| `*Proofs` (others) | the theorems of the module they are named after |
| `MC*` | the instances TLC checks |

### 2.1 StreamingDownload

`pc` is where the host is in `do_flash_mbn` and its callers: `prepare`, `opening`
(handle_openmulti waits), `write` / `writing` (handle_write is about to send / waits),
`closing` (handle_close waits), `reset`, `wait_adb`, `fastboot`, `done`. `cur`, `chunk`,
`timeout` and `retry_cnt` are the locals; `retry_cnt` is kept per image, because the
properties speak of what an image's budget was when it was closed. `toDev` and `toHost` are
the two directions of the serial line. `FlushAndSend` is `qdl_flush_fifo` followed by
`send_packet`: flushing discards what was written last and not transmitted, in any amount,
and everything received. `Receive` is `receive_packet`: it takes all that has arrived as one
buffer and looks at its first byte, so answers behind the first are lost. A handler is the
actions that begin with its name: handle_openmulti is `Open`, `Opened`, `OpeningLog`,
`OpenRefused`, `WaitAgain`, `OpenTimeout`; handle_write is `Write`, `WriteError`, `Written`,
`Resend`, `ResendError`, `GiveUp`; handle_close is `Close`, `Closed`, `CloseRefused`,
`CloseTimeout`. For method 0 the stage images and the invalid boot image are streamed and
the rest goes through fastboot, one `FastbootFlash` per image; a fastboot child need not return
(`StreamedPart` is what must go on).

The module (external) takes packets in order, answers each at most once and may answer at
any later time, rejects any packet, and sends log packets. A packet or an answer may be lost.

### 2.2 Handshake

`pc` is the handler in progress, `sent` whether it has sent its command. Each handler sends
(`Send`) and then waits at most `Tries` times. What each does with its own answer, another
answer, a log packet or no answer is an action: `Greeted`, `HelloLog`, `HelloRefused`,
`Trusted`, `NotTrusted`, `TableAccepted`, `TableRefused`, `FlagAnswered`, `WaitAgain`,
`GiveUp`. The last differs from handler to handler (handle_hello gives up with success).

### 2.3 UpgradeFlow

`label` is the label of `process_streaming_fastboot_upgarde` or the call in progress, `reported` what
the run has told the user. `mode` is
what the module runs (its firmware, sahara in the boot loader, emergency download, the
programmer, nothing); `fw`, `flag` and `same` are what survives a power cut. The handshake
is `Shake`, `ShakeFails` and `SetFlag`, the flashing `Flash`, `ResendChunk`, `Flashed` and `FlashFails`:
what `Handshake` and `StreamingDownload` make of them. `Shake` may go on with a hello that was not
heard (`serialif.cpp:383`), and with an override that answers a lost answer; `SetFlag` with a
command that was lost, refused or unknown (`download.cpp:965`): `missed` remembers either, of the last
handshake. `Flashed` leaves firmware that is `"holed"`, perhaps, if a chunk of this run was sent twice
(`resent`), since then an acknowledgement may have been another chunk's (`HolesCostResends` of
StreamingDownload; without a resend every chunk is there, `CleanImagesComplete`). `PowerCut` may happen
at any step, `RunAgain` is the user's next attempt. `Boots` says what a module may start: download mode
if its flag is set, emergency download if it is blank, otherwise its firmware if that is whole; if
images are still to come it is bricked, and with holes it starts or not.

### 2.4 AtChannel

Every section of the source under `s_commandmutex` is one action, except that a command is
written in a step of its own: the mutex is held from `CheckChannel` to `WriteCommand`, and
`ClosePort`, which takes no mutex, may come between. `cpc` and `rpc` are where the command and
the reader thread are. `s_commandcond` is a signal that was sent and not yet taken. The lines
of the module are records (kind, the command they answer, their number in the answer). Unsolicited
lines may be SMS notifications, others, or final responses that nobody asked for (the comment at
`atchannel.cpp:169` names NO CARRIER): one of these ends the command that is pending, whose own
final response then belongs to the next. `OwnAnswer` says how far
behind the answers may then get.

### 2.5 Fastboot

The parent is `cur` (the image it started a child for), `recv_okay`, `flashed` and `result`; the
child `cpc` (which call it is in), `queue` (the actions of engine.c it has not completed) and `usb`
(its handle). `Child` is the popen, with the child's main up to the opening of the device; a line
is counted when it is printed, since the parent looks at the count only at the end of the output.
`SendCommand`, `SendData`, `NoData`, `Okay` and `Refused` are `_command_send`, `Response` one turn of
`check_response`; a FAIL, a data size that is too large, an unknown status and DATA where none was
asked for are one action, for each ends the child with FAILED. The bootloader (external) answers
each command once or never, and may leave the bus at any moment, in the middle of a write too:
the partition is `Torn` then. Its texts are assumed not to contain "OKAY", which the parent would
count; the mutant of `CountMeansDone` is a bootloader that does.

### 2.6 Sahara

`state` is `sahara_data.state`, with `kicked` for the second wait of WAIT_HELLO, `retval` what
`sahara_start` returns. `Rx` is `sahara_rx_data(0)` that returned true: exactly one packet was there.
`RxFails` is one that returned false: a timeout (an answer may be on its way), two packets in one
read, or something that is no packet, such as the log of a programmer that runs already.
`ReadData` is `start_image_transfer`, which may write all, a part or nothing of the piece, its result
being ignored. The module may have been left anywhere by an earlier run (`Init`): waiting for the
answer to its hello, for data, for DONE, or in a memory dump. In `load` it takes everything
for data, the host's resets too (`DevSpoilt`). A module that restarts by itself in the middle is
not modelled: its USB device goes, and every further read of the host fails.

### 2.7 Firehose

`RawProgram` is the file: the element and the attributes of each line, the lines that
`fh_parse_xml_line` keeps, the sectors that `fh_fixup_program_cmd` computes from a file's size and the
reads into which `fh_send_rawmode_image` cuts it, each padded to whole sectors. Sizes are counted in
sectors, an image being whole sectors and perhaps a rest. Two assumptions stand for what the code
does not check: the table holds 32 commands (`TableHolds`), and a programmer's payload is a multiple
of the sector size (the padding would be written past the buffer otherwise).

`ppc` is the parent, `pc` and `waiting` the child: the command it is at, and whether it is in
`fh_wait_response_cmd`. `SelfPath` is whether the program finds its own path: `do_firehose` returns 0, its
value for success, if it does not (`download.cpp:206`). `Answered(r)` is a read whose first response is r, `OnlyLogs` one with
logs alone; the rest of what was read is gone, but the parent has seen it (`ok`). `SaharaDone` has
both outcomes that `TrueIsLoadedOrReset` of Sahara leaves: the programmer runs, or the module was
restarted. Erases and programs are two loops over one table; they are numbered separately here.
The programmer (external) counts the data it was promised, so that a command sent too early would
become part of an image (`RawIsOwnImage`).

### 2.8 UsbBridge

The main thread (`bpc`) opens the bridge for sahara and again for the programmer; each session has a
reader thread (`reader[s]`), and both threads use the one record `ec20`. `file` says which session's
file a descriptor number stands for: the numbers are the same in both sessions, so a reader that
outlives its session finds the next one's. Each use of a field is a step: `TestDesc` (`while(udev->desc)`),
`IssueRead`, `ReadReturns`, `TestAgain`, `Put`; and so is each call of `qusb_close`: `CloseRelease`,
`CloseNear`, `CloseFar`, `CloseClear`. `holder` is usbfs's claim of the interface (external), which
the kernel also makes for a reader that has not claimed it. `heard[s]` is what the main thread has
read in session s, and by which reader. Sahara and Firehose read from a stream
that loses nothing on the host's side: `StreamUnbroken` says when that is so. A session that is closed
while its reader holds a chunk (`quiet` is false then) has none of these promises: the chunk may
go to descriptor 0, a signal may end the child, or the reader may claim the interface again.

### 2.9 Framing

`Compose` is `compose_packet` with `compute_reply_crc`, `EscapeByte` one turn of `send_packet`'s loop,
`Read` one turn of `receive_packet`'s. `RemoveEscapeHdlcFlag` works in place, as the code does: the
buffer keeps what earlier packets left, and the search for the first byte that is no flag may run
into it (`past`). `Transport` is either `Framing` or `UsbBridge`: the serial methods use the one, the
firehose child the other.

### 2.10 Package, Detection, Driver

A package is a record of what is in the directory, and `ImageRead` the order of the checks of
`image_read`. `ParseMd5File` is the list that the lines of md5.txt make: which items it has, for the
lines that are skipped add none, and a line without a pair repeats an item or, in front of all pairs,
adds an empty one (`NoItem`). `LookupItem` is `lookup_item` with its `strstr` (`Within` lists which name
stands in which path). An element of the XML file is a function from its tags to their texts;
`UfileList` is the elements that are kept, at their positions, and `left` the positions fastboot has
still to flash. A bus is a
sequence of devices in the order of the directories; `TtyusbDevDetect`, `DetectAdb`, `IsEmergency`,
`UsbOpen` and `ProbePort` say which of them each detection takes. `Driver` looks at the bus anew in
every step, as the code does. `hCom` is what was opened, with the device and its generation, so that
a port whose device has gone is not `Live`. `Modem` is `serial_open` with the AT commands. `pc = "waits"` is a
command that is never answered (section 6), or a child that does not return from a transfer: `FlashNext`,
`FlashDone` and `RunFirehose` start children, and the program reads their output until they end. `unstarted`
remembers a firehose child that could not be started, which `do_firehose` reports as success. `BuiltIn` are
the images that `do_flash_mbn` does not look for, because a word stands in their path; `Within` has these
words too. What is said over a port succeeds or fails. `Leave` and
`Return` are a module that restarts because it was asked to (`asked`, for each device: two of them may be
on their way at once), `Move` a device that comes or goes.

## 3. Runs

| run | question | bounds and why they are enough |
|---|---|---|
| `streaming` | Does a download that reports success put the package on the module? | Misc, a stage image of two chunks, MIBIB, an image of three chunks that only method 1 streams, the invalid boot image: every branch on the list's names, a chunk that is first, middle and last. Three tries per chunk (as in the code), two waits per open and close (the code's 5: a first that fails, a last that fails). One log packet: more of them only consume more of the same budget. |
| `handshake` | Can a belated answer let a package be flashed that was not accepted? | Two waits per handler, so that one may time out and the next succeed, and each handler may give up; two log packets, to displace two answers. |
| `upgrade_flow` | Is the module upgradable again after any interruption, if its handshake missed nothing? | Three runs, two power cuts, two rounds: a run after a run that followed an interrupted one. |
| `at_channel` | Do the two threads and at_close cooperate? | Two information lines and two unsolicited ones, of any kind: before, between and after each other. The sequence of commands is the code's. |
| `fastboot` | Is every image flashed that was counted? | Five positions, one of them MIBIB and one a stage file, so three children and the reboot; two INFO lines, three leaves: before, during and after a child. |
| `firehose` | Does the log line prove the upgrade? | Six lines: two erases and two programs in mixed order, another element and a blank program between; images of up to two whole sectors and a rest, payloads of one and two: none, one and several writes, the last padded or not; two logs, to be read with a response or before it. |
| `sahara` | Does its success mean what firehose needs? | Three pieces, two regions of two chunks: first, middle and last; a first stage and the programmer. No counter is bounded otherwise. |
| `transport` | Do the bytes arrive as they were sent? | A flag, an escape and a third byte; packets of one to three bytes and two of crc; four answers, three frames, so that two are read together behind a third; a buffer of 16 bytes, more than they fill. Two sessions, three chunks, room for one: a chunk read, one in the socket, one dropped. A module alone, with a driver, behind a foreign device and behind a running module; one replug. 1.2 million states. |
| `driver` | Does the driver choose and read right? | Packages with one part changed, each under six md5 lists; 21 buses of one and two devices; 13 command lines; two restarts, one device that moves, waits of one second (the code's 3 to 30 only repeat the step). 0.7 million states. |
| `at_timeout` | Does a command without an answer ever return? | violated: see section 6 |
| `handshake_flag` | Is the download flag always set after an override? | violated: see section 6 |
| `upgrade_port` | Is the port open whenever a protocol uses it? | violated: see section 6 |

All cfgs switch deadlock checking off: a QFlash run ends, and then nothing happens.

What they show: `streaming` that no interleaving of losses, late and unknown answers, log
packets and failing writes mixes two images, resets early or reports a success the module
does not have; that an image written without a resend is whole (`CleanImagesComplete`), and
that a chunk can be missing from a closed image, but never more chunks than resends were
spent on it (`HolesCostResends`). `handshake` that a late answer cannot stand for acceptance
(`FlashIsAccepted`). `upgrade_flow` that no sequence of power cuts and runs bricks a module unless
something of its last handshake was lost, late or refused, or a closed image has holes
(`BricksOnlyIfMissed`: the code flashes on without the flag then, so a power cut during the flashing does
brick it); that success without a resend starts whole firmware whatever was missed (`SuccessStarts`);
and that the two unbounded loops end when the module stops starting over. `streaming`'s `Terminates` is
about what goes over the line: with method 0 the download ends or has come to fastboot, everything
streamed being closed, where a child may not return.
`at_channel` that the port is not closed under a writer although at_close takes the mutex only
afterwards, because at_close is reached only through `MarkClosed`, under the mutex. `fastboot`
that two OKAY lines are as good as the child's status, and that a failed download never lets the
buffer's old image be flashed, because `fb_execute_queue` leaves its queue. `firehose` that the
reset, whose log line counts as success, is only ever sent after every program was acknowledged
by a response that can belong to nothing else. `sahara` that a success is one although
WAIT_DONE_RESP does not look at the command of what it reads, and that the memory dump is safe
because the branch that halves the read size and tries again cannot be taken (the size starts
below its limit): with it, a late chunk would be written twice. `transport` that a reader that waits
ends with its session, because the release of the interface comes before the descriptors are
closed (the mutant of `QuietCloseIsClean` leaves it out); and that unescaping keeps the closing
flags but starts with the oldest frame, unless a flag of an earlier packet is taken for a leading
one. `driver` that the odd results cancel out but for one: success is only said after a flow that had what
it needs, although `os_ready` and `openport` report some failures as 0, or after a firehose child that could
not be started (`SuccessIsWhole` names the exception; section 6); that the port is the module's
and the fastboot children open the module as long as nothing else moves (`OpensTheModule` and
`ChildTakesTheModule` list what is needed); and that each run ends but for
the AT command without an answer, a child that does not return, and a modem port that is not there, which
`serial_open` tries for ever. A run of method 1, which has none of these, always ends.

The type invariants are no properties of the runs: all but Transport's are proved (section 5); what
Driver has of one is `PackageInv`, `BusInv` and `MethodInv` of its proofs.

## 4. Fairness

The host is one process that is never blocked for ever: each wait of the serial protocols is
a `select` with a timeout, after which the code counts and goes on. `Spec` therefore assumes
`WF_vars(Host)` and nothing of the module or the line; a module that is silent for ever is
among the behaviours. In AtChannel both threads run (`WF_vars(Command)`, `WF_vars(Reader)`), and
`pthread_cond_wait` waits without limit: a command waits for ever if nothing wakes it. Where a
step of the host needs something of the module (an adb interface, an open port), the code has
a timeout that is a step of the host's own, so `WF` of the disjunction is all that is needed.
Transfers over usbfs have no timeout, and a parent reads the output of its child until that ends
(`download.cpp:229, 293`). In Fastboot a child may therefore wait for ever, and only
`LossEnds` is claimed: once the handle is lost, the upgrade ends. For the same reason
StreamingDownload is fair to `StreamedPart` only, which leaves the fastboot children out, and Driver's
children may end in `"waits"`. In Sahara and Firehose reads have
timeouts and writes have none, so `Spec` adds that the module takes what it is sent
(`WF_vars(Module)`, `WF_vars(DevTakes)`); answering is never required.
In Driver the host alone is fair: devices may stay away, which the waits count, and `Modem` is enabled
only while its port exists.
Progress against a module that logs for ever is not claimed: `MaxLogs` bounds the logs.

## 5. Proofs

`StreamingDownloadProofs` proves, from `DownloadAssumption` alone (any number of images, chunks,
tries and log packets):

| theorem | statement |
|---|---|
| `TypeCorrect` | `TypeOK`, with what `timeout` and `retry_cnt` mean at each `pc` |
| `LinesSafe` | what is on the line and open on the module is ordered |
| `ChunksStayHome` | `OwnPartition` |
| `ResetIsLast` | `ResetComesLast` |
| `SuccessCoversPackage` | `SuccessIsComplete` |
| `HolesAreBounded` | `HolesCostResends` |
| `NoResendNoHole` | `CleanImagesComplete` |
| `Refinement` | `ImplementsPackageFlash` |

None of the properties is inductive. The invariant `IInv` is the conjunction of five parts: `TypeOK`;
`RetryInv` (a chunk is on its way only while a try is left); `Safe`; `OwnPartition`; and `Balance`. `Safe`
is the heart, in three parts. `LineInv`: everything on the line to the module belongs to the image in
progress, a write or a close is on it only while the module has that image open, and a reset only
when all that is streamed is done. `PhaseInv`: what either direction of the line may hold at each `pc`;
in particular an `opened` has arrived only when the line is empty and this image is open, a `closed`
only when it has been closed. `OrderInv`: how far the list has got. They are needed because the host
trusts an answer without knowing which packet it answers: only the emptiness of the line at
`prepare` and its order make an `opened` mean that this image is open. `OwnPartition` follows from
`LineInv` at `DevWrite`. `Balance` keeps accounts of acknowledgements, for the host counts a chunk as
written on any acknowledgement, also the belated one of another chunk. Its core, `BalanceInv`, is
`chunk + Acks + Waiting <= |Started| + Spent`: each acknowledgement the host has counted (`chunk`), may
still read (`Acks`) or will be sent (`Waiting`) is that of a chunk that has begun to be stored
(`Started`), each chunk once, or was paid for with one of the resends spent on the image (`Spent`).
When the close is composed every chunk has been counted, so at most `Spent` chunks are missing, and
`HolesCostResends` follows; `NoResendNoHole` is the case without a resend. `FlashInv` and `StartedInv` say
what the partitions hold meanwhile. `Init => IInv` and `IInv /\ [Next]_vars => IInv'`
are proved with one step per action. The refinement is proved step by step (`StepIsPromised`): an
action that closes a partition is `Complete` (`CommitIsComplete`, which needs the order of the list), an
end is `Succeed` or `Fail` (`SuccessIsSucceed`, `FailureIsFail`), everything else is a stutter.

`FastbootProofs` proves, from `FastbootAssumption` alone (any list of images, any number of INFO lines
and of times the module leaves):

| theorem | statement |
|---|---|
| `TypeCorrect` | `TypeOK` |
| `CountIsStatus` | `CountMeansDone` |
| `OwnImages` | `OwnImage` |
| `FlashedAreHeld` | `FlashedIsHeld` |
| `Refinement` | `ImplementsPackageFlash` |

The invariant has three parts besides `TypeOK`. `ChildInv` ties the parent's count to the child's
queue: no OKAY with both actions to do, one with the flash to do, two with nothing to do; and the
image in progress is the first one left. `LineInv` says that there is one exchange at a time: while a
command or data is on its way no final answer is, and of the answers on their way at most one is not
an INFO line (`One`). That is why an OKAY that is read belongs to the action in front of the
queue, so that it means "the buffer holds this image" for a download and "the partition does" for a
flash. `NoData`, an OKAY where DATA was expected, is the case that needs it: the child then waits for
an OKAY that cannot come, for the exchange is over, and it is the module's leaving that ends it. `HeldInv` says what
the partitions hold of the images that are done, in progress and to come. A flash is `Complete` of
the promise (`FlashOnItsWay` gives the order), a torn write is a stutter (`TearIsStutter`), since the
partition did not hold its image before.

The other proof modules follow the same plan: an inductive `IInv`, one lemma per action or group of
actions, and each property as a consequence. Each assumes what its module's ASSUMEs name, and no more.

| module | theorems (property) | what the invariant adds |
|---|---|---|
| `HandshakeProofs` | `FlashingIsAccepted` (`FlashIsAccepted`), `PromptIsFlagged` (`PromptFlashIsFlagged`) | `LineInv`: commands are on the line in the order of the handlers, and what an answer on its way says is already true of the programmer, so that a late one cannot lie. `CalmInv`: a prompt programmer has nothing on the line between two handlers. |
| `UpgradeProofs`, of `UpgradeFlow` | `StaysUpgradable` (`BricksOnlyIfMissed`), `SuccessStartsFirmware` (`SuccessStarts`), `ModeAsServed` (`WaitsAsServed`) | `FlagInv`: firmware is torn only under a set flag or after a miss, and only once the tables are the same, so that an override sent later is a miss itself; holes come from a resend. `ModeInv`: what each mode says of flag and firmware. `ServeInv`: which programmer was served says what the module survives with. |
| `UpgradeProofs`, of `Driver` | `SuccessNeedsPackage` (`SuccessIsWhole`), `FilesAreListed` (`CheckedBeforeUse`), `ChildrenOpenTheModule` (`ChildTakesTheModule`), `PortsOpenTheModule` (`OpensTheModule`) | `MethodInv`: which method each part of the flow belongs to. `CtxInv`: a flow has an accepted package and what was noted of it. `FlashInv`: an image that is not left any more was there for a child that had a device. `EarnedInv`: `result = 1` at the end is the flow's doing, or a firehose child's that was not started, not what was left of `Load`. `ChildInv`: while nothing moves, what restarts was never in fastboot mode, so that the device `detect_adb` found is there for the child, with a node it can use. `LeftInv`, `StartInv`, `HandleInv`: a device that is away has left; before os_ready nothing was asked to; ports are closed before a wait. `NumberInv`: the module comes back with the number it had (`OwnNumber`, by what `Lowest` chooses while others have the numbers below), except when it left while its old port was open (`OwnHandle`); then that port is dead, and it is closed before another is opened. |
| `SaharaProofs` | `SuccessIsLoadedOrReset` (`TrueIsLoadedOrReset`), `AcceptedImageIsFile` (`AcceptedIsWhole`), `DumpIsComplete` (`DumpIsWhole`) | `ModeInv`: the pieces a module took are a prefix of the file while it is not broken. `HelloHeard`, `CommandHeard`, `DoneHeard`, `DumpHeard`: which packets each wait may find, however late; `DumpInv` the place of each chunk. |
| `AtChannelProofs` | `WritesAreSafe` (`WritesToOpenPort`), `SignalsArrive` (no lost signal: the safety half of `HangUpEndsWait`), `AnswersStayInOrder` (`OrderInv`), `AnswersAreOwn` (`OwnAnswer`), `AnswersComeWhole` (`AnswerInOrder`) | `PortInv`: `at_close` runs only on a channel that was marked under the mutex, and a command is written only on one that is not. `OrderInv`: along the line, from what the reader holds to the command not yet read, the lines are in the order of the commands. `CountInv`: each command that another one's line has ended is paid for by a carrier line, so that the answers run no further behind than there were such lines. `WholeInv`: while nothing came unsolicited, all lines of the answer to ATI are in front of its OK or collected already. |
| `FirehoseProofs` | `RawIsWhole` (`RawIsOwnImage`), `SuccessIsEarned` (`SuccessIsProgrammed`), `Refinement` (`ImplementsPackageFlash`) | `LineInv`, `CmdInv`: one command or piece on its way, and at most one response not read. `ChildInv`: a response that is waiting belongs to the command the child is at. `RawInv`, `SendInv`: host and programmer agree on how far an image is. `OkInv`: the log of the reset proves the rest. |
| `TransportProofs` | `BuffersSuffice` (`BuffersHold`), `EmergencyOnly` (`SessionsAreEmergency`), `QuietCloseLeavesNothing` (`QuietCloseIsClean`), `StreamsAreUnbroken` (`StreamUnbroken`), `PacketsArrive` (`WireCarriesPacket`), `OldestComesFirst` (`FrontIsOldest`) | `Escaping`: what is written is at most twice what was read, and a flag. `Looking`: the record is empty whenever a session looks for its device. `CleanInv`: where the reader of a session that ends quietly can be at each step of the close. `Stream`: what was heard, what is in the socket and what the reader holds are, in this order and without a gap, what the device has sent. `Carried`: each byte of the packet that is escaped has its place in what is written. `ReceiveInv`: while no old flag misled it, what the call has read and what is pending are together the frames that are due, one behind the other (`Lay`), and what it has read does not end with a flag unless it is flags alone (`Begun`); so the first flag that ends a read with anything else in it ends a frame, and the frame at the front is the oldest. |

Each also has `TypeCorrect` (`UpgradeProofs` of UpgradeFlow only), and each but TransportProofs a theorem for
the whole of its `IInv`. Transport's rests on `FramesAreTyped`: what `remove_escape_hdlc_flag` moves comes
from inside the packet and goes inside the buffer, whatever an earlier packet left there (`RemovedIsBytes`).
The theorems about Driver hold for any packages and buses that are what
Package and Detection say and in which no ttyUSB number belongs to two devices (`SetupsAssumption`,
`PortsAssumption`), any command lines (`ArgsAssumption`), waits, restarts and
moves. Positions and slots are chosen with `Min` and `Max`; that such a choice exists is `Smallest`, from
the library's theorem that the finite sets of numbers are well founded. `BuffersSuffice` needs only
`2 * (Header + Cache + 2) + 2 <= SendTmpSize`, which the code's 2500 bytes satisfy with a header of 5 for
every cache that `-s` accepts (128 to 1204). `Refinement` of Firehose assumes `SelfPath`; without it the
promise is broken (`download.cpp:206`).

Only model-checked: the liveness properties (`Terminates`, `Ends`, `RunEnds`, `HangUpEndsWait`, `LossEnds`,
`DriverEnds`), which are out of the proof system's reach. Loops over the bytes of a packet need no recursion:
`EndOf` says where a byte of a frame ends on the wire and `Index` where `remove_escape_hdlc_flag` moves a
byte, both as the cardinality of a set, and what they say is proved with the library's facts on finite sets.

## 6. Disagreements between the code and what it says

- `at_timeout` / `CommandReturns`: `at_set_on_timeout(onATTimeout, 15000)` (`download.cpp:717`) has no
  effect. `at_send_command_full_nolock` takes `s_timeoutMsec` over only if it is 0
  (`atchannel.cpp:756`), so a command that is not answered waits for ever.
- `handshake_flag` / `OverrideIsFlagged`: "the download flag will be clear, so set it again"
  (`download.cpp:963`); but when the flag command fails the images are flashed all the same.
- `upgrade_port` / `PortIsOpen`: `openport` returns `false`, which is 0 and success to its callers, when
  `open` fails (`os_linux.cpp:130`), having set `g_hCom` to 0.

Met while modelling, and not stated as runs:

- `README.md:103` says of `-p` that the port "will auto-detect if not specified", but `os_ready` overwrites `g_default_port` with what it detects
  for the methods 0 and 1 (`ReadyByDiagPort`).
- `do_firehose` returns 0, success, when it finds no memory or cannot read its own path (`download.cpp:206`):
  the exception in Driver's `SuccessIsWhole`.
- `do_flash_mbn` takes any image in whose path "misc" or "invalid-boot" stands, the directory's part
  included, from its own bytes (`download.cpp:103`, `BuiltIn`), without looking for the file.
- The children's transfers have no time limit, nor has the parent's wait for them (`DriverEnds`).
- `serial_open` repeats once a second for ever (`ril-daemon.cpp:356`), also with the empty name that is
  left when `os_ready` finds no modem port and lets the run go on (`os_linux.cpp:299`).
- An image whose name has no colon makes `downloadfastboot` pass NULL to `strToLower` (`FlashNull`).

## 7. What is not modelled

- The vendored XML parser and string class; progress, statistics, logging, md5 and CRC arithmetic:
  nothing in the control depends on them (the host never verifies a CRC, and an md5 sum is a value).
- Code that nothing calls: the `sahara_reset` and `sahara_done` helpers of the serial flow, the
  `transfer_prog_nand_*` functions, `probe_quectel_speed`, the tokenizer of AT lines.
- The commands of the AT channel (raw data, SMS PDU, numeric, handshake) and of the fastboot child
  (erase, getvar, boot images, oem) that QFlash never uses.
- `get_product_model`, whose result is only logged, and how `is_emergency_diag_port` finds out what mode a
  module is in: UpgradeFlow takes its answer to be right.
- The text of the XML files, of AT lines and of logs: elements, kinds of lines and messages stand for it.
- The size of what the module sends in one frame: `receive_packet` has no limit of its own
  (`serialif.cpp:155`), and `ReceiveSize` bounds the frames instead; and the size of the partition table
  file (`serialif.cpp:454`), which is composed into a buffer of 2048 bytes unseen.
