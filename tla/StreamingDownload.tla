--------------------------- MODULE StreamingDownload ---------------------------
(***************************************************************************)
(* The streaming download protocol of QFlash: do_streaming_download and    *)
(* do_fastboot_download (download.cpp) drive do_flash_mbn, which opens a   *)
(* partition (handle_openmulti), writes it chunk by chunk (handle_write)   *)
(* and closes it (handle_close) over a serial line; then handle_reset      *)
(* restarts the module.                                                    *)
(*                                                                         *)
(* The host is the process of the source. The module at the other end of   *)
(* the line and the line itself are external: they are modelled from what  *)
(* the host's code expects of them and defends itself against (unsolicited *)
(* log packets, unknown answers, answers that never or belatedly arrive).  *)
(* A packet of the line is a record, its data the pair image and chunk     *)
(* number; the chunk number stands for the address divided by the size     *)
(* of a chunk (QdlContext->cache).                                         *)
(***************************************************************************)
EXTENDS Naturals, Sequences, FiniteSets

CONSTANTS
    UfileCount,   \* entries of ufile_list; an image is its position in the list
    Mibib,        \* the positions named "0:MIBIB"
    Stage,        \* the positions named 0:TZ, 0:RPM, 0:SBL or 0:aboot
    Chunks,       \* the number of chunks of each image
    ReplyTries,   \* timeouts handle_openmulti and handle_close wait out (5)
    WriteTries,   \* retry_cnt of handle_write (3)
    MaxLogs       \* bound: unsolicited log packets of the module

Misc       == 0                    \* do_flash_mbn("0:misc", "misc")
Images     == 1..UfileCount
Boot       == UfileCount + 1       \* do_flash_mbn("0:boot", "invalid-boot\n")
Partitions == 0..Boot
None       == Boot + 1             \* no partition is open

ASSUME DownloadAssumption ==
    /\ UfileCount \in Nat
    /\ Mibib \subseteq Images
    /\ Stage \subseteq Images \ Mibib
    /\ Chunks \in [Partitions -> Nat]
    /\ ReplyTries \in Nat \ {0}
    /\ WriteTries \in Nat \ {0}
    /\ MaxLogs \in Nat

VARIABLES
    method,       \* ctx->update_method: "streaming" (1) or "fastboot" (0)
    pc,           \* where the host is in do_flash_mbn and its callers
    cur,          \* the image do_flash_mbn is called for
    chunk,        \* addr of handle_write, in chunks
    timeout,      \* the local of handle_openmulti and handle_close
    retry_cnt,    \* the local of handle_write, for each image it was called on
    flashed,      \* the images do_flash_mbn (or fastboot) returned success for
    result,       \* how the download ended
    toDev,        \* packets on their way to the module, oldest first
    toHost,       \* replies the host's next read would return
    devOpen,      \* the partition the module has open
    flash,        \* <<partition, image, chunk>> written by the module
    committed,    \* the partitions the module has closed
    rebooted,     \* the module has carried out a reset
    logs          \* log packets sent so far

hostVars == <<method, pc, cur, chunk, timeout, retry_cnt, flashed, result>>
devVars  == <<devOpen, flash, committed, rebooted, logs>>
vars     == <<hostVars, toDev, toHost, devVars>>

(* 0x1b, 0x07, 0x15 and 0x0b; a reset names no image.                      *)
Packet == [type : {"open", "write", "close", "reset"},
           img : Partitions, chunk : Nat]

(* 0x1c, 0x08, 0x16, 0x0d, and whatever else the first byte may be.        *)
Reply == {"opened", "written", "closed", "log", "unknown"}

Pkt(t, c) == [type |-> t, img |-> cur, chunk |-> c]

(* The images this run flashes over the streaming protocol, misc and the   *)
(* invalid boot image aside, and those left to fastboot.                   *)
Streamed == IF method = "streaming" THEN Images \ Mibib ELSE Stage
Rest     == (Images \ Mibib) \ Streamed

Init ==
    /\ method \in {"streaming", "fastboot"}
    /\ pc = "prepare"
    /\ cur = Misc
    /\ chunk = 0
    /\ timeout = 0
    /\ retry_cnt = [i \in Partitions |-> WriteTries]
    /\ flashed = {}
    /\ result = "none"
    /\ toDev = <<>>
    /\ toHost = <<>>
    /\ devOpen = None
    /\ flash = {}
    /\ committed = {}
    /\ rebooted = FALSE
    /\ logs = 0

-----------------------------------------------------------------------------
(* The line. A write to the port can lose the packet (send_packet's result *)
(* is ignored by every caller but handle_write). TCOFLUSH discards what    *)
(* was written and not transmitted yet, which is what was written last;    *)
(* TCIFLUSH discards what was received and not read.                       *)

Sent(q, p) == {q, Append(q, p)}

NotFlushed(q) == {SubSeq(q, 1, k) : k \in 0..Len(q)}

(* qdl_flush_fifo(fd, 1, 1, 0) and then send_packet.                       *)
FlushAndSend(p) ==
    /\ \E q \in NotFlushed(toDev) : toDev' \in Sent(q, p)
    /\ toHost' = <<>>

(* receive_packet returns everything that has arrived as one buffer, whose *)
(* first byte alone is looked at: replies behind the first are dropped.    *)
ReceiveMutant(r) ==      \* the command byte is not compared
    /\ toHost # <<>>
    /\ toHost' = <<>>

Receive(r) ==
    /\ toHost # <<>>
    /\ Head(toHost) = r
    /\ toHost' = <<>>

-----------------------------------------------------------------------------
(* The callers of do_flash_mbn. *)

Later == {j \in Streamed : j > cur}

NextImageMutant ==       \* the package is flashed from its end
    \/ \E j \in Later :
          /\ \A k \in Later : j >= k
          /\ cur' = j
          /\ pc' = "prepare"
    \/ /\ Later = {}
       /\ method = "fastboot" /\ cur # Boot
       /\ cur' = Boot
       /\ pc' = "prepare"
    \/ /\ Later = {}
       /\ method = "streaming" \/ cur = Boot
       /\ pc' = "reset"
       /\ UNCHANGED cur

(* The loop's next image; fastboot's last one is the invalid boot image.   *)
NextImage ==
    \/ \E j \in Later :
          /\ \A k \in Later : j <= k
          /\ cur' = j
          /\ pc' = "prepare"
    \/ /\ Later = {}
       /\ method = "fastboot" /\ cur # Boot
       /\ cur' = Boot
       /\ pc' = "prepare"
    \/ /\ Later = {}
       /\ method = "streaming" \/ cur = Boot
       /\ pc' = "reset"
       /\ UNCHANGED cur

End(r) ==
    /\ pc' = "done"
    /\ result' = r

ImageFailedMutant ==     \* the result of do_flash_mbn is ignored for every image
    pc' = "reset" /\ UNCHANGED result

(* do_flash_mbn returned false: its result is ignored for the boot image.  *)
ImageFailed ==
    IF cur = Boot THEN pc' = "reset" /\ UNCHANGED result
                  ELSE End("failed")

(* The partition could not be opened: fclose(fp) with the NULL fp of an    *)
(* image that is not a file ends the process.                              *)
OpenFailed ==
    /\ IF cur \in {Misc, Boot} THEN End("crashed") ELSE ImageFailed
    /\ timeout' = 0
    /\ UNCHANGED <<method, cur, chunk, retry_cnt, flashed>>

-----------------------------------------------------------------------------
(* do_flash_mbn. *)

(* access, malloc or fopen fails before anything is sent.                  *)
Unreadable ==
    /\ pc = "prepare"
    /\ cur \in Images
    /\ ImageFailed
    /\ UNCHANGED <<method, cur, chunk, timeout, retry_cnt, flashed,
                   toDev, toHost, devVars>>

Open ==
    /\ pc = "prepare"
    /\ FlushAndSend(Pkt("open", 0))
    /\ timeout' = ReplyTries
    /\ pc' = "opening"
    /\ UNCHANGED <<method, cur, chunk, retry_cnt, flashed, result, devVars>>

Opened ==
    /\ pc = "opening"
    /\ Receive("opened")
    /\ chunk' = 0
    /\ timeout' = 0
    /\ retry_cnt' = [retry_cnt EXCEPT ![cur] = WriteTries]
    /\ pc' = "write"
    /\ UNCHANGED <<method, cur, flashed, result, toDev, devVars>>

(* A log packet is skipped and, unlike a timeout, not counted.             *)
OpeningLog ==
    /\ pc = "opening"
    /\ Receive("log")
    /\ UNCHANGED <<hostVars, toDev, devVars>>

OpenRefused ==
    /\ pc = "opening"
    /\ \E r \in Reply \ {"opened", "log"} : Receive(r)
    /\ OpenFailed
    /\ UNCHANGED <<toDev, devVars>>

WaitAgainMutant ==       \* timeout-- is forgotten
    /\ pc \in {"opening", "closing"}
    /\ toHost = <<>>
    /\ timeout > 1
    /\ UNCHANGED vars

(* receive_packet waited 5 s in vain, and must not be the last time.       *)
WaitAgain ==
    /\ pc \in {"opening", "closing"}
    /\ toHost = <<>>
    /\ timeout > 1
    /\ timeout' = timeout - 1
    /\ UNCHANGED <<method, pc, cur, chunk, retry_cnt, flashed, result,
                   toDev, toHost, devVars>>

OpenTimeout ==
    /\ pc = "opening"
    /\ toHost = <<>>
    /\ timeout = 1
    /\ OpenFailed
    /\ UNCHANGED <<toDev, toHost, devVars>>

(* handle_write: the next chunk is sent without a flush.                   *)
Write ==
    /\ pc = "write"
    /\ chunk < Chunks[cur]
    /\ toDev' \in Sent(toDev, Pkt("write", chunk))
    /\ pc' = "writing"
    /\ UNCHANGED <<method, cur, chunk, timeout, retry_cnt, flashed, result,
                   toHost, devVars>>

(* send_packet reported a short write: no retry.                           *)
WriteError ==
    /\ pc = "write"
    /\ chunk < Chunks[cur]
    /\ ImageFailed
    /\ UNCHANGED <<method, cur, chunk, timeout, retry_cnt, flashed,
                   toDev, toHost, devVars>>

WrittenMutant ==         \* every reply counts as an acknowledgement
    /\ pc = "writing"
    /\ \E r \in Reply : Receive(r)
    /\ chunk' = chunk + 1
    /\ pc' = "write"
    /\ UNCHANGED <<method, cur, timeout, retry_cnt, flashed, result, toDev, devVars>>

WrittenRefill ==         \* the commented-out "retry_cnt=5" refills the budget
    /\ pc = "writing"
    /\ Receive("written")
    /\ chunk' = chunk + 1
    /\ retry_cnt' = [retry_cnt EXCEPT ![cur] = WriteTries]
    /\ pc' = "write"
    /\ UNCHANGED <<method, cur, timeout, flashed, result, toDev, devVars>>

(* Any 0x08 counts as the acknowledgement of the chunk just sent.          *)
Written ==
    /\ pc = "writing"
    /\ Receive("written")
    /\ chunk' = chunk + 1
    /\ pc' = "write"
    /\ UNCHANGED <<method, cur, timeout, retry_cnt, flashed, result, toDev, devVars>>

NotAcknowledged ==
    /\ pc = "writing"
    /\ toHost # <<>> => Head(toHost) # "written"

(* retry_cnt is never set back: it is the budget of the whole image.       *)
Retry(more) ==
    /\ NotAcknowledged
    /\ retry_cnt[cur] > 1 <=> more
    /\ retry_cnt' = [retry_cnt EXCEPT ![cur] = @ - 1]
    /\ toHost' = <<>>

Resend ==
    /\ Retry(TRUE)
    /\ FlushAndSend(Pkt("write", chunk))
    /\ UNCHANGED <<method, pc, cur, chunk, timeout, flashed, result, devVars>>

(* The lines were flushed, but the write of the packet itself failed.      *)
ResendError ==
    /\ Retry(TRUE)
    /\ toDev' \in NotFlushed(toDev)
    /\ ImageFailed
    /\ UNCHANGED <<method, cur, chunk, timeout, flashed, devVars>>

GiveUp ==
    /\ Retry(FALSE)
    /\ ImageFailed
    /\ UNCHANGED <<method, cur, chunk, timeout, flashed, toDev, devVars>>

Close ==
    /\ pc = "write"
    /\ chunk = Chunks[cur]
    /\ FlushAndSend(Pkt("close", 0))
    /\ timeout' = ReplyTries
    /\ pc' = "closing"
    /\ UNCHANGED <<method, cur, chunk, retry_cnt, flashed, result, devVars>>

Closed ==
    /\ pc = "closing"
    /\ Receive("closed")
    /\ flashed' = flashed \cup {cur}
    /\ timeout' = 0
    /\ NextImage
    /\ UNCHANGED <<method, chunk, retry_cnt, result, toDev, devVars>>

CloseRefused ==
    /\ pc = "closing"
    /\ \E r \in Reply \ {"closed"} : Receive(r)
    /\ timeout' = 0
    /\ ImageFailed
    /\ UNCHANGED <<method, cur, chunk, retry_cnt, flashed, toDev, devVars>>

CloseTimeout ==
    /\ pc = "closing"
    /\ toHost = <<>>
    /\ timeout = 1
    /\ timeout' = 0
    /\ ImageFailed
    /\ UNCHANGED <<method, cur, chunk, retry_cnt, flashed, toDev, toHost, devVars>>

-----------------------------------------------------------------------------
(* What follows the last image. *)

(* handle_reset waits for no reply and always returns 1.                   *)
Reset ==
    /\ pc = "reset"
    /\ toDev' \in Sent(toDev, [type |-> "reset", img |-> Misc, chunk |-> 0])
    /\ IF method = "streaming" THEN End("ok")
                               ELSE pc' = "wait_adb" /\ UNCHANGED result
    /\ UNCHANGED <<method, cur, chunk, timeout, retry_cnt, flashed, toHost, devVars>>

(* wait_adb sees the adb interface of the restarted module.                *)
AdbFound ==
    /\ pc = "wait_adb"
    /\ rebooted
    /\ pc' = "fastboot"
    /\ UNCHANGED <<method, cur, chunk, timeout, retry_cnt, flashed, result,
                   toDev, toHost, devVars>>

AdbTimeout ==
    /\ pc = "wait_adb"
    /\ End("failed")
    /\ UNCHANGED <<method, cur, chunk, timeout, retry_cnt, flashed,
                   toDev, toHost, devVars>>

(* downloadfastboot: what is left in ufile_list, in order. A flash whose   *)
(* child reports success has written the partition; any child may also     *)
(* never return.                                                           *)
FastbootFlash ==
    /\ pc = "fastboot"
    /\ \E i \in Rest \ flashed :
          /\ \A k \in Rest \ flashed : i <= k
          /\ flashed' = flashed \cup {i}
          /\ committed' = committed \cup {i}
    /\ UNCHANGED <<method, pc, cur, chunk, timeout, retry_cnt, result, toDev, toHost,
                   devOpen, flash, rebooted, logs>>

FastbootFails ==
    /\ pc = "fastboot"
    /\ Rest \ flashed # {}
    /\ End("failed")
    /\ UNCHANGED <<method, cur, chunk, timeout, retry_cnt, flashed,
                   toDev, toHost, devVars>>

(* do_fastboot("reboot"), whose result is ignored.                         *)
FastbootReboot ==
    /\ pc = "fastboot"
    /\ Rest \subseteq flashed
    /\ End("ok")
    /\ UNCHANGED <<method, cur, chunk, timeout, retry_cnt, flashed,
                   toDev, toHost, devVars>>

Host ==
    \/ Unreadable \/ Open \/ Opened \/ OpeningLog \/ OpenRefused \/ OpenTimeout
    \/ WaitAgain
    \/ Write \/ WriteError \/ Written \/ Resend \/ ResendError \/ GiveUp
    \/ Close \/ Closed \/ CloseRefused \/ CloseTimeout
    \/ Reset \/ AdbFound \/ AdbTimeout
    \/ FastbootFlash \/ FastbootFails \/ FastbootReboot

-----------------------------------------------------------------------------
(* The module (external). It takes the packets in order, answers each at   *)
(* most once, and may answer late: a timeout of the host is possible       *)
(* whenever nothing has arrived.                                           *)

Arrived(type) ==
    /\ ~rebooted
    /\ toDev # <<>>
    /\ Head(toDev).type = type
    /\ toDev' = Tail(toDev)

Answer(r) == toHost' \in {toHost, Append(toHost, r)}

DevOpen ==
    /\ Arrived("open")
    /\ devOpen' = Head(toDev).img
    /\ Answer("opened")
    /\ UNCHANGED <<hostVars, flash, committed, rebooted, logs>>

DevWrite ==
    /\ Arrived("write")
    /\ devOpen # None
    /\ flash' = flash \cup {<<devOpen, Head(toDev).img, Head(toDev).chunk>>}
    /\ Answer("written")
    /\ UNCHANGED <<hostVars, devOpen, committed, rebooted, logs>>

DevClose ==
    /\ Arrived("close")
    /\ devOpen # None
    /\ committed' = committed \cup {devOpen}
    /\ devOpen' = None
    /\ Answer("closed")
    /\ UNCHANGED <<hostVars, flash, rebooted, logs>>

DevReset ==
    /\ Arrived("reset")
    /\ rebooted' = TRUE
    /\ UNCHANGED <<hostVars, toHost, devOpen, flash, committed, logs>>

(* A packet that arrives damaged, or that the module rejects.              *)
DevReject ==
    /\ \E t \in {"open", "write", "close", "reset"} : Arrived(t)
    /\ Answer("unknown")
    /\ UNCHANGED <<hostVars, devVars>>

DevLog ==
    /\ ~rebooted
    /\ logs < MaxLogs
    /\ logs' = logs + 1
    /\ toHost' = Append(toHost, "log")
    /\ UNCHANGED <<hostVars, toDev, devOpen, flash, committed, rebooted>>

Module == DevOpen \/ DevWrite \/ DevClose \/ DevReset \/ DevReject \/ DevLog

Next == Host \/ Module

(* The host is one running process, and each wait of the streamed part     *)
(* ends by itself (select has a timeout). A fastboot child need not return *)
(* (its transfers have no timeout, and neither has the fgets that waits    *)
(* for it); nothing is assumed of the module or the line.                  *)
StreamedPart == Host /\ pc # "fastboot"

Spec == Init /\ [][Next]_vars /\ WF_vars(StreamedPart)

-----------------------------------------------------------------------------
TypeOK ==
    /\ method \in {"streaming", "fastboot"}
    /\ pc \in {"prepare", "opening", "write", "writing", "closing", "reset",
               "wait_adb", "fastboot", "done"}
    /\ cur \in Partitions
    /\ chunk \in Nat
    /\ timeout \in 0..ReplyTries
    /\ retry_cnt \in [Partitions -> 0..WriteTries]
    /\ flashed \subseteq Partitions
    /\ result \in {"none", "ok", "failed", "crashed"}
    /\ toDev \in Seq(Packet)
    /\ toHost \in Seq(Reply)
    /\ devOpen \in Partitions \cup {None}
    /\ flash \subseteq Partitions \X Partitions \X Nat
    /\ committed \subseteq Partitions
    /\ rebooted \in BOOLEAN
    /\ logs \in 0..MaxLogs

Missing(i) == {c \in 0..(Chunks[i] - 1) : <<i, i, c>> \notin flash}

(* An image written without a resend (handle_write met no timeout and no   *)
(* strange reply) and closed is on the module completely.                  *)
CleanImagesComplete ==
    \A i \in flashed \ Rest : retry_cnt[i] = WriteTries => Missing(i) = {}

(* A belated acknowledgement taken for the next chunk's can leave a chunk  *)
(* of a closed image unwritten; but each such hole costs one of the        *)
(* resends, of which handle_write has WriteTries - 1 for the whole image.  *)
HolesCostResends ==
    \A i \in flashed \ Rest : Cardinality(Missing(i)) <= WriteTries - retry_cnt[i]

(* The module never stores a chunk of one image in another's partition,    *)
(* whatever is late or resent.                                             *)
OwnPartition == \A f \in flash : f[1] = f[2]

(* The module is restarted only after everything that is streamed has      *)
(* been closed.                                                            *)
ResetComesLast == rebooted => {Misc} \cup Streamed \subseteq committed

(* A download that reports success has put misc and every image but MIBIB  *)
(* on the module, and has not touched MIBIB.                               *)
SuccessIsComplete ==
    /\ result = "ok" => {Misc} \cup (Images \ Mibib) \subseteq committed
    /\ committed \cap Mibib = {}

(* The order of PackageFlash: misc, the images streamed, the rest.         *)
Rank == [i \in {Misc} \cup (Images \ Mibib) |-> IF i \in Rest THEN Boot + i ELSE i]

(* What the module has closed implements the promise of PackageFlash: a    *)
(* crash counts as a failure, and the invalid boot image is no part of it. *)
Promise == INSTANCE PackageFlash WITH
    rank <- Rank,
    done <- committed \ {Boot},
    outcome <- IF result = "crashed" THEN "failed" ELSE result

ImplementsPackageFlash == Promise!Spec

(* Whatever the module does, the download ends: always by method 1, and by *)
(* method 0 unless it waits for ever for a fastboot child, to which it     *)
(* comes only with all that is streamed closed and the module restarted.   *)
Terminates ==
    \/ <>(pc = "done")
    \/ method = "fastboot" /\ <>[](pc = "fastboot" /\ rebooted /\ {Misc} \cup Stage \subseteq committed)
=============================================================================
