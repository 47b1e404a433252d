--------------------------------- MODULE Fastboot ---------------------------------
(***************************************************************************)
(* Flashing over fastboot. The parent (downloadfastboot and do_fastboot,   *)
(* download.cpp) starts one child for each image and counts the lines of   *)
(* its output that contain OKAY; the child (fastboot_main, the queue of    *)
(* engine.c, check_response and _command_send of protocol.c) downloads the *)
(* image into the bootloader's buffer and has it written to a partition.   *)
(*                                                                         *)
(* The parent reads the child's output to its end before it looks at the   *)
(* count, so a line is counted when it is printed. The transfers have no   *)
(* timeout: they end when the bootloader takes or sends something, or when *)
(* the USB handle is lost. The bootloader is external; its texts are       *)
(* assumed not to contain the word OKAY.                                   *)
(***************************************************************************)
EXTENDS Naturals, Sequences

CONSTANTS
    UfileCount,   \* entries of ufile_list; an image is its position in the list
    Mibib,        \* the positions named "0:MIBIB"
    Stage,        \* the positions named 0:TZ, 0:RPM, 0:SBL or 0:aboot
    MaxInfos,     \* bound: INFO lines of the bootloader
    MaxLeaves     \* bound: times the module leaves the bus by itself

Images == 1..UfileCount

ASSUME FastbootAssumption ==
    /\ UfileCount \in Nat
    /\ Mibib \subseteq Images
    /\ Stage \subseteq Images \ Mibib
    /\ MaxInfos \in Nat
    /\ MaxLeaves \in Nat

None   == 0                  \* no image: the old content, an empty buffer
Torn   == UfileCount + 1     \* half written
Reboot == UfileCount + 2     \* do_fastboot("reboot")

(* ignore_sahara_stage_files, or do_fastboot_download, took out the others.*)
ufile_list == (Images \ Mibib) \ Stage

VARIABLES
    cur,          \* what the parent has started a child for
    flashed,      \* the images do_fastboot returned 1 for
    recv_okay,    \* lines with OKAY of this child
    result,       \* how the download ended
    cpc,          \* where the child is; "ended" when there is none
    queue,        \* the actions it has not completed
    usb,          \* its USB handle: "closed", "open", "lost"
    toDev,        \* the command or data the bootloader has not handled
    toHost,       \* the answers the child has not read
    present,      \* the bootloader is on the bus
    buffer,       \* the image it has downloaded
    held,         \* what each partition holds
    infos, leaves \* faults so far

parentVars == <<cur, flashed, recv_okay, result>>
childVars  == <<cpc, queue, usb>>
devVars    == <<present, buffer, held, infos, leaves>>
vars       == <<parentVars, childVars, toDev, toHost, devVars>>

Actions == {"download", "flash", "reboot"}
Answers == {"OKAY", "FAIL", "DATA", "toolarge", "INFO", "unknown"}

Init ==
    /\ cur = None
    /\ flashed = {}
    /\ recv_okay = 0
    /\ result = "none"
    /\ cpc = "ended"
    /\ queue = <<>>
    /\ usb = "closed"
    /\ toDev = "none"
    /\ toHost = <<>>
    /\ present \in BOOLEAN
    /\ buffer = None
    /\ held = [i \in Images |-> None]
    /\ infos = 0
    /\ leaves = 0

-----------------------------------------------------------------------------
(* The parent. *)

Left == ufile_list \ flashed

(* popen: main of the child fills its queue before it opens the device.    *)
Child(i, actions) ==
    /\ cur' = i
    /\ recv_okay' = 0
    /\ queue' = actions
    /\ cpc' = "open"
    /\ UNCHANGED <<flashed, result, usb>>

StartFlash ==
    /\ cpc = "ended" /\ cur = None /\ result = "none"
    /\ \E i \in Left :
          /\ \A j \in Left : i <= j
          /\ Child(i, <<"download", "flash">>)
    /\ UNCHANGED <<toDev, toHost, devVars>>

(* The image is not readable, or popen fails.                              *)
CannotStart ==
    /\ cpc = "ended" /\ cur = None /\ result = "none"
    /\ Left # {}
    /\ result' = "failed"
    /\ UNCHANGED <<cur, flashed, recv_okay, childVars, toDev, toHost, devVars>>

(* do_fastboot returns recv_okay == 2; the exit status is not looked at.   *)
FlashOk ==
    /\ cpc = "ended" /\ cur \in Images
    /\ recv_okay = 2
    /\ flashed' = flashed \cup {cur}
    /\ cur' = None
    /\ UNCHANGED <<recv_okay, result, childVars, toDev, toHost, devVars>>

FlashFailedMutant ==     \* the loop goes on with the next image
    /\ cpc = "ended" /\ cur \in Images
    /\ recv_okay # 2
    /\ flashed' = flashed \cup {cur}
    /\ cur' = None
    /\ UNCHANGED <<recv_okay, result, childVars, toDev, toHost, devVars>>

FlashFailed ==
    /\ cpc = "ended" /\ cur \in Images
    /\ recv_okay # 2
    /\ result' = "failed"
    /\ cur' = None
    /\ UNCHANGED <<flashed, recv_okay, childVars, toDev, toHost, devVars>>

StartReboot ==
    /\ cpc = "ended" /\ cur = None /\ result = "none"
    /\ Left = {}
    /\ Child(Reboot, <<"reboot">>)
    /\ UNCHANGED <<toDev, toHost, devVars>>

(* The result of do_fastboot("reboot") is ignored.                         *)
RebootDone ==
    /\ cpc = "ended" /\ cur = Reboot
    /\ result' = "ok"
    /\ cur' = None
    /\ UNCHANGED <<flashed, recv_okay, childVars, toDev, toHost, devVars>>

Parent ==
    \/ StartFlash \/ CannotStart \/ FlashOk \/ FlashFailed
    \/ StartReboot \/ RebootDone

-----------------------------------------------------------------------------
(* The child. *)

(* The child ends, and its handle with it.                                 *)
Exit ==
    /\ cpc' = "ended"
    /\ usb' = "closed"

(* The action in front is over; with the last one the child ends.          *)
NextAction ==
    /\ queue' = Tail(queue)
    /\ IF Len(queue) = 1 THEN Exit ELSE cpc' = "send" /\ UNCHANGED usb

ActionFailedMutant ==    \* "if (status) break;" is forgotten
    NextAction /\ UNCHANGED parentVars

(* cb_default prints FAILED, and the queue is left.                        *)
ActionFailed == Exit /\ UNCHANGED <<queue, parentVars>>

(* cb_default prints OKAY; cb_do_nothing of a reboot prints nothing.       *)
ActionDone ==
    /\ NextAction
    /\ recv_okay' = IF Head(queue) = "reboot" THEN recv_okay ELSE recv_okay + 1
    /\ UNCHANGED <<cur, flashed, result>>

OpenDevice ==
    /\ cpc = "open"
    /\ present
    /\ usb' = "open"
    /\ cpc' = "send"
    /\ UNCHANGED <<queue, parentVars, toDev, toHost, devVars>>

(* die("cannot open device"), or "cannot load" of the image.               *)
CannotOpen ==
    /\ cpc = "open"
    /\ Exit
    /\ UNCHANGED <<queue, parentVars, toDev, toHost, devVars>>

(* usb_write of the command; a reboot and a flash wait for their answer    *)
(* without expecting data.                                                 *)
SendCommand ==
    /\ cpc = "send"
    /\ usb = "open" /\ toDev = "none"
    /\ toDev' = Head(queue)
    /\ cpc' = IF Head(queue) = "download" THEN "data?" ELSE "okay?"
    /\ UNCHANGED <<queue, usb, parentVars, toHost, devVars>>

(* check_response read the next answer.                                    *)
Response(r) ==
    /\ cpc \in {"data?", "okay?"}
    /\ usb = "open"
    /\ toHost # <<>>
    /\ Head(toHost) = r
    /\ toHost' = Tail(toHost)

InfoMutant ==            \* a text of the bootloader contains "OKAY"
    /\ Response("INFO")
    /\ recv_okay' = recv_okay + 1
    /\ UNCHANGED <<cur, flashed, result, childVars, toDev, devVars>>

Info ==
    /\ Response("INFO")
    /\ UNCHANGED <<parentVars, childVars, toDev, devVars>>

(* DATA with the size to send: the image follows, from the file.           *)
SendData ==
    /\ cpc = "data?"
    /\ Response("DATA")
    /\ toDev' = "image"
    /\ cpc' = "okay?"
    /\ UNCHANGED <<queue, usb, parentVars, devVars>>

(* OKAY where DATA was asked for means 0 bytes: nothing is sent, and       *)
(* another OKAY is waited for.                                             *)
NoData ==
    /\ cpc = "data?"
    /\ Response("OKAY")
    /\ cpc' = "okay?"
    /\ UNCHANGED <<queue, usb, parentVars, toDev, devVars>>

Okay ==
    /\ cpc = "okay?"
    /\ Response("OKAY")
    /\ ActionDone
    /\ UNCHANGED <<toDev, devVars>>

(* FAIL, more data than there is, anything unknown, DATA out of place.     *)
Refused ==
    /\ \E r \in {"FAIL", "toolarge", "unknown", "DATA"} :
          /\ Response(r)
          /\ r = "DATA" => cpc = "okay?"
    /\ ActionFailed
    /\ UNCHANGED <<toDev, devVars>>

TransferFailsMutant ==   \* a failed read is tried again for ever
    /\ cpc \in {"send", "data?", "okay?"}
    /\ usb = "lost"
    /\ UNCHANGED vars

(* usb_write failed, or usb_read for the sixth time.                       *)
TransferFails ==
    /\ cpc \in {"send", "data?", "okay?"}
    /\ usb = "lost"
    /\ ActionFailed
    /\ UNCHANGED <<toDev, toHost, devVars>>

ChildRuns ==
    \/ OpenDevice \/ CannotOpen \/ SendCommand
    \/ Info \/ SendData \/ NoData \/ Okay \/ Refused \/ TransferFails

Host == Parent \/ ChildRuns

-----------------------------------------------------------------------------
(* The bootloader (external). It handles what it is sent in order and      *)
(* answers each once, or never.                                            *)

Arrived(c) == present /\ toDev = c /\ toDev' = "none"

Answer(r) ==
    /\ toHost' \in {toHost, Append(toHost, r)}
    /\ UNCHANGED <<parentVars, childVars, present, infos, leaves>>

DevDownload ==
    /\ Arrived("download")
    /\ \E r \in {"DATA", "toolarge", "OKAY"} : Answer(r)
    /\ UNCHANGED <<buffer, held>>

DevData ==
    /\ Arrived("image")
    /\ buffer' = cur
    /\ Answer("OKAY")
    /\ UNCHANGED held

DevFlash ==
    /\ Arrived("flash")
    /\ buffer # None
    /\ held' = [held EXCEPT ![cur] = buffer]
    /\ Answer("OKAY")
    /\ UNCHANGED buffer

(* A flash that failed may have destroyed what the partition held.         *)
DevRefuse ==
    /\ \E c \in Actions \cup {"image"} :
          /\ Arrived(c)
          /\ \E r \in {"FAIL", "unknown"} : Answer(r)
          /\ held' \in IF c = "flash" THEN {held, [held EXCEPT ![cur] = Torn]} ELSE {held}
    /\ UNCHANGED buffer

DevInfo ==
    /\ present
    /\ infos < MaxInfos
    /\ infos' = infos + 1
    /\ toHost' = Append(toHost, "INFO")
    /\ UNCHANGED <<parentVars, childVars, toDev, present, buffer, held, leaves>>

(* The module restarts, at the host's wish ...                             *)
Gone ==
    /\ present' = FALSE
    /\ usb' = IF usb = "open" THEN "lost" ELSE usb
    /\ toDev' = "none"
    /\ toHost' = <<>>
    /\ buffer' = None
    /\ UNCHANGED <<parentVars, cpc, queue, infos>>

DevReboot ==
    /\ present /\ toDev = "reboot"
    /\ Gone
    /\ UNCHANGED <<held, leaves>>

(* ... or by itself, in the middle of a write perhaps.                     *)
Leave ==
    /\ present
    /\ leaves < MaxLeaves
    /\ leaves' = leaves + 1
    /\ held' \in IF toDev = "flash" THEN {held, [held EXCEPT ![cur] = Torn]} ELSE {held}
    /\ Gone

(* A module that has left may come back to the same bootloader.            *)
ComeBack ==
    /\ ~present
    /\ leaves < MaxLeaves
    /\ leaves' = leaves + 1
    /\ present' = TRUE
    /\ UNCHANGED <<parentVars, childVars, toDev, toHost, buffer, held, infos>>

Bootloader ==
    \/ DevDownload \/ DevData \/ DevFlash \/ DevRefuse \/ DevInfo
    \/ DevReboot \/ Leave \/ ComeBack

Next == Host \/ Bootloader

(* Parent and child run; the bootloader need not do anything.              *)
Spec == Init /\ [][Next]_vars /\ WF_vars(Host)

-----------------------------------------------------------------------------
TypeOK ==
    /\ cur \in Images \cup {None, Reboot}
    /\ flashed \subseteq ufile_list
    /\ recv_okay \in 0..2
    /\ result \in {"none", "ok", "failed"}
    /\ cpc \in {"ended", "open", "send", "data?", "okay?"}
    /\ queue \in Seq(Actions)
    /\ usb \in {"closed", "open", "lost"}
    /\ usb = "closed" <=> cpc \in {"ended", "open"}
    /\ toDev \in Actions \cup {"none", "image"}
    /\ toHost \in Seq(Answers)
    /\ present \in BOOLEAN
    /\ buffer \in Images \cup {None}
    /\ held \in [Images -> Images \cup {None, Torn}]
    /\ infos \in 0..MaxInfos
    /\ leaves \in 0..MaxLeaves

(* Two lines with OKAY are as good as the child's status: the parent takes *)
(* an image for flashed exactly when the child got through its queue.      *)
CountMeansDone ==
    cpc = "ended" /\ cur \in Images => (recv_okay = 2 <=> queue = <<>>)

(* A partition never gets the image that an earlier child left in the      *)
(* bootloader's buffer, nor an incomplete one.                             *)
OwnImage == \A i \in Images : held[i] \in {None, Torn, i}

(* Every image the parent counts as flashed is whole in its partition.     *)
FlashedIsHeld == \A i \in flashed : held[i] = i

(* Fastboot keeps the promise of PackageFlash for the images left to it:   *)
(* in the order of the list, success only with all of them.                *)
Promise == INSTANCE PackageFlash WITH
    rank <- [i \in ufile_list |-> i],
    done <- {i \in ufile_list : held[i] = i},
    outcome <- result

ImplementsPackageFlash == Promise!Spec

(* When the child's handle is lost the download ends: no further child     *)
(* waits for a bootloader that does not answer.                            *)
LossEnds == usb = "lost" ~> result # "none"
=============================================================================
