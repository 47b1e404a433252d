--------------------------------- MODULE Firehose ---------------------------------
(***************************************************************************)
(* The firehose upgrade. The parent (process_firehose_upgrade and          *)
(* do_firehose, download.cpp) brings the module into emergency download    *)
(* and starts a child, whose output it searches for the module's log line  *)
(* "Requested POWER_RESET". The child (firehose_main_entry and             *)
(* firehose_main) runs sahara_main and then sends the programmer the       *)
(* commands of rawprogram*.xml: a configure, all erases, all programs each *)
(* with its raw image, and a reset.                                        *)
(*                                                                         *)
(* The child reads a stream: one read takes whatever has arrived, whole    *)
(* messages here, up to a kilobyte. It looks for a response first and for  *)
(* a log otherwise; the rest of what it has read is gone. sahara_main is   *)
(* one step, which may also end with the module having been restarted: it  *)
(* returns success then, too. The programmer is external; the payload it   *)
(* asks for is taken to be a whole number of sectors.                      *)
(***************************************************************************)
EXTENDS RawProgram, Sequences

CONSTANTS
    SelfPath,    \* /proc/self/exe can be read
    Payloads,    \* what the programmer may ask for as MaxPayloadSizeToTarget
    MaxLogs      \* bound: log messages sent unasked

ASSUME FirehoseAssumption ==
    /\ SelfPath \in BOOLEAN
    /\ Payloads \subseteq Nat \ {0}
    /\ MaxLogs \in Nat

VARIABLES
    ppc,         \* the parent: "start", "reopen", "read" or "done"
    ok,          \* it has seen the line
    result,      \* what the driver takes process_firehose_upgrade's result for
    pc,          \* the child; "exit" when there is none
    waiting,     \* it is in fh_wait_response_cmd
    x,           \* the loop index, over the table, twice
    filesend,    \* sectors of the image sent
    payload,     \* MaxPayloadSizeToTargetInBytes of the configure command
    files,       \* the images, by their filename
    toDev,       \* what the programmer has not taken
    toHost,      \* messages the child has not read
    mode,        \* the module: "diag", "emergency", "programmer" or "off"
    raw,         \* the program it carries out; 0: it expects a command
    num,         \* the sectors announced for it
    got,         \* what it has received of it
    erased,      \* the erases carried out
    stored,      \* the programs carried out
    logs         \* log messages so far

parentVars == <<ppc, ok, result>>
childVars  == <<pc, waiting, x, filesend, payload>>
devVars    == <<mode, raw, num, got, erased, stored, logs>>
vars       == <<parentVars, childVars, files, toDev, toHost, devVars>>

(* A command, of the line x of the file; "from" is the sectors a program   *)
(* announces. Or a write of an image: the sectors after "from", "many" of  *)
(* them.                                                                   *)
Cmd(t, n, s)        == [type |-> t, line |-> n, from |-> s, many |-> 1]
Piece(n, from, many) == [type |-> "piece", line |-> n, from |-> from, many |-> many]

(* The messages: responses with or without rawmode="true", which may carry *)
(* a payload size (0: none); a log, the log of the reset, and what is not  *)
(* XML (sahara's packets).                                                 *)
Responses == {"ACK", "NAK", "rawACK"}
Messages  == [type : Responses \cup {"log", "resetlog", "junk"}, payload : Payloads \cup {0}]

Msg(t) == [type |-> t, payload |-> 0]

Init ==
    /\ ppc = "start"
    /\ ok = FALSE
    /\ result = "none"
    /\ pc = "exit"
    /\ waiting = FALSE
    /\ x = 0
    /\ filesend = 0
    /\ payload = PerSize
    /\ files \in [Files -> Image]
    /\ toDev = <<>>
    /\ toHost = <<>>
    /\ mode \in {"diag", "emergency"}
    /\ raw = 0
    /\ num = 0
    /\ got = <<>>
    /\ erased = {}
    /\ stored = {}
    /\ logs = 0

-----------------------------------------------------------------------------
(* The parent. *)

(* do_firehose: the child is started and its output read. Without a path   *)
(* to itself it returns 0, as do_fastboot does; here that means success.   *)
StartChild ==
    IF SelfPath
    THEN ppc' = "read" /\ pc' = "sahara" /\ UNCHANGED result
    ELSE ppc' = "done" /\ result' = "ok" /\ UNCHANGED pc

(* popen fails.                                                            *)
NoChild == ppc' = "done" /\ result' = "failed" /\ UNCHANGED pc

(* qusb_find_emergency_port: no switch is needed.                          *)
FoundEmergency ==
    /\ ppc = "start"
    /\ mode = "emergency"
    /\ StartChild \/ NoChild
    /\ UNCHANGED <<ok, waiting, x, filesend, payload, files, toDev, toHost, devVars>>

(* open_port_once and switch_emergency_download, which tries eleven times  *)
(* and may miss the echo of a packet that did its work.                    *)
SwitchEmergency ==
    /\ ppc = "start"
    /\ mode = "diag"
    /\ ppc' \in {"reopen", "done"}
    /\ result' = IF ppc' = "done" THEN "failed" ELSE result
    /\ mode' \in IF ppc' = "done" THEN {"diag", "emergency"} ELSE {"emergency"}
    /\ UNCHANGED <<ok, childVars, files, toDev, toHost, raw, num, got, erased, stored, logs>>

(* close_and_reopen_without_wait may fail; else do_firehose. The child     *)
(* opens the device by itself.                                             *)
Reopen ==
    /\ ppc = "reopen"
    /\ StartChild \/ NoChild
    /\ UNCHANGED <<ok, waiting, x, filesend, payload, files, toDev, toHost, devVars>>

(* End of the child's output: its exit status is not looked at.            *)
ChildEnded ==
    /\ ppc = "read"
    /\ pc = "exit"
    /\ ppc' = "done"
    /\ result' = IF ok THEN "ok" ELSE "failed"
    /\ UNCHANGED <<ok, childVars, files, toDev, toHost, devVars>>

Parent == FoundEmergency \/ SwitchEmergency \/ Reopen \/ ChildEnded

-----------------------------------------------------------------------------
(* The child. *)

Goto(p, n) ==
    /\ pc' = p
    /\ x' = n
    /\ filesend' = 0
    /\ waiting' = FALSE

(* error_return(), or the end.                                             *)
Exit == Goto("exit", 0)

(* n is the first command of S from line "from" on.                        *)
First(S, from, n) == n \in S /\ n >= from /\ \A k \in S : k >= from => n <= k

NextProgram(n) ==
    \/ \E k \in Programs : First(Programs, n, k) /\ Goto("program", k)
    \/ (\A k \in Programs : k < n) /\ Goto("reset", 0)

NextEraseMutant(n) ==    \* "x + 1 < fh_cmd_count"
    \/ \E k \in Erases : First(Erases, n, k) /\ k < NumLines /\ Goto("erase", k)
    \/ (\A k \in Erases : k < n \/ k = NumLines) /\ NextProgram(1)

NextErase(n) ==
    \/ \E k \in Erases : First(Erases, n, k) /\ Goto("erase", k)
    \/ (\A k \in Erases : k < n) /\ NextProgram(1)

ImageOf(n) == files[Filename[n]]
Sectors(n) == FixupProgramCmd(ImageOf(n))

(* fh_fixup_program_cmd has found every image; a division by a sector size *)
(* of 0 ends the child, too.                                               *)
Prepared ==
    /\ FhCmdTable # {}
    /\ \A n \in Programs : Sectored[n] /\ Sectors(n) # 0

(* No device, no sahara, no rawprogram file, an image that is missing:     *)
(* error_return() before anything was sent.                                *)
CannotStart ==
    /\ pc \in {"sahara", "open"}
    /\ Exit
    /\ UNCHANGED <<parentVars, payload, files, toDev, toHost, devVars>>

(* sahara_main returned 0. The programmer runs and greets with a log; or   *)
(* the module was restarted, and sends its sahara hello.                   *)
SaharaDone ==
    /\ pc = "sahara"
    /\ mode = "emergency"
    /\ Goto("open", 0)
    /\ \/ /\ mode' = "programmer"
          /\ toHost' \in {<<>>, <<Msg("log")>>}
       \/ /\ mode' \in {"emergency", "diag"}
          /\ toHost' \in {<<>>, <<Msg("junk")>>}
    /\ UNCHANGED <<parentVars, payload, files, toDev, raw, num, got, erased, stored, logs>>

(* One read: the k oldest messages that have arrived. Everything is        *)
(* printed, and the parent looks for its line in it.                       *)
Read(k) ==
    /\ toHost' = SubSeq(toHost, k + 1, Len(toHost))
    /\ ok' = IF \E j \in 1..k : toHost[j].type = "resetlog" THEN TRUE ELSE ok
    /\ UNCHANGED <<ppc, result>>

Batches == 1..Len(toHost)

IsResponse(j) == toHost[j].type \in Responses

(* qusb_open, and one fh_recv_cmd whose result is ignored.                 *)
FirstRecv ==
    /\ pc = "open"
    /\ Prepared
    /\ Goto("configure", 0)
    /\ \/ toHost = <<>> /\ UNCHANGED <<toHost, parentVars>>
       \/ \E k \in Batches : Read(k)
    /\ UNCHANGED <<payload, files, toDev, devVars>>

FhReset == Cmd("reset", 0, 0)

(* A program announces the sectors that were counted before.               *)
FhSendCmd == Cmd(pc, x, IF pc = "program" THEN Sectors(x) ELSE 0)

(* Whether the write succeeded is ignored.                                 *)
SendCmd ==
    /\ pc \in {"configure", "erase", "program", "reset"}
    /\ ~waiting
    /\ waiting' = TRUE
    /\ toDev' \in {toDev, Append(toDev, IF pc = "reset" THEN FhReset ELSE FhSendCmd)}
    /\ UNCHANGED <<pc, x, filesend, payload, parentVars, files, toHost, devVars>>

(* A write returns when the module has taken it; then the child waits.     *)
Listening == waiting /\ toDev = <<>>

(* fh_recv_cmd: the first response of the batch wins over any log.         *)
Answered(r) ==
    /\ Listening
    /\ \E k \in Batches : \E j \in 1..k :
          /\ Read(k)
          /\ IsResponse(j) /\ toHost[j] = r
          /\ \A i \in 1..(j - 1) : ~IsResponse(i)

AnsweredBy(types) ==
    \E r \in Messages : r.type \in types /\ Answered(r)

(* Logs alone are waited out, as many as there are.                        *)
OnlyLogs ==
    /\ Listening
    /\ \E k \in Batches :
          /\ Read(k)
          /\ \A j \in 1..k : ~IsResponse(j)
          /\ \E j \in 1..k : toHost[j].type \in {"log", "resetlog"}
    /\ UNCHANGED <<childVars, files, toDev, devVars>>

NeitherOfBoth ==
    /\ Listening
    /\ \E k \in Batches :
          /\ Read(k)
          /\ \A j \in 1..k : toHost[j].type = "junk"
    /\ Exit
    /\ UNCHANGED <<payload, files, toDev, devVars>>

TimeoutMutant ==         \* poll is called again, as after EINTR
    /\ Listening
    /\ toHost = <<>>
    /\ UNCHANGED vars

(* poll waited 3, 5 or 15 s in vain.                                       *)
Timeout ==
    /\ Listening
    /\ toHost = <<>>
    /\ Exit
    /\ UNCHANGED <<payload, parentVars, files, toDev, toHost, devVars>>

(* A NAK is as good as an ACK here; rawmode is not looked at yet. The size *)
(* it carries, if any, is that of the writes from now on.                  *)
Configured ==
    /\ pc = "configure"
    /\ \E r \in Messages :
          /\ Answered(r)
          /\ payload' = IF r.payload = 0 THEN payload ELSE r.payload
    /\ NextErase(1)
    /\ UNCHANGED <<files, toDev, devVars>>

Erased ==
    /\ pc = "erase"
    /\ AnsweredBy({"ACK", "rawACK"})
    /\ NextErase(x + 1)
    /\ UNCHANGED <<payload, files, toDev, devVars>>

ProgramAccepted ==
    /\ pc = "program"
    /\ AnsweredBy({"rawACK"})
    /\ Goto("raw", x)
    /\ UNCHANGED <<payload, files, toDev, devVars>>

Most == IF payload < PerSize THEN payload ELSE PerSize

(* fh_send_rawmode_image: one write after the other; one that usbfs cuts   *)
(* short ends the child.                                                   *)
SendPiece ==
    /\ pc = "raw"
    /\ ~waiting
    /\ MoreToSend(ImageOf(x), filesend)
    /\ toDev = <<>>
    /\ LET reads  == Reads(ImageOf(x), filesend, Most)
           writes == UsbfsBulkWrite(reads)
       IN /\ toDev' = <<Piece(x, filesend, writes)>>
          /\ IF reads = writes
             THEN filesend' = filesend + reads /\ UNCHANGED <<pc, waiting, x>>
             ELSE Exit
    /\ UNCHANGED <<payload, parentVars, files, toHost, devVars>>

(* A write fails, or the file ends early: filesend < filesize.             *)
PieceFails ==
    /\ pc = "raw"
    /\ ~waiting
    /\ MoreToSend(ImageOf(x), filesend)
    /\ Exit
    /\ UNCHANGED <<payload, parentVars, files, toDev, toHost, devVars>>

ImageSent ==
    /\ pc = "raw"
    /\ ~waiting
    /\ ~MoreToSend(ImageOf(x), filesend)
    /\ waiting' = TRUE
    /\ UNCHANGED <<pc, x, filesend, payload, parentVars, files, toDev, toHost, devVars>>

ProgramDoneMutant ==     \* any response ends the image
    /\ pc = "raw"
    /\ AnsweredBy(Responses)
    /\ NextProgram(x + 1)
    /\ UNCHANGED <<payload, files, toDev, devVars>>

ProgramDone ==
    /\ pc = "raw"
    /\ AnsweredBy({"ACK"})
    /\ NextProgram(x + 1)
    /\ UNCHANGED <<payload, files, toDev, devVars>>

Refused ==
    /\ \/ pc = "erase"   /\ AnsweredBy({"NAK"})
       \/ pc = "program" /\ AnsweredBy({"ACK", "NAK"})
       \/ pc = "raw"     /\ AnsweredBy({"rawACK", "NAK"})
    /\ Exit
    /\ UNCHANGED <<payload, files, toDev, devVars>>

(* Whatever the response is: the child ends, with status 0.                *)
ResetAnswered ==
    /\ pc = "reset"
    /\ AnsweredBy(Responses)
    /\ Exit
    /\ UNCHANGED <<payload, files, toDev, devVars>>

Child ==
    \/ CannotStart \/ SaharaDone \/ FirstRecv \/ SendCmd
    \/ OnlyLogs \/ NeitherOfBoth \/ Timeout
    \/ Configured \/ Erased \/ ProgramAccepted \/ SendPiece \/ PieceFails
    \/ ImageSent \/ ProgramDone \/ Refused \/ ResetAnswered

Host == Parent \/ Child

-----------------------------------------------------------------------------
(* The module (external). It takes what it is sent in order. In raw mode   *)
(* it counts sectors, and takes anything for the next ones of the image.   *)

Take ==
    /\ toDev # <<>>
    /\ toDev' = Tail(toDev)
    /\ UNCHANGED <<parentVars, childVars, files, logs>>

Arg == Head(toDev)

Say(q) == \E k \in 0..Len(q) : toHost' = toHost \o SubSeq(q, 1, k)

TakeCmd(t) ==
    /\ mode = "programmer" /\ raw = 0
    /\ Take
    /\ Arg.type = t

DevConfigure ==
    /\ TakeCmd("configure")
    /\ \E r \in {"ACK", "NAK"}, size \in Payloads \cup {0} :
          Say(<<[type |-> r, payload |-> size]>>)
    /\ UNCHANGED <<mode, raw, num, got, erased, stored>>

DevErase ==
    /\ TakeCmd("erase")
    /\ erased' = erased \cup {Arg.line}
    /\ Say(<<Msg("ACK")>>)
    /\ UNCHANGED <<mode, raw, num, got, stored>>

DevProgram ==
    /\ TakeCmd("program")
    /\ raw' = Arg.line
    /\ num' = Arg.from
    /\ got' = <<>>
    /\ Say(<<Msg("rawACK")>>)
    /\ UNCHANGED <<mode, erased, stored>>

(* The sectors of what was taken: the line and the place of each.          *)
Data(p) == [k \in 1..p.many |-> <<p.line, p.from + k>>]

(* With the last sector, the image is written, or was not valid.           *)
DevRaw ==
    /\ mode = "programmer" /\ raw # 0
    /\ Take
    /\ LET all == got \o Data(Arg)
       IN IF Len(all) < num
          THEN /\ got' = all
               /\ UNCHANGED <<raw, num, stored, toHost>>
          ELSE /\ got' = <<>>
               /\ raw' = 0 /\ num' = 0
               /\ \/ /\ stored' = stored \cup {<<raw, all>>}
                     /\ Say(<<Msg("ACK")>>)
                  \/ /\ UNCHANGED stored
                     /\ Say(<<Msg("NAK")>>)
    /\ UNCHANGED <<mode, erased>>

(* The log comes before the response, of which the restart may keep some.  *)
DevReset ==
    /\ TakeCmd("reset")
    /\ mode' = "off"
    /\ Say(<<Msg("resetlog"), Msg("ACK")>>)
    /\ UNCHANGED <<raw, num, got, erased, stored>>

(* A command the programmer refuses, or data it does not expect, and       *)
(* whatever a module takes that does not run it.                           *)
DevRefuse ==
    /\ mode = "programmer" => raw = 0
    /\ Take
    /\ Say(IF mode = "programmer" THEN <<Msg("NAK")>> ELSE <<>>)
    /\ UNCHANGED <<mode, raw, num, got, erased, stored>>

DevTakes ==
    DevConfigure \/ DevErase \/ DevProgram \/ DevRaw \/ DevReset \/ DevRefuse

(* A log, or one more hello of a module that was restarted.                *)
DevLog ==
    /\ ppc = "read" /\ pc # "sahara"
    /\ mode \in {"programmer", "emergency"}
    /\ logs < MaxLogs
    /\ logs' = logs + 1
    /\ toHost' = Append(toHost, Msg(IF mode = "programmer" THEN "log" ELSE "junk"))
    /\ UNCHANGED <<parentVars, childVars, files, toDev, mode, raw, num, got, erased, stored>>

Next == Host \/ DevTakes \/ DevLog

(* Parent and child run. A write over usbfs has no timeout, so the module  *)
(* has to take what it is sent; it need not answer.                        *)
Spec == Init /\ [][Next]_vars /\ WF_vars(Host) /\ WF_vars(DevTakes)

-----------------------------------------------------------------------------
Sent == [type : {"configure", "erase", "program", "reset", "piece"},
         line : Nat, from : Nat, many : Nat]

TypeOK ==
    /\ ppc \in {"start", "reopen", "read", "done"}
    /\ ok \in BOOLEAN
    /\ result \in {"none", "ok", "failed"}
    /\ result # "none" <=> ppc = "done"
    /\ pc \in {"sahara", "open", "configure", "erase", "program", "raw", "reset", "exit"}
    /\ pc # "exit" => ppc = "read"
    /\ waiting \in BOOLEAN
    /\ x \in 0..NumLines
    /\ filesend \in 0..(MaxSectors + 1)
    /\ payload \in Payloads \cup {PerSize}
    /\ files \in [Files -> Image]
    /\ toDev \in Seq(Sent)
    /\ toHost \in Seq(Messages)
    /\ mode \in {"diag", "emergency", "programmer", "off"}
    /\ raw \in Programs \cup {0}
    /\ num \in 0..(MaxSectors + 1)
    /\ got \in Seq(Nat \X Nat)
    /\ erased \subseteq Erases
    /\ stored \subseteq Programs \X Seq(Nat \X Nat)
    /\ logs \in 0..MaxLogs

(* Every sector of a program's image, in order.                            *)
Whole(n) == [k \in 1..Sectors(n) |-> <<n, k>>]

Programmed == {n \in Programs : <<n, Whole(n)>> \in stored}

(* What the parent reports from a log line holds: every erase and every    *)
(* program was carried out, although neither the exit status nor sahara's  *)
(* outcome is looked at, and NAKs of the configure count as success. Only  *)
(* where the child cannot even be named is success reported for nothing.   *)
SuccessIsProgrammed ==
    result = "ok" /\ SelfPath => erased = Erases /\ Programmed = Programs

(* Host and programmer agree on where an image ends: it is cut in writes   *)
(* of a size the programmer chose, announced in sectors rounded up from    *)
(* the file's size, its last write is filled up; and no command ever ends  *)
(* up in its data, nor a sector of another image.                          *)
RawIsOwnImage == \A s \in stored : s[2] = Whole(s[1])

(* Firehose keeps the promise of PackageFlash for the programs of its      *)
(* file, where SelfPath holds.                                             *)
Promise == INSTANCE PackageFlash WITH
    rank <- [n \in Programs |-> n],
    done <- Programmed,
    outcome <- result

ImplementsPackageFlash == Promise!Spec

(* The upgrade ends if the module takes what it is sent, answers or not.   *)
Ends == <>(ppc = "done")
=============================================================================
